----------------------------- MODULE Availability -----------------------------
(***************************************************************************)
(* MonitoringAvailabilityFsm (src/DmsTemporalEvents.cpp): an episode of    *)
(* unusable observations is recorded, and later notified, once.  The start *)
(* of the episode is a plain time stamp whose zero stands for none.        *)
(***************************************************************************)
EXTENDS EventMachinesConfig

VARIABLES
  lastTimestamp,         (* hasTimestamp_ and last_                         *)
  unavailableSince, recorded, notified, count,
  result                 (* MonitoringAvailabilityResult without the count  *)

fsm == <<unavailableSince, recorded, notified, count, result>>

vars == <<lastTimestamp, fsm>>

Available ==
  [unavailable |-> FALSE, recordEvent |-> FALSE, notify |-> FALSE,
   notifyEvent |-> FALSE, duration |-> 0]

TypeOK ==
  /\ lastTimestamp \in Optional(Int)
  /\ unavailableSince \in Int
  /\ recorded \in BOOLEAN /\ notified \in BOOLEAN
  /\ count \in Nat
  /\ result \in [unavailable : BOOLEAN, recordEvent : BOOLEAN,
                 notify : BOOLEAN, notifyEvent : BOOLEAN, duration : Nat]

Init ==
  /\ lastTimestamp = None /\ unavailableSince = 0
  /\ recorded = FALSE /\ notified = FALSE
  /\ count = 0 /\ result = Available

reset ==
  /\ lastTimestamp' = None /\ unavailableSince' = 0
  /\ recorded' = FALSE /\ notified' = FALSE
  /\ count' = 0 /\ result' = Available

-----------------------------------------------------------------------------
(* update, by the branch it takes. *)

RejectSample(ts) ==
  /\ NotAfter(lastTimestamp, ts)
  /\ result' = Available
  /\ UNCHANGED <<lastTimestamp, unavailableSince, recorded, notified, count>>

AcceptSample(ts) == ~NotAfter(lastTimestamp, ts) /\ lastTimestamp' = ts

\* Seeded fault: a recovering observation counts as unavailable.
IsAvailableOnlyUsable(usability) == usability = "Usable"

IsAvailable(usability) == usability \in {"Usable", "Recovering"}

\* Seeded fault: the start of an episode survives its end.
BecomeAvailableKeepingStart(ts, usability) ==
  /\ AcceptSample(ts)
  /\ IsAvailable(usability)
  /\ recorded' = FALSE /\ notified' = FALSE
  /\ result' = Available
  /\ UNCHANGED <<unavailableSince, count>>

BecomeAvailable(ts, usability) ==
  /\ AcceptSample(ts)
  /\ IsAvailable(usability)
  /\ unavailableSince' = 0
  /\ recorded' = FALSE /\ notified' = FALSE
  /\ result' = Available
  /\ UNCHANGED count

durationOf(since, ts) == ts - since

StayUnavailable(ts, usability) ==
  LET since == IF unavailableSince = 0 THEN ts ELSE unavailableSince
      record == ~recorded /\ durationOf(since, ts) >= RecordAfter
      notify == ~notified /\ durationOf(since, ts) >= NotifyAfter
  IN  /\ AcceptSample(ts)
      /\ ~IsAvailable(usability)
      /\ unavailableSince' = since
      /\ recorded' = (recorded \/ record)
      /\ notified' = (notified \/ notify)
      /\ count' = count + IF record THEN 1 ELSE 0
      /\ result' = [unavailable |-> TRUE, recordEvent |-> record,
                    notify |-> notified', notifyEvent |-> notify,
                    duration |-> durationOf(since, ts)]

update(ts, usability) ==
  \/ RejectSample(ts)
  \/ BecomeAvailable(ts, usability)
  \/ StayUnavailable(ts, usability)

Next ==
  \/ reset
  \/ \E ts \in Timestamps, usability \in ObservationUsability :
       update(ts, usability)

Spec == Init /\ [][Next]_vars
=============================================================================
