-------------------------------- MODULE Yawn --------------------------------
(***************************************************************************)
(* YawnFsm (src/DmsTemporalEvents.cpp): a yawn is a confirmed opening of   *)
(* the mouth, a minimum duration and a confirmed closing, all of it seen.  *)
(* Mouth openness is an integer percentage.                                *)
(***************************************************************************)
EXTENDS EventMachinesConfig

VARIABLES
  lastTimestamp,    (* hasTimestamp_ and last_                              *)
  active, candidate, opened, count,
  result            (* YawnResult without the count                         *)

fsm == <<active, candidate, opened, count, result>>

vars == <<lastTimestamp, fsm>>

Result == [active : BOOLEAN, event : BOOLEAN]

NoYawn == [active |-> FALSE, event |-> FALSE]

TypeOK ==
  /\ lastTimestamp \in Optional(Int)
  /\ active \in BOOLEAN
  /\ candidate \in Optional(Int)
  /\ opened \in Optional(Int)
  /\ count \in Nat
  /\ result \in Result

Init ==
  /\ lastTimestamp = None /\ active = FALSE
  /\ candidate = None /\ opened = None
  /\ count = 0 /\ result = NoYawn

reset ==
  /\ lastTimestamp' = None /\ active' = FALSE
  /\ candidate' = None /\ opened' = None
  /\ count' = 0 /\ result' = NoYawn

-----------------------------------------------------------------------------
(* update, by the branch it takes. *)

\* The openness update can use, or None.
Mouth(usability, openness) ==
  IF usability = "Usable" /\ openness # None /\ openness \in 0 .. 100
  THEN openness ELSE None

RejectSample(ts) ==
  /\ NotAfter(lastTimestamp, ts)
  /\ result' = NoYawn
  /\ UNCHANGED <<lastTimestamp, active, candidate, opened, count>>

AcceptSample(ts) == ~NotAfter(lastTimestamp, ts) /\ lastTimestamp' = ts

\* Seeded fault: a hidden mouth only stops the confirmation.
LoseMouthKeepingYawn(ts, mouth) ==
  /\ AcceptSample(ts)
  /\ mouth = None
  /\ candidate' = None
  /\ result' = NoYawn
  /\ UNCHANGED <<active, opened, count>>

LoseMouth(ts, mouth) ==
  /\ AcceptSample(ts)
  /\ mouth = None
  /\ active' = FALSE
  /\ candidate' = None
  /\ opened' = None
  /\ result' = NoYawn
  /\ UNCHANGED count

Opening(mouth) == mouth # None /\ ~active /\ mouth >= YawnOpenThreshold

Closing(mouth) == mouth # None /\ active /\ mouth <= YawnCloseThreshold

OpenMouth(ts, mouth) ==
  LET since == StartedBy(candidate, ts)
      confirmed == ts - since >= YawnConfirmation
  IN  /\ AcceptSample(ts)
      /\ Opening(mouth)
      /\ active' = confirmed
      /\ opened' = IF ~confirmed THEN opened ELSE since
      /\ candidate' = IF confirmed THEN None ELSE since
      /\ result' = [active |-> confirmed, event |-> FALSE]
      /\ UNCHANGED count

\* Seeded fault: the time the mouth takes to close is part of the yawn.
isYawnAtConfirmation(since, ts) ==
  opened # None /\ ts - opened >= YawnMinimumDuration

isYawn(since, ts) == opened # None /\ since - opened >= YawnMinimumDuration

CloseMouth(ts, mouth) ==
  LET since == StartedBy(candidate, ts)
      confirmed == ts - since >= YawnConfirmation
      yawn == confirmed /\ isYawn(since, ts)
  IN  /\ AcceptSample(ts)
      /\ Closing(mouth)
      /\ active' = ~confirmed
      /\ opened' = IF confirmed THEN None ELSE opened
      /\ candidate' = IF confirmed THEN None ELSE since
      /\ count' = count + IF yawn THEN 1 ELSE 0
      /\ result' = [active |-> ~confirmed, event |-> yawn]

\* Neither opening nor closing: what was being confirmed is dropped.
HoldMouth(ts, mouth) ==
  /\ AcceptSample(ts)
  /\ mouth # None /\ ~Opening(mouth) /\ ~Closing(mouth)
  /\ candidate' = None
  /\ result' = [active |-> active, event |-> FALSE]
  /\ UNCHANGED <<active, opened, count>>

Sample(ts, mouth) ==
  \/ RejectSample(ts)
  \/ LoseMouth(ts, mouth)
  \/ OpenMouth(ts, mouth)
  \/ CloseMouth(ts, mouth)
  \/ HoldMouth(ts, mouth)

update(ts, usability, openness) == Sample(ts, Mouth(usability, openness))

MouthSamples ==
  {Mouth(usability, openness) :
     usability \in ObservationUsability, openness \in Optional(MouthInputs)}

Next ==
  \/ reset
  \/ \E ts \in Timestamps, mouth \in MouthSamples : Sample(ts, mouth)

Spec == Init /\ [][Next]_vars
=============================================================================
