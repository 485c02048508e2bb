------------------------------- MODULE Presence -------------------------------
(***************************************************************************)
(* DriverPresenceFsm (src/DmsTemporalEvents.cpp): whether a driver sits in *)
(* the seat, each answer confirmed for a duration of its own.              *)
(***************************************************************************)
EXTENDS EventMachinesConfig

PresenceState == {"Unknown", "Present", "Absent"}

VARIABLES
  lastTimestamp,         (* hasTimestamp_ and last_                         *)
  state, candidate, since,
  returned               (* what update last returned                       *)

fsm == <<state, candidate, since, returned>>

vars == <<lastTimestamp, fsm>>

TypeOK ==
  /\ lastTimestamp \in Optional(Int)
  /\ state \in PresenceState
  /\ candidate \in PresenceState
  /\ since \in Optional(Int)
  /\ returned \in PresenceState

Init ==
  /\ lastTimestamp = None
  /\ state = "Unknown" /\ candidate = "Unknown" /\ since = None
  /\ returned = "Unknown"

reset ==
  /\ lastTimestamp' = None
  /\ state' = "Unknown" /\ candidate' = "Unknown" /\ since' = None
  /\ returned' = "Unknown"

-----------------------------------------------------------------------------
(* update, by the branch it takes. *)

\* A missing detection is evidence of absence; any other lack of quality is
\* evidence of nothing.
RawPresence(usability, detected) ==
  IF detected /\ usability = "Usable" THEN "Present"
  ELSE IF ~detected /\ usability \in {"Usable", "Missing"} THEN "Absent"
  ELSE "Unknown"

RejectSample(ts) ==
  /\ NotAfter(lastTimestamp, ts)
  /\ returned' = "Unknown"
  /\ UNCHANGED <<lastTimestamp, state, candidate, since>>

AcceptSample(ts) == ~NotAfter(lastTimestamp, ts) /\ lastTimestamp' = ts

\* Seeded fault: the answer being confirmed survives a sample of no evidence.
LoseEvidenceKeepingCandidate(ts, raw) ==
  /\ AcceptSample(ts)
  /\ raw = "Unknown"
  /\ state' = "Unknown" /\ returned' = "Unknown"
  /\ UNCHANGED <<candidate, since>>

LoseEvidence(ts, raw) ==
  /\ AcceptSample(ts)
  /\ raw = "Unknown"
  /\ state' = "Unknown" /\ candidate' = "Unknown" /\ since' = None
  /\ returned' = "Unknown"

\* Seeded fault: the two confirmations are mixed up.
requiredSwapped(raw) ==
  IF raw = "Present" THEN AbsentConfirmation ELSE PresentConfirmation

required(raw) ==
  IF raw = "Present" THEN PresentConfirmation ELSE AbsentConfirmation

FollowEvidence(ts, raw) ==
  LET start == IF raw = candidate THEN since ELSE ts
  IN  /\ AcceptSample(ts)
      /\ raw # "Unknown"
      /\ candidate' = raw
      /\ since' = start
      /\ state' = IF Elapsed(start, ts, required(raw)) THEN raw ELSE state
      /\ returned' = state'

Sample(ts, raw) ==
  \/ RejectSample(ts)
  \/ LoseEvidence(ts, raw)
  \/ FollowEvidence(ts, raw)

update(ts, usability, detected) == Sample(ts, RawPresence(usability, detected))

Next ==
  \/ reset
  \/ \E ts \in Timestamps, usability \in ObservationUsability,
        detected \in BOOLEAN : update(ts, usability, detected)

Spec == Init /\ [][Next]_vars
=============================================================================
