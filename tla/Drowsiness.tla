------------------------------ MODULE Drowsiness ------------------------------
(***************************************************************************)
(* DrowsinessFsm (src/DmsTemporalEvents.cpp): eye evidence and recent      *)
(* yawns combined into Normal, Warning or Drowsy, with an alert held and   *)
(* cleared by evidence of recovery only.                                   *)
(*                                                                         *)
(* What an input's PERCLOS, prolonged closure and long blink amount to is  *)
(* all the machine uses of them: EyeEvidence.                              *)
(***************************************************************************)
EXTENDS EventMachinesConfig, FiniteSets, Sequences

DrowsinessState == {"Unknown", "Normal", "Warning", "Drowsy"}

Alert == {"Warning", "Drowsy"}

PresenceState == {"Unknown", "Present", "Absent"}

VARIABLES
  lastTimestamp,         (* hasTimestamp_ and last_                         *)
  state, recoverySince, alertSince,
  yawns,                 (* the instants of the yawns still evidence        *)
  result                 (* DrowsinessResult                                *)

fsm == <<state, recoverySince, alertSince, yawns, result>>

vars == <<lastTimestamp, fsm>>

TypeOK ==
  /\ lastTimestamp \in Optional(Int)
  /\ state \in DrowsinessState
  /\ recoverySince \in Optional(Int)
  /\ alertSince \in Optional(Int)
  /\ yawns \in Seq(Int)
  /\ result \in [state : DrowsinessState, recentYawns : Nat]

Init ==
  /\ lastTimestamp = None
  /\ state = "Unknown" /\ recoverySince = None /\ alertSince = None
  /\ yawns = <<>>
  /\ result = [state |-> "Unknown", recentYawns |-> 0]

reset ==
  /\ lastTimestamp' = None
  /\ state' = "Unknown" /\ recoverySince' = None /\ alertSince' = None
  /\ yawns' = <<>>
  /\ result' = [state |-> "Unknown", recentYawns |-> 0]

-----------------------------------------------------------------------------
(* update, by the branch it takes. *)

Reaches(perclos, threshold) == perclos # None /\ perclos >= threshold

EyeEvidence(perclos, prolongedClosure, longBlinkEvent) ==
  IF prolongedClosure \/ Reaches(perclos, PerclosDrowsy) THEN "Drowsy"
  ELSE IF longBlinkEvent \/ Reaches(perclos, PerclosWarning) THEN "Warning"
  ELSE "Normal"

\* What an input says of the driver: nothing (None), or the evidence of the
\* eyes and whether a yawn just ended.
Sighting(usability, presence, perclos, prolonged, longBlink, yawn) ==
  IF usability # "Usable" \/ presence # "Present" THEN None
  ELSE [eyes |-> EyeEvidence(perclos, prolonged, longBlink), yawn |-> yawn]

\* Seeded fault: a yawn exactly as old as the window is dropped.
RecentYawnsExclusive(ts) ==
  LET old == {i \in DOMAIN yawns : ts - yawns[i] >= YawnEvidenceWindow}
  IN  SubSeq(yawns, Cardinality(old) + 1, Len(yawns))

\* What is left once the old yawns are popped from the front: yawns are kept in
\* order, so none behind them is older.
RecentYawns(ts) ==
  LET old == {i \in DOMAIN yawns : ts - yawns[i] > YawnEvidenceWindow}
  IN  SubSeq(yawns, Cardinality(old) + 1, Len(yawns))

evidence(sight, recent) ==
  IF sight.eyes = "Normal" /\ Len(recent) >= YawnsForWarning THEN "Warning"
  ELSE sight.eyes

Report == result' = [state |-> state', recentYawns |-> Len(yawns')]

RejectSample(ts) ==
  /\ NotAfter(lastTimestamp, ts)
  /\ result' = [state |-> "Unknown", recentYawns |-> Len(yawns)]
  /\ UNCHANGED <<lastTimestamp, state, recoverySince, alertSince, yawns>>

AcceptSample(ts) == ~NotAfter(lastTimestamp, ts) /\ lastTimestamp' = ts

LoseSight(ts, sight) ==
  /\ AcceptSample(ts)
  /\ sight = None
  /\ yawns' = RecentYawns(ts)
  /\ state' = "Unknown"
  /\ recoverySince' = None
  /\ Report
  /\ UNCHANGED alertSince

SeeDriver(ts, sight) ==
  /\ AcceptSample(ts)
  /\ sight # None
  /\ yawns' = RecentYawns(ts) \o (IF sight.yawn THEN <<ts>> ELSE <<>>)

\* Seeded fault: renewed evidence does not restart the recovery.
FollowKeepingRecovery(ts, sight) ==
  /\ SeeDriver(ts, sight)
  /\ evidence(sight, yawns') # "Normal" \/ state \notin Alert
  /\ state' = evidence(sight, yawns')
  /\ alertSince' = IF state' = "Normal" THEN alertSince
                                        ELSE StartedBy(alertSince, ts)
  /\ UNCHANGED recoverySince
  /\ Report

\* Evidence of an alert, or of no alert when there is none: followed at once.
Follow(ts, sight) ==
  /\ SeeDriver(ts, sight)
  /\ evidence(sight, yawns') # "Normal" \/ state \notin Alert
  /\ state' = evidence(sight, yawns')
  /\ recoverySince' = None
  /\ alertSince' = IF state' = "Normal" THEN alertSince
                                        ELSE StartedBy(alertSince, ts)
  /\ Report

HeldAt(ts) == alertSince # None /\ ts - alertSince < MinimumAlertHold

HoldAlert(ts, sight) ==
  /\ SeeDriver(ts, sight)
  /\ evidence(sight, yawns') = "Normal" /\ state \in Alert
  /\ HeldAt(ts)
  /\ UNCHANGED <<state, recoverySince, alertSince>>
  /\ Report

Recover(ts, sight) ==
  LET since == StartedBy(recoverySince, ts)
      recovered == ts - since >= DrowsinessRecovery
  IN  /\ SeeDriver(ts, sight)
      /\ evidence(sight, yawns') = "Normal" /\ state \in Alert
      /\ ~HeldAt(ts)
      /\ recoverySince' = since
      /\ state' = IF recovered THEN "Normal" ELSE state
      /\ alertSince' = IF recovered THEN None ELSE alertSince
      /\ Report

Sample(ts, sight) ==
  \/ RejectSample(ts)
  \/ LoseSight(ts, sight)
  \/ Follow(ts, sight)
  \/ HoldAlert(ts, sight)
  \/ Recover(ts, sight)

update(ts, usability, presence, perclos, prolonged, longBlink, yawn) ==
  Sample(ts, Sighting(usability, presence, perclos, prolonged, longBlink, yawn))

-----------------------------------------------------------------------------
\* Every sighting the inputs can amount to.
Sightings ==
  {Sighting(usability, presence, perclos, prolonged, longBlink, yawn) :
     usability \in ObservationUsability, presence \in PresenceState,
     perclos \in Optional(PerclosInputs),
     prolonged \in BOOLEAN, longBlink \in BOOLEAN, yawn \in BOOLEAN}

Next ==
  \/ reset
  \/ \E ts \in Timestamps, sight \in Sightings : Sample(ts, sight)

Spec == Init /\ [][Next]_vars
=============================================================================
