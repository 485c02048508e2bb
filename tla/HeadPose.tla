------------------------------ MODULE HeadPose ------------------------------
(***************************************************************************)
(* HeadPoseFsm (src/DmsTemporalEvents.cpp): head zones with hysteresis and *)
(* confirmation, and the count of movements out of neutral.  Angles are    *)
(* integer degrees.                                                        *)
(***************************************************************************)
EXTENDS EventMachinesConfig

Direction == {"Left", "Right", "Up", "Down"}

HeadZone == Direction \cup {"Unknown", "Neutral"}

VARIABLES
  lastTimestamp,         (* hasTimestamp_ and last_                         *)
  zone, candidateZone, candidateSince, neutralArmed,
  count,                 (* left_, right_, up_ and down_                    *)
  result                 (* HeadPoseResult without the counts               *)

fsm == <<zone, candidateZone, candidateSince, neutralArmed, count, result>>

vars == <<lastTimestamp, fsm>>

Result == [zone : HeadZone, movementEvent : BOOLEAN]

NoPose == [zone |-> "Unknown", movementEvent |-> FALSE]

TypeOK ==
  /\ lastTimestamp \in Optional(Int)
  /\ zone \in HeadZone
  /\ candidateZone \in HeadZone
  /\ candidateSince \in Optional(Int)
  /\ neutralArmed \in BOOLEAN
  /\ count \in [Direction -> Nat]
  /\ result \in Result

Init ==
  /\ lastTimestamp = None
  /\ zone = "Unknown" /\ candidateZone = "Unknown" /\ candidateSince = None
  /\ neutralArmed = TRUE
  /\ count = [d \in Direction |-> 0]
  /\ result = NoPose

reset ==
  /\ lastTimestamp' = None
  /\ zone' = "Unknown" /\ candidateZone' = "Unknown" /\ candidateSince' = None
  /\ neutralArmed' = TRUE
  /\ count' = [d \in Direction |-> 0]
  /\ result' = NoPose

-----------------------------------------------------------------------------
(* update, by the branch it takes. *)

Abs(x) == IF x < 0 THEN -x ELSE x

\* A turned head is let go only below the exit threshold of its axis.
YawLimit == IF zone \in {"Left", "Right"} THEN YawExit ELSE YawEnter

PitchLimit == IF zone \in {"Up", "Down"} THEN PitchExit ELSE PitchEnter

\* Yaw outranks pitch.
rawZone(yaw, pitch) ==
  IF Abs(yaw) >= YawLimit THEN IF yaw < 0 THEN "Left" ELSE "Right"
  ELSE IF Abs(pitch) >= PitchLimit THEN IF pitch < 0 THEN "Up" ELSE "Down"
  ELSE "Neutral"

\* The zone the sample points to, or Unknown when there is no pose to use.
RawZone(usability, yaw, pitch) ==
  IF usability # "Usable" \/ yaw = None \/ pitch = None THEN "Unknown"
  ELSE rawZone(yaw, pitch)

RejectSample(ts) ==
  /\ NotAfter(lastTimestamp, ts)
  /\ result' = NoPose
  /\ UNCHANGED <<lastTimestamp, zone, candidateZone, candidateSince,
                 neutralArmed, count>>

AcceptSample(ts) == ~NotAfter(lastTimestamp, ts) /\ lastTimestamp' = ts

\* Seeded fault: the zone being confirmed survives the loss of the pose.
LosePoseKeepingCandidate(ts, raw) ==
  /\ AcceptSample(ts)
  /\ raw = "Unknown"
  /\ zone' = "Unknown"
  /\ result' = NoPose
  /\ UNCHANGED <<candidateZone, candidateSince, neutralArmed, count>>

LosePose(ts, raw) ==
  /\ AcceptSample(ts)
  /\ raw = "Unknown"
  /\ zone' = "Unknown" /\ candidateZone' = "Unknown" /\ candidateSince' = None
  /\ result' = NoPose
  /\ UNCHANGED <<neutralArmed, count>>

SinceOf(ts, raw) == IF raw = candidateZone THEN candidateSince ELSE ts

Confirmed(ts, raw) ==
  Elapsed(SinceOf(ts, raw), ts, HeadConfirmation) /\ zone # raw

\* What every sample with a pose does to the candidate.
FollowPose(ts, raw) ==
  /\ AcceptSample(ts)
  /\ raw # "Unknown"
  /\ candidateZone' = raw
  /\ candidateSince' = SinceOf(ts, raw)

HoldZone(ts, raw) ==
  /\ FollowPose(ts, raw)
  /\ ~Confirmed(ts, raw)
  /\ result' = [zone |-> zone, movementEvent |-> FALSE]
  /\ UNCHANGED <<zone, neutralArmed, count>>

ReturnToNeutral(ts, raw) ==
  /\ FollowPose(ts, raw)
  /\ Confirmed(ts, raw) /\ raw = "Neutral"
  /\ zone' = "Neutral"
  /\ neutralArmed' = TRUE
  /\ result' = [zone |-> "Neutral", movementEvent |-> FALSE]
  /\ UNCHANGED count

\* Seeded fault: a direction is counted whether or not neutral was reached.
CountsAlways == TRUE

Counts == neutralArmed

TurnHead(ts, raw) ==
  /\ FollowPose(ts, raw)
  /\ Confirmed(ts, raw) /\ raw \in Direction
  /\ zone' = raw
  /\ neutralArmed' = FALSE
  /\ count' = IF Counts THEN [count EXCEPT ![raw] = @ + 1] ELSE count
  /\ result' = [zone |-> raw, movementEvent |-> Counts]

Sample(ts, raw) ==
  \/ RejectSample(ts)
  \/ LosePose(ts, raw)
  \/ HoldZone(ts, raw)
  \/ ReturnToNeutral(ts, raw)
  \/ TurnHead(ts, raw)

update(ts, usability, yaw, pitch) == Sample(ts, RawZone(usability, yaw, pitch))

PoseSamples ==
  {RawZone(usability, yaw, pitch) :
     usability \in ObservationUsability,
     yaw \in Optional(YawInputs), pitch \in Optional(PitchInputs)}

Next ==
  \/ reset
  \/ \E ts \in Timestamps, raw \in PoseSamples : Sample(ts, raw)

Spec == Init /\ [][Next]_vars
=============================================================================
