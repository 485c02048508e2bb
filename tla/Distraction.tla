----------------------------- MODULE Distraction -----------------------------
(***************************************************************************)
(* DistractionFsm (src/DmsTemporalEvents.cpp): gaze zones with hysteresis  *)
(* and confirmation, and distraction from a gaze or head that stays away.  *)
(* Gaze is an integer percentage of the normalized range.                  *)
(***************************************************************************)
EXTENDS EventMachinesConfig

Direction == {"Left", "Right", "Up", "Down"}

GazeZone == Direction \cup {"Unknown", "Forward"}

HeadZone == Direction \cup {"Unknown", "Neutral"}

VARIABLES
  lastTimestamp,         (* hasTimestamp_ and last_                         *)
  gaze, candidate, candidateSince,
  awaySince, recoverySince, distracted,
  result                 (* DistractionResult                               *)

fsm == <<gaze, candidate, candidateSince, awaySince, recoverySince, distracted,
         result>>

vars == <<lastTimestamp, fsm>>

Result == [gaze : GazeZone, distracted : BOOLEAN, event : BOOLEAN]

TypeOK ==
  /\ lastTimestamp \in Optional(Int)
  /\ gaze \in GazeZone
  /\ candidate \in GazeZone
  /\ candidateSince \in Optional(Int)
  /\ awaySince \in Optional(Int)
  /\ recoverySince \in Optional(Int)
  /\ distracted \in BOOLEAN
  /\ result \in Result

Init ==
  /\ lastTimestamp = None
  /\ gaze = "Unknown" /\ candidate = "Unknown" /\ candidateSince = None
  /\ awaySince = None /\ recoverySince = None /\ distracted = FALSE
  /\ result = [gaze |-> "Unknown", distracted |-> FALSE, event |-> FALSE]

reset ==
  /\ lastTimestamp' = None
  /\ gaze' = "Unknown" /\ candidate' = "Unknown" /\ candidateSince' = None
  /\ awaySince' = None /\ recoverySince' = None /\ distracted' = FALSE
  /\ result' = [gaze |-> "Unknown", distracted |-> FALSE, event |-> FALSE]

-----------------------------------------------------------------------------
(* update, by the branch it takes. *)

Abs(x) == IF x < 0 THEN -x ELSE x

\* A zone is let go only below the exit threshold of its axis.
HorizontalLimit ==
  IF gaze \in {"Left", "Right"} THEN HorizontalExit ELSE HorizontalEnter

VerticalLimit == IF gaze \in {"Up", "Down"} THEN VerticalExit ELSE VerticalEnter

rawGaze(horizontal, vertical) ==
  IF Abs(horizontal) >= HorizontalLimit
    THEN IF horizontal < 0 THEN "Left" ELSE "Right"
  ELSE IF Abs(vertical) >= VerticalLimit
    THEN IF vertical < 0 THEN "Up" ELSE "Down"
  ELSE "Forward"

\* The zone the sample points to, or Unknown when there is no gaze to use.
RawGaze(usability, horizontal, vertical) ==
  IF usability # "Usable" \/ horizontal = None \/ vertical = None
  THEN "Unknown" ELSE rawGaze(horizontal, vertical)

\* A rejected sample repeats what was last known of the distraction.
RejectSample(ts) ==
  /\ NotAfter(lastTimestamp, ts)
  /\ result' = [gaze |-> "Unknown", distracted |-> distracted, event |-> FALSE]
  /\ UNCHANGED <<lastTimestamp, gaze, candidate, candidateSince, awaySince,
                 recoverySince, distracted>>

AcceptSample(ts) == ~NotAfter(lastTimestamp, ts) /\ lastTimestamp' = ts

\* Seeded fault: an occlusion only hides the gaze, both clocks keep running.
LoseGazeKeepingClocks(ts, raw) ==
  /\ AcceptSample(ts)
  /\ raw = "Unknown"
  /\ gaze' = "Unknown" /\ candidate' = "Unknown" /\ candidateSince' = None
  /\ result' = [gaze |-> "Unknown", distracted |-> FALSE, event |-> FALSE]
  /\ UNCHANGED <<awaySince, recoverySince, distracted>>

\* Without a gaze both clocks stop; a distraction stays, unreported.
LoseGaze(ts, raw) ==
  /\ AcceptSample(ts)
  /\ raw = "Unknown"
  /\ gaze' = "Unknown" /\ candidate' = "Unknown" /\ candidateSince' = None
  /\ awaySince' = None /\ recoverySince' = None
  /\ result' = [gaze |-> "Unknown", distracted |-> FALSE, event |-> FALSE]
  /\ UNCHANGED distracted

FollowGaze(ts, raw) ==
  LET since == IF raw = candidate THEN candidateSince ELSE ts
  IN  /\ AcceptSample(ts)
      /\ raw # "Unknown"
      /\ candidate' = raw
      /\ candidateSince' = since
      /\ gaze' = IF Elapsed(since, ts, GazeConfirmation) THEN raw ELSE gaze

\* A gaze not yet confirmed is not Forward, and so counts as away.
Away(zone, head) == zone # "Forward" \/ head \in Direction

LookAway(ts, raw, head) ==
  LET since == StartedBy(awaySince, ts)
      event == ~distracted /\ ts - since >= DistractionDuration
  IN  /\ FollowGaze(ts, raw)
      /\ Away(gaze', head)
      /\ recoverySince' = None
      /\ awaySince' = since
      /\ distracted' = (distracted \/ event)
      /\ result' = [gaze |-> gaze', distracted |-> distracted', event |-> event]

\* Seeded fault: the first forward sample ends a distraction.
recoveredAtOnce(since, ts) == TRUE

recovered(since, ts) == ts - since >= DistractionRecovery

LookForward(ts, raw, head) ==
  LET since == StartedBy(recoverySince, ts)
      over == distracted /\ recovered(since, ts)
  IN  /\ FollowGaze(ts, raw)
      /\ ~Away(gaze', head)
      /\ awaySince' = None
      /\ recoverySince' = IF ~distracted THEN recoverySince
                          ELSE IF over THEN None ELSE since
      /\ distracted' = (distracted /\ ~over)
      /\ result' = [gaze |-> gaze', distracted |-> distracted', event |-> FALSE]

Sample(ts, raw, head) ==
  \/ RejectSample(ts)
  \/ LoseGaze(ts, raw)
  \/ LookAway(ts, raw, head)
  \/ LookForward(ts, raw, head)

update(ts, usability, horizontal, vertical, head) ==
  Sample(ts, RawGaze(usability, horizontal, vertical), head)

GazeSamples ==
  {RawGaze(usability, horizontal, vertical) :
     usability \in ObservationUsability,
     horizontal \in Optional(HorizontalInputs),
     vertical \in Optional(VerticalInputs)}

Next ==
  \/ reset
  \/ \E ts \in Timestamps, raw \in GazeSamples, head \in HeadZone :
       Sample(ts, raw, head)

Spec == Init /\ [][Next]_vars
=============================================================================
