--------------------------- MODULE MCFramePipeline ---------------------------
(* The instance of the frame loop TLC checks: a face that is absent, turned *)
(* away, without a pose, or well seen with eyes open, closed or looking     *)
(* away. *)
EXTENDS FramePipelineHistory

CONSTANT MaxTime

MCTimestamps == 1 .. MaxTime

MCPolicy ==
  [minimumConfidence |-> 1, minimumVisibility |-> 1, maximumAge |-> 0]

MCCalibrations == {[closedEar |-> 15, openEar |-> 30]}

Ahead == [yaw |-> 0, pitch |-> 0, accurate |-> TRUE]

\* A face well seen, eyes open, looking ahead.
Attentive ==
  [detected |-> TRUE, geometry |-> TRUE, pose |-> Ahead, tracked |-> TRUE,
   quality |-> [validity |-> "Valid", confidence |-> 1, visibility |-> 1],
   ears |-> [right |-> 30, left |-> 32], mouth |-> 20,
   gaze |-> [horizontal |-> 0, vertical |-> 0, agrees |-> TRUE]]

Absent ==
  [detected |-> FALSE, geometry |-> FALSE, pose |-> None, tracked |-> FALSE,
   quality |-> [validity |-> "Missing", confidence |-> None,
                visibility |-> None],
   ears |-> [right |-> None, left |-> None], mouth |-> None, gaze |-> None]

MCDiagnosticTimes == {None, 6}

MCFrames ==
  {Attentive, Absent,
   [Attentive EXCEPT !.ears = [right |-> 10, left |-> 10],
                     !.gaze.horizontal = 30],
   [Attentive EXCEPT !.gaze.horizontal = 30],
   [Attentive EXCEPT !.pose = None],
   [Attentive EXCEPT !.pose.yaw = 40],
   [Attentive EXCEPT !.quality.validity = "Occluded"],
   [Attentive EXCEPT !.ears = [right |-> 60, left |-> 50]]}
=============================================================================
