----------------------------- MODULE MCEyeMetrics -----------------------------
(* The instances of the eye metrics TLC checks. *)
EXTENDS EyeMetricsHistory

CONSTANT MaxTime

MCTimestamps == 0 .. MaxTime

\* 10 is closed, 13 lies between the thresholds and 20 is open.
MCCalibrations ==
  {[closedEar |-> 10, openEar |-> 20], [closedEar |-> 20, openEar |-> 20]}

=============================================================================
