----------------------------- MODULE MCEyePerclos -----------------------------
(* The instance of the PERCLOS window TLC checks. *)
EXTENDS EyePerclos

CONSTANT MaxTime

MCTimestamps == 0 .. MaxTime

\* Under the first, 10 is closed, 13 lies between the thresholds and 20 is
\* open; under the second, 10 is just closed, 13 and 20 are open.
MCCalibrations ==
  {[closedEar |-> 10, openEar |-> 20], [closedEar |-> 8, openEar |-> 16]}
=============================================================================
