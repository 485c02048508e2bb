--------------------------- MODULE MCEventMachines ---------------------------
(* The instance of the event machines TLC checks. *)
EXTENDS EventMachines

CONSTANT MaxTime

MCTimestamps == 1 .. MaxTime

\* Captured at any instant of the run; scores not finite, below or at the
\* threshold.
MCHeaders ==
  [validity : SourceValidity, capturedAt : 0 .. MaxTime,
   confidence : {None, 0, 1}, visibility : {0, 1}]

MCPolicy ==
  [minimumConfidence |-> 1, minimumVisibility |-> 1, maximumAge |-> 2]

\* Beyond the enter threshold, between the two, and neutral, on both sides.
MCYawInputs == {-30, -20, 0, 25}

MCPitchInputs == {-20, 0, 12, 18}

\* Beyond the enter threshold, between the two, and forward.
MCHorizontalInputs == {-20, 0, 15}

MCVerticalInputs == {0, 20, 30}
=============================================================================
