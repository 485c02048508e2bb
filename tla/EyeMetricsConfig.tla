-------------------------- MODULE EyeMetricsConfig --------------------------
(* EyeTemporalConfig and EyeCalibration (include/DmsEyeMetrics.hpp). *)
EXTENDS Observation

CONSTANTS
  UsabilityInputs,   (* the usabilities update may be given                 *)
  EarInputs,         (* the eye aspect ratios a tracker may deliver         *)
  Calibrations,      (* the calibrations setCalibration may be given        *)
  CloseOpenness, ReopenOpenness,              (* EyeTemporalConfig          *)
  MinimumBlinkClosure, MaximumBlinkClosure, MaximumLongBlinkClosure,
  ReopenConfirmation, BlinkRefractory, ProlongedClosure,
  PerclosWindow, MaximumSampleGap,
  MinimumPerclosCoverage                      (* a percentage               *)

EyeCalibration == [closedEar : Int, openEar : Int]

\* EyeCalibration::validate.
validCalibration(c) == 0 <= c.closedEar /\ c.closedEar < c.openEar

ASSUME InputAssumption ==
  /\ UsabilityInputs \subseteq ObservationUsability
  /\ EarInputs \subseteq Int
  /\ Calibrations \subseteq EyeCalibration

\* EyeTemporalConfig::validate.
ValidEyeTemporalConfig ==
  /\ CloseOpenness \in Int /\ ReopenOpenness \in Int
  /\ 0 <= CloseOpenness /\ CloseOpenness < ReopenOpenness
  /\ ReopenOpenness <= 100
  /\ {MinimumBlinkClosure, MaximumBlinkClosure, MaximumLongBlinkClosure,
      ReopenConfirmation, BlinkRefractory, ProlongedClosure, PerclosWindow,
      MaximumSampleGap} \subseteq Int
  /\ 0 < MinimumBlinkClosure /\ MinimumBlinkClosure <= MaximumBlinkClosure
  /\ MaximumBlinkClosure < MaximumLongBlinkClosure
  /\ MaximumLongBlinkClosure <= ProlongedClosure
  /\ 0 < ReopenConfirmation /\ 0 <= BlinkRefractory
  /\ 0 < PerclosWindow /\ 0 < MaximumSampleGap
  /\ MinimumPerclosCoverage \in 0 .. 100

ASSUME EyeTemporalConfigAssumption == ValidEyeTemporalConfig
=============================================================================
