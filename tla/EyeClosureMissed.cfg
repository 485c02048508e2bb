SPECIFICATION HSpec
CONSTANTS
  None = None
  MaxTime = 13
  Timestamps <- MCTimestamps
  UsabilityInputs = {"Usable", "Occluded"}
  EarInputs = {10, 13, 20}
  Calibrations <- MCCalibrations
  CloseOpenness = 25
  ReopenOpenness = 40
  MinimumBlinkClosure = 1
  MaximumBlinkClosure = 2
  MaximumLongBlinkClosure = 4
  ReopenConfirmation = 1
  BlinkRefractory = 2
  ProlongedClosure = 4
  PerclosWindow = 1
  MaximumSampleGap = 2
  MinimumPerclosCoverage = 80
PROPERTY
  ContinuousClosureIsReported
