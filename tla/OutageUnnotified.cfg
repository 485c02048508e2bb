SPECIFICATION HSpec
CONSTANTS
  None = None
  MaxTime = 9
  Timestamps <- MCTimestamps
  Frames <- MCFrames
  FramePeriods = {1}
  FirstFrame = 1
  DiagnosticTimes <- MCDiagnosticTimes
  RecalibrateAfterAbsence = 2
  RecalibrateAfterInvalidGeometry = 3
  Headers = {}
  policy <- MCPolicy
  ReacquisitionConfirmation = 1
  MouthInputs = {}
  YawnOpenThreshold = 65
  YawnCloseThreshold = 45
  YawnMinimumDuration = 3
  YawnConfirmation = 1
  YawInputs = {}
  PitchInputs = {}
  YawEnter = 25
  YawExit = 15
  PitchEnter = 18
  PitchExit = 10
  HeadConfirmation = 1
  HorizontalInputs = {}
  VerticalInputs = {}
  HorizontalEnter = 20
  HorizontalExit = 12
  VerticalEnter = 25
  VerticalExit = 15
  GazeConfirmation = 1
  DistractionDuration = 2
  DistractionRecovery = 1
  PresentConfirmation = 1
  AbsentConfirmation = 2
  RecordAfter = 1
  NotifyAfter = 3
  PerclosInputs = {}
  PerclosWarning = 20
  PerclosDrowsy = 35
  YawnEvidenceWindow = 6
  YawnsForWarning = 2
  MinimumAlertHold = 1
  DrowsinessRecovery = 2
  UsabilityInputs = {}
  EarInputs = {}
  Calibrations <- MCCalibrations
  CloseOpenness = 25
  ReopenOpenness = 40
  MinimumBlinkClosure = 1
  MaximumBlinkClosure = 1
  MaximumLongBlinkClosure = 2
  ReopenConfirmation = 1
  BlinkRefractory = 1
  ProlongedClosure = 2
  PerclosWindow = 6
  MaximumSampleGap = 1
  MinimumPerclosCoverage = 80
  EyeConfirmation = 2
  MinimumCandidateEar = 18
  MaximumEarRange = 8
  ClosedToOpenRatio = 50
  NeutralConfirmation = 2
  MaximumYawRange = 10
  MaximumPitchRange = 10
INVARIANTS
  LongOutageIsNotified
CHECK_DEADLOCK FALSE
