SPECIFICATION Spec
CONSTANTS
  None = None
  MaxTime = 9
  Timestamps <- MCTimestamps
  Headers = {}
  policy <- MCPolicy
  ReacquisitionConfirmation = 3
  MouthInputs = {}
  YawnOpenThreshold = 65
  YawnCloseThreshold = 45
  YawnMinimumDuration = 3
  YawnConfirmation = 1
  YawInputs <- MCYawInputs
  PitchInputs <- MCPitchInputs
  YawEnter = 25
  YawExit = 15
  PitchEnter = 18
  PitchExit = 10
  HeadConfirmation = 2
  HorizontalInputs = {}
  VerticalInputs = {}
  HorizontalEnter = 20
  HorizontalExit = 12
  VerticalEnter = 25
  VerticalExit = 15
  GazeConfirmation = 1
  DistractionDuration = 2
  DistractionRecovery = 2
  PresentConfirmation = 2
  AbsentConfirmation = 4
  RecordAfter = 2
  NotifyAfter = 4
  PerclosInputs = {}
  PerclosWarning = 20
  PerclosDrowsy = 35
  YawnEvidenceWindow = 3
  YawnsForWarning = 2
  MinimumAlertHold = 2
  DrowsinessRecovery = 2
PROPERTY
  MovementsStartFromNeutral
