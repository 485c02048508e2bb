SPECIFICATION Spec
CONSTANTS
  None = None
  Producers = {p1, p2}
  Consumers = {c1, c2}
  MaxFrames = 3
  WarmupFrames = 1
  MeasuredFrames = 2
  FileFrames = 2
  DriverIds = {d1, d2, d3}
  InvalidId = badId
  MaximumDriverProfiles = 2
  MaximumImagesPerProfile = 1
  MaximumEmbeddingsPerProfile = 1
  Unserialized = unserialized
  MaxRevision = 3
  Admins = {a1, a2}
  Drivers = {x1, x2}
  Absent = absent
  Torn = torn
  NoStamp = noStamp
  NoOrigin = noOrigin
  UnitsPerSecond = 5
  TicksPerUnit = 2
  Rates = {2, 3}
  UnusableRate = unusable
  FallbackRate = 2
  SequenceLength = 2
  MaxStamp = 12
  NoShare = noShare
  StatisticsTimes = {0, 1, 2, 3, 4, 5}
  StatisticsWindow = 3
  StatisticsGap = 2
  MinimumKnownPercent = 60
  NoLibrary = noLibrary
  NoHandle = noHandle
  MaxLoads = 3
  MaxHandles = 3
  EARs = {0, 1, 2}
  EarCloseThreshold = 2
  MaxTracked = 4
INVARIANTS
  EveryFrameAccountedFor
  NobodySamplesWhileRead
  SavedDatabaseLoads
  EnrolmentsSurviveCrashes
  EvenRecordingKeepsItsTime
  StatisticsMatchRecord
  NativeHandlesAccountedFor
  BlinksAreClosures
PROPERTIES
  SlotIsARegister
  RunEnds
  RevisionsGrow
  FramesArePeriodsApart
  QuitIsObeyed
CHECK_DEADLOCK FALSE
