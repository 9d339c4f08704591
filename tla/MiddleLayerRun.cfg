SPECIFICATION Spec

CONSTANTS
  MaxRetries = 2
  STTEngines <- BothEngines
  Attempts = 2
  MaxDevices = 2
  MaxHotwords = 2
  c1 = c1
  c2 = c2
  c3 = c3
  Calls <- ThreeCalls
  TranscribeMax = 1
  Workers = 2
  MicQueueSize = 3
  SendQueueSize = 3
  PreRoll = 1
  Kinds <- AllCameras
  MaxFaults = 2
  QueueSize = 2
  MaxStamp = 3
  MaxCrashes = 2

INVARIANTS
  LayerTypeOK
  CommandsInOrder
  FailedCallLeavesNoTask
  NoPermitIsLost
  FreshFrame

PROPERTIES
  TaskModeEnds
  DeadIsReported
  StateNeverGoesBack
  StopEnds

CHECK_DEADLOCK FALSE
