SPECIFICATION StreamSpec

CONSTANTS
  MicQueueSize = 3
  SendQueueSize = 3
  PreRoll = 1

PROPERTY HotwordLoopRetries

CHECK_DEADLOCK FALSE
