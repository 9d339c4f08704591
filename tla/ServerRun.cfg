SPECIFICATION FairSpec

CONSTANTS
  BaseBackoff = 1
  MaxBackoff = 2
  MaxRetries = 2
  RetryBound = 3
  FloatLimit = 1024
  MaxFailures = 1

INVARIANTS
  TypeOK
  SportIsThere
  SportIsNeverGivenUp

PROPERTIES
  ClientIsKept
  WatcherSpec
  AutoRecovery
  ShutdownEnds
