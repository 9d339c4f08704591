SPECIFICATION FairSpec

CONSTANTS
  s1 = s1
  s2 = s2
  Services = {s1, s2}
  Order <- TwoServices
  BaseBackoff = 1
  MaxBackoff = 4
  MaxRetries = 2
  RetryBound = 3
  FloatLimit = 1024

INVARIANTS
  TypeOK
  RetriesBounded
  GivesUpLate
  NoCheckAfterStop

PROPERTIES
  AttemptsAreSpaced
  KeepsTrying
  RecoveryIsReported
