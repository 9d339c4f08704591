SPECIFICATION Spec

CONSTANTS
  s1 = s1
  s2 = s2
  Services = {s1}
  Order <- OneService
  BaseBackoff = 1
  MaxBackoff = 2
  MaxRetries = 1
  RetryBound = 1025
  FloatLimit = 1024

INVARIANTS
  ThreadSurvives
