SPECIFICATION Spec

CONSTANTS
  BaseBackoff = 1
  MaxBackoff = 2
  MaxRetries = 2
  RetryBound = 3
  FloatLimit = 1024
  MaxFailures = 0

PROPERTIES
  StatusNamesTheBroken
