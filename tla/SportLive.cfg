SPECIFICATION FairSpec

CONSTANTS
  Commands = {c1, c2, c3}
  NoCommand = NoCommand
  c1 = c1
  c2 = c2
  c3 = c3
  Kinds = {"stop", "move"}
  Modes = {"STANDING"}
  Replies = {"accepted", "refused"}
  RetryCount = 2
  MaxTicks = 2
  MaxAborts = 1

PROPERTIES
  EveryCallAnswered
