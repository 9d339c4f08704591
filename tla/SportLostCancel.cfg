SPECIFICATION Spec

CONSTANTS
  Commands = {c1, c2}
  NoCommand = NoCommand
  c1 = c1
  c2 = c2
  Kinds = {"stop", "move"}
  Modes = {"STANDING", "OTHER"}
  Replies = {"accepted"}
  RetryCount = 1
  MaxTicks = 2
  MaxAborts = 0

SYMMETRY Symmetry

PROPERTIES
  NewCommandInterrupts
