SPECIFICATION Spec

CONSTANTS
  Commands = {c1, c2, c3}
  NoCommand = NoCommand
  c1 = c1
  c2 = c2
  c3 = c3
  Kinds = {"stop", "up", "down", "target"}
  Modes = {"UNKNOWN", "STANDING"}
  Replies = {"accepted", "refused"}
  RetryCount = 1
  MaxTicks = 2
  MaxAborts = 1

SYMMETRY Symmetry

INVARIANTS
  TypeOK
  OneInside
  SoleDriver
  EventOfLoop
  ServedInOrder
  InterruptHasSuccessor
  MotionIsEnded
  AnswerHolds

PROPERTIES
  NewestDrives
  InterruptEndsMotion
