SPECIFICATION FairSpec

CONSTANTS
  Engines = {"openai", "piper"}
  Plays = {p1, p2}
  Watcher = Watcher
  p1 = p1
  p2 = p2
  Times = {2}
  MaxSpeech = 0
  MaxStreams = 2
  MaxFaults <- FaultBound

INVARIANTS
  TypeOK
  NoStreamIsLeaked
  OneWriter
  AnswerMeansOver

PROPERTIES
  NoSwapUnderWriter
  EveryPlaybackEnds
