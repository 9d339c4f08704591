SPECIFICATION FairSpec

CONSTANTS
  Engines = {"openai"}
  Plays = {p1, p2}
  Watcher = Watcher
  p1 = p1
  p2 = p2
  Times = {1}
  MaxSpeech = 1
  MaxStreams = 2
  MaxFaults <- OneFault

PROPERTIES
  NextWriteIsMade
