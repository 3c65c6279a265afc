SPECIFICATION LiveSpec
CONSTANTS
  s1 = s1
  s2 = s2
  Reqs = {s1, s2}
  Streams = {s1, s2}
  GrammarReqs = {s2}
  ChunkLen = 1
  MaxChunks <- MCChunks
  MaxTokens = 3
  NumSpec = 1
  MaxScheduled = 3
  MaxRunning = 2
  PPSize = 2
  MaxInFlight = 3
  Abortable = {s1}
  MaxShort = 1
  StaleTurns = FALSE
  CutTurns = FALSE
  LateTurns = FALSE
INVARIANTS
  QueuesExact
  WorkDetected
  ContextMatchesKV
  InputInOrder
PROPERTIES
  EveryTurnEnds
CHECK_DEADLOCK FALSE
