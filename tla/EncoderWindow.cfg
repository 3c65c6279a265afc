SPECIFICATION LiveSpec
CONSTANTS
  ia = ia
  ib = ib
  ic = ic
  Reqs = {1, 2}
  Hashes = {ia, ib, ic}
  Size <- MCSize
  Features <- MCFeatures
  PromptLen <- MCPromptLen
  MaxTokens = 2
  Lookahead = 1
  DisableChunked = FALSE
  Priority = FALSE
  MaxScheduled = 6
  ComputeBudget = 2
  CacheSize = 3
  Hits = {2, 4}
  MaxInFlight = 2
  Abortable = {1, 2}
  MaxShort = 2
INVARIANTS
  TypeOK
  EmbedsPresent
  WorkerFits
PROPERTIES
  EveryPrefillEnds
CHECK_DEADLOCK FALSE
