SPECIFICATION Spec
CONSTANTS
  Reqs = {r1, r2}
  MMReqs = {}
  StructReqs = {}
  PromptLen <- MCPrompt
  MaxTokens <- MCMaxTokens
  Rank <- MCRank
  Priority = FALSE
  Async = TRUE
  NumSpec = 2
  MaxModelLen = 10
  MaxScheduled = 4
  MaxBatched = 6
  DraftSlots = 1
  MaxRunning = 2
  LongPrefill = 0
  PrefillLookahead = 0
  Lookahead = 2
  BlockSize = 2
  NumBlocks = 6
  PPSize = 2
  MaxInFlight = 3
  Hits = {}
  DropStale = FALSE
  Abortable = {r1, r2}
  MaxResets = 2
  PauseStates = {"UNPAUSED", "PAUSED_NEW", "PAUSED_ALL"}
SYMMETRY Symmetry
INVARIANTS
  QueuesMatchStatus
  StaleMeansOldRun
  InFlightExact
  SamplesLandNext
