SPECIFICATION LiveSpec
CONSTANTS
  Reqs = {r1, r2}
  MMReqs = {}
  StructReqs = {}
  PromptLen <- MCPrompt
  MaxTokens <- MCMaxTokens
  Rank <- MCRank
  Priority = FALSE
  Async = TRUE
  NumSpec = 2
  MaxModelLen = 8
  MaxScheduled = 4
  MaxBatched = 6
  DraftSlots = 1
  MaxRunning = 2
  LongPrefill = 0
  PrefillLookahead = 0
  Lookahead = 2
  BlockSize = 2
  NumBlocks = 5
  PPSize = 2
  MaxInFlight = 2
  Hits = {}
  DropStale = FALSE
  Abortable = {}
  MaxResets = 0
  PauseStates = {"UNPAUSED"}
PROPERTIES
  EveryRequestFinishes
