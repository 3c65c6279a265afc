SPECIFICATION Spec
CONSTANTS
  Reqs = {r1, r2}
  MMReqs = {}
  StructReqs = {r1}
  PromptLen <- MCPrompt
  MaxTokens <- MCMaxTokens
  Rank <- MCRank
  Priority = FALSE
  Async = FALSE
  NumSpec = 2
  MaxModelLen = 8
  MaxScheduled = 4
  MaxBatched = 6
  DraftSlots = 1
  MaxRunning = 2
  LongPrefill = 0
  PrefillLookahead = 0
  Lookahead = 2
  BlockSize = 2
  NumBlocks = 5
  PPSize = 1
  MaxInFlight = 1
  Hits = {}
  DropStale = FALSE
  Abortable = {}
  MaxResets = 0
  PauseStates = {"UNPAUSED"}
INVARIANTS
  SamplesLandNext
