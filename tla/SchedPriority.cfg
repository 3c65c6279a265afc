SPECIFICATION Spec
CONSTANTS
  Reqs = {r1, r2, r3}
  MMReqs = {}
  StructReqs = {}
  PromptLen <- MCPrompt
  MaxTokens <- MCMaxTokens
  Rank <- MCRank
  Priority = TRUE
  Async = TRUE
  NumSpec = 2
  MaxModelLen = 8
  MaxScheduled = 9
  MaxBatched = 7
  DraftSlots = 1
  MaxRunning = 3
  LongPrefill = 0
  PrefillLookahead = 0
  Lookahead = 0
  BlockSize = 2
  NumBlocks = 6
  PPSize = 1
  MaxInFlight = 2
  Hits = {}
  DropStale = TRUE
  Abortable = {r1,r2}
  MaxResets = 1
  PauseStates = {"UNPAUSED"}
INVARIANTS
  TypeOK
  BudgetsConserved
  BudgetsHold
  SamplesLandNext
  PositionsInBounds
