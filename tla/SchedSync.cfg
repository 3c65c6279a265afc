SPECIFICATION Spec
CONSTANTS
  Reqs = {r1, r2, r3}
  MMReqs = {r1}
  StructReqs = {r2}
  PromptLen <- MCPrompt
  MaxTokens <- MCMaxTokens
  Rank <- MCRank
  Priority = FALSE
  Async = FALSE
  NumSpec = 2
  MaxModelLen = 8
  MaxScheduled = 5
  MaxBatched = 7
  DraftSlots = 1
  MaxRunning = 3
  LongPrefill = 3
  PrefillLookahead = 2
  Lookahead = 1
  BlockSize = 2
  NumBlocks = 8
  PPSize = 1
  MaxInFlight = 1
  Hits = {2}
  DropStale = FALSE
  Abortable = {r2}
  MaxResets = 0
  PauseStates = {"UNPAUSED", "PAUSED_NEW"}
INVARIANTS
  RowsCoverDrafts
  CountersReconcile
  SlotsCoverTokens
  BlocksConserved
  OutputBounded
CONSTRAINT RunnerBound
