SPECIFICATION Spec
CONSTANTS
  Tokens = {"a", "b", "e", "s"}
  End = "e"
  Eos = "s"
  Sentences <- MCSentences
  Modes <- MCModes
  NumSpec = 2
  MaxTokens = 5
  Preemptable <- MCPreemptable
INVARIANTS
  GrammarFollowsAnswer
  GrammarNeverRejects
  EndNoticed
CHECK_DEADLOCK FALSE
