SPECIFICATION Spec
CONSTANTS
  NumReqs = 2
  PromptLen = 2
  NumSpec = 1
  PPSize = 2
  MaxSlots = 2
  MaxInFlight = 3
  MaxDropped = 1
  MaxSteps = 5
INVARIANTS
  StagesAgree
  BoundHolds
  RelayPairs
  NoStageStuck
CHECK_DEADLOCK FALSE
