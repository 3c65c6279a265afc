SPECIFICATION LiveSpec
CONSTANTS
  r1 = r1
  r2 = r2
  b1 = b1
  b2 = b2
  Reqs = {r1, r2}
  Blocks = {b1, b2}
  MaxInFlight = 2
  MaxSteps = 4
  Loads = TRUE
  Copies = TRUE
  Stores = TRUE
  Resets = TRUE
INVARIANTS TypeOK LoadsUndisturbed NothingStranded
PROPERTIES ReclaimsSafely DeferredReturns
CHECK_DEADLOCK FALSE
