SPECIFICATION Spec
CONSTANTS
  Reqs = {1, 2}
  MaxReqs = 2
  Groups = {"wide", "narrow"}
  BlockSize <- MCBlockSize
  KernelSize <- MCKernelSize
  RowBlocks <- MCRowBlocks
  Mapped = {"wide"}
  CPSize = 2
  Interleave = 1
  MaxLen = 5
  MaxTokens = 4
  Supply <- MCSupply
INVARIANTS
  RowsMatchOwner
  TokensLandHome
  ReadsOwnContext
