--------------------------- MODULE MCBlockTables ---------------------------
(* BlockTables for TLC: a group of two-token blocks, each split into two kernel *)
(* blocks, and one of one-token blocks.                                        *)
EXTENDS BlockTables

MCBlockSize == [g \in Groups |-> IF g = "wide" THEN 2 ELSE 1]
MCKernelSize == [g \in Groups |-> 1]
MCRowBlocks == [g \in Groups |-> IF g = "wide" THEN 2 ELSE 3]
\* Blocks of its own for each request.
MCSupply ==
  [r \in Reqs |-> [g \in Groups |->
     LET base == 5 * (r - 1)
     IN  IF g = "wide" THEN {base + 1, base + 2} ELSE {base + 3, base + 4, base + 5}]]
=============================================================================
