---------------------------- MODULE BlockTables ----------------------------
(***************************************************************************)
(* The worker's block tables (patches/block_table.py) and the steps of     *)
(* patches/model_runner.py that use them.                                  *)
(*                                                                         *)
(* A request sits in a slot of the worker's request states; for every KV   *)
(* cache group the slot has a row of kernel blocks.  Slots are reused, and *)
(* a row's extent num_blocks outlives its occupant.  One execute_model()   *)
(* removes the finished and preempted requests, adds the new ones,         *)
(* extends the others, applies the staged writes, gathers the rows of the  *)
(* batch into the tensors the kernels read and maps every token to the KV  *)
(* slot it is written to.  A dummy run in between uses the same tensors.   *)
(*                                                                         *)
(* `phase' follows the order of calls in execute_model().  Which blocks    *)
(* the scheduler hands to a request is external: the least free ones.      *)
(***************************************************************************)
EXTENDS Integers, Sequences, FiniteSets

CONSTANTS
  Reqs,        \* the requests
  MaxReqs,     \* max_num_reqs: slots, and rows of a batch
  Groups,      \* KV cache groups
  BlockSize,   \* [Groups -> Nat], tokens in a KV block, on one rank
  KernelSize,  \* [Groups -> Nat], tokens in a kernel block
  RowBlocks,   \* [Groups -> Nat], max_num_blocks_per_group
  Mapped,      \* the groups with slot_mapping_enabled
  CPSize,      \* cp_size, context parallel ranks
  Interleave,  \* cp_interleave
  MaxLen,      \* max_model_len
  MaxTokens,   \* max_num_batched_tokens
  Supply       \* [Reqs -> [Groups -> SUBSET Nat]], KV blocks a request may be given

ASSUME TableAssumption ==
  /\ MaxReqs \in Nat \ {0} /\ CPSize \in Nat \ {0} /\ Interleave \in Nat \ {0}
  /\ MaxLen \in Nat /\ MaxTokens \in Nat /\ IsFiniteSet(Reqs)
  /\ \A r \in Reqs, g \in Groups :
       Supply[r][g] \subseteq Nat \ {0} /\ IsFiniteSet(Supply[r][g])
  /\ Mapped \subseteq Groups
  /\ RowBlocks \in [Groups -> Nat]
  /\ \A g \in Groups :
       /\ BlockSize[g] \in Nat \ {0} /\ KernelSize[g] \in Nat \ {0}
       /\ BlockSize[g] % KernelSize[g] = 0 /\ BlockSize[g] % Interleave = 0
       /\ RowBlocks[g] * BlockSize[g] * CPSize >= MaxLen

VARIABLES
  phase,      \* how far execute_model() has come
  slot,       \* req_id_to_index, 0 for a request the worker does not know
  ids,        \* the KV blocks the scheduler has given to the request, per group
  computed,   \* num_computed_tokens
  scheduled,  \* num_scheduled_tokens of the step, 0 when not in it
  num_blocks, \* num_blocks[group][slot], in kernel blocks
  tables,     \* block_tables[group].gpu[slot]
  staged,     \* the writes staged for block_tables[group], by slot
  batch,      \* req_ids of the batch, in row order
  padded,     \* num_reqs_padded
  input       \* input_block_tables[group][row]

vars == <<phase, slot, ids, computed, scheduled, num_blocks, tables, staged,
          batch, padded, input>>

Slots == 1 .. MaxReqs
Ranks == 0 .. CPSize - 1

Bpk(g) == BlockSize[g] \div KernelSize[g]           \* blocks_per_kv_block
Row(g) == 0 .. RowBlocks[g] * Bpk(g) - 1

PadSlot == -1                                        \* PAD_SLOT_ID
NoWrite == [start |-> 0, blocks |-> <<>>]

ZeroRow(g) == [k \in Row(g) |-> 0]

\* The requests the worker knows.
Known == {r \in Reqs : slot[r] # 0}

FreeSlots == Slots \ {slot[r] : r \in Reqs}

----------------------------------------------------------------------------
(* The scheduler's side: blocks for the tokens of a step.                  *)

InUse == UNION {{ids[x[1]][x[2]][i] : i \in DOMAIN ids[x[1]][x[2]]} : x \in Reqs \X Groups}

CeilDiv(a, b) == (a + b - 1) \div b

\* KV blocks of group g that hold upto tokens; a block holds BlockSize on every rank.
BlocksFor(g, upto) == CeilDiv(upto, BlockSize[g] * CPSize)

\* How many blocks of group g request r still needs to reach upto tokens.
Wanted(r, upto) ==
  [g \in Groups |-> IF BlocksFor(g, upto) > Len(ids[r][g])
                    THEN BlocksFor(g, upto) - Len(ids[r][g]) ELSE 0]

\* The n least blocks of S, in order; no choice when S has too few.
Least(S, n) == {f \in [1 .. n -> S] : \A i \in 1 .. n : Cardinality({b \in S : b < f[i]}) = i - 1}

\* New blocks of r for every group, or none when one of them has too few.  Block 0 is
\* the null block, which is never given away.
Allocations(r, want) ==
  LET Choices(g) == Least(Supply[r][g] \ InUse, want[g])
  IN  {more \in [Groups -> UNION {Choices(g) : g \in Groups}] :
         \A g \in Groups : more[g] \in Choices(g)}

----------------------------------------------------------------------------
(* append_block_ids().                                                     *)

\* Each KV block is Bpk(g) kernel blocks.
Expanded(g, blocks) ==
  [k \in 1 .. Len(blocks) * Bpk(g) |->
     blocks[((k - 1) \div Bpk(g)) + 1] * Bpk(g) + ((k - 1) % Bpk(g))]

\* Mutant: a new occupant's row is appended to the old one's.
Start_Extent(g, s, overwrite) == num_blocks[g][s]

\* Where a write begins: at 0 for a new occupant, else at the row's extent.
Start(g, s, overwrite) == IF overwrite THEN 0 ELSE num_blocks[g][s]

End(g, s, new, overwrite) == Start(g, s, overwrite) + Len(new[g]) * Bpk(g)

\* Mutant: the tail of the previous occupant stays.
TailCleared_Never(g, s, new, overwrite) == tables[g][s]

\* A shorter row than the previous occupant's: zero what is left of that one, at once.
TailCleared(g, s, new, overwrite) ==
  [k \in Row(g) |->
     IF overwrite /\ End(g, s, new, overwrite) <= k /\ k < num_blocks[g][s]
     THEN 0 ELSE tables[g][s][k]]

\* The row of slot s receives the KV blocks `new', from its start or behind what it has.
AppendBlockIds(s, new, overwrite) ==
  /\ staged' = [g \in Groups |->
       [staged[g] EXCEPT ![s] = [start |-> Start(g, s, overwrite),
                                 blocks |-> Expanded(g, new[g])]]]
  /\ tables' = [g \in Groups |-> [tables[g] EXCEPT ![s] = TailCleared(g, s, new, overwrite)]]
  /\ num_blocks' = [g \in Groups |-> [num_blocks[g] EXCEPT ![s] = End(g, s, new, overwrite)]]

----------------------------------------------------------------------------
(* execute_model(), in the order of its calls.                             *)

\* finish_requests(): finished and preempted requests leave their slots; the rows and
\* their extents stay as they are.  The scheduler has taken the blocks back.
FinishRequests ==
  /\ phase = "idle"
  /\ phase' = "add"
  /\ \E gone \in SUBSET Known :
       /\ slot' = [r \in Reqs |-> IF r \in gone THEN 0 ELSE slot[r]]
       /\ ids' = [r \in Reqs |-> IF r \in gone THEN [g \in Groups |-> <<>>] ELSE ids[r]]
       /\ computed' = [r \in Reqs |-> IF r \in gone THEN 0 ELSE computed[r]]
  /\ scheduled' = [r \in Reqs |-> 0]
  /\ UNCHANGED <<num_blocks, tables, staged, batch, padded, input>>

InStep == {r \in Reqs : scheduled[r] > 0}

\* Token counts the step may still give to r.
TokenCounts(r) ==
  1 .. (MaxLen - computed[r])

TokensLeft == MaxTokens - Cardinality({x \in Reqs \X (1 .. MaxTokens) : x[2] <= scheduled[x[1]]})

\* add_requests(): a new or resumed request takes a slot and its whole row is written.
\* One the worker knows (new input of a streaming session) is removed first and keeps
\* the blocks it has.
AddRequest(r) ==
  /\ phase = "add" /\ r \notin InStep
  /\ \E s \in FreeSlots \cup ({slot[r]} \ {0}), n \in TokenCounts(r) :
       /\ n <= TokensLeft
       /\ \E more \in Allocations(r, Wanted(r, computed[r] + n)) :
            LET all == [g \in Groups |-> ids[r][g] \o more[g]]
            IN  /\ ids' = [ids EXCEPT ![r] = all]
                /\ AppendBlockIds(s, all, TRUE)
       /\ slot' = [slot EXCEPT ![r] = s]
       /\ scheduled' = [scheduled EXCEPT ![r] = n]
  /\ UNCHANGED <<phase, computed, batch, padded, input>>

\* update_requests(): a request of earlier steps; its new blocks, if any, are appended.
UpdateRequest(r) ==
  /\ phase \in {"add", "update"} /\ r \in Known \ InStep
  /\ phase' = "update"
  /\ \E n \in TokenCounts(r) :
       /\ n <= TokensLeft
       /\ \E more \in Allocations(r, Wanted(r, computed[r] + n)) :
            /\ ids' = [ids EXCEPT ![r] = [g \in Groups |-> @[g] \o more[g]]]
            /\ IF \A g \in Groups : more[g] = <<>>
               THEN UNCHANGED <<staged, tables, num_blocks>>
               ELSE AppendBlockIds(slot[r], more, FALSE)
       /\ scheduled' = [scheduled EXCEPT ![r] = n]
  /\ UNCHANGED <<slot, computed, batch, padded, input>>

\* apply_staged_writes()
Written(g, s) ==
  LET w == staged[g][s]
  IN  [k \in Row(g) |-> IF w.start <= k /\ k < w.start + Len(w.blocks)
                        THEN w.blocks[k - w.start + 1] ELSE tables[g][s][k]]

\* A step without tokens ends here.
ApplyStagedWrites ==
  /\ phase \in {"add", "update"}
  /\ phase' = IF InStep = {} THEN "idle" ELSE "prepare"
  /\ tables' = [g \in Groups |-> [s \in Slots |-> Written(g, s)]]
  /\ staged' = [g \in Groups |-> [s \in Slots |-> NoWrite]]
  /\ UNCHANGED <<slot, ids, computed, scheduled, num_blocks, batch, padded, input>>

----------------------------------------------------------------------------
(* prepare_attn(): gather_block_tables() and compute_slot_mappings().      *)

\* The orders of the batch; the sort key (drafts, decode length) is not modelled.
BatchOrders ==
  {f \in [1 .. Cardinality(InStep) -> InStep] : \A i, j \in DOMAIN f : f[i] = f[j] => i = j}

\* Mutant: the padded rows keep what they had.
GatheredRow_KeepsPadding(g, b, order, rows) ==
  IF b > Len(order) THEN input[g][b]
  ELSE LET s == slot[order[b]]
       IN  [k \in Row(g) |-> IF k < num_blocks[g][s] THEN tables[g][s][k] ELSE input[g][b][k]]

\* _gather_block_tables_kernel: a row of the batch receives the extent of its slot's row
\* and keeps the rest; the rows up to `rows' that pad the batch are zeroed.
GatheredRow(g, b, order, rows) ==
  IF b <= Len(order)
  THEN LET s == slot[order[b]]
       IN  [k \in Row(g) |-> IF k < num_blocks[g][s] THEN tables[g][s][k] ELSE input[g][b][k]]
  ELSE IF b <= rows THEN ZeroRow(g) ELSE input[g][b]

\* query_start_loc: tokens of the batch before row b + 1.
QueryStart(order) ==
  LET loc[b \in 0 .. Len(order)] == IF b = 0 THEN 0 ELSE loc[b - 1] + scheduled[order[b]]
  IN  loc

RowOfToken(order, t) ==
  CHOOSE b \in DOMAIN order : QueryStart(order)[b - 1] <= t /\ t < QueryStart(order)[b]

PositionOf(order, t) ==
  LET b == RowOfToken(order, t) IN computed[order[b]] + t - QueryStart(order)[b - 1]

\* Mutant: the interleave is not divided out of the offset.
LocalPosition_NoRounds(g, p) ==
  (p \div (BlockSize[g] * CPSize)) * BlockSize[g] + ((p % (BlockSize[g] * CPSize)) % BlockSize[g])

IsLocal(g, p, rank) ==
  ((p % (BlockSize[g] * CPSize)) \div Interleave) % CPSize = rank

\* Where position p sits among the positions of its rank.
LocalPosition(g, p) ==
  LET offset == p % (BlockSize[g] * CPSize)
  IN  (p \div (BlockSize[g] * CPSize)) * BlockSize[g]
        + (offset \div (Interleave * CPSize)) * Interleave + (offset % Interleave)

\* _compute_slot_mappings_kernel, for one token: through the slot's own row.
TokenSlot(g, rank, order, t) ==
  LET p == PositionOf(order, t)
      local == LocalPosition(g, p)
      s == slot[order[RowOfToken(order, t)]]
  IN  IF g \in Mapped /\ IsLocal(g, p, rank)
      THEN tables[g][s][local \div KernelSize[g]] * KernelSize[g]
             + (local % KernelSize[g])
      ELSE PadSlot

\* slot_mappings[g] on a rank: the entries behind the last token are padded, too.
SlotMapping(g, rank, order, t) ==
  IF t < QueryStart(order)[Len(order)] THEN TokenSlot(g, rank, order, t) ELSE PadSlot

PrepareAttn ==
  /\ phase = "prepare"
  /\ phase' = "forward"
  /\ \E order \in BatchOrders :
       /\ batch' = order
       /\ padded' \in Len(order) .. MaxReqs
       /\ input' = [g \in Groups |-> [b \in Slots |-> GatheredRow(g, b, order, padded')]]
  /\ UNCHANGED <<slot, ids, computed, scheduled, num_blocks, tables, staged>>

\* The model has run: the tokens of the step are in the cache.
EndStep ==
  /\ phase = "forward"
  /\ phase' = "idle"
  /\ padded' = 0
  /\ computed' = [r \in Reqs |-> computed[r] + scheduled[r]]
  /\ scheduled' = [r \in Reqs |-> 0]
  /\ batch' = <<>>
  /\ UNCHANGED <<slot, ids, num_blocks, tables, staged, input>>

\* A dummy run: get_dummy_block_tables() zeroes the rows it uses.
DummyRun ==
  /\ phase = "idle"
  /\ \E rows \in Slots :
       input' = [g \in Groups |-> [b \in Slots |-> IF b <= rows THEN ZeroRow(g) ELSE input[g][b]]]
  /\ UNCHANGED <<phase, slot, ids, computed, scheduled, num_blocks, tables, staged,
                 batch, padded>>

----------------------------------------------------------------------------
Init ==
  /\ phase = "idle"
  /\ slot = [r \in Reqs |-> 0]
  /\ ids = [r \in Reqs |-> [g \in Groups |-> <<>>]]
  /\ computed = [r \in Reqs |-> 0] /\ scheduled = [r \in Reqs |-> 0]
  /\ num_blocks = [g \in Groups |-> [s \in Slots |-> 0]]
  /\ tables = [g \in Groups |-> [s \in Slots |-> ZeroRow(g)]]
  /\ staged = [g \in Groups |-> [s \in Slots |-> NoWrite]]
  /\ batch = <<>> /\ padded = 0
  /\ input = [g \in Groups |-> [b \in Slots |-> ZeroRow(g)]]

Next ==
  \/ FinishRequests
  \/ \E r \in Reqs : AddRequest(r) \/ UpdateRequest(r)
  \/ ApplyStagedWrites \/ PrepareAttn \/ EndStep
  \/ DummyRun

Spec == Init /\ [][Next]_vars

----------------------------------------------------------------------------
(* What must hold.                                                         *)

\* The types; no extent passes the end of its row, where append_block_ids() would raise.
TypeOK ==
  /\ phase \in {"idle", "add", "update", "prepare", "forward"}
  /\ slot \in [Reqs -> 0 .. MaxReqs]
  /\ computed \in [Reqs -> 0 .. MaxLen] /\ scheduled \in [Reqs -> 0 .. MaxLen]
  /\ \A r \in Reqs, g \in Groups : ids[r][g] \in Seq(Supply[r][g])
  /\ \A g \in Groups, s \in Slots :
       /\ num_blocks[g][s] \in 0 .. RowBlocks[g] * Bpk(g)
       /\ tables[g][s] \in [Row(g) -> Nat]
       /\ staged[g][s].start \in Nat /\ staged[g][s].blocks \in Seq(Nat)
       /\ input[g][s] \in [Row(g) -> Nat]
  /\ batch \in Seq(Reqs) /\ padded \in 0 .. MaxReqs

\* Once the writes are applied the row of a request's slot holds its blocks and nothing
\* else, whoever had the slot before; and no two requests share a slot.
RowsMatchOwner ==
  phase \notin {"add", "update"} =>
    \A r \in Known, g \in Groups :
      /\ \A q \in Known : slot[q] = slot[r] => q = r
      /\ tables[g][slot[r]] =
           [k \in Row(g) |-> IF k < Len(ids[r][g]) * Bpk(g)
                             THEN Expanded(g, ids[r][g])[k + 1] ELSE 0]

\* Reference for the mappings: the positions of a sequence are dealt to the ranks in
\* turns of Interleave, and a rank fills its share of the request's blocks in order.
HomeRank(p) == (p \div Interleave) % CPSize
IndexAtHome(p) == Cardinality({q \in 0 .. p - 1 : HomeRank(q) = HomeRank(p)})
HomeSlot(r, g, p) ==
  ids[r][g][(IndexAtHome(p) \div BlockSize[g]) + 1] * BlockSize[g]
    + (IndexAtHome(p) % BlockSize[g])

\* Every token of a step is written to its own place in its request's blocks, on exactly
\* one rank, and the entries behind the last token write nowhere.
TokensLandHome ==
  phase = "forward" =>
    \A g \in Groups, rank \in Ranks, t \in 0 .. MaxTokens - 1 :
      SlotMapping(g, rank, batch, t) =
        IF /\ t < QueryStart(batch)[Len(batch)]
           /\ g \in Mapped /\ HomeRank(PositionOf(batch, t)) = rank
        THEN HomeSlot(batch[RowOfToken(batch, t)], g, PositionOf(batch, t))
        ELSE PadSlot

\* Attention finds every token of the context where this or an earlier step wrote it:
\* through the gathered row, in spite of reused slots, rows and dummy runs; and the rows
\* that pad the batch lead to the null block only.
ReadsOwnContext ==
  /\ phase = "forward" =>
       \A b \in DOMAIN batch, g \in Groups :
         \A p \in 0 .. computed[batch[b]] + scheduled[batch[b]] - 1 :
           LET i == IndexAtHome(p)
           IN  input[g][b][i \div KernelSize[g]] * KernelSize[g] + (i % KernelSize[g])
                 = HomeSlot(batch[b], g, p)
  /\ phase = "forward" =>
       \A g \in Groups : \A b \in Len(batch) + 1 .. padded : input[g][b] = ZeroRow(g)

\* "a new request doesn't inherit the previous occupant's block ids" (README.md 126): nor
\* in the tensors that the attention kernels read.
GatheredRowsClean ==
  phase = "forward" =>
    \A b \in DOMAIN batch, g \in Groups : \A k \in Row(g) :
      k >= num_blocks[g][slot[batch[b]]] => input[g][b][k] = 0
=============================================================================
