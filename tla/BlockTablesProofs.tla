------------------------- MODULE BlockTablesProofs -------------------------
(***************************************************************************)
(* Theorems about BlockTables, for every number of requests, slots and     *)
(* groups and every size of the blocks and rows: once the staged writes    *)
(* are applied, the row of a request's slot holds exactly the request's    *)
(* blocks, whoever had the slot before; each token of a step is written to *)
(* its own place in them, and attention reads the request's own context.   *)
(***************************************************************************)
EXTENDS BlockTables, SumTheorems, SequenceTheorems, FiniteSetTheorems, TLAPS

WriteType == [start : Nat, blocks : Seq(Nat)]
RowType(g) == [Row(g) -> Nat]

\* What a row reads once the write w is applied to it.
RowAfter(g, w, row) ==
  [k \in Row(g) |-> IF w.start <= k /\ k < w.start + Len(w.blocks)
                    THEN w.blocks[k - w.start + 1] ELSE row[k]]

\* A row whose entries from `end' to the extent n are zeroed.
Cleared(g, end, n, row) == [k \in Row(g) |-> IF end <= k /\ k < n THEN 0 ELSE row[k]]

\* The row of a request with the KV blocks `blocks'.
OwnRow(g, blocks) ==
  [k \in Row(g) |-> IF k < Len(blocks) * Bpk(g) THEN Expanded(g, blocks)[k + 1] ELSE 0]

----------------------------------------------------------------------------
(* The inductive invariant.                                                *)

\* A slot of group g with extent n, staged write w and row `row', owned or not: the write
\* ends within the extent, and the row is zero behind it.
SlotGood(g, n, w, row) ==
  /\ n \in 0 .. RowBlocks[g] * Bpk(g) /\ w \in WriteType /\ row \in RowType(g)
  /\ w.start + Len(w.blocks) <= n
  /\ \A k \in Row(g) : k >= n => row[k] = 0

\* The slot of a request with the KV blocks `blocks'.
SlotOwned(g, blocks, n, w, row) ==
  /\ n = Len(blocks) * Bpk(g)
  /\ RowAfter(g, w, row) = OwnRow(g, blocks)

SlotsGood ==
  \A g \in Groups, s \in Slots : SlotGood(g, num_blocks[g][s], staged[g][s], tables[g][s])

SlotsOwned ==
  \A r \in Known, g \in Groups :
    SlotOwned(g, ids[r][g], num_blocks[g][slot[r]], staged[g][slot[r]], tables[g][slot[r]])

SlotsDistinct == \A p, q \in Known : slot[p] = slot[q] => p = q

\* A request has no more blocks than fit in a row.
IdsFit ==
  \A r \in Reqs, g \in Groups :
    ids[r][g] \in Seq(Supply[r][g]) /\ Len(ids[r][g]) <= RowBlocks[g]

\* The requests of the step have slots, and stay within the model length.
StepFits ==
  \A r \in Reqs : /\ r \in InStep => r \in Known
                  /\ computed[r] + scheduled[r] <= MaxLen

\* Writes are staged for the requests of the step alone, until they are applied.
StagedForStep ==
  /\ phase \notin {"add", "update"} => \A g \in Groups, s \in Slots : staged[g][s] = NoWrite
  /\ \A r \in Known \ InStep, g \in Groups : staged[g][slot[r]] = NoWrite

\* The functions have their domains.
Shapes ==
  /\ slot \in [Reqs -> 0 .. MaxReqs] /\ ids \in [Reqs -> [Groups -> Seq(Nat)]]
  /\ computed \in [Reqs -> 0 .. MaxLen] /\ scheduled \in [Reqs -> 0 .. MaxLen]
  /\ num_blocks \in [Groups -> [Slots -> Nat]]
  /\ staged \in [Groups -> [Slots -> WriteType]]
  /\ tables = [g \in Groups |-> [s \in Slots |-> tables[g][s]]]

\* What no row depends on.
RestTyped ==
  /\ phase \in {"idle", "add", "update", "prepare", "forward"}
  /\ \A g \in Groups, s \in Slots : input[g][s] \in RowType(g)
  /\ batch \in Seq(Reqs) /\ padded \in 0 .. MaxReqs

IInv ==
  /\ Shapes /\ RestTyped /\ IdsFit /\ StepFits
  /\ SlotsGood /\ SlotsOwned /\ SlotsDistinct /\ StagedForStep
----------------------------------------------------------------------------
(* Arithmetic of block sizes.                                              *)

LEMMA ProductMonotone ==
  ASSUME NEW a \in Nat, NEW b \in Nat, NEW c \in Nat, a <= b
  PROVE  a * c <= b * c /\ a * c \in Nat
<1>1. (b - a) * c \in Nat
  BY SMT
<1>2. b * c = (b - a) * c + a * c
  BY SMT
<1>3. a * c \in Nat
  BY SMT
<1> QED  BY <1>1, <1>2, <1>3, SMT

\* A KV block is one kernel block or more.
LEMMA BpkPositive ==
  ASSUME NEW g \in Groups
  PROVE  Bpk(g) \in Nat \ {0}
<1> DEFINE B == BlockSize[g]
           K == KernelSize[g]
<1>1. B \in Nat \ {0} /\ K \in Nat \ {0} /\ B % K = 0
  BY TableAssumption
<1>2. B \div K \in Nat /\ B = K * (B \div K) + (B % K)
  BY <1>1, SMT
<1>3. B \div K # 0
  BY <1>1, <1>2, SMT
<1> QED  BY <1>2, <1>3 DEF Bpk

\* A quotient and a remainder determine the number.
LEMMA QuotientUnique ==
  ASSUME NEW q \in Nat, NEW m \in Nat, NEW d \in Nat \ {0}, m < d
  PROVE  (q * d + m) \div d = q /\ (q * d + m) % d = m
<1>1. q * d + m \in Nat
  BY SMT
<1>2. (q * d + m) = ((q * d + m) \div d) * d + ((q * d + m) % d) /\ (q * d + m) % d \in 0 .. d - 1
  BY <1>1, SMT
<1>3. (q * d + m) \div d \in Nat
  BY <1>1, SMT
<1> DEFINE x == (q * d + m) \div d
           y == (q * d + m) % d
<1>4. x * d + y = q * d + m /\ x \in Nat /\ y \in 0 .. d - 1
  BY <1>2, <1>3
<1> HIDE DEF x, y
<1>5. (x - q) * d = m - y
  BY <1>4, SMT
<1>6. x = q
  <2>1. CASE x > q
    <3>1. 1 * d <= (x - q) * d
      BY <1>4, <2>1, x - q \in Nat, 1 <= x - q, ProductMonotone, SMT
    <3> QED  BY <1>4, <1>5, <3>1, SMT
  <2>2. CASE x < q
    <3>1. 1 * d <= (q - x) * d
      BY <1>4, <2>2, q - x \in Nat, 1 <= q - x, ProductMonotone, SMT
    <3>2. (q - x) * d = y - m
      BY <1>4, SMT
    <3> QED  BY <1>4, <3>1, <3>2, SMT
  <2> QED  BY <1>4, <2>1, <2>2
<1>7. y = m
  BY <1>4, <1>6, SMT
<1> QED  BY <1>6, <1>7 DEF x, y

\* Every number has a quotient and a remainder.
LEMMA Division ==
  ASSUME NEW k \in Nat, NEW d \in Nat \ {0}
  PROVE  /\ k \div d \in Nat /\ k % d \in 0 .. d - 1
         /\ k = (k \div d) * d + (k % d)
BY SMT

\* The kernel blocks of the first a KV blocks are those before a * d.
LEMMA QuotientBelow ==
  ASSUME NEW k \in Nat, NEW d \in Nat \ {0}, NEW a \in Nat
  PROVE  k < a * d <=> k \div d < a
<1>1. /\ k \div d \in Nat /\ k % d \in 0 .. d - 1
      /\ k = (k \div d) * d + (k % d)
  BY Division
<1>2. ASSUME k \div d < a PROVE k < a * d
  <2>1. (k \div d + 1) * d <= a * d
    BY <1>1, <1>2, k \div d + 1 \in Nat, k \div d + 1 <= a, ProductMonotone
  <2>2. (k \div d + 1) * d = (k \div d) * d + d
    BY <1>1, SMT
  <2>3. (k \div d) * d \in Nat /\ a * d \in Nat
    BY <1>1, SMT
  <2> QED  BY <1>1, <2>1, <2>2, <2>3
<1>3. ASSUME a <= k \div d PROVE a * d <= k
  <2>1. a * d <= (k \div d) * d /\ a * d \in Nat
    BY <1>1, <1>3, ProductMonotone
  <2>2. (k \div d) * d \in Nat
    BY <1>1, SMT
  <2> QED  BY <1>1, <2>1, <2>2
<1>4. a * d \in Nat
  BY SMT
<1> QED  BY <1>1, <1>2, <1>3, <1>4

\* What follows the first a KV blocks is counted from a on.
LEMMA QuotientShift ==
  ASSUME NEW k \in Nat, NEW d \in Nat \ {0}, NEW a \in Nat, a * d <= k
  PROVE  /\ k - a * d \in Nat
         /\ k \div d = a + (k - a * d) \div d
         /\ k % d = (k - a * d) % d
<1>1. a * d \in Nat
  BY SMT
<1> DEFINE j == k - a * d
<1>2. j \in Nat /\ k = a * d + j
  BY <1>1
<1> HIDE DEF j
<1>3. /\ j \div d \in Nat /\ j % d \in 0 .. d - 1
      /\ j = (j \div d) * d + (j % d)
  BY <1>2, Division
<1>4. k = (a + j \div d) * d + (j % d)
  <2>1. (a + j \div d) * d = a * d + (j \div d) * d
    BY <1>3, SMT
  <2>2. (j \div d) * d \in Nat
    BY <1>3, SMT
  <2> QED  BY <1>1, <1>2, <1>3, <2>1, <2>2
<1>5. a + j \div d \in Nat /\ j % d < d /\ j % d \in Nat
  BY <1>3
<1>6. k \div d = a + j \div d /\ k % d = j % d
  BY <1>4, <1>5, QuotientUnique
<1> QED  BY <1>2, <1>6 DEF j

----------------------------------------------------------------------------
(* Rows.                                                                   *)

\* A row has room for its kernel blocks.
LEMMA RowSize ==
  ASSUME NEW g \in Groups
  PROVE  RowBlocks[g] \in Nat /\ RowBlocks[g] * Bpk(g) \in Nat
<1>1. RowBlocks[g] \in Nat /\ Bpk(g) \in Nat
  BY TableAssumption, BpkPositive
<1> QED  BY <1>1, SMT

\* Each KV block becomes Bpk(g) kernel blocks.
LEMMA ExpandedType ==
  ASSUME NEW g \in Groups, NEW blocks \in Seq(Nat)
  PROVE  /\ Expanded(g, blocks) \in Seq(Nat)
         /\ Len(Expanded(g, blocks)) = Len(blocks) * Bpk(g)
         /\ \A k \in Nat : k < Len(blocks) * Bpk(g) =>
              /\ k \div Bpk(g) \in 0 .. Len(blocks) - 1
              /\ Expanded(g, blocks)[k + 1]
                   = blocks[(k \div Bpk(g)) + 1] * Bpk(g) + (k % Bpk(g))
<1> DEFINE d == Bpk(g)
           n == Len(blocks) * d
           x == Expanded(g, blocks)
<1>1. d \in Nat \ {0} /\ Len(blocks) \in Nat
  BY BpkPositive
<1> HIDE DEF d
<1>2. n \in Nat
  BY <1>1, SMT
<1>3. x = [i \in 1 .. n |-> blocks[((i - 1) \div d) + 1] * d + ((i - 1) % d)]
  BY DEF Expanded, d
<1> HIDE DEF n, x
<1>4. ASSUME NEW k \in Nat, k < n
      PROVE  /\ k \div d \in 0 .. Len(blocks) - 1
             /\ k % d \in 0 .. d - 1
             /\ x[k + 1] = blocks[(k \div d) + 1] * d + (k % d)
             /\ x[k + 1] \in Nat
  <2>1. k \div d \in Nat /\ k % d \in 0 .. d - 1
    BY <1>1, Division
  <2>2. k \div d < Len(blocks)
    BY <1>1, <1>4, QuotientBelow DEF n
  <2>3. k + 1 \in 1 .. n /\ (k + 1) - 1 = k
    BY <1>2, <1>4
  <2>4. x[k + 1] = blocks[(k \div d) + 1] * d + (k % d)
    BY <1>3, <2>3
  <2>5. blocks[(k \div d) + 1] \in Nat
    BY <1>1, <2>1, <2>2, ElementOfSeq
  <2>6. blocks[(k \div d) + 1] * d \in Nat
    BY <1>1, <2>5, ProductMonotone
  <2>7. \A p, q \in Nat : p + q \in Nat
    OBVIOUS
  <2>8. x[k + 1] \in Nat
    BY <1>1, <2>1, <2>4, <2>6, <2>7
  <2>9. k \div d \in 0 .. Len(blocks) - 1
    BY <1>1, <2>1, <2>2
  <2> QED  BY <2>1, <2>4, <2>8, <2>9
<1>5. \A i \in 1 .. n : x[i] \in Nat
  <2>1. SUFFICES ASSUME NEW i \in 1 .. n PROVE x[i] \in Nat
    OBVIOUS
  <2>2. i - 1 \in Nat /\ i - 1 < n /\ (i - 1) + 1 = i
    BY <1>2
  <2> QED  BY <1>4, <2>2
<1>6. x \in Seq(Nat) /\ Len(x) = n
  <2>1. x = [i \in 1 .. n |-> x[i]]
    BY <1>3
  <2> QED  BY <1>2, <1>5, <2>1, IsASeq, LenProperties
<1> QED  BY <1>4, <1>6 DEF d, n, x

\* The kernel blocks of a \o b: those of a, then those of b.
LEMMA ExpandedConcat ==
  ASSUME NEW g \in Groups, NEW a \in Seq(Nat), NEW b \in Seq(Nat)
  PROVE  /\ a \o b \in Seq(Nat)
         /\ Len(a \o b) * Bpk(g) = Len(a) * Bpk(g) + Len(b) * Bpk(g)
         /\ \A k \in Nat : k < Len(a) * Bpk(g) =>
              Expanded(g, a \o b)[k + 1] = Expanded(g, a)[k + 1]
         /\ \A k \in Nat : Len(a) * Bpk(g) <= k /\ k < Len(a \o b) * Bpk(g) =>
              Expanded(g, a \o b)[k + 1] = Expanded(g, b)[k - Len(a) * Bpk(g) + 1]
<1> DEFINE d == Bpk(g)
           m == Len(a)
           n == Len(b)
           c == a \o b
<1>1. d \in Nat \ {0} /\ m \in Nat /\ n \in Nat
  BY BpkPositive
<1>2. /\ c \in Seq(Nat) /\ Len(c) = m + n
      /\ \A i \in 1 .. m : c[i] = a[i]
      /\ \A i \in m + 1 .. m + n : c[i] = b[i - m]
  BY ConcatProperties
<1>3. Len(c) * d = m * d + n * d
  BY <1>1, <1>2, SMT
<1>4. m * d \in Nat /\ n * d \in Nat
  BY <1>1, SMT
<1>5. ASSUME NEW k \in Nat, k < m * d PROVE Expanded(g, c)[k + 1] = Expanded(g, a)[k + 1]
  <2>1. k < Len(c) * d
    BY <1>3, <1>4, <1>5
  <2>2. /\ k \div d \in 0 .. m - 1
        /\ Expanded(g, a)[k + 1] = a[(k \div d) + 1] * d + (k % d)
    BY <1>5, ExpandedType
  <2>3. Expanded(g, c)[k + 1] = c[(k \div d) + 1] * d + (k % d)
    BY <1>2, <2>1, ExpandedType
  <2>4. (k \div d) + 1 \in 1 .. m
    BY <1>1, <2>2
  <2> QED  BY <1>2, <2>2, <2>3, <2>4
<1>6. ASSUME NEW k \in Nat, m * d <= k, k < Len(c) * d
      PROVE  Expanded(g, c)[k + 1] = Expanded(g, b)[k - m * d + 1]
  <2> DEFINE j == k - m * d
  <2>1. j \in Nat /\ k \div d = m + j \div d /\ k % d = j % d
    BY <1>1, <1>6, QuotientShift
  <2>2. j < n * d
    BY <1>3, <1>4, <1>6
  <2>3. /\ j \div d \in 0 .. n - 1
        /\ Expanded(g, b)[j + 1] = b[(j \div d) + 1] * d + (j % d)
    BY <2>1, <2>2, ExpandedType
  <2>4. Expanded(g, c)[k + 1] = c[(k \div d) + 1] * d + (k % d)
    BY <1>2, <1>6, ExpandedType
  <2>5. /\ (k \div d) + 1 \in m + 1 .. m + n
        /\ ((k \div d) + 1) - m = (j \div d) + 1
    <3> DEFINE q == k \div d
               p == j \div d
    <3>1. q = m + p /\ p \in 0 .. n - 1
      BY <2>1, <2>3
    <3> HIDE DEF q, p
    <3>2. q + 1 \in m + 1 .. m + n /\ (q + 1) - m = p + 1
      BY <1>1, <3>1
    <3> QED  BY <3>2 DEF q, p
  <2>6. c[(k \div d) + 1] = b[(j \div d) + 1]
    BY <1>2, <2>5
  <2> QED  BY <2>1, <2>3, <2>4, <2>6
<1> QED  BY <1>2, <1>3, <1>5, <1>6

\* The row is written from its start, and what the last occupant left behind it is zeroed.
LEMMA OverwriteSlot ==
  ASSUME NEW g \in Groups, NEW n, NEW w, NEW row, SlotGood(g, n, w, row),
         NEW blocks \in Seq(Nat), Len(blocks) <= RowBlocks[g],
         NEW n1, n1 = 0 + Len(blocks) * Bpk(g),
         NEW w1, w1 = [start |-> 0, blocks |-> Expanded(g, blocks)],
         NEW row1, row1 = Cleared(g, n1, n, row)
  PROVE  SlotGood(g, n1, w1, row1) /\ SlotOwned(g, blocks, n1, w1, row1)
<1> DEFINE x == Expanded(g, blocks)
<1>1. n1 = Len(blocks) * Bpk(g) /\ n1 \in 0 .. RowBlocks[g] * Bpk(g)
  <2>1. Len(blocks) \in Nat /\ RowBlocks[g] \in Nat /\ Bpk(g) \in Nat
    BY RowSize, BpkPositive
  <2>2. /\ Len(blocks) * Bpk(g) <= RowBlocks[g] * Bpk(g)
        /\ Len(blocks) * Bpk(g) \in Nat /\ RowBlocks[g] * Bpk(g) \in Nat
    BY <2>1, ProductMonotone
  <2> QED  BY <2>2
<1>2. x \in Seq(Nat) /\ Len(x) = n1
  BY <1>1, ExpandedType
<1>3. n \in Nat /\ row \in RowType(g)
  BY RowSize DEF SlotGood
<1>4. Row(g) \subseteq Nat
  BY RowSize DEF Row
<1>5. w1 = [start |-> 0, blocks |-> x]
  OBVIOUS
<1> HIDE DEF x
<1>6. row1 \in RowType(g) /\ \A k \in Row(g) : k >= n1 => row1[k] = 0
  <2>1. \A k \in Row(g) : k >= n => row[k] = 0
    BY DEF SlotGood
  <2> QED  BY <1>1, <1>3, <1>4, <2>1 DEF RowType, Cleared
<1>7. w1 \in WriteType /\ w1.start = 0 /\ w1.blocks = x
  BY <1>2, <1>5 DEF WriteType
<1>8. SlotGood(g, n1, w1, row1)
  BY <1>1, <1>2, <1>6, <1>7 DEF SlotGood
<1>9. RowAfter(g, w1, row1) = OwnRow(g, blocks)
  <2>1. ASSUME NEW k \in Row(g)
        PROVE  (IF w1.start <= k /\ k < w1.start + Len(w1.blocks)
                THEN w1.blocks[k - w1.start + 1] ELSE row1[k])
                 = (IF k < n1 THEN x[k + 1] ELSE 0)
    <3>1. k \in Nat /\ k - 0 = k /\ 0 + Len(x) = n1
      BY <1>1, <1>2, <1>4
    <3>2. (w1.start <= k /\ k < w1.start + Len(w1.blocks)) <=> k < n1
      BY <1>1, <1>7, <3>1
    <3>3. CASE k < n1
      BY <1>7, <3>1, <3>2, <3>3
    <3>4. CASE ~(k < n1)
      BY <1>1, <1>6, <3>1, <3>2, <3>4
    <3> QED  BY <3>3, <3>4
  <2> QED  BY <1>1, <2>1 DEF RowAfter, OwnRow, x
<1> QED  BY <1>1, <1>8, <1>9 DEF SlotOwned

\* New blocks are written behind those the request has.
LEMMA AppendSlot ==
  ASSUME NEW g \in Groups, NEW n, NEW row, SlotGood(g, n, NoWrite, row),
         NEW old \in Seq(Nat), NEW more \in Seq(Nat), Len(old \o more) <= RowBlocks[g],
         SlotOwned(g, old, n, NoWrite, row),
         NEW n1, n1 = n + Len(more) * Bpk(g),
         NEW w1, w1 = [start |-> n, blocks |-> Expanded(g, more)]
  PROVE  SlotGood(g, n1, w1, row) /\ SlotOwned(g, old \o more, n1, w1, row)
<1> DEFINE x == Expanded(g, more)
           c == old \o more
<1>1. x \in Seq(Nat) /\ Len(x) = Len(more) * Bpk(g) /\ Len(x) \in Nat
  BY ExpandedType
<1>2. n = Len(old) * Bpk(g) /\ n \in Nat /\ row \in RowType(g)
  BY RowSize DEF SlotGood, SlotOwned
<1>3. /\ c \in Seq(Nat) /\ n1 = Len(c) * Bpk(g)
      /\ \A k \in Nat : k < n => Expanded(g, c)[k + 1] = Expanded(g, old)[k + 1]
      /\ \A k \in Nat : n <= k /\ k < n1 => Expanded(g, c)[k + 1] = x[k - n + 1]
  BY <1>2, ExpandedConcat
<1>4. n1 \in 0 .. RowBlocks[g] * Bpk(g) /\ n <= n1
  <2>1. n1 \in Nat /\ n <= n1
    BY <1>1, <1>2
  <2>2. n1 <= RowBlocks[g] * Bpk(g)
    <3>1. Len(c) \in Nat /\ RowBlocks[g] \in Nat /\ Bpk(g) \in Nat /\ Len(c) <= RowBlocks[g]
      BY <1>3, RowSize, BpkPositive
    <3>2. Len(c) * Bpk(g) <= RowBlocks[g] * Bpk(g)
      BY <3>1, ProductMonotone
    <3> QED  BY <1>3, <3>2
  <2> QED  BY <2>1, <2>2, RowSize
<1>5. Row(g) \subseteq Nat
  BY RowSize DEF Row
<1>6. w1 \in WriteType /\ w1.start = n /\ w1.blocks = x
  BY <1>1, <1>2 DEF WriteType
<1>7. n + Len(x) = n1
  BY <1>1
<1> HIDE DEF x, c
<1>8. \A k \in Row(g) : k >= n => row[k] = 0
  BY DEF SlotGood
<1>9. SlotGood(g, n1, w1, row)
  BY <1>2, <1>4, <1>5, <1>6, <1>7, <1>8 DEF SlotGood
<1>10. \A k \in Row(g) : k < n => row[k] = Expanded(g, old)[k + 1]
  <2>1. SUFFICES ASSUME NEW k \in Row(g), k < n PROVE row[k] = Expanded(g, old)[k + 1]
    OBVIOUS
  <2>2. RowAfter(g, NoWrite, row)[k] = row[k]
    BY <1>5 DEF RowAfter, NoWrite
  <2>3. OwnRow(g, old)[k] = Expanded(g, old)[k + 1]
    BY <1>2, <2>1 DEF OwnRow
  <2> QED  BY <2>2, <2>3 DEF SlotOwned
<1>11. RowAfter(g, w1, row) = OwnRow(g, c)
  <2>1. ASSUME NEW k \in Row(g)
        PROVE  (IF w1.start <= k /\ k < w1.start + Len(w1.blocks)
                THEN w1.blocks[k - w1.start + 1] ELSE row[k])
                 = (IF k < n1 THEN Expanded(g, c)[k + 1] ELSE 0)
    <3>1. k \in Nat
      BY <1>5
    <3>2. CASE k < n
      BY <1>2, <1>3, <1>4, <1>6, <1>10, <3>1, <3>2
    <3>3. CASE n <= k /\ k < n1
      BY <1>2, <1>3, <1>6, <1>7, <3>1, <3>3
    <3>4. CASE n1 <= k
      BY <1>2, <1>4, <1>6, <1>7, <1>8, <3>1, <3>4
    <3> QED  BY <1>2, <1>4, <3>1, <3>2, <3>3, <3>4
  <2> QED  BY <1>3, <2>1 DEF RowAfter, OwnRow
<1> QED  BY <1>3, <1>9, <1>11 DEF SlotOwned, c, x

\* The empty write changes no row.
LEMMA NoWriteNoChange ==
  ASSUME NEW g \in Groups, NEW row \in RowType(g)
  PROVE  RowAfter(g, NoWrite, row) = row
<1>1. Row(g) \subseteq Nat
  BY RowSize DEF Row
<1>2. NoWrite.start = 0 /\ Len(NoWrite.blocks) = 0
  BY DEF NoWrite
<1>3. \A k \in Row(g) : ~(NoWrite.start <= k /\ k < NoWrite.start + Len(NoWrite.blocks))
  BY <1>1, <1>2
<1>4. RowAfter(g, NoWrite, row) = [k \in Row(g) |-> row[k]]
  BY <1>3 DEF RowAfter
<1> QED  BY <1>4 DEF RowType

\* Applying a write gives the row that is read through it.
LEMMA ApplySlot ==
  ASSUME NEW g \in Groups, NEW n, NEW w, NEW row, SlotGood(g, n, w, row)
  PROVE  LET row1 == RowAfter(g, w, row)
         IN  SlotGood(g, n, NoWrite, row1) /\ RowAfter(g, NoWrite, row1) = row1
<1> DEFINE row1 == RowAfter(g, w, row)
<1>1. /\ w \in WriteType /\ row \in RowType(g) /\ n \in Nat
      /\ w.start + Len(w.blocks) <= n
      /\ \A k \in Row(g) : k >= n => row[k] = 0
  BY RowSize DEF SlotGood
<1>2. w.start \in Nat /\ w.blocks \in Seq(Nat) /\ Len(w.blocks) \in Nat
  BY <1>1 DEF WriteType
<1>3. Row(g) \subseteq Nat
  BY RowSize DEF Row
<1>4. ASSUME NEW k \in Row(g)
      PROVE  row1[k] \in Nat /\ (k >= n => row1[k] = 0)
  <2>1. CASE w.start <= k /\ k < w.start + Len(w.blocks)
    <3>1. k - w.start + 1 \in 1 .. Len(w.blocks)
      BY <1>2, <1>3, <2>1
    <3>2. w.blocks[k - w.start + 1] \in Nat
      BY <1>2, <3>1, ElementOfSeq
    <3>3. ~(k >= n)
      BY <1>1, <1>2, <1>3, <2>1
    <3> QED  BY <2>1, <3>2, <3>3 DEF RowAfter
  <2>2. CASE ~(w.start <= k /\ k < w.start + Len(w.blocks))
    BY <1>1, <2>2 DEF RowAfter, RowType
  <2> QED  BY <2>1, <2>2
<1>5. row1 \in RowType(g)
  BY <1>4 DEF RowAfter, RowType
<1>6. NoWrite \in WriteType /\ NoWrite.start + Len(NoWrite.blocks) = 0
  BY DEF NoWrite, WriteType
<1>7. SlotGood(g, n, NoWrite, row1)
  BY <1>1, <1>4, <1>5, <1>6 DEF SlotGood
<1>8. RowAfter(g, NoWrite, row1) = row1
  BY <1>5, NoWriteNoChange
<1> QED  BY <1>7, <1>8

----------------------------------------------------------------------------
(* Blocks given by the scheduler.                                          *)

\* A request within the model length needs no more blocks than its row holds.
LEMMA BlocksForFits ==
  ASSUME NEW g \in Groups, NEW upto \in 0 .. MaxLen
  PROVE  BlocksFor(g, upto) \in 0 .. RowBlocks[g]
<1> DEFINE D == BlockSize[g] * CPSize
           n == RowBlocks[g]
           k == upto + D - 1
<1>1. /\ BlockSize[g] \in Nat \ {0} /\ CPSize \in Nat \ {0} /\ n \in Nat /\ MaxLen \in Nat
      /\ n * BlockSize[g] * CPSize >= MaxLen
  BY TableAssumption
<1>2. D \in Nat \ {0}
  BY <1>1, SMT
<1>3. n * BlockSize[g] * CPSize = n * D
  BY <1>1, SMT
<1>4. (n + 1) * D = n * D + D
  BY <1>1, <1>2, SMT
<1>5. n * D \in Nat
  BY <1>1, <1>2, SMT
<1>6. BlocksFor(g, upto) = k \div D
  BY DEF BlocksFor, CeilDiv
<1> HIDE DEF D, n
<1>7. upto \in Nat /\ upto <= MaxLen
  BY <1>1
<1>8. k \in Nat /\ k < (n + 1) * D
  BY <1>1, <1>2, <1>3, <1>4, <1>5, <1>7
<1> HIDE DEF k
<1>9. k \div D \in Nat
  BY <1>2, <1>8, Division
<1>10. k \div D < n + 1
  BY <1>1, <1>2, <1>8, n + 1 \in Nat, QuotientBelow
<1> QED  BY <1>1, <1>6, <1>9, <1>10 DEF n

\* With the blocks it is given a request has its row's number at most.
LEMMA AllocationFits ==
  ASSUME Shapes, IdsFit, NEW r \in Reqs, NEW upto \in 0 .. MaxLen,
         NEW more \in Allocations(r, Wanted(r, upto)), NEW g \in Groups
  PROVE  /\ more \in [Groups -> Seq(Nat)]
         /\ ids[r][g] \o more[g] \in Seq(Supply[r][g])
         /\ ids[r][g] \o more[g] \in Seq(Nat)
         /\ Len(ids[r][g] \o more[g]) <= RowBlocks[g]
<1> DEFINE want(h) == Wanted(r, upto)[h]
<1>1. ASSUME NEW h \in Groups
      PROVE  /\ Supply[r][h] \subseteq Nat
             /\ ids[r][h] \in Seq(Supply[r][h]) /\ ids[r][h] \in Seq(Nat)
             /\ Len(ids[r][h]) \in Nat /\ Len(ids[r][h]) <= RowBlocks[h]
             /\ want(h) \in Nat
             /\ Len(ids[r][h]) + want(h) <= RowBlocks[h]
  <2>1. BlocksFor(h, upto) \in 0 .. RowBlocks[h] /\ RowBlocks[h] \in Nat
    BY BlocksForFits, TableAssumption
  <2>2. Supply[r][h] \subseteq Nat
    BY TableAssumption
  <2>3. /\ ids[r][h] \in Seq(Supply[r][h]) /\ Len(ids[r][h]) <= RowBlocks[h]
        /\ ids[r][h] \in Seq(Nat)
    BY DEF IdsFit, Shapes
  <2>4. Len(ids[r][h]) \in Nat
    BY <2>3
  <2>5. want(h) = IF BlocksFor(h, upto) > Len(ids[r][h])
                  THEN BlocksFor(h, upto) - Len(ids[r][h]) ELSE 0
    BY DEF Wanted
  <2> HIDE DEF want
  <2> QED  BY <2>1, <2>2, <2>3, <2>4, <2>5
<1>2. \A h \in Groups : more[h] \in [1 .. want(h) -> Supply[r][h]]
  BY DEF Allocations, Least
<1>3. DOMAIN more = Groups /\ more = [h \in Groups |-> more[h]]
  BY DEF Allocations
<1> HIDE DEF want
<1>4. ASSUME NEW h \in Groups
      PROVE  /\ more[h] \in Seq(Supply[r][h]) /\ more[h] \in Seq(Nat)
             /\ Len(more[h]) = want(h)
  <2>1. /\ more[h] = [i \in 1 .. want(h) |-> more[h][i]]
        /\ \A i \in 1 .. want(h) : more[h][i] \in Supply[r][h]
    BY <1>2
  <2> DEFINE q == more[h]
             n == want(h)
             S == Supply[r][h]
  <2>2. S \subseteq Nat /\ n \in Nat /\ q = [i \in 1 .. n |-> q[i]] /\ \A i \in 1 .. n : q[i] \in S
    BY <1>1, <2>1
  <2> HIDE DEF q, n, S
  <2>3. q \in Seq(S) /\ q \in Seq(Nat) /\ Len(q) = n
    BY <2>2
  <2> QED  BY <2>3 DEF q, n, S
<1>5. more \in [Groups -> Seq(Nat)]
  BY <1>3, <1>4
<1>6. /\ ids[r][g] \o more[g] \in Seq(Supply[r][g])
      /\ ids[r][g] \o more[g] \in Seq(Nat)
      /\ Len(ids[r][g] \o more[g]) = Len(ids[r][g]) + Len(more[g])
  <2> DEFINE p == ids[r][g]
             q == more[g]
             S == Supply[r][g]
  <2>1. p \in Seq(S) /\ p \in Seq(Nat) /\ q \in Seq(S) /\ q \in Seq(Nat)
    BY <1>1, <1>4
  <2> HIDE DEF p, q, S
  <2>2. p \o q \in Seq(S)
    BY <2>1, ConcatProperties
  <2>3. p \o q \in Seq(Nat) /\ Len(p \o q) = Len(p) + Len(q)
    BY <2>1, ConcatProperties
  <2> QED  BY <2>2, <2>3 DEF p, q, S
<1> QED  BY <1>1, <1>4, <1>5, <1>6

----------------------------------------------------------------------------
(* append_block_ids().                                                     *)

\* What AppendBlockIds does to each slot: slot s is written, the others stay.
LEMMA AppendSlots ==
  ASSUME Shapes, NEW s \in Slots, NEW new, NEW overwrite \in BOOLEAN,
         AppendBlockIds(s, new, overwrite), NEW g \in Groups,
         Expanded(g, new[g]) \in Seq(Nat), Len(new[g]) * Bpk(g) \in Nat
  PROVE  /\ num_blocks'[g][s] = End(g, s, new, overwrite)
         /\ staged'[g][s] = [start |-> Start(g, s, overwrite), blocks |-> Expanded(g, new[g])]
         /\ tables'[g][s] = TailCleared(g, s, new, overwrite)
         /\ num_blocks'[g] \in [Slots -> Nat] /\ staged'[g] \in [Slots -> WriteType]
         /\ tables'[g] = [t \in Slots |-> tables'[g][t]]
         /\ \A t \in Slots \ {s} : /\ num_blocks'[g][t] = num_blocks[g][t]
                                   /\ staged'[g][t] = staged[g][t]
                                   /\ tables'[g][t] = tables[g][t]
<1> DEFINE end == End(g, s, new, overwrite)
           w == [start |-> Start(g, s, overwrite), blocks |-> Expanded(g, new[g])]
           row == TailCleared(g, s, new, overwrite)
<1>1. /\ num_blocks[g] \in [Slots -> Nat] /\ staged[g] \in [Slots -> WriteType]
      /\ tables[g] = [t \in Slots |-> tables[g][t]]
  BY DEF Shapes
<1>2. /\ num_blocks'[g] = [num_blocks[g] EXCEPT ![s] = end]
      /\ staged'[g] = [staged[g] EXCEPT ![s] = w]
      /\ tables'[g] = [tables[g] EXCEPT ![s] = row]
  BY DEF AppendBlockIds
<1>3. Start(g, s, overwrite) \in Nat
  BY <1>1 DEF Start
<1>4. end \in Nat /\ w \in WriteType
  BY <1>3 DEF WriteType, End
<1> HIDE DEF end, w, row
<1>5. /\ num_blocks'[g] \in [Slots -> Nat] /\ staged'[g] \in [Slots -> WriteType]
      /\ tables'[g] = [t \in Slots |-> tables'[g][t]]
  <2>1. num_blocks'[g] \in [Slots -> Nat]
    BY <1>1, <1>2, <1>4
  <2>2. staged'[g] \in [Slots -> WriteType]
    BY <1>1, <1>2, <1>4
  <2>3. tables'[g] = [t \in Slots |-> tables'[g][t]]
    BY <1>1, <1>2
  <2> QED  BY <2>1, <2>2, <2>3
<1>6. num_blocks'[g][s] = end /\ staged'[g][s] = w /\ tables'[g][s] = row
  BY <1>1, <1>2
<1>7. \A t \in Slots \ {s} : /\ num_blocks'[g][t] = num_blocks[g][t]
                             /\ staged'[g][t] = staged[g][t]
                             /\ tables'[g][t] = tables[g][t]
  BY <1>1, <1>2
<1> QED  BY <1>5, <1>6, <1>7 DEF end, w, row

\* The functions keep their domains.
LEMMA AppendShapes ==
  ASSUME NEW s, NEW new, NEW overwrite, AppendBlockIds(s, new, overwrite),
         \A g \in Groups : /\ num_blocks'[g] \in [Slots -> Nat]
                           /\ staged'[g] \in [Slots -> WriteType]
                           /\ tables'[g] = [t \in Slots |-> tables'[g][t]]
  PROVE  /\ num_blocks' \in [Groups -> [Slots -> Nat]]
         /\ staged' \in [Groups -> [Slots -> WriteType]]
         /\ tables' = [g \in Groups |-> [t \in Slots |-> tables'[g][t]]]
<1>1. /\ num_blocks' = [g \in Groups |-> num_blocks'[g]]
      /\ staged' = [g \in Groups |-> staged'[g]]
      /\ tables' = [g \in Groups |-> tables'[g]]
  BY DEF AppendBlockIds
<1> QED  BY <1>1

----------------------------------------------------------------------------
(* The invariant holds initially and is preserved by every action.         *)

\* The invariant speaks of the value of a row and of the write, whatever slot it is.
LEMMA WrittenIsRowAfter ==
  ASSUME NEW g, NEW s
  PROVE  Written(g, s) = RowAfter(g, staged[g][s], tables[g][s])
BY DEF Written, RowAfter

LEMMA NoWriteType == NoWrite \in WriteType /\ NoWrite.start + Len(NoWrite.blocks) = 0
BY DEF NoWrite, WriteType

LEMMA InitInv == Init => IInv
<1> SUFFICES ASSUME Init PROVE IInv
  OBVIOUS
<1>1. MaxReqs \in Nat \ {0} /\ MaxLen \in Nat
  BY TableAssumption
<1>2. Known = {} /\ InStep = {}
  BY DEF Init, Known, InStep
<1>3. Shapes
  BY <1>1, NoWriteType DEF Init, Shapes
<1>4. RestTyped
  BY <1>1 DEF Init, RestTyped, ZeroRow, RowType
<1>5. IdsFit
  BY RowSize DEF Init, IdsFit
<1>6. StepFits
  BY <1>1, <1>2 DEF Init, StepFits
<1>7. SlotsGood
  <2>1. SUFFICES ASSUME NEW g \in Groups, NEW s \in Slots
                 PROVE  SlotGood(g, 0, NoWrite, ZeroRow(g))
    BY DEF SlotsGood, Init
  <2> QED  BY NoWriteType, RowSize DEF SlotGood, ZeroRow, RowType
<1>8. SlotsOwned /\ SlotsDistinct /\ StagedForStep
  BY <1>2 DEF SlotsOwned, SlotsDistinct, StagedForStep, Init
<1> QED  BY <1>3, <1>4, <1>5, <1>6, <1>7, <1>8 DEF IInv

LEMMA FinishRequestsInv == IInv /\ FinishRequests => IInv'
<1> SUFFICES ASSUME IInv, FinishRequests PROVE IInv'
  OBVIOUS
<1> USE DEF IInv
<1>1. PICK gone \in SUBSET Known :
        /\ slot' = [r \in Reqs |-> IF r \in gone THEN 0 ELSE slot[r]]
        /\ ids' = [r \in Reqs |-> IF r \in gone THEN [g \in Groups |-> <<>>] ELSE ids[r]]
        /\ computed' = [r \in Reqs |-> IF r \in gone THEN 0 ELSE computed[r]]
  BY DEF FinishRequests
<1>2. /\ phase = "idle" /\ phase' = "add" /\ scheduled' = [r \in Reqs |-> 0]
      /\ UNCHANGED <<num_blocks, tables, staged, batch, padded, input>>
  BY DEF FinishRequests
<1>3. MaxReqs \in Nat \ {0} /\ MaxLen \in Nat
  BY TableAssumption
<1>4. Known' \subseteq Known \ gone /\ \A r \in Known' : slot'[r] = slot[r] /\ ids'[r] = ids[r]
  BY <1>1 DEF Known
<1>5. Shapes'
  <2>1. slot' \in [Reqs -> 0 .. MaxReqs]
    BY <1>1, <1>3 DEF Shapes
  <2>2. computed' \in [Reqs -> 0 .. MaxLen] /\ scheduled' \in [Reqs -> 0 .. MaxLen]
    BY <1>1, <1>2, <1>3 DEF Shapes
  <2>3. ids' \in [Reqs -> [Groups -> Seq(Nat)]]
    <3>1. [g \in Groups |-> <<>>] \in [Groups -> Seq(Nat)]
      OBVIOUS
    <3> QED  BY <1>1, <3>1 DEF Shapes
  <2> QED  BY <1>2, <2>1, <2>2, <2>3 DEF Shapes
<1>6. RestTyped'
  BY <1>2 DEF RestTyped
<1>7. IdsFit'
  <2>1. SUFFICES ASSUME NEW r \in Reqs, NEW g \in Groups
                 PROVE  ids'[r][g] \in Seq(Supply[r][g]) /\ Len(ids'[r][g]) <= RowBlocks[g]
    BY DEF IdsFit
  <2>2. CASE r \in gone
    <3>1. ids'[r][g] = <<>>
      BY <1>1, <2>2
    <3> QED  BY <3>1, RowSize
  <2>3. CASE r \notin gone
    BY <1>1, <2>3 DEF IdsFit
  <2> QED  BY <2>2, <2>3
<1>8. StepFits'
  BY <1>1, <1>2, <1>3 DEF StepFits, InStep, Shapes
<1>9. SlotsGood'
  BY <1>2 DEF SlotsGood
<1>10. SlotsOwned' /\ SlotsDistinct'
  BY <1>2, <1>4 DEF SlotsOwned, SlotsDistinct
<1>11. StagedForStep'
  <2>1. \A r \in Known : slot[r] \in Slots
    BY DEF Known, Shapes, Slots
  <2> QED  BY <1>2, <1>4, <2>1 DEF StagedForStep
<1> QED  BY <1>5, <1>6, <1>7, <1>8, <1>9, <1>10, <1>11

LEMMA AddRequestInv == ASSUME NEW r \in Reqs PROVE IInv /\ AddRequest(r) => IInv'
<1> SUFFICES ASSUME IInv, AddRequest(r) PROVE IInv'
  OBVIOUS
<1> USE DEF IInv
<1>1. PICK s \in FreeSlots \cup ({slot[r]} \ {0}), n \in TokenCounts(r) :
        /\ \E more \in Allocations(r, Wanted(r, computed[r] + n)) :
             LET all == [g \in Groups |-> ids[r][g] \o more[g]]
             IN  /\ ids' = [ids EXCEPT ![r] = all]
                 /\ AppendBlockIds(s, all, TRUE)
        /\ slot' = [slot EXCEPT ![r] = s]
        /\ scheduled' = [scheduled EXCEPT ![r] = n]
  BY DEF AddRequest
<1>2. PICK more \in Allocations(r, Wanted(r, computed[r] + n)) :
        /\ ids' = [ids EXCEPT ![r] = [g \in Groups |-> ids[r][g] \o more[g]]]
        /\ AppendBlockIds(s, [g \in Groups |-> ids[r][g] \o more[g]], TRUE)
  BY <1>1
<1>3. phase = "add" /\ UNCHANGED <<phase, computed, batch, padded, input>>
  BY DEF AddRequest
<1> DEFINE all == [g \in Groups |-> ids[r][g] \o more[g]]
<1>4. MaxReqs \in Nat \ {0} /\ MaxLen \in Nat
  BY TableAssumption
<1>5. /\ n \in 1 .. MaxLen /\ computed[r] + n \in 0 .. MaxLen
  BY <1>4 DEF TokenCounts, Shapes
<1>6. s \in Slots
  BY <1>4 DEF FreeSlots, Shapes, Slots
<1>7. \A q \in Known : q # r => slot[q] # s
  BY DEF FreeSlots, SlotsDistinct, Known
<1>8. \A g \in Groups : /\ all[g] \in Seq(Nat) /\ all[g] \in Seq(Supply[r][g])
                        /\ Len(all[g]) <= RowBlocks[g]
  BY <1>5, AllocationFits
<1>9. ids' = [ids EXCEPT ![r] = all] /\ AppendBlockIds(s, all, TRUE)
  BY <1>2
<1> HIDE DEF all
<1>10. all \in [Groups -> Seq(Nat)]
  BY <1>8 DEF all
<1>11. ASSUME NEW g \in Groups
       PROVE  /\ num_blocks'[g] \in [Slots -> Nat] /\ staged'[g] \in [Slots -> WriteType]
              /\ tables'[g] = [t \in Slots |-> tables'[g][t]]
              /\ SlotGood(g, num_blocks'[g][s], staged'[g][s], tables'[g][s])
              /\ SlotOwned(g, all[g], num_blocks'[g][s], staged'[g][s], tables'[g][s])
              /\ \A t \in Slots \ {s} : /\ num_blocks'[g][t] = num_blocks[g][t]
                                        /\ staged'[g][t] = staged[g][t]
                                        /\ tables'[g][t] = tables[g][t]
  <2>1. Expanded(g, all[g]) \in Seq(Nat) /\ Len(all[g]) * Bpk(g) \in Nat
    BY <1>8, ExpandedType, BpkPositive, ProductMonotone
  <2> DEFINE new == TRUE
  <2>2. new \in BOOLEAN /\ AppendBlockIds(s, all, new)
    BY <1>9
  <2>3. /\ Start(g, s, new) = 0 /\ End(g, s, all, new) = 0 + Len(all[g]) * Bpk(g)
        /\ TailCleared(g, s, all, new)
             = Cleared(g, End(g, s, all, new), num_blocks[g][s], tables[g][s])
    BY DEF Start, End, TailCleared, Cleared
  <2> HIDE DEF new
  <2>4. /\ num_blocks'[g][s] = End(g, s, all, new)
        /\ staged'[g][s] = [start |-> Start(g, s, new), blocks |-> Expanded(g, all[g])]
        /\ tables'[g][s] = TailCleared(g, s, all, new)
        /\ num_blocks'[g] \in [Slots -> Nat] /\ staged'[g] \in [Slots -> WriteType]
        /\ tables'[g] = [t \in Slots |-> tables'[g][t]]
        /\ \A t \in Slots \ {s} : /\ num_blocks'[g][t] = num_blocks[g][t]
                                  /\ staged'[g][t] = staged[g][t]
                                  /\ tables'[g][t] = tables[g][t]
    BY <1>6, <2>1, <2>2, AppendSlots
  <2>5. SlotGood(g, num_blocks[g][s], staged[g][s], tables[g][s])
    BY <1>6 DEF SlotsGood
  <2>6. /\ SlotGood(g, num_blocks'[g][s], staged'[g][s], tables'[g][s])
        /\ SlotOwned(g, all[g], num_blocks'[g][s], staged'[g][s], tables'[g][s])
    <3> DEFINE n1 == num_blocks'[g][s]
               w1 == staged'[g][s]
               row1 == tables'[g][s]
               blocks == all[g]
    <3>1. blocks \in Seq(Nat) /\ Len(blocks) <= RowBlocks[g]
      BY <1>8
    <3>2. /\ n1 = 0 + Len(blocks) * Bpk(g)
          /\ w1 = [start |-> 0, blocks |-> Expanded(g, blocks)]
          /\ row1 = Cleared(g, n1, num_blocks[g][s], tables[g][s])
      BY <2>3, <2>4
    <3> HIDE DEF n1, w1, row1, blocks
    <3>3. SlotGood(g, n1, w1, row1) /\ SlotOwned(g, blocks, n1, w1, row1)
      BY <2>5, <3>1, <3>2, OverwriteSlot
    <3> QED  BY <3>3 DEF n1, w1, row1, blocks
  <2> QED  BY <2>4, <2>6
<1>12. /\ slot'[r] = s /\ ids'[r] = all /\ scheduled'[r] = n
       /\ \A q \in Reqs \ {r} : slot'[q] = slot[q] /\ ids'[q] = ids[q] /\ scheduled'[q] = scheduled[q]
  BY <1>1, <1>9 DEF Shapes
<1>13. \A q \in Known' : q = r \/ (q \in Known /\ slot'[q] = slot[q] /\ slot[q] \in Slots \ {s})
  BY <1>7, <1>12 DEF Known, Shapes, Slots
<1>14. Shapes'
  <2>1. slot' \in [Reqs -> 0 .. MaxReqs] /\ scheduled' \in [Reqs -> 0 .. MaxLen]
    BY <1>1, <1>4, <1>5, <1>6 DEF Shapes, Slots
  <2>2. ids' \in [Reqs -> [Groups -> Seq(Nat)]] /\ computed' \in [Reqs -> 0 .. MaxLen]
    BY <1>3, <1>9, <1>10 DEF Shapes
  <2>3. /\ num_blocks' \in [Groups -> [Slots -> Nat]] /\ staged' \in [Groups -> [Slots -> WriteType]]
        /\ tables' = [g \in Groups |-> [t \in Slots |-> tables'[g][t]]]
    BY <1>9, <1>11, AppendShapes
  <2> QED  BY <2>1, <2>2, <2>3 DEF Shapes
<1>15. RestTyped'
  BY <1>3 DEF RestTyped
<1>16. IdsFit'
  BY <1>8, <1>12 DEF IdsFit
<1>17. StepFits'
  BY <1>3, <1>5, <1>6, <1>12 DEF StepFits, InStep, Known, Slots
<1>18. SlotsGood'
  <2>1. SUFFICES ASSUME NEW g \in Groups, NEW t \in Slots
                 PROVE  SlotGood(g, num_blocks'[g][t], staged'[g][t], tables'[g][t])
    BY DEF SlotsGood
  <2>2. CASE t = s
    BY <1>11, <2>2
  <2>3. CASE t # s
    <3>1. SlotGood(g, num_blocks[g][t], staged[g][t], tables[g][t])
      BY DEF SlotsGood
    <3>2. /\ num_blocks'[g][t] = num_blocks[g][t] /\ staged'[g][t] = staged[g][t]
          /\ tables'[g][t] = tables[g][t]
      BY <1>11, <2>3
    <3> QED  BY <3>1, <3>2
  <2> QED  BY <2>2, <2>3
<1>19. SlotsOwned'
  <2>1. SUFFICES ASSUME NEW q \in Known', NEW g \in Groups
                 PROVE  SlotOwned(g, ids'[q][g], num_blocks'[g][slot'[q]],
                                  staged'[g][slot'[q]], tables'[g][slot'[q]])
    BY DEF SlotsOwned
  <2>2. CASE q = r
    BY <1>11, <1>12, <2>2
  <2>3. CASE q # r
    <3>1. q \in Known /\ q \in Reqs \ {r} /\ slot'[q] = slot[q] /\ slot[q] \in Slots \ {s} /\ ids'[q] = ids[q]
      BY <1>12, <1>13, <2>3 DEF Known
    <3>2. SlotOwned(g, ids[q][g], num_blocks[g][slot[q]], staged[g][slot[q]], tables[g][slot[q]])
      BY <3>1 DEF SlotsOwned
    <3>3. /\ num_blocks'[g][slot[q]] = num_blocks[g][slot[q]]
          /\ staged'[g][slot[q]] = staged[g][slot[q]]
          /\ tables'[g][slot[q]] = tables[g][slot[q]]
      BY <1>11, <3>1
    <3> QED  BY <3>1, <3>2, <3>3
  <2> QED  BY <2>2, <2>3
<1>20. SlotsDistinct'
  BY <1>12, <1>13 DEF SlotsDistinct
<1>21. StagedForStep'
  <2>1. SUFFICES ASSUME NEW q \in Known' \ InStep', NEW g \in Groups
                 PROVE  staged'[g][slot'[q]] = NoWrite
    BY <1>3 DEF StagedForStep
  <2>2. q # r
    BY <1>5, <1>12 DEF InStep
  <2>3. q \in Known \ InStep /\ slot'[q] = slot[q] /\ slot[q] \in Slots \ {s}
    BY <1>12, <1>13, <2>2 DEF InStep, Known
  <2>4. staged[g][slot[q]] = NoWrite
    BY <2>3 DEF StagedForStep
  <2>5. staged'[g][slot[q]] = staged[g][slot[q]]
    BY <1>11, <2>3
  <2> QED  BY <2>3, <2>4, <2>5
<1> QED  BY <1>14, <1>15, <1>16, <1>17, <1>18, <1>19, <1>20, <1>21

LEMMA UpdateRequestInv == ASSUME NEW r \in Reqs PROVE IInv /\ UpdateRequest(r) => IInv'
<1> SUFFICES ASSUME IInv, UpdateRequest(r) PROVE IInv'
  OBVIOUS
<1> USE DEF IInv
<1>1. PICK n \in TokenCounts(r) :
        /\ \E more \in Allocations(r, Wanted(r, computed[r] + n)) :
             /\ ids' = [ids EXCEPT ![r] = [g \in Groups |-> @[g] \o more[g]]]
             /\ IF \A g \in Groups : more[g] = <<>>
                THEN UNCHANGED <<staged, tables, num_blocks>>
                ELSE AppendBlockIds(slot[r], more, FALSE)
        /\ scheduled' = [scheduled EXCEPT ![r] = n]
  BY DEF UpdateRequest
<1>2. PICK more \in Allocations(r, Wanted(r, computed[r] + n)) :
        /\ ids' = [ids EXCEPT ![r] = [g \in Groups |-> ids[r][g] \o more[g]]]
        /\ IF \A g \in Groups : more[g] = <<>>
           THEN UNCHANGED <<staged, tables, num_blocks>>
           ELSE AppendBlockIds(slot[r], more, FALSE)
  BY <1>1 DEF Shapes
<1>3. /\ phase' = "update" /\ r \in Known \ InStep
      /\ UNCHANGED <<slot, computed, batch, padded, input>>
  BY DEF UpdateRequest
<1> DEFINE all == [g \in Groups |-> ids[r][g] \o more[g]]
           s == slot[r]
<1>4. MaxReqs \in Nat \ {0} /\ MaxLen \in Nat
  BY TableAssumption
<1>5. /\ n \in 1 .. MaxLen /\ computed[r] + n \in 0 .. MaxLen
  BY <1>4 DEF TokenCounts, Shapes
<1>6. s \in Slots
  BY <1>3, <1>4 DEF Shapes, Slots, Known
<1>7. \A q \in Known : q # r => slot[q] \in Slots \ {s}
  BY <1>3, <1>4 DEF SlotsDistinct, Known, Shapes, Slots
<1>8. ASSUME NEW g \in Groups
      PROVE  /\ all[g] \in Seq(Nat) /\ all[g] \in Seq(Supply[r][g])
             /\ Len(all[g]) <= RowBlocks[g]
             /\ more[g] \in Seq(Nat) /\ ids[r][g] \in Seq(Nat)
             /\ all[g] = ids[r][g] \o more[g]
  <2>1. ids[r][g] \in Seq(Nat)
    BY DEF Shapes
  <2> QED  BY <1>5, <2>1, AllocationFits
<1>9. ids' = [ids EXCEPT ![r] = all]
  BY <1>2
<1> HIDE DEF all
<1>10. all \in [Groups -> Seq(Nat)]
  BY <1>8 DEF all
<1>11. ASSUME NEW g \in Groups
       PROVE  /\ num_blocks'[g] \in [Slots -> Nat] /\ staged'[g] \in [Slots -> WriteType]
              /\ tables'[g] = [t \in Slots |-> tables'[g][t]]
              /\ SlotGood(g, num_blocks'[g][s], staged'[g][s], tables'[g][s])
              /\ SlotOwned(g, all[g], num_blocks'[g][s], staged'[g][s], tables'[g][s])
              /\ \A t \in Slots \ {s} : /\ num_blocks'[g][t] = num_blocks[g][t]
                                        /\ staged'[g][t] = staged[g][t]
                                        /\ tables'[g][t] = tables[g][t]
  <2>1. /\ SlotGood(g, num_blocks[g][s], staged[g][s], tables[g][s])
        /\ SlotOwned(g, ids[r][g], num_blocks[g][s], staged[g][s], tables[g][s])
    BY <1>3, <1>6 DEF SlotsGood, SlotsOwned
  <2>2. CASE \A h \in Groups : more[h] = <<>>
    <3>1. all[g] = ids[r][g]
      BY <1>8, <2>2, ConcatEmptySeq
    <3>2. UNCHANGED <<staged, tables, num_blocks>>
      BY <1>2, <2>2
    <3>3. /\ num_blocks[g] \in [Slots -> Nat] /\ staged[g] \in [Slots -> WriteType]
          /\ tables[g] = [t \in Slots |-> tables[g][t]]
      BY DEF Shapes
    <3> QED  BY <2>1, <3>1, <3>2, <3>3
  <2>3. CASE ~ \A h \in Groups : more[h] = <<>>
    <3> DEFINE new == FALSE
    <3>1. new \in BOOLEAN /\ AppendBlockIds(s, more, new)
      BY <1>2, <2>3
    <3>2. /\ Start(g, s, new) = num_blocks[g][s]
          /\ End(g, s, more, new) = num_blocks[g][s] + Len(more[g]) * Bpk(g)
      BY DEF Start, End
    <3>3. TailCleared(g, s, more, new) = tables[g][s]
      <4>1. TailCleared(g, s, more, new) = [k \in Row(g) |-> tables[g][s][k]]
        BY DEF TailCleared
      <4>2. tables[g][s] \in RowType(g)
        BY <2>1 DEF SlotGood
      <4> QED  BY <4>1, <4>2 DEF RowType
    <3> HIDE DEF new
    <3>4. Expanded(g, more[g]) \in Seq(Nat) /\ Len(more[g]) * Bpk(g) \in Nat
      <4>1. more[g] \in Seq(Nat)
        BY <1>8
      <4>2. Len(more[g]) \in Nat /\ Bpk(g) \in Nat
        BY <4>1, BpkPositive
      <4>3. Expanded(g, more[g]) \in Seq(Nat)
        BY <4>1, ExpandedType
      <4>4. Len(more[g]) * Bpk(g) \in Nat
        BY <4>2, ProductMonotone
      <4> QED  BY <4>3, <4>4
    <3>5. /\ num_blocks'[g][s] = End(g, s, more, new)
          /\ staged'[g][s] = [start |-> Start(g, s, new), blocks |-> Expanded(g, more[g])]
          /\ tables'[g][s] = TailCleared(g, s, more, new)
          /\ num_blocks'[g] \in [Slots -> Nat] /\ staged'[g] \in [Slots -> WriteType]
          /\ tables'[g] = [t \in Slots |-> tables'[g][t]]
          /\ \A t \in Slots \ {s} : /\ num_blocks'[g][t] = num_blocks[g][t]
                                    /\ staged'[g][t] = staged[g][t]
                                    /\ tables'[g][t] = tables[g][t]
      BY <1>6, <3>1, <3>4, AppendSlots
    <3>6. staged[g][s] = NoWrite
      BY <1>3 DEF StagedForStep
    <3>7. /\ SlotGood(g, num_blocks'[g][s], staged'[g][s], tables'[g][s])
          /\ SlotOwned(g, all[g], num_blocks'[g][s], staged'[g][s], tables'[g][s])
      <4> DEFINE n0 == num_blocks[g][s]
                 row == tables[g][s]
                 n1 == num_blocks'[g][s]
                 w1 == staged'[g][s]
                 old == ids[r][g]
                 added == more[g]
      <4>1. /\ old \in Seq(Nat) /\ added \in Seq(Nat) /\ Len(old \o added) <= RowBlocks[g]
            /\ all[g] = old \o added
        BY <1>8
      <4>2. SlotGood(g, n0, NoWrite, row) /\ SlotOwned(g, old, n0, NoWrite, row)
        BY <2>1, <3>6
      <4>3. n1 = n0 + Len(added) * Bpk(g) /\ w1 = [start |-> n0, blocks |-> Expanded(g, added)]
        BY <3>2, <3>5
      <4>4. tables'[g][s] = row
        BY <3>3, <3>5
      <4> HIDE DEF n0, row, n1, w1, old, added
      <4>5. SlotGood(g, n1, w1, row) /\ SlotOwned(g, old \o added, n1, w1, row)
        BY <4>1, <4>2, <4>3, AppendSlot
      <4> QED  BY <4>1, <4>4, <4>5 DEF n1, w1
    <3> QED  BY <3>5, <3>7
  <2> QED  BY <2>2, <2>3
<1>12. /\ ids'[r] = all /\ scheduled'[r] = n
       /\ \A q \in Reqs \ {r} : ids'[q] = ids[q] /\ scheduled'[q] = scheduled[q]
  BY <1>1, <1>9 DEF Shapes
<1>13. Known' = Known
  BY <1>3 DEF Known
<1>14. Shapes'
  <2>1. slot' \in [Reqs -> 0 .. MaxReqs] /\ scheduled' \in [Reqs -> 0 .. MaxLen]
    BY <1>1, <1>3, <1>4, <1>5 DEF Shapes
  <2>2. ids' \in [Reqs -> [Groups -> Seq(Nat)]] /\ computed' \in [Reqs -> 0 .. MaxLen]
    BY <1>3, <1>9, <1>10 DEF Shapes
  <2>3. /\ num_blocks' \in [Groups -> [Slots -> Nat]] /\ staged' \in [Groups -> [Slots -> WriteType]]
        /\ tables' = [g \in Groups |-> [t \in Slots |-> tables'[g][t]]]
    <3>1. CASE \A g \in Groups : more[g] = <<>>
      BY <1>2, <3>1 DEF Shapes
    <3>2. CASE ~ \A g \in Groups : more[g] = <<>>
      <4> DEFINE new == FALSE
      <4>1. AppendBlockIds(s, more, new)
        BY <1>2, <3>2
      <4> HIDE DEF new
      <4> QED  BY <1>11, <4>1, AppendShapes
    <3> QED  BY <3>1, <3>2
  <2> QED  BY <2>1, <2>2, <2>3 DEF Shapes
<1>15. RestTyped'
  BY <1>3 DEF RestTyped
<1>16. IdsFit'
  BY <1>8, <1>12 DEF IdsFit
<1>17. StepFits'
  BY <1>3, <1>5, <1>12, <1>13 DEF StepFits, InStep
<1>18. SlotsGood'
  <2>1. SUFFICES ASSUME NEW g \in Groups, NEW t \in Slots
                 PROVE  SlotGood(g, num_blocks'[g][t], staged'[g][t], tables'[g][t])
    BY DEF SlotsGood
  <2>2. CASE t = s
    BY <1>11, <2>2
  <2>3. CASE t # s
    <3>1. SlotGood(g, num_blocks[g][t], staged[g][t], tables[g][t])
      BY DEF SlotsGood
    <3>2. /\ num_blocks'[g][t] = num_blocks[g][t] /\ staged'[g][t] = staged[g][t]
          /\ tables'[g][t] = tables[g][t]
      BY <1>11, <2>3
    <3> QED  BY <3>1, <3>2
  <2> QED  BY <2>2, <2>3
<1>19. SlotsOwned'
  <2>1. SUFFICES ASSUME NEW q \in Known, NEW g \in Groups
                 PROVE  SlotOwned(g, ids'[q][g], num_blocks'[g][slot[q]],
                                  staged'[g][slot[q]], tables'[g][slot[q]])
    BY <1>3, <1>13 DEF SlotsOwned
  <2>2. CASE q = r
    BY <1>11, <1>12, <2>2
  <2>3. CASE q # r
    <3>1. slot[q] \in Slots \ {s} /\ ids'[q] = ids[q]
      BY <1>7, <1>12, <2>3 DEF Known
    <3>2. SlotOwned(g, ids[q][g], num_blocks[g][slot[q]], staged[g][slot[q]], tables[g][slot[q]])
      BY DEF SlotsOwned
    <3>3. /\ num_blocks'[g][slot[q]] = num_blocks[g][slot[q]]
          /\ staged'[g][slot[q]] = staged[g][slot[q]]
          /\ tables'[g][slot[q]] = tables[g][slot[q]]
      BY <1>11, <3>1
    <3> QED  BY <3>1, <3>2, <3>3
  <2> QED  BY <2>2, <2>3
<1>20. SlotsDistinct'
  BY <1>3, <1>13 DEF SlotsDistinct
<1>21. StagedForStep'
  <2>1. SUFFICES ASSUME NEW q \in Known \ InStep', NEW g \in Groups
                 PROVE  staged'[g][slot[q]] = NoWrite
    BY <1>3, <1>13 DEF StagedForStep
  <2>2. q # r
    BY <1>5, <1>12 DEF InStep
  <2>3. q \in Known \ InStep /\ slot[q] \in Slots \ {s}
    BY <1>7, <1>12, <2>2 DEF InStep, Known
  <2>4. staged[g][slot[q]] = NoWrite
    BY <2>3 DEF StagedForStep
  <2>5. staged'[g][slot[q]] = staged[g][slot[q]]
    BY <1>11, <2>3
  <2> QED  BY <2>4, <2>5
<1> QED  BY <1>14, <1>15, <1>16, <1>17, <1>18, <1>19, <1>20, <1>21

LEMMA ApplyStagedWritesInv == IInv /\ ApplyStagedWrites => IInv'
<1> SUFFICES ASSUME IInv, ApplyStagedWrites PROVE IInv'
  OBVIOUS
<1> USE DEF IInv
<1>1. /\ phase' \in {"idle", "prepare"}
      /\ tables' = [g \in Groups |-> [s \in Slots |-> Written(g, s)]]
      /\ staged' = [g \in Groups |-> [s \in Slots |-> NoWrite]]
      /\ UNCHANGED <<slot, ids, computed, scheduled, num_blocks, batch, padded, input>>
  BY DEF ApplyStagedWrites
<1>2. Known' = Known /\ InStep' = InStep
  BY <1>1 DEF Known, InStep
<1>3. Shapes'
  BY <1>1, NoWriteType DEF Shapes
<1>4. RestTyped' /\ IdsFit' /\ StepFits' /\ SlotsDistinct'
  BY <1>1, <1>2 DEF RestTyped, IdsFit, StepFits, SlotsDistinct
<1>5. ASSUME NEW g \in Groups, NEW s \in Slots
      PROVE  /\ SlotGood(g, num_blocks'[g][s], staged'[g][s], tables'[g][s])
             /\ RowAfter(g, staged'[g][s], tables'[g][s]) = RowAfter(g, staged[g][s], tables[g][s])
  <2>1. /\ num_blocks'[g][s] = num_blocks[g][s] /\ staged'[g][s] = NoWrite
        /\ tables'[g][s] = RowAfter(g, staged[g][s], tables[g][s])
    BY <1>1, WrittenIsRowAfter
  <2>2. SlotGood(g, num_blocks[g][s], staged[g][s], tables[g][s])
    BY DEF SlotsGood
  <2> QED  BY <2>1, <2>2, ApplySlot
<1>6. SlotsGood'
  BY <1>5 DEF SlotsGood
<1>7. SlotsOwned'
  <2>1. SUFFICES ASSUME NEW r \in Known, NEW g \in Groups
                 PROVE  SlotOwned(g, ids[r][g], num_blocks[g][slot[r]],
                                  staged'[g][slot[r]], tables'[g][slot[r]])
    BY <1>1, <1>2 DEF SlotsOwned
  <2>2. slot[r] \in Slots
    BY TableAssumption DEF Known, Shapes, Slots
  <2>3. SlotOwned(g, ids[r][g], num_blocks[g][slot[r]], staged[g][slot[r]], tables[g][slot[r]])
    BY DEF SlotsOwned
  <2> QED  BY <1>5, <2>2, <2>3 DEF SlotOwned
<1>8. StagedForStep'
  <2>1. \A r \in Known : slot[r] \in Slots
    BY TableAssumption DEF Known, Shapes, Slots
  <2> QED  BY <1>1, <1>2, <2>1 DEF StagedForStep
<1> QED  BY <1>3, <1>4, <1>6, <1>7, <1>8

\* A row of the batch has the type of a row, whatever is gathered into it.
LEMMA GatheredRowType ==
  ASSUME IInv, NEW order \in Seq(InStep), NEW rows, NEW g \in Groups, NEW b \in Slots
  PROVE  GatheredRow(g, b, order, rows) \in RowType(g)
<1> USE DEF IInv
<1>1. input[g][b] \in RowType(g) /\ ZeroRow(g) \in RowType(g)
  BY DEF RestTyped, ZeroRow, RowType
<1>2. CASE b <= Len(order)
  <2>1. b \in 1 .. Len(order)
    BY <1>2, TableAssumption DEF Slots
  <2>2. order[b] \in InStep
    BY <2>1, ElementOfSeq
  <2>3. slot[order[b]] \in Slots
    BY <2>2, TableAssumption DEF StepFits, Known, InStep, Shapes, Slots
  <2>4. tables[g][slot[order[b]]] \in RowType(g)
    BY <2>3 DEF SlotsGood, SlotGood
  <2> QED  BY <1>1, <1>2, <2>4 DEF GatheredRow, RowType
<1>3. CASE ~(b <= Len(order))
  BY <1>1, <1>3 DEF GatheredRow
<1> QED  BY <1>2, <1>3

LEMMA PrepareAttnInv == IInv /\ PrepareAttn => IInv'
<1> SUFFICES ASSUME IInv, PrepareAttn PROVE IInv'
  OBVIOUS
<1> USE DEF IInv
<1>1. PICK order \in BatchOrders :
        /\ batch' = order
        /\ padded' \in Len(order) .. MaxReqs
        /\ input' = [g \in Groups |-> [b \in Slots |-> GatheredRow(g, b, order, padded')]]
  BY DEF PrepareAttn
<1>2. /\ phase = "prepare" /\ phase' = "forward"
      /\ UNCHANGED <<slot, ids, computed, scheduled, num_blocks, tables, staged>>
  BY DEF PrepareAttn
<1>3. order \in Seq(InStep) /\ order \in Seq(Reqs) /\ Len(order) \in Nat
  <2>1. Cardinality(InStep) \in Nat
    BY FS_Subset, FS_CardinalityType, TableAssumption DEF InStep
  <2>2. order \in Seq(InStep)
    BY <2>1 DEF BatchOrders
  <2>3. InStep \subseteq Reqs
    BY DEF InStep
  <2> QED  BY <2>2, <2>3
<1>4. Known' = Known /\ InStep' = InStep
  BY <1>2 DEF Known, InStep
<1>5. Shapes' /\ IdsFit' /\ StepFits' /\ SlotsGood' /\ SlotsOwned' /\ SlotsDistinct' /\ StagedForStep'
  BY <1>2, <1>4 DEF Shapes, IdsFit, StepFits, SlotsGood, SlotsOwned, SlotsDistinct, StagedForStep
<1>6. RestTyped'
  <2>1. \A g \in Groups, b \in Slots : input'[g][b] \in RowType(g)
    BY <1>1, <1>3, GatheredRowType
  <2>2. padded' \in 0 .. MaxReqs
    BY <1>1, <1>3, TableAssumption
  <2> QED  BY <1>1, <1>2, <1>3, <2>1, <2>2 DEF RestTyped
<1> QED  BY <1>5, <1>6

LEMMA EndStepInv == IInv /\ EndStep => IInv'
<1> SUFFICES ASSUME IInv, EndStep PROVE IInv'
  OBVIOUS
<1> USE DEF IInv
<1>1. /\ phase = "forward" /\ phase' = "idle" /\ padded' = 0 /\ batch' = <<>>
      /\ computed' = [r \in Reqs |-> computed[r] + scheduled[r]]
      /\ scheduled' = [r \in Reqs |-> 0]
      /\ UNCHANGED <<slot, ids, num_blocks, tables, staged, input>>
  BY DEF EndStep
<1>2. Known' = Known /\ InStep' = {}
  BY <1>1 DEF Known, InStep
<1>3. \A r \in Reqs : computed'[r] \in 0 .. MaxLen /\ scheduled'[r] = 0
  BY <1>1, TableAssumption DEF Shapes, StepFits
<1>4. Shapes'
  BY <1>1, <1>3, TableAssumption DEF Shapes
<1>5. RestTyped'
  BY <1>1, TableAssumption DEF RestTyped
<1>6. StepFits'
  BY <1>2, <1>3, TableAssumption DEF StepFits
<1>7. IdsFit' /\ SlotsGood' /\ SlotsOwned' /\ SlotsDistinct'
  BY <1>1, <1>2 DEF IdsFit, SlotsGood, SlotsOwned, SlotsDistinct
<1>8. StagedForStep'
  <2>1. \A r \in Known : slot[r] \in Slots
    BY TableAssumption DEF Known, Shapes, Slots
  <2> QED  BY <1>1, <1>2, <2>1 DEF StagedForStep
<1> QED  BY <1>4, <1>5, <1>6, <1>7, <1>8

LEMMA DummyRunInv == IInv /\ DummyRun => IInv'
<1> SUFFICES ASSUME IInv, DummyRun PROVE IInv'
  OBVIOUS
<1> USE DEF IInv
<1>1. PICK rows \in Slots :
        input' = [g \in Groups |-> [b \in Slots |-> IF b <= rows THEN ZeroRow(g) ELSE input[g][b]]]
  BY DEF DummyRun
<1>2. UNCHANGED <<phase, slot, ids, computed, scheduled, num_blocks, tables, staged, batch, padded>>
  BY DEF DummyRun
<1>3. Known' = Known /\ InStep' = InStep
  BY <1>2 DEF Known, InStep
<1>4. Shapes' /\ IdsFit' /\ StepFits' /\ SlotsGood' /\ SlotsOwned' /\ SlotsDistinct' /\ StagedForStep'
  BY <1>2, <1>3 DEF Shapes, IdsFit, StepFits, SlotsGood, SlotsOwned, SlotsDistinct, StagedForStep
<1>5. \A g \in Groups, b \in Slots : input'[g][b] \in RowType(g)
  BY <1>1 DEF RestTyped, ZeroRow, RowType
<1>6. RestTyped'
  BY <1>2, <1>5 DEF RestTyped
<1> QED  BY <1>4, <1>6

LEMMA Inductive == Spec => []IInv
<1>1. IInv /\ [Next]_vars => IInv'
  <2> SUFFICES ASSUME IInv, [Next]_vars PROVE IInv'
    OBVIOUS
  <2>1. CASE UNCHANGED vars
    <3>1. Known' = Known /\ InStep' = InStep
      BY <2>1 DEF vars, Known, InStep
    <3> QED  BY <2>1, <3>1 DEF vars, IInv, Shapes, RestTyped, IdsFit, StepFits, SlotsGood,
               SlotsOwned, SlotsDistinct, StagedForStep
  <2>2. CASE Next
    BY <2>2, FinishRequestsInv, AddRequestInv, UpdateRequestInv, ApplyStagedWritesInv,
       PrepareAttnInv, EndStepInv, DummyRunInv DEF Next
  <2> QED  BY <2>1, <2>2
<1> QED  BY <1>1, InitInv, PTL DEF Spec

----------------------------------------------------------------------------
(* The theorems.                                                           *)

\* Every reachable state has its type; no extent passes the end of its row, where
\* append_block_ids() would raise.
THEOREM TypeCorrect == Spec => []TypeOK
<1>1. IInv => TypeOK
  <2> SUFFICES ASSUME IInv PROVE TypeOK
    OBVIOUS
  <2> USE DEF IInv
  <2>1. /\ phase \in {"idle", "add", "update", "prepare", "forward"}
        /\ slot \in [Reqs -> 0 .. MaxReqs]
        /\ computed \in [Reqs -> 0 .. MaxLen] /\ scheduled \in [Reqs -> 0 .. MaxLen]
        /\ batch \in Seq(Reqs) /\ padded \in 0 .. MaxReqs
    BY DEF Shapes, RestTyped
  <2>2. \A r \in Reqs, g \in Groups : ids[r][g] \in Seq(Supply[r][g])
    BY DEF IdsFit
  <2>3. \A g \in Groups, s \in Slots :
          /\ num_blocks[g][s] \in 0 .. RowBlocks[g] * Bpk(g)
          /\ tables[g][s] \in [Row(g) -> Nat]
          /\ staged[g][s].start \in Nat /\ staged[g][s].blocks \in Seq(Nat)
          /\ input[g][s] \in [Row(g) -> Nat]
    BY DEF SlotsGood, SlotGood, RestTyped, RowType, WriteType
  <2> QED  BY <2>1, <2>2, <2>3 DEF TypeOK
<1> QED  BY <1>1, Inductive, PTL

\* Whatever the sizes of blocks, rows and batches, and however slots are reused: once the
\* writes are applied a slot's row holds its request's blocks and then zeros, and no two
\* requests share a slot (append_block_ids() and apply_staged_writes()).
THEOREM RowsHoldTheirOwner == Spec => []RowsMatchOwner
<1>1. IInv => RowsMatchOwner
  <2> SUFFICES ASSUME IInv, phase \notin {"add", "update"}, NEW r \in Known, NEW g \in Groups
               PROVE  /\ \A q \in Known : slot[q] = slot[r] => q = r
                      /\ tables[g][slot[r]] = OwnRow(g, ids[r][g])
    BY DEF RowsMatchOwner, OwnRow
  <2> USE DEF IInv
  <2>1. \A q \in Known : slot[q] = slot[r] => q = r
    BY DEF SlotsDistinct
  <2>2. slot[r] \in Slots
    BY TableAssumption DEF Known, Shapes, Slots
  <2>3. staged[g][slot[r]] = NoWrite
    BY <2>2 DEF StagedForStep
  <2>4. RowAfter(g, NoWrite, tables[g][slot[r]]) = OwnRow(g, ids[r][g])
    BY <2>3 DEF SlotsOwned, SlotOwned
  <2>5. RowAfter(g, NoWrite, tables[g][slot[r]]) = tables[g][slot[r]]
    <3>1. tables[g][slot[r]] \in RowType(g)
      BY <2>2 DEF SlotsGood, SlotGood
    <3> QED  BY <3>1, NoWriteNoChange
  <2> QED  BY <2>1, <2>4, <2>5
<1> QED  BY <1>1, Inductive, PTL

----------------------------------------------------------------------------
(* Positions dealt to the ranks.                                           *)

\* How many of the first p positions are dealt to a rank.
Dealt(p, rank) ==
  ((p \div Interleave) \div CPSize) * Interleave
    + (IF rank < HomeRank(p) THEN Interleave
       ELSE IF rank = HomeRank(p) THEN p % Interleave ELSE 0)

\* Round, rank and place within the rank's turn determine the position.
LEMMA Coordinates ==
  ASSUME NEW x \in Nat, NEW k \in 0 .. CPSize - 1, NEW c \in 0 .. Interleave - 1
  PROVE  LET p == (x * CPSize + k) * Interleave + c
         IN  /\ p \in Nat /\ p \div Interleave = x * CPSize + k /\ p % Interleave = c
             /\ (p \div Interleave) \div CPSize = x /\ HomeRank(p) = k
<1>1. CPSize \in Nat \ {0} /\ Interleave \in Nat \ {0}
  BY TableAssumption
<1> DEFINE y == x * CPSize + k
           p == y * Interleave + c
<1>2. k \in Nat /\ k < CPSize /\ c \in Nat /\ c < Interleave
  BY <1>1
<1>3. y \in Nat /\ y \div CPSize = x /\ y % CPSize = k
  <2>1. x * CPSize \in Nat
    BY <1>1, SMT
  <2> QED  BY <1>1, <1>2, <2>1, QuotientUnique
<1> HIDE DEF y
<1>4. p \in Nat /\ p \div Interleave = y /\ p % Interleave = c
  <2>1. y * Interleave \in Nat
    BY <1>1, <1>3, SMT
  <2> QED  BY <1>1, <1>2, <1>3, <2>1, QuotientUnique
<1> QED  BY <1>3, <1>4 DEF HomeRank, y

\* Every position has them.
LEMMA Coordinated ==
  ASSUME NEW p \in Nat
  PROVE  \E x \in Nat, k \in 0 .. CPSize - 1, c \in 0 .. Interleave - 1 :
           p = (x * CPSize + k) * Interleave + c
<1>1. CPSize \in Nat \ {0} /\ Interleave \in Nat \ {0}
  BY TableAssumption
<1> DEFINE y == p \div Interleave
           c == p % Interleave
           x == y \div CPSize
           k == y % CPSize
<1>2. y \in Nat /\ c \in 0 .. Interleave - 1 /\ p = y * Interleave + c
  BY <1>1, Division
<1> HIDE DEF y, c
<1>3. x \in Nat /\ k \in 0 .. CPSize - 1 /\ y = x * CPSize + k
  BY <1>1, <1>2, Division
<1> HIDE DEF x, k
<1> QED  BY <1>2, <1>3

\* The next position belongs to the same turn, to the next rank's, or to a new round.
LEMMA DealtStep ==
  ASSUME NEW p \in Nat, NEW rank \in Ranks
  PROVE  /\ Dealt(p, rank) \in Nat
         /\ Dealt(p + 1, rank) = Dealt(p, rank) + (IF HomeRank(p) = rank THEN 1 ELSE 0)
<1>1. CPSize \in Nat \ {0} /\ Interleave \in Nat \ {0} /\ rank \in 0 .. CPSize - 1
  BY TableAssumption DEF Ranks
<1>2. PICK x \in Nat, k \in 0 .. CPSize - 1, c \in 0 .. Interleave - 1 :
        p = (x * CPSize + k) * Interleave + c
  BY Coordinated
<1> DEFINE y == x * CPSize + k
           D(a, j, d) == a * Interleave
                           + (IF rank < j THEN Interleave ELSE IF rank = j THEN d ELSE 0)
<1>3. ASSUME NEW a \in Nat, NEW j \in 0 .. CPSize - 1, NEW d \in 0 .. Interleave - 1,
             NEW q, q = (a * CPSize + j) * Interleave + d
      PROVE  Dealt(q, rank) = D(a, j, d) /\ HomeRank(q) = j
  BY <1>3, Coordinates DEF Dealt
<1>4. Dealt(p, rank) = D(x, k, c) /\ HomeRank(p) = k
  BY <1>2, <1>3
<1>5. x * Interleave \in Nat /\ x * CPSize \in Nat
  BY <1>1, SMT
<1>6. y \in Nat /\ y * Interleave \in Nat /\ p = y * Interleave + c
  <2>1. y \in Nat
    BY <1>5
  <2> HIDE DEF y
  <2>2. y * Interleave \in Nat
    BY <1>1, <2>1, SMT
  <2> QED  BY <1>2, <2>1, <2>2 DEF y
<1>7. D(x, k, c) \in Nat
  BY <1>1, <1>5
<1>8. CASE c + 1 < Interleave
  <2>1. p + 1 = y * Interleave + (c + 1) /\ c + 1 \in 0 .. Interleave - 1
    BY <1>1, <1>6, <1>8
  <2>2. Dealt(p + 1, rank) = D(x, k, c + 1)
    BY <1>3, <2>1
  <2>3. D(x, k, c + 1) = D(x, k, c) + (IF k = rank THEN 1 ELSE 0)
    BY <1>1, <1>5
  <2> QED  BY <1>4, <1>7, <2>2, <2>3
<1>9. CASE c + 1 = Interleave /\ k + 1 < CPSize
  <2>1. p + 1 = (x * CPSize + (k + 1)) * Interleave + 0
    <3>1. (y + 1) * Interleave = y * Interleave + Interleave
      BY <1>1, <1>6, SMT
    <3>2. x * CPSize + (k + 1) = y + 1
      BY <1>1, <1>5
    <3> HIDE DEF y
    <3> QED  BY <1>1, <1>6, <1>9, <3>1, <3>2
  <2>2. k + 1 \in 0 .. CPSize - 1 /\ 0 \in 0 .. Interleave - 1
    BY <1>1, <1>9
  <2>3. Dealt(p + 1, rank) = D(x, k + 1, 0)
    BY <1>3, <2>1, <2>2
  <2>4. D(x, k + 1, 0) = D(x, k, c) + (IF k = rank THEN 1 ELSE 0)
    BY <1>1, <1>5, <1>9
  <2> QED  BY <1>4, <1>7, <2>3, <2>4
<1>10. CASE c + 1 = Interleave /\ k + 1 = CPSize
  <2>1. p + 1 = ((x + 1) * CPSize + 0) * Interleave + 0
    <3>1. (y + 1) * Interleave = y * Interleave + Interleave
      BY <1>1, <1>6, SMT
    <3>2. (x + 1) * CPSize = x * CPSize + CPSize
      BY <1>1, SMT
    <3>3. (x + 1) * CPSize + 0 = y + 1
      BY <1>1, <1>5, <1>10, <3>2
    <3> HIDE DEF y
    <3> QED  BY <1>1, <1>6, <1>10, <3>1, <3>3
  <2>2. x + 1 \in Nat /\ 0 \in 0 .. CPSize - 1 /\ 0 \in 0 .. Interleave - 1
    BY <1>1
  <2>3. Dealt(p + 1, rank) = D(x + 1, 0, 0)
    BY <1>3, <2>1, <2>2
  <2>4. (x + 1) * Interleave = x * Interleave + Interleave
    BY <1>1, SMT
  <2>5. D(x + 1, 0, 0) = D(x, k, c) + (IF k = rank THEN 1 ELSE 0)
    BY <1>1, <1>5, <1>10, <2>4
  <2> QED  BY <1>4, <1>7, <2>3, <2>5
<1>11. c + 1 < Interleave \/ (c + 1 = Interleave /\ (k + 1 < CPSize \/ k + 1 = CPSize))
  BY <1>1
<1> QED  BY <1>4, <1>7, <1>8, <1>9, <1>10, <1>11

\* Counting them one by one gives the same.
LEMMA DealtCounts ==
  ASSUME NEW rank \in Ranks
  PROVE  \A p \in Nat : Cardinality({q \in 0 .. p - 1 : HomeRank(q) = rank}) = Dealt(p, rank)
<1> DEFINE Q(p) == {q \in 0 .. p - 1 : HomeRank(q) = rank}
           T == {p \in Nat : IsFiniteSet(Q(p)) /\ Cardinality(Q(p)) = Dealt(p, rank)}
<1>1. 0 \in T
  <2>1. CPSize \in Nat \ {0} /\ Interleave \in Nat \ {0} /\ rank \in 0 .. CPSize - 1
    BY TableAssumption DEF Ranks
  <2>2. Q(0) = {}
    OBVIOUS
  <2>3. 0 = (0 * CPSize + 0) * Interleave + 0 /\ 0 \in 0 .. CPSize - 1 /\ 0 \in 0 .. Interleave - 1
    BY <2>1, SMT
  <2>4. 0 % Interleave = 0 /\ (0 \div Interleave) \div CPSize = 0 /\ HomeRank(0) = 0
    BY <2>1, <2>3, Coordinates
  <2>5. 0 * Interleave = 0
    BY <2>1, SMT
  <2>6. Dealt(0, rank) = 0
    BY <2>1, <2>4, <2>5 DEF Dealt
  <2> QED  BY <2>2, <2>6, FS_EmptySet
<1>2. ASSUME NEW p \in Nat, p \in T PROVE p + 1 \in T
  <2>1. p \notin Q(p)
    OBVIOUS
  <2>2. Q(p + 1) = IF HomeRank(p) = rank THEN Q(p) \cup {p} ELSE Q(p)
    <3>1. \A q : q \in 0 .. (p + 1) - 1 <=> q \in 0 .. p - 1 \/ q = p
      OBVIOUS
    <3> QED  BY <3>1
  <2>3. IsFiniteSet(Q(p)) /\ Cardinality(Q(p)) = Dealt(p, rank)
    BY <1>2
  <2> HIDE DEF Q
  <2>4. /\ IsFiniteSet(Q(p + 1))
        /\ Cardinality(Q(p + 1)) = Cardinality(Q(p)) + (IF HomeRank(p) = rank THEN 1 ELSE 0)
    <3>1. CASE HomeRank(p) = rank
      BY <2>1, <2>2, <2>3, <3>1, FS_AddElement
    <3>2. CASE HomeRank(p) # rank
      <4>1. Q(p + 1) = Q(p) /\ Cardinality(Q(p)) \in Nat
        BY <2>2, <2>3, <3>2, FS_CardinalityType
      <4> QED  BY <2>3, <3>2, <4>1
    <3> QED  BY <3>1, <3>2
  <2> QED  BY <2>3, <2>4, DealtStep
<1> HIDE DEF T
<1>3. \A p \in Nat : p \in T
  BY <1>1, <1>2, SetInduction
<1> QED  BY <1>3 DEF T

\* The place of a position among those of its rank: whole rounds before it, and its place
\* in the turn.
LEMMA IndexIs ==
  ASSUME NEW x \in Nat, NEW k \in 0 .. CPSize - 1, NEW c \in 0 .. Interleave - 1
  PROVE  IndexAtHome((x * CPSize + k) * Interleave + c) = x * Interleave + c
<1> DEFINE p == (x * CPSize + k) * Interleave + c
<1>1. /\ p \in Nat /\ p % Interleave = c
      /\ (p \div Interleave) \div CPSize = x /\ HomeRank(p) = k
  BY Coordinates
<1> HIDE DEF p
<1>2. HomeRank(p) \in Ranks
  BY <1>1 DEF Ranks
<1>3. IndexAtHome(p) = Dealt(p, HomeRank(p))
  BY <1>1, <1>2, DealtCounts DEF IndexAtHome
<1>4. CPSize \in Nat
  BY TableAssumption
<1>5. Dealt(p, HomeRank(p)) = x * Interleave + c
  BY <1>1, <1>4 DEF Dealt
<1> QED  BY <1>3, <1>5 DEF p

\* The mapping's arithmetic, with blocks, agrees with the dealing, which knows of none.
LEMMA LocalIsIndex ==
  ASSUME NEW g \in Groups, NEW p \in Nat
  PROVE  /\ IndexAtHome(p) \in Nat /\ LocalPosition(g, p) = IndexAtHome(p)
         /\ \A rank \in Ranks : IsLocal(g, p, rank) <=> HomeRank(p) = rank
         /\ IndexAtHome(p) \div BlockSize[g] = p \div (BlockSize[g] * CPSize)
<1> DEFINE I == Interleave
           C == CPSize
           B == BlockSize[g]
           m == B \div I
           D == B * C
           a == p \div D
           off == p % D
<1>1. I \in Nat \ {0} /\ C \in Nat \ {0} /\ B \in Nat \ {0} /\ B % I = 0
  BY TableAssumption
<1>2. m \in Nat /\ B = m * I
  <2> HIDE DEF B
  <2> QED  BY <1>1, Division
<1>3. D \in Nat \ {0}
  <2> HIDE DEF B
  <2>1. 1 * C <= B * C /\ B * C \in Nat
    BY <1>1, 1 <= B, ProductMonotone, SMT
  <2> QED  BY <1>1, <2>1
<1> HIDE DEF D
<1>4. a \in Nat /\ off \in 0 .. D - 1 /\ p = a * D + off
  BY <1>3, Division
<1> HIDE DEF a, off
<1>5. PICK x \in Nat, k \in 0 .. C - 1, c \in 0 .. I - 1 : off = (x * C + k) * I + c
  <2>1. off \in Nat
    BY <1>3, <1>4
  <2> QED  BY <2>1, Coordinated
<1>6. x * I + c < B
  <2> HIDE DEF I, C, B, m
  <2>1. D = (m * C) * I
    BY <1>1, <1>2, SMT DEF D
  <2>2. x * C \in Nat /\ m * C \in Nat
    BY <1>1, <1>2, SMT
  <2>3. x * C + k \in Nat
    BY <1>1, <2>2
  <2>4. (x * C + k) * I \in Nat /\ (m * C) * I \in Nat
    BY <1>1, <2>2, <2>3, SMT
  <2>5. x < m
    <3>1. SUFFICES ASSUME m <= x PROVE FALSE
      BY <1>2
    <3>2. m * C <= x * C
      BY <1>1, <1>2, <3>1, ProductMonotone
    <3>3. m * C <= x * C + k
      BY <1>1, <2>2, <3>2
    <3>4. (m * C) * I <= (x * C + k) * I
      BY <1>1, <2>2, <2>3, <3>3, ProductMonotone
    <3> QED  BY <1>1, <1>3, <1>4, <1>5, <2>1, <2>4, <3>4
  <2>6. (x + 1) * I <= m * I /\ (x + 1) * I = x * I + I
    <3>1. x + 1 \in Nat /\ x + 1 <= m
      BY <1>2, <2>5
    <3>2. (x + 1) * I <= m * I
      BY <1>1, <1>2, <3>1, ProductMonotone
    <3> QED  BY <1>1, <3>2, SMT
  <2>7. x * I \in Nat /\ m * I \in Nat
    BY <1>1, <1>2, SMT
  <2> QED  BY <1>1, <1>2, <2>6, <2>7
<1>7. off \div (I * C) = x /\ off % I = c /\ (off \div I) % C = k
  <2>1. /\ off % I = c /\ (off \div I) % C = k
    BY <1>5, Coordinates DEF HomeRank
  <2> HIDE DEF I, C
  <2>2. off = x * (I * C) + (k * I + c)
    <3>1. (x * C + k) * I = x * (I * C) + k * I
      BY <1>1, SMT
    <3>2. k * I \in Nat /\ x * (I * C) \in Nat
      BY <1>1, SMT
    <3> QED  BY <1>1, <1>5, <3>1, <3>2
  <2>3. k * I + c \in Nat /\ k * I + c < I * C /\ I * C \in Nat \ {0}
    <3>1. k \in Nat /\ k + 1 \in Nat /\ k + 1 <= C
      BY <1>1
    <3>2. (k + 1) * I <= C * I /\ C * I \in Nat
      BY <1>1, <3>1, ProductMonotone
    <3>3. (k + 1) * I = k * I + I /\ C * I = I * C /\ k * I \in Nat
      BY <1>1, <3>1, SMT
    <3> QED  BY <1>1, <3>2, <3>3
  <2>4. off \div (I * C) = x
    BY <2>2, <2>3, QuotientUnique
  <2> QED  BY <2>1, <2>4
<1>8. p = ((a * m + x) * C + k) * I + c /\ a * m + x \in Nat
  <2> HIDE DEF I, C, B, m
  <2>1. ((a * m + x) * C + k) * I = a * ((m * I) * C) + (x * C + k) * I
    BY <1>1, <1>2, <1>4, SMT
  <2>2. a * D = a * ((m * I) * C)
    BY <1>2 DEF D
  <2>3. a * m \in Nat /\ a * D \in Nat /\ (x * C + k) * I \in Nat
    BY <1>1, <1>2, <1>3, <1>4, SMT
  <2> QED  BY <1>1, <1>4, <1>5, <2>1, <2>2, <2>3
<1>9. IndexAtHome(p) = (a * m + x) * I + c /\ HomeRank(p) = k
  BY <1>8, IndexIs, Coordinates
<1>10. (a * m + x) * I + c = a * B + (x * I + c) /\ a * B \in Nat /\ x * I + c \in Nat
  <2> HIDE DEF I, C, B, m
  <2>1. (a * m + x) * I = a * (m * I) + x * I
    BY <1>1, <1>2, <1>4, SMT
  <2>2. a * (m * I) \in Nat /\ x * I \in Nat
    BY <1>1, <1>2, <1>4, SMT
  <2>3. a * (m * I) = a * B
    BY <1>2
  <2> QED  BY <1>1, <2>1, <2>2, <2>3
<1>11. IndexAtHome(p) \in Nat /\ IndexAtHome(p) \div B = a
  <2> DEFINE z == x * I + c
  <2>1. IndexAtHome(p) = a * B + z /\ z \in Nat /\ z < B /\ a * B \in Nat
    BY <1>6, <1>9, <1>10
  <2> HIDE DEF B, I, z
  <2>2. (a * B + z) \div B = a
    BY <1>1, <1>4, <2>1, QuotientUnique
  <2> QED  BY <2>1, <2>2
<1>12. LocalPosition(g, p) = a * B + x * I + c
  BY <1>7 DEF LocalPosition, off, a, D
<1>13. a * B + x * I + c = a * B + (x * I + c)
  <2>1. x * I \in Nat
    BY <1>1, SMT
  <2> HIDE DEF I
  <2> QED  BY <1>1, <1>10, <2>1
<1>14. \A rank \in Ranks : IsLocal(g, p, rank) <=> HomeRank(p) = rank
  BY <1>7, <1>9 DEF IsLocal, off, D
<1> QED  BY <1>9, <1>10, <1>11, <1>12, <1>13, <1>14 DEF a, D

\* A row leads to the KV slots of the blocks it was made of: within the row, place i is
\* found in kernel block i div KernelSize, which is part of KV block i div BlockSize.
LEMMA RowLeadsHome ==
  ASSUME NEW g \in Groups, NEW blocks \in Seq(Nat), Len(blocks) <= RowBlocks[g],
         NEW i \in Nat, i \div BlockSize[g] < Len(blocks)
  PROVE  LET k == i \div KernelSize[g]
         IN  /\ k \in Row(g) /\ k < Len(blocks) * Bpk(g)
             /\ OwnRow(g, blocks)[k] * KernelSize[g] + (i % KernelSize[g])
                  = blocks[(i \div BlockSize[g]) + 1] * BlockSize[g] + (i % BlockSize[g])
<1> DEFINE B == BlockSize[g]
           K == KernelSize[g]
           d == Bpk(g)
           a == i \div B
           j == i % B
           e == j \div K
           f == j % K
<1>1. /\ B \in Nat \ {0} /\ K \in Nat \ {0} /\ d \in Nat \ {0} /\ B = d * K
      /\ Len(blocks) \in Nat /\ RowBlocks[g] \in Nat
  <2>1. B \in Nat \ {0} /\ K \in Nat \ {0} /\ B % K = 0 /\ RowBlocks[g] \in Nat
    BY TableAssumption
  <2>2. B = (B \div K) * K + (B % K)
    <3> HIDE DEF B, K
    <3> QED  BY <2>1, Division
  <2>3. d = B \div K
    BY DEF Bpk
  <2>4. d \in Nat \ {0}
    BY BpkPositive
  <2> HIDE DEF B, K, d
  <2>5. d * K \in Nat
    BY <2>1, <2>4, SMT
  <2> QED  BY <2>1, <2>2, <2>3, <2>4, <2>5
<1> HIDE DEF B, K, d
<1>2. a \in Nat /\ j \in 0 .. B - 1 /\ i = a * B + j
  BY <1>1, Division
<1> HIDE DEF a, j
<1>3. e \in Nat /\ f \in 0 .. K - 1 /\ j = e * K + f
  <2>1. j \in Nat
    BY <1>1, <1>2
  <2> QED  BY <1>1, <2>1, Division
<1>4. e < d
  BY <1>1, <1>2, QuotientBelow
<1> HIDE DEF e, f
<1> DEFINE k == a * d + e
<1>5. k \in Nat /\ i = k * K + f
  <2>1. (a * d + e) * K = a * (d * K) + e * K
    BY <1>1, <1>2, <1>3, SMT
  <2>2. a * d \in Nat /\ a * (d * K) \in Nat /\ e * K \in Nat
    BY <1>1, <1>2, <1>3, SMT
  <2>3. a * (d * K) = a * B
    BY <1>1
  <2> QED  BY <1>1, <1>2, <1>3, <2>1, <2>2, <2>3
<1>6. k \div d = a /\ k % d = e
  BY <1>1, <1>2, <1>3, <1>4, QuotientUnique
<1> HIDE DEF k
<1>7. i \div K = k /\ i % K = f
  <2>1. f \in Nat /\ f < K
    BY <1>1, <1>3
  <2> QED  BY <1>1, <1>5, <2>1, QuotientUnique
<1>8. a < Len(blocks)
  BY DEF a, B
<1>9. k < Len(blocks) * d
  BY <1>1, <1>5, <1>6, <1>8, QuotientBelow
<1>10. k \in Row(g)
  <2>1. Len(blocks) * d <= RowBlocks[g] * d /\ Len(blocks) * d \in Nat
    BY <1>1, ProductMonotone
  <2>2. RowBlocks[g] * d \in Nat
    BY <1>1, SMT
  <2> QED  BY <1>5, <1>9, <2>1, <2>2 DEF Row, d
<1>11. OwnRow(g, blocks)[k] = blocks[a + 1] * d + e
  <2>1. OwnRow(g, blocks)[k] = Expanded(g, blocks)[k + 1]
    BY <1>9, <1>10 DEF OwnRow, d
  <2>2. Expanded(g, blocks)[k + 1] = blocks[(k \div d) + 1] * d + (k % d)
    BY <1>5, <1>9, ExpandedType DEF d
  <2> QED  BY <1>6, <2>1, <2>2
<1>12. (blocks[a + 1] * d + e) * K + f = blocks[a + 1] * B + j
  <2>1. blocks[a + 1] \in Nat
    BY <1>1, <1>2, <1>8, ElementOfSeq
  <2> DEFINE b == blocks[a + 1]
  <2> HIDE DEF b
  <2>2. b \in Nat
    BY <2>1 DEF b
  <2>3. (b * d + e) * K = b * (d * K) + e * K
    BY <1>1, <1>3, <2>2, SMT
  <2>4. b * (d * K) \in Nat /\ e * K \in Nat
    BY <1>1, <1>3, <2>2, SMT
  <2>5. b * (d * K) = b * B
    BY <1>1
  <2>6. (b * d + e) * K + f = b * B + j
    BY <1>1, <1>3, <2>3, <2>4, <2>5
  <2> QED  BY <2>6 DEF b
<1> QED  BY <1>7, <1>9, <1>10, <1>11, <1>12 DEF a, j, B, K, d

----------------------------------------------------------------------------
(* Blocks for every token, and the gathered rows.                          *)

\* A request has blocks for the tokens it has computed and those of this step.
Covered ==
  \A r \in Known, g \in Groups :
    computed[r] + scheduled[r] <= Len(ids[r][g]) * (BlockSize[g] * CPSize)

\* The rows of the batch are those of its requests' slots, up to their extents; the rows
\* that pad the batch are zero.
Gathered ==
  phase = "forward" =>
    /\ batch \in Seq(InStep) /\ Len(batch) <= padded
    /\ \A g \in Groups, b \in 1 .. Len(batch) : \A k \in Row(g) :
         k < num_blocks[g][slot[batch[b]]] => input[g][b][k] = tables[g][slot[batch[b]]][k]
    /\ \A g \in Groups, b \in Len(batch) + 1 .. padded : input[g][b] = ZeroRow(g)

RInv == IInv /\ Covered /\ Gathered

\* allocate_slots() rounds up.
LEMMA AllocationCovers ==
  ASSUME Shapes, IdsFit, NEW r \in Reqs, NEW upto \in 0 .. MaxLen,
         NEW more \in Allocations(r, Wanted(r, upto)), NEW g \in Groups
  PROVE  upto <= Len(ids[r][g] \o more[g]) * (BlockSize[g] * CPSize)
<1> DEFINE D == BlockSize[g] * CPSize
           n == Len(ids[r][g])
           w == Wanted(r, upto)[g]
           k == upto + D - 1
           c == k \div D
<1>1. /\ BlockSize[g] \in Nat \ {0} /\ CPSize \in Nat \ {0} /\ MaxLen \in Nat
      /\ upto \in Nat
  BY TableAssumption
<1>2. D \in Nat \ {0}
  BY <1>1, SMT
<1>3. ids[r][g] \in Seq(Nat) /\ n \in Nat
  BY DEF Shapes
<1>4. w = IF c > n THEN c - n ELSE 0
  BY DEF Wanted, BlocksFor, CeilDiv
<1>5. more[g] \in Seq(Nat)
  BY AllocationFits
<1>6. more[g] \in [1 .. w -> Supply[r][g] \ InUse]
  BY DEF Allocations, Least
<1> HIDE DEF D, w, n
<1>7. k \in Nat
  BY <1>1, <1>2
<1>8. c \in Nat /\ k % D \in 0 .. D - 1 /\ k = c * D + (k % D)
  BY <1>2, <1>7, Division
<1>9. c * D \in Nat /\ upto <= c * D
  <2>1. c * D \in Nat
    BY <1>2, <1>8, SMT
  <2> DEFINE e == k % D
             f == c * D
  <2>2. f \in Nat /\ e \in 0 .. D - 1 /\ upto + D - 1 = f + e
    BY <1>8, <2>1
  <2> HIDE DEF e, f, c
  <2>3. upto <= f
    BY <1>1, <1>2, <2>2
  <2> QED  BY <2>1, <2>3 DEF f
<1> HIDE DEF k, c
<1>10. w \in Nat /\ n + w >= c
  BY <1>3, <1>4, <1>8
<1>11. Len(more[g]) = w
  <2>1. DOMAIN more[g] = 1 .. w
    BY <1>6
  <2>2. Len(more[g]) \in Nat /\ DOMAIN more[g] = 1 .. Len(more[g])
    BY <1>5
  <2> DEFINE l == Len(more[g])
  <2>3. l \in Nat /\ 1 .. l = 1 .. w
    BY <2>1, <2>2
  <2> HIDE DEF l
  <2>4. l <= w
    <3>1. CASE l = 0
      BY <1>10, <3>1
    <3>2. CASE l # 0
      <4>1. l \in 1 .. l
        BY <2>3, <3>2
      <4>2. l \in 1 .. w
        BY <2>3, <4>1
      <4> QED  BY <4>2, <1>10
    <3> QED  BY <3>1, <3>2
  <2>5. w <= l
    <3>1. CASE w = 0
      BY <2>3, <3>1
    <3>2. CASE w # 0
      <4>1. w \in 1 .. w
        BY <1>10, <3>2
      <4>2. w \in 1 .. l
        BY <2>3, <4>1
      <4> QED  BY <4>2, <2>3
    <3> QED  BY <3>1, <3>2
  <2>6. l = w
    BY <1>10, <2>3, <2>4, <2>5
  <2> QED  BY <2>6 DEF l
<1>12. Len(ids[r][g] \o more[g]) = n + w
  BY <1>3, <1>5, <1>11, ConcatProperties DEF n
<1>13. c * D <= (n + w) * D /\ n + w \in Nat
  BY <1>2, <1>3, <1>8, <1>10, ProductMonotone
<1>14. (n + w) * D \in Nat
  BY <1>2, <1>13, SMT
<1>15. upto <= (n + w) * D
  BY <1>1, <1>9, <1>13, <1>14
<1> QED  BY <1>12, <1>15 DEF D

\* The request that is given blocks for n tokens has enough; the others keep theirs.
LEMMA GrantCovers ==
  ASSUME IInv, Covered, NEW r \in Reqs, NEW n \in TokenCounts(r),
         NEW more \in Allocations(r, Wanted(r, computed[r] + n)),
         ids' = [ids EXCEPT ![r] = [g \in Groups |-> ids[r][g] \o more[g]]],
         scheduled' = [scheduled EXCEPT ![r] = n], computed' = computed,
         Known' \subseteq Known \cup {r}
  PROVE  Covered'
<1>1. MaxLen \in Nat
  BY TableAssumption
<1>2. computed[r] + n \in 0 .. MaxLen
  BY <1>1 DEF IInv, Shapes, TokenCounts
<1>3. \A q \in Known \ {r} : ids'[q] = ids[q] /\ scheduled'[q] = scheduled[q]
  BY DEF IInv, Shapes
<1>4. scheduled'[r] = n /\ \A g \in Groups : ids'[r][g] = ids[r][g] \o more[g]
  BY DEF IInv, Shapes
<1>5. \A g \in Groups :
        computed'[r] + scheduled'[r] <= Len(ids'[r][g]) * (BlockSize[g] * CPSize)
  BY <1>2, <1>4, AllocationCovers DEF IInv
<1>6. \A q \in Known \ {r}, g \in Groups :
        computed'[q] + scheduled'[q] <= Len(ids'[q][g]) * (BlockSize[g] * CPSize)
  BY <1>3 DEF Covered
<1> QED  BY <1>5, <1>6 DEF Covered

LEMMA CoveredStep == RInv /\ [Next]_vars => Covered'
<1> SUFFICES ASSUME RInv, [Next]_vars PROVE Covered'
  OBVIOUS
<1> USE DEF RInv
<1>1. CASE FinishRequests
  <2>1. PICK gone \in SUBSET Known :
          /\ slot' = [r \in Reqs |-> IF r \in gone THEN 0 ELSE slot[r]]
          /\ ids' = [r \in Reqs |-> IF r \in gone THEN [g \in Groups |-> <<>>] ELSE ids[r]]
          /\ computed' = [r \in Reqs |-> IF r \in gone THEN 0 ELSE computed[r]]
    BY <1>1 DEF FinishRequests
  <2>2. scheduled' = [r \in Reqs |-> 0]
    BY <1>1 DEF FinishRequests
  <2>3. SUFFICES ASSUME NEW r \in Known', NEW g \in Groups
                 PROVE  computed'[r] + scheduled'[r] <= Len(ids'[r][g]) * (BlockSize[g] * CPSize)
    BY DEF Covered
  <2>4. r \in Known /\ r \notin gone /\ r \in Reqs
    BY <2>1 DEF Known
  <2>5. ids'[r] = ids[r] /\ computed'[r] = computed[r] /\ scheduled'[r] = 0
    BY <2>1, <2>2, <2>4
  <2>6. computed[r] + scheduled[r] <= Len(ids[r][g]) * (BlockSize[g] * CPSize)
    BY <2>4 DEF Covered
  <2>7. computed[r] \in Nat /\ scheduled[r] \in Nat
    BY <2>4, TableAssumption DEF IInv, Shapes
  <2>8. Len(ids[r][g]) * (BlockSize[g] * CPSize) \in Nat
    <3>1. BlockSize[g] * CPSize \in Nat
      BY TableAssumption, SMT
    <3>2. Len(ids[r][g]) \in Nat
      BY <2>4 DEF IInv, Shapes
    <3> QED  BY <3>1, <3>2, ProductMonotone
  <2> DEFINE x == Len(ids[r][g]) * (BlockSize[g] * CPSize)
  <2>9. computed[r] + scheduled[r] <= x /\ x \in Nat
    BY <2>6, <2>8
  <2> HIDE DEF x
  <2>10. computed[r] + 0 <= x
    BY <2>7, <2>9
  <2> QED  BY <2>5, <2>10 DEF x
<1>2. CASE \E r \in Reqs : AddRequest(r)
  <2>1. PICK r \in Reqs : AddRequest(r)
    BY <1>2
  <2>2. PICK s, n :
          /\ n \in TokenCounts(r)
          /\ \E more \in Allocations(r, Wanted(r, computed[r] + n)) :
               ids' = [ids EXCEPT ![r] = [g \in Groups |-> ids[r][g] \o more[g]]]
          /\ slot' = [slot EXCEPT ![r] = s]
          /\ scheduled' = [scheduled EXCEPT ![r] = n]
    BY <2>1 DEF AddRequest
  <2>3. Known' \subseteq Known \cup {r} /\ computed' = computed
    BY <2>1, <2>2 DEF Known, IInv, Shapes, AddRequest
  <2> QED  BY <2>2, <2>3, GrantCovers
<1>3. CASE \E r \in Reqs : UpdateRequest(r)
  <2>1. PICK r \in Reqs : UpdateRequest(r)
    BY <1>3
  <2>2. PICK n \in TokenCounts(r) :
          /\ \E more \in Allocations(r, Wanted(r, computed[r] + n)) :
               ids' = [ids EXCEPT ![r] = [g \in Groups |-> @[g] \o more[g]]]
          /\ scheduled' = [scheduled EXCEPT ![r] = n]
    BY <2>1 DEF UpdateRequest
  <2>3. \E more \in Allocations(r, Wanted(r, computed[r] + n)) :
          ids' = [ids EXCEPT ![r] = [g \in Groups |-> ids[r][g] \o more[g]]]
    BY <2>2 DEF IInv, Shapes
  <2>4. Known' \subseteq Known \cup {r} /\ computed' = computed
    BY <2>1 DEF Known, UpdateRequest
  <2> QED  BY <2>2, <2>3, <2>4, GrantCovers
<1>4. CASE EndStep
  <2>1. /\ computed' = [r \in Reqs |-> computed[r] + scheduled[r]]
        /\ scheduled' = [r \in Reqs |-> 0] /\ ids' = ids /\ slot' = slot
    BY <1>4 DEF EndStep
  <2>2. Known' = Known
    BY <2>1 DEF Known
  <2>3. \A r \in Known : computed'[r] + scheduled'[r] = computed[r] + scheduled[r]
    BY <2>1, TableAssumption DEF Known, IInv, Shapes
  <2> QED  BY <2>1, <2>2, <2>3 DEF Covered
<1>5. CASE ApplyStagedWrites \/ PrepareAttn \/ DummyRun \/ UNCHANGED vars
  <2>1. computed' = computed /\ scheduled' = scheduled /\ ids' = ids /\ slot' = slot
    BY <1>5 DEF ApplyStagedWrites, PrepareAttn, DummyRun, vars
  <2>2. Known' = Known
    BY <2>1 DEF Known
  <2> QED  BY <2>1, <2>2 DEF Covered
<1> QED  BY <1>1, <1>2, <1>3, <1>4, <1>5 DEF Next

LEMMA GatheredStep == RInv /\ [Next]_vars => Gathered'
<1> SUFFICES ASSUME RInv, [Next]_vars PROVE Gathered'
  OBVIOUS
<1>1. CASE PrepareAttn
  <2>1. PICK order \in BatchOrders :
          /\ batch' = order
          /\ padded' \in Len(order) .. MaxReqs
          /\ input' = [g \in Groups |-> [b \in Slots |-> GatheredRow(g, b, order, padded')]]
    BY <1>1 DEF PrepareAttn
  <2>2. UNCHANGED <<slot, scheduled, num_blocks, tables>>
    BY <1>1 DEF PrepareAttn
  <2>3. InStep' = InStep
    BY <2>2 DEF InStep
  <2>4. order \in Seq(InStep) /\ Len(order) \in Nat
    <3>1. Cardinality(InStep) \in Nat
      BY FS_Subset, FS_CardinalityType, TableAssumption DEF InStep
    <3>2. order \in Seq(InStep)
      BY <3>1 DEF BatchOrders
    <3> QED  BY <3>2
  <2>5. padded' \in Nat /\ Len(order) <= padded' /\ padded' <= MaxReqs /\ MaxReqs \in Nat
    BY <2>1, <2>4, TableAssumption
  <2>6. ASSUME NEW b \in 1 .. padded' PROVE b \in Slots
    BY <2>5 DEF Slots
  <2>7. ASSUME NEW g \in Groups, NEW b \in 1 .. Len(order), NEW k \in Row(g),
               k < num_blocks[g][slot[order[b]]]
        PROVE  input'[g][b][k] = tables[g][slot[order[b]]][k]
    <3>1. b \in Slots /\ b <= Len(order)
      BY <2>4, <2>5, <2>6
    <3>2. input'[g][b] = GatheredRow(g, b, order, padded')
      BY <2>1, <3>1
    <3> QED  BY <2>7, <3>1, <3>2 DEF GatheredRow
  <2>8. ASSUME NEW g \in Groups, NEW b \in Len(order) + 1 .. padded'
        PROVE  input'[g][b] = ZeroRow(g)
    <3>1. b \in 1 .. padded' /\ ~(b <= Len(order)) /\ b <= padded'
      BY <2>4, <2>5
    <3>2. input'[g][b] = GatheredRow(g, b, order, padded')
      BY <2>1, <2>6, <3>1
    <3> QED  BY <3>1, <3>2 DEF GatheredRow
  <2>9. batch' \in Seq(InStep') /\ Len(batch') <= padded'
    BY <2>1, <2>3, <2>4, <2>5
  <2>10. \A g \in Groups, b \in 1 .. Len(batch') : \A k \in Row(g) :
           k < num_blocks'[g][slot'[batch'[b]]]
             => input'[g][b][k] = tables'[g][slot'[batch'[b]]][k]
    <3>1. batch' = order /\ slot' = slot /\ num_blocks' = num_blocks /\ tables' = tables
      BY <2>1, <2>2
    <3>2. \A g \in Groups, b \in 1 .. Len(order) : \A k \in Row(g) :
            k < num_blocks[g][slot[order[b]]] => input'[g][b][k] = tables[g][slot[order[b]]][k]
      BY <2>7
    <3> QED  BY <3>1, <3>2
  <2>11. \A g \in Groups, b \in Len(batch') + 1 .. padded' : input'[g][b] = ZeroRow(g)
    BY <2>1, <2>8
  <2> QED  BY <2>9, <2>10, <2>11 DEF Gathered
<1>2. CASE UNCHANGED vars
  <2>1. InStep' = InStep
    BY <1>2 DEF vars, InStep
  <2> QED  BY <1>2, <2>1 DEF vars, RInv, Gathered
<1>3. CASE Next /\ ~PrepareAttn
  <2>1. phase' # "forward"
    BY <1>3 DEF Next, FinishRequests, AddRequest, UpdateRequest, ApplyStagedWrites, EndStep, DummyRun
  <2> QED  BY <2>1 DEF Gathered
<1> QED  BY <1>1, <1>2, <1>3

LEMMA RowsInductive == Spec => []RInv
<1>1. Init => Covered /\ Gathered
  <2>1. SUFFICES ASSUME Init PROVE Covered /\ Gathered
    OBVIOUS
  <2>2. Known = {} /\ phase = "idle"
    BY <2>1 DEF Init, Known
  <2> QED  BY <2>2 DEF Covered, Gathered
<1>2. RInv /\ [Next]_vars => Covered' /\ Gathered'
  BY CoveredStep, GatheredStep
<1>3. Spec => []IInv
  BY Inductive
<1> QED  BY <1>1, <1>2, <1>3, PTL DEF Spec, RInv

----------------------------------------------------------------------------
(* The tokens of a batch, row after row.                                   *)

\* query_start_loc sums up the tokens of the rows.
LEMMA QueryStartSteps ==
  ASSUME NEW order \in Seq(Reqs)
  PROVE  /\ QueryStart(order)[0] = 0
         /\ \A b \in 1 .. Len(order) :
              QueryStart(order)[b] = QueryStart(order)[b - 1] + scheduled[order[b]]
<1> DEFINE n == Len(order)
           w == [b \in 1 .. n |-> scheduled[order[b]]]
           t == [b \in 0 .. n |-> Total(w, b)]
           loc == CHOOSE f : f = [b \in 0 .. n |-> IF b = 0 THEN 0 ELSE f[b - 1] + scheduled[order[b]]]
<1>1. n \in Nat
  OBVIOUS
<1>2. t = [b \in 0 .. n |-> IF b = 0 THEN 0 ELSE t[b - 1] + scheduled[order[b]]]
  <2>1. \A b \in 0 .. n : t[b] = IF b = 0 THEN 0 ELSE t[b - 1] + scheduled[order[b]]
    <3>1. SUFFICES ASSUME NEW b \in 0 .. n
                   PROVE  t[b] = IF b = 0 THEN 0 ELSE t[b - 1] + scheduled[order[b]]
      OBVIOUS
    <3>2. Total(w, 0) = 0 /\ \A i \in Nat \ {0} : Total(w, i) = Total(w, i - 1) + w[i]
      BY TotalSteps
    <3>3. CASE b = 0
      BY <3>2, <3>3
    <3>4. CASE b # 0
      <4>1. b \in Nat \ {0} /\ b \in 1 .. n /\ b - 1 \in 0 .. n
        BY <1>1, <3>4
      <4>2. w[b] = scheduled[order[b]]
        BY <4>1
      <4>3. t[b] = Total(w, b) /\ t[b - 1] = Total(w, b - 1)
        BY <4>1
      <4>4. Total(w, b) = Total(w, b - 1) + w[b]
        BY <3>2, <4>1
      <4> HIDE DEF t, w
      <4> QED  BY <3>4, <4>2, <4>3, <4>4
    <3> QED  BY <3>3, <3>4
  <2>2. t = [b \in 0 .. n |-> t[b]]
    OBVIOUS
  <2> HIDE DEF t, n
  <2> QED  BY <2>1, <2>2
<1>3. \E f : f = [b \in 0 .. n |-> IF b = 0 THEN 0 ELSE f[b - 1] + scheduled[order[b]]]
  BY <1>2, Zenon
<1>4. loc = [b \in 0 .. n |-> IF b = 0 THEN 0 ELSE loc[b - 1] + scheduled[order[b]]]
  BY <1>3, Zenon
<1>5. QueryStart(order) = loc
  BY DEF QueryStart
<1> HIDE DEF loc, n, w, t
<1>6. \A b \in 0 .. n : loc[b] = IF b = 0 THEN 0 ELSE loc[b - 1] + scheduled[order[b]]
  BY <1>4
<1>7. \A b \in 1 .. n : b \in 0 .. n /\ b # 0
  BY <1>1
<1>8. 0 \in 0 .. n
  BY <1>1
<1> QED  BY <1>5, <1>6, <1>7, <1>8 DEF n

\* The starts of the rows do not decrease.
LEMMA QueryStartNat ==
  ASSUME scheduled \in [Reqs -> Nat], NEW order \in Seq(Reqs)
  PROVE  \A b \in 0 .. Len(order) : QueryStart(order)[b] \in Nat
<1> DEFINE n == Len(order)
           T == {b \in Nat : b <= n => QueryStart(order)[b] \in Nat}
<1>1. n \in Nat /\ QueryStart(order)[0] = 0
  BY QueryStartSteps
<1>2. 0 \in T
  BY <1>1
<1>3. ASSUME NEW b \in Nat, b \in T PROVE b + 1 \in T
  <2>1. SUFFICES ASSUME b + 1 <= n PROVE QueryStart(order)[b + 1] \in Nat
    OBVIOUS
  <2>2. b + 1 \in 1 .. n /\ (b + 1) - 1 = b /\ b <= n
    BY <1>1, <2>1
  <2>3. QueryStart(order)[b + 1] = QueryStart(order)[b] + scheduled[order[b + 1]]
    BY <2>2, QueryStartSteps
  <2>4. order[b + 1] \in Reqs
    BY <2>2, ElementOfSeq
  <2>5. QueryStart(order)[b] \in Nat
    BY <1>3, <2>2
  <2> QED  BY <2>3, <2>4, <2>5
<1> HIDE DEF T
<1>4. \A b \in Nat : b \in T
  BY <1>2, <1>3, SetInduction
<1> QED  BY <1>1, <1>4 DEF T

\* A token belongs to a row, and its position is one that this step computes.
LEMMA TokenInRow ==
  ASSUME scheduled \in [Reqs -> Nat], computed \in [Reqs -> Nat], NEW order \in Seq(Reqs),
         NEW t \in Nat, t < QueryStart(order)[Len(order)]
  PROVE  LET b == RowOfToken(order, t)
         IN  /\ b \in 1 .. Len(order) /\ PositionOf(order, t) \in Nat
             /\ PositionOf(order, t) < computed[order[b]] + scheduled[order[b]]
<1> DEFINE n == Len(order)
           s == QueryStart(order)
           T == {b \in 0 .. n : t < s[b]}
<1>1. n \in Nat /\ DOMAIN order = 1 .. n
  OBVIOUS
<1>2. s[0] = 0 /\ \A b \in 1 .. n : s[b] = s[b - 1] + scheduled[order[b]]
  BY QueryStartSteps
<1>3. \A b \in 0 .. n : s[b] \in Nat
  BY QueryStartNat
<1> HIDE DEF s
<1>4. T \in SUBSET Nat /\ T # {}
  <2>1. n \in T
    BY <1>1 DEF s
  <2> QED  BY <1>1, <2>1
<1>5. PICK m \in T : \A k \in T : m <= k
  BY <1>4, LeastNumber
<1>6. m \in 0 .. n /\ t < s[m] /\ m # 0
  BY <1>2, <1>5
<1>7. m \in 1 .. n /\ s[m - 1] <= t
  <2>1. m \in 1 .. n /\ m - 1 \in 0 .. n /\ ~(m <= m - 1)
    BY <1>1, <1>6
  <2>2. ~(t < s[m - 1])
    BY <1>5, <2>1
  <2>3. s[m - 1] \in Nat
    BY <1>3, <2>1
  <2> QED  BY <2>1, <2>2, <2>3
<1> DEFINE b == RowOfToken(order, t)
<1>8. b \in 1 .. n /\ s[b - 1] <= t /\ t < s[b]
  <2>1. b = CHOOSE i \in 1 .. n : s[i - 1] <= t /\ t < s[i]
    BY <1>1 DEF RowOfToken, s
  <2> HIDE DEF b
  <2> QED  BY <1>6, <1>7, <2>1
<1>9. PositionOf(order, t) = computed[order[b]] + t - s[b - 1]
  BY DEF PositionOf, s
<1> HIDE DEF b
<1>10. order[b] \in Reqs /\ b - 1 \in 0 .. n
  BY <1>1, <1>8, ElementOfSeq
<1>11. /\ s[b - 1] \in Nat /\ s[b] = s[b - 1] + scheduled[order[b]]
       /\ scheduled[order[b]] \in Nat /\ computed[order[b]] \in Nat
  BY <1>2, <1>3, <1>8, <1>10
<1>12. /\ computed[order[b]] + t - s[b - 1] \in Nat
       /\ computed[order[b]] + t - s[b - 1] < computed[order[b]] + scheduled[order[b]]
  <2> DEFINE u == s[b - 1]
             v == scheduled[order[b]]
             c == computed[order[b]]
  <2>1. u \in Nat /\ v \in Nat /\ c \in Nat /\ u <= t /\ t < u + v
    BY <1>8, <1>11
  <2> HIDE DEF u, v, c
  <2>2. c + t - u \in Nat /\ c + t - u < c + v
    BY <2>1
  <2> QED  BY <2>2 DEF u, v, c
<1> QED  BY <1>8, <1>9, <1>12 DEF b

\* In the forward pass: where a known request's row leads for a position that it has
\* computed or is computing.
LEMMA PositionHome ==
  ASSUME RInv, NEW r \in Known, NEW g \in Groups, NEW p \in Nat,
         p < computed[r] + scheduled[r], phase = "forward"
  PROVE  LET k == IndexAtHome(p) \div KernelSize[g]
         IN  /\ IndexAtHome(p) \in Nat
             /\ k \in Row(g) /\ k < num_blocks[g][slot[r]]
             /\ tables[g][slot[r]][k] * KernelSize[g] + (IndexAtHome(p) % KernelSize[g])
                  = HomeSlot(r, g, p)
<1> DEFINE i == IndexAtHome(p)
           blocks == ids[r][g]
           D == BlockSize[g] * CPSize
<1>1. /\ r \in Reqs /\ blocks \in Seq(Nat) /\ Len(blocks) \in Nat /\ Len(blocks) <= RowBlocks[g]
      /\ computed[r] \in Nat /\ scheduled[r] \in Nat
  BY TableAssumption DEF RInv, IInv, Known, Shapes, IdsFit
<1>2. i \in Nat /\ i \div BlockSize[g] = p \div D
  BY LocalIsIndex
<1>3. D \in Nat \ {0}
  <2>1. BlockSize[g] \in Nat \ {0} /\ CPSize \in Nat \ {0}
    BY TableAssumption
  <2> QED  BY <2>1, SMT
<1>4. p \div D < Len(blocks)
  <2>1. computed[r] + scheduled[r] <= Len(blocks) * D
    BY DEF RInv, Covered
  <2> DEFINE x == Len(blocks) * D
  <2>2. x \in Nat
    BY <1>1, <1>3, ProductMonotone
  <2> HIDE DEF D
  <2>3. p < x
    <3> DEFINE y == computed[r] + scheduled[r]
    <3>1. y \in Nat /\ y <= x /\ p < y
      BY <1>1, <2>1
    <3> HIDE DEF x, y
    <3> QED  BY <2>2, <3>1
  <2> QED  BY <1>1, <1>3, <2>3, QuotientBelow
<1>5. OwnRow(g, blocks) = tables[g][slot[r]] /\ num_blocks[g][slot[r]] = Len(blocks) * Bpk(g)
  <2>1. slot[r] \in Slots
    BY TableAssumption DEF RInv, IInv, Known, Shapes, Slots
  <2>2. staged[g][slot[r]] = NoWrite
    BY <2>1 DEF RInv, IInv, StagedForStep
  <2>3. RowAfter(g, NoWrite, tables[g][slot[r]]) = OwnRow(g, blocks)
    BY <2>2 DEF RInv, IInv, SlotsOwned, SlotOwned
  <2>4. tables[g][slot[r]] \in RowType(g)
    BY <2>1 DEF RInv, IInv, SlotsGood, SlotGood
  <2> QED  BY <2>3, <2>4, NoWriteNoChange DEF RInv, IInv, SlotsOwned, SlotOwned
<1>6. HomeSlot(r, g, p) = blocks[(i \div BlockSize[g]) + 1] * BlockSize[g] + (i % BlockSize[g])
  BY DEF HomeSlot
<1>7. i \div BlockSize[g] < Len(blocks)
  BY <1>2, <1>4
<1> HIDE DEF i, blocks, D
<1>8. LET k == i \div KernelSize[g]
      IN  /\ k \in Row(g) /\ k < Len(blocks) * Bpk(g)
          /\ OwnRow(g, blocks)[k] * KernelSize[g] + (i % KernelSize[g])
               = blocks[(i \div BlockSize[g]) + 1] * BlockSize[g] + (i % BlockSize[g])
  BY <1>1, <1>2, <1>7, RowLeadsHome
<1> QED  BY <1>2, <1>5, <1>6, <1>8 DEF i

\* The batch of a forward pass is of requests that have slots.
LEMMA BatchKnown ==
  ASSUME RInv, phase = "forward"
  PROVE  /\ batch \in Seq(Reqs) /\ Len(batch) \in Nat /\ DOMAIN batch = 1 .. Len(batch)
         /\ \A b \in 1 .. Len(batch) : batch[b] \in Known
         /\ scheduled \in [Reqs -> Nat] /\ computed \in [Reqs -> Nat]
<1>1. batch \in Seq(InStep)
  BY DEF RInv, Gathered
<1>2. batch \in Seq(Reqs) /\ Len(batch) \in Nat /\ DOMAIN batch = 1 .. Len(batch)
  BY DEF RInv, IInv, RestTyped
<1>3. \A b \in 1 .. Len(batch) : batch[b] \in InStep
  BY <1>1
<1>4. InStep \subseteq Known
  BY DEF RInv, IInv, StepFits, InStep
<1>5. scheduled \in [Reqs -> Nat] /\ computed \in [Reqs -> Nat]
  BY TableAssumption DEF RInv, IInv, Shapes
<1> QED  BY <1>2, <1>3, <1>4, <1>5

----------------------------------------------------------------------------
(* The theorems on the mapping and on the gathered rows.                   *)

\* compute_slot_mappings(): for every size of blocks, kernel blocks, interleave and number
\* of ranks, each token is mapped to its own place in its request's blocks, on the one rank
\* that its position is dealt to, and nothing else is written.
THEOREM TokensAlwaysLandHome == Spec => []TokensLandHome
<1>1. RInv => TokensLandHome
  <2> SUFFICES ASSUME RInv, phase = "forward", NEW g \in Groups, NEW rank \in Ranks,
                      NEW t \in 0 .. MaxTokens - 1
               PROVE  SlotMapping(g, rank, batch, t) =
                        IF /\ t < QueryStart(batch)[Len(batch)]
                           /\ g \in Mapped /\ HomeRank(PositionOf(batch, t)) = rank
                        THEN HomeSlot(batch[RowOfToken(batch, t)], g, PositionOf(batch, t))
                        ELSE PadSlot
    BY DEF TokensLandHome
  <2>1. t \in Nat
    BY TableAssumption
  <2>2. CASE ~(t < QueryStart(batch)[Len(batch)])
    BY <2>2 DEF SlotMapping
  <2>3. CASE t < QueryStart(batch)[Len(batch)]
    <3> DEFINE b == RowOfToken(batch, t)
               p == PositionOf(batch, t)
               r == batch[b]
    <3>1. b \in 1 .. Len(batch) /\ p \in Nat /\ p < computed[r] + scheduled[r]
      BY <2>1, <2>3, BatchKnown, TokenInRow
    <3>2. r \in Known
      BY <3>1, BatchKnown
    <3>3. LET i == LocalPosition(g, p)
          IN  SlotMapping(g, rank, batch, t) =
                IF g \in Mapped /\ IsLocal(g, p, rank)
                THEN tables[g][slot[r]][i \div KernelSize[g]] * KernelSize[g]
                       + (i % KernelSize[g])
                ELSE PadSlot
      BY <2>3 DEF SlotMapping, TokenSlot
    <3> HIDE DEF b, p
    <3>4. LocalPosition(g, p) = IndexAtHome(p) /\ (IsLocal(g, p, rank) <=> HomeRank(p) = rank)
      BY <3>1, LocalIsIndex
    <3>5. tables[g][slot[r]][IndexAtHome(p) \div KernelSize[g]] * KernelSize[g]
            + (IndexAtHome(p) % KernelSize[g]) = HomeSlot(r, g, p)
      BY <3>1, <3>2, PositionHome
    <3> QED  BY <2>3, <3>3, <3>4, <3>5 DEF b, p
  <2> QED  BY <2>2, <2>3
<1> QED  BY <1>1, RowsInductive, PTL

\* gather_block_tables(): attention finds every token of a request's context where it was
\* written, through rows of the batch that keep what is behind their extent, and the rows
\* that pad the batch lead to the null block.
THEOREM ContextAlwaysRead == Spec => []ReadsOwnContext
<1>1. RInv => ReadsOwnContext
  <2> SUFFICES ASSUME RInv, phase = "forward"
               PROVE  /\ \A b \in DOMAIN batch, g \in Groups :
                           \A p \in 0 .. computed[batch[b]] + scheduled[batch[b]] - 1 :
                             LET i == IndexAtHome(p)
                             IN  input[g][b][i \div KernelSize[g]] * KernelSize[g]
                                   + (i % KernelSize[g]) = HomeSlot(batch[b], g, p)
                      /\ \A g \in Groups : \A b \in Len(batch) + 1 .. padded :
                           input[g][b] = ZeroRow(g)
    BY DEF ReadsOwnContext
  <2>1. ASSUME NEW b \in DOMAIN batch, NEW g \in Groups,
               NEW p \in 0 .. computed[batch[b]] + scheduled[batch[b]] - 1
        PROVE  input[g][b][IndexAtHome(p) \div KernelSize[g]] * KernelSize[g]
                 + (IndexAtHome(p) % KernelSize[g]) = HomeSlot(batch[b], g, p)
    <3> DEFINE r == batch[b]
               k == IndexAtHome(p) \div KernelSize[g]
    <3>1. b \in 1 .. Len(batch) /\ r \in Known /\ r \in Reqs
          /\ computed[r] \in Nat /\ scheduled[r] \in Nat
      BY BatchKnown DEF Known
    <3>2. p \in Nat /\ p < computed[r] + scheduled[r]
      BY <2>1, <3>1
    <3>3. /\ k \in Row(g) /\ k < num_blocks[g][slot[r]]
          /\ tables[g][slot[r]][k] * KernelSize[g] + (IndexAtHome(p) % KernelSize[g])
               = HomeSlot(r, g, p)
      BY <3>1, <3>2, PositionHome
    <3> HIDE DEF k
    <3>4. input[g][b][k] = tables[g][slot[r]][k]
      BY <3>1, <3>3 DEF RInv, Gathered
    <3> QED  BY <3>3, <3>4 DEF k
  <2>2. \A g \in Groups : \A b \in Len(batch) + 1 .. padded : input[g][b] = ZeroRow(g)
    BY DEF RInv, Gathered
  <2> QED  BY <2>1, <2>2
<1> QED  BY <1>1, RowsInductive, PTL
=============================================================================
