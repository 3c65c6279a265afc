-------------------------- MODULE SchedulerProofs --------------------------
(***************************************************************************)
(* Theorems about Scheduler, for every value of its constants.  IInv: the  *)
(* types, the loop cursors and what a preempted request owes.  QInv: every *)
(* live request is in exactly one place of one queue, the one its status   *)
(* names.  FInv: the counts of tokens in flight are exact, and stale       *)
(* output is told from current output.                                     *)
(***************************************************************************)
EXTENDS Scheduler, SumTheorems, SequenceTheorems, FiniteSetTheorems, TLAPS

----------------------------------------------------------------------------
(* The queues.                                                             *)

\* remove_requests takes one element out and keeps the rest.
LEMMA RemoveIndexSeq ==
  ASSUME NEW S, NEW q \in Seq(S), NEW i \in 1 .. Len(q)
  PROVE  /\ RemoveIndex(q, i) \in Seq(S)
         /\ \A j \in DOMAIN RemoveIndex(q, i) : \E k \in DOMAIN q : RemoveIndex(q, i)[j] = q[k]
<1>1. Len(q) \in Nat /\ DOMAIN q = 1 .. Len(q) /\ Len(q) - 1 \in Nat
  BY LenProperties
<1> DEFINE e(j) == IF j < i THEN q[j] ELSE q[j + 1]
<1>2. \A j \in 1 .. Len(q) - 1 : e(j) \in S
  BY <1>1, ElementOfSeq
<1>3. RemoveIndex(q, i) \in Seq(S)
  <2> HIDE DEF e
  <2>1. [j \in 1 .. Len(q) - 1 |-> e(j)] \in Seq(S)
    BY <1>1, <1>2, IsASeq
  <2> QED  BY <2>1 DEF RemoveIndex, e
<1>4. ASSUME NEW j \in DOMAIN RemoveIndex(q, i)
      PROVE  \E k \in DOMAIN q : RemoveIndex(q, i)[j] = q[k]
  <2>1. j \in 1 .. Len(q) - 1
    BY DEF RemoveIndex
  <2>2. CASE j < i
    BY <1>1, <2>1, <2>2 DEF RemoveIndex
  <2>3. CASE ~(j < i)
    <3>1. RemoveIndex(q, i)[j] = q[j + 1] /\ j + 1 \in DOMAIN q
      BY <1>1, <2>1, <2>3 DEF RemoveIndex
    <3> QED  BY <3>1
  <2> QED  BY <2>2, <2>3
<1> QED  BY <1>3, <1>4

LEMMA WithoutSeq ==
  ASSUME NEW S, NEW q \in Seq(S), NEW r
  PROVE  /\ Without(q, r) \in Seq(S)
         /\ \A j \in DOMAIN Without(q, r) : \E k \in DOMAIN q : Without(q, r)[j] = q[k]
<1>1. CASE \E i \in DOMAIN q : q[i] = r
  <2>1. IndexOf(q, r) \in DOMAIN q
    BY <1>1 DEF IndexOf
  <2>2. IndexOf(q, r) \in 1 .. Len(q)
    BY <2>1, LenProperties
  <2> QED  BY <1>1, <2>2, RemoveIndexSeq DEF Without
<1>2. CASE ~ \E i \in DOMAIN q : q[i] = r
  BY <1>2 DEF Without
<1> QED  BY <1>1, <1>2

\* Inserting puts r somewhere and keeps the rest.
LEMMA InsertAtSeq ==
  ASSUME NEW S, NEW q \in Seq(S), NEW i \in 1 .. Len(q) + 1, NEW r \in S
  PROVE  /\ InsertAt(q, i, r) \in Seq(S)
         /\ \A j \in DOMAIN InsertAt(q, i, r) :
              InsertAt(q, i, r)[j] = r \/ \E k \in DOMAIN q : InsertAt(q, i, r)[j] = q[k]
<1>1. Len(q) \in Nat /\ DOMAIN q = 1 .. Len(q) /\ Len(q) + 1 \in Nat
  BY LenProperties
<1> DEFINE e(j) == IF j < i THEN q[j] ELSE IF j = i THEN r ELSE q[j - 1]
<1>2. ASSUME NEW j \in 1 .. Len(q) + 1
      PROVE  e(j) = r \/ \E k \in 1 .. Len(q) : e(j) = q[k]
  <2>1. CASE j < i
    <3>1. j \in 1 .. Len(q) /\ e(j) = q[j]  BY <1>1, <2>1
    <3> QED  BY <3>1
  <2>2. CASE j = i
    BY <2>2
  <2>3. CASE j > i
    <3>1. j - 1 \in 1 .. Len(q) /\ e(j) = q[j - 1]  BY <1>1, <2>3
    <3> QED  BY <3>1
  <2> QED  BY <2>1, <2>2, <2>3, <1>1
<1>3. \A j \in 1 .. Len(q) + 1 : e(j) \in S
  BY <1>2, ElementOfSeq
<1>4. InsertAt(q, i, r) = [j \in 1 .. Len(q) + 1 |-> e(j)]
  BY DEF InsertAt
<1> HIDE DEF e
<1>5. InsertAt(q, i, r) \in Seq(S)
  BY <1>1, <1>3, <1>4, IsASeq
<1> QED  BY <1>1, <1>2, <1>4, <1>5

LEMMA ByRankSeq ==
  ASSUME NEW S, NEW q \in Seq(S), NEW r \in S
  PROVE  /\ ByRank(q, r) \in Seq(S)
         /\ \A j \in DOMAIN ByRank(q, r) :
              ByRank(q, r)[j] = r \/ \E k \in DOMAIN q : ByRank(q, r)[j] = q[k]
<1> DEFINE B == {i \in DOMAIN q : Rank[q[i]] < Rank[r]}
<1>1. Len(q) \in Nat /\ DOMAIN q = 1 .. Len(q)
  BY LenProperties, SMTT(40)
<1>2. IsFiniteSet(1 .. Len(q)) /\ Cardinality(1 .. Len(q)) = Len(q)
  BY <1>1, FS_Interval
<1>3. B \in SUBSET (1 .. Len(q))
  BY <1>1
<1>4. IsFiniteSet(B) /\ Cardinality(B) <= Len(q)
  BY <1>2, <1>3, FS_Subset
<1>5. Cardinality(B) \in Nat
  BY <1>4, FS_CardinalityType
<1>6. 1 + Cardinality(B) \in 1 .. Len(q) + 1
  BY <1>1, <1>4, <1>5
<1>7. ByRank(q, r) = InsertAt(q, 1 + Cardinality(B), r)
  BY DEF ByRank
<1> HIDE DEF B
<1> QED  BY <1>6, <1>7, InsertAtSeq

\* add_request and prepend_request, for both policies.
LEMMA PrependSeq ==
  ASSUME NEW S, NEW q \in Seq(S), NEW r \in S
  PROVE  /\ PrependTo(q, r) \in Seq(S)
         /\ \A j \in DOMAIN PrependTo(q, r) :
              PrependTo(q, r)[j] = r \/ \E k \in DOMAIN q : PrependTo(q, r)[j] = q[k]
<1>1. CASE Priority
  BY <1>1, ByRankSeq DEF PrependTo
<1>2. CASE ~Priority
  <2>1. <<r>> \in Seq(S) /\ Len(<<r>>) = 1 /\ <<r>>[1] = r  OBVIOUS
  <2>2. <<r>> \o q \in Seq(S) /\ Len(<<r>> \o q) = 1 + Len(q)
        /\ \A j \in 1 .. 1 + Len(q) : (<<r>> \o q)[j] = IF j <= 1 THEN r ELSE q[j - 1]
    BY <2>1, ConcatProperties
  <2>3. Len(q) \in Nat /\ DOMAIN q = 1 .. Len(q) /\ DOMAIN (<<r>> \o q) = 1 .. 1 + Len(q)
    BY <2>2, LenProperties
  <2>4. ASSUME NEW j \in 1 .. 1 + Len(q)
        PROVE  (<<r>> \o q)[j] = r \/ \E k \in DOMAIN q : (<<r>> \o q)[j] = q[k]
    <3>1. CASE j <= 1  BY <2>2, <3>1
    <3>2. CASE j > 1
      <4>1. j - 1 \in DOMAIN q /\ (<<r>> \o q)[j] = q[j - 1]  BY <2>2, <2>3, <3>2
      <4> QED  BY <4>1
    <3> QED  BY <3>1, <3>2, <2>3
  <2> QED  BY <1>2, <2>2, <2>3, <2>4 DEF PrependTo
<1> QED  BY <1>1, <1>2

LEMMA AddSeq ==
  ASSUME NEW S, NEW q \in Seq(S), NEW r \in S
  PROVE  /\ AddRequestTo(q, r) \in Seq(S)
         /\ \A j \in DOMAIN AddRequestTo(q, r) :
              AddRequestTo(q, r)[j] = r \/ \E k \in DOMAIN q : AddRequestTo(q, r)[j] = q[k]
<1>1. CASE Priority
  BY <1>1, ByRankSeq DEF AddRequestTo
<1>2. CASE ~Priority
  <2>1. Append(q, r) \in Seq(S) /\ Len(Append(q, r)) = Len(q) + 1
        /\ \A j \in 1 .. Len(q) + 1 : Append(q, r)[j] = IF j = Len(q) + 1 THEN r ELSE q[j]
    OBVIOUS
  <2>2. Len(q) \in Nat /\ DOMAIN q = 1 .. Len(q) /\ DOMAIN Append(q, r) = 1 .. Len(q) + 1
    BY <2>1, LenProperties
  <2> QED  BY <1>2, <2>1, <2>2 DEF AddRequestTo
<1> QED  BY <1>1, <1>2

----------------------------------------------------------------------------
(* Arithmetic and records.                                                 *)

LEMMA LeastMost ==
  ASSUME NEW a \in Int, NEW b \in Int
  PROVE  /\ Least(a, b) \in Int /\ Least(a, b) <= a /\ Least(a, b) <= b
         /\ Most(a, b) \in Int /\ a <= Most(a, b) /\ b <= Most(a, b)
BY DEF Least, Most

LEMMA CeilDivType ==
  ASSUME NEW a \in Int, NEW b \in Nat \ {0}
  PROVE  CeilDiv(a, b) \in Int
<1>1. a + b - 1 \in Int
  OBVIOUS
<1> QED  BY <1>1 DEF CeilDiv

\* A request never gives blocks back by asking for more.
LEMMA NeedType ==
  ASSUME NEW r, req[r].blocks \in Nat, NEW upto \in Int
  PROVE  Need(r, upto) \in Nat
<1>1. Least(upto, MaxModelLen) \in Int
  BY ConfigAssumption, LeastMost
<1>2. CeilDiv(Least(upto, MaxModelLen), BlockSize) \in Int
  BY <1>1, ConfigAssumption, CeilDivType
<1> DEFINE c == CeilDiv(Least(upto, MaxModelLen), BlockSize)
<1>3. Need(r, upto) = Most(0, c - req[r].blocks)
  BY DEF Need
<1> HIDE DEF c
<1>4. c - req[r].blocks \in Int
  BY <1>2 DEF c
<1> QED  BY <1>3, <1>4 DEF Most

LEMMA LookaheadType ==
  ASSUME NEW r, NEW pad
  PROVE  LookaheadFor(r, pad) \in Nat
BY ConfigAssumption DEF LookaheadFor

LEMMA BlankType ==
  ASSUME NEW status \in Statuses, NEW tokens \in Nat
  PROVE  Blank(status, tokens) \in RequestType
BY DEF Blank, RequestType

\* p is a request like q as far as the proofs below look.
Keeps(q, p) ==
  /\ p \in RequestType
  /\ p.status = q.status /\ p.num_tokens = q.num_tokens
  /\ p.stale = q.stale /\ p.drop = q.drop

LEMMA RequestFields ==
  ASSUME NEW q \in RequestType
  PROVE  /\ q.status \in Statuses /\ q.num_tokens \in Nat /\ q.num_computed \in Int
         /\ q.in_flight \in Int /\ q.stale \in Int /\ q.drop \in BOOLEAN
         /\ q.placeholders \in Int /\ q.spec \in Nat /\ q.is_chunk \in BOOLEAN
         /\ q.cooldown \in Nat /\ q.blocks \in Nat /\ q.runner \in Int
BY DEF RequestType

\* Assigning one field.
LEMMA SetField ==
  ASSUME NEW q \in RequestType
  PROVE  /\ \A v \in Int : Keeps(q, [q EXCEPT !.num_computed = v])
         /\ \A v \in Int : Keeps(q, [q EXCEPT !.in_flight = v])
         /\ \A v \in Int : Keeps(q, [q EXCEPT !.placeholders = v])
         /\ \A v \in Nat : Keeps(q, [q EXCEPT !.spec = v])
         /\ \A v \in BOOLEAN : Keeps(q, [q EXCEPT !.is_chunk = v])
         /\ \A v \in Nat : Keeps(q, [q EXCEPT !.cooldown = v])
         /\ \A v \in Nat : Keeps(q, [q EXCEPT !.blocks = v])
         /\ \A v \in Int : Keeps(q, [q EXCEPT !.runner = v])
<1>1. \A v \in Int : Keeps(q, [q EXCEPT !.num_computed = v])
  BY DEF Keeps, RequestType
<1>2. \A v \in Int : Keeps(q, [q EXCEPT !.in_flight = v])
  BY DEF Keeps, RequestType
<1>3. \A v \in Int : Keeps(q, [q EXCEPT !.placeholders = v])
  BY DEF Keeps, RequestType
<1>4. \A v \in Nat : Keeps(q, [q EXCEPT !.spec = v])
  BY DEF Keeps, RequestType
<1>5. \A v \in BOOLEAN : Keeps(q, [q EXCEPT !.is_chunk = v])
  BY DEF Keeps, RequestType
<1>6. \A v \in Nat : Keeps(q, [q EXCEPT !.cooldown = v])
  BY DEF Keeps, RequestType
<1>7. \A v \in Nat : Keeps(q, [q EXCEPT !.blocks = v])
  BY DEF Keeps, RequestType
<1>8. \A v \in Int : Keeps(q, [q EXCEPT !.runner = v])
  BY DEF Keeps, RequestType
<1> QED  BY <1>1, <1>2, <1>3, <1>4, <1>5, <1>6, <1>7, <1>8

\* Assigning one of the fields that Keeps watches.
LEMMA SetWatched ==
  ASSUME NEW q \in RequestType
  PROVE  /\ \A v \in Statuses :
              LET p == [q EXCEPT !.status = v]
              IN  p \in RequestType /\ p.status = v /\ p.num_tokens = q.num_tokens
                  /\ p.stale = q.stale /\ p.drop = q.drop
         /\ \A v \in Nat :
              LET p == [q EXCEPT !.num_tokens = v]
              IN  p \in RequestType /\ p.status = q.status /\ p.num_tokens = v
                  /\ p.stale = q.stale /\ p.drop = q.drop
         /\ \A v \in Int :
              LET p == [q EXCEPT !.stale = v]
              IN  p \in RequestType /\ p.status = q.status /\ p.num_tokens = q.num_tokens
                  /\ p.stale = v /\ p.drop = q.drop
         /\ \A v \in BOOLEAN :
              LET p == [q EXCEPT !.drop = v]
              IN  p \in RequestType /\ p.status = q.status /\ p.num_tokens = q.num_tokens
                  /\ p.stale = q.stale /\ p.drop = v
<1>1. ASSUME NEW v \in Statuses
      PROVE  LET p == [q EXCEPT !.status = v]
             IN  p \in RequestType /\ p.status = v /\ p.num_tokens = q.num_tokens
                 /\ p.stale = q.stale /\ p.drop = q.drop
  BY DEF RequestType
<1>2. ASSUME NEW v \in Nat
      PROVE  LET p == [q EXCEPT !.num_tokens = v]
             IN  p \in RequestType /\ p.status = q.status /\ p.num_tokens = v
                 /\ p.stale = q.stale /\ p.drop = q.drop
  BY DEF RequestType
<1>3. ASSUME NEW v \in Int
      PROVE  LET p == [q EXCEPT !.stale = v]
             IN  p \in RequestType /\ p.status = q.status /\ p.num_tokens = q.num_tokens
                 /\ p.stale = v /\ p.drop = q.drop
  BY DEF RequestType
<1>4. ASSUME NEW v \in BOOLEAN
      PROVE  LET p == [q EXCEPT !.drop = v]
             IN  p \in RequestType /\ p.status = q.status /\ p.num_tokens = q.num_tokens
                 /\ p.stale = q.stale /\ p.drop = v
  BY DEF RequestType
<1> QED  BY <1>1, <1>2, <1>3, <1>4

LEMMA PreemptedType ==
  ASSUME NEW q \in RequestType, NEW drop \in BOOLEAN
  PROVE  /\ PreemptedReq(q, drop) \in RequestType
         /\ PreemptedReq(q, drop).status = "PREEMPTED"
         /\ PreemptedReq(q, drop).num_tokens = q.num_tokens
<1> DEFINE d  == drop \/ (q.drop /\ q.stale > 0)
           q1 == [q EXCEPT !.status = "PREEMPTED"]
           q2 == [q1 EXCEPT !.num_computed = 0]
           q3 == [q2 EXCEPT !.spec = 0]
           q4 == [q3 EXCEPT !.drop = d]
           q5 == [q4 EXCEPT !.stale = q.in_flight]
           q6 == [q5 EXCEPT !.placeholders = 0]
           q7 == [q6 EXCEPT !.blocks = 0]
<1>1. PreemptedReq(q, drop) = q7
  BY Zenon DEF PreemptedReq
<1>2. q.in_flight \in Int /\ d \in BOOLEAN /\ "PREEMPTED" \in Statuses
  BY RequestFields DEF Statuses
<1> HIDE DEF d
<1>3. q1 \in RequestType /\ q1.status = "PREEMPTED" /\ q1.num_tokens = q.num_tokens
  BY <1>2, SetWatched
<1> HIDE DEF q1
<1>4. Keeps(q1, q2)  BY <1>3, SetField
<1> HIDE DEF q2
<1>5. Keeps(q2, q3)  BY <1>4, SetField DEF Keeps
<1> HIDE DEF q3
<1>6. q4 \in RequestType /\ q4.status = q3.status /\ q4.num_tokens = q3.num_tokens
  BY <1>2, <1>5, SetWatched DEF Keeps
<1> HIDE DEF q4
<1>7. q5 \in RequestType /\ q5.status = q4.status /\ q5.num_tokens = q4.num_tokens
  BY <1>2, <1>6, SetWatched
<1> HIDE DEF q5
<1>8. Keeps(q5, q6)  BY <1>7, SetField
<1> HIDE DEF q6
<1>9. Keeps(q6, q7)  BY <1>8, SetField DEF Keeps
<1> HIDE DEF q7
<1> QED  BY <1>1, <1>3, <1>4, <1>5, <1>6, <1>7, <1>8, <1>9 DEF Keeps

LEMMA DrainedType ==
  ASSUME NEW q \in RequestType, NEW n \in Int
  PROVE  /\ Drained(q, n) \in RequestType
         /\ Drained(q, n).status = q.status
         /\ Drained(q, n).num_tokens = q.num_tokens
         /\ Drained(q, n).drop = q.drop
         /\ q.stale <= 0 => Drained(q, n).stale = q.stale
<1> DEFINE x == q.in_flight - n
           y == IF q.stale > 0 THEN q.stale - n ELSE q.stale
           q1 == [q EXCEPT !.in_flight = x]
           q2 == [q1 EXCEPT !.stale = y]
<1>1. x \in Int /\ y \in Int /\ (q.stale <= 0 => y = q.stale)
  BY RequestFields
<1>2. Drained(q, n) = [q EXCEPT !.in_flight = x, !.stale = y]
  BY DEF Drained, RequestType
<1>3. Drained(q, n) = q2
  BY <1>2, Zenon
<1> HIDE DEF x, y
<1>4. Keeps(q, q1)  BY <1>1, SetField
<1> HIDE DEF q1
<1>5. /\ q2 \in RequestType /\ q2.status = q1.status /\ q2.num_tokens = q1.num_tokens
      /\ q2.stale = y /\ q2.drop = q1.drop
  BY <1>1, <1>4, SetWatched DEF Keeps
<1> HIDE DEF q2
<1> QED  BY <1>1, <1>3, <1>4, <1>5 DEF Keeps

LEMMA RolledBackType ==
  ASSUME NEW q \in RequestType, NEW n \in Int, NEW isStale \in BOOLEAN
  PROVE  Keeps(q, RolledBack(q, n, isStale))
<1> DEFINE x == IF q.num_computed > 0 THEN q.num_computed - n ELSE q.num_computed
           y == IF q.placeholders > 0 THEN q.placeholders - n ELSE q.placeholders
           q1 == [q EXCEPT !.num_computed = x]
           q2 == [q1 EXCEPT !.placeholders = y]
<1>1. x \in Int /\ y \in Int
  BY RequestFields
<1>2. RolledBack(q, n, isStale)
        = IF isStale THEN q ELSE [q EXCEPT !.num_computed = x, !.placeholders = y]
  BY DEF RolledBack, RequestType
<1>3. RolledBack(q, n, isStale) = IF isStale THEN q ELSE q2
  BY <1>2, Zenon
<1> HIDE DEF x, y
<1>4. Keeps(q, q1)  BY <1>1, SetField
<1> HIDE DEF q1
<1>5. Keeps(q1, q2)  BY <1>1, <1>4, SetField DEF Keeps
<1> HIDE DEF q2
<1> QED  BY <1>3, <1>4, <1>5 DEF Keeps

LEMMA PlannedType ==
  ASSUME NEW q \in RequestType, NEW spec \in Int
  PROVE  Keeps(q, PlanOutput(q, spec))
<1> DEFINE x == q.placeholders + 1 + spec
           q1 == [q EXCEPT !.placeholders = x]
           q2 == [q1 EXCEPT !.spec = NumSpec]
           q3 == [q2 EXCEPT !.cooldown = PPSize]
<1>1. x \in Int /\ NumSpec \in Nat /\ PPSize \in Nat
  BY RequestFields, ConfigAssumption
<1>2. PlanOutput(q, spec) = q3
  BY Zenon DEF PlanOutput
<1> HIDE DEF x
<1>3. Keeps(q, q1)  BY <1>1, SetField
<1> HIDE DEF q1
<1>4. Keeps(q1, q2)  BY <1>1, <1>3, SetField DEF Keeps
<1> HIDE DEF q2
<1>5. Keeps(q2, q3)  BY <1>1, <1>4, SetField DEF Keeps
<1> HIDE DEF q3
<1> QED  BY <1>2, <1>3, <1>4, <1>5 DEF Keeps

LEMMA AdvancedType ==
  ASSUME NEW q \in RequestType, NEW n \in Int, NEW spec \in Int
  PROVE  Keeps(q, Advanced(q, n, spec))
<1> DEFINE x == q.num_computed + n
           y == q.in_flight + n
           z == q.num_computed + n < q.num_tokens + q.placeholders
           q1 == [q EXCEPT !.num_computed = x]
           q2 == [q1 EXCEPT !.in_flight = y]
           q3 == [q2 EXCEPT !.is_chunk = z]
<1>1. x \in Int /\ y \in Int /\ z \in BOOLEAN
  BY RequestFields
<1>2. Advanced(q, n, spec) = IF Async /\ ~q3.is_chunk THEN PlanOutput(q3, spec) ELSE q3
  BY Zenon DEF Advanced
<1> HIDE DEF x, y, z
<1>3. Keeps(q, q1)  BY <1>1, SetField
<1> HIDE DEF q1
<1>4. Keeps(q1, q2)  BY <1>1, <1>3, SetField DEF Keeps
<1> HIDE DEF q2
<1>5. Keeps(q2, q3)  BY <1>1, <1>4, SetField DEF Keeps
<1> HIDE DEF q3
<1>6. Keeps(q3, PlanOutput(q3, spec))  BY <1>5, PlannedType DEF Keeps
<1> QED  BY <1>2, <1>3, <1>4, <1>5, <1>6 DEF Keeps

----------------------------------------------------------------------------
(* Steps and batches.                                                      *)

LEMMA StepFields ==
  ASSUME NEW s \in StepType
  PROVE  /\ s.idx \in Nat \ {0} /\ s.tokens \in Int /\ s.input \in Int
         /\ s.n \in [Reqs -> Int] /\ s.spec \in [Reqs -> Int]
         /\ s.fresh \in SUBSET Reqs /\ s.preempted \in BOOLEAN /\ s.prefill \in BOOLEAN
         /\ s.skip \in Seq(Reqs) /\ s.want \in Int /\ s.pad \in BOOLEAN
BY DEF StepType

\* p is a step like s, but for budgets, scheduled tokens and flags.
SameCursor(s, p) == p \in StepType /\ p.idx = s.idx /\ p.skip = s.skip

\* The cursor moves to v, or the skipped requests become v.
CursorAt(s, p, v) == p \in StepType /\ p.idx = v /\ p.skip = s.skip
SkipIs(s, p, v) == p \in StepType /\ p.idx = s.idx /\ p.skip = v

\* Assigning one field.
LEMMA SetStep ==
  ASSUME NEW s \in StepType
  PROVE  /\ \A v \in Nat \ {0} : CursorAt(s, [s EXCEPT !.idx = v], v)
         /\ \A v \in Int : SameCursor(s, [s EXCEPT !.tokens = v])
         /\ \A v \in Int : SameCursor(s, [s EXCEPT !.input = v])
         /\ \A v \in [Reqs -> Int] : SameCursor(s, [s EXCEPT !.n = v])
         /\ \A v \in [Reqs -> Int] : SameCursor(s, [s EXCEPT !.spec = v])
         /\ \A v \in SUBSET Reqs : SameCursor(s, [s EXCEPT !.fresh = v])
         /\ \A v \in BOOLEAN : SameCursor(s, [s EXCEPT !.preempted = v])
         /\ \A v \in BOOLEAN : SameCursor(s, [s EXCEPT !.prefill = v])
         /\ \A v \in Seq(Reqs) : SkipIs(s, [s EXCEPT !.skip = v], v)
         /\ \A v \in Int : SameCursor(s, [s EXCEPT !.want = v])
         /\ \A v \in BOOLEAN : SameCursor(s, [s EXCEPT !.pad = v])
<1>1. \A v \in Nat \ {0} : CursorAt(s, [s EXCEPT !.idx = v], v)
  BY DEF StepType, CursorAt
<1>2. \A v \in Int : SameCursor(s, [s EXCEPT !.tokens = v])
  BY DEF StepType, SameCursor
<1>3. \A v \in Int : SameCursor(s, [s EXCEPT !.input = v])
  BY DEF StepType, SameCursor
<1>4. \A v \in [Reqs -> Int] : SameCursor(s, [s EXCEPT !.n = v])
  BY DEF StepType, SameCursor
<1>5. \A v \in [Reqs -> Int] : SameCursor(s, [s EXCEPT !.spec = v])
  BY DEF StepType, SameCursor
<1>6. \A v \in SUBSET Reqs : SameCursor(s, [s EXCEPT !.fresh = v])
  BY DEF StepType, SameCursor
<1>7. \A v \in BOOLEAN : SameCursor(s, [s EXCEPT !.preempted = v])
  BY DEF StepType, SameCursor
<1>8. \A v \in BOOLEAN : SameCursor(s, [s EXCEPT !.prefill = v])
  BY DEF StepType, SameCursor
<1>9. \A v \in Seq(Reqs) : SkipIs(s, [s EXCEPT !.skip = v], v)
  BY DEF StepType, SkipIs
<1>10. \A v \in Int : SameCursor(s, [s EXCEPT !.want = v])
  BY DEF StepType, SameCursor
<1>11. \A v \in BOOLEAN : SameCursor(s, [s EXCEPT !.pad = v])
  BY DEF StepType, SameCursor
<1> QED  BY <1>1, <1>2, <1>3, <1>4, <1>5, <1>6, <1>7, <1>8, <1>9, <1>10, <1>11

LEMMA NewStepType ==
  ASSUME NEW a \in Int, NEW b \in Int
  PROVE  NewStep(a, b) \in StepType
<1>1. NoTokens \in [Reqs -> Int]
  BY DEF NoTokens
<1>2. {} \in SUBSET Reqs /\ <<>> \in Seq(Reqs) /\ 1 \in Nat \ {0} /\ 0 \in Int
  OBVIOUS
<1> DEFINE z == NoTokens
<1> HIDE DEF z
<1> QED  BY <1>1, <1>2 DEF NewStep, StepType, z

LEMMA MarkOldType ==
  ASSUME batches \in Seq(BatchType), NEW r \in Reqs
  PROVE  MarkOld(r) \in Seq(BatchType) /\ (batches # <<>> => MarkOld(r) # <<>>)
<1>1. Len(batches) \in Nat /\ DOMAIN batches = 1 .. Len(batches)
  BY LenProperties
<1> DEFINE e(i) == IF r \in ScheduledIn(batches[i])
                   THEN [batches[i] EXCEPT !.old = @ \cup {r}] ELSE batches[i]
<1>2. ASSUME NEW i \in 1 .. Len(batches)
      PROVE  e(i) \in BatchType
  <2>1. batches[i] \in BatchType
    BY ElementOfSeq
  <2>2. [batches[i] EXCEPT !.old = @ \cup {r}] \in BatchType
    BY <2>1 DEF BatchType
  <2> QED  BY <2>1, <2>2
<1>3. MarkOld(r) = [i \in 1 .. Len(batches) |-> e(i)]
  BY <1>1 DEF MarkOld
<1> HIDE DEF e
<1>4. MarkOld(r) \in Seq(BatchType)
  BY <1>1, <1>2, <1>3, IsASeq
<1>5. ASSUME batches # <<>>
      PROVE  MarkOld(r) # <<>>
  <2>1. Len(batches) >= 1
    BY <1>5, EmptySeq
  <2>2. 1 \in DOMAIN MarkOld(r)
    BY <1>1, <1>3, <2>1
  <2> QED  BY <2>2
<1> QED  BY <1>4, <1>5

----------------------------------------------------------------------------
(* The inductive invariant.                                                *)

\* The cursor is on a running request while its blocks are sought, and a batch is
\* there while its output is taken.
CursorOK ==
  /\ pc = "alloc" => step.idx \in DOMAIN running
  /\ pc = "update" => batches # <<>>

\* Every request in a queue has been added.
Arrived(f, q) == \A i \in DOMAIN q : f[q[i]].status # "ABSENT"

QueuesArrived ==
  /\ Arrived(req, running) /\ Arrived(req, waiting)
  /\ Arrived(req, skipped) /\ Arrived(req, step.skip)

Limit(r) == Least(MaxModelLen, PromptLen[r] + MaxTokens[r])

\* What OutputBounded says of one request, in a form that survives the end of the request.
Good(r, q) == q.status = "ABSENT" \/ q.num_tokens < Limit(r)

RequestsGood == \A r \in Reqs : Good(r, req[r])

IInv == TypeOK /\ CursorOK /\ QueuesArrived /\ RequestsGood

\* What an action does to the requests, as far as IInv looks.
RequestsStep(f, g) ==
  /\ g \in [Reqs -> RequestType]
  /\ \A r \in Reqs : Good(r, g[r]) /\ (f[r].status # "ABSENT" => g[r].status # "ABSENT")

LEMMA LimitType == \A r \in Reqs : Limit(r) \in Int /\ PromptLen[r] < Limit(r)
<1> SUFFICES ASSUME NEW r \in Reqs
             PROVE  Limit(r) \in Int /\ PromptLen[r] < Limit(r)
  OBVIOUS
<1>1. PromptLen[r] \in Nat /\ MaxTokens[r] \in Nat \ {0} /\ PromptLen[r] < MaxModelLen
      /\ MaxModelLen \in Nat
  BY RequestAssumption, ConfigAssumption
<1> QED  BY <1>1 DEF Limit, Least

LEMMA SameRequests ==
  ASSUME IInv
  PROVE  RequestsStep(req, req)
BY DEF IInv, TypeOK, RequestsGood, RequestsStep

\* One request changes.
LEMMA OneRequest ==
  ASSUME IInv, NEW r \in Reqs, NEW p \in RequestType, Good(r, p),
         req[r].status # "ABSENT" => p.status # "ABSENT"
  PROVE  RequestsStep(req, [req EXCEPT ![r] = p])
<1>1. req \in [Reqs -> RequestType] /\ \A x \in Reqs : Good(x, req[x])
  BY DEF IInv, TypeOK, RequestsGood
<1>2. [req EXCEPT ![r] = p] \in [Reqs -> RequestType]
  BY <1>1
<1>3. \A x \in Reqs : [req EXCEPT ![r] = p][x] = IF x = r THEN p ELSE req[x]
  BY <1>1
<1> QED  BY <1>1, <1>2, <1>3 DEF RequestsStep

\* A request that changes in fields no invariant looks at.
LEMMA KeepsGood ==
  ASSUME NEW r, NEW q, NEW p, Keeps(q, p), Good(r, q)
  PROVE  Good(r, p)
BY DEF Keeps, Good

\* A queue whose elements were in arrived queues.
LEMMA QueueKept ==
  ASSUME NEW f, NEW g, RequestsStep(f, g),
         NEW q \in Seq(Reqs), Arrived(f, q), NEW p,
         \A j \in DOMAIN p : \E k \in DOMAIN q : p[j] = q[k]
  PROVE  Arrived(g, p)
<1>1. \A k \in DOMAIN q : q[k] \in Reqs
  BY LenProperties, ElementOfSeq
<1> QED  BY <1>1 DEF Arrived, RequestsStep

LEMMA QueueSame ==
  ASSUME NEW f, NEW g, RequestsStep(f, g), NEW q \in Seq(Reqs), Arrived(f, q)
  PROVE  Arrived(g, q)
BY QueueKept

\* A queue that also takes in r.
LEMMA QueueGrown ==
  ASSUME NEW f, NEW g, RequestsStep(f, g),
         NEW q \in Seq(Reqs), Arrived(f, q), NEW p, NEW r, g[r].status # "ABSENT",
         \A j \in DOMAIN p : p[j] = r \/ \E k \in DOMAIN q : p[j] = q[k]
  PROVE  Arrived(g, p)
<1>1. \A k \in DOMAIN q : q[k] \in Reqs
  BY LenProperties, ElementOfSeq
<1> QED  BY <1>1 DEF Arrived, RequestsStep

LEMMA HeadKept ==
  ASSUME NEW f, NEW q \in Seq(Reqs), q # <<>>, Arrived(f, q)
  PROVE  /\ Head(q) \in Reqs /\ f[Head(q)].status # "ABSENT"
         /\ Tail(q) \in Seq(Reqs)
         /\ \A j \in DOMAIN Tail(q) : \E k \in DOMAIN q : Tail(q)[j] = q[k]
<1>1. Len(q) \in Nat \ {0} /\ DOMAIN q = 1 .. Len(q)
  BY EmptySeq, LenProperties
<1>2. /\ Tail(q) \in Seq(Reqs) /\ Len(Tail(q)) = Len(q) - 1
      /\ \A i \in 1 .. Len(Tail(q)) : Tail(q)[i] = q[i + 1]
      /\ Head(q) \in Reqs
  BY HeadTailProperties
<1>3. Head(q) = q[1]
  OBVIOUS
<1>4. DOMAIN Tail(q) = 1 .. Len(q) - 1
  BY <1>2, LenProperties
<1>5. \A j \in DOMAIN Tail(q) : j + 1 \in DOMAIN q /\ Tail(q)[j] = q[j + 1]
  BY <1>1, <1>2, <1>4
<1> QED  BY <1>1, <1>2, <1>3, <1>5 DEF Arrived

----------------------------------------------------------------------------
(* The invariant holds at the start, and each action preserves it.         *)

LEMMA InitIInv == Init => IInv
<1> SUFFICES ASSUME Init  PROVE IInv
  OBVIOUS
<1>1. \A r \in Reqs : req[r] = Blank("ABSENT", 0)
  BY DEF Init
<1>2. Blank("ABSENT", 0) \in RequestType /\ Blank("ABSENT", 0).status = "ABSENT"
  BY BlankType DEF Blank, Statuses
<1>3. req \in [Reqs -> RequestType]
  BY <1>1, <1>2 DEF Init
<1>4. step \in StepType
  BY NewStepType DEF Init, NoStep
<1>5. <<>> \in Seq(Reqs) /\ <<>> \in Seq(BatchType)
  OBVIOUS
<1>6. step.skip = <<>>
  BY DEF Init, NoStep, NewStep
<1>7. TypeOK
  BY <1>3, <1>4, <1>5, ConfigAssumption DEF Init, TypeOK
<1>8. QueuesArrived
  BY <1>6 DEF Init, QueuesArrived, Arrived
<1>9. RequestsGood
  BY <1>1, <1>2 DEF RequestsGood, Good
<1> QED  BY <1>7, <1>8, <1>9 DEF Init, IInv, CursorOK

\* Actions that leave requests, queues and the step alone.
LEMMA QuietSteps ==
  ASSUME IInv, UNCHANGED <<req, running, waiting, skipped, step>>,
         EndRunningPass \/ EndWaitingPass \/ BeginUpdate
         \/ (\E r \in Reqs : IgnoreOutput(r)) \/ EndUpdate
         \/ (\E p \in PauseStates : SetPause(p)) \/ BeginReset \/ EndReset
         \/ UNCHANGED vars
  PROVE  IInv'
<1>1. TypeOK /\ QueuesArrived /\ RequestsGood /\ CursorOK
  BY DEF IInv
<1>2. QueuesArrived' /\ RequestsGood'
  BY <1>1 DEF QueuesArrived, Arrived, RequestsGood
<1>3. CASE EndRunningPass
  <2>1. pc' \in {"finish", "waiting"}
    BY <1>3 DEF EndRunningPass
  <2>2. TypeOK' /\ CursorOK'
    BY <1>1, <1>3, <2>1 DEF EndRunningPass, TypeOK, CursorOK
  <2> QED  BY <1>2, <2>2 DEF IInv
<1>4. CASE EndWaitingPass
  BY <1>1, <1>2, <1>4 DEF EndWaitingPass, TypeOK, CursorOK, IInv
<1>5. CASE BeginUpdate
  BY <1>1, <1>2, <1>5 DEF BeginUpdate, TypeOK, CursorOK, IInv, ScheduledIn
<1>6. CASE \E r \in Reqs : IgnoreOutput(r)
  BY <1>1, <1>2, <1>6 DEF IgnoreOutput, TypeOK, CursorOK, IInv
<1>7. CASE EndUpdate
  <2>1. Tail(batches) \in Seq(BatchType)
    BY <1>1, <1>7, HeadTailProperties DEF EndUpdate, TypeOK, CursorOK
  <2> QED  BY <1>1, <1>2, <1>7, <2>1 DEF EndUpdate, TypeOK, CursorOK, IInv
<1>8. CASE \E p \in PauseStates : SetPause(p)
  BY <1>1, <1>2, <1>8 DEF SetPause, TypeOK, CursorOK, IInv
<1>9. CASE BeginReset
  <2>1. resets' \in 0 .. MaxResets
    BY <1>1, <1>9, ConfigAssumption DEF BeginReset, TypeOK
  <2> QED  BY <1>1, <1>2, <1>9, <2>1 DEF BeginReset, TypeOK, CursorOK, IInv
<1>10. CASE EndReset
  BY <1>1, <1>2, <1>10 DEF EndReset, TypeOK, CursorOK, IInv
<1>11. CASE UNCHANGED vars
  BY <1>1, <1>2, <1>11 DEF vars, TypeOK, CursorOK, IInv
<1> QED  BY <1>3, <1>4, <1>5, <1>6, <1>7, <1>8, <1>9, <1>10, <1>11

LEMMA BeginStepIInv == IInv /\ BeginStep => IInv'
<1> SUFFICES ASSUME IInv, BeginStep  PROVE IInv'
  OBVIOUS
<1>1. TypeOK /\ QueuesArrived /\ RequestsGood
  BY DEF IInv
<1>2. ASSUME NEW r \in Reqs
      PROVE  Keeps(req[r], req'[r])
  <2>1. req'[r] = [req[r] EXCEPT !.cooldown = Most(0, @ - 1)]
    BY DEF BeginStep
  <2> DEFINE c == Most(0, req[r].cooldown - 1)
  <2>2. c \in Nat
    BY <1>1, RequestFields DEF TypeOK, Most
  <2>3. req'[r] = [req[r] EXCEPT !.cooldown = c]
    BY <2>1, Zenon
  <2> HIDE DEF c
  <2> QED  BY <1>1, <2>2, <2>3, SetField DEF TypeOK
<1>3. RequestsStep(req, req')
  <2>1. req' \in [Reqs -> RequestType]
    BY <1>2 DEF BeginStep, Keeps
  <2> QED  BY <1>1, <1>2, <2>1, KeepsGood DEF RequestsStep, RequestsGood, Keeps
<1>4. step' \in StepType
  <2> DEFINE t == IF pause = "PAUSED_ALL" THEN 0 ELSE MaxScheduled
  <2>1. t \in Int /\ MaxBatched \in Int
    BY ConfigAssumption
  <2>2. step' = NewStep(t, MaxBatched)
    BY DEF BeginStep
  <2> HIDE DEF t
  <2> QED  BY <2>1, <2>2, NewStepType
<1>5. step'.skip = <<>>
  BY DEF BeginStep, NewStep
<1>6. TypeOK'
  BY <1>1, <1>3, <1>4 DEF BeginStep, TypeOK, RequestsStep
<1>7. QueuesArrived'
  <2>1. Arrived(req', running) /\ Arrived(req', waiting) /\ Arrived(req', skipped)
    BY <1>1, <1>3, QueueSame DEF QueuesArrived, TypeOK
  <2> QED  BY <1>5, <2>1 DEF BeginStep, QueuesArrived, Arrived
<1> QED  BY <1>3, <1>6, <1>7 DEF IInv, CursorOK, BeginStep, RequestsGood, RequestsStep

\* Moving the cursor or noting the tokens wanted leaves the invariant alone.
LEMMA CursorMoves ==
  ASSUME IInv, UNCHANGED <<req, running, waiting, skipped, batches, todo, drafts, free,
                           pause, resets>>,
         pc' \in {"running", "alloc"}, step' \in StepType, step'.skip = step.skip,
         pc' = "alloc" => step'.idx \in DOMAIN running
  PROVE  IInv'
BY DEF IInv, TypeOK, CursorOK, QueuesArrived, Arrived, RequestsGood

LEMMA SkipRunningIInv == IInv /\ SkipRunning => IInv'
<1> SUFFICES ASSUME IInv, SkipRunning  PROVE IInv'
  OBVIOUS
<1>1. step \in StepType /\ pc = "running"
  BY DEF IInv, TypeOK, SkipRunning
<1> DEFINE k == step.idx + 1
<1>2. k \in Nat \ {0}
  BY <1>1, StepFields
<1>3. step' = [step EXCEPT !.idx = k]
  BY DEF SkipRunning
<1> HIDE DEF k
<1>4. CursorAt(step, step', k)
  BY <1>1, <1>2, <1>3, SetStep
<1> QED  BY <1>1, <1>4, CursorMoves DEF SkipRunning, CursorAt

\* The request under the cursor.
LEMMA CursorRequest ==
  ASSUME IInv, step.idx <= Len(running)
  PROVE  /\ step.idx \in DOMAIN running /\ running[step.idx] \in Reqs
         /\ req[running[step.idx]] \in RequestType
         /\ req[running[step.idx]].status # "ABSENT"
<1>1. running \in Seq(Reqs) /\ step \in StepType /\ req \in [Reqs -> RequestType]
  BY DEF IInv, TypeOK
<1>2. step.idx \in 1 .. Len(running) /\ DOMAIN running = 1 .. Len(running)
  BY <1>1, StepFields, LenProperties
<1>3. running[step.idx] \in Reqs
  BY <1>1, <1>2, ElementOfSeq
<1> QED  BY <1>1, <1>2, <1>3 DEF IInv, QueuesArrived, Arrived

LEMMA ClippedType ==
  ASSUME step \in StepType, NEW q \in RequestType, NEW r
  PROVE  ClippedTokens(q, r) \in Int
<1> DEFINE new == q.num_tokens + q.spec + q.placeholders - q.num_computed
<1>1. new \in Int /\ new + 1 \in Int
  BY RequestFields
<1>2. RepairedTokens(q, r) \in Int
  <2> HIDE DEF new
  <2>1. RepairedTokens(q, r) \in {new, new + 1}
    BY DEF RepairedTokens, new
  <2> QED  BY <1>1, <2>1
<1>3. LimitChunk(RepairedTokens(q, r)) \in Int
  BY <1>2, ConfigAssumption DEF LimitChunk, Least
<1>4. /\ step.tokens \in Int /\ step.input - DraftSlots \in Int
      /\ MaxModelLen - q.num_computed - 1 \in Int
  BY StepFields, RequestFields, ConfigAssumption
<1> QED  BY <1>3, <1>4, LeastMost DEF ClippedTokens

LEMMA EncoderLimitedType ==
  ASSUME NEW n \in Int, NEW r, NEW c
  PROVE  EncoderLimited(r, c, n) \subseteq Int
BY DEF EncoderLimited

LEMMA ReserveType ==
  ASSUME NEW q \in RequestType, NEW c \in Int, NEW n \in Int
  PROVE  ReserveLookahead(q, c, n) \in Int
<1>1. q.num_tokens - c - n \in Int
  BY RequestFields
<1> QED  BY <1>1, ConfigAssumption DEF ReserveLookahead, Most

LEMMA PickRunningIInv == IInv /\ PickRunning => IInv'
<1> SUFFICES ASSUME IInv, PickRunning  PROVE IInv'
  OBVIOUS
<1> DEFINE r == running[step.idx]
           q == req[r]
<1>1. step \in StepType /\ step.idx \in Nat \ {0}
  BY StepFields DEF IInv, TypeOK
<1>2. step.idx \in DOMAIN running /\ r \in Reqs /\ q \in RequestType
  BY CursorRequest DEF PickRunning, InRunningPass
<1>3. PICK m \in EncoderLimited(r, q.num_computed, ClippedTokens(q, r)) :
        LET n == ReserveLookahead(q, q.num_computed, m)
            pad == MMDecodePad(q, r, n)
        IN  IF n = 0
            THEN step' = [step EXCEPT !.idx = @ + 1] /\ UNCHANGED pc
            ELSE /\ step' = [step EXCEPT !.want = IF pad THEN 1 + NumSpec ELSE n, !.pad = pad]
                 /\ pc' = "alloc"
  BY DEF PickRunning
<1> DEFINE n == ReserveLookahead(q, q.num_computed, m)
           pad == MMDecodePad(q, r, n)
           w == IF pad THEN 1 + NumSpec ELSE n
           k == step.idx + 1
<1>4. m \in Int /\ q.num_computed \in Int
  BY <1>1, <1>2, <1>3, ClippedType, EncoderLimitedType, RequestFields
<1>5. n \in Int
  BY <1>2, <1>4, ReserveType
<1>6. w \in Int /\ pad \in BOOLEAN /\ k \in Nat \ {0}
  BY <1>1, <1>5, ConfigAssumption DEF MMDecodePad
<1>7. CASE n = 0
  <2>1. step' = [step EXCEPT !.idx = k] /\ pc' = pc
    BY <1>3, <1>7
  <2> HIDE DEF k
  <2>2. CursorAt(step, step', k)
    BY <1>1, <1>6, <2>1, SetStep
  <2> QED  BY <2>1, <2>2, CursorMoves DEF PickRunning, CursorAt
<1>8. CASE n # 0
  <2>1. step' = [step EXCEPT !.want = w, !.pad = pad] /\ pc' = "alloc"
    BY <1>3, <1>8
  <2> HIDE DEF w, pad
  <2> DEFINE s1 == [step EXCEPT !.want = w]
             s2 == [s1 EXCEPT !.pad = pad]
  <2>2. step' = s2
    BY <2>1, Zenon
  <2>3. SameCursor(step, s1)
    BY <1>1, <1>6, SetStep
  <2> HIDE DEF s1
  <2>4. SameCursor(s1, s2)
    BY <1>6, <2>3, SetStep DEF SameCursor
  <2> QED  BY <1>2, <2>1, <2>2, <2>3, <2>4, CursorMoves DEF PickRunning, SameCursor
<1> QED  BY <1>7, <1>8

LEMMA ScheduleRunningIInv == IInv /\ ScheduleRunning => IInv'
<1> SUFFICES ASSUME IInv, ScheduleRunning  PROVE IInv'
  OBVIOUS
<1> DEFINE r == running[step.idx]
           q == req[r]
           m == Missing(r)
<1>1. /\ step \in StepType /\ step.idx \in Nat \ {0} /\ step.idx <= Len(running)
      /\ TypeOK /\ QueuesArrived /\ RequestsGood
  <2>1. step.idx \in DOMAIN running /\ running \in Seq(Reqs)
    BY DEF IInv, TypeOK, CursorOK, ScheduleRunning
  <2> QED  BY <2>1, StepFields, LenProperties DEF IInv, TypeOK
<1>2. r \in Reqs /\ q \in RequestType /\ q.status # "ABSENT"
  BY <1>1, CursorRequest
<1>3. q.blocks \in Nat /\ q.num_computed \in Int /\ step.want \in Int
  BY <1>1, <1>2, RequestFields, StepFields
<1>4. m \in Nat
  <2>1. q.num_computed + step.want + LookaheadFor(r, step.pad) \in Int
    BY <1>3, LookaheadType
  <2> QED  BY <1>3, <2>1, NeedType DEF Missing
<1>5. RequestsStep(req, req')
  <2> DEFINE b == q.blocks + m
             q1 == [q EXCEPT !.blocks = b]
             q2 == [q1 EXCEPT !.spec = 0]
  <2>1. req' = [req EXCEPT ![r] = Granted(q, m)]
    BY DEF ScheduleRunning
  <2>2. Granted(q, m) = q2
    BY Zenon DEF Granted
  <2>3. b \in Nat
    BY <1>3, <1>4
  <2> HIDE DEF b, m
  <2>4. Keeps(q, q1)
    BY <1>2, <2>3, SetField
  <2> HIDE DEF q1
  <2>5. Keeps(q1, q2)
    BY <2>4, SetField DEF Keeps
  <2>6. q2 \in RequestType /\ q2.status = q.status /\ Keeps(q, q2)
    BY <2>4, <2>5 DEF Keeps
  <2>7. Good(r, q2)
    BY <1>1, <1>2, <2>6, KeepsGood DEF RequestsGood
  <2> HIDE DEF q2
  <2>8. req' = [req EXCEPT ![r] = q2]
    BY <2>1, <2>2
  <2> QED  BY <1>2, <2>6, <2>7, <2>8, OneRequest
<1>6. step' \in StepType /\ step'.skip = step.skip
  <2> DEFINE x1 == step.idx + 1
             x2 == step.tokens - step.want
             x3 == step.input - step.want - DraftSlots
             x4 == step.prefill \/ q.is_chunk
             x5 == [step.n EXCEPT ![r] = step.want]
             x6 == [step.spec EXCEPT ![r] = DraftsScheduled(q)]
             s1 == [step EXCEPT !.idx = x1]
             s2 == [s1 EXCEPT !.want = 0]
             s3 == [s2 EXCEPT !.pad = FALSE]
             s4 == [s3 EXCEPT !.n = x5]
             s5 == [s4 EXCEPT !.spec = x6]
             s6 == [s5 EXCEPT !.tokens = x2]
             s7 == [s6 EXCEPT !.input = x3]
             s8 == [s7 EXCEPT !.prefill = x4]
  <2>1. DraftsScheduled(q) \in Int
    <3> DEFINE rows == step.want + q.num_computed - q.num_tokens - q.placeholders
    <3>1. rows \in Int /\ q.spec \in Int /\ NumSpec \in Int
      BY <1>2, <1>3, RequestFields, ConfigAssumption
    <3>2. DraftsScheduled(q) \in {Least(q.spec, rows), NumSpec, 0}
      BY DEF DraftsScheduled
    <3> HIDE DEF rows
    <3>3. Least(q.spec, rows) \in Int
      BY <3>1, LeastMost
    <3> QED  BY <3>1, <3>2, <3>3
  <2>2. /\ x1 \in Nat \ {0} /\ x2 \in Int /\ x3 \in Int /\ x4 \in BOOLEAN
        /\ x5 \in [Reqs -> Int] /\ x6 \in [Reqs -> Int]
    <3>1. x1 \in Nat \ {0} /\ x2 \in Int /\ x3 \in Int
      BY <1>1, <1>3, StepFields, ConfigAssumption
    <3>2. x4 \in BOOLEAN
      OBVIOUS
    <3>3. step.n \in [Reqs -> Int] /\ step.spec \in [Reqs -> Int]
      BY <1>1, StepFields
    <3> DEFINE d == DraftsScheduled(q)
    <3> HIDE DEF r, d
    <3>4. x5 \in [Reqs -> Int] /\ [step.spec EXCEPT ![r] = d] \in [Reqs -> Int]
      BY <1>3, <2>1, <3>3 DEF d
    <3> QED  BY <3>1, <3>2, <3>4 DEF d
  <2>3. step' = s8
    <3>1. step' = [step EXCEPT !.idx = x1, !.want = 0, !.pad = FALSE, !.n = x5, !.spec = x6,
                               !.tokens = x2, !.input = x3, !.prefill = x4]
      BY DEF ScheduleRunning
    <3> HIDE DEF x1, x2, x3, x4, x5, x6
    <3> QED  BY <3>1, Zenon
  <2> HIDE DEF x1, x2, x3, x4, x5, x6
  <2>4. CursorAt(step, s1, x1)  BY <1>1, <2>2, SetStep
  <2> HIDE DEF s1
  <2>5. SameCursor(s1, s2)
    <3>1. s1 \in StepType
      BY <2>4 DEF CursorAt
    <3>2. \A x \in Int : SameCursor(s1, [s1 EXCEPT !.want = x])
      BY <3>1, SetStep
    <3> QED  BY <3>2
  <2> HIDE DEF s2
  <2>6. SameCursor(s2, s3)
    <3>1. s2 \in StepType
      BY <2>5 DEF SameCursor
    <3>2. \A x \in BOOLEAN : SameCursor(s2, [s2 EXCEPT !.pad = x])
      BY <3>1, SetStep
    <3> QED  BY <3>2
  <2> HIDE DEF s3
  <2>7. SameCursor(s3, s4)  BY <2>2, <2>6, SetStep DEF SameCursor
  <2> HIDE DEF s4
  <2>8. SameCursor(s4, s5)  BY <2>2, <2>7, SetStep DEF SameCursor
  <2> HIDE DEF s5
  <2>9. SameCursor(s5, s6)  BY <2>2, <2>8, SetStep DEF SameCursor
  <2> HIDE DEF s6
  <2>10. SameCursor(s6, s7)  BY <2>2, <2>9, SetStep DEF SameCursor
  <2> HIDE DEF s7
  <2>11. SameCursor(s7, s8)  BY <2>2, <2>10, SetStep DEF SameCursor
  <2> HIDE DEF s8
  <2> QED  BY <2>3, <2>4, <2>5, <2>6, <2>7, <2>8, <2>9, <2>10, <2>11 DEF SameCursor, CursorAt
<1>7. free' \in Int
  <2>1. free' = free - m
    BY DEF ScheduleRunning
  <2> HIDE DEF m
  <2> QED  BY <1>1, <1>4, <2>1 DEF TypeOK
<1>8. TypeOK'
  BY <1>1, <1>5, <1>6, <1>7 DEF ScheduleRunning, TypeOK, RequestsStep
<1>9. QueuesArrived'
  <2>1. /\ Arrived(req', running) /\ Arrived(req', waiting)
        /\ Arrived(req', skipped) /\ Arrived(req', step.skip)
    BY <1>1, <1>5, QueueSame, StepFields DEF QueuesArrived, TypeOK
  <2> QED  BY <1>6, <2>1 DEF ScheduleRunning, QueuesArrived
<1> QED  BY <1>5, <1>8, <1>9 DEF ScheduleRunning, IInv, CursorOK, RequestsGood, RequestsStep

\* _preempt_request, for any request that has been added.
LEMMA PreemptFacts ==
  ASSUME IInv, NEW v \in Reqs, req[v].status # "ABSENT", NEW drop \in BOOLEAN,
         Preempt(v, drop)
  PROVE  /\ RequestsStep(req, req')
         /\ waiting' \in Seq(Reqs) /\ Arrived(req', waiting')
         /\ free' \in Int
         /\ batches' \in Seq(BatchType) /\ (batches # <<>> => batches' # <<>>)
<1>1. TypeOK /\ QueuesArrived /\ RequestsGood
  BY DEF IInv
<1>2. req[v] \in RequestType
  BY <1>1 DEF TypeOK
<1> DEFINE p == PreemptedReq(req[v], drop)
<1>3. p \in RequestType /\ p.status = "PREEMPTED" /\ p.num_tokens = req[v].num_tokens
  BY <1>2, PreemptedType
<1>4. req' = [req EXCEPT ![v] = p]
  BY DEF Preempt
<1> HIDE DEF p
<1>5. Good(v, p)
  BY <1>1, <1>3 DEF Good, RequestsGood
<1>6. RequestsStep(req, req')
  BY <1>3, <1>4, <1>5, OneRequest
<1>7. req'[v].status # "ABSENT"
  BY <1>1, <1>3, <1>4 DEF TypeOK
<1>8. waiting' = PrependTo(waiting, v) /\ waiting \in Seq(Reqs) /\ Arrived(req, waiting)
  BY <1>1 DEF Preempt, TypeOK, QueuesArrived
<1>9. waiting' \in Seq(Reqs) /\ Arrived(req', waiting')
  <2> DEFINE w == PrependTo(waiting, v)
  <2>1. /\ w \in Seq(Reqs)
        /\ \A j \in DOMAIN w : w[j] = v \/ \E k \in DOMAIN waiting : w[j] = waiting[k]
    BY <1>8, PrependSeq
  <2>2. waiting' = w
    BY <1>8
  <2> HIDE DEF w
  <2>3. Arrived(req', w)
    BY <1>6, <1>7, <1>8, <2>1, QueueGrown
  <2> QED  BY <2>1, <2>2, <2>3
<1>10. free' \in Int
  BY <1>1, <1>2, RequestFields DEF Preempt, TypeOK
<1>11. batches' \in Seq(BatchType) /\ (batches # <<>> => batches' # <<>>)
  BY <1>1, MarkOldType DEF Preempt, TypeOK
<1> QED  BY <1>6, <1>9, <1>10, <1>11

\* Taking the victim out of the step.
LEMMA WithoutVictimFacts ==
  ASSUME step \in StepType, NEW v \in Reqs, NEW i \in Nat \ {0}
  PROVE  /\ StepWithoutVictim(v, i) \in StepType
         /\ StepWithoutVictim(v, i).skip = step.skip
         /\ StepWithoutVictim(v, i).idx = IF i < step.idx THEN step.idx - 1 ELSE step.idx
<1> DEFINE x1 == IF i < step.idx THEN step.idx - 1 ELSE step.idx
           x2 == [step.n EXCEPT ![v] = 0]
           x3 == [step.spec EXCEPT ![v] = 0]
           x4 == step.tokens + step.n[v]
           x5 == IF step.n[v] > 0 THEN step.input + step.n[v] + DraftSlots ELSE step.input
           s1 == [step EXCEPT !.preempted = TRUE]
           s2 == [s1 EXCEPT !.idx = x1]
           s3 == [s2 EXCEPT !.n = x2]
           s4 == [s3 EXCEPT !.spec = x3]
           s5 == [s4 EXCEPT !.tokens = x4]
           s6 == [s5 EXCEPT !.input = x5]
<1>1. step.idx \in Nat \ {0} /\ step.n \in [Reqs -> Int] /\ step.spec \in [Reqs -> Int]
      /\ step.tokens \in Int /\ step.input \in Int
  BY StepFields
<1>2. x1 \in Nat \ {0}
  BY <1>1
<1>3. x2 \in [Reqs -> Int] /\ x3 \in [Reqs -> Int]
  BY <1>1
<1>4. x4 \in Int /\ x5 \in Int
  BY <1>1, ConfigAssumption
<1>5. StepWithoutVictim(v, i) = s6
  <2>1. StepWithoutVictim(v, i)
          = [step EXCEPT !.preempted = TRUE, !.idx = x1, !.n = x2, !.spec = x3,
                         !.tokens = x4, !.input = x5]
    BY DEF StepWithoutVictim
  <2> HIDE DEF x1, x2, x3, x4, x5
  <2> QED  BY <2>1, Zenon
<1> HIDE DEF x1, x2, x3, x4, x5
<1>6. SameCursor(step, s1)  BY SetStep
<1> HIDE DEF s1
<1>7. CursorAt(s1, s2, x1)  BY <1>2, <1>6, SetStep DEF SameCursor
<1> HIDE DEF s2
<1>8. SameCursor(s2, s3)  BY <1>3, <1>7, SetStep DEF CursorAt
<1> HIDE DEF s3
<1>9. SameCursor(s3, s4)  BY <1>3, <1>8, SetStep DEF SameCursor
<1> HIDE DEF s4
<1>10. SameCursor(s4, s5)  BY <1>4, <1>9, SetStep DEF SameCursor
<1> HIDE DEF s5
<1>11. SameCursor(s5, s6)  BY <1>4, <1>10, SetStep DEF SameCursor
<1> HIDE DEF s6
<1>12. StepWithoutVictim(v, i) \in StepType /\ StepWithoutVictim(v, i).skip = step.skip
       /\ StepWithoutVictim(v, i).idx = x1
  BY <1>5, <1>6, <1>7, <1>8, <1>9, <1>10, <1>11 DEF SameCursor, CursorAt
<1> QED  BY <1>12 DEF x1

LEMMA PreemptVictimIInv == IInv /\ PreemptVictim => IInv'
<1> SUFFICES ASSUME IInv, PreemptVictim  PROVE IInv'
  OBVIOUS
<1>1. TypeOK /\ QueuesArrived /\ step.idx \in DOMAIN running /\ batches \in Seq(BatchType)
  BY DEF IInv, CursorOK, TypeOK, PreemptVictim
<1>2. step \in StepType /\ running \in Seq(Reqs)
  BY <1>1 DEF TypeOK
<1>3. PICK i \in DOMAIN running :
        /\ running' = RemoveIndex(running, i)
        /\ Preempt(running[i], DropStale)
        /\ IF i = step.idx
           THEN /\ pc' = "finish"
                /\ step' = [StepWithoutVictim(running[i], i) EXCEPT !.want = 0, !.pad = FALSE]
           ELSE pc' = pc /\ step' = StepWithoutVictim(running[i], i)
  BY DEF PreemptVictim
<1> DEFINE v == running[i]
           t == StepWithoutVictim(v, i)
<1>4. i \in 1 .. Len(running) /\ i \in Nat \ {0} /\ Len(running) \in Nat
      /\ DOMAIN running = 1 .. Len(running)
  BY <1>2, LenProperties
<1>5. v \in Reqs /\ req[v].status # "ABSENT"
  BY <1>1, <1>2, <1>4, ElementOfSeq DEF QueuesArrived, Arrived
<1>6. /\ RequestsStep(req, req')
      /\ waiting' \in Seq(Reqs) /\ Arrived(req', waiting')
      /\ free' \in Int
      /\ batches' \in Seq(BatchType)
  <2>1. PICK drop \in BOOLEAN : Preempt(v, drop)
    BY <1>3, ConfigAssumption
  <2> HIDE DEF v
  <2> QED  BY <1>5, <2>1, PreemptFacts
<1>7. running' \in Seq(Reqs) /\ Arrived(req', running')
  <2> DEFINE p == RemoveIndex(running, i)
  <2>1. p \in Seq(Reqs) /\ \A j \in DOMAIN p : \E k \in DOMAIN running : p[j] = running[k]
    <3>1. running \in Seq(Reqs) /\ i \in 1 .. Len(running)
      BY <1>2, <1>4
    <3> QED  BY <3>1, RemoveIndexSeq, ZenonT(60)
  <2>2. running' = p
    BY <1>3
  <2> HIDE DEF p
  <2>3. Arrived(req', p)
    BY <1>1, <1>2, <1>6, <2>1, QueueKept DEF QueuesArrived
  <2> QED  BY <2>1, <2>2, <2>3
<1>8. /\ t \in StepType /\ t.skip = step.skip
      /\ t.idx = IF i < step.idx THEN step.idx - 1 ELSE step.idx
  BY <1>2, <1>4, <1>5, WithoutVictimFacts
<1>9. step' \in StepType /\ step'.skip = step.skip
      /\ (pc' = "alloc" => step'.idx \in DOMAIN running')
  <2>1. CASE i = step.idx
    <3> DEFINE s1 == [t EXCEPT !.want = 0]
               s2 == [s1 EXCEPT !.pad = FALSE]
    <3>1. step' = s2 /\ pc' = "finish"
      <4> HIDE DEF t
      <4>1. [t EXCEPT !.want = 0, !.pad = FALSE] = s2
        BY Zenon
      <4> QED  BY <1>3, <2>1, <4>1 DEF t
    <3>2. t \in StepType /\ t.skip = step.skip
      BY <1>8
    <3> HIDE DEF t, v
    <3>3. SameCursor(t, s1)
      <4>1. t \in StepType
        BY <3>2
      <4>2. \A z \in Int : SameCursor(t, [t EXCEPT !.want = z])
        BY <4>1, SetStep
      <4> QED  BY <4>2
    <3> HIDE DEF s1
    <3>4. SameCursor(s1, s2)  BY <3>3, SetStep DEF SameCursor
    <3> HIDE DEF s2
    <3> QED  BY <3>1, <3>2, <3>3, <3>4 DEF SameCursor
  <2>2. CASE i # step.idx
    <3>1. step' = t
      BY <1>3, <2>2
    <3>2. DOMAIN running' = 1 .. Len(running) - 1
      BY <1>3 DEF RemoveIndex
    <3> HIDE DEF t
    <3>3. t.idx \in 1 .. Len(running) - 1
      <4>1. step.idx \in 1 .. Len(running)
        BY <1>1, <1>4
      <4> QED  BY <1>4, <1>8, <2>2, <4>1
    <3> QED  BY <1>8, <3>1, <3>2, <3>3
  <2> QED  BY <2>1, <2>2
<1>10. pc' \in {"alloc", "finish"}
  BY <1>3 DEF PreemptVictim
<1>11. TypeOK'
  BY <1>1, <1>6, <1>7, <1>9, <1>10 DEF PreemptVictim, TypeOK, RequestsStep
<1>12. QueuesArrived'
  <2>1. Arrived(req', skipped) /\ Arrived(req', step.skip)
    BY <1>1, <1>2, <1>6, QueueSame, StepFields DEF QueuesArrived, TypeOK
  <2> QED  BY <1>6, <1>7, <1>9, <2>1 DEF PreemptVictim, QueuesArrived
<1>13. CursorOK'
  BY <1>9, <1>10 DEF CursorOK
<1> QED  BY <1>6, <1>11, <1>12, <1>13 DEF IInv, RequestsGood, RequestsStep

LEMMA ResetOneIInv == IInv /\ ResetOne => IInv'
<1> SUFFICES ASSUME IInv, ResetOne  PROVE IInv'
  OBVIOUS
<1>1. TypeOK /\ QueuesArrived /\ running \in Seq(Reqs) /\ running # <<>> /\ step \in StepType
  BY DEF IInv, TypeOK, ResetOne
<1> DEFINE i == Len(running)
           v == running[i]
           p == RemoveIndex(running, i)
<1>2. i \in 1 .. Len(running) /\ DOMAIN running = 1 .. Len(running)
  BY <1>1, EmptySeq, LenProperties
<1>3. v \in Reqs /\ req[v].status # "ABSENT"
  BY <1>1, <1>2, ElementOfSeq DEF QueuesArrived, Arrived
<1>4. /\ RequestsStep(req, req')
      /\ waiting' \in Seq(Reqs) /\ Arrived(req', waiting')
      /\ free' \in Int
      /\ batches' \in Seq(BatchType)
  <2>1. PICK drop \in BOOLEAN : Preempt(v, drop)
    BY DEF ResetOne
  <2> HIDE DEF v
  <2> QED  BY <1>3, <2>1, PreemptFacts
<1>5. running' \in Seq(Reqs) /\ Arrived(req', running')
  <2>1. p \in Seq(Reqs) /\ \A j \in DOMAIN p : \E k \in DOMAIN running : p[j] = running[k]
    <3> HIDE DEF i
    <3> QED  BY <1>1, <1>2, RemoveIndexSeq, ZenonT(60)
  <2>2. running' = p
    BY DEF ResetOne
  <2> HIDE DEF p
  <2>3. Arrived(req', p)
    BY <1>1, <1>4, <2>1, QueueKept DEF QueuesArrived
  <2> QED  BY <2>1, <2>2, <2>3
<1>6. TypeOK'
  BY <1>1, <1>4, <1>5 DEF ResetOne, TypeOK, RequestsStep
<1>7. QueuesArrived'
  <2>1. Arrived(req', skipped) /\ Arrived(req', step.skip)
    BY <1>1, <1>4, QueueSame, StepFields DEF QueuesArrived, TypeOK
  <2> QED  BY <1>4, <1>5, <2>1 DEF ResetOne, QueuesArrived
<1> QED  BY <1>4, <1>6, <1>7 DEF ResetOne, CursorOK, IInv, RequestsGood, RequestsStep

\* _select_waiting_queue_for_scheduling finds a request, and popping it keeps the rest.
LEMMA CandidateFacts ==
  ASSUME IInv, InWaitingPass
  PROVE  /\ Candidate \in Reqs /\ req[Candidate].status # "ABSENT"
         /\ PopCandidate =>
              /\ waiting' \in Seq(Reqs) /\ skipped' \in Seq(Reqs)
              /\ \A j \in DOMAIN waiting' : \E k \in DOMAIN waiting : waiting'[j] = waiting[k]
              /\ \A j \in DOMAIN skipped' : \E k \in DOMAIN skipped : skipped'[j] = skipped[k]
<1>1. waiting \in Seq(Reqs) /\ skipped \in Seq(Reqs)
      /\ Arrived(req, waiting) /\ Arrived(req, skipped)
  BY DEF IInv, TypeOK, QueuesArrived
<1>2. CASE FromSkipped
  <2>1. skipped # <<>>
    BY <1>2 DEF FromSkipped
  <2>2. /\ Head(skipped) \in Reqs /\ req[Head(skipped)].status # "ABSENT"
        /\ Tail(skipped) \in Seq(Reqs)
        /\ \A j \in DOMAIN Tail(skipped) : \E k \in DOMAIN skipped : Tail(skipped)[j] = skipped[k]
    BY <1>1, <2>1, HeadKept
  <2>3. Candidate = Head(skipped)
    BY <1>2 DEF Candidate
  <2>4. PopCandidate => waiting' = waiting /\ skipped' = Tail(skipped)
    BY <1>2 DEF PopCandidate
  <2> QED  BY <1>1, <2>2, <2>3, <2>4
<1>3. CASE ~FromSkipped
  <2>1. waiting # <<>>
    BY <1>3 DEF FromSkipped, InWaitingPass
  <2>2. /\ Head(waiting) \in Reqs /\ req[Head(waiting)].status # "ABSENT"
        /\ Tail(waiting) \in Seq(Reqs)
        /\ \A j \in DOMAIN Tail(waiting) : \E k \in DOMAIN waiting : Tail(waiting)[j] = waiting[k]
    BY <1>1, <2>1, HeadKept
  <2>3. Candidate = Head(waiting)
    BY <1>3 DEF Candidate
  <2>4. PopCandidate => waiting' = Tail(waiting) /\ skipped' = skipped
    BY <1>3 DEF PopCandidate
  <2> QED  BY <1>1, <2>2, <2>3, <2>4
<1> QED  BY <1>2, <1>3

LEMMA SkipStaleIInv == IInv /\ SkipStale => IInv'
<1> SUFFICES ASSUME IInv, SkipStale  PROVE IInv'
  OBVIOUS
<1>1. TypeOK /\ QueuesArrived /\ step \in StepType /\ step.skip \in Seq(Reqs)
      /\ Arrived(req, step.skip)
  BY StepFields DEF IInv, TypeOK, QueuesArrived
<1>2. Candidate \in Reqs /\ req[Candidate].status # "ABSENT"
      /\ waiting' \in Seq(Reqs) /\ skipped' \in Seq(Reqs)
      /\ (\A j \in DOMAIN waiting' : \E k \in DOMAIN waiting : waiting'[j] = waiting[k])
      /\ (\A j \in DOMAIN skipped' : \E k \in DOMAIN skipped : skipped'[j] = skipped[k])
  BY CandidateFacts DEF SkipStale
<1>3. RequestsStep(req, req)
  BY SameRequests
<1> DEFINE c == Candidate
           p == Append(step.skip, c)
<1>4. p \in Seq(Reqs) /\ \A j \in DOMAIN p : p[j] = c \/ \E k \in DOMAIN step.skip : p[j] = step.skip[k]
  <2> HIDE DEF c
  <2>1. p \in Seq(Reqs) /\ Len(p) = Len(step.skip) + 1
        /\ \A j \in 1 .. Len(step.skip) + 1 :
             p[j] = IF j = Len(step.skip) + 1 THEN c ELSE step.skip[j]
    BY <1>1, <1>2 DEF c
  <2>2. /\ Len(step.skip) \in Nat /\ DOMAIN step.skip = 1 .. Len(step.skip)
        /\ DOMAIN p = 1 .. Len(step.skip) + 1
    BY <1>1, <2>1, LenProperties
  <2> QED  BY <2>1, <2>2
<1>5. Arrived(req, p)
  <2>1. req[c].status # "ABSENT"
    BY <1>2
  <2> HIDE DEF p, c
  <2> QED  BY <1>1, <1>4, <2>1 DEF Arrived
<1>6. step' = [step EXCEPT !.skip = p]
  BY Zenon DEF SkipStale
<1> HIDE DEF p
<1>7. SkipIs(step, step', p)
  BY <1>1, <1>4, <1>6, SetStep
<1>8. Arrived(req, waiting') /\ Arrived(req, skipped')
  BY <1>1, <1>2, <1>3, QueueKept DEF QueuesArrived, TypeOK
<1>9. TypeOK'
  BY <1>1, <1>2, <1>7 DEF SkipStale, TypeOK, SkipIs
<1> QED  BY <1>1, <1>5, <1>7, <1>8, <1>9
         DEF SkipStale, IInv, CursorOK, QueuesArrived, RequestsGood, SkipIs

LEMMA AdmissionType ==
  ASSUME step \in StepType, NEW r, req[r] \in RequestType, NEW hit \in Nat
  PROVE  AdmissionTokens(r, hit) \in Int
<1>1. AdmissionBudget \in Int
  <2>1. step.tokens \in Int /\ step.input - DraftSlots \in Int
    BY StepFields, ConfigAssumption
  <2> QED  BY <2>1, LeastMost DEF AdmissionBudget
<1>2. req[r].num_tokens - hit \in Int /\ 1 + NumSpec \in Int
  BY RequestFields, ConfigAssumption
<1>3. ASSUME NEW n \in Int
      PROVE  LimitChunk(n) \in Int
  BY ConfigAssumption DEF LimitChunk, Least
<1>4. Least(LimitChunk(req[r].num_tokens - hit), AdmissionBudget) \in Int
  <2>1. LimitChunk(req[r].num_tokens - hit) \in Int
    BY <1>2, <1>3
  <2> QED  BY <1>1, <2>1, LeastMost
<1>5. LimitChunk(1 + NumSpec) \in Int
  BY <1>2, <1>3
<1> QED  BY <1>4, <1>5 DEF AdmissionTokens

LEMMA AdmittedFacts ==
  ASSUME NEW q \in RequestType, NEW hit \in Nat, NEW n \in Nat
  PROVE  /\ Admitted(q, hit, n) \in RequestType
         /\ Admitted(q, hit, n).status = "RUNNING"
         /\ Admitted(q, hit, n).num_tokens = q.num_tokens
         /\ Admitted(q, hit, n).stale = q.stale
         /\ Admitted(q, hit, n).drop = q.drop
<1> DEFINE b == q.blocks + n
           q1 == [q EXCEPT !.status = "RUNNING"]
           q2 == [q1 EXCEPT !.num_computed = hit]
           q3 == [q2 EXCEPT !.blocks = b]
<1>1. b \in Nat /\ hit \in Int /\ "RUNNING" \in Statuses
  BY RequestFields DEF Statuses
<1>2. Admitted(q, hit, n) = q3
  BY Zenon DEF Admitted
<1> HIDE DEF b
<1>3. /\ q1 \in RequestType /\ q1.status = "RUNNING" /\ q1.num_tokens = q.num_tokens
      /\ q1.stale = q.stale /\ q1.drop = q.drop
  BY <1>1, SetWatched
<1> HIDE DEF q1
<1>4. Keeps(q1, q2)  BY <1>1, <1>3, SetField
<1> HIDE DEF q2
<1>5. Keeps(q2, q3)  BY <1>1, <1>4, SetField DEF Keeps
<1> HIDE DEF q3
<1> QED  BY <1>2, <1>3, <1>4, <1>5 DEF Keeps

LEMMA TryAdmitIInv == IInv /\ TryAdmit => IInv'
<1> SUFFICES ASSUME IInv, TryAdmit  PROVE IInv'
  OBVIOUS
<1> DEFINE r == Candidate
           q == req[r]
<1>1. TypeOK /\ QueuesArrived /\ RequestsGood /\ step \in StepType
  BY DEF IInv, TypeOK
<1>2. r \in Reqs /\ q.status # "ABSENT" /\ q \in RequestType
  BY <1>1, CandidateFacts DEF TryAdmit, TypeOK
<1>3. PICK hit \in HitLengths(r) :
         \E m \in EncoderLimited(r, hit, AdmissionTokens(r, hit)) :
           LET n == ReserveLookahead(q, hit, m)
           IN  IF n = 0 \/ BlocksToAdmit(r, hit + n + LookaheadFor(r, FALSE)) > free
               THEN StopWaitingPass
               ELSE Admit(r, hit, n, PadNewDecode(r, hit))
  BY DEF TryAdmit
<1>4. PICK m \in EncoderLimited(r, hit, AdmissionTokens(r, hit)) :
        LET n == ReserveLookahead(q, hit, m)
        IN  IF n = 0 \/ BlocksToAdmit(r, hit + n + LookaheadFor(r, FALSE)) > free
            THEN StopWaitingPass
            ELSE Admit(r, hit, n, PadNewDecode(r, hit))
  BY <1>3
<1> DEFINE n == ReserveLookahead(q, hit, m)
           pad == PadNewDecode(r, hit)
           upto == hit + n + LookaheadFor(r, FALSE)
           blocks == Need(r, upto)
<1>5. hit \in Nat
  BY ConfigAssumption DEF HitLengths
<1>6. m \in Int
  BY <1>1, <1>2, <1>5, AdmissionType, EncoderLimitedType
<1>7. n \in Int
  BY <1>2, <1>5, <1>6, ReserveType
<1>8. blocks \in Nat
  <2>1. upto \in Int
    <3> DEFINE l == LookaheadFor(r, FALSE)
    <3>1. l \in Int
      BY ConfigAssumption DEF LookaheadFor
    <3> HIDE DEF n, l
    <3>2. hit + n + l \in Int
      BY <1>5, <1>7, <3>1
    <3> QED  BY <3>2 DEF l
  <2>2. q.blocks \in Nat
    BY <1>2, RequestFields
  <2> HIDE DEF upto
  <2> QED  BY <2>1, <2>2, NeedType
<1>9. CASE StopWaitingPass
  <2>1. pc' = "finish" /\ UNCHANGED <<req, running, waiting, skipped, step, free>>
    BY <1>9 DEF StopWaitingPass
  <2> QED  BY <1>1, <2>1
           DEF TryAdmit, IInv, TypeOK, CursorOK, QueuesArrived, RequestsGood
<1>10. CASE Admit(r, hit, n, pad)
  <2> DEFINE p == Admitted(q, hit, blocks)
  <2>1. /\ p \in RequestType /\ p.status = "RUNNING" /\ p.num_tokens = q.num_tokens
    BY <1>2, <1>5, <1>8, AdmittedFacts
  <2>2. req' = [req EXCEPT ![r] = p] /\ free' = free - blocks
    BY <1>10 DEF Admit
  <2>3. Good(r, p)
    <3>1. q.num_tokens < Limit(r)
      BY <1>1, <1>2 DEF RequestsGood, Good
    <3> HIDE DEF p, q
    <3> QED  BY <2>1, <3>1 DEF Good
  <2>4. RequestsStep(req, req') /\ req'[r].status # "ABSENT"
    <3>1. RequestsStep(req, req')
      <4> HIDE DEF p, r
      <4> QED  BY <1>2, <2>1, <2>2, <2>3, OneRequest
    <3> QED  BY <1>2, <3>1 DEF RequestsStep
  <2>5. /\ waiting' \in Seq(Reqs) /\ skipped' \in Seq(Reqs)
        /\ Arrived(req', waiting') /\ Arrived(req', skipped')
    <3>1. PopCandidate
      BY <1>10 DEF Admit
    <3>2. /\ waiting' \in Seq(Reqs) /\ skipped' \in Seq(Reqs)
          /\ \A j \in DOMAIN waiting' : \E k \in DOMAIN waiting : waiting'[j] = waiting[k]
          /\ \A j \in DOMAIN skipped' : \E k \in DOMAIN skipped : skipped'[j] = skipped[k]
      BY <3>1, CandidateFacts DEF TryAdmit
    <3> QED  BY <1>1, <2>4, <3>2, QueueKept DEF QueuesArrived, TypeOK
  <2>6. running' \in Seq(Reqs) /\ Arrived(req', running')
    <3>1. running' = Append(running, r) /\ running \in Seq(Reqs) /\ Arrived(req, running)
      BY <1>1, <1>10 DEF Admit, TypeOK, QueuesArrived
    <3> HIDE DEF r
    <3>2. /\ running' \in Seq(Reqs) /\ Len(running') = Len(running) + 1
          /\ \A j \in 1 .. Len(running) + 1 :
               running'[j] = IF j = Len(running) + 1 THEN r ELSE running[j]
      BY <1>2, <3>1
    <3>3. Len(running) \in Nat /\ DOMAIN running = 1 .. Len(running)
          /\ DOMAIN running' = 1 .. Len(running) + 1
      BY <3>1, <3>2, LenProperties
    <3>4. Arrived(req', running)
      BY <2>4, <3>1, QueueSame
    <3> QED  BY <2>4, <3>2, <3>3, <3>4 DEF Arrived
  <2>7. step' \in StepType /\ step'.skip = step.skip
    <3> DEFINE x1 == [step.n EXCEPT ![r] = n]
               x2 == [step.spec EXCEPT ![r] = IF pad THEN NumSpec ELSE 0]
               x3 == step.fresh \cup {r}
               x4 == step.tokens - n
               x5 == step.input - n - DraftSlots
               s1 == [step EXCEPT !.n = x1]
               s2 == [s1 EXCEPT !.spec = x2]
               s3 == [s2 EXCEPT !.fresh = x3]
               s4 == [s3 EXCEPT !.tokens = x4]
               s5 == [s4 EXCEPT !.input = x5]
    <3>1. step' = [step EXCEPT !.n = x1, !.spec = x2, !.fresh = x3, !.tokens = x4, !.input = x5]
      BY <1>10 DEF Admit
    <3>2. /\ step.n \in [Reqs -> Int] /\ step.spec \in [Reqs -> Int]
          /\ step.fresh \in SUBSET Reqs /\ step.tokens \in Int /\ step.input \in Int
      BY <1>1, StepFields
    <3>3. x1 \in [Reqs -> Int] /\ x2 \in [Reqs -> Int]
      <4> DEFINE d == IF pad THEN NumSpec ELSE 0
      <4>1. d \in Int
        BY ConfigAssumption
      <4> HIDE DEF r, n, d
      <4>2. x1 \in [Reqs -> Int] /\ [step.spec EXCEPT ![r] = d] \in [Reqs -> Int]
        BY <1>7, <3>2, <4>1
      <4> QED  BY <4>2 DEF d
    <3>4. x3 \in SUBSET Reqs
      BY <1>2, <3>2
    <3>5. x4 \in Int /\ x5 \in Int
      <4> HIDE DEF n
      <4> QED  BY <1>7, <3>2, ConfigAssumption
    <3>6. step' = s5
      <4> HIDE DEF x1, x2, x3, x4, x5
      <4> QED  BY <3>1, Zenon
    <3> HIDE DEF x1, x2, x3, x4, x5
    <3>7. SameCursor(step, s1)  BY <1>1, <3>3, SetStep
    <3> HIDE DEF s1
    <3>8. SameCursor(s1, s2)  BY <3>3, <3>7, SetStep DEF SameCursor
    <3> HIDE DEF s2
    <3>9. SameCursor(s2, s3)  BY <3>4, <3>8, SetStep DEF SameCursor
    <3> HIDE DEF s3
    <3>10. SameCursor(s3, s4)  BY <3>5, <3>9, SetStep DEF SameCursor
    <3> HIDE DEF s4
    <3>11. SameCursor(s4, s5)  BY <3>5, <3>10, SetStep DEF SameCursor
    <3> HIDE DEF s5
    <3> QED  BY <3>6, <3>7, <3>8, <3>9, <3>10, <3>11 DEF SameCursor
  <2>8. free' \in Int /\ pc' = "waiting"
    <3>1. pc' = pc /\ pc = "waiting"
      BY <1>10 DEF Admit, TryAdmit
    <3> HIDE DEF blocks
    <3> QED  BY <1>1, <1>8, <2>2, <3>1 DEF TypeOK
  <2>9. TypeOK'
    BY <1>1, <2>4, <2>5, <2>6, <2>7, <2>8 DEF TryAdmit, TypeOK, RequestsStep
  <2>10. Arrived(req', step'.skip)
    BY <1>1, <2>4, <2>7, QueueSame, StepFields DEF QueuesArrived
  <2> QED  BY <2>4, <2>5, <2>6, <2>8, <2>9, <2>10
           DEF IInv, CursorOK, QueuesArrived, RequestsGood, RequestsStep
<1> QED  BY <1>4, <1>9, <1>10

LEMMA FinishStepIInv == IInv /\ FinishStep => IInv'
<1> SUFFICES ASSUME IInv, FinishStep  PROVE IInv'
  OBVIOUS
<1>1. TypeOK /\ QueuesArrived /\ RequestsGood /\ step \in StepType /\ step.skip \in Seq(Reqs)
  BY StepFields DEF IInv, TypeOK
<1>2. /\ step.n \in [Reqs -> Int] /\ step.spec \in [Reqs -> Int] /\ step.fresh \in SUBSET Reqs
      /\ ScheduledNow \in SUBSET Reqs
  BY <1>1, StepFields DEF ScheduledNow
<1>3. ASSUME NEW r \in Reqs
      PROVE  Keeps(req[r], req'[r])
  <2>1. req[r] \in RequestType
    BY <1>1 DEF TypeOK
  <2>2. req'[r] = IF r \in ScheduledNow THEN Advanced(req[r], step.n[r], step.spec[r]) ELSE req[r]
    BY DEF FinishStep
  <2>3. Keeps(req[r], Advanced(req[r], step.n[r], step.spec[r]))
    BY <1>2, <2>1, AdvancedType
  <2> QED  BY <2>1, <2>2, <2>3 DEF Keeps
<1>4. RequestsStep(req, req')
  <2>1. req' \in [Reqs -> RequestType]
    <3>1. req' = [r \in Reqs |-> req'[r]]
      BY DEF FinishStep
    <3> QED  BY <1>3, <3>1 DEF Keeps
  <2> QED  BY <1>1, <1>3, <2>1, KeepsGood DEF RequestsStep, RequestsGood, Keeps
<1>5. NewBatch \in BatchType
  <2> DEFINE x1 == [r \in Reqs |-> IF r \in step.fresh THEN req[r].num_computed ELSE 0]
             x2 == {r \in ScheduledNow : ~Advanced(req[r], step.n[r], step.spec[r]).is_chunk}
  <2>1. x1 \in [Reqs -> Int]
    <3>1. \A r \in Reqs : req[r].num_computed \in Int
      BY <1>1, RequestFields DEF TypeOK
    <3> QED  BY <3>1
  <2>2. x2 \in SUBSET Reqs
    BY <1>2
  <2>3. NewBatch = [n |-> step.n, spec |-> step.spec, fresh |-> step.fresh, start |-> x1,
                    samples |-> x2, old |-> {}]
    BY DEF NewBatch
  <2> HIDE DEF x1, x2
  <2> QED  BY <1>2, <2>1, <2>2, <2>3 DEF BatchType
<1>6. batches' \in Seq(BatchType)
  BY <1>1, <1>5 DEF FinishStep, TypeOK
<1>7. skipped' \in Seq(Reqs) /\ Arrived(req', skipped')
  <2>1. skipped' = step.skip \o skipped /\ skipped \in Seq(Reqs)
    BY <1>1 DEF FinishStep, TypeOK
  <2>2. Arrived(req', step.skip) /\ Arrived(req', skipped)
    BY <1>1, <1>4, <2>1, QueueSame DEF QueuesArrived
  <2> DEFINE a == step.skip
             p == a \o skipped
  <2>3. /\ p \in Seq(Reqs) /\ Len(p) = Len(a) + Len(skipped)
        /\ \A i \in 1 .. Len(a) + Len(skipped) :
             p[i] = IF i <= Len(a) THEN a[i] ELSE skipped[i - Len(a)]
    BY <1>1, <2>1, ConcatProperties
  <2>4. /\ Len(a) \in Nat /\ DOMAIN a = 1 .. Len(a)
        /\ Len(skipped) \in Nat /\ DOMAIN skipped = 1 .. Len(skipped)
        /\ DOMAIN p = 1 .. Len(a) + Len(skipped)
    BY <1>1, <2>1, <2>3, LenProperties
  <2>5. Arrived(req', p)
    <3> HIDE DEF p
    <3> SUFFICES ASSUME NEW i \in 1 .. Len(a) + Len(skipped)
                 PROVE  req'[p[i]].status # "ABSENT"
      BY <2>4 DEF Arrived
    <3>1. CASE i <= Len(a)
      <4>1. i \in DOMAIN a /\ p[i] = a[i]
        BY <2>3, <2>4, <3>1
      <4> QED  BY <2>2, <4>1 DEF Arrived
    <3>2. CASE ~(i <= Len(a))
      <4>1. i - Len(a) \in DOMAIN skipped /\ p[i] = skipped[i - Len(a)]
        <5> HIDE DEF a
        <5> QED  BY <2>3, <2>4, <3>2
      <4> QED  BY <2>2, <4>1 DEF Arrived
    <3> QED  BY <3>1, <3>2
  <2> QED  BY <2>1, <2>3, <2>5
<1>8. step' \in StepType /\ step'.skip = <<>>
  <2>1. step' = NewStep(0, 0)
    BY DEF FinishStep, NoStep
  <2>2. NewStep(0, 0).skip = <<>>
    BY DEF NewStep
  <2> QED  BY <2>1, <2>2, NewStepType
<1>9. TypeOK'
  BY <1>1, <1>2, <1>4, <1>6, <1>7, <1>8 DEF FinishStep, TypeOK, RequestsStep
<1>10. QueuesArrived'
  <2>1. Arrived(req', running) /\ Arrived(req', waiting)
    BY <1>1, <1>4, QueueSame DEF QueuesArrived, TypeOK
  <2>2. Arrived(req', step'.skip)
    BY <1>8 DEF Arrived
  <2> QED  BY <1>7, <2>1, <2>2 DEF FinishStep, QueuesArrived
<1> QED  BY <1>4, <1>9, <1>10 DEF FinishStep, IInv, CursorOK, RequestsGood, RequestsStep

\* Taking a request out of the queues for good.
LEMMA RetireFacts ==
  ASSUME IInv, NEW r \in Reqs, req[r].status # "ABSENT", Retire(r)
  PROVE  /\ RequestsStep(req, req')
         /\ running' \in Seq(Reqs) /\ Arrived(req', running')
         /\ waiting' \in Seq(Reqs) /\ Arrived(req', waiting')
         /\ skipped' \in Seq(Reqs) /\ Arrived(req', skipped')
         /\ free' \in Int
<1>1. TypeOK /\ QueuesArrived /\ RequestsGood /\ req[r] \in RequestType
  BY DEF IInv, TypeOK
<1> DEFINE p == Blank("FINISHED", req[r].num_tokens)
<1>2. p \in RequestType /\ p.status = "FINISHED" /\ p.num_tokens = req[r].num_tokens
  <2>1. req[r].num_tokens \in Nat /\ "FINISHED" \in Statuses
    BY <1>1, RequestFields DEF Statuses
  <2> QED  BY <2>1, BlankType DEF Blank
<1>3. req' = [req EXCEPT ![r] = p]
  BY DEF Retire
<1> HIDE DEF p
<1>4. Good(r, p)
  BY <1>1, <1>2 DEF Good, RequestsGood
<1>5. RequestsStep(req, req')
  BY <1>2, <1>3, <1>4, OneRequest
<1>6. ASSUME NEW q \in Seq(Reqs), Arrived(req, q)
      PROVE  Without(q, r) \in Seq(Reqs) /\ Arrived(req', Without(q, r))
  BY <1>5, <1>6, WithoutSeq, QueueKept
<1>7. /\ running' = Without(running, r) /\ waiting' = Without(waiting, r)
      /\ skipped' = Without(skipped, r)
      /\ running \in Seq(Reqs) /\ waiting \in Seq(Reqs) /\ skipped \in Seq(Reqs)
      /\ Arrived(req, running) /\ Arrived(req, waiting) /\ Arrived(req, skipped)
  BY <1>1 DEF Retire, TypeOK, QueuesArrived
<1>8. free' \in Int
  BY <1>1, RequestFields DEF Retire, TypeOK
<1> QED  BY <1>5, <1>6, <1>7, <1>8

LEMMA AbortIInv == ASSUME NEW r \in Reqs  PROVE IInv /\ Abort(r) => IInv'
<1> SUFFICES ASSUME IInv, Abort(r)  PROVE IInv'
  OBVIOUS
<1>1. req[r].status # "ABSENT"
  BY DEF Abort, Live
<1>2. /\ RequestsStep(req, req')
      /\ running' \in Seq(Reqs) /\ Arrived(req', running')
      /\ waiting' \in Seq(Reqs) /\ Arrived(req', waiting')
      /\ skipped' \in Seq(Reqs) /\ Arrived(req', skipped')
      /\ free' \in Int
  BY <1>1, RetireFacts DEF Abort
<1>3. TypeOK /\ QueuesArrived /\ step \in StepType
  BY DEF IInv, TypeOK
<1>4. Arrived(req', step.skip)
  BY <1>2, <1>3, QueueSame, StepFields DEF QueuesArrived
<1>5. TypeOK'
  BY <1>2, <1>3 DEF Abort, TypeOK, RequestsStep
<1> QED  BY <1>2, <1>4, <1>5 DEF Abort, IInv, CursorOK, QueuesArrived, RequestsGood, RequestsStep

LEMMA AddRequestIInv == ASSUME NEW r \in Reqs  PROVE IInv /\ AddRequest(r) => IInv'
<1> SUFFICES ASSUME IInv, AddRequest(r)  PROVE IInv'
  OBVIOUS
<1>1. TypeOK /\ QueuesArrived /\ RequestsGood /\ step \in StepType
  BY DEF IInv, TypeOK
<1> DEFINE p == Blank("WAITING", PromptLen[r])
<1>2. p \in RequestType /\ p.status = "WAITING" /\ p.num_tokens = PromptLen[r] /\ p.stale = 0
  <2>1. PromptLen[r] \in Nat /\ "WAITING" \in Statuses
    BY RequestAssumption DEF Statuses
  <2> QED  BY <2>1, BlankType DEF Blank
<1>3. req' = [req EXCEPT ![r] = p]
  BY DEF AddRequest
<1> HIDE DEF p
<1>4. Good(r, p)
  BY <1>2, LimitType DEF Good
<1>5. RequestsStep(req, req')
  BY <1>2, <1>3, <1>4, OneRequest
<1>6. req'[r].status # "ABSENT"
  BY <1>1, <1>2, <1>3 DEF TypeOK
<1>7. waiting' \in Seq(Reqs) /\ Arrived(req', waiting')
  <2> DEFINE w == AddRequestTo(waiting, r)
  <2>1. waiting' = w /\ waiting \in Seq(Reqs) /\ Arrived(req, waiting)
    BY <1>1 DEF AddRequest, TypeOK, QueuesArrived
  <2>2. w \in Seq(Reqs)
        /\ \A j \in DOMAIN w : w[j] = r \/ \E k \in DOMAIN waiting : w[j] = waiting[k]
    BY <2>1, AddSeq
  <2> HIDE DEF w
  <2>3. Arrived(req', waiting)
    BY <1>5, <2>1, QueueSame
  <2>4. Arrived(req', w)
    BY <1>6, <2>2, <2>3 DEF Arrived
  <2> QED  BY <2>1, <2>2, <2>4
<1>8. TypeOK'
  BY <1>1, <1>5, <1>7 DEF AddRequest, TypeOK, RequestsStep
<1>9. Arrived(req', running) /\ Arrived(req', skipped) /\ Arrived(req', step.skip)
  BY <1>1, <1>5, QueueSame, StepFields DEF QueuesArrived, TypeOK
<1> QED  BY <1>5, <1>7, <1>8, <1>9
         DEF AddRequest, IInv, CursorOK, QueuesArrived, RequestsGood, RequestsStep

LEMMA DropOutputIInv == ASSUME NEW r \in Reqs  PROVE IInv /\ DropOutput(r) => IInv'
<1> SUFFICES ASSUME IInv, DropOutput(r)  PROVE IInv'
  OBVIOUS
<1>1. TypeOK /\ QueuesArrived /\ RequestsGood /\ step \in StepType /\ req[r] \in RequestType
  BY DEF IInv, TypeOK
<1>2. req[r].status # "ABSENT"
  BY DEF DropOutput, Live
<1> DEFINE n == Head(batches).n[r]
           p == Drained(req[r], n)
<1>3. n \in Int
  <2>1. Head(batches) \in BatchType
    BY HeadTailProperties DEF DropOutput, IInv, TypeOK, CursorOK
  <2> QED  BY <2>1 DEF BatchType
<1>4. /\ p \in RequestType /\ p.status = req[r].status /\ p.num_tokens = req[r].num_tokens
      /\ p.drop = req[r].drop
  <2> HIDE DEF n
  <2> QED  BY <1>1, <1>3, DrainedType
<1>5. req' = [req EXCEPT ![r] = p]
  BY DEF DropOutput
<1>6. req[r].drop
  BY DEF DropOutput, DropsOutput
<1> HIDE DEF p
<1>7. Good(r, p)
  BY <1>1, <1>4, <1>6 DEF Good, RequestsGood
<1>8. RequestsStep(req, req')
  BY <1>2, <1>4, <1>5, <1>7, OneRequest
<1>9. TypeOK'
  BY <1>1, <1>8 DEF DropOutput, TypeOK, RequestsStep
<1>10. /\ Arrived(req', running) /\ Arrived(req', waiting)
       /\ Arrived(req', skipped) /\ Arrived(req', step.skip)
  BY <1>1, <1>8, QueueSame, StepFields DEF QueuesArrived, TypeOK
<1> QED  BY <1>8, <1>9, <1>10
         DEF DropOutput, IInv, CursorOK, QueuesArrived, RequestsGood, RequestsStep

\* What the scheduler keeps of a request whose output it took.
LEMMA AnsweredFacts ==
  ASSUME IInv, NEW r \in Reqs, Head(batches) \in BatchType,
         NEW accepted \in Int, NEW cut \in Int, NEW c, c.m \in Nat
  PROVE  LET p == Answered(r, accepted, cut, c)
         IN  /\ p \in RequestType /\ p.status = req[r].status
             /\ p.num_tokens = req[r].num_tokens + c.m
             /\ p.drop = req[r].drop
             /\ req[r].stale <= 0 => p.stale = req[r].stale
<1> DEFINE b == Head(batches)
           q == req[r]
           isStale == q.stale > 0
           rejected == IF r \in b.samples THEN b.spec[r] - accepted ELSE 0
           q1 == Drained(q, b.n[r])
           q2 == RolledBack(q1, rejected, isStale)
           q3 == GrammarCut(q2, cut)
           x1 == q3.num_tokens + c.m
           x2 == IF Async /\ ~isStale THEN q3.placeholders - c.m ELSE q3.placeholders
           x3 == RunnerAfter(r, b, rejected)
           q4 == [q3 EXCEPT !.num_tokens = x1]
           q5 == [q4 EXCEPT !.placeholders = x2]
           q6 == [q5 EXCEPT !.runner = x3]
<1>1. q \in RequestType /\ isStale \in BOOLEAN
  BY DEF IInv, TypeOK
<1>2. /\ b.n \in [Reqs -> Int] /\ b.spec \in [Reqs -> Int] /\ b.start \in [Reqs -> Int]
  BY DEF BatchType
<1>3. b.n[r] \in Int /\ rejected \in Int
  BY <1>2
<1>4. x3 \in Int
  <2>1. q.runner \in Int /\ b.start[r] \in Int
    BY <1>1, <1>2, RequestFields
  <2>2. RunnerStart(r, b) \in Int
    BY <2>1 DEF RunnerStart
  <2> HIDE DEF rejected
  <2> QED  BY <1>3, <2>2 DEF RunnerAfter
<1>5. Answered(r, accepted, cut, c) = q6
  <2>1. Answered(r, accepted, cut, c)
          = [q3 EXCEPT !.num_tokens = x1, !.placeholders = x2, !.runner = x3]
    BY DEF Answered
  <2> HIDE DEF x1, x2, x3, q3
  <2> QED  BY <2>1, Zenon
<1>6. /\ q1 \in RequestType /\ q1.status = q.status /\ q1.num_tokens = q.num_tokens
      /\ q1.drop = q.drop /\ (q.stale <= 0 => q1.stale = q.stale)
  <2> HIDE DEF b, q
  <2> QED  BY <1>1, <1>3, DrainedType
<1> HIDE DEF q1, rejected, isStale
<1>7. Keeps(q1, q2)
  BY <1>1, <1>3, <1>6, RolledBackType
<1> HIDE DEF q2
<1>8. Keeps(q2, q3)
  <2>1. q2 \in RequestType
    BY <1>7 DEF Keeps
  <2>2. Keeps(q2, RolledBack(q2, cut, FALSE))
    BY <2>1, RolledBackType
  <2> QED  BY <2>1, <2>2 DEF GrammarCut, Keeps
<1> HIDE DEF q3, x3
<1>9. x1 \in Nat /\ x2 \in Int /\ q3 \in RequestType
  <2>1. q3 \in RequestType
    BY <1>8 DEF Keeps
  <2> QED  BY <2>1, RequestFields
<1>10. x1 = q3.num_tokens + c.m
  OBVIOUS
<1> HIDE DEF x1, x2
<1>11. /\ q4 \in RequestType /\ q4.status = q3.status /\ q4.num_tokens = x1
       /\ q4.stale = q3.stale /\ q4.drop = q3.drop
  BY <1>9, SetWatched
<1> HIDE DEF q4
<1>12. Keeps(q4, q5)  BY <1>9, <1>11, SetField
<1> HIDE DEF q5
<1>13. Keeps(q5, q6)  BY <1>4, <1>12, SetField DEF Keeps
<1> HIDE DEF q6
<1> QED  BY <1>5, <1>6, <1>7, <1>8, <1>10, <1>11, <1>12, <1>13 DEF Keeps

\* What check_stop lets through without stopping the request leaves room.
LEMMA CommittedFacts ==
  ASSUME NEW r \in Reqs, req[r] \in RequestType, req[r].num_tokens < Limit(r),
         NEW kept \in Int, NEW c \in Committed(r, kept)
  PROVE  /\ c.m \in Nat
         /\ ~c.stop => req[r].num_tokens + c.m < Limit(r)
<1>1. req[r].num_tokens \in Int /\ Limit(r) \in Int /\ Room(r) = Limit(r) - req[r].num_tokens
  BY RequestFields, LimitType DEF Room, Limit
<1>2. CASE kept = 0
  <2>1. c = [m |-> 0, stop |-> FALSE]
    BY <1>2 DEF Committed
  <2> QED  BY <1>1, <2>1
<1>3. CASE kept # 0
  <2>1. PICK m \in 1 .. Least(kept, Most(1, Room(r))), eos \in BOOLEAN :
          c = [m |-> m, stop |-> m >= Room(r) \/ eos]
    BY <1>3 DEF Committed
  <2>2. m \in Nat
    OBVIOUS
  <2>3. c.m = m
    BY <2>1
  <2>4. c.stop <=> (m >= Room(r) \/ eos)
    BY <2>1, Zenon
  <2>5. Room(r) \in Int
    BY <1>1
  <2>6. ~(m >= Room(r)) => m < Room(r)
    BY <2>2, <2>5
  <2> QED  BY <1>1, <2>2, <2>3, <2>4, <2>6
<1> QED  BY <1>2, <1>3

LEMMA DeliverOutputIInv == ASSUME NEW r \in Reqs  PROVE IInv /\ DeliverOutput(r) => IInv'
<1> SUFFICES ASSUME IInv, DeliverOutput(r)  PROVE IInv'
  OBVIOUS
<1>1. TypeOK /\ QueuesArrived /\ RequestsGood /\ step \in StepType /\ req[r] \in RequestType
      /\ batches # <<>> /\ pc' = "update" /\ UNCHANGED <<step, batches>>
  BY DEF IInv, TypeOK, CursorOK, DeliverOutput
<1>2. req[r].status # "ABSENT"
  BY DEF DeliverOutput, Live
<1> DEFINE b == Head(batches)
<1>3. b \in BatchType
  BY <1>1, HeadTailProperties DEF TypeOK
<1>4. b.spec[r] \in Int
  BY <1>3 DEF BatchType
<1>5. PICK accepted \in IF r \in b.samples THEN 0 .. b.spec[r] ELSE {0} :
        LET generated == IF r \in b.samples THEN accepted + 1 ELSE 0
        IN  \E cut \in GrammarCuts(r, b.spec[r], generated, req[r].stale > 0) :
            \E c \in Committed(r, generated - cut) :
              IF c.stop THEN Retire(r)
                        ELSE /\ req' = [req EXCEPT ![r] = Answered(r, accepted, cut, c)]
                             /\ UNCHANGED <<running, waiting, skipped, free>>
  BY DEF DeliverOutput
<1> DEFINE generated == IF r \in b.samples THEN accepted + 1 ELSE 0
<1>6. accepted \in Int /\ generated \in Int
  BY <1>4, <1>5
<1>7. PICK cut \in GrammarCuts(r, b.spec[r], generated, req[r].stale > 0) :
        \E c \in Committed(r, generated - cut) :
          IF c.stop THEN Retire(r)
                    ELSE /\ req' = [req EXCEPT ![r] = Answered(r, accepted, cut, c)]
                         /\ UNCHANGED <<running, waiting, skipped, free>>
  BY <1>5
<1> HIDE DEF generated, b
<1>8. cut \in Int /\ generated - cut \in Int
  <2>1. cut \in 0 .. generated \/ cut \in {0}
    BY DEF GrammarCuts
  <2> QED  BY <1>6, <2>1
<1>9. PICK c \in Committed(r, generated - cut) :
        IF c.stop THEN Retire(r)
                  ELSE /\ req' = [req EXCEPT ![r] = Answered(r, accepted, cut, c)]
                       /\ UNCHANGED <<running, waiting, skipped, free>>
  BY <1>7
<1>10. /\ RequestsStep(req, req')
       /\ running' \in Seq(Reqs) /\ Arrived(req', running')
       /\ waiting' \in Seq(Reqs) /\ Arrived(req', waiting')
       /\ skipped' \in Seq(Reqs) /\ Arrived(req', skipped')
       /\ free' \in Int
  <2>1. CASE c.stop
    BY <1>2, <1>9, <2>1, RetireFacts
  <2>2. CASE ~c.stop
    <3>1. /\ req' = [req EXCEPT ![r] = Answered(r, accepted, cut, c)]
          /\ UNCHANGED <<running, waiting, skipped, free>>
      BY <1>9, <2>2
    <3>2. req[r].num_tokens < Limit(r)
      BY <1>1, <1>2 DEF RequestsGood, Good
    <3>3. c.m \in Nat /\ req[r].num_tokens + c.m < Limit(r)
      BY <1>1, <1>8, <2>2, <3>2, CommittedFacts
    <3> DEFINE p == Answered(r, accepted, cut, c)
    <3>4. /\ p \in RequestType /\ p.status = req[r].status
          /\ p.num_tokens = req[r].num_tokens + c.m
      BY <1>3, <1>6, <1>8, <3>3, AnsweredFacts DEF b
    <3> HIDE DEF p
    <3>5. Good(r, p)
      <4>1. p.num_tokens < Limit(r)
        BY <3>3, <3>4
      <4> QED  BY <4>1 DEF Good
    <3>6. RequestsStep(req, req')
      <4>1. RequestsStep(req, [req EXCEPT ![r] = p])
        BY <1>2, <3>4, <3>5, OneRequest
      <4> QED  BY <3>1, <4>1 DEF p
    <3> QED  BY <1>1, <3>1, <3>6, QueueSame DEF QueuesArrived, TypeOK
  <2> QED  BY <2>1, <2>2
<1>11. Arrived(req', step.skip)
  BY <1>1, <1>10, QueueSame, StepFields DEF QueuesArrived
<1>12. TypeOK'
  BY <1>1, <1>10 DEF DeliverOutput, TypeOK, RequestsStep
<1> QED  BY <1>1, <1>10, <1>11, <1>12
         DEF IInv, CursorOK, QueuesArrived, RequestsGood, RequestsStep

LEMMA UpdateDraftsIInv == IInv /\ UpdateDrafts => IInv'
<1> SUFFICES ASSUME IInv, UpdateDrafts  PROVE IInv'
  OBVIOUS
<1>1. TypeOK /\ QueuesArrived /\ RequestsGood /\ step \in StepType
  BY DEF IInv, TypeOK
<1>2. PICK count \in [drafts -> 0 .. NumSpec] :
        req' = [r \in Reqs |-> IF r \in drafts /\ Live(r)
                               THEN [req[r] EXCEPT !.spec = count[r]] ELSE req[r]]
  BY DEF UpdateDrafts
<1>3. ASSUME NEW r \in Reqs
      PROVE  Keeps(req[r], req'[r])
  <2>1. req[r] \in RequestType
    BY <1>1 DEF TypeOK
  <2>2. CASE r \in drafts /\ Live(r)
    <3> DEFINE k == count[r]
    <3>1. k \in Nat
      BY <2>2, ConfigAssumption
    <3>2. req'[r] = [req[r] EXCEPT !.spec = k]
      BY <1>2, <2>2
    <3> HIDE DEF k
    <3> QED  BY <2>1, <3>1, <3>2, SetField
  <2>3. CASE ~(r \in drafts /\ Live(r))
    <3>1. req'[r] = req[r]
      BY <1>2, <2>3
    <3> QED  BY <2>1, <3>1 DEF Keeps
  <2> QED  BY <2>2, <2>3
<1>4. RequestsStep(req, req')
  <2>1. req' \in [Reqs -> RequestType]
    <3>1. req' = [r \in Reqs |-> req'[r]]
      BY <1>2
    <3> QED  BY <1>3, <3>1 DEF Keeps
  <2> QED  BY <1>1, <1>3, <2>1, KeepsGood DEF RequestsStep, RequestsGood, Keeps
<1>5. TypeOK'
  BY <1>1, <1>4 DEF UpdateDrafts, TypeOK, RequestsStep
<1>6. /\ Arrived(req', running) /\ Arrived(req', waiting)
      /\ Arrived(req', skipped) /\ Arrived(req', step.skip)
  BY <1>1, <1>4, QueueSame, StepFields DEF QueuesArrived, TypeOK
<1> QED  BY <1>4, <1>5, <1>6
         DEF UpdateDrafts, IInv, CursorOK, QueuesArrived, RequestsGood, RequestsStep

LEMMA NextIInv == IInv /\ [Next]_vars => IInv'
<1> SUFFICES ASSUME IInv, [Next]_vars  PROVE IInv'
  OBVIOUS
<1>1. CASE BeginStep \/ UpdateDrafts
  BY <1>1, BeginStepIInv, UpdateDraftsIInv
<1>2. CASE SkipRunning \/ PickRunning \/ ScheduleRunning \/ PreemptVictim
           \/ SkipStale \/ TryAdmit \/ FinishStep
  BY <1>2, SkipRunningIInv, PickRunningIInv, ScheduleRunningIInv, PreemptVictimIInv,
     SkipStaleIInv, TryAdmitIInv, FinishStepIInv
<1>3. CASE \E r \in Reqs : DropOutput(r) \/ DeliverOutput(r) \/ AddRequest(r) \/ Abort(r)
  BY <1>3, DropOutputIInv, DeliverOutputIInv, AddRequestIInv, AbortIInv
<1>4. CASE EndRunningPass \/ EndWaitingPass \/ BeginUpdate
           \/ (\E r \in Reqs : IgnoreOutput(r)) \/ EndUpdate
           \/ (\E p \in PauseStates : SetPause(p)) \/ BeginReset \/ EndReset
           \/ UNCHANGED vars
  <2>1. UNCHANGED <<req, running, waiting, skipped, step>>
    BY <1>4 DEF EndRunningPass, EndWaitingPass, BeginUpdate, IgnoreOutput, EndUpdate,
                SetPause, BeginReset, EndReset, vars
  <2> QED  BY <1>4, <2>1, QuietSteps
<1>5. CASE ResetOne
  BY <1>5, ResetOneIInv
<1> QED  BY <1>1, <1>2, <1>3, <1>4, <1>5 DEF Next, Schedule, Update, Environment

\* Every call of the engine core on the scheduler preserves the invariant.
THEOREM Inductive == Spec => []IInv
<1> QED  BY InitIInv, NextIInv, PTL DEF Spec

----------------------------------------------------------------------------
(* What follows for every reachable state.                                 *)

\* Every variable keeps its type, for every configuration and any number of requests.
THEOREM TypeCorrect == Spec => []TypeOK
<1>1. IInv => TypeOK
  BY DEF IInv
<1> QED  BY <1>1, Inductive, PTL

\* No live request has as many tokens as max_tokens or the model length allows: each
\* is finished with the token that reaches the limit, whatever blocks of accepted
\* drafts, stale outputs and grammar cuts came before.
THEOREM OutputStaysBounded == Spec => []OutputBounded
<1>1. IInv => OutputBounded
  <2> SUFFICES ASSUME IInv, NEW r \in Reqs, Live(r)
               PROVE  req[r].num_tokens < Least(MaxModelLen, PromptLen[r] + MaxTokens[r])
    BY DEF OutputBounded
  <2>1. Good(r, req[r]) /\ req[r].status # "ABSENT"
    BY DEF IInv, RequestsGood, Live
  <2> QED  BY <2>1 DEF Good, Limit
<1> QED  BY <1>1, Inductive, PTL

----------------------------------------------------------------------------
(* Queues without repetition.                                              *)

Once(q) == \A i, j \in DOMAIN q : q[i] = q[j] => i = j

LEMMA InQueue ==
  ASSUME NEW q, NEW x
  PROVE  x \in Range1(q) <=> \E i \in DOMAIN q : q[i] = x
BY DEF Range1

LEMMA RangeRemove ==
  ASSUME NEW S, NEW q \in Seq(S), Once(q), NEW i \in 1 .. Len(q)
  PROVE  /\ Once(RemoveIndex(q, i))
         /\ \A x : x \in Range1(RemoveIndex(q, i)) <=> x \in Range1(q) /\ x # q[i]
<1> DEFINE n == Len(q)
           p == RemoveIndex(q, i)
<1>1. n \in Nat /\ DOMAIN q = 1 .. n
  BY LenProperties
<1>2. /\ DOMAIN p = 1 .. n - 1
      /\ \A j \in 1 .. n - 1 : p[j] = IF j < i THEN q[j] ELSE q[j + 1]
  BY DEF RemoveIndex
<1> HIDE DEF p
<1>3. Once(p)
  <2> SUFFICES ASSUME NEW j \in 1 .. n - 1, NEW k \in 1 .. n - 1, p[j] = p[k]
               PROVE  j = k
    BY <1>2 DEF Once
  <2>1. PICK j1 \in 1 .. n : p[j] = q[j1] /\ j1 = IF j < i THEN j ELSE j + 1
    BY <1>1, <1>2
  <2>2. PICK k1 \in 1 .. n : p[k] = q[k1] /\ k1 = IF k < i THEN k ELSE k + 1
    BY <1>1, <1>2
  <2>3. j1 = k1
    BY <1>1, <2>1, <2>2 DEF Once
  <2> QED  BY <1>1, <2>1, <2>2, <2>3
<1>4. ASSUME NEW x, x \in Range1(p)
      PROVE  x \in Range1(q) /\ x # q[i]
  <2>1. PICK j \in 1 .. n - 1 : p[j] = x
    BY <1>2, <1>4, InQueue
  <2>2. PICK j1 \in 1 .. n : p[j] = q[j1] /\ j1 # i
    <3>1. CASE j < i  BY <1>1, <1>2, <3>1
    <3>2. CASE ~(j < i)
      <4>1. j + 1 \in 1 .. n /\ p[j] = q[j + 1] /\ j + 1 # i  BY <1>1, <1>2, <3>2
      <4> QED  BY <4>1
    <3> QED  BY <3>1, <3>2
  <2> QED  BY <1>1, <2>1, <2>2, InQueue DEF Once
<1>5. ASSUME NEW x, x \in Range1(q), x # q[i]
      PROVE  x \in Range1(p)
  <2>1. PICK j \in 1 .. n : q[j] = x /\ j # i
    BY <1>1, <1>5, InQueue
  <2>2. \E k \in 1 .. n - 1 : p[k] = x
    <3>1. CASE j < i
      <4>1. j \in 1 .. n - 1 /\ p[j] = x  BY <1>1, <1>2, <2>1, <3>1
      <4> QED  BY <4>1
    <3>2. CASE ~(j < i)
      <4>1. j - 1 \in 1 .. n - 1 /\ ~(j - 1 < i) /\ (j - 1) + 1 = j  BY <1>1, <2>1, <3>2
      <4> QED  BY <1>2, <2>1, <4>1
    <3> QED  BY <3>1, <3>2
  <2> QED  BY <1>2, <2>2, InQueue
<1> QED  BY <1>3, <1>4, <1>5 DEF p

LEMMA RangeWithout ==
  ASSUME NEW S, NEW q \in Seq(S), Once(q), NEW r
  PROVE  /\ Once(Without(q, r))
         /\ \A x : x \in Range1(Without(q, r)) <=> x \in Range1(q) /\ x # r
<1>1. CASE \E i \in DOMAIN q : q[i] = r
  <2> DEFINE k == IndexOf(q, r)
  <2>1. k \in DOMAIN q /\ q[k] = r
    BY <1>1 DEF IndexOf
  <2>2. k \in 1 .. Len(q)
    BY <2>1, LenProperties
  <2>3. Without(q, r) = RemoveIndex(q, k)
    BY <1>1 DEF Without
  <2> HIDE DEF k
  <2> QED  BY <2>1, <2>2, <2>3, RangeRemove
<1>2. CASE ~ \E i \in DOMAIN q : q[i] = r
  BY <1>2, InQueue DEF Without
<1> QED  BY <1>1, <1>2

LEMMA RangeInsert ==
  ASSUME NEW S, NEW q \in Seq(S), Once(q), NEW i \in 1 .. Len(q) + 1,
         NEW r, r \notin Range1(q)
  PROVE  /\ Once(InsertAt(q, i, r))
         /\ \A x : x \in Range1(InsertAt(q, i, r)) <=> x \in Range1(q) \/ x = r
<1> DEFINE n == Len(q)
           p == InsertAt(q, i, r)
<1>1. n \in Nat /\ DOMAIN q = 1 .. n
  BY LenProperties
<1>2. /\ DOMAIN p = 1 .. n + 1
      /\ \A j \in 1 .. n + 1 : p[j] = IF j < i THEN q[j] ELSE IF j = i THEN r ELSE q[j - 1]
  BY DEF InsertAt
<1> HIDE DEF p
<1>3. ASSUME NEW j \in 1 .. n + 1, j # i
      PROVE  \E k \in 1 .. n : p[j] = q[k] /\ k = IF j < i THEN j ELSE j - 1
  BY <1>1, <1>2, <1>3
<1>4. p[i] = r
  BY <1>1, <1>2
<1>5. \A k \in 1 .. n : q[k] # r
  BY <1>1, InQueue
<1>6. Once(p)
  <2> SUFFICES ASSUME NEW j \in 1 .. n + 1, NEW k \in 1 .. n + 1, p[j] = p[k]
               PROVE  j = k
    BY <1>2 DEF Once
  <2>1. CASE j = i \/ k = i
    BY <1>3, <1>4, <1>5, <2>1
  <2>2. CASE j # i /\ k # i
    <3>1. PICK j1 \in 1 .. n : p[j] = q[j1] /\ j1 = IF j < i THEN j ELSE j - 1
      BY <1>3, <2>2
    <3>2. PICK k1 \in 1 .. n : p[k] = q[k1] /\ k1 = IF k < i THEN k ELSE k - 1
      BY <1>3, <2>2
    <3>3. j1 = k1
      BY <1>1, <3>1, <3>2 DEF Once
    <3> QED  BY <1>1, <2>2, <3>1, <3>2, <3>3
  <2> QED  BY <2>1, <2>2
<1>7. ASSUME NEW x, x \in Range1(p)
      PROVE  x \in Range1(q) \/ x = r
  <2>1. PICK j \in 1 .. n + 1 : p[j] = x
    BY <1>2, <1>7, InQueue
  <2> QED  BY <1>1, <1>3, <1>4, <2>1, InQueue
<1>8. ASSUME NEW x, x \in Range1(q)
      PROVE  x \in Range1(p)
  <2>1. PICK j \in 1 .. n : q[j] = x
    BY <1>1, <1>8, InQueue
  <2>2. \E k \in 1 .. n + 1 : p[k] = x
    <3>1. CASE j < i
      <4>1. j \in 1 .. n + 1 /\ p[j] = x  BY <1>1, <1>2, <2>1, <3>1
      <4> QED  BY <4>1
    <3>2. CASE ~(j < i)
      <4>1. j + 1 \in 1 .. n + 1 /\ ~(j + 1 < i) /\ j + 1 # i /\ (j + 1) - 1 = j
        BY <1>1, <3>2
      <4> QED  BY <1>2, <2>1, <4>1
    <3> QED  BY <3>1, <3>2
  <2> QED  BY <1>2, <2>2, InQueue
<1>9. r \in Range1(p)
  BY <1>1, <1>2, <1>4, InQueue
<1> QED  BY <1>6, <1>7, <1>8, <1>9 DEF p

LEMMA RangeByRank ==
  ASSUME NEW S, NEW q \in Seq(S), Once(q), NEW r \in S, r \notin Range1(q)
  PROVE  /\ Once(ByRank(q, r))
         /\ \A x : x \in Range1(ByRank(q, r)) <=> x \in Range1(q) \/ x = r
<1> DEFINE B == {i \in DOMAIN q : Rank[q[i]] < Rank[r]}
<1>1. Len(q) \in Nat /\ DOMAIN q = 1 .. Len(q)
  BY LenProperties
<1>2. IsFiniteSet(1 .. Len(q)) /\ Cardinality(1 .. Len(q)) = Len(q)
  BY <1>1, FS_Interval
<1>3. B \in SUBSET (1 .. Len(q))
  BY <1>1
<1>4. IsFiniteSet(B) /\ Cardinality(B) <= Len(q)
  BY <1>2, <1>3, FS_Subset
<1>5. Cardinality(B) \in Nat
  BY <1>4, FS_CardinalityType
<1>6. 1 + Cardinality(B) \in 1 .. Len(q) + 1
  BY <1>1, <1>4, <1>5
<1>7. ByRank(q, r) = InsertAt(q, 1 + Cardinality(B), r)
  BY DEF ByRank
<1> HIDE DEF B
<1> QED  BY <1>6, <1>7, RangeInsert

LEMMA RangeConcat ==
  ASSUME NEW S, NEW p \in Seq(S), NEW q \in Seq(S), Once(p), Once(q),
         \A x : ~(x \in Range1(p) /\ x \in Range1(q))
  PROVE  /\ Once(p \o q)
         /\ \A x : x \in Range1(p \o q) <=> x \in Range1(p) \/ x \in Range1(q)
<1> DEFINE m == Len(p)
           n == Len(q)
           s == p \o q
<1>1. m \in Nat /\ DOMAIN p = 1 .. m /\ n \in Nat /\ DOMAIN q = 1 .. n
  BY LenProperties
<1>2. /\ s \in Seq(S) /\ Len(s) = m + n
      /\ \A i \in 1 .. m + n : s[i] = IF i <= m THEN p[i] ELSE q[i - m]
  BY ConcatProperties
<1>3. DOMAIN s = 1 .. m + n
  BY <1>2, LenProperties
<1> HIDE DEF s, m, n
<1>4. ASSUME NEW i \in 1 .. m + n
      PROVE  \/ i <= m /\ i \in 1 .. m /\ s[i] = p[i] /\ s[i] \in Range1(p)
             \/ i > m /\ i - m \in 1 .. n /\ s[i] = q[i - m] /\ s[i] \in Range1(q)
  <2>1. CASE i <= m
    <3>1. i \in 1 .. m /\ s[i] = p[i]  BY <1>1, <1>2, <2>1
    <3> QED  BY <1>1, <2>1, <3>1, InQueue
  <2>2. CASE i > m
    <3>1. i - m \in 1 .. n /\ s[i] = q[i - m]  BY <1>1, <1>2, <2>2
    <3> QED  BY <1>1, <2>2, <3>1, InQueue
  <2> QED  BY <1>1, <2>1, <2>2
<1>5. Once(s)
  <2> SUFFICES ASSUME NEW i \in 1 .. m + n, NEW j \in 1 .. m + n, s[i] = s[j]
               PROVE  i = j
    BY <1>3 DEF Once
  <2>1. CASE i <= m /\ j <= m
    BY <1>1, <1>4, <2>1 DEF Once
  <2>2. CASE i > m /\ j > m
    <3>1. i - m = j - m
      BY <1>1, <1>4, <2>2 DEF Once
    <3> QED  BY <1>1, <3>1
  <2> QED  BY <1>1, <1>4, <2>1, <2>2
<1>6. ASSUME NEW x, x \in Range1(s)
      PROVE  x \in Range1(p) \/ x \in Range1(q)
  <2>1. PICK i \in 1 .. m + n : s[i] = x
    BY <1>3, <1>6, InQueue
  <2> QED  BY <1>4, <2>1
<1>7. ASSUME NEW x, x \in Range1(p)
      PROVE  x \in Range1(s)
  <2>1. PICK i \in 1 .. m : p[i] = x
    BY <1>1, <1>7, InQueue
  <2>2. i \in 1 .. m + n /\ s[i] = x
    BY <1>1, <1>2, <2>1
  <2> QED  BY <1>3, <2>2, InQueue
<1>8. ASSUME NEW x, x \in Range1(q)
      PROVE  x \in Range1(s)
  <2>1. PICK i \in 1 .. n : q[i] = x
    BY <1>1, <1>8, InQueue
  <2>2. i + m \in 1 .. m + n /\ ~(i + m <= m) /\ (i + m) - m = i
    BY <1>1
  <2>3. s[i + m] = x
    BY <1>2, <2>1, <2>2
  <2> QED  BY <1>3, <2>2, <2>3, InQueue
<1> QED  BY <1>5, <1>6, <1>7, <1>8 DEF s

LEMMA RangeSingle ==
  ASSUME NEW S, NEW r \in S
  PROVE  /\ <<r>> \in Seq(S) /\ Once(<<r>>)
         /\ \A x : x \in Range1(<<r>>) <=> x = r
<1>1. <<r>> \in Seq(S) /\ Len(<<r>>) = 1 /\ <<r>>[1] = r  OBVIOUS
<1>2. DOMAIN <<r>> = 1 .. 1  BY <1>1, LenProperties
<1>3. \A i \in 1 .. 1 : i = 1  OBVIOUS
<1> QED  BY <1>1, <1>2, <1>3 DEF Once, Range1

LEMMA RangeAppend ==
  ASSUME NEW S, NEW q \in Seq(S), Once(q), NEW r \in S, r \notin Range1(q)
  PROVE  /\ Once(Append(q, r))
         /\ \A x : x \in Range1(Append(q, r)) <=> x \in Range1(q) \/ x = r
<1>1. Append(q, r) = q \o <<r>>
  BY AppendIsConcat
<1> DEFINE e == <<r>>
<1>2. e \in Seq(S) /\ Once(e) /\ \A x : x \in Range1(e) <=> x = r
  BY RangeSingle
<1> HIDE DEF e
<1>3. /\ Once(q \o e)
      /\ \A x : x \in Range1(q \o e) <=> x \in Range1(q) \/ x \in Range1(e)
  BY <1>2, RangeConcat
<1> QED  BY <1>1, <1>2, <1>3 DEF e

LEMMA RangePrepend ==
  ASSUME NEW S, NEW q \in Seq(S), Once(q), NEW r \in S, r \notin Range1(q)
  PROVE  /\ Once(PrependTo(q, r))
         /\ \A x : x \in Range1(PrependTo(q, r)) <=> x \in Range1(q) \/ x = r
<1>1. CASE Priority
  BY <1>1, RangeByRank DEF PrependTo
<1>2. CASE ~Priority
  <2> DEFINE e == <<r>>
  <2>1. e \in Seq(S) /\ Once(e) /\ \A x : x \in Range1(e) <=> x = r
    BY RangeSingle
  <2>2. PrependTo(q, r) = e \o q
    BY <1>2 DEF PrependTo
  <2> HIDE DEF e
  <2>3. /\ Once(e \o q)
        /\ \A x : x \in Range1(e \o q) <=> x \in Range1(e) \/ x \in Range1(q)
    BY <2>1, RangeConcat
  <2> QED  BY <2>1, <2>2, <2>3
<1> QED  BY <1>1, <1>2

LEMMA RangeAdd ==
  ASSUME NEW S, NEW q \in Seq(S), Once(q), NEW r \in S, r \notin Range1(q)
  PROVE  /\ Once(AddRequestTo(q, r))
         /\ \A x : x \in Range1(AddRequestTo(q, r)) <=> x \in Range1(q) \/ x = r
BY RangeByRank, RangeAppend DEF AddRequestTo

LEMMA RangeTail ==
  ASSUME NEW S, NEW q \in Seq(S), Once(q), q # <<>>
  PROVE  /\ Once(Tail(q)) /\ Head(q) \in Range1(q)
         /\ \A x : x \in Range1(Tail(q)) <=> x \in Range1(q) /\ x # Head(q)
<1> DEFINE n == Len(q)
<1>1. n \in Nat \ {0} /\ DOMAIN q = 1 .. n
  BY EmptySeq, LenProperties
<1>2. /\ Tail(q) \in Seq(S) /\ Len(Tail(q)) = n - 1
      /\ \A i \in 1 .. Len(Tail(q)) : Tail(q)[i] = q[i + 1]
  BY HeadTailProperties
<1>3. Head(q) = q[1] /\ 1 \in 1 .. n
  BY <1>1
<1>4. DOMAIN Tail(q) = 1 .. n - 1
  BY <1>2, LenProperties
<1>5. \A i \in 1 .. n - 1 : i + 1 \in 1 .. n /\ i + 1 # 1 /\ Tail(q)[i] = q[i + 1]
  BY <1>1, <1>2
<1>6. Once(Tail(q))
  <2> SUFFICES ASSUME NEW i \in 1 .. n - 1, NEW j \in 1 .. n - 1, Tail(q)[i] = Tail(q)[j]
               PROVE  i = j
    BY <1>4 DEF Once
  <2>1. i + 1 = j + 1
    BY <1>1, <1>5 DEF Once
  <2> QED  BY <1>1, <2>1
<1>7. ASSUME NEW x, x \in Range1(Tail(q))
      PROVE  x \in Range1(q) /\ x # Head(q)
  <2>1. PICK i \in 1 .. n - 1 : Tail(q)[i] = x
    BY <1>4, <1>7, InQueue
  <2> QED  BY <1>1, <1>3, <1>5, <2>1, InQueue DEF Once
<1>8. ASSUME NEW x, x \in Range1(q), x # Head(q)
      PROVE  x \in Range1(Tail(q))
  <2>1. PICK i \in 1 .. n : q[i] = x /\ i # 1
    BY <1>1, <1>3, <1>8, InQueue
  <2>2. i - 1 \in 1 .. n - 1 /\ (i - 1) + 1 = i
    BY <1>1, <2>1
  <2> QED  BY <1>4, <1>5, <2>1, <2>2, InQueue
<1> QED  BY <1>1, <1>3, <1>6, <1>7, <1>8, InQueue

LEMMA RangeType ==
  ASSUME NEW S, NEW q \in Seq(S), NEW x \in Range1(q)
  PROVE  x \in S
BY LenProperties, ElementOfSeq DEF Range1

----------------------------------------------------------------------------
(* The inductive invariant of the queues.                                  *)

\* Who is where: a is running, b waiting, c skipped_waiting, and d was passed over in
\* this call of schedule().
Placed(f, a, b, c, d) ==
  \A r \in Reqs :
    /\ f[r].status = "RUNNING" <=> r \in Range1(a)
    /\ f[r].status \in {"WAITING", "PREEMPTED"}
         <=> r \in Range1(b) \/ r \in Range1(c) \/ r \in Range1(d)
    /\ ~(r \in Range1(b) /\ r \in Range1(c))
    /\ ~(r \in Range1(b) /\ r \in Range1(d))
    /\ ~(r \in Range1(c) /\ r \in Range1(d))

Queued(f, a, b, c, d) ==
  /\ a \in Seq(Reqs) /\ b \in Seq(Reqs) /\ c \in Seq(Reqs) /\ d \in Seq(Reqs)
  /\ Once(a) /\ Once(b) /\ Once(c) /\ Once(d)
  /\ Placed(f, a, b, c, d)

\* A call of schedule() puts those it passed over back before it returns.
NoneLeftOver == pc \in {"idle", "update", "reset"} => step.skip = <<>>

QInv == IInv /\ Queued(req, running, waiting, skipped, step.skip) /\ NoneLeftOver

QueuedNext == Queued(req', running', waiting', skipped', step'.skip)

LEMMA QueuedSame ==
  ASSUME NEW f, NEW g, NEW a, NEW b, NEW c, NEW d, Queued(f, a, b, c, d),
         \A r \in Reqs : g[r].status = f[r].status
  PROVE  Queued(g, a, b, c, d)
BY DEF Queued, Placed

\* A running request goes back to waiting.
LEMMA QueuedPreempt ==
  ASSUME NEW f, NEW g, NEW a, NEW b, NEW c, NEW d, Queued(f, a, b, c, d),
         NEW i \in 1 .. Len(a), NEW v \in Reqs, v = a[i],
         \A r \in Reqs : g[r].status = IF r = v THEN "PREEMPTED" ELSE f[r].status
  PROVE  Queued(g, RemoveIndex(a, i), PrependTo(b, v), c, d)
<1>1. /\ a \in Seq(Reqs) /\ b \in Seq(Reqs) /\ c \in Seq(Reqs) /\ d \in Seq(Reqs)
      /\ Once(a) /\ Once(b) /\ Once(c) /\ Once(d)
      /\ Placed(f, a, b, c, d)
  BY DEF Queued
<1>2. v \in Range1(a)
  BY <1>1, LenProperties, InQueue
<1>3. f[v].status = "RUNNING" /\ v \notin Range1(b) /\ v \notin Range1(c) /\ v \notin Range1(d)
  BY <1>1, <1>2 DEF Placed
<1> DEFINE p == RemoveIndex(a, i)
           q == PrependTo(b, v)
<1>4. p \in Seq(Reqs) /\ Once(p) /\ \A x : x \in Range1(p) <=> x \in Range1(a) /\ x # v
  BY <1>1, RemoveIndexSeq, RangeRemove
<1>5. q \in Seq(Reqs) /\ Once(q) /\ \A x : x \in Range1(q) <=> x \in Range1(b) \/ x = v
  BY <1>1, <1>3, PrependSeq, RangePrepend
<1> HIDE DEF p, q
<1>6. Placed(g, p, q, c, d)
  <2> SUFFICES ASSUME NEW r \in Reqs
               PROVE  /\ g[r].status = "RUNNING" <=> r \in Range1(p)
                      /\ g[r].status \in {"WAITING", "PREEMPTED"}
                           <=> r \in Range1(q) \/ r \in Range1(c) \/ r \in Range1(d)
                      /\ ~(r \in Range1(q) /\ r \in Range1(c))
                      /\ ~(r \in Range1(q) /\ r \in Range1(d))
                      /\ ~(r \in Range1(c) /\ r \in Range1(d))
    BY DEF Placed
  <2>1. CASE r = v
    BY <1>1, <1>3, <1>4, <1>5, <2>1 DEF Placed
  <2>2. CASE r # v
    BY <1>1, <1>4, <1>5, <2>2 DEF Placed
  <2> QED  BY <2>1, <2>2
<1> QED  BY <1>1, <1>4, <1>5, <1>6 DEF Queued, p, q

\* A request is finished, when none is passed over.
LEMMA QueuedRetire ==
  ASSUME NEW f, NEW g, NEW a, NEW b, NEW c, Queued(f, a, b, c, <<>>), NEW v \in Reqs,
         \A r \in Reqs : g[r].status = IF r = v THEN "FINISHED" ELSE f[r].status
  PROVE  Queued(g, Without(a, v), Without(b, v), Without(c, v), <<>>)
<1>1. /\ a \in Seq(Reqs) /\ b \in Seq(Reqs) /\ c \in Seq(Reqs) /\ <<>> \in Seq(Reqs)
      /\ Once(a) /\ Once(b) /\ Once(c) /\ Once(<<>>)
      /\ Placed(f, a, b, c, <<>>)
  BY DEF Queued
<1> DEFINE p == Without(a, v)
           q == Without(b, v)
           s == Without(c, v)
<1>2. p \in Seq(Reqs) /\ Once(p) /\ \A x : x \in Range1(p) <=> x \in Range1(a) /\ x # v
  BY <1>1, WithoutSeq, RangeWithout
<1>3. q \in Seq(Reqs) /\ Once(q) /\ \A x : x \in Range1(q) <=> x \in Range1(b) /\ x # v
  BY <1>1, WithoutSeq, RangeWithout
<1>4. s \in Seq(Reqs) /\ Once(s) /\ \A x : x \in Range1(s) <=> x \in Range1(c) /\ x # v
  BY <1>1, WithoutSeq, RangeWithout
<1>5. \A x : x \notin Range1(<<>>)
  BY DEF Range1
<1> HIDE DEF p, q, s
<1>6. Placed(g, p, q, s, <<>>)
  <2> SUFFICES ASSUME NEW r \in Reqs
               PROVE  /\ g[r].status = "RUNNING" <=> r \in Range1(p)
                      /\ g[r].status \in {"WAITING", "PREEMPTED"}
                           <=> r \in Range1(q) \/ r \in Range1(s) \/ r \in Range1(<<>>)
                      /\ ~(r \in Range1(q) /\ r \in Range1(s))
                      /\ ~(r \in Range1(q) /\ r \in Range1(<<>>))
                      /\ ~(r \in Range1(s) /\ r \in Range1(<<>>))
    BY DEF Placed
  <2>1. CASE r = v
    BY <1>2, <1>3, <1>4, <1>5, <2>1
  <2>2. CASE r # v
    BY <1>1, <1>2, <1>3, <1>4, <1>5, <2>2 DEF Placed
  <2> QED  BY <2>1, <2>2
<1> QED  BY <1>1, <1>2, <1>3, <1>4, <1>6 DEF Queued, p, q, s

\* A request arrives.
LEMMA QueuedAdd ==
  ASSUME NEW f, NEW g, NEW a, NEW b, NEW c, NEW d, Queued(f, a, b, c, d), NEW v \in Reqs,
         f[v].status = "ABSENT",
         \A r \in Reqs : g[r].status = IF r = v THEN "WAITING" ELSE f[r].status
  PROVE  Queued(g, a, AddRequestTo(b, v), c, d)
<1>1. /\ a \in Seq(Reqs) /\ b \in Seq(Reqs) /\ c \in Seq(Reqs) /\ d \in Seq(Reqs)
      /\ Once(a) /\ Once(b) /\ Once(c) /\ Once(d)
      /\ Placed(f, a, b, c, d)
  BY DEF Queued
<1>2. /\ v \notin Range1(a) /\ v \notin Range1(b)
      /\ v \notin Range1(c) /\ v \notin Range1(d)
  BY <1>1 DEF Placed
<1> DEFINE q == AddRequestTo(b, v)
<1>3. q \in Seq(Reqs) /\ Once(q) /\ \A x : x \in Range1(q) <=> x \in Range1(b) \/ x = v
  BY <1>1, <1>2, AddSeq, RangeAdd
<1> HIDE DEF q
<1>4. Placed(g, a, q, c, d)
  BY <1>1, <1>2, <1>3 DEF Placed
<1> QED  BY <1>1, <1>3, <1>4 DEF Queued, q

\* The candidate v, taken off its waiting queue, is passed over.
LEMMA QueuedSkip ==
  ASSUME NEW f, NEW a, NEW b, NEW c, NEW d, Queued(f, a, b, c, d),
         NEW v \in Reqs, v \in Range1(b) \/ v \in Range1(c),
         NEW p \in Seq(Reqs), Once(p), \A x : x \in Range1(p) <=> x \in Range1(b) /\ x # v,
         NEW q \in Seq(Reqs), Once(q), \A x : x \in Range1(q) <=> x \in Range1(c) /\ x # v
  PROVE  Queued(f, a, p, q, Append(d, v))
<1>1. /\ a \in Seq(Reqs) /\ d \in Seq(Reqs) /\ Once(a) /\ Once(d) /\ Placed(f, a, b, c, d)
  BY DEF Queued
<1>2. v \notin Range1(d)
  BY <1>1 DEF Placed
<1> DEFINE s == Append(d, v)
<1>3. s \in Seq(Reqs)
  BY <1>1
<1>4. Once(s) /\ \A x : x \in Range1(s) <=> x \in Range1(d) \/ x = v
  BY <1>1, <1>2, RangeAppend
<1> HIDE DEF s
<1>5. Placed(f, a, p, q, s)
  <2> SUFFICES ASSUME NEW r \in Reqs
               PROVE  /\ f[r].status = "RUNNING" <=> r \in Range1(a)
                      /\ f[r].status \in {"WAITING", "PREEMPTED"}
                           <=> r \in Range1(p) \/ r \in Range1(q) \/ r \in Range1(s)
                      /\ ~(r \in Range1(p) /\ r \in Range1(q))
                      /\ ~(r \in Range1(p) /\ r \in Range1(s))
                      /\ ~(r \in Range1(q) /\ r \in Range1(s))
    BY DEF Placed
  <2>1. CASE r = v
    BY <1>1, <1>4, <2>1 DEF Placed
  <2>2. CASE r # v
    BY <1>1, <1>4, <2>2 DEF Placed
  <2> QED  BY <2>1, <2>2
<1> QED  BY <1>1, <1>3, <1>4, <1>5 DEF Queued, s

\* The candidate v, taken off its waiting queue, runs.
LEMMA QueuedAdmit ==
  ASSUME NEW f, NEW g, NEW a, NEW b, NEW c, NEW d, Queued(f, a, b, c, d),
         NEW v \in Reqs, v \in Range1(b) \/ v \in Range1(c),
         NEW p \in Seq(Reqs), Once(p), \A x : x \in Range1(p) <=> x \in Range1(b) /\ x # v,
         NEW q \in Seq(Reqs), Once(q), \A x : x \in Range1(q) <=> x \in Range1(c) /\ x # v,
         \A r \in Reqs : g[r].status = IF r = v THEN "RUNNING" ELSE f[r].status
  PROVE  Queued(g, Append(a, v), p, q, d)
<1>1. /\ a \in Seq(Reqs) /\ d \in Seq(Reqs) /\ Once(a) /\ Once(d) /\ Placed(f, a, b, c, d)
  BY DEF Queued
<1>2. v \notin Range1(a) /\ v \notin Range1(d)
  BY <1>1 DEF Placed
<1> DEFINE s == Append(a, v)
<1>3. s \in Seq(Reqs)
  BY <1>1
<1>4. Once(s) /\ \A x : x \in Range1(s) <=> x \in Range1(a) \/ x = v
  BY <1>1, <1>2, RangeAppend
<1> HIDE DEF s
<1>5. Placed(g, s, p, q, d)
  <2> SUFFICES ASSUME NEW r \in Reqs
               PROVE  /\ g[r].status = "RUNNING" <=> r \in Range1(s)
                      /\ g[r].status \in {"WAITING", "PREEMPTED"}
                           <=> r \in Range1(p) \/ r \in Range1(q) \/ r \in Range1(d)
                      /\ ~(r \in Range1(p) /\ r \in Range1(q))
                      /\ ~(r \in Range1(p) /\ r \in Range1(d))
                      /\ ~(r \in Range1(q) /\ r \in Range1(d))
    BY DEF Placed
  <2>1. CASE r = v
    BY <1>1, <1>2, <1>4, <2>1 DEF Placed
  <2>2. CASE r # v
    BY <1>1, <1>4, <2>2 DEF Placed
  <2> QED  BY <2>1, <2>2
<1> QED  BY <1>1, <1>3, <1>4, <1>5 DEF Queued, s

\* Those passed over go to the front of skipped_waiting.
LEMMA QueuedReturn ==
  ASSUME NEW f, NEW g, NEW a, NEW b, NEW c, NEW d, Queued(f, a, b, c, d),
         \A r \in Reqs : g[r].status = f[r].status
  PROVE  Queued(g, a, b, d \o c, <<>>)
<1>1. /\ a \in Seq(Reqs) /\ b \in Seq(Reqs) /\ c \in Seq(Reqs) /\ d \in Seq(Reqs)
      /\ Once(a) /\ Once(b) /\ Once(c) /\ Once(d)
      /\ Placed(f, a, b, c, d)
  BY DEF Queued
<1>2. \A x : ~(x \in Range1(d) /\ x \in Range1(c))
  BY <1>1, RangeType DEF Placed
<1> DEFINE s == d \o c
<1>3. s \in Seq(Reqs)
  BY <1>1, ConcatProperties
<1>4. Once(s) /\ \A x : x \in Range1(s) <=> x \in Range1(d) \/ x \in Range1(c)
  BY <1>1, <1>2, RangeConcat
<1>5. <<>> \in Seq(Reqs) /\ Once(<<>>) /\ \A x : x \notin Range1(<<>>)
  BY DEF Range1, Once
<1> HIDE DEF s
<1>6. Placed(g, a, b, s, <<>>)
  BY <1>1, <1>4, <1>5 DEF Placed
<1> QED  BY <1>1, <1>3, <1>4, <1>5, <1>6 DEF Queued, s

\* Popping the candidate takes it out of the one waiting queue it is in.
LEMMA PoppedCandidate ==
  ASSUME QInv, InWaitingPass, PopCandidate
  PROVE  /\ Candidate \in Reqs
         /\ Candidate \in Range1(waiting) \/ Candidate \in Range1(skipped)
         /\ waiting' \in Seq(Reqs) /\ Once(waiting')
         /\ \A x : x \in Range1(waiting') <=> x \in Range1(waiting) /\ x # Candidate
         /\ skipped' \in Seq(Reqs) /\ Once(skipped')
         /\ \A x : x \in Range1(skipped') <=> x \in Range1(skipped) /\ x # Candidate
<1>1. /\ waiting \in Seq(Reqs) /\ skipped \in Seq(Reqs) /\ Once(waiting) /\ Once(skipped)
      /\ Placed(req, running, waiting, skipped, step.skip)
  BY DEF QInv, Queued
<1>2. Candidate \in Reqs /\ waiting' \in Seq(Reqs) /\ skipped' \in Seq(Reqs)
  BY CandidateFacts DEF QInv
<1>3. CASE FromSkipped
  <2>1. Candidate = Head(skipped) /\ waiting' = waiting /\ skipped' = Tail(skipped)
        /\ skipped # <<>>
    BY <1>3 DEF Candidate, PopCandidate, FromSkipped
  <2>2. /\ Once(Tail(skipped)) /\ Head(skipped) \in Range1(skipped)
        /\ \A x : x \in Range1(Tail(skipped)) <=> x \in Range1(skipped) /\ x # Head(skipped)
    BY <1>1, <2>1, RangeTail
  <2>3. Candidate \notin Range1(waiting)
    BY <1>1, <1>2, <2>1, <2>2 DEF Placed
  <2> QED  BY <1>1, <1>2, <2>1, <2>2, <2>3
<1>4. CASE ~FromSkipped
  <2>1. Candidate = Head(waiting) /\ waiting' = Tail(waiting) /\ skipped' = skipped
        /\ waiting # <<>>
    BY <1>4 DEF Candidate, PopCandidate, FromSkipped, InWaitingPass
  <2>2. /\ Once(Tail(waiting)) /\ Head(waiting) \in Range1(waiting)
        /\ \A x : x \in Range1(Tail(waiting)) <=> x \in Range1(waiting) /\ x # Head(waiting)
    BY <1>1, <2>1, RangeTail
  <2>3. Candidate \notin Range1(skipped)
    BY <1>1, <1>2, <2>1, <2>2 DEF Placed
  <2> QED  BY <1>1, <1>2, <2>1, <2>2, <2>3
<1> QED  BY <1>3, <1>4

----------------------------------------------------------------------------
(* Each action keeps the queues in order.                                  *)

LEMMA OneStatus ==
  ASSUME IInv, NEW v \in Reqs, NEW p
  PROVE  \A r \in Reqs : [req EXCEPT ![v] = p][r].status
                           = IF r = v THEN p.status ELSE req[r].status
BY DEF IInv, TypeOK

\* The queues, the statuses and what was passed over stay as they are.
LEMMA StillQueued ==
  ASSUME QInv, UNCHANGED <<running, waiting, skipped>>, step'.skip = step.skip,
         \A r \in Reqs : req'[r].status = req[r].status,
         pc' \in {"idle", "update", "reset"} => pc \in {"idle", "update", "reset"}
  PROVE  QueuedNext /\ NoneLeftOver'
BY QueuedSame DEF QInv, QueuedNext, NoneLeftOver

LEMMA QuietQueued ==
  ASSUME QInv,
         EndRunningPass \/ EndWaitingPass \/ BeginUpdate
         \/ (\E r \in Reqs : IgnoreOutput(r)) \/ EndUpdate
         \/ (\E p \in PauseStates : SetPause(p)) \/ BeginReset \/ EndReset
         \/ UNCHANGED vars
  PROVE  QueuedNext /\ NoneLeftOver'
<1>1. UNCHANGED <<req, running, waiting, skipped, step>>
  BY DEF EndRunningPass, EndWaitingPass, BeginUpdate, IgnoreOutput, EndUpdate,
         SetPause, BeginReset, EndReset, vars
<1>2. pc' \in {"idle", "update", "reset"} => pc \in {"idle", "update", "reset"}
  BY DEF EndRunningPass, EndWaitingPass, BeginUpdate, IgnoreOutput, EndUpdate,
         SetPause, BeginReset, EndReset, vars
<1> QED  BY <1>1, <1>2, StillQueued

LEMMA BeginStepQueued == QInv /\ BeginStep => QueuedNext /\ NoneLeftOver'
<1> SUFFICES ASSUME QInv, BeginStep  PROVE QueuedNext /\ NoneLeftOver'
  OBVIOUS
<1>1. step.skip = <<>>
  BY DEF QInv, NoneLeftOver, BeginStep
<1>2. step'.skip = <<>>
  BY DEF BeginStep, NewStep
<1>3. ASSUME NEW r \in Reqs
      PROVE  req'[r].status = req[r].status
  <2>1. req[r] \in RequestType /\ req'[r] = [req[r] EXCEPT !.cooldown = Most(0, @ - 1)]
    BY DEF BeginStep, QInv, IInv, TypeOK
  <2> QED  BY <2>1 DEF RequestType
<1>4. pc' = "running" /\ UNCHANGED <<running, waiting, skipped>>
  BY DEF BeginStep
<1> QED  BY <1>1, <1>2, <1>3, <1>4, StillQueued

LEMMA PickQueued ==
  ASSUME QInv, SkipRunning \/ PickRunning
  PROVE  QueuedNext /\ NoneLeftOver'
<1>1. step \in StepType
  BY DEF QInv, IInv, TypeOK
<1>2. step'.skip = step.skip
  <2>1. CASE SkipRunning
    BY <1>1, <2>1 DEF SkipRunning, StepType
  <2>2. CASE PickRunning
    <3>1. PICK want, pad :
            \/ step' = [step EXCEPT !.idx = @ + 1]
            \/ step' = [step EXCEPT !.want = want, !.pad = pad]
      BY <2>2 DEF PickRunning
    <3> QED  BY <1>1, <3>1 DEF StepType
  <2> QED  BY <2>1, <2>2
<1>3. UNCHANGED <<req, running, waiting, skipped>>
  BY DEF SkipRunning, PickRunning
<1>4. pc' \in {"running", "alloc"}
  BY DEF SkipRunning, PickRunning
<1> QED  BY <1>2, <1>3, <1>4, StillQueued

LEMMA ScheduleRunningQueued == QInv /\ ScheduleRunning => QueuedNext /\ NoneLeftOver'
<1> SUFFICES ASSUME QInv, ScheduleRunning  PROVE QueuedNext /\ NoneLeftOver'
  OBVIOUS
<1> DEFINE r == running[step.idx]
<1>1. IInv /\ step \in StepType /\ r \in Reqs /\ req[r] \in RequestType
  <2>1. IInv /\ step.idx \in DOMAIN running /\ running \in Seq(Reqs)
        /\ req \in [Reqs -> RequestType] /\ step \in StepType
    BY DEF QInv, IInv, TypeOK, CursorOK, ScheduleRunning
  <2> QED  BY <2>1, LenProperties, ElementOfSeq
<1>2. \A x \in Reqs : req'[x].status = req[x].status
  <2> DEFINE p == Granted(req[r], Missing(r))
  <2>1. req' = [req EXCEPT ![r] = p]
    BY DEF ScheduleRunning
  <2>2. p.status = req[r].status
    BY <1>1 DEF Granted, RequestType
  <2> HIDE DEF p, r
  <2> QED  BY <1>1, <2>1, <2>2, OneStatus
<1>3. step'.skip = step.skip
  BY <1>1 DEF ScheduleRunning, StepType
<1>4. pc' = "running" /\ UNCHANGED <<running, waiting, skipped>>
  BY DEF ScheduleRunning
<1> QED  BY <1>2, <1>3, <1>4, StillQueued

LEMMA PreemptQueued ==
  ASSUME QInv, NEW i \in DOMAIN running, running' = RemoveIndex(running, i),
         NEW drop \in BOOLEAN, Preempt(running[i], drop),
         skipped' = skipped, step'.skip = step.skip
  PROVE  QueuedNext
<1> DEFINE v == running[i]
           p == PreemptedReq(req[v], drop)
<1>1. /\ IInv /\ running \in Seq(Reqs) /\ req \in [Reqs -> RequestType]
      /\ Queued(req, running, waiting, skipped, step.skip)
  BY DEF QInv, IInv, TypeOK
<1>2. i \in 1 .. Len(running) /\ v \in Reqs
  BY <1>1, LenProperties, ElementOfSeq
<1>3. p.status = "PREEMPTED"
  BY <1>1, <1>2, PreemptedType
<1>4. req' = [req EXCEPT ![v] = p] /\ waiting' = PrependTo(waiting, v)
  BY DEF Preempt
<1> HIDE DEF p
<1>5. \A r \in Reqs : req'[r].status = IF r = v THEN "PREEMPTED" ELSE req[r].status
  <2> HIDE DEF v
  <2> QED  BY <1>1, <1>2, <1>3, <1>4, OneStatus
<1>6. Queued(req', RemoveIndex(running, i), PrependTo(waiting, v), skipped, step.skip)
  BY <1>1, <1>2, <1>5, QueuedPreempt
<1> QED  BY <1>4, <1>6 DEF QueuedNext

LEMMA PreemptVictimQueued == QInv /\ PreemptVictim => QueuedNext /\ NoneLeftOver'
<1> SUFFICES ASSUME QInv, PreemptVictim  PROVE QueuedNext /\ NoneLeftOver'
  OBVIOUS
<1>1. PICK i \in DOMAIN running :
        /\ running' = RemoveIndex(running, i)
        /\ Preempt(running[i], DropStale)
        /\ IF i = step.idx
           THEN /\ pc' = "finish"
                /\ step' = [StepWithoutVictim(running[i], i) EXCEPT !.want = 0, !.pad = FALSE]
           ELSE pc' = pc /\ step' = StepWithoutVictim(running[i], i)
  BY DEF PreemptVictim
<1> DEFINE v == running[i]
           t == StepWithoutVictim(v, i)
<1>2. step \in StepType /\ running \in Seq(Reqs)
  BY DEF QInv, IInv, TypeOK
<1>3. i \in Nat \ {0} /\ v \in Reqs
  BY <1>2, LenProperties, ElementOfSeq
<1>4. t \in StepType /\ t.skip = step.skip
  BY <1>2, <1>3, WithoutVictimFacts
<1>5. step' = t \/ step' = [t EXCEPT !.want = 0, !.pad = FALSE]
  BY <1>1
<1> HIDE DEF t
<1>6. step'.skip = step.skip
  BY <1>4, <1>5 DEF StepType
<1>7. QueuedNext
  BY <1>1, <1>6, PreemptQueued, ConfigAssumption DEF PreemptVictim
<1>8. pc' \in {"alloc", "finish"}
  BY <1>1 DEF PreemptVictim
<1> QED  BY <1>7, <1>8 DEF NoneLeftOver

LEMMA ResetOneQueued == QInv /\ ResetOne => QueuedNext /\ NoneLeftOver'
<1> SUFFICES ASSUME QInv, ResetOne  PROVE QueuedNext /\ NoneLeftOver'
  OBVIOUS
<1>1. running \in Seq(Reqs) /\ running # <<>>
  BY DEF QInv, IInv, TypeOK, ResetOne
<1>2. Len(running) \in DOMAIN running
  BY <1>1, EmptySeq, LenProperties
<1>3. QueuedNext
  BY <1>2, PreemptQueued DEF ResetOne
<1> QED  BY <1>3 DEF NoneLeftOver, QInv, ResetOne

LEMMA SkipStaleQueued == QInv /\ SkipStale => QueuedNext /\ NoneLeftOver'
<1> SUFFICES ASSUME QInv, SkipStale  PROVE QueuedNext /\ NoneLeftOver'
  OBVIOUS
<1>1. /\ step \in StepType /\ Queued(req, running, waiting, skipped, step.skip)
      /\ InWaitingPass /\ PopCandidate /\ UNCHANGED <<pc, req, running>>
  BY DEF QInv, IInv, TypeOK, SkipStale
<1> DEFINE v == Candidate
           s == Append(step.skip, v)
<1>2. step' = [step EXCEPT !.skip = s]
  BY Zenon DEF SkipStale
<1>3. step'.skip = s
  <2> HIDE DEF s
  <2> QED  BY <1>1, <1>2 DEF StepType
<1>4. /\ v \in Reqs /\ (v \in Range1(waiting) \/ v \in Range1(skipped))
      /\ waiting' \in Seq(Reqs) /\ Once(waiting')
      /\ \A x : x \in Range1(waiting') <=> x \in Range1(waiting) /\ x # v
      /\ skipped' \in Seq(Reqs) /\ Once(skipped')
      /\ \A x : x \in Range1(skipped') <=> x \in Range1(skipped) /\ x # v
  BY <1>1, PoppedCandidate
<1> HIDE DEF v
<1>5. Queued(req, running, waiting', skipped', s)
  BY <1>1, <1>4, QueuedSkip
<1> HIDE DEF s
<1>6. QueuedNext
  BY <1>1, <1>3, <1>5 DEF QueuedNext
<1> QED  BY <1>6 DEF SkipStale, NoneLeftOver

LEMMA TryAdmitQueued == QInv /\ TryAdmit => QueuedNext /\ NoneLeftOver'
<1> SUFFICES ASSUME QInv, TryAdmit  PROVE QueuedNext /\ NoneLeftOver'
  OBVIOUS
<1> DEFINE v == Candidate
<1>1. /\ IInv /\ step \in StepType /\ Queued(req, running, waiting, skipped, step.skip)
      /\ InWaitingPass /\ pc = "waiting"
  BY DEF QInv, IInv, TypeOK, TryAdmit
<1>2. \/ StopWaitingPass
      \/ \E hit, n, pad : Admit(v, hit, n, pad)
  BY DEF TryAdmit
<1>3. CASE StopWaitingPass
  BY <1>3, StillQueued DEF StopWaitingPass
<1>4. CASE \E hit, n, pad : Admit(v, hit, n, pad)
  <2>1. PICK hit, n, pad : Admit(v, hit, n, pad)
    BY <1>4
  <2>2. PopCandidate /\ running' = Append(running, v) /\ pc' = "waiting"
    BY <1>1, <2>1 DEF Admit
  <2>3. /\ v \in Reqs /\ (v \in Range1(waiting) \/ v \in Range1(skipped))
        /\ waiting' \in Seq(Reqs) /\ Once(waiting')
        /\ \A x : x \in Range1(waiting') <=> x \in Range1(waiting) /\ x # v
        /\ skipped' \in Seq(Reqs) /\ Once(skipped')
        /\ \A x : x \in Range1(skipped') <=> x \in Range1(skipped) /\ x # v
    BY <1>1, <2>2, PoppedCandidate
  <2>4. PICK k : req' = [req EXCEPT ![v] = Admitted(req[v], hit, k)]
    BY <2>1 DEF Admit
  <2> DEFINE p == Admitted(req[v], hit, k)
  <2>5. p.status = "RUNNING"
    <3>1. req[v] \in RequestType
      BY <1>1, <2>3 DEF IInv, TypeOK
    <3> QED  BY <3>1 DEF Admitted, RequestType
  <2>6. \A r \in Reqs : req'[r].status = IF r = v THEN "RUNNING" ELSE req[r].status
    <3>1. req' = [req EXCEPT ![v] = p]
      BY <2>4
    <3> HIDE DEF p, v
    <3> QED  BY <1>1, <2>3, <2>5, <3>1, OneStatus
  <2>7. step'.skip = step.skip
    <3>1. PICK x1, x2, x3, x4, x5 :
            step' = [step EXCEPT !.n = x1, !.spec = x2, !.fresh = x3, !.tokens = x4,
                                 !.input = x5]
      BY <2>1 DEF Admit
    <3> QED  BY <1>1, <3>1 DEF StepType
  <2> HIDE DEF v
  <2>8. Queued(req', Append(running, v), waiting', skipped', step.skip)
    BY <1>1, <2>3, <2>6, QueuedAdmit
  <2> QED  BY <2>2, <2>7, <2>8 DEF QueuedNext, NoneLeftOver
<1> QED  BY <1>2, <1>3, <1>4

LEMMA FinishStepQueued == QInv /\ FinishStep => QueuedNext /\ NoneLeftOver'
<1> SUFFICES ASSUME QInv, FinishStep  PROVE QueuedNext /\ NoneLeftOver'
  OBVIOUS
<1>1. /\ Queued(req, running, waiting, skipped, step.skip)
      /\ req \in [Reqs -> RequestType] /\ step \in StepType
  BY DEF QInv, IInv, TypeOK
<1>2. ASSUME NEW r \in Reqs
      PROVE  req'[r].status = req[r].status
  <2>1. req'[r] = IF r \in ScheduledNow THEN Advanced(req[r], step.n[r], step.spec[r]) ELSE req[r]
    BY DEF FinishStep
  <2>2. step.n[r] \in Int /\ step.spec[r] \in Int /\ req[r] \in RequestType
    BY <1>1, StepFields
  <2>3. Keeps(req[r], Advanced(req[r], step.n[r], step.spec[r]))
    BY <2>2, AdvancedType
  <2> QED  BY <2>1, <2>3 DEF Keeps
<1>3. /\ running' = running /\ waiting' = waiting /\ skipped' = step.skip \o skipped
      /\ step'.skip = <<>>
  BY DEF FinishStep, NoStep, NewStep
<1>4. Queued(req', running, waiting, step.skip \o skipped, <<>>)
  BY <1>1, <1>2, QueuedReturn
<1> QED  BY <1>3, <1>4 DEF QueuedNext, NoneLeftOver

LEMMA RetireQueued ==
  ASSUME QInv, NEW v \in Reqs, Retire(v), step.skip = <<>>, step' = step
  PROVE  QueuedNext /\ NoneLeftOver'
<1>1. IInv /\ Queued(req, running, waiting, skipped, <<>>)
  BY DEF QInv
<1> DEFINE p == Blank("FINISHED", req[v].num_tokens)
<1>2. req' = [req EXCEPT ![v] = p] /\ p.status = "FINISHED"
  BY DEF Retire, Blank
<1> HIDE DEF p
<1>3. \A r \in Reqs : req'[r].status = IF r = v THEN "FINISHED" ELSE req[r].status
  BY <1>1, <1>2, OneStatus
<1>4. Queued(req', Without(running, v), Without(waiting, v), Without(skipped, v), <<>>)
  BY <1>1, <1>3, QueuedRetire
<1>5. /\ running' = Without(running, v) /\ waiting' = Without(waiting, v)
      /\ skipped' = Without(skipped, v)
  BY DEF Retire
<1> QED  BY <1>4, <1>5 DEF QueuedNext, NoneLeftOver

LEMMA DropOutputQueued ==
  ASSUME NEW v \in Reqs  PROVE QInv /\ DropOutput(v) => QueuedNext /\ NoneLeftOver'
<1> SUFFICES ASSUME QInv, DropOutput(v)  PROVE QueuedNext /\ NoneLeftOver'
  OBVIOUS
<1> DEFINE p == Drained(req[v], Head(batches).n[v])
<1>1. IInv /\ req[v] \in RequestType
  BY DEF QInv, IInv, TypeOK
<1>2. p.status = req[v].status
  BY <1>1 DEF Drained, RequestType
<1>3. req' = [req EXCEPT ![v] = p]
  BY DEF DropOutput
<1> HIDE DEF p
<1>4. \A r \in Reqs : req'[r].status = req[r].status
  BY <1>1, <1>2, <1>3, OneStatus
<1>5. UNCHANGED <<pc, running, waiting, skipped, step>>
  BY DEF DropOutput
<1> QED  BY <1>4, <1>5, StillQueued

LEMMA DeliverOutputQueued ==
  ASSUME NEW v \in Reqs  PROVE QInv /\ DeliverOutput(v) => QueuedNext /\ NoneLeftOver'
<1> SUFFICES ASSUME QInv, DeliverOutput(v)  PROVE QueuedNext /\ NoneLeftOver'
  OBVIOUS
<1>1. IInv /\ req[v] \in RequestType /\ step.skip = <<>> /\ UNCHANGED <<pc, step>>
  BY DEF QInv, IInv, TypeOK, NoneLeftOver, DeliverOutput
<1>2. \/ Retire(v)
      \/ /\ \E accepted, cut, c : req' = [req EXCEPT ![v] = Answered(v, accepted, cut, c)]
         /\ UNCHANGED <<running, waiting, skipped>>
  BY DEF DeliverOutput
<1>3. CASE Retire(v)
  BY <1>1, <1>3, RetireQueued
<1>4. CASE /\ \E accepted, cut, c : req' = [req EXCEPT ![v] = Answered(v, accepted, cut, c)]
           /\ UNCHANGED <<running, waiting, skipped>>
  <2>1. PICK accepted, cut, c : req' = [req EXCEPT ![v] = Answered(v, accepted, cut, c)]
    BY <1>4
  <2> DEFINE p == Answered(v, accepted, cut, c)
  <2>2. p.status = req[v].status
    BY <1>1 DEF Answered, GrammarCut, RolledBack, Drained, RequestType
  <2> HIDE DEF p
  <2>3. \A r \in Reqs : req'[r].status = req[r].status
    BY <1>1, <2>1, <2>2, OneStatus DEF p
  <2> QED  BY <1>1, <1>4, <2>3, StillQueued
<1> QED  BY <1>2, <1>3, <1>4

LEMMA UpdateDraftsQueued == QInv /\ UpdateDrafts => QueuedNext /\ NoneLeftOver'
<1> SUFFICES ASSUME QInv, UpdateDrafts  PROVE QueuedNext /\ NoneLeftOver'
  OBVIOUS
<1>1. PICK count :
        req' = [r \in Reqs |-> IF r \in drafts /\ Live(r)
                               THEN [req[r] EXCEPT !.spec = count[r]] ELSE req[r]]
  BY DEF UpdateDrafts
<1>2. ASSUME NEW r \in Reqs
      PROVE  req'[r].status = req[r].status
  <2>1. req[r] \in RequestType
    BY DEF QInv, IInv, TypeOK
  <2> QED  BY <1>1, <2>1 DEF RequestType
<1>3. UNCHANGED <<pc, running, waiting, skipped, step>>
  BY DEF UpdateDrafts
<1> QED  BY <1>2, <1>3, StillQueued

LEMMA ClientQueued ==
  ASSUME NEW v \in Reqs  PROVE QInv /\ (AddRequest(v) \/ Abort(v)) => QueuedNext /\ NoneLeftOver'
<1> SUFFICES ASSUME QInv, AddRequest(v) \/ Abort(v)  PROVE QueuedNext /\ NoneLeftOver'
  OBVIOUS
<1>1. IInv /\ Queued(req, running, waiting, skipped, step.skip) /\ NoneLeftOver
  BY DEF QInv
<1>2. CASE AddRequest(v)
  <2> DEFINE p == Blank("WAITING", PromptLen[v])
  <2>1. /\ req' = [req EXCEPT ![v] = p] /\ req[v].status = "ABSENT" /\ p.status = "WAITING"
        /\ waiting' = AddRequestTo(waiting, v) /\ UNCHANGED <<pc, running, skipped, step>>
    BY <1>2 DEF AddRequest, Blank
  <2> HIDE DEF p
  <2>2. \A r \in Reqs : req'[r].status = IF r = v THEN "WAITING" ELSE req[r].status
    BY <1>1, <2>1, OneStatus
  <2>3. Queued(req', running, AddRequestTo(waiting, v), skipped, step.skip)
    BY <1>1, <2>1, <2>2, QueuedAdd
  <2> QED  BY <1>1, <2>1, <2>3 DEF QueuedNext, NoneLeftOver
<1>3. CASE Abort(v)
  BY <1>1, <1>3, RetireQueued DEF Abort, NoneLeftOver
<1> QED  BY <1>2, <1>3

LEMMA InitQInv == Init => QInv
<1> SUFFICES ASSUME Init  PROVE QInv
  OBVIOUS
<1>1. IInv
  BY InitIInv
<1>2. step.skip = <<>> /\ running = <<>> /\ waiting = <<>> /\ skipped = <<>>
  BY DEF Init, NoStep, NewStep
<1>3. Once(<<>>) /\ <<>> \in Seq(Reqs) /\ \A x : x \notin Range1(<<>>)
  BY DEF Once, Range1
<1>4. \A r \in Reqs : req[r].status = "ABSENT"
  BY DEF Init, Blank
<1>5. Queued(req, <<>>, <<>>, <<>>, <<>>)
  BY <1>3, <1>4 DEF Queued, Placed
<1> QED  BY <1>1, <1>2, <1>5 DEF QInv, NoneLeftOver

LEMMA NextQInv == QInv /\ [Next]_vars => QInv'
<1> SUFFICES ASSUME QInv, [Next]_vars  PROVE QInv'
  OBVIOUS
<1>1. IInv'
  BY NextIInv DEF QInv
<1>2. QueuedNext /\ NoneLeftOver'
  <2>1. CASE BeginStep \/ UpdateDrafts
    BY <2>1, BeginStepQueued, UpdateDraftsQueued
  <2>2. CASE SkipRunning \/ PickRunning \/ ScheduleRunning \/ PreemptVictim
             \/ SkipStale \/ TryAdmit \/ FinishStep
    BY <2>2, PickQueued, ScheduleRunningQueued, PreemptVictimQueued, SkipStaleQueued,
       TryAdmitQueued, FinishStepQueued
  <2>3. CASE \E r \in Reqs : DropOutput(r) \/ DeliverOutput(r) \/ AddRequest(r) \/ Abort(r)
    BY <2>3, DropOutputQueued, DeliverOutputQueued, ClientQueued
  <2>4. CASE EndRunningPass \/ EndWaitingPass \/ BeginUpdate
             \/ (\E r \in Reqs : IgnoreOutput(r)) \/ EndUpdate
             \/ (\E p \in PauseStates : SetPause(p)) \/ BeginReset \/ EndReset
             \/ UNCHANGED vars
    BY <2>4, QuietQueued
  <2>5. CASE ResetOne
    BY <2>5, ResetOneQueued
  <2> QED  BY <2>1, <2>2, <2>3, <2>4, <2>5 DEF Next, Schedule, Update, Environment
<1> QED  BY <1>1, <1>2 DEF QInv, QueuedNext

\* QInv says of the four queues what QueuesMatchStatus says of them laid end to end.
LEMMA QInvMatches == QInv => QueuesMatchStatus
<1> SUFFICES ASSUME QInv  PROVE QueuesMatchStatus
  OBVIOUS
<1> DEFINE a == running
           b == waiting
           c == skipped
           d == step.skip
           ab == a \o b
           abc == ab \o c
           line == abc \o d
<1>1. /\ a \in Seq(Reqs) /\ b \in Seq(Reqs) /\ c \in Seq(Reqs) /\ d \in Seq(Reqs)
      /\ Once(a) /\ Once(b) /\ Once(c) /\ Once(d) /\ Placed(req, a, b, c, d)
  BY DEF QInv, Queued
<1>2. \A x : /\ ~(x \in Range1(a) /\ (x \in Range1(b) \/ x \in Range1(c) \/ x \in Range1(d)))
             /\ ~(x \in Range1(b) /\ (x \in Range1(c) \/ x \in Range1(d)))
             /\ ~(x \in Range1(c) /\ x \in Range1(d))
  BY <1>1, RangeType DEF Placed
<1> HIDE DEF a, b, c, d
<1>3. /\ ab \in Seq(Reqs) /\ Once(ab)
      /\ \A x : x \in Range1(ab) <=> x \in Range1(a) \/ x \in Range1(b)
  BY <1>1, <1>2, ConcatProperties, RangeConcat
<1> HIDE DEF ab
<1>4. /\ abc \in Seq(Reqs) /\ Once(abc)
      /\ \A x : x \in Range1(abc) <=> x \in Range1(ab) \/ x \in Range1(c)
  BY <1>1, <1>2, <1>3, ConcatProperties, RangeConcat
<1> HIDE DEF abc
<1>5. /\ line \in Seq(Reqs) /\ Once(line)
      /\ \A x : x \in Range1(line) <=> x \in Range1(abc) \/ x \in Range1(d)
  BY <1>1, <1>2, <1>3, <1>4, ConcatProperties, RangeConcat
<1> HIDE DEF line
<1>6. Range1(line) = {r \in Reqs : Live(r)}
  BY <1>1, <1>3, <1>4, <1>5, RangeType DEF Placed, Live
<1>7. Range1(a) = {r \in Reqs : req[r].status = "RUNNING"}
  BY <1>1, RangeType DEF Placed
<1> QED  BY <1>5, <1>6, <1>7 DEF QueuesMatchStatus, Once, line, abc, ab, a, b, c, d

----------------------------------------------------------------------------
\* Every live request is in exactly one place of running, waiting, skipped_waiting and
\* the list of those passed over, and in running exactly while its status says so,
\* through every preemption, skip, admission, reset, stop and abort.
THEOREM QueuesAlwaysMatch == Spec => []QueuesMatchStatus
<1>1. Init => QInv
  BY InitQInv
<1>2. QInv /\ [Next]_vars => QInv'
  BY NextQInv
<1>3. QInv => QueuesMatchStatus
  BY QInvMatches
<1> QED  BY <1>1, <1>2, <1>3, PTL DEF Spec

----------------------------------------------------------------------------
(* The inductive invariant of what is in flight.                           *)

\* Only requests that have arrived are scheduled, and none with fewer than 0 tokens.
Counted(f, n) == \A r \in Reqs : n[r] \in Nat /\ (n[r] > 0 => f[r].status # "ABSENT")

StepCounted == Counted(req, step.n) /\ (pc = "alloc" => step.want \in Nat)

BatchesCounted == \A i \in DOMAIN batches : Counted(req, batches[i].n)

\* A batch of the run before a preemption never follows one of the run after it.
OldFirst ==
  \A i, j \in DOMAIN batches : i < j =>
    \A r \in ScheduledIn(batches[i]) : r \in batches[j].old => r \in batches[i].old

\* update_from_output() looks for requests of the batch only.
TodoOfHead == pc = "update" => todo \subseteq ScheduledIn(Head(batches))

Flight == StepCounted /\ BatchesCounted /\ OldFirst /\ TodoOfHead /\ InFlightExact

FInv == QInv /\ Flight

LEMMA BatchFacts ==
  ASSUME IInv
  PROVE  /\ batches \in Seq(BatchType) /\ Len(batches) \in Nat
         /\ DOMAIN batches = 1 .. Len(batches)
         /\ \A i \in DOMAIN batches : batches[i] \in BatchType /\ batches[i].n \in [Reqs -> Int]
         /\ pc = "update" => Len(batches) >= 1 /\ Head(batches) = batches[1]
<1>1. batches \in Seq(BatchType)
  BY DEF IInv, TypeOK
<1>2. Len(batches) \in Nat /\ DOMAIN batches = 1 .. Len(batches)
  BY <1>1, LenProperties
<1>3. \A i \in DOMAIN batches : batches[i] \in BatchType /\ batches[i].n \in [Reqs -> Int]
  <2>1. \A i \in DOMAIN batches : batches[i] \in BatchType
    BY <1>1, <1>2, ElementOfSeq
  <2>2. \A b \in BatchType : b.n \in [Reqs -> Int]
    BY DEF BatchType
  <2> QED  BY <2>1, <2>2
<1>4. ASSUME pc = "update"
      PROVE  Len(batches) >= 1 /\ Head(batches) = batches[1]
  <2>1. batches # <<>>
    BY <1>4 DEF IInv, CursorOK
  <2> QED  BY <1>1, <1>2, <2>1, EmptySeq
<1> QED  BY <1>1, <1>2, <1>3, <1>4

LEMMA PendingFacts ==
  ASSUME FInv, NEW r \in Reqs
  PROVE  /\ DOMAIN Pending(r) = 1 .. Len(batches) /\ DOMAIN PendingOld(r) = 1 .. Len(batches)
         /\ \A i \in 1 .. Len(batches) : Pending(r)[i] \in Nat /\ PendingOld(r)[i] \in Nat
<1>1. \A i \in 1 .. Len(batches) : batches[i].n[r] \in Nat
  BY BatchFacts DEF FInv, QInv, Flight, BatchesCounted, Counted
<1>2. DOMAIN batches = 1 .. Len(batches)
  BY BatchFacts DEF FInv, QInv
<1> QED  BY <1>1, <1>2 DEF Pending, PendingOld

\* The invariant tells stale output from current output.
LEMMA FlightTells == FInv => StaleMeansOldRun
<1> SUFFICES ASSUME FInv, pc = "update", NEW r \in todo, Live(r)
             PROVE  req[r].stale > 0 <=> r \in Head(batches).old
  BY DEF StaleMeansOldRun
<1> DEFINE n == Len(batches)
           w == PendingOld(r)
<1>1. /\ n \in Nat /\ n >= 1 /\ DOMAIN batches = 1 .. n /\ Head(batches) = batches[1]
      /\ r \in Reqs /\ r \in ScheduledIn(batches[1])
  BY BatchFacts DEF FInv, QInv, Flight, TodoOfHead, ScheduledIn
<1>2. \A i \in 1 .. n : w[i] \in Nat
  BY <1>1, PendingFacts
<1>3. /\ Total(w, n) \in Nat
      /\ \A k \in 1 .. n : w[k] <= Total(w, n)
      /\ Total(w, n) > 0 => \E k \in 1 .. n : w[k] > 0
  BY <1>1, <1>2, TotalOfNaturals
<1>4. req[r].stale = Total(w, n)
  BY <1>1 DEF FInv, Flight, InFlightExact
<1>5. ASSUME r \in batches[1].old
      PROVE  req[r].stale > 0
  <2>1. w[1] = batches[1].n[r]
    BY <1>1, <1>5 DEF PendingOld, Pending
  <2>2. batches[1].n[r] > 0
    BY <1>1 DEF ScheduledIn
  <2>3. 1 \in 1 .. n /\ w[1] \in Nat
    BY <1>1, <1>2
  <2> QED  BY <1>3, <1>4, <2>1, <2>2, <2>3
<1>6. ASSUME req[r].stale > 0
      PROVE  r \in batches[1].old
  <2>1. PICK k \in 1 .. n : w[k] > 0
    BY <1>3, <1>4, <1>6
  <2>2. r \in batches[k].old
    BY <1>1, <2>1 DEF PendingOld
  <2>3. CASE k = 1
    BY <2>2, <2>3
  <2>4. CASE k # 1
    <3>1. 1 \in 1 .. n /\ 1 < k
      BY <1>1, <2>4
    <3> QED  BY <1>1, <2>2, <3>1 DEF FInv, Flight, OldFirst
  <2> QED  BY <2>3, <2>4
<1> QED  BY <1>1, <1>5, <1>6

----------------------------------------------------------------------------
(* What an action does to the batches.                                     *)

\* A request whose counts go with batches that do not change.
SameFlight(q, p) ==
  \/ p.status \notin {"WAITING", "RUNNING", "PREEMPTED"}
  \/ /\ q.status \in {"WAITING", "RUNNING", "PREEMPTED"}
     /\ p.in_flight = q.in_flight /\ p.stale = q.stale
  \/ q.status = "ABSENT" /\ p.in_flight = 0 /\ p.stale = 0

Arriving == \A r \in Reqs : req[r].status # "ABSENT" => req'[r].status # "ABSENT"

LEMMA CountedKept ==
  ASSUME Arriving, NEW n, Counted(req, n)
  PROVE  Counted(req', n)
BY DEF Arriving, Counted

\* Actions that leave the batches and what is still to be taken of them alone.
LEMMA SameBatches ==
  ASSUME FInv, batches' = batches, Arriving, StepCounted',
         \/ pc # "update" /\ pc' # "update"
         \/ pc' = pc /\ todo' = todo,
         \A r \in Reqs : SameFlight(req[r], req'[r])
  PROVE  Flight'
<1>1. BatchesCounted'
  BY CountedKept DEF FInv, Flight, BatchesCounted
<1>2. OldFirst' /\ TodoOfHead'
  BY DEF FInv, Flight, OldFirst, TodoOfHead, ScheduledIn
<1>3. \A r : Pending(r)' = Pending(r) /\ PendingOld(r)' = PendingOld(r)
  BY DEF Pending, PendingOld
<1>4. InFlightExact'
  <2> SUFFICES ASSUME NEW r \in Reqs, Live(r)'
               PROVE  /\ req'[r].in_flight = Total(Pending(r), Len(batches))
                      /\ req'[r].stale = Total(PendingOld(r), Len(batches))
    BY <1>3 DEF InFlightExact
  <2>1. CASE Live(r) /\ req'[r].in_flight = req[r].in_flight /\ req'[r].stale = req[r].stale
    BY <2>1 DEF FInv, Flight, InFlightExact
  <2>2. CASE req[r].status = "ABSENT" /\ req'[r].in_flight = 0 /\ req'[r].stale = 0
    <3> DEFINE n == Len(batches)
    <3>1. n \in Nat /\ DOMAIN batches = 1 .. n
      BY BatchFacts DEF FInv, QInv
    <3>2. \A i \in 1 .. n : batches[i].n[r] = 0
      BY <2>2, <3>1 DEF FInv, Flight, BatchesCounted, Counted
    <3>3. \A i \in 1 .. n : Pending(r)[i] = 0 /\ PendingOld(r)[i] = 0
      BY <3>1, <3>2 DEF Pending, PendingOld
    <3> QED  BY <2>2, <3>1, <3>3, TotalZero
  <2> QED  BY <2>1, <2>2 DEF SameFlight, Live
<1> QED  BY <1>1, <1>2, <1>4 DEF Flight

\* The counts of a request that is not preempted, only moved on.
LEMMA FlightOfOne ==
  ASSUME IInv, NEW v \in Reqs, NEW p, SameFlight(req[v], p)
  PROVE  \A r \in Reqs : SameFlight(req[r], [req EXCEPT ![v] = p][r])
BY DEF IInv, TypeOK, SameFlight, RequestType, Statuses

----------------------------------------------------------------------------
(* What each action does to one request and to the step.                   *)

\* Where a request is tells its status.
LEMMA RunningFacts ==
  ASSUME QInv, NEW i \in DOMAIN running
  PROVE  /\ i \in 1 .. Len(running) /\ running[i] \in Reqs
         /\ req[running[i]] \in RequestType /\ req[running[i]].status = "RUNNING"
<1>1. /\ running \in Seq(Reqs) /\ req \in [Reqs -> RequestType]
      /\ Placed(req, running, waiting, skipped, step.skip)
  BY DEF QInv, IInv, TypeOK, Queued
<1>2. i \in 1 .. Len(running) /\ running[i] \in Reqs /\ running[i] \in Range1(running)
  BY <1>1, LenProperties, ElementOfSeq DEF Range1
<1> QED  BY <1>1, <1>2 DEF Placed

LEMMA ReserveBounds ==
  ASSUME NEW q \in RequestType, NEW c \in Int, NEW n \in Int
  PROVE  /\ ReserveLookahead(q, c, n) \in Nat
         /\ ReserveLookahead(q, c, n) # 0 => ReserveLookahead(q, c, n) <= n
<1> DEFINE left == q.num_tokens - c - n
           k == IF 0 < left /\ left < PrefillLookahead THEN n - (PrefillLookahead - left) ELSE n
<1>1. left \in Int /\ PrefillLookahead \in Nat
  BY RequestFields, ConfigAssumption
<1>2. k \in Int /\ k <= n
  <2> HIDE DEF left
  <2> QED  BY <1>1
<1>3. ReserveLookahead(q, c, n) = Most(0, k)
  BY DEF ReserveLookahead
<1> HIDE DEF k
<1> QED  BY <1>2, <1>3 DEF Most

\* One request of the requests changes.
LEMMA OneChanges ==
  ASSUME IInv, NEW r \in Reqs, NEW p
  PROVE  \A x \in Reqs : [req EXCEPT ![r] = p][x] = IF x = r THEN p ELSE req[x]
BY DEF IInv, TypeOK

LEMMA PickEffect ==
  ASSUME QInv, PickRunning
  PROVE  \/ pc' = pc /\ step'.idx = step.idx + 1 /\ step'.n = step.n
            /\ step'.tokens = step.tokens /\ step'.input = step.input
         \/ /\ pc' = "alloc" /\ step'.idx = step.idx /\ step'.n = step.n
            /\ step'.tokens = step.tokens /\ step'.input = step.input
            /\ step'.want \in Nat \ {0}
            /\ LET r == running[step.idx]
                   q == req[r]
               IN  \/ /\ r \in MMReqs /\ NumSpec > 0 /\ step'.want = 1 + NumSpec
                   \/ \E m \in EncoderLimited(r, q.num_computed, ClippedTokens(q, r)) :
                        m \in Int /\ step'.want <= m
<1> DEFINE r == running[step.idx]
           q == req[r]
<1>1. /\ step \in StepType /\ r \in Reqs /\ q \in RequestType /\ q.num_computed \in Int
  BY CursorRequest, RequestFields DEF QInv, IInv, TypeOK, PickRunning, InRunningPass
<1>2. PICK m \in EncoderLimited(r, q.num_computed, ClippedTokens(q, r)) :
        LET n == ReserveLookahead(q, q.num_computed, m)
            pad == MMDecodePad(q, r, n)
        IN  IF n = 0
            THEN step' = [step EXCEPT !.idx = @ + 1] /\ UNCHANGED pc
            ELSE /\ step' = [step EXCEPT !.want = IF pad THEN 1 + NumSpec ELSE n, !.pad = pad]
                 /\ pc' = "alloc"
  BY DEF PickRunning
<1> DEFINE n == ReserveLookahead(q, q.num_computed, m)
           pad == MMDecodePad(q, r, n)
           w == IF pad THEN 1 + NumSpec ELSE n
<1>3. m \in Int
  BY <1>1, <1>2, ClippedType, EncoderLimitedType
<1>4. n \in Nat /\ (n # 0 => n <= m)
  BY <1>1, <1>3, ReserveBounds
<1>5. CASE n = 0
  BY <1>1, <1>2, <1>5 DEF StepType
<1>6. CASE n # 0
  <2>1. step' = [step EXCEPT !.want = w, !.pad = pad] /\ pc' = "alloc"
    BY <1>2, <1>6
  <2>2. w \in Nat \ {0} /\ (pad => r \in MMReqs /\ NumSpec > 0 /\ w = 1 + NumSpec)
        /\ (~pad => w <= m)
    <3> HIDE DEF n
    <3> QED  BY <1>3, <1>4, <1>6, ConfigAssumption DEF MMDecodePad
  <2> HIDE DEF w, pad
  <2>3. /\ step'.idx = step.idx /\ step'.n = step.n /\ step'.tokens = step.tokens
        /\ step'.input = step.input /\ step'.want = w
    BY <1>1, <2>1 DEF StepType
  <2> QED  BY <1>2, <1>3, <2>1, <2>2, <2>3
<1> QED  BY <1>5, <1>6

LEMMA ScheduleRunningEffect ==
  ASSUME QInv, ScheduleRunning, NEW r, r = running[step.idx]
  PROVE  /\ step.idx \in DOMAIN running /\ r \in Reqs /\ req[r].status = "RUNNING"
         /\ Missing(r) \in Nat /\ Missing(r) <= free /\ free' = free - Missing(r)
         /\ req' = [req EXCEPT ![r] = Granted(req[r], Missing(r))]
         /\ LET q == req[r]
                p == Granted(q, Missing(r))
            IN  /\ p.status = q.status /\ p.num_tokens = q.num_tokens
                /\ p.num_computed = q.num_computed /\ p.in_flight = q.in_flight
                /\ p.stale = q.stale /\ p.placeholders = q.placeholders
                /\ p.blocks = q.blocks + Missing(r)
         /\ step'.idx = step.idx + 1 /\ step'.want = 0
         /\ step'.n = [step.n EXCEPT ![r] = step.want]
         /\ step'.tokens = step.tokens - step.want
         /\ step'.input = step.input - step.want - DraftSlots
<1>1. step \in StepType /\ step.idx \in DOMAIN running
  BY DEF QInv, IInv, TypeOK, CursorOK, ScheduleRunning
<1>2. r \in Reqs /\ req[r] \in RequestType /\ req[r].status = "RUNNING"
  BY <1>1, RunningFacts
<1>3. Missing(r) \in Nat
  <2>1. /\ req[r].blocks \in Nat /\ req[r].num_computed \in Int /\ step.want \in Int
        /\ LookaheadFor(r, step.pad) \in Int
    BY <1>1, <1>2, RequestFields, StepFields, ConfigAssumption DEF LookaheadFor
  <2> QED  BY <2>1, NeedType DEF Missing
<1> DEFINE m == Missing(r)
           p == Granted(req[r], m)
<1>4. m <= free /\ free' = free - m /\ req' = [req EXCEPT ![r] = p]
  BY DEF ScheduleRunning
<1>5. /\ p.status = req[r].status /\ p.num_tokens = req[r].num_tokens
      /\ p.num_computed = req[r].num_computed /\ p.in_flight = req[r].in_flight
      /\ p.stale = req[r].stale /\ p.placeholders = req[r].placeholders
      /\ p.blocks = req[r].blocks + m
  <2> HIDE DEF m
  <2> QED  BY <1>2 DEF Granted, RequestType
<1>6. /\ step'.idx = step.idx + 1 /\ step'.want = 0
      /\ step'.n = [step.n EXCEPT ![r] = step.want]
      /\ step'.tokens = step.tokens - step.want
      /\ step'.input = step.input - step.want - DraftSlots
  BY <1>1 DEF ScheduleRunning, StepType
<1> QED  BY <1>1, <1>2, <1>3, <1>4, <1>5, <1>6

LEMMA PreemptEffect ==
  ASSUME IInv, NEW v \in Reqs, NEW drop \in BOOLEAN, Preempt(v, drop)
  PROVE  /\ \A x \in Reqs : x # v => req'[x] = req[x]
         /\ req'[v].status = "PREEMPTED" /\ req'[v].in_flight = req[v].in_flight
         /\ req'[v].stale = req[v].in_flight /\ req'[v].blocks = 0
         /\ req'[v].num_tokens = req[v].num_tokens
         /\ free' = free + req[v].blocks /\ batches' = MarkOld(v)
<1> DEFINE p == PreemptedReq(req[v], drop)
<1>1. req[v] \in RequestType
  BY DEF IInv, TypeOK
<1>2. /\ p.status = "PREEMPTED" /\ p.in_flight = req[v].in_flight
      /\ p.stale = req[v].in_flight /\ p.blocks = 0 /\ p.num_tokens = req[v].num_tokens
  BY <1>1 DEF PreemptedReq, RequestType
<1>3. /\ req' = [req EXCEPT ![v] = p] /\ free' = free + req[v].blocks
      /\ batches' = MarkOld(v)
  BY DEF Preempt
<1> HIDE DEF p
<1>4. \A x \in Reqs : req'[x] = IF x = v THEN p ELSE req[x]
  BY <1>3 DEF IInv, TypeOK
<1> QED  BY <1>2, <1>3, <1>4

LEMMA WithoutVictimEffect ==
  ASSUME step \in StepType, NEW v \in Reqs, NEW i,
         NEW t, t = StepWithoutVictim(v, i)
  PROVE  /\ t.n = [step.n EXCEPT ![v] = 0] /\ t.want = step.want
         /\ t.tokens = step.tokens + step.n[v]
         /\ t.input = IF step.n[v] > 0 THEN step.input + step.n[v] + DraftSlots ELSE step.input
         /\ t.idx = IF i < step.idx THEN step.idx - 1 ELSE step.idx
BY DEF StepWithoutVictim, StepType

LEMMA PreemptVictimEffect ==
  ASSUME QInv, PreemptVictim
  PROVE  \E i \in DOMAIN running :
           /\ running' = RemoveIndex(running, i) /\ Preempt(running[i], DropStale)
           /\ step'.n = [step.n EXCEPT ![running[i]] = 0]
           /\ step'.tokens = step.tokens + step.n[running[i]]
           /\ step'.input = IF step.n[running[i]] > 0
                            THEN step.input + step.n[running[i]] + DraftSlots ELSE step.input
           /\ step'.idx = IF i < step.idx THEN step.idx - 1 ELSE step.idx
           /\ \/ i = step.idx /\ pc' = "finish"
              \/ i # step.idx /\ pc' = "alloc" /\ step'.want = step.want
<1>1. PICK i \in DOMAIN running :
        /\ running' = RemoveIndex(running, i)
        /\ Preempt(running[i], DropStale)
        /\ IF i = step.idx
           THEN /\ pc' = "finish"
                /\ step' = [StepWithoutVictim(running[i], i) EXCEPT !.want = 0, !.pad = FALSE]
           ELSE pc' = pc /\ step' = StepWithoutVictim(running[i], i)
  BY DEF PreemptVictim
<1> DEFINE v == running[i]
           t == StepWithoutVictim(v, i)
<1>2. step \in StepType /\ pc = "alloc"
  BY DEF QInv, IInv, TypeOK, PreemptVictim
<1>3. i \in Nat \ {0} /\ v \in Reqs
  BY RunningFacts
<1>4. /\ t \in StepType
      /\ t.n = [step.n EXCEPT ![v] = 0] /\ t.want = step.want
      /\ t.tokens = step.tokens + step.n[v]
      /\ t.input = IF step.n[v] > 0 THEN step.input + step.n[v] + DraftSlots ELSE step.input
      /\ t.idx = IF i < step.idx THEN step.idx - 1 ELSE step.idx
  <2>1. t \in StepType
    BY <1>2, <1>3, WithoutVictimFacts
  <2> HIDE DEF v
  <2> QED  BY <1>2, <1>3, <2>1, WithoutVictimEffect
<1>5. IF i = step.idx THEN pc' = "finish" /\ step' = [t EXCEPT !.want = 0, !.pad = FALSE]
                      ELSE pc' = "alloc" /\ step' = t
  BY <1>1, <1>2
<1> HIDE DEF t
<1>6. /\ step'.n = t.n /\ step'.tokens = t.tokens /\ step'.input = t.input
      /\ step'.idx = t.idx /\ (i # step.idx => step'.want = t.want)
  BY <1>4, <1>5 DEF StepType
<1> QED  BY <1>1, <1>4, <1>5, <1>6

LEMMA AdmitEffect ==
  ASSUME QInv, TryAdmit
  PROVE  \/ pc' = "finish" /\ UNCHANGED <<req, running, step, free>>
         \/ LET r == Candidate
            IN  \E hit \in Nat, n \in Nat \ {0}, m \in Int :
                  /\ r \in Reqs /\ req[r].status \in {"WAITING", "PREEMPTED"}
                  /\ hit < req[r].num_tokens
                  /\ m \in EncoderLimited(r, hit, AdmissionTokens(r, hit)) /\ n <= m
                  /\ BlocksToAdmit(r, hit + n + LookaheadFor(r, FALSE)) <= free
                  /\ LET k == Need(r, hit + n + LookaheadFor(r, FALSE))
                     IN  /\ k \in Nat /\ free' = free - k
                         /\ req' = [req EXCEPT ![r] = Admitted(req[r], hit, k)]
                         /\ LET p == Admitted(req[r], hit, k)
                            IN  /\ p.status = "RUNNING" /\ p.num_tokens = req[r].num_tokens
                                /\ p.num_computed = hit /\ p.in_flight = req[r].in_flight
                                /\ p.stale = req[r].stale /\ p.blocks = req[r].blocks + k
                  /\ step'.n = [step.n EXCEPT ![r] = n]
                  /\ step'.tokens = step.tokens - n
                  /\ step'.input = step.input - n - DraftSlots
                  /\ step'.idx = step.idx /\ pc' = "waiting"
                  /\ running' = Append(running, r)
<1> DEFINE r == Candidate
<1>1. /\ IInv /\ step \in StepType /\ InWaitingPass /\ pc = "waiting"
      /\ Placed(req, running, waiting, skipped, step.skip)
  BY DEF QInv, Queued, IInv, TypeOK, TryAdmit
<1>a. PICK hit \in HitLengths(r) :
         \E m \in EncoderLimited(r, hit, AdmissionTokens(r, hit)) :
           LET n == ReserveLookahead(req[r], hit, m)
           IN  IF n = 0 \/ BlocksToAdmit(r, hit + n + LookaheadFor(r, FALSE)) > free
               THEN StopWaitingPass
               ELSE Admit(r, hit, n, PadNewDecode(r, hit))
  BY DEF TryAdmit
<1>2. PICK m \in EncoderLimited(r, hit, AdmissionTokens(r, hit)) :
        LET n == ReserveLookahead(req[r], hit, m)
        IN  IF n = 0 \/ BlocksToAdmit(r, hit + n + LookaheadFor(r, FALSE)) > free
            THEN StopWaitingPass
            ELSE Admit(r, hit, n, PadNewDecode(r, hit))
  BY <1>a
<1> DEFINE n == ReserveLookahead(req[r], hit, m)
           pad == PadNewDecode(r, hit)
           upto == hit + n + LookaheadFor(r, FALSE)
           k == Need(r, upto)
           p == Admitted(req[r], hit, k)
<1>3. CASE StopWaitingPass
  BY <1>3 DEF StopWaitingPass
<1>4. CASE n # 0 /\ ~(BlocksToAdmit(r, upto) > free) /\ Admit(r, hit, n, pad)
  <2>1. r \in Reqs /\ req[r].status \in {"WAITING", "PREEMPTED"} /\ req[r] \in RequestType
    <3>1. PopCandidate
      BY <1>4 DEF Admit
    <3>2. r \in Reqs /\ (r \in Range1(waiting) \/ r \in Range1(skipped))
      BY <1>1, <3>1, PoppedCandidate
    <3> HIDE DEF r
    <3> QED  BY <1>1, <3>2 DEF Placed, IInv, TypeOK
  <2> HIDE DEF r
  <2>2. hit \in Nat /\ hit < req[r].num_tokens
    BY ConfigAssumption DEF HitLengths
  <2>3. m \in Int
    BY <1>1, <2>1, <2>2, AdmissionType, EncoderLimitedType
  <2>4. n \in Nat \ {0} /\ n <= m
    BY <1>4, <2>1, <2>2, <2>3, ReserveBounds
  <2> HIDE DEF n, pad
  <2>5. k \in Nat
    <3>1. req[r].blocks \in Nat /\ LookaheadFor(r, FALSE) \in Nat
      BY <2>1, RequestFields, ConfigAssumption DEF LookaheadFor
    <3> DEFINE l == LookaheadFor(r, FALSE)
    <3>2. upto \in Int
      <4>1. l \in Nat
        BY <3>1
      <4> HIDE DEF l
      <4>2. hit + n + l \in Int
        BY <2>2, <2>4, <4>1
      <4> QED  BY <4>2 DEF l
    <3> HIDE DEF upto
    <3> QED  BY <3>1, <3>2, NeedType
  <2>6. /\ running' = Append(running, r) /\ free' = free - k
        /\ req' = [req EXCEPT ![r] = p] /\ pc' = "waiting"
    BY <1>1, <1>4 DEF Admit
  <2>7. /\ step'.n = [step.n EXCEPT ![r] = n] /\ step'.tokens = step.tokens - n
        /\ step'.input = step.input - n - DraftSlots /\ step'.idx = step.idx
    <3>1. PICK x : step' = [step EXCEPT !.n = [@ EXCEPT ![r] = n], !.spec = x,
                                        !.fresh = @ \cup {r},
                                        !.tokens = @ - n, !.input = @ - n - DraftSlots]
      BY <1>4 DEF Admit
    <3> QED  BY <1>1, <3>1 DEF StepType
  <2>8. /\ p.status = "RUNNING" /\ p.num_tokens = req[r].num_tokens
        /\ p.num_computed = hit /\ p.in_flight = req[r].in_flight
        /\ p.stale = req[r].stale /\ p.blocks = req[r].blocks + k
    <3> HIDE DEF k
    <3> QED  BY <2>1, <2>5 DEF Admitted, RequestType
  <2>9. BlocksToAdmit(r, upto) <= free
    <3>1. BlocksToAdmit(r, upto) \in Int /\ free \in Int
      <4>1. Need(r, req[r].num_tokens) \in Nat
        BY <2>1, RequestFields, NeedType
      <4> DEFINE j == Need(r, req[r].num_tokens)
      <4>2. BlocksToAdmit(r, upto) = Most(k, j) /\ j \in Nat
        BY <4>1 DEF BlocksToAdmit
      <4> HIDE DEF k, j
      <4>3. Most(k, j) \in Int
        BY <2>5, <4>2 DEF Most
      <4> QED  BY <1>1, <4>2, <4>3 DEF IInv, TypeOK
    <3> HIDE DEF upto
    <3> QED  BY <1>4, <3>1
  <2> HIDE DEF p
  <2> QED  BY <2>1, <2>2, <2>3, <2>4, <2>5, <2>6, <2>7, <2>8, <2>9 DEF p, r
<1> QED  BY <1>2, <1>3, <1>4

----------------------------------------------------------------------------
(* The counts of tokens in flight, action by action.                       *)

\* One request of the step gets a count.
LEMMA CountedSet ==
  ASSUME NEW f, NEW n \in [Reqs -> Int], Counted(f, n), NEW r \in Reqs, NEW k \in Nat,
         f[r].status # "ABSENT"
  PROVE  Counted(f, [n EXCEPT ![r] = k])
BY DEF Counted

LEMMA StepCounts ==
  ASSUME FInv
  PROVE  /\ step \in StepType /\ step.n \in [Reqs -> Int] /\ Counted(req, step.n)
         /\ \A r \in Reqs : step.n[r] \in Nat
BY StepFields DEF FInv, QInv, IInv, TypeOK, Flight, StepCounted, Counted

\* Actions that touch neither requests nor batches.
LEMMA QuietFlight ==
  ASSUME FInv,
         EndRunningPass \/ EndWaitingPass \/ SkipStale \/ SkipRunning \/ PickRunning
         \/ (\E p \in PauseStates : SetPause(p)) \/ BeginReset \/ EndReset
         \/ UNCHANGED vars
  PROVE  Flight'
<1>1. /\ UNCHANGED <<req, batches, todo>>
      /\ pc' # pc => pc # "update" /\ pc' # "update"
  BY DEF EndRunningPass, EndWaitingPass, SkipStale, SkipRunning, PickRunning, SetPause,
         BeginReset, EndReset, vars
<1>2. StepCounted'
  <2>1. Counted(req, step.n) /\ (pc = "alloc" => step.want \in Nat) /\ step \in StepType
    BY DEF FInv, Flight, StepCounted, QInv, IInv, TypeOK
  <2>2. CASE PickRunning
    <3>1. step'.n = step.n /\ (pc' = "alloc" => step'.want \in Nat)
      BY <2>2, PickEffect DEF FInv, PickRunning
    <3> QED  BY <1>1, <2>1, <3>1 DEF StepCounted
  <2>3. CASE SkipStale \/ SkipRunning
    <3>1. step'.n = step.n /\ pc' # "alloc"
      BY <2>1, <2>3 DEF SkipStale, SkipRunning, StepType
    <3> QED  BY <1>1, <2>1, <3>1 DEF StepCounted
  <2>4. CASE EndRunningPass \/ EndWaitingPass \/ (\E p \in PauseStates : SetPause(p))
             \/ BeginReset \/ EndReset \/ UNCHANGED vars
    <3>1. step' = step /\ (pc' = "alloc" => pc = "alloc")
      BY <2>4 DEF EndRunningPass, EndWaitingPass, SetPause, BeginReset, EndReset, vars
    <3> QED  BY <1>1, <2>1, <3>1 DEF StepCounted
  <2> QED  BY <2>2, <2>3, <2>4
<1>3. Arriving /\ \A r \in Reqs : SameFlight(req[r], req'[r])
  BY <1>1 DEF Arriving, SameFlight
<1> QED  BY <1>1, <1>2, <1>3, SameBatches

LEMMA BeginStepFlight == FInv /\ BeginStep => Flight'
<1> SUFFICES ASSUME FInv, BeginStep  PROVE Flight'
  OBVIOUS
<1>1. step'.n = NoTokens /\ pc = "idle" /\ pc' = "running" /\ batches' = batches
  BY DEF BeginStep, NewStep
<1>2. StepCounted'
  BY <1>1 DEF StepCounted, Counted, NoTokens
<1>3. ASSUME NEW r \in Reqs
      PROVE  /\ req'[r].status = req[r].status /\ req'[r].in_flight = req[r].in_flight
             /\ req'[r].stale = req[r].stale
  <2>1. req[r] \in RequestType /\ req'[r] = [req[r] EXCEPT !.cooldown = Most(0, @ - 1)]
    BY DEF BeginStep, FInv, QInv, IInv, TypeOK
  <2> QED  BY <2>1 DEF RequestType
<1>4. Arriving /\ \A r \in Reqs : SameFlight(req[r], req'[r])
  BY <1>3 DEF Arriving, SameFlight
<1> QED  BY <1>1, <1>2, <1>4, SameBatches

LEMMA ScheduleRunningFlight == FInv /\ ScheduleRunning => Flight'
<1> SUFFICES ASSUME FInv, ScheduleRunning  PROVE Flight'
  OBVIOUS
<1> DEFINE r == running[step.idx]
           p == Granted(req[r], Missing(r))
<1>1. /\ r \in Reqs /\ req[r].status = "RUNNING" /\ req' = [req EXCEPT ![r] = p]
      /\ p.status = req[r].status /\ p.in_flight = req[r].in_flight
      /\ p.stale = req[r].stale /\ step'.n = [step.n EXCEPT ![r] = step.want]
  BY ScheduleRunningEffect DEF FInv
<1>2. pc = "alloc" /\ pc' = "running" /\ batches' = batches /\ step.want \in Nat
  BY DEF ScheduleRunning, FInv, Flight, StepCounted
<1> HIDE DEF p, r
<1>3. \A x \in Reqs : req'[x] = IF x = r THEN p ELSE req[x]
  BY <1>1, OneChanges DEF FInv, QInv
<1>4. Arriving /\ \A x \in Reqs : SameFlight(req[x], req'[x])
  BY <1>1, <1>3 DEF Arriving, SameFlight
<1>5. StepCounted'
  <2>1. Counted(req', step.n)
    BY <1>4, StepCounts, CountedKept
  <2>2. Counted(req', [step.n EXCEPT ![r] = step.want])
    BY <1>1, <1>2, <1>4, <2>1, StepCounts, CountedSet DEF Arriving
  <2> QED  BY <1>1, <1>2, <2>2 DEF StepCounted
<1> QED  BY <1>2, <1>4, <1>5, SameBatches

LEMMA TryAdmitFlight == FInv /\ TryAdmit => Flight'
<1> SUFFICES ASSUME FInv, TryAdmit  PROVE Flight'
  OBVIOUS
<1>1. pc = "waiting" /\ pc' \in {"waiting", "finish"} /\ batches' = batches
  BY DEF TryAdmit, StopWaitingPass, Admit
<1>2. CASE UNCHANGED <<req, step>>
  <2>1. Arriving /\ \A x \in Reqs : SameFlight(req[x], req'[x])
    BY <1>2 DEF Arriving, SameFlight
  <2>2. StepCounted'
    BY <1>1, <1>2, StepCounts DEF StepCounted
  <2> QED  BY <1>1, <2>1, <2>2, SameBatches
<1>3. CASE ~UNCHANGED <<req, step>>
  <2> DEFINE r == Candidate
  <2>1. PICK n, p :
          /\ n \in Nat \ {0}
          /\ r \in Reqs /\ req[r].status \in {"WAITING", "PREEMPTED"}
          /\ req' = [req EXCEPT ![r] = p]
          /\ p.status = "RUNNING" /\ p.in_flight = req[r].in_flight /\ p.stale = req[r].stale
          /\ step'.n = [step.n EXCEPT ![r] = n]
    BY <1>3, AdmitEffect DEF FInv
  <2> HIDE DEF r
  <2>2. \A x \in Reqs : req'[x] = IF x = r THEN p ELSE req[x]
    BY <2>1, OneChanges DEF FInv, QInv
  <2>3. Arriving /\ \A x \in Reqs : SameFlight(req[x], req'[x])
    BY <2>1, <2>2 DEF Arriving, SameFlight
  <2>4. StepCounted'
    <3>1. Counted(req', step.n)
      BY <2>3, StepCounts, CountedKept
    <3>2. Counted(req', [step.n EXCEPT ![r] = n])
      BY <2>1, <2>3, <3>1, StepCounts, CountedSet DEF Arriving
    <3> QED  BY <1>1, <2>1, <3>2 DEF StepCounted
  <2> QED  BY <1>1, <2>3, <2>4, SameBatches
<1> QED  BY <1>2, <1>3

LEMMA ClientFlight ==
  ASSUME NEW v \in Reqs, FInv, AddRequest(v) \/ Abort(v)
  PROVE  Flight'
<1>1. pc = "idle" /\ pc' = "idle" /\ UNCHANGED <<batches, step>>
  BY DEF AddRequest, Abort
<1>2. PICK p : /\ req' = [req EXCEPT ![v] = p]
               /\ \/ req[v].status = "ABSENT" /\ p.status = "WAITING"
                     /\ p.in_flight = 0 /\ p.stale = 0
                  \/ p.status = "FINISHED"
  <2> DEFINE p(s, k) == Blank(s, k)
  <2>0. \A s, k : p(s, k).status = s /\ p(s, k).in_flight = 0 /\ p(s, k).stale = 0
    BY DEF Blank
  <2> HIDE DEF p
  <2>1. CASE AddRequest(v)
    <3> DEFINE w == p("WAITING", PromptLen[v])
    <3>1. req' = [req EXCEPT ![v] = w] /\ req[v].status = "ABSENT"
      BY <2>1 DEF AddRequest, p
    <3>2. w.status = "WAITING" /\ w.in_flight = 0 /\ w.stale = 0
      BY <2>0
    <3> HIDE DEF w
    <3> QED  BY <3>1, <3>2
  <2>2. CASE Abort(v)
    <3>1. req' = [req EXCEPT ![v] = p("FINISHED", req[v].num_tokens)]
      BY <2>2 DEF Abort, Retire, p
    <3> QED  BY <2>0, <3>1
  <2> QED  BY <2>1, <2>2
<1>3. \A x \in Reqs : req'[x] = IF x = v THEN p ELSE req[x]
  BY <1>2, OneChanges DEF FInv, QInv
<1>4. Arriving /\ \A x \in Reqs : SameFlight(req[x], req'[x])
  BY <1>2, <1>3 DEF Arriving, SameFlight
<1>5. StepCounted'
  BY <1>1, <1>4, StepCounts, CountedKept DEF StepCounted
<1> QED  BY <1>1, <1>4, <1>5, SameBatches

LEMMA UpdateDraftsFlight == FInv /\ UpdateDrafts => Flight'
<1> SUFFICES ASSUME FInv, UpdateDrafts  PROVE Flight'
  OBVIOUS
<1>1. PICK count :
        req' = [r \in Reqs |-> IF r \in drafts /\ Live(r)
                               THEN [req[r] EXCEPT !.spec = count[r]] ELSE req[r]]
  BY DEF UpdateDrafts
<1>2. ASSUME NEW r \in Reqs
      PROVE  /\ req'[r].status = req[r].status /\ req'[r].in_flight = req[r].in_flight
             /\ req'[r].stale = req[r].stale
  <2>1. req[r] \in RequestType
    BY DEF FInv, QInv, IInv, TypeOK
  <2> QED  BY <1>1, <2>1 DEF RequestType
<1>3. pc = "idle" /\ pc' = "idle" /\ UNCHANGED <<batches, step>>
  BY DEF UpdateDrafts
<1>4. Arriving /\ \A r \in Reqs : SameFlight(req[r], req'[r])
  BY <1>2 DEF Arriving, SameFlight
<1>5. StepCounted'
  BY <1>3, <1>4, StepCounts, CountedKept DEF StepCounted
<1> QED  BY <1>3, <1>4, <1>5, SameBatches

\* A preemption makes old what is in flight of the request, and stale its count.
LEMMA PreemptFlight ==
  ASSUME FInv, NEW v \in Reqs, req[v].status = "RUNNING", NEW drop \in BOOLEAN,
         Preempt(v, drop), StepCounted', pc # "update", pc' # "update"
  PROVE  Flight'
<1> DEFINE n == Len(batches)
<1>1. /\ \A x \in Reqs : x # v => req'[x] = req[x]
      /\ req'[v].status = "PREEMPTED" /\ req'[v].in_flight = req[v].in_flight
      /\ req'[v].stale = req[v].in_flight /\ batches' = MarkOld(v)
  BY PreemptEffect DEF FInv, QInv
<1>2. /\ n \in Nat /\ DOMAIN batches = 1 .. n
      /\ \A i \in 1 .. n : batches[i] \in BatchType /\ batches[i].n \in [Reqs -> Int]
  BY BatchFacts DEF FInv, QInv
<1>3. DOMAIN batches' = 1 .. n /\ Len(batches') = n
  <2>1. batches' \in Seq(BatchType) /\ DOMAIN batches' = 1 .. n
    BY <1>1, <1>2, MarkOldType DEF MarkOld, FInv, QInv, IInv, TypeOK
  <2> QED  BY <1>2, <2>1, LenProperties
<1>4. ASSUME NEW i \in 1 .. n
      PROVE  /\ batches'[i].n = batches[i].n
             /\ batches'[i].old = IF v \in ScheduledIn(batches[i])
                                  THEN batches[i].old \cup {v} ELSE batches[i].old
  <2>1. batches'[i] = IF v \in ScheduledIn(batches[i])
                      THEN [batches[i] EXCEPT !.old = @ \cup {v}] ELSE batches[i]
    BY <1>1, <1>2 DEF MarkOld
  <2> QED  BY <1>2, <2>1 DEF BatchType
<1>5. Arriving
  BY <1>1 DEF Arriving
<1>6. BatchesCounted'
  BY <1>2, <1>3, <1>4, <1>5, CountedKept DEF FInv, Flight, BatchesCounted
<1>7. OldFirst'
  <2> SUFFICES ASSUME NEW i \in 1 .. n, NEW j \in 1 .. n, i < j, NEW r \in Reqs,
                      batches[i].n[r] > 0, r \in batches'[j].old
               PROVE  r \in batches'[i].old
    BY <1>3, <1>4 DEF OldFirst, ScheduledIn
  <2>1. CASE r = v
    BY <1>4, <2>1 DEF ScheduledIn
  <2>2. CASE r # v
    <3>1. r \in batches[j].old
      BY <1>4, <2>2
    <3>2. r \in batches[i].old
      BY <1>2, <3>1 DEF FInv, Flight, OldFirst, ScheduledIn
    <3> QED  BY <1>4, <3>2
  <2> QED  BY <2>1, <2>2
<1>8. InFlightExact'
  <2> SUFFICES ASSUME NEW r \in Reqs, Live(r)'
               PROVE  /\ req'[r].in_flight = Total(Pending(r)', n)
                      /\ req'[r].stale = Total(PendingOld(r)', n)
    BY <1>3 DEF InFlightExact
  <2>1. /\ Live(r) /\ req[r].in_flight = Total(Pending(r), n)
        /\ req[r].stale = Total(PendingOld(r), n)
    BY <1>1 DEF FInv, Flight, InFlightExact, Live
  <2>2. \A i \in 1 .. n : Pending(r)[i] = batches[i].n[r] /\ Pending(r)'[i] = batches[i].n[r]
    BY <1>2, <1>3, <1>4 DEF Pending
  <2>3. Total(Pending(r)', n) = Total(Pending(r), n)
    BY <1>2, <2>2, TotalSame
  <2>4. CASE r = v
    <3>1. ASSUME NEW i \in 1 .. n
          PROVE  PendingOld(r)'[i] = Pending(r)[i]
      <4>1. PendingOld(r)'[i] = IF r \in batches'[i].old THEN batches[i].n[r] ELSE 0
        BY <1>3, <2>2 DEF PendingOld
      <4>2. batches[i].n[r] \in Nat
        BY <1>2 DEF FInv, Flight, BatchesCounted, Counted
      <4>3. batches[i].n[r] > 0 => r \in batches'[i].old
        BY <1>4, <2>4 DEF ScheduledIn
      <4> QED  BY <2>2, <4>1, <4>2, <4>3
    <3>2. Total(PendingOld(r)', n) = Total(Pending(r), n)
      BY <1>2, <3>1, TotalSame
    <3> QED  BY <1>1, <2>1, <2>3, <2>4, <3>2
  <2>5. CASE r # v
    <3>1. \A i \in 1 .. n : PendingOld(r)'[i] = PendingOld(r)[i]
      BY <1>2, <1>3, <1>4, <2>2, <2>5 DEF PendingOld
    <3>2. Total(PendingOld(r)', n) = Total(PendingOld(r), n)
      BY <1>2, <3>1, TotalSame
    <3> QED  BY <1>1, <2>1, <2>3, <2>5, <3>2
  <2> QED  BY <2>4, <2>5
<1> QED  BY <1>6, <1>7, <1>8 DEF Flight, TodoOfHead

LEMMA PreemptVictimFlight == FInv /\ PreemptVictim => Flight'
<1> SUFFICES ASSUME FInv, PreemptVictim  PROVE Flight'
  OBVIOUS
<1>1. PICK i \in DOMAIN running :
        /\ Preempt(running[i], DropStale)
        /\ step'.n = [step.n EXCEPT ![running[i]] = 0]
        /\ pc' = "finish" \/ (pc' = "alloc" /\ step'.want = step.want)
  BY PreemptVictimEffect DEF FInv
<1> DEFINE v == running[i]
<1>2. v \in Reqs /\ req[v].status = "RUNNING"
  BY RunningFacts DEF FInv
<1>3. Preempt(v, DropStale) /\ DropStale \in BOOLEAN /\ step'.n = [step.n EXCEPT ![v] = 0]
  BY <1>1, ConfigAssumption
<1> HIDE DEF v
<1>4. Arriving
  BY <1>2, <1>3, PreemptEffect DEF FInv, QInv, Arriving
<1>5. StepCounted'
  <2>1. Counted(req', step.n)
    BY <1>4, StepCounts, CountedKept
  <2>2. Counted(req', [step.n EXCEPT ![v] = 0])
    BY <1>2, <1>4, <2>1, StepCounts, CountedSet DEF Arriving
  <2> QED  BY <1>1, <1>3, <2>2 DEF StepCounted, FInv, Flight, PreemptVictim
<1>6. pc # "update" /\ pc' # "update"
  BY <1>1 DEF PreemptVictim
<1> QED  BY <1>2, <1>3, <1>5, <1>6, PreemptFlight

LEMMA ResetOneFlight == FInv /\ ResetOne => Flight'
<1> SUFFICES ASSUME FInv, ResetOne  PROVE Flight'
  OBVIOUS
<1> DEFINE v == running[Len(running)]
<1>1. Preempt(v, TRUE) /\ step' = step /\ pc = "reset" /\ pc' = "reset"
  BY DEF ResetOne
<1>2. v \in Reqs /\ req[v].status = "RUNNING"
  <2>1. running \in Seq(Reqs) /\ running # <<>>
    BY DEF FInv, QInv, IInv, TypeOK, ResetOne
  <2>2. Len(running) \in DOMAIN running
    BY <2>1, EmptySeq, LenProperties
  <2> QED  BY <2>2, RunningFacts DEF FInv
<1> HIDE DEF v
<1>3. Arriving
  BY <1>1, <1>2, PreemptEffect DEF FInv, QInv, Arriving
<1>4. StepCounted'
  BY <1>1, <1>3, StepCounts, CountedKept DEF StepCounted
<1> QED  BY <1>1, <1>2, <1>4, PreemptFlight

\* The step's counts are added to what is in flight.
LEMMA AdvancedFields ==
  ASSUME NEW q \in RequestType, NEW n \in Int, NEW spec \in Int
  PROVE  LET p == Advanced(q, n, spec)
         IN  /\ p.status = q.status /\ p.num_tokens = q.num_tokens
             /\ p.num_computed = q.num_computed + n /\ p.in_flight = q.in_flight + n
             /\ p.stale = q.stale /\ p.blocks = q.blocks
BY DEF Advanced, PlanOutput, RequestType

LEMMA FinishEffect ==
  ASSUME IInv, FinishStep, NEW r \in Reqs
  PROVE  /\ req'[r].status = req[r].status /\ req'[r].num_tokens = req[r].num_tokens
         /\ req'[r].stale = req[r].stale /\ req'[r].blocks = req[r].blocks
         /\ step.n[r] > 0 =>
              /\ req'[r].num_computed = req[r].num_computed + step.n[r]
              /\ req'[r].in_flight = req[r].in_flight + step.n[r]
         /\ ~(step.n[r] > 0) => req'[r] = req[r]
<1>1. req[r] \in RequestType /\ step.n[r] \in Int /\ step.spec[r] \in Int
  BY StepFields DEF IInv, TypeOK
<1>2. req'[r] = IF step.n[r] > 0 THEN Advanced(req[r], step.n[r], step.spec[r]) ELSE req[r]
  BY DEF FinishStep, ScheduledNow
<1> QED  BY <1>1, <1>2, AdvancedFields

LEMMA FinishStepFlight == FInv /\ FinishStep => Flight'
<1> SUFFICES ASSUME FInv, FinishStep  PROVE Flight'
  OBVIOUS
<1> DEFINE n == Len(batches)
<1>1. /\ n \in Nat /\ DOMAIN batches = 1 .. n /\ batches \in Seq(BatchType)
      /\ \A i \in 1 .. n : batches[i] \in BatchType /\ batches[i].n \in [Reqs -> Int]
  BY BatchFacts DEF FInv, QInv
<1>2. pc = "finish" /\ pc' = "idle" /\ step'.n = NoTokens
  BY DEF FinishStep, NoStep, NewStep
<1>3. \A r \in Reqs : step.n[r] \in Nat /\ (step.n[r] > 0 => req[r].status # "ABSENT")
  BY StepCounts DEF Counted
<1>4. Arriving
  BY FinishEffect DEF FInv, QInv, Arriving
<1>5. StepCounted'
  BY <1>2 DEF StepCounted, Counted, NoTokens
<1>6. CASE ScheduledNow = {}
  <2>1. batches' = batches
    BY <1>6 DEF FinishStep
  <2>2. \A r \in Reqs : req'[r] = req[r]
    BY <1>6, FinishEffect DEF FInv, QInv, ScheduledNow
  <2> QED  BY <1>2, <1>4, <1>5, <2>1, <2>2, SameBatches DEF SameFlight
<1>7. CASE ScheduledNow # {}
  <2> DEFINE b == NewBatch
  <2>1. b.n = step.n /\ b.old = {} /\ batches' = Append(batches, b)
    BY <1>7 DEF NewBatch, FinishStep
  <2>2. /\ DOMAIN batches' = 1 .. n + 1 /\ Len(batches') = n + 1 /\ batches'[n + 1] = b
        /\ \A i \in 1 .. n : batches'[i] = batches[i]
    <3> HIDE DEF b
    <3>1. DOMAIN Append(batches, b) = 1 .. n + 1 /\ Len(Append(batches, b)) = n + 1
      BY <1>1
    <3>2. \A i \in 1 .. n + 1 : Append(batches, b)[i] = IF i = n + 1 THEN b ELSE batches[i]
      BY <1>1
    <3> QED  BY <1>1, <2>1, <3>1, <3>2
  <2> HIDE DEF b
  <2>3. BatchesCounted'
    <3>1. \A i \in 1 .. n : Counted(req', batches[i].n)
      BY <1>1, <1>4, CountedKept DEF FInv, Flight, BatchesCounted
    <3>2. Counted(req', step.n)
      BY <1>4, StepCounts, CountedKept
    <3>3. \A i \in 1 .. n + 1 : i \in 1 .. n \/ i = n + 1
      BY <1>1
    <3> QED  BY <2>1, <2>2, <3>1, <3>2, <3>3 DEF BatchesCounted
  <2>4. OldFirst'
    <3> SUFFICES ASSUME NEW i \in 1 .. n + 1, NEW j \in 1 .. n + 1, i < j, NEW r \in Reqs,
                        batches'[i].n[r] > 0, r \in batches'[j].old
                 PROVE  r \in batches'[i].old
      BY <2>2 DEF OldFirst, ScheduledIn
    <3>1. j # n + 1
      BY <2>1, <2>2
    <3>2. i \in 1 .. n /\ j \in 1 .. n
      <4> HIDE DEF n
      <4> QED  BY <1>1, <3>1
    <3> QED  BY <1>1, <2>2, <3>2 DEF FInv, Flight, OldFirst, ScheduledIn
  <2>5. InFlightExact'
    <3> SUFFICES ASSUME NEW r \in Reqs, Live(r)'
                 PROVE  /\ req'[r].in_flight = Total(Pending(r)', n + 1)
                        /\ req'[r].stale = Total(PendingOld(r)', n + 1)
      BY <2>2 DEF InFlightExact
    <3>1. /\ Live(r) /\ req'[r].stale = req[r].stale
          /\ req'[r].in_flight = req[r].in_flight + step.n[r]
      <4>1. req[r].in_flight \in Int
        BY RequestFields DEF FInv, QInv, IInv, TypeOK
      <4> QED  BY <1>3, <4>1, FinishEffect DEF FInv, QInv, Live
    <3>2. req[r].in_flight = Total(Pending(r), n) /\ req[r].stale = Total(PendingOld(r), n)
      BY <3>1 DEF FInv, Flight, InFlightExact
    <3>3. \A i \in 1 .. n : Pending(r)'[i] = Pending(r)[i] /\ PendingOld(r)'[i] = PendingOld(r)[i]
      BY <1>1, <1>2, <2>2 DEF Pending, PendingOld
    <3>4. Pending(r)'[n + 1] = step.n[r] /\ PendingOld(r)'[n + 1] = 0
      <4>1. n + 1 \in DOMAIN batches'
        BY <1>1, <2>2
      <4> QED  BY <1>2, <2>1, <2>2, <4>1 DEF Pending, PendingOld
    <3>5. /\ Total(Pending(r)', n) = Total(Pending(r), n)
          /\ Total(PendingOld(r)', n) = Total(PendingOld(r), n)
      BY <1>1, <3>3, TotalSame
    <3>6. /\ Total(Pending(r)', n + 1) = Total(Pending(r)', n) + step.n[r]
          /\ Total(PendingOld(r)', n + 1) = Total(PendingOld(r)', n) + 0
      <4>1. n + 1 \in Nat \ {0} /\ n + 1 - 1 = n
        BY <1>1
      <4>2. /\ Total(Pending(r)', n + 1) = Total(Pending(r)', n) + Pending(r)'[n + 1]
            /\ Total(PendingOld(r)', n + 1) = Total(PendingOld(r)', n) + PendingOld(r)'[n + 1]
        BY <4>1, TotalSteps
      <4> QED  BY <3>4, <4>2
    <3>7. Total(PendingOld(r), n) \in Int
      <4>1. \A i \in 1 .. n : PendingOld(r)[i] \in Int
        BY PendingFacts
      <4> QED  BY <1>1, <4>1, TotalType
    <3> QED  BY <3>1, <3>2, <3>5, <3>6, <3>7
  <2> QED  BY <1>2, <1>5, <2>3, <2>4, <2>5 DEF Flight, TodoOfHead
<1> QED  BY <1>6, <1>7

LEMMA BeginUpdateFlight == FInv /\ BeginUpdate => Flight'
<1> SUFFICES ASSUME FInv, BeginUpdate  PROVE Flight'
  OBVIOUS
<1> DEFINE n == Len(batches)
<1>1. /\ n \in Nat /\ DOMAIN batches = 1 .. n /\ batches \in Seq(BatchType)
      /\ \A i \in 1 .. n : batches[i].n \in [Reqs -> Int]
  BY BatchFacts DEF FInv, QInv
<1>2. /\ pc = "idle" /\ pc' = "update" /\ batches # <<>> /\ UNCHANGED <<req, batches, step>>
      /\ todo' = ScheduledIn(Head(batches))
  BY DEF BeginUpdate
<1>3. Head(batches) = batches[1]
  BY <1>1, <1>2
<1>4. InFlightExact'
  <2> SUFFICES ASSUME NEW r \in Reqs, Live(r)
               PROVE  /\ req[r].in_flight = Total(Pending(r)', n)
                      /\ req[r].stale = Total(PendingOld(r)', n)
    BY <1>2 DEF InFlightExact, Live
  <2>1. ASSUME NEW i \in 1 .. n
        PROVE  Pending(r)'[i] = Pending(r)[i] /\ PendingOld(r)'[i] = PendingOld(r)[i]
    <3>1. Pending(r)[i] = batches[i].n[r]
          /\ Pending(r)'[i] = IF i = 1 /\ r \notin todo' THEN 0 ELSE batches[i].n[r]
      BY <1>1, <1>2 DEF Pending
    <3>2. batches[i].n[r] \in Nat
      BY <1>1 DEF FInv, Flight, BatchesCounted, Counted
    <3>3. i = 1 /\ r \notin todo' => batches[i].n[r] = 0
      BY <1>2, <1>3, <3>2 DEF ScheduledIn
    <3>4. Pending(r)'[i] = Pending(r)[i]
      BY <3>1, <3>3
    <3> QED  BY <1>1, <1>2, <3>4 DEF PendingOld
  <2>2. /\ Total(Pending(r)', n) = Total(Pending(r), n)
        /\ Total(PendingOld(r)', n) = Total(PendingOld(r), n)
    BY <1>1, <2>1, TotalSame
  <2> QED  BY <2>2 DEF FInv, Flight, InFlightExact
<1> QED  BY <1>2, <1>4 DEF FInv, Flight, StepCounted, BatchesCounted, Counted, OldFirst,
                            ScheduledIn, TodoOfHead

\* Taking the output of v out of the oldest batch.
LEMMA HeadTaken ==
  ASSUME FInv, pc = "update", UNCHANGED <<pc, batches, step>>, NEW v \in todo,
         todo' = todo \ {v}, \A x \in Reqs : x # v => req'[x] = req[x],
         req'[v].status # "ABSENT",
         Live(v)' =>
           /\ Live(v)
           /\ req'[v].in_flight = req[v].in_flight - Head(batches).n[v]
           /\ req'[v].stale = IF req[v].stale > 0 THEN req[v].stale - Head(batches).n[v]
                              ELSE req[v].stale
  PROVE  Flight'
<1> DEFINE n == Len(batches)
<1>1. /\ n \in Nat /\ n >= 1 /\ DOMAIN batches = 1 .. n /\ Head(batches) = batches[1]
      /\ v \in Reqs /\ 1 \in 1 .. n
  BY BatchFacts DEF FInv, QInv, Flight, TodoOfHead, ScheduledIn
<1>2. Arriving
  BY DEF Arriving
<1>3. StepCounted' /\ BatchesCounted'
  BY <1>1, <1>2, CountedKept DEF FInv, Flight, StepCounted, BatchesCounted
<1>4. InFlightExact'
  <2> SUFFICES ASSUME NEW r \in Reqs, Live(r)'
               PROVE  /\ req'[r].in_flight = Total(Pending(r)', n)
                      /\ req'[r].stale = Total(PendingOld(r)', n)
    BY DEF InFlightExact
  <2>1. /\ Live(r) /\ req[r].in_flight = Total(Pending(r), n)
        /\ req[r].stale = Total(PendingOld(r), n)
    BY DEF FInv, Flight, InFlightExact, Live
  <2>2. \A i \in 1 .. n : Pending(r)[i] \in Nat /\ PendingOld(r)[i] \in Nat
    BY PendingFacts
  <2>3. CASE r # v
    <3>1. Pending(r)' = Pending(r)
      BY <2>3 DEF Pending
    <3>2. PendingOld(r)' = PendingOld(r)
      BY <3>1 DEF PendingOld
    <3> QED  BY <2>1, <2>3, <3>1, <3>2
  <2>4. CASE r = v
    <3> DEFINE k == batches[1].n[v]
    <3>1. Pending(v)[1] = k /\ Pending(v)'[1] = 0
      BY <1>1 DEF Pending
    <3>2. \A i \in 1 .. n : i # 1 => Pending(v)'[i] = Pending(v)[i]
      BY <1>1 DEF Pending
    <3>3. \A i \in 1 .. n : Pending(v)'[i] \in Int
      BY <2>2, <2>4, <3>1, <3>2
    <3>4. Total(Pending(v)', n) = Total(Pending(v), n) + 0 - k
      <4>1. Total(Pending(v)', n) = Total(Pending(v), n) + Pending(v)'[1] - Pending(v)[1]
        BY <1>1, <2>2, <2>4, <3>2, <3>3, TotalChange
      <4> QED  BY <3>1, <4>1
    <3>5. \A i \in 1 .. n : i # 1 => PendingOld(v)'[i] = PendingOld(v)[i]
      BY <1>1, <3>2 DEF PendingOld
    <3>6. PendingOld(v)'[1] = 0 /\ PendingOld(v)[1] = IF v \in batches[1].old THEN k ELSE 0
      BY <1>1, <3>1 DEF PendingOld
    <3>7. \A i \in 1 .. n : PendingOld(v)'[i] \in Int
      BY <2>2, <2>4, <3>5, <3>6
    <3>8. Total(PendingOld(v)', n) = Total(PendingOld(v), n) + 0 - PendingOld(v)[1]
      <4>1. Total(PendingOld(v)', n)
              = Total(PendingOld(v), n) + PendingOld(v)'[1] - PendingOld(v)[1]
        BY <1>1, <2>2, <2>4, <3>5, <3>7, TotalChange
      <4> QED  BY <3>6, <4>1
    <3>9. req[v].stale > 0 <=> v \in batches[1].old
      BY <1>1, <2>1, <2>4, FlightTells DEF StaleMeansOldRun
    <3>10. k \in Int /\ Total(Pending(v), n) \in Int /\ Total(PendingOld(v), n) \in Int
      BY <1>1, <2>2, <2>4, <3>1, TotalType
    <3> HIDE DEF k
    <3>11. /\ req'[v].in_flight = req[v].in_flight - k
           /\ req'[v].stale = IF req[v].stale > 0 THEN req[v].stale - k ELSE req[v].stale
      BY <1>1, <2>4 DEF k
    <3>12. req'[v].in_flight = Total(Pending(v)', n)
      BY <2>1, <2>4, <3>4, <3>10, <3>11
    <3>13. req'[v].stale = Total(PendingOld(v)', n)
      BY <2>1, <2>4, <3>6, <3>8, <3>9, <3>10, <3>11
    <3> QED  BY <2>4, <3>12, <3>13
  <2> QED  BY <2>3, <2>4
<1> QED  BY <1>3, <1>4 DEF FInv, Flight, OldFirst, ScheduledIn, TodoOfHead

LEMMA TakenFlight ==
  ASSUME FInv, NEW v \in Reqs, IgnoreOutput(v) \/ DropOutput(v) \/ DeliverOutput(v)
  PROVE  Flight'
<1>1. /\ pc = "update" /\ UNCHANGED <<pc, batches, step>> /\ v \in todo /\ todo' = todo \ {v}
  BY DEF IgnoreOutput, DropOutput, DeliverOutput
<1>2. IInv /\ req[v] \in RequestType
  BY DEF FInv, QInv, IInv, TypeOK
<1> DEFINE k == Head(batches).n[v]
           q == req[v]
<1>3. CASE IgnoreOutput(v)
  <2>1. req' = req /\ ~Live(v)
    BY <1>3 DEF IgnoreOutput
  <2>2. req[v].status # "ABSENT"
    <3>1. k > 0 /\ Head(batches) = batches[1] /\ 1 \in DOMAIN batches
      BY <1>1, BatchFacts DEF FInv, QInv, Flight, TodoOfHead, ScheduledIn
    <3> QED  BY <3>1 DEF FInv, Flight, BatchesCounted, Counted
  <2> QED  BY <1>1, <2>1, <2>2, HeadTaken DEF Live
<1>4. CASE DropOutput(v)
  <2> DEFINE p == Drained(q, k)
  <2>1. req' = [req EXCEPT ![v] = p] /\ Live(v)
    BY <1>4 DEF DropOutput
  <2>2. /\ p.status = q.status /\ p.in_flight = q.in_flight - k
        /\ p.stale = IF q.stale > 0 THEN q.stale - k ELSE q.stale
    BY <1>2 DEF Drained, RequestType
  <2> HIDE DEF p
  <2>3. \A x \in Reqs : req'[x] = IF x = v THEN p ELSE req[x]
    BY <1>2, <2>1 DEF IInv, TypeOK
  <2> QED  BY <1>1, <2>1, <2>2, <2>3, HeadTaken DEF Live
<1>5. CASE DeliverOutput(v)
  <2>1. \/ req' = [req EXCEPT ![v] = Blank("FINISHED", req[v].num_tokens)]
        \/ \E accepted, cut, c : req' = [req EXCEPT ![v] = Answered(v, accepted, cut, c)]
    BY <1>5 DEF DeliverOutput, Retire
  <2>2. PICK p : /\ req' = [req EXCEPT ![v] = p]
                 /\ \/ p.status = "FINISHED"
                    \/ /\ p.status = q.status /\ p.in_flight = q.in_flight - k
                       /\ p.stale = IF q.stale > 0 THEN q.stale - k ELSE q.stale
    <3>1. CASE req' = [req EXCEPT ![v] = Blank("FINISHED", req[v].num_tokens)]
      <4> DEFINE p == Blank("FINISHED", req[v].num_tokens)
      <4>1. p.status = "FINISHED"
        BY DEF Blank
      <4> HIDE DEF p
      <4> QED  BY <3>1, <4>1 DEF p
    <3>2. CASE \E accepted, cut, c : req' = [req EXCEPT ![v] = Answered(v, accepted, cut, c)]
      <4>1. PICK accepted, cut, c : req' = [req EXCEPT ![v] = Answered(v, accepted, cut, c)]
        BY <3>2
      <4> DEFINE p == Answered(v, accepted, cut, c)
      <4>2. /\ p.status = q.status /\ p.in_flight = q.in_flight - k
            /\ p.stale = IF q.stale > 0 THEN q.stale - k ELSE q.stale
        BY <1>2 DEF Answered, GrammarCut, RolledBack, Drained, RequestType
      <4> HIDE DEF p
      <4> QED  BY <4>1, <4>2 DEF p
    <3> QED  BY <2>1, <3>1, <3>2
  <2>3. \A x \in Reqs : req'[x] = IF x = v THEN p ELSE req[x]
    BY <1>2, <2>2 DEF IInv, TypeOK
  <2>4. Live(v)
    BY <1>5 DEF DeliverOutput
  <2> QED  BY <1>1, <2>2, <2>3, <2>4, HeadTaken DEF Live
<1> QED  BY <1>3, <1>4, <1>5

LEMMA EndUpdateFlight == FInv /\ EndUpdate => Flight'
<1> SUFFICES ASSUME FInv, EndUpdate  PROVE Flight'
  OBVIOUS
<1> DEFINE n == Len(batches) - 1
<1>1. /\ pc = "update" /\ pc' = "idle" /\ UNCHANGED <<req, step>> /\ todo = {}
      /\ batches' = Tail(batches)
  BY DEF EndUpdate
<1>2. /\ batches \in Seq(BatchType) /\ Len(batches) \in Nat /\ Len(batches) >= 1
      /\ DOMAIN batches = 1 .. n + 1 /\ batches # <<>>
  BY <1>1, BatchFacts DEF FInv, QInv, IInv, CursorOK
<1>3. n \in Nat /\ Len(batches) = n + 1
  BY <1>2
<1>4. /\ Len(batches') = n /\ DOMAIN batches' = 1 .. n
      /\ \A i \in 1 .. n : batches'[i] = batches[i + 1]
  <2>1. /\ Tail(batches) \in Seq(BatchType) /\ Len(Tail(batches)) = Len(batches) - 1
        /\ \A i \in 1 .. Len(Tail(batches)) : Tail(batches)[i] = batches[i + 1]
    BY <1>2, HeadTailProperties
  <2> QED  BY <1>1, <1>3, <2>1, LenProperties
<1> HIDE DEF n
<1>5. \A i \in 1 .. n : i + 1 \in 1 .. n + 1
  BY <1>3
<1>6. StepCounted' /\ BatchesCounted'
  BY <1>1, <1>2, <1>4, <1>5 DEF FInv, Flight, StepCounted, BatchesCounted, Counted
<1>7. OldFirst'
  <2> SUFFICES ASSUME NEW i \in 1 .. n, NEW j \in 1 .. n, i < j, NEW r \in Reqs,
                      batches'[i].n[r] > 0, r \in batches'[j].old
               PROVE  r \in batches'[i].old
    BY <1>4 DEF OldFirst, ScheduledIn
  <2>1. i + 1 \in DOMAIN batches /\ j + 1 \in DOMAIN batches /\ i + 1 < j + 1
    BY <1>2, <1>5
  <2> QED  BY <1>4, <2>1 DEF FInv, Flight, OldFirst, ScheduledIn
<1>8. InFlightExact'
  <2> SUFFICES ASSUME NEW r \in Reqs, Live(r)
               PROVE  /\ req[r].in_flight = Total(Pending(r)', n)
                      /\ req[r].stale = Total(PendingOld(r)', n)
    BY <1>1, <1>4 DEF InFlightExact, Live
  <2>1. /\ req[r].in_flight = Total(Pending(r), n + 1)
        /\ req[r].stale = Total(PendingOld(r), n + 1)
    BY <1>3 DEF FInv, Flight, InFlightExact
  <2>2. \A i \in 1 .. n + 1 : Pending(r)[i] \in Int /\ PendingOld(r)[i] \in Int
    BY <1>3, PendingFacts
  <2>3. 1 \in DOMAIN batches
    BY <1>2, <1>3
  <2>4. Pending(r)[1] = 0 /\ PendingOld(r)[1] = 0
    BY <1>1, <2>3 DEF Pending, PendingOld
  <2>5. ASSUME NEW i \in 1 .. n
        PROVE  Pending(r)'[i] = Pending(r)[i + 1] /\ PendingOld(r)'[i] = PendingOld(r)[i + 1]
    <3>1. i + 1 \in DOMAIN batches /\ i \in DOMAIN batches' /\ i + 1 # 1
      BY <1>2, <1>3, <1>4, <1>5
    <3>2. Pending(r)'[i] = batches[i + 1].n[r] /\ Pending(r)[i + 1] = batches[i + 1].n[r]
      BY <1>1, <1>4, <3>1 DEF Pending
    <3> QED  BY <1>4, <3>1, <3>2 DEF PendingOld
  <2>6. /\ Total(Pending(r), n + 1) = Pending(r)[1] + Total(Pending(r)', n)
        /\ Total(PendingOld(r), n + 1) = PendingOld(r)[1] + Total(PendingOld(r)', n)
    BY <1>3, <2>2, <2>5, TotalShift
  <2>7. Total(Pending(r)', n) \in Int /\ Total(PendingOld(r)', n) \in Int
    BY <1>3, <1>5, <2>2, <2>5, TotalType
  <2> QED  BY <2>1, <2>4, <2>6, <2>7
<1> QED  BY <1>1, <1>6, <1>7, <1>8 DEF Flight, TodoOfHead

----------------------------------------------------------------------------
LEMMA InitFInv == Init => FInv
<1> SUFFICES ASSUME Init  PROVE FInv
  OBVIOUS
<1>1. step.n = NoTokens /\ pc = "idle" /\ batches = <<>>
  BY DEF Init, NoStep, NewStep
<1>2. \A r \in Reqs : ~Live(r)
  BY DEF Init, Blank, Live
<1>3. Flight
  BY <1>1, <1>2 DEF Flight, StepCounted, Counted, NoTokens, BatchesCounted, OldFirst,
                    TodoOfHead, InFlightExact
<1> QED  BY <1>3, InitQInv DEF FInv

LEMMA NextFInv == FInv /\ [Next]_vars => FInv'
<1> SUFFICES ASSUME FInv, [Next]_vars  PROVE FInv'
  OBVIOUS
<1>1. QInv'
  BY NextQInv DEF FInv
<1>2. Flight'
  <2>1. CASE BeginStep \/ UpdateDrafts \/ FinishStep \/ BeginUpdate \/ EndUpdate \/ ResetOne
    BY <2>1, BeginStepFlight, UpdateDraftsFlight, FinishStepFlight, BeginUpdateFlight,
       EndUpdateFlight, ResetOneFlight
  <2>2. CASE ScheduleRunning \/ PreemptVictim \/ TryAdmit
    BY <2>2, ScheduleRunningFlight, PreemptVictimFlight, TryAdmitFlight
  <2>3. CASE \E r \in Reqs : IgnoreOutput(r) \/ DropOutput(r) \/ DeliverOutput(r)
    BY <2>3, TakenFlight
  <2>4. CASE \E r \in Reqs : AddRequest(r) \/ Abort(r)
    BY <2>4, ClientFlight
  <2>5. CASE EndRunningPass \/ EndWaitingPass \/ SkipStale \/ SkipRunning \/ PickRunning
             \/ (\E p \in PauseStates : SetPause(p)) \/ BeginReset \/ EndReset
             \/ UNCHANGED vars
    BY <2>5, QuietFlight
  <2> QED  BY <2>1, <2>2, <2>3, <2>4, <2>5 DEF Next, Schedule, Update, Environment
<1> QED  BY <1>1, <1>2 DEF FInv

\* The counts, what the batches carry and which of it is old hold together in every state.
THEOREM FlightInductive == Spec => []FInv
<1> QED  BY InitFInv, NextFInv, PTL DEF Spec

\* num_in_flight_tokens and num_stale_output_tokens of every live request are what the
\* batches still out carry for it, whatever was preempted, reset or dropped meanwhile.
THEOREM CountsStayExact == Spec => []InFlightExact
<1>1. FInv => InFlightExact
  BY DEF FInv, Flight
<1> QED  BY <1>1, FlightInductive, PTL

\* update_from_output() treats output as stale exactly when its batch was scheduled
\* before the latest preemption of the request.
THEOREM StaleToldApart == Spec => []StaleMeansOldRun
<1> QED  BY FlightTells, FlightInductive, PTL
=============================================================================
