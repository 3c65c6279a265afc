------------------------- MODULE SchedulerStepProofs -------------------------
(***************************************************************************)
(* Scheduler: the call of schedule() in progress, the two budgets it       *)
(* spends and the KV blocks it hands out, for every value of the           *)
(* constants.  CInv carries the slots of every running request, BInv the   *)
(* block pool, GInv what the budgets lost, and LInv the limits.            *)
(***************************************************************************)
EXTENDS SchedulerProofs

----------------------------------------------------------------------------
(* Sums over the requests.                                                 *)

\* With finitely many requests ReqList names each of them once.
LEMMA ListingFacts ==
  ASSUME IsFiniteSet(Reqs)
  PROVE  /\ Cardinality(Reqs) \in Nat
         /\ ReqList \in [1 .. Cardinality(Reqs) -> Reqs]
         /\ \A i, j \in 1 .. Cardinality(Reqs) : ReqList[i] = ReqList[j] => i = j
         /\ \A r \in Reqs : \E i \in 1 .. Cardinality(Reqs) : ReqList[i] = r
<1> DEFINE N == Cardinality(Reqs)
<1>1. N \in Nat /\ ExistsBijection(1 .. N, Reqs)
  BY FS_CardinalityType
<1>2. \E e \in [1 .. N -> Reqs] : \A i, j \in 1 .. N : e[i] = e[j] => i = j
  BY <1>1 DEF ExistsBijection, Bijection, Injection, IsInjective
<1>3. /\ ReqList \in [1 .. N -> Reqs]
      /\ \A i, j \in 1 .. N : ReqList[i] = ReqList[j] => i = j
  BY <1>2 DEF ReqList, Listing
<1>4. IsFiniteSet(1 .. N) /\ Cardinality(1 .. N) = N
  BY <1>1, FS_Interval
<1>5. ReqList \in Injection(1 .. N, Reqs)
  BY <1>3 DEF Injection, IsInjective
<1>6. ReqList \in Surjection(1 .. N, Reqs)
  BY <1>4, <1>5, FS_Injection
<1> QED  BY <1>1, <1>3, <1>6 DEF Surjection

LEMMA SumSame ==
  ASSUME IsFiniteSet(Reqs), NEW f, NEW g, \A r \in Reqs : g[r] = f[r]
  PROVE  SumReqs(g) = SumReqs(f)
<1> DEFINE N == Cardinality(Reqs)
           v == [i \in 1 .. N |-> g[ReqList[i]]]
           w == [i \in 1 .. N |-> f[ReqList[i]]]
<1>1. N \in Nat /\ \A i \in 1 .. N : v[i] = w[i]
  BY ListingFacts
<1> HIDE DEF v, w
<1>2. Total(v, N) = Total(w, N)
  BY <1>1, TotalSame
<1> QED  BY <1>2 DEF SumReqs, v, w

LEMMA SumType ==
  ASSUME IsFiniteSet(Reqs), NEW f, \A r \in Reqs : f[r] \in Int
  PROVE  SumReqs(f) \in Int
<1> DEFINE N == Cardinality(Reqs)
           w == [i \in 1 .. N |-> f[ReqList[i]]]
<1>1. N \in Nat /\ \A i \in 1 .. N : w[i] \in Int
  BY ListingFacts
<1> HIDE DEF w
<1>2. Total(w, N) \in Int
  BY <1>1, TotalType
<1> QED  BY <1>2 DEF SumReqs, w

LEMMA SumZero ==
  ASSUME IsFiniteSet(Reqs), NEW f, \A r \in Reqs : f[r] = 0
  PROVE  SumReqs(f) = 0
<1> DEFINE N == Cardinality(Reqs)
           w == [i \in 1 .. N |-> f[ReqList[i]]]
<1>1. N \in Nat /\ \A i \in 1 .. N : w[i] = 0
  BY ListingFacts
<1> HIDE DEF w
<1>2. Total(w, N) = 0
  BY <1>1, TotalZero
<1> QED  BY <1>2 DEF SumReqs, w

\* One request's share changes.
LEMMA SumChange ==
  ASSUME IsFiniteSet(Reqs), NEW r \in Reqs, NEW f, NEW g,
         \A x \in Reqs : f[x] \in Int /\ g[x] \in Int /\ (x # r => g[x] = f[x])
  PROVE  SumReqs(g) = SumReqs(f) + g[r] - f[r]
<1> DEFINE N == Cardinality(Reqs)
           v == [i \in 1 .. N |-> g[ReqList[i]]]
           w == [i \in 1 .. N |-> f[ReqList[i]]]
<1>1. PICK k \in 1 .. N : ReqList[k] = r
  BY ListingFacts
<1>2. N \in Nat /\ \A i \in 1 .. N : ReqList[i] \in Reqs /\ (i # k => ReqList[i] # r)
  BY <1>1, ListingFacts
<1>3. \A i \in 1 .. N : v[i] \in Int /\ w[i] \in Int /\ (i # k => v[i] = w[i])
  BY <1>2
<1>4. v[k] = g[r] /\ w[k] = f[r]
  BY <1>1
<1> HIDE DEF v, w
<1>5. Total(v, N) = Total(w, N) + v[k] - w[k]
  BY <1>2, <1>3, TotalChange
<1> QED  BY <1>4, <1>5 DEF SumReqs, v, w

----------------------------------------------------------------------------
(* KV blocks.                                                              *)

LEMMA CeilDivCovers ==
  ASSUME NEW a \in Int, NEW b \in Nat \ {0}
  PROVE  CeilDiv(a, b) \in Int /\ CeilDiv(a, b) * b >= a
<1> DEFINE x == a + b - 1
           d == x \div b
<1>1. x \in Int /\ d \in Int
  OBVIOUS
<1>2. x = b * d + (x % b) /\ 0 <= x % b /\ x % b <= b - 1
  <2> HIDE DEF x
  <2> QED  BY <1>1
<1>3. b * d >= a
  <2> DEFINE m == x % b
             bd == b * d
  <2>1. m \in Int /\ bd \in Int /\ x = bd + m /\ m <= b - 1 /\ x = a + b - 1
    BY <1>1, <1>2
  <2> HIDE DEF x, m, bd
  <2>2. bd >= a
    BY <2>1
  <2> QED  BY <2>2 DEF bd
<1>4. b * d = d * b
  BY <1>1
<1> QED  BY <1>1, <1>3, <1>4 DEF CeilDiv

\* More blocks have room for as many tokens.
LEMMA MoreBlocks ==
  ASSUME NEW b \in Nat \ {0}, NEW x \in Int, NEW y \in Int, x <= y
  PROVE  x * b <= y * b
OBVIOUS

----------------------------------------------------------------------------
(* The inductive invariant of the step in progress.                        *)

Pass == {"running", "alloc", "waiting", "finish"}

\* Only a call of schedule() in progress has counts, and of running requests only.
StepNow == \A r \in Reqs : step.n[r] > 0 => req[r].status = "RUNNING" /\ pc \in Pass

\* The pass over `running' has not scheduled what is still before its cursor.
Ahead ==
  pc \in {"running", "alloc"} =>
    \A i \in DOMAIN running : i >= step.idx => step.n[running[i]] = 0

Wanted == pc = "alloc" => step.want \in Nat \ {0}

InStep == StepNow /\ Ahead /\ Wanted /\ SlotsCoverTokens

CInv == FInv /\ InStep

\* A running request that went on running with no more tokens and no fewer blocks.
Sheltered(q, p, n, m) ==
  p.status = "RUNNING" =>
    q.status = "RUNNING" /\ p.blocks >= q.blocks /\ p.num_computed + m <= q.num_computed + n

LEMMA Covered ==
  ASSUME CInv, req' \in [Reqs -> RequestType], step' \in StepType,
         \A r \in Reqs : Sheltered(req[r], req'[r], step.n[r], step'.n[r])
  PROVE  SlotsCoverTokens'
<1> SUFFICES ASSUME NEW r \in Reqs, req'[r].status = "RUNNING"
             PROVE  req'[r].blocks * BlockSize
                      >= Least(req'[r].num_computed + step'.n[r], MaxModelLen)
  BY DEF SlotsCoverTokens
<1> DEFINE x == req[r].num_computed + step.n[r]
           y == req'[r].num_computed + step'.n[r]
           a == req[r].blocks
           b == req'[r].blocks
           ab == a * BlockSize
           bb == b * BlockSize
<1>1. a \in Nat /\ b \in Nat /\ x \in Int /\ y \in Int
      /\ MaxModelLen \in Nat /\ BlockSize \in Nat \ {0}
  <2>1. req[r] \in RequestType /\ step \in StepType
    BY DEF CInv, FInv, QInv, IInv, TypeOK
  <2>2. /\ req[r].num_computed \in Int /\ a \in Nat /\ step.n[r] \in Int
        /\ req'[r].num_computed \in Int /\ b \in Nat /\ step'.n[r] \in Int
    BY <2>1, RequestFields, StepFields
  <2> QED  BY <2>2, ConfigAssumption
<1>2. req[r].status = "RUNNING" /\ a <= b /\ y <= x
  BY <1>1 DEF Sheltered
<1>3. ab >= Least(x, MaxModelLen)
  BY <1>2 DEF CInv, InStep, SlotsCoverTokens
<1> HIDE DEF x, y, a, b
<1>4. ab \in Int /\ bb \in Int /\ ab <= bb
  BY <1>1, <1>2, MoreBlocks
<1> HIDE DEF ab, bb
<1>5. bb >= Least(y, MaxModelLen)
  BY <1>1, <1>2, <1>3, <1>4 DEF Least
<1> QED  BY <1>5 DEF bb, b, y

\* What CInv says of types, for short.
LEMMA StepTypes ==
  ASSUME CInv
  PROVE  /\ step \in StepType /\ step.n \in [Reqs -> Int] /\ req \in [Reqs -> RequestType]
         /\ \A r \in Reqs : step.n[r] \in Nat
         /\ step.idx \in Nat \ {0} /\ running \in Seq(Reqs)
         /\ Len(running) \in Nat /\ DOMAIN running = 1 .. Len(running)
BY StepCounts, StepFields, LenProperties DEF CInv, FInv, QInv, IInv, TypeOK

\* Outside schedule() nothing is in the step.
LEMMA OutsideSteps ==
  ASSUME CInv, IInv', pc \notin Pass, pc' \notin Pass, step' = step,
         \A r \in Reqs : Sheltered(req[r], req'[r], 0, 0)
  PROVE  InStep'
<1>1. \A r \in Reqs : ~(step.n[r] > 0)
  BY DEF CInv, InStep, StepNow
<1>2. \A r \in Reqs : step.n[r] = 0
  BY <1>1, StepTypes
<1>3. SlotsCoverTokens'
  <2>1. req' \in [Reqs -> RequestType] /\ step' \in StepType
    BY DEF IInv, TypeOK
  <2>2. \A r \in Reqs : Sheltered(req[r], req'[r], step.n[r], step'.n[r])
    BY <1>2
  <2> QED  BY <2>1, <2>2, Covered
<1> QED  BY <1>1, <1>3 DEF InStep, StepNow, Ahead, Wanted, Pass

\* Rejections and grammar cuts only take tokens back.
LEMMA RolledFields ==
  ASSUME NEW q \in RequestType, NEW k \in Nat, NEW isStale
  PROVE  LET p == RolledBack(q, k, isStale)
         IN  /\ p \in RequestType /\ p.status = q.status /\ p.blocks = q.blocks
             /\ p.num_computed <= q.num_computed
<1> DEFINE x == IF q.num_computed > 0 THEN q.num_computed - k ELSE q.num_computed
           y == IF q.placeholders > 0 THEN q.placeholders - k ELSE q.placeholders
           p == [q EXCEPT !.num_computed = x, !.placeholders = y]
<1>1. x \in Int /\ y \in Int /\ x <= q.num_computed /\ q.num_computed \in Int
  BY RequestFields
<1>2. RolledBack(q, k, isStale) = IF isStale THEN q ELSE p
  BY DEF RolledBack, RequestType
<1> HIDE DEF x, y
<1>3. p \in RequestType /\ p.status = q.status /\ p.blocks = q.blocks /\ p.num_computed = x
  BY <1>1 DEF RequestType
<1> HIDE DEF p
<1> QED  BY <1>1, <1>2, <1>3

\* Committed output leaves the blocks where they are; a request it stops returns them.
LEMMA AnsweredShelters ==
  ASSUME FInv, NEW v \in Reqs, DeliverOutput(v)
  PROVE  \E p : /\ req' = [req EXCEPT ![v] = p] /\ Sheltered(req[v], p, 0, 0)
               /\ \/ Retire(v)
                  \/ p.status = req[v].status /\ p.blocks = req[v].blocks /\ free' = free
<1> DEFINE b == Head(batches)
           q == req[v]
<1>1. /\ q \in RequestType /\ b \in BatchType /\ pc = "update"
  <2>1. batches \in Seq(BatchType) /\ batches # <<>> /\ q \in RequestType /\ pc = "update"
    BY DEF FInv, QInv, IInv, TypeOK, CursorOK, DeliverOutput
  <2> QED  BY <2>1, HeadTailProperties
<1>2. b.spec[v] \in Int /\ b.n[v] \in Int
  BY <1>1 DEF BatchType
<1> HIDE DEF b
<1>3. PICK accepted \in IF v \in b.samples THEN 0 .. b.spec[v] ELSE {0} :
        LET generated == IF v \in b.samples THEN accepted + 1 ELSE 0
        IN  \E cut \in GrammarCuts(v, b.spec[v], generated, q.stale > 0) :
            \E c \in Committed(v, generated - cut) :
              \/ Retire(v)
              \/ req' = [req EXCEPT ![v] = Answered(v, accepted, cut, c)] /\ free' = free
  BY DEF DeliverOutput, b
<1> DEFINE generated == IF v \in b.samples THEN accepted + 1 ELSE 0
<1>4. PICK cut \in GrammarCuts(v, b.spec[v], generated, q.stale > 0) :
        \E c \in Committed(v, generated - cut) :
          \/ Retire(v)
          \/ req' = [req EXCEPT ![v] = Answered(v, accepted, cut, c)] /\ free' = free
  BY <1>3
<1>5. accepted \in Int /\ cut \in Nat
  BY <1>2, <1>3, <1>4 DEF GrammarCuts
<1> HIDE DEF generated
<1>6. PICK c : \/ Retire(v)
               \/ req' = [req EXCEPT ![v] = Answered(v, accepted, cut, c)] /\ free' = free
  BY <1>4
<1>7. CASE Retire(v)
  <2> DEFINE p == Blank("FINISHED", req[v].num_tokens)
  <2>1. req' = [req EXCEPT ![v] = p] /\ p.status = "FINISHED"
    BY <1>7 DEF Retire, Blank
  <2> HIDE DEF p
  <2> QED  BY <1>7, <2>1 DEF Sheltered, p
<1>8. CASE req' = [req EXCEPT ![v] = Answered(v, accepted, cut, c)] /\ free' = free
  <2> DEFINE rejected == IF v \in b.samples THEN b.spec[v] - accepted ELSE 0
             isStale == q.stale > 0
             q1 == Drained(q, b.n[v])
             q2 == RolledBack(q1, rejected, isStale)
             q3 == GrammarCut(q2, cut)
             p == Answered(v, accepted, cut, c)
  <2>1. rejected \in Nat
    BY <1>2, <1>3, <1>5
  <2>2. p = [q3 EXCEPT !.num_tokens = @ + c.m,
                       !.placeholders = IF Async /\ ~isStale THEN @ - c.m ELSE @,
                       !.runner = RunnerAfter(v, b, rejected)]
    BY DEF Answered, b
  <2>3. /\ q1 \in RequestType /\ q1.status = q.status /\ q1.blocks = q.blocks
        /\ q1.num_computed = q.num_computed
    <3>1. q1 \in RequestType
      BY <1>1, <1>2, DrainedType
    <3> QED  BY <1>1, <3>1 DEF Drained, RequestType
  <2> HIDE DEF q1, rejected, isStale
  <2>4. /\ q2 \in RequestType /\ q2.status = q1.status /\ q2.blocks = q1.blocks
        /\ q2.num_computed <= q1.num_computed
    BY <2>1, <2>3, RolledFields
  <2> HIDE DEF q2
  <2>5. /\ q3 \in RequestType /\ q3.status = q2.status /\ q3.blocks = q2.blocks
        /\ q3.num_computed <= q2.num_computed
    <3>1. CASE cut = 0
      BY <2>4, <3>1, RequestFields DEF GrammarCut
    <3>2. CASE cut # 0
      <4>1. q3 = RolledBack(q2, cut, FALSE)
        BY <3>2 DEF GrammarCut
      <4>2. q2 \in RequestType /\ cut \in Nat
        BY <1>5, <2>4
      <4> DEFINE o == RolledBack(q2, cut, FALSE)
      <4>3. /\ o \in RequestType /\ o.status = q2.status /\ o.blocks = q2.blocks
            /\ o.num_computed <= q2.num_computed
        BY <4>2, RolledFields
      <4>4. q3 = o
        BY <4>1
      <4> HIDE DEF o, q3
      <4> QED  BY <4>3, <4>4
    <3> QED  BY <3>1, <3>2
  <2> HIDE DEF q3
  <2>6. p.status = q3.status /\ p.blocks = q3.blocks /\ p.num_computed = q3.num_computed
    BY <2>2, <2>5 DEF RequestType
  <2>7. /\ q.num_computed \in Int /\ q1.num_computed \in Int /\ q2.num_computed \in Int
        /\ q3.num_computed \in Int /\ q.blocks \in Nat
    BY <1>1, <2>3, <2>4, <2>5, RequestFields
  <2> HIDE DEF p
  <2>8. Sheltered(q, p, 0, 0)
    BY <2>3, <2>4, <2>5, <2>6, <2>7 DEF Sheltered
  <2>9. p.status = q.status /\ p.blocks = q.blocks
    BY <2>3, <2>4, <2>5, <2>6
  <2> QED  BY <1>8, <2>8, <2>9 DEF p
<1> QED  BY <1>6, <1>7, <1>8

LEMMA OutsideInStep ==
  ASSUME CInv, IInv',
         UpdateDrafts \/ BeginUpdate \/ EndUpdate \/ BeginReset \/ EndReset \/ ResetOne
         \/ (\E p \in PauseStates : SetPause(p))
         \/ (\E r \in Reqs : IgnoreOutput(r) \/ DropOutput(r) \/ DeliverOutput(r)
                             \/ AddRequest(r) \/ Abort(r))
  PROVE  InStep'
<1>1. pc \notin Pass /\ pc' \notin Pass /\ step' = step
  BY DEF UpdateDrafts, BeginUpdate, EndUpdate, BeginReset, EndReset, ResetOne, SetPause,
         IgnoreOutput, DropOutput, DeliverOutput, AddRequest, Abort, Pass
<1>2. IInv /\ QInv /\ req \in [Reqs -> RequestType]
  BY StepTypes DEF CInv, FInv, QInv
<1>3. \A r \in Reqs : /\ req[r] \in RequestType /\ req[r].blocks \in Nat
                      /\ req[r].num_computed \in Int
  BY <1>2, RequestFields
<1>4. ASSUME NEW p, NEW v \in Reqs, req' = [req EXCEPT ![v] = p], Sheltered(req[v], p, 0, 0)
      PROVE  InStep'
  <2>1. \A x \in Reqs : req'[x] = IF x = v THEN p ELSE req[x]
    BY <1>2, <1>4
  <2>2. \A x \in Reqs : Sheltered(req[x], req'[x], 0, 0)
    BY <1>3, <1>4, <2>1 DEF Sheltered
  <2> QED  BY <1>1, <2>2, OutsideSteps
<1>5. CASE UpdateDrafts
  <2>1. PICK count :
          req' = [r \in Reqs |-> IF r \in drafts /\ Live(r)
                                 THEN [req[r] EXCEPT !.spec = count[r]] ELSE req[r]]
    BY <1>5 DEF UpdateDrafts
  <2>2. ASSUME NEW r \in Reqs
        PROVE  Sheltered(req[r], req'[r], 0, 0)
    <3>1. /\ req'[r].status = req[r].status /\ req'[r].blocks = req[r].blocks
          /\ req'[r].num_computed = req[r].num_computed
      BY <1>3, <2>1 DEF RequestType
    <3> QED  BY <1>3, <3>1 DEF Sheltered
  <2> QED  BY <1>1, <2>2, OutsideSteps
<1>6. CASE BeginUpdate \/ EndUpdate \/ BeginReset \/ EndReset
           \/ (\E p \in PauseStates : SetPause(p)) \/ (\E r \in Reqs : IgnoreOutput(r))
  <2>1. req' = req
    BY <1>6 DEF BeginUpdate, EndUpdate, BeginReset, EndReset, SetPause, IgnoreOutput
  <2>2. \A r \in Reqs : Sheltered(req[r], req'[r], 0, 0)
    BY <1>3, <2>1 DEF Sheltered
  <2> QED  BY <1>1, <2>2, OutsideSteps
<1>7. CASE ResetOne
  <2> DEFINE v == running[Len(running)]
             p == PreemptedReq(req[v], TRUE)
  <2>1. v \in Reqs
    <3>1. Len(running) \in DOMAIN running
      BY <1>7, StepTypes, EmptySeq DEF ResetOne
    <3> QED  BY <1>2, <3>1, RunningFacts
  <2>2. p.status = "PREEMPTED"
    BY <1>3, <2>1, PreemptedType
  <2>3. req' = [req EXCEPT ![v] = p]
    BY <1>7 DEF ResetOne, Preempt
  <2> HIDE DEF p, v
  <2> QED  BY <1>4, <2>1, <2>2, <2>3 DEF Sheltered
<1>8. CASE \E r \in Reqs : AddRequest(r) \/ Abort(r)
  <2>1. PICK v \in Reqs : AddRequest(v) \/ Abort(v)
    BY <1>8
  <2>2. PICK s, k : s \in {"WAITING", "FINISHED"} /\ req' = [req EXCEPT ![v] = Blank(s, k)]
    BY <2>1 DEF AddRequest, Abort, Retire
  <2>3. Blank(s, k).status = s
    BY DEF Blank
  <2>4. Sheltered(req[v], Blank(s, k), 0, 0)
    BY <2>2, <2>3 DEF Sheltered
  <2> QED  BY <1>4, <2>2, <2>4
<1>9. CASE \E r \in Reqs : DropOutput(r)
  <2>1. PICK v \in Reqs : DropOutput(v)
    BY <1>9
  <2> DEFINE p == Drained(req[v], Head(batches).n[v])
  <2>2. req' = [req EXCEPT ![v] = p]
    BY <2>1 DEF DropOutput
  <2>3. /\ p.status = req[v].status /\ p.blocks = req[v].blocks
        /\ p.num_computed = req[v].num_computed
    BY <1>3 DEF Drained, RequestType
  <2> HIDE DEF p
  <2>4. Sheltered(req[v], p, 0, 0)
    BY <1>3, <2>3 DEF Sheltered
  <2> QED  BY <1>4, <2>2, <2>4
<1>10. CASE \E r \in Reqs : DeliverOutput(r)
  <2>1. PICK v \in Reqs : DeliverOutput(v)
    BY <1>10
  <2>2. PICK p : req' = [req EXCEPT ![v] = p] /\ Sheltered(req[v], p, 0, 0)
    BY <2>1, AnsweredShelters DEF CInv
  <2> QED  BY <1>4, <2>2
<1> QED  BY <1>5, <1>6, <1>7, <1>8, <1>9, <1>10

----------------------------------------------------------------------------
(* The step in progress: the actions of schedule().                        *)

\* allocate_slots leaves room for every token up to the one asked for.
LEMMA NeedCovers ==
  ASSUME NEW r, req[r].blocks \in Nat, NEW x \in Int, NEW upto \in Int, x <= upto
  PROVE  (req[r].blocks + Need(r, upto)) * BlockSize >= Least(x, MaxModelLen)
<1> DEFINE l == Least(upto, MaxModelLen)
           c == CeilDiv(l, BlockSize)
           b == req[r].blocks
           k == Need(r, upto)
<1>1. l \in Int /\ Least(x, MaxModelLen) \in Int /\ Least(x, MaxModelLen) <= l
  BY ConfigAssumption DEF Least
<1>2. BlockSize \in Nat \ {0} /\ b \in Nat /\ k = Most(0, c - b)
  BY ConfigAssumption DEF Need
<1> HIDE DEF l
<1>3. c \in Int /\ c * BlockSize >= l
  BY <1>1, <1>2, CeilDivCovers
<1> DEFINE cb == c * BlockSize
           kb == (b + k) * BlockSize
<1> HIDE DEF c, b, k
<1>4. b + k \in Int /\ c <= b + k
  BY <1>2, <1>3 DEF Most
<1>5. cb <= kb
  BY <1>2, <1>3, <1>4, MoreBlocks
<1>6. cb \in Int /\ kb \in Int /\ cb >= l
  BY <1>2, <1>3, <1>4
<1> HIDE DEF cb, kb
<1>7. kb >= Least(x, MaxModelLen)
  BY <1>1, <1>5, <1>6
<1> QED  BY <1>7 DEF kb, k, b

LEMMA BeginStepInStep == CInv /\ IInv' /\ BeginStep => InStep'
<1> SUFFICES ASSUME CInv, IInv', BeginStep  PROVE InStep'
  OBVIOUS
<1>1. /\ step'.n = NoTokens /\ pc = "idle" /\ pc' = "running" /\ running' = running
      /\ step' \in StepType /\ req' \in [Reqs -> RequestType]
  BY DEF BeginStep, NewStep, IInv, TypeOK
<1>2. \A r \in Reqs : step'.n[r] = 0 /\ step.n[r] = 0
  <2>1. \A r \in Reqs : ~(step.n[r] > 0) /\ step.n[r] \in Nat
    BY <1>1, StepTypes DEF CInv, InStep, StepNow, Pass
  <2> QED  BY <1>1, <2>1 DEF NoTokens
<1>3. ASSUME NEW r \in Reqs
      PROVE  Sheltered(req[r], req'[r], step.n[r], step'.n[r])
  <2>1. req[r] \in RequestType /\ req'[r] = [req[r] EXCEPT !.cooldown = Most(0, @ - 1)]
    BY StepTypes DEF BeginStep
  <2>2. /\ req'[r].status = req[r].status /\ req'[r].blocks = req[r].blocks
        /\ req'[r].num_computed = req[r].num_computed
    BY <2>1 DEF RequestType
  <2>3. req[r].blocks \in Nat /\ req[r].num_computed \in Int
    BY <2>1, RequestFields
  <2> QED  BY <1>2, <2>2, <2>3 DEF Sheltered
<1>4. SlotsCoverTokens'
  BY <1>1, <1>3, Covered
<1>5. \A i \in DOMAIN running : running[i] \in Reqs
  BY RunningFacts DEF CInv, FInv
<1>6. StepNow' /\ Ahead' /\ Wanted'
  BY <1>1, <1>2, <1>5 DEF StepNow, Ahead, Wanted
<1> QED  BY <1>4, <1>6 DEF InStep

\* The cursor moves on, or the pass ends; nobody is scheduled.
LEMMA CursorForward ==
  ASSUME CInv, step' \in StepType, req' = req, running' = running, step'.n = step.n,
         pc \in Pass, pc' \in Pass,
         pc' \in {"running", "alloc"} => pc = "running" /\ step'.idx >= step.idx,
         pc' = "alloc" => step'.want \in Nat \ {0}
  PROVE  InStep'
<1>1. StepNow' /\ Wanted' /\ SlotsCoverTokens'
  BY DEF CInv, InStep, StepNow, Wanted, SlotsCoverTokens
<1>2. Ahead'
  <2> SUFFICES ASSUME pc' \in {"running", "alloc"}, NEW i \in DOMAIN running, i >= step'.idx
               PROVE  step.n[running[i]] = 0
    BY DEF Ahead
  <2>1. i >= step.idx
    <3>1. i \in Int /\ step'.idx \in Int /\ step.idx \in Int
      BY StepTypes, StepFields
    <3> QED  BY <3>1
  <2> QED  BY <2>1 DEF CInv, InStep, Ahead
<1> QED  BY <1>1, <1>2 DEF InStep

LEMMA QuietInStep ==
  ASSUME CInv, IInv',
         SkipRunning \/ PickRunning \/ EndRunningPass \/ SkipStale \/ EndWaitingPass
  PROVE  InStep'
<1>1. step \in StepType /\ step' \in StepType /\ step.idx \in Nat
  BY StepTypes DEF IInv, TypeOK
<1>2. UNCHANGED <<req, running>>
  BY DEF SkipRunning, PickRunning, EndRunningPass, SkipStale, EndWaitingPass
<1>3. CASE SkipRunning
  <2>1. pc = "running" /\ pc' = "running" /\ step'.n = step.n /\ step'.idx = step.idx + 1
    BY <1>1, <1>3 DEF SkipRunning, StepType
  <2> QED  BY <1>1, <1>2, <2>1, CursorForward DEF Pass
<1>4. CASE PickRunning
  <2>1. /\ pc = "running" /\ step'.n = step.n
        /\ \/ pc' = pc /\ step'.idx = step.idx + 1
           \/ pc' = "alloc" /\ step'.idx = step.idx /\ step'.want \in Nat \ {0}
    BY <1>4, PickEffect DEF CInv, FInv, PickRunning
  <2> QED  BY <1>1, <1>2, <2>1, CursorForward DEF Pass
<1>5. CASE EndRunningPass \/ EndWaitingPass
  <2>1. pc \in {"running", "waiting"} /\ pc' \in {"waiting", "finish"} /\ step' = step
    BY <1>5 DEF EndRunningPass, EndWaitingPass
  <2> QED  BY <1>1, <1>2, <2>1, CursorForward DEF Pass
<1>6. CASE SkipStale
  <2>1. pc = "waiting" /\ pc' = "waiting" /\ step'.n = step.n
    BY <1>1, <1>6 DEF SkipStale, StepType
  <2> QED  BY <1>1, <1>2, <2>1, CursorForward DEF Pass
<1> QED  BY <1>3, <1>4, <1>5, <1>6

LEMMA ScheduleRunningInStep == CInv /\ IInv' /\ ScheduleRunning => InStep'
<1> SUFFICES ASSUME CInv, IInv', ScheduleRunning  PROVE InStep'
  OBVIOUS
<1> DEFINE r == running[step.idx]
           k == Missing(r)
           p == Granted(req[r], k)
<1>1. /\ step.idx \in DOMAIN running /\ r \in Reqs /\ req[r].status = "RUNNING"
      /\ req' = [req EXCEPT ![r] = p] /\ k \in Nat
      /\ p.status = req[r].status /\ p.num_computed = req[r].num_computed
      /\ p.blocks = req[r].blocks + k
      /\ step'.idx = step.idx + 1 /\ step'.n = [step.n EXCEPT ![r] = step.want]
  BY ScheduleRunningEffect DEF CInv, FInv
<1>2. /\ pc = "alloc" /\ pc' = "running" /\ running' = running /\ step.want \in Nat \ {0}
      /\ \A i, j \in DOMAIN running : running[i] = running[j] => i = j
  BY DEF ScheduleRunning, CInv, InStep, Wanted, FInv, QInv, Queued, Once
<1>3. k = Need(r, req[r].num_computed + step.want + LookaheadFor(r, step.pad))
  BY DEF Missing
<1>4. (req[r].blocks + k) * BlockSize >= Least(req[r].num_computed + step.want, MaxModelLen)
  <2> DEFINE l == LookaheadFor(r, step.pad)
             x == req[r].num_computed + step.want
  <2>1. l \in Nat /\ x \in Int /\ req[r].blocks \in Nat
    BY <1>1, <1>2, StepTypes, RequestFields, LookaheadType
  <2> HIDE DEF l, r, k
  <2>2. x + l \in Int /\ x <= x + l
    <3> HIDE DEF x
    <3> QED  BY <2>1
  <2>3. k = Need(r, x + l)
    BY <1>3 DEF l
  <2> HIDE DEF x
  <2>4. (req[r].blocks + k) * BlockSize >= Least(x, MaxModelLen)
    BY <2>1, <2>2, <2>3, NeedCovers
  <2> QED  BY <2>4 DEF x
<1> HIDE DEF p, k
<1>5. \A x \in Reqs : /\ req'[x] = IF x = r THEN p ELSE req[x]
                      /\ step'.n[x] = IF x = r THEN step.want ELSE step.n[x]
  BY <1>1, StepTypes
<1>6. StepNow'
  BY <1>1, <1>2, <1>5 DEF StepNow, Pass, CInv, InStep
<1>7. Ahead'
  <2> SUFFICES ASSUME NEW i \in DOMAIN running, i >= step.idx + 1
               PROVE  step'.n[running[i]] = 0
    BY <1>1, <1>2 DEF Ahead
  <2>1. i >= step.idx /\ i # step.idx /\ running[i] \in Reqs
    <3>1. i \in Nat /\ step.idx \in Nat
      BY StepTypes
    <3>2. running[i] \in Reqs
      BY RunningFacts DEF CInv, FInv
    <3> QED  BY <3>1, <3>2
  <2>2. running[i] # r
    BY <1>1, <1>2, <2>1
  <2>3. step.n[running[i]] = 0
    BY <1>2, <2>1 DEF CInv, InStep, Ahead
  <2> QED  BY <1>5, <2>1, <2>2, <2>3
<1>8. SlotsCoverTokens'
  <2> SUFFICES ASSUME NEW x \in Reqs, req'[x].status = "RUNNING"
               PROVE  req'[x].blocks * BlockSize
                        >= Least(req'[x].num_computed + step'.n[x], MaxModelLen)
    BY DEF SlotsCoverTokens
  <2>1. CASE x = r
    <3> HIDE DEF r
    <3> QED  BY <1>1, <1>4, <1>5, <2>1
  <2>2. CASE x # r
    BY <1>5, <2>2 DEF CInv, InStep, SlotsCoverTokens
  <2> QED  BY <2>1, <2>2
<1> QED  BY <1>2, <1>6, <1>7, <1>8 DEF InStep, Wanted

LEMMA PreemptVictimInStep == CInv /\ IInv' /\ PreemptVictim => InStep'
<1> SUFFICES ASSUME CInv, IInv', PreemptVictim  PROVE InStep'
  OBVIOUS
<1>1. PICK i \in DOMAIN running :
        /\ running' = RemoveIndex(running, i) /\ Preempt(running[i], DropStale)
        /\ step'.n = [step.n EXCEPT ![running[i]] = 0]
        /\ step'.tokens = step.tokens + step.n[running[i]]
        /\ step'.input = IF step.n[running[i]] > 0
                         THEN step.input + step.n[running[i]] + DraftSlots ELSE step.input
        /\ step'.idx = IF i < step.idx THEN step.idx - 1 ELSE step.idx
        /\ \/ i = step.idx /\ pc' = "finish"
           \/ i # step.idx /\ pc' = "alloc" /\ step'.want = step.want
  BY PreemptVictimEffect DEF CInv, FInv
<1> DEFINE v == running[i]
<1>2. /\ v \in Reqs /\ pc = "alloc" /\ i \in 1 .. Len(running)
      /\ \A j \in DOMAIN running : running[j] \in Reqs
  BY RunningFacts DEF CInv, FInv, PreemptVictim
<1>3. Preempt(v, DropStale) /\ DropStale \in BOOLEAN /\ step'.n = [step.n EXCEPT ![v] = 0]
  BY <1>1, ConfigAssumption
<1> HIDE DEF v
<1>4. \A x \in Reqs : /\ x # v => req'[x] = req[x] /\ step'.n[x] = step.n[x]
                      /\ x = v => req'[x].status = "PREEMPTED" /\ step'.n[x] = 0
  BY <1>2, <1>3, StepTypes, PreemptEffect DEF CInv, FInv, QInv
<1>5. StepNow'
  BY <1>1, <1>2, <1>4 DEF CInv, InStep, StepNow, Pass
<1>6. Ahead'
  <2> SUFFICES ASSUME pc' = "alloc", NEW j \in DOMAIN running', j >= step'.idx
               PROVE  step'.n[running'[j]] = 0
    BY <1>1 DEF Ahead
  <2> DEFINE len == Len(running)
  <2>1. /\ len \in Nat /\ DOMAIN running = 1 .. len /\ step.idx \in Nat \ {0}
    BY StepTypes
  <2>2. j \in 1 .. len - 1 /\ running'[j] = IF j < i THEN running[j] ELSE running[j + 1]
    BY <1>1 DEF RemoveIndex
  <2> HIDE DEF len
  <2>3. PICK m \in DOMAIN running : m >= step.idx /\ running'[j] = running[m]
    <3>1. CASE j < i
      <4>1. j \in 1 .. len /\ j >= step.idx
        BY <1>1, <1>2, <2>1, <2>2, <3>1
      <4> QED  BY <2>1, <2>2, <3>1, <4>1
    <3>2. CASE ~(j < i)
      <4>1. j + 1 \in 1 .. len /\ j + 1 >= step.idx
        BY <1>1, <1>2, <2>1, <2>2, <3>2
      <4> QED  BY <2>1, <2>2, <3>2, <4>1
    <3> QED  BY <3>1, <3>2
  <2>4. step.n[running[m]] = 0 /\ running[m] \in Reqs
    BY <1>2, <2>3 DEF CInv, InStep, Ahead
  <2> QED  BY <1>4, <2>3, <2>4
<1>7. Wanted'
  BY <1>1, <1>2 DEF CInv, InStep, Wanted
<1>8. SlotsCoverTokens'
  <2>1. \A x \in Reqs : req[x].blocks \in Nat /\ req[x].num_computed \in Int
                        /\ step.n[x] \in Nat
    BY StepTypes, RequestFields
  <2>2. \A x \in Reqs : Sheltered(req[x], req'[x], step.n[x], step'.n[x])
    BY <1>4, <2>1 DEF Sheltered
  <2> QED  BY <2>2, Covered DEF IInv, TypeOK
<1> QED  BY <1>5, <1>6, <1>7, <1>8 DEF InStep

LEMMA TryAdmitInStep == CInv /\ IInv' /\ TryAdmit => InStep'
<1> SUFFICES ASSUME CInv, IInv', TryAdmit  PROVE InStep'
  OBVIOUS
<1>1. CASE pc' = "finish" /\ UNCHANGED <<req, running, step>>
  <2>1. pc = "waiting"
    BY DEF TryAdmit
  <2> QED  BY <1>1, <2>1, StepTypes, CursorForward DEF Pass
<1>2. CASE ~(pc' = "finish" /\ UNCHANGED <<req, running, step>>)
  <2> DEFINE r == Candidate
  <2>1. PICK hit \in Nat, n \in Nat \ {0} :
          LET k == Need(r, hit + n + LookaheadFor(r, FALSE))
              p == Admitted(req[r], hit, k)
          IN  /\ r \in Reqs /\ k \in Nat /\ req' = [req EXCEPT ![r] = p]
              /\ p.status = "RUNNING" /\ p.num_computed = hit /\ p.blocks = req[r].blocks + k
              /\ step'.n = [step.n EXCEPT ![r] = n] /\ pc' = "waiting"
    BY <1>2, AdmitEffect DEF CInv, FInv
  <2> HIDE DEF r
  <2> DEFINE l == LookaheadFor(r, FALSE)
             k == Need(r, hit + n + l)
             p == Admitted(req[r], hit, k)
  <2>2. (req[r].blocks + k) * BlockSize >= Least(hit + n, MaxModelLen)
    <3>1. l \in Nat /\ req[r].blocks \in Nat
      BY <2>1, StepTypes, RequestFields, LookaheadType
    <3> HIDE DEF l
    <3>2. hit + n \in Int /\ hit + n + l \in Int /\ hit + n <= hit + n + l
      BY <3>1
    <3> QED  BY <3>1, <3>2, NeedCovers
  <2>3. /\ r \in Reqs /\ k \in Nat /\ req' = [req EXCEPT ![r] = p]
        /\ p.status = "RUNNING" /\ p.num_computed = hit /\ p.blocks = req[r].blocks + k
        /\ step'.n = [step.n EXCEPT ![r] = n] /\ pc' = "waiting"
    BY <2>1
  <2> HIDE DEF p, k, l
  <2>4. \A x \in Reqs : /\ req'[x] = IF x = r THEN p ELSE req[x]
                        /\ step'.n[x] = IF x = r THEN n ELSE step.n[x]
    BY <2>3, StepTypes
  <2>5. StepNow'
    BY <2>3, <2>4 DEF CInv, InStep, StepNow, Pass
  <2>6. SlotsCoverTokens'
    <3> SUFFICES ASSUME NEW x \in Reqs, req'[x].status = "RUNNING"
                 PROVE  req'[x].blocks * BlockSize
                          >= Least(req'[x].num_computed + step'.n[x], MaxModelLen)
      BY DEF SlotsCoverTokens
    <3>1. CASE x = r
      BY <2>2, <2>3, <2>4, <3>1
    <3>2. CASE x # r
      BY <2>4, <3>2 DEF CInv, InStep, SlotsCoverTokens
    <3> QED  BY <3>1, <3>2
  <2> QED  BY <2>3, <2>5, <2>6 DEF InStep, Ahead, Wanted
<1> QED  BY <1>1, <1>2

LEMMA FinishStepInStep == CInv /\ IInv' /\ FinishStep => InStep'
<1> SUFFICES ASSUME CInv, IInv', FinishStep  PROVE InStep'
  OBVIOUS
<1>1. /\ pc' = "idle" /\ step'.n = NoTokens
      /\ step' \in StepType /\ req' \in [Reqs -> RequestType]
  BY DEF FinishStep, NoStep, NewStep, IInv, TypeOK
<1>2. \A r \in Reqs : step'.n[r] = 0
  BY <1>1 DEF NoTokens
<1>3. ASSUME NEW r \in Reqs
      PROVE  Sheltered(req[r], req'[r], step.n[r], step'.n[r])
  <2>1. /\ req[r].blocks \in Nat /\ req[r].num_computed \in Int /\ step.n[r] \in Nat
    BY StepTypes, RequestFields
  <2>2. /\ req'[r].status = req[r].status /\ req'[r].blocks = req[r].blocks
        /\ req'[r].num_computed = req[r].num_computed + step.n[r]
    BY <2>1, FinishEffect DEF CInv, FInv, QInv
  <2> QED  BY <1>2, <2>1, <2>2 DEF Sheltered
<1>4. SlotsCoverTokens'
  BY <1>1, <1>3, Covered
<1> QED  BY <1>1, <1>2, <1>4 DEF InStep, StepNow, Ahead, Wanted

LEMMA InitCInv == Init => CInv
<1> SUFFICES ASSUME Init  PROVE CInv
  OBVIOUS
<1>1. step.n = NoTokens /\ pc = "idle" /\ \A r \in Reqs : req[r].status # "RUNNING"
  BY DEF Init, NoStep, NewStep, Blank
<1>2. InStep
  BY <1>1 DEF InStep, StepNow, Ahead, Wanted, SlotsCoverTokens, NoTokens
<1> QED  BY <1>2, InitFInv DEF CInv

LEMMA NextCInv == CInv /\ [Next]_vars => CInv'
<1> SUFFICES ASSUME CInv, [Next]_vars  PROVE CInv'
  OBVIOUS
<1>1. FInv' /\ IInv'
  BY NextFInv DEF CInv, FInv, QInv
<1>2. InStep'
  <2>1. CASE BeginStep \/ ScheduleRunning \/ PreemptVictim \/ TryAdmit \/ FinishStep
    BY <1>1, <2>1, BeginStepInStep, ScheduleRunningInStep, PreemptVictimInStep,
       TryAdmitInStep, FinishStepInStep
  <2>2. CASE SkipRunning \/ PickRunning \/ EndRunningPass \/ SkipStale \/ EndWaitingPass
    BY <1>1, <2>2, QuietInStep
  <2>3. CASE UpdateDrafts \/ BeginUpdate \/ EndUpdate \/ BeginReset \/ EndReset \/ ResetOne
             \/ (\E p \in PauseStates : SetPause(p))
             \/ (\E r \in Reqs : IgnoreOutput(r) \/ DropOutput(r) \/ DeliverOutput(r)
                                 \/ AddRequest(r) \/ Abort(r))
    BY <1>1, <2>3, OutsideInStep
  <2>4. CASE UNCHANGED vars
    BY <2>4 DEF vars, CInv, InStep, StepNow, Ahead, Wanted, SlotsCoverTokens
  <2> QED  BY <2>1, <2>2, <2>3, <2>4 DEF Next, Schedule, Update, Environment
<1> QED  BY <1>1, <1>2 DEF CInv

\* What a call of schedule() has scheduled so far is of running requests that its
\* cursor has passed.
THEOREM StepInductive == Spec => []CInv
<1> QED  BY InitCInv, NextCInv, PTL DEF Spec

\* allocate_slots never leaves a running request with fewer KV slots than tokens it has
\* computed or is about to compute, through chunks, pads, rejections and preemptions.
THEOREM SlotsAlwaysCover == Spec => []SlotsCoverTokens
<1>1. CInv => SlotsCoverTokens
  BY DEF CInv, InStep
<1> QED  BY <1>1, StepInductive, PTL

----------------------------------------------------------------------------
(* KV blocks.                                                              *)

\* Only requests that have arrived hold blocks.
HeldByArrived == \A r \in Reqs : req[r].status = "ABSENT" => req[r].blocks = 0

BInv == CInv /\ HeldByArrived /\ BlocksConserved

\* Blocks move between the pool and one request.
BlocksMove(r) ==
  /\ \A x \in Reqs : x # r => req'[x].status = req[x].status /\ req'[x].blocks = req[x].blocks
  /\ free' + req'[r].blocks = free + req[r].blocks /\ free' >= 0
  /\ req'[r].status # "ABSENT"

BlocksStay ==
  /\ \A x \in Reqs : req'[x].status = req[x].status /\ req'[x].blocks = req[x].blocks
  /\ free' = free

LEMMA BlockTypes ==
  ASSUME IInv
  PROVE  /\ \A r \in Reqs : req[r] \in RequestType /\ req[r].blocks \in Nat
         /\ free \in Int
BY RequestFields DEF IInv, TypeOK

LEMMA MovedBlocks ==
  ASSUME IsFiniteSet(Reqs), BInv, IInv',
         BlocksStay \/ \E r \in Reqs : BlocksMove(r)
  PROVE  HeldByArrived' /\ BlocksConserved'
<1> DEFINE f == [r \in Reqs |-> req[r].blocks]
           g == [r \in Reqs |-> req'[r].blocks]
<1>1. /\ \A r \in Reqs : f[r] \in Int /\ g[r] \in Int /\ req'[r].blocks \in Nat
      /\ free \in Int /\ free' \in Int
  <2>1. /\ \A r \in Reqs : req[r].blocks \in Nat
        /\ free \in Int
    BY BlockTypes DEF BInv, CInv, FInv, QInv
  <2>2. /\ \A r \in Reqs : req'[r].blocks \in Nat
        /\ free' \in Int
    BY RequestFields DEF IInv, TypeOK
  <2> QED  BY <2>1, <2>2
<1>2. free >= 0 /\ free + SumReqs(f) = NumBlocks
  BY DEF BInv, BlocksConserved
<1>3. SumReqs(f) \in Int
  BY <1>1, SumType
<1>4. ASSUME BlocksStay  PROVE HeldByArrived' /\ BlocksConserved'
  <2>1. \A r \in Reqs : g[r] = f[r]
    BY <1>4 DEF BlocksStay
  <2> HIDE DEF f, g
  <2>2. SumReqs(g) = SumReqs(f)
    BY <2>1, SumSame
  <2>3. free' >= 0 /\ free' + SumReqs(g) = NumBlocks
    BY <1>2, <1>4, <2>2 DEF BlocksStay
  <2>4. BlocksConserved'
    BY <2>3 DEF BlocksConserved, g
  <2> QED  BY <1>4, <2>4 DEF BlocksStay, BInv, HeldByArrived
<1>5. ASSUME NEW r \in Reqs, BlocksMove(r)  PROVE HeldByArrived' /\ BlocksConserved'
  <2>1. \A x \in Reqs : x # r => g[x] = f[x]
    BY <1>5 DEF BlocksMove
  <2>2. free' + g[r] = free + f[r] /\ free' >= 0
    BY <1>5 DEF BlocksMove
  <2> HIDE DEF f, g
  <2>3. SumReqs(g) = SumReqs(f) + g[r] - f[r]
    BY <1>1, <2>1, SumChange
  <2>4. f[r] \in Int /\ g[r] \in Int
    BY <1>1
  <2>5. free' + SumReqs(g) = NumBlocks
    BY <1>1, <1>2, <1>3, <2>2, <2>3, <2>4
  <2>6. BlocksConserved'
    BY <2>2, <2>5 DEF BlocksConserved, g
  <2> QED  BY <1>5, <2>6 DEF BlocksMove, BInv, HeldByArrived
<1> QED  BY <1>4, <1>5

LEMMA RetireBlocks ==
  ASSUME BInv, NEW v \in Reqs, Retire(v)
  PROVE  BlocksMove(v)
<1> DEFINE p == Blank("FINISHED", req[v].num_tokens)
<1>1. p.status = "FINISHED" /\ p.blocks = 0
  BY DEF Blank
<1>2. req' = [req EXCEPT ![v] = p] /\ free' = free + req[v].blocks
  BY DEF Retire
<1> HIDE DEF p
<1>3. \A x \in Reqs : req'[x] = IF x = v THEN p ELSE req[x]
  BY <1>2, OneChanges DEF BInv, CInv, FInv, QInv
<1>4. free >= 0 /\ free \in Int /\ req[v].blocks \in Nat
  BY BlockTypes DEF BInv, BlocksConserved, CInv, FInv, QInv
<1> QED  BY <1>1, <1>2, <1>3, <1>4 DEF BlocksMove

LEMMA PreemptBlocks ==
  ASSUME BInv, NEW v \in Reqs, NEW drop \in BOOLEAN, Preempt(v, drop)
  PROVE  BlocksMove(v)
<1>1. /\ \A x \in Reqs : x # v => req'[x] = req[x]
      /\ req'[v].status = "PREEMPTED" /\ req'[v].blocks = 0
      /\ free' = free + req[v].blocks
  BY PreemptEffect DEF BInv, CInv, FInv, QInv
<1>2. free >= 0 /\ free \in Int /\ req[v].blocks \in Nat
  BY BlockTypes DEF BInv, BlocksConserved, CInv, FInv, QInv
<1> QED  BY <1>1, <1>2 DEF BlocksMove

\* The passes of schedule(): what is granted came out of the pool.
LEMMA ScheduleBlocks ==
  ASSUME BInv, ScheduleRunning \/ PreemptVictim \/ TryAdmit \/ ResetOne
  PROVE  BlocksStay \/ \E r \in Reqs : BlocksMove(r)
<1>0. IInv
  BY DEF BInv, CInv, FInv, QInv
<1>1. /\ QInv /\ free \in Int
      /\ \A r \in Reqs : req[r].blocks \in Nat
  BY BlockTypes DEF BInv, CInv, FInv, QInv
<1>2. CASE ScheduleRunning
  <2> DEFINE r == running[step.idx]
             k == Missing(r)
             p == Granted(req[r], k)
  <2>1. /\ r \in Reqs /\ req[r].status = "RUNNING" /\ req' = [req EXCEPT ![r] = p]
        /\ k \in Nat /\ k <= free /\ free' = free - k
        /\ p.status = req[r].status /\ p.blocks = req[r].blocks + k
    BY <1>1, <1>2, ScheduleRunningEffect
  <2> HIDE DEF p, k, r
  <2>2. \A x \in Reqs : req'[x] = IF x = r THEN p ELSE req[x]
    BY <1>0, <2>1 DEF IInv, TypeOK
  <2>3. free' + p.blocks = free + req[r].blocks /\ free' >= 0
    BY <1>1, <2>1
  <2>4. BlocksMove(r)
    BY <2>1, <2>2, <2>3 DEF BlocksMove
  <2> QED  BY <2>1, <2>4
<1>3. CASE PreemptVictim
  <2>1. PICK i \in DOMAIN running : Preempt(running[i], DropStale)
    BY <1>3 DEF PreemptVictim
  <2>2. running[i] \in Reqs
    BY <1>1, RunningFacts
  <2> QED  BY <2>1, <2>2, PreemptBlocks, ConfigAssumption
<1>4. CASE TryAdmit
  <2>1. CASE UNCHANGED <<req, free>>
    BY <2>1 DEF BlocksStay
  <2>2. CASE ~UNCHANGED <<req, free>>
    <3> DEFINE r == Candidate
    <3>1. PICK hit \in Nat, n \in Nat \ {0} :
            LET upto == hit + n + LookaheadFor(r, FALSE)
                k == Need(r, upto)
                p == Admitted(req[r], hit, k)
            IN  /\ r \in Reqs /\ k \in Nat /\ BlocksToAdmit(r, upto) <= free
                /\ free' = free - k /\ req' = [req EXCEPT ![r] = p]
                /\ p.status = "RUNNING" /\ p.blocks = req[r].blocks + k
      BY <1>1, <1>4, <2>2, AdmitEffect
    <3> HIDE DEF r
    <3> DEFINE upto == hit + n + LookaheadFor(r, FALSE)
               k == Need(r, upto)
               j == Need(r, req[r].num_tokens)
               p == Admitted(req[r], hit, k)
    <3>2. j \in Nat
      <4>1. req[r].blocks \in Nat /\ req[r].num_tokens \in Int
        BY <1>0, <3>1, RequestFields DEF IInv, TypeOK
      <4> QED  BY <4>1, NeedType
    <3>3. /\ r \in Reqs /\ k \in Nat /\ Most(k, j) <= free
          /\ free' = free - k /\ req' = [req EXCEPT ![r] = p]
          /\ p.status = "RUNNING" /\ p.blocks = req[r].blocks + k
      BY <3>1 DEF BlocksToAdmit
    <3> HIDE DEF p, k, j, upto
    <3>4. k <= free
      BY <1>1, <3>2, <3>3 DEF Most
    <3>5. \A x \in Reqs : req'[x] = IF x = r THEN p ELSE req[x]
      BY <1>0, <3>3, OneChanges
    <3>6. free' + p.blocks = free + req[r].blocks /\ free' >= 0
      BY <1>1, <3>3, <3>4
    <3>7. BlocksMove(r)
      BY <3>3, <3>5, <3>6 DEF BlocksMove
    <3> QED  BY <3>3, <3>7
  <2> QED  BY <2>1, <2>2
<1>5. CASE ResetOne
  <2>1. Len(running) \in DOMAIN running
    BY <1>5, StepTypes, EmptySeq DEF ResetOne, BInv
  <2> DEFINE v == running[Len(running)]
  <2>2. v \in Reqs /\ Preempt(v, TRUE)
    BY <1>1, <1>5, <2>1, RunningFacts DEF ResetOne
  <2> QED  BY <2>2, PreemptBlocks
<1> QED  BY <1>2, <1>3, <1>4, <1>5

\* Everything else leaves blocks alone or returns those of a finished request.
LEMMA OtherBlocks ==
  ASSUME BInv,
         BeginStep \/ SkipRunning \/ PickRunning \/ EndRunningPass \/ SkipStale
         \/ EndWaitingPass \/ FinishStep \/ UpdateDrafts \/ BeginUpdate \/ EndUpdate
         \/ BeginReset \/ EndReset \/ (\E p \in PauseStates : SetPause(p))
         \/ (\E r \in Reqs : IgnoreOutput(r) \/ DropOutput(r) \/ DeliverOutput(r)
                             \/ AddRequest(r) \/ Abort(r))
         \/ UNCHANGED vars
  PROVE  BlocksStay \/ \E r \in Reqs : BlocksMove(r)
<1>0. IInv
  BY DEF BInv, CInv, FInv, QInv
<1>1. /\ FInv /\ QInv /\ IInv /\ free \in Int
      /\ \A r \in Reqs : req[r] \in RequestType
  BY BlockTypes DEF BInv, CInv, FInv, QInv
<1>2. CASE SkipRunning \/ PickRunning \/ EndRunningPass \/ SkipStale \/ EndWaitingPass
           \/ BeginUpdate \/ EndUpdate \/ BeginReset \/ EndReset
           \/ (\E p \in PauseStates : SetPause(p)) \/ (\E r \in Reqs : IgnoreOutput(r))
           \/ UNCHANGED vars
  <2>1. UNCHANGED <<req, free>>
    BY <1>2 DEF SkipRunning, PickRunning, EndRunningPass, SkipStale, EndWaitingPass,
       BeginUpdate, EndUpdate, BeginReset, EndReset, SetPause, IgnoreOutput, vars
  <2> QED  BY <2>1 DEF BlocksStay
<1>3. CASE BeginStep \/ UpdateDrafts
  <2>1. free' = free
    BY <1>3 DEF BeginStep, UpdateDrafts
  <2>2. ASSUME NEW r \in Reqs
        PROVE  req'[r].status = req[r].status /\ req'[r].blocks = req[r].blocks
    <3>1. CASE BeginStep
      <4>1. req'[r] = [req[r] EXCEPT !.cooldown = Most(0, @ - 1)]
        BY <3>1 DEF BeginStep
      <4> QED  BY <1>1, <4>1 DEF RequestType
    <3>2. CASE UpdateDrafts
      <4>1. PICK count :
              req' = [x \in Reqs |-> IF x \in drafts /\ Live(x)
                                     THEN [req[x] EXCEPT !.spec = count[x]] ELSE req[x]]
        BY <3>2 DEF UpdateDrafts
      <4> QED  BY <1>1, <4>1 DEF RequestType
    <3> QED  BY <1>3, <3>1, <3>2
  <2> QED  BY <2>1, <2>2 DEF BlocksStay
<1>4. CASE FinishStep
  <2>1. free' = free
    BY <1>4 DEF FinishStep
  <2> QED  BY <1>1, <1>4, <2>1, FinishEffect DEF BlocksStay
<1>5. ASSUME NEW v \in Reqs, AddRequest(v)  PROVE BlocksMove(v)
  <2> DEFINE p == Blank("WAITING", PromptLen[v])
  <2>1. p.status = "WAITING" /\ p.blocks = 0
    BY DEF Blank
  <2>2. req' = [req EXCEPT ![v] = p] /\ free' = free /\ req[v].status = "ABSENT"
    BY <1>5 DEF AddRequest
  <2> HIDE DEF p
  <2>3. \A x \in Reqs : req'[x] = IF x = v THEN p ELSE req[x]
    BY <1>0, <2>2, OneChanges
  <2>4. req[v].blocks = 0 /\ free >= 0
    BY <2>2 DEF BInv, HeldByArrived, BlocksConserved
  <2> QED  BY <1>1, <2>1, <2>2, <2>3, <2>4 DEF BlocksMove
<1>6. ASSUME NEW v \in Reqs, Abort(v)  PROVE BlocksMove(v)
  BY <1>6, RetireBlocks DEF Abort
<1>7. ASSUME NEW v \in Reqs, DropOutput(v)  PROVE BlocksStay
  <2> DEFINE p == Drained(req[v], Head(batches).n[v])
  <2>1. req' = [req EXCEPT ![v] = p] /\ free' = free
    BY <1>7 DEF DropOutput
  <2>2. p.status = req[v].status /\ p.blocks = req[v].blocks
    BY <1>1 DEF Drained, RequestType
  <2> HIDE DEF p
  <2>3. \A x \in Reqs : req'[x] = IF x = v THEN p ELSE req[x]
    BY <1>0, <2>1, OneChanges
  <2> QED  BY <2>1, <2>2, <2>3 DEF BlocksStay
<1>8. ASSUME NEW v \in Reqs, DeliverOutput(v)  PROVE BlocksStay \/ BlocksMove(v)
  <2>1. PICK p : /\ req' = [req EXCEPT ![v] = p]
                 /\ \/ Retire(v)
                    \/ p.status = req[v].status /\ p.blocks = req[v].blocks /\ free' = free
    BY <1>1, <1>8, AnsweredShelters
  <2>2. \A x \in Reqs : req'[x] = IF x = v THEN p ELSE req[x]
    BY <1>0, <2>1, OneChanges
  <2>3. CASE Retire(v)
    BY <2>3, RetireBlocks
  <2>4. CASE p.status = req[v].status /\ p.blocks = req[v].blocks /\ free' = free
    BY <2>2, <2>4 DEF BlocksStay
  <2> QED  BY <2>1, <2>3, <2>4
<1> QED  BY <1>2, <1>3, <1>4, <1>5, <1>6, <1>7, <1>8

LEMMA InitBInv == IsFiniteSet(Reqs) /\ Init => BInv
<1> SUFFICES ASSUME IsFiniteSet(Reqs), Init  PROVE BInv
  OBVIOUS
<1> DEFINE f == [r \in Reqs |-> req[r].blocks]
<1>1. free = NumBlocks /\ NumBlocks \in Nat /\ \A r \in Reqs : f[r] = 0
  BY ConfigAssumption DEF Init, Blank
<1>2. HeldByArrived
  BY <1>1 DEF HeldByArrived
<1> HIDE DEF f
<1>3. SumReqs(f) = 0
  BY <1>1, SumZero
<1>4. BlocksConserved
  BY <1>1, <1>3 DEF BlocksConserved, f
<1> QED  BY <1>2, <1>4, InitCInv DEF BInv

LEMMA NextBInv == IsFiniteSet(Reqs) /\ BInv /\ [Next]_vars => BInv'
<1> SUFFICES ASSUME IsFiniteSet(Reqs), BInv, [Next]_vars  PROVE BInv'
  OBVIOUS
<1>1. CInv' /\ IInv'
  BY NextCInv DEF BInv, CInv, FInv, QInv
<1>2. BlocksStay \/ \E r \in Reqs : BlocksMove(r)
  <2>1. CASE ScheduleRunning \/ PreemptVictim \/ TryAdmit \/ ResetOne
    BY <2>1, ScheduleBlocks
  <2>2. CASE ~(ScheduleRunning \/ PreemptVictim \/ TryAdmit \/ ResetOne)
    BY <2>2, OtherBlocks DEF Next, Schedule, Update, Environment
  <2> QED  BY <2>1, <2>2
<1>3. HeldByArrived' /\ BlocksConserved'
  BY <1>1, <1>2, MovedBlocks
<1> QED  BY <1>1, <1>3 DEF BInv

\* KV blocks are neither lost nor handed out twice, over any number of requests,
\* admissions, preemptions and resets; the pool is never overdrawn.
THEOREM BlocksStayConserved ==
  ASSUME IsFiniteSet(Reqs)
  PROVE  Spec => []BlocksConserved
<1>1. Init => BInv
  BY InitBInv
<1>2. BInv /\ [Next]_vars => BInv'
  BY NextBInv
<1>3. BInv => BlocksConserved
  BY DEF BInv
<1> QED  BY <1>1, <1>2, <1>3, PTL DEF Spec

----------------------------------------------------------------------------
(* The budgets of the step.                                                *)

GInv == CInv /\ BudgetsConserved

\* What a request with k tokens takes from the input budget.
Taken(k) == IF k > 0 THEN k + DraftSlots ELSE 0

LEMMA TakenType == \A k \in Int : Taken(k) \in Int
BY ConfigAssumption DEF Taken

\* r has k tokens instead of what it had, and the budgets pay for it.
LEMMA BudgetsMove ==
  ASSUME IsFiniteSet(Reqs), GInv, NEW r \in Reqs, NEW k \in Nat, pc \in Pass,
         pause' = pause, step'.n = [step.n EXCEPT ![r] = k],
         step'.tokens = step.tokens + step.n[r] - k,
         step'.input = step.input + Taken(step.n[r]) - Taken(k)
  PROVE  BudgetsConserved'
<1> DEFINE f == [x \in Reqs |-> Taken(step.n[x])]
           g == [x \in Reqs |-> Taken(step'.n[x])]
           n == step.n
           m == step'.n
<1>1. /\ n \in [Reqs -> Int] /\ step.tokens \in Int /\ step.input \in Int
      /\ \A x \in Reqs : n[x] \in Int
  BY StepTypes, StepFields DEF GInv
<1>2. \A x \in Reqs : m[x] \in Int /\ (x # r => m[x] = n[x])
  BY <1>1
<1>3. m[r] = k /\ n[r] \in Int
  BY <1>1
<1> DEFINE before == IF pause = "PAUSED_ALL" THEN 0 ELSE MaxScheduled
<1>4. step.tokens + SumReqs(n) = before /\ step.input + SumReqs(f) = MaxBatched
  BY DEF GInv, BudgetsConserved, Pass, Taken
<1>5. /\ \A x \in Reqs : f[x] \in Int /\ g[x] \in Int /\ (x # r => g[x] = f[x])
      /\ f[r] = Taken(n[r]) /\ g[r] = Taken(k)
  BY <1>1, <1>2, <1>3, TakenType
<1>6. /\ step'.tokens = step.tokens + n[r] - k
      /\ step'.input = step.input + Taken(n[r]) - Taken(k)
  OBVIOUS
<1> HIDE DEF f, g, n, m
<1>7. SumReqs(m) = SumReqs(n) + m[r] - n[r] /\ SumReqs(n) \in Int
  BY <1>1, <1>2, SumChange, SumType
<1>8. SumReqs(g) = SumReqs(f) + g[r] - f[r] /\ SumReqs(f) \in Int
  BY <1>5, SumChange, SumType
<1>9. step'.tokens + SumReqs(m) = before
  <2> HIDE DEF before
  <2> QED  BY <1>1, <1>3, <1>4, <1>6, <1>7
<1>10. step'.input + SumReqs(g) = MaxBatched
  <2>1. f[r] \in Int /\ g[r] \in Int
    BY <1>5
  <2> DEFINE a == Taken(n[r])
             b == Taken(k)
  <2>2. a = f[r] /\ b = g[r] /\ step'.input = step.input + a - b
    BY <1>5, <1>6
  <2> HIDE DEF a, b
  <2> QED  BY <1>1, <1>4, <1>8, <2>1, <2>2
<1> QED  BY <1>9, <1>10 DEF BudgetsConserved, Taken, g, m

\* Nobody is scheduled.
LEMMA BudgetsStay ==
  ASSUME GInv, pc \in Pass, pause' = pause, step'.n = step.n,
         step'.tokens = step.tokens, step'.input = step.input
  PROVE  BudgetsConserved'
BY DEF GInv, BudgetsConserved, Pass

LEMMA PassBudgets ==
  ASSUME IsFiniteSet(Reqs), GInv, ScheduleRunning \/ PreemptVictim \/ TryAdmit
  PROVE  BudgetsConserved'
<1>1. /\ QInv /\ step \in StepType
      /\ \A r \in Reqs : step.n[r] \in Nat
  BY StepTypes DEF GInv, CInv, FInv
<1>2. pc \in Pass /\ pause' = pause /\ DraftSlots \in Nat
  BY ConfigAssumption DEF ScheduleRunning, PreemptVictim, TryAdmit, Pass
<1>3. step.tokens \in Int /\ step.input \in Int
  BY <1>1, StepFields
<1>4. CASE ScheduleRunning
  <2> DEFINE r == running[step.idx]
  <2>1. /\ r \in Reqs /\ step.idx \in DOMAIN running
        /\ step'.n = [step.n EXCEPT ![r] = step.want]
        /\ step'.tokens = step.tokens - step.want
        /\ step'.input = step.input - step.want - DraftSlots
    BY <1>1, <1>4, ScheduleRunningEffect
  <2>2. step.n[r] = 0 /\ step.want \in Nat \ {0}
    <3>1. pc = "alloc" /\ step.idx \in Nat
      BY <1>4, StepTypes DEF ScheduleRunning, GInv
    <3> QED  BY <2>1, <3>1 DEF GInv, CInv, InStep, Ahead, Wanted
  <2> HIDE DEF r
  <2>3. step'.tokens = step.tokens + step.n[r] - step.want
    BY <1>3, <2>1, <2>2
  <2>4. step'.input = step.input + Taken(step.n[r]) - Taken(step.want)
    BY <1>2, <1>3, <2>1, <2>2 DEF Taken
  <2> QED  BY <1>2, <2>1, <2>2, <2>3, <2>4, BudgetsMove
<1>5. CASE PreemptVictim
  <2>1. PICK i \in DOMAIN running :
          /\ step'.n = [step.n EXCEPT ![running[i]] = 0]
          /\ step'.tokens = step.tokens + step.n[running[i]]
          /\ step'.input = IF step.n[running[i]] > 0
                           THEN step.input + step.n[running[i]] + DraftSlots ELSE step.input
    BY <1>1, <1>5, PreemptVictimEffect
  <2> DEFINE v == running[i]
  <2>2. v \in Reqs
    BY <1>1, RunningFacts
  <2>3. step.n[v] \in Nat
    BY <1>1, <2>2
  <2>4. /\ step'.n = [step.n EXCEPT ![v] = 0] /\ step'.tokens = step.tokens + step.n[v]
        /\ step'.input = IF step.n[v] > 0 THEN step.input + step.n[v] + DraftSlots
                         ELSE step.input
    BY <2>1
  <2> HIDE DEF v
  <2>5. /\ step'.tokens = step.tokens + step.n[v] - 0
        /\ step'.input = step.input + Taken(step.n[v]) - Taken(0)
    BY <1>2, <1>3, <2>3, <2>4 DEF Taken
  <2> QED  BY <1>2, <2>2, <2>4, <2>5, BudgetsMove
<1>6. CASE TryAdmit
  <2>1. CASE step' = step
    BY <1>2, <2>1, BudgetsStay
  <2>2. CASE step' # step
    <3> DEFINE r == Candidate
    <3>1. PICK n \in Nat \ {0} :
            /\ r \in Reqs /\ req[r].status \in {"WAITING", "PREEMPTED"}
            /\ step'.n = [step.n EXCEPT ![r] = n]
            /\ step'.tokens = step.tokens - n
            /\ step'.input = step.input - n - DraftSlots
      BY <1>1, <1>6, <2>2, AdmitEffect
    <3> HIDE DEF r
    <3>2. step.n[r] = 0
      <4>1. ~(step.n[r] > 0)
        BY <3>1 DEF GInv, CInv, InStep, StepNow
      <4> QED  BY <1>1, <3>1, <4>1
    <3>3. /\ step'.tokens = step.tokens + step.n[r] - n
          /\ step'.input = step.input + Taken(step.n[r]) - Taken(n)
      BY <1>2, <1>3, <3>1, <3>2 DEF Taken
    <3> QED  BY <1>2, <3>1, <3>3, BudgetsMove
  <2> QED  BY <2>1, <2>2
<1> QED  BY <1>4, <1>5, <1>6

LEMMA BeginBudgets ==
  ASSUME IsFiniteSet(Reqs), BeginStep
  PROVE  BudgetsConserved'
<1> DEFINE n == step'.n
           g == [r \in Reqs |-> Taken(n[r])]
<1>1. /\ step'.tokens = (IF pause = "PAUSED_ALL" THEN 0 ELSE MaxScheduled)
      /\ step'.input = MaxBatched /\ n = NoTokens /\ pause' = pause
  BY DEF BeginStep, NewStep
<1>2. \A r \in Reqs : n[r] = 0 /\ g[r] = 0
  BY <1>1 DEF NoTokens, Taken
<1>3. MaxScheduled \in Int /\ MaxBatched \in Int
  BY ConfigAssumption
<1> HIDE DEF n, g
<1>4. SumReqs(n) = 0 /\ SumReqs(g) = 0
  BY <1>2, SumZero
<1> QED  BY <1>1, <1>3, <1>4 DEF BudgetsConserved, Taken, g, n

LEMMA NextGInv == IsFiniteSet(Reqs) /\ GInv /\ [Next]_vars => GInv'
<1> SUFFICES ASSUME IsFiniteSet(Reqs), GInv, [Next]_vars  PROVE GInv'
  OBVIOUS
<1>1. CInv' /\ step \in StepType
  BY NextCInv, StepTypes DEF GInv
<1>2. BudgetsConserved'
  <2>1. CASE ScheduleRunning \/ PreemptVictim \/ TryAdmit
    BY <2>1, PassBudgets
  <2>2. CASE BeginStep
    BY <2>2, BeginBudgets
  <2>3. CASE SkipRunning \/ EndRunningPass \/ SkipStale \/ EndWaitingPass
    <3>1. pc \in Pass /\ pause' = pause
      BY <2>3 DEF SkipRunning, EndRunningPass, SkipStale, EndWaitingPass, Pass
    <3>2. step'.n = step.n /\ step'.tokens = step.tokens /\ step'.input = step.input
      BY <1>1, <2>3 DEF SkipRunning, EndRunningPass, SkipStale, EndWaitingPass, StepType
    <3> QED  BY <3>1, <3>2, BudgetsStay
  <2>4. CASE PickRunning
    <3>1. pc \in Pass /\ pause' = pause
      BY <2>4 DEF PickRunning, Pass
    <3>2. step'.n = step.n /\ step'.tokens = step.tokens /\ step'.input = step.input
      BY <2>4, PickEffect DEF GInv, CInv, FInv
    <3> QED  BY <3>1, <3>2, BudgetsStay
  <2>5. CASE FinishStep \/ UpdateDrafts \/ BeginUpdate \/ EndUpdate \/ BeginReset \/ EndReset
             \/ ResetOne \/ (\E p \in PauseStates : SetPause(p))
             \/ (\E r \in Reqs : IgnoreOutput(r) \/ DropOutput(r) \/ DeliverOutput(r)
                                 \/ AddRequest(r) \/ Abort(r))
    <3>1. pc' \in {"idle", "update", "reset"}
      BY <2>5 DEF FinishStep, UpdateDrafts, BeginUpdate, EndUpdate, BeginReset, EndReset,
         ResetOne, SetPause, IgnoreOutput, DropOutput, DeliverOutput, AddRequest, Abort
    <3> QED  BY <3>1 DEF BudgetsConserved
  <2>6. CASE UNCHANGED vars
    BY <2>6 DEF vars, GInv, BudgetsConserved
  <2> QED  BY <2>1, <2>2, <2>3, <2>4, <2>5, <2>6 DEF Next, Schedule, Update, Environment
<1> QED  BY <1>1, <1>2 DEF GInv

\* What the requests of a step took from the two budgets is what the budgets lost, also
\* when a request scheduled in the step is preempted again and hands back its share.
THEOREM BudgetsStayConserved ==
  ASSUME IsFiniteSet(Reqs)
  PROVE  Spec => []BudgetsConserved
<1>1. Init => GInv
  <2>1. Init => BudgetsConserved
    BY DEF Init, BudgetsConserved
  <2> QED  BY <2>1, InitCInv DEF GInv
<1>2. GInv /\ [Next]_vars => GInv'
  BY NextGInv
<1>3. GInv => BudgetsConserved
  BY DEF GInv
<1> QED  BY <1>1, <1>2, <1>3, PTL DEF Spec

----------------------------------------------------------------------------
(* The limits of the step.                                                 *)

\* The pad of a decode with images takes 1 + NumSpec tokens without asking budgets or
\* model length; every other request stays within both.
Unpadded(r) == r \notin MMReqs \/ NumSpec = 0

Unspent == pc \in Pass => step.tokens >= 0 /\ step.input >= 0

Affordable ==
  pc = "alloc" /\ Unpadded(running[step.idx]) =>
    step.want <= step.tokens /\ step.want + DraftSlots <= step.input

\* Both of what is scheduled and of what is about to be.
ScheduledFits(r) ==
  Unpadded(r) /\ step.n[r] > 0 => req[r].num_computed + step.n[r] <= MaxModelLen

WantedFits ==
  pc = "alloc" /\ Unpadded(running[step.idx]) =>
    req[running[step.idx]].num_computed + step.want <= MaxModelLen

LInv ==
  /\ CInv /\ Len(running) <= MaxRunning /\ Affordable /\ WantedFits
  /\ (\A r \in Reqs : Unpadded(r)) => Unspent
  /\ \A r \in Reqs : ScheduledFits(r)

LEMMA EncoderOnlyLess ==
  ASSUME NEW r, NEW c, NEW n \in Int, NEW m \in EncoderLimited(r, c, n)
  PROVE  m <= n
BY DEF EncoderLimited

LEMMA ClippedBounds ==
  ASSUME step \in StepType, NEW q \in RequestType, NEW r
  PROVE  /\ ClippedTokens(q, r) <= step.tokens
         /\ ClippedTokens(q, r) <= step.input - DraftSlots
         /\ ClippedTokens(q, r) <= MaxModelLen - q.num_computed - 1
<1> DEFINE a == LimitChunk(RepairedTokens(q, r))
           b == step.input - DraftSlots
           c == MaxModelLen - q.num_computed - 1
           new == q.num_tokens + q.spec + q.placeholders - q.num_computed
<1>1. b \in Int /\ c \in Int /\ step.tokens \in Int /\ new \in Int /\ new + 1 \in Int
  <2>1. /\ step.tokens \in Int /\ step.input \in Int /\ DraftSlots \in Int
        /\ MaxModelLen \in Int /\ q.num_computed \in Int /\ q.num_tokens \in Int
        /\ q.spec \in Int /\ q.placeholders \in Int
    BY StepFields, RequestFields, ConfigAssumption
  <2> QED  BY <2>1
<1>2. a \in Int
  <2> HIDE DEF new
  <2>1. RepairedTokens(q, r) \in {new, new + 1}
    BY DEF RepairedTokens, new
  <2> QED  BY <1>1, <2>1, ConfigAssumption DEF LimitChunk, Least
<1>3. ClippedTokens(q, r) = Least(Least(a, Least(step.tokens, b)), c)
  BY DEF ClippedTokens
<1> HIDE DEF a, b, c
<1>4. Least(Least(a, Least(step.tokens, b)), c) <= step.tokens
      /\ Least(Least(a, Least(step.tokens, b)), c) <= b
      /\ Least(Least(a, Least(step.tokens, b)), c) <= c
  BY <1>1, <1>2 DEF Least
<1> QED  BY <1>3, <1>4 DEF b, c

LEMMA AdmissionBounds ==
  ASSUME IInv, NEW r \in Reqs, req[r].status # "ABSENT", NEW hit \in Nat,
         hit < req[r].num_tokens, step.tokens > 0, step.input > DraftSlots
  PROVE  /\ AdmissionTokens(r, hit) \in Int
         /\ AdmissionTokens(r, hit) <= step.tokens
         /\ AdmissionTokens(r, hit) <= step.input - DraftSlots
         /\ hit + AdmissionTokens(r, hit) <= MaxModelLen
<1> DEFINE b == step.input - DraftSlots
           left == req[r].num_tokens - hit
           t == AdmissionTokens(r, hit)
           w == 1 + NumSpec
<1>1. /\ step.tokens \in Int /\ b \in Int /\ b > 0 /\ left \in Int /\ w \in Int
      /\ NumSpec \in Nat /\ MaxModelLen \in Int /\ req[r].num_tokens \in Int
      /\ step.input \in Int /\ DraftSlots \in Int
  <2>1. step \in StepType /\ req[r] \in RequestType
    BY DEF IInv, TypeOK
  <2>2. /\ step.tokens \in Int /\ step.input \in Int /\ req[r].num_tokens \in Int
        /\ DraftSlots \in Int /\ NumSpec \in Nat /\ MaxModelLen \in Int
    BY <2>1, StepFields, RequestFields, ConfigAssumption
  <2> QED  BY <2>2
<1>2. \A k \in Int : LimitChunk(k) \in Int /\ LimitChunk(k) <= k
  BY ConfigAssumption DEF LimitChunk, Least
<1>3. req[r].num_tokens < MaxModelLen
  <2>1. req[r].num_tokens < Limit(r)
    BY DEF IInv, RequestsGood, Good
  <2>2. Limit(r) <= MaxModelLen /\ Limit(r) \in Int
    <3>1. PromptLen[r] + MaxTokens[r] \in Int
      BY RequestAssumption
    <3> QED  BY <1>1, <3>1 DEF Limit, Least
  <2> QED  BY <1>1, <2>1, <2>2
<1>4. AdmissionBudget = Least(step.tokens, b)
  BY DEF AdmissionBudget
<1>5. CASE PadNewDecode(r, hit)
  <2>1. hit + w + 1 <= MaxModelLen
    BY <1>1, <1>5 DEF PadNewDecode
  <2>2. t = IF w > Least(step.tokens, b) THEN 0 ELSE LimitChunk(w)
    BY <1>4, <1>5 DEF AdmissionTokens
  <2> HIDE DEF b, w, t, left
  <2>3. t \in Int /\ t <= step.tokens /\ t <= b
    BY <1>1, <1>2, <2>2 DEF Least
  <2>4. hit + t <= MaxModelLen
    <3>1. t <= w \/ t = 0
      BY <1>1, <1>2, <2>2
    <3> QED  BY <1>1, <1>3, <2>1, <2>3, <3>1
  <2> QED  BY <2>3, <2>4 DEF b, t
<1>6. CASE ~PadNewDecode(r, hit)
  <2>1. t = Least(LimitChunk(left), Least(step.tokens, b))
    BY <1>4, <1>6 DEF AdmissionTokens
  <2>2. hit + left <= MaxModelLen
    BY <1>1, <1>3
  <2> HIDE DEF b, t, left
  <2>3. t \in Int /\ t <= step.tokens /\ t <= b /\ t <= left
    BY <1>1, <1>2, <2>1 DEF Least
  <2> QED  BY <1>1, <2>2, <2>3 DEF b, t
<1> QED  BY <1>5, <1>6

LEMMA RemoveIndexLen ==
  ASSUME NEW S, NEW q \in Seq(S), NEW i \in 1 .. Len(q)
  PROVE  Len(RemoveIndex(q, i)) = Len(q) - 1 /\ Len(q) \in Nat
<1>1. RemoveIndex(q, i) \in Seq(S) /\ Len(q) - 1 \in Nat /\ Len(q) \in Nat
  BY RemoveIndexSeq, LenProperties
<1>2. DOMAIN RemoveIndex(q, i) = 1 .. Len(q) - 1
  BY DEF RemoveIndex
<1> QED  BY <1>1, <1>2, LenProperties

LEMMA WithoutLen ==
  ASSUME NEW S, NEW q \in Seq(S), NEW r
  PROVE  Len(Without(q, r)) <= Len(q)
<1>1. CASE \E i \in DOMAIN q : q[i] = r
  <2>1. IndexOf(q, r) \in 1 .. Len(q)
    BY <1>1, LenProperties DEF IndexOf
  <2>2. Without(q, r) = RemoveIndex(q, IndexOf(q, r))
    BY <1>1 DEF Without
  <2>3. Len(Without(q, r)) = Len(q) - 1 /\ Len(q) \in Nat
    BY <2>1, <2>2, RemoveIndexLen
  <2> QED  BY <2>3
<1>2. CASE ~ \E i \in DOMAIN q : q[i] = r
  <2>1. Without(q, r) = q /\ Len(q) \in Nat
    BY <1>2, LenProperties DEF Without
  <2> QED  BY <2>1
<1> QED  BY <1>1, <1>2

----------------------------------------------------------------------------
\* Outside schedule() only the length of `running' matters, and it shrinks.
LEMMA OutsideLimits ==
  ASSUME LInv, CInv', pc' \notin Pass,
         UNCHANGED <<running>> \/ (\E v \in Reqs : running' = Without(running, v))
         \/ (\E i \in 1 .. Len(running) : running' = RemoveIndex(running, i))
  PROVE  LInv'
<1>1. Len(running') <= MaxRunning
  <2>1. running \in Seq(Reqs) /\ Len(running) \in Nat /\ MaxRunning \in Nat
    BY StepTypes, ConfigAssumption DEF LInv
  <2>2. running' \in Seq(Reqs) /\ Len(running') \in Nat
    BY LenProperties DEF CInv, FInv, QInv, IInv, TypeOK
  <2>3. Len(running') <= Len(running)
    <3>1. CASE running' = running
      BY <2>1, <3>1
    <3>2. CASE \E v \in Reqs : running' = Without(running, v)
      BY <2>1, <3>2, WithoutLen
    <3>3. CASE \E i \in 1 .. Len(running) : running' = RemoveIndex(running, i)
      <4>1. PICK i \in 1 .. Len(running) : running' = RemoveIndex(running, i)
        BY <3>3
      <4>2. Len(running') = Len(running) - 1
        BY <2>1, <4>1, RemoveIndexLen
      <4> QED  BY <2>1, <4>2
    <3> QED  BY <3>1, <3>2, <3>3
  <2> QED  BY <2>1, <2>2, <2>3 DEF LInv
<1>2. \A r \in Reqs : ~(step'.n[r] > 0)
  BY DEF CInv, InStep, StepNow
<1> QED  BY <1>1, <1>2 DEF LInv, Affordable, WantedFits, Unspent, ScheduledFits, Pass

LEMMA OutsideLInv ==
  ASSUME LInv, CInv',
         UpdateDrafts \/ BeginUpdate \/ EndUpdate \/ BeginReset \/ EndReset \/ ResetOne
         \/ FinishStep \/ (\E p \in PauseStates : SetPause(p))
         \/ (\E r \in Reqs : IgnoreOutput(r) \/ DropOutput(r) \/ DeliverOutput(r)
                             \/ AddRequest(r) \/ Abort(r))
  PROVE  LInv'
<1>1. pc' \notin Pass
  BY DEF UpdateDrafts, BeginUpdate, EndUpdate, BeginReset, EndReset, ResetOne, FinishStep,
     SetPause, IgnoreOutput, DropOutput, DeliverOutput, AddRequest, Abort, Pass
<1>2. UNCHANGED <<running>> \/ (\E v \in Reqs : running' = Without(running, v))
      \/ (\E i \in 1 .. Len(running) : running' = RemoveIndex(running, i))
  <2>1. CASE ResetOne
    <3>1. Len(running) \in 1 .. Len(running)
      BY <2>1, StepTypes, EmptySeq DEF ResetOne, LInv
    <3> QED  BY <2>1, <3>1 DEF ResetOne
  <2>2. CASE \E r \in Reqs : DeliverOutput(r) \/ Abort(r)
    BY <2>2 DEF DeliverOutput, Abort, Retire
  <2>3. CASE UpdateDrafts \/ BeginUpdate \/ EndUpdate \/ BeginReset \/ EndReset
             \/ FinishStep \/ (\E p \in PauseStates : SetPause(p))
             \/ (\E r \in Reqs : IgnoreOutput(r) \/ DropOutput(r) \/ AddRequest(r))
    BY <2>3 DEF UpdateDrafts, BeginUpdate, EndUpdate, BeginReset, EndReset, FinishStep,
       SetPause, IgnoreOutput, DropOutput, AddRequest
  <2> QED  BY <2>1, <2>2, <2>3
<1> QED  BY <1>1, <1>2, OutsideLimits

LEMMA BeginLInv == LInv /\ CInv' /\ BeginStep => LInv'
<1> SUFFICES ASSUME LInv, CInv', BeginStep  PROVE LInv'
  OBVIOUS
<1>1. /\ step'.n = NoTokens /\ pc' = "running" /\ running' = running
      /\ step'.tokens = (IF pause = "PAUSED_ALL" THEN 0 ELSE MaxScheduled)
      /\ step'.input = MaxBatched
  BY DEF BeginStep, NewStep
<1>2. Unspent'
  BY <1>1, ConfigAssumption DEF Unspent
<1>3. \A r \in Reqs : ~(step'.n[r] > 0)
  BY <1>1 DEF NoTokens
<1> QED  BY <1>1, <1>2, <1>3 DEF LInv, Affordable, WantedFits, ScheduledFits

LEMMA QuietLInv ==
  ASSUME LInv, CInv', SkipRunning \/ EndRunningPass \/ SkipStale \/ EndWaitingPass
  PROVE  LInv'
<1>1. /\ UNCHANGED <<req, running>> /\ pc \in Pass /\ pc' \in Pass \ {"alloc"}
  BY DEF SkipRunning, EndRunningPass, SkipStale, EndWaitingPass, Pass
<1>2. step'.n = step.n /\ step'.tokens = step.tokens /\ step'.input = step.input
  <2>1. step \in StepType
    BY StepTypes DEF LInv
  <2> QED  BY <2>1 DEF SkipRunning, EndRunningPass, SkipStale, EndWaitingPass, StepType
<1> QED  BY <1>1, <1>2 DEF LInv, Affordable, WantedFits, ScheduledFits, Unspent

LEMMA PickLInv == LInv /\ CInv' /\ PickRunning => LInv'
<1> SUFFICES ASSUME LInv, CInv', PickRunning  PROVE LInv'
  OBVIOUS
<1>1. /\ UNCHANGED <<req, running>> /\ pc = "running" /\ InRunningPass
      /\ QInv /\ IInv /\ step \in StepType
  BY StepTypes DEF PickRunning, LInv, CInv, FInv, QInv
<1> DEFINE r == running[step.idx]
           q == req[r]
           c == ClippedTokens(q, r)
<1>2. /\ step'.n = step.n /\ step'.tokens = step.tokens /\ step'.input = step.input
      /\ pc' = "alloc" =>
           /\ step'.idx = step.idx /\ step'.want \in Nat
           /\ \/ r \in MMReqs /\ NumSpec > 0
              \/ \E m \in EncoderLimited(r, q.num_computed, c) : m \in Int /\ step'.want <= m
  BY <1>1, PickEffect
<1>3. /\ q \in RequestType /\ q.num_computed \in Int /\ step.tokens \in Int
      /\ step.input \in Int /\ DraftSlots \in Int /\ MaxModelLen \in Int
  BY <1>1, CursorRequest, RequestFields, StepFields, ConfigAssumption DEF InRunningPass
<1>4. /\ c \in Int /\ c <= step.tokens /\ c <= step.input - DraftSlots
      /\ c <= MaxModelLen - q.num_computed - 1
  BY <1>1, <1>3, ClippedBounds, ClippedType
<1>5. ASSUME pc' = "alloc", Unpadded(r)
      PROVE  /\ step'.want <= step.tokens /\ step'.want + DraftSlots <= step.input
             /\ q.num_computed + step'.want <= MaxModelLen
  <2>1. PICK m \in EncoderLimited(r, q.num_computed, c) : m \in Int /\ step'.want <= m
    BY <1>2, <1>5 DEF Unpadded
  <2>2. step'.want \in Nat
    BY <1>2, <1>5
  <2> HIDE DEF c
  <2>3. m <= c
    BY <1>4, <2>1, EncoderOnlyLess
  <2> HIDE DEF q, r
  <2> QED  BY <1>3, <1>4, <2>1, <2>2, <2>3
<1>6. Affordable' /\ WantedFits'
  <2>1. pc' = "alloc" => running'[step'.idx] = r /\ req'[r] = q
    BY <1>1, <1>2
  <2> HIDE DEF q, r, c
  <2>2. pc' = "alloc" /\ Unpadded(r)
          => /\ step'.want <= step'.tokens /\ step'.want + DraftSlots <= step'.input
             /\ req'[r].num_computed + step'.want <= MaxModelLen
    BY <1>2, <1>5, <2>1
  <2> QED  BY <2>1, <2>2 DEF Affordable, WantedFits, Unpadded
<1>7. /\ Len(running') <= MaxRunning
      /\ (\A x \in Reqs : Unpadded(x)) => Unspent'
      /\ \A x \in Reqs : ScheduledFits(x)'
  BY <1>1, <1>2 DEF LInv, Unspent, ScheduledFits, Unpadded, Pass
<1> QED  BY <1>6, <1>7 DEF LInv, Unpadded

LEMMA ScheduleRunningLInv == LInv /\ CInv' /\ ScheduleRunning => LInv'
<1> SUFFICES ASSUME LInv, CInv', ScheduleRunning  PROVE LInv'
  OBVIOUS
<1> DEFINE r == running[step.idx]
           p == Granted(req[r], Missing(r))
<1>1. /\ r \in Reqs /\ req' = [req EXCEPT ![r] = p]
      /\ p.num_computed = req[r].num_computed
      /\ step'.n = [step.n EXCEPT ![r] = step.want]
      /\ step'.tokens = step.tokens - step.want
      /\ step'.input = step.input - step.want - DraftSlots
  BY ScheduleRunningEffect DEF LInv, CInv, FInv
<1>2. pc = "alloc" /\ pc' = "running" /\ running' = running
  BY DEF ScheduleRunning
<1>3. /\ Unpadded(r) => /\ step.want <= step.tokens /\ step.want + DraftSlots <= step.input
                        /\ req[r].num_computed + step.want <= MaxModelLen
      /\ step.tokens \in Int /\ step.input \in Int /\ step.want \in Int /\ DraftSlots \in Int
  BY <1>2, StepTypes, StepFields, ConfigAssumption DEF LInv, Affordable, WantedFits
<1> HIDE DEF p, r
<1>4. \A x \in Reqs : /\ req'[x] = IF x = r THEN p ELSE req[x]
                      /\ step'.n[x] = IF x = r THEN step.want ELSE step.n[x]
  BY <1>1, StepTypes DEF LInv
<1>5. (\A x \in Reqs : Unpadded(x)) => Unspent'
  BY <1>1, <1>3 DEF Unspent
<1>6. \A x \in Reqs : ScheduledFits(x)'
  BY <1>1, <1>3, <1>4 DEF LInv, ScheduledFits, Unpadded
<1> QED  BY <1>2, <1>5, <1>6 DEF LInv, Affordable, WantedFits, Unpadded

LEMMA PreemptVictimLInv == LInv /\ CInv' /\ PreemptVictim => LInv'
<1> SUFFICES ASSUME LInv, CInv', PreemptVictim  PROVE LInv'
  OBVIOUS
<1>0. QInv /\ IInv
  BY DEF LInv, CInv, FInv, QInv
<1>1. PICK i \in DOMAIN running :
        /\ running' = RemoveIndex(running, i) /\ Preempt(running[i], DropStale)
        /\ step'.n = [step.n EXCEPT ![running[i]] = 0]
        /\ step'.tokens = step.tokens + step.n[running[i]]
        /\ step'.input = IF step.n[running[i]] > 0
                         THEN step.input + step.n[running[i]] + DraftSlots ELSE step.input
        /\ step'.idx = IF i < step.idx THEN step.idx - 1 ELSE step.idx
        /\ \/ i = step.idx /\ pc' = "finish"
           \/ i # step.idx /\ pc' = "alloc" /\ step'.want = step.want
  BY <1>0, PreemptVictimEffect
<1> DEFINE v == running[i]
<1>2. /\ v \in Reqs /\ pc = "alloc" /\ i \in 1 .. Len(running)
      /\ running \in Seq(Reqs) /\ Len(running) \in Nat /\ DOMAIN running = 1 .. Len(running)
      /\ \A j, k \in DOMAIN running : running[j] = running[k] => j = k
      /\ step.idx \in DOMAIN running
  BY <1>0, RunningFacts, StepTypes
     DEF LInv, PreemptVictim, QInv, Queued, Once, IInv, CursorOK
<1>3. Preempt(v, DropStale) /\ DropStale \in BOOLEAN
  BY <1>1, ConfigAssumption
<1>4. \A x \in Reqs : x # v => req'[x] = req[x]
  BY <1>0, <1>2, <1>3, PreemptEffect
<1>5. \A x \in Reqs : step'.n[x] = IF x = v THEN 0 ELSE step.n[x]
  BY <1>1, StepTypes DEF LInv
<1>6. /\ step.n[v] \in Nat /\ step.tokens \in Int /\ step.input \in Int /\ DraftSlots \in Nat
      /\ step.want \in Int
  BY <1>2, StepTypes, StepFields, ConfigAssumption DEF LInv
<1>7. step'.tokens >= step.tokens /\ step'.input >= step.input
      /\ step'.tokens \in Int /\ step'.input \in Int
  <2>1. /\ step'.tokens = step.tokens + step.n[v]
        /\ step'.input = IF step.n[v] > 0 THEN step.input + step.n[v] + DraftSlots
                         ELSE step.input
    BY <1>1
  <2> HIDE DEF v
  <2> QED  BY <1>6, <2>1
<1>8. Len(running') <= MaxRunning
  <2>1. Len(running') = Len(running) - 1
    BY <1>1, <1>2, RemoveIndexLen
  <2> QED  BY <1>2, <2>1, ConfigAssumption DEF LInv
<1>9. (\A x \in Reqs : Unpadded(x)) => Unspent'
  BY <1>2, <1>6, <1>7 DEF LInv, Unspent, Pass
<1>10. \A x \in Reqs : ScheduledFits(x)'
  BY <1>4, <1>5 DEF LInv, ScheduledFits, Unpadded
<1>11. Affordable' /\ WantedFits'
  <2>1. CASE pc' = "alloc"
    <3> DEFINE r == running[step.idx]
    <3>1. running'[step'.idx] = r /\ r # v /\ r \in Reqs /\ step'.want = step.want
      <4>1. i # step.idx /\ step'.want = step.want
        BY <1>1, <2>1
      <4>2. step'.idx \in 1 .. Len(running) - 1
            /\ running'[step'.idx] = IF step'.idx < i THEN running[step'.idx]
                                     ELSE running[step'.idx + 1]
        <5>1. step.idx \in 1 .. Len(running) /\ i \in Int
          BY <1>2
        <5>2. step'.idx \in 1 .. Len(running) - 1
          BY <1>1, <1>2, <4>1, <5>1
        <5> QED  BY <1>1, <5>2 DEF RemoveIndex
      <4>3. running'[step'.idx] = r
        <5>1. i \in Int /\ step.idx \in Int
          BY <1>2
        <5> QED  BY <1>1, <4>1, <4>2, <5>1
      <4>4. r # v /\ r \in Reqs
        BY <1>0, <1>2, <4>1, RunningFacts
      <4> QED  BY <4>1, <4>3, <4>4
    <3>2. req'[r] = req[r]
      BY <1>4, <3>1
    <3> HIDE DEF r, v
    <3>3. Unpadded(r) => /\ step.want <= step.tokens /\ step.want + DraftSlots <= step.input
                         /\ req[r].num_computed + step.want <= MaxModelLen
      BY <1>2 DEF LInv, Affordable, WantedFits, r
    <3>4. Unpadded(r) => step.want <= step'.tokens /\ step.want + DraftSlots <= step'.input
      BY <1>6, <1>7, <3>3
    <3> QED  BY <3>1, <3>2, <3>3, <3>4 DEF Affordable, WantedFits, Unpadded
  <2>2. CASE pc' # "alloc"
    BY <2>2 DEF Affordable, WantedFits
  <2> QED  BY <2>1, <2>2
<1> QED  BY <1>8, <1>9, <1>10, <1>11 DEF LInv, Unpadded

LEMMA TryAdmitLInv == LInv /\ CInv' /\ TryAdmit => LInv'
<1> SUFFICES ASSUME LInv, CInv', TryAdmit  PROVE LInv'
  OBVIOUS
<1>0. QInv /\ IInv /\ step \in StepType /\ running \in Seq(Reqs) /\ Len(running) \in Nat
  BY StepTypes DEF LInv, CInv, FInv, QInv
<1>1. /\ pc = "waiting" /\ step.tokens > 0 /\ step.input > DraftSlots
      /\ Len(running) < MaxRunning
  BY DEF TryAdmit, InWaitingPass
<1>2. CASE pc' = "finish" /\ UNCHANGED <<req, running, step>>
  BY <1>1, <1>2 DEF LInv, Affordable, WantedFits, ScheduledFits, Unpadded, Unspent, Pass
<1>3. CASE ~(pc' = "finish" /\ UNCHANGED <<req, running, step>>)
  <2> DEFINE r == Candidate
  <2>1. PICK hit \in Nat, n \in Nat \ {0}, m \in Int :
          /\ r \in Reqs /\ req[r].status \in {"WAITING", "PREEMPTED"}
          /\ hit < req[r].num_tokens
          /\ m \in EncoderLimited(r, hit, AdmissionTokens(r, hit)) /\ n <= m
          /\ BlocksToAdmit(r, hit + n + LookaheadFor(r, FALSE)) <= free
          /\ LET k == Need(r, hit + n + LookaheadFor(r, FALSE))
             IN  /\ k \in Nat /\ free' = free - k
                 /\ req' = [req EXCEPT ![r] = Admitted(req[r], hit, k)]
                 /\ LET p == Admitted(req[r], hit, k)
                    IN  /\ p.status = "RUNNING" /\ p.num_tokens = req[r].num_tokens
                        /\ p.num_computed = hit /\ p.in_flight = req[r].in_flight
                        /\ p.stale = req[r].stale /\ p.blocks = req[r].blocks + k
          /\ step'.n = [step.n EXCEPT ![r] = n]
          /\ step'.tokens = step.tokens - n
          /\ step'.input = step.input - n - DraftSlots
          /\ step'.idx = step.idx /\ pc' = "waiting"
          /\ running' = Append(running, r)
    BY <1>0, <1>3, AdmitEffect
  <2> HIDE DEF r
  <2> DEFINE p == Admitted(req[r], hit, Need(r, hit + n + LookaheadFor(r, FALSE)))
             t == AdmissionTokens(r, hit)
  <2>2. /\ r \in Reqs /\ req' = [req EXCEPT ![r] = p] /\ p.num_computed = hit
        /\ step'.n = [step.n EXCEPT ![r] = n] /\ step'.tokens = step.tokens - n
        /\ step'.input = step.input - n - DraftSlots
        /\ pc' = "waiting" /\ running' = Append(running, r)
    BY <2>1
  <2> HIDE DEF p
  <2>3. /\ t \in Int /\ t <= step.tokens /\ t <= step.input - DraftSlots
        /\ hit + t <= MaxModelLen
    <3>1. req[r].status # "ABSENT"
      BY <2>1
    <3> QED  BY <1>0, <1>1, <2>1, <3>1, AdmissionBounds
  <2>4. n <= t
    <3> HIDE DEF t
    <3>1. m <= t
      BY <2>1, <2>3, EncoderOnlyLess DEF t
    <3> QED  BY <2>1, <2>3, <3>1
  <2>5. step.tokens \in Int /\ step.input \in Int /\ DraftSlots \in Int /\ MaxModelLen \in Int
    BY <1>0, StepFields, ConfigAssumption
  <2> HIDE DEF t
  <2>6. Unspent' /\ hit + n <= MaxModelLen
    BY <2>2, <2>3, <2>4, <2>5 DEF Unspent
  <2>7. \A x \in Reqs : /\ req'[x] = IF x = r THEN p ELSE req[x]
                        /\ step'.n[x] = IF x = r THEN n ELSE step.n[x]
    BY <2>2, StepTypes DEF LInv
  <2>8. \A x \in Reqs : ScheduledFits(x)'
    BY <2>2, <2>6, <2>7 DEF LInv, ScheduledFits, Unpadded
  <2>9. Len(running') <= MaxRunning
    <3>1. Len(running') = Len(running) + 1
      BY <1>0, <2>2, AppendProperties
    <3> QED  BY <1>0, <1>1, <3>1, ConfigAssumption
  <2> QED  BY <2>2, <2>6, <2>8, <2>9 DEF LInv, Affordable, WantedFits
<1> QED  BY <1>2, <1>3

LEMMA InitLInv == Init => LInv
<1> SUFFICES ASSUME Init  PROVE LInv
  OBVIOUS
<1>1. step.n = NoTokens /\ pc = "idle" /\ running = <<>>
  BY DEF Init, NoStep, NewStep
<1>2. Len(running) <= MaxRunning
  BY <1>1, ConfigAssumption
<1> QED  BY <1>1, <1>2, InitCInv
         DEF LInv, Affordable, WantedFits, ScheduledFits, Unspent, Pass, NoTokens

LEMMA NextLInv == LInv /\ [Next]_vars => LInv'
<1> SUFFICES ASSUME LInv, [Next]_vars  PROVE LInv'
  OBVIOUS
<1>1. CInv'
  BY NextCInv DEF LInv
<1>2. CASE BeginStep \/ PickRunning \/ ScheduleRunning \/ PreemptVictim \/ TryAdmit
  BY <1>1, <1>2, BeginLInv, PickLInv, ScheduleRunningLInv, PreemptVictimLInv, TryAdmitLInv
<1>3. CASE SkipRunning \/ EndRunningPass \/ SkipStale \/ EndWaitingPass
  BY <1>1, <1>3, QuietLInv
<1>4. CASE UpdateDrafts \/ BeginUpdate \/ EndUpdate \/ BeginReset \/ EndReset \/ ResetOne
           \/ FinishStep \/ (\E p \in PauseStates : SetPause(p))
           \/ (\E r \in Reqs : IgnoreOutput(r) \/ DropOutput(r) \/ DeliverOutput(r)
                               \/ AddRequest(r) \/ Abort(r))
  BY <1>1, <1>4, OutsideLInv
<1>5. CASE UNCHANGED vars
  BY <1>1, <1>5 DEF vars, LInv, Affordable, WantedFits, ScheduledFits, Unspent, Unpadded
<1> QED  BY <1>2, <1>3, <1>4, <1>5 DEF Next, Schedule, Update, Environment

\* The budgets, the length of `running' and the positions, scheduled or about to be, keep
\* within their limits through every action.
THEOREM LimitsInductive == Spec => []LInv
<1> QED  BY InitLInv, NextLInv, PTL DEF Spec

\* The assertions at the end of schedule(): neither budget is overdrawn and no more
\* than max_num_running_reqs run, where no decode with images is padded.
THEOREM BudgetsAlwaysHold ==
  ASSUME MMReqs = {} \/ NumSpec = 0
  PROVE  Spec => []BudgetsHold
<1>1. LInv => BudgetsHold
  BY DEF LInv, Unpadded, Unspent, BudgetsHold, Pass
<1> QED  BY <1>1, LimitsInductive, PTL

\* A request that is not padded never reaches a position past the model length, whatever
\* the requests beside it do.
THEOREM UnpaddedInBounds ==
  Spec => [](\A r \in Reqs \ MMReqs :
               step.n[r] > 0 => req[r].num_computed + step.n[r] <= MaxModelLen)
<1>1. LInv => \A r \in Reqs \ MMReqs :
                step.n[r] > 0 => req[r].num_computed + step.n[r] <= MaxModelLen
  BY DEF LInv, ScheduledFits, Unpadded
<1> QED  BY <1>1, LimitsInductive, PTL

\* No input position reaches past max_model_len, where no decode with images is padded.
THEOREM PositionsStayInBounds ==
  ASSUME MMReqs = {} \/ NumSpec = 0
  PROVE  Spec => []PositionsInBounds
<1>1. LInv => PositionsInBounds
  BY DEF LInv, ScheduledFits, Unpadded, PositionsInBounds
<1> QED  BY <1>1, LimitsInductive, PTL
=============================================================================
