--------------------------- MODULE SessionsProofs ---------------------------
(***************************************************************************)
(* Theorems about Sessions, for any requests, clients, rows and budgets    *)
(* and any number of batches in flight: a live request is in exactly one   *)
(* queue, the engine sleeps only when there is nothing to do, what the KV  *)
(* slots hold is the text, and the text is what the client sent.  They are *)
(* about the engine without the three situations that Sessions names       *)
(* StaleTurns, CutTurns and LateTurns; each of them breaks one or more.    *)
(***************************************************************************)
EXTENDS Sessions, SumTheorems, SequenceTheorems, FiniteSetTheorems, TLAPS

\* Everybody in q is there once.
Once(q) == \A i, j \in DOMAIN q : q[i] = q[j] => i = j
Within(q) == {q[i] : i \in DOMAIN q}

----------------------------------------------------------------------------
(* The inductive invariant.                                                *)

Shape ==
  /\ pc \in {"idle", "admit", "finish", "update"}
  /\ req \in [Reqs -> RequestType]
  /\ running \in Seq(Reqs) /\ waiting \in Seq(Reqs) /\ skipped \in Seq(Reqs) /\ skip \in Seq(Reqs)
  /\ step \in [rows : Seq(RowType), budget : Nat, decoding : BOOLEAN]
  /\ batches \in Seq(Seq(RowType)) /\ todo \in Seq(RowType)
  /\ stopped \in [ran : SUBSET Reqs, preempted : SUBSET Reqs]
  /\ flush \subseteq Reqs /\ errors \subseteq Reqs /\ slots \subseteq Reqs
  /\ sent \in [Reqs -> Nat] /\ short \in 0 .. MaxShort

\* Who is in running, and who in the three queues of those that wait.
Runs(r) == req[r].status = "RUNNING" \/ r \in stopped.ran
Waits(r) == (Live(r) /\ req[r].status # "RUNNING") \/ r \in stopped.preempted

Queued ==
  /\ Once(running) /\ Once(waiting) /\ Once(skipped) /\ Once(skip)
  /\ Within(running) = {r \in Reqs : Runs(r)}
  /\ Within(waiting) \cup Within(skipped) \cup Within(skip) = {r \in Reqs : Waits(r)}
  /\ Within(waiting) \cap Within(skipped) = {} /\ Within(waiting) \cap Within(skip) = {}
  /\ Within(skipped) \cap Within(skip) = {}

\* What is left of a call is put back before it returns.
NoneLeft ==
  /\ pc \notin {"admit", "finish"} => skip = <<>> /\ step = NoStep
  /\ pc # "update" => todo = <<>> /\ stopped = NoneStopped

\* A session that stops while it waits would be lost; the others are gone.
StoppedApart ==
  /\ \A r \in stopped.ran : req[r].status # "RUNNING"
  /\ \A r \in stopped.preempted : req[r].status = "FINISHED"

\* The paused sessions are counted.
PausedReqs == {r \in Reqs : Paused(r)}
PausedCounted == num_waiting_for_streaming_input = Cardinality(PausedReqs)

\* The rows of a step.
In(q, r) == \E i \in DOMAIN q : q[i].r = r
Rows(q) ==
  /\ \A i, j \in DOMAIN q : q[i].r = q[j].r => i = j
  /\ \A i \in DOMAIN q : q[i].drafts < q[i].n /\ (q[i].samples \/ q[i].drafts = 0)
\* n rows for a request r that is q, none of them beyond its drafts.
RowOf(r, q, n) ==
  [r |-> r, n |-> n, drafts |-> Most(0, (q.computed + n) - Planned(q)),
   samples |-> q.computed + n >= Planned(q)]
StepRows(rows, f) ==
  /\ Rows(rows)
  /\ \A i \in DOMAIN rows :
       LET r == rows[i].r
       IN  /\ f[r].status = "RUNNING" /\ f[r].computed < Planned(f[r])
           /\ rows[i] = RowOf(r, f[r], rows[i].n)
StepOK == StepRows(step.rows, req)

\* What is in flight for r when the rows of t are left of a batch and b waits: tokens, or
\* the output that was planned with them.
Counts == {"computed", "planned"}
Weight(row, plan) ==
  IF plan = "computed" THEN row.n ELSE IF row.samples THEN 1 + row.drafts ELSE 0
Tokens(q, r, plan) ==
  IF In(q, r) THEN Weight(q[CHOOSE i \in DOMAIN q : q[i].r = r], plan) ELSE 0
Load(b, r, plan) == [i \in DOMAIN b |-> Tokens(b[i], r, plan)]
InFlight(t, b, r, plan) == Tokens(t, r, plan) + Total(Load(b, r, plan), Len(b))

Flying(t, b) == Within(t) \cup UNION {Within(b[j]) : j \in DOMAIN b}
FlightOK ==
  /\ Rows(todo) /\ \A i \in DOMAIN batches : Rows(batches[i])
  /\ \A row \in Flying(todo, batches) : req[row.r].status # "ABSENT"

\* Behind a row of r that is sampled there are decode steps only.
Ends(q, r) == \E i \in DOMAIN q : q[i].r = r /\ q[i].samples
Decodes(q, r) == \A i \in DOMAIN q : q[i].r = r => q[i].samples /\ q[i].n = 1 + q[i].drafts
Ended(t, b, r) ==
  /\ Ends(t, r) => \A k \in DOMAIN b : Decodes(b[k], r)
  /\ \A j \in DOMAIN b : Ends(b[j], r) => \A k \in DOMAIN b : k > j => Decodes(b[k], r)

\* A request q in running: while output of it is planned, all but the last token of what is
\* planned is computed.
RanOK(r, q, t, b) ==
  /\ q.stale = 0 /\ Ended(t, b, r)
  /\ q.placeholders = InFlight(t, b, r, "planned")
  /\ q.computed < Planned(q)
  /\ q.placeholders > 0 => q.computed + 1 = Planned(q)

WaitsOK(r, q) ==
  /\ q.stale = q.in_flight /\ q.placeholders = 0 /\ q.computed < Len(q.text)
  /\ r \in Streams => q.in_flight = 0

\* The KV slots hold what was answered, a beginning of the text.
Held(q) ==
  /\ Len(q.text) > 0 /\ Len(q.kv) + q.in_flight = q.computed + q.stale
  /\ Len(q.kv) <= Len(q.text) /\ \A i \in 1 .. Len(q.kv) : q.kv[i] = q.text[i]

Outs == {"out"} \X Nat \X Nat
InputOf(n) == [i \in 1 .. n * ChunkLen |->
                 <<"in", 1 + ((i - 1) \div ChunkLen), 1 + ((i - 1) % ChunkLen)>>]

\* k chunks of a session that has taken t wait in u, and perhaps the end of its input.
Queue(u, t, k) ==
  /\ k >= 0 /\ Len(u) \in {k, k + 1}
  /\ \A i \in 1 .. k : u[i] = t + i
  /\ Len(u) = k + 1 => u[k + 1] = End
InputOK(r, q, s) ==
  /\ q.turn > 0 /\ Off(q.text, Outs) = InputOf(q.turn)
  /\ Queue(q.updates, q.turn, s - q.turn)
  /\ r \notin Streams => q.updates = <<>>

PausedOK(r, q) ==
  q.status = "WAITING_FOR_STREAMING_REQ" =>
    /\ r \in Streams /\ q.updates = <<>> /\ q.computed + 1 = Len(q.text)
    /\ q.text[Len(q.text)] \in Outs

\* A request r as q, s chunks of which were sent.
Alive(r, q, s, t, b) ==
  q.status \notin {"ABSENT", "FINISHED"} =>
    /\ q.in_flight = InFlight(t, b, r, "computed") /\ Held(q) /\ InputOK(r, q, s) /\ PausedOK(r, q)
    /\ (q.status = "RUNNING" => RanOK(r, q, t, b))
    /\ (q.status # "RUNNING" => WaitsOK(r, q))

IInv ==
  /\ Queued /\ NoneLeft /\ StoppedApart /\ PausedCounted /\ StepOK /\ FlightOK
  /\ \A r \in Reqs : Alive(r, req[r], sent[r], todo, batches)

Inv == Shape /\ IInv

----------------------------------------------------------------------------
(* Taking members out of a sequence.                                       *)

\* f is the recursive function of Off, for the first n entries of q.
OffTo(f, q, S, n) ==
  /\ f = [i \in 0 .. n |-> f[i]] /\ f[0] = <<>>
  /\ \A i \in 1 .. n : f[i] = IF q[i] \in S THEN f[i - 1] ELSE Append(f[i - 1], q[i])

LEMMA OffReaches ==
  ASSUME NEW q, NEW S
  PROVE  \A n \in Nat : \E f : OffTo(f, q, S, n)
<1> DEFINE T == {n \in Nat : \E f : OffTo(f, q, S, n)}
           Next1(f, i) == IF q[i] \in S THEN f[i - 1] ELSE Append(f[i - 1], q[i])
<1>1. 0 \in T
  <2> DEFINE f == [i \in 0 .. 0 |-> <<>>]
  <2>1. f[0] = <<>> /\ 1 .. 0 = {} /\ f = [i \in 0 .. 0 |-> f[i]]
    OBVIOUS
  <2> HIDE DEF f
  <2>2. OffTo(f, q, S, 0)
    BY <2>1 DEF OffTo
  <2> QED  BY <2>2
<1>2. ASSUME NEW n \in Nat, n \in T PROVE n + 1 \in T
  <2>1. PICK g : OffTo(g, q, S, n)
    BY <1>2
  <2>2. g[0] = <<>> /\ \A i \in 1 .. n : g[i] = Next1(g, i)
    BY <2>1 DEF OffTo
  <2> DEFINE f == [i \in 0 .. n + 1 |-> IF i = n + 1 THEN Next1(g, n + 1) ELSE g[i]]
  <2>3. f[n + 1] = Next1(g, n + 1) /\ \A i \in 0 .. n : f[i] = g[i]
    OBVIOUS
  <2>4. f = [i \in 0 .. n + 1 |-> f[i]]
    OBVIOUS
  <2> HIDE DEF f
  <2>5. ASSUME NEW i \in 1 .. n + 1 PROVE f[i] = Next1(f, i)
    <3>1. CASE i = n + 1
      <4>1. n \in 0 .. n /\ i - 1 = n /\ (n + 1) - 1 = n
        BY <3>1
      <4>2. f[i - 1] = g[n]
        BY <2>3, <4>1
      <4> QED  BY <2>3, <3>1, <4>1, <4>2
    <3>2. CASE i # n + 1
      <4>1. i \in 1 .. n /\ i \in 0 .. n /\ i - 1 \in 0 .. n
        BY <3>2
      <4>2. f[i] = g[i] /\ f[i - 1] = g[i - 1]
        BY <2>3, <4>1
      <4> QED  BY <2>2, <4>1, <4>2
    <3> QED  BY <3>1, <3>2
  <2>6. f[0] = <<>>
    BY <2>2, <2>3
  <2>7. OffTo(f, q, S, n + 1)
    BY <2>4, <2>5, <2>6 DEF OffTo
  <2> QED  BY <2>7
<1> HIDE DEF T
<1>3. \A n \in Nat : n \in T
  BY <1>1, <1>2, SetInduction
<1> QED  BY <1>3 DEF T

LEMMA OffIs ==
  ASSUME NEW q, NEW S, Len(q) \in Nat
  PROVE  \E f : OffTo(f, q, S, Len(q)) /\ Off(q, S) = f[Len(q)]
<1> DEFINE n == Len(q)
           F(f) == [i \in 0 .. n |->
                      IF i = 0 THEN <<>>
                      ELSE IF q[i] \in S THEN f[i - 1] ELSE Append(f[i - 1], q[i])]
           rest == CHOOSE f : f = F(f)
<1>1. PICK g : OffTo(g, q, S, n)
  BY OffReaches
<1>2. g = F(g)
  <2>1. /\ g = [i \in 0 .. n |-> g[i]] /\ g[0] = <<>>
        /\ \A i \in 1 .. n : g[i] = IF q[i] \in S THEN g[i - 1] ELSE Append(g[i - 1], q[i])
    BY <1>1 DEF OffTo
  <2>2. \A i \in 0 .. n : g[i] = IF i = 0 THEN <<>>
                                 ELSE IF q[i] \in S THEN g[i - 1] ELSE Append(g[i - 1], q[i])
    <3>1. (\A i \in 0 .. n : i = 0 \/ i \in 1 .. n) /\ \A i \in 1 .. n : i # 0
      OBVIOUS
    <3> QED  BY <2>1, <3>1
  <2>3. [i \in 0 .. n |-> g[i]] = F(g)
    BY <2>2
  <2> HIDE DEF F
  <2> QED  BY <2>1, <2>3
<1>3. rest = F(rest)
  BY <1>2, Zenon
<1>4. Off(q, S) = rest[n]
  BY DEF Off
<1> HIDE DEF rest
<1>5. OffTo(rest, q, S, n)
  <2>1. rest = [i \in 0 .. n |-> rest[i]]
    <3>1. DOMAIN rest = 0 .. n
      BY <1>3
    <3>2. F(rest) = [i \in DOMAIN F(rest) |-> F(rest)[i]]
      OBVIOUS
    <3> HIDE DEF F
    <3> QED  BY <1>3, <3>1, <3>2
  <2>2. \A i \in 0 .. n : rest[i] = IF i = 0 THEN <<>>
                                    ELSE IF q[i] \in S THEN rest[i - 1] ELSE Append(rest[i - 1], q[i])
    BY <1>3
  <2>3. 0 \in 0 .. n /\ \A i \in 1 .. n : i \in 0 .. n /\ i # 0
    OBVIOUS
  <2> QED  BY <2>1, <2>2, <2>3 DEF OffTo
<1> QED  BY <1>4, <1>5

\* p starts like q.
Begins(q, p, n, m) == n <= m /\ \A i \in 1 .. n : q[i] = p[i]

\* Two such functions agree as long as their sequences do.
LEMMA OffAgree ==
  ASSUME NEW p, NEW q, NEW S, NEW f, NEW g, NEW n \in Nat, NEW m \in Nat,
         OffTo(f, q, S, n), OffTo(g, p, S, m), Begins(q, p, n, m)
  PROVE  f[n] = g[n]
<1> DEFINE T == {i \in Nat : i <= n => f[i] = g[i]}
<1>1. 0 \in T
  BY DEF OffTo
<1>b. n <= m /\ \A i \in 1 .. n : q[i] = p[i]
  BY DEF Begins
<1>2. ASSUME NEW i \in Nat, i \in T PROVE i + 1 \in T
  <2> SUFFICES ASSUME i + 1 <= n PROVE f[i + 1] = g[i + 1]
    OBVIOUS
  <2>1. i + 1 \in 1 .. n /\ i + 1 \in 1 .. m /\ (i + 1) - 1 = i /\ f[i] = g[i]
    BY <1>2, <1>b
  <2>2. /\ f[i + 1] = IF q[i + 1] \in S THEN f[i] ELSE Append(f[i], q[i + 1])
        /\ g[i + 1] = IF p[i + 1] \in S THEN g[i] ELSE Append(g[i], p[i + 1])
    BY <2>1 DEF OffTo
  <2> QED  BY <2>1, <2>2, <1>b
<1> HIDE DEF T
<1>3. \A i \in Nat : i \in T
  BY <1>1, <1>2, SetInduction
<1>4. n \in T
  BY <1>3
<1> QED  BY <1>4 DEF T

\* One more entry.
LEMMA OffNext ==
  ASSUME NEW p, NEW q, NEW S, NEW n \in Nat, Len(q) = n, Len(p) = n + 1,
         \A i \in 1 .. n : q[i] = p[i]
  PROVE  Off(p, S) = IF p[n + 1] \in S THEN Off(q, S) ELSE Append(Off(q, S), p[n + 1])
<1>1. PICK f : OffTo(f, q, S, n) /\ Off(q, S) = f[n]
  BY OffIs
<1>2. PICK g : OffTo(g, p, S, n + 1) /\ Off(p, S) = g[n + 1]
  <2>1. Len(p) \in Nat
    OBVIOUS
  <2>2. \E g : OffTo(g, p, S, Len(p)) /\ Off(p, S) = g[Len(p)]
    BY <2>1, OffIs
  <2> QED  BY <2>2
<1>3. f[n] = g[n]
  <2>1. OffTo(f, q, S, n) /\ OffTo(g, p, S, n + 1) /\ n + 1 \in Nat
    BY <1>1, <1>2
  <2>2. Begins(q, p, n, n + 1)
    BY DEF Begins
  <2> QED  BY <2>1, <2>2, OffAgree
<1>4. g[n + 1] = IF p[n + 1] \in S THEN g[n] ELSE Append(g[n], p[n + 1])
  <2>1. n + 1 \in 1 .. n + 1 /\ (n + 1) - 1 = n
    OBVIOUS
  <2> QED  BY <1>2, <2>1 DEF OffTo
<1> QED  BY <1>1, <1>2, <1>3, <1>4

LEMMA OffAppend ==
  ASSUME NEW X, NEW q \in Seq(X), NEW x \in X, NEW S
  PROVE  Off(Append(q, x), S) = IF x \in S THEN Off(q, S) ELSE Append(Off(q, S), x)
<1> DEFINE p == Append(q, x)
           n == Len(q)
<1>1. /\ n \in Nat /\ Len(p) = n + 1 /\ p[n + 1] = x /\ \A i \in 1 .. n : q[i] = p[i]
  BY AppendProperties, LenProperties
<1> HIDE DEF p
<1>2. Off(p, S) = IF p[n + 1] \in S THEN Off(q, S) ELSE Append(Off(q, S), p[n + 1])
  BY <1>1, OffNext
<1> QED  BY <1>1, <1>2 DEF p

LEMMA SubFacts ==
  ASSUME NEW X, NEW q \in Seq(X), NEW m \in 0 .. Len(q), NEW n \in m .. Len(q)
  PROVE  /\ SubSeq(q, m + 1, n) \in Seq(X) /\ Len(SubSeq(q, m + 1, n)) = n - m
         /\ \A i \in 1 .. n - m : SubSeq(q, m + 1, n)[i] = q[m + i]
<1>1. Len(q) \in Nat /\ \A i \in 1 .. Len(q) : q[i] \in X
  BY ElementOfSeq
<1>2. m + 1 \in Int /\ n \in Int /\ \A i \in m + 1 .. n : i \in 1 .. Len(q)
  BY <1>1
<1>3. /\ SubSeq(q, m + 1, n) \in Seq(X)
      /\ Len(SubSeq(q, m + 1, n)) = IF m + 1 <= n THEN n - (m + 1) + 1 ELSE 0
      /\ \A i \in 1 .. n - (m + 1) + 1 : SubSeq(q, m + 1, n)[i] = q[(m + 1) + i - 1]
  BY <1>1, <1>2, SubSeqProperties
<1>4. m \in Int /\ n \in Int /\ m <= n
  BY <1>1
<1> QED  BY <1>3, <1>4

LEMMA StartFacts ==
  ASSUME NEW X, NEW q \in Seq(X), NEW n \in 0 .. Len(q)
  PROVE  /\ SubSeq(q, 1, n) \in Seq(X) /\ Len(SubSeq(q, 1, n)) = n
         /\ \A i \in 1 .. n : SubSeq(q, 1, n)[i] = q[i]
<1>1. Len(q) \in Nat /\ 0 \in 0 .. Len(q) /\ n \in 0 .. Len(q) /\ 0 + 1 = 1 /\ n - 0 = n
      /\ \A i \in 1 .. n : 0 + i = i
  BY LenProperties
<1>2. /\ SubSeq(q, 0 + 1, n) \in Seq(X) /\ Len(SubSeq(q, 0 + 1, n)) = n - 0
      /\ \A i \in 1 .. n - 0 : SubSeq(q, 0 + 1, n)[i] = q[0 + i]
  BY <1>1, SubFacts
<1> QED  BY <1>1, <1>2

LEMMA ConcatFacts ==
  ASSUME NEW X, NEW a \in Seq(X), NEW b \in Seq(X)
  PROVE  /\ a \o b \in Seq(X) /\ Len(a \o b) = Len(a) + Len(b)
         /\ \A i \in 1 .. Len(a) : (a \o b)[i] = a[i]
         /\ \A i \in 1 .. Len(b) : (a \o b)[Len(a) + i] = b[i]
<1>1. Len(a) \in Nat /\ Len(b) \in Nat
  BY LenProperties
<1>2. /\ a \o b \in Seq(X) /\ Len(a \o b) = Len(a) + Len(b)
      /\ \A i \in 1 .. Len(a) + Len(b) :
            (a \o b)[i] = IF i <= Len(a) THEN a[i] ELSE b[i - Len(a)]
  BY ConcatProperties
<1>3. ASSUME NEW i \in 1 .. Len(a) PROVE (a \o b)[i] = a[i]
  BY <1>1, <1>2
<1>4. ASSUME NEW i \in 1 .. Len(b) PROVE (a \o b)[Len(a) + i] = b[i]
  <2>1. Len(a) + i \in 1 .. Len(a) + Len(b) /\ ~(Len(a) + i <= Len(a))
        /\ (Len(a) + i) - Len(a) = i
    BY <1>1
  <2> QED  BY <1>2, <2>1
<1> QED  BY <1>2, <1>3, <1>4

LEMMA ConcatNext ==
  ASSUME NEW X, NEW h \in Seq(X), NEW a \in Seq(X), NEW e \in X
  PROVE  h \o Append(a, e) = Append(h \o a, e)
<1> DEFINE l == <<e>>
<1>1. l \in Seq(X)
  OBVIOUS
<1>2. h \o a \in Seq(X)
  BY ConcatFacts
<1>3. Append(h \o a, e) = (h \o a) \o l
  BY <1>2, AppendIsConcat
<1>4. Append(a, e) = a \o l
  BY AppendIsConcat
<1> HIDE DEF l
<1>5. (h \o a) \o l = h \o (a \o l)
  BY <1>1, ConcatAssociative
<1> QED  BY <1>3, <1>4, <1>5

LEMMA AppendFacts ==
  ASSUME NEW X, NEW q \in Seq(X), NEW x \in X
  PROVE  /\ Append(q, x) \in Seq(X) /\ Len(Append(q, x)) = Len(q) + 1
         /\ Append(q, x)[Len(q) + 1] = x
         /\ \A i \in 1 .. Len(q) : Append(q, x)[i] = q[i]
BY AppendProperties, LenProperties

LEMMA TailFacts ==
  ASSUME NEW X, NEW q \in Seq(X), q # <<>>
  PROVE  /\ Len(q) \in Nat \ {0} /\ Head(q) \in X /\ Head(q) = q[1]
         /\ Tail(q) \in Seq(X) /\ Len(Tail(q)) = Len(q) - 1
         /\ \A i \in 1 .. Len(q) - 1 : Tail(q)[i] = q[i + 1]
BY HeadTailProperties, LenProperties, EmptySeq

LEMMA SameSeq ==
  ASSUME NEW X, NEW p \in Seq(X), NEW q \in Seq(X), Len(p) = Len(q),
         \A i \in 1 .. Len(q) : p[i] = q[i]
  PROVE  p = q
BY SeqEqual

----------------------------------------------------------------------------
(* What is left of a sequence.                                             *)

\* t has the entries of the first n of q that are not in S, in the same order.
Picks(t, q, S, n) ==
  /\ \A a \in DOMAIN t : \E j \in 1 .. n : t[a] = q[j] /\ q[j] \notin S
  /\ \A a, b \in DOMAIN t : a < b => \E j, k \in 1 .. n : j < k /\ t[a] = q[j] /\ t[b] = q[k]
  /\ \A j \in 1 .. n : q[j] \notin S => \E a \in DOMAIN t : t[a] = q[j]

LEMMA PicksNext ==
  ASSUME NEW X, NEW t \in Seq(X), NEW q, NEW S, NEW n \in Nat, Picks(t, q, S, n),
         q[n + 1] \in X
  PROVE  IF q[n + 1] \in S THEN Picks(t, q, S, n + 1)
         ELSE Picks(Append(t, q[n + 1]), q, S, n + 1)
<1> DEFINE x == q[n + 1]
<1>1. \A j \in 1 .. n + 1 : j \in 1 .. n \/ j = n + 1
  OBVIOUS
<1>2. \A j \in 1 .. n : j \in 1 .. n + 1 /\ j < n + 1
  OBVIOUS
<1>3. /\ \A a \in DOMAIN t : \E j \in 1 .. n : t[a] = q[j] /\ q[j] \notin S
      /\ \A a, b \in DOMAIN t :
            a < b => \E j, k \in 1 .. n : j < k /\ t[a] = q[j] /\ t[b] = q[k]
      /\ \A j \in 1 .. n : q[j] \notin S => \E a \in DOMAIN t : t[a] = q[j]
  BY DEF Picks
<1>4. CASE x \in S
  <2>1. \A a \in DOMAIN t : \E j \in 1 .. n + 1 : t[a] = q[j] /\ q[j] \notin S
    BY <1>2, <1>3
  <2>2. \A a, b \in DOMAIN t :
          a < b => \E j, k \in 1 .. n + 1 : j < k /\ t[a] = q[j] /\ t[b] = q[k]
    BY <1>2, <1>3
  <2>3. \A j \in 1 .. n + 1 : q[j] \notin S => \E a \in DOMAIN t : t[a] = q[j]
    BY <1>1, <1>3, <1>4
  <2> QED  BY <1>4, <2>1, <2>2, <2>3 DEF Picks
<1>5. CASE x \notin S
  <2> DEFINE u == Append(t, x)
             l == Len(t)
  <2>1. /\ u \in Seq(X) /\ Len(u) = l + 1 /\ u[l + 1] = x /\ \A i \in 1 .. l : u[i] = t[i]
        /\ l \in Nat /\ DOMAIN u = 1 .. l + 1 /\ DOMAIN t = 1 .. l
    BY AppendFacts, LenProperties
  <2> HIDE DEF u, l, x
  <2>2. ASSUME NEW a \in DOMAIN u
        PROVE  (a \in 1 .. l /\ u[a] = t[a]) \/ (a = l + 1 /\ u[a] = x)
    BY <2>1
  <2>3. n + 1 \in 1 .. n + 1 /\ x = q[n + 1]
    BY DEF x
  <2>4. \A a \in DOMAIN u : \E j \in 1 .. n + 1 : u[a] = q[j] /\ q[j] \notin S
    BY <1>2, <1>3, <1>5, <2>1, <2>2, <2>3
  <2>5. ASSUME NEW a \in DOMAIN u, NEW b \in DOMAIN u, a < b
        PROVE  \E j, k \in 1 .. n + 1 : j < k /\ u[a] = q[j] /\ u[b] = q[k]
    <3>1. a \in 1 .. l /\ u[a] = t[a]
      BY <2>1, <2>5
    <3>2. CASE b = l + 1
      <4>1. PICK j \in 1 .. n : t[a] = q[j]
        BY <1>3, <2>1, <3>1
      <4>2. u[b] = q[n + 1]
        BY <2>1, <2>3, <3>2
      <4> QED  BY <1>2, <2>3, <3>1, <4>1, <4>2
    <3>3. CASE b \in 1 .. l
      <4>1. u[b] = t[b]
        BY <2>1, <3>3
      <4>2. a \in DOMAIN t /\ b \in DOMAIN t
        BY <2>1, <3>1, <3>3
      <4>3. \E j, k \in 1 .. n : j < k /\ t[a] = q[j] /\ t[b] = q[k]
        BY <1>3, <2>5, <4>2
      <4> QED  BY <1>2, <3>1, <4>1, <4>3
    <3> QED  BY <2>2, <3>2, <3>3
  <2>6. \A j \in 1 .. n + 1 : q[j] \notin S => \E a \in DOMAIN u : u[a] = q[j]
    <3>1. l + 1 \in DOMAIN u /\ u[l + 1] = q[n + 1]
      BY <2>1, <2>3
    <3>2. \A i \in DOMAIN t : i \in DOMAIN u /\ u[i] = t[i]
      BY <2>1
    <3> QED  BY <1>1, <1>3, <3>1, <3>2
  <2>7. Picks(u, q, S, n + 1)
    BY <2>4, <2>5, <2>6 DEF Picks
  <2> QED  BY <1>5, <2>7 DEF u, x
<1> QED  BY <1>4, <1>5

LEMMA OffPicks ==
  ASSUME NEW X, NEW q \in Seq(X), NEW S
  PROVE  Off(q, S) \in Seq(X) /\ Picks(Off(q, S), q, S, Len(q))
<1> DEFINE n == Len(q)
<1>1. n \in Nat /\ \A i \in 1 .. n : q[i] \in X
  BY LenProperties, ElementOfSeq
<1>2. PICK f : OffTo(f, q, S, n) /\ Off(q, S) = f[n]
  BY <1>1, OffIs
<1> HIDE DEF n
<1> DEFINE T == {i \in Nat : i <= n => f[i] \in Seq(X) /\ Picks(f[i], q, S, i)}
<1>3. 0 \in T
  <2>1. f[0] = <<>> /\ <<>> \in Seq(X) /\ DOMAIN <<>> = {} /\ 1 .. 0 = {}
    BY <1>2 DEF OffTo
  <2>2. Picks(f[0], q, S, 0)
    BY <2>1, Zenon DEF Picks
  <2> QED  BY <2>1, <2>2
<1>4. ASSUME NEW i \in Nat, i \in T PROVE i + 1 \in T
  <2> SUFFICES ASSUME i + 1 <= n PROVE f[i + 1] \in Seq(X) /\ Picks(f[i + 1], q, S, i + 1)
    OBVIOUS
  <2>1. i + 1 \in 1 .. n /\ (i + 1) - 1 = i /\ f[i] \in Seq(X) /\ Picks(f[i], q, S, i)
    BY <1>1, <1>4
  <2>2. f[i + 1] = IF q[i + 1] \in S THEN f[i] ELSE Append(f[i], q[i + 1])
    BY <1>2, <2>1 DEF OffTo
  <2>3. q[i + 1] \in X
    BY <1>1, <2>1
  <2> HIDE DEF T
  <2>4. IF q[i + 1] \in S THEN Picks(f[i], q, S, i + 1)
        ELSE Picks(Append(f[i], q[i + 1]), q, S, i + 1)
    BY <2>1, <2>3, PicksNext
  <2>5. Append(f[i], q[i + 1]) \in Seq(X)
    BY <2>1, <2>3
  <2> QED  BY <2>1, <2>2, <2>4, <2>5
<1> HIDE DEF T
<1>5. \A i \in Nat : i \in T
  BY <1>3, <1>4, SetInduction
<1>6. n \in T
  BY <1>1, <1>5
<1> QED  BY <1>1, <1>2, <1>6 DEF T, n

LEMMA OffFacts ==
  ASSUME NEW X, NEW q \in Seq(X), NEW S
  PROVE  /\ Off(q, S) \in Seq(X) /\ Within(Off(q, S)) = Within(q) \ S
         /\ Once(q) => Once(Off(q, S))
<1> DEFINE t == Off(q, S)
           n == Len(q)
<1>1. /\ t \in Seq(X) /\ Picks(t, q, S, n) /\ DOMAIN q = 1 .. n
      /\ DOMAIN t = 1 .. Len(t) /\ Len(t) \in Nat
  BY OffPicks, LenProperties
<1> HIDE DEF t, n
<1>0. /\ \A a \in DOMAIN t : \E j \in DOMAIN q : t[a] = q[j] /\ q[j] \notin S
      /\ \A a, b \in DOMAIN t :
            a < b => \E j, k \in DOMAIN q : j < k /\ t[a] = q[j] /\ t[b] = q[k]
      /\ \A j \in DOMAIN q : q[j] \notin S => \E a \in DOMAIN t : t[a] = q[j]
  <2> DEFINE D == DOMAIN q
  <2>1. Picks(t, q, S, n) /\ 1 .. n = D
    BY <1>1
  <2> HIDE DEF D
  <2>2. /\ \A a \in DOMAIN t : \E j \in D : t[a] = q[j] /\ q[j] \notin S
        /\ \A a, b \in DOMAIN t : a < b => \E j, k \in D : j < k /\ t[a] = q[j] /\ t[b] = q[k]
        /\ \A j \in D : q[j] \notin S => \E a \in DOMAIN t : t[a] = q[j]
    BY <2>1, Zenon DEF Picks
  <2> QED  BY <2>2 DEF D
<1>2. Within(t) = Within(q) \ S
  <2>1. ASSUME NEW x \in Within(t) PROVE x \in Within(q) \ S
    <3>1. PICK a \in DOMAIN t : t[a] = x
      BY DEF Within
    <3> QED  BY <1>0, <3>1 DEF Within
  <2>2. ASSUME NEW x \in Within(q) \ S PROVE x \in Within(t)
    <3>1. PICK j \in DOMAIN q : q[j] = x
      BY DEF Within
    <3> QED  BY <1>0, <3>1 DEF Within
  <2> QED  BY <2>1, <2>2
<1>a. \A j, k \in DOMAIN q : ~(j < k /\ j = k)
  BY <1>1
<1>3. ASSUME Once(q), NEW a \in DOMAIN t, NEW b \in DOMAIN t, t[a] = t[b] PROVE a = b
  <2>0. \A j, k \in DOMAIN q : q[j] = q[k] => j = k
    BY <1>3 DEF Once
  <2>1. ~(a < b) /\ ~(b < a)
    BY <1>0, <1>3, <1>a, <2>0
  <2> QED  BY <1>1, <2>1
<1> QED  BY <1>1, <1>2, <1>3 DEF Once, t

LEMMA OffConcat ==
  ASSUME NEW X, NEW p \in Seq(X), NEW q \in Seq(X), NEW S
  PROVE  Off(p \o q, S) = Off(p, S) \o Off(q, S)
<1> DEFINE pq == p \o q
           m == Len(p)
           n == Len(q)
           h == Off(p, S)
<1>1. /\ m \in Nat /\ n \in Nat /\ Len(pq) = m + n /\ h \in Seq(X)
      /\ \A i \in 1 .. n : q[i] \in X
      /\ \A i \in 1 .. m : p[i] = pq[i]
      /\ \A i \in 1 .. n : pq[m + i] = q[i]
  BY ConcatFacts, LenProperties, ElementOfSeq, OffPicks
<1> HIDE DEF pq
<1>2. PICK e : OffTo(e, p, S, m) /\ h = e[m]
  BY <1>1, OffIs
<1>3. PICK g : OffTo(g, q, S, n) /\ Off(q, S) = g[n]
  BY <1>1, OffIs
<1>4. PICK f : OffTo(f, pq, S, m + n) /\ Off(pq, S) = f[m + n]
  <2>1. Len(pq) \in Nat
    BY <1>1
  <2>2. \E f : OffTo(f, pq, S, Len(pq)) /\ Off(pq, S) = f[Len(pq)]
    BY <2>1, OffIs
  <2> QED  BY <1>1, <2>2
<1> HIDE DEF m, n, h
<1>5. f[m] = h
  <2>1. Begins(p, pq, m, m + n) /\ m + n \in Nat
    BY <1>1 DEF Begins
  <2> QED  BY <1>1, <1>2, <1>4, <2>1, OffAgree
<1> DEFINE T == {i \in Nat : i <= n => g[i] \in Seq(X) /\ f[m + i] = h \o g[i]}
<1>6. 0 \in T
  <2>1. g[0] = <<>> /\ m + 0 = m
    BY <1>1, <1>3 DEF OffTo
  <2>2. h \o <<>> = h
    BY <1>1, ConcatEmptySeq
  <2>3. g[0] \in Seq(X) /\ f[m + 0] = h \o g[0]
    BY <1>5, <2>1, <2>2
  <2> QED  BY <2>3
<1>7. ASSUME NEW i \in Nat, i \in T PROVE i + 1 \in T
  <2> SUFFICES ASSUME i + 1 <= n PROVE g[i + 1] \in Seq(X) /\ f[m + (i + 1)] = h \o g[i + 1]
    OBVIOUS
  <2>1. /\ i + 1 \in 1 .. n /\ (i + 1) - 1 = i /\ g[i] \in Seq(X) /\ f[m + i] = h \o g[i]
        /\ m + (i + 1) \in 1 .. m + n /\ (m + (i + 1)) - 1 = m + i
    BY <1>1, <1>7
  <2> HIDE DEF T
  <2>2. g[i + 1] = IF q[i + 1] \in S THEN g[i] ELSE Append(g[i], q[i + 1])
    BY <1>3, <2>1 DEF OffTo
  <2>3. f[m + (i + 1)] = IF pq[m + (i + 1)] \in S THEN f[m + i]
                         ELSE Append(f[m + i], pq[m + (i + 1)])
    BY <1>4, <2>1 DEF OffTo
  <2>4. pq[m + (i + 1)] = q[i + 1] /\ q[i + 1] \in X
    BY <1>1, <2>1
  <2>5. h \o Append(g[i], q[i + 1]) = Append(h \o g[i], q[i + 1])
    <3>1. h \in Seq(X) /\ g[i] \in Seq(X) /\ q[i + 1] \in X
      BY <1>1, <2>1, <2>4
    <3> QED  BY <3>1, ConcatNext
  <2>6. Append(g[i], q[i + 1]) \in Seq(X)
    BY <2>1, <2>4
  <2> QED  BY <2>1, <2>2, <2>3, <2>4, <2>5, <2>6
<1> HIDE DEF T
<1>8. \A i \in Nat : i \in T
  BY <1>6, <1>7, SetInduction
<1>9. n \in T
  BY <1>1, <1>8
<1> QED  BY <1>1, <1>3, <1>4, <1>9 DEF T, pq, h

LEMMA OffAll ==
  ASSUME NEW X, NEW q \in Seq(X), NEW S, Within(q) \subseteq S
  PROVE  Off(q, S) = <<>>
<1>1. Off(q, S) \in Seq(X) /\ Within(Off(q, S)) = {}
  BY OffFacts
<1>2. Len(Off(q, S)) = 0
  <2>1. Len(Off(q, S)) \in Nat /\ DOMAIN Off(q, S) = 1 .. Len(Off(q, S))
    BY <1>1, LenProperties
  <2>2. 1 \notin DOMAIN Off(q, S)
    BY <1>1 DEF Within
  <2> QED  BY <2>1, <2>2
<1> QED  BY <1>1, <1>2, EmptySeq

LEMMA OffNone ==
  ASSUME NEW X, NEW q \in Seq(X), NEW S, Within(q) \cap S = {}
  PROVE  Off(q, S) = q
<1> DEFINE n == Len(q)
<1>1. n \in Nat /\ (\A i \in 1 .. n : q[i] \in X) /\ (\A i \in 1 .. n : q[i] \notin S)
  BY LenProperties, ElementOfSeq DEF Within
<1>2. PICK f : OffTo(f, q, S, n) /\ Off(q, S) = f[n]
  BY <1>1, OffIs
<1> HIDE DEF n
<1> DEFINE T == {i \in Nat : i <= n => /\ f[i] \in Seq(X) /\ Len(f[i]) = i
                                       /\ \A j \in 1 .. i : f[i][j] = q[j]}
<1>3. 0 \in T
  <2>1. f[0] = <<>> /\ <<>> \in Seq(X) /\ Len(<<>>) = 0 /\ 1 .. 0 = {}
    BY <1>2 DEF OffTo
  <2>2. f[0] \in Seq(X) /\ Len(f[0]) = 0 /\ \A j \in 1 .. 0 : f[0][j] = q[j]
    BY <2>1
  <2> QED  BY <2>2
<1>4. ASSUME NEW i \in Nat, i \in T PROVE i + 1 \in T
  <2> SUFFICES ASSUME i + 1 <= n
               PROVE  /\ f[i + 1] \in Seq(X) /\ Len(f[i + 1]) = i + 1
                      /\ \A j \in 1 .. i + 1 : f[i + 1][j] = q[j]
    OBVIOUS
  <2>1. /\ i + 1 \in 1 .. n /\ (i + 1) - 1 = i /\ f[i] \in Seq(X) /\ Len(f[i]) = i
        /\ \A j \in 1 .. i : f[i][j] = q[j]
    BY <1>1, <1>4
  <2>2. f[i + 1] = Append(f[i], q[i + 1]) /\ q[i + 1] \in X
    BY <1>1, <1>2, <2>1 DEF OffTo
  <2>3. /\ f[i + 1] \in Seq(X) /\ Len(f[i + 1]) = i + 1 /\ f[i + 1][i + 1] = q[i + 1]
        /\ \A j \in 1 .. i : f[i + 1][j] = f[i][j]
    BY <2>1, <2>2, AppendFacts
  <2> QED  BY <2>1, <2>3
<1> HIDE DEF T
<1>5. \A i \in Nat : i \in T
  BY <1>3, <1>4, SetInduction
<1>6. n \in T
  BY <1>1, <1>5
<1>7. f[n] \in Seq(X) /\ Len(f[n]) = Len(q) /\ \A j \in 1 .. Len(q) : f[n][j] = q[j]
  BY <1>1, <1>6 DEF T, n
<1> QED  BY <1>2, <1>7, SameSeq

----------------------------------------------------------------------------
(* Queues.                                                                 *)

LEMMA OnceAppend ==
  ASSUME NEW X, NEW q \in Seq(X), NEW x \in X
  PROVE  /\ Append(q, x) \in Seq(X) /\ Within(Append(q, x)) = Within(q) \cup {x}
         /\ Once(q) /\ x \notin Within(q) => Once(Append(q, x))
<1> DEFINE p == Append(q, x)
           n == Len(q)
<1>1. /\ p \in Seq(X) /\ DOMAIN p = 1 .. n + 1 /\ n \in Nat /\ DOMAIN q = 1 .. n
      /\ p[n + 1] = x /\ \A i \in 1 .. n : p[i] = q[i]
  BY AppendFacts, LenProperties
<1> HIDE DEF p, n
<1>2. \A i \in 1 .. n + 1 : i \in 1 .. n \/ i = n + 1
  BY <1>1
<1>3. n + 1 \in 1 .. n + 1 /\ \A i \in 1 .. n : i \in 1 .. n + 1
  BY <1>1
<1>4. Within(p) = Within(q) \cup {x}
  <2>1. ASSUME NEW y \in Within(p) PROVE y \in Within(q) \cup {x}
    <3>1. PICK i \in 1 .. n + 1 : p[i] = y
      BY <1>1 DEF Within
    <3> QED  BY <1>1, <1>2, <3>1 DEF Within
  <2>2. ASSUME NEW y \in Within(q) PROVE y \in Within(p)
    <3>1. PICK i \in 1 .. n : q[i] = y
      BY <1>1 DEF Within
    <3> QED  BY <1>1, <1>3, <3>1 DEF Within
  <2>3. x \in Within(p)
    BY <1>1, <1>3 DEF Within
  <2> QED  BY <2>1, <2>2, <2>3
<1>5. ASSUME Once(q), x \notin Within(q), NEW i \in 1 .. n + 1, NEW j \in 1 .. n + 1, p[i] = p[j]
      PROVE  i = j
  <2>1. \A k \in 1 .. n : p[k] # x
    BY <1>1, <1>5 DEF Within
  <2>2. \A k, l \in 1 .. n : q[k] = q[l] => k = l
    BY <1>1, <1>5 DEF Once
  <2> QED  BY <1>1, <1>2, <1>5, <2>1, <2>2
<1> QED  BY <1>1, <1>4, <1>5 DEF p, Once

LEMMA OnceTail ==
  ASSUME NEW X, NEW q \in Seq(X), q # <<>>, Once(q)
  PROVE  /\ Tail(q) \in Seq(X) /\ Head(q) \in Within(q) /\ Head(q) \in X
         /\ Once(Tail(q)) /\ Within(Tail(q)) = Within(q) \ {Head(q)}
<1> DEFINE p == Tail(q)
           n == Len(q)
           h == Head(q)
<1>1. /\ p \in Seq(X) /\ n \in Nat \ {0} /\ DOMAIN p = 1 .. n - 1 /\ DOMAIN q = 1 .. n
      /\ h = q[1] /\ h \in X /\ \A i \in 1 .. n - 1 : p[i] = q[i + 1]
  BY TailFacts, LenProperties
<1> HIDE DEF p, n, h
<1>2. \A i \in 1 .. n - 1 : i + 1 \in 1 .. n /\ i + 1 # 1
  BY <1>1
<1>3. 1 \in 1 .. n /\ \A i \in 1 .. n : i # 1 => i - 1 \in 1 .. n - 1 /\ (i - 1) + 1 = i
  BY <1>1
<1>4. \A k, l \in 1 .. n : q[k] = q[l] => k = l
  BY <1>1 DEF Once
<1>5. \A i, j \in 1 .. n - 1 : p[i] = p[j] => i = j
  <2>1. \A i, j \in 1 .. n - 1 : i + 1 = j + 1 => i = j
    BY <1>1
  <2> QED  BY <1>1, <1>2, <1>4, <2>1
<1>6. ASSUME NEW y \in Within(p) PROVE y \in Within(q) \ {h}
  <2>1. PICK i \in 1 .. n - 1 : p[i] = y
    BY <1>1 DEF Within
  <2> QED  BY <1>1, <1>2, <1>3, <1>4, <2>1 DEF Within
<1>7. ASSUME NEW y \in Within(q) \ {h} PROVE y \in Within(p)
  <2>1. PICK i \in 1 .. n : q[i] = y /\ i # 1
    BY <1>1 DEF Within
  <2>2. p[i - 1] = y /\ i - 1 \in 1 .. n - 1
    BY <1>1, <1>3, <2>1
  <2> QED  BY <1>1, <2>2 DEF Within
<1>8. h \in Within(q)
  BY <1>1, <1>3 DEF Within
<1>9. Within(p) = Within(q) \ {h} /\ Once(p)
  BY <1>1, <1>5, <1>6, <1>7 DEF Once
<1> QED  BY <1>1, <1>8, <1>9 DEF p, h

LEMMA OnceConcat ==
  ASSUME NEW X, NEW p \in Seq(X), NEW q \in Seq(X)
  PROVE  /\ p \o q \in Seq(X) /\ Within(p \o q) = Within(p) \cup Within(q)
         /\ Once(p) /\ Once(q) /\ Within(p) \cap Within(q) = {} => Once(p \o q)
<1> DEFINE t == p \o q
           m == Len(p)
           n == Len(q)
<1>1. /\ t \in Seq(X) /\ m \in Nat /\ n \in Nat /\ DOMAIN t = 1 .. m + n
      /\ DOMAIN p = 1 .. m /\ DOMAIN q = 1 .. n
      /\ (\A i \in 1 .. m : t[i] = p[i]) /\ \A i \in 1 .. n : t[m + i] = q[i]
  BY ConcatFacts, LenProperties
<1> HIDE DEF t, m, n
<1>2. (\A i \in 1 .. m : i \in 1 .. m + n) /\ \A i \in 1 .. n : m + i \in 1 .. m + n
  BY <1>1
<1>3. ASSUME NEW i \in 1 .. m + n
      PROVE  \/ i \in 1 .. m /\ t[i] = p[i]
             \/ \E k \in 1 .. n : i = m + k /\ t[i] = q[k]
  <2>1. CASE i <= m
    BY <1>1, <2>1
  <2>2. CASE ~(i <= m)
    <3>1. i - m \in 1 .. n /\ i = m + (i - m)
      BY <1>1, <2>2
    <3>2. t[m + (i - m)] = q[i - m]
      BY <1>1, <3>1
    <3> QED  BY <3>1, <3>2
  <2> QED  BY <2>1, <2>2
<1>4. ASSUME NEW x \in Within(t) PROVE x \in Within(p) \cup Within(q)
  <2>1. PICK i \in 1 .. m + n : t[i] = x
    BY <1>1 DEF Within
  <2> QED  BY <1>1, <1>3, <2>1 DEF Within
<1>5. ASSUME NEW x \in Within(p) PROVE x \in Within(t)
  <2>1. PICK i \in 1 .. m : p[i] = x
    BY <1>1 DEF Within
  <2> QED  BY <1>1, <1>2, <2>1 DEF Within
<1>6. ASSUME NEW x \in Within(q) PROVE x \in Within(t)
  <2>1. PICK i \in 1 .. n : q[i] = x
    BY <1>1 DEF Within
  <2>2. t[m + i] = x /\ m + i \in DOMAIN t
    BY <1>1, <1>2, <2>1
  <2> QED  BY <2>2 DEF Within
<1>7. ASSUME Once(p), Once(q), Within(p) \cap Within(q) = {},
             NEW i \in 1 .. m + n, NEW j \in 1 .. m + n, t[i] = t[j]
      PROVE  i = j
  <2>1. \A k \in 1 .. m, l \in 1 .. n : p[k] # q[l]
    BY <1>1, <1>7 DEF Within
  <2>2. /\ \A k, l \in 1 .. m : p[k] = p[l] => k = l
        /\ \A k, l \in 1 .. n : q[k] = q[l] => k = l
    BY <1>1, <1>7 DEF Once
  <2>3. CASE i \in 1 .. m /\ t[i] = p[i]
    <3>1. CASE j \in 1 .. m /\ t[j] = p[j]
      BY <1>7, <2>2, <2>3, <3>1
    <3>2. CASE \E k \in 1 .. n : j = m + k /\ t[j] = q[k]
      BY <1>7, <2>1, <2>3, <3>2
    <3> QED  BY <1>3, <3>1, <3>2
  <2>4. CASE \E k \in 1 .. n : i = m + k /\ t[i] = q[k]
    <3>1. CASE j \in 1 .. m /\ t[j] = p[j]
      BY <1>7, <2>1, <2>4, <3>1
    <3>2. CASE \E k \in 1 .. n : j = m + k /\ t[j] = q[k]
      BY <1>7, <2>2, <2>4, <3>2
    <3> QED  BY <1>3, <3>1, <3>2
  <2> QED  BY <1>3, <2>3, <2>4
<1>8. Within(t) = Within(p) \cup Within(q)
  BY <1>4, <1>5, <1>6
<1> QED  BY <1>1, <1>7, <1>8 DEF t, Once

LEMMA OnceFront ==
  ASSUME NEW x, NEW X, x \in X, NEW q \in Seq(X)
  PROVE  /\ <<x>> \o q \in Seq(X) /\ Within(<<x>> \o q) = Within(q) \cup {x}
         /\ Once(q) /\ x \notin Within(q) => Once(<<x>> \o q)
<1> DEFINE p == <<x>>
<1>1. p \in Seq(X) /\ DOMAIN p = 1 .. 1 /\ p[1] = x /\ 1 \in 1 .. 1 /\ \A i \in 1 .. 1 : i = 1
  OBVIOUS
<1> HIDE DEF p
<1>2. Within(p) = {x} /\ Once(p)
  BY <1>1 DEF Within, Once
<1>3. /\ p \o q \in Seq(X) /\ Within(p \o q) = Within(p) \cup Within(q)
      /\ Once(p) /\ Once(q) /\ Within(p) \cap Within(q) = {} => Once(p \o q)
  BY <1>1, OnceConcat
<1> QED  BY <1>2, <1>3 DEF p

\* Cut after k.
LEMMA OnceSplit ==
  ASSUME NEW X, NEW q \in Seq(X), Once(q), NEW k \in 0 .. Len(q)
  PROVE  LET a == SubSeq(q, 1, k)
             b == SubSeq(q, k + 1, Len(q))
         IN  /\ a \in Seq(X) /\ b \in Seq(X) /\ Once(a) /\ Once(b)
             /\ Within(a) \cup Within(b) = Within(q) /\ Within(a) \cap Within(b) = {}
<1> DEFINE a == SubSeq(q, 1, k)
           b == SubSeq(q, k + 1, Len(q))
           n == Len(q)
<1>1. n \in Nat /\ n \in k .. n /\ k \in Nat /\ DOMAIN q = 1 .. n
  BY LenProperties
<1>2. a \in Seq(X) /\ DOMAIN a = 1 .. k /\ \A i \in 1 .. k : a[i] = q[i]
  BY StartFacts, LenProperties
<1>3. b \in Seq(X) /\ DOMAIN b = 1 .. n - k /\ \A i \in 1 .. n - k : b[i] = q[k + i]
  BY <1>1, SubFacts, LenProperties
<1> HIDE DEF a, b, n
<1>4. \A i, j \in 1 .. n : q[i] = q[j] => i = j
  BY <1>1 DEF Once
<1>5. /\ \A i \in 1 .. k : i \in 1 .. n
      /\ \A i \in 1 .. n - k : k + i \in 1 .. n /\ k + i \notin 1 .. k
      /\ \A i, j \in 1 .. n - k : k + i = k + j => i = j
      /\ k <= n
  BY <1>1
<1>6. Once(a)
  BY <1>2, <1>4, <1>5 DEF Once
<1>7. Once(b)
  BY <1>3, <1>4, <1>5 DEF Once
<1>8. ASSUME NEW x \in Within(q) PROVE x \in Within(a) \cup Within(b)
  <2>1. PICK i \in 1 .. n : q[i] = x
    BY <1>1 DEF Within
  <2>2. CASE i <= k
    <3>1. i \in 1 .. k
      BY <1>1, <2>2
    <3> QED  BY <1>2, <2>1, <3>1 DEF Within
  <2>3. CASE ~(i <= k)
    <3>1. i - k \in 1 .. n - k /\ k + (i - k) = i
      BY <1>1, <2>3
    <3>2. b[i - k] = x
      BY <1>3, <2>1, <3>1
    <3> QED  BY <1>3, <3>1, <3>2 DEF Within
  <2> QED  BY <2>2, <2>3
<1>9. ASSUME NEW x \in Within(a) PROVE \E i \in 1 .. k : q[i] = x
  BY <1>2 DEF Within
<1>10. ASSUME NEW x \in Within(b) PROVE \E i \in 1 .. n - k : q[k + i] = x
  BY <1>3 DEF Within
<1>11. Within(a) \cup Within(b) \subseteq Within(q)
  <2>1. \A i \in 1 .. n : q[i] \in Within(q)
    BY <1>1 DEF Within
  <2> QED  BY <1>5, <1>9, <1>10, <2>1
<1>12. Within(a) \cap Within(b) = {}
  <2> SUFFICES ASSUME NEW x, x \in Within(a), x \in Within(b) PROVE FALSE
    OBVIOUS
  <2>1. PICK i \in 1 .. k : q[i] = x
    BY <1>9
  <2>2. PICK j \in 1 .. n - k : q[k + j] = x
    BY <1>10
  <2> QED  BY <1>4, <1>5, <2>1, <2>2
<1> QED  BY <1>2, <1>3, <1>6, <1>7, <1>8, <1>11, <1>12 DEF a, b, n

LEMMA PlacesIs ==
  ASSUME NEW q, Once(q), NEW r
  PROVE  Places(q, r) = IF r \in Within(q) THEN 1 ELSE 0
<1>1. CASE r \in Within(q)
  <2>1. PICK i \in DOMAIN q : q[i] = r
    BY <1>1 DEF Within
  <2>2. {j \in DOMAIN q : q[j] = r} = {i}
    BY <2>1 DEF Once
  <2>3. Cardinality({i}) = 1
    BY FS_Singleton
  <2> QED  BY <1>1, <2>2, <2>3 DEF Places
<1>2. CASE r \notin Within(q)
  <2>1. {j \in DOMAIN q : q[j] = r} = {}
    BY <1>2 DEF Within
  <2> QED  BY <1>2, <2>1, FS_EmptySet DEF Places
<1> QED  BY <1>1, <1>2

\* A queue is as long as it has members.
LEMMA LengthIs ==
  ASSUME NEW X, NEW q \in Seq(X), Once(q)
  PROVE  IsFiniteSet(Within(q)) /\ Cardinality(Within(q)) = Len(q)
<1> DEFINE n == Len(q)
           W == Within(q)
<1>1. n \in Nat /\ DOMAIN q = 1 .. n
  BY LenProperties
<1>2. q \in Bijection(1 .. n, W)
  <2>1. q = [i \in 1 .. n |-> q[i]]
    BY <1>1, LenProperties
  <2>2. q \in [1 .. n -> W]
    <3>1. \A i \in 1 .. n : q[i] \in W
      BY <1>1 DEF Within
    <3> HIDE DEF W, n
    <3> QED  BY <2>1, <3>1
  <2>3. \A i, j \in 1 .. n : q[i] = q[j] => i = j
    BY <1>1 DEF Once
  <2>4. \A x \in W : \E i \in 1 .. n : q[i] = x
    BY <1>1 DEF Within
  <2> HIDE DEF W, n
  <2> QED  BY <2>2, <2>3, <2>4, Zenon DEF Bijection, Injection, Surjection, IsInjective
<1>3. ExistsBijection(1 .. n, W)
  BY <1>2 DEF ExistsBijection
<1> HIDE DEF n, W
<1>4. IsFiniteSet(W)
  BY <1>1, <1>3, FS_NatBijection
<1>5. Cardinality(W) = n
  BY <1>1, <1>3, <1>4, FS_CountingElements
<1> QED  BY <1>4, <1>5 DEF n, W

----------------------------------------------------------------------------
(* Rows in flight.                                                         *)

LEMMA RowFields ==
  ASSUME NEW q \in Seq(RowType), NEW i \in DOMAIN q
  PROVE  /\ q[i] \in RowType /\ q[i].r \in Reqs /\ q[i].n \in Nat /\ q[i].drafts \in Nat
         /\ q[i].samples \in BOOLEAN
<1>1. q[i] \in RowType
  BY ElementOfSeq, LenProperties
<1> QED  BY <1>1 DEF RowType

\* The weight of a row; it plans no more than it computes.
LEMMA WeightIs ==
  ASSUME NEW row \in RowType, row.drafts < row.n
  PROVE  /\ Weight(row, "computed") = row.n /\ row.n \in Nat /\ row.n > 0 /\ row.drafts \in Nat
         /\ row.samples \in BOOLEAN
         /\ row.samples => Weight(row, "planned") = 1 + row.drafts
         /\ ~row.samples => Weight(row, "planned") = 0
         /\ Weight(row, "planned") <= Weight(row, "computed")
         /\ \A plan \in Counts : Weight(row, plan) \in Nat
<1>1. row.n \in Nat /\ row.drafts \in Nat /\ row.samples \in BOOLEAN
  BY DEF RowType
<1> QED  BY <1>1 DEF Weight

LEMMA TokensIs ==
  ASSUME NEW q \in Seq(RowType), Rows(q), NEW r
  PROVE  /\ \A plan \in Counts : Tokens(q, r, plan) \in Nat
         /\ \A plan : \A i \in DOMAIN q : q[i].r = r => Tokens(q, r, plan) = Weight(q[i], plan)
         /\ \A plan : ~In(q, r) => Tokens(q, r, plan) = 0
         /\ In(q, r) => Tokens(q, r, "computed") > 0
         /\ Ends(q, r) => Tokens(q, r, "planned") > 0
         /\ Tokens(q, r, "planned") <= Tokens(q, r, "computed")
         /\ Decodes(q, r) => Tokens(q, r, "planned") = Tokens(q, r, "computed")
<1>1. \A i, j \in DOMAIN q : q[i].r = q[j].r => i = j
  BY DEF Rows
<1>2. CASE In(q, r)
  <2> DEFINE k == CHOOSE i \in DOMAIN q : q[i].r = r
  <2>1. k \in DOMAIN q /\ q[k].r = r
    BY <1>2 DEF In
  <2>2. \A plan : Tokens(q, r, plan) = Weight(q[k], plan)
    BY <1>2 DEF Tokens
  <2> HIDE DEF k
  <2>3. q[k] \in RowType /\ q[k].drafts < q[k].n
    BY <2>1, RowFields DEF Rows
  <2> DEFINE h == q[k]
  <2>4. /\ Weight(h, "computed") = h.n /\ h.n \in Nat /\ h.n > 0 /\ h.drafts \in Nat
        /\ h.samples \in BOOLEAN
        /\ h.samples => Weight(h, "planned") = 1 + h.drafts
        /\ ~h.samples => Weight(h, "planned") = 0
        /\ Weight(h, "planned") <= Weight(h, "computed")
    BY <2>3, WeightIs
  <2>14. \A plan \in Counts : Weight(h, plan) \in Nat
    BY <2>3, WeightIs
  <2>5. \A i \in DOMAIN q : q[i].r = r => i = k
    BY <1>1, <2>1
  <2>6. Ends(q, r) => h.samples
    BY <2>5 DEF Ends
  <2>7. Decodes(q, r) => h.samples /\ h.n = 1 + h.drafts
    BY <2>1 DEF Decodes
  <2>8. \A plan : \A i \in DOMAIN q : q[i].r = r => Tokens(q, r, plan) = Weight(q[i], plan)
    BY <2>2, <2>5
  <2>9. \A plan : Tokens(q, r, plan) = Weight(h, plan)
    BY <2>2
  <2> HIDE DEF h
  <2>10. Tokens(q, r, "planned") = Weight(h, "planned") /\ Tokens(q, r, "computed") = Weight(h, "computed")
    BY <2>9
  <2>13. \A plan \in Counts : Tokens(q, r, plan) \in Nat
    BY <2>9, <2>14
  <2>11. Ends(q, r) => Tokens(q, r, "planned") > 0
    BY <2>4, <2>6, <2>10
  <2>12. Decodes(q, r) => Tokens(q, r, "planned") = Tokens(q, r, "computed")
    BY <2>4, <2>7, <2>10
  <2>15. Tokens(q, r, "computed") > 0 /\ Tokens(q, r, "planned") <= Tokens(q, r, "computed")
    BY <2>4, <2>10
  <2> QED  BY <1>2, <2>8, <2>11, <2>12, <2>13, <2>15
<1>3. CASE ~In(q, r)
  <2>1. \A plan : Tokens(q, r, plan) = 0
    BY <1>3 DEF Tokens
  <2>2. ~Ends(q, r) /\ \A i \in DOMAIN q : q[i].r # r
    BY <1>3 DEF Ends, In
  <2>3. /\ \A plan \in Counts : Tokens(q, r, plan) \in Nat
        /\ Tokens(q, r, "planned") <= Tokens(q, r, "computed") /\ Tokens(q, r, "planned") = Tokens(q, r, "computed")
    <3>1. Tokens(q, r, "planned") = 0 /\ Tokens(q, r, "computed") = 0
      BY <2>1
    <3>2. \A plan \in Counts : Tokens(q, r, plan) \in Nat
      BY <2>1
    <3> QED  BY <3>1, <3>2
  <2> QED  BY <1>3, <2>1, <2>2, <2>3
<1> QED  BY <1>2, <1>3

LEMMA TodoTail ==
  ASSUME NEW q \in Seq(RowType), q # <<>>, Rows(q), NEW r
  PROVE  /\ Tail(q) \in Seq(RowType) /\ Rows(Tail(q)) /\ Head(q) \in RowType
         /\ Head(q) \in Within(q) /\ Within(Tail(q)) \subseteq Within(q)
         /\ Head(q).drafts < Head(q).n /\ (Head(q).samples \/ Head(q).drafts = 0)
         /\ Head(q).r = r => /\ ~In(Tail(q), r) /\ In(q, r) /\ Ends(q, r) = Head(q).samples
                             /\ \A plan : Tokens(q, r, plan) = Weight(Head(q), plan)
         /\ Head(q).r # r => /\ \A plan : Tokens(Tail(q), r, plan) = Tokens(q, r, plan)
                             /\ Ends(Tail(q), r) = Ends(q, r)
<1> DEFINE p == Tail(q)
           n == Len(q)
           h == Head(q)
<1>1. /\ p \in Seq(RowType) /\ n \in Nat \ {0} /\ DOMAIN p = 1 .. n - 1 /\ DOMAIN q = 1 .. n
      /\ h = q[1] /\ h \in RowType /\ \A i \in 1 .. n - 1 : p[i] = q[i + 1]
  BY TailFacts, LenProperties
<1> HIDE DEF p, n, h
<1>2. \A i \in 1 .. n - 1 : i + 1 \in 1 .. n /\ i + 1 # 1
  BY <1>1
<1>3. 1 \in 1 .. n /\ \A i \in 1 .. n : i # 1 => i - 1 \in 1 .. n - 1 /\ (i - 1) + 1 = i
  BY <1>1
<1>4. /\ \A i, j \in 1 .. n : q[i].r = q[j].r => i = j
      /\ \A i \in 1 .. n : q[i].drafts < q[i].n /\ (q[i].samples \/ q[i].drafts = 0)
  BY <1>1 DEF Rows
<1>5. \A i \in 1 .. n - 1 : p[i] = q[i + 1]
  BY <1>1
<1>6. \A i \in 1 .. n : i # 1 => \E j \in 1 .. n - 1 : p[j] = q[i]
  <2> SUFFICES ASSUME NEW i \in 1 .. n, i # 1 PROVE p[i - 1] = q[i] /\ i - 1 \in 1 .. n - 1
    OBVIOUS
  <2> QED  BY <1>3, <1>5
<1>7. Rows(p)
  <2>1. \A i, j \in 1 .. n - 1 : i + 1 = j + 1 => i = j
    BY <1>1
  <2>2. \A i, j \in DOMAIN p : p[i].r = p[j].r => i = j
    BY <1>1, <1>2, <1>4, <1>5, <2>1
  <2>3. \A i \in DOMAIN p : p[i].drafts < p[i].n /\ (p[i].samples \/ p[i].drafts = 0)
    BY <1>1, <1>2, <1>4, <1>5
  <2> QED  BY <2>2, <2>3 DEF Rows
<1>8. h \in Within(q)
  BY <1>1, <1>3 DEF Within
<1>9. ASSUME NEW x \in Within(p) PROVE x \in Within(q)
  <2>1. PICK i \in 1 .. n - 1 : p[i] = x
    BY <1>1 DEF Within
  <2> QED  BY <1>1, <1>2, <2>1 DEF Within
<1>10. h.drafts < h.n /\ (h.samples \/ h.drafts = 0)
  BY <1>1, <1>3, <1>4
<1>11. ASSUME h.r = r
       PROVE  /\ ~In(p, r) /\ In(q, r) /\ Ends(q, r) = h.samples
              /\ \A plan : Tokens(q, r, plan) = Weight(h, plan)
  <2>1. \A i \in 1 .. n : q[i].r = r => i = 1
    BY <1>1, <1>3, <1>4, <1>11
  <2>2. ~In(p, r)
    BY <1>1, <1>2, <1>5, <2>1 DEF In
  <2>3. In(q, r)
    BY <1>1, <1>3, <1>11 DEF In
  <2>4. \A plan : Tokens(q, r, plan) = Weight(h, plan)
    <3>1. \A plan : \A i \in DOMAIN q : q[i].r = r => Tokens(q, r, plan) = Weight(q[i], plan)
      BY TokensIs
    <3>2. 1 \in DOMAIN q /\ q[1].r = r /\ h = q[1]
      BY <1>1, <1>3, <1>11
    <3> QED  BY <3>1, <3>2
  <2>5. Ends(q, r) <=> h.samples
    BY <1>1, <1>3, <1>11, <2>1 DEF Ends
  <2>6. h.samples \in BOOLEAN
    BY <1>1 DEF RowType
  <2> QED  BY <2>2, <2>3, <2>4, <2>5, <2>6 DEF Ends
<1>12. ASSUME h.r # r
       PROVE  (\A plan : Tokens(p, r, plan) = Tokens(q, r, plan)) /\ Ends(p, r) = Ends(q, r)
  <2>1. \A i \in 1 .. n : q[i].r = r => i # 1
    BY <1>1, <1>12
  <2>2. \A i \in 1 .. n : q[i].r = r => \E j \in 1 .. n - 1 : p[j] = q[i]
    BY <1>6, <2>1
  <2>3. \A j \in 1 .. n - 1 : \E i \in 1 .. n : q[i] = p[j]
    BY <1>2, <1>5
  <2>4. In(p, r) <=> In(q, r)
    BY <1>1, <2>2, <2>3 DEF In
  <2>5. Ends(p, r) <=> Ends(q, r)
    <3>1. ASSUME NEW i \in 1 .. n, q[i].r = r, q[i].samples
          PROVE  \E j \in 1 .. n - 1 : p[j].r = r /\ p[j].samples
      BY <2>2, <3>1
    <3>2. ASSUME NEW j \in 1 .. n - 1, p[j].r = r, p[j].samples
          PROVE  \E i \in 1 .. n : q[i].r = r /\ q[i].samples
      BY <2>3, <3>2
    <3> QED  BY <1>1, <3>1, <3>2 DEF Ends
  <2>6. \A plan : Tokens(p, r, plan) = Tokens(q, r, plan)
    <3>1. CASE In(q, r)
      <4>1. PICK i \in 1 .. n : q[i].r = r
        BY <1>1, <3>1 DEF In
      <4>2. PICK j \in 1 .. n - 1 : p[j] = q[i]
        BY <2>2, <4>1
      <4>3. \A plan : Tokens(q, r, plan) = Weight(q[i], plan)
        <5>1. \A plan : \A k \in DOMAIN q : q[k].r = r => Tokens(q, r, plan) = Weight(q[k], plan)
          BY TokensIs
        <5>2. i \in DOMAIN q
          BY <1>1
        <5> QED  BY <4>1, <5>1, <5>2
      <4>4. \A plan : Tokens(p, r, plan) = Weight(p[j], plan)
        <5>1. \A plan : \A k \in DOMAIN p : p[k].r = r => Tokens(p, r, plan) = Weight(p[k], plan)
          BY <1>1, <1>7, TokensIs
        <5>2. j \in DOMAIN p /\ p[j].r = r
          BY <1>1, <4>1, <4>2
        <5> QED  BY <5>1, <5>2
      <4> QED  BY <4>2, <4>3, <4>4
    <3>2. CASE ~In(q, r)
      BY <2>4, <3>2 DEF Tokens
    <3> QED  BY <3>1, <3>2
  <2> QED  BY <2>5, <2>6 DEF Ends
<1> QED  BY <1>1, <1>7, <1>8, <1>9, <1>10, <1>11, <1>12 DEF p, h

\* Rows of what is in flight.
FlightType(t, b) ==
  /\ t \in Seq(RowType) /\ b \in Seq(Seq(RowType)) /\ Rows(t)
  /\ \A i \in DOMAIN b : Rows(b[i])

LEMMA LoadIs ==
  ASSUME NEW t, NEW b, FlightType(t, b), NEW r, NEW plan \in Counts
  PROVE  /\ Len(b) \in Nat /\ DOMAIN b = 1 .. Len(b)
         /\ \A i \in 1 .. Len(b) : /\ b[i] \in Seq(RowType) /\ Rows(b[i])
                                   /\ Load(b, r, plan)[i] = Tokens(b[i], r, plan)
                                   /\ Load(b, r, plan)[i] \in Nat
         /\ Total(Load(b, r, plan), Len(b)) \in Nat /\ InFlight(t, b, r, plan) \in Nat
         /\ Tokens(t, r, plan) \in Nat
<1>1. /\ Len(b) \in Nat /\ DOMAIN b = 1 .. Len(b)
      /\ \A i \in 1 .. Len(b) : b[i] \in Seq(RowType) /\ Rows(b[i])
  BY LenProperties, ElementOfSeq DEF FlightType
<1>2. ASSUME NEW i \in 1 .. Len(b)
      PROVE  Load(b, r, plan)[i] = Tokens(b[i], r, plan) /\ Load(b, r, plan)[i] \in Nat
  <2>1. Load(b, r, plan)[i] = Tokens(b[i], r, plan)
    BY <1>1 DEF Load
  <2> QED  BY <1>1, <2>1, TokensIs
<1>3. Total(Load(b, r, plan), Len(b)) \in Nat
  BY <1>1, <1>2, TotalOfNaturals
<1>4. Tokens(t, r, plan) \in Nat
  BY TokensIs DEF FlightType
<1> QED  BY <1>1, <1>2, <1>3, <1>4 DEF InFlight

\* No more output is planned than tokens are in flight, and some is when a row is sampled.
LEMMA FlightBounds ==
  ASSUME NEW t, NEW b, FlightType(t, b), NEW r
  PROVE  /\ InFlight(t, b, r, "planned") <= InFlight(t, b, r, "computed")
         /\ InFlight(t, b, r, "planned") = 0 => ~Ends(t, r) /\ \A k \in DOMAIN b : ~Ends(b[k], r)
         /\ ~In(t, r) /\ (\A k \in DOMAIN b : Decodes(b[k], r)) =>
              InFlight(t, b, r, "planned") = InFlight(t, b, r, "computed")
<1> DEFINE n == Len(b)
           v == Load(b, r, "planned")
           w == Load(b, r, "computed")
<1>1. /\ n \in Nat /\ DOMAIN b = 1 .. n
      /\ \A i \in 1 .. n : /\ b[i] \in Seq(RowType) /\ Rows(b[i])
                           /\ v[i] = Tokens(b[i], r, "planned") /\ v[i] \in Nat
      /\ Total(v, n) \in Nat /\ Tokens(t, r, "planned") \in Nat
  BY LoadIs DEF Counts
<1>2. /\ \A i \in 1 .. n : w[i] = Tokens(b[i], r, "computed") /\ w[i] \in Nat
      /\ Total(w, n) \in Nat /\ Tokens(t, r, "computed") \in Nat
  BY LoadIs DEF Counts
<1>3. /\ InFlight(t, b, r, "planned") = Tokens(t, r, "planned") + Total(v, n)
      /\ InFlight(t, b, r, "computed") = Tokens(t, r, "computed") + Total(w, n)
  BY DEF InFlight
<1> HIDE DEF n, v, w
<1>4. /\ Tokens(t, r, "planned") <= Tokens(t, r, "computed")
      /\ Ends(t, r) => Tokens(t, r, "planned") > 0
      /\ ~In(t, r) => Tokens(t, r, "planned") = 0 /\ Tokens(t, r, "computed") = 0
  BY TokensIs DEF FlightType
<1>5. \A i \in 1 .. n : /\ v[i] <= w[i] /\ (Ends(b[i], r) => v[i] > 0)
                        /\ Decodes(b[i], r) => v[i] = w[i]
  <2> SUFFICES ASSUME NEW i \in 1 .. n
               PROVE  /\ v[i] <= w[i] /\ (Ends(b[i], r) => v[i] > 0)
                      /\ Decodes(b[i], r) => v[i] = w[i]
    OBVIOUS
  <2> DEFINE h == b[i]
  <2>1. h \in Seq(RowType) /\ Rows(h)
    BY <1>1
  <2>2. v[i] = Tokens(h, r, "planned") /\ w[i] = Tokens(h, r, "computed")
    BY <1>1, <1>2
  <2> HIDE DEF h
  <2>3. /\ Ends(h, r) => Tokens(h, r, "planned") > 0
        /\ Tokens(h, r, "planned") <= Tokens(h, r, "computed")
        /\ Decodes(h, r) => Tokens(h, r, "planned") = Tokens(h, r, "computed")
    BY <2>1, TokensIs
  <2> QED  BY <2>2, <2>3 DEF h
<1>a. /\ n \in Nat /\ Total(v, n) \in Nat /\ Total(w, n) \in Nat
      /\ Tokens(t, r, "planned") \in Nat /\ Tokens(t, r, "computed") \in Nat
  BY <1>1, <1>2
<1>b. \A i \in 1 .. n : v[i] \in Nat /\ w[i] \in Nat
  BY <1>1, <1>2
<1>c. DOMAIN b = 1 .. n
  BY <1>1
<1>6. Total(v, n) <= Total(w, n)
  <2>1. \A i \in 1 .. n : v[i] \in Int /\ w[i] \in Int /\ v[i] <= w[i]
    BY <1>b, <1>5
  <2> QED  BY <1>a, <2>1, TotalBelow
<1>d. Tokens(t, r, "planned") <= Tokens(t, r, "computed")
  BY <1>4
<1>7. InFlight(t, b, r, "planned") <= InFlight(t, b, r, "computed")
  BY <1>a, <1>3, <1>d, <1>6
<1>8. ASSUME InFlight(t, b, r, "planned") = 0
      PROVE  ~Ends(t, r) /\ \A k \in DOMAIN b : ~Ends(b[k], r)
  <2>0. Tokens(t, r, "planned") + Total(v, n) = 0
    BY <1>3, <1>8
  <2>1. Tokens(t, r, "planned") = 0 /\ Total(v, n) = 0
    BY <1>a, <2>0
  <2>2. \A i \in 1 .. n : v[i] <= Total(v, n)
    BY <1>a, <1>b, TotalOfNaturals
  <2>3. \A i \in 1 .. n : ~(v[i] > 0)
    BY <1>b, <2>1, <2>2
  <2>4. ~Ends(t, r)
    BY <1>4, <2>1
  <2> QED  BY <1>c, <1>5, <2>3, <2>4
<1>9. ASSUME ~In(t, r), \A k \in DOMAIN b : Decodes(b[k], r)
      PROVE  InFlight(t, b, r, "planned") = InFlight(t, b, r, "computed")
  <2>1. \A i \in 1 .. n : v[i] = w[i]
    BY <1>c, <1>5, <1>9
  <2>2. Total(v, n) = Total(w, n)
    BY <1>a, <2>1, TotalSame
  <2>3. Tokens(t, r, "planned") = 0 /\ Tokens(t, r, "computed") = 0
    BY <1>4, <1>9
  <2> QED  BY <1>3, <2>2, <2>3
<1> QED  BY <1>7, <1>8, <1>9

\* Nothing counted is nothing there.
LEMMA NoneInFlight ==
  ASSUME NEW t, NEW b, FlightType(t, b), NEW r, InFlight(t, b, r, "computed") = 0
  PROVE  InFlight(t, b, r, "planned") = 0 /\ Ended(t, b, r)
<1>1. InFlight(t, b, r, "planned") \in Nat /\ InFlight(t, b, r, "planned") <= 0
  BY LoadIs, FlightBounds DEF Counts
<1>2. InFlight(t, b, r, "planned") = 0
  BY <1>1
<1>3. ~Ends(t, r) /\ \A k \in DOMAIN b : ~Ends(b[k], r)
  BY <1>2, FlightBounds
<1> QED  BY <1>2, <1>3 DEF Ended

\* The first row of t is answered.
LEMMA FlightTail ==
  ASSUME NEW t, NEW b, FlightType(t, b), t # <<>>, NEW r
  PROVE  LET p == Tail(t)
             h == Head(t)
         IN  /\ Flying(p, b) \subseteq Flying(t, b) /\ h \in Flying(t, b)
             /\ FlightType(p, b) /\ h \in RowType /\ h.drafts < h.n
             /\ (h.samples \/ h.drafts = 0)
             /\ Ended(t, b, r) => Ended(p, b, r)
             /\ h.r # r => \A plan \in Counts : InFlight(p, b, r, plan) = InFlight(t, b, r, plan)
             /\ h.r = r => \A plan \in Counts :
                              InFlight(t, b, r, plan) = Weight(h, plan) + InFlight(p, b, r, plan)
             /\ h.r = r /\ h.samples /\ Ended(t, b, r) =>
                  InFlight(p, b, r, "planned") = InFlight(p, b, r, "computed")
<1> DEFINE p == Tail(t)
           h == Head(t)
           L(plan) == Total(Load(b, r, plan), Len(b))
<1>1. t \in Seq(RowType) /\ Rows(t)
  BY DEF FlightType
<1>2. /\ p \in Seq(RowType) /\ Rows(p) /\ h \in RowType
      /\ h \in Within(t) /\ Within(p) \subseteq Within(t)
      /\ h.drafts < h.n /\ (h.samples \/ h.drafts = 0)
      /\ h.r = r => /\ ~In(p, r) /\ In(t, r) /\ Ends(t, r) = h.samples
                    /\ \A plan : Tokens(t, r, plan) = Weight(h, plan)
      /\ h.r # r => /\ \A plan : Tokens(p, r, plan) = Tokens(t, r, plan)
                    /\ Ends(p, r) = Ends(t, r)
  BY <1>1, TodoTail
<1>3. FlightType(p, b)
  BY <1>2 DEF FlightType
<1> HIDE DEF p, h
<1>4. ASSUME NEW plan \in Counts
      PROVE  /\ L(plan) \in Nat /\ Tokens(t, r, plan) \in Nat /\ Tokens(p, r, plan) \in Nat
             /\ InFlight(t, b, r, plan) = Tokens(t, r, plan) + L(plan)
             /\ InFlight(p, b, r, plan) = Tokens(p, r, plan) + L(plan)
  BY <1>3, LoadIs DEF InFlight
<1> HIDE DEF L
<1>5. ~In(p, r) => ~Ends(p, r) /\ \A plan : Tokens(p, r, plan) = 0
  BY DEF Tokens, In, Ends
<1>6. Ended(t, b, r) => Ended(p, b, r)
  BY <1>2, <1>5 DEF Ended
<1>7. ASSUME h.r # r, NEW plan \in Counts
      PROVE  InFlight(p, b, r, plan) = InFlight(t, b, r, plan)
  BY <1>2, <1>4, <1>7
<1>8. ASSUME h.r = r, NEW plan \in Counts
      PROVE  InFlight(t, b, r, plan) = Weight(h, plan) + InFlight(p, b, r, plan)
  <2>1. Tokens(t, r, plan) = Weight(h, plan) /\ Tokens(p, r, plan) = 0
    BY <1>2, <1>5, <1>8
  <2> QED  BY <1>4, <2>1
<1>9. ASSUME h.r = r, h.samples, Ended(t, b, r)
      PROVE  InFlight(p, b, r, "planned") = InFlight(p, b, r, "computed")
  <2>1. \A k \in DOMAIN b : Decodes(b[k], r)
    BY <1>2, <1>9 DEF Ended
  <2> QED  BY <1>2, <1>3, <1>9, <2>1, FlightBounds
<1>10. Flying(p, b) \subseteq Flying(t, b) /\ h \in Flying(t, b)
  BY <1>2 DEF Flying
<1> QED  BY <1>2, <1>3, <1>6, <1>7, <1>8, <1>9, <1>10 DEF p, h

\* The oldest batch is taken up.
LEMMA FlightBegin ==
  ASSUME NEW b, FlightType(<<>>, b), b # <<>>
  PROVE  LET t == Head(b)
             c == Tail(b)
         IN  /\ FlightType(t, c) /\ Flying(t, c) = Flying(<<>>, b)
             /\ \A r : /\ \A plan \in Counts : InFlight(t, c, r, plan) = InFlight(<<>>, b, r, plan)
                       /\ Ended(<<>>, b, r) => Ended(t, c, r)
<1> DEFINE t == Head(b)
           c == Tail(b)
           n == Len(b)
<1>1. b \in Seq(Seq(RowType)) /\ \A i \in DOMAIN b : Rows(b[i])
  BY DEF FlightType
<1>2. /\ n \in Nat \ {0} /\ t \in Seq(RowType) /\ t = b[1] /\ c \in Seq(Seq(RowType))
      /\ DOMAIN c = 1 .. n - 1 /\ DOMAIN b = 1 .. n /\ \A i \in 1 .. n - 1 : c[i] = b[i + 1]
      /\ Len(c) = n - 1
  BY <1>1, TailFacts, LenProperties
<1> HIDE DEF t, c, n
<1>3. (\A i \in 1 .. n - 1 : i + 1 \in 1 .. n /\ i + 1 > 1) /\ 1 \in 1 .. n
      /\ \A i \in 1 .. n - 1, j \in 1 .. n - 1 : i > j => i + 1 > j + 1
  BY <1>2
<1>4. \A i \in 1 .. n : i = 1 \/ (i - 1 \in 1 .. n - 1 /\ (i - 1) + 1 = i)
  BY <1>2
<1>5. FlightType(t, c)
  BY <1>1, <1>2, <1>3 DEF FlightType
<1>7. ASSUME NEW r, NEW plan \in Counts
      PROVE  InFlight(t, c, r, plan) = InFlight(<<>>, b, r, plan)
  <2> DEFINE v == Load(c, r, plan)
             w == Load(b, r, plan)
  <2>1. /\ \A i \in 1 .. n : w[i] = Tokens(b[i], r, plan) /\ w[i] \in Nat
        /\ Total(w, n) \in Nat
    <3>1. DOMAIN b = 1 .. Len(b)
      BY LoadIs
    <3> QED  BY LoadIs DEF n
  <2>2. /\ \A i \in 1 .. n - 1 : v[i] = Tokens(c[i], r, plan)
        /\ Total(v, n - 1) \in Nat /\ Tokens(t, r, plan) \in Nat
    <3>1. /\ \A i \in 1 .. Len(c) : Load(c, r, plan)[i] = Tokens(c[i], r, plan)
          /\ Total(Load(c, r, plan), Len(c)) \in Nat /\ Tokens(t, r, plan) \in Nat
      BY <1>5, LoadIs
    <3> QED  BY <1>2, <3>1
  <2>7. /\ InFlight(t, c, r, plan) = Tokens(t, r, plan) + Total(v, n - 1)
        /\ InFlight(<<>>, b, r, plan) = Tokens(<<>>, r, plan) + Total(w, n)
    BY <1>2 DEF InFlight, n
  <2> HIDE DEF v, w
  <2>3. \A i \in 1 .. n - 1 : v[i] = w[i + 1]
    BY <1>2, <1>3, <2>1, <2>2
  <2>4. Total(w, (n - 1) + 1) = w[1] + Total(v, n - 1)
    <3>1. n - 1 \in Nat /\ \A i \in 1 .. (n - 1) + 1 : w[i] \in Int
      BY <1>2, <2>1
    <3> QED  BY <2>3, <3>1, TotalShift
  <2>5. (n - 1) + 1 = n /\ w[1] = Tokens(t, r, plan)
    BY <1>2, <1>3, <2>1
  <2>6. Tokens(<<>>, r, plan) = 0
    BY DEF Tokens, In
  <2> QED  BY <2>1, <2>2, <2>4, <2>5, <2>6, <2>7
<1>6. Flying(t, c) = Flying(<<>>, b)
  <2>1. ASSUME NEW x PROVE x \in Flying(t, c) <=> x \in Flying(<<>>, b)
    <3>1. x \in Flying(t, c) <=> x \in Within(t) \/ \E j \in 1 .. n - 1 : x \in Within(c[j])
      BY <1>2 DEF Flying
    <3>2. x \in Flying(<<>>, b) <=> \E j \in 1 .. n : x \in Within(b[j])
      <4>1. Within(<<>>) = {}
        BY DEF Within
      <4> QED  BY <1>2, <4>1 DEF Flying
    <3>3. ASSUME NEW j \in 1 .. n, x \in Within(b[j])
          PROVE  x \in Within(t) \/ \E i \in 1 .. n - 1 : x \in Within(c[i])
      <4>1. CASE j = 1
        BY <1>2, <3>3, <4>1
      <4>2. CASE j # 1
        <5>1. j - 1 \in 1 .. n - 1 /\ c[j - 1] = b[j]
          BY <1>2, <1>4, <4>2
        <5> QED  BY <3>3, <5>1
      <4> QED  BY <4>1, <4>2
    <3> QED  BY <1>2, <1>3, <3>1, <3>2, <3>3
  <2> QED  BY <2>1
<1>9. ASSUME NEW r, Ended(<<>>, b, r) PROVE Ended(t, c, r)
  <2>1. \A j \in 1 .. n : Ends(b[j], r) => \A k \in 1 .. n : k > j => Decodes(b[k], r)
    BY <1>2, <1>9 DEF Ended
  <2>2. Ends(t, r) => \A k \in 1 .. n - 1 : Decodes(c[k], r)
    BY <1>2, <1>3, <2>1
  <2>3. \A j \in 1 .. n - 1 : Ends(c[j], r) => \A k \in 1 .. n - 1 : k > j => Decodes(c[k], r)
    BY <1>2, <1>3, <2>1
  <2> QED  BY <1>2, <2>2, <2>3 DEF Ended
<1> QED  BY <1>5, <1>6, <1>7, <1>9 DEF t, c

\* A batch is dispatched.
LEMMA FlightPush ==
  ASSUME NEW t, NEW b, FlightType(t, b), NEW q \in Seq(RowType), Rows(q), NEW r
  PROVE  LET c == Append(b, q)
         IN  /\ FlightType(t, c) /\ Flying(t, c) = Flying(t, b) \cup Within(q)
             /\ \A plan \in Counts :
                  InFlight(t, c, r, plan) = InFlight(t, b, r, plan) + Tokens(q, r, plan)
             /\ Ended(t, b, r) /\ (InFlight(t, b, r, "planned") = 0 \/ Decodes(q, r)) => Ended(t, c, r)
<1> DEFINE c == Append(b, q)
           n == Len(b)
<1>1. b \in Seq(Seq(RowType)) /\ (\A i \in DOMAIN b : Rows(b[i])) /\ t \in Seq(RowType) /\ Rows(t)
  BY DEF FlightType
<1>2. /\ n \in Nat /\ c \in Seq(Seq(RowType)) /\ Len(c) = n + 1 /\ DOMAIN c = 1 .. n + 1
      /\ DOMAIN b = 1 .. n /\ c[n + 1] = q /\ \A i \in 1 .. n : c[i] = b[i]
  BY <1>1, AppendFacts, LenProperties
<1> HIDE DEF c, n
<1>3. /\ \A i \in 1 .. n + 1 : i \in 1 .. n \/ i = n + 1
      /\ \A i \in 1 .. n : i \in 1 .. n + 1 /\ ~(i > n + 1)
      /\ n + 1 \in 1 .. n + 1 /\ ~(n + 1 > n + 1)
  BY <1>2
<1>4. FlightType(t, c)
  BY <1>1, <1>2, <1>3 DEF FlightType
<1>5. ASSUME NEW plan \in Counts
      PROVE  InFlight(t, c, r, plan) = InFlight(t, b, r, plan) + Tokens(q, r, plan)
  <2> DEFINE v == Load(b, r, plan)
             w == Load(c, r, plan)
  <2>1. /\ \A i \in 1 .. n : v[i] = Tokens(b[i], r, plan)
        /\ Total(v, n) \in Nat /\ Tokens(t, r, plan) \in Nat
    BY LoadIs DEF n
  <2>2. \A i \in 1 .. n + 1 : w[i] = Tokens(c[i], r, plan) /\ w[i] \in Nat
    <3>1. \A i \in 1 .. Len(c) : w[i] = Tokens(c[i], r, plan) /\ w[i] \in Nat
      BY <1>4, LoadIs
    <3> QED  BY <1>2, <3>1
  <2>7. /\ InFlight(t, c, r, plan) = Tokens(t, r, plan) + Total(w, n + 1)
        /\ InFlight(t, b, r, plan) = Tokens(t, r, plan) + Total(v, n)
    BY <1>2 DEF InFlight, n
  <2> HIDE DEF v, w
  <2>3. \A i \in 1 .. n : w[i] = v[i]
    BY <1>2, <1>3, <2>1, <2>2
  <2>4. Total(w, n) = Total(v, n)
    BY <1>2, <2>3, TotalSame
  <2>5. Total(w, n + 1) = Total(w, n) + w[n + 1]
    <3>1. n + 1 \in Nat \ {0} /\ (n + 1) - 1 = n
      BY <1>2
    <3> QED  BY <3>1, TotalSteps
  <2>6. w[n + 1] = Tokens(q, r, plan) /\ Tokens(q, r, plan) \in Nat
    BY <1>2, <1>3, <2>2
  <2> QED  BY <2>1, <2>4, <2>5, <2>6, <2>7
<1>6. ASSUME NEW x PROVE x \in Flying(t, c) <=> x \in Flying(t, b) \/ x \in Within(q)
  <2>1. x \in Flying(t, c) <=> x \in Within(t) \/ \E j \in 1 .. n + 1 : x \in Within(c[j])
    BY <1>2 DEF Flying
  <2>2. x \in Flying(t, b) <=> x \in Within(t) \/ \E j \in 1 .. n : x \in Within(b[j])
    BY <1>2 DEF Flying
  <2> QED  BY <1>2, <1>3, <2>1, <2>2
<1>7. ASSUME Ended(t, b, r), InFlight(t, b, r, "planned") = 0 \/ Decodes(q, r) PROVE Ended(t, c, r)
  <2>1. /\ Ends(t, r) => \A k \in 1 .. n : Decodes(b[k], r)
        /\ \A j \in 1 .. n : Ends(b[j], r) => \A k \in 1 .. n : k > j => Decodes(b[k], r)
    BY <1>2, <1>7 DEF Ended
  <2>2. /\ Ends(t, r) => Decodes(q, r)
        /\ \A j \in 1 .. n : Ends(b[j], r) => Decodes(q, r)
    <3>1. InFlight(t, b, r, "planned") = 0 => ~Ends(t, r) /\ \A k \in DOMAIN b : ~Ends(b[k], r)
      BY FlightBounds
    <3> QED  BY <1>2, <1>7, <3>1
  <2>3. Ends(t, r) => \A k \in 1 .. n + 1 : Decodes(c[k], r)
    BY <1>2, <1>3, <2>1, <2>2
  <2>4. \A j \in 1 .. n + 1 : Ends(c[j], r) => \A k \in 1 .. n + 1 : k > j => Decodes(c[k], r)
    <3> SUFFICES ASSUME NEW j \in 1 .. n + 1, Ends(c[j], r), NEW k \in 1 .. n + 1, k > j
                 PROVE  Decodes(c[k], r)
      OBVIOUS
    <3>1. j \in 1 .. n /\ c[j] = b[j]
      BY <1>2, <1>3
    <3> QED  BY <1>2, <1>3, <2>1, <2>2, <3>1
  <2> QED  BY <1>2, <2>3, <2>4 DEF Ended
<1>8. Flying(t, c) = Flying(t, b) \cup Within(q)
  BY <1>6
<1> QED  BY <1>4, <1>5, <1>7, <1>8 DEF c

\* A request without rows.
LEMMA StrangerInFlight ==
  ASSUME NEW t, NEW b, FlightType(t, b), NEW r, \A row \in Flying(t, b) : row.r # r,
         NEW plan \in Counts
  PROVE  InFlight(t, b, r, plan) = 0
<1>1. /\ Len(b) \in Nat /\ DOMAIN b = 1 .. Len(b)
      /\ \A i \in 1 .. Len(b) : Load(b, r, plan)[i] = Tokens(b[i], r, plan)
  BY LoadIs
<1>2. ~In(t, r)
  BY DEF In, Flying, Within
<1>3. ASSUME NEW j \in DOMAIN b PROVE ~In(b[j], r)
  <2> SUFFICES ASSUME NEW i \in DOMAIN b[j], b[j][i].r = r PROVE FALSE
    BY DEF In
  <2>1. b[j][i] \in Within(b[j])
    BY DEF Within
  <2>2. b[j][i] \in Flying(t, b)
    BY <2>1 DEF Flying
  <2> QED  BY <2>2
<1>4. \A i \in 1 .. Len(b) : Load(b, r, plan)[i] = 0
  BY <1>1, <1>3 DEF Tokens
<1>5. Total(Load(b, r, plan), Len(b)) = 0
  BY <1>1, <1>4, TotalZero
<1> QED  BY <1>2, <1>5 DEF InFlight, Tokens

----------------------------------------------------------------------------
(* The text of a request.                                                  *)

LEMMA DivideBack ==
  ASSUME NEW l \in Nat \ {0}, NEW t \in Nat, NEW k \in 0 .. l - 1
  PROVE  (t * l + k) \div l = t /\ (t * l + k) % l = k
<1>1. (t * l + k) \div l = t
  OBVIOUS
<1>2. (t * l + k) % l = k
  OBVIOUS
<1> QED  BY <1>1, <1>2

LEMMA ChunkFacts ==
  ASSUME NEW c \in Nat
  PROVE  /\ Chunk(c) \in Seq(Token) /\ Len(Chunk(c)) = ChunkLen
         /\ \A i \in 1 .. ChunkLen : Chunk(c)[i] = <<"in", c, i>>
         /\ Off(Chunk(c), Outs) = Chunk(c)
<1> DEFINE p == Chunk(c)
<1>1. ChunkLen \in Nat
  BY SessionAssumption
<1>2. \A i \in 1 .. ChunkLen : <<"in", c, i>> \in Token
  BY <1>1 DEF Token
<1>3. p = [i \in 1 .. ChunkLen |-> <<"in", c, i>>]
  BY DEF Chunk
<1> HIDE DEF p
<1>4. p \in Seq(Token) /\ Len(p) = ChunkLen /\ \A i \in 1 .. ChunkLen : p[i] = <<"in", c, i>>
  BY <1>1, <1>2, <1>3
<1>5. Within(p) \cap Outs = {}
  <2> SUFFICES ASSUME NEW x \in Within(p), x \in Outs PROVE FALSE
    OBVIOUS
  <2>1. PICK i \in DOMAIN p : x = p[i]
    BY DEF Within
  <2>2. x = <<"in", c, i>>
    BY <1>3, <2>1
  <2> QED  BY <2>2 DEF Outs
<1>6. Off(p, Outs) = p
  BY <1>4, <1>5, OffNone
<1> QED  BY <1>4, <1>6 DEF p

LEMMA InputNext ==
  ASSUME NEW t \in Nat
  PROVE  /\ InputOf(t) \in Seq(Token) /\ InputOf(t) \o Chunk(t + 1) = InputOf(t + 1)
         /\ InputOf(1) = Chunk(1)
<1> DEFINE L == ChunkLen
           At(i) == <<"in", 1 + ((i - 1) \div L), 1 + ((i - 1) % L)>>
<1>1. L \in Nat \ {0}
  BY SessionAssumption
<1> HIDE DEF L
<1>2. ASSUME NEW n \in Nat
      PROVE  /\ InputOf(n) \in Seq(Token) /\ Len(InputOf(n)) = n * L
             /\ \A i \in 1 .. n * L : InputOf(n)[i] = At(i)
  <2>1. n * L \in Nat
    BY <1>1
  <2>2. InputOf(n) = [i \in 1 .. n * L |-> At(i)]
    BY DEF InputOf, L
  <2>3. ASSUME NEW i \in 1 .. n * L PROVE At(i) \in Token
    <3>1. (i - 1) \in Nat /\ (i - 1) \div L \in Nat /\ (i - 1) % L \in Nat
      BY <1>1, <2>1
    <3>2. 1 + ((i - 1) \div L) \in Nat /\ 1 + ((i - 1) % L) \in Nat
      BY <3>1
    <3> QED  BY <3>2 DEF Token
  <2> HIDE DEF At
  <2> QED  BY <2>1, <2>2, <2>3
<1>3. ASSUME NEW n \in Nat, NEW i \in 1 .. L
      PROVE  At(n * L + i) = <<"in", n + 1, i>> /\ n * L + i \in 1 .. (n + 1) * L
  <2>1. i - 1 \in 0 .. L - 1 /\ n * L \in Nat /\ (n * L + i) - 1 = n * L + (i - 1)
    BY <1>1
  <2>2. (n * L + (i - 1)) \div L = n /\ (n * L + (i - 1)) % L = i - 1
    BY <1>1, <2>1, DivideBack
  <2>3. 1 + n = n + 1 /\ 1 + (i - 1) = i
    OBVIOUS
  <2>4. n * L + i \in 1 .. (n + 1) * L
    BY <1>1, <2>1
  <2> QED  BY <2>1, <2>2, <2>3, <2>4
<1> HIDE DEF At
<1>4. /\ Chunk(t + 1) \in Seq(Token) /\ Len(Chunk(t + 1)) = L
      /\ \A i \in 1 .. L : Chunk(t + 1)[i] = <<"in", t + 1, i>>
  BY ChunkFacts DEF L
<1>5. InputOf(t) \o Chunk(t + 1) = InputOf(t + 1)
  <2> DEFINE a == InputOf(t)
             b == Chunk(t + 1)
             c == InputOf(t + 1)
             m == t * L
  <2>1. /\ a \in Seq(Token) /\ Len(a) = m /\ m \in Nat
        /\ (\A i \in 1 .. m : a[i] = At(i)) /\ (t + 1) * L = m + L
    BY <1>1, <1>2
  <2>2. c \in Seq(Token) /\ Len(c) = m + L /\ \A i \in 1 .. m + L : c[i] = At(i)
    BY <1>2, <2>1
  <2>3. \A i \in 1 .. L : At(m + i) = <<"in", t + 1, i>>
    BY <1>3
  <2> HIDE DEF a, b, c, m
  <2>4. /\ a \o b \in Seq(Token) /\ Len(a \o b) = m + L
        /\ (\A i \in 1 .. m : (a \o b)[i] = a[i]) /\ \A i \in 1 .. L : (a \o b)[m + i] = b[i]
    <3>1. b \in Seq(Token) /\ Len(b) = L
      BY <1>4 DEF b
    <3>2. /\ a \o b \in Seq(Token) /\ Len(a \o b) = Len(a) + Len(b)
          /\ \A i \in 1 .. Len(a) : (a \o b)[i] = a[i]
          /\ \A i \in 1 .. Len(b) : (a \o b)[Len(a) + i] = b[i]
      <4>1. a \in Seq(Token) /\ b \in Seq(Token)
        BY <2>1, <3>1
      <4> QED  BY <4>1, ConcatFacts
    <3> QED  BY <2>1, <3>1, <3>2
  <2>5. ASSUME NEW i \in 1 .. m + L PROVE (a \o b)[i] = c[i]
    <3>1. CASE i <= m
      <4>1. i \in 1 .. m
        BY <2>1, <3>1
      <4> QED  BY <2>1, <2>2, <2>4, <4>1
    <3>2. CASE ~(i <= m)
      <4>1. i - m \in 1 .. L /\ m + (i - m) = i
        BY <1>1, <2>1, <3>2
      <4>2. (a \o b)[m + (i - m)] = b[i - m] /\ At(m + (i - m)) = <<"in", t + 1, i - m>>
        BY <2>3, <2>4, <4>1
      <4>3. b[i - m] = <<"in", t + 1, i - m>>
        BY <1>4, <4>1 DEF b
      <4> QED  BY <2>2, <4>1, <4>2, <4>3
    <3> QED  BY <3>1, <3>2
  <2>6. a \o b = c
    BY <2>2, <2>4, <2>5, SameSeq
  <2> QED  BY <2>6 DEF a, b, c
<1>6. InputOf(1) = Chunk(1)
  <2>1. Chunk(1) \in Seq(Token) /\ Len(Chunk(1)) = L
        /\ \A i \in 1 .. L : Chunk(1)[i] = <<"in", 1, i>>
    BY ChunkFacts DEF L
  <2>2. InputOf(1) \in Seq(Token) /\ Len(InputOf(1)) = L /\ \A i \in 1 .. L : InputOf(1)[i] = At(i)
    <3>1. 1 * L = L /\ 1 \in Nat
      BY <1>1
    <3> QED  BY <1>2, <3>1
  <2>3. \A i \in 1 .. L : At(i) = <<"in", 1, i>>
    <3> SUFFICES ASSUME NEW i \in 1 .. L PROVE At(i) = <<"in", 1, i>>
      OBVIOUS
    <3>1. At(0 * L + i) = <<"in", 0 + 1, i>> /\ 0 * L + i = i /\ 0 + 1 = 1
      BY <1>1, <1>3
    <3> QED  BY <3>1
  <2> QED  BY <2>1, <2>2, <2>3, SameSeq
<1> QED  BY <1>2, <1>5, <1>6

LEMMA OutputsFacts ==
  ASSUME NEW q \in RequestType, NEW m \in Nat
  PROVE  /\ Outputs(q, m) \in Seq(Token) /\ Len(Outputs(q, m)) = m
         /\ \A i \in 1 .. m : /\ Outputs(q, m)[i] = <<"out", q.turn, Len(q.text) + i>>
                              /\ Outputs(q, m)[i] \in Outs
         /\ Off(Outputs(q, m), Outs) = <<>>
<1> DEFINE p == Outputs(q, m)
           t == q.turn
           n == Len(q.text)
<1>1. t \in Nat /\ n \in Nat
  BY LenProperties DEF RequestType
<1>2. p = [i \in 1 .. m |-> <<"out", t, n + i>>]
  BY DEF Outputs
<1> HIDE DEF p, t, n
<1>3. \A i \in 1 .. m : <<"out", t, n + i>> \in Token /\ <<"out", t, n + i>> \in Outs
  BY <1>1 DEF Token, Outs
<1>4. /\ p \in Seq(Token) /\ Len(p) = m
      /\ \A i \in 1 .. m : p[i] = <<"out", t, n + i>> /\ p[i] \in Outs
  BY <1>2, <1>3
<1>5. Within(p) \subseteq Outs
  <2> SUFFICES ASSUME NEW x \in Within(p) PROVE x \in Outs
    OBVIOUS
  <2>1. PICK i \in DOMAIN p : x = p[i]
    BY DEF Within
  <2> QED  BY <1>2, <1>4, <2>1
<1>6. Off(p, Outs) = <<>>
  BY <1>4, <1>5, OffAll
<1> QED  BY <1>4, <1>6 DEF p, t, n

LEMMA Fields ==
  ASSUME NEW q \in RequestType
  PROVE  /\ q.status \in Statuses /\ q.text \in Seq(Token) /\ q.prompt \in Nat /\ q.out \in Nat
         /\ q.computed \in Nat /\ q.in_flight \in Nat /\ q.stale \in Nat
         /\ q.placeholders \in Nat /\ q.spec \in Nat /\ q.cooldown \in Nat
         /\ q.updates \in Seq(Nat) /\ q.turn \in Nat
         /\ q.grammar \in {"none", "compiled", "failed"} /\ q.kv \in Seq(Token)
         /\ Len(q.text) \in Nat /\ Len(q.kv) \in Nat /\ Planned(q) = Len(q.text) + q.placeholders
<1>1. q.text \in Seq(Token) /\ q.kv \in Seq(Token)
  BY DEF RequestType
<1> QED  BY <1>1, LenProperties DEF RequestType, Planned

LEMMA Joined ==
  ASSUME NEW a \in Seq(Token), NEW b \in Seq(Token)
  PROVE  /\ a \o b \in Seq(Token) /\ Len(a \o b) = Len(a) + Len(b)
         /\ \A i \in 1 .. Len(a) : (a \o b)[i] = a[i]
         /\ \A i \in 1 .. Len(b) : (a \o b)[Len(a) + i] = b[i]
         /\ Off(a \o b, Outs) = Off(a, Outs) \o Off(b, Outs)
<1>1. /\ a \o b \in Seq(Token) /\ Len(a \o b) = Len(a) + Len(b)
      /\ \A i \in 1 .. Len(a) : (a \o b)[i] = a[i]
      /\ \A i \in 1 .. Len(b) : (a \o b)[Len(a) + i] = b[i]
  BY ConcatFacts
<1>2. Off(a \o b, Outs) = Off(a, Outs) \o Off(b, Outs)
  BY OffConcat
<1> QED  BY <1>1, <1>2

\* The next m tokens of t follow its beginning h.
LEMMA MoreOf ==
  ASSUME NEW t \in Seq(Token), NEW h \in Seq(Token), NEW m \in Nat, Len(h) + m <= Len(t),
         \A i \in 1 .. Len(h) : h[i] = t[i]
  PROVE  LET k == h \o SubSeq(t, Len(h) + 1, Len(h) + m)
         IN  k \in Seq(Token) /\ Len(k) = Len(h) + m /\ \A i \in 1 .. Len(h) + m : k[i] = t[i]
<1> DEFINE c == Len(h)
           e == c + m
           s == SubSeq(t, c + 1, e)
           k == h \o s
<1>1. c \in Nat /\ Len(t) \in Nat /\ e \in Nat /\ e <= Len(t) /\ c <= e /\ e - c = m
  BY LenProperties
<1>2. c \in 0 .. Len(t) /\ e \in c .. Len(t)
  BY <1>1
<1>3. /\ s \in Seq(Token) /\ Len(s) = e - c /\ \A i \in 1 .. e - c : s[i] = t[c + i]
  BY <1>2, SubFacts
<1> HIDE DEF s
<1>4. /\ k \in Seq(Token) /\ Len(k) = c + (e - c) /\ (\A i \in 1 .. c : k[i] = h[i])
      /\ \A i \in 1 .. e - c : k[c + i] = s[i]
  <2>1. /\ h \o s \in Seq(Token) /\ Len(h \o s) = Len(h) + Len(s)
        /\ (\A i \in 1 .. Len(h) : (h \o s)[i] = h[i])
        /\ \A i \in 1 .. Len(s) : (h \o s)[Len(h) + i] = s[i]
    <3>1. s \in Seq(Token) /\ h \in Seq(Token)
      BY <1>3
    <3> QED  BY <3>1, ConcatFacts
  <2> QED  BY <1>3, <2>1
<1> HIDE DEF k
<1>5. ASSUME NEW i \in 1 .. e PROVE k[i] = t[i]
  <2>1. CASE i <= c
    <3>1. i \in 1 .. c
      BY <1>1, <2>1
    <3> QED  BY <1>4, <3>1
  <2>2. CASE ~(i <= c)
    <3>1. i - c \in 1 .. e - c /\ c + (i - c) = i
      BY <1>1, <2>2
    <3>2. k[c + (i - c)] = s[i - c] /\ s[i - c] = t[c + (i - c)]
      BY <1>3, <1>4, <3>1
    <3> QED  BY <3>1, <3>2
  <2> QED  BY <2>1, <2>2
<1>6. c + (e - c) = c + m
  BY <1>1
<1> QED  BY <1>4, <1>5, <1>6 DEF k, s

LEMMA FreshFacts ==
  /\ \A status \in Statuses :
       LET q == NewRequest(status)
       IN  /\ q \in RequestType /\ q.status = status /\ Held(q) /\ q.computed < Len(q.text)
           /\ q.turn = 1 /\ q.in_flight = 0 /\ q.stale = 0 /\ q.placeholders = 0
           /\ q.updates = <<>> /\ Off(q.text, Outs) = InputOf(1)
  /\ Absent \in RequestType /\ Absent.status = "ABSENT"
  /\ Gone \in RequestType /\ Gone.status = "FINISHED"
<1>1. /\ Chunk(1) \in Seq(Token) /\ Len(Chunk(1)) = ChunkLen /\ Off(Chunk(1), Outs) = InputOf(1)
      /\ ChunkLen \in Nat /\ ChunkLen > 0
  <2>1. Chunk(1) \in Seq(Token) /\ Len(Chunk(1)) = ChunkLen /\ Off(Chunk(1), Outs) = Chunk(1)
    BY ChunkFacts
  <2>2. InputOf(1) = Chunk(1)
    BY InputNext
  <2>3. ChunkLen \in Nat /\ ChunkLen > 0
    BY SessionAssumption
  <2> QED  BY <2>1, <2>2, <2>3
<1>2. ASSUME NEW status \in Statuses
      PROVE  LET q == NewRequest(status)
             IN  /\ q \in RequestType /\ q.status = status /\ Held(q) /\ q.computed < Len(q.text)
                 /\ q.turn = 1 /\ q.in_flight = 0 /\ q.stale = 0 /\ q.placeholders = 0
                 /\ q.updates = <<>> /\ Off(q.text, Outs) = InputOf(1)
  <2> DEFINE q == NewRequest(status)
  <2>1. /\ q \in RequestType /\ q.status = status /\ q.text = Chunk(1) /\ q.computed = 0
        /\ q.turn = 1 /\ q.in_flight = 0 /\ q.stale = 0 /\ q.placeholders = 0
        /\ q.updates = <<>> /\ q.kv = <<>>
    BY <1>1 DEF NewRequest, RequestType
  <2> HIDE DEF q
  <2>2. Len(q.kv) = 0 /\ 1 .. 0 = {}
    BY <2>1
  <2>3. Held(q)
    BY <1>1, <2>1, <2>2 DEF Held
  <2>4. q.computed < Len(q.text)
    BY <1>1, <2>1
  <2> QED  BY <1>1, <2>1, <2>3, <2>4 DEF q
<1>3. Absent \in RequestType /\ Absent.status = "ABSENT"
  <2>1. NewRequest("ABSENT") \in RequestType
    BY <1>2 DEF Statuses
  <2>2. <<>> \in Seq(Token) /\ 0 \in Nat
    OBVIOUS
  <2>3. NewRequest("ABSENT").status = "ABSENT"
    BY DEF NewRequest
  <2> QED  BY <2>1, <2>2, <2>3 DEF Absent, RequestType
<1>4. Gone \in RequestType /\ Gone.status = "FINISHED"
  BY <1>3 DEF Gone, RequestType, Statuses
<1> QED  BY <1>2, <1>3, <1>4

\* The last token of a turn, which no step has computed, makes room for the next chunk.
LEMMA NextTurnFacts ==
  ASSUME NEW q \in RequestType, NEW c \in Nat, Held(q), q.computed + 1 = Len(q.text),
         q.in_flight = 0, q.stale = 0, q.text[Len(q.text)] \in Outs, Off(q.text, Outs) = InputOf(q.turn), c = q.turn + 1
  PROVE  LET p == NextTurn(q, c)
         IN  /\ p \in RequestType /\ Held(p) /\ p.status = "WAITING"
             /\ p.computed < Len(p.text) /\ Off(p.text, Outs) = InputOf(c) /\ p.turn = c
             /\ p.in_flight = 0 /\ p.stale = 0 /\ p.updates = q.updates
             /\ p.placeholders = q.placeholders
<1> DEFINE k == q.computed
           n == Len(q.text)
           s == SubSeq(q.text, 1, k)
           outputs == IF k > q.prompt THEN k - q.prompt ELSE 0
           p == NextTurn(q, c)
           w == s \o Chunk(c)
<1>1. /\ k \in Nat /\ n = k + 1 /\ n \in Nat /\ q.text \in Seq(Token) /\ q.prompt \in Nat
      /\ q.turn \in Nat /\ q.kv \in Seq(Token) /\ Len(q.kv) = k
      /\ \A i \in 1 .. k : q.kv[i] = q.text[i]
  BY Fields DEF Held
<1>2. Least(q.computed, Len(q.text)) = k
  BY <1>1 DEF Least
<1>3. s \in Seq(Token) /\ Len(s) = k /\ \A i \in 1 .. k : s[i] = q.text[i]
  <2>1. k \in 0 .. Len(q.text)
    BY <1>1
  <2> QED  BY <1>1, <2>1, StartFacts
<1>4. /\ Chunk(c) \in Seq(Token) /\ Len(Chunk(c)) = ChunkLen /\ Off(Chunk(c), Outs) = Chunk(c)
      /\ ChunkLen \in Nat /\ ChunkLen > 0
  BY ChunkFacts, SessionAssumption
<1>5. p = [q EXCEPT !.status = "WAITING", !.text = w,
                    !.prompt = @ + outputs + ChunkLen, !.out = 0, !.turn = @ + 1]
  BY <1>2 DEF NextTurn
<1>6. outputs \in Nat
  BY <1>1
<1> HIDE DEF s, outputs, p, n
<1> HIDE DEF k
<1>7. /\ w \in Seq(Token) /\ Len(w) = k + ChunkLen /\ \A i \in 1 .. k : w[i] = s[i]
      /\ Off(w, Outs) = Off(s, Outs) \o Chunk(c)
  <2>1. s \in Seq(Token) /\ Chunk(c) \in Seq(Token) /\ Len(s) = k /\ Len(Chunk(c)) = ChunkLen
    BY <1>3, <1>4
  <2>2. /\ s \o Chunk(c) \in Seq(Token) /\ Len(s \o Chunk(c)) = Len(s) + Len(Chunk(c))
        /\ \A i \in 1 .. Len(s) : (s \o Chunk(c))[i] = s[i]
        /\ Off(s \o Chunk(c), Outs) = Off(s, Outs) \o Off(Chunk(c), Outs)
    BY <2>1, Joined
  <2> QED  BY <1>4, <2>1, <2>2
<1>8. Off(w, Outs) = InputOf(c)
  <2>1. q.text = Append(s, q.text[n])
    <3>1. q.text[n] \in Token
      <4>1. n \in 1 .. Len(q.text)
        BY <1>1 DEF n
      <4> QED  BY <1>1, <4>1, ElementOfSeq
    <3> DEFINE x == q.text[n]
               u == Append(s, x)
    <3>2. u \in Seq(Token) /\ Len(u) = k + 1 /\ u[k + 1] = x /\ \A i \in 1 .. k : u[i] = s[i]
      BY <1>3, <3>1, AppendFacts
    <3>5. x = q.text[k + 1]
      BY <1>1
    <3> HIDE DEF u, x
    <3>6. \A i \in 1 .. k + 1 : i \in 1 .. k \/ i = k + 1
      BY <1>1
    <3>3. Len(q.text) = k + 1 /\ \A i \in 1 .. k + 1 : u[i] = q.text[i]
      BY <1>1, <1>3, <3>2, <3>5, <3>6 DEF n
    <3>4. u = q.text
      BY <1>1, <3>2, <3>3, SameSeq
    <3> QED  BY <3>4 DEF u, x
  <2>2. q.text[n] \in Outs /\ q.text[n] \in Token
    <3>1. n \in 1 .. Len(q.text)
      BY <1>1 DEF n
    <3> QED  BY <1>1, <3>1, ElementOfSeq DEF n
  <2>3. Off(q.text, Outs) = Off(s, Outs)
    <3> DEFINE x == q.text[n]
    <3>1. s \in Seq(Token) /\ x \in Token /\ x \in Outs /\ q.text = Append(s, x)
      BY <1>3, <2>1, <2>2
    <3> HIDE DEF x
    <3>2. Off(Append(s, x), Outs) = Off(s, Outs)
      BY <3>1, OffAppend
    <3> QED  BY <3>1, <3>2
  <2>4. Off(w, Outs) = Off(s, Outs) \o Chunk(c)
    BY <1>7
  <2>5. InputOf(q.turn) \o Chunk(q.turn + 1) = InputOf(q.turn + 1)
    BY <1>1, InputNext
  <2> QED  BY <2>3, <2>4, <2>5
<1> HIDE DEF w
<1>9. /\ p \in RequestType /\ p.status = "WAITING" /\ p.text = w /\ p.computed = k /\ p.kv = q.kv
      /\ p.turn = c /\ p.in_flight = 0 /\ p.stale = 0 /\ p.updates = q.updates
      /\ p.placeholders = q.placeholders
  <2>1. q.prompt + outputs + ChunkLen \in Nat /\ q.turn + 1 \in Nat
    BY <1>1, <1>4, <1>6
  <2>2. p = [q EXCEPT !.status = "WAITING", !.text = w, !.prompt = q.prompt + outputs + ChunkLen,
                      !.out = 0, !.turn = q.turn + 1]
    BY <1>5 DEF RequestType
  <2>3. k = q.computed
    BY DEF k
  <2> QED  BY <1>7, <2>1, <2>2, <2>3 DEF RequestType, Statuses
<1>10. p.computed < Len(p.text) /\ Len(p.text) > 0 /\ k + 0 = k /\ k <= Len(p.text)
  BY <1>1, <1>4, <1>7, <1>9
<1>11. Held(p)
  BY <1>1, <1>3, <1>7, <1>9, <1>10 DEF Held
<1> QED  BY <1>8, <1>9, <1>10, <1>11 DEF p

LEMMA DrainedFacts ==
  ASSUME NEW q \in RequestType, NEW row \in RowType, row.n <= q.in_flight,
         q.stale = 0 \/ q.stale = q.in_flight
  PROVE  LET p == Drained(q, row)
         IN  /\ p \in RequestType /\ p.in_flight = q.in_flight - row.n /\ p.status = q.status
             /\ p.stale = (IF q.stale = 0 THEN 0 ELSE p.in_flight)
             /\ p.text = q.text /\ p.kv = q.kv /\ p.computed = q.computed /\ p.turn = q.turn
             /\ p.updates = q.updates /\ p.out = q.out /\ p.placeholders = q.placeholders
<1>1. row.n \in Nat /\ q.in_flight \in Nat /\ q.stale \in Nat
  BY Fields DEF RowType
<1>2. q.in_flight - row.n \in Nat
  BY <1>1
<1>3. q.stale > 0 => q.stale - row.n \in Nat
  BY <1>1
<1>4. (IF q.stale > 0 THEN q.stale - row.n ELSE 0) \in Nat
  BY <1>1, <1>3
<1> DEFINE p == Drained(q, row)
           f == q.in_flight - row.n
           l == IF q.stale > 0 THEN q.stale - row.n ELSE 0
<1>5. p = [q EXCEPT !.in_flight = f, !.stale = l]
  BY <1>1 DEF Drained, RequestType
<1>6. l = IF q.stale = 0 THEN 0 ELSE f
  BY <1>1
<1>7. f \in Nat /\ l \in Nat
  BY <1>2, <1>4
<1> HIDE DEF p, f, l
<1>8. /\ p \in RequestType /\ p.in_flight = f /\ p.stale = l /\ p.status = q.status
      /\ p.text = q.text /\ p.kv = q.kv /\ p.computed = q.computed /\ p.turn = q.turn
      /\ p.updates = q.updates /\ p.out = q.out /\ p.placeholders = q.placeholders
  BY <1>5, <1>7 DEF RequestType
<1> QED  BY <1>6, <1>8 DEF p, f

\* A current answer of a whole sample, the accepted drafts and one more token, while `left'
\* tokens of decode steps are in flight behind it.
LEMMA CommittedNow ==
  ASSUME req \in [Reqs -> RequestType], NEW row \in RowType, row.drafts < row.n,
         row.n <= req[row.r].in_flight, Held(req[row.r]), req[row.r].stale = 0,
         NEW left \in Nat, req[row.r].in_flight - row.n = left,
         req[row.r].placeholders = left + 1 + row.drafts,
         req[row.r].computed + 1 = Len(req[row.r].text) + req[row.r].placeholders,
         NEW a \in 0 .. row.drafts
  PROVE  LET q == req[row.r]
             p == Committed(row, a, a + 1)
         IN  /\ p \in RequestType /\ Held(p) /\ p.status = q.status
             /\ p.in_flight = left /\ p.stale = 0 /\ p.placeholders = left
             /\ p.computed + 1 = Len(p.text) + left /\ p.text[Len(p.text)] \in Outs
             /\ Off(p.text, Outs) = Off(q.text, Outs) /\ p.turn = q.turn
             /\ p.updates = q.updates
<1> DEFINE q == req[row.r]
           d == Drained(q, row)
           n == Len(q.text)
           u == Outputs(q, a + 1)
           v == Outputs(q, a)
           t == q.text
           f == Fed(q, row)
           h == q.kv \o f
           p == Committed(row, a, a + 1)
<1>1. q \in RequestType /\ row.drafts \in Nat /\ row.n \in Nat /\ a \in Nat /\ a <= row.drafts
  BY DEF RowType
<1>2. /\ t \in Seq(Token) /\ q.kv \in Seq(Token) /\ n \in Nat /\ q.out \in Nat
      /\ q.computed \in Nat /\ q.stale = 0 /\ q.in_flight \in Nat /\ q.placeholders \in Nat
      /\ n > 0 /\ Len(q.kv) \in Nat /\ Len(q.kv) + q.in_flight = q.computed + 0
      /\ \A i \in 1 .. Len(q.kv) : q.kv[i] = t[i]
  BY <1>1, Fields DEF Held
<1>3. /\ d \in RequestType /\ d.in_flight = left /\ d.status = q.status
      /\ d.stale = 0 /\ d.text = t /\ d.kv = q.kv /\ d.computed = q.computed
      /\ d.turn = q.turn /\ d.updates = q.updates /\ d.out = q.out
      /\ d.placeholders = q.placeholders
  BY <1>1, <1>2, DrainedFacts
<1>4. /\ u \in Seq(Token) /\ Len(u) = a + 1 /\ Off(u, Outs) = <<>>
      /\ \A i \in 1 .. a + 1 : u[i] = <<"out", q.turn, n + i>> /\ u[i] \in Outs
  <2>1. a + 1 \in Nat
    BY <1>1
  <2>2. /\ Outputs(q, a + 1) \in Seq(Token) /\ Len(Outputs(q, a + 1)) = a + 1
        /\ Off(Outputs(q, a + 1), Outs) = <<>>
        /\ \A i \in 1 .. a + 1 : /\ Outputs(q, a + 1)[i] = <<"out", q.turn, Len(q.text) + i>>
                                 /\ Outputs(q, a + 1)[i] \in Outs
    BY <1>1, <2>1, OutputsFacts
  <2> QED  BY <2>2
<1>5. /\ v \in Seq(Token) /\ Len(v) = a /\ \A i \in 1 .. a : v[i] = <<"out", q.turn, n + i>>
  <2>1. /\ Outputs(q, a) \in Seq(Token) /\ Len(Outputs(q, a)) = a
        /\ \A i \in 1 .. a : Outputs(q, a)[i] = <<"out", q.turn, Len(q.text) + i>>
    BY <1>1, OutputsFacts
  <2> QED  BY <2>1
<1>6. p = [d EXCEPT !.text = @ \o u, !.out = @ + (a + 1),
                    !.computed = IF q.stale > 0 \/ @ = 0 THEN @ ELSE @ - (row.drafts - a),
                    !.placeholders = IF q.stale > 0 THEN @ ELSE @ - (row.drafts - a) - (a + 1),
                    !.kv = IF q.stale > 0 THEN @ ELSE @ \o f \o v]
  BY DEF Committed
<1>a. f = SubSeq(t, Len(q.kv) + 1, Len(q.kv) + row.n - row.drafts)
  BY DEF Fed
<1>b. /\ q.in_flight = left + row.n /\ q.placeholders = left + 1 + row.drafts
      /\ q.computed + 1 = n + q.placeholders
  BY <1>1, <1>2
<1> HIDE DEF q, d, n, u, v, p, t, f
\* The row reaches the end of the text.
<1>c. /\ row.n - row.drafts \in Nat /\ Len(q.kv) + (row.n - row.drafts) = n
      /\ Len(q.kv) + row.n - row.drafts = Len(q.kv) + (row.n - row.drafts)
  <2> DEFINE k == Len(q.kv)
             g == q.in_flight
             e == row.drafts
             w == row.n
             c == q.computed
             m == q.placeholders
  <2>1. /\ k \in Nat /\ g \in Nat /\ e \in Nat /\ w \in Nat /\ c \in Nat /\ m \in Nat /\ n \in Nat
        /\ e < w /\ k + g = c + 0 /\ g = left + w /\ m = left + 1 + e /\ c + 1 = n + m
    BY <1>1, <1>2, <1>b
  <2> HIDE DEF k, g, e, w, c, m
  <2>2. w - e \in Nat /\ k + (w - e) = n /\ k + w - e = k + (w - e)
    BY <2>1
  <2> QED  BY <2>2 DEF k, w, e
<1>d. h \in Seq(Token) /\ Len(h) = n /\ \A i \in 1 .. n : h[i] = t[i]
  <2> DEFINE g == q.kv
             m == row.n - row.drafts
  <2>1. /\ g \in Seq(Token) /\ m \in Nat /\ Len(g) + m <= Len(t) /\ Len(g) + m = n
        /\ f = SubSeq(t, Len(g) + 1, Len(g) + m) /\ \A i \in 1 .. Len(g) : g[i] = t[i]
    BY <1>2, <1>a, <1>c DEF n, t
  <2> HIDE DEF g, m
  <2>2. /\ g \o f \in Seq(Token) /\ Len(g \o f) = Len(g) + m
        /\ \A i \in 1 .. Len(g) + m : (g \o f)[i] = t[i]
    BY <1>2, <2>1, MoreOf
  <2> QED  BY <2>1, <2>2 DEF g
<1>7. /\ ~(q.stale > 0) /\ q.computed # 0 /\ q.computed - (row.drafts - a) = n + left + a
      /\ q.placeholders - (row.drafts - a) - (a + 1) = left
  <2> DEFINE e == row.drafts
             c == q.computed
             m == q.placeholders
  <2>1. /\ e \in Nat /\ c \in Nat /\ m \in Nat /\ n \in Nat /\ a \in Nat /\ n > 0
        /\ m = left + 1 + e /\ c + 1 = n + m /\ q.stale = 0
    BY <1>1, <1>2, <1>b
  <2> HIDE DEF e, c, m
  <2>2. c # 0 /\ c - (e - a) = n + left + a /\ m - (e - a) - (a + 1) = left
    BY <2>1
  <2>3. ~(q.stale > 0)
    BY <2>1
  <2> QED  BY <2>2, <2>3 DEF c, e, m
<1> DEFINE tx == t \o u
           kx == h \o v
<1>8. /\ tx \in Seq(Token) /\ Len(tx) = n + (a + 1) /\ (\A i \in 1 .. n : tx[i] = t[i])
      /\ (\A i \in 1 .. a + 1 : tx[n + i] = u[i])
      /\ Off(tx, Outs) = Off(t, Outs) \o Off(u, Outs)
  <2>1. t \in Seq(Token) /\ u \in Seq(Token) /\ Len(t) = n /\ Len(u) = a + 1
    BY <1>2, <1>4 DEF n, t
  <2>3. /\ t \o u \in Seq(Token) /\ Len(t \o u) = Len(t) + Len(u)
        /\ (\A i \in 1 .. Len(t) : (t \o u)[i] = t[i])
        /\ (\A i \in 1 .. Len(u) : (t \o u)[Len(t) + i] = u[i])
        /\ Off(t \o u, Outs) = Off(t, Outs) \o Off(u, Outs)
    BY <2>1, Joined
  <2> QED  BY <2>1, <2>3
<1> HIDE DEF h
<1>9. /\ kx \in Seq(Token) /\ Len(kx) = n + a /\ (\A i \in 1 .. n : kx[i] = h[i])
      /\ \A i \in 1 .. a : kx[n + i] = v[i]
  <2>1. h \in Seq(Token) /\ v \in Seq(Token) /\ Len(h) = n /\ Len(v) = a
    BY <1>5, <1>d
  <2>3. /\ h \o v \in Seq(Token) /\ Len(h \o v) = Len(h) + Len(v)
        /\ (\A i \in 1 .. Len(h) : (h \o v)[i] = h[i])
        /\ (\A i \in 1 .. Len(v) : (h \o v)[Len(h) + i] = v[i])
    BY <2>1, Joined
  <2> QED  BY <2>1, <2>3
<1>10. Off(tx, Outs) = Off(t, Outs)
  <2>1. Off(tx, Outs) = Off(t, Outs) \o Off(u, Outs)
    BY <1>8
  <2>2. Off(t, Outs) \in Seq(Token)
    BY <1>2, OffFacts
  <2> QED  BY <1>4, <2>1, <2>2, ConcatEmptySeq
<1>e. d.text \o u = tx /\ d.kv \o f \o v = kx
  BY <1>3 DEF h
<1> HIDE DEF tx, kx
<1>11. /\ p \in RequestType /\ p.text = tx /\ p.kv = kx /\ p.computed = n + left + a
       /\ p.status = q.status /\ p.in_flight = left /\ p.stale = 0 /\ p.placeholders = left
       /\ p.turn = q.turn /\ p.updates = q.updates
  <2>1. p = [d EXCEPT !.text = tx, !.out = @ + (a + 1), !.computed = n + left + a,
                      !.placeholders = left, !.kv = kx]
    BY <1>3, <1>6, <1>7, <1>e DEF RequestType
  <2>2. n + left + a \in Nat /\ q.out + (a + 1) \in Nat
    BY <1>1, <1>2
  <2> QED  BY <1>3, <1>8, <1>9, <2>1, <2>2 DEF RequestType
<1>12. /\ p.computed + 1 = Len(p.text) + left /\ Len(p.text) > 0 /\ Len(p.text) = n + (a + 1)
       /\ Len(p.kv) = n + a /\ n + a <= Len(p.text) /\ (n + a) + left = (n + left + a) + 0
  <2>1. Len(p.text) = n + (a + 1) /\ Len(p.kv) = n + a /\ p.computed = n + left + a
    BY <1>8, <1>9, <1>11
  <2>2. n \in Nat /\ a \in Nat
    BY <1>1, <1>2
  <2> QED  BY <2>1, <2>2
<1>13. p.text[Len(p.text)] \in Outs
  <2>1. a + 1 \in 1 .. a + 1
    BY <1>1
  <2> QED  BY <1>4, <1>8, <1>11, <1>12, <2>1
<1>14. ASSUME NEW i \in 1 .. n + a PROVE kx[i] = tx[i]
  <2>1. CASE i <= n
    <3>1. i \in 1 .. n
      BY <1>1, <1>2, <2>1
    <3> QED  BY <1>d, <1>8, <1>9, <3>1
  <2>2. CASE ~(i <= n)
    <3>1. i - n \in 1 .. a /\ i - n \in 1 .. a + 1 /\ n + (i - n) = i
      BY <1>1, <1>2, <2>2
    <3>2. kx[n + (i - n)] = v[i - n] /\ tx[n + (i - n)] = u[i - n]
      BY <1>8, <1>9, <3>1
    <3>3. v[i - n] = <<"out", q.turn, n + (i - n)>> /\ u[i - n] = <<"out", q.turn, n + (i - n)>>
      BY <1>4, <1>5, <3>1
    <3> QED  BY <3>1, <3>2, <3>3
  <2> QED  BY <2>1, <2>2
<1>15. Held(p)
  BY <1>9, <1>11, <1>12, <1>14 DEF Held
<1>16. Off(p.text, Outs) = Off(q.text, Outs)
  BY <1>10, <1>11 DEF t
<1> QED  BY <1>11, <1>12, <1>13, <1>15, <1>16 DEF p, q

\* An answer of a run that was preempted: its tokens count, the computed ones are none of it.
LEMMA CommittedStale ==
  ASSUME req \in [Reqs -> RequestType], NEW row \in RowType, row.n <= req[row.r].in_flight,
         Held(req[row.r]), req[row.r].stale = req[row.r].in_flight, req[row.r].stale > 0,
         req[row.r].computed < Len(req[row.r].text), NEW a \in 0 .. row.drafts,
         NEW m \in Nat
  PROVE  LET q == req[row.r]
             p == Committed(row, a, m)
         IN  /\ p \in RequestType /\ Held(p) /\ p.status = q.status
             /\ p.in_flight = q.in_flight - row.n /\ p.stale = p.in_flight
             /\ p.placeholders = q.placeholders
             /\ p.computed < Len(p.text) /\ Off(p.text, Outs) = Off(q.text, Outs)
             /\ p.turn = q.turn /\ p.updates = q.updates
<1> DEFINE q == req[row.r]
           d == Drained(q, row)
           n == Len(q.text)
           u == Outputs(q, m)
           p == Committed(row, a, m)
           t == q.text
<1>1. q \in RequestType
  BY DEF RowType
<1>2. /\ t \in Seq(Token) /\ n \in Nat /\ q.out \in Nat /\ q.computed \in Nat /\ n = Len(t)
      /\ q.computed < n /\ Len(q.kv) = q.computed /\ q.stale \in Nat /\ q.stale > 0
      /\ \A i \in 1 .. q.computed : q.kv[i] = t[i]
  <2>1. /\ q.in_flight \in Nat /\ q.stale = q.in_flight /\ q.computed \in Nat /\ Len(q.kv) \in Nat
        /\ Len(q.kv) + q.in_flight = q.computed + q.stale
        /\ \A i \in 1 .. Len(q.kv) : q.kv[i] = t[i]
    BY <1>1, Fields DEF Held
  <2>2. Len(q.kv) = q.computed
    BY <2>1
  <2> QED  BY <1>1, <2>1, <2>2, Fields DEF Held
<1>3. /\ d \in RequestType /\ d.in_flight = q.in_flight - row.n /\ d.status = q.status
      /\ d.stale = d.in_flight /\ d.text = t /\ d.kv = q.kv /\ d.computed = q.computed
      /\ d.turn = q.turn /\ d.updates = q.updates /\ d.out = q.out
      /\ d.placeholders = q.placeholders
  <2>1. /\ d \in RequestType /\ d.in_flight = q.in_flight - row.n /\ d.status = q.status
        /\ d.stale = (IF q.stale = 0 THEN 0 ELSE d.in_flight)
        /\ d.text = t /\ d.kv = q.kv /\ d.computed = q.computed
        /\ d.turn = q.turn /\ d.updates = q.updates /\ d.out = q.out
        /\ d.placeholders = q.placeholders
    BY <1>1, DrainedFacts
  <2> QED  BY <1>2, <2>1
<1>4. u \in Seq(Token) /\ Len(u) = m /\ Off(u, Outs) = <<>>
  BY <1>1, OutputsFacts
<1>5. p = [d EXCEPT !.text = @ \o u, !.out = @ + m,
                    !.computed = IF q.stale > 0 \/ @ = 0 THEN @ ELSE @ - (row.drafts - a),
                    !.placeholders = IF q.stale > 0 THEN @ ELSE @ - (row.drafts - a) - m,
                    !.kv = IF q.stale > 0 THEN @ ELSE @ \o Fed(q, row) \o Outputs(q, a)]
  BY DEF Committed
<1> HIDE DEF q, d, n, u, p, t
<1> DEFINE tx == t \o u
<1>6. /\ tx \in Seq(Token) /\ Len(tx) = n + m /\ (\A i \in 1 .. n : tx[i] = t[i])
      /\ Off(tx, Outs) = Off(t, Outs) \o Off(u, Outs)
  <2>1. t \in Seq(Token) /\ u \in Seq(Token)
    BY <1>2, <1>4
  <2>2. /\ t \o u \in Seq(Token) /\ Len(t \o u) = Len(t) + Len(u)
        /\ (\A i \in 1 .. Len(t) : (t \o u)[i] = t[i])
        /\ Off(t \o u, Outs) = Off(t, Outs) \o Off(u, Outs)
    BY <2>1, Joined
  <2> QED  BY <1>2, <1>4, <2>2
<1>7. Off(tx, Outs) = Off(t, Outs)
  <2>1. Off(t, Outs) \in Seq(Token)
    BY <1>2, OffFacts
  <2> QED  BY <1>4, <1>6, <2>1, ConcatEmptySeq
<1>e. d.text \o u = tx
  BY <1>3
<1> HIDE DEF tx
<1>8. /\ p \in RequestType /\ p.text = tx /\ p.kv = q.kv /\ p.computed = q.computed
      /\ p.status = q.status /\ p.in_flight = q.in_flight - row.n /\ p.stale = p.in_flight
      /\ p.turn = q.turn /\ p.updates = q.updates /\ p.placeholders = q.placeholders
  <2>1. p = [d EXCEPT !.text = tx, !.out = q.out + m]
    BY <1>2, <1>3, <1>5, <1>e DEF RequestType
  <2>2. q.out + m \in Nat
    BY <1>2
  <2> QED  BY <1>3, <1>6, <2>1, <2>2 DEF RequestType
<1>9. /\ p.computed < Len(p.text) /\ Len(p.text) > 0 /\ Len(p.kv) <= Len(p.text)
      /\ Len(p.kv) + p.in_flight = p.computed + p.stale
      /\ \A i \in 1 .. Len(p.kv) : i \in 1 .. n
  <2>1. p.in_flight \in Nat
    BY <1>8, Fields
  <2> QED  BY <1>2, <1>6, <1>8, <2>1
<1>10. Held(p)
  BY <1>2, <1>6, <1>8, <1>9 DEF Held
<1>11. Off(p.text, Outs) = Off(q.text, Outs)
  BY <1>7, <1>8 DEF t
<1> QED  BY <1>8, <1>9, <1>10, <1>11 DEF p, q

\* The answer to a step of prefill.
LEMMA ComputedFacts ==
  ASSUME req \in [Reqs -> RequestType], NEW row \in RowType, row.n <= req[row.r].in_flight,
         row.drafts = 0, Held(req[row.r]),
         req[row.r].stale = 0 \/ req[row.r].stale = req[row.r].in_flight,
         req[row.r].stale = 0 => Len(req[row.r].kv) + row.n <= Len(req[row.r].text)
  PROVE  LET q == req[row.r]
             p == Computed(row)
         IN  /\ p \in RequestType /\ Held(p) /\ p.in_flight = q.in_flight - row.n
             /\ p.stale = (IF q.stale = 0 THEN 0 ELSE p.in_flight)
             /\ p.status = q.status /\ p.text = q.text /\ p.computed = q.computed
             /\ p.turn = q.turn /\ p.updates = q.updates /\ p.placeholders = q.placeholders
<1> DEFINE q == req[row.r]
           d == Drained(q, row)
           p == Computed(row)
           f == Fed(q, row)
           g == q.kv
           t == q.text
           k == IF q.stale > 0 THEN g ELSE g \o f
<1>1. q \in RequestType /\ row.n \in Nat
  BY DEF RowType
<1>2. /\ t \in Seq(Token) /\ g \in Seq(Token) /\ Len(g) \in Nat /\ Len(t) \in Nat
      /\ q.in_flight \in Nat /\ q.stale \in Nat /\ q.computed \in Nat /\ Len(t) > 0
      /\ Len(g) + q.in_flight = q.computed + q.stale /\ Len(g) <= Len(t)
      /\ \A i \in 1 .. Len(g) : g[i] = t[i]
  BY <1>1, Fields DEF Held
<1>3. /\ d \in RequestType /\ d.in_flight = q.in_flight - row.n /\ d.status = q.status
      /\ d.stale = (IF q.stale = 0 THEN 0 ELSE d.in_flight)
      /\ d.text = t /\ d.kv = g /\ d.computed = q.computed
      /\ d.turn = q.turn /\ d.updates = q.updates /\ d.placeholders = q.placeholders
  BY <1>1, DrainedFacts
<1>4. p = [d EXCEPT !.kv = IF q.stale > 0 THEN @ ELSE @ \o f]
  BY DEF Computed
<1>5. f = SubSeq(t, Len(g) + 1, Len(g) + row.n)
  <2>1. Len(g) + row.n - row.drafts = Len(g) + row.n
    BY <1>1, <1>2
  <2> QED  BY <2>1 DEF Fed
<1> HIDE DEF d, p, f, g, t
<1>6. q.stale = 0 => g \o f \in Seq(Token) /\ Len(g \o f) = Len(g) + row.n
                     /\ \A i \in 1 .. Len(g) + row.n : (g \o f)[i] = t[i]
  <2> HAVE q.stale = 0
  <2>1. Len(g) + row.n <= Len(t)
    BY DEF g, t
  <2> QED  BY <1>1, <1>2, <1>5, <2>1, MoreOf
<1>7. /\ k \in Seq(Token) /\ Len(k) = (IF q.stale > 0 THEN Len(g) ELSE Len(g) + row.n)
      /\ \A i \in 1 .. Len(k) : k[i] = t[i]
  <2>1. CASE q.stale = 0
    <3>1. k = g \o f
      BY <2>1
    <3> HIDE DEF k
    <3> QED  BY <1>6, <2>1, <3>1
  <2>2. CASE q.stale # 0
    <3>1. k = g /\ q.stale > 0
      BY <1>2, <2>2
    <3> HIDE DEF k
    <3> QED  BY <1>2, <3>1
  <2> QED  BY <2>1, <2>2
<1>8. p = [d EXCEPT !.kv = k]
  BY <1>3, <1>4 DEF RequestType
<1> HIDE DEF k
<1>9. /\ p \in RequestType /\ p.kv = k /\ p.in_flight = d.in_flight /\ p.stale = d.stale
      /\ p.status = q.status /\ p.text = t /\ p.computed = q.computed
      /\ p.turn = q.turn /\ p.updates = q.updates /\ p.placeholders = q.placeholders
  BY <1>3, <1>7, <1>8 DEF RequestType
<1>10. Len(k) <= Len(t) /\ Len(k) + p.in_flight = p.computed + p.stale
  <2>1. CASE q.stale = 0
    <3>1. Len(k) = Len(g) + row.n /\ p.stale = 0 /\ Len(g) + row.n <= Len(t)
      BY <1>3, <1>7, <1>9, <2>1 DEF g, t
    <3> QED  BY <1>1, <1>2, <1>3, <1>9, <2>1, <3>1
  <2>2. CASE q.stale # 0
    <3>1. Len(k) = Len(g) /\ p.stale = p.in_flight /\ q.stale = q.in_flight
      BY <1>2, <1>3, <1>7, <1>9, <2>2
    <3> QED  BY <1>1, <1>2, <1>3, <1>9, <3>1
  <2> QED  BY <2>1, <2>2
<1>11. Held(p)
  BY <1>2, <1>7, <1>9, <1>10 DEF Held
<1> QED  BY <1>3, <1>9, <1>11 DEF p, t

LEMMA AnswersFacts ==
  ASSUME NEW row \in RowType, NEW stops \in BOOLEAN, NEW am \in Answers(row, stops)
  PROVE  /\ am[1] \in 0 .. row.drafts /\ am[2] \in Nat
         /\ ~stops => am[2] = am[1] + 1
         /\ row.r \in Streams /\ ~CutTurns => am[2] = am[1] + 1
<1>1. am \in (0 .. row.drafts) \X (1 .. 1 + row.drafts)
  BY DEF Answers
<1>2. am[1] \in 0 .. row.drafts /\ am[2] \in Nat
  BY <1>1 DEF RowType
<1>3. ~stops => am[2] = am[1] + 1
  BY DEF Answers
<1>4. row.r \in Streams /\ ~CutTurns => am[2] = am[1] + 1
  BY DEF Answers
<1> QED  BY <1>2, <1>3, <1>4

\* Rows that end at the drafts of a request, or before.
LEMMA RowOfFacts ==
  ASSUME NEW r \in Reqs, NEW q \in RequestType, NEW n \in Nat
  PROVE  LET row == RowOf(r, q, n)
         IN  /\ row \in RowType /\ row.r = r /\ row.n = n /\ (row.samples \/ row.drafts = 0)
             /\ row.samples => q.computed + n = Planned(q) + row.drafts
             /\ ~row.samples => q.computed + n < Planned(q)
             /\ n > 0 /\ q.computed < Planned(q) => row.drafts < n
             /\ n > 0 /\ q.computed + 1 = Planned(q) => row.samples /\ n = 1 + row.drafts
<1> DEFINE c == q.computed
           l == Planned(q)
           row == RowOf(r, q, n)
           y == Most(0, (c + n) - l)
           x == c + n >= l
<1>1. c \in Nat /\ l \in Nat
  BY Fields
<1>2. row = [r |-> r, n |-> n, drafts |-> y, samples |-> x]
  BY DEF RowOf
<1>3. x \in BOOLEAN
  OBVIOUS
<1> HIDE DEF c, l, row
<1>4. y \in Nat /\ (c + n >= l => y = (c + n) - l) /\ (~(c + n >= l) => y = 0)
  BY <1>1 DEF Most
<1> HIDE DEF y, x
<1>5. row \in RowType /\ row.r = r /\ row.n = n /\ row.drafts = y /\ row.samples = x
  BY <1>2, <1>3, <1>4 DEF RowType
<1>6. x <=> c + n >= l
  BY DEF x
<1>7. (x => c + n = l + y) /\ (~x => c + n < l /\ y = 0) /\ (n > 0 /\ c < l => y < n)
      /\ (n > 0 /\ c + 1 = l => x /\ n = 1 + y)
  BY <1>1, <1>4, <1>6
<1> QED  BY <1>5, <1>7 DEF c, l, row

LEMMA RowForIs ==
  ASSUME NEW r \in Reqs, req[r] \in RequestType, NEW n \in Nat, NEW spec \in Nat,
         req[r].computed + n <= Planned(req[r]) + spec
  PROVE  RowFor(r, n, spec) = RowOf(r, req[r], n)
<1> DEFINE c == req[r].computed
           l == Planned(req[r])
           past == c + n - l
<1>1. c \in Nat /\ l \in Nat /\ c + n <= l + spec
  BY Fields
<1>2. /\ RowFor(r, n, spec) = [r |-> r, n |-> n, drafts |-> Least(spec, Most(0, past)),
                               samples |-> past >= 0]
      /\ RowOf(r, req[r], n) = [r |-> r, n |-> n, drafts |-> Most(0, past), samples |-> c + n >= l]
  <2>1. RowFor(r, n, spec) = [r |-> r, n |-> n, drafts |-> Least(spec, Most(0, past)),
                              samples |-> past >= 0]
    BY DEF RowFor
  <2>2. RowOf(r, req[r], n)
          = [r |-> r, n |-> n, drafts |-> Most(0, past), samples |-> c + n >= l]
    <3>1. RowOf(r, req[r], n) = [r |-> r, n |-> n, drafts |-> Most(0, (c + n) - l),
                                 samples |-> c + n >= l]
      BY DEF RowOf
    <3>2. (c + n) - l = past
      <4> HIDE DEF c, l
      <4> QED  BY <1>1
    <3> QED  BY <3>1, <3>2
  <2> QED  BY <2>1, <2>2
<1> HIDE DEF c, l
<1>3. Least(spec, Most(0, past)) = Most(0, past) /\ ((past >= 0) <=> (c + n >= l))
  BY <1>1 DEF Least, Most
<1>4. (past >= 0) = (c + n >= l)
  BY <1>3
<1> QED  BY <1>2, <1>3, <1>4

\* A step has passed.
LEMMA RestedFacts ==
  ASSUME NEW q \in RequestType
  PROVE  LET p == Rested(q)
         IN  /\ p \in RequestType /\ p.status = q.status /\ p.text = q.text /\ p.kv = q.kv
             /\ p.computed = q.computed /\ p.in_flight = q.in_flight /\ p.stale = q.stale
             /\ p.placeholders = q.placeholders /\ p.turn = q.turn /\ p.updates = q.updates
             /\ (Held(q) => Held(p)) /\ Planned(p) = Planned(q)
<1> DEFINE p == Rested(q)
           l == Most(0, q.cooldown - 1)
<1>1. l \in Nat
  BY Fields DEF Most
<1>2. p = [q EXCEPT !.cooldown = l]
  BY DEF Rested, RequestType
<1> HIDE DEF l, p
<1>3. /\ p \in RequestType /\ p.status = q.status /\ p.text = q.text /\ p.kv = q.kv
      /\ p.computed = q.computed /\ p.in_flight = q.in_flight /\ p.stale = q.stale
      /\ p.placeholders = q.placeholders /\ p.turn = q.turn /\ p.updates = q.updates
  BY <1>1, <1>2 DEF RequestType
<1>4. (Held(q) => Held(p)) /\ Planned(p) = Planned(q)
  BY <1>3 DEF Held, Planned
<1> QED  BY <1>3, <1>4 DEF p

\* A row is on its way.
LEMMA ScheduledFacts ==
  ASSUME NEW q \in RequestType, NEW row \in RowType
  PROVE  LET p == Scheduled(Rested(q), row)
         IN  /\ p \in RequestType /\ p.status = q.status /\ p.text = q.text
             /\ p.computed = q.computed + row.n /\ p.in_flight = q.in_flight + row.n
             /\ p.stale = q.stale /\ p.turn = q.turn /\ p.updates = q.updates
             /\ p.placeholders = q.placeholders + Weight(row, "planned")
             /\ (Held(q) => Held(p))
<1> DEFINE z == Rested(q)
           p == Scheduled(z, row)
<1>1. /\ z \in RequestType /\ z.status = q.status /\ z.text = q.text /\ z.kv = q.kv
      /\ z.computed = q.computed /\ z.in_flight = q.in_flight /\ z.stale = q.stale
      /\ z.placeholders = q.placeholders /\ z.turn = q.turn /\ z.updates = q.updates
  BY RestedFacts
<1>2. /\ row.n \in Nat /\ row.drafts \in Nat /\ row.samples \in BOOLEAN
      /\ Weight(row, "planned") = IF row.samples THEN 1 + row.drafts ELSE 0
  BY DEF RowType, Weight
<1>3. /\ q.computed \in Nat /\ q.in_flight \in Nat /\ q.placeholders \in Nat /\ q.stale \in Nat
      /\ NumSpec \in Nat /\ PPSize - 1 \in Nat
  BY Fields, SessionAssumption
<1> DEFINE moved == [z EXCEPT !.computed = @ + row.n, !.in_flight = @ + row.n,
                              !.chunk = ~row.samples]
<1>4. p = IF row.samples
          THEN [moved EXCEPT !.placeholders = @ + 1 + row.drafts, !.spec = NumSpec,
                             !.cooldown = PPSize - 1]
          ELSE moved
  BY DEF Scheduled
<1> HIDE DEF z, p
<1>5. /\ moved \in RequestType /\ moved.status = q.status /\ moved.text = q.text
      /\ moved.kv = q.kv /\ moved.computed = q.computed + row.n
      /\ moved.in_flight = q.in_flight + row.n /\ moved.stale = q.stale /\ moved.turn = q.turn
      /\ moved.updates = q.updates /\ moved.placeholders = q.placeholders
  <2>1. z.computed + row.n \in Nat /\ z.in_flight + row.n \in Nat /\ (~row.samples) \in BOOLEAN
    BY <1>1, <1>2, <1>3
  <2> QED  BY <1>1, <2>1 DEF RequestType
<1> HIDE DEF moved
<1>6. /\ p \in RequestType /\ p.status = q.status /\ p.text = q.text /\ p.kv = q.kv
      /\ p.computed = q.computed + row.n /\ p.in_flight = q.in_flight + row.n
      /\ p.stale = q.stale /\ p.turn = q.turn /\ p.updates = q.updates
      /\ p.placeholders = q.placeholders + Weight(row, "planned")
  <2>1. CASE row.samples
    <3>1. p = [moved EXCEPT !.placeholders = @ + 1 + row.drafts, !.spec = NumSpec,
                            !.cooldown = PPSize - 1]
      BY <1>4, <2>1
    <3>2. moved.placeholders + 1 + row.drafts \in Nat
          /\ moved.placeholders + 1 + row.drafts = q.placeholders + Weight(row, "planned")
      BY <1>2, <1>3, <1>5, <2>1
    <3> QED  BY <1>3, <1>5, <3>1, <3>2 DEF RequestType
  <2>2. CASE ~row.samples
    <3>1. p = moved /\ q.placeholders = q.placeholders + Weight(row, "planned")
      BY <1>2, <1>3, <1>4, <2>2
    <3> QED  BY <1>5, <3>1
  <2> QED  BY <2>1, <2>2
<1>7. Held(q) => Held(p)
  <2> HAVE Held(q)
  <2>1. Len(q.kv) \in Nat /\ Len(q.kv) + q.in_flight = q.computed + q.stale
    BY Fields DEF Held
  <2>2. Len(q.kv) + (q.in_flight + row.n) = (q.computed + row.n) + q.stale
    <3> DEFINE k == Len(q.kv)
               g == q.in_flight
               c == q.computed
               w == row.n
               z0 == q.stale
    <3>1. /\ k \in Nat /\ g \in Nat /\ c \in Nat /\ w \in Nat /\ z0 \in Nat /\ k + g = c + z0
      BY <1>2, <1>3, <2>1
    <3> HIDE DEF k, g, c, w, z0
    <3>2. k + (g + w) = (c + w) + z0
      BY <3>1
    <3> QED  BY <3>2 DEF k, g, c, w, z0
  <2> QED  BY <1>6, <2>2 DEF Held
<1> QED  BY <1>6, <1>7 DEF p, z

LEMMA PreemptedFacts ==
  ASSUME NEW q \in RequestType, Held(q)
  PROVE  LET p == Preempted(q)
         IN  /\ p \in RequestType /\ Held(p) /\ p.status = "PREEMPTED" /\ p.text = q.text
             /\ p.computed < Len(p.text) /\ p.in_flight = q.in_flight /\ p.stale = p.in_flight
             /\ p.placeholders = 0 /\ p.turn = q.turn /\ p.updates = q.updates
<1> DEFINE p == Preempted(q)
<1>1. q.in_flight \in Nat /\ q.text \in Seq(Token) /\ Len(q.text) > 0 /\ Len(q.text) \in Nat
  BY Fields DEF Held
<1>2. /\ p \in RequestType /\ p.status = "PREEMPTED" /\ p.text = q.text /\ p.computed = 0
      /\ p.kv = <<>> /\ p.in_flight = q.in_flight /\ p.stale = q.in_flight /\ p.turn = q.turn
      /\ p.updates = q.updates /\ p.placeholders = 0
  <2>1. <<>> \in Seq(Token) /\ 0 \in Nat /\ "PREEMPTED" \in Statuses
    BY DEF Statuses
  <2> QED  BY <1>1, <2>1 DEF Preempted, RequestType
<1> HIDE DEF p
<1>3. Len(p.kv) = 0 /\ 1 .. 0 = {}
  BY <1>2
<1>4. Len(p.kv) + p.in_flight = p.computed + p.stale /\ Len(p.kv) <= Len(p.text)
  BY <1>1, <1>2, <1>3
<1>5. Held(p)
  BY <1>1, <1>2, <1>3, <1>4 DEF Held
<1> QED  BY <1>1, <1>2, <1>5 DEF p

\* A request is admitted once nothing of its old run is in flight: it keeps its KV slots.
LEMMA AdmittedFacts ==
  ASSUME NEW q \in RequestType, Held(q), q.stale = 0, q.in_flight = 0
  PROVE  Admitted(q) = [q EXCEPT !.status = "RUNNING"]
<1>1. q.kv \in Seq(Token) /\ q.computed \in Nat /\ Len(q.kv) = q.computed
  BY Fields DEF Held
<1>2. SubSeq(q.kv, 1, q.computed) = q.kv
  <2> DEFINE h == q.kv
             g == SubSeq(h, 1, q.computed)
  <2>1. h \in Seq(Token) /\ q.computed \in 0 .. Len(h) /\ q.computed = Len(h)
    BY <1>1
  <2> HIDE DEF h
  <2>2. g \in Seq(Token) /\ Len(g) = q.computed /\ \A i \in 1 .. q.computed : g[i] = h[i]
    BY <2>1, StartFacts
  <2> HIDE DEF g
  <2>3. g = h
    BY <2>1, <2>2, SameSeq
  <2> QED  BY <2>3 DEF g, h
<1> QED  BY <1>2 DEF Admitted, RequestType

----------------------------------------------------------------------------
(* The input of a session.                                                 *)

LEMMA QueueMore ==
  ASSUME NEW u \in Seq(Nat), NEW t \in Nat, NEW k \in Int, Queue(u, t, k),
         \A i \in DOMAIN u : u[i] # End
  PROVE  /\ t + k + 1 \in Nat
         /\ Append(u, t + k + 1) \in Seq(Nat) /\ Queue(Append(u, t + k + 1), t, k + 1)
         /\ Append(u, End) \in Seq(Nat) /\ Queue(Append(u, End), t, k)
<1>1. /\ k >= 0 /\ (Len(u) = k \/ Len(u) = k + 1)
      /\ (\A i \in 1 .. k : u[i] = t + i) /\ (Len(u) = k + 1 => u[k + 1] = End)
  BY DEF Queue
<1>2. Len(u) = k
  <2>1. DOMAIN u = 1 .. Len(u)
    BY LenProperties
  <2>2. Len(u) = k + 1 => k + 1 \in DOMAIN u
    BY <1>1, <2>1
  <2> QED  BY <1>1, <2>2
<1>3. ASSUME NEW x \in Nat
      PROVE  /\ Append(u, x) \in Seq(Nat) /\ Len(Append(u, x)) = k + 1 /\ Append(u, x)[k + 1] = x
             /\ \A i \in 1 .. k : Append(u, x)[i] = t + i
  <2>1. /\ Append(u, x) \in Seq(Nat) /\ Len(Append(u, x)) = Len(u) + 1
        /\ Append(u, x)[Len(u) + 1] = x /\ \A i \in 1 .. Len(u) : Append(u, x)[i] = u[i]
    BY AppendFacts
  <2> QED  BY <1>1, <1>2, <2>1
<1>4. t + k + 1 \in Nat /\ End \in Nat
  BY <1>1 DEF End
<1>5. Queue(Append(u, t + k + 1), t, k + 1)
  <2> DEFINE v == Append(u, t + k + 1)
  <2>1. Len(v) = k + 1 /\ v[k + 1] = t + k + 1 /\ \A i \in 1 .. k : v[i] = t + i
    BY <1>3, <1>4
  <2> HIDE DEF v
  <2>2. \A i \in 1 .. k + 1 : i \in 1 .. k \/ i = k + 1
    BY <1>1
  <2>3. \A i \in 1 .. k + 1 : v[i] = t + i
    <3>1. t + k + 1 = t + (k + 1)
      OBVIOUS
    <3> QED  BY <2>1, <2>2, <3>1
  <2>4. k + 1 >= 0 /\ Len(v) # (k + 1) + 1
    BY <1>1, <2>1
  <2> QED  BY <2>1, <2>3, <2>4 DEF Queue, v
<1>6. Queue(Append(u, End), t, k)
  <2> DEFINE v == Append(u, End)
  <2>1. Len(v) = k + 1 /\ v[k + 1] = End /\ \A i \in 1 .. k : v[i] = t + i
    BY <1>3, <1>4
  <2> HIDE DEF v
  <2> QED  BY <1>1, <2>1 DEF Queue, v
<1> QED  BY <1>3, <1>4, <1>5, <1>6

LEMMA QueueNext ==
  ASSUME NEW u \in Seq(Nat), NEW t \in Nat, NEW k \in Int, Queue(u, t, k), u # <<>>, Head(u) # End
  PROVE  Head(u) = t + 1 /\ Tail(u) \in Seq(Nat) /\ Queue(Tail(u), t + 1, k - 1)
<1> DEFINE v == Tail(u)
           h == Head(u)
<1>1. /\ k >= 0 /\ (Len(u) = k \/ Len(u) = k + 1)
      /\ (\A i \in 1 .. k : u[i] = t + i) /\ (Len(u) = k + 1 => u[k + 1] = End)
  BY DEF Queue
<1>2. /\ Len(u) \in Nat \ {0} /\ h = u[1] /\ v \in Seq(Nat) /\ Len(v) = Len(u) - 1
      /\ \A i \in 1 .. Len(u) - 1 : v[i] = u[i + 1]
  BY TailFacts
<1> HIDE DEF v, h
<1>3. k >= 1
  <2>1. k = 0 => h = End
    BY <1>1, <1>2
  <2> QED  BY <1>1, <2>1 DEF h
<1>4. h = t + 1
  <2>1. 1 \in 1 .. k
    BY <1>3
  <2> QED  BY <1>1, <1>2, <2>1
<1>5. ASSUME NEW i \in 1 .. k - 1 PROVE v[i] = (t + 1) + i
  <2>1. i + 1 \in 1 .. k /\ i \in 1 .. Len(u) - 1 /\ t + (i + 1) = (t + 1) + i
    BY <1>1, <1>2
  <2> QED  BY <1>1, <1>2, <2>1
<1>6. Len(v) = (k - 1) + 1 => v[(k - 1) + 1] = End
  <2> SUFFICES ASSUME Len(v) = (k - 1) + 1 PROVE v[(k - 1) + 1] = End
    OBVIOUS
  <2>1. Len(u) = k + 1 /\ (k - 1) + 1 = k /\ k \in 1 .. Len(u) - 1
    BY <1>1, <1>2, <1>3
  <2> QED  BY <1>1, <1>2, <2>1
<1>7. k - 1 >= 0 /\ (Len(v) = k - 1 \/ Len(v) = (k - 1) + 1)
  BY <1>1, <1>2, <1>3
<1>8. Queue(v, t + 1, k - 1)
  BY <1>5, <1>6, <1>7 DEF Queue
<1> QED  BY <1>2, <1>4, <1>8 DEF v, h

LEMMA QueueEmpty ==
  ASSUME NEW t \in Nat, NEW k \in Int
  PROVE  Queue(<<>>, t, k) <=> k = 0
<1>1. Len(<<>>) = 0 /\ 1 .. 0 = {}
  OBVIOUS
<1>2. Queue(<<>>, t, k) => k = 0
  BY <1>1 DEF Queue
<1>3. k = 0 => Queue(<<>>, t, k)
  BY <1>1 DEF Queue
<1> QED  BY <1>2, <1>3

LEMMA QueueHolds ==
  ASSUME NEW u \in Seq(Nat), NEW t \in Nat, NEW k \in Int, Queue(u, t, k)
  PROVE  Off(u, {End}) = [i \in 1 .. k |-> t + i]
<1> DEFINE w == [i \in 1 .. k |-> t + i]
<1>1. /\ k \in Nat /\ (Len(u) = k \/ Len(u) = k + 1)
      /\ (\A i \in 1 .. k : u[i] = t + i) /\ (Len(u) = k + 1 => u[k + 1] = End)
  BY DEF Queue
<1>2. w \in Seq(Nat) /\ Len(w) = k /\ \A i \in 1 .. k : w[i] = t + i /\ w[i] # End
  BY <1>1 DEF End
<1> HIDE DEF w
<1>3. Off(w, {End}) = w
  <2>1. Within(w) \cap {End} = {}
    <3>1. DOMAIN w = 1 .. k
      BY <1>2, LenProperties
    <3> QED  BY <1>2, <3>1 DEF Within
  <2> QED  BY <1>2, <2>1, OffNone
<1>4. CASE Len(u) = k
  <2>1. u = w
    BY <1>1, <1>2, <1>4, SameSeq
  <2> QED  BY <1>3, <2>1 DEF w
<1>5. CASE Len(u) = k + 1
  <2> DEFINE v == Append(w, End)
  <2>1. End \in Nat
    BY DEF End
  <2>2. v \in Seq(Nat) /\ Len(v) = k + 1 /\ v[k + 1] = End /\ \A i \in 1 .. k : v[i] = w[i]
    <3>1. /\ v \in Seq(Nat) /\ Len(v) = Len(w) + 1 /\ v[Len(w) + 1] = End
          /\ \A i \in 1 .. Len(w) : v[i] = w[i]
      BY <1>2, <2>1, AppendFacts
    <3> QED  BY <1>2, <3>1
  <2>3. Off(v, {End}) = Off(w, {End})
    BY <1>2, <2>1, OffAppend
  <2> HIDE DEF v
  <2>4. \A i \in 1 .. k + 1 : i \in 1 .. k \/ i = k + 1
    BY <1>1
  <2>5. \A i \in 1 .. k + 1 : u[i] = v[i]
    BY <1>1, <1>2, <1>5, <2>2, <2>4
  <2>6. u = v
    BY <1>5, <2>2, <2>5, SameSeq
  <2> QED  BY <1>3, <2>3, <2>6 DEF w
<1> QED  BY <1>1, <1>4, <1>5

----------------------------------------------------------------------------
(* The steps.                                                              *)

LEMMA Empty ==
  /\ Once(<<>>) /\ Within(<<>>) = {} /\ Rows(<<>>)
  /\ Flying(<<>>, <<>>) = {} /\ FlightType(<<>>, <<>>)
<1>1. DOMAIN <<>> = {} /\ \A X : <<>> \in Seq(X)
  OBVIOUS
<1> QED  BY <1>1 DEF Once, Within, Rows, Flying, FlightType

LEMMA OneChanges ==
  ASSUME req \in [Reqs -> RequestType], NEW r \in Reqs, NEW q \in RequestType,
         req' = [req EXCEPT ![r] = q]
  PROVE  req' \in [Reqs -> RequestType] /\ req'[r] = q /\ \A x \in Reqs : x # r => req'[x] = req[x]
OBVIOUS

LEMMA AliveKept ==
  ASSUME NEW r, NEW q, NEW s, NEW t, NEW b, NEW u, NEW c, Alive(r, q, s, t, b),
         \A plan \in Counts : InFlight(u, c, r, plan) = InFlight(t, b, r, plan),
         Ended(t, b, r) => Ended(u, c, r)
  PROVE  Alive(r, q, s, u, c)
<1>1. /\ InFlight(u, c, r, "planned") = InFlight(t, b, r, "planned")
      /\ InFlight(u, c, r, "computed") = InFlight(t, b, r, "computed")
  BY DEF Counts
<1> QED  BY <1>1 DEF Alive, RanOK

LEMMA InitInv == Init => Inv
<1> SUFFICES ASSUME Init PROVE Inv
  OBVIOUS
<1>1. /\ pc = "idle" /\ running = <<>> /\ waiting = <<>> /\ skipped = <<>> /\ skip = <<>>
      /\ step = NoStep /\ batches = <<>> /\ todo = <<>> /\ stopped = NoneStopped
      /\ flush = {} /\ errors = {} /\ slots = {} /\ short = 0
      /\ num_waiting_for_streaming_input = 0 /\ sent = [r \in Reqs |-> 0]
  BY DEF Init
<1>2. req \in [Reqs -> RequestType] /\ \A r \in Reqs : req[r].status = "ABSENT"
  BY FreshFacts DEF Init
<1>3. NoStep.rows = <<>> /\ NoStep \in [rows : Seq(RowType), budget : Nat, decoding : BOOLEAN]
  BY DEF NoStep
<1>4. /\ NoneStopped \in [ran : SUBSET Reqs, preempted : SUBSET Reqs]
      /\ NoneStopped.ran = {} /\ NoneStopped.preempted = {}
  BY DEF NoneStopped
<1>5. Shape
  <2>1. sent \in [Reqs -> Nat] /\ short \in 0 .. MaxShort
    BY <1>1, SessionAssumption
  <2> QED  BY <1>1, <1>2, <1>3, <1>4, <2>1 DEF Shape
<1>6. Queued
  <2>1. \A r \in Reqs : ~Runs(r) /\ ~Waits(r)
    BY <1>1, <1>2, <1>4 DEF Runs, Waits, Live
  <2> QED  BY <1>1, <2>1, Empty DEF Queued
<1>7. NoneLeft /\ StoppedApart
  BY <1>1, <1>4 DEF NoneLeft, StoppedApart
<1>8. PausedCounted
  <2>1. PausedReqs = {}
    BY <1>2 DEF PausedReqs, Paused
  <2> QED  BY <1>1, <2>1, FS_EmptySet DEF PausedCounted
<1>9. StepOK /\ FlightOK
  <2>1. DOMAIN <<>> = {}
    OBVIOUS
  <2> QED  BY <1>1, <1>3, <2>1, Empty DEF StepOK, StepRows, FlightOK
<1>10. \A r \in Reqs : Alive(r, req[r], sent[r], todo, batches)
  BY <1>2 DEF Alive
<1> QED  BY <1>5, <1>6, <1>7, <1>8, <1>9, <1>10 DEF Inv, IInv

\* Parts of the invariant that a step leaves alone.
LEMMA QueuedSame ==
  ASSUME Queued, UNCHANGED queues,
         \A r \in Reqs : (Runs(r)' <=> Runs(r)) /\ (Waits(r)' <=> Waits(r))
  PROVE  Queued'
<1>1. running' = running /\ waiting' = waiting /\ skipped' = skipped /\ skip' = skip
  BY DEF queues
<1>2. {r \in Reqs : Runs(r)}' = {r \in Reqs : Runs(r)}
      /\ {r \in Reqs : Waits(r)}' = {r \in Reqs : Waits(r)}
  OBVIOUS
<1> QED  BY <1>1, <1>2 DEF Queued

LEMMA PausedSame ==
  ASSUME PausedCounted, UNCHANGED num_waiting_for_streaming_input,
         \A r \in Reqs : Paused(r)' <=> Paused(r)
  PROVE  PausedCounted'
<1>1. PausedReqs' = PausedReqs
  BY DEF PausedReqs
<1> QED  BY <1>1 DEF PausedCounted

LEMMA NoStepOK == ASSUME step' = NoStep PROVE StepOK'
<1>1. step'.rows = <<>> /\ DOMAIN <<>> = {}
  BY DEF NoStep
<1> QED  BY <1>1, Empty DEF StepOK, StepRows

LEMMA FlyingRows ==
  ASSUME NEW t, NEW b, FlightType(t, b)
  PROVE  \A row \in Flying(t, b) : row \in RowType /\ row.r \in Reqs
<1>1. \A row \in Within(t) : row \in RowType
  BY RowFields DEF Within, FlightType
<1>2. \A j \in DOMAIN b : \A row \in Within(b[j]) : row \in RowType
  <2>1. \A j \in DOMAIN b : b[j] \in Seq(RowType)
    BY LoadIs DEF Counts
  <2> QED  BY <2>1, RowFields DEF Within
<1>3. \A row \in Flying(t, b) : row \in RowType
  BY <1>1, <1>2 DEF Flying
<1> QED  BY <1>3 DEF RowType

LEMMA FlightSame ==
  ASSUME FlightOK, UNCHANGED <<todo, batches>>, todo \in Seq(RowType),
         batches \in Seq(Seq(RowType)),
         \A r \in Reqs : req[r].status # "ABSENT" => req'[r].status # "ABSENT"
  PROVE  FlightOK'
<1>1. \A row \in Flying(todo, batches) : row.r \in Reqs
  BY FlyingRows DEF FlightType, FlightOK
<1>2. todo' = todo /\ batches' = batches
  OBVIOUS
<1> QED  BY <1>1, <1>2 DEF FlightOK

LEMMA PausedFinite == Queued /\ Shape => IsFiniteSet(PausedReqs)
<1> SUFFICES ASSUME Queued, Shape PROVE IsFiniteSet(PausedReqs)
  OBVIOUS
<1>1. /\ IsFiniteSet(Within(waiting)) /\ IsFiniteSet(Within(skipped)) /\ IsFiniteSet(Within(skip))
  BY LengthIs DEF Queued, Shape
<1>2. IsFiniteSet(Within(waiting) \cup Within(skipped))
  BY <1>1, FS_Union
<1>3. IsFiniteSet((Within(waiting) \cup Within(skipped)) \cup Within(skip))
  BY <1>1, <1>2, FS_Union
<1>4. PausedReqs \subseteq (Within(waiting) \cup Within(skipped)) \cup Within(skip)
  BY DEF Queued, PausedReqs, Paused, Waits, Live
<1> QED  BY <1>3, <1>4, FS_Subset

LEMMA QueuedEnqueue ==
  ASSUME Queued, Shape, NEW r \in Reqs, NEW status, Enqueue(r, status), UNCHANGED <<running, skip>>,
         ~Waits(r), Waits(r)', \A x \in Reqs : x # r => (Waits(x)' <=> Waits(x)),
         \A x \in Reqs : Runs(x)' <=> Runs(x)
  PROVE  Queued' /\ waiting' \in Seq(Reqs) /\ skipped' \in Seq(Reqs)
<1> DEFINE R == {x \in Reqs : Runs(x)}
           W == {x \in Reqs : Waits(x)}
<1>1. R' = R /\ W' = W \cup {r} /\ r \notin W
  OBVIOUS
<1>2. /\ Once(running) /\ Once(waiting) /\ Once(skipped) /\ Once(skip)
      /\ Within(running) = R /\ Within(waiting) \cup Within(skipped) \cup Within(skip) = W
      /\ Within(waiting) \cap Within(skipped) = {} /\ Within(waiting) \cap Within(skip) = {}
      /\ Within(skipped) \cap Within(skip) = {}
  BY DEF Queued
<1>3. waiting \in Seq(Reqs) /\ skipped \in Seq(Reqs)
  BY DEF Shape
<1>4. running' = running /\ skip' = skip
  OBVIOUS
<1> SUFFICES /\ Once(running') /\ Once(waiting') /\ Once(skipped') /\ Once(skip')
             /\ Within(running') = R'
             /\ Within(waiting') \cup Within(skipped') \cup Within(skip') = W'
             /\ Within(waiting') \cap Within(skipped') = {} /\ Within(waiting') \cap Within(skip') = {}
             /\ Within(skipped') \cap Within(skip') = {}
             /\ waiting' \in Seq(Reqs) /\ skipped' \in Seq(Reqs)
  BY DEF Queued
<1> HIDE DEF R, W
<1>5. r \notin Within(waiting) /\ r \notin Within(skipped) /\ r \notin Within(skip)
  BY <1>1, <1>2
<1>6. CASE Blocked(status)
  <2>1. waiting' = waiting /\ skipped' = Append(skipped, r)
    BY <1>6 DEF Enqueue
  <2>2. /\ skipped' \in Seq(Reqs) /\ Once(skipped') /\ Within(skipped') = Within(skipped) \cup {r}
    BY <1>2, <1>3, <1>5, <2>1, OnceAppend
  <2> QED  BY <1>1, <1>2, <1>3, <1>4, <1>5, <2>1, <2>2
<1>7. CASE ~Blocked(status)
  <2>1. skipped' = skipped /\ waiting' = Append(waiting, r)
    BY <1>7 DEF Enqueue
  <2>2. /\ waiting' \in Seq(Reqs) /\ Once(waiting') /\ Within(waiting') = Within(waiting) \cup {r}
    BY <1>2, <1>3, <1>5, <2>1, OnceAppend
  <2> QED  BY <1>1, <1>2, <1>3, <1>4, <1>5, <2>1, <2>2
<1> QED  BY <1>6, <1>7

\* What the steps of a client, between two calls, start from.
LEMMA Idle ==
  ASSUME Inv, pc = "idle"
  PROVE  /\ skip = <<>> /\ step = NoStep /\ todo = <<>> /\ stopped = NoneStopped
         /\ stopped.ran = {} /\ stopped.preempted = {} /\ Within(skip) = {} /\ Once(skip)
BY Empty DEF Inv, IInv, NoneLeft, NoneStopped

LEMMA Flight == Inv => FlightType(todo, batches)
BY DEF Inv, IInv, Shape, FlightOK, FlightType

LEMMA AddRequestInv ==
  ASSUME Inv, NEW r \in Reqs, AddRequest(r)
  PROVE  Inv'
<1> DEFINE status == IF r \in GrammarReqs THEN "WAITING_FOR_GRAMMAR" ELSE "WAITING"
           p == NewRequest(status)
<1>1. /\ pc = "idle" /\ req[r].status = "ABSENT" /\ req' = [req EXCEPT ![r] = p]
      /\ Enqueue(r, status) /\ sent' = [sent EXCEPT ![r] = 1] /\ pc' = pc
      /\ UNCHANGED <<running, skip>> /\ UNCHANGED num_waiting_for_streaming_input
      /\ step' = step /\ UNCHANGED <<todo, batches>> /\ stopped' = stopped
      /\ flush' = flush /\ errors' = errors /\ slots' = slots /\ short' = short
  BY DEF AddRequest
<1>2. status \in Statuses /\ status \in {"WAITING", "WAITING_FOR_GRAMMAR"}
  BY DEF Statuses
<1> HIDE DEF status
<1>3. /\ p \in RequestType /\ p.status = status /\ Held(p) /\ p.computed < Len(p.text)
      /\ p.turn = 1 /\ p.in_flight = 0 /\ p.stale = 0 /\ p.placeholders = 0
      /\ p.updates = <<>> /\ Off(p.text, Outs) = InputOf(1)
  BY <1>2, FreshFacts
<1> HIDE DEF p
<1>4. /\ req \in [Reqs -> RequestType] /\ sent \in [Reqs -> Nat] /\ Queued /\ Shape /\ StoppedApart
      /\ PausedCounted /\ FlightOK /\ todo \in Seq(RowType) /\ batches \in Seq(Seq(RowType))
      /\ \A x \in Reqs : Alive(x, req[x], sent[x], todo, batches)
  BY DEF Inv, IInv, Shape
<1>5. /\ req' \in [Reqs -> RequestType] /\ req'[r] = p
      /\ \A x \in Reqs : x # r => req'[x] = req[x]
  BY <1>1, <1>3, <1>4, OneChanges
<1>6. sent' \in [Reqs -> Nat] /\ sent'[r] = 1 /\ \A x \in Reqs : x # r => sent'[x] = sent[x]
  BY <1>1, <1>4
<1>7. /\ skip = <<>> /\ step = NoStep /\ todo = <<>> /\ stopped.ran = {} /\ stopped.preempted = {}
      /\ stopped = NoneStopped
  BY <1>1, Idle
<1>8. Queued' /\ waiting' \in Seq(Reqs) /\ skipped' \in Seq(Reqs)
  <2>1. ~Waits(r) /\ Waits(r)'
    BY <1>1, <1>2, <1>3, <1>5, <1>7 DEF Waits, Live
  <2>2. \A x \in Reqs : x # r => (Waits(x)' <=> Waits(x))
    BY <1>1, <1>5 DEF Waits, Live
  <2>3. \A x \in Reqs : Runs(x)' <=> Runs(x)
    BY <1>1, <1>2, <1>3, <1>5 DEF Runs
  <2> QED  BY <1>1, <1>4, <2>1, <2>2, <2>3, QueuedEnqueue
<1>9. Shape'
  BY <1>1, <1>4, <1>5, <1>6, <1>8 DEF Shape
<1>10. NoneLeft' /\ StoppedApart'
  BY <1>1, <1>7 DEF NoneLeft, StoppedApart
<1>11. PausedCounted'
  <2>1. \A x \in Reqs : Paused(x)' <=> Paused(x)
    BY <1>1, <1>2, <1>3, <1>5 DEF Paused
  <2> QED  BY <1>1, <1>4, <2>1, PausedSame
<1>12. StepOK'
  BY <1>1, <1>7, NoStepOK
<1>13. FlightOK'
  <2>1. \A x \in Reqs : req[x].status # "ABSENT" => req'[x].status # "ABSENT"
    BY <1>1, <1>5
  <2> QED  BY <1>1, <1>4, <2>1, FlightSame
<1>14. ASSUME NEW x \in Reqs PROVE Alive(x, req[x], sent[x], todo, batches)'
  <2>1. CASE x # r
    BY <1>1, <1>4, <1>5, <1>6, <2>1
  <2>2. CASE x = r
    <3>1. InFlight(todo, batches, r, "computed") = 0
      <4>1. \A row \in Flying(todo, batches) : row.r # r
        BY <1>1, <1>4 DEF FlightOK
      <4> QED  BY <4>1, Flight, StrangerInFlight DEF Counts
    <3>2. InputOK(r, p, 1)
      <4>1. Queue(<<>>, 1, 1 - 1)
        BY QueueEmpty
      <4> QED  BY <1>3, <4>1 DEF InputOK
    <3>3. WaitsOK(r, p) /\ PausedOK(r, p)
      BY <1>2, <1>3 DEF WaitsOK, PausedOK
    <3>4. Alive(r, p, 1, todo, batches)
      BY <1>2, <1>3, <3>1, <3>2, <3>3 DEF Alive
    <3> QED  BY <1>1, <1>5, <1>6, <2>2, <3>4
  <2> QED  BY <2>1, <2>2
<1> QED  BY <1>8, <1>9, <1>10, <1>11, <1>12, <1>13, <1>14 DEF Inv, IInv

\* Requests that are finished are counted no more.
LEMMA PausedGone ==
  ASSUME Queued, Shape, PausedCounted, NEW S \in SUBSET Reqs,
         num_waiting_for_streaming_input' = StillPaused(S),
         req' = [x \in Reqs |-> IF x \in S THEN Gone ELSE req[x]]
  PROVE  PausedCounted'
<1> DEFINE P == PausedReqs
           I == {x \in S : Paused(x)}
           D == P \ S
<1>1. IsFiniteSet(P)
  BY PausedFinite
<1>2. PausedReqs' = D
  <2>1. \A x \in Reqs : Paused(x)' <=> Paused(x) /\ x \notin S
    BY FreshFacts DEF Paused
  <2> QED  BY <2>1 DEF PausedReqs
<1>3. P = I \cup D /\ I \cap D = {} /\ I \subseteq P /\ D \subseteq P
  BY DEF PausedReqs
<1>4. num_waiting_for_streaming_input = Cardinality(P)
  BY DEF PausedCounted
<1>5. num_waiting_for_streaming_input' = Cardinality(P) - Cardinality(I)
  BY <1>4 DEF StillPaused
<1> HIDE DEF P, I, D
<1>6. IsFiniteSet(I) /\ IsFiniteSet(D)
  BY <1>1, <1>3, FS_Subset
<1>7. Cardinality(I \cup D) = Cardinality(I) + Cardinality(D) - Cardinality(I \cap D)
  BY <1>6, FS_Union
<1>8. Cardinality(I) \in Nat /\ Cardinality(D) \in Nat
  BY <1>6, FS_CardinalityType
<1>9. Cardinality(P) - Cardinality(I) = Cardinality(D)
  <2>1. Cardinality(I \cap D) = 0
    BY <1>3, FS_EmptySet
  <2>2. Cardinality(P) = Cardinality(I) + Cardinality(D) - 0
    BY <1>3, <1>7, <2>1
  <2> QED  BY <1>8, <2>2
<1> QED  BY <1>2, <1>5, <1>9 DEF PausedCounted

LEMMA FinishedInv ==
  ASSUME Inv, pc = "idle", NEW r \in Reqs, FinishRequests({r}),
         UNCHANGED <<pc, skip, step, batches, todo, stopped, errors, slots, sent, short>>
  PROVE  Inv'
<1>1. /\ req' = [x \in Reqs |-> IF x \in {r} THEN Gone ELSE req[x]]
      /\ running' = Off(running, {r}) /\ waiting' = Off(waiting, {r})
      /\ skipped' = Off(skipped, {r}) /\ flush' = flush \cup {r}
      /\ num_waiting_for_streaming_input' = StillPaused({r})
  BY DEF FinishRequests
<1>2. /\ pc' = pc /\ skip' = skip /\ step' = step /\ batches' = batches /\ todo' = todo
      /\ UNCHANGED <<todo, batches>>
      /\ stopped' = stopped /\ errors' = errors /\ slots' = slots /\ sent' = sent /\ short' = short
  OBVIOUS
<1>3. /\ req \in [Reqs -> RequestType] /\ Queued /\ Shape /\ PausedCounted /\ FlightOK
      /\ todo \in Seq(RowType) /\ batches \in Seq(Seq(RowType)) /\ running \in Seq(Reqs)
      /\ waiting \in Seq(Reqs) /\ skipped \in Seq(Reqs) /\ flush \subseteq Reqs
      /\ \A x \in Reqs : Alive(x, req[x], sent[x], todo, batches)
  BY DEF Inv, IInv, Shape
<1>4. /\ req' \in [Reqs -> RequestType] /\ req'[r].status = "FINISHED"
      /\ \A x \in Reqs : x # r => req'[x] = req[x]
  BY <1>1, <1>3, FreshFacts
<1>5. /\ skip = <<>> /\ step = NoStep /\ todo = <<>> /\ stopped.ran = {} /\ stopped.preempted = {}
      /\ stopped = NoneStopped /\ Within(skip) = {} /\ Once(skip)
  BY Idle
<1>6. /\ running' \in Seq(Reqs) /\ Within(running') = Within(running) \ {r}
      /\ Once(running) => Once(running')
  BY <1>1, <1>3, OffFacts
<1>7. /\ waiting' \in Seq(Reqs) /\ Within(waiting') = Within(waiting) \ {r}
      /\ Once(waiting) => Once(waiting')
  BY <1>1, <1>3, OffFacts
<1>8. /\ skipped' \in Seq(Reqs) /\ Within(skipped') = Within(skipped) \ {r}
      /\ Once(skipped) => Once(skipped')
  BY <1>1, <1>3, OffFacts
<1>9. Queued'
  <2>1. \A x \in Reqs : Runs(x)' <=> Runs(x) /\ x # r
    BY <1>2, <1>4, <1>5 DEF Runs
  <2>2. \A x \in Reqs : Waits(x)' <=> Waits(x) /\ x # r
    BY <1>2, <1>4, <1>5 DEF Waits, Live
  <2>3. {x \in Reqs : Runs(x)}' = {x \in Reqs : Runs(x)} \ {r}
        /\ {x \in Reqs : Waits(x)}' = {x \in Reqs : Waits(x)} \ {r}
    BY <2>1, <2>2
  <2> QED  BY <1>2, <1>3, <1>5, <1>6, <1>7, <1>8, <2>3 DEF Queued
<1>10. Shape'
  BY <1>1, <1>2, <1>3, <1>4, <1>6, <1>7, <1>8 DEF Shape
<1>11. NoneLeft' /\ StoppedApart'
  BY <1>2, <1>5 DEF NoneLeft, StoppedApart
<1>12. PausedCounted'
  BY <1>1, <1>3, PausedGone
<1>13. StepOK'
  BY <1>2, <1>5, NoStepOK
<1>14. FlightOK'
  <2>1. \A x \in Reqs : req[x].status # "ABSENT" => req'[x].status # "ABSENT"
    BY <1>4
  <2> QED  BY <1>2, <1>3, <2>1, FlightSame
<1>15. ASSUME NEW x \in Reqs PROVE Alive(x, req[x], sent[x], todo, batches)'
  <2>1. CASE x # r
    BY <1>2, <1>3, <1>4, <2>1
  <2>2. CASE x = r
    BY <1>4, <2>2 DEF Alive
  <2> QED  BY <2>1, <2>2
<1> QED  BY <1>9, <1>10, <1>11, <1>12, <1>13, <1>14, <1>15 DEF Inv, IInv

\* A step that gives one request another record and leaves the queues and the flight alone.
LEMMA OneInv ==
  ASSUME Inv, NEW r \in Reqs, NEW p \in RequestType, req' = [req EXCEPT ![r] = p],
         UNCHANGED <<pc, queues, step, batches, todo, stopped, flush, errors, slots, short>>,
         sent' \in [Reqs -> Nat], \A x \in Reqs : x # r => sent'[x] = sent[x],
         PausedCounted', StepOK',
         Live(r), p.status \notin {"ABSENT", "FINISHED"},
         p.status = "RUNNING" <=> req[r].status = "RUNNING",
         Alive(r, p, sent'[r], todo, batches)
  PROVE  Inv'
<1>1. /\ pc' = pc /\ UNCHANGED queues /\ step' = step /\ UNCHANGED <<todo, batches>>
      /\ running' = running /\ waiting' = waiting /\ skipped' = skipped /\ skip' = skip
      /\ stopped' = stopped /\ flush' = flush /\ errors' = errors /\ slots' = slots
      /\ short' = short
  BY DEF queues
<1>2. /\ req \in [Reqs -> RequestType] /\ Queued /\ Shape /\ FlightOK /\ NoneLeft /\ StoppedApart
      /\ todo \in Seq(RowType) /\ batches \in Seq(Seq(RowType))
      /\ \A x \in Reqs : Alive(x, req[x], sent[x], todo, batches)
  BY DEF Inv, IInv, Shape
<1>3. /\ req' \in [Reqs -> RequestType] /\ req'[r] = p
      /\ \A x \in Reqs : x # r => req'[x] = req[x]
  BY <1>2, OneChanges
<1>4. Shape'
  BY <1>1, <1>2, <1>3 DEF Shape
<1>5. Queued'
  <2>1. \A x \in Reqs : (Runs(x)' <=> Runs(x)) /\ (Waits(x)' <=> Waits(x))
    BY <1>1, <1>3 DEF Runs, Waits, Live
  <2> QED  BY <1>1, <1>2, <2>1, QueuedSame
<1>6. NoneLeft'
  BY <1>1, <1>2 DEF NoneLeft
<1>7. StoppedApart'
  <2>1. stopped.ran \subseteq Reqs /\ stopped.preempted \subseteq Reqs
    BY <1>2 DEF Shape
  <2>2. \A x \in Reqs : x \in stopped.ran => req'[x].status # "RUNNING"
    BY <1>2, <1>3 DEF StoppedApart
  <2>3. \A x \in Reqs : x \in stopped.preempted => req'[x].status = "FINISHED"
    BY <1>2, <1>3 DEF StoppedApart, Live
  <2> QED  BY <1>1, <2>1, <2>2, <2>3 DEF StoppedApart
<1>8. FlightOK'
  <2>1. \A x \in Reqs : req[x].status # "ABSENT" => req'[x].status # "ABSENT"
    BY <1>3
  <2> QED  BY <1>1, <1>2, <2>1, FlightSame
<1>9. \A x \in Reqs : Alive(x, req[x], sent[x], todo, batches)'
  BY <1>1, <1>2, <1>3
<1> QED  BY <1>4, <1>5, <1>6, <1>7, <1>8, <1>9 DEF Inv, IInv

LEMMA QueueUpdateInv ==
  ASSUME Inv, NEW r \in Reqs, QueueUpdate(r)
  PROVE  Inv'
<1> DEFINE q == req[r]
           s == sent[r]
<1>1. /\ pc = "idle" /\ Open(r) /\ ~Paused(r) /\ UNCHANGED num_waiting_for_streaming_input
      /\ UNCHANGED <<pc, queues, step, batches, todo, stopped, flush, errors, slots, short>>
  BY DEF QueueUpdate
<1>2. Live(r) /\ r \in Streams /\ \A i \in DOMAIN q.updates : q.updates[i] # End
  BY <1>1 DEF Open
<1>3. /\ req \in [Reqs -> RequestType] /\ sent \in [Reqs -> Nat] /\ PausedCounted
      /\ Alive(r, q, s, todo, batches)
  BY DEF Inv, IInv, Shape
<1>4. q \in RequestType /\ q.updates \in Seq(Nat) /\ q.turn \in Nat /\ s \in Nat
  BY <1>3, Fields
<1>5. q.status \notin {"ABSENT", "FINISHED"}
  BY <1>2 DEF Live
<1>6. /\ q.in_flight = InFlight(todo, batches, r, "computed") /\ Held(q) /\ InputOK(r, q, s)
      /\ (q.status = "RUNNING" => RanOK(r, q, todo, batches))
      /\ (q.status # "RUNNING" => WaitsOK(r, q))
  BY <1>3, <1>5 DEF Alive
<1>7. step = NoStep /\ step' = step
  BY <1>1, Idle
<1>8. StepOK'
  BY <1>7, NoStepOK
<1>9. PICK u \in Seq(Nat), n \in Nat :
        /\ req' = [req EXCEPT ![r].updates = u] /\ sent' = [sent EXCEPT ![r] = n]
        /\ Queue(u, q.turn, n - q.turn)
  <2> DEFINE t == q.turn
             k == s - t
  <2>1. Queue(q.updates, t, k) /\ k \in Int /\ t + k + 1 = s + 1 /\ (s + 1) - t = k + 1
    BY <1>4, <1>6 DEF InputOK
  <2> HIDE DEF t, k
  <2>2. /\ Append(q.updates, t + k + 1) \in Seq(Nat)
        /\ Queue(Append(q.updates, t + k + 1), t, k + 1)
        /\ Append(q.updates, End) \in Seq(Nat) /\ Queue(Append(q.updates, End), t, k)
    BY <1>2, <1>4, <2>1, QueueMore DEF t
  <2>3. CASE /\ req' = [req EXCEPT ![r].updates = Append(@, s + 1)]
             /\ sent' = [sent EXCEPT ![r] = @ + 1]
    <3>1. req' = [req EXCEPT ![r].updates = Append(q.updates, s + 1)]
      BY <1>3, <2>3
    <3>2. sent' = [sent EXCEPT ![r] = s + 1] /\ s + 1 \in Nat
      BY <1>3, <1>4, <2>3
    <3>3. Append(q.updates, s + 1) \in Seq(Nat) /\ Queue(Append(q.updates, s + 1), t, (s + 1) - t)
      BY <2>1, <2>2
    <3> QED  BY <3>1, <3>2, <3>3 DEF t
  <2>4. CASE req' = [req EXCEPT ![r].updates = Append(@, End)] /\ sent' = sent
    <3>1. req' = [req EXCEPT ![r].updates = Append(q.updates, End)]
      BY <1>3, <2>4
    <3>2. sent' = [sent EXCEPT ![r] = s]
      BY <1>3, <2>4
    <3>3. Append(q.updates, End) \in Seq(Nat) /\ Queue(Append(q.updates, End), t, s - t)
      BY <2>2 DEF k
    <3> QED  BY <1>4, <3>1, <3>2, <3>3 DEF t
  <2> QED  BY <2>3, <2>4 DEF QueueUpdate
<1> DEFINE p == [q EXCEPT !.updates = u]
<1>10. req' = [req EXCEPT ![r] = p]
  BY <1>3, <1>9
<1>11. /\ p \in RequestType /\ p.updates = u /\ p.status = q.status /\ p.text = q.text
       /\ p.computed = q.computed /\ p.in_flight = q.in_flight /\ p.stale = q.stale
       /\ p.turn = q.turn /\ p.kv = q.kv /\ p.placeholders = q.placeholders
       /\ Planned(p) = Planned(q)
  BY <1>4, <1>9 DEF RequestType, Planned
<1> HIDE DEF p
<1>12. sent' \in [Reqs -> Nat] /\ sent'[r] = n /\ \A x \in Reqs : x # r => sent'[x] = sent[x]
  BY <1>3, <1>9
<1>13. PausedCounted'
  <2>1. \A x \in Reqs : Paused(x)' <=> Paused(x)
    BY <1>3, <1>10, <1>11, OneChanges DEF Paused
  <2> QED  BY <1>1, <1>3, <2>1, PausedSame
<1>14. Alive(r, p, n, todo, batches)
  <2>1. InputOK(r, p, n)
    BY <1>2, <1>6, <1>9, <1>11 DEF InputOK
  <2>2. PausedOK(r, p)
    BY <1>1, <1>11 DEF PausedOK, Paused
  <2>3. Held(p)
    BY <1>6, <1>11 DEF Held
  <2>4. /\ (p.status = "RUNNING" => RanOK(r, p, todo, batches))
        /\ (p.status # "RUNNING" => WaitsOK(r, p))
    BY <1>6, <1>11 DEF RanOK, WaitsOK
  <2> QED  BY <1>6, <1>11, <2>1, <2>2, <2>3, <2>4 DEF Alive
<1> QED  BY <1>1, <1>2, <1>5, <1>8, <1>10, <1>11, <1>12, <1>13, <1>14, OneInv

LEMMA EndSessionInv ==
  ASSUME Inv, NEW r \in Reqs, EndSession(r) \/ Abort(r)
  PROVE  Inv'
<1>1. /\ pc = "idle" /\ FinishRequests({r})
      /\ UNCHANGED <<pc, skip, step, batches, todo, stopped, errors, slots, sent, short>>
  BY DEF EndSession, Abort
<1> QED  BY <1>1, FinishedInv

LEMMA ResumeSessionInv ==
  ASSUME Inv, NEW r \in Reqs, ResumeSession(r)
  PROVE  Inv'
<1> DEFINE q == req[r]
           s == sent[r]
           c == s + 1
           p == NextTurn(q, c)
<1>1. /\ pc = "idle" /\ Live(r) /\ r \in Streams /\ Paused(r)
      /\ sent' = [sent EXCEPT ![r] = @ + 1] /\ req' = [req EXCEPT ![r] = NextTurn(@, sent'[r])]
      /\ num_waiting_for_streaming_input' = num_waiting_for_streaming_input - 1
      /\ UNCHANGED <<pc, queues, step, batches, todo, stopped, flush, errors, slots, short>>
  BY DEF ResumeSession, Open
<1>2. /\ req \in [Reqs -> RequestType] /\ sent \in [Reqs -> Nat] /\ PausedCounted
      /\ Alive(r, q, s, todo, batches) /\ Queued /\ Shape
  BY DEF Inv, IInv, Shape
<1>3. /\ q \in RequestType /\ s \in Nat /\ q.status = "WAITING_FOR_STREAMING_REQ"
      /\ q.turn \in Nat
  BY <1>1, <1>2, Fields DEF Paused
<1>4. /\ q.in_flight = InFlight(todo, batches, r, "computed") /\ Held(q) /\ InputOK(r, q, s)
      /\ q.updates = <<>> /\ q.computed + 1 = Len(q.text) /\ q.text[Len(q.text)] \in Outs
      /\ q.in_flight = 0 /\ q.stale = 0 /\ q.placeholders = 0
  BY <1>1, <1>2, <1>3 DEF Alive, PausedOK, WaitsOK
<1>5. s = q.turn /\ Off(q.text, Outs) = InputOf(q.turn)
  <2>1. Queue(<<>>, q.turn, s - q.turn) /\ s - q.turn \in Int
    BY <1>3, <1>4 DEF InputOK
  <2>2. s - q.turn = 0
    BY <1>3, <2>1, QueueEmpty
  <2> QED  BY <1>3, <1>4, <2>2 DEF InputOK
<1>6. sent' \in [Reqs -> Nat] /\ sent'[r] = c /\ \A x \in Reqs : x # r => sent'[x] = sent[x]
  BY <1>1, <1>2
<1>7. req' = [req EXCEPT ![r] = p]
  BY <1>1, <1>2, <1>6
<1>8. /\ p \in RequestType /\ Held(p) /\ p.status = "WAITING"
      /\ p.computed < Len(p.text) /\ Off(p.text, Outs) = InputOf(c) /\ p.turn = c
      /\ p.in_flight = 0 /\ p.stale = 0 /\ p.updates = <<>> /\ p.placeholders = 0
  <2>1. c \in Nat /\ c = q.turn + 1
    BY <1>3, <1>5
  <2> HIDE DEF c, q
  <2> QED  BY <1>3, <1>4, <1>5, <2>1, NextTurnFacts
<1>9. c \in Nat /\ c > 0 /\ c - c = 0
  BY <1>3
<1> HIDE DEF p, c
<1>10. PausedCounted'
  <2>1. PausedReqs' = PausedReqs \ {r} /\ r \in PausedReqs
    <3>1. \A x \in Reqs : Paused(x)' <=> Paused(x) /\ x # r
      BY <1>2, <1>7, <1>8, OneChanges DEF Paused
    <3> QED  BY <1>1, <3>1 DEF PausedReqs
  <2>2. Cardinality(PausedReqs \ {r}) = Cardinality(PausedReqs) - 1
    <3>1. IsFiniteSet(PausedReqs)
      BY <1>2, PausedFinite
    <3> QED  BY <2>1, <3>1, FS_RemoveElement
  <2> QED  BY <1>1, <1>2, <2>1, <2>2 DEF PausedCounted
<1>11. StepOK'
  BY <1>1, Idle, NoStepOK
<1>12. Alive(r, p, c, todo, batches)
  <2>1. InputOK(r, p, c)
    BY <1>1, <1>8, <1>9, QueueEmpty DEF InputOK
  <2> QED  BY <1>4, <1>8, <2>1 DEF Alive, PausedOK, WaitsOK
<1> QED  BY <1>1, <1>3, <1>6, <1>7, <1>8, <1>10, <1>11, <1>12, OneInv

\* The rows of a step stand for requests whose text, plan and computed tokens stay.
LEMMA StepSame ==
  ASSUME StepOK, step' = step, step.rows \in Seq(RowType),
         \A x \in Reqs : req[x].status = "RUNNING" =>
                          /\ req'[x].status = "RUNNING" /\ req'[x].computed = req[x].computed
                          /\ req'[x].text = req[x].text
                          /\ req'[x].placeholders = req[x].placeholders
  PROVE  StepOK'
<1> DEFINE rows == step.rows
<1>1. StepRows(rows, req) /\ step'.rows = rows
  BY DEF StepOK
<1>2. \A i \in DOMAIN rows : rows[i].r \in Reqs
  BY RowFields
<1> HIDE DEF rows
<1>3. StepRows(rows, req')
  BY <1>1, <1>2 DEF StepRows, RowOf, Planned
<1> QED  BY <1>1, <1>3 DEF StepOK

LEMMA CompileGrammarInv ==
  ASSUME Inv, NEW r \in Reqs, CompileGrammar(r)
  PROVE  Inv'
<1> DEFINE q == req[r]
<1>1. PICK outcome \in {"compiled", "failed"} : req' = [req EXCEPT ![r].grammar = outcome]
  BY DEF CompileGrammar
<1> DEFINE p == [q EXCEPT !.grammar = outcome]
<1>2. /\ q.status = "WAITING_FOR_GRAMMAR" /\ step' = step /\ sent' = sent
      /\ UNCHANGED num_waiting_for_streaming_input
      /\ UNCHANGED <<pc, queues, step, batches, todo, stopped, flush, errors, slots, short>>
  BY DEF CompileGrammar
<1>3. /\ req \in [Reqs -> RequestType] /\ sent \in [Reqs -> Nat] /\ PausedCounted /\ StepOK
      /\ Alive(r, q, sent[r], todo, batches) /\ step.rows \in Seq(RowType)
  BY DEF Inv, IInv, Shape
<1>4. /\ p \in RequestType /\ p.status = q.status /\ p.text = q.text
      /\ p.computed = q.computed /\ p.in_flight = q.in_flight /\ p.stale = q.stale
      /\ p.turn = q.turn /\ p.kv = q.kv /\ p.updates = q.updates
      /\ p.placeholders = q.placeholders
  BY <1>3 DEF RequestType
<1>5. req' = [req EXCEPT ![r] = p]
  BY <1>1, <1>3
<1> HIDE DEF p
<1>6. PausedCounted'
  <2>1. \A x \in Reqs : Paused(x)' <=> Paused(x)
    BY <1>3, <1>4, <1>5, OneChanges DEF Paused
  <2> QED  BY <1>2, <1>3, <2>1, PausedSame
<1>7. StepOK'
  <2>1. \A x \in Reqs : /\ req'[x].status = req[x].status /\ req'[x].computed = req[x].computed
                          /\ req'[x].text = req[x].text
                          /\ req'[x].placeholders = req[x].placeholders
    BY <1>3, <1>4, <1>5, OneChanges
  <2> QED  BY <1>2, <1>3, <2>1, StepSame
<1>8. Alive(r, p, sent[r], todo, batches)
  BY <1>2, <1>3, <1>4 DEF Alive, Held, InputOK, PausedOK, WaitsOK
<1> QED  BY <1>2, <1>3, <1>4, <1>5, <1>6, <1>7, <1>8, OneInv DEF Live

----------------------------------------------------------------------------
(* schedule().                                                             *)

LEMMA Between ==
  ASSUME Inv, pc # "update"
  PROVE  /\ todo = <<>> /\ stopped = NoneStopped /\ stopped.ran = {} /\ stopped.preempted = {}
         /\ \A x \in Reqs : /\ Runs(x) <=> req[x].status = "RUNNING"
                            /\ Waits(x) <=> Live(x) /\ req[x].status # "RUNNING"
BY DEF Inv, IInv, NoneLeft, NoneStopped, Runs, Waits

\* The candidate leaves its queue.
LEMMA PopFacts ==
  ASSUME Queued, Shape, Candidates # <<>>, PopCandidate
  PROVE  LET r == Head(Candidates)
         IN  /\ r \in Reqs /\ Waits(r) /\ r \notin Within(skip)
             /\ waiting' \in Seq(Reqs) /\ skipped' \in Seq(Reqs)
             /\ Once(waiting') /\ Once(skipped')
             /\ Within(waiting') \subseteq Within(waiting) /\ Within(skipped') \subseteq Within(skipped)
             /\ Within(waiting') \cup Within(skipped')
                  = (Within(waiting) \cup Within(skipped)) \ {r}
<1> DEFINE r == Head(Candidates)
<1>1. /\ Once(waiting) /\ Once(skipped)
      /\ Within(waiting) \cup Within(skipped) \cup Within(skip) = {x \in Reqs : Waits(x)}
      /\ Within(waiting) \cap Within(skipped) = {} /\ Within(waiting) \cap Within(skip) = {}
      /\ Within(skipped) \cap Within(skip) = {}
      /\ waiting \in Seq(Reqs) /\ skipped \in Seq(Reqs)
  BY DEF Queued, Shape
<1>2. CASE skipped # <<>>
  <2>1. r = Head(skipped) /\ skipped' = Tail(skipped) /\ waiting' = waiting
    BY <1>2 DEF Candidates, PopCandidate
  <2> HIDE DEF r
  <2>2. /\ skipped' \in Seq(Reqs) /\ r \in Within(skipped) /\ r \in Reqs /\ Once(skipped')
        /\ Within(skipped') = Within(skipped) \ {r}
    BY <1>1, <1>2, <2>1, OnceTail
  <2>3. Waits(r)
    BY <1>1, <2>2
  <2>4. r \notin Within(waiting) /\ r \notin Within(skip)
    BY <1>1, <2>2
  <2> QED  BY <1>1, <2>1, <2>2, <2>3, <2>4 DEF r
<1>3. CASE skipped = <<>>
  <2>1. r = Head(waiting) /\ waiting' = Tail(waiting) /\ skipped' = skipped /\ waiting # <<>>
    BY <1>3 DEF Candidates, PopCandidate
  <2> HIDE DEF r
  <2>2. /\ waiting' \in Seq(Reqs) /\ r \in Within(waiting) /\ r \in Reqs /\ Once(waiting')
        /\ Within(waiting') = Within(waiting) \ {r}
    BY <1>1, <2>1, OnceTail
  <2>3. Waits(r)
    BY <1>1, <2>2
  <2>4. r \notin Within(skipped) /\ r \notin Within(skip)
    BY <1>1, <2>2
  <2> QED  BY <1>1, <2>1, <2>2, <2>3, <2>4 DEF r
<1> QED  BY <1>2, <1>3

LEMMA SkipHeadInv ==
  ASSUME Inv, SkipHead
  PROVE  Inv'
<1> DEFINE r == Head(Candidates)
<1>1. /\ pc = "admit" /\ Candidates # <<>> /\ PopCandidate /\ skip' = <<r>> \o skip
      /\ errors' = IF req[r].status = "WAITING_FOR_GRAMMAR" /\ req[r].grammar = "failed"
                   THEN errors \cup {r} ELSE errors
      /\ pc' = pc /\ req' = req /\ running' = running /\ step' = step /\ batches' = batches
      /\ todo' = todo /\ stopped' = stopped /\ flush' = flush /\ slots' = slots /\ sent' = sent
      /\ short' = short /\ UNCHANGED num_waiting_for_streaming_input
      /\ UNCHANGED <<todo, batches>>
  BY DEF SkipHead, MayAdmit
<1>2. /\ Queued /\ Shape /\ StepOK /\ PausedCounted /\ FlightOK /\ NoneLeft /\ StoppedApart
      /\ todo \in Seq(RowType) /\ batches \in Seq(Seq(RowType)) /\ skip \in Seq(Reqs)
      /\ errors \subseteq Reqs
      /\ step.rows \in Seq(RowType) /\ \A x \in Reqs : Alive(x, req[x], sent[x], todo, batches)
  BY DEF Inv, IInv, Shape
<1>3. /\ r \in Reqs /\ Waits(r) /\ r \notin Within(skip)
      /\ waiting' \in Seq(Reqs) /\ skipped' \in Seq(Reqs)
      /\ Once(waiting') /\ Once(skipped')
      /\ Within(waiting') \subseteq Within(waiting) /\ Within(skipped') \subseteq Within(skipped)
      /\ Within(waiting') \cup Within(skipped') = (Within(waiting) \cup Within(skipped)) \ {r}
  BY <1>1, <1>2, PopFacts
<1> HIDE DEF r
<1>4. /\ skip' \in Seq(Reqs) /\ Within(skip') = Within(skip) \cup {r}
      /\ Once(skip) => Once(skip')
  BY <1>1, <1>2, <1>3, OnceFront
<1>5. Queued'
  <2>1. {x \in Reqs : Runs(x)}' = {x \in Reqs : Runs(x)}
        /\ {x \in Reqs : Waits(x)}' = {x \in Reqs : Waits(x)}
    BY <1>1 DEF Runs, Waits, Live
  <2>2. /\ Once(running) /\ Once(skip)
        /\ Within(running) = {x \in Reqs : Runs(x)}
        /\ Within(waiting) \cup Within(skipped) \cup Within(skip) = {x \in Reqs : Waits(x)}
        /\ Within(waiting) \cap Within(skipped) = {} /\ Within(waiting) \cap Within(skip) = {}
        /\ Within(skipped) \cap Within(skip) = {}
    BY <1>2 DEF Queued
  <2>3. /\ Within(waiting') \cap Within(skipped') = {} /\ Within(waiting') \cap Within(skip') = {}
        /\ Within(skipped') \cap Within(skip') = {}
    BY <1>3, <1>4, <2>2
  <2>4. Within(waiting') \cup Within(skipped') \cup Within(skip')
          = Within(waiting) \cup Within(skipped) \cup Within(skip)
    <3>1. r \in Within(waiting) \cup Within(skipped)
      BY <1>3, <2>2
    <3> QED  BY <1>3, <1>4, <3>1
  <2> QED  BY <1>1, <1>3, <1>4, <2>1, <2>2, <2>3, <2>4 DEF Queued
<1>6. Shape'
  <2>1. errors' \subseteq Reqs
    BY <1>1, <1>2, <1>3
  <2> QED  BY <1>1, <1>2, <1>3, <1>4, <2>1 DEF Shape
<1>7. NoneLeft' /\ StoppedApart'
  BY <1>1, <1>2 DEF NoneLeft, StoppedApart
<1>8. PausedCounted'
  BY <1>1, <1>2, PausedSame DEF Paused
<1>9. StepOK'
  BY <1>1, <1>2, StepSame
<1>10. FlightOK'
  BY <1>1, <1>2, FlightSame
<1>11. \A x \in Reqs : Alive(x, req[x], sent[x], todo, batches)'
  BY <1>1, <1>2
<1> QED  BY <1>5, <1>6, <1>7, <1>8, <1>9, <1>10, <1>11 DEF Inv, IInv

LEMMA RefuseHeadInv ==
  ASSUME Inv, RefuseHead
  PROVE  Inv'
<1> DEFINE r == Head(Candidates)
           q == req[r]
           p == [q EXCEPT !.status = IF Blocked(@) THEN "WAITING" ELSE @]
<1>1. /\ pc = "admit" /\ Candidates # <<>> /\ Ready(r) /\ pc' = "finish"
      /\ (short < MaxShort /\ short' = short + 1) \/ short' = short
      /\ req' = [req EXCEPT ![r].status = IF Blocked(@) THEN "WAITING" ELSE @]
      /\ step' = step /\ batches' = batches /\ UNCHANGED queues
      /\ running' = running /\ waiting' = waiting /\ skipped' = skipped /\ skip' = skip
      /\ todo' = todo /\ stopped' = stopped /\ flush' = flush /\ slots' = slots /\ sent' = sent
      /\ errors' = errors /\ UNCHANGED num_waiting_for_streaming_input
      /\ UNCHANGED <<todo, batches>>
  BY DEF RefuseHead, MayAdmit, queues
<1>2. /\ Queued /\ Shape /\ StepOK /\ PausedCounted /\ FlightOK /\ NoneLeft /\ StoppedApart
      /\ todo \in Seq(RowType) /\ batches \in Seq(Seq(RowType))
      /\ req \in [Reqs -> RequestType]
      /\ step.rows \in Seq(RowType) /\ \A x \in Reqs : Alive(x, req[x], sent[x], todo, batches)
  BY DEF Inv, IInv, Shape
<1>3. r \in Reqs /\ Waits(r)
  <2>1. CASE skipped # <<>>
    <3>1. r = Head(skipped) /\ skipped \in Seq(Reqs) /\ Once(skipped)
      BY <1>2, <2>1 DEF Candidates, Queued, Shape
    <3>2. r \in Within(skipped) /\ r \in Reqs
      BY <2>1, <3>1, OnceTail
    <3> QED  BY <1>2, <3>2 DEF Queued
  <2>2. CASE skipped = <<>>
    <3>1. r = Head(waiting) /\ waiting \in Seq(Reqs) /\ Once(waiting) /\ waiting # <<>>
      BY <1>1, <1>2, <2>2 DEF Candidates, Queued, Shape
    <3>2. r \in Within(waiting) /\ r \in Reqs
      BY <3>1, OnceTail
    <3> QED  BY <1>2, <3>2 DEF Queued
  <2> QED  BY <2>1, <2>2
<1> HIDE DEF r
<1>4. /\ p \in RequestType /\ p.text = q.text
      /\ p.computed = q.computed /\ p.in_flight = q.in_flight /\ p.stale = q.stale
      /\ p.turn = q.turn /\ p.kv = q.kv /\ p.updates = q.updates
      /\ p.placeholders = q.placeholders
      /\ q.status \in {"WAITING", "PREEMPTED", "WAITING_FOR_GRAMMAR"}
      /\ p.status \in {"WAITING", "PREEMPTED"}
  <2>1. q \in RequestType
    BY <1>2, <1>3
  <2>2. q.status \in {"WAITING", "PREEMPTED", "WAITING_FOR_GRAMMAR"}
    BY <1>1 DEF Ready
  <2>3. (IF Blocked(q.status) THEN "WAITING" ELSE q.status) \in {"WAITING", "PREEMPTED"}
    BY <2>2 DEF Blocked
  <2> QED  BY <2>1, <2>2, <2>3 DEF RequestType, Statuses
<1>5. req' = [req EXCEPT ![r] = p]
  BY <1>1, <1>2, <1>3
<1> HIDE DEF p
<1>6. req' \in [Reqs -> RequestType] /\ req'[r] = p /\ \A x \in Reqs : x # r => req'[x] = req[x]
  BY <1>2, <1>3, <1>4, <1>5, OneChanges
<1>7. Queued'
  <2>1. \A x \in Reqs : (Runs(x)' <=> Runs(x)) /\ (Waits(x)' <=> Waits(x))
    BY <1>1, <1>4, <1>6 DEF Runs, Waits, Live
  <2> QED  BY <1>1, <1>2, <2>1, QueuedSame
<1>8. Shape'
  <2>1. short' \in 0 .. MaxShort
    <3>1. short \in 0 .. MaxShort /\ MaxShort \in Nat
      BY <1>2, SessionAssumption DEF Shape
    <3> QED  BY <1>1, <3>1
  <2> QED  BY <1>1, <1>2, <1>6, <2>1 DEF Shape
<1>9. NoneLeft' /\ StoppedApart'
  BY <1>1, Between DEF NoneLeft, StoppedApart
<1>10. PausedCounted'
  <2>1. \A x \in Reqs : Paused(x)' <=> Paused(x)
    BY <1>4, <1>6 DEF Paused
  <2> QED  BY <1>1, <1>2, <2>1, PausedSame
<1>11. StepOK'
  <2>1. \A x \in Reqs : req[x].status = "RUNNING" => req'[x] = req[x]
    BY <1>4, <1>6
  <2> QED  BY <1>1, <1>2, <2>1, StepSame
<1>12. FlightOK'
  <2>1. \A x \in Reqs : req[x].status # "ABSENT" => req'[x].status # "ABSENT"
    BY <1>4, <1>6
  <2> QED  BY <1>1, <1>2, <2>1, FlightSame
<1>13. ASSUME NEW x \in Reqs PROVE Alive(x, req[x], sent[x], todo, batches)'
  <2>1. CASE x # r
    BY <1>1, <1>2, <1>6, <2>1
  <2>2. CASE x = r
    <3>1. Alive(r, p, sent[r], todo, batches)
      <4>1. Alive(r, q, sent[r], todo, batches)
        BY <1>2, <1>3
      <4> QED  BY <1>4, <4>1 DEF Alive, Held, InputOK, PausedOK, WaitsOK
    <3> QED  BY <1>1, <1>6, <2>2, <3>1
  <2> QED  BY <2>1, <2>2
<1> QED  BY <1>7, <1>8, <1>9, <1>10, <1>11, <1>12, <1>13 DEF Inv, IInv

\* A row for a request that has none yet joins the step.
LEMMA RowsNext ==
  ASSUME NEW q \in Seq(RowType), Rows(q), NEW row \in RowType, row.drafts < row.n,
         row.samples \/ row.drafts = 0, ~In(q, row.r)
  PROVE  /\ Append(q, row) \in Seq(RowType) /\ Rows(Append(q, row))
         /\ \A i \in DOMAIN Append(q, row) : (i \in DOMAIN q /\ Append(q, row)[i] = q[i])
                                             \/ Append(q, row)[i] = row
<1> DEFINE u == Append(q, row)
           l == Len(q)
<1>1. /\ u \in Seq(RowType) /\ Len(u) = l + 1 /\ u[l + 1] = row
      /\ \A i \in 1 .. l : u[i] = q[i]
  BY AppendFacts
<1>2. DOMAIN q = 1 .. l /\ l \in Nat /\ DOMAIN u = 1 .. l + 1
  BY <1>1, LenProperties
<1> HIDE DEF u, l
<1>3. ASSUME NEW i \in DOMAIN u
      PROVE  (i \in DOMAIN q /\ u[i] = q[i]) \/ (i = l + 1 /\ u[i] = row)
  BY <1>1, <1>2
<1>4. ASSUME NEW i \in DOMAIN u, NEW j \in DOMAIN u, u[i].r = u[j].r PROVE i = j
  BY <1>3, <1>4 DEF Rows, In
<1>5. ASSUME NEW i \in DOMAIN u PROVE u[i].drafts < u[i].n /\ (u[i].samples \/ u[i].drafts = 0)
  <2>1. CASE i \in DOMAIN q /\ u[i] = q[i]
    BY <2>1 DEF Rows
  <2>2. CASE u[i] = row
    BY <2>2
  <2> QED  BY <1>3, <2>1, <2>2
<1>6. Rows(u)
  BY <1>4, <1>5 DEF Rows
<1> QED  BY <1>1, <1>3, <1>6 DEF u

LEMMA AdmitHeadInv ==
  ASSUME Inv, AdmitHead
  PROVE  Inv'
<1> DEFINE r == Head(Candidates)
           q == req[r]
           spec == IF PadNewDecode(q) THEN NumSpec ELSE 0
           n == Least(Len(q.text) - q.computed + spec, step.budget)
           p == [q EXCEPT !.status = "RUNNING"]
           rows == step.rows
           u == Append(rows, RowFor(r, n, spec))
<1>1. /\ pc = "admit" /\ Candidates # <<>> /\ PopCandidate /\ running' = Append(running, r)
      /\ Ready(r) /\ step.budget > 0 /\ n > spec
      /\ req' = [req EXCEPT ![r] = Admitted(@)]
      /\ step' = [step EXCEPT !.rows = Append(@, RowFor(r, n, spec)), !.budget = @ - n]
      /\ pc' = pc /\ skip' = skip /\ batches' = batches
      /\ todo' = todo /\ stopped' = stopped /\ flush' = flush /\ slots' = slots /\ sent' = sent
      /\ errors' = errors /\ UNCHANGED num_waiting_for_streaming_input
      /\ short' = short /\ UNCHANGED <<todo, batches>>
  BY DEF AdmitHead, MayAdmit
<1>2. /\ Queued /\ Shape /\ StepOK /\ PausedCounted /\ FlightOK /\ NoneLeft /\ StoppedApart
      /\ todo \in Seq(RowType) /\ batches \in Seq(Seq(RowType)) /\ skip \in Seq(Reqs)
      /\ req \in [Reqs -> RequestType] /\ running \in Seq(Reqs)
      /\ rows \in Seq(RowType) /\ step.budget \in Nat
      /\ step \in [rows : Seq(RowType), budget : Nat, decoding : BOOLEAN]
      /\ \A x \in Reqs : Alive(x, req[x], sent[x], todo, batches)
  BY DEF Inv, IInv, Shape
<1>3. /\ r \in Reqs /\ Waits(r) /\ r \notin Within(skip)
      /\ waiting' \in Seq(Reqs) /\ skipped' \in Seq(Reqs)
      /\ Once(waiting') /\ Once(skipped')
      /\ Within(waiting') \subseteq Within(waiting) /\ Within(skipped') \subseteq Within(skipped)
      /\ Within(waiting') \cup Within(skipped') = (Within(waiting) \cup Within(skipped)) \ {r}
  BY <1>1, <1>2, PopFacts
<1> HIDE DEF r
<1>4. /\ q \in RequestType /\ p \in RequestType /\ p.text = q.text
      /\ p.computed = q.computed /\ p.in_flight = q.in_flight /\ p.stale = q.stale
      /\ p.turn = q.turn /\ p.kv = q.kv /\ p.updates = q.updates
      /\ p.placeholders = q.placeholders
      /\ q.status \in {"WAITING", "PREEMPTED", "WAITING_FOR_GRAMMAR"}
      /\ q.stale = 0 /\ p.status = "RUNNING"
  <2>1. q \in RequestType
    BY <1>2, <1>3
  <2>2. q.status \in {"WAITING", "PREEMPTED", "WAITING_FOR_GRAMMAR"} /\ q.stale = 0
    BY <1>1 DEF Ready
  <2> QED  BY <2>1, <2>2 DEF RequestType, Statuses
<1>7. /\ Held(q) /\ InputOK(r, q, sent[r]) /\ q.in_flight = InFlight(todo, batches, r, "computed")
      /\ q.computed < Len(q.text) /\ q.in_flight = 0 /\ q.placeholders = 0
      /\ Planned(q) = Len(q.text)
  <2>1. Alive(r, q, sent[r], todo, batches)
    BY <1>2, <1>3
  <2>2. Len(q.text) \in Nat /\ Planned(q) = Len(q.text) + q.placeholders
    BY <1>4, Fields
  <2> HIDE DEF q
  <2>3. q.status # "RUNNING" /\ q.status \notin {"ABSENT", "FINISHED"}
    BY <1>4
  <2>4. /\ Held(q) /\ InputOK(r, q, sent[r]) /\ q.in_flight = InFlight(todo, batches, r, "computed")
        /\ WaitsOK(r, q)
    BY <2>1, <2>3 DEF Alive
  <2>5. q.stale = q.in_flight /\ q.placeholders = 0 /\ q.computed < Len(q.text)
    BY <2>4 DEF WaitsOK
  <2>6. q.in_flight = 0 /\ Planned(q) = Len(q.text)
    BY <1>4, <2>2, <2>5
  <2> QED  BY <2>4, <2>5, <2>6
<1>5. req' = [req EXCEPT ![r] = p]
  <2>1. Admitted(q) = p
    BY <1>4, <1>7, AdmittedFacts
  <2> QED  BY <1>1, <1>2, <1>3, <2>1
<1>z. Planned(p) = Planned(q)
  BY <1>4 DEF Planned
<1> HIDE DEF p
<1>6. req' \in [Reqs -> RequestType] /\ req'[r] = p /\ \A x \in Reqs : x # r => req'[x] = req[x]
  BY <1>2, <1>3, <1>4, <1>5, OneChanges
<1>8. InFlight(todo, batches, r, "planned") = 0 /\ Ended(todo, batches, r)
  BY <1>7, Flight, NoneInFlight
<1>9. /\ spec \in Nat /\ n \in Nat /\ n > 0 /\ step.budget - n \in Nat
      /\ q.computed + n <= Planned(q) + spec
  <2> DEFINE c == q.computed
             l == Len(q.text)
             b == step.budget
  <2>1. c \in Nat /\ l \in Nat /\ c < l /\ b \in Nat /\ b > 0 /\ n = Least(l - c + spec, b)
    BY <1>1, <1>2, <1>4, <1>7, Fields
  <2>2. spec \in Nat
    BY SessionAssumption
  <2> HIDE DEF c, l, b, n, spec
  <2>3. n = (IF l - c + spec < b THEN l - c + spec ELSE b)
    BY <2>1 DEF Least
  <2>4. n \in Nat /\ n > 0 /\ b - n \in Nat /\ c + n <= l + spec
    BY <2>1, <2>2, <2>3
  <2> QED  BY <1>7, <2>2, <2>4 DEF b, c, l
<1> DEFINE row == RowFor(r, n, spec)
<1>10. /\ row \in RowType /\ row.r = r /\ row.drafts < row.n /\ row.n = n
       /\ (row.samples \/ row.drafts = 0) /\ row = RowOf(r, q, n)
  <2> HIDE DEF n, spec
  <2>1. row = RowOf(r, q, n)
    BY <1>3, <1>4, <1>9, RowForIs
  <2> HIDE DEF row
  <2> QED  BY <1>3, <1>4, <1>7, <1>9, <2>1, RowOfFacts
<1>y. u = Append(rows, row)
  OBVIOUS
<1> HIDE DEF u, spec
<1> HIDE DEF n
<1>11. StepRows(rows, req) /\ \A i \in DOMAIN rows : rows[i].r \in Reqs
  BY <1>2, RowFields DEF StepOK
<1>12. Rows(rows) /\ ~In(rows, r)
  <2>1. Rows(rows) /\ \A i \in DOMAIN rows : req[rows[i].r].status = "RUNNING"
    BY <1>11 DEF StepRows
  <2> QED  BY <1>4, <2>1 DEF In
<1>13. /\ u \in Seq(RowType) /\ Rows(u)
       /\ \A i \in DOMAIN u : (i \in DOMAIN rows /\ u[i] = rows[i]) \/ u[i] = row
  <2> HIDE DEF row, rows
  <2>1. /\ Append(rows, row) \in Seq(RowType) /\ Rows(Append(rows, row))
        /\ \A i \in DOMAIN Append(rows, row) :
              (i \in DOMAIN rows /\ Append(rows, row)[i] = rows[i]) \/ Append(rows, row)[i] = row
    BY <1>2, <1>10, <1>12, RowsNext
  <2> QED  BY <1>y, <2>1
<1>14. /\ step'.rows = u
       /\ step' \in [rows : Seq(RowType), budget : Nat, decoding : BOOLEAN]
  <2>1. step' = [step EXCEPT !.rows = u, !.budget = step.budget - n]
    BY <1>1, <1>2, <1>y
  <2> QED  BY <1>2, <1>9, <1>13, <2>1
<1> HIDE DEF rows, row
<1>15. StepOK'
  <2>1. ASSUME NEW i \in DOMAIN u
        PROVE  LET x == u[i].r
               IN  /\ req'[x].status = "RUNNING" /\ req'[x].computed < Planned(req'[x])
                   /\ u[i] = RowOf(x, req'[x], u[i].n)
    <3>1. CASE i \in DOMAIN rows /\ u[i] = rows[i]
      <4> DEFINE x == u[i].r
      <4>1. /\ x \in Reqs /\ req[x].status = "RUNNING" /\ req[x].computed < Planned(req[x])
            /\ u[i] = RowOf(x, req[x], u[i].n)
        BY <1>11, <3>1 DEF StepRows
      <4>2. req'[x] = req[x]
        BY <1>4, <1>6, <4>1
      <4> QED  BY <4>1, <4>2
    <3>2. CASE u[i] = row
      <4>1. RowOf(r, p, n) = RowOf(r, q, n)
        BY <1>4, <1>z DEF RowOf
      <4> QED  BY <1>4, <1>6, <1>7, <1>10, <1>z, <3>2, <4>1
    <3> QED  BY <1>13, <3>1, <3>2
  <2>2. StepRows(u, req')
    BY <1>13, <2>1 DEF StepRows
  <2> QED  BY <1>14, <2>2 DEF StepOK
<1>16. /\ running' \in Seq(Reqs) /\ Within(running') = Within(running) \cup {r}
       /\ Once(running) /\ r \notin Within(running) => Once(running')
  BY <1>1, <1>2, <1>3, OnceAppend
<1>17. Queued'
  <2>1. /\ \A x \in Reqs : /\ Runs(x) <=> req[x].status = "RUNNING"
                          /\ Waits(x) <=> Live(x) /\ req[x].status # "RUNNING"
        /\ stopped.ran = {} /\ stopped.preempted = {}
    BY <1>1, Between
  <2>2. {x \in Reqs : Runs(x)}' = {x \in Reqs : Runs(x)} \cup {r} /\ ~Runs(r)
    <3>1. \A x \in Reqs : Runs(x)' <=> Runs(x) \/ x = r
      BY <1>1, <1>4, <1>6, <2>1 DEF Runs
    <3>2. ~Runs(r)
      <4>1. req[r].status # "RUNNING" /\ r \notin stopped.ran
        BY <1>4, <2>1
      <4> QED  BY <4>1 DEF Runs
    <3> QED  BY <1>3, <3>1, <3>2
  <2>3. {x \in Reqs : Waits(x)}' = {x \in Reqs : Waits(x)} \ {r}
    <3>1. \A x \in Reqs : Waits(x)' <=> Waits(x) /\ x # r
      BY <1>1, <1>4, <1>6, <2>1 DEF Waits, Live
    <3> QED  BY <3>1
  <2>4. /\ Once(running) /\ Once(skip)
        /\ Within(running) = {x \in Reqs : Runs(x)}
        /\ Within(waiting) \cup Within(skipped) \cup Within(skip) = {x \in Reqs : Waits(x)}
        /\ Within(waiting) \cap Within(skipped) = {} /\ Within(waiting) \cap Within(skip) = {}
        /\ Within(skipped) \cap Within(skip) = {}
    BY <1>2 DEF Queued
  <2>5. /\ Within(waiting') \cap Within(skipped') = {} /\ Within(waiting') \cap Within(skip) = {}
        /\ Within(skipped') \cap Within(skip) = {}
    BY <1>3, <2>4
  <2>6. r \notin Within(running)
    BY <2>2, <2>4
  <2>7. Within(waiting') \cup Within(skipped') \cup Within(skip) = {x \in Reqs : Waits(x)}'
    BY <1>3, <2>3, <2>4
  <2>8. Within(running') = {x \in Reqs : Runs(x)}' /\ Once(running') /\ Within(skip') = Within(skip)
        /\ Once(skip')
    BY <1>1, <1>16, <2>2, <2>4, <2>6
  <2> QED  BY <1>1, <1>3, <2>5, <2>7, <2>8 DEF Queued
<1>18. Shape'
  BY <1>1, <1>2, <1>3, <1>6, <1>14, <1>16 DEF Shape
<1>19. NoneLeft' /\ StoppedApart'
  BY <1>1, Between DEF NoneLeft, StoppedApart
<1>20. PausedCounted'
  <2>1. \A x \in Reqs : Paused(x)' <=> Paused(x)
    BY <1>4, <1>6 DEF Paused
  <2> QED  BY <1>1, <1>2, <2>1, PausedSame
<1>21. FlightOK'
  <2>1. \A x \in Reqs : req[x].status # "ABSENT" => req'[x].status # "ABSENT"
    BY <1>4, <1>6
  <2> QED  BY <1>1, <1>2, <2>1, FlightSame
<1>22. ASSUME NEW x \in Reqs PROVE Alive(x, req[x], sent[x], todo, batches)'
  <2>1. CASE x # r
    BY <1>1, <1>2, <1>6, <2>1
  <2>2. CASE x = r
    <3>1. RanOK(r, p, todo, batches)
      <4>1. /\ p.stale = 0 /\ p.placeholders = 0 /\ p.computed < Planned(p)
            /\ ~(p.placeholders > 0)
        BY <1>4, <1>7, <1>z
      <4>2. p.placeholders = InFlight(todo, batches, r, "planned")
        BY <1>8, <4>1
      <4> QED  BY <1>8, <4>1, <4>2 DEF RanOK
    <3>2. Alive(r, p, sent[r], todo, batches)
      BY <1>4, <1>7, <3>1 DEF Alive, Held, InputOK, PausedOK
    <3> QED  BY <1>1, <1>6, <2>2, <3>2
  <2> QED  BY <2>1, <2>2
<1> QED  BY <1>15, <1>17, <1>18, <1>19, <1>20, <1>21, <1>22 DEF Inv, IInv

\* A running request whose row is dispatched.
LEMMA Dispatched ==
  ASSUME NEW r \in Reqs, NEW t, NEW b, FlightType(t, b), NEW rows \in Seq(RowType),
         StepRows(rows, req), NEW s, req[r] \in RequestType, Alive(r, req[r], s, t, b),
         NEW i \in DOMAIN rows, rows[i].r = r
  PROVE  LET p == Scheduled(Rested(req[r]), rows[i])
         IN  /\ p \in RequestType /\ p.status = req[r].status
             /\ Alive(r, p, s, t, Append(b, rows))
<1> DEFINE q == req[r]
           row == rows[i]
           n == row.n
           c == Append(b, rows)
           p == Scheduled(Rested(q), row)
           x == InFlight(t, b, r, "planned")
           y == InFlight(t, b, r, "computed")
           w == Weight(row, "planned")
<1>1. q.status = "RUNNING" /\ q.computed < Planned(q) /\ row = RowOf(r, q, n) /\ Rows(rows)
  BY DEF StepRows
<1>2. q.in_flight = y /\ Held(q) /\ InputOK(r, q, s) /\ RanOK(r, q, t, b)
  BY <1>1 DEF Alive
<1>3. /\ row \in RowType /\ n \in Nat /\ row.drafts \in Nat /\ row.samples \in BOOLEAN
      /\ row.drafts < n /\ n > 0
  <2>1. /\ row \in RowType /\ n \in Nat /\ row.drafts \in Nat /\ row.samples \in BOOLEAN
    BY RowFields
  <2>2. row.drafts < n
    BY <1>1 DEF Rows
  <2> QED  BY <2>1, <2>2
<1>4. /\ q.computed \in Nat /\ Len(q.text) \in Nat /\ q.placeholders \in Nat
      /\ Planned(q) = Len(q.text) + q.placeholders
  BY Fields
<1>5. /\ row.samples => q.computed + n = Planned(q) + row.drafts
      /\ ~row.samples => q.computed + n < Planned(q)
      /\ q.computed + 1 = Planned(q) => row.samples /\ n = 1 + row.drafts
  BY <1>1, <1>3, RowOfFacts
<1>6. /\ p \in RequestType /\ p.status = q.status /\ p.text = q.text
      /\ p.computed = q.computed + n /\ p.in_flight = q.in_flight + n /\ p.stale = q.stale
      /\ p.turn = q.turn /\ p.updates = q.updates /\ p.placeholders = q.placeholders + w
      /\ Held(p)
  BY <1>2, <1>3, ScheduledFacts
<1>7. /\ row.samples => w = 1 + row.drafts
      /\ ~row.samples => w = 0
  BY DEF Weight
<1>8. Tokens(rows, r, "computed") = n /\ Tokens(rows, r, "planned") = w
  <2>1. \A plan : \A j \in DOMAIN rows : rows[j].r = r => Tokens(rows, r, plan) = Weight(rows[j], plan)
    BY <1>1, TokensIs
  <2>2. Tokens(rows, r, "computed") = Weight(row, "computed") /\ Tokens(rows, r, "planned") = w
    BY <2>1
  <2> QED  BY <2>2 DEF Weight
<1>9. /\ q.stale = 0 /\ Ended(t, b, r) /\ q.placeholders = x
      /\ q.placeholders > 0 => q.computed + 1 = Planned(q)
  BY <1>2 DEF RanOK
<1>10. x = 0 \/ Decodes(rows, r)
  <2>1. CASE q.placeholders > 0
    <3>1. row.samples /\ n = 1 + row.drafts
      BY <1>5, <1>9, <2>1
    <3>2. \A j \in DOMAIN rows : rows[j].r = r => j = i
      BY <1>1 DEF Rows
    <3> QED  BY <3>1, <3>2 DEF Decodes
  <2>2. CASE ~(q.placeholders > 0)
    <3>1. q.placeholders = 0
      BY <1>4, <2>2
    <3> QED  BY <1>9, <3>1
  <2> QED  BY <2>1, <2>2
<1>11. /\ InFlight(t, c, r, "computed") = y + n /\ InFlight(t, c, r, "planned") = x + w
       /\ Ended(t, c, r)
  <2>1. /\ \A plan \in Counts :
              InFlight(t, c, r, plan) = InFlight(t, b, r, plan) + Tokens(rows, r, plan)
        /\ Ended(t, b, r) /\ (InFlight(t, b, r, "planned") = 0 \/ Decodes(rows, r)) => Ended(t, c, r)
    BY <1>1, FlightPush
  <2>2. "computed" \in Counts /\ "planned" \in Counts
    BY DEF Counts
  <2> QED  BY <1>8, <1>9, <1>10, <2>1, <2>2
<1>12. /\ p.computed < Planned(p) /\ (p.placeholders > 0 => p.computed + 1 = Planned(p))
  <2> DEFINE k == q.computed
             e == row.drafts
             m == q.placeholders
             l == Len(q.text)
  <2>1. Planned(p) = l + (m + w) /\ p.computed = k + n /\ p.placeholders = m + w
    BY <1>6 DEF Planned
  <2>2. /\ k \in Nat /\ e \in Nat /\ m \in Nat /\ l \in Nat /\ n \in Nat
        /\ (row.samples => k + n = (l + m) + e /\ w = 1 + e)
        /\ (~row.samples => k + n < l + m /\ w = 0)
        /\ (m > 0 => row.samples)
    BY <1>3, <1>4, <1>5, <1>7, <1>9
  <2> HIDE DEF k, e, m, l, n, w, p
  <2>3. /\ k + n < l + (m + w) /\ (m + w > 0 => (k + n) + 1 = l + (m + w))
    BY <2>2
  <2> QED  BY <2>1, <2>3
<1>13. RanOK(r, p, t, c)
  <2>1. p.stale = 0 /\ p.placeholders = InFlight(t, c, r, "planned")
    BY <1>6, <1>9, <1>11
  <2> QED  BY <1>11, <1>12, <2>1 DEF RanOK
<1>14. InputOK(r, p, s)
  BY <1>2, <1>6 DEF InputOK
<1>15. p.in_flight = InFlight(t, c, r, "computed")
  BY <1>2, <1>6, <1>11
<1>16. Alive(r, p, s, t, c)
  <2> HIDE DEF p, c
  <2>1. p.status = "RUNNING"
    BY <1>1, <1>6
  <2>2. PausedOK(r, p)
    BY <2>1 DEF PausedOK
  <2> QED  BY <1>6, <1>13, <1>14, <1>15, <2>1, <2>2 DEF Alive
<1> QED  BY <1>6, <1>16

\* ... and a request without a row.
LEMMA RestedAlive ==
  ASSUME NEW r, NEW q \in RequestType, NEW s, NEW t, NEW b, Alive(r, q, s, t, b)
  PROVE  Alive(r, Rested(q), s, t, b)
<1> DEFINE p == Rested(q)
<1>1. /\ p.status = q.status /\ p.text = q.text /\ p.kv = q.kv
      /\ p.computed = q.computed /\ p.in_flight = q.in_flight /\ p.stale = q.stale
      /\ p.placeholders = q.placeholders /\ p.turn = q.turn /\ p.updates = q.updates
      /\ (Held(q) => Held(p)) /\ Planned(p) = Planned(q)
  BY RestedFacts
<1> HIDE DEF p
<1>2. /\ InputOK(r, q, s) => InputOK(r, p, s)
      /\ PausedOK(r, q) => PausedOK(r, p)
      /\ RanOK(r, q, t, b) => RanOK(r, p, t, b)
      /\ WaitsOK(r, q) => WaitsOK(r, p)
  <2>1. InputOK(r, q, s) => InputOK(r, p, s)
    BY <1>1 DEF InputOK
  <2>2. PausedOK(r, q) => PausedOK(r, p)
    BY <1>1 DEF PausedOK
  <2>3. RanOK(r, q, t, b) => RanOK(r, p, t, b)
    BY <1>1 DEF RanOK
  <2>4. WaitsOK(r, q) => WaitsOK(r, p)
    BY <1>1 DEF WaitsOK
  <2> QED  BY <2>1, <2>2, <2>3, <2>4
<1> QED  BY <1>1, <1>2 DEF Alive, p

LEMMA FinishScheduleInv ==
  ASSUME Inv, FinishSchedule
  PROVE  Inv'
<1> DEFINE rows == step.rows
           in == {rows[i].r : i \in DOMAIN rows}
           Of(r) == rows[CHOOSE i \in DOMAIN rows : rows[i].r = r]
<1>1. /\ pc \in {"admit", "finish"} /\ pc' = "idle"
      /\ req' = [r \in Reqs |-> IF r \in in THEN Scheduled(Rested(req[r]), Of(r))
                                ELSE Rested(req[r])]
      /\ skipped' = skip \o skipped /\ skip' = <<>>
      /\ batches' = Append(batches, rows) /\ step' = NoStep
      /\ slots' = (slots \ flush) \cup in /\ flush' = {}
      /\ running' = running /\ waiting' = waiting /\ todo' = todo /\ stopped' = stopped
      /\ errors' = errors /\ sent' = sent /\ short' = short
      /\ UNCHANGED num_waiting_for_streaming_input
  BY DEF FinishSchedule, InStep
<1>2. /\ Queued /\ Shape /\ PausedCounted /\ FlightOK
      /\ todo \in Seq(RowType) /\ batches \in Seq(Seq(RowType)) /\ skip \in Seq(Reqs)
      /\ req \in [Reqs -> RequestType] /\ skipped \in Seq(Reqs) /\ slots \subseteq Reqs
      /\ rows \in Seq(RowType) /\ StepRows(rows, req) /\ Rows(rows)
      /\ \A x \in Reqs : Alive(x, req[x], sent[x], todo, batches)
  BY DEF Inv, IInv, Shape, StepOK, StepRows
<1>3. FlightType(todo, batches)
  BY Flight
<1>4. ASSUME NEW i \in DOMAIN rows
      PROVE  /\ rows[i].r \in Reqs /\ rows[i].r \in in /\ Of(rows[i].r) = rows[i]
             /\ req[rows[i].r].status = "RUNNING"
  <2>1. \A j \in DOMAIN rows : rows[j].r = rows[i].r => j = i
    BY <1>2 DEF Rows
  <2>2. Of(rows[i].r) = rows[i]
    BY <2>1
  <2>3. req[rows[i].r].status = "RUNNING"
    BY <1>2 DEF StepRows
  <2> QED  BY <1>2, <2>2, <2>3, RowFields
<1>5. ASSUME NEW x \in Reqs
      PROVE  /\ req'[x] \in RequestType /\ req'[x].status = req[x].status
             /\ Alive(x, req'[x], sent[x], todo, Append(batches, rows))
  <2>1. req[x] \in RequestType /\ Alive(x, req[x], sent[x], todo, batches)
    BY <1>2
  <2>2. CASE x \in in
    <3>1. PICK i \in DOMAIN rows : rows[i].r = x
      BY <2>2
    <3>a. Of(x) = rows[i]
      BY <1>4, <3>1
    <3> HIDE DEF Of
    <3>2. req'[x] = Scheduled(Rested(req[x]), rows[i])
      BY <1>1, <2>2, <3>a
    <3> HIDE DEF rows
    <3> QED  BY <1>2, <1>3, <2>1, <3>1, <3>2, Dispatched
  <2>3. CASE x \notin in
    <3>1. req'[x] = Rested(req[x])
      BY <1>1, <2>3
    <3>2. ~In(rows, x)
      BY <2>3 DEF In
    <3> HIDE DEF rows
    <3> DEFINE c == Append(batches, rows)
    <3>3. \A plan : Tokens(rows, x, plan) = 0
      BY <3>2 DEF Tokens
    <3>4. /\ \A plan \in Counts :
               InFlight(todo, c, x, plan) = InFlight(todo, batches, x, plan) + Tokens(rows, x, plan)
          /\ Ended(todo, batches, x) /\ (InFlight(todo, batches, x, "planned") = 0 \/ Decodes(rows, x))
               => Ended(todo, c, x)
      BY <1>2, <1>3, FlightPush
    <3>5. Decodes(rows, x)
      BY <3>2 DEF Decodes, In
    <3> HIDE DEF c
    <3>6. \A plan \in Counts : InFlight(todo, c, x, plan) = InFlight(todo, batches, x, plan)
      <4> SUFFICES ASSUME NEW plan \in Counts
                   PROVE  InFlight(todo, c, x, plan) = InFlight(todo, batches, x, plan)
        OBVIOUS
      <4>1. InFlight(todo, batches, x, plan) \in Nat
        BY <1>3, LoadIs
      <4>2. InFlight(todo, c, x, plan) = InFlight(todo, batches, x, plan) + 0
        BY <3>3, <3>4
      <4> QED  BY <4>1, <4>2
    <3>7. Alive(x, req[x], sent[x], todo, c)
      BY <2>1, <3>4, <3>5, <3>6, AliveKept
    <3>8. Alive(x, req'[x], sent[x], todo, c)
      BY <2>1, <3>1, <3>7, RestedAlive
    <3>9. req'[x] \in RequestType /\ req'[x].status = req[x].status
      BY <2>1, <3>1, RestedFacts
    <3> QED  BY <3>8, <3>9 DEF c
  <2> QED  BY <2>2, <2>3
<1>6. req' \in [Reqs -> RequestType]
  BY <1>1, <1>5
<1>7. /\ FlightType(todo, Append(batches, rows))
      /\ Flying(todo, Append(batches, rows)) = Flying(todo, batches) \cup Within(rows)
  <2> HIDE DEF rows
  <2> QED  BY <1>2, <1>3, FlightPush
<1>8. FlightOK'
  <2>1. \A y \in Flying(todo, batches) : req'[y.r].status # "ABSENT"
    <3>1. \A y \in Flying(todo, batches) : y.r \in Reqs
      BY <1>3, FlyingRows
    <3> QED  BY <1>2, <1>5, <3>1 DEF FlightOK
  <2>2. \A y \in Within(rows) : req'[y.r].status # "ABSENT"
    BY <1>4, <1>5 DEF Within
  <2>3. Rows(todo) /\ \A i \in DOMAIN Append(batches, rows) : Rows(Append(batches, rows)[i])
    BY <1>7 DEF FlightType
  <2> HIDE DEF rows
  <2> QED  BY <1>1, <1>7, <2>1, <2>2, <2>3 DEF FlightOK
<1> HIDE DEF rows, Of, in
<1>9. /\ skipped' \in Seq(Reqs) /\ Within(skipped') = Within(skip) \cup Within(skipped)
      /\ Once(skip) /\ Once(skipped) /\ Within(skip) \cap Within(skipped) = {} => Once(skipped')
  BY <1>1, <1>2, OnceConcat
<1>10. Queued'
  <2>1. {x \in Reqs : Runs(x)}' = {x \in Reqs : Runs(x)}
        /\ {x \in Reqs : Waits(x)}' = {x \in Reqs : Waits(x)}
    BY <1>1, <1>5 DEF Runs, Waits, Live
  <2>2. /\ Once(running) /\ Once(waiting) /\ Once(skipped) /\ Once(skip)
        /\ Within(running) = {x \in Reqs : Runs(x)}
        /\ Within(waiting) \cup Within(skipped) \cup Within(skip) = {x \in Reqs : Waits(x)}
        /\ Within(waiting) \cap Within(skipped) = {} /\ Within(waiting) \cap Within(skip) = {}
        /\ Within(skipped) \cap Within(skip) = {}
    BY <1>2 DEF Queued
  <2>3. /\ Once(skip') /\ Within(skip') = {}
    BY <1>1, Empty
  <2>4. /\ Once(skipped') /\ Within(waiting) \cap Within(skipped') = {}
        /\ Within(waiting) \cup Within(skipped') \cup Within(skip') = {x \in Reqs : Waits(x)}
    BY <1>9, <2>2, <2>3
  <2> QED  BY <1>1, <2>1, <2>2, <2>3, <2>4 DEF Queued
<1>11. Shape'
  <2>1. /\ Append(batches, rows) \in Seq(Seq(RowType)) /\ <<>> \in Seq(Reqs)
        /\ NoStep \in [rows : Seq(RowType), budget : Nat, decoding : BOOLEAN]
    BY <1>2, AppendFacts DEF NoStep
  <2>2. in \subseteq Reqs
    BY <1>4 DEF in
  <2> QED  BY <1>1, <1>2, <1>6, <1>9, <2>1, <2>2 DEF Shape
<1>12. NoneLeft' /\ StoppedApart'
  BY <1>1, Between DEF NoneLeft, StoppedApart
<1>13. PausedCounted'
  BY <1>1, <1>2, <1>5, PausedSame DEF Paused
<1>14. StepOK'
  BY <1>1, NoStepOK
<1>15. \A x \in Reqs : Alive(x, req[x], sent[x], todo, batches)'
  BY <1>1, <1>5
<1> QED  BY <1>8, <1>10, <1>11, <1>12, <1>13, <1>14, <1>15 DEF Inv, IInv

LEMMA WantedFacts ==
  ASSUME NEW r, req[r] \in RequestType, req[r].computed < Planned(req[r])
  PROVE  Wanted(r) \in Nat /\ req[r].computed + Wanted(r) <= Planned(req[r]) + req[r].spec
<1> DEFINE q == req[r]
           c == q.computed
           p == Planned(q)
           e == q.spec
           d == (p + e) - c
<1>1. c \in Nat /\ p \in Nat /\ e \in Nat /\ c < p
  BY Fields
<1>2. p + e - c = d
  BY <1>1
<1>3. Wanted(r) = IF NotThisStep(q) THEN 0 ELSE IF e > 0 /\ c = p THEN d + 1 ELSE Most(0, d)
  <2>1. Wanted(r) = IF NotThisStep(q) THEN 0
                    ELSE IF e > 0 /\ c = p THEN (p + e - c) + 1 ELSE Most(0, p + e - c)
    BY DEF Wanted
  <2> HIDE DEF q, c, p, e, d
  <2> QED  BY <1>2, <2>1
<1> HIDE DEF q, c, p, e
<1>4. d \in Nat /\ Most(0, d) = d /\ c # p /\ c + d = p + e /\ c + 0 <= p + e
  BY <1>1 DEF Most
<1> HIDE DEF d
<1>5. Wanted(r) = 0 \/ Wanted(r) = d
  BY <1>3, <1>4
<1>6. d \in Nat /\ 0 \in Nat /\ c + d <= p + e /\ c + 0 <= p + e
  BY <1>1, <1>4
<1>7. Wanted(r) \in Nat /\ c + Wanted(r) <= p + e
  BY <1>5, <1>6
<1> QED  BY <1>7 DEF q, c, p, e

\* What the i-th request of q takes from the token budget.
LEMMA BudgetFacts ==
  ASSUME NEW q, DOMAIN q = 1 .. Len(q), NEW i \in Nat,
         \A j \in 1 .. i : j \in DOMAIN q /\ Wanted(q[j]) \in Nat
  PROVE  /\ BudgetAfter(q, i) \in Nat
         /\ i > 0 => Granted(q, i) \in Nat /\ Granted(q, i) <= Wanted(q[i])
<1> DEFINE w == [j \in DOMAIN q |-> Wanted(q[j])]
           m == MaxScheduled
           T(j) == Total(w, j)
<1>1. m \in Nat
  BY SessionAssumption
<1>2. \A j \in 1 .. i : w[j] = Wanted(q[j]) /\ w[j] \in Int
  OBVIOUS
<1>3. \A j : BudgetAfter(q, j) = Most(0, m - T(j))
  BY DEF BudgetAfter
<1> HIDE DEF w, m
<1>4. T(i) \in Int
  BY <1>2, TotalType
<1>5. BudgetAfter(q, i) \in Nat
  <2> DEFINE t == T(i)
  <2>1. t \in Int /\ BudgetAfter(q, i) = Most(0, m - t)
    BY <1>3, <1>4
  <2> HIDE DEF t
  <2> QED  BY <1>1, <2>1 DEF Most
<1>6. ASSUME i > 0
      PROVE  Granted(q, i) \in Nat /\ Granted(q, i) <= Wanted(q[i])
  <2> DEFINE s == T(i - 1)
             t == T(i)
             x == Wanted(q[i])
  <2>1. i \in 1 .. i /\ i \in Nat \ {0} /\ i - 1 \in Nat /\ \A j \in 1 .. i - 1 : j \in 1 .. i
    BY <1>6
  <2>2. s \in Int
    BY <1>2, <2>1, TotalType
  <2>3. t = s + x /\ x \in Nat
    BY <1>2, <2>1, TotalSteps
  <2>4. BudgetAfter(q, i - 1) = Most(0, m - s) /\ BudgetAfter(q, i) = Most(0, m - t)
    BY <1>3
  <2> HIDE DEF s, t, x
  <2>5. Most(0, m - s) - Most(0, m - t) \in Nat /\ Most(0, m - s) - Most(0, m - t) <= x
    BY <1>1, <2>2, <2>3 DEF Most
  <2>6. Granted(q, i) = Most(0, m - s) - Most(0, m - t)
    BY <2>4 DEF Granted
  <2>7. Granted(q, i) \in Nat /\ Granted(q, i) <= x
    BY <2>5, <2>6
  <2> QED  BY <2>7 DEF x
<1> QED  BY <1>5, <1>6

\* The rows of the running pass.
LEMMA RunningRowsFacts ==
  ASSUME req \in [Reqs -> RequestType], NEW q \in Seq(Reqs), Once(q),
         \A x \in Within(q) : req[x].status = "RUNNING" /\ req[x].computed < Planned(req[x])
  PROVE  /\ RunningRows(q) \in Seq(RowType) /\ StepRows(RunningRows(q), req)
         /\ \A i \in DOMAIN RunningRows(q) : RunningRows(q)[i].r \in Within(q)
         /\ BudgetAfter(q, Len(q)) \in Nat
<1> DEFINE n == Len(q)
           f == [i \in DOMAIN q |-> RowFor(q[i], Granted(q, i), req[q[i]].spec)]
           Z == {RowFor(r, 0, req[r].spec) : r \in Reqs}
           u == RunningRows(q)
<1>1. n \in Nat /\ DOMAIN q = 1 .. n /\ \A i \in 1 .. n : q[i] \in Reqs
  BY LenProperties, ElementOfSeq
<1>2. \A i \in 1 .. n : req[q[i]] \in RequestType /\ q[i] \in Within(q)
  BY <1>1 DEF Within
<1>3. ASSUME NEW i \in 1 .. n
      PROVE  /\ Wanted(q[i]) \in Nat
             /\ req[q[i]].computed + Wanted(q[i]) <= Planned(req[q[i]]) + req[q[i]].spec
  BY <1>2, WantedFacts
<1>4. ASSUME NEW i \in 1 .. n
      PROVE  Granted(q, i) \in Nat /\ Granted(q, i) <= Wanted(q[i])
  <2>1. i \in Nat /\ i > 0 /\ \A j \in 1 .. i : j \in DOMAIN q /\ Wanted(q[j]) \in Nat
    BY <1>1, <1>3
  <2> QED  BY <1>1, <2>1, BudgetFacts
<1>5. BudgetAfter(q, n) \in Nat
  BY <1>1, <1>3, BudgetFacts
<1>6. ASSUME NEW i \in 1 .. n
      PROVE  /\ f[i] \in RowType /\ f[i].r = q[i] /\ f[i].n = Granted(q, i)
             /\ (f[i].samples \/ f[i].drafts = 0)
             /\ f[i] = RowOf(q[i], req[q[i]], Granted(q, i))
             /\ (Granted(q, i) = 0 => f[i] \in Z) /\ (Granted(q, i) > 0 => f[i].drafts < f[i].n)
  <2> DEFINE r == q[i]
             m == Granted(q, i)
             w == Wanted(r)
             c == req[r].computed
             p == Planned(req[r])
             e == req[r].spec
  <2>1. f[i] = RowFor(r, m, e) /\ r \in Reqs /\ m \in Nat /\ req[r] \in RequestType
    BY <1>1, <1>2, <1>4
  <2>2. c \in Nat /\ p \in Nat /\ e \in Nat /\ w \in Nat /\ m <= w /\ c + w <= p + e
    BY <1>3, <1>4, <2>1, Fields
  <2>3. c < p
    BY <1>2
  <2> HIDE DEF m, w, c, p, e
  <2>4. c + m <= p + e
    BY <2>1, <2>2
  <2> HIDE DEF r, f
  <2>5. req[r].computed + m <= Planned(req[r]) + e /\ req[r].computed < Planned(req[r])
    BY <2>3, <2>4 DEF c, p
  <2>6. RowFor(r, m, e) = RowOf(r, req[r], m)
    BY <2>1, <2>2, <2>5, RowForIs
  <2>7. /\ RowOf(r, req[r], m) \in RowType /\ RowOf(r, req[r], m).r = r
        /\ RowOf(r, req[r], m).n = m
        /\ (RowOf(r, req[r], m).samples \/ RowOf(r, req[r], m).drafts = 0)
        /\ m > 0 => RowOf(r, req[r], m).drafts < m
    BY <2>1, <2>5, RowOfFacts
  <2>8. m = 0 => RowFor(r, m, e) \in Z
    BY <2>1 DEF e
  <2>9. /\ f[i] \in RowType /\ f[i].r = r /\ f[i].n = m /\ (f[i].samples \/ f[i].drafts = 0)
        /\ f[i] = RowOf(r, req[r], m) /\ (m = 0 => f[i] \in Z)
        /\ (m > 0 => f[i].drafts < f[i].n)
    <3> HIDE DEF Z
    <3> QED  BY <2>1, <2>6, <2>7, <2>8
  <2> QED  BY <2>9 DEF r, m
<1>7. f \in Seq(RowType) /\ Len(f) = n
  BY <1>1, <1>6, IsASeq
<1>8. u = Off(f, Z)
  BY DEF RunningRows
<1> HIDE DEF f, Z, u, n
<1>9. u \in Seq(RowType) /\ Picks(u, f, Z, n)
  BY <1>7, <1>8, OffPicks
<1>10. /\ \A a \in DOMAIN u : \E j \in 1 .. n : u[a] = f[j] /\ f[j] \notin Z
       /\ \A a, b \in DOMAIN u : a < b => \E j, k \in 1 .. n : j < k /\ u[a] = f[j] /\ u[b] = f[k]
  BY <1>9, Zenon DEF Picks
<1>11. ASSUME NEW a \in DOMAIN u
       PROVE  /\ u[a].r \in Within(q) /\ u[a].drafts < u[a].n
              /\ (u[a].samples \/ u[a].drafts = 0)
              /\ u[a] = RowOf(u[a].r, req[u[a].r], u[a].n)
  <2>1. PICK j \in 1 .. n : u[a] = f[j] /\ f[j] \notin Z
    BY <1>10
  <2>2. f[j].r = q[j] /\ f[j].n = Granted(q, j) /\ Granted(q, j) \in Nat /\ Granted(q, j) # 0
    BY <1>4, <1>6, <2>1
  <2>3. Granted(q, j) > 0
    BY <2>2
  <2>4. q[j] \in Within(q)
    BY <1>2
  <2> QED  BY <1>6, <2>1, <2>2, <2>3, <2>4
<1>12. ASSUME NEW a \in DOMAIN u, NEW b \in DOMAIN u, u[a].r = u[b].r, a < b PROVE FALSE
  <2>1. PICK j, k \in 1 .. n : j < k /\ u[a] = f[j] /\ u[b] = f[k]
    BY <1>10, <1>12
  <2>2. q[j] = q[k]
    BY <1>6, <1>12, <2>1
  <2>3. j = k
    BY <1>1, <2>2 DEF Once
  <2> QED  BY <2>1, <2>3
<1>13. \A a, b \in DOMAIN u : u[a].r = u[b].r => a = b
  <2>1. DOMAIN u \subseteq Nat
    BY <1>9, LenProperties
  <2>2. \A a, b \in DOMAIN u : a < b \/ b < a \/ a = b
    BY <2>1
  <2> QED  BY <1>12, <2>2
<1>14. StepRows(u, req)
  <2>1. Rows(u)
    BY <1>11, <1>13 DEF Rows
  <2>2. \A a \in DOMAIN u : req[u[a].r].status = "RUNNING" /\ req[u[a].r].computed < Planned(req[u[a].r])
    BY <1>11
  <2> QED  BY <1>11, <2>1, <2>2 DEF StepRows
<1> QED  BY <1>5, <1>9, <1>11, <1>14 DEF u, n

\* The drafts of a running request are used up.
UsedUp(q) == [q EXCEPT !.spec = 0]

LEMMA UsedUpAlive ==
  ASSUME NEW r, NEW q \in RequestType, NEW s, NEW t, NEW b, Alive(r, q, s, t, b)
  PROVE  LET p == UsedUp(q)
         IN  /\ p \in RequestType /\ p.status = q.status /\ p.computed = q.computed
             /\ Planned(p) = Planned(q) /\ Alive(r, p, s, t, b)
<1> DEFINE p == UsedUp(q)
<1>1. /\ p \in RequestType /\ p.status = q.status /\ p.text = q.text /\ p.kv = q.kv
      /\ p.computed = q.computed /\ p.in_flight = q.in_flight /\ p.stale = q.stale
      /\ p.placeholders = q.placeholders /\ p.turn = q.turn /\ p.updates = q.updates
  BY DEF UsedUp, RequestType
<1> HIDE DEF p
<1>2. (Held(q) => Held(p)) /\ Planned(p) = Planned(q)
  BY <1>1 DEF Held, Planned
<1>3. InputOK(r, q, s) => InputOK(r, p, s)
  BY <1>1 DEF InputOK
<1>4. PausedOK(r, q) => PausedOK(r, p)
  BY <1>1 DEF PausedOK
<1>5. RanOK(r, q, t, b) => RanOK(r, p, t, b)
  BY <1>1, <1>2 DEF RanOK
<1>6. WaitsOK(r, q) => WaitsOK(r, p)
  BY <1>1 DEF WaitsOK
<1> QED  BY <1>1, <1>2, <1>3, <1>4, <1>5, <1>6 DEF Alive, p

\* Those behind the k-th.
LEMMA VictimsAre ==
  ASSUME running \in Seq(Reqs), NEW k \in 0 .. Len(running)
  PROVE  Within(SubSeq(running, k + 1, Len(running))) = {running[i] : i \in k + 1 .. Len(running)}
<1> DEFINE n == Len(running)
           v == SubSeq(running, k + 1, n)
<1>1. n \in Nat /\ k \in Nat /\ k <= n
  BY LenProperties
<1>2. v \in Seq(Reqs) /\ Len(v) = n - k /\ \A i \in 1 .. n - k : v[i] = running[k + i]
  BY <1>1, SubFacts
<1> HIDE DEF v, n
<1>3. DOMAIN v = 1 .. n - k
  BY <1>2, LenProperties
<1>4. ASSUME NEW i \in 1 .. n - k PROVE v[i] \in {running[j] : j \in k + 1 .. n}
  <2>1. k + i \in k + 1 .. n
    BY <1>1
  <2> QED  BY <1>2, <2>1
<1>5. ASSUME NEW j \in k + 1 .. n PROVE running[j] \in Within(v)
  <2>1. j - k \in 1 .. n - k /\ k + (j - k) = j
    BY <1>1
  <2>2. v[j - k] = running[j]
    BY <1>2, <2>1
  <2> QED  BY <1>3, <2>1, <2>2 DEF Within
<1>6. Within(v) \subseteq {running[j] : j \in k + 1 .. n}
  BY <1>3, <1>4 DEF Within
<1>7. {running[j] : j \in k + 1 .. n} \subseteq Within(v)
  BY <1>5
<1> QED  BY <1>6, <1>7 DEF v, n

LEMMA BeginScheduleInv ==
  ASSUME Inv, BeginSchedule, ~StaleTurns
  PROVE  Inv'
<1>0. PICK k \in 0 .. Len(running) :
        LET kept    == SubSeq(running, 1, k)
            victims == SubSeq(running, k + 1, Len(running))
            lost    == {running[i] : i \in k + 1 .. Len(running)}
        IN  /\ lost # {} => short < MaxShort
            /\ StaleTurns \/ \A r \in lost \cap Streams : req[r].in_flight = 0
            /\ short' = IF lost # {} THEN short + 1 ELSE short
            /\ running' = kept /\ waiting' = victims \o waiting
            /\ step' = StepFor(kept)
            /\ req' = [r \in Reqs |-> IF r \in lost THEN Preempted(req[r])
                                      ELSE IF r \in InStep(step') THEN UsedUp(req[r])
                                      ELSE req[r]]
            /\ flush' = flush \cup lost
            /\ pc' = IF lost = {} THEN "admit" ELSE "finish"
  BY DEF BeginSchedule, UsedUp
<1> DEFINE kept == SubSeq(running, 1, k)
           victims == SubSeq(running, k + 1, Len(running))
           lost == Within(victims)
<1>1. /\ pc = "idle" /\ pc' \in {"admit", "finish"}
      /\ lost # {} => short < MaxShort
      /\ \A r \in lost \cap Streams : req[r].in_flight = 0
      /\ short' = IF lost # {} THEN short + 1 ELSE short
      /\ step' = StepFor(kept)
      /\ running' = kept /\ waiting' = victims \o waiting
      /\ \A r \in Reqs : /\ r \in lost => req'[r] = Preempted(req[r])
                         /\ r \notin lost => req'[r] = req[r] \/ req'[r] = UsedUp(req[r])
      /\ req' = [r \in Reqs |-> req'[r]]
      /\ flush' = flush \cup lost
      /\ skipped' = skipped /\ skip' = skip /\ batches' = batches /\ todo' = todo
      /\ stopped' = stopped /\ errors' = errors /\ slots' = slots /\ sent' = sent
      /\ UNCHANGED num_waiting_for_streaming_input /\ UNCHANGED <<todo, batches>>
  <2>1. lost = {running[i] : i \in k + 1 .. Len(running)}
    <3>1. running \in Seq(Reqs)
      BY DEF Inv, Shape
    <3> QED  BY <3>1, VictimsAre
  <2> HIDE DEF lost, kept, victims
  <2> QED  BY <1>0, <2>1 DEF BeginSchedule, kept, victims
<1>2. /\ Queued /\ Shape /\ PausedCounted /\ FlightOK
      /\ todo \in Seq(RowType) /\ batches \in Seq(Seq(RowType)) /\ flush \subseteq Reqs
      /\ req \in [Reqs -> RequestType] /\ running \in Seq(Reqs) /\ waiting \in Seq(Reqs)
      /\ \A x \in Reqs : Alive(x, req[x], sent[x], todo, batches)
  BY DEF Inv, IInv, Shape
<1>3. /\ Once(running) /\ Once(waiting) /\ Once(skipped) /\ Once(skip)
      /\ Within(running) = {x \in Reqs : Runs(x)}
      /\ Within(waiting) \cup Within(skipped) \cup Within(skip) = {x \in Reqs : Waits(x)}
      /\ Within(waiting) \cap Within(skipped) = {} /\ Within(waiting) \cap Within(skip) = {}
      /\ Within(skipped) \cap Within(skip) = {}
  BY <1>2 DEF Queued
<1>4. /\ todo = <<>> /\ stopped = NoneStopped /\ stopped.ran = {} /\ stopped.preempted = {}
      /\ \A x \in Reqs : /\ Runs(x) <=> req[x].status = "RUNNING"
                         /\ Waits(x) <=> Live(x) /\ req[x].status # "RUNNING"
  BY <1>1, Between
<1>5. /\ kept \in Seq(Reqs) /\ victims \in Seq(Reqs) /\ Once(kept) /\ Once(victims)
      /\ Within(kept) \cup lost = Within(running) /\ Within(kept) \cap lost = {}
  BY <1>2, <1>3, OnceSplit
<1>6. Len(kept) = k
  BY <1>2, StartFacts
<1> HIDE DEF kept, victims
<1>7. lost \subseteq Reqs /\ \A x \in Within(running) : req[x].status = "RUNNING"
  BY <1>3, <1>4, <1>5
<1>8. ASSUME NEW x \in Reqs
      PROVE  /\ req'[x] \in RequestType /\ Alive(x, req'[x], sent[x], todo, batches)
             /\ x \in lost => req'[x].status = "PREEMPTED"
             /\ x \notin lost => /\ req'[x].status = req[x].status
                                 /\ req'[x].computed = req[x].computed
                                 /\ Planned(req'[x]) = Planned(req[x])
  <2>1. req[x] \in RequestType /\ Alive(x, req[x], sent[x], todo, batches)
    BY <1>2
  <2>2. CASE x \in lost
    <3> DEFINE q == req[x]
               p == Preempted(q)
    <3>1. req'[x] = p /\ q.status = "RUNNING"
      <4>1. req'[x] = p
        <5> HIDE DEF lost
        <5> QED  BY <1>1, <2>2
      <4>2. x \in Within(running)
        BY <1>5, <2>2
      <4> QED  BY <1>7, <4>1, <4>2
    <3>2. Held(q) /\ InputOK(x, q, sent[x]) /\ q.in_flight = InFlight(todo, batches, x, "computed")
      BY <2>1, <3>1 DEF Alive
    <3>3. /\ p \in RequestType /\ Held(p) /\ p.status = "PREEMPTED" /\ p.text = q.text
          /\ p.computed < Len(p.text) /\ p.in_flight = q.in_flight /\ p.stale = p.in_flight
          /\ p.placeholders = 0 /\ p.turn = q.turn /\ p.updates = q.updates
      BY <2>1, <3>2, PreemptedFacts
    <3>4. x \in Streams => q.in_flight = 0
      BY <1>1, <2>2
    <3> HIDE DEF p, q
    <3>5. Alive(x, p, sent[x], todo, batches)
      BY <3>2, <3>3, <3>4 DEF Alive, InputOK, PausedOK, WaitsOK
    <3> QED  BY <2>2, <3>1, <3>3, <3>5
  <2>3. CASE x \notin lost
    <3>1. CASE req'[x] = req[x]
      BY <2>1, <2>3, <3>1
    <3>2. CASE req'[x] = UsedUp(req[x])
      BY <2>1, <2>3, <3>2, UsedUpAlive
    <3> QED  BY <1>1, <2>3, <3>1, <3>2
  <2> QED  BY <2>2, <2>3
<1>9. req' \in [Reqs -> RequestType]
  BY <1>1, <1>8
<1>10. /\ RunningRows(kept) \in Seq(RowType) /\ StepRows(RunningRows(kept), req)
       /\ \A i \in DOMAIN RunningRows(kept) : RunningRows(kept)[i].r \in Within(kept)
       /\ BudgetAfter(kept, k) \in Nat
  <2>1. \A x \in Within(kept) : x \in Reqs /\ req[x].status = "RUNNING"
    BY <1>3, <1>5, <1>7
  <2>2. \A x \in Within(kept) : req[x].computed < Planned(req[x])
    BY <1>2, <2>1 DEF Alive, RanOK
  <2> QED  BY <1>2, <1>5, <1>6, <2>1, <2>2, RunningRowsFacts
<1> DEFINE rows == RunningRows(kept)
<1>11. step'.rows = rows /\ step' \in [rows : Seq(RowType), budget : Nat, decoding : BOOLEAN]
  <2> DEFINE d == rows # <<>> /\ \A i \in DOMAIN rows : ~req[rows[i].r].chunk
  <2>1. step' = [rows |-> rows, budget |-> BudgetAfter(kept, k), decoding |-> d]
    BY <1>1, <1>6 DEF StepFor
  <2>2. d \in BOOLEAN
    OBVIOUS
  <2> HIDE DEF d, rows
  <2> QED  BY <1>10, <2>1, <2>2 DEF rows
<1> HIDE DEF rows
<1>12. StepOK'
  <2>1. ASSUME NEW i \in DOMAIN rows
        PROVE  LET x == rows[i].r
               IN  /\ req'[x].status = req[x].status /\ req'[x].computed = req[x].computed
                   /\ Planned(req'[x]) = Planned(req[x])
    <3>1. rows[i].r \in Within(kept)
      BY <1>10 DEF rows
    <3>2. rows[i].r \in Reqs /\ rows[i].r \notin lost
      BY <1>3, <1>5, <3>1
    <3> QED  BY <1>8, <3>2
  <2>2. StepRows(rows, req')
    BY <1>10, <2>1 DEF StepRows, RowOf, rows
  <2> QED  BY <1>11, <2>2 DEF StepOK
<1> HIDE DEF lost
<1>13. /\ waiting' \in Seq(Reqs) /\ Within(waiting') = lost \cup Within(waiting)
       /\ lost \cap Within(waiting) = {} => Once(waiting')
  BY <1>1, <1>2, <1>3, <1>5, OnceConcat DEF lost
<1>14. Queued'
  <2>1. {x \in Reqs : Runs(x)}' = {x \in Reqs : Runs(x)} \ lost
    <3>1. \A x \in Reqs : Runs(x)' <=> Runs(x) /\ x \notin lost
      BY <1>1, <1>4, <1>8 DEF Runs
    <3> QED  BY <3>1
  <2>2. {x \in Reqs : Waits(x)}' = {x \in Reqs : Waits(x)} \cup lost
    <3>1. \A x \in Reqs : Waits(x)' <=> Waits(x) \/ x \in lost
      BY <1>1, <1>4, <1>8 DEF Waits, Live
    <3> QED  BY <1>7, <3>1
  <2>3. \A x \in lost : ~Waits(x)
    BY <1>4, <1>5, <1>7
  <2>4. /\ lost \cap Within(waiting) = {} /\ lost \cap Within(skipped) = {}
        /\ lost \cap Within(skip) = {}
    BY <1>3, <2>3
  <2>5. /\ Once(waiting') /\ Within(waiting') \cap Within(skipped) = {}
        /\ Within(waiting') \cap Within(skip) = {}
        /\ Within(waiting') \cup Within(skipped) \cup Within(skip) = {x \in Reqs : Waits(x)}'
    BY <1>3, <1>13, <2>2, <2>4
  <2>6. Once(running') /\ Within(running') = {x \in Reqs : Runs(x)}'
    BY <1>1, <1>3, <1>5, <2>1
  <2> QED  BY <1>1, <1>3, <2>5, <2>6 DEF Queued
<1>15. Shape'
  <2>1. short' \in 0 .. MaxShort
    <3>1. short \in 0 .. MaxShort /\ MaxShort \in Nat
      BY <1>2, SessionAssumption DEF Shape
    <3> QED  BY <1>1, <3>1
  <2> QED  BY <1>1, <1>2, <1>5, <1>7, <1>9, <1>11, <1>13, <2>1 DEF Shape
<1>16. NoneLeft' /\ StoppedApart'
  BY <1>1, <1>4 DEF NoneLeft, StoppedApart
<1>17. PausedCounted'
  <2>1. \A x \in Reqs : Paused(x)' <=> Paused(x)
    BY <1>5, <1>7, <1>8 DEF Paused
  <2> QED  BY <1>1, <1>2, <2>1, PausedSame
<1>18. FlightOK'
  <2>1. \A x \in Reqs : req[x].status # "ABSENT" => req'[x].status # "ABSENT"
    BY <1>8
  <2> QED  BY <1>1, <1>2, <2>1, FlightSame
<1>19. \A x \in Reqs : Alive(x, req[x], sent[x], todo, batches)'
  BY <1>1, <1>8
<1> QED  BY <1>12, <1>14, <1>15, <1>16, <1>17, <1>18, <1>19 DEF Inv, IInv

----------------------------------------------------------------------------
(* update_from_output().                                                   *)

LEMMA BeginUpdateInv ==
  ASSUME Inv, BeginUpdate
  PROVE  Inv'
<1>1. /\ pc = "idle" /\ batches # <<>> /\ pc' = "update" /\ todo' = Head(batches)
      /\ batches' = Tail(batches) /\ stopped' = NoneStopped
      /\ req' = req /\ UNCHANGED queues /\ step' = step
      /\ running' = running /\ waiting' = waiting /\ skipped' = skipped /\ skip' = skip
      /\ flush' = flush /\ errors' = errors /\ slots' = slots /\ sent' = sent /\ short' = short
      /\ UNCHANGED num_waiting_for_streaming_input
  BY DEF BeginUpdate, queues
<1>2. /\ Queued /\ Shape /\ PausedCounted /\ FlightOK
      /\ batches \in Seq(Seq(RowType))
      /\ \A x \in Reqs : Alive(x, req[x], sent[x], todo, batches)
  BY DEF Inv, IInv, Shape
<1>3. todo = <<>> /\ skip = <<>> /\ step = NoStep /\ stopped' = stopped /\ stopped.ran = {}
      /\ stopped.preempted = {}
  BY <1>1, Idle
<1>4. FlightType(<<>>, batches)
  BY <1>3, Flight
<1>5. /\ FlightType(todo', batches') /\ Flying(todo', batches') = Flying(todo, batches)
      /\ \A r : /\ \A plan \in Counts :
                     InFlight(todo', batches', r, plan) = InFlight(todo, batches, r, plan)
                /\ Ended(todo, batches, r) => Ended(todo', batches', r)
  BY <1>1, <1>3, <1>4, FlightBegin
<1>6. todo' \in Seq(RowType) /\ batches' \in Seq(Seq(RowType))
  BY <1>5 DEF FlightType
<1>7. Queued'
  <2>1. \A x \in Reqs : (Runs(x)' <=> Runs(x)) /\ (Waits(x)' <=> Waits(x))
    BY <1>1, <1>3 DEF Runs, Waits, Live
  <2> QED  BY <1>1, <1>2, <2>1, QueuedSame
<1>8. Shape'
  BY <1>1, <1>2, <1>3, <1>6 DEF Shape
<1>9. NoneLeft' /\ StoppedApart' /\ StepOK'
  BY <1>1, <1>3, NoStepOK DEF NoneLeft, StoppedApart
<1>10. PausedCounted'
  BY <1>1, <1>2, PausedSame DEF Paused
<1>11. FlightOK'
  BY <1>1, <1>2, <1>5 DEF FlightOK, FlightType
<1>12. \A x \in Reqs : Alive(x, req[x], sent[x], todo, batches)'
  <2>1. \A x \in Reqs : Alive(x, req[x], sent[x], todo', batches')
    BY <1>2, <1>5, AliveKept
  <2> QED  BY <1>1, <2>1
<1> QED  BY <1>7, <1>8, <1>9, <1>10, <1>11, <1>12 DEF Inv, IInv

\* ... and what that leaves of the others.
LEMMA FlightOthers ==
  ASSUME NEW t, NEW b, FlightType(t, b), t # <<>>, NEW r, Head(t).r # r
  PROVE  /\ \A plan \in Counts : InFlight(Tail(t), b, r, plan) = InFlight(t, b, r, plan)
         /\ Ended(t, b, r) => Ended(Tail(t), b, r)
BY FlightTail

\* A row is taken off todo, and its request becomes p.
LEMMA TakenInv ==
  ASSUME Inv, Updating, todo' = Tail(todo), NEW p \in RequestType,
         req' = [req EXCEPT ![Head(todo).r] = p], p.status # "ABSENT",
         UNCHANGED <<pc, running, skip, step, batches, errors, slots, sent, short>>,
         waiting' \in Seq(Reqs), skipped' \in Seq(Reqs), Queued', PausedCounted', StoppedApart',
         stopped' \in [ran : SUBSET Reqs, preempted : SUBSET Reqs], flush' \subseteq Reqs,
         Alive(Head(todo).r, p, sent[Head(todo).r], Tail(todo), batches)
  PROVE  Inv'
<1> DEFINE row == Head(todo)
           r == row.r
<1>1. /\ pc = "update" /\ todo # <<>> /\ pc' = pc /\ running' = running /\ skip' = skip
      /\ step' = step /\ batches' = batches /\ errors' = errors /\ slots' = slots
      /\ sent' = sent /\ short' = short
  BY DEF Updating
<1>2. /\ Shape /\ FlightOK /\ req \in [Reqs -> RequestType] /\ todo \in Seq(RowType)
      /\ batches \in Seq(Seq(RowType)) /\ skip = <<>> /\ step = NoStep
      /\ \A x \in Reqs : Alive(x, req[x], sent[x], todo, batches)
  BY <1>1 DEF Inv, IInv, Shape, NoneLeft
<1>3. FlightType(todo, batches)
  BY Flight
<1>4. /\ Flying(Tail(todo), batches) \subseteq Flying(todo, batches)
      /\ FlightType(Tail(todo), batches) /\ row \in RowType
  BY <1>1, <1>3, FlightTail
<1>5. r \in Reqs
  BY <1>4 DEF RowType
<1>6. req' \in [Reqs -> RequestType] /\ req'[r] = p /\ \A x \in Reqs : x # r => req'[x] = req[x]
  BY <1>2, <1>5, OneChanges
<1>7. Shape'
  <2>1. todo' \in Seq(RowType)
    BY <1>4 DEF FlightType
  <2> QED  BY <1>1, <1>2, <1>6, <2>1 DEF Shape
<1>8. NoneLeft' /\ StepOK'
  BY <1>1, <1>2, NoStepOK DEF NoneLeft
<1>9. FlightOK'
  <2>1. \A y \in Flying(Tail(todo), batches) : y.r \in Reqs /\ req[y.r].status # "ABSENT"
    <3>1. \A y \in Flying(todo, batches) : y.r \in Reqs
      BY <1>3, FlyingRows
    <3> QED  BY <1>2, <1>4, <3>1 DEF FlightOK
  <2>2. \A y \in Flying(Tail(todo), batches) : req'[y.r].status # "ABSENT"
    BY <1>6, <2>1
  <2> QED  BY <1>1, <1>4, <2>2 DEF FlightOK, FlightType
<1>10. ASSUME NEW x \in Reqs PROVE Alive(x, req[x], sent[x], todo, batches)'
  <2>1. CASE x # r
    <3>1. /\ \A plan \in Counts :
               InFlight(Tail(todo), batches, x, plan) = InFlight(todo, batches, x, plan)
          /\ Ended(todo, batches, x) => Ended(Tail(todo), batches, x)
      BY <1>1, <1>3, <2>1, FlightOthers
    <3>2. Alive(x, req[x], sent[x], Tail(todo), batches)
      BY <1>2, <3>1, AliveKept
    <3> QED  BY <1>1, <1>6, <2>1, <3>2
  <2>2. CASE x = r
    BY <1>1, <1>6, <2>2
  <2> QED  BY <2>1, <2>2
<1> QED  BY <1>7, <1>8, <1>9, <1>10 DEF Inv, IInv

LEMMA IgnoreOutputInv ==
  ASSUME Inv, IgnoreOutput
  PROVE  Inv'
<1> DEFINE r == Head(todo).r
<1>1. /\ Updating /\ ~Live(r) /\ todo' = Tail(todo) /\ todo # <<>>
      /\ req' = req /\ UNCHANGED queues /\ stopped' = stopped /\ flush' = flush
      /\ UNCHANGED num_waiting_for_streaming_input
      /\ UNCHANGED <<pc, running, skip, step, batches, errors, slots, sent, short>>
      /\ waiting' = waiting /\ skipped' = skipped /\ UNCHANGED batches
  BY DEF IgnoreOutput, queues, Updating
<1>2. /\ Queued /\ Shape /\ PausedCounted /\ FlightOK /\ StoppedApart
      /\ req \in [Reqs -> RequestType]
  BY DEF Inv, IInv, Shape
<1>3. Head(todo) \in Flying(todo, batches) /\ Head(todo) \in RowType
  BY <1>1, Flight, FlightTail
<1>4. r \in Reqs /\ req[r].status # "ABSENT" /\ req[r] \in RequestType
  BY <1>2, <1>3 DEF RowType, FlightOK
<1>5. req' = [req EXCEPT ![r] = req[r]]
  BY <1>1, <1>2, <1>4
<1>6. Queued'
  <2>1. \A x \in Reqs : (Runs(x)' <=> Runs(x)) /\ (Waits(x)' <=> Waits(x))
    BY <1>1 DEF Runs, Waits, Live
  <2> QED  BY <1>1, <1>2, <2>1, QueuedSame
<1>7. /\ waiting' \in Seq(Reqs) /\ skipped' \in Seq(Reqs) /\ flush' \subseteq Reqs
      /\ stopped' \in [ran : SUBSET Reqs, preempted : SUBSET Reqs]
  BY <1>1, <1>2 DEF Shape
<1>8. PausedCounted' /\ StoppedApart'
  BY <1>1, <1>2, PausedSame DEF Paused, StoppedApart
<1>9. Alive(r, req[r], sent[r], Tail(todo), batches)
  BY <1>1 DEF Alive, Live
<1> QED  BY <1>1, <1>4, <1>5, <1>6, <1>7, <1>8, <1>9, TakenInv

\* The request of a row that is answered.
LEMMA Answered ==
  ASSUME Inv, Updating, Live(Head(todo).r)
  PROVE  LET row == Head(todo)
             r == row.r
             q == req[r]
             t == Tail(todo)
             left == InFlight(t, batches, r, "computed")
         IN  /\ row \in RowType /\ r \in Reqs /\ q \in RequestType /\ row.drafts < row.n
             /\ (row.samples \/ row.drafts = 0)
             /\ row.n <= q.in_flight /\ q.in_flight - row.n = left /\ left \in Nat
             /\ Held(q) /\ InputOK(r, q, sent[r]) /\ ~Paused(r)
             /\ q.status = "RUNNING" =>
                  /\ q.stale = 0 /\ Ended(t, batches, r)
                  /\ row.samples => /\ q.placeholders = left + 1 + row.drafts
                                    /\ InFlight(t, batches, r, "planned") = left
                                    /\ q.computed + 1 = Len(q.text) + q.placeholders
                  /\ ~row.samples => /\ RanOK(r, q, t, batches)
                                     /\ Len(q.kv) + row.n <= Len(q.text)
             /\ q.status # "RUNNING" =>
                  /\ q.stale = q.in_flight /\ q.stale > 0 /\ q.computed < Len(q.text)
                  /\ q.placeholders = 0 /\ r \notin Streams
<1> DEFINE row == Head(todo)
           r == row.r
           q == req[r]
           t == Tail(todo)
           left == InFlight(t, batches, r, "computed")
           lp == InFlight(t, batches, r, "planned")
           all == InFlight(todo, batches, r, "computed")
           ap == InFlight(todo, batches, r, "planned")
<1>1. /\ req \in [Reqs -> RequestType] /\ todo # <<>> /\ FlightType(todo, batches)
      /\ \A x \in Reqs : Alive(x, req[x], sent[x], todo, batches)
  BY Flight DEF Inv, IInv, Shape, Updating
<1>2. /\ row \in RowType /\ row.drafts < row.n /\ (row.samples \/ row.drafts = 0)
      /\ FlightType(t, batches) /\ (Ended(todo, batches, r) => Ended(t, batches, r))
      /\ all = Weight(row, "computed") + left /\ ap = Weight(row, "planned") + lp
      /\ row.samples /\ Ended(todo, batches, r) => lp = left
  BY <1>1, FlightTail DEF Counts
<1>3. /\ Weight(row, "computed") = row.n /\ row.n \in Nat /\ row.n > 0 /\ row.drafts \in Nat
      /\ row.samples => Weight(row, "planned") = 1 + row.drafts
      /\ ~row.samples => Weight(row, "planned") = 0
  BY <1>2, WeightIs
<1>4. left \in Nat /\ lp \in Nat /\ all \in Nat /\ ap \in Nat
  <2>1. "computed" \in Counts /\ "planned" \in Counts
    BY DEF Counts
  <2> HIDE DEF t, r
  <2> QED  BY <1>1, <1>2, <2>1, LoadIs
<1>5. lp <= left
  <2> HIDE DEF t, r
  <2> QED  BY <1>2, FlightBounds
<1>6. r \in Reqs
  BY <1>2 DEF RowType
<1>7. /\ q \in RequestType /\ q.in_flight \in Nat /\ q.stale \in Nat /\ q.placeholders \in Nat
      /\ q.computed \in Nat /\ Len(q.text) \in Nat /\ Len(q.kv) \in Nat
      /\ Planned(q) = Len(q.text) + q.placeholders
  BY <1>1, <1>6, Fields
<1>8. /\ q.in_flight = all /\ Held(q) /\ InputOK(r, q, sent[r]) /\ PausedOK(r, q)
      /\ (q.status = "RUNNING" => RanOK(r, q, todo, batches))
      /\ (q.status # "RUNNING" => WaitsOK(r, q))
  BY <1>1, <1>6 DEF Alive, Live
<1> HIDE DEF row, t, left, lp, all, ap
<1>9. row.n <= q.in_flight /\ q.in_flight - row.n = left /\ q.in_flight > 0
  BY <1>2, <1>3, <1>4, <1>8
<1>10. ASSUME q.status = "RUNNING"
       PROVE  /\ q.stale = 0 /\ Ended(t, batches, r)
              /\ row.samples => /\ q.placeholders = left + 1 + row.drafts /\ lp = left
                                /\ q.computed + 1 = Len(q.text) + q.placeholders
              /\ ~row.samples => /\ RanOK(r, q, t, batches)
                                 /\ Len(q.kv) + row.n <= Len(q.text)
  <2>1. /\ q.stale = 0 /\ Ended(todo, batches, r) /\ q.placeholders = ap
        /\ q.computed < Planned(q) /\ (q.placeholders > 0 => q.computed + 1 = Planned(q))
    BY <1>8, <1>10 DEF RanOK, ap
  <2>2. Ended(t, batches, r)
    BY <1>2, <2>1
  <2>3. ASSUME row.samples
        PROVE  /\ q.placeholders = left + 1 + row.drafts /\ lp = left
               /\ q.computed + 1 = Len(q.text) + q.placeholders
    <3>1. lp = left /\ q.placeholders = (1 + row.drafts) + left
      BY <1>2, <1>3, <2>1, <2>3
    <3>2. q.placeholders = left + 1 + row.drafts /\ q.placeholders > 0
      BY <1>3, <1>4, <3>1
    <3> QED  BY <1>7, <2>1, <3>1, <3>2
  <2>4. ASSUME ~row.samples
        PROVE  RanOK(r, q, t, batches) /\ Len(q.kv) + row.n <= Len(q.text)
    <3>1. q.placeholders = lp
      BY <1>2, <1>3, <1>4, <2>1, <2>4
    <3>2. RanOK(r, q, t, batches)
      BY <2>1, <2>2, <3>1 DEF RanOK, lp
    <3>3. Len(q.kv) + q.in_flight = q.computed
      BY <1>7, <1>8, <2>1 DEF Held
    <3>4. Len(q.kv) + row.n <= Len(q.text)
      <4> DEFINE k == Len(q.kv)
                 l == Len(q.text)
                 c == q.computed
                 f == q.in_flight
                 n == row.n
      <4>1. /\ k \in Nat /\ l \in Nat /\ c \in Nat /\ f \in Nat /\ n \in Nat /\ left \in Nat
            /\ lp \in Nat /\ lp <= left /\ f - n = left /\ c < l + lp /\ k + f = c
        BY <1>3, <1>4, <1>5, <1>7, <1>9, <2>1, <3>1, <3>3
      <4> HIDE DEF k, l, c, f, n, q
      <4>2. k + n <= l
        BY <4>1
      <4> QED  BY <4>2 DEF k, n, l
    <3> QED  BY <3>2, <3>4
  <2> QED  BY <2>1, <2>2, <2>3, <2>4
<1>11. ASSUME q.status # "RUNNING"
       PROVE  /\ q.stale = q.in_flight /\ q.stale > 0 /\ q.computed < Len(q.text)
              /\ q.placeholders = 0 /\ r \notin Streams
  BY <1>8, <1>9, <1>11 DEF WaitsOK
<1>12. ~Paused(r)
  BY <1>8, <1>11 DEF Paused, PausedOK
<1> QED  BY <1>2, <1>4, <1>6, <1>7, <1>8, <1>9, <1>10, <1>11, <1>12 DEF row, t, left, lp

\* An answer, current or stale, of a request that goes on or stops.
LEMMA CommittedFacts ==
  ASSUME Inv, Updating, Live(Head(todo).r), Head(todo).samples, NEW stops \in BOOLEAN,
         NEW am \in Answers(Head(todo), stops), ~stops \/ (Head(todo).r \in Streams /\ ~CutTurns)
  PROVE  LET row == Head(todo)
             r == row.r
             q == req[r]
             t == Tail(todo)
             p == Committed(row, am[1], am[2])
         IN  /\ p \in RequestType /\ Held(p) /\ p.status = q.status
             /\ p.in_flight = InFlight(t, batches, r, "computed")
             /\ Off(p.text, Outs) = Off(q.text, Outs)
             /\ p.turn = q.turn /\ p.updates = q.updates
             /\ q.status = "RUNNING" =>
                  /\ RanOK(r, p, t, batches) /\ p.text[Len(p.text)] \in Outs
                  /\ p.placeholders = p.in_flight /\ p.computed + 1 = Len(p.text) + p.in_flight
             /\ q.status # "RUNNING" =>
                  p.stale = p.in_flight /\ p.placeholders = 0 /\ p.computed < Len(p.text)
<1> DEFINE row == Head(todo)
           r == row.r
           q == req[r]
           t == Tail(todo)
           left == InFlight(t, batches, r, "computed")
           a == am[1]
           m == am[2]
           p == Committed(row, a, m)
<1>1. /\ row \in RowType /\ q \in RequestType /\ row.drafts < row.n /\ row.samples
      /\ row.n <= q.in_flight /\ q.in_flight - row.n = left /\ left \in Nat /\ Held(q)
      /\ q.status = "RUNNING" =>
           /\ q.stale = 0 /\ Ended(t, batches, r) /\ q.placeholders = left + 1 + row.drafts
           /\ InFlight(t, batches, r, "planned") = left
           /\ q.computed + 1 = Len(q.text) + q.placeholders
      /\ q.status # "RUNNING" =>
           /\ q.stale = q.in_flight /\ q.stale > 0 /\ q.computed < Len(q.text)
           /\ q.placeholders = 0
  BY Answered
<1>2. a \in 0 .. row.drafts /\ m \in Nat /\ m = a + 1
  BY <1>1, AnswersFacts
<1>3. req \in [Reqs -> RequestType]
  BY DEF Inv, Shape
<1> HIDE DEF row, a, m, t, left
<1>4. CASE q.status = "RUNNING"
  <2>1. p = Committed(row, a, a + 1)
    BY <1>2
  <2>2. LET u == Committed(row, a, a + 1)
        IN  /\ u \in RequestType /\ Held(u) /\ u.status = q.status
            /\ u.in_flight = left /\ u.stale = 0 /\ u.placeholders = left
            /\ u.computed + 1 = Len(u.text) + left /\ u.text[Len(u.text)] \in Outs
            /\ Off(u.text, Outs) = Off(q.text, Outs) /\ u.turn = q.turn
            /\ u.updates = q.updates
    BY <1>1, <1>2, <1>3, <1>4, CommittedNow
  <2>3. /\ p \in RequestType /\ Held(p) /\ p.status = q.status
        /\ p.in_flight = left /\ p.stale = 0 /\ p.placeholders = left
        /\ p.computed + 1 = Len(p.text) + left /\ p.text[Len(p.text)] \in Outs
        /\ Off(p.text, Outs) = Off(q.text, Outs) /\ p.turn = q.turn
        /\ p.updates = q.updates
    <3> DEFINE u == Committed(row, a, a + 1)
    <3> HIDE DEF p
    <3>1. p = u
      BY <2>1
    <3> QED  BY <2>2, <3>1
  <2> HIDE DEF p, q
  <2>4. RanOK(r, p, t, batches)
    <3>1. Planned(p) = Len(p.text) + left
      BY <2>3 DEF Planned
    <3>2. p.computed \in Nat /\ Len(p.text) \in Nat
      BY <2>3, Fields
    <3>3. p.computed < Planned(p) /\ p.computed + 1 = Planned(p)
      BY <1>1, <2>3, <3>1, <3>2
    <3> QED  BY <1>1, <1>4, <2>3, <3>3 DEF RanOK
  <2> QED  BY <1>4, <2>3, <2>4 DEF row, a, m, p, q, t, left
<1>5. CASE q.status # "RUNNING"
  <2>2. /\ p \in RequestType /\ Held(p) /\ p.status = q.status
        /\ p.in_flight = left /\ p.stale = p.in_flight /\ p.placeholders = 0
        /\ p.computed < Len(p.text) /\ Off(p.text, Outs) = Off(q.text, Outs)
        /\ p.turn = q.turn /\ p.updates = q.updates
    BY <1>1, <1>2, <1>3, <1>5, CommittedStale
  <2> QED  BY <1>5, <2>2 DEF row, a, m, t, left
<1> QED  BY <1>4, <1>5

LEMMA TakeOutputInv ==
  ASSUME Inv, TakeOutput
  PROVE  Inv'
<1> DEFINE row == Head(todo)
           r == row.r
           q == req[r]
           t == Tail(todo)
           left == InFlight(t, batches, r, "computed")
<1>1. /\ Updating /\ Live(r) /\ todo' = Tail(todo) /\ UNCHANGED queues
      /\ stopped' = stopped /\ flush' = flush /\ UNCHANGED num_waiting_for_streaming_input
      /\ UNCHANGED <<pc, running, skip, step, batches, errors, slots, sent, short>>
      /\ waiting' = waiting /\ skipped' = skipped
  BY DEF TakeOutput, queues
<1>2. /\ Queued /\ Shape /\ PausedCounted /\ StoppedApart /\ req \in [Reqs -> RequestType]
  BY DEF Inv, IInv, Shape
<1>3. /\ row \in RowType /\ r \in Reqs /\ q \in RequestType /\ row.drafts < row.n
      /\ (row.samples \/ row.drafts = 0)
      /\ row.n <= q.in_flight /\ q.in_flight - row.n = left /\ left \in Nat
      /\ Held(q) /\ InputOK(r, q, sent[r]) /\ ~Paused(r)
      /\ q.status = "RUNNING" =>
           /\ q.stale = 0
           /\ ~row.samples => RanOK(r, q, t, batches) /\ Len(q.kv) + row.n <= Len(q.text)
      /\ q.status # "RUNNING" =>
           /\ q.stale = q.in_flight /\ q.stale > 0 /\ q.computed < Len(q.text)
           /\ q.placeholders = 0 /\ r \notin Streams
  BY <1>1, Answered
<1>4. \E p \in RequestType :
        /\ req' = [req EXCEPT ![r] = p] /\ p.status = q.status
        /\ Alive(r, p, sent[r], t, batches)
  <2>1. CASE ~row.samples /\ req' = [req EXCEPT ![r] = Computed(row)]
    <3> DEFINE p == Computed(row)
    <3>0. q.stale \in Nat
      BY <1>3, Fields
    <3>1. /\ p \in RequestType /\ Held(p) /\ p.in_flight = q.in_flight - row.n
          /\ p.stale = (IF q.stale = 0 THEN 0 ELSE p.in_flight)
          /\ p.status = q.status /\ p.text = q.text /\ p.computed = q.computed
          /\ p.turn = q.turn /\ p.updates = q.updates /\ p.placeholders = q.placeholders
      <4>1. row.drafts = 0
        BY <1>3, <2>1
      <4>2. q.stale = 0 \/ q.stale = q.in_flight
        BY <1>3
      <4>3. q.stale = 0 => Len(q.kv) + row.n <= Len(q.text)
        <5>1. q.stale = 0 => q.status = "RUNNING"
          BY <1>3
        <5> QED  BY <1>3, <2>1, <5>1
      <4> HIDE DEF row
      <4> QED  BY <1>2, <1>3, <4>1, <4>2, <4>3, ComputedFacts
    <3>2. req' = [req EXCEPT ![r] = p]
      BY <2>1
    <3> HIDE DEF p, q, t, row, left
    <3>3. InputOK(r, p, sent[r])
      BY <1>3, <3>1 DEF InputOK
    <3>4. q.status = "RUNNING" => RanOK(r, p, t, batches)
      <4>1. Planned(p) = Planned(q)
        BY <3>1 DEF Planned
      <4> QED  BY <1>3, <2>1, <3>1, <4>1 DEF RanOK
    <3>5. q.status # "RUNNING" => WaitsOK(r, p)
      BY <1>3, <3>0, <3>1 DEF WaitsOK
    <3>6. PausedOK(r, p)
      BY <1>3, <3>1 DEF PausedOK, Paused, q
    <3>7. Alive(r, p, sent[r], t, batches)
      BY <1>3, <3>1, <3>3, <3>4, <3>5, <3>6 DEF Alive, left
    <3> QED  BY <3>1, <3>2, <3>7
  <2>2. CASE /\ row.samples
             /\ \E am \in Answers(row, FALSE) :
                  req' = [req EXCEPT ![r] = Committed(row, am[1], am[2])]
    <3>1. PICK am \in Answers(row, FALSE) :
                  req' = [req EXCEPT ![r] = Committed(row, am[1], am[2])]
      BY <2>2
    <3> DEFINE p == Committed(row, am[1], am[2])
    <3>2. /\ p \in RequestType /\ Held(p) /\ p.status = q.status
          /\ p.in_flight = left /\ Off(p.text, Outs) = Off(q.text, Outs)
          /\ p.turn = q.turn /\ p.updates = q.updates
          /\ q.status = "RUNNING" => RanOK(r, p, t, batches)
          /\ q.status # "RUNNING" =>
               p.stale = p.in_flight /\ p.placeholders = 0 /\ p.computed < Len(p.text)
      <4>1. FALSE \in BOOLEAN
        OBVIOUS
      <4> QED  BY <1>1, <2>2, <4>1, CommittedFacts
    <3>3. req' = [req EXCEPT ![r] = p]
      BY <3>1
    <3> HIDE DEF p, q, t, row, left
    <3>4. InputOK(r, p, sent[r])
      BY <1>3, <3>2 DEF InputOK
    <3>6. q.status # "RUNNING" => WaitsOK(r, p)
      BY <1>3, <3>2 DEF WaitsOK
    <3>7. PausedOK(r, p)
      BY <1>3, <3>2 DEF PausedOK, Paused, q
    <3>8. Alive(r, p, sent[r], t, batches)
      BY <1>3, <3>2, <3>4, <3>6, <3>7 DEF Alive, left
    <3> QED  BY <3>2, <3>3, <3>8
  <2> QED  BY <2>1, <2>2 DEF TakeOutput
<1>5. PICK p \in RequestType :
        /\ req' = [req EXCEPT ![r] = p] /\ p.status = q.status
        /\ Alive(r, p, sent[r], t, batches)
  BY <1>4
<1>6. req'[r] = p /\ \A x \in Reqs : x # r => req'[x] = req[x]
  BY <1>2, <1>3, <1>5
<1>7. \A x \in Reqs : req'[x].status = req[x].status
  BY <1>5, <1>6
<1>8. Queued'
  <2>1. \A x \in Reqs : (Runs(x)' <=> Runs(x)) /\ (Waits(x)' <=> Waits(x))
    BY <1>1, <1>7 DEF Runs, Waits, Live
  <2> QED  BY <1>1, <1>2, <2>1, QueuedSame
<1>9. PausedCounted'
  BY <1>1, <1>2, <1>7, PausedSame DEF Paused
<1>10. StoppedApart'
  BY <1>1, <1>2, <1>7 DEF StoppedApart, Shape
<1>11. /\ waiting' \in Seq(Reqs) /\ skipped' \in Seq(Reqs) /\ flush' \subseteq Reqs
       /\ stopped' \in [ran : SUBSET Reqs, preempted : SUBSET Reqs]
  BY <1>1, <1>2 DEF Shape
<1>12. p.status # "ABSENT"
  BY <1>1, <1>5 DEF Live
<1> QED  BY <1>1, <1>5, <1>8, <1>9, <1>10, <1>11, <1>12, TakenInv

\* Who is remembered as stopped.
LEMMA StoppedFacts ==
  ASSUME Inv, Stopping
  PROVE  LET r == Head(todo).r
         IN  /\ Updating /\ Live(r) /\ Head(todo).samples /\ r \in Reqs /\ todo' = Tail(todo)
             /\ stopped' \in [ran : SUBSET Reqs, preempted : SUBSET Reqs]
             /\ req[r].status = "RUNNING" => /\ stopped'.ran = stopped.ran \cup {r}
                                             /\ stopped'.preempted = stopped.preempted
             /\ req[r].status # "RUNNING" => /\ stopped'.ran = stopped.ran
                                             /\ stopped'.preempted = stopped.preempted \cup {r}
             /\ r \notin stopped.preempted
<1> DEFINE r == Head(todo).r
<1>1. /\ Updating /\ Live(r) /\ Head(todo).samples /\ todo' = Tail(todo)
      /\ stopped' = IF req[r].status = "RUNNING" THEN [stopped EXCEPT !.ran = @ \cup {r}]
                    ELSE [stopped EXCEPT !.preempted = @ \cup {r}]
  BY DEF Stopping
<1>2. r \in Reqs
  BY <1>1, Answered
<1>3. stopped \in [ran : SUBSET Reqs, preempted : SUBSET Reqs] /\ StoppedApart
  BY DEF Inv, IInv, Shape
<1>4. r \notin stopped.preempted
  BY <1>1, <1>3 DEF StoppedApart, Live
<1> HIDE DEF r
<1>5. /\ stopped' \in [ran : SUBSET Reqs, preempted : SUBSET Reqs]
      /\ req[r].status = "RUNNING" => /\ stopped'.ran = stopped.ran \cup {r}
                                      /\ stopped'.preempted = stopped.preempted
      /\ req[r].status # "RUNNING" => /\ stopped'.ran = stopped.ran
                                      /\ stopped'.preempted = stopped.preempted \cup {r}
  BY <1>1, <1>2, <1>3
<1> QED  BY <1>1, <1>2, <1>4, <1>5 DEF r

LEMMA StopRequestInv ==
  ASSUME Inv, StopRequest
  PROVE  Inv'
<1> DEFINE r == Head(todo).r
<1>1. /\ Stopping /\ req' = [req EXCEPT ![r] = Gone] /\ flush' = flush \cup {r}
      /\ UNCHANGED queues /\ UNCHANGED num_waiting_for_streaming_input
      /\ UNCHANGED <<pc, running, skip, step, batches, errors, slots, sent, short>>
      /\ waiting' = waiting /\ skipped' = skipped
  BY DEF StopRequest, queues
<1>2. /\ Queued /\ Shape /\ PausedCounted /\ StoppedApart /\ req \in [Reqs -> RequestType]
      /\ stopped \in [ran : SUBSET Reqs, preempted : SUBSET Reqs] /\ flush \subseteq Reqs
  BY DEF Inv, IInv, Shape
<1>3. /\ Updating /\ Live(r) /\ r \in Reqs /\ todo' = Tail(todo)
      /\ stopped' \in [ran : SUBSET Reqs, preempted : SUBSET Reqs]
      /\ req[r].status = "RUNNING" => /\ stopped'.ran = stopped.ran \cup {r}
                                      /\ stopped'.preempted = stopped.preempted
      /\ req[r].status # "RUNNING" => /\ stopped'.ran = stopped.ran
                                      /\ stopped'.preempted = stopped.preempted \cup {r}
      /\ r \notin stopped.preempted
  BY <1>1, StoppedFacts
<1>4. ~Paused(r)
  BY <1>3, Answered
<1>5. Gone \in RequestType /\ Gone.status = "FINISHED"
  BY FreshFacts
<1>6. req'[r] = Gone /\ \A x \in Reqs : x # r => req'[x] = req[x]
  BY <1>1, <1>2, <1>3
<1>7. Queued'
  <2>1. \A x \in Reqs : (Runs(x)' <=> Runs(x)) /\ (Waits(x)' <=> Waits(x))
    BY <1>3, <1>5, <1>6 DEF Runs, Waits, Live
  <2> QED  BY <1>1, <1>2, <2>1, QueuedSame
<1>8. PausedCounted'
  <2>1. \A x \in Reqs : Paused(x)' <=> Paused(x)
    BY <1>4, <1>5, <1>6 DEF Paused
  <2> QED  BY <1>1, <1>2, <2>1, PausedSame
<1>9. StoppedApart'
  <2>1. stopped'.ran \subseteq Reqs /\ stopped'.preempted \subseteq Reqs
    BY <1>3
  <2>2. \A x \in Reqs : x \in stopped'.ran => req'[x].status # "RUNNING"
    BY <1>2, <1>3, <1>5, <1>6 DEF StoppedApart
  <2>3. \A x \in Reqs : x \in stopped'.preempted => req'[x].status = "FINISHED"
    BY <1>2, <1>3, <1>5, <1>6 DEF StoppedApart
  <2> QED  BY <2>1, <2>2, <2>3 DEF StoppedApart
<1>10. /\ waiting' \in Seq(Reqs) /\ skipped' \in Seq(Reqs) /\ flush' \subseteq Reqs
  BY <1>1, <1>2, <1>3 DEF Shape
<1>11. Alive(r, Gone, sent[r], Tail(todo), batches)
  BY <1>5 DEF Alive
<1> QED  BY <1>1, <1>3, <1>5, <1>7, <1>8, <1>9, <1>10, <1>11, TakenInv

\* A session whose turn ends joins a queue.
LEMMA TurnEndsInv ==
  ASSUME Inv, Stopping, Head(todo).r \in Streams, NEW p \in RequestType,
         req' = [req EXCEPT ![Head(todo).r] = p], NEW status, Enqueue(Head(todo).r, status),
         UNCHANGED <<pc, running, skip, step, batches, flush, errors, slots, sent, short>>,
         p.status \in {"WAITING", "WAITING_FOR_STREAMING_REQ"}, PausedCounted',
         Alive(Head(todo).r, p, sent[Head(todo).r], Tail(todo), batches)
  PROVE  Inv'
<1> DEFINE r == Head(todo).r
<1>1. /\ UNCHANGED <<pc, running, skip, step, batches, errors, slots, sent, short>>
      /\ UNCHANGED <<running, skip>> /\ flush' = flush
  OBVIOUS
<1>2. /\ Queued /\ Shape /\ StoppedApart /\ req \in [Reqs -> RequestType]
      /\ stopped \in [ran : SUBSET Reqs, preempted : SUBSET Reqs] /\ flush \subseteq Reqs
  BY DEF Inv, IInv, Shape
<1>3. /\ Updating /\ Live(r) /\ r \in Reqs /\ todo' = Tail(todo)
      /\ stopped' \in [ran : SUBSET Reqs, preempted : SUBSET Reqs]
      /\ req[r].status = "RUNNING" => /\ stopped'.ran = stopped.ran \cup {r}
                                      /\ stopped'.preempted = stopped.preempted
      /\ r \notin stopped.preempted
  BY StoppedFacts
<1>4. req[r].status = "RUNNING"
  BY <1>3, Answered
<1>5. stopped'.ran = stopped.ran \cup {r} /\ stopped'.preempted = stopped.preempted
  BY <1>3, <1>4
<1>6. req'[r] = p /\ \A x \in Reqs : x # r => req'[x] = req[x]
  BY <1>2, <1>3
<1>7. Queued' /\ waiting' \in Seq(Reqs) /\ skipped' \in Seq(Reqs)
  <2>1. ~Waits(r)
    BY <1>3, <1>4 DEF Waits
  <2>2. \A x \in Reqs : x = r => Waits(x)'
    BY <1>6 DEF Waits, Live
  <2>3. \A x \in Reqs : x # r => (Waits(x)' <=> Waits(x))
    BY <1>5, <1>6 DEF Waits, Live
  <2>4. \A x \in Reqs : Runs(x)' <=> Runs(x)
    BY <1>4, <1>5, <1>6 DEF Runs
  <2>5. ASSUME NEW x \in Reqs, x = r PROVE Queued' /\ waiting' \in Seq(Reqs) /\ skipped' \in Seq(Reqs)
    <3>1. ~Waits(x) /\ Waits(x)' /\ Enqueue(x, status)
      BY <2>1, <2>2, <2>5
    <3>2. \A y \in Reqs : y # x => (Waits(y)' <=> Waits(y))
      BY <2>3, <2>5
    <3> QED  BY <1>1, <1>2, <2>4, <3>1, <3>2, QueuedEnqueue
  <2> QED  BY <1>3, <2>5
<1>8. StoppedApart'
  <2>1. stopped'.ran \subseteq Reqs /\ stopped'.preempted \subseteq Reqs
    BY <1>3
  <2>2. \A x \in Reqs : x \in stopped'.ran => req'[x].status # "RUNNING"
    BY <1>2, <1>5, <1>6 DEF StoppedApart
  <2>3. \A x \in Reqs : x \in stopped'.preempted => req'[x].status = "FINISHED"
    BY <1>2, <1>3, <1>5, <1>6 DEF StoppedApart
  <2> QED  BY <2>1, <2>2, <2>3 DEF StoppedApart
<1> QED  BY <1>1, <1>2, <1>3, <1>7, <1>8, TakenInv

\* A session outlives its turn when nothing else of it is in flight.
LEMMA RestsAlone ==
  ASSUME Inv, Updating, Live(Head(todo).r), MayRest(Head(todo).r), ~LateTurns
  PROVE  /\ Head(todo).r \in Streams
         /\ InFlight(Tail(todo), batches, Head(todo).r, "computed") = 0
<1> DEFINE row == Head(todo)
           q == req[row.r]
           left == InFlight(Tail(todo), batches, row.r, "computed")
<1>1. row.r \in Streams /\ Drained(q, row).in_flight = 0
  BY DEF MayRest
<1>2. /\ row \in RowType /\ q \in RequestType /\ row.n <= q.in_flight
      /\ q.in_flight - row.n = left /\ (q.stale = 0 \/ q.stale = q.in_flight)
  BY Answered
<1> HIDE DEF row, q, left
<1>3. Drained(q, row).in_flight = q.in_flight - row.n
  BY <1>2, DrainedFacts
<1> QED  BY <1>1, <1>2, <1>3 DEF row, left

LEMMA ContinueSessionInv ==
  ASSUME Inv, ContinueSession, ~CutTurns, ~LateTurns
  PROVE  Inv'
<1> DEFINE row == Head(todo)
           r == row.r
           q == req[r]
           s == sent[r]
<1>1. PICK am \in Answers(row, TRUE) :
        LET p == Committed(row, am[1], am[2])
        IN  req' = [req EXCEPT ![r] = [NextTurn(p, NextUpdate(p)) EXCEPT !.updates = Remaining(p)]]
  BY DEF ContinueSession
<1> DEFINE p == Committed(row, am[1], am[2])
           c == Head(p.updates)
           next == NextTurn(p, c)
           new == [next EXCEPT !.updates = Tail(p.updates)]
<1>2. /\ Stopping /\ MayRest(r) /\ q.updates # <<>> /\ Head(q.updates) # End
      /\ req' = [req EXCEPT ![r] = new] /\ Enqueue(r, "WAITING")
      /\ UNCHANGED num_waiting_for_streaming_input
      /\ UNCHANGED <<pc, running, skip, step, batches, flush, errors, slots, sent, short>>
  BY <1>1 DEF ContinueSession, NextUpdate, Remaining
<1>3. /\ Updating /\ Live(r) /\ row.samples /\ r \in Reqs
  BY <1>2, StoppedFacts
<1>4. /\ req \in [Reqs -> RequestType] /\ sent \in [Reqs -> Nat] /\ PausedCounted
  BY DEF Inv, IInv, Shape
<1>5. /\ r \in Streams /\ InFlight(Tail(todo), batches, r, "computed") = 0
      /\ q \in RequestType /\ InputOK(r, q, s) /\ ~Paused(r) /\ q.status = "RUNNING"
  <2>1. r \in Streams /\ InFlight(Tail(todo), batches, r, "computed") = 0
    BY <1>2, <1>3, RestsAlone
  <2>2. /\ q \in RequestType /\ InputOK(r, q, s) /\ ~Paused(r)
        /\ (q.status # "RUNNING" => r \notin Streams)
    BY <1>3, Answered
  <2> QED  BY <2>1, <2>2
<1>6. /\ p \in RequestType /\ Held(p) /\ p.status = q.status
      /\ p.in_flight = 0 /\ Off(p.text, Outs) = Off(q.text, Outs)
      /\ p.turn = q.turn /\ p.updates = q.updates /\ p.stale = 0 /\ p.placeholders = 0
      /\ p.computed + 1 = Len(p.text) /\ p.text[Len(p.text)] \in Outs
  <2>1. /\ p \in RequestType /\ Held(p) /\ p.status = q.status
        /\ p.in_flight = InFlight(Tail(todo), batches, r, "computed")
        /\ Off(p.text, Outs) = Off(q.text, Outs)
        /\ p.turn = q.turn /\ p.updates = q.updates
        /\ q.status = "RUNNING" =>
             /\ RanOK(r, p, Tail(todo), batches) /\ p.text[Len(p.text)] \in Outs
             /\ p.placeholders = p.in_flight /\ p.computed + 1 = Len(p.text) + p.in_flight
    <3>1. TRUE \in BOOLEAN
      OBVIOUS
    <3> QED  BY <1>2, <1>3, <1>5, <3>1, CommittedFacts
  <2> HIDE DEF p
  <2>2. p.in_flight = 0 /\ p.placeholders = 0 /\ p.stale = 0
    BY <1>5, <2>1 DEF RanOK
  <2>3. p.computed + 1 = Len(p.text) + 0 /\ Len(p.text) \in Nat
    BY <1>5, <2>1, <2>2, Fields
  <2> QED  BY <1>5, <2>1, <2>2, <2>3
<1> HIDE DEF p
<1>7. /\ q.turn \in Nat /\ q.updates \in Seq(Nat) /\ s \in Nat
  BY <1>3, <1>4, <1>5, Fields
<1>8. /\ c = q.turn + 1 /\ Tail(q.updates) \in Seq(Nat)
      /\ Queue(Tail(q.updates), q.turn + 1, s - (q.turn + 1))
      /\ Off(q.text, Outs) = InputOf(q.turn)
  <2> DEFINE u == q.updates
             t == q.turn
             k == s - t
  <2>0. Queue(u, t, k) /\ Off(q.text, Outs) = InputOf(t)
    BY <1>5 DEF InputOK
  <2>a. u \in Seq(Nat) /\ t \in Nat /\ u # <<>> /\ Head(u) # End /\ c = Head(u)
    BY <1>2, <1>6, <1>7
  <2> HIDE DEF u, t, c, s
  <2>b. k \in Int /\ k - 1 = s - (t + 1)
    BY <1>7, <2>a
  <2>1. /\ u \in Seq(Nat) /\ t \in Nat /\ k \in Int /\ Queue(u, t, k) /\ u # <<>> /\ Head(u) # End
        /\ k - 1 = s - (t + 1) /\ Off(q.text, Outs) = InputOf(t) /\ c = Head(u)
    BY <2>0, <2>a, <2>b
  <2> HIDE DEF k
  <2>2. Head(u) = t + 1 /\ Tail(u) \in Seq(Nat) /\ Queue(Tail(u), t + 1, k - 1)
    BY <2>1, QueueNext
  <2> QED  BY <2>1, <2>2 DEF u, t
<1>9. /\ next \in RequestType /\ Held(next) /\ next.status = "WAITING"
      /\ next.computed < Len(next.text) /\ Off(next.text, Outs) = InputOf(c) /\ next.turn = c
      /\ next.in_flight = 0 /\ next.stale = 0 /\ next.placeholders = 0
  <2>1. c \in Nat /\ c = p.turn + 1 /\ Off(p.text, Outs) = InputOf(p.turn)
    BY <1>6, <1>7, <1>8
  <2> HIDE DEF c
  <2>2. /\ next \in RequestType /\ Held(next) /\ next.status = "WAITING"
        /\ next.computed < Len(next.text) /\ Off(next.text, Outs) = InputOf(c) /\ next.turn = c
        /\ next.in_flight = 0 /\ next.stale = 0 /\ next.placeholders = p.placeholders
    BY <1>6, <2>1, NextTurnFacts
  <2> QED  BY <1>6, <2>2
<1> HIDE DEF next
<1>10. /\ new \in RequestType /\ new.status = "WAITING" /\ new.text = next.text
       /\ new.computed = next.computed /\ new.kv = next.kv /\ new.turn = c
       /\ new.in_flight = 0 /\ new.stale = 0 /\ new.placeholders = 0
       /\ new.updates = Tail(q.updates)
  BY <1>6, <1>8, <1>9 DEF RequestType
<1>11. Alive(r, new, s, Tail(todo), batches)
  <2> HIDE DEF new, c, q, row, r
  <2>1. Held(new) /\ WaitsOK(r, new) /\ PausedOK(r, new)
    BY <1>9, <1>10 DEF Held, WaitsOK, PausedOK
  <2>2. c > 0
    BY <1>7, <1>8
  <2>3. InputOK(r, new, s)
    BY <1>5, <1>8, <1>9, <1>10, <2>2 DEF InputOK
  <2> QED  BY <1>5, <1>10, <2>1, <2>3 DEF Alive
<1> HIDE DEF new
<1>12. PausedCounted'
  <2>1. req'[r] = new /\ \A x \in Reqs : x # r => req'[x] = req[x]
    BY <1>2, <1>3, <1>4
  <2>2. \A x \in Reqs : Paused(x)' <=> Paused(x)
    BY <1>5, <1>10, <2>1 DEF Paused
  <2> QED  BY <1>2, <1>4, <2>2, PausedSame
<1> QED  BY <1>2, <1>5, <1>10, <1>11, <1>12, TurnEndsInv

LEMMA PauseSessionInv ==
  ASSUME Inv, PauseSession, ~CutTurns, ~LateTurns
  PROVE  Inv'
<1> DEFINE row == Head(todo)
           r == row.r
           q == req[r]
           s == sent[r]
<1>1. PICK am \in Answers(row, TRUE) :
        req' = [req EXCEPT ![r] = [Committed(row, am[1], am[2])
                                     EXCEPT !.status = "WAITING_FOR_STREAMING_REQ"]]
  BY DEF PauseSession
<1> DEFINE p == Committed(row, am[1], am[2])
           new == [p EXCEPT !.status = "WAITING_FOR_STREAMING_REQ"]
<1>2. /\ Stopping /\ MayRest(r) /\ q.updates = <<>>
      /\ req' = [req EXCEPT ![r] = new] /\ Enqueue(r, "WAITING_FOR_STREAMING_REQ")
      /\ num_waiting_for_streaming_input' = num_waiting_for_streaming_input + 1
      /\ UNCHANGED <<pc, running, skip, step, batches, flush, errors, slots, sent, short>>
  BY <1>1 DEF PauseSession
<1>3. /\ Updating /\ Live(r) /\ row.samples /\ r \in Reqs
  BY <1>2, StoppedFacts
<1>4. /\ req \in [Reqs -> RequestType] /\ sent \in [Reqs -> Nat] /\ PausedCounted /\ Queued
      /\ Shape
  BY DEF Inv, IInv, Shape
<1>5. /\ r \in Streams /\ InFlight(Tail(todo), batches, r, "computed") = 0
      /\ q \in RequestType /\ InputOK(r, q, s) /\ ~Paused(r) /\ q.status = "RUNNING"
  <2>1. r \in Streams /\ InFlight(Tail(todo), batches, r, "computed") = 0
    BY <1>2, <1>3, RestsAlone
  <2>2. /\ q \in RequestType /\ InputOK(r, q, s) /\ ~Paused(r)
        /\ (q.status # "RUNNING" => r \notin Streams)
    BY <1>3, Answered
  <2> QED  BY <2>1, <2>2
<1>6. /\ p \in RequestType /\ Held(p) /\ p.status = q.status
      /\ p.in_flight = 0 /\ Off(p.text, Outs) = Off(q.text, Outs)
      /\ p.turn = q.turn /\ p.updates = q.updates /\ p.stale = 0 /\ p.placeholders = 0
      /\ p.computed + 1 = Len(p.text) /\ p.text[Len(p.text)] \in Outs
  <2>1. /\ p \in RequestType /\ Held(p) /\ p.status = q.status
        /\ p.in_flight = InFlight(Tail(todo), batches, r, "computed")
        /\ Off(p.text, Outs) = Off(q.text, Outs)
        /\ p.turn = q.turn /\ p.updates = q.updates
        /\ q.status = "RUNNING" =>
             /\ RanOK(r, p, Tail(todo), batches) /\ p.text[Len(p.text)] \in Outs
             /\ p.placeholders = p.in_flight /\ p.computed + 1 = Len(p.text) + p.in_flight
    <3>1. TRUE \in BOOLEAN
      OBVIOUS
    <3> QED  BY <1>2, <1>3, <1>5, <3>1, CommittedFacts
  <2> HIDE DEF p
  <2>2. p.in_flight = 0 /\ p.placeholders = 0 /\ p.stale = 0
    BY <1>5, <2>1 DEF RanOK
  <2>3. p.computed + 1 = Len(p.text) + 0 /\ Len(p.text) \in Nat
    BY <1>5, <2>1, <2>2, Fields
  <2> QED  BY <1>5, <2>1, <2>2, <2>3
<1> HIDE DEF p
<1>7. /\ new \in RequestType /\ new.status = "WAITING_FOR_STREAMING_REQ" /\ new.text = p.text
      /\ new.computed = p.computed /\ new.kv = p.kv /\ new.turn = q.turn
      /\ new.in_flight = 0 /\ new.stale = 0 /\ new.placeholders = 0
      /\ new.updates = q.updates
  BY <1>6 DEF RequestType, Statuses
<1>8. Alive(r, new, s, Tail(todo), batches)
  <2> HIDE DEF new, q, row, r
  <2>1. p.computed < Len(p.text)
    <3>1. p.computed \in Nat /\ Len(p.text) \in Nat
      BY <1>6, Fields
    <3> QED  BY <1>6, <3>1
  <2>2. Held(new) /\ WaitsOK(r, new) /\ PausedOK(r, new) /\ InputOK(r, new, s)
    BY <1>2, <1>5, <1>6, <1>7, <2>1 DEF Held, WaitsOK, PausedOK, InputOK
  <2> QED  BY <1>5, <1>7, <2>2 DEF Alive
<1> HIDE DEF new
<1>9. PausedCounted'
  <2>1. req'[r] = new /\ \A x \in Reqs : x # r => req'[x] = req[x]
    BY <1>2, <1>3, <1>4
  <2>2. PausedReqs' = PausedReqs \cup {r} /\ r \notin PausedReqs
    <3>1. \A x \in Reqs : Paused(x)' <=> Paused(x) \/ x = r
      BY <1>7, <2>1 DEF Paused
    <3> QED  BY <1>3, <1>5, <3>1 DEF PausedReqs
  <2>3. Cardinality(PausedReqs \cup {r}) = Cardinality(PausedReqs) + 1
    BY <1>4, <2>2, PausedFinite, FS_AddElement
  <2> QED  BY <1>2, <1>4, <2>2, <2>3 DEF PausedCounted
<1> QED  BY <1>2, <1>5, <1>7, <1>8, <1>9, TurnEndsInv

LEMMA EndUpdateInv ==
  ASSUME Inv, EndUpdate
  PROVE  Inv'
<1> DEFINE failed == {r \in errors : Live(r)}
           ran == stopped.ran
           pre == stopped.preempted
<1>1. /\ pc = "update" /\ todo = <<>> /\ pc' = "idle" /\ stopped' = NoneStopped /\ errors' = {}
      /\ running' = Off(Off(running, ran), failed)
      /\ waiting' = Off(Off(waiting, pre), failed) /\ skipped' = Off(Off(skipped, pre), failed)
      /\ num_waiting_for_streaming_input' = StillPaused(failed)
      /\ req' = [r \in Reqs |-> IF r \in failed THEN Gone ELSE req[r]]
      /\ flush' = flush \cup failed
      /\ skip' = skip /\ step' = step /\ batches' = batches /\ todo' = todo /\ slots' = slots
      /\ sent' = sent /\ short' = short /\ UNCHANGED <<todo, batches>>
  BY DEF EndUpdate, StillRunning
<1>2. /\ Queued /\ Shape /\ PausedCounted /\ FlightOK /\ StoppedApart
      /\ todo \in Seq(RowType) /\ batches \in Seq(Seq(RowType)) /\ flush \subseteq Reqs
      /\ req \in [Reqs -> RequestType] /\ running \in Seq(Reqs) /\ waiting \in Seq(Reqs)
      /\ skipped \in Seq(Reqs) /\ failed \subseteq Reqs /\ skip = <<>> /\ step = NoStep
      /\ \A x \in Reqs : Alive(x, req[x], sent[x], todo, batches)
  BY <1>1 DEF Inv, IInv, Shape, NoneLeft
<1>3. PausedCounted'
  BY <1>1, <1>2, PausedGone
<1>4. ASSUME NEW x \in Reqs
      PROVE  /\ req'[x] \in RequestType
             /\ x \in failed => Live(x) /\ req'[x].status = "FINISHED"
             /\ x \notin failed => req'[x] = req[x]
  BY <1>1, <1>2, FreshFacts
<1> HIDE DEF failed, ran, pre
<1>5. /\ running' \in Seq(Reqs) /\ Within(running') = (Within(running) \ ran) \ failed
      /\ Once(running) => Once(running')
  BY <1>1, <1>2, OffFacts
<1>6. /\ waiting' \in Seq(Reqs) /\ Within(waiting') = (Within(waiting) \ pre) \ failed
      /\ Once(waiting) => Once(waiting')
  BY <1>1, <1>2, OffFacts
<1>7. /\ skipped' \in Seq(Reqs) /\ Within(skipped') = (Within(skipped) \ pre) \ failed
      /\ Once(skipped) => Once(skipped')
  BY <1>1, <1>2, OffFacts
<1>8. stopped'.ran = {} /\ stopped'.preempted = {}
      /\ stopped' \in [ran : SUBSET Reqs, preempted : SUBSET Reqs]
  BY <1>1 DEF NoneStopped
<1>9. Queued'
  <2>1. /\ Once(running) /\ Once(waiting) /\ Once(skipped) /\ Once(skip)
        /\ Within(running) = {x \in Reqs : Runs(x)}
        /\ Within(waiting) \cup Within(skipped) \cup Within(skip) = {x \in Reqs : Waits(x)}
        /\ Within(waiting) \cap Within(skipped) = {}
    BY <1>2 DEF Queued
  <2>2. Within(skip) = {}
    BY <1>2, Empty
  <2>3. {x \in Reqs : Runs(x)}' = ({x \in Reqs : Runs(x)} \ ran) \ failed
    <3>1. \A x \in Reqs : Runs(x)' <=> (Runs(x) /\ x \notin ran) /\ x \notin failed
      BY <1>2, <1>4, <1>8 DEF Runs, StoppedApart, ran
    <3> QED  BY <3>1
  <2>4. {x \in Reqs : Waits(x)}' = ({x \in Reqs : Waits(x)} \ pre) \ failed
    <3>1. \A x \in Reqs : Waits(x)' <=> (Waits(x) /\ x \notin pre) /\ x \notin failed
      BY <1>2, <1>4, <1>8 DEF Waits, Live, StoppedApart, pre
    <3> QED  BY <3>1
  <2>5. /\ Within(waiting') \cup Within(skipped') = {x \in Reqs : Waits(x)}'
        /\ Within(waiting') \cap Within(skipped') = {}
    BY <1>6, <1>7, <2>1, <2>2, <2>4
  <2> QED  BY <1>1, <1>5, <1>6, <1>7, <2>1, <2>2, <2>3, <2>5 DEF Queued
<1>10. req' \in [Reqs -> RequestType]
  BY <1>1, <1>4
<1>11. Shape'
  BY <1>1, <1>2, <1>5, <1>6, <1>7, <1>8, <1>10 DEF Shape
<1>12. NoneLeft' /\ StoppedApart' /\ StepOK'
  BY <1>1, <1>2, <1>8, NoStepOK DEF NoneLeft, StoppedApart
<1>13. FlightOK'
  <2>1. \A x \in Reqs : req[x].status # "ABSENT" => req'[x].status # "ABSENT"
    BY <1>4
  <2> QED  BY <1>1, <1>2, <2>1, FlightSame
<1>14. ASSUME NEW x \in Reqs PROVE Alive(x, req[x], sent[x], todo, batches)'
  <2>1. CASE x \in failed
    BY <1>4, <2>1 DEF Alive
  <2>2. CASE x \notin failed
    BY <1>1, <1>2, <1>4, <2>2
  <2> QED  BY <2>1, <2>2
<1> QED  BY <1>3, <1>9, <1>11, <1>12, <1>13, <1>14 DEF Inv, IInv

LEMMA NextInv ==
  ASSUME ~StaleTurns, ~CutTurns, ~LateTurns, Inv, [Next]_vars
  PROVE  Inv'
<1>1. ASSUME NEW r \in Reqs, AddRequest(r) PROVE Inv'
  BY <1>1, AddRequestInv
<1>2. ASSUME NEW r \in Reqs, Abort(r) \/ EndSession(r) PROVE Inv'
  BY <1>2, EndSessionInv
<1>3. ASSUME NEW r \in Reqs, QueueUpdate(r) PROVE Inv'
  BY <1>3, QueueUpdateInv
<1>4. ASSUME NEW r \in Reqs, ResumeSession(r) PROVE Inv'
  BY <1>4, ResumeSessionInv
<1>5. ASSUME NEW r \in Reqs, CompileGrammar(r) PROVE Inv'
  BY <1>5, CompileGrammarInv
<1>6. CASE BeginSchedule
  BY <1>6, BeginScheduleInv
<1>7. CASE SkipHead
  BY <1>7, SkipHeadInv
<1>8. CASE AdmitHead
  BY <1>8, AdmitHeadInv
<1>9. CASE RefuseHead
  BY <1>9, RefuseHeadInv
<1>10. CASE FinishSchedule
  BY <1>10, FinishScheduleInv
<1>11. CASE BeginUpdate
  BY <1>11, BeginUpdateInv
<1>12. CASE IgnoreOutput
  BY <1>12, IgnoreOutputInv
<1>13. CASE TakeOutput
  BY <1>13, TakeOutputInv
<1>14. CASE StopRequest
  BY <1>14, StopRequestInv
<1>15. CASE ContinueSession
  BY <1>15, ContinueSessionInv
<1>16. CASE PauseSession
  BY <1>16, PauseSessionInv
<1>17. CASE EndUpdate
  BY <1>17, EndUpdateInv
<1>18. CASE UNCHANGED vars
  <2>1. /\ pc' = pc /\ req' = req /\ running' = running /\ waiting' = waiting
        /\ skipped' = skipped /\ skip' = skip
        /\ num_waiting_for_streaming_input' = num_waiting_for_streaming_input
        /\ step' = step /\ batches' = batches /\ todo' = todo /\ stopped' = stopped
        /\ flush' = flush /\ errors' = errors /\ slots' = slots /\ sent' = sent
        /\ short' = short
    BY <1>18 DEF vars, queues
  <2>2. Shape'
    BY <2>1 DEF Inv, Shape
  <2>3. Queued' /\ NoneLeft' /\ StoppedApart' /\ PausedCounted'
    BY <2>1 DEF Inv, IInv, Queued, Runs, Waits, Live, NoneLeft, StoppedApart, PausedCounted,
                PausedReqs, Paused
  <2>4. StepOK' /\ FlightOK'
    BY <2>1 DEF Inv, IInv, StepOK, FlightOK
  <2>5. \A r \in Reqs : Alive(r, req[r], sent[r], todo, batches)'
    BY <2>1 DEF Inv, IInv
  <2> QED  BY <2>2, <2>3, <2>4, <2>5 DEF Inv, IInv
<1>19. Client => Inv'
  BY <1>1, <1>2, <1>3, <1>4 DEF Client
<1>20. Schedule => Inv'
  BY <1>6, <1>7, <1>8, <1>9, <1>10 DEF Schedule
<1>21. Update => Inv'
  BY <1>11, <1>12, <1>13, <1>14, <1>15, <1>16, <1>17 DEF Update
<1> QED  BY <1>5, <1>18, <1>19, <1>20, <1>21 DEF Next

LEMMA Inductive == ASSUME ~StaleTurns, ~CutTurns, ~LateTurns PROVE Spec => []Inv
<1>1. Inv /\ [Next]_vars => Inv'
  BY NextInv
<1> QED  BY <1>1, InitInv, PTL DEF Spec

----------------------------------------------------------------------------
(* What it gives.                                                          *)

LEMMA ContextHolds == Inv => ContextMatchesKV
<1> SUFFICES ASSUME Inv, NEW r \in Reqs, Live(r)
             PROVE  LET q == req[r]
                    IN  /\ \A i \in 1 .. Least(Settled(q), Len(q.text)) :
                             i \in DOMAIN q.kv /\ q.kv[i] = q.text[i]
                        /\ q.in_flight = 0 => q.computed < Len(q.text)
  BY DEF ContextMatchesKV
<1> DEFINE q == req[r]
<1>1. q \in RequestType /\ Alive(r, q, sent[r], todo, batches)
  BY DEF Inv, IInv, Shape
<1>2. /\ q.in_flight = InFlight(todo, batches, r, "computed") /\ Held(q)
      /\ q.status = "RUNNING" => RanOK(r, q, todo, batches)
      /\ q.status # "RUNNING" => WaitsOK(r, q)
  BY <1>1 DEF Alive, Live
<1>3. Settled(q) = Len(q.kv)
  <2> DEFINE c == q.computed
             f == q.in_flight
             e == q.stale
             k == Len(q.kv)
  <2>1. c \in Nat /\ f \in Nat /\ e \in Nat /\ k \in Nat /\ k + f = c + e
    BY <1>1, <1>2, Fields DEF Held
  <2>2. Settled(q) = c - (f - e)
    BY DEF Settled
  <2> HIDE DEF c, f, e, k, q
  <2>3. c - (f - e) = k
    BY <2>1
  <2> QED  BY <2>2, <2>3 DEF k
<1>4. \A i \in 1 .. Least(Settled(q), Len(q.text)) : i \in DOMAIN q.kv /\ q.kv[i] = q.text[i]
  <2>1. q.kv \in Seq(Token) /\ Len(q.kv) \in Nat /\ Len(q.text) \in Nat
    BY <1>1, Fields
  <2>2. DOMAIN q.kv = 1 .. Len(q.kv)
    BY <2>1
  <2>3. Least(Settled(q), Len(q.text)) = Len(q.kv)
    BY <1>2, <1>3, <2>1 DEF Least, Held
  <2> QED  BY <1>2, <2>2, <2>3 DEF Held
<1>5. ASSUME q.in_flight = 0 PROVE q.computed < Len(q.text)
  <2>1. InFlight(todo, batches, r, "planned") = 0
    BY <1>2, <1>5, Flight, NoneInFlight
  <2>2. CASE q.status = "RUNNING"
    <3>1. q.placeholders = 0 /\ q.computed < Planned(q)
      BY <1>2, <2>1, <2>2 DEF RanOK
    <3>2. Planned(q) = Len(q.text) + 0 /\ Len(q.text) \in Nat
      BY <1>1, <3>1, Fields
    <3> QED  BY <3>1, <3>2
  <2>3. CASE q.status # "RUNNING"
    BY <1>2, <2>3 DEF WaitsOK
  <2> QED  BY <2>2, <2>3
<1> QED  BY <1>4, <1>5

LEMMA InputHolds == Inv => InputInOrder
<1> SUFFICES ASSUME Inv, NEW r \in Reqs, Live(r)
             PROVE  /\ Off(req[r].text, Outs) = InputOf(req[r].turn)
                    /\ Off(req[r].updates, {End})
                         = [i \in 1 .. sent[r] - req[r].turn |-> req[r].turn + i]
  BY DEF InputInOrder, Outs, InputOf
<1> DEFINE q == req[r]
           u == q.updates
           t == q.turn
           k == sent[r] - t
<1>1. /\ q \in RequestType /\ sent[r] \in Nat /\ Alive(r, q, sent[r], todo, batches)
  BY DEF Inv, IInv, Shape
<1>2. InputOK(r, q, sent[r])
  BY <1>1 DEF Alive, Live
<1>3. Off(q.text, Outs) = InputOf(t) /\ Queue(u, t, k)
  BY <1>2 DEF InputOK
<1>4. u \in Seq(Nat) /\ t \in Nat /\ k \in Int
  BY <1>1, Fields
<1> HIDE DEF u, t, k
<1>5. Off(u, {End}) = [i \in 1 .. k |-> t + i]
  BY <1>3, <1>4, QueueHolds
<1> QED  BY <1>3, <1>5 DEF u, t, k

LEMMA QueuesHold == Inv => QueuesExact
<1> SUFFICES ASSUME Inv, pc = "idle", NEW r \in Reqs
             PROVE  /\ Places(running, r) = (IF req[r].status = "RUNNING" THEN 1 ELSE 0)
                    /\ Places(waiting \o skipped, r)
                         = (IF Live(r) /\ req[r].status # "RUNNING" THEN 1 ELSE 0)
  BY DEF QueuesExact
<1>1. /\ \A x \in Reqs : /\ Runs(x) <=> req[x].status = "RUNNING"
                         /\ Waits(x) <=> Live(x) /\ req[x].status # "RUNNING"
  BY Between
<1>2. Within(skip) = {}
  BY Idle
<1>3. /\ Once(running) /\ Once(waiting) /\ Once(skipped)
      /\ Within(running) = {x \in Reqs : Runs(x)}
      /\ Within(waiting) \cup Within(skipped) \cup Within(skip) = {x \in Reqs : Waits(x)}
      /\ Within(waiting) \cap Within(skipped) = {}
      /\ waiting \in Seq(Reqs) /\ skipped \in Seq(Reqs)
  BY DEF Inv, IInv, Queued, Shape
<1>4. /\ Within(waiting \o skipped) = Within(waiting) \cup Within(skipped)
      /\ Once(waiting \o skipped)
  BY <1>3, OnceConcat
<1>5. Places(running, r) = (IF r \in Within(running) THEN 1 ELSE 0)
  BY <1>3, PlacesIs
<1>6. Places(waiting \o skipped, r) = (IF r \in Within(waiting \o skipped) THEN 1 ELSE 0)
  BY <1>4, PlacesIs
<1>7. r \in Within(running) <=> req[r].status = "RUNNING"
  BY <1>1, <1>3
<1>8. r \in Within(waiting \o skipped) <=> (Live(r) /\ req[r].status # "RUNNING")
  BY <1>1, <1>2, <1>3, <1>4
<1> QED  BY <1>5, <1>6, <1>7, <1>8

LEMMA WorkHolds == Inv => WorkDetected
<1> SUFFICES ASSUME Inv, pc = "idle"
             PROVE  Unfinished > 0 <=> \E r \in Reqs : Live(r) /\ ~Paused(r)
  BY DEF WorkDetected
<1> DEFINE R == Within(running)
           A == Within(waiting)
           B == Within(skipped)
           W == A \cup B
           P == PausedReqs
           D == W \ P
<1>1. /\ \A x \in Reqs : /\ Runs(x) <=> req[x].status = "RUNNING"
                         /\ Waits(x) <=> Live(x) /\ req[x].status # "RUNNING"
  BY Between
<1>2. Within(skip) = {}
  BY Idle
<1>3. /\ Once(running) /\ Once(waiting) /\ Once(skipped)
      /\ R = {x \in Reqs : Runs(x)}
      /\ W \cup Within(skip) = {x \in Reqs : Waits(x)} /\ A \cap B = {}
      /\ running \in Seq(Reqs) /\ waiting \in Seq(Reqs) /\ skipped \in Seq(Reqs)
      /\ PausedCounted
  BY DEF Inv, IInv, Queued, Shape
<1>4. P \subseteq W
  <2>1. \A x \in P : x \in Reqs /\ Waits(x)
    BY <1>1 DEF PausedReqs, Paused, Live
  <2> QED  BY <1>2, <1>3, <2>1
<1>5. (\E r \in Reqs : Live(r) /\ ~Paused(r)) <=> (R # {} \/ D # {})
  <2>1. ASSUME NEW r \in Reqs, Live(r), ~Paused(r) PROVE r \in R \/ r \in D
    <3>1. r \in R \/ r \in W
      BY <1>1, <1>2, <1>3, <2>1
    <3> QED  BY <2>1, <3>1 DEF PausedReqs
  <2>2. ASSUME NEW r \in R PROVE r \in Reqs /\ Live(r) /\ ~Paused(r)
    BY <1>1, <1>3, <2>2 DEF Live, Paused
  <2>3. ASSUME NEW r \in D PROVE r \in Reqs /\ Live(r) /\ ~Paused(r)
    BY <1>1, <1>2, <1>3, <2>3 DEF PausedReqs
  <2> QED  BY <2>1, <2>2, <2>3
<1>6. /\ IsFiniteSet(R) /\ Cardinality(R) = Len(running)
      /\ IsFiniteSet(A) /\ Cardinality(A) = Len(waiting)
      /\ IsFiniteSet(B) /\ Cardinality(B) = Len(skipped)
  BY <1>3, LengthIs
<1>7. num_waiting_for_streaming_input = Cardinality(P)
  BY <1>3 DEF PausedCounted
<1>8. Unfinished = Len(waiting) + Len(skipped) - num_waiting_for_streaming_input + Len(running)
  BY DEF Unfinished
<1> HIDE DEF R, A, B, P
<1>9. IsFiniteSet(W) /\ Cardinality(W) = Cardinality(A) + Cardinality(B)
  <2>1. /\ IsFiniteSet(W)
        /\ Cardinality(W) = Cardinality(A) + Cardinality(B) - Cardinality(A \cap B)
    BY <1>6, FS_Union
  <2>2. Cardinality(A \cap B) = 0
    BY <1>3, FS_EmptySet
  <2>3. Cardinality(A) \in Nat /\ Cardinality(B) \in Nat
    BY <1>6, FS_CardinalityType
  <2> QED  BY <2>1, <2>2, <2>3
<1> HIDE DEF W
<1>10. IsFiniteSet(P) /\ IsFiniteSet(D) /\ P \cup D = W /\ P \cap D = {}
  <2>1. P \cup D = W /\ P \cap D = {} /\ D \subseteq W
    BY <1>4
  <2> QED  BY <1>4, <1>9, <2>1, FS_Subset
<1> HIDE DEF D
<1>11. Cardinality(W) = Cardinality(P) + Cardinality(D)
  <2>1. Cardinality(P \cup D) = Cardinality(P) + Cardinality(D) - Cardinality(P \cap D)
    BY <1>10, FS_Union
  <2>2. Cardinality(P \cap D) = 0
    BY <1>10, FS_EmptySet
  <2>3. Cardinality(P) \in Nat /\ Cardinality(D) \in Nat
    BY <1>10, FS_CardinalityType
  <2>4. Cardinality(W) = Cardinality(P) + Cardinality(D) - 0
    BY <1>10, <2>1, <2>2
  <2> QED  BY <2>3, <2>4
<1>12. /\ Cardinality(R) \in Nat /\ Cardinality(A) \in Nat /\ Cardinality(B) \in Nat
       /\ Cardinality(P) \in Nat /\ Cardinality(D) \in Nat
  BY <1>6, <1>10, FS_CardinalityType
<1>13. Unfinished = Cardinality(D) + Cardinality(R)
  BY <1>6, <1>7, <1>8, <1>9, <1>11, <1>12
<1>14. (Cardinality(R) = 0 <=> R = {}) /\ (Cardinality(D) = 0 <=> D = {})
  BY <1>6, <1>10, FS_EmptySet
<1> QED  BY <1>5, <1>12, <1>13, <1>14

LEMMA TypeHolds == ASSUME IsFiniteSet(Streams) PROVE Inv => TypeOK
<1> SUFFICES ASSUME Inv PROVE TypeOK
  OBVIOUS
<1>1. PausedReqs \subseteq Streams
  <2>1. ASSUME NEW r \in PausedReqs PROVE r \in Streams
    <3>1. r \in Reqs /\ req[r].status = "WAITING_FOR_STREAMING_REQ"
      BY DEF PausedReqs, Paused
    <3>2. Alive(r, req[r], sent[r], todo, batches)
      BY <3>1 DEF Inv, IInv
    <3> QED  BY <3>1, <3>2 DEF Alive, PausedOK
  <2> QED  BY <2>1
<1>2. /\ Cardinality(PausedReqs) \in Nat /\ Cardinality(Streams) \in Nat
      /\ Cardinality(PausedReqs) <= Cardinality(Streams)
  BY <1>1, FS_Subset, FS_CardinalityType
<1>3. num_waiting_for_streaming_input \in 0 .. Cardinality(Streams)
  BY <1>2 DEF Inv, IInv, PausedCounted
<1> QED  BY <1>3 DEF Inv, Shape, TypeOK

----------------------------------------------------------------------------
(* Theorems.                                                               *)

\* The types of Sessions, whatever clients do: the queues hold requests, counts never go
\* below zero, and num_waiting_for_streaming_input is a number of sessions.
THEOREM SessionsTyped ==
  ASSUME ~StaleTurns, ~CutTurns, ~LateTurns, IsFiniteSet(Streams)
  PROVE  Spec => []TypeOK
BY Inductive, TypeHolds, PTL

\* Whatever add_request, finish_requests, schedule() and _handle_stopped_request do to each
\* other's queues, between calls a live request is in exactly one queue and there once, in
\* running just if its status says so, and a finished one is in none.
THEOREM SessionQueuesExact ==
  ASSUME ~StaleTurns, ~CutTurns, ~LateTurns
  PROVE  Spec => []QueuesExact
BY Inductive, QueuesHold, PTL

\* get_num_unfinished_requests(), which subtracts the counter of paused sessions from the
\* lengths of the queues, is positive just if some live request is not a paused session, so
\* the engine neither sleeps over work nor spins without.
THEOREM SessionWorkDetected ==
  ASSUME ~StaleTurns, ~CutTurns, ~LateTurns
  PROVE  Spec => []WorkDetected
BY Inductive, WorkHolds, PTL

\* The KV slots a request has computed hold its text, token by token, although a turn is cut
\* and extended by _update_request_as_session while its slots stay; and with nothing in
\* flight some token is left to compute (num_new_tokens > 0, an assertion of schedule()).
THEOREM SessionContextMatchesKV ==
  ASSUME ~StaleTurns, ~CutTurns, ~LateTurns
  PROVE  Spec => []ContextMatchesKV
BY Inductive, ContextHolds, PTL

\* What a client put in is in the text in the order it was sent, with only sampled tokens
\* between, and the rest waits in streaming_queue in that order: no chunk is lost, doubled or
\* overtaken, whenever it comes.
THEOREM SessionInputInOrder ==
  ASSUME ~StaleTurns, ~CutTurns, ~LateTurns
  PROVE  Spec => []InputInOrder
BY Inductive, InputHolds, PTL

=============================================================================
