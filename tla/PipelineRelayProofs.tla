------------------------ MODULE PipelineRelayProofs ------------------------
(***************************************************************************)
(* Theorems about PipelineRelay, for every number of stages, requests,     *)
(* slots, drafts and steps in flight: the broadcasts of the last stage     *)
(* meet the receives that the other stages post for them, some stage can   *)
(* always go on, all stages read the same for a step, and the counts of    *)
(* the CPU bound what the GPU has computed.                                *)
(***************************************************************************)
EXTENDS PipelineRelay, SumTheorems, SequenceTheorems, TLAPS

----------------------------------------------------------------------------
(* Sequences of whatever elements.                                         *)

IsSeq(s) == s \in Seq({s[i] : i \in DOMAIN s})

LEMMA SeqIsSeq ==
  ASSUME NEW S, NEW s \in Seq(S)
  PROVE  IsSeq(s) /\ Len(s) \in Nat /\ DOMAIN s = 1 .. Len(s)
<1>1. Len(s) \in Nat /\ s = [i \in 1 .. Len(s) |-> s[i]] /\ DOMAIN s = 1 .. Len(s)
  OBVIOUS
<1>2. \A i \in 1 .. Len(s) : s[i] \in {s[j] : j \in DOMAIN s}
  BY <1>1
<1>3. s \in Seq({s[j] : j \in DOMAIN s})
  <2> DEFINE T == {s[j] : j \in DOMAIN s}
  <2>1. \A i \in 1 .. Len(s) : s[i] \in T
    BY <1>2
  <2> HIDE DEF T
  <2>2. s \in Seq(T)
    BY <1>1, <2>1
  <2> QED  BY <2>2 DEF T
<1> QED  BY <1>1, <1>3 DEF IsSeq

LEMMA IsSeqFacts ==
  ASSUME NEW s, IsSeq(s)
  PROVE  /\ Len(s) \in Nat /\ DOMAIN s = 1 .. Len(s)
         /\ s # <<>> => Len(s) >= 1
<1> DEFINE S == {s[i] : i \in DOMAIN s}
<1>1. s \in Seq(S)
  BY DEF IsSeq
<1> HIDE DEF S
<1>2. Len(s) \in Nat /\ DOMAIN s = 1 .. Len(s)
  BY <1>1
<1>3. s # <<>> => Len(s) >= 1
  BY <1>1, EmptySeq
<1> QED  BY <1>2, <1>3

LEMMA FunctionIsSeq ==
  ASSUME NEW s, NEW n \in Nat, DOMAIN s = 1 .. n, s = [i \in 1 .. n |-> s[i]]
  PROVE  IsSeq(s) /\ Len(s) = n
<1> DEFINE S == {s[i] : i \in DOMAIN s}
<1>1. \A i \in 1 .. n : s[i] \in S
  OBVIOUS
<1> HIDE DEF S
<1>2. s \in Seq(S) /\ Len(s) = n
  BY <1>1
<1> QED  BY <1>2 DEF IsSeq, S

LEMMA AppendSeq ==
  ASSUME NEW s, IsSeq(s), NEW x
  PROVE  /\ IsSeq(Append(s, x)) /\ Len(Append(s, x)) = Len(s) + 1
         /\ \A i \in 1 .. Len(s) : Append(s, x)[i] = s[i]
         /\ Append(s, x)[Len(s) + 1] = x
<1> DEFINE S == {s[i] : i \in DOMAIN s}
           T == S \cup {x}
<1>1. s \in Seq(S)
  BY DEF IsSeq
<1> HIDE DEF S
<1>2. s \in Seq(T) /\ x \in T
  BY <1>1
<1> HIDE DEF T
<1>3. /\ Append(s, x) \in Seq(T) /\ Len(Append(s, x)) = Len(s) + 1
      /\ \A i \in 1 .. Len(s) : Append(s, x)[i] = s[i]
      /\ Append(s, x)[Len(s) + 1] = x
  BY <1>2, AppendProperties
<1> QED  BY <1>3, SeqIsSeq

LEMMA TailSeq ==
  ASSUME NEW s, IsSeq(s), s # <<>>
  PROVE  /\ IsSeq(Tail(s)) /\ Len(Tail(s)) = Len(s) - 1
         /\ \A i \in 1 .. Len(s) - 1 : Tail(s)[i] = s[i + 1]
<1> DEFINE S == {s[i] : i \in DOMAIN s}
<1>1. s \in Seq(S)
  BY DEF IsSeq
<1> HIDE DEF S
<1>2. /\ Tail(s) \in Seq(S) /\ Len(Tail(s)) = Len(s) - 1
      /\ \A i \in 1 .. Len(s) - 1 : Tail(s)[i] = s[i + 1]
  BY <1>1, HeadTailProperties
<1> QED  BY <1>2, SeqIsSeq

LEMMA ConcatSeq ==
  ASSUME NEW s, IsSeq(s), NEW t, IsSeq(t)
  PROVE  /\ IsSeq(s \o t) /\ Len(s \o t) = Len(s) + Len(t)
         /\ \A i \in 1 .. Len(s) : (s \o t)[i] = s[i]
         /\ \A i \in 1 .. Len(t) : (s \o t)[Len(s) + i] = t[i]
<1> DEFINE S == {s[i] : i \in DOMAIN s}
           T == {t[i] : i \in DOMAIN t}
           U == S \cup T
<1>1. s \in Seq(S) /\ t \in Seq(T)
  BY DEF IsSeq
<1> HIDE DEF S, T
<1>2. s \in Seq(U) /\ t \in Seq(U)
  BY <1>1
<1> HIDE DEF U
<1>3. /\ s \o t \in Seq(U) /\ Len(s \o t) = Len(s) + Len(t)
      /\ \A i \in 1 .. Len(s) : (s \o t)[i] = s[i]
      /\ \A i \in Len(s) + 1 .. Len(s) + Len(t) : (s \o t)[i] = t[i - Len(s)]
  BY <1>2, ConcatProperties
<1>4. Len(s) \in Nat /\ Len(t) \in Nat
  BY <1>2
<1>5. \A i \in 1 .. Len(t) : (s \o t)[Len(s) + i] = t[i]
  BY <1>3, <1>4
<1> QED  BY <1>3, <1>5, SeqIsSeq

\* What is left of a sequence behind its first n elements.
LEMMA RestSeq ==
  ASSUME NEW s, IsSeq(s), NEW n \in Nat, n <= Len(s)
  PROVE  /\ IsSeq(SubSeq(s, n + 1, Len(s))) /\ Len(SubSeq(s, n + 1, Len(s))) = Len(s) - n
         /\ \A i \in 1 .. Len(s) - n : SubSeq(s, n + 1, Len(s))[i] = s[n + i]
<1> DEFINE r == SubSeq(s, n + 1, Len(s))
<1>1. Len(s) \in Nat /\ Len(s) - n \in Nat
  BY IsSeqFacts
<1>2. r = [i \in 1 .. (Len(s) - n) |-> s[n + i]]
  <2>1. (n + 1) + 0 - 1 = n /\ Len(s) - (n + 1) + 1 = Len(s) - n
    BY <1>1
  <2>2. \A i \in 1 .. Len(s) - n : i + (n + 1) - 1 = n + i
    BY <1>1
  <2>3. r = [i \in 1 .. (Len(s) - (n + 1) + 1) |-> s[i + (n + 1) - 1]]
    OBVIOUS
  <2> QED  BY <2>1, <2>2, <2>3
<1> HIDE DEF r
<1>3. IsSeq(r) /\ Len(r) = Len(s) - n
  BY <1>1, <1>2, FunctionIsSeq
<1> QED  BY <1>2, <1>3 DEF r

----------------------------------------------------------------------------
(* A stage and its wire.                                                   *)

\* The broadcasts come in threes; the i-th one belongs to group Third(i).
Third(i) == 1 + ((i - 1) \div 3)
Turn(i)  == 1 + ((i - 1) % 3)
Groups3(w) == Len(w) \div 3

\* The wire w and the pending receives q of a stage that is at step b, in `phase', when the
\* last stage is at step a: N are the steps with rows.  The i-th group on the wire belongs
\* to the i-th entry of q, or to step b when the stage has not posted its receives yet.
\* What is in q but not on the wire are the steps with rows from a on.
Paired(w, q, a, b, ph, N) ==
  /\ IsSeq(w) /\ IsSeq(q) /\ Len(w) = 3 * Groups3(w)
  /\ \A e \in 1 .. Len(q) : q[e].step \in Nat /\ q[e].step < b
  /\ \A e, f \in 1 .. Len(q) : e < f => q[e].step < q[f].step
  /\ \A i \in 1 .. Len(w) :
       /\ w[i].kind = ReceiveOrder[Turn(i)]
       /\ w[i].step = IF Third(i) <= Len(q) THEN q[Third(i)].step ELSE b
  /\ \A e \in 1 .. Len(q) : q[e].step >= a <=> e > Groups3(w)
  /\ IF a > b THEN a = b + 1 /\ ph = "sample" /\ Groups3(w) = Len(q) + 1
              ELSE Groups3(w) <= Len(q)
  /\ \A k \in Nat : a <= k /\ k < b => (k \in N <=> \E e \in 1 .. Len(q) : q[e].step = k)
  /\ ph = "sample" /\ a <= b => b \in N

LEMMA GroupsFacts ==
  ASSUME NEW w, IsSeq(w), Len(w) = 3 * Groups3(w)
  PROVE  /\ Len(w) \in Nat /\ Groups3(w) \in Nat
         /\ \A i \in 1 .. Len(w) : Third(i) \in 1 .. Groups3(w) /\ Turn(i) \in 1 .. 3
<1>1. Len(w) \in Nat
  BY IsSeqFacts
<1>2. Groups3(w) \in Nat
  BY <1>1 DEF Groups3
<1>3. \A i \in 1 .. Len(w) : Third(i) \in 1 .. Groups3(w) /\ Turn(i) \in 1 .. 3
  BY <1>1, <1>2 DEF Third, Turn
<1> QED  BY <1>1, <1>2, <1>3

\* The relay: the first group and the first entry go together.
LEMMA ConsumePaired ==
  ASSUME NEW w, NEW q, NEW a \in Nat, NEW b \in Nat, NEW ph, NEW N, Paired(w, q, a, b, ph, N),
         q # <<>>, Len(w) >= 3
  PROVE  Paired(SubSeq(w, 4, Len(w)), Tail(q), a, b, ph, N)
<1> DEFINE w1 == SubSeq(w, 4, Len(w))
           q1 == Tail(q)
           m == Groups3(w)
           n == Len(q)
<1>1. /\ IsSeq(w) /\ IsSeq(q) /\ Len(w) = 3 * m /\ Len(w) \in Nat /\ m \in Nat
      /\ n \in Nat /\ n >= 1
  BY GroupsFacts, IsSeqFacts DEF Paired
<1>2. m >= 1
  BY <1>1
<1>3. /\ IsSeq(w1) /\ Len(w1) = Len(w) - 3
      /\ \A i \in 1 .. Len(w) - 3 : w1[i] = w[3 + i]
  BY <1>1, 3 \in Nat, 3 + 1 = 4, RestSeq
<1>4. /\ IsSeq(q1) /\ Len(q1) = n - 1
      /\ \A e \in 1 .. n - 1 : q1[e] = q[e + 1]
  BY <1>1, TailSeq
<1>5. Groups3(w1) = m - 1
  <2> DEFINE j == m - 1
  <2>1. j \in Nat /\ 3 * m - 3 = 3 * j
    BY <1>1, <1>2
  <2> HIDE DEF j
  <2>2. (3 * j) \div 3 = j
    BY <2>1
  <2>3. (3 * m - 3) \div 3 = m - 1
    BY <2>1, <2>2 DEF j
  <2> QED  BY <1>1, <1>3, <2>3 DEF Groups3
<1> HIDE DEF w1, q1, m, n
<1>6. Len(w1) = 3 * Groups3(w1)
  BY <1>1, <1>3, <1>5
<1>7. \A e \in 1 .. n - 1 : e + 1 \in 1 .. n
  BY <1>1
<1>8. /\ \A e \in 1 .. n : q[e].step \in Nat /\ q[e].step < b
      /\ \A e, f \in 1 .. n : e < f => q[e].step < q[f].step
      /\ \A e \in 1 .. n : q[e].step >= a <=> e > m
      /\ \A i \in 1 .. Len(w) :
           /\ w[i].kind = ReceiveOrder[Turn(i)]
           /\ w[i].step = IF Third(i) <= n THEN q[Third(i)].step ELSE b
      /\ IF a > b THEN a = b + 1 /\ ph = "sample" /\ m = n + 1 ELSE m <= n
      /\ \A k \in Nat : a <= k /\ k < b => (k \in N <=> \E e \in 1 .. n : q[e].step = k)
      /\ ph = "sample" /\ a <= b => b \in N
  BY DEF Paired, m, n
<1>9. \A e \in 1 .. Len(q1) : q1[e].step \in Nat /\ q1[e].step < b
  BY <1>4, <1>7, <1>8
<1>10. \A e, f \in 1 .. Len(q1) : e < f => q1[e].step < q1[f].step
  <2>1. SUFFICES ASSUME NEW e \in 1 .. n - 1, NEW f \in 1 .. n - 1, e < f
                 PROVE  q[e + 1].step < q[f + 1].step
    BY <1>4
  <2>2. e + 1 < f + 1
    BY <1>1, <2>1
  <2> QED  BY <1>7, <1>8, <2>2
<1>11. \A e \in 1 .. Len(q1) : q1[e].step >= a <=> e > Groups3(w1)
  <2>1. SUFFICES ASSUME NEW e \in 1 .. n - 1
                 PROVE  q[e + 1].step >= a <=> e > m - 1
    BY <1>4, <1>5
  <2>2. e + 1 > m <=> e > m - 1
    BY <1>1
  <2> QED  BY <1>7, <1>8, <2>2
<1>12. \A i \in 1 .. Len(w1) :
         /\ w1[i].kind = ReceiveOrder[Turn(i)]
         /\ w1[i].step = IF Third(i) <= Len(q1) THEN q1[Third(i)].step ELSE b
  <2>1. SUFFICES ASSUME NEW i \in 1 .. Len(w1)
                 PROVE  /\ w1[i].kind = ReceiveOrder[Turn(i)]
                        /\ w1[i].step = IF Third(i) <= Len(q1) THEN q1[Third(i)].step ELSE b
    OBVIOUS
  <2>2. i \in 1 .. Len(w) - 3 /\ 3 + i \in 1 .. Len(w) /\ w1[i] = w[3 + i]
    BY <1>1, <1>3
  <2>3. /\ Turn(3 + i) = Turn(i) /\ Third(3 + i) = Third(i) + 1 /\ Third(i) \in Nat /\ Third(i) >= 1
    BY <1>1 DEF Turn, Third
  <2>4. w1[i].kind = ReceiveOrder[Turn(i)]
    BY <1>8, <2>2, <2>3
  <2>5. CASE Third(i) <= n - 1
    <3>1. Third(3 + i) <= n /\ Third(i) \in 1 .. n - 1
      BY <1>1, <2>3, <2>5
    <3>2. w1[i].step = q[Third(3 + i)].step
      BY <1>8, <2>2, <3>1
    <3>3. q1[Third(i)] = q[Third(3 + i)]
      BY <1>4, <2>3, <3>1
    <3> QED  BY <1>4, <2>4, <2>5, <3>2, <3>3
  <2>6. CASE ~(Third(i) <= n - 1)
    <3>1. ~(Third(3 + i) <= n)
      BY <1>1, <2>3, <2>6
    <3>2. w1[i].step = b
      BY <1>8, <2>2, <3>1
    <3> QED  BY <1>4, <2>4, <2>6, <3>2
  <2> QED  BY <2>5, <2>6
<1>13. IF a > b THEN a = b + 1 /\ ph = "sample" /\ Groups3(w1) = Len(q1) + 1
                ELSE Groups3(w1) <= Len(q1)
  BY <1>1, <1>4, <1>5, <1>8
<1>14. \A k \in Nat : a <= k /\ k < b => (k \in N <=> \E e \in 1 .. Len(q1) : q1[e].step = k)
  <2>1. SUFFICES ASSUME NEW k \in Nat, a <= k, k < b
                 PROVE  k \in N <=> \E e \in 1 .. Len(q1) : q1[e].step = k
    OBVIOUS
  <2>2. ASSUME NEW e \in 1 .. n, q[e].step = k PROVE \E f \in 1 .. n - 1 : q[f + 1].step = k
    <3>1. e > m
      BY <1>8, <2>1, <2>2
    <3>2. e - 1 \in 1 .. n - 1 /\ (e - 1) + 1 = e
      BY <1>1, <1>2, <3>1
    <3> QED  BY <2>2, <3>2
  <2>3. (\E e \in 1 .. n : q[e].step = k) <=> (\E e \in 1 .. n - 1 : q[e + 1].step = k)
    BY <1>7, <2>2
  <2>4. (\E e \in 1 .. Len(q1) : q1[e].step = k) <=> (\E e \in 1 .. n - 1 : q[e + 1].step = k)
    BY <1>4
  <2>5. k \in N <=> \E e \in 1 .. n : q[e].step = k
    BY <1>8, <2>1
  <2> QED  BY <2>3, <2>4, <2>5
<1> QED  BY <1>3, <1>4, <1>6, <1>8, <1>9, <1>10, <1>11, <1>12, <1>13, <1>14 DEF Paired, w1, q1

\* What the receives are, apart from their steps, does not matter.
LEMMA MaskPaired ==
  ASSUME NEW w, NEW q, NEW a, NEW b, NEW ph, NEW N, Paired(w, q, a, b, ph, N),
         NEW q1, IsSeq(q1), Len(q1) = Len(q), \A e \in 1 .. Len(q) : q1[e].step = q[e].step
  PROVE  Paired(w, q1, a, b, ph, N)
<1>1. IsSeq(w) /\ Len(w) = 3 * Groups3(w) /\ IsSeq(q)
  BY DEF Paired
<1>2. \A i \in 1 .. Len(w) : Third(i) \in Nat /\ Third(i) >= 1
  BY <1>1, GroupsFacts
<1>3. Len(q) \in Nat
  BY <1>1, IsSeqFacts
<1>4. \A i \in 1 .. Len(w) : Third(i) <= Len(q) => q1[Third(i)].step = q[Third(i)].step
  BY <1>2, <1>3
<1> QED  BY <1>4 DEF Paired

\* The stage runs a step without rows.
LEMMA SkipPaired ==
  ASSUME NEW w, NEW q, NEW a \in Nat, NEW b \in Nat, NEW ph, NEW N, Paired(w, q, a, b, ph, N),
         ph # "sample", b \notin N
  PROVE  Paired(w, q, a, b + 1, ph, N)
<1>1. /\ IsSeq(w) /\ Len(w) = 3 * Groups3(w) /\ IsSeq(q) /\ Len(q) \in Nat
      /\ a <= b /\ Groups3(w) <= Len(q)
  BY IsSeqFacts DEF Paired
<1>2. \A i \in 1 .. Len(w) : Third(i) <= Len(q)
  BY <1>1, GroupsFacts
<1>3. \A e \in 1 .. Len(q) : q[e].step \in Nat /\ q[e].step < b
  BY DEF Paired
<1>4. \A k \in Nat : a <= k /\ k < b + 1 => (k \in N <=> \E e \in 1 .. Len(q) : q[e].step = k)
  <2>1. SUFFICES ASSUME NEW k \in Nat, a <= k, k < b + 1
                 PROVE  k \in N <=> \E e \in 1 .. Len(q) : q[e].step = k
    OBVIOUS
  <2>2. CASE k < b
    BY <2>1, <2>2 DEF Paired
  <2>3. CASE k = b
    BY <1>3, <2>3
  <2> QED  BY <2>1, <2>2, <2>3
<1>5. \A e \in 1 .. Len(q) : q[e].step \in Nat /\ q[e].step < b + 1
  BY <1>3
<1>6. ~(a > b + 1) /\ ~(a > b)
  BY <1>1
<1> QED  BY <1>1, <1>2, <1>4, <1>5, <1>6 DEF Paired

\* The stage runs a step with rows: first the forward pass, then it posts its receives.
LEMMA BeginPaired ==
  ASSUME NEW w, NEW q, NEW a \in Nat, NEW b \in Nat, NEW ph, NEW N, Paired(w, q, a, b, ph, N),
         ph # "sample", b \in N
  PROVE  Paired(w, q, a, b, "sample", N)
<1>1. ~(a > b)
  BY DEF Paired
<1> QED  BY <1>1 DEF Paired

LEMMA PostPaired ==
  ASSUME NEW w, NEW q, NEW a \in Nat, NEW b \in Nat, NEW N, Paired(w, q, a, b, "sample", N),
         NEW x, x.step = b
  PROVE  Paired(w, Append(q, x), a, b + 1, "execute", N)
<1> DEFINE q1 == Append(q, x)
           m == Groups3(w)
           n == Len(q)
<1>1. /\ IsSeq(w) /\ IsSeq(q) /\ Len(w) = 3 * m /\ Len(w) \in Nat /\ m \in Nat /\ n \in Nat
      /\ \A i \in 1 .. Len(w) : Third(i) \in 1 .. m
  BY GroupsFacts, IsSeqFacts DEF Paired
<1>2. /\ IsSeq(q1) /\ Len(q1) = n + 1
      /\ \A e \in 1 .. n : q1[e] = q[e]
      /\ q1[n + 1].step = b
  BY <1>1, AppendSeq
<1> HIDE DEF q1
<1>3. /\ \A e \in 1 .. n : q[e].step \in Nat /\ q[e].step < b
      /\ \A e, f \in 1 .. n : e < f => q[e].step < q[f].step
      /\ \A e \in 1 .. n : q[e].step >= a <=> e > m
      /\ \A i \in 1 .. Len(w) :
           /\ w[i].kind = ReceiveOrder[Turn(i)]
           /\ w[i].step = IF Third(i) <= n THEN q[Third(i)].step ELSE b
      /\ IF a > b THEN a = b + 1 /\ m = n + 1 ELSE m <= n
      /\ \A k \in Nat : a <= k /\ k < b => (k \in N <=> \E e \in 1 .. n : q[e].step = k)
      /\ a <= b => b \in N
  BY DEF Paired
<1> HIDE DEF m, n
<1>4. \A e \in 1 .. n + 1 : e \in 1 .. n \/ e = n + 1
  BY <1>1
<1>5. \A e \in 1 .. Len(q1) : q1[e].step \in Nat /\ q1[e].step < b + 1
  BY <1>2, <1>3, <1>4
<1>6. \A e, f \in 1 .. Len(q1) : e < f => q1[e].step < q1[f].step
  <2>1. SUFFICES ASSUME NEW e \in 1 .. n + 1, NEW f \in 1 .. n + 1, e < f
                 PROVE  q1[e].step < q1[f].step
    BY <1>2
  <2>2. e \in 1 .. n
    BY <1>1, <2>1
  <2> QED  BY <1>2, <1>3, <1>4, <2>1, <2>2
<1>7. \A e \in 1 .. Len(q1) : q1[e].step >= a <=> e > m
  <2>1. b >= a <=> n + 1 > m
    BY <1>1, <1>3
  <2> QED  BY <1>2, <1>3, <1>4, <2>1
<1>8. \A i \in 1 .. Len(w) :
        w[i].step = IF Third(i) <= Len(q1) THEN q1[Third(i)].step ELSE b + 1
  <2>1. SUFFICES ASSUME NEW i \in 1 .. Len(w)
                 PROVE  w[i].step = IF Third(i) <= Len(q1) THEN q1[Third(i)].step ELSE b + 1
    OBVIOUS
  <2>2. Third(i) \in 1 .. n + 1 /\ Third(i) <= Len(q1)
    BY <1>1, <1>2, <1>3
  <2>3. CASE Third(i) <= n
    <3>1. q1[Third(i)] = q[Third(i)]
      BY <1>1, <1>2, <2>2, <2>3
    <3> QED  BY <1>3, <2>2, <2>3, <3>1
  <2>4. CASE ~(Third(i) <= n)
    <3>1. Third(i) = n + 1
      BY <1>1, <2>2, <2>4
    <3> QED  BY <1>2, <1>3, <2>2, <2>4, <3>1
  <2> QED  BY <2>3, <2>4
<1>9. ~(a > b + 1) /\ m <= Len(q1)
  BY <1>1, <1>2, <1>3
<1>10. \A k \in Nat : a <= k /\ k < b + 1 => (k \in N <=> \E e \in 1 .. Len(q1) : q1[e].step = k)
  <2>1. SUFFICES ASSUME NEW k \in Nat, a <= k, k < b + 1
                 PROVE  k \in N <=> \E e \in 1 .. n + 1 : q1[e].step = k
    BY <1>2
  <2>2. CASE k < b
    <3>1. (\E e \in 1 .. n + 1 : q1[e].step = k) <=> (\E e \in 1 .. n : q[e].step = k)
      <4>1. \A e \in 1 .. n : e \in 1 .. n + 1 /\ q1[e].step = q[e].step
        BY <1>1, <1>2
      <4>2. q1[n + 1].step # k
        BY <1>2, <2>2
      <4> QED  BY <1>4, <4>1, <4>2
    <3> QED  BY <1>3, <2>1, <2>2, <3>1
  <2>3. CASE k = b
    BY <1>1, <1>2, <1>3, <2>1, <2>3
  <2> QED  BY <2>1, <2>2, <2>3
<1> QED  BY <1>1, <1>2, <1>3, <1>5, <1>6, <1>7, <1>8, <1>9, <1>10 DEF Paired, q1, m

\* The last stage runs a step without rows, which the stage has computed.
LEMMA SkipLastPaired ==
  ASSUME NEW w, NEW q, NEW a \in Nat, NEW b \in Nat, NEW ph, NEW N, Paired(w, q, a, b, ph, N),
         b > a \/ (b = a /\ ph = "sample"), a \notin N
  PROVE  Paired(w, q, a + 1, b, ph, N)
<1>1. a < b
  BY DEF Paired
<1>2. \A e \in 1 .. Len(q) : q[e].step \in Nat /\ q[e].step # a
  BY <1>1 DEF Paired
<1>3. \A e \in 1 .. Len(q) : q[e].step >= a + 1 <=> e > Groups3(w)
  <2>1. SUFFICES ASSUME NEW e \in 1 .. Len(q) PROVE q[e].step >= a + 1 <=> q[e].step >= a
    BY DEF Paired
  <2> QED  BY <1>2
<1>4. ~(a > b) /\ ~(a + 1 > b)
  BY <1>1
<1>5. \A k \in Nat : a + 1 <= k => a <= k
  OBVIOUS
<1> QED  BY <1>1, <1>3, <1>4, <1>5 DEF Paired

\* The last stage sends what it sampled in step a, which the stage has computed.
LEMMA SendPaired ==
  ASSUME NEW w, NEW q, NEW a \in Nat, NEW b \in Nat, NEW ph, NEW N, Paired(w, q, a, b, ph, N),
         b > a \/ (b = a /\ ph = "sample"), a \in N,
         NEW t, IsSeq(t), Len(t) = 3,
         \A i \in 1 .. 3 : t[i].kind = ReceiveOrder[i] /\ t[i].step = a
  PROVE  Paired(w \o t, q, a + 1, b, ph, N)
<1> DEFINE w1 == w \o t
           m == Groups3(w)
           n == Len(q)
<1>1. /\ IsSeq(w) /\ IsSeq(q) /\ Len(w) = 3 * m /\ Len(w) \in Nat /\ m \in Nat /\ n \in Nat
      /\ \A i \in 1 .. Len(w) : Third(i) \in 1 .. m
  BY GroupsFacts, IsSeqFacts DEF Paired
<1>2. /\ IsSeq(w1) /\ Len(w1) = Len(w) + 3
      /\ \A i \in 1 .. Len(w) : w1[i] = w[i]
      /\ \A i \in 1 .. 3 : w1[Len(w) + i] = t[i]
  <2> HIDE DEF w1
  <2>1. IsSeq(w) /\ IsSeq(t)
    BY <1>1
  <2>2. /\ IsSeq(w \o t) /\ Len(w \o t) = Len(w) + Len(t)
        /\ \A i \in 1 .. Len(w) : (w \o t)[i] = w[i]
        /\ \A i \in 1 .. Len(t) : (w \o t)[Len(w) + i] = t[i]
    BY ONLY <2>1, ConcatSeq
  <2> QED  BY <2>2 DEF w1
<1>3. Groups3(w1) = m + 1
  <2>1. (3 * m + 3) \div 3 = m + 1
    BY <1>1
  <2> QED  BY <1>1, <1>2, <2>1 DEF Groups3
<1>4. /\ \A e \in 1 .. n : q[e].step \in Nat /\ q[e].step < b
      /\ \A e, f \in 1 .. n : e < f => q[e].step < q[f].step
      /\ \A e \in 1 .. n : q[e].step >= a <=> e > m
      /\ \A i \in 1 .. Len(w) :
           /\ w[i].kind = ReceiveOrder[Turn(i)]
           /\ w[i].step = IF Third(i) <= n THEN q[Third(i)].step ELSE b
      /\ m <= n
      /\ \A k \in Nat : a <= k /\ k < b => (k \in N <=> \E e \in 1 .. n : q[e].step = k)
      /\ ph = "sample" /\ a <= b => b \in N
  BY DEF Paired
<1> HIDE DEF w1, m, n
\* The group is that of the next entry, or of the step the stage is at.
<1>5. IF a < b THEN m + 1 \in 1 .. n /\ q[m + 1].step = a
               ELSE m = n /\ b = a /\ ph = "sample"
  <2>1. CASE a < b
    <3>1. PICK e \in 1 .. n : q[e].step = a
      BY <1>4, <2>1
    <3>2. e > m /\ m + 1 \in 1 .. n
      BY <1>1, <1>4, <3>1
    <3>3. q[m + 1].step >= a
      BY <1>1, <1>4, <3>2
    <3>4. e = m + 1
      <4>1. e > m + 1 => q[m + 1].step < a
        BY <1>4, <3>1, <3>2
      <4>2. q[m + 1].step \in Nat
        BY <1>4, <3>2
      <4> QED  BY <1>1, <3>2, <3>3, <4>1, <4>2
    <3> QED  BY <2>1, <3>1, <3>2, <3>4
  <2>2. CASE ~(a < b)
    <3>1. b = a /\ ph = "sample"
      BY <2>2
    <3>2. \A e \in 1 .. n : ~(e > m)
      BY <1>4, <3>1
    <3>3. m = n
      <4>1. m < n => n \in 1 .. n /\ n > m
        BY <1>1
      <4>2. ~(m < n)
        BY <3>2, <4>1
      <4>3. m <= n
        BY <1>4
      <4> QED  BY <1>1, <4>2, <4>3
    <3> QED  BY <2>2, <3>1, <3>3
  <2> QED  BY <2>1, <2>2
<1>6. \A e \in 1 .. n : q[e].step >= a + 1 <=> e > m + 1
  <2>1. SUFFICES ASSUME NEW e \in 1 .. n PROVE q[e].step >= a + 1 <=> e > m + 1
    OBVIOUS
  <2>2. CASE a < b
    <3>1. m + 1 \in 1 .. n /\ q[m + 1].step = a
      BY <1>5, <2>2
    <3>2. e > m + 1 => q[e].step > a
      BY <1>4, <3>1
    <3>3. e < m + 1 => q[e].step < a
      BY <1>4, <3>1
    <3>4. q[e].step \in Nat /\ (e = m + 1 => q[e].step = a)
      BY <1>4, <3>1
    <3> DEFINE s == q[e].step
    <3>5. s \in Nat /\ (e > m + 1 => s > a) /\ (e < m + 1 => s < a) /\ (e = m + 1 => s = a)
      BY <3>2, <3>3, <3>4
    <3> HIDE DEF s
    <3>6. e > m + 1 \/ e < m + 1 \/ e = m + 1
      BY <1>1
    <3>7. s >= a + 1 <=> e > m + 1
      <4>1. CASE e > m + 1
        BY <3>5, <4>1
      <4>2. CASE e < m + 1
        BY <1>1, <3>5, <4>2
      <4>3. CASE e = m + 1
        BY <1>1, <3>5, <4>3
      <4> QED  BY <3>6, <4>1, <4>2, <4>3
    <3> QED  BY <3>7 DEF s
  <2>3. CASE ~(a < b)
    <3>1. m = n /\ b = a
      BY <1>5, <2>3
    <3>2. q[e].step \in Nat /\ q[e].step < a /\ ~(e > m + 1)
      BY <1>1, <1>4, <3>1
    <3> QED  BY <3>2
  <2> QED  BY <2>2, <2>3
<1>7. \A i \in 1 .. Len(w1) :
        /\ w1[i].kind = ReceiveOrder[Turn(i)]
        /\ w1[i].step = IF Third(i) <= n THEN q[Third(i)].step ELSE b
  <2>1. SUFFICES ASSUME NEW i \in 1 .. Len(w1)
                 PROVE  /\ w1[i].kind = ReceiveOrder[Turn(i)]
                        /\ w1[i].step = IF Third(i) <= n THEN q[Third(i)].step ELSE b
    OBVIOUS
  <2>2. CASE i \in 1 .. Len(w)
    BY <1>2, <1>4, <2>2
  <2>3. CASE i \notin 1 .. Len(w)
    <3> DEFINE j == i - Len(w)
    <3>1. j \in 1 .. 3 /\ i = Len(w) + j
      BY <1>1, <1>2, <2>3
    <3> HIDE DEF j
    <3>2. Turn(i) = j /\ Third(i) = m + 1
      <4>1. i = 3 * m + j
        BY <1>1, <3>1
      <4>2. (3 * m + j - 1) % 3 = j - 1 /\ (3 * m + j - 1) \div 3 = m
        BY <1>1, <3>1
      <4> QED  BY <1>1, <3>1, <4>1, <4>2 DEF Turn, Third
    <3>3. w1[i].kind = ReceiveOrder[j] /\ w1[i].step = a
      BY <1>2, <3>1
    <3>4. a = IF m + 1 <= n THEN q[m + 1].step ELSE b
      BY <1>1, <1>5
    <3> QED  BY <3>2, <3>3, <3>4
  <2> QED  BY <2>2, <2>3
<1>8. IF a + 1 > b THEN a + 1 = b + 1 /\ ph = "sample" /\ m + 1 = n + 1 ELSE m + 1 <= n
  BY <1>1, <1>5
<1>9. \A k \in Nat : a + 1 <= k /\ k < b => (k \in N <=> \E e \in 1 .. n : q[e].step = k)
  BY <1>4
<1>10. ph = "sample" /\ a + 1 <= b => b \in N
  BY <1>4
<1>11. Len(w1) = 3 * Groups3(w1)
  BY <1>1, <1>2, <1>3
<1>12. Paired(w1, q, a + 1, b, ph, N)
  <2>1. /\ \A e \in 1 .. n : q[e].step \in Nat /\ q[e].step < b
        /\ \A e, f \in 1 .. n : e < f => q[e].step < q[f].step
    BY <1>4
  <2>2. IsSeq(w1) /\ IsSeq(q)
    BY <1>1, <1>2
  <2> QED  BY ONLY <1>3, <1>6, <1>7, <1>8, <1>9, <1>10, <1>11, <2>1, <2>2 DEF Paired, n
<1> QED  BY <1>12 DEF w1

\* Steps that were answered, and those to come, do not matter.
LEMMA StepsPaired ==
  ASSUME NEW w, NEW q, NEW a \in Nat, NEW b \in Nat, NEW ph, NEW N, Paired(w, q, a, b, ph, N),
         NEW M, \A k \in Nat : a <= k /\ (k < b \/ (ph = "sample" /\ k = b)) => (k \in M <=> k \in N)
  PROVE  Paired(w, q, a, b, ph, M)
BY DEF Paired


----------------------------------------------------------------------------
(* The inductive invariant.                                                *)

\* The steps in flight that have rows.
WithRows == {k \in Oldest .. current_step : InBatch(BatchOf(k)) # {}}

StageFields == {"next", "phase", "input", "pending", "table", "free"}

BatchesOK ==
  /\ current_step \in Nat /\ IsSeq(batches) /\ Len(batches) <= current_step
  /\ \A i \in DOMAIN batches : "row" \in DOMAIN batches[i]

StageOK(st) ==
  /\ DOMAIN st = StageFields
  /\ st.next \in Nat /\ st.next <= current_step + 1
  /\ st.phase \in {"execute", "sample"}
  /\ st.phase = "sample" => st.next <= current_step
  /\ IsSeq(st.pending)
  /\ \A e \in 1 .. Len(st.pending) : {"slot", "step"} \subseteq DOMAIN st.pending[e]

StagesOK ==
  /\ DOMAIN stage = Ranks /\ DOMAIN wire = Ranks \ {Last}
  /\ \A p \in Ranks : StageOK(stage[p])
  /\ Len(stage[Last].pending) = 0
  /\ Oldest <= stage[Last].next

\* A stage computes a step after all stages before it.
InOrder ==
  \A p, q \in Ranks, k \in Nat : p < q /\ ComputedBy(q, k) => ComputedBy(p, k)

WiresPaired ==
  \A p \in Ranks \ {Last} :
    Paired(wire[p], stage[p].pending, stage[Last].next, stage[p].next, stage[p].phase, WithRows)

IInv ==
  /\ BatchesOK /\ StagesOK /\ InOrder /\ WiresPaired
  /\ stage[Last].phase = "sample" => stage[Last].next \in WithRows

----------------------------------------------------------------------------
(* What the operations of a stage do to its step and its receives.         *)

LEMMA LastFacts ==
  /\ PPSize \in Nat /\ PPSize >= 2 /\ Last \in Ranks /\ Last >= 1
  /\ \A p \in Ranks : p \in Nat /\ (p # Last => p < Last)
<1>1. PPSize \in Nat /\ PPSize >= 2
  BY RelayAssumption
<1> QED  BY <1>1 DEF Last, Ranks

LEMMA MaskedSeq ==
  ASSUME NEW q, IsSeq(q), \A e \in 1 .. Len(q) : {"slot", "step"} \subseteq DOMAIN q[e], NEW freed
  PROVE  /\ IsSeq(Masked(q, freed)) /\ Len(Masked(q, freed)) = Len(q)
         /\ \A e \in 1 .. Len(q) : /\ Masked(q, freed)[e].step = q[e].step
                                   /\ {"slot", "step"} \subseteq DOMAIN Masked(q, freed)[e]
<1> DEFINE m == Masked(q, freed)
           E(e) == [q[e] EXCEPT !.slot = [r \in Reqs |-> IF @[r] \in freed THEN -1 ELSE @[r]]]
<1>1. Len(q) \in Nat /\ DOMAIN q = 1 .. Len(q)
  BY IsSeqFacts
<1>2. m = [e \in 1 .. Len(q) |-> E(e)]
  BY <1>1 DEF Masked
<1>3. ASSUME NEW e \in 1 .. Len(q)
      PROVE  E(e).step = q[e].step /\ {"slot", "step"} \subseteq DOMAIN E(e)
  OBVIOUS
<1> HIDE DEF m, E
<1>4. IsSeq(m) /\ Len(m) = Len(q)
  BY <1>1, <1>2, FunctionIsSeq
<1> QED  BY <1>2, <1>3, <1>4 DEF m

\* finish_requests and add_requests
LEMMA ReadyFields ==
  ASSUME NEW st, DOMAIN st = StageFields, IsSeq(st.pending),
         \A e \in 1 .. Len(st.pending) : {"slot", "step"} \subseteq DOMAIN st.pending[e],
         NEW freed, NEW new
  PROVE  LET ready == Added(Freed(st, freed), new)
         IN  /\ DOMAIN ready = StageFields /\ ready.next = st.next /\ ready.phase = st.phase
             /\ IsSeq(ready.pending) /\ Len(ready.pending) = Len(st.pending)
             /\ \A e \in 1 .. Len(st.pending) :
                  /\ ready.pending[e].step = st.pending[e].step
                  /\ {"slot", "step"} \subseteq DOMAIN ready.pending[e]
<1> DEFINE f == Freed(st, freed)
           ready == Added(f, new)
<1>1. PICK S : /\ DOMAIN f = StageFields /\ f.next = st.next /\ f.phase = st.phase
               /\ f.pending = Masked(st.pending, S)
  BY DEF Freed, StageFields
<1> HIDE DEF f
<1>2. /\ DOMAIN ready = StageFields /\ ready.next = f.next /\ ready.phase = f.phase
      /\ ready.pending = f.pending
  BY <1>1 DEF Added, StageFields
<1> HIDE DEF ready
<1>3. /\ IsSeq(ready.pending) /\ Len(ready.pending) = Len(st.pending)
      /\ \A e \in 1 .. Len(st.pending) :
           /\ ready.pending[e].step = st.pending[e].step
           /\ {"slot", "step"} \subseteq DOMAIN ready.pending[e]
  BY <1>1, <1>2, MaskedSeq
<1> QED  BY <1>1, <1>2, <1>3 DEF ready, f

\* update_pp_decode_requests
LEMMA RelayedFields ==
  ASSUME NEW st, DOMAIN st = StageFields, NEW entry, NEW got
  PROVE  /\ DOMAIN Relayed(st, entry, got) = StageFields
         /\ Relayed(st, entry, got).next = st.next
         /\ Relayed(st, entry, got).phase = st.phase
         /\ Relayed(st, entry, got).pending = Tail(st.pending)
BY DEF Relayed, Consumed, StageFields

\* A change of a batch that leaves its rows alone.
LEMMA SameRows ==
  ASSUME BatchesOK, NEW i \in 1 .. Len(batches), NEW x, x.row = batches[i].row, "row" \in DOMAIN x,
         batches' = [batches EXCEPT ![i] = x], current_step' = current_step
  PROVE  BatchesOK' /\ Oldest' = Oldest /\ WithRows' = WithRows
<1>1. Len(batches) \in Nat /\ DOMAIN batches = 1 .. Len(batches) /\ IsSeq(batches)
  BY IsSeqFacts DEF BatchesOK
<1>2. DOMAIN batches' = 1 .. Len(batches) /\ batches' = [j \in 1 .. Len(batches) |-> batches'[j]]
  BY <1>1
<1>3. IsSeq(batches') /\ Len(batches') = Len(batches)
  BY <1>1, <1>2, FunctionIsSeq
<1>4. \A j \in 1 .. Len(batches) : batches'[j].row = batches[j].row /\ "row" \in DOMAIN batches'[j]
  BY <1>1 DEF BatchesOK
<1>5. BatchesOK'
  BY <1>1, <1>2, <1>3, <1>4 DEF BatchesOK
<1>6. Oldest' = Oldest
  BY <1>3 DEF Oldest
<1>7. \A k \in Oldest .. current_step : k - Oldest + 1 \in 1 .. Len(batches)
  BY <1>1 DEF Oldest, BatchesOK
<1>8. \A k \in Oldest .. current_step : InBatch(BatchOf(k))' = InBatch(BatchOf(k))
  BY <1>4, <1>6, <1>7 DEF InBatch, BatchOf
<1>9. WithRows' = WithRows
  BY <1>6, <1>8 DEF WithRows
<1> QED  BY <1>5, <1>6, <1>9

\* A stage that computes one more step does so after the stage before it.
LEMMA StageInOrder ==
  ASSUME InOrder, DOMAIN stage = Ranks, NEW p \in Ranks, NEW x, stage' = [stage EXCEPT ![p] = x],
         \A k \in Nat : ComputedBy(p, k) => ComputedBy(p, k)',
         \A k \in Nat : ComputedBy(p, k)' => ComputedBy(p, k) \/ p = 0 \/ ComputedBy(p - 1, k)
  PROVE  InOrder'
<1>1. \A q \in Ranks \ {p} : stage'[q] = stage[q]
  OBVIOUS
<1>2. \A q \in Ranks \ {p}, k \in Nat : ComputedBy(q, k)' <=> ComputedBy(q, k)
  BY <1>1 DEF ComputedBy
<1>3. SUFFICES ASSUME NEW o \in Ranks, NEW q \in Ranks, NEW k \in Nat, o < q, ComputedBy(q, k)'
               PROVE  ComputedBy(o, k)'
  BY DEF InOrder
<1>4. ComputedBy(o, k)
  <2>1. CASE q # p
    BY <1>2, <1>3, <2>1 DEF InOrder
  <2>2. CASE q = p /\ ComputedBy(p, k)
    BY <1>3, <2>2 DEF InOrder
  <2>3. CASE q = p /\ ~ComputedBy(p, k)
    <3>1. p # 0 /\ p - 1 \in Ranks /\ (o = p - 1 \/ o < p - 1)
      BY <1>3, <2>3, LastFacts DEF Ranks
    <3>2. ComputedBy(p - 1, k)
      BY <1>3, <2>3, <3>1
    <3> QED  BY <3>1, <3>2 DEF InOrder
  <2> QED  BY <2>1, <2>2, <2>3
<1> QED  BY <1>2, <1>4

----------------------------------------------------------------------------
(* The invariant holds initially and is preserved by every action.         *)

LEMMA EmptyPaired == Paired(<<>>, <<>>, 1, 1, "execute", {})
<1>1. IsSeq(<<>>) /\ Len(<<>>) = 0
  BY DEF IsSeq
<1>2. Groups3(<<>>) = 0
  BY <1>1 DEF Groups3
<1> QED  BY <1>1, <1>2 DEF Paired

LEMMA InitInv == Init => IInv
<1> SUFFICES ASSUME Init PROVE IInv
  OBVIOUS
<1>1. /\ current_step = 0 /\ batches = <<>>
      /\ wire = [p \in Ranks \ {Last} |-> <<>>]
      /\ DOMAIN stage = Ranks
      /\ \A p \in Ranks : /\ DOMAIN stage[p] = StageFields /\ stage[p].next = 1
                          /\ stage[p].phase = "execute" /\ stage[p].pending = <<>>
  BY DEF Init, StageFields
<1>2. IsSeq(<<>>) /\ Len(<<>>) = 0
  BY DEF IsSeq
<1>3. BatchesOK
  BY <1>1, <1>2 DEF BatchesOK
<1>4. Oldest = 1 /\ WithRows = {}
  BY <1>1, <1>2 DEF Oldest, WithRows
<1>5. StagesOK
  BY <1>1, <1>2, <1>4, LastFacts DEF StagesOK, StageOK
<1>6. InOrder
  BY <1>1 DEF InOrder, ComputedBy
<1>7. WiresPaired
  BY <1>1, <1>4, EmptyPaired, LastFacts DEF WiresPaired
<1> QED  BY <1>1, <1>3, <1>5, <1>6, <1>7, LastFacts DEF IInv

LEMMA ExecuteInv == ASSUME NEW p \in Ranks PROVE IInv /\ Execute(p) => IInv'
<1> SUFFICES ASSUME IInv, Execute(p) PROVE IInv'
  OBVIOUS
<1> DEFINE k == stage[p].next
           b == BatchOf(k)
           n == Len(ReceiveOrder)
           st == IF Due(p) THEN Relayed(stage[p], Head(stage[p].pending), SubSeq(wire[p], 1, n))
                           ELSE stage[p]
           ready == Added(Freed(st, b.freed), b.new)
           x == IF InBatch(b) = {} THEN [ready EXCEPT !.next = k + 1]
                ELSE [ready EXCEPT !.phase = "sample", !.input = [row |-> b.row]]
           i == k - Oldest + 1
<1>1. /\ MayExecute(p)
      /\ wire' = IF Due(p) THEN [wire EXCEPT ![p] = SubSeq(@, n + 1, Len(@))] ELSE wire
      /\ stage' = [stage EXCEPT ![p] = x]
      /\ batches' = [batches EXCEPT ![i].view[p] = View(ready, b)]
      /\ current_step' = current_step
  <2> HIDE DEF i, ready, x
  <2>1. MayExecute(p) /\ current_step' = current_step
    BY DEF Execute
  <2>2. wire' = IF Due(p) THEN [wire EXCEPT ![p] = SubSeq(@, n + 1, Len(@))] ELSE wire
    BY DEF Execute
  <2>3. stage' = [stage EXCEPT ![p] = x]
    BY ZenonT(60) DEF Execute, x, ready
  <2>4. batches' = [batches EXCEPT ![i].view[p] = View(ready, b)]
    BY ZenonT(60) DEF Execute, i, ready
  <2> QED  BY <2>1, <2>2, <2>3, <2>4
<1>2. n = 3
  BY DEF ReceiveOrder
<1> HIDE DEF n, st, x
<1>3. /\ stage[p].phase = "execute" /\ k <= current_step
      /\ p > 0 => ComputedBy(p - 1, k)
      /\ Due(p) => Arrived(p)
  BY <1>1 DEF MayExecute
<1>4. /\ StageOK(stage[p]) /\ k \in Nat
      /\ DOMAIN stage[p] = StageFields /\ IsSeq(stage[p].pending)
  BY DEF IInv, StagesOK, StageOK
<1>5. stage[Last].next \in Nat /\ stage[Last].next <= k /\ Oldest <= k
  <2>1. stage[Last].next \in Nat /\ Oldest <= stage[Last].next
    BY LastFacts DEF IInv, StagesOK, StageOK
  <2>2. stage[Last].next <= k
    <3>1. CASE p = Last
      BY <2>1, <3>1
    <3>2. CASE p # Last /\ stage[Last].next > k
      <4>1. ComputedBy(Last, k)
        BY <3>2 DEF ComputedBy
      <4>2. ComputedBy(p, k)
        BY <1>4, <3>2, <4>1, LastFacts DEF IInv, InOrder
      <4> QED  BY <1>3, <1>4, <4>2 DEF ComputedBy
    <3> QED  BY <1>4, <2>1, <3>1, <3>2
  <2>3. Oldest \in Int
    BY IsSeqFacts DEF Oldest, IInv, BatchesOK
  <2> QED  BY <1>4, <2>1, <2>2, <2>3
<1>6. BatchesOK' /\ Oldest' = Oldest /\ WithRows' = WithRows
  <2>1. Len(batches) \in Nat /\ DOMAIN batches = 1 .. Len(batches)
    BY IsSeqFacts DEF IInv, BatchesOK
  <2>2. i \in 1 .. Len(batches)
    BY <1>3, <1>4, <1>5, <2>1 DEF Oldest, IInv, BatchesOK
  <2> DEFINE y == [batches[i] EXCEPT !.view = [@ EXCEPT ![p] = View(ready, b)]]
  <2>3. "row" \in DOMAIN batches[i]
    BY <2>1, <2>2 DEF IInv, BatchesOK
  <2>4. y.row = batches[i].row /\ "row" \in DOMAIN y
    BY <2>3
  <2>5. batches' = [batches EXCEPT ![i] = y]
    <3> HIDE DEF ready, i, b
    <3> QED  BY <1>1
  <2> HIDE DEF y, i
  <2> QED  BY <1>1, <2>2, <2>4, <2>5, SameRows DEF IInv
<1>7. k \in WithRows <=> InBatch(b) # {}
  BY <1>3, <1>4, <1>5 DEF WithRows, IInv, BatchesOK, Oldest
<1>8. p = Last => ~Due(p)
  <2>1. stage[Last].pending = <<>>
    BY LastFacts, IsSeqFacts DEF IInv, StagesOK, StageOK
  <2> QED  BY <2>1 DEF Due
\* The relay.
<1>9. /\ DOMAIN st = StageFields /\ st.next = k /\ st.phase = "execute"
      /\ IsSeq(st.pending)
      /\ \A e \in 1 .. Len(st.pending) : {"slot", "step"} \subseteq DOMAIN st.pending[e]
      /\ p = Last => Len(st.pending) = 0
      /\ p # Last => Paired(wire'[p], st.pending, stage[Last].next, k, "execute", WithRows)
  <2>1. CASE Due(p)
    <3>1. /\ DOMAIN st = StageFields /\ st.next = k /\ st.phase = "execute"
          /\ st.pending = Tail(stage[p].pending)
      BY <1>3, <1>4, <2>1, RelayedFields DEF st
    <3>2. /\ p # Last /\ p \in Ranks \ {Last} /\ stage[p].pending # <<>>
          /\ Len(wire[p]) >= 3 /\ wire'[p] = SubSeq(wire[p], 4, Len(wire[p]))
      BY <1>1, <1>2, <1>3, <1>8, <2>1 DEF Due, Arrived, n, IInv, StagesOK
    <3>3. Len(stage[p].pending) \in Nat /\ Len(stage[p].pending) >= 1
      BY <1>4, <3>2, IsSeqFacts
    <3>4. /\ IsSeq(st.pending) /\ Len(st.pending) = Len(stage[p].pending) - 1
          /\ \A e \in 1 .. Len(stage[p].pending) - 1 : st.pending[e] = stage[p].pending[e + 1]
      BY <1>4, <3>1, <3>2, TailSeq
    <3>5. \A e \in 1 .. Len(st.pending) : {"slot", "step"} \subseteq DOMAIN st.pending[e]
      BY <1>4, <3>3, <3>4 DEF StageOK
    <3>6. Paired(wire[p], stage[p].pending, stage[Last].next, k, "execute", WithRows)
      BY <1>3, <3>2 DEF IInv, WiresPaired
    <3>7. Paired(wire'[p], st.pending, stage[Last].next, k, "execute", WithRows)
      BY <1>4, <1>5, <3>1, <3>2, <3>6, ConsumePaired
    <3> QED  BY <3>1, <3>2, <3>4, <3>5, <3>7
  <2>2. CASE ~Due(p)
    <3>1. st = stage[p] /\ wire' = wire
      BY <1>1, <2>2 DEF st
    <3>2. p # Last => Paired(wire[p], stage[p].pending, stage[Last].next, k, "execute", WithRows)
      BY <1>3 DEF IInv, WiresPaired
    <3>3. p = Last => Len(stage[p].pending) = 0
      BY DEF IInv, StagesOK
    <3> QED  BY <1>3, <1>4, <3>1, <3>2, <3>3 DEF StageOK
  <2> QED  BY <2>1, <2>2
\* The slots.
<1>10. /\ DOMAIN ready = StageFields /\ ready.next = k /\ ready.phase = "execute"
       /\ IsSeq(ready.pending) /\ Len(ready.pending) = Len(st.pending)
       /\ \A e \in 1 .. Len(st.pending) : /\ ready.pending[e].step = st.pending[e].step
                                          /\ {"slot", "step"} \subseteq DOMAIN ready.pending[e]
  BY <1>9, ReadyFields
<1>11. p # Last => Paired(wire'[p], ready.pending, stage[Last].next, k, "execute", WithRows)
  BY <1>9, <1>10, MaskPaired
<1> HIDE DEF ready
\* The forward pass.
<1>12. /\ DOMAIN x = StageFields /\ x.pending = ready.pending
       /\ x.next = IF k \in WithRows THEN k ELSE k + 1
       /\ x.phase = IF k \in WithRows THEN "sample" ELSE "execute"
  BY <1>7, <1>10 DEF x, StageFields
<1>13. /\ stage'[p] = x /\ DOMAIN stage' = Ranks
       /\ \A q \in Ranks \ {p} : stage'[q] = stage[q]
  BY <1>1 DEF IInv, StagesOK
<1>14. DOMAIN wire' = Ranks \ {Last} /\ \A q \in Ranks \ {p} : wire'[q] = wire[q]
  BY <1>1 DEF IInv, StagesOK
<1>15. StagesOK'
  <2>1. StageOK(stage[p])'
    <3>1. /\ x.next \in Nat /\ x.next <= current_step + 1 /\ x.phase \in {"execute", "sample"}
          /\ x.phase = "sample" => x.next <= current_step
      BY <1>3, <1>4, <1>12 DEF IInv, BatchesOK
    <3>2. /\ IsSeq(x.pending)
          /\ \A e \in 1 .. Len(x.pending) : {"slot", "step"} \subseteq DOMAIN x.pending[e]
      BY <1>10, <1>12
    <3> QED  BY <1>1, <1>12, <1>13, <3>1, <3>2 DEF StageOK
  <2>2. \A q \in Ranks \ {p} : StageOK(stage[q])'
    BY <1>1, <1>13 DEF IInv, StagesOK, StageOK
  <2>3. Len(stage[Last].pending)' = 0
    <3>1. CASE p = Last
      BY <1>9, <1>10, <1>12, <1>13, <3>1
    <3>2. CASE p # Last
      BY <1>13, <3>2, LastFacts DEF IInv, StagesOK
    <3> QED  BY <3>1, <3>2
  <2>4. Oldest' <= stage'[Last].next
    <3>1. Oldest \in Int
      BY IsSeqFacts DEF Oldest, IInv, BatchesOK
    <3>2. CASE p = Last
      BY <1>4, <1>5, <1>6, <1>12, <1>13, <3>1, <3>2
    <3>3. CASE p # Last
      BY <1>6, <1>13, <3>3, LastFacts DEF IInv, StagesOK
    <3> QED  BY <3>2, <3>3
  <2> QED  BY <1>13, <1>14, <2>1, <2>2, <2>3, <2>4 DEF StagesOK
<1>16. InOrder'
  <2>1. \A j \in Nat : ComputedBy(p, j) <=> j < k
    BY <1>3, <1>4 DEF ComputedBy
  <2>2. \A j \in Nat : ComputedBy(p, j)' <=> j <= k
    BY <1>4, <1>12, <1>13 DEF ComputedBy
  <2>3. \A j \in Nat : ComputedBy(p, j) => ComputedBy(p, j)'
    BY <1>4, <2>1, <2>2
  <2>4. \A j \in Nat : ComputedBy(p, j)' => ComputedBy(p, j) \/ p = 0 \/ ComputedBy(p - 1, j)
    <3>1. \A j \in Nat : j <= k => j < k \/ j = k
      BY <1>4
    <3>2. p = 0 \/ p > 0
      BY LastFacts
    <3> QED  BY <1>3, <2>1, <2>2, <3>1, <3>2
  <2> QED  BY <1>1, <2>3, <2>4, StageInOrder DEF IInv, StagesOK
<1>17. WiresPaired'
  <2>1. SUFFICES ASSUME NEW q \in Ranks \ {Last}
                 PROVE  Paired(wire'[q], stage'[q].pending, stage'[Last].next, stage'[q].next,
                               stage'[q].phase, WithRows)
    BY <1>6 DEF WiresPaired
  <2>2. CASE q = p
    <3>1. stage'[Last] = stage[Last] /\ p # Last
      BY <1>13, <2>2, LastFacts
    <3>2. Paired(wire'[p], x.pending, stage[Last].next, k, "execute", WithRows)
      BY <1>11, <1>12, <3>1
    <3>3. CASE k \in WithRows
      BY <1>4, <1>5, <1>12, <1>13, <2>2, <3>1, <3>2, <3>3, BeginPaired
    <3>4. CASE k \notin WithRows
      BY <1>4, <1>5, <1>12, <1>13, <2>2, <3>1, <3>2, <3>4, SkipPaired
    <3> QED  BY <3>3, <3>4
  <2>3. CASE q # p /\ p # Last
    <3>1. stage'[Last] = stage[Last] /\ stage'[q] = stage[q] /\ wire'[q] = wire[q]
      BY <1>13, <1>14, <2>3, LastFacts
    <3> QED  BY <3>1 DEF IInv, WiresPaired
  <2>4. CASE p = Last
    <3>1. stage'[q] = stage[q] /\ wire'[q] = wire[q] /\ stage[q].next \in Nat
      BY <1>13, <1>14, <2>4, LastFacts DEF IInv, StagesOK, StageOK
    <3>2. Paired(wire[q], stage[q].pending, k, stage[q].next, stage[q].phase, WithRows)
      BY <2>4 DEF IInv, WiresPaired
    <3>3. CASE k \in WithRows
      BY <1>12, <1>13, <2>4, <3>1, <3>2, <3>3
    <3>4. CASE k \notin WithRows
      <4>1. ComputedBy(q, k)
        <5>1. p > 0 /\ p - 1 \in Ranks /\ (q = p - 1 \/ q < p - 1)
          BY <2>4, LastFacts DEF Ranks
        <5> QED  BY <1>3, <1>4, <5>1 DEF IInv, InOrder
      <4>2. stage[q].next > k \/ (stage[q].next = k /\ stage[q].phase = "sample")
        BY <4>1 DEF ComputedBy
      <4>3. Paired(wire[q], stage[q].pending, k + 1, stage[q].next, stage[q].phase, WithRows)
        BY <1>4, <3>1, <3>2, <3>4, <4>2, SkipLastPaired
      <4> QED  BY <1>12, <1>13, <2>4, <3>1, <3>4, <4>3
    <3> QED  BY <3>3, <3>4
  <2> QED  BY <2>2, <2>3, <2>4
<1>18. stage'[Last].phase = "sample" => stage'[Last].next \in WithRows'
  <2>1. CASE p = Last
    BY <1>6, <1>12, <1>13, <2>1
  <2>2. CASE p # Last
    BY <1>6, <1>13, <2>2, LastFacts DEF IInv
  <2> QED  BY <2>1, <2>2
<1> QED  BY <1>6, <1>15, <1>16, <1>17, <1>18 DEF IInv

LEMMA SampleOtherInv == ASSUME NEW p \in Ranks PROVE IInv /\ SampleOther(p) => IInv'
<1> SUFFICES ASSUME IInv, SampleOther(p) PROVE IInv'
  OBVIOUS
<1> DEFINE k == stage[p].next
           x == stage'[p]
<1>1. PICK new : /\ new.step = k /\ {"slot", "step"} \subseteq DOMAIN new
                 /\ stage' = [stage EXCEPT ![p] = stage'[p]]
                 /\ x.phase = "execute" /\ x.next = k + 1 /\ DOMAIN x = StageFields
                 /\ x.pending = Append(stage[p].pending, new)
  <2> DEFINE new == Posted(stage[p], k)
  <2>1. DOMAIN stage = Ranks /\ DOMAIN stage[p] = StageFields
    BY DEF IInv, StagesOK, StageOK
  <2>2. new.step = k /\ {"slot", "step"} \subseteq DOMAIN new
    BY DEF Posted
  <2> HIDE DEF new
  <2> DEFINE y == [stage[p] EXCEPT !.phase = "execute", !.next = stage[p].next + 1,
                                   !.input = NoInput,
                                   !.pending = Append(stage[p].pending, new),
                                   !.table = Advanced(stage[p].input, stage[p].table)]
  <2>3. stage' = [stage EXCEPT ![p] = y]
    BY DEF SampleOther, new
  <2>4. /\ y.phase = "execute" /\ y.next = k + 1 /\ DOMAIN y = StageFields
        /\ y.pending = Append(stage[p].pending, new)
    BY <2>1 DEF StageFields
  <2> HIDE DEF y
  <2>5. stage'[p] = y
    BY <2>1, <2>3
  <2> QED  BY <2>2, <2>3, <2>4, <2>5
<1> HIDE DEF x
<1>2. /\ p # Last /\ stage[p].phase = "sample"
      /\ batches' = batches /\ wire' = wire /\ current_step' = current_step
  BY DEF SampleOther
<1>3. /\ StageOK(stage[p]) /\ k \in Nat /\ k <= current_step /\ current_step \in Nat
      /\ IsSeq(stage[p].pending)
  BY <1>2 DEF IInv, BatchesOK, StagesOK, StageOK
<1>4. BatchesOK' /\ Oldest' = Oldest /\ WithRows' = WithRows
  BY <1>2 DEF IInv, BatchesOK, Oldest, WithRows, BatchOf, InBatch
<1>5. /\ DOMAIN stage' = Ranks /\ \A q \in Ranks \ {p} : stage'[q] = stage[q]
      /\ stage'[p] = x /\ stage'[Last] = stage[Last]
  BY <1>1, <1>2, LastFacts DEF IInv, StagesOK, x
<1>6. StagesOK'
  <2>1. StageOK(stage[p])'
    <3>1. /\ IsSeq(x.pending) /\ Len(x.pending) = Len(stage[p].pending) + 1
          /\ \A e \in 1 .. Len(stage[p].pending) : x.pending[e] = stage[p].pending[e]
          /\ x.pending[Len(stage[p].pending) + 1] = new
      BY <1>1, <1>3, AppendSeq
    <3>2. Len(stage[p].pending) \in Nat
      BY <1>3, IsSeqFacts
    <3>3. \A e \in 1 .. Len(x.pending) : {"slot", "step"} \subseteq DOMAIN x.pending[e]
      <4>1. \A e \in 1 .. Len(x.pending) :
              e \in 1 .. Len(stage[p].pending) \/ e = Len(stage[p].pending) + 1
        BY <3>1, <3>2
      <4>2. \A e \in 1 .. Len(stage[p].pending) :
              {"slot", "step"} \subseteq DOMAIN stage[p].pending[e]
        BY <1>3 DEF StageOK
      <4> QED  BY <1>1, <3>1, <4>1, <4>2
    <3>4. /\ DOMAIN x = StageFields /\ x.next \in Nat /\ x.next <= current_step + 1
          /\ x.phase = "execute"
      BY <1>1, <1>3
    <3> QED  BY <1>2, <1>5, <3>1, <3>3, <3>4 DEF StageOK
  <2>2. \A q \in Ranks \ {p} : StageOK(stage[q])'
    BY <1>2, <1>5 DEF IInv, StagesOK, StageOK
  <2> QED  BY <1>2, <1>4, <1>5, <2>1, <2>2 DEF IInv, StagesOK
<1>7. InOrder'
  <2>1. \A q \in Ranks, j \in Nat : ComputedBy(q, j)' <=> ComputedBy(q, j)
    <3>1. \A j \in Nat : ComputedBy(p, j)' <=> ComputedBy(p, j)
      <4>1. \A j \in Nat : k + 1 > j <=> (k > j \/ k = j)
        BY <1>3
      <4> QED  BY <1>1, <1>2, <1>5, <4>1 DEF ComputedBy
    <3>2. \A q \in Ranks \ {p}, j \in Nat : ComputedBy(q, j)' <=> ComputedBy(q, j)
      BY <1>5 DEF ComputedBy
    <3> QED  BY <3>1, <3>2
  <2> QED  BY <2>1 DEF IInv, InOrder
<1>8. WiresPaired'
  <2>1. SUFFICES ASSUME NEW q \in Ranks \ {Last}
                 PROVE  Paired(wire[q], stage'[q].pending, stage[Last].next, stage'[q].next,
                               stage'[q].phase, WithRows)
    BY <1>2, <1>4, <1>5 DEF WiresPaired
  <2>2. Paired(wire[q], stage[q].pending, stage[Last].next, stage[q].next, stage[q].phase, WithRows)
    BY DEF IInv, WiresPaired
  <2>3. CASE q = p
    <3>1. stage[Last].next \in Nat
      BY LastFacts DEF IInv, StagesOK, StageOK
    <3>2. Paired(wire[p], stage[p].pending, stage[Last].next, k, "sample", WithRows)
      BY <1>2, <2>2, <2>3
    <3>3. Paired(wire[p], Append(stage[p].pending, new), stage[Last].next, k + 1, "execute", WithRows)
      BY <1>1, <1>3, <3>1, <3>2, PostPaired
    <3> QED  BY <1>1, <1>5, <2>3, <3>3
  <2>4. CASE q # p
    BY <1>5, <2>2, <2>4
  <2> QED  BY <2>3, <2>4
<1> QED  BY <1>4, <1>5, <1>6, <1>7, <1>8 DEF IInv

\* The broadcasts of a step are those for which the other stages post receives.
LEMMA BroadcastsFacts ==
  ASSUME NEW b, NEW k, NEW rejected
  PROVE  /\ IsSeq(Broadcasts(b, k, rejected)) /\ Len(Broadcasts(b, k, rejected)) = 3
         /\ \A j \in 1 .. 3 : /\ Broadcasts(b, k, rejected)[j].kind = ReceiveOrder[j]
                              /\ Broadcasts(b, k, rejected)[j].step = k
<1> DEFINE t == Broadcasts(b, k, rejected)
           proposed == ~HasPrefill(b)
<1>1. PICK data : t = [i \in DOMAIN SendOrder(proposed) |->
                         [kind |-> SendOrder(proposed)[i], step |-> k,
                          data |-> data[SendOrder(proposed)[i]]]]
  BY Zenon DEF Broadcasts
<1>2. SendOrder(proposed) = ReceiveOrder /\ DOMAIN ReceiveOrder = 1 .. 3
  BY DEF SendOrder, ReceiveOrder
<1> HIDE DEF t, proposed
<1>3. /\ DOMAIN t = 1 .. 3 /\ t = [j \in 1 .. 3 |-> t[j]]
      /\ \A j \in 1 .. 3 : t[j].kind = ReceiveOrder[j] /\ t[j].step = k
  BY <1>1, <1>2
<1>4. IsSeq(t) /\ Len(t) = 3
  BY <1>3, 3 \in Nat, FunctionIsSeq
<1> QED  BY <1>3, <1>4 DEF t

LEMMA SampleLastInv == IInv /\ SampleLast => IInv'
<1> SUFFICES ASSUME IInv, SampleLast PROVE IInv'
  OBVIOUS
<1> DEFINE k == stage[Last].next
           i == k - Oldest + 1
           x == stage'[Last]
\* What the other stages receive.
<1>1. PICK t, rej :
        /\ IsSeq(t) /\ Len(t) = 3
        /\ \A j \in 1 .. 3 : t[j].kind = ReceiveOrder[j] /\ t[j].step = k
        /\ wire' = [q \in Ranks \ {Last} |-> wire[q] \o t]
        /\ batches' = [batches EXCEPT ![i].rejected = rej]
        /\ stage' = [stage EXCEPT ![Last] = stage'[Last]]
        /\ x.phase = "execute" /\ x.next = k + 1 /\ DOMAIN x = StageFields
        /\ x.pending = stage[Last].pending
  <2> DEFINE b == stage[Last].input
             Rej(rejected) == [r \in Reqs |-> IF r \in InBatch(b) THEN rejected[r] ELSE 0]
  <2>1. PICK rejected :
          /\ stage' = [stage EXCEPT ![Last] =
                        [stage[Last] EXCEPT
                           !.phase = "execute", !.next = k + 1, !.input = NoInput,
                           !.table = Settled(b, stage[Last].table, k, rejected)]]
          /\ wire' = [q \in Ranks \ {Last} |-> wire[q] \o Broadcasts(b, k, rejected)]
          /\ batches' = [batches EXCEPT ![i].rejected = Rej(rejected)]
    BY DEF SampleLast
  <2>2. DOMAIN stage = Ranks /\ DOMAIN stage[Last] = StageFields /\ Last \in Ranks
    BY LastFacts DEF IInv, StagesOK, StageOK
  <2>3. /\ IsSeq(Broadcasts(b, k, rejected)) /\ Len(Broadcasts(b, k, rejected)) = 3
        /\ \A j \in 1 .. 3 : /\ Broadcasts(b, k, rejected)[j].kind = ReceiveOrder[j]
                             /\ Broadcasts(b, k, rejected)[j].step = k
    BY BroadcastsFacts
  <2> HIDE DEF Rej, b
  <2>4. stage' = [stage EXCEPT ![Last] = stage'[Last]]
    BY <2>1, <2>2
  <2>5. x.phase = "execute" /\ x.next = k + 1 /\ x.pending = stage[Last].pending
    BY <2>1, <2>2 DEF StageFields
  <2>6. DOMAIN x = StageFields
    BY <2>1, <2>2
  <2> QED  BY <2>1, <2>3, <2>4, <2>5, <2>6
<1> HIDE DEF x
<1>2. stage[Last].phase = "sample" /\ current_step' = current_step
  BY DEF SampleLast
<1>3. /\ StageOK(stage[Last]) /\ k \in Nat /\ k <= current_step /\ current_step \in Nat
      /\ k \in WithRows /\ Oldest <= k /\ Oldest \in Int
  BY <1>2, LastFacts, IsSeqFacts DEF IInv, BatchesOK, StagesOK, StageOK, Oldest
<1>4. BatchesOK' /\ Oldest' = Oldest /\ WithRows' = WithRows
  <2>1. Len(batches) \in Nat /\ DOMAIN batches = 1 .. Len(batches)
    BY IsSeqFacts DEF IInv, BatchesOK
  <2>2. i \in 1 .. Len(batches)
    BY <1>3, <2>1 DEF Oldest
  <2> DEFINE y == [batches[i] EXCEPT !.rejected = rej]
  <2>3. "row" \in DOMAIN batches[i]
    BY <2>1, <2>2 DEF IInv, BatchesOK
  <2>4. y.row = batches[i].row /\ "row" \in DOMAIN y
    BY <2>3
  <2>5. batches' = [batches EXCEPT ![i] = y]
    <3> HIDE DEF i
    <3> QED  BY <1>1
  <2> HIDE DEF y, i
  <2> QED  BY <1>2, <2>2, <2>4, <2>5, SameRows DEF IInv
<1>5. /\ DOMAIN stage' = Ranks /\ \A q \in Ranks \ {Last} : stage'[q] = stage[q]
      /\ stage'[Last] = x
  BY <1>1 DEF IInv, StagesOK, x
<1>6. StagesOK'
  <2>1. StageOK(stage[Last])'
    <3>1. /\ DOMAIN x = StageFields /\ x.next \in Nat /\ x.next <= current_step + 1
          /\ x.phase = "execute"
      BY <1>1, <1>3
    <3>2. /\ IsSeq(x.pending)
          /\ \A e \in 1 .. Len(x.pending) : {"slot", "step"} \subseteq DOMAIN x.pending[e]
      BY <1>1, <1>3 DEF StageOK
    <3> QED  BY <1>2, <1>5, <3>1, <3>2 DEF StageOK
  <2>2. \A q \in Ranks \ {Last} : StageOK(stage[q])'
    BY <1>2, <1>5 DEF IInv, StagesOK, StageOK
  <2>3. Len(stage[Last].pending)' = 0 /\ Oldest' <= stage'[Last].next
    BY <1>1, <1>3, <1>4, <1>5 DEF IInv, StagesOK
  <2> QED  BY <1>1, <1>5, <2>1, <2>2, <2>3 DEF StagesOK
<1>7. InOrder'
  <2>1. \A q \in Ranks, j \in Nat : ComputedBy(q, j)' <=> ComputedBy(q, j)
    <3>1. \A j \in Nat : ComputedBy(Last, j)' <=> ComputedBy(Last, j)
      <4>1. \A j \in Nat : k + 1 > j <=> (k > j \/ k = j)
        BY <1>3
      <4> QED  BY <1>1, <1>2, <1>5, <4>1 DEF ComputedBy
    <3>2. \A q \in Ranks \ {Last}, j \in Nat : ComputedBy(q, j)' <=> ComputedBy(q, j)
      BY <1>5 DEF ComputedBy
    <3> QED  BY <3>1, <3>2
  <2> QED  BY <2>1 DEF IInv, InOrder
<1>8. WiresPaired'
  <2>1. SUFFICES ASSUME NEW q \in Ranks \ {Last}
                 PROVE  Paired(wire[q] \o t, stage[q].pending, k + 1, stage[q].next,
                               stage[q].phase, WithRows)
    BY <1>1, <1>4, <1>5 DEF WiresPaired
  <2>2. Paired(wire[q], stage[q].pending, k, stage[q].next, stage[q].phase, WithRows)
    BY DEF IInv, WiresPaired
  <2>3. stage[q].next > k \/ (stage[q].next = k /\ stage[q].phase = "sample")
    <3>1. ComputedBy(Last, k) /\ q < Last
      BY <1>2, LastFacts DEF ComputedBy
    <3>2. ComputedBy(q, k)
      BY <1>3, <3>1, LastFacts DEF IInv, InOrder
    <3> QED  BY <3>2 DEF ComputedBy
  <2>4. stage[q].next \in Nat
    BY DEF IInv, StagesOK, StageOK
  <2> QED  BY <1>1, <1>3, <2>2, <2>3, <2>4, SendPaired
<1> QED  BY <1>1, <1>4, <1>5, <1>6, <1>7, <1>8 DEF IInv

\* The scheduler adds steps at one end and takes those that are answered off the other.
LEMMA WindowInv ==
  ASSUME IInv, BatchesOK', stage' = stage, wire' = wire, current_step' >= current_step,
         Oldest' <= stage[Last].next,
         \A k \in Nat : stage[Last].next <= k /\ k <= current_step =>
                          (k \in WithRows' <=> k \in WithRows)
  PROVE  IInv'
<1>1. current_step \in Nat /\ current_step' \in Nat
  BY DEF IInv, BatchesOK
<1>2. /\ \A p \in Ranks : StageOK(stage[p]) /\ stage[p].next \in Nat
      /\ DOMAIN stage = Ranks /\ DOMAIN wire = Ranks \ {Last} /\ Len(stage[Last].pending) = 0
  BY DEF IInv, StagesOK, StageOK
<1>3. StagesOK'
  <2>1. ASSUME NEW p \in Ranks PROVE StageOK(stage[p])'
    <3> DEFINE c == current_step'
    <3>1. c \in Nat /\ c >= current_step
      BY <1>1
    <3> HIDE DEF c
    <3>2. \A n \in Nat : /\ n <= current_step => n <= c
                         /\ n <= current_step + 1 => n <= c + 1
      BY <1>1, <3>1
    <3>3. \A n \in Nat : /\ n <= current_step => n <= current_step'
                         /\ n <= current_step + 1 => n <= current_step' + 1
      BY <3>2 DEF c
    <3> QED  BY <1>2, <2>1, <3>3 DEF StageOK
  <2> QED  BY <1>2, <2>1 DEF StagesOK
<1>4. InOrder'
  BY DEF IInv, InOrder, ComputedBy
<1>5. WiresPaired'
  <2>1. SUFFICES ASSUME NEW p \in Ranks \ {Last}
                 PROVE  Paired(wire[p], stage[p].pending, stage[Last].next, stage[p].next,
                               stage[p].phase, WithRows')
    BY DEF WiresPaired
  <2>2. Paired(wire[p], stage[p].pending, stage[Last].next, stage[p].next, stage[p].phase, WithRows)
    BY DEF IInv, WiresPaired
  <2>3. /\ stage[p].next <= current_step + 1
        /\ stage[p].phase = "sample" => stage[p].next <= current_step
    BY <1>2 DEF StageOK
  <2>4. stage[Last].next \in Nat /\ stage[p].next \in Nat
    BY <1>2, LastFacts
  <2> DEFINE N == WithRows
             M == WithRows'
             a == stage[Last].next
             b == stage[p].next
             ph == stage[p].phase
  <2>5. \A k \in Nat : a <= k /\ (k < b \/ (ph = "sample" /\ k = b)) => (k \in M <=> k \in N)
    <3>1. SUFFICES ASSUME NEW k \in Nat, a <= k, k < b \/ (ph = "sample" /\ k = b)
                   PROVE  k \in M <=> k \in N
      OBVIOUS
    <3>2. k <= current_step
      BY <1>1, <2>3, <2>4, <3>1
    <3> QED  BY <3>1, <3>2
  <2> HIDE DEF N, M
  <2>6. Paired(wire[p], stage[p].pending, a, b, ph, M)
    BY <2>2, <2>4, <2>5, StepsPaired DEF N
  <2> QED  BY <2>6 DEF M
<1>6. stage'[Last].phase = "sample" => stage'[Last].next \in WithRows'
  <2>1. stage[Last].phase = "sample" => stage[Last].next <= current_step
    BY <1>2, LastFacts DEF StageOK
  <2> QED  BY <1>2, <2>1, LastFacts DEF IInv
<1> QED  BY <1>3, <1>4, <1>5, <1>6 DEF IInv

LEMMA ScheduleInv == IInv /\ Schedule => IInv'
<1> SUFFICES ASSUME IInv, Schedule PROVE IInv'
  OBVIOUS
<1>1. PICK b : batches' = Append(batches, b) /\ "row" \in DOMAIN b
  BY DEF Schedule
<1>2. current_step' = current_step + 1 /\ stage' = stage /\ wire' = wire
  BY DEF Schedule
<1>3. /\ current_step \in Nat /\ IsSeq(batches) /\ Len(batches) \in Nat
      /\ DOMAIN batches = 1 .. Len(batches) /\ Len(batches) <= current_step
      /\ \A i \in 1 .. Len(batches) : "row" \in DOMAIN batches[i]
  BY IsSeqFacts DEF IInv, BatchesOK
<1>4. /\ IsSeq(batches') /\ Len(batches') = Len(batches) + 1
      /\ \A i \in 1 .. Len(batches) : batches'[i] = batches[i]
      /\ batches'[Len(batches) + 1] = b
  BY <1>1, <1>3, AppendSeq
<1>5. BatchesOK'
  <2>1. DOMAIN batches' = 1 .. Len(batches) + 1
    BY <1>4, IsSeqFacts
  <2>2. \A i \in 1 .. Len(batches) + 1 : i \in 1 .. Len(batches) \/ i = Len(batches) + 1
    BY <1>3
  <2>3. \A i \in DOMAIN batches' : "row" \in DOMAIN batches'[i]
    BY <1>1, <1>3, <1>4, <2>1, <2>2
  <2> QED  BY <1>2, <1>3, <1>4, <2>3 DEF BatchesOK
<1>6. Oldest' = Oldest /\ Oldest \in Nat
  BY <1>2, <1>3, <1>4 DEF Oldest
<1>7. Oldest <= stage[Last].next
  BY DEF IInv, StagesOK
<1>8. \A k \in Nat : stage[Last].next <= k /\ k <= current_step =>
                       (k \in WithRows' <=> k \in WithRows)
  <2>1. SUFFICES ASSUME NEW k \in Nat, stage[Last].next <= k, k <= current_step
                 PROVE  k \in WithRows' <=> k \in WithRows
    OBVIOUS
  <2>2. stage[Last].next \in Nat
    BY LastFacts DEF IInv, StagesOK, StageOK
  <2>3. /\ k - Oldest + 1 \in 1 .. Len(batches)
        /\ k \in Oldest .. current_step /\ k \in Oldest .. current_step'
    BY <1>2, <1>3, <1>6, <1>7, <2>1, <2>2 DEF Oldest
  <2>4. InBatch(BatchOf(k))' = InBatch(BatchOf(k))
    BY <1>4, <1>6, <2>3 DEF InBatch, BatchOf
  <2> QED  BY <1>6, <2>3, <2>4 DEF WithRows
<1>9. current_step' >= current_step
  BY <1>2, <1>3
<1> QED  BY <1>2, <1>5, <1>6, <1>7, <1>8, <1>9, WindowInv

LEMMA AnswerInv == IInv /\ Answer => IInv'
<1> SUFFICES ASSUME IInv, Answer PROVE IInv'
  OBVIOUS
<1>1. /\ batches # <<>> /\ stage[Last].next > Oldest /\ batches' = Tail(batches)
      /\ current_step' = current_step /\ stage' = stage /\ wire' = wire
  BY DEF Answer
<1>2. /\ current_step \in Nat /\ IsSeq(batches) /\ Len(batches) \in Nat
      /\ DOMAIN batches = 1 .. Len(batches) /\ Len(batches) <= current_step
      /\ \A i \in 1 .. Len(batches) : "row" \in DOMAIN batches[i]
      /\ Len(batches) >= 1
  BY <1>1, IsSeqFacts DEF IInv, BatchesOK
<1>3. /\ IsSeq(batches') /\ Len(batches') = Len(batches) - 1
      /\ \A i \in 1 .. Len(batches) - 1 : batches'[i] = batches[i + 1]
  BY <1>1, <1>2, TailSeq
<1>4. BatchesOK'
  <2>1. DOMAIN batches' = 1 .. Len(batches) - 1
    BY <1>3, IsSeqFacts
  <2>2. \A i \in 1 .. Len(batches) - 1 : i + 1 \in 1 .. Len(batches)
    BY <1>2
  <2>3. \A i \in DOMAIN batches' : "row" \in DOMAIN batches'[i]
    BY <1>2, <1>3, <2>1, <2>2
  <2>4. Len(batches') <= current_step
    BY <1>2, <1>3
  <2> QED  BY <1>1, <1>2, <1>3, <2>3, <2>4 DEF BatchesOK
<1>5. Oldest' = Oldest + 1 /\ Oldest \in Nat
  BY <1>1, <1>2, <1>3 DEF Oldest
<1>6. stage[Last].next \in Nat
  BY LastFacts DEF IInv, StagesOK, StageOK
<1>7. Oldest' <= stage[Last].next
  BY <1>1, <1>5, <1>6
<1>8. \A k \in Nat : stage[Last].next <= k /\ k <= current_step =>
                       (k \in WithRows' <=> k \in WithRows)
  <2>1. SUFFICES ASSUME NEW k \in Nat, stage[Last].next <= k, k <= current_step
                 PROVE  k \in WithRows' <=> k \in WithRows
    OBVIOUS
  <2>2. /\ k \in Oldest .. current_step /\ k \in Oldest' .. current_step
        /\ k - Oldest \in 1 .. Len(batches) - 1 /\ k - Oldest' + 1 = k - Oldest
    <3> DEFINE n == Len(batches)
               o == Oldest
               a == stage[Last].next
    <3>1. n \in Nat /\ o \in Nat /\ a \in Nat /\ current_step \in Nat /\ o + n = current_step + 1
      BY <1>2, <1>5, <1>6 DEF Oldest
    <3>2. Oldest' = o + 1 /\ o + 1 <= a /\ a <= k
      BY <1>5, <1>7, <2>1
    <3> HIDE DEF n, o, a
    <3>3. /\ k \in o .. current_step /\ k \in o + 1 .. current_step
          /\ k - o \in 1 .. n - 1 /\ k - (o + 1) + 1 = k - o
      BY <2>1, <3>1, <3>2
    <3> QED  BY <3>2, <3>3 DEF n, o
  <2>3. batches'[k - Oldest] = batches[k - Oldest + 1]
    BY <1>3, <2>2
  <2>4. InBatch(BatchOf(k))' = InBatch(BatchOf(k))
    BY <2>2, <2>3 DEF InBatch, BatchOf
  <2> QED  BY <1>1, <2>2, <2>4 DEF WithRows
<1> QED  BY <1>1, <1>2, <1>4, <1>7, <1>8, WindowInv

LEMMA Inductive == IInv /\ [Next]_vars => IInv'
<1> SUFFICES ASSUME IInv, [Next]_vars PROVE IInv'
  OBVIOUS
<1>1. CASE Schedule
  BY <1>1, ScheduleInv
<1>2. CASE Answer
  BY <1>2, AnswerInv
<1>3. CASE \E p \in Ranks : Run(p)
  BY <1>3, ExecuteInv, SampleOtherInv, SampleLastInv DEF Run
<1>4. CASE (\E r \in Reqs : Abort(r) \/ Preempt(r)) \/ UNCHANGED vars
  <2>1. UNCHANGED <<current_step, batches, stage, wire>>
    BY <1>4 DEF Abort, Preempt, vars
  <2>2. current_step' = current_step /\ batches' = batches /\ stage' = stage /\ wire' = wire
    BY <2>1
  <2>3. Oldest' = Oldest /\ WithRows' = WithRows
    BY <2>2 DEF WithRows, Oldest, BatchOf, InBatch
  <2>4. BatchesOK' /\ StagesOK'
    BY <2>2, <2>3 DEF IInv, BatchesOK, StagesOK, StageOK
  <2>5. InOrder' /\ WiresPaired'
    BY <2>2, <2>3 DEF IInv, InOrder, ComputedBy, WiresPaired
  <2> QED  BY <2>2, <2>3, <2>4, <2>5 DEF IInv
<1> QED  BY <1>1, <1>2, <1>3, <1>4 DEF Next

LEMMA WiresMeetReceives == IInv => RelayPairs
<1> SUFFICES ASSUME IInv, NEW p \in Ranks \ {Last}, NEW i \in DOMAIN wire[p],
                    Third(i) <= Len(stage[p].pending)
             PROVE  /\ wire[p][i].step = stage[p].pending[Third(i)].step
                    /\ wire[p][i].kind = ReceiveOrder[Turn(i)]
  <2>1. Len(ReceiveOrder) = 3
    BY DEF ReceiveOrder
  <2> QED  BY <2>1 DEF RelayPairs, Third, Turn
<1>1. Paired(wire[p], stage[p].pending, stage[Last].next, stage[p].next, stage[p].phase, WithRows)
  BY DEF IInv, WiresPaired
<1>2. i \in 1 .. Len(wire[p])
  BY <1>1, IsSeqFacts DEF Paired
<1> QED  BY <1>1, <1>2 DEF Paired

\* Of the stages that have not computed the oldest step the first can go on: the one before
\* it is ahead of it, and a broadcast that is due was sent, because the last stage is past
\* every step before the oldest one.
LEMMA SomeStageGoesOn == IInv => NoStageStuck
<1> SUFFICES ASSUME IInv, batches # <<>>, ~(stage[Last].next > Oldest),
                    \A p \in Ranks : stage[p].phase # "sample"
             PROVE  \E p \in Ranks : MayExecute(p)
  BY DEF NoStageStuck
<1> DEFINE a == stage[Last].next
           behind == {p \in Ranks : stage[p].next <= a}
<1>1. /\ current_step \in Nat /\ Len(batches) \in Nat /\ Len(batches) >= 1
      /\ Len(batches) <= current_step
  BY IsSeqFacts DEF IInv, BatchesOK
<1>2. \A p \in Ranks : StageOK(stage[p]) /\ stage[p].next \in Nat /\ stage[p].phase = "execute"
  BY DEF IInv, StagesOK, StageOK
<1>3. a \in Nat /\ a <= current_step
  <2>1. a \in Nat
    BY <1>2, LastFacts
  <2>2. Oldest \in Nat /\ Oldest <= current_step
    BY <1>1 DEF Oldest
  <2>3. ~(a > Oldest)
    OBVIOUS
  <2> HIDE DEF a
  <2> QED  BY <1>1, <2>1, <2>2, <2>3
<1>4. behind \in SUBSET Nat /\ behind # {}
  BY <1>3, LastFacts
<1>5. PICK p \in behind : \A q \in behind : p <= q
  BY <1>4, LeastNumber
<1>6. p \in Ranks /\ p \in Nat /\ stage[p].next <= a
  BY <1>4, <1>5
<1>7. p > 0 => ComputedBy(p - 1, stage[p].next)
  <2>1. SUFFICES ASSUME p > 0 PROVE stage[p - 1].next > stage[p].next
    BY DEF ComputedBy
  <2>2. p - 1 \in Ranks /\ ~(p <= p - 1)
    BY <1>6, <2>1, LastFacts DEF Ranks
  <2>3. ~(stage[p - 1].next <= a)
    BY <1>5, <2>2
  <2> QED  BY <1>2, <1>3, <1>6, <2>2, <2>3
<1>8. Due(p) => Arrived(p)
  <2>1. SUFFICES ASSUME Due(p) PROVE Arrived(p)
    OBVIOUS
  <2> DEFINE w == wire[p]
             q == stage[p].pending
  <2>2. p # Last
    <3>1. Len(stage[Last].pending) = 0 /\ IsSeq(stage[Last].pending)
      BY <1>2, LastFacts DEF IInv, StagesOK, StageOK
    <3>2. stage[Last].pending = <<>>
      BY <3>1, IsSeqFacts
    <3> QED  BY <2>1, <3>2 DEF Due
  <2>3. Paired(w, q, a, stage[p].next, stage[p].phase, WithRows)
    BY <1>6, <2>2 DEF IInv, WiresPaired
  <2>4. IsSeq(w) /\ IsSeq(q) /\ Len(w) = 3 * Groups3(w) /\ Groups3(w) \in Nat
        /\ Len(q) \in Nat /\ Len(q) >= 1
    BY <2>1, <2>3, GroupsFacts, IsSeqFacts DEF Paired, Due
  <2>5. q[1].step \in Nat /\ (q[1].step >= a <=> 1 > Groups3(w))
    BY <2>3, <2>4 DEF Paired
  <2>6. q[1].step = stage[p].next - PPSize
    BY <2>1 DEF Due
  <2>7. Groups3(w) >= 1
    <3> DEFINE m == Groups3(w)
               b == stage[p].next
               s == q[1].step
    <3>1. m \in Nat /\ b \in Nat /\ b <= a /\ s \in Nat /\ (s >= a <=> 1 > m) /\ s = b - PPSize
      BY <1>2, <1>6, <2>4, <2>5, <2>6
    <3>2. a \in Nat
      BY <1>3
    <3> HIDE DEF m, b, s, a
    <3>3. PPSize \in Nat /\ PPSize >= 2
      BY LastFacts
    <3>4. s < a
      BY <3>1, <3>2, <3>3
    <3>5. m >= 1
      BY <3>1, <3>2, <3>4
    <3> QED  BY <3>5 DEF m
  <2>8. Len(w) >= 3
    BY <2>4, <2>7
  <2>9. Len(ReceiveOrder) = 3
    BY DEF ReceiveOrder
  <2> QED  BY <2>8, <2>9 DEF Arrived
<1>9. stage[p].next <= current_step
  BY <1>1, <1>2, <1>3, <1>6
<1> QED  BY <1>2, <1>6, <1>7, <1>8, <1>9 DEF MayExecute

----------------------------------------------------------------------------
(* What the stages should hold: D[k] is the data of the requests and L[k]  *)
(* the layout of the slots before step k, for a stage that has heard of    *)
(* everything sampled so far and takes no draft beyond it for rejected.    *)
(* B are the steps o .. c in flight, S the stages, W the wires; the last   *)
(* stage is at step a, and f is the step whose forward pass it runs next.  *)

\* What a slot holds for its request.
NoData == [computed |-> 0, last |-> 0, drafts |-> BOS]
DataType == [computed : Int, last : Nat, drafts : Nat]

\* The requests' data when the step with batch b has its new requests, and past step k.
Begun(b, d) == [r \in Reqs |-> IF r \in b.new THEN NoData ELSE d[r]]
Past(b, k, d) ==
  [r \in Reqs |->
     [computed |-> Begun(b, d)[r].computed + b.row[r].n,
      last     |-> IF Samples(b, r) THEN k ELSE Begun(b, d)[r].last,
      drafts   |-> IF Samples(b, r) THEN Proposal(b, k) ELSE Begun(b, d)[r].drafts]]

\* Who has which slot, and the free slots.
Layout(st) == [own |-> [s \in Slots |-> st.table[s].owner], free |-> st.free]
LayoutType == [own : [Slots -> Reqs \cup {NoOwner}], free : Seq(Slots)]
Blank(l) ==
  [table |-> [s \in Slots |-> [EmptySlot EXCEPT !.owner = l.own[s]]], free |-> l.free,
   pending |-> <<>>]
Laid(l, b) == Layout(Added(Freed(Blank(l), b.freed), b.new))

Has(l, r) == \E s \in Slots : l.own[s] = r
Place(l, r) == CHOOSE s \in Slots : l.own[s] = r
Holders(l) == {r \in Reqs : Has(l, r)}

LayoutGood(l) ==
  /\ l \in LayoutType
  /\ \A i, j \in DOMAIN l.free : l.free[i] = l.free[j] => i = j
  /\ \A s \in Slots : l.own[s] = NoOwner <=> \E i \in DOMAIN l.free : l.free[i] = s
  /\ \A s, t \in Slots : l.own[s] = l.own[t] /\ l.own[s] # NoOwner => s = t

\* The new requests of b have no slot, and there are slots for them.
Fits(l, b) ==
  /\ (Holders(l) \ b.freed) \cap b.new = {}
  /\ Cardinality((Holders(l) \ b.freed) \cup b.new) <= MaxSlots

\* The step whose forward pass a stage runs next.
ReachedOf(st) == IF st.phase = "sample" THEN st.next + 1 ELSE st.next

Chained(D, L, B, f, c) ==
  /\ D \in [Nat -> [Reqs -> DataType]] /\ L \in [Nat -> LayoutType]
  /\ \A k \in f .. c : D[k + 1] = Past(B[k], k, D[k])
  /\ \A k \in f .. c : L[k + 1] = Laid(L[k], B[k]) /\ Fits(L[k], B[k])
  /\ \A k \in f .. c + 1 : LayoutGood(L[k])

----------------------------------------------------------------------------
(* The stages.                                                             *)

SlotShape == [owner : Reqs \cup {NoOwner}, computed : Int, last : Nat, drafts : Nat]

\* The slots and the receives of a stage past the step it has computed.
OtherTable(st) == IF st.phase = "sample" THEN Advanced(st.input, st.table) ELSE st.table
Receives(st) ==
  IF st.phase = "sample" THEN Append(st.pending, Posted(st, st.next)) ELSE st.pending
LastTable(st) ==
  IF st.phase = "sample"
    THEN Settled(st.input, st.table, st.next, [r \in InBatch(st.input) |-> 0])
    ELSE st.table

\* A slot x of a request holds d; the drafts matter once a token was sampled.
SlotHolds(x, d) == x.computed = d.computed /\ (d.last > 0 => x.last = d.last /\ x.drafts = d.drafts)

\* ... once the broadcasts in w have reached it.
SlotWill(pend, w, x, r, d) ==
  /\ \A i \in 1 .. Len(pend) : pend[i].step = d.last =>
       IF 3 * i <= Len(w)
         THEN /\ w[3 * i - 2].data[r] = d.last /\ w[3 * i].data[r] = d.drafts
              /\ x.computed - w[3 * i - 1].data[r] = d.computed
         ELSE x.computed = d.computed
  /\ (\A i \in 1 .. Len(pend) : pend[i].step # d.last) => SlotHolds(x, d)

\* The receives name the slots of the requests whose latest token they bring.
Noted(table, pend, d) ==
  \A i \in 1 .. Len(pend) : \A r \in Reqs :
    pend[i].slot[r] = IF Holds(table, r) /\ d[r].last = pend[i].step THEN SlotOf(table, r) ELSE -1

Matches(table, pend, w, d) ==
  /\ table \in [Slots -> SlotShape]
  /\ Noted(table, pend, d)
  /\ \A r \in Reqs : Holds(table, r) => SlotWill(pend, w, table[SlotOf(table, r)], r, d[r])

\* No receive is older than the step that handed its broadcast out.
Fresh(pend, b) == \A i \in 1 .. Len(pend) : pend[i].step >= b - PPSize /\ pend[i].step > 0

\* The broadcasts on a wire carry numbers.
Carries(w) == \A i \in 1 .. Len(w) : w[i].data \in [Reqs -> Nat]

OtherMatches(st, w, d, l) ==
  /\ Layout(st) = l /\ st.table \in [Slots -> SlotShape] /\ Carries(w)
  /\ Fresh(Receives(st), ReachedOf(st))
  /\ Matches(OtherTable(st), Receives(st), w, d)

LastMatches(st, d, l) ==
  /\ Layout(st) = l /\ st.table \in [Slots -> SlotShape]
  /\ Matches(LastTable(st), <<>>, <<>>, d)

StagesMatch(D, L, S, W) ==
  /\ \A p \in Ranks \ {Last} : OtherMatches(S[p], W[p], D[ReachedOf(S[p])], L[ReachedOf(S[p])])
  /\ LastMatches(S[Last], D[ReachedOf(S[Last])], L[ReachedOf(S[Last])])

RowsGood(row) ==
  /\ row \in [Reqs -> RowType]
  /\ \A r \in Reqs : /\ row[r].kind = "decode" => row[r].n = 1 + NumSpec
                     /\ row[r].kind = "none" => row[r].n = 0

InputOK(st, B) == st.phase = "sample" => st.input.row = B[st.next].row

----------------------------------------------------------------------------
(* The steps in flight.                                                    *)

\* What step k, with batch b, reads for its rows.
Seen(b, d, l) ==
  [r \in InBatch(b) |->
     [slot |-> Place(l, r), computed |-> Begun(b, d)[r].computed, bound |-> b.row[r].base,
      last |-> IF b.row[r].kind = "decode" THEN Begun(b, d)[r].last ELSE 0,
      drafts |-> IF b.row[r].kind = "decode" THEN Begun(b, d)[r].drafts ELSE BOS]]

Agree(b) == \A p, q \in Executed(b) : b.view[p] = b.view[q]
Bounded(b) ==
  \A p \in Executed(b) : \A r \in InBatch(b) :
    /\ b.view[p][r].computed <= b.view[p][r].bound
    /\ b.row[r].kind # "decode" => b.view[p][r].computed = b.view[p][r].bound

ViewsOK(D, L, B, S, o, c) ==
  /\ \A k \in o .. c : Agree(B[k]) /\ Bounded(B[k])
  /\ \A k \in o .. c : \A p \in Executed(B[k]) : ReachedOf(S[p]) > k
  /\ \A k \in ReachedOf(S[Last]) .. c : \A p \in Executed(B[k]) :
       B[k].view[p] = Seen(B[k], D[k], L[k + 1])

BatchGood(b) ==
  /\ DOMAIN b = {"row", "new", "freed", "view", "rejected"}
  /\ RowsGood(b.row) /\ b.new \subseteq Reqs /\ b.freed \subseteq Reqs
  /\ b.rejected \in [Reqs -> 0 .. NumSpec] /\ DOMAIN b.view = Ranks
  /\ \A r \in Reqs : b.row[r].kind # "decode" => b.rejected[r] = 0

\* A row goes on from what the request has.
RowGood(b, k, d, l) ==
  \A r \in InBatch(b) :
    /\ Has(l, r)
    /\ b.row[r].kind # "decode" => Begun(b, d)[r].last = 0 /\ Begun(b, d)[r].computed = b.row[r].base
    /\ b.row[r].kind = "decode" => /\ Begun(b, d)[r].last > 0 /\ Begun(b, d)[r].last + PPSize <= k
                                   /\ Begun(b, d)[r].computed <= b.row[r].base

\* The latest sampled row of a request before step k.
LastSays(B, a, k, d) ==
  /\ \A r \in Reqs : /\ d[r].last < k
                     /\ d[r].last >= a => /\ Samples(B[d[r].last], r)
                                          /\ d[r].drafts = Proposal(B[d[r].last], d[r].last)
  /\ \A j \in a .. k - 1 : \A r \in Reqs : Samples(B[j], r) => d[r].last >= j

\* Nobody comes back while a step of it is in flight.
NoReturn(B, o, c) ==
  \A j, k \in o .. c : j < k => InBatch(B[j]) \cap B[k].new = {}

Grows(D, B, f, c) ==
  \A j, k \in f .. c + 1 : \A r \in Reqs :
    j <= k /\ (\A i \in j .. k - 1 : r \notin B[i].new) => D[j][r].computed <= D[k][r].computed

StepsOK(D, L, B, a, f, o, c) ==
  /\ \A k \in o .. c : BatchGood(B[k])
  /\ \A k \in a .. c : \A r \in Reqs : B[k].rejected[r] = 0
  /\ \A k \in f .. c : RowGood(B[k], k, D[k], L[k + 1])
  /\ \A k \in f .. c + 1 : LastSays(B, a, k, D[k])
  /\ NoReturn(B, o, c) /\ Grows(D, B, f, c)

----------------------------------------------------------------------------
(* The scheduler; Q are its requests, F those to flush.                    *)

Rejected(B, o, c, r) == [i \in 1 .. c - o + 1 |-> B[o + i - 1].rejected[r]]
Rows(B, o, c, r) == [i \in 1 .. c - o + 1 |-> IF r \in InBatch(B[o + i - 1]) THEN 1 ELSE 0]
AllRejected(B, o, c, r) == Total(Rejected(B, o, c, r), c - o + 1)
AllRows(B, o, c, r) == Total(Rows(B, o, c, r), c - o + 1)

\* A request in use, q for short, that has d at the end.
InUseOK(B, o, c, r, q, d) ==
  /\ q.computed = d.computed + AllRejected(B, o, c, r)
  /\ d.last = 0 => q.computed < q.prefill /\ \A k \in o .. c : B[k].rejected[r] = 0
  /\ d.last > 0 => q.eligible = d.last + PPSize /\ q.prefill <= d.computed

\* A decode never takes a request below its prefill, even if all its drafts are rejected.
Floor(D, B, S, c, r, prefill) ==
  /\ \A k \in ReachedOf(S[Last]) .. c : B[k].row[r].kind = "decode" => prefill <= D[k][r].computed
  /\ S[Last].phase = "sample" /\ B[S[Last].next].row[r].kind = "decode" =>
       prefill + 1 + NumSpec <= D[ReachedOf(S[Last])][r].computed

Active(Q) == {r \in Reqs : Q[r].status = "running"}

RequestOK(B, o, c, r, q) ==
  /\ q \in RequestType /\ q.tokens > 0
  /\ q.status = "finished" => q = Finished
  /\ q.status = "waiting" => q.computed = 0
  /\ q.status # "finished" => q.in_flight = AllRows(B, o, c, r)

RequestsOK(D, L, B, S, Q, F, o, c) ==
  /\ DOMAIN Q = Reqs /\ F \subseteq Reqs /\ Active(Q) \cap F = {}
  /\ Active(Q) \subseteq Holders(L[c + 1]) /\ Holders(L[c + 1]) \subseteq Active(Q) \cup F
  /\ \A r \in Reqs : RequestOK(B, o, c, r, Q[r])
  /\ \A r \in Active(Q) : /\ InUseOK(B, o, c, r, Q[r], D[c + 1][r])
                          /\ Floor(D, B, S, c, r, Q[r].prefill)

AllGood(D, L, B, S, W, Q, F, o, c) ==
  /\ Chained(D, L, B, ReachedOf(S[Last]), c) /\ InputOK(S[Last], B)
  /\ StagesMatch(D, L, S, W) /\ ViewsOK(D, L, B, S, o, c)
  /\ StepsOK(D, L, B, S[Last].next, ReachedOf(S[Last]), o, c)
  /\ RequestsOK(D, L, B, S, Q, F, o, c)

\* The steps in flight by their number.
Issued == [k \in Oldest .. current_step |-> BatchOf(k)]

AInv(D, L) == AllGood(D, L, Issued, stage, wire, req, flush, Oldest, current_step)

----------------------------------------------------------------------------
(* Slots.                                                                  *)

LEMMA ReqsFacts ==
  /\ NumReqs \in Nat /\ IsFiniteSet(Reqs) /\ NoOwner \notin Reqs /\ Reqs \in SUBSET Nat
  /\ MaxSlots \in Nat /\ IsFiniteSet(Slots) /\ Cardinality(Slots) = MaxSlots /\ -1 \notin Slots
<1>1. NumReqs \in Nat /\ MaxSlots \in Nat /\ MaxSlots > 0
  BY RelayAssumption
<1>2. IsFiniteSet(1 .. NumReqs) /\ IsFiniteSet(0 .. MaxSlots - 1)
      /\ Cardinality(0 .. MaxSlots - 1) = MaxSlots
  BY <1>1, FS_Interval
<1> QED  BY <1>1, <1>2 DEF Reqs, Slots, NoOwner

Increasing(q, n, S) == q \in [1 .. n -> S] /\ \A i, j \in 1 .. n : i < j => q[i] < q[j]

LEMMA AscendingExists ==
  ASSUME NEW m \in Nat
  PROVE  \A S \in SUBSET (1 .. m) : \E q : Increasing(q, Cardinality(S), S)
<1> DEFINE T == {k \in Nat : \A S \in SUBSET (1 .. k) : \E q : Increasing(q, Cardinality(S), S)}
<1>1. 0 \in T
  <2> SUFFICES ASSUME NEW S \in SUBSET (1 .. 0) PROVE \E q : Increasing(q, Cardinality(S), S)
    OBVIOUS
  <2>0. S = {}
    OBVIOUS
  <2>1. S = {} /\ Cardinality(S) = 0
    BY <2>0, FS_EmptySet
  <2>2. Increasing([i \in 1 .. 0 |-> i], Cardinality(S), S)
    BY <2>1 DEF Increasing
  <2> QED  BY <2>2
<1>2. ASSUME NEW k \in Nat, k \in T PROVE k + 1 \in T
  <2> SUFFICES ASSUME NEW S \in SUBSET (1 .. k + 1) PROVE \E q : Increasing(q, Cardinality(S), S)
    OBVIOUS
  <2>1. CASE k + 1 \notin S
    <3>1. S \in SUBSET (1 .. k)
      BY <2>1
    <3> QED  BY <1>2, <3>1
  <2>2. CASE k + 1 \in S
    <3> DEFINE S0 == S \ {k + 1}
               n  == Cardinality(S0)
    <3>1. S0 \in SUBSET (1 .. k) /\ IsFiniteSet(S0)
      <4>1. S0 \in SUBSET (1 .. k)
        OBVIOUS
      <4>2. IsFiniteSet(1 .. k)
        BY FS_Interval
      <4> QED  BY <4>1, <4>2, FS_Subset
    <3>2. n \in Nat /\ Cardinality(S) = n + 1
      <4>1. S0 \cup {k + 1} = S /\ k + 1 \notin S0
        BY <2>2
      <4> HIDE DEF S0
      <4> QED  BY <3>1, <4>1, FS_AddElement, FS_CardinalityType
    <3>3. PICK q0 : Increasing(q0, n, S0)
      BY <1>2, <3>1
    <3> DEFINE q == [i \in 1 .. n + 1 |-> IF i = n + 1 THEN k + 1 ELSE q0[i]]
    <3>4. \A i \in 1 .. n : q0[i] \in S /\ q0[i] \in 1 .. k
      BY <3>1, <3>3 DEF Increasing
    <3> HIDE DEF n, S0
    <3>5. q \in [1 .. n + 1 -> S]
      BY <2>2, <3>2, <3>4
    <3>6. ASSUME NEW i \in 1 .. n + 1, NEW j \in 1 .. n + 1, i < j
          PROVE  q[i] < q[j]
      <4>1. i \in 1 .. n /\ q[i] = q0[i]
        BY <3>2, <3>6
      <4>2. CASE j = n + 1
        <5>1. q[j] = k + 1 /\ q0[i] \in 1 .. k
          BY <3>4, <4>1, <4>2
        <5> QED  BY <4>1, <5>1
      <4>3. CASE j # n + 1
        BY <3>2, <3>3, <3>6, <4>1, <4>3 DEF Increasing
      <4> QED  BY <4>2, <4>3
    <3>7. Increasing(q, n + 1, S)
      BY <3>5, <3>6 DEF Increasing
    <3> QED  BY <3>2, <3>7
  <2> QED  BY <2>1, <2>2
<1> HIDE DEF T
<1>3. m \in T
  BY <1>1, <1>2, SetInduction
<1> QED  BY <1>3 DEF T

\* Ascending names every member once.
LEMMA AscendingFacts ==
  ASSUME NEW S \in SUBSET Reqs
  PROVE  /\ Cardinality(S) \in Nat /\ IsFiniteSet(S)
         /\ Ascending(S) \in [1 .. Cardinality(S) -> S]
         /\ \A i, j \in 1 .. Cardinality(S) : Ascending(S)[i] = Ascending(S)[j] => i = j
         /\ \A r \in S : \E i \in 1 .. Cardinality(S) : Ascending(S)[i] = r
<1> DEFINE n == Cardinality(S)
           q == Ascending(S)
<1>1. n \in Nat /\ IsFiniteSet(S)
  BY ReqsFacts, FS_Subset, FS_CardinalityType
<1>2. \E e : Increasing(e, n, S)
  BY ReqsFacts, AscendingExists DEF Reqs
<1>3. \E e \in [1 .. n -> S] : \A i, j \in DOMAIN e : i < j => e[i] < e[j]
  BY <1>2 DEF Increasing
<1>4. q \in [1 .. n -> S] /\ \A i, j \in DOMAIN q : i < j => q[i] < q[j]
  BY <1>3 DEF Ascending
<1>5. ASSUME NEW i \in 1 .. n, NEW j \in 1 .. n, q[i] = q[j] PROVE i = j
  <2>1. q[i] \in Nat /\ ~(q[i] < q[i])
    <3>1. q[i] \in Nat
      BY <1>4, ReqsFacts
    <3> HIDE DEF q
    <3> QED  BY <3>1
  <2>2. ~(i < j) /\ ~(j < i)
    BY <1>4, <1>5, <2>1
  <2> QED  BY <1>1, <2>2
<1>6. q \in Injection(1 .. n, S)
  BY <1>4, <1>5 DEF Injection, IsInjective
<1>7. Cardinality(1 .. n) = n
  BY <1>1, FS_Interval
<1>8. q \in Surjection(1 .. n, S)
  BY <1>1, <1>6, <1>7, FS_Injection
<1> QED  BY <1>1, <1>4, <1>5, <1>8 DEF Surjection

\* As many slots are free as nobody has.
LEMMA FreeCount ==
  ASSUME NEW l, LayoutGood(l)
  PROVE  /\ Len(l.free) \in Nat /\ DOMAIN l.free = 1 .. Len(l.free)
         /\ Len(l.free) + Cardinality(Holders(l)) = MaxSlots
<1> DEFINE n == Len(l.free)
           F == {s \in Slots : l.own[s] = NoOwner}
           H == {s \in Slots : l.own[s] # NoOwner}
           g == [s \in H |-> l.own[s]]
<1>1. n \in Nat /\ DOMAIN l.free = 1 .. n /\ l.free \in Seq(Slots) /\ l.own \in [Slots -> Reqs \cup {NoOwner}]
  BY LenProperties DEF LayoutGood, LayoutType
<1>2. l.free \in Bijection(1 .. n, F)
  <2>1. \A i \in 1 .. n : l.free[i] \in F
    BY <1>1, ElementOfSeq DEF LayoutGood
  <2>2. l.free \in [1 .. n -> F]
    <3>1. l.free = [i \in 1 .. n |-> l.free[i]]
      BY <1>1
    <3> HIDE DEF F, n
    <3> QED  BY <2>1, <3>1
  <2>3. l.free \in Injection(1 .. n, F)
    BY <1>1, <2>2 DEF Injection, IsInjective, LayoutGood
  <2>4. l.free \in Surjection(1 .. n, F)
    BY <1>1, <2>2 DEF Surjection, LayoutGood
  <2> QED  BY <2>3, <2>4 DEF Bijection
<1>3. IsFiniteSet(F) /\ Cardinality(F) = n
  <2>1. IsFiniteSet(1 .. n) /\ Cardinality(1 .. n) = n
    BY <1>1, FS_Interval
  <2>2. ExistsBijection(1 .. n, F)
    BY <1>2 DEF ExistsBijection
  <2> HIDE DEF F
  <2> QED  BY <2>1, <2>2, FS_Bijection
<1>4. g \in Bijection(H, Holders(l))
  <2>1. \A s \in H : l.own[s] \in Holders(l)
    BY <1>1 DEF Holders, Has
  <2>2. \A s, t \in H : l.own[s] = l.own[t] => s = t
    BY DEF LayoutGood
  <2>3. \A r \in Holders(l) : \E s \in H : l.own[s] = r
    BY ReqsFacts DEF Holders, Has
  <2> HIDE DEF H
  <2> QED  BY <2>1, <2>2, <2>3 DEF Bijection, Injection, Surjection, IsInjective
<1>5. IsFiniteSet(H)
  BY ReqsFacts, FS_Subset
<1>6. Cardinality(Holders(l)) = Cardinality(H)
  <2>1. ExistsBijection(H, Holders(l))
    BY <1>4 DEF ExistsBijection
  <2> HIDE DEF H
  <2> QED  BY <1>5, <2>1, FS_Bijection
<1>7. F \cup H = Slots /\ F \cap H = {}
  OBVIOUS
<1> HIDE DEF F, H, n
<1>8. Cardinality(Slots) = Cardinality(F) + Cardinality(H) - 0
  BY <1>3, <1>5, <1>7, FS_Union, FS_EmptySet
<1>9. Cardinality(H) \in Nat
  BY <1>5, FS_CardinalityType
<1> QED  BY <1>1, <1>3, <1>6, <1>8, <1>9, ReqsFacts DEF n

HasSlots(st) == {"table", "free", "pending"} \subseteq DOMAIN st /\ st.table \in [Slots -> SlotShape]

LEMMA EmptySlotShape == EmptySlot \in SlotShape
BY DEF EmptySlot, SlotShape, BOS

\* Requests have the slots that their layout says.
LEMMA PlaceFacts ==
  ASSUME NEW l, LayoutGood(l), NEW r \in Reqs, Has(l, r)
  PROVE  /\ Place(l, r) \in Slots /\ l.own[Place(l, r)] = r
         /\ \A s \in Slots : l.own[s] = r => s = Place(l, r)
<1>1. Place(l, r) \in Slots /\ l.own[Place(l, r)] = r
  BY DEF Has, Place
<1> QED  BY <1>1, ReqsFacts DEF LayoutGood

LEMMA SlotOfPlace ==
  ASSUME NEW st, LayoutGood(Layout(st)), NEW r \in Reqs
  PROVE  /\ Holds(st.table, r) <=> Has(Layout(st), r)
         /\ Holds(st.table, r) => SlotOf(st.table, r) = Place(Layout(st), r)
<1>1. \A s \in Slots : Layout(st).own[s] = st.table[s].owner
  BY DEF Layout
<1>2. Holds(st.table, r) <=> Has(Layout(st), r)
  BY <1>1 DEF Holds, Has
<1>3. ASSUME Holds(st.table, r) PROVE SlotOf(st.table, r) = Place(Layout(st), r)
  <2>1. SlotOf(st.table, r) \in Slots /\ st.table[SlotOf(st.table, r)].owner = r
    BY <1>3 DEF Holds, SlotOf
  <2> QED  BY <1>1, <1>2, <1>3, <2>1, PlaceFacts
<1> QED  BY <1>2, <1>3

\* The slots that finish_requests frees.
Leaving(st, S) == {r \in S : Holds(st.table, r)}
LeavingSlots(st, S) == [i \in DOMAIN Ascending(Leaving(st, S)) |-> SlotOf(st.table, Ascending(Leaving(st, S))[i])]

LEMMA LeavingFacts ==
  ASSUME NEW st, HasSlots(st), LayoutGood(Layout(st)), NEW S \in SUBSET Reqs
  PROVE  /\ LeavingSlots(st, S) \in Seq(Slots)
         /\ \A i, j \in DOMAIN LeavingSlots(st, S) :
              LeavingSlots(st, S)[i] = LeavingSlots(st, S)[j] => i = j
         /\ {LeavingSlots(st, S)[i] : i \in DOMAIN LeavingSlots(st, S)}
              = {s \in Slots : st.table[s].owner \in S}
<1> DEFINE G == Leaving(st, S)
           q == Ascending(G)
           n == Cardinality(G)
           o == LeavingSlots(st, S)
<1>1. G \in SUBSET Reqs
  BY DEF Leaving
<1>2. /\ n \in Nat /\ q \in [1 .. n -> G] /\ DOMAIN q = 1 .. n
      /\ \A i, j \in 1 .. n : q[i] = q[j] => i = j
      /\ \A r \in G : \E i \in 1 .. n : q[i] = r
  BY <1>1, AscendingFacts
<1>3. \A r \in G : SlotOf(st.table, r) \in Slots /\ st.table[SlotOf(st.table, r)].owner = r
  BY DEF Leaving, Holds, SlotOf
<1>4. \A s, t \in Slots : st.table[s].owner = st.table[t].owner /\ st.table[s].owner \in Reqs => s = t
  BY ReqsFacts DEF LayoutGood, Layout
<1>5. DOMAIN o = 1 .. n /\ \A i \in 1 .. n : o[i] = SlotOf(st.table, q[i])
  BY <1>2 DEF LeavingSlots
<1>6. o = [i \in 1 .. n |-> o[i]]
  BY <1>5 DEF LeavingSlots
<1> HIDE DEF q, n, o
<1>7. \A i \in 1 .. n : q[i] \in G /\ o[i] \in Slots /\ st.table[o[i]].owner = q[i]
  BY <1>2, <1>3, <1>5
<1>8. o \in Seq(Slots)
  BY <1>2, <1>6, <1>7
<1>9. \A i, j \in 1 .. n : o[i] = o[j] => i = j
  BY <1>2, <1>7
<1>10. ASSUME NEW s \in Slots, st.table[s].owner \in S
       PROVE  \E i \in 1 .. n : o[i] = s
  <2>1. st.table[s].owner \in G
    BY <1>10 DEF Leaving, Holds
  <2>2. PICK i \in 1 .. n : q[i] = st.table[s].owner
    BY <1>2, <2>1
  <2>3. o[i] = s
    BY <1>1, <1>4, <1>7, <2>1, <2>2
  <2> QED  BY <2>3
<1>11. G \subseteq S
  BY DEF Leaving
<1>12. {o[i] : i \in 1 .. n} = {s \in Slots : st.table[s].owner \in S}
  BY <1>7, <1>10, <1>11
<1> QED  BY <1>5, <1>8, <1>9, <1>12 DEF o

\* The slots and the receives f after finish_requests.
FreedShape(st, S, f) ==
  /\ \A s \in Slots : f.table[s] = IF st.table[s].owner \in S THEN EmptySlot ELSE st.table[s]
  /\ f.free = st.free \o LeavingSlots(st, S)
  /\ f.pending = Masked(st.pending, {s \in Slots : st.table[s].owner \in S})

LEMMA FreedFacts ==
  ASSUME NEW st, HasSlots(st), LayoutGood(Layout(st)), NEW S \in SUBSET Reqs
  PROVE  /\ DOMAIN Freed(st, S) = DOMAIN st /\ HasSlots(Freed(st, S))
         /\ FreedShape(st, S, Freed(st, S))
         /\ LayoutGood(Layout(Freed(st, S)))
<1> DEFINE f == Freed(st, S)
           o == LeavingSlots(st, S)
           E == {s \in Slots : st.table[s].owner \in S}
<1>1. {o[i] : i \in DOMAIN o} = E
  BY LeavingFacts
<1>2. /\ o \in Seq(Slots) /\ \A i, j \in DOMAIN o : o[i] = o[j] => i = j
  BY LeavingFacts
<1>3. f = [st EXCEPT !.table = [s \in Slots |-> IF s \in {o[i] : i \in DOMAIN o} THEN EmptySlot ELSE @[s]],
                     !.free = @ \o o, !.pending = Masked(@, {o[i] : i \in DOMAIN o})]
  BY DEF Freed, LeavingSlots, Leaving
<1> HIDE DEF f, o, E
<1>4. /\ DOMAIN f = DOMAIN st
      /\ f.table = [s \in Slots |-> IF s \in E THEN EmptySlot ELSE st.table[s]]
      /\ f.free = st.free \o o
      /\ f.pending = Masked(st.pending, E)
  BY <1>1, <1>3 DEF HasSlots
<1>5. HasSlots(f)
  <2>1. \A s \in Slots : (IF s \in E THEN EmptySlot ELSE st.table[s]) \in SlotShape
    BY EmptySlotShape DEF HasSlots
  <2> QED  BY <1>4, <2>1 DEF HasSlots
<1>6. \A s \in Slots : f.table[s] = IF st.table[s].owner \in S THEN EmptySlot ELSE st.table[s]
  BY <1>4 DEF E
<1>7. \A s \in Slots : /\ st.table[s].owner \in Reqs \cup {NoOwner}
                       /\ f.table[s].owner = IF st.table[s].owner \in S THEN NoOwner ELSE st.table[s].owner
  BY <1>6 DEF EmptySlot, HasSlots, SlotShape
<1> DEFINE n == Len(st.free)
           m == Len(o)
           g == st.free \o o
<1>8. /\ st.free \in Seq(Slots) /\ DOMAIN st.free = 1 .. n /\ n \in Nat /\ m \in Nat /\ DOMAIN o = 1 .. m
      /\ \A i, j \in 1 .. n : st.free[i] = st.free[j] => i = j
      /\ \A s \in Slots : st.table[s].owner = NoOwner <=> \E i \in 1 .. n : st.free[i] = s
  BY <1>2, LenProperties DEF LayoutGood, LayoutType, Layout
<1>9. /\ g \in Seq(Slots) /\ Len(g) = n + m
      /\ \A i \in 1 .. n : g[i] = st.free[i]
      /\ \A i \in 1 .. m : g[n + i] = o[i]
  BY <1>2, <1>8, ConcatProperties
<1>10. DOMAIN g = 1 .. n + m
  BY <1>9, LenProperties
<1> HIDE DEF n, m, g
<1>11. \A i \in 1 .. n + m : i \in 1 .. n \/ \E j \in 1 .. m : i = n + j
  <2> SUFFICES ASSUME NEW i \in 1 .. n + m, i \notin 1 .. n PROVE \E j \in 1 .. m : i = n + j
    OBVIOUS
  <2>1. i - n \in 1 .. m /\ i = n + (i - n)
    BY <1>8
  <2> QED  BY <2>1
<1>12. \A i \in 1 .. n : g[i] = st.free[i] /\ st.free[i] \in Slots /\ st.table[st.free[i]].owner = NoOwner
  BY <1>8, <1>9, ElementOfSeq
<1>13. \A i \in 1 .. m : g[n + i] = o[i] /\ o[i] \in Slots /\ st.table[o[i]].owner \in S
  <2>1. \A i \in 1 .. m : o[i] \in E
    BY <1>1, <1>8
  <2> QED  BY <1>9, <2>1 DEF E
<1>14. ASSUME NEW i \in 1 .. n + m, NEW j \in 1 .. n + m, g[i] = g[j] PROVE i = j
  <2>1. CASE i \in 1 .. n /\ j \in 1 .. n
    BY <1>8, <1>12, <1>14, <2>1
  <2>2. CASE i \notin 1 .. n /\ j \notin 1 .. n
    <3>1. PICK i1 \in 1 .. m : i = n + i1
      BY <1>11, <2>2
    <3>2. PICK j1 \in 1 .. m : j = n + j1
      BY <1>11, <2>2
    <3>3. o[i1] = o[j1]
      BY <1>13, <1>14, <3>1, <3>2
    <3>4. i1 = j1
      BY <1>2, <1>8, <3>3
    <3> QED  BY <3>1, <3>2, <3>4
  <2>0. NoOwner \notin S
    BY ReqsFacts
  <2>3. CASE i \in 1 .. n /\ j \notin 1 .. n
    <3>1. PICK k \in 1 .. m : j = n + k
      BY <1>11, <2>3
    <3>2. g[j] = o[k] /\ st.table[o[k]].owner \in S /\ g[i] = st.free[i] /\ st.table[st.free[i]].owner = NoOwner
      BY <1>12, <1>13, <2>3, <3>1
    <3> QED  BY <1>14, <2>0, <3>2
  <2>4. CASE i \notin 1 .. n /\ j \in 1 .. n
    <3>1. PICK k \in 1 .. m : i = n + k
      BY <1>11, <2>4
    <3>2. g[i] = o[k] /\ st.table[o[k]].owner \in S /\ g[j] = st.free[j] /\ st.table[st.free[j]].owner = NoOwner
      BY <1>12, <1>13, <2>4, <3>1
    <3> QED  BY <1>14, <2>0, <3>2
  <2> QED  BY <2>1, <2>2, <2>3, <2>4
<1>15. ASSUME NEW s \in Slots
       PROVE  f.table[s].owner = NoOwner <=> \E i \in 1 .. n + m : g[i] = s
  <2>1. ASSUME NEW i \in 1 .. n + m, g[i] = s PROVE f.table[s].owner = NoOwner
    BY <1>7, <1>11, <1>12, <1>13, <2>1
  <2>2. ASSUME st.table[s].owner = NoOwner PROVE \E i \in 1 .. n + m : g[i] = s
    <3>1. PICK i \in 1 .. n : st.free[i] = s
      BY <1>8, <2>2
    <3>2. i \in 1 .. n + m
      BY <1>8
    <3> QED  BY <1>12, <3>1, <3>2
  <2>3. ASSUME st.table[s].owner \in S PROVE \E i \in 1 .. n + m : g[i] = s
    <3>1. PICK i \in DOMAIN o : o[i] = s
      BY <1>1, <2>3 DEF E
    <3>2. n + i \in 1 .. n + m
      BY <1>8
    <3> QED  BY <1>8, <1>13, <3>1, <3>2
  <2> QED  BY <1>7, <2>1, <2>2, <2>3
<1>16. \A s, t \in Slots : f.table[s].owner = f.table[t].owner /\ f.table[s].owner # NoOwner => s = t
  BY <1>7 DEF LayoutGood, Layout
<1>17. LayoutGood(Layout(f))
  <2>1. Layout(f) = [own |-> [s \in Slots |-> f.table[s].owner], free |-> g]
    BY <1>4 DEF Layout, g
  <2>2. [s \in Slots |-> f.table[s].owner] \in [Slots -> Reqs \cup {NoOwner}]
    BY <1>7
  <2>3. /\ Layout(f).free = g
        /\ \A s \in Slots : Layout(f).own[s] = f.table[s].owner
    BY <2>1
  <2>4. Layout(f) \in LayoutType
    BY <1>9, <2>1, <2>2 DEF LayoutType
  <2>5. \A i, j \in DOMAIN g : g[i] = g[j] => i = j
    BY <1>10, <1>14
  <2>6. \A s \in Slots : f.table[s].owner = NoOwner <=> \E i \in DOMAIN g : g[i] = s
    BY <1>10, <1>15
  <2> QED  BY <1>16, <2>3, <2>4, <2>5, <2>6 DEF LayoutGood
<1>18. FreedShape(st, S, f)
  BY <1>4, <1>6 DEF FreedShape, o, E
<1> QED  BY <1>4, <1>5, <1>17, <1>18 DEF f

\* The slot that add_requests gives to the i-th new request.
NewSlot(free, i) == free[Len(free) + 1 - i]
NewTable(table, free, added, n) ==
  [s \in Slots |->
     IF \E i \in 1 .. n : NewSlot(free, i) = s
       THEN [EmptySlot EXCEPT !.owner = added[CHOOSE i \in 1 .. n : NewSlot(free, i) = s]]
       ELSE table[s]]

LEMMA NewSlotShape ==
  \A r \in Reqs \cup {NoOwner} : /\ [EmptySlot EXCEPT !.owner = r] \in SlotShape
                               /\ [EmptySlot EXCEPT !.owner = r].owner = r
BY DEF EmptySlot, SlotShape, BOS

LEMMA AddedIs ==
  ASSUME NEW st, HasSlots(st), NEW N \in SUBSET Reqs
  PROVE  /\ DOMAIN Added(st, N) = DOMAIN st
         /\ Added(st, N).table = NewTable(st.table, st.free, Ascending(N), Cardinality(N))
         /\ Added(st, N).free = SubSeq(st.free, 1, Len(st.free) - Cardinality(N))
         /\ Added(st, N).pending = st.pending
         /\ \A x \in {"next", "phase", "input"} : Added(st, N)[x] = st[x]
<1> DEFINE n == Cardinality(N)
<1>1. Ascending(N) \in [1 .. n -> N] /\ n \in Nat
  BY AscendingFacts
<1>2. Ascending(N) \in Seq(N)
  BY <1>1
<1>3. Len(Ascending(N)) \in Nat /\ DOMAIN Ascending(N) = 1 .. Len(Ascending(N)) /\ DOMAIN Ascending(N) = 1 .. n
  BY <1>1, <1>2, LenProperties
<1>4. Len(Ascending(N)) = n
  <2> DEFINE m == Len(Ascending(N))
  <2>1. m \in Nat /\ n \in Nat /\ 1 .. m = 1 .. n
    BY <1>1, <1>3
  <2> HIDE DEF m, n
  <2>2. m = n
    BY <2>1
  <2> QED  BY <2>2 DEF m
<1> HIDE DEF n
<1> QED  BY <1>4 DEF Added, NewTable, NewSlot, HasSlots, n

LEMMA AddedFacts ==
  ASSUME NEW st, HasSlots(st), LayoutGood(Layout(st)), NEW N \in SUBSET Reqs,
         N \cap Holders(Layout(st)) = {}, Cardinality(N) <= Len(st.free)
  PROVE  /\ HasSlots(Added(st, N)) /\ LayoutGood(Layout(Added(st, N)))
         /\ \A s \in Slots : st.table[s].owner # NoOwner => Added(st, N).table[s] = st.table[s]
         /\ \A s \in Slots : \/ Added(st, N).table[s] = st.table[s]
                             \/ \E r \in N : Added(st, N).table[s] = [EmptySlot EXCEPT !.owner = r]
         /\ \A r \in N : \E s \in Slots : Added(st, N).table[s] = [EmptySlot EXCEPT !.owner = r]
<1> DEFINE n == Cardinality(N)
           q == Ascending(N)
           fr == st.free
           m == Len(st.free)
           w(i) == NewSlot(fr, i)
           x == Added(st, N)
<1>1. /\ n \in Nat /\ q \in [1 .. n -> N]
      /\ \A i, j \in 1 .. n : q[i] = q[j] => i = j
      /\ \A r \in N : \E i \in 1 .. n : q[i] = r
  BY AscendingFacts
<1>2. /\ fr \in Seq(Slots) /\ DOMAIN fr = 1 .. m /\ m \in Nat /\ n <= m
      /\ \A i, j \in 1 .. m : fr[i] = fr[j] => i = j
      /\ \A s \in Slots : st.table[s].owner = NoOwner <=> \E i \in 1 .. m : fr[i] = s
  BY LenProperties DEF LayoutGood, LayoutType, Layout
<1>3. /\ DOMAIN x = DOMAIN st /\ x.table = NewTable(st.table, fr, q, n)
      /\ x.free = SubSeq(fr, 1, m - n) /\ x.pending = st.pending
  BY AddedIs
<1> HIDE DEF n, q, m, fr, x
<1>4. \A i \in 1 .. n : m + 1 - i \in 1 .. m /\ w(i) = fr[m + 1 - i]
  BY <1>1, <1>2 DEF NewSlot, m
<1>5. \A i \in 1 .. m : fr[i] \in Slots /\ st.table[fr[i]].owner = NoOwner
  BY <1>2, ElementOfSeq
<1>6. \A i \in 1 .. n : w(i) \in Slots /\ st.table[w(i)].owner = NoOwner
  BY <1>4, <1>5
<1>7. ASSUME NEW i \in 1 .. n, NEW j \in 1 .. n, w(i) = w(j) PROVE i = j
  <2>1. m + 1 - i = m + 1 - j
    BY <1>2, <1>4, <1>7
  <2> QED  BY <1>1, <1>2, <2>1
<1> HIDE DEF w
<1>8. \A i \in 1 .. n : x.table[w(i)] = [EmptySlot EXCEPT !.owner = q[i]]
  <2> SUFFICES ASSUME NEW i \in 1 .. n PROVE x.table[w(i)] = [EmptySlot EXCEPT !.owner = q[i]]
    OBVIOUS
  <2>1. (CHOOSE j \in 1 .. n : w(j) = w(i)) = i
    BY <1>7
  <2> QED  BY <1>3, <1>6, <2>1 DEF NewTable, w
<1>9. \A s \in Slots : (\A i \in 1 .. n : w(i) # s) => x.table[s] = st.table[s]
  BY <1>3 DEF NewTable, w
<1>10. \A s \in Slots : st.table[s].owner # NoOwner => x.table[s] = st.table[s]
  BY <1>6, <1>9
<1>11. \A i \in 1 .. n : q[i] \in N /\ q[i] \in Reqs
  BY <1>1
<1>12. \A s \in Slots : \/ x.table[s] = st.table[s]
                        \/ \E r \in N : x.table[s] = [EmptySlot EXCEPT !.owner = r]
  BY <1>8, <1>9, <1>11
<1>13. \A r \in N : \E s \in Slots : x.table[s] = [EmptySlot EXCEPT !.owner = r]
  BY <1>1, <1>6, <1>8
<1>14. \A i \in 1 .. n : x.table[w(i)].owner = q[i] /\ x.table[w(i)] \in SlotShape
  <2> SUFFICES ASSUME NEW i \in 1 .. n PROVE x.table[w(i)].owner = q[i] /\ x.table[w(i)] \in SlotShape
    OBVIOUS
  <2>1. q[i] \in Reqs /\ x.table[w(i)] = [EmptySlot EXCEPT !.owner = q[i]]
    BY <1>8, <1>11
  <2> QED  BY <2>1, NewSlotShape
<1>15. HasSlots(x)
  <2>1. \A s \in Slots : x.table[s] \in SlotShape
    <3> SUFFICES ASSUME NEW s \in Slots PROVE x.table[s] \in SlotShape
      OBVIOUS
    <3>1. CASE \E i \in 1 .. n : w(i) = s
      BY <1>14, <3>1
    <3>2. CASE \A i \in 1 .. n : w(i) # s
      BY <1>9, <3>2 DEF HasSlots
    <3> QED  BY <3>1, <3>2
  <2>2. x.table = [s \in Slots |-> x.table[s]]
    BY <1>3 DEF NewTable
  <2>3. x.table \in [Slots -> SlotShape]
    BY <2>1, <2>2
  <2> QED  BY <1>3, <2>3 DEF HasSlots
<1>16. LayoutGood(Layout(x))
  <2> DEFINE g == SubSeq(fr, 1, m - n)
  <2>1. /\ g \in Seq(Slots) /\ DOMAIN g = 1 .. m - n /\ \A i \in 1 .. m - n : g[i] = fr[i]
    <3>1. m - n \in 0 .. m
      BY <1>1, <1>2
    <3>2. g = [i \in 1 .. m - n |-> fr[i]]
      BY <1>1, <1>2, <3>1 DEF m
    <3>4. \A i \in 1 .. m - n : i \in 1 .. m
      BY <1>1, <1>2
    <3>3. \A i \in 1 .. m - n : fr[i] \in Slots
      BY <1>5, <3>4
    <3> HIDE DEF g
    <3> QED  BY <3>1, <3>2, <3>3
  <2> HIDE DEF g
  <2>2. \A i \in 1 .. m - n : i \in 1 .. m
    BY <1>1, <1>2
  <2>3. \A i, j \in DOMAIN g : g[i] = g[j] => i = j
    BY <1>2, <2>1, <2>2
  <2>4. ASSUME NEW s \in Slots PROVE x.table[s].owner = NoOwner <=> \E i \in DOMAIN g : g[i] = s
    <3>1. ASSUME x.table[s].owner = NoOwner PROVE \E i \in DOMAIN g : g[i] = s
      <4>1. \A i \in 1 .. n : w(i) # s
        BY <1>11, <1>14, <3>1, ReqsFacts
      <4>2. st.table[s].owner = NoOwner
        BY <1>9, <3>1, <4>1
      <4>3. PICK i \in 1 .. m : fr[i] = s
        BY <1>2, <4>2
      <4>4. i \in 1 .. m - n
        <5> SUFFICES ASSUME i \notin 1 .. m - n PROVE FALSE
          OBVIOUS
        <5>1. m + 1 - i \in 1 .. n /\ m + 1 - (m + 1 - i) = i
          BY <1>1, <1>2
        <5>2. w(m + 1 - i) = fr[m + 1 - (m + 1 - i)]
          BY <1>4, <5>1
        <5> QED  BY <4>1, <4>3, <5>1, <5>2
      <4> QED  BY <2>1, <4>3, <4>4
    <3>2. ASSUME NEW i \in 1 .. m - n, g[i] = s PROVE x.table[s].owner = NoOwner
      <4>1. i \in 1 .. m /\ fr[i] = s /\ st.table[s].owner = NoOwner
        BY <1>5, <2>1, <2>2, <3>2
      <4>2. ASSUME NEW j \in 1 .. n, w(j) = s PROVE FALSE
        <5>1. m + 1 - j = i
          BY <1>2, <1>4, <4>1, <4>2
        <5> QED  BY <1>1, <1>2, <5>1
      <4> QED  BY <1>9, <4>1, <4>2
    <3> QED  BY <2>1, <3>1, <3>2
  <2>5. \A s \in Slots : x.table[s].owner \in Reqs \cup {NoOwner}
    BY <1>15 DEF HasSlots, SlotShape
  <2>6. ASSUME NEW s \in Slots, NEW t \in Slots, x.table[s].owner = x.table[t].owner,
               x.table[s].owner # NoOwner
        PROVE  s = t
    <3>1. ASSUME NEW i \in 1 .. n, NEW u \in Slots, \A j \in 1 .. n : w(j) # u
          PROVE  x.table[u].owner # q[i]
      <4>1. x.table[u] = st.table[u]
        BY <1>9, <3>1
      <4>2. q[i] \notin Holders(Layout(st)) /\ q[i] \in Reqs
        BY <1>11
      <4> QED  BY <4>1, <4>2 DEF Holders, Has, Layout
    <3>2. CASE \E i \in 1 .. n : w(i) = s
      <4>1. PICK i \in 1 .. n : w(i) = s
        BY <3>2
      <4>2. PICK j \in 1 .. n : w(j) = t
        BY <1>14, <2>6, <3>1, <4>1
      <4>3. q[i] = q[j]
        BY <1>14, <2>6, <4>1, <4>2
      <4> QED  BY <1>1, <4>1, <4>2, <4>3
    <3>3. CASE \E i \in 1 .. n : w(i) = t
      <4>1. PICK i \in 1 .. n : w(i) = t
        BY <3>3
      <4>2. PICK j \in 1 .. n : w(j) = s
        BY <1>14, <2>6, <3>1, <4>1
      <4>3. q[i] = q[j]
        BY <1>14, <2>6, <4>1, <4>2
      <4> QED  BY <1>1, <4>1, <4>2, <4>3
    <3>4. CASE (\A i \in 1 .. n : w(i) # s) /\ (\A i \in 1 .. n : w(i) # t)
      <4>1. st.table[s].owner = st.table[t].owner /\ st.table[s].owner # NoOwner
        BY <1>9, <2>6, <3>4
      <4> QED  BY <4>1 DEF LayoutGood, Layout
    <3> QED  BY <3>2, <3>3, <3>4
  <2>7. Layout(x) = [own |-> [s \in Slots |-> x.table[s].owner], free |-> g]
    BY <1>3 DEF Layout, g
  <2>8. /\ Layout(x).free = g
        /\ \A s \in Slots : Layout(x).own[s] = x.table[s].owner
    BY <2>7
  <2>9. Layout(x) \in LayoutType
    <3>1. [s \in Slots |-> x.table[s].owner] \in [Slots -> Reqs \cup {NoOwner}]
      BY <2>5
    <3> QED  BY <2>1, <2>7, <3>1 DEF LayoutType
  <2> QED  BY <2>3, <2>4, <2>6, <2>8, <2>9 DEF LayoutGood
<1> QED  BY <1>10, <1>12, <1>13, <1>15, <1>16 DEF x

----------------------------------------------------------------------------
(* The layout past a step depends on the layout alone.                     *)

LEMMA FreedLayout ==
  ASSUME NEW st, NEW tt, HasSlots(st), HasSlots(tt), Layout(st) = Layout(tt), LayoutGood(Layout(st)),
         NEW S \in SUBSET Reqs
  PROVE  Layout(Freed(st, S)) = Layout(Freed(tt, S))
<1> DEFINE G == Leaving(st, S)
<1>0. LayoutGood(Layout(tt))
  OBVIOUS
<1>1. G \in SUBSET Reqs /\ G = Leaving(tt, S)
  BY <1>0, SlotOfPlace DEF Leaving
<1>2. \A r \in G : SlotOf(st.table, r) = SlotOf(tt.table, r)
  BY <1>0, SlotOfPlace, <1>1 DEF Leaving
<1>3. Ascending(G) \in [1 .. Cardinality(G) -> G]
  BY <1>1, AscendingFacts
<1>4. LeavingSlots(st, S) = LeavingSlots(tt, S)
  <2>1. \A i \in DOMAIN Ascending(G) : Ascending(G)[i] \in G
    BY <1>3
  <2> HIDE DEF G
  <2>2. /\ LeavingSlots(st, S) = [i \in DOMAIN Ascending(G) |-> SlotOf(st.table, Ascending(G)[i])]
        /\ LeavingSlots(tt, S) = [i \in DOMAIN Ascending(G) |-> SlotOf(tt.table, Ascending(G)[i])]
    BY <1>1 DEF LeavingSlots, G
  <2> QED  BY <1>2, <2>1, <2>2
<1>5. st.free = tt.free /\ \A s \in Slots : st.table[s].owner = tt.table[s].owner
  <2>1. \A s \in Slots : Layout(st).own[s] = st.table[s].owner /\ Layout(tt).own[s] = tt.table[s].owner
    BY DEF Layout
  <2>2. Layout(st).free = st.free /\ Layout(tt).free = tt.free
    BY DEF Layout
  <2> QED  BY <2>1, <2>2
<1> DEFINE f == Freed(st, S)
           g == Freed(tt, S)
<1>8. FreedShape(st, S, f)
  BY FreedFacts
<1>9. FreedShape(tt, S, g)
  BY <1>0, FreedFacts
<1> HIDE DEF f, g, G
<1>6. f.free = g.free
  BY <1>4, <1>5, <1>8, <1>9 DEF FreedShape
<1>7. \A s \in Slots : f.table[s].owner = g.table[s].owner
  BY <1>5, <1>8, <1>9 DEF FreedShape
<1> QED  BY <1>6, <1>7 DEF Layout, f, g

LEMMA AddedLayout ==
  ASSUME NEW st, NEW tt, HasSlots(st), HasSlots(tt), Layout(st) = Layout(tt), NEW N \in SUBSET Reqs
  PROVE  Layout(Added(st, N)) = Layout(Added(tt, N))
<1> DEFINE q == Ascending(N)
           n == Cardinality(N)
<1>1. st.free = tt.free /\ \A s \in Slots : st.table[s].owner = tt.table[s].owner
  <2>1. \A s \in Slots : Layout(st).own[s] = st.table[s].owner /\ Layout(tt).own[s] = tt.table[s].owner
    BY DEF Layout
  <2>2. Layout(st).free = st.free /\ Layout(tt).free = tt.free
    BY DEF Layout
  <2> QED  BY <2>1, <2>2
<1>2. /\ Added(st, N).table = NewTable(st.table, st.free, q, n)
      /\ Added(tt, N).table = NewTable(tt.table, st.free, q, n)
      /\ Added(st, N).free = Added(tt, N).free
  BY <1>1, AddedIs
<1> HIDE DEF q, n
<1>3. \A s \in Slots : Added(st, N).table[s].owner = Added(tt, N).table[s].owner
  <2> SUFFICES ASSUME NEW s \in Slots PROVE Added(st, N).table[s].owner = Added(tt, N).table[s].owner
    OBVIOUS
  <2>1. CASE \E i \in 1 .. n : NewSlot(st.free, i) = s
    BY <1>2, <2>1 DEF NewTable
  <2>2. CASE ~ \E i \in 1 .. n : NewSlot(st.free, i) = s
    BY <1>1, <1>2, <2>2 DEF NewTable
  <2> QED  BY <2>1, <2>2
<1> QED  BY <1>2, <1>3 DEF Layout

LEMMA BlankFacts ==
  ASSUME NEW l, LayoutGood(l)
  PROVE  HasSlots(Blank(l)) /\ Layout(Blank(l)) = l
<1>1. l \in LayoutType /\ l = [own |-> l.own, free |-> l.free] /\ l.own \in [Slots -> Reqs \cup {NoOwner}]
  BY DEF LayoutGood, LayoutType
<1>2. \A s \in Slots : /\ [EmptySlot EXCEPT !.owner = l.own[s]] \in SlotShape
                       /\ [EmptySlot EXCEPT !.owner = l.own[s]].owner = l.own[s]
  BY <1>1 DEF EmptySlot, SlotShape, BOS
<1>3. /\ Blank(l).table = [s \in Slots |-> [EmptySlot EXCEPT !.owner = l.own[s]]]
      /\ Blank(l).free = l.free /\ DOMAIN Blank(l) = {"table", "free", "pending"}
  BY DEF Blank
<1>4. HasSlots(Blank(l))
  BY <1>2, <1>3 DEF HasSlots
<1>5. [s \in Slots |-> Blank(l).table[s].owner] = l.own
  BY <1>1, <1>2, <1>3
<1> QED  BY <1>1, <1>3, <1>4, <1>5 DEF Layout

\* Who has a slot after finish_requests and after add_requests.
LEMMA FreedHolders ==
  ASSUME NEW st, HasSlots(st), LayoutGood(Layout(st)), NEW S \in SUBSET Reqs
  PROVE  Holders(Layout(Freed(st, S))) = Holders(Layout(st)) \ S
<1> DEFINE f == Freed(st, S)
<1>1. FreedShape(st, S, f)
  BY FreedFacts
<1> HIDE DEF f
<1>2. NoOwner \notin Reqs /\ EmptySlot.owner = NoOwner
  BY ReqsFacts DEF EmptySlot
<1>3. \A s \in Slots : /\ st.table[s].owner \in S => f.table[s].owner = NoOwner
                       /\ st.table[s].owner \notin S => f.table[s].owner = st.table[s].owner
  BY <1>1, <1>2 DEF FreedShape
<1>4. \A s \in Slots : Layout(st).own[s] = st.table[s].owner /\ Layout(f).own[s] = f.table[s].owner
  BY DEF Layout
<1>5. \A r \in Reqs : Has(Layout(f), r) <=> Has(Layout(st), r) /\ r \notin S
  BY <1>2, <1>3, <1>4 DEF Has
<1>6. Holders(Layout(f)) = Holders(Layout(st)) \ S
  BY <1>5 DEF Holders
<1> QED  BY <1>6 DEF f

\* The slots x after new requests got theirs.
AddedShape(st, N, x) ==
  /\ \A s \in Slots : st.table[s].owner # NoOwner => x.table[s] = st.table[s]
  /\ \A s \in Slots : \/ x.table[s] = st.table[s]
                      \/ \E r \in N : x.table[s] = [EmptySlot EXCEPT !.owner = r]
  /\ \A r \in N : \E s \in Slots : x.table[s] = [EmptySlot EXCEPT !.owner = r]

LEMMA AddedShapes ==
  ASSUME NEW st, HasSlots(st), LayoutGood(Layout(st)), NEW N \in SUBSET Reqs,
         N \cap Holders(Layout(st)) = {}, Cardinality(N) <= Len(st.free)
  PROVE  /\ HasSlots(Added(st, N)) /\ LayoutGood(Layout(Added(st, N)))
         /\ AddedShape(st, N, Added(st, N)) /\ Added(st, N).pending = st.pending
BY AddedFacts, AddedIs DEF AddedShape

LEMMA AddedHolders ==
  ASSUME NEW st, HasSlots(st), LayoutGood(Layout(st)), NEW N \in SUBSET Reqs,
         N \cap Holders(Layout(st)) = {}, Cardinality(N) <= Len(st.free)
  PROVE  Holders(Layout(Added(st, N))) = Holders(Layout(st)) \cup N
<1> DEFINE x == Added(st, N)
<1>1. AddedShape(st, N, x)
  BY AddedShapes
<1> HIDE DEF x
<1>2. NoOwner \notin Reqs /\ \A r \in N : [EmptySlot EXCEPT !.owner = r].owner = r
  BY ReqsFacts, NewSlotShape
<1>3. \A s \in Slots : Layout(st).own[s] = st.table[s].owner /\ Layout(x).own[s] = x.table[s].owner
  BY DEF Layout
<1>4. \A s \in Slots : /\ st.table[s].owner # NoOwner => x.table[s].owner = st.table[s].owner
                       /\ x.table[s].owner = st.table[s].owner \/ x.table[s].owner \in N
  BY <1>1 DEF AddedShape, EmptySlot
<1>5. \A r \in N : \E s \in Slots : x.table[s].owner = r
  <2> SUFFICES ASSUME NEW r \in N PROVE \E s \in Slots : x.table[s].owner = r
    OBVIOUS
  <2>1. PICK s \in Slots : x.table[s] = [EmptySlot EXCEPT !.owner = r]
    BY <1>1 DEF AddedShape
  <2>2. x.table[s].owner = r
    BY <2>1, NewSlotShape
  <2> QED  BY <2>2
<1>6. \A r \in Reqs : Has(Layout(x), r) <=> Has(Layout(st), r) \/ r \in N
  BY <1>2, <1>3, <1>4, <1>5 DEF Has
<1>7. Holders(Layout(x)) = Holders(Layout(st)) \cup N
  BY <1>6 DEF Holders
<1> QED  BY <1>7 DEF x

\* The slots x of a stage when the step with batch b has its new requests.
ReadyShape(st, b, x) ==
  /\ HasSlots(x) /\ LayoutGood(Layout(x))
  /\ x.pending = Masked(st.pending, {s \in Slots : st.table[s].owner \in b.freed})
  /\ \A r \in Reqs \ b.new : Holds(x.table, r) <=> Holds(st.table, r) /\ r \notin b.freed
  /\ \A r \in Reqs \ b.new : Holds(x.table, r) =>
       /\ SlotOf(x.table, r) = SlotOf(st.table, r)
       /\ x.table[SlotOf(x.table, r)] = st.table[SlotOf(st.table, r)]
  /\ \A r \in b.new : /\ Holds(x.table, r)
                      /\ x.table[SlotOf(x.table, r)] = [EmptySlot EXCEPT !.owner = r]

\* There is a slot for each new request.
LEMMA Room ==
  ASSUME NEW st, HasSlots(st), LayoutGood(Layout(st)), NEW b, b.new \in SUBSET Reqs,
         b.freed \in SUBSET Reqs, Fits(Layout(st), b)
  PROVE  /\ b.new \cap Holders(Layout(Freed(st, b.freed))) = {}
         /\ Cardinality(b.new) <= Len(Freed(st, b.freed).free)
<1> DEFINE f == Freed(st, b.freed)
           H == Holders(Layout(f))
           N == b.new
<1>1. LayoutGood(Layout(f)) /\ H = Holders(Layout(st)) \ b.freed
  BY FreedFacts, FreedHolders
<1>2. Layout(f).free = f.free
  BY DEF Layout
<1> HIDE DEF f
<1>3. Len(f.free) \in Nat /\ Len(f.free) + Cardinality(H) = MaxSlots
  BY <1>1, <1>2, FreeCount
<1>4. N \cap H = {} /\ Cardinality(H \cup N) <= MaxSlots
  BY <1>1 DEF Fits
<1>5. IsFiniteSet(H) /\ IsFiniteSet(N) /\ Cardinality(H) \in Nat /\ Cardinality(N) \in Nat
  BY ReqsFacts, FS_Subset, FS_CardinalityType DEF Holders
<1> HIDE DEF H, N
<1>6. Cardinality(H \cup N) = Cardinality(H) + Cardinality(N) - 0
  <2>1. H \cap N = {} /\ Cardinality({}) = 0
    BY <1>4, FS_EmptySet
  <2> QED  BY <1>5, <2>1, FS_Union
<1>7. Cardinality(N) <= Len(f.free)
  BY <1>3, <1>4, <1>5, <1>6, ReqsFacts
<1> QED  BY <1>4, <1>7 DEF f, H, N

\* What a layout becomes depends on the layout alone.
LEMMA ReadyLayout ==
  ASSUME NEW st, HasSlots(st), LayoutGood(Layout(st)), NEW b, b.new \in SUBSET Reqs,
         b.freed \in SUBSET Reqs, Fits(Layout(st), b)
  PROVE  /\ Layout(Added(Freed(st, b.freed), b.new)) = Laid(Layout(st), b)
         /\ LayoutGood(Laid(Layout(st), b))
         /\ Holders(Laid(Layout(st), b)) = (Holders(Layout(st)) \ b.freed) \cup b.new
<1> DEFINE l == Layout(st)
           f == Freed(st, b.freed)
           e == Freed(Blank(l), b.freed)
<1>1. HasSlots(Blank(l)) /\ Layout(Blank(l)) = l
  BY BlankFacts
<1>2. HasSlots(f) /\ LayoutGood(Layout(f)) /\ Holders(Layout(f)) = Holders(l) \ b.freed
  BY FreedFacts, FreedHolders
<1>0. LayoutGood(Layout(Blank(l)))
  BY <1>1
<1>3. HasSlots(e)
  BY <1>0, <1>1, FreedFacts
<1>4. Layout(f) = Layout(e)
  BY <1>1, FreedLayout
<1>5. Layout(Added(f, b.new)) = Layout(Added(e, b.new))
  BY <1>2, <1>3, <1>4, AddedLayout
<1>6. Layout(Added(f, b.new)) = Laid(l, b)
  BY <1>5 DEF Laid
<1>7. b.new \cap Holders(Layout(f)) = {} /\ Cardinality(b.new) <= Len(f.free)
  BY Room
<1> HIDE DEF f, e, l
<1>8. LayoutGood(Layout(Added(f, b.new))) /\ Holders(Layout(Added(f, b.new))) = Holders(Layout(f)) \cup b.new
  BY <1>2, <1>7, AddedShapes, AddedHolders
<1> QED  BY <1>2, <1>6, <1>8 DEF f, l

LEMMA LaidFacts ==
  ASSUME NEW l, LayoutGood(l), NEW b, b.new \in SUBSET Reqs, b.freed \in SUBSET Reqs, Fits(l, b)
  PROVE  /\ LayoutGood(Laid(l, b)) /\ Laid(l, b) \in LayoutType
         /\ Holders(Laid(l, b)) = (Holders(l) \ b.freed) \cup b.new
<1>1. HasSlots(Blank(l)) /\ Layout(Blank(l)) = l
  BY BlankFacts
<1>2. LayoutGood(Layout(Blank(l))) /\ Fits(Layout(Blank(l)), b)
  BY <1>1
<1>3. /\ LayoutGood(Laid(Layout(Blank(l)), b))
      /\ Holders(Laid(Layout(Blank(l)), b)) = (Holders(Layout(Blank(l))) \ b.freed) \cup b.new
  BY <1>1, <1>2, ReadyLayout
<1>4. LayoutGood(Laid(l, b)) /\ Holders(Laid(l, b)) = (Holders(l) \ b.freed) \cup b.new
  BY <1>1, <1>3
<1> QED  BY <1>4 DEF LayoutGood

\* Requests have one slot each.
LEMMA OneSlot ==
  ASSUME NEW st, LayoutGood(Layout(st)), NEW s \in Slots, NEW r \in Reqs, st.table[s].owner = r
  PROVE  Holds(st.table, r) /\ SlotOf(st.table, r) = s
<1>1. \A t \in Slots : Layout(st).own[t] = st.table[t].owner
  BY DEF Layout
<1>2. Holds(st.table, r)
  BY DEF Holds
<1>3. SlotOf(st.table, r) \in Slots /\ st.table[SlotOf(st.table, r)].owner = r
  BY <1>2 DEF Holds, SlotOf
<1>4. SlotOf(st.table, r) = s
  BY <1>1, <1>3, ReqsFacts DEF LayoutGood
<1> QED  BY <1>2, <1>4

LEMMA ReadyFacts ==
  ASSUME NEW st, HasSlots(st), LayoutGood(Layout(st)), NEW b, b.new \in SUBSET Reqs,
         b.freed \in SUBSET Reqs, Fits(Layout(st), b)
  PROVE  ReadyShape(st, b, Added(Freed(st, b.freed), b.new))
<1> DEFINE f == Freed(st, b.freed)
           x == Added(f, b.new)
           S == b.freed
           N == b.new
<1>1. HasSlots(f) /\ LayoutGood(Layout(f)) /\ FreedShape(st, S, f)
  BY FreedFacts
<1>2. N \cap Holders(Layout(f)) = {} /\ Cardinality(N) <= Len(f.free)
  BY Room
<1>3. /\ HasSlots(x) /\ LayoutGood(Layout(x)) /\ AddedShape(f, N, x) /\ x.pending = f.pending
  BY <1>1, <1>2, AddedShapes
<1>4. Holders(Layout(f)) = Holders(Layout(st)) \ S /\ Holders(Layout(x)) = Holders(Layout(f)) \cup N
  BY <1>1, <1>2, FreedHolders, AddedHolders
<1> HIDE DEF f, x, S, N
<1>5. x.pending = Masked(st.pending, {s \in Slots : st.table[s].owner \in S})
  BY <1>1, <1>3 DEF FreedShape
<1>6. /\ \A r \in Reqs : Holds(x.table, r) <=> r \in Holders(Layout(x))
      /\ \A r \in Reqs : Holds(st.table, r) <=> r \in Holders(Layout(st))
  BY <1>3, SlotOfPlace DEF Holders
<1>7. \A r \in Reqs \ N : Holds(x.table, r) <=> Holds(st.table, r) /\ r \notin S
  BY <1>4, <1>6
<1>8. ASSUME NEW r \in Reqs \ N, Holds(x.table, r)
      PROVE  /\ SlotOf(x.table, r) = SlotOf(st.table, r)
             /\ x.table[SlotOf(x.table, r)] = st.table[SlotOf(st.table, r)]
  <2> DEFINE s == SlotOf(st.table, r)
  <2>1. s \in Slots /\ st.table[s].owner = r /\ r \notin S
    BY <1>7, <1>8 DEF Holds, SlotOf
  <2> HIDE DEF s
  <2>2. f.table[s] = st.table[s]
    BY <1>1, <2>1 DEF FreedShape
  <2>3. x.table[s] = f.table[s]
    BY <1>3, <2>1, <2>2, ReqsFacts DEF AddedShape
  <2>4. SlotOf(x.table, r) = s
    BY <1>3, <2>1, <2>2, <2>3, OneSlot
  <2> QED  BY <2>2, <2>3, <2>4 DEF s
<1>9. ASSUME NEW r \in N
      PROVE  Holds(x.table, r) /\ x.table[SlotOf(x.table, r)] = [EmptySlot EXCEPT !.owner = r]
  <2>1. PICK s \in Slots : x.table[s] = [EmptySlot EXCEPT !.owner = r]
    BY <1>3 DEF AddedShape
  <2>2. r \in Reqs
    BY DEF N
  <2>3. x.table[s].owner = r
    BY <2>1, <2>2, NewSlotShape
  <2>4. Holds(x.table, r) /\ SlotOf(x.table, r) = s
    BY <1>3, <2>2, <2>3, OneSlot
  <2> QED  BY <2>1, <2>4
<1>10. ReadyShape(st, b, x)
  BY <1>3, <1>5, <1>7, <1>8, <1>9 DEF ReadyShape, S, N
<1> QED  BY <1>10 DEF x, f

----------------------------------------------------------------------------
(* What the operations of a stage do to its slots and its receives.        *)

\* Receives are noted for steps and slots.
Receiving(q) ==
  /\ IsSeq(q)
  /\ \A e \in 1 .. Len(q) : {"slot", "step"} \subseteq DOMAIN q[e] /\ q[e].step \in Nat /\ q[e].step > 0

\* A table without receives.
TableHolds(table, d) ==
  /\ table \in [Slots -> SlotShape]
  /\ \A r \in Reqs : Holds(table, r) => SlotHolds(table[SlotOf(table, r)], d[r])

LEMMA EmptyMatches ==
  ASSUME NEW table, NEW q, NEW w, NEW d, Len(q) = 0
  PROVE  Matches(table, q, w, d) <=> TableHolds(table, d)
<1>1. 1 .. Len(q) = {}
  OBVIOUS
<1>2. Noted(table, q, d)
  BY <1>1 DEF Noted
<1>3. \A r \in Reqs : SlotWill(q, w, table[SlotOf(table, r)], r, d[r])
                       <=> SlotHolds(table[SlotOf(table, r)], d[r])
  BY <1>1 DEF SlotWill
<1> QED  BY <1>2, <1>3 DEF Matches, TableHolds

LEMMA EmptySeqMatches ==
  ASSUME NEW table, NEW d
  PROVE  Matches(table, <<>>, <<>>, d) <=> TableHolds(table, d)
<1>1. Len(<<>>) = 0
  OBVIOUS
<1> QED  BY <1>1, EmptyMatches

MaskedSlots(q, F, m) ==
  \A e \in 1 .. Len(q) : \A r \in Reqs : m[e].slot[r] = IF q[e].slot[r] \in F THEN -1 ELSE q[e].slot[r]

LEMMA MaskedFacts ==
  ASSUME NEW q, Receiving(q), NEW F
  PROVE  /\ Receiving(Masked(q, F)) /\ Len(Masked(q, F)) = Len(q)
         /\ \A e \in 1 .. Len(q) : Masked(q, F)[e].step = q[e].step
         /\ MaskedSlots(q, F, Masked(q, F))
<1> DEFINE m == Masked(q, F)
<1>1. /\ IsSeq(m) /\ Len(m) = Len(q)
      /\ \A e \in 1 .. Len(q) : m[e].step = q[e].step /\ {"slot", "step"} \subseteq DOMAIN m[e]
  BY MaskedSeq DEF Receiving
<1>2. \A e \in 1 .. Len(q) : q[e].step \in Nat /\ q[e].step > 0 /\ {"slot", "step"} \subseteq DOMAIN q[e]
  BY DEF Receiving
<1>3. MaskedSlots(q, F, m)
  <2> SUFFICES ASSUME NEW e \in 1 .. Len(q), NEW r \in Reqs
               PROVE  m[e].slot[r] = IF q[e].slot[r] \in F THEN -1 ELSE q[e].slot[r]
    BY DEF MaskedSlots
  <2>1. DOMAIN q = 1 .. Len(q)
    BY IsSeqFacts DEF Receiving
  <2>2. m[e] = [q[e] EXCEPT !.slot = [s \in Reqs |-> IF @[s] \in F THEN -1 ELSE @[s]]]
    BY <2>1 DEF Masked
  <2>3. m[e].slot = [s \in Reqs |-> IF q[e].slot[s] \in F THEN -1 ELSE q[e].slot[s]]
    BY <1>2, <2>2
  <2> QED  BY <2>3
<1> HIDE DEF m
<1> QED  BY <1>1, <1>2, <1>3 DEF Receiving, m

LEMMA BegunType ==
  ASSUME NEW b, NEW d \in [Reqs -> DataType]
  PROVE  Begun(b, d) \in [Reqs -> DataType]
<1>1. NoData \in DataType
  BY DEF NoData, DataType, BOS
<1> QED  BY <1>1 DEF Begun

\* finish_requests and add_requests: the slots match the data with which the step begins.
LEMMA ReadyMatches ==
  ASSUME NEW st, HasSlots(st), Receiving(st.pending), NEW b, b.new \in SUBSET Reqs,
         b.freed \in SUBSET Reqs, Fits(Layout(st), b), LayoutGood(Layout(st)),
         NEW w, NEW d \in [Reqs -> DataType], Matches(st.table, st.pending, w, d),
         NEW x, ReadyShape(st, b, x)
  PROVE  /\ Matches(x.table, x.pending, w, Begun(b, d))
         /\ Receiving(x.pending) /\ Len(x.pending) = Len(st.pending)
         /\ \A i \in 1 .. Len(st.pending) : x.pending[i].step = st.pending[i].step
<1> DEFINE q == st.pending
           F == {s \in Slots : st.table[s].owner \in b.freed}
           e == Begun(b, d)
<1>1. /\ Receiving(x.pending) /\ Len(x.pending) = Len(q)
      /\ \A i \in 1 .. Len(q) : x.pending[i].step = q[i].step
      /\ MaskedSlots(q, F, x.pending)
  BY MaskedFacts DEF ReadyShape
<1>2. x.table \in [Slots -> SlotShape]
  BY DEF ReadyShape, HasSlots
<1>3. \A r \in b.new : r \in Reqs /\ e[r] = NoData /\ NoData.last = 0 /\ NoData.computed = 0
  BY DEF Begun, NoData
<1>4. \A r \in Reqs \ b.new : e[r] = d[r]
  BY DEF Begun
<1>5. \A i \in 1 .. Len(q) : q[i].step > 0 /\ q[i].step \in Nat
  BY DEF Receiving
<1>6. /\ \A r \in Reqs \ b.new : Holds(x.table, r) <=> Holds(st.table, r) /\ r \notin b.freed
      /\ \A r \in Reqs \ b.new : Holds(x.table, r) =>
           /\ SlotOf(x.table, r) = SlotOf(st.table, r)
           /\ x.table[SlotOf(x.table, r)] = st.table[SlotOf(st.table, r)]
      /\ \A r \in b.new : /\ Holds(x.table, r)
                          /\ x.table[SlotOf(x.table, r)] = [EmptySlot EXCEPT !.owner = r]
  BY DEF ReadyShape
<1>7. \A i \in 1 .. Len(q) : \A r \in Reqs :
        q[i].slot[r] = IF Holds(st.table, r) /\ d[r].last = q[i].step THEN SlotOf(st.table, r) ELSE -1
  BY DEF Matches, Noted
<1>8. \A r \in Reqs : Holds(st.table, r) =>
        /\ SlotOf(st.table, r) \in Slots /\ st.table[SlotOf(st.table, r)].owner = r
  BY DEF Holds, SlotOf
<1>9. \A r \in b.new : Holds(st.table, r) => r \in b.freed
  <2>1. \A r \in Reqs : Holds(st.table, r) <=> Has(Layout(st), r)
    BY SlotOfPlace
  <2> QED  BY <2>1 DEF Fits, Holders
<1>10. ASSUME NEW i \in 1 .. Len(q), NEW r \in Reqs
       PROVE  x.pending[i].slot[r]
                = IF Holds(x.table, r) /\ e[r].last = x.pending[i].step THEN SlotOf(x.table, r) ELSE -1
  <2>0. -1 \notin Slots /\ x.pending[i].step = q[i].step
        /\ x.pending[i].slot[r] = IF q[i].slot[r] \in F THEN -1 ELSE q[i].slot[r]
    BY <1>1, ReqsFacts DEF MaskedSlots
  <2>1. CASE r \in b.new
    <3>1. e[r].last # q[i].step
      BY <1>3, <1>5, <2>1
    <3>2. CASE Holds(st.table, r)
      <4>1. SlotOf(st.table, r) \in F
        BY <1>8, <1>9, <2>1, <3>2
      <4> HIDE DEF F, e
      <4> QED  BY <1>7, <2>0, <3>1, <4>1
    <3>3. CASE ~Holds(st.table, r)
      <4> HIDE DEF F, e
      <4> QED  BY <1>7, <2>0, <3>1, <3>3
    <3> QED  BY <3>2, <3>3
  <2>2. CASE r \notin b.new
    <3>1. Holds(st.table, r) => (SlotOf(st.table, r) \in F <=> r \in b.freed)
      BY <1>8
    <3>2. e[r] = d[r] /\ (Holds(x.table, r) <=> Holds(st.table, r) /\ r \notin b.freed)
          /\ (Holds(x.table, r) => SlotOf(x.table, r) = SlotOf(st.table, r))
      BY <1>4, <1>6, <2>2
    <3>3. q[i].slot[r] = IF Holds(st.table, r) /\ d[r].last = q[i].step THEN SlotOf(st.table, r) ELSE -1
      BY <1>7
    <3> HIDE DEF F, e
    <3> QED  BY <2>0, <3>1, <3>2, <3>3
  <2> QED  BY <2>1, <2>2
<1>11. ASSUME NEW r \in Reqs, Holds(x.table, r)
       PROVE  SlotWill(x.pending, w, x.table[SlotOf(x.table, r)], r, e[r])
  <2>1. CASE r \in b.new
    <3>1. \A i \in 1 .. Len(x.pending) : x.pending[i].step # e[r].last
      BY <1>1, <1>3, <1>5, <2>1
    <3>2. x.table[SlotOf(x.table, r)].computed = 0
      BY <1>6, <2>1 DEF EmptySlot
    <3>3. SlotHolds(x.table[SlotOf(x.table, r)], e[r])
      BY <1>3, <2>1, <3>2 DEF SlotHolds
    <3> QED  BY <3>1, <3>3 DEF SlotWill
  <2>2. CASE r \notin b.new
    <3>1. Holds(st.table, r) /\ e[r] = d[r] /\ x.table[SlotOf(x.table, r)] = st.table[SlotOf(st.table, r)]
      BY <1>4, <1>6, <1>11, <2>2
    <3>2. SlotWill(q, w, st.table[SlotOf(st.table, r)], r, d[r])
      BY <3>1 DEF Matches
    <3>3. SlotWill(q, w, x.table[SlotOf(x.table, r)], r, e[r])
      BY <3>1, <3>2
    <3> DEFINE y == x.table[SlotOf(x.table, r)]
    <3> HIDE DEF y, e, q
    <3>4. SlotWill(q, w, y, r, e[r]) => SlotWill(x.pending, w, y, r, e[r])
      BY <1>1 DEF SlotWill
    <3> QED  BY <3>3, <3>4 DEF y
  <2> QED  BY <2>1, <2>2
<1>12. Noted(x.table, x.pending, e)
  BY <1>1, <1>10 DEF Noted
<1> HIDE DEF e
<1>13. Matches(x.table, x.pending, w, e)
  BY <1>2, <1>11, <1>12 DEF Matches
<1> QED  BY <1>1, <1>13 DEF e

\* A row never goes on from a token whose broadcast is still to come.
LEMMA NoneToCome ==
  ASSUME NEW b, NEW d \in [Reqs -> DataType], NEW k \in Nat, NEW l, RowGood(b, k, d, l), NEW q, Receiving(q),
         Fresh(q, k + 1)
  PROVE  \A r \in InBatch(b) : \A i \in 1 .. Len(q) : q[i].step # Begun(b, d)[r].last
<1> SUFFICES ASSUME NEW r \in InBatch(b), NEW i \in 1 .. Len(q), q[i].step = Begun(b, d)[r].last
             PROVE  FALSE
  OBVIOUS
<1>1. q[i].step \in Nat /\ q[i].step > 0 /\ q[i].step >= (k + 1) - PPSize
  BY DEF Receiving, Fresh
<1>2. b.row[r].kind = "decode"
  <2>1. b.row[r].kind # "decode" => Begun(b, d)[r].last = 0
    BY DEF RowGood
  <2> QED  BY <1>1, <2>1
<1>3. Begun(b, d)[r].last + PPSize <= k
  BY <1>2 DEF RowGood
<1> DEFINE j == Begun(b, d)[r].last
<1>4. j \in Nat /\ j >= (k + 1) - PPSize /\ j + PPSize <= k
  BY <1>1, <1>3
<1> HIDE DEF j
<1> QED  BY <1>4, LastFacts

\* The forward pass reads what the data says.
LEMMA ReadyView ==
  ASSUME NEW x, LayoutGood(Layout(x)), NEW w, NEW b, NEW d \in [Reqs -> DataType], NEW k \in Nat,
         RowGood(b, k, d, Layout(x)), Receiving(x.pending), Fresh(x.pending, k + 1),
         Matches(x.table, x.pending, w, Begun(b, d))
  PROVE  /\ View(x, b) = Seen(b, d, Layout(x))
         /\ \A r \in InBatch(b) : /\ Holds(x.table, r)
                                  /\ SlotHolds(x.table[SlotOf(x.table, r)], Begun(b, d)[r])
<1> DEFINE e == Begun(b, d)
<1>1. ASSUME NEW r \in InBatch(b)
      PROVE  /\ Holds(x.table, r) /\ SlotOf(x.table, r) = Place(Layout(x), r)
             /\ SlotHolds(x.table[SlotOf(x.table, r)], e[r])
             /\ b.row[r].kind = "decode" => e[r].last > 0
  <2>0. r \in Reqs
    BY DEF InBatch
  <2>1. Holds(x.table, r) /\ SlotOf(x.table, r) = Place(Layout(x), r)
    BY <2>0, SlotOfPlace DEF RowGood
  <2>2. \A i \in 1 .. Len(x.pending) : x.pending[i].step # e[r].last
    BY NoneToCome
  <2>3. SlotWill(x.pending, w, x.table[SlotOf(x.table, r)], r, e[r])
    BY <2>0, <2>1 DEF Matches
  <2>4. SlotHolds(x.table[SlotOf(x.table, r)], e[r])
    BY <2>2, <2>3 DEF SlotWill
  <2>5. b.row[r].kind = "decode" => e[r].last > 0
    BY DEF RowGood
  <2> QED  BY <2>1, <2>4, <2>5
<1> HIDE DEF e
<1>2. \A r \in InBatch(b) :
        /\ x.table[SlotOf(x.table, r)].computed = e[r].computed
        /\ b.row[r].kind = "decode" => /\ x.table[SlotOf(x.table, r)].last = e[r].last
                                       /\ x.table[SlotOf(x.table, r)].drafts = e[r].drafts
  BY <1>1 DEF SlotHolds
<1>3. View(x, b) = Seen(b, d, Layout(x))
  BY <1>1, <1>2 DEF View, Seen, e
<1> QED  BY <1>1, <1>3 DEF e

OwnersDiffer(table) ==
  \A s, t \in Slots : table[s].owner = table[t].owner /\ table[s].owner # NoOwner => s = t

LEMMA LayoutOwners == ASSUME NEW st, LayoutGood(Layout(st)) PROVE OwnersDiffer(st.table)
<1>1. \A s \in Slots : Layout(st).own[s] = st.table[s].owner
  BY DEF Layout
<1> QED  BY <1>1 DEF LayoutGood, OwnersDiffer

\* Who has which slot depends on the owners alone.
LEMMA SameOwners ==
  ASSUME NEW T, NEW U, OwnersDiffer(T), \A s \in Slots : U[s].owner = T[s].owner
  PROVE  \A r \in Reqs : /\ Holds(U, r) <=> Holds(T, r)
                         /\ Holds(T, r) => /\ SlotOf(U, r) = SlotOf(T, r)
                                           /\ SlotOf(T, r) \in Slots /\ T[SlotOf(T, r)].owner = r
<1> SUFFICES ASSUME NEW r \in Reqs
             PROVE  /\ Holds(U, r) <=> Holds(T, r)
                    /\ Holds(T, r) => /\ SlotOf(U, r) = SlotOf(T, r)
                                      /\ SlotOf(T, r) \in Slots /\ T[SlotOf(T, r)].owner = r
  OBVIOUS
<1>1. Holds(U, r) <=> Holds(T, r)
  BY DEF Holds
<1>2. ASSUME Holds(T, r)
      PROVE  /\ SlotOf(U, r) = SlotOf(T, r)
             /\ SlotOf(T, r) \in Slots /\ T[SlotOf(T, r)].owner = r
  <2>1. SlotOf(T, r) \in Slots /\ T[SlotOf(T, r)].owner = r
    BY <1>2 DEF Holds, SlotOf
  <2>2. SlotOf(U, r) \in Slots /\ U[SlotOf(U, r)].owner = r
    BY <1>1, <1>2 DEF Holds, SlotOf
  <2>3. SlotOf(U, r) = SlotOf(T, r)
    BY <2>1, <2>2, ReqsFacts DEF OwnersDiffer
  <2> QED  BY <2>1, <2>3
<1> QED  BY <1>1, <1>2

LEMMA RowFacts ==
  ASSUME NEW row, RowsGood(row), NEW r \in Reqs
  PROVE  /\ row[r].n \in Nat /\ row[r].base \in Nat
         /\ row[r].kind \in {"none", "chunk", "final", "decode"}
         /\ row[r].kind = "decode" => row[r].n = 1 + NumSpec
         /\ row[r].kind = "none" => row[r].n = 0
BY DEF RowsGood, RowType

\* The data past a step, field by field.
LEMMA PastFacts ==
  ASSUME NEW b, NEW d, NEW k, NEW r \in Reqs
  PROVE  /\ Past(b, k, d)[r].computed = Begun(b, d)[r].computed + b.row[r].n
         /\ Samples(b, r) => Past(b, k, d)[r].last = k /\ Past(b, k, d)[r].drafts = Proposal(b, k)
         /\ ~Samples(b, r) => /\ Past(b, k, d)[r].last = Begun(b, d)[r].last
                              /\ Past(b, k, d)[r].drafts = Begun(b, d)[r].drafts
BY DEF Past

LEMMA PastType ==
  ASSUME NEW b, RowsGood(b.row), NEW d \in [Reqs -> DataType], NEW k \in Nat
  PROVE  Past(b, k, d) \in [Reqs -> DataType] /\ Proposal(b, k) \in Nat
<1>1. Proposal(b, k) \in Nat
  BY DEF Proposal, BOS
<1>2. \A r \in Reqs : /\ Begun(b, d)[r].computed \in Int /\ Begun(b, d)[r].last \in Nat
                      /\ Begun(b, d)[r].drafts \in Nat /\ b.row[r].n \in Nat
  <2>1. Begun(b, d) \in [Reqs -> DataType]
    BY BegunType
  <2> QED  BY <2>1, RowFacts DEF DataType
<1>3. ASSUME NEW r \in Reqs
      PROVE  /\ Begun(b, d)[r].computed + b.row[r].n \in Int
             /\ (IF Samples(b, r) THEN k ELSE Begun(b, d)[r].last) \in Nat
             /\ (IF Samples(b, r) THEN Proposal(b, k) ELSE Begun(b, d)[r].drafts) \in Nat
  BY <1>1, <1>2
<1>4. Past(b, k, d) \in [Reqs -> DataType]
  BY <1>3 DEF Past, DataType
<1> QED  BY <1>1, <1>4

\* Batches with the same rows have the same rows that sample.
LEMMA SameRow ==
  ASSUME NEW b, NEW c, b.row = c.row
  PROVE  /\ InBatch(b) = InBatch(c) /\ (HasPrefill(b) <=> HasPrefill(c))
         /\ \A r : Samples(b, r) <=> Samples(c, r)
         /\ \A k : Proposal(b, k) = Proposal(c, k)
<1>1. InBatch(b) = InBatch(c) /\ \A r : Samples(b, r) <=> Samples(c, r)
  BY DEF InBatch, Samples
<1>2. HasPrefill(b) <=> HasPrefill(c)
  BY <1>1 DEF HasPrefill
<1> QED  BY <1>1, <1>2 DEF Proposal

\* The slots U past a step, as if nothing were rejected.
AdvancedShape(b, T, U) ==
  /\ \A s \in Slots : U[s].owner = T[s].owner /\ U[s].last = T[s].last /\ U[s].drafts = T[s].drafts
  /\ \A s \in Slots : U[s].computed = IF T[s].owner \in Reqs THEN T[s].computed + b.row[T[s].owner].n
                                      ELSE T[s].computed

LEMMA AdvancedFacts ==
  ASSUME NEW b, RowsGood(b.row), NEW T \in [Slots -> SlotShape]
  PROVE  Advanced(b, T) \in [Slots -> SlotShape] /\ AdvancedShape(b, T, Advanced(b, T))
<1> DEFINE U == Advanced(b, T)
<1>1. ASSUME NEW s \in Slots
      PROVE  /\ U[s] \in SlotShape
             /\ U[s].owner = T[s].owner /\ U[s].last = T[s].last /\ U[s].drafts = T[s].drafts
             /\ U[s].computed = IF T[s].owner \in Reqs THEN T[s].computed + b.row[T[s].owner].n
                                ELSE T[s].computed
  <2>1. T[s] \in SlotShape /\ T[s].computed \in Int
    BY DEF SlotShape
  <2>2. CASE T[s].owner \in InBatch(b)
    <3>1. T[s].owner \in Reqs /\ b.row[T[s].owner].n \in Nat
      BY <2>2, RowFacts DEF InBatch
    <3>2. U[s] = [T[s] EXCEPT !.computed = @ + b.row[T[s].owner].n]
      BY <2>2 DEF Advanced, Optimistic
    <3> HIDE DEF U
    <3> QED  BY <2>1, <3>1, <3>2 DEF SlotShape
  <2>3. CASE T[s].owner \notin InBatch(b)
    <3>1. U[s] = T[s]
      BY <2>3 DEF Advanced
    <3>2. T[s].owner \in Reqs => b.row[T[s].owner].n = 0
      BY <2>3, RowFacts DEF InBatch
    <3> HIDE DEF U
    <3> QED  BY <2>1, <3>1, <3>2
  <2> QED  BY <2>2, <2>3
<1>2. U = [s \in Slots |-> U[s]]
  BY DEF Advanced
<1> HIDE DEF U
<1>3. U \in [Slots -> SlotShape]
  BY <1>1, <1>2
<1> QED  BY <1>1, <1>3 DEF AdvancedShape, U

\* sample_tokens on a stage before the last: the slots will match the data past the step.
LEMMA AdvancedMatches ==
  ASSUME NEW x, HasSlots(x), LayoutGood(Layout(x)), Receiving(x.pending),
         NEW b, RowsGood(b.row), x.input.row = b.row,
         NEW k \in Nat, k > 0, NEW d \in [Reqs -> DataType], \A r \in Reqs : d[r].last < k,
         RowGood(b, k, d, Layout(x)), Fresh(x.pending, k + 1),
         \A i \in 1 .. Len(x.pending) : x.pending[i].step < k,
         NEW w, Len(w) \in Nat, Len(w) <= 3 * Len(x.pending),
         Matches(x.table, x.pending, w, Begun(b, d))
  PROVE  /\ Matches(Advanced(x.input, x.table), Append(x.pending, Posted(x, k)), w, Past(b, k, d))
         /\ Fresh(Append(x.pending, Posted(x, k)), k + 1)
<1> DEFINE T == x.table
           U == Advanced(x.input, x.table)
           q == x.pending
           n == Len(x.pending)
           p == Append(x.pending, Posted(x, k))
           e == Begun(b, d)
           g == Past(b, k, d)
<1>1. /\ IsSeq(p) /\ Len(p) = n + 1 /\ n \in Nat /\ p[n + 1] = Posted(x, k)
      /\ \A i \in 1 .. n : p[i] = q[i]
  BY AppendSeq, IsSeqFacts DEF Receiving
<1>2. /\ InBatch(x.input) = InBatch(b) /\ \A r : Samples(x.input, r) <=> Samples(b, r)
  BY SameRow
<1>3. U \in [Slots -> SlotShape] /\ AdvancedShape(b, T, U)
  <2>1. U \in [Slots -> SlotShape] /\ AdvancedShape(x.input, T, U)
    BY AdvancedFacts DEF HasSlots
  <2> HIDE DEF U, T
  <2> QED  BY <2>1 DEF AdvancedShape
<1>4. \A r \in Reqs : /\ Holds(U, r) <=> Holds(T, r)
                      /\ Holds(T, r) => /\ SlotOf(U, r) = SlotOf(T, r)
                                        /\ SlotOf(T, r) \in Slots /\ T[SlotOf(T, r)].owner = r
  <2>1. OwnersDiffer(T)
    BY LayoutOwners
  <2>2. \A s \in Slots : U[s].owner = T[s].owner
    BY <1>3 DEF AdvancedShape
  <2> HIDE DEF U, T
  <2> QED  BY <2>1, <2>2, SameOwners
<1>5. /\ \A i \in 1 .. n : q[i].step \in Nat /\ q[i].step > 0 /\ q[i].step < k
      /\ \A i \in 1 .. n : q[i].step >= (k + 1) - PPSize
  BY DEF Receiving, Fresh
<1>6. p[n + 1].step = k
      /\ \A r \in Reqs : p[n + 1].slot[r] = IF Samples(b, r) THEN SlotOf(T, r) ELSE -1
  <2>1. /\ Posted(x, k).step = k
        /\ Posted(x, k).slot = [r \in Reqs |-> IF Samples(x.input, r) THEN SlotOf(T, r) ELSE -1]
    BY DEF Posted
  <2> HIDE DEF p, T
  <2> QED  BY <1>1, <1>2, <2>1
<1>7. \A r \in InBatch(b) : Holds(T, r) /\ SlotHolds(T[SlotOf(T, r)], e[r])
  BY ReadyView
<1>8. \A r \in InBatch(b) : \A i \in 1 .. n : q[i].step # e[r].last
  BY NoneToCome
<1>9. \A r \in Reqs : Samples(b, r) => r \in InBatch(b)
  BY DEF Samples, InBatch
<1>10. \A r \in Reqs : /\ e[r].last \in Nat /\ e[r].last < k /\ e[r].computed \in Int /\ b.row[r].n \in Nat
  <2>1. e \in [Reqs -> DataType]
    BY BegunType
  <2>2. \A r \in Reqs : e[r] = NoData \/ e[r] = d[r]
    BY DEF Begun
  <2>3. \A r \in Reqs : b.row[r].n \in Nat
    BY RowFacts
  <2>4. NoData.last = 0
    BY DEF NoData
  <2>5. \A r \in Reqs : e[r].last < k
    <3> HIDE DEF e
    <3> QED  BY <2>2, <2>4
  <2> HIDE DEF e
  <2> QED  BY <2>1, <2>3, <2>5 DEF DataType
<1>11. \A r \in Reqs :
         /\ g[r].computed = e[r].computed + b.row[r].n
         /\ Samples(b, r) => g[r].last = k /\ g[r].drafts = Proposal(b, k)
         /\ ~Samples(b, r) => g[r].last = e[r].last /\ g[r].drafts = e[r].drafts
  BY PastFacts
<1>12. /\ Noted(T, q, e) /\ T \in [Slots -> SlotShape]
       /\ \A r \in Reqs : Holds(T, r) => SlotWill(q, w, T[SlotOf(T, r)], r, e[r])
  BY DEF Matches
<1>13. \A i \in 1 .. n + 1 : i \in 1 .. n \/ i = n + 1
  BY <1>1
<1>0. Len(w) \in Nat /\ Len(w) <= 3 * n
  OBVIOUS
<1> HIDE DEF T, U, q, n, p, e, g
<1>14. ASSUME NEW i \in 1 .. n + 1, NEW r \in Reqs
       PROVE  p[i].slot[r] = IF Holds(U, r) /\ g[r].last = p[i].step THEN SlotOf(U, r) ELSE -1
  <2>1. CASE i \in 1 .. n /\ Samples(b, r)
    <3>1. p[i].step # g[r].last /\ q[i].step # e[r].last /\ p[i] = q[i]
      BY <1>1, <1>5, <1>8, <1>9, <1>11, <2>1
    <3>2. q[i].slot[r] = -1
      BY <1>12, <2>1, <3>1 DEF Noted, n, q
    <3> QED  BY <3>1, <3>2
  <2>2. CASE i \in 1 .. n /\ ~Samples(b, r)
    <3>1. p[i] = q[i] /\ g[r].last = e[r].last
      BY <1>1, <1>11, <2>2
    <3>2. q[i].slot[r] = IF Holds(T, r) /\ e[r].last = q[i].step THEN SlotOf(T, r) ELSE -1
      BY <1>12, <2>2 DEF Noted, n, q
    <3> QED  BY <1>4, <3>1, <3>2
  <2>3. CASE i = n + 1 /\ Samples(b, r)
    <3>1. Holds(T, r) /\ g[r].last = k
      BY <1>7, <1>9, <1>11, <2>3
    <3> QED  BY <1>4, <1>6, <2>3, <3>1
  <2>4. CASE i = n + 1 /\ ~Samples(b, r)
    <3>1. g[r].last < k /\ g[r].last # k
      BY <1>10, <1>11, <2>4
    <3> QED  BY <1>6, <2>4, <3>1
  <2> QED  BY <1>13, <2>1, <2>2, <2>3, <2>4
<1>15. ASSUME NEW r \in Reqs, Holds(U, r) PROVE SlotWill(p, w, U[SlotOf(U, r)], r, g[r])
  <2> DEFINE s == SlotOf(T, r)
             y == U[s]
             z == T[s]
  <2>1. Holds(T, r) /\ SlotOf(U, r) = s /\ s \in Slots /\ z.owner = r
    BY <1>4, <1>15
  <2>2. z.computed \in Int
    BY <1>12, <2>1 DEF SlotShape
  <2>3. y.computed = z.computed + b.row[r].n /\ y.last = z.last /\ y.drafts = z.drafts
    BY <1>3, <2>1 DEF AdvancedShape
  <2> HIDE DEF s, y, z
  <2>4. CASE Samples(b, r)
    <3>1. SlotHolds(z, e[r])
      BY <1>7, <1>9, <2>4 DEF z, s
    <3>2. y.computed = g[r].computed /\ g[r].last = k
      BY <1>11, <2>3, <2>4, <3>1 DEF SlotHolds
    <3>3. \A i \in 1 .. n + 1 : p[i].step = k => i = n + 1
      <4>1. \A i \in 1 .. n : p[i].step # k
        BY <1>1, <1>5
      <4> QED  BY <1>13, <4>1
    <3>4. ~(3 * (n + 1) <= Len(w))
      BY <1>0, <1>1
    <3>5. n + 1 \in 1 .. n + 1
      BY <1>1
    <3>6. SlotWill(p, w, y, r, g[r])
      BY <1>1, <1>6, <3>2, <3>3, <3>4, <3>5 DEF SlotWill
    <3> QED  BY <2>1, <3>6 DEF y
  <2>5. CASE ~Samples(b, r)
    <3>1. g[r].last = e[r].last /\ g[r].drafts = e[r].drafts
          /\ g[r].computed = e[r].computed + b.row[r].n
      BY <1>11, <2>5
    <3>2. SlotWill(q, w, z, r, e[r])
      BY <1>12, <2>1 DEF z, s
    <3>3. p[n + 1].step # g[r].last
      BY <1>6, <1>10, <3>1
    <3>4. (\A i \in 1 .. n + 1 : p[i].step # g[r].last) => SlotHolds(y, g[r])
      <4>1. SUFFICES ASSUME \A i \in 1 .. n + 1 : p[i].step # g[r].last PROVE SlotHolds(y, g[r])
        OBVIOUS
      <4>2. \A i \in 1 .. n : q[i].step # e[r].last
        BY <1>1, <3>1, <4>1
      <4>3. SlotHolds(z, e[r])
        BY <3>2, <4>2 DEF SlotWill, n, q
      <4> QED  BY <2>3, <3>1, <4>3 DEF SlotHolds
    <3>5. ASSUME NEW i \in 1 .. n + 1, p[i].step = g[r].last
          PROVE  IF 3 * i <= Len(w)
                   THEN /\ w[3 * i - 2].data[r] = g[r].last /\ w[3 * i].data[r] = g[r].drafts
                        /\ y.computed - w[3 * i - 1].data[r] = g[r].computed
                   ELSE y.computed = g[r].computed
      <4>1. i \in 1 .. n /\ q[i].step = e[r].last
        BY <1>1, <1>13, <3>1, <3>3, <3>5
      <4>2. r \notin InBatch(b)
        BY <1>8, <4>1
      <4>3. b.row[r].n = 0
        BY <4>2, RowFacts DEF InBatch
      <4>4. y.computed = z.computed /\ g[r].computed = e[r].computed
        BY <1>10, <2>2, <2>3, <3>1, <4>3
      <4>5. IF 3 * i <= Len(w)
               THEN /\ w[3 * i - 2].data[r] = e[r].last /\ w[3 * i].data[r] = e[r].drafts
                    /\ z.computed - w[3 * i - 1].data[r] = e[r].computed
               ELSE z.computed = e[r].computed
        BY <3>2, <4>1 DEF SlotWill, n, q
      <4> QED  BY <3>1, <4>4, <4>5
    <3>6. SlotWill(p, w, y, r, g[r])
      BY <1>1, <3>4, <3>5 DEF SlotWill
    <3> QED  BY <2>1, <3>6 DEF y
  <2> QED  BY <2>4, <2>5
<1>16. Noted(U, p, g)
  BY <1>1, <1>14 DEF Noted
<1>17. Matches(U, p, w, g)
  BY <1>3, <1>15, <1>16 DEF Matches
<1>18. Fresh(p, k + 1)
  <2>1. k >= (k + 1) - PPSize
    BY LastFacts
  <2>2. \A i \in 1 .. n : p[i].step >= (k + 1) - PPSize /\ p[i].step > 0
    BY <1>1, <1>5
  <2>3. p[n + 1].step >= (k + 1) - PPSize /\ p[n + 1].step > 0
    BY <1>6, <2>1
  <2> QED  BY <1>1, <1>13, <2>2, <2>3 DEF Fresh
<1> QED  BY <1>17, <1>18 DEF U, T, p, g

\* What the broadcasts do to a slot.
Told(slot, i, a, d) == [slot EXCEPT !.computed = @ - i, !.last = a, !.drafts = d]

ToldOf(y, z, i, a, d) ==
  y.owner = z.owner /\ y.computed = z.computed - i /\ y.last = a /\ y.drafts = d

LEMMA ToldShape ==
  ASSUME NEW z \in SlotShape, NEW i \in Int, NEW a \in Nat, NEW d \in Nat
  PROVE  Told(z, i, a, d) \in SlotShape
<1>1. z.computed \in Int /\ z.owner \in Reqs \cup {NoOwner} /\ DOMAIN z = {"owner", "computed", "last", "drafts"}
  BY DEF SlotShape
<1>2. z.computed - i \in Int
  BY <1>1
<1> QED  BY <1>1, <1>2 DEF SlotShape, Told

LEMMA ToldIs ==
  ASSUME NEW z \in SlotShape, NEW i \in Int, NEW a \in Nat, NEW d \in Nat
  PROVE  ToldOf(Told(z, i, a, d), z, i, a, d)
<1>1. DOMAIN z = {"owner", "computed", "last", "drafts"}
  BY DEF SlotShape
<1> QED  BY <1>1 DEF SlotShape, Told, ToldOf

\* The slots U after the broadcasts sampled, combined and draft reached those that entry names.
RelayShape(T, entry, sampled, combined, draft, U) ==
  /\ \A s \in Slots : (\A r \in Reqs : entry.slot[r] # s) => U[s] = T[s]
  /\ \A s \in Slots, r \in Reqs :
       entry.slot[r] = s /\ (\A t \in Reqs : entry.slot[t] = s => t = r) =>
         U[s] = Told(T[s], combined[r], sampled[r], draft[r])

LEMMA RelayedIs ==
  ASSUME NEW st, HasSlots(st), NEW entry, NEW w, IsSeq(w), Len(w) >= 3
  PROVE  LET x == Relayed(st, entry, SubSeq(w, 1, 3))
         IN  /\ RelayShape(st.table, entry, w[1].data, w[2].data, w[3].data, x.table)
             /\ x.table = [s \in Slots |-> x.table[s]]
             /\ DOMAIN x = DOMAIN st /\ x.pending = Tail(st.pending) /\ x.free = st.free
<1> DEFINE got == SubSeq(w, 1, 3)
           Part(kind) == got[CHOOSE i \in DOMAIN got : ReceiveOrder[i] = kind].data
           to(s) == {r \in Reqs : entry.slot[r] = s}
           x == Relayed(st, entry, got)
           Updated(slot, r) == [slot EXCEPT !.computed = @ - Part("combined")[r],
                                            !.last = Part("sampled")[r],
                                            !.drafts = Part("draft")[r]]
           U == [s \in Slots |-> IF to(s) = {} THEN st.table[s]
                                 ELSE Updated(st.table[s], CHOOSE r \in to(s) : TRUE)]
<1>1. Len(w) \in Nat
  BY IsSeqFacts
<1>2. DOMAIN got = 1 .. 3 /\ got[1] = w[1] /\ got[2] = w[2] /\ got[3] = w[3]
  BY <1>1
<1>3. Part("sampled") = w[1].data /\ Part("combined") = w[2].data /\ Part("draft") = w[3].data
  <2> HIDE DEF got
  <2>1. ReceiveOrder[1] = "sampled" /\ ReceiveOrder[2] = "combined" /\ ReceiveOrder[3] = "draft"
    BY DEF ReceiveOrder
  <2>2. \A i \in 1 .. 3 : i = 1 \/ i = 2 \/ i = 3
    OBVIOUS
  <2>3. (CHOOSE i \in DOMAIN got : ReceiveOrder[i] = "sampled") = 1
    BY <1>2, <2>1, <2>2
  <2>4. (CHOOSE i \in DOMAIN got : ReceiveOrder[i] = "combined") = 2
    BY <1>2, <2>1, <2>2
  <2>5. (CHOOSE i \in DOMAIN got : ReceiveOrder[i] = "draft") = 3
    BY <1>2, <2>1, <2>2
  <2> QED  BY <1>2, <2>3, <2>4, <2>5
<1>4. x = [st EXCEPT !.table = U, !.pending = Consumed(@)]
  BY DEF Relayed
<1>5. /\ x.table = U /\ DOMAIN x = DOMAIN st /\ x.pending = Tail(st.pending) /\ x.free = st.free
  <2> HIDE DEF x, U
  <2> QED  BY <1>4 DEF HasSlots, Consumed
<1> HIDE DEF x, got, Part
<1>6. \A s \in Slots : (\A r \in Reqs : entry.slot[r] # s) => U[s] = st.table[s]
  OBVIOUS
<1>7. ASSUME NEW s \in Slots, NEW r \in Reqs, entry.slot[r] = s, \A t \in Reqs : entry.slot[t] = s => t = r
      PROVE  U[s] = Told(st.table[s], w[2].data[r], w[1].data[r], w[3].data[r])
  <2>1. to(s) = {r}
    BY <1>7
  <2>2. (CHOOSE t \in to(s) : TRUE) = r
    BY <2>1
  <2>3. U[s] = Updated(st.table[s], r)
    BY <2>1, <2>2
  <2> HIDE DEF U
  <2> QED  BY <1>3, <2>3 DEF Told
<1>8. RelayShape(st.table, entry, w[1].data, w[2].data, w[3].data, U)
  <2> HIDE DEF U
  <2> QED  BY <1>6, <1>7 DEF RelayShape
<1>9. U = [s \in Slots |-> U[s]]
  OBVIOUS
<1> HIDE DEF U
<1> QED  BY <1>5, <1>8, <1>9 DEF x, got

Increase(q) == \A e, f \in 1 .. Len(q) : e < f => q[e].step < q[f].step

\* update_pp_decode_requests: what a broadcast brings was to come.
LEMMA RelayedMatches ==
  ASSUME NEW st, HasSlots(st), LayoutGood(Layout(st)), Receiving(st.pending), st.pending # <<>>,
         Increase(st.pending), NEW w, IsSeq(w), Len(w) >= 3, Carries(w),
         NEW d \in [Reqs -> DataType], Matches(st.table, st.pending, w, d),
         NEW x, x = Relayed(st, Head(st.pending), SubSeq(w, 1, 3))
  PROVE  /\ HasSlots(x) /\ Layout(x) = Layout(st) /\ x.pending = Tail(st.pending)
         /\ Receiving(x.pending) /\ Carries(SubSeq(w, 4, Len(w)))
         /\ Matches(x.table, x.pending, SubSeq(w, 4, Len(w)), d)
<1> DEFINE q == st.pending
           n == Len(q)
           p == Tail(st.pending)
           v == SubSeq(w, 4, Len(w))
           T == st.table
           U == x.table
           h == Head(st.pending)
<1>1. /\ IsSeq(q) /\ n \in Nat /\ n >= 1 /\ IsSeq(p) /\ Len(p) = n - 1
      /\ \A i \in 1 .. n - 1 : p[i] = q[i + 1]
  BY IsSeqFacts, TailSeq DEF Receiving
<1>2. h = q[1]
  OBVIOUS
<1>3. /\ Len(w) \in Nat /\ IsSeq(v) /\ Len(v) = Len(w) - 3
      /\ \A i \in 1 .. Len(w) - 3 : v[i] = w[3 + i]
  BY IsSeqFacts, 3 \in Nat, 3 + 1 = 4, RestSeq
<1>4. /\ RelayShape(T, h, w[1].data, w[2].data, w[3].data, U)
      /\ U = [s \in Slots |-> U[s]] /\ DOMAIN x = DOMAIN st /\ x.pending = p /\ x.free = st.free
  BY RelayedIs
<1>5. /\ Noted(T, q, d) /\ T \in [Slots -> SlotShape]
      /\ \A r \in Reqs : Holds(T, r) => SlotWill(q, w, T[SlotOf(T, r)], r, d[r])
  BY DEF Matches
<1>6. \A r \in Reqs : h.slot[r] = IF Holds(T, r) /\ d[r].last = h.step THEN SlotOf(T, r) ELSE -1
  <2>1. 1 \in 1 .. Len(q)
    BY <1>1
  <2> QED  BY <1>2, <1>5, <2>1 DEF Noted
<1>7. OwnersDiffer(T)
  BY LayoutOwners
<1>8. \A r \in Reqs : Holds(T, r) => SlotOf(T, r) \in Slots /\ T[SlotOf(T, r)].owner = r
  BY DEF Holds, SlotOf
<1>9. w[1].data \in [Reqs -> Nat] /\ w[2].data \in [Reqs -> Nat] /\ w[3].data \in [Reqs -> Nat]
  BY <1>3 DEF Carries
<1>10. \A i \in 1 .. n : q[i].step \in Nat /\ q[i].step > 0
  BY DEF Receiving
<1>11. \A i \in 1 .. n - 1 : i + 1 \in 1 .. n /\ q[1].step < q[i + 1].step
  <2>1. \A i \in 1 .. n - 1 : i + 1 \in 1 .. n /\ 1 \in 1 .. n /\ 1 < i + 1
    BY <1>1
  <2> QED  BY <2>1 DEF Increase
<1>0. Receiving(p)
  BY <1>1, <1>11 DEF Receiving
<1>12. Carries(v)
  <2>1. \A i \in 1 .. Len(v) : 3 + i \in 1 .. Len(w) /\ v[i] = w[3 + i]
    BY <1>3
  <2> HIDE DEF v
  <2> QED  BY <2>1 DEF Carries
<1> HIDE DEF q, n, p, v, T, U, h
\* A slot is reached when its owner's latest token is the one that comes.
<1>13. ASSUME NEW r \in Reqs, Holds(T, r), d[r].last = h.step
       PROVE  U[SlotOf(T, r)] = Told(T[SlotOf(T, r)], w[2].data[r], w[1].data[r], w[3].data[r])
  <2>1. h.slot[r] = SlotOf(T, r) /\ SlotOf(T, r) \in Slots /\ T[SlotOf(T, r)].owner = r
    BY <1>6, <1>8, <1>13
  <2>2. \A t \in Reqs : h.slot[t] = SlotOf(T, r) => t = r
    BY <1>6, <1>8, <2>1, ReqsFacts
  <2> QED  BY <1>4, <2>1, <2>2 DEF RelayShape
<1>14. ASSUME NEW s \in Slots, \A r \in Reqs : h.slot[r] # s PROVE U[s] = T[s]
  BY <1>4, <1>14 DEF RelayShape
<1>15. ASSUME NEW s \in Slots, NEW r \in Reqs, h.slot[r] = s
       PROVE  Holds(T, r) /\ d[r].last = h.step /\ SlotOf(T, r) = s
  BY <1>6, <1>15, ReqsFacts
<1>16. ASSUME NEW s \in Slots PROVE U[s] \in SlotShape /\ U[s].owner = T[s].owner
  <2>1. T[s] \in SlotShape
    BY <1>5
  <2>2. CASE \E r \in Reqs : h.slot[r] = s
    <3>1. PICK r \in Reqs : h.slot[r] = s
      BY <2>2
    <3>2. U[s] = Told(T[s], w[2].data[r], w[1].data[r], w[3].data[r])
      BY <1>13, <1>15, <3>1
    <3> DEFINE i == w[2].data[r]
               a == w[1].data[r]
               m == w[3].data[r]
    <3>3. a \in Nat /\ i \in Int /\ m \in Nat
      BY <1>9
    <3> HIDE DEF i, a, m
    <3>4. U[s] = Told(T[s], i, a, m)
      BY <3>2 DEF i, a, m
    <3>5. Told(T[s], i, a, m) \in SlotShape
      BY <2>1, <3>3, ToldShape
    <3>6. ToldOf(Told(T[s], i, a, m), T[s], i, a, m)
      BY <2>1, <3>3, ToldIs
    <3> QED  BY <3>4, <3>5, <3>6 DEF ToldOf
  <2>3. CASE \A r \in Reqs : h.slot[r] # s
    BY <1>14, <2>1, <2>3
  <2> QED  BY <2>2, <2>3
<1>17. U \in [Slots -> SlotShape]
  BY <1>4, <1>16
<1>18. \A r \in Reqs : /\ Holds(U, r) <=> Holds(T, r)
                       /\ Holds(T, r) => SlotOf(U, r) = SlotOf(T, r)
  BY <1>7, <1>16, SameOwners
<1>19. Layout(x) = Layout(st)
  <2>1. \A s \in Slots : x.table[s].owner = st.table[s].owner
    BY <1>16 DEF U, T
  <2> QED  BY <1>4, <2>1 DEF Layout
<1>20. HasSlots(x)
  BY <1>4, <1>17 DEF HasSlots, U
<1>21. Noted(U, p, d)
  <2> SUFFICES ASSUME NEW i \in 1 .. n - 1, NEW r \in Reqs
               PROVE  p[i].slot[r] = IF Holds(U, r) /\ d[r].last = p[i].step THEN SlotOf(U, r) ELSE -1
    BY <1>1 DEF Noted
  <2>1. p[i] = q[i + 1] /\ i + 1 \in 1 .. n
    BY <1>1, <1>11
  <2>2. q[i + 1].slot[r] = IF Holds(T, r) /\ d[r].last = q[i + 1].step THEN SlotOf(T, r) ELSE -1
    BY <1>5, <2>1 DEF Noted, n, q
  <2> QED  BY <1>18, <2>1, <2>2
<1>22. ASSUME NEW r \in Reqs, Holds(U, r) PROVE SlotWill(p, v, U[SlotOf(U, r)], r, d[r])
  <2> DEFINE s == SlotOf(T, r)
             z == T[s]
             y == U[s]
  <2>1. Holds(T, r) /\ SlotOf(U, r) = s /\ s \in Slots /\ z.owner = r /\ z \in SlotShape
    BY <1>5, <1>8, <1>18, <1>22
  <2>2. SlotWill(q, w, z, r, d[r])
    BY <1>5, <2>1
  <2>3. CASE d[r].last = h.step
    <3>1. y = Told(z, w[2].data[r], w[1].data[r], w[3].data[r])
      BY <1>13, <2>1, <2>3
    <3> HIDE DEF y, z, s
    <3>2. y.computed = z.computed - w[2].data[r] /\ y.last = w[1].data[r] /\ y.drafts = w[3].data[r]
      <4> DEFINE i == w[2].data[r]
                 a == w[1].data[r]
                 m == w[3].data[r]
      <4>1. a \in Nat /\ i \in Int /\ m \in Nat
        BY <1>9
      <4> HIDE DEF i, a, m
      <4>2. y = Told(z, i, a, m)
        BY <3>1 DEF i, a, m
      <4>3. ToldOf(Told(z, i, a, m), z, i, a, m)
        BY <2>1, <4>1, ToldIs
      <4> QED  BY <4>2, <4>3 DEF i, a, m, ToldOf
    <3>3. 1 \in 1 .. Len(q) /\ q[1].step = d[r].last /\ 3 * 1 <= Len(w) /\ 3 * 1 = 3 /\ 3 * 1 - 2 = 1 /\ 3 * 1 - 1 = 2
      BY <1>1, <1>2, <1>3, <2>3 DEF n
    <3>4. /\ w[1].data[r] = d[r].last /\ w[3].data[r] = d[r].drafts
          /\ z.computed - w[2].data[r] = d[r].computed
      <4>1. IF 3 * 1 <= Len(w)
              THEN /\ w[3 * 1 - 2].data[r] = d[r].last /\ w[3 * 1].data[r] = d[r].drafts
                   /\ z.computed - w[3 * 1 - 1].data[r] = d[r].computed
              ELSE z.computed = d[r].computed
        BY <2>2, <3>3 DEF SlotWill
      <4> QED  BY <3>3, <4>1
    <3>5. SlotHolds(y, d[r])
      BY <3>2, <3>4 DEF SlotHolds
    <3>6. \A i \in 1 .. Len(p) : p[i].step # d[r].last
      <4>1. \A i \in 1 .. n - 1 : q[i + 1].step # q[1].step
        BY <1>10, <1>11
      <4> QED  BY <1>1, <3>3, <4>1
    <3>7. SlotWill(p, v, y, r, d[r])
      BY <3>5, <3>6 DEF SlotWill
    <3> QED  BY <2>1, <3>7 DEF y
  <2>4. CASE d[r].last # h.step
    <3>1. \A t \in Reqs : h.slot[t] # s
      BY <1>8, <1>15, <2>1, <2>4
    <3>2. y = z
      BY <1>14, <2>1, <3>1
    <3> HIDE DEF y, z, s
    <3>3. (\A i \in 1 .. Len(p) : p[i].step # d[r].last) => SlotHolds(z, d[r])
      <4>1. SUFFICES ASSUME \A i \in 1 .. n - 1 : p[i].step # d[r].last PROVE SlotHolds(z, d[r])
        BY <1>1
      <4>2. \A i \in 1 .. n : i = 1 \/ (i - 1 \in 1 .. n - 1 /\ (i - 1) + 1 = i)
        BY <1>1
      <4>3. \A i \in 1 .. Len(q) : q[i].step # d[r].last
        BY <1>1, <1>2, <2>4, <4>1, <4>2 DEF n
      <4> QED  BY <2>2, <4>3 DEF SlotWill
    <3>4. ASSUME NEW i \in 1 .. Len(p), p[i].step = d[r].last
          PROVE  IF 3 * i <= Len(v)
                   THEN /\ v[3 * i - 2].data[r] = d[r].last /\ v[3 * i].data[r] = d[r].drafts
                        /\ z.computed - v[3 * i - 1].data[r] = d[r].computed
                   ELSE z.computed = d[r].computed
      <4>1. i \in 1 .. n - 1 /\ i + 1 \in 1 .. n /\ q[i + 1].step = d[r].last /\ i \in Nat /\ i >= 1
        BY <1>1, <1>11, <3>4
      <4>2. IF 3 * (i + 1) <= Len(w)
              THEN /\ w[3 * (i + 1) - 2].data[r] = d[r].last /\ w[3 * (i + 1)].data[r] = d[r].drafts
                   /\ z.computed - w[3 * (i + 1) - 1].data[r] = d[r].computed
              ELSE z.computed = d[r].computed
        BY <2>2, <4>1 DEF SlotWill, n
      <4>3. /\ 3 * (i + 1) <= Len(w) <=> 3 * i <= Len(v)
            /\ 3 * (i + 1) = 3 + 3 * i /\ 3 * (i + 1) - 2 = 3 + (3 * i - 2) /\ 3 * (i + 1) - 1 = 3 + (3 * i - 1)
        BY <1>3, <4>1
      <4>4. 3 * i <= Len(v) => /\ v[3 * i] = w[3 + 3 * i] /\ v[3 * i - 2] = w[3 + (3 * i - 2)]
                               /\ v[3 * i - 1] = w[3 + (3 * i - 1)]
        <5>1. 3 * i <= Len(v) => /\ 3 * i \in 1 .. Len(w) - 3 /\ 3 * i - 2 \in 1 .. Len(w) - 3
                                 /\ 3 * i - 1 \in 1 .. Len(w) - 3
          BY <1>3, <4>1
        <5> QED  BY <1>3, <5>1
      <4> QED  BY <4>2, <4>3, <4>4
    <3>5. SlotWill(p, v, z, r, d[r])
      BY <3>3, <3>4 DEF SlotWill
    <3> QED  BY <2>1, <3>2, <3>5 DEF y
  <2> QED  BY <2>3, <2>4
<1>23. Matches(U, p, v, d)
  BY <1>17, <1>21, <1>22 DEF Matches
<1> QED  BY <1>0, <1>4, <1>12, <1>19, <1>20, <1>23 DEF U, p, v

----------------------------------------------------------------------------
(* The last stage knows what it sampled.                                   *)

\* The slots U past step k, where `rejected' of the drafts were.
SettledShape(b, T, k, rejected, U) ==
  /\ \A s \in Slots : U[s].owner = T[s].owner
  /\ \A s \in Slots : T[s].owner \notin InBatch(b) => U[s] = T[s]
  /\ \A s \in Slots : T[s].owner \in InBatch(b) =>
       /\ U[s].computed = (T[s].computed + b.row[T[s].owner].n) - rejected[T[s].owner]
       /\ U[s].drafts = Proposal(b, k)
  /\ \A s \in Slots : T[s].owner \in InBatch(b) =>
       /\ Samples(b, T[s].owner) => U[s].last = k
       /\ ~Samples(b, T[s].owner) => U[s].last = T[s].last

LEMMA SettledFacts ==
  ASSUME NEW b, RowsGood(b.row), NEW T \in [Slots -> SlotShape], NEW k \in Nat, NEW rejected,
         \A r \in InBatch(b) : rejected[r] \in Nat
  PROVE  /\ Settled(b, T, k, rejected) \in [Slots -> SlotShape]
         /\ SettledShape(b, T, k, rejected, Settled(b, T, k, rejected))
<1> DEFINE U == Settled(b, T, k, rejected)
           After(x) == [x EXCEPT !.computed = @ + b.row[x.owner].n - rejected[x.owner],
                                 !.last = IF Samples(b, x.owner) THEN k ELSE @, !.drafts = Proposal(b, k)]
<1>1. U = [s \in Slots |-> IF T[s].owner \in InBatch(b) THEN After(T[s]) ELSE T[s]]
  BY DEF Settled
<1>2. ASSUME NEW x \in SlotShape, x.owner \in InBatch(b)
      PROVE  /\ After(x) \in SlotShape /\ After(x).owner = x.owner
             /\ After(x).computed = (x.computed + b.row[x.owner].n) - rejected[x.owner]
             /\ After(x).drafts = Proposal(b, k)
             /\ Samples(b, x.owner) => After(x).last = k
             /\ ~Samples(b, x.owner) => After(x).last = x.last
  <2> DEFINE r == x.owner
             n == b.row[r].n
             i == rejected[r]
             a == IF Samples(b, r) THEN k ELSE x.last
             d == Proposal(b, k)
  <2>1. r \in Reqs /\ x.computed \in Int /\ x.last \in Nat /\ DOMAIN x = {"owner", "computed", "last", "drafts"}
    BY <1>2 DEF SlotShape, InBatch
  <2>2. n \in Nat /\ i \in Nat
    BY <1>2, <2>1, RowFacts
  <2>3. d \in Nat /\ a \in Nat
    BY <2>1 DEF Proposal, BOS
  <2>4. (x.computed + n) - i \in Int
    BY <2>1, <2>2
  <2>7. x.computed + (n - i) = (x.computed + n) - i
    BY <2>1, <2>2
  <2>8. After(x) = [x EXCEPT !.computed = x.computed + (n - i), !.last = a, !.drafts = d]
    OBVIOUS
  <2>5. After(x) = [x EXCEPT !.computed = (x.computed + n) - i, !.last = a, !.drafts = d]
    BY <2>7, <2>8
  <2> HIDE DEF n, i, d, After
  <2>6. /\ After(x) \in SlotShape /\ After(x).owner = x.owner
        /\ After(x).computed = (x.computed + n) - i /\ After(x).last = a /\ After(x).drafts = d
    BY <2>1, <2>3, <2>4, <2>5 DEF SlotShape
  <2> QED  BY <2>6 DEF n, i, d
<1> HIDE DEF After
<1>3. \A s \in Slots : T[s] \in SlotShape
  OBVIOUS
<1>4. U \in [Slots -> SlotShape]
  BY <1>1, <1>2, <1>3
<1>5. /\ \A s \in Slots : U[s].owner = T[s].owner
      /\ \A s \in Slots : T[s].owner \notin InBatch(b) => U[s] = T[s]
  BY <1>1, <1>2, <1>3
<1>6. \A s \in Slots : T[s].owner \in InBatch(b) =>
       /\ U[s].computed = (T[s].computed + b.row[T[s].owner].n) - rejected[T[s].owner]
       /\ U[s].drafts = Proposal(b, k)
  BY <1>1, <1>2, <1>3
<1>7. \A s \in Slots : T[s].owner \in InBatch(b) =>
       /\ Samples(b, T[s].owner) => U[s].last = k
       /\ ~Samples(b, T[s].owner) => U[s].last = T[s].last
  BY <1>1, <1>2, <1>3
<1> HIDE DEF U
<1> QED  BY <1>4, <1>5, <1>6, <1>7 DEF U, SettledShape

\* Where nothing is rejected the slots match the data past the step.
LEMMA SettledMatches ==
  ASSUME NEW b, RowsGood(b.row), NEW d \in [Reqs -> DataType], NEW k \in Nat, NEW l, RowGood(b, k, d, l),
         NEW T, OwnersDiffer(T), TableHolds(T, Begun(b, d)),
         NEW rejected, \A r \in InBatch(b) : rejected[r] = 0,
         NEW inp, inp.row = b.row
  PROVE  TableHolds(Settled(inp, T, k, rejected), Past(b, k, d))
<1> DEFINE U == Settled(inp, T, k, rejected)
           e == Begun(b, d)
           g == Past(b, k, d)
<1>1. /\ InBatch(inp) = InBatch(b) /\ \A r : Samples(inp, r) <=> Samples(b, r)
      /\ Proposal(inp, k) = Proposal(b, k) /\ RowsGood(inp.row)
  BY SameRow
<1>2. T \in [Slots -> SlotShape] /\ \A r \in InBatch(inp) : rejected[r] \in Nat
  BY <1>1 DEF TableHolds
<1>3. U \in [Slots -> SlotShape] /\ SettledShape(inp, T, k, rejected, U)
  BY <1>1, <1>2, SettledFacts
<1> HIDE DEF U
<1>4. \A r \in Reqs : /\ Holds(U, r) <=> Holds(T, r)
                      /\ Holds(T, r) => /\ SlotOf(U, r) = SlotOf(T, r)
                                        /\ SlotOf(T, r) \in Slots /\ T[SlotOf(T, r)].owner = r
  BY <1>3, SameOwners DEF SettledShape
<1>5. ASSUME NEW r \in Reqs, Holds(U, r) PROVE SlotHolds(U[SlotOf(U, r)], g[r])
  <2> DEFINE s == SlotOf(T, r)
             y == U[s]
             z == T[s]
  <2>1. Holds(T, r) /\ SlotOf(U, r) = s /\ s \in Slots /\ z.owner = r
    BY <1>4, <1>5
  <2>2. SlotHolds(z, e[r]) /\ z.computed \in Int
    BY <1>2, <2>1 DEF TableHolds, SlotShape
  <2>3. /\ g[r].computed = e[r].computed + b.row[r].n
        /\ Samples(b, r) => g[r].last = k /\ g[r].drafts = Proposal(b, k)
        /\ ~Samples(b, r) => g[r].last = e[r].last /\ g[r].drafts = e[r].drafts
    BY PastFacts
  <2>4. b.row[r].n \in Nat /\ (r \notin InBatch(b) => b.row[r].n = 0)
    BY RowFacts DEF InBatch
  <2> HIDE DEF e, g
  <2>5. CASE r \in InBatch(b)
    <3>1. y.computed = (z.computed + b.row[r].n) - rejected[r] /\ y.drafts = Proposal(b, k)
      BY <1>1, <1>3, <2>1, <2>5 DEF SettledShape
    <3>2. /\ Samples(b, r) => y.last = k
          /\ ~Samples(b, r) => y.last = z.last
      BY <1>1, <1>3, <2>1, <2>5 DEF SettledShape
    <3>3. ~Samples(b, r) => e[r].last = 0
      BY <2>5 DEF RowGood, Samples, e
    <3>4. y.computed = z.computed + b.row[r].n
      BY <2>2, <2>4, <2>5, <3>1
    <3> HIDE DEF y, z
    <3>5. SlotHolds(y, g[r])
      BY <2>2, <2>3, <3>1, <3>2, <3>3, <3>4 DEF SlotHolds
    <3> QED  BY <2>1, <3>5 DEF y
  <2>6. CASE r \notin InBatch(b)
    <3>1. y = z /\ ~Samples(b, r)
      BY <1>1, <1>3, <2>1, <2>6 DEF SettledShape, Samples, InBatch
    <3> HIDE DEF y, z
    <3>2. SlotHolds(y, g[r])
      BY <2>2, <2>3, <2>4, <2>6, <3>1 DEF SlotHolds
    <3> QED  BY <2>1, <3>2 DEF y
  <2> QED  BY <2>5, <2>6
<1> QED  BY <1>3, <1>5 DEF TableHolds, U, g

\* A step without rows leaves the data as it begins.
LEMMA NoRowsPast ==
  ASSUME NEW b, RowsGood(b.row), NEW d \in [Reqs -> DataType], NEW k, InBatch(b) = {}
  PROVE  Past(b, k, d) = Begun(b, d)
<1>1. Begun(b, d) \in [Reqs -> DataType]
  BY BegunType
<1>2. \A r \in Reqs : b.row[r].n = 0 /\ ~Samples(b, r)
  BY RowFacts DEF InBatch, Samples
<1> DEFINE e == Begun(b, d)
<1> HIDE DEF e
<1>3. \A r \in Reqs : [computed |-> e[r].computed + b.row[r].n,
                       last |-> IF Samples(b, r) THEN k ELSE e[r].last,
                       drafts |-> IF Samples(b, r) THEN Proposal(b, k) ELSE e[r].drafts] = e[r]
  <2> SUFFICES ASSUME NEW r \in Reqs
               PROVE  [computed |-> e[r].computed + b.row[r].n,
                       last |-> IF Samples(b, r) THEN k ELSE e[r].last,
                       drafts |-> IF Samples(b, r) THEN Proposal(b, k) ELSE e[r].drafts] = e[r]
    OBVIOUS
  <2>1. e[r] \in DataType
    BY <1>1 DEF e
  <2>2. e[r].computed + b.row[r].n = e[r].computed
    BY <1>2, <2>1 DEF DataType
  <2> QED  BY <1>2, <2>1, <2>2 DEF DataType
<1>4. Past(b, k, d) = [r \in Reqs |-> e[r]]
  BY <1>3 DEF Past, e
<1> QED  BY <1>1, <1>4 DEF e

----------------------------------------------------------------------------
(* What is said of a step depends on its rows and on who comes and goes.   *)

SameBatch(b, c) == c.row = b.row /\ c.new = b.new /\ c.freed = b.freed

LEMMA SameBatchRows ==
  ASSUME NEW b, NEW c, SameBatch(b, c)
  PROVE  /\ InBatch(c) = InBatch(b) /\ (\A r : Samples(c, r) <=> Samples(b, r))
         /\ \A k : Proposal(c, k) = Proposal(b, k)
BY SameRow DEF SameBatch

LEMMA SameBatchData ==
  ASSUME NEW b, NEW c, SameBatch(b, c), NEW d
  PROVE  Begun(c, d) = Begun(b, d) /\ \A k : Past(c, k, d) = Past(b, k, d)
<1>1. Begun(c, d) = Begun(b, d)
  BY DEF Begun, SameBatch
<1>2. (\A r : Samples(c, r) <=> Samples(b, r)) /\ \A k : Proposal(c, k) = Proposal(b, k)
  BY SameBatchRows
<1>3. c.row = b.row
  BY DEF SameBatch
<1>4. ASSUME NEW k PROVE Past(c, k, d) = Past(b, k, d)
  BY <1>1, <1>2, <1>3 DEF Past
<1> QED  BY <1>1, <1>4

LEMMA SameBatchLayout ==
  ASSUME NEW b, NEW c, SameBatch(b, c), NEW l
  PROVE  Laid(l, c) = Laid(l, b) /\ (Fits(l, c) <=> Fits(l, b))
BY DEF Laid, Fits, SameBatch

LEMMA SameBatchSeen ==
  ASSUME NEW b, NEW c, SameBatch(b, c), NEW d, NEW l
  PROVE  Seen(c, d, l) = Seen(b, d, l)
<1>1. Begun(c, d) = Begun(b, d) /\ InBatch(c) = InBatch(b) /\ c.row = b.row
  BY SameBatchData, SameBatchRows DEF SameBatch
<1> QED  BY <1>1 DEF Seen

LEMMA SameBatchGood ==
  ASSUME NEW b, NEW c, SameBatch(b, c), NEW d, NEW l, NEW k, RowGood(b, k, d, l)
  PROVE  RowGood(c, k, d, l)
<1>1. Begun(c, d) = Begun(b, d) /\ InBatch(c) = InBatch(b) /\ c.row = b.row
  BY SameBatchData, SameBatchRows DEF SameBatch
<1> QED  BY <1>1 DEF RowGood

\* o .. c are in flight, the last stage is at step a and runs step f next.
Window(o, a, f, c) ==
  /\ o \in Nat /\ a \in Nat /\ f \in Nat /\ c \in Nat /\ o > 0
  /\ o <= a /\ a <= f /\ f <= c + 1

SameSteps(B, C, o, c) ==
  \A k \in o .. c : /\ SameBatch(B[k], C[k]) /\ C[k].rejected = B[k].rejected
                    /\ DOMAIN C[k] = DOMAIN B[k] /\ DOMAIN C[k].view = DOMAIN B[k].view

\* The data of the steps from f on.
LEMMA SameChained ==
  ASSUME NEW B, NEW C, NEW D, NEW L, NEW f, NEW c,
         \A k \in f .. c : SameBatch(B[k], C[k]), Chained(D, L, B, f, c)
  PROVE  Chained(D, L, C, f, c)
<1>1. \A k \in f .. c : /\ Past(C[k], k, D[k]) = Past(B[k], k, D[k])
                        /\ Laid(L[k], C[k]) = Laid(L[k], B[k]) /\ (Fits(L[k], C[k]) <=> Fits(L[k], B[k]))
  BY SameBatchData, SameBatchLayout
<1> QED  BY <1>1 DEF Chained

LEMMA SameBatches ==
  ASSUME NEW b, NEW c, SameBatch(b, c), c.rejected = b.rejected, DOMAIN c = DOMAIN b,
         DOMAIN c.view = DOMAIN b.view, BatchGood(b)
  PROVE  BatchGood(c)
BY DEF BatchGood, SameBatch

LEMMA SameSays ==
  ASSUME NEW B, NEW C, NEW a \in Nat, NEW c \in Nat, \A k \in a .. c : SameBatch(B[k], C[k]),
         NEW k \in Nat, k <= c + 1, NEW d \in [Reqs -> DataType], LastSays(B, a, k, d)
  PROVE  LastSays(C, a, k, d)
<1>1. \A j \in a .. c : /\ \A r \in Reqs : Samples(C[j], r) <=> Samples(B[j], r)
                        /\ Proposal(C[j], j) = Proposal(B[j], j)
  BY SameBatchRows
<1>2. \A r \in Reqs : d[r].last \in Nat
  BY DEF DataType
<1>3. \A r \in Reqs : d[r].last < k /\ d[r].last >= a => d[r].last \in a .. c
  BY <1>2
<1>4. \A j \in a .. k - 1 : j \in a .. c
  OBVIOUS
<1> QED  BY <1>1, <1>3, <1>4 DEF LastSays

LEMMA SameStepsOK ==
  ASSUME NEW B, NEW C, NEW D, NEW L, NEW o, NEW a, NEW f, NEW c, Window(o, a, f, c),
         NEW m \in Nat, o <= m, m <= a, SameSteps(B, C, m, c), Chained(D, L, B, f, c),
         StepsOK(D, L, B, a, f, o, c)
  PROVE  StepsOK(D, L, C, a, f, m, c)
<1>0. o \in Nat /\ a \in Nat /\ f \in Nat /\ c \in Nat /\ a <= f /\ f <= c + 1
  BY DEF Window
<1>1. \A k \in m .. c : k \in o .. c /\ SameBatch(B[k], C[k]) /\ C[k].rejected = B[k].rejected
                        /\ DOMAIN C[k] = DOMAIN B[k] /\ DOMAIN C[k].view = DOMAIN B[k].view
  BY <1>0 DEF SameSteps
<1>2. \A k \in a .. c : k \in m .. c
  BY <1>0
<1>3. \A k \in f .. c : k \in m .. c
  BY <1>0
<1>4. \A k \in m .. c : BatchGood(C[k])
  BY <1>1, SameBatches DEF StepsOK
<1>5. \A k \in a .. c : \A r \in Reqs : C[k].rejected[r] = 0
  BY <1>1, <1>2 DEF StepsOK
<1>6. \A k \in f .. c : RowGood(C[k], k, D[k], L[k + 1])
  BY <1>1, <1>3, SameBatchGood DEF StepsOK
<1>7. \A k \in f .. c + 1 : LastSays(C, a, k, D[k])
  <2> SUFFICES ASSUME NEW k \in f .. c + 1 PROVE LastSays(C, a, k, D[k])
    OBVIOUS
  <2>1. k \in Nat /\ k <= c + 1 /\ D[k] \in [Reqs -> DataType]
    BY <1>0 DEF Chained
  <2>2. LastSays(B, a, k, D[k])
    BY DEF StepsOK
  <2>3. \A j \in a .. c : SameBatch(B[j], C[j])
    BY <1>1, <1>2
  <2> QED  BY <1>0, <2>1, <2>2, <2>3, SameSays
<1>8. NoReturn(C, m, c)
  <2>1. NoReturn(B, o, c)
    BY DEF StepsOK
  <2>2. \A k \in m .. c : InBatch(C[k]) = InBatch(B[k]) /\ C[k].new = B[k].new
    BY <1>1, SameBatchRows DEF SameBatch
  <2> QED  BY <1>1, <2>1, <2>2 DEF NoReturn
<1>9. Grows(D, C, f, c)
  <2>1. Grows(D, B, f, c)
    BY DEF StepsOK
  <2>2. \A k \in f .. c : C[k].new = B[k].new
    BY <1>1, <1>3 DEF SameBatch
  <2>3. \A j, k \in f .. c + 1 : \A i \in j .. k - 1 : i \in f .. c
    BY <1>0
  <2>4. SUFFICES ASSUME NEW j \in f .. c + 1, NEW k \in f .. c + 1, NEW r \in Reqs, j <= k,
                        \A i \in j .. k - 1 : r \notin C[i].new
                 PROVE  D[j][r].computed <= D[k][r].computed
    BY DEF Grows
  <2>5. \A i \in j .. k - 1 : r \notin B[i].new
    BY <2>2, <2>3, <2>4
  <2> QED  BY <2>1, <2>4, <2>5 DEF Grows
<1> QED  BY <1>4, <1>5, <1>6, <1>7, <1>8, <1>9 DEF StepsOK

LEMMA SameCounts ==
  ASSUME NEW B, NEW C, NEW o \in Nat, NEW c \in Nat, SameSteps(B, C, o, c), NEW r
  PROVE  AllRejected(C, o, c, r) = AllRejected(B, o, c, r) /\ AllRows(C, o, c, r) = AllRows(B, o, c, r)
<1>1. \A i \in 1 .. c - o + 1 : o + i - 1 \in o .. c
  OBVIOUS
<1>2. \A i \in 1 .. c - o + 1 : C[o + i - 1].rejected[r] = B[o + i - 1].rejected[r]
  BY <1>1 DEF SameSteps
<1>3. \A i \in 1 .. c - o + 1 : (r \in InBatch(C[o + i - 1])) = (r \in InBatch(B[o + i - 1]))
  BY <1>1, SameBatchRows DEF SameSteps
<1>4. Rejected(C, o, c, r) = Rejected(B, o, c, r)
  BY <1>2 DEF Rejected
<1>5. Rows(C, o, c, r) = Rows(B, o, c, r)
  BY <1>3 DEF Rows
<1> QED  BY <1>4, <1>5 DEF AllRejected, AllRows

\* The last stage is where it was.
SameLast(S, T) == T[Last].phase = S[Last].phase /\ T[Last].next = S[Last].next

LEMMA SameReached ==
  ASSUME NEW S, NEW T, SameLast(S, T) PROVE ReachedOf(T[Last]) = ReachedOf(S[Last])
BY DEF ReachedOf, SameLast

LEMMA SameFloor ==
  ASSUME NEW D, NEW B, NEW C, NEW S, NEW T, NEW o, NEW c, SameLast(S, T), SameSteps(B, C, o, c),
         Window(o, S[Last].next, ReachedOf(S[Last]), c), NEW r, NEW n, Floor(D, B, S, c, r, n)
  PROVE  Floor(D, C, T, c, r, n)
<1> DEFINE f == ReachedOf(S[Last])
           a == S[Last].next
<1>0. o \in Nat /\ a \in Nat /\ f \in Nat /\ c \in Nat /\ o <= a /\ a <= f /\ f <= c + 1
  BY DEF Window
<1>1. ReachedOf(T[Last]) = f
  BY SameReached
<1>2. S[Last].phase = "sample" => f = a + 1
  BY DEF ReachedOf
<1>3. \A k \in f .. c : C[k].row = B[k].row
  BY <1>0 DEF SameSteps, SameBatch
<1>4. S[Last].phase = "sample" => C[a].row = B[a].row
  BY <1>0, <1>2 DEF SameSteps, SameBatch
<1>5. T[Last].phase = S[Last].phase /\ T[Last].next = a
  BY DEF SameLast
<1> QED  BY <1>1, <1>3, <1>4, <1>5 DEF Floor

LEMMA SameRequestsOK ==
  ASSUME NEW B, NEW C, NEW D, NEW L, NEW S, NEW T, NEW Q, NEW F, NEW o, NEW c, SameLast(S, T),
         SameSteps(B, C, o, c), Window(o, S[Last].next, ReachedOf(S[Last]), c),
         RequestsOK(D, L, B, S, Q, F, o, c)
  PROVE  RequestsOK(D, L, C, T, Q, F, o, c)
<1>0. o \in Nat /\ c \in Nat
  BY DEF Window
<1>1. \A r : AllRejected(C, o, c, r) = AllRejected(B, o, c, r) /\ AllRows(C, o, c, r) = AllRows(B, o, c, r)
  BY <1>0, SameCounts
<1>2. \A k \in o .. c : C[k].rejected = B[k].rejected
  BY DEF SameSteps
<1>3. ASSUME NEW r \in Reqs, RequestOK(B, o, c, r, Q[r]) PROVE RequestOK(C, o, c, r, Q[r])
  BY <1>1, <1>3 DEF RequestOK
<1>4. ASSUME NEW r \in Reqs, InUseOK(B, o, c, r, Q[r], D[c + 1][r])
      PROVE  InUseOK(C, o, c, r, Q[r], D[c + 1][r])
  BY <1>1, <1>2, <1>4 DEF InUseOK
<1>5. ASSUME NEW r \in Reqs, Floor(D, B, S, c, r, Q[r].prefill) PROVE Floor(D, C, T, c, r, Q[r].prefill)
  BY <1>5, SameFloor
<1>6. Active(Q) \subseteq Reqs
  BY DEF Active
<1> QED  BY <1>3, <1>4, <1>5, <1>6 DEF RequestsOK

----------------------------------------------------------------------------
(* execute_model on a stage before the last.                               *)

DueFor(st) == st.pending # <<>> /\ Head(st.pending).step = st.next - PPSize
RelayOf(st, w) ==
  IF DueFor(st) THEN Relayed(st, Head(st.pending), SubSeq(w, 1, Len(ReceiveOrder))) ELSE st
WireOf(st, w) == IF DueFor(st) THEN SubSeq(w, Len(ReceiveOrder) + 1, Len(w)) ELSE w
ReadyOf(st, b) == Added(Freed(st, b.freed), b.new)
ForwardOf(st, b, k) ==
  IF InBatch(b) = {} THEN [st EXCEPT !.next = k + 1]
  ELSE [st EXCEPT !.phase = "sample", !.input = [row |-> b.row]]

\* The receives of a stage, and a wire that is not ahead of them.
Ahead(q, w, k) ==
  /\ Increase(q) /\ (\A i \in 1 .. Len(q) : q[i].step < k)
  /\ IsSeq(w) /\ Len(w) <= 3 * Len(q) /\ Carries(w)

LEMMA RelayOfMatches ==
  ASSUME NEW st, HasSlots(st), DOMAIN st = StageFields, LayoutGood(Layout(st)), Receiving(st.pending),
         NEW k \in Nat, k = st.next, Fresh(st.pending, k),
         NEW w, Ahead(st.pending, w, k), DueFor(st) => Len(w) >= 3,
         NEW d \in [Reqs -> DataType], Matches(st.table, st.pending, w, d)
  PROVE  /\ HasSlots(RelayOf(st, w)) /\ Layout(RelayOf(st, w)) = Layout(st)
         /\ DOMAIN RelayOf(st, w) = StageFields /\ RelayOf(st, w).next = k
         /\ Receiving(RelayOf(st, w).pending) /\ Fresh(RelayOf(st, w).pending, k + 1)
         /\ RelayOf(st, w).phase = st.phase
         /\ Ahead(RelayOf(st, w).pending, WireOf(st, w), k)
         /\ Matches(RelayOf(st, w).table, RelayOf(st, w).pending, WireOf(st, w), d)
<1> DEFINE q == st.pending
           n == Len(q)
           x == RelayOf(st, w)
           v == WireOf(st, w)
<1>1. IsSeq(q) /\ n \in Nat /\ \A i \in 1 .. n : q[i].step \in Nat /\ q[i].step > 0
  BY IsSeqFacts DEF Receiving
<1>2. /\ Increase(q) /\ \A i \in 1 .. n : q[i].step < k /\ q[i].step >= k - PPSize
  BY DEF Ahead, Fresh
<1>3. IsSeq(w) /\ Len(w) \in Nat /\ Len(w) <= 3 * n /\ Carries(w)
  BY IsSeqFacts DEF Ahead
<1>4. Len(ReceiveOrder) = 3
  BY DEF ReceiveOrder
<1>5. q # <<>> => n >= 1 /\ Head(q) = q[1]
  BY <1>1, IsSeqFacts
<1>6. \A i \in 1 .. n : i > 1 => 1 \in 1 .. n /\ q[1].step < q[i].step
  BY <1>1, <1>2 DEF Increase
<1>7. CASE DueFor(st)
  <2>1. /\ x = Relayed(st, Head(q), SubSeq(w, 1, 3)) /\ v = SubSeq(w, 4, Len(w))
        /\ q # <<>> /\ q[1].step = k - PPSize
    BY <1>4, <1>5, <1>7 DEF RelayOf, WireOf, DueFor
  <2>2. Len(w) >= 3 /\ n >= 1
    BY <1>5, <1>7, <2>1
  <2> HIDE DEF x, v
  <2>3. /\ HasSlots(x) /\ Layout(x) = Layout(st) /\ x.pending = Tail(q)
        /\ Receiving(x.pending) /\ Carries(v) /\ Matches(x.table, x.pending, v, d)
    BY <1>2, <1>3, <2>1, <2>2, RelayedMatches
  <2>4. DOMAIN x = StageFields /\ x.next = k /\ x.phase = st.phase
    BY <2>1, RelayedFields
  <2>5. /\ IsSeq(Tail(q)) /\ Len(Tail(q)) = n - 1
        /\ \A i \in 1 .. n - 1 : Tail(q)[i] = q[i + 1]
    BY <1>1, <2>1, TailSeq
  <2>6. IsSeq(v) /\ Len(v) = Len(w) - 3
    BY <1>3, <2>1, <2>2, 3 \in Nat, 3 + 1 = 4, RestSeq
  <2> HIDE DEF n
  <2>7. \A i \in 1 .. n - 1 : i + 1 \in 1 .. n /\ i + 1 > 1
    BY <1>1
  <2>8. Fresh(x.pending, k + 1)
    <3>0. PPSize \in Nat /\ (k + 1) - PPSize = (k - PPSize) + 1
      BY LastFacts
    <3>1. \A i \in 1 .. n - 1 : q[i + 1].step \in Nat /\ q[i + 1].step > 0 /\ q[1].step < q[i + 1].step
      BY <1>1, <1>6, <2>7 DEF n
    <3>2. \A i \in 1 .. n - 1 : q[i + 1].step >= (k + 1) - PPSize /\ q[i + 1].step > 0
      BY <2>1, <3>0, <3>1
    <3> QED  BY <2>3, <2>5, <3>2 DEF Fresh
  <2>9. Increase(x.pending)
    <3>1. \A i, j \in 1 .. n - 1 : i < j => i + 1 < j + 1
      BY <1>1
    <3>2. \A i, j \in 1 .. n - 1 : i < j => q[i + 1].step < q[j + 1].step
      BY <1>2, <2>7, <3>1 DEF Increase, n
    <3> QED  BY <2>3, <2>5, <3>2 DEF Increase
  <2>10. \A i \in 1 .. n - 1 : q[i + 1].step < k
    BY <1>2, <2>7
  <2>11. Len(v) <= 3 * (n - 1)
    BY <1>1, <1>3, <2>6 DEF n
  <2>12. Ahead(x.pending, v, k)
    BY <2>3, <2>5, <2>6, <2>9, <2>10, <2>11 DEF Ahead
  <2> QED  BY <2>3, <2>4, <2>8, <2>12 DEF x, v
<1>8. CASE ~DueFor(st)
  <2>1. x = st /\ v = w
    BY <1>8 DEF RelayOf, WireOf
  <2> HIDE DEF x, v
  <2>2. q # <<>> => q[1].step > k - PPSize
    <3>1. q # <<>> => 1 \in 1 .. n /\ q[1].step # k - PPSize
      BY <1>1, <1>5, <1>8 DEF DueFor
    <3>2. PPSize \in Nat
      BY LastFacts
    <3> QED  BY <1>1, <1>2, <3>1, <3>2
  <2>3. Fresh(q, k + 1)
    <3>0. PPSize \in Nat /\ (k + 1) - PPSize = (k - PPSize) + 1
      BY LastFacts
    <3>1. ASSUME NEW i \in 1 .. n PROVE q[i].step >= (k + 1) - PPSize
      <4>1. q # <<>> /\ 1 \in 1 .. n
        BY <1>1, <3>1, IsSeqFacts
      <4>2. q[1].step <= q[i].step
        BY <1>1, <1>6, <3>1, <4>1
      <4>3. q[1].step \in Nat /\ q[i].step \in Nat /\ q[1].step > k - PPSize
        BY <1>1, <2>2, <3>1, <4>1
      <4> DEFINE u == q[1].step
                 v1 == q[i].step
      <4> HIDE DEF u, v1
      <4>4. u \in Nat /\ v1 \in Nat /\ u > k - PPSize /\ u <= v1
        BY <4>2, <4>3 DEF u, v1
      <4>5. v1 >= (k + 1) - PPSize
        BY <3>0, <4>4
      <4> QED  BY <4>5 DEF v1
    <3> QED  BY <1>1, <3>1 DEF Fresh
  <2> QED  BY <2>1, <2>3 DEF x, v
<1> QED  BY <1>7, <1>8

\* What the data and the layout promise of step k with batch b.
StepGood(b, k, d, l) ==
  /\ BatchGood(b) /\ Fits(l, b) /\ RowGood(b, k, d, Laid(l, b)) /\ LayoutGood(l)
  /\ k \in Nat /\ k > 0 /\ d \in [Reqs -> DataType] /\ \A r \in Reqs : d[r].last < k

\* The fields of a stage after the forward pass.
LEMMA ForwardFields ==
  ASSUME NEW st, DOMAIN st = StageFields, NEW b, NEW k
  PROVE  /\ DOMAIN ForwardOf(st, b, k) = StageFields
         /\ ForwardOf(st, b, k).table = st.table /\ ForwardOf(st, b, k).free = st.free
         /\ ForwardOf(st, b, k).pending = st.pending
         /\ InBatch(b) = {} => ForwardOf(st, b, k).next = k + 1 /\ ForwardOf(st, b, k).phase = st.phase
         /\ InBatch(b) # {} => /\ ForwardOf(st, b, k).next = st.next
                               /\ ForwardOf(st, b, k).phase = "sample"
                               /\ ForwardOf(st, b, k).input = [row |-> b.row]
BY DEF ForwardOf, StageFields

\* Stage st may run step k, and what it does then.
OtherCan(st, w, k) ==
  /\ DOMAIN st = StageFields /\ IsSeq(st.pending) /\ st.phase = "execute" /\ st.next = k
  /\ \A e \in 1 .. Len(st.pending) : /\ {"slot", "step"} \subseteq DOMAIN st.pending[e]
                                     /\ st.pending[e].step \in Nat
  /\ Ahead(st.pending, w, k) /\ (DueFor(st) => Len(w) >= 3)
OtherDone(st, w, b, k, d, l) ==
  LET x == ReadyOf(RelayOf(st, w), b)
  IN  /\ View(x, b) = Seen(b, d, Laid(l, b))
      /\ OtherMatches(ForwardOf(x, b, k), WireOf(st, w), Past(b, k, d), Laid(l, b))
LastCan(st, k) == DOMAIN st = StageFields /\ st.pending = <<>> /\ st.phase = "execute" /\ st.next = k
LastDone(st, b, k, d, l) ==
  LET x == ReadyOf(st, b)
  IN  /\ View(x, b) = Seen(b, d, Laid(l, b))
      /\ LastMatches(ForwardOf(x, b, k), Past(b, k, d), Laid(l, b))

LEMMA OtherForward ==
  ASSUME NEW st, NEW w, NEW b, NEW k, NEW d, NEW l, OtherCan(st, w, k), StepGood(b, k, d, l),
         OtherMatches(st, w, d, l)
  PROVE  OtherDone(st, w, b, k, d, l)
<1> DEFINE z == RelayOf(st, w)
           x == ReadyOf(z, b)
           v == WireOf(st, w)
           y == ForwardOf(x, b, k)
           e == Begun(b, d)
           m == Laid(l, b)
<1>0. /\ DOMAIN st = StageFields /\ IsSeq(st.pending) /\ st.phase = "execute" /\ k = st.next
      /\ \A i \in 1 .. Len(st.pending) : {"slot", "step"} \subseteq DOMAIN st.pending[i] /\ st.pending[i].step \in Nat
      /\ Ahead(st.pending, w, k) /\ (DueFor(st) => Len(w) >= 3)
  BY DEF OtherCan
<1>1. /\ k \in Nat /\ k > 0 /\ d \in [Reqs -> DataType] /\ LayoutGood(l) /\ RowsGood(b.row)
      /\ b.new \in SUBSET Reqs /\ b.freed \in SUBSET Reqs /\ Fits(l, b) /\ RowGood(b, k, d, m)
      /\ \A r \in Reqs : d[r].last < k
  BY DEF StepGood, BatchGood
<1>2. /\ Layout(st) = l /\ st.table \in [Slots -> SlotShape] /\ Carries(w)
      /\ Fresh(st.pending, k) /\ Matches(st.table, st.pending, w, d)
  BY <1>0 DEF OtherMatches, Receives, ReachedOf, OtherTable
<1>3. HasSlots(st) /\ LayoutGood(Layout(st)) /\ Receiving(st.pending)
  BY <1>0, <1>1, <1>2 DEF HasSlots, StageFields, Receiving, Fresh
<1>4. /\ HasSlots(z) /\ Layout(z) = l /\ DOMAIN z = StageFields /\ z.next = k /\ z.phase = "execute"
      /\ Receiving(z.pending) /\ Fresh(z.pending, k + 1) /\ Ahead(z.pending, v, k)
      /\ Matches(z.table, z.pending, v, d)
  BY <1>0, <1>1, <1>2, <1>3, RelayOfMatches
<1> HIDE DEF z, v
<1>5. x = ReadyOf(z, b)
  OBVIOUS
<1> HIDE DEF x
<1>6. ReadyShape(z, b, x)
  BY <1>1, <1>4, <1>5, ReadyFacts DEF ReadyOf
<1>7. /\ Matches(x.table, x.pending, v, e) /\ Receiving(x.pending) /\ Len(x.pending) = Len(z.pending)
      /\ \A i \in 1 .. Len(z.pending) : x.pending[i].step = z.pending[i].step
  <2>1. LayoutGood(Layout(z)) /\ Fits(Layout(z), b)
    BY <1>1, <1>4
  <2>2. Matches(x.table, x.pending, v, e)
    BY <1>1, <1>4, <1>6, <2>1, ReadyMatches
  <2>3. Receiving(x.pending) /\ Len(x.pending) = Len(z.pending)
    BY <1>1, <1>4, <1>6, <2>1, ReadyMatches
  <2>4. \A i \in 1 .. Len(z.pending) : x.pending[i].step = z.pending[i].step
    BY <1>4, <1>6, MaskedFacts DEF ReadyShape
  <2> QED  BY <2>2, <2>3, <2>4
<1>8. Layout(x) = m /\ LayoutGood(m)
  BY <1>1, <1>4, <1>5, ReadyLayout DEF ReadyOf
<1>9. DOMAIN x = StageFields /\ x.next = k /\ x.phase = "execute"
  BY <1>4, <1>5, ReadyFields DEF ReadyOf, Receiving
<1>10. Fresh(x.pending, k + 1) /\ (\A i \in 1 .. Len(x.pending) : x.pending[i].step < k)
  BY <1>4, <1>7 DEF Fresh, Ahead
<1>11. Len(v) \in Nat /\ Len(v) <= 3 * Len(x.pending) /\ Carries(v)
  BY <1>4, <1>7, IsSeqFacts DEF Ahead
<1>12. HasSlots(x) /\ x.table \in [Slots -> SlotShape]
  BY <1>6 DEF ReadyShape, HasSlots
<1> HIDE DEF m, e
<1>13. View(x, b) = Seen(b, d, m)
  <2>1. LayoutGood(Layout(x)) /\ RowGood(b, k, d, Layout(x)) /\ Matches(x.table, x.pending, v, Begun(b, d))
    BY <1>1, <1>7, <1>8 DEF e
  <2>2. View(x, b) = Seen(b, d, Layout(x))
    BY <1>1, <1>7, <1>10, <2>1, ReadyView
  <2> QED  BY <1>8, <2>2
<1>14. /\ DOMAIN y = StageFields /\ y.table = x.table /\ y.free = x.free /\ y.pending = x.pending
       /\ InBatch(b) = {} => y.next = k + 1 /\ y.phase = "execute"
       /\ InBatch(b) # {} => y.next = k /\ y.phase = "sample" /\ y.input = [row |-> b.row]
  BY <1>9, ForwardFields
<1> HIDE DEF y
<1>15. Layout(y) = m /\ y.table \in [Slots -> SlotShape] /\ HasSlots(y)
  BY <1>8, <1>12, <1>14 DEF Layout, HasSlots, StageFields
<1>16. ASSUME InBatch(b) = {} PROVE OtherMatches(y, v, Past(b, k, d), m)
  <2>1. ReachedOf(y) = k + 1 /\ Receives(y) = x.pending /\ OtherTable(y) = x.table
    BY <1>14, <1>16 DEF ReachedOf, Receives, OtherTable
  <2>2. Past(b, k, d) = e
    BY <1>1, <1>16, NoRowsPast DEF e
  <2>3. OtherMatches(y, v, Past(b, k, d), m)
    BY <1>7, <1>10, <1>11, <1>15, <2>1, <2>2 DEF OtherMatches
  <2> QED  BY <2>3
<1>17. ASSUME InBatch(b) # {} PROVE OtherMatches(y, v, Past(b, k, d), m)
  <2>1. ReachedOf(y) = k + 1 /\ Receives(y) = Append(y.pending, Posted(y, k))
        /\ OtherTable(y) = Advanced(y.input, y.table)
    BY <1>14, <1>17 DEF ReachedOf, Receives, OtherTable
  <2>2. y.input.row = b.row
    BY <1>14, <1>17
  <2>3. /\ LayoutGood(Layout(y)) /\ RowGood(b, k, d, Layout(y)) /\ Receiving(y.pending)
        /\ Fresh(y.pending, k + 1) /\ (\A i \in 1 .. Len(y.pending) : y.pending[i].step < k)
        /\ Len(v) <= 3 * Len(y.pending) /\ Matches(y.table, y.pending, v, Begun(b, d))
    BY <1>1, <1>7, <1>8, <1>10, <1>11, <1>14, <1>15 DEF e
  <2>4. /\ Matches(Advanced(y.input, y.table), Append(y.pending, Posted(y, k)), v, Past(b, k, d))
        /\ Fresh(Append(y.pending, Posted(y, k)), k + 1)
    BY <1>1, <1>11, <1>15, <2>2, <2>3, AdvancedMatches
  <2>5. OtherMatches(y, v, Past(b, k, d), m)
    BY <1>11, <1>15, <2>1, <2>4 DEF OtherMatches
  <2> QED  BY <2>5
<1>18. OtherMatches(y, v, Past(b, k, d), m)
  BY <1>16, <1>17
<1> QED  BY <1>13, <1>18 DEF y, v, m, x, z, OtherDone

LEMMA LastExecutes ==
  ASSUME NEW st, DOMAIN st = StageFields, st.pending = <<>>, st.phase = "execute",
         NEW k, NEW b, NEW d, NEW l, StepGood(b, k, d, l), k = st.next, LastMatches(st, d, l),
         NEW x, x = ReadyOf(st, b)
  PROVE  /\ View(x, b) = Seen(b, d, Laid(l, b))
         /\ LastMatches(ForwardOf(x, b, k), Past(b, k, d), Laid(l, b))
<1> DEFINE y == ForwardOf(x, b, k)
           e == Begun(b, d)
           m == Laid(l, b)
<1>1. /\ k \in Nat /\ k > 0 /\ d \in [Reqs -> DataType] /\ LayoutGood(l) /\ RowsGood(b.row)
      /\ b.new \in SUBSET Reqs /\ b.freed \in SUBSET Reqs /\ Fits(l, b) /\ RowGood(b, k, d, m)
      /\ \A r \in Reqs : d[r].last < k
  BY DEF StepGood, BatchGood
<1>2. Layout(st) = l /\ st.table \in [Slots -> SlotShape] /\ Matches(st.table, <<>>, <<>>, d)
  BY DEF LastMatches, LastTable
<1>3. IsSeq(<<>>) /\ Len(<<>>) = 0
  BY DEF IsSeq
<1>4. HasSlots(st) /\ LayoutGood(Layout(st)) /\ Receiving(st.pending)
  BY <1>1, <1>2, <1>3 DEF HasSlots, StageFields, Receiving
<1>5. Matches(st.table, st.pending, <<>>, d)
  BY <1>2
<1>6. ReadyShape(st, b, x)
  BY <1>1, <1>2, <1>4, ReadyFacts DEF ReadyOf
<1>7. Matches(x.table, x.pending, <<>>, e) /\ Receiving(x.pending) /\ Len(x.pending) = 0
  <2>1. Fits(Layout(st), b)
    BY <1>1, <1>2
  <2>2. Matches(x.table, x.pending, <<>>, e) /\ Receiving(x.pending) /\ Len(x.pending) = Len(st.pending)
    <3>1. d \in [Reqs -> DataType] /\ b.new \in SUBSET Reqs /\ b.freed \in SUBSET Reqs
      BY <1>1
    <3>2. HasSlots(st) /\ LayoutGood(Layout(st)) /\ Receiving(st.pending)
      BY <1>4
    <3> HIDE DEF m, y
    <3> QED  BY <1>5, <1>6, <2>1, <3>1, <3>2, ReadyMatches
  <2> QED  BY <1>3, <2>2
<1>8. Layout(x) = m /\ LayoutGood(m)
  BY <1>1, <1>2, <1>4, ReadyLayout DEF ReadyOf
<1>9. DOMAIN x = StageFields /\ x.next = k /\ x.phase = "execute"
  BY <1>3, <1>4, ReadyFields DEF ReadyOf, Receiving
<1>10. Fresh(x.pending, k + 1)
  BY <1>7 DEF Fresh
<1>11. HasSlots(x) /\ x.table \in [Slots -> SlotShape]
  BY <1>6 DEF ReadyShape, HasSlots
<1>12. TableHolds(x.table, e)
  BY <1>7, EmptyMatches
<1> HIDE DEF m, e
<1>13. View(x, b) = Seen(b, d, m)
  <2>1. LayoutGood(Layout(x)) /\ RowGood(b, k, d, Layout(x)) /\ Matches(x.table, x.pending, <<>>, Begun(b, d))
    BY <1>1, <1>7, <1>8 DEF e
  <2>2. View(x, b) = Seen(b, d, Layout(x))
    BY <1>1, <1>7, <1>10, <2>1, ReadyView
  <2> QED  BY <1>8, <2>2
<1>14. /\ DOMAIN y = StageFields /\ y.table = x.table /\ y.free = x.free /\ y.pending = x.pending
       /\ InBatch(b) = {} => y.next = k + 1 /\ y.phase = "execute"
       /\ InBatch(b) # {} => y.next = k /\ y.phase = "sample" /\ y.input = [row |-> b.row]
  BY <1>9, ForwardFields
<1> HIDE DEF y
<1>15. Layout(y) = m /\ y.table \in [Slots -> SlotShape]
  BY <1>8, <1>11, <1>14 DEF Layout
<1>16. CASE InBatch(b) = {}
  <2>1. LastTable(y) = x.table
    BY <1>14, <1>16 DEF LastTable
  <2>2. Past(b, k, d) = e
    BY <1>1, <1>16, NoRowsPast DEF e
  <2>3. Matches(LastTable(y), <<>>, <<>>, Past(b, k, d))
    BY <1>12, <2>1, <2>2, EmptySeqMatches
  <2> QED  BY <1>13, <1>15, <2>3 DEF y, m, LastMatches
<1>17. CASE InBatch(b) # {}
  <2> DEFINE rej == [r \in InBatch(y.input) |-> 0]
  <2>1. y.input.row = b.row /\ LastTable(y) = Settled(y.input, x.table, k, rej)
    BY <1>14, <1>17 DEF LastTable
  <2>2. \A r \in InBatch(b) : rej[r] = 0
    BY <2>1, SameRow
  <2> HIDE DEF rej
  <2>3. OwnersDiffer(x.table)
    <3>1. LayoutGood(Layout(x))
      BY <1>8
    <3> QED  BY <3>1, LayoutOwners
  <2>4. TableHolds(x.table, Begun(b, d))
    BY <1>12 DEF e
  <2>5. TableHolds(Settled(y.input, x.table, k, rej), Past(b, k, d))
    BY <1>1, <2>1, <2>2, <2>3, <2>4, SettledMatches
  <2>6. Matches(LastTable(y), <<>>, <<>>, Past(b, k, d))
    BY <2>1, <2>5, EmptySeqMatches
  <2> QED  BY <1>13, <1>15, <2>6 DEF y, m, LastMatches
<1> QED  BY <1>16, <1>17
LEMMA LastForward ==
  ASSUME NEW st, NEW b, NEW k, NEW d, NEW l, LastCan(st, k), StepGood(b, k, d, l), LastMatches(st, d, l)
  PROVE  LastDone(st, b, k, d, l)
<1> DEFINE x == ReadyOf(st, b)
<1>1. x = ReadyOf(st, b)
  OBVIOUS
<1> HIDE DEF x
<1>2. View(x, b) = Seen(b, d, Laid(l, b))
      /\ LastMatches(ForwardOf(x, b, k), Past(b, k, d), Laid(l, b))
  BY <1>1, LastExecutes DEF LastCan
<1> QED  BY <1>2 DEF x, LastDone

----------------------------------------------------------------------------
(* A stage runs the forward pass of step k: what it read.                  *)

LEMMA SeenBounded ==
  ASSUME NEW b, RowsGood(b.row), NEW k, NEW d \in [Reqs -> DataType], NEW l, RowGood(b, k, d, l)
  PROVE  \A r \in InBatch(b) :
           /\ Seen(b, d, l)[r].computed <= Seen(b, d, l)[r].bound
           /\ b.row[r].kind # "decode" => Seen(b, d, l)[r].computed = Seen(b, d, l)[r].bound
<1> SUFFICES ASSUME NEW r \in InBatch(b)
             PROVE  /\ Seen(b, d, l)[r].computed <= Seen(b, d, l)[r].bound
                    /\ b.row[r].kind # "decode" => Seen(b, d, l)[r].computed = Seen(b, d, l)[r].bound
  BY Zenon
<1>1. Seen(b, d, l)[r].computed = Begun(b, d)[r].computed /\ Seen(b, d, l)[r].bound = b.row[r].base
  BY DEF Seen
<1>2. b.row[r].kind # "decode" => Begun(b, d)[r].computed = b.row[r].base
  BY DEF RowGood
<1>3. b.row[r].kind = "decode" => Begun(b, d)[r].computed <= b.row[r].base
  BY DEF RowGood
<1>4. Begun(b, d)[r].computed = b.row[r].base => Begun(b, d)[r].computed <= b.row[r].base
  <2>1. r \in Reqs /\ b.row[r].base \in Nat
    BY RowFacts DEF InBatch
  <2> QED  BY <2>1
<1> QED  BY <1>1, <1>2, <1>3, <1>4

LEMMA ViewsExecute ==
  ASSUME NEW B, NEW C, NEW D, NEW L, NEW S, NEW T, NEW o, NEW a, NEW f, NEW c, Window(o, a, f, c),
         f = ReachedOf(S[Last]), NEW k \in f .. c, NEW p \in Ranks,
         \A q \in Ranks \ {p} : T[q] = S[q], ReachedOf(S[p]) = k, ReachedOf(T[p]) = k + 1,
         \A j \in (o .. c) \ {k} : C[j] = B[j], SameBatch(B[k], C[k]), DOMAIN B[k].view = Ranks,
         C[k].view = [B[k].view EXCEPT ![p] = Seen(B[k], D[k], L[k + 1])],
         RowsGood(B[k].row), D[k] \in [Reqs -> DataType], RowGood(B[k], k, D[k], L[k + 1]),
         ViewsOK(D, L, B, S, o, c)
  PROVE  ViewsOK(D, L, C, T, o, c)
<1> DEFINE s == Seen(B[k], D[k], L[k + 1])
<1>0. o \in Nat /\ a \in Nat /\ f \in Nat /\ c \in Nat /\ o <= a /\ a <= f /\ f <= c + 1 /\ k \in Nat /\ k \in o .. c
  BY DEF Window
<1>1. C[k].view[p] = s /\ \A q \in Ranks \ {p} : C[k].view[q] = B[k].view[q]
  OBVIOUS
<1>2. Executed(C[k]) \subseteq Executed(B[k]) \cup {p}
  BY <1>1 DEF Executed
<1>3. \A j \in (o .. c) \ {k} : Executed(C[j]) = Executed(B[j])
  OBVIOUS
<1>4. \A q \in Executed(C[k]) : C[k].view[q] = s
  <2>1. \A q \in Executed(B[k]) : B[k].view[q] = s
    BY DEF ViewsOK
  <2>2. \A q : q \in Executed(C[k]) /\ q # p => q \in Ranks \ {p} /\ q \in Executed(B[k])
    BY <1>2 DEF Executed
  <2> HIDE DEF s
  <2> QED  BY <1>1, <2>1, <2>2
<1>5. InBatch(C[k]) = InBatch(B[k]) /\ C[k].row = B[k].row
  BY SameBatchRows DEF SameBatch
<1>6. \A r \in InBatch(B[k]) : /\ s[r].computed <= s[r].bound
                               /\ B[k].row[r].kind # "decode" => s[r].computed = s[r].bound
  BY SeenBounded
<1>7. Seen(C[k], D[k], L[k + 1]) = s
  BY SameBatchSeen
<1> HIDE DEF s
<1>8. \A j \in o .. c : Agree(C[j]) /\ Bounded(C[j])
  <2>1. Agree(C[k])
    BY <1>4 DEF Agree
  <2>2. Bounded(C[k])
    BY <1>4, <1>5, <1>6 DEF Bounded
  <2>3. \A j \in (o .. c) \ {k} : Agree(C[j]) /\ Bounded(C[j])
    BY DEF ViewsOK
  <2> QED  BY <2>1, <2>2, <2>3
<1>9. \A q \in Ranks : ReachedOf(T[q]) = ReachedOf(S[q]) \/ (q = p /\ ReachedOf(T[q]) = k + 1 /\ ReachedOf(S[q]) = k)
  OBVIOUS
<1>10. \A j \in o .. c : \A q \in Executed(C[j]) : ReachedOf(T[q]) > j
  <2> SUFFICES ASSUME NEW j \in o .. c, NEW q \in Executed(C[j]) PROVE ReachedOf(T[q]) > j
    OBVIOUS
  <2>0. q \in Ranks /\ j \in Nat
    BY <1>0 DEF Executed
  <2>1. CASE q = p /\ j = k
    BY <1>0, <2>1
  <2>2. CASE ~(q = p /\ j = k)
    <3>1. q \in Executed(B[j])
      BY <1>2, <1>3, <2>2
    <3>2. ReachedOf(S[q]) > j
      BY <3>1 DEF ViewsOK
    <3> QED  BY <1>0, <1>9, <2>0, <3>2
  <2> QED  BY <2>1, <2>2
<1>11. \A j \in ReachedOf(T[Last]) .. c : \A q \in Executed(C[j]) : C[j].view[q] = Seen(C[j], D[j], L[j + 1])
  <2>1. \A j \in ReachedOf(T[Last]) .. c : j \in f .. c /\ j \in o .. c
    BY <1>0, <1>9, LastFacts
  <2>2. \A j \in f .. c : \A q \in Executed(B[j]) : B[j].view[q] = Seen(B[j], D[j], L[j + 1])
    BY DEF ViewsOK
  <2> SUFFICES ASSUME NEW j \in ReachedOf(T[Last]) .. c, NEW q \in Executed(C[j])
               PROVE  C[j].view[q] = Seen(C[j], D[j], L[j + 1])
    BY Zenon
  <2>3. CASE j = k
    BY <1>4, <1>7, <2>3
  <2>4. CASE j # k
    <3>1. C[j] = B[j] /\ j \in f .. c
      BY <2>1, <2>4
    <3> QED  BY <2>2, <3>1
  <2> QED  BY <2>3, <2>4
<1> QED  BY <1>8, <1>10, <1>11 DEF ViewsOK

----------------------------------------------------------------------------
(* The last stage goes on.                                                 *)

LEMMA ChainedLater ==
  ASSUME NEW B, NEW D, NEW L, NEW f \in Nat, NEW g \in Nat, NEW c \in Nat, f <= g, Chained(D, L, B, f, c)
  PROVE  Chained(D, L, B, g, c)
<1>1. (\A k \in g .. c : k \in f .. c) /\ \A k \in g .. c + 1 : k \in f .. c + 1
  OBVIOUS
<1> QED  BY <1>1 DEF Chained

LEMMA StepsLater ==
  ASSUME NEW B, NEW D, NEW L, NEW o \in Nat, NEW a \in Nat, NEW f \in Nat, NEW g \in Nat, NEW e \in Nat,
         NEW c \in Nat, f <= g, a <= e, a <= f,
         Chained(D, L, B, f, c), StepsOK(D, L, B, a, f, o, c)
  PROVE  StepsOK(D, L, B, e, g, o, c)
<1>1. (\A k \in g .. c : k \in f .. c) /\ (\A k \in g .. c + 1 : k \in f .. c + 1) /\ (\A k \in e .. c : k \in a .. c)
  OBVIOUS
<1>2. \A k \in g .. c + 1 : LastSays(B, e, k, D[k])
  <2> SUFFICES ASSUME NEW k \in g .. c + 1 PROVE LastSays(B, e, k, D[k])
    OBVIOUS
  <2>1. LastSays(B, a, k, D[k])
    BY <1>1 DEF StepsOK
  <2>2. k \in Nat /\ \A r \in Reqs : D[k][r].last \in Nat
    BY DEF Chained, DataType
  <2>3. \A j \in e .. k - 1 : j \in a .. k - 1
    BY <2>2
  <2>4. \A r \in Reqs : D[k][r].last >= e => D[k][r].last >= a
    BY <2>2
  <2> QED  BY <2>1, <2>3, <2>4 DEF LastSays
<1>3. Grows(D, B, g, c)
  BY <1>1 DEF Grows, StepsOK
<1> QED  BY <1>1, <1>2, <1>3 DEF StepsOK

\* A decode row is of a request that is not new.
LEMMA DecodeOld ==
  ASSUME NEW b, NEW k, NEW d, NEW l, RowGood(b, k, d, l), NEW r \in Reqs, b.row[r].kind = "decode"
  PROVE  /\ Begun(b, d)[r] = d[r] /\ r \in InBatch(b) /\ r \notin b.new
         /\ d[r].last > 0 /\ d[r].last + PPSize <= k
<1>1. r \in InBatch(b)
  BY DEF InBatch
<1>2. Begun(b, d)[r].last > 0 /\ Begun(b, d)[r].last + PPSize <= k
  BY <1>1 DEF RowGood
<1>3. Begun(b, d)[r] = IF r \in b.new THEN NoData ELSE d[r]
  BY DEF Begun
<1>4. r \notin b.new
  BY <1>2, <1>3 DEF NoData
<1> QED  BY <1>1, <1>2, <1>3, <1>4

LEMMA FloorLater ==
  ASSUME NEW B, NEW D, NEW L, NEW S, NEW T, NEW o, NEW a, NEW k, NEW c, Window(o, a, k, c), k <= c,
         k = ReachedOf(S[Last]), ReachedOf(T[Last]) = k + 1, T[Last].phase = "sample" => T[Last].next = k,
         Chained(D, L, B, k, c), RowsGood(B[k].row), RowGood(B[k], k, D[k], L[k + 1]),
         NEW r \in Reqs, NEW n \in Nat, Floor(D, B, S, c, r, n)
  PROVE  Floor(D, B, T, c, r, n)
<1>0. k \in Nat /\ c \in Nat /\ k \in k .. c
  BY DEF Window
<1>1. \A j \in k + 1 .. c : j \in k .. c
  BY <1>0
<1>2. ASSUME B[k].row[r].kind = "decode" PROVE n + 1 + NumSpec <= D[k + 1][r].computed
  <2>1. n <= D[k][r].computed
    BY <1>0, <1>2 DEF Floor
  <2>2. Begun(B[k], D[k])[r] = D[k][r]
    BY <1>2, DecodeOld
  <2>3. D[k + 1] = Past(B[k], k, D[k]) /\ D[k][r].computed \in Int
    BY <1>0 DEF Chained, DataType
  <2>4. D[k + 1][r].computed = D[k][r].computed + B[k].row[r].n
    BY <2>2, <2>3, PastFacts
  <2>5. B[k].row[r].n = 1 + NumSpec
    BY <1>2, RowFacts
  <2>6. NumSpec \in Nat
    BY RelayAssumption
  <2> QED  BY <2>1, <2>3, <2>4, <2>5, <2>6
<1> QED  BY <1>1, <1>2 DEF Floor

----------------------------------------------------------------------------
(* What the steps and the receives of the stages have to do with each other. *)

LEMMA ReachedFacts ==
  ASSUME IInv, NEW p \in Ranks
  PROVE  /\ DOMAIN stage[p] = StageFields /\ stage[p].next \in Nat
         /\ stage[p].phase \in {"execute", "sample"} /\ IsSeq(stage[p].pending)
         /\ ReachedOf(stage[p]) \in Nat /\ ReachedOf(stage[p]) <= current_step + 1
         /\ stage[p].next <= ReachedOf(stage[p])
         /\ \A k \in Nat : ComputedBy(p, k) <=> k < ReachedOf(stage[p])
<1>1. StageOK(stage[p]) /\ current_step \in Nat
  BY DEF IInv, StagesOK, BatchesOK
<1>2. /\ stage[p].next \in Nat /\ stage[p].next <= current_step + 1
      /\ stage[p].phase \in {"execute", "sample"}
      /\ stage[p].phase = "sample" => stage[p].next <= current_step
      /\ DOMAIN stage[p] = StageFields /\ IsSeq(stage[p].pending)
  BY <1>1 DEF StageOK
<1>3. ReachedOf(stage[p]) = IF stage[p].phase = "sample" THEN stage[p].next + 1 ELSE stage[p].next
  BY DEF ReachedOf
<1>4. \A k \in Nat : ComputedBy(p, k) <=> k < ReachedOf(stage[p])
  BY <1>2, <1>3 DEF ComputedBy
<1> QED  BY <1>1, <1>2, <1>3, <1>4

LEMMA WindowFacts ==
  ASSUME IInv
  PROVE  /\ Window(Oldest, stage[Last].next, ReachedOf(stage[Last]), current_step)
         /\ DOMAIN stage = Ranks /\ DOMAIN wire = Ranks \ {Last}
         /\ stage[Last].pending = <<>>
         /\ \A p \in Ranks : ReachedOf(stage[Last]) <= ReachedOf(stage[p])
<1>1. /\ current_step \in Nat /\ Len(batches) \in Nat /\ Len(batches) <= current_step
  BY IsSeqFacts DEF IInv, BatchesOK
<1>2. Oldest \in Nat /\ Oldest > 0 /\ Oldest <= current_step + 1
  BY <1>1 DEF Oldest
<1>3. /\ DOMAIN stage = Ranks /\ DOMAIN wire = Ranks \ {Last} /\ Len(stage[Last].pending) = 0
      /\ Oldest <= stage[Last].next
  BY DEF IInv, StagesOK
<1> DEFINE f == ReachedOf(stage[Last])
<1>4. /\ stage[Last].next \in Nat /\ f \in Nat /\ f <= current_step + 1 /\ stage[Last].next <= f
      /\ IsSeq(stage[Last].pending) /\ \A k \in Nat : ComputedBy(Last, k) <=> k < f
  BY ReachedFacts, LastFacts
<1>5. stage[Last].pending = <<>>
  BY <1>3, <1>4, IsSeqFacts
<1>6. Window(Oldest, stage[Last].next, f, current_step)
  BY <1>1, <1>2, <1>3, <1>4 DEF Window
<1>7. ASSUME NEW p \in Ranks PROVE f <= ReachedOf(stage[p])
  <2>1. ReachedOf(stage[p]) \in Nat /\ \A k \in Nat : ComputedBy(p, k) <=> k < ReachedOf(stage[p])
    BY ReachedFacts
  <2>2. f - 1 \in Nat /\ f - 1 < f
    BY <1>2, <1>3, <1>4
  <2>3. CASE p = Last
    BY <1>4, <2>3
  <2>4. CASE p # Last
    <3>1. p < Last /\ Last \in Ranks /\ ComputedBy(Last, f - 1)
      BY <1>4, <2>2, <2>4, LastFacts
    <3>2. ComputedBy(p, f - 1)
      BY <2>2, <3>1 DEF IInv, InOrder
    <3>3. f - 1 < ReachedOf(stage[p])
      BY <2>1, <2>2, <3>2
    <3> QED  BY <1>4, <2>1, <3>3
  <2> QED  BY <2>3, <2>4
<1> QED  BY <1>3, <1>5, <1>6, <1>7

\* The steps in flight.
LEMMA IssuedFacts ==
  ASSUME IInv
  PROVE  /\ DOMAIN Issued = Oldest .. current_step /\ DOMAIN batches = 1 .. Len(batches)
         /\ \A k \in Oldest .. current_step :
              /\ Issued[k] = BatchOf(k) /\ Issued[k] = batches[k - Oldest + 1]
              /\ k - Oldest + 1 \in 1 .. Len(batches)
         /\ \A i \in 1 .. Len(batches) : /\ i + Oldest - 1 \in Oldest .. current_step
                                         /\ batches[i] = Issued[i + Oldest - 1]
<1>1. /\ current_step \in Nat /\ Len(batches) \in Nat /\ Len(batches) <= current_step
      /\ DOMAIN batches = 1 .. Len(batches)
  BY IsSeqFacts DEF IInv, BatchesOK
<1>2. Oldest = (current_step + 1) - Len(batches) /\ Oldest \in Nat
  BY <1>1 DEF Oldest
<1> DEFINE o == Oldest
<1> HIDE DEF o
<1>3. \A k \in o .. current_step : Issued[k] = batches[k - o + 1]
  BY DEF Issued, BatchOf, o
<1>4. \A k \in o .. current_step : k - o + 1 \in 1 .. Len(batches)
  BY <1>1, <1>2 DEF o
<1>5. \A i \in 1 .. Len(batches) : i + o - 1 \in o .. current_step /\ ((i + o) - 1 - o) + 1 = i
  BY <1>1, <1>2 DEF o
<1>6. \A i \in 1 .. Len(batches) : i + o - 1 = (i + o) - 1 /\ (i + o - 1) - o + 1 = i
  BY <1>1, <1>2 DEF o
<1>7. \A i \in 1 .. Len(batches) : batches[i] = Issued[i + o - 1]
  BY <1>3, <1>5, <1>6
<1> QED  BY <1>1, <1>3, <1>4, <1>5, <1>7 DEF Issued, o

\* The receives that a stage before the last has posted, and its wire.
LEMMA AheadFacts ==
  ASSUME IInv, NEW p \in Ranks \ {Last}
  PROVE  /\ \A e \in 1 .. Len(stage[p].pending) : /\ {"slot", "step"} \subseteq DOMAIN stage[p].pending[e]
                                                   /\ stage[p].pending[e].step \in Nat
         /\ stage[Last].next <= stage[p].next /\ Carries(wire[p]) =>
              Ahead(stage[p].pending, wire[p], stage[p].next)
<1> DEFINE w == wire[p]
           q == stage[p].pending
           a == stage[Last].next
           b == stage[p].next
<1>1. Paired(w, q, a, b, stage[p].phase, WithRows)
  BY DEF IInv, WiresPaired
<1>2. \A e \in 1 .. Len(q) : {"slot", "step"} \subseteq DOMAIN q[e]
  BY DEF IInv, StagesOK, StageOK
<1>3. a \in Nat /\ b \in Nat
  BY ReachedFacts, LastFacts
<1> HIDE DEF w, q, a, b
<1>4. /\ IsSeq(w) /\ IsSeq(q) /\ Len(w) = 3 * Groups3(w)
      /\ \A e \in 1 .. Len(q) : q[e].step \in Nat /\ q[e].step < b
      /\ Increase(q)
      /\ a <= b => Groups3(w) <= Len(q)
  BY <1>1, <1>3 DEF Paired, Increase
<1>5. Len(w) \in Nat /\ Groups3(w) \in Nat /\ Len(q) \in Nat
  BY <1>4, GroupsFacts, IsSeqFacts
<1>6. a <= b => Len(w) <= 3 * Len(q)
  BY <1>4, <1>5
<1> QED  BY <1>2, <1>4, <1>6 DEF Ahead, w, q, a, b

----------------------------------------------------------------------------
(* execute_model.                                                          *)

----------------------------------------------------------------------------
(* execute_model.                                                          *)

WithView(b, p, v) == [b EXCEPT !.view = [@ EXCEPT ![p] = v]]

LEMMA WithViewFacts ==
  ASSUME NEW b, BatchGood(b), NEW p \in Ranks, NEW v
  PROVE  /\ SameBatch(b, WithView(b, p, v)) /\ WithView(b, p, v).rejected = b.rejected
         /\ DOMAIN WithView(b, p, v) = DOMAIN b /\ DOMAIN WithView(b, p, v).view = DOMAIN b.view
         /\ WithView(b, p, v).view = [b.view EXCEPT ![p] = v]
BY DEF WithView, SameBatch, BatchGood

LEMMA ExecuteStage ==
  ASSUME NEW p \in Ranks, Execute(p), NEW k, k = stage[p].next, NEW b, b = BatchOf(k),
         NEW x, x = ReadyOf(RelayOf(stage[p], wire[p]), b)
  PROVE  /\ stage[p].phase = "execute" /\ k <= current_step
         /\ DueFor(stage[p]) => Len(wire[p]) >= 3
         /\ p > 0 => ComputedBy(p - 1, k)
         /\ stage' = [stage EXCEPT ![p] = ForwardOf(x, b, k)]
         /\ batches' = [batches EXCEPT ![k - Oldest + 1] = WithView(@, p, View(x, b))]
         /\ wire' = IF DueFor(stage[p]) THEN [wire EXCEPT ![p] = WireOf(stage[p], wire[p])] ELSE wire
         /\ current_step' = current_step /\ req' = req /\ flush' = flush
<1> DEFINE n == Len(ReceiveOrder)
           st == IF Due(p) THEN Relayed(stage[p], Head(stage[p].pending), SubSeq(wire[p], 1, n)) ELSE stage[p]
           ready == Added(Freed(st, b.freed), b.new)
           i == k - Oldest + 1
<1>1. Due(p) <=> DueFor(stage[p])
  BY DEF Due, DueFor
<1>2. st = RelayOf(stage[p], wire[p])
  BY <1>1 DEF RelayOf
<1>3. ready = x
  <2> HIDE DEF st
  <2> QED  BY <1>2 DEF ReadyOf
<1>4. n = 3
  BY DEF ReceiveOrder
<1>5. MayExecute(p) /\ current_step' = current_step /\ req' = req /\ flush' = flush
  BY DEF Execute
<1>6. wire' = IF Due(p) THEN [wire EXCEPT ![p] = SubSeq(@, n + 1, Len(@))] ELSE wire
  BY DEF Execute
<1>7. stage' = [stage EXCEPT ![p] = IF InBatch(b) = {} THEN [ready EXCEPT !.next = k + 1]
                                    ELSE [ready EXCEPT !.phase = "sample", !.input = [row |-> b.row]]]
  <2> HIDE DEF ready
  <2> QED  BY ZenonT(60) DEF Execute, ready
<1>8. batches' = [batches EXCEPT ![i].view[p] = View(ready, b)]
  <2> HIDE DEF ready, i
  <2> QED  BY ZenonT(60) DEF Execute, ready, i
<1> HIDE DEF st, ready, i
<1>9. stage' = [stage EXCEPT ![p] = ForwardOf(x, b, k)]
  BY <1>3, <1>7 DEF ForwardOf
<1>10. batches' = [batches EXCEPT ![i] = WithView(@, p, View(x, b))]
  BY <1>3, <1>8 DEF WithView
<1>11. wire' = IF DueFor(stage[p]) THEN [wire EXCEPT ![p] = WireOf(stage[p], wire[p])] ELSE wire
  BY <1>1, <1>6 DEF WireOf
<1>12. /\ stage[p].phase = "execute" /\ k <= current_step /\ (DueFor(stage[p]) => Len(wire[p]) >= 3)
       /\ p > 0 => ComputedBy(p - 1, k)
  BY <1>1, <1>4, <1>5 DEF MayExecute, Arrived
<1> QED  BY <1>5, <1>9, <1>10, <1>11, <1>12 DEF i

\* The steps in flight when step k has changed.
LEMMA IssuedChange ==
  ASSUME IInv, NEW k \in Oldest .. current_step, NEW y, current_step' = current_step,
         batches' = [batches EXCEPT ![k - Oldest + 1] = y]
  PROVE  /\ Oldest' = Oldest /\ Issued'[k] = y
         /\ \A j \in (Oldest .. current_step) \ {k} : Issued'[j] = Issued[j]
<1> DEFINE i == k - Oldest + 1
<1>1. /\ DOMAIN batches = 1 .. Len(batches) /\ i \in 1 .. Len(batches)
      /\ \A j \in Oldest .. current_step : Issued[j] = batches[j - Oldest + 1]
                                         /\ j - Oldest + 1 \in 1 .. Len(batches)
  BY IssuedFacts
<1>2. Len(batches) \in Nat /\ current_step \in Nat /\ Oldest \in Nat /\ k \in Nat
  BY IsSeqFacts, WindowFacts DEF IInv, BatchesOK, Window
<1>3. \A j \in (Oldest .. current_step) \ {k} : j - Oldest + 1 # i
  BY <1>2
<1>4. Len(batches') = Len(batches)
  <2>1. DOMAIN batches' = 1 .. Len(batches) /\ batches' = [j \in 1 .. Len(batches) |-> batches'[j]]
    BY <1>1
  <2> QED  BY <1>2, <2>1, FunctionIsSeq
<1>5. Oldest' = Oldest
  BY <1>4 DEF Oldest
<1> HIDE DEF i
<1>6. \A j \in Oldest .. current_step : Issued'[j] = batches'[j - Oldest + 1]
  BY <1>5 DEF Issued, BatchOf
<1>7. batches'[i] = y /\ \A j \in (1 .. Len(batches)) \ {i} : batches'[j] = batches[j]
  BY <1>1 DEF i
<1>8. Issued'[k] = y
  BY <1>6, <1>7 DEF i
<1>9. \A j \in (Oldest .. current_step) \ {k} : Issued'[j] = Issued[j]
  BY <1>1, <1>3, <1>6, <1>7
<1> QED  BY <1>5, <1>8, <1>9

LEMMA StepGoodFacts ==
  ASSUME NEW B, NEW D, NEW L, NEW o, NEW a, NEW f, NEW c, Window(o, a, f, c), Chained(D, L, B, f, c),
         StepsOK(D, L, B, a, f, o, c), NEW k \in f .. c
  PROVE  /\ StepGood(B[k], k, D[k], L[k]) /\ k \in o .. c
         /\ D[k + 1] = Past(B[k], k, D[k]) /\ L[k + 1] = Laid(L[k], B[k])
<1>0. /\ o \in Nat /\ a \in Nat /\ f \in Nat /\ c \in Nat /\ o <= a /\ a <= f /\ f <= c + 1 /\ o > 0
      /\ k \in Nat /\ k > 0 /\ k \in o .. c /\ k \in f .. c + 1
  BY DEF Window
<1>1. D[k] \in [Reqs -> DataType] /\ LayoutGood(L[k]) /\ Fits(L[k], B[k])
      /\ D[k + 1] = Past(B[k], k, D[k]) /\ L[k + 1] = Laid(L[k], B[k])
  BY <1>0 DEF Chained
<1>2. BatchGood(B[k]) /\ RowGood(B[k], k, D[k], Laid(L[k], B[k]))
  BY <1>0, <1>1 DEF StepsOK
<1>3. \A r \in Reqs : D[k][r].last < k
  BY <1>0 DEF StepsOK, LastSays
<1> QED  BY <1>0, <1>1, <1>2, <1>3 DEF StepGood

\* Stage p goes from step k to the next, and has read v for it.
Moves(S, T, p, k) ==
  (\A q \in Ranks \ {p} : T[q] = S[q]) /\ ReachedOf(S[p]) = k /\ ReachedOf(T[p]) = k + 1
Reads(B, C, o, c, p, k, v) ==
  /\ \A j \in (o .. c) \ {k} : C[j] = B[j]
  /\ SameBatch(B[k], C[k]) /\ DOMAIN B[k].view = Ranks /\ C[k].view = [B[k].view EXCEPT ![p] = v]

LEMMA ViewsForward ==
  ASSUME NEW B, NEW C, NEW D, NEW L, NEW S, NEW T, NEW o, NEW a, NEW c, NEW k, NEW p,
         Window(o, a, ReachedOf(S[Last]), c), k \in ReachedOf(S[Last]) .. c, p \in Ranks, Moves(S, T, p, k),
         Reads(B, C, o, c, p, k, Seen(B[k], D[k], L[k + 1])), RowsGood(B[k].row),
         D[k] \in [Reqs -> DataType], RowGood(B[k], k, D[k], L[k + 1]), ViewsOK(D, L, B, S, o, c)
  PROVE  ViewsOK(D, L, C, T, o, c)
<1> DEFINE f == ReachedOf(S[Last])
           v == Seen(B[k], D[k], L[k + 1])
<1>1. (\A q \in Ranks \ {p} : T[q] = S[q]) /\ ReachedOf(S[p]) = k /\ ReachedOf(T[p]) = k + 1
  BY DEF Moves
<1>2. /\ \A j \in (o .. c) \ {k} : C[j] = B[j]
      /\ SameBatch(B[k], C[k]) /\ DOMAIN B[k].view = Ranks /\ C[k].view = [B[k].view EXCEPT ![p] = v]
  BY DEF Reads
<1>3. f = ReachedOf(S[Last]) /\ Window(o, a, f, c) /\ k \in f .. c
  OBVIOUS
<1> HIDE DEF f
<1> QED  BY <1>1, <1>2, <1>3, ViewsExecute

\* What the stages do with a step leaves the data of all steps.
LEMMA ExecuteKeeps ==
  ASSUME IInv, NEW D, NEW L, AInv(D, L), NEW p \in Ranks, Execute(p)
  PROVE  AInv(D, L)'
<1> DEFINE k == stage[p].next
           B == Issued
           b == B[k]
           o == Oldest
           c == current_step
           a == stage[Last].next
           f == ReachedOf(stage[Last])
           x == ReadyOf(RelayOf(stage[p], wire[p]), b)
           y == ForwardOf(x, b, k)
           C == Issued'
<1>1. /\ Window(o, a, f, c) /\ DOMAIN stage = Ranks /\ DOMAIN wire = Ranks \ {Last}
      /\ stage[Last].pending = <<>> /\ f <= ReachedOf(stage[p])
  BY WindowFacts
<1>2. /\ o \in Nat /\ a \in Nat /\ f \in Nat /\ c \in Nat /\ o <= a /\ a <= f /\ f <= c + 1 /\ o > 0
  BY <1>1 DEF Window
<1>3. /\ Chained(D, L, B, f, c) /\ InputOK(stage[Last], B) /\ StagesMatch(D, L, stage, wire)
      /\ ViewsOK(D, L, B, stage, o, c) /\ StepsOK(D, L, B, a, f, o, c)
      /\ RequestsOK(D, L, B, stage, req, flush, o, c)
  BY DEF AInv, AllGood
<1>4. /\ DOMAIN stage[p] = StageFields /\ k \in Nat /\ IsSeq(stage[p].pending)
  BY ReachedFacts
<1>5. stage[p].phase = "execute" /\ k <= c
  BY DEF Execute, MayExecute
<1>6. ReachedOf(stage[p]) = k /\ k \in f .. c /\ k \in o .. c
  BY <1>1, <1>2, <1>4, <1>5 DEF ReachedOf
<1>7. b = BatchOf(k)
  BY <1>6, IssuedFacts
<1>8. /\ DueFor(stage[p]) => Len(wire[p]) >= 3
      /\ stage' = [stage EXCEPT ![p] = y]
      /\ batches' = [batches EXCEPT ![k - Oldest + 1] = WithView(@, p, View(x, b))]
      /\ wire' = IF DueFor(stage[p]) THEN [wire EXCEPT ![p] = WireOf(stage[p], wire[p])] ELSE wire
      /\ current_step' = current_step /\ req' = req /\ flush' = flush
  <2> HIDE DEF k, b
  <2>1. k = stage[p].next
    BY DEF k
  <2> QED  BY <1>7, <2>1, ExecuteStage
<1>9. /\ StepGood(b, k, D[k], L[k]) /\ D[k + 1] = Past(b, k, D[k]) /\ L[k + 1] = Laid(L[k], b)
  <2> HIDE DEF B, k
  <2> QED  BY <1>1, <1>3, <1>6, StepGoodFacts
<1>10. BatchGood(b) /\ RowGood(b, k, D[k], L[k + 1]) /\ RowsGood(b.row) /\ D[k] \in [Reqs -> DataType]
       /\ DOMAIN b.view = Ranks
  <2> HIDE DEF b
  <2> QED  BY <1>9 DEF StepGood, BatchGood
\* What the stage reads, and what it is afterwards.
<1>11. View(x, b) = Seen(b, D[k], L[k + 1])
       /\ (p # Last => OtherMatches(y, WireOf(stage[p], wire[p]), D[k + 1], L[k + 1]))
       /\ (p = Last => LastMatches(y, D[k + 1], L[k + 1]))
  <2> HIDE DEF b, k
  <2>0. k = stage[p].next
    BY DEF k
  <2>1. CASE p # Last
    <3>1. OtherMatches(stage[p], wire[p], D[k], L[k])
      BY <1>3, <1>6, <2>1 DEF StagesMatch
    <3>2. a <= k
      BY <1>2, <1>6
    <3>3. Ahead(stage[p].pending, wire[p], k)
          /\ \A e \in 1 .. Len(stage[p].pending) : {"slot", "step"} \subseteq DOMAIN stage[p].pending[e]
                                                   /\ stage[p].pending[e].step \in Nat
      BY <2>0, <2>1, <3>1, <3>2, AheadFacts DEF OtherMatches
    <3>5. OtherCan(stage[p], wire[p], k)
      BY <1>4, <1>5, <1>8, <2>0, <3>3 DEF OtherCan
    <3>6. OtherDone(stage[p], wire[p], b, k, D[k], L[k])
      BY <1>9, <3>1, <3>5, OtherForward
    <3>4. View(x, b) = Seen(b, D[k], Laid(L[k], b))
          /\ OtherMatches(y, WireOf(stage[p], wire[p]), Past(b, k, D[k]), Laid(L[k], b))
      BY <3>6 DEF OtherDone
    <3> QED  BY <1>9, <2>1, <3>4
  <2>2. CASE p = Last
    <3>1. LastMatches(stage[p], D[k], L[k]) /\ stage[p].pending = <<>>
      BY <1>1, <1>3, <1>6, <2>2 DEF StagesMatch
    <3>2. x = ReadyOf(stage[p], b)
      BY <3>1 DEF RelayOf, DueFor
    <3>4. LastDone(stage[p], b, k, D[k], L[k])
      BY <1>4, <1>5, <1>9, <2>0, <3>1, LastForward DEF LastCan
    <3>3. View(x, b) = Seen(b, D[k], Laid(L[k], b))
          /\ LastMatches(y, Past(b, k, D[k]), Laid(L[k], b))
      <4> HIDE DEF x
      <4> QED  BY <3>2, <3>4 DEF LastDone
    <3> QED  BY <1>9, <2>2, <3>3
  <2> QED  BY <2>1, <2>2
<1>12. DOMAIN x = StageFields /\ x.next = k /\ x.phase = "execute"
  <2>1. DOMAIN RelayOf(stage[p], wire[p]) = StageFields
        /\ RelayOf(stage[p], wire[p]).next = k /\ RelayOf(stage[p], wire[p]).phase = "execute"
    BY <1>4, <1>5, RelayedFields DEF RelayOf
  <2> DEFINE z == RelayOf(stage[p], wire[p])
  <2> HIDE DEF z
  <2>2. DOMAIN z = StageFields /\ z.next = k /\ z.phase = "execute"
    BY <2>1 DEF z
  <2>3. DOMAIN Freed(z, b.freed) = StageFields /\ Freed(z, b.freed).next = k /\ Freed(z, b.freed).phase = "execute"
    BY <2>2 DEF Freed, StageFields
  <2>4. x = Added(Freed(z, b.freed), b.new)
    BY DEF ReadyOf, z
  <2> HIDE DEF x
  <2>5. DOMAIN x = StageFields /\ x.next = k /\ x.phase = "execute"
    BY <2>3, <2>4 DEF Added, StageFields
  <2> QED  BY <2>5
<1> HIDE DEF x
<1>13. /\ InBatch(b) = {} => y.next = k + 1 /\ y.phase = "execute"
       /\ InBatch(b) # {} => y.next = k /\ y.phase = "sample" /\ y.input = [row |-> b.row]
  BY <1>12, ForwardFields
<1> HIDE DEF y
<1>14. ReachedOf(y) = k + 1
  BY <1>13 DEF ReachedOf
<1>15. stage'[p] = y /\ \A q \in Ranks \ {p} : stage'[q] = stage[q]
  BY <1>1, <1>8
\* The steps.
<1>16. /\ Oldest' = o /\ C[k] = WithView(b, p, View(x, b))
       /\ \A j \in (o .. c) \ {k} : C[j] = B[j]
  <2>1. batches' = [batches EXCEPT ![k - Oldest + 1] = WithView(b, p, View(x, b))]
    <3>1. b = batches[k - Oldest + 1]
      BY <1>6, IssuedFacts
    <3> HIDE DEF b
    <3> QED  BY <1>8, <3>1
  <2> DEFINE v == WithView(b, p, View(x, b))
  <2> HIDE DEF v, k
  <2>2. k \in Oldest .. current_step /\ batches' = [batches EXCEPT ![k - Oldest + 1] = v]
    BY <1>6, <2>1 DEF v
  <2>3. /\ Oldest' = Oldest /\ Issued'[k] = v
        /\ \A j \in (Oldest .. current_step) \ {k} : Issued'[j] = Issued[j]
    BY <1>8, <2>2, IssuedChange
  <2> QED  BY <2>3 DEF v
<1> HIDE DEF B, C
<1>17. /\ SameBatch(b, C[k]) /\ C[k].rejected = b.rejected /\ DOMAIN C[k] = DOMAIN b
       /\ DOMAIN C[k].view = DOMAIN b.view
       /\ C[k].view = [b.view EXCEPT ![p] = Seen(b, D[k], L[k + 1])]
  <2> DEFINE v == View(x, b)
  <2>1. C[k] = WithView(b, p, v) /\ v = Seen(b, D[k], L[k + 1])
    BY <1>11, <1>16
  <2> HIDE DEF b, v, k
  <2> QED  BY <1>10, <2>1, WithViewFacts
<1>18. SameSteps(B, C, o, c)
  <2> SUFFICES ASSUME NEW j \in o .. c
               PROVE  /\ SameBatch(B[j], C[j]) /\ C[j].rejected = B[j].rejected /\ DOMAIN C[j] = DOMAIN B[j]
                      /\ DOMAIN C[j].view = DOMAIN B[j].view
    BY DEF SameSteps
  <2>1. CASE j = k
    BY <1>17, <2>1
  <2>2. CASE j # k
    BY <1>16, <2>2 DEF SameBatch
  <2> QED  BY <2>1, <2>2
<1>19. ViewsOK(D, L, C, stage', o, c)
  <2> HIDE DEF k, a, o, c
  <2>1. Moves(stage, stage', p, k)
    BY <1>6, <1>14, <1>15 DEF Moves
  <2>2. Reads(B, C, o, c, p, k, Seen(B[k], D[k], L[k + 1]))
    BY <1>10, <1>16, <1>17 DEF Reads
  <2> QED  BY <1>1, <1>3, <1>6, <1>10, <2>1, <2>2, ViewsForward
<1>20. \A j \in f .. c : SameBatch(B[j], C[j])
  BY <1>2, <1>18 DEF SameSteps
<1>21. Chained(D, L, C, f, c) /\ StepsOK(D, L, C, a, f, o, c)
  <2> HIDE DEF a, f, o, c
  <2>1. Chained(D, L, C, f, c)
    BY <1>3, <1>20, SameChained
  <2>2. StepsOK(D, L, C, a, f, o, c)
    BY <1>1, <1>2, <1>3, <1>18, SameStepsOK
  <2> QED  BY <2>1, <2>2
<1>22. CASE p # Last
  <2>1. stage'[Last] = stage[Last]
    BY <1>15, <1>22, LastFacts
  <2>2. StagesMatch(D, L, stage', wire')
    <3>1. wire'[p] = WireOf(stage[p], wire[p]) /\ \A q \in Ranks \ {Last, p} : wire'[q] = wire[q]
      BY <1>1, <1>8, <1>22 DEF WireOf
    <3>2. OtherMatches(stage'[p], wire'[p], D[ReachedOf(stage'[p])], L[ReachedOf(stage'[p])])
      <4> HIDE DEF k
      <4> QED  BY <1>11, <1>14, <1>15, <1>22, <3>1
    <3>3. \A q \in Ranks \ {Last, p} :
            OtherMatches(stage'[q], wire'[q], D[ReachedOf(stage'[q])], L[ReachedOf(stage'[q])])
      BY <1>3, <1>15, <3>1 DEF StagesMatch
    <3> QED  BY <1>3, <2>1, <3>2, <3>3 DEF StagesMatch
  <2>3. InputOK(stage'[Last], C)
    <3>1. stage[Last].phase = "sample" => a \in o .. c
      BY <1>2, <1>3 DEF ReachedOf
    <3>2. stage[Last].phase = "sample" => C[a].row = B[a].row
      BY <1>18, <3>1 DEF SameSteps, SameBatch
    <3> QED  BY <1>3, <2>1, <3>2 DEF InputOK
  <2>4. SameLast(stage, stage')
    BY <2>1 DEF SameLast
  <2>5. RequestsOK(D, L, C, stage', req, flush, o, c)
    BY <1>1, <1>3, <1>18, <2>4, SameRequestsOK
  <2>6. AllGood(D, L, C, stage', wire', req', flush', o, c)
    BY <1>8, <1>19, <1>21, <2>1, <2>2, <2>3, <2>5 DEF AllGood
  <2> QED  BY <1>8, <1>16, <2>6 DEF AInv, C
<1>23. CASE p = Last
  <2> DEFINE g == k + 1
             e == y.next
  <2>1. k = f /\ a = f /\ g \in Nat /\ f <= g
    BY <1>2, <1>6, <1>23
  <2>2. stage'[Last] = y /\ ReachedOf(stage'[Last]) = g /\ wire' = wire
    <3>1. ~DueFor(stage[p])
      BY <1>1, <1>23 DEF DueFor
    <3> QED  BY <1>8, <1>14, <1>15, <1>23, <3>1
  <2>3. e \in Nat /\ a <= e /\ e <= g
    BY <1>2, <1>13, <2>1
  <2>4. StagesMatch(D, L, stage', wire')
    <3>1. LastMatches(stage'[Last], D[ReachedOf(stage'[Last])], L[ReachedOf(stage'[Last])])
      BY <1>11, <1>23, <2>2
    <3>2. \A q \in Ranks \ {Last} :
            OtherMatches(stage'[q], wire'[q], D[ReachedOf(stage'[q])], L[ReachedOf(stage'[q])])
      BY <1>3, <1>15, <1>23, <2>2 DEF StagesMatch
    <3> QED  BY <3>1, <3>2 DEF StagesMatch
  <2>5. InputOK(stage'[Last], C)
    BY <1>13, <1>17, <2>2 DEF InputOK, SameBatch
  <2>6. Chained(D, L, C, g, c) /\ StepsOK(D, L, C, e, g, o, c)
    <3> HIDE DEF a, f, o, c, g, e
    <3> QED  BY <1>2, <1>21, <2>1, <2>3, ChainedLater, StepsLater
  <2>7. RequestsOK(D, L, C, stage', req, flush, o, c)
    <3>1. RequestsOK(D, L, C, stage, req, flush, o, c)
      <4>1. SameLast(stage, stage)
        BY DEF SameLast
      <4> QED  BY <1>1, <1>3, <1>18, <4>1, SameRequestsOK
    <3>2. RowsGood(C[k].row) /\ RowGood(C[k], k, D[k], L[k + 1])
      BY <1>6, <1>21, <2>1 DEF StepsOK, BatchGood
    <3>3. ReachedOf(stage'[Last]) = k + 1 /\ (stage'[Last].phase = "sample" => stage'[Last].next = k)
      BY <1>13, <2>2
    <3>4. k = ReachedOf(stage[Last]) /\ k <= c /\ Window(o, a, k, c) /\ Chained(D, L, C, k, c)
      BY <1>1, <1>6, <1>21, <2>1
    <3>5. ASSUME NEW r \in Reqs, NEW n \in Nat, Floor(D, C, stage, c, r, n) PROVE Floor(D, C, stage', c, r, n)
      <4> HIDE DEF k, a, o, c
      <4> QED  BY <3>2, <3>3, <3>4, <3>5, FloorLater
    <3>6. \A r \in Reqs : req[r].prefill \in Nat
      BY <3>1 DEF RequestsOK, RequestOK, RequestType
    <3>7. \A r \in Active(req) : Floor(D, C, stage', c, r, req[r].prefill)
      BY <3>1, <3>5, <3>6 DEF RequestsOK, Active
    <3> QED  BY <3>1, <3>7 DEF RequestsOK
  <2>8. AllGood(D, L, C, stage', wire', req', flush', o, c)
    BY <1>8, <1>19, <2>2, <2>4, <2>5, <2>6, <2>7 DEF AllGood
  <2> QED  BY <1>8, <1>16, <2>8 DEF AInv, C
<1> QED  BY <1>22, <1>23

----------------------------------------------------------------------------
(* sample_tokens on a stage before the last.                               *)

PostedOf(st) ==
  [st EXCEPT !.phase = "execute", !.next = @ + 1, !.input = NoInput,
             !.pending = Append(@, Posted(st, st.next)), !.table = Advanced(st.input, @)]

LEMMA PostedMatches ==
  ASSUME NEW st, DOMAIN st = StageFields, st.phase = "sample", NEW w, NEW d, NEW l, OtherMatches(st, w, d, l)
  PROVE  ReachedOf(PostedOf(st)) = ReachedOf(st) /\ OtherMatches(PostedOf(st), w, d, l)
<1> DEFINE y == PostedOf(st)
<1>1. /\ y.phase = "execute" /\ y.next = st.next + 1 /\ y.free = st.free
      /\ y.pending = Receives(st) /\ y.table = OtherTable(st)
  BY DEF PostedOf, StageFields, Receives, OtherTable
<1> HIDE DEF y
<1>2. ReachedOf(y) = ReachedOf(st) /\ OtherTable(y) = OtherTable(st) /\ Receives(y) = Receives(st)
  BY <1>1 DEF ReachedOf, OtherTable, Receives
<1>3. /\ Layout(st) = l /\ st.table \in [Slots -> SlotShape] /\ Carries(w)
      /\ Fresh(Receives(st), ReachedOf(st)) /\ Matches(OtherTable(st), Receives(st), w, d)
  BY DEF OtherMatches
<1>4. y.table \in [Slots -> SlotShape]
  BY <1>1, <1>3 DEF Matches
<1>5. \A s \in Slots : y.table[s].owner = st.table[s].owner
  <2>1. y.table = Advanced(st.input, st.table)
    BY <1>1 DEF OtherTable
  <2>2. SUFFICES ASSUME NEW s \in Slots PROVE y.table[s].owner = st.table[s].owner
    OBVIOUS
  <2>3. st.table[s] \in SlotShape
    BY <1>3
  <2>4. \/ y.table[s] = st.table[s]
        \/ y.table[s] = [st.table[s] EXCEPT !.computed = @ + Optimistic(st.input, st.table[s].owner)]
    BY <2>1 DEF Advanced
  <2> QED  BY <2>3, <2>4 DEF SlotShape
<1>6. Layout(y) = l
  BY <1>1, <1>3, <1>5 DEF Layout
<1>7. OtherMatches(y, w, d, l)
  BY <1>2, <1>3, <1>4, <1>6 DEF OtherMatches
<1> QED  BY <1>2, <1>7 DEF y

\* The views stay where no stage goes on.
LEMMA SameViews ==
  ASSUME NEW D, NEW L, NEW B, NEW S, NEW T, NEW o, NEW c, \A p \in Ranks : ReachedOf(T[p]) = ReachedOf(S[p]),
         ViewsOK(D, L, B, S, o, c)
  PROVE  ViewsOK(D, L, B, T, o, c)
<1>1. \A b : \A p \in Executed(b) : p \in Ranks
  BY DEF Executed
<1>2. ReachedOf(T[Last]) = ReachedOf(S[Last])
  BY LastFacts
<1>3. \A k \in o .. c : \A p \in Executed(B[k]) : ReachedOf(T[p]) > k
  BY <1>1 DEF ViewsOK
<1> QED  BY <1>2, <1>3 DEF ViewsOK

LEMMA SampleOtherKeeps ==
  ASSUME IInv, NEW D, NEW L, AInv(D, L), NEW p \in Ranks, SampleOther(p)
  PROVE  AInv(D, L)'
<1> DEFINE o == Oldest
           c == current_step
           a == stage[Last].next
           f == ReachedOf(stage[Last])
           y == PostedOf(stage[p])
<1>1. /\ p # Last /\ stage[p].phase = "sample" /\ stage' = [stage EXCEPT ![p] = y]
      /\ current_step' = current_step /\ req' = req /\ flush' = flush /\ batches' = batches /\ wire' = wire
  BY DEF SampleOther, PostedOf
<1>2. /\ Window(o, a, f, c) /\ DOMAIN stage = Ranks
  BY WindowFacts
<1>3. /\ Chained(D, L, Issued, f, c) /\ InputOK(stage[Last], Issued) /\ StagesMatch(D, L, stage, wire)
      /\ ViewsOK(D, L, Issued, stage, o, c) /\ StepsOK(D, L, Issued, a, f, o, c)
      /\ RequestsOK(D, L, Issued, stage, req, flush, o, c)
  BY DEF AInv, AllGood
<1>4. DOMAIN stage[p] = StageFields
  BY ReachedFacts
<1> HIDE DEF y
<1>5. stage'[p] = y /\ \A q \in Ranks \ {p} : stage'[q] = stage[q]
  BY <1>1, <1>2
<1>6. OtherMatches(stage[p], wire[p], D[ReachedOf(stage[p])], L[ReachedOf(stage[p])])
  BY <1>1, <1>3 DEF StagesMatch
<1>7. /\ ReachedOf(y) = ReachedOf(stage[p])
      /\ OtherMatches(y, wire[p], D[ReachedOf(stage[p])], L[ReachedOf(stage[p])])
  BY <1>1, <1>4, <1>6, PostedMatches DEF y
<1>8. stage'[Last] = stage[Last] /\ SameLast(stage, stage')
  BY <1>1, <1>5, LastFacts DEF SameLast
<1>9. \A q \in Ranks : ReachedOf(stage'[q]) = ReachedOf(stage[q])
  BY <1>5, <1>7
<1>10. StagesMatch(D, L, stage', wire)
  <2>1. \A q \in Ranks \ {Last} : OtherMatches(stage'[q], wire[q], D[ReachedOf(stage'[q])], L[ReachedOf(stage'[q])])
    <3> SUFFICES ASSUME NEW q \in Ranks \ {Last}
                 PROVE  OtherMatches(stage'[q], wire[q], D[ReachedOf(stage'[q])], L[ReachedOf(stage'[q])])
      OBVIOUS
    <3>1. CASE q = p
      BY <1>5, <1>7, <3>1
    <3>2. CASE q # p
      BY <1>3, <1>5, <3>2 DEF StagesMatch
    <3> QED  BY <3>1, <3>2
  <2> QED  BY <1>3, <1>8, <2>1 DEF StagesMatch
<1>11. Oldest' = Oldest /\ Issued' = Issued
  BY <1>1 DEF Oldest, Issued, BatchOf
<1>12. ViewsOK(D, L, Issued, stage', o, c)
  BY <1>3, <1>9, SameViews
<1>13. RequestsOK(D, L, Issued, stage', req, flush, o, c)
  <2>1. SameSteps(Issued, Issued, o, c)
    BY DEF SameSteps, SameBatch
  <2> QED  BY <1>2, <1>3, <1>8, <2>1, SameRequestsOK
<1>14. AllGood(D, L, Issued, stage', wire, req, flush, o, c)
  BY <1>3, <1>8, <1>10, <1>12, <1>13 DEF AllGood
<1>15. AllGood(D, L, Issued', stage', wire', req', flush', Oldest', current_step')
  BY <1>1, <1>11, <1>14
<1> QED  BY <1>15 DEF AInv

----------------------------------------------------------------------------
(* The initial state.                                                      *)

FirstData == [k \in Nat |-> [r \in Reqs |-> NoData]]
FirstSlots == [own |-> [s \in Slots |-> NoOwner], free |-> [i \in 1 .. MaxSlots |-> i - 1]]
FirstLayout == [k \in Nat |-> FirstSlots]

LEMMA FirstSlotsGood == LayoutGood(FirstSlots) /\ Holders(FirstSlots) = {}
<1>1. MaxSlots \in Nat /\ \A i \in 1 .. MaxSlots : i - 1 \in Slots
  BY RelayAssumption DEF Slots
<1>2. FirstSlots.free = [i \in 1 .. MaxSlots |-> i - 1] /\ FirstSlots.own = [s \in Slots |-> NoOwner]
  BY DEF FirstSlots
<1>3. FirstSlots.free \in Seq(Slots)
  <2> DEFINE q == [i \in 1 .. MaxSlots |-> i - 1]
  <2>1. q \in [1 .. MaxSlots -> Slots]
    BY <1>1
  <2>2. q \in Seq(Slots)
    BY <1>1, <2>1, SeqDef
  <2> QED  BY <1>2, <2>2
<1>4. FirstSlots \in LayoutType
  BY <1>2, <1>3 DEF FirstSlots, LayoutType
<1>5. \A s \in Slots : \E i \in 1 .. MaxSlots : i - 1 = s
  <2>1. \A s \in Slots : s + 1 \in 1 .. MaxSlots /\ (s + 1) - 1 = s
    BY <1>1 DEF Slots
  <2> QED  BY <2>1
<1>6. DOMAIN FirstSlots.free = 1 .. MaxSlots /\ \A i \in 1 .. MaxSlots : FirstSlots.free[i] = i - 1
  BY <1>2
<1>7. \A i, j \in 1 .. MaxSlots : i - 1 = j - 1 => i = j
  BY <1>1
<1>8. \A s \in Slots : FirstSlots.own[s] = NoOwner
  BY <1>2
<1>9. LayoutGood(FirstSlots)
  BY <1>4, <1>5, <1>6, <1>7, <1>8 DEF LayoutGood
<1>10. Holders(FirstSlots) = {}
  BY <1>8, ReqsFacts DEF Holders, Has
<1> QED  BY <1>9, <1>10

LEMMA InitKeeps == Init => AInv(FirstData, FirstLayout)
<1> SUFFICES ASSUME Init PROVE AInv(FirstData, FirstLayout)
  OBVIOUS
<1> DEFINE D == FirstData
           L == FirstLayout
           B == Issued
<1>1. /\ current_step = 0 /\ batches = <<>> /\ req = [r \in Reqs |-> NewRequest] /\ flush = {}
      /\ wire = [p \in Ranks \ {Last} |-> <<>>]
      /\ \A p \in Ranks : /\ DOMAIN stage[p] = StageFields /\ stage[p].next = 1
                          /\ stage[p].phase = "execute" /\ stage[p].pending = <<>>
                          /\ stage[p].table = [s \in Slots |-> EmptySlot]
                          /\ stage[p].free = [i \in 1 .. MaxSlots |-> i - 1]
  BY DEF Init, StageFields
<1>2. Oldest = 1 /\ Len(<<>>) = 0
  BY <1>1 DEF Oldest
<1>3. \A p \in Ranks : ReachedOf(stage[p]) = 1
  BY <1>1 DEF ReachedOf
<1>4. /\ \A k \in Nat : D[k] = [r \in Reqs |-> NoData] /\ L[k] = FirstSlots
      /\ D \in [Nat -> [Reqs -> DataType]] /\ L \in [Nat -> LayoutType]
  BY FirstSlotsGood DEF FirstData, FirstLayout, NoData, DataType, BOS, LayoutGood
<1>5. /\ \A k \in 1 .. 0 : FALSE
      /\ \A k \in 1 .. 1 : k = 1
      /\ 0 + 1 = 1 /\ Last \in Ranks /\ 0 - 1 + 1 = 0 /\ 1 .. 0 = {}
  BY LastFacts
<1> HIDE DEF D, L, B
<1>6. Chained(D, L, B, 1, 0)
  BY <1>4, <1>5, FirstSlotsGood DEF Chained
<1>7. \A s \in Slots : EmptySlot \in SlotShape /\ EmptySlot.owner = NoOwner
  BY EmptySlotShape DEF EmptySlot
<1>8. ASSUME NEW p \in Ranks
      PROVE  /\ Layout(stage[p]) = L[1] /\ stage[p].table \in [Slots -> SlotShape]
             /\ \A r \in Reqs : ~Holds(stage[p].table, r)
  <2>1. \A s \in Slots : stage[p].table[s] = EmptySlot
    BY <1>1
  <2>2. Layout(stage[p]) = FirstSlots
    BY <1>1, <1>7, <2>1 DEF Layout, FirstSlots
  <2>3. stage[p].table \in [Slots -> SlotShape]
    BY <1>1, <1>7
  <2>4. \A r \in Reqs : ~Holds(stage[p].table, r)
    BY <1>7, <2>1, ReqsFacts DEF Holds
  <2> QED  BY <1>4, <2>2, <2>3, <2>4
<1>9. ASSUME NEW T \in [Slots -> SlotShape], \A r \in Reqs : ~Holds(T, r), NEW w, NEW d
      PROVE  Matches(T, <<>>, w, d)
  <2>1. TableHolds(T, d)
    BY <1>9 DEF TableHolds
  <2> QED  BY <1>2, <2>1, EmptyMatches
<1>10. StagesMatch(D, L, stage, wire)
  <2>1. ASSUME NEW p \in Ranks \ {Last} PROVE OtherMatches(stage[p], wire[p], D[1], L[1])
    <3>1. Receives(stage[p]) = <<>> /\ OtherTable(stage[p]) = stage[p].table /\ wire[p] = <<>>
      BY <1>1 DEF Receives, OtherTable
    <3>2. Carries(<<>>) /\ Fresh(<<>>, 1)
      BY <1>2 DEF Carries, Fresh
    <3> QED  BY <1>3, <1>8, <1>9, <3>1, <3>2 DEF OtherMatches
  <2>2. LastMatches(stage[Last], D[1], L[1])
    <3>1. LastTable(stage[Last]) = stage[Last].table
      BY <1>1, LastFacts DEF LastTable
    <3> QED  BY <1>8, <1>9, <3>1, LastFacts DEF LastMatches
  <2> QED  BY <1>3, <2>1, <2>2, LastFacts DEF StagesMatch
<1>11. ViewsOK(D, L, B, stage, 1, 0)
  BY <1>3, <1>5 DEF ViewsOK
<1>12. StepsOK(D, L, B, 1, 1, 1, 0)
  <2>1. LastSays(B, 1, 1, D[1])
    <3>1. \A r \in Reqs : D[1][r].last = 0
      BY <1>4 DEF NoData
    <3> QED  BY <3>1 DEF LastSays
  <2>2. \A r \in Reqs : D[1][r].computed <= D[1][r].computed
    BY <1>4 DEF NoData
  <2>3. NoReturn(B, 1, 0)
    BY <1>5 DEF NoReturn
  <2>4. Grows(D, B, 1, 0)
    BY <1>5, <2>2 DEF Grows
  <2> QED  BY <1>5, <2>1, <2>3, <2>4 DEF StepsOK
<1>13. RequestsOK(D, L, B, stage, req, flush, 1, 0)
  <2>1. \A r \in Reqs : req[r] = NewRequest
    BY <1>1
  <2>2. Active(req) = {}
    BY <2>1 DEF Active, NewRequest
  <2>3. Holders(L[1]) = {}
    BY <1>4, FirstSlotsGood
  <2>4. \A r : AllRows(B, 1, 0, r) = 0
    <3>1. \A r : Total(Rows(B, 1, 0, r), 0) = 0
      BY TotalSteps
    <3> QED  BY <1>5, <3>1 DEF AllRows
  <2>5. ASSUME NEW r \in Reqs PROVE RequestOK(B, 1, 0, r, req[r])
    <3>1. PromptLen \in Nat /\ PromptLen > 0
      BY RelayAssumption
    <3> QED  BY <2>1, <2>4, <3>1 DEF RequestOK, NewRequest, RequestType
  <2>6. DOMAIN req = Reqs /\ flush \subseteq Reqs
    BY <1>1
  <2> QED  BY <1>1, <1>5, <2>2, <2>3, <2>5, <2>6 DEF RequestsOK
<1>14. InputOK(stage[Last], B)
  BY <1>1, LastFacts DEF InputOK
<1> QED  BY <1>1, <1>2, <1>3, <1>6, <1>10, <1>11, <1>12, <1>13, <1>14, LastFacts DEF AInv, AllGood, D, L, B

----------------------------------------------------------------------------
(* The client and the preemption.                                          *)

LEMMA DropKeeps ==
  ASSUME NEW D, NEW L, AInv(D, L), NEW r \in Reqs, req[r].status = "running", NEW q,
         q \in RequestType, q.tokens > 0, q.status # "running",
         q.status = "finished" => q = Finished, q.status = "waiting" => q.computed = 0,
         q.status # "finished" => q.in_flight = req[r].in_flight,
         req' = [req EXCEPT ![r] = q], flush' = flush \cup {r},
         UNCHANGED <<current_step, batches, stage, wire>>
  PROVE  AInv(D, L)'
<1> DEFINE o == Oldest
           c == current_step
           B == Issued
<1>1. RequestsOK(D, L, B, stage, req, flush, o, c)
  BY DEF AInv, AllGood
<1>2. Oldest' = Oldest /\ Issued' = Issued
  BY DEF Oldest, Issued, BatchOf
<1> HIDE DEF o, c, B
<1>3. /\ DOMAIN req = Reqs /\ flush \subseteq Reqs /\ Active(req) \cap flush = {}
      /\ Active(req) \subseteq Holders(L[c + 1]) /\ Holders(L[c + 1]) \subseteq Active(req) \cup flush
      /\ \A i \in Reqs : RequestOK(B, o, c, i, req[i])
      /\ \A i \in Active(req) : /\ InUseOK(B, o, c, i, req[i], D[c + 1][i])
                                /\ Floor(D, B, stage, c, i, req[i].prefill)
  BY <1>1 DEF RequestsOK
<1>4. DOMAIN req' = Reqs /\ req'[r] = q /\ \A i \in Reqs \ {r} : req'[i] = req[i]
  BY <1>3
<1>5. Active(req') = Active(req) \ {r}
  BY <1>4 DEF Active
<1>6. RequestOK(B, o, c, r, q)
  BY <1>3 DEF RequestOK
<1>7. \A i \in Active(req') : i # r /\ req'[i] = req[i]
  BY <1>4, <1>5 DEF Active
<1>8. RequestsOK(D, L, B, stage, req', flush', o, c)
  BY <1>3, <1>4, <1>5, <1>6, <1>7 DEF RequestsOK
<1> QED  BY <1>2, <1>8 DEF AInv, AllGood, o, c, B

LEMMA AbortKeeps ==
  ASSUME NEW D, NEW L, AInv(D, L), NEW r \in Reqs, Abort(r)
  PROVE  AInv(D, L)'
<1>1. /\ req[r].status = "running" /\ req' = [req EXCEPT ![r] = Finished] /\ flush' = flush \cup {r}
      /\ UNCHANGED <<current_step, batches, stage, wire>>
  BY DEF Abort, InUse
<1>2. Finished \in RequestType /\ Finished.tokens > 0 /\ Finished.status = "finished"
  BY RelayAssumption DEF Finished, NewRequest, RequestType
<1> QED  BY <1>1, <1>2, DropKeeps

LEMMA PreemptKeeps ==
  ASSUME NEW D, NEW L, AInv(D, L), NEW r \in Reqs, Preempt(r)
  PROVE  AInv(D, L)'
<1> DEFINE q == [req[r] EXCEPT !.status = "waiting", !.computed = 0]
<1>1. /\ req[r].status = "running" /\ flush' = flush \cup {r}
      /\ UNCHANGED <<current_step, batches, stage, wire>>
      /\ req' = [req EXCEPT ![r].status = "waiting", ![r].computed = 0]
  BY DEF Preempt, InUse
<1>2. DOMAIN req = Reqs /\ req[r] \in RequestType /\ req[r].tokens > 0
  BY DEF AInv, AllGood, RequestsOK, RequestOK
<1>3. req' = [req EXCEPT ![r] = q]
  BY <1>1, <1>2
<1>4. /\ q \in RequestType /\ q.status = "waiting" /\ q.computed = 0 /\ q.in_flight = req[r].in_flight
      /\ q.tokens = req[r].tokens
  BY <1>2 DEF RequestType
<1> HIDE DEF q
<1> QED  BY <1>1, <1>2, <1>3, <1>4, DropKeeps

LEMMA StutterKeeps ==
  ASSUME NEW D, NEW L, AInv(D, L), UNCHANGED vars
  PROVE  AInv(D, L)'
<1>1. UNCHANGED <<current_step, batches, stage, wire, req, flush>>
  BY DEF vars
<1>2. Oldest' = Oldest /\ Issued' = Issued
  BY <1>1 DEF Oldest, Issued, BatchOf
<1> QED  BY <1>1, <1>2 DEF AInv

----------------------------------------------------------------------------
(* update_from_output: the counts of the scheduler without the oldest step. *)

LEMMA CountsType ==
  ASSUME NEW B, NEW o \in Nat, NEW c \in Nat, o <= c + 1, \A k \in o .. c : BatchGood(B[k]), NEW r \in Reqs
  PROVE  /\ AllRejected(B, o, c, r) \in Nat /\ AllRows(B, o, c, r) \in Nat
         /\ \A i \in 1 .. c - o + 1 : /\ Rejected(B, o, c, r)[i] \in Nat /\ Rows(B, o, c, r)[i] \in Nat
                                      /\ Rejected(B, o, c, r)[i] = B[o + i - 1].rejected[r]
                                      /\ Rows(B, o, c, r)[i] = IF r \in InBatch(B[o + i - 1]) THEN 1 ELSE 0
<1>1. c - o + 1 \in Nat /\ \A i \in 1 .. c - o + 1 : o + i - 1 \in o .. c
  OBVIOUS
<1>2. \A k \in o .. c : B[k].rejected[r] \in Nat
  <2> SUFFICES ASSUME NEW k \in o .. c PROVE B[k].rejected[r] \in Nat
    OBVIOUS
  <2>1. B[k].rejected \in [Reqs -> 0 .. NumSpec]
    BY DEF BatchGood
  <2>2. B[k].rejected[r] \in 0 .. NumSpec /\ NumSpec \in Nat
    BY <2>1, RelayAssumption
  <2> QED  BY <2>2
<1> DEFINE v == Rejected(B, o, c, r)
           w == Rows(B, o, c, r)
           n == c - o + 1
<1>3. \A i \in 1 .. n : v[i] \in Nat /\ v[i] = B[o + i - 1].rejected[r]
  BY <1>1, <1>2 DEF Rejected
<1>4. \A i \in 1 .. n : w[i] \in Nat /\ w[i] = IF r \in InBatch(B[o + i - 1]) THEN 1 ELSE 0
  BY DEF Rows
<1> HIDE DEF v, w
<1>5. n \in Nat
  BY <1>1
<1> HIDE DEF n
<1>6. Total(v, n) \in Nat /\ Total(w, n) \in Nat
  BY <1>3, <1>4, <1>5, TotalOfNaturals
<1> QED  BY <1>3, <1>4, <1>6 DEF v, w, n, AllRejected, AllRows

LEMMA CountsOldest ==
  ASSUME NEW B, NEW o \in Nat, NEW c \in Nat, o <= c, \A k \in o .. c : BatchGood(B[k]), NEW r \in Reqs
  PROVE  /\ AllRejected(B, o, c, r) = B[o].rejected[r] + AllRejected(B, o + 1, c, r)
         /\ AllRows(B, o, c, r) = (IF r \in InBatch(B[o]) THEN 1 ELSE 0) + AllRows(B, o + 1, c, r)
<1> DEFINE v == Rejected(B, o, c, r)
           w == Rows(B, o, c, r)
           x == Rejected(B, o + 1, c, r)
           y == Rows(B, o + 1, c, r)
           n == c - (o + 1) + 1
<1>1. /\ n \in Nat /\ n + 1 = c - o + 1 /\ 1 \in 1 .. n + 1 /\ o + 1 - 1 = o
      /\ \A i \in 1 .. n : i + 1 \in 1 .. n + 1 /\ (o + 1) + i - 1 = o + (i + 1) - 1
  OBVIOUS
<1>2. \A i \in 1 .. n + 1 : /\ v[i] \in Nat /\ w[i] \in Nat /\ v[i] = B[o + i - 1].rejected[r]
                            /\ w[i] = IF r \in InBatch(B[o + i - 1]) THEN 1 ELSE 0
  <2>1. o <= c + 1
    OBVIOUS
  <2>2. \A i \in 1 .. c - o + 1 : /\ v[i] \in Nat /\ w[i] \in Nat /\ v[i] = B[o + i - 1].rejected[r]
                                  /\ w[i] = IF r \in InBatch(B[o + i - 1]) THEN 1 ELSE 0
    BY <2>1, CountsType
  <2> HIDE DEF n, v, w
  <2> QED  BY <1>1, <2>2
<1>3. \A i \in 1 .. n : /\ x[i] = B[(o + 1) + i - 1].rejected[r]
                        /\ y[i] = IF r \in InBatch(B[(o + 1) + i - 1]) THEN 1 ELSE 0
  BY DEF Rejected, Rows
<1>4. AllRejected(B, o, c, r) = Total(v, n + 1) /\ AllRejected(B, o + 1, c, r) = Total(x, n)
      /\ AllRows(B, o, c, r) = Total(w, n + 1) /\ AllRows(B, o + 1, c, r) = Total(y, n)
  BY <1>1 DEF AllRejected, AllRows
<1> HIDE DEF n, v, w, x, y
<1>5. \A i \in 1 .. n : x[i] = v[i + 1] /\ y[i] = w[i + 1]
  BY <1>1, <1>2, <1>3
<1>6. \A i \in 1 .. n + 1 : v[i] \in Int /\ w[i] \in Int
  BY <1>2
<1>7. Total(v, n + 1) = v[1] + Total(x, n) /\ Total(w, n + 1) = w[1] + Total(y, n)
  BY <1>1, <1>5, <1>6, TotalShift
<1>8. v[1] = B[o].rejected[r] /\ w[1] = IF r \in InBatch(B[o]) THEN 1 ELSE 0
  BY <1>1, <1>2
<1> QED  BY <1>4, <1>7, <1>8

Answered(b, r, q) ==
  [q EXCEPT !.in_flight = @ - 1, !.tokens = @ + NewTokens(b, r),
            !.computed = IF q.status = "running" THEN @ - b.rejected[r] ELSE @]

LEMMA AnsweredFields ==
  ASSUME NEW q \in RequestType, NEW b, NEW r
  PROVE  /\ Answered(b, r, q).status = q.status /\ Answered(b, r, q).prefill = q.prefill
         /\ Answered(b, r, q).eligible = q.eligible /\ Answered(b, r, q).in_flight = q.in_flight - 1
         /\ Answered(b, r, q).tokens = q.tokens + NewTokens(b, r)
         /\ q.status = "running" => Answered(b, r, q).computed = q.computed - b.rejected[r]
         /\ q.status # "running" => Answered(b, r, q).computed = q.computed
         /\ DOMAIN Answered(b, r, q) = DOMAIN q
BY DEF Answered, RequestType

LEMMA AnsweredOK ==
  ASSUME NEW B, NEW o \in Nat, NEW c \in Nat, o <= c, \A k \in o .. c : BatchGood(B[k]), NEW r \in Reqs,
         NEW q, RequestOK(B, o, c, r, q), q.status # "finished", r \in InBatch(B[o]),
         NEW d \in DataType, q.status = "running" => InUseOK(B, o, c, r, q, d)
  PROVE  /\ RequestOK(B, o + 1, c, r, Answered(B[o], r, q))
         /\ q.status = "running" => InUseOK(B, o + 1, c, r, Answered(B[o], r, q), d)
<1> DEFINE b == B[o]
           z == Answered(b, r, q)
           i == b.rejected[r]
           m == AllRejected(B, o + 1, c, r)
           n == AllRows(B, o + 1, c, r)
<1>0. o \in o .. c /\ BatchGood(b) /\ NumSpec \in Nat
  BY RelayAssumption
<1>1. q \in RequestType /\ q.tokens > 0 /\ (q.status = "waiting" => q.computed = 0)
      /\ q.in_flight = AllRows(B, o, c, r)
  BY DEF RequestOK
<1>2. /\ z.status = q.status /\ z.prefill = q.prefill /\ z.eligible = q.eligible
      /\ z.in_flight = q.in_flight - 1 /\ z.tokens = q.tokens + NewTokens(b, r)
      /\ (q.status = "running" => z.computed = q.computed - i)
      /\ (q.status # "running" => z.computed = q.computed) /\ DOMAIN z = DOMAIN q
  BY <1>1, AnsweredFields
<1>3. /\ AllRejected(B, o, c, r) = i + m /\ AllRows(B, o, c, r) = 1 + n
  BY CountsOldest
<1>4. m \in Nat /\ n \in Nat
  <2>1. o + 1 \in Nat /\ o + 1 <= c + 1 /\ \A k \in o + 1 .. c : k \in o .. c
    OBVIOUS
  <2>2. \A k \in o + 1 .. c : BatchGood(B[k])
    BY <2>1
  <2> QED  BY <2>1, <2>2, CountsType
<1>5. i \in 0 .. NumSpec
  BY <1>0 DEF BatchGood
<1>6. NewTokens(b, r) \in Nat
  <2>1. b.row[r].kind = "decode" => b.row[r].n = 1 + NumSpec
    BY <1>0, RowFacts DEF BatchGood
  <2>2. b.row[r].kind = "decode" => b.row[r].n - b.rejected[r] \in Nat
    BY <1>0, <1>5, <2>1
  <2>3. NewTokens(b, r) \in {b.row[r].n - b.rejected[r], 1, 0} /\ (b.row[r].kind # "decode" => NewTokens(b, r) \in {0, 1})
    BY DEF NewTokens
  <2>4. b.row[r].kind = "decode" => NewTokens(b, r) = b.row[r].n - b.rejected[r]
    BY DEF NewTokens
  <2> QED  BY <2>2, <2>3, <2>4
<1>7. q.status = "running" => /\ q.computed = d.computed + (i + m)
                              /\ d.last = 0 => q.computed < q.prefill /\ \A k \in o .. c : B[k].rejected[r] = 0
                              /\ d.last > 0 => q.eligible = d.last + PPSize /\ q.prefill <= d.computed
  BY <1>3 DEF InUseOK
<1>8. d.computed \in Int /\ d.last \in Nat
  BY DEF DataType
<1>9. /\ q.computed \in Nat /\ q.prefill \in Nat /\ q.tokens \in Nat /\ q.in_flight \in Nat
      /\ q.eligible \in Nat /\ q.status \in {"waiting", "running", "finished"}
      /\ DOMAIN q = {"status", "tokens", "prefill", "computed", "in_flight", "eligible"}
  BY <1>1 DEF RequestType
<1> HIDE DEF b, z, i, m, n
<1>10. q.status = "running" => z.computed = d.computed + m
  BY <1>2, <1>4, <1>5, <1>7, <1>8, <1>9
<1>11. q.status = "running" /\ d.last = 0 => i = 0
  BY <1>0, <1>7 DEF i, b
<1>12. z.computed \in Nat
  <2>1. CASE q.status = "running" /\ d.last = 0
    BY <1>2, <1>9, <1>11, <2>1
  <2>2. CASE q.status = "running" /\ d.last # 0
    BY <1>4, <1>7, <1>8, <1>9, <1>10, <2>2
  <2>3. CASE q.status # "running"
    BY <1>2, <1>9, <2>3
  <2> QED  BY <2>1, <2>2, <2>3
<1>13. z.in_flight = n /\ z.tokens \in Nat /\ z.tokens > 0
  BY <1>1, <1>2, <1>3, <1>4, <1>6, <1>9
<1>14. z \in RequestType
  <2>1. z = [s \in DOMAIN z |-> z[s]]
    BY DEF z, Answered
  <2> QED  BY <1>2, <1>4, <1>9, <1>12, <1>13, <2>1 DEF RequestType
<1>15. RequestOK(B, o + 1, c, r, z)
  BY <1>1, <1>2, <1>13, <1>14 DEF RequestOK, n
<1>16. ASSUME q.status = "running" PROVE InUseOK(B, o + 1, c, r, z, d)
  <2>1. z.computed = d.computed + AllRejected(B, o + 1, c, r)
    BY <1>10, <1>16 DEF m
  <2>2. \A k \in o + 1 .. c : k \in o .. c
    OBVIOUS
  <2>3. d.last = 0 => z.computed < z.prefill
    BY <1>2, <1>7, <1>9, <1>11, <1>16
  <2> QED  BY <1>2, <1>7, <1>16, <2>1, <2>2, <2>3 DEF InUseOK
<1> QED  BY <1>15, <1>16 DEF z, b

\* A request without a row in the oldest step.
LEMMA UnansweredOK ==
  ASSUME NEW B, NEW o \in Nat, NEW c \in Nat, o <= c, \A k \in o .. c : BatchGood(B[k]), NEW r \in Reqs,
         NEW q, RequestOK(B, o, c, r, q), r \notin InBatch(B[o]) \/ q.status = "finished",
         NEW d, q.status = "running" => InUseOK(B, o, c, r, q, d)
  PROVE  /\ RequestOK(B, o + 1, c, r, q)
         /\ q.status = "running" => InUseOK(B, o + 1, c, r, q, d)
<1>1. CASE q.status = "finished"
  BY <1>1 DEF RequestOK
<1>2. CASE q.status # "finished"
  <2>0. o \in o .. c
    OBVIOUS
  <2>1. B[o].rejected[r] = 0
    BY <1>2, <2>0 DEF BatchGood, InBatch
  <2>2. /\ AllRejected(B, o, c, r) = 0 + AllRejected(B, o + 1, c, r)
        /\ AllRows(B, o, c, r) = 0 + AllRows(B, o + 1, c, r)
    BY <1>2, <2>1, CountsOldest
  <2>3. AllRejected(B, o + 1, c, r) \in Nat /\ AllRows(B, o + 1, c, r) \in Nat
    <3>1. o + 1 \in Nat /\ o + 1 <= c + 1 /\ \A k \in o + 1 .. c : k \in o .. c
      OBVIOUS
    <3>2. \A k \in o + 1 .. c : BatchGood(B[k])
      BY <3>1
    <3> QED  BY <3>1, <3>2, CountsType
  <2>4. /\ AllRejected(B, o, c, r) = AllRejected(B, o + 1, c, r) /\ AllRows(B, o, c, r) = AllRows(B, o + 1, c, r)
    BY <2>2, <2>3
  <2>5. \A k \in o + 1 .. c : k \in o .. c
    OBVIOUS
  <2> QED  BY <2>4, <2>5 DEF RequestOK, InUseOK
<1> QED  BY <1>1, <1>2

LEMMA AnswerRequests ==
  ASSUME NEW B, NEW D, NEW L, NEW S, NEW Q, NEW F, NEW G, NEW P, NEW o, NEW a, NEW c,
         Window(o, a, ReachedOf(S[Last]), c), a = S[Last].next, o < a,
         \A k \in o .. c : BatchGood(B[k]), D[c + 1] \in [Reqs -> DataType],
         RequestsOK(D, L, B, S, Q, F, o, c), NEW stop \in SUBSET Reqs,
         P = [r \in Reqs |-> IF r \in stop THEN Finished
                             ELSE IF r \notin InBatch(B[o]) \/ Q[r] = Finished THEN Q[r]
                             ELSE Answered(B[o], r, Q[r])],
         G = F \cup stop
  PROVE  RequestsOK(D, L, B, S, P, G, o + 1, c)
<1> DEFINE f == ReachedOf(S[Last])
           z(r) == Answered(B[o], r, Q[r])
<1>0. o \in Nat /\ a \in Nat /\ f \in Nat /\ c \in Nat /\ o <= a /\ a <= f /\ f <= c + 1
  BY DEF Window
<1>1. o <= c /\ o + 1 \in Nat
  <2>1. CASE S[Last].phase = "sample"
    <3>1. f = a + 1
      BY <2>1 DEF ReachedOf
    <3> QED  BY <1>0, <3>1
  <2>2. CASE S[Last].phase # "sample"
    BY <1>0
  <2> QED  BY <2>1, <2>2
<1>2. /\ DOMAIN Q = Reqs /\ F \subseteq Reqs /\ Active(Q) \cap F = {}
      /\ Active(Q) \subseteq Holders(L[c + 1]) /\ Holders(L[c + 1]) \subseteq Active(Q) \cup F
      /\ \A r \in Reqs : RequestOK(B, o, c, r, Q[r])
      /\ \A r \in Active(Q) : /\ InUseOK(B, o, c, r, Q[r], D[c + 1][r])
                              /\ Floor(D, B, S, c, r, Q[r].prefill)
  BY DEF RequestsOK
<1>3. Finished \in RequestType /\ Finished.tokens > 0 /\ Finished.status = "finished"
  BY RelayAssumption DEF Finished, NewRequest, RequestType
<1>4. \A r \in Reqs : Q[r] \in RequestType /\ (Q[r].status = "finished" => Q[r] = Finished)
                      /\ (Q[r].status = "running" => InUseOK(B, o, c, r, Q[r], D[c + 1][r]))
                      /\ D[c + 1][r] \in DataType
  BY <1>2 DEF RequestOK, Active
<1>5. DOMAIN P = Reqs /\ \A r \in Reqs : P[r] = IF r \in stop THEN Finished
                             ELSE IF r \notin InBatch(B[o]) \/ Q[r] = Finished THEN Q[r] ELSE z(r)
  OBVIOUS
<1> HIDE DEF z, f
<1>6. ASSUME NEW r \in Reqs
      PROVE  /\ RequestOK(B, o + 1, c, r, P[r])
             /\ P[r].status = IF r \in stop THEN "finished" ELSE Q[r].status
             /\ r \notin stop => P[r].prefill = Q[r].prefill
             /\ P[r].status = "running" => InUseOK(B, o + 1, c, r, P[r], D[c + 1][r])
  <2> DEFINE q == Q[r]
             d == D[c + 1][r]
  <2>0. /\ q \in RequestType /\ (q.status = "finished" => q = Finished) /\ RequestOK(B, o, c, r, q)
        /\ (q.status = "running" => InUseOK(B, o, c, r, q, d)) /\ d \in DataType
    BY <1>2, <1>4
  <2> HIDE DEF d
  <2>1. CASE r \in stop
    <3>1. P[r] = Finished
      BY <1>5, <2>1
    <3>2. RequestOK(B, o + 1, c, r, Finished)
      BY <1>3 DEF RequestOK
    <3> QED  BY <1>3, <2>1, <3>1, <3>2
  <2>2. CASE r \notin stop /\ (r \notin InBatch(B[o]) \/ q.status = "finished")
    <3>1. P[r] = q
      BY <1>5, <2>0, <2>2
    <3> HIDE DEF q
    <3>2. RequestOK(B, o + 1, c, r, q) /\ (q.status = "running" => InUseOK(B, o + 1, c, r, q, d))
      BY <1>0, <1>1, <2>0, <2>2, UnansweredOK
    <3> QED  BY <2>2, <3>1, <3>2 DEF d, q
  <2>3. CASE r \notin stop /\ r \in InBatch(B[o]) /\ q.status # "finished"
    <3>1. P[r] = Answered(B[o], r, q)
      BY <1>3, <1>5, <2>3 DEF z
    <3> HIDE DEF q
    <3>2. /\ RequestOK(B, o + 1, c, r, Answered(B[o], r, q))
          /\ (q.status = "running" => InUseOK(B, o + 1, c, r, Answered(B[o], r, q), d))
      BY <1>0, <1>1, <2>0, <2>3, AnsweredOK
    <3>3. Answered(B[o], r, q).status = q.status /\ Answered(B[o], r, q).prefill = q.prefill
      BY <2>0, AnsweredFields
    <3> QED  BY <2>3, <3>1, <3>2, <3>3 DEF d, q
  <2> QED  BY <2>1, <2>2, <2>3
<1>7. Active(P) = Active(Q) \ stop
  BY <1>6 DEF Active
<1>8. \A r \in Active(P) : Floor(D, B, S, c, r, P[r].prefill)
  BY <1>2, <1>6, <1>7 DEF Active
<1>9. \A r \in Active(P) : InUseOK(B, o + 1, c, r, P[r], D[c + 1][r])
  BY <1>6 DEF Active
<1>10. /\ G \subseteq Reqs /\ Active(P) \cap G = {} /\ Active(P) \subseteq Holders(L[c + 1])
       /\ Holders(L[c + 1]) \subseteq Active(P) \cup G
  BY <1>2, <1>7
<1> QED  BY <1>5, <1>6, <1>8, <1>9, <1>10 DEF RequestsOK

LEMMA AnswerKeeps ==
  ASSUME IInv, NEW D, NEW L, AInv(D, L), Answer
  PROVE  AInv(D, L)'
<1> DEFINE o == Oldest
           c == current_step
           a == stage[Last].next
           f == ReachedOf(stage[Last])
           B == Issued
           C == Issued'
<1>1. Window(o, a, f, c)
  BY WindowFacts
<1>2. o \in Nat /\ a \in Nat /\ f \in Nat /\ c \in Nat /\ o > 0 /\ o <= a /\ a <= f /\ f <= c + 1
  BY <1>1 DEF Window
<1>3. /\ Chained(D, L, B, f, c) /\ InputOK(stage[Last], B) /\ StagesMatch(D, L, stage, wire)
      /\ ViewsOK(D, L, B, stage, o, c) /\ StepsOK(D, L, B, a, f, o, c)
      /\ RequestsOK(D, L, B, stage, req, flush, o, c)
  BY DEF AInv, AllGood
<1>4. /\ batches # <<>> /\ a > o /\ batches' = Tail(batches)
      /\ UNCHANGED <<current_step, stage, wire>>
  BY DEF Answer
<1>5. Head(batches) = B[o]
  <2>1. /\ DOMAIN batches = 1 .. Len(batches)
        /\ \A i \in 1 .. Len(batches) : i + Oldest - 1 \in Oldest .. current_step
                                        /\ batches[i] = Issued[i + Oldest - 1]
    BY IssuedFacts
  <2>2. Len(batches) \in Nat /\ IsSeq(batches) /\ Len(batches) >= 1
    BY <1>4, IsSeqFacts DEF IInv, BatchesOK
  <2>3. 1 \in 1 .. Len(batches) /\ 1 + Oldest - 1 = Oldest
    BY <1>2, <2>2
  <2>4. Head(batches) = batches[1]
    OBVIOUS
  <2>5. batches[1] = Issued[1 + Oldest - 1]
    BY <2>1, <2>3
  <2> QED  BY <2>3, <2>4, <2>5
<1>6. PICK stop \in SUBSET Reqs :
        /\ req' = [r \in Reqs |-> IF r \in stop THEN Finished
                                  ELSE IF r \notin InBatch(B[o]) \/ req[r] = Finished THEN req[r]
                                  ELSE Answered(B[o], r, req[r])]
        /\ flush' = flush \cup stop
  <2> HIDE DEF B, o
  <2>1. \E stop \in SUBSET {r \in InBatch(B[o]) : Samples(B[o], r) /\ req[r] # Finished} :
           /\ req' = [r \in Reqs |->
                IF r \in stop THEN Finished
                ELSE IF r \notin InBatch(B[o]) \/ req[r] = Finished THEN req[r]
                ELSE Answered(B[o], r, req[r])]
           /\ flush' = flush \cup stop
    BY <1>5 DEF Answer, Answered
  <2>2. InBatch(B[o]) \subseteq Reqs
    BY DEF InBatch
  <2> QED  BY <2>1, <2>2
<1>7. Oldest' = o + 1 /\ \A j \in o + 1 .. c : C[j] = B[j]
  <2>1. /\ Len(batches) \in Nat /\ Len(batches') = Len(batches) - 1
        /\ \A i \in 1 .. Len(batches) - 1 : batches'[i] = batches[i + 1]
    BY <1>4, IsSeqFacts, TailSeq DEF IInv, BatchesOK
  <2>2. Oldest' = o + 1
    BY <1>2, <1>4, <2>1 DEF Oldest
  <2>3. \A j \in o + 1 .. c : /\ j - (o + 1) + 1 \in 1 .. Len(batches) - 1
                              /\ (j - (o + 1) + 1) + 1 = j - o + 1 /\ j \in o .. c
    BY <1>2, <2>1 DEF Oldest
  <2>4. \A j \in o .. c : B[j] = batches[j - o + 1]
    BY IssuedFacts
  <2>5. \A j \in o + 1 .. c : C[j] = batches'[j - (o + 1) + 1]
    BY <1>4, <2>2 DEF Issued, BatchOf
  <2> HIDE DEF B, C, o
  <2> QED  BY <2>1, <2>2, <2>3, <2>4, <2>5
<1> DEFINE m == o + 1
<1>8. m \in Nat /\ m <= a /\ Window(m, a, f, c)
  BY <1>2, <1>4 DEF Window
<1> HIDE DEF B, C
<1>9. SameSteps(B, C, m, c)
  BY <1>7 DEF SameSteps, SameBatch
<1>10. \A j \in f .. c : SameBatch(B[j], C[j])
  BY <1>2, <1>4, <1>9 DEF SameSteps
<1>11. Chained(D, L, C, f, c) /\ StepsOK(D, L, C, a, f, m, c)
  <2> HIDE DEF a, f, o, c
  <2>1. Chained(D, L, C, f, c)
    BY <1>3, <1>10, SameChained
  <2>2. m \in Nat /\ o <= m /\ m <= a
    BY <1>2, <1>8
  <2> HIDE DEF m
  <2>3. StepsOK(D, L, C, a, f, m, c)
    BY <1>1, <1>3, <1>9, <2>2, SameStepsOK
  <2> QED  BY <2>1, <2>3
<1>12. InputOK(stage[Last], C)
  <2>1. stage[Last].phase = "sample" => a \in m .. c
    BY <1>2, <1>8 DEF ReachedOf
  <2>2. stage[Last].phase = "sample" => C[a] = B[a]
    BY <1>7, <2>1
  <2> QED  BY <1>3, <2>2 DEF InputOK
<1>13. ViewsOK(D, L, C, stage, m, c)
  <2>1. \A j \in m .. c : j \in o .. c /\ C[j] = B[j]
    BY <1>2, <1>7
  <2>2. \A j \in f .. c : j \in m .. c
    BY <1>2, <1>8
  <2>3. f = ReachedOf(stage[Last])
    OBVIOUS
  <2> HIDE DEF o, m, c, f
  <2>4. \A j \in m .. c : Agree(C[j]) /\ Bounded(C[j])
    BY <1>3, <2>1 DEF ViewsOK
  <2>5. \A j \in m .. c : \A p \in Executed(C[j]) : ReachedOf(stage[p]) > j
    BY <1>3, <2>1 DEF ViewsOK
  <2>6. \A j \in f .. c : \A p \in Executed(C[j]) : C[j].view[p] = Seen(C[j], D[j], L[j + 1])
    BY <1>3, <2>1, <2>2, <2>3 DEF ViewsOK
  <2> QED  BY <2>3, <2>4, <2>5, <2>6 DEF ViewsOK
<1>14. RequestsOK(D, L, C, stage, req', flush', m, c)
  <2>1. \A k \in o .. c : BatchGood(B[k])
    BY <1>3 DEF StepsOK
  <2>2. c + 1 \in Nat /\ D[c + 1] \in [Reqs -> DataType]
    BY <1>2, <1>3 DEF Chained
  <2>3. RequestsOK(D, L, B, stage, req', flush', m, c)
    <3> HIDE DEF o, c
    <3> QED  BY <1>1, <1>3, <1>4, <1>6, <2>1, <2>2, AnswerRequests
  <2>4. SameLast(stage, stage)
    BY DEF SameLast
  <2> HIDE DEF m, c
  <2> QED  BY <1>8, <1>9, <2>3, <2>4, SameRequestsOK
<1>15. AllGood(D, L, C, stage, wire, req', flush', m, c)
  BY <1>3, <1>11, <1>12, <1>13, <1>14 DEF AllGood
<1> QED  BY <1>4, <1>7, <1>15 DEF AInv, C

----------------------------------------------------------------------------
(* schedule: one more step.                                                *)

\* C are the steps B and step c + 1 with batch b.
Extends(B, C, o, c, b) == (\A k \in o .. c : C[k] = B[k]) /\ C[c + 1] = b
\* E has the data of D and z for the end of step c + 1.
Further(D, E, c, z) == E = [k \in Nat |-> IF k = c + 2 THEN z ELSE D[k]]

\* The rows that schedule may give a request.
RowFits(row, q, k) ==
  /\ row \in RowType /\ row.kind \in {"chunk", "final", "decode"} /\ row.base = q.computed
  /\ row.kind = "chunk"  => q.computed < q.prefill /\ q.computed + row.n < q.prefill
  /\ row.kind = "final"  => q.computed < q.prefill /\ q.computed + row.n = q.prefill
  /\ row.kind = "decode" => q.prefill <= q.computed /\ q.eligible <= k /\ row.n = 1 + NumSpec

LEMMA RowsForFits ==
  ASSUME NEW q \in RequestType, NEW k \in Nat, NEW row \in RowsFor(q, k)
  PROVE  RowFits(row, q, k)
<1> DEFINE left == q.prefill - q.computed
<1>0. q.prefill \in Nat /\ q.computed \in Nat /\ q.eligible \in Nat /\ left \in Int /\ NumSpec \in Nat
      /\ q.prefill = q.computed + left
  BY RelayAssumption DEF RequestType
<1>1. RowsFor(q, k) = CASE left > 0 -> [kind : {"chunk"}, n : 1 .. left - 1, base : {q.computed}]
                                        \cup [kind : {"final"}, n : {left}, base : {q.computed}]
                        [] left <= 0 /\ k >= q.eligible -> [kind : {"decode"}, n : {1 + NumSpec}, base : {q.computed}]
                        [] OTHER -> {}
  BY DEF RowsFor
<1> HIDE DEF left
<1>2. CASE left > 0
  <2>1. row \in [kind : {"chunk"}, n : 1 .. left - 1, base : {q.computed}]
        \/ row \in [kind : {"final"}, n : {left}, base : {q.computed}]
    BY <1>0, <1>1, <1>2
  <2>2. CASE row \in [kind : {"chunk"}, n : 1 .. left - 1, base : {q.computed}]
    <3>1. row.kind = "chunk" /\ row.n \in 1 .. left - 1 /\ row.base = q.computed /\ row \in RowType
      BY <1>0, <2>2 DEF RowType
    <3>2. q.computed < q.prefill /\ q.computed + row.n < q.prefill
      BY <1>0, <1>2, <3>1
    <3> QED  BY <3>1, <3>2 DEF RowFits
  <2>3. CASE row \in [kind : {"final"}, n : {left}, base : {q.computed}]
    <3>1. row.kind = "final" /\ row.n = left /\ row.base = q.computed /\ row \in RowType
      BY <1>0, <1>2, <2>3 DEF RowType
    <3>2. q.computed < q.prefill /\ q.computed + row.n = q.prefill
      BY <1>0, <1>2, <3>1
    <3> QED  BY <3>1, <3>2 DEF RowFits
  <2> QED  BY <2>1, <2>2, <2>3
<1>3. CASE ~(left > 0) /\ k >= q.eligible
  <2>1. row \in [kind : {"decode"}, n : {1 + NumSpec}, base : {q.computed}]
    BY <1>0, <1>1, <1>3
  <2>2. row.kind = "decode" /\ row.n = 1 + NumSpec /\ row.base = q.computed /\ row \in RowType
    BY <1>0, <2>1 DEF RowType
  <2>3. q.prefill <= q.computed
    BY <1>0, <1>3
  <2> QED  BY <1>0, <1>3, <2>2, <2>3 DEF RowFits
<1>4. CASE ~(left > 0) /\ ~(k >= q.eligible)
  <2>1. ~(left <= 0 /\ k >= q.eligible)
    BY <1>4
  <2>2. row \in {}
    BY <1>1, <1>4, <2>1
  <2> QED  BY <2>2
<1> QED  BY <1>2, <1>3, <1>4

\* The counts with one more step.
LEMMA CountsNext ==
  ASSUME NEW B, NEW C, NEW o \in Nat, NEW c \in Nat, o <= c + 1, NEW b, Extends(B, C, o, c, b),
         \A k \in o .. c : BatchGood(B[k]), NEW r \in Reqs, b.rejected[r] = 0
  PROVE  /\ AllRejected(C, o, c + 1, r) = AllRejected(B, o, c, r)
         /\ AllRows(C, o, c + 1, r) = AllRows(B, o, c, r) + (IF r \in InBatch(b) THEN 1 ELSE 0)
<1> DEFINE v == Rejected(B, o, c, r)
           w == Rows(B, o, c, r)
           x == Rejected(C, o, c + 1, r)
           y == Rows(C, o, c + 1, r)
           n == c - o + 1
<1>1. /\ n \in Nat /\ n + 1 = (c + 1) - o + 1 /\ n + 1 \in 1 .. n + 1 /\ o + (n + 1) - 1 = c + 1
      /\ \A i \in 1 .. n : i \in 1 .. n + 1 /\ o + i - 1 \in o .. c
  OBVIOUS
<1>2. \A i \in 1 .. n : v[i] = B[o + i - 1].rejected[r] /\ w[i] = IF r \in InBatch(B[o + i - 1]) THEN 1 ELSE 0
  BY DEF Rejected, Rows
<1>3. \A i \in 1 .. (c + 1) - o + 1 : /\ x[i] = C[o + i - 1].rejected[r]
                                      /\ y[i] = IF r \in InBatch(C[o + i - 1]) THEN 1 ELSE 0
  BY DEF Rejected, Rows
<1>4. AllRejected(B, o, c, r) = Total(v, n) /\ AllRejected(C, o, c + 1, r) = Total(x, n + 1)
      /\ AllRows(B, o, c, r) = Total(w, n) /\ AllRows(C, o, c + 1, r) = Total(y, n + 1)
  BY <1>1 DEF AllRejected, AllRows
<1>a. AllRejected(B, o, c, r) \in Nat /\ AllRows(B, o, c, r) \in Nat
  <2> HIDE DEF n, v, w, x, y
  <2> QED  BY CountsType
<1>5. Total(v, n) \in Nat /\ Total(w, n) \in Nat
  <2> HIDE DEF n, v, w, x, y
  <2> QED  BY <1>4, <1>a
<1> HIDE DEF n, v, w, x, y
<1>6. \A i \in 1 .. n : x[i] = v[i] /\ y[i] = w[i]
  BY <1>1, <1>2, <1>3 DEF Extends
<1>7. x[n + 1] = 0 /\ y[n + 1] = IF r \in InBatch(b) THEN 1 ELSE 0
  BY <1>1, <1>3 DEF Extends
<1>8. n + 1 \in Nat \ {0} /\ (n + 1) - 1 = n
  BY <1>1
<1>9. Total(x, n + 1) = Total(x, n) + x[n + 1] /\ Total(y, n + 1) = Total(y, n) + y[n + 1]
  BY <1>8, TotalSteps
<1>10. Total(x, n) = Total(v, n) /\ Total(y, n) = Total(w, n)
  BY <1>1, <1>6, TotalSame
<1> QED  BY <1>4, <1>5, <1>7, <1>9, <1>10

\* A request without rows in flight had nothing rejected.
LEMMA NoRowsNoRejects ==
  ASSUME NEW B, NEW o \in Nat, NEW c \in Nat, o <= c + 1, \A k \in o .. c : BatchGood(B[k]), NEW r \in Reqs,
         AllRows(B, o, c, r) = 0
  PROVE  /\ AllRejected(B, o, c, r) = 0
         /\ \A k \in o .. c : r \notin InBatch(B[k]) /\ B[k].row[r].kind = "none" /\ B[k].rejected[r] = 0
<1> DEFINE v == Rejected(B, o, c, r)
           w == Rows(B, o, c, r)
           n == c - o + 1
<1>1. n \in Nat /\ AllRejected(B, o, c, r) = Total(v, n) /\ AllRows(B, o, c, r) = Total(w, n)
  BY DEF AllRejected, AllRows
<1>2. \A i \in 1 .. n : /\ v[i] \in Nat /\ w[i] \in Nat /\ v[i] = B[o + i - 1].rejected[r]
                        /\ w[i] = IF r \in InBatch(B[o + i - 1]) THEN 1 ELSE 0
  <2>1. \A i \in 1 .. c - o + 1 : /\ Rejected(B, o, c, r)[i] \in Nat /\ Rows(B, o, c, r)[i] \in Nat
                                 /\ Rejected(B, o, c, r)[i] = B[o + i - 1].rejected[r]
                                 /\ Rows(B, o, c, r)[i] = IF r \in InBatch(B[o + i - 1]) THEN 1 ELSE 0
    <3>1. \A i \in 1 .. c - o + 1 : o + i - 1 \in o .. c
      OBVIOUS
    <3>2. \A k \in o .. c : B[k].rejected[r] \in 0 .. NumSpec
      BY DEF BatchGood
    <3>3. \A j \in 0 .. NumSpec : j \in Nat
      OBVIOUS
    <3>4. \A i \in 1 .. c - o + 1 : Rejected(B, o, c, r)[i] = B[o + i - 1].rejected[r]
      BY DEF Rejected
    <3>5. \A i \in 1 .. c - o + 1 : /\ Rows(B, o, c, r)[i] = IF r \in InBatch(B[o + i - 1]) THEN 1 ELSE 0
                                   /\ Rows(B, o, c, r)[i] \in Nat
      BY DEF Rows
    <3>6. \A i \in 1 .. c - o + 1 : Rejected(B, o, c, r)[i] \in Nat
      BY <3>1, <3>2, <3>3, <3>4
    <3> QED  BY <3>4, <3>5, <3>6
  <2> QED  BY <2>1
<1>3. \A k \in o .. c : k - o + 1 \in 1 .. n /\ o + (k - o + 1) - 1 = k
  OBVIOUS
<1>3a. \A i \in 1 .. n : o + i - 1 \in o .. c
  OBVIOUS
<1> HIDE DEF v, w, n
<1>4. \A i \in 1 .. n : w[i] <= 0
  BY <1>1, <1>2, TotalOfNaturals
<1>5. \A i \in 1 .. n : w[i] = 0
  BY <1>2, <1>4
<1>6. \A k \in o .. c : r \notin InBatch(B[k])
  <2> SUFFICES ASSUME NEW k \in o .. c, r \in InBatch(B[k]) PROVE FALSE
    OBVIOUS
  <2>1. w[k - o + 1] = 1
    BY <1>2, <1>3
  <2> QED  BY <1>3, <1>5, <2>1
<1>7. \A k \in o .. c : B[k].row[r].kind = "none" /\ B[k].rejected[r] = 0
  BY <1>6 DEF InBatch, BatchGood
<1>8. Total(v, n) = 0
  BY <1>1, <1>2, <1>3a, <1>7, TotalZero
<1> QED  BY <1>1, <1>6, <1>7, <1>8

LEMMA ScheduledFields ==
  ASSUME NEW q \in RequestType, NEW row \in RowType, NEW k \in Nat
  PROVE  /\ Scheduled(q, row, k) \in RequestType
         /\ Scheduled(q, row, k).status = q.status /\ Scheduled(q, row, k).prefill = q.prefill
         /\ Scheduled(q, row, k).tokens = q.tokens
         /\ Scheduled(q, row, k).computed = q.computed + row.n
         /\ Scheduled(q, row, k).in_flight = q.in_flight + (IF row = NoRow THEN 0 ELSE 1)
         /\ row.kind \in {"final", "decode"} => Scheduled(q, row, k).eligible = k + PPSize
         /\ row.kind \notin {"final", "decode"} => Scheduled(q, row, k).eligible = q.eligible
<1> DEFINE s == Scheduled(q, row, k)
<1>1. /\ s.status = q.status /\ s.prefill = q.prefill /\ s.tokens = q.tokens
      /\ s.computed = q.computed + row.n
      /\ s.in_flight = q.in_flight + (IF row = NoRow THEN 0 ELSE 1)
      /\ s.eligible = IF row.kind \in {"final", "decode"} THEN k + PPSize ELSE q.eligible
      /\ DOMAIN s = DOMAIN q /\ s = [x \in DOMAIN s |-> s[x]]
  BY DEF Scheduled, Cadence, RequestType
<1>2. /\ q.computed \in Nat /\ q.prefill \in Nat /\ q.tokens \in Nat /\ q.in_flight \in Nat
      /\ q.eligible \in Nat /\ q.status \in {"waiting", "running", "finished"}
      /\ DOMAIN q = {"status", "tokens", "prefill", "computed", "in_flight", "eligible"}
  BY DEF RequestType
<1>3. row.n \in Nat /\ PPSize \in Nat
  BY RelayAssumption DEF RowType
<1> HIDE DEF s
<1>4. s.computed \in Nat /\ s.in_flight \in Nat /\ s.eligible \in Nat
  BY <1>1, <1>2, <1>3
<1>5. s \in RequestType
  BY <1>1, <1>2, <1>4 DEF RequestType
<1> QED  BY <1>1, <1>5 DEF s

NoRowsOf(B, o, c, r) == \A k \in o .. c : r \notin InBatch(B[k]) /\ B[k].row[r].kind = "none"

\* A request that is admitted starts from nothing.
LEMMA AdmittedOK ==
  ASSUME NEW B, NEW o \in Nat, NEW c \in Nat, o <= c + 1, \A k \in o .. c : BatchGood(B[k]), NEW r \in Reqs,
         NEW q, RequestOK(B, o, c, r, q), q.status = "waiting", q.in_flight = 0
  PROVE  /\ RequestOK(B, o, c, r, Admitted(q)) /\ Admitted(q).status = "running"
         /\ InUseOK(B, o, c, r, Admitted(q), NoData) /\ NoRowsOf(B, o, c, r)
<1> DEFINE s == Admitted(q)
<1>1. q \in RequestType /\ q.tokens > 0 /\ q.computed = 0 /\ AllRows(B, o, c, r) = 0
  BY DEF RequestOK
<1>2. /\ AllRejected(B, o, c, r) = 0
      /\ \A k \in o .. c : r \notin InBatch(B[k]) /\ B[k].row[r].kind = "none" /\ B[k].rejected[r] = 0
  BY <1>1, NoRowsNoRejects
<1>3. /\ s.status = "running" /\ s.prefill = q.tokens /\ s.tokens = q.tokens /\ s.computed = q.computed
      /\ s.in_flight = q.in_flight
  BY <1>1 DEF Admitted, RequestType
<1>4. s \in RequestType
  BY <1>1 DEF Admitted, RequestType
<1> HIDE DEF s
<1>5. RequestOK(B, o, c, r, s)
  BY <1>1, <1>3, <1>4 DEF RequestOK
<1>6. NoData.computed = 0 /\ NoData.last = 0
  BY DEF NoData
<1>7. InUseOK(B, o, c, r, s, NoData)
  BY <1>1, <1>2, <1>3, <1>6 DEF InUseOK
<1> QED  BY <1>2, <1>3, <1>5, <1>7 DEF s, NoRowsOf

\* The row of a request in use that has e.
RowGoesOn(row, q, e, k) ==
  /\ row.kind # "decode" => e.last = 0 /\ e.computed = row.base
  /\ row.kind = "decode" => e.last > 0 /\ e.last + PPSize <= k /\ e.computed <= row.base /\ q.prefill <= e.computed

LEMMA RowFitsGoesOn ==
  ASSUME NEW B, NEW o \in Nat, NEW c \in Nat, o <= c + 1, \A k \in o .. c : BatchGood(B[k]), NEW r \in Reqs,
         NEW q \in RequestType, NEW e \in DataType, InUseOK(B, o, c, r, q, e),
         NEW row, NEW k \in Nat, RowFits(row, q, k)
  PROVE  RowGoesOn(row, q, e, k)
<1> DEFINE m == AllRejected(B, o, c, r)
<1>1. /\ q.computed = e.computed + m
      /\ e.last = 0 => q.computed < q.prefill /\ \A j \in o .. c : B[j].rejected[r] = 0
      /\ e.last > 0 => q.eligible = e.last + PPSize /\ q.prefill <= e.computed
  BY DEF InUseOK
<1>2. m \in Nat
  BY CountsType
<1>3. e.last = 0 => m = 0
  <2> SUFFICES ASSUME e.last = 0 PROVE m = 0
    OBVIOUS
  <2>1. \A j \in o .. c : B[j].rejected[r] = 0
    BY <1>1
  <2> DEFINE v == Rejected(B, o, c, r)
             n == c - o + 1
  <2>2. m = Total(v, n) /\ n \in Nat /\ \A i \in 1 .. n : o + i - 1 \in o .. c
    BY DEF AllRejected
  <2>3. \A i \in 1 .. n : v[i] = 0
    BY <2>1, <2>2 DEF Rejected
  <2> HIDE DEF v, n
  <2> QED  BY <2>2, <2>3, TotalZero
<1>4. q.computed \in Nat /\ q.prefill \in Nat /\ q.eligible \in Nat /\ e.computed \in Int /\ e.last \in Nat
      /\ PPSize \in Nat
  BY RelayAssumption DEF RequestType, DataType
<1>5. /\ row.kind \in {"chunk", "final", "decode"} /\ row.base = q.computed
      /\ row.kind = "chunk"  => q.computed < q.prefill
      /\ row.kind = "final"  => q.computed < q.prefill
      /\ row.kind = "decode" => q.prefill <= q.computed /\ q.eligible <= k
  BY DEF RowFits
<1> HIDE DEF m
<1>6. CASE row.kind # "decode"
  <2>1. q.computed < q.prefill
    BY <1>5, <1>6
  <2>2. ~(e.last > 0)
    BY <1>1, <1>2, <1>4, <2>1
  <2>3. e.last = 0
    BY <1>4, <2>2
  <2> QED  BY <1>1, <1>3, <1>4, <1>5, <1>6, <2>3 DEF RowGoesOn
<1>7. CASE row.kind = "decode"
  <2>1. e.last > 0
    BY <1>1, <1>4, <1>5, <1>7
  <2> QED  BY <1>1, <1>2, <1>4, <1>5, <1>7, <2>1 DEF RowGoesOn
<1> QED  BY <1>6, <1>7

LEMMA ScheduledOK ==
  ASSUME NEW B, NEW C, NEW o \in Nat, NEW c \in Nat, o <= c + 1, NEW b, Extends(B, C, o, c, b),
         \A k \in o .. c : BatchGood(B[k]), BatchGood(b), NEW r \in Reqs, b.rejected[r] = 0,
         NEW q, RequestOK(B, o, c, r, q), q.status = "running",
         NEW dd \in [Reqs -> DataType], InUseOK(B, o, c, r, q, Begun(b, dd)[r]),
         b.row[r] = NoRow \/ RowFits(b.row[r], q, c + 1)
  PROVE  /\ RequestOK(C, o, c + 1, r, Scheduled(q, b.row[r], c + 1))
         /\ InUseOK(C, o, c + 1, r, Scheduled(q, b.row[r], c + 1), Past(b, c + 1, dd)[r])
<1> DEFINE k == c + 1
           row == b.row[r]
           e == Begun(b, dd)[r]
           d == Past(b, k, dd)[r]
           s == Scheduled(q, row, k)
           m == AllRejected(B, o, c, r)
<1>1. q \in RequestType /\ q.tokens > 0 /\ q.in_flight = AllRows(B, o, c, r)
  BY DEF RequestOK
<1>2. e \in DataType
  BY BegunType
<1>3. row \in RowType /\ RowsGood(b.row)
  BY DEF BatchGood, RowsGood
<1>4. k \in Nat /\ k > 0
  OBVIOUS
<1>5. /\ s \in RequestType /\ s.status = q.status /\ s.prefill = q.prefill /\ s.tokens = q.tokens
      /\ s.computed = q.computed + row.n
      /\ s.in_flight = q.in_flight + (IF row = NoRow THEN 0 ELSE 1)
      /\ row.kind \in {"final", "decode"} => s.eligible = k + PPSize
      /\ row.kind \notin {"final", "decode"} => s.eligible = q.eligible
  <2> HIDE DEF k, row
  <2> QED  BY <1>1, <1>3, <1>4, ScheduledFields
<1>6. row = NoRow <=> r \notin InBatch(b)
  <2>1. NoRow.kind = "none"
    BY DEF NoRow
  <2>2. row # NoRow => row.kind \in {"chunk", "final", "decode"}
    BY DEF RowFits
  <2> QED  BY <2>1, <2>2 DEF InBatch
<1>7. /\ AllRejected(C, o, k, r) = m
      /\ AllRows(C, o, k, r) = AllRows(B, o, c, r) + (IF r \in InBatch(b) THEN 1 ELSE 0)
  BY CountsNext
<1>8. RequestOK(C, o, k, r, s)
  <2>1. s.in_flight = AllRows(C, o, k, r)
    BY <1>1, <1>5, <1>6, <1>7
  <2>2. s.status = "running" /\ s.tokens > 0
    BY <1>1, <1>5
  <2> HIDE DEF s
  <2> QED  BY <1>5, <2>1, <2>2 DEF RequestOK
<1>9. /\ d.computed = e.computed + row.n
      /\ Samples(b, r) => d.last = k
      /\ ~Samples(b, r) => d.last = e.last
  BY PastFacts
<1>10. /\ q.computed = e.computed + m
       /\ e.last = 0 => q.computed < q.prefill /\ \A j \in o .. c : B[j].rejected[r] = 0
       /\ e.last > 0 => q.eligible = e.last + PPSize /\ q.prefill <= e.computed
  BY DEF InUseOK
<1>11. m \in Nat
  BY CountsType
<1>12. q.computed \in Nat /\ q.prefill \in Nat /\ q.eligible \in Nat /\ e.computed \in Int /\ e.last \in Nat
       /\ PPSize \in Nat /\ row.n \in Nat
  BY <1>1, <1>2, <1>3, RelayAssumption DEF RequestType, DataType, RowType
<1>13. Samples(b, r) <=> row.kind \in {"final", "decode"}
  BY DEF Samples
<1>14. row # NoRow => RowFits(row, q, k) /\ RowGoesOn(row, q, e, k)
  <2> SUFFICES ASSUME row # NoRow PROVE RowFits(row, q, k) /\ RowGoesOn(row, q, e, k)
    OBVIOUS
  <2>1. RowFits(row, q, k) /\ InUseOK(B, o, c, r, q, e)
    OBVIOUS
  <2> HIDE DEF row, e, k
  <2> QED  BY <1>1, <1>2, <1>4, <2>1, RowFitsGoesOn
<1>15. \A j \in o .. k : C[j].rejected[r] = 0 <=> (j \in o .. c => B[j].rejected[r] = 0)
  <2>1. \A j \in o .. k : j \in o .. c \/ j = k
    OBVIOUS
  <2>2. k \notin o .. c
    OBVIOUS
  <2>3. C[k].rejected[r] = 0 /\ \A j \in o .. c : C[j] = B[j]
    BY DEF Extends
  <2> HIDE DEF k
  <2> QED  BY <2>1, <2>2, <2>3
<1>16. InUseOK(C, o, k, r, s, d)
  <2> HIDE DEF s, d, e, row, m, k
  <2>1. s.computed = d.computed + AllRejected(C, o, k, r)
    BY <1>5, <1>7, <1>9, <1>10, <1>11, <1>12
  <2>2. CASE row = NoRow
    <3>1. ~Samples(b, r) /\ row.n = 0 /\ row.kind \notin {"final", "decode"}
      BY <1>13, <2>2 DEF NoRow
    <3>2. d.last = e.last /\ d.computed = e.computed /\ s.computed = q.computed /\ s.prefill = q.prefill
          /\ s.eligible = q.eligible
      BY <1>5, <1>9, <1>12, <3>1
    <3> QED  BY <1>10, <1>15, <2>1, <3>2 DEF InUseOK
  <2>3. CASE row.kind = "chunk"
    <3>0. row # NoRow
      BY <2>3 DEF NoRow
    <3>1. e.last = 0 /\ e.computed = row.base /\ q.computed + row.n < q.prefill
      BY <1>14, <2>3, <3>0 DEF RowFits, RowGoesOn
    <3>2. d.last = 0
      BY <1>9, <1>13, <2>3, <3>1
    <3> QED  BY <1>5, <1>10, <1>15, <2>1, <3>1, <3>2 DEF InUseOK
  <2>4. CASE row.kind = "final"
    <3>0. row # NoRow
      BY <2>4 DEF NoRow
    <3>1. e.computed = row.base /\ row.base = q.computed /\ q.computed + row.n = q.prefill
      BY <1>14, <2>4, <3>0 DEF RowFits, RowGoesOn
    <3>2. d.last = k /\ s.eligible = k + PPSize
      BY <1>5, <1>9, <1>13, <2>4
    <3>3. s.prefill <= d.computed
      BY <1>5, <1>9, <1>12, <3>1
    <3> QED  BY <1>4, <2>1, <3>2, <3>3 DEF InUseOK
  <2>5. CASE row.kind = "decode"
    <3>0. row # NoRow
      BY <2>5 DEF NoRow
    <3>1. q.prefill <= e.computed
      BY <1>14, <2>5, <3>0 DEF RowGoesOn
    <3>2. d.last = k /\ s.eligible = k + PPSize
      BY <1>5, <1>9, <1>13, <2>5
    <3>3. s.prefill <= d.computed
      BY <1>5, <1>9, <1>12, <3>1
    <3> QED  BY <1>4, <2>1, <3>2, <3>3 DEF InUseOK
  <2> QED  BY <1>14, <2>2, <2>3, <2>4, <2>5 DEF RowFits
<1> QED  BY <1>8, <1>16

\* A request that is not in use.
LEMMA IdleOK ==
  ASSUME NEW B, NEW C, NEW o \in Nat, NEW c \in Nat, o <= c + 1, NEW b, Extends(B, C, o, c, b),
         \A k \in o .. c : BatchGood(B[k]), NEW r \in Reqs, b.rejected[r] = 0,
         NEW q, RequestOK(B, o, c, r, q), b.row[r] = NoRow
  PROVE  Scheduled(q, b.row[r], c + 1) = q /\ RequestOK(C, o, c + 1, r, q)
<1>1. q \in RequestType
  BY DEF RequestOK
<1>2. NoRow.n = 0 /\ NoRow.kind = "none"
  BY DEF NoRow
<1>3. Scheduled(q, NoRow, c + 1) = q
  <2> DEFINE s == Scheduled(q, NoRow, c + 1)
  <2>1. NoRow \in RowType /\ c + 1 \in Nat
    BY DEF NoRow, RowType
  <2>2. /\ s \in RequestType /\ s.status = q.status /\ s.prefill = q.prefill /\ s.tokens = q.tokens
        /\ s.computed = q.computed + 0 /\ s.in_flight = q.in_flight + 0 /\ s.eligible = q.eligible
    BY <1>1, <1>2, <2>1, ScheduledFields
  <2> HIDE DEF s
  <2>3. q.computed \in Nat /\ q.in_flight \in Nat
    BY <1>1 DEF RequestType
  <2>4. s.computed = q.computed /\ s.in_flight = q.in_flight
    BY <2>2, <2>3
  <2>5. \A x \in {"status", "tokens", "prefill", "computed", "in_flight", "eligible"} : s[x] = q[x]
    BY <2>2, <2>4
  <2>6. s = q
    BY <1>1, <2>2, <2>5 DEF RequestType
  <2> QED  BY <2>6 DEF s
<1>4. r \notin InBatch(b)
  BY <1>2 DEF InBatch
<1>5. AllRows(C, o, c + 1, r) = AllRows(B, o, c, r) + 0 /\ AllRows(B, o, c, r) \in Nat
  <2>1. AllRows(B, o, c, r) \in Nat
    BY CountsType
  <2>2. /\ AllRejected(C, o, c + 1, r) = AllRejected(B, o, c, r)
        /\ AllRows(C, o, c + 1, r) = AllRows(B, o, c, r) + (IF r \in InBatch(b) THEN 1 ELSE 0)
    BY CountsNext
  <2> QED  BY <1>4, <2>1, <2>2
<1> QED  BY <1>3, <1>5 DEF RequestOK

NowOf(Q, new) == [r \in Reqs |-> IF r \in new THEN Admitted(Q[r]) ELSE Q[r]]

\* What schedule takes into a step with batch b.
Plan(Q, F, b, k) ==
  /\ b.new \subseteq Reqs /\ \A r \in b.new : Q[r].status = "waiting" /\ Q[r].in_flight = 0
  /\ Cardinality(Active(Q) \cup b.new) <= MaxSlots
  /\ DOMAIN b = {"row", "new", "freed", "view", "rejected"} /\ b.row \in [Reqs -> RowType]
  /\ b.freed = F /\ b.view = [p \in Ranks |-> <<>>] /\ b.rejected = [r \in Reqs |-> 0]
  /\ \A r \in Reqs : \/ RowFits(b.row[r], NowOf(Q, b.new)[r], k) /\ r \in Active(Q) \cup b.new
                     \/ b.row[r] = NoRow

LEMMA PlanBatch ==
  ASSUME NEW Q, NEW F \in SUBSET Reqs, NEW b, NEW k, Plan(Q, F, b, k)
  PROVE  BatchGood(b) /\ Executed(b) = {}
<1>1. NoRow.kind = "none" /\ NoRow.n = 0
  BY DEF NoRow
<1>2. ASSUME NEW r \in Reqs
      PROVE  /\ b.row[r].kind = "decode" => b.row[r].n = 1 + NumSpec
             /\ b.row[r].kind = "none" => b.row[r].n = 0
  <2>1. CASE b.row[r] = NoRow
    BY <1>1, <2>1
  <2>2. CASE RowFits(b.row[r], NowOf(Q, b.new)[r], k)
    BY <2>2 DEF RowFits
  <2> QED  BY <2>1, <2>2 DEF Plan
<1>3. RowsGood(b.row)
  BY <1>2 DEF RowsGood, Plan
<1>4. NumSpec \in Nat /\ 0 \in 0 .. NumSpec
  BY RelayAssumption
<1>5. b.rejected \in [Reqs -> 0 .. NumSpec] /\ \A r \in Reqs : b.rejected[r] = 0
  <2>1. b.rejected = [r \in Reqs |-> 0]
    BY DEF Plan
  <2> QED  BY <1>4, <2>1
<1>6. DOMAIN b.view = Ranks /\ \A p \in Ranks : b.view[p] = <<>>
  BY DEF Plan
<1> QED  BY <1>3, <1>5, <1>6 DEF BatchGood, Executed, Plan

\* The requests that schedule takes in have slots, and their rows go on from what they have.
LEMMA PlanFits ==
  ASSUME NEW B, NEW D, NEW L, NEW S, NEW Q, NEW F, NEW o \in Nat, NEW c \in Nat, o <= c + 1, NEW b,
         \A k \in o .. c : BatchGood(B[k]), D[c + 1] \in [Reqs -> DataType], LayoutGood(L[c + 1]),
         RequestsOK(D, L, B, S, Q, F, o, c), Plan(Q, F, b, c + 1)
  PROVE  /\ Fits(L[c + 1], b)
         /\ Holders(Laid(L[c + 1], b)) = Active(Q) \cup b.new
         /\ RowGood(b, c + 1, D[c + 1], Laid(L[c + 1], b))
<1> DEFINE l == L[c + 1]
           d == D[c + 1]
           k == c + 1
           N == NowOf(Q, b.new)
<1>1. /\ F \subseteq Reqs /\ Active(Q) \cap F = {} /\ Active(Q) \subseteq Holders(l)
      /\ Holders(l) \subseteq Active(Q) \cup F
      /\ \A r \in Reqs : RequestOK(B, o, c, r, Q[r])
      /\ \A r \in Active(Q) : InUseOK(B, o, c, r, Q[r], d[r])
  BY DEF RequestsOK
<1>2. /\ b.new \subseteq Reqs /\ \A r \in b.new : Q[r].status = "waiting" /\ Q[r].in_flight = 0
      /\ Cardinality(Active(Q) \cup b.new) <= MaxSlots /\ b.freed = F
  BY DEF Plan
<1>3. Holders(l) \ b.freed = Active(Q) /\ Active(Q) \cap b.new = {}
  <2>1. Active(Q) \cap b.new = {}
    BY <1>2 DEF Active
  <2> HIDE DEF l
  <2> QED  BY <1>1, <1>2, <2>1
<1>4. Fits(l, b)
  BY <1>2, <1>3 DEF Fits
<1> HIDE DEF l, d
<1>5. Holders(Laid(l, b)) = Active(Q) \cup b.new
  <2>1. b.new \in SUBSET Reqs /\ b.freed \in SUBSET Reqs /\ LayoutGood(l)
    BY <1>1, <1>2 DEF l
  <2>2. Holders(Laid(l, b)) = (Holders(l) \ b.freed) \cup b.new
    BY <1>4, <2>1, LaidFacts
  <2> QED  BY <1>3, <2>2
<1>6. d \in [Reqs -> DataType]
  BY DEF d
<1>7. ASSUME NEW r \in InBatch(b)
      PROVE  /\ r \in Active(Q) \cup b.new /\ r \in Reqs
             /\ RowFits(b.row[r], N[r], k)
             /\ InUseOK(B, o, c, r, N[r], Begun(b, d)[r]) /\ N[r] \in RequestType
  <2>1. r \in Reqs /\ b.row[r] # NoRow
    BY DEF InBatch, NoRow
  <2>2. r \in Active(Q) \cup b.new /\ RowFits(b.row[r], N[r], k)
    BY <2>1 DEF Plan
  <2>3. CASE r \in b.new
    <3>1. N[r] = Admitted(Q[r]) /\ Begun(b, d)[r] = NoData
      BY <2>1, <2>3 DEF NowOf, Begun
    <3>2. RequestOK(B, o, c, r, Q[r]) /\ Q[r].status = "waiting" /\ Q[r].in_flight = 0
      BY <1>1, <1>2, <2>1, <2>3
    <3> DEFINE q == Q[r]
    <3> HIDE DEF q
    <3>3. RequestOK(B, o, c, r, Admitted(q)) /\ InUseOK(B, o, c, r, Admitted(q), NoData)
      <4>1. RequestOK(B, o, c, r, q) /\ q.status = "waiting" /\ q.in_flight = 0
        BY <3>2 DEF q
      <4> QED  BY <2>1, <4>1, AdmittedOK
    <3> QED  BY <2>1, <2>2, <3>1, <3>3 DEF q, RequestOK
  <2>4. CASE r \notin b.new
    <3>1. N[r] = Q[r] /\ Begun(b, d)[r] = d[r]
      BY <2>1, <2>4 DEF NowOf, Begun
    <3>2. r \in Active(Q)
      BY <2>2, <2>4
    <3>3. InUseOK(B, o, c, r, Q[r], d[r]) /\ Q[r] \in RequestType
      BY <1>1, <2>1, <3>2 DEF RequestOK
    <3> QED  BY <2>1, <2>2, <3>1, <3>3
  <2> QED  BY <2>3, <2>4
<1>8. RowGood(b, k, d, Laid(l, b))
  <2> SUFFICES ASSUME NEW r \in InBatch(b)
               PROVE  /\ Has(Laid(l, b), r)
                      /\ b.row[r].kind # "decode" => Begun(b, d)[r].last = 0 /\ Begun(b, d)[r].computed = b.row[r].base
                      /\ b.row[r].kind = "decode" => /\ Begun(b, d)[r].last > 0 /\ Begun(b, d)[r].last + PPSize <= k
                                                     /\ Begun(b, d)[r].computed <= b.row[r].base
    BY Zenon DEF RowGood
  <2>1. Has(Laid(l, b), r)
    BY <1>5, <1>7 DEF Holders
  <2> DEFINE e == Begun(b, d)[r]
             q == N[r]
             row == b.row[r]
  <2>2. e \in DataType
    BY <1>6, <1>7, BegunType
  <2>3. RowFits(row, q, k) /\ InUseOK(B, o, c, r, q, e) /\ q \in RequestType /\ k \in Nat
    BY <1>7
  <2> HIDE DEF e, q, row, N, k
  <2>4. RowGoesOn(row, q, e, k)
    BY <1>7, <2>2, <2>3, RowFitsGoesOn
  <2> QED  BY <2>1, <2>4 DEF RowGoesOn, e, row
<1> QED  BY <1>4, <1>5, <1>8 DEF l, d

LEMMA RequestsNext ==
  ASSUME NEW B, NEW C, NEW D, NEW L, NEW E, NEW M, NEW S, NEW Q, NEW P, NEW F, NEW b,
         NEW o, NEW a, NEW c, Window(o, a, ReachedOf(S[Last]), c), a = S[Last].next,
         \A k \in o .. c : BatchGood(B[k]), D[c + 1] \in [Reqs -> DataType], LayoutGood(L[c + 1]),
         RequestsOK(D, L, B, S, Q, F, o, c), Plan(Q, F, b, c + 1), Extends(B, C, o, c, b),
         Further(D, E, c, Past(b, c + 1, D[c + 1])), M[c + 2] = Laid(L[c + 1], b),
         P = [r \in Reqs |-> Scheduled(NowOf(Q, b.new)[r], b.row[r], c + 1)]
  PROVE  RequestsOK(E, M, C, S, P, {}, o, c + 1)
<1> DEFINE f == ReachedOf(S[Last])
           d == D[c + 1]
           N == NowOf(Q, b.new)
<1>0. o \in Nat /\ a \in Nat /\ f \in Nat /\ c \in Nat /\ o <= a /\ a <= f /\ f <= c + 1 /\ o <= c + 1
  BY DEF Window
<1>1. /\ F \subseteq Reqs /\ Active(Q) \cap F = {}
      /\ \A r \in Reqs : RequestOK(B, o, c, r, Q[r])
      /\ \A r \in Active(Q) : InUseOK(B, o, c, r, Q[r], d[r])
      /\ \A r \in Active(Q) : Floor(D, B, S, c, r, Q[r].prefill)
  BY DEF RequestsOK
<1>2. /\ b.new \subseteq Reqs /\ \A r \in b.new : Q[r].status = "waiting" /\ Q[r].in_flight = 0
      /\ b.rejected = [r \in Reqs |-> 0]
      /\ \A r \in Reqs : \/ RowFits(b.row[r], N[r], c + 1) /\ r \in Active(Q) \cup b.new
                         \/ b.row[r] = NoRow
  BY DEF Plan
<1>3. BatchGood(b)
  BY <1>1, PlanBatch
<1>4. Holders(M[c + 2]) = Active(Q) \cup b.new
  <2> DEFINE g == Laid(L[c + 1], b)
  <2>1. Holders(g) = Active(Q) \cup b.new
    <3> HIDE DEF g, f, d, N
    <3>1. o \in Nat /\ c \in Nat /\ o <= c + 1
      BY <1>0
    <3>2. Holders(Laid(L[c + 1], b)) = Active(Q) \cup b.new
      BY <3>1, PlanFits
    <3> QED  BY <3>2 DEF g
  <2>2. M[c + 2] = g
    OBVIOUS
  <2> HIDE DEF g
  <2> QED  BY <2>1, <2>2
<1>5. E[c + 2] = Past(b, c + 1, d) /\ \A k \in Nat \ {c + 2} : E[k] = D[k]
  <2> DEFINE z == Past(b, c + 1, d)
  <2>1. E = [k \in Nat |-> IF k = c + 2 THEN z ELSE D[k]] /\ c + 2 \in Nat
    BY <1>0 DEF Further
  <2> HIDE DEF z
  <2>2. E[c + 2] = z
    BY <2>1
  <2>3. \A k \in Nat \ {c + 2} : E[k] = D[k]
    BY <2>1
  <2> QED  BY <2>2, <2>3 DEF z
<1>6. DOMAIN P = Reqs /\ \A r \in Reqs : P[r] = Scheduled(N[r], b.row[r], c + 1)
  OBVIOUS
<1> HIDE DEF f, N
<1>7. \A r \in Reqs : N[r] = IF r \in b.new THEN Admitted(Q[r]) ELSE Q[r]
  BY DEF N, NowOf
<1>8. \A r \in b.new : r \notin Active(Q)
  BY <1>2 DEF Active
\* Those in use.
<1>9. ASSUME NEW r \in Reqs, r \in Active(Q) \cup b.new
      PROVE  /\ RequestOK(B, o, c, r, N[r]) /\ N[r].status = "running"
             /\ InUseOK(B, o, c, r, N[r], Begun(b, d)[r])
             /\ \A k \in o .. c : B[k].row[r].kind = "decode" => r \in Active(Q)
             /\ r \in Active(Q) => N[r] = Q[r]
  <2>1. CASE r \in b.new
    <3>1. N[r] = Admitted(Q[r]) /\ Begun(b, d)[r] = NoData
      BY <1>7, <2>1 DEF Begun
    <3> DEFINE q == Q[r]
    <3>2. RequestOK(B, o, c, r, q) /\ q.status = "waiting" /\ q.in_flight = 0
      BY <1>1, <1>2, <2>1
    <3> HIDE DEF q
    <3>3. /\ RequestOK(B, o, c, r, Admitted(q)) /\ Admitted(q).status = "running"
          /\ InUseOK(B, o, c, r, Admitted(q), NoData) /\ NoRowsOf(B, o, c, r)
      <4> HIDE DEF d
      <4> QED  BY <1>0, <3>2, AdmittedOK
    <3> QED  BY <1>8, <2>1, <3>1, <3>3 DEF q, NoRowsOf
  <2>2. CASE r \notin b.new
    <3>1. N[r] = Q[r] /\ Begun(b, d)[r] = d[r] /\ r \in Active(Q)
      BY <1>7, <1>9, <2>2 DEF Begun
    <3> QED  BY <1>1, <3>1 DEF Active
  <2> QED  BY <2>1, <2>2
<1>10. ASSUME NEW r \in Reqs, r \in Active(Q) \cup b.new
       PROVE  /\ RequestOK(C, o, c + 1, r, P[r]) /\ InUseOK(C, o, c + 1, r, P[r], E[c + 2][r])
              /\ P[r].status = "running" /\ P[r].prefill = N[r].prefill
  <2> DEFINE q == N[r]
  <2>1. /\ RequestOK(B, o, c, r, q) /\ q.status = "running" /\ InUseOK(B, o, c, r, q, Begun(b, d)[r])
        /\ (b.row[r] = NoRow \/ RowFits(b.row[r], q, c + 1)) /\ b.rejected[r] = 0
    BY <1>2, <1>9, <1>10
  <2>2. P[r] = Scheduled(q, b.row[r], c + 1) /\ E[c + 2][r] = Past(b, c + 1, d)[r]
    BY <1>5, <1>6
  <2>3. d \in [Reqs -> DataType]
    OBVIOUS
  <2> HIDE DEF q, d
  <2>4. /\ RequestOK(C, o, c + 1, r, Scheduled(q, b.row[r], c + 1))
        /\ InUseOK(C, o, c + 1, r, Scheduled(q, b.row[r], c + 1), Past(b, c + 1, d)[r])
    BY <1>0, <1>3, <2>1, <2>3, ScheduledOK
  <2>5. q \in RequestType /\ b.row[r] \in RowType /\ c + 1 \in Nat
    BY <1>0, <1>3, <2>1 DEF RequestOK, BatchGood, RowsGood
  <2>6. Scheduled(q, b.row[r], c + 1).status = q.status /\ Scheduled(q, b.row[r], c + 1).prefill = q.prefill
    BY <2>5, ScheduledFields
  <2> QED  BY <2>1, <2>2, <2>4, <2>6 DEF q
\* The others.
<1>11. ASSUME NEW r \in Reqs, r \notin Active(Q) \cup b.new
       PROVE  RequestOK(C, o, c + 1, r, P[r]) /\ P[r].status # "running"
  <2> DEFINE q == Q[r]
  <2>1. /\ RequestOK(B, o, c, r, q) /\ N[r] = q /\ b.row[r] = NoRow /\ b.rejected[r] = 0
        /\ q.status # "running"
    BY <1>1, <1>2, <1>7, <1>11 DEF Active
  <2> HIDE DEF q
  <2>2. Scheduled(q, b.row[r], c + 1) = q /\ RequestOK(C, o, c + 1, r, q)
    BY <1>0, <2>1, IdleOK
  <2> QED  BY <1>6, <2>1, <2>2
<1>12. Active(P) = Active(Q) \cup b.new
  <2>1. \A r \in Active(Q) \cup b.new : r \in Reqs
    BY <1>2 DEF Active
  <2> QED  BY <1>10, <1>11, <2>1 DEF Active
<1>13. \A r \in Reqs : RequestOK(C, o, c + 1, r, P[r])
  BY <1>10, <1>11
<1>14. ASSUME NEW r \in Active(P) PROVE Floor(E, C, S, c + 1, r, P[r].prefill)
  <2> DEFINE n == P[r].prefill
  <2>1. r \in Reqs /\ r \in Active(Q) \cup b.new /\ n = N[r].prefill
    BY <1>10, <1>12, <1>14 DEF Active
  <2>2. r \in Active(Q) => Floor(D, B, S, c, r, n)
    BY <1>1, <1>9, <2>1
  <2> HIDE DEF n
  <2>3. ASSUME NEW k \in f .. c + 1, C[k].row[r].kind = "decode" PROVE n <= E[k][r].computed
    <3>0. k \in Nat /\ k # c + 2
      BY <1>0, <2>3
    <3>1. CASE k = c + 1
      <4>1. C[k] = b /\ E[k] = d
        BY <1>5, <3>0, <3>1 DEF Extends
      <4>2. b.row[r].kind = "decode"
        BY <2>3, <4>1
      <4>3. RowFits(b.row[r], N[r], c + 1)
        BY <1>2, <2>1, <4>2 DEF NoRow
      <4> DEFINE row == b.row[r]
                 q == N[r]
                 e == Begun(b, d)[r]
      <4>4. q \in RequestType /\ InUseOK(B, o, c, r, q, e) /\ e \in DataType /\ c + 1 \in Nat
        BY <1>0, <1>9, <2>1, BegunType DEF RequestOK
      <4>5. RowFits(row, q, c + 1) /\ row.kind = "decode"
        BY <4>2, <4>3
      <4>6. n = q.prefill
        BY <2>1
      <4> HIDE DEF row, q, e, d
      <4>7. RowGoesOn(row, q, e, c + 1)
        BY <1>0, <2>1, <4>4, <4>5, RowFitsGoesOn
      <4>8. n <= e.computed /\ e.last > 0
        BY <4>5, <4>6, <4>7 DEF RowGoesOn
      <4>9. e = d[r]
        BY <2>1, <4>8 DEF e, Begun, NoData
      <4> QED  BY <4>1, <4>8, <4>9
    <3>2. CASE k # c + 1
      <4>1. k \in f .. c /\ k \in o .. c /\ E[k] = D[k]
        BY <1>0, <1>5, <2>3, <3>0, <3>2
      <4>2. C[k] = B[k]
        BY <4>1 DEF Extends
      <4>3. r \in Active(Q)
        BY <1>9, <2>1, <2>3, <4>1, <4>2
      <4>4. Floor(D, B, S, c, r, n)
        BY <2>2, <4>3
      <4> QED  BY <2>3, <4>1, <4>2, <4>4 DEF Floor, f
    <3> QED  BY <3>1, <3>2
  <2>4. ASSUME S[Last].phase = "sample", C[S[Last].next].row[r].kind = "decode"
        PROVE  n + 1 + NumSpec <= E[ReachedOf(S[Last])][r].computed
    <3>1. f = a + 1
      BY <2>4 DEF ReachedOf, f
    <3>2. a \in o .. c /\ E[f] = D[f]
      BY <1>0, <1>5, <3>1
    <3>3. C[a] = B[a]
      BY <3>2 DEF Extends
    <3>4. r \in Active(Q)
      BY <1>9, <2>1, <2>4, <3>2, <3>3
    <3>5. Floor(D, B, S, c, r, n)
      BY <2>2, <3>4
    <3> QED  BY <2>4, <3>2, <3>3, <3>5 DEF Floor, f
  <2> QED  BY <2>3, <2>4 DEF Floor, n, f
<1>15. \A r \in Active(P) : InUseOK(C, o, c + 1, r, P[r], E[c + 1 + 1][r])
  <2>1. c + 1 + 1 = c + 2
    BY <1>0
  <2> QED  BY <1>10, <1>12, <2>1 DEF Active
<1>16. Active(P) \subseteq Holders(M[c + 1 + 1]) /\ Holders(M[c + 1 + 1]) \subseteq Active(P) \cup {}
  <2>1. c + 1 + 1 = c + 2
    BY <1>0
  <2> QED  BY <1>4, <1>12, <2>1
<1> QED  BY <1>6, <1>13, <1>14, <1>15, <1>16 DEF RequestsOK

LEMMA ChainedNext ==
  ASSUME NEW B, NEW C, NEW D, NEW L, NEW E, NEW M, NEW b, NEW o, NEW a, NEW f, NEW c, Window(o, a, f, c),
         Chained(D, L, B, f, c), Extends(B, C, o, c, b), BatchGood(b), Fits(L[c + 1], b),
         Further(D, E, c, Past(b, c + 1, D[c + 1])), Further(L, M, c, Laid(L[c + 1], b))
  PROVE  Chained(E, M, C, f, c + 1)
<1>0. o \in Nat /\ a \in Nat /\ f \in Nat /\ c \in Nat /\ o <= a /\ a <= f /\ f <= c + 1
  BY DEF Window
<1> DEFINE z == Past(b, c + 1, D[c + 1])
           y == Laid(L[c + 1], b)
<1>1. /\ D \in [Nat -> [Reqs -> DataType]] /\ L \in [Nat -> LayoutType]
      /\ \A k \in f .. c : D[k + 1] = Past(B[k], k, D[k])
      /\ \A k \in f .. c : L[k + 1] = Laid(L[k], B[k]) /\ Fits(L[k], B[k])
      /\ \A k \in f .. c + 1 : LayoutGood(L[k])
  BY DEF Chained
<1>2. b.new \in SUBSET Reqs /\ b.freed \in SUBSET Reqs /\ RowsGood(b.row)
  BY DEF BatchGood
<1>3. LayoutGood(L[c + 1]) /\ D[c + 1] \in [Reqs -> DataType] /\ c + 1 \in Nat
  BY <1>0, <1>1
<1>4. LayoutGood(y) /\ y \in LayoutType
  BY <1>2, <1>3, LaidFacts
<1>5. z \in [Reqs -> DataType]
  BY <1>2, <1>3, PastType
<1> HIDE DEF z, y
<1>6. /\ E = [k \in Nat |-> IF k = c + 2 THEN z ELSE D[k]]
      /\ M = [k \in Nat |-> IF k = c + 2 THEN y ELSE L[k]]
  BY DEF Further, z, y
<1>7. c + 2 \in Nat
  BY <1>0
<1>8. E \in [Nat -> [Reqs -> DataType]] /\ M \in [Nat -> LayoutType]
  BY <1>1, <1>4, <1>5, <1>6
<1>9. /\ \A k \in f .. c + 1 : k \in Nat /\ E[k] = D[k] /\ M[k] = L[k]
      /\ E[c + 2] = z /\ M[c + 2] = y
  <2>1. \A k \in f .. c + 1 : k \in Nat /\ k # c + 2
    BY <1>0
  <2> QED  BY <1>6, <1>7, <2>1
<1>10. ASSUME NEW k \in f .. c + 1
       PROVE  /\ E[k + 1] = Past(C[k], k, E[k]) /\ M[k + 1] = Laid(M[k], C[k]) /\ Fits(M[k], C[k])
              /\ LayoutGood(M[k])
  <2>1. CASE k = c + 1
    <3>1. C[k] = b /\ k + 1 = c + 2
      BY <1>0, <2>1 DEF Extends
    <3> QED  BY <1>1, <1>9, <2>1, <3>1 DEF z, y
  <2>2. CASE k # c + 1
    <3>1. k \in f .. c /\ k \in o .. c /\ k + 1 \in f .. c + 1
      BY <1>0, <2>2
    <3>2. C[k] = B[k]
      BY <3>1 DEF Extends
    <3> QED  BY <1>1, <1>9, <3>1, <3>2
  <2> QED  BY <2>1, <2>2
<1>11. \A k \in f .. c + 1 + 1 : LayoutGood(M[k])
  <2>1. \A k \in f .. c + 1 + 1 : k \in f .. c + 1 \/ k = c + 2
    BY <1>0
  <2> QED  BY <1>4, <1>9, <1>10, <2>1
<1> QED  BY <1>8, <1>10, <1>11 DEF Chained

LEMMA SaysNext ==
  ASSUME NEW B, NEW C, NEW a \in Nat, NEW c \in Nat, NEW o \in Nat, o <= a, a <= c + 1, a > 0,
         NEW b, Extends(B, C, o, c, b), NEW d \in [Reqs -> DataType],
         \A j \in o .. c : InBatch(B[j]) \cap b.new = {}, LastSays(B, a, c + 1, d)
  PROVE  LastSays(C, a, c + 2, Past(b, c + 1, d))
<1> DEFINE k == c + 1
           z == Past(b, k, d)
<1>1. /\ \A r \in Reqs : /\ d[r].last < k
                        /\ d[r].last >= a => /\ Samples(B[d[r].last], r)
                                             /\ d[r].drafts = Proposal(B[d[r].last], d[r].last)
      /\ \A j \in a .. c : \A r \in Reqs : Samples(B[j], r) => d[r].last >= j
  <2>1. k - 1 = c
    OBVIOUS
  <2> QED  BY <2>1 DEF LastSays
<1>1a. \A r \in Reqs : d[r].last < k
  BY DEF LastSays
<1>2. \A r \in Reqs : d[r].last \in Nat
  BY DEF DataType
<1>3. C[k] = b /\ \A j \in o .. c : C[j] = B[j]
  BY DEF Extends
<1>4. ASSUME NEW r \in Reqs
      PROVE  /\ Samples(b, r) => z[r].last = k /\ z[r].drafts = Proposal(b, k)
             /\ ~Samples(b, r) /\ r \in b.new => z[r].last = 0
             /\ ~Samples(b, r) /\ r \notin b.new => z[r].last = d[r].last /\ z[r].drafts = d[r].drafts
  <2>1. /\ Samples(b, r) => z[r].last = k /\ z[r].drafts = Proposal(b, k)
        /\ ~Samples(b, r) => /\ z[r].last = Begun(b, d)[r].last /\ z[r].drafts = Begun(b, d)[r].drafts
    BY PastFacts
  <2>2. Begun(b, d)[r] = IF r \in b.new THEN NoData ELSE d[r]
    BY DEF Begun
  <2> QED  BY <2>1, <2>2 DEF NoData
<1> HIDE DEF z
<1>5. ASSUME NEW r \in Reqs
      PROVE  /\ z[r].last < c + 2
             /\ z[r].last >= a => Samples(C[z[r].last], r) /\ z[r].drafts = Proposal(C[z[r].last], z[r].last)
  <2>1. CASE Samples(b, r)
    <3>1. z[r].last = k /\ z[r].drafts = Proposal(b, k)
      BY <1>4, <2>1
    <3> QED  BY <1>3, <2>1, <3>1
  <2>2. CASE ~Samples(b, r) /\ r \in b.new
    BY <1>4, <2>2
  <2>3. CASE ~Samples(b, r) /\ r \notin b.new
    <3>1. z[r].last = d[r].last /\ z[r].drafts = d[r].drafts /\ d[r].last < k /\ d[r].last \in Nat
      <4>1. z[r].last = d[r].last /\ z[r].drafts = d[r].drafts
        BY <1>4, <2>3
      <4>2. d[r].last \in Nat
        BY <1>2
      <4>3. d[r].last < k
        BY <1>1a
      <4> QED  BY <4>1, <4>2, <4>3
    <3>2. d[r].last >= a => C[d[r].last] = B[d[r].last]
      BY <1>3, <3>1
    <3> QED  BY <1>1, <3>1, <3>2
  <2> QED  BY <2>1, <2>2, <2>3
<1>6. ASSUME NEW j \in a .. c + 1, NEW r \in Reqs, Samples(C[j], r) PROVE z[r].last >= j
  <2>1. CASE Samples(b, r)
    BY <1>4, <2>1
  <2>2. CASE ~Samples(b, r)
    <3>1. j # k
      BY <1>3, <1>6, <2>2
    <3>2. j \in a .. c /\ j \in o .. c
      BY <3>1
    <3>3. Samples(B[j], r)
      BY <1>3, <1>6, <3>2
    <3>4. r \in InBatch(B[j])
      BY <3>3 DEF Samples, InBatch
    <3>5. r \notin b.new
      BY <3>2, <3>4
    <3> QED  BY <1>1, <1>4, <2>2, <3>2, <3>3, <3>5
  <2> QED  BY <2>1, <2>2
<1>7. c + 2 - 1 = c + 1
  OBVIOUS
<1> QED  BY <1>5, <1>6, <1>7 DEF LastSays, z

LEMMA GrowsNext ==
  ASSUME NEW B, NEW C, NEW D, NEW E, NEW b, NEW o \in Nat, NEW f \in Nat, NEW c \in Nat, o <= f, f <= c + 1,
         D \in [Nat -> [Reqs -> DataType]], Extends(B, C, o, c, b), RowsGood(b.row),
         Further(D, E, c, Past(b, c + 1, D[c + 1])), Grows(D, B, f, c)
  PROVE  Grows(E, C, f, c + 1)
<1> DEFINE z == Past(b, c + 1, D[c + 1])
<1>1. E = [k \in Nat |-> IF k = c + 2 THEN z ELSE D[k]] /\ c + 2 \in Nat /\ c + 1 \in Nat
  BY DEF Further
<1>2. D[c + 1] \in [Reqs -> DataType]
  BY <1>1
<1>3. z \in [Reqs -> DataType]
  BY <1>1, <1>2, PastType
<1>4. ASSUME NEW r \in Reqs, r \notin b.new PROVE D[c + 1][r].computed <= z[r].computed
  <2> DEFINE d == D[c + 1]
  <2>1. z[r].computed = Begun(b, d)[r].computed + b.row[r].n
    BY PastFacts
  <2>2. Begun(b, d)[r] = d[r]
    BY <1>4 DEF Begun
  <2>3. d[r].computed \in Int /\ b.row[r].n \in Nat
    BY <1>2, RowFacts DEF DataType
  <2> HIDE DEF z, d
  <2> QED  BY <2>1, <2>2, <2>3 DEF d
<1> HIDE DEF z
<1>5. /\ E[c + 2] = z /\ \A k \in Nat : k # c + 2 => E[k] = D[k]
  BY <1>1
<1>6. C[c + 1] = b /\ \A k \in o .. c : C[k] = B[k]
  BY DEF Extends
<1>7. \A k \in Nat, r \in Reqs : D[k][r].computed \in Int /\ z[r].computed \in Int
  BY <1>3 DEF DataType
<1> SUFFICES ASSUME NEW j \in f .. c + 2, NEW k \in f .. c + 2, NEW r \in Reqs, j <= k,
                    \A i \in j .. k - 1 : r \notin C[i].new
             PROVE  E[j][r].computed <= E[k][r].computed
  <2>1. c + 1 + 1 = c + 2
    OBVIOUS
  <2> QED  BY <2>1, Zenon DEF Grows
<1>9. j \in Nat /\ k \in Nat
  OBVIOUS
<1>10. ASSUME NEW m \in f .. c + 1, j <= m, m <= k PROVE D[j][r].computed <= D[m][r].computed
  <2>1. j \in f .. c + 1
    BY <1>10
  <2>2. \A i \in j .. m - 1 : i \in o .. c /\ i \in j .. k - 1
    BY <1>9, <1>10
  <2>3. \A i \in j .. m - 1 : r \notin B[i].new
    BY <1>6, <2>2
  <2> QED  BY <1>10, <2>1, <2>3 DEF Grows
<1>11. CASE k # c + 2
  <2>1. k \in f .. c + 1 /\ k <= k /\ j # c + 2
    BY <1>9, <1>11
  <2>2. D[j][r].computed <= D[k][r].computed
    BY <1>10, <2>1
  <2> QED  BY <1>5, <1>9, <1>11, <2>1, <2>2
<1>12. CASE k = c + 2 /\ j # c + 2
  <2>1. c + 1 \in f .. c + 1 /\ j <= c + 1 /\ c + 1 <= k /\ c + 1 \in j .. k - 1
    BY <1>9, <1>12
  <2>2. D[j][r].computed <= D[c + 1][r].computed
    BY <1>10, <2>1
  <2>3. r \notin b.new
    BY <1>6, <2>1
  <2>4. D[c + 1][r].computed <= z[r].computed
    BY <1>4, <2>3
  <2>5. D[j][r].computed \in Int /\ D[c + 1][r].computed \in Int /\ z[r].computed \in Int
    BY <1>1, <1>7, <1>9
  <2>6. D[j][r].computed <= z[r].computed
    BY <2>2, <2>4, <2>5
  <2> QED  BY <1>5, <1>9, <1>12, <2>6
<1>13. CASE k = c + 2 /\ j = c + 2
  BY <1>5, <1>7, <1>13
<1> QED  BY <1>11, <1>12, <1>13

LEMMA StepsNext ==
  ASSUME NEW B, NEW C, NEW D, NEW L, NEW E, NEW M, NEW b, NEW o, NEW a, NEW f, NEW c, Window(o, a, f, c),
         Chained(D, L, B, f, c), Extends(B, C, o, c, b), BatchGood(b), \A r \in Reqs : b.rejected[r] = 0,
         RowGood(b, c + 1, D[c + 1], Laid(L[c + 1], b)), \A j \in o .. c : InBatch(B[j]) \cap b.new = {},
         Further(D, E, c, Past(b, c + 1, D[c + 1])), Further(L, M, c, Laid(L[c + 1], b)),
         StepsOK(D, L, B, a, f, o, c)
  PROVE  StepsOK(E, M, C, a, f, o, c + 1)
<1>0. o \in Nat /\ a \in Nat /\ f \in Nat /\ c \in Nat /\ o > 0 /\ o <= a /\ a <= f /\ f <= c + 1
  BY DEF Window
<1> DEFINE z == Past(b, c + 1, D[c + 1])
           y == Laid(L[c + 1], b)
<1>1. /\ \A k \in o .. c : BatchGood(B[k])
      /\ \A k \in a .. c : \A r \in Reqs : B[k].rejected[r] = 0
      /\ \A k \in f .. c : RowGood(B[k], k, D[k], L[k + 1])
      /\ \A k \in f .. c + 1 : LastSays(B, a, k, D[k])
      /\ NoReturn(B, o, c) /\ Grows(D, B, f, c)
  BY DEF StepsOK
<1>2. C[c + 1] = b /\ \A k \in o .. c : C[k] = B[k]
  BY DEF Extends
<1>3. D \in [Nat -> [Reqs -> DataType]]
  BY DEF Chained
<1>4. LastSays(C, a, c + 2, z)
  <2>1. D[c + 1] \in [Reqs -> DataType] /\ LastSays(B, a, c + 1, D[c + 1]) /\ a <= c + 1 /\ a > 0
    BY <1>0, <1>1, <1>3
  <2> DEFINE d == D[c + 1]
  <2> HIDE DEF d
  <2>2. d \in [Reqs -> DataType] /\ LastSays(B, a, c + 1, d)
    BY <2>1 DEF d
  <2>3. LastSays(C, a, c + 2, Past(b, c + 1, d))
    BY <1>0, <2>1, <2>2, SaysNext
  <2> QED  BY <2>3 DEF d
<1>5. Grows(E, C, f, c + 1)
  <2>1. o <= f /\ RowsGood(b.row)
    BY <1>0 DEF BatchGood
  <2> HIDE DEF z, y
  <2> QED  BY <1>0, <1>1, <1>3, <2>1, GrowsNext
<1>6. NoReturn(C, o, c + 1)
  <2> SUFFICES ASSUME NEW j \in o .. c + 1, NEW k \in o .. c + 1, j < k
               PROVE  InBatch(C[j]) \cap C[k].new = {}
    BY Zenon DEF NoReturn
  <2>1. j \in o .. c /\ C[j] = B[j]
    BY <1>0, <1>2
  <2>2. CASE k = c + 1
    BY <1>2, <2>1, <2>2
  <2>3. CASE k # c + 1
    <3>1. k \in o .. c /\ C[k] = B[k]
      BY <1>0, <1>2, <2>3
    <3> QED  BY <1>1, <2>1, <3>1 DEF NoReturn
  <2> QED  BY <2>2, <2>3
<1>7. (\A k \in o .. c + 1 : BatchGood(C[k])) /\ \A k \in a .. c + 1 : \A r \in Reqs : C[k].rejected[r] = 0
  <2>1. \A k \in o .. c + 1 : k \in o .. c \/ k = c + 1
    BY <1>0
  <2>2. \A k \in a .. c + 1 : (k \in a .. c /\ k \in o .. c) \/ k = c + 1
    BY <1>0
  <2> QED  BY <1>1, <1>2, <2>1, <2>2
<1> HIDE DEF z, y
<1>8. /\ E[c + 2] = z /\ M[c + 2] = y /\ \A k \in Nat : k # c + 2 => E[k] = D[k] /\ M[k] = L[k]
  <2>1. /\ E = [k \in Nat |-> IF k = c + 2 THEN z ELSE D[k]] /\ M = [k \in Nat |-> IF k = c + 2 THEN y ELSE L[k]]
        /\ c + 2 \in Nat
    BY <1>0 DEF Further, z, y
  <2> QED  BY <2>1
<1>9. ASSUME NEW k \in f .. c + 1 PROVE RowGood(C[k], k, E[k], M[k + 1])
  <2>1. CASE k = c + 1
    <3>1. E[k] = D[k] /\ M[k + 1] = y /\ C[k] = b
      BY <1>0, <1>2, <1>8, <2>1
    <3> QED  BY <2>1, <3>1 DEF y
  <2>2. CASE k # c + 1
    <3>1. k \in Nat /\ k + 1 \in Nat /\ k # c + 2 /\ k + 1 # c + 2 /\ k \in f .. c /\ k \in o .. c
      BY <1>0, <2>2
    <3>2. E[k] = D[k] /\ M[k + 1] = L[k + 1] /\ C[k] = B[k]
      BY <1>2, <1>8, <3>1
    <3> QED  BY <1>1, <3>1, <3>2
  <2> QED  BY <2>1, <2>2
<1>10. ASSUME NEW k \in f .. c + 2 PROVE LastSays(C, a, k, E[k])
  <2>1. CASE k = c + 2
    BY <1>4, <1>8, <2>1
  <2>2. CASE k # c + 2
    <3>1. k \in Nat /\ k \in f .. c + 1
      BY <1>0, <2>2
    <3> DEFINE d == D[k]
    <3>2. E[k] = d /\ d \in [Reqs -> DataType] /\ LastSays(B, a, k, d)
      BY <1>1, <1>3, <1>8, <2>2, <3>1
    <3> HIDE DEF d
    <3>3. \A j \in a .. c : SameBatch(B[j], C[j])
      <4>1. \A j \in a .. c : j \in o .. c
        BY <1>0
      <4> QED  BY <1>2, <4>1 DEF SameBatch
    <3>4. k <= c + 1
      BY <3>1
    <3>5. LastSays(C, a, k, d)
      BY <1>0, <3>1, <3>2, <3>3, <3>4, SameSays
    <3> QED  BY <3>2, <3>5
  <2> QED  BY <2>1, <2>2
<1>11. c + 1 + 1 = c + 2
  BY <1>0
<1> QED  BY <1>5, <1>6, <1>7, <1>9, <1>10, <1>11 DEF StepsOK

LEMMA ViewsNext ==
  ASSUME NEW B, NEW C, NEW D, NEW L, NEW E, NEW M, NEW S, NEW b, NEW o, NEW a, NEW c,
         Window(o, a, ReachedOf(S[Last]), c), Extends(B, C, o, c, b), Executed(b) = {},
         \A k \in 0 .. c + 1 : E[k] = D[k] /\ M[k] = L[k], ViewsOK(D, L, B, S, o, c)
  PROVE  ViewsOK(E, M, C, S, o, c + 1)
<1> DEFINE f == ReachedOf(S[Last])
<1>0. o \in Nat /\ a \in Nat /\ f \in Nat /\ c \in Nat /\ o > 0 /\ o <= a /\ a <= f /\ f <= c + 1
  BY DEF Window
<1> HIDE DEF f
<1>1. C[c + 1] = b /\ \A k \in o .. c : C[k] = B[k]
  BY DEF Extends
<1>2. Agree(b) /\ Bounded(b)
  BY DEF Agree, Bounded
<1>3. \A k \in o .. c + 1 : k \in o .. c \/ k = c + 1
  BY <1>0
<1>4. \A k \in o .. c + 1 : Agree(C[k]) /\ Bounded(C[k])
  BY <1>1, <1>2, <1>3 DEF ViewsOK
<1>5. \A k \in o .. c + 1 : \A p \in Executed(C[k]) : ReachedOf(S[p]) > k
  BY <1>1, <1>3 DEF ViewsOK
<1>6. ASSUME NEW k \in f .. c + 1, NEW p \in Executed(C[k]) PROVE C[k].view[p] = Seen(C[k], E[k], M[k + 1])
  <2>1. k \in o .. c + 1
    BY <1>0
  <2>2. k \in o .. c
    BY <1>1, <1>3, <1>6, <2>1
  <2>3. k \in f .. c /\ k \in 0 .. c + 1 /\ k + 1 \in 0 .. c + 1
    BY <1>0, <2>2
  <2>4. B[k].view[p] = Seen(B[k], D[k], L[k + 1])
    BY <1>1, <1>6, <2>2, <2>3 DEF ViewsOK, f
  <2>5. C[k] = B[k] /\ E[k] = D[k] /\ M[k + 1] = L[k + 1]
    BY <1>1, <2>2, <2>3
  <2> QED  BY <2>4, <2>5
<1> QED  BY <1>4, <1>5, <1>6 DEF ViewsOK, f

\* The steps in flight and one more.
LEMMA IssuedNext ==
  ASSUME IInv, NEW b, current_step' = current_step + 1, batches' = Append(batches, b)
  PROVE  /\ Oldest' = Oldest /\ Issued'[current_step + 1] = b
         /\ \A k \in Oldest .. current_step : Issued'[k] = Issued[k]
<1>1. /\ current_step \in Nat /\ IsSeq(batches) /\ Len(batches) \in Nat
      /\ DOMAIN batches = 1 .. Len(batches) /\ Len(batches) <= current_step
  BY IsSeqFacts DEF IInv, BatchesOK
<1>2. /\ Len(batches') = Len(batches) + 1 /\ \A i \in 1 .. Len(batches) : batches'[i] = batches[i]
      /\ batches'[Len(batches) + 1] = b
  BY <1>1, AppendSeq
<1>3. Oldest' = Oldest /\ Oldest \in Int /\ Oldest = current_step - Len(batches) + 1
  BY <1>1, <1>2 DEF Oldest
<1>4. \A k \in Oldest .. current_step + 1 : Issued'[k] = batches'[k - Oldest + 1]
  BY <1>3 DEF Issued, BatchOf
<1>5. \A k \in Oldest .. current_step : Issued[k] = batches[k - Oldest + 1]
  BY DEF Issued, BatchOf
<1>6. /\ \A k \in Oldest .. current_step : k - Oldest + 1 \in 1 .. Len(batches) /\ k \in Oldest .. current_step + 1
      /\ (current_step + 1) - Oldest + 1 = Len(batches) + 1 /\ current_step + 1 \in Oldest .. current_step + 1
  BY <1>1, <1>3
<1> QED  BY <1>2, <1>3, <1>4, <1>5, <1>6

\* The batch of the next step.
NextBatch(row, new) ==
  [row |-> row, new |-> new, freed |-> flush, view |-> [p \in Ranks |-> <<>>],
   rejected |-> [r \in Reqs |-> 0]]

LEMMA SchedulePlan ==
  ASSUME current_step \in Nat, \A r \in Reqs : req[r] \in RequestType, Schedule
  PROVE  \E b : /\ Plan(req, flush, b, current_step + 1) /\ batches' = Append(batches, b)
                /\ req' = [r \in Reqs |-> Scheduled(NowOf(req, b.new)[r], b.row[r], current_step + 1)]
<1> DEFINE k == current_step + 1
           N(new) == NowOf(req, new)
           here(new) == InUse \cup new
           rows(new, r) == IF r \notin here(new) THEN {NoRow}
                           ELSE RowsFor(N(new)[r], k) \cup (IF r \in new THEN {} ELSE {NoRow})
<1>0. PICK new \in SUBSET {r \in Reqs : req[r].status = "waiting" /\ req[r].in_flight = 0} :
        /\ Cardinality(here(new)) <= MaxSlots
        /\ \E row \in [Reqs -> UNION {rows(new, r) : r \in Reqs}] :
             /\ \A r \in Reqs : row[r] \in rows(new, r)
             /\ req' = [r \in Reqs |-> Scheduled(N(new)[r], row[r], k)]
             /\ batches' = Append(batches, NextBatch(row, new))
  BY DEF Schedule, NowOf, NextBatch
<1>1. PICK row \in [Reqs -> UNION {rows(new, r) : r \in Reqs}] :
        /\ \A r \in Reqs : row[r] \in rows(new, r)
        /\ req' = [r \in Reqs |-> Scheduled(N(new)[r], row[r], k)]
        /\ batches' = Append(batches, NextBatch(row, new))
  BY <1>0
<1> DEFINE b == NextBatch(row, new)
<1>2. /\ b.new = new /\ b.row = row /\ b.freed = flush /\ b.view = [p \in Ranks |-> <<>>]
      /\ b.rejected = [r \in Reqs |-> 0] /\ DOMAIN b = {"row", "new", "freed", "view", "rejected"}
  BY DEF NextBatch
<1>3. InUse = Active(req)
  BY DEF InUse, Active
<1>4. k \in Nat /\ NoRow \in RowType
  BY DEF NoRow, RowType
<1>5. ASSUME NEW r \in Reqs PROVE N(new)[r] \in RequestType
  <2>1. N(new)[r] = IF r \in new THEN Admitted(req[r]) ELSE req[r]
    BY DEF NowOf
  <2>2. Admitted(req[r]) \in RequestType
    BY DEF Admitted, RequestType
  <2> QED  BY <2>1, <2>2
<1>6. ASSUME NEW r \in Reqs
      PROVE  /\ \/ RowFits(row[r], N(new)[r], k) /\ r \in Active(req) \cup new
                \/ row[r] = NoRow
             /\ row[r] \in RowType
  <2>1. row[r] \in rows(new, r)
    BY <1>1
  <2>2. row[r] = NoRow \/ (r \in here(new) /\ row[r] \in RowsFor(N(new)[r], k))
    BY <2>1
  <2> DEFINE q == N(new)[r]
             x == row[r]
  <2>3. q \in RequestType
    BY <1>5
  <2> HIDE DEF q, x, k
  <2>4. x \in RowsFor(q, k) => RowFits(x, q, k)
    BY <1>4, <2>3, RowsForFits
  <2>5. x \in RowsFor(q, k) => x \in RowType
    BY <2>4 DEF RowFits
  <2> QED  BY <1>3, <1>4, <2>2, <2>4, <2>5 DEF q, x
<1>7. row \in [Reqs -> RowType]
  BY <1>1, <1>6
<1>8. new \subseteq Reqs /\ \A r \in new : req[r].status = "waiting" /\ req[r].in_flight = 0
  BY <1>0
<1> HIDE DEF b, k
<1>9. Plan(req, flush, b, k)
  BY <1>0, <1>2, <1>3, <1>6, <1>7, <1>8 DEF Plan
<1>10. req' = [r \in Reqs |-> Scheduled(NowOf(req, b.new)[r], b.row[r], k)] /\ batches' = Append(batches, b)
  BY <1>1, <1>2 DEF b
<1> QED  BY <1>9, <1>10 DEF k

\* The data and the layouts with one more step.
Later(D, c, z) == [k \in Nat |-> IF k = c + 2 THEN z ELSE D[k]]

LEMMA LaterFacts ==
  ASSUME NEW D, NEW c \in Nat, NEW z
  PROVE  /\ Further(D, Later(D, c, z), c, z) /\ Later(D, c, z)[c + 2] = z
         /\ \A k \in 0 .. c + 1 : Later(D, c, z)[k] = D[k]
<1>1. c + 2 \in Nat /\ \A k \in 0 .. c + 1 : k \in Nat /\ k # c + 2
  OBVIOUS
<1> QED  BY <1>1 DEF Later, Further

LEMMA ScheduleKeeps ==
  ASSUME IInv, NEW D, NEW L, AInv(D, L), Schedule
  PROVE  \E E, M : AInv(E, M)'
<1> DEFINE B == Issued
           C == Issued'
           o == Oldest
           a == stage[Last].next
           f == ReachedOf(stage[Last])
           c == current_step
<1>1. Window(o, a, f, c) /\ \A p \in Ranks : ReachedOf(stage[p]) \in Nat /\ ReachedOf(stage[p]) <= c + 1
  BY WindowFacts, ReachedFacts
<1>2. o \in Nat /\ a \in Nat /\ f \in Nat /\ c \in Nat /\ o > 0 /\ o <= a /\ a <= f /\ f <= c + 1
  BY <1>1 DEF Window
<1>3. /\ Chained(D, L, B, f, c) /\ InputOK(stage[Last], B) /\ StagesMatch(D, L, stage, wire)
      /\ ViewsOK(D, L, B, stage, o, c) /\ StepsOK(D, L, B, a, f, o, c)
      /\ RequestsOK(D, L, B, stage, req, flush, o, c)
  BY DEF AInv, AllGood
<1>4. current_step' = c + 1 /\ stage' = stage /\ wire' = wire /\ flush' = {}
  BY DEF Schedule
<1>5. flush \in SUBSET Reqs /\ (\A r \in Reqs : RequestOK(B, o, c, r, req[r]) /\ req[r] \in RequestType)
  BY <1>3 DEF RequestsOK, RequestOK
<1>6. PICK b : /\ Plan(req, flush, b, c + 1) /\ batches' = Append(batches, b)
               /\ req' = [r \in Reqs |-> Scheduled(NowOf(req, b.new)[r], b.row[r], c + 1)]
  BY <1>2, <1>5, SchedulePlan
<1>7. Oldest' = o /\ Extends(B, C, o, c, b)
  <2>1. /\ Oldest' = Oldest /\ Issued'[current_step + 1] = b
        /\ \A k \in Oldest .. current_step : Issued'[k] = Issued[k]
    BY <1>4, <1>6, IssuedNext
  <2> QED  BY <2>1 DEF Extends
<1>8. BatchGood(b) /\ Executed(b) = {} /\ \A r \in Reqs : b.rejected[r] = 0
  <2>1. BatchGood(b) /\ Executed(b) = {}
    BY <1>5, <1>6, PlanBatch
  <2>2. b.rejected = [r \in Reqs |-> 0]
    BY <1>6 DEF Plan
  <2> QED  BY <2>1, <2>2
<1>9. (\A k \in o .. c : BatchGood(B[k])) /\ D[c + 1] \in [Reqs -> DataType] /\ LayoutGood(L[c + 1])
  BY <1>2, <1>3 DEF StepsOK, Chained
<1> DEFINE z == Past(b, c + 1, D[c + 1])
           y == Laid(L[c + 1], b)
<1> HIDE DEF B, C, o, a, f, c
<1>10. Fits(L[c + 1], b) /\ RowGood(b, c + 1, D[c + 1], y)
  <2>1. o <= c + 1
    BY <1>2
  <2>2. RequestsOK(D, L, B, stage, req, flush, o, c)
    BY <1>3
  <2> HIDE DEF z, y
  <2>3. Fits(L[c + 1], b)
    BY <1>2, <1>6, <1>9, <2>1, <2>2, PlanFits
  <2>4. RowGood(b, c + 1, D[c + 1], Laid(L[c + 1], b))
    BY <1>2, <1>6, <1>9, <2>1, <2>2, PlanFits
  <2> QED  BY <2>3, <2>4 DEF y
<1>11. \A j \in o .. c : InBatch(B[j]) \cap b.new = {}
  <2> SUFFICES ASSUME NEW j \in o .. c, NEW r \in InBatch(B[j]), r \in b.new PROVE FALSE
    OBVIOUS
  <2>1. r \in Reqs /\ req[r].status = "waiting" /\ req[r].in_flight = 0
    BY <1>6 DEF Plan
  <2>2. AllRows(B, o, c, r) = 0
    BY <1>5, <2>1 DEF RequestOK
  <2>3. RequestOK(B, o, c, r, req[r])
    BY <1>5, <2>1
  <2> DEFINE q == req[r]
  <2>4. RequestOK(B, o, c, r, q) /\ q.status = "waiting" /\ q.in_flight = 0
    BY <2>1, <2>3
  <2> HIDE DEF q
  <2>5. o <= c + 1
    BY <1>2
  <2>6. RequestOK(B, o, c, r, Admitted(q)) /\ InUseOK(B, o, c, r, Admitted(q), NoData) /\ NoRowsOf(B, o, c, r)
    BY <1>2, <1>9, <2>1, <2>4, <2>5, AdmittedOK
  <2> QED  BY <2>6 DEF NoRowsOf
<1>12. PICK E, M : /\ Further(D, E, c, z) /\ Further(L, M, c, y) /\ M[c + 2] = y
                   /\ \A k \in 0 .. c + 1 : E[k] = D[k] /\ M[k] = L[k]
  <2> HIDE DEF z, y
  <2>1. /\ Further(D, Later(D, c, z), c, z) /\ Later(D, c, z)[c + 2] = z
        /\ \A k \in 0 .. c + 1 : Later(D, c, z)[k] = D[k]
    BY ONLY <1>2, LaterFacts
  <2>2. /\ Further(L, Later(L, c, y), c, y) /\ Later(L, c, y)[c + 2] = y
        /\ \A k \in 0 .. c + 1 : Later(L, c, y)[k] = L[k]
    BY ONLY <1>2, LaterFacts
  <2> QED  BY <2>1, <2>2
<1>13. Chained(E, M, C, f, c + 1)
  BY <1>1, <1>3, <1>7, <1>8, <1>10, <1>12, ChainedNext DEF z, y
<1>14. StepsOK(E, M, C, a, f, o, c + 1)
  <2>1. /\ Further(D, E, c, Past(b, c + 1, D[c + 1])) /\ Further(L, M, c, Laid(L[c + 1], b))
        /\ RowGood(b, c + 1, D[c + 1], Laid(L[c + 1], b))
    BY <1>10, <1>12 DEF z, y
  <2> HIDE DEF z, y
  <2> QED  BY <1>1, <1>3, <1>7, <1>8, <1>11, <2>1, StepsNext
<1>15. ViewsOK(E, M, C, stage, o, c + 1)
  <2>1. Window(o, a, ReachedOf(stage[Last]), c)
    BY <1>1 DEF f
  <2> HIDE DEF z, y
  <2> QED  BY <1>3, <1>7, <1>8, <1>12, <2>1, ViewsNext
<1>16. StagesMatch(E, M, stage, wire)
  <2>1. \A p \in Ranks : ReachedOf(stage[p]) \in 0 .. c + 1
    BY <1>1, <1>2 DEF c
  <2>2. \A p \in Ranks : E[ReachedOf(stage[p])] = D[ReachedOf(stage[p])] /\ M[ReachedOf(stage[p])] = L[ReachedOf(stage[p])]
    BY <1>12, <2>1
  <2> QED  BY <1>3, <2>2, LastFacts DEF StagesMatch
<1>17. InputOK(stage[Last], C)
  <2> SUFFICES ASSUME stage[Last].phase = "sample" PROVE stage[Last].input.row = C[stage[Last].next].row
    BY DEF InputOK
  <2>1. f = a + 1
    BY DEF ReachedOf, f, a
  <2>2. a \in o .. c
    BY <1>2, <2>1
  <2> QED  BY <1>3, <1>7, <2>2 DEF InputOK, Extends, a
<1>18. RequestsOK(E, M, C, stage, req', {}, o, c + 1)
  <2>1. Window(o, a, ReachedOf(stage[Last]), c) /\ a = stage[Last].next
    BY <1>1 DEF f, a
  <2>2. Further(D, E, c, Past(b, c + 1, D[c + 1])) /\ M[c + 2] = Laid(L[c + 1], b)
    BY <1>12 DEF z, y
  <2>3. RequestsOK(D, L, B, stage, req, flush, o, c)
    BY <1>3
  <2> DEFINE P == req'
  <2>4. P = [r \in Reqs |-> Scheduled(NowOf(req, b.new)[r], b.row[r], c + 1)]
    BY <1>6
  <2> HIDE DEF z, y, P
  <2>5. RequestsOK(E, M, C, stage, P, {}, o, c + 1)
    BY <1>6, <1>7, <1>9, <2>1, <2>2, <2>3, <2>4, RequestsNext
  <2> QED  BY <2>5 DEF P
<1>19. AllGood(E, M, C, stage, wire, req', {}, o, c + 1)
  BY <1>13, <1>14, <1>15, <1>16, <1>17, <1>18 DEF AllGood, f, a
<1>20. AInv(E, M)'
  BY <1>4, <1>7, <1>19 DEF AInv, C, o, c
<1> QED  BY <1>20

----------------------------------------------------------------------------
(* sample_tokens on the last stage: rej[r] of the drafts of r are rejected, *)
(* and the data of the steps to come are less by as much.                  *)

RejGood(b, rej) ==
  rej \in [Reqs -> 0 .. NumSpec] /\ \A r \in Reqs : b.row[r].kind # "decode" => rej[r] = 0

Minus(x, i) == [computed |-> x.computed - i, last |-> x.last, drafts |-> x.drafts]
LessD(d, rej) == [r \in Reqs |-> Minus(d[r], rej[r])]
Less(D, a, rej) == [j \in Nat |-> IF j > a THEN LessD(D[j], rej) ELSE D[j]]

LEMMA MinusFacts ==
  ASSUME NEW x \in DataType, NEW i \in Int
  PROVE  /\ Minus(x, i) \in DataType /\ (i = 0 => Minus(x, i) = x)
         /\ Minus(x, i).computed = x.computed - i /\ Minus(x, i).last = x.last
         /\ Minus(x, i).drafts = x.drafts
BY DEF Minus, DataType

LEMMA RejFacts ==
  ASSUME NEW b, NEW rej, RejGood(b, rej)
  PROVE  \A r \in Reqs : /\ rej[r] \in Nat /\ rej[r] <= NumSpec
                         /\ rej[r] # 0 => b.row[r].kind = "decode" /\ Samples(b, r) /\ r \in InBatch(b)
<1>1. NumSpec \in Nat
  BY RelayAssumption
<1>2. \A r \in Reqs : rej[r] \in 0 .. NumSpec /\ (b.row[r].kind # "decode" => rej[r] = 0)
  BY DEF RejGood
<1>3. \A r \in Reqs : b.row[r].kind = "decode" => Samples(b, r) /\ r \in InBatch(b)
  BY DEF Samples, InBatch
<1> QED  BY <1>1, <1>2, <1>3

LEMMA LessDFacts ==
  ASSUME NEW d \in [Reqs -> DataType], NEW b, NEW rej, RejGood(b, rej)
  PROVE  /\ LessD(d, rej) \in [Reqs -> DataType]
         /\ \A r \in Reqs : /\ rej[r] = 0 => LessD(d, rej)[r] = d[r]
                            /\ LessD(d, rej)[r].computed = d[r].computed - rej[r]
                            /\ LessD(d, rej)[r].last = d[r].last /\ LessD(d, rej)[r].drafts = d[r].drafts
<1>1. ASSUME NEW r \in Reqs
      PROVE  /\ LessD(d, rej)[r] \in DataType
             /\ rej[r] = 0 => LessD(d, rej)[r] = d[r]
             /\ LessD(d, rej)[r].computed = d[r].computed - rej[r]
             /\ LessD(d, rej)[r].last = d[r].last /\ LessD(d, rej)[r].drafts = d[r].drafts
  <2> DEFINE x == d[r]
             i == rej[r]
  <2>1. x \in DataType /\ i \in Int /\ LessD(d, rej)[r] = Minus(x, i)
    BY RejFacts DEF LessD
  <2> HIDE DEF x, i
  <2>2. /\ Minus(x, i) \in DataType /\ (i = 0 => Minus(x, i) = x)
        /\ Minus(x, i).computed = x.computed - i /\ Minus(x, i).last = x.last
        /\ Minus(x, i).drafts = x.drafts
    BY <2>1, MinusFacts
  <2> QED  BY <2>1, <2>2 DEF x, i
<1>2. LessD(d, rej) = [r \in Reqs |-> LessD(d, rej)[r]]
  BY DEF LessD
<1> QED  BY <1>1, <1>2

LEMMA LessFacts ==
  ASSUME NEW D \in [Nat -> [Reqs -> DataType]], NEW a \in Nat, NEW b, NEW rej, RejGood(b, rej)
  PROVE  /\ Less(D, a, rej) \in [Nat -> [Reqs -> DataType]]
         /\ \A j \in Nat : /\ j > a => Less(D, a, rej)[j] = LessD(D[j], rej)
                           /\ ~(j > a) => Less(D, a, rej)[j] = D[j]
<1>1. ASSUME NEW j \in Nat PROVE LessD(D[j], rej) \in [Reqs -> DataType]
  BY LessDFacts
<1> QED  BY <1>1 DEF Less

\* What is known of the steps past a, for requests whose drafts were rejected in step a.
Late(B, D, a, c, rej) ==
  \A r \in Reqs : rej[r] # 0 =>
    /\ \A j \in a + 1 .. c : r \notin B[j].new
    /\ \A j \in a + 1 .. c : r \in InBatch(B[j]) => B[j].row[r].kind = "decode" /\ j >= a + PPSize
    /\ \A j \in a + 1 .. c + 1 : D[j][r].last >= a

LEMMA LateFacts ==
  ASSUME NEW B, NEW D, NEW L, NEW o, NEW a, NEW c, Window(o, a, a + 1, c), Chained(D, L, B, a + 1, c),
         StepsOK(D, L, B, a, a + 1, o, c), NEW rej, RejGood(B[a], rej)
  PROVE  Late(B, D, a, c, rej)
<1>0. o \in Nat /\ a \in Nat /\ c \in Nat /\ o > 0 /\ o <= a /\ a + 1 <= c + 1
  BY DEF Window
<1> SUFFICES ASSUME NEW r \in Reqs, rej[r] # 0
             PROVE  /\ \A j \in a + 1 .. c : r \notin B[j].new
                    /\ \A j \in a + 1 .. c : r \in InBatch(B[j]) => B[j].row[r].kind = "decode" /\ j >= a + PPSize
                    /\ \A j \in a + 1 .. c + 1 : D[j][r].last >= a
  BY Zenon DEF Late
<1>1. Samples(B[a], r) /\ r \in InBatch(B[a])
  BY RejFacts
<1>2. \A j \in a + 1 .. c + 1 : a \in a .. j - 1
  BY <1>0
<1>3. \A j \in a + 1 .. c + 1 : D[j][r].last >= a
  <2> SUFFICES ASSUME NEW j \in a + 1 .. c + 1 PROVE D[j][r].last >= a
    OBVIOUS
  <2>1. LastSays(B, a, j, D[j])
    BY DEF StepsOK
  <2> QED  BY <1>1, <1>2, <2>1 DEF LastSays
<1>4. \A j \in a + 1 .. c : r \notin B[j].new
  <2> SUFFICES ASSUME NEW j \in a + 1 .. c PROVE r \notin B[j].new
    OBVIOUS
  <2>1. a \in o .. c /\ j \in o .. c /\ a < j
    BY <1>0
  <2> QED  BY <1>1, <2>1 DEF StepsOK, NoReturn
<1>5. ASSUME NEW j \in a + 1 .. c, r \in InBatch(B[j]) PROVE B[j].row[r].kind = "decode" /\ j >= a + PPSize
  <2>1. RowGood(B[j], j, D[j], L[j + 1])
    BY DEF StepsOK
  <2>2. Begun(B[j], D[j])[r] = D[j][r]
    BY <1>4 DEF Begun
  <2>3. j \in a + 1 .. c + 1 /\ j \in Nat
    BY <1>0
  <2>4. D[j][r].last >= a /\ D[j][r].last \in Nat
    BY <1>3, <2>3 DEF Chained, DataType
  <2>5. D[j][r].last # 0
    BY <1>0, <2>4
  <2>6. B[j].row[r].kind = "decode" /\ D[j][r].last + PPSize <= j
    BY <1>5, <2>1, <2>2, <2>5 DEF RowGood
  <2>7. PPSize \in Nat
    BY RelayAssumption
  <2> QED  BY <1>0, <2>3, <2>4, <2>6, <2>7
<1> QED  BY <1>3, <1>4, <1>5

\* C are the steps B where rej of the drafts were rejected in step a.
Rejecting(B, C, o, a, c, rej) ==
  /\ SameBatch(B[a], C[a]) /\ C[a].rejected = rej /\ C[a].view = B[a].view /\ DOMAIN C[a] = DOMAIN B[a]
  /\ \A j \in (o .. c) \ {a} : C[j] = B[j]

LEMMA RejectingSame ==
  ASSUME NEW B, NEW C, NEW o, NEW a, NEW c, NEW rej, Rejecting(B, C, o, a, c, rej)
  PROVE  \A j \in o .. c : SameBatch(B[j], C[j]) /\ C[j].view = B[j].view
<1>1. \A j \in (o .. c) \ {a} : SameBatch(B[j], C[j]) /\ C[j].view = B[j].view
  BY DEF Rejecting, SameBatch
<1> QED  BY <1>1 DEF Rejecting

LEMMA BegunLess ==
  ASSUME NEW d \in [Reqs -> DataType], NEW b, NEW x, NEW rej, RejGood(x, rej), NEW r \in Reqs,
         rej[r] # 0 => r \notin b.new
  PROVE  /\ rej[r] = 0 => Begun(b, LessD(d, rej))[r] = Begun(b, d)[r]
         /\ Begun(b, LessD(d, rej))[r].computed = Begun(b, d)[r].computed - rej[r]
         /\ Begun(b, LessD(d, rej))[r].last = Begun(b, d)[r].last
         /\ Begun(b, LessD(d, rej))[r].drafts = Begun(b, d)[r].drafts
<1>1. /\ LessD(d, rej) \in [Reqs -> DataType]
      /\ rej[r] = 0 => LessD(d, rej)[r] = d[r]
      /\ LessD(d, rej)[r].computed = d[r].computed - rej[r]
      /\ LessD(d, rej)[r].last = d[r].last /\ LessD(d, rej)[r].drafts = d[r].drafts
  BY LessDFacts
<1>2. /\ Begun(b, d)[r] = IF r \in b.new THEN NoData ELSE d[r]
      /\ Begun(b, LessD(d, rej))[r] = IF r \in b.new THEN NoData ELSE LessD(d, rej)[r]
  BY DEF Begun
<1>3. d[r].computed \in Int /\ rej[r] \in Nat
  BY RejFacts DEF DataType
<1>4. CASE r \in b.new
  <2>1. rej[r] = 0 /\ NoData.computed = 0
    BY <1>4 DEF NoData
  <2> QED  BY <1>2, <1>4, <2>1
<1>5. CASE r \notin b.new
  BY <1>1, <1>2, <1>3, <1>5
<1> QED  BY <1>4, <1>5

LEMMA PastLess ==
  ASSUME NEW d \in [Reqs -> DataType], NEW b, RowsGood(b.row), NEW k \in Nat, NEW x, NEW rej, RejGood(x, rej),
         \A r \in Reqs : rej[r] # 0 => r \notin b.new
  PROVE  Past(b, k, LessD(d, rej)) = LessD(Past(b, k, d), rej)
<1> DEFINE e == LessD(d, rej)
           y == Past(b, k, e)
           z == Past(b, k, d)
           w == LessD(z, rej)
<1>1. e \in [Reqs -> DataType]
  BY LessDFacts
<1>2. y \in [Reqs -> DataType] /\ z \in [Reqs -> DataType]
  <2> HIDE DEF e
  <2> QED  BY <1>1, PastType
<1>3. /\ w \in [Reqs -> DataType]
      /\ \A r \in Reqs : /\ w[r].computed = z[r].computed - rej[r]
                         /\ w[r].last = z[r].last /\ w[r].drafts = z[r].drafts
  <2> HIDE DEF z
  <2> QED  BY <1>2, LessDFacts
<1>4. ASSUME NEW r \in Reqs
      PROVE  y[r].computed = w[r].computed /\ y[r].last = w[r].last /\ y[r].drafts = w[r].drafts
  <2>1. /\ Begun(b, e)[r].computed = Begun(b, d)[r].computed - rej[r]
        /\ Begun(b, e)[r].last = Begun(b, d)[r].last /\ Begun(b, e)[r].drafts = Begun(b, d)[r].drafts
    BY BegunLess
  <2> HIDE DEF e
  <2>2. /\ y[r].computed = Begun(b, e)[r].computed + b.row[r].n
        /\ Samples(b, r) => y[r].last = k /\ y[r].drafts = Proposal(b, k)
        /\ ~Samples(b, r) => y[r].last = Begun(b, e)[r].last /\ y[r].drafts = Begun(b, e)[r].drafts
    BY PastFacts
  <2>3. /\ z[r].computed = Begun(b, d)[r].computed + b.row[r].n
        /\ Samples(b, r) => z[r].last = k /\ z[r].drafts = Proposal(b, k)
        /\ ~Samples(b, r) => z[r].last = Begun(b, d)[r].last /\ z[r].drafts = Begun(b, d)[r].drafts
    BY PastFacts
  <2>4. Begun(b, d)[r].computed \in Int /\ b.row[r].n \in Nat /\ rej[r] \in Nat
    <3>1. Begun(b, d)[r] \in DataType
      BY BegunType
    <3> QED  BY <3>1, RowFacts, RejFacts DEF DataType
  <2> HIDE DEF y, z, w
  <2>5. y[r].computed = w[r].computed
    BY <1>3, <2>1, <2>2, <2>3, <2>4
  <2>6. y[r].last = w[r].last /\ y[r].drafts = w[r].drafts
    BY <1>3, <2>1, <2>2, <2>3
  <2> QED  BY <2>5, <2>6
<1> HIDE DEF y, z, w
<1>5. \A r \in Reqs : y[r] = w[r]
  <2> SUFFICES ASSUME NEW r \in Reqs PROVE y[r] = w[r]
    OBVIOUS
  <2>1. y[r] \in DataType /\ w[r] \in DataType
    BY <1>2, <1>3
  <2> QED  BY <1>4, <2>1 DEF DataType
<1>6. y = w
  BY <1>2, <1>3, <1>5
<1> QED  BY <1>6 DEF y, w, z, e

LEMMA ChainedLess ==
  ASSUME NEW B, NEW C, NEW D, NEW L, NEW o, NEW a, NEW c, Window(o, a, a + 1, c), NEW rej, RejGood(B[a], rej),
         Chained(D, L, B, a + 1, c), StepsOK(D, L, B, a, a + 1, o, c), Late(B, D, a, c, rej),
         Rejecting(B, C, o, a, c, rej)
  PROVE  Chained(Less(D, a, rej), L, C, a + 1, c)
<1> DEFINE E == Less(D, a, rej)
<1>0. o \in Nat /\ a \in Nat /\ c \in Nat /\ o <= a
  BY DEF Window
<1>1. /\ D \in [Nat -> [Reqs -> DataType]] /\ L \in [Nat -> LayoutType]
      /\ \A k \in a + 1 .. c : D[k + 1] = Past(B[k], k, D[k])
  BY DEF Chained
<1>2. E \in [Nat -> [Reqs -> DataType]] /\ \A j \in Nat : j > a => E[j] = LessD(D[j], rej)
  BY <1>0, <1>1, LessFacts
<1> HIDE DEF E
<1>3. ASSUME NEW k \in a + 1 .. c PROVE E[k + 1] = Past(B[k], k, E[k])
  <2>1. k \in Nat /\ k + 1 \in Nat /\ k > a /\ k + 1 > a /\ k \in o .. c
    BY <1>0
  <2> DEFINE b == B[k]
             d == D[k]
  <2>2. RowsGood(b.row)
    BY <2>1 DEF StepsOK, BatchGood
  <2>3. \A r \in Reqs : rej[r] # 0 => r \notin b.new
    BY DEF Late
  <2>4. d \in [Reqs -> DataType]
    BY <1>1, <2>1
  <2>5. D[k + 1] = Past(b, k, d) /\ E[k + 1] = LessD(D[k + 1], rej) /\ E[k] = LessD(d, rej)
    BY <1>1, <1>2, <2>1
  <2> HIDE DEF b, d
  <2>6. Past(b, k, LessD(d, rej)) = LessD(Past(b, k, d), rej)
    BY <2>1, <2>2, <2>3, <2>4, PastLess
  <2> QED  BY <2>5, <2>6 DEF b
<1>4. Chained(E, L, B, a + 1, c)
  BY <1>2, <1>3 DEF Chained
<1>5. \A k \in a + 1 .. c : SameBatch(B[k], C[k])
  <2>1. \A k \in a + 1 .. c : k \in o .. c
    BY <1>0
  <2> QED  BY <2>1, RejectingSame
<1>6. Chained(E, L, C, a + 1, c)
  BY <1>4, <1>5, SameChained
<1> QED  BY <1>6 DEF E

\* With e, a stage begins with what it begins with d, but for i computed tokens.
BeginsLess(b, e, d, r, i) ==
  /\ i = 0 => Begun(b, e)[r] = Begun(b, d)[r]
  /\ Begun(b, e)[r].computed = Begun(b, d)[r].computed - i
  /\ Begun(b, e)[r].last = Begun(b, d)[r].last /\ Begun(b, e)[r].drafts = Begun(b, d)[r].drafts

\* What a stage reads in a step past a is what it was, less what was rejected.
LEMMA BeginsLate ==
  ASSUME NEW B, NEW D, NEW a \in Nat, NEW c \in Nat, NEW rej, RejGood(B[a], rej), Late(B, D, a, c, rej),
         D \in [Nat -> [Reqs -> DataType]], NEW j \in a + 1 .. c, NEW r \in Reqs
  PROVE  BeginsLess(B[j], Less(D, a, rej)[j], D[j], r, rej[r])
<1>1. j \in Nat /\ j > a
  OBVIOUS
<1>2. Less(D, a, rej)[j] = LessD(D[j], rej)
  BY <1>1, LessFacts
<1>3. rej[r] # 0 => r \notin B[j].new
  BY DEF Late
<1> DEFINE d == D[j]
           b == B[j]
           x == B[a]
<1>4. d \in [Reqs -> DataType] /\ RejGood(x, rej) /\ (rej[r] # 0 => r \notin b.new)
  BY <1>1, <1>3
<1> HIDE DEF d, b, x
<1>5. /\ rej[r] = 0 => Begun(b, LessD(d, rej))[r] = Begun(b, d)[r]
      /\ Begun(b, LessD(d, rej))[r].computed = Begun(b, d)[r].computed - rej[r]
      /\ Begun(b, LessD(d, rej))[r].last = Begun(b, d)[r].last
      /\ Begun(b, LessD(d, rej))[r].drafts = Begun(b, d)[r].drafts
  BY <1>4, BegunLess
<1>6. BeginsLess(b, LessD(d, rej), d, r, rej[r])
  BY <1>5 DEF BeginsLess
<1> QED  BY <1>2, <1>6 DEF d, b

LEMMA RowGoodLess ==
  ASSUME NEW B, NEW D, NEW a \in Nat, NEW c \in Nat, NEW rej, RejGood(B[a], rej), Late(B, D, a, c, rej),
         D \in [Nat -> [Reqs -> DataType]], NEW j \in a + 1 .. c, RowsGood(B[j].row), NEW l,
         RowGood(B[j], j, D[j], l)
  PROVE  RowGood(B[j], j, Less(D, a, rej)[j], l)
<1> DEFINE b == B[j]
           e == Less(D, a, rej)[j]
           d == D[j]
<1> SUFFICES ASSUME NEW r \in InBatch(b)
             PROVE  /\ Has(l, r)
                    /\ b.row[r].kind # "decode" => Begun(b, e)[r].last = 0 /\ Begun(b, e)[r].computed = b.row[r].base
                    /\ b.row[r].kind = "decode" => /\ Begun(b, e)[r].last > 0 /\ Begun(b, e)[r].last + PPSize <= j
                                                   /\ Begun(b, e)[r].computed <= b.row[r].base
  BY Zenon DEF RowGood
<1>1. r \in Reqs
  BY DEF InBatch
<1>2. /\ rej[r] = 0 => Begun(b, e)[r] = Begun(b, d)[r]
      /\ Begun(b, e)[r].computed = Begun(b, d)[r].computed - rej[r]
      /\ Begun(b, e)[r].last = Begun(b, d)[r].last
  <2>1. BeginsLess(b, e, d, r, rej[r])
    BY <1>1, BeginsLate
  <2> HIDE DEF b, e, d
  <2> QED  BY <2>1 DEF BeginsLess
<1>3. /\ Has(l, r)
      /\ b.row[r].kind # "decode" => Begun(b, d)[r].last = 0 /\ Begun(b, d)[r].computed = b.row[r].base
      /\ b.row[r].kind = "decode" => /\ Begun(b, d)[r].last > 0 /\ Begun(b, d)[r].last + PPSize <= j
                                     /\ Begun(b, d)[r].computed <= b.row[r].base
  BY DEF RowGood
<1>4. b.row[r].kind # "decode" => rej[r] = 0
  BY <1>1 DEF Late
<1>5. Begun(b, d)[r].computed \in Int /\ rej[r] \in Nat /\ b.row[r].base \in Nat
  <2>1. d \in [Reqs -> DataType]
    OBVIOUS
  <2>2. Begun(b, d)[r] \in DataType
    BY <1>1, <2>1, BegunType
  <2> QED  BY <1>1, <2>2, RowFacts, RejFacts DEF DataType
<1> HIDE DEF b, d, e
<1>6. CASE b.row[r].kind # "decode"
  BY <1>2, <1>3, <1>4, <1>6
<1>7. CASE b.row[r].kind = "decode"
  BY <1>2, <1>3, <1>5, <1>7
<1> QED  BY <1>6, <1>7

LEMMA GrowsLess ==
  ASSUME NEW B, NEW C, NEW D, NEW o \in Nat, NEW a \in Nat, NEW c \in Nat, NEW rej, RejGood(B[a], rej), o <= a,
         D \in [Nat -> [Reqs -> DataType]], Rejecting(B, C, o, a, c, rej), Grows(D, B, a + 1, c)
  PROVE  Grows(Less(D, a, rej), C, a + 1, c)
<1> DEFINE E == Less(D, a, rej)
<1>1. ASSUME NEW j \in a + 1 .. c + 1, NEW r \in Reqs
      PROVE  E[j][r].computed = D[j][r].computed - rej[r] /\ D[j][r].computed \in Int /\ rej[r] \in Nat
  <2> DEFINE d == D[j]
  <2>1. j \in Nat /\ j > a
    OBVIOUS
  <2>2. E[j] = LessD(d, rej)
    BY <2>1, LessFacts
  <2>3. d \in [Reqs -> DataType]
    BY <2>1
  <2> HIDE DEF E, d
  <2>4. LessD(d, rej)[r].computed = d[r].computed - rej[r]
    BY <2>3, LessDFacts
  <2>5. d[r].computed \in Int /\ rej[r] \in Nat
    BY <2>3, RejFacts DEF DataType
  <2> QED  BY <2>2, <2>4, <2>5 DEF d
<1> HIDE DEF E
<1> SUFFICES ASSUME NEW j \in a + 1 .. c + 1, NEW k \in a + 1 .. c + 1, NEW r \in Reqs, j <= k,
                    \A i \in j .. k - 1 : r \notin C[i].new
             PROVE  E[j][r].computed <= E[k][r].computed
  BY Zenon DEF Grows, E
<1>2. \A i \in j .. k - 1 : i \in o .. c /\ i # a
  OBVIOUS
<1>3. \A i \in j .. k - 1 : r \notin B[i].new
  BY <1>2 DEF Rejecting
<1>4. D[j][r].computed <= D[k][r].computed
  BY <1>3 DEF Grows
<1>5. /\ E[j][r].computed = D[j][r].computed - rej[r] /\ D[j][r].computed \in Int /\ rej[r] \in Nat
      /\ E[k][r].computed = D[k][r].computed - rej[r] /\ D[k][r].computed \in Int
  BY <1>1
<1> QED  BY <1>4, <1>5

LEMMA StepsLess ==
  ASSUME NEW B, NEW C, NEW D, NEW L, NEW o, NEW a, NEW c, Window(o, a, a + 1, c), NEW rej, RejGood(B[a], rej),
         Chained(D, L, B, a + 1, c), StepsOK(D, L, B, a, a + 1, o, c), Late(B, D, a, c, rej),
         Rejecting(B, C, o, a, c, rej)
  PROVE  StepsOK(Less(D, a, rej), L, C, a + 1, a + 1, o, c)
<1> DEFINE E == Less(D, a, rej)
<1>0. o \in Nat /\ a \in Nat /\ c \in Nat /\ o > 0 /\ o <= a /\ a + 1 <= c + 1 /\ a \in o .. c
  BY DEF Window
<1>1. /\ \A k \in o .. c : BatchGood(B[k])
      /\ \A k \in a .. c : \A r \in Reqs : B[k].rejected[r] = 0
      /\ \A k \in a + 1 .. c : RowGood(B[k], k, D[k], L[k + 1])
      /\ \A k \in a + 1 .. c + 1 : LastSays(B, a, k, D[k])
      /\ NoReturn(B, o, c) /\ Grows(D, B, a + 1, c)
  BY DEF StepsOK
<1>2. D \in [Nat -> [Reqs -> DataType]]
  BY DEF Chained
<1>3. \A j \in o .. c : SameBatch(B[j], C[j]) /\ C[j].view = B[j].view
  BY RejectingSame
<1>4. C[a].rejected = rej /\ DOMAIN C[a] = DOMAIN B[a] /\ \A j \in (o .. c) \ {a} : C[j] = B[j]
  BY DEF Rejecting
<1>5. BatchGood(C[a])
  <2>1. BatchGood(B[a]) /\ C[a].row = B[a].row /\ C[a].new = B[a].new /\ C[a].freed = B[a].freed
        /\ C[a].view = B[a].view
    BY <1>0, <1>1, <1>3 DEF SameBatch
  <2> QED  BY <1>4, <2>1 DEF BatchGood, RejGood
<1>6. \A k \in o .. c : BatchGood(C[k])
  BY <1>1, <1>4, <1>5
<1>7. \A k \in a + 1 .. c : C[k] = B[k] /\ k \in o .. c /\ k \in a .. c
  BY <1>0, <1>4
<1>8. \A k \in a + 1 .. c : \A r \in Reqs : C[k].rejected[r] = 0
  BY <1>1, <1>7
<1>9. ASSUME NEW k \in a + 1 .. c PROVE RowGood(C[k], k, E[k], L[k + 1])
  <2>1. RowsGood(B[k].row) /\ C[k] = B[k] /\ RowGood(B[k], k, D[k], L[k + 1])
    BY <1>1, <1>7 DEF BatchGood
  <2>2. RowGood(B[k], k, Less(D, a, rej)[k], L[k + 1])
    BY <1>0, <1>2, <2>1, RowGoodLess
  <2> QED  BY <2>1, <2>2
<1>10. Grows(E, C, a + 1, c)
  BY <1>0, <1>1, <1>2, GrowsLess
<1>11. NoReturn(C, o, c)
  <2>1. \A j \in o .. c : InBatch(C[j]) = InBatch(B[j]) /\ C[j].new = B[j].new
    BY <1>3, SameBatchRows DEF SameBatch
  <2> QED  BY <1>1, <2>1 DEF NoReturn
<1>12. ASSUME NEW k \in a + 1 .. c + 1 PROVE LastSays(C, a + 1, k, E[k])
  <2>0. k \in Nat /\ k > a /\ k <= c + 1
    BY <1>0
  <2> DEFINE d == D[k]
             e == LessD(d, rej)
  <2>1. E[k] = e
    BY <1>0, <1>2, <2>0, LessFacts
  <2>2. d \in [Reqs -> DataType] /\ LastSays(B, a, k, d)
    BY <1>1, <1>2, <2>0
  <2> HIDE DEF d
  <2>3. \A r \in Reqs : e[r].last = d[r].last /\ e[r].drafts = d[r].drafts /\ d[r].last \in Nat
    BY <2>2, LessDFacts DEF DataType
  <2> HIDE DEF e, E
  <2>4. LastSays(C, a, k, d)
    <3>1. \A j \in a .. c : SameBatch(B[j], C[j])
      <4>1. \A j \in a .. c : j \in o .. c
        BY <1>0
      <4> QED  BY <1>3, <4>1
    <3> QED  BY <1>0, <2>0, <2>2, <3>1, SameSays
  <2>5. LastSays(C, a + 1, k, e)
    <3>1. \A j \in a + 1 .. k - 1 : j \in a .. k - 1
      BY <1>0, <2>0
    <3>2. \A r \in Reqs : d[r].last >= a + 1 => d[r].last >= a
      BY <1>0, <2>3
    <3> QED  BY <2>3, <2>4, <3>1, <3>2 DEF LastSays
  <2> QED  BY <2>1, <2>5
<1> QED  BY <1>6, <1>8, <1>9, <1>10, <1>11, <1>12 DEF StepsOK

\* The data past step a, request for request.
LEMMA LessAt ==
  ASSUME NEW D \in [Nat -> [Reqs -> DataType]], NEW a \in Nat, NEW b, NEW rej, RejGood(b, rej),
         NEW k \in Nat, k > a, NEW r \in Reqs
  PROVE  /\ Less(D, a, rej)[k][r].computed = D[k][r].computed - rej[r]
         /\ Less(D, a, rej)[k][r].last = D[k][r].last
         /\ Less(D, a, rej)[k][r].drafts = D[k][r].drafts
         /\ D[k][r].computed \in Int /\ D[k][r].last \in Nat /\ rej[r] \in Nat
<1> DEFINE d == D[k]
<1>1. Less(D, a, rej)[k] = LessD(d, rej) /\ d \in [Reqs -> DataType]
  BY LessFacts
<1>2. d[r].computed \in Int /\ d[r].last \in Nat /\ rej[r] \in Nat
  BY <1>1, RejFacts DEF DataType
<1> HIDE DEF d
<1>3. \A s \in Reqs : /\ rej[s] = 0 => LessD(d, rej)[s] = d[s]
                      /\ LessD(d, rej)[s].computed = d[s].computed - rej[s]
                      /\ LessD(d, rej)[s].last = d[s].last /\ LessD(d, rej)[s].drafts = d[s].drafts
  BY <1>1, LessDFacts
<1>4. /\ LessD(d, rej)[r].computed = d[r].computed - rej[r]
      /\ LessD(d, rej)[r].last = d[r].last /\ LessD(d, rej)[r].drafts = d[r].drafts
  BY <1>3
<1>5. Less(D, a, rej)[k] = LessD(d, rej)
  BY <1>1
<1> QED  BY ONLY <1>5, <1>2, <1>4 DEF d

LEMMA RowsSame ==
  ASSUME NEW B, NEW C, NEW o, NEW c, NEW r, \A e \in 1 .. c - o + 1 : InBatch(C[o + e - 1]) = InBatch(B[o + e - 1])
  PROVE  AllRows(C, o, c, r) = AllRows(B, o, c, r)
BY DEF AllRows, Rows

\* The counts when rej of the drafts were rejected in step a.
LEMMA CountsLess ==
  ASSUME NEW B, NEW C, NEW o, NEW a, NEW c, Window(o, a, a + 1, c), NEW rej, RejGood(B[a], rej),
         \A k \in o .. c : BatchGood(B[k]), NEW r \in Reqs, B[a].rejected[r] = 0, Rejecting(B, C, o, a, c, rej)
  PROVE  AllRejected(C, o, c, r) = AllRejected(B, o, c, r) + rej[r]
<1>0. o \in Nat /\ a \in Nat /\ c \in Nat /\ o > 0 /\ o <= a /\ a + 1 <= c + 1 /\ o <= c + 1
  BY DEF Window
<1> DEFINE v == Rejected(B, o, c, r)
           w == Rejected(C, o, c, r)
           n == c - o + 1
           i == a - o + 1
<1>1. n \in Nat /\ i \in 1 .. n /\ o + i - 1 = a
  BY <1>0
<1>2. \A e \in 1 .. n : o + e - 1 \in o .. c /\ (e # i => o + e - 1 # a)
  BY <1>0
<1>3. \A e \in 1 .. n : v[e] = B[o + e - 1].rejected[r] /\ w[e] = C[o + e - 1].rejected[r]
  BY DEF Rejected
<1>4. \A e \in 1 .. n : v[e] \in Nat
  <2>1. \A k \in o .. c : B[k].rejected[r] \in Nat
    BY RelayAssumption DEF BatchGood
  <2> QED  BY <1>2, <1>3, <2>1
<1>5. AllRejected(B, o, c, r) = Total(v, n) /\ AllRejected(C, o, c, r) = Total(w, n)
  BY DEF AllRejected
<1>8. rej[r] \in Nat
  BY RejFacts
<1> HIDE DEF v, w, n, i
<1>9. v[i] = 0 /\ w[i] = rej[r]
  BY <1>1, <1>3 DEF Rejecting
<1>10. \A e \in (1 .. n) \ {i} : w[e] = v[e]
  BY <1>2, <1>3 DEF Rejecting
<1>11. \A e \in 1 .. n : v[e] \in Int /\ w[e] \in Int
  BY <1>4, <1>8, <1>9, <1>10
<1>12. Total(w, n) = Total(v, n) + (w[i] - v[i])
  BY <1>1, <1>10, <1>11, TotalChange
<1>13. Total(v, n) \in Int
  BY <1>1, <1>11, TotalType
<1> QED  BY <1>5, <1>8, <1>9, <1>12, <1>13

\* A request whose drafts were rejected keeps its prefill.
LEMMA PrefillKept ==
  ASSUME NEW B, NEW D, NEW S, NEW a \in Nat, NEW c \in Nat, a <= c, NEW rej, RejGood(B[a], rej), Late(B, D, a, c, rej),
         S[Last].phase = "sample", S[Last].next = a, D \in [Nat -> [Reqs -> DataType]], Grows(D, B, a + 1, c),
         NEW r \in Reqs, rej[r] # 0, NEW n \in Nat, Floor(D, B, S, c, r, n), NEW k \in a + 1 .. c + 1
  PROVE  n <= D[k][r].computed - rej[r]
<1>1. B[a].row[r].kind = "decode" /\ rej[r] \in Nat /\ rej[r] <= NumSpec
  BY RejFacts
<1>2. ReachedOf(S[Last]) = a + 1
  BY DEF ReachedOf
<1>3. n + 1 + NumSpec <= D[a + 1][r].computed
  BY <1>1, <1>2 DEF Floor
<1>4. a + 1 \in a + 1 .. c + 1 /\ a + 1 <= k /\ \A i \in a + 1 .. k - 1 : i \in a + 1 .. c
  OBVIOUS
<1>5. \A i \in a + 1 .. k - 1 : r \notin B[i].new
  BY <1>4 DEF Late
<1>6. D[a + 1][r].computed <= D[k][r].computed
  BY <1>4, <1>5 DEF Grows
<1>7. D[a + 1][r].computed \in Int /\ D[k][r].computed \in Int
  <2>1. a + 1 \in Nat /\ k \in Nat
    OBVIOUS
  <2> QED  BY <2>1 DEF DataType
<1>8. NumSpec \in Nat
  BY RelayAssumption
<1> QED  BY <1>1, <1>3, <1>6, <1>7, <1>8

LEMMA FloorLess ==
  ASSUME NEW B, NEW C, NEW D, NEW S, NEW T, NEW o, NEW a, NEW c, Window(o, a, a + 1, c), NEW rej, RejGood(B[a], rej),
         Late(B, D, a, c, rej), Rejecting(B, C, o, a, c, rej), S[Last].phase = "sample", S[Last].next = a,
         T[Last].phase = "execute", T[Last].next = a + 1, D \in [Nat -> [Reqs -> DataType]],
         Grows(D, B, a + 1, c), NEW r \in Reqs, NEW n \in Nat, Floor(D, B, S, c, r, n)
  PROVE  Floor(Less(D, a, rej), C, T, c, r, n)
<1>0. o \in Nat /\ a \in Nat /\ c \in Nat /\ o > 0 /\ o <= a /\ a <= c
  BY DEF Window
<1> DEFINE E == Less(D, a, rej)
<1>1. ReachedOf(S[Last]) = a + 1 /\ ReachedOf(T[Last]) = a + 1
  BY DEF ReachedOf
<1>2. ASSUME NEW k \in a + 1 .. c, C[k].row[r].kind = "decode" PROVE n <= E[k][r].computed
  <2>1. k \in Nat /\ k > a /\ k \in a + 1 .. c + 1 /\ k \in o .. c /\ k # a
    BY <1>0
  <2>2. E[k][r].computed = D[k][r].computed - rej[r] /\ D[k][r].computed \in Int
    BY <1>0, <2>1, LessAt
  <2>3. B[k].row[r].kind = "decode"
    BY <1>2, <2>1 DEF Rejecting
  <2>4. n <= D[k][r].computed
    BY <1>1, <2>3 DEF Floor
  <2>5. rej[r] # 0 => n <= D[k][r].computed - rej[r]
    BY <1>0, <2>1, PrefillKept
  <2> HIDE DEF E
  <2> QED  BY <2>2, <2>4, <2>5
<1> QED  BY <1>1, <1>2 DEF Floor

LEMMA InUseLess ==
  ASSUME NEW B, NEW C, NEW D, NEW o, NEW a, NEW c, Window(o, a, a + 1, c), NEW rej, RejGood(B[a], rej),
         Late(B, D, a, c, rej), Rejecting(B, C, o, a, c, rej), D \in [Nat -> [Reqs -> DataType]],
         \A k \in o .. c : BatchGood(B[k]), NEW r \in Reqs, B[a].rejected[r] = 0,
         NEW q \in RequestType, InUseOK(B, o, c, r, q, D[c + 1][r]),
         rej[r] # 0 => q.prefill <= D[c + 1][r].computed - rej[r]
  PROVE  InUseOK(C, o, c, r, q, Less(D, a, rej)[c + 1][r])
<1>0. o \in Nat /\ a \in Nat /\ c \in Nat /\ o > 0 /\ o <= a /\ a <= c /\ o <= c + 1
  BY DEF Window
<1> DEFINE d == D[c + 1]
           e == Less(D, a, rej)[c + 1]
           m == AllRejected(B, o, c, r)
<1>2. AllRejected(C, o, c, r) = m + rej[r]
  BY CountsLess
<1>3. m \in Nat
  BY <1>0, CountsType
<1>4. /\ q.computed = d[r].computed + m
      /\ d[r].last = 0 => q.computed < q.prefill /\ \A k \in o .. c : B[k].rejected[r] = 0
      /\ d[r].last > 0 => q.eligible = d[r].last + PPSize /\ q.prefill <= d[r].computed
  BY DEF InUseOK
<1>5. rej[r] # 0 => d[r].last >= a /\ q.prefill <= d[r].computed - rej[r]
  BY <1>0 DEF Late
<1>6. rej[r] \in Nat
  BY RejFacts
<1> HIDE DEF d, m, e
<1>7. /\ e[r].computed = d[r].computed - rej[r] /\ e[r].last = d[r].last
      /\ d[r].computed \in Int /\ d[r].last \in Nat
  <2>1. c + 1 \in Nat /\ c + 1 > a
    BY <1>0
  <2> QED  BY <1>0, <2>1, LessAt DEF d, e
<1>8. q.computed = e[r].computed + AllRejected(C, o, c, r)
  BY <1>2, <1>3, <1>4, <1>6, <1>7
<1>9. ASSUME e[r].last = 0 PROVE q.computed < q.prefill /\ \A k \in o .. c : C[k].rejected[r] = 0
  <2>1. rej[r] = 0
    BY <1>0, <1>5, <1>7, <1>9
  <2>2. \A k \in o .. c : C[k].rejected[r] = 0
    BY <1>4, <1>7, <1>9, <2>1 DEF Rejecting
  <2> QED  BY <1>4, <1>7, <1>9, <2>2
<1>10. e[r].last > 0 => q.eligible = e[r].last + PPSize /\ q.prefill <= e[r].computed
  BY <1>4, <1>5, <1>6, <1>7
<1> QED  BY <1>8, <1>9, <1>10 DEF InUseOK, e

LEMMA RequestsLess ==
  ASSUME NEW B, NEW C, NEW D, NEW L, NEW S, NEW T, NEW Q, NEW F, NEW o, NEW a, NEW c, Window(o, a, a + 1, c),
         NEW rej, RejGood(B[a], rej), Late(B, D, a, c, rej), Rejecting(B, C, o, a, c, rej),
         S[Last].phase = "sample", S[Last].next = a, T[Last].phase = "execute", T[Last].next = a + 1,
         D \in [Nat -> [Reqs -> DataType]], StepsOK(D, L, B, a, a + 1, o, c),
         RequestsOK(D, L, B, S, Q, F, o, c)
  PROVE  RequestsOK(Less(D, a, rej), L, C, T, Q, F, o, c)
<1>0. o \in Nat /\ a \in Nat /\ c \in Nat /\ o > 0 /\ o <= a /\ a <= c /\ o <= c + 1
  BY DEF Window
<1>1. /\ DOMAIN Q = Reqs /\ F \subseteq Reqs /\ Active(Q) \cap F = {}
      /\ Active(Q) \subseteq Holders(L[c + 1]) /\ Holders(L[c + 1]) \subseteq Active(Q) \cup F
      /\ \A r \in Reqs : RequestOK(B, o, c, r, Q[r])
      /\ \A r \in Active(Q) : /\ InUseOK(B, o, c, r, Q[r], D[c + 1][r])
                              /\ Floor(D, B, S, c, r, Q[r].prefill)
  BY DEF RequestsOK
<1>2. (\A k \in o .. c : BatchGood(B[k])) /\ Grows(D, B, a + 1, c)
  BY DEF StepsOK
<1>3. \A r \in Reqs : B[a].rejected[r] = 0
  BY <1>0 DEF StepsOK
<1>4. ASSUME NEW r \in Reqs PROVE RequestOK(C, o, c, r, Q[r])
  <2>0. B[a].rejected[r] = 0 /\ \A k \in o .. c : BatchGood(B[k])
    BY <1>2, <1>3
  <2>1. AllRows(C, o, c, r) = AllRows(B, o, c, r)
    <3>1. \A e \in 1 .. c - o + 1 : o + e - 1 \in o .. c
      BY <1>0
    <3>2. \A e \in 1 .. c - o + 1 : InBatch(C[o + e - 1]) = InBatch(B[o + e - 1])
      BY <3>1, RejectingSame, SameBatchRows
    <3> QED  BY <3>2, RowsSame
  <2> QED  BY <1>1, <2>1 DEF RequestOK
<1>5. ASSUME NEW r \in Active(Q)
      PROVE  InUseOK(C, o, c, r, Q[r], Less(D, a, rej)[c + 1][r]) /\ Floor(Less(D, a, rej), C, T, c, r, Q[r].prefill)
  <2> DEFINE q == Q[r]
             n == q.prefill
  <2>1. r \in Reqs /\ InUseOK(B, o, c, r, q, D[c + 1][r]) /\ Floor(D, B, S, c, r, n) /\ q \in RequestType
    BY <1>1 DEF Active, RequestOK
  <2>2. n \in Nat
    BY <2>1 DEF RequestType
  <2> HIDE DEF q, n
  <2>3. rej[r] # 0 => n <= D[c + 1][r].computed - rej[r]
    <3>1. c + 1 \in a + 1 .. c + 1
      BY <1>0
    <3> QED  BY <1>0, <1>2, <2>1, <2>2, <3>1, PrefillKept
  <2>4. Floor(Less(D, a, rej), C, T, c, r, n)
    BY <1>2, <2>1, <2>2, FloorLess
  <2>5. InUseOK(C, o, c, r, q, Less(D, a, rej)[c + 1][r])
    BY <1>2, <1>3, <2>1, <2>3, InUseLess DEF n
  <2> QED  BY <2>4, <2>5 DEF q, n
<1> QED  BY <1>1, <1>4, <1>5 DEF RequestsOK

\* The receives q and the wire w of a stage that will hear next of step a.
Awaits(q, w, a) ==
  /\ IsSeq(q) /\ IsSeq(w) /\ Groups3(w) \in Nat /\ Len(w) = 3 * Groups3(w)
  /\ \A e \in 1 .. Len(q) : q[e].step \in Nat
  /\ Groups3(w) + 1 \in 1 .. Len(q) /\ q[Groups3(w) + 1].step = a
  /\ Increase(q)

LEMMA PairedAwaits ==
  ASSUME NEW w, NEW q, NEW a \in Nat, NEW b \in Nat, NEW ph, NEW N, Paired(w, q, a, b, ph, N), a < b, a \in N
  PROVE  Awaits(q, w, a)
<1> DEFINE m == Groups3(w)
           n == Len(q)
<1>1. /\ IsSeq(w) /\ IsSeq(q) /\ Len(w) = 3 * m
      /\ \A e \in 1 .. n : q[e].step \in Nat
      /\ \A e, f \in 1 .. n : e < f => q[e].step < q[f].step
      /\ \A e \in 1 .. n : q[e].step >= a <=> e > m
      /\ \E e \in 1 .. n : q[e].step = a
  BY DEF Paired
<1>2. m \in Nat
  BY <1>1, GroupsFacts
<1>3. n \in Nat
  BY <1>1, IsSeqFacts
<1>4. PICK e \in 1 .. n : q[e].step = a
  BY <1>1
<1> HIDE DEF m, n
<1>5. e > m /\ m + 1 \in 1 .. n
  BY <1>1, <1>2, <1>3, <1>4
<1>6. m + 1 > m
  BY <1>2
<1>7. q[m + 1].step >= a /\ q[m + 1].step \in Nat
  BY <1>1, <1>5, <1>6
<1>8. e > m + 1 => q[m + 1].step < q[e].step
  BY <1>1, <1>5
<1>9. ~(e > m + 1)
  BY <1>4, <1>7, <1>8
<1>10. e = m + 1
  BY <1>2, <1>5, <1>9
<1> QED  BY <1>1, <1>2, <1>4, <1>5, <1>10 DEF Awaits, Increase, m, n

\* What the last stage samples is what the others wait for.
LEMMA OthersAwait ==
  ASSUME IInv, stage[Last].phase = "sample", NEW p \in Ranks \ {Last}
  PROVE  Awaits(Receives(stage[p]), wire[p], stage[Last].next) /\ ReachedOf(stage[p]) > stage[Last].next
<1> DEFINE w == wire[p]
           st == stage[p]
           q == st.pending
           b == st.next
           a == stage[Last].next
<1>0. p \in Ranks /\ Last \in Ranks
  BY LastFacts
<1>1. Paired(w, q, a, b, st.phase, WithRows) /\ a \in WithRows
  BY DEF IInv, WiresPaired
<1>2. a \in Nat /\ b \in Nat /\ st.phase \in {"execute", "sample"} /\ ReachedOf(st) \in Nat
  BY <1>0, ReachedFacts
<1>3. ReachedOf(st) > a
  <2>1. ReachedOf(stage[Last]) = a + 1 /\ ReachedOf(stage[Last]) <= ReachedOf(st)
    BY <1>0, WindowFacts DEF ReachedOf
  <2> QED  BY <1>2, <2>1
<1>4. CASE st.phase = "sample"
  <2> DEFINE x == Posted(st, b)
  <2>1. x.step = b /\ Receives(st) = Append(q, x) /\ ReachedOf(st) = b + 1
    BY <1>4 DEF Posted, Receives, ReachedOf
  <2>2. Paired(w, q, a, b, "sample", WithRows)
    BY <1>1, <1>4
  <2> HIDE DEF x, w, q, a, b
  <2>3. Paired(w, Append(q, x), a, b + 1, "execute", WithRows)
    BY <1>2, <2>1, <2>2, PostPaired
  <2>4. a < b + 1 /\ b + 1 \in Nat
    BY <1>2, <1>3, <2>1
  <2>5. Awaits(Append(q, x), w, a)
    BY <1>1, <1>2, <2>3, <2>4, PairedAwaits
  <2> QED  BY <1>3, <2>1, <2>5 DEF w, a
<1>5. CASE st.phase = "execute"
  <2>1. Receives(st) = q /\ ReachedOf(st) = b
    BY <1>5 DEF Receives, ReachedOf
  <2> HIDE DEF w, q, a, b
  <2>2. a < b
    BY <1>2, <1>3, <2>1
  <2>3. Awaits(q, w, a)
    BY <1>1, <1>2, <2>2, PairedAwaits
  <2> QED  BY <1>3, <2>1, <2>3 DEF w, a
<1> QED  BY <1>2, <1>4, <1>5

\* No stage before the last is so far ahead that it could have read what was rejected.
NotAhead(S, a) ==
  \A p \in Ranks \ {Last} : ReachedOf(S[p]) \in Nat /\ ReachedOf(S[p]) <= a + PPSize

LEMMA FreshAwaits ==
  ASSUME NEW q, NEW w, NEW a \in Nat, NEW b \in Nat, Awaits(q, w, a), Fresh(q, b)
  PROVE  b <= a + PPSize
<1> DEFINE e == Groups3(w) + 1
<1>1. e \in 1 .. Len(q) /\ q[e].step = a
  BY DEF Awaits
<1> HIDE DEF e
<1>2. a >= b - PPSize
  BY <1>1 DEF Fresh
<1> QED  BY <1>2, RelayAssumption

LEMMA OthersNotAhead ==
  ASSUME IInv, stage[Last].phase = "sample", NEW D, NEW L, StagesMatch(D, L, stage, wire)
  PROVE  NotAhead(stage, stage[Last].next)
<1> SUFFICES ASSUME NEW p \in Ranks \ {Last}
             PROVE  ReachedOf(stage[p]) \in Nat /\ ReachedOf(stage[p]) <= stage[Last].next + PPSize
  BY DEF NotAhead
<1> DEFINE q == Receives(stage[p])
           w == wire[p]
           a == stage[Last].next
           b == ReachedOf(stage[p])
<1>1. a \in Nat /\ b \in Nat
  BY LastFacts, ReachedFacts
<1>2. Awaits(q, w, a)
  BY OthersAwait
<1>3. Fresh(q, b)
  BY DEF StagesMatch, OtherMatches
<1> HIDE DEF q, w, a, b
<1>4. b <= a + PPSize
  BY <1>1, <1>2, <1>3, FreshAwaits
<1> QED  BY <1>1, <1>4 DEF a, b

Unharmed(b, rej) == \A r \in InBatch(b) : rej[r] = 0

SeesSame(b, e, d) == \A l : Seen(b, e, l) = Seen(b, d, l)

LEMMA SeenLess ==
  ASSUME NEW B, NEW D, NEW a \in Nat, NEW c \in Nat, NEW rej, RejGood(B[a], rej), Late(B, D, a, c, rej),
         D \in [Nat -> [Reqs -> DataType]], NEW j \in a + 1 .. c, Unharmed(B[j], rej)
  PROVE  SeesSame(B[j], Less(D, a, rej)[j], D[j])
<1> DEFINE b == B[j]
           e == Less(D, a, rej)[j]
           d == D[j]
<1>1. \A r \in InBatch(b) : Begun(b, e)[r] = Begun(b, d)[r]
  <2> SUFFICES ASSUME NEW r \in InBatch(b) PROVE Begun(b, e)[r] = Begun(b, d)[r]
    OBVIOUS
  <2>1. r \in Reqs /\ rej[r] = 0
    BY DEF InBatch, Unharmed
  <2>2. BeginsLess(b, e, d, r, rej[r])
    BY <2>1, BeginsLate
  <2> HIDE DEF b, e, d
  <2> QED  BY <2>1, <2>2 DEF BeginsLess
<1> HIDE DEF b, e, d
<1>2. \A l : Seen(b, e, l) = Seen(b, d, l)
  BY <1>1, Zenon DEF Seen
<1> QED  BY <1>2 DEF b, e, d, SeesSame

LEMMA ViewsLess ==
  ASSUME NEW B, NEW C, NEW D, NEW L, NEW S, NEW T, NEW o, NEW a, NEW c, Window(o, a, a + 1, c),
         NEW rej, RejGood(B[a], rej), Late(B, D, a, c, rej), Rejecting(B, C, o, a, c, rej),
         D \in [Nat -> [Reqs -> DataType]], ReachedOf(S[Last]) = a + 1,
         \A p \in Ranks : ReachedOf(T[p]) = ReachedOf(S[p]), NotAhead(S, a), ViewsOK(D, L, B, S, o, c)
  PROVE  ViewsOK(Less(D, a, rej), L, C, T, o, c)
<1>0. o \in Nat /\ a \in Nat /\ c \in Nat /\ o > 0 /\ o <= a /\ a <= c /\ PPSize \in Nat /\ Last \in Ranks
  BY LastFacts DEF Window
<1>1. /\ \A k \in o .. c : Agree(B[k]) /\ Bounded(B[k])
      /\ \A k \in o .. c : \A p \in Executed(B[k]) : ReachedOf(S[p]) > k
      /\ \A k \in a + 1 .. c : \A p \in Executed(B[k]) : B[k].view[p] = Seen(B[k], D[k], L[k + 1])
  BY DEF ViewsOK
<1>2. \A k \in o .. c : /\ C[k].view = B[k].view /\ C[k].row = B[k].row /\ InBatch(C[k]) = InBatch(B[k])
                        /\ Executed(C[k]) = Executed(B[k])
  <2>1. \A k \in o .. c : SameBatch(B[k], C[k]) /\ C[k].view = B[k].view
    BY RejectingSame
  <2> QED  BY <2>1, SameBatchRows DEF SameBatch, Executed
<1>3. \A k \in o .. c : Agree(C[k]) /\ Bounded(C[k])
  <2> SUFFICES ASSUME NEW k \in o .. c PROVE Agree(C[k]) /\ Bounded(C[k])
    OBVIOUS
  <2>1. Agree(C[k])
    BY <1>1, <1>2 DEF Agree
  <2>2. Bounded(C[k])
    BY <1>1, <1>2 DEF Bounded
  <2> QED  BY <2>1, <2>2
<1>4. \A k : \A p \in Executed(B[k]) : p \in Ranks
  BY DEF Executed
<1>5. \A k \in o .. c : \A p \in Executed(C[k]) : ReachedOf(T[p]) > k
  BY <1>1, <1>2, <1>4
<1>6. ReachedOf(T[Last]) = a + 1
  BY <1>0
<1>7. ASSUME NEW k \in a + 1 .. c, NEW p \in Executed(C[k])
      PROVE  C[k].view[p] = Seen(C[k], Less(D, a, rej)[k], L[k + 1])
  <2>1. k \in o .. c /\ k # a /\ k \in Nat /\ k > a
    BY <1>0
  <2>2. C[k] = B[k] /\ p \in Executed(B[k]) /\ p \in Ranks
    BY <1>2, <1>4, <2>1 DEF Rejecting
  <2>3. ReachedOf(S[p]) > k
    BY <1>1, <2>1, <2>2
  <2>4. p # Last
    BY <1>0, <2>1, <2>3
  <2>5. ReachedOf(S[p]) \in Nat /\ ReachedOf(S[p]) <= a + PPSize
    BY <2>2, <2>4 DEF NotAhead
  <2>6. ~(k >= a + PPSize)
    BY <1>0, <2>1, <2>3, <2>5
  <2>7. Unharmed(B[k], rej)
    BY <2>6 DEF Late, InBatch, Unharmed
  <2>8. Seen(B[k], Less(D, a, rej)[k], L[k + 1]) = Seen(B[k], D[k], L[k + 1])
    <3>1. SeesSame(B[k], Less(D, a, rej)[k], D[k])
      BY <1>0, <2>7, SeenLess
    <3> QED  BY <3>1 DEF SeesSame
  <2>9. B[k].view[p] = Seen(B[k], D[k], L[k + 1])
    BY <1>1, <2>2
  <2> QED  BY <2>2, <2>8, <2>9
<1> QED  BY <1>3, <1>5, <1>6, <1>7 DEF ViewsOK

RejectedOf(b, rejected) == [r \in Reqs |-> IF r \in InBatch(b) THEN rejected[r] ELSE 0]
NoneOf(b) == [r \in InBatch(b) |-> 0]

\* What rejected drafts change in a slot that holds the data past the step.
LEMMA SettledLess ==
  ASSUME NEW inp, RowsGood(inp.row), NEW T \in [Slots -> SlotShape], OwnersDiffer(T), NEW k \in Nat,
         NEW rejected \in [InBatch(inp) -> 0 .. NumSpec], NEW d \in [Reqs -> DataType],
         NEW b, RejGood(b, RejectedOf(inp, rejected)), TableHolds(Settled(inp, T, k, NoneOf(inp)), d)
  PROVE  TableHolds(Settled(inp, T, k, rejected), LessD(d, RejectedOf(inp, rejected)))
<1> DEFINE rej == RejectedOf(inp, rejected)
           U == Settled(inp, T, k, rejected)
           V == Settled(inp, T, k, NoneOf(inp))
           e == LessD(d, rej)
<1>1. \A r \in InBatch(inp) : r \in Reqs /\ rejected[r] \in Nat /\ NoneOf(inp)[r] \in Nat /\ NoneOf(inp)[r] = 0
                              /\ rej[r] = rejected[r]
  <2>1. NumSpec \in Nat
    BY RelayAssumption
  <2> QED  BY <2>1 DEF InBatch, NoneOf, RejectedOf
<1>2. \A r \in Reqs : r \notin InBatch(inp) => rej[r] = 0
  BY DEF RejectedOf
<1>3. U \in [Slots -> SlotShape] /\ SettledShape(inp, T, k, rejected, U)
  BY <1>1, SettledFacts
<1>4. V \in [Slots -> SlotShape] /\ SettledShape(inp, T, k, NoneOf(inp), V)
  BY <1>1, SettledFacts
<1>5. \A r \in Reqs : /\ rej[r] = 0 => e[r] = d[r]
                      /\ e[r].computed = d[r].computed - rej[r]
                      /\ e[r].last = d[r].last /\ e[r].drafts = d[r].drafts
  BY LessDFacts
<1>6. \A r \in Reqs : Holds(V, r) => SlotHolds(V[SlotOf(V, r)], d[r])
  BY DEF TableHolds
<1> HIDE DEF U, V, e, rej
<1>7. /\ \A s \in Slots : U[s].owner = T[s].owner
      /\ \A s \in Slots : V[s].owner = T[s].owner
  BY <1>3, <1>4 DEF SettledShape
<1>8. \A r \in Reqs : /\ Holds(U, r) <=> Holds(T, r)
                      /\ Holds(T, r) => /\ SlotOf(U, r) = SlotOf(T, r)
                                        /\ SlotOf(T, r) \in Slots /\ T[SlotOf(T, r)].owner = r
  BY <1>7, SameOwners
<1>9. \A r \in Reqs : /\ Holds(V, r) <=> Holds(T, r)
                      /\ Holds(T, r) => /\ SlotOf(V, r) = SlotOf(T, r)
                                        /\ SlotOf(T, r) \in Slots /\ T[SlotOf(T, r)].owner = r
  BY <1>7, SameOwners
<1>10. ASSUME NEW r \in Reqs, Holds(U, r) PROVE SlotHolds(U[SlotOf(U, r)], e[r])
  <2> DEFINE s == SlotOf(T, r)
  <2>1. s \in Slots /\ T[s].owner = r /\ SlotOf(U, r) = s /\ SlotOf(V, r) = s /\ Holds(V, r)
    BY <1>8, <1>9, <1>10
  <2>2. SlotHolds(V[s], d[r])
    BY <1>6, <2>1
  <2> HIDE DEF s
  <2>3. CASE r \in InBatch(inp)
    <3>1. /\ U[s].computed = (T[s].computed + inp.row[r].n) - rejected[r] /\ U[s].drafts = Proposal(inp, k)
          /\ Samples(inp, r) => U[s].last = k
          /\ ~Samples(inp, r) => U[s].last = T[s].last
      BY <1>3, <2>1, <2>3 DEF SettledShape
    <3>2. /\ V[s].computed = (T[s].computed + inp.row[r].n) - NoneOf(inp)[r] /\ V[s].drafts = Proposal(inp, k)
          /\ Samples(inp, r) => V[s].last = k
          /\ ~Samples(inp, r) => V[s].last = T[s].last
      BY <1>4, <2>1, <2>3 DEF SettledShape
    <3>3. /\ rejected[r] \in Nat /\ NoneOf(inp)[r] = 0 /\ rej[r] = rejected[r]
      BY <1>1, <2>3
    <3>4. T[s].computed \in Int /\ inp.row[r].n \in Nat
      <4>1. T[s] \in SlotShape
        BY <2>1
      <4> QED  BY <4>1, RowFacts DEF SlotShape
    <3>5. U[s].computed = V[s].computed - rej[r]
      <4> DEFINE t == T[s].computed
                 n == inp.row[r].n
                 x == rejected[r]
      <4>1. t \in Int /\ n \in Nat /\ x \in Nat
        BY <3>3, <3>4
      <4>2. U[s].computed = (t + n) - x /\ V[s].computed = (t + n) - 0 /\ rej[r] = x
        BY <3>1, <3>2, <3>3
      <4> HIDE DEF t, n, x
      <4> QED  BY <4>1, <4>2
    <3>6. U[s].drafts = V[s].drafts /\ U[s].last = V[s].last
      BY <3>1, <3>2
    <3>7. V[s].computed = d[r].computed /\ (d[r].last > 0 => V[s].last = d[r].last /\ V[s].drafts = d[r].drafts)
      BY <2>2 DEF SlotHolds
    <3>8. /\ e[r].computed = d[r].computed - rej[r]
          /\ e[r].last = d[r].last /\ e[r].drafts = d[r].drafts
      BY <1>5
    <3> QED  BY <2>1, <3>5, <3>6, <3>7, <3>8 DEF SlotHolds
  <2>4. CASE r \notin InBatch(inp)
    <3>1. U[s] = T[s] /\ V[s] = T[s]
      BY <1>3, <1>4, <2>1, <2>4 DEF SettledShape
    <3>2. e[r] = d[r]
      BY <1>2, <1>5, <2>4
    <3> QED  BY <2>1, <2>2, <3>1, <3>2
  <2> QED  BY <2>3, <2>4
<1>11. TableHolds(U, e)
  BY <1>3, <1>10 DEF TableHolds
<1> QED  BY <1>11 DEF U, e, rej

\* The last stage after sample_tokens.
SampledOf(st, rejected) ==
  [st EXCEPT !.phase = "execute", !.next = st.next + 1, !.input = NoInput,
             !.table = Settled(st.input, @, st.next, rejected)]

LEMMA SampledFields ==
  ASSUME NEW st, DOMAIN st = StageFields, NEW rejected
  PROVE  /\ DOMAIN SampledOf(st, rejected) = StageFields
         /\ SampledOf(st, rejected).phase = "execute" /\ SampledOf(st, rejected).next = st.next + 1
         /\ SampledOf(st, rejected).table = Settled(st.input, st.table, st.next, rejected)
         /\ SampledOf(st, rejected).free = st.free /\ SampledOf(st, rejected).pending = st.pending
BY DEF SampledOf, StageFields

LEMMA LastSampled ==
  ASSUME NEW st, DOMAIN st = StageFields, st.phase = "sample", st.next \in Nat, NEW d \in [Reqs -> DataType],
         NEW l, LayoutGood(l), LastMatches(st, d, l), RowsGood(st.input.row),
         NEW rejected \in [InBatch(st.input) -> 0 .. NumSpec],
         NEW b, RejGood(b, RejectedOf(st.input, rejected))
  PROVE  LastMatches(SampledOf(st, rejected), LessD(d, RejectedOf(st.input, rejected)), l)
<1> DEFINE inp == st.input
           T == st.table
           k == st.next
           x == SampledOf(st, rejected)
           rej == RejectedOf(inp, rejected)
           e == LessD(d, rej)
<1>1. /\ x.phase = "execute" /\ x.table = Settled(inp, T, k, rejected) /\ x.free = st.free
  BY SampledFields
<1>2. Layout(st) = l /\ T \in [Slots -> SlotShape] /\ Matches(LastTable(st), <<>>, <<>>, d)
  BY DEF LastMatches
<1>3. LastTable(st) = Settled(inp, T, k, NoneOf(inp))
  BY DEF LastTable, NoneOf
<1>4. OwnersDiffer(T)
  BY <1>2, LayoutOwners
<1>5. TableHolds(Settled(inp, T, k, NoneOf(inp)), d)
  BY <1>2, <1>3, EmptySeqMatches
<1>6. \A r \in InBatch(inp) : rejected[r] \in Nat
  BY RelayAssumption
<1> HIDE DEF x
<1>7. TableHolds(x.table, e)
  <2>1. RowsGood(inp.row) /\ RejGood(b, rej) /\ k \in Nat /\ rejected \in [InBatch(inp) -> 0 .. NumSpec]
    OBVIOUS
  <2> HIDE DEF inp, T, k
  <2>2. TableHolds(Settled(inp, T, k, rejected), e)
    BY <1>2, <1>4, <1>5, <2>1, SettledLess
  <2> QED  BY <1>1, <2>2
<1>8. x.table \in [Slots -> SlotShape] /\ \A s \in Slots : x.table[s].owner = T[s].owner
  <2>1. RowsGood(inp.row) /\ k \in Nat
    OBVIOUS
  <2> HIDE DEF inp, T, k
  <2>2. Settled(inp, T, k, rejected) \in [Slots -> SlotShape]
        /\ SettledShape(inp, T, k, rejected, Settled(inp, T, k, rejected))
    BY <1>2, <1>6, <2>1, SettledFacts
  <2> QED  BY <1>1, <2>2 DEF SettledShape
<1>9. Layout(x) = Layout(st)
  BY <1>1, <1>8 DEF Layout
<1>10. LastTable(x) = x.table
  BY <1>1 DEF LastTable
<1>11. Matches(x.table, <<>>, <<>>, e)
  BY <1>7, EmptySeqMatches
<1> QED  BY <1>2, <1>8, <1>9, <1>10, <1>11 DEF LastMatches, x

\* The broadcasts t tell what was sampled and rejected in step a; the latest token of a
\* request with rejected drafts is of that step.
Tells(t, d, a, rej) ==
  \A r \in Reqs :
    /\ d[r].last = a => t[1].data[r] = a /\ t[2].data[r] = rej[r] /\ t[3].data[r] = d[r].drafts
    /\ rej[r] # 0 => d[r].last = a

\* What comes for a slot.
Brings(w, i, x, r, d) ==
  IF 3 * i <= Len(w)
    THEN /\ w[3 * i - 2].data[r] = d.last /\ w[3 * i].data[r] = d.drafts
         /\ x.computed - w[3 * i - 1].data[r] = d.computed
    ELSE x.computed = d.computed

LEMMA WillBring ==
  ASSUME NEW q, NEW w, NEW x, NEW r, NEW d
  PROVE  SlotWill(q, w, x, r, d) <=>
           /\ \A i \in 1 .. Len(q) : q[i].step = d.last => Brings(w, i, x, r, d)
           /\ (\A i \in 1 .. Len(q) : q[i].step # d.last) => SlotHolds(x, d)
BY DEF SlotWill, Brings

LEMMA SentWill ==
  ASSUME NEW q, NEW w, NEW a \in Nat, Awaits(q, w, a), NEW t, IsSeq(t), Len(t) = 3,
         NEW d \in [Reqs -> DataType], NEW b, NEW rej, RejGood(b, rej), Tells(t, d, a, rej),
         NEW r \in Reqs, NEW x, SlotWill(q, w, x, r, d[r])
  PROVE  SlotWill(q, w \o t, x, r, LessD(d, rej)[r])
<1> DEFINE m == Groups3(w)
           n == Len(q)
           v == w \o t
           y == d[r]
           e == LessD(d, rej)[r]
           z == rej[r]
<1>1. /\ IsSeq(q) /\ IsSeq(w) /\ m \in Nat /\ Len(w) = 3 * m
      /\ \A i \in 1 .. n : q[i].step \in Nat
      /\ m + 1 \in 1 .. n /\ q[m + 1].step = a
      /\ \A i, j \in 1 .. n : i < j => q[i].step < q[j].step
  BY DEF Awaits, Increase
<1>2. n \in Nat
  BY <1>1, IsSeqFacts
<1>3. /\ IsSeq(v) /\ Len(v) = Len(w) + Len(t)
      /\ \A i \in 1 .. Len(w) : v[i] = w[i]
      /\ \A i \in 1 .. Len(t) : v[Len(w) + i] = t[i]
  <2>1. IsSeq(w) /\ IsSeq(t)
    BY <1>1
  <2>2. /\ IsSeq(w \o t) /\ Len(w \o t) = Len(w) + Len(t)
        /\ \A i \in 1 .. Len(w) : (w \o t)[i] = w[i]
        /\ \A i \in 1 .. Len(t) : (w \o t)[Len(w) + i] = t[i]
    BY ONLY <2>1, ConcatSeq
  <2> QED  BY <2>2
<1>4. /\ z = 0 => e = y
      /\ e.computed = y.computed - z /\ e.last = y.last /\ e.drafts = y.drafts
  <2>1. \A s \in Reqs : /\ rej[s] = 0 => LessD(d, rej)[s] = d[s]
                        /\ LessD(d, rej)[s].computed = d[s].computed - rej[s]
                        /\ LessD(d, rej)[s].last = d[s].last /\ LessD(d, rej)[s].drafts = d[s].drafts
    BY LessDFacts
  <2> QED  BY <2>1
<1>5. /\ y.last = a => t[1].data[r] = a /\ t[2].data[r] = z /\ t[3].data[r] = y.drafts
      /\ z # 0 => y.last = a
  BY DEF Tells
<1>6. /\ \A i \in 1 .. n : q[i].step = y.last => Brings(w, i, x, r, y)
      /\ (\A i \in 1 .. n : q[i].step # y.last) => SlotHolds(x, y)
  <2> HIDE DEF y
  <2>1. SlotWill(q, w, x, r, y)
    BY DEF y
  <2> QED  BY <2>1, WillBring
<1> HIDE DEF m, n, v, y, e, z
<1>7. ASSUME NEW i \in 1 .. n, q[i].step = y.last PROVE Brings(v, i, x, r, e)
  <2>0. i \in Nat /\ i >= 1
    OBVIOUS
  <2>1. Brings(w, i, x, r, y)
    BY <1>6, <1>7
  <2>2. CASE y.last = a
    <3>1. i = m + 1
      <4>1. ~(i < m + 1) /\ ~(m + 1 < i)
        BY <1>1, <1>7, <2>2
      <4> QED  BY <1>1, <2>0, <4>1
    <3>2. /\ 3 * i = Len(w) + 3 /\ 3 * i - 2 = Len(w) + 1 /\ 3 * i - 1 = Len(w) + 2
          /\ Len(w) \in Nat /\ ~(3 * i <= Len(w)) /\ 3 * i <= Len(v)
      BY <1>1, <1>3, <3>1
    <3>3. v[3 * i - 2] = t[1] /\ v[3 * i - 1] = t[2] /\ v[3 * i] = t[3]
      BY <1>3, <3>2
    <3>4. x.computed = y.computed
      BY <2>1, <3>2 DEF Brings
    <3>5. /\ v[3 * i - 2].data[r] = e.last /\ v[3 * i].data[r] = e.drafts
          /\ x.computed - v[3 * i - 1].data[r] = e.computed
      BY <1>4, <1>5, <2>2, <3>3, <3>4
    <3> QED  BY <3>2, <3>5 DEF Brings
  <2>3. CASE y.last # a
    <3>1. e = y /\ i # m + 1
      BY <1>1, <1>4, <1>5, <1>7, <2>3
    <3>2. CASE i < m + 1
      <4>1. /\ 3 * i <= Len(w) /\ 3 * i <= Len(v)
            /\ 3 * i \in 1 .. Len(w) /\ 3 * i - 2 \in 1 .. Len(w) /\ 3 * i - 1 \in 1 .. Len(w)
        BY <1>1, <1>3, <2>0, <3>2
      <4>2. v[3 * i - 2] = w[3 * i - 2] /\ v[3 * i - 1] = w[3 * i - 1] /\ v[3 * i] = w[3 * i]
        BY <1>3, <4>1
      <4> QED  BY <2>1, <3>1, <4>1, <4>2 DEF Brings
    <3>3. CASE i > m + 1
      <4>1. ~(3 * i <= Len(w)) /\ ~(3 * i <= Len(v))
        BY <1>1, <1>3, <2>0, <3>3
      <4> QED  BY <2>1, <3>1, <4>1 DEF Brings
    <3> QED  BY <1>1, <2>0, <3>1, <3>2, <3>3
  <2> QED  BY <2>2, <2>3
<1>8. ASSUME \A i \in 1 .. n : q[i].step # e.last PROVE SlotHolds(x, e)
  <2>1. y.last # a
    BY <1>1, <1>4, <1>8
  <2>2. e = y
    BY <1>4, <1>5, <2>1
  <2> QED  BY <1>6, <1>8, <2>2
<1>9. \A i \in 1 .. n : q[i].step = e.last => Brings(v, i, x, r, e)
  BY <1>4, <1>7
<1>10. SlotWill(q, v, x, r, e)
  BY <1>8, <1>9, WillBring DEF n
<1> QED  BY <1>10 DEF v, e

LEMMA SentMatches ==
  ASSUME NEW st, NEW w, NEW a \in Nat, Awaits(Receives(st), w, a), NEW t, IsSeq(t), Len(t) = 3,
         \A i \in 1 .. 3 : t[i].data \in [Reqs -> Nat], NEW d \in [Reqs -> DataType], NEW l,
         NEW b, NEW rej, RejGood(b, rej), Tells(t, d, a, rej), OtherMatches(st, w, d, l)
  PROVE  OtherMatches(st, w \o t, LessD(d, rej), l)
<1> DEFINE q == Receives(st)
           U == OtherTable(st)
           e == LessD(d, rej)
<1>1. /\ Layout(st) = l /\ st.table \in [Slots -> SlotShape] /\ Carries(w)
      /\ Fresh(q, ReachedOf(st)) /\ Matches(U, q, w, d) /\ Awaits(q, w, a)
  BY DEF OtherMatches
<1>2. \A r \in Reqs : e[r].last = d[r].last
  <2>1. \A s \in Reqs : /\ rej[s] = 0 => LessD(d, rej)[s] = d[s]
                        /\ LessD(d, rej)[s].computed = d[s].computed - rej[s]
                        /\ LessD(d, rej)[s].last = d[s].last /\ LessD(d, rej)[s].drafts = d[s].drafts
    BY LessDFacts
  <2> QED  BY <2>1
<1>3. Carries(w \o t)
  <2>1. /\ IsSeq(w) /\ Len(w) \in Nat /\ IsSeq(t)
    BY <1>1, IsSeqFacts DEF Awaits
  <2>2. /\ IsSeq(w \o t) /\ Len(w \o t) = Len(w) + Len(t)
        /\ \A i \in 1 .. Len(w) : (w \o t)[i] = w[i]
        /\ \A i \in 1 .. Len(t) : (w \o t)[Len(w) + i] = t[i]
    BY ONLY <2>1, ConcatSeq
  <2> DEFINE v == w \o t
  <2> HIDE DEF v
  <2> SUFFICES ASSUME NEW i \in 1 .. Len(v) PROVE v[i].data \in [Reqs -> Nat]
    BY DEF Carries, v
  <2>3. CASE i <= Len(w)
    <3>1. i \in 1 .. Len(w) /\ v[i] = w[i]
      BY <2>1, <2>2, <2>3 DEF v
    <3> QED  BY <1>1, <3>1 DEF Carries
  <2>4. CASE ~(i <= Len(w))
    <3>1. i - Len(w) \in 1 .. 3 /\ Len(w) + (i - Len(w)) = i
      BY <2>1, <2>2, <2>4 DEF v
    <3>2. v[i] = t[i - Len(w)]
      BY <2>2, <3>1 DEF v
    <3> QED  BY <3>1, <3>2
  <2> QED  BY <2>3, <2>4
<1> HIDE DEF q, U
<1>4. ASSUME NEW r \in Reqs, Holds(U, r) PROVE SlotWill(q, w \o t, U[SlotOf(U, r)], r, e[r])
  <2> DEFINE x == U[SlotOf(U, r)]
  <2>1. SlotWill(q, w, x, r, d[r])
    BY <1>1, <1>4 DEF Matches
  <2> HIDE DEF x
  <2>2. SlotWill(q, w \o t, x, r, e[r])
    BY <1>1, <2>1, SentWill
  <2> QED  BY <2>2 DEF x
<1> HIDE DEF e
<1>5. Noted(U, q, e)
  <2>1. Noted(U, q, d)
    BY <1>1 DEF Matches
  <2> QED  BY <1>2, <2>1 DEF Noted
<1>6. U \in [Slots -> SlotShape]
  BY <1>1 DEF Matches
<1>7. Matches(U, q, w \o t, e)
  BY <1>4, <1>5, <1>6 DEF Matches
<1> QED  BY <1>1, <1>3, <1>7 DEF OtherMatches, q, U, e

\* What the broadcasts t of step k bring.
SentData(t, b, k, rejected) ==
  /\ t[1].data = [r \in Reqs |-> IF r \in InBatch(b) THEN k ELSE 0]
  /\ t[2].data = RejectedOf(b, rejected)
  /\ t[3].data = [r \in Reqs |-> IF r \in InBatch(b) THEN Proposal(b, k) ELSE 0]

LEMMA BroadcastsData ==
  ASSUME NEW b, NEW k, NEW rejected
  PROVE  SentData(Broadcasts(b, k, rejected), b, k, rejected)
<1> DEFINE t == Broadcasts(b, k, rejected)
           data == [sampled  |-> [r \in Reqs |-> IF r \in InBatch(b) THEN k ELSE 0],
                    combined |-> [r \in Reqs |-> IF r \in InBatch(b) THEN rejected[r] ELSE 0],
                    draft    |-> [r \in Reqs |-> IF r \in InBatch(b) THEN Proposal(b, k) ELSE 0]]
           sent == SendOrder(~HasPrefill(b))
<1>1. t = [i \in DOMAIN sent |-> [kind |-> sent[i], step |-> k, data |-> data[sent[i]]]]
  BY Zenon DEF Broadcasts
<1>2. sent = <<"sampled", "combined", "draft">>
  BY DEF SendOrder
<1>3. /\ data["sampled"] = [r \in Reqs |-> IF r \in InBatch(b) THEN k ELSE 0]
      /\ data["combined"] = RejectedOf(b, rejected)
      /\ data["draft"] = [r \in Reqs |-> IF r \in InBatch(b) THEN Proposal(b, k) ELSE 0]
  BY DEF RejectedOf
<1> HIDE DEF t, data, sent
<1>4. t[1].data = data["sampled"] /\ t[2].data = data["combined"] /\ t[3].data = data["draft"]
  BY <1>1, <1>2
<1> QED  BY <1>3, <1>4 DEF SentData, t

LEMMA SentTells ==
  ASSUME NEW B, NEW D, NEW L, NEW o, NEW a, NEW c, Window(o, a, a + 1, c),
         D \in [Nat -> [Reqs -> DataType]], StepsOK(D, L, B, a, a + 1, o, c),
         NEW inp, inp.row = B[a].row, NEW rejected, NEW rej, rej = RejectedOf(inp, rejected),
         RejGood(B[a], rej), Late(B, D, a, c, rej), NEW g \in a + 1 .. c + 1, g <= a + PPSize,
         NEW t, SentData(t, inp, a, rejected)
  PROVE  Tells(t, D[g], a, rej)
<1>0. o \in Nat /\ a \in Nat /\ c \in Nat /\ o > 0 /\ o <= a /\ a <= c /\ g \in Nat /\ PPSize \in Nat
  BY LastFacts DEF Window
<1> DEFINE d == D[g]
<1> SUFFICES ASSUME NEW r \in Reqs
             PROVE  /\ d[r].last = a => t[1].data[r] = a /\ t[2].data[r] = rej[r] /\ t[3].data[r] = d[r].drafts
                    /\ rej[r] # 0 => d[r].last = a
  BY Zenon DEF Tells
<1>1. LastSays(B, a, g, d)
  BY DEF StepsOK
<1>2. d[r].last \in Nat
  BY <1>0 DEF DataType
<1>3. /\ d[r].last < g
      /\ d[r].last >= a => /\ Samples(B[d[r].last], r)
                           /\ d[r].drafts = Proposal(B[d[r].last], d[r].last)
  BY <1>1 DEF LastSays
<1>4. ASSUME d[r].last = a
      PROVE  t[1].data[r] = a /\ t[2].data[r] = rej[r] /\ t[3].data[r] = d[r].drafts
  <2>1. Samples(B[a], r) /\ d[r].drafts = Proposal(B[a], a)
    BY <1>0, <1>3, <1>4
  <2>2. Samples(inp, r) /\ Proposal(inp, a) = Proposal(B[a], a)
    BY <2>1, SameRow
  <2>3. r \in InBatch(inp)
    BY <2>2 DEF Samples, InBatch
  <2> QED  BY <2>1, <2>2, <2>3 DEF SentData
<1>5. ASSUME rej[r] # 0 PROVE d[r].last = a
  <2> DEFINE j == d[r].last
  <2>1. j >= a
    BY <1>5 DEF Late
  <2>2. CASE j > a
    <3>1. j \in a + 1 .. c /\ Samples(B[j], r)
      BY <1>0, <1>2, <1>3, <2>2
    <3>2. r \in InBatch(B[j])
      BY <3>1 DEF Samples, InBatch
    <3>3. j >= a + PPSize
      BY <1>5, <3>1, <3>2 DEF Late
    <3> QED  BY <1>0, <1>2, <1>3, <3>3
  <2> QED  BY <1>0, <1>2, <2>1, <2>2
<1> QED  BY <1>4, <1>5

\* sample_tokens on the last stage.
WithRejected(b, rej) == [b EXCEPT !.rejected = rej]

LEMMA SampleStage ==
  ASSUME SampleLast
  PROVE  /\ stage[Last].phase = "sample"
         /\ current_step' = current_step /\ req' = req /\ flush' = flush
         /\ \E rejected \in [InBatch(stage[Last].input) -> 0 .. NumSpec] :
              /\ \A r \in InBatch(stage[Last].input) :
                   rejected[r] \in Rejections(stage[Last].input, stage[Last].table, r)
              /\ stage' = [stage EXCEPT ![Last] = SampledOf(stage[Last], rejected)]
              /\ wire' = [p \in Ranks \ {Last} |->
                            wire[p] \o Broadcasts(stage[Last].input, stage[Last].next, rejected)]
              /\ batches' = [batches EXCEPT ![stage[Last].next - Oldest + 1] =
                               WithRejected(@, RejectedOf(stage[Last].input, rejected))]
BY Zenon DEF SampleLast, SampledOf, WithRejected, RejectedOf

LEMMA RejectionsGood ==
  ASSUME NEW b, RowsGood(b.row), NEW inp, inp.row = b.row, NEW T,
         NEW rejected \in [InBatch(inp) -> 0 .. NumSpec], \A r \in InBatch(inp) : rejected[r] \in Rejections(inp, T, r)
  PROVE  RejGood(b, RejectedOf(inp, rejected))
<1>1. NumSpec \in Nat
  BY RelayAssumption
<1>2. \A r \in Reqs : RejectedOf(inp, rejected)[r] \in 0 .. NumSpec
  BY <1>1 DEF RejectedOf
<1>3. ASSUME NEW r \in Reqs, b.row[r].kind # "decode" PROVE RejectedOf(inp, rejected)[r] = 0
  <2>1. r \in InBatch(inp) => rejected[r] = 0
    BY <1>3 DEF Rejections
  <2> QED  BY <2>1 DEF RejectedOf
<1>4. RejectedOf(inp, rejected) \in [Reqs -> 0 .. NumSpec]
  BY <1>2 DEF RejectedOf
<1> QED  BY <1>3, <1>4 DEF RejGood

LEMMA WithRejectedFacts ==
  ASSUME NEW b, BatchGood(b), NEW rej
  PROVE  /\ SameBatch(b, WithRejected(b, rej)) /\ WithRejected(b, rej).rejected = rej
         /\ WithRejected(b, rej).view = b.view /\ DOMAIN WithRejected(b, rej) = DOMAIN b
BY DEF BatchGood, WithRejected, SameBatch

\* The broadcasts of a step are numbers.
LEMMA SentNumbers ==
  ASSUME NEW t, NEW b, NEW k \in Nat, NEW rejected, NEW x, RejGood(x, RejectedOf(b, rejected)),
         SentData(t, b, k, rejected)
  PROVE  \A i \in 1 .. 3 : t[i].data \in [Reqs -> Nat]
<1>1. t[1].data \in [Reqs -> Nat]
  BY DEF SentData
<1>2. t[2].data \in [Reqs -> Nat]
  <2>1. RejectedOf(b, rejected) \in [Reqs -> 0 .. NumSpec]
    BY DEF RejGood
  <2> QED  BY <2>1, RelayAssumption DEF SentData
<1>3. t[3].data \in [Reqs -> Nat]
  <2>1. Proposal(b, k) \in Nat
    BY DEF Proposal, BOS
  <2> QED  BY <2>1 DEF SentData
<1> QED  BY <1>1, <1>2, <1>3

\* The data of the steps to come are less by what is rejected.
LEMMA SampleLastKeeps ==
  ASSUME IInv, NEW D, NEW L, AInv(D, L), SampleLast
  PROVE  \E E, M : AInv(E, M)'
<1> DEFINE B == Issued
           C == Issued'
           o == Oldest
           a == stage[Last].next
           c == current_step
           inp == stage[Last].input
<1>1. stage[Last].phase = "sample" /\ current_step' = c /\ req' = req /\ flush' = flush
  BY SampleStage
<1>2. PICK rejected \in [InBatch(inp) -> 0 .. NumSpec] :
        /\ \A r \in InBatch(inp) : rejected[r] \in Rejections(inp, stage[Last].table, r)
        /\ stage' = [stage EXCEPT ![Last] = SampledOf(stage[Last], rejected)]
        /\ wire' = [p \in Ranks \ {Last} |-> wire[p] \o Broadcasts(inp, a, rejected)]
        /\ batches' = [batches EXCEPT ![a - Oldest + 1] = WithRejected(@, RejectedOf(inp, rejected))]
  BY SampleStage
<1>3. PICK rej : rej = RejectedOf(inp, rejected)
  OBVIOUS
<1>4. ReachedOf(stage[Last]) = a + 1
  BY <1>1 DEF ReachedOf
<1>5. /\ Window(o, a, a + 1, c) /\ DOMAIN stage = Ranks /\ Last \in Ranks
  BY <1>4, WindowFacts, LastFacts
<1>6. o \in Nat /\ a \in Nat /\ c \in Nat /\ o > 0 /\ o <= a /\ a <= c /\ a \in o .. c
  BY <1>5 DEF Window
<1>7. /\ Chained(D, L, B, a + 1, c) /\ InputOK(stage[Last], B) /\ StagesMatch(D, L, stage, wire)
      /\ ViewsOK(D, L, B, stage, o, c) /\ StepsOK(D, L, B, a, a + 1, o, c)
      /\ RequestsOK(D, L, B, stage, req, flush, o, c)
  BY <1>4 DEF AInv, AllGood
<1>8. D \in [Nat -> [Reqs -> DataType]] /\ LayoutGood(L[a + 1])
  BY <1>6, <1>7 DEF Chained
<1>9. inp.row = B[a].row /\ BatchGood(B[a]) /\ RowsGood(B[a].row) /\ RowsGood(inp.row)
  BY <1>1, <1>6, <1>7 DEF InputOK, StepsOK, BatchGood
<1>10. RejGood(B[a], rej)
  <2> DEFINE b == B[a]
             T == stage[Last].table
  <2>1. RowsGood(b.row) /\ inp.row = b.row /\ \A r \in InBatch(inp) : rejected[r] \in Rejections(inp, T, r)
    BY <1>2, <1>9
  <2> HIDE DEF b, T, inp
  <2>2. RejGood(b, RejectedOf(inp, rejected))
    BY <2>1, RejectionsGood DEF inp
  <2> QED  BY <1>3, <2>2 DEF b
<1>11. Late(B, D, a, c, rej)
  <2> HIDE DEF B, o, a, c
  <2> QED  BY <1>5, <1>7, <1>10, LateFacts
\* The steps.
<1>12. Oldest' = o /\ Rejecting(B, C, o, a, c, rej)
  <2> DEFINE y == WithRejected(B[a], rej)
  <2>1. B[a] = batches[a - Oldest + 1]
    BY <1>6, IssuedFacts
  <2>2. batches' = [batches EXCEPT ![a - Oldest + 1] = y]
    BY <1>2, <1>3, <2>1
  <2>3. /\ SameBatch(B[a], y) /\ y.rejected = rej /\ y.view = B[a].view /\ DOMAIN y = DOMAIN B[a]
    BY <1>9, WithRejectedFacts
  <2> HIDE DEF y
  <2>4. /\ Oldest' = Oldest /\ Issued'[a] = y
        /\ \A j \in (Oldest .. current_step) \ {a} : Issued'[j] = Issued[j]
    <3> DEFINE k == a
    <3>1. k \in Oldest .. current_step /\ batches' = [batches EXCEPT ![k - Oldest + 1] = y]
      BY <1>6, <2>2
    <3> HIDE DEF k
    <3>2. /\ Oldest' = Oldest /\ Issued'[k] = y
          /\ \A j \in (Oldest .. current_step) \ {k} : Issued'[j] = Issued[j]
      BY <1>1, <3>1, IssuedChange
    <3> QED  BY <3>2 DEF k
  <2> QED  BY <2>3, <2>4 DEF Rejecting
<1>13. PICK E : E = Less(D, a, rej)
  OBVIOUS
<1>14. \A j \in Nat : j > a => E[j] = LessD(D[j], rej)
  <2> HIDE DEF B, a
  <2>1. Less(D, a, rej) \in [Nat -> [Reqs -> DataType]]
        /\ \A j \in Nat : /\ j > a => Less(D, a, rej)[j] = LessD(D[j], rej)
                          /\ ~(j > a) => Less(D, a, rej)[j] = D[j]
    BY <1>6, <1>8, <1>10, LessFacts
  <2> QED  BY <1>13, <2>1
\* The stages.
<1>15. /\ stage'[Last] = SampledOf(stage[Last], rejected) /\ \A q \in Ranks \ {Last} : stage'[q] = stage[q]
  BY <1>2, <1>5
<1>16. DOMAIN stage[Last] = StageFields
  BY <1>5, ReachedFacts
<1>17. stage'[Last].phase = "execute" /\ stage'[Last].next = a + 1 /\ ReachedOf(stage'[Last]) = a + 1
  <2>1. stage'[Last].phase = "execute" /\ stage'[Last].next = a + 1
    BY <1>15, <1>16, SampledFields
  <2> QED  BY <2>1 DEF ReachedOf
<1>18. \A p \in Ranks : ReachedOf(stage'[p]) = ReachedOf(stage[p])
  BY <1>4, <1>15, <1>17
<1>19. NotAhead(stage, a)
  BY <1>1, <1>7, OthersNotAhead
<1> HIDE DEF B, C, o, a, c
<1>20. Chained(E, L, C, a + 1, c) /\ StepsOK(E, L, C, a + 1, a + 1, o, c)
  <2>1. Chained(Less(D, a, rej), L, C, a + 1, c)
    BY <1>5, <1>7, <1>10, <1>11, <1>12, ChainedLess
  <2>2. StepsOK(Less(D, a, rej), L, C, a + 1, a + 1, o, c)
    BY <1>5, <1>7, <1>10, <1>11, <1>12, StepsLess
  <2> QED  BY <1>13, <2>1, <2>2
<1>21. RequestsOK(E, L, C, stage', req, flush, o, c)
  <2>1. stage[Last].next = a
    BY DEF a
  <2>2. RequestsOK(Less(D, a, rej), L, C, stage', req, flush, o, c)
    BY <1>1, <1>5, <1>7, <1>8, <1>10, <1>11, <1>12, <1>17, <2>1, RequestsLess
  <2> QED  BY <1>13, <2>2
<1>22. ViewsOK(E, L, C, stage', o, c)
  <2>1. ViewsOK(Less(D, a, rej), L, C, stage', o, c)
    BY <1>4, <1>5, <1>7, <1>8, <1>10, <1>11, <1>12, <1>18, <1>19, ViewsLess
  <2> QED  BY <1>13, <2>1
<1>23. LastMatches(stage'[Last], E[a + 1], L[a + 1])
  <2> DEFINE st == stage[Last]
             d == D[a + 1]
             l == L[a + 1]
             b == B[a]
  <2>1. LastMatches(st, d, l)
    BY <1>4, <1>7 DEF StagesMatch
  <2>2. /\ DOMAIN st = StageFields /\ st.phase = "sample" /\ st.next \in Nat /\ d \in [Reqs -> DataType]
        /\ LayoutGood(l) /\ RowsGood(st.input.row) /\ rejected \in [InBatch(st.input) -> 0 .. NumSpec]
        /\ RejGood(b, RejectedOf(st.input, rejected))
    BY <1>1, <1>3, <1>6, <1>8, <1>9, <1>10, <1>16 DEF a
  <2>3. rej = RejectedOf(st.input, rejected) /\ E[a + 1] = LessD(d, rej) /\ stage'[Last] = SampledOf(st, rejected)
    BY <1>3, <1>6, <1>14, <1>15
  <2> HIDE DEF st, d, l, b
  <2>4. LastMatches(SampledOf(st, rejected), LessD(d, RejectedOf(st.input, rejected)), l)
    BY <2>1, <2>2, LastSampled
  <2> QED  BY <2>3, <2>4 DEF l
<1>24. ASSUME NEW p \in Ranks \ {Last}
       PROVE  OtherMatches(stage'[p], wire'[p], E[ReachedOf(stage'[p])], L[ReachedOf(stage'[p])])
  <2> DEFINE st == stage[p]
             w == wire[p]
             g == ReachedOf(st)
             t == Broadcasts(inp, a, rejected)
             d == D[g]
             l == L[g]
             b == B[a]
  <2>1. OtherMatches(st, w, d, l)
    BY <1>7 DEF StagesMatch
  <2>2. Awaits(Receives(st), w, a) /\ g > a
    BY <1>1, OthersAwait DEF a
  <2>3. g \in Nat /\ g <= a + PPSize /\ g <= c + 1
    BY <1>19, ReachedFacts DEF NotAhead, c
  <2>4. g \in a + 1 .. c + 1
    BY <1>6, <2>2, <2>3
  <2>5. /\ IsSeq(t) /\ Len(t) = 3
        /\ \A j \in 1 .. 3 : t[j].kind = ReceiveOrder[j] /\ t[j].step = a
    BY BroadcastsFacts
  <2>6. SentData(t, inp, a, rejected)
    BY BroadcastsData
  <2>7. d \in [Reqs -> DataType] /\ E[g] = LessD(d, rej)
    BY <1>8, <1>14, <2>2, <2>3
  <2>8. stage'[p] = st /\ wire'[p] = w \o t
    BY <1>2, <1>15 DEF a
  <2>9. RejGood(b, rej)
    BY <1>10
  <2> HIDE DEF st, w, g, t, inp
  <2>10. Tells(t, D[g], a, rej)
    BY <1>3, <1>5, <1>7, <1>8, <1>9, <1>10, <1>11, <2>3, <2>4, <2>6, SentTells DEF inp
  <2>11. \A i \in 1 .. 3 : t[i].data \in [Reqs -> Nat]
    <3>1. RejGood(b, RejectedOf(inp, rejected))
      BY <1>3, <2>9
    <3> HIDE DEF b
    <3> QED  BY <1>6, <2>6, <3>1, SentNumbers
  <2>12. Tells(t, d, a, rej)
    BY <2>10
  <2> HIDE DEF d, l, b
  <2>13. OtherMatches(st, w \o t, LessD(d, rej), l)
    BY <1>6, <2>1, <2>2, <2>5, <2>7, <2>9, <2>11, <2>12, SentMatches
  <2>14. ReachedOf(stage'[p]) = g
    BY <2>8 DEF g
  <2> QED  BY <2>7, <2>8, <2>13, <2>14 DEF l
<1>25. StagesMatch(E, L, stage', wire')
  BY <1>17, <1>23, <1>24 DEF StagesMatch
<1>26. InputOK(stage'[Last], C)
  BY <1>17 DEF InputOK
<1>27. AllGood(E, L, C, stage', wire', req', flush', o, c)
  BY <1>1, <1>17, <1>20, <1>21, <1>22, <1>25, <1>26 DEF AllGood
<1>28. AInv(E, L)'
  BY <1>1, <1>12, <1>27 DEF AInv, C, o, c
<1> QED  BY <1>28

----------------------------------------------------------------------------
(* The stages hold the data: initially, and after every action.            *)

StagesHold == \E D, L : AInv(D, L)

LEMMA InitStages == Init => StagesHold
BY InitKeeps DEF StagesHold

LEMMA NextStages == IInv /\ StagesHold /\ [Next]_vars => StagesHold'
<1> SUFFICES ASSUME IInv, StagesHold, [Next]_vars PROVE StagesHold'
  OBVIOUS
<1>1. PICK D, L : AInv(D, L)
  BY DEF StagesHold
<1>2. (\E E, M : AInv(E, M)') => StagesHold'
  BY DEF StagesHold
<1>3. AInv(D, L)' => StagesHold'
  BY DEF StagesHold
<1>4. CASE Schedule
  BY <1>1, <1>2, <1>4, ScheduleKeeps
<1>5. CASE Answer
  BY <1>1, <1>3, <1>5, AnswerKeeps
<1>6. CASE \E p \in Ranks : Run(p)
  <2>1. PICK p \in Ranks : Run(p)
    BY <1>6
  <2>2. CASE Execute(p)
    BY <1>1, <1>3, <2>2, ExecuteKeeps
  <2>3. CASE SampleOther(p)
    BY <1>1, <1>3, <2>3, SampleOtherKeeps
  <2>4. CASE SampleLast
    BY <1>1, <1>2, <2>4, SampleLastKeeps
  <2> QED  BY <2>1, <2>2, <2>3, <2>4 DEF Run
<1>7. CASE \E r \in Reqs : Abort(r) \/ Preempt(r)
  <2>1. PICK r \in Reqs : Abort(r) \/ Preempt(r)
    BY <1>7
  <2>2. CASE Abort(r)
    BY <1>1, <1>3, <2>2, AbortKeeps
  <2>3. CASE Preempt(r)
    BY <1>1, <1>3, <2>3, PreemptKeeps
  <2> QED  BY <2>1, <2>2, <2>3
<1>8. CASE UNCHANGED vars
  BY <1>1, <1>3, <1>8, StutterKeeps
<1> QED  BY <1>4, <1>5, <1>6, <1>7, <1>8 DEF Next

\* Stages that hold the data have read the same, within the bound of the CPU.
LEMMA ViewsRight ==
  ASSUME IInv, NEW D, NEW L, AInv(D, L), NEW i \in DOMAIN batches
  PROVE  Agree(batches[i]) /\ Bounded(batches[i])
<1>1. ViewsOK(D, L, Issued, stage, Oldest, current_step)
  BY DEF AInv, AllGood
<1>2. i + Oldest - 1 \in Oldest .. current_step /\ batches[i] = Issued[i + Oldest - 1]
  BY IssuedFacts
<1> QED  BY <1>1, <1>2 DEF ViewsOK

LEMMA HoldAgree == IInv /\ StagesHold => StagesAgree
<1> SUFFICES ASSUME IInv, NEW D, NEW L, AInv(D, L) PROVE StagesAgree
  BY DEF StagesHold
<1> QED  BY ViewsRight DEF StagesAgree, Agree

LEMMA HoldBound == IInv /\ StagesHold => BoundHolds
<1> SUFFICES ASSUME IInv, NEW D, NEW L, AInv(D, L) PROVE BoundHolds
  BY DEF StagesHold
<1> QED  BY ViewsRight DEF BoundHolds, Bounded

LEMMA HoldInv == Spec => [](IInv /\ StagesHold)
<1>1. Init => IInv /\ StagesHold
  BY InitInv, InitStages
<1>2. IInv /\ StagesHold /\ [Next]_vars => (IInv /\ StagesHold)'
  BY Inductive, NextStages
<1> QED  BY <1>1, <1>2, PTL DEF Spec

----------------------------------------------------------------------------
(* The theorems.                                                           *)

\* For every number of stages, requests, slots, drafts and steps in flight: whatever
\* sample_tokens of the last stage broadcasts (pp_handler.broadcast, broadcast_draft) meets,
\* on every other stage, the receive that was posted for the same step and the same kind,
\* though the two sides only agree on the order and steps without rows post none.
THEOREM BroadcastsMeetReceives == Spec => []RelayPairs
<1>1. Spec => []IInv
  BY InitInv, Inductive, PTL DEF Spec
<1> QED  BY <1>1, WiresMeetReceives, PTL

\* No stage waits for ever on a broadcast or on hidden states: as long as a step is not
\* answered, some stage, or the engine with the answer, can go on.
THEOREM SomeoneGoesOn == Spec => []NoStageStuck
<1>1. Spec => []IInv
  BY InitInv, Inductive, PTL DEF Spec
<1> QED  BY <1>1, SomeStageGoesOn, PTL

\* For every number of stages, requests, slots, drafts and steps in flight: whatever is
\* admitted, aborted, preempted and rejected meanwhile, all stages that have run a step have
\* read the same slots, positions, last tokens and drafts for its rows, though only the last
\* one knows what was sampled (update_pp_decode_requests, next_decode_eligible_step).
THEOREM StagesReadTheSame == Spec => []StagesAgree
BY HoldInv, HoldAgree, PTL

\* What the CPU counts for a row (seq_lens_cpu_upper_bound) bounds what the GPU has computed,
\* on every stage, and is exact for the rows of a prefill.
THEOREM CountsBoundTheGPU == Spec => []BoundHolds
BY HoldInv, HoldBound, PTL
=============================================================================
