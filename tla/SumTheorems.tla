----------------------------- MODULE SumTheorems -----------------------------
(***************************************************************************)
(* Facts about sums.  The library's induction theorems take an operator;   *)
(* SetInduction takes a set instead, and everything here is proved by      *)
(* induction with it.                                                      *)
(***************************************************************************)
EXTENDS Sums, FiniteSetTheorems, WellFoundedInduction, TLAPS

----------------------------------------------------------------------------
(* Induction.                                                              *)

LEMMA LeastNumber ==
  ASSUME NEW T \in SUBSET Nat, T # {}
  PROVE  \E m \in T : \A k \in T : m <= k
<1> DEFINE R == OpToRel(<, Nat)
<1>1. IsWellFoundedOn(R, Nat)
  BY NatLessThanWellFounded
<1>2. \A x, y \in Nat : <<y, x>> \in R <=> y < x
  BY Zenon DEF OpToRel
<1> HIDE DEF R
<1>3. \E x \in T : \A y \in T : ~ (<<y, x>> \in R)
  BY <1>1, WFMin
<1>4. PICK m \in T : \A y \in T : ~ (<<y, m>> \in R)
  BY <1>3
<1>5. \A k \in T : ~ (k < m)
  BY <1>2, <1>4
<1> QED  BY <1>4, <1>5

LEMMA SetInduction ==
  ASSUME NEW T, 0 \in T, \A n \in Nat : n \in T => n + 1 \in T
  PROVE  \A n \in Nat : n \in T
<1> DEFINE B == {n \in Nat : n \notin T}
<1> SUFFICES ASSUME B # {}  PROVE FALSE
  OBVIOUS
<1>1. PICK m \in B : \A k \in B : m <= k
  BY LeastNumber
<1>2. m \in Nat \ {0} /\ m - 1 \in Nat /\ m - 1 \notin B
  BY <1>1
<1> QED  BY <1>1, <1>2

\* The recursive function in Total exists.
LEMMA TotalExists ==
  ASSUME NEW w
  PROVE  \E s : s = [i \in Nat |-> IF i = 0 THEN 0 ELSE s[i - 1] + w[i]]
<1> DEFINE F(g, n) == g = [i \in 0 .. n |-> IF i = 0 THEN 0 ELSE g[i - 1] + w[i]]
<1>1. ASSUME NEW n \in Nat, NEW g, F(g, n)
      PROVE  /\ DOMAIN g = 0 .. n /\ g[0] = 0
             /\ \A i \in 1 .. n : g[i] = g[i - 1] + w[i]
  <2>1. \A i \in 0 .. n : g[i] = IF i = 0 THEN 0 ELSE g[i - 1] + w[i]
    BY <1>1
  <2>2. DOMAIN g = 0 .. n
    BY <1>1
  <2>3. 0 \in 0 .. n /\ \A i \in 1 .. n : i \in 0 .. n /\ i # 0
    OBVIOUS
  <2> HIDE DEF F
  <2> QED  BY <2>1, <2>2, <2>3
<1>2. ASSUME NEW n \in Nat, NEW m \in Nat, NEW g, NEW h, F(g, n), F(h, m)
      PROVE  \A i \in Nat : i <= n /\ i <= m => g[i] = h[i]
  <2> DEFINE T == {i \in Nat : i <= n /\ i <= m => g[i] = h[i]}
  <2> HIDE DEF F
  <2>1. 0 \in T
    BY <1>1, <1>2
  <2>2. ASSUME NEW i \in Nat, i \in T
        PROVE  i + 1 \in T
    <3> SUFFICES ASSUME i + 1 <= n, i + 1 <= m  PROVE g[i + 1] = h[i + 1]
      OBVIOUS
    <3>1. i + 1 \in 1 .. n /\ i + 1 \in 1 .. m /\ (i + 1) - 1 = i /\ g[i] = h[i]
      BY <2>2
    <3>2. g[i + 1] = g[(i + 1) - 1] + w[i + 1] /\ h[i + 1] = h[(i + 1) - 1] + w[i + 1]
      BY <1>1, <1>2, <3>1
    <3> QED  BY <3>1, <3>2
  <2> HIDE DEF T
  <2>3. \A i \in Nat : i \in T
    BY <2>1, <2>2, SetInduction
  <2> QED  BY <2>3 DEF T
<1>3. \A n \in Nat : \E g : F(g, n)
  <2> DEFINE T == {n \in Nat : \E g : F(g, n)}
  <2>1. 0 \in T
    <3>1. F([i \in 0 .. 0 |-> 0], 0)
      OBVIOUS
    <3> QED  BY <3>1
  <2>2. ASSUME NEW n \in Nat, n \in T
        PROVE  n + 1 \in T
    <3>1. PICK g : F(g, n)
      BY <2>2
    <3>2. /\ DOMAIN g = 0 .. n /\ g[0] = 0
          /\ \A i \in 1 .. n : g[i] = g[i - 1] + w[i]
      BY <1>1, <3>1
    <3> DEFINE h == [i \in 0 .. n + 1 |-> IF i = n + 1 THEN g[n] + w[n + 1] ELSE g[i]]
    <3>3. ASSUME NEW i \in 0 .. n + 1
          PROVE  h[i] = IF i = 0 THEN 0 ELSE h[i - 1] + w[i]
      <4>1. CASE i = 0
        BY <3>2, <4>1
      <4>2. CASE i \in 1 .. n
        <5>1. i - 1 \in 0 .. n /\ i - 1 # n + 1 /\ i # n + 1 /\ i # 0 /\ i - 1 \in 0 .. n + 1
          BY <4>2
        <5>2. h[i] = g[i] /\ h[i - 1] = g[i - 1]
          BY <5>1
        <5> HIDE DEF h
        <5> QED  BY <3>2, <4>2, <5>1, <5>2
      <4>3. CASE i = n + 1
        <5>1. n \in 0 .. n + 1 /\ n # n + 1 /\ i # 0 /\ i - 1 = n
          BY <4>3
        <5>2. h[i] = g[n] + w[n + 1] /\ h[n] = g[n]
          BY <4>3, <5>1
        <5> HIDE DEF h
        <5> QED  BY <4>3, <5>1, <5>2
      <4> QED  BY <4>1, <4>2, <4>3
    <3>4. h = [i \in 0 .. n + 1 |-> h[i]]
      OBVIOUS
    <3> HIDE DEF h
    <3>5. F(h, n + 1)
      BY <3>3, <3>4
    <3> HIDE DEF F
    <3> QED  BY <3>5
  <2> HIDE DEF T
  <2>3. \A n \in Nat : n \in T
    BY <2>1, <2>2, SetInduction
  <2> QED  BY <2>3 DEF T
<1> DEFINE G(n) == CHOOSE g : F(g, n)
           s == [n \in Nat |-> G(n)[n]]
<1>4. \A n \in Nat : F(G(n), n)
  <2> HIDE DEF F
  <2> QED  BY <1>3
<1> HIDE DEF F, G
<1>5. ASSUME NEW n \in Nat
      PROVE  s[n] = IF n = 0 THEN 0 ELSE s[n - 1] + w[n]
  <2>1. CASE n = 0
    BY <1>1, <1>4, <2>1
  <2>2. CASE n # 0
    <3>1. n - 1 \in Nat /\ n \in 1 .. n
      BY <2>2
    <3>2. G(n)[n] = G(n)[n - 1] + w[n]
      BY <1>1, <1>4, <3>1
    <3>3. G(n)[n - 1] = G(n - 1)[n - 1]
      BY <1>2, <1>4, <3>1
    <3>4. s[n] = G(n)[n] /\ s[n - 1] = G(n - 1)[n - 1]
      BY <3>1
    <3> HIDE DEF s
    <3> QED  BY <2>2, <3>2, <3>3, <3>4
  <2> QED  BY <2>1, <2>2
<1>6. s = [n \in Nat |-> s[n]]
  OBVIOUS
<1> HIDE DEF s
<1>7. s = [i \in Nat |-> IF i = 0 THEN 0 ELSE s[i - 1] + w[i]]
  BY <1>5, <1>6
<1> QED  BY <1>7

LEMMA TotalSteps ==
  ASSUME NEW w
  PROVE  /\ Total(w, 0) = 0
         /\ \A n \in Nat \ {0} : Total(w, n) = Total(w, n - 1) + w[n]
<1> DEFINE s == CHOOSE s : s = [i \in Nat |-> IF i = 0 THEN 0 ELSE s[i - 1] + w[i]]
<1>1. s = [i \in Nat |-> IF i = 0 THEN 0 ELSE s[i - 1] + w[i]]
  BY TotalExists, Zenon
<1>2. \A n : Total(w, n) = s[n]
  BY DEF Total
<1> HIDE DEF s
<1>3. \A n \in Nat : s[n] = IF n = 0 THEN 0 ELSE s[n - 1] + w[n]
  BY <1>1
<1> QED  BY <1>2, <1>3

----------------------------------------------------------------------------
(* Totals.                                                                 *)

LEMMA TotalType ==
  ASSUME NEW w, NEW n \in Nat, \A i \in 1 .. n : w[i] \in Int
  PROVE  Total(w, n) \in Int
<1> DEFINE T == {k \in Nat : k <= n => Total(w, k) \in Int}
<1>1. 0 \in T
  BY TotalSteps
<1>2. ASSUME NEW k \in Nat, k \in T
      PROVE  k + 1 \in T
  <2> SUFFICES ASSUME k + 1 <= n  PROVE Total(w, k + 1) \in Int
    OBVIOUS
  <2>1. Total(w, k) \in Int /\ k + 1 \in 1 .. n /\ (k + 1) - 1 = k /\ k + 1 \in Nat \ {0}
    BY <1>2
  <2>2. Total(w, k + 1) = Total(w, k) + w[k + 1]
    BY <2>1, TotalSteps
  <2> QED  BY <2>1, <2>2
<1> HIDE DEF T
<1>3. n \in T
  BY <1>1, <1>2, SetInduction
<1> QED  BY <1>3 DEF T

LEMMA TotalSame ==
  ASSUME NEW v, NEW w, NEW n \in Nat, \A i \in 1 .. n : v[i] = w[i]
  PROVE  Total(v, n) = Total(w, n)
<1> DEFINE T == {k \in Nat : k <= n => Total(v, k) = Total(w, k)}
<1>1. 0 \in T
  BY TotalSteps
<1>2. ASSUME NEW k \in Nat, k \in T
      PROVE  k + 1 \in T
  <2> SUFFICES ASSUME k + 1 <= n  PROVE Total(v, k + 1) = Total(w, k + 1)
    OBVIOUS
  <2>1. Total(v, k) = Total(w, k) /\ k + 1 \in 1 .. n /\ (k + 1) - 1 = k /\ k + 1 \in Nat \ {0}
    BY <1>2
  <2>2. /\ Total(v, k + 1) = Total(v, k) + v[k + 1]
        /\ Total(w, k + 1) = Total(w, k) + w[k + 1]
    BY <2>1, TotalSteps
  <2> QED  BY <2>1, <2>2
<1> HIDE DEF T
<1>3. n \in T
  BY <1>1, <1>2, SetInduction
<1> QED  BY <1>3 DEF T

\* One entry changes.
LEMMA TotalChange ==
  ASSUME NEW v, NEW w, NEW n \in Nat, NEW k \in 1 .. n,
         \A i \in 1 .. n : v[i] \in Int /\ w[i] \in Int /\ (i # k => v[i] = w[i])
  PROVE  Total(v, n) = Total(w, n) + v[k] - w[k]
<1> DEFINE d(m) == IF k <= m THEN v[k] - w[k] ELSE 0
           T == {m \in Nat : m <= n => Total(v, m) = Total(w, m) + d(m)}
<1>1. 0 \in T
  BY TotalSteps
<1>2. ASSUME NEW m \in Nat, m \in T
      PROVE  m + 1 \in T
  <2> SUFFICES ASSUME m + 1 <= n  PROVE Total(v, m + 1) = Total(w, m + 1) + d(m + 1)
    OBVIOUS
  <2>1. m + 1 \in 1 .. n /\ (m + 1) - 1 = m /\ m + 1 \in Nat \ {0} /\ m <= n
    OBVIOUS
  <2>2. Total(v, m) = Total(w, m) + d(m)
    BY <1>2, <2>1
  <2>3. /\ Total(v, m + 1) = Total(v, m) + v[m + 1]
        /\ Total(w, m + 1) = Total(w, m) + w[m + 1]
    BY <2>1, TotalSteps
  <2>4. Total(v, m) \in Int /\ Total(w, m) \in Int
    BY <2>1, TotalType
  <2>5. v[m + 1] \in Int /\ w[m + 1] \in Int /\ v[k] \in Int /\ w[k] \in Int
    BY <2>1
  <2>6. CASE m + 1 = k
    BY <2>2, <2>3, <2>4, <2>5, <2>6
  <2>7. CASE m + 1 # k
    <3>1. v[m + 1] = w[m + 1] /\ d(m + 1) = d(m)
      BY <2>1, <2>7
    <3>2. d(m) \in Int
      BY <2>5
    <3> HIDE DEF d
    <3> QED  BY <2>2, <2>3, <2>4, <2>5, <3>1, <3>2
  <2> QED  BY <2>6, <2>7
<1> HIDE DEF T
<1>3. n \in T
  BY <1>1, <1>2, SetInduction
<1> QED  BY <1>3 DEF T

\* The first entry goes.
LEMMA TotalShift ==
  ASSUME NEW v, NEW w, NEW n \in Nat,
         \A i \in 1 .. n + 1 : w[i] \in Int, \A i \in 1 .. n : v[i] = w[i + 1]
  PROVE  Total(w, n + 1) = w[1] + Total(v, n)
<1> DEFINE T == {m \in Nat : m <= n => Total(w, m + 1) = w[1] + Total(v, m)}
<1>1. 0 \in T
  <2>1. 0 + 1 \in Nat \ {0} /\ (0 + 1) - 1 = 0 /\ 1 \in 1 .. n + 1 /\ 0 + 1 = 1
    OBVIOUS
  <2>2. Total(w, 0 + 1) = Total(w, 0) + w[0 + 1] /\ Total(w, 0) = 0 /\ Total(v, 0) = 0
    BY <2>1, TotalSteps
  <2>3. w[1] \in Int
    BY <2>1
  <2> QED  BY <2>1, <2>2, <2>3
<1>2. ASSUME NEW m \in Nat, m \in T
      PROVE  m + 1 \in T
  <2> SUFFICES ASSUME m + 1 <= n  PROVE Total(w, m + 1 + 1) = w[1] + Total(v, m + 1)
    OBVIOUS
  <2>1. /\ m + 1 \in 1 .. n /\ (m + 1) - 1 = m /\ m + 1 \in Nat \ {0}
        /\ m + 1 + 1 \in 1 .. n + 1 /\ (m + 1 + 1) - 1 = m + 1 /\ m + 1 + 1 \in Nat \ {0}
        /\ 1 \in 1 .. n + 1 /\ m <= n
    OBVIOUS
  <2>2. Total(w, m + 1) = w[1] + Total(v, m)
    BY <1>2, <2>1
  <2>3. /\ Total(v, m + 1) = Total(v, m) + v[m + 1]
        /\ Total(w, m + 1 + 1) = Total(w, m + 1) + w[m + 1 + 1]
    BY <2>1, TotalSteps
  <2>4. v[m + 1] = w[m + 1 + 1] /\ w[m + 1 + 1] \in Int /\ w[1] \in Int
    BY <2>1
  <2>5. Total(v, m) \in Int
    <3>1. \A i \in 1 .. m : v[i] \in Int
      <4> SUFFICES ASSUME NEW i \in 1 .. m  PROVE v[i] \in Int
        OBVIOUS
      <4>1. i \in 1 .. n /\ i + 1 \in 1 .. n + 1
        BY <2>1
      <4> QED  BY <4>1
    <3> QED  BY <3>1, TotalType
  <2> QED  BY <2>2, <2>3, <2>4, <2>5
<1> HIDE DEF T
<1>3. n \in T
  BY <1>1, <1>2, SetInduction
<1> QED  BY <1>3 DEF T

\* Of natural numbers: no entry exceeds the total, and a positive total has a positive
\* entry.
LEMMA TotalOfNaturals ==
  ASSUME NEW w, NEW n \in Nat, \A i \in 1 .. n : w[i] \in Nat
  PROVE  /\ Total(w, n) \in Nat
         /\ \A k \in 1 .. n : w[k] <= Total(w, n)
         /\ Total(w, n) > 0 => \E k \in 1 .. n : w[k] > 0
<1> DEFINE T == {m \in Nat : m <= n =>
                   /\ Total(w, m) \in Nat
                   /\ \A k \in 1 .. m : w[k] <= Total(w, m)
                   /\ Total(w, m) > 0 => \E k \in 1 .. m : w[k] > 0}
<1>1. 0 \in T
  BY TotalSteps
<1>2. ASSUME NEW m \in Nat, m \in T
      PROVE  m + 1 \in T
  <2> SUFFICES ASSUME m + 1 <= n
               PROVE  /\ Total(w, m + 1) \in Nat
                      /\ \A k \in 1 .. m + 1 : w[k] <= Total(w, m + 1)
                      /\ Total(w, m + 1) > 0 => \E k \in 1 .. m + 1 : w[k] > 0
    OBVIOUS
  <2>1. m + 1 \in 1 .. n /\ (m + 1) - 1 = m /\ m + 1 \in Nat \ {0} /\ m <= n
    OBVIOUS
  <2>2. /\ Total(w, m) \in Nat
        /\ \A k \in 1 .. m : w[k] <= Total(w, m)
        /\ Total(w, m) > 0 => \E k \in 1 .. m : w[k] > 0
    BY <1>2, <2>1
  <2>3. Total(w, m + 1) = Total(w, m) + w[m + 1] /\ w[m + 1] \in Nat
    BY <2>1, TotalSteps
  <2>4. Total(w, m + 1) \in Nat /\ Total(w, m) <= Total(w, m + 1)
        /\ w[m + 1] <= Total(w, m + 1)
    BY <2>2, <2>3
  <2>5. ASSUME NEW k \in 1 .. m + 1
        PROVE  w[k] <= Total(w, m + 1)
    <3>1. CASE k = m + 1  BY <2>4, <3>1
    <3>2. CASE k # m + 1
      <4>1. k \in 1 .. m /\ k \in 1 .. n  BY <2>1, <3>2
      <4>2. w[k] \in Nat /\ w[k] <= Total(w, m)  BY <2>2, <4>1
      <4> QED  BY <2>2, <2>4, <4>2
    <3> QED  BY <3>1, <3>2
  <2>6. ASSUME Total(w, m + 1) > 0
        PROVE  \E k \in 1 .. m + 1 : w[k] > 0
    <3>1. CASE Total(w, m) > 0
      <4>1. PICK k \in 1 .. m : w[k] > 0  BY <2>2, <3>1
      <4>2. k \in 1 .. m + 1  OBVIOUS
      <4> QED  BY <4>1, <4>2
    <3>2. CASE ~(Total(w, m) > 0)
      <4>1. w[m + 1] > 0 /\ m + 1 \in 1 .. m + 1  BY <2>2, <2>3, <2>6, <3>2
      <4> QED  BY <4>1
    <3> QED  BY <3>1, <3>2
  <2> QED  BY <2>4, <2>5, <2>6
<1> HIDE DEF T
<1>3. n \in T
  BY <1>1, <1>2, SetInduction
<1> QED  BY <1>3 DEF T

LEMMA TotalZero ==
  ASSUME NEW w, NEW n \in Nat, \A i \in 1 .. n : w[i] = 0
  PROVE  Total(w, n) = 0
<1>1. \A i \in 1 .. n : w[i] \in Nat /\ ~(w[i] > 0)
  OBVIOUS
<1>2. Total(w, n) \in Nat /\ ~(Total(w, n) > 0)
  BY <1>1, TotalOfNaturals
<1> QED  BY <1>2
LEMMA TotalBelow ==
  ASSUME NEW v, NEW w, NEW n \in Nat,
         \A i \in 1 .. n : v[i] \in Int /\ w[i] \in Int /\ v[i] <= w[i]
  PROVE  Total(v, n) <= Total(w, n)
<1> DEFINE T == {k \in Nat : k <= n => Total(v, k) <= Total(w, k)}
<1>1. 0 \in T
  <2>1. Total(v, 0) = 0 /\ Total(w, 0) = 0
    BY TotalSteps
  <2> QED  BY <2>1
<1>2. ASSUME NEW k \in Nat, k \in T
      PROVE  k + 1 \in T
  <2> SUFFICES ASSUME k + 1 <= n  PROVE Total(v, k + 1) <= Total(w, k + 1)
    OBVIOUS
  <2>1. k + 1 \in 1 .. n /\ k + 1 \in Nat \ {0} /\ (k + 1) - 1 = k /\ Total(v, k) <= Total(w, k)
        /\ \A i \in 1 .. k : i \in 1 .. n
    BY <1>2
  <2>2. Total(v, k) \in Int /\ Total(w, k) \in Int
    BY <2>1, TotalType
  <2>3. Total(v, k + 1) = Total(v, k) + v[k + 1] /\ Total(w, k + 1) = Total(w, k) + w[k + 1]
    BY <2>1, TotalSteps
  <2>4. v[k + 1] \in Int /\ w[k + 1] \in Int /\ v[k + 1] <= w[k + 1]
    BY <2>1
  <2> QED  BY <2>1, <2>2, <2>3, <2>4
<1> HIDE DEF T
<1>3. \A k \in Nat : k \in T
  BY <1>1, <1>2, SetInduction
<1>4. n \in T
  BY <1>3
<1> QED  BY <1>4 DEF T
=============================================================================
