-------------------------------- MODULE Sums --------------------------------
(***************************************************************************)
(* Sums, as properties of several modules take them: over the first n      *)
(* entries of a sequence or function, and over a finite set.               *)
(***************************************************************************)
EXTENDS Integers, FiniteSets

\* w[1] + ... + w[n]
Total(w, n) ==
  LET s[i \in Nat] == IF i = 0 THEN 0 ELSE s[i - 1] + w[i]
  IN  s[n]

\* The elements of S one after the other, in any order.
Listing(S) ==
  CHOOSE e \in [1 .. Cardinality(S) -> S] :
    \A i, j \in 1 .. Cardinality(S) : e[i] = e[j] => i = j
=============================================================================
