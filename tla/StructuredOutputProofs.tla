----------------------- MODULE StructuredOutputProofs -----------------------
(***************************************************************************)
(* Theorems about StructuredOutput: the matcher has accepted the committed *)
(* answer, the end of the reasoning is noticed in the step that commits    *)
(* the marker, and no committed token is rejected, unless a step whose     *)
(* drafts the scheduler did not know is preempted.                         *)
(***************************************************************************)
EXTENDS StructuredOutput, SumTheorems, SequenceTheorems

----------------------------------------------------------------------------
(* The invariant.                                                          *)

\* Whether the rows of this step are constrained from the first.
Constrained == ShouldFill(EndedAtFill)

\* What the manager knows of the end of the reasoning is what the committed tokens say.
EndKnown ==
  ~Free =>
    /\ tokens # <<>> \/ phase \in {"masked", "sampled"} => ended # "none"
    /\ ended # "none" => (ended = "yes" <=> mode.prompt_ends \/ End \in RangeOf(tokens))

\* The matcher holds the answer, and a sentence can still come of it.
Following == phase # "error" => hist = Drop(tokens, AnswerStart)
Hopeful == Matches(hist)

\* A request that is scheduled has not stopped.
GoesOn == phase \in {"idle", "scheduled", "masked", "sampled"} => ~Stopped(tokens)

\* The rows of a step: drafts of the worker, which the grammar admits if it applies, then
\* placeholders.  Only a request with images and async scheduling know placeholders.
SpecPlanned ==
  phase \in {"scheduled", "masked", "sampled"} =>
    /\ Len(spec) <= Len(worker)
    /\ \E k \in 0 .. Len(spec) :
         /\ \A i \in 1 .. k : spec[i] = worker[i]
         /\ \A i \in k + 1 .. Len(spec) : spec[i] = Placeholder
         /\ ~mode.async /\ ~mode.mm => k = Len(spec)
         /\ Constrained => Matches(hist \o Take(spec, k))

\* The answer of this step's block begins behind row s.
Begins(s) ==
  IF ShouldFill(ended) THEN s = 0
  ELSE s > 0 /\ spec[s] = End /\ \A i \in 1 .. s - 1 : spec[i] # End

\* Behind drafts that their rows allow, row n + 1 allows what the grammar does, until a
\* draft ends the sentence.
RowsConstrain ==
  phase \in {"masked", "sampled"} =>
    /\ Len(rows) = Len(spec) + 1
    /\ \A n \in 0 .. Len(spec) : \A s \in 0 .. n :
         /\ Begins(s)
         /\ \A i \in 1 .. n : spec[i] # Placeholder
         /\ \A i \in s + 1 .. n : spec[i] \in rows[i]
         => \/ /\ rows[n + 1] = Allowed(hist \o SubSeq(spec, s + 1, n))
               /\ Matches(hist \o SubSeq(spec, s + 1, n))
            \/ \E k \in s + 1 .. n : spec[k] = Eos /\ Matches(hist \o SubSeq(spec, s + 1, k))

\* A block is drafts that their rows allow and one more token.
BlockSampled ==
  phase = "sampled" =>
    \E n \in 0 .. Len(spec) :
      /\ \A i \in 1 .. n : worker[i] \in rows[i]
      /\ \E t \in rows[n + 1] : out = Append(Take(worker, n), t)

StaleSampled == stale => phase = "sampled" /\ mode \in Preemptable

NotCrashed == phase # "crashed"

IInv ==
  /\ TypeOK /\ EndKnown /\ Following /\ Hopeful /\ GoesOn /\ SpecPlanned /\ RowsConstrain
  /\ BlockSampled /\ StaleSampled /\ NotCrashed

----------------------------------------------------------------------------
(* The largest and the least of a set of numbers.                          *)

LEMMA LeastIs ==
  ASSUME NEW T \in SUBSET Nat, T # {}
  PROVE  LET m == CHOOSE n \in T : \A k \in T : n <= k
         IN  m \in T /\ \A k \in T : m <= k
<1>1. \E n \in T : \A k \in T : n <= k
  BY LeastNumber
<1> QED  BY <1>1

\* The largest number of a set that has an upper bound.
LEMMA LongestIs ==
  ASSUME NEW n \in Nat, NEW T \in SUBSET (0 .. n), T # {}
  PROVE  Longest(T) \in T /\ \A k \in T : k <= Longest(T)
<1> DEFINE B == {k \in Nat : n - k \in T}
<1>1. PICK t \in T : TRUE
  OBVIOUS
<1>2. t \in 0 .. n /\ n - t \in Nat /\ n - (n - t) = t
  BY <1>1
<1>3. B # {} /\ B \in SUBSET Nat
  BY <1>1, <1>2
<1>4. PICK b \in B : \A k \in B : b <= k
  BY <1>3, LeastNumber
<1>5. ASSUME NEW k \in T PROVE k <= n - b
  <2>1. k \in 0 .. n /\ n - k \in Nat /\ n - (n - k) = k
    OBVIOUS
  <2>2. n - k \in B
    BY <2>1
  <2>3. b <= n - k
    BY <1>4, <2>2
  <2> HIDE DEF B
  <2> QED  BY <1>3, <1>4, <2>1, <2>3
<1>6. n - b \in T
  BY <1>4
<1>7. \E m \in T : \A k \in T : k <= m
  BY <1>5, <1>6
<1> QED  BY <1>7 DEF Longest

----------------------------------------------------------------------------
(* Sequences, entry by entry.                                              *)

Leads(a, b) == Len(a) <= Len(b) /\ \A i \in 1 .. Len(a) : a[i] = b[i]

\* The front, a part and the rest of a sequence, entry by entry.
LEMMA TakeFacts ==
  ASSUME NEW S, NEW s \in Seq(S), NEW n \in 0 .. Len(s)
  PROVE  /\ Take(s, n) \in Seq(S) /\ Len(Take(s, n)) = n
         /\ \A i \in 1 .. n : Take(s, n)[i] = s[i]
<1>1. Len(s) \in Nat /\ \A i \in 1 .. n : s[i] \in S
  BY ElementOfSeq
<1>2. 1 \in Int /\ n \in Int /\ n >= 0
  BY <1>1
<1>3. /\ SubSeq(s, 1, n) \in Seq(S)
      /\ Len(SubSeq(s, 1, n)) = IF 1 <= n THEN n - 1 + 1 ELSE 0
      /\ \A i \in 1 .. n - 1 + 1 : SubSeq(s, 1, n)[i] = s[1 + i - 1]
  BY <1>1, <1>2, SubSeqProperties
<1> QED  BY <1>2, <1>3 DEF Take

LEMMA SubFacts ==
  ASSUME NEW S, NEW s \in Seq(S), NEW m \in 0 .. Len(s), NEW n \in m .. Len(s)
  PROVE  /\ SubSeq(s, m + 1, n) \in Seq(S) /\ Len(SubSeq(s, m + 1, n)) = n - m
         /\ \A i \in 1 .. n - m : SubSeq(s, m + 1, n)[i] = s[m + i]
<1>1. Len(s) \in Nat /\ \A i \in 1 .. Len(s) : s[i] \in S
  BY ElementOfSeq
<1>2. m + 1 \in Int /\ n \in Int /\ \A i \in m + 1 .. n : i \in 1 .. Len(s)
  BY <1>1
<1>3. /\ SubSeq(s, m + 1, n) \in Seq(S)
      /\ Len(SubSeq(s, m + 1, n)) = IF m + 1 <= n THEN n - (m + 1) + 1 ELSE 0
      /\ \A i \in 1 .. n - (m + 1) + 1 : SubSeq(s, m + 1, n)[i] = s[(m + 1) + i - 1]
  BY <1>1, <1>2, SubSeqProperties
<1>4. m \in Int /\ n \in Int /\ m <= n
  BY <1>1
<1> QED  BY <1>3, <1>4

LEMMA DropFacts ==
  ASSUME NEW S, NEW s \in Seq(S), NEW n \in 0 .. Len(s)
  PROVE  /\ Drop(s, n) \in Seq(S) /\ Len(Drop(s, n)) = Len(s) - n
         /\ \A i \in 1 .. Len(s) - n : Drop(s, n)[i] = s[n + i]
<1>1. Len(s) \in n .. Len(s)
  BY LenProperties
<1> QED  BY <1>1, SubFacts DEF Drop

LEMMA ConcatFacts ==
  ASSUME NEW S, NEW a \in Seq(S), NEW b \in Seq(S)
  PROVE  /\ a \o b \in Seq(S) /\ Len(a \o b) = Len(a) + Len(b)
         /\ \A i \in 1 .. Len(a) : (a \o b)[i] = a[i]
         /\ \A i \in 1 .. Len(b) : (a \o b)[Len(a) + i] = b[i]
<1>1. Len(a) \in Nat /\ Len(b) \in Nat
  BY LenProperties
<1>2. /\ a \o b \in Seq(S) /\ Len(a \o b) = Len(a) + Len(b)
      /\ \A i \in 1 .. Len(a) + Len(b) :
            (a \o b)[i] = IF i <= Len(a) THEN a[i] ELSE b[i - Len(a)]
  BY ConcatProperties
<1>3. ASSUME NEW i \in 1 .. Len(a) PROVE (a \o b)[i] = a[i]
  BY <1>1, <1>2
<1>4. ASSUME NEW i \in 1 .. Len(b) PROVE (a \o b)[Len(a) + i] = b[i]
  <2>1. Len(a) + i \in 1 .. Len(a) + Len(b) /\ ~(Len(a) + i <= Len(a))
        /\ (Len(a) + i) - Len(a) = i
    BY <1>1
  <2> QED  BY <1>2, <2>1
<1> QED  BY <1>2, <1>3, <1>4

\* What leads a sequence, and what is put behind it.
LEMMA LeadsConcat ==
  ASSUME NEW S, NEW h \in Seq(S), NEW a \in Seq(S), NEW b \in Seq(S), Leads(a, b)
  PROVE  Leads(h \o a, h \o b)
<1>1. Len(h) \in Nat /\ Len(a) \in Nat /\ Len(b) \in Nat /\ Len(a) <= Len(b)
  BY LenProperties DEF Leads
<1>2. Len(h \o a) = Len(h) + Len(a) /\ Len(h \o b) = Len(h) + Len(b)
  BY ConcatFacts
<1>3. ASSUME NEW i \in 1 .. Len(h) + Len(a) PROVE (h \o a)[i] = (h \o b)[i]
  <2>1. CASE i <= Len(h)
    <3>1. i \in 1 .. Len(h)
      BY <1>1, <2>1
    <3> QED  BY <3>1, ConcatFacts
  <2>2. CASE ~(i <= Len(h))
    <3>1. i - Len(h) \in 1 .. Len(a) /\ i - Len(h) \in 1 .. Len(b) /\ Len(h) + (i - Len(h)) = i
      BY <1>1, <2>2
    <3>2. (h \o a)[Len(h) + (i - Len(h))] = a[i - Len(h)]
      BY <3>1, ConcatFacts
    <3>3. (h \o b)[Len(h) + (i - Len(h))] = b[i - Len(h)]
      BY <3>1, ConcatFacts
    <3>4. a[i - Len(h)] = b[i - Len(h)]
      BY <3>1 DEF Leads
    <3> QED  BY <3>1, <3>2, <3>3, <3>4
  <2> QED  BY <2>1, <2>2
<1> QED  BY <1>1, <1>2, <1>3 DEF Leads

LEMMA LeadsTake ==
  ASSUME NEW S, NEW s \in Seq(S), NEW n \in 0 .. Len(s)
  PROVE  Leads(Take(s, n), s)
<1>1. Len(s) \in Nat
  BY LenProperties
<1> QED  BY <1>1, TakeFacts DEF Leads

LEMMA LeadsTrans ==
  ASSUME NEW S, NEW a \in Seq(S), NEW b \in Seq(S), NEW c \in Seq(S), Leads(a, b), Leads(b, c)
  PROVE  Leads(a, c)
<1>1. Len(a) \in Nat /\ Len(b) \in Nat /\ Len(c) \in Nat
  BY LenProperties
<1> QED  BY <1>1 DEF Leads

\* A prefix and what follows it.
LEMMA TakeAll ==
  ASSUME NEW S, NEW s \in Seq(S)
  PROVE  Take(s, Len(s)) = s /\ Drop(s, 0) = s /\ Take(s, 0) = <<>> /\ Drop(s, Len(s)) = <<>>
<1>1. Len(s) \in Nat
  BY LenProperties
<1>2. Take(s, Len(s)) = s
  BY SubSeqFull DEF Take
<1>3. Drop(s, 0) = s
  BY SubSeqFull DEF Drop
<1>4. Take(s, 0) = <<>>
  BY SubSeqEmpty DEF Take
<1>5. Drop(s, Len(s)) = <<>>
  BY <1>1, SubSeqEmpty DEF Drop
<1> QED  BY <1>2, <1>3, <1>4, <1>5

\* Dropping from two sequences put together drops from the first, then from the second.
LEMMA DropConcat ==
  ASSUME NEW S, NEW a \in Seq(S), NEW b \in Seq(S)
  PROVE  /\ Drop(a \o b, Len(a)) = b
         /\ \A n \in 0 .. Len(a) : Drop(a \o b, n) = Drop(a, n) \o b
         /\ \A n \in 0 .. Len(b) : Drop(a \o b, Len(a) + n) = Drop(b, n)
<1> DEFINE c == a \o b
<1>1. Len(a) \in Nat /\ Len(b) \in Nat
  BY LenProperties
<1>2. c \in Seq(S) /\ Len(c) = Len(a) + Len(b)
  BY ConcatFacts
<1>3. \A i \in 1 .. Len(a) : c[i] = a[i]
  BY ConcatFacts
<1>4. \A i \in 1 .. Len(b) : c[Len(a) + i] = b[i]
  BY ConcatFacts
<1> HIDE DEF c
<1>5. ASSUME NEW n \in 0 .. Len(b) PROVE Drop(c, Len(a) + n) = Drop(b, n)
  <2>1. Len(a) + n \in 0 .. Len(c)
    BY <1>1, <1>2
  <2>2. /\ Drop(c, Len(a) + n) \in Seq(S) /\ Len(Drop(c, Len(a) + n)) = Len(c) - (Len(a) + n)
        /\ \A i \in 1 .. Len(c) - (Len(a) + n) : Drop(c, Len(a) + n)[i] = c[Len(a) + n + i]
    BY <1>2, <2>1, DropFacts
  <2>3. /\ Drop(b, n) \in Seq(S) /\ Len(Drop(b, n)) = Len(b) - n
        /\ \A i \in 1 .. Len(b) - n : Drop(b, n)[i] = b[n + i]
    BY DropFacts
  <2>4. Len(c) - (Len(a) + n) = Len(b) - n
    BY <1>1, <1>2
  <2>5. ASSUME NEW i \in 1 .. Len(b) - n PROVE c[Len(a) + n + i] = b[n + i]
    <3>1. n + i \in 1 .. Len(b) /\ Len(a) + n + i = Len(a) + (n + i)
      BY <1>1
    <3> QED  BY <1>4, <3>1
  <2>6. \A i \in 1 .. Len(Drop(c, Len(a) + n)) : Drop(c, Len(a) + n)[i] = Drop(b, n)[i]
    BY <2>2, <2>3, <2>4, <2>5
  <2>7. Len(Drop(c, Len(a) + n)) = Len(Drop(b, n))
    BY <2>2, <2>3, <2>4
  <2> QED  BY <2>2, <2>3, <2>6, <2>7, SeqEqual
<1>6. Drop(c, Len(a)) = b
  <2>1. 0 \in 0 .. Len(b) /\ Len(a) + 0 = Len(a)
    BY <1>1
  <2>2. Drop(c, Len(a) + 0) = Drop(b, 0)
    BY <1>5, <2>1
  <2> QED  BY <2>1, <2>2, TakeAll
<1>7. ASSUME NEW n \in 0 .. Len(a) PROVE Drop(c, n) = Drop(a, n) \o b
  <2>1. n \in 0 .. Len(c) /\ n \in Nat
    BY <1>1, <1>2
  <2>2. /\ Drop(c, n) \in Seq(S) /\ Len(Drop(c, n)) = Len(c) - n
        /\ \A i \in 1 .. Len(c) - n : Drop(c, n)[i] = c[n + i]
    BY <1>2, <2>1, DropFacts
  <2>3. /\ Drop(a, n) \in Seq(S) /\ Len(Drop(a, n)) = Len(a) - n
        /\ \A i \in 1 .. Len(a) - n : Drop(a, n)[i] = a[n + i]
    BY DropFacts
  <2> DEFINE d == Drop(a, n) \o b
  <2>4. d \in Seq(S) /\ Len(d) = (Len(a) - n) + Len(b)
    BY <2>3, ConcatFacts
  <2>5. \A i \in 1 .. Len(a) - n : d[i] = Drop(a, n)[i]
    BY <2>3, ConcatFacts
  <2>6. \A i \in 1 .. Len(b) : d[(Len(a) - n) + i] = b[i]
    BY <2>3, ConcatFacts
  <2> HIDE DEF d
  <2>7. Len(c) - n = Len(d)
    BY <1>1, <1>2, <2>1, <2>4
  <2>8. ASSUME NEW i \in 1 .. Len(d) PROVE c[n + i] = d[i]
    <3>1. CASE i <= Len(a) - n
      <4>1. i \in 1 .. Len(a) - n /\ n + i \in 1 .. Len(a)
        BY <1>1, <2>1, <3>1
      <4> QED  BY <1>3, <2>3, <2>5, <4>1
    <3>2. CASE ~(i <= Len(a) - n)
      <4> DEFINE k == i - (Len(a) - n)
      <4>1. k \in 1 .. Len(b) /\ Len(a) + k = n + i /\ (Len(a) - n) + k = i
        BY <1>1, <2>1, <2>4, <3>2
      <4>2. c[Len(a) + k] = b[k] /\ d[(Len(a) - n) + k] = b[k]
        BY <1>4, <2>6, <4>1
      <4> QED  BY <4>1, <4>2
    <3> QED  BY <3>1, <3>2
  <2>9. \A i \in 1 .. Len(Drop(c, n)) : Drop(c, n)[i] = d[i]
    BY <2>2, <2>7, <2>8
  <2> QED  BY <2>2, <2>4, <2>7, <2>9, SeqEqual DEF d
<1> QED  BY <1>5, <1>6, <1>7 DEF c

----------------------------------------------------------------------------
(* The grammar.                                                            *)

LEMMA MatchesLeads ==
  ASSUME NEW h \in Seq(Tokens)
  PROVE  Matches(h) <=> \E w \in Sentences : Leads(h, w)
<1>1. ASSUME NEW w \in Sentences PROVE IsPrefixOf(h, w) <=> Leads(h, w)
  <2>1. w \in Seq(Tokens) /\ Len(h) \in Nat /\ Len(w) \in Nat
    BY StructuredAssumption, LenProperties
  <2>2. SUFFICES ASSUME Len(h) <= Len(w) PROVE Take(w, Len(h)) = h <=> Leads(h, w)
    BY DEF IsPrefixOf, Leads
  <2>3. Len(h) \in 0 .. Len(w)
    BY <2>1, <2>2
  <2>4. /\ Take(w, Len(h)) \in Seq(Tokens) /\ Len(Take(w, Len(h))) = Len(h)
        /\ \A i \in 1 .. Len(h) : Take(w, Len(h))[i] = w[i]
    BY <2>1, <2>3, TakeFacts
  <2>5. ASSUME Take(w, Len(h)) = h PROVE Leads(h, w)
    BY <2>2, <2>4, <2>5 DEF Leads
  <2>6. ASSUME Leads(h, w) PROVE Take(w, Len(h)) = h
    <3>1. \A i \in 1 .. Len(Take(w, Len(h))) : Take(w, Len(h))[i] = h[i]
      BY <2>4, <2>6 DEF Leads
    <3> QED  BY <2>4, <3>1, SeqEqual
  <2> QED  BY <2>5, <2>6
<1> QED  BY <1>1 DEF Matches

\* What leads to something that leads to a sentence leads to it itself.
LEMMA MatchesShorter ==
  ASSUME NEW a \in Seq(Tokens), NEW b \in Seq(Tokens), Leads(a, b), Matches(b)
  PROVE  Matches(a)
<1>1. PICK w \in Sentences : Leads(b, w)
  BY MatchesLeads
<1>2. w \in Seq(Tokens)
  BY StructuredAssumption
<1>3. Leads(a, w)
  BY <1>1, <1>2, LeadsTrans
<1> QED  BY <1>1, <1>3, MatchesLeads

LEMMA MatchesEmpty ==
  Matches(<<>>)
<1>1. <<>> \in Seq(Tokens) /\ Len(<<>>) = 0
  BY EmptySeq
<1>2. PICK w \in Sentences : TRUE
  BY StructuredAssumption
<1>3. w \in Seq(Tokens) /\ Len(w) \in Nat
  BY StructuredAssumption, LenProperties
<1>4. Leads(<<>>, w)
  BY <1>1, <1>3 DEF Leads
<1> QED  BY <1>1, <1>4, MatchesLeads

\* What ends in Eos and leads to a sentence is that sentence.
LEMMA MatchesSentence ==
  ASSUME NEW h \in Sentences
  PROVE  Matches(h)
<1>1. h \in Seq(Tokens) /\ Len(h) \in Nat
  BY StructuredAssumption, LenProperties
<1>2. Leads(h, h)
  BY <1>1 DEF Leads
<1> QED  BY <1>1, <1>2, MatchesLeads

\* validate_tokens() returns a prefix that the grammar accepts, all of it if it can.
LEMMA ValidFacts ==
  ASSUME NEW h \in Seq(Tokens), NEW s \in Seq(Tokens), Matches(h)
  PROVE  /\ \E m \in 0 .. Len(s) : ValidTokens(h, s) = Take(s, m)
         /\ ValidTokens(h, s) \in Seq(Tokens) /\ Leads(ValidTokens(h, s), s)
         /\ h \o ValidTokens(h, s) \in Seq(Tokens) /\ Matches(h \o ValidTokens(h, s))
         /\ Matches(h \o s) => ValidTokens(h, s) = s
<1> DEFINE T == {n \in 0 .. Len(s) : Matches(h \o Take(s, n))}
<1>1. Len(s) \in Nat
  BY LenProperties
<1>2. h \o Take(s, 0) = h
  BY TakeAll, ConcatEmptySeq
<1>3. 0 \in T /\ T \in SUBSET (0 .. Len(s))
  <2>1. Matches(h \o Take(s, 0))
    BY <1>2
  <2>2. 0 \in 0 .. Len(s)
    BY <1>1
  <2> QED  BY <2>1, <2>2
<1>4. Longest(T) \in T /\ \A k \in T : k <= Longest(T)
  BY <1>1, <1>3, LongestIs
<1>5. ValidTokens(h, s) = Take(s, Longest(T))
  BY DEF ValidTokens
<1>6. Longest(T) \in 0 .. Len(s) /\ Matches(h \o Take(s, Longest(T)))
  BY <1>4
<1>7. Take(s, Longest(T)) \in Seq(Tokens) /\ Leads(Take(s, Longest(T)), s)
  BY <1>6, TakeFacts, LeadsTake
<1>8. h \o Take(s, Longest(T)) \in Seq(Tokens)
  BY <1>7, ConcatFacts
<1>9. ASSUME Matches(h \o s) PROVE Longest(T) = Len(s)
  <2>1. Len(s) \in T
    BY <1>1, <1>9, TakeAll
  <2>2. Len(s) <= Longest(T)
    BY <1>4, <2>1
  <2> QED  BY <1>1, <1>6, <2>2
<1> HIDE DEF T
<1> QED  BY <1>5, <1>6, <1>7, <1>8, <1>9, TakeAll

\* A sentence ends in Eos.
LEMMA TerminatedEnds ==
  ASSUME NEW h \in Seq(Tokens), Terminated(h)
  PROVE  h # <<>> /\ h[Len(h)] = Eos
BY StructuredAssumption DEF Terminated

LEMMA EmptyUnfinished ==
  ~Terminated(<<>>)
BY StructuredAssumption DEF Terminated

\* What the grammar allows next keeps the matcher on the way to a sentence.
LEMMA AllowedFacts ==
  ASSUME NEW h \in Seq(Tokens)
  PROVE  /\ Allowed(h) \in SUBSET Tokens
         /\ \A t \in Allowed(h) : t \in Tokens /\ Matches(h \o <<t>>) /\ Append(h, t) = h \o <<t>>
<1>1. ASSUME NEW t \in Tokens PROVE Append(h, t) = h \o <<t>>
  BY AppendIsConcat
<1> QED  BY <1>1 DEF Allowed

----------------------------------------------------------------------------
(* The first marker of a sequence.                                         *)

\* The marker comes first at place j.
FirstEnd(s, j) == j \in 1 .. Len(s) /\ s[j] = End /\ \A i \in 1 .. j - 1 : s[i] # End

\* The streaming test for the end of the reasoning finds the first marker.
LEMMA EndsIn ==
  ASSUME NEW S, NEW s \in Seq(S)
  PROVE  /\ EndsStreaming(s) <=> \E j \in 1 .. Len(s) : s[j] = End
         /\ EndsStreaming(s) <=> \E j : FirstEnd(s, j)
         /\ \A i, j : FirstEnd(s, i) /\ FirstEnd(s, j) => i = j
<1>1. DOMAIN s = 1 .. Len(s) /\ Len(s) \in Nat
  BY LenProperties
<1>2. EndsStreaming(s) <=> \E j \in 1 .. Len(s) : s[j] = End
  BY <1>1 DEF EndsStreaming, RangeOf
<1>3. ASSUME EndsStreaming(s) PROVE \E j : FirstEnd(s, j)
  <2> DEFINE T == {j \in 1 .. Len(s) : s[j] = End}
  <2>1. T # {} /\ T \in SUBSET Nat
    BY <1>1, <1>2, <1>3
  <2>2. PICK j \in T : \A k \in T : j <= k
    BY <2>1, LeastNumber
  <2>3. ASSUME NEW i \in 1 .. j - 1 PROVE s[i] # End
    <3>1. i \in 1 .. Len(s) /\ ~(j <= i)
      BY <1>1, <2>1
    <3> QED  BY <2>2, <3>1
  <2> QED  BY <2>2, <2>3 DEF FirstEnd
<1>4. ASSUME NEW i, NEW j, FirstEnd(s, i), FirstEnd(s, j) PROVE i = j
  <2>1. i \in Nat /\ j \in Nat /\ i >= 1 /\ j >= 1
    BY <1>1, <1>4 DEF FirstEnd
  <2>2. ~(i \in 1 .. j - 1) /\ ~(j \in 1 .. i - 1)
    BY <1>4 DEF FirstEnd
  <2> QED  BY <2>1, <2>2
<1> QED  BY <1>2, <1>3, <1>4 DEF FirstEnd

\* The shortest prefix that shows the marker ends with it.
LEMMA ShortestShows ==
  ASSUME NEW S, NEW s \in Seq(S)
  PROVE  LET W == {n \in 1 .. Len(s) : EndsStreaming(Take(s, n))}
             c == CHOOSE n \in W : \A m \in W : n <= m
         IN  /\ W = {} <=> ~EndsStreaming(s)
             /\ W # {} => FirstEnd(s, c)
<1> DEFINE W == {n \in 1 .. Len(s) : EndsStreaming(Take(s, n))}
           c == CHOOSE n \in W : \A m \in W : n <= m
<1>1. Len(s) \in Nat
  BY LenProperties
<1>2. ASSUME NEW n \in 1 .. Len(s)
      PROVE  n \in W <=> \E j \in 1 .. n : s[j] = End
  <2>1. n \in 0 .. Len(s)
    BY <1>1
  <2>2. /\ Take(s, n) \in Seq(S) /\ Len(Take(s, n)) = n
        /\ \A i \in 1 .. n : Take(s, n)[i] = s[i]
    BY <2>1, TakeFacts
  <2>3. EndsStreaming(Take(s, n)) <=> \E j \in 1 .. n : Take(s, n)[j] = End
    BY <2>2, EndsIn
  <2> QED  BY <2>2, <2>3
<1>3. W \in SUBSET Nat /\ W \subseteq 1 .. Len(s)
  BY <1>1
<1> HIDE DEF W
<1>4. ASSUME W # {} PROVE FirstEnd(s, c)
  <2>1. c \in W /\ \A m \in W : c <= m
    BY <1>3, <1>4, LeastIs
  <2> HIDE DEF c
  <2>2. c \in 1 .. Len(s)
    BY <1>3, <2>1
  <2>3. PICK j \in 1 .. c : s[j] = End
    BY <1>2, <2>1, <2>2
  <2>4. ASSUME NEW i \in 1 .. Len(s), s[i] = End PROVE c <= i
    <3>1. i \in 1 .. i
      BY <1>1
    <3>2. i \in W
      BY <1>2, <2>4, <3>1
    <3> QED  BY <2>1, <3>2
  <2>5. j \in 1 .. Len(s)
    BY <1>1, <2>2
  <2>6. c = j
    BY <1>1, <2>2, <2>3, <2>4, <2>5
  <2>7. \A i \in 1 .. c - 1 : i \in 1 .. Len(s) /\ ~(c <= i)
    BY <1>1, <2>2
  <2> QED  BY <2>2, <2>3, <2>4, <2>6, <2>7 DEF FirstEnd
<1>5. ASSUME W = {} PROVE ~EndsStreaming(s)
  <2> SUFFICES ASSUME NEW j \in 1 .. Len(s), s[j] = End PROVE FALSE
    BY EndsIn
  <2>1. j \in 1 .. j
    BY <1>1
  <2> QED  BY <1>2, <1>5, <2>1
<1>6. ASSUME W # {} PROVE EndsStreaming(s)
  BY <1>4, <1>6, EndsIn
<1> QED  BY <1>4, <1>5, <1>6 DEF W

----------------------------------------------------------------------------
(* The walk over the drafts, step by step.                                 *)

EndsAt(w, i) == ~Constrained /\ ~w.apply /\ spec[i] # Placeholder /\ EndsStreaming(<<spec[i]>>)
Advances(w, i) == w.apply /\ spec[i] # Placeholder /\ ~Terminated(w.h)
Takes(w, i) == Advances(w, i) /\ Matches(Append(w.h, spec[i]))

WalkStart == [h |-> hist, apply |-> Constrained, seen |-> FALSE, bad |-> FALSE, rows |-> <<>>]
WalkStep(w, i) ==
  [h |-> IF Takes(w, i) THEN Append(w.h, spec[i]) ELSE w.h,
   apply |-> (w.apply \/ EndsAt(w, i)) /\ spec[i] # Placeholder,
   seen |-> w.seen \/ EndsAt(w, i),
   bad |-> w.bad \/ (Advances(w, i) /\ ~Takes(w, i) /\ ~w.seen),
   rows |-> Append(w.rows, MaskRow(w.h, w.apply))]

WalkTo(W, n) ==
  /\ W = [i \in 0 .. n |-> W[i]] /\ W[0] = WalkStart
  /\ \A i \in 1 .. n : W[i] = WalkStep(W[i - 1], i)

Walked(W) == WalkTo(W, Len(spec)) /\ Walk = W[Len(spec)]

\* The walk over the rows is a recursive function: there is one up to every row.
LEMMA WalkReaches ==
  \A n \in Nat : \E W : WalkTo(W, n)
<1> DEFINE T == {n \in Nat : \E W : WalkTo(W, n)}
<1>1. 0 \in T
  <2> DEFINE W == [i \in 0 .. 0 |-> WalkStart]
  <2>1. W[0] = WalkStart /\ 1 .. 0 = {}
    OBVIOUS
  <2>2. W = [i \in 0 .. 0 |-> W[i]]
    OBVIOUS
  <2> HIDE DEF W
  <2>3. WalkTo(W, 0)
    BY <2>1, <2>2 DEF WalkTo
  <2> QED  BY <2>3
<1>2. ASSUME NEW n \in Nat, n \in T PROVE n + 1 \in T
  <2>1. PICK V : WalkTo(V, n)
    BY <1>2
  <2>2. V[0] = WalkStart /\ \A i \in 1 .. n : V[i] = WalkStep(V[i - 1], i)
    BY <2>1 DEF WalkTo
  <2> DEFINE W == [i \in 0 .. n + 1 |-> IF i = n + 1 THEN WalkStep(V[n], n + 1) ELSE V[i]]
  <2>3. W[n + 1] = WalkStep(V[n], n + 1) /\ \A i \in 0 .. n : W[i] = V[i]
    OBVIOUS
  <2>4. W = [i \in 0 .. n + 1 |-> W[i]]
    OBVIOUS
  <2> HIDE DEF W
  <2>5. ASSUME NEW i \in 1 .. n + 1 PROVE W[i] = WalkStep(W[i - 1], i)
    <3>1. CASE i = n + 1
      <4>1. n \in 0 .. n /\ i - 1 = n
        BY <3>1
      <4> QED  BY <2>3, <3>1, <4>1
    <3>2. CASE i # n + 1
      <4>1. i \in 1 .. n /\ i \in 0 .. n /\ i - 1 \in 0 .. n
        BY <3>2
      <4> QED  BY <2>2, <2>3, <4>1
    <3> QED  BY <3>1, <3>2
  <2>6. W[0] = WalkStart
    BY <2>2, <2>3
  <2>7. WalkTo(W, n + 1)
    BY <2>4, <2>5, <2>6 DEF WalkTo
  <2> QED  BY <2>7
<1> HIDE DEF T
<1>3. \A n \in Nat : n \in T
  BY <1>1, <1>2, SetInduction
<1> QED  BY <1>3 DEF T

LEMMA WalkIs ==
  ASSUME Len(spec) \in Nat
  PROVE  \E W : Walked(W)
<1> DEFINE n == Len(spec)
           F(f) == [i \in 0 .. n |-> IF i = 0 THEN WalkStart ELSE WalkStep(f[i - 1], i)]
           walk == CHOOSE f : f = F(f)
<1>1. PICK V : WalkTo(V, n)
  BY WalkReaches
<1>2. V = F(V)
  <2>1. /\ V = [i \in 0 .. n |-> V[i]] /\ V[0] = WalkStart
        /\ \A i \in 1 .. n : V[i] = WalkStep(V[i - 1], i)
    BY <1>1 DEF WalkTo
  <2>2. \A i \in 0 .. n : V[i] = IF i = 0 THEN WalkStart ELSE WalkStep(V[i - 1], i)
    <3>1. \A i \in 0 .. n : i = 0 \/ i \in 1 .. n
      OBVIOUS
    <3>2. \A i \in 1 .. n : i # 0
      OBVIOUS
    <3> QED  BY <2>1, <3>1, <3>2
  <2>3. [i \in 0 .. n |-> V[i]] = F(V)
    BY <2>2
  <2> HIDE DEF F
  <2> QED  BY <2>1, <2>3
<1>3. walk = F(walk)
  BY <1>2, Zenon
<1>4. Walk = walk[n]
  BY DEF Walk, WalkStart, WalkStep, Takes, Advances, EndsAt, Constrained
<1> HIDE DEF walk
<1>5. WalkTo(walk, n)
  <2>1. walk = [i \in 0 .. n |-> walk[i]]
    <3>1. DOMAIN walk = 0 .. n
      BY <1>3
    <3>2. F(walk) = [i \in DOMAIN F(walk) |-> F(walk)[i]]
      OBVIOUS
    <3> HIDE DEF F
    <3> QED  BY <1>3, <3>1, <3>2
  <2>2. \A i \in 0 .. n : walk[i] = IF i = 0 THEN WalkStart ELSE WalkStep(walk[i - 1], i)
    BY <1>3
  <2>3. 0 \in 0 .. n /\ \A i \in 1 .. n : i \in 0 .. n /\ i # 0
    OBVIOUS
  <2> QED  BY <2>1, <2>2, <2>3 DEF WalkTo
<1> QED  BY <1>4, <1>5 DEF Walked

\* The fields of the walk after one row, and before the first.
LEMMA StepFields ==
  ASSUME NEW W, WalkTo(W, Len(spec)), NEW i \in 1 .. Len(spec)
  PROVE  LET w == W[i - 1]
         IN  /\ W[i].h = IF Takes(w, i) THEN Append(w.h, spec[i]) ELSE w.h
             /\ W[i].apply = ((w.apply \/ EndsAt(w, i)) /\ spec[i] # Placeholder)
             /\ W[i].seen = (w.seen \/ EndsAt(w, i))
             /\ W[i].bad = (w.bad \/ (Advances(w, i) /\ ~Takes(w, i) /\ ~w.seen))
             /\ W[i].rows = Append(w.rows, MaskRow(w.h, w.apply))
<1>1. W[i] = WalkStep(W[i - 1], i)
  BY DEF WalkTo
<1> QED  BY <1>1 DEF WalkStep

LEMMA StartFields ==
  ASSUME NEW W, WalkTo(W, Len(spec))
  PROVE  /\ W[0].h = hist /\ W[0].apply = Constrained /\ W[0].seen = FALSE
         /\ W[0].bad = FALSE /\ W[0].rows = <<>>
BY DEF WalkTo, WalkStart

LEMMA MaskRowType ==
  ASSUME NEW h, NEW a
  PROVE  MaskRow(h, a) \in SUBSET Tokens
BY DEF MaskRow, Allowed

\* The matcher only gains tokens, and a row is filled from where it stands.
WalkOK(w, i) ==
  /\ w.h \in Seq(Tokens) /\ Leads(hist, w.h)
  /\ w.apply \in BOOLEAN /\ w.seen \in BOOLEAN /\ w.bad \in BOOLEAN
  /\ w.rows \in Seq(SUBSET Tokens) /\ Len(w.rows) = i

SpecType == hist \in Seq(Tokens) /\ spec \in Seq(Tokens \cup {Placeholder})

LEMMA SpecEntry ==
  ASSUME SpecType, NEW i \in 1 .. Len(spec)
  PROVE  spec[i] # Placeholder => spec[i] \in Tokens
<1>1. spec[i] \in Tokens \cup {Placeholder}
  BY ElementOfSeq DEF SpecType
<1> QED  BY <1>1

\* The types of the walk at every row.
LEMMA WalkTypes ==
  ASSUME SpecType, NEW W, WalkTo(W, Len(spec)), NEW i \in 0 .. Len(spec)
  PROVE  WalkOK(W[i], i)
<1> DEFINE T == {k \in Nat : k <= Len(spec) => WalkOK(W[k], k)}
<1>1. Len(spec) \in Nat
  BY LenProperties DEF SpecType
<1>2. 0 \in T
  <2>1. hist \in Seq(Tokens) /\ Len(hist) \in Nat /\ Leads(hist, hist)
    BY LenProperties DEF SpecType, Leads
  <2>2. <<>> \in Seq(SUBSET Tokens) /\ Len(<<>>) = 0
    BY EmptySeq
  <2>3. Constrained \in BOOLEAN
    BY DEF Constrained, ShouldFill
  <2>4. WalkOK(W[0], 0)
    BY <2>1, <2>2, <2>3, StartFields DEF WalkOK
  <2> QED  BY <2>4
<1>3. ASSUME NEW k \in Nat, k \in T PROVE k + 1 \in T
  <2>1. SUFFICES ASSUME k + 1 <= Len(spec) PROVE WalkOK(W[k + 1], k + 1)
    OBVIOUS
  <2>2. k + 1 \in 1 .. Len(spec) /\ (k + 1) - 1 = k
    BY <1>1, <2>1
  <2> DEFINE w == W[k]
  <2>3. WalkOK(w, k)
    BY <1>1, <1>3, <2>1
  <2>4. /\ W[k + 1].h = IF Takes(w, k + 1) THEN Append(w.h, spec[k + 1]) ELSE w.h
        /\ W[k + 1].apply = ((w.apply \/ EndsAt(w, k + 1)) /\ spec[k + 1] # Placeholder)
        /\ W[k + 1].seen = (w.seen \/ EndsAt(w, k + 1))
        /\ W[k + 1].bad = (w.bad \/ (Advances(w, k + 1) /\ ~Takes(w, k + 1) /\ ~w.seen))
        /\ W[k + 1].rows = Append(w.rows, MaskRow(w.h, w.apply))
    BY <2>2, StepFields
  <2> HIDE DEF w
  <2>5. /\ W[k + 1].rows \in Seq(SUBSET Tokens) /\ Len(W[k + 1].rows) = k + 1
    BY <2>3, <2>4, MaskRowType, AppendProperties DEF WalkOK
  <2>6. W[k + 1].h \in Seq(Tokens) /\ Leads(hist, W[k + 1].h)
    <3>1. CASE Takes(w, k + 1)
      <4>1. spec[k + 1] \in Tokens
        BY <2>2, <3>1, SpecEntry DEF Takes, Advances
      <4>2. /\ Append(w.h, spec[k + 1]) \in Seq(Tokens)
            /\ Len(Append(w.h, spec[k + 1])) = Len(w.h) + 1
            /\ \A j \in 1 .. Len(w.h) : Append(w.h, spec[k + 1])[j] = w.h[j]
        BY <2>3, <4>1, AppendProperties DEF WalkOK
      <4>3. Len(w.h) \in Nat /\ Len(hist) \in Nat
        BY <2>3, LenProperties DEF WalkOK, SpecType
      <4>4. Leads(hist, Append(w.h, spec[k + 1]))
        BY <2>3, <4>2, <4>3 DEF WalkOK, Leads
      <4> QED  BY <2>4, <3>1, <4>2, <4>4
    <3>2. CASE ~Takes(w, k + 1)
      BY <2>3, <2>4, <3>2 DEF WalkOK
    <3> QED  BY <3>1, <3>2
  <2>7. W[k + 1].apply \in BOOLEAN /\ W[k + 1].seen \in BOOLEAN /\ W[k + 1].bad \in BOOLEAN
    BY <2>4, Zenon
  <2> QED  BY <2>5, <2>6, <2>7 DEF WalkOK
<1> HIDE DEF T
<1>4. \A k \in Nat : k \in T
  BY <1>2, <1>3, SetInduction
<1>5. i \in Nat /\ i <= Len(spec)
  BY <1>1
<1> QED  BY <1>4, <1>5 DEF T

\* The rows filled on the way stay.
LEMMA WalkRows ==
  ASSUME SpecType, NEW W, WalkTo(W, Len(spec)), NEW i \in 0 .. Len(spec)
  PROVE  \A j \in 1 .. i : W[i].rows[j] = MaskRow(W[j - 1].h, W[j - 1].apply)
<1> DEFINE R(k) == \A j \in 1 .. k : W[k].rows[j] = MaskRow(W[j - 1].h, W[j - 1].apply)
           T == {k \in Nat : k <= Len(spec) => R(k)}
<1>1. Len(spec) \in Nat
  BY LenProperties DEF SpecType
<1>2. 0 \in T
  OBVIOUS
<1>3. ASSUME NEW k \in Nat, k \in T PROVE k + 1 \in T
  <2>1. SUFFICES ASSUME k + 1 <= Len(spec), NEW j \in 1 .. k + 1
                 PROVE  W[k + 1].rows[j] = MaskRow(W[j - 1].h, W[j - 1].apply)
    OBVIOUS
  <2>2. k + 1 \in 1 .. Len(spec) /\ (k + 1) - 1 = k /\ k \in 0 .. Len(spec)
    BY <1>1, <2>1
  <2> DEFINE r == MaskRow(W[k].h, W[k].apply)
  <2>3. W[k + 1].rows = Append(W[k].rows, r)
    BY <2>2, StepFields
  <2>4. W[k].rows \in Seq(SUBSET Tokens) /\ Len(W[k].rows) = k
    BY <2>2, WalkTypes DEF WalkOK
  <2>5. R(k)
    BY <1>1, <1>3, <2>1
  <2>6. r \in SUBSET Tokens
    BY MaskRowType
  <2> HIDE DEF r
  <2>7. /\ \A i2 \in 1 .. k : Append(W[k].rows, r)[i2] = W[k].rows[i2]
        /\ Append(W[k].rows, r)[k + 1] = r
    BY <2>4, <2>6, AppendProperties
  <2>8. CASE j \in 1 .. k
    BY <2>3, <2>5, <2>7, <2>8
  <2>9. CASE j = k + 1
    <3>1. j - 1 = k
      BY <2>9
    <3> QED  BY <2>3, <2>7, <2>9, <3>1 DEF r
  <2> QED  BY <2>8, <2>9
<1> HIDE DEF T
<1>4. \A k \in Nat : k \in T
  BY <1>2, <1>3, SetInduction
<1>5. i \in Nat /\ i <= Len(spec)
  BY <1>1
<1> QED  BY <1>4, <1>5 DEF T

\* A token appended behind two sequences is appended to the second.
LEMMA ConcatNext ==
  ASSUME NEW S, NEW h \in Seq(S), NEW a \in Seq(S), NEW e \in S
  PROVE  h \o Append(a, e) = Append(h \o a, e)
<1> DEFINE l == <<e>>
<1>1. l \in Seq(S)
  OBVIOUS
<1>2. h \o a \in Seq(S)
  BY ConcatFacts
<1>3. Append(h \o a, e) = (h \o a) \o l
  BY <1>2, AppendIsConcat
<1>4. Append(a, e) = a \o l
  BY AppendIsConcat
<1> HIDE DEF l
<1>5. (h \o a) \o l = h \o (a \o l)
  BY <1>1, ConcatAssociative
<1> QED  BY <1>3, <1>4, <1>5

LEMMA SubNext ==
  ASSUME NEW S, NEW h \in Seq(S), NEW s \in Seq(S), NEW m \in 1 .. Len(s),
         NEW k \in m .. Len(s)
  PROVE  Append(h \o SubSeq(s, m, k - 1), s[k]) = h \o SubSeq(s, m, k)
<1>1. Len(s) \in Nat /\ m \in Nat /\ k \in Nat /\ 1 <= m /\ m <= k /\ k <= Len(s)
  BY LenProperties
<1>2. s[k] \in S
  BY <1>1, ElementOfSeq
<1>3. SubSeq(s, m, k) = SubSeq(s, m, k - 1) \o <<s[k]>>
  BY SubSeqRecursiveSecond
<1>4. SubSeq(s, m, k - 1) \in Seq(S)
  <2>1. \A i \in m .. k - 1 : s[i] \in S
    BY <1>1, ElementOfSeq
  <2>2. m \in Int /\ k - 1 \in Int
    BY <1>1
  <2> QED  BY <2>1, <2>2, SubSeqProperties
<1>5. SubSeq(s, m, k) = Append(SubSeq(s, m, k - 1), s[k])
  BY <1>2, <1>3, <1>4, AppendIsConcat
<1> DEFINE a == SubSeq(s, m, k - 1)
<1>6. a \in Seq(S)
  BY <1>4
<1> HIDE DEF a
<1>7. h \o Append(a, s[k]) = Append(h \o a, s[k])
  BY <1>2, <1>6, ConcatNext
<1> QED  BY <1>5, <1>7 DEF a

\* A stretch of drafts without placeholders.
LEMMA SpecPart ==
  ASSUME SpecType, NEW m \in 0 .. Len(spec), NEW n \in m .. Len(spec),
         \A i \in m + 1 .. n : spec[i] # Placeholder
  PROVE  /\ SubSeq(spec, m + 1, n) \in Seq(Tokens) /\ Len(SubSeq(spec, m + 1, n)) = n - m
         /\ \A i \in 1 .. n - m : SubSeq(spec, m + 1, n)[i] = spec[m + i]
         /\ hist \o SubSeq(spec, m + 1, n) \in Seq(Tokens)
<1>1. Len(spec) \in Nat
  BY LenProperties DEF SpecType
<1>2. \A i \in m + 1 .. n : spec[i] \in Tokens
  BY <1>1, SpecEntry
<1>3. m + 1 \in Int /\ n \in Int
  BY <1>1
<1>4. SubSeq(spec, m + 1, n) \in Seq(Tokens)
  BY <1>2, <1>3, SubSeqProperties
<1>5. /\ Len(SubSeq(spec, m + 1, n)) = n - m
      /\ \A i \in 1 .. n - m : SubSeq(spec, m + 1, n)[i] = spec[m + i]
  BY SubFacts DEF SpecType
<1> QED  BY <1>4, <1>5, ConcatFacts DEF SpecType

\* No draft fails the assertion of the walk: what was kept is what the grammar admits, and
\* behind an end of the reasoning in the window nothing is asserted.
LEMMA WalkNeverBad ==
  ASSUME SpecType, NEW W, WalkTo(W, Len(spec)), NEW K \in 0 .. Len(spec),
         \A i \in 1 .. K : spec[i] # Placeholder,
         \A i \in K + 1 .. Len(spec) : spec[i] = Placeholder,
         Constrained => Matches(hist \o Take(spec, K))
  PROVE  ~W[Len(spec)].bad
<1> DEFINE A(k) == /\ k <= K => /\ W[k].apply
                                /\ W[k].h = hist \o Take(spec, k) \/ Terminated(W[k].h)
                   /\ k > K => ~W[k].apply
           B(k) == W[k].apply => W[k].seen
           P(k) == ~W[k].bad /\ IF Constrained THEN A(k) ELSE B(k)
           T == {k \in Nat : k <= Len(spec) => P(k)}
<1>1. Len(spec) \in Nat
  BY LenProperties DEF SpecType
<1>2. 0 \in T
  <2>1. W[0].h = hist \o Take(spec, 0)
    BY StartFields, TakeAll, ConcatEmptySeq DEF SpecType
  <2>2. ~(0 > K)
    BY <1>1
  <2> QED  BY <2>1, <2>2, StartFields
<1>3. ASSUME NEW k \in Nat, k \in T PROVE k + 1 \in T
  <2>1. SUFFICES ASSUME k + 1 <= Len(spec) PROVE P(k + 1)
    OBVIOUS
  <2>2. k + 1 \in 1 .. Len(spec) /\ (k + 1) - 1 = k /\ k \in 0 .. Len(spec)
    BY <1>1, <2>1
  <2>3. P(k)
    BY <1>1, <1>3, <2>1
  <2>4. WalkOK(W[k], k)
    BY <2>2, WalkTypes
  <2>5. /\ W[k + 1].h = IF Takes(W[k], k + 1) THEN Append(W[k].h, spec[k + 1]) ELSE W[k].h
        /\ W[k + 1].apply = ((W[k].apply \/ EndsAt(W[k], k + 1)) /\ spec[k + 1] # Placeholder)
        /\ W[k + 1].seen = (W[k].seen \/ EndsAt(W[k], k + 1))
        /\ W[k + 1].bad = (W[k].bad \/ (Advances(W[k], k + 1) /\ ~Takes(W[k], k + 1) /\ ~W[k].seen))
    BY <2>2, StepFields
  <2>6. CASE ~Constrained
    <3>1. ~W[k].bad /\ (W[k].apply => W[k].seen)
      BY <2>3, <2>6
    <3>2. ~W[k + 1].bad
      BY <2>5, <3>1 DEF Advances
    <3>3. W[k + 1].apply => W[k + 1].seen
      BY <2>5, <3>1
    <3> QED  BY <2>6, <3>2, <3>3
  <2>7. CASE Constrained
    <3>1. ~W[k].bad /\ A(k)
      BY <2>3, <2>7
    <3>2. CASE k + 1 <= K
      <4>1. k <= K /\ ~(k + 1 > K) /\ k + 1 \in 1 .. K /\ k \in 0 .. Len(spec) - 1 /\ 0 + 1 = 1
            /\ k + 1 \in 0 .. K /\ k \in 0 .. K
        BY <1>1, <3>2
      <4>2. \A n \in 0 .. K : Take(spec, n) \in Seq(Tokens) /\ hist \o Take(spec, n) \in Seq(Tokens)
                              /\ Len(Take(spec, n)) = n
                              /\ \A i \in 1 .. n : Take(spec, n)[i] = spec[i]
        <5> SUFFICES ASSUME NEW n \in 0 .. K
                     PROVE  /\ Take(spec, n) \in Seq(Tokens) /\ hist \o Take(spec, n) \in Seq(Tokens)
                            /\ Len(Take(spec, n)) = n
                            /\ \A i \in 1 .. n : Take(spec, n)[i] = spec[i]
          OBVIOUS
        <5>1. n \in 0 .. Len(spec) /\ 0 \in 0 .. Len(spec) /\ n - 0 = n
              /\ \A i \in 1 .. n : i \in 1 .. K /\ 0 + i = i
          BY <1>1
        <5> QED  BY <5>1, <4>1, SpecPart DEF Take
      <4>3. CASE Advances(W[k], k + 1)
        <5>1. W[k].h = hist \o Take(spec, k)
          BY <3>1, <4>1, <4>3 DEF Advances
        <5>2. Append(hist \o Take(spec, k), spec[k + 1]) = hist \o Take(spec, k + 1)
          <6>1. hist \in Seq(Tokens \cup {Placeholder})
            BY SeqMonotonic DEF SpecType
          <6>2. spec \in Seq(Tokens \cup {Placeholder})
            BY DEF SpecType
          <6>3. 1 \in 1 .. Len(spec) /\ k + 1 \in 1 .. Len(spec) /\ (k + 1) - 1 = k
            BY <1>1, <2>2
          <6>4. Append(hist \o SubSeq(spec, 1, (k + 1) - 1), spec[k + 1])
                  = hist \o SubSeq(spec, 1, k + 1)
            BY <6>1, <6>2, <6>3, SubNext
          <6> QED  BY <6>3, <6>4 DEF Take
        <5>3. Leads(Take(spec, k + 1), Take(spec, K))
          <6>1. K \in 0 .. K
            BY <1>1
          <6>2. \A i \in 1 .. k + 1 : i \in 1 .. K
            BY <1>1, <4>1
          <6> QED  BY <3>2, <4>1, <4>2, <6>1, <6>2 DEF Leads
        <5>4. K \in 0 .. K
          BY <1>1
        <5>5. Leads(hist \o Take(spec, k + 1), hist \o Take(spec, K))
          BY <4>1, <4>2, <5>3, <5>4, LeadsConcat DEF SpecType
        <5>6. Matches(hist \o Take(spec, k + 1))
          BY <2>7, <4>1, <4>2, <5>4, <5>5, MatchesShorter
        <5>7. Takes(W[k], k + 1)
          BY <4>3, <5>1, <5>2, <5>6 DEF Takes
        <5>8. ~W[k + 1].bad
          BY <2>5, <3>1, <5>7
        <5>9. W[k + 1].h = hist \o Take(spec, k + 1)
          BY <2>5, <5>1, <5>2, <5>7
        <5>10. W[k + 1].apply
          BY <2>5, <3>1, <4>1
        <5> QED  BY <2>7, <4>1, <5>8, <5>9, <5>10
      <4>4. CASE ~Advances(W[k], k + 1)
        <5>1. ~W[k + 1].bad /\ W[k + 1].h = W[k].h
          BY <2>5, <3>1, <4>4 DEF Takes
        <5>2. spec[k + 1] # Placeholder
          BY <4>1
        <5>3. W[k].apply /\ W[k + 1].apply
          BY <2>5, <3>1, <4>1, <5>2
        <5>4. Terminated(W[k].h)
          BY <4>4, <5>2, <5>3 DEF Advances
        <5> QED  BY <2>7, <4>1, <5>1, <5>3, <5>4
      <4> QED  BY <4>3, <4>4
    <3>3. CASE ~(k + 1 <= K)
      <4>1. k + 1 \in K + 1 .. Len(spec) /\ k + 1 > K
        BY <1>1, <2>1, <3>3
      <4>2. spec[k + 1] = Placeholder
        BY <4>1
      <4>3. ~W[k + 1].bad /\ ~W[k + 1].apply
        BY <2>5, <3>1, <4>2 DEF Advances
      <4> QED  BY <2>7, <3>3, <4>3
    <3> QED  BY <3>2, <3>3
  <2> QED  BY <2>6, <2>7
<1> HIDE DEF T
<1>4. \A k \in Nat : k \in T
  BY <1>2, <1>3, SetInduction
<1> QED  BY <1>1, <1>4 DEF T

\* Where the answer of this step's block begins, before any row is filled.
StartsAt(s) ==
  IF Constrained THEN s = 0
  ELSE s > 0 /\ spec[s] = End /\ \A i \in 1 .. s - 1 : spec[i] # End

\* Up to there the matcher has not moved.
LEMMA WalkBefore ==
  ASSUME SpecType, NEW W, WalkTo(W, Len(spec)), NEW s \in 0 .. Len(spec), StartsAt(s)
  PROVE  W[s].apply /\ W[s].h = hist
<1>1. Len(spec) \in Nat
  BY LenProperties DEF SpecType
<1>2. CASE Constrained
  <2>1. s = 0
    BY <1>2 DEF StartsAt
  <2> QED  BY <1>2, <2>1, StartFields
<1>3. CASE ~Constrained
  <2>1. s \in Nat /\ s >= 1 /\ spec[s] = End /\ \A i \in 1 .. s - 1 : spec[i] # End
    BY <1>1, <1>3 DEF StartsAt
  <2> DEFINE P(k) == ~W[k].apply /\ W[k].h = hist
             T == {k \in Nat : k < s => P(k)}
  <2>2. ASSUME NEW k \in 1 .. Len(spec), P(k - 1)
        PROVE  /\ W[k].h = hist
               /\ W[k].apply = (spec[k] = End)
    <3>1. /\ W[k].h = IF Takes(W[k - 1], k) THEN Append(W[k - 1].h, spec[k]) ELSE W[k - 1].h
          /\ W[k].apply = ((W[k - 1].apply \/ EndsAt(W[k - 1], k)) /\ spec[k] # Placeholder)
      BY StepFields
    <3>2. ~Takes(W[k - 1], k)
      BY <2>2 DEF Takes, Advances
    <3>3. EndsStreaming(<<spec[k]>>) <=> spec[k] = End
      BY DEF EndsStreaming, RangeOf
    <3>4. End # Placeholder
      BY StructuredAssumption
    <3> QED  BY <1>3, <2>2, <3>1, <3>2, <3>3, <3>4 DEF EndsAt
  <2>3. 0 \in T
    BY <1>3, StartFields
  <2>4. ASSUME NEW k \in Nat, k \in T PROVE k + 1 \in T
    <3>1. SUFFICES ASSUME k + 1 < s PROVE P(k + 1)
      OBVIOUS
    <3>2. k + 1 \in 1 .. Len(spec) /\ (k + 1) - 1 = k /\ k < s /\ k + 1 \in 1 .. s - 1
      BY <1>1, <2>1, <3>1
    <3>3. P(k)
      BY <2>4, <3>2
    <3>4. W[k + 1].h = hist /\ W[k + 1].apply = (spec[k + 1] = End)
      BY <2>2, <3>2, <3>3
    <3>5. spec[k + 1] # End
      BY <2>1, <3>2
    <3> QED  BY <3>4, <3>5
  <2> HIDE DEF T
  <2>5. \A k \in Nat : k \in T
    BY <2>3, <2>4, SetInduction
  <2>6. s - 1 \in Nat /\ s - 1 < s /\ s \in 1 .. Len(spec)
    BY <1>1, <2>1
  <2>7. P(s - 1)
    BY <2>5, <2>6 DEF T
  <2> QED  BY <2>1, <2>2, <2>6, <2>7
<1> QED  BY <1>2, <1>3

\* From there on it holds the drafts their rows allow, until they end a sentence.
LEMMA WalkConstrains ==
  ASSUME SpecType, NEW W, WalkTo(W, Len(spec)), Matches(hist), ~Terminated(hist),
         NEW n \in 0 .. Len(spec), NEW s \in 0 .. n, StartsAt(s),
         \A i \in 1 .. n : spec[i] # Placeholder,
         \A i \in s + 1 .. n : spec[i] \in MaskRow(W[i - 1].h, W[i - 1].apply)
  PROVE  /\ W[n].apply
         /\ \/ /\ W[n].h = hist \o SubSeq(spec, s + 1, n)
               /\ Matches(W[n].h) /\ ~Terminated(W[n].h)
            \/ \E k \in s + 1 .. n : spec[k] = Eos /\ Matches(hist \o SubSeq(spec, s + 1, k))
<1> DEFINE A(k) == /\ W[k].h = hist \o SubSeq(spec, s + 1, k)
                   /\ Matches(W[k].h) /\ ~Terminated(W[k].h)
           B(k) == \E m \in s + 1 .. k : spec[m] = Eos /\ Matches(hist \o SubSeq(spec, s + 1, m))
           P(k) == W[k].apply /\ (A(k) \/ B(k))
           T == {k \in Nat : s + k <= n => P(s + k)}
<1>1. Len(spec) \in Nat /\ n \in Nat /\ s \in Nat /\ s <= n /\ n <= Len(spec)
      /\ s \in 0 .. Len(spec)
  BY LenProperties DEF SpecType
<1>2. 0 \in T
  <2>1. W[s].apply /\ W[s].h = hist
    BY <1>1, WalkBefore
  <2>2. SubSeq(spec, s + 1, s) = <<>>
    BY <1>1, SubSeqEmpty
  <2>3. hist \o SubSeq(spec, s + 1, s) = hist
    BY <2>2, ConcatEmptySeq DEF SpecType
  <2>4. P(s)
    BY <2>1, <2>3
  <2>5. s + 0 = s
    BY <1>1
  <2> HIDE DEF P
  <2> QED  BY <2>4, <2>5
<1>3. ASSUME NEW j \in Nat, j \in T PROVE j + 1 \in T
  <2> DEFINE k == s + j
  <2> HIDE DEF P
  <2>1. SUFFICES ASSUME s + (j + 1) <= n PROVE P(s + (j + 1))
    BY <1>1
  <2>2. s + (j + 1) = k + 1 /\ k \in Nat /\ k + 1 \in 1 .. Len(spec) /\ (k + 1) - 1 = k
        /\ k \in 0 .. Len(spec) /\ k + 1 \in 1 .. n /\ k + 1 \in s + 1 .. n /\ k <= n
        /\ k + 1 \in s + 1 .. Len(spec) /\ s + 1 \in 1 .. Len(spec) /\ k + 1 \in s .. Len(spec)
    BY <1>1, <2>1
  <2>3. P(k)
    BY <1>3, <2>2
  <2> HIDE DEF k
  <2> USE DEF P
  <2>4. WalkOK(W[k], k)
    BY <2>2, WalkTypes
  <2>5. /\ W[k + 1].h = IF Takes(W[k], k + 1) THEN Append(W[k].h, spec[k + 1]) ELSE W[k].h
        /\ W[k + 1].apply = ((W[k].apply \/ EndsAt(W[k], k + 1)) /\ spec[k + 1] # Placeholder)
    BY <2>2, StepFields
  <2>6. spec[k + 1] # Placeholder /\ spec[k + 1] \in MaskRow(W[k].h, W[k].apply)
    BY <2>2
  <2>7. W[k + 1].apply
    BY <2>3, <2>5, <2>6
  <2>8. CASE B(k)
    <3>1. \A m \in s + 1 .. k : m \in s + 1 .. k + 1
      BY <1>1, <2>2
    <3>2. B(k + 1)
      BY <2>8, <3>1
    <3> QED  BY <2>2, <2>7, <3>2
  <2>9. CASE A(k)
    <3>1. spec[k + 1] \in Allowed(W[k].h)
      BY <2>3, <2>6, <2>9 DEF MaskRow
    <3>2. spec[k + 1] \in Tokens /\ Matches(Append(W[k].h, spec[k + 1]))
      BY <3>1 DEF Allowed
    <3>3. Takes(W[k], k + 1)
      BY <2>3, <2>6, <2>9, <3>2 DEF Takes, Advances
    <3>4. Append(hist \o SubSeq(spec, s + 1, (k + 1) - 1), spec[k + 1])
            = hist \o SubSeq(spec, s + 1, k + 1)
      <4>1. hist \in Seq(Tokens \cup {Placeholder}) /\ spec \in Seq(Tokens \cup {Placeholder})
        BY SeqMonotonic DEF SpecType
      <4> QED  BY <2>2, <4>1, SubNext
    <3>5. W[k + 1].h = Append(W[k].h, spec[k + 1])
      BY <2>5, <3>3
    <3>6. W[k + 1].h = hist \o SubSeq(spec, s + 1, k + 1)
      BY <2>2, <2>9, <3>4, <3>5
    <3>7. Matches(W[k + 1].h)
      BY <3>2, <3>5
    <3>8. CASE ~Terminated(W[k + 1].h)
      BY <2>2, <2>7, <3>6, <3>7, <3>8
    <3>9. CASE Terminated(W[k + 1].h)
      <4>1. W[k].h \in Seq(Tokens)
        BY <2>4 DEF WalkOK
      <4>2. /\ W[k + 1].h \in Seq(Tokens) /\ Len(W[k + 1].h) = Len(W[k].h) + 1
            /\ W[k + 1].h[Len(W[k].h) + 1] = spec[k + 1]
        BY <3>2, <3>5, <4>1, AppendProperties
      <4>3. W[k + 1].h[Len(W[k + 1].h)] = Eos
        BY <3>9, <4>2, TerminatedEnds
      <4>4. spec[k + 1] = Eos
        BY <4>2, <4>3
      <4>5. Matches(hist \o SubSeq(spec, s + 1, k + 1))
        BY <3>6, <3>7
      <4>6. k + 1 \in s + 1 .. k + 1
        BY <1>1, <2>2
      <4>7. B(k + 1)
        BY <4>4, <4>5, <4>6
      <4> QED  BY <2>2, <2>7, <4>7
    <3> QED  BY <3>8, <3>9
  <2> QED  BY <2>3, <2>8, <2>9
<1> HIDE DEF T
<1>4. \A j \in Nat : j \in T
  BY <1>2, <1>3, SetInduction
<1>5. n - s \in Nat /\ s + (n - s) = n
  BY <1>1
<1>6. P(n)
  <2> HIDE DEF P
  <2>1. n - s \in T
    BY <1>4, <1>5
  <2> QED  BY <1>1, <1>5, <2>1 DEF T
<1> QED  BY <1>6

----------------------------------------------------------------------------
(* Where the answer begins.                                                *)

StartOf(tk) ==
  IF Free \/ mode.prompt_ends THEN 0
  ELSE LET Ends == {n \in 1 .. Len(tk) : EndsStreaming(Take(tk, n))}
       IN  IF Ends = {} THEN Len(tk) ELSE CHOOSE n \in Ends : \A m \in Ends : n <= m

\* Where the answer starts: behind the first marker, or behind all tokens without one.
LEMMA StartIs ==
  ASSUME NEW tk \in Seq(Tokens)
  PROVE  /\ StartOf(tk) \in 0 .. Len(tk)
         /\ Free \/ mode.prompt_ends => StartOf(tk) = 0
         /\ ~Free /\ ~mode.prompt_ends =>
              /\ ~EndsStreaming(tk) => StartOf(tk) = Len(tk)
              /\ EndsStreaming(tk) => FirstEnd(tk, StartOf(tk))
<1> DEFINE Ends == {n \in 1 .. Len(tk) : EndsStreaming(Take(tk, n))}
           c == CHOOSE n \in Ends : \A m \in Ends : n <= m
<1>1. Len(tk) \in Nat
  BY LenProperties
<1>2. (Ends = {} <=> ~EndsStreaming(tk)) /\ (Ends # {} => FirstEnd(tk, c))
  BY ShortestShows
<1>3. StartOf(tk) = IF Free \/ mode.prompt_ends THEN 0 ELSE IF Ends = {} THEN Len(tk) ELSE c
  BY DEF StartOf
<1> HIDE DEF Ends, c
<1>4. FirstEnd(tk, c) => c \in 0 .. Len(tk)
  BY <1>1 DEF FirstEnd
<1>5. 0 \in 0 .. Len(tk) /\ Len(tk) \in 0 .. Len(tk)
  BY <1>1
<1> QED  BY <1>2, <1>3, <1>4, <1>5

\* A request that goes on has no complete sentence.
LEMMA Unfinished ==
  ASSUME TypeOK, Following, GoesOn, phase = "scheduled"
  PROVE  ~Terminated(hist)
<1> SUFFICES ASSUME Terminated(hist) PROVE FALSE
  OBVIOUS
<1>1. tokens \in Seq(Tokens) /\ Len(tokens) \in Nat /\ hist \in Seq(Tokens) /\ Len(hist) \in Nat
  BY LenProperties DEF TypeOK
<1>2. hist = Drop(tokens, StartOf(tokens)) /\ StartOf(tokens) \in 0 .. Len(tokens)
  BY <1>1, StartIs DEF Following, AnswerStart, StartOf
<1>3. /\ Len(hist) = Len(tokens) - StartOf(tokens)
      /\ \A i \in 1 .. Len(hist) : hist[i] = tokens[StartOf(tokens) + i]
  BY <1>1, <1>2, DropFacts
<1>4. hist # <<>> /\ hist[Len(hist)] = Eos
  BY <1>1, TerminatedEnds
<1>5. Len(hist) > 0
  BY <1>1, <1>4, EmptySeq
<1>6. Len(hist) \in 1 .. Len(hist) /\ StartOf(tokens) + Len(hist) = Len(tokens) /\ Len(tokens) > 0
  BY <1>1, <1>2, <1>3, <1>5
<1>7. tokens[Len(tokens)] = Eos
  BY <1>3, <1>4, <1>6
<1>8. tokens # <<>>
  BY <1>6, EmptySeq
<1> QED  BY <1>7, <1>8 DEF GoesOn, Stopped

----------------------------------------------------------------------------
(* The invariant holds at the start.                                       *)

LEMMA InitHolds ==
  Init => IInv
<1> SUFFICES ASSUME Init PROVE IInv
  OBVIOUS
<1>1. /\ mode \in Modes /\ phase = "idle" /\ tokens = <<>> /\ hist = <<>> /\ ended = "none"
      /\ end_at = 0 /\ worker = <<>> /\ spec = <<>> /\ rows = <<>> /\ out = <<>> /\ stale = FALSE
  BY DEF Init
<1>2. \A S : <<>> \in Seq(S) /\ Len(<<>>) = 0
  BY EmptySeq
<1>3. TypeOK
  <2>1. 0 \in 0 .. Len(<<>>) /\ <<>> \in Seq(Tokens) /\ <<>> \in Seq(SUBSET Tokens)
        /\ <<>> \in Seq(Tokens \cup {Placeholder})
    BY <1>2
  <2>2. tokens \in Seq(Tokens) /\ hist \in Seq(Tokens) /\ worker \in Seq(Tokens)
        /\ out \in Seq(Tokens) /\ rows \in Seq(SUBSET Tokens)
    BY <1>1, <2>1
  <2>3. spec \in Seq(Tokens \cup {Placeholder}) /\ end_at \in 0 .. Len(tokens)
    BY <1>1, <2>1
  <2> QED  BY <1>1, <2>2, <2>3 DEF TypeOK
<1>4. EndKnown
  BY <1>1 DEF EndKnown
<1>5. Following
  <2>1. StartOf(tokens) \in 0 .. Len(tokens)
    BY <1>1, <1>2, StartIs
  <2>2. StartOf(tokens) = 0
    BY <1>1, <1>2, <2>1
  <2>3. Drop(<<>>, 0) = <<>>
    BY <1>2, TakeAll
  <2>4. AnswerStart = StartOf(tokens)
    BY DEF AnswerStart, StartOf
  <2> QED  BY <1>1, <2>2, <2>3, <2>4 DEF Following
<1>6. Hopeful
  BY <1>1, MatchesEmpty DEF Hopeful
<1>7. GoesOn
  BY <1>1 DEF GoesOn, Stopped
<1> QED
  BY <1>1, <1>3, <1>4, <1>5, <1>6, <1>7
  DEF IInv, SpecPlanned, RowsConstrain, BlockSampled, StaleSampled, NotCrashed

----------------------------------------------------------------------------
(* schedule().                                                             *)

LEMMA PaddingFacts ==
  ASSUME NEW n \in Nat
  PROVE  /\ Padding(n) \in Seq(Tokens \cup {Placeholder}) /\ Len(Padding(n)) = n
         /\ \A i \in 1 .. n : Padding(n)[i] = Placeholder
<1>1. Padding(n) \in [1 .. n -> Tokens \cup {Placeholder}]
  BY DEF Padding
<1>2. DOMAIN Padding(n) = 1 .. n
  BY DEF Padding
<1>3. Padding(n) \in Seq(Tokens \cup {Placeholder})
  BY <1>1, SeqDef
<1>4. Len(Padding(n)) = n
  BY <1>2, <1>3, LenProperties
<1> QED  BY <1>3, <1>4 DEF Padding

\* Between steps no end is left to notice.
LEMMA NothingToNotice ==
  ASSUME TypeOK, EndKnown, tokens # <<>>
  PROVE  /\ ~Notices(tokens, <<>>)
         /\ EndedAfter(tokens, <<>>) = ended /\ EndAtAfter(tokens, <<>>) = end_at
         /\ ShouldAdvance(tokens, <<>>) = Constrained
<1>1. tokens \in Seq(Tokens) /\ Len(tokens) \in Nat \ {0}
  BY EmptySeq DEF TypeOK
<1>2. ~Notices(tokens, <<>>)
  <2> SUFFICES ASSUME ~Free, ended # "yes", EndsStreaming(Drop(tokens, Len(tokens) - 1)) PROVE FALSE
    BY DEF Notices, Window
  <2> DEFINE m == Len(tokens) - 1
             d == Drop(tokens, m)
  <2>1. m \in 0 .. Len(tokens) /\ Len(tokens) - m = 1
        /\ m + 1 = Len(tokens) /\ 1 \in 1 .. 1 /\ Len(tokens) \in 1 .. Len(tokens)
    BY <1>1
  <2> HIDE DEF m
  <2>2. d \in Seq(Tokens) /\ Len(d) = 1 /\ d[1] = tokens[Len(tokens)]
    <3>1. /\ d \in Seq(Tokens) /\ Len(d) = Len(tokens) - m
          /\ \A i \in 1 .. Len(tokens) - m : d[i] = tokens[m + i]
      BY <1>1, <2>1, DropFacts
    <3> QED  BY <2>1, <3>1
  <2> HIDE DEF d
  <2>3. d[1] = End
    <3>1. PICK j \in 1 .. Len(d) : d[j] = End
      <4>1. EndsStreaming(d)
        BY DEF d, m
      <4> QED  BY <2>2, <4>1, EndsIn
    <3> QED  BY <2>2, <3>1
  <2>4. EndsStreaming(tokens)
    BY <1>1, <2>1, <2>2, <2>3, EndsIn
  <2> QED  BY <2>4 DEF EndKnown, EndsStreaming
<1>3. Constrained <=> Free \/ ended = "yes"
  BY DEF Constrained, ShouldFill, EndedAtFill, EndKnown
<1>4. ShouldAdvance(tokens, <<>>) <=> Free \/ ended = "yes"
  BY <1>2 DEF ShouldAdvance
<1>5. ShouldAdvance(tokens, <<>>) \in BOOLEAN /\ Constrained \in BOOLEAN
  BY DEF ShouldAdvance, Constrained, ShouldFill
<1> QED  BY <1>2, <1>3, <1>4, <1>5 DEF EndedAfter, EndAtAfter

LEMMA KeptFacts ==
  ASSUME TypeOK, EndKnown, Hopeful, tokens # <<>>, NEW d \in Seq(Tokens)
  PROVE  /\ Kept(d) \in Seq(Tokens) /\ Leads(Kept(d), d)
         /\ Constrained => hist \o Kept(d) \in Seq(Tokens) /\ Matches(hist \o Kept(d))
<1>1. hist \in Seq(Tokens) /\ Matches(hist)
  BY DEF TypeOK, Hopeful
<1>2. Kept(d) = IF Constrained THEN ValidTokens(hist, d) ELSE d
  BY NothingToNotice DEF Kept
<1>3. Leads(d, d)
  BY DEF Leads
<1> QED  BY <1>1, <1>2, <1>3, ValidFacts

\* The rows of a step, as a prefix of drafts and a tail of placeholders.
Plan(s, d, k) ==
  /\ s \in Seq(Tokens \cup {Placeholder}) /\ Len(s) <= Len(d)
  /\ k \in 0 .. Len(s)
  /\ \A i \in 1 .. k : s[i] = d[i]
  /\ \A i \in k + 1 .. Len(s) : s[i] = Placeholder
  /\ ~mode.async /\ ~mode.mm => k = Len(s)
  /\ Constrained => Matches(hist \o Take(s, k))

\* A prefix q of the drafts that the grammar admits, with or without padding.
LEMMA PlanOf ==
  ASSUME TypeOK, NEW d \in Seq(Tokens), NEW q \in Seq(Tokens), Leads(q, d),
         Constrained => Matches(hist \o q), NEW p \in Nat, Len(q) + p <= Len(d),
         ~mode.async /\ ~mode.mm => p = 0
  PROVE  Plan(q \o Padding(p), d, Len(q))
<1> DEFINE P == Tokens \cup {Placeholder}
           s == q \o Padding(p)
<1>1. Len(q) \in Nat /\ Len(d) \in Nat
  BY LenProperties
<1>2. q \in Seq(P) /\ Padding(p) \in Seq(P) /\ Len(Padding(p)) = p
      /\ \A i \in 1 .. p : Padding(p)[i] = Placeholder
  BY SeqMonotonic, PaddingFacts
<1> HIDE DEF P
<1>3. s \in Seq(P) /\ Len(s) = Len(q) + p
  BY <1>2, ConcatFacts
<1>4. \A i \in 1 .. Len(q) : s[i] = q[i]
  BY <1>2, ConcatFacts
<1>5. \A i \in 1 .. p : s[Len(q) + i] = Padding(p)[i]
  BY <1>2, ConcatFacts
<1> HIDE DEF s
<1>6. ASSUME NEW i \in Len(q) + 1 .. Len(s) PROVE s[i] = Placeholder
  <2>1. i - Len(q) \in 1 .. p /\ Len(q) + (i - Len(q)) = i
    BY <1>1, <1>3
  <2>2. s[Len(q) + (i - Len(q))] = Padding(p)[i - Len(q)]
    BY <1>5, <2>1
  <2> QED  BY <1>2, <2>1, <2>2
<1>7. Len(q) \in 0 .. Len(s) /\ Len(s) <= Len(d)
  BY <1>1, <1>3
<1>8. Take(s, Len(q)) = q
  <2>1. /\ Take(s, Len(q)) \in Seq(P) /\ Len(Take(s, Len(q))) = Len(q)
        /\ \A i \in 1 .. Len(q) : Take(s, Len(q))[i] = s[i]
    BY <1>3, <1>7, TakeFacts
  <2>2. \A i \in 1 .. Len(Take(s, Len(q))) : Take(s, Len(q))[i] = q[i]
    BY <1>4, <2>1
  <2> QED  BY <1>2, <2>1, <2>2, SeqEqual
<1>9. \A i \in 1 .. Len(q) : s[i] = d[i]
  BY <1>4 DEF Leads
<1>10. ~mode.async /\ ~mode.mm => Len(q) = Len(s)
  BY <1>1, <1>3
<1> QED  BY <1>3, <1>6, <1>7, <1>8, <1>9, <1>10 DEF Plan, P, s

\* schedule() sends the drafts of the worker, or placeholders for those it cannot know.
LEMMA SchedulePlans ==
  ASSUME TypeOK, EndKnown, Hopeful, Schedule
  PROVE  /\ worker' \in Seq(Tokens) /\ \E k : Plan(spec', worker', k)
         /\ ended' = ended /\ end_at' = end_at
<1>0. /\ hist \in Seq(Tokens) /\ NumSpec \in Nat /\ worker \in Seq(Tokens) /\ Len(worker) \in Nat
      /\ Matches(hist)
  BY StructuredAssumption, LenProperties DEF TypeOK, Hopeful
<1>1. CASE tokens = <<>>
  <2>1. spec' = <<>> /\ worker' = worker /\ ended' = ended /\ end_at' = end_at
    BY <1>1 DEF Schedule
  <2>2. <<>> \in Seq(Tokens \cup {Placeholder}) /\ Len(<<>>) = 0
    BY EmptySeq
  <2>3. hist \o Take(<<>>, 0) = hist
    BY <1>0, SubSeqEmpty, ConcatEmptySeq DEF Take
  <2>4. Plan(<<>>, worker, 0)
    <3> DEFINE s == <<>>
    <3>0. Matches(hist \o Take(s, 0))
      BY <1>0, <2>3
    <3> HIDE DEF s
    <3>1. /\ s \in Seq(Tokens \cup {Placeholder}) /\ Len(s) = 0 /\ Len(s) <= Len(worker)
          /\ 0 \in 0 .. Len(s)
      BY <1>0, <2>2 DEF s
    <3>2. 1 .. 0 = {} /\ 0 + 1 .. Len(s) = {}
      BY <3>1
    <3>3. Plan(s, worker, 0)
      BY <3>0, <3>1, <3>2 DEF Plan
    <3> QED  BY <3>3 DEF s
  <2> QED  BY <1>0, <2>1, <2>4
<1>2. CASE tokens # <<>>
  <2>1. PICK d \in Drafts, n \in 0 .. NumSpec :
          /\ worker' = d
          /\ spec' = IF mode.async THEN KeptInOutput(Take(d, n))
                     ELSE IF mode.mm THEN Padding(NumSpec)
                     ELSE Take(Kept(d), IF n <= Len(Kept(d)) THEN n ELSE Len(Kept(d)))
          /\ IF mode.mm /\ ~mode.async
             THEN UNCHANGED <<ended, end_at>>
             ELSE /\ ended' = EndedAfter(tokens, <<>>)
                  /\ end_at' = EndAtAfter(tokens, <<>>)
    BY <1>2 DEF Schedule
  <2>2. ended' = ended /\ end_at' = end_at
    BY <1>2, <2>1, NothingToNotice
  <2>3. d \in Seq(Tokens) /\ Len(d) = NumSpec
    <3>1. d \in [1 .. NumSpec -> Tokens]
      BY DEF Drafts
    <3>2. d \in Seq(Tokens)
      BY <1>0, <3>1, SeqDef
    <3> QED  BY <1>0, <3>1, <3>2, LenProperties
  <2>4. CASE mode.async
    <3> DEFINE t == Take(d, n)
               q == Kept(t)
    <3>1. t \in Seq(Tokens) /\ Len(t) = n /\ Leads(t, d)
      BY <1>0, <2>3, TakeFacts, LeadsTake
    <3>2. q \in Seq(Tokens) /\ Leads(q, t) /\ (Constrained => Matches(hist \o q))
      BY <1>2, <3>1, KeptFacts
    <3>3. spec' = q \o Padding(Len(t) - Len(q))
      BY <2>1, <2>4 DEF KeptInOutput
    <3> HIDE DEF q, t
    <3>4. Leads(q, d)
      BY <2>3, <3>1, <3>2, LeadsTrans
    <3>5. Len(q) \in Nat /\ Len(q) <= n
      BY <3>1, <3>2, LenProperties DEF Leads
    <3>6. n - Len(q) \in Nat /\ Len(q) + (n - Len(q)) <= Len(d)
      BY <1>0, <2>3, <3>5
    <3>7. Plan(q \o Padding(n - Len(q)), d, Len(q))
      BY <2>3, <2>4, <3>2, <3>4, <3>6, PlanOf
    <3> QED  BY <2>1, <2>2, <2>3, <3>1, <3>3, <3>7
  <2>5. CASE ~mode.async /\ mode.mm
    <3>1. <<>> \in Seq(Tokens) /\ Len(<<>>) = 0 /\ Leads(<<>>, d) /\ hist \o <<>> = hist
      BY <1>0, <2>3, EmptySeq, ConcatEmptySeq DEF Leads
    <3>2. 0 + NumSpec <= Len(d)
      BY <1>0, <2>3
    <3>3. Plan(<<>> \o Padding(NumSpec), d, 0)
      BY <1>0, <2>3, <2>5, <3>1, <3>2, PlanOf
    <3>4. <<>> \o Padding(NumSpec) = Padding(NumSpec)
      BY <1>0, PaddingFacts, ConcatEmptySeq
    <3> QED  BY <2>1, <2>2, <2>3, <2>5, <3>3, <3>4
  <2>6. CASE ~mode.async /\ ~mode.mm
    <3> DEFINE q == Kept(d)
               m == IF n <= Len(q) THEN n ELSE Len(q)
    <3>1. /\ q \in Seq(Tokens) /\ Leads(q, d)
          /\ Constrained => hist \o q \in Seq(Tokens) /\ Matches(hist \o q)
      BY <1>2, <2>3, KeptFacts
    <3>2. spec' = Take(q, m)
      BY <2>1, <2>6
    <3> HIDE DEF q
    <3>3. m \in 0 .. Len(q) /\ Len(q) \in Nat
      BY <1>0, <3>1, LenProperties
    <3> HIDE DEF m
    <3>4. Take(q, m) \in Seq(Tokens) /\ Len(Take(q, m)) = m /\ Leads(Take(q, m), q)
      BY <3>1, <3>3, TakeFacts, LeadsTake
    <3>5. Leads(Take(q, m), d)
      BY <2>3, <3>1, <3>4, LeadsTrans
    <3>6. Constrained => Matches(hist \o Take(q, m))
      <4>1. hist \o Take(q, m) \in Seq(Tokens) /\ Leads(hist \o Take(q, m), hist \o q)
        BY <1>0, <3>1, <3>4, ConcatFacts, LeadsConcat
      <4> QED  BY <3>1, <4>1, MatchesShorter
    <3>7. m + 0 <= Len(d)
      BY <3>3, <3>4, <3>5 DEF Leads
    <3>8. Plan(Take(q, m) \o Padding(0), d, m)
      BY <2>3, <3>4, <3>5, <3>6, <3>7, PlanOf
    <3>9. Padding(0) = <<>>
      BY PaddingFacts, EmptySeq
    <3>10. Take(q, m) \o <<>> = Take(q, m)
      BY <3>4, ConcatEmptySeq
    <3> QED  BY <2>1, <2>2, <2>3, <3>2, <3>8, <3>9, <3>10
  <2> QED  BY <2>4, <2>5, <2>6
<1> QED  BY <1>1, <1>2

\* Each action preserves the invariant.
LEMMA ScheduleKeeps ==
  ASSUME IInv, Schedule
  PROVE  IInv'
<1>1. /\ phase = "idle" /\ phase' = "scheduled" /\ mode' = mode /\ tokens' = tokens
      /\ hist' = hist /\ rows' = rows /\ out' = out /\ stale' = stale
  BY DEF Schedule
<1>2. TypeOK /\ EndKnown /\ Following /\ Hopeful /\ GoesOn /\ StaleSampled
  BY DEF IInv
<1>3. PICK k : Plan(spec', worker', k)
  BY <1>2, SchedulePlans
<1>4. worker' \in Seq(Tokens) /\ ended' = ended /\ end_at' = end_at
  BY <1>2, SchedulePlans
<1>5. TypeOK'
  BY <1>1, <1>2, <1>3, <1>4 DEF TypeOK, Plan
<1>6. Constrained' = Constrained
  BY <1>1, <1>4 DEF Constrained, ShouldFill, EndedAtFill, Free
<1>7. SpecPlanned'
  BY <1>1, <1>3, <1>6 DEF SpecPlanned, Plan
<1>8. EndKnown'
  BY <1>1, <1>2, <1>4 DEF EndKnown, Free
<1>9. Following' /\ Hopeful' /\ GoesOn'
  BY <1>1, <1>2 DEF Following, Hopeful, GoesOn, AnswerStart, Free
<1>10. StaleSampled'
  BY <1>1, <1>2 DEF StaleSampled
<1> QED
  BY <1>1, <1>5, <1>7, <1>8, <1>9, <1>10 DEF IInv, RowsConstrain, BlockSampled, NotCrashed

----------------------------------------------------------------------------
(* grammar_bitmask().                                                      *)

\* The rows that the walk leaves, and the last one.
LEMMA RowsOf ==
  ASSUME SpecType, NEW W, WalkTo(W, Len(spec)), NEW n \in 0 .. Len(spec)
  PROVE  LET r == Append(W[Len(spec)].rows, MaskRow(W[Len(spec)].h, Constrained \/ W[Len(spec)].apply))
         IN  /\ r \in Seq(SUBSET Tokens) /\ Len(r) = Len(spec) + 1
             /\ \A i \in 1 .. n : r[i] = MaskRow(W[i - 1].h, W[i - 1].apply)
             /\ W[n].apply => r[n + 1] = MaskRow(W[n].h, TRUE)
<1> DEFINE L == Len(spec)
           q == W[L].rows
           m == MaskRow(W[L].h, Constrained \/ W[L].apply)
           r == Append(q, m)
<1>1. L \in Nat /\ L \in 0 .. L /\ n \in Nat
  BY LenProperties DEF SpecType
<1>2. q \in Seq(SUBSET Tokens) /\ Len(q) = L
  BY <1>1, WalkTypes DEF WalkOK
<1>3. \A i \in 1 .. L : q[i] = MaskRow(W[i - 1].h, W[i - 1].apply)
  BY <1>1, WalkRows
<1>4. m \in SUBSET Tokens
  BY MaskRowType
<1>5. W[L].apply => m = MaskRow(W[L].h, TRUE)
  BY DEF MaskRow
<1> HIDE DEF q, m
<1>6. /\ r \in Seq(SUBSET Tokens) /\ Len(r) = L + 1
      /\ \A i \in 1 .. L : r[i] = q[i]
      /\ r[L + 1] = m
  BY <1>2, <1>4, AppendProperties
<1> HIDE DEF r
<1>7. \A i \in 1 .. n : i \in 1 .. L
  BY <1>1
<1>8. ASSUME W[n].apply PROVE r[n + 1] = MaskRow(W[n].h, TRUE)
  <2>1. CASE n = L
    BY <1>5, <1>6, <1>8, <2>1
  <2>2. CASE n # L
    <3>1. n + 1 \in 1 .. L /\ (n + 1) - 1 = n
      BY <1>1, <2>2
    <3>2. MaskRow(W[n].h, W[n].apply) = MaskRow(W[n].h, TRUE)
      BY <1>8 DEF MaskRow
    <3>3. r[n + 1] = q[n + 1] /\ q[n + 1] = MaskRow(W[(n + 1) - 1].h, W[(n + 1) - 1].apply)
      BY <1>3, <1>6, <3>1
    <3> QED  BY <3>1, <3>2, <3>3
  <2> QED  BY <2>1, <2>2
<1> HIDE DEF L
<1> QED  BY <1>3, <1>6, <1>7, <1>8 DEF r, q, m, L

\* Every row allows what the grammar does, and the matcher is where it was.
LEMMA FillFacts ==
  ASSUME TypeOK, EndKnown, Following, Hopeful, GoesOn, SpecPlanned, FillBitmask
  PROVE  /\ phase' = "masked" /\ hist' = hist /\ ended' = EndedAtFill
         /\ rows' \in Seq(SUBSET Tokens) /\ Len(rows') = Len(spec) + 1
         /\ \A n \in 0 .. Len(spec) : \A s \in 0 .. n :
              /\ StartsAt(s)
              /\ \A i \in 1 .. n : spec[i] # Placeholder
              /\ \A i \in s + 1 .. n : spec[i] \in rows'[i]
              => \/ /\ rows'[n + 1] = Allowed(hist \o SubSeq(spec, s + 1, n))
                    /\ Matches(hist \o SubSeq(spec, s + 1, n))
                 \/ \E k \in s + 1 .. n : spec[k] = Eos /\ Matches(hist \o SubSeq(spec, s + 1, k))
<1> DEFINE L == Len(spec)
<1>1. phase = "scheduled" /\ SpecType /\ L \in Nat /\ Matches(hist) /\ L \in 0 .. L
  BY LenProperties DEF FillBitmask, SpecType, TypeOK, Hopeful
<1>2. ~Terminated(hist)
  BY <1>1, Unfinished
<1>3. PICK W : Walked(W)
  BY <1>1, WalkIs
<1>4. WalkTo(W, L) /\ Walk = W[L]
  BY <1>3 DEF Walked
<1>5. ~Walk.bad
  <2>1. PICK K \in 0 .. L :
          /\ \A i \in 1 .. K : spec[i] = worker[i]
          /\ \A i \in K + 1 .. L : spec[i] = Placeholder
          /\ Constrained => Matches(hist \o Take(spec, K))
    BY <1>1 DEF SpecPlanned
  <2>2. \A i \in 1 .. K : spec[i] # Placeholder
    <3> SUFFICES ASSUME NEW i \in 1 .. K PROVE spec[i] # Placeholder
      OBVIOUS
    <3>1. worker \in Seq(Tokens) /\ Len(worker) \in Nat /\ L <= Len(worker)
      BY <1>1, LenProperties DEF TypeOK, SpecPlanned
    <3>2. i \in 1 .. Len(worker)
      BY <1>1, <3>1
    <3>3. worker[i] \in Tokens
      BY <3>1, <3>2, ElementOfSeq
    <3> QED  BY <2>1, <3>3, StructuredAssumption
  <2> QED  BY <1>1, <1>4, <2>1, <2>2, WalkNeverBad
<1>6. phase' = "masked" /\ ended' = EndedAtFill
  BY <1>5 DEF FillBitmask
<1>7. hist' = hist
  <2>1. hist \in Seq(Tokens) /\ Walk.h \in Seq(Tokens) /\ Leads(hist, Walk.h)
    BY <1>1, <1>4, WalkTypes DEF WalkOK, SpecType
  <2>2. Len(hist) \in 0 .. Len(Walk.h)
    BY <2>1, LenProperties DEF Leads
  <2>3. /\ Take(Walk.h, Len(hist)) \in Seq(Tokens) /\ Len(Take(Walk.h, Len(hist))) = Len(hist)
        /\ \A i \in 1 .. Len(hist) : Take(Walk.h, Len(hist))[i] = Walk.h[i]
    BY <2>1, <2>2, TakeFacts
  <2>4. \A i \in 1 .. Len(Take(Walk.h, Len(hist))) : Take(Walk.h, Len(hist))[i] = hist[i]
    BY <2>1, <2>3 DEF Leads
  <2>5. Take(Walk.h, Len(hist)) = hist
    BY <2>1, <2>3, <2>4, SeqEqual
  <2> QED  BY <2>5 DEF FillBitmask, Rollback
<1>8. rows' = Append(W[L].rows, MaskRow(W[L].h, Constrained \/ W[L].apply))
  BY <1>4 DEF FillBitmask, Constrained
<1>9. rows' \in Seq(SUBSET Tokens) /\ Len(rows') = L + 1
  BY <1>1, <1>4, <1>8, RowsOf
<1>10. ASSUME NEW n \in 0 .. L, NEW s \in 0 .. n, StartsAt(s),
              \A i \in 1 .. n : spec[i] # Placeholder,
              \A i \in s + 1 .. n : spec[i] \in rows'[i]
       PROVE  \/ /\ rows'[n + 1] = Allowed(hist \o SubSeq(spec, s + 1, n))
                 /\ Matches(hist \o SubSeq(spec, s + 1, n))
              \/ \E k \in s + 1 .. n : spec[k] = Eos /\ Matches(hist \o SubSeq(spec, s + 1, k))
  <2>1. /\ \A i \in 1 .. n : rows'[i] = MaskRow(W[i - 1].h, W[i - 1].apply)
        /\ W[n].apply => rows'[n + 1] = MaskRow(W[n].h, TRUE)
    BY <1>1, <1>4, <1>8, RowsOf
  <2>2. \A i \in s + 1 .. n : i \in 1 .. n
    BY <1>1
  <2>3. \A i \in s + 1 .. n : spec[i] \in MaskRow(W[i - 1].h, W[i - 1].apply)
    BY <1>10, <2>1, <2>2
  <2>4. /\ W[n].apply
        /\ \/ /\ W[n].h = hist \o SubSeq(spec, s + 1, n)
              /\ Matches(W[n].h) /\ ~Terminated(W[n].h)
           \/ \E k \in s + 1 .. n : spec[k] = Eos /\ Matches(hist \o SubSeq(spec, s + 1, k))
    BY <1>1, <1>2, <1>4, <1>10, <2>3, WalkConstrains
  <2>5. ASSUME ~Terminated(W[n].h) PROVE rows'[n + 1] = Allowed(W[n].h)
    BY <2>1, <2>4, <2>5 DEF MaskRow
  <2> QED  BY <2>4, <2>5
<1> HIDE DEF L
<1> QED  BY <1>6, <1>7, <1>9, <1>10 DEF L

LEMMA FillBitmaskKeeps ==
  ASSUME IInv, FillBitmask
  PROVE  IInv'
<1>1. /\ phase = "scheduled" /\ mode' = mode /\ tokens' = tokens /\ end_at' = end_at
      /\ worker' = worker /\ spec' = spec /\ out' = out /\ stale' = stale
  BY DEF FillBitmask
<1>2. TypeOK /\ EndKnown /\ Following /\ Hopeful /\ GoesOn /\ StaleSampled /\ SpecPlanned
  BY DEF IInv
<1>3. /\ phase' = "masked" /\ hist' = hist /\ ended' = EndedAtFill
      /\ rows' \in Seq(SUBSET Tokens) /\ Len(rows') = Len(spec) + 1
  BY <1>2, FillFacts
<1>4. EndedAtFill \in {"none", "no", "yes"}
  BY <1>2 DEF EndedAtFill, TypeOK
<1>5. TypeOK'
  BY <1>1, <1>2, <1>3, <1>4 DEF TypeOK
<1>6. ~Free => EndedAtFill # "none"
  BY <1>2 DEF EndedAtFill
<1>7. EndedAtFill' = EndedAtFill
  BY <1>1, <1>3, <1>6 DEF EndedAtFill, Free
<1>8. Constrained' = Constrained /\ ShouldFill(ended)' = Constrained
  BY <1>1, <1>3, <1>7 DEF Constrained, ShouldFill, Free
<1>9. SpecPlanned'
  BY <1>1, <1>2, <1>3, <1>8 DEF SpecPlanned
<1>10. EndKnown'
  <2> SUFFICES ASSUME ~Free
               PROVE  /\ EndedAtFill # "none"
                      /\ EndedAtFill = "yes" <=> mode.prompt_ends \/ End \in RangeOf(tokens)
    BY <1>1, <1>3 DEF EndKnown, Free
  <2>1. CASE ended = "none"
    <3>1. tokens = <<>>
      BY <1>2, <2>1 DEF EndKnown
    <3>2. ~(End \in RangeOf(tokens))
      <4>1. tokens \in Seq(Tokens) /\ Len(tokens) = 0
        BY <3>1, EmptySeq
      <4>2. DOMAIN tokens = {}
        BY <4>1, LenProperties
      <4> QED  BY <4>2 DEF RangeOf
    <3> QED  BY <2>1, <3>2 DEF EndedAtFill
  <2>2. CASE ended # "none"
    BY <1>2, <2>2 DEF EndedAtFill, EndKnown
  <2> QED  BY <2>1, <2>2
<1>11. Following' /\ Hopeful' /\ GoesOn'
  BY <1>1, <1>2, <1>3 DEF Following, Hopeful, GoesOn, AnswerStart, Free
<1>12. RowsConstrain'
  <2> SUFFICES ASSUME NEW n \in 0 .. Len(spec), NEW s \in 0 .. n, Begins(s)',
                      \A i \in 1 .. n : spec[i] # Placeholder,
                      \A i \in s + 1 .. n : spec[i] \in rows'[i]
               PROVE  \/ /\ rows'[n + 1] = Allowed(hist \o SubSeq(spec, s + 1, n))
                         /\ Matches(hist \o SubSeq(spec, s + 1, n))
                      \/ \E k \in s + 1 .. n :
                           spec[k] = Eos /\ Matches(hist \o SubSeq(spec, s + 1, k))
    BY <1>1, <1>3 DEF RowsConstrain
  <2>1. StartsAt(s)
    BY <1>1, <1>8 DEF Begins, StartsAt
  <2> QED  BY <1>2, <2>1, FillFacts
<1>13. StaleSampled'
  BY <1>1, <1>2 DEF StaleSampled
<1> QED
  BY <1>3, <1>5, <1>9, <1>10, <1>11, <1>12, <1>13 DEF IInv, BlockSampled, NotCrashed

----------------------------------------------------------------------------
(* The GPU, and a preemption.                                              *)

LEMMA SampleKeeps ==
  ASSUME IInv, Sample
  PROVE  IInv'
<1>1. /\ phase = "masked" /\ phase' = "sampled" /\ mode' = mode /\ tokens' = tokens
      /\ hist' = hist /\ ended' = ended /\ end_at' = end_at /\ worker' = worker
      /\ spec' = spec /\ rows' = rows /\ stale' = stale
  BY DEF Sample
<1>2. PICK n \in 0 .. Len(spec) :
        /\ \A i \in 1 .. n : worker[i] \in rows[i]
        /\ \E t \in rows[n + 1] : out' = Append(Take(worker, n), t)
  BY DEF Sample
<1>3. PICK t \in rows[n + 1] : out' = Append(Take(worker, n), t)
  BY <1>2
<1>4. TypeOK /\ EndKnown /\ Following /\ Hopeful /\ GoesOn /\ StaleSampled /\ SpecPlanned
      /\ RowsConstrain
  BY DEF IInv
<1>5. out' \in Seq(Tokens)
  <2>1. /\ worker \in Seq(Tokens) /\ Len(worker) \in Nat /\ Len(spec) \in Nat
        /\ Len(spec) <= Len(worker) /\ rows \in Seq(SUBSET Tokens) /\ Len(rows) = Len(spec) + 1
    BY <1>1, <1>4, LenProperties DEF TypeOK, SpecPlanned, RowsConstrain
  <2>2. n + 1 \in 1 .. Len(rows) /\ n \in 0 .. Len(worker)
    BY <2>1
  <2>3. rows[n + 1] \in SUBSET Tokens
    BY <2>1, <2>2, ElementOfSeq
  <2>4. t \in Tokens /\ Take(worker, n) \in Seq(Tokens)
    BY <2>1, <2>2, <2>3, TakeFacts
  <2> QED  BY <1>3, <2>4, AppendProperties
<1>6. TypeOK'
  BY <1>1, <1>4, <1>5 DEF TypeOK
<1>7. EndKnown' /\ Following' /\ Hopeful' /\ GoesOn'
  BY <1>1, <1>4 DEF EndKnown, Following, Hopeful, GoesOn, AnswerStart, Free
<1>8. SpecPlanned'
  BY <1>1, <1>4 DEF SpecPlanned, Constrained, ShouldFill, EndedAtFill, Free
<1>9. RowsConstrain'
  BY <1>1, <1>4 DEF RowsConstrain, Begins, ShouldFill, Free
<1>10. BlockSampled'
  BY <1>1, <1>2 DEF BlockSampled
<1>11. StaleSampled'
  BY <1>1, <1>4 DEF StaleSampled
<1> QED  BY <1>1, <1>6, <1>7, <1>8, <1>9, <1>10, <1>11 DEF IInv, NotCrashed

LEMMA PreemptKeeps ==
  ASSUME IInv, Preempt
  PROVE  IInv'
<1>1. /\ phase = "sampled" /\ mode \in Preemptable /\ stale' = TRUE
      /\ mode' = mode /\ phase' = phase /\ tokens' = tokens /\ hist' = hist /\ ended' = ended
      /\ end_at' = end_at /\ worker' = worker /\ spec' = spec /\ rows' = rows /\ out' = out
  BY DEF Preempt
<1>2. TypeOK /\ EndKnown /\ Following /\ Hopeful /\ GoesOn /\ SpecPlanned /\ RowsConstrain
      /\ BlockSampled /\ NotCrashed
  BY DEF IInv
<1>3. TypeOK'
  BY <1>1, <1>2 DEF TypeOK
<1>4. EndKnown' /\ Following' /\ Hopeful' /\ GoesOn'
  BY <1>1, <1>2 DEF EndKnown, Following, Hopeful, GoesOn, AnswerStart, Free
<1>5. SpecPlanned'
  BY <1>1, <1>2 DEF SpecPlanned, Constrained, ShouldFill, EndedAtFill, Free
<1>6. RowsConstrain'
  BY <1>1, <1>2 DEF RowsConstrain, Begins, ShouldFill, Free
<1>7. BlockSampled' /\ NotCrashed'
  BY <1>1, <1>2 DEF BlockSampled, NotCrashed
<1>8. StaleSampled'
  BY <1>1 DEF StaleSampled
<1> QED  BY <1>3, <1>4, <1>5, <1>6, <1>7, <1>8 DEF IInv

----------------------------------------------------------------------------
(* update_from_output(): what is committed.                                *)

LEMMA UpToStopIs ==
  ASSUME tokens \in Seq(Tokens), NEW f \in Seq(Tokens)
  PROVE  \E m \in 0 .. Len(f) :
           UpToStop(f) = Take(f, m) /\ \A k \in 1 .. Len(f) : f[k] = Eos => m <= k
<1> DEFINE Stops == {n \in 1 .. Len(f) : f[n] = Eos \/ Len(tokens) + n >= MaxTokens}
           c == CHOOSE n \in Stops : \A m \in Stops : n <= m
<1>1. Len(f) \in Nat
  BY LenProperties
<1>2. UpToStop(f) = IF Stops = {} THEN f ELSE Take(f, c)
  BY DEF UpToStop
<1>3. \A k \in 1 .. Len(f) : f[k] = Eos => k \in Stops
  OBVIOUS
<1>4. Stops \in SUBSET Nat /\ Stops \subseteq 1 .. Len(f)
  BY <1>1
<1> HIDE DEF Stops
<1>5. CASE Stops = {}
  <2>1. f = Take(f, Len(f)) /\ Len(f) \in 0 .. Len(f)
    BY <1>1, TakeAll
  <2> QED  BY <1>2, <1>3, <1>5, <2>1
<1>6. CASE Stops # {}
  <2>1. c \in Stops /\ \A m \in Stops : c <= m
    BY <1>4, <1>6, LeastIs
  <2> HIDE DEF c
  <2>2. c \in 0 .. Len(f)
    BY <1>1, <1>4, <2>1
  <2> QED  BY <1>2, <1>3, <1>6, <2>1, <2>2
<1> QED  BY <1>5, <1>6

\* The part of a block that is still reasoning ends with the first marker in it.
LEMMA ReasoningPartIs ==
  ASSUME NEW f \in Seq(Tokens)
  PROVE  /\ ReasoningPart(f) \in 0 .. Len(f)
         /\ ~EndsStreaming(f) => ReasoningPart(f) = Len(f)
         /\ EndsStreaming(f) => FirstEnd(f, ReasoningPart(f))
<1> DEFINE Ends == {n \in 1 .. Len(f) : EndsStreaming(Take(f, n))}
           c == CHOOSE n \in Ends : \A m \in Ends : n <= m
<1>1. Len(f) \in Nat
  BY LenProperties
<1>2. (Ends = {} <=> ~EndsStreaming(f)) /\ (Ends # {} => FirstEnd(f, c))
  BY ShortestShows
<1>3. ReasoningPart(f) = IF Ends = {} THEN Len(f) ELSE c
  BY DEF ReasoningPart
<1> HIDE DEF Ends, c
<1>4. FirstEnd(f, c) => c \in 0 .. Len(f)
  BY <1>1 DEF FirstEnd
<1>5. Len(f) \in 0 .. Len(f)
  BY <1>1
<1> QED  BY <1>2, <1>3, <1>4, <1>5

\* The index of the marker, counted from the first output token.
LEMMA FindEndIs ==
  ASSUME tokens \in Seq(Tokens), NEW new \in Seq(Tokens), NEW j, FirstEnd(new, j)
  PROVE  FindEnd(tokens \o new, Len(tokens) + 1) = Len(tokens) + j
<1> DEFINE all == tokens \o new
           n == Len(tokens)
           Single == {i \in n + 1 .. Len(all) : EndsStreaming(<<all[i]>>)}
           c == CHOOSE i \in Single : \A k \in Single : i <= k
<1>1. n \in Nat /\ Len(new) \in Nat
  BY LenProperties
<1>2. all \in Seq(Tokens) /\ Len(all) = n + Len(new) /\ \A i \in 1 .. Len(new) : all[n + i] = new[i]
  BY ConcatFacts
<1>3. FindEnd(all, n + 1) = IF Single = {} THEN Len(all) ELSE c
  BY DEF FindEnd
<1> HIDE DEF all, n
<1>4. \A i \in n + 1 .. Len(all) : i \in Single <=> all[i] = End
  BY DEF EndsStreaming, RangeOf
<1>5. j \in 1 .. Len(new) /\ new[j] = End /\ \A i \in 1 .. j - 1 : new[i] # End
  BY DEF FirstEnd
<1>6. n + j \in n + 1 .. Len(all) /\ all[n + j] = End
  BY <1>1, <1>2, <1>5
<1>7. n + j \in Single
  BY <1>4, <1>6
<1>8. Single \in SUBSET Nat /\ Single \subseteq n + 1 .. Len(all)
  BY <1>1
<1> HIDE DEF Single
<1>9. c \in Single /\ \A k \in Single : c <= k
  BY <1>7, <1>8, LeastIs
<1> HIDE DEF c
<1>10. c <= n + j /\ c \in n + 1 .. Len(all) /\ all[c] = End
  BY <1>4, <1>7, <1>8, <1>9
<1>11. c = n + j
  <2> SUFFICES ASSUME c # n + j PROVE FALSE
    OBVIOUS
  <2>1. c - n \in 1 .. j - 1 /\ c - n \in 1 .. Len(new) /\ n + (c - n) = c
    BY <1>1, <1>2, <1>5, <1>10
  <2>2. all[n + (c - n)] = new[c - n]
    BY <1>2, <2>1
  <2> QED  BY <1>5, <1>10, <2>1, <2>2
<1> QED  BY <1>3, <1>7, <1>11 DEF all, n

\* What the matcher is to accept of a block.
Answer(new) ==
  LET all == tokens \o new
  IN  IF new # <<>> /\ ShouldAdvance(all, new) THEN Trimmed(all, new, EndAtAfter(all, new))
      ELSE <<>>

EndedBy(new) == IF new = <<>> THEN ended ELSE EndedAfter(tokens \o new, new)
EndAtBy(new) == IF new = <<>> THEN end_at ELSE EndAtAfter(tokens \o new, new)

\* The part of the committed tokens that the matcher is advanced with.
LEMMA AnswerIs ==
  ASSUME TypeOK, NEW new \in Seq(Tokens)
  PROVE  /\ ShouldFill(ended) =>
              Answer(new) = new /\ EndedBy(new) = ended /\ EndAtBy(new) = end_at
         /\ ~ShouldFill(ended) /\ ~EndsStreaming(new) =>
              Answer(new) = <<>> /\ EndedBy(new) = ended /\ EndAtBy(new) = end_at
         /\ \A j : ~ShouldFill(ended) /\ FirstEnd(new, j) =>
              Answer(new) = Drop(new, j) /\ EndedBy(new) = "yes" /\ EndAtBy(new) = Len(tokens) + j
<1> DEFINE all == tokens \o new
           n == Len(tokens)
<1>1. tokens \in Seq(Tokens) /\ n \in Nat /\ Len(new) \in Nat
  BY LenProperties DEF TypeOK
<1>2. all \in Seq(Tokens) /\ Len(all) = n + Len(new) /\ Drop(all, n) = new
  BY <1>1, ConcatFacts, DropConcat
<1> HIDE DEF all, n
<1>3. Len(all) - Len(new) = n /\ Len(all) - Len(new) + 1 = n + 1 /\ n + 1 - 1 = n
  BY <1>1, <1>2
<1>4. ASSUME new # <<>> PROVE Window(all, new) = n + 1 /\ Drop(all, Window(all, new) - 1) = new
  BY <1>2, <1>3, <1>4 DEF Window
<1>5. ASSUME new = <<>> PROVE ~EndsStreaming(new) /\ \A j : ~FirstEnd(new, j)
  <2>1. Len(new) = 0
    BY <1>5, EmptySeq
  <2>2. 1 .. Len(new) = {}
    BY <2>1
  <2> QED  BY <2>2, EndsIn DEF FirstEnd
<1>6. ShouldFill(ended) <=> Free \/ ended = "yes"
  BY DEF ShouldFill
<1>7. CASE new = <<>>
  <2>1. Answer(new) = <<>> /\ EndedBy(new) = ended /\ EndAtBy(new) = end_at
    BY <1>7 DEF Answer, EndedBy, EndAtBy
  <2> QED  BY <1>5, <1>7, <2>1
<1>8. CASE new # <<>>
  <2>1. Notices(all, new) <=> ~ShouldFill(ended) /\ EndsStreaming(new)
    BY <1>4, <1>6, <1>8 DEF Notices
  <2>2. ShouldAdvance(all, new) <=> ShouldFill(ended) \/ EndsStreaming(new)
    BY <1>6, <2>1 DEF ShouldAdvance
  <2>3. EndedBy(new) = EndedAfter(all, new) /\ EndAtBy(new) = EndAtAfter(all, new)
    BY <1>8 DEF EndedBy, EndAtBy, all
  <2>4. Answer(new) = IF ShouldAdvance(all, new) THEN Trimmed(all, new, EndAtAfter(all, new)) ELSE <<>>
    BY <1>8 DEF Answer, all
  <2>5. ASSUME ~Notices(all, new)
        PROVE  EndedBy(new) = ended /\ EndAtBy(new) = end_at /\ EndAtAfter(all, new) = end_at
    BY <2>3, <2>5 DEF EndedAfter, EndAtAfter
  <2>6. ASSUME ShouldFill(ended) PROVE Answer(new) = new
    <3>1. end_at \in 0 .. n /\ EndAtAfter(all, new) = end_at
      BY <2>1, <2>5, <2>6 DEF TypeOK, n
    <3>2. end_at <= Len(all) - Len(new)
      BY <1>1, <1>3, <3>1
    <3> QED  BY <2>2, <2>4, <2>6, <3>1, <3>2 DEF Trimmed
  <2>7. ASSUME ~ShouldFill(ended), ~EndsStreaming(new) PROVE Answer(new) = <<>>
    BY <2>2, <2>4, <2>7
  <2>8. ASSUME ~ShouldFill(ended), NEW j, FirstEnd(new, j)
        PROVE  Answer(new) = Drop(new, j) /\ EndedBy(new) = "yes" /\ EndAtBy(new) = n + j
    <3>1. EndsStreaming(new) /\ j \in 1 .. Len(new)
      BY <2>8, EndsIn DEF FirstEnd
    <3>2. Notices(all, new) /\ ShouldAdvance(all, new)
      BY <2>1, <2>2, <2>8, <3>1
    <3>3. FindEnd(all, n + 1) = n + j
      BY <1>1, <2>8, FindEndIs DEF all, n
    <3>4. EndAtAfter(all, new) = n + j /\ EndedAfter(all, new) = "yes"
      BY <1>4, <1>8, <3>2, <3>3 DEF EndAtAfter, EndedAfter
    <3>5. n + j # 0 /\ ~(n + j <= n) /\ (n + j) - n = j
      BY <1>1, <3>1
    <3>6. Trimmed(all, new, n + j) = Drop(new, j)
      BY <1>3, <3>5 DEF Trimmed
    <3> QED  BY <2>3, <2>4, <3>2, <3>4, <3>6
  <2> QED  BY <2>1, <2>5, <2>6, <2>7, <2>8 DEF n
<1> QED  BY <1>7, <1>8

\* What a commit does, by the three operators above.
LEMMA CommitIs ==
  ASSUME Commit
  PROVE  LET new == UpToStop(Filtered(out))
         IN  /\ tokens' = tokens \o new /\ ended' = EndedBy(new) /\ end_at' = EndAtBy(new)
             /\ hist' = hist \o ValidTokens(hist, Answer(new))
             /\ phase' = IF ValidTokens(hist, Answer(new)) # Answer(new) THEN "error"
                         ELSE IF Stopped(tokens \o new) THEN "finished" ELSE "idle"
             /\ phase = "sampled" /\ stale' = FALSE /\ mode' = mode
             /\ worker' = <<>> /\ spec' = <<>> /\ rows' = <<>> /\ out' = <<>>
BY DEF Commit, Answer, EndedBy, EndAtBy

\* What the filter keeps: the reasoning, and of the answer what the grammar admits.
LEMMA FilteredIs ==
  ASSUME TypeOK, Hopeful
  PROVE  /\ Filtered(out) \in Seq(Tokens)
         /\ Len(out) < 2 \/ spec = <<>> \/ stale => Filtered(out) = out
         /\ ~(Len(out) < 2 \/ spec = <<>> \/ stale) =>
              /\ ShouldFill(ended) => Filtered(out) = ValidTokens(hist, out)
              /\ ~ShouldFill(ended) =>
                   Filtered(out) = Take(out, ReasoningPart(out))
                                     \o ValidTokens(hist, Drop(out, ReasoningPart(out)))
<1> DEFINE start == IF ShouldFill(ended) THEN 0 ELSE ReasoningPart(out)
           v == Take(out, start) \o ValidTokens(hist, Drop(out, start))
<1>1. out \in Seq(Tokens) /\ Len(out) \in Nat /\ hist \in Seq(Tokens) /\ Matches(hist)
  BY LenProperties DEF TypeOK, Hopeful
<1>2. Filtered(out) = IF Len(out) < 2 \/ spec = <<>> \/ stale THEN out ELSE v
  BY DEF Filtered, ShouldFill
<1>3. start \in 0 .. Len(out)
  BY <1>1, ReasoningPartIs
<1> HIDE DEF start
<1>4. Take(out, start) \in Seq(Tokens) /\ Drop(out, start) \in Seq(Tokens)
  BY <1>1, <1>3, TakeFacts, DropFacts
<1>5. ValidTokens(hist, Drop(out, start)) \in Seq(Tokens)
  BY <1>1, <1>4, ValidFacts
<1>6. v \in Seq(Tokens)
  BY <1>4, <1>5, ConcatFacts
<1>7. ASSUME ShouldFill(ended) PROVE v = ValidTokens(hist, out)
  <2>1. start = 0
    BY <1>7 DEF start
  <2>2. Take(out, 0) = <<>> /\ Drop(out, 0) = out
    BY <1>1, TakeAll
  <2>3. v = <<>> \o ValidTokens(hist, out)
    BY <2>1, <2>2
  <2>4. ValidTokens(hist, out) \in Seq(Tokens)
    BY <1>1, ValidFacts
  <2> HIDE DEF v
  <2> QED  BY <2>3, <2>4, ConcatEmptySeq
<1>8. ASSUME ~ShouldFill(ended) PROVE start = ReasoningPart(out)
  BY <1>8 DEF start
<1> QED  BY <1>1, <1>2, <1>6, <1>7, <1>8

\* The block that is committed.
LEMMA NewIs ==
  ASSUME TypeOK, Hopeful
  PROVE  LET f == Filtered(out)
             new == UpToStop(f)
         IN  /\ f \in Seq(Tokens) /\ new \in Seq(Tokens) /\ Leads(new, f)
             /\ \A k \in 1 .. Len(f) : f[k] = Eos => Len(new) <= k
<1> DEFINE f == Filtered(out)
           new == UpToStop(f)
<1>1. f \in Seq(Tokens) /\ tokens \in Seq(Tokens)
  BY FilteredIs DEF TypeOK
<1> HIDE DEF f
<1>2. PICK m \in 0 .. Len(f) : new = Take(f, m) /\ \A k \in 1 .. Len(f) : f[k] = Eos => m <= k
  BY <1>1, UpToStopIs
<1>3. Take(f, m) \in Seq(Tokens) /\ Len(Take(f, m)) = m /\ Leads(Take(f, m), f)
  BY <1>1, TakeFacts, LeadsTake
<1> QED  BY <1>1, <1>2, <1>3 DEF f

\* A marker in the committed tokens is an old or a new one.
LEMMA EndsConcat ==
  ASSUME NEW a \in Seq(Tokens), NEW b \in Seq(Tokens)
  PROVE  /\ EndsStreaming(a \o b) <=> EndsStreaming(a) \/ EndsStreaming(b)
         /\ \A j : FirstEnd(a, j) => FirstEnd(a \o b, j)
         /\ \A j : ~EndsStreaming(a) /\ FirstEnd(b, j) => FirstEnd(a \o b, Len(a) + j)
<1> DEFINE c == a \o b
<1>1. Len(a) \in Nat /\ Len(b) \in Nat
  BY LenProperties
<1>2. /\ c \in Seq(Tokens) /\ Len(c) = Len(a) + Len(b)
      /\ \A i \in 1 .. Len(a) : c[i] = a[i]
      /\ \A i \in 1 .. Len(b) : c[Len(a) + i] = b[i]
  BY ConcatFacts
<1> HIDE DEF c
<1>3. \A i \in 1 .. Len(a) : i \in 1 .. Len(c)
  BY <1>1, <1>2
<1>4. \A i \in 1 .. Len(b) : Len(a) + i \in 1 .. Len(c)
  BY <1>1, <1>2
<1>5. ASSUME EndsStreaming(a) \/ EndsStreaming(b) PROVE EndsStreaming(c)
  <2>1. CASE EndsStreaming(a)
    <3>1. PICK j \in 1 .. Len(a) : a[j] = End
      BY <2>1, EndsIn
    <3> QED  BY <1>2, <1>3, <3>1, EndsIn
  <2>2. CASE EndsStreaming(b)
    <3>1. PICK j \in 1 .. Len(b) : b[j] = End
      BY <2>2, EndsIn
    <3>2. c[Len(a) + j] = End
      BY <1>2, <3>1
    <3> QED  BY <1>2, <1>4, <3>2, EndsIn
  <2> QED  BY <1>5, <2>1, <2>2
<1>6. ASSUME EndsStreaming(c) PROVE EndsStreaming(a) \/ EndsStreaming(b)
  <2>1. PICK i \in 1 .. Len(c) : c[i] = End
    BY <1>2, <1>6, EndsIn
  <2>2. CASE i <= Len(a)
    <3>1. i \in 1 .. Len(a) /\ a[i] = End
      BY <1>1, <1>2, <2>1, <2>2
    <3> QED  BY <3>1, EndsIn
  <2>3. CASE ~(i <= Len(a))
    <3>1. i - Len(a) \in 1 .. Len(b) /\ Len(a) + (i - Len(a)) = i
      BY <1>1, <1>2, <2>3
    <3>2. b[i - Len(a)] = End
      BY <1>2, <2>1, <3>1
    <3> QED  BY <3>1, <3>2, EndsIn
  <2> QED  BY <2>2, <2>3
<1>7. ASSUME NEW j, FirstEnd(a, j) PROVE FirstEnd(c, j)
  <2>1. j \in 1 .. Len(a) /\ a[j] = End /\ \A i \in 1 .. j - 1 : a[i] # End
    BY <1>7 DEF FirstEnd
  <2>2. \A i \in 1 .. j - 1 : i \in 1 .. Len(a)
    BY <1>1, <2>1
  <2>3. j \in 1 .. Len(c) /\ c[j] = End
    BY <1>2, <1>3, <2>1
  <2>4. \A i \in 1 .. j - 1 : c[i] # End
    BY <1>2, <2>1, <2>2
  <2> QED  BY <2>3, <2>4 DEF FirstEnd
<1>8. ASSUME NEW j, ~EndsStreaming(a), FirstEnd(b, j) PROVE FirstEnd(c, Len(a) + j)
  <2>1. j \in 1 .. Len(b) /\ b[j] = End /\ \A i \in 1 .. j - 1 : b[i] # End
    BY <1>8 DEF FirstEnd
  <2>2. Len(a) + j \in 1 .. Len(c) /\ c[Len(a) + j] = End
    BY <1>2, <1>4, <2>1
  <2>3. ASSUME NEW i \in 1 .. (Len(a) + j) - 1 PROVE c[i] # End
    <3>1. CASE i <= Len(a)
      <4>1. i \in 1 .. Len(a)
        BY <1>1, <2>1, <3>1
      <4>2. a[i] # End
        BY <1>8, <4>1, EndsIn
      <4> QED  BY <1>2, <4>1, <4>2
    <3>2. CASE ~(i <= Len(a))
      <4>1. i - Len(a) \in 1 .. j - 1 /\ i - Len(a) \in 1 .. Len(b) /\ Len(a) + (i - Len(a)) = i
        BY <1>1, <2>1, <3>2
      <4>2. c[Len(a) + (i - Len(a))] = b[i - Len(a)]
        BY <1>2, <4>1
      <4> QED  BY <2>1, <4>1, <4>2
    <3> QED  BY <3>1, <3>2
  <2> QED  BY <2>2, <2>3 DEF FirstEnd
<1> QED  BY <1>5, <1>6, <1>7, <1>8 DEF c

\* The answer grows by what the matcher is to accept.
LEMMA AnswerGrows ==
  ASSUME TypeOK, EndKnown, phase = "sampled", NEW new \in Seq(Tokens)
  PROVE  /\ Drop(tokens \o new, StartOf(tokens \o new)) = Drop(tokens, StartOf(tokens)) \o Answer(new)
         /\ EndedBy(new) \in {"none", "no", "yes"} /\ EndAtBy(new) \in 0 .. Len(tokens \o new)
         /\ Answer(new) \in Seq(Tokens)
         /\ ~Free => /\ EndedBy(new) # "none"
                     /\ EndedBy(new) = "yes" <=> mode.prompt_ends \/ EndsStreaming(tokens \o new)
<1> DEFINE all == tokens \o new
           n == Len(tokens)
           A == Drop(tokens, StartOf(tokens))
<1>1. tokens \in Seq(Tokens) /\ n \in Nat /\ Len(new) \in Nat
  BY LenProperties DEF TypeOK
<1>2. all \in Seq(Tokens) /\ Len(all) = n + Len(new)
  BY <1>1, ConcatFacts
<1>3. /\ Drop(all, n) = new
      /\ \A i \in 0 .. n : Drop(all, i) = Drop(tokens, i) \o new
      /\ \A i \in 0 .. Len(new) : Drop(all, n + i) = Drop(new, i)
  BY <1>1, DropConcat
<1>4. /\ StartOf(tokens) \in 0 .. n
      /\ Free \/ mode.prompt_ends => StartOf(tokens) = 0
      /\ ~Free /\ ~mode.prompt_ends =>
           /\ ~EndsStreaming(tokens) => StartOf(tokens) = n
           /\ EndsStreaming(tokens) => FirstEnd(tokens, StartOf(tokens))
  BY <1>1, StartIs
<1>5. /\ Free \/ mode.prompt_ends => StartOf(all) = 0
      /\ ~Free /\ ~mode.prompt_ends =>
           /\ ~EndsStreaming(all) => StartOf(all) = Len(all)
           /\ EndsStreaming(all) => FirstEnd(all, StartOf(all))
  BY <1>2, StartIs
<1>6. /\ EndsStreaming(all) <=> EndsStreaming(tokens) \/ EndsStreaming(new)
      /\ \A j : FirstEnd(tokens, j) => FirstEnd(all, j)
      /\ \A j : ~EndsStreaming(tokens) /\ FirstEnd(new, j) => FirstEnd(all, n + j)
  BY <1>1, EndsConcat
<1>7. end_at \in 0 .. n /\ ended \in {"none", "no", "yes"}
  BY DEF TypeOK
<1>8. ~Free => ended # "none" /\ (ended = "yes" <=> mode.prompt_ends \/ EndsStreaming(tokens))
  BY DEF EndKnown, EndsStreaming
<1>9. \A i, j : FirstEnd(all, i) /\ FirstEnd(all, j) => i = j
  BY <1>2, EndsIn
<1>10. EndsStreaming(new) <=> \E j : FirstEnd(new, j)
  BY EndsIn
<1> HIDE DEF all, n
<1>11. ShouldFill(ended) <=> Free \/ ended = "yes"
  BY DEF ShouldFill
<1>12. end_at \in 0 .. Len(all)
  BY <1>1, <1>2, <1>7
<1>13. CASE ShouldFill(ended)
  <2>1. Answer(new) = new /\ EndedBy(new) = ended /\ EndAtBy(new) = end_at
    BY <1>13, AnswerIs
  <2>2. StartOf(all) = StartOf(tokens)
    <3>1. CASE Free \/ mode.prompt_ends
      BY <1>4, <1>5, <3>1
    <3>2. CASE ~Free /\ ~mode.prompt_ends
      <4>1. EndsStreaming(tokens)
        BY <1>8, <1>11, <1>13, <3>2
      <4>2. FirstEnd(all, StartOf(tokens)) /\ FirstEnd(all, StartOf(all))
        BY <1>4, <1>5, <1>6, <3>2, <4>1
      <4> QED  BY <1>9, <4>2
    <3> QED  BY <3>1, <3>2
  <2>3. Drop(all, StartOf(all)) = A \o new
    BY <1>3, <1>4, <2>2
  <2>4. ~Free => ended = "yes"
    BY <1>11, <1>13
  <2> QED  BY <1>6, <1>7, <1>8, <1>12, <2>1, <2>3, <2>4 DEF all
<1>14. CASE ~ShouldFill(ended)
  <2>1. ~Free /\ ended = "no" /\ ~mode.prompt_ends /\ ~EndsStreaming(tokens)
    BY <1>7, <1>8, <1>11, <1>14
  <2>2. StartOf(tokens) = n /\ A = <<>>
    BY <1>1, <1>4, <2>1, TakeAll DEF n
  <2>3. CASE ~EndsStreaming(new)
    <3>1. Answer(new) = <<>> /\ EndedBy(new) = ended /\ EndAtBy(new) = end_at
      BY <1>14, <2>3, AnswerIs
    <3>2. Drop(all, StartOf(all)) = <<>>
      BY <1>2, <1>5, <1>6, <2>1, <2>3, TakeAll
    <3>3. <<>> \in Seq(Tokens) /\ <<>> \o <<>> = <<>>
      BY EmptySeq, ConcatEmptySeq
    <3>4. Drop(all, StartOf(all)) = A \o Answer(new)
      BY <2>2, <3>1, <3>2, <3>3
    <3> QED  BY <1>6, <1>7, <1>12, <2>1, <2>3, <3>1, <3>3, <3>4 DEF all
  <2>4. CASE EndsStreaming(new)
    <3>1. PICK j : FirstEnd(new, j)
      BY <1>10, <2>4
    <3>2. Answer(new) = Drop(new, j) /\ EndedBy(new) = "yes" /\ EndAtBy(new) = n + j
      BY <1>14, <3>1, AnswerIs DEF n
    <3>3. j \in 0 .. Len(new) /\ n + j \in 0 .. Len(all)
      BY <1>1, <1>2, <3>1 DEF FirstEnd
    <3>4. StartOf(all) = n + j
      BY <1>5, <1>6, <1>9, <2>1, <2>4, <3>1
    <3>5. Drop(all, StartOf(all)) = Drop(new, j)
      BY <1>3, <3>3, <3>4
    <3>6. Drop(new, j) \in Seq(Tokens)
      BY <3>3, DropFacts
    <3>7. Drop(all, StartOf(all)) = A \o Answer(new)
      BY <2>2, <3>2, <3>5, <3>6, ConcatEmptySeq
    <3> QED  BY <1>6, <2>4, <3>2, <3>3, <3>6, <3>7 DEF all
  <2> QED  BY <2>3, <2>4
<1> QED  BY <1>13, <1>14

LEMMA CommitKeeps ==
  ASSUME IInv, Commit
  PROVE  IInv'
<1> DEFINE new == UpToStop(Filtered(out))
           all == tokens \o new
           answer == Answer(new)
<1>1. TypeOK /\ EndKnown /\ Following /\ Hopeful
  BY DEF IInv
<1>2. /\ tokens' = all /\ ended' = EndedBy(new) /\ end_at' = EndAtBy(new)
      /\ hist' = hist \o ValidTokens(hist, answer)
      /\ phase' = IF ValidTokens(hist, answer) # answer THEN "error"
                  ELSE IF Stopped(all) THEN "finished" ELSE "idle"
      /\ phase = "sampled" /\ stale' = FALSE /\ mode' = mode
      /\ worker' = <<>> /\ spec' = <<>> /\ rows' = <<>> /\ out' = <<>>
  BY CommitIs
<1>3. new \in Seq(Tokens) /\ tokens \in Seq(Tokens) /\ hist \in Seq(Tokens) /\ Matches(hist)
  BY <1>1, NewIs DEF TypeOK, Hopeful
<1> HIDE DEF new
<1>4. all \in Seq(Tokens)
  BY <1>3, ConcatFacts
<1>5. /\ Drop(all, StartOf(all)) = Drop(tokens, StartOf(tokens)) \o answer
      /\ EndedBy(new) \in {"none", "no", "yes"} /\ EndAtBy(new) \in 0 .. Len(all)
      /\ answer \in Seq(Tokens)
      /\ ~Free => /\ EndedBy(new) # "none"
                  /\ EndedBy(new) = "yes" <=> mode.prompt_ends \/ EndsStreaming(all)
  BY <1>1, <1>2, <1>3, AnswerGrows
<1> HIDE DEF all, answer
<1>6. hist' \in Seq(Tokens) /\ Matches(hist')
  BY <1>2, <1>3, <1>5, ValidFacts
<1>7. phase' \in {"error", "finished", "idle"}
  BY <1>2
<1>8. TypeOK'
  <2>1. <<>> \in Seq(Tokens) /\ <<>> \in Seq(SUBSET Tokens) /\ <<>> \in Seq(Tokens \cup {Placeholder})
    BY EmptySeq
  <2>2. /\ worker' \in Seq(Tokens) /\ out' \in Seq(Tokens) /\ rows' \in Seq(SUBSET Tokens)
        /\ spec' \in Seq(Tokens \cup {Placeholder})
    BY <1>2, <2>1
  <2>3. mode' \in Modes /\ stale' \in BOOLEAN
    BY <1>1, <1>2 DEF TypeOK
  <2> QED  BY <1>2, <1>4, <1>5, <1>6, <1>7, <2>2, <2>3 DEF TypeOK
<1>9. EndKnown'
  BY <1>2, <1>5 DEF EndKnown, Free, EndsStreaming
<1>10. Following'
  <2> SUFFICES ASSUME phase' # "error" PROVE hist' = Drop(all, AnswerStart')
    BY <1>2 DEF Following
  <2>1. AnswerStart' = StartOf(all)
    BY <1>2 DEF AnswerStart, StartOf, Free
  <2>2. ValidTokens(hist, answer) = answer
    BY <1>2
  <2>3. hist = Drop(tokens, StartOf(tokens))
    BY <1>1, <1>2 DEF Following, AnswerStart, StartOf
  <2> QED  BY <1>2, <1>5, <2>1, <2>2, <2>3
<1>11. Hopeful'
  BY <1>6 DEF Hopeful
<1>12. GoesOn'
  BY <1>2 DEF GoesOn, Stopped
<1> QED
  BY <1>2, <1>7, <1>8, <1>9, <1>10, <1>11, <1>12
  DEF IInv, SpecPlanned, RowsConstrain, BlockSampled, StaleSampled, NotCrashed

----------------------------------------------------------------------------
(* What follows from the invariant.                                        *)

LEMMA Inductive ==
  IInv /\ [Next]_vars => IInv'
<1> SUFFICES ASSUME IInv, [Next]_vars PROVE IInv'
  OBVIOUS
<1>1. CASE Schedule
  BY <1>1, ScheduleKeeps
<1>2. CASE FillBitmask
  BY <1>2, FillBitmaskKeeps
<1>3. CASE Sample
  BY <1>3, SampleKeeps
<1>4. CASE Preempt
  BY <1>4, PreemptKeeps
<1>5. CASE Commit
  BY <1>5, CommitKeeps
<1>6. CASE UNCHANGED vars
  <2>1. /\ mode' = mode /\ phase' = phase /\ tokens' = tokens /\ hist' = hist /\ ended' = ended
        /\ end_at' = end_at /\ worker' = worker /\ spec' = spec /\ rows' = rows /\ out' = out
        /\ stale' = stale
    BY <1>6 DEF vars
  <2>2. TypeOK /\ EndKnown /\ Following /\ Hopeful /\ GoesOn /\ SpecPlanned /\ RowsConstrain
        /\ BlockSampled /\ StaleSampled /\ NotCrashed
    BY DEF IInv
  <2>3. TypeOK'
    BY <2>1, <2>2 DEF TypeOK
  <2>4. EndKnown' /\ Following' /\ Hopeful' /\ GoesOn'
    BY <2>1, <2>2 DEF EndKnown, Following, Hopeful, GoesOn, AnswerStart, Free
  <2>5. SpecPlanned'
    BY <2>1, <2>2 DEF SpecPlanned, Constrained, ShouldFill, EndedAtFill, Free
  <2>6. RowsConstrain'
    BY <2>1, <2>2 DEF RowsConstrain, Begins, ShouldFill, Free
  <2>7. BlockSampled' /\ StaleSampled' /\ NotCrashed'
    BY <2>1, <2>2 DEF BlockSampled, StaleSampled, NotCrashed
  <2> QED  BY <2>3, <2>4, <2>5, <2>6, <2>7 DEF IInv
<1> QED  BY <1>1, <1>2, <1>3, <1>4, <1>5, <1>6 DEF Next

\* Whatever a step proposes, samples and accepts, the matcher has been given exactly the
\* committed tokens behind the reasoning (grammar_bitmask(), should_advance() and
\* trim_reasoning_for_advance() of structured_output_init.py).
THEOREM MatcherHoldsAnswer ==
  Spec => []GrammarFollowsAnswer
<1>1. IInv => GrammarFollowsAnswer
  BY DEF IInv, Following, GrammarFollowsAnswer
<1> QED  BY <1>1, InitHolds, Inductive, PTL DEF Spec

\* The end of the reasoning is recorded in the step that commits the marker, wherever in
\* the block it stands, and never without it (should_advance(), 423-481).
THEOREM EndIsNoticed ==
  Spec => []EndNoticed
<1>1. IInv => EndNoticed
  BY DEF IInv, EndKnown, EndNoticed, EndsStreaming
<1> QED  BY <1>1, InitHolds, Inductive, PTL DEF Spec

----------------------------------------------------------------------------
(* The grammar accepts what is committed.                                  *)

LEMMA DropLeads ==
  ASSUME NEW S, NEW a \in Seq(S), NEW b \in Seq(S), Leads(a, b), NEW n \in 0 .. Len(a)
  PROVE  Leads(Drop(a, n), Drop(b, n))
<1>1. Len(a) \in Nat /\ Len(b) \in Nat /\ Len(a) <= Len(b) /\ \A i \in 1 .. Len(a) : a[i] = b[i]
  BY LenProperties DEF Leads
<1>2. n \in 0 .. Len(b)
  BY <1>1
<1>3. Len(Drop(a, n)) = Len(a) - n /\ \A i \in 1 .. Len(a) - n : Drop(a, n)[i] = a[n + i]
  BY DropFacts
<1>4. Len(Drop(b, n)) = Len(b) - n /\ \A i \in 1 .. Len(b) - n : Drop(b, n)[i] = b[n + i]
  BY <1>2, DropFacts
<1>5. \A i \in 1 .. Len(a) - n : n + i \in 1 .. Len(a) /\ i \in 1 .. Len(b) - n
  BY <1>1
<1>6. Len(a) - n <= Len(b) - n
  BY <1>1
<1> QED  BY <1>1, <1>3, <1>4, <1>5, <1>6 DEF Leads

\* A first marker stays first when tokens are put behind.
LEMMA FirstEndLeads ==
  ASSUME NEW S, NEW a \in Seq(S), NEW b \in Seq(S), Leads(a, b), NEW j, FirstEnd(a, j)
  PROVE  FirstEnd(b, j)
<1>1. Len(a) \in Nat /\ Len(b) \in Nat /\ Len(a) <= Len(b) /\ \A i \in 1 .. Len(a) : a[i] = b[i]
  BY LenProperties DEF Leads
<1>2. j \in 1 .. Len(a) /\ a[j] = End /\ \A i \in 1 .. j - 1 : a[i] # End
  BY DEF FirstEnd
<1>3. j \in 1 .. Len(b) /\ \A i \in 1 .. j - 1 : i \in 1 .. Len(a)
  BY <1>1, <1>2
<1> QED  BY <1>1, <1>2, <1>3 DEF FirstEnd

\* A token appended to the drafts comes last behind them, after whatever they follow.
LEMMA AppendBehind ==
  ASSUME NEW S, NEW h \in Seq(S), NEW q \in Seq(S), NEW e \in S
  PROVE  /\ h \o Append(q, e) = Append(h \o q, e)
         /\ Append(q, e) \in Seq(S) /\ Len(Append(q, e)) = Len(q) + 1
         /\ Append(q, e)[Len(q) + 1] = e
         /\ \A i \in 1 .. Len(q) : Append(q, e)[i] = q[i]
<1>1. h \o Append(q, e) = Append(h \o q, e)
  BY ConcatNext
<1>2. /\ Append(q, e) \in Seq(S) /\ Len(Append(q, e)) = Len(q) + 1
      /\ Append(q, e)[Len(q) + 1] = e
      /\ \A i \in 1 .. Len(q) : Append(q, e)[i] = q[i]
  BY AppendProperties
<1> QED  BY <1>1, <1>2

\* Drafts that were known when their rows were filled, and that their rows allow, need no
\* filter: up to the end of a sentence the grammar accepts them and the token behind them.
LEMMA KnownBlock ==
  ASSUME TypeOK, RowsConstrain, phase = "sampled",
         NEW n \in 0 .. Len(spec), NEW t \in rows[n + 1], out = Append(Take(worker, n), t),
         Len(spec) <= Len(worker),
         \A i \in 1 .. n : worker[i] \in rows[i] /\ spec[i] = worker[i],
         NEW new \in Seq(Tokens), Leads(new, out),
         \A k \in 1 .. Len(out) : out[k] = Eos => Len(new) <= k,
         NEW s \in 0 .. n, Begins(s), s <= Len(new)
  PROVE  Matches(hist \o Drop(new, s))
<1>1. /\ worker \in Seq(Tokens) /\ spec \in Seq(Tokens \cup {Placeholder}) /\ out \in Seq(Tokens)
      /\ hist \in Seq(Tokens) /\ rows \in Seq(SUBSET Tokens) /\ SpecType
  BY DEF TypeOK, SpecType
<1>2. /\ Len(worker) \in Nat /\ Len(spec) \in Nat /\ Len(new) \in Nat /\ n \in Nat /\ s \in Nat
      /\ s <= n /\ n <= Len(spec) /\ Len(rows) = Len(spec) + 1
  BY <1>1, LenProperties DEF RowsConstrain
<1>3. t \in Tokens
  <2>1. n + 1 \in 1 .. Len(rows)
    BY <1>2
  <2>2. rows[n + 1] \in SUBSET Tokens
    BY <1>1, <2>1, ElementOfSeq
  <2> QED  BY <2>2
<1>4. /\ Len(out) = n + 1 /\ out[n + 1] = t /\ \A i \in 1 .. n : out[i] = spec[i]
  <2>1. n \in 0 .. Len(worker)
    BY <1>2
  <2>2. /\ Take(worker, n) \in Seq(Tokens) /\ Len(Take(worker, n)) = n
        /\ \A i \in 1 .. n : Take(worker, n)[i] = worker[i]
    BY <1>1, <2>1, TakeFacts
  <2> QED  BY <1>3, <2>2, AppendProperties
<1>5. \A i \in 1 .. n : spec[i] # Placeholder
  <2> SUFFICES ASSUME NEW i \in 1 .. n PROVE spec[i] # Placeholder
    OBVIOUS
  <2>1. i \in 1 .. Len(worker)
    BY <1>2
  <2>2. worker[i] \in Tokens
    BY <1>1, <2>1, ElementOfSeq
  <2> QED  BY <2>2, StructuredAssumption
<1>6. \A i \in s + 1 .. n : spec[i] \in rows[i]
  <2>1. \A i \in s + 1 .. n : i \in 1 .. n
    BY <1>2
  <2> QED  BY <2>1
<1>7. \/ /\ rows[n + 1] = Allowed(hist \o SubSeq(spec, s + 1, n))
         /\ Matches(hist \o SubSeq(spec, s + 1, n))
      \/ \E k \in s + 1 .. n : spec[k] = Eos /\ Matches(hist \o SubSeq(spec, s + 1, k))
  BY <1>5, <1>6 DEF RowsConstrain
<1> DEFINE d == Drop(new, s)
<1>8. /\ d \in Seq(Tokens) /\ Len(d) = Len(new) - s
      /\ \A i \in 1 .. Len(new) - s : d[i] = new[s + i]
  <2>1. s \in 0 .. Len(new)
    BY <1>2
  <2> QED  BY <2>1, DropFacts
<1> HIDE DEF d
<1>9. /\ Len(new) <= n + 1 /\ \A i \in 1 .. Len(new) : new[i] = out[i]
  BY <1>4 DEF Leads
<1>10. \A k \in s .. n : /\ SubSeq(spec, s + 1, k) \in Seq(Tokens) /\ Len(SubSeq(spec, s + 1, k)) = k - s
                         /\ \A i \in 1 .. k - s : SubSeq(spec, s + 1, k)[i] = spec[s + i]
                         /\ hist \o SubSeq(spec, s + 1, k) \in Seq(Tokens)
  <2> SUFFICES ASSUME NEW k \in s .. n
               PROVE  /\ SubSeq(spec, s + 1, k) \in Seq(Tokens) /\ Len(SubSeq(spec, s + 1, k)) = k - s
                      /\ \A i \in 1 .. k - s : SubSeq(spec, s + 1, k)[i] = spec[s + i]
                      /\ hist \o SubSeq(spec, s + 1, k) \in Seq(Tokens)
    OBVIOUS
  <2>1. s \in 0 .. Len(spec) /\ k \in s .. Len(spec) /\ \A i \in s + 1 .. k : i \in 1 .. n
    BY <1>2
  <2> QED  BY <1>1, <1>5, <2>1, SpecPart
<1>11. CASE /\ rows[n + 1] = Allowed(hist \o SubSeq(spec, s + 1, n))
            /\ Matches(hist \o SubSeq(spec, s + 1, n))
  <2> DEFINE q == SubSeq(spec, s + 1, n)
             x == Append(q, t)
  <2>1. n \in s .. n
    BY <1>2
  <2>2. /\ q \in Seq(Tokens) /\ Len(q) = n - s /\ \A i \in 1 .. n - s : q[i] = spec[s + i]
        /\ hist \o q \in Seq(Tokens)
    BY <1>10, <2>1
  <2>3. Matches(Append(hist \o q, t))
    BY <1>11 DEF Allowed
  <2>a. hist \in Seq(Tokens)
    BY <1>1
  <2>b. q \in Seq(Tokens)
    BY <2>2
  <2>c. Len(q) = n - s
    BY <2>2
  <2> HIDE DEF q
  <2>d. /\ hist \o x = Append(hist \o q, t)
        /\ x \in Seq(Tokens) /\ Len(x) = Len(q) + 1 /\ x[Len(q) + 1] = t
        /\ \A i \in 1 .. Len(q) : x[i] = q[i]
    BY <1>3, <2>a, <2>b, AppendBehind
  <2> HIDE DEF x
  <2>5. /\ x \in Seq(Tokens) /\ Len(x) = (n - s) + 1 /\ x[(n - s) + 1] = t
        /\ \A i \in 1 .. n - s : x[i] = q[i]
    BY <2>c, <2>d
  <2>6. Matches(hist \o x)
    BY <2>3, <2>d
  <2>7. ASSUME NEW i \in 1 .. Len(new) - s PROVE d[i] = x[i]
    <3>1. s + i \in 1 .. Len(new) /\ d[i] = out[s + i]
      <4>1. s + i \in 1 .. Len(new)
        BY <1>2
      <4> QED  BY <1>8, <1>9, <4>1
    <3>2. CASE i \in 1 .. n - s
      <4>1. s + i \in 1 .. n
        BY <1>2, <3>2
      <4>2. out[s + i] = spec[s + i]
        BY <1>4, <4>1
      <4> QED  BY <2>2, <2>5, <3>1, <3>2, <4>2
    <3>3. CASE ~(i \in 1 .. n - s)
      <4>1. i = (n - s) + 1 /\ s + i = n + 1
        BY <1>2, <1>9, <3>3
      <4> QED  BY <1>4, <2>5, <3>1, <4>1
    <3> QED  BY <3>2, <3>3
  <2>8. Len(new) - s <= (n - s) + 1
    BY <1>2, <1>9
  <2>9. Leads(d, x)
    BY <1>8, <2>5, <2>7, <2>8 DEF Leads
  <2>10. hist \o d \in Seq(Tokens) /\ hist \o x \in Seq(Tokens) /\ Leads(hist \o d, hist \o x)
    BY <1>1, <1>8, <2>5, <2>9, ConcatFacts, LeadsConcat
  <2>11. Matches(hist \o d)
    BY <2>6, <2>10, MatchesShorter
  <2> QED  BY <2>11 DEF d
<1>12. ASSUME NEW k \in s + 1 .. n, spec[k] = Eos, Matches(hist \o SubSeq(spec, s + 1, k))
       PROVE  Matches(hist \o Drop(new, s))
  <2> DEFINE x == SubSeq(spec, s + 1, k)
  <2>1. k \in s .. n /\ k \in 1 .. n /\ k \in 1 .. n + 1
    BY <1>2
  <2>2. Len(new) <= k
    BY <1>4, <1>12, <2>1
  <2>3. /\ x \in Seq(Tokens) /\ Len(x) = k - s /\ \A i \in 1 .. k - s : x[i] = spec[s + i]
        /\ hist \o x \in Seq(Tokens) /\ Matches(hist \o x)
    BY <1>10, <1>12, <2>1
  <2> HIDE DEF x
  <2>4. ASSUME NEW i \in 1 .. Len(new) - s PROVE d[i] = x[i]
    <3>1. s + i \in 1 .. Len(new) /\ s + i \in 1 .. n /\ i \in 1 .. k - s
      BY <1>2, <2>1, <2>2
    <3>2. d[i] = out[s + i] /\ out[s + i] = spec[s + i]
      BY <1>4, <1>8, <1>9, <3>1
    <3> QED  BY <2>3, <3>1, <3>2
  <2>5. Len(new) - s <= k - s
    BY <1>2, <2>1, <2>2
  <2>6. Leads(d, x)
    BY <1>8, <2>3, <2>4, <2>5 DEF Leads
  <2>7. hist \o d \in Seq(Tokens) /\ Leads(hist \o d, hist \o x)
    BY <1>1, <1>8, <2>3, <2>6, ConcatFacts, LeadsConcat
  <2>8. Matches(hist \o d)
    BY <2>3, <2>7, MatchesShorter
  <2> QED  BY <2>8 DEF d
<1> QED  BY <1>7, <1>11, <1>12

\* A filtered block: what follows the marker has been validated.
LEMMA FilteredBlock ==
  ASSUME TypeOK, Hopeful, ~ShouldFill(ended), NEW new \in Seq(Tokens), NEW j,
         Filtered(out) = Take(out, ReasoningPart(out))
                           \o ValidTokens(hist, Drop(out, ReasoningPart(out))),
         Leads(new, Filtered(out)), FirstEnd(new, j)
  PROVE  Matches(hist \o Drop(new, j))
<1> DEFINE p == ReasoningPart(out)
           v == ValidTokens(hist, Drop(out, p))
           a == Take(out, p)
           f == a \o v
<1>1. out \in Seq(Tokens) /\ Len(out) \in Nat /\ hist \in Seq(Tokens) /\ Matches(hist)
  BY LenProperties DEF TypeOK, Hopeful
<1>2. /\ p \in 0 .. Len(out)
      /\ ~EndsStreaming(out) => p = Len(out)
      /\ EndsStreaming(out) => FirstEnd(out, p)
  BY <1>1, ReasoningPartIs
<1> HIDE DEF p
<1>3. /\ a \in Seq(Tokens) /\ Len(a) = p /\ \A i \in 1 .. p : a[i] = out[i]
  BY <1>1, <1>2, TakeFacts
<1>4. Drop(out, p) \in Seq(Tokens)
  BY <1>1, <1>2, DropFacts
<1>5. v \in Seq(Tokens) /\ Leads(v, Drop(out, p)) /\ Matches(hist \o v) /\ hist \o v \in Seq(Tokens)
  BY <1>1, <1>4, ValidFacts
<1>6. f = Filtered(out)
  BY DEF p
<1>7. Drop(out, Len(out)) = <<>> /\ Take(out, Len(out)) = out
  BY <1>1, TakeAll
<1> HIDE DEF v, a
<1>8. f \in Seq(Tokens) /\ Drop(f, p) = v
  BY <1>3, <1>5, ConcatFacts, DropConcat
<1>9. EndsStreaming(f) <=> EndsStreaming(a) \/ EndsStreaming(v)
  BY <1>3, <1>5, EndsConcat
<1>10. \A i : FirstEnd(a, i) => FirstEnd(f, i)
  BY <1>3, <1>5, EndsConcat
<1> HIDE DEF f
<1>11. FirstEnd(f, j)
  BY <1>6, <1>8, FirstEndLeads
<1>12. EndsStreaming(out)
  <2> SUFFICES ASSUME ~EndsStreaming(out) PROVE FALSE
    OBVIOUS
  <2>1. p = Len(out) /\ a = out /\ Drop(out, p) = <<>>
    BY <1>2, <1>7 DEF a
  <2>2. ~EndsStreaming(a)
    BY <2>1
  <2>3. Len(v) \in Nat /\ Len(v) <= 0
    BY <1>5, <2>1, LenProperties, EmptySeq DEF Leads
  <2>4. 1 .. Len(v) = {}
    BY <2>3
  <2>5. ~EndsStreaming(v)
    BY <1>5, <2>4, EndsIn
  <2> QED  BY <1>8, <1>9, <1>11, <2>2, <2>5, EndsIn
<1>13. FirstEnd(a, p)
  <2>1. FirstEnd(out, p)
    BY <1>2, <1>12
  <2>2. p \in 1 .. p /\ \A i \in 1 .. p - 1 : i \in 1 .. p
    BY <1>1, <2>1 DEF FirstEnd
  <2> QED  BY <1>3, <2>1, <2>2 DEF FirstEnd
<1>14. j = p
  BY <1>8, <1>10, <1>11, <1>13, EndsIn
<1>15. j \in 0 .. Len(new)
  <2>1. j \in 1 .. Len(new) /\ Len(new) \in Nat
    BY LenProperties DEF FirstEnd
  <2> QED  BY <2>1
<1>16. Drop(new, j) \in Seq(Tokens) /\ Leads(Drop(new, j), v)
  BY <1>6, <1>8, <1>14, <1>15, DropFacts, DropLeads
<1>17. hist \o Drop(new, j) \in Seq(Tokens) /\ Leads(hist \o Drop(new, j), hist \o v)
  BY <1>1, <1>5, <1>16, ConcatFacts, LeadsConcat
<1> QED  BY <1>5, <1>17, MatchesShorter

\* A block that is committed fits the grammar, unless it is stale and its rows were filled
\* without its drafts.
LEMMA AnswerFits ==
  ASSUME IInv, phase = "sampled", stale => ~mode.mm /\ ~mode.async
  PROVE  LET answer == Answer(UpToStop(Filtered(out)))
         IN  ValidTokens(hist, answer) = answer
<1> DEFINE f == Filtered(out)
           new == UpToStop(f)
           raw == Len(out) < 2 \/ spec = <<>> \/ stale
<1>1. /\ TypeOK /\ EndKnown /\ Hopeful /\ SpecPlanned /\ RowsConstrain /\ BlockSampled
      /\ Matches(hist) /\ hist \in Seq(Tokens) /\ out \in Seq(Tokens) /\ Len(out) \in Nat
  BY LenProperties DEF IInv, Hopeful, TypeOK
<1>2. /\ f \in Seq(Tokens) /\ new \in Seq(Tokens) /\ Leads(new, f)
      /\ \A k \in 1 .. Len(f) : f[k] = Eos => Len(new) <= k
  BY <1>1, NewIs
<1>3. /\ raw => f = out
      /\ ~raw /\ ShouldFill(ended) => f = ValidTokens(hist, out)
      /\ ~raw /\ ~ShouldFill(ended) =>
           f = Take(out, ReasoningPart(out)) \o ValidTokens(hist, Drop(out, ReasoningPart(out)))
  BY <1>1, FilteredIs
<1> HIDE DEF new
<1>4. /\ ShouldFill(ended) => Answer(new) = new
      /\ ~ShouldFill(ended) /\ ~EndsStreaming(new) => Answer(new) = <<>>
      /\ \A j : ~ShouldFill(ended) /\ FirstEnd(new, j) => Answer(new) = Drop(new, j)
  BY <1>1, <1>2, AnswerIs
<1>5. Answer(new) \in Seq(Tokens)
  BY <1>1, <1>2, AnswerGrows
<1>6. hist \o <<>> = hist
  BY <1>1, ConcatEmptySeq
<1>7. Drop(new, 0) = new
  BY <1>2, TakeAll
<1>8. SUFFICES Matches(hist \o Answer(new))
  BY <1>1, <1>5, ValidFacts DEF new
<1>9. CASE ~ShouldFill(ended) /\ ~EndsStreaming(new)
  BY <1>1, <1>4, <1>6, <1>9
<1>10. CASE raw /\ (ShouldFill(ended) \/ EndsStreaming(new))
  <2>1. PICK n \in 0 .. Len(spec) :
          /\ \A i \in 1 .. n : worker[i] \in rows[i]
          /\ \E t \in rows[n + 1] : out = Append(Take(worker, n), t)
    BY <1>1 DEF BlockSampled
  <2>2. PICK t \in rows[n + 1] : out = Append(Take(worker, n), t)
    BY <2>1
  <2>3. PICK K \in 0 .. Len(spec) :
          /\ \A i \in 1 .. K : spec[i] = worker[i]
          /\ ~mode.async /\ ~mode.mm => K = Len(spec)
    BY <1>1 DEF SpecPlanned
  <2>4. /\ Len(spec) \in Nat /\ Len(worker) \in Nat /\ Len(spec) <= Len(worker) /\ n \in Nat
        /\ worker \in Seq(Tokens)
    BY <1>1, LenProperties DEF SpecPlanned, TypeOK
  <2>5. Len(out) = n + 1 /\ \A i \in 1 .. n : out[i] = worker[i]
    <3>1. n \in 0 .. Len(worker)
      BY <2>4
    <3>2. /\ Take(worker, n) \in Seq(Tokens) /\ Len(Take(worker, n)) = n
          /\ \A i \in 1 .. n : Take(worker, n)[i] = worker[i]
      BY <2>4, <3>1, TakeFacts
    <3>3. rows \in Seq(SUBSET Tokens) /\ n + 1 \in 1 .. Len(rows)
      BY <1>1, <2>4 DEF TypeOK, RowsConstrain
    <3>4. t \in Tokens
      <4>1. rows[n + 1] \in SUBSET Tokens
        BY <3>3, ElementOfSeq
      <4> QED  BY <4>1
    <3> QED  BY <2>2, <3>2, <3>4, AppendProperties
  <2>6. n <= K
    <3>1. CASE stale
      BY <2>3, <3>1
    <3>2. CASE Len(out) < 2
      BY <2>3, <2>4, <2>5, <3>2
    <3>3. CASE spec = <<>>
      <4>1. Len(spec) = 0
        BY <3>3, EmptySeq
      <4> QED  BY <2>3, <4>1
    <3> QED  BY <1>10, <3>1, <3>2, <3>3
  <2>7. \A i \in 1 .. n : worker[i] \in rows[i] /\ spec[i] = worker[i]
    <3>1. \A i \in 1 .. n : i \in 1 .. K
      BY <2>3, <2>4, <2>6
    <3> QED  BY <2>1, <2>3, <3>1
  <2>8. f = out
    BY <1>3, <1>10
  <2>9. Len(new) \in Nat /\ Len(new) <= n + 1 /\ \A i \in 1 .. Len(new) : new[i] = out[i]
    BY <1>2, <2>5, <2>8, LenProperties DEF Leads
  <2> HIDE DEF f, raw
  <2>10. ASSUME NEW s \in 0 .. n, Begins(s), s <= Len(new)
         PROVE  Matches(hist \o Drop(new, s))
    BY <1>1, <1>2, <2>2, <2>4, <2>7, <2>8, <2>10, KnownBlock
  <2>11. CASE ShouldFill(ended)
    <3>1. Begins(0) /\ 0 \in 0 .. n /\ 0 <= Len(new)
      BY <2>4, <2>9, <2>11 DEF Begins
    <3> QED  BY <1>4, <1>7, <2>10, <2>11, <3>1
  <2>12. CASE ~ShouldFill(ended)
    <3>1. PICK j : FirstEnd(new, j)
      BY <1>2, <1>10, <2>12, EndsIn
    <3>2. /\ Answer(new) = Drop(new, j) /\ j \in 1 .. Len(new) /\ new[j] = End
          /\ \A i \in 1 .. j - 1 : new[i] # End
      BY <1>4, <2>12, <3>1 DEF FirstEnd
    <3>3. CASE j <= n
      <4>1. j \in 0 .. n /\ j > 0 /\ j \in 1 .. n /\ j <= Len(new)
            /\ \A i \in 1 .. j - 1 : i \in 1 .. n /\ i \in 1 .. Len(new)
        BY <2>4, <2>9, <3>2, <3>3
      <4>2. spec[j] = End /\ \A i \in 1 .. j - 1 : spec[i] # End
        BY <2>5, <2>7, <2>9, <3>2, <4>1
      <4>3. Begins(j)
        BY <2>12, <4>1, <4>2 DEF Begins
      <4> QED  BY <2>10, <3>2, <4>1, <4>3
    <3>4. CASE ~(j <= n)
      <4>1. j = Len(new)
        BY <2>4, <2>9, <3>2, <3>4
      <4>2. Drop(new, j) = <<>>
        BY <1>2, <4>1, TakeAll
      <4> QED  BY <1>1, <1>6, <3>2, <4>2
    <3> QED  BY <3>3, <3>4
  <2> QED  BY <2>11, <2>12
<1>11. CASE ~raw /\ ShouldFill(ended)
  <2>1. f = ValidTokens(hist, out) /\ Answer(new) = new
    BY <1>3, <1>4, <1>11
  <2>2. hist \o f \in Seq(Tokens) /\ Matches(hist \o f)
    BY <1>1, <2>1, ValidFacts
  <2> HIDE DEF f, raw
  <2>3. hist \o new \in Seq(Tokens) /\ Leads(hist \o new, hist \o f)
    BY <1>1, <1>2, ConcatFacts, LeadsConcat
  <2> QED  BY <2>1, <2>2, <2>3, MatchesShorter
<1>12. CASE ~raw /\ ~ShouldFill(ended) /\ EndsStreaming(new)
  <2>1. PICK j : FirstEnd(new, j)
    BY <1>2, <1>12, EndsIn
  <2>2. Answer(new) = Drop(new, j)
    BY <1>4, <1>12, <2>1
  <2>3. Matches(hist \o Drop(new, j))
    BY <1>1, <1>2, <1>3, <1>12, <2>1, FilteredBlock
  <2> QED  BY <2>2, <2>3
<1> HIDE DEF raw
<1> QED  BY <1>9, <1>10, <1>11, <1>12

\* No committed token is rejected ("grammar rejected tokens", scheduler.py 2077) and no
\* draft fails the assertion of grammar_bitmask(), as long as only those requests are
\* preempted with a step on the GPU whose drafts schedule() sends (the comment on stale
\* output at scheduler.py 2015 and the finding there).
THEOREM GrammarNeverSaysNo ==
  ASSUME \A m \in Preemptable : ~m.mm /\ ~m.async
  PROVE  Spec => []GrammarNeverRejects
<1> DEFINE J == IInv /\ phase # "error"
<1>1. Init => J
  <2>1. Init => phase # "error"
    BY DEF Init
  <2> QED  BY <2>1, InitHolds
<1>2. ASSUME J, [Next]_vars PROVE phase' # "error"
  <2>1. CASE Schedule
    BY <2>1 DEF Schedule
  <2>2. CASE FillBitmask
    BY <2>2 DEF FillBitmask
  <2>3. CASE Sample
    BY <2>3 DEF Sample
  <2>4. CASE Preempt
    BY <1>2, <2>4 DEF Preempt
  <2>5. CASE Commit
    <3>1. phase = "sampled"
      BY <2>5 DEF Commit
    <3>2. stale => ~mode.mm /\ ~mode.async
      BY <1>2 DEF IInv, StaleSampled
    <3>3. LET answer == Answer(UpToStop(Filtered(out)))
          IN  ValidTokens(hist, answer) = answer
      BY <1>2, <3>1, <3>2, AnswerFits
    <3> QED  BY <2>5, <3>3, CommitIs
  <2>6. CASE UNCHANGED vars
    BY <1>2, <2>6 DEF vars
  <2> QED  BY <1>2, <2>1, <2>2, <2>3, <2>4, <2>5, <2>6 DEF Next
<1>3. J /\ [Next]_vars => J'
  BY <1>2, Inductive
<1>4. J => GrammarNeverRejects
  BY DEF IInv, NotCrashed, GrammarNeverRejects
<1> QED  BY <1>1, <1>3, <1>4, PTL DEF Spec
=============================================================================
