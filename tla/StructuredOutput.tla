-------------------------- MODULE StructuredOutput --------------------------
(***************************************************************************)
(* Structured output of one request: the manager                           *)
(* (patches/structured_output_init.py) and the places of                   *)
(* patches/scheduler.py that call it, in the order of one decode step:     *)
(* drafts are taken over, schedule() sends them, grammar_bitmask() fills a *)
(* row per draft and one for the bonus token, the GPU samples under these  *)
(* rows, and update_from_output() filters, commits and advances.           *)
(*                                                                         *)
(* A reasoning model thinks first: until the end marker its tokens are     *)
(* free, and the grammar sees only what follows.  The marker, like the     *)
(* accepted drafts, can come anywhere in a block of several tokens.        *)
(*                                                                         *)
(* The grammar backend is external: a matcher that holds the tokens it has *)
(* accepted and allows what leads to a sentence.  So is the reasoning      *)
(* parser: it reports the end when the marker, a token of its own, is among *)
(* the tokens passed as the delta.                                         *)
(***************************************************************************)
EXTENDS Integers, Sequences, FiniteSets

CONSTANTS
  Tokens,      \* the vocabulary
  End,         \* the token of the reasoning-end marker
  Eos,         \* the token on which check_stop() stops
  Sentences,   \* what the grammar accepts, something, and each ending in Eos
  Modes,       \* the kinds of requests and engines to consider
  NumSpec,     \* drafts proposed per step
  MaxTokens,   \* max_tokens
  Preemptable  \* the modes whose request may be preempted with a step on the GPU

\* Modes:
\*   reasoner     a reasoning parser is configured
\*   in_reasoning enable_in_reasoning
\*   prompt_ends  the prompt already closes the reasoning
\*   mm           the request has images: no drafts of its own, padded steps
\*   async        drafts reach the scheduler only after schedule()
ModeType ==
  [reasoner : BOOLEAN, in_reasoning : BOOLEAN, prompt_ends : BOOLEAN, mm : BOOLEAN,
   async : BOOLEAN]

\* A row whose draft is not known yet.  Tokens are numbers from 0 on.
Placeholder == "-1"

ASSUME StructuredAssumption ==
  /\ End \in Tokens /\ Eos \in Tokens /\ End # Eos /\ Placeholder \notin Tokens
  /\ Sentences \subseteq Seq(Tokens) /\ Sentences # {}
  /\ \A w \in Sentences : w # <<>> /\ w[Len(w)] = Eos
  /\ Modes \subseteq ModeType
  /\ NumSpec \in Nat /\ MaxTokens \in Nat \ {0} /\ Preemptable \subseteq Modes

VARIABLES
  mode,    \* fixed at the start
  phase,   \* where the step is
  tokens,  \* the request's output tokens
  hist,    \* the tokens the grammar has accepted
  ended,   \* reasoning_ended: "none", "no" or "yes"
  end_at,  \* reasoning_end_token_index, counted from 1; 0 for None
  worker,  \* the drafts the worker holds
  spec,    \* scheduled_spec_decode_tokens
  rows,    \* the rows of the bitmask: sets of allowed tokens
  out,     \* the sampled block
  stale    \* the step's output belongs to a run before a preemption

vars == <<mode, phase, tokens, hist, ended, end_at, worker, spec, rows, out, stale>>

RangeOf(s) == {s[i] : i \in DOMAIN s}
Take(s, n) == SubSeq(s, 1, n)
Drop(s, n) == SubSeq(s, n + 1, Len(s))
IsPrefixOf(s, w) == Len(s) <= Len(w) /\ Take(w, Len(s)) = s
Longest(S) == CHOOSE n \in S : \A m \in S : m <= n

----------------------------------------------------------------------------
(* The grammar matcher and the reasoning parser.                           *)

Matches(h) == \E w \in Sentences : IsPrefixOf(h, w)
Terminated(h) == h \in Sentences
Allowed(h) == {t \in Tokens : Matches(Append(h, t))}

\* validate_tokens(): the prefix of s that the grammar accepts after h.
ValidTokens(h, s) == Take(s, Longest({n \in 0 .. Len(s) : Matches(h \o Take(s, n))}))

\* is_reasoning_end_streaming(): the marker lies in the delta.
EndsStreaming(delta) == End \in RangeOf(delta)

----------------------------------------------------------------------------
(* should_fill_bitmask() and should_advance().                             *)

Free == ~mode.reasoner \/ mode.in_reasoning

\* The first call looks at the prompt.
EndedAtFill == IF ended = "none" /\ ~Free THEN (IF mode.prompt_ends THEN "yes" ELSE "no") ELSE ended

ShouldFill(e) == Free \/ e = "yes"

\* Mutant: the index is that of the token after the marker.
FindEnd_PastWindow(all, start) ==
  LET Single == {i \in start .. Len(all) : EndsStreaming(<<all[i]>>)}
  IN  IF Single = {} THEN Len(all) ELSE 1 + CHOOSE i \in Single : \A j \in Single : i <= j

\* _find_reasoning_end_index: the first token from `start' on that ends the reasoning by
\* itself, else the last token.
FindEnd(all, start) ==
  LET Single == {i \in start .. Len(all) : EndsStreaming(<<all[i]>>)}
  IN  IF Single = {} THEN Len(all) ELSE CHOOSE i \in Single : \A j \in Single : i <= j

\* Mutant: the tokens of this step are not passed, so the window is the last token.
Window_LastToken(all, new) == Len(all)

\* The tokens that should_advance() searches: the new ones, else those from
\* num_computed_tokens - num_output_placeholders on.  That is taken to be the last token, which
\* it is for a decode with no other step in flight (README, section 6).
Window(all, new) == IF new # <<>> THEN Len(all) - Len(new) + 1 ELSE Len(all)

\* should_advance(): the reasoning is over, or ends in this window.
Notices(all, new) == ~Free /\ ended # "yes" /\ EndsStreaming(Drop(all, Window(all, new) - 1))
ShouldAdvance(all, new) == Free \/ ended = "yes" \/ Notices(all, new)
EndedAfter(all, new) == IF Notices(all, new) THEN "yes" ELSE ended
EndAtAfter(all, new) == IF Notices(all, new) THEN FindEnd(all, Window(all, new)) ELSE end_at

\* trim_reasoning_for_advance(): what follows the marker.
Trimmed(all, new, at) ==
  IF at = 0 \/ at <= Len(all) - Len(new) THEN new ELSE Drop(new, at - (Len(all) - Len(new)))

----------------------------------------------------------------------------
(* Drafts and schedule().                                                  *)

Drafts == [1 .. NumSpec -> Tokens]

Padding(n) == [i \in 1 .. n |-> Placeholder]

\* update_draft_token_ids(): what the request keeps of the worker's drafts.
Kept(d) == IF ShouldAdvance(tokens, <<>>) THEN ValidTokens(hist, d) ELSE d

\* update_draft_token_ids_in_output(): the same, padded to the rows already scheduled.
KeptInOutput(d) == Kept(d) \o Padding(Len(d) - Len(Kept(d)))

\* Sync: the drafts are taken over and schedule() sends as many as fit, or pads the
\* step of a request with images.  Async: schedule() has sent placeholders, which the
\* drafts of the worker replace.
Schedule ==
  /\ phase = "idle"
  /\ phase' = "scheduled"
  /\ IF tokens = <<>>
     THEN spec' = <<>> /\ UNCHANGED <<worker, ended, end_at>>
     ELSE \E d \in Drafts, n \in 0 .. NumSpec :
            /\ worker' = d
            /\ spec' = IF mode.async THEN KeptInOutput(Take(d, n))
                       ELSE IF mode.mm THEN Padding(NumSpec)
                       ELSE Take(Kept(d), IF n <= Len(Kept(d)) THEN n ELSE Len(Kept(d)))
            /\ IF mode.mm /\ ~mode.async
               THEN UNCHANGED <<ended, end_at>>
               ELSE /\ ended' = EndedAfter(tokens, <<>>)
                    /\ end_at' = EndAtAfter(tokens, <<>>)
  /\ UNCHANGED <<mode, tokens, hist, rows, out, stale>>

----------------------------------------------------------------------------
(* grammar_bitmask().                                                      *)

\* _fill_bitmasks(): one row.
MaskRow(h, apply) == IF apply /\ ~Terminated(h) THEN Allowed(h) ELSE Tokens

\* The loop over the drafts.  h: the matcher; apply: the rows are constrained; seen: the
\* reasoning ended at a draft of this window; bad: the assertion on a draft failed.
Walk ==
  LET e == EndedAtFill
      walk[i \in 0 .. Len(spec)] ==
        IF i = 0
        THEN [h |-> hist, apply |-> ShouldFill(e), seen |-> FALSE, bad |-> FALSE, rows |-> <<>>]
        ELSE
          LET w == walk[i - 1]
              t == spec[i]
              ends == ~ShouldFill(e) /\ ~w.apply /\ t # Placeholder /\ EndsStreaming(<<t>>)
              advance == w.apply /\ t # Placeholder /\ ~Terminated(w.h)
              takes == advance /\ Matches(Append(w.h, t))
          IN  [h |-> IF takes THEN Append(w.h, t) ELSE w.h,
               apply |-> (w.apply \/ ends) /\ t # Placeholder,
               seen |-> w.seen \/ ends,
               bad |-> w.bad \/ (advance /\ ~takes /\ ~w.seen),
               rows |-> Append(w.rows, MaskRow(w.h, w.apply))]
  IN  walk[Len(spec)]

\* Mutant: what was accepted while filling is not taken back.
Rollback_None(h) == h

\* grammar.rollback(): the tokens accepted while filling are taken back.
Rollback(h) == Take(h, Len(hist))

FillBitmask ==
  /\ phase = "scheduled"
  /\ phase' = IF Walk.bad THEN "crashed" ELSE "masked"
  /\ ended' = EndedAtFill
  /\ rows' = Append(Walk.rows, MaskRow(Walk.h, ShouldFill(EndedAtFill) \/ Walk.apply))
  /\ hist' = Rollback(Walk.h)
  /\ UNCHANGED <<mode, tokens, end_at, worker, spec, out, stale>>

----------------------------------------------------------------------------
(* The GPU, and a preemption meanwhile.                                    *)

\* Drafts are accepted as long as their rows allow them; then one token is sampled.
Sample ==
  /\ phase = "masked"
  /\ phase' = "sampled"
  /\ \E n \in 0 .. Len(spec) :
       /\ \A i \in 1 .. n : worker[i] \in rows[i]
       /\ \E t \in rows[n + 1] : out' = Append(Take(worker, n), t)
  /\ UNCHANGED <<mode, tokens, hist, ended, end_at, worker, spec, rows, stale>>

Preempt ==
  /\ mode \in Preemptable /\ phase = "sampled" /\ ~stale
  /\ stale' = TRUE
  /\ UNCHANGED <<mode, phase, tokens, hist, ended, end_at, worker, spec, rows, out>>

----------------------------------------------------------------------------
(* update_from_output().                                                   *)

\* _find_reasoning_end_offset: how many of the new tokens still belong to the
\* reasoning; all of them when no prefix of the block shows the marker.
ReasoningPart(new) ==
  LET Whole == {n \in 1 .. Len(new) : EndsStreaming(Take(new, n))}
  IN  IF Whole = {} THEN Len(new) ELSE CHOOSE n \in Whole : \A m \in Whole : n <= m

\* Mutant: nothing is filtered.
Filtered_Nothing(new) == new

\* filter_speculative_grammar_tokens: the part of an accepted block that is committed.
Filtered(new) ==
  LET start == IF Free \/ ended = "yes" THEN 0 ELSE ReasoningPart(new)
  IN  IF Len(new) < 2 \/ spec = <<>> \/ stale THEN new
      ELSE Take(new, start) \o ValidTokens(hist, Drop(new, start))

\* _update_request_with_output: up to the token that stops the request.
UpToStop(new) ==
  LET Stops == {n \in 1 .. Len(new) : new[n] = Eos \/ Len(tokens) + n >= MaxTokens}
  IN  IF Stops = {} THEN new ELSE Take(new, CHOOSE n \in Stops : \A m \in Stops : n <= m)

Stopped(all) == all # <<>> /\ (all[Len(all)] = Eos \/ Len(all) >= MaxTokens)

Commit ==
  /\ phase = "sampled"
  /\ LET new == UpToStop(Filtered(out))
         all == tokens \o new
         advances == new # <<>> /\ ShouldAdvance(all, new)
         answer == IF advances THEN Trimmed(all, new, EndAtAfter(all, new)) ELSE <<>>
     IN  /\ tokens' = all
         /\ ended' = IF new = <<>> THEN ended ELSE EndedAfter(all, new)
         /\ end_at' = IF new = <<>> THEN end_at ELSE EndAtAfter(all, new)
         /\ hist' = hist \o ValidTokens(hist, answer)
         /\ phase' = IF ValidTokens(hist, answer) # answer THEN "error"
                     ELSE IF Stopped(all) THEN "finished" ELSE "idle"
  /\ stale' = FALSE
  /\ worker' = <<>> /\ spec' = <<>> /\ rows' = <<>> /\ out' = <<>>
  /\ UNCHANGED mode

----------------------------------------------------------------------------
Init ==
  /\ mode \in Modes
  /\ phase = "idle"
  /\ tokens = <<>> /\ hist = <<>>
  /\ ended = "none" /\ end_at = 0
  /\ worker = <<>> /\ spec = <<>> /\ rows = <<>> /\ out = <<>>
  /\ stale = FALSE

Next == Schedule \/ FillBitmask \/ Sample \/ Preempt \/ Commit

Spec == Init /\ [][Next]_vars

----------------------------------------------------------------------------
(* What must hold.                                                         *)

TypeOK ==
  /\ mode \in Modes
  /\ phase \in {"idle", "scheduled", "masked", "sampled", "finished", "error", "crashed"}
  /\ tokens \in Seq(Tokens) /\ hist \in Seq(Tokens)
  /\ ended \in {"none", "no", "yes"} /\ end_at \in 0 .. Len(tokens)
  /\ worker \in Seq(Tokens) /\ spec \in Seq(Tokens \cup {Placeholder})
  /\ rows \in Seq(SUBSET Tokens) /\ out \in Seq(Tokens)
  /\ stale \in BOOLEAN

\* Where the answer begins, read off the committed tokens alone.
AnswerStart ==
  IF Free \/ mode.prompt_ends THEN 0
  ELSE LET Ends == {n \in 1 .. Len(tokens) : EndsStreaming(Take(tokens, n))}
       IN  IF Ends = {} THEN Len(tokens) ELSE CHOOSE n \in Ends : \A m \in Ends : n <= m

\* The grammar has accepted exactly the committed tokens that follow the reasoning:
\* filling the masks, filtering and trimming leave it neither ahead nor behind, wherever
\* in an accepted block the marker, a rejected draft or the end of the sentence fell.
GrammarFollowsAnswer ==
  phase \in {"idle", "finished"} => hist = Drop(tokens, AnswerStart)

\* No request is terminated because "grammar rejected tokens" (scheduler.py 2077), which
\* the log line calls unexpected, and no draft fails the assertion of grammar_bitmask().
GrammarNeverRejects == phase \notin {"error", "crashed"}

\* The end of the reasoning is noticed in the step that commits the marker, and not before.
EndNoticed ==
  phase = "idle" /\ tokens # <<>> /\ ~Free =>
    (ended = "yes" <=> mode.prompt_ends \/ EndsStreaming(tokens))
=============================================================================
