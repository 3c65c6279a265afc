--------------------------- MODULE EncoderInputs ---------------------------
(***************************************************************************)
(* Images of a prompt in patches/scheduler.py: which encoder inputs a step *)
(* computes (_try_schedule_encoder_inputs), how far the prefill may go     *)
(* without them, who refers to an entry of the encoder cache and when the  *)
(* entry may be thrown away (_free_encoder_inputs), while earlier steps    *)
(* are in flight and requests are preempted, resumed and aborted.          *)
(*                                                                         *)
(* The scheduler only counts: the embeddings are in the encoder cache of   *)
(* the worker, which learns with each step what to encode and what to drop.*)
(* A step of its batch then gathers the embeddings of its tokens, and one  *)
(* position ahead for the drafter.  EncoderCacheManager is external; its   *)
(* rules here are those the calls rely on.  Left out: encoder-decoder      *)
(* models, the EC connector, drafts (they come after the prompt).          *)
(***************************************************************************)
EXTENDS Integers, FiniteSets, SequencesExt

CONSTANTS
  Reqs,            \* requests, numbers: a smaller one has priority
  Hashes,          \* images, by mm_hash
  Size,            \* [Hashes -> Nat], tokens (and embeddings) of an image
  Features,        \* [Reqs -> Seq([start, hash])], mm_features by offset
  PromptLen,       \* [Reqs -> Nat]
  MaxTokens,       \* output tokens of a request
  Lookahead,       \* num_prefill_lookahead
  DisableChunked,  \* disable_chunked_mm_input
  Priority,        \* policy is PRIORITY
  MaxScheduled,    \* max_num_scheduled_tokens
  ComputeBudget,   \* max_num_encoder_input_tokens
  CacheSize,       \* encoder_cache_size
  Hits,            \* lengths of prefix cache hits
  MaxInFlight,     \* steps dispatched and not yet answered
  Abortable,       \* requests whose client may disconnect
  MaxShort         \* bound on how often the KV pool is short

ASSUME EncoderAssumption ==
  /\ Reqs \subseteq Nat /\ Size \in [Hashes -> Nat \ {0}]
  /\ PromptLen \in [Reqs -> Nat \ {0}] /\ MaxTokens \in Nat \ {0}
  /\ \A r \in Reqs : \A i \in DOMAIN Features[r] :
       LET f == Features[r][i]
       IN  /\ f.hash \in Hashes /\ f.start \in Nat /\ f.start + Size[f.hash] <= PromptLen[r]
           /\ i > 1 => Features[r][i - 1].start + Size[Features[r][i - 1].hash] <= f.start
  /\ Lookahead \in Nat /\ DisableChunked \in BOOLEAN /\ Priority \in BOOLEAN
  /\ MaxScheduled \in Nat \ {0} /\ Hits \subseteq Nat /\ MaxInFlight \in Nat \ {0}
  /\ MaxShort \in Nat /\ Abortable \subseteq Reqs
  /\ \A h \in Hashes : Size[h] <= ComputeBudget /\ Size[h] <= CacheSize

VARIABLES
  pc,        \* "idle", or the part of schedule() that runs
  req,       \* status, number of tokens and computed tokens of each request
  running,   \* Scheduler.running
  waiting,   \* Scheduler.waiting
  cache,     \* encoder_cache_manager
  step,      \* the step that schedule() is building
  batches,   \* steps dispatched and not yet answered, oldest first
  worker,    \* images in the worker's cache, after the steps dispatched
  short      \* times the KV pool was short

vars == <<pc, req, running, waiting, cache, step, batches, worker, short>>

Least(a, b) == IF a < b THEN a ELSE b
Most(a, b)  == IF a < b THEN b ELSE a

----------------------------------------------------------------------------
(* The encoder cache manager: images held, the requests that refer to      *)
(* each, the ones nobody refers to, oldest first, and those thrown out     *)
(* since the last step (free_encoder_mm_hashes).                           *)

EmptyCache == [held |-> {}, refs |-> [h \in Hashes |-> {}], idle |-> <<>>, freed |-> {}]

TokensIn(S) == MapThenSumSet(LAMBDA h : Size[h], S)
FreeSlots(c) == CacheSize - TokensIn(c.held)
FreeableSlots(c) == FreeSlots(c) + TokensIn(ToSet(c.idle))

\* Mutant: an idle image that is referred to again may still be thrown out.
Referenced_StaysIdle(c, r, h) == [c EXCEPT !.refs[h] = @ \cup {r}]
\* check_and_update_cache, for an image that is held.
Referenced(c, r, h) ==
  [c EXCEPT !.refs[h] = @ \cup {r}, !.idle = Remove(@, h)]

\* free_encoder_input, for each image in S.
Released(c, r, S) ==
  LET last == {h \in S : c.refs[h] = {r}}
  IN  [c EXCEPT !.refs = [h \in Hashes |-> IF h \in S THEN @[h] \ {r} ELSE @[h]],
                !.idle = @ \o SetToSeq(last)]

\* free
ReleasedAll(c, r) == Released(c, r, {h \in Hashes : r \in c.refs[h]})

\* can_allocate: `pending' tokens are already promised to the request.
CanAllocate(c, h, compute, pending) ==
  Size[h] <= compute /\ pending + Size[h] <= FreeableSlots(c)

\* Mutant: the worker is not told.
MadeRoom_Untold(c, need) ==
  LET Evict(d, h) == IF FreeSlots(d) >= need THEN d
                     ELSE [d EXCEPT !.held = @ \ {h}, !.idle = Tail(@)]
  IN  FoldLeft(Evict, c, c.idle)
\* ... which throws the oldest idle images out until there is room.
MadeRoom(c, need) ==
  LET Evict(d, h) == IF FreeSlots(d) >= need THEN d
                     ELSE [d EXCEPT !.held = @ \ {h}, !.idle = Tail(@), !.freed = @ \cup {h}]
  IN  FoldLeft(Evict, c, c.idle)

\* allocate
Allocated(c, r, S) ==
  [c EXCEPT !.held = @ \cup S,
            !.refs = [h \in Hashes |-> IF h \in S THEN @[h] \cup {r} ELSE @[h]]]

----------------------------------------------------------------------------
(* _try_schedule_encoder_inputs.                                           *)

ImageEnd(f) == f.start + Size[f.hash]

\* get_mm_features_in_window
InWindow(r, from, to) ==
  SelectSeq(Features[r], LAMBDA f : f.start < to /\ ImageEnd(f) > from)

\* Tokens before image f that need no embedding of it, the look-ahead included.
UpTo(f, computed) == f.start - (computed + Lookahead)

\* Image f of request r that computes n tokens after `computed': the plan p goes on.
Considered(p, f, r, computed) ==
  LET pending == TokensIn(p.take)
  IN  CASE p.stop \/ f.hash \in p.take -> p
        [] f.hash \in p.cache.held     -> [p EXCEPT !.cache = Referenced(@, r, f.hash)]
        [] OTHER ->
             IF \/ DisableChunked /\ computed < f.start /\ computed + p.n < ImageEnd(f)
                \/ ~CanAllocate(p.cache, f.hash, p.compute, pending)
             THEN [p EXCEPT !.n = Most(0, UpTo(f, computed)), !.stop = TRUE]
             ELSE [p EXCEPT !.take = @ \cup {f.hash}, !.compute = @ - Size[f.hash],
                            !.cache = MadeRoom(@, pending + Size[f.hash])]

\* _reserve_prefill_lookahead
Reserved(r, computed, n) ==
  LET remaining == req[r].tokens - computed - n
  IN  Most(0, IF 0 < remaining /\ remaining < Lookahead THEN n - (Lookahead - remaining) ELSE n)

\* Mutant: the window ends with the tokens of the step.
WindowEnd_NoShift(computed, n) == computed + n
WindowEnd(computed, n) == computed + n + Lookahead

\* The plan for r: tokens, images to encode, what is left of the encoder budget, the cache.
Plan(r, computed) ==
  LET n == Least(req[r].tokens - computed, step.budget)
      start == [n |-> n, take |-> {}, compute |-> step.compute, cache |-> cache, stop |-> FALSE]
      plan == IF n = 0 THEN start
              ELSE FoldLeft(LAMBDA p, f : Considered(p, f, r, computed), start,
                            InWindow(r, computed, WindowEnd(computed, n)))
  IN  [plan EXCEPT !.n = Reserved(r, computed, @)]

----------------------------------------------------------------------------
(* schedule().                                                             *)

NoRow == [base |-> 0, n |-> 0]
NoPlan == [r |-> 0, n |-> 0, take |-> {}, compute |-> 0]
NoStep == [budget |-> 0, compute |-> 0, index |-> 1, row |-> [r \in Reqs |-> NoRow],
           take |-> [r \in Reqs |-> {}], plan |-> NoPlan, preempted |-> FALSE]

Live(r) == req[r].status \notin {"absent", "finished"}
InFlight(r) == \E i \in DOMAIN batches : batches[i].row[r] # NoRow

\* The waiting queue under PRIORITY is ordered, and a preempted request comes first otherwise.
ByPriority(S) == SetToSortSeq(S, LAMBDA a, b : a < b)
Requeued(r) == IF Priority THEN ByPriority(ToSet(waiting) \cup {r}) ELSE <<r>> \o waiting

\* add_request
AddRequest(r) ==
  /\ pc = "idle" /\ req[r].status = "absent"
  /\ req' = [req EXCEPT ![r].status = "waiting"]
  /\ waiting' = IF Priority THEN ByPriority(ToSet(waiting) \cup {r}) ELSE Append(waiting, r)
  /\ UNCHANGED <<pc, running, cache, step, batches, worker, short>>

BeginSchedule ==
  /\ pc = "idle" /\ Len(batches) < MaxInFlight /\ \E r \in Reqs : Live(r)
  /\ step' = [NoStep EXCEPT !.budget = MaxScheduled, !.compute = ComputeBudget]
  /\ pc' = "running"
  /\ UNCHANGED <<req, running, waiting, cache, batches, worker, short>>

\* The next running request: images that are held are referred to, even if no token is left.
PlanRunning ==
  /\ pc = "running" /\ step.index <= Len(running) /\ step.budget > 0
  /\ LET r == running[step.index]
         p == Plan(r, req[r].computed)
     IN  /\ cache' = p.cache
         /\ IF p.n = 0 THEN pc' = pc /\ step' = [step EXCEPT !.index = @ + 1]
            ELSE /\ pc' = "alloc"
                 /\ step' = [step EXCEPT !.plan =
                               [r |-> r, n |-> p.n, take |-> p.take, compute |-> p.compute]]
  /\ UNCHANGED <<req, running, waiting, batches, worker, short>>

\* A row of the step: its images get their place in the cache.
WithRow(r, n, base, take, compute) ==
  [step EXCEPT !.row[r] = [base |-> base, n |-> n], !.take[r] = take, !.budget = @ - n,
               !.compute = IF take = {} THEN @ ELSE compute, !.index = @ + 1,
               !.plan = NoPlan]

ScheduleRunning ==
  LET p == step.plan
  IN  /\ pc = "alloc" /\ pc' = "running"
      /\ step' = WithRow(p.r, p.n, req[p.r].computed, p.take, p.compute)
      /\ cache' = Allocated(cache, p.r, p.take)
      /\ UNCHANGED <<req, running, waiting, batches, worker, short>>

\* What the step is without a victim that it has already scheduled: its tokens and its
\* encoder budget come back.
StepWithout(r) ==
  [step EXCEPT !.row[r] = NoRow, !.take[r] = {}, !.budget = @ + step.row[r].n,
               !.compute = @ + TokensIn(step.take[r])]

\* allocate_slots() has no blocks: the last running request, or the one of least priority.
PreemptVictim ==
  LET victim == IF Priority THEN CHOOSE r \in ToSet(running) : \A q \in ToSet(running) : q <= r
                            ELSE Last(running)
      Without == IF step.row[victim] # NoRow THEN StepWithout(victim) ELSE step
      earlier == \E i \in 1 .. step.index - 1 : running[i] = victim
  IN  /\ pc = "alloc" /\ short < MaxShort /\ short' = short + 1
      /\ running' = Remove(running, victim) /\ waiting' = Requeued(victim)
      /\ req' = [req EXCEPT ![victim].status = "preempted", ![victim].computed = 0]
      /\ cache' = ReleasedAll(cache, victim)
      /\ step' = [Without EXCEPT !.preempted = TRUE, !.index = IF earlier THEN @ - 1 ELSE @]
      /\ pc' = IF victim = step.plan.r THEN "finish" ELSE "alloc"
      /\ UNCHANGED <<batches, worker>>

EndRunning ==
  /\ pc = "running" /\ (step.index > Len(running) \/ step.budget = 0)
  /\ pc' = IF step.preempted THEN "finish" ELSE "waiting"
  /\ UNCHANGED <<req, running, waiting, cache, step, batches, worker, short>>

\* Requests whose output of an earlier run is outstanding are passed over.
Candidates == SelectSeq(waiting, LAMBDA r : ~InFlight(r))

\* The next waiting request, with a prefix cache hit: no token can be scheduled, or the
\* KV pool is short, and then the waiting pass ends; or the request is admitted.
TryAdmit ==
  /\ pc = "waiting" /\ Candidates # <<>> /\ step.budget > 0
  /\ LET r == Head(Candidates)
     IN  \E hit \in {0} \cup {h \in Hits : h < req[r].tokens} :
           LET p == Plan(r, hit)
           IN  \/ /\ p.n = 0
                  /\ cache' = p.cache /\ pc' = "finish"
                  /\ UNCHANGED <<req, running, waiting, step, short>>
               \/ /\ p.n > 0 /\ short < MaxShort /\ short' = short + 1
                  /\ cache' = ReleasedAll(p.cache, r) /\ pc' = "finish"
                  /\ UNCHANGED <<req, running, waiting, step>>
               \/ /\ p.n > 0
                  /\ cache' = Allocated(p.cache, r, p.take)
                  /\ step' = WithRow(r, p.n, hit, p.take, p.compute)
                  /\ req' = [req EXCEPT ![r].status = "running", ![r].computed = hit]
                  /\ running' = Append(running, r) /\ waiting' = Remove(waiting, r)
                  /\ UNCHANGED <<pc, short>>
  /\ UNCHANGED <<batches, worker>>

EndWaiting ==
  /\ pc = "waiting" /\ (Candidates = <<>> \/ step.budget = 0)
  /\ pc' = "finish"
  /\ UNCHANGED <<req, running, waiting, cache, step, batches, worker, short>>

\* The worker drops what was thrown out, then encodes, in the order of the steps
\* (finish_requests and prepare_inputs_embeds).
WorkerCache(dropped, encoded) == (worker \ dropped) \cup encoded

\* The end of schedule() and _update_after_schedule; get_freed_mm_hashes hands out once.
FinishStep ==
  /\ pc = "finish" /\ pc' = "idle"
  /\ req' = [r \in Reqs |-> [req[r] EXCEPT !.computed = @ + step.row[r].n]]
  /\ batches' = Append(batches, [row |-> step.row])
  /\ worker' = WorkerCache(cache.freed, UNION {step.take[r] : r \in Reqs})
  /\ cache' = [cache EXCEPT !.freed = {}] /\ step' = NoStep
  /\ UNCHANGED <<running, waiting, short>>

----------------------------------------------------------------------------
(* update_from_output(), for the oldest step, and aborts.                  *)

\* Mutant: one position too late.
Passed_Strict(f, computed) == ImageEnd(f) + Lookahead < computed
\* _free_encoder_inputs: image f is behind the computed tokens and the look-ahead.  The code
\* takes planned output off first; here a decode waits for its token, so that none is planned
\* (README, section 6).
Passed(f, computed) == ImageEnd(f) + Lookahead <= computed

\* The images that r may let go.
PassedBy(r) ==
  {h \in Hashes : \E i \in DOMAIN Features[r] :
     Features[r][i].hash = h /\ Passed(Features[r][i], req[r].computed)}

\* The row of the step reached the end of the tokens, so that one was sampled.
Sampled(b, r) == b.row[r] # NoRow /\ b.row[r].base + b.row[r].n >= req[r].tokens

Finishing(b) == {r \in Reqs : Live(r) /\ Sampled(b, r) /\ req[r].tokens + 1 = PromptLen[r] + MaxTokens}

Update ==
  LET b == Head(batches)
      rows == {r \in Reqs : Live(r) /\ b.row[r] # NoRow}
      \* Images that are passed, and all those of a request that stops.
      Freed == FoldFunction(
                 LAMBDA r, c : IF r \in Finishing(b) THEN ReleasedAll(c, r)
                               ELSE Released(c, r, {h \in PassedBy(r) : r \in c.refs[h]}),
                 cache, [r \in rows |-> r])
  IN  /\ pc = "idle" /\ batches # <<>> /\ batches' = Tail(batches)
      /\ cache' = Freed
      /\ req' = [r \in Reqs |->
                   IF r \in Finishing(b) THEN [req[r] EXCEPT !.status = "finished"]
                   ELSE IF r \in rows /\ Sampled(b, r) THEN [req[r] EXCEPT !.tokens = @ + 1]
                   ELSE req[r]]
      /\ running' = SelectSeq(running, LAMBDA r : r \notin Finishing(b))
      /\ waiting' = SelectSeq(waiting, LAMBDA r : r \notin Finishing(b))
      /\ UNCHANGED <<pc, step, worker, short>>

\* finish_requests
Abort(r) ==
  /\ pc = "idle" /\ r \in Abortable /\ Live(r)
  /\ req' = [req EXCEPT ![r].status = "finished"] /\ cache' = ReleasedAll(cache, r)
  /\ running' = Remove(running, r) /\ waiting' = Remove(waiting, r)
  /\ UNCHANGED <<pc, step, batches, worker, short>>

----------------------------------------------------------------------------
Init ==
  /\ pc = "idle" /\ running = <<>> /\ waiting = <<>>
  /\ req = [r \in Reqs |-> [status |-> "absent", tokens |-> PromptLen[r], computed |-> 0]]
  /\ cache = EmptyCache /\ step = NoStep /\ batches = <<>> /\ worker = {} /\ short = 0

Engine == \/ BeginSchedule \/ PlanRunning \/ ScheduleRunning \/ PreemptVictim \/ EndRunning
          \/ TryAdmit \/ EndWaiting \/ FinishStep \/ Update

Next == Engine \/ \E r \in Reqs : AddRequest(r) \/ Abort(r)

Spec == Init /\ [][Next]_vars

\* The engine goes on; clients owe nothing.
LiveSpec == Spec /\ WF_vars(Engine)

----------------------------------------------------------------------------
(* Properties.                                                             *)

TypeOK ==
  /\ pc \in {"idle", "running", "alloc", "waiting", "finish"}
  /\ req \in [Reqs -> [status : {"absent", "waiting", "running", "preempted", "finished"},
                       tokens : Nat, computed : Nat]]
  /\ running \in Seq(Reqs) /\ waiting \in Seq(Reqs)
  /\ cache.held \subseteq Hashes /\ cache.refs \in [Hashes -> SUBSET Reqs]
  /\ ToSet(cache.idle) = {h \in cache.held : cache.refs[h] = {}} /\ cache.freed \subseteq Hashes
  /\ \A h \in Hashes \ cache.held : cache.refs[h] = {}
  /\ FreeSlots(cache) >= 0 /\ step.budget >= 0 /\ step.compute >= 0
  /\ worker \subseteq Hashes /\ short \in 0 .. MaxShort

\* The drafter reads one position ahead of the target (gather_mm_embeddings).
GatherAhead == Least(1, Lookahead)

\* Images whose embeddings the worker gathers for a row.
Gathered(r, row) ==
  IF row = NoRow THEN {}
  ELSE {f.hash : f \in ToSet(InWindow(r, row.base, row.base + row.n + GatherAhead))}

\* When the worker runs a step, the embeddings of all its tokens, and of the one the
\* drafter reads ahead, are in its cache: what the scheduler counts as held has been
\* encoded, and nothing is dropped while a step still to run needs it.
EmbedsPresent ==
  batches # <<>> => \A r \in Reqs : Gathered(r, Last(batches).row[r]) \subseteq worker

\* The images in the worker's memory never exceed the cache the scheduler accounts for,
\* though it hears of each eviction one step late.
WorkerFits == TokensIn(worker) <= CacheSize

\* Every request gets through its images: no two of them wait for each other's place in
\* the cache, and none for its own.
EveryPrefillEnds == \A r \in Reqs : Live(r) ~> req[r].status = "finished"
=============================================================================
