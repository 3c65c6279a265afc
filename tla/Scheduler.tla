----------------------------- MODULE Scheduler -----------------------------
(***************************************************************************)
(* The engine-core scheduler (patches/scheduler.py) and the part of the    *)
(* model runner that answers it: schedule(), _preempt_request(),           *)
(* _update_after_schedule(), update_from_output(),                         *)
(* update_draft_token_ids(), add_request(), finish_requests() and          *)
(* reset_prefix_cache().                                                   *)
(*                                                                         *)
(* schedule() and update_from_output() are loops over requests.  Each      *)
(* iteration is an action; `pc' says which loop is running, and the        *)
(* actions of the other entry points need pc = "idle", because all of them *)
(* run on the one engine-core thread.  What does overlap is execution: up  *)
(* to MaxInFlight batches are on the GPU while the scheduler goes on.      *)
(*                                                                         *)
(* Tokens are counted, never named.  A request's KV blocks are counted     *)
(* too: which block goes where is the subject of DeferredFree.             *)
(***************************************************************************)
EXTENDS Integers, Sequences, FiniteSets, Sums

CONSTANTS
  Reqs,             \* the requests that clients may send
  MMReqs,           \* those with images (has_encoder_inputs)
  StructReqs,       \* those with a grammar (use_structured_output)
  PromptLen,        \* [Reqs -> Nat], num_prompt_tokens
  MaxTokens,        \* [Reqs -> Nat], max_tokens
  Rank,             \* [Reqs -> Nat], the order of (priority, arrival_time)
  Priority,         \* SchedulingPolicy.PRIORITY, else FCFS
  Async,            \* async scheduling: drafts stay on the worker
  NumSpec,          \* num_spec_tokens: drafts proposed per request and step
  MaxModelLen,      \* max_model_len
  MaxScheduled,     \* max_num_scheduled_tokens
  MaxBatched,       \* max_num_batched_tokens
  DraftSlots,       \* max_num_new_slots_for_drafting
  MaxRunning,       \* max_num_running_reqs
  LongPrefill,      \* long_prefill_token_threshold, 0 when off
  PrefillLookahead, \* num_prefill_lookahead
  Lookahead,        \* num_lookahead_tokens
  BlockSize,        \* tokens in a KV block
  NumBlocks,        \* KV blocks in the pool
  PPSize,           \* pipeline stages
  MaxInFlight,      \* batches dispatched and not yet answered
  Hits,             \* lengths a prefix-cache lookup may answer
  DropStale,        \* requires_kv_delivery of the KV connector
  Abortable,        \* requests whose client may disconnect
  MaxResets,        \* bound on the calls of reset_prefix_cache
  PauseStates       \* the pause states the engine uses

ASSUME RequestAssumption ==
  /\ MMReqs \subseteq Reqs /\ StructReqs \subseteq Reqs /\ Abortable \subseteq Reqs
  /\ PromptLen \in [Reqs -> Nat \ {0}] /\ MaxTokens \in [Reqs -> Nat \ {0}]
  /\ Rank \in [Reqs -> Nat]
  /\ \A r1, r2 \in Reqs : Rank[r1] = Rank[r2] => r1 = r2
  /\ \A r \in Reqs : PromptLen[r] < MaxModelLen

ASSUME ConfigAssumption ==
  /\ Priority \in BOOLEAN /\ Async \in BOOLEAN /\ DropStale \in BOOLEAN
  /\ NumSpec \in Nat /\ MaxModelLen \in Nat /\ LongPrefill \in Nat
  /\ MaxScheduled \in Nat \ {0} /\ MaxBatched \in Nat \ {0} /\ DraftSlots \in Nat
  /\ MaxRunning \in Nat \ {0} /\ PrefillLookahead \in Nat /\ Lookahead \in Nat
  /\ BlockSize \in Nat \ {0} /\ NumBlocks \in Nat /\ PPSize \in Nat \ {0}
  /\ MaxInFlight \in Nat \ {0} /\ Hits \subseteq Nat /\ MaxResets \in Nat
  /\ PauseStates \subseteq {"UNPAUSED", "PAUSED_NEW", "PAUSED_ALL"}
  /\ "UNPAUSED" \in PauseStates

VARIABLES
  pc,       \* "idle", a loop of schedule(), of update_from_output() or of a reset
  req,      \* the Request objects
  running,  \* Scheduler.running
  waiting,  \* Scheduler.waiting, head first
  skipped,  \* Scheduler.skipped_waiting, head first
  step,     \* the locals of the schedule() call in progress
  batches,  \* batches on the GPU, oldest first
  todo,     \* requests of Head(batches) that update_from_output() has not reached
  drafts,   \* requests whose drafts the worker holds, not yet handed over
  free,     \* free KV blocks
  pause,    \* _pause_state
  resets    \* calls of reset_prefix_cache so far

vars == <<pc, req, running, waiting, skipped, step, batches, todo, drafts,
          free, pause, resets>>

----------------------------------------------------------------------------
(* Arithmetic and queues.                                                  *)

Least(a, b) == IF a < b THEN a ELSE b
Most(a, b)  == IF a < b THEN b ELSE a
CeilDiv(a, b) == (a + b - 1) \div b

RemoveIndex(q, i) ==
  [j \in 1 .. Len(q) - 1 |-> IF j < i THEN q[j] ELSE q[j + 1]]

IndexOf(q, r) == CHOOSE i \in DOMAIN q : q[i] = r

Without(q, r) ==
  IF \E i \in DOMAIN q : q[i] = r THEN RemoveIndex(q, IndexOf(q, r)) ELSE q

InsertAt(q, i, r) ==
  [j \in 1 .. Len(q) + 1 |->
     IF j < i THEN q[j] ELSE IF j = i THEN r ELSE q[j - 1]]

\* A PRIORITY queue hands out its smallest request first, whichever end it entered.
ByRank(q, r) == InsertAt(q, 1 + Cardinality({i \in DOMAIN q : Rank[q[i]] < Rank[r]}), r)

AddRequestTo(q, r) == IF Priority THEN ByRank(q, r) ELSE Append(q, r)
PrependTo(q, r)    == IF Priority THEN ByRank(q, r) ELSE <<r>> \o q

----------------------------------------------------------------------------
(* Requests, steps and batches.                                            *)

Statuses == {"ABSENT", "WAITING", "RUNNING", "PREEMPTED", "FINISHED"}

RequestType ==
  [status : Statuses,
   num_tokens : Nat,          \* prompt and committed output
   num_computed : Int,        \* num_computed_tokens, drafts in flight included
   in_flight : Int,           \* num_in_flight_tokens
   stale : Int,               \* num_stale_output_tokens
   drop : BOOLEAN,            \* drop_stale_output
   placeholders : Int,        \* num_output_placeholders
   spec : Nat,                \* len(spec_token_ids)
   is_chunk : BOOLEAN,        \* is_prefill_chunk
   cooldown : Nat,            \* next_decode_eligible_step - current_step, if positive
   blocks : Nat,              \* KV blocks held
   runner : Int]              \* the worker's own num_computed_tokens

Blank(status, tokens) ==
  [status |-> status, num_tokens |-> tokens, num_computed |-> 0, in_flight |-> 0,
   stale |-> 0, drop |-> FALSE, placeholders |-> 0, spec |-> 0, is_chunk |-> FALSE,
   cooldown |-> 0, blocks |-> 0, runner |-> 0]

Live(r) == req[r].status \in {"WAITING", "RUNNING", "PREEMPTED"}

NoTokens == [r \in Reqs |-> 0]

StepType ==
  [idx : Nat \ {0},           \* req_index + 1
   tokens : Int,              \* token_budget
   input : Int,               \* input_budget
   n : [Reqs -> Int],         \* num_scheduled_tokens, 0 when not scheduled
   spec : [Reqs -> Int],      \* drafts scheduled, scheduled_spec_decode_tokens
   fresh : SUBSET Reqs,       \* scheduled_new_reqs and scheduled_resumed_reqs
   preempted : BOOLEAN,       \* preempted_reqs is not empty
   prefill : BOOLEAN,         \* prefill_scheduled
   skip : Seq(Reqs),          \* step_skipped_waiting
   want : Int,                \* num_new_tokens while allocate_slots is retried
   pad : BOOLEAN]             \* _mm_decode_pad

NewStep(tokens, input) ==
  [idx |-> 1, tokens |-> tokens, input |-> input, n |-> NoTokens, spec |-> NoTokens,
   fresh |-> {}, preempted |-> FALSE, prefill |-> FALSE, skip |-> <<>>,
   want |-> 0, pad |-> FALSE]

NoStep == NewStep(0, 0)

\* `old' is history: the requests preempted after the batch was scheduled.
BatchType ==
  [n : [Reqs -> Int], spec : [Reqs -> Int], fresh : SUBSET Reqs,
   start : [Reqs -> Int], samples : SUBSET Reqs, old : SUBSET Reqs]

ScheduledIn(b) == {r \in Reqs : b.n[r] > 0}

----------------------------------------------------------------------------
(* The KV cache manager, as the scheduler uses it.                         *)

Need(r, upto) == Most(0, CeilDiv(Least(upto, MaxModelLen), BlockSize) - req[r].blocks)

\* Lookahead slots: the pass over `running' asks for them when a row may be a draft.
LookaheadFor(r, pad) == IF r \notin MMReqs \/ pad THEN Lookahead ELSE 0

----------------------------------------------------------------------------
(* Preemption.                                                             *)

\* Mutant: the block count survives the preemption.
PreemptedReq_KeepsBlocks(q, drop) ==
  [q EXCEPT !.status = "PREEMPTED", !.num_computed = 0, !.spec = 0,
            !.drop = drop \/ (q.drop /\ q.stale > 0),
            !.stale = q.in_flight, !.placeholders = 0]

\* Mutant: a second preemption adds all that is in flight to what was stale before.
PreemptedReq_AddsStale(q, drop) ==
  [q EXCEPT !.status = "PREEMPTED", !.num_computed = 0, !.spec = 0,
            !.drop = drop \/ (q.drop /\ q.stale > 0),
            !.stale = @ + q.in_flight, !.placeholders = 0, !.blocks = 0]

PreemptedReq(q, drop) ==
  [q EXCEPT !.status = "PREEMPTED", !.num_computed = 0, !.spec = 0,
            !.drop = drop \/ (q.drop /\ q.stale > 0),
            !.stale = q.in_flight, !.placeholders = 0, !.blocks = 0]

MarkOld(r) ==
  [i \in DOMAIN batches |->
     IF r \in ScheduledIn(batches[i])
     THEN [batches[i] EXCEPT !.old = @ \cup {r}] ELSE batches[i]]

\* _preempt_request(r): r has been taken off `running' by the caller.
Preempt(r, drop) ==
  /\ req' = [req EXCEPT ![r] = PreemptedReq(@, drop)]
  /\ waiting' = PrependTo(waiting, r)
  /\ free' = free + req[r].blocks
  /\ batches' = MarkOld(r)

----------------------------------------------------------------------------
(* schedule(): the pass over `running'.                                    *)

\* schedule() is entered; current_step advances, so cooldowns shrink.  The engine
\* hands the drafts of the last batch over (post_step) before it schedules again.
BeginStep ==
  /\ pc = "idle" /\ Len(batches) < MaxInFlight /\ drafts = {}
  /\ pc' = "running"
  /\ step' = NewStep(IF pause = "PAUSED_ALL" THEN 0 ELSE MaxScheduled, MaxBatched)
  /\ req' = [r \in Reqs |-> [req[r] EXCEPT !.cooldown = Most(0, @ - 1)]]
  /\ UNCHANGED <<running, waiting, skipped, batches, todo, drafts, free, pause, resets>>

InRunningPass == step.idx <= Len(running) /\ step.tokens > 0 /\ step.input > DraftSlots

\* Every token up to max_tokens is already in flight, even if all drafts fail.
OutputPlanned(q, r) ==
  /\ q.placeholders > 0
  /\ q.num_computed + 2 - q.placeholders >= PromptLen[r] + MaxTokens[r]

\* Transition repair: the rows would be exactly the drafts, so add the bonus row.
RepairedTokens(q, r) ==
  LET new == q.num_tokens + q.spec + q.placeholders - q.num_computed
  IN  IF /\ q.spec > 0 /\ r \notin MMReqs /\ new = q.spec
         /\ q.num_tokens + q.placeholders = q.num_computed
      THEN new + 1 ELSE new

LimitChunk(n) == IF LongPrefill > 0 THEN Least(n, LongPrefill) ELSE n

\* Mutant: the clip to max_model_len is missing.
ClippedTokens_AnyPosition(q, r) ==
  Least(LimitChunk(RepairedTokens(q, r)), Least(step.tokens, step.input - DraftSlots))

\* Mutant: the input budget is forgotten.
ClippedTokens_NoInputBudget(q, r) ==
  Least(Least(LimitChunk(RepairedTokens(q, r)), step.tokens),
        MaxModelLen - q.num_computed - 1)

\* The budgets, then "the input position does not exceed the max model len".
ClippedTokens(q, r) ==
  Least(Least(LimitChunk(RepairedTokens(q, r)),
              Least(step.tokens, step.input - DraftSlots)),
        MaxModelLen - q.num_computed - 1)

\* _try_schedule_encoder_inputs may stop a chunk short of an image of the prompt
\* that the encoder budget or cache has no room for.
EncoderLimited(r, computed, n) ==
  IF r \in MMReqs /\ n > 0 /\ computed < PromptLen[r] THEN 0 .. n ELSE {n}

\* _reserve_prefill_lookahead
ReserveLookahead(q, computed, n) ==
  LET remaining == q.num_tokens - computed - n
  IN  Most(0, IF 0 < remaining /\ remaining < PrefillLookahead
              THEN n - (PrefillLookahead - remaining) ELSE n)

MMDecodePad(q, r, n) == r \in MMReqs /\ ~q.is_chunk /\ n = 1 /\ NumSpec > 0

NotThisStep(q, r) == OutputPlanned(q, r) \/ q.cooldown > 0

SkipRunning ==
  /\ pc = "running" /\ InRunningPass
  /\ NotThisStep(req[running[step.idx]], running[step.idx])
  /\ step' = [step EXCEPT !.idx = @ + 1]
  /\ UNCHANGED <<pc, req, running, waiting, skipped, batches, todo, drafts, free,
                 pause, resets>>

\* Settle num_new_tokens; 0 moves on to the next request, anything else to allocation.
PickRunning ==
  /\ pc = "running" /\ InRunningPass
  /\ LET r == running[step.idx]
         q == req[r]
     IN  /\ ~NotThisStep(q, r)
         /\ \E m \in EncoderLimited(r, q.num_computed, ClippedTokens(q, r)) :
              LET n == ReserveLookahead(q, q.num_computed, m)
                  pad == MMDecodePad(q, r, n)
              IN  IF n = 0
                  THEN /\ step' = [step EXCEPT !.idx = @ + 1]
                       /\ UNCHANGED pc
                  ELSE /\ step' = [step EXCEPT !.want = IF pad THEN 1 + NumSpec ELSE n,
                                               !.pad = pad]
                       /\ pc' = "alloc"
  /\ UNCHANGED <<req, running, waiting, skipped, batches, todo, drafts, free, pause, resets>>

\* Mutant: blocks for the lookahead slots only.
Missing_LookaheadOnly(r) == Need(r, req[r].num_computed + LookaheadFor(r, step.pad))

Missing(r) == Need(r, req[r].num_computed + step.want + LookaheadFor(r, step.pad))

\* Mutant: drafts are not trimmed to the rows that were scheduled.
DraftsScheduled_Untrimmed(q) ==
  IF q.spec > 0 THEN q.spec ELSE IF step.pad THEN NumSpec ELSE 0

\* Drafts sent along: those the scheduled rows reach, or -1 placeholders of the mm pad.
DraftsScheduled(q) ==
  LET rows == step.want + q.num_computed - q.num_tokens - q.placeholders
  IN  IF q.spec > 0 /\ rows > 0 THEN Least(q.spec, rows)
      ELSE IF step.pad THEN NumSpec ELSE 0

\* allocate_slots gave it the blocks, and its drafts go with the step.
Granted(q, blocks) == [q EXCEPT !.blocks = @ + blocks, !.spec = 0]

ScheduleRunning ==
  /\ pc = "alloc"
  /\ LET r == running[step.idx]
     IN  /\ Missing(r) <= free
         /\ free' = free - Missing(r)
         /\ req' = [req EXCEPT ![r] = Granted(@, Missing(r))]
         /\ step' = [step EXCEPT !.idx = @ + 1, !.want = 0, !.pad = FALSE,
                                 !.n = [@ EXCEPT ![r] = step.want],
                                 !.spec = [@ EXCEPT ![r] = DraftsScheduled(req[r])],
                                 !.tokens = @ - step.want,
                                 !.input = @ - step.want - DraftSlots,
                                 !.prefill = @ \/ req[r].is_chunk]
  /\ pc' = "running"
  /\ UNCHANGED <<running, waiting, skipped, batches, todo, drafts, pause, resets>>

\* The lowest-priority request gives way: the worst rank, or the youngest under FCFS.
IsVictim(i) ==
  IF Priority THEN \A j \in DOMAIN running : Rank[running[j]] <= Rank[running[i]]
              ELSE i = Len(running)

\* Mutant: the cursor steps back for every victim.
StepWithoutVictim_AlwaysBack(v, i) ==
  [step EXCEPT !.preempted = TRUE, !.idx = @ - 1,
               !.n = [@ EXCEPT ![v] = 0], !.spec = [@ EXCEPT ![v] = 0],
               !.tokens = @ + step.n[v],
               !.input = IF step.n[v] > 0 THEN @ + step.n[v] + DraftSlots ELSE @]

\* Mutant: the victim's draft slots are not handed back.
StepWithoutVictim_KeepsSlots(v, i) ==
  [step EXCEPT !.preempted = TRUE,
               !.idx = IF i < @ THEN @ - 1 ELSE @,
               !.n = [@ EXCEPT ![v] = 0], !.spec = [@ EXCEPT ![v] = 0],
               !.tokens = @ + step.n[v], !.input = @ + step.n[v]]

\* Under PRIORITY the victim may have been scheduled already in this very step:
\* what it took is handed back, and the cursor follows the shortened list.
StepWithoutVictim(v, i) ==
  [step EXCEPT !.preempted = TRUE,
               !.idx = IF i < @ THEN @ - 1 ELSE @,
               !.n = [@ EXCEPT ![v] = 0], !.spec = [@ EXCEPT ![v] = 0],
               !.tokens = @ + step.n[v],
               !.input = IF step.n[v] > 0 THEN @ + step.n[v] + DraftSlots ELSE @]

PreemptVictim ==
  /\ pc = "alloc"
  /\ Missing(running[step.idx]) > free
  /\ \E i \in DOMAIN running :
       /\ IsVictim(i)
       /\ running' = RemoveIndex(running, i)
       /\ Preempt(running[i], DropStale)
       /\ IF i = step.idx
          THEN /\ pc' = "finish"
               /\ step' = [StepWithoutVictim(running[i], i) EXCEPT !.want = 0, !.pad = FALSE]
          ELSE /\ UNCHANGED pc
               /\ step' = StepWithoutVictim(running[i], i)
  /\ UNCHANGED <<skipped, todo, drafts, pause, resets>>

EndRunningPass ==
  /\ pc = "running" /\ ~InRunningPass
  /\ pc' = IF step.preempted \/ pause # "UNPAUSED" THEN "finish" ELSE "waiting"
  /\ UNCHANGED <<req, running, waiting, skipped, step, batches, todo, drafts, free,
                 pause, resets>>

----------------------------------------------------------------------------
(* schedule(): the pass over the two waiting queues.                       *)

InWaitingPass ==
  /\ waiting # <<>> \/ skipped # <<>>
  /\ step.tokens > 0 /\ step.input > DraftSlots
  /\ Len(running) < MaxRunning

\* _select_waiting_queue_for_scheduling: TRUE for skipped_waiting.
FromSkipped ==
  /\ skipped # <<>>
  /\ Priority /\ waiting # <<>> => ~(Rank[Head(waiting)] < Rank[Head(skipped)])

Candidate == IF FromSkipped THEN Head(skipped) ELSE Head(waiting)

PopCandidate ==
  /\ waiting' = IF FromSkipped THEN waiting ELSE Tail(waiting)
  /\ skipped' = IF FromSkipped THEN Tail(skipped) ELSE skipped

\* Mutant: resume at once.
MustDrainFirst_Never(q) == FALSE

\* Output of the run before the preemption is still to be delivered: resuming now
\* could sample again a position that this output fills.
MustDrainFirst(q) == q.stale > 0 /\ ~q.drop

SkipStale ==
  /\ pc = "waiting" /\ InWaitingPass
  /\ MustDrainFirst(req[Candidate])
  /\ PopCandidate
  /\ step' = [step EXCEPT !.skip = Append(@, Candidate)]
  /\ UNCHANGED <<pc, req, running, batches, todo, drafts, free, pause, resets>>

\* get_computed_blocks leaves at least the last token to compute.
HitLengths(r) == {h \in Hits \cup {0} : h < req[r].num_tokens}

\* pad_spec_decode: a one-token resumption joins a pure decode batch at full width.
PadNewDecode(r, hit) ==
  /\ NumSpec > 0 /\ r \notin MMReqs
  /\ req[r].num_tokens - hit = 1
  /\ ~step.prefill /\ \E o \in Reqs \ step.fresh : step.n[o] > 0
  /\ hit + 1 + NumSpec + 1 <= MaxModelLen

AdmissionBudget == Least(step.tokens, step.input - DraftSlots)

\* num_new_tokens of a waiting request before the encoder has its say; the pad
\* waits for another step rather than shrink.
AdmissionTokens(r, hit) ==
  IF PadNewDecode(r, hit)
  THEN IF 1 + NumSpec > AdmissionBudget THEN 0 ELSE LimitChunk(1 + NumSpec)
  ELSE Least(LimitChunk(req[r].num_tokens - hit), AdmissionBudget)

\* full_sequence_must_fit, then the blocks for this step's tokens.
BlocksToAdmit(r, upto) == Most(Need(r, upto), Need(r, req[r].num_tokens))

StopWaitingPass == pc' = "finish" /\ UNCHANGED <<req, running, waiting, skipped, step, free>>

Admitted(q, hit, blocks) ==
  [q EXCEPT !.status = "RUNNING", !.num_computed = hit, !.blocks = @ + blocks]

\* r moves to `running' with n tokens in this step.  It reaches the worker as a new
\* request (V2 runner), which also starts a resumed one over.
Admit(r, hit, n, pad) ==
  /\ PopCandidate
  /\ running' = Append(running, r)
  /\ LET blocks == Need(r, hit + n + LookaheadFor(r, FALSE))
     IN  /\ free' = free - blocks
         /\ req' = [req EXCEPT ![r] = Admitted(@, hit, blocks)]
  /\ step' = [step EXCEPT !.n = [@ EXCEPT ![r] = n],
                          !.spec = [@ EXCEPT ![r] = IF pad THEN NumSpec ELSE 0],
                          !.fresh = @ \cup {r},
                          !.tokens = @ - n, !.input = @ - n - DraftSlots]
  /\ UNCHANGED pc

TryAdmit ==
  /\ pc = "waiting" /\ InWaitingPass
  /\ LET r == Candidate
     IN  /\ ~MustDrainFirst(req[r])
         /\ \E hit \in HitLengths(r) :
            \E m \in EncoderLimited(r, hit, AdmissionTokens(r, hit)) :
              LET n == ReserveLookahead(req[r], hit, m)
              IN  IF n = 0 \/ BlocksToAdmit(r, hit + n + LookaheadFor(r, FALSE)) > free
                  THEN StopWaitingPass
                  ELSE Admit(r, hit, n, PadNewDecode(r, hit))
  /\ UNCHANGED <<batches, todo, drafts, pause, resets>>

EndWaitingPass ==
  /\ pc = "waiting" /\ ~InWaitingPass
  /\ pc' = "finish"
  /\ UNCHANGED <<req, running, waiting, skipped, step, batches, todo, drafts, free,
                 pause, resets>>

----------------------------------------------------------------------------
(* schedule(): _update_after_schedule() and the dispatch of the batch.     *)

\* AsyncScheduler, on top of the code here: a step that samples plans its output
\* and fills the draft list with placeholders for the next one.
PlanOutput(q, spec) ==
  [q EXCEPT !.placeholders = @ + 1 + spec, !.spec = NumSpec, !.cooldown = PPSize]

Advanced(q, n, spec) ==
  LET moved == [q EXCEPT !.num_computed = @ + n, !.in_flight = @ + n,
                         !.is_chunk = q.num_computed + n < q.num_tokens + q.placeholders]
  IN  IF Async /\ ~moved.is_chunk THEN PlanOutput(moved, spec) ELSE moved

ScheduledNow == {r \in Reqs : step.n[r] > 0}

NewBatch ==
  [n |-> step.n, spec |-> step.spec, fresh |-> step.fresh,
   start |-> [r \in Reqs |-> IF r \in step.fresh THEN req[r].num_computed ELSE 0],
   samples |-> {r \in ScheduledNow : ~Advanced(req[r], step.n[r], step.spec[r]).is_chunk},
   old |-> {}]

FinishStep ==
  /\ pc = "finish"
  /\ pc' = "idle"
  /\ req' = [r \in Reqs |-> IF r \in ScheduledNow
                            THEN Advanced(req[r], step.n[r], step.spec[r]) ELSE req[r]]
  /\ skipped' = step.skip \o skipped
  /\ batches' = IF ScheduledNow = {} THEN batches ELSE Append(batches, NewBatch)
  /\ drafts' = IF Async \/ NumSpec = 0 THEN {} ELSE ScheduledNow
  /\ step' = NoStep
  /\ UNCHANGED <<running, waiting, todo, free, pause, resets>>

----------------------------------------------------------------------------
(* update_from_output().                                                   *)

BeginUpdate ==
  /\ pc = "idle" /\ batches # <<>>
  /\ pc' = "update"
  /\ todo' = ScheduledIn(Head(batches))
  /\ UNCHANGED <<req, running, waiting, skipped, step, batches, drafts, free, pause, resets>>

\* Mutant: stale output drains one token per batch.
Drained_OneStale(q, n) ==
  [q EXCEPT !.in_flight = @ - n, !.stale = IF q.stale > 0 THEN @ - 1 ELSE @]

\* In-flight tokens drain, and the stale share in lockstep.
Drained(q, n) ==
  [q EXCEPT !.in_flight = @ - n, !.stale = IF q.stale > 0 THEN @ - n ELSE @]

\* Mutant: a request parked in skipped_waiting stays there.
Retire_LeavesSkipped(r) ==
  /\ req' = [req EXCEPT ![r] = Blank("FINISHED", req[r].num_tokens)]
  /\ running' = Without(running, r)
  /\ waiting' = Without(waiting, r)
  /\ UNCHANGED skipped
  /\ free' = free + req[r].blocks

\* _free_request: the request leaves the queues and its blocks return to the pool.
Retire(r) ==
  /\ req' = [req EXCEPT ![r] = Blank("FINISHED", req[r].num_tokens)]
  /\ running' = Without(running, r)
  /\ waiting' = Without(waiting, r)
  /\ skipped' = Without(skipped, r)
  /\ free' = free + req[r].blocks

\* The request was finished while the GPU worked on it.
IgnoreOutput(r) ==
  /\ pc = "update" /\ r \in todo
  /\ ~Live(r)
  /\ todo' = todo \ {r}
  /\ UNCHANGED <<pc, req, running, waiting, skipped, step, batches, drafts, free,
                 pause, resets>>

\* Mutant: drop_stale_output is not honoured.
DropsOutput_Never(q) == FALSE

DropsOutput(q) == q.stale > 0 /\ q.drop

DropOutput(r) ==
  /\ pc = "update" /\ r \in todo
  /\ Live(r) /\ DropsOutput(req[r])
  /\ req' = [req EXCEPT ![r] = Drained(@, Head(batches).n[r])]
  /\ todo' = todo \ {r}
  /\ UNCHANGED <<pc, running, waiting, skipped, step, batches, drafts, free, pause, resets>>

\* Mutant: num_output_placeholders is not rolled back.
RolledBack_ComputedOnly(q, rejected, isStale) ==
  IF isStale THEN q
  ELSE [q EXCEPT !.num_computed = IF q.num_computed > 0 THEN @ - rejected ELSE @]

\* Rejected drafts roll back the counters, but not those of a run that is over.
RolledBack(q, rejected, isStale) ==
  IF isStale THEN q
  ELSE [q EXCEPT !.num_computed = IF q.num_computed > 0 THEN @ - rejected ELSE @,
                 !.placeholders = IF q.placeholders > 0 THEN @ - rejected ELSE @]

\* Mutant: a grammar rejection rolls nothing back.
GrammarCut_Kept(q, cut) == q

\* filter_speculative_grammar_tokens cuts `cut' tokens off the accepted block.
GrammarCut(q, cut) == IF cut = 0 THEN q ELSE RolledBack(q, cut, FALSE)

\* postprocess_sampled: the worker advances its own count by the rows it kept.
RunnerStart(r, b) == IF r \in b.fresh THEN b.start[r] ELSE req[r].runner
\* Mutant: the worker counts rejected rows as computed.
RunnerAfter_CountsRejected(r, b, rejected) == RunnerStart(r, b) + b.n[r]

RunnerAfter(r, b, rejected) == RunnerStart(r, b) + b.n[r] - rejected

\* Mutant: check_stop looks at the model length only.
Room_ModelLenOnly(r) == MaxModelLen - req[r].num_tokens

\* Tokens that may still be appended before check_stop says stop.
Room(r) == Least(MaxModelLen, PromptLen[r] + MaxTokens[r]) - req[r].num_tokens

\* kept tokens are on offer; m are appended, the last of which may stop the request.
Committed(r, kept) ==
  IF kept = 0 THEN {[m |-> 0, stop |-> FALSE]}
  ELSE {[m |-> m, stop |-> m >= Room(r) \/ eos] :
          m \in 1 .. Least(kept, Most(1, Room(r))), eos \in BOOLEAN}

\* Grammar rejections: any tail of a speculative block of a structured request.
GrammarCuts(r, drafted, generated, isStale) ==
  IF r \in StructReqs /\ drafted > 0 /\ generated > 1 /\ ~isStale THEN 0 .. generated ELSE {0}

\* One request of the batch: `accepted' drafts were right, `cut' tokens fail the
\* grammar, c.m tokens are committed.  AsyncScheduler takes the committed tokens off
\* the placeholders.
Answered(r, accepted, cut, c) ==
  LET b        == Head(batches)
      isStale  == req[r].stale > 0
      rejected == IF r \in b.samples THEN b.spec[r] - accepted ELSE 0
      counted  == GrammarCut(RolledBack(Drained(req[r], b.n[r]), rejected, isStale), cut)
  IN  [counted EXCEPT !.num_tokens = @ + c.m,
                      !.placeholders = IF Async /\ ~isStale THEN @ - c.m ELSE @,
                      !.runner = RunnerAfter(r, b, rejected)]

DeliverOutput(r) ==
  /\ pc = "update" /\ r \in todo
  /\ Live(r) /\ ~DropsOutput(req[r])
  /\ LET b == Head(batches)
     IN  \E accepted \in IF r \in b.samples THEN 0 .. b.spec[r] ELSE {0} :
           LET generated == IF r \in b.samples THEN accepted + 1 ELSE 0
           IN  \E cut \in GrammarCuts(r, b.spec[r], generated, req[r].stale > 0) :
               \E c \in Committed(r, generated - cut) :
                 /\ c.m < generated - cut => c.stop
                 /\ IF c.stop
                    THEN Retire(r)
                    ELSE /\ req' = [req EXCEPT ![r] = Answered(r, accepted, cut, c)]
                         /\ UNCHANGED <<running, waiting, skipped, free>>
  /\ todo' = todo \ {r}
  /\ UNCHANGED <<pc, step, batches, drafts, pause, resets>>

EndUpdate ==
  /\ pc = "update" /\ todo = {}
  /\ pc' = "idle"
  /\ batches' = Tail(batches)
  /\ UNCHANGED <<req, running, waiting, skipped, step, todo, drafts, free, pause, resets>>

----------------------------------------------------------------------------
(* update_draft_token_ids(): post_step hands over the drafts of the last   *)
(* batch dispatched.  With a batch queue its output may still be out.      *)

DraftCounts(r) ==
  IF req[r].is_chunk \/ r \in MMReqs THEN {0}
  ELSE IF r \in StructReqs THEN 0 .. NumSpec ELSE {NumSpec}

UpdateDrafts ==
  /\ pc = "idle" /\ drafts # {}
  /\ MaxInFlight = 1 => batches = <<>>
  /\ \E count \in [drafts -> 0 .. NumSpec] :
       /\ \A r \in drafts : count[r] \in DraftCounts(r)
       /\ req' = [r \in Reqs |-> IF r \in drafts /\ Live(r)
                                 THEN [req[r] EXCEPT !.spec = count[r]] ELSE req[r]]
  /\ drafts' = {}
  /\ UNCHANGED <<pc, running, waiting, skipped, step, batches, todo, free, pause, resets>>

----------------------------------------------------------------------------
(* Calls from outside: clients and the engine's utility calls.             *)

AddRequest(r) ==
  /\ pc = "idle" /\ req[r].status = "ABSENT"
  /\ req' = [req EXCEPT ![r] = Blank("WAITING", PromptLen[r])]
  /\ waiting' = AddRequestTo(waiting, r)
  /\ UNCHANGED <<pc, running, skipped, step, batches, todo, drafts, free, pause, resets>>

\* finish_requests(r, FINISHED_ABORTED)
Abort(r) ==
  /\ pc = "idle" /\ r \in Abortable /\ Live(r)
  /\ Retire(r)
  /\ UNCHANGED <<pc, step, batches, todo, drafts, pause, resets>>

SetPause(p) ==
  /\ pc = "idle" /\ pause # p
  /\ pause' = p
  /\ UNCHANGED <<pc, req, running, waiting, skipped, step, batches, todo, drafts,
                 free, resets>>

\* reset_prefix_cache(reset_running_requests=True) preempts from the back.
BeginReset ==
  /\ pc = "idle" /\ resets < MaxResets
  /\ pc' = "reset" /\ resets' = resets + 1
  /\ UNCHANGED <<req, running, waiting, skipped, step, batches, todo, drafts, free, pause>>

ResetOne ==
  /\ pc = "reset" /\ running # <<>>
  /\ running' = RemoveIndex(running, Len(running))
  /\ Preempt(running[Len(running)], TRUE)
  /\ UNCHANGED <<pc, skipped, step, todo, drafts, pause, resets>>

EndReset ==
  /\ pc = "reset" /\ running = <<>>
  /\ pc' = "idle"
  /\ UNCHANGED <<req, running, waiting, skipped, step, batches, todo, drafts, free,
                 pause, resets>>

----------------------------------------------------------------------------
Init ==
  /\ pc = "idle"
  /\ req = [r \in Reqs |-> Blank("ABSENT", 0)]
  /\ running = <<>> /\ waiting = <<>> /\ skipped = <<>>
  /\ step = NoStep
  /\ batches = <<>> /\ todo = {} /\ drafts = {}
  /\ free = NumBlocks
  /\ pause = "UNPAUSED" /\ resets = 0

Schedule ==
  \/ SkipRunning \/ PickRunning \/ ScheduleRunning \/ PreemptVictim \/ EndRunningPass
  \/ SkipStale \/ TryAdmit \/ EndWaitingPass \/ FinishStep

Update ==
  \/ \E r \in Reqs : IgnoreOutput(r) \/ DropOutput(r) \/ DeliverOutput(r)
  \/ EndUpdate

Environment ==
  \/ \E r \in Reqs : AddRequest(r) \/ Abort(r)
  \/ \E p \in PauseStates : SetPause(p)
  \/ BeginReset \/ ResetOne \/ EndReset

Next ==
  \/ BeginStep \/ Schedule \/ BeginUpdate \/ Update \/ UpdateDrafts \/ Environment

Spec == Init /\ [][Next]_vars

\* The engine's loop: a call of schedule() or update_from_output() that has begun runs
\* to its end; the loop keeps calling schedule() while there is room for a batch, keeps
\* taking the oldest output, which the GPU delivers after finitely many steps, and
\* hands the drafts over after each dispatch.  Clients owe nothing.
Fairness ==
  /\ WF_vars(Schedule) /\ WF_vars(Update)
  /\ SF_vars(BeginStep) /\ SF_vars(BeginUpdate) /\ SF_vars(UpdateDrafts)

LiveSpec == Spec /\ Fairness

----------------------------------------------------------------------------
(* What must hold.                                                         *)

Range1(q) == {q[i] : i \in DOMAIN q}

TypeOK ==
  /\ pc \in {"idle", "running", "alloc", "waiting", "finish", "update", "reset"}
  /\ req \in [Reqs -> RequestType]
  /\ running \in Seq(Reqs) /\ waiting \in Seq(Reqs) /\ skipped \in Seq(Reqs)
  /\ step \in StepType
  /\ batches \in Seq(BatchType)
  /\ todo \subseteq Reqs /\ drafts \subseteq Reqs
  /\ free \in Int
  /\ pause \in PauseStates
  /\ resets \in 0 .. MaxResets

\* Every live request sits in exactly one place of one queue, and the queue fits its
\* status: nobody is lost by a preemption, a skip, a reset or an abort, and nobody is
\* scheduled from two places.
QueuesMatchStatus ==
  LET line == running \o waiting \o skipped \o step.skip
  IN  /\ \A i, j \in DOMAIN line : line[i] = line[j] => i = j
      /\ Range1(line) = {r \in Reqs : Live(r)}
      /\ Range1(running) = {r \in Reqs : req[r].status = "RUNNING"}

\* Output is treated as stale exactly when its step was scheduled before the latest
\* preemption of its request: the lockstep drain of num_stale_output_tokens ends at
\* the boundary between the two runs, whatever the batches' sizes.
StaleMeansOldRun ==
  pc = "update" =>
    \A r \in todo : Live(r) => (req[r].stale > 0 <=> r \in Head(batches).old)

\* What the batches whose output for r has not been taken yet carry for r, oldest first;
\* and those of them that were scheduled in an earlier run.
Pending(r) ==
  [i \in DOMAIN batches |->
     IF pc = "update" /\ i = 1 /\ r \notin todo THEN 0 ELSE batches[i].n[r]]
PendingOld(r) ==
  [i \in DOMAIN batches |-> IF r \in batches[i].old THEN Pending(r)[i] ELSE 0]

\* num_in_flight_tokens is what the pending batches carry, num_stale_output_tokens what
\* those of earlier runs carry.
InFlightExact ==
  \A r \in Reqs : Live(r) =>
    /\ req[r].in_flight = Total(Pending(r), Len(batches))
    /\ req[r].stale = Total(PendingOld(r), Len(batches))

\* With nothing of a request in flight its counters agree with its tokens: a prefill
\* has tokens left to compute, a decode has computed all but the last token and waits
\* for no output.  Rejections, grammar cuts and preemptions all rolled back right.
CountersReconcile ==
  pc = "idle" =>
    \A r \in Reqs :
      req[r].status = "RUNNING" /\ req[r].in_flight = 0 =>
        /\ req[r].placeholders = 0
        /\ IF req[r].is_chunk THEN req[r].num_computed < req[r].num_tokens
                              ELSE req[r].num_computed = req[r].num_tokens - 1

\* model_runner.py prepare_inputs: a request brings a row for each draft and one for
\* the token to be sampled.
RowsCoverDrafts ==
  \A r \in Reqs : step.n[r] > 0 /\ step.spec[r] > 0 => step.n[r] >= step.spec[r] + 1

\* No input position reaches max_model_len.
PositionsInBounds ==
  \A r \in Reqs : step.n[r] > 0 => req[r].num_computed + step.n[r] <= MaxModelLen

\* The assertions at the end of schedule().
BudgetsHold ==
  pc = "finish" =>
    step.tokens >= 0 /\ step.input >= 0 /\ Len(running) <= MaxRunning

ReqList == Listing(Reqs)
SumReqs(f) == Total([i \in 1 .. Cardinality(Reqs) |-> f[ReqList[i]]], Cardinality(Reqs))

\* What the step's requests took from the budgets is what the budgets lost, also after
\* a request scheduled in this step was preempted again.
BudgetsConserved ==
  pc \in {"running", "alloc", "waiting", "finish"} =>
    /\ step.tokens + SumReqs(step.n) = IF pause = "PAUSED_ALL" THEN 0 ELSE MaxScheduled
    /\ step.input + SumReqs([r \in Reqs |-> IF step.n[r] > 0 THEN step.n[r] + DraftSlots ELSE 0])
         = MaxBatched

\* KV blocks are neither lost nor handed out twice.
BlocksConserved == free >= 0 /\ free + SumReqs([r \in Reqs |-> req[r].blocks]) = NumBlocks

\* Every token that is computed, or is about to be, has a slot in a block it holds.
SlotsCoverTokens ==
  \A r \in Reqs :
    req[r].status = "RUNNING" =>
      req[r].blocks * BlockSize >= Least(req[r].num_computed + step.n[r], MaxModelLen)

\* The worker keeps its own count of computed tokens, on the GPU, and samples the
\* token after the rows it ran.  Output that the scheduler will commit was sampled for
\* exactly the position it is committed to: no position is sampled twice or left out,
\* across rejections, pads, preemptions and batches in flight.
SamplesLandNext ==
  pc = "update" =>
    \A r \in todo \cap Head(batches).samples :
      Live(r) /\ ~DropsOutput(req[r]) =>
        RunnerStart(r, Head(batches)) + Head(batches).n[r] - Head(batches).spec[r]
          = req[r].num_tokens

\* No request runs past its max_tokens or the model length.
OutputBounded ==
  \A r \in Reqs :
    Live(r) => req[r].num_tokens < Least(MaxModelLen, PromptLen[r] + MaxTokens[r])

\* Every request that arrives is finished in the end: no preemption, skip, cooldown,
\* pad or budget rule holds one back for ever.
EveryRequestFinishes == \A r \in Reqs : Live(r) ~> ~Live(r)
=============================================================================
