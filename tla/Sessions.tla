------------------------------ MODULE Sessions ------------------------------
(***************************************************************************)
(* The life of a request in patches/scheduler.py, for requests that a      *)
(* client extends while they run: streaming sessions (resumable requests), *)
(* requests that wait for a grammar, and plain ones.  add_request(),       *)
(* finish_requests(), the queues of schedule(), the stop of a turn         *)
(* (_handle_stopped_request), the next turn (_update_request_as_session)   *)
(* and the end of update_from_output(), which takes stopped requests off   *)
(* the queues.  The scheduler is AsyncScheduler, as it is deployed: steps  *)
(* of a request go out while earlier ones are in flight.                   *)
(*                                                                         *)
(* Scheduler counts tokens; here they are named, because a session cuts    *)
(* and extends its own text: <<"in", c, i>> is token i of input chunk c,   *)
(* <<"out", t, p>> the token sampled in turn t for position p.  `kv' is    *)
(* what the KV slots of a request hold once the answers that have arrived  *)
(* were computed.  Budgets other than tokens and rows, and KV blocks, are  *)
(* left out: a pool that is short may preempt any tail of `running' and    *)
(* may refuse any admission (MaxShort times).                              *)
(*                                                                         *)
(* StaleTurns, CutTurns and LateTurns let in three situations in which a   *)
(* session goes wrong (README, section 5); with all FALSE it does not.     *)
(***************************************************************************)
EXTENDS Integers, Sequences, FiniteSets, Sums

CONSTANTS
  Reqs,          \* the requests that clients may send
  Streams,       \* the resumable ones, streaming sessions
  GrammarReqs,   \* those whose grammar is compiled on another thread
  ChunkLen,      \* tokens in an input chunk (the first is the prompt)
  MaxChunks,     \* [Streams -> Nat], input chunks that the client of a session sends
  MaxTokens,     \* max_tokens: output tokens of a turn
  NumSpec,       \* drafts verified by a decode step
  MaxScheduled,  \* max_num_scheduled_tokens
  MaxRunning,    \* max_num_running_reqs, also the request slots of a worker
  PPSize,        \* pipeline stages
  MaxInFlight,   \* batches dispatched and not yet answered
  Abortable,     \* requests whose client may disconnect
  StaleTurns,    \* sessions may be preempted while a step of theirs is in flight
  CutTurns,      \* the turn of a session may stop before the last draft accepted
  LateTurns,     \* ... and while a later step of the session is in flight
  MaxShort       \* bound on how often the KV pool is short

ASSUME SessionAssumption ==
  /\ Streams \subseteq Reqs /\ GrammarReqs \subseteq Reqs /\ Abortable \subseteq Reqs
  /\ ChunkLen \in Nat \ {0} /\ MaxChunks \in [Streams -> Nat \ {0}] /\ MaxTokens \in Nat \ {0}
  /\ NumSpec \in Nat /\ MaxScheduled \in Nat \ {0} /\ MaxRunning \in Nat \ {0}
  /\ PPSize \in Nat \ {0} /\ MaxInFlight \in Nat \ {0} /\ MaxShort \in Nat
  /\ StaleTurns \in BOOLEAN /\ CutTurns \in BOOLEAN /\ LateTurns \in BOOLEAN

VARIABLES
  pc,         \* "idle", "admit" and "finish" (the waiting pass and the end of schedule()),
              \* or "update"
  req,        \* the Request objects
  running,    \* Scheduler.running
  waiting,    \* Scheduler.waiting
  skipped,    \* Scheduler.skipped_waiting
  skip,       \* step_skipped_waiting
  num_waiting_for_streaming_input,
  step,       \* the batch that schedule() is building
  batches,    \* batches on the GPU, oldest first
  todo,       \* requests of Head(batches) that update_from_output() has not reached
  stopped,    \* stopped_running_reqs and stopped_preempted_reqs
  flush,      \* finished_req_ids and reset_preempted_req_ids since the last step
  errors,     \* grammar_compile_error_reqs
  slots,      \* requests that hold a slot of the worker, after the batches dispatched
  sent,       \* input chunks that the client of a session has sent
  short       \* times the KV pool was short

queues == <<running, waiting, skipped, skip>>
vars == <<pc, req, queues, num_waiting_for_streaming_input, step, batches, todo,
          stopped, flush, errors, slots, sent, short>>

----------------------------------------------------------------------------
(* Requests.                                                               *)

Least(a, b) == IF a < b THEN a ELSE b
Most(a, b)  == IF a < b THEN b ELSE a

Statuses == {"ABSENT", "WAITING", "WAITING_FOR_GRAMMAR", "WAITING_FOR_STREAMING_REQ",
             "RUNNING", "PREEMPTED", "FINISHED"}

\* _is_blocked_waiting_status
Blocked(status) == status \in {"WAITING_FOR_GRAMMAR", "WAITING_FOR_STREAMING_REQ"}

End == 0
Token == {"in", "out"} \X Nat \X Nat
Chunk(c) == [i \in 1 .. ChunkLen |-> <<"in", c, i>>]

RequestType ==
  [status : Statuses,
   text : Seq(Token),     \* _all_token_ids
   prompt : Nat,          \* num_prompt_tokens
   out : Nat,             \* len(_output_token_ids)
   computed : Nat,        \* num_computed_tokens
   in_flight : Nat,       \* num_in_flight_tokens
   stale : Nat,           \* num_stale_output_tokens
   placeholders : Nat,    \* num_output_placeholders
   spec : Nat,            \* len(spec_token_ids)
   chunk : BOOLEAN,       \* is_prefill_chunk
   cooldown : Nat,        \* steps to next_decode_eligible_step
   updates : Seq(Nat),    \* streaming_queue: the number of a chunk, End its end
   turn : Nat,            \* input chunks taken
   grammar : {"none", "compiled", "failed"},
   kv : Seq(Token)]       \* what the KV slots hold

NewRequest(status) ==
  [status |-> status, text |-> Chunk(1), prompt |-> ChunkLen, out |-> 0, computed |-> 0,
   in_flight |-> 0, stale |-> 0, placeholders |-> 0, spec |-> 0, chunk |-> FALSE,
   cooldown |-> 0, updates |-> <<>>, turn |-> 1, grammar |-> "none", kv |-> <<>>]

Absent == [NewRequest("ABSENT") EXCEPT !.text = <<>>, !.turn = 0]

\* Rows of a step: r computes n tokens, the last `drafts' of them drafts, and is sampled
\* when its row reaches the end of its text and of the output planned before.
RowType == [r : Reqs, n : Nat, drafts : Nat, samples : BOOLEAN]
NoStep == [rows |-> <<>>, budget |-> 0, decoding |-> FALSE]
InStep(s) == {s.rows[i].r : i \in DOMAIN s.rows}
NoneStopped == [ran |-> {}, preempted |-> {}]

Live(r) == req[r].status \notin {"ABSENT", "FINISHED"}

----------------------------------------------------------------------------
(* Queues.  FCFS: skipped requests come first.                             *)

\* q without the members of S, in the same order.
Off(q, S) ==
  LET rest[i \in 0 .. Len(q)] ==
        IF i = 0 THEN <<>>
        ELSE IF q[i] \in S THEN rest[i - 1] ELSE Append(rest[i - 1], q[i])
  IN  rest[Len(q)]

Enqueue(r, status) ==
  /\ waiting' = IF Blocked(status) THEN waiting ELSE Append(waiting, r)
  /\ skipped' = IF Blocked(status) THEN Append(skipped, r) ELSE skipped

\* get_num_unfinished_requests
Unfinished ==
  Len(waiting) + Len(skipped) - num_waiting_for_streaming_input + Len(running)

----------------------------------------------------------------------------
(* The turns of a session.                                                 *)

\* The oldest queued update.
NextUpdate(q) == Head(q.updates)

\* popleft.  Mutant: the update that is taken stays in the queue.
Remaining_All(q) == q.updates
Remaining(q) == Tail(q.updates)

\* Mutant: the last sampled token, which no step has computed, stays in the prompt.
NextTurn_KeepsSampled(q, c) ==
  [q EXCEPT !.status = "WAITING", !.text = @ \o Chunk(c), !.prompt = Len(q.text) + ChunkLen,
            !.out = 0, !.turn = @ + 1, !.computed = Len(q.text)]

\* _update_request_as_session: the computed tokens become the prompt, the final sampled
\* token is discarded, chunk c follows.
NextTurn(q, c) ==
  LET kept    == Least(q.computed, Len(q.text))
      outputs == IF kept > q.prompt THEN kept - q.prompt ELSE 0
  IN  [q EXCEPT !.status = "WAITING", !.text = SubSeq(@, 1, kept) \o Chunk(c),
                !.prompt = @ + outputs + ChunkLen, !.out = 0, !.turn = @ + 1]

----------------------------------------------------------------------------
(* Clients, and the thread that compiles grammars.                         *)

\* add_request(r) for a request that the scheduler does not know.
AddRequest(r) ==
  /\ pc = "idle" /\ req[r].status = "ABSENT"
  /\ LET status == IF r \in GrammarReqs THEN "WAITING_FOR_GRAMMAR" ELSE "WAITING"
     IN  req' = [req EXCEPT ![r] = NewRequest(status)] /\ Enqueue(r, status)
  /\ sent' = [sent EXCEPT ![r] = 1]
  /\ UNCHANGED <<pc, running, skip, num_waiting_for_streaming_input, step, batches, todo,
                 stopped, flush, errors, slots, short>>

Gone == [Absent EXCEPT !.status = "FINISHED"]
Paused(r) == req[r].status = "WAITING_FOR_STREAMING_REQ"

\* Mutant: a paused session that is finished still counts as paused.
StillPaused_Finished(S) == num_waiting_for_streaming_input
\* Paused sessions once those in S are finished.
StillPaused(S) == num_waiting_for_streaming_input - Cardinality({r \in S : Paused(r)})

\* finish_requests(S), for requests that are not finished yet.
FinishRequests(S) ==
  /\ req' = [r \in Reqs |-> IF r \in S THEN Gone ELSE req[r]]
  /\ running' = Off(running, S) /\ waiting' = Off(waiting, S) /\ skipped' = Off(skipped, S)
  /\ flush' = flush \cup S
  /\ num_waiting_for_streaming_input' = StillPaused(S)

Abort(r) ==
  /\ pc = "idle" /\ r \in Abortable /\ Live(r)
  /\ FinishRequests({r})
  /\ UNCHANGED <<pc, skip, step, batches, todo, stopped, errors, slots, sent, short>>

\* A session whose client has not announced the end of its input.
Open(r) == Live(r) /\ r \in Streams /\ \A i \in DOMAIN req[r].updates : req[r].updates[i] # End

\* add_request(r) for a session that is in the middle of a turn: the update waits.
QueueUpdate(r) ==
  /\ pc = "idle" /\ Open(r) /\ ~Paused(r)
  /\ \/ /\ sent[r] < MaxChunks[r]
        /\ req' = [req EXCEPT ![r].updates = Append(@, sent[r] + 1)]
        /\ sent' = [sent EXCEPT ![r] = @ + 1]
     \/ /\ req' = [req EXCEPT ![r].updates = Append(@, End)]
        /\ UNCHANGED sent
  /\ UNCHANGED <<pc, queues, num_waiting_for_streaming_input, step, batches, todo, stopped,
                 flush, errors, slots, short>>

\* add_request(r) for a paused session: the next turn begins, where it is in the queue.
ResumeSession(r) ==
  /\ pc = "idle" /\ Open(r) /\ Paused(r) /\ sent[r] < MaxChunks[r]
  /\ sent' = [sent EXCEPT ![r] = @ + 1]
  /\ req' = [req EXCEPT ![r] = NextTurn(@, sent'[r])]
  /\ num_waiting_for_streaming_input' = num_waiting_for_streaming_input - 1
  /\ UNCHANGED <<pc, queues, step, batches, todo, stopped, flush, errors, slots, short>>

\* add_request(r) without input, for a paused session: it ends.
EndSession(r) ==
  /\ pc = "idle" /\ Open(r) /\ Paused(r)
  /\ FinishRequests({r})
  /\ UNCHANGED <<pc, skip, step, batches, todo, stopped, errors, slots, sent, short>>

\* The future of a grammar is resolved, at any time.
CompileGrammar(r) ==
  /\ req[r].status = "WAITING_FOR_GRAMMAR" /\ req[r].grammar = "none"
  /\ \E outcome \in {"compiled", "failed"} : req' = [req EXCEPT ![r].grammar = outcome]
  /\ UNCHANGED <<pc, queues, num_waiting_for_streaming_input, step, batches, todo, stopped,
                 flush, errors, slots, sent, short>>

----------------------------------------------------------------------------
(* schedule().                                                             *)

\* Where the next token of q goes, once the output planned for it has arrived.
Planned(q) == Len(q.text) + q.placeholders

\* n rows for r, of which at most the last `spec' are drafts.
RowFor(r, n, spec) ==
  LET past == req[r].computed + n - Planned(req[r])
  IN  [r |-> r, n |-> n, drafts |-> Least(spec, Most(0, past)), samples |-> past >= 0]

\* Every token up to max_tokens is in flight, or a decode step waits for its turn in the
\* ring of the pipeline stages.
NotThisStep(q) ==
  \/ q.placeholders > 0 /\ q.computed + 2 - q.placeholders >= q.prompt + MaxTokens
  \/ q.cooldown > 0

\* The tokens up to the drafts of the next output.  The repair grants the bonus row to a
\* request whose computed tokens have caught up, which planned output keeps from happening.
Wanted(r) ==
  LET q   == req[r]
      new == Planned(q) + q.spec - q.computed
  IN  IF NotThisStep(q) THEN 0
      ELSE IF q.spec > 0 /\ q.computed = Planned(q) THEN new + 1
      ELSE Most(0, new)

\* The token budget after the first i requests of q have taken their tokens.
BudgetAfter(q, i) == Most(0, MaxScheduled - Total([j \in DOMAIN q |-> Wanted(q[j])], i))
Granted(q, i) == BudgetAfter(q, i - 1) - BudgetAfter(q, i)

RunningRows(q) ==
  Off([i \in DOMAIN q |-> RowFor(q[i], Granted(q, i), req[q[i]].spec)],
      {RowFor(r, 0, req[r].spec) : r \in Reqs})

StepFor(q) ==
  LET rows == RunningRows(q)
  IN  [rows |-> rows, budget |-> BudgetAfter(q, Len(q)),
       decoding |-> rows # <<>> /\ \A i \in DOMAIN rows : ~req[rows[i].r].chunk]

\* _preempt_request
Preempted(q) ==
  [q EXCEPT !.status = "PREEMPTED", !.computed = 0, !.kv = <<>>, !.stale = q.in_flight,
            !.placeholders = 0, !.spec = 0]

\* The engine calls schedule() while has_requests().  The running pass, which uses the
\* drafts up: the KV pool may be short, and then the requests after the k-th are
\* preempted, the last one first.
BeginSchedule ==
  /\ pc = "idle" /\ Len(batches) < MaxInFlight
  /\ Unfinished > 0 \/ \E r \in flush : req[r].status = "FINISHED"
  /\ \E k \in 0 .. Len(running) :
       LET lost == {running[i] : i \in k + 1 .. Len(running)}
       IN  /\ lost # {} => short < MaxShort
           /\ StaleTurns \/ \A r \in lost \cap Streams : req[r].in_flight = 0
           /\ short' = IF lost # {} THEN short + 1 ELSE short
           /\ running' = SubSeq(running, 1, k)
           /\ waiting' = SubSeq(running, k + 1, Len(running)) \o waiting
           /\ step' = StepFor(running')
           /\ req' = [r \in Reqs |-> IF r \in lost THEN Preempted(req[r])
                                     ELSE IF r \in InStep(step') THEN [req[r] EXCEPT !.spec = 0]
                                     ELSE req[r]]
           /\ flush' = flush \cup lost
           /\ pc' = IF lost = {} THEN "admit" ELSE "finish"
  /\ UNCHANGED <<skipped, skip, num_waiting_for_streaming_input, batches, todo, stopped,
                 errors, slots, sent>>

\* _select_waiting_queue_for_scheduling
Candidates == IF skipped # <<>> THEN skipped ELSE waiting
PopCandidate ==
  /\ skipped' = IF skipped # <<>> THEN Tail(skipped) ELSE skipped
  /\ waiting' = IF skipped # <<>> THEN waiting ELSE Tail(waiting)

\* Mutant: every request that waits for something takes a row.
RowsTaken_Blocked == Len(running) + Len(skipped)
\* A paused session keeps its row on the worker.
RowsTaken == Len(running) + num_waiting_for_streaming_input

\* A request with one token left joins a batch of decode steps at their full width, or
\* waits for a step that has room for it.
PadNewDecode(q) == NumSpec > 0 /\ step.decoding /\ Len(q.text) - q.computed = 1

MayAdmit ==
  pc = "admit" /\ Candidates # <<>> /\ step.budget > 0 /\ RowsTaken < MaxRunning

\* _try_promote_blocked_waiting_request, and output of an earlier run still to come.
Ready(r) ==
  /\ \/ req[r].status \in {"WAITING", "PREEMPTED"}
     \/ (req[r].status = "WAITING_FOR_GRAMMAR" /\ req[r].grammar = "compiled")
  /\ req[r].stale = 0

SkipHead ==
  LET r == Head(Candidates)
  IN  /\ MayAdmit /\ ~Ready(r)
      /\ PopCandidate /\ skip' = <<r>> \o skip
      /\ errors' = IF req[r].status = "WAITING_FOR_GRAMMAR" /\ req[r].grammar = "failed"
                   THEN errors \cup {r} ELSE errors
      /\ UNCHANGED <<pc, req, running, num_waiting_for_streaming_input, step, batches, todo,
                     stopped, flush, slots, sent, short>>

\* The worker starts a request over from its computed tokens.
Admitted(q) == [q EXCEPT !.status = "RUNNING", !.kv = SubSeq(@, 1, q.computed)]

AdmitHead ==
  LET r    == Head(Candidates)
      spec == IF PadNewDecode(req[r]) THEN NumSpec ELSE 0
      n    == Least(Len(req[r].text) - req[r].computed + spec, step.budget)
  IN  /\ MayAdmit /\ Ready(r) /\ n > spec
      /\ PopCandidate /\ running' = Append(running, r)
      /\ req' = [req EXCEPT ![r] = Admitted(@)]
      /\ step' = [step EXCEPT !.rows = Append(@, RowFor(r, n, spec)), !.budget = @ - n]
      /\ UNCHANGED <<pc, skip, num_waiting_for_streaming_input, batches, todo, stopped, flush,
                     errors, slots, sent, short>>

\* allocate_slots() has no blocks, or the padded rows do not fit: the request stays where
\* it is, promoted if it was blocked.
RefuseHead ==
  LET r == Head(Candidates)
  IN  /\ MayAdmit /\ Ready(r)
      /\ \/ short < MaxShort /\ short' = short + 1
         \/ PadNewDecode(req[r]) /\ step.budget <= NumSpec /\ UNCHANGED short
      /\ pc' = "finish"
      /\ req' = [req EXCEPT ![r].status = IF Blocked(@) THEN "WAITING" ELSE @]
      /\ UNCHANGED <<queues, num_waiting_for_streaming_input, step, batches, todo, stopped,
                     flush, errors, slots, sent>>

\* A step that samples plans its output, and drafts for the next one (AsyncScheduler).
Scheduled(q, row) ==
  LET moved == [q EXCEPT !.computed = @ + row.n, !.in_flight = @ + row.n,
                         !.chunk = ~row.samples]
  IN  IF row.samples
      THEN [moved EXCEPT !.placeholders = @ + 1 + row.drafts, !.spec = NumSpec,
                         !.cooldown = PPSize - 1]
      ELSE moved

\* A step has passed.
Rested(q) == [q EXCEPT !.cooldown = Most(0, @ - 1)]

\* The end of schedule() with _update_after_schedule(); the worker drops the requests
\* that finished or were preempted, and adds the new ones, before it runs the batch.
FinishSchedule ==
  LET in    == InStep(step)
      Of(r) == step.rows[CHOOSE i \in DOMAIN step.rows : step.rows[i].r = r]
  IN  /\ pc = "finish" \/ (pc = "admit" /\ ~MayAdmit)
      /\ pc' = "idle"
      /\ req' = [r \in Reqs |-> IF r \in in THEN Scheduled(Rested(req[r]), Of(r))
                                ELSE Rested(req[r])]
      /\ skipped' = skip \o skipped /\ skip' = <<>>
      /\ batches' = Append(batches, step.rows) /\ step' = NoStep
      /\ slots' = (slots \ flush) \cup in /\ flush' = {}
      /\ UNCHANGED <<running, waiting, num_waiting_for_streaming_input, todo, stopped, errors,
                     sent, short>>

----------------------------------------------------------------------------
(* update_from_output().                                                   *)

BeginUpdate ==
  /\ pc = "idle" /\ batches # <<>>
  /\ pc' = "update" /\ todo' = Head(batches) /\ batches' = Tail(batches)
  /\ stopped' = NoneStopped
  /\ UNCHANGED <<req, queues, num_waiting_for_streaming_input, step, flush, errors, slots,
                 sent, short>>

Updating == pc = "update" /\ todo # <<>>

\* The request was finished while its batch ran.
IgnoreOutput ==
  /\ Updating /\ ~Live(Head(todo).r)
  /\ todo' = Tail(todo)
  /\ UNCHANGED <<pc, req, queues, num_waiting_for_streaming_input, step, batches, stopped,
                 flush, errors, slots, sent, short>>

\* What row feeds to the worker before its drafts: the tokens of q behind its KV slots (what
\* a row feeds to a session that was cut meanwhile, LateTurns, is not modelled).
Fed(q, row) == SubSeq(q.text, Len(q.kv) + 1, Len(q.kv) + row.n - row.drafts)

Drained(q, row) ==
  [q EXCEPT !.in_flight = @ - row.n, !.stale = IF @ > 0 THEN @ - row.n ELSE 0]

Outputs(q, m) == [i \in 1 .. m |-> <<"out", q.turn, Len(q.text) + i>>]

\* The worker accepts a drafts and the first m tokens of its answer are committed.  Unless
\* the answer is stale, the rejected drafts are taken off the computed tokens, both are taken
\* off the planned output, and the row and its accepted drafts, committed or not, are in the
\* KV slots.
Committed(row, a, m) ==
  LET q == req[row.r]
      is_stale == q.stale > 0
  IN  [Drained(q, row) EXCEPT
         !.text = @ \o Outputs(q, m), !.out = @ + m,
         !.computed = IF is_stale \/ @ = 0 THEN @ ELSE @ - (row.drafts - a),
         !.placeholders = IF is_stale THEN @ ELSE @ - (row.drafts - a) - m,
         !.kv = IF is_stale THEN @ ELSE @ \o Fed(q, row) \o Outputs(q, a)]

\* Nothing is sampled of a step of prefill.
Computed(row) ==
  LET q == req[row.r]
  IN  [Drained(q, row) EXCEPT !.kv = IF q.stale > 0 THEN @ ELSE @ \o Fed(q, row)]

\* The answers that end a turn, or do not: <<a, m>> as above (check_stop, after each token:
\* max_tokens, or the end-of-sequence token at any place).
Answers(row, stops) ==
  {am \in (0 .. row.drafts) \X (1 .. 1 + row.drafts) :
     LET m == am[2]
     IN  /\ m <= am[1] + 1 /\ req[row.r].out + m <= MaxTokens
         /\ CutTurns \/ row.r \notin Streams \/ m = am[1] + 1
         /\ ~stops => m = am[1] + 1 /\ req[row.r].out + m < MaxTokens}

\* Nothing was sampled, or the turn goes on.
TakeOutput ==
  /\ Updating /\ Live(Head(todo).r)
  /\ LET row == Head(todo)
     IN  \/ /\ row.samples
            /\ \E am \in Answers(row, FALSE) :
                 req' = [req EXCEPT ![row.r] = Committed(row, am[1], am[2])]
         \/ ~row.samples /\ req' = [req EXCEPT ![row.r] = Computed(row)]
  /\ todo' = Tail(todo)
  /\ UNCHANGED <<pc, queues, num_waiting_for_streaming_input, step, batches, stopped, flush,
                 errors, slots, sent, short>>

\* The turn of Head(todo) stops: whether the request ran is remembered.
Stopping ==
  /\ Updating /\ Live(Head(todo).r) /\ Head(todo).samples
  /\ todo' = Tail(todo)
  /\ stopped' = LET r == Head(todo).r
                IN  IF req[r].status = "RUNNING" THEN [stopped EXCEPT !.ran = @ \cup {r}]
                                                 ELSE [stopped EXCEPT !.preempted = @ \cup {r}]

\* _handle_stopped_request for a request that is not resumable or has no input left.
StopRequest ==
  /\ Stopping
  /\ LET r == Head(todo).r
     IN  /\ r \in Streams => req[r].updates # <<>> /\ NextUpdate(req[r]) = End
         /\ Answers(Head(todo), TRUE) # {}
         /\ req' = [req EXCEPT ![r] = Gone] /\ flush' = flush \cup {r}
  /\ UNCHANGED <<pc, queues, num_waiting_for_streaming_input, step, batches, errors, slots,
                 sent, short>>

\* A session outlives its turn.
MayRest(r) ==
  r \in Streams /\ (LateTurns \/ Drained(req[r], Head(todo)).in_flight = 0)

\* ... for a session whose next chunk has arrived: the next turn joins the queue.
ContinueSession ==
  /\ Stopping
  /\ LET r == Head(todo).r
     IN  /\ MayRest(r) /\ req[r].updates # <<>> /\ NextUpdate(req[r]) # End
         /\ \E am \in Answers(Head(todo), TRUE) :
              LET q == Committed(Head(todo), am[1], am[2])
              IN  req' = [req EXCEPT ![r] = [NextTurn(q, NextUpdate(q))
                                               EXCEPT !.updates = Remaining(q)]]
         /\ Enqueue(r, "WAITING")
  /\ UNCHANGED <<pc, running, skip, num_waiting_for_streaming_input, step, batches, flush,
                 errors, slots, sent, short>>

\* ... for a session that has to wait for input.
PauseSession ==
  /\ Stopping
  /\ LET r == Head(todo).r
     IN  /\ MayRest(r) /\ req[r].updates = <<>>
         /\ \E am \in Answers(Head(todo), TRUE) :
              req' = [req EXCEPT ![r] = [Committed(Head(todo), am[1], am[2])
                                           EXCEPT !.status = "WAITING_FOR_STREAMING_REQ"]]
         /\ Enqueue(r, "WAITING_FOR_STREAMING_REQ")
  /\ num_waiting_for_streaming_input' = num_waiting_for_streaming_input + 1
  /\ UNCHANGED <<pc, running, skip, step, batches, flush, errors, slots, sent, short>>

\* Mutant: the requests that stopped while they ran stay in running.
StillRunning_All == running
StillRunning == Off(running, stopped.ran)

\* The requests that stopped leave the queues, those whose grammar failed finish.
EndUpdate ==
  LET failed == {r \in errors : Live(r)}
      Rest(q) == Off(Off(q, stopped.preempted), failed)
  IN  /\ pc = "update" /\ todo = <<>>
      /\ pc' = "idle" /\ stopped' = NoneStopped /\ errors' = {}
      /\ running' = Off(StillRunning, failed)
      /\ waiting' = Rest(waiting) /\ skipped' = Rest(skipped)
      /\ num_waiting_for_streaming_input' = StillPaused(failed)
      /\ req' = [r \in Reqs |-> IF r \in failed THEN Gone ELSE req[r]]
      /\ flush' = flush \cup failed
      /\ UNCHANGED <<skip, step, batches, todo, slots, sent, short>>

----------------------------------------------------------------------------
Init ==
  /\ pc = "idle" /\ req = [r \in Reqs |-> Absent]
  /\ running = <<>> /\ waiting = <<>> /\ skipped = <<>> /\ skip = <<>>
  /\ num_waiting_for_streaming_input = 0
  /\ step = NoStep /\ batches = <<>> /\ todo = <<>> /\ stopped = NoneStopped
  /\ flush = {} /\ errors = {} /\ slots = {} /\ sent = [r \in Reqs |-> 0] /\ short = 0

Client ==
  \E r \in Reqs : AddRequest(r) \/ Abort(r) \/ QueueUpdate(r) \/ ResumeSession(r) \/ EndSession(r)

Schedule == BeginSchedule \/ SkipHead \/ AdmitHead \/ RefuseHead \/ FinishSchedule

Update == \/ BeginUpdate \/ IgnoreOutput \/ TakeOutput \/ StopRequest \/ ContinueSession
          \/ PauseSession \/ EndUpdate

Next == Client \/ (\E r \in Reqs : CompileGrammar(r)) \/ Schedule \/ Update

Spec == Init /\ [][Next]_vars

\* The engine goes on, batches are answered and compilations end; clients owe nothing.
LiveSpec == /\ Spec /\ WF_vars(Update \/ Schedule)
            /\ \A r \in GrammarReqs : WF_vars(CompileGrammar(r))

----------------------------------------------------------------------------
(* Properties.                                                             *)

TypeOK ==
  /\ pc \in {"idle", "admit", "finish", "update"}
  /\ req \in [Reqs -> RequestType]
  /\ \A q \in {running, waiting, skipped, skip} : q \in Seq(Reqs)
  /\ num_waiting_for_streaming_input \in 0 .. Cardinality(Streams)
  /\ step \in [rows : Seq(RowType), budget : Nat, decoding : BOOLEAN]
  /\ batches \in Seq(Seq(RowType)) /\ todo \in Seq(RowType)
  /\ stopped \in [ran : SUBSET Reqs, preempted : SUBSET Reqs]
  /\ flush \subseteq Reqs /\ errors \subseteq Reqs /\ slots \subseteq Reqs
  /\ sent \in [Reqs -> Nat] /\ short \in 0 .. MaxShort

Places(q, r) == Cardinality({i \in DOMAIN q : q[i] = r})

\* Between two entry points a live request is in exactly one queue, the one of its status:
\* no turn that ends, resumes or is preempted leaves a request behind or doubles it, and a
\* finished request is in none (_handle_stopped_request, the end of update_from_output).
QueuesExact ==
  pc = "idle" => \A r \in Reqs :
    /\ Places(running, r) = (IF req[r].status = "RUNNING" THEN 1 ELSE 0)
    /\ Places(waiting \o skipped, r) = (IF Live(r) /\ req[r].status # "RUNNING" THEN 1 ELSE 0)

\* The engine sleeps (get_num_unfinished_requests is 0) exactly when every live request is
\* a session that waits for its client: num_waiting_for_streaming_input never drifts over
\* the turns, updates, aborts and ends of sessions.
WorkDetected ==
  pc = "idle" => (Unfinished > 0 <=> \E r \in Reqs : Live(r) /\ ~Paused(r))

\* The computed tokens of q without those of the steps in flight.
Settled(q) == q.computed - (q.in_flight - q.stale)

\* What a live request has in its KV slots is its own text up to the computed tokens whose
\* steps were answered, over any number of turns, preemptions and steps in flight, and
\* unless output is in flight some token is left to compute: schedule() asserts so of the
\* head of the queue (num_new_tokens > 0).
ContextMatchesKV ==
  pc \in {"idle", "admit"} => \A r \in Reqs : Live(r) =>
    LET q == req[r]
    IN  /\ \A i \in 1 .. Least(Settled(q), Len(q.text)) :
             i \in DOMAIN q.kv /\ q.kv[i] = q.text[i]
        /\ q.in_flight = 0 => q.computed < Len(q.text)

\* The text of a session holds the chunks its client sent, each once and in order, and
\* the others still wait in streaming_queue.
InputInOrder ==
  \A r \in Reqs : Live(r) =>
    LET q == req[r]
    IN  /\ Off(q.text, {"out"} \X Nat \X Nat)
              = [i \in 1 .. q.turn * ChunkLen |->
                   <<"in", 1 + ((i - 1) \div ChunkLen), 1 + ((i - 1) % ChunkLen)>>]
        /\ Off(q.updates, {End})
              = [i \in 1 .. sent[r] - q.turn |-> q.turn + i]

\* Every turn ends: a live request that does not wait for its client is answered, or
\* fails, unless clients of paused sessions hold every row.
EveryTurnEnds ==
  \A r \in Reqs : (Live(r) /\ ~Paused(r))
                  ~> (~Live(r) \/ Paused(r) \/ num_waiting_for_streaming_input >= MaxRunning)

\* What the comment above the row limit of schedule() claims: counting paused sessions,
\* which "still hold a model-runner request slot", keeps the worker within its slots.  It
\* does not hold (README, section 5): a session whose next turn waits is not counted.
SlotsFit == Cardinality(slots) <= MaxRunning
=============================================================================
