--------------------------- MODULE PipelineRelay ---------------------------
(***************************************************************************)
(* Pipeline stages that agree without talking to each other: the request   *)
(* states of GPUModelRunner (patches/model_runner.py) on every stage, and  *)
(* the relay that tells the other stages what the last one sampled.        *)
(*                                                                         *)
(* A stage runs the steps in the order of the scheduler, one behind the    *)
(* other.  It advances its request states as if no draft were rejected;    *)
(* the last stage samples, proposes drafts and broadcasts both, and the    *)
(* others apply a broadcast PPSize steps after the step it belongs to,     *)
(* which is when the scheduler may schedule the request's next decode      *)
(* (next_decode_eligible_step).  PPHandler is external; its rules here are *)
(* those that the runner's calls and comments rely on.                     *)
(*                                                                         *)
(* A token and a block of drafts are named by the step that made them.     *)
(***************************************************************************)
EXTENDS Integers, Sequences, FiniteSets

CONSTANTS
  NumReqs,      \* requests are 1 .. NumReqs, the order of their ids
  PromptLen,    \* tokens of a prompt
  NumSpec,      \* drafts of a decode step
  PPSize,       \* pipeline stages
  MaxSlots,     \* max_num_reqs, request slots of a runner
  MaxInFlight,  \* steps issued and not yet answered
  MaxDropped,   \* bound on the requests aborted or preempted
  MaxSteps      \* bound on the steps issued

ASSUME RelayAssumption ==
  /\ NumReqs \in Nat \ {0} /\ PromptLen \in Nat \ {0} /\ NumSpec \in Nat
  /\ PPSize \in Nat \ {0, 1} /\ MaxSlots \in Nat \ {0} /\ MaxInFlight \in Nat \ {0}
  /\ MaxDropped \in Nat /\ MaxSteps \in Nat

Reqs  == 1 .. NumReqs
Ranks == 0 .. PPSize - 1
Last  == PPSize - 1
Slots == 0 .. MaxSlots - 1

VARIABLES
  current_step, \* Scheduler.current_step
  req,          \* the scheduler's request states
  flush,        \* requests whose slots the next step frees
  batches,      \* steps issued and not yet answered, oldest first
  stage,        \* the runner of each stage
  wire,         \* for each stage before the last, the broadcasts it has not consumed
  dropped       \* aborts and preemptions so far

vars == <<current_step, req, flush, batches, stage, wire, dropped>>

----------------------------------------------------------------------------
(* Steps.                                                                  *)

\* A row of a step: n tokens from `base' on; "chunk" is a prefill chunk that is not the
\* last, "final" the last one, "decode" a sampled token and its drafts.
RowType == [kind : {"none", "chunk", "final", "decode"}, n : Nat, base : Nat]
NoRow == [kind |-> "none", n |-> 0, base |-> 0]
\* execute_model_state: what execute_model leaves for sample_tokens.
NoInput == [row |-> [r \in Reqs |-> NoRow]]

InBatch(b) == {r \in Reqs : b.row[r].kind # "none"}
Samples(b, r) == b.row[r].kind \in {"final", "decode"}
HasPrefill(b) == \E r \in InBatch(b) : b.row[r].kind # "decode"

\* The batch of step k, while it is in flight.
Oldest == current_step - Len(batches) + 1
BatchOf(k) == batches[k - Oldest + 1]

----------------------------------------------------------------------------
(* The runner of a stage.  A slot holds the owner's computed tokens on the *)
(* GPU, its last sampled token, its drafts and, on the last stage, the     *)
(* number of drafts rejected in its latest step.                           *)

NoOwner == 0
\* Drafts that the worker fills in where it did not propose: never accepted.
BOS == 0

EmptySlot == [owner |-> NoOwner, computed |-> 0, last |-> 0, drafts |-> BOS]

SlotOf(table, r) == CHOOSE s \in Slots : table[s].owner = r
Holds(table, r) == \E s \in Slots : table[s].owner = r

Ascending(S) ==
  CHOOSE q \in [1 .. Cardinality(S) -> S] : \A i, j \in DOMAIN q : i < j => q[i] < q[j]

\* PPHandler.on_req_idx_freed.  Mutant: a broadcast still to come reaches the slot anyway.
Masked_Never(pending, freed) == pending
\* A freed slot takes no part in the broadcasts still to come.
Masked(pending, freed) ==
  [i \in DOMAIN pending |->
     [pending[i] EXCEPT !.slot = [r \in Reqs |-> IF @[r] \in freed THEN -1 ELSE @[r]]]]

\* finish_requests: the slots of finished and of preempted requests, in the order of the ids.
Freed(st, S) ==
  LET gone  == Ascending({r \in S : Holds(st.table, r)})
      order == [i \in DOMAIN gone |-> SlotOf(st.table, gone[i])]
      freed == {order[i] : i \in DOMAIN order}
  IN  [st EXCEPT !.table = [s \in Slots |-> IF s \in freed THEN EmptySlot ELSE @[s]],
                 !.free = @ \o order, !.pending = Masked(@, freed)]

\* add_requests: the newest free slot first.
Added(st, new) ==
  LET added == Ascending(new)
      n     == Len(added)
      SlotFor(i) == st.free[Len(st.free) + 1 - i]
  IN  [st EXCEPT !.table = [s \in Slots |->
                    IF \E i \in 1 .. n : SlotFor(i) = s
                      THEN [EmptySlot EXCEPT !.owner = added[CHOOSE i \in 1 .. n : SlotFor(i) = s]]
                      ELSE @[s]],
                 !.free = SubSeq(@, 1, Len(@) - n)]

\* Mutant: the drafts are sent first.
SendOrder_DraftFirst(proposed) == <<"draft", "sampled", "combined">>
\* Mutant: a step that proposed nothing sends no drafts.
SendOrder_Proposals(proposed) ==
  IF proposed THEN <<"sampled", "combined", "draft">> ELSE <<"sampled", "combined">>
\* The broadcasts of a step (broadcast, broadcast_draft), whether it proposed drafts or
\* filled them in, and the receives that a stage posts for it.
SendOrder(proposed) == <<"sampled", "combined", "draft">>
ReceiveOrder == <<"sampled", "combined", "draft">>

\* Mutant: the entry of the broadcast stays.
Consumed_Never(pending) == pending
\* get_prev_sampled_outputs hands each broadcast out once.
Consumed(pending) == Tail(pending)

\* update_pp_decode_requests: the broadcasts in `got' reach the slots that were noted when
\* the step of `entry' ended.  The computed tokens lose the rejected drafts.
Relayed(st, entry, got) ==
  LET Part(kind) == got[CHOOSE i \in DOMAIN got : ReceiveOrder[i] = kind].data
      to(s) == {r \in Reqs : entry.slot[r] = s}
      Updated(slot, r) == [slot EXCEPT !.computed = @ - Part("combined")[r],
                                       !.last = Part("sampled")[r],
                                       !.drafts = Part("draft")[r]]
  IN  [st EXCEPT !.table = [s \in Slots |->
                    IF to(s) = {} THEN @[s] ELSE Updated(@[s], CHOOSE r \in to(s) : TRUE)],
                 !.pending = Consumed(@)]

\* What the forward pass of a stage reads for r: its slot, the positions from its computed
\* tokens on, the token that was sampled last and the drafts behind it; `bound' is what
\* the CPU counts.
View(st, b) ==
  [r \in InBatch(b) |->
     LET slot == st.table[SlotOf(st.table, r)]
     IN  [slot |-> SlotOf(st.table, r), computed |-> slot.computed, bound |-> b.row[r].base,
          last |-> IF b.row[r].kind = "decode" THEN slot.last ELSE 0,
          drafts |-> IF b.row[r].kind = "decode" THEN slot.drafts ELSE BOS]]

\* A broadcast of an earlier step is due.
Due(p) == stage[p].pending # <<>> /\ Head(stage[p].pending).step = stage[p].next - PPSize
Arrived(p) == Len(wire[p]) >= Len(ReceiveOrder)

\* The stage has run the forward pass of step k.
ComputedBy(p, k) == stage[p].next > k \/ (stage[p].next = k /\ stage[p].phase = "sample")

MayExecute(p) ==
  /\ stage[p].phase = "execute" /\ stage[p].next <= current_step
  /\ p > 0 => ComputedBy(p - 1, stage[p].next)
  /\ Due(p) => Arrived(p)

\* execute_model on stage p: the relay, the slots freed, the new requests, the forward pass,
\* which needs the hidden states of the stage before.
Execute(p) ==
  LET k  == stage[p].next
      b  == BatchOf(k)
      n  == Len(ReceiveOrder)
      st == IF Due(p) THEN Relayed(stage[p], Head(stage[p].pending), SubSeq(wire[p], 1, n))
                      ELSE stage[p]
      ready == Added(Freed(st, b.freed), b.new)
  IN  /\ MayExecute(p)
      /\ wire' = IF Due(p) THEN [wire EXCEPT ![p] = SubSeq(@, n + 1, Len(@))] ELSE wire
      /\ stage' = [stage EXCEPT ![p] =
                     IF InBatch(b) = {} THEN [ready EXCEPT !.next = k + 1]
                     ELSE [ready EXCEPT !.phase = "sample", !.input = [row |-> b.row]]]
      /\ batches' = [batches EXCEPT ![k - Oldest + 1].view[p] = View(ready, b)]
      /\ UNCHANGED <<current_step, req, flush, dropped>>

\* Mutant: only decode rows advance, a prefill chunk is left for the relay.
Optimistic_DecodeOnly(b, r) == IF b.row[r].kind = "decode" THEN b.row[r].n ELSE 0
\* postprocess_num_computed_tokens: the whole row counts.
Optimistic(b, r) == b.row[r].n

\* What PPHandler.receive notes of step k: the slots of now of the rows that are sampled.
Posted(st, k) ==
  [step |-> k, slot |-> [r \in Reqs |-> IF Samples(st.input, r) THEN SlotOf(st.table, r) ELSE -1]]

\* The computed tokens after a step, before the relay tells what was rejected.
Advanced(b, table) ==
  [s \in Slots |->
     IF table[s].owner \in InBatch(b)
       THEN [table[s] EXCEPT !.computed = @ + Optimistic(b, table[s].owner)]
       ELSE table[s]]

\* sample_tokens on a stage before the last: receives are posted and the computed tokens
\* advance.
SampleOther(p) ==
  LET st == stage[p]
  IN  /\ p # Last /\ st.phase = "sample"
      /\ stage' = [stage EXCEPT ![p] =
           [st EXCEPT !.phase = "execute", !.next = @ + 1, !.input = NoInput,
                      !.pending = Append(@, Posted(st, st.next)),
                      !.table = Advanced(st.input, @)]]
      /\ UNCHANGED <<current_step, req, flush, batches, wire, dropped>>

\* What step k drafts; BOS is filled in on a step with prefill rows.
Proposal(b, k) == IF HasPrefill(b) THEN BOS ELSE k

\* The drafts a row may lose: nothing is rejected where nothing was drafted, everything
\* where BOS was.
Rejections(b, table, r) ==
  IF b.row[r].kind # "decode" THEN {0}
  ELSE IF table[SlotOf(table, r)].drafts = BOS THEN {NumSpec}
  ELSE 0 .. NumSpec

\* postprocess_sampled and the drafts of the proposal.
Settled(b, table, k, rejected) ==
  LET After(slot) ==
        LET r == slot.owner
        IN  [slot EXCEPT !.computed = @ + b.row[r].n - rejected[r],
                         !.last = IF Samples(b, r) THEN k ELSE @, !.drafts = Proposal(b, k)]
  IN  [s \in Slots |-> IF table[s].owner \in InBatch(b) THEN After(table[s]) ELSE table[s]]

\* The broadcasts of step k, in the order they are sent.
Broadcasts(b, k, rejected) ==
  LET sent == SendOrder(~HasPrefill(b))
      data == [sampled  |-> [r \in Reqs |-> IF r \in InBatch(b) THEN k ELSE 0],
               combined |-> [r \in Reqs |-> IF r \in InBatch(b) THEN rejected[r] ELSE 0],
               draft    |-> [r \in Reqs |-> IF r \in InBatch(b) THEN Proposal(b, k) ELSE 0]]
  IN  [i \in DOMAIN sent |-> [kind |-> sent[i], step |-> k, data |-> data[sent[i]]]]

\* sample_tokens on the last stage: for each row the number of drafts rejected, the slots'
\* new state, and then the broadcasts.
SampleLast ==
  LET st == stage[Last]
      k  == st.next
      b  == st.input
  IN  /\ st.phase = "sample"
      /\ \E rejected \in [InBatch(b) -> 0 .. NumSpec] :
           /\ \A r \in InBatch(b) : rejected[r] \in Rejections(b, st.table, r)
           /\ stage' = [stage EXCEPT ![Last] =
                [st EXCEPT !.phase = "execute", !.next = k + 1, !.input = NoInput,
                           !.table = Settled(b, @, k, rejected)]]
           /\ wire' = [p \in Ranks \ {Last} |-> wire[p] \o Broadcasts(b, k, rejected)]
           /\ batches' = [batches EXCEPT ![k - Oldest + 1].rejected =
                [r \in Reqs |-> IF r \in InBatch(b) THEN rejected[r] ELSE 0]]
      /\ UNCHANGED <<current_step, req, flush, dropped>>

----------------------------------------------------------------------------
(* The scheduler, as far as the stages depend on it.                       *)

NewRequest == [status |-> "waiting", tokens |-> PromptLen, prefill |-> 0, computed |-> 0,
               in_flight |-> 0, eligible |-> 0]
Finished   == [NewRequest EXCEPT !.status = "finished"]

InUse == {r \in Reqs : req[r].status = "running"}

\* Mutant: the next decode is eligible as soon as the answer could be there.
Cadence_Short == PPSize - 1
\* next_decode_eligible_step: PPSize steps between two decodes of a request.
Cadence == PPSize

\* The rows that schedule() may give a request q in step k.
RowsFor(q, k) ==
  LET left == q.prefill - q.computed
      Row(kind, sizes) == [kind : {kind}, n : sizes, base : {q.computed}]
  IN  CASE left > 0                       -> Row("chunk", 1 .. left - 1) \cup Row("final", {left})
        [] left <= 0 /\ k >= q.eligible -> Row("decode", {1 + NumSpec})
        [] OTHER                          -> {}

\* A request that is admitted computes all the tokens it has.
Admitted(q) == [q EXCEPT !.status = "running", !.prefill = q.tokens]

\* After the step: the computed tokens and the step of the next decode.
Scheduled(q, row, k) ==
  [q EXCEPT !.computed = @ + row.n, !.in_flight = @ + (IF row = NoRow THEN 0 ELSE 1),
            !.eligible = IF row.kind \in {"final", "decode"} THEN k + Cadence ELSE @]

\* schedule(): new requests that fit and wait for no answer, and any of those that may run:
\* the budgets leave some out, but never all.
Schedule ==
  LET k == current_step + 1
  IN  /\ k <= MaxSteps /\ Len(batches) < MaxInFlight
      /\ \E new \in SUBSET {r \in Reqs : req[r].status = "waiting" /\ req[r].in_flight = 0} :
           LET now     == [r \in Reqs |-> IF r \in new THEN Admitted(req[r]) ELSE req[r]]
               here    == InUse \cup new
               rows(r) == IF r \notin here THEN {NoRow}
                          ELSE RowsFor(now[r], k) \cup (IF r \in new THEN {} ELSE {NoRow})
           IN  /\ Cardinality(here) <= MaxSlots
               /\ here \cup flush # {}
               /\ \E row \in [Reqs -> UNION {rows(r) : r \in Reqs}] :
                    /\ \A r \in Reqs : row[r] \in rows(r)
                    /\ (\E r \in Reqs : row[r] # NoRow) \/ \A r \in Reqs : rows(r) = {NoRow}
                    /\ req' = [r \in Reqs |-> Scheduled(now[r], row[r], k)]
                    /\ batches' = Append(batches,
                         [row |-> row, new |-> new, freed |-> flush,
                          view |-> [p \in Ranks |-> <<>>], rejected |-> [r \in Reqs |-> 0]])
      /\ current_step' = k /\ flush' = {}
      /\ UNCHANGED <<stage, wire, dropped>>

\* Tokens that a row of the batch adds to its request.
NewTokens(b, r) ==
  CASE b.row[r].kind = "decode" -> b.row[r].n - b.rejected[r]
    [] b.row[r].kind = "final"  -> 1
    [] OTHER                    -> 0

\* update_from_output() for the oldest step; a request may stop at what was sampled.
\* Rejected drafts are taken off the computed tokens unless a preemption reset them.
Answer ==
  LET b == Head(batches)
  IN  /\ batches # <<>> /\ stage[Last].next > Oldest
      /\ \E stop \in SUBSET {r \in InBatch(b) : Samples(b, r) /\ req[r] # Finished} :
           /\ req' = [r \in Reqs |->
                IF r \in stop THEN Finished
                ELSE IF r \notin InBatch(b) \/ req[r] = Finished THEN req[r]
                ELSE [req[r] EXCEPT
                        !.in_flight = @ - 1, !.tokens = @ + NewTokens(b, r),
                        !.computed = IF req[r].status = "running" THEN @ - b.rejected[r] ELSE @]]
           /\ flush' = flush \cup stop
      /\ batches' = Tail(batches)
      /\ UNCHANGED <<current_step, stage, wire, dropped>>

\* A client disconnects.
Abort(r) ==
  /\ r \in InUse /\ dropped < MaxDropped /\ dropped' = dropped + 1
  /\ req' = [req EXCEPT ![r] = Finished] /\ flush' = flush \cup {r}
  /\ UNCHANGED <<current_step, batches, stage, wire>>

\* _preempt_request: all tokens are computed again, once the output in flight is drained.
Preempt(r) ==
  /\ r \in InUse /\ dropped < MaxDropped /\ dropped' = dropped + 1
  /\ req' = [req EXCEPT ![r].status = "waiting", ![r].computed = 0]
  /\ flush' = flush \cup {r}
  /\ UNCHANGED <<current_step, batches, stage, wire>>

----------------------------------------------------------------------------
Init ==
  /\ current_step = 0 /\ req = [r \in Reqs |-> NewRequest] /\ flush = {} /\ batches = <<>>
  /\ stage = [p \in Ranks |-> [next |-> 1, phase |-> "execute", input |-> NoInput,
                               pending |-> <<>>,
                               table |-> [s \in Slots |-> EmptySlot],
                               free |-> [i \in 1 .. MaxSlots |-> i - 1]]]
  /\ wire = [p \in Ranks \ {Last} |-> <<>>] /\ dropped = 0

Run(p) == Execute(p) \/ SampleOther(p) \/ (p = Last /\ SampleLast)

Next == \/ Schedule \/ Answer
        \/ \E p \in Ranks : Run(p)
        \/ \E r \in Reqs : Abort(r) \/ Preempt(r)

Spec == Init /\ [][Next]_vars

----------------------------------------------------------------------------
(* Properties.                                                             *)

SlotType == [owner : Reqs \cup {NoOwner}, computed : Nat, last : Nat, drafts : Nat]
RequestType == [status : {"waiting", "running", "finished"}, tokens : Nat, prefill : Nat,
                computed : Nat, in_flight : Nat, eligible : Nat]

TypeOK ==
  /\ current_step \in 0 .. MaxSteps /\ req \in [Reqs -> RequestType] /\ flush \subseteq Reqs
  /\ \A i \in DOMAIN batches : /\ batches[i].row \in [Reqs -> RowType]
                               /\ batches[i].new \subseteq Reqs /\ batches[i].freed \subseteq Reqs
                               /\ batches[i].rejected \in [Reqs -> 0 .. NumSpec]
  /\ \A p \in Ranks : /\ stage[p].table \in [Slots -> SlotType] /\ stage[p].free \in Seq(Slots)
                       /\ stage[p].phase \in {"execute", "sample"}
                       /\ Len(stage[p].pending) <= PPSize
  /\ dropped \in 0 .. MaxDropped

Executed(b) == {p \in Ranks : b.view[p] # <<>>}

\* All stages read the same for every row of a step, though they run it at different times
\* and only the last knows what was sampled: slot, positions, last token and drafts.  The
\* relay may not come late, reach a slot with a new owner, or be missed.
StagesAgree ==
  \A i \in DOMAIN batches : \A p, q \in Executed(batches[i]) :
    batches[i].view[p] = batches[i].view[q]

\* The CPU counts of a step bound what the GPU has computed, on every stage
\* (seq_lens_cpu_upper_bound), and are exact for prefill rows, whose tokens they select.
BoundHolds ==
  \A i \in DOMAIN batches : \A p \in Executed(batches[i]) : \A r \in InBatch(batches[i]) :
    LET v == batches[i].view[p][r]
    IN  /\ v.computed <= v.bound
        /\ batches[i].row[r].kind # "decode" => v.computed = v.bound

\* NCCL pairs sends and receives by their order alone: each broadcast meets the receive of
\* its kind and its step (the comment above broadcast_draft).
RelayPairs ==
  \A p \in Ranks \ {Last} : \A i \in DOMAIN wire[p] :
    LET n == Len(ReceiveOrder)
        e == 1 + ((i - 1) \div n)
    IN  e <= Len(stage[p].pending) =>
          /\ wire[p][i].step = stage[p].pending[e].step
          /\ wire[p][i].kind = ReceiveOrder[1 + ((i - 1) % n)]

\* No stage waits for ever, the others for the broadcasts of the last and the last for the
\* hidden states of the others: while a step is not answered some stage, or the engine, can
\* go on, and each of them goes on a bounded number of times.
NoStageStuck ==
  batches # <<>> => \/ stage[Last].next > Oldest
                    \/ \E p \in Ranks : stage[p].phase = "sample" \/ MayExecute(p)
=============================================================================
