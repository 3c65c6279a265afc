---------------------------- MODULE DeferredFree ----------------------------
(***************************************************************************)
(* Deferred freeing of KV blocks in the scheduler (patches/scheduler.py,   *)
(* defer_block_free): with several batches on the GPU and a connector that *)
(* fills blocks on its own, outside the GPU's order, a freed block returns *)
(* to the pool only when the last step that may touch it has been          *)
(* answered.  sched_step_seq numbers the dispatched steps,                 *)
(* processed_step_seq the answered ones; a block given up too early waits  *)
(* in the FIFO deferred_frees behind a fence.                              *)
(*                                                                         *)
(* Blocks have identities here and requests hold sets of them; lengths,    *)
(* budgets and token counts are the subject of Scheduler.  The iterations  *)
(* of schedule() are actions; update_from_output(), finish_requests() and  *)
(* reset_prefix_cache() are one action each.                               *)
(***************************************************************************)
EXTENDS Integers, Sequences, FiniteSets

CONSTANTS
  Reqs,          \* the requests
  Blocks,        \* the KV blocks, without the null block
  MaxInFlight,   \* batches dispatched and not yet answered
  MaxSteps,      \* bound on the non-empty steps
  Loads,         \* the connector may load a prefix asynchronously
  Copies,        \* partial prefix hits are on: a hit may copy a block
  Stores,        \* the connector may keep a finished request's blocks
  Resets         \* reset_prefix_cache(reset_running_requests=True) is called

ASSUME DeferAssumption ==
  /\ MaxInFlight \in Nat \ {0} /\ MaxSteps \in Nat
  /\ Loads \in BOOLEAN /\ Copies \in BOOLEAN /\ Stores \in BOOLEAN
  /\ Resets \in BOOLEAN

VARIABLES
  status,     \* status of each request
  held,       \* blocks on which the request has a reference
  own,        \* those of them that were allocated for it, so that it writes them
  last,       \* last_sched_seq
  loading,    \* blocks the connector is filling for the request
  cached,     \* blocks a prefix lookup may find
  sched,      \* sched_step_seq
  processed,  \* processed_step_seq
  deferred,   \* deferred_frees, oldest first
  flight,     \* non-empty steps on the GPU, oldest first
  step,       \* the schedule() call in progress
  reset       \* outcome of the last reset_prefix_cache()

vars == <<status, held, own, last, loading, cached, sched, processed, deferred,
          flight, step, reset>>

Statuses == {"WAITING", "REMOTE", "RECEIVED", "PROMOTED", "RUNNING",
             "PREEMPTED", "DELAYED", "FINISHED"}
  \* REMOTE: WAITING_FOR_REMOTE_KVS; RECEIVED: and in finished_recving_kv_req_ids;
  \* PROMOTED: waiting again, its loaded blocks in hand; DELAYED: finished, its
  \* blocks kept until the connector reports

NoStep == [phase |-> "idle", reqs |-> {}, retained |-> {}, preempted |-> FALSE]

\* In the pool is what nobody has a reference on.
Referenced(h, d, s) ==
  (UNION {h[r] : r \in Reqs}) \cup (UNION {d[i].blocks : i \in DOMAIN d}) \cup s.retained

Pool == Blocks \ Referenced(held, deferred, step)

----------------------------------------------------------------------------
(* Giving blocks up.                                                       *)

\* A mutant: the last step counts as answered one step early.
Fenced_Early(rs, p) == {r \in rs : last[r] > p + 1 /\ held[r] # {}}

\* The requests of rs whose blocks a step after p may still write.
Fenced(rs, p) == {r \in rs : last[r] > p /\ held[r] # {}}

\* A mutant: the entry is fenced on the step before the answered one.
FreeBlocks_PassedFence(d, rs, p) ==
  IF Fenced(rs, p) = {} THEN d
  ELSE Append(d, [fence |-> p - 1, blocks |-> UNION {held[r] : r \in Fenced(rs, p)}])

\* _free_request_blocks: requests with no step after p drop their references, the
\* others' go to the end of d.  Requests freed by one call share a fence, so one
\* entry stands for theirs.
FreeBlocks(d, rs, p) ==
  IF Fenced(rs, p) = {} THEN d
  ELSE Append(d, [fence |-> sched, blocks |-> UNION {held[r] : r \in Fenced(rs, p)}])

\* A mutant: an entry whose fence has just been reached stays.
Drained_FenceItself(d, p) ==
  LET Pending == {i \in DOMAIN d : d[i].fence >= p}
      First == CHOOSE i \in Pending : \A j \in Pending : i <= j
  IN  IF Pending = {} THEN <<>> ELSE SubSeq(d, First, Len(d))

\* A mutant: one entry is taken per answer, not every satisfied one.
Drained_OneEntry(d, p) ==
  IF d # <<>> /\ Head(d).fence <= p THEN Tail(d) ELSE d

\* _drain_deferred_frees: from the first entry whose fence is still pending.
Drained(d, p) ==
  LET Pending == {i \in DOMAIN d : d[i].fence > p}
      First == CHOOSE i \in Pending : \A j \in Pending : i <= j
  IN  IF Pending = {} THEN <<>> ELSE SubSeq(d, First, Len(d))

\* The table of a request set rs is dropped.
Dropped(h, rs) == [r \in Reqs |-> IF r \in rs THEN {} ELSE h[r]]

----------------------------------------------------------------------------
(* schedule().                                                             *)

BeginSchedule ==
  /\ step.phase = "idle"
  /\ Len(flight) < MaxInFlight
  /\ sched < MaxSteps
  /\ step' = [NoStep EXCEPT !.phase = "running"]
  /\ UNCHANGED <<status, held, own, last, loading, cached, sched, processed,
                 deferred, flight, reset>>

\* allocate_slots for r: the blocks new leave the pool for r, and the blocks hit
\* get one more reference.  Full blocks are cached as soon as they are allocated.
Allocate(r, hit, new) ==
  /\ held' = [held EXCEPT ![r] = @ \cup hit \cup new]
  /\ own' = [own EXCEPT ![r] = @ \cup new]

\* The running pass: r grows by at most one block.
ScheduleRunning(r) ==
  /\ step.phase = "running"
  /\ status[r] = "RUNNING" /\ r \notin step.reqs
  /\ \E new \in SUBSET Pool :
       /\ Cardinality(new) <= 1
       /\ Allocate(r, {}, new)
       /\ cached' = (cached \ new) \cup own'[r]
  /\ step' = [step EXCEPT !.reqs = @ \cup {r}]
  /\ UNCHANGED <<status, last, loading, sched, processed, deferred, flight, reset>>

\* _preempt_request: a running request needs a block and the pool has none.  Under
\* PRIORITY the victim may be a request this step had already scheduled.
Preempt(r) ==
  /\ step.phase = "running"
  /\ Pool = {}
  /\ status[r] = "RUNNING"
  /\ \E needy \in Reqs : status[needy] = "RUNNING" /\ needy \notin step.reqs
  /\ deferred' = FreeBlocks(deferred, {r}, processed)
  /\ held' = Dropped(held, {r})
  /\ own' = Dropped(own, {r})
  /\ status' = [status EXCEPT ![r] = "PREEMPTED"]
  /\ step' = [step EXCEPT !.reqs = @ \ {r}, !.preempted = TRUE]
  /\ UNCHANGED <<last, loading, cached, sched, processed, flight, reset>>

\* The waiting pass runs only if the running pass preempted nobody.
InWaitingPass == step.phase \in {"running", "waiting"} /\ ~step.preempted

Queued(r) == status[r] \in {"WAITING", "PREEMPTED"}

\* A request is admitted.  Its prefix lookup hits blocks of the cache; if the hit
\* ends inside a block (from), that block is retained and copied into a new one.
Admit(r) ==
  /\ InWaitingPass
  /\ Queued(r)
  /\ \E hit \in SUBSET cached, from \in SUBSET cached :
       /\ Cardinality(from) <= (IF Copies THEN 1 ELSE 0)
       /\ from \cap hit = {}
       /\ \E new \in SUBSET (Pool \ (hit \cup from)) :
            /\ Cardinality(new) = 1
            /\ Allocate(r, hit, new)
            /\ cached' = (cached \ new) \cup own'[r]
       /\ step' = [step EXCEPT !.phase = "waiting", !.reqs = @ \cup {r},
                               !.retained = @ \cup from]
  /\ status' = [status EXCEPT ![r] = "RUNNING"]
  /\ UNCHANGED <<last, loading, sched, processed, deferred, flight, reset>>

\* A request whose prefix the connector will load gets its blocks now and is not
\* scheduled; its new blocks are not cached yet (delay_cache_blocks), and a hit
\* that ends inside a block is dropped first, so nothing is copied.
AdmitLoad(r) ==
  /\ Loads
  /\ InWaitingPass
  /\ Queued(r)
  /\ \E hit \in SUBSET cached :
       \E new \in SUBSET (Pool \ hit) :
         /\ Cardinality(new) = 1
         /\ Allocate(r, hit, new)
         /\ loading' = [loading EXCEPT ![r] = new]
         /\ cached' = cached \ new
  /\ status' = [status EXCEPT ![r] = "REMOTE"]
  /\ step' = [step EXCEPT !.phase = "waiting"]
  /\ UNCHANGED <<last, sched, processed, deferred, flight, reset>>

\* _update_waiting_for_remote_kv after a load that succeeded: the blocks enter the
\* cache and the request waits with them in hand.
Promote(r) ==
  /\ InWaitingPass
  /\ status[r] = "RECEIVED"
  /\ cached' = cached \cup own[r]
  /\ status' = [status EXCEPT ![r] = "PROMOTED"]
  /\ step' = [step EXCEPT !.phase = "waiting"]
  /\ UNCHANGED <<held, own, last, loading, sched, processed, deferred, flight, reset>>

\* The same after a load that failed altogether: the blocks are freed at once,
\* without a fence.
PromoteFailed(r) ==
  /\ InWaitingPass
  /\ status[r] = "RECEIVED"
  /\ held' = Dropped(held, {r})
  /\ own' = Dropped(own, {r})
  /\ status' = [status EXCEPT ![r] = "WAITING"]
  /\ step' = [step EXCEPT !.phase = "waiting"]
  /\ UNCHANGED <<last, loading, cached, sched, processed, deferred, flight, reset>>

\* A request that got its prefix is admitted.
AdmitPromoted(r) ==
  /\ InWaitingPass
  /\ status[r] = "PROMOTED"
  /\ \E new \in SUBSET Pool :
       /\ Cardinality(new) <= 1
       /\ Allocate(r, {}, new)
       /\ cached' = (cached \ new) \cup own'[r]
  /\ status' = [status EXCEPT ![r] = "RUNNING"]
  /\ step' = [step EXCEPT !.phase = "waiting", !.reqs = @ \cup {r}]
  /\ UNCHANGED <<last, loading, sched, processed, deferred, flight, reset>>

\* A mutant: the fence is the number of the last step, not of the one to come.
Retain_LastStep(d, blocks) ==
  IF blocks = {} THEN d ELSE Append(d, [fence |-> sched, blocks |-> blocks])

\* _free_cow_retained_blocks, called before the step has its number.
Retain(d, blocks) ==
  IF blocks = {} THEN d ELSE Append(d, [fence |-> sched + 1, blocks |-> blocks])

\* last_sched_seq of the scheduled requests, by _update_after_schedule.
Stamped == [r \in Reqs |-> IF r \in step.reqs THEN sched' ELSE last[r]]

\* The end of schedule(): the blocks copied from are fenced, a step with tokens
\* gets the next number and goes to the GPU.
Dispatch ==
  /\ step.phase # "idle"
  /\ deferred' = Retain(deferred, step.retained)
  /\ IF step.reqs = {}
     THEN UNCHANGED <<sched, last, flight>>
     ELSE /\ sched' = sched + 1
          /\ last' = Stamped
          /\ flight' = Append(flight,
               [reqs |-> step.reqs,
                uses |-> (UNION {own[r] : r \in step.reqs}) \cup step.retained])
  /\ step' = NoStep
  /\ UNCHANGED <<status, held, own, loading, cached, processed, reset>>

----------------------------------------------------------------------------
(* update_from_output(), the connector, clients.                           *)

\* The oldest step is answered: its fence is passed, then some of its requests
\* stop.  A connector that stores their KV delays the free.
Update ==
  /\ step.phase = "idle"
  /\ flight # <<>>
  /\ processed' = processed + 1
  /\ \E stop \in SUBSET {r \in Head(flight).reqs : status[r] \in {"RUNNING", "PREEMPTED"}} :
       \E kept \in SUBSET stop :
         /\ kept # {} => Stores
         /\ deferred' = FreeBlocks(Drained(deferred, processed'), stop \ kept, processed')
         /\ held' = Dropped(held, stop \ kept)
         /\ own' = Dropped(own, stop \ kept)
         /\ status' = [r \in Reqs |-> IF r \in kept THEN "DELAYED"
                                      ELSE IF r \in stop THEN "FINISHED"
                                      ELSE status[r]]
  /\ flight' = Tail(flight)
  /\ UNCHANGED <<last, loading, cached, sched, step, reset>>

\* The connector reports a load it has finished (finished_recving).  The blocks of
\* a request that was aborted meanwhile are freed now.
LoadDone(r) ==
  /\ step.phase = "idle"
  /\ loading[r] # {}
  /\ loading' = [loading EXCEPT ![r] = {}]
  /\ \/ /\ status[r] = "REMOTE"
        /\ status' = [status EXCEPT ![r] = "RECEIVED"]
        /\ UNCHANGED <<held, own, deferred>>
     \/ /\ status[r] = "DELAYED"
        /\ status' = [status EXCEPT ![r] = "FINISHED"]
        /\ deferred' = FreeBlocks(deferred, {r}, processed)
        /\ held' = Dropped(held, {r})
        /\ own' = Dropped(own, {r})
  /\ UNCHANGED <<last, cached, sched, processed, flight, step, reset>>

\* The connector reports a store it has finished (finished_sending).
StoreDone(r) ==
  /\ step.phase = "idle"
  /\ status[r] = "DELAYED" /\ loading[r] = {}
  /\ status' = [status EXCEPT ![r] = "FINISHED"]
  /\ deferred' = FreeBlocks(deferred, {r}, processed)
  /\ held' = Dropped(held, {r})
  /\ own' = Dropped(own, {r})
  /\ UNCHANGED <<last, loading, cached, sched, processed, flight, step, reset>>

\* finish_requests: the client has gone.  A load that still runs keeps the blocks.
Abort(r) ==
  /\ step.phase = "idle"
  /\ status[r] \notin {"DELAYED", "FINISHED"}
  /\ \E kept \in BOOLEAN :
       /\ kept => status[r] = "REMOTE" \/ Stores
       /\ status[r] = "REMOTE" => kept
       /\ IF kept
          THEN UNCHANGED <<held, own, deferred>>
          ELSE /\ deferred' = FreeBlocks(deferred, {r}, processed)
               /\ held' = Dropped(held, {r})
               /\ own' = Dropped(own, {r})
       /\ status' = [status EXCEPT ![r] = IF kept THEN "DELAYED" ELSE "FINISHED"]
  /\ UNCHANGED <<last, loading, cached, sched, processed, flight, step, reset>>

\* reset_prefix_cache(reset_running_requests=True): every running request is
\* preempted, then the block pool refuses if a block is still referenced.
ResetPrefixCache ==
  /\ Resets
  /\ step.phase = "idle"
  /\ UNCHANGED <<last, loading, sched, processed, flight, step>>
  /\ LET hit == {r \in Reqs : status[r] = "RUNNING"}
     IN  /\ deferred' = FreeBlocks(deferred, hit, processed)
         /\ held' = Dropped(held, hit)
         /\ own' = Dropped(own, hit)
         /\ status' = [r \in Reqs |-> IF r \in hit THEN "PREEMPTED" ELSE status[r]]
  /\ IF Pool' = Blocks
     THEN reset' = "ok" /\ cached' = {}
     ELSE reset' = "refused" /\ UNCHANGED cached

----------------------------------------------------------------------------
Init ==
  /\ status = [r \in Reqs |-> "WAITING"]
  /\ held = [r \in Reqs |-> {}]
  /\ own = [r \in Reqs |-> {}]
  /\ last = [r \in Reqs |-> 0]
  /\ loading = [r \in Reqs |-> {}]
  /\ cached = {}
  /\ sched = 0 /\ processed = 0
  /\ deferred = <<>> /\ flight = <<>>
  /\ step = NoStep
  /\ reset = "none"

Next ==
  \/ BeginSchedule
  \/ Dispatch
  \/ Update
  \/ ResetPrefixCache
  \/ \E r \in Reqs :
       \/ ScheduleRunning(r) \/ Preempt(r)
       \/ Admit(r) \/ AdmitLoad(r)
       \/ Promote(r) \/ PromoteFailed(r) \/ AdmitPromoted(r)
       \/ LoadDone(r) \/ StoreDone(r) \/ Abort(r)

Spec == Init /\ [][Next]_vars

\* A schedule() call ends; and the engine core takes the oldest answer whenever
\* its batch queue is full or a schedule() call dispatched nothing, so it cannot
\* go on scheduling for ever without taking one.
Fairness == WF_vars(Dispatch) /\ SF_vars(Update)

LiveSpec == Spec /\ Fairness

----------------------------------------------------------------------------
(* Properties.                                                             *)

\* Every variable has its type.
TypeOK ==
  /\ status \in [Reqs -> Statuses]
  /\ held \in [Reqs -> SUBSET Blocks]
  /\ own \in [Reqs -> SUBSET Blocks]
  /\ last \in [Reqs -> Nat]
  /\ loading \in [Reqs -> SUBSET Blocks]
  /\ cached \in SUBSET Blocks
  /\ sched \in Nat /\ processed \in Nat
  /\ deferred \in Seq([fence : Nat, blocks : SUBSET Blocks])
  /\ flight \in Seq([reqs : SUBSET Reqs, uses : SUBSET Blocks])
  /\ step \in [phase : {"idle", "running", "waiting"}, reqs : SUBSET Reqs,
               retained : SUBSET Blocks, preempted : BOOLEAN]
  /\ reset \in {"none", "ok", "refused"}

\* No step on the GPU writes or copies from a block the connector is filling: "a
\* consumer KV Connector can reallocate and fill those blocks via a load that
\* isn't ordered against that write" (scheduler.py 160-163).
LoadsUndisturbed ==
  \A i \in DOMAIN flight, r \in Reqs : flight[i].uses \cap loading[r] = {}

\* A block goes back to the pool only when no step on the GPU uses it any more,
\* whichever of its holders let go last: the contract of SafeReclaim.
Reclaim == INSTANCE SafeReclaim
  WITH pool <- Pool, flight <- [i \in DOMAIN flight |-> flight[i].uses]

ReclaimsSafely == Reclaim!Spec

\* With nothing on the GPU nothing is left behind a fence: the FIFO, which stops at
\* the first pending entry, strands no block when the engine goes quiet.
NothingStranded ==
  flight = <<>> => deferred = <<>>

\* A block behind a fence is not there for ever.
DeferredReturns ==
  \A b \in Blocks :
    (\E i \in DOMAIN deferred : b \in deferred[i].blocks) ~>
      ~(\E i \in DOMAIN deferred : b \in deferred[i].blocks)

\* "we can reduce the ref count of all the kv blocks to 0 and thus we can make sure
\* the reset is successful" (scheduler.py 2706-2708): with every running request
\* preempted and no load under way the reset is not refused.
ResetSucceeds == reset # "refused"
=============================================================================
