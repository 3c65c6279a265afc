# Verification of the 3090-vLLM patches

The repository patches vLLM so that DeepSeek-V4-Flash-Vision can be served on RTX 3090
cards: tensor parallelism 2, pipeline parallelism 5, the V2 model runner, three draft
tokens per step from a DSpark speculator, at most four requests at a time, and in one of
the start scripts a KV connector that offloads to host memory. The patched Python files in
`src/deepseek-v4-flash-vision/patches/` (written `P/` below) replace files of an installed
vLLM. What they import from vLLM (AsyncScheduler, KVCacheManager, BlockPool, Request,
check_stop, the engine core and its batch queue, the grammar backends, the request states
of the worker) is not in the repository; the modules describe it by how the code in `P/`
uses it, and `PROJECT.json` marks such definitions as external.

## 1. Inventory

| Part | Source | Lines | Modelled in |
|---|---|---|---|
| Scheduler core | `P/scheduler.py` | 3206 | `Scheduler` |
| Streaming sessions, life of a request | `P/scheduler.py` (829-866, 1550-1591, 2134-2226, 2308-2350, 2477-2566, 2947-2981) | - | `Sessions` |
| Encoder inputs (images) | `P/scheduler.py` (480-499, 622-688, 727-746, 1652-1811, 2371-2402) | - | `EncoderInputs` |
| Invalid KV blocks | `P/scheduler.py` (3034-3206) | - | no (section 6) |
| Deferred freeing of KV blocks | `P/scheduler.py` (155-175, 1355-1375, 2610-2660, 2700-2725, 2900-3010) | - | `DeferredFree`, `SafeReclaim` |
| Scheduler output | `P/sched_output.py` | 315 | `Scheduler` (its counts) |
| Structured output manager | `P/structured_output_init.py` | 632 | `StructuredOutput`; its effect on the counters in `Scheduler` |
| Model runner | `P/model_runner.py` | 2292 | `BlockTables` (requests, slots, attention inputs), `PipelineRelay` (stages), `Scheduler` (computed count, row assertion), `EncoderInputs` (its cache of encodings) |
| Block tables | `P/block_table.py` | 368 | `BlockTables` |
| DSpark speculator | `P/dspark_speculator.py` | 357 | no (its drafts are inputs) |
| Sparse attention, workspace lanes | `P/flashinfer_sparse.py` | 912 | no |
| Model, weight loading | `P/model.py` | 1876 | no |
| Vision tower | `P/vision.py` | 163 | no |
| Start scripts, docs | `start-dsv4-*.sh`, `README.md`, `SPEC_VISION_FIX.md`, ... | - | no (they set the shape of the instances) |

For each part: its state, its operations, whom it talks to, what is hard, and what makes it
correct.

**Scheduler core.** State: the queues `running`, `waiting`, `skipped_waiting`; per request a
status, the counters `num_computed_tokens`, `num_in_flight_tokens`,
`num_stale_output_tokens`, `num_output_placeholders`, its drafts, cooldown and blocks; the
pause state; the budgets of the step being built. Operations: `schedule()` (running pass,
preemption, waiting pass, output construction), `update_from_output()`,
`update_draft_token_ids()` and its async twin, `add_request()`, `finish_requests()`,
`reset_prefix_cache()`, `set_pause_state()`. It calls the KV cache manager, the structured
output manager and the connector, and exchanges batches with the workers through the engine
core's queue. Hard: several batches are on the GPU while requests are preempted, resumed,
aborted and reset; draft counts are known late; rejections take back tokens in a later call
than the one that counted them. Correct when: nobody is in two queues or none, output of an
old run is never taken for output of the new one, every sampled token lands on the next
position, budgets and rows hold, blocks are conserved, and everybody finishes.

**Deferred freeing.** State: `sched_step_seq`, `processed_step_seq`, `last_sched_seq` per
request, the FIFO `deferred_frees`, and who references which block. Operations:
`_free_request_blocks`, `_drain_deferred_frees`, `_free_cow_retained_blocks`, the stamping
in `_update_after_schedule`, the connector's reports. Hard: a connector fills blocks outside
the GPU's stream order, so a block freed by a preemption, a stop, an abort or a reset may
still be written by a batch in flight. Correct when: a block used in flight is never in the
pool, a load is never overwritten, and no block stays behind a fence for ever.

**Block tables and the worker's requests.** State: slots of requests, per KV group and slot
a row of kernel blocks and its extent, staged writes, and the persistent tensors the kernels
read. Operations: `finish_requests`, `add_requests`, `update_requests`,
`append_block_ids`, `apply_staged_writes`, `gather_block_tables`, `compute_slot_mappings`,
dummy tables. Hard: slots, rows and batch rows are reused and nothing is reallocated; part
of a write is immediate, part staged; CUDA graphs pad the batch; context parallelism splits
positions over ranks. Correct when: a row holds its owner's blocks, each token is written
once and to its own place, and attention reads the request's own context.

**Structured output manager.** State per request: the grammar matcher, `reasoning_ended`
and `reasoning_end_token_index`. Operations: `grammar_bitmask`, `should_fill_bitmask`,
`should_advance`, `trim_reasoning_for_advance`, `filter_speculative_grammar_tokens`. Hard:
one step commits several tokens, the reasoning may end in the middle of them, and masks are
filled for drafts that may be replaced or be placeholders. Correct when: the matcher has
accepted exactly the committed answer, and never rejects committed tokens.

**Pipeline stages.** State: on every stage the request slots (computed tokens, last token,
drafts), the steps it has run, and the broadcasts it expects. The stages never agree on
anything explicitly: each runs the scheduler's steps in order, one behind the other, and
advances its counts as if every draft were accepted; the last stage samples, proposes and
broadcasts; the others apply a broadcast `pp_size` steps later, which is when the scheduler
may give the request its next decode row. Hard: a slot may be freed and given away while a
broadcast for it is on its way, sends and receives are paired by order alone, and the CPU
counts are only bounds. Correct when: every stage reads the same for every row of a step,
no stage waits for ever.

**Streaming sessions.** State: `streaming_queue` of a request, its text and prompt length,
`num_waiting_for_streaming_input`, the queues. Operations: `add_request` (new, update, end),
`_handle_stopped_request`, `_update_request_as_session`, `finish_requests`, the waiting pass
and the end of `update_from_output`. Clients and the thread that compiles grammars act at
any time. Hard: a turn may end while steps are in flight, the next chunk arrives before,
during or after it, and the text is cut and extended while the KV slots stay. Correct when:
a live request is in exactly one queue, the engine sleeps only when there is nothing to do,
the text is what the client sent and matches the KV, and every turn ends.

**Encoder inputs.** State: which images the cache holds, who refers to them and which may be
thrown out; the encoder budget of the step; the images in the worker's memory. Operations:
`_try_schedule_encoder_inputs`, `_free_encoder_inputs`, preemption and aborts. Hard: an
image is wanted one look-ahead before its tokens and let go one look-ahead after them, while
steps that need it are in flight; requests share images and compete for the room; the worker
hears of an eviction one step late. Correct when: what a step gathers has been encoded and
not yet dropped, the worker's memory is not exceeded, and every prefill gets through.

**Speculator, attention, model, vision tower**: tensor programs with little control state.
Of these the workspace registry (one lane per device and micro-batch) and the assignment of
experts to ranks are worth small models later. The rest has no state machine to check.

## 2. The modules

| Module | What it is |
|---|---|
| `Scheduler` | the scheduler and the part of the worker that answers it |
| `MCScheduler` | its instances |
| `Sums` | sums over the entries of a sequence or function, and a list of a set |
| `SumTheorems` | induction over sets of numbers, and lemmas about sums |
| `SchedulerProofs` | theorems about `Scheduler`: types, outputs, queues, counts in flight |
| `SchedulerStepProofs` | the step being built: slots, blocks, budgets, positions |
| `Sessions`, `MCSessions` | streaming sessions and the life of a request |
| `SessionsProofs` | theorems about `Sessions` |
| `EncoderInputs`, `MCEncoderInputs` | images: budget, cache, look-ahead |
| `SafeReclaim` | abstract contract: a block used by a step in flight is not in the pool |
| `DeferredFree` | the fences and the FIFO, with block identities; implements `SafeReclaim` |
| `MCDeferredFree` | symmetry |
| `DeferredFreeProofs` | theorems about `DeferredFree`, including the refinement |
| `PipelineRelay` | pipeline stages and the relay of samples and drafts |
| `PipelineRelayProofs` | theorems about `PipelineRelay` |
| `BlockTables`, `MCBlockTables` | the worker's block tables |
| `BlockTablesProofs` | theorems about `BlockTables` |
| `StructuredOutput`, `MCStructuredOutput` | the grammar of one request |
| `StructuredOutputProofs` | theorems about `StructuredOutput` |

### Scheduler

`schedule()` and `update_from_output()` are loops; each iteration is an action, and `pc`
says which loop runs. Everything the engine core does is on one thread, so other entry
points need `pc = "idle"`; what overlaps is execution, `batches`, a FIFO of at most
`MaxInFlight`. Tokens are counted, not named.

| Action | Code |
|---|---|
| `BeginStep`, `SkipRunning`, `PickRunning`, `ScheduleRunning`, `PreemptVictim`, `EndRunningPass` | running pass, 501-827 |
| `SkipStale`, `TryAdmit`, `EndWaitingPass` | waiting pass, 829-1270 |
| `FinishStep` | 1272-1455 and `_update_after_schedule`, `AsyncScheduler`'s override |
| `BeginUpdate`, `IgnoreOutput`, `DropOutput`, `DeliverOutput`, `EndUpdate` | `update_from_output`, 1860-2240 |
| `UpdateDrafts` | `update_draft_token_ids`, called by the engine core after a dispatch |
| `AddRequest`, `Abort`, `SetPause`, `BeginReset`/`ResetOne`/`EndReset` | the entry points of the same names |

`PickRunning` computes the tokens of a request in the order of the source: repair of the row
of a decode whose drafts are early, chunk limit, budget and model-length clips, encoder
limit, look-ahead, pad of a multimodal decode. `alloc` is the retry loop around
`allocate_slots`; a PRIORITY victim that was already scheduled in this step hands everything
back (`StepWithoutVictim`). `batches[i].old` is a history variable: the requests preempted
after the batch was scheduled. `runner` is the worker's own count of computed tokens.

### DeferredFree and SafeReclaim

Here blocks have identities and token counts are gone. `held` are references, `own` the
blocks a request writes, `loading` those the connector fills. `Pool` is what nobody
references. Steps on the GPU are records of the requests and blocks they use. `FreeBlocks`
is `_free_request_blocks` for a set of requests freed by one call, `Drained` is
`_drain_deferred_frees`, `Retain` the fence of blocks to be copied, which carries the number
the coming step will have. The mapping to `SafeReclaim` takes `Pool` for `pool` and the used
sets for `flight`.

### Sessions

Tokens have names here: `<<"in", c, i>>` is token `i` of chunk `c`, `<<"out", t, p>>` the
token sampled in turn `t` for position `p`; `kv` is what the KV slots hold. Budgets other
than tokens and rows, and blocks, are replaced by a pool that may be short (`MaxShort`
times): it preempts any tail of `running` or refuses an admission.

The scheduler is AsyncScheduler, which is what is deployed (`SPEC_VISION_FIX.md:75` removes
`--no-async-scheduling`). A step that samples plans its output (`placeholders`) and the drafts
of the next step before either is known, so `Wanted` counts from the end of the planned
output (583-587), and a request has several decode steps in flight, `PPSize` steps apart
(571-575), until its `max_tokens` are planned (554-569). `Wanted` has the transition repair
(595-606) too; under async scheduling it never fires, because planned output keeps the computed
tokens one short. A stop on the end-of-sequence token thus finds later steps in flight.
`MayRest` says which sessions may pause or go on then: all of them with `LateTurns`, those with
no later step without. A turn that ends the session, and any request that is no session, may
stop at every answer in both cases.

| Action | Code |
|---|---|
| `AddRequest`, `QueueUpdate`, `ResumeSession`, `EndSession` | the four branches of `add_request`, 2477-2503 |
| `Abort` | `finish_requests`, 2505-2566 |
| `CompileGrammar` | the grammar's future, on another thread |
| `BeginSchedule` | running pass, 501-827 |
| `SkipHead`, `AdmitHead`, `RefuseHead` | one iteration of the waiting pass, 829-1262 |
| `FinishSchedule` | 1265-1431, `_update_after_schedule`; the worker's slots |
| `BeginUpdate`, `IgnoreOutput`, `TakeOutput` | `update_from_output`, per request |
| `StopRequest`, `ContinueSession`, `PauseSession` | `_handle_stopped_request`, 2334-2350 |
| `EndUpdate` | 2200-2226 |

### EncoderInputs

`Plan` is `_try_schedule_encoder_inputs` with the look-ahead reserve: a fold of `Considered`
over the images in the window. `cache` is the encoder cache manager, external: an image is
held, referred to by requests, or idle; `MadeRoom` throws out the oldest idle ones and tells
the worker with the step. `worker` is the worker's memory after the steps dispatched: drop
first, then encode. A running request that gets no token still refers to the images it
considered, as in the code.

| Action | Code |
|---|---|
| `BeginSchedule`, `PlanRunning`, `ScheduleRunning`, `PreemptVictim`, `EndRunning` | running pass, 528-829 |
| `TryAdmit`, `EndWaiting` | waiting pass, 829-1262 |
| `FinishStep` | 1376-1431, `_update_after_schedule`; `free_states` and the encoder on the worker |
| `Update` | `update_from_output`, `_free_encoder_inputs` |
| `AddRequest`, `Abort` | the entry points of the same names |

### PipelineRelay

`stage[p]` is the runner of stage `p`: the step it is at, whether it computes or samples, its
table of slots, the free list and `pending`, the receives it has posted. `wire[p]` holds the
broadcasts it has not consumed. A batch records what each stage read for its rows (`view`),
a history variable that the properties compare. `Posted` are the receives of a step,
`Broadcasts` what the last stage sends, `Settled` and `Advanced` the two ways the counts move
on: by what was sampled, or by the whole row. The scheduler is reduced to what the stages
depend on: which rows a step may have, the cadence of decodes, and the answers.

| Action | Code |
|---|---|
| `Execute(p)` | `execute_model`, 1607-1660: relay, freed slots, new requests, inputs |
| `SampleOther(p)` | `sample_tokens` on the other stages, 1922-1958 |
| `SampleLast` | `sample_tokens` on the last stage, 1960-2118 |
| `Schedule`, `Answer`, `Abort`, `Preempt` | `scheduler.py`, as far as stages notice |

### BlockTables

`phase` follows `execute_model()`: `FinishRequests`, `AddRequest`s, `UpdateRequest`s,
`ApplyStagedWrites`, `PrepareAttn`, `EndStep`; a `DummyRun` may come between steps. Kernel
blocks are numbers, so the splitting of KV blocks into kernel blocks, the slot arithmetic
and the context-parallel arithmetic are exact. The slot mapping is a function of the state
(`SlotMapping`) because it is computed and used within the step. The allocator is external:
the least free blocks.

### StructuredOutput

One request and one step after the other: `Schedule` (drafts are taken over or replace
placeholders), `FillBitmask`, `Sample` (any number of drafts the masks admit, and any token
for the last row), perhaps `Preempt`, `Commit`. `mode` ranges over reasoning parser or not,
`enable_in_reasoning`, a prompt that has closed the reasoning, images, sync or async drafts.
A matcher is the sequence it has accepted; what it allows is what leads to a sentence.

## 3. Runs

Every bound below is a constant of a `.cfg`, or `RunnerBound` (a state constraint on the
worker's count, which a sampler that is cut for ever would raise without end).

| Run | Instance | What it asks |
|---|---|---|
| `SchedSync` | 3 requests: images, grammar, plain; 2 drafts; chunk limit; look-ahead; prefix hits; one abort; pauses | `RowsCoverDrafts`, `CountersReconcile`, `SlotsCoverTokens`, `BlocksConserved`, `OutputBounded` |
| `SchedAsyncPP` | 2 requests, 2 stages, 3 batches in flight, 6 blocks, 2 resets, aborts, all pause states | `QueuesMatchStatus`, `StaleMeansOldRun`, `InFlightExact`, `SamplesLandNext` |
| `SchedPriority` | 3 requests by priority, 6 blocks, connector that drops stale output, a reset, aborts | `TypeOK`, `BudgetsConserved`, `BudgetsHold`, `SamplesLandNext`, `PositionsInBounds` |
| `SchedLive` | 2 requests, 2 stages, too few blocks for both | `EveryRequestFinishes` |
| `SessionTurns` | 2 sessions, of up to 3 chunks and of 1, one with a grammar; async, 2 stages, 3 batches in flight; 3 output tokens, 1 draft | `QueuesExact`, `WorkDetected`, `ContextMatchesKV`, `InputInOrder`, `EveryTurnEnds` |
| `EncoderWindow` | 2 requests, 3 images of which one is shared, room for 3 tokens of embeddings where the images need 5; prefix hits, aborts, 2 steps in flight | `TypeOK`, `EmbedsPresent`, `WorkerFits`, `EveryPrefillEnds` |
| `DeferSafe` | 2 requests, 2 blocks, 4 steps, 2 in flight; loads, copies, stores, resets | `TypeOK`, `LoadsUndisturbed`, `NothingStranded`, `ReclaimsSafely`, `DeferredReturns` |
| `RelayTwoStages` | 2 requests, 2 slots, 2 stages, 3 steps in flight, 5 steps, 1 draft, one abort or preemption | `StagesAgree`, `BoundHolds`, `RelayPairs`, `NoStageStuck` |
| `TableRows` | 2 requests, 2 slots, 2 groups (one split in two kernel blocks and mapped over 2 ranks), 5 positions | `RowsMatchOwner`, `TokensLandHome`, `ReadsOwnContext` |
| `Grammar` | all modes, 4 tokens, 3 sentences, 2 drafts, at most 5 output tokens | `GrammarFollowsAnswer`, `GrammarNeverRejects`, `EndNoticed` |
| `SchedRows`, `SchedGrammarRunner` | small | one property each, violated: see section 5 |

Why the bounds are enough. Three batches in flight over two stages let a request be
preempted, resumed and preempted again while output of both earlier runs is outstanding. Two
drafts tell apart none, some and all accepted. Prompts of three tokens and four output tokens
give chunked prefills, several decode steps and a stop inside a block. The block counts are
chosen below what all requests need, so that preemption happens, and `BlockSize` 2 puts
boundaries inside and between steps. In `DeferSafe` two blocks for two requests force reuse,
and four steps with two in flight let a fence be pending, passed and overtaken by a later
copy fence. In `TableRows` two requests over two slots, with `MaxLen` 5 over virtual blocks
of four tokens, give every request a full and a started block, and rows longer and shorter
than their predecessors. In `Grammar` sentences of two and three tokens, one a prefix choice
of another, and blocks of up to three let the marker and the end fall on every place of a
block. In `SessionTurns` three chunks give a session a turn after a turn that was itself
extended, three output tokens a decode with an accepted draft; two stages and three batches in flight
put a decode behind the step that samples its token, a second one behind that, and steps
without rows between, so that updates, aborts and preemptions fall between any two answers. In `RelayTwoStages` five
steps are enough for a request to be dropped while its sample is on its way, for the other
to take its slot, and for both to reach a decode; three in flight are one more than the
stages, so that the scheduler runs ahead of the relay. Three stages with one request, seven
steps and four in flight pass as well. In `EncoderWindow` the text between two images is
twice the look-ahead, so that the first can be let go before the second is wanted (section 5
says what happens below that), and a step holds six tokens, more than an image and less than
a prompt. `TypeOK` of `Sessions`, `PipelineRelay`, `BlockTables` and `StructuredOutput` hold
in the same instances; the runs leave them out (those of `BlockTables`, `Sessions` and
`StructuredOutput` are proved, the last as a part of its invariant).

`CHECK_DEADLOCK FALSE` stands where the instance may stop: `DeferSafe` and `RelayTwoStages`
when `MaxSteps` is used up, `Grammar`, `EncoderWindow` and `SessionTurns` when every request
is finished, or every session waits for a client that owes nothing.

In `SchedSync` one batch is in flight: with more, sync scheduling breaks
`RowsCoverDrafts` (section 5). `LongPrefill` is larger than the drafts plus one; below that
the chunk limit cuts the bonus row of a decode just as the clips do. In `Grammar` a request
is preempted only in the modes where `schedule()` sends the drafts the worker holds; section
5 says what happens in the others.

**Fairness.** `SchedLive`: the engine's loop is one thread. A call of `schedule()` or
`update_from_output()` that has begun ends (weak fairness of their steps); the loop
alternates between filling the batch queue and taking its oldest answer, so neither
`BeginStep` nor `BeginUpdate` nor the hand-over of drafts is passed over for ever, although
the others may disable it for a while (strong fairness). Clients, pauses and resets owe
nothing, and the run has none. `DeferSafe`: `Dispatch` weakly, because a call of `schedule()`
ends; `Update` strongly, because the engine core takes the oldest answer whenever its queue
is full or nothing was dispatched. No fairness is assumed of the connector or of aborts.
`SessionTurns` and `EncoderWindow`: weak fairness of the engine's own steps as a whole,
because the engine's loop goes on while it has work, and weak fairness of a compilation,
because its future is resolved; none of clients, and how often the pool is short is bounded.
`EveryTurnEnds` excuses a turn while paused sessions hold every row: only their clients can
end that.

**Mutants.** Each property of each passing run has a mutant in `PROJECT.json`: a definition
with a plausible slip (a fence one step early, a tail that is not cleared, a rejection rolled
back in one counter only) under which the run finds that property violated. Their operators
stand before the definitions they replace and nothing else uses them.

## 4. Proofs

TLAPS proves, for every value of the constants that satisfies the named assumptions
(`RequestAssumption`, `ConfigAssumption`, `DeferAssumption`, `TableAssumption`,
`RelayAssumption`, `StructuredAssumption`, `SessionAssumption`), the theorems below. The assumptions are what the
code takes for granted of its configuration: sizes are positive, kernel blocks divide KV
blocks, a grammar has sentences, each ends in the end token, and the placeholder for an unknown draft is no token (`-1` in the code). What a theorem
needs beyond that stands in its `ASSUME` and in the table.

| Theorem | Says |
|---|---|
| `SchedulerProofs!TypeCorrect` | `Spec => []TypeOK` |
| `SchedulerProofs!OutputStaysBounded` | `Spec => []OutputBounded` |
| `SchedulerProofs!QueuesAlwaysMatch` | `Spec => []QueuesMatchStatus` |
| `SchedulerProofs!CountsStayExact` | `Spec => []InFlightExact` |
| `SchedulerProofs!StaleToldApart` | `Spec => []StaleMeansOldRun` |
| `SchedulerStepProofs!SlotsAlwaysCover` | `Spec => []SlotsCoverTokens` |
| `SchedulerStepProofs!BlocksStayConserved` | `Spec => []BlocksConserved`, for finitely many requests |
| `SchedulerStepProofs!BudgetsStayConserved` | `Spec => []BudgetsConserved`, for finitely many requests |
| `SchedulerStepProofs!BudgetsAlwaysHold` | `Spec => []BudgetsHold`, without images or without drafts |
| `SchedulerStepProofs!PositionsStayInBounds` | `Spec => []PositionsInBounds`, without images or without drafts |
| `SchedulerStepProofs!UnpaddedInBounds` | in every instance, requests without images stay within the model length |
| `DeferredFreeProofs!TypeCorrect` | `Spec => []TypeOK` |
| `DeferredFreeProofs!InFlightNeverPooled` | no block that a step in flight uses is in the pool |
| `DeferredFreeProofs!LoadsNeverDisturbed` | `Spec => []LoadsUndisturbed` |
| `DeferredFreeProofs!NeverStranded` | `Spec => []NothingStranded` |
| `DeferredFreeProofs!Refinement` | `DeferredFree` implements `SafeReclaim` |
| `BlockTablesProofs!TypeCorrect` | `Spec => []TypeOK`; no extent passes the end of its row |
| `BlockTablesProofs!RowsHoldTheirOwner` | `Spec => []RowsMatchOwner` |
| `BlockTablesProofs!TokensAlwaysLandHome` | `Spec => []TokensLandHome` |
| `BlockTablesProofs!ContextAlwaysRead` | `Spec => []ReadsOwnContext` |
| `PipelineRelayProofs!BroadcastsMeetReceives` | `Spec => []RelayPairs` |
| `PipelineRelayProofs!SomeoneGoesOn` | `Spec => []NoStageStuck` |
| `PipelineRelayProofs!StagesReadTheSame` | `Spec => []StagesAgree` |
| `PipelineRelayProofs!CountsBoundTheGPU` | `Spec => []BoundHolds` |
| `SessionsProofs!SessionsTyped` | `Spec => []TypeOK`, for finitely many sessions; this and the next four under the three hypotheses explained below |
| `SessionsProofs!SessionQueuesExact` | `Spec => []QueuesExact` |
| `SessionsProofs!SessionWorkDetected` | `Spec => []WorkDetected` |
| `SessionsProofs!SessionContextMatchesKV` | `Spec => []ContextMatchesKV` |
| `SessionsProofs!SessionInputInOrder` | `Spec => []InputInOrder` |
| `StructuredOutputProofs!MatcherHoldsAnswer` | `Spec => []GrammarFollowsAnswer` |
| `StructuredOutputProofs!EndIsNoticed` | `Spec => []EndNoticed` |
| `StructuredOutputProofs!GrammarNeverSaysNo` | `Spec => []GrammarNeverRejects`, if no request with placeholder drafts is preempted in flight |

*DeferredFree.* `InFlightKept` alone is not inductive: to know that a drain is harmless one
must know that each remaining use is guarded by someone who knows of that step.
`IInv` therefore numbers the steps on the GPU (`StepsNumbered`: the i-th in flight has number
`processed + i`) and says that each block it uses is either owned by a request stamped with
that number or later, or behind a fence of that number or later (`UsesGuarded`). Freeing
moves blocks from the first kind to the second, a drain only removes fences already passed.
`OwnersDiffer` and `LoadsFresh` carry the loads: blocks that the connector fills were not
used by any step since they were allocated, and are neither cached nor retained.
`FencesDispatched` bounds every fence by the last dispatched step, so that with nothing in
flight every entry has been drained: the FIFO is not monotonic, but never ahead.
The refinement treats each action as a `Take`, `Start`, `Return` or `End` of the contract, or
as a stutter.

*Scheduler.* Five invariants, each on top of the one before.

* `IInv` adds to the types where the loop cursor is (`CursorOK`), that only requests that
  arrived are queued (`QueuesArrived`), and the bound on the output per request (`Good`). One
  lemma per action shows that it is preserved; the lemmas before them give the types of the
  operators and say which fields each record update leaves alone.
* `QInv` says of `running`, `waiting`, `skipped_waiting` and the list of those the current
  call passed over that no request stands in two places of them and that the status says
  which one it stands in. `QueuesMatchStatus` is a statement about one sequence, the four put
  together, which no action builds; `QInv` is about the queues one by one, and a lemma per
  kind of move (preempt, admit, pass over, put back, retire, add) carries it.
* `FInv` adds the batches. `InFlightExact` equates two counts of a request with sums over its
  batches in flight, of which the second takes only those marked old. Marking is at a
  preemption and the sum is over what is left, so one must also know that no batch of a
  request's earlier run is behind one of its present run (`OldFirst`), or the oldest batch
  would not be the stale one; that the counts in batches and in the step are of requests that
  exist and not negative (`StepCounted`, `BatchesCounted`); and that the call in progress
  handles requests of the oldest batch only (`TodoOfHead`).
* `CInv` adds the step being built: it counts tokens of running requests only (`StepNow`),
  and has scheduled nobody from the cursor on (`Ahead`), so that a request is counted once.
  With it `SlotsCoverTokens` is inductive: a request that is given tokens has just been given
  blocks for them, and every later change takes tokens and blocks away together.
  `BInv` and `GInv` add the two sums over all requests: blocks, and tokens of the step.
  Each action moves a number between the pool (or a budget) and one request, so one lemma
  each on the change of one term is what those proofs need. A sum over a set is only
  defined for finite sets, hence `IsFiniteSet(Reqs)`.
* `LInv` adds the limits. A decode with images is padded after the clips
  (`scheduler.py:687`), so neither the budgets nor the model length hold for it, as section 5
  says; `BudgetsAlwaysHold` and `PositionsStayInBounds` are about the instances in which
  nothing is padded, without images or without drafts. What the pad cannot disturb is proved
  of every instance: `LInv` holds there, and `UnpaddedInBounds` follows.

*Sums and induction.* Sums over batches and requests are recursive functions of a number. The
library's induction theorems take an operator as a parameter, which the provers here cannot
instantiate; `SumTheorems` states induction of a set instead (`SetInduction`: a set of
numbers that contains 0 and with each number the next contains all; `LeastNumber`), from the
well-foundedness of the naturals, and each lemma on a sum applies it to the set of the
numbers up to which the claim holds. That is enough for sums, for the prefix counts of
`BlockTables` and for the walk of `StructuredOutput`.

*BlockTables.* `RowsMatchOwner` speaks of the end of a step, but a row is made by an immediate
part (the count) and a staged part (the blocks), with other requests' writes in between.
`IInv` therefore speaks of the row as it will be read once the staged writes are applied: for
every request that has a slot it is the request's blocks, expanded, up to the extent
(`SlotsOwned`), and zero behind it. Around that: a staged write lies within the extent of its
row and belongs to a request of this step, the free slots and the slots in use are apart, no
two requests share one, and the blocks of a request never outgrow its row. The lemmas before
are about the arithmetic: how KV blocks expand to kernel blocks, and that a division rounded
up leaves room for the last token.

`RInv` adds to it that the blocks of a request cover what it has computed and is scheduled to
compute (`Covered`), because `allocate_slots` rounds up, and what the gathered rows read in a
forward pass (`Gathered`): the extent of the row of the request's slot, whatever is behind
it, and zero where the batch is padded. `TokensLandHome` then is arithmetic. A position has
coordinates: a round, the rank whose turn it is, and a place in the turn; the interleave and
the number of ranks turn them into the position and back (`Coordinates`). A rank's own
positions are numbered by how many it was dealt before (`Dealt`), which gives the local
place, the kernel block and the slot, and different positions different slots. Where the
tokens of a request begin in the batch is a sum over the requests before it, so intervals of
different requests are disjoint, and what is behind the last maps to the padding slot.
`ReadsOwnContext` reads the same slots through the gathered rows.

*PipelineRelay.* `RelayPairs` alone is not inductive: a broadcast may be on the wire before
its receive is posted, and a stage may be several steps ahead of the last. `Paired` says of a
stage at step `b`, while the last stage is at `a`, that the broadcasts come in threes, that
the i-th three belongs to the i-th receive or, if that is missing, to the step `b` the stage
has computed but not ended, and that the receives beyond those on the wire are exactly the
steps with rows from `a` on. For that one needs `InOrder` (a stage computes a step after the
stages before it, so the last sends nothing for a step that some stage has not computed) and
`WithRows`, the steps in flight with rows; steps leave the window only when the last stage is
past them. Each operation then has one lemma on sequences: consume, mask, skip, begin, post,
send.

`NoStageStuck` needs no more than that invariant. While the oldest step is unanswered and no
stage is about to sample, take the first stage that has not computed the last stage's step
(the least such number, `LeastNumber`): the stages before it have, so its hidden states are
there. If it waits for a broadcast, that is of the step `pp_size` back, which the last
stage has ended, and by `Paired` the broadcast is on the wire.

`StagesAgree` and `BoundHolds` compare stages that run the same step at different times, and
only through what they once read; nothing in a state says what a stage *should* hold. The
invariant, `StagesHold`, therefore says that there are functions `D` and `L` of the step
(`AInv`): `D[k]` is what each request has before step `k` (computed, last token, drafts)
for a stage that has heard of everything sampled so far, and `L[k]` who has which slot and in
which order slots are free.

* `Chained`: each is the one before, moved on by the batch (`Past`, `Laid`), so both are
  determined by the steps in flight, and a batch has slots for its new requests (`Fits`).
* `StagesMatch`: a stage before step `k` has the layout `L[k]`, and its slots hold `D[k]` up to
  the receives still to come: a slot whose request's latest token is that of a posted receive
  holds it once that has come (`SlotWill`), and a receive names the slots of just those
  requests (`Noted`). What is on the wire already counts rejected drafts that the slot does
  not know of; what is not on the wire yet counts none.
* `StepsOK`: a row goes on from what its request has; a decode comes `PPSize` steps or more
  after the row that sampled its token (`RowGood`), which is the scheduler's cadence. No
  receive outstanding at a step is of a step further back than that (`Fresh`), so what a
  decode reads has come. Nobody returns while a step of it is in flight (`NoReturn`).
* `RequestsOK`: the scheduler's count is that of `D` plus the rejections that it has not heard
  of, and no rejection takes a request below its prefill (`Floor`). This is where the bound
  of a row comes from.
* `ViewsOK`: stages that ran a step before the last one has, have read `Seen`, a function of
  `D` and `L`; for the steps behind the last stage it is enough that they agree.

Every action keeps these for functions that may be new. `Schedule` appends one value of each.
When the last stage samples, the rejections it has found were unknown to `D`: all
values behind that step are lowered by them (`Less`), while what other stages have read stays
as it was. That is right only if nobody has yet read the lowered values, and indeed no stage
is more than `PPSize` steps past the last (`NotAhead`), since it waits for the broadcast of
the step `PPSize` back, and no decode of the request is that near. A freed slot leaves the
layout and the receives together, in the same step on every stage, so that a broadcast for
a former owner reaches nobody.

*Sessions.* One invariant, `Inv`, carries all five theorems, because each property leans on
the others: a session that is in two queues is resumed twice, and a text that does not match
its KV is cut in the wrong place. Its parts:

* `Queued`: nobody stands twice in `running` or in the three lists of those that wait, and who
  stands where is a matter of two predicates. A request that stopped in the batch being
  answered keeps its place until the end of `update_from_output()`, and a session may even
  pause meanwhile and stand in two queues; so `Runs` and `Waits` say who is in the lists at
  every point, `StoppedApart` what may be in the sets of the stopped, `NoneLeft` that a call
  leaves nothing behind, and between calls the statuses alone remain, which is `QueuesExact`.
* `PausedCounted`: the counter is the number of paused sessions. With `Queued`, of which
  it is the difference, that gives `WorkDetected`.
* `StepOK` and `FlightOK`: a step has one row for each of its requests, which goes on from what
  the request has computed and ends at most behind its planned output (`RowOf`). `Alive`
  equates `in_flight` with a sum over the batches, and for a running request `RanOK` equates
  `placeholders` with another (`InFlight`, of what is "computed" and of what is "planned").
* `RanOK` and `WaitsOK`: the crux. Behind a row of a request that is sampled there are decode
  steps only (`Ended`), and each of them computes as many tokens as it plans output. So while
  output is planned, `computed` is one short of text and plan together; an answer takes the same
  number from `in_flight` and from `placeholders`, and its rejected drafts from `computed`
  and `placeholders`, which keeps that so for the steps behind it. A request that waits has no
  output planned, and what is in flight for it is stale; for a session nothing is.
  Hence an answer that lets a session pause leaves it one token short of its text
  (`PausedOK`), also if it was the last of a chain of steps that were planned over each other.
* `Held`: the KV slots hold the text up to what was computed and answered. `InputOK`: the text
  without sampled tokens is the input up to the chunk of this turn, and `streaming_queue` the rest of what was
  sent, perhaps with the end of the input behind it.

The operators `Off` (a sequence without some of its entries) and `RunningRows` are recursive
functions, shown to exist up to every length (`OffTo`, with `SetInduction`); the lemmas before
the steps say what they make of a sequence cut short, extended or joined. Each action then
changes one request and its places: one lemma says that the others keep `Alive`, one per
kind of move what becomes of `Queued`, and one per outcome of an answer (rejected drafts,
more text, stopped, paused, continued) what becomes of the request.

`~StaleTurns`, `~CutTurns` and `~LateTurns` are hypotheses because the code goes wrong
otherwise: the findings of section 5 at `scheduler.py:2203`, `scheduler.py:1556`, and
`scheduler.py:2346` with `scheduler.py:1561`, each of which TLC shows. They exclude a preemption
of a session while a step of it is in flight, the stop of its turn before the last accepted
draft, and the pause or the next turn of a session of which a later step is in flight. What
remains is not one step at a time: the decode steps of a session still overlap, with
drafts rejected under those planned over them, and its turn stops on the last of them; other
requests stop, are preempted and are aborted over any number of steps in flight.

*StructuredOutput.* The matcher is advanced in three places: a mask that runs it ahead over the
drafts and takes it back, the filter that tries a sampled block, and the commit. `IInv` says
where it stands between them: `Following` (it holds the committed answer, counted from the
first marker), `Hopeful` (a sentence can still come of it), `EndKnown` (what the manager knows
of the end of the reasoning is what the committed tokens say) and `GoesOn`. These are
enough for the first two theorems: lemmas on the first marker in two sequences put together
say which part of a block is answer, whether the marker stood before the block, in it or
nowhere. `GrammarNeverRejects` also needs what was masked to be what is sampled:
`SpecPlanned` (the rows of a step are the worker's drafts, then placeholders),
`RowsConstrain` (behind drafts that their rows allow, the next row allows exactly what the
grammar does, until a draft ends the sentence) and `BlockSampled`. `RowsConstrain` is proved
of the walk that fills the rows: a recursive function, shown to exist up to every row
(`WalkReaches`), with an induction over rows on where the matcher stands at each. A block of
known drafts then needs no filter, and a filtered block is what the grammar accepts by
construction. The hypothesis of `GrammarNeverSaysNo` is the finding of section 5: output that
is stale is committed unfiltered, so for a request preempted in flight the rows must have been
known, which `schedule()` guarantees only without images and without async drafts.

Only model-checked: liveness (TLAPS does not treat ENABLED); `RowsCoverDrafts`, which is false
in general (section 5) and holds in the instances of `SchedSync`; `CountersReconcile` and
`SamplesLandNext` of `Scheduler`, for which one must know what each batch in flight will
take back from which counter, on the scheduler and (the latter) on the worker; the latter is
also false for requests of the finding at `scheduler.py:2023`, so that it needs an invariant
that tells those apart; and `EncoderInputs`, because its steps are folds of the community
modules over images, and what a fold preserves is proved with an operator as a parameter.

## 5. Where the code and its own words differ

`PROJECT.json` lists them with their lines.

* `SchedRows`: the bonus row that the transition repair grants (`scheduler.py:606`) is taken
  away again by the clips after it, with two sync batches in flight. The worker asserts that
  the row is there (`model_runner.py:1295-1298`).
* `SchedGrammarRunner`: when a grammar cuts an accepted block, only the scheduler rolls its
  count back (`scheduler.py:2023-2027`). The worker samples later positions from then on,
  although the filter's doc says the tail is resampled.

The others are no runs of their own; each is found by TLC when the cfg is changed as said,
with the property as the only invariant.

* `scheduler.py:687`: the pad of a multimodal decode is added after the clips, so a budget
  can fall below zero, against the assertions at 1276-1280. `SchedSync.cfg`,
  invariant `BudgetsHold`.
* `scheduler.py:2721`: a forced reset of the prefix cache with a batch in flight raises,
  because the preempted requests' blocks are behind a fence and still referenced; the comment
  at 2705-2707 says that the preemption makes the reset succeed. `DeferSafe.cfg`, invariant
  `ResetSucceeds`.
* `block_table.py:285`: the tail of a reused slot's row is cleared, but the gathered row that
  the kernels read keeps what an earlier occupant of the batch row left behind the extent.
  `TableRows.cfg`, invariant `GatheredRowsClean`.
* `scheduler.py:2015`: stale output is committed unfiltered, so a grammar request with
  placeholder drafts that is preempted in flight ends in an error. `Grammar.cfg` with
  `Preemptable <- MCModes`, invariant `GrammarNeverRejects`.
* `scheduler.py:2203`: a session that was preempted with output in flight and stops on it
  loses its whole text (its computed tokens are 0, and the next turn keeps only computed
  tokens) and then its place in the queues. `SessionTurns.cfg` with `StaleTurns = TRUE`,
  invariants `InputInOrder` and `QueuesExact`.
* `scheduler.py:1556`: a turn that stops inside an accepted block of drafts keeps its last
  token, and a KV slot behind the text still counts as computed. `SessionTurns.cfg` with
  `CutTurns = TRUE`, invariant `ContextMatchesKV`.
* `scheduler.py:2346`: a turn that stops on the end-of-sequence token while a later step of the
  session is in flight pauses it; the output of that step is then committed to the
  paused session and may stop it again, which counts it twice, puts it into `skipped_waiting`
  twice and then takes it off both queues. `SessionTurns.cfg` with `LateTurns = TRUE`,
  invariants `QueuesExact` and `WorkDetected`.
* `scheduler.py:1561`: if the next chunk is there already, that turn goes on at a count of
  computed tokens that includes the steps in flight, and the output of those steps then lands behind
  the new chunk, or stops the turn before it began and cuts the chunk out of the text.
  `SessionTurns.cfg` with `LateTurns = TRUE`, invariants `InputInOrder` and `ContextMatchesKV`.
* `scheduler.py:832`: a session whose next chunk has arrived still holds its slot on the
  worker but is not counted by the row limit. `SessionTurns.cfg` with `MaxRunning = 1`,
  invariant `SlotsFit`.
* `scheduler.py:735`: a PRIORITY victim that this step had scheduled leaves its image in the
  cache as if it were encoded; another request relies on it. `EncoderWindow.cfg` with
  `Priority = TRUE`, invariant `EmbedsPresent`.
* `scheduler.py:1771`: two images closer than twice the look-ahead that do not fit together
  stop a prompt for ever. `EncoderWindow.cfg` with the third image of request 2 at 7, property
  `EveryPrefillEnds`.

## 6. Not modelled, and why

* In `Scheduler`: mamba block alignment, LoRA limits, `throttle_prefills`, streaming
  sessions (in `Sessions`), the cache of encodings (in `EncoderInputs`; here only its effect,
  a chunk that stops short), asynchronous loads (in `DeferredFree`), the draft-count
  adaptation. Prefix hits have a length only.
* In `Sessions`: sync scheduling (one batch in flight is a case of what is modelled as far as
  turns go; with more, sync drafts break the rows first, as `SchedRows` shows of
  `Scheduler`), KV blocks and the other budgets, drop-mode preemption and forced resets (in
  `Scheduler`), deferred prefills of data parallelism, images of later chunks, PRIORITY
  queues, changes of the sampling parameters between turns, and what a row feeds to a session
  that was cut while it was in flight (only met with `LateTurns`).
* In `EncoderInputs`: encoder-decoder models, the EC connector, `reset_encoder_cache`,
  drafts, images without embeddings in their range, and planned output: a request decodes as
  under sync scheduling, when its last token has come. `_free_encoder_inputs` takes
  `num_output_placeholders` off the computed tokens (2397), which is 0 then. Under async
  scheduling an image at the very end of a prompt is let go some answers later, because the
  last step of the prompt has planned an output; all others go at the same answer.
* In `PipelineRelay`: what the tokens are, tensor parallelism inside a stage, data-parallel
  dummy steps, KV blocks (in `BlockTables`).
* Recovery from failed KV loads (`scheduler.py` 3034-3206): the code unpacks the block ids of
  exactly one KV group (3073), and the model that is served has several; for it the code
  ends in a `ValueError` before any state is changed.
* In `DeferredFree`: `defer_block_free` off (one batch in flight, or no connector that
  loads: blocks return at once); the null block; the order of blocks in the free queue; partial failure
  of a load.
* In `BlockTables`: block sharing between requests, null blocks of sliding-window groups,
  rejected drafts (they change counts, not rows), prefill context parallelism.
* In `StructuredOutput`: several steps of the request in flight. `should_advance()` without new
  tokens looks from `num_computed_tokens - num_output_placeholders` on
  (`structured_output_init.py:465-471`), which `Window` takes for the last token; after a preemption,
  or with several sync batches, it can be another. Also several requests in one bitmask, the parallel filling path (more
  than 128 requests and no drafts), compilation of grammars, markers of several tokens,
  diffusion models.
* Tensor arithmetic, kernels, weight loading, container scripts.

## 7. Plan

Built: `Scheduler`, `DeferredFree` under `SafeReclaim`, `BlockTables`, `StructuredOutput`,
`PipelineRelay`, `Sessions`, `EncoderInputs`. Left:

1. `reset_encoder_cache`, and `EncoderInputs` with the EC connector.
2. Pure functions against a reference: the alignment of mamba chunks, the ranges of experts
   per rank, workspace lanes.
3. Proofs: `CountersReconcile` and `SamplesLandNext` without grammars.
