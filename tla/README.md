# Verification of the staticduo7 serving overlay

This directory holds TLA+ models of the stateful parts of
`src/mods/qwen38-staticduo7-7f1a5398/`, the TLC configurations that check them on
small instances and the theorems TLAPS proves about them for every value of the
constants. Paths below are relative to `overlays/` of that mod unless they start
with `src/`. `PROJECT.json` maps every definition to the lines it stands for.

## The system

The repository is a recipe (`src/qwen3.8-flash-next-staticduo7.yaml`) and an
overlay of 17 Python files that an installer copies over one exact vLLM image.
One API server process, one engine core process and two tensor-parallel workers
serve a hybrid attention/Mamba model with multi-token-prediction (MTP) drafts.

| Part | State it keeps | Operations | Interacts with |
|---|---|---|---|
| Engine scheduler, `v1/core/sched/scheduler.py` | requests and their counters, running and waiting queues, deferred block frees, pause state | `add_request`, `schedule`, `update_from_output`, `finish_requests`, `reset_prefix_cache`, `set_pause_state` | sends a `SchedulerOutput` per step to the workers, gets a `ModelRunnerOutput` back up to N steps later |
| KV block pool's free list, `v1/core/kv_cache_utils.py` | links of the free blocks, their number | `popleft`, `popleft_n`, `remove`, `append`, `append_n`, `prepend_n` | called by the block pool (not in the repository) on behalf of the scheduler |
| GPU model runner, `v1/worker/gpu/model_runner.py` | one slot per request: tokens, computed tokens | `finish_requests`, `add_requests`, `execute_model`, `sample_tokens` | executes the steps in the order they were sent |
| MTP depth controller, `v1/core/sched/qwen_mtp_adaptive.py` | depth, probe and settle counters, batch signature, estimates | `choose` (called by `schedule`), `observe` (called by `update_from_output`), `refresh` of a control file | drives how many drafts each step makes |
| Global refusal dial, `entrypoints/serve/refusal/api_router.py` | a lock and a `blocked` flag | `POST` and `GET /admin/refusal_lambda` | pauses the engine, sets and reads lambda on every rank, resumes |
| Refusal projection, `refusal_projection.py`, `v1/worker/gpu/refusal_utils.py` | the global lambda (a float32 tensor), per-slot lambdas, per-token lambdas | `set_lambda`, `get_lambda`, `add_request`, `remove_request`, `fill_target` | called by the workers |
| Streaming sessions, in `v1/core/sched/scheduler.py` | sessions that wait for input, their number, their queued chunks | `add_request` for a known id, `_handle_stopped_request`, `_update_request_as_session` | hold KV blocks and a worker slot while they wait |
| Block hashing, `v1/core/kv_cache_utils.py` | `request.block_hashes` | `request_block_hasher`, `BlockHashListWithBlockSize` | keys of the prefix cache |
| Cache layout at start-up, rest of `kv_cache_utils.py` | the plan: groups, blocks, places of layers | `get_kv_cache_configs`, `generate_scheduler_kv_cache_config` | workers report memory, all allocate the same number of blocks |
| CUDA graphs, `v1/worker/gpu/cudagraph_utils.py` | the captured shapes | `dispatch` per forward | target and drafter, once each and once more per draft |
| Drafters, model | tensors | numeric | workers |
| `install.py` and the generators under `mia/`, `refusal/port/` | files on disk | copy, rewrite | run before serving |

What is hard here:

* **Asynchronous scheduling.** `schedule` runs again before the output of the
  last step is back, so every counter is optimistic: it assumes all drafts
  accepted and is corrected later, perhaps after the request was preempted,
  resumed, aborted or swept out by a cache reset.
* **Reuse of memory under writes in flight.** Blocks of a preempted or finished
  request may still be written by steps not yet back.
* **Measurements out of order.** The depth controller sees the output of steps
  whose batch and depth it may already have left.
* **A distributed transition with failures.** A POST awaits six engine calls, any
  of which may fail before or after its effect, reach one rank only, or be
  abandoned by a cancelled handler while still on its way.
* **Arithmetic that several parts must agree on.** The bytes of a block, the ends of
  prefill chunks, the padded size of a batch: each is computed in one place and
  trusted in another, and a shape that does not fit shows in no unit test.

What makes each part correct is stated as its properties below; the places in the
code at which each may go wrong are the `hazards` of `PROJECT.json`.

## Modules

| Module | What it is |
|---|---|
| `PrefillSplit` | where a prefill chunk ends: block-aligned split and lookahead, pure |
| `Scheduler` | the engine core's scheduler, composed with `PrefillSplit`, the pipeline of steps in flight and the workers' request slots |
| `MCScheduler` | instances for four runs |
| `Scheduler_proofs` | the split of a prefill, types, block fencing, queues and resets, proved |
| `SchedulerLedger_proofs` | the counters of scheduler and worker against the steps in flight, proved |
| `BlockHashes` | the hash chain of a request's blocks, pure |
| `StreamingSessions`, `MCStreamingSessions`, `StreamingSessions_proofs` | streaming-input sessions, composed with `BlockHashes` |
| `MtpController` | the depth controller with its two hooks |
| `CudagraphDispatch` | which graphs are captured and which one a batch finds, pure |
| `GraphedSteps`, `MCMtpController`, `GraphedSteps_proofs` | the controller's steps composed with the dispatch of target and drafter; the proofs of both |
| `RefusalDial`, `MCRefusalDial`, `RefusalDial_proofs` | the two routes, the engine calls they await, ranks, cache and requests |
| `RefusalSlots`, `MCRefusalSlots`, `RefusalSlots_proofs` | lambda per request: worker slots, the token buffer, the fills of target and drafter |
| `FreeBlocks` | the abstract free list: a sequence of distinct blocks |
| `FreeBlockQueue`, `FreeBlockQueue_proofs` | the doubly linked list, shown to implement `FreeBlocks` |
| `KvCachePlan` | the layout of the KV cache at start-up, pure |
| `KvCache`, `MCKvCache`, `KvCache_proofs` | an engine's life: the plan is made or refused, then the free list of its blocks is used |

Operators whose name ends in an underscore and a phrase (`StaleTokens_Accumulates`)
are variants that a plausible mistake in the code would give. No specification uses
them; they serve to check that each property notices such a mistake.

### Scheduler

The engine core is single-threaded, so the calls do not interleave with each
other; what interleaves is *which* call comes next. A call is nevertheless written
as one action per loop iteration, with `pc` naming the loop: `schedule()` is
`BeginSchedule`, then `SkipRunning` / `ScheduleRunning` / `PreemptVictim` per turn
of the RUNNING loop, `EndRunning`, `SkipWaiting` / `AdmitWaiting` per turn of the
WAITING loop, `EndWaiting` and `EndSchedule`. `update_from_output()` is
`BeginUpdate`, `DrainDeferredFree*`, `EndDrain`, one `UpdateRequest` per request of
the step and `EndUpdate`; `reset_prefix_cache(reset_running_requests=True)` is
`BeginReset`, `ResetPreempt*`, `EndReset`. `AddRequest`, `Abort` and
`SetPauseState` are atomic. Only when `pc = "idle"` may another call start.

`req[r]` holds the fields of `Request` that scheduling reads; `num_tokens` stands
for the token list, `spec_token_ids` for its length. `pipeline` holds the steps
sent and not yet processed; `slots` is the workers' view. The worker's run of a
step is placed at the moment its output is processed: the workers run steps in
order and nothing they do is visible earlier, apart from writes to blocks, which
`writes` records from the moment a step is sent until its output is back.

Modelled from how the code in `src/` uses it (external): the placeholder
arithmetic of `AsyncScheduler`, the block pool with `allocate_slots` (any set of
free blocks of the right size, or none), the request queues, `check_stop`.
The victim of a preemption is the last running request (FCFS) or the one of
lowest rank; `Rank` folds priority, arrival time and id into one number.

A request's turn schedules `NumNewTokens(r)` tokens in the running loop and
`NumPrefillTokens(r, hit)` on admission, which follow the code's chain of `min`s; what is
left open is the hit and the blocks (`Admissions`). With `AlignedSplit` the chain ends in
`PrefillSplit`: `BlockAligned` is `_mamba_block_aligned_split`, `WithLookahead` is
`_reserve_prefill_lookahead`, and a result of 0 skips a running request and stops
admission, as lines 733-742 and 1140-1141 do.

### PrefillSplit

The nested `if`s of the code are a set of stops (end of the block the chunk starts
in, last cacheable position, tail and junction boundaries) of which the earliest one
inside the chunk ends it. `Split` is one record of configuration; 0 stands for a stop
that does not apply, as no stop lies at 0.

### StreamingSessions

A smaller scheduler, with a synchronous engine, for what `Scheduler` leaves out: chunks,
stops, the two waiting queues, and the tokens and media of each request. The client may
act between steps and while one is out. `slots` is the worker's table: freed and filled
from what a step tells it. `kv` is what the blocks really hold, position by position;
`block_hashes` what the hasher made of it. `MayStop` restricts what the model may sample
so that a stop does not fall on a block's last token, and `Chunks` what a client may
send: see the findings and observations below for why.

### BlockHashes

A hash is the tuple that is hashed, so two are equal only when all that enters them is.
`Hashed` continues from the hashes a request has; `View` is
`BlockHashListWithBlockSize` for a group with longer blocks. `Fingerprint` is what a
hash should be, from contents alone.

### KvCachePlan and KvCache

Layers are numbers, a spec is a record, Python's dictionaries in insertion order are
functions with ordered domains. A function that may raise returns a set, empty when it
raises. `get_kv_cache_configs` is the whole chain: merge the workers' specs, unify or
pack pages, group, project on each worker, size a block, keep the null block back, fit
the length, check, take the smallest pool, place every layer. `KvCache!Start` makes one
plan of `Inputs`; `Serve` is a step of `FreeBlockQueue` in an engine whose plan has as
many blocks.

`Glm5Groups` and `Glm5Layout` are the layout of GLM-5.3, where a recurrent layer lies on
the pages of an MLA layer and the tail of an indexer on the indexer's. The first is chosen
for the model, the second recognised again on every worker, so a stage without an indexer
falls back to the general layout. `MambaGroupCount` is what keeps `PagesDisjoint` there:
counted over the whole model alone, a stage with more recurrent layers per MLA layer would
leave some without a tensor (the loop of 1742-1747 stops at the last MLA layer). Two things
to know about this branch, which is not the model this repository deploys: its groups are
returned before `_annotate_eagle_groups` (2338), so with MTP no group is marked as the
drafter's; and the check against `tokens_per_state` (810-838) reads the scheduler's groups,
reduced to the spec of their first layer, so it sees an indexer only if one registers
before every MLA layer.

### MtpController

`Schedule` is `choose()` as `schedule()` calls it, `Observe` is `observe()`.
The reward and cost estimates are abstracted: a decision may find any depth best
and any unobserved tail worth a probe, so the properties hold whatever the
measurements say. `previous` is the step at whose output the clock was last read.
`c` in `Schedule` is the control file's content at that moment; a throttled or
invalid read is the content read last. `LoseDrafts` is a preemption or a chunk
that does not end the prefill: the request's next step verifies no drafts.

### GraphedSteps

The worker's reaction to a step is a function of the step, so no state is added:
`StepsReplayable` speaks of every step in `pipeline`. `Batches` are the batches a step
with these requests and depths may be on the worker; `TargetGraph`, `PrefillGraph`
and `DecodeGraph` the dispatches of `execute_model()` and `propose()`; `Forwards`
the number of drafter forwards, with the choice of the fused loop.
`CudagraphDispatch!Candidates` is the table `_init_candidates` fills, with the ranges
the code gives each size.

### RefusalDial

A handler is a coroutine; `pc[h]` is the await it is at, `op[h]` the call it has
sent and the engine has not executed, `reply[h]` the outcome. Each call may succeed,
fail before its effect (`CallFails`) or fail after it (`ResetFails`, `SetLambda`
on a subset of the ranks, `Resume`). `Cancel` is `CancelledError` at any await:
the handler is gone, its lock released, and its call is executed later all the
same. The engine admits nothing while paused, answers a pause when nothing runs,
and clears the cache with the answer. `OperatorPause` and `OperatorResume` are the
dev routes; the recipe disables them so that they "cannot race this transaction"
(mod README), and the model lets them act between transitions only.
Lambdas are opaque; `Float32` says what a readback makes of each.

### RefusalSlots

The worker runs one step at a time on one thread; `phase` is the forward it is at.
A step is `FinishRequests` (finished and preempted), one `AddRequest` per new
request, then `NoTokens` or `RunTarget`, `DraftPrefill`, `DraftDecode`, `EndStep`;
`DummyRun` is a step of its own. The model may end a step early wherever a rank
without the drafter or a draft depth of one does. `batch` lists the requests of the
step in row order, with the scheduled count (`bound`) and the rows each really has
(`rows`); they differ only with adaptive verification. `asked` is a record of what
each request came with; the code keeps it in the two tables only. The slot a request
gets is any free one (the free list is external). `SetLambda` may fall between any
two steps, which is more than the dial does.

### FreeBlockQueue

`next`, `prev` and `num` are the fields of the blocks and of the queue. `Cut` and
`Join` are the two relinking idioms all six operations consist of. Callers are not
in the repository; the model frees what the block pool is allowed to free: lists of
distinct blocks that are in use.

## Runs

| Run | Instance | Distinct states | Shows |
|---|---|---|---|
| `sched_async` | 2 requests, 3 blocks of 2 tokens, prompt 2, 3 output tokens, pipeline 3, drafts 1-2, one reset, all pause states | 583 thousand | counters, order of outputs, worker slots, queues, blocks |
| `sched_kv` | priority policy with the low priority first, 4 blocks, pipeline 2, deferred frees, draft slots, long-prefill cap, full-sequence reservation, 10 non-empty steps | 210 thousand | budgets and block fencing |
| `sched_live` | 2 requests, prompt 3, blocks of 2, aligned split with a junction, 2 output tokens, pipeline 2, `FairSpec` | 104 thousand | every request served, pause drains |
| `sched_reset` | as `sched_kv`, 4 steps | stops at the violation | reset with deferred frees |
| `mtp` | 2 requests, pipeline 3, depths 1-4, interval 2, probe 2 steps, probe interval 5; 5 graph modes, sizes 1-16, steps of up to 10 tokens | 1.1 million | attribution of times, probing, graphs |
| `dial` | 2 POSTs, 1 GET, 2 ranks, 1 generation request | 110 thousand | the transition under failure and cancellation |
| `dial_float32` | the same with lambda 0.1 | stops at the violation | the readback tolerance |
| `slots` | 3 requests, 2 slots, seals 0, 1 and none, dial 0 and 1, up to 2 rows each, a buffer of 3 rows | 1164 | own lambda per row across reuse, phases, dial |
| `slots_adaptive` | the same with adaptive verification, 4 rows | stops at the violation | row offsets from scheduled bounds |
| `kv_cache` | 11 models of up to 7 layers, 1 or 2 workers or 2 stages, 2 memories, 12 configurations, and 4 GLM-5.3 models of up to 10 layers in 6; then 5 blocks | 3839 | the plan of each, then links, count, order, refinement |
| `sessions` | 2 sessions and a plain request, 2 chunks each, 1 media item per later chunk, 2 active requests, blocks of 2, groups of 1 and 2 hash blocks, up to 2 tokens sampled per step | 558 thousand | queues, admission, hashes |
| `session_hashes` | one session, later chunks with two media items | stops at the violation | the hasher's media index |

**Properties.** `sched_async`: `InFlightExact` (the counters drained per returned
step equal the tokens in flight), `PositionsExact` (with placeholders outstanding a
request is computed exactly up to its last promised token), `OutputsInOrder` (a
delivered token was sampled for the position that comes next), `WorkerSlotsMatch`,
`WorkerAgrees` (with nothing in flight both sides hold the same numbers),
`QueuesPartition`, `BlocksCoverComputed`, `ResetSucceeds`. `sched_kv`: `TypeOK`,
`BatchExact` (budgets plus batch are constant, also after a mid-step eviction),
`NoWriteToFreeBlock`, `NoStrandedBlocks`. `sched_live`: `Served`, `DrainsWhenPaused`.
`mtp`: `MeasurementsAttributed`, `FixedHolds`, `ProbesAreSpaced`, `NeverLockedIn`,
`StepsReplayable` (a step's graphs hold its batch, target and drafter agree, a lone
decode finds a graph of its size, and the drafter makes the forwards of its depth).
`dial`: `OneLambdaPerRequest`, `RanksAgreeInService`, `AnswerIsTrue`,
`InconsistencyIsReported`, `BlocksOnlyWhenUncertain`, `ForeignPauseKept`,
`ReturnsToService`, `Answered`. `slots`: `SlotsMatch` (no seal outlives its
request in a slot), `OwnLambda` (every row of every forward has its request's
strength), `PaddingNeutral`. `kv_cache`: `PagesDisjoint` (no byte of the pool belongs
to two blocks or to two layers of a group, every layer has its pages, and all lie in
the memory of a worker that has layers), `GroupsAligned` (groups are one partition of
the layers on scheduler and workers, with the same tokens per block), `ServesOneRequest`
(an engine that starts can finish its longest request), `LongestFit`, `LinksMirror`,
`CountExact`, `KeepsEvictionOrder` (refinement of `FreeBlocks`, operation by operation).
`sessions`: `SessionsQueued` (a session is in exactly the place its status says, and the
count is of those that wait), `SlotsAccounted` (who may hold a worker slot), and
`HashesFingerprint` (the hash of a computed block, in every group's size, is that of
what it holds).

**Why the bounds are enough.** Two requests and too few blocks for both make each
the other's preemption victim, also in the middle of a step. A pipeline of three
lets a request be preempted with two steps in flight, resume, and be preempted
again before the first output is back, which is the longest history the stale
counters distinguish. Drafts of two tokens give partial rejections. Prefix hits of
0 and 2 tokens resume a request with and without cached blocks. In the controller an
interval of 2 and a pipeline of 3 let outputs of an old batch arrive after a
decision. In the dial two POSTs are enough for one to find the other's state, failed,
cancelled or complete. Three requests on two slots make every slot change hands, and
two requests with two rows overflow the three-row buffer. In `sched_live` a prompt of 3
and blocks of 2 give chunks that start aligned and inside a block, cuts at a junction and
turns in which the budget left is too short for a whole block. The models of `kv_cache` are one per
branch of `get_kv_cache_groups` and of page unification, with memories that start,
barely start and refuse. Two chunks of a session and two sessions against two active
requests are enough for a session to wait, to be resumed with and without another having taken its
place, and to be told of its end before and after it stops. Bounds that cut behaviour: `MaxResets` (resets per run),
`MaxSteps` (`sched_step_seq`, only where frees are deferred), each request is added
once, each handler and generation request runs once,
`MaxCount` rows per request and step, `MaxOutput` tokens sampled and `MaxChunks` chunks
per session, `MaxTokens` tokens of a step with prefills.

`CHECK_DEADLOCK FALSE` is set for the scheduler, which stops when every request is
finished, for the slots, where a projection of more rows than the buffer has stops
the engine, for the dial, which stops when every handler has answered and the
engine is blocked, for the cache, where an engine of another size than the queue's is
planned and no more, and for the sessions, which stop when all have ended.

**Fairness.** `Scheduler!FairSpec` assumes only that the engine loop runs: while
some action of a call, or the next call, is possible one is taken. Clients are not
fair. `RefusalDial!FairSpec` assumes that the event loop resumes each handler, that
the engine executes each call, and that running requests finish (their length is
bounded); nothing is assumed of admissions, preemptions or cancellation. The lock is
granted to any handler waiting for it: asyncio's is FIFO, and as each handler
enters once no handler can be overtaken for ever. The controller's
`NeverLockedIn` assumes in its own statement that measurements keep being recorded
for one unchanged batch and file.

## Findings

* `sched_reset`: the comment at `v1/core/sched/scheduler.py:2736` promises that
  preempting every running request makes the reset succeed. With
  `defer_block_free` the preempted requests' blocks stay referenced by
  `deferred_frees` until the steps in flight are back, and the call raises a
  `RuntimeError` that names remote KV transfers as the reason. Without deferred frees
  the promise holds for every instance (`ResetsSucceed`).
* `dial_float32`: the readback is a float32 converted to a Python float and is
  compared with the requested double within 1e-9. For most lambdas with more than
  one binary digit the difference is larger (0.1: 1.49e-9), so a faultless
  transition ends with the control blocked and the engine paused. The CPU test uses
  0 and 1 only.
* `slots_adaptive`: `fill_target` finds a request's rows by adding up scheduled
  counts. With adaptive verification these are upper bounds, as the comment at
  `refusal_projection.py:404` says, and the later requests' rows take a neighbour's
  lambda. The recipe's drafter does not turn adaptive verification on. (That comment
  is about the total, which is capped; the offsets are not corrected. The branch for
  a batch larger than the buffer announces the global lambda, but the projection that
  follows cannot broadcast: `ProjectFails`.)
* `session_hashes`: when blocks are completed later the hasher starts from the *last*
  media item, because "we only need to consider the last mm input" for generated tokens
  (`v1/core/kv_cache_utils.py:865`). A session's update comes to the same branch with
  prompt tokens and any number of new items; all but the last are left out of the keys
  of their blocks.

### Observations

Met while modelling, excluded from the passing runs where they would break them, and not
listed as findings: no line of the repository says otherwise, or no run shows them.

* **Sessions.** (1) `_update_request_as_session` deletes the last sampled token
  (`scheduler.py:1635`), but if that token completed a block, its hash is already in
  `block_hashes` and stays: the block is then filled with the next chunk's token under the
  old key. `AlignedStops = TRUE` in `StreamingSessions.cfg` shows it
  (`HashesFingerprint`). (2) A session that stops with its next chunk already queued
  goes back to `waiting` with its worker slot (2356-2367), and admission, which counts
  running requests and those that wait for input (878), may give a third request the
  slot of a table of two: `SlotsSuffice` as an invariant of `StreamingSessions.cfg` is
  violated. `SlotsAccounted` states exactly who holds slots. (3) With three or more
  sampled tokens, a stop among the accepted drafts leaves `num_computed_tokens` past the
  tokens kept, so `MaxSampled` is 2. (4) With asynchronous scheduling, a session stopped
  by stale output while it is preempted is queued and then removed from both queues
  (2185-2191); the sessions' model is synchronous.
* **Split and lookahead.** With a lookahead of 2 or more, a prompt that ends less than
  the lookahead behind a block boundary is never finished: one chunk is cut to stop before the
  boundary, the next stops at it and is cut to 0, and so for ever. This
  drafter's lookahead is 1, for which `LookaheadIsKept` shows the reservation to be
  empty.
* **Graphs.** In adaptive mode a token count sees only the next captured size
  (`cudagraph_utils.py:384-389`), so three requests of two tokens find only a graph for
  queries of three, and run eagerly, though a graph of eight tokens holds them; and a
  lone decode without drafts has no graph. In `FULL_AND_PIECEWISE`, not the recipe's
  mode, the padding of the target leads the drafter to a larger graph than the target's,
  whose metadata nobody staged (`DrafterFollowsTarget` excludes the mode).
* **Cache plan.** With a draft group on the last pipeline stage only, the scheduler's
  configuration, taken from the first worker, has no draft group (comment at
  `kv_cache_utils.py:2413`); `GroupsAligned` therefore asks only when the first worker
  holds one of its layers. A padded page that divides the largest stops at an assertion
  (1443) instead of an error that names the layer.
* **Controller.** Drafts trimmed to the very depth being measured, for as many steps as
  the pipeline holds, would be charged to it; the model drops drafts as a whole.
* **GPU worker.** `sleep` at level 2 (284-346) does not restore the projection's state;
  a failing `finish_weight_update` (1500-1517) leaves `_weight_update_active` set.

## Proofs

`tlapm` checks every step; nothing is assumed but the `ASSUME`s of the modules, which
TLC evaluates on each run, and the hypotheses a theorem states, listed at the end of this
section. All sets of requests, handlers, ranks, blocks and steps in flight are of any size.

* **`Scheduler_proofs`.** *Chunks*: `SplitWithinBudget`, `SplitAdvances` (with a block of
  budget the split never starves a request: the fact behind `Served`),
  `StatesAreCacheable`, `BlockEndIsNotSkipped`, `LookaheadIsKept`, for every
  configuration, prompt, start and budget. They rest on `Multiples` and `SumOfMultiples`
  (remainders by products) and on `SplitEnd`, which unfolds the choice of the earliest
  stop once.
  *Types*: `TypeCorrect` needs `UpdatingOldest` (an output is processed only while its step
  heads the pipeline).
  *Fencing*: `WritesAreFenced` and `FencesAllDrain` follow from `FenceInv`:
  `StepsOrdered`: the numbers of the non-empty steps in flight are exactly
  `processed_step_seq + 1 .. sched_step_seq`, in order; `WritesCovered`: a block
  that step *s* writes is in the block table of a request last scheduled at or
  after *s*, or behind a fence at or after *s*; `FencesOrdered`: fences are
  monotonic, not in the future, and pending unless being drained;
  `LastSeqBounded`. `NoWriteToFreeBlock` alone is not inductive: it does not say why
  a block that is about to be freed is no longer written. There is one lemma per kind of
  step: nothing freed (`KeptFences`), one request's blocks freed (`FreedFences`), a step
  sent (`SentFences`), output returned (`ReturnedFences`), an entry drained
  (`DrainedFences`), a step popped (`PoppedFences`).
  *Queues*: `QueuesArePartitioned` follows from `QueueInv`, which adds that no queue holds a
  request twice (removing an element must remove the request) and that the requests a call sets
  aside are back before it ends.
  *Resets*: `ResetsSucceed` follows from `HoldersRun`: only running requests
  hold blocks, so none does once all are preempted.
* **`SchedulerLedger_proofs`.** The scheduler plans step *k* + 1 before the output of step *k*
  is back, so its counters run ahead of the worker's. `LedgerInv` keeps, for each request, the sums
  `s` of what the oldest *i* steps in flight compute for it and, for a running one, the slots
  `w` these steps leave one after the other, from the worker's slot now to the counters of the
  scheduler (`Follows`); a preemption writes the steps so far off, and the ledger starts behind
  them (`k`). Both are quantified inside the invariant, so the argument needs no recursion: a step
  sent extends them at the end, a step returned drops their first element, a preemption moves `k`
  to the end. `InFlightIsExact`, `PositionsAreExact` and `WorkerIsInStep` are read off it.
  Four invariants rest on it: `OutputInv` for `OutputsArriveInOrder` (whence the output a
  preempted request awaits comes, and why nothing newer may overtake it), `BlockInv` for
  `BlocksAlwaysCover`, `PresenceInv` for `SlotsAlwaysMatch` (who has a worker slot once each step in
  flight has started), and `BatchInv` for `BatchesAreExact` (each budget plus what the batch has
  of it is constant, an eviction taking from both).
* **`StreamingSessions_proofs`.** `SessionsStayQueued` follows from `QueueInv` (the one place of
  each request, and what the counter counts); `SlotsStayAccounted` needs `SlotInv` besides: whom the
  step on the worker may still name, which ids wait to be told to it, and that a request that left
  the running queue has computed something. `HashesAlwaysFingerprint` compares two ways to compute
  a hash: the hasher goes on from an index into the media, block by block as tokens come, and the
  property (`Fingerprint`) reads every block's content from nothing. The pure part: from wherever it
  begins, the walk finds the items that have a place in the block (`WalkFinds`, `KeysRight`) and
  leaves off where the next block can begin; so one round appends the right hash (`RoundRight`), and
  the hasher all of them, if what it had was right and it begins behind no item it needs
  (`HashedRight`). Hashes depend on nothing but the blocks below them (`FingerprintLocal`), so a
  longer text keeps them. Then `HashInv`: a request has the hash of every full block of its text,
  its computed positions hold that text, and a session that has stopped has computed every
  full block of its text (`StoppedBlocks`), so the token it has not computed is in none. An update of
  the session deletes that token and appends the chunk (`StopsGood`, `ResumedGood`); the rest is one
  lemma per action, up to the update inside the step that stopped the session
  (`StopAndResumeHash`), where hashes are appended twice.
* **`GraphedSteps_proofs`.** The controller: `FixedDepthHolds` and `TypeCorrect` are inductive as
  they stand. `ProbesStaySpaced` follows from the types. `MeasurementsStayAttributed` needs two more:
  `ChainInv`, that a step verifies only what the step before it drafted for the same
  batch, and `SettleInv`, that the steps in flight that may have drafted another depth than the
  current one are among the next `Ignored` ones, those whose time is not taken. The
  controller ignores two steps after each change, and `Ignored` counts a third and a fourth
  that are unmeasurable by themselves. So the theorem has `Depth <= 4`, and the bound is exact:
  at 5 TLC finds a measurement charged to the wrong depth. The graphs: `StepsAlwaysReplayable`,
  for any requests, depths, capture sizes (1 and one above the depth among them) and modes. It is a
  fact about every batch `Batches` allows (`FullDescs`, `DispatchFits` and the agreement of the
  drafter with the target), lifted to the pipeline by `TypeCorrect`.
* **`RefusalDial_proofs`.** All follow from `DialInv`. Once a POST has asked for a pause the lock
  keeps other POSTs out, and when it stops early `blocked` keeps them out for good, so at most one
  call that changes the engine is ever on its way, even after its sender was cancelled
  (`OneTransaction`). Hence a confirmed pause holds until the set (`PauseHolds`), ranks that differ
  stay behind a pause no call ends (`SplitIsContained`: `ServiceIsUniform`), whatever is cached or
  unfinished was computed under the lambda the ranks have now (`OneLambda`:
  `RequestsAreUniform`), and what a handler read is what it reports (`Readbacks`: `SuccessIsTrue`,
  `ReportsAreHonest`). `ForeignPausesAreKept` is an action property; `BlockedForAReason` has an
  invariant of its own (`Blame`).
* **`RefusalSlots_proofs`.** `SlotsCorrect` is inductive together with the types of the
  tables: a request without a seal does not write the dictionary, so its slot must be
  free of one already, which is the second half of `SlotsMatch`. `OwnLambdaCorrect` needs
  `BatchSound` (rows equal bounds). It rests on facts about sums of any length: rows of different
  requests are disjoint (`HoldsOnce`) and a later request begins no earlier
  (`StartMonotone`). `PaddingAlwaysNeutral` (`PadInv`) holds with adaptive verification too: the rows
  after the batch are reset whatever the offsets.
* **`FreeBlockQueue_proofs`.** `LinksAlwaysMirror`, `CountAlwaysExact` and `EvictionOrderIsKept`, the
  refinement of `FreeBlocks` operation by operation, follow from `Threaded`: the links thread,
  between the two fake ends, a sequence of distinct blocks, `num` is its length, and a block not on
  it has no links. `LinksMirror` by itself would allow a ring of blocks beside the list. A `Cut` takes
  a stretch out (`CutThreads`), a `Join` puts blocks in use between neighbours (`JoinThreads`);
  `FreeBlocksAre` says that the walk `path` returns the sequence, and `popleft_n`'s
  is along it.
* **`KvCache_proofs`.** `EstimateIsLongest`: for every grouping of layers and memory the binary
  search returns the longest length that fits, and every shorter one fits too. A request needs
  no less of any layer when it is longer (`PagesGrow`, up to the sum over the groups, `BlocksGrow`),
  and the search keeps the answer between its ends (`BracketKept`). `LongestAlwaysFits` and
  `OneRequestAlwaysServed` carry it to every engine. The inductive invariant, `Planned`, says only
  that the plan is one `get_kv_cache_configs` can return for some inputs; the work is in what that
  function returns. Each of its six ways to group the layers yields groups that have a layer, a spec
  for each, and specs that need equally many blocks for any request (`GroupsWell`, with a lemma per
  way: `UniformPageGrouped`, `PackedGrouped`, `Glm5Grouped`, `FallbackWell` and two for one group);
  a worker without a layer of a group keeps the specs of the whole group (`ProjectWell`); a block has
  bytes (`BytesTyped`), and the length and the blocks of a plan satisfy what was searched for and
  checked (`PlansHold`). That specs of a group need equally many blocks is why the scheduler may
  count with one of them, taken from the first worker, while the memory was checked with all of a
  worker's own (`OneSpecSuffices`). `QueueHoldsInEngine` lifts the queue's theorems to an engine.
  `GroupsAlwaysAligned` needs more of the groupings: that each of the six loses no layer and takes
  none twice (`Parts`; slices with a stride part a list, `StridesPart`, and what the buckets hold is
  parted again when each is dealt out, `FlattenParts`), and of which form its groups are (`Shaped`).
  `PartsPartition` brings that to the counting test of the code (2792), so that no engine is refused
  for a layer the planner lost, and to "the group of the draft layer" (`OneGroupForAll`, which finds
  the same group on every worker). `BlockSizesAlign` is the arithmetic of
  `resolve_kv_cache_block_sizes`: the least common multiple of the block sizes, and a hash unit that
  divides them all.
  `PagesAlwaysDisjoint` is about bytes. In the general layout the layers of a group with one spec
  are a row, each row begins where the ones before it end, and so every layer has a place in the
  block that no other layer of its group has (`RowsPlaced`, from sums over sets that may be taken in
  any order: `SumsAdd`, `AddsApart`). Groups do share places, in different blocks: these are apart
  by the bytes of a block in the layout by blocks, and otherwise because the layout check lets through only one
  group or pages of one size (`ExpressibleShares`, `BlocksApart`, `GeneralApart`). In the layout of
  GLM-5 (`Glm5Laid`) every layer is a stretch of its own, MLA layers before indexers (`SlotsApart`),
  and the point is that no layer is lost: a recurrent group may be no longer than the stage's MLA
  layers, on which it lies. `Glm5Groups` deals the recurrent layers out with a stride and a stage
  has consecutive ones, so of the stage's no group gets more than its number divided by that of
  the groups, rounded up (`StrideShare`), which by `MambaGroupCount` is at most the stage's MLA layers
  (`MambaCountCovers`, `Glm5HasRows`). `PoolSound` adds the memory: the common number of blocks is the
  least of what each worker's memory holds.

Recursive definitions. The library's induction theorems are out of the provers' reach, so facts
about walks, sums and the search are shown from the least counterexample: a least number
(`LeastNumber`), a smallest set (`SmallerSets`, or `SetInduction` by the well-foundedness of finite
sets), or the first place where two sequences part.

Hypotheses, each with its reason:

| Theorem | Hypothesis | Why |
|---|---|---|
| `ResetsSucceed` | `~DeferBlockFree` | false with deferred frees: run `sched_reset` |
| `OwnLambdaCorrect` | `~Adaptive` | false with adaptive verification: run `slots_adaptive` |
| `BlockedForAReason` | `Exact` (a lambda survives the round trip) | false otherwise: run `dial_float32` |
| `MeasurementsStayAttributed` | `Depth <= 4` | false at 5, see above; asynchronous scheduling has 2 |
| `BatchesAreExact` | `IsFiniteSet(Requests)` | what the batch has used is a sum over the requests |
| `HashesAlwaysFingerprint` | `[][LastOnly]_vars`: a request hashed before completes blocks that hold no item of media but its last | the comment at `kv_cache_utils.py:865-868` takes it for granted; false otherwise: run `session_hashes`. Every step of the run `sessions` is such a step |
| `HashesAlwaysFingerprint` | `~AlignedStops`: no session stops at a token that completes a block | false otherwise: observation (1) on sessions |
| `HashesAlwaysFingerprint` | `MaxSampled <= 2`: one draft at most | false otherwise: observation (3) on sessions |
| `HashesAlwaysFingerprint` | `ConstantsOK`: the media of a prompt or chunk lie in it, one after the other, none empty | "we assume mm_features are sorted by mm_position.offset" (`kv_cache_utils.py:524`); positions come from placeholders in the prompt |
| `EstimateIsLongest` | groups have a spec per layer, `BytesPerBlock` is a number | what `get_kv_cache_groups` builds: `GroupsWell`, `BytesTyped` |
| theorems of `CacheSpec` | `InputsAssumption`: specs and configurations have their types, there is a first worker; `Evenly` | `Evenly` excludes a bucket of recurrent layers whose pages have unequal counts: the `zip` of 2119 then drops layers and may leave a group without one; what vLLM's `from_specs` does with no layer is not in the repository |
| theorems of `CacheSpec` | `InputsAssumption`: `EngineBlock` when states are aligned to blocks | a plan of one group is hashed in blocks of the configuration (769), whatever its spec says. Layers take their block size from the configuration, and in align mode so does the scheduler for the recurrent ones (`scheduler.py:436-458`) |
| theorems of `CacheSpec` | `InputsAssumption`: `StagedGlm5`, for a model with both recurrent layers and indexers: its other layers are those of a GLM-5.3 one, and a stage has consecutive layers | stages are consecutive by `get_pp_indices` (1195-1202), from which the number of recurrent groups is computed. A worker recognises the layout by the form of its groups alone (1295-1381); what a stage of another model with such layers happens to leave could be taken for it, with more recurrent layers in a group than MLA layers to lie on. GLM-5.3 is the only model the code builds this layout for |
| theorems of `CacheSpec` | `InputsAssumption`: no GLM-5.3 model with MTP | its groups are returned before the draft layers are marked (2338) |

Only model-checked: all liveness (`Served`, `DrainsWhenPaused`, `NeverLockedIn`,
`ReturnsToService`, `Answered`), which is out of the prover's reach. Every safety property of a
passing run is a theorem, under the hypotheses above.

## Limits of the models

* **Scheduler.** The recipe's configuration is assumed where it selects a path: the
  depth controller is present, so new decodes are not padded to the draft length;
  no KV or encoder connector, no LoRA, structured output, pipeline parallelism or
  data-parallel prefill balancing. Left out of admission: prefix replay, and groups with
  prefill checkpoint blocks in the split. Blocks are anonymous, so copy-on-write blocks
  are left out and a prefix hit is any length in `PrefixHits`.
* **StreamingSessions.** A prefix hit is on a request's own earlier blocks; hits across
  requests would show the same wrong keys later. Budgets and blocks are any outcome.
  No prompt embeddings.
* **KvCachePlan.** Left out: HiSparse, hidden-state layers,
  the first rule of `_annotate_eagle_groups`, decode context parallelism, the layouts
  that are not block-compact. A state bucket with
  unequal pages in the block layout, which loses layers in a `zip` (2119), is not among
  the inputs, nor is a GLM-5.3 model with MTP, nor a model of another kind with both
  recurrent layers and indexers.
* **CudagraphDispatch.** Left out: LoRA counts, microbatches, dynamic draft counts,
  agreement between data-parallel ranks, and memory profiling (852-1032).
* **MtpController.** `MeasurementsAttributed` rests on two ignored steps after each
  change and on few steps in flight. It is checked for three and proved for up to four; the
  recipe has two. With five, a file that goes from adaptive to fixed and back between two
  outputs leaves a step of the first period to be charged to the second.
* **RefusalDial.** A control that is blocked needs a restart, which is not modelled;
  `ReturnsToService` says what is promised short of it. Requests with a lambda of
  their own are left to `RefusalSlots`.
* **RefusalSlots.** The parsing of a seal is abstracted to its result; the prefill
  context-parallel layout, which the drafter refuses, and a slot beyond
  `max_num_reqs`, which the request table cannot give, are left out.

## Not modelled

* The model (`models/qwen4_exp/nvidia/`), the kernels, attention metadata and sampling: numeric.
* GPU worker: start-up, profiling, sleep, weight updates, the rest of its RPCs: device I/O
  in straight lines, with no interleaving of their own.
* `install.py`: copies files once, before serving; a crash between two copies leaves files
  that the next start's checksums refuse (35-41), with no recovery to verify.
* The generators under `mia/` and `refusal/port/`: rewrote sources in the past, not run by
  the deployer. Route registration: no state. Recipe and benchmarks: configuration; it fixes
  what the constants mean (drafts up to 4, two ranks, FCFS, dev routes off).

## Plan

Done, in the order of importance: `Scheduler`, `MtpController`, `RefusalDial`,
`FreeBlockQueue`, `RefusalSlots`, then `KvCachePlan`, `StreamingSessions` with
`BlockHashes`, `GraphedSteps` with `CudagraphDispatch`, and `PrefillSplit`. Next:

1. Remote KV loads and `_handle_invalid_blocks` in the scheduler.
2. Copy-on-write blocks and prefix hits across requests, with block contents.
