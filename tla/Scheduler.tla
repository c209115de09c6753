----------------------------- MODULE Scheduler -----------------------------
(***************************************************************************)
(* The engine-core scheduler of overlays/v1/core/sched/scheduler.py under  *)
(* asynchronous scheduling: up to Depth steps are handed to the workers    *)
(* before the output of the first one comes back, every decode step        *)
(* carries draft tokens that may be rejected, and a request may be         *)
(* preempted, aborted or swept out by a cache reset while steps that       *)
(* compute it are still in flight.                                         *)
(*                                                                         *)
(* The engine core is single-threaded: schedule(), update_from_output()    *)
(* and reset_prefix_cache() run to completion.  Each is written here as    *)
(* the sequence of its loop iterations (pc leaves "idle" when the call     *)
(* starts and returns to it when the call ends); nothing else is enabled   *)
(* while pc # "idle".                                                      *)
(*                                                                         *)
(* External to the overlay, modelled from how scheduler.py uses them:      *)
(* AsyncScheduler (output placeholders), KVCacheManager.allocate_slots     *)
(* and free, the request queues, check_stop, and the engine's batch queue. *)
(***************************************************************************)
EXTENDS Integers, FiniteSets, Sequences, PrefillSplit

CONSTANTS
  Requests,             \* request ids; each is added at most once
  Rank,                 \* Rank[r]: (priority, arrival, id) of r as one number
  Policy,               \* "fcfs" or "priority"
  PromptLen,            \* num_prompt_tokens of every request
  MaxTokens,            \* sampling_params.max_tokens of every request
  MaxModelLen,          \* max_model_len
  Blocks,               \* the KV block pool
  BlockSize,            \* tokens per block
  NumLookahead,         \* num_lookahead_tokens
  PrefixHits,           \* prefix-cache hits (in tokens) a lookup may return
  MaxScheduledTokens,   \* max_num_scheduled_tokens
  MaxBatchedTokens,     \* max_num_batched_tokens
  DraftSlots,           \* max_num_new_slots_for_drafting
  LongPrefillThreshold, \* long_prefill_token_threshold, 0 when unset
  AdaptiveThreshold,    \* adaptive_long_prefill_threshold
  ReserveFullISL,       \* scheduler_reserve_full_isl
  AlignedSplit,         \* need_mamba_block_aligned_split
  Split,                \* its configuration: see PrefillSplit
  PrefillLookahead,     \* num_prefill_lookahead
  MaxActive,            \* max_num_active_reqs
  SpecChoices,          \* depths the MTP depth controller may choose
  Depth,                \* max_concurrent_batches
  DeferBlockFree,       \* defer_block_free
  RequiresKVDelivery,   \* requires_kv_delivery
  PauseStates,          \* pause states a client may ask for
  MaxSteps,             \* bound on sched_step_seq
  MaxResets             \* bound on calls of reset_prefix_cache

ASSUME ConstantsOK ==
  /\ IsFiniteSet(Blocks)
  /\ BlockSize \in Nat \ {0}
  /\ PromptLen \in Nat \ {0} /\ MaxTokens \in Nat \ {0}
  /\ MaxModelLen \in Nat /\ PromptLen < MaxModelLen
  /\ NumLookahead \in Nat /\ PrefixHits \subseteq Nat
  /\ MaxScheduledTokens \in Nat /\ MaxBatchedTokens \in Nat
  /\ DraftSlots \in Nat /\ LongPrefillThreshold \in Nat
  /\ MaxActive \in Nat \ {0} /\ Depth \in Nat \ {0}
  /\ SpecChoices \subseteq Nat
  /\ Rank \in [Requests -> Nat] /\ Policy \in {"fcfs", "priority"}
  /\ AdaptiveThreshold \in BOOLEAN /\ ReserveFullISL \in BOOLEAN
  /\ AlignedSplit \in BOOLEAN /\ Split \in SplitConfigs /\ PrefillLookahead \in Nat
  /\ DeferBlockFree \in BOOLEAN /\ RequiresKVDelivery \in BOOLEAN
  /\ PauseStates \subseteq {"UNPAUSED", "PAUSED_NEW", "PAUSED_ALL"}
  /\ MaxSteps \in Nat /\ MaxResets \in Nat

VARIABLES
  req,                \* req[r]: the fields of Request that scheduling uses
  running, waiting, skipped_waiting,
  owned,              \* owned[r]: blocks r's block table references
  deferred_frees,     \* FIFO of [fence, blocks]
  sched_step_seq, processed_step_seq,
  finished_req_ids, preempted_req_ids,
  pause_state,
  pipeline,           \* steps scheduled and not yet processed, oldest first
  slots,              \* slots[r]: the worker's request state
  resets,             \* calls of reset_prefix_cache so far
  reset_successful,   \* what the last one returned
  pc,                 \* the call in progress
  \* locals of schedule()
  req_index, token_budget, input_budget, num_scheduled_tokens,
  scheduled_spec_tokens, scheduled_new_reqs, preempted_reqs,
  step_skipped_waiting

queueVars == <<running, waiting, skipped_waiting>>
blockVars == <<owned, deferred_frees>>
seqVars   == <<sched_step_seq, processed_step_seq>>
idVars    == <<finished_req_ids, preempted_req_ids>>
stepVars  == <<pipeline, slots>>
ctrlVars  == <<pause_state, resets, reset_successful>>
localVars == <<req_index, token_budget, input_budget, num_scheduled_tokens,
               scheduled_spec_tokens, scheduled_new_reqs, preempted_reqs,
               step_skipped_waiting>>
vars == <<req, queueVars, blockVars, seqVars, idVars, stepVars, ctrlVars,
          pc, localVars>>

-----------------------------------------------------------------------------
(* Requests, queues and blocks *)

\* A Request object as it enters (or has left) self.requests.
Blank(st) ==
  [status |-> st, num_tokens |-> PromptLen, num_computed_tokens |-> 0,
   num_in_flight_tokens |-> 0, num_stale_output_tokens |-> 0,
   drop_stale_output |-> FALSE, num_output_placeholders |-> 0,
   spec_token_ids |-> 0, last_sched_seq |-> 0]

Live(r) == req[r].status \in {"WAITING", "RUNNING", "PREEMPTED"}

NoSlot == [len |-> 0, computed |-> 0]
Zero   == [r \in Requests |-> 0]

CeilDiv(a, b) == (a + b - 1) \div b

Contains(q, r) == \E i \in 1..Len(q) : q[i] = r
IndexOf(q, r)  == CHOOSE i \in 1..Len(q) : q[i] = r
Without(q, r)  ==
  IF Contains(q, r)
  THEN SubSeq(q, 1, IndexOf(q, r) - 1) \o SubSeq(q, IndexOf(q, r) + 1, Len(q))
  ELSE q

\* r is what peek_request() returns: the deque's head, or the heap's minimum.
IsHead(q, r) ==
  /\ Contains(q, r)
  /\ IF Policy = "fcfs" THEN r = q[1]
     ELSE \A i \in 1..Len(q) : Rank[r] <= Rank[q[i]]

\* _select_waiting_queue_for_scheduling() followed by peek_request().
IsNextWaiting(r) ==
  \/ IsHead(skipped_waiting, r)
     /\ (Policy = "priority" => \A i \in 1..Len(waiting) : Rank[r] <= Rank[waiting[i]])
  \/ IsHead(waiting, r)
     /\ IF Policy = "priority"
        THEN \A i \in 1..Len(skipped_waiting) : Rank[r] < Rank[skipped_waiting[i]]
        ELSE skipped_waiting = <<>>

\* The block pool: whatever no block table and no deferred free references.
Free ==
  Blocks \ ((UNION {owned[r] : r \in Requests})
            \cup (UNION {deferred_frees[i].blocks : i \in 1..Len(deferred_frees)}))

\* allocate_slots: the sets of new blocks that cover computed + n + lookahead.
Allocations(r, computed, n) ==
  LET slotsNeeded == Lesser(computed + n + NumLookahead, MaxModelLen)
      need == CeilDiv(slotsNeeded, BlockSize) - Cardinality(owned[r])
  IN  {new \in SUBSET Free : Cardinality(new) = IF need < 0 THEN 0 ELSE need}

Allocate(r, choices) ==
  \E new \in choices : owned' = [owned EXCEPT ![r] = @ \cup new]

BlocksCanBeFreed_OnceScheduled(r) == req[r].last_sched_seq <= sched_step_seq

\* _request_blocks_can_be_freed
BlocksCanBeFreed(r) ==
  ~DeferBlockFree \/ req[r].last_sched_seq <= processed_step_seq

FreeRequestBlocks_DefersAlways(r) ==
  /\ owned' = [owned EXCEPT ![r] = {}]
  /\ deferred_frees' =
       IF req[r].num_in_flight_tokens = 0 THEN deferred_frees
       ELSE Append(deferred_frees, [fence |-> sched_step_seq, blocks |-> owned[r]])

\* _free_request_blocks
FreeRequestBlocks(r) ==
  /\ owned' = [owned EXCEPT ![r] = {}]
  /\ deferred_frees' =
       IF BlocksCanBeFreed(r) \/ owned[r] = {} THEN deferred_frees
       ELSE Append(deferred_frees,
                   [fence |-> sched_step_seq, blocks |-> owned[r]])

\* All output in flight goes stale: it no longer moves the counters.
StaleTokens_Accumulates(r) ==
  req[r].num_stale_output_tokens + req[r].num_in_flight_tokens
StaleTokens(r) == req[r].num_in_flight_tokens

\* Output whose positions were already sampled again stays dropped.
DropsStale_Overwritten(r, drop) == drop
DropsStale(r, drop) ==
  drop \/ (req[r].drop_stale_output /\ req[r].num_stale_output_tokens > 0)

Preempted_KeepsPlaceholders(r, drop) ==
  [req[r] EXCEPT !.status = "PREEMPTED",
                 !.num_computed_tokens = 0, !.spec_token_ids = 0,
                 !.drop_stale_output = DropsStale(r, drop),
                 !.num_stale_output_tokens = StaleTokens(r)]

\* The counters _preempt_request leaves in the request.
Preempted(r, drop) ==
  [req[r] EXCEPT !.status = "PREEMPTED",
                 !.num_computed_tokens = 0, !.spec_token_ids = 0,
                 !.drop_stale_output = DropsStale(r, drop),
                 !.num_stale_output_tokens = StaleTokens(r),
                 !.num_output_placeholders = 0]

\* _preempt_request (the caller has taken r out of running)
PreemptRequest(r, drop) ==
  /\ FreeRequestBlocks(r)
  /\ req' = [req EXCEPT ![r] = Preempted(r, drop)]
  /\ waiting' = <<r>> \o waiting
  /\ preempted_req_ids' = preempted_req_ids \cup {r}

\* The end of a request: _free_request and removal from its queue.
FinishRequest(r) ==
  /\ FreeRequestBlocks(r)
  /\ req' = [req EXCEPT ![r] = Blank("FINISHED")]
  /\ running' = Without(running, r)
  /\ waiting' = Without(waiting, r)
  /\ skipped_waiting' = Without(skipped_waiting, r)
  /\ finished_req_ids' = finished_req_ids \cup {r}

-----------------------------------------------------------------------------
Init ==
  /\ req = [r \in Requests |-> Blank("NEW")]
  /\ running = <<>> /\ waiting = <<>> /\ skipped_waiting = <<>>
  /\ owned = [r \in Requests |-> {}]
  /\ deferred_frees = <<>>
  /\ sched_step_seq = 0 /\ processed_step_seq = 0
  /\ finished_req_ids = {} /\ preempted_req_ids = {}
  /\ pause_state = "UNPAUSED"
  /\ pipeline = <<>>
  /\ slots = [r \in Requests |-> NoSlot]
  /\ resets = 0 /\ reset_successful = TRUE
  /\ pc = "idle"
  /\ req_index = 1 /\ token_budget = 0 /\ input_budget = 0
  /\ num_scheduled_tokens = Zero /\ scheduled_spec_tokens = Zero
  /\ scheduled_new_reqs = {} /\ preempted_reqs = FALSE
  /\ step_skipped_waiting = <<>>

-----------------------------------------------------------------------------
(* Calls from the engine core outside schedule() and update_from_output() *)

AddRequest(r) ==
  /\ pc = "idle" /\ req[r].status = "NEW"
  /\ req' = [req EXCEPT ![r].status = "WAITING"]
  /\ waiting' = Append(waiting, r)
  /\ UNCHANGED <<running, skipped_waiting, blockVars, seqVars, idVars,
                 stepVars, ctrlVars, pc, localVars>>

\* finish_requests on behalf of a client: abort.
Abort(r) ==
  /\ pc = "idle" /\ Live(r)
  /\ FinishRequest(r)
  /\ UNCHANGED <<preempted_req_ids, seqVars, stepVars, ctrlVars, pc, localVars>>

SetPauseState(p) ==
  /\ pc = "idle" /\ pause_state # p
  /\ pause_state' = p
  /\ UNCHANGED <<req, queueVars, blockVars, seqVars, idVars, stepVars, resets,
                 reset_successful, pc, localVars>>

(* reset_prefix_cache(reset_running_requests=True) *)
BeginReset ==
  /\ pc = "idle" /\ resets < MaxResets
  /\ pc' = "reset"
  /\ resets' = resets + 1
  /\ UNCHANGED <<req, queueVars, blockVars, seqVars, idVars, stepVars,
                 pause_state, reset_successful, localVars>>

ResetPreempt ==
  /\ pc = "reset" /\ running # <<>>
  /\ LET r == running[Len(running)] IN PreemptRequest(r, TRUE)
  /\ running' = SubSeq(running, 1, Len(running) - 1)
  /\ UNCHANGED <<skipped_waiting, seqVars, finished_req_ids, stepVars, ctrlVars,
                 pc, localVars>>

\* kv_cache_manager.reset_prefix_cache() succeeds iff no block is referenced.
EndReset ==
  /\ pc = "reset" /\ running = <<>>
  /\ reset_successful' = (Free = Blocks)
  /\ pc' = "idle"
  /\ UNCHANGED <<req, queueVars, blockVars, seqVars, idVars, stepVars,
                 pause_state, resets, localVars>>

-----------------------------------------------------------------------------
(* schedule() *)

NumUnfinished_IgnoresRunning ==
  IF pause_state # "UNPAUSED" THEN 0
  ELSE Len(running) + Len(waiting) + Len(skipped_waiting)

\* get_num_unfinished_requests
NumUnfinished ==
  CASE pause_state = "PAUSED_ALL" -> 0
    [] pause_state = "PAUSED_NEW" -> Len(running)
    [] OTHER -> Len(running) + Len(waiting) + Len(skipped_waiting)

HasRequests == NumUnfinished > 0 \/ finished_req_ids # {}

BeginSchedule ==
  /\ pc = "idle" /\ HasRequests
  /\ Len(pipeline) < Depth
  /\ DeferBlockFree => sched_step_seq < MaxSteps
  /\ pc' = "running"
  /\ req_index' = 1
  /\ token_budget' = IF pause_state = "PAUSED_ALL" THEN 0 ELSE MaxScheduledTokens
  /\ input_budget' = MaxBatchedTokens
  /\ num_scheduled_tokens' = Zero /\ scheduled_spec_tokens' = Zero
  /\ scheduled_new_reqs' = {} /\ preempted_reqs' = FALSE
  /\ step_skipped_waiting' = <<>>
  /\ UNCHANGED <<req, queueVars, blockVars, seqVars, idVars, stepVars, ctrlVars>>

\* The long-prefill cap applies only when some other request could starve.
\* (No step of schedule() changes the number of eligible requests.)
CapLongPrefill(n) ==
  LET eligible == Len(running) + Len(waiting) + Len(skipped_waiting)
                  + Len(step_skipped_waiting)
      fair == MaxBatchedTokens \div eligible
      cap == IF AdaptiveThreshold /\ LongPrefillThreshold < fair
             THEN fair ELSE LongPrefillThreshold
  IN  IF eligible > 1 /\ LongPrefillThreshold > 0 THEN Lesser(cap, n) ELSE n

Budget == Lesser(token_budget, input_budget - DraftSlots)

\* The running request at req_index, while the RUNNING loop goes on.
AtRunning(r) ==
  /\ pc = "running" /\ req_index <= Len(running)
  /\ token_budget > 0 /\ input_budget > DraftSlots
  /\ r = running[req_index]

ReachesMaxTokens_EvenIdle(r) ==
  req[r].num_computed_tokens + 2 - req[r].num_output_placeholders
    >= PromptLen + MaxTokens

\* The step in flight is sure to reach max_tokens.
ReachesMaxTokens(r) ==
  /\ req[r].num_output_placeholders > 0
  /\ req[r].num_computed_tokens + 2 - req[r].num_output_placeholders
       >= PromptLen + MaxTokens

\* How much of n tokens from start on a chunk may have: it ends where a recurrent
\* state can be cached, and leaves the drafter its known next tokens.
ChunkTokens(r, start, n) ==
  LET q == [prompt |-> PromptLen, tokens |-> req[r].num_tokens]
  IN  WithLookahead(PrefillLookahead, req[r].num_tokens, start,
                    IF AlignedSplit THEN BlockAligned(Split, q, start, n) ELSE n)

NumNewTokens(r) ==
  LET wanted == req[r].num_tokens + req[r].spec_token_ids
                + req[r].num_output_placeholders - req[r].num_computed_tokens
  IN  ChunkTokens(r, req[r].num_computed_tokens,
                  Lesser(Lesser(CapLongPrefill(wanted), Budget),
                         MaxModelLen - req[r].num_computed_tokens - 1))

SkipRunning(r) ==
  /\ AtRunning(r)
  /\ ReachesMaxTokens(r) \/ NumNewTokens(r) = 0
  /\ req_index' = req_index + 1
  /\ UNCHANGED <<req, queueVars, blockVars, seqVars, idVars, stepVars, ctrlVars,
                 pc, token_budget, input_budget, num_scheduled_tokens,
                 scheduled_spec_tokens, scheduled_new_reqs, preempted_reqs,
                 step_skipped_waiting>>

\* r gets n tokens' worth of computation in this step.
Wants(r, n) == AtRunning(r) /\ ~ReachesMaxTokens(r) /\ n = NumNewTokens(r)

ScheduleRunning(r, n) ==
  /\ Wants(r, n)
  /\ Allocate(r, Allocations(r, req[r].num_computed_tokens, n))
  /\ num_scheduled_tokens' = [num_scheduled_tokens EXCEPT ![r] = n]
  /\ token_budget' = token_budget - n
  /\ input_budget' = input_budget - (n + DraftSlots)
  /\ req_index' = req_index + 1
  /\ LET past == n + req[r].num_computed_tokens - req[r].num_tokens
                 - req[r].num_output_placeholders
         drafts == IF past < 0 THEN 0 ELSE Lesser(past, req[r].spec_token_ids)
     IN  scheduled_spec_tokens' = [scheduled_spec_tokens EXCEPT ![r] = drafts]
  /\ req' = [req EXCEPT ![r].spec_token_ids = 0]
  /\ UNCHANGED <<queueVars, deferred_frees, seqVars, idVars, stepVars, ctrlVars,
                 pc, scheduled_new_reqs, preempted_reqs, step_skipped_waiting>>

\* The request preemption evicts: the last admitted, or the lowest priority.
IsVictim(v) ==
  /\ Contains(running, v)
  /\ IF Policy = "fcfs" THEN v = running[Len(running)]
     ELSE \A i \in 1..Len(running) : Rank[running[i]] <= Rank[v]

IndexAfterEviction_Current(v) ==
  IF IndexOf(running, v) <= req_index THEN req_index - 1 ELSE req_index
IndexAfterEviction(v) ==
  IF IndexOf(running, v) < req_index THEN req_index - 1 ELSE req_index

\* What the budgets get back when v is taken out of the batch.
GiveBack_TokensOnly(v) ==
  /\ token_budget' = token_budget + num_scheduled_tokens[v]
  /\ input_budget' = input_budget + num_scheduled_tokens[v]
GiveBack(v) ==
  LET planned == num_scheduled_tokens[v] IN
  /\ token_budget' = token_budget + planned
  /\ input_budget' = input_budget + IF planned = 0 THEN 0 ELSE planned + DraftSlots

\* The pool does not cover what r is to compute.
LacksBlocks(r) ==
  \E n \in 1..token_budget :
    Wants(r, n) /\ Allocations(r, req[r].num_computed_tokens, n) = {}

\* Allocation failed: evict the victim, give back what this step had planned
\* for it, and try again (or end the loop when r itself was the victim).
PreemptVictim(r, v) ==
  /\ LacksBlocks(r)
  /\ IsVictim(v) /\ BlocksCanBeFreed(v)
  /\ PreemptRequest(v, RequiresKVDelivery)
  /\ running' = Without(running, v)
  /\ req_index' = IndexAfterEviction(v)
  /\ GiveBack(v)
  /\ num_scheduled_tokens' = [num_scheduled_tokens EXCEPT ![v] = 0]
  /\ scheduled_spec_tokens' = [scheduled_spec_tokens EXCEPT ![v] = 0]
  /\ preempted_reqs' = TRUE
  /\ pc' = IF v = r THEN "finish" ELSE "running"
  /\ UNCHANGED <<skipped_waiting, seqVars, finished_req_ids, stepVars, ctrlVars,
                 scheduled_new_reqs, step_skipped_waiting>>

\* Evicting the victim would not help: its blocks are freed only later.
VictimIsFenced ==
  \E r \in Requests :
    /\ LacksBlocks(r)
    /\ \E v \in Requests : IsVictim(v) /\ ~BlocksCanBeFreed(v)

EndRunning ==
  /\ pc = "running"
  /\ VictimIsFenced \/ ~\E r \in Requests : AtRunning(r)
  /\ pc' = IF preempted_reqs \/ pause_state # "UNPAUSED" THEN "finish"
           ELSE "waiting"
  /\ UNCHANGED <<req, queueVars, blockVars, seqVars, idVars, stepVars, ctrlVars,
                 localVars>>

\* The request the WAITING loop looks at next, while it goes on.
AtWaiting(r) ==
  /\ pc = "waiting" /\ (waiting # <<>> \/ skipped_waiting # <<>>)
  /\ token_budget > 0 /\ input_budget > DraftSlots
  /\ Len(running) < MaxActive
  /\ IsNextWaiting(r)

\* Deliverable stale output is in flight: resuming now could sample again a
\* position that output will deliver.
AwaitsStaleOutput(r) ==
  req[r].num_stale_output_tokens > 0 /\ ~req[r].drop_stale_output

PopWaiting_FirstQueue(r) ==
  /\ waiting' = Without(waiting, r)
  /\ UNCHANGED skipped_waiting
PopWaiting(r) ==
  /\ waiting' = Without(waiting, r)
  /\ skipped_waiting' = Without(skipped_waiting, r)

SkipWaiting(r) ==
  /\ AtWaiting(r) /\ AwaitsStaleOutput(r)
  /\ PopWaiting(r)
  /\ step_skipped_waiting' = Append(step_skipped_waiting, r)
  /\ UNCHANGED <<req, running, blockVars, seqVars, idVars, stepVars, ctrlVars, pc,
                 req_index, token_budget, input_budget, num_scheduled_tokens,
                 scheduled_spec_tokens, scheduled_new_reqs, preempted_reqs>>

\* Whole cached blocks, and never the last token: it must be recomputed.
HitLengths(r) == {h \in PrefixHits : h % BlockSize = 0 /\ h < req[r].num_tokens}

NumPrefillTokens(r, hit) ==
  ChunkTokens(r, hit, Lesser(CapLongPrefill(req[r].num_tokens - hit), Budget))

\* The allocations that admit r: with full_sequence_must_fit the whole sequence
\* has to fit, although only this chunk's blocks are taken.
Admissions_IgnoresHit(r, hit, n) == Allocations(r, 0, n)
Admissions(r, hit, n) ==
  {new \in Allocations(r, hit, n) :
     ReserveFullISL => CeilDiv(req[r].num_tokens, BlockSize) <= Cardinality(Free)}

Admitted(r, hit) == [req[r] EXCEPT !.status = "RUNNING", !.num_computed_tokens = hit]

AdmitWaiting(r, hit, n) ==
  /\ AtWaiting(r) /\ ~AwaitsStaleOutput(r) /\ n = NumPrefillTokens(r, hit)
  /\ Allocate(r, Admissions(r, hit, n))
  /\ PopWaiting(r)
  /\ running' = Append(running, r)
  /\ req' = [req EXCEPT ![r] = Admitted(r, hit)]
  /\ scheduled_new_reqs' = scheduled_new_reqs \cup {r}
  /\ num_scheduled_tokens' = [num_scheduled_tokens EXCEPT ![r] = n]
  /\ token_budget' = token_budget - n
  /\ input_budget' = input_budget - (n + DraftSlots)
  /\ UNCHANGED <<deferred_frees, seqVars, idVars, stepVars, ctrlVars, pc, req_index,
                 scheduled_spec_tokens, preempted_reqs, step_skipped_waiting>>

\* The head of the queue does not fit, or the budget left is too small for a chunk
\* of it: admission stops at it.
HeadDoesNotFit ==
  \E r \in Requests : \E hit \in HitLengths(r) :
    /\ AtWaiting(r) /\ ~AwaitsStaleOutput(r)
    /\ \E n \in 0..token_budget :
         /\ n = NumPrefillTokens(r, hit)
         /\ n = 0 \/ Admissions(r, hit, n) = {}

EndWaiting ==
  /\ pc = "waiting"
  /\ HeadDoesNotFit \/ ~\E r \in Requests : AtWaiting(r)
  /\ skipped_waiting' = step_skipped_waiting \o skipped_waiting
  /\ step_skipped_waiting' = <<>>
  /\ pc' = "finish"
  /\ UNCHANGED <<req, running, waiting, blockVars, seqVars, idVars, stepVars,
                 ctrlVars, req_index, token_budget, input_budget,
                 num_scheduled_tokens, scheduled_spec_tokens, scheduled_new_reqs,
                 preempted_reqs>>

\* The request was given its whole known prefix and samples in this step.
FillsPrefix(r) ==
  req[r].num_computed_tokens + num_scheduled_tokens[r]
    >= req[r].num_tokens + req[r].num_output_placeholders

\* _update_after_schedule of Scheduler and of AsyncScheduler, for one request.
AfterSchedule(r, seq, k) ==
  LET n == num_scheduled_tokens[r] IN
  IF n = 0 THEN req[r]
  ELSE [req[r] EXCEPT
          !.num_computed_tokens = @ + n,
          !.num_in_flight_tokens = @ + n,
          !.last_sched_seq = IF DeferBlockFree THEN seq ELSE @,
          !.num_output_placeholders =
              IF FillsPrefix(r) THEN @ + 1 + scheduled_spec_tokens[r] ELSE @,
          !.spec_token_ids = IF FillsPrefix(r) THEN k ELSE @]

Scheduled == {r \in Requests : num_scheduled_tokens[r] # 0}

\* Build the SchedulerOutput, send it to the workers and advance the counters.
EndSchedule ==
  /\ pc = "finish"
  /\ LET seq == IF DeferBlockFree /\ Scheduled # {} THEN sched_step_seq + 1
                ELSE sched_step_seq
     IN
     /\ sched_step_seq' = seq
     /\ pipeline' = Append(pipeline,
          [n |-> num_scheduled_tokens,
           spec |-> scheduled_spec_tokens,
           add |-> [r \in Requests |->
                     IF r \in scheduled_new_reqs
                     THEN [len |-> req[r].num_tokens,
                           computed |-> req[r].num_computed_tokens]
                     ELSE NoSlot],
           free |-> finished_req_ids \cup preempted_req_ids,
           writes |-> UNION {owned[r] : r \in Scheduled},
           seq |-> seq])
     /\ \E k \in SpecChoices :
          req' = [r \in Requests |-> AfterSchedule(r, seq, k)]
  /\ finished_req_ids' = {} /\ preempted_req_ids' = {}
  /\ pc' = "idle"
  /\ UNCHANGED <<queueVars, blockVars, processed_step_seq, slots, ctrlVars, localVars>>

ScheduleCall ==
  \/ BeginSchedule
  \/ \E r \in Requests : SkipRunning(r) \/ SkipWaiting(r)
  \/ \E r \in Requests : \E n \in 1..token_budget : ScheduleRunning(r, n)
  \/ \E r, v \in Requests : PreemptVictim(r, v)
  \/ \E r \in Requests : \E hit \in HitLengths(r), n \in 1..token_budget :
       AdmitWaiting(r, hit, n)
  \/ EndRunning \/ EndWaiting \/ EndSchedule

-----------------------------------------------------------------------------
(* The workers run the oldest step, and update_from_output() handles it *)

NonEmpty(step) == \E r \in Requests : step.n[r] # 0

\* finish_requests and then add_requests of the worker, for r's slot.
SlotBefore_AddsFirst(step, r) ==
  IF r \in step.free THEN NoSlot
  ELSE IF step.add[r] # NoSlot THEN step.add[r] ELSE slots[r]
SlotBefore(step, r) ==
  IF step.add[r] # NoSlot THEN step.add[r]
  ELSE IF r \in step.free THEN NoSlot ELSE slots[r]

\* The worker runs the oldest step: it drops and adds request slots first, and
\* the step's writes are complete when its output arrives.
BeginUpdate ==
  /\ pc = "idle" /\ pipeline # <<>>
  /\ LET step == pipeline[1] IN
     /\ slots' = [r \in Requests |-> SlotBefore(step, r)]
     /\ pipeline' = [pipeline EXCEPT ![1].writes = {}]
     /\ IF DeferBlockFree /\ NonEmpty(step)
        THEN /\ processed_step_seq' = processed_step_seq + 1
             /\ pc' = "drain"
        ELSE /\ UNCHANGED processed_step_seq
             /\ pc' = "update"
  /\ UNCHANGED <<req, queueVars, blockVars, sched_step_seq, idVars, ctrlVars, localVars>>

FencePassed_Strictly ==
  deferred_frees # <<>> /\ deferred_frees[1].fence < processed_step_seq

\* _drain_deferred_frees: free the entries in front of the first pending fence.
FencePassed ==
  deferred_frees # <<>> /\ deferred_frees[1].fence <= processed_step_seq

DrainDeferredFree ==
  /\ pc = "drain" /\ FencePassed
  /\ deferred_frees' = SubSeq(deferred_frees, 2, Len(deferred_frees))
  /\ UNCHANGED <<req, queueVars, owned, seqVars, idVars, stepVars, ctrlVars, pc,
                 localVars>>

EndDrain ==
  /\ pc = "drain" /\ ~FencePassed
  /\ pc' = "update"
  /\ UNCHANGED <<req, queueVars, blockVars, seqVars, idVars, stepVars, ctrlVars,
                 localVars>>

\* The worker samples for r when the step completes the prefix it knows.
Samples(r) == slots[r].computed + pipeline[1].n[r] >= slots[r].len

ExecuteRequest_KeepsRejected(r, accepted) ==
  slots' = [slots EXCEPT ![r] =
    [len |-> IF Samples(r) THEN @.len + accepted + 1 ELSE @.len,
     computed |-> @.computed + pipeline[1].n[r]]]

\* execute_model and sample_tokens for r: accepted draft tokens plus one.
ExecuteRequest(r, accepted) ==
  LET step == pipeline[1]
      slot == slots[r]
  IN  slots' = [slots EXCEPT ![r] =
        IF Samples(r)
        THEN [len |-> slot.len + accepted + 1,
              computed |-> slot.computed + step.n[r] - (step.spec[r] - accepted)]
        ELSE [len |-> slot.len, computed |-> slot.computed + step.n[r]]]

\* check_stop on length.
AtLengthLimit(num_tokens) ==
  num_tokens >= PromptLen + MaxTokens \/ num_tokens >= MaxModelLen

IsStale(r) == req[r].num_stale_output_tokens > 0

\* Drained in lockstep for every request of the step, dropped output included.
Counted(r) ==
  [req[r] EXCEPT
     !.num_in_flight_tokens = @ - pipeline[1].n[r],
     !.num_stale_output_tokens = IF IsStale(r) THEN @ - pipeline[1].n[r] ELSE @]

\* Rejected drafts roll the optimistic counters back, unless a preemption has
\* already reset them; the tokens appended use up their placeholders.
Corrected(r, rejected, appended) ==
  [Counted(r) EXCEPT
     !.num_computed_tokens = IF ~IsStale(r) /\ @ > 0 THEN @ - rejected ELSE @,
     !.num_output_placeholders =
         IF IsStale(r) THEN @ ELSE (IF @ > 0 THEN @ - rejected ELSE @) - appended,
     !.num_tokens = @ + appended]

\* One iteration of update_from_output's loop: r's share of the oldest step.
\* accepted drafts were verified; appended of the sampled tokens reach r before
\* check_stop (at end-of-sequence or a length limit) ends the loop.
UpdateRequest(r, accepted, appended, eos) ==
  LET spec == pipeline[1].spec[r]
      sampled == IF Samples(r) THEN accepted + 1 ELSE 0
      dropped == IsStale(r) /\ req[r].drop_stale_output
      stopped == sampled > 0
                   /\ (eos \/ AtLengthLimit(req[r].num_tokens + appended))
  IN
  /\ pc = "update" /\ pipeline[1].n[r] # 0
  /\ accepted \in 0..spec /\ (~Samples(r) => accepted = 0)
  /\ ExecuteRequest(r, accepted)
  /\ pipeline' = [pipeline EXCEPT ![1].n[r] = 0]
  /\ IF sampled = 0 \/ ~Live(r) \/ dropped THEN appended = 0 /\ ~eos
     ELSE /\ appended \in 1..sampled
          /\ \A i \in 1..(appended - 1) : ~AtLengthLimit(req[r].num_tokens + i)
          /\ appended < sampled => stopped
  /\ \/ /\ ~Live(r)
        /\ UNCHANGED <<req, queueVars, blockVars, finished_req_ids>>
     \/ /\ Live(r) /\ dropped
        /\ req' = [req EXCEPT ![r] = Counted(r)]
        /\ UNCHANGED <<queueVars, blockVars, finished_req_ids>>
     \/ /\ Live(r) /\ ~dropped /\ ~stopped
        /\ LET rejected == IF sampled > 0 THEN spec - accepted ELSE 0
           IN  req' = [req EXCEPT ![r] = Corrected(r, rejected, appended)]
        /\ UNCHANGED <<queueVars, blockVars, finished_req_ids>>
     \/ /\ Live(r) /\ ~dropped /\ stopped
        /\ FinishRequest(r)
  /\ UNCHANGED <<preempted_req_ids, seqVars, ctrlVars, pc, localVars>>

EndUpdate ==
  /\ pc = "update" /\ ~NonEmpty(pipeline[1])
  /\ pipeline' = SubSeq(pipeline, 2, Len(pipeline))
  /\ pc' = "idle"
  /\ UNCHANGED <<req, queueVars, blockVars, seqVars, idVars, slots, ctrlVars, localVars>>

MaxSpec == CHOOSE k \in SpecChoices : \A j \in SpecChoices : j <= k

UpdateCall ==
  \/ BeginUpdate \/ DrainDeferredFree \/ EndDrain
  \/ \E r \in Requests, accepted \in 0..MaxSpec, appended \in 0..(MaxSpec + 1),
        eos \in BOOLEAN : UpdateRequest(r, accepted, appended, eos)
  \/ EndUpdate

Client ==
  \/ \E r \in Requests : AddRequest(r) \/ Abort(r)
  \/ \E p \in PauseStates : SetPauseState(p)
  \/ BeginReset

ResetCall == ResetPreempt \/ EndReset

Next == Client \/ ResetCall \/ ScheduleCall \/ UpdateCall

Spec == Init /\ [][Next]_vars

\* The engine loop runs: no call is left half done, and while there are
\* requests (or batches in flight) it keeps scheduling and processing.
FairSpec == Spec /\ WF_vars(ResetCall \/ ScheduleCall \/ UpdateCall)

-----------------------------------------------------------------------------
(* Properties *)

ReqFields ==
  [status : {"NEW", "WAITING", "RUNNING", "PREEMPTED", "FINISHED"},
   num_tokens : Int, num_computed_tokens : Int, num_in_flight_tokens : Int,
   num_stale_output_tokens : Int, drop_stale_output : BOOLEAN,
   num_output_placeholders : Int, spec_token_ids : Int, last_sched_seq : Int]

Slot == [len : Int, computed : Int]

Step ==
  [n : [Requests -> Int], spec : [Requests -> Int], add : [Requests -> Slot],
   free : SUBSET Requests, writes : SUBSET Blocks, seq : Int]

\* The type of every variable.
TypeOK ==
  /\ req \in [Requests -> ReqFields]
  /\ running \in Seq(Requests) /\ waiting \in Seq(Requests)
  /\ skipped_waiting \in Seq(Requests) /\ step_skipped_waiting \in Seq(Requests)
  /\ owned \in [Requests -> SUBSET Blocks]
  /\ deferred_frees \in Seq([fence : Int, blocks : SUBSET Blocks])
  /\ sched_step_seq \in Nat /\ processed_step_seq \in Nat
  /\ finished_req_ids \in SUBSET Requests /\ preempted_req_ids \in SUBSET Requests
  /\ pause_state \in {"UNPAUSED", "PAUSED_NEW", "PAUSED_ALL"}
  /\ pipeline \in Seq(Step)
  /\ slots \in [Requests -> Slot]
  /\ resets \in Nat /\ reset_successful \in BOOLEAN
  /\ pc \in {"idle", "reset", "running", "waiting", "finish", "drain", "update"}
  /\ req_index \in Nat \ {0} /\ token_budget \in Int /\ input_budget \in Int
  /\ num_scheduled_tokens \in [Requests -> Int]
  /\ scheduled_spec_tokens \in [Requests -> Int]
  /\ scheduled_new_reqs \in SUBSET Requests
  /\ preempted_reqs \in BOOLEAN

\* Sum over the pipeline of the tokens scheduled for r and not yet processed.
InFlight(r) ==
  LET sum[i \in 0..Len(pipeline)] ==
        IF i = 0 THEN 0 ELSE sum[i - 1] + pipeline[i].n[r]
  IN  sum[Len(pipeline)]

\* num_in_flight_tokens counts exactly the tokens of the steps in flight, and
\* the stale share never exceeds it: preemptions, resets and resumptions in any
\* order keep the two counters drained in lockstep (the asserts of
\* update_from_output).
InFlightExact ==
  \A r \in Requests : Live(r) =>
    /\ req[r].num_in_flight_tokens = InFlight(r)
    /\ req[r].num_stale_output_tokens \in 0..InFlight(r)

\* The optimistic position arithmetic closes: with placeholders outstanding the
\* scheduler has computed up to, and not including, the last promised token,
\* whatever mix of rejections, trims and preemptions came before.
PositionsExact ==
  \A r \in Requests : req[r].status = "RUNNING" =>
    /\ req[r].num_output_placeholders >= 0
    /\ IF req[r].num_output_placeholders = 0
       THEN req[r].num_computed_tokens \in 0..(req[r].num_tokens - 1)
       ELSE req[r].num_computed_tokens
              = req[r].num_tokens + req[r].num_output_placeholders - 1
    /\ req[r].num_computed_tokens < MaxModelLen

\* Tokens reach a request in order: what update_from_output appends was sampled
\* by the worker for exactly the position that comes next, so no token is lost,
\* repeated or delivered after a resumed request sampled its position again.
OutputsInOrder ==
  pc = "update" =>
    \A r \in Requests :
      (/\ pipeline[1].n[r] # 0 /\ Live(r) /\ Samples(r)
       /\ ~(req[r].num_stale_output_tokens > 0 /\ req[r].drop_stale_output))
      => slots[r].len = req[r].num_tokens

\* Every request the worker is asked to run has a slot there (execute_model
\* looks its index up), and the slots never outnumber the admission limit.
WorkerSlotsMatch ==
  pc = "update" =>
    /\ \A r \in Requests : pipeline[1].n[r] # 0 => slots[r] # NoSlot
    /\ Cardinality({r \in Requests : slots[r] # NoSlot}) <= MaxActive

\* When nothing is in flight the worker's counters are the scheduler's.
WorkerAgrees ==
  (pc = "idle" /\ pipeline = <<>>) =>
    \A r \in Requests : req[r].status = "RUNNING" =>
      slots[r] = [len |-> req[r].num_tokens,
                  computed |-> req[r].num_computed_tokens]

Occurrences(q, r) == Cardinality({i \in 1..Len(q) : q[i] = r})

\* A live request sits in exactly one queue, once, the one its status names; a
\* finished one sits in none.
QueuesPartition ==
  \A r \in Requests :
    LET inRunning == Occurrences(running, r)
        inWaiting == Occurrences(waiting, r) + Occurrences(skipped_waiting, r)
                     + Occurrences(step_skipped_waiting, r)
    IN  /\ inRunning = IF req[r].status = "RUNNING" THEN 1 ELSE 0
        /\ inWaiting = IF req[r].status \in {"WAITING", "PREEMPTED"} THEN 1 ELSE 0

Total(f) ==
  LET sum[S \in SUBSET Requests] ==
        IF S = {} THEN 0
        ELSE LET r == CHOOSE r \in S : TRUE IN f[r] + sum[S \ {r}]
  IN  sum[Requests]

\* The asserts at the end of schedule(): what the budgets lost is what the batch
\* holds, also after a preemption took a request back out of the batch; only
\* running requests are in the batch, each with work to do.
BatchExact ==
  pc \in {"running", "waiting", "finish"} =>
    /\ token_budget >= 0 /\ input_budget >= 0
    /\ pause_state # "PAUSED_ALL" =>
         Total(num_scheduled_tokens) + token_budget = MaxScheduledTokens
    /\ Total(num_scheduled_tokens) + DraftSlots * Cardinality(Scheduled)
         + input_budget = MaxBatchedTokens
    /\ \A r \in Scheduled :
         req[r].status = "RUNNING" /\ num_scheduled_tokens[r] > 0

\* A running request's blocks cover every token position it has been scheduled
\* for: no step writes past its block table.
BlocksCoverComputed ==
  \A r \in Requests : req[r].status = "RUNNING" /\ pc # "update" =>
    LET planned == IF pc \in {"running", "waiting", "finish"}
                   THEN num_scheduled_tokens[r] ELSE 0
    IN  Cardinality(owned[r]) * BlockSize >= req[r].num_computed_tokens + planned

\* With deferred freeing, a block that a step in flight may still write is not
\* in the pool, so no connector load can be given it.
NoWriteToFreeBlock ==
  DeferBlockFree => \A i \in 1..Len(pipeline) : pipeline[i].writes \cap Free = {}

\* Deferred frees never outlive the steps they wait for: an idle pipeline means
\* that every fence has been drained.
NoStrandedBlocks ==
  (pc = "idle" /\ pipeline = <<>>) => deferred_frees = <<>>

\* scheduler.py on reset_running_requests: preempting everything makes "sure the
\* reset is successful".
ResetSucceeds == reset_successful

\* Every request that stays in an unpaused engine is finished in the end, however
\* often it is preempted, skipped or reset on the way.
Served ==
  (<>[](pause_state = "UNPAUSED")) =>
    \A r \in Requests : (req[r].status = "WAITING") ~> (req[r].status = "FINISHED")

\* Pausing new requests drains the engine: the running requests finish (or are
\* preempted) and no step stays in flight.
DrainsWhenPaused ==
  (<>[](pause_state = "PAUSED_NEW")) => <>[](running = <<>>)
=============================================================================
