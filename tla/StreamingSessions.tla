-------------------------- MODULE StreamingSessions --------------------------
(***************************************************************************)
(* Streaming-input sessions of overlays/v1/core/sched/scheduler.py: a      *)
(* request whose prompt arrives in chunks.  When it stops it waits for the *)
(* next chunk outside the running queue, keeps its KV blocks and its slot  *)
(* on the worker, and goes on from the tokens it has computed.             *)
(*                                                                         *)
(* The engine runs one step at a time, first come first served; the client *)
(* may act between steps and while one is on the worker.  Budgets and the  *)
(* block pool are any outcome: a request may not fit, or be preempted.     *)
(* (Scheduler has them in full, without sessions.)                         *)
(***************************************************************************)
EXTENDS BlockHashes, FiniteSets

CONSTANTS
    Requests,      \* request ids, each used once
    Sessions,      \* those whose input is streamed (resumable)
    Prompts,       \* what a client may begin with: [tokens, media]
    Chunks,        \* what it may send on to a session
    Tags,          \* [first, every] of a request
    Samples,       \* tokens the model may sample
    MaxSampled,    \* tokens a step may sample for a request: 1 + its drafts
    MaxOutput,     \* bound: tokens sampled for one chunk
    MaxChunks,     \* bound: chunks of a session
    MaxActive,     \* max_num_active_reqs
    MaxSlots,      \* max_num_seqs: slots of the worker
    BlockSize,     \* hash_block_size
    Scales,        \* block sizes of the KV cache groups, in hash blocks
    AlignedStops   \* may a request stop at a token that completes a block

ASSUME ConstantsOK ==
    /\ Sessions \subseteq Requests
    /\ MaxActive \in Nat \ {0} /\ MaxSlots \in Nat \ {0} /\ BlockSize \in Nat \ {0}
    /\ MaxSampled \in Nat \ {0} /\ MaxOutput \in Nat \ {0} /\ MaxChunks \in Nat \ {0}
    /\ AlignedStops \in BOOLEAN /\ Scales \subseteq Nat \ {0}
    /\ \A chunk \in Prompts \cup Chunks :
          /\ chunk.tokens \in Seq(ToSet(chunk.tokens)) /\ chunk.tokens # <<>>
          /\ chunk.media \in Seq(ToSet(chunk.media)) /\ InText(chunk.media, Len(chunk.tokens))

VARIABLES
    req,                  \* the Request objects
    waiting, skipped_waiting, running,
    num_waiting_for_streaming_input,
    finished_req_ids, preempted_req_ids,   \* not yet told to the worker
    step_skipped_waiting, \* local of schedule()
    pc,                   \* "idle", "admit" (in schedule()), "flight", "update"
    batch,                \* the step on the worker: requests left to update
    slots,                \* requests in the worker's table
    kv,                   \* kv[r]: what the blocks of r hold, position by position
    chunks,               \* chunks the client has sent for r
    closed                \* sessions whose end the client has sent

queueVars == <<waiting, skipped_waiting, running>>
tellVars == <<finished_req_ids, preempted_req_ids>>
clientVars == <<chunks, closed>>
workVars == <<batch, slots, kv>>
vars == <<req, queueVars, num_waiting_for_streaming_input, tellVars,
          step_skipped_waiting, pc, workVars, clientVars>>

-----------------------------------------------------------------------------
Blank(status) ==
    [status |-> status, all_token_ids |-> <<>>, mm_features |-> <<>>,
     num_computed_tokens |-> 0, block_hashes |-> <<>>, num_output |-> 0,
     streaming_queue |-> <<>>, tags |-> "none"]

\* remove_request, and remove_all of one
Without(q, r) ==
    IF Contains(q, r) THEN RemoveAt(q, CHOOSE i \in DOMAIN q : q[i] = r) ELSE q

Blocked == "WAITING_FOR_STREAMING_REQ"
Live(r) == req[r].status \notin {"NEW", "FINISHED"}
NumTokens(r) == Len(req[r].all_token_ids)

END == [tokens |-> <<>>, media |-> <<>>]   \* the sentinel None in streaming_queue

\* update_block_hashes
WithHashes(r) == [r EXCEPT !.block_hashes = Hashed(r, BlockSize)]

Shifted(media, base) == [i \in DOMAIN media |-> [media[i] EXCEPT !.offset = @ + base]]

\* _update_request_as_session: what was computed stays, then the chunk.
Resumed(r, chunk) ==
    LET computed == IF r.num_computed_tokens < Len(r.all_token_ids)
                    THEN r.num_computed_tokens ELSE Len(r.all_token_ids)
        kept == SubSeq(r.all_token_ids, 1, computed)
    IN  WithHashes([r EXCEPT !.all_token_ids = kept \o chunk.tokens,
                             !.mm_features = @ \o Shifted(chunk.media, computed),
                             !.num_output = 0, !.status = "WAITING"])

Gone(r) == [req EXCEPT ![r] = Blank("FINISHED")]

-----------------------------------------------------------------------------
Init ==
    /\ req = [r \in Requests |-> Blank("NEW")]
    /\ waiting = <<>> /\ skipped_waiting = <<>> /\ running = <<>>
    /\ num_waiting_for_streaming_input = 0
    /\ finished_req_ids = {} /\ preempted_req_ids = {}
    /\ step_skipped_waiting = <<>>
    /\ pc = "idle"
    /\ batch = <<>> /\ slots = {} /\ kv = [r \in Requests |-> <<>>]
    /\ chunks = [r \in Requests |-> 0] /\ closed = {}

-----------------------------------------------------------------------------
(* The client: add_request() and finish_requests().                         *)

ClientTurn == pc \in {"idle", "flight"}

AddRequest(r, chunk, tags) ==
    /\ ClientTurn /\ req[r].status = "NEW"
    /\ req' = [req EXCEPT ![r] =
                 WithHashes([Blank("WAITING") EXCEPT !.all_token_ids = chunk.tokens,
                                !.mm_features = chunk.media, !.tags = tags])]
    /\ waiting' = Append(waiting, r)
    /\ chunks' = [chunks EXCEPT ![r] = 1]
    /\ UNCHANGED <<skipped_waiting, running, num_waiting_for_streaming_input, tellVars,
                   step_skipped_waiting, pc, workVars, closed>>

MaySend(r) == ClientTurn /\ r \in Sessions \ closed /\ Live(r)

\* add_request with the id of a session that has not stopped yet: queued.
QueueInput(r, input) ==
    /\ MaySend(r) /\ req[r].status # Blocked
    /\ req' = [req EXCEPT ![r].streaming_queue = Append(@, input)]
    /\ UNCHANGED <<queueVars, num_waiting_for_streaming_input, tellVars,
                   step_skipped_waiting, pc, workVars>>

\* add_request for a session that waits for it: in place, in skipped_waiting.
ResumeInput(r, chunk) ==
    /\ MaySend(r) /\ req[r].status = Blocked
    /\ req' = [req EXCEPT ![r] = Resumed(@, chunk)]
    /\ num_waiting_for_streaming_input' = num_waiting_for_streaming_input - 1
    /\ UNCHANGED <<queueVars, tellVars, step_skipped_waiting, pc, workVars>>

SendChunk(r, chunk) ==
    /\ chunks[r] < MaxChunks
    /\ QueueInput(r, chunk) \/ ResumeInput(r, chunk)
    /\ chunks' = [chunks EXCEPT ![r] = @ + 1]
    /\ UNCHANGED closed

CountAfter_KeepsBlocked(r) == num_waiting_for_streaming_input

\* finish_requests: a session that waits for input is no longer counted.
CountAfter(r) ==
    num_waiting_for_streaming_input - (IF req[r].status = Blocked THEN 1 ELSE 0)

Finish(r) ==
    /\ num_waiting_for_streaming_input' = CountAfter(r)
    /\ running' = Without(running, r)
    /\ waiting' = Without(waiting, r)
    /\ skipped_waiting' = Without(skipped_waiting, r)
    /\ req' = Gone(r)
    /\ kv' = [kv EXCEPT ![r] = <<>>]
    /\ finished_req_ids' = finished_req_ids \cup {r}

FinishWaiting(r) ==
    /\ MaySend(r) /\ req[r].status = Blocked
    /\ Finish(r)
    /\ UNCHANGED <<preempted_req_ids, step_skipped_waiting, pc, batch, slots>>

SendEnd(r) ==
    /\ QueueInput(r, END) \/ FinishWaiting(r)
    /\ closed' = closed \cup {r}
    /\ UNCHANGED chunks

Abort(r) ==
    /\ ClientTurn /\ Live(r)
    /\ Finish(r)
    /\ UNCHANGED <<preempted_req_ids, step_skipped_waiting, pc, batch, slots, clientVars>>

-----------------------------------------------------------------------------
(* schedule() *)

HasRequests ==
    \/ finished_req_ids # {}
    \/ Len(waiting) + Len(skipped_waiting) - num_waiting_for_streaming_input
         + Len(running) > 0

\* The last n running requests give their blocks back, so that the others fit.
\* A step that preempts admits nothing.
ScheduleRunning(n) ==
    LET keep == Len(running) - n
        out == SubSeq(running, keep + 1, Len(running))
    IN  /\ pc = "idle" /\ HasRequests
        /\ running' = SubSeq(running, 1, keep)
        /\ waiting' = out \o waiting
        /\ req' = [r \in Requests |->
                     IF Contains(out, r)
                     THEN [req[r] EXCEPT !.status = "PREEMPTED", !.num_computed_tokens = 0]
                     ELSE req[r]]
        /\ preempted_req_ids' = preempted_req_ids \cup ToSet(out)
        /\ pc' = IF n = 0 THEN "admit" ELSE "preempted"
        /\ UNCHANGED <<skipped_waiting, num_waiting_for_streaming_input, finished_req_ids,
                       step_skipped_waiting, workVars, clientVars>>

NumActive_RunningOnly == Len(running)

\* Requests that hold a slot of the worker, as far as admission knows.
NumActive == Len(running) + num_waiting_for_streaming_input

IsNext(r) ==
    /\ pc = "admit" /\ NumActive < MaxActive
    /\ IF skipped_waiting # <<>> THEN r = Head(skipped_waiting)
                                 ELSE waiting # <<>> /\ r = Head(waiting)

Popped(r) ==
    /\ skipped_waiting' = Without(skipped_waiting, r)
    /\ waiting' = Without(waiting, r)

PassOver(r) ==
    /\ IsNext(r) /\ req[r].status = Blocked
    /\ Popped(r)
    /\ step_skipped_waiting' = <<r>> \o step_skipped_waiting
    /\ UNCHANGED <<req, running, num_waiting_for_streaming_input, tellVars, pc, workVars,
                   clientVars>>

\* Tokens a prefix hit may give back; the last token is always computed.
Hits(r) == {b * BlockSize : b \in 0..((NumTokens(r) - 1) \div BlockSize)}

\* A request that has computed nothing may find its own blocks again.
Starts(r) ==
    IF req[r].num_computed_tokens = 0 THEN {h \in Hits(r) : h <= Len(kv[r])}
    ELSE {req[r].num_computed_tokens}

Admit(r) ==
    /\ IsNext(r) /\ req[r].status # Blocked
    /\ \E start \in Starts(r) :
          req' = [req EXCEPT ![r].status = "RUNNING", ![r].num_computed_tokens = start]
    /\ Popped(r)
    /\ running' = Append(running, r)
    /\ UNCHANGED <<num_waiting_for_streaming_input, tellVars, step_skipped_waiting, pc,
                   workVars, clientVars>>

\* The positions the step computes.
Computed(r) ==
    SubSeq(kv[r], 1, req[r].num_computed_tokens) \o
    SubSeq(Content(req[r].all_token_ids, req[r].mm_features),
           req[r].num_computed_tokens + 1, NumTokens(r))

\* Admission is over: nobody is left, or the next does not fit.  The worker gets
\* the step: it frees the slots of the finished and the preempted, then adds.
EndSchedule ==
    /\ \/ pc = "preempted"
       \/ pc = "admit" /\ ~\E r \in Requests : IsNext(r) /\ req[r].status = Blocked
    /\ skipped_waiting' = step_skipped_waiting \o skipped_waiting
    /\ step_skipped_waiting' = <<>>
    /\ slots' = (slots \ (finished_req_ids \cup preempted_req_ids)) \cup ToSet(running)
    /\ finished_req_ids' = {} /\ preempted_req_ids' = {}
    /\ batch' = running
    /\ kv' = [r \in Requests |-> IF Contains(running, r) THEN Computed(r) ELSE kv[r]]
    /\ req' = [r \in Requests |->
                 IF Contains(running, r)
                 THEN [req[r] EXCEPT !.num_computed_tokens = NumTokens(r)] ELSE req[r]]
    /\ pc' = IF running = <<>> THEN "idle" ELSE "flight"
    /\ UNCHANGED <<waiting, running, num_waiting_for_streaming_input, clientVars>>

-----------------------------------------------------------------------------
(* update_from_output(), request by request.                                *)

Updating(r) == pc \in {"flight", "update"} /\ batch # <<>> /\ r = Head(batch)

NextUpdate ==
    /\ batch' = Tail(batch)
    /\ pc' = IF Len(batch) = 1 THEN "idle" ELSE "update"

SkipFinished(r) ==
    /\ Updating(r) /\ ~Live(r)
    /\ NextUpdate
    /\ UNCHANGED <<req, queueVars, num_waiting_for_streaming_input, tellVars,
                   step_skipped_waiting, slots, kv, clientVars>>

MayStop(n) == AlignedStops \/ n % BlockSize # 0

\* r after a step that sampled `out`, of which the first k are kept: the drafts
\* accepted have been computed, stop or no stop.
Sampled(r, out, k) ==
    WithHashes([req[r] EXCEPT !.all_token_ids = @ \o SubSeq(out, 1, k),
                              !.num_computed_tokens = @ + Len(out) - 1,
                              !.num_output = @ + k])

Written(r, out) ==
    kv' = [kv EXCEPT ![r] = @ \o [i \in 1..(Len(out) - 1) |-> <<out[i], NoItem, 0>>]]

GoOn(r, out) ==
    /\ Updating(r) /\ Live(r)
    /\ LET after == Sampled(r, out, Len(out)) IN
         /\ \/ after.num_output < MaxOutput
            \/ Len(out) = 1 /\ ~MayStop(Len(after.all_token_ids))
         /\ req' = [req EXCEPT ![r] = after]
    /\ Written(r, out)
    /\ NextUpdate
    /\ UNCHANGED <<queueVars, num_waiting_for_streaming_input, tellVars,
                   step_skipped_waiting, slots, clientVars>>

\* check_stop holds after the k-th token.
Stops(r, k) == Updating(r) /\ Live(r) /\ MayStop(NumTokens(r) + k)

\* _handle_stopped_request: the end of a request, or of a session's input.
StopForGood(r, k) ==
    /\ Stops(r, k)
    /\ r \in Sessions => req[r].streaming_queue # <<>> /\ Head(req[r].streaming_queue) = END
    /\ Finish(r)
    /\ NextUpdate
    /\ UNCHANGED <<preempted_req_ids, step_skipped_waiting, slots, clientVars>>

StopAndResume(r, out, k) ==
    /\ Stops(r, k)
    /\ r \in Sessions /\ req[r].streaming_queue # <<>> /\ Head(req[r].streaming_queue) # END
    /\ req' = [req EXCEPT ![r] =
                 [Resumed(Sampled(r, out, k), Head(req[r].streaming_queue))
                    EXCEPT !.streaming_queue = Tail(@)]]
    /\ running' = Without(running, r)
    /\ waiting' = Append(waiting, r)
    /\ Written(r, out)
    /\ NextUpdate
    /\ UNCHANGED <<skipped_waiting, num_waiting_for_streaming_input, tellVars,
                   step_skipped_waiting, slots, clientVars>>

StopAndWait(r, out, k) ==
    /\ Stops(r, k)
    /\ r \in Sessions /\ req[r].streaming_queue = <<>>
    /\ req' = [req EXCEPT ![r] = [Sampled(r, out, k) EXCEPT !.status = Blocked]]
    /\ num_waiting_for_streaming_input' = num_waiting_for_streaming_input + 1
    /\ running' = Without(running, r)
    /\ skipped_waiting' = Append(skipped_waiting, r)
    /\ Written(r, out)
    /\ NextUpdate
    /\ UNCHANGED <<waiting, tellVars, step_skipped_waiting, slots, clientVars>>

Outputs == UNION {[1..n -> Samples] : n \in 1..MaxSampled}

UpdateRequest(r) ==
    \/ SkipFinished(r)
    \/ \E out \in Outputs : GoOn(r, out)
    \/ \E k \in 1..MaxSampled : StopForGood(r, k)
    \/ \E out \in Outputs : \E k \in DOMAIN out :
          StopAndResume(r, out, k) \/ StopAndWait(r, out, k)

Client(r) ==
    \/ \E chunk \in Prompts, tags \in Tags : AddRequest(r, chunk, tags)
    \/ \E chunk \in Chunks : SendChunk(r, chunk)
    \/ SendEnd(r)
    \/ Abort(r)

Next ==
    \/ \E r \in Requests : Client(r) \/ PassOver(r) \/ Admit(r) \/ UpdateRequest(r)
    \/ \E n \in 0..Len(running) : ScheduleRunning(n)
    \/ EndSchedule

Spec == Init /\ [][Next]_vars

-----------------------------------------------------------------------------
OfStatus(S) == {r \in Requests : req[r].status \in S}

Places(r) ==
    [s \in 1..4 |->
        Cardinality({i \in DOMAIN <<running, waiting, skipped_waiting, step_skipped_waiting>>[s] :
            <<running, waiting, skipped_waiting, step_skipped_waiting>>[s][i] = r})]

\* No session is lost or queued twice, and the counter says how many wait for
\* input: get_num_unfinished_requests would keep an idle engine busy, or put a
\* busy one to sleep.  A session only waits when no chunk of it is queued.
SessionsQueued ==
    /\ num_waiting_for_streaming_input = Cardinality(OfStatus({Blocked}))
    /\ \A r \in Requests :
          LET at == Places(r) IN
          /\ at[1] + at[2] + at[3] + at[4] = IF Live(r) THEN 1 ELSE 0
          /\ at[1] = 1 <=> req[r].status = "RUNNING"
          /\ req[r].status = Blocked => at[2] = 0 /\ req[r].streaming_queue = <<>>

\* Admission counts what it means to: the requests that run and the sessions that
\* wait for input stay within the limit and have their slots, and a slot that is
\* neither's is about to be freed or is that of a session whose next chunk was
\* there when it stopped, or came since.
SlotsAccounted ==
    /\ Cardinality(OfStatus({"RUNNING", Blocked})) <= MaxActive
    /\ pc # "admit" => OfStatus({"RUNNING", Blocked}) \subseteq slots
    /\ \A r \in slots \ OfStatus({"RUNNING", Blocked}) :
          \/ r \in finished_req_ids \cup preempted_req_ids
          \/ req[r].status = "WAITING" /\ req[r].num_computed_tokens > 0

\* The worker has a slot for every request it is given.  No run checks it: it is
\* what SlotsAccounted falls short of by the sessions of its last disjunct, which
\* admission does not count (see README).
SlotsSuffice == Cardinality(slots) <= MaxSlots

\* A computed block, in every group's size, is cached under the hash of what it
\* holds, however the request came by its tokens and its media: a prefix hit gives
\* back the KV of the same tokens, media, salt and LoRA.
HashesFingerprint ==
    \A r \in Requests : \A scale \in Scales :
        LET view == View(req[r].block_hashes, scale)
            computed == Min({req[r].num_computed_tokens, NumTokens(r)}) \div BlockSize
        IN  /\ Len(req[r].block_hashes) = NumTokens(r) \div BlockSize
            /\ \A b \in 1..(computed \div scale) :
                  view[b] = Fingerprint(req[r].tags, kv[r], BlockSize, b * scale)
=============================================================================
