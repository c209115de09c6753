------------------------------ MODULE RefusalDial ------------------------------
(***************************************************************************)
(* The global refusal dial: POST and GET /admin/refusal_lambda             *)
(* (overlays/entrypoints/serve/refusal/api_router.py) against the engine   *)
(* and the tensor-parallel workers they drive.  A handler is an asyncio    *)
(* coroutine: between two of its steps it awaits one engine call, `op`     *)
(* holds the call until the engine executes it and `reply` its outcome     *)
(* until the handler resumes.  A cancelled handler stops waiting, but the  *)
(* call it has sent is executed all the same.                              *)
(*                                                                         *)
(* Every engine call may fail, before or after it took effect, and a set   *)
(* may reach some ranks only.  The engine is modelled from how the router  *)
(* uses it: a pause stops admissions and is answered when nothing runs any *)
(* more, after the prefix cache was cleared.                               *)
(*                                                                         *)
(* Lambdas are opaque values.  The workers keep them in a float32 tensor,  *)
(* which a readback returns: Float32[v] is v itself when v is within the   *)
(* router's 1e-9 of a float32, and another value when it is not.           *)
(***************************************************************************)
EXTENDS Integers, FiniteSets, TLC

CONSTANTS
    Posts, Gets,     \* handlers of the two routes, one per HTTP request
    Asks,            \* the lambda each POST carries
    Ranks,           \* tensor-parallel workers
    Requests,        \* generation requests that name no lambda of their own
    Initial,         \* lambda at start-up (VLLM_REFUSAL_LAMBDA)
    Float32,         \* what a float32 tensor makes of a lambda
    None             \* no handler

Lambdas == {Initial} \cup {Asks[h] : h \in Posts}

ASSUME DialConstants ==
    /\ Posts \cap Gets = {} /\ None \notin Posts \cup Gets
    /\ DOMAIN Asks = Posts /\ DOMAIN Float32 = Lambdas
    /\ Float32[Initial] = Initial
    /\ IsFiniteSet(Ranks) /\ Ranks # {}

Handlers == Posts \cup Gets
Values == {Float32[v] : v \in Lambdas}

VARIABLES
    pc,         \* where each handler is
    lock,       \* control.lock: the handler inside it
    blocked,    \* control.blocked
    op,         \* the engine call each handler has sent and the engine not executed
    reply,      \* its outcome
    seen,       \* the values a readback returned
    answer,     \* the HTTP answer of each handler
    paused,     \* the scheduler admits no new request
    draining,   \* the handlers whose pause waits for the running requests
    ranks,      \* lambda in each worker's tensor
    cache,      \* lambdas under which cached prefix blocks were computed
    status,     \* generation requests
    used,       \* lambdas that went into each request's output
    foreign,    \* the pause is an operator's, not the dial's
    uncertain   \* history: an engine call failed or a handler was cancelled

control == <<pc, lock, blocked, answer>>
calls == <<op, reply, seen>>
engine == <<paused, draining, ranks, cache>>
work == <<status, used>>
vars == <<control, calls, engine, work, foreign, uncertain>>

Init ==
    /\ pc = [h \in Handlers |-> "idle"]
    /\ lock = None
    /\ blocked = FALSE
    /\ op = [h \in Handlers |-> "none"]
    /\ reply = [h \in Handlers |-> "pending"]
    /\ seen = [h \in Handlers |-> [w \in Ranks |-> Initial]]
    /\ answer = [h \in Handlers |-> "none"]
    /\ paused = FALSE
    /\ draining = {}
    /\ ranks = [w \in Ranks |-> Initial]
    /\ cache = {}
    /\ status = [r \in Requests |-> "new"]
    /\ used = [r \in Requests |-> {}]
    /\ foreign = FALSE
    /\ uncertain = FALSE

-----------------------------------------------------------------------------
\* Handlers.

\* The engine call awaited at each point of a handler.
Method ==
    [check  |-> "is_paused", pause  |-> "pause", recheck |-> "is_paused",
     set    |-> "set",       verify |-> "get",   resume  |-> "resume",
     giveup |-> "resume",    read   |-> "get"]

\* The awaits inside the try block of the POST.
Guarded == {"pause", "recheck", "set", "verify", "resume", "giveup"}

\* Every rank returned the value (within 1e-9).
AllRanks(results, value) == \A w \in Ranks : results[w] = value

\* Requests the frontend has not seen the end of.
Unfinished_RunningOnly == {r \in Requests : status[r] = "running"}
Unfinished == {r \in Requests : status[r] \in {"waiting", "running", "preempted"}}

Await(h, at) ==
    /\ pc' = [pc EXCEPT ![h] = at]
    /\ op' = [op EXCEPT ![h] = Method[at]]
    /\ reply' = [reply EXCEPT ![h] = "pending"]
    /\ UNCHANGED <<seen, answer, engine, work, foreign, uncertain>>

Answer(h, code) ==
    /\ pc' = [pc EXCEPT ![h] = "done"]
    /\ answer' = [answer EXCEPT ![h] = code]
    /\ lock' = IF lock = h THEN None ELSE lock
    /\ UNCHANGED <<calls, engine, work, foreign, uncertain>>

\* The except clause: the control stays blocked and nothing is resumed.
Fail_Resumes(h) == blocked' = TRUE /\ Await(h, "giveup") /\ UNCHANGED lock
Fail(h) == blocked' = TRUE /\ Answer(h, "503")

At(h, where, outcome) == pc[h] = where /\ op[h] = "none" /\ reply[h] = outcome

Arrive(h) ==
    /\ pc[h] = "idle"
    /\ pc' = [pc EXCEPT ![h] = "lock"]
    /\ UNCHANGED <<lock, blocked, answer, calls, engine, work, foreign, uncertain>>

MayEnter_Anytime(h) == TRUE
MayEnter(h) == lock = None

RefuseBlocked(h) ==
    h \in Posts /\ pc[h] = "lock" /\ MayEnter(h) /\ blocked
    /\ Answer(h, "503") /\ UNCHANGED blocked

EnterPost(h) ==
    /\ h \in Posts /\ pc[h] = "lock" /\ MayEnter(h) /\ ~blocked
    /\ lock' = h
    /\ Await(h, "check") /\ UNCHANGED blocked

\* A GET needs the lock as well, so that it never reads in mid-transition.
MayRead_Anytime(h) == TRUE
MayRead(h) == lock = None

EnterGet(h) ==
    /\ h \in Gets /\ pc[h] = "lock" /\ MayRead(h)
    /\ lock' = IF lock = None THEN h ELSE lock
    /\ Await(h, "read") /\ UNCHANGED blocked

\* Outside the try block an exception leaves the control usable.
Escape(h) ==
    /\ At(h, "check", "error") \/ At(h, "read", "error")
    /\ Answer(h, "500") /\ UNCHANGED blocked

NotOurs(h) == At(h, "check", "yes") /\ Answer(h, "409") /\ UNCHANGED blocked

OwnsPause_Unchecked(h) == At(h, "check", "no") \/ At(h, "check", "yes")
OwnsPause(h) == At(h, "check", "no")

RequestPause(h) ==
    OwnsPause(h) /\ Await(h, "pause") /\ UNCHANGED <<lock, blocked>>

ConfirmPause(h) ==
    At(h, "pause", "yes") /\ Await(h, "recheck") /\ UNCHANGED <<lock, blocked>>

\* What is awaited when requests are left: a resume, then 409.
BackOut_LeavesPaused(h) == Answer(h, "409") /\ UNCHANGED blocked
BackOut_Blocks(h) == Fail(h)
BackOut(h) == Await(h, "giveup") /\ UNCHANGED <<lock, blocked>>

GiveUp(h) ==
    /\ At(h, "recheck", "yes") /\ Unfinished # {}
    /\ BackOut(h)

SetWorkers(h) ==
    /\ At(h, "recheck", "yes") /\ Unfinished = {}
    /\ Await(h, "set") /\ UNCHANGED <<lock, blocked>>

VerifyWorkers(h) ==
    At(h, "set", "yes") /\ Await(h, "verify") /\ UNCHANGED <<lock, blocked>>

ResumeEngine(h) ==
    /\ At(h, "verify", "yes") /\ AllRanks(seen[h], Asks[h])
    /\ Await(h, "resume") /\ UNCHANGED <<lock, blocked>>

Succeed(h) == At(h, "resume", "yes") /\ Answer(h, "200") /\ UNCHANGED blocked

Pending(h) == At(h, "giveup", "yes") /\ Answer(h, "409") /\ UNCHANGED blocked

StageFails(h) ==
    /\ \/ pc[h] \in Guarded /\ At(h, pc[h], "error")
       \/ At(h, "recheck", "no")
       \/ At(h, "verify", "yes") /\ ~AllRanks(seen[h], Asks[h])
    /\ Fail(h)

\* The first rank's value is reported when every rank has it.
Consistent(results) == \E v \in Values : AllRanks(results, v)

Report(h) ==
    /\ At(h, "read", "yes")
    /\ Answer(h, IF Consistent(seen[h]) THEN "consistent"
                 ELSE IF blocked THEN "inconsistent, blocked" ELSE "inconsistent")
    /\ UNCHANGED blocked

\* The variant that leaves the service lock held.
Cancel_KeepsLock(h) ==
    /\ pc[h] \notin {"idle", "done"}
    /\ blocked' = (blocked \/ pc[h] \in Guarded)
    /\ pc' = [pc EXCEPT ![h] = "done"]
    /\ answer' = [answer EXCEPT ![h] = "cancelled"]
    /\ uncertain' = TRUE
    /\ UNCHANGED <<calls, engine, work, foreign, lock>>

\* CancelledError at the await: a sent call stays sent.
Cancel(h) ==
    /\ pc[h] \notin {"idle", "done"}
    /\ blocked' = (blocked \/ pc[h] \in Guarded)
    /\ pc' = [pc EXCEPT ![h] = "done"]
    /\ answer' = [answer EXCEPT ![h] = "cancelled"]
    /\ lock' = IF lock = h THEN None ELSE lock
    /\ uncertain' = TRUE
    /\ UNCHANGED <<calls, engine, work, foreign>>

HandlerStep(h) ==
    \/ RefuseBlocked(h) \/ EnterPost(h) \/ EnterGet(h) \/ Escape(h)
    \/ NotOurs(h) \/ RequestPause(h) \/ ConfirmPause(h) \/ GiveUp(h)
    \/ SetWorkers(h) \/ VerifyWorkers(h) \/ ResumeEngine(h) \/ Succeed(h)
    \/ Pending(h) \/ StageFails(h) \/ Report(h)

-----------------------------------------------------------------------------
\* The engine, as the router uses it.

Execute(h, outcome) ==
    /\ op' = [op EXCEPT ![h] = "none"]
    /\ reply' = [reply EXCEPT ![h] = outcome]
    /\ UNCHANGED <<control, work, foreign>>

AnswerPaused(h) ==
    /\ op[h] = "is_paused"
    /\ Execute(h, IF paused THEN "yes" ELSE "no")
    /\ UNCHANGED <<seen, engine, uncertain>>

\* pause_generation(mode="wait", clear_cache=True): no more admissions; the answer comes later.
BeginPause(h) ==
    /\ op[h] = "pause"
    /\ paused' = TRUE
    /\ draining' = draining \cup {h}
    /\ Execute(h, "pending")
    /\ UNCHANGED <<seen, ranks, cache, uncertain>>

Drained == \A r \in Requests : status[r] # "running"

FinishPause(h) ==
    /\ h \in draining /\ Drained
    /\ draining' = draining \ {h}
    /\ cache' = {}
    /\ Execute(h, "yes")
    /\ UNCHANGED <<seen, paused, ranks, uncertain>>

\* reset_prefix_cache returned false: the pause fails, and stays in force.
ResetFails(h) ==
    /\ h \in draining /\ Drained
    /\ draining' = draining \ {h}
    /\ Execute(h, "error") /\ uncertain' = TRUE
    /\ UNCHANGED <<seen, paused, ranks, cache>>

SetLambda(h) ==
    /\ op[h] = "set"
    /\ \E reached \in SUBSET Ranks :
          /\ ranks' = [w \in Ranks |->
                          IF w \in reached THEN Float32[Asks[h]] ELSE ranks[w]]
          /\ \/ reached = Ranks /\ Execute(h, "yes") /\ UNCHANGED uncertain
             \/ Execute(h, "error") /\ uncertain' = TRUE
    /\ UNCHANGED <<seen, paused, draining, cache>>

GetLambda(h) ==
    /\ op[h] = "get"
    /\ seen' = [seen EXCEPT ![h] = ranks]
    /\ Execute(h, "yes")
    /\ UNCHANGED <<engine, uncertain>>

Resume(h) ==
    /\ op[h] = "resume"
    /\ paused' = FALSE
    /\ foreign' = FALSE
    /\ op' = [op EXCEPT ![h] = "none"]
    /\ \/ reply' = [reply EXCEPT ![h] = "yes"] /\ UNCHANGED uncertain
       \/ reply' = [reply EXCEPT ![h] = "error"] /\ uncertain' = TRUE
    /\ UNCHANGED <<control, seen, draining, ranks, cache, work>>

\* A call fails before it took any effect.
CallFails(h) ==
    /\ op[h] # "none"
    /\ Execute(h, "error") /\ uncertain' = TRUE
    /\ UNCHANGED <<seen, engine>>

EngineStep(h) ==
    \/ AnswerPaused(h) \/ BeginPause(h) \/ FinishPause(h) \/ ResetFails(h)
    \/ SetLambda(h) \/ GetLambda(h) \/ Resume(h) \/ CallFails(h)

-----------------------------------------------------------------------------
\* Generation requests, and an operator who pauses the engine on his own.

Submit(r) ==
    /\ status[r] = "new"
    /\ status' = [status EXCEPT ![r] = "waiting"]
    /\ UNCHANGED <<control, calls, engine, used, foreign, uncertain>>

\* Admission may find its prefix in the cache.
Admit(r) ==
    /\ status[r] \in {"waiting", "preempted"} /\ ~paused
    /\ \E hit \in {{}} \cup {{v} : v \in cache} :
          used' = [used EXCEPT ![r] = @ \cup hit]
    /\ status' = [status EXCEPT ![r] = "running"]
    /\ UNCHANGED <<control, calls, engine, foreign, uncertain>>

Compute(r) ==
    /\ status[r] = "running"
    /\ used' = [used EXCEPT ![r] = @ \cup {ranks[w] : w \in Ranks}]
    /\ cache' = cache \cup {ranks[w] : w \in Ranks}
    /\ UNCHANGED <<control, calls, paused, draining, ranks, status, foreign, uncertain>>

Preempt(r) ==
    /\ status[r] = "running"
    /\ status' = [status EXCEPT ![r] = "preempted"]
    /\ UNCHANGED <<control, calls, engine, used, foreign, uncertain>>

Finish(r) ==
    /\ status[r] = "running"
    /\ status' = [status EXCEPT ![r] = "done"]
    /\ UNCHANGED <<control, calls, engine, used, foreign, uncertain>>

\* The recipe disables the routes that would let this race a transition.
Quiet == lock = None /\ (\A h \in Handlers : op[h] = "none") /\ draining = {}

OperatorPause ==
    /\ Quiet /\ ~paused
    /\ paused' = TRUE /\ foreign' = TRUE
    /\ UNCHANGED <<control, calls, draining, ranks, cache, work, uncertain>>

OperatorResume ==
    /\ Quiet /\ foreign
    /\ paused' = FALSE /\ foreign' = FALSE
    /\ UNCHANGED <<control, calls, draining, ranks, cache, work, uncertain>>

RequestStep(r) == Submit(r) \/ Admit(r) \/ Compute(r) \/ Preempt(r) \/ Finish(r)

Next ==
    \/ \E h \in Handlers : Arrive(h) \/ HandlerStep(h) \/ Cancel(h) \/ EngineStep(h)
    \/ \E r \in Requests : RequestStep(r)
    \/ OperatorPause \/ OperatorResume

Spec == Init /\ [][Next]_vars

\* The event loop and the engine keep running, and what runs ends.
FairSpec ==
    /\ Spec
    /\ \A h \in Handlers : WF_vars(HandlerStep(h)) /\ WF_vars(EngineStep(h))
    /\ \A r \in Requests : WF_vars(Finish(r))

-----------------------------------------------------------------------------
Answers ==
    {"none", "200", "409", "500", "503", "cancelled",
     "consistent", "inconsistent", "inconsistent, blocked"}

\* Types; a handler inside a transaction is the one that holds the lock.
TypeOK ==
    /\ pc \in [Handlers -> {"idle", "lock", "done"} \cup DOMAIN Method]
    /\ lock \in Handlers \cup {None}
    /\ blocked \in BOOLEAN /\ paused \in BOOLEAN
    /\ foreign \in BOOLEAN /\ uncertain \in BOOLEAN
    /\ op \in [Handlers -> {"none", "is_paused", "pause", "set", "get", "resume"}]
    /\ reply \in [Handlers -> {"pending", "yes", "no", "error"}]
    /\ seen \in [Handlers -> [Ranks -> Values]]
    /\ answer \in [Handlers -> Answers]
    /\ ranks \in [Ranks -> Values]
    /\ cache \subseteq Values
    /\ draining \subseteq Posts
    /\ status \in [Requests -> {"new", "waiting", "running", "preempted", "done"}]
    /\ used \in [Requests -> SUBSET Values]
    /\ \A h \in Handlers : pc[h] \in DOMAIN Method <=> lock = h

\* No generation request mixes lambdas: neither its own steps, before and after
\* a preemption, nor the cached prefix it starts from, nor the ranks that run it
\* were under different ones, whatever POSTs failed or were cancelled meanwhile
\* (the drain, the cache reset and the unfinished check of set_refusal_lambda).
OneLambdaPerRequest == \A r \in Requests : Cardinality(used[r]) <= 1

\* Whenever the engine admits requests all ranks have the same lambda: a
\* partially applied POST never gets its pause lifted.
RanksAgreeInService == ~paused => \A v, w \in Ranks : ranks[v] = ranks[w]

\* Between the readback and the 200 every rank has the lambda that was asked
\* for, and no other POST, cancelled or late, changes it under the lock.
AnswerIsTrue ==
    \A h \in Posts : pc[h] = "resume" => \A w \in Ranks : ranks[w] = Asks[h]

\* A GET that finds the ranks different also reports the control blocked: it
\* never shows a transition half way.
InconsistencyIsReported == \A h \in Gets : answer[h] # "inconsistent"

\* The dial never ends a pause it did not begin.
ForeignPauseKept == [][foreign /\ ~foreign' => Quiet]_vars

\* "Uncertain pause/reset or partial worker mutation leaves the control blocked"
\* and nothing else does: while every engine call succeeds and nobody is
\* cancelled, the dial stays usable.
BlocksOnlyWhenUncertain == blocked => uncertain

\* The dial gives the engine back: a pause it began ends, or the control is
\* blocked and says that a restart is needed.
ReturnsToService == []<>(~paused \/ blocked \/ foreign)

\* Every POST and GET that arrives is answered: no handler waits for ever for
\* the lock or for a drain that cannot complete.
Answered == \A h \in Handlers : pc[h] = "lock" ~> pc[h] = "done"
=============================================================================
