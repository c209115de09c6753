------------------------ MODULE RefusalDial_proofs -------------------------
(***************************************************************************)
(* The refusal dial is safe for every number of handlers, ranks, requests  *)
(* and lambdas: what the ranks apply is never mixed, whatever calls fail,  *)
(* come late or are cancelled.                                             *)
(*                                                                         *)
(* The argument: once a POST has asked for a pause, the lock keeps other   *)
(* POSTs out, and when it stops early `blocked` keeps them out for good,   *)
(* so that at most one call that changes the engine is ever on its way     *)
(* (OneTransaction), even after its sender was cancelled.  Hence a pause   *)
(* that was confirmed holds until the set (PauseHolds), ranks that differ  *)
(* stay behind a pause that no call ends (SplitIsContained), and whatever  *)
(* is cached or unfinished was computed under the lambda the ranks have    *)
(* now (OneLambda).                                                        *)
(***************************************************************************)
EXTENDS RefusalDial, TLAPS, FiniteSetTheorems

\* The engine calls that change what requests are computed with or when.
Changing == {"pause", "set", "resume"}

\* Such a call of h is on its way, or its pause not answered yet.
Sent(h) == op[h] \in Changing \/ h \in draining

\* A call on its way is the one its handler awaits, or its handler was cancelled.
CallsMatch ==
  \A h \in Handlers :
     /\ h \in Gets => pc[h] \in {"idle", "lock", "read", "done"} /\ op[h] \in {"none", "get"}
     /\ h \in Posts => pc[h] # "read"
     /\ op[h] # "none" => pc[h] = "done" \/ (pc[h] \in DOMAIN Method /\ op[h] = Method[pc[h]])
     /\ h \in draining => op[h] = "none" /\ reply[h] = "pending" /\ pc[h] \in {"pause", "done"}

\* At most one call that changes the engine is on its way: it is the lock
\* holder's, or the control is blocked and no POST will be let in again.
OneTransaction ==
  /\ blocked => \A h \in Posts : pc[h] \notin DOMAIN Method
  /\ \A h \in Posts : Sent(h) => blocked \/ lock = h
  /\ \A g, h \in Posts : Sent(g) /\ Sent(h) => g = h

\* While the pause is an operator's no POST is past its first check.
ForeignQuiet ==
  /\ foreign => paused
  /\ \A h \in Posts :
       /\ Sent(h) => ~foreign
       /\ pc[h] \in Guarded => ~foreign
       /\ At(h, "check", "no") => ~foreign

\* Nothing runs, and nothing is left in the prefix cache.
Still == paused /\ Drained /\ cache = {}

\* No request that may still run has been computed with any lambda.
Fresh == \A r \in Requests : status[r] # "done" => used[r] = {}

\* A confirmed pause holds until the POST resumes; when a set is on its way no
\* unfinished request has been started either.
PauseHolds ==
  \A h \in Posts :
     /\ h \in draining => paused
     /\ At(h, "pause", "yes") => Still
     /\ pc[h] \in {"recheck", "set", "verify"} => Still
     /\ op[h] = "set" => Still /\ Fresh

\* Every rank applies the same lambda.
Agreed == \A v, w \in Ranks : ranks[v] = ranks[w]

\* Ranks that differ are behind a pause which no call on its way, no operator
\* and no POST to come can end.
SplitIsContained ==
  ~Agreed =>
    /\ paused /\ Drained /\ ~foreign
    /\ \A h \in Posts : op[h] # "resume"
    /\ blocked \/ (\E h \in Posts : pc[h] \in {"set", "verify"})

\* The lambdas the ranks have.
Now == {ranks[w] : w \in Ranks}

\* What is cached, and what went into unfinished requests, is what the ranks
\* have; no request has more than one lambda in it.
OneLambda ==
  /\ cache \subseteq Now
  /\ \A r \in Requests :
       /\ status[r] \in {"new", "waiting"} => used[r] = {}
       /\ status[r] # "done" => used[r] \subseteq Now
       /\ \E v \in Values : used[r] \subseteq {v}

\* What a handler that has read the ranks back knows about them.
Readbacks ==
  /\ \A h \in Posts :
     /\ At(h, "set", "yes") => AllRanks(ranks, Float32[Asks[h]])
     /\ pc[h] = "verify" => AllRanks(ranks, Float32[Asks[h]])
     /\ At(h, "verify", "yes") => seen[h] = ranks
     /\ pc[h] = "resume" => AllRanks(ranks, Asks[h])
  /\ \A h \in Gets :
     /\ At(h, "read", "yes") /\ ~Consistent(seen[h]) => blocked
     /\ answer[h] # "inconsistent"

\* The inductive invariant.
DialInv ==
  /\ TypeOK /\ CallsMatch /\ OneTransaction /\ ForeignQuiet
  /\ PauseHolds /\ SplitIsContained /\ OneLambda /\ Readbacks

\* Every lambda that may be asked for is one that a float32 holds.
Exact == \A v \in Lambdas : Float32[v] = v

\* As long as no call failed and nobody was cancelled, nothing is blocked.
Blame ==
  ~uncertain =>
    /\ ~blocked
    /\ \A h \in Handlers : reply[h] # "error" /\ ~At(h, "recheck", "no")

-----------------------------------------------------------------------------
\* The engine call awaited at each point of a handler.
LEMMA Awaited ==
  /\ DOMAIN Method = {"check", "pause", "recheck", "set", "verify", "resume", "giveup", "read"}
  /\ Method["check"] = "is_paused" /\ Method["pause"] = "pause"
  /\ Method["recheck"] = "is_paused" /\ Method["set"] = "set"
  /\ Method["verify"] = "get" /\ Method["resume"] = "resume"
  /\ Method["giveup"] = "resume" /\ Method["read"] = "get"
BY DEF Method

\* Initially every variable has its type and no call is on its way.
LEMMA TypesInit == Init => TypeOK /\ CallsMatch
<1>1. Initial \in Values
  BY DialConstants DEF Values, Lambdas
<1> SUFFICES ASSUME Init PROVE TypeOK /\ CallsMatch
  OBVIOUS
<1>2. TypeOK
  BY <1>1, DialConstants, Awaited DEF Init, TypeOK, Handlers, Answers
<1>3. CallsMatch
  BY DEF Init, CallsMatch
<1> QED
  BY <1>2, <1>3

\* Sending the next call keeps the types: the sender holds the lock.
LEMMA TypesAwait ==
  ASSUME TypeOK, CallsMatch, NEW h \in Handlers, NEW at \in DOMAIN Method,
         h \in Gets => at = "read", h \in Posts => at # "read",
         h \notin draining, lock' = h, lock \in {h, None},
         blocked' \in BOOLEAN, Await(h, at)
  PROVE  TypeOK' /\ CallsMatch'
BY DialConstants, Awaited
   DEF TypeOK, CallsMatch, Handlers, Await, engine, work

\* Answering keeps the types: the lock is given back.
LEMMA TypesAnswer ==
  ASSUME TypeOK, CallsMatch, NEW h \in Handlers, NEW code \in Answers,
         op[h] = "none", h \notin draining,
         blocked' \in BOOLEAN, Answer(h, code)
  PROVE  TypeOK' /\ CallsMatch'
BY DialConstants, Awaited
   DEF TypeOK, CallsMatch, Handlers, Answer, calls, engine, work

\* Every step of a handler, and its cancellation, keeps the types.
LEMMA TypesHandler ==
  ASSUME TypeOK, CallsMatch, NEW h \in Handlers, Arrive(h) \/ HandlerStep(h) \/
         Cancel(h)
  PROVE  TypeOK' /\ CallsMatch'
<1>1. blocked \in BOOLEAN /\ lock \in Handlers \cup {None} /\ None \notin Handlers
      /\ pc[h] \in {"idle", "lock", "done"} \cup DOMAIN Method
      /\ (pc[h] \in DOMAIN Method <=> lock = h)
  BY DialConstants DEF TypeOK, Handlers
<1>2. /\ h \in Gets => pc[h] \in {"idle", "lock", "read", "done"}
      /\ h \in Posts => pc[h] # "read"
      /\ h \in draining => reply[h] = "pending" /\ pc[h] \in {"pause", "done"}
      /\ ~(h \in Gets /\ h \in Posts)
  BY DialConstants DEF CallsMatch
<1>3. CASE Arrive(h)
  BY <1>3, Awaited, DialConstants
     DEF TypeOK, CallsMatch, Arrive, calls, engine, work, Handlers
<1>4. CASE RefuseBlocked(h)
  BY <1>4, <1>1, <1>2, Awaited, TypesAnswer DEF RefuseBlocked, Answers, CallsMatch
<1>5. CASE EnterPost(h)
  BY <1>5, <1>1, <1>2, Awaited, TypesAwait DEF EnterPost, MayEnter
<1>6. CASE EnterGet(h)
  BY <1>6, <1>1, <1>2, Awaited, TypesAwait DEF EnterGet, MayRead
<1>7. CASE Escape(h) \/ NotOurs(h) \/ Succeed(h) \/ Pending(h)
  BY <1>7, <1>1, <1>2, TypesAnswer
     DEF Escape, NotOurs, Succeed, Pending, At, Answers
<1>8. CASE RequestPause(h) \/ ConfirmPause(h) \/ GiveUp(h) \/ SetWorkers(h)
           \/ VerifyWorkers(h) \/ ResumeEngine(h)
  BY <1>8, <1>1, <1>2, Awaited, TypesAwait
     DEF RequestPause, OwnsPause, ConfirmPause, GiveUp, BackOut, SetWorkers,
         VerifyWorkers, ResumeEngine, At
<1>9. CASE StageFails(h)
  BY <1>9, <1>1, <1>2, TypesAnswer
     DEF StageFails, Fail, At, Answers
<1>10. CASE Report(h)
  BY <1>10, <1>1, <1>2, TypesAnswer
     DEF Report, At, Answers
<1>11. CASE Cancel(h)
  <2>1. (blocked \in BOOLEAN /\ paused \in BOOLEAN /\ foreign \in BOOLEAN /\ uncertain \in BOOLEAN)'
    BY <1>11 DEF Cancel, TypeOK, engine
  <2>4. pc' = [pc EXCEPT ![h] = "done"] /\ lock' = (IF lock = h THEN None ELSE lock)
        /\ answer' = [answer EXCEPT ![h] = "cancelled"]
        /\ UNCHANGED <<op, reply, seen, draining, ranks, cache, status, used>>
    BY <1>11 DEF Cancel, calls, engine, work
  <2>2. TypeOK'
    <3>1. pc' \in [Handlers -> {"idle", "lock", "done"} \cup DOMAIN Method]
          /\ lock' \in Handlers \cup {None} /\ answer' \in [Handlers -> Answers]
      BY <1>1, <2>4 DEF TypeOK, Answers
    <3>2. \A g \in Handlers : pc'[g] \in DOMAIN Method <=> lock' = g
      BY <1>1, <2>4, Awaited DEF TypeOK
    <3> QED
      BY <3>1, <3>2, <2>1, <2>4 DEF TypeOK
  <2>3. CallsMatch'
    BY <1>11, <1>1, Awaited, DialConstants
       DEF TypeOK, CallsMatch, Cancel, calls, engine, work, Handlers
  <2> QED
    BY <2>2, <2>3
<1> QED
  BY <1>3, <1>4, <1>5, <1>6, <1>7, <1>8, <1>9, <1>10, <1>11 DEF HandlerStep

\* Every call the engine executes, or that fails, keeps the types.
LEMMA TypesEngine ==
  ASSUME TypeOK, CallsMatch, NEW h \in Handlers, EngineStep(h)
  PROVE  TypeOK' /\ CallsMatch'
<1> USE Awaited, DialConstants DEF TypeOK, CallsMatch, Execute, Handlers, control, work, engine
<1>1. CASE AnswerPaused(h)
  BY <1>1 DEF AnswerPaused
<1>2. CASE BeginPause(h)
  BY <1>2 DEF BeginPause
<1>3. CASE FinishPause(h)
  BY <1>3 DEF FinishPause
<1>4. CASE ResetFails(h)
  BY <1>4 DEF ResetFails
<1>5. CASE SetLambda(h)
  <2>1. Float32[Asks[h]] \in Values
    BY <1>5 DEF SetLambda, Values, Lambdas
  <2>2. ranks' \in [Ranks -> Values]
    BY <1>5, <2>1 DEF SetLambda
  <2>3. uncertain' \in BOOLEAN /\ \E o \in {"yes", "error"} : Execute(h, o)
    BY <1>5 DEF SetLambda
  <2> QED
    BY <1>5, <2>2, <2>3 DEF SetLambda
<1>6. CASE GetLambda(h)
  BY <1>6 DEF GetLambda
<1>7. CASE Resume(h)
  <2>5. paused' = FALSE /\ foreign' = FALSE /\ blocked' = blocked
        /\ (uncertain' = uncertain \/ uncertain' = TRUE)
    BY <1>7 DEF Resume
  <2>1. (blocked \in BOOLEAN /\ paused \in BOOLEAN /\ foreign \in BOOLEAN /\ uncertain \in BOOLEAN)'
    BY <2>5 DEF TypeOK
  <2>4. \E o \in {"yes", "error"} : reply' = [reply EXCEPT ![h] = o]
    BY <1>7 DEF Resume
  <2>2. TypeOK'
    BY <1>7, <2>1, <2>4 DEF Resume, calls
  <2>3. CallsMatch'
    BY <1>7, <2>4 DEF Resume, calls
  <2> QED
    BY <2>2, <2>3
<1>8. CASE CallFails(h)
  BY <1>8 DEF CallFails
<1> QED
  BY <1>1, <1>2, <1>3, <1>4, <1>5, <1>6, <1>7, <1>8 DEF EngineStep

\* Requests and the operator keep the types.
LEMMA TypesRest ==
  ASSUME TypeOK, CallsMatch,
         (\E r \in Requests : RequestStep(r)) \/ OperatorPause \/ OperatorResume
         \/ UNCHANGED vars
  PROVE  TypeOK' /\ CallsMatch'
<1> USE DEF TypeOK, CallsMatch, control, calls, work, engine
<1>1. ASSUME NEW r \in Requests, Submit(r) \/ Preempt(r) \/ Finish(r)
      PROVE  TypeOK' /\ CallsMatch'
  BY <1>1 DEF Submit, Preempt, Finish
<1>2. ASSUME NEW r \in Requests, Admit(r)
      PROVE  TypeOK' /\ CallsMatch'
  BY <1>2 DEF Admit
<1>3. ASSUME NEW r \in Requests, Compute(r)
      PROVE  TypeOK' /\ CallsMatch'
  BY <1>3 DEF Compute
<1>4. CASE OperatorPause \/ OperatorResume \/ UNCHANGED vars
  BY <1>4 DEF OperatorPause, OperatorResume, vars
<1> QED
  BY <1>1, <1>2, <1>3, <1>4 DEF RequestStep

\* A POST that sends a changing call holds the lock and the control is not
\* blocked, so that no other such call is on its way.
LEMMA TransactionHandler ==
  ASSUME TypeOK, CallsMatch, OneTransaction, NEW h \in Handlers,
         Arrive(h) \/ HandlerStep(h) \/ Cancel(h)
  PROVE  OneTransaction'
<1> USE Awaited, DialConstants
    DEF TypeOK, CallsMatch, OneTransaction, Sent, Changing, Handlers, calls,
        engine, work
<1>3. CASE Arrive(h)
  BY <1>3 DEF Arrive
<1>4. CASE RefuseBlocked(h)
  BY <1>4 DEF RefuseBlocked, Answer
<1>5. CASE EnterPost(h)
  BY <1>5 DEF EnterPost, MayEnter, Await
<1>6. CASE EnterGet(h)
  BY <1>6 DEF EnterGet, MayRead, Await
<1>7. CASE Escape(h) \/ NotOurs(h) \/ Succeed(h) \/ Pending(h)
  BY <1>7 DEF Escape, NotOurs, Succeed, Pending, At, Answer
<1>8. CASE RequestPause(h) \/ ConfirmPause(h) \/ GiveUp(h) \/ SetWorkers(h)
           \/ VerifyWorkers(h) \/ ResumeEngine(h)
  BY <1>8, SMTT(30)
     DEF RequestPause, OwnsPause, ConfirmPause, GiveUp, BackOut, SetWorkers,
         VerifyWorkers, ResumeEngine, At, Await
<1>9. CASE StageFails(h)
  BY <1>9 DEF StageFails, Fail, At, Answer, Guarded
<1>10. CASE Report(h)
  <2>1. /\ pc' = [pc EXCEPT ![h] = "done"] /\ lock' = (IF lock = h THEN None ELSE lock)
        /\ UNCHANGED <<op, draining, blocked>> /\ pc[h] = "read"
    BY <1>10 DEF Report, Answer, At
  <2> QED
    BY <2>1
<1>11. CASE Cancel(h)
  <2>1. blocked' <=> blocked \/ pc[h] \in Guarded
    BY <1>11 DEF Cancel
  <2>2. /\ pc' = [pc EXCEPT ![h] = "done"] /\ lock' = (IF lock = h THEN None ELSE lock)
        /\ UNCHANGED <<op, draining>> /\ pc[h] \notin {"idle", "done"}
    BY <1>11 DEF Cancel
  <2> QED
    BY <2>1, <2>2 DEF Guarded
<1> QED
  BY <1>3, <1>4, <1>5, <1>6, <1>7, <1>8, <1>9, <1>10, <1>11 DEF HandlerStep

\* The engine only completes calls.
LEMMA TransactionEngine ==
  ASSUME TypeOK, CallsMatch, OneTransaction, NEW h \in Handlers, EngineStep(h)
  PROVE  OneTransaction'
<1> USE Awaited, DialConstants
    DEF TypeOK, CallsMatch, OneTransaction, Sent, Changing, Handlers, Execute,
        control, work, engine
<1>1. CASE AnswerPaused(h)
  BY <1>1 DEF AnswerPaused
<1>2. CASE BeginPause(h)
  BY <1>2 DEF BeginPause
<1>3. CASE FinishPause(h)
  BY <1>3 DEF FinishPause
<1>4. CASE ResetFails(h)
  BY <1>4 DEF ResetFails
<1>5. CASE SetLambda(h)
  BY <1>5 DEF SetLambda
<1>6. CASE GetLambda(h)
  BY <1>6 DEF GetLambda
<1>7. CASE Resume(h)
  BY <1>7 DEF Resume
<1>8. CASE CallFails(h)
  BY <1>8 DEF CallFails
<1> QED
  BY <1>1, <1>2, <1>3, <1>4, <1>5, <1>6, <1>7, <1>8 DEF EngineStep

\* Requests and the operator send no call.
LEMMA TransactionRest ==
  ASSUME TypeOK, OneTransaction,
         (\E r \in Requests : RequestStep(r)) \/ OperatorPause \/ OperatorResume
         \/ UNCHANGED vars
  PROVE  OneTransaction'
BY DEF TypeOK, OneTransaction, Sent, RequestStep, Submit, Preempt, Finish, Admit,
       Compute, OperatorPause, OperatorResume, vars, control, calls, work, engine

\* What a GET that has its readback does, the answers told apart.
LEMMA Reported ==
  ASSUME TypeOK, NEW h \in Handlers, Report(h)
  PROVE  /\ At(h, "read", "yes") /\ pc' = [pc EXCEPT ![h] = "done"]
         /\ lock' = (IF lock = h THEN None ELSE lock)
         /\ \E code \in Answers :
               /\ answer' = [answer EXCEPT ![h] = code]
               /\ code = "inconsistent" => ~Consistent(seen[h]) /\ ~blocked
         /\ UNCHANGED <<blocked, op, reply, seen, paused, draining, ranks, cache,
                        status, used, foreign, uncertain>>
BY DEF Report, Answer, Answers, calls, engine, work

\* A set that is answered has reached every rank.
LEMMA SetsRanks ==
  ASSUME TypeOK, NEW h \in Handlers, SetLambda(h)
  PROVE  /\ op[h] = "set" /\ op' = [op EXCEPT ![h] = "none"]
         /\ \E outcome \in {"yes", "error"} :
               /\ reply' = [reply EXCEPT ![h] = outcome]
               /\ outcome = "yes" => AllRanks(ranks', Float32[Asks[h]])
               /\ outcome = "yes" => uncertain' = uncertain
               /\ outcome = "error" => uncertain'
         /\ UNCHANGED <<pc, lock, blocked, answer, seen, paused, draining, cache,
                        status, used, foreign>>
<1>1. PICK reached \in SUBSET Ranks :
        /\ ranks' = [w \in Ranks |-> IF w \in reached THEN Float32[Asks[h]] ELSE ranks[w]]
        /\ \/ reached = Ranks /\ Execute(h, "yes") /\ UNCHANGED uncertain
           \/ Execute(h, "error") /\ uncertain' = TRUE
  BY DEF SetLambda
<1>2. CASE reached = Ranks /\ Execute(h, "yes") /\ UNCHANGED uncertain
  BY <1>1, <1>2 DEF SetLambda, Execute, AllRanks, control, work
<1>3. CASE Execute(h, "error") /\ uncertain' = TRUE
  BY <1>3 DEF SetLambda, Execute, control, work
<1> QED
  BY <1>1, <1>2, <1>3

\* When the ranks agree there is one lambda in them.
LEMMA OneNow ==
  ASSUME TypeOK, Agreed PROVE \E v \in Values : Now \subseteq {v}
<1>1. PICK w \in Ranks : TRUE
  BY DialConstants
<1> QED
  BY <1>1 DEF TypeOK, Agreed, Now

\* A POST gets past its first check only when nobody has paused the engine.
LEMMA ForeignHandler ==
  ASSUME TypeOK, CallsMatch, OneTransaction, ForeignQuiet, NEW h \in Handlers,
         Arrive(h) \/ HandlerStep(h) \/ Cancel(h)
  PROVE  ForeignQuiet'
<1> USE Awaited, DialConstants
    DEF TypeOK, CallsMatch, OneTransaction, Sent, Changing, Handlers,
        ForeignQuiet, Guarded, At, calls, engine, work
<1>3. CASE Arrive(h)
  BY <1>3 DEF Arrive
<1>4. CASE RefuseBlocked(h)
  BY <1>4 DEF RefuseBlocked, Answer
<1>5. CASE EnterPost(h)
  BY <1>5 DEF EnterPost, MayEnter, Await
<1>6. CASE EnterGet(h)
  BY <1>6 DEF EnterGet, MayRead, Await
<1>7. CASE Escape(h) \/ NotOurs(h)
  BY <1>7 DEF Escape, NotOurs, At, Answer
<1>15. CASE Succeed(h) \/ Pending(h)
  BY <1>15 DEF Succeed, Pending, At, Answer
<1>8. CASE RequestPause(h)
  BY <1>8 DEF RequestPause, OwnsPause, At, Await
<1>16. CASE ConfirmPause(h)
  BY <1>16 DEF ConfirmPause, At, Await
<1>17. CASE VerifyWorkers(h)
  BY <1>17 DEF VerifyWorkers, At, Await
<1>9. CASE GiveUp(h)
  BY <1>9 DEF GiveUp, BackOut, At, Await
<1>10. CASE SetWorkers(h)
  BY <1>10 DEF SetWorkers, Unfinished, At, Await
<1>11. CASE ResumeEngine(h)
  BY <1>11 DEF ResumeEngine, AllRanks, At, Await
<1>12. CASE StageFails(h)
  BY <1>12 DEF StageFails, Fail, At, Answer
<1>13. CASE Report(h)
  BY <1>13, Reported DEF At
<1>14. CASE Cancel(h)
  BY <1>14 DEF Cancel
<1> QED
  BY <1>3, <1>4, <1>5, <1>6, <1>7, <1>8, <1>9, <1>10, <1>11, <1>12, <1>13, <1>14, <1>15,
     <1>16, <1>17 DEF HandlerStep

\* The engine's answer to the first check is no only when it is not paused.
LEMMA ForeignEngine ==
  ASSUME TypeOK, CallsMatch, OneTransaction, ForeignQuiet, NEW h \in Handlers,
         EngineStep(h)
  PROVE  ForeignQuiet'
<1> USE Awaited, DialConstants
    DEF TypeOK, CallsMatch, OneTransaction, Sent, Changing, Handlers,
        ForeignQuiet, Guarded, At, Execute, control, work, engine
<1>1. CASE AnswerPaused(h)
  BY <1>1 DEF AnswerPaused
<1>2. CASE BeginPause(h)
  BY <1>2 DEF BeginPause
<1>3. CASE FinishPause(h)
  BY <1>3 DEF FinishPause
<1>4. CASE ResetFails(h)
  BY <1>4 DEF ResetFails
<1>5. CASE SetLambda(h)
  BY <1>5, SetsRanks
<1>6. CASE GetLambda(h)
  BY <1>6 DEF GetLambda
<1>7. CASE Resume(h)
  BY <1>7 DEF Resume
<1>8. CASE CallFails(h)
  BY <1>8 DEF CallFails
<1> QED
  BY <1>1, <1>2, <1>3, <1>4, <1>5, <1>6, <1>7, <1>8 DEF EngineStep

\* An operator pauses only when no call is on its way and nobody has the lock.
LEMMA ForeignRest ==
  ASSUME TypeOK, CallsMatch, OneTransaction, ForeignQuiet,
         (\E r \in Requests : RequestStep(r)) \/ OperatorPause \/ OperatorResume
         \/ UNCHANGED vars
  PROVE  ForeignQuiet'
<1> USE Awaited, DialConstants
    DEF TypeOK, CallsMatch, OneTransaction, Sent, Changing, Handlers,
        ForeignQuiet, Guarded, At, control, calls, work, engine
<1>1. ASSUME NEW r \in Requests, Submit(r)
      PROVE  ForeignQuiet'
  BY <1>1 DEF Submit
<1>7. ASSUME NEW r \in Requests, Preempt(r) \/ Finish(r)
      PROVE  ForeignQuiet'
  BY <1>7 DEF Preempt, Finish
<1>2. ASSUME NEW r \in Requests, Admit(r)
      PROVE  ForeignQuiet'
  BY <1>2 DEF Admit
<1>3. ASSUME NEW r \in Requests, Compute(r)
      PROVE  ForeignQuiet'
  BY <1>3 DEF Compute
<1>4. CASE OperatorPause
  BY <1>4 DEF OperatorPause, Quiet
<1>5. CASE OperatorResume
  BY <1>5 DEF OperatorResume, Quiet
<1>6. CASE UNCHANGED vars
  BY <1>6 DEF vars
<1> QED
  BY <1>1, <1>2, <1>3, <1>4, <1>5, <1>6, <1>7 DEF RequestStep

\* A POST sends the set only when no request is unfinished.
LEMMA PauseHandler ==
  ASSUME TypeOK, CallsMatch, OneTransaction, ForeignQuiet, PauseHolds,
         OneLambda, NEW h \in Handlers,
         Arrive(h) \/ HandlerStep(h) \/ Cancel(h)
  PROVE  PauseHolds'
<1> USE Awaited, DialConstants
    DEF TypeOK, CallsMatch, OneTransaction, Sent, Changing, Handlers,
        PauseHolds, Still, Fresh, Drained, At, calls, engine, work
<1>3. CASE Arrive(h)
  BY <1>3 DEF Arrive
<1>4. CASE RefuseBlocked(h)
  BY <1>4 DEF RefuseBlocked, Answer
<1>5. CASE EnterPost(h)
  BY <1>5 DEF EnterPost, MayEnter, Await
<1>6. CASE EnterGet(h)
  BY <1>6 DEF EnterGet, MayRead, Await
<1>7. CASE Escape(h) \/ NotOurs(h)
  BY <1>7 DEF Escape, NotOurs, At, Answer
<1>15. CASE Succeed(h) \/ Pending(h)
  BY <1>15 DEF Succeed, Pending, At, Answer
<1>8. CASE RequestPause(h)
  BY <1>8 DEF RequestPause, OwnsPause, At, Await
<1>16. CASE ConfirmPause(h)
  BY <1>16 DEF ConfirmPause, At, Await
<1>17. CASE VerifyWorkers(h)
  BY <1>17 DEF VerifyWorkers, At, Await
<1>9. CASE GiveUp(h)
  BY <1>9 DEF GiveUp, BackOut, At, Await
<1>10. CASE SetWorkers(h)
  <2>1. h \in Posts /\ At(h, "recheck", "yes") /\ Unfinished = {}
    BY <1>10 DEF SetWorkers
  <2>2. Still
    BY <2>1 DEF PauseHolds
  <2>3. Fresh
    BY <2>1 DEF Unfinished, OneLambda
  <2> QED
    BY <1>10, <2>1, <2>2, <2>3 DEF SetWorkers, Await
<1>11. CASE ResumeEngine(h)
  BY <1>11 DEF ResumeEngine, AllRanks, At, Await
<1>12. CASE StageFails(h)
  BY <1>12 DEF StageFails, Fail, At, Answer
<1>13. CASE Report(h)
  BY <1>13, Reported DEF At
<1>14. CASE Cancel(h)
  BY <1>14 DEF Cancel
<1> QED
  BY <1>3, <1>4, <1>5, <1>6, <1>7, <1>8, <1>9, <1>10, <1>11, <1>12, <1>13, <1>14, <1>15,
     <1>16, <1>17 DEF HandlerStep

\* No resume is on its way while another POST relies on the pause.
LEMMA PauseEngine ==
  ASSUME TypeOK, CallsMatch, OneTransaction, ForeignQuiet, PauseHolds,
         OneLambda, NEW h \in Handlers, EngineStep(h)
  PROVE  PauseHolds'
<1> USE Awaited, DialConstants
    DEF TypeOK, CallsMatch, OneTransaction, Sent, Changing, Handlers,
        PauseHolds, Still, Fresh, Drained, At, Execute, control, work, engine
<1>1. CASE AnswerPaused(h)
  BY <1>1 DEF AnswerPaused
<1>2. CASE BeginPause(h)
  BY <1>2 DEF BeginPause
<1>3. CASE FinishPause(h)
  BY <1>3 DEF FinishPause
<1>4. CASE ResetFails(h)
  BY <1>4 DEF ResetFails
<1>5. CASE SetLambda(h)
  BY <1>5, SetsRanks
<1>6. CASE GetLambda(h)
  BY <1>6 DEF GetLambda
<1>7. CASE Resume(h)
  BY <1>7 DEF Resume
<1>8. CASE CallFails(h)
  BY <1>8 DEF CallFails
<1> QED
  BY <1>1, <1>2, <1>3, <1>4, <1>5, <1>6, <1>7, <1>8 DEF EngineStep

\* While the engine is paused nothing starts to run.
LEMMA PauseRest ==
  ASSUME TypeOK, CallsMatch, OneTransaction, ForeignQuiet, PauseHolds, OneLambda,
         (\E r \in Requests : RequestStep(r)) \/ OperatorPause \/ OperatorResume
         \/ UNCHANGED vars
  PROVE  PauseHolds'
<1> USE Awaited, DialConstants
    DEF TypeOK, CallsMatch, OneTransaction, Sent, Changing, Handlers,
        PauseHolds, Still, Fresh, Drained, At, control, calls, work, engine
<1>1. ASSUME NEW r \in Requests, Submit(r)
      PROVE  PauseHolds'
  BY <1>1 DEF Submit
<1>7. ASSUME NEW r \in Requests, Preempt(r) \/ Finish(r)
      PROVE  PauseHolds'
  BY <1>7 DEF Preempt, Finish
<1>2. ASSUME NEW r \in Requests, Admit(r)
      PROVE  PauseHolds'
  BY <1>2 DEF Admit
<1>3. ASSUME NEW r \in Requests, Compute(r)
      PROVE  PauseHolds'
  BY <1>3 DEF Compute
<1>4. CASE OperatorPause
  BY <1>4 DEF OperatorPause, Quiet
<1>5. CASE OperatorResume
  BY <1>5 DEF OperatorResume, Quiet
<1>6. CASE UNCHANGED vars
  BY <1>6 DEF vars
<1> QED
  BY <1>1, <1>2, <1>3, <1>4, <1>5, <1>6, <1>7 DEF RequestStep

\* A POST resumes only after it saw the ranks agree, or before it touched them;
\* in every other case it leaves the control blocked.
LEMMA SplitHandler ==
  ASSUME TypeOK, CallsMatch, OneTransaction, ForeignQuiet, PauseHolds,
         SplitIsContained, Readbacks, NEW h \in Handlers,
         Arrive(h) \/ HandlerStep(h) \/ Cancel(h)
  PROVE  SplitIsContained'
<1> USE Awaited, DialConstants
    DEF TypeOK, CallsMatch, OneTransaction, Sent, Changing, Handlers,
        SplitIsContained, Agreed, Drained, At, calls, engine, work
<1>3. CASE Arrive(h)
  BY <1>3 DEF Arrive
<1>4. CASE RefuseBlocked(h)
  BY <1>4 DEF RefuseBlocked, Answer
<1>5. CASE EnterPost(h)
  BY <1>5 DEF EnterPost, MayEnter, Await
<1>6. CASE EnterGet(h)
  BY <1>6 DEF EnterGet, MayRead, Await
<1>7. CASE Escape(h) \/ NotOurs(h)
  BY <1>7 DEF Escape, NotOurs, At, Answer
<1>15. CASE Succeed(h) \/ Pending(h)
  BY <1>15 DEF Succeed, Pending, At, Answer
<1>8. CASE RequestPause(h)
  BY <1>8 DEF RequestPause, OwnsPause, At, Await
<1>16. CASE ConfirmPause(h)
  BY <1>16 DEF ConfirmPause, At, Await
<1>17. CASE VerifyWorkers(h)
  BY <1>17 DEF VerifyWorkers, At, Await
<1>9. CASE GiveUp(h)
  BY <1>9 DEF GiveUp, BackOut, At, Await
<1>10. CASE SetWorkers(h)
  BY <1>10 DEF SetWorkers, Unfinished, At, Await
<1>11. CASE ResumeEngine(h)
  <2>1. Agreed
    BY <1>11 DEF ResumeEngine, AllRanks, Readbacks
  <2> QED
    BY <1>11, <2>1 DEF ResumeEngine, Await
<1>12. CASE StageFails(h)
  BY <1>12 DEF StageFails, Fail, At, Answer
<1>13. CASE Report(h)
  BY <1>13, Reported DEF At
<1>14. CASE Cancel(h)
  <2>1. blocked' <=> blocked \/ pc[h] \in Guarded
    BY <1>14 DEF Cancel
  <2>2. /\ pc' = [pc EXCEPT ![h] = "done"]
        /\ UNCHANGED <<op, ranks, paused, status, foreign>>
    BY <1>14 DEF Cancel
  <2> QED
    BY <2>1, <2>2 DEF Guarded
<1> QED
  BY <1>3, <1>4, <1>5, <1>6, <1>7, <1>8, <1>9, <1>10, <1>11, <1>12, <1>13, <1>14, <1>15,
     <1>16, <1>17 DEF HandlerStep

\* A partial set happens behind a pause, and then no resume is on its way.
LEMMA SplitEngine ==
  ASSUME TypeOK, CallsMatch, OneTransaction, ForeignQuiet, PauseHolds,
         SplitIsContained, Readbacks, NEW h \in Handlers, EngineStep(h)
  PROVE  SplitIsContained'
<1> USE Awaited, DialConstants
    DEF TypeOK, CallsMatch, OneTransaction, Sent, Changing, Handlers,
        SplitIsContained, Agreed, Drained, At, Execute, control, work, engine
<1>1. CASE AnswerPaused(h)
  BY <1>1 DEF AnswerPaused
<1>2. CASE BeginPause(h)
  BY <1>2 DEF BeginPause
<1>3. CASE FinishPause(h)
  BY <1>3 DEF FinishPause
<1>4. CASE ResetFails(h)
  BY <1>4 DEF ResetFails
<1>5. CASE SetLambda(h)
  <2>1. h \in Posts /\ Sent(h) /\ Still /\ ~foreign
    BY <1>5, SetsRanks DEF PauseHolds, ForeignQuiet
  <2>2. blocked \/ pc[h] = "set"
    BY <1>5, <2>1, SetsRanks
  <2>3. \A g \in Posts : op'[g] # "resume"
    BY <1>5, <2>1, SetsRanks
  <2>4. blocked' \/ pc'[h] = "set"
    BY <1>5, <2>2, SetsRanks
  <2>6. UNCHANGED <<paused, foreign, status>>
    BY <1>5, SetsRanks
  <2>5. paused' /\ Drained' /\ ~foreign'
    BY <2>1, <2>6 DEF Still
  <2> QED
    BY <2>1, <2>3, <2>4, <2>5
<1>6. CASE GetLambda(h)
  BY <1>6 DEF GetLambda
<1>7. CASE Resume(h)
  BY <1>7 DEF Resume
<1>8. CASE CallFails(h)
  BY <1>8 DEF CallFails
<1> QED
  BY <1>1, <1>2, <1>3, <1>4, <1>5, <1>6, <1>7, <1>8 DEF EngineStep

\* Requests and the operator do not end the pause.
LEMMA SplitRest ==
  ASSUME TypeOK, CallsMatch, OneTransaction, ForeignQuiet, PauseHolds,
         SplitIsContained, Readbacks,
         (\E r \in Requests : RequestStep(r)) \/ OperatorPause \/ OperatorResume
         \/ UNCHANGED vars
  PROVE  SplitIsContained'
<1> USE Awaited, DialConstants
    DEF TypeOK, CallsMatch, OneTransaction, Sent, Changing, Handlers,
        SplitIsContained, Agreed, Drained, At, control, calls, work, engine
<1>1. ASSUME NEW r \in Requests, Submit(r)
      PROVE  SplitIsContained'
  BY <1>1 DEF Submit
<1>7. ASSUME NEW r \in Requests, Preempt(r) \/ Finish(r)
      PROVE  SplitIsContained'
  BY <1>7 DEF Preempt, Finish
<1>2. ASSUME NEW r \in Requests, Admit(r)
      PROVE  SplitIsContained'
  BY <1>2 DEF Admit
<1>3. ASSUME NEW r \in Requests, Compute(r)
      PROVE  SplitIsContained'
  BY <1>3 DEF Compute
<1>4. CASE OperatorPause
  BY <1>4 DEF OperatorPause, Quiet
<1>5. CASE OperatorResume
  BY <1>5 DEF OperatorResume, Quiet
<1>6. CASE UNCHANGED vars
  BY <1>6 DEF vars
<1> QED
  BY <1>1, <1>2, <1>3, <1>4, <1>5, <1>6, <1>7 DEF RequestStep

\* Handlers compute nothing.
LEMMA LambdaHandler ==
  ASSUME TypeOK, CallsMatch, OneTransaction, PauseHolds, SplitIsContained,
         OneLambda, NEW h \in Handlers,
         Arrive(h) \/ HandlerStep(h) \/ Cancel(h)
  PROVE  OneLambda'
<1> USE Awaited, DialConstants
    DEF TypeOK, CallsMatch, OneTransaction, Sent, Changing, Handlers, OneLambda,
        Now, calls, engine, work
<1>3. CASE Arrive(h)
  BY <1>3 DEF Arrive
<1>4. CASE RefuseBlocked(h)
  BY <1>4 DEF RefuseBlocked, Answer
<1>5. CASE EnterPost(h)
  BY <1>5 DEF EnterPost, MayEnter, Await
<1>6. CASE EnterGet(h)
  BY <1>6 DEF EnterGet, MayRead, Await
<1>7. CASE Escape(h) \/ NotOurs(h)
  BY <1>7 DEF Escape, NotOurs, At, Answer
<1>15. CASE Succeed(h) \/ Pending(h)
  BY <1>15 DEF Succeed, Pending, At, Answer
<1>8. CASE RequestPause(h)
  BY <1>8 DEF RequestPause, OwnsPause, At, Await
<1>16. CASE ConfirmPause(h)
  BY <1>16 DEF ConfirmPause, At, Await
<1>17. CASE VerifyWorkers(h)
  BY <1>17 DEF VerifyWorkers, At, Await
<1>9. CASE GiveUp(h)
  BY <1>9 DEF GiveUp, BackOut, At, Await
<1>10. CASE SetWorkers(h)
  BY <1>10 DEF SetWorkers, Unfinished, At, Await
<1>11. CASE ResumeEngine(h)
  BY <1>11 DEF ResumeEngine, AllRanks, At, Await
<1>12. CASE StageFails(h)
  BY <1>12 DEF StageFails, Fail, At, Answer
<1>13. CASE Report(h)
  BY <1>13, Reported DEF At
<1>14. CASE Cancel(h)
  BY <1>14 DEF Cancel
<1> QED
  BY <1>3, <1>4, <1>5, <1>6, <1>7, <1>8, <1>9, <1>10, <1>11, <1>12, <1>13, <1>14, <1>15,
     <1>16, <1>17 DEF HandlerStep

\* A set happens when nothing is cached and no unfinished request has started.
LEMMA LambdaEngine ==
  ASSUME TypeOK, CallsMatch, OneTransaction, PauseHolds, SplitIsContained,
         OneLambda, NEW h \in Handlers, EngineStep(h)
  PROVE  OneLambda'
<1> USE Awaited, DialConstants
    DEF TypeOK, CallsMatch, OneTransaction, Sent, Changing, Handlers, OneLambda,
        Now, Execute, control, work, engine
<1>1. CASE AnswerPaused(h)
  BY <1>1 DEF AnswerPaused
<1>2. CASE BeginPause(h)
  BY <1>2 DEF BeginPause
<1>3. CASE FinishPause(h)
  BY <1>3 DEF FinishPause
<1>4. CASE ResetFails(h)
  BY <1>4 DEF ResetFails
<1>5. CASE SetLambda(h)
  <2>1. cache = {} /\ Fresh
    BY <1>5, SetsRanks DEF PauseHolds, Still
  <2> QED
    BY <1>5, <2>1, SetsRanks DEF Fresh
<1>6. CASE GetLambda(h)
  BY <1>6 DEF GetLambda
<1>7. CASE Resume(h)
  BY <1>7 DEF Resume
<1>8. CASE CallFails(h)
  BY <1>8 DEF CallFails
<1> QED
  BY <1>1, <1>2, <1>3, <1>4, <1>5, <1>6, <1>7, <1>8 DEF EngineStep

\* A request runs, or finds a cached prefix, only while the ranks agree.
LEMMA LambdaRest ==
  ASSUME TypeOK, CallsMatch, OneTransaction, PauseHolds, SplitIsContained,
         OneLambda,
         (\E r \in Requests : RequestStep(r)) \/ OperatorPause \/ OperatorResume
         \/ UNCHANGED vars
  PROVE  OneLambda'
<1> USE Awaited, DialConstants
    DEF TypeOK, CallsMatch, OneTransaction, Sent, Changing, Handlers, OneLambda,
        control, calls, work, engine
<1>1. ASSUME NEW r \in Requests, Submit(r)
      PROVE  OneLambda'
  BY <1>1 DEF Submit, Now
<1>7. ASSUME NEW r \in Requests, Preempt(r) \/ Finish(r)
      PROVE  OneLambda'
  BY <1>7 DEF Preempt, Finish, Now
<1>2. ASSUME NEW r \in Requests, Admit(r)
      PROVE  OneLambda'
  <2>1. PICK v \in Values : Now \subseteq {v}
    BY <1>2, OneNow DEF Admit, SplitIsContained
  <2>2. used' = [used EXCEPT ![r] = used'[r]] /\ used'[r] \subseteq Now /\ Now' = Now
        /\ status' = [status EXCEPT ![r] = "running"] /\ UNCHANGED <<cache, ranks>>
    BY <1>2 DEF Admit, Now
  <2>3. used \in [Requests -> SUBSET Values]
    OBVIOUS
  <2>4. ASSUME NEW q \in Requests
        PROVE  /\ status'[q] \in {"new", "waiting"} => used'[q] = {}
               /\ status'[q] # "done" => used'[q] \subseteq Now'
               /\ \E u \in Values : used'[q] \subseteq {u}
    <3>1. CASE q = r
      BY <2>1, <2>2, <2>3, <3>1
    <3>2. CASE q # r
      BY <2>2, <2>3, <2>4, <3>2
    <3> QED
      BY <3>1, <3>2
  <2> QED
    BY <2>2, <2>4
<1>3. ASSUME NEW r \in Requests, Compute(r)
      PROVE  OneLambda'
  <2>1. PICK v \in Values : Now \subseteq {v}
    BY <1>3, OneNow DEF Compute, SplitIsContained, Drained
  <2>2. used' = [used EXCEPT ![r] = used[r] \cup Now] /\ cache' = cache \cup Now /\ Now' = Now
        /\ UNCHANGED <<status, ranks>> /\ status[r] = "running"
    BY <1>3 DEF Compute, Now
  <2>3. used \in [Requests -> SUBSET Values]
    OBVIOUS
  <2>4. ASSUME NEW q \in Requests
        PROVE  /\ status'[q] \in {"new", "waiting"} => used'[q] = {}
               /\ status'[q] # "done" => used'[q] \subseteq Now'
               /\ \E u \in Values : used'[q] \subseteq {u}
    <3>1. CASE q = r
      BY <2>1, <2>2, <2>3, <3>1
    <3>2. CASE q # r
      BY <2>2, <2>3, <2>4, <3>2
    <3> QED
      BY <3>1, <3>2
  <2> QED
    BY <2>2, <2>4
<1>4. CASE OperatorPause
  BY <1>4 DEF OperatorPause, Quiet, Now
<1>5. CASE OperatorResume
  BY <1>5 DEF OperatorResume, Quiet, Now
<1>6. CASE UNCHANGED vars
  BY <1>6 DEF vars, Now
<1> QED
  BY <1>1, <1>2, <1>3, <1>4, <1>5, <1>6, <1>7 DEF RequestStep

\* A POST resumes when every rank returned its lambda.
LEMMA ReadbackHandler ==
  ASSUME TypeOK, CallsMatch, OneTransaction, SplitIsContained, Readbacks, NEW h
         \in Handlers,
         Arrive(h) \/ HandlerStep(h) \/ Cancel(h)
  PROVE  Readbacks'
<1> USE Awaited, DialConstants
    DEF TypeOK, CallsMatch, OneTransaction, Sent, Changing, Handlers, Readbacks,
        AllRanks, Consistent, At, calls, engine, work
<1>3. CASE Arrive(h)
  BY <1>3 DEF Arrive
<1>4. CASE RefuseBlocked(h)
  BY <1>4 DEF RefuseBlocked, Answer
<1>5. CASE EnterPost(h)
  BY <1>5 DEF EnterPost, MayEnter, Await
<1>6. CASE EnterGet(h)
  BY <1>6 DEF EnterGet, MayRead, Await
<1>7. CASE Escape(h) \/ NotOurs(h)
  <2>1. PICK code \in Answers \ {"inconsistent"} :
          /\ pc' = [pc EXCEPT ![h] = "done"] /\ answer' = [answer EXCEPT ![h] = code]
          /\ UNCHANGED <<blocked, op, reply, seen, ranks>>
    BY <1>7 DEF Escape, NotOurs, Answer, Answers
  <2> QED
    BY <2>1
<1>15. CASE Succeed(h) \/ Pending(h)
  <2>1. PICK code \in Answers \ {"inconsistent"} :
          /\ pc' = [pc EXCEPT ![h] = "done"] /\ answer' = [answer EXCEPT ![h] = code]
          /\ UNCHANGED <<blocked, op, reply, seen, ranks>>
    BY <1>15 DEF Succeed, Pending, Answer, Answers
  <2> QED
    BY <2>1
<1>8. CASE RequestPause(h)
  BY <1>8 DEF RequestPause, OwnsPause, At, Await
<1>16. CASE ConfirmPause(h)
  BY <1>16 DEF ConfirmPause, At, Await
<1>17. CASE VerifyWorkers(h)
  BY <1>17 DEF VerifyWorkers, At, Await
<1>9. CASE GiveUp(h)
  BY <1>9 DEF GiveUp, BackOut, At, Await
<1>10. CASE SetWorkers(h)
  BY <1>10 DEF SetWorkers, Unfinished, At, Await
<1>11. CASE ResumeEngine(h)
  BY <1>11 DEF ResumeEngine, AllRanks, At, Await
<1>12. CASE StageFails(h)
  BY <1>12 DEF StageFails, Fail, At, Answer
<1>13. CASE Report(h)
  BY <1>13, Reported DEF At
<1>14. CASE Cancel(h)
  BY <1>14 DEF Cancel
<1> QED
  BY <1>3, <1>4, <1>5, <1>6, <1>7, <1>8, <1>9, <1>10, <1>11, <1>12, <1>13, <1>14, <1>15,
     <1>16, <1>17 DEF HandlerStep

\* While a handler relies on what it read no other handler can change it.
LEMMA ReadbackEngine ==
  ASSUME TypeOK, CallsMatch, OneTransaction, SplitIsContained, Readbacks, NEW h
         \in Handlers, EngineStep(h)
  PROVE  Readbacks'
<1> USE Awaited, DialConstants
    DEF TypeOK, CallsMatch, OneTransaction, Sent, Changing, Handlers, Readbacks,
        AllRanks, Consistent, At, Execute, control, work, engine
<1>1. CASE AnswerPaused(h)
  BY <1>1 DEF AnswerPaused
<1>2. CASE BeginPause(h)
  BY <1>2 DEF BeginPause
<1>3. CASE FinishPause(h)
  BY <1>3 DEF FinishPause
<1>4. CASE ResetFails(h)
  BY <1>4 DEF ResetFails
<1>5. CASE SetLambda(h)
  BY <1>5, SetsRanks
<1>6. CASE GetLambda(h)
  <2>1. /\ op' = [op EXCEPT ![h] = "none"] /\ reply' = [reply EXCEPT ![h] = "yes"]
        /\ seen' = [seen EXCEPT ![h] = ranks]
        /\ UNCHANGED <<pc, ranks, blocked, answer>> /\ op[h] = "get"
    BY <1>6 DEF GetLambda
  <2>2. h \in Gets /\ pc[h] = "read" => blocked \/ Agreed
    BY DEF SplitIsContained
  <2>3. Agreed => \E v \in Values : \A w \in Ranks : ranks[w] = v
    BY DEF Agreed
  <2>4. \A g \in Posts : At(g, "verify", "yes")' => seen'[g] = ranks'
    BY <2>1
  <2>5. \A g \in Posts : At(g, "set", "yes")' => At(g, "set", "yes")
    <3>1. ASSUME NEW g \in Posts, At(g, "set", "yes")' PROVE g # h
      BY <2>1, <3>1
    <3> QED
      BY <2>1, <3>1
  <2>6. \A g \in Gets : At(g, "read", "yes")' /\ ~Consistent(seen'[g]) => blocked'
    <3>1. ASSUME NEW g \in Gets, At(g, "read", "yes")', ~Consistent(seen'[g]) PROVE blocked'
      <4>1. CASE g = h
        BY <2>1, <2>2, <2>3, <3>1, <4>1
      <4>2. CASE g # h
        BY <2>1, <3>1, <4>2
      <4> QED
        BY <4>1, <4>2
    <3> QED
      BY <3>1
  <2> QED
    BY <2>1, <2>4, <2>5, <2>6
<1>7. CASE Resume(h)
  BY <1>7 DEF Resume
<1>8. CASE CallFails(h)
  BY <1>8 DEF CallFails
<1> QED
  BY <1>1, <1>2, <1>3, <1>4, <1>5, <1>6, <1>7, <1>8 DEF EngineStep

\* Requests and the operator leave the ranks alone.
LEMMA ReadbackRest ==
  ASSUME TypeOK, CallsMatch, OneTransaction, SplitIsContained, Readbacks,
         (\E r \in Requests : RequestStep(r)) \/ OperatorPause \/ OperatorResume
         \/ UNCHANGED vars
  PROVE  Readbacks'
<1> USE Awaited, DialConstants
    DEF TypeOK, CallsMatch, OneTransaction, Sent, Changing, Handlers, Readbacks,
        AllRanks, Consistent, At, control, calls, work, engine
<1>1. ASSUME NEW r \in Requests, Submit(r)
      PROVE  Readbacks'
  BY <1>1 DEF Submit
<1>7. ASSUME NEW r \in Requests, Preempt(r) \/ Finish(r)
      PROVE  Readbacks'
  BY <1>7 DEF Preempt, Finish
<1>2. ASSUME NEW r \in Requests, Admit(r)
      PROVE  Readbacks'
  BY <1>2 DEF Admit
<1>3. ASSUME NEW r \in Requests, Compute(r)
      PROVE  Readbacks'
  BY <1>3 DEF Compute
<1>4. CASE OperatorPause
  BY <1>4 DEF OperatorPause, Quiet
<1>5. CASE OperatorResume
  BY <1>5 DEF OperatorResume, Quiet
<1>6. CASE UNCHANGED vars
  BY <1>6 DEF vars
<1> QED
  BY <1>1, <1>2, <1>3, <1>4, <1>5, <1>6, <1>7 DEF RequestStep

\* With exact lambdas the readback matches, and a confirmed pause is found in force.
LEMMA BlameHandler ==
  ASSUME TypeOK, CallsMatch, OneTransaction, PauseHolds, Readbacks, Blame,
         Exact, NEW h \in Handlers,
         Arrive(h) \/ HandlerStep(h) \/ Cancel(h)
  PROVE  Blame'
<1> USE Awaited, DialConstants
    DEF TypeOK, CallsMatch, OneTransaction, Sent, Changing, Handlers, Blame, At,
        calls, engine, work
<1>3. CASE Arrive(h)
  BY <1>3 DEF Arrive
<1>4. CASE RefuseBlocked(h)
  BY <1>4 DEF RefuseBlocked, Answer
<1>5. CASE EnterPost(h)
  BY <1>5 DEF EnterPost, MayEnter, Await
<1>6. CASE EnterGet(h)
  BY <1>6 DEF EnterGet, MayRead, Await
<1>7. CASE Escape(h) \/ NotOurs(h)
  BY <1>7 DEF Escape, NotOurs, At, Answer
<1>15. CASE Succeed(h) \/ Pending(h)
  BY <1>15 DEF Succeed, Pending, At, Answer
<1>8. CASE RequestPause(h)
  BY <1>8 DEF RequestPause, OwnsPause, At, Await
<1>16. CASE ConfirmPause(h)
  BY <1>16 DEF ConfirmPause, At, Await
<1>17. CASE VerifyWorkers(h)
  BY <1>17 DEF VerifyWorkers, At, Await
<1>9. CASE GiveUp(h)
  BY <1>9 DEF GiveUp, BackOut, At, Await
<1>10. CASE SetWorkers(h)
  BY <1>10 DEF SetWorkers, Unfinished, At, Await
<1>11. CASE ResumeEngine(h)
  BY <1>11 DEF ResumeEngine, AllRanks, At, Await
<1>12. CASE StageFails(h)
  <2>1. h \in Posts => Asks[h] \in Lambdas
    BY DEF Lambdas
  <2>2. uncertain
    BY <1>12, <2>1 DEF StageFails, At, AllRanks, Readbacks, Exact
  <2> QED
    BY <1>12, <2>2 DEF StageFails, Fail, Answer
<1>13. CASE Report(h)
  BY <1>13, Reported DEF At
<1>14. CASE Cancel(h)
  BY <1>14 DEF Cancel
<1> QED
  BY <1>3, <1>4, <1>5, <1>6, <1>7, <1>8, <1>9, <1>10, <1>11, <1>12, <1>13, <1>14, <1>15,
     <1>16, <1>17 DEF HandlerStep

\* A failing call makes the outcome uncertain.
LEMMA BlameEngine ==
  ASSUME TypeOK, CallsMatch, OneTransaction, PauseHolds, Readbacks, Blame,
         Exact, NEW h \in Handlers, EngineStep(h)
  PROVE  Blame'
<1> USE Awaited, DialConstants
    DEF TypeOK, CallsMatch, OneTransaction, Sent, Changing, Handlers, Blame, At,
        Execute, control, work, engine
<1>1. CASE AnswerPaused(h)
  <2>1. pc[h] = "recheck" => paused
    BY DEF PauseHolds, Still
  <2> QED
    BY <1>1, <2>1 DEF AnswerPaused
<1>2. CASE BeginPause(h)
  BY <1>2 DEF BeginPause
<1>3. CASE FinishPause(h)
  BY <1>3 DEF FinishPause
<1>4. CASE ResetFails(h)
  BY <1>4 DEF ResetFails
<1>5. CASE SetLambda(h)
  BY <1>5, SetsRanks
<1>6. CASE GetLambda(h)
  BY <1>6 DEF GetLambda
<1>7. CASE Resume(h)
  BY <1>7 DEF Resume
<1>8. CASE CallFails(h)
  BY <1>8 DEF CallFails
<1> QED
  BY <1>1, <1>2, <1>3, <1>4, <1>5, <1>6, <1>7, <1>8 DEF EngineStep

\* Requests and the operator block nothing.
LEMMA BlameRest ==
  ASSUME TypeOK, CallsMatch, OneTransaction, PauseHolds, Readbacks, Blame, Exact,
         (\E r \in Requests : RequestStep(r)) \/ OperatorPause \/ OperatorResume
         \/ UNCHANGED vars
  PROVE  Blame'
<1> USE Awaited, DialConstants
    DEF TypeOK, CallsMatch, OneTransaction, Sent, Changing, Handlers, Blame, At,
        control, calls, work, engine
<1>1. ASSUME NEW r \in Requests, Submit(r)
      PROVE  Blame'
  BY <1>1 DEF Submit
<1>7. ASSUME NEW r \in Requests, Preempt(r) \/ Finish(r)
      PROVE  Blame'
  BY <1>7 DEF Preempt, Finish
<1>2. ASSUME NEW r \in Requests, Admit(r)
      PROVE  Blame'
  BY <1>2 DEF Admit
<1>3. ASSUME NEW r \in Requests, Compute(r)
      PROVE  Blame'
  BY <1>3 DEF Compute
<1>4. CASE OperatorPause
  BY <1>4 DEF OperatorPause, Quiet
<1>5. CASE OperatorResume
  BY <1>5 DEF OperatorResume, Quiet
<1>6. CASE UNCHANGED vars
  BY <1>6 DEF vars
<1> QED
  BY <1>1, <1>2, <1>3, <1>4, <1>5, <1>6, <1>7 DEF RequestStep

-----------------------------------------------------------------------------
\* The invariant holds before the first request.
LEMMA DialInit == Init => DialInv
<1> SUFFICES ASSUME Init PROVE DialInv
  OBVIOUS
<1>1. TypeOK /\ CallsMatch
  BY TypesInit
<1>2. OneTransaction /\ ForeignQuiet /\ PauseHolds
  BY Awaited, DialConstants
     DEF Init, OneTransaction, ForeignQuiet, PauseHolds, Sent, Changing, Guarded, At, Handlers
<1>3. SplitIsContained
  BY DEF Init, SplitIsContained, Agreed
<1>4. Initial \in Values
  BY DialConstants DEF Values, Lambdas
<1>5. OneLambda
  BY <1>4 DEF Init, OneLambda
<1>6. Readbacks
  BY DialConstants DEF Init, Readbacks, At, Handlers
<1> QED
  BY <1>1, <1>2, <1>3, <1>5, <1>6 DEF DialInv

\* Every step keeps the invariant.
LEMMA DialNext == DialInv /\ [Next]_vars => DialInv'
<1> SUFFICES ASSUME DialInv, [Next]_vars PROVE DialInv'
  OBVIOUS
<1> USE DEF DialInv
<1>1. ASSUME NEW h \in Handlers, Arrive(h) \/ HandlerStep(h) \/ Cancel(h) PROVE DialInv'
  BY <1>1, TypesHandler, TransactionHandler, ForeignHandler, PauseHandler, SplitHandler,
     LambdaHandler, ReadbackHandler
<1>2. ASSUME NEW h \in Handlers, EngineStep(h) PROVE DialInv'
  BY <1>2, TypesEngine, TransactionEngine, ForeignEngine, PauseEngine, SplitEngine,
     LambdaEngine, ReadbackEngine
<1>3. ASSUME (\E r \in Requests : RequestStep(r)) \/ OperatorPause \/ OperatorResume
             \/ UNCHANGED vars
      PROVE  DialInv'
  BY <1>3, TypesRest, TransactionRest, ForeignRest, PauseRest, SplitRest,
     LambdaRest, ReadbackRest
<1> QED
  BY <1>1, <1>2, <1>3 DEF Next

\* The inductive invariant holds, and with it every variable has its type.
THEOREM DialSafe == Spec => [](TypeOK /\ DialInv)
<1>1. DialInv => TypeOK
  BY DEF DialInv
<1> QED
  BY <1>1, DialInit, DialNext, PTL DEF Spec

\* A partially applied POST never gets its pause lifted: whenever the engine
\* admits requests all ranks have the same lambda.
THEOREM ServiceIsUniform == Spec => []RanksAgreeInService
<1>1. DialInv => RanksAgreeInService
  BY DEF DialInv, SplitIsContained, Agreed, RanksAgreeInService
<1> QED
  BY <1>1, DialSafe, PTL

\* No request mixes lambdas, through preemption, a cached prefix or its ranks.
THEOREM RequestsAreUniform == Spec => []OneLambdaPerRequest
<1>1. ASSUME DialInv, NEW r \in Requests PROVE Cardinality(used[r]) <= 1
  <2>1. PICK v \in Values : used[r] \subseteq {v}
    BY <1>1 DEF DialInv, OneLambda
  <2>2. CASE used[r] = {}
    BY <2>2, FS_EmptySet
  <2>3. CASE used[r] = {v}
    BY <2>3, FS_Singleton
  <2> QED
    BY <2>1, <2>2, <2>3
<1>2. DialInv => OneLambdaPerRequest
  BY <1>1 DEF OneLambdaPerRequest
<1> QED
  BY <1>2, DialSafe, PTL

\* A POST that is about to answer 200 finds its lambda on every rank.
THEOREM SuccessIsTrue == Spec => []AnswerIsTrue
<1>1. DialInv => AnswerIsTrue
  BY DEF DialInv, Readbacks, AllRanks, AnswerIsTrue
<1> QED
  BY <1>1, DialSafe, PTL

\* A GET never shows ranks that differ without saying that the control is blocked.
THEOREM ReportsAreHonest == Spec => []InconsistencyIsReported
<1>1. DialInv => InconsistencyIsReported
  BY DEF DialInv, Readbacks, InconsistencyIsReported
<1> QED
  BY <1>1, DialSafe, PTL

\* The dial never ends a pause it did not begin, whichever of its calls come late.
THEOREM ForeignPausesAreKept == Spec => ForeignPauseKept
<1>1. ASSUME DialInv, Next, foreign, ~foreign' PROVE Quiet
  <2>1. ASSUME NEW h \in Handlers, EngineStep(h) PROVE FALSE
    <3>1. Resume(h)
      BY <1>1, <2>1
         DEF EngineStep, AnswerPaused, BeginPause, FinishPause, ResetFails, SetLambda,
             GetLambda, CallFails, Execute
    <3>2. h \in Posts /\ Sent(h)
      BY <3>1, <1>1 DEF Resume, Sent, Changing, DialInv, CallsMatch, Handlers
    <3> QED
      BY <3>2, <1>1 DEF DialInv, ForeignQuiet
  <2>2. ASSUME NEW h \in Handlers, Arrive(h) \/ HandlerStep(h) \/ Cancel(h) PROVE FALSE
    BY <1>1, <2>2
       DEF Arrive, Cancel, HandlerStep, RefuseBlocked, EnterPost, EnterGet, Escape, NotOurs,
           RequestPause, ConfirmPause, GiveUp, BackOut, SetWorkers, VerifyWorkers,
           ResumeEngine, Succeed, Pending, StageFails, Fail, Report, Await, Answer
  <2>3. ASSUME NEW r \in Requests, RequestStep(r) PROVE FALSE
    BY <1>1, <2>3 DEF RequestStep, Submit, Admit, Compute, Preempt, Finish
  <2> QED
    BY <1>1, <2>1, <2>2, <2>3 DEF Next, OperatorPause, OperatorResume
<1>2. DialInv /\ [Next]_vars => [foreign /\ ~foreign' => Quiet]_vars
  BY <1>1
<1> QED
  BY <1>2, DialSafe, PTL DEF Spec, ForeignPauseKept

\* With lambdas that a float32 holds exactly, the control is blocked only after
\* an engine call failed or a handler was cancelled.  (Without that hypothesis
\* the readback of an accepted lambda may differ from what was asked for.)
THEOREM BlockedForAReason == Exact => (Spec => []BlocksOnlyWhenUncertain)
<1> SUFFICES ASSUME Exact PROVE Spec => []BlocksOnlyWhenUncertain
  OBVIOUS
<1>1. Init => Blame
  BY DEF Init, Blame, At
<1>2. DialInv /\ Blame /\ [Next]_vars => Blame'
  BY BlameHandler, BlameEngine, BlameRest DEF Next, DialInv
<1>3. Blame => BlocksOnlyWhenUncertain
  BY DEF Blame, BlocksOnlyWhenUncertain
<1> QED
  BY <1>1, <1>2, <1>3, DialSafe, PTL DEF Spec
=============================================================================
