----------------------- MODULE SchedulerLedger_proofs -----------------------
(***************************************************************************)
(* What scheduler and worker agree on, for every number of requests, depth *)
(* of the pipeline, budget, draft length and choice of chunks.             *)
(*                                                                         *)
(* The scheduler plans step k + 1 before the output of step k is back, so  *)
(* its counters run ahead of the worker's.  The inductive invariant keeps  *)
(* one ledger per request (LedgerInv): the sums of what the oldest steps   *)
(* in flight compute for it, and, for a running request, the slots that    *)
(* these steps leave one after the other, which lead from the worker's     *)
(* slot to the scheduler's counters (Follows).  A preemption writes off    *)
(* the steps in flight as stale: the ledger starts behind them (k).        *)
(*                                                                         *)
(* Four further invariants rest on it: where the output comes from that a  *)
(* preempted request still waits for (OutputInv), that the blocks cover    *)
(* what is computed (BlockInv), which requests have a slot once each step  *)
(* in flight has started (PresenceInv), and what the budgets of a call     *)
(* have left (BatchInv).                                                   *)
(***************************************************************************)
EXTENDS Scheduler_proofs, FiniteSetTheorems, WellFoundedInduction

-----------------------------------------------------------------------------
(* What the steps in flight say about a request *)

\* Every status but RUNNING and FINISHED: the request computes nothing.
Waits(r) == req[r].status \in {"NEW", "WAITING", "PREEMPTED"}

\* schedule() is in progress.
InSchedule == pc \in {"running", "waiting", "finish"}

\* r was admitted by the call in progress; no step carries it yet.
Joining(r) == InSchedule /\ r \in scheduled_new_reqs

\* The worker will create r's slot when it starts step i.
Added(r, i) == i \in Pending /\ pipeline[i].add[r] # NoSlot

\* The worker will create or drop r's slot when it starts step i.
Touched(r, i) == i \in Pending /\ (r \in pipeline[i].free \/ pipeline[i].add[r] # NoSlot)

\* s[i] is what the oldest i steps compute for r.
SumsOf(s, r) ==
  /\ s \in [0..Len(pipeline) -> Nat] /\ s[0] = 0
  /\ \A i \in 1..Len(pipeline) : s[i] = s[i - 1] + pipeline[i].n[r]
  /\ \A i, j \in 0..Len(pipeline) : i <= j => s[i] <= s[j]

\* The worker's slot before and after a step, if it accepts every draft.
Advances(u, v, n, spec) ==
  \/ n = 0 /\ v = u
  \/ /\ n > 0 /\ v.computed = u.computed + n /\ v.computed >= u.len
     /\ v.len = u.len + 1 + spec /\ v.computed = u.len + spec /\ spec >= 0
  \/ /\ n > 0 /\ v.computed = u.computed + n /\ v.computed < u.len
     /\ v.len = u.len /\ spec = 0

\* A slot that holds tokens of r or more lacks exactly the last of them.
Placed(u, tokens) ==
  /\ tokens <= u.len /\ 0 <= u.computed /\ u.computed < u.len
  /\ u.len > tokens => u.computed = u.len - 1

\* From step k on, the steps in flight lead the worker's slot from r's tokens to
\* where the scheduler's counters are; w[i] is the slot after step i.
Forecast(r, k, w) ==
  /\ w[k].len = req[r].num_tokens
  /\ w[Len(pipeline)].len = req[r].num_tokens + req[r].num_output_placeholders
  /\ w[Len(pipeline)].computed = req[r].num_computed_tokens
  /\ \A i \in (k + 1)..Len(pipeline) :
       Advances(w[i - 1], w[i], pipeline[i].n[r], pipeline[i].spec[r])
  /\ \A i \in k..Len(pipeline) : Placed(w[i], req[r].num_tokens)
  /\ \A i, j \in k..Len(pipeline) : i <= j => w[i].len <= w[j].len

\* The output of the oldest k steps is stale; r then starts again from the slot
\* that step k + 1 creates, or from the one the worker has.
Follows(r, s, k, w) ==
  /\ req[r].num_stale_output_tokens = s[k]
  /\ r \notin preempted_req_ids
  /\ Added(r, k + 1) \/ k = 0
  /\ \A j \in (k + 1)..Len(pipeline) : Touched(r, j) => j = k + 1 /\ Added(r, j)
  /\ w[k] = IF Added(r, k + 1) THEN pipeline[k + 1].add[r] ELSE slots[r]
  /\ Forecast(r, k, w)

\* What a request's counters say of the steps in flight: the tokens in flight are
\* those of the steps; of a waiting request all of them are stale, and it holds no
\* placeholder; a running one that no admission of this call brought in follows
\* the worker.
LedgerOf(r, s) ==
  /\ SumsOf(s, r)
  /\ r \in finished_req_ids => req[r].status = "FINISHED"
  /\ req[r].status # "FINISHED" =>
       /\ req[r].num_in_flight_tokens = s[Len(pipeline)]
       /\ 0 < req[r].num_tokens /\ req[r].num_tokens < MaxModelLen
       /\ req[r].spec_token_ids >= 0
  /\ req[r].status = "NEW" => req[r].num_in_flight_tokens = 0
  /\ Waits(r) =>
       /\ req[r].num_stale_output_tokens = s[Len(pipeline)]
       /\ req[r].num_output_placeholders = 0 /\ req[r].num_computed_tokens = 0
  /\ req[r].status = "RUNNING" =>
       /\ req[r].num_computed_tokens < MaxModelLen
       /\ req[r].num_stale_output_tokens > 0 => req[r].drop_stale_output
  /\ Joining(r) =>
       /\ req[r].status = "RUNNING"
       /\ req[r].num_stale_output_tokens = s[Len(pipeline)]
       /\ req[r].num_output_placeholders = 0
       /\ 0 <= req[r].num_computed_tokens
       /\ req[r].num_computed_tokens < req[r].num_tokens
  /\ req[r].status = "RUNNING" /\ ~Joining(r) =>
       \E k \in 0..Len(pipeline) : \E w \in [0..Len(pipeline) -> Slot] : Follows(r, s, k, w)

\* What the call in progress has planned for r: no more than its known tokens and
\* the drafts it carries, and drafts only if it reaches them.
PlanOf(r) ==
  InSchedule =>
    LET n == num_scheduled_tokens[r]
        reached == req[r].num_computed_tokens + n
        known == req[r].num_tokens + req[r].num_output_placeholders
    IN  /\ n >= 0 /\ scheduled_spec_tokens[r] >= 0
        /\ n = 0 => scheduled_spec_tokens[r] = 0
        /\ n > 0 =>
             /\ req[r].status = "RUNNING" /\ reached < MaxModelLen
             /\ IF reached < known THEN scheduled_spec_tokens[r] = 0
                ELSE reached = known + scheduled_spec_tokens[r]

\* The ledger of every request, and the plan of the call in progress.
LedgerInv ==
  /\ pc = "running" => scheduled_new_reqs = {}
  /\ \A r \in Requests : PlanOf(r) /\ \E s : LedgerOf(r, s)

-----------------------------------------------------------------------------
(* The pipeline, step by step *)

\* The parts of a step in flight have their types.
LEMMA StepTypes ==
  ASSUME TypeOK
  PROVE  /\ Len(pipeline) \in Nat
         /\ \A i \in 1..Len(pipeline) :
              /\ pipeline[i] \in Step
              /\ \A r \in Requests :
                   /\ pipeline[i].n[r] \in Int /\ pipeline[i].spec[r] \in Int
                   /\ pipeline[i].add[r] \in Slot
<1>1. Len(pipeline) \in Nat /\ \A i \in 1..Len(pipeline) : pipeline[i] \in Step
  BY ElementOfSeq, LenProperties DEF TypeOK
<1> QED
  BY <1>1 DEF Step

\* The fields of a request are integers.
LEMMA FieldTypes ==
  ASSUME TypeOK
  PROVE  \A r \in Requests :
           /\ req[r] \in ReqFields
           /\ req[r].num_tokens \in Int /\ req[r].num_computed_tokens \in Int
           /\ req[r].num_in_flight_tokens \in Int /\ req[r].num_stale_output_tokens \in Int
           /\ req[r].num_output_placeholders \in Int /\ req[r].spec_token_ids \in Int
           /\ slots[r] \in Slot
           /\ num_scheduled_tokens[r] \in Int /\ scheduled_spec_tokens[r] \in Int
<1>1. \A r \in Requests : req[r] \in ReqFields /\ slots[r] \in Slot
  BY DEF TypeOK
<1>2. \A r \in Requests : num_scheduled_tokens[r] \in Int /\ scheduled_spec_tokens[r] \in Int
  BY DEF TypeOK
<1> QED
  BY <1>1, <1>2 DEF ReqFields

\* Nothing of the pipeline or of the worker's slot that concerns r changes.
SameSteps(r) ==
  /\ Len(pipeline') = Len(pipeline) /\ Updating' = Updating
  /\ \A i \in 1..Len(pipeline) :
       /\ pipeline'[i].n[r] = pipeline[i].n[r]
       /\ pipeline'[i].spec[r] = pipeline[i].spec[r]
       /\ pipeline'[i].add[r] = pipeline[i].add[r]
       /\ (r \in pipeline'[i].free) = (r \in pipeline[i].free)
  /\ slots'[r] = slots[r]

\* Nor do the counters that concern the steps in flight.
SameCounters(r) ==
  /\ req'[r].status = req[r].status
  /\ req'[r].num_tokens = req[r].num_tokens
  /\ req'[r].num_computed_tokens = req[r].num_computed_tokens
  /\ req'[r].num_in_flight_tokens = req[r].num_in_flight_tokens
  /\ req'[r].num_stale_output_tokens = req[r].num_stale_output_tokens
  /\ req'[r].drop_stale_output = req[r].drop_stale_output
  /\ req'[r].num_output_placeholders = req[r].num_output_placeholders

\* Nor does r's place in the sets of finished and of preempted ids.
SameIds(r) ==
  /\ (r \in finished_req_ids') = (r \in finished_req_ids)
  /\ (r \in preempted_req_ids') = (r \in preempted_req_ids)

\* Then the sums of r stay what they are.
LEMMA SameSums ==
  ASSUME NEW r, NEW s, SameSteps(r), SumsOf(s, r)
  PROVE  SumsOf(s, r)'
BY DEF SameSteps, SumsOf

\* What leads from the worker's slot to the counters still leads there.
LEMMA SameFollows ==
  ASSUME NEW r, NEW s, NEW k, NEW w, TypeOK, k \in 0..Len(pipeline),
         SameSteps(r), SameCounters(r), SameIds(r), Follows(r, s, k, w)
  PROVE  Follows(r, s, k, w)'
<1>1. Pending' = Pending /\ Len(pipeline') = Len(pipeline) /\ Len(pipeline) \in Nat
  BY StepTypes DEF SameSteps, Pending
<1>2. \A i : i \in Pending => i \in 1..Len(pipeline)
  BY DEF Pending
<1>3. \A i : (Added(r, i)' <=> Added(r, i)) /\ (Touched(r, i)' <=> Touched(r, i))
  BY <1>1, <1>2 DEF Added, Touched, SameSteps
<1>4. Forecast(r, k, w)'
  <2>1. \A i \in (k + 1)..Len(pipeline) : i \in 1..Len(pipeline)
    BY <1>1
  <2> QED
    BY <1>1, <2>1 DEF Follows, Forecast, SameSteps, SameCounters
<1>5. Added(r, k + 1) => k + 1 \in 1..Len(pipeline)
  BY <1>2 DEF Added
<1>6. w[k] = IF Added(r, k + 1)' THEN pipeline'[k + 1].add[r] ELSE slots'[r]
  BY <1>3, <1>5 DEF Follows, SameSteps
<1> QED
  BY <1>1, <1>3, <1>4, <1>6 DEF Follows, SameCounters, SameIds

\* The whole ledger of a request that a step leaves alone.
LEMMA SameLedger ==
  ASSUME NEW r, NEW s, TypeOK, SameSteps(r), SameCounters(r), SameIds(r),
         Joining(r)' = Joining(r), req'[r].spec_token_ids \in {0, req[r].spec_token_ids},
         LedgerOf(r, s)
  PROVE  LedgerOf(r, s)'
<1>1. SumsOf(s, r)' /\ Len(pipeline') = Len(pipeline)
  BY SameSums DEF LedgerOf, SameSteps
<1>2. \A k \in 0..Len(pipeline), w \in [0..Len(pipeline) -> Slot] :
        Follows(r, s, k, w) => Follows(r, s, k, w)'
  BY SameFollows
<1>3. Waits(r)' <=> Waits(r)
  BY DEF Waits, SameCounters
<1>4. req'[r].status = "RUNNING" /\ ~Joining(r)' =>
        \E k \in 0..Len(pipeline') : \E w \in [0..Len(pipeline') -> Slot] :
          Follows(r, s, k, w)'
  BY <1>1, <1>2 DEF LedgerOf, SameCounters
<1>5. req'[r].status # "FINISHED" => req'[r].spec_token_ids >= 0
  BY DEF LedgerOf, SameCounters
<1> QED
  BY <1>1, <1>3, <1>4, <1>5 DEF LedgerOf, SameCounters, SameIds

-----------------------------------------------------------------------------
(* What each step does to a request's record *)

\* A preempted request: all its output in flight is stale.
LEMMA PreemptedFields ==
  ASSUME TypeOK, NEW r \in Requests, NEW drop
  PROVE  /\ Preempted(r, drop).status = "PREEMPTED"
         /\ Preempted(r, drop).num_tokens = req[r].num_tokens
         /\ Preempted(r, drop).num_computed_tokens = 0
         /\ Preempted(r, drop).num_in_flight_tokens = req[r].num_in_flight_tokens
         /\ Preempted(r, drop).num_stale_output_tokens = req[r].num_in_flight_tokens
         /\ Preempted(r, drop).num_output_placeholders = 0
         /\ Preempted(r, drop).spec_token_ids = 0
         /\ Preempted(r, drop).drop_stale_output = DropsStale(r, drop)
<1>1. req[r] \in ReqFields
  BY DEF TypeOK
<1> QED
  BY <1>1 DEF Preempted, StaleTokens, ReqFields

\* An admitted request: it runs from the end of its cache hit.
LEMMA AdmittedFields ==
  ASSUME TypeOK, NEW r \in Requests, NEW hit
  PROVE  /\ Admitted(r, hit).status = "RUNNING"
         /\ Admitted(r, hit).num_tokens = req[r].num_tokens
         /\ Admitted(r, hit).num_computed_tokens = hit
         /\ Admitted(r, hit).num_in_flight_tokens = req[r].num_in_flight_tokens
         /\ Admitted(r, hit).num_stale_output_tokens = req[r].num_stale_output_tokens
         /\ Admitted(r, hit).num_output_placeholders = req[r].num_output_placeholders
         /\ Admitted(r, hit).spec_token_ids = req[r].spec_token_ids
         /\ Admitted(r, hit).drop_stale_output = req[r].drop_stale_output
<1>1. req[r] \in ReqFields
  BY DEF TypeOK
<1> QED
  BY <1>1 DEF Admitted, ReqFields

\* A request whose step is sent: the step's tokens are in flight.
LEMMA SentFields ==
  ASSUME TypeOK, NEW r \in Requests, NEW seq, NEW k
  PROVE  LET n == num_scheduled_tokens[r]
             after == AfterSchedule(r, seq, k)
         IN  /\ after.status = req[r].status /\ after.num_tokens = req[r].num_tokens
             /\ after.num_computed_tokens = req[r].num_computed_tokens + n
             /\ after.num_in_flight_tokens = req[r].num_in_flight_tokens + n
             /\ after.num_stale_output_tokens = req[r].num_stale_output_tokens
             /\ after.drop_stale_output = req[r].drop_stale_output
             /\ after.num_output_placeholders =
                  IF n # 0 /\ FillsPrefix(r)
                  THEN req[r].num_output_placeholders + 1 + scheduled_spec_tokens[r]
                  ELSE req[r].num_output_placeholders
             /\ after.spec_token_ids \in {k, req[r].spec_token_ids}
<1>1. req[r] \in ReqFields /\ num_scheduled_tokens[r] \in Int
  BY DEF TypeOK
<1> QED
  BY <1>1 DEF AfterSchedule, ReqFields

\* Output that came back is no longer in flight, nor stale.
LEMMA CountedFields ==
  ASSUME TypeOK, NEW r \in Requests
  PROVE  LET n == pipeline[1].n[r]
         IN  /\ Counted(r).status = req[r].status
             /\ Counted(r).num_tokens = req[r].num_tokens
             /\ Counted(r).num_computed_tokens = req[r].num_computed_tokens
             /\ Counted(r).num_in_flight_tokens = req[r].num_in_flight_tokens - n
             /\ Counted(r).num_stale_output_tokens =
                  IF IsStale(r) THEN req[r].num_stale_output_tokens - n
                  ELSE req[r].num_stale_output_tokens
             /\ Counted(r).drop_stale_output = req[r].drop_stale_output
             /\ Counted(r).num_output_placeholders = req[r].num_output_placeholders
             /\ Counted(r).spec_token_ids = req[r].spec_token_ids
             /\ DOMAIN Counted(r) = DOMAIN req[r]
<1>1. req[r] \in ReqFields
  BY DEF TypeOK
<1> QED
  BY <1>1 DEF Counted, ReqFields

\* Output that is appended: rejected drafts are taken back from the counters.
LEMMA CorrectedFields ==
  ASSUME TypeOK, NEW r \in Requests, NEW rejected, NEW appended
  PROVE  LET after == Corrected(r, rejected, appended)
             C == req[r].num_computed_tokens
             P == req[r].num_output_placeholders
         IN  /\ after.status = req[r].status
             /\ after.num_tokens = req[r].num_tokens + appended
             /\ after.num_computed_tokens =
                  IF ~IsStale(r) /\ C > 0 THEN C - rejected ELSE C
             /\ after.num_in_flight_tokens = Counted(r).num_in_flight_tokens
             /\ after.num_stale_output_tokens = Counted(r).num_stale_output_tokens
             /\ after.drop_stale_output = req[r].drop_stale_output
             /\ after.num_output_placeholders =
                  IF IsStale(r) THEN P ELSE (IF P > 0 THEN P - rejected ELSE P) - appended
             /\ after.spec_token_ids = req[r].spec_token_ids
<1> DEFINE c == Counted(r)
           q1 == [c EXCEPT !.num_computed_tokens =
                    IF ~IsStale(r) /\ @ > 0 THEN @ - rejected ELSE @]
           q2 == [q1 EXCEPT !.num_output_placeholders =
                    IF IsStale(r) THEN @ ELSE (IF @ > 0 THEN @ - rejected ELSE @) - appended]
           q3 == [q2 EXCEPT !.num_tokens = @ + appended]
<1>1. req[r] \in ReqFields
  BY DEF TypeOK
<1>2. Corrected(r, rejected, appended) = q3
  BY Zenon DEF Corrected
<1>3. /\ c.status = req[r].status /\ c.num_tokens = req[r].num_tokens
      /\ c.num_computed_tokens = req[r].num_computed_tokens
      /\ c.drop_stale_output = req[r].drop_stale_output
      /\ c.num_output_placeholders = req[r].num_output_placeholders
      /\ c.spec_token_ids = req[r].spec_token_ids
      /\ DOMAIN c = DOMAIN req[r]
  BY CountedFields
<1>4. DOMAIN req[r] = {"status", "num_tokens", "num_computed_tokens", "num_in_flight_tokens",
        "num_stale_output_tokens", "drop_stale_output", "num_output_placeholders",
        "spec_token_ids", "last_sched_seq"}
  BY <1>1 DEF ReqFields
<1> HIDE DEF c
<1> QED
  BY <1>2, <1>3, <1>4 DEF c

-----------------------------------------------------------------------------
(* The ledger of a request that changes its status *)

\* Only the sums are kept of a request that is finished.
LEMMA FinishedLedger ==
  ASSUME NEW r \in Requests, NEW s, TypeOK, LedgerOf(r, s), SameSteps(r),
         req'[r].status = "FINISHED", ~InSchedule'
  PROVE  LedgerOf(r, s)'
<1>1. SumsOf(s, r)'
  BY SameSums DEF LedgerOf
<1> QED
  BY <1>1 DEF LedgerOf, Waits, Joining

\* A preempted request has nothing but stale output in flight.
LEMMA PreemptedLedger ==
  ASSUME NEW r \in Requests, NEW s, NEW drop, TypeOK, LedgerOf(r, s), SameSteps(r),
         req[r].status = "RUNNING", req'[r] = Preempted(r, drop), ~Joining(r)',
         UNCHANGED finished_req_ids
  PROVE  LedgerOf(r, s)'
<1>1. SumsOf(s, r)' /\ Len(pipeline') = Len(pipeline)
  BY SameSums DEF LedgerOf, SameSteps
<1>2. /\ req'[r].status = "PREEMPTED" /\ req'[r].num_tokens = req[r].num_tokens
      /\ req'[r].num_computed_tokens = 0 /\ req'[r].spec_token_ids = 0
      /\ req'[r].num_in_flight_tokens = req[r].num_in_flight_tokens
      /\ req'[r].num_stale_output_tokens = req[r].num_in_flight_tokens
      /\ req'[r].num_output_placeholders = 0
  BY PreemptedFields
<1> QED
  BY <1>1, <1>2 DEF LedgerOf, Waits

\* An admitted request starts from a cached prefix shorter than itself, and whatever
\* it has in flight is stale and will be dropped.
LEMMA AdmittedLedger ==
  ASSUME NEW r \in Requests, NEW s, NEW hit \in HitLengths(r), TypeOK, LedgerOf(r, s),
         SameSteps(r), Waits(r), req'[r] = Admitted(r, hit), ~AwaitsStaleOutput(r),
         Joining(r)', UNCHANGED finished_req_ids
  PROVE  LedgerOf(r, s)'
<1>1. SumsOf(s, r)' /\ Len(pipeline') = Len(pipeline)
  BY SameSums DEF LedgerOf, SameSteps
<1>2. /\ req'[r].status = "RUNNING" /\ req'[r].num_tokens = req[r].num_tokens
      /\ req'[r].num_computed_tokens = hit
      /\ req'[r].num_in_flight_tokens = req[r].num_in_flight_tokens
      /\ req'[r].num_stale_output_tokens = req[r].num_stale_output_tokens
      /\ req'[r].num_output_placeholders = req[r].num_output_placeholders
      /\ req'[r].spec_token_ids = req[r].spec_token_ids
      /\ req'[r].drop_stale_output = req[r].drop_stale_output
  BY AdmittedFields
<1>3. hit \in Nat /\ hit < req[r].num_tokens
  BY ConstantsOK DEF HitLengths
<1>4. req[r].num_tokens \in Int /\ MaxModelLen \in Int
  BY FieldTypes, ConstantsOK
<1>5. req[r].num_stale_output_tokens > 0 => req[r].drop_stale_output
  BY DEF AwaitsStaleOutput
<1>6. req[r].status # "FINISHED"
  BY DEF Waits
<1> QED
  BY <1>1, <1>2, <1>3, <1>4, <1>5, <1>6 DEF LedgerOf, Waits

-----------------------------------------------------------------------------
(* Sending a step out *)

\* The planned step joins the pipeline at its end.
LEMMA SentStep ==
  ASSUME TypeOK, EndSchedule
  PROVE  /\ Len(pipeline') = Len(pipeline) + 1
         /\ \A i \in 1..Len(pipeline) : pipeline'[i] = pipeline[i]
         /\ \A r \in Requests :
              /\ pipeline'[Len(pipeline) + 1].n[r] = num_scheduled_tokens[r]
              /\ pipeline'[Len(pipeline) + 1].spec[r] = scheduled_spec_tokens[r]
              /\ pipeline'[Len(pipeline) + 1].add[r] =
                   IF r \in scheduled_new_reqs
                   THEN [len |-> req[r].num_tokens, computed |-> req[r].num_computed_tokens]
                   ELSE NoSlot
         /\ pipeline'[Len(pipeline) + 1].free = finished_req_ids \cup preempted_req_ids
         /\ ~Updating /\ ~Updating' /\ slots' = slots /\ pc = "finish" /\ pc' = "idle"
         /\ finished_req_ids' = {} /\ preempted_req_ids' = {}
         /\ Pending = 1..Len(pipeline) /\ Pending' = 1..(Len(pipeline) + 1)
<1> DEFINE seq == IF DeferBlockFree /\ Scheduled # {} THEN sched_step_seq + 1
                  ELSE sched_step_seq
           add == [r \in Requests |->
                     IF r \in scheduled_new_reqs
                     THEN [len |-> req[r].num_tokens,
                           computed |-> req[r].num_computed_tokens]
                     ELSE NoSlot]
           writes == UNION {owned[r] : r \in Scheduled}
           step == [n |-> num_scheduled_tokens, spec |-> scheduled_spec_tokens,
                    add |-> add, free |-> finished_req_ids \cup preempted_req_ids,
                    writes |-> writes, seq |-> seq]
<1>1. pipeline' = Append(pipeline, step)
  BY DEF EndSchedule
<1>2. step \in Step
  <2>1. seq \in Int
    BY DEF TypeOK
  <2>2. add \in [Requests -> Slot]
    BY DEF TypeOK, ReqFields, Slot, NoSlot
  <2>3. writes \in SUBSET Blocks
    BY DEF TypeOK, Scheduled
  <2> HIDE DEF seq, add, writes
  <2> QED
    BY <2>1, <2>2, <2>3 DEF Step, TypeOK
<1>3. /\ step.n = num_scheduled_tokens /\ step.spec = scheduled_spec_tokens
      /\ step.add = add /\ step.free = finished_req_ids \cup preempted_req_ids
  OBVIOUS
<1> HIDE DEF step
<1>4. /\ Len(pipeline') = Len(pipeline) + 1 /\ Len(pipeline) \in Nat
      /\ \A i \in 1..Len(pipeline) : pipeline'[i] = pipeline[i]
      /\ pipeline'[Len(pipeline) + 1] = step
  BY <1>1, <1>2, AppendProperties, LenProperties DEF TypeOK
<1>5. /\ pc = "finish" /\ pc' = "idle" /\ slots' = slots
      /\ finished_req_ids' = {} /\ preempted_req_ids' = {}
  BY DEF EndSchedule
<1>6. ~Updating /\ ~Updating' /\ Pending = 1..Len(pipeline) /\ Pending' = 1..(Len(pipeline) + 1)
  BY <1>4, <1>5 DEF Updating, Pending
<1> QED
  BY <1>3, <1>4, <1>5, <1>6

\* The sums grow by what was planned.
LEMMA SentSums ==
  ASSUME TypeOK, EndSchedule, NEW r \in Requests, NEW s, SumsOf(s, r),
         num_scheduled_tokens[r] >= 0
  PROVE  \E t : /\ SumsOf(t, r)'
                /\ \A i \in 0..Len(pipeline) : t[i] = s[i]
                /\ t[Len(pipeline) + 1] = s[Len(pipeline)] + num_scheduled_tokens[r]
<1> DEFINE L == Len(pipeline)
           n == num_scheduled_tokens[r]
<1>1. /\ L \in Nat /\ Len(pipeline') = L + 1 /\ n \in Nat
      /\ \A i \in 1..L : pipeline'[i].n[r] = pipeline[i].n[r]
      /\ pipeline'[L + 1].n[r] = n
  <2>1. L \in Nat /\ n \in Nat
    BY StepTypes, FieldTypes
  <2>2. \A i \in 1..L : pipeline'[i] = pipeline[i]
    BY SentStep
  <2>3. Len(pipeline') = L + 1 /\ pipeline'[L + 1].n[r] = n
    BY SentStep
  <2> QED
    BY <2>1, <2>2, <2>3
<1>2. PICK t : t = [i \in 0..(L + 1) |-> IF i <= L THEN s[i] ELSE s[L] + n]
  OBVIOUS
<1>3. /\ s \in [0..L -> Nat] /\ s[0] = 0
      /\ \A i \in 1..L : s[i] = s[i - 1] + pipeline[i].n[r]
      /\ \A i, j \in 0..L : i <= j => s[i] <= s[j]
  BY DEF SumsOf
<1> HIDE DEF L, n
<1>4. t[L + 1] = s[L] + n /\ \A i \in 0..L : t[i] = s[i]
  BY <1>1, <1>2
<1>5. t \in [0..(L + 1) -> Nat]
  BY <1>1, <1>2, <1>3
<1>6. \A i \in 1..(L + 1) : t[i] = t[i - 1] + pipeline'[i].n[r]
  <2> SUFFICES ASSUME NEW i \in 1..(L + 1) PROVE t[i] = t[i - 1] + pipeline'[i].n[r]
    OBVIOUS
  <2>1. CASE i = L + 1
    BY <1>1, <1>4, <2>1
  <2>2. CASE i # L + 1
    <3>1. i \in 1..L /\ i - 1 \in 0..L /\ i \in 0..L
      BY <1>1, <2>2
    <3> QED
      BY <1>1, <1>3, <1>4, <3>1
  <2> QED
    BY <2>1, <2>2
<1>7. \A i, j \in 0..(L + 1) : i <= j => t[i] <= t[j]
  <2> SUFFICES ASSUME NEW i \in 0..(L + 1), NEW j \in 0..(L + 1), i <= j PROVE t[i] <= t[j]
    OBVIOUS
  <2>1. CASE j = L + 1 /\ i # L + 1
    <3>1. i \in 0..L /\ L \in 0..L
      BY <1>1, <2>1
    <3>2. t[i] <= s[L] /\ t[i] \in Nat /\ s[L] \in Nat
      BY <1>1, <1>3, <1>4, <3>1
    <3> QED
      BY <1>1, <1>4, <2>1, <3>2
  <2>2. CASE j # L + 1
    <3>1. i \in 0..L /\ j \in 0..L
      BY <1>1, <2>2
    <3> QED
      BY <1>3, <1>4, <3>1
  <2>3. CASE i = L + 1
    <3>1. j = i
      BY <1>1, <2>3
    <3> QED
      BY <1>5, <3>1
  <2> QED
    BY <2>1, <2>2, <2>3
<1>8. t[0] = 0
  BY <1>1, <1>3, <1>4
<1>9. SumsOf(t, r)'
  BY <1>1, <1>5, <1>6, <1>7, <1>8 DEF SumsOf
<1> QED
  BY <1>4, <1>9 DEF L, n

\* Where a step takes the worker's slot when it accepts every draft.
AfterStep(u, n, spec) ==
  [len |-> IF n > 0 /\ u.computed + n >= u.len THEN u.len + 1 + spec ELSE u.len,
   computed |-> u.computed + n]

\* A planned step advances the slot, and leaves it one token short again.
LEMMA PlannedAdvances ==
  ASSUME NEW u \in Slot, NEW tokens \in Int, NEW n \in Nat, NEW spec \in Nat,
         Placed(u, tokens),
         n > 0 => IF u.computed + n < u.len THEN spec = 0 ELSE u.computed + n = u.len + spec
  PROVE  /\ AfterStep(u, n, spec) \in Slot
         /\ Advances(u, AfterStep(u, n, spec), n, spec)
         /\ Placed(AfterStep(u, n, spec), tokens)
         /\ u.len <= AfterStep(u, n, spec).len
<1>1. u.len \in Int /\ u.computed \in Int /\ u = [len |-> u.len, computed |-> u.computed]
  BY DEF Slot
<1> DEFINE v == AfterStep(u, n, spec)
<1>2. /\ v.computed = u.computed + n
      /\ v.len = IF n > 0 /\ u.computed + n >= u.len THEN u.len + 1 + spec ELSE u.len
      /\ v \in Slot
  BY <1>1 DEF AfterStep, Slot
<1>3. n = 0 => v = u
  BY <1>1 DEF AfterStep
<1> HIDE DEF v
<1>4. Advances(u, v, n, spec)
  BY <1>1, <1>2, <1>3 DEF Advances
<1>5. Placed(v, tokens)
  BY <1>1, <1>2 DEF Placed
<1>6. u.len <= v.len
  BY <1>1, <1>2
<1> QED
  BY <1>2, <1>4, <1>5, <1>6 DEF v

\* The planned step extends a forecast that ends where the counters are.
LEMMA SentForecast ==
  ASSUME TypeOK, EndSchedule, NEW r \in Requests, PlanOf(r),
         NEW k \in 0..Len(pipeline), NEW w \in [0..Len(pipeline) -> Slot],
         Forecast(r, k, w)
  PROVE  \E x \in [0..(Len(pipeline) + 1) -> Slot] :
           x[k] = w[k] /\ Forecast(r, k, x)'
<1> DEFINE L == Len(pipeline)
           n == num_scheduled_tokens[r]
           spec == scheduled_spec_tokens[r]
           T == req[r].num_tokens
           P == req[r].num_output_placeholders
           C == req[r].num_computed_tokens
           v == AfterStep(w[L], n, spec)
<1>1. /\ L \in Nat /\ T \in Int /\ P \in Int /\ C \in Int /\ n \in Int /\ spec \in Int
  BY StepTypes, FieldTypes
<1>2. /\ Len(pipeline') = L + 1
      /\ pipeline'[L + 1].n[r] = n /\ pipeline'[L + 1].spec[r] = spec
  BY SentStep
<1>3. \A i \in 1..L : pipeline'[i] = pipeline[i]
  BY SentStep
<1>4. /\ n >= 0 /\ spec >= 0
      /\ n > 0 => IF C + n < T + P THEN spec = 0 ELSE C + n = T + P + spec
  <2>1. InSchedule
    BY SentStep DEF InSchedule
  <2> QED
    BY <2>1 DEF PlanOf
<1>5. PICK kk, seq : req'[r] = AfterSchedule(r, seq, kk)
  BY DEF EndSchedule
<1>6. /\ req'[r].num_tokens = T /\ req'[r].num_computed_tokens = C + n
      /\ req'[r].num_output_placeholders =
           IF n > 0 /\ C + n >= T + P THEN P + 1 + spec ELSE P
  <2>1. FillsPrefix(r) <=> C + n >= T + P
    BY DEF FillsPrefix
  <2>2. /\ req'[r].num_tokens = T /\ req'[r].num_computed_tokens = C + n
        /\ req'[r].num_output_placeholders =
             IF n # 0 /\ FillsPrefix(r) THEN P + 1 + spec ELSE P
    BY <1>5, SentFields
  <2> QED
    BY <1>1, <1>4, <2>1, <2>2
<1>7. /\ w[k].len = T /\ w[L].len = T + P /\ w[L].computed = C
      /\ \A i \in (k + 1)..L : Advances(w[i - 1], w[i], pipeline[i].n[r], pipeline[i].spec[r])
      /\ \A i \in k..L : Placed(w[i], T)
      /\ \A i, j \in k..L : i <= j => w[i].len <= w[j].len
  BY DEF Forecast
<1>8. w[L] \in Slot /\ L \in k..L /\ k \in 0..L /\ \A i \in 0..L : w[i].len \in Int
  BY <1>1 DEF Slot
<1>9. /\ v \in Slot /\ Advances(w[L], v, n, spec) /\ Placed(v, T) /\ w[L].len <= v.len
  <2>1. n \in Nat /\ spec \in Nat /\ Placed(w[L], T)
    BY <1>1, <1>4, <1>7, <1>8
  <2>2. n > 0 => IF w[L].computed + n < w[L].len THEN spec = 0
                 ELSE w[L].computed + n = w[L].len + spec
    BY <1>4, <1>7
  <2> HIDE DEF L, n, spec, T
  <2> QED
    BY <1>1, <1>8, <2>1, <2>2, PlannedAdvances
<1>10. v.len = T + req'[r].num_output_placeholders /\ v.computed = C + n
  BY <1>1, <1>6, <1>7 DEF AfterStep
<1>11. PICK x : x = [i \in 0..(L + 1) |-> IF i <= L THEN w[i] ELSE v]
  OBVIOUS
<1> HIDE DEF L, n, spec, T, P, C, v
<1>12. /\ x \in [0..(L + 1) -> Slot] /\ x[L + 1] = v /\ \A i \in 0..L : x[i] = w[i]
  BY <1>1, <1>9, <1>11 DEF L
<1>13. \A i \in (k + 1)..(L + 1) :
         Advances(x[i - 1], x[i], pipeline'[i].n[r], pipeline'[i].spec[r])
  <2> SUFFICES ASSUME NEW i \in (k + 1)..(L + 1)
               PROVE  Advances(x[i - 1], x[i], pipeline'[i].n[r], pipeline'[i].spec[r])
    OBVIOUS
  <2>1. CASE i = L + 1
    <3>1. x[i - 1] = w[L] /\ x[i] = v
      BY <1>1, <1>12, <2>1
    <3> QED
      BY <1>2, <1>9, <2>1, <3>1
  <2>2. CASE i # L + 1
    <3>1. i \in (k + 1)..L /\ i \in 1..L /\ i - 1 \in 0..L /\ i \in 0..L
      BY <1>1, <1>8, <2>2
    <3> QED
      BY <1>3, <1>7, <1>12, <3>1
  <2> QED
    BY <2>1, <2>2
<1>14. \A i \in k..(L + 1) : Placed(x[i], T)
  <2> SUFFICES ASSUME NEW i \in k..(L + 1) PROVE Placed(x[i], T)
    OBVIOUS
  <2>1. CASE i = L + 1
    BY <1>9, <1>12, <2>1
  <2>2. CASE i # L + 1
    <3>1. i \in k..L /\ i \in 0..L
      BY <1>1, <1>8, <2>2
    <3> QED
      BY <1>7, <1>12, <3>1
  <2> QED
    BY <2>1, <2>2
<1>15. \A i, j \in k..(L + 1) : i <= j => x[i].len <= x[j].len
  <2> SUFFICES ASSUME NEW i \in k..(L + 1), NEW j \in k..(L + 1), i <= j
               PROVE  x[i].len <= x[j].len
    OBVIOUS
  <2>0. v.len \in Int
    BY <1>9 DEF Slot
  <2>1. CASE j = L + 1 /\ i # L + 1
    <3>1. i \in k..L /\ i \in 0..L /\ L \in 0..L
      BY <1>1, <1>8, <2>1
    <3>2. w[i].len <= w[L].len /\ w[i].len \in Int /\ w[L].len \in Int
      BY <1>7, <1>8, <3>1
    <3> QED
      BY <1>9, <1>12, <2>0, <2>1, <3>1, <3>2
  <2>2. CASE j # L + 1
    <3>1. i \in k..L /\ j \in k..L /\ i \in 0..L /\ j \in 0..L
      BY <1>1, <1>8, <2>2
    <3> QED
      BY <1>7, <1>12, <3>1
  <2>3. CASE i = L + 1
    <3>1. j = i
      BY <1>1, <1>8, <2>3
    <3> QED
      BY <1>12, <2>0, <2>3, <3>1
  <2> QED
    BY <2>1, <2>2, <2>3
<1>16. x[k] = w[k]
  BY <1>8, <1>12
<1>17. Forecast(r, k, x)'
  BY <1>2, <1>6, <1>7, <1>10, <1>12, <1>13, <1>14, <1>15, <1>16 DEF Forecast
<1> QED
  BY <1>12, <1>16, <1>17 DEF L

\* Sending a step keeps the ledger of every request, planned or not.
LEMMA SentLedger ==
  ASSUME TypeOK, EndSchedule, NEW r \in Requests, NEW s, LedgerOf(r, s), PlanOf(r)
  PROVE  \E t : LedgerOf(r, t)'
<1>0. PICK L : L = Len(pipeline)
  OBVIOUS
<1> DEFINE n == num_scheduled_tokens[r]
           T == req[r].num_tokens
           C == req[r].num_computed_tokens
<1>1. /\ L \in Nat /\ T \in Int /\ C \in Int /\ n \in Int /\ MaxModelLen \in Int
      /\ req[r].num_output_placeholders \in Int /\ req[r].num_in_flight_tokens \in Int
  BY <1>0, StepTypes, FieldTypes, ConstantsOK
<1>2. InSchedule /\ pc = "finish" /\ Len(pipeline') = L + 1
      /\ \A i \in 1..L : pipeline'[i] = pipeline[i]
  BY <1>0, SentStep DEF InSchedule
<1>3. n >= 0 /\ (n > 0 => req[r].status = "RUNNING" /\ C + n < MaxModelLen)
  BY <1>2 DEF PlanOf
<1>4. SumsOf(s, r) /\ s \in [0..L -> Nat]
  BY <1>0 DEF LedgerOf, SumsOf
<1>5. PICK t : /\ SumsOf(t, r)' /\ \A i \in 0..L : t[i] = s[i]
               /\ t[L + 1] = s[L] + n
  BY <1>0, <1>3, <1>4, SentSums
<1>6. PICK kk, seq : kk \in SpecChoices /\ req'[r] = AfterSchedule(r, seq, kk)
  BY DEF EndSchedule
<1>7. /\ req'[r].status = req[r].status /\ req'[r].num_tokens = T
      /\ req'[r].num_computed_tokens = C + n
      /\ req'[r].num_in_flight_tokens = req[r].num_in_flight_tokens + n
      /\ req'[r].num_stale_output_tokens = req[r].num_stale_output_tokens
      /\ req'[r].drop_stale_output = req[r].drop_stale_output
      /\ n = 0 => req'[r].num_output_placeholders = req[r].num_output_placeholders
      /\ req'[r].spec_token_ids \in {kk, req[r].spec_token_ids}
  BY <1>6, SentFields
<1>8. kk \in Nat
  BY <1>6, ConstantsOK
<1>9. r \notin finished_req_ids' /\ r \notin preempted_req_ids' /\ ~Joining(r)'
  BY SentStep DEF Joining, InSchedule
<1>10. ASSUME req[r].status = "RUNNING"
       PROVE  \E k \in 0..(L + 1) : \E x \in [0..(L + 1) -> Slot] : Follows(r, t, k, x)'
  <2>1. CASE ~Joining(r)
    <3>1. PICK k \in 0..L, w \in [0..L -> Slot] : Follows(r, s, k, w)
      BY <1>0, <1>10, <2>1 DEF LedgerOf
    <3>2. PICK x \in [0..(L + 1) -> Slot] : x[k] = w[k] /\ Forecast(r, k, x)'
      BY <1>0, <3>1, SentForecast DEF Follows
    <3>3. \A j \in 1..L : (Added(r, j)' <=> Added(r, j)) /\ (Touched(r, j)' <=> Touched(r, j))
      <4>1. \A j \in 1..L : j \in Pending /\ j \in Pending'
        BY <1>0, <1>1, SentStep
      <4> QED
        BY <1>2, <4>1 DEF Added, Touched
    <3>4. ~Touched(r, L + 1)'
      <4>1. r \notin scheduled_new_reqs
        BY <1>2, <2>1 DEF Joining
      <4>2. r \notin finished_req_ids /\ r \notin preempted_req_ids
        BY <1>10, <3>1 DEF Follows, LedgerOf
      <4> QED
        BY <1>0, <4>1, <4>2, SentStep DEF Touched
    <3>5. Added(r, k + 1) => k + 1 \in 1..L
      BY <1>0 DEF Added, Pending
    <3>6. ~Added(r, L + 1)'
      BY <3>4 DEF Added, Touched
    <3>7. Added(r, k + 1)' <=> Added(r, k + 1)
      <4>1. CASE k = L
        <5>1. k + 1 = L + 1 /\ ~(k + 1 \in 1..L)
          BY <1>1, <4>1
        <5> QED
          BY <3>5, <3>6, <5>1
      <4>2. CASE k # L
        <5>1. k + 1 \in 1..L
          BY <1>1, <4>2
        <5> QED
          BY <3>3, <5>1
      <4> QED
        BY <4>1, <4>2
    <3>8. \A j \in (k + 1)..(L + 1) : Touched(r, j)' => j = k + 1 /\ Added(r, j)'
      <4> SUFFICES ASSUME NEW j \in (k + 1)..(L + 1), Touched(r, j)'
                   PROVE  j = k + 1 /\ Added(r, j)'
        OBVIOUS
      <4>1. j # L + 1
        BY <3>4
      <4>2. j \in (k + 1)..L /\ j \in 1..L
        BY <1>1, <4>1
      <4> QED
        BY <1>0, <3>1, <3>3, <4>2 DEF Follows
    <3>9. x[k] = IF Added(r, k + 1)' THEN pipeline'[k + 1].add[r] ELSE slots'[r]
      BY <1>2, <3>1, <3>2, <3>5, <3>7, SentStep DEF Follows
    <3>10. Follows(r, t, k, x)'
      BY <1>0, <1>2, <1>5, <1>7, <1>9, <3>1, <3>2, <3>7, <3>8, <3>9 DEF Follows
    <3>11. k \in 0..(L + 1)
      BY <1>1
    <3> QED
      BY <3>10, <3>11
  <2>2. CASE Joining(r)
    <3> DEFINE u == [len |-> T, computed |-> C]
    <3>1. PICK w : w = [i \in 0..L |-> u]
      OBVIOUS
    <3>2. u \in Slot /\ u.len = T /\ u.computed = C
      BY <1>1 DEF Slot
    <3> HIDE DEF u
    <3>3. w \in [0..L -> Slot] /\ L \in 0..L /\ w[L] = u
      BY <1>1, <3>1, <3>2
    <3>4. req[r].num_output_placeholders = 0 /\ 0 <= C /\ C < T
      BY <2>2 DEF LedgerOf
    <3>5. Placed(u, T)
      BY <1>1, <3>2, <3>4 DEF Placed
    <3>6. Forecast(r, L, w)
      BY <1>0, <1>1, <3>2, <3>3, <3>4, <3>5 DEF Forecast
    <3>7. PICK x \in [0..(L + 1) -> Slot] : x[L] = w[L] /\ Forecast(r, L, x)'
      BY <1>0, <3>3, <3>6, SentForecast
    <3>8. pipeline'[L + 1].add[r] = u /\ L + 1 \in Pending'
      <4>1. r \in scheduled_new_reqs
        BY <2>2 DEF Joining
      <4> QED
        BY <1>0, <1>1, <4>1, SentStep DEF u
    <3>9. u # NoSlot
      BY <1>1, <3>2, <3>4 DEF NoSlot
    <3>10. Added(r, L + 1)'
      BY <3>8, <3>9 DEF Added
    <3>11. \A j \in (L + 1)..(L + 1) : j = L + 1
      BY <1>1
    <3>12. t[L] = s[L]
      BY <1>1, <1>5, <3>3
    <3>13. req'[r].num_stale_output_tokens = t[L]
      BY <1>0, <1>7, <2>2, <3>12 DEF LedgerOf
    <3>14. Follows(r, t, L, x)'
      BY <1>2, <1>9, <3>3, <3>7, <3>8, <3>10, <3>11, <3>13 DEF Follows
    <3>15. L \in 0..(L + 1)
      BY <1>1
    <3> QED
      BY <3>14, <3>15
  <2> QED
    BY <2>1, <2>2
<1> HIDE DEF n, T, C
<1>11. t[L + 1] = s[L] + n /\ s[L] \in Int
  BY <1>1, <1>4, <1>5
<1>12. req[r].status # "FINISHED" =>
         /\ req'[r].num_in_flight_tokens = t[L + 1]
         /\ 0 < T /\ T < MaxModelLen /\ req'[r].spec_token_ids >= 0
  BY <1>0, <1>7, <1>8, <1>11 DEF LedgerOf, T
<1>13. Waits(r) => n = 0
  BY <1>1, <1>3 DEF Waits
<1>14. Waits(r)' <=> Waits(r)
  BY <1>7 DEF Waits
<1>15. Waits(r) =>
         /\ req'[r].num_stale_output_tokens = t[L + 1]
         /\ req'[r].num_output_placeholders = 0 /\ req'[r].num_computed_tokens = 0
  <2> SUFFICES ASSUME Waits(r)
               PROVE  /\ req'[r].num_stale_output_tokens = t[L + 1]
                      /\ req'[r].num_output_placeholders = 0 /\ req'[r].num_computed_tokens = 0
    OBVIOUS
  <2>1. n = 0 /\ t[L + 1] = s[L]
    BY <1>1, <1>11, <1>13
  <2>2. /\ req[r].num_stale_output_tokens = s[L]
        /\ req[r].num_output_placeholders = 0 /\ C = 0
    BY <1>0 DEF LedgerOf, C
  <2> QED
    BY <1>7, <2>1, <2>2
<1>16. req[r].status = "RUNNING" =>
         /\ C + n < MaxModelLen
         /\ req'[r].num_stale_output_tokens > 0 => req'[r].drop_stale_output
  BY <1>1, <1>3, <1>7 DEF LedgerOf, C
<1>17. req[r].status = "NEW" => req'[r].num_in_flight_tokens = 0
  <2>1. req[r].status = "NEW" => n = 0 /\ req[r].num_in_flight_tokens = 0
    BY <1>13 DEF Waits, LedgerOf
  <2> QED
    BY <1>7, <2>1
<1> QED
  BY <1>0, <1>2, <1>5, <1>7, <1>9, <1>10, <1>12, <1>14, <1>15, <1>16, <1>17 DEF LedgerOf

-----------------------------------------------------------------------------
(* The worker runs the oldest step *)

\* The worker applies the oldest step's frees and adds to its slots.
LEMMA RunStep ==
  ASSUME TypeOK, BeginUpdate
  PROVE  /\ Len(pipeline') = Len(pipeline) /\ 1 \in 1..Len(pipeline)
         /\ \A i \in 1..Len(pipeline) :
              /\ pipeline'[i].n = pipeline[i].n /\ pipeline'[i].spec = pipeline[i].spec
              /\ pipeline'[i].add = pipeline[i].add /\ pipeline'[i].free = pipeline[i].free
         /\ \A r \in Requests : slots'[r] = SlotBefore(pipeline[1], r)
         /\ ~Updating /\ Updating' /\ pc = "idle"
         /\ UNCHANGED <<req, idVars, localVars>>
<1>1. pipeline # <<>> /\ pipeline' = [pipeline EXCEPT ![1].writes = {}]
  BY DEF BeginUpdate
<1>2. pipeline[1] \in Step /\ 1 \in 1..Len(pipeline)
  BY <1>1, PipelineUpdateTypes
<1>3. PICK e : e = [pipeline[1] EXCEPT !.writes = {}]
  OBVIOUS
<1>4. /\ e.n = pipeline[1].n /\ e.spec = pipeline[1].spec
      /\ e.add = pipeline[1].add /\ e.free = pipeline[1].free
  BY <1>2, <1>3 DEF Step
<1>5. pipeline' = [pipeline EXCEPT ![1] = e]
  BY <1>1, <1>3
<1>6. /\ Len(pipeline') = Len(pipeline) /\ pipeline'[1] = e
      /\ \A i \in 1..Len(pipeline) : i # 1 => pipeline'[i] = pipeline[i]
  <2>1. pipeline \in Seq(Step) /\ e \in Step
    BY <1>2, <1>3 DEF TypeOK, Step
  <2> QED
    BY <1>2, <1>5, <2>1, ExceptSeq
<1>7. \A r \in Requests : slots'[r] = SlotBefore(pipeline[1], r)
  BY DEF BeginUpdate
<1>8. ~Updating /\ Updating' /\ pc = "idle" /\ UNCHANGED <<req, idVars, localVars>>
  BY DEF BeginUpdate, Updating
<1> QED
  BY <1>2, <1>4, <1>6, <1>7, <1>8

\* A request's forecast then starts from the slot the worker has.
LEMMA RunLedger ==
  ASSUME TypeOK, BeginUpdate, NEW r \in Requests, NEW s, LedgerOf(r, s)
  PROVE  LedgerOf(r, s)'
<1>0. PICK L : L = Len(pipeline)
  OBVIOUS
<1>1. /\ L \in Nat /\ Len(pipeline') = L /\ L >= 1
      /\ \A i \in 1..L :
           /\ pipeline'[i].n = pipeline[i].n /\ pipeline'[i].spec = pipeline[i].spec
           /\ pipeline'[i].add = pipeline[i].add /\ pipeline'[i].free = pipeline[i].free
  <2>1. L \in Nat /\ 1 \in 1..L /\ Len(pipeline') = L
    BY <1>0, StepTypes, RunStep
  <2> QED
    BY <1>0, <2>1, RunStep
<1>2. SumsOf(s, r)'
  BY <1>0, <1>1 DEF LedgerOf, SumsOf
<1>3. Pending = 1..L /\ Pending' = 2..L /\ req' = req
  BY <1>0, <1>1, RunStep DEF Pending
<1>4. UNCHANGED <<finished_req_ids, preempted_req_ids>> /\ ~Joining(r)' /\ ~Joining(r)
  <2>1. ~InSchedule /\ ~InSchedule'
    BY RunStep DEF InSchedule, Updating
  <2> QED
    BY <2>1, RunStep DEF Joining, idVars
<1>5. \A j : j # 1 => (Added(r, j)' <=> Added(r, j)) /\ (Touched(r, j)' <=> Touched(r, j))
  <2> TAKE j
  <2>1. j # 1 => (j \in Pending' <=> j \in Pending)
    BY <1>1, <1>3
  <2>2. j \in Pending => j \in 1..L
    BY <1>3
  <2> QED
    BY <1>1, <2>1, <2>2 DEF Added, Touched
<1>6. ~Added(r, 1)' /\ ~Touched(r, 1)' /\ 1 \in Pending
  BY <1>1, <1>3 DEF Added, Touched
<1>7. ASSUME NEW k \in 0..L, NEW w \in [0..L -> Slot], Follows(r, s, k, w)
      PROVE  Follows(r, s, k, w)'
  <2>1. Forecast(r, k, w)'
    <3>1. \A i \in (k + 1)..L : i \in 1..L
      BY <1>1
    <3> QED
      BY <1>0, <1>1, <1>3, <1>7, <3>1 DEF Follows, Forecast
  <2>2. CASE k = 0
    <3>1. k + 1 = 1
      BY <2>2
    <3>2. w[k] = slots'[r]
      <4>1. CASE Added(r, 1)
        <5>1. slots'[r] = pipeline[1].add[r]
          BY <4>1, RunStep DEF SlotBefore, Added
        <5> QED
          BY <1>7, <3>1, <4>1, <5>1 DEF Follows
      <4>2. CASE ~Added(r, 1)
        <5>1. 1 \in (k + 1)..L
          BY <1>1, <3>1
        <5>2. ~Touched(r, 1)
          BY <1>0, <1>7, <4>2, <5>1 DEF Follows
        <5>3. slots'[r] = slots[r]
          BY <1>6, <5>2, RunStep DEF SlotBefore, Touched
        <5> QED
          BY <1>7, <3>1, <4>2, <5>3 DEF Follows
      <4> QED
        BY <4>1, <4>2
    <3>3. \A j \in (k + 1)..L : ~Touched(r, j)'
      <4> SUFFICES ASSUME NEW j \in (k + 1)..L PROVE ~Touched(r, j)'
        OBVIOUS
      <4>1. CASE j = 1
        BY <1>6, <4>1
      <4>2. CASE j # 1
        BY <1>0, <1>5, <1>7, <3>1, <4>2 DEF Follows
      <4> QED
        BY <4>1, <4>2
    <3> QED
      BY <1>1, <1>3, <1>4, <1>6, <1>7, <2>1, <2>2, <3>1, <3>2, <3>3 DEF Follows
  <2>3. CASE k # 0
    <3>1. k + 1 # 1 /\ \A j \in (k + 1)..L : j # 1
      BY <1>1, <2>3
    <3>2. Added(r, k + 1) /\ Added(r, k + 1)' /\ k + 1 \in 1..L
      BY <1>3, <1>5, <1>7, <2>3, <3>1 DEF Follows, Added
    <3>3. w[k] = pipeline'[k + 1].add[r]
      BY <1>1, <1>7, <3>2 DEF Follows
    <3>4. \A j \in (k + 1)..L : Touched(r, j)' => j = k + 1 /\ Added(r, j)'
      BY <1>0, <1>5, <1>7, <3>1 DEF Follows
    <3> QED
      BY <1>1, <1>3, <1>4, <1>7, <2>1, <3>2, <3>3, <3>4 DEF Follows
  <2> QED
    BY <2>2, <2>3
<1>8. req[r].status = "RUNNING" =>
        \E k \in 0..L : \E w \in [0..L -> Slot] : Follows(r, s, k, w)'
  BY <1>0, <1>4, <1>7 DEF LedgerOf
<1>9. Waits(r)' <=> Waits(r)
  BY <1>3 DEF Waits
<1> QED
  BY <1>0, <1>1, <1>2, <1>3, <1>4, <1>8, <1>9 DEF LedgerOf

-----------------------------------------------------------------------------
(* A step that was processed leaves the pipeline *)

\* The steps behind the oldest move up.
LEMMA PoppedStep ==
  ASSUME TypeOK, UpdatingOldest, EndUpdate
  PROVE  /\ 1 \in 1..Len(pipeline) /\ Len(pipeline') = Len(pipeline) - 1
         /\ \A i \in 1..(Len(pipeline) - 1) : pipeline'[i] = pipeline[i + 1]
         /\ \A r \in Requests : pipeline[1].n[r] = 0
         /\ Updating /\ ~Updating' /\ pc' = "idle"
         /\ UNCHANGED <<req, slots, idVars, localVars>>
<1>1. pipeline # <<>> /\ pipeline \in Seq(Step)
  BY DEF EndUpdate, UpdatingOldest, TypeOK
<1>2. 1 \in 1..Len(pipeline) /\ Len(pipeline) \in Nat
  BY <1>1, PipelineUpdateTypes, LenProperties
<1>3. pipeline' = SubSeq(pipeline, 2, Len(pipeline))
  BY DEF EndUpdate
<1>4. /\ Len(pipeline') = Len(pipeline) - 1
      /\ \A i \in 1..(Len(pipeline) - 1) : pipeline'[i] = pipeline[i + 1]
  <2>1. /\ Len(pipeline') = IF 2 <= Len(pipeline) THEN Len(pipeline) - 2 + 1 ELSE 0
        /\ \A i \in 1..(Len(pipeline) - 2 + 1) : pipeline'[i] = pipeline[2 + i - 1]
    BY <1>1, <1>2, <1>3, SubSeqProperties, ElementOfSeq
  <2>2. ASSUME NEW i \in 1..(Len(pipeline) - 1) PROVE pipeline'[i] = pipeline[i + 1]
    <3>1. 2 + i - 1 = i + 1 /\ i \in 1..(Len(pipeline) - 2 + 1)
      BY <1>2
    <3>2. pipeline'[i] = pipeline[2 + i - 1]
      BY <2>1, <3>1
    <3> QED
      BY <3>1, <3>2
  <2>3. Len(pipeline') = Len(pipeline) - 1
    <3>1. Len(pipeline') = IF 2 <= Len(pipeline) THEN Len(pipeline) - 2 + 1 ELSE 0
      BY <2>1
    <3>2. Len(pipeline) \in Nat /\ Len(pipeline) >= 1
      BY <1>2
    <3> QED
      BY <3>1, <3>2
  <2> QED
    BY <2>2, <2>3
<1> QED
  BY <1>2, <1>4 DEF EndUpdate, NonEmpty, Updating, localVars, idVars

\* So do the sums, of which the oldest step had nothing left.
LEMMA PoppedLedger ==
  ASSUME TypeOK, UpdatingOldest, EndUpdate, NEW r \in Requests, NEW s, LedgerOf(r, s)
  PROVE  \E t : LedgerOf(r, t)'
<1>0. PICK L : L = Len(pipeline)
  OBVIOUS
<1>1. /\ L \in Nat /\ L >= 1 /\ Len(pipeline') = L - 1 /\ L - 1 \in Nat
      /\ \A i \in 1..(L - 1) : pipeline'[i] = pipeline[i + 1]
      /\ pipeline[1].n[r] = 0
  <2>1. L \in Nat /\ 1 \in 1..L /\ Len(pipeline') = L - 1
    BY <1>0, StepTypes, PoppedStep
  <2> QED
    BY <1>0, <2>1, PoppedStep
<1>2. Pending = 2..L /\ Pending' = 1..(L - 1)
  BY <1>0, <1>1, PoppedStep DEF Pending
<1>3. UNCHANGED <<req, slots, finished_req_ids, preempted_req_ids>>
      /\ ~Joining(r)' /\ ~Joining(r)
  <2>1. ~InSchedule /\ ~InSchedule'
    BY PoppedStep DEF InSchedule, Updating
  <2> QED
    BY <2>1, PoppedStep DEF Joining, idVars
<1>4. PICK t : t = [i \in 0..(L - 1) |-> s[i + 1]]
  OBVIOUS
<1>5. /\ s \in [0..L -> Nat] /\ s[0] = 0 /\ s[1] = 0
      /\ \A i \in 1..L : s[i] = s[i - 1] + pipeline[i].n[r]
      /\ \A i, j \in 0..L : i <= j => s[i] <= s[j]
  <2>1. /\ s \in [0..L -> Nat] /\ s[0] = 0
        /\ \A i \in 1..L : s[i] = s[i - 1] + pipeline[i].n[r]
        /\ \A i, j \in 0..L : i <= j => s[i] <= s[j]
    BY <1>0 DEF LedgerOf, SumsOf
  <2>2. 1 \in 1..L
    BY <1>1
  <2>3. s[1] = s[1 - 1] + pipeline[1].n[r]
    BY <2>1, <2>2
  <2>4. s[1] = 0
    BY <1>1, <2>1, <2>3
  <2> QED
    BY <2>1, <2>4
<1>6. \A i \in 0..(L - 1) : t[i] = s[i + 1] /\ i + 1 \in 0..L
  BY <1>1, <1>4
<1>7. SumsOf(t, r)'
  <2>1. t \in [0..(L - 1) -> Nat] /\ t[0] = 0
    BY <1>1, <1>4, <1>5, <1>6
  <2>2. ASSUME NEW i \in 1..(L - 1) PROVE t[i] = t[i - 1] + pipeline'[i].n[r]
    <3>1. i \in 0..(L - 1) /\ i - 1 \in 0..(L - 1) /\ i + 1 \in 1..L
          /\ (i + 1) - 1 = (i - 1) + 1
      BY <1>1
    <3>2. s[i + 1] = s[(i + 1) - 1] + pipeline[i + 1].n[r]
      BY <1>5, <3>1
    <3> QED
      BY <1>1, <1>6, <3>1, <3>2
  <2>3. \A i, j \in 0..(L - 1) : i <= j => t[i] <= t[j]
    BY <1>1, <1>5, <1>6
  <2> QED
    BY <1>1, <2>1, <2>2, <2>3 DEF SumsOf
<1>8. t[L - 1] = s[L]
  BY <1>1, <1>6
<1>9. \A j \in 1..(L - 1) :
        (Added(r, j)' <=> Added(r, j + 1)) /\ (Touched(r, j)' <=> Touched(r, j + 1))
  <2> SUFFICES ASSUME NEW j \in 1..(L - 1)
               PROVE  (Added(r, j)' <=> Added(r, j + 1)) /\ (Touched(r, j)' <=> Touched(r, j + 1))
    OBVIOUS
  <2>1. j \in Pending' /\ j + 1 \in Pending
    BY <1>1, <1>2
  <2> QED
    BY <1>1, <2>1 DEF Added, Touched
<1>10. ASSUME NEW k \in 0..L, NEW w \in [0..L -> Slot], Follows(r, s, k, w)
       PROVE  \E m \in 0..(L - 1) : \E x \in [0..(L - 1) -> Slot] : Follows(r, t, m, x)'
  <2>1. PICK m : m = IF k = 0 THEN 0 ELSE k - 1
    OBVIOUS
  <2>2. m \in 0..(L - 1) /\ m + 1 >= k /\ \A i \in m..(L - 1) : i + 1 \in k..L
    BY <1>1, <2>1
  <2>3. PICK x : x = [i \in 0..(L - 1) |-> w[i + 1]]
    OBVIOUS
  <2>4. x \in [0..(L - 1) -> Slot] /\ \A i \in 0..(L - 1) : x[i] = w[i + 1]
    BY <1>6, <2>3
  <2>5. x[m] = w[k]
    <3>1. CASE k = 0
      <4>1. 1 \in (k + 1)..L
        BY <1>1, <3>1
      <4>2. Advances(w[0], w[1], 0, pipeline[1].spec[r])
        BY <1>0, <1>1, <1>10, <3>1, <4>1 DEF Follows, Forecast
      <4>3. w[1] = w[0]
        BY <4>2 DEF Advances
      <4> QED
        BY <2>1, <2>2, <2>4, <3>1, <4>3
    <3>2. CASE k # 0
      BY <1>1, <2>1, <2>2, <2>4, <3>2
    <3> QED
      BY <3>1, <3>2
  <2>6. Forecast(r, m, x)'
    <3>1. /\ w[k].len = req[r].num_tokens
          /\ w[L].len = req[r].num_tokens + req[r].num_output_placeholders
          /\ w[L].computed = req[r].num_computed_tokens
          /\ \A i \in (k + 1)..L :
               Advances(w[i - 1], w[i], pipeline[i].n[r], pipeline[i].spec[r])
          /\ \A i \in k..L : Placed(w[i], req[r].num_tokens)
          /\ \A i, j \in k..L : i <= j => w[i].len <= w[j].len
      BY <1>0, <1>10 DEF Follows, Forecast
    <3>2. x[L - 1] = w[L]
      BY <1>1, <2>4
    <3>3. \A i \in (m + 1)..(L - 1) :
            Advances(x[i - 1], x[i], pipeline'[i].n[r], pipeline'[i].spec[r])
      <4> SUFFICES ASSUME NEW i \in (m + 1)..(L - 1)
                   PROVE  Advances(x[i - 1], x[i], pipeline'[i].n[r], pipeline'[i].spec[r])
        OBVIOUS
      <4>1. /\ i \in 1..(L - 1) /\ i + 1 \in (k + 1)..L
            /\ x[i] = w[i + 1] /\ x[i - 1] = w[(i + 1) - 1]
        BY <1>1, <2>2, <2>4
      <4> QED
        BY <1>1, <3>1, <4>1
    <3>4. \A i \in m..(L - 1) : Placed(x[i], req[r].num_tokens)
      <4> SUFFICES ASSUME NEW i \in m..(L - 1) PROVE Placed(x[i], req[r].num_tokens)
        OBVIOUS
      <4>1. i + 1 \in k..L /\ x[i] = w[i + 1]
        BY <1>1, <2>2, <2>4
      <4> QED
        BY <3>1, <4>1
    <3>5. \A i, j \in m..(L - 1) : i <= j => x[i].len <= x[j].len
      <4> SUFFICES ASSUME NEW i \in m..(L - 1), NEW j \in m..(L - 1), i <= j
                   PROVE  x[i].len <= x[j].len
        OBVIOUS
      <4>1. /\ i + 1 \in k..L /\ x[i] = w[i + 1] /\ j + 1 \in k..L /\ x[j] = w[j + 1]
            /\ i + 1 <= j + 1
        BY <1>1, <2>2, <2>4
      <4> QED
        BY <3>1, <4>1
    <3> QED
      BY <1>1, <1>3, <2>5, <3>1, <3>2, <3>3, <3>4, <3>5 DEF Forecast
  <2>7. t[m] = s[k]
    BY <1>1, <1>5, <1>6, <2>1, <2>2
  <2>8. CASE k = 0
    <3>1. m = 0 /\ k + 1 = 1 /\ m + 1 = 1
      BY <2>1, <2>8
    <3>2. ~Added(r, k + 1) /\ \A j \in 2..L : ~Touched(r, j)
      <4>1. ~Added(r, 1)
        BY <1>2 DEF Added
      <4>2. \A j \in 2..L : j \in (k + 1)..L /\ j # k + 1
        BY <1>1, <2>8
      <4> QED
        BY <1>0, <1>10, <3>1, <4>1, <4>2 DEF Follows
    <3>3. w[k] = slots[r]
      BY <1>10, <3>2 DEF Follows
    <3>4. \A j \in 1..(L - 1) : ~Touched(r, j)'
      <4>1. \A j \in 1..(L - 1) : j + 1 \in 2..L
        BY <1>1
      <4> QED
        BY <1>9, <3>2, <4>1
    <3>5. ~Added(r, m + 1)'
      <4>1. 1 \in Pending' => 1 \in 1..(L - 1)
        BY <1>2
      <4> QED
        BY <3>1, <3>4, <4>1 DEF Added, Touched
    <3> QED
      BY <1>1, <1>3, <1>10, <2>2, <2>4, <2>5, <2>6, <2>7, <3>1, <3>3, <3>4, <3>5 DEF Follows
  <2>9. CASE k # 0
    <3>1. m = k - 1 /\ m + 1 = k /\ k + 1 \in Pending /\ Added(r, k + 1)
      BY <1>1, <1>10, <2>1, <2>9 DEF Follows, Added
    <3>2. k \in 1..(L - 1)
      BY <1>1, <1>2, <2>9, <3>1
    <3>3. Added(r, m + 1)' /\ pipeline'[m + 1].add[r] = pipeline[k + 1].add[r]
      BY <1>1, <1>9, <3>1, <3>2
    <3>4. \A j \in (m + 1)..(L - 1) : Touched(r, j)' => j = m + 1 /\ Added(r, j)'
      <4> SUFFICES ASSUME NEW j \in (m + 1)..(L - 1), Touched(r, j)'
                   PROVE  j = m + 1 /\ Added(r, j)'
        OBVIOUS
      <4>1. j \in 1..(L - 1) /\ j + 1 \in (k + 1)..L
        BY <1>1, <3>1, <3>2
      <4>2. Touched(r, j + 1)
        BY <1>9, <4>1
      <4>3. j + 1 = k + 1 /\ Added(r, j + 1)
        BY <1>0, <1>10, <4>1, <4>2 DEF Follows
      <4> QED
        BY <1>9, <3>1, <3>2, <4>1, <4>3
    <3>5. w[k] = pipeline[k + 1].add[r]
      BY <1>10, <3>1 DEF Follows
    <3> QED
      BY <1>1, <1>3, <1>10, <2>2, <2>4, <2>5, <2>6, <2>7, <3>3, <3>4, <3>5 DEF Follows
  <2> QED
    BY <2>8, <2>9
<1>11. req[r].status = "RUNNING" =>
         \E k \in 0..(L - 1) : \E x \in [0..(L - 1) -> Slot] : Follows(r, t, k, x)'
  BY <1>0, <1>3, <1>10 DEF LedgerOf
<1>12. Waits(r)' <=> Waits(r)
  BY <1>3 DEF Waits
<1>13. LedgerOf(r, t)'
  BY <1>0, <1>1, <1>3, <1>7, <1>8, <1>11, <1>12 DEF LedgerOf
<1> QED
  BY <1>13

-----------------------------------------------------------------------------
(* update_from_output() processes a request's share of the oldest step *)

\* Only r's share of the oldest step, and r's slot, are touched.
LEMMA DrainedStep ==
  ASSUME TypeOK, pipeline # <<>>, NEW r \in Requests, NEW accepted, NEW appended, NEW eos,
         UpdateRequest(r, accepted, appended, eos)
  PROVE  /\ Len(pipeline') = Len(pipeline) /\ 1 \in 1..Len(pipeline)
         /\ \A i \in 1..Len(pipeline) : i # 1 => pipeline'[i] = pipeline[i]
         /\ pipeline'[1].n = [pipeline[1].n EXCEPT ![r] = 0]
         /\ pipeline'[1].spec = pipeline[1].spec
         /\ pipeline'[1].add = pipeline[1].add /\ pipeline'[1].free = pipeline[1].free
         /\ pipeline[1].n[r] # 0 /\ pipeline'[1].n[r] = 0
         /\ slots'[r] = IF Samples(r)
              THEN [len |-> slots[r].len + accepted + 1,
                    computed |-> slots[r].computed + pipeline[1].n[r]
                                   - (pipeline[1].spec[r] - accepted)]
              ELSE [len |-> slots[r].len,
                    computed |-> slots[r].computed + pipeline[1].n[r]]
         /\ \A q \in Requests : q # r => slots'[q] = slots[q] /\ SameSteps(q)
         /\ Updating /\ Updating' /\ pc' = pc /\ pc = "update"
         /\ UNCHANGED <<preempted_req_ids, localVars>>
<1>1. pipeline' = [pipeline EXCEPT ![1].n[r] = 0] /\ pipeline[1].n[r] # 0
  BY DEF UpdateRequest
<1>2. pipeline[1] \in Step /\ 1 \in 1..Len(pipeline)
  BY PipelineUpdateTypes
<1>3. PICK m : m = [pipeline[1].n EXCEPT ![r] = 0]
  OBVIOUS
<1>4. m \in [Requests -> Int] /\ m[r] = 0 /\ \A q \in Requests : q # r => m[q] = pipeline[1].n[q]
  BY <1>2, <1>3 DEF Step
<1>5. PICK e : e = [pipeline[1] EXCEPT !.n = m]
  OBVIOUS
<1>6. /\ e.n = m /\ e.spec = pipeline[1].spec /\ e \in Step
      /\ e.add = pipeline[1].add /\ e.free = pipeline[1].free
  BY <1>2, <1>4, <1>5 DEF Step
<1>7. pipeline' = [pipeline EXCEPT ![1] = e]
  BY <1>1, <1>3, <1>5, Zenon
<1>8. /\ Len(pipeline') = Len(pipeline) /\ pipeline'[1] = e
      /\ \A i \in 1..Len(pipeline) : i # 1 => pipeline'[i] = pipeline[i]
  <2>1. pipeline \in Seq(Step)
    BY DEF TypeOK
  <2> QED
    BY <1>2, <1>6, <1>7, <2>1, ExceptSeq
<1>9. /\ pc = "update" /\ pc' = pc /\ UNCHANGED <<preempted_req_ids, localVars>>
      /\ ExecuteRequest(r, accepted)
  BY DEF UpdateRequest
<1>10. Updating /\ Updating'
  BY <1>9 DEF Updating
<1> DEFINE after == IF Samples(r)
              THEN [len |-> slots[r].len + accepted + 1,
                    computed |-> slots[r].computed + pipeline[1].n[r]
                                   - (pipeline[1].spec[r] - accepted)]
              ELSE [len |-> slots[r].len,
                    computed |-> slots[r].computed + pipeline[1].n[r]]
<1>11. slots' = [slots EXCEPT ![r] = after]
  BY <1>9, Zenon DEF ExecuteRequest
<1>12. slots'[r] = after /\ \A q \in Requests : q # r => slots'[q] = slots[q]
  <2> HIDE DEF after
  <2> QED
    BY <1>11 DEF TypeOK
<1>13. ASSUME NEW q \in Requests, q # r PROVE SameSteps(q)
  <2>1. slots'[q] = slots[q] /\ Updating' = Updating
    BY <1>10, <1>12, <1>13
  <2>2. \A i \in 1..Len(pipeline) :
         /\ pipeline'[i].n[q] = pipeline[i].n[q] /\ pipeline'[i].spec[q] = pipeline[i].spec[q]
         /\ pipeline'[i].add[q] = pipeline[i].add[q]
         /\ (q \in pipeline'[i].free) = (q \in pipeline[i].free)
    BY <1>4, <1>6, <1>8, <1>13
  <2> QED
    BY <1>8, <2>1, <2>2 DEF SameSteps
<1> QED
  BY <1>1, <1>2, <1>3, <1>4, <1>6, <1>8, <1>9, <1>10, <1>12, <1>13

\* The sums of r lose its share of the oldest step.
LEMMA DrainedSums ==
  ASSUME TypeOK, NEW r \in Requests, NEW s, SumsOf(s, r), 1 \in 1..Len(pipeline),
         Len(pipeline') = Len(pipeline), pipeline'[1].n[r] = 0,
         \A i \in 1..Len(pipeline) : i # 1 => pipeline'[i] = pipeline[i]
  PROVE  /\ s[1] = pipeline[1].n[r] /\ pipeline[1].n[r] >= 0
         /\ \E t : /\ SumsOf(t, r)' /\ t[0] = 0
                   /\ \A i \in 1..Len(pipeline) : t[i] = s[i] - pipeline[1].n[r]
<1>0. PICK L, n : L = Len(pipeline) /\ n = pipeline[1].n[r]
  OBVIOUS
<1>1. L \in Nat /\ L >= 1 /\ n \in Int
  BY <1>0, StepTypes
<1>2. /\ s \in [0..L -> Nat] /\ s[0] = 0
      /\ \A i \in 1..L : s[i] = s[i - 1] + pipeline[i].n[r]
      /\ \A i, j \in 0..L : i <= j => s[i] <= s[j]
  BY <1>0 DEF SumsOf
<1>3. s[1] = n /\ n >= 0
  <2>1. 1 \in 1..L /\ s[1] = s[1 - 1] + pipeline[1].n[r] /\ 1 - 1 = 0 /\ s[1] \in Nat
    BY <1>1, <1>2
  <2> QED
    BY <1>0, <1>1, <1>2, <2>1
<1>4. \A i \in 1..L : s[i] >= n /\ s[i] - n \in Nat
  <2> SUFFICES ASSUME NEW i \in 1..L PROVE s[i] >= n /\ s[i] - n \in Nat
    OBVIOUS
  <2>1. 1 \in 0..L /\ i \in 0..L /\ 1 <= i
    BY <1>1
  <2>2. s[1] <= s[i] /\ s[i] \in Nat
    BY <1>2, <2>1
  <2> QED
    BY <1>1, <1>3, <2>2
<1>5. PICK t : t = [i \in 0..L |-> IF i = 0 THEN 0 ELSE s[i] - n]
  OBVIOUS
<1>6. t \in [0..L -> Nat] /\ t[0] = 0 /\ \A i \in 1..L : t[i] = s[i] - n
  <2>1. \A i \in 0..L : i # 0 => i \in 1..L
    BY <1>1
  <2> QED
    BY <1>1, <1>4, <1>5, <2>1
<1>7. \A i \in 1..L : t[i] = t[i - 1] + pipeline'[i].n[r]
  <2> SUFFICES ASSUME NEW i \in 1..L PROVE t[i] = t[i - 1] + pipeline'[i].n[r]
    OBVIOUS
  <2>1. CASE i = 1
    <3>1. i - 1 = 0
      BY <2>1
    <3> QED
      BY <1>1, <1>3, <1>6, <2>1, <3>1
  <2>2. CASE i # 1
    <3>1. i - 1 \in 1..L /\ i - 1 \in 0..L /\ i \in 0..L
      BY <1>1, <2>2
    <3>2. pipeline'[i] = pipeline[i] /\ pipeline[i].n[r] \in Int
      BY <1>0, <2>2, StepTypes
    <3>3. s[i] = s[i - 1] + pipeline[i].n[r] /\ s[i] \in Int /\ s[i - 1] \in Int
      BY <1>2, <3>1
    <3>4. t[i] = s[i] - n /\ t[i - 1] = s[i - 1] - n
      BY <1>6, <3>1
    <3> QED
      BY <1>1, <3>2, <3>3, <3>4
  <2> QED
    BY <2>1, <2>2
<1>8. \A i, j \in 0..L : i <= j => t[i] <= t[j]
  <2> SUFFICES ASSUME NEW i \in 0..L, NEW j \in 0..L, i <= j PROVE t[i] <= t[j]
    OBVIOUS
  <2>1. CASE i = 0
    BY <1>6, <2>1
  <2>2. CASE i # 0
    <3>1. i \in 1..L /\ j \in 1..L
      BY <1>1, <2>2
    <3>2. s[i] <= s[j] /\ s[i] \in Int /\ s[j] \in Int
      BY <1>1, <1>2, <3>1
    <3>3. t[i] = s[i] - n /\ t[j] = s[j] - n
      BY <1>6, <3>1
    <3> QED
      BY <1>1, <3>2, <3>3
  <2> QED
    BY <2>1, <2>2
<1>9. SumsOf(t, r)'
  BY <1>0, <1>6, <1>7, <1>8 DEF SumsOf
<1> QED
  BY <1>0, <1>3, <1>6, <1>9

\* The slot shifted back by the drafts the worker rejected.
Shifted(u, rejected) == [len |-> u.len - rejected, computed |-> u.computed - rejected]

\* A step advances the shifted slot just as it did the slot.
LEMMA ShiftedAdvances ==
  ASSUME NEW u \in Slot, NEW v \in Slot, NEW n \in Int, NEW spec \in Int, NEW j \in Int,
         Advances(u, v, n, spec)
  PROVE  /\ Shifted(u, j) \in Slot /\ Shifted(v, j) \in Slot
         /\ Advances(Shifted(u, j), Shifted(v, j), n, spec)
<1>1. /\ u.len \in Int /\ u.computed \in Int /\ v.len \in Int /\ v.computed \in Int
  BY DEF Slot
<1>2. PICK x : x = Shifted(u, j)
  OBVIOUS
<1>3. PICK y : y = Shifted(v, j)
  OBVIOUS
<1>4. /\ x.len = u.len - j /\ x.computed = u.computed - j
      /\ y.len = v.len - j /\ y.computed = v.computed - j
      /\ x \in Slot /\ y \in Slot /\ (u = v => x = y)
  BY <1>1, <1>2, <1>3 DEF Shifted, Slot
<1>5. Advances(x, y, n, spec)
  BY <1>1, <1>4 DEF Advances
<1> QED
  BY <1>2, <1>3, <1>4, <1>5

\* What the oldest step makes of the slot the worker has, for a request whose
\* forecast starts there: the sampled tokens are the ones its forecast promised,
\* less the rejected drafts.
LEMMA DrainedSlot ==
  ASSUME NEW u \in Slot, NEW v \in Slot, NEW n \in Int, NEW spec \in Int, n > 0,
         Advances(u, v, n, spec), NEW accepted \in Int, NEW samples \in BOOLEAN,
         samples <=> u.computed + n >= u.len, accepted \in 0..spec, ~samples => accepted = 0
  PROVE  LET rejected == IF samples THEN spec - accepted ELSE 0
         IN  /\ rejected \in Nat
             /\ Shifted(v, rejected) =
                  IF samples
                  THEN [len |-> u.len + accepted + 1,
                        computed |-> u.computed + n - (spec - accepted)]
                  ELSE [len |-> u.len, computed |-> u.computed + n]
             /\ samples => v.len = u.len + 1 + spec
             /\ ~samples => v.len = u.len
<1>1. /\ u.len \in Int /\ u.computed \in Int /\ v.len \in Int /\ v.computed \in Int
  BY DEF Slot
<1>2. CASE samples
  <2>1. /\ v.computed = u.computed + n /\ v.len = u.len + 1 + spec
    BY <1>1, <1>2 DEF Advances
  <2> QED
    BY <1>1, <1>2, <2>1 DEF Shifted
<1>3. CASE ~samples
  <2>1. v.computed = u.computed + n /\ v.len = u.len
    BY <1>1, <1>3 DEF Advances
  <2> QED
    BY <1>1, <1>3, <2>1 DEF Shifted
<1> QED
  BY <1>2, <1>3

\* The forecast of a request whose output was delivered, behind the tokens it got.
LEMMA DrainedForecast ==
  ASSUME TypeOK, NEW r \in Requests, NEW w \in [0..Len(pipeline) -> Slot],
         1 \in 1..Len(pipeline), Len(pipeline') = Len(pipeline),
         \A i \in 1..Len(pipeline) : i # 1 => pipeline'[i] = pipeline[i],
         pipeline'[1].n[r] = 0, Forecast(r, 0, w),
         NEW rejected \in Nat, NEW appended \in Nat,
         w[1].len = w[0].len + appended + rejected,
         appended = 0 => rejected = 0, 0 < req[r].num_tokens,
         req'[r].num_tokens = req[r].num_tokens + appended,
         req'[r].num_computed_tokens =
           IF req[r].num_computed_tokens > 0
           THEN req[r].num_computed_tokens - rejected ELSE req[r].num_computed_tokens,
         req'[r].num_output_placeholders =
           (IF req[r].num_output_placeholders > 0
            THEN req[r].num_output_placeholders - rejected
            ELSE req[r].num_output_placeholders) - appended
  PROVE  \E x \in [0..Len(pipeline) -> Slot] :
           x[0] = Shifted(w[1], rejected) /\ Forecast(r, 0, x)'
<1>0. PICK L, T, P, C : /\ L = Len(pipeline) /\ T = req[r].num_tokens
                        /\ P = req[r].num_output_placeholders
                        /\ C = req[r].num_computed_tokens
  OBVIOUS
<1>1. L \in Nat /\ L >= 1 /\ T \in Int /\ P \in Int /\ C \in Int
  BY <1>0, StepTypes, FieldTypes
<1>2. /\ w[0].len = T /\ w[L].len = T + P /\ w[L].computed = C
      /\ \A i \in 0..L : Placed(w[i], T)
      /\ \A i, j \in 0..L : i <= j => w[i].len <= w[j].len
  BY <1>0 DEF Forecast
<1>3. \A i \in 1..L : Advances(w[i - 1], w[i], pipeline[i].n[r], pipeline[i].spec[r])
  BY <1>0 DEF Forecast
<1>4. \A i \in 0..L : w[i] \in Slot /\ w[i].len \in Int /\ w[i].computed \in Int
  BY <1>0 DEF Slot
<1>5. PICK y : y = Shifted(w[1], rejected)
  OBVIOUS
<1>6. PICK x : x = [i \in 0..L |-> IF i = 0 THEN y ELSE Shifted(w[i], rejected)]
  OBVIOUS
<1>7. 1 \in 0..L /\ L \in 0..L /\ L \in 1..L
  BY <1>1
<1>8. \A i \in 1..L : i \in 0..L
  BY <1>1
<1>9. \A i \in 0..L : Shifted(w[i], rejected) \in Slot
  BY <1>4 DEF Shifted, Slot
<1>10. /\ x \in [0..L -> Slot] /\ x[0] = y /\ x[1] = y /\ y \in Slot
       /\ \A i \in 1..L : x[i] = Shifted(w[i], rejected)
  BY <1>1, <1>5, <1>6, <1>7, <1>8, <1>9
<1>11. w[1].len = T + appended + rejected
  <2>1. w[1].len \in Int /\ w[0].len = T
    BY <1>2, <1>4, <1>7
  <2> QED
    BY <1>1, <2>1
<1>12. \A i \in 1..L : w[1].len <= w[i].len
  BY <1>2, <1>7, <1>8
<1>13. \A i \in 1..L : /\ x[i].len = w[i].len - rejected
                       /\ x[i].computed = w[i].computed - rejected
                       /\ x[i].len \in Int /\ x[i].computed \in Int
  <2> SUFFICES ASSUME NEW i \in 1..L
               PROVE  /\ x[i].len = w[i].len - rejected
                      /\ x[i].computed = w[i].computed - rejected
                      /\ x[i].len \in Int /\ x[i].computed \in Int
    OBVIOUS
  <2>1. w[i].len \in Int /\ w[i].computed \in Int /\ x[i] = Shifted(w[i], rejected)
    BY <1>4, <1>8, <1>10
  <2> QED
    BY <2>1 DEF Shifted
<1>14. ASSUME NEW i \in 1..L
       PROVE  Placed(x[i], T + appended)
  <2>1. /\ w[i].len >= T + appended + rejected /\ w[i].len \in Int /\ w[i].computed \in Int
        /\ x[i].len = w[i].len - rejected /\ x[i].computed = w[i].computed - rejected
    BY <1>4, <1>8, <1>11, <1>12, <1>13
  <2>2. Placed(w[i], T)
    BY <1>2, <1>8
  <2>3. 0 < T
    BY <1>0
  <2> QED
    BY <1>1, <2>1, <2>2, <2>3, SMTT(30) DEF Placed
<1>15. \A i \in 0..L : i # 0 => i \in 1..L
  BY <1>1
<1>16. \A i \in 0..L : Placed(x[i], T + appended)
  BY <1>7, <1>10, <1>14, <1>15
<1>17. \A i, j \in 0..L : i <= j => x[i].len <= x[j].len
  <2>1. ASSUME NEW i \in 1..L, NEW j \in 1..L, i <= j PROVE x[i].len <= x[j].len
    <3>1. w[i].len <= w[j].len /\ w[i].len \in Int /\ w[j].len \in Int
      BY <1>2, <1>4, <1>8, <2>1
    <3> QED
      BY <1>13, <3>1
  <2> SUFFICES ASSUME NEW i \in 0..L, NEW j \in 0..L, i <= j PROVE x[i].len <= x[j].len
    OBVIOUS
  <2>2. CASE i = 0 /\ j = 0
    BY <1>7, <1>10, <1>13, <2>2
  <2>3. CASE i = 0 /\ j # 0
    <3>1. x[i] = x[1] /\ j \in 1..L /\ 1 <= j /\ 1 \in 1..L
      BY <1>1, <1>10, <1>15, <2>3
    <3> QED
      BY <2>1, <3>1
  <2>4. CASE i # 0
    <3>1. i \in 1..L /\ j \in 1..L
      BY <1>1, <2>4
    <3> QED
      BY <2>1, <3>1
  <2> QED
    BY <2>2, <2>3, <2>4
<1>18. ASSUME NEW i \in 1..L
       PROVE  Advances(x[i - 1], x[i], pipeline'[i].n[r], pipeline'[i].spec[r])
  <2>1. CASE i = 1
    <3>1. i - 1 = 0 /\ x[i - 1] = x[i] /\ pipeline'[i].n[r] = 0
      BY <1>10, <2>1
    <3> QED
      BY <3>1 DEF Advances
  <2>2. CASE i # 1
    <3>1. i - 1 \in 1..L /\ i - 1 \in 0..L /\ i \in 0..L
      BY <1>1, <2>2
    <3>2. pipeline'[i] = pipeline[i] /\ pipeline[i].n[r] \in Int /\ pipeline[i].spec[r] \in Int
      BY <1>0, <2>2, StepTypes
    <3>3. Advances(w[i - 1], w[i], pipeline[i].n[r], pipeline[i].spec[r])
      BY <1>3
    <3>4. w[i - 1] \in Slot /\ w[i] \in Slot /\ rejected \in Int
      BY <1>4, <3>1
    <3>5. Advances(Shifted(w[i - 1], rejected), Shifted(w[i], rejected),
                   pipeline[i].n[r], pipeline[i].spec[r])
      BY <3>2, <3>3, <3>4, ShiftedAdvances
    <3> QED
      BY <1>10, <3>1, <3>2, <3>5
  <2> QED
    BY <2>1, <2>2
<1>19. /\ x[L].len = T + P - rejected /\ x[L].computed = C - rejected
  <2>1. x[L].len = w[L].len - rejected /\ x[L].computed = w[L].computed - rejected
    BY <1>7, <1>13
  <2>2. w[L].len = T + P /\ w[L].computed = C
    BY <1>2
  <2>3. w[L].len - rejected = T + P - rejected
    BY <1>1, <2>2
  <2>4. w[L].computed - rejected = C - rejected
    BY <2>2
  <2> QED
    BY <2>1, <2>3, <2>4
<1>20. /\ req'[r].num_tokens = T + appended
       /\ req'[r].num_computed_tokens = C - rejected
       /\ T + appended + req'[r].num_output_placeholders = T + P - rejected
  <2>1. CASE appended = 0
    BY <1>0, <1>1, <2>1
  <2>2. CASE appended # 0
    <3>1. w[L].len >= T + appended + rejected /\ 0 < T
      BY <1>0, <1>7, <1>11, <1>12
    <3>2. P > 0 /\ C > 0
      <4>1. Placed(w[L], T)
        BY <1>2, <1>7
      <4> QED
        BY <1>1, <1>2, <2>2, <3>1, <4>1 DEF Placed
    <3> QED
      BY <1>0, <1>1, <3>2
  <2> QED
    BY <2>1, <2>2
<1>21. x[0].len = T + appended
  BY <1>2, <1>4, <1>7, <1>10, <1>11, <1>13
<1>22. \A i \in (0 + 1)..L : i \in 1..L
  OBVIOUS
<1>23. Forecast(r, 0, x)'
  BY <1>0, <1>16, <1>17, <1>18, <1>19, <1>20, <1>21, <1>22 DEF Forecast
<1> QED
  BY <1>0, <1>5, <1>10, <1>23

\* The case analysis of update_from_output() for a request.
LEMMA DrainedCases ==
  ASSUME NEW r \in Requests, NEW accepted \in Int, NEW appended \in Int, NEW eos \in BOOLEAN,
         UpdateRequest(r, accepted, appended, eos)
  PROVE  LET spec == pipeline[1].spec[r]
             rejected == IF Samples(r) THEN spec - accepted ELSE 0
         IN  /\ accepted \in 0..spec /\ ~Samples(r) => accepted = 0
             /\ \/ ~Live(r) /\ req' = req /\ UNCHANGED finished_req_ids
                \/ /\ Live(r) /\ IsStale(r) /\ req[r].drop_stale_output
                   /\ req' = [req EXCEPT ![r] = Counted(r)] /\ UNCHANGED finished_req_ids
                \/ /\ Live(r) /\ ~(IsStale(r) /\ req[r].drop_stale_output)
                   /\ req' = [req EXCEPT ![r] = Corrected(r, rejected, appended)]
                   /\ UNCHANGED finished_req_ids
                   /\ appended = IF Samples(r) THEN accepted + 1 ELSE 0
                   /\ Samples(r) => ~AtLengthLimit(req[r].num_tokens + appended)
                \/ Live(r) /\ FinishRequest(r)
<1> DEFINE spec == pipeline[1].spec[r]
           sampled == IF Samples(r) THEN accepted + 1 ELSE 0
           dropped == IsStale(r) /\ req[r].drop_stale_output
           stopped == sampled > 0 /\ (eos \/ AtLengthLimit(req[r].num_tokens + appended))
           rejected == IF Samples(r) THEN spec - accepted ELSE 0
           given == IF sampled > 0 THEN spec - accepted ELSE 0
<1>1. accepted \in 0..spec /\ (~Samples(r) => accepted = 0)
  BY DEF UpdateRequest
<1>2. (sampled > 0 <=> Samples(r)) /\ given = rejected
  BY <1>1
<1>3. IF sampled = 0 \/ ~Live(r) \/ dropped THEN appended = 0 /\ ~eos
      ELSE appended \in 1..sampled /\ (appended < sampled => stopped)
  BY DEF UpdateRequest
<1>4. \/ ~Live(r) /\ UNCHANGED <<req, queueVars, blockVars, finished_req_ids>>
      \/ /\ Live(r) /\ dropped /\ req' = [req EXCEPT ![r] = Counted(r)]
         /\ UNCHANGED <<queueVars, blockVars, finished_req_ids>>
      \/ /\ Live(r) /\ ~dropped /\ ~stopped
         /\ req' = [req EXCEPT ![r] = Corrected(r, given, appended)]
         /\ UNCHANGED <<queueVars, blockVars, finished_req_ids>>
      \/ Live(r) /\ ~dropped /\ stopped /\ FinishRequest(r)
  BY Zenon DEF UpdateRequest
<1>5. ASSUME Live(r), ~dropped, ~stopped
      PROVE  /\ appended = sampled
             /\ Samples(r) => ~AtLengthLimit(req[r].num_tokens + appended)
  <2>1. sampled \in Int /\ (sampled = 0 => appended = 0)
    BY <1>3
  <2>2. sampled # 0 => appended \in 1..sampled /\ ~(appended < sampled)
    BY <1>3, <1>5
  <2>3. Samples(r) => ~AtLengthLimit(req[r].num_tokens + appended)
    BY <1>2, <1>5
  <2> HIDE DEF sampled, stopped, dropped
  <2> QED
    BY <2>1, <2>2, <2>3
<1> HIDE DEF stopped, given
<1> QED
  BY <1>1, <1>2, <1>4, <1>5

\* Processing a request's share of the oldest step keeps its ledger: dropped output
\* drains both counters, delivered output moves the forecast to what was accepted.
LEMMA DrainedLedger ==
  ASSUME TypeOK, pipeline # <<>>, NEW r \in Requests, NEW s, LedgerOf(r, s),
         NEW accepted \in Int, NEW appended \in Int, NEW eos \in BOOLEAN,
         UpdateRequest(r, accepted, appended, eos)
  PROVE  \E t : LedgerOf(r, t)'
<1>0. PICK L, n, spec : L = Len(pipeline) /\ n = pipeline[1].n[r] /\ spec = pipeline[1].spec[r]
  OBVIOUS
<1>1. /\ L \in Nat /\ L >= 1 /\ 1 \in 1..L /\ n \in Int /\ spec \in Int /\ MaxModelLen \in Int
  BY <1>0, StepTypes, DrainedStep, ConstantsOK
<1>2. /\ Len(pipeline') = L /\ pipeline'[1].n[r] = 0 /\ n # 0
      /\ \A i \in 1..L : i # 1 => pipeline'[i] = pipeline[i]
      /\ pipeline'[1].add = pipeline[1].add /\ pipeline'[1].free = pipeline[1].free
      /\ Updating /\ Updating' /\ UNCHANGED preempted_req_ids /\ pc = "update" /\ pc' = pc
  BY <1>0, DrainedStep
<1>3. SumsOf(s, r) /\ s \in [0..L -> Nat] /\ s[0] = 0
  BY <1>0 DEF LedgerOf, SumsOf
<1>4. s[1] = n /\ n > 0
  <2>1. s[1] = n /\ n >= 0
    BY <1>0, <1>1, <1>2, <1>3, DrainedSums
  <2> QED
    BY <1>1, <1>2, <2>1
<1>5. PICK t : SumsOf(t, r)' /\ t[0] = 0 /\ \A i \in 1..L : t[i] = s[i] - n
  BY <1>0, <1>1, <1>2, <1>3, DrainedSums
<1>6. /\ \A i \in 1..L : s[i] >= n /\ s[i] \in Int
      /\ s[L] >= n /\ s[L] \in Int /\ t[L] = s[L] - n
  <2>1. \A i, j \in 0..L : i <= j => s[i] <= s[j]
    BY <1>0, <1>3 DEF SumsOf
  <2>2. ASSUME NEW i \in 1..L PROVE s[i] >= n /\ s[i] \in Int
    <3>1. 1 \in 0..L /\ i \in 0..L /\ 1 <= i
      BY <1>1
    <3>2. s[1] <= s[i] /\ s[i] \in Nat
      BY <1>3, <2>1, <3>1
    <3> QED
      BY <1>1, <1>4, <3>2
  <2>3. L \in 1..L
    BY <1>1
  <2> QED
    BY <1>5, <2>2, <2>3
<1>7. ~Joining(r) /\ ~Joining(r)' /\ ~InSchedule'
  BY <1>2 DEF Joining, InSchedule
<1>8. PICK rejected : rejected = IF Samples(r) THEN spec - accepted ELSE 0
  OBVIOUS
<1>9. accepted \in 0..spec /\ (~Samples(r) => accepted = 0)
  BY <1>0 DEF UpdateRequest
<1>10. /\ req[r].num_tokens \in Int /\ req[r].num_computed_tokens \in Int
       /\ req[r].num_in_flight_tokens \in Int /\ req[r].num_stale_output_tokens \in Int
       /\ req[r].num_output_placeholders \in Int /\ slots[r] \in Slot
       /\ req \in [Requests -> ReqFields]
  BY FieldTypes DEF TypeOK
<1>11. CASE ~Live(r) /\ req' = req /\ UNCHANGED finished_req_ids
  <2>1. req[r].status \in {"NEW", "FINISHED"}
    BY <1>10, <1>11 DEF Live, ReqFields
  <2>2. req[r].status # "NEW"
    <3>1. req[r].status = "NEW" => req[r].num_in_flight_tokens = 0 /\ req[r].num_in_flight_tokens = s[L]
      BY <1>0 DEF LedgerOf
    <3> QED
      BY <1>1, <1>4, <1>6, <3>1
  <2> QED
    BY <1>5, <1>7, <1>11, <2>1, <2>2 DEF LedgerOf, Waits
<1>12. CASE FinishRequest(r)
  <2>1. req'[r].status = "FINISHED"
    BY <1>10, <1>12 DEF FinishRequest, Blank
  <2> QED
    BY <1>5, <1>7, <2>1 DEF LedgerOf, Waits
<1>13. ASSUME Live(r), UNCHANGED finished_req_ids,
              \/ /\ IsStale(r) /\ req[r].drop_stale_output
                 /\ req' = [req EXCEPT ![r] = Counted(r)]
              \/ /\ ~(IsStale(r) /\ req[r].drop_stale_output)
                 /\ req' = [req EXCEPT ![r] = Corrected(r, rejected, appended)]
                 /\ appended = IF Samples(r) THEN accepted + 1 ELSE 0
                 /\ Samples(r) => ~AtLengthLimit(req[r].num_tokens + appended)
       PROVE  LedgerOf(r, t)'
  <2>1. PICK a : a = IF IsStale(r) /\ req[r].drop_stale_output THEN 0 ELSE appended
    OBVIOUS
  <2>2. /\ req'[r].status = req[r].status /\ req'[r].num_tokens = req[r].num_tokens + a
        /\ req'[r].num_in_flight_tokens = req[r].num_in_flight_tokens - n
        /\ req'[r].num_stale_output_tokens =
             IF IsStale(r) THEN req[r].num_stale_output_tokens - n
             ELSE req[r].num_stale_output_tokens
        /\ req'[r].drop_stale_output = req[r].drop_stale_output
        /\ req'[r].spec_token_ids = req[r].spec_token_ids
        /\ IsStale(r) \/ req[r].num_computed_tokens = 0 =>
             req'[r].num_computed_tokens = req[r].num_computed_tokens
        /\ IsStale(r) => req'[r].num_output_placeholders = req[r].num_output_placeholders
        /\ ~IsStale(r) =>
             /\ req'[r].num_computed_tokens =
                  IF req[r].num_computed_tokens > 0
                  THEN req[r].num_computed_tokens - rejected ELSE req[r].num_computed_tokens
             /\ req'[r].num_output_placeholders =
                  (IF req[r].num_output_placeholders > 0
                   THEN req[r].num_output_placeholders - rejected
                   ELSE req[r].num_output_placeholders) - appended
    <3>1. CASE IsStale(r) /\ req[r].drop_stale_output
      <4>1. req'[r] = Counted(r) /\ a = 0
        BY <1>10, <1>13, <2>1, <3>1
      <4>2. /\ Counted(r).status = req[r].status
            /\ Counted(r).num_tokens = req[r].num_tokens
            /\ Counted(r).num_computed_tokens = req[r].num_computed_tokens
            /\ Counted(r).num_in_flight_tokens = req[r].num_in_flight_tokens - n
            /\ Counted(r).num_stale_output_tokens = req[r].num_stale_output_tokens - n
            /\ Counted(r).drop_stale_output = req[r].drop_stale_output
            /\ Counted(r).num_output_placeholders = req[r].num_output_placeholders
            /\ Counted(r).spec_token_ids = req[r].spec_token_ids
        BY <1>0, <3>1, CountedFields
      <4>3. req[r].num_tokens + 0 = req[r].num_tokens
        BY <1>10
      <4> QED
        BY <3>1, <4>1, <4>2, <4>3
    <3>2. CASE ~(IsStale(r) /\ req[r].drop_stale_output)
      <4>1. req'[r] = Corrected(r, rejected, appended) /\ a = appended
        BY <1>10, <1>13, <2>1, <3>2
      <4>2. /\ Counted(r).num_in_flight_tokens = req[r].num_in_flight_tokens - n
            /\ Counted(r).num_stale_output_tokens =
                 IF IsStale(r) THEN req[r].num_stale_output_tokens - n
                 ELSE req[r].num_stale_output_tokens
        BY <1>0, CountedFields
      <4> QED
        BY <1>10, <4>1, <4>2, CorrectedFields
    <3> QED
      BY <3>1, <3>2
  <2>3. /\ req[r].num_in_flight_tokens = s[L] /\ 0 < req[r].num_tokens
        /\ req[r].num_tokens < MaxModelLen /\ req[r].spec_token_ids >= 0
    BY <1>0, <1>13 DEF LedgerOf, Live
  <2>4. a \in Nat /\ req[r].num_tokens + a < MaxModelLen
    <3>1. CASE a = 0
      BY <1>10, <2>3, <3>1
    <3>2. CASE a # 0
      <4>1. a = accepted + 1 /\ ~AtLengthLimit(req[r].num_tokens + a)
        BY <1>13, <2>1, <3>2
      <4> QED
        BY <1>1, <1>9, <1>10, <4>1 DEF AtLengthLimit
    <3> QED
      BY <3>1, <3>2
  <2>5. IsStale(r) <=> req[r].num_stale_output_tokens > 0
    BY DEF IsStale
  <2>6. Waits(r)' <=> Waits(r)
    BY <2>2 DEF Waits
  <2>7. Waits(r) => /\ req'[r].num_stale_output_tokens = t[L]
                    /\ req'[r].num_output_placeholders = 0 /\ req'[r].num_computed_tokens = 0
    <3> SUFFICES ASSUME Waits(r)
                 PROVE  /\ req'[r].num_stale_output_tokens = t[L]
                        /\ req'[r].num_output_placeholders = 0
                        /\ req'[r].num_computed_tokens = 0
      OBVIOUS
    <3>1. /\ req[r].num_stale_output_tokens = s[L]
          /\ req[r].num_output_placeholders = 0 /\ req[r].num_computed_tokens = 0
      BY <1>0 DEF LedgerOf
    <3>2. IsStale(r)
      BY <1>1, <1>4, <1>6, <2>5, <3>1
    <3> QED
      BY <1>6, <2>2, <3>1, <3>2
  <2>8. req[r].status = "RUNNING" =>
          /\ req'[r].num_computed_tokens < MaxModelLen
          /\ req'[r].num_stale_output_tokens > 0 => req'[r].drop_stale_output
          /\ \E k \in 0..L : \E x \in [0..L -> Slot] : Follows(r, t, k, x)'
    <3> SUFFICES ASSUME req[r].status = "RUNNING"
                 PROVE  /\ req'[r].num_computed_tokens < MaxModelLen
                        /\ req'[r].num_stale_output_tokens > 0 => req'[r].drop_stale_output
                        /\ \E k \in 0..L : \E x \in [0..L -> Slot] : Follows(r, t, k, x)'
      OBVIOUS
    <3>1. /\ req[r].num_computed_tokens < MaxModelLen
          /\ req[r].num_stale_output_tokens > 0 => req[r].drop_stale_output
      BY DEF LedgerOf
    <3>2. PICK k \in 0..L, w \in [0..L -> Slot] : Follows(r, s, k, w)
      BY <1>0, <1>7 DEF LedgerOf
    <3>3. \A j : (Added(r, j)' <=> Added(r, j)) /\ (Touched(r, j)' <=> Touched(r, j))
      <4>1. Pending = 2..L /\ Pending' = 2..L
        BY <1>0, <1>1, <1>2 DEF Pending
      <4>2. \A j : j \in 2..L => j \in 1..L /\ j # 1
        BY <1>1
      <4> QED
        BY <1>2, <4>1, <4>2 DEF Added, Touched
    <3>4. req[r].num_stale_output_tokens = s[k]
      BY <3>2 DEF Follows
    <3>5. CASE IsStale(r)
      <4>1. k # 0 /\ k \in 1..L
        BY <1>1, <1>3, <2>5, <3>4, <3>5
      <4>2. req'[r].num_stale_output_tokens = t[k]
        BY <1>5, <2>2, <3>4, <3>5, <4>1
      <4>3. req[r].drop_stale_output
        BY <2>5, <3>1, <3>5
      <4>4. a = 0
        BY <2>1, <3>5, <4>3
      <4>5. /\ req'[r].num_tokens = req[r].num_tokens
            /\ req'[r].num_computed_tokens = req[r].num_computed_tokens
            /\ req'[r].num_output_placeholders = req[r].num_output_placeholders
        BY <1>10, <2>2, <3>5, <4>4
      <4>6. Forecast(r, k, w)'
        <5>1. \A i \in (k + 1)..L : i \in 1..L /\ i # 1
          BY <1>1, <4>1
        <5> QED
          BY <1>0, <1>2, <3>2, <4>5, <5>1 DEF Follows, Forecast
      <4>7. Added(r, k + 1) /\ k + 1 \in 1..L /\ k + 1 # 1
        BY <1>0, <1>1, <3>2, <4>1 DEF Follows, Added, Pending
      <4>8. w[k] = pipeline'[k + 1].add[r]
        BY <1>2, <3>2, <4>7 DEF Follows
      <4>9. Follows(r, t, k, w)'
        BY <1>0, <1>2, <3>2, <3>3, <4>2, <4>6, <4>7, <4>8 DEF Follows
      <4> QED
        BY <2>2, <3>1, <4>3, <4>5, <4>9
    <3>6. CASE ~IsStale(r)
      <4>1. k = 0
        <5>1. k # 0 => s[k] >= n /\ s[k] \in Int
          BY <1>1, <1>6
        <5> QED
          BY <1>1, <1>4, <2>5, <3>4, <3>6, <5>1
      <4>2. ~Added(r, 1)
        BY <1>2 DEF Added, Pending
      <4>3. w[0] = slots[r] /\ Forecast(r, 0, w)
        BY <3>2, <4>1, <4>2 DEF Follows
      <4>4. Advances(w[0], w[1], n, spec) /\ w[0].len = req[r].num_tokens
        <5>1. 1 \in (0 + 1)..Len(pipeline) /\ 1 - 1 = 0
          BY <1>0, <1>1
        <5> QED
          BY <1>0, <4>3, <5>1 DEF Forecast
      <4>5. w[0] \in Slot /\ w[1] \in Slot /\ w[0].len \in Int
        BY <1>1, <1>10, <4>3 DEF Slot
      <4>6. Samples(r) <=> w[0].computed + n >= w[0].len
        BY <1>0, <4>3 DEF Samples
      <4>7. PICK samples \in BOOLEAN : samples <=> Samples(r)
        OBVIOUS
      <4>8. /\ rejected \in Nat
            /\ Shifted(w[1], rejected) =
                 IF Samples(r)
                 THEN [len |-> w[0].len + accepted + 1,
                       computed |-> w[0].computed + n - (spec - accepted)]
                 ELSE [len |-> w[0].len, computed |-> w[0].computed + n]
            /\ Samples(r) => w[1].len = w[0].len + 1 + spec
            /\ ~Samples(r) => w[1].len = w[0].len
        BY <1>1, <1>4, <1>8, <1>9, <4>4, <4>5, <4>6, <4>7, DrainedSlot
      <4>9. Shifted(w[1], rejected) = slots'[r]
        <5>1. slots'[r] = IF Samples(r)
                THEN [len |-> slots[r].len + accepted + 1,
                      computed |-> slots[r].computed + pipeline[1].n[r]
                                     - (pipeline[1].spec[r] - accepted)]
                ELSE [len |-> slots[r].len,
                      computed |-> slots[r].computed + pipeline[1].n[r]]
          BY DrainedStep
        <5> QED
          BY <1>0, <4>3, <4>8, <5>1
      <4>10. /\ appended \in Nat /\ (appended = 0 => rejected = 0)
             /\ w[1].len = w[0].len + appended + rejected
             /\ a = appended
        <5>1. a = appended /\ appended = IF Samples(r) THEN accepted + 1 ELSE 0
          BY <1>13, <2>1, <3>6
        <5>2. CASE Samples(r)
          <6>1. rejected = spec - accepted /\ appended = accepted + 1 /\ accepted \in Nat
                /\ w[1].len = w[0].len + 1 + spec
            BY <1>1, <1>8, <1>9, <4>8, <5>1, <5>2
          <6> QED
            BY <1>1, <4>5, <5>1, <6>1
        <5>3. CASE ~Samples(r)
          <6>1. rejected = 0 /\ appended = 0 /\ w[1].len = w[0].len
            BY <1>8, <4>8, <5>1, <5>3
          <6> QED
            BY <4>5, <5>1, <6>1
        <5> QED
          BY <5>2, <5>3
      <4>11. /\ req'[r].num_tokens = req[r].num_tokens + appended
             /\ req'[r].num_computed_tokens =
                  IF req[r].num_computed_tokens > 0
                  THEN req[r].num_computed_tokens - rejected ELSE req[r].num_computed_tokens
             /\ req'[r].num_output_placeholders =
                  (IF req[r].num_output_placeholders > 0
                   THEN req[r].num_output_placeholders - rejected
                   ELSE req[r].num_output_placeholders) - appended
        BY <2>2, <3>6, <4>10
      <4>12. PICK x \in [0..L -> Slot] : x[0] = slots'[r] /\ Forecast(r, 0, x)'
        <5>1. w \in [0..Len(pipeline) -> Slot] /\ Forecast(r, 0, w)
          BY <1>0, <3>2, <4>3
        <5>2. /\ 1 \in 1..Len(pipeline) /\ Len(pipeline') = Len(pipeline)
              /\ \A i \in 1..Len(pipeline) : i # 1 => pipeline'[i] = pipeline[i]
              /\ pipeline'[1].n[r] = 0 /\ 0 < req[r].num_tokens
          BY <1>0, <1>1, <1>2, <2>3
        <5>3. \E x \in [0..Len(pipeline) -> Slot] :
                x[0] = Shifted(w[1], rejected) /\ Forecast(r, 0, x)'
          BY <4>8, <4>10, <4>11, <5>1, <5>2, DrainedForecast
        <5> QED
          BY <1>0, <4>9, <5>3
      <4>13. req'[r].num_stale_output_tokens = t[0]
        BY <1>3, <1>5, <2>2, <3>4, <3>6, <4>1
      <4>14. \A j \in 1..L : ~Touched(r, j)
        BY <1>0, <3>2, <4>1, <4>2 DEF Follows
      <4>15. \A j \in (0 + 1)..L : ~Touched(r, j)'
        BY <3>3, <4>14
      <4>16. ~Added(r, 0 + 1)'
        BY <3>3, <4>2
      <4>17. Follows(r, t, 0, x)'
        BY <1>2, <3>2, <4>1, <4>12, <4>13, <4>15, <4>16 DEF Follows
      <4>18. req'[r].num_computed_tokens < MaxModelLen
        BY <1>1, <1>10, <3>1, <4>8, <4>11
      <4>19. ~(req'[r].num_stale_output_tokens > 0)
        BY <2>2, <2>5, <3>6
      <4>20. 0 \in 0..L
        BY <1>1
      <4> QED
        BY <4>17, <4>18, <4>19, <4>20
    <3> QED
      BY <3>5, <3>6
  <2>9. req'[r].num_in_flight_tokens = t[L]
    BY <1>6, <2>2, <2>3
  <2>10. r \notin finished_req_ids' /\ req[r].status # "NEW"
    BY <1>13 DEF LedgerOf, Live
  <2>11. 0 < req'[r].num_tokens /\ req'[r].num_tokens < MaxModelLen
    BY <1>10, <2>2, <2>3, <2>4
  <2> QED
    BY <1>2, <1>5, <1>7, <2>2, <2>3, <2>11, <2>6, <2>7, <2>8, <2>9, <2>10 DEF LedgerOf
<1> QED
  BY <1>0, <1>5, <1>8, <1>11, <1>12, <1>13, DrainedCases
-----------------------------------------------------------------------------
(* What schedule() plans *)

\* A chunk has at most the tokens it was offered.
LEMMA ChunkWithin ==
  ASSUME TypeOK, NEW r \in Requests, req[r].num_tokens \in Nat,
         NEW start \in Nat, NEW n \in Nat
  PROVE  ChunkTokens(r, start, n) \in 0..n
<1> DEFINE q == [prompt |-> PromptLen, tokens |-> req[r].num_tokens]
           m == IF AlignedSplit THEN BlockAligned(Split, q, start, n) ELSE n
<1>1. q \in Prompts /\ Split \in SplitConfigs /\ PrefillLookahead \in Nat
  BY ConstantsOK DEF Prompts
<1>2. BlockAligned(Split, q, start, n) \in 0..n
  BY <1>1, SplitWithinBudget
<1>3. m \in 0..n /\ m \in Nat
  BY <1>2
<1>4. ChunkTokens(r, start, n) = WithLookahead(PrefillLookahead, req[r].num_tokens, start, m)
  BY DEF ChunkTokens
<1> HIDE DEF m
<1>5. PICK t \in Nat : t = req[r].num_tokens
  OBVIOUS
<1>6. WithLookahead(PrefillLookahead, t, start, m) \in 0..m
  BY <1>1, <1>3 DEF WithLookahead, Positive
<1> QED
  BY <1>3, <1>4, <1>5, <1>6

\* The long-prefill cap never asks for more, and leaves something to do.
LEMMA CapWithin ==
  ASSUME TypeOK, NEW n \in Nat
  PROVE  CapLongPrefill(n) \in 0..n
<1> DEFINE eligible == Len(running) + Len(waiting) + Len(skipped_waiting)
                         + Len(step_skipped_waiting)
           fair == MaxBatchedTokens \div eligible
           cap == IF AdaptiveThreshold /\ LongPrefillThreshold < fair
                  THEN fair ELSE LongPrefillThreshold
<1>1. LongPrefillThreshold \in Nat /\ MaxBatchedTokens \in Nat
  BY ConstantsOK
<1>2. eligible \in Nat
  BY LenProperties DEF TypeOK
<1>3. CapLongPrefill(n) =
        IF eligible > 1 /\ LongPrefillThreshold > 0 THEN Lesser(cap, n) ELSE n
  BY DEF CapLongPrefill
<1> HIDE DEF eligible
<1>4. eligible > 1 => fair \in Int
  BY <1>1, <1>2
<1> HIDE DEF fair
<1>5. eligible > 1 => cap \in Nat
  BY <1>1, <1>4
<1> HIDE DEF cap
<1> QED
  BY <1>3, <1>5 DEF Lesser

\* While either loop goes on there is budget left.
LEMMA BudgetLeft ==
  ASSUME TypeOK, token_budget > 0, input_budget > DraftSlots
  PROVE  Budget \in Nat
<1>1. token_budget \in Int /\ input_budget \in Int /\ DraftSlots \in Nat
  BY ConstantsOK DEF TypeOK
<1> QED
  BY <1>1 DEF Budget, Lesser

\* A running request has at least its next token to compute.
LEMMA RunningLags ==
  ASSUME TypeOK, QueueInv, LedgerInv, NEW r \in Requests, AtRunning(r)
  PROVE  /\ req[r].status = "RUNNING" /\ ~Joining(r)
         /\ 0 <= req[r].num_computed_tokens /\ req[r].num_computed_tokens < MaxModelLen
         /\ req[r].num_computed_tokens < req[r].num_tokens + req[r].num_output_placeholders
         /\ req[r].spec_token_ids >= 0 /\ 0 < req[r].num_tokens
<1>1. Contains(running, r)
  BY DEF AtRunning, Contains, TypeOK
<1>2. req[r].status = "RUNNING" /\ ~Joining(r)
  BY <1>1 DEF QueueInv, Joining, LedgerInv, AtRunning
<1>3. PICK s : LedgerOf(r, s)
  BY DEF LedgerInv
<1>4. PICK k \in 0..Len(pipeline) : \E w \in [0..Len(pipeline) -> Slot] : Follows(r, s, k, w)
  BY <1>2, <1>3 DEF LedgerOf
<1>5. PICK w \in [0..Len(pipeline) -> Slot] : Follows(r, s, k, w)
  BY <1>4
<1>6. Len(pipeline) \in k..Len(pipeline)
  BY <1>4, StepTypes
<1>7. /\ Placed(w[Len(pipeline)], req[r].num_tokens)
      /\ w[Len(pipeline)].len = req[r].num_tokens + req[r].num_output_placeholders
      /\ w[Len(pipeline)].computed = req[r].num_computed_tokens
  BY <1>5, <1>6 DEF Follows, Forecast
<1>8. /\ 0 <= req[r].num_computed_tokens
      /\ req[r].num_computed_tokens < req[r].num_tokens + req[r].num_output_placeholders
  BY <1>7 DEF Placed
<1>9. /\ req[r].num_computed_tokens < MaxModelLen /\ req[r].spec_token_ids >= 0
      /\ 0 < req[r].num_tokens
  BY <1>2, <1>3 DEF LedgerOf
<1> QED
  BY <1>2, <1>8, <1>9

\* The RUNNING loop gives a request at most its known tokens and its drafts, stays
\* within the budget, and stops before the model's last position.
LEMMA RunningChunk ==
  ASSUME TypeOK, QueueInv, LedgerInv, NEW r \in Requests, NEW n, Wants(r, n)
  PROVE  /\ n \in Nat /\ req[r].num_computed_tokens + n < MaxModelLen
         /\ req[r].num_computed_tokens + n
              <= req[r].num_tokens + req[r].num_output_placeholders + req[r].spec_token_ids
         /\ n <= Budget
<1>0. PICK T, P, C, S : /\ T = req[r].num_tokens /\ P = req[r].num_output_placeholders
                        /\ C = req[r].num_computed_tokens /\ S = req[r].spec_token_ids
  OBVIOUS
<1>1. T \in Int /\ P \in Int /\ C \in Int /\ S \in Int
  BY <1>0, FieldTypes
<1>2. AtRunning(r) /\ n = NumNewTokens(r)
  BY DEF Wants
<1>3. 0 <= C /\ C < MaxModelLen /\ C < T + P /\ S >= 0 /\ 0 < T /\ MaxModelLen \in Nat
  BY <1>0, <1>2, RunningLags, ConstantsOK
<1>4. PICK wanted : wanted = T + S + P - C
  OBVIOUS
<1>5. wanted \in Nat
  BY <1>1, <1>3, <1>4
<1>6. PICK c : c = CapLongPrefill(wanted)
  OBVIOUS
<1>7. c \in 0..wanted
  BY <1>5, <1>6, CapWithin
<1>8. PICK b : b = Budget
  OBVIOUS
<1>9. b \in Nat
  BY <1>2, <1>8, BudgetLeft DEF AtRunning
<1>10. PICK m : m = Lesser(Lesser(c, b), MaxModelLen - C - 1)
  OBVIOUS
<1>11. m \in Nat /\ m <= c /\ m <= b /\ m <= MaxModelLen - C - 1
  BY <1>1, <1>3, <1>5, <1>7, <1>9, <1>10 DEF Lesser
<1>12. n = ChunkTokens(r, C, m)
  BY <1>0, <1>2, <1>4, <1>6, <1>8, <1>10 DEF NumNewTokens
<1>13. n \in 0..m
  <2>1. req[r].num_tokens \in Nat /\ C \in Nat
    BY <1>0, <1>1, <1>3
  <2> QED
    BY <1>11, <1>12, <2>1, ChunkWithin
<1>14. n \in Nat /\ C + n < MaxModelLen /\ C + n <= T + P + S /\ n <= b
  BY <1>1, <1>3, <1>4, <1>5, <1>7, <1>9, <1>11, <1>13
<1> QED
  BY <1>0, <1>8, <1>14

\* An admitted request is given at most the tokens it has, within the budget.
LEMMA AdmittedChunk ==
  ASSUME TypeOK, NEW r \in Requests, NEW hit \in HitLengths(r), AtWaiting(r)
  PROVE  /\ hit \in Nat /\ hit < req[r].num_tokens
         /\ NumPrefillTokens(r, hit) \in 0..(req[r].num_tokens - hit)
         /\ NumPrefillTokens(r, hit) <= Budget
<1>0. PICK T : T = req[r].num_tokens
  OBVIOUS
<1>1. hit \in Nat /\ hit < T /\ T \in Int
  BY <1>0, ConstantsOK, FieldTypes DEF HitLengths
<1>2. PICK c : c = CapLongPrefill(T - hit)
  OBVIOUS
<1>3. c \in 0..(T - hit)
  BY <1>1, <1>2, CapWithin
<1>4. PICK b : b = Budget
  OBVIOUS
<1>5. b \in Nat
  BY <1>4, BudgetLeft DEF AtWaiting
<1>6. PICK m : m = Lesser(c, b)
  OBVIOUS
<1>7. m \in Nat /\ m <= T - hit /\ m <= b
  BY <1>1, <1>3, <1>5, <1>6 DEF Lesser
<1>8. ChunkTokens(r, hit, m) \in 0..m
  BY <1>0, <1>1, <1>7, ChunkWithin
<1>9. NumPrefillTokens(r, hit) = ChunkTokens(r, hit, m)
  BY <1>0, <1>2, <1>4, <1>6 DEF NumPrefillTokens
<1>10. NumPrefillTokens(r, hit) \in 0..(T - hit) /\ NumPrefillTokens(r, hit) <= b
  BY <1>1, <1>5, <1>7, <1>8, <1>9
<1> QED
  BY <1>0, <1>1, <1>4, <1>10

-----------------------------------------------------------------------------
(* Every step keeps the ledger *)

\* A plan that the step leaves alone stands.
LEMMA KeptPlan ==
  ASSUME NEW r, PlanOf(r), InSchedule' => InSchedule, SameCounters(r),
         num_scheduled_tokens'[r] = num_scheduled_tokens[r],
         scheduled_spec_tokens'[r] = scheduled_spec_tokens[r]
  PROVE  PlanOf(r)'
BY DEF PlanOf, SameCounters

\* So does the ledger of a request that the step does not touch.
LEMMA KeptLedger ==
  ASSUME TypeOK, LedgerInv, NEW r \in Requests, UNCHANGED <<pipeline, slots>>,
         Updating' = Updating, req'[r] = req[r],
         (r \in finished_req_ids') = (r \in finished_req_ids),
         (r \in preempted_req_ids') = (r \in preempted_req_ids),
         Joining(r)' = Joining(r)
  PROVE  SameSteps(r) /\ SameCounters(r) /\ \E t : LedgerOf(r, t)'
<1>1. SameSteps(r)
  BY DEF SameSteps
<1>2. SameCounters(r) /\ req'[r].spec_token_ids \in {0, req[r].spec_token_ids}
  BY DEF SameCounters
<1>3. SameIds(r)
  BY DEF SameIds
<1>4. PICK s : LedgerOf(r, s)
  BY DEF LedgerInv
<1> QED
  BY <1>1, <1>2, <1>3, <1>4, SameLedger

\* A step that changes no request, no step in flight and no plan keeps the ledger.
LEMMA QuietLedger ==
  ASSUME TypeOK, LedgerInv, UNCHANGED <<req, pipeline, slots, idVars>>,
         Updating' = Updating, InSchedule' = InSchedule,
         UNCHANGED <<num_scheduled_tokens, scheduled_spec_tokens, scheduled_new_reqs>>,
         pc' = "running" => pc = "running"
  PROVE  LedgerInv'
<1>1. pc' = "running" => scheduled_new_reqs' = {}
  BY DEF LedgerInv
<1>2. ASSUME NEW r \in Requests PROVE PlanOf(r)' /\ \E t : LedgerOf(r, t)'
  <2>1. /\ (r \in finished_req_ids') = (r \in finished_req_ids)
        /\ (r \in preempted_req_ids') = (r \in preempted_req_ids)
    BY DEF idVars
  <2>2. Joining(r)' = Joining(r)
    BY DEF Joining
  <2>3. SameCounters(r) /\ \E t : LedgerOf(r, t)'
    BY <2>1, <2>2, KeptLedger
  <2> QED
    BY <2>3, KeptPlan DEF LedgerInv
<1> QED
  BY <1>1, <1>2 DEF LedgerInv

\* A request that enters the engine computes nothing.
LEMMA EnteredLedger ==
  ASSUME TypeOK, LedgerInv, NEW r \in Requests, AddRequest(r)
  PROVE  LedgerInv'
<1> USE DEF blockVars, seqVars, idVars, stepVars, ctrlVars, localVars
<1>1. /\ pc = "idle" /\ pc' = "idle" /\ req[r].status = "NEW"
      /\ req' = [req EXCEPT ![r].status = "WAITING"]
      /\ UNCHANGED <<pipeline, slots, finished_req_ids, preempted_req_ids>>
  BY DEF AddRequest
<1>2. ~InSchedule /\ ~InSchedule' /\ Updating' = Updating
  BY <1>1 DEF InSchedule, Updating
<1>3. ASSUME NEW q \in Requests, q # r PROVE \E t : LedgerOf(q, t)'
  <2>1. req'[q] = req[q] /\ Joining(q)' = Joining(q)
    BY <1>1, <1>2, <1>3 DEF Joining, TypeOK
  <2> QED
    BY <1>1, <1>2, <2>1, KeptLedger
<1>4. \E t : LedgerOf(r, t)'
  <2>1. PICK s : LedgerOf(r, s)
    BY DEF LedgerInv
  <2>2. SameSteps(r)
    BY <1>1, <1>2 DEF SameSteps
  <2>3. SumsOf(s, r)' /\ Len(pipeline') = Len(pipeline)
    BY <2>1, <2>2, SameSums DEF LedgerOf, SameSteps
  <2>4. req[r] \in ReqFields
    BY DEF TypeOK
  <2>5. /\ req'[r].status = "WAITING" /\ req'[r].num_tokens = req[r].num_tokens
        /\ req'[r].num_computed_tokens = req[r].num_computed_tokens
        /\ req'[r].num_in_flight_tokens = req[r].num_in_flight_tokens
        /\ req'[r].num_stale_output_tokens = req[r].num_stale_output_tokens
        /\ req'[r].num_output_placeholders = req[r].num_output_placeholders
        /\ req'[r].spec_token_ids = req[r].spec_token_ids
    BY <1>1, <2>4 DEF TypeOK, ReqFields
  <2>6. r \notin finished_req_ids' /\ ~Joining(r)' /\ Waits(r)
    BY <1>1, <1>2, <2>1 DEF LedgerOf, Joining, Waits
  <2> QED
    BY <1>1, <2>1, <2>3, <2>5, <2>6 DEF LedgerOf
<1> QED
  BY <1>1, <1>2, <1>3, <1>4 DEF LedgerInv, PlanOf

\* The end of a request leaves the other ledgers alone.
LEMMA EndedLedger ==
  ASSUME TypeOK, LedgerInv, NEW r \in Requests, FinishRequest(r), SameSteps(r),
         ~InSchedule, ~InSchedule', UNCHANGED preempted_req_ids,
         \A q \in Requests : q # r => SameSteps(q)
  PROVE  LedgerInv'
<1>1. /\ req' = [req EXCEPT ![r] = Blank("FINISHED")]
      /\ finished_req_ids' = finished_req_ids \cup {r}
  BY DEF FinishRequest
<1>2. ASSUME NEW q \in Requests PROVE \E t : LedgerOf(q, t)'
  <2>1. PICK s : LedgerOf(q, s)
    BY DEF LedgerInv
  <2>2. CASE q = r
    <3>1. req'[r].status = "FINISHED"
      BY <1>1 DEF TypeOK, Blank
    <3> QED
      BY <2>1, <2>2, <3>1, FinishedLedger
  <2>3. CASE q # r
    <3>1. req'[q] = req[q]
      BY <1>1, <2>3 DEF TypeOK
    <3>2. SameCounters(q) /\ req'[q].spec_token_ids \in {0, req[q].spec_token_ids}
      BY <3>1 DEF SameCounters
    <3>3. SameIds(q)
      BY <1>1, <2>3 DEF SameIds
    <3>4. Joining(q)' = Joining(q)
      BY DEF Joining
    <3> QED
      BY <2>1, <2>3, <3>2, <3>3, <3>4, SameLedger
  <2> QED
    BY <2>2, <2>3
<1> QED
  BY <1>2 DEF LedgerInv, PlanOf, InSchedule

\* A preempted request computes nothing, and nothing is planned for it.
LEMMA EvictedLedger ==
  ASSUME TypeOK, LedgerInv, NEW r \in Requests, NEW drop, req[r].status = "RUNNING",
         PreemptRequest(r, drop), UNCHANGED <<pipeline, slots, finished_req_ids>>,
         UNCHANGED scheduled_new_reqs, Updating' = Updating,
         InSchedule => scheduled_new_reqs = {}, InSchedule' = InSchedule,
         \A q \in Requests : q # r =>
           /\ num_scheduled_tokens'[q] = num_scheduled_tokens[q]
           /\ scheduled_spec_tokens'[q] = scheduled_spec_tokens[q],
         InSchedule => num_scheduled_tokens'[r] = 0 /\ scheduled_spec_tokens'[r] = 0
  PROVE  LedgerInv'
<1>1. /\ req' = [req EXCEPT ![r] = Preempted(r, drop)]
      /\ preempted_req_ids' = preempted_req_ids \cup {r}
  BY DEF PreemptRequest
<1>2. \A q \in Requests : ~Joining(q) /\ ~Joining(q)'
  BY DEF Joining
<1>3. \A q \in Requests : SameSteps(q)
  BY DEF SameSteps
<1>4. ASSUME NEW q \in Requests PROVE PlanOf(q)' /\ \E t : LedgerOf(q, t)'
  <2>1. PICK s : LedgerOf(q, s) /\ PlanOf(q)
    BY DEF LedgerInv
  <2>2. CASE q = r
    <3>1. req'[r] = Preempted(r, drop)
      BY <1>1 DEF TypeOK
    <3>2. \E t : LedgerOf(q, t)'
      BY <1>2, <1>3, <2>1, <2>2, <3>1, PreemptedLedger
    <3>3. PlanOf(q)'
      BY <2>2 DEF PlanOf
    <3> QED
      BY <3>2, <3>3
  <2>3. CASE q # r
    <3>1. /\ req'[q] = req[q]
          /\ (q \in finished_req_ids') = (q \in finished_req_ids)
          /\ (q \in preempted_req_ids') = (q \in preempted_req_ids)
      BY <1>1, <2>3 DEF TypeOK
    <3>2. Joining(q)' = Joining(q)
      BY DEF Joining
    <3>3. SameCounters(q) /\ \E t : LedgerOf(q, t)'
      BY <3>1, <3>2, KeptLedger
    <3>4. PlanOf(q)'
      BY <2>1, <2>3, <3>3, KeptPlan
    <3> QED
      BY <3>3, <3>4
  <2> QED
    BY <2>2, <2>3
<1> QED
  BY <1>4 DEF LedgerInv, InSchedule

\* schedule() starts with nothing planned.
LEMMA StartedLedger ==
  ASSUME TypeOK, LedgerInv, BeginSchedule
  PROVE  LedgerInv'
<1> USE DEF queueVars, blockVars, seqVars, idVars, stepVars, ctrlVars
<1>1. /\ pc = "idle" /\ pc' = "running" /\ scheduled_new_reqs' = {}
      /\ num_scheduled_tokens' = Zero /\ scheduled_spec_tokens' = Zero
      /\ UNCHANGED <<req, pipeline, slots, finished_req_ids, preempted_req_ids>>
  BY DEF BeginSchedule
<1>2. ASSUME NEW r \in Requests PROVE PlanOf(r)' /\ \E t : LedgerOf(r, t)'
  <2>1. Updating' = Updating /\ Joining(r)' = Joining(r)
    BY <1>1 DEF Updating, Joining, InSchedule
  <2>2. \E t : LedgerOf(r, t)'
    BY <1>1, <2>1, KeptLedger
  <2>3. num_scheduled_tokens'[r] = 0 /\ scheduled_spec_tokens'[r] = 0
    BY <1>1 DEF Zero
  <2> QED
    BY <2>2, <2>3 DEF PlanOf
<1> QED
  BY <1>1, <1>2 DEF LedgerInv

\* The RUNNING loop plans the request's known tokens, and then its drafts.
LEMMA PlannedLedger ==
  ASSUME TypeOK, QueueInv, LedgerInv, NEW r \in Requests, NEW n \in Int, n > 0,
         ScheduleRunning(r, n)
  PROVE  LedgerInv'
<1> USE DEF queueVars, blockVars, seqVars, idVars, stepVars, ctrlVars
<1>0. PICK T, P, C, S : /\ T = req[r].num_tokens /\ P = req[r].num_output_placeholders
                        /\ C = req[r].num_computed_tokens /\ S = req[r].spec_token_ids
  OBVIOUS
<1>1. T \in Int /\ P \in Int /\ C \in Int /\ S \in Int /\ req[r] \in ReqFields
  BY <1>0, FieldTypes
<1>2. /\ Wants(r, n) /\ AtRunning(r) /\ pc = "running"
      /\ num_scheduled_tokens' = [num_scheduled_tokens EXCEPT ![r] = n]
      /\ req' = [req EXCEPT ![r].spec_token_ids = 0]
      /\ UNCHANGED <<pipeline, slots, finished_req_ids, preempted_req_ids, pc,
                     scheduled_new_reqs>>
  BY DEF ScheduleRunning, Wants, AtRunning
<1>3. PICK past : past = n + C - T - P
  OBVIOUS
<1>4. PICK drafts : drafts = IF past < 0 THEN 0 ELSE Lesser(past, S)
  OBVIOUS
<1>5. scheduled_spec_tokens' = [scheduled_spec_tokens EXCEPT ![r] = drafts]
  BY <1>0, <1>3, <1>4 DEF ScheduleRunning
<1>6. n \in Nat /\ C + n < MaxModelLen /\ C + n <= T + P + S /\ S >= 0
  BY <1>0, <1>2, RunningChunk, RunningLags
<1>7. drafts >= 0 /\ IF C + n < T + P THEN drafts = 0 ELSE C + n = T + P + drafts
  BY <1>1, <1>3, <1>4, <1>6 DEF Lesser
<1>8. /\ req'[r].status = req[r].status /\ req'[r].num_tokens = T
      /\ req'[r].num_computed_tokens = C /\ req'[r].num_output_placeholders = P
      /\ req'[r].num_in_flight_tokens = req[r].num_in_flight_tokens
      /\ req'[r].num_stale_output_tokens = req[r].num_stale_output_tokens
      /\ req'[r].drop_stale_output = req[r].drop_stale_output
      /\ req'[r].spec_token_ids = 0
  BY <1>0, <1>1, <1>2 DEF TypeOK, ReqFields
<1>9. Updating' = Updating /\ InSchedule /\ InSchedule'
  BY <1>2 DEF Updating, InSchedule
<1>10. ASSUME NEW q \in Requests PROVE PlanOf(q)' /\ \E t : LedgerOf(q, t)'
  <2>0. Joining(q)' = Joining(q)
    BY <1>2 DEF Joining, InSchedule
  <2>1. CASE q = r
    <3>1. SameSteps(r)
      BY <1>2, <1>9 DEF SameSteps
    <3>2. SameCounters(r) /\ SameIds(r)
      BY <1>0, <1>2, <1>8 DEF SameCounters, SameIds
    <3>3. PICK s : LedgerOf(r, s)
      BY DEF LedgerInv
    <3>4. LedgerOf(r, s)'
      BY <1>8, <2>0, <2>1, <3>1, <3>2, <3>3, SameLedger
    <3>5. num_scheduled_tokens'[r] = n /\ scheduled_spec_tokens'[r] = drafts
      BY <1>2, <1>5 DEF TypeOK
    <3>6. req[r].status = "RUNNING"
      BY <1>2, RunningLags
    <3>7. PlanOf(r)'
      BY <1>1, <1>6, <1>7, <1>8, <3>5, <3>6 DEF PlanOf
    <3> QED
      BY <2>1, <3>4, <3>7
  <2>2. CASE q # r
    <3>1. req'[q] = req[q]
      BY <1>2, <2>2 DEF TypeOK
    <3>2. SameCounters(q) /\ \E t : LedgerOf(q, t)'
      BY <1>2, <1>9, <2>0, <3>1, KeptLedger
    <3>3. PlanOf(q)'
      BY <1>2, <1>5, <1>9, <2>2, <3>2, KeptPlan DEF LedgerInv
    <3> QED
      BY <3>2, <3>3
  <2> QED
    BY <2>1, <2>2
<1> QED
  BY <1>2, <1>10 DEF LedgerInv

\* Taking back the plan of the victim and its counters.
LEMMA VictimLedger ==
  ASSUME TypeOK, QueueInv, LedgerInv, NEW r \in Requests, NEW v \in Requests,
         PreemptVictim(r, v)
  PROVE  LedgerInv'
<1> USE DEF queueVars, blockVars, seqVars, stepVars, ctrlVars
<1>1. /\ PreemptRequest(v, RequiresKVDelivery) /\ Contains(running, v)
      /\ pc = "running" /\ pc' \in {"running", "finish"}
      /\ num_scheduled_tokens' = [num_scheduled_tokens EXCEPT ![v] = 0]
      /\ scheduled_spec_tokens' = [scheduled_spec_tokens EXCEPT ![v] = 0]
      /\ UNCHANGED <<pipeline, slots, finished_req_ids, scheduled_new_reqs>>
  BY DEF PreemptVictim, LacksBlocks, Wants, AtRunning, IsVictim
<1>2. req[v].status = "RUNNING" /\ scheduled_new_reqs = {}
  BY <1>1 DEF QueueInv, LedgerInv
<1>3. Updating' = Updating /\ InSchedule' = InSchedule
  BY <1>1 DEF Updating, InSchedule
<1>4. /\ num_scheduled_tokens'[v] = 0 /\ scheduled_spec_tokens'[v] = 0
      /\ \A q \in Requests : q # v =>
           /\ num_scheduled_tokens'[q] = num_scheduled_tokens[q]
           /\ scheduled_spec_tokens'[q] = scheduled_spec_tokens[q]
  BY <1>1 DEF TypeOK
<1> QED
  BY <1>1, <1>2, <1>3, <1>4, EvictedLedger

\* An admitted request starts from its prefix hit, without drafts.
LEMMA JoinedLedger ==
  ASSUME TypeOK, QueueInv, LedgerInv, NEW r \in Requests, NEW hit \in HitLengths(r),
         NEW n \in Int, n > 0, AdmitWaiting(r, hit, n)
  PROVE  LedgerInv'
<1> USE DEF queueVars, blockVars, seqVars, idVars, stepVars, ctrlVars
<1>0. PICK T : T = req[r].num_tokens
  OBVIOUS
<1>1. /\ AtWaiting(r) /\ ~AwaitsStaleOutput(r) /\ PopWaiting(r) /\ pc = "waiting"
      /\ n = NumPrefillTokens(r, hit)
      /\ req' = [req EXCEPT ![r] = Admitted(r, hit)]
      /\ scheduled_new_reqs' = scheduled_new_reqs \cup {r}
      /\ num_scheduled_tokens' = [num_scheduled_tokens EXCEPT ![r] = n]
      /\ UNCHANGED <<pipeline, slots, finished_req_ids, preempted_req_ids, pc,
                     scheduled_spec_tokens>>
  BY DEF AdmitWaiting, AtWaiting
<1>2. T \in Int /\ n \in Nat /\ hit \in Nat /\ hit < T /\ hit + n <= T
  <2>1. hit \in Nat /\ hit < T /\ n \in 0..(T - hit) /\ T \in Int
    BY <1>0, <1>1, AdmittedChunk, FieldTypes
  <2> QED
    BY <2>1
<1>3. Waits(r) /\ req[r].status # "RUNNING"
  BY <1>1, QueuesPop DEF Waits
<1>4. PICK s : LedgerOf(r, s) /\ PlanOf(r)
  BY DEF LedgerInv
<1>5. Updating' = Updating /\ InSchedule /\ InSchedule'
  BY <1>1 DEF Updating, InSchedule
<1>6. LedgerOf(r, s)'
  <2>1. SameSteps(r)
    BY <1>1, <1>5 DEF SameSteps
  <2>2. Joining(r)' /\ req'[r] = Admitted(r, hit)
    BY <1>1, <1>5 DEF Joining, TypeOK
  <2> QED
    BY <1>1, <1>3, <1>4, <2>1, <2>2, AdmittedLedger
<1>7. PlanOf(r)'
  <2>1. num_scheduled_tokens[r] \in Int /\ scheduled_spec_tokens[r] = 0
    BY <1>3, <1>4, <1>5, FieldTypes DEF PlanOf
  <2>2. num_scheduled_tokens'[r] = n /\ scheduled_spec_tokens'[r] = 0
    BY <1>1, <2>1 DEF TypeOK
  <2>3. /\ req'[r].status = "RUNNING" /\ req'[r].num_tokens = T
        /\ req'[r].num_computed_tokens = hit /\ req'[r].num_output_placeholders = 0
    <3>1. req[r].num_output_placeholders = 0
      BY <1>3, <1>4 DEF LedgerOf
    <3>2. req'[r] = Admitted(r, hit)
      BY <1>1 DEF TypeOK
    <3> QED
      BY <1>0, <3>1, <3>2, AdmittedFields
  <2>4. T < MaxModelLen /\ MaxModelLen \in Nat
    BY <1>0, <1>3, <1>4, ConstantsOK DEF LedgerOf, Waits
  <2> QED
    BY <1>2, <2>2, <2>3, <2>4 DEF PlanOf
<1>8. ASSUME NEW q \in Requests, q # r PROVE PlanOf(q)' /\ \E t : LedgerOf(q, t)'
  <2>1. req'[q] = req[q] /\ num_scheduled_tokens'[q] = num_scheduled_tokens[q]
    BY <1>1, <1>8 DEF TypeOK
  <2>2. Joining(q)' = Joining(q)
    BY <1>1, <1>8 DEF Joining, InSchedule
  <2>3. SameCounters(q) /\ \E t : LedgerOf(q, t)'
    BY <1>1, <1>5, <2>1, <2>2, KeptLedger
  <2> QED
    BY <1>1, <1>5, <2>1, <2>3, KeptPlan DEF LedgerInv
<1> QED
  BY <1>1, <1>4, <1>6, <1>7, <1>8 DEF LedgerInv

\* A step in flight is sent, run and processed.
LEMMA FlightLedger ==
  ASSUME TypeOK, UpdatingOldest, LedgerInv, EndSchedule \/ BeginUpdate \/ EndUpdate
  PROVE  LedgerInv'
<1>1. pc' \in {"idle", "drain", "update"}
  BY DEF EndSchedule, BeginUpdate, EndUpdate
<1>2. ASSUME NEW r \in Requests PROVE \E t : LedgerOf(r, t)'
  <2>1. PICK s : LedgerOf(r, s) /\ PlanOf(r)
    BY DEF LedgerInv
  <2> QED
    BY <2>1, SentLedger, RunLedger, PoppedLedger
<1> QED
  BY <1>1, <1>2 DEF LedgerInv, PlanOf, InSchedule

\* The output of a step is handled for one request.
LEMMA OutputLedger ==
  ASSUME TypeOK, UpdatingOldest, LedgerInv, NEW r \in Requests, NEW accepted \in Int,
         NEW appended \in Int, NEW eos \in BOOLEAN, UpdateRequest(r, accepted, appended, eos)
  PROVE  LedgerInv'
<1>1. pipeline # <<>> /\ pc = "update" /\ pc' = "update"
  BY DEF UpdateRequest, UpdatingOldest, ctrlVars
<1>2. /\ \A q \in Requests : q # r => SameSteps(q)
      /\ UNCHANGED preempted_req_ids
  BY <1>1, DrainedStep
<1>3. ~InSchedule /\ ~InSchedule'
  BY <1>1 DEF InSchedule
<1>4. ASSUME NEW q \in Requests, q # r
      PROVE  /\ req'[q] = req[q]
             /\ (q \in finished_req_ids') = (q \in finished_req_ids)
  <2>1. CASE FinishRequest(r)
    <3>1. /\ req' = [req EXCEPT ![r] = Blank("FINISHED")]
          /\ finished_req_ids' = finished_req_ids \cup {r}
      BY <2>1 DEF FinishRequest
    <3> QED
      BY <1>4, <3>1 DEF TypeOK
  <2>2. CASE ~FinishRequest(r)
    <3>1. /\ UNCHANGED finished_req_ids
          /\ req' = req \/ \E x : req' = [req EXCEPT ![r] = x]
      BY <2>2, DrainedCases
    <3> QED
      BY <1>4, <3>1 DEF TypeOK
  <2> QED
    BY <2>1, <2>2
<1>5. ASSUME NEW q \in Requests PROVE \E t : LedgerOf(q, t)'
  <2>1. PICK s : LedgerOf(q, s)
    BY DEF LedgerInv
  <2>2. CASE q = r
    BY <1>1, <2>1, <2>2, DrainedLedger
  <2>3. CASE q # r
    <3>1. SameCounters(q) /\ req'[q].spec_token_ids \in {0, req[q].spec_token_ids}
      BY <1>4, <2>3 DEF SameCounters
    <3>2. SameIds(q)
      BY <1>2, <1>4, <2>3 DEF SameIds
    <3>3. Joining(q)' = Joining(q)
      BY <1>3 DEF Joining
    <3> QED
      BY <1>2, <2>1, <2>3, <3>1, <3>2, <3>3, SameLedger
  <2> QED
    BY <2>2, <2>3
<1> QED
  BY <1>3, <1>5 DEF LedgerInv, PlanOf, InSchedule

\* Every step keeps the ledger.
LEMMA LedgerStep ==
  TypeOK /\ UpdatingOldest /\ QueueInv /\ LedgerInv /\ [Next]_vars => LedgerInv'
<1> SUFFICES ASSUME TypeOK, UpdatingOldest, QueueInv, LedgerInv, [Next]_vars
             PROVE  LedgerInv'
  OBVIOUS
<1> USE DEF queueVars, blockVars, seqVars, stepVars, ctrlVars, localVars
<1>1. ASSUME NEW r \in Requests, AddRequest(r) PROVE LedgerInv'
  BY <1>1, EnteredLedger
<1>2. ASSUME NEW r \in Requests, Abort(r) PROVE LedgerInv'
  <2>1. /\ FinishRequest(r) /\ pc = "idle" /\ pc' = "idle"
        /\ UNCHANGED <<preempted_req_ids, pipeline, slots>>
    BY <1>2 DEF Abort
  <2>2. ~InSchedule /\ ~InSchedule' /\ \A q \in Requests : SameSteps(q)
    BY <2>1 DEF InSchedule, SameSteps, Updating
  <2> QED
    BY <2>1, <2>2, EndedLedger
<1>3. ASSUME NEW p, SetPauseState(p) \/ BeginReset \/ EndReset PROVE LedgerInv'
  <2>1. /\ pc \in {"idle", "reset"} /\ pc' \in {"idle", "reset"}
        /\ UNCHANGED <<req, pipeline, slots, idVars>>
        /\ UNCHANGED <<num_scheduled_tokens, scheduled_spec_tokens, scheduled_new_reqs>>
    BY <1>3 DEF SetPauseState, BeginReset, EndReset
  <2>2. Updating' = Updating /\ InSchedule' = InSchedule
    BY <2>1 DEF Updating, InSchedule
  <2> QED
    BY <2>1, <2>2, QuietLedger
<1>4. CASE ResetPreempt
  <2> DEFINE r == running[Len(running)]
  <2>1. r \in Requests /\ Contains(running, r)
    <3>1. r \in Requests /\ Len(running) \in 1..Len(running)
      BY <1>4, TailFrontType, LenProperties DEF ResetPreempt, TypeOK
    <3> QED
      BY <3>1 DEF Contains
  <2>2. /\ PreemptRequest(r, TRUE) /\ pc = "reset" /\ pc' = "reset"
        /\ UNCHANGED <<pipeline, slots, finished_req_ids, scheduled_new_reqs>>
        /\ UNCHANGED <<num_scheduled_tokens, scheduled_spec_tokens>>
    BY <1>4 DEF ResetPreempt
  <2>3. ~InSchedule /\ ~InSchedule' /\ Updating' = Updating
    BY <2>2 DEF InSchedule, Updating
  <2>4. req[r].status = "RUNNING"
    BY <2>1 DEF QueueInv
  <2> HIDE DEF r
  <2>5. \A q \in Requests : /\ num_scheduled_tokens'[q] = num_scheduled_tokens[q]
                            /\ scheduled_spec_tokens'[q] = scheduled_spec_tokens[q]
    BY <2>2
  <2>6. /\ UNCHANGED <<pipeline, slots, finished_req_ids>> /\ UNCHANGED scheduled_new_reqs
        /\ InSchedule' = InSchedule
    BY <2>2 DEF InSchedule
  <2> QED
    BY <2>1, <2>2, <2>3, <2>4, <2>5, <2>6, EvictedLedger
<1>5. CASE BeginSchedule
  BY <1>5, StartedLedger
<1>6. ASSUME NEW r \in Requests, SkipRunning(r) \/ SkipWaiting(r) PROVE LedgerInv'
  <2>1. /\ UNCHANGED <<req, pipeline, slots, idVars, pc>>
        /\ UNCHANGED <<num_scheduled_tokens, scheduled_spec_tokens, scheduled_new_reqs>>
    BY <1>6 DEF SkipRunning, SkipWaiting
  <2>2. Updating' = Updating /\ InSchedule' = InSchedule
    BY <2>1 DEF Updating, InSchedule
  <2> QED
    BY <2>1, <2>2, QuietLedger
<1>7. ASSUME NEW r \in Requests, NEW n \in 1..token_budget, ScheduleRunning(r, n)
      PROVE  LedgerInv'
  <2>1. n \in Int /\ n > 0
    BY DEF TypeOK
  <2> QED
    BY <1>7, <2>1, PlannedLedger
<1>8. ASSUME NEW r \in Requests, NEW v \in Requests, PreemptVictim(r, v) PROVE LedgerInv'
  BY <1>8, VictimLedger
<1>9. ASSUME NEW r \in Requests, NEW hit \in HitLengths(r), NEW n \in 1..token_budget,
             AdmitWaiting(r, hit, n)
      PROVE  LedgerInv'
  <2>1. n \in Int /\ n > 0
    BY DEF TypeOK
  <2> QED
    BY <1>9, <2>1, JoinedLedger
<1>10. CASE EndRunning \/ EndWaiting
  <2>1. /\ pc \in {"running", "waiting"} /\ pc' \in {"waiting", "finish"}
        /\ UNCHANGED <<req, pipeline, slots, idVars>>
        /\ UNCHANGED <<num_scheduled_tokens, scheduled_spec_tokens, scheduled_new_reqs>>
    BY <1>10 DEF EndRunning, EndWaiting
  <2>2. Updating' = Updating /\ InSchedule' = InSchedule
    BY <2>1 DEF Updating, InSchedule
  <2> QED
    BY <2>1, <2>2, QuietLedger
<1>11. CASE EndSchedule \/ BeginUpdate \/ EndUpdate
  BY <1>11, FlightLedger
<1>12. CASE DrainDeferredFree \/ EndDrain
  <2>1. /\ pc = "drain" /\ pc' \in {"drain", "update"}
        /\ UNCHANGED <<req, pipeline, slots, idVars>>
        /\ UNCHANGED <<num_scheduled_tokens, scheduled_spec_tokens, scheduled_new_reqs>>
    BY <1>12 DEF DrainDeferredFree, EndDrain
  <2>2. Updating' = Updating /\ InSchedule' = InSchedule
    BY <2>1 DEF Updating, InSchedule
  <2> QED
    BY <2>1, <2>2, QuietLedger
<1>13. ASSUME NEW r \in Requests, NEW accepted \in 0..MaxSpec,
              NEW appended \in 0..(MaxSpec + 1), NEW eos \in BOOLEAN,
              UpdateRequest(r, accepted, appended, eos)
       PROVE  LedgerInv'
  <2>1. accepted \in Int /\ appended \in Int
    OBVIOUS
  <2> QED
    BY <1>13, <2>1, OutputLedger
<1>14. CASE UNCHANGED vars
  <2>1. /\ UNCHANGED <<req, pipeline, slots, idVars, pc>>
        /\ UNCHANGED <<num_scheduled_tokens, scheduled_spec_tokens, scheduled_new_reqs>>
    BY <1>14 DEF vars
  <2>2. Updating' = Updating /\ InSchedule' = InSchedule
    BY <2>1 DEF Updating, InSchedule
  <2> QED
    BY <2>1, <2>2, QuietLedger
<1> QED
  BY <1>1, <1>2, <1>3, <1>4, <1>5, <1>6, <1>7, <1>8, <1>9, <1>10, <1>11, <1>12, <1>13,
     <1>14
     DEF Next, Client, ResetCall, ScheduleCall, UpdateCall

\* At first no request has tokens in flight.
LEMMA LedgerInit == Init => LedgerInv
<1> SUFFICES ASSUME Init PROVE LedgerInv
  OBVIOUS
<1>1. ~InSchedule /\ pipeline = <<>> /\ finished_req_ids = {}
  BY DEF Init, InSchedule
<1>2. ASSUME NEW r \in Requests PROVE \E s : LedgerOf(r, s)
  <2>1. req[r] = Blank("NEW")
    BY DEF Init
  <2>2. /\ req[r].status = "NEW" /\ req[r].num_in_flight_tokens = 0
        /\ req[r].num_tokens = PromptLen /\ req[r].spec_token_ids = 0
        /\ req[r].num_stale_output_tokens = 0 /\ req[r].num_output_placeholders = 0
        /\ req[r].num_computed_tokens = 0
    BY <2>1 DEF Blank
  <2>3. PICK s : s = [i \in {0} |-> 0]
    OBVIOUS
  <2>4. Len(pipeline) = 0
    BY <1>1
  <2>5. SumsOf(s, r)
    BY <2>3, <2>4 DEF SumsOf
  <2>6. 0 < PromptLen /\ PromptLen < MaxModelLen
    BY ConstantsOK
  <2>7. ~Joining(r) /\ r \notin finished_req_ids /\ s[Len(pipeline)] = 0
    BY <1>1, <2>3, <2>4 DEF Joining
  <2>8. LedgerOf(r, s)
    BY <2>2, <2>5, <2>6, <2>7 DEF LedgerOf
  <2> QED
    BY <2>8
<1> QED
  BY <1>1, <1>2 DEF LedgerInv, PlanOf, InSchedule

\* The ledger holds in every reachable state.
LEMMA LedgerHolds == Spec => [](TypeOK /\ QueueInv /\ LedgerInv)
<1>1. Init => TypeOK /\ UpdatingOldest
  BY TypesInit, UpdatingOldestInit
<1>2. TypeOK /\ UpdatingOldest /\ [Next]_vars => TypeOK' /\ UpdatingOldest'
  BY TypesStep, UpdatingOldestStep
<1> QED
  BY <1>1, <1>2, QueuesHold, LedgerInit, LedgerStep, PTL DEF Spec

-----------------------------------------------------------------------------
(* What the ledger says *)

\* Every set of numbers has a least one.
LEMMA LeastNumber ==
  ASSUME NEW S, S \subseteq Nat, S # {}
  PROVE  \E m \in S : \A i \in S : m <= i
<1>1. IsWellFoundedOn(OpToRel(<, Nat), Nat)
  BY NatLessThanWellFounded
<1>2. PICK m \in S : \A i \in S : <<i, m>> \notin OpToRel(<, Nat)
  BY <1>1, WFMin
<1>3. ASSUME NEW i \in S PROVE m <= i
  <2>1. i \in Nat /\ m \in Nat /\ ~(i < m)
    BY <1>2 DEF OpToRel
  <2> QED
    BY <2>1
<1> QED
  BY <1>3

\* The tokens in flight are the last of the sums.
LEMMA InFlightIs ==
  ASSUME TypeOK, NEW r \in Requests, NEW s, SumsOf(s, r)
  PROVE  InFlight(r) = s[Len(pipeline)]
<1>0. PICK L : L = Len(pipeline)
  OBVIOUS
<1> DEFINE body(g) == [i \in 0..L |-> IF i = 0 THEN 0 ELSE g[i - 1] + pipeline[i].n[r]]
<1>1. L \in Nat
  BY <1>0, StepTypes
<1>2. s = body(s)
  <2>1. \A i \in 0..L : s[i] = IF i = 0 THEN 0 ELSE s[i - 1] + pipeline[i].n[r]
    BY <1>0, <1>1 DEF SumsOf
  <2>2. s = [i \in 0..L |-> s[i]]
    BY <1>0 DEF SumsOf
  <2> QED
    BY <2>1, <2>2
<1>3. PICK f : f = CHOOSE g : g = body(g)
  OBVIOUS
<1>4. f = body(f)
  BY <1>2, <1>3
<1>5. InFlight(r) = f[L]
  BY <1>0, <1>3 DEF InFlight
<1> HIDE DEF body
<1>6. \A i \in 0..L : f[i] = s[i]
  <2> SUFFICES ASSUME NEW j \in 0..L, f[j] # s[j] PROVE FALSE
    OBVIOUS
  <2> DEFINE S == {i \in 0..L : f[i] # s[i]}
  <2>1. S \subseteq Nat /\ j \in S
    BY <1>1
  <2>2. PICK m \in S : \A i \in S : m <= i
    BY <2>1, LeastNumber
  <2>3. m \in 0..L /\ f[m] # s[m]
    BY <2>2
  <2>4. m = 0 => f[m] = s[m]
    BY <1>1, <1>2, <1>4 DEF body
  <2>5. m # 0 => f[m - 1] = s[m - 1]
    BY <1>1, <2>2, <2>3
  <2>6. m # 0 => f[m] = f[m - 1] + pipeline[m].n[r] /\ s[m] = s[m - 1] + pipeline[m].n[r]
    BY <1>1, <1>2, <1>4, <2>3 DEF body
  <2> QED
    BY <2>3, <2>4, <2>5, <2>6
<1> QED
  BY <1>0, <1>1, <1>5, <1>6

\* The counters of a running request, in the terms of the steps in flight.
LEMMA RunningFollows ==
  ASSUME TypeOK, LedgerInv, NEW r \in Requests, req[r].status = "RUNNING", ~Joining(r)
  PROVE  \E s : \E k \in 0..Len(pipeline) : \E w \in [0..Len(pipeline) -> Slot] :
           LedgerOf(r, s) /\ SumsOf(s, r) /\ Follows(r, s, k, w)
<1>1. PICK s : LedgerOf(r, s)
  BY DEF LedgerInv
<1> QED
  BY <1>1 DEF LedgerOf

\* num_in_flight_tokens counts exactly the tokens of the steps in flight, and the
\* stale share never exceeds it, for every depth, policy and order of preemptions,
\* resets and resumptions.
THEOREM InFlightIsExact == Spec => []InFlightExact
<1>1. ASSUME TypeOK, LedgerInv PROVE InFlightExact
  <2> SUFFICES ASSUME NEW r \in Requests, Live(r)
               PROVE  /\ req[r].num_in_flight_tokens = InFlight(r)
                      /\ req[r].num_stale_output_tokens \in 0..InFlight(r)
    BY DEF InFlightExact
  <2>1. PICK s : LedgerOf(r, s)
    BY <1>1 DEF LedgerInv
  <2>2. PICK L : L = Len(pipeline)
    OBVIOUS
  <2>3. SumsOf(s, r) /\ L \in Nat /\ s[L] \in Nat
    BY <1>1, <2>1, <2>2, StepTypes DEF LedgerOf, SumsOf
  <2>4. InFlight(r) = s[L] /\ req[r].num_in_flight_tokens = s[L]
    BY <1>1, <2>1, <2>2, <2>3, InFlightIs DEF Live, LedgerOf
  <2>5. CASE Waits(r) \/ Joining(r)
    BY <2>1, <2>2, <2>3, <2>4, <2>5 DEF LedgerOf
  <2>6. CASE ~Waits(r) /\ ~Joining(r)
    <3>1. PICK k \in 0..L : req[r].num_stale_output_tokens = s[k]
      BY <2>1, <2>2, <2>6 DEF LedgerOf, Follows, Waits, Live
    <3>2. s[k] <= s[L] /\ s[k] \in Nat
      BY <2>2, <2>3 DEF SumsOf
    <3> QED
      BY <2>3, <2>4, <3>1, <3>2
  <2> QED
    BY <2>5, <2>6
<1> QED
  BY <1>1, LedgerHolds, PTL

\* The scheduler's optimistic position closes: it is the last promised token's, or
\* behind the known ones, whatever was rejected, trimmed or preempted before.
THEOREM PositionsAreExact == Spec => []PositionsExact
<1>1. ASSUME TypeOK, LedgerInv PROVE PositionsExact
  <2> SUFFICES ASSUME NEW r \in Requests, req[r].status = "RUNNING"
               PROVE  /\ req[r].num_output_placeholders >= 0
                      /\ IF req[r].num_output_placeholders = 0
                         THEN req[r].num_computed_tokens \in 0..(req[r].num_tokens - 1)
                         ELSE req[r].num_computed_tokens
                                = req[r].num_tokens + req[r].num_output_placeholders - 1
                      /\ req[r].num_computed_tokens < MaxModelLen
    BY DEF PositionsExact
  <2>0. PICK T, P, C : /\ T = req[r].num_tokens /\ P = req[r].num_output_placeholders
                       /\ C = req[r].num_computed_tokens
    OBVIOUS
  <2>1. T \in Int /\ P \in Int /\ C \in Int
    BY <1>1, <2>0, FieldTypes
  <2>2. C < MaxModelLen
    BY <1>1, <2>0 DEF LedgerInv, LedgerOf
  <2>3. P >= 0 /\ IF P = 0 THEN C \in 0..(T - 1) ELSE C = T + P - 1
    <3>1. CASE Joining(r)
      <4>1. P = 0 /\ 0 <= C /\ C < T
        BY <1>1, <2>0, <3>1 DEF LedgerInv, LedgerOf
      <4> QED
        BY <2>1, <4>1
    <3>2. CASE ~Joining(r)
      <4>1. PICK L : L = Len(pipeline)
        OBVIOUS
      <4>2. PICK s : \E k \in 0..L : \E w \in [0..L -> Slot] : Follows(r, s, k, w)
        BY <1>1, <3>2, <4>1, RunningFollows
      <4>3. PICK k \in 0..L : \E w \in [0..L -> Slot] : Follows(r, s, k, w)
        BY <4>2
      <4>4. PICK w \in [0..L -> Slot] : Follows(r, s, k, w)
        BY <4>3
      <4>5. L \in k..L /\ k \in k..L /\ k <= L
        BY <1>1, <4>1, <4>3, StepTypes
      <4>6. /\ Placed(w[L], T) /\ w[L].len = T + P /\ w[L].computed = C
            /\ w[k].len = T /\ w[k].len <= w[L].len
        BY <2>0, <4>1, <4>4, <4>5 DEF Follows, Forecast
      <4> QED
        BY <2>1, <4>6 DEF Placed
    <3> QED
      BY <3>1, <3>2
  <2> QED
    BY <2>0, <2>2, <2>3
<1> QED
  BY <1>1, LedgerHolds, PTL

\* With nothing in flight the worker's slot of a running request holds exactly what
\* the scheduler counts, after any history of rejected drafts and preemptions.
THEOREM WorkerIsInStep == Spec => []WorkerAgrees
<1>1. ASSUME TypeOK, LedgerInv PROVE WorkerAgrees
  <2> SUFFICES ASSUME pc = "idle", pipeline = <<>>, NEW r \in Requests,
                      req[r].status = "RUNNING"
               PROVE  slots[r] = [len |-> req[r].num_tokens,
                                  computed |-> req[r].num_computed_tokens]
    BY DEF WorkerAgrees
  <2>0. Len(pipeline) = 0
    OBVIOUS
  <2>1. ~Joining(r) /\ \A i : ~Added(r, i)
    BY <2>0 DEF Joining, InSchedule, Added, Pending
  <2>2. PICK s : \E k \in 0..0 : \E w \in [0..0 -> Slot] : Follows(r, s, k, w)
    BY <1>1, <2>0, <2>1, RunningFollows
  <2>3. PICK w \in [0..0 -> Slot] : Follows(r, s, 0, w)
    BY <2>2
  <2>4. /\ w[0] = slots[r] /\ w[0].len = req[r].num_tokens
        /\ w[0].computed = req[r].num_computed_tokens
    BY <2>0, <2>1, <2>3 DEF Follows, Forecast
  <2>5. slots[r] \in Slot
    BY <1>1, FieldTypes
  <2> QED
    BY <2>4, <2>5 DEF Slot
<1> QED
  BY <1>1, LedgerHolds, PTL

-----------------------------------------------------------------------------
(* Output that a preempted request still waits for *)

\* The worker's slot that step k + 1 starts r from.
Base(r, k) == IF Added(r, k + 1) THEN pipeline[k + 1].add[r] ELSE slots[r]

\* Every step that computes for r lies behind step k, which leaves r's tokens in its
\* slot, and the slot is not touched in between.
Delivers(r, k) ==
  /\ Added(r, k + 1) \/ k = 0
  /\ Base(r, k).len = req[r].num_tokens
  /\ \A i \in 1..Len(pipeline) : pipeline[i].n[r] # 0 =>
       /\ i > k
       /\ \A j \in (k + 1)..i : Touched(r, j) => j = k + 1 /\ Added(r, j)

\* A request that is not resumed before its stale output came will get it in order.
DeliveryOf(r) ==
  Waits(r) /\ AwaitsStaleOutput(r) => \E k \in 0..Len(pipeline) : Delivers(r, k)

\* The inductive invariant behind the order of outputs.
OutputInv == \A r \in Requests : DeliveryOf(r)

\* What SameSteps leaves alone, the delivery does not see.
LEMMA KeptDelivery ==
  ASSUME TypeOK, NEW r \in Requests, DeliveryOf(r), SameSteps(r), SameCounters(r)
  PROVE  DeliveryOf(r)'
<1> SUFFICES ASSUME Waits(r)', AwaitsStaleOutput(r)'
             PROVE  \E k \in 0..Len(pipeline') : Delivers(r, k)'
  BY DEF DeliveryOf
<1>1. Pending' = Pending /\ Len(pipeline') = Len(pipeline) /\ Len(pipeline) \in Nat
  BY StepTypes DEF SameSteps, Pending
<1>2. \A i : i \in Pending => i \in 1..Len(pipeline)
  BY DEF Pending
<1>3. \A i : (Added(r, i)' <=> Added(r, i)) /\ (Touched(r, i)' <=> Touched(r, i))
  BY <1>1, <1>2 DEF Added, Touched, SameSteps
<1>4. PICK k \in 0..Len(pipeline) : Delivers(r, k)
  BY DEF DeliveryOf, Waits, AwaitsStaleOutput, SameCounters
<1>5. Base(r, k)' = Base(r, k)
  <2>1. Added(r, k + 1) => k + 1 \in 1..Len(pipeline)
    BY <1>2 DEF Added
  <2>2. slots'[r] = slots[r] /\ (Added(r, k + 1)' <=> Added(r, k + 1))
    BY <1>3 DEF SameSteps
  <2>3. Added(r, k + 1) => pipeline'[k + 1].add[r] = pipeline[k + 1].add[r]
    BY <2>1 DEF SameSteps
  <2> QED
    BY <2>2, <2>3 DEF Base
<1>6. \A i \in 1..Len(pipeline') : pipeline'[i].n[r] # 0 =>
        /\ i > k
        /\ \A j \in (k + 1)..i : Touched(r, j)' => j = k + 1 /\ Added(r, j)'
  BY <1>1, <1>3, <1>4 DEF Delivers, SameSteps
<1>7. Delivers(r, k)'
  BY <1>3, <1>4, <1>5, <1>6 DEF Delivers, SameCounters
<1> QED
  BY <1>1, <1>7

\* A running request that is preempted with nothing stale in flight has all of its
\* output still to come, from the step its ledger starts from.
LEMMA EvictedDelivery ==
  ASSUME TypeOK, LedgerInv, NEW r \in Requests, NEW drop, req[r].status = "RUNNING",
         ~Joining(r), SameSteps(r), req'[r] = Preempted(r, drop)
  PROVE  DeliveryOf(r)'
<1> SUFFICES ASSUME AwaitsStaleOutput(r)'
             PROVE  \E k \in 0..Len(pipeline') : Delivers(r, k)'
  BY DEF DeliveryOf
<1>0. PICK L : L = Len(pipeline)
  OBVIOUS
<1>1. PICK s : \E k \in 0..L : \E w \in [0..L -> Slot] :
        LedgerOf(r, s) /\ SumsOf(s, r) /\ Follows(r, s, k, w)
  BY <1>0, RunningFollows
<1>2. PICK k \in 0..L : \E w \in [0..L -> Slot] :
        LedgerOf(r, s) /\ SumsOf(s, r) /\ Follows(r, s, k, w)
  BY <1>1
<1>3. PICK w \in [0..L -> Slot] : LedgerOf(r, s) /\ SumsOf(s, r) /\ Follows(r, s, k, w)
  BY <1>2
<1>4. ~DropsStale(r, drop)
  BY PreemptedFields DEF AwaitsStaleOutput
<1>5. req[r].num_stale_output_tokens = s[k]
  BY <1>3 DEF Follows
<1>6. s[k] = 0 /\ s[0] = 0 /\ L \in Nat
  <2>1. s[k] > 0 => req[r].drop_stale_output
    BY <1>3, <1>5 DEF LedgerOf
  <2>2. ~(s[k] > 0)
    BY <1>4, <1>5, <2>1 DEF DropsStale
  <2>3. s[k] \in Nat /\ s[0] = 0 /\ L \in Nat
    BY <1>0, <1>3, StepTypes DEF SumsOf
  <2> QED
    BY <2>2, <2>3
<1>7. Pending' = Pending /\ Len(pipeline') = L
  BY <1>0, StepTypes DEF SameSteps, Pending
<1>8. \A i : i \in Pending => i \in 1..L
  BY <1>0 DEF Pending
<1>9. \A i : (Added(r, i)' <=> Added(r, i)) /\ (Touched(r, i)' <=> Touched(r, i))
  BY <1>0, <1>7, <1>8 DEF Added, Touched, SameSteps
<1>10. Base(r, k)' = w[k]
  <2>1. Added(r, k + 1) => k + 1 \in 1..L
    BY <1>8 DEF Added
  <2>2. slots'[r] = slots[r] /\ (Added(r, k + 1)' <=> Added(r, k + 1))
    BY <1>9 DEF SameSteps
  <2>3. Added(r, k + 1) => pipeline'[k + 1].add[r] = pipeline[k + 1].add[r]
    BY <1>0, <2>1 DEF SameSteps
  <2>4. w[k] = IF Added(r, k + 1) THEN pipeline[k + 1].add[r] ELSE slots[r]
    BY <1>3 DEF Follows
  <2> QED
    BY <2>2, <2>3, <2>4 DEF Base
<1>11. w[k].len = req'[r].num_tokens
  BY <1>3, PreemptedFields DEF Follows, Forecast
<1>12. ASSUME NEW i \in 1..L, pipeline'[i].n[r] # 0
       PROVE  /\ i > k
              /\ \A j \in (k + 1)..i : Touched(r, j)' => j = k + 1 /\ Added(r, j)'
  <2>1. pipeline[i].n[r] # 0 /\ pipeline[i].n[r] \in Int
    BY <1>0, <1>12, StepTypes DEF SameSteps
  <2>2. s[i] = s[i - 1] + pipeline[i].n[r] /\ s[i] \in Nat /\ s[i - 1] \in Nat
    BY <1>0, <1>3 DEF SumsOf
  <2>3. s[i - 1] <= s[i] /\ (i <= k => s[i] <= s[k])
    <3>1. i - 1 \in 0..L /\ i \in 0..L /\ i - 1 <= i
      BY <1>6
    <3> QED
      BY <1>0, <1>2, <1>3, <3>1 DEF SumsOf
  <2>4. i > k
    <3>1. s[i] > 0
      BY <2>1, <2>2, <2>3
    <3>2. ~(i <= k)
      BY <1>6, <2>2, <2>3, <3>1
    <3> QED
      BY <1>2, <1>6, <3>2
  <2>5. \A j \in (k + 1)..L : Touched(r, j) => j = k + 1 /\ Added(r, j)
    BY <1>0, <1>3 DEF Follows
  <2>6. \A j \in (k + 1)..i : j \in (k + 1)..L
    BY <1>6
  <2> QED
    BY <1>9, <2>4, <2>5, <2>6
<1>13. Added(r, k + 1)' \/ k = 0
  BY <1>3, <1>9 DEF Follows
<1>14. Delivers(r, k)'
  BY <1>7, <1>10, <1>11, <1>12, <1>13 DEF Delivers
<1> QED
  BY <1>2, <1>7, <1>14

\* A sum that is not zero has a step that is not.
LEMMA SomeStep ==
  ASSUME NEW r, NEW s, SumsOf(s, r), Len(pipeline) \in Nat, s[Len(pipeline)] > 0
  PROVE  \E i \in 1..Len(pipeline) : pipeline[i].n[r] # 0
<1>0. PICK L : L = Len(pipeline)
  OBVIOUS
<1> DEFINE S == {i \in 0..L : s[i] > 0}
<1>1. L \in Nat /\ S \subseteq Nat /\ L \in S
  BY <1>0
<1>2. PICK m \in S : \A i \in S : m <= i
  BY <1>1, LeastNumber
<1>3. m \in 0..L /\ s[m] > 0 /\ s[0] = 0
  BY <1>0, <1>2 DEF SumsOf
<1>4. m \in 1..L /\ m - 1 \in 0..L
  BY <1>1, <1>3
<1>5. s[m - 1] \in Nat /\ ~(s[m - 1] > 0)
  BY <1>0, <1>1, <1>2, <1>4 DEF SumsOf
<1>6. s[m] = s[m - 1] + pipeline[m].n[r]
  BY <1>0, <1>4 DEF SumsOf
<1>7. pipeline[m].n[r] # 0
  BY <1>3, <1>5, <1>6
<1> QED
  BY <1>0, <1>4, <1>7

\* A request that awaits stale output has a step in flight.
LEMMA AwaitedStep ==
  ASSUME TypeOK, LedgerInv, NEW r \in Requests, Waits(r), AwaitsStaleOutput(r)
  PROVE  \E i \in 1..Len(pipeline) : pipeline[i].n[r] # 0
<1>1. PICK s : LedgerOf(r, s)
  BY DEF LedgerInv
<1>2. SumsOf(s, r) /\ s[Len(pipeline)] > 0
  BY <1>1 DEF LedgerOf, AwaitsStaleOutput
<1> QED
  BY <1>2, SomeStep, StepTypes

\* Sending a step that does not compute the request.
LEMMA SentDelivery ==
  ASSUME TypeOK, LedgerInv, NEW r \in Requests, DeliveryOf(r), EndSchedule
  PROVE  DeliveryOf(r)'
<1>0. PICK L : L = Len(pipeline)
  OBVIOUS
<1> SUFFICES ASSUME Waits(r)', AwaitsStaleOutput(r)'
             PROVE  \E k \in 0..Len(pipeline') : Delivers(r, k)'
  BY DEF DeliveryOf
<1>1. /\ L \in Nat /\ Len(pipeline') = L + 1 /\ slots' = slots /\ pc = "finish"
      /\ \A i \in 1..L : pipeline'[i] = pipeline[i]
      /\ pipeline'[L + 1].n[r] = num_scheduled_tokens[r]
      /\ Pending = 1..L /\ Pending' = 1..(L + 1)
  BY <1>0, SentStep, StepTypes
<1>2. PICK seq, k : req'[r] = AfterSchedule(r, seq, k)
  BY DEF EndSchedule
<1>3. Waits(r) /\ AwaitsStaleOutput(r) /\ req'[r].num_tokens = req[r].num_tokens
  BY <1>2, SentFields DEF Waits, AwaitsStaleOutput
<1>4. num_scheduled_tokens[r] = 0
  <2>1. PlanOf(r) /\ InSchedule /\ req[r].status # "RUNNING"
    BY <1>1, <1>3 DEF LedgerInv, InSchedule, Waits
  <2>2. num_scheduled_tokens[r] \in Int
    BY FieldTypes
  <2> QED
    BY <2>1, <2>2 DEF PlanOf
<1>5. PICK m \in 0..L : Delivers(r, m)
  BY <1>0, <1>3 DEF DeliveryOf
<1>6. \A i \in 1..L : (Added(r, i)' <=> Added(r, i)) /\ (Touched(r, i)' <=> Touched(r, i))
  BY <1>1 DEF Added, Touched
<1>7. m + 1 \in 1..L
  <2>1. PICK i \in 1..L : pipeline[i].n[r] # 0
    BY <1>0, <1>3, AwaitedStep
  <2>2. i > m
    BY <1>0, <1>5, <2>1 DEF Delivers
  <2> QED
    BY <1>1, <2>2
<1>8. Base(r, m)' = Base(r, m)
  BY <1>1, <1>6, <1>7 DEF Base
<1>9. ASSUME NEW i \in 1..Len(pipeline'), pipeline'[i].n[r] # 0
      PROVE  /\ i > m
             /\ \A j \in (m + 1)..i : Touched(r, j)' => j = m + 1 /\ Added(r, j)'
  <2>1. i \in 1..L
    BY <1>1, <1>4, <1>9
  <2>2. /\ i > m
        /\ \A j \in (m + 1)..i : Touched(r, j) => j = m + 1 /\ Added(r, j)
    BY <1>0, <1>1, <1>5, <1>9, <2>1 DEF Delivers
  <2>3. \A j \in (m + 1)..i : j \in 1..L
    BY <1>1, <1>5, <2>1
  <2> QED
    BY <1>6, <2>2, <2>3
<1>10. Delivers(r, m)'
  BY <1>3, <1>5, <1>6, <1>7, <1>8, <1>9 DEF Delivers
<1> QED
  BY <1>1, <1>5, <1>10

\* The worker starts the oldest step: it creates the slot r starts from, or leaves
\* it as it is.
LEMMA RunDelivery ==
  ASSUME TypeOK, LedgerInv, NEW r \in Requests, DeliveryOf(r), BeginUpdate
  PROVE  DeliveryOf(r)'
<1>0. PICK L : L = Len(pipeline)
  OBVIOUS
<1> SUFFICES ASSUME Waits(r)', AwaitsStaleOutput(r)'
             PROVE  \E k \in 0..Len(pipeline') : Delivers(r, k)'
  BY DEF DeliveryOf
<1>1. /\ L \in Nat /\ L >= 1 /\ Len(pipeline') = L /\ req' = req /\ ~Updating /\ Updating'
      /\ \A i \in 1..L :
           /\ pipeline'[i].n = pipeline[i].n /\ pipeline'[i].add = pipeline[i].add
           /\ pipeline'[i].free = pipeline[i].free
      /\ slots'[r] = SlotBefore(pipeline[1], r)
  BY <1>0, RunStep, StepTypes
<1>2. Pending = 1..L /\ Pending' = 2..L
  BY <1>0, <1>1 DEF Pending
<1>3. Waits(r) /\ AwaitsStaleOutput(r)
  BY <1>1 DEF Waits, AwaitsStaleOutput
<1>4. PICK m \in 0..L : Delivers(r, m)
  BY <1>0, <1>3 DEF DeliveryOf
<1>5. PICK i \in 1..L : pipeline[i].n[r] # 0
  BY <1>0, <1>3, AwaitedStep
<1>6. /\ i > m /\ m + 1 \in 1..L
      /\ \A j \in (m + 1)..i : Touched(r, j) => j = m + 1 /\ Added(r, j)
  <2>1. /\ i > m
        /\ \A j \in (m + 1)..i : Touched(r, j) => j = m + 1 /\ Added(r, j)
    BY <1>0, <1>4, <1>5 DEF Delivers
  <2> QED
    BY <1>1, <1>5, <2>1
<1>7. \A j \in 2..L : (Added(r, j)' <=> Added(r, j)) /\ (Touched(r, j)' <=> Touched(r, j))
  <2>1. \A j \in 2..L : j \in 1..L
    OBVIOUS
  <2> QED
    BY <1>1, <1>2, <2>1 DEF Added, Touched
<1>8. ~Added(r, 1)' /\ ~Touched(r, 1)'
  BY <1>2 DEF Added, Touched
<1>9. Base(r, m)' = Base(r, m)
  <2>1. CASE m = 0
    <3>1. Base(r, 0)' = slots'[r]
      BY <1>8 DEF Base
    <3>2. CASE Added(r, 1)
      <4>1. pipeline[1].add[r] # NoSlot /\ Base(r, 0) = pipeline[1].add[r]
        BY <3>2 DEF Added, Base
      <4> QED
        BY <1>1, <2>1, <3>1, <4>1 DEF SlotBefore
    <3>3. CASE ~Added(r, 1)
      <4>1. 1 \in (m + 1)..i /\ 1 \in Pending
        BY <1>1, <1>2, <1>6, <2>1
      <4>2. ~Touched(r, 1)
        BY <1>6, <3>3, <4>1
      <4>3. r \notin pipeline[1].free /\ pipeline[1].add[r] = NoSlot
        BY <4>1, <4>2 DEF Touched
      <4> QED
        BY <1>1, <2>1, <3>1, <3>3, <4>3 DEF SlotBefore, Base
    <3> QED
      BY <3>2, <3>3
  <2>2. CASE m # 0
    <3>1. m + 1 \in 2..L /\ m + 1 \in 1..L
      BY <1>1, <1>6, <2>2
    <3>2. Added(r, m + 1) /\ Added(r, m + 1)'
      BY <1>4, <1>7, <2>2, <3>1 DEF Delivers
    <3> QED
      BY <1>1, <3>1, <3>2 DEF Base
  <2> QED
    BY <2>1, <2>2
<1>10. ASSUME NEW l \in 1..Len(pipeline'), pipeline'[l].n[r] # 0
       PROVE  /\ l > m
              /\ \A j \in (m + 1)..l : Touched(r, j)' => j = m + 1 /\ Added(r, j)'
  <2>1. l \in 1..L /\ pipeline[l].n[r] # 0
    BY <1>1, <1>10
  <2>2. /\ l > m
        /\ \A j \in (m + 1)..l : Touched(r, j) => j = m + 1 /\ Added(r, j)
    BY <1>0, <1>4, <2>1 DEF Delivers
  <2>3. ASSUME NEW j \in (m + 1)..l, Touched(r, j)' PROVE j = m + 1 /\ Added(r, j)'
    <3>0. j # 1
      BY <1>8, <2>3
    <3>1. j \in 2..L
      BY <1>1, <1>4, <2>1, <3>0
    <3> QED
      BY <1>7, <2>2, <2>3, <3>1
  <2> QED
    BY <2>2, <2>3
<1>11. Added(r, m + 1)' \/ m = 0
  <2>1. m # 0 => m + 1 \in 2..L
    BY <1>1, <1>6
  <2> QED
    BY <1>4, <1>7, <2>1 DEF Delivers
<1>12. Delivers(r, m)'
  BY <1>1, <1>4, <1>9, <1>10, <1>11 DEF Delivers
<1> QED
  BY <1>1, <1>4, <1>12

\* Output delivered for r: its tokens are the slot's again.
LEMMA DrainedDelivery ==
  ASSUME TypeOK, LedgerInv, NEW r \in Requests, DeliveryOf(r), pipeline # <<>>,
         NEW accepted \in Int, NEW appended \in Int, NEW eos \in BOOLEAN,
         UpdateRequest(r, accepted, appended, eos)
  PROVE  DeliveryOf(r)'
<1>0. PICK L : L = Len(pipeline)
  OBVIOUS
<1> SUFFICES ASSUME Waits(r)', AwaitsStaleOutput(r)'
             PROVE  \E k \in 0..Len(pipeline') : Delivers(r, k)'
  BY DEF DeliveryOf
<1> DEFINE spec == pipeline[1].spec[r]
           rejected == IF Samples(r) THEN spec - accepted ELSE 0
<1>1. /\ L \in Nat /\ Len(pipeline') = L /\ 1 \in 1..L /\ Updating /\ Updating'
      /\ \A i \in 1..L : i # 1 => pipeline'[i] = pipeline[i]
      /\ pipeline'[1].add = pipeline[1].add /\ pipeline'[1].free = pipeline[1].free
      /\ pipeline[1].n[r] # 0 /\ pipeline'[1].n[r] = 0
      /\ slots'[r] = IF Samples(r)
           THEN [len |-> slots[r].len + accepted + 1,
                 computed |-> slots[r].computed + pipeline[1].n[r]
                                - (pipeline[1].spec[r] - accepted)]
           ELSE [len |-> slots[r].len, computed |-> slots[r].computed + pipeline[1].n[r]]
  BY <1>0, DrainedStep, StepTypes
<1>2. ~FinishRequest(r)
  <2> SUFFICES ASSUME FinishRequest(r) PROVE FALSE
    OBVIOUS
  <2>1. req'[r].status = "FINISHED"
    BY DEF FinishRequest, TypeOK, Blank
  <2> QED
    BY <2>1 DEF Waits
<1>3. /\ Waits(r) /\ AwaitsStaleOutput(r)
      /\ slots'[r].len - req'[r].num_tokens = slots[r].len - req[r].num_tokens
      /\ req'[r].num_tokens \in Int
  <2>0. /\ slots[r].len \in Int /\ req[r].num_tokens \in Int
        /\ req[r].num_stale_output_tokens \in Int
    BY FieldTypes DEF Slot
  <2>1. CASE ~Live(r) /\ req' = req
    <3>1. Waits(r) /\ req[r].status = "NEW" /\ AwaitsStaleOutput(r)
      BY <2>1 DEF Waits, Live, AwaitsStaleOutput
    <3>2. PICK s : LedgerOf(r, s)
      BY DEF LedgerInv
    <3>3. req[r].num_stale_output_tokens = 0
      BY <3>1, <3>2 DEF LedgerOf
    <3> QED
      BY <3>1, <3>3 DEF AwaitsStaleOutput
  <2>2. CASE /\ IsStale(r) /\ req[r].drop_stale_output
             /\ req' = [req EXCEPT ![r] = Counted(r)]
    <3>1. req'[r] = Counted(r)
      BY <2>2 DEF TypeOK
    <3> QED
      BY <2>2, <3>1, CountedFields DEF AwaitsStaleOutput
  <2>3. CASE /\ ~(IsStale(r) /\ req[r].drop_stale_output)
             /\ req' = [req EXCEPT ![r] = Corrected(r, rejected, appended)]
             /\ appended = IF Samples(r) THEN accepted + 1 ELSE 0
    <3>1. req'[r] = Corrected(r, rejected, appended)
      BY <2>3 DEF TypeOK
    <3>2. /\ req'[r].status = req[r].status
          /\ req'[r].num_tokens = req[r].num_tokens + appended
          /\ req'[r].num_stale_output_tokens = Counted(r).num_stale_output_tokens
          /\ req'[r].drop_stale_output = req[r].drop_stale_output
      BY <3>1, CorrectedFields
    <3>3. Waits(r)
      BY <3>2 DEF Waits
    <3>4. AwaitsStaleOutput(r)
      <4>1. Counted(r).num_stale_output_tokens > 0 /\ ~req[r].drop_stale_output
        BY <3>2 DEF AwaitsStaleOutput
      <4>2. IsStale(r)
        BY <4>1, CountedFields DEF IsStale
      <4> QED
        BY <4>1, <4>2 DEF AwaitsStaleOutput, IsStale
    <3>5. slots'[r].len = slots[r].len + appended
      BY <1>1, <2>0, <2>3
    <3> QED
      BY <2>0, <3>2, <3>3, <3>4, <3>5
  <2> QED
    BY <1>2, <2>1, <2>2, <2>3, DrainedCases
<1>4. PICK m \in 0..L : Delivers(r, m)
  BY <1>0, <1>3 DEF DeliveryOf
<1>5. m = 0
  <2>1. 1 > m
    BY <1>0, <1>1, <1>4 DEF Delivers
  <2> QED
    BY <2>1
<1>6. ~Added(r, 1) /\ ~Added(r, 1)'
  BY <1>1 DEF Added, Pending
<1>7. Base(r, 0)'.len = req'[r].num_tokens
  <2>1. slots[r].len = req[r].num_tokens
    BY <1>4, <1>5, <1>6 DEF Delivers, Base
  <2>2. slots'[r].len \in Int /\ slots[r].len \in Int /\ req[r].num_tokens \in Int
    <3>1. slots[r].len \in Int /\ req[r].num_tokens \in Int
      BY FieldTypes DEF Slot
    <3> QED
      BY <1>1, <3>1
  <2>3. slots'[r].len = req'[r].num_tokens
    BY <1>3, <2>1, <2>2
  <2> QED
    BY <1>6, <2>3 DEF Base
<1>8. Pending' = Pending
  BY <1>0, <1>1 DEF Pending
<1>9. \A j \in 1..L : (Added(r, j)' <=> Added(r, j)) /\ (Touched(r, j)' <=> Touched(r, j))
  BY <1>1, <1>8 DEF Added, Touched
<1>10. ASSUME NEW l \in 1..Len(pipeline'), pipeline'[l].n[r] # 0
       PROVE  /\ l > 0
              /\ \A j \in (0 + 1)..l : Touched(r, j)' => j = 0 + 1 /\ Added(r, j)'
  <2>1. l \in 1..L /\ pipeline[l].n[r] # 0
    BY <1>1, <1>10
  <2>2. \A j \in (0 + 1)..l : Touched(r, j) => j = 0 + 1 /\ Added(r, j)
    BY <1>0, <1>4, <1>5, <2>1 DEF Delivers
  <2>3. \A j \in (0 + 1)..l : j \in 1..L
    BY <1>1, <2>1
  <2> QED
    BY <1>9, <2>1, <2>2, <2>3
<1>11. Delivers(r, 0)'
  BY <1>7, <1>10 DEF Delivers
<1> QED
  BY <1>1, <1>11

\* The oldest step leaves the pipeline: the others move up.
LEMMA PoppedDelivery ==
  ASSUME TypeOK, UpdatingOldest, LedgerInv, NEW r \in Requests, DeliveryOf(r), EndUpdate
  PROVE  DeliveryOf(r)'
<1>0. PICK L : L = Len(pipeline)
  OBVIOUS
<1> SUFFICES ASSUME Waits(r)', AwaitsStaleOutput(r)'
             PROVE  \E k \in 0..Len(pipeline') : Delivers(r, k)'
  BY DEF DeliveryOf
<1>1. /\ L \in Nat /\ L >= 1 /\ Len(pipeline') = L - 1 /\ req' = req /\ slots' = slots
      /\ \A i \in 1..(L - 1) : pipeline'[i] = pipeline[i + 1]
      /\ pipeline[1].n[r] = 0 /\ Updating /\ ~Updating'
  BY <1>0, PoppedStep, StepTypes
<1>2. Pending = 2..L /\ Pending' = 1..(L - 1)
  BY <1>0, <1>1 DEF Pending
<1>3. Waits(r) /\ AwaitsStaleOutput(r)
  BY <1>1 DEF Waits, AwaitsStaleOutput
<1>4. PICK m \in 0..L : Delivers(r, m)
  BY <1>0, <1>3 DEF DeliveryOf
<1>5. PICK i \in 1..L : pipeline[i].n[r] # 0
  BY <1>0, <1>3, AwaitedStep
<1>6. /\ i > m /\ i >= 2
      /\ \A j \in (m + 1)..i : Touched(r, j) => j = m + 1 /\ Added(r, j)
  <2>1. /\ i > m
        /\ \A j \in (m + 1)..i : Touched(r, j) => j = m + 1 /\ Added(r, j)
    BY <1>0, <1>4, <1>5 DEF Delivers
  <2>2. i # 1
    BY <1>1, <1>5
  <2> QED
    BY <2>1, <2>2
<1>7. \A j \in 1..(L - 1) : /\ Added(r, j)' <=> Added(r, j + 1)
                            /\ Touched(r, j)' <=> Touched(r, j + 1)
  <2> TAKE j \in 1..(L - 1)
  <2>1. j \in Pending' /\ j + 1 \in Pending /\ pipeline'[j] = pipeline[j + 1]
    BY <1>1, <1>2
  <2> QED
    BY <2>1 DEF Added, Touched
<1>8. PICK k : k = IF m = 0 THEN 0 ELSE m - 1
  OBVIOUS
<1>9. k \in 0..(L - 1) /\ k + 1 \in 1..(L - 1)
  BY <1>1, <1>5, <1>6, <1>8
<1>10. ~Added(r, 1)
  BY <1>2 DEF Added
<1>11. m = 0 => ~Added(r, 1)'
  <2>1. m = 0 => 2 \in (m + 1)..i /\ 2 # m + 1
    BY <1>6
  <2>2. m = 0 => ~Touched(r, 2)
    BY <1>6, <2>1
  <2>3. ~Touched(r, 2) => ~Added(r, 2)
    BY DEF Touched, Added
  <2>4. 1 \in 1..(L - 1) /\ 1 + 1 = 2
    BY <1>1, <1>5, <1>6
  <2> QED
    BY <1>7, <2>2, <2>3, <2>4
<1>12. Base(r, k)' = Base(r, m) /\ (Added(r, k + 1)' \/ k = 0)
  <2>1. CASE m = 0
    BY <1>1, <1>8, <1>10, <1>11, <2>1 DEF Base
  <2>2. CASE m # 0
    <3>1. k + 1 = m /\ Added(r, m + 1)
      BY <1>4, <1>8, <2>2 DEF Delivers
    <3>2. Added(r, k + 1)' /\ pipeline'[k + 1] = pipeline[m + 1]
      BY <1>1, <1>7, <1>9, <3>1
    <3> QED
      BY <3>1, <3>2 DEF Base
  <2> QED
    BY <2>1, <2>2
<1>13. ASSUME NEW l \in 1..Len(pipeline'), pipeline'[l].n[r] # 0
       PROVE  /\ l > k
              /\ \A j \in (k + 1)..l : Touched(r, j)' => j = k + 1 /\ Added(r, j)'
  <2>1. l \in 1..(L - 1) /\ l + 1 \in 1..L /\ pipeline[l + 1].n[r] # 0
    BY <1>1, <1>13
  <2>2. /\ l + 1 > m
        /\ \A j \in (m + 1)..(l + 1) : Touched(r, j) => j = m + 1 /\ Added(r, j)
    BY <1>0, <1>4, <2>1 DEF Delivers
  <2>3. l > k
    BY <1>8, <2>1, <2>2
  <2>4. ASSUME NEW j \in (k + 1)..l, Touched(r, j)' PROVE j = k + 1 /\ Added(r, j)'
    <3>1. j \in 1..(L - 1) /\ j + 1 \in (m + 1)..(l + 1)
      BY <1>1, <1>4, <1>8, <1>9, <2>1
    <3>2. Touched(r, j + 1)
      BY <1>7, <2>4, <3>1
    <3>3. j + 1 = m + 1 /\ Added(r, j + 1)
      BY <2>2, <3>1, <3>2
    <3>4. Added(r, j)'
      BY <1>7, <3>1, <3>3
    <3>5. j = k + 1
      BY <1>8, <3>1, <3>3
    <3> QED
      BY <3>4, <3>5
  <2> QED
    BY <2>3, <2>4
<1>14. Delivers(r, k)'
  BY <1>1, <1>4, <1>12, <1>13 DEF Delivers
<1> QED
  BY <1>1, <1>9, <1>14

\* Steps that leave the pipeline alone deliver nothing: what a request awaits after
\* one it awaited before.
LEMMA QuietDelivery ==
  ASSUME TypeOK, OutputInv, NEW r \in Requests, UNCHANGED <<pipeline, slots>>,
         Updating' = Updating, SameCounters(r) \/ ~(Waits(r)' /\ AwaitsStaleOutput(r)')
  PROVE  DeliveryOf(r)'
<1>1. SameSteps(r)
  BY DEF SameSteps
<1> QED
  BY <1>1, KeptDelivery DEF OutputInv, DeliveryOf

\* Steps that change no request and nothing in flight.
LEMMA UntouchedDelivery ==
  ASSUME TypeOK, OutputInv, UNCHANGED <<req, pipeline, slots>>, Updating' = Updating
  PROVE  OutputInv'
BY QuietDelivery DEF OutputInv, SameCounters

\* Every step keeps the outputs in order.
LEMMA OutputStep ==
  ASSUME TypeOK, UpdatingOldest, QueueInv, LedgerInv, OutputInv, [Next]_vars
  PROVE  OutputInv'
<1> USE DEF queueVars, blockVars, seqVars, idVars, stepVars, ctrlVars, localVars
<1>1. ASSUME NEW r \in Requests, AddRequest(r) PROVE OutputInv'
  <2>1. /\ pc = "idle" /\ pc' = pc /\ req[r].status = "NEW"
        /\ req' = [req EXCEPT ![r].status = "WAITING"] /\ UNCHANGED <<pipeline, slots>>
    BY <1>1 DEF AddRequest
  <2>2. Updating' = Updating /\ req[r] \in ReqFields
    BY <2>1 DEF Updating, TypeOK
  <2>3. PICK s : LedgerOf(r, s)
    BY DEF LedgerInv
  <2>4. req[r].num_stale_output_tokens = 0
    BY <2>1, <2>3 DEF LedgerOf, Waits
  <2>5. req'[r].num_stale_output_tokens = 0
    BY <2>1, <2>2, <2>4 DEF TypeOK, ReqFields
  <2>6. ~AwaitsStaleOutput(r)'
    BY <2>5 DEF AwaitsStaleOutput
  <2>7. \A q \in Requests : q # r => SameCounters(q)
    BY <2>1 DEF SameCounters, TypeOK
  <2> QED
    BY <2>1, <2>2, <2>6, <2>7, QuietDelivery DEF OutputInv
<1>2. ASSUME NEW r \in Requests, Abort(r) PROVE OutputInv'
  <2>1. /\ req' = [req EXCEPT ![r] = Blank("FINISHED")] /\ UNCHANGED <<pipeline, slots, pc>>
    BY <1>2 DEF Abort, FinishRequest
  <2>2. ~Waits(r)' /\ Updating' = Updating
    BY <2>1 DEF Waits, Blank, Updating, TypeOK
  <2>3. \A q \in Requests : q # r => SameCounters(q)
    BY <2>1 DEF SameCounters, TypeOK
  <2> QED
    BY <2>1, <2>2, <2>3, QuietDelivery DEF OutputInv
<1>3. ASSUME NEW r \in Requests, NEW drop, PreemptRequest(r, drop),
             req[r].status = "RUNNING", ~Joining(r), UNCHANGED <<pipeline, slots>>,
             Updating' = Updating
      PROVE  OutputInv'
  <2>1. req' = [req EXCEPT ![r] = Preempted(r, drop)]
    BY <1>3 DEF PreemptRequest
  <2>2. SameSteps(r) /\ req'[r] = Preempted(r, drop)
    BY <1>3, <2>1 DEF SameSteps, TypeOK
  <2>3. DeliveryOf(r)'
    BY <1>3, <2>2, EvictedDelivery
  <2>4. \A q \in Requests : q # r => SameCounters(q)
    BY <2>1 DEF SameCounters, TypeOK
  <2> QED
    BY <1>3, <2>3, <2>4, QuietDelivery DEF OutputInv
<1>4. CASE ResetPreempt
  <2>1. PICK r : r = running[Len(running)]
    OBVIOUS
  <2>2. r \in Requests /\ Contains(running, r)
    <3>1. r \in Requests /\ Len(running) \in 1..Len(running)
      BY <1>4, <2>1, TailFrontType, LenProperties DEF ResetPreempt, TypeOK
    <3> QED
      BY <2>1, <3>1 DEF Contains
  <2>3. /\ PreemptRequest(r, TRUE) /\ pc = "reset" /\ pc' = "reset"
        /\ UNCHANGED <<pipeline, slots>>
    BY <1>4, <2>1 DEF ResetPreempt
  <2>4. /\ req[r].status = "RUNNING" /\ ~Joining(r) /\ Updating' = Updating
    BY <2>2, <2>3 DEF QueueInv, Joining, InSchedule, Updating
  <2> QED
    BY <1>3, <2>2, <2>3, <2>4
<1>5. ASSUME NEW r \in Requests, NEW v \in Requests, PreemptVictim(r, v) PROVE OutputInv'
  <2>1. /\ PreemptRequest(v, RequiresKVDelivery) /\ Contains(running, v)
        /\ pc = "running" /\ pc' \in {"running", "finish"} /\ UNCHANGED <<pipeline, slots>>
    BY <1>5 DEF PreemptVictim, LacksBlocks, Wants, AtRunning, IsVictim
  <2>2. req[v].status = "RUNNING" /\ ~Joining(v) /\ Updating' = Updating
    BY <2>1 DEF QueueInv, LedgerInv, Joining, Updating
  <2> QED
    BY <1>3, <2>1, <2>2
<1>6. ASSUME NEW r \in Requests, NEW n, ScheduleRunning(r, n) PROVE OutputInv'
  <2>1. /\ req' = [req EXCEPT ![r].spec_token_ids = 0] /\ UNCHANGED <<pipeline, slots, pc>>
    BY <1>6 DEF ScheduleRunning
  <2>2. Updating' = Updating /\ req[r] \in ReqFields
    BY <2>1 DEF Updating, TypeOK
  <2>3. SameCounters(r)
    BY <2>1, <2>2 DEF SameCounters, TypeOK, ReqFields
  <2>4. \A q \in Requests : q # r => SameCounters(q)
    BY <2>1 DEF SameCounters, TypeOK
  <2> QED
    BY <2>1, <2>2, <2>3, <2>4, QuietDelivery DEF OutputInv
<1>7. ASSUME NEW r \in Requests, NEW hit, NEW n, AdmitWaiting(r, hit, n) PROVE OutputInv'
  <2>1. req' = [req EXCEPT ![r] = Admitted(r, hit)] /\ UNCHANGED <<pipeline, slots, pc>>
    BY <1>7 DEF AdmitWaiting
  <2>2. ~Waits(r)' /\ Updating' = Updating
    <3>1. req'[r].status = "RUNNING"
      BY <2>1, AdmittedFields DEF TypeOK
    <3> QED
      BY <2>1, <3>1 DEF Waits, Updating
  <2>3. \A q \in Requests : q # r => SameCounters(q)
    BY <2>1 DEF SameCounters, TypeOK
  <2> QED
    BY <2>1, <2>2, <2>3, QuietDelivery DEF OutputInv
<1>8. ASSUME NEW p, NEW r,
             \/ SetPauseState(p) \/ BeginReset \/ EndReset \/ BeginSchedule
             \/ SkipRunning(r) \/ SkipWaiting(r) \/ EndRunning \/ EndWaiting
      PROVE  OutputInv'
  <2>1. /\ pc \notin {"drain", "update"} /\ pc' \notin {"drain", "update"}
        /\ UNCHANGED <<req, pipeline, slots>>
    BY <1>8 DEF SetPauseState, BeginReset, EndReset, BeginSchedule, SkipRunning,
                SkipWaiting, EndRunning, EndWaiting, AtRunning, AtWaiting
  <2> QED
    BY <2>1, UntouchedDelivery DEF Updating
<1>9. CASE DrainDeferredFree \/ EndDrain
  <2>1. /\ pc \in {"drain", "update"} /\ pc' \in {"drain", "update"}
        /\ UNCHANGED <<req, pipeline, slots>>
    BY <1>9 DEF DrainDeferredFree, EndDrain
  <2> QED
    BY <2>1, UntouchedDelivery DEF Updating
<1>10. CASE EndSchedule \/ BeginUpdate \/ EndUpdate
  BY <1>10, SentDelivery, RunDelivery, PoppedDelivery DEF OutputInv
<1>11. ASSUME NEW r \in Requests, NEW accepted \in 0..MaxSpec,
              NEW appended \in 0..(MaxSpec + 1), NEW eos \in BOOLEAN,
              UpdateRequest(r, accepted, appended, eos)
       PROVE  OutputInv'
  <2>1. pipeline # <<>> /\ accepted \in Int /\ appended \in Int
    BY <1>11 DEF UpdateRequest, UpdatingOldest
  <2>2. DeliveryOf(r)'
    BY <1>11, <2>1, DrainedDelivery DEF OutputInv
  <2>3. ASSUME NEW q \in Requests, q # r PROVE DeliveryOf(q)'
    <3>1. req' = req \/ \E x : req' = [req EXCEPT ![r] = x]
      <4>1. CASE FinishRequest(r)
        BY <4>1 DEF FinishRequest
      <4>2. CASE ~FinishRequest(r)
        BY <1>11, <2>1, <4>2, DrainedCases
      <4> QED
        BY <4>1, <4>2
    <3>2. SameCounters(q)
      BY <2>3, <3>1 DEF SameCounters, TypeOK
    <3>3. SameSteps(q)
      BY <1>11, <2>1, <2>3, DrainedStep
    <3> QED
      BY <3>2, <3>3, KeptDelivery DEF OutputInv
  <2> QED
    BY <2>2, <2>3 DEF OutputInv
<1>12. CASE UNCHANGED vars
  <2>1. UNCHANGED <<req, pipeline, slots, pc>>
    BY <1>12 DEF vars
  <2> QED
    BY <2>1, UntouchedDelivery DEF Updating
<1> QED
  BY <1>1, <1>2, <1>4, <1>5, <1>6, <1>7, <1>8, <1>9, <1>10, <1>11, <1>12
     DEF Next, Client, ResetCall, ScheduleCall, UpdateCall

\* The output of the oldest step that is delivered was sampled for the position that
\* comes next.
LEMMA OutputsAreInOrder ==
  ASSUME TypeOK, UpdatingOldest, LedgerInv, OutputInv
  PROVE  OutputsInOrder
<1> SUFFICES ASSUME pc = "update", NEW r \in Requests, pipeline[1].n[r] # 0, Live(r),
                    ~(req[r].num_stale_output_tokens > 0 /\ req[r].drop_stale_output)
             PROVE  slots[r].len = req[r].num_tokens
  BY DEF OutputsInOrder
<1>0. PICK L : L = Len(pipeline)
  OBVIOUS
<1>1. L \in Nat /\ 1 \in 1..L /\ Updating /\ ~Joining(r) /\ ~Added(r, 1)
  <2>1. pipeline # <<>> /\ L \in Nat
    BY <1>0, StepTypes DEF UpdatingOldest
  <2>2. L # 0
    BY <1>0, <2>1, EmptySeq DEF TypeOK
  <2> QED
    BY <2>1, <2>2 DEF Updating, Joining, InSchedule, Added, Pending
<1>2. ASSUME NEW s, SumsOf(s, r) PROVE \A k \in 1..L : s[k] > 0
  <2>1. /\ s[0] = 0 /\ s[1] = s[1 - 1] + pipeline[1].n[r] /\ s[1] \in Nat
    BY <1>0, <1>1, <1>2 DEF SumsOf
  <2>2. s[1] > 0
    <3>1. s[1] = pipeline[1].n[r] /\ pipeline[1].n[r] \in Int
      BY <1>0, <1>1, <2>1, StepTypes
    <3> QED
      BY <2>1, <3>1
  <2> TAKE k \in 1..L
  <2>3. s[1] <= s[k] /\ s[k] \in Nat
    BY <1>0, <1>1, <1>2 DEF SumsOf
  <2> QED
    BY <2>1, <2>2, <2>3
<1>3. CASE req[r].status = "RUNNING"
  <2>1. PICK s : \E k \in 0..L : \E w \in [0..L -> Slot] :
          LedgerOf(r, s) /\ SumsOf(s, r) /\ Follows(r, s, k, w)
    BY <1>0, <1>1, <1>3, RunningFollows
  <2>2. PICK k \in 0..L : \E w \in [0..L -> Slot] :
          LedgerOf(r, s) /\ SumsOf(s, r) /\ Follows(r, s, k, w)
    BY <2>1
  <2>3. PICK w \in [0..L -> Slot] : LedgerOf(r, s) /\ SumsOf(s, r) /\ Follows(r, s, k, w)
    BY <2>2
  <2>4. ~(req[r].num_stale_output_tokens > 0) /\ req[r].num_stale_output_tokens = s[k]
    BY <1>3, <2>3 DEF LedgerOf, Follows
  <2>5. k = 0
    BY <1>2, <2>2, <2>3, <2>4
  <2>6. w[0] = slots[r] /\ w[0].len = req[r].num_tokens
    BY <1>1, <2>3, <2>5 DEF Follows, Forecast
  <2> QED
    BY <2>6
<1>4. CASE req[r].status # "RUNNING"
  <2>1. Waits(r)
    BY <1>4 DEF Live, Waits
  <2>2. PICK s : LedgerOf(r, s)
    BY DEF LedgerInv
  <2>3. req[r].num_stale_output_tokens = s[L] /\ s[L] > 0
    BY <1>0, <1>1, <1>2, <2>1, <2>2 DEF LedgerOf
  <2>4. AwaitsStaleOutput(r)
    BY <2>3 DEF AwaitsStaleOutput
  <2>5. PICK k \in 0..L : Delivers(r, k)
    BY <1>0, <2>1, <2>4 DEF OutputInv, DeliveryOf
  <2>6. 1 > k
    BY <1>0, <1>1, <2>5 DEF Delivers
  <2>7. k = 0
    BY <2>5, <2>6
  <2> QED
    BY <1>1, <2>5, <2>7 DEF Delivers, Base
<1> QED
  BY <1>3, <1>4

\* Tokens reach a request in order: what is appended was sampled by the worker for
\* exactly the position that comes next, whatever was preempted, reset and resumed
\* while it was in flight.
THEOREM OutputsArriveInOrder == Spec => []OutputsInOrder
<1>1. Init => OutputInv
  <2> SUFFICES ASSUME Init, NEW r \in Requests PROVE ~AwaitsStaleOutput(r)
    BY DEF OutputInv, DeliveryOf
  <2>1. req[r].num_stale_output_tokens = 0
    BY DEF Init, Blank
  <2> QED
    BY <2>1 DEF AwaitsStaleOutput
<1>2. Init => TypeOK /\ UpdatingOldest
  BY TypesInit, UpdatingOldestInit
<1>3. TypeOK /\ UpdatingOldest /\ [Next]_vars => TypeOK' /\ UpdatingOldest'
  BY TypesStep, UpdatingOldestStep
<1>4. TypeOK /\ UpdatingOldest /\ QueueInv /\ LedgerInv /\ OutputInv /\ [Next]_vars
        => OutputInv'
  BY OutputStep
<1>5. TypeOK /\ UpdatingOldest /\ LedgerInv /\ OutputInv => OutputsInOrder
  BY OutputsAreInOrder
<1> QED
  BY <1>1, <1>2, <1>3, <1>4, <1>5, LedgerHolds, PTL DEF Spec

-----------------------------------------------------------------------------
(* Blocks for what is computed *)

\* Rounding up to whole blocks covers every token.
LEMMA CeilDivCovers ==
  ASSUME NEW a \in Nat, NEW b \in Nat \ {0}
  PROVE  CeilDiv(a, b) \in Nat /\ CeilDiv(a, b) * b >= a
<1> DEFINE m == a + b - 1
<1>1. m \in Nat
  OBVIOUS
<1> HIDE DEF m
<1>2. PICK q : q = m \div b
  OBVIOUS
<1>3. PICK l : l = m % b
  OBVIOUS
<1>4. q \in Nat /\ l \in 0..(b - 1) /\ m = q * b + l
  BY <1>1, <1>2, <1>3
<1>5. PICK p : p = q * b
  OBVIOUS
<1>6. p \in Int
  BY <1>4, <1>5
<1>7. p >= a
  BY <1>4, <1>5, <1>6 DEF m
<1> QED
  BY <1>2, <1>4, <1>5, <1>7 DEF CeilDiv, m

\* More blocks hold at least as many tokens.
LEMMA BlocksGrow ==
  ASSUME NEW a \in Nat, NEW b \in Nat, NEW c \in Nat, a >= b
  PROVE  a * c >= b * c
<1>1. PICK d \in Nat : a = b + d
  <2>1. a - b \in Nat /\ a = b + (a - b)
    OBVIOUS
  <2> QED
    BY <2>1
<1>2. a * c = b * c + d * c
  BY <1>1
<1>3. d * c >= 0 /\ d * c \in Int /\ b * c \in Int
  OBVIOUS
<1> QED
  BY <1>2, <1>3

\* What the call in progress has planned for r.
Planned(r) == IF InSchedule THEN num_scheduled_tokens[r] ELSE 0

\* A running request's blocks hold what is computed and what is planned.
CoveredBy(r) ==
  req[r].status = "RUNNING" =>
    Cardinality(owned[r]) * BlockSize >= req[r].num_computed_tokens + Planned(r)

\* The inductive invariant behind the coverage of blocks.
BlockInv == \A r \in Requests : CoveredBy(r)

\* An allocation leaves the request with blocks for all that it asked for.
LEMMA AllocationCovers ==
  ASSUME TypeOK, NEW r \in Requests, NEW computed \in Nat, NEW n \in Nat,
         computed + n <= MaxModelLen, Allocate(r, Allocations(r, computed, n))
  PROVE  /\ Cardinality(owned'[r]) * BlockSize >= computed + n
         /\ \A q \in Requests : q # r => owned'[q] = owned[q]
<1> DEFINE slotsNeeded == Lesser(computed + n + NumLookahead, MaxModelLen)
<1>1. PICK b \in Nat \ {0} : b = BlockSize
  BY ConstantsOK
<1>2. PICK wanted : wanted = slotsNeeded
  OBVIOUS
<1>3. wanted \in Nat /\ wanted >= computed + n
  BY <1>2, ConstantsOK DEF Lesser
<1>4. PICK c : c = CeilDiv(wanted, b)
  OBVIOUS
<1>5. c \in Nat /\ c * b >= wanted
  BY <1>3, <1>4, CeilDivCovers
<1>6. PICK have : have = Cardinality(owned[r])
  OBVIOUS
<1>7. PICK new \in Allocations(r, computed, n) : owned' = [owned EXCEPT ![r] = @ \cup new]
  BY DEF Allocate
<1>8. /\ new \subseteq Free
      /\ Cardinality(new) = IF c - have < 0 THEN 0 ELSE c - have
  BY <1>1, <1>2, <1>4, <1>6, <1>7 DEF Allocations
<1>9. owned' = [owned EXCEPT ![r] = owned[r] \cup new] /\ owned'[r] = owned[r] \cup new
  BY <1>7 DEF TypeOK
<1>10. IsFiniteSet(owned[r]) /\ IsFiniteSet(new) /\ owned[r] \cap new = {}
  <2>1. owned[r] \subseteq Blocks /\ new \subseteq Blocks /\ IsFiniteSet(Blocks)
    BY <1>8, ConstantsOK DEF TypeOK, Free
  <2>2. owned[r] \cap Free = {}
    BY DEF Free
  <2> QED
    BY <1>8, <2>1, <2>2, FS_Subset
<1>11. Cardinality(owned'[r]) = have + Cardinality(new) /\ have \in Nat
       /\ Cardinality(new) \in Nat
  <2>1. /\ Cardinality(owned[r] \cup new)
             = Cardinality(owned[r]) + Cardinality(new) - Cardinality(owned[r] \cap new)
        /\ Cardinality(owned[r]) \in Nat /\ Cardinality(new) \in Nat
    BY <1>10, FS_Union, FS_CardinalityType
  <2>2. Cardinality(owned[r] \cap new) = 0
    BY <1>10, FS_EmptySet
  <2>3. Cardinality(owned[r] \cup new) = Cardinality(owned[r]) + Cardinality(new)
    BY <2>1, <2>2
  <2> QED
    BY <1>6, <1>9, <2>1, <2>3
<1>12. PICK d \in Nat : d = Cardinality(owned'[r]) /\ d >= c
  BY <1>5, <1>8, <1>11
<1>13. d * b >= c * b /\ d * b \in Int /\ c * b \in Int
  <2>1. b \in Nat /\ c \in Nat /\ d >= c
    BY <1>5, <1>12
  <2>2. d * b >= c * b
    BY <2>1, BlocksGrow
  <2> QED
    BY <2>1, <2>2
<1>14. d * b >= computed + n
  BY <1>3, <1>5, <1>13
<1> QED
  BY <1>1, <1>9, <1>12, <1>14 DEF TypeOK

\* A request whose counters and blocks stay is covered as before.
LEMMA KeptBlocks ==
  ASSUME NEW r, CoveredBy(r), owned'[r] = owned[r], Planned(r)' = Planned(r),
         req'[r].status = "RUNNING" =>
           req[r].status = "RUNNING"
             /\ req'[r].num_computed_tokens = req[r].num_computed_tokens
  PROVE  CoveredBy(r)'
BY DEF CoveredBy

\* The end or the preemption of r leaves the other requests' blocks alone.
LEMMA FreedBlocks ==
  ASSUME TypeOK, BlockInv, NEW r \in Requests, NEW x, FreeRequestBlocks(r),
         req' = [req EXCEPT ![r] = x], x.status # "RUNNING",
         \A q \in Requests : q # r => Planned(q)' = Planned(q)
  PROVE  BlockInv'
<1>1. owned' = [owned EXCEPT ![r] = {}]
  BY DEF FreeRequestBlocks
<1>2. ASSUME NEW q \in Requests, q # r PROVE CoveredBy(q)'
  <2>1. req'[q] = req[q] /\ owned'[q] = owned[q]
    BY <1>1, <1>2 DEF TypeOK
  <2> QED
    BY <1>2, <2>1, KeptBlocks DEF BlockInv
<1>3. CoveredBy(r)'
  BY DEF CoveredBy, TypeOK
<1> QED
  BY <1>2, <1>3 DEF BlockInv

\* Steps that move no counter and no block.
LEMMA QuietBlocks ==
  ASSUME TypeOK, BlockInv, UNCHANGED <<req, owned>>,
         \A r \in Requests : Planned(r)' = Planned(r)
  PROVE  BlockInv'
BY KeptBlocks DEF BlockInv

\* Every step keeps the running requests covered.
LEMMA BlockStep ==
  ASSUME TypeOK, UpdatingOldest, QueueInv, LedgerInv, BlockInv, [Next]_vars
  PROVE  BlockInv'
<1> USE DEF queueVars, blockVars, seqVars, idVars, stepVars, ctrlVars, localVars
<1>1. ASSUME NEW r \in Requests, AddRequest(r) PROVE BlockInv'
  <2>1. /\ pc = "idle" /\ pc' = pc /\ req' = [req EXCEPT ![r].status = "WAITING"]
        /\ UNCHANGED <<owned, num_scheduled_tokens>>
    BY <1>1 DEF AddRequest
  <2>2. req'[r].status = "WAITING" /\ \A q \in Requests : q # r => req'[q] = req[q]
    <3>1. req[r] \in ReqFields
      BY DEF TypeOK
    <3> QED
      BY <2>1, <3>1 DEF TypeOK, ReqFields
  <2>3. \A q \in Requests : Planned(q)' = Planned(q)
    BY <2>1 DEF Planned, InSchedule
  <2> QED
    BY <2>1, <2>2, <2>3, KeptBlocks DEF BlockInv
<1>2. ASSUME NEW r \in Requests, Abort(r) PROVE BlockInv'
  <2>1. /\ FreeRequestBlocks(r) /\ req' = [req EXCEPT ![r] = Blank("FINISHED")]
        /\ pc = "idle" /\ pc' = "idle"
    BY <1>2 DEF Abort, FinishRequest
  <2>2. Blank("FINISHED").status # "RUNNING"
    BY DEF Blank
  <2>3. \A q \in Requests : Planned(q)' = Planned(q)
    BY <2>1 DEF Planned, InSchedule
  <2> QED
    BY <2>1, <2>2, <2>3, FreedBlocks
<1>3. CASE ResetPreempt
  <2>1. PICK r : r = running[Len(running)]
    OBVIOUS
  <2>2. r \in Requests
    BY <1>3, <2>1, TailFrontType DEF ResetPreempt, TypeOK
  <2>3. /\ FreeRequestBlocks(r) /\ req' = [req EXCEPT ![r] = Preempted(r, TRUE)]
        /\ pc = "reset" /\ pc' = "reset"
    BY <1>3, <2>1 DEF ResetPreempt, PreemptRequest
  <2>4. Preempted(r, TRUE).status # "RUNNING"
    BY <2>2, PreemptedFields
  <2>5. \A q \in Requests : Planned(q)' = Planned(q)
    BY <2>3 DEF Planned, InSchedule
  <2> QED
    BY <2>2, <2>3, <2>4, <2>5, FreedBlocks
<1>4. ASSUME NEW r \in Requests, NEW v \in Requests, PreemptVictim(r, v) PROVE BlockInv'
  <2>1. /\ FreeRequestBlocks(v) /\ req' = [req EXCEPT ![v] = Preempted(v, RequiresKVDelivery)]
        /\ pc = "running" /\ pc' \in {"running", "finish"}
        /\ num_scheduled_tokens' = [num_scheduled_tokens EXCEPT ![v] = 0]
    BY <1>4 DEF PreemptVictim, PreemptRequest, LacksBlocks, Wants, AtRunning
  <2>2. Preempted(v, RequiresKVDelivery).status # "RUNNING"
    BY PreemptedFields
  <2>3. \A q \in Requests : q # v => Planned(q)' = Planned(q)
    BY <2>1 DEF Planned, InSchedule, TypeOK
  <2> QED
    BY <2>1, <2>2, <2>3, FreedBlocks
<1>5. CASE BeginSchedule
  <2>1. /\ pc = "idle" /\ pc' = "running" /\ num_scheduled_tokens' = Zero
        /\ UNCHANGED <<req, owned>>
    BY <1>5 DEF BeginSchedule
  <2>2. \A q \in Requests : Planned(q)' = Planned(q)
    BY <2>1 DEF Planned, InSchedule, Zero
  <2> QED
    BY <2>1, <2>2, QuietBlocks
<1>6. ASSUME NEW r \in Requests, NEW n \in 1..token_budget, ScheduleRunning(r, n)
      PROVE  BlockInv'
  <2>1. PICK C : C = req[r].num_computed_tokens
    OBVIOUS
  <2>2. /\ Wants(r, n) /\ AtRunning(r) /\ pc = "running" /\ pc' = pc
        /\ Allocate(r, Allocations(r, C, n))
        /\ num_scheduled_tokens' = [num_scheduled_tokens EXCEPT ![r] = n]
        /\ req' = [req EXCEPT ![r].spec_token_ids = 0]
    BY <1>6, <2>1 DEF ScheduleRunning, Wants, AtRunning
  <2>3. C \in Nat /\ n \in Nat /\ C + n <= MaxModelLen
    <3>1. n \in Nat /\ C + n < MaxModelLen
      BY <2>1, <2>2, RunningChunk
    <3>2. C \in Int /\ 0 <= C
      BY <2>1, <2>2, RunningLags, FieldTypes
    <3> QED
      BY <3>1, <3>2, ConstantsOK
  <2>4. /\ Cardinality(owned'[r]) * BlockSize >= C + n
        /\ \A q \in Requests : q # r => owned'[q] = owned[q]
    BY <2>2, <2>3, AllocationCovers
  <2>5. req'[r].num_computed_tokens = C
    <3>1. req[r] \in ReqFields
      BY DEF TypeOK
    <3> QED
      BY <2>1, <2>2, <3>1 DEF TypeOK, ReqFields
  <2>6. Planned(r)' = n /\ \A q \in Requests : q # r => Planned(q)' = Planned(q)
    BY <2>2 DEF Planned, InSchedule, TypeOK
  <2>7. CoveredBy(r)'
    BY <2>4, <2>5, <2>6 DEF CoveredBy
  <2>8. \A q \in Requests : q # r => req'[q] = req[q]
    BY <2>2 DEF TypeOK
  <2> QED
    BY <2>4, <2>6, <2>7, <2>8, KeptBlocks DEF BlockInv
<1>7. ASSUME NEW r \in Requests, NEW hit \in HitLengths(r), NEW n \in 1..token_budget,
             AdmitWaiting(r, hit, n)
      PROVE  BlockInv'
  <2>1. /\ AtWaiting(r) /\ PopWaiting(r) /\ pc = "waiting" /\ pc' = pc
        /\ n = NumPrefillTokens(r, hit)
        /\ num_scheduled_tokens' = [num_scheduled_tokens EXCEPT ![r] = n]
        /\ req' = [req EXCEPT ![r] = Admitted(r, hit)]
    BY <1>7 DEF AdmitWaiting, AtWaiting
  <2>2. Allocate(r, Allocations(r, hit, n))
    BY <1>7 DEF AdmitWaiting, Allocate, Admissions
  <2>3. hit \in Nat /\ n \in Nat /\ hit + n <= MaxModelLen
    <3>1. PICK T : T = req[r].num_tokens
      OBVIOUS
    <3>2. hit \in Nat /\ hit < T /\ n \in 0..(T - hit) /\ T \in Int
      BY <2>1, <3>1, AdmittedChunk, FieldTypes
    <3>3. T < MaxModelLen /\ MaxModelLen \in Nat
      <4>1. PICK s : LedgerOf(r, s)
        BY DEF LedgerInv
      <4>2. req[r].status # "FINISHED"
        BY <2>1, QueuesPop
      <4> QED
        BY <3>1, <4>1, <4>2, ConstantsOK DEF LedgerOf
    <3> QED
      BY <3>2, <3>3
  <2>4. /\ Cardinality(owned'[r]) * BlockSize >= hit + n
        /\ \A q \in Requests : q # r => owned'[q] = owned[q]
    BY <2>2, <2>3, AllocationCovers
  <2>5. req'[r].num_computed_tokens = hit
    BY <2>1, AdmittedFields DEF TypeOK
  <2>6. Planned(r)' = n /\ \A q \in Requests : q # r => Planned(q)' = Planned(q)
    BY <2>1 DEF Planned, InSchedule, TypeOK
  <2>7. CoveredBy(r)'
    BY <2>4, <2>5, <2>6 DEF CoveredBy
  <2>8. \A q \in Requests : q # r => req'[q] = req[q]
    BY <2>1 DEF TypeOK
  <2> QED
    BY <2>4, <2>6, <2>7, <2>8, KeptBlocks DEF BlockInv
<1>8. CASE EndSchedule
  <2>1. /\ pc = "finish" /\ pc' = "idle" /\ UNCHANGED owned
    BY <1>8 DEF EndSchedule
  <2>2. PICK seq, k : \A r \in Requests : req'[r] = AfterSchedule(r, seq, k)
    BY <1>8 DEF EndSchedule
  <2>3. ASSUME NEW r \in Requests PROVE CoveredBy(r)'
    <3>1. /\ req'[r].status = req[r].status
          /\ req'[r].num_computed_tokens = req[r].num_computed_tokens + num_scheduled_tokens[r]
      BY <2>2, SentFields
    <3>2. Planned(r) = num_scheduled_tokens[r] /\ Planned(r)' = 0
      BY <2>1 DEF Planned, InSchedule
    <3>3. req[r].num_computed_tokens \in Int /\ num_scheduled_tokens[r] \in Int
      BY FieldTypes
    <3>4. req'[r].num_computed_tokens + Planned(r)' = req[r].num_computed_tokens + Planned(r)
      BY <3>1, <3>2, <3>3
    <3> QED
      BY <2>1, <3>1, <3>4 DEF BlockInv, CoveredBy
  <2> QED
    BY <2>3 DEF BlockInv
<1>9. ASSUME NEW r \in Requests, NEW accepted \in 0..MaxSpec,
             NEW appended \in 0..(MaxSpec + 1), NEW eos \in BOOLEAN,
             UpdateRequest(r, accepted, appended, eos)
      PROVE  BlockInv'
  <2>1. /\ accepted \in Int /\ appended \in Int
        /\ pc = "update" /\ pc' = pc
    BY <1>9 DEF UpdateRequest
  <2>2. \A q \in Requests : Planned(q)' = Planned(q) /\ Planned(q) = 0
    BY <2>1 DEF Planned, InSchedule
  <2>3. CASE FinishRequest(r)
    <3>1. FreeRequestBlocks(r) /\ req' = [req EXCEPT ![r] = Blank("FINISHED")]
      BY <2>3 DEF FinishRequest
    <3>2. Blank("FINISHED").status # "RUNNING"
      BY DEF Blank
    <3> QED
      BY <2>2, <3>1, <3>2, FreedBlocks
  <2>4. CASE ~FinishRequest(r)
    <3> DEFINE spec == pipeline[1].spec[r]
               rejected == IF Samples(r) THEN spec - accepted ELSE 0
    <3>1. UNCHANGED owned
      BY <1>9, <2>4 DEF UpdateRequest
    <3>2. rejected \in Nat
      <4>1. accepted \in 0..spec
        BY <1>9 DEF UpdateRequest
      <4>2. pipeline # <<>>
        BY <2>1 DEF UpdatingOldest
      <4>3. 1 \in 1..Len(pipeline)
        BY <1>9, <2>1, <4>2, DrainedStep
      <4>4. spec \in Int
        BY <4>3, StepTypes
      <4> QED
        BY <4>1, <4>4
    <3>3. \/ req' = req \/ req' = [req EXCEPT ![r] = Counted(r)]
          \/ req' = [req EXCEPT ![r] = Corrected(r, rejected, appended)]
      BY <1>9, <2>1, <2>4, DrainedCases
    <3>4. \A q \in Requests : q # r => req'[q] = req[q]
      BY <3>3 DEF TypeOK
    <3>5. PICK C : C = req[r].num_computed_tokens /\ C \in Int
      BY FieldTypes
    <3>6. PICK j \in Nat : j = rejected
      BY <3>2
    <3>7. /\ req'[r].status = req[r].status
          /\ req'[r].num_computed_tokens \in {C, C - j}
      <4>1. CASE req' = req
        BY <3>5, <4>1
      <4>2. CASE req' = [req EXCEPT ![r] = Counted(r)]
        <5>1. req'[r] = Counted(r)
          BY <4>2 DEF TypeOK
        <5> QED
          BY <3>5, <5>1, CountedFields
      <4>3. CASE req' = [req EXCEPT ![r] = Corrected(r, rejected, appended)]
        <5>1. req'[r] = Corrected(r, j, appended)
          BY <3>6, <4>3 DEF TypeOK
        <5> QED
          BY <3>5, <5>1, CorrectedFields
      <4> QED
        BY <3>3, <4>1, <4>2, <4>3
    <3>8. CoveredBy(r)'
      <4>1. PICK c \in Int : c = req'[r].num_computed_tokens /\ c <= C
        BY <3>5, <3>6, <3>7
      <4>2. PICK b : b = Cardinality(owned[r]) * BlockSize
        OBVIOUS
      <4>3. req[r].status = "RUNNING" => b >= C
        BY <2>2, <3>5, <4>2 DEF BlockInv, CoveredBy
      <4>4. b \in Int
        <5>1. IsFiniteSet(owned[r])
          BY ConstantsOK, FS_Subset DEF TypeOK
        <5>2. Cardinality(owned[r]) \in Nat /\ BlockSize \in Nat
          BY <5>1, FS_CardinalityType, ConstantsOK
        <5> QED
          BY <4>2, <5>2
      <4>5. req[r].status = "RUNNING" => b >= c + 0
        BY <3>5, <4>1, <4>3, <4>4
      <4> QED
        BY <2>2, <3>1, <3>7, <4>1, <4>2, <4>5 DEF CoveredBy
    <3> QED
      BY <2>2, <3>1, <3>4, <3>8, KeptBlocks DEF BlockInv
  <2> QED
    BY <2>3, <2>4
<1>10. ASSUME NEW p, NEW r,
              \/ SetPauseState(p) \/ BeginReset \/ EndReset \/ SkipRunning(r)
              \/ SkipWaiting(r) \/ EndRunning \/ EndWaiting \/ BeginUpdate
              \/ DrainDeferredFree \/ EndDrain \/ EndUpdate \/ UNCHANGED vars
       PROVE  BlockInv'
  <2>1. InSchedule' = InSchedule /\ UNCHANGED <<req, owned, num_scheduled_tokens>>
    BY <1>10 DEF SetPauseState, BeginReset, EndReset, SkipRunning, SkipWaiting,
                 EndRunning, EndWaiting, BeginUpdate, DrainDeferredFree, EndDrain,
                 EndUpdate, vars, InSchedule
  <2>2. \A q \in Requests : Planned(q)' = Planned(q)
    BY <2>1 DEF Planned
  <2> QED
    BY <2>1, <2>2, QuietBlocks
<1> QED
  BY <1>1, <1>2, <1>3, <1>4, <1>5, <1>6, <1>7, <1>8, <1>9, <1>10
     DEF Next, Client, ResetCall, ScheduleCall, UpdateCall

\* A running request's blocks cover every position it has been scheduled for, under
\* every pool and block size, so that no step writes past its block table.
THEOREM BlocksAlwaysCover == Spec => []BlocksCoverComputed
<1>1. Init => BlockInv
  BY DEF Init, BlockInv, CoveredBy, Blank
<1>2. Init => TypeOK /\ UpdatingOldest
  BY TypesInit, UpdatingOldestInit
<1>3. TypeOK /\ UpdatingOldest /\ [Next]_vars => TypeOK' /\ UpdatingOldest'
  BY TypesStep, UpdatingOldestStep
<1>4. TypeOK /\ UpdatingOldest /\ QueueInv /\ LedgerInv /\ BlockInv /\ [Next]_vars
        => BlockInv'
  BY BlockStep
<1>5. BlockInv => BlocksCoverComputed
  BY DEF BlockInv, CoveredBy, Planned, InSchedule, BlocksCoverComputed
<1> QED
  BY <1>1, <1>2, <1>3, <1>4, <1>5, LedgerHolds, PTL DEF Spec

-----------------------------------------------------------------------------
(* The worker's slots *)

\* The requests with a slot are the running ones, but for the ids that the next step
\* will free and the requests it will add.
Matches(X) ==
  \A r \in Requests :
    req[r].status = "RUNNING" <=>
      \/ r \in X /\ r \notin finished_req_ids /\ r \notin preempted_req_ids
      \/ Joining(r)

\* p[i] is the set of requests with a slot once step i has started.
PresenceOf(p) ==
  /\ p \in [0..Len(pipeline) -> SUBSET Requests]
  /\ p[0] = {r \in Requests : slots[r] # NoSlot}
  /\ \A i \in 1..Len(pipeline) :
       p[i] = IF i \in Pending
              THEN (p[i - 1] \ pipeline[i].free)
                     \cup {r \in Requests : pipeline[i].add[r] # NoSlot}
              ELSE p[i - 1]
  /\ \A i \in 1..Len(pipeline), r \in Requests : pipeline[i].n[r] # 0 => r \in p[i]
  /\ \A i \in 0..Len(pipeline) : IsFiniteSet(p[i]) /\ Cardinality(p[i]) <= MaxActive
  /\ Matches(p[Len(pipeline)])

\* A slot that exists holds a token.
SlotsFilled ==
  /\ \A r \in Requests : slots[r] # NoSlot => slots[r].len > 0
  /\ \A i \in 1..Len(pipeline), r \in Requests :
       pipeline[i].add[r] # NoSlot => pipeline[i].add[r].len > 0

\* The inductive invariant behind the worker's slots.
PresenceInv ==
  /\ Len(running) <= MaxActive
  /\ SlotsFilled
  /\ \E p : PresenceOf(p)

\* Steps that leave the pipeline and the slots alone.
LEMMA KeptPresence ==
  ASSUME TypeOK, PresenceInv, UNCHANGED <<pipeline, slots>>, Updating' = Updating,
         Len(running') <= MaxActive, \A X : Matches(X) => Matches(X)'
  PROVE  PresenceInv'
<1>1. PICK p : PresenceOf(p)
  BY DEF PresenceInv
<1>2. Pending' = Pending
  BY DEF Pending
<1>3. SlotsFilled'
  BY DEF PresenceInv, SlotsFilled
<1>4. Matches(p[Len(pipeline)])'
  BY <1>1 DEF PresenceOf
<1>5. PresenceOf(p)'
  BY <1>1, <1>2, <1>4 DEF PresenceOf
<1> QED
  BY <1>3, <1>5 DEF PresenceInv

\* Taking a request out of a queue makes it no longer.
LEMMA WithoutShorter ==
  ASSUME NEW q \in Seq(Requests), NEW r
  PROVE  Len(Without(q, r)) <= Len(q)
<1>1. CASE ~Contains(q, r)
  BY <1>1, LenProperties DEF Without
<1>2. CASE Contains(q, r)
  <2>1. PICK k : k = IndexOf(q, r)
    OBVIOUS
  <2>2. k \in 1..Len(q) /\ Len(q) \in Nat
    BY <1>2, <2>1, IndexOfType, LenProperties
  <2>3. /\ SubSeq(q, 1, k - 1) \in Seq(Requests) /\ Len(SubSeq(q, 1, k - 1)) = k - 1
    BY <2>2, SubSeqProperties, ElementOfSeq
  <2>4. /\ SubSeq(q, k + 1, Len(q)) \in Seq(Requests)
        /\ Len(SubSeq(q, k + 1, Len(q))) = Len(q) - k
    BY <2>2, SubSeqProperties, ElementOfSeq
  <2>5. Without(q, r) = SubSeq(q, 1, k - 1) \o SubSeq(q, k + 1, Len(q))
    BY <1>2, <2>1 DEF Without
  <2>6. Len(Without(q, r)) = (k - 1) + (Len(q) - k)
    BY <2>3, <2>4, <2>5, ConcatProperties
  <2> QED
    BY <2>2, <2>6
<1> QED
  BY <1>1, <1>2

\* The running requests are as many as the running queue is long.
LEMMA RunningAreFew ==
  ASSUME TypeOK, QueueInv, Len(running) <= MaxActive,
         NEW S, S = {r \in Requests : req[r].status = "RUNNING"}
  PROVE  IsFiniteSet(S) /\ Cardinality(S) <= MaxActive
<1>1. PICK n \in Nat : n = Len(running)
  BY LenProperties DEF TypeOK
<1>2. S = {running[i] : i \in 1..n}
  <2>1. \A i \in 1..n : running[i] \in S
    <3> TAKE i \in 1..n
    <3>1. running[i] \in Requests /\ Contains(running, running[i])
      BY <1>1, ElementOfSeq DEF TypeOK, Contains
    <3> QED
      BY <3>1 DEF QueueInv
  <2>2. \A r \in S : \E i \in 1..n : running[i] = r
    BY <1>1 DEF QueueInv, Contains
  <2> QED
    BY <2>1, <2>2
<1>3. PICK f : f = [i \in 1..n |-> running[i]]
  OBVIOUS
<1>4. f \in Surjection(1..n, S)
  BY <1>2, <1>3 DEF Surjection
<1>5. IsFiniteSet(1..n) /\ Cardinality(1..n) = n
  BY FS_Interval
<1>6. IsFiniteSet(S) /\ Cardinality(S) <= n
  BY <1>4, <1>5, FS_Surjection
<1>7. Cardinality(S) \in Nat /\ MaxActive \in Nat
  BY <1>6, FS_CardinalityType, ConstantsOK
<1> QED
  BY <1>1, <1>6, <1>7

\* The step that is sent frees and adds what makes the slots the running requests.
LEMMA SentPresence ==
  ASSUME TypeOK, QueueInv, LedgerInv, PresenceInv, EndSchedule
  PROVE  PresenceInv'
<1>0. PICK L : L = Len(pipeline)
  OBVIOUS
<1>1. /\ L \in Nat /\ Len(pipeline') = L + 1 /\ slots' = slots /\ pc = "finish"
      /\ \A i \in 1..L : pipeline'[i] = pipeline[i]
      /\ \A r \in Requests :
           /\ pipeline'[L + 1].n[r] = num_scheduled_tokens[r]
           /\ pipeline'[L + 1].add[r] =
                IF r \in scheduled_new_reqs
                THEN [len |-> req[r].num_tokens, computed |-> req[r].num_computed_tokens]
                ELSE NoSlot
      /\ pipeline'[L + 1].free = finished_req_ids \cup preempted_req_ids
      /\ finished_req_ids' = {} /\ preempted_req_ids' = {} /\ pc' = "idle"
      /\ Pending = 1..L /\ Pending' = 1..(L + 1) /\ UNCHANGED running
  BY <1>0, SentStep, StepTypes DEF EndSchedule, queueVars
<1>2. InSchedule /\ ~InSchedule'
  BY <1>1 DEF InSchedule
<1>3. PICK p : PresenceOf(p)
  BY DEF PresenceInv
<1>4. PICK S : S = {r \in Requests : req[r].status = "RUNNING"}
  OBVIOUS
<1>5. IsFiniteSet(S) /\ Cardinality(S) <= MaxActive
  BY <1>4, RunningAreFew DEF PresenceInv
<1>6. ASSUME NEW r \in Requests
      PROVE  /\ pipeline'[L + 1].add[r] # NoSlot <=> Joining(r)
             /\ pipeline'[L + 1].add[r] # NoSlot => pipeline'[L + 1].add[r].len > 0
  <2>1. CASE r \in scheduled_new_reqs
    <3>1. Joining(r)
      BY <1>2, <2>1 DEF Joining
    <3>2. req[r].num_tokens > 0
      <4>1. PICK s : LedgerOf(r, s)
        BY DEF LedgerInv
      <4> QED
        BY <3>1, <4>1 DEF LedgerOf
    <3>3. pipeline'[L + 1].add[r] = [len |-> req[r].num_tokens,
                                     computed |-> req[r].num_computed_tokens]
      BY <1>1, <2>1
    <3>4. pipeline'[L + 1].add[r].len = req[r].num_tokens /\ NoSlot.len = 0
      BY <3>3 DEF NoSlot
    <3> QED
      BY <3>1, <3>2, <3>4
  <2>2. CASE r \notin scheduled_new_reqs
    BY <1>1, <2>2 DEF Joining
  <2> QED
    BY <2>1, <2>2
<1>7. S = (p[L] \ pipeline'[L + 1].free)
            \cup {r \in Requests : pipeline'[L + 1].add[r] # NoSlot}
  <2>1. p[L] \subseteq Requests /\ Matches(p[L])
    BY <1>0, <1>1, <1>3 DEF PresenceOf
  <2> QED
    BY <1>1, <1>4, <1>6, <2>1 DEF Matches
<1>8. PICK x : x = [i \in 0..(L + 1) |-> IF i = L + 1 THEN S ELSE p[i]]
  OBVIOUS
<1>9. /\ x \in [0..(L + 1) -> SUBSET Requests] /\ x[L + 1] = S
      /\ \A i \in 0..L : x[i] = p[i]
  <2>1. S \subseteq Requests /\ \A i \in 0..L : p[i] \subseteq Requests
    BY <1>0, <1>3, <1>4 DEF PresenceOf
  <2>2. \A i \in 0..(L + 1) : i = L + 1 \/ i \in 0..L
    BY <1>1
  <2>3. L + 1 \in 0..(L + 1) /\ \A i \in 0..L : i \in 0..(L + 1) /\ i # L + 1
    BY <1>1
  <2> QED
    BY <1>8, <2>1, <2>2, <2>3
<1>10. x[0] = {r \in Requests : slots'[r] # NoSlot}
  BY <1>1, <1>3, <1>9 DEF PresenceOf
<1>11. ASSUME NEW i \in 1..(L + 1)
       PROVE  /\ x[i] = IF i \in Pending'
                        THEN (x[i - 1] \ pipeline'[i].free)
                               \cup {r \in Requests : pipeline'[i].add[r] # NoSlot}
                        ELSE x[i - 1]
              /\ \A r \in Requests : pipeline'[i].n[r] # 0 => r \in x[i]
  <2>1. CASE i = L + 1
    <3>1. x[i - 1] = p[L] /\ i \in Pending'
      BY <1>1, <1>9, <2>1
    <3>2. ASSUME NEW r \in Requests, pipeline'[i].n[r] # 0 PROVE r \in x[i]
      <4>1. num_scheduled_tokens[r] # 0 /\ num_scheduled_tokens[r] \in Int /\ PlanOf(r)
        BY <1>1, <2>1, <3>2, FieldTypes DEF LedgerInv
      <4>2. req[r].status = "RUNNING"
        BY <1>2, <4>1 DEF PlanOf
      <4> QED
        BY <1>4, <1>9, <2>1, <4>2
    <3> QED
      BY <1>7, <1>9, <2>1, <3>1, <3>2
  <2>2. CASE i # L + 1
    <3>1. i \in 1..L /\ i - 1 \in 0..L /\ i \in 0..L
      BY <1>1, <2>2
    <3>2. x[i] = p[i] /\ x[i - 1] = p[i - 1] /\ pipeline'[i] = pipeline[i]
          /\ i \in Pending /\ i \in Pending'
      BY <1>1, <1>9, <3>1
    <3> QED
      BY <1>0, <1>3, <3>1, <3>2 DEF PresenceOf
  <2> QED
    BY <2>1, <2>2
<1>12. ASSUME NEW i \in 0..(L + 1) PROVE IsFiniteSet(x[i]) /\ Cardinality(x[i]) <= MaxActive
  <2>1. CASE i = L + 1
    BY <1>5, <1>9, <2>1
  <2>2. CASE i # L + 1
    <3>1. i \in 0..L
      BY <1>1, <2>2
    <3> QED
      BY <1>0, <1>3, <1>9, <3>1 DEF PresenceOf
  <2> QED
    BY <2>1, <2>2
<1>13. Matches(x[L + 1])'
  <2>1. \A r \in Requests : req'[r].status = req[r].status
    BY StatusKept DEF EndSchedule
  <2> QED
    BY <1>1, <1>2, <1>4, <1>9, <2>1 DEF Matches, Joining
<1>14. PresenceOf(x)'
  BY <1>1, <1>9, <1>10, <1>11, <1>12, <1>13 DEF PresenceOf
<1>15. SlotsFilled'
  <2>1. \A i \in 1..(L + 1) : i = L + 1 \/ i \in 1..L
    BY <1>1
  <2>2. \A i \in 1..L, r \in Requests :
          pipeline'[i].add[r] # NoSlot => pipeline'[i].add[r].len > 0
    BY <1>0, <1>1 DEF PresenceInv, SlotsFilled
  <2> QED
    BY <1>1, <1>6, <2>1, <2>2 DEF PresenceInv, SlotsFilled
<1> QED
  BY <1>1, <1>14, <1>15 DEF PresenceInv


\* The worker starts the oldest step: its slots become what that step leaves.
LEMMA RunPresence ==
  ASSUME TypeOK, PresenceInv, BeginUpdate
  PROVE  PresenceInv'
<1>0. PICK L : L = Len(pipeline)
  OBVIOUS
<1>1. /\ L \in Nat /\ L >= 1 /\ Len(pipeline') = L /\ ~Updating /\ Updating'
      /\ \A i \in 1..L :
           /\ pipeline'[i].n = pipeline[i].n /\ pipeline'[i].add = pipeline[i].add
           /\ pipeline'[i].free = pipeline[i].free
      /\ \A r \in Requests : slots'[r] = SlotBefore(pipeline[1], r)
      /\ UNCHANGED <<req, running, finished_req_ids, preempted_req_ids, localVars>>
      /\ pc = "idle" /\ pc' \in {"drain", "update"}
  <2>1. UNCHANGED running /\ pc' \in {"drain", "update"}
    BY DEF BeginUpdate, queueVars
  <2> QED
    BY <1>0, <2>1, RunStep, StepTypes DEF idVars
<1>2. Pending = 1..L /\ Pending' = 2..L
  BY <1>0, <1>1 DEF Pending
<1>3. PICK p : PresenceOf(p)
  BY DEF PresenceInv
<1>4. p[1] = (p[0] \ pipeline[1].free) \cup {r \in Requests : pipeline[1].add[r] # NoSlot}
  <2>1. 1 \in 1..L /\ 1 \in Pending /\ 1 - 1 = 0
    BY <1>1, <1>2
  <2>2. p[1] = (p[1 - 1] \ pipeline[1].free)
                 \cup {r \in Requests : pipeline[1].add[r] # NoSlot}
    BY <1>0, <1>3, <2>1 DEF PresenceOf
  <2> QED
    BY <2>1, <2>2
<1>5. p[1] = {r \in Requests : slots'[r] # NoSlot}
  <2>1. p[0] = {r \in Requests : slots[r] # NoSlot}
    BY <1>3 DEF PresenceOf
  <2>2. \A r \in Requests : slots'[r] # NoSlot <=>
          \/ pipeline[1].add[r] # NoSlot
          \/ r \notin pipeline[1].free /\ slots[r] # NoSlot
    BY <1>1 DEF SlotBefore
  <2> QED
    BY <1>4, <2>1, <2>2
<1>6. /\ p \in [0..L -> SUBSET Requests]
      /\ \A i \in 0..L : IsFiniteSet(p[i]) /\ Cardinality(p[i]) <= MaxActive
      /\ \A i \in 1..L, r \in Requests : pipeline[i].n[r] # 0 => r \in p[i]
      /\ Matches(p[L])
  BY <1>0, <1>3 DEF PresenceOf
<1>7. PICK x : x = [i \in 0..L |-> IF i = 0 THEN p[1] ELSE p[i]]
  OBVIOUS
<1>8. /\ x \in [0..L -> SUBSET Requests] /\ x[0] = p[1]
      /\ \A i \in 1..L : x[i] = p[i]
  <2>1. 1 \in 0..L /\ 0 \in 0..L /\ \A i \in 1..L : i \in 0..L /\ i # 0
    BY <1>1
  <2> QED
    BY <1>6, <1>7, <2>1
<1>9. ASSUME NEW i \in 1..L
      PROVE  x[i] = IF i \in Pending'
                    THEN (x[i - 1] \ pipeline'[i].free)
                           \cup {r \in Requests : pipeline'[i].add[r] # NoSlot}
                    ELSE x[i - 1]
  <2>1. CASE i = 1
    BY <1>1, <1>2, <1>8, <2>1
  <2>2. CASE i # 1
    <3>1. i - 1 \in 1..L /\ i \in Pending /\ i \in Pending'
      BY <1>1, <1>2, <2>2
    <3>2. x[i - 1] = p[i - 1] /\ x[i] = p[i]
      BY <1>8, <3>1
    <3>3. p[i] = (p[i - 1] \ pipeline[i].free)
                   \cup {r \in Requests : pipeline[i].add[r] # NoSlot}
      BY <1>0, <1>3, <3>1 DEF PresenceOf
    <3> QED
      BY <1>1, <3>1, <3>2, <3>3
  <2> QED
    BY <2>1, <2>2
<1>10. \A i \in 0..L : IsFiniteSet(x[i]) /\ Cardinality(x[i]) <= MaxActive
  <2>1. 1 \in 0..L /\ \A i \in 0..L : i = 0 \/ i \in 1..L
    BY <1>1
  <2> QED
    BY <1>6, <1>8, <2>1
<1>11. Matches(x[L])'
  <2>1. x[L] = p[L] /\ ~InSchedule /\ ~InSchedule'
    BY <1>1, <1>8 DEF InSchedule
  <2> QED
    BY <1>1, <1>6, <2>1 DEF Matches, Joining
<1>12. PresenceOf(x)'
  <2>1. \A i \in 1..L, r \in Requests : pipeline'[i].n[r] # 0 => r \in x[i]
    BY <1>1, <1>6, <1>8
  <2>2. x[0] = {r \in Requests : slots'[r] # NoSlot}
    BY <1>5, <1>8
  <2> QED
    BY <1>1, <1>8, <1>9, <1>10, <1>11, <2>1, <2>2 DEF PresenceOf
<1>13. SlotsFilled'
  <2>1. \A r \in Requests : slots'[r] # NoSlot => slots'[r].len > 0
    <3>1. 1 \in 1..L
      BY <1>1
    <3>2. \A r \in Requests :
            /\ slots[r] # NoSlot => slots[r].len > 0
            /\ pipeline[1].add[r] # NoSlot => pipeline[1].add[r].len > 0
      BY <1>0, <3>1 DEF PresenceInv, SlotsFilled
    <3> QED
      BY <1>1, <3>2 DEF SlotBefore
  <2> QED
    BY <1>0, <1>1, <2>1 DEF PresenceInv, SlotsFilled
<1> QED
  BY <1>1, <1>12, <1>13 DEF PresenceInv

\* The oldest step leaves the pipeline: the others move up.
LEMMA PoppedPresence ==
  ASSUME TypeOK, UpdatingOldest, PresenceInv, EndUpdate
  PROVE  PresenceInv'
<1>0. PICK L : L = Len(pipeline)
  OBVIOUS
<1>1. /\ L \in Nat /\ L >= 1 /\ Len(pipeline') = L - 1 /\ slots' = slots
      /\ \A i \in 1..(L - 1) : pipeline'[i] = pipeline[i + 1]
      /\ Updating /\ ~Updating' /\ pc' = "idle"
      /\ UNCHANGED <<req, running, finished_req_ids, preempted_req_ids, localVars>>
  <2>1. UNCHANGED running
    BY DEF EndUpdate, queueVars
  <2> QED
    BY <1>0, <2>1, PoppedStep, StepTypes DEF idVars
<1>2. Pending = 2..L /\ Pending' = 1..(L - 1)
  BY <1>0, <1>1 DEF Pending
<1>3. PICK p : PresenceOf(p)
  BY DEF PresenceInv
<1>4. p[1] = p[0]
  <2>1. 1 \in 1..L /\ 1 \notin Pending /\ 1 - 1 = 0
    BY <1>1, <1>2
  <2>2. p[1] = p[1 - 1]
    BY <1>0, <1>3, <2>1 DEF PresenceOf
  <2> QED
    BY <2>1, <2>2
<1>5. /\ p \in [0..L -> SUBSET Requests]
      /\ \A i \in 0..L : IsFiniteSet(p[i]) /\ Cardinality(p[i]) <= MaxActive
      /\ \A i \in 1..L, r \in Requests : pipeline[i].n[r] # 0 => r \in p[i]
      /\ Matches(p[L]) /\ p[0] = {r \in Requests : slots[r] # NoSlot}
  BY <1>0, <1>3 DEF PresenceOf
<1>6. PICK x : x = [i \in 0..(L - 1) |-> p[i + 1]]
  OBVIOUS
<1>7. \A i \in 0..(L - 1) : i + 1 \in 0..L /\ i + 1 \in 1..L
  BY <1>1
<1>8. /\ x \in [0..(L - 1) -> SUBSET Requests]
      /\ \A i \in 0..(L - 1) : x[i] = p[i + 1]
  BY <1>5, <1>6, <1>7
<1>9. x[0] = {r \in Requests : slots'[r] # NoSlot}
  <2>1. 0 \in 0..(L - 1) /\ 0 + 1 = 1
    BY <1>1
  <2>2. x[0] = p[0 + 1]
    BY <1>8, <2>1
  <2> QED
    BY <1>1, <1>4, <1>5, <2>1, <2>2
<1>10. ASSUME NEW i \in 1..(L - 1)
       PROVE  /\ x[i] = IF i \in Pending'
                        THEN (x[i - 1] \ pipeline'[i].free)
                               \cup {r \in Requests : pipeline'[i].add[r] # NoSlot}
                        ELSE x[i - 1]
              /\ \A r \in Requests : pipeline'[i].n[r] # 0 => r \in x[i]
  <2>1. /\ i \in Pending' /\ i + 1 \in Pending /\ i + 1 \in 1..L
        /\ i \in 0..(L - 1) /\ i - 1 \in 0..(L - 1) /\ (i - 1) + 1 = i /\ (i + 1) - 1 = i
    BY <1>1, <1>2
  <2>2. x[i - 1] = p[i] /\ x[i] = p[i + 1] /\ pipeline'[i] = pipeline[i + 1]
    <3>1. x[i - 1] = p[(i - 1) + 1]
      BY <1>8, <2>1
    <3> QED
      BY <1>1, <1>8, <2>1, <3>1
  <2>3. p[i + 1] = (p[(i + 1) - 1] \ pipeline[i + 1].free)
                     \cup {r \in Requests : pipeline[i + 1].add[r] # NoSlot}
    BY <1>0, <1>3, <2>1 DEF PresenceOf
  <2> QED
    BY <1>5, <2>1, <2>2, <2>3
<1>11. \A i \in 0..(L - 1) : IsFiniteSet(x[i]) /\ Cardinality(x[i]) <= MaxActive
  BY <1>5, <1>7, <1>8
<1>12. Matches(x[L - 1])'
  <2>1. L - 1 \in 0..(L - 1) /\ (L - 1) + 1 = L
    BY <1>1
  <2>2. x[L - 1] = p[(L - 1) + 1]
    BY <1>8, <2>1
  <2>3. x[L - 1] = p[L] /\ ~InSchedule /\ ~InSchedule'
    BY <1>1, <2>1, <2>2 DEF InSchedule, Updating
  <2> QED
    BY <1>1, <1>5, <2>3 DEF Matches, Joining
<1>13. PresenceOf(x)'
  BY <1>1, <1>8, <1>9, <1>10, <1>11, <1>12 DEF PresenceOf
<1>14. SlotsFilled'
  <2>1. \A i \in 1..(L - 1) : i + 1 \in 1..L /\ pipeline'[i] = pipeline[i + 1]
    BY <1>1
  <2>2. \A i \in 1..(L - 1), r \in Requests :
          pipeline'[i].add[r] # NoSlot => pipeline'[i].add[r].len > 0
    BY <1>0, <2>1 DEF PresenceInv, SlotsFilled
  <2> QED
    BY <1>1, <2>2 DEF PresenceInv, SlotsFilled
<1> QED
  BY <1>1, <1>13, <1>14 DEF PresenceInv

\* Output delivered for r: every slot that exists goes on existing.
LEMMA DrainedPresence ==
  ASSUME TypeOK, PresenceInv, pipeline # <<>>, NEW r \in Requests,
         NEW accepted \in Int, NEW appended \in Int, NEW eos \in BOOLEAN,
         UpdateRequest(r, accepted, appended, eos)
  PROVE  PresenceInv'
<1>0. PICK L : L = Len(pipeline)
  OBVIOUS
<1>1. /\ L \in Nat /\ 1 \in 1..L /\ Len(pipeline') = L /\ Updating /\ Updating'
      /\ \A i \in 1..L : i # 1 => pipeline'[i] = pipeline[i]
      /\ pipeline'[1].add = pipeline[1].add /\ pipeline'[1].free = pipeline[1].free
      /\ pipeline[1].n[r] # 0 /\ pipeline'[1].n[r] = 0
      /\ slots'[r] = IF Samples(r)
           THEN [len |-> slots[r].len + accepted + 1,
                 computed |-> slots[r].computed + pipeline[1].n[r]
                                - (pipeline[1].spec[r] - accepted)]
           ELSE [len |-> slots[r].len, computed |-> slots[r].computed + pipeline[1].n[r]]
      /\ \A q \in Requests : q # r => slots'[q] = slots[q] /\ SameSteps(q)
      /\ pc = "update" /\ pc' = "update" /\ UNCHANGED preempted_req_ids
  BY <1>0, DrainedStep, StepTypes
<1>2. PICK p : PresenceOf(p)
  BY DEF PresenceInv
<1>3. slots[r] # NoSlot
  <2>1. 1 \notin Pending /\ 1 - 1 = 0
    BY <1>1 DEF Pending
  <2>2. p[1] = p[1 - 1] /\ r \in p[1]
    BY <1>0, <1>1, <1>2, <2>1 DEF PresenceOf
  <2>3. r \in p[0]
    BY <2>1, <2>2
  <2> QED
    BY <1>2, <2>3 DEF PresenceOf
<1>4. slots'[r].len > 0 /\ slots'[r] # NoSlot
  <2>1. slots[r].len > 0 /\ slots[r].len \in Int
    BY <1>3, FieldTypes DEF PresenceInv, SlotsFilled, Slot
  <2>2. accepted >= 0
    <3>1. accepted \in 0..pipeline[1].spec[r]
      BY DEF UpdateRequest
    <3>2. pipeline[1].spec[r] \in Int
      BY <1>0, <1>1, StepTypes
    <3> QED
      BY <3>1, <3>2
  <2>3. slots'[r].len = slots[r].len + accepted + 1 \/ slots'[r].len = slots[r].len
    BY <1>1
  <2>4. slots'[r].len > 0
    BY <2>1, <2>2, <2>3
  <2>5. NoSlot.len = 0
    BY DEF NoSlot
  <2> QED
    BY <2>4, <2>5
<1>5. \A q \in Requests : slots'[q] # NoSlot <=> slots[q] # NoSlot
  BY <1>1, <1>3, <1>4
<1>6. Pending' = Pending
  BY <1>0, <1>1 DEF Pending
<1>7. \A i \in 1..L : pipeline'[i].add = pipeline[i].add /\ pipeline'[i].free = pipeline[i].free
  BY <1>1
<1>8. \A i \in 1..L, q \in Requests : pipeline'[i].n[q] # 0 => pipeline[i].n[q] # 0
  <2> TAKE i \in 1..L, q \in Requests
  <2>1. CASE q = r
    BY <1>1, <2>1
  <2>2. CASE q # r
    BY <1>0, <1>1, <2>2 DEF SameSteps
  <2> QED
    BY <2>1, <2>2
<1>9. /\ \A q \in Requests : q # r =>
           req'[q].status = req[q].status
           /\ (q \in finished_req_ids' <=> q \in finished_req_ids)
      /\ Len(running') <= MaxActive
      /\ \/ req'[r].status = req[r].status /\ UNCHANGED finished_req_ids
         \/ req'[r].status = "FINISHED" /\ r \in finished_req_ids'
  <2>1. CASE FinishRequest(r)
    <3>1. /\ req' = [req EXCEPT ![r] = Blank("FINISHED")]
          /\ running' = Without(running, r) /\ finished_req_ids' = finished_req_ids \cup {r}
      BY <2>1 DEF FinishRequest
    <3>2. Len(running') <= MaxActive
      <4>1. running \in Seq(Requests)
        BY DEF TypeOK
      <4>2. Len(running') <= Len(running) /\ Len(running) \in Nat
        BY <3>1, <4>1, WithoutShorter, LenProperties
      <4>3. Len(running') \in Nat
        BY <3>1, <4>1, WithoutType, LenProperties
      <4> QED
        BY <4>2, <4>3, ConstantsOK DEF PresenceInv
    <3> QED
      BY <3>1, <3>2 DEF Blank, TypeOK
  <2>2. CASE ~FinishRequest(r)
    <3>1. UNCHANGED <<finished_req_ids, running>>
      BY <2>2 DEF UpdateRequest, queueVars
    <3> DEFINE rejected == IF Samples(r) THEN pipeline[1].spec[r] - accepted ELSE 0
    <3>2. \/ req' = req \/ req' = [req EXCEPT ![r] = Counted(r)]
          \/ req' = [req EXCEPT ![r] = Corrected(r, rejected, appended)]
      BY <2>2, DrainedCases
    <3>3. ASSUME NEW q \in Requests PROVE req'[q].status = req[q].status
      <4>1. Counted(r).status = req[r].status
            /\ Corrected(r, rejected, appended).status = req[r].status
        BY StatusKept
      <4> HIDE DEF rejected
      <4> QED
        BY <3>2, <4>1 DEF TypeOK
    <3> QED
      BY <3>1, <3>3 DEF PresenceInv
  <2> QED
    BY <2>1, <2>2
<1>10. Matches(p[L])'
  <2>1. Matches(p[L]) /\ ~InSchedule /\ ~InSchedule'
    BY <1>0, <1>1, <1>2 DEF PresenceOf, InSchedule
  <2> QED
    BY <1>1, <1>9, <2>1 DEF Matches, Joining
<1>11. PresenceOf(p)'
  <2>1. p[0] = {q \in Requests : slots'[q] # NoSlot}
    BY <1>2, <1>5 DEF PresenceOf
  <2>2. ASSUME NEW i \in 1..L
        PROVE  p[i] = IF i \in Pending'
                      THEN (p[i - 1] \ pipeline'[i].free)
                             \cup {q \in Requests : pipeline'[i].add[q] # NoSlot}
                      ELSE p[i - 1]
    <3>1. p[i] = IF i \in Pending
                 THEN (p[i - 1] \ pipeline[i].free)
                        \cup {q \in Requests : pipeline[i].add[q] # NoSlot}
                 ELSE p[i - 1]
      BY <1>0, <1>2 DEF PresenceOf
    <3>2. pipeline'[i].add = pipeline[i].add /\ pipeline'[i].free = pipeline[i].free
      BY <1>7
    <3> QED
      BY <1>6, <3>1, <3>2
  <2>3. \A i \in 1..L, q \in Requests : pipeline'[i].n[q] # 0 => q \in p[i]
    BY <1>0, <1>2, <1>8 DEF PresenceOf
  <2>4. /\ p \in [0..L -> SUBSET Requests]
        /\ \A i \in 0..L : IsFiniteSet(p[i]) /\ Cardinality(p[i]) <= MaxActive
    BY <1>0, <1>2 DEF PresenceOf
  <2>5. Len(pipeline') = L
    BY <1>1
  <2> QED
    BY <1>10, <2>1, <2>2, <2>3, <2>4, <2>5 DEF PresenceOf
<1>12. SlotsFilled'
  <2>1. \A q \in Requests : slots'[q] # NoSlot => slots'[q].len > 0
    BY <1>1, <1>4 DEF PresenceInv, SlotsFilled
  <2> QED
    BY <1>0, <1>1, <1>7, <2>1 DEF PresenceInv, SlotsFilled
<1> QED
  BY <1>9, <1>11, <1>12 DEF PresenceInv

\* Steps between which nothing about the worker changes.
LEMMA UntouchedPresence ==
  ASSUME TypeOK, PresenceInv,
         UNCHANGED <<req, running, idVars, pipeline, slots>>, Updating' = Updating,
         \A r \in Requests : Joining(r)' <=> Joining(r)
  PROVE  PresenceInv'
<1>1. \A X : Matches(X) => Matches(X)'
  BY DEF Matches, idVars
<1>2. Len(running') <= MaxActive
  BY DEF PresenceInv
<1> QED
  BY <1>1, <1>2, KeptPresence

\* A running request is preempted: its slot is one of those the next step frees.
LEMMA EvictedPresence ==
  ASSUME TypeOK, PresenceInv, NEW r \in Requests, NEW drop, PreemptRequest(r, drop),
         ~Joining(r), Len(running') <= MaxActive,
         UNCHANGED <<pipeline, slots, finished_req_ids>>, Updating' = Updating,
         \A q \in Requests : Joining(q)' <=> Joining(q)
  PROVE  PresenceInv'
<1>1. /\ req' = [req EXCEPT ![r] = Preempted(r, drop)]
      /\ preempted_req_ids' = preempted_req_ids \cup {r}
  BY DEF PreemptRequest
<1>2. req'[r].status = "PREEMPTED" /\ \A q \in Requests : q # r => req'[q] = req[q]
  BY <1>1, StatusKept DEF TypeOK
<1>3. \A X : Matches(X) => Matches(X)'
  BY <1>1, <1>2 DEF Matches
<1> QED
  BY <1>3, KeptPresence

\* Every step keeps the slots the running requests'.
LEMMA PresenceStep ==
  ASSUME TypeOK, UpdatingOldest, QueueInv, LedgerInv, PresenceInv, [Next]_vars
  PROVE  PresenceInv'
<1> USE DEF queueVars, blockVars, seqVars, idVars, stepVars, ctrlVars, localVars
<1>0. running \in Seq(Requests) /\ Len(running) \in Nat /\ Len(running) <= MaxActive
      /\ MaxActive \in Nat
  BY LenProperties, ConstantsOK DEF TypeOK, PresenceInv
<1>1. ASSUME NEW r \in Requests, AddRequest(r) PROVE PresenceInv'
  <2>1. /\ pc = "idle" /\ pc' = pc /\ req[r].status = "NEW"
        /\ req' = [req EXCEPT ![r].status = "WAITING"]
        /\ UNCHANGED <<pipeline, slots, running, idVars>>
    BY <1>1 DEF AddRequest
  <2>2. \A q \in Requests : req'[q].status = "RUNNING" <=> req[q].status = "RUNNING"
    <3>1. req[r] \in ReqFields
      BY DEF TypeOK
    <3>2. req'[r].status = "WAITING"
      BY <2>1, <3>1 DEF TypeOK, ReqFields
    <3> QED
      BY <2>1, <3>2 DEF TypeOK
  <2>3. \A X : Matches(X) => Matches(X)'
    BY <2>1, <2>2 DEF Matches, Joining, InSchedule
  <2> QED
    BY <1>0, <2>1, <2>3, KeptPresence DEF Updating
<1>2. ASSUME NEW r \in Requests, Abort(r) PROVE PresenceInv'
  <2>1. /\ req' = [req EXCEPT ![r] = Blank("FINISHED")] /\ UNCHANGED <<pipeline, slots, pc>>
        /\ running' = Without(running, r) /\ finished_req_ids' = finished_req_ids \cup {r}
        /\ UNCHANGED preempted_req_ids /\ pc = "idle"
    BY <1>2 DEF Abort, FinishRequest
  <2>2. Len(running') <= MaxActive
    <3>1. Len(running') <= Len(running) /\ Len(running') \in Nat
      BY <1>0, <2>1, WithoutShorter, WithoutType, LenProperties
    <3> QED
      BY <1>0, <3>1
  <2>3. req'[r].status = "FINISHED" /\ \A q \in Requests : q # r => req'[q] = req[q]
    BY <2>1 DEF Blank, TypeOK
  <2>4. \A X : Matches(X) => Matches(X)'
    BY <2>1, <2>3 DEF Matches, Joining, InSchedule
  <2> QED
    BY <2>1, <2>2, <2>4, KeptPresence DEF Updating
<1>3. CASE ResetPreempt
  <2>1. PICK r : r = running[Len(running)]
    OBVIOUS
  <2>2. r \in Requests /\ Len(running') <= MaxActive
    <3>1. r \in Requests /\ Len(running) \in 1..Len(running)
      BY <1>3, <2>1, TailFrontType, LenProperties DEF ResetPreempt, TypeOK
    <3>2. running' = SubSeq(running, 1, Len(running) - 1)
      BY <1>3 DEF ResetPreempt
    <3>3. Len(running') = Len(running) - 1
      <4>1. PICK n \in Nat : n = Len(running) - 1
        BY <1>0, <3>1
      <4>2. \A i \in 1..n : running[i] \in Requests
        BY <1>0, <4>1, ElementOfSeq
      <4>3. Len(SubSeq(running, 1, n)) = IF 1 <= n THEN n - 1 + 1 ELSE 0
        BY <4>2, SubSeqProperties
      <4> QED
        BY <3>2, <4>1, <4>3
    <3> QED
      BY <1>0, <3>1, <3>3
  <2>3. /\ PreemptRequest(r, TRUE) /\ pc = "reset" /\ pc' = "reset"
        /\ UNCHANGED <<pipeline, slots, finished_req_ids>>
    BY <1>3, <2>1 DEF ResetPreempt
  <2>4. Updating' = Updating /\ \A q \in Requests : ~Joining(q) /\ ~Joining(q)'
    BY <2>3 DEF Joining, InSchedule, Updating
  <2> QED
    BY <2>2, <2>3, <2>4, EvictedPresence
<1>4. ASSUME NEW r \in Requests, NEW v \in Requests, PreemptVictim(r, v) PROVE PresenceInv'
  <2>1. /\ PreemptRequest(v, RequiresKVDelivery) /\ running' = Without(running, v)
        /\ pc = "running" /\ pc' \in {"running", "finish"}
        /\ UNCHANGED <<pipeline, slots, finished_req_ids, scheduled_new_reqs>>
    BY <1>4 DEF PreemptVictim, LacksBlocks, Wants, AtRunning
  <2>2. Updating' = Updating /\ \A q \in Requests : ~Joining(q) /\ ~Joining(q)'
    BY <2>1 DEF LedgerInv, Joining, Updating
  <2>3. Len(running') <= MaxActive
    <3>1. Len(running') <= Len(running) /\ Len(running') \in Nat
      BY <1>0, <2>1, WithoutShorter, WithoutType, LenProperties
    <3> QED
      BY <1>0, <3>1
  <2> QED
    BY <2>1, <2>2, <2>3, EvictedPresence
<1>5. ASSUME NEW r \in Requests, NEW n, ScheduleRunning(r, n) PROVE PresenceInv'
  <2>1. /\ req' = [req EXCEPT ![r].spec_token_ids = 0]
        /\ UNCHANGED <<pipeline, slots, pc, running, idVars, scheduled_new_reqs>>
    BY <1>5 DEF ScheduleRunning
  <2>2. \A q \in Requests : req'[q].status = req[q].status
    <3>1. req[r] \in ReqFields
      BY DEF TypeOK
    <3> QED
      BY <2>1, <3>1 DEF TypeOK, ReqFields
  <2>3. \A X : Matches(X) => Matches(X)'
    BY <2>1, <2>2 DEF Matches, Joining, InSchedule
  <2> QED
    BY <1>0, <2>1, <2>3, KeptPresence DEF Updating
<1>6. ASSUME NEW r \in Requests, NEW hit, NEW n, AdmitWaiting(r, hit, n) PROVE PresenceInv'
  <2>1. /\ req' = [req EXCEPT ![r] = Admitted(r, hit)] /\ UNCHANGED <<pipeline, slots, pc>>
        /\ running' = Append(running, r) /\ Len(running) < MaxActive /\ pc = "waiting"
        /\ scheduled_new_reqs' = scheduled_new_reqs \cup {r} /\ UNCHANGED idVars
    BY <1>6 DEF AdmitWaiting, AtWaiting
  <2>2. Len(running') <= MaxActive
    <3>1. Len(running') = Len(running) + 1
      BY <1>0, <2>1, AppendProperties
    <3> QED
      BY <1>0, <2>1, <3>1
  <2>3. /\ req'[r].status = "RUNNING" /\ Joining(r)'
        /\ \A q \in Requests : q # r =>
             req'[q] = req[q] /\ (Joining(q)' <=> Joining(q))
    BY <2>1, StatusKept DEF TypeOK, Joining, InSchedule
  <2>4. \A X : Matches(X) => Matches(X)'
    BY <2>1, <2>3 DEF Matches
  <2> QED
    BY <2>1, <2>2, <2>4, KeptPresence DEF Updating
<1>7. ASSUME NEW p, NEW r,
             \/ SetPauseState(p) \/ BeginReset \/ EndReset \/ BeginSchedule
             \/ SkipRunning(r) \/ SkipWaiting(r) \/ EndRunning \/ EndWaiting
      PROVE  PresenceInv'
  <2>1. /\ pc \notin {"drain", "update"} /\ pc' \notin {"drain", "update"}
        /\ UNCHANGED <<req, running, idVars, pipeline, slots>>
    BY <1>7 DEF SetPauseState, BeginReset, EndReset, BeginSchedule, SkipRunning,
                SkipWaiting, EndRunning, EndWaiting, AtRunning, AtWaiting
  <2>2. \/ pc \in {"idle", "reset"} /\ pc' \in {"idle", "reset"}
        \/ pc = "idle" /\ pc' = "running" /\ scheduled_new_reqs' = {}
        \/ /\ pc \in {"running", "waiting", "finish"} /\ pc' \in {"running", "waiting", "finish"}
           /\ UNCHANGED scheduled_new_reqs
    BY <1>7 DEF SetPauseState, BeginReset, EndReset, BeginSchedule, SkipRunning,
                SkipWaiting, EndRunning, EndWaiting, AtRunning, AtWaiting
  <2>3. \A q \in Requests : Joining(q)' <=> Joining(q)
    BY <2>2 DEF Joining, InSchedule
  <2> QED
    BY <2>1, <2>3, UntouchedPresence DEF Updating
<1>8. CASE DrainDeferredFree \/ EndDrain
  <2>1. /\ pc \in {"drain", "update"} /\ pc' \in {"drain", "update"}
        /\ UNCHANGED <<req, running, idVars, pipeline, slots>>
    BY <1>8 DEF DrainDeferredFree, EndDrain
  <2> QED
    BY <2>1, UntouchedPresence DEF Updating, Joining, InSchedule
<1>9. CASE EndSchedule \/ BeginUpdate \/ EndUpdate
  BY <1>9, SentPresence, RunPresence, PoppedPresence
<1>10. ASSUME NEW r \in Requests, NEW accepted \in 0..MaxSpec,
              NEW appended \in 0..(MaxSpec + 1), NEW eos \in BOOLEAN,
              UpdateRequest(r, accepted, appended, eos)
       PROVE  PresenceInv'
  <2>1. pipeline # <<>> /\ accepted \in Int /\ appended \in Int
    BY <1>10 DEF UpdateRequest, UpdatingOldest
  <2> QED
    BY <1>10, <2>1, DrainedPresence
<1>11. CASE UNCHANGED vars
  <2>1. UNCHANGED <<req, running, idVars, pipeline, slots, pc, scheduled_new_reqs>>
    BY <1>11 DEF vars
  <2> QED
    BY <2>1, UntouchedPresence DEF Updating, Joining, InSchedule
<1> QED
  BY <1>1, <1>2, <1>3, <1>4, <1>5, <1>6, <1>7, <1>8, <1>9, <1>10, <1>11
     DEF Next, Client, ResetCall, ScheduleCall, UpdateCall

\* Whatever a step computes, the worker has the request's slot when it runs, and never
\* more of them than it has room for: requests that were preempted or finished are
\* freed in time for those admitted.
THEOREM SlotsAlwaysMatch == Spec => []WorkerSlotsMatch
<1>1. Init => PresenceInv
  <2> SUFFICES ASSUME Init PROVE PresenceInv
    OBVIOUS
  <2>1. /\ running = <<>> /\ pipeline = <<>> /\ pc = "idle"
        /\ \A r \in Requests : slots[r] = NoSlot /\ req[r].status = "NEW"
    BY DEF Init, Blank
  <2>2. Len(running) = 0 /\ Len(pipeline) = 0 /\ MaxActive \in Nat
    BY <2>1, ConstantsOK, EmptySeq
  <2>3. PICK p : p = [i \in 0..0 |-> {}]
    OBVIOUS
  <2>4. p \in [0..0 -> SUBSET Requests] /\ \A i \in 0..0 : p[i] = {} /\ i = 0
    BY <2>3
  <2>5. IsFiniteSet({}) /\ Cardinality({}) = 0
    BY FS_EmptySet
  <2>6. PresenceOf(p)
    <3>1. \A i : i \notin 1..0
      OBVIOUS
    <3>2. \A r \in Requests : ~Joining(r)
      BY <2>1 DEF Joining, InSchedule
    <3>3. 0 \in 0..0
      OBVIOUS
    <3>4. Matches(p[0])
      BY <2>1, <2>4, <3>2, <3>3 DEF Matches
    <3>5. \A i \in 0..0 : IsFiniteSet(p[i]) /\ Cardinality(p[i]) <= MaxActive
      BY <2>2, <2>4, <2>5
    <3> QED
      BY <2>1, <2>2, <2>4, <3>1, <3>3, <3>4, <3>5 DEF PresenceOf
  <2>7. SlotsFilled
    BY <2>1, <2>2 DEF SlotsFilled
  <2> QED
    BY <2>2, <2>6, <2>7 DEF PresenceInv
<1>2. TypeOK /\ UpdatingOldest /\ PresenceInv => WorkerSlotsMatch
  <2> SUFFICES ASSUME TypeOK, UpdatingOldest, PresenceInv, pc = "update"
               PROVE  /\ \A r \in Requests : pipeline[1].n[r] # 0 => slots[r] # NoSlot
                      /\ Cardinality({r \in Requests : slots[r] # NoSlot}) <= MaxActive
    BY DEF WorkerSlotsMatch
  <2>0. PICK L : L = Len(pipeline)
    OBVIOUS
  <2>1. L \in Nat /\ 1 \in 1..L /\ 0 \in 0..L
    <3>1. pipeline # <<>> /\ L \in Nat
      BY <2>0, StepTypes DEF UpdatingOldest
    <3>2. L # 0
      BY <2>0, <3>1, EmptySeq DEF TypeOK
    <3> QED
      BY <3>1, <3>2
  <2>2. PICK p : PresenceOf(p)
    BY DEF PresenceInv
  <2>3. 1 \notin Pending /\ 1 - 1 = 0
    BY DEF Pending, Updating
  <2>4. p[1] = p[1 - 1]
    BY <2>0, <2>1, <2>2, <2>3 DEF PresenceOf
  <2>5. p[1] = p[0] /\ p[0] = {r \in Requests : slots[r] # NoSlot}
    BY <2>2, <2>3, <2>4 DEF PresenceOf
  <2>6. \A r \in Requests : pipeline[1].n[r] # 0 => r \in p[1]
    BY <2>0, <2>1, <2>2 DEF PresenceOf
  <2>7. Cardinality(p[0]) <= MaxActive
    BY <2>0, <2>1, <2>2 DEF PresenceOf
  <2> QED
    BY <2>5, <2>6, <2>7
<1>3. Init => TypeOK /\ UpdatingOldest
  BY TypesInit, UpdatingOldestInit
<1>4. TypeOK /\ UpdatingOldest /\ [Next]_vars => TypeOK' /\ UpdatingOldest'
  BY TypesStep, UpdatingOldestStep
<1>5. TypeOK /\ UpdatingOldest /\ QueueInv /\ LedgerInv /\ PresenceInv /\ [Next]_vars
        => PresenceInv'
  BY PresenceStep
<1> QED
  BY <1>1, <1>2, <1>3, <1>4, <1>5, LedgerHolds, PTL DEF Spec

-----------------------------------------------------------------------------
(* Sums over requests *)

\* g[S] is the sum of f over the members of S, in the order in which Total adds them.
SumStep(f, g, S) ==
  IF S = {} THEN 0 ELSE LET r == CHOOSE r \in S : TRUE IN f[r] + g[S \ {r}]
IsSum(f, g) == g = [S \in SUBSET Requests |-> SumStep(f, g, S)]

\* A family of sets that has every set whose smaller subsets it has, one member
\* dropped, has them all.
LEMMA SmallerSets ==
  ASSUME NEW X, IsFiniteSet(X), NEW Good,
         \A S \in SUBSET X : (\A r \in S : S \ {r} \in Good) => S \in Good
  PROVE  \A S \in SUBSET X : S \in Good
<1> SUFFICES ASSUME NEW B \in SUBSET X, B \notin Good PROVE FALSE
  OBVIOUS
<1> DEFINE Sizes == {Cardinality(S) : S \in {S \in SUBSET X : S \notin Good}}
<1>1. \A S \in SUBSET X : IsFiniteSet(S) /\ Cardinality(S) \in Nat
  BY FS_Subset, FS_CardinalityType
<1>2. Sizes \subseteq Nat /\ Sizes # {}
  BY <1>1
<1>3. PICK m \in Sizes : \A i \in Sizes : m <= i
  BY <1>2, LeastNumber
<1>4. PICK S \in SUBSET X : S \notin Good /\ m = Cardinality(S)
  BY <1>3
<1>5. PICK r \in S : S \ {r} \notin Good
  BY <1>4
<1>6. Cardinality(S \ {r}) = m - 1
  BY <1>1, <1>4, <1>5, FS_RemoveElement
<1>7. Cardinality(S \ {r}) \in Sizes
  BY <1>4, <1>5
<1> HIDE DEF Sizes
<1>8. m \in Nat /\ m <= Cardinality(S \ {r})
  BY <1>2, <1>3, <1>7
<1> QED
  BY <1>6, <1>8

\* The recursion that Total unfolds has a solution.
LEMMA SumExists ==
  ASSUME IsFiniteSet(Requests), NEW f \in [Requests -> Int]
  PROVE  \E g : IsSum(f, g)
<1> DEFINE Upto(n, g) ==
             \A S \in SUBSET Requests : Cardinality(S) <= n => g[S] = SumStep(f, g, S)
           Next1(g) == [S \in SUBSET Requests |-> SumStep(f, g, S)]
           Missing == {n \in Nat : ~\E g : Upto(n, g)}
<1>1. \A S \in SUBSET Requests : IsFiniteSet(S) /\ Cardinality(S) \in Nat
  BY FS_Subset, FS_CardinalityType
<1>2. ASSUME NEW n \in Nat, NEW g, n = 0 \/ Upto(n - 1, g) PROVE Upto(n, Next1(g))
  <2> SUFFICES ASSUME NEW S \in SUBSET Requests, Cardinality(S) <= n
               PROVE  Next1(g)[S] = SumStep(f, Next1(g), S)
    OBVIOUS
  <2>1. Next1(g)[S] = SumStep(f, g, S)
    OBVIOUS
  <2>2. CASE S = {}
    BY <2>1, <2>2 DEF SumStep
  <2>3. CASE S # {}
    <3>1. PICK r : r = CHOOSE q \in S : TRUE
      OBVIOUS
    <3>2. r \in S
      BY <2>3, <3>1
    <3>3. S \ {r} \in SUBSET Requests /\ Cardinality(S \ {r}) = Cardinality(S) - 1
          /\ Cardinality(S \ {r}) \in Nat
      BY <1>1, <3>2, FS_RemoveElement
    <3>4. Cardinality(S \ {r}) <= n - 1 /\ n # 0
      BY <1>1, <3>3
    <3>5. g[S \ {r}] = SumStep(f, g, S \ {r})
      BY <1>2, <3>3, <3>4
    <3>6. Next1(g)[S \ {r}] = g[S \ {r}]
      BY <3>3, <3>5
    <3>7. \A h : SumStep(f, h, S) = f[r] + h[S \ {r}]
      BY <2>3, <3>1 DEF SumStep
    <3> QED
      BY <2>1, <3>6, <3>7
  <2> QED
    BY <2>2, <2>3
<1> HIDE DEF Next1
<1>3. Missing = {}
  <2> SUFFICES ASSUME Missing # {} PROVE FALSE
    OBVIOUS
  <2>1. Missing \subseteq Nat
    OBVIOUS
  <2>2. PICK n \in Missing : \A i \in Missing : n <= i
    BY <2>1, LeastNumber
  <2> HIDE DEF Upto
  <2>3. n \in Nat /\ ~\E g : Upto(n, g)
    BY <2>2
  <2>4. n # 0
    <3>1. n = 0 => Upto(n, Next1(f))
      BY <1>2, <2>3
    <3> QED
      BY <2>3, <3>1
  <2>5. n - 1 \in Nat /\ ~(n <= n - 1)
    BY <2>3, <2>4
  <2>6. n - 1 \notin Missing
    BY <2>2, <2>5
  <2>7. PICK g : Upto(n - 1, g)
    BY <2>5, <2>6
  <2>8. Upto(n, Next1(g))
    BY <1>2, <2>3, <2>7
  <2> QED
    BY <2>3, <2>8
<1>4. PICK n : n = Cardinality(Requests)
  OBVIOUS
<1>5. n \in Nat /\ \A S \in SUBSET Requests : Cardinality(S) <= n
  BY <1>4, FS_Subset, FS_CardinalityType
<1>6. PICK g : Upto(n, g)
  BY <1>3, <1>5
<1>7. \A S \in SUBSET Requests : g[S] = SumStep(f, g, S)
  BY <1>5, <1>6
<1>8. PICK h : h = Next1(g)
  OBVIOUS
<1>9. h = [S \in SUBSET Requests |-> SumStep(f, g, S)]
  BY <1>8 DEF Next1
<1>10. \A S \in SUBSET Requests : h[S] = g[S]
  BY <1>7, <1>9
<1>11. \A S \in SUBSET Requests : SumStep(f, h, S) = SumStep(f, g, S)
  <2> TAKE S \in SUBSET Requests
  <2>1. CASE S = {}
    BY <2>1 DEF SumStep
  <2>2. CASE S # {}
    <3>1. PICK r : r = CHOOSE q \in S : TRUE
      OBVIOUS
    <3>2. S \ {r} \in SUBSET Requests
      OBVIOUS
    <3>3. h[S \ {r}] = g[S \ {r}]
      BY <1>10, <3>2
    <3> QED
      BY <2>2, <3>1, <3>3 DEF SumStep
  <2> QED
    BY <2>1, <2>2
<1>12. h = [S \in SUBSET Requests |-> SumStep(f, h, S)]
  BY <1>9, <1>11
<1> QED
  BY <1>12 DEF IsSum

\* A sum in which any one member can be taken out first.
Splits(f, g) ==
  /\ g[{}] = 0
  /\ \A S \in SUBSET Requests : g[S] \in Int
  /\ \A S \in SUBSET Requests : \A r \in S : g[S] = f[r] + g[S \ {r}]

\* The order in which Total adds the members makes no difference.
LEMMA SumSplits ==
  ASSUME IsFiniteSet(Requests), NEW f \in [Requests -> Int], NEW g, IsSum(f, g)
  PROVE  Splits(f, g)
<1>1. \A S \in SUBSET Requests : g[S] = SumStep(f, g, S)
  BY DEF IsSum
<1>2. g[{}] = 0
  BY <1>1 DEF SumStep
<1>3. ASSUME NEW S \in SUBSET Requests, S # {}
      PROVE  \E c \in S : g[S] = f[c] + g[S \ {c}]
  BY <1>1, <1>3 DEF SumStep
<1>4. \A S \in SUBSET Requests : g[S] \in Int
  <2> DEFINE Good == {S \in SUBSET Requests : g[S] \in Int}
  <2>1. ASSUME NEW S \in SUBSET Requests, \A r \in S : S \ {r} \in Good PROVE S \in Good
    <3>1. CASE S = {}
      BY <1>2, <3>1
    <3>2. CASE S # {}
      <4>1. PICK c \in S : g[S] = f[c] + g[S \ {c}]
        BY <1>3, <3>2
      <4>2. g[S \ {c}] \in Int /\ f[c] \in Int
        BY <2>1
      <4> QED
        BY <4>1, <4>2
    <3> QED
      BY <3>1, <3>2
  <2> HIDE DEF Good
  <2>2. \A S \in SUBSET Requests : S \in Good
    BY <2>1, SmallerSets
  <2> QED
    BY <2>2 DEF Good
<1> DEFINE Good == {S \in SUBSET Requests : \A r \in S : g[S] = f[r] + g[S \ {r}]}
<1>5. ASSUME NEW S \in SUBSET Requests, \A r \in S : S \ {r} \in Good PROVE S \in Good
  <2> SUFFICES ASSUME NEW r \in S PROVE g[S] = f[r] + g[S \ {r}]
    OBVIOUS
  <2>1. PICK c \in S : g[S] = f[c] + g[S \ {c}]
    BY <1>3
  <2>2. CASE r = c
    BY <2>1, <2>2
  <2>3. CASE r # c
    <3>1. PICK T : T = (S \ {c}) \ {r}
      OBVIOUS
    <3>2. T = (S \ {r}) \ {c} /\ T \in SUBSET Requests
      BY <3>1
    <3>3. r \in S \ {c} /\ c \in S \ {r}
      BY <2>3
    <3>4. g[S \ {c}] = f[r] + g[T]
      BY <1>5, <3>1, <3>3
    <3>5. g[S \ {r}] = f[c] + g[T]
      BY <1>5, <3>2, <3>3
    <3>6. g[T] \in Int /\ f[r] \in Int /\ f[c] \in Int
      BY <1>4, <3>2
    <3> QED
      BY <2>1, <3>4, <3>5, <3>6
  <2> QED
    BY <2>2, <2>3
<1> HIDE DEF Good
<1>6. \A S \in SUBSET Requests : S \in Good
  BY <1>5, SmallerSets
<1> QED
  BY <1>2, <1>4, <1>6 DEF Good, Splits

\* Functions that agree on a set have the same sum over it.
LEMMA SumsAgree ==
  ASSUME IsFiniteSet(Requests), NEW f \in [Requests -> Int], NEW h \in [Requests -> Int],
         NEW g, IsSum(f, g), NEW k, IsSum(h, k),
         NEW U \in SUBSET Requests, \A r \in U : f[r] = h[r]
  PROVE  g[U] = k[U]
<1> DEFINE Good == {S \in SUBSET Requests : S \subseteq U => g[S] = k[S]}
<1>1. /\ g[{}] = 0 /\ k[{}] = 0
      /\ \A S \in SUBSET Requests : \A r \in S : g[S] = f[r] + g[S \ {r}]
      /\ \A S \in SUBSET Requests : \A r \in S : k[S] = h[r] + k[S \ {r}]
  <2>1. Splits(f, g) /\ Splits(h, k)
    BY SumSplits
  <2> QED
    BY <2>1 DEF Splits
<1>2. ASSUME NEW S \in SUBSET Requests, \A r \in S : S \ {r} \in Good PROVE S \in Good
  <2>1. CASE S = {}
    BY <1>1, <2>1
  <2>2. CASE S # {}
    <3> SUFFICES ASSUME S \subseteq U PROVE g[S] = k[S]
      OBVIOUS
    <3>1. PICK r \in S : TRUE
      BY <2>2
    <3>2. g[S] = f[r] + g[S \ {r}] /\ k[S] = h[r] + k[S \ {r}] /\ f[r] = h[r]
      BY <1>1, <3>1
    <3>3. g[S \ {r}] = k[S \ {r}]
      BY <1>2, <3>1
    <3> QED
      BY <3>2, <3>3
  <2> QED
    BY <2>1, <2>2
<1> HIDE DEF Good
<1>3. \A S \in SUBSET Requests : S \in Good
  BY <1>2, SmallerSets
<1> QED
  BY <1>3 DEF Good

\* What Total adds up.
LEMMA TotalIsSum ==
  ASSUME IsFiniteSet(Requests), NEW f \in [Requests -> Int]
  PROVE  \E g : IsSum(f, g) /\ Total(f) = g[Requests]
<1> DEFINE body(g) == [S \in SUBSET Requests |->
                         IF S = {} THEN 0
                         ELSE LET r == CHOOSE r \in S : TRUE IN f[r] + g[S \ {r}]]
<1>1. \A g : IsSum(f, g) <=> g = body(g)
  BY DEF IsSum, SumStep
<1>2. PICK g : g = CHOOSE h : h = body(h)
  OBVIOUS
<1> HIDE DEF body
<1>3. IsSum(f, g)
  <2>1. PICK k : IsSum(f, k)
    BY SumExists
  <2>2. k = body(k)
    BY <1>1, <2>1
  <2>3. g = body(g)
    BY <1>2, <2>2
  <2> QED
    BY <1>1, <2>3
<1>4. Total(f) = g[Requests]
  BY <1>2 DEF Total, body
<1> QED
  BY <1>3, <1>4

\* Changing one summand changes the total by as much.
LEMMA TotalChanges ==
  ASSUME IsFiniteSet(Requests), NEW f \in [Requests -> Int], NEW r \in Requests, NEW n \in Int
  PROVE  /\ Total(f) \in Int
         /\ Total([f EXCEPT ![r] = n]) = Total(f) - f[r] + n
<1>1. PICK h : h = [f EXCEPT ![r] = n]
  OBVIOUS
<1>2. h \in [Requests -> Int] /\ h[r] = n /\ \A q \in Requests \ {r} : h[q] = f[q]
  BY <1>1
<1>3. PICK g : IsSum(f, g) /\ Total(f) = g[Requests]
  BY TotalIsSum
<1>4. PICK k : IsSum(h, k) /\ Total(h) = k[Requests]
  BY <1>2, TotalIsSum
<1>5. /\ g[Requests] \in Int /\ g[Requests \ {r}] \in Int
      /\ g[Requests] = f[r] + g[Requests \ {r}]
  <2>1. /\ \A S \in SUBSET Requests : g[S] \in Int
        /\ \A S \in SUBSET Requests : \A q \in S : g[S] = f[q] + g[S \ {q}]
    BY <1>3, SumSplits DEF Splits
  <2>2. Requests \in SUBSET Requests /\ Requests \ {r} \in SUBSET Requests
    OBVIOUS
  <2> QED
    BY <2>1, <2>2
<1>6. k[Requests] = n + k[Requests \ {r}]
  <2>1. Splits(h, k)
    BY <1>2, <1>4, SumSplits
  <2>2. Requests \in SUBSET Requests
    OBVIOUS
  <2> QED
    BY <1>2, <2>1, <2>2 DEF Splits
<1>7. k[Requests \ {r}] = g[Requests \ {r}]
  BY <1>2, <1>3, <1>4, SumsAgree
<1>8. f[r] \in Int
  OBVIOUS
<1> QED
  BY <1>1, <1>3, <1>4, <1>5, <1>6, <1>7, <1>8

\* An empty batch holds nothing.
LEMMA TotalOfZero ==
  ASSUME IsFiniteSet(Requests)
  PROVE  Total(Zero) = 0
<1>1. Zero \in [Requests -> Int] /\ \A r \in Requests : Zero[r] = 0
  BY DEF Zero
<1>2. PICK g : IsSum(Zero, g) /\ Total(Zero) = g[Requests]
  BY <1>1, TotalIsSum
<1> DEFINE Good == {S \in SUBSET Requests : g[S] = 0}
<1>3. /\ g[{}] = 0
      /\ \A S \in SUBSET Requests : \A r \in S : g[S] = Zero[r] + g[S \ {r}]
  BY <1>1, <1>2, SumSplits DEF Splits
<1>4. ASSUME NEW S \in SUBSET Requests, \A r \in S : S \ {r} \in Good PROVE S \in Good
  <2>1. CASE S = {}
    BY <1>3, <2>1
  <2>2. CASE S # {}
    <3>1. PICK r \in S : g[S] = 0 + g[S \ {r}]
      BY <1>1, <1>3, <2>2
    <3> QED
      BY <1>4, <3>1
  <2> QED
    BY <2>1, <2>2
<1> HIDE DEF Good
<1>5. \A S \in SUBSET Requests : S \in Good
  BY <1>4, SmallerSets
<1> QED
  BY <1>2, <1>5 DEF Good

\* One request's share of the batch changes: what the budgets must account for.
LEMMA ShareChanges ==
  ASSUME IsFiniteSet(Requests), TypeOK, NEW r \in Requests, NEW n \in Int,
         num_scheduled_tokens' = [num_scheduled_tokens EXCEPT ![r] = n]
  PROVE  \E t, c \in Int :
           /\ t = Total(num_scheduled_tokens) /\ c = DraftSlots * Cardinality(Scheduled)
           /\ Total(num_scheduled_tokens') = t - num_scheduled_tokens[r] + n
           /\ DraftSlots * Cardinality(Scheduled)'
                = c - (IF num_scheduled_tokens[r] = 0 THEN 0 ELSE DraftSlots)
                    + (IF n = 0 THEN 0 ELSE DraftSlots)
<1>1. PICK d \in Nat : d = DraftSlots
  BY ConstantsOK
<1>2. num_scheduled_tokens \in [Requests -> Int]
  BY DEF TypeOK
<1>3. PICK t \in Int :
        /\ t = Total(num_scheduled_tokens)
        /\ Total(num_scheduled_tokens') = t - num_scheduled_tokens[r] + n
  BY <1>2, TotalChanges
<1>4. PICK S : S = Scheduled
  OBVIOUS
<1>5. PICK a \in Nat : a = Cardinality(S \ {r}) /\ IsFiniteSet(S \ {r})
  BY <1>4, FS_Subset, FS_CardinalityType DEF Scheduled
<1>6. /\ num_scheduled_tokens[r] = 0 => S = S \ {r}
      /\ num_scheduled_tokens[r] # 0 => S = (S \ {r}) \cup {r}
      /\ n = 0 => Scheduled' = S \ {r}
      /\ n # 0 => Scheduled' = (S \ {r}) \cup {r}
  BY <1>2, <1>4 DEF Scheduled
<1>7. Cardinality((S \ {r}) \cup {r}) = a + 1
  BY <1>5, FS_AddElement
<1>8. /\ Cardinality(S) = IF num_scheduled_tokens[r] = 0 THEN a ELSE a + 1
      /\ Cardinality(Scheduled') = IF n = 0 THEN a ELSE a + 1
  BY <1>5, <1>6, <1>7
<1>9. PICK p \in Int : p = d * a /\ d * (a + 1) = p + d
  <2>1. d * a \in Int /\ d * (a + 1) = d * a + d
    OBVIOUS
  <2> QED
    BY <2>1
<1>10. /\ d * Cardinality(S) = IF num_scheduled_tokens[r] = 0 THEN p ELSE p + d
       /\ d * Cardinality(Scheduled') = IF n = 0 THEN p ELSE p + d
  BY <1>8, <1>9
<1>11. PICK c \in Int : c = d * Cardinality(S)
  BY <1>10
<1>12. d * Cardinality(Scheduled')
         = c - (IF num_scheduled_tokens[r] = 0 THEN 0 ELSE d) + (IF n = 0 THEN 0 ELSE d)
  BY <1>10, <1>11
<1>13. DraftSlots' = DraftSlots
  OBVIOUS
<1> QED
  BY <1>1, <1>3, <1>4, <1>11, <1>12

-----------------------------------------------------------------------------
(* The batch and the budgets *)

\* The inductive invariant behind the budgets: what the RUNNING loop has still to look
\* at is not in the batch yet.
BatchInv ==
  InSchedule =>
    /\ token_budget >= 0 /\ input_budget >= 0
    /\ pause_state # "PAUSED_ALL" =>
         Total(num_scheduled_tokens) + token_budget = MaxScheduledTokens
    /\ Total(num_scheduled_tokens) + DraftSlots * Cardinality(Scheduled)
         + input_budget = MaxBatchedTokens
    /\ pc = "running" =>
         \A i \in 1..Len(running) :
           i >= req_index => num_scheduled_tokens[running[i]] = 0

\* A request that is not in the batch joins it with n tokens, within the budget.
LEMMA BatchGrows ==
  ASSUME IsFiniteSet(Requests), TypeOK, BatchInv, InSchedule, pc' = pc,
         NEW r \in Requests, NEW n \in Int, n > 0, n <= Budget,
         num_scheduled_tokens[r] = 0,
         num_scheduled_tokens' = [num_scheduled_tokens EXCEPT ![r] = n],
         token_budget' = token_budget - n,
         input_budget' = input_budget - (n + DraftSlots),
         UNCHANGED pause_state,
         pc = "running" =>
           \A i \in 1..Len(running') :
             i >= req_index' => num_scheduled_tokens'[running'[i]] = 0
  PROVE  BatchInv'
<1>1. PICK T, I, D : T = token_budget /\ I = input_budget /\ D = DraftSlots
  OBVIOUS
<1>2. T \in Int /\ I \in Int /\ D \in Nat /\ MaxScheduledTokens \in Int
      /\ MaxBatchedTokens \in Int
  BY <1>1, ConstantsOK DEF TypeOK
<1>3. n <= T /\ n <= I - D
  BY <1>1, <1>2 DEF Budget, Lesser
<1>4. PICK t, c \in Int :
        /\ t = Total(num_scheduled_tokens) /\ c = DraftSlots * Cardinality(Scheduled)
        /\ Total(num_scheduled_tokens') = t - num_scheduled_tokens[r] + n
        /\ DraftSlots * Cardinality(Scheduled)'
             = c - (IF num_scheduled_tokens[r] = 0 THEN 0 ELSE DraftSlots)
                 + (IF n = 0 THEN 0 ELSE DraftSlots)
  BY ShareChanges
<1>5. /\ Total(num_scheduled_tokens') = t + n
      /\ DraftSlots * Cardinality(Scheduled)' = c + D
  BY <1>1, <1>2, <1>4
<1>6. /\ pause_state # "PAUSED_ALL" => t + T = MaxScheduledTokens
      /\ t + c + I = MaxBatchedTokens
  BY <1>1, <1>4 DEF BatchInv
<1>7. /\ token_budget' = T - n /\ input_budget' = I - (n + D)
      /\ T - n >= 0 /\ I - (n + D) >= 0
  BY <1>1, <1>2, <1>3
<1>8. /\ pause_state # "PAUSED_ALL" => (t + n) + (T - n) = MaxScheduledTokens
      /\ (t + n) + (c + D) + (I - (n + D)) = MaxBatchedTokens
  BY <1>2, <1>4, <1>6
<1>9. /\ pause_state' # "PAUSED_ALL" =>
           Total(num_scheduled_tokens') + token_budget' = MaxScheduledTokens
      /\ Total(num_scheduled_tokens') + DraftSlots * Cardinality(Scheduled)'
           + input_budget' = MaxBatchedTokens
      /\ token_budget' >= 0 /\ input_budget' >= 0
  BY <1>5, <1>7, <1>8
<1> QED
  BY <1>9 DEF BatchInv

\* A victim leaves the batch and its share goes back to the budgets.
LEMMA BatchShrinks ==
  ASSUME IsFiniteSet(Requests), TypeOK, BatchInv, InSchedule, InSchedule',
         NEW v \in Requests, num_scheduled_tokens[v] >= 0, GiveBack(v),
         num_scheduled_tokens' = [num_scheduled_tokens EXCEPT ![v] = 0],
         UNCHANGED pause_state,
         pc' = "running" =>
           \A i \in 1..Len(running') :
             i >= req_index' => num_scheduled_tokens'[running'[i]] = 0
  PROVE  BatchInv'
<1>0. PICK z \in Int : z = 0
  OBVIOUS
<1>1. PICK T, I, D, m : /\ T = token_budget /\ I = input_budget /\ D = DraftSlots
                        /\ m = num_scheduled_tokens[v]
  OBVIOUS
<1>2. T \in Int /\ I \in Int /\ D \in Nat /\ m \in Nat /\ MaxScheduledTokens \in Int
      /\ MaxBatchedTokens \in Int
  BY <1>1, ConstantsOK DEF TypeOK
<1>3. PICK e \in Nat : e = IF m = 0 THEN 0 ELSE D
  BY <1>2
<1>4. PICK t, c \in Int :
        /\ t = Total(num_scheduled_tokens) /\ c = DraftSlots * Cardinality(Scheduled)
        /\ Total(num_scheduled_tokens') = t - num_scheduled_tokens[v] + z
        /\ DraftSlots * Cardinality(Scheduled)'
             = c - (IF num_scheduled_tokens[v] = 0 THEN 0 ELSE DraftSlots)
                 + (IF z = 0 THEN 0 ELSE DraftSlots)
  <2>1. num_scheduled_tokens' = [num_scheduled_tokens EXCEPT ![v] = z]
    BY <1>0
  <2> QED
    BY <2>1, ShareChanges
<1>5. /\ Total(num_scheduled_tokens') = t - m
      /\ DraftSlots * Cardinality(Scheduled)' = c - e
  BY <1>0, <1>1, <1>2, <1>3, <1>4
<1>6. /\ pause_state # "PAUSED_ALL" => t + T = MaxScheduledTokens
      /\ t + c + I = MaxBatchedTokens /\ T >= 0 /\ I >= 0
  BY <1>1, <1>4 DEF BatchInv
<1>7. token_budget' = T + m /\ input_budget' = I + (m + e)
  BY <1>1, <1>2, <1>3 DEF GiveBack
<1>8. /\ pause_state # "PAUSED_ALL" => (t - m) + (T + m) = MaxScheduledTokens
      /\ (t - m) + (c - e) + (I + (m + e)) = MaxBatchedTokens
      /\ T + m >= 0 /\ I + (m + e) >= 0
  BY <1>2, <1>3, <1>4, <1>6
<1>9. /\ pause_state' # "PAUSED_ALL" =>
           Total(num_scheduled_tokens') + token_budget' = MaxScheduledTokens
      /\ Total(num_scheduled_tokens') + DraftSlots * Cardinality(Scheduled)'
           + input_budget' = MaxBatchedTokens
      /\ token_budget' >= 0 /\ input_budget' >= 0
  BY <1>5, <1>7, <1>8
<1> QED
  BY <1>9 DEF BatchInv

\* Taking a member out of a queue moves the later ones up by one position.
LEMMA WithoutAt ==
  ASSUME NEW q \in Seq(Requests), NEW v, Contains(q, v)
  PROVE  /\ Len(Without(q, v)) = Len(q) - 1
         /\ \A i \in 1..(Len(q) - 1) :
              Without(q, v)[i] = IF i < IndexOf(q, v) THEN q[i] ELSE q[i + 1]
<1>1. PICK k, L \in Nat : k = IndexOf(q, v) /\ L = Len(q) /\ k \in 1..L
  BY IndexOfType, LenProperties
<1>2. PICK a : a = SubSeq(q, 1, k - 1)
  OBVIOUS
<1>3. PICK b : b = SubSeq(q, k + 1, L)
  OBVIOUS
<1>4. /\ a \in Seq(Requests) /\ Len(a) = k - 1
      /\ \A i \in 1..(k - 1) : a[i] = q[i]
  BY <1>1, <1>2
<1>5. /\ b \in Seq(Requests) /\ Len(b) = L - k
      /\ \A i \in 1..(L - k) : b[i] = q[k + i]
  BY <1>1, <1>3
<1>6. Without(q, v) = a \o b
  BY <1>1, <1>2, <1>3 DEF Without
<1>7. /\ Len(a \o b) = L - 1
      /\ \A i \in 1..(L - 1) : (a \o b)[i] = IF i <= k - 1 THEN a[i] ELSE b[i - (k - 1)]
  <2>1. /\ Len(a \o b) = Len(a) + Len(b)
        /\ \A i \in 1..(Len(a) + Len(b)) :
             (a \o b)[i] = IF i <= Len(a) THEN a[i] ELSE b[i - Len(a)]
    BY <1>4, <1>5, ConcatProperties
  <2>2. Len(a) + Len(b) = L - 1
    BY <1>1, <1>4, <1>5
  <2> QED
    BY <1>4, <2>1, <2>2
<1>8. ASSUME NEW i \in 1..(L - 1)
      PROVE  (a \o b)[i] = IF i < k THEN q[i] ELSE q[i + 1]
  <2>1. CASE i < k
    BY <1>1, <1>4, <1>7, <2>1
  <2>2. CASE ~(i < k)
    <3>1. i - (k - 1) \in 1..(L - k) /\ k + (i - (k - 1)) = i + 1
      BY <1>1, <2>2
    <3>2. (a \o b)[i] = b[i - (k - 1)]
      BY <1>1, <1>7, <2>2
    <3>3. b[i - (k - 1)] = q[k + (i - (k - 1))]
      BY <1>5, <3>1
    <3> QED
      BY <2>2, <3>1, <3>2, <3>3
  <2> QED
    BY <2>1, <2>2
<1> QED
  BY <1>1, <1>6, <1>7, <1>8

\* Evicting a request leaves those not yet looked at behind req_index.
LEMMA EvictedIndex ==
  ASSUME TypeOK, NEW v \in Requests, Contains(running, v),
         \A i \in 1..Len(running) : i >= req_index => num_scheduled_tokens[running[i]] = 0,
         running' = Without(running, v), req_index' = IndexAfterEviction(v),
         num_scheduled_tokens' = [num_scheduled_tokens EXCEPT ![v] = 0]
  PROVE  \A i \in 1..Len(running') :
           i >= req_index' => num_scheduled_tokens'[running'[i]] = 0
<1>1. PICK k, L, x \in Nat : k = IndexOf(running, v) /\ L = Len(running) /\ x = req_index
                             /\ k \in 1..L
  BY IndexOfType, LenProperties DEF TypeOK
<1>2. req_index' = IF k < x THEN x - 1 ELSE x
  BY <1>1 DEF IndexAfterEviction
<1>3. /\ Len(running') = L - 1
      /\ \A i \in 1..(L - 1) : running'[i] = IF i < k THEN running[i] ELSE running[i + 1]
  BY <1>1, WithoutAt DEF TypeOK
<1> SUFFICES ASSUME NEW i \in 1..(L - 1), i >= IF k < x THEN x - 1 ELSE x
             PROVE  num_scheduled_tokens'[running'[i]] = 0
  BY <1>2, <1>3
<1>4. PICK j \in 1..L : j >= x /\ running'[i] = running[j]
  <2>1. CASE i < k
    BY <1>1, <1>3, <2>1
  <2>2. CASE ~(i < k)
    <3>1. i + 1 \in 1..L /\ i + 1 >= x
      BY <1>1, <2>2
    <3> QED
      BY <1>3, <2>2, <3>1
  <2> QED
    BY <2>1, <2>2
<1>5. num_scheduled_tokens[running[j]] = 0 /\ running[j] \in Requests
  BY <1>1, <1>4 DEF TypeOK
<1> QED
  BY <1>4, <1>5 DEF TypeOK

\* Every step of a call of schedule() keeps the books.
LEMMA BatchStep ==
  ASSUME IsFiniteSet(Requests), TypeOK, QueueInv, LedgerInv, BatchInv, [Next]_vars
  PROVE  BatchInv'
<1> USE DEF queueVars, blockVars, seqVars, idVars, stepVars, ctrlVars, localVars
<1>1. CASE BeginSchedule
  <2>1. /\ num_scheduled_tokens' = Zero /\ input_budget' = MaxBatchedTokens
        /\ token_budget' = (IF pause_state = "PAUSED_ALL" THEN 0 ELSE MaxScheduledTokens)
        /\ UNCHANGED <<running, pause_state>>
    BY <1>1 DEF BeginSchedule
  <2>2. Total(num_scheduled_tokens') = 0
    BY <2>1, TotalOfZero
  <2>3. \A r \in Requests : num_scheduled_tokens'[r] = 0
    BY <2>1 DEF Zero
  <2>4. Cardinality(Scheduled') = 0 /\ DraftSlots * 0 = 0
    <3>1. Scheduled' = {}
      BY <2>3 DEF Scheduled
    <3> QED
      BY <3>1, FS_EmptySet, ConstantsOK
  <2>5. token_budget' >= 0 /\ input_budget' >= 0
    BY <2>1, ConstantsOK
  <2>6. pause_state' # "PAUSED_ALL" =>
          Total(num_scheduled_tokens') + token_budget' = MaxScheduledTokens
    BY <2>1, <2>2, ConstantsOK
  <2>7. Total(num_scheduled_tokens') + DraftSlots * Cardinality(Scheduled')
          + input_budget' = MaxBatchedTokens
    BY <2>1, <2>2, <2>4, ConstantsOK
  <2>8. \A i \in 1..Len(running') : num_scheduled_tokens'[running'[i]] = 0
    BY <2>1, <2>3 DEF TypeOK
  <2> QED
    BY <2>5, <2>6, <2>7, <2>8 DEF BatchInv
<1>2. ASSUME NEW r \in Requests, NEW n \in 1..token_budget, ScheduleRunning(r, n)
      PROVE  BatchInv'
  <2>1. /\ Wants(r, n) /\ pc = "running" /\ pc' = pc
        /\ req_index <= Len(running) /\ r = running[req_index]
        /\ num_scheduled_tokens' = [num_scheduled_tokens EXCEPT ![r] = n]
        /\ token_budget' = token_budget - n
        /\ input_budget' = input_budget - (n + DraftSlots)
        /\ req_index' = req_index + 1
        /\ UNCHANGED <<running, pause_state>>
    BY <1>2 DEF ScheduleRunning, Wants, AtRunning
  <2>2. PICK x, L \in Nat : x = req_index /\ L = Len(running) /\ x \in 1..L
    <3>1. req_index \in Nat \ {0} /\ Len(running) \in Nat
      BY LenProperties DEF TypeOK
    <3> QED
      BY <2>1, <3>1
  <2>3. \A i \in 1..L : i >= x => num_scheduled_tokens[running[i]] = 0
    BY <2>1, <2>2 DEF BatchInv, InSchedule
  <2>4. num_scheduled_tokens[r] = 0
    BY <2>1, <2>2, <2>3
  <2>5. ASSUME NEW i \in 1..L, i >= x + 1 PROVE num_scheduled_tokens'[running[i]] = 0
    <3>1. i >= x /\ i # x
      BY <2>2, <2>5
    <3>2. running[i] # r /\ running[i] \in Requests
      BY <2>1, <2>2, <3>1 DEF QueueInv, Once, TypeOK
    <3> QED
      BY <2>1, <2>3, <3>1, <3>2 DEF TypeOK
  <2>6. n \in Int /\ n > 0 /\ n <= Budget
    <3>1. n <= Budget
      BY <2>1, RunningChunk
    <3> QED
      BY <3>1
  <2>7. InSchedule
    BY <2>1 DEF InSchedule
  <2>8. \A i \in 1..Len(running') :
          i >= req_index' => num_scheduled_tokens'[running'[i]] = 0
    BY <2>1, <2>2, <2>5
  <2> QED
    BY <2>1, <2>4, <2>6, <2>7, <2>8, BatchGrows
<1>3. ASSUME NEW r \in Requests, NEW v \in Requests, PreemptVictim(r, v) PROVE BatchInv'
  <2>1. /\ Contains(running, v) /\ pc = "running" /\ pc' \in {"running", "finish"}
        /\ running' = Without(running, v) /\ req_index' = IndexAfterEviction(v)
        /\ GiveBack(v)
        /\ num_scheduled_tokens' = [num_scheduled_tokens EXCEPT ![v] = 0]
        /\ UNCHANGED pause_state
    BY <1>3 DEF PreemptVictim, LacksBlocks, Wants, AtRunning, IsVictim
  <2>2. InSchedule /\ InSchedule'
    BY <2>1 DEF InSchedule
  <2>3. num_scheduled_tokens[v] >= 0
    BY <2>2 DEF LedgerInv, PlanOf
  <2>4. \A i \in 1..Len(running) : i >= req_index => num_scheduled_tokens[running[i]] = 0
    BY <2>1, <2>2 DEF BatchInv
  <2>5. \A i \in 1..Len(running') :
          i >= req_index' => num_scheduled_tokens'[running'[i]] = 0
    BY <2>1, <2>4, EvictedIndex
  <2> QED
    BY <2>1, <2>2, <2>3, <2>5, BatchShrinks
<1>4. ASSUME NEW r \in Requests, NEW hit \in HitLengths(r), NEW n \in 1..token_budget,
             AdmitWaiting(r, hit, n)
      PROVE  BatchInv'
  <2>1. /\ AtWaiting(r) /\ PopWaiting(r) /\ pc = "waiting" /\ pc' = pc
        /\ n = NumPrefillTokens(r, hit)
        /\ num_scheduled_tokens' = [num_scheduled_tokens EXCEPT ![r] = n]
        /\ token_budget' = token_budget - n
        /\ input_budget' = input_budget - (n + DraftSlots)
        /\ UNCHANGED pause_state
    BY <1>4 DEF AdmitWaiting, AtWaiting
  <2>2. InSchedule
    BY <2>1 DEF InSchedule
  <2>3. req[r].status # "RUNNING"
    BY <2>1, QueuesPop
  <2>4. num_scheduled_tokens[r] = 0
    <3>1. num_scheduled_tokens[r] \in Int
      BY DEF TypeOK
    <3> QED
      BY <2>2, <2>3, <3>1 DEF LedgerInv, PlanOf
  <2>5. n \in Int /\ n > 0 /\ n <= Budget
    <3>1. n <= Budget
      BY <2>1, AdmittedChunk
    <3> QED
      BY <3>1
  <2> QED
    BY <2>1, <2>2, <2>4, <2>5, BatchGrows
<1>5. ASSUME NEW r \in Requests, SkipRunning(r) PROVE BatchInv'
  <2>1. /\ pc = "running" /\ pc' = pc /\ req_index' = req_index + 1
        /\ UNCHANGED <<running, pause_state, num_scheduled_tokens, token_budget, input_budget>>
    BY <1>5 DEF SkipRunning, AtRunning
  <2>2. req_index \in Int /\ InSchedule /\ InSchedule'
    BY <2>1 DEF TypeOK, InSchedule
  <2>3. Scheduled' = Scheduled
    BY <2>1 DEF Scheduled
  <2>4. ASSUME NEW i \in 1..Len(running), i >= req_index + 1
        PROVE  num_scheduled_tokens[running[i]] = 0
    <3>1. i >= req_index
      BY <2>2, <2>4
    <3> QED
      BY <2>1, <2>2, <3>1 DEF BatchInv
  <2>5. \A i \in 1..Len(running') :
          i >= req_index' => num_scheduled_tokens'[running'[i]] = 0
    BY <2>1, <2>4
  <2> QED
    BY <2>1, <2>2, <2>3, <2>5 DEF BatchInv
<1>6. ASSUME NEW r, SkipWaiting(r) \/ EndRunning \/ EndWaiting \/ UNCHANGED vars
      PROVE  BatchInv'
  <2>1. /\ InSchedule' => InSchedule
        /\ pc' = "running" => pc = "running"
        /\ UNCHANGED <<running, req_index, pause_state, num_scheduled_tokens,
                       token_budget, input_budget>>
    BY <1>6 DEF SkipWaiting, AtWaiting, EndRunning, EndWaiting, vars, InSchedule
  <2>2. Scheduled' = Scheduled
    BY <2>1 DEF Scheduled
  <2> QED
    BY <2>1, <2>2 DEF BatchInv
<1>7. ASSUME NEW r, NEW p, NEW accepted, NEW appended, NEW eos,
             \/ AddRequest(r) \/ Abort(r) \/ SetPauseState(p) \/ BeginReset \/ ResetPreempt
             \/ EndReset \/ EndSchedule \/ BeginUpdate \/ DrainDeferredFree \/ EndDrain
             \/ UpdateRequest(r, accepted, appended, eos) \/ EndUpdate
      PROVE  BatchInv'
  <2>1. ~InSchedule'
    BY <1>7 DEF AddRequest, Abort, SetPauseState, BeginReset, ResetPreempt, EndReset,
                EndSchedule, BeginUpdate, DrainDeferredFree, EndDrain, UpdateRequest,
                EndUpdate, InSchedule
  <2> QED
    BY <2>1 DEF BatchInv
<1> QED
  BY <1>1, <1>2, <1>3, <1>4, <1>5, <1>6, <1>7
     DEF Next, Client, ResetCall, ScheduleCall, UpdateCall

\* The asserts at the end of schedule() hold for every policy, set of budgets and order
\* of evictions: what the budgets lost is what the batch holds, a request taken back out
\* of the batch gives back exactly its share, and only running requests are computed.
\* (Total adds up over the requests, which are finitely many.)
THEOREM BatchesAreExact ==
  ASSUME IsFiniteSet(Requests)
  PROVE  Spec => []BatchExact
<1>1. Init => BatchInv
  BY DEF Init, BatchInv, InSchedule
<1>2. TypeOK /\ QueueInv /\ LedgerInv /\ BatchInv /\ [Next]_vars => BatchInv'
  BY BatchStep
<1>3. TypeOK /\ LedgerInv /\ BatchInv => BatchExact
  <2> SUFFICES ASSUME TypeOK, LedgerInv, BatchInv, InSchedule PROVE BatchExact
    BY DEF BatchExact, InSchedule
  <2>1. ASSUME NEW r \in Scheduled
        PROVE  req[r].status = "RUNNING" /\ num_scheduled_tokens[r] > 0
    <3>1. r \in Requests /\ num_scheduled_tokens[r] # 0 /\ num_scheduled_tokens[r] \in Int
      BY <2>1 DEF Scheduled, TypeOK
    <3> QED
      BY <3>1 DEF LedgerInv, PlanOf
  <2> QED
    BY <2>1 DEF BatchInv, BatchExact
<1> QED
  BY <1>1, <1>2, <1>3, LedgerHolds, PTL DEF Spec
=============================================================================
