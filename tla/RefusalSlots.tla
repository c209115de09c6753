---------------------------- MODULE RefusalSlots ----------------------------
(***************************************************************************)
(* The per-request strength on its way to the device: a request's slot in  *)
(* the worker, its seal (the lambda its cache_salt asks for, None without  *)
(* one), and `tok`, the one buffer from which row k of EVERY forward (the  *)
(* target's and the drafter's alike) reads its lambda.  Captured graphs    *)
(* hold the buffer's address, so each forward relies on whoever filled it  *)
(* last.  One worker thread; the phases are those of one engine step.      *)
(***************************************************************************)
EXTENDS Naturals, Sequences, FiniteSets

CONSTANTS
  Requests,     \* request ids
  Slots,        \* indices of the worker's request table
  Lambdas,      \* strengths in use
  Initial,      \* the dial at start-up
  MaxCount,     \* bound on the tokens a step gives one request
  BufferRows,   \* rows of tok (TOKEN_BUFFER_ROWS)
  Adaptive,     \* adaptive verification: drafts reallocated after scheduling
  None

ASSUME RefusalSlotsAssumption ==
  /\ Initial \in Lambdas /\ None \notin Lambdas /\ None \notin Slots
  /\ MaxCount \in Nat \ {0} /\ BufferRows \in Nat \ {0} /\ Adaptive \in BOOLEAN

VARIABLES
  index,        \* req_states.req_id_to_index
  asked,        \* NewRequestData.refusal_lambda of the requests in the table
  lambdas,      \* RefusalState.lambdas
  req_lambda,   \* _REQ_LAMBDA
  value,        \* the dial of this rank
  tok,          \* the buffer
  phase,        \* what the worker is doing; a forward, between its fill and the next
  batch         \* the step's requests in row order: [req, bound, rows]

vars == <<index, asked, lambdas, req_lambda, value, tok, phase, batch>>
tableVars == <<index, asked, lambdas, req_lambda>>

Seals == Lambdas \cup {None}
Rows == 1..BufferRows
Members == {r \in Requests : index[r] # None}
FreeSlots == {s \in Slots : \A r \in Requests : index[r] # s}

Init ==
  /\ index = [r \in Requests |-> None] /\ asked = [r \in Requests |-> None]
  /\ lambdas = [s \in Slots |-> None] /\ req_lambda = [s \in Slots |-> None]
  /\ value = Initial /\ tok = [k \in Rows |-> Initial]
  /\ phase = "idle" /\ batch = <<>>

-----------------------------------------------------------------------------
\* The row before the i-th request's first one.
Start(counts, i) ==
  LET sum[j \in 0..Len(counts)] == IF j = 0 THEN 0 ELSE sum[j - 1] + counts[j]
  IN  sum[i - 1]
Total(counts) == Start(counts, Len(counts) + 1)

\* Row k belongs to the i-th request of a batch that gives them these counts.
Holds(counts, i, k) == Start(counts, i) < k /\ k <= Start(counts, i) + counts[i]

Bounds == [i \in 1..Len(batch) |-> batch[i].bound]
RowCounts == [i \in 1..Len(batch) |-> batch[i].rows]
Ones == [i \in 1..Len(batch) |-> 1]

Strength(lam) == IF lam = None THEN value ELSE lam

\* fill_target: one lambda per row, found by adding up the counts it is given
\* until num_tokens rows are written; the rest of the buffer gets the dial, and
\* so does all of it when the rows do not fit.
Filled_Unreset(b, counts, num_tokens) ==
  [k \in Rows |->
     IF k <= num_tokens
     THEN LET i == CHOOSE i \in 1..Len(b) : Holds(counts, i, k)
          IN Strength(req_lambda[index[b[i].req]])
     ELSE tok[k]]
Filled(b, counts, num_tokens) ==
  [k \in Rows |->
     IF k <= num_tokens /\ num_tokens <= BufferRows
     THEN LET i == CHOOSE i \in 1..Len(b) : Holds(counts, i, k)
          IN Strength(req_lambda[index[b[i].req]])
     ELSE value]

-----------------------------------------------------------------------------
\* _remove_request for every finished and preempted request, as one step begins.
Emptied_KeepsDict(f, gone) == f
Emptied(f, gone) == [s \in Slots |-> IF \E r \in gone : index[r] = s THEN None ELSE f[s]]

FinishRequests(gone) ==
  /\ phase = "idle" /\ gone \subseteq Members
  /\ index' = [r \in Requests |-> IF r \in gone THEN None ELSE index[r]]
  /\ asked' = [r \in Requests |-> IF r \in gone THEN None ELSE asked[r]]
  /\ lambdas' = Emptied(lambdas, gone)
  /\ req_lambda' = Emptied(req_lambda, gone)
  /\ phase' = "add"
  /\ UNCHANGED <<value, tok, batch>>

\* add_requests: a request still in the table (the next input of a streaming
\* session) gives its slot back first.  A request without a seal leaves the
\* dictionary entry of its slot as it finds it.
Sealed(f, s, lam) == IF lam = None THEN f ELSE [f EXCEPT ![s] = lam]

AddRequest(r, s, lam) ==
  /\ phase = "add"
  /\ s \in FreeSlots \cup {index[r]} /\ s # None
  /\ index' = [index EXCEPT ![r] = s]
  /\ asked' = [asked EXCEPT ![r] = lam]
  /\ lambdas' = [Emptied(lambdas, {r}) EXCEPT ![s] = lam]
  /\ req_lambda' = Sealed(Emptied(req_lambda, {r}), s, lam)
  /\ UNCHANGED <<value, tok, phase, batch>>

\* A step without tokens ends here.
NoTokens ==
  /\ phase = "add" /\ phase' = "idle"
  /\ UNCHANGED <<tableVars, value, tok, batch>>

\* With adaptive verification a request keeps at least one row of its bound.
RowChoices(bound) == IF Adaptive THEN 1..bound ELSE {bound}

Batches ==
  {b \in UNION {[1..n -> [req : Members, bound : 1..MaxCount, rows : 1..MaxCount]]
                  : n \in 1..Cardinality(Members)} :
     \A i \in DOMAIN b : /\ b[i].rows \in RowChoices(b[i].bound)
                         /\ \A j \in DOMAIN b : b[i].req = b[j].req => i = j}

\* prepare_inputs and the target's forward: the fill gets the bounds of the
\* requests and the number of rows there really are.
RunTarget(b) ==
  /\ phase = "add" /\ b \in Batches
  /\ batch' = b
  /\ tok' = Filled(b, [i \in 1..Len(b) |-> b[i].bound],
                   Total([i \in 1..Len(b) |-> b[i].rows]))
  /\ phase' = "target"
  /\ UNCHANGED <<tableVars, value>>

\* A projection of more rows than the buffer has does not broadcast: the step
\* raises, and the engine with it.
ProjectFails ==
  /\ phase \in {"target", "prefill"} /\ Total(RowCounts) > BufferRows
  /\ phase' = "failed"
  /\ UNCHANGED <<tableVars, value, tok, batch>>

\* propose, draft step zero: the rows of the target, rejected ones included.
DraftPrefill ==
  /\ phase = "target" /\ Total(RowCounts) <= BufferRows
  /\ tok' = Filled(batch, Bounds, Total(RowCounts))
  /\ phase' = "prefill"
  /\ UNCHANGED <<tableVars, value, batch>>

\* propose, the later draft steps: one row per request, whatever the replay.
DraftDecode_Unfilled ==
  /\ phase = "prefill" /\ Total(RowCounts) <= BufferRows
  /\ phase' = "decode"
  /\ UNCHANGED <<tableVars, value, tok, batch>>
DraftDecode ==
  /\ phase = "prefill" /\ Total(RowCounts) <= BufferRows
  /\ tok' = Filled(batch, Ones, Len(batch))
  /\ phase' = "decode"
  /\ UNCHANGED <<tableVars, value, batch>>

\* The step is over: after the target on a rank without the drafter, after
\* step zero when one draft token is wanted, else after the last draft step.
\* A dummy step ends likewise.
EndStep ==
  /\ phase \in {"target", "prefill", "decode", "dummy"}
  /\ phase \in {"target", "prefill"} => Total(RowCounts) <= BufferRows
  /\ phase' = "idle" /\ batch' = <<>>
  /\ UNCHANGED <<tableVars, value, tok>>

\* A dummy batch runs no request of the table: every row gets the dial, and the
\* drafter's two fills repeat it.
DummyRun ==
  /\ phase = "idle" /\ phase' = "dummy"
  /\ tok' = [k \in Rows |-> value]
  /\ UNCHANGED <<tableVars, value, batch>>

\* set_lambda arrives between steps, whether or not requests are in the table.
SetLambda(v) ==
  /\ phase = "idle"
  /\ value' = v /\ tok' = [k \in Rows |-> v]
  /\ UNCHANGED <<tableVars, phase, batch>>

Next ==
  \/ \E gone \in SUBSET Requests : FinishRequests(gone)
  \/ \E r \in Requests, s \in Slots, lam \in Seals : AddRequest(r, s, lam)
  \/ NoTokens
  \/ \E b \in Batches : RunTarget(b)
  \/ ProjectFails \/ DraftPrefill \/ DraftDecode \/ EndStep \/ DummyRun
  \/ \E v \in Lambdas : SetLambda(v)

Spec == Init /\ [][Next]_vars

-----------------------------------------------------------------------------
\* Types, and no two requests in one slot.
TypeOK ==
  /\ index \in [Requests -> Slots \cup {None}]
  /\ asked \in [Requests -> Seals]
  /\ lambdas \in [Slots -> Seals] /\ req_lambda \in [Slots -> Seals]
  /\ value \in Lambdas /\ tok \in [Rows -> Lambdas]
  /\ phase \in {"idle", "add", "target", "prefill", "decode", "dummy", "failed"}

\* The dictionary that the fills read and the list that mirrors it hold, at each
\* slot, what the request in it asked for, and nothing at a slot no request is
\* in: a request without a seal never inherits that of the slot's last holder.
SlotsMatch ==
  /\ \A r \in Members :
       /\ req_lambda[index[r]] = asked[r] /\ lambdas[index[r]] = asked[r]
       /\ \A q \in Members : index[q] = index[r] => q = r
  /\ \A s \in FreeSlots : req_lambda[s] = None /\ lambdas[s] = None

\* The rows of the running forward, and where query_start_loc puts them.
Layout == IF phase = "decode" THEN Ones ELSE RowCounts
InForward == phase \in {"target", "prefill", "decode"} /\ Total(Layout) <= BufferRows

\* Every row of every forward, the target's or the drafter's, is projected with
\* the strength of the request whose token it carries: its seal, or the dial.
OwnLambda ==
  InForward =>
    \A i \in 1..Len(batch) : \A k \in Rows :
       Holds(Layout, i, k) => tok[k] = Strength(asked[batch[i].req])

\* The rows after the batch, which padded graphs also read, hold the dial, and
\* so does the whole buffer in a dummy run, whatever the requests in the table.
PaddingNeutral ==
  /\ InForward => \A k \in Rows : k > Total(Layout) => tok[k] = value
  /\ phase = "dummy" => \A k \in Rows : tok[k] = value
=============================================================================
