----------------------------- MODULE GraphedSteps -----------------------------
(***************************************************************************)
(* The steps of MtpController on the worker: execute_model() of            *)
(* model_runner.py dispatches the batch to one of the target's graphs, and *)
(* propose() of autoregressive/speculator.py dispatches it again for the   *)
(* drafter, once for the position after the target's and once for the      *)
(* further drafts.  The worker runs the steps in the order they were       *)
(* scheduled and answers only with their outputs, so what it does in a     *)
(* step is a function of the step.                                         *)
(***************************************************************************)
EXTENDS MtpController, CudagraphDispatch, FiniteSets

CONSTANTS
  CaptureSizes,   \* cudagraph_capture_sizes
  MaxNumReqs,     \* max_num_seqs
  GraphModes,     \* the cudagraph modes the engine may be started in
  MaxTokens       \* bound on the tokens of a step with prefills

ASSUME GraphConstants ==
  /\ IsFiniteSet(Requests)
  /\ CaptureSizes \subseteq Nat \ {0} /\ 1 \in CaptureSizes
  /\ \E size \in CaptureSizes : size > MaxDepth
  /\ MaxNumReqs \in Nat \ {0} /\ MaxTokens \in Nat
  /\ GraphModes \subseteq {"NONE", "PIECEWISE", "FULL", "FULL_DECODE_ONLY", "FULL_AND_PIECEWISE"}

\* How an engine is started: the mode, and whether verification is adaptive.
GraphConfigs == [mode : GraphModes, varlen : BOOLEAN]

\* QWEN_MTP_ADAPTIVE: without it there is no controller.
Adaptive == TRUE

\* CudaGraphManager.__init__().
NewManager(mode, query_len, varlen) ==
  [mode |-> mode, sizes |-> CaptureSizes, max_reqs |-> MaxNumReqs,
   query_len |-> query_len, num_spec |-> MaxDepth, varlen |-> varlen, adaptive |-> Adaptive]

TargetManager(g) == NewManager(g.mode, MaxDepth + 1, g.varlen)

\* init_cudagraph_manager(): the drafter's first position sees the target's batch,
\* the further ones a token of every request.
PrefillManager(g) == NewManager(g.mode, MaxDepth + 1, FALSE)
DecodeManager(g) ==
  NewManager(IF DecodeMode(g.mode) = "FULL" THEN "FULL_DECODE_ONLY" ELSE "NONE", 1, FALSE)

\* get_uniform_decode_token_count(): a batch without prefills whose queries are all
\* of one length.
DecodeBatch(n, q) == [reqs |-> n, tokens |-> n * q, uniform |-> q, longest |-> q]

\* The batches a step of n requests with these numbers of drafts may be: a request
\* without drafts may be at a prefill chunk of any length.
Batches(n, depths) ==
  {DecodeBatch(n, d + 1) : d \in {d \in depths : depths = {d}}} \cup
  (IF \E d \in depths : d > 0 /\ depths = {d} THEN {}
   ELSE {[reqs |-> n, tokens |-> t, uniform |-> 0, longest |-> q] :
           t \in n..MaxTokens, q \in 1..MaxTokens})

\* execute_model()'s dispatch.
TargetGraph(g, b) == Dispatch(TargetManager(g), b)

\* propose()'s dispatches: the tokens the target was padded to, and no bound on the
\* queries; then one token per request.
PrefillGraph(g, b) ==
  Dispatch(PrefillManager(g), [b EXCEPT !.tokens = TargetGraph(g, b).tokens, !.longest = 0])
DecodeGraph(g, n) == Dispatch(DecodeManager(g), [DecodeBatch(n, 1) EXCEPT !.longest = 0])

\* _configure_fused_multi_step_decode(): one graph for all further drafts would
\* record as many of them as the deepest drafting asks for.
UseFused(supported) == ~Adaptive /\ MaxDepth # 1 /\ supported

\* The forwards propose() makes for drafts of depth active.
Forwards(active, supported) ==
  IF active = 1 THEN 1
  ELSE 1 + (IF UseFused(supported) THEN MaxDepth - 1 ELSE active - 1)

-----------------------------------------------------------------------------
(* Properties *)

\* Every request of the batch has the query the graph was captured with, and none
\* of them is outside it.
GraphFits(d, b) ==
  d.cg = "FULL" =>
    /\ d.reqs >= b.reqs /\ d.tokens >= b.tokens
    /\ d.uniform # 0 => d.tokens = d.reqs * b.uniform
    /\ d.longest # 0 => b.longest <= d.longest

\* A full graph of the drafter reads the buffers that the target's own full graph of
\* the same shape has just had filled.  With piecewise graphs beside the full ones
\* the padding leads the drafter to a larger graph than the target found.
DrafterFollowsTarget(g, b) ==
  (~g.varlen /\ g.mode # "FULL_AND_PIECEWISE" /\ PrefillGraph(g, b).cg = "FULL") =>
    PrefillGraph(g, b) = TargetGraph(g, b)

\* A request that decodes alone finds a graph of exactly its tokens, at every depth
\* the controller may choose.
LoneDecodeGraphed(g, b) ==
  (SeparateRoutine(g.mode) /\ ~g.varlen /\ b.reqs = 1 /\ b.uniform > 1) =>
    TargetGraph(g, b).cg = "FULL" /\ TargetGraph(g, b).tokens = b.tokens

BatchReplayable(g, b) ==
  /\ GraphFits(TargetGraph(g, b), b)
  /\ GraphFits(DecodeGraph(g, b.reqs), DecodeBatch(b.reqs, 1))
  /\ DrafterFollowsTarget(g, b)
  /\ LoneDecodeGraphed(g, b)

\* The steps, by their number of requests and the depths of their drafts, that may be
\* scheduled however the engine was started.
Replayable ==
  {s \in {<<n, depths>> : n \in 1..Cardinality(Requests), depths \in SUBSET (0..MaxDepth)} :
     \A g \in GraphConfigs, b \in Batches(s[1], s[2]) : BatchReplayable(g, b)}

\* Whatever depth the controller had chosen when a step was scheduled, and whatever
\* depth its requests drafted at before, the graphs it replays in the target and in
\* the drafter fit it, agree with each other, and were captured for that depth; and
\* the drafter makes the forwards of the depth chosen, so that the time observed
\* for it is that depth's.
StepsReplayable ==
  \A i \in 1..Len(pipeline) :
    LET step == pipeline[i] IN
    step.ids # {} =>
      /\ <<Cardinality(step.ids), step.depths>> \in Replayable
      /\ \A supported \in BOOLEAN : Forwards(step.drafted, supported) = step.drafted
=============================================================================
