-------------------------- MODULE CudagraphDispatch --------------------------
(***************************************************************************)
(* Which captured CUDA graph a batch replays: CudaGraphManager of          *)
(* overlays/v1/worker/gpu/cudagraph_utils.py.  At start-up a manager lays  *)
(* out the shapes it will capture and lists, for every number of tokens,   *)
(* the ones that may serve it; at each step dispatch() takes the first of  *)
(* them that fits the batch, or runs the batch eagerly.                    *)
(*                                                                         *)
(* A manager is a record: the mode, the capture sizes, the limit on        *)
(* requests, the longest decode query, the number of speculative tokens,   *)
(* and whether the queries of a decode may vary (adaptive verification) or *)
(* the depth of drafting may (QWEN_MTP_ADAPTIVE).  0 stands for the code's *)
(* None in a shape's reqs, uniform and longest.                            *)
(*                                                                         *)
(* Left out: LoRA cases, microbatches and dynamic speculative decoding by  *)
(* batch size, which create_controller() refuses together with the         *)
(* adaptive depth.                                                         *)
(***************************************************************************)
EXTENDS Integers

\* CUDAGraphMode: what decodes and what all other batches are captured as, and
\* whether the two are captured apart.
DecodeMode(mode) ==
  IF mode \in {"FULL", "FULL_DECODE_ONLY", "FULL_AND_PIECEWISE"} THEN "FULL" ELSE mode
MixedMode(mode) ==
  CASE mode = "FULL_DECODE_ONLY" -> "NONE"
    [] mode = "FULL_AND_PIECEWISE" -> "PIECEWISE"
    [] OTHER -> mode
SeparateRoutine(mode) == mode \in {"FULL_DECODE_ONLY", "FULL_AND_PIECEWISE"}

Smaller(a, b) == IF a <= b THEN a ELSE b

DecodeQueryLens_MaxOnly(m) == {m.query_len}
\* The query lengths decodes are captured for: every depth the controller may choose.
DecodeQueryLens(m) ==
  IF m.adaptive /\ m.query_len = m.num_spec + 1 THEN 2..m.query_len ELSE {m.query_len}

\* A capture size rounded up to whole requests of q tokens.
UniformDesc(size, q) ==
  LET reqs == (size + q - 1) \div q IN
  [cg |-> "FULL", tokens |-> reqs * q, reqs |-> reqs, uniform |-> q, longest |-> 0]

UniformDescs(m) ==
  {d \in {UniformDesc(size, q) : size \in m.sizes, q \in DecodeQueryLens(m)} :
     /\ d.tokens <= m.max_reqs * m.query_len
     /\ \E size \in m.sizes : d.tokens <= size
     /\ d.reqs <= m.max_reqs}

\* Graphs for any mix of decodes no longer than query_len.
VarlenDescs(m) ==
  {[cg |-> "FULL", tokens |-> size, reqs |-> Smaller(size, m.max_reqs),
    uniform |-> 0, longest |-> m.query_len] :
     size \in {s \in m.sizes : s <= m.max_reqs * m.query_len}}

DecodeDescs(m) ==
  IF ~SeparateRoutine(m.mode) THEN {}
  ELSE IF m.varlen THEN VarlenDescs(m) ELSE UniformDescs(m)

\* Graphs for any batch; piecewise ones do not depend on the number of requests.
MixedDescs(m) ==
  IF MixedMode(m.mode) = "NONE" THEN {}
  ELSE {[cg |-> MixedMode(m.mode), tokens |-> size,
         reqs |-> IF MixedMode(m.mode) = "FULL" THEN Smaller(size, m.max_reqs) ELSE 0,
         uniform |-> 0, longest |-> 0] : size \in m.sizes}

\* All that is laid out, and so all that capture() captures.
Descs(m) == DecodeDescs(m) \cup MixedDescs(m)

\* _is_compatible()
IsCompatible(d, b) ==
  /\ d.uniform = 0 \/ d.uniform = b.uniform
  /\ d.longest = 0 \/ (b.longest # 0 /\ d.longest >= b.longest)
  /\ d.reqs = 0 \/ d.reqs >= b.reqs
  /\ d.tokens >= b.tokens

\* Each number of tokens is served by the shapes of the next captured size only.
Candidates(m, cg, tokens) ==
  LET large == {d \in Descs(m) : d.cg = cg /\ d.tokens >= tokens} IN
  {d \in large : \A e \in large : d.tokens <= e.tokens}

Matching(m, cg, b) == {d \in Candidates(m, cg, b.tokens) : IsCompatible(d, b)}

Eager(b) ==
  [cg |-> "NONE", tokens |-> b.tokens, reqs |-> b.reqs, uniform |-> 0, longest |-> 0]

\* dispatch(): a full graph if one matches, else a piecewise one, else none.
Dispatch(m, b) ==
  IF Matching(m, "FULL", b) # {} THEN CHOOSE d \in Matching(m, "FULL", b) : TRUE
  ELSE IF Matching(m, "PIECEWISE", b) # {} THEN CHOOSE d \in Matching(m, "PIECEWISE", b) : TRUE
  ELSE Eager(b)
=============================================================================
