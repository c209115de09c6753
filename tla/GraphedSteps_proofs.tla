------------------------ MODULE GraphedSteps_proofs ------------------------
(***************************************************************************)
(* Theorems about the depth controller, for every pipeline depth and       *)
(* policy, and about the graphs its steps replay, for every set of capture *)
(* sizes, every limit on requests, every depth of pipeline and of          *)
(* drafting.                                                               *)
(***************************************************************************)
EXTENDS GraphedSteps, SequenceTheorems, FiniteSetTheorems, TLAPS

-----------------------------------------------------------------------------
(* The depth controller: a fixed depth *)

\* A step scheduled under a fixed depth drafts that depth: either nothing about the
\* control file changed, or the reset took the new file's depth.
LEMMA ScheduleKeepsFixed ==
  ASSUME FixedHolds, NEW batch, NEW c \in Configs, Schedule(batch, c)
  PROVE  FixedHolds'
<1>1. config' = c
  BY DEF Schedule, Choose
<1>2. CASE NeedsReset(batch, c)
  BY <1>1, <1>2 DEF Schedule, Choose, Reset, InitialDepth, FixedHolds
<1>3. CASE ~NeedsReset(batch, c)
  BY <1>1, <1>3 DEF Schedule, Choose, NeedsReset, FixedHolds
<1> QED
  BY <1>2, <1>3

\* observe() returns before it decides anything unless the mode is adaptive.
LEMMA ObserveKeepsFixed ==
  ASSUME FixedHolds, NEW ok \in BOOLEAN, Observe(ok)
  PROVE  FixedHolds'
<1>1. config' = config
  BY DEF Observe
<1>2. CASE config.mode = "fixed"
  <2>1. Skip
    BY <1>2 DEF Observe, Watches
  <2> QED BY <1>1, <2>1 DEF Skip, FixedHolds
<1>3. CASE config.mode # "fixed"
  BY <1>1, <1>3 DEF FixedHolds
<1> QED
  BY <1>2, <1>3

\* A depth the operator fixed is never overridden, however many steps scheduled in
\* adaptive mode are still to be observed and whatever they measure.
THEOREM FixedDepthHolds == Spec => []FixedHolds
<1>1. Init => FixedHolds
  BY DEF Init, FixedHolds
<1>2. FixedHolds /\ [Next]_vars => FixedHolds'
  <2> SUFFICES ASSUME FixedHolds, [Next]_vars PROVE FixedHolds'
    OBVIOUS
  <2>1. ASSUME NEW r \in Requests, LoseDrafts(r) PROVE FixedHolds'
    BY <2>1 DEF LoseDrafts, ctrlVars, FixedHolds
  <2>2. CASE UNCHANGED vars
    BY <2>2 DEF vars, ctrlVars, FixedHolds
  <2> QED
    BY <2>1, <2>2, ScheduleKeepsFixed, ObserveKeepsFixed DEF Next
<1> QED
  BY <1>1, <1>2, PTL DEF Spec

-----------------------------------------------------------------------------
(* The depth controller: types *)

\* A policy's parameters are positive, and reset() starts from a depth the kit
\* supports: 3, or the one the operator fixed.
LEMMA ConfigTyped ==
  ASSUME NEW c \in Configs
  PROVE  /\ InitialDepth(c) \in 1..MaxDepth
         /\ c.policy.probe_steps \in Nat \ {0} /\ c.policy.probe_interval \in Nat \ {0}
BY ControllerConstants DEF InitialDepth

LEMMA ScheduleTyped ==
  ASSUME TypeOK, NEW batch \in SUBSET Requests, NEW c \in Configs, Schedule(batch, c)
  PROVE  TypeOK'
<1>1. config' = c /\ signature' = batch
  BY DEF Schedule, Choose
<1>2. /\ k' \in 1..MaxDepth /\ anchor' \in 1..MaxDepth /\ settle' \in 0..2
      /\ since_decision' \in Nat
      /\ probe_left' \in 0..c.policy.probe_steps
      /\ since_probe' \in 0..c.policy.probe_interval
      /\ previous' \in Step \cup {None}
  <2>1. CASE NeedsReset(batch, c)
    BY <2>1, ConfigTyped DEF Schedule, Choose, Reset
  <2>2. CASE ~NeedsReset(batch, c)
    BY <2>2 DEF Schedule, Choose, NeedsReset, TypeOK
  <2> QED
    BY <2>1, <2>2
<1>3. drafts' \in [Requests -> 0..MaxDepth]
  BY <1>2 DEF Schedule, TypeOK
<1>4. pipeline' \in Seq(Step) /\ Len(pipeline') <= Depth
  <2>1. [ids |-> batch, depths |-> {drafts[r] : r \in batch}, drafted |-> k'] \in Step
    BY <1>2 DEF TypeOK, Step
  <2> QED
    BY <2>1, ControllerConstants DEF Schedule, TypeOK
<1> QED
  BY <1>1, <1>2, <1>3, <1>4 DEF TypeOK

\* The part of the type invariant that measurements change.
CountersTyped ==
  /\ k \in 1..MaxDepth /\ anchor \in 1..MaxDepth
  /\ probe_left \in 0..config.policy.probe_steps
  /\ settle \in 0..2
  /\ since_decision \in Nat
  /\ since_probe \in 0..config.policy.probe_interval

\* A decision moves to a depth some estimate found best, or one deeper to probe.
LEMMA DecideTyped ==
  ASSUME CountersTyped, config \in Configs, config' = config,
         NEW best \in 1..MaxDepth, Decide(best)
  PROVE  CountersTyped'
<1>1. CASE MayProbe(best) /\ StartProbe
  BY <1>1, ConfigTyped, ControllerConstants DEF MayProbe, StartProbe, Switch, CountersTyped
<1>2. CASE ~MustProbe(best) /\ probe_left' = 0 /\ Switch(best)
           /\ since_probe' = (IF ProbeDue THEN since_probe ELSE since_probe + 1)
           /\ UNCHANGED anchor
  BY <1>2, ConfigTyped, ControllerConstants DEF Switch, ProbeDue, CountersTyped
<1> QED
  BY <1>1, <1>2 DEF Decide

LEMMA RecordTyped ==
  ASSUME CountersTyped, config \in Configs, config' = config, Record
  PROVE  CountersTyped'
<1>1. CASE DecisionDue /\ \E best \in 1..MaxDepth : Decide(best)
  BY <1>1, DecideTyped
<1>2. CASE ~DecisionDue
  BY <1>2, ConfigTyped DEF Record, ProbeDue, CountersTyped
<1> QED
  BY <1>1, <1>2 DEF Record

\* Taking the oldest of the steps in flight.
LEMMA WithoutOldest ==
  ASSUME NEW S, NEW s \in Seq(S), s # <<>>
  PROVE  /\ s[1] \in S
         /\ SubSeq(s, 2, Len(s)) \in Seq(S)
         /\ Len(SubSeq(s, 2, Len(s))) = Len(s) - 1
<1>1. Len(s) \in Nat \ {0}
  OBVIOUS
<1>2. s[1] \in S /\ \A i \in 2..Len(s) : s[i] \in S
  BY <1>1
<1>3. /\ SubSeq(s, 2, Len(s)) \in Seq(S)
      /\ Len(SubSeq(s, 2, Len(s))) = IF 2 <= Len(s) THEN Len(s) - 2 + 1 ELSE 0
  BY <1>1, <1>2, SubSeqProperties
<1>4. \A n \in Nat \ {0} : (IF 2 <= n THEN n - 2 + 1 ELSE 0) = n - 1
  OBVIOUS
<1>5. Len(SubSeq(s, 2, Len(s))) = Len(s) - 1
  BY <1>1, <1>3, <1>4, Zenon
<1> QED
  BY <1>2, <1>3, <1>5, Zenon

LEMMA ObserveTyped ==
  ASSUME TypeOK, NEW ok \in BOOLEAN, Observe(ok)
  PROVE  TypeOK'
<1>1. config' = config /\ signature' = signature /\ drafts' = drafts /\ config \in Configs
  BY DEF Observe, TypeOK
<1>2. pipeline[1] \in Step /\ pipeline' \in Seq(Step) /\ Len(pipeline') <= Depth
  <2>1. pipeline \in Seq(Step) /\ pipeline # <<>> /\ Len(pipeline) <= Depth
        /\ pipeline' = SubSeq(pipeline, 2, Len(pipeline))
    BY DEF Observe, TypeOK
  <2> QED
    BY <2>1, WithoutOldest, ControllerConstants
<1>3. CountersTyped
  BY DEF TypeOK, CountersTyped
<1>4. CountersTyped'
  <2>1. CASE Skip
    BY <1>1, <1>3, <2>1 DEF Skip, CountersTyped
  <2>2. CASE Resettle /\ UNCHANGED <<k, anchor, probe_left, since_decision, since_probe>>
    BY <1>1, <1>3, <2>2 DEF Resettle, CountersTyped
  <2>3. CASE settle > 0 /\ settle' = settle - 1
             /\ UNCHANGED <<k, anchor, probe_left, since_decision, since_probe>>
    BY <1>1, <1>3, <2>3 DEF CountersTyped
  <2>4. CASE Record
    BY <1>1, <1>3, <2>4, RecordTyped
  <2> QED
    BY <2>1, <2>2, <2>3, <2>4 DEF Observe
<1> QED
  BY <1>1, <1>2, <1>4 DEF Observe, TypeOK, CountersTyped

\* For every policy the controller's state keeps its type: every step in flight
\* verifies and drafts depths that the kit supports, as runtime_depth() asserts.
THEOREM TypeCorrect == Spec => []TypeOK
<1>1. Init => TypeOK
  BY ConfigTyped, ControllerConstants DEF Init, TypeOK
<1>2. TypeOK /\ [Next]_vars => TypeOK'
  <2> SUFFICES ASSUME TypeOK, [Next]_vars PROVE TypeOK'
    OBVIOUS
  <2>1. ASSUME NEW r \in Requests, LoseDrafts(r) PROVE TypeOK'
    BY <2>1, ControllerConstants DEF LoseDrafts, ctrlVars, TypeOK
  <2>2. CASE UNCHANGED vars
    BY <2>2 DEF vars, ctrlVars, TypeOK
  <2> QED
    BY <2>1, <2>2, ScheduleTyped, ObserveTyped DEF Next
<1> QED
  BY <1>1, <1>2, PTL DEF Spec

-----------------------------------------------------------------------------
(* Managers and batches *)

\* A manager as the engine makes one.
Manager(m) ==
  /\ m.sizes \subseteq Nat \ {0}
  /\ m.max_reqs \in Nat \ {0} /\ m.query_len \in Nat \ {0} /\ m.num_spec \in Nat

-----------------------------------------------------------------------------
(* The layout of shapes *)

\* Rounding up to whole requests never leaves none.
LEMMA RoundedReqs ==
  ASSUME NEW size \in Nat \ {0}, NEW q \in Nat \ {0}
  PROVE  (size + q - 1) \div q \in Nat \ {0}
<1> DEFINE x == size + q - 1
           r == x \div q
<1>1. x \in Nat /\ x >= q
  OBVIOUS
<1>2. r \in Int /\ x = r * q + (x % q) /\ x % q \in 0..(q - 1)
  BY <1>1
<1> HIDE DEF x, r
<1>3. r >= 1
  <2>1. SUFFICES ASSUME r <= 0 PROVE FALSE
    BY <1>2
  <2>2. r * q <= 0
    BY <1>2, <2>1
  <2> QED
    BY <1>1, <1>2, <2>2
<1> QED
  BY <1>2, <1>3 DEF r, x

\* Every full graph is laid out for whole requests of its query length, if it has
\* one, and serves at least one request.
LEMMA FullDescs ==
  ASSUME NEW m, Manager(m), NEW d \in Descs(m), d.cg = "FULL"
  PROVE  /\ d.tokens \in Nat /\ d.reqs \in Nat \ {0}
         /\ d.uniform # 0 => d.tokens = d.reqs * d.uniform
<1>1. CASE d \in UniformDescs(m)
  <2>1. PICK size \in m.sizes, q \in DecodeQueryLens(m) : d = UniformDesc(size, q)
    BY <1>1 DEF UniformDescs
  <2>2. size \in Nat \ {0} /\ q \in Nat \ {0}
    BY <2>1 DEF Manager, DecodeQueryLens
  <2>3. (size + q - 1) \div q \in Nat \ {0}
    BY <2>2, RoundedReqs
  <2> QED
    BY <2>1, <2>2, <2>3 DEF UniformDesc
<1>2. CASE d \in VarlenDescs(m)
  BY <1>2 DEF VarlenDescs, Smaller, Manager
<1>3. CASE d \in MixedDescs(m)
  BY <1>3 DEF MixedDescs, Smaller, Manager
<1> QED
  BY <1>1, <1>2, <1>3 DEF Descs, DecodeDescs

\* A full graph is dispatched only where one matches.
LEMMA DispatchedFull ==
  ASSUME NEW m, NEW b
  PROVE  IF Matching(m, "FULL", b) # {} THEN Dispatch(m, b) \in Matching(m, "FULL", b)
         ELSE Dispatch(m, b).cg # "FULL"
<1>1. CASE Matching(m, "FULL", b) # {}
  BY <1>1 DEF Dispatch
<1>2. CASE Matching(m, "FULL", b) = {} /\ Matching(m, "PIECEWISE", b) # {}
  <2>1. Dispatch(m, b) \in Matching(m, "PIECEWISE", b)
    BY <1>2 DEF Dispatch
  <2> QED
    BY <1>2, <2>1 DEF Matching, Candidates
<1>3. CASE Matching(m, "FULL", b) = {} /\ Matching(m, "PIECEWISE", b) = {}
  BY <1>3 DEF Dispatch, Eager
<1> QED
  BY <1>1, <1>2, <1>3

\* The full graph of a dispatch has room for the batch, at its query length.
LEMMA DispatchFits ==
  ASSUME NEW m, Manager(m), NEW b
  PROVE  GraphFits(Dispatch(m, b), b)
<1> SUFFICES ASSUME Dispatch(m, b).cg = "FULL" PROVE GraphFits(Dispatch(m, b), b)
  BY DEF GraphFits
<1>1. Dispatch(m, b) \in Matching(m, "FULL", b)
  BY DispatchedFull
<1>2. PICK d : d = Dispatch(m, b)
  OBVIOUS
<1>3. d \in Descs(m) /\ d.cg = "FULL" /\ IsCompatible(d, b)
  BY <1>1, <1>2 DEF Matching, Candidates
<1>4. d.reqs # 0 /\ (d.uniform # 0 => d.tokens = d.reqs * d.uniform)
  BY <1>3, FullDescs
<1> QED
  BY <1>2, <1>3, <1>4 DEF GraphFits, IsCompatible

-----------------------------------------------------------------------------
(* The target and the drafter *)

Batch == [reqs : Nat, tokens : Nat, uniform : Nat, longest : Nat]

LEMMA Managers ==
  ASSUME NEW g \in GraphConfigs
  PROVE  /\ Manager(TargetManager(g)) /\ Manager(PrefillManager(g)) /\ Manager(DecodeManager(g))
         /\ ~g.varlen => PrefillManager(g) = TargetManager(g)
<1>1. Manager(TargetManager(g)) /\ Manager(PrefillManager(g)) /\ Manager(DecodeManager(g))
  BY GraphConstants, ControllerConstants
     DEF Manager, NewManager, TargetManager, PrefillManager, DecodeManager
<1>2. ASSUME ~g.varlen PROVE PrefillManager(g) = TargetManager(g)
  <2>1. g.varlen = FALSE
    BY <1>2, Zenon DEF GraphConfigs
  <2> QED
    BY <2>1, Zenon DEF TargetManager, PrefillManager
<1> QED
  BY <1>1, <1>2

\* Without adaptive verification no graph bounds the queries of a batch.
LEMMA Unbounded ==
  ASSUME NEW m, ~m.varlen, NEW d \in Descs(m)
  PROVE  d.longest = 0
BY DEF Descs, DecodeDescs, UniformDescs, UniformDesc, MixedDescs

\* One mode lays out shapes of one kind only.
LEMMA OneKind ==
  ASSUME NEW m, m.mode # "FULL_AND_PIECEWISE",
         NEW d \in Descs(m), d.cg = "PIECEWISE", NEW e \in Descs(m), e.cg = "FULL"
  PROVE  FALSE
<1>1. d \in MixedDescs(m)
  BY DEF Descs, DecodeDescs, UniformDescs, UniformDesc, VarlenDescs
<1>2. MixedMode(m.mode) = "PIECEWISE"
  BY <1>1 DEF MixedDescs
<1>3. ~SeparateRoutine(m.mode)
  BY <1>2 DEF MixedMode, SeparateRoutine
<1>4. e \in MixedDescs(m)
  BY <1>3 DEF Descs, DecodeDescs
<1> QED
  BY <1>2, <1>4 DEF MixedDescs

\* Asked again for the tokens it padded to, a manager finds the same shapes.
LEMMA SameCandidates ==
  ASSUME NEW m, Manager(m), NEW tokens \in Nat,
         NEW d \in Candidates(m, "FULL", tokens)
  PROVE  Candidates(m, "FULL", d.tokens) = Candidates(m, "FULL", tokens)
<1>1. \A e \in Descs(m) : e.cg = "FULL" => e.tokens \in Nat
  BY FullDescs
<1>2. d \in Descs(m) /\ d.cg = "FULL" /\ d.tokens >= tokens
  BY DEF Candidates
<1>3. \A e \in Descs(m) : e.cg = "FULL" /\ e.tokens >= tokens => e.tokens >= d.tokens
  BY <1>1, <1>2 DEF Candidates
<1>4. \A e \in Descs(m) :
        e.cg = "FULL" => (e.tokens >= tokens <=> e.tokens >= d.tokens)
  BY <1>1, <1>2, <1>3
<1> QED
  BY <1>4 DEF Candidates

\* The drafter replays a full graph only if the target has just replayed the same.
LEMMA Follows ==
  ASSUME NEW g \in GraphConfigs, NEW b \in Batch
  PROVE  DrafterFollowsTarget(g, b)
<1> DEFINE m == TargetManager(g)
           t == Dispatch(m, b)
           padded == [b EXCEPT !.tokens = t.tokens, !.longest = 0]
<1> SUFFICES ASSUME ~g.varlen, g.mode # "FULL_AND_PIECEWISE",
                    Dispatch(m, padded).cg = "FULL"
             PROVE  Dispatch(m, padded) = t
  BY Managers DEF DrafterFollowsTarget, PrefillGraph, TargetGraph
<1>1. Manager(m) /\ ~m.varlen /\ m.mode # "FULL_AND_PIECEWISE"
  BY Managers DEF TargetManager, NewManager
<1>2. /\ padded.tokens = t.tokens /\ padded.reqs = b.reqs
      /\ padded.uniform = b.uniform /\ padded.longest = 0
  BY DEF Batch
<1> HIDE DEF m, t, padded
<1>3. Matching(m, "FULL", padded) # {}
  BY DispatchedFull
<1>4. CASE Matching(m, "FULL", b) # {}
  <2>1. t \in Matching(m, "FULL", b)
    BY <1>4, DispatchedFull DEF t
  <2>2. Candidates(m, "FULL", t.tokens) = Candidates(m, "FULL", b.tokens)
    BY <1>1, <2>1, SameCandidates DEF Matching, Batch
  <2>3. ASSUME NEW d \in Candidates(m, "FULL", t.tokens)
        PROVE  IsCompatible(d, padded) <=> IsCompatible(d, b)
    <3>1. d \in Candidates(m, "FULL", b.tokens)
      BY <2>2, <2>3
    <3>2. d.longest = 0 /\ d.tokens >= t.tokens /\ d.tokens >= b.tokens
      BY <1>1, <2>3, <3>1, Unbounded DEF Candidates
    <3> QED
      BY <1>2, <3>2 DEF IsCompatible
  <2>4. Matching(m, "FULL", padded) = Matching(m, "FULL", b)
    BY <1>2, <2>2, <2>3 DEF Matching
  <2> QED
    BY <1>4, <2>4 DEF Dispatch, t
<1>5. CASE Matching(m, "FULL", b) = {} /\ Matching(m, "PIECEWISE", b) = {}
  <2>1. t.tokens = b.tokens
    BY <1>5 DEF t, Dispatch, Eager
  <2>2. ASSUME NEW d \in Candidates(m, "FULL", b.tokens), IsCompatible(d, padded)
        PROVE  IsCompatible(d, b)
    <3>1. d.longest = 0
      BY <1>1, <2>2, Unbounded DEF Candidates
    <3> QED
      BY <1>2, <2>1, <2>2, <3>1 DEF IsCompatible
  <2> QED
    BY <1>2, <1>3, <1>5, <2>1, <2>2 DEF Matching
<1>6. CASE Matching(m, "FULL", b) = {} /\ Matching(m, "PIECEWISE", b) # {}
  <2>1. PICK d \in Descs(m) : d.cg = "PIECEWISE"
    BY <1>6 DEF Matching, Candidates
  <2>2. PICK e \in Descs(m) : e.cg = "FULL"
    BY <1>3 DEF Matching, Candidates
  <2> QED
    BY <1>1, <2>1, <2>2, OneKind
<1> QED
  BY <1>4, <1>5, <1>6

\* A request that decodes alone finds a graph of exactly its tokens.
LEMMA Lone ==
  ASSUME NEW g \in GraphConfigs, NEW q \in 1..(MaxDepth + 1)
  PROVE  LoneDecodeGraphed(g, DecodeBatch(1, q))
<1> DEFINE m == TargetManager(g)
           b == DecodeBatch(1, q)
           c == UniformDesc(1, q)
<1> SUFFICES ASSUME SeparateRoutine(g.mode), ~g.varlen, q > 1
             PROVE  Dispatch(m, b).cg = "FULL" /\ Dispatch(m, b).tokens = b.tokens
  BY DEF LoneDecodeGraphed, TargetGraph, DecodeBatch
<1>1. /\ m.mode = g.mode /\ ~m.varlen /\ m.sizes = CaptureSizes /\ m.max_reqs = MaxNumReqs
      /\ m.query_len = MaxDepth + 1 /\ m.num_spec = MaxDepth /\ m.adaptive
  BY DEF TargetManager, NewManager, Adaptive
<1>2. b.tokens = q /\ b.reqs = 1 /\ b.uniform = q /\ b.longest = q
  BY ControllerConstants DEF DecodeBatch
<1>3. c.cg = "FULL" /\ c.tokens = q /\ c.reqs = 1 /\ c.uniform = q /\ c.longest = 0
  <2>1. (1 + q - 1) \div q = 1
    BY ControllerConstants
  <2> QED
    BY <2>1, ControllerConstants DEF UniformDesc
<1> HIDE DEF m, b, c
<1>4. c \in Descs(m)
  <2>1. q \in DecodeQueryLens(m)
    BY <1>1, ControllerConstants DEF DecodeQueryLens
  <2>2. q <= MaxNumReqs * (MaxDepth + 1)
    BY GraphConstants, ControllerConstants
  <2>3. \E size \in CaptureSizes : q <= size
    BY GraphConstants, ControllerConstants
  <2>4. c \in UniformDescs(m)
    BY <1>1, <1>3, <2>1, <2>2, <2>3, GraphConstants DEF UniformDescs, c
  <2> QED
    BY <1>1, <2>4 DEF Descs, DecodeDescs
<1>5. \A d \in Descs(m) : d.cg = "FULL" => d.tokens \in Nat
  BY FullDescs, Managers DEF m
<1>6. c \in Matching(m, "FULL", b)
  BY <1>2, <1>3, <1>4, <1>5, ControllerConstants DEF Matching, Candidates, IsCompatible
<1>7. Dispatch(m, b) \in Matching(m, "FULL", b)
  BY <1>6, DispatchedFull
<1>8. PICK d : d = Dispatch(m, b)
  OBVIOUS
<1>9. d \in Candidates(m, "FULL", q) /\ c \in Candidates(m, "FULL", q)
  BY <1>2, <1>6, <1>7, <1>8 DEF Matching
<1>10. d.cg = "FULL" /\ d.tokens \in Nat /\ d.tokens >= q /\ d.tokens <= c.tokens
  BY <1>5, <1>9 DEF Candidates
<1> QED
  BY <1>2, <1>3, <1>8, <1>10

\* The graph of the further drafts has a place for every request.
LEMMA DecodeFits ==
  ASSUME NEW g \in GraphConfigs, NEW n \in Nat \ {0}
  PROVE  GraphFits(DecodeGraph(g, n), DecodeBatch(n, 1))
<1> DEFINE m == DecodeManager(g)
           b == [DecodeBatch(n, 1) EXCEPT !.longest = 0]
           d == Dispatch(m, b)
<1>1. Manager(m) /\ ~m.varlen
  BY Managers DEF DecodeManager, NewManager
<1>2. b.reqs = n /\ b.tokens = n * 1 /\ b.uniform = 1
  BY DEF DecodeBatch
<1>3. GraphFits(d, b)
  BY <1>1, DispatchFits
<1> HIDE DEF m, b
<1>4. CASE d.cg = "FULL"
  <2>1. d \in Descs(m)
    BY <1>4, DispatchedFull DEF Matching, Candidates
  <2>2. PICK e : e = d
    OBVIOUS
  <2>3. e.longest = 0
    BY <1>1, <2>1, <2>2, Unbounded
  <2> HIDE DEF d
  <2>4. GraphFits(e, DecodeBatch(n, 1))
    BY <1>2, <1>3, <2>2, <2>3 DEF GraphFits, DecodeBatch
  <2> QED
    BY <2>2, <2>4 DEF d, m, b, DecodeGraph
<1>5. CASE d.cg # "FULL"
  BY <1>5 DEF GraphFits, DecodeGraph, m, b
<1> QED
  BY <1>4, <1>5

\* Every batch a step may be is replayable, however the engine was started.
LEMMA AllReplayable ==
  ASSUME NEW n \in Nat \ {0}, NEW depths \in SUBSET (0..MaxDepth),
         NEW g \in GraphConfigs, NEW b \in Batches(n, depths)
  PROVE  BatchReplayable(g, b)
<1>1. b \in Batch /\ b.reqs = n /\ LoneDecodeGraphed(g, b)
  <2>1. CASE \E d \in depths : b = DecodeBatch(n, d + 1)
    <3>1. PICK d \in depths : b = DecodeBatch(n, d + 1)
      BY <2>1
    <3>2. d + 1 \in 1..(MaxDepth + 1) /\ n * (d + 1) \in Nat
      BY ControllerConstants
    <3>3. b \in Batch /\ b.reqs = n
      BY <3>1, <3>2 DEF Batch, DecodeBatch
    <3>4. CASE n = 1
      BY <3>1, <3>2, <3>3, <3>4, Lone
    <3>5. CASE n # 1
      BY <3>3, <3>5 DEF LoneDecodeGraphed
    <3> QED
      BY <3>3, <3>4, <3>5
  <2>2. CASE \E t \in n..MaxTokens, q \in 1..MaxTokens :
               b = [reqs |-> n, tokens |-> t, uniform |-> 0, longest |-> q]
    BY <2>2, GraphConstants DEF Batch, LoneDecodeGraphed
  <2> QED
    BY <2>1, <2>2 DEF Batches
<1>2. GraphFits(TargetGraph(g, b), b)
  BY Managers, DispatchFits DEF TargetGraph
<1>3. GraphFits(DecodeGraph(g, b.reqs), DecodeBatch(b.reqs, 1))
  BY <1>1, DecodeFits
<1>4. DrafterFollowsTarget(g, b)
  BY <1>1, Follows
<1> QED
  BY <1>1, <1>2, <1>3, <1>4 DEF BatchReplayable

-----------------------------------------------------------------------------
(* The steps the controller schedules *)

\* Whatever the depths, the capture sizes and the mode, every step in flight replays
\* graphs that fit it in the target and the drafter, and drafts as deep as asked.
THEOREM StepsAlwaysReplayable == Spec => []StepsReplayable
<1>1. TypeOK => StepsReplayable
  <2> SUFFICES ASSUME TypeOK, NEW i \in 1..Len(pipeline), pipeline[i].ids # {}
               PROVE  /\ <<Cardinality(pipeline[i].ids), pipeline[i].depths>> \in Replayable
                      /\ \A supported \in BOOLEAN :
                           Forwards(pipeline[i].drafted, supported) = pipeline[i].drafted
    BY DEF StepsReplayable
  <2> DEFINE n == Cardinality(pipeline[i].ids)
             depths == pipeline[i].depths
             drafted == pipeline[i].drafted
  <2>1. pipeline[i] \in Step
    BY DEF TypeOK
  <2>2. depths \in SUBSET (0..MaxDepth) /\ drafted \in 1..MaxDepth
        /\ pipeline[i].ids \subseteq Requests
    BY <2>1 DEF Step
  <2>3. n \in 1..Cardinality(Requests)
    <3>1. IsFiniteSet(pipeline[i].ids) /\ n <= Cardinality(Requests)
      BY <2>2, GraphConstants, FS_Subset
    <3>2. n \in Nat /\ n # 0 /\ Cardinality(Requests) \in Nat
      BY <3>1, GraphConstants, FS_CardinalityType, FS_EmptySet
    <3> QED
      BY <3>1, <3>2
  <2> HIDE DEF n, depths, drafted
  <2>4. <<n, depths>> \in Replayable
    BY <2>2, <2>3, AllReplayable DEF Replayable
  <2>5. \A supported \in BOOLEAN : Forwards(drafted, supported) = drafted
    BY <2>2, ControllerConstants DEF Forwards, UseFused, Adaptive
  <2> QED
    BY <2>4, <2>5 DEF n, depths, drafted
<1> QED
  BY <1>1, TypeCorrect, PTL

-----------------------------------------------------------------------------
(* The depth controller: measurements *)

\* t verifies no more than what s, the step scheduled before it, drafted for the same
\* batch.
Feeds(s, t) == t.ids = s.ids => t.depths \subseteq {0, s.drafted}

\* The step scheduled last.
LastStep == IF pipeline = <<>> THEN previous ELSE pipeline[Len(pipeline)]

\* The drafts of a batch are those of the step that computed it last.
ChainInv ==
  /\ \A i \in 1..(Len(pipeline) - 1) : Feeds(pipeline[i], pipeline[i + 1])
  /\ previous # None /\ pipeline # <<>> => Feeds(previous, pipeline[1])
  /\ \A r \in LastStep.ids : drafts[r] \in {0, LastStep.drafted}

\* How many steps from now on are not measured, whatever they verify: those still to
\* be ignored, and one more where no time has been taken since the reset, or where the
\* step before drafted another depth than the one a measured step verifies.
Ignored ==
  settle + IF previous = None \/ (previous.ids = signature /\ previous.drafted # k)
           THEN 1 ELSE 0

\* The steps in flight that may have drafted another depth than k are among these.
SettleInv ==
  /\ settle < 2 => previous # None /\ ~Unsettled(previous)
  /\ config.mode = "fixed" => settle = 2
  /\ \A i \in 1..Len(pipeline) : i > Ignored => pipeline[i].drafted = k

LEMMA Emptiness ==
  ASSUME NEW S, NEW s \in Seq(S)
  PROVE  s = <<>> <=> Len(s) = 0
OBVIOUS

\* The steps in flight are given by index, so that both ends of the queue can move.
LEMMA StepsInFlight ==
  ASSUME TypeOK
  PROVE  /\ Len(pipeline) \in Nat
         /\ pipeline = <<>> <=> Len(pipeline) = 0
         /\ \A i \in 1..Len(pipeline) : pipeline[i] \in Step
BY DEF TypeOK

LEMMA Scheduled ==
  ASSUME TypeOK, NEW batch \in SUBSET Requests, NEW c \in Configs, Schedule(batch, c),
         NEW step, step = [ids |-> batch, depths |-> {drafts[r] : r \in batch},
                           drafted |-> k']
  PROVE  /\ Len(pipeline') = Len(pipeline) + 1
         /\ pipeline'[Len(pipeline) + 1] = step
         /\ \A i \in 1..Len(pipeline) : pipeline'[i] = pipeline[i]
         /\ pipeline' # <<>> /\ LastStep' = step
<1>1. TypeOK'
  BY ScheduleTyped
<1>2. step \in Step
  <2>1. k' \in 1..MaxDepth
    BY <1>1 DEF TypeOK
  <2> QED
    BY <2>1 DEF TypeOK, Step
<1>3. pipeline \in Seq(Step) /\ pipeline' = Append(pipeline, step)
  BY DEF Schedule, TypeOK
<1>4. /\ Len(pipeline') = Len(pipeline) + 1
      /\ pipeline'[Len(pipeline) + 1] = step
      /\ \A i \in 1..Len(pipeline) : pipeline'[i] = pipeline[i]
      /\ pipeline' # <<>>
  BY <1>2, <1>3
<1> QED
  BY <1>4 DEF LastStep

LEMMA Observed ==
  ASSUME TypeOK, NEW ok \in BOOLEAN, Observe(ok)
  PROVE  /\ Len(pipeline) \in Nat \ {0}
         /\ Len(pipeline') = Len(pipeline) - 1
         /\ \A i \in 1..(Len(pipeline) - 1) : pipeline'[i] = pipeline[i + 1]
         /\ LastStep' = LastStep
<1>1. /\ pipeline \in Seq(Step) /\ pipeline # <<>> /\ previous' = pipeline[1]
      /\ pipeline' = SubSeq(pipeline, 2, Len(pipeline))
  BY DEF Observe, TypeOK
<1>2. Len(pipeline) \in Nat \ {0}
  BY <1>1
<1>3. Len(pipeline') = Len(pipeline) - 1
  BY <1>1, WithoutOldest
<1>4. \A i \in 1..(Len(pipeline) - 1) : pipeline'[i] = pipeline[i + 1]
  BY <1>1
<1>5. pipeline' \in Seq(Step)
  BY <1>1, WithoutOldest
<1>6. pipeline' = <<>> <=> Len(pipeline) = 1
  <2>1. pipeline' = <<>> <=> Len(pipeline') = 0
    BY <1>5, Emptiness
  <2> QED
    BY <1>2, <1>3, <2>1
<1>7. CASE Len(pipeline) = 1
  BY <1>1, <1>6, <1>7 DEF LastStep
<1>8. CASE Len(pipeline) # 1
  <2>1. pipeline'[Len(pipeline) - 1] = pipeline[Len(pipeline)]
    <3>1. Len(pipeline) - 1 \in 1..(Len(pipeline) - 1)
      <4>1. \A n \in Nat \ {0} : n # 1 => n - 1 \in 1..(n - 1)
        OBVIOUS
      <4> QED
        BY <1>2, <1>8, <4>1, Zenon
    <3>2. (Len(pipeline) - 1) + 1 = Len(pipeline)
      BY <1>2
    <3> QED
      BY <1>4, <3>1, <3>2
  <2> QED
    BY <1>1, <1>3, <1>6, <1>8, <2>1 DEF LastStep
<1> QED
  BY <1>2, <1>3, <1>4, <1>7, <1>8

\* A batch that goes on verifies what its last step drafted, or less.
LEMMA ScheduleKeepsChain ==
  ASSUME TypeOK, ChainInv, NEW batch \in SUBSET Requests, NEW c \in Configs,
         Schedule(batch, c)
  PROVE  ChainInv'
<1> DEFINE step == [ids |-> batch, depths |-> {drafts[r] : r \in batch}, drafted |-> k']
<1>1. /\ step.ids = batch /\ step.depths = {drafts[r] : r \in batch} /\ step.drafted = k'
      /\ drafts' = [r \in Requests |-> IF r \in batch THEN k' ELSE drafts[r]]
      /\ previous' \in {previous, None}
  BY DEF Schedule, Choose, Reset
<1>2. PICK s : s = step
  OBVIOUS
<1> HIDE DEF step
<1>3. /\ Len(pipeline') = Len(pipeline) + 1
      /\ pipeline'[Len(pipeline) + 1] = s
      /\ \A i \in 1..Len(pipeline) : pipeline'[i] = pipeline[i]
      /\ pipeline' # <<>> /\ LastStep' = s
  BY <1>2, Scheduled DEF step
<1>4. Feeds(LastStep, s)
  BY <1>1, <1>2 DEF ChainInv, Feeds
<1>5. Len(pipeline) \in Nat /\ (pipeline = <<>> <=> Len(pipeline) = 0)
  BY StepsInFlight
<1>6. ASSUME NEW i \in 1..(Len(pipeline') - 1)
      PROVE  Feeds(pipeline'[i], pipeline'[i + 1])
  <2>1. CASE i = Len(pipeline)
    <3>1. pipeline'[i] = LastStep /\ pipeline'[i + 1] = s
      BY <1>3, <1>5, <2>1, <1>6 DEF LastStep
    <3> QED
      BY <1>4, <3>1
  <2>2. CASE i # Len(pipeline)
    <3>1. i \in 1..Len(pipeline) /\ i + 1 \in 1..Len(pipeline) /\ i \in 1..(Len(pipeline) - 1)
      BY <1>3, <1>5, <1>6, <2>2
    <3> QED
      BY <1>3, <3>1 DEF ChainInv
  <2> QED
    BY <2>1, <2>2
<1>7. ASSUME previous' # None
      PROVE  Feeds(previous', pipeline'[1])
  <2>1. previous' = previous /\ previous # None
    BY <1>1, <1>7
  <2>2. CASE pipeline = <<>>
    <3>1. pipeline'[1] = s /\ LastStep = previous
      BY <1>3, <1>5, <2>2 DEF LastStep
    <3> QED
      BY <1>4, <2>1, <3>1
  <2>3. CASE pipeline # <<>>
    <3>1. pipeline'[1] = pipeline[1]
      BY <1>3, <1>5, <2>3
    <3> QED
      BY <2>1, <2>3, <3>1 DEF ChainInv
  <2> QED
    BY <2>2, <2>3
<1>8. \A r \in s.ids : drafts'[r] \in {0, s.drafted}
  BY <1>1, <1>2
<1>9. ChainInv' <=>
        /\ \A i \in 1..(Len(pipeline') - 1) : Feeds(pipeline'[i], pipeline'[i + 1])
        /\ previous' # None /\ pipeline' # <<>> => Feeds(previous', pipeline'[1])
        /\ \A r \in LastStep'.ids : drafts'[r] \in {0, LastStep'.drafted}
  BY DEF ChainInv, Feeds, None
<1> QED
  BY <1>3, <1>6, <1>7, <1>8, <1>9

LEMMA ObserveKeepsChain ==
  ASSUME TypeOK, ChainInv, NEW ok \in BOOLEAN, Observe(ok)
  PROVE  ChainInv'
<1>1. /\ Len(pipeline) \in Nat \ {0}
      /\ Len(pipeline') = Len(pipeline) - 1
      /\ \A i \in 1..(Len(pipeline) - 1) : pipeline'[i] = pipeline[i + 1]
      /\ LastStep' = LastStep
  BY Observed
<1>2. previous' = pipeline[1] /\ drafts' = drafts
  BY DEF Observe
<1>3. ASSUME NEW i \in 1..(Len(pipeline') - 1)
      PROVE  Feeds(pipeline'[i], pipeline'[i + 1])
  <2>1. /\ i \in 1..(Len(pipeline) - 1) /\ i + 1 \in 1..(Len(pipeline) - 1)
    BY <1>1, <1>3
  <2>2. pipeline'[i] = pipeline[i + 1] /\ pipeline'[i + 1] = pipeline[(i + 1) + 1]
    BY <1>1, <2>1
  <2> QED
    BY <2>1, <2>2 DEF ChainInv
<1>4. ASSUME pipeline' # <<>>
      PROVE  Feeds(previous', pipeline'[1])
  <2>1. TypeOK'
    BY ObserveTyped
  <2>2. pipeline' \in Seq(Step)
    BY <2>1 DEF TypeOK
  <2>3. Len(pipeline') # 0
    BY <1>4, <2>2
  <2>4. 1 \in 1..(Len(pipeline) - 1)
    BY <1>1, <2>3
  <2>5. pipeline'[1] = pipeline[1 + 1]
    BY <1>1, <2>4
  <2> QED
    BY <1>2, <2>4, <2>5 DEF ChainInv
<1>5. ChainInv' <=>
        /\ \A i \in 1..(Len(pipeline') - 1) : Feeds(pipeline'[i], pipeline'[i + 1])
        /\ previous' # None /\ pipeline' # <<>> => Feeds(previous', pipeline'[1])
        /\ \A r \in LastStep'.ids : drafts'[r] \in {0, LastStep'.drafted}
  BY DEF ChainInv, Feeds, None
<1> QED
  BY <1>1, <1>2, <1>3, <1>4, <1>5 DEF ChainInv

LEMMA IgnoredTyped ==
  ASSUME settle \in 0..2
  PROVE  /\ Ignored \in settle..(settle + 1)
         /\ previous = None => Ignored = settle + 1
BY DEF Ignored

\* After a reset three steps are not measured, and no more were scheduled before it and
\* are not observed yet; any other step drafts the depth that is measured.
LEMMA ScheduleKeepsSettling ==
  ASSUME Depth <= 4, TypeOK, SettleInv, NEW batch \in SUBSET Requests, NEW c \in Configs,
         Schedule(batch, c)
  PROVE  SettleInv'
<1>1. /\ Len(pipeline') = Len(pipeline) + 1
      /\ pipeline'[Len(pipeline) + 1].drafted = k'
      /\ \A i \in 1..Len(pipeline) : pipeline'[i] = pipeline[i]
  <2>1. PICK s : s = [ids |-> batch, depths |-> {drafts[r] : r \in batch}, drafted |-> k']
    OBVIOUS
  <2>2. s.drafted = k'
    BY <2>1
  <2> QED
    BY <2>1, <2>2, Scheduled
<1>2. Len(pipeline) \in Nat
  BY StepsInFlight
<1>3. Len(pipeline) < Depth /\ Depth \in Nat
  BY ControllerConstants DEF Schedule
<1>4. CASE NeedsReset(batch, c)
  <2>1. settle' = 2 /\ previous' = None
    BY <1>4 DEF Schedule, Choose, Reset
  <2>3. Ignored' = 3
    BY <2>1 DEF Ignored
  <2>2. ASSUME NEW i \in 1..Len(pipeline'), i > 3
        PROVE  pipeline'[i].drafted = k'
    <3>1. i = Len(pipeline) + 1
      BY <1>1, <1>2, <1>3, <2>2
    <3> QED
      BY <1>1, <3>1
  <2> QED
    BY <2>1, <2>2, <2>3 DEF SettleInv
<1>5. CASE ~NeedsReset(batch, c)
  <2>1. /\ config' = config /\ signature' = signature /\ k' = k /\ settle' = settle
        /\ previous' = previous
    BY <1>5 DEF Schedule, Choose, NeedsReset
  <2>3. Ignored' = Ignored
    BY <2>1 DEF Ignored
  <2>2. ASSUME NEW i \in 1..Len(pipeline'), i > Ignored
        PROVE  pipeline'[i].drafted = k
    <3>1. CASE i = Len(pipeline) + 1
      BY <1>1, <2>1, <3>1
    <3>2. CASE i # Len(pipeline) + 1
      <4>1. i \in 1..Len(pipeline)
        BY <1>1, <1>2, <2>2, <3>2
      <4> QED
        BY <1>1, <2>2, <4>1 DEF SettleInv
    <3> QED
      BY <3>1, <3>2
  <2> QED
    BY <2>1, <2>2, <2>3 DEF SettleInv, Unsettled, None
<1> QED
  BY <1>4, <1>5

\* A measured batch goes on, so the step before one that verifies k drafts drafted k.
LEMMA SettledPair ==
  ASSUME TypeOK, ChainInv, pipeline # <<>>, previous # None, ~Unsettled(pipeline[1])
  PROVE  Ignored = settle
<1>1. k # 0
  BY ControllerConstants DEF TypeOK
<1>2. ASSUME previous.ids = signature PROVE previous.drafted = k
  BY <1>1, <1>2 DEF ChainInv, Feeds, Unsettled
<1> QED
  BY <1>2 DEF Ignored, TypeOK

\* What is measured drafted the depth it is charged to.
LEMMA MeasuredDrafted ==
  ASSUME TypeOK, ChainInv, SettleInv, pipeline # <<>>, Watches, ~Unsettled(pipeline[1]),
         settle = 0
  PROVE  pipeline[1].drafted = k
<1>1. Ignored = 0
  BY SettledPair DEF Watches
<1>2. 1 \in 1..Len(pipeline)
  BY Emptiness DEF TypeOK
<1> QED
  BY <1>1, <1>2 DEF SettleInv

\* A decision that moves to another depth ignores the next two steps.
LEMMA RecordSettles ==
  ASSUME TypeOK, Record
  PROVE  settle' = 2 \/ (k' = k /\ settle' = settle)
<1>1. ASSUME NEW best \in 1..MaxDepth, Decide(best)
      PROVE  settle' = 2 \/ (k' = k /\ settle' = settle)
  <2>1. CASE StartProbe
    <3>1. k + 1 # k
      BY ControllerConstants DEF TypeOK
    <3> QED
      BY <2>1, <3>1 DEF StartProbe, Switch
  <2>2. CASE Switch(best)
    BY <2>2 DEF Switch
  <2> QED
    BY <1>1, <2>1, <2>2 DEF Decide
<1> QED
  BY <1>1 DEF Record

\* The depth that is measured only changes together with a wait for two steps, just
\* after a step that drafted the depth before; and one step ends no more than one of
\* those waited for.
LEMMA ObserveSettles ==
  ASSUME TypeOK, ChainInv, SettleInv, NEW ok \in BOOLEAN, Observe(ok)
  PROVE  /\ settle' < 2 => config.mode # "fixed" /\ ~Unsettled(pipeline[1])
         /\ config.mode = "fixed" => settle' = 2
         /\ \/ k' = k /\ settle' >= Ignored - 1
            \/ /\ k' # k /\ settle' = 2
               /\ pipeline[1].ids = signature /\ pipeline[1].drafted = k
<1> SUFFICES \/ /\ settle' = 2 /\ k' = k
             \/ /\ k' = k /\ settle' >= Ignored - 1
                /\ config.mode # "fixed" /\ ~Unsettled(pipeline[1])
             \/ /\ k' # k /\ settle' = 2 /\ config.mode # "fixed"
                /\ pipeline[1].ids = signature /\ pipeline[1].drafted = k
  BY IgnoredTyped DEF TypeOK
<1>1. settle \in 0..2 /\ pipeline # <<>>
  BY DEF TypeOK, Observe
<1>2. CASE ~Watches /\ Skip
  <2>1. settle = 2
    BY <1>1, <1>2, ControllerConstants DEF Watches, SettleInv, TypeOK
  <2> QED
    BY <1>2, <2>1 DEF Skip
<1>3. CASE Resettle /\ k' = k
  BY <1>3 DEF Resettle
<1>4. CASE Watches /\ ~Unsettled(pipeline[1]) /\ settle > 0 /\ settle' = settle - 1 /\ k' = k
  <2>1. Ignored = settle
    BY <1>1, <1>4, SettledPair DEF Watches
  <2> QED
    BY <1>1, <1>4, <2>1 DEF Watches
<1>5. CASE Watches /\ ~Unsettled(pipeline[1]) /\ settle = 0
           /\ IF ok THEN Record ELSE Skip
  <2>1. Ignored = 0 /\ pipeline[1].drafted = k /\ pipeline[1].ids = signature
    BY <1>1, <1>5, SettledPair, MeasuredDrafted DEF Watches, Unsettled
  <2>2. settle' = 2 \/ (k' = k /\ settle' = settle)
    BY <1>5, RecordSettles DEF Skip
  <2>3. config.mode # "fixed"
    BY <1>5 DEF Watches
  <2> QED
    BY <1>1, <1>5, <2>1, <2>2, <2>3
<1> QED
  BY <1>2, <1>3, <1>4, <1>5 DEF Observe

LEMMA ObserveKeepsSettling ==
  ASSUME Depth <= 4, TypeOK, ChainInv, SettleInv, NEW ok \in BOOLEAN, Observe(ok)
  PROVE  SettleInv'
<1>1. /\ Len(pipeline) \in Nat \ {0} /\ Len(pipeline) <= 4
      /\ Len(pipeline') = Len(pipeline) - 1
      /\ \A i \in 1..(Len(pipeline) - 1) : pipeline'[i] = pipeline[i + 1]
  BY Observed, ControllerConstants DEF TypeOK
<1>2. /\ config' = config /\ signature' = signature /\ previous' = pipeline[1]
      /\ pipeline[1] # None
  <2>1. pipeline[1] \in Step
    BY <1>1, StepsInFlight
  <2>2. pipeline[1].drafted # 0
    BY <2>1, ControllerConstants DEF Step
  <2> QED
    BY <2>2 DEF Observe, None
<1>3. settle \in 0..2 /\ settle' \in 0..2
  BY ObserveTyped DEF TypeOK
<1>4. Ignored \in settle..(settle + 1) /\ Ignored' \in settle'..(settle' + 1)
  <2>1. \/ Ignored' = settle' + 0
        \/ Ignored' = settle' + 1
    BY Zenon DEF Ignored
  <2>2. Ignored' \in settle'..(settle' + 1)
    BY <1>3, <2>1
  <2> QED
    BY <1>3, <2>2, IgnoredTyped
<1>5. /\ settle' < 2 => previous' # None /\ ~Unsettled(previous)'
      /\ config'.mode = "fixed" => settle' = 2
  <2>1. CASE settle' = 2
    BY <2>1
  <2>2. CASE settle' # 2
    <3>1. settle' < 2
      BY <1>3, <2>2
    <3>2. k' = k /\ ~Unsettled(pipeline[1]) /\ config.mode # "fixed"
      BY <2>2, <3>1, ObserveSettles
    <3> QED
      BY <1>2, <3>2 DEF Unsettled
  <2> QED
    BY <2>1, <2>2
<1>6. ASSUME NEW i \in 1..Len(pipeline'), i > Ignored'
      PROVE  pipeline'[i].drafted = k'
  <2>1. i \in 1..(Len(pipeline) - 1) /\ i + 1 \in 1..Len(pipeline) /\ i < 4
    BY <1>1, <1>6
  <2>2. CASE k' = k /\ settle' >= Ignored - 1
    <3>1. i + 1 > Ignored
      BY <1>3, <1>4, <1>6, <2>1, <2>2
    <3> QED
      BY <1>1, <2>1, <2>2, <3>1 DEF SettleInv
  <2>3. CASE k' # k /\ settle' = 2 /\ pipeline[1].ids = signature /\ pipeline[1].drafted = k
    <3>1. Ignored' = 3
      BY <1>2, <2>3 DEF Ignored
    <3> QED
      BY <1>6, <2>1, <3>1
  <2> QED
    BY <2>2, <2>3, ObserveSettles
<1> QED
  BY <1>5, <1>6 DEF SettleInv

\* What has been read, verified and drafted so far never puts a step of another depth
\* next to a step that is measured.
LEMMA SettlingKept ==
  ASSUME Depth <= 4
  PROVE  Spec => [](TypeOK /\ ChainInv /\ SettleInv)
<1>1. Init => ChainInv /\ SettleInv
  <2> SUFFICES ASSUME Init PROVE ChainInv /\ SettleInv
    OBVIOUS
  <2>1. pipeline = <<>> /\ previous = None /\ settle = 2 /\ Len(pipeline) = 0
    BY DEF Init
  <2> QED
    BY <2>1 DEF ChainInv, SettleInv, LastStep, None, Ignored
<1>2. TypeOK /\ ChainInv /\ SettleInv /\ [Next]_vars => ChainInv' /\ SettleInv'
  <2> SUFFICES ASSUME TypeOK, ChainInv, SettleInv, [Next]_vars
               PROVE  ChainInv' /\ SettleInv'
    OBVIOUS
  <2>1. ASSUME NEW r \in Requests, LoseDrafts(r) PROVE ChainInv' /\ SettleInv'
    <3>1. UNCHANGED <<ctrlVars, pipeline>> /\ drafts' = [drafts EXCEPT ![r] = 0]
      BY <2>1 DEF LoseDrafts
    <3>2. \A q \in LastStep.ids : drafts'[q] \in {0, LastStep.drafted}
      BY <3>1 DEF ChainInv, TypeOK
    <3> QED
      BY <3>1, <3>2 DEF ChainInv, SettleInv, Ignored, LastStep, Unsettled, ctrlVars
  <2>2. CASE UNCHANGED vars
    BY <2>2 DEF vars, ctrlVars, ChainInv, SettleInv, Ignored, LastStep, Unsettled
  <2> QED
    BY <2>1, <2>2, ScheduleKeepsChain, ScheduleKeepsSettling, ObserveKeepsChain,
       ObserveKeepsSettling DEF Next
<1> QED
  BY <1>1, <1>2, TypeCorrect, PTL DEF Spec

\* With up to four steps in flight (asynchronous scheduling keeps two) a time is only
\* charged to a depth if the steps at both ends of the interval ran the measured batch,
\* verified that many drafts and drafted as many, whatever is preempted, read and
\* decided meanwhile.  With five a control file that changes twice defeats it.
THEOREM MeasurementsStayAttributed ==
  ASSUME Depth <= 4
  PROVE  Spec => MeasurementsAttributed
<1> DEFINE Charged ==
      Records => \A step \in {previous, pipeline[1]} :
                   step.ids = signature /\ step.depths = {k} /\ step.drafted = k
<1>1. TypeOK /\ TypeOK' /\ ChainInv /\ SettleInv => Charged
  <2> SUFFICES ASSUME TypeOK, TypeOK', ChainInv, SettleInv, Records
               PROVE  \A step \in {previous, pipeline[1]} :
                        step.ids = signature /\ step.depths = {k} /\ step.drafted = k
    OBVIOUS
  <2>1. /\ settle = 0 /\ previous # None
        /\ ~Unsettled(previous) /\ ~Unsettled(pipeline[1]) /\ Watches
        /\ k \in 1..MaxDepth
    BY DEF Records, Watches, SettleInv, TypeOK
  <2>2. Len(pipeline) \in Nat \ {0} /\ pipeline # <<>>
    <3>1. /\ pipeline \in Seq(Step) /\ pipeline' \in Seq(Step)
          /\ Len(pipeline') < Len(pipeline)
      BY DEF TypeOK, Records
    <3>2. Len(pipeline) \in Nat /\ Len(pipeline') \in Nat
      BY <3>1
    <3>3. Len(pipeline) \in Nat \ {0}
      BY <3>1, <3>2
    <3> QED
      BY <3>1, <3>3, Emptiness
  <2>3. pipeline[1].drafted = k
    BY <2>1, <2>2, MeasuredDrafted
  <2>4. /\ previous.ids = signature /\ previous.depths = {k}
        /\ pipeline[1].ids = signature /\ pipeline[1].depths = {k}
    BY <2>1 DEF Unsettled
  <2>5. {k} \subseteq {0, previous.drafted}
    BY <2>1, <2>2, <2>4 DEF ChainInv, Feeds
  <2>6. previous.drafted = k
    BY <2>1, <2>5
  <2> QED
    BY <2>3, <2>4, <2>6
<1>2. [](TypeOK /\ ChainInv /\ SettleInv) => [][Charged]_vars
  BY <1>1, PTL
<1> QED
  BY <1>2, SettlingKept, PTL DEF MeasurementsAttributed

-----------------------------------------------------------------------------
(* The depth controller: probes *)

\* A probe is started by a decision and by nothing else, and never by the decision
\* that ends the probe before it.
LEMMA ProbeStarted ==
  ASSUME TypeOK, Next, probe_left' > probe_left
  PROVE  probe_left = 0 /\ since_decision + 1 >= config.policy.interval
<1>1. probe_left \in Nat
  BY ControllerConstants DEF TypeOK
<1>2. probe_left' # probe_left /\ probe_left' # 0 /\ probe_left' # probe_left - 1
  BY <1>1
<1>3. ~(\E batch \in SUBSET Requests, c \in Configs : Schedule(batch, c))
  BY <1>2 DEF Schedule, Choose, Reset
<1>4. ~(\E r \in Requests : LoseDrafts(r))
  BY <1>2 DEF LoseDrafts, ctrlVars
<1>5. Record
  BY <1>2, <1>3, <1>4 DEF Next, Observe, Skip
<1>6. DecisionDue /\ \E best \in 1..MaxDepth : Decide(best)
  BY <1>2, <1>5 DEF Record
<1>7. PICK best \in 1..MaxDepth : MayProbe(best) /\ StartProbe
  BY <1>2, <1>6 DEF Decide
<1>8. probe_left # 1
  BY <1>7 DEF MayProbe
<1> QED
  BY <1>1, <1>6, <1>8 DEF DecisionDue

\* For every policy and depth of pipeline a probe starts only at an ordinary decision,
\* a full interval of measurements after the one before: probes never chain.
THEOREM ProbesStaySpaced == Spec => ProbesAreSpaced
<1>1. TypeOK /\ [Next]_vars =>
        [probe_left' > probe_left =>
           probe_left = 0 /\ since_decision + 1 >= config.policy.interval]_vars
  BY ProbeStarted
<1> QED
  BY <1>1, TypeCorrect, PTL DEF Spec, ProbesAreSpaced
=============================================================================
