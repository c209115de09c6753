--------------------------- MODULE MtpController ---------------------------
(***************************************************************************)
(* The MTP depth controller of                                             *)
(* overlays/v1/core/sched/qwen_mtp_adaptive.py, between the two hooks by   *)
(* which scheduler.py drives it: schedule() asks it how deep the next step *)
(* drafts (choose), update_from_output() shows it each step's output       *)
(* (observe).  With asynchronous scheduling up to Depth steps lie between  *)
(* the two, so an output may belong to another batch, or to another depth, *)
(* than the ones the controller has since moved to.                        *)
(*                                                                         *)
(* Abstracted: the reward and cost estimates.  A decision may find any     *)
(* depth best, and any unobserved tail worth a probe.  Time is kept as the *)
(* step whose output previous_time was taken at.                           *)
(***************************************************************************)
EXTENDS Integers, Sequences

CONSTANTS
  Requests,
  Configs,      \* what the control file may hold: [mode, fixed, policy], with
                \* policy = [interval, probe_steps, probe_interval]
  Depth,        \* steps in flight
  MaxDepth      \* the drafting depth the kit supports (4)

ASSUME ControllerConstants ==
  /\ Depth \in Nat \ {0} /\ MaxDepth \in Nat /\ MaxDepth >= 3
  /\ Configs # {}
  /\ Configs \subseteq
       [mode : {"adaptive", "fixed"}, fixed : 1..MaxDepth,
        policy : [interval : Nat \ {0}, probe_steps : Nat \ {0},
                  probe_interval : Nat \ {0}]]

VARIABLES
  config,          \* mode, fixed and params
  k, anchor, probe_left,
  settle,
  since_decision,  \* recorded steps since the last decision
  since_probe,     \* steps - last_probe, up to probe_interval
  signature,       \* the batch the controller measures
  previous,        \* the step previous_time was taken at, or None
  drafts,          \* drafts[r]: draft tokens r's next step will verify
  pipeline         \* steps scheduled and not yet processed

ctrlVars == <<config, k, anchor, probe_left, settle, since_decision, since_probe,
              signature, previous>>
vars == <<ctrlVars, drafts, pipeline>>

Step == [ids : SUBSET Requests, depths : SUBSET (0..MaxDepth), drafted : 1..MaxDepth]

\* No output has been seen since the last reset.
None == [ids |-> {}, depths |-> {}, drafted |-> 0]

InitialDepth(c) == IF c.mode = "adaptive" THEN 3 ELSE c.fixed

Init ==
  /\ config \in {c \in Configs : c.mode = "adaptive"}
  /\ k = 3 /\ anchor = 3 /\ probe_left = 0 /\ settle = 2
  /\ since_decision = 0 /\ since_probe = 0
  /\ signature = {} /\ previous = None
  /\ drafts = [r \in Requests |-> 0]
  /\ pipeline = <<>>

\* reset()
Reset(c) ==
  /\ k' = InitialDepth(c) /\ anchor' = InitialDepth(c)
  /\ probe_left' = 0 /\ settle' = 2
  /\ since_decision' = 0 /\ since_probe' = 0
  /\ previous' = None

\* A new control file or another batch starts the measurements over.
NeedsReset(batch, c) == c # config \/ batch # signature

\* choose(): refresh() reads the control file (c; the file read last when it is
\* throttled or invalid), then the batch's signature is compared.
Choose(batch, c) ==
  /\ config' = c /\ signature' = batch
  /\ IF NeedsReset(batch, c) THEN Reset(c)
     ELSE UNCHANGED <<k, anchor, probe_left, settle, since_decision, since_probe,
                      previous>>

\* schedule(): a step verifies the drafts its requests were given last time, and
\* drafts as many as the controller says.
Schedule(batch, c) ==
  /\ Len(pipeline) < Depth
  /\ Choose(batch, c)
  /\ pipeline' = Append(pipeline, [ids |-> batch, depths |-> {drafts[r] : r \in batch},
                                   drafted |-> k'])
  /\ drafts' = [r \in Requests |-> IF r \in batch THEN k' ELSE drafts[r]]

\* A preemption, or a prefill chunk that does not finish the prompt: the next
\* step of r verifies nothing.  Drafts cut short by a budget are left out.
LoseDrafts(r) ==
  /\ drafts[r] # 0
  /\ drafts' = [drafts EXCEPT ![r] = 0]
  /\ UNCHANGED <<ctrlVars, pipeline>>

\* switch()
Switch(depth) ==
  /\ k' = depth
  /\ settle' = IF depth # k THEN 2 ELSE settle
  /\ since_decision' = 0

ProbeDue == since_probe + 1 >= config.policy.probe_interval

MayProbe_Chained(best) == best = k /\ k < MaxDepth
\* Only a decision that keeps a depth below the deepest one probes beyond it, and
\* never the decision that ends a probe (probe_left is then at its last step).
MayProbe(best) == probe_left # 1 /\ best = k /\ k < MaxDepth

MustProbe_Never(best) == FALSE
\* However little the unobserved tail promises, it is probed now and then.
MustProbe(best) == MayProbe(best) /\ ProbeDue

StartProbe ==
  /\ anchor' = k
  /\ probe_left' = config.policy.probe_steps
  /\ since_probe' = 0
  /\ Switch(k + 1)

\* decide(), for the depth the estimates find best.
Decide(best) ==
  \/ MayProbe(best) /\ StartProbe
  \/ /\ ~MustProbe(best)
     /\ probe_left' = 0
     /\ Switch(best)
     /\ since_probe' = IF ProbeDue THEN since_probe ELSE since_probe + 1
     /\ UNCHANGED anchor

DecisionDue ==
  IF probe_left > 0 THEN probe_left = 1
  ELSE since_decision + 1 >= config.policy.interval

\* A measurement enters records, costs and scales, and may lead to a decision.
Record ==
  \/ DecisionDue /\ \E best \in 1..MaxDepth : Decide(best)
  \/ /\ ~DecisionDue
     /\ probe_left' = IF probe_left > 0 THEN probe_left - 1 ELSE probe_left
     /\ since_decision' = since_decision + 1
     /\ since_probe' = IF ProbeDue THEN since_probe ELSE since_probe + 1
     /\ UNCHANGED <<k, anchor, settle>>

Watches_EveryMode == previous # None
\* observe() looks at the output at all: an adaptive mode with a time to measure from.
Watches == config.mode = "adaptive" /\ previous # None

\* The step is not one of the batch and depth being measured.
Unsettled(step) == step.ids # signature \/ step.ids = {} \/ step.depths # {k}

Resettle_NotAgain == UNCHANGED settle
\* Ignore the next two steps as well.
Resettle == settle' = 2

Skip == UNCHANGED <<k, anchor, probe_left, settle, since_decision, since_probe>>

\* update_from_output() hands the oldest step to observe(); ok is whether the
\* elapsed time and the numbers of emitted tokens are in range.
Observe(ok) ==
  LET step == pipeline[1] IN
  /\ pipeline # <<>>
  /\ pipeline' = SubSeq(pipeline, 2, Len(pipeline))
  /\ previous' = step
  /\ \/ ~Watches /\ Skip
     \/ /\ Watches /\ Unsettled(step)
        /\ Resettle
        /\ UNCHANGED <<k, anchor, probe_left, since_decision, since_probe>>
     \/ /\ Watches /\ ~Unsettled(step) /\ settle > 0
        /\ settle' = settle - 1
        /\ UNCHANGED <<k, anchor, probe_left, since_decision, since_probe>>
     \/ /\ Watches /\ ~Unsettled(step) /\ settle = 0
        /\ IF ok THEN Record ELSE Skip
  /\ UNCHANGED <<config, signature, drafts>>

Next ==
  \/ \E batch \in SUBSET Requests, c \in Configs : Schedule(batch, c)
  \/ \E r \in Requests : LoseDrafts(r)
  \/ \E ok \in BOOLEAN : Observe(ok)

Spec == Init /\ [][Next]_vars

-----------------------------------------------------------------------------
(* Properties *)

\* The type of every variable; in particular the depth stays one the kit can
\* draft, as runtime_depth() asserts.
TypeOK ==
  /\ config \in Configs
  /\ k \in 1..MaxDepth /\ anchor \in 1..MaxDepth
  /\ probe_left \in 0..config.policy.probe_steps
  /\ settle \in 0..2
  /\ since_decision \in Nat
  /\ since_probe \in 0..config.policy.probe_interval
  /\ signature \in SUBSET Requests
  /\ previous \in Step \cup {None}
  /\ drafts \in [Requests -> 0..MaxDepth]
  /\ pipeline \in Seq(Step) /\ Len(pipeline) <= Depth

\* The step just taken records a measurement.
Records ==
  /\ Len(pipeline') < Len(pipeline) /\ Watches /\ ~Unsettled(pipeline[1]) /\ settle = 0
  /\ <<k, probe_left, since_decision, since_probe>>'
       # <<k, probe_left, since_decision, since_probe>>

\* A time is only charged to a depth if the steps at both ends of the interval ran
\* the very batch being measured, verified that many drafts and drafted as many:
\* no step of an older batch or depth still in flight is ever mistaken for one.
MeasurementsAttributed ==
  [][Records =>
       \A step \in {previous, pipeline[1]} :
         step.ids = signature /\ step.depths = {k} /\ step.drafted = k]_vars

\* A depth the operator fixed is the one drafted with, whatever outputs of steps
\* scheduled in adaptive mode still come back.
FixedHolds == config.mode = "fixed" => k = config.fixed /\ probe_left = 0

\* Probes never chain: a probe starts only at an ordinary decision, a full interval
\* of measurements after the one before.
ProbesAreSpaced ==
  [][probe_left' > probe_left =>
       probe_left = 0 /\ since_decision + 1 >= config.policy.interval]_vars

\* While one batch keeps being measured the controller is never locked in at a
\* depth whose tail it does not look at again.
NeverLockedIn ==
  ([]<><<Records>>_vars /\ <>[][~(NeedsReset(signature', config'))]_vars) =>
    \A d \in 1..(MaxDepth - 1) : []<>(k # d \/ probe_left > 0)
=============================================================================
