------------------------------- MODULE KvCache -------------------------------
(***************************************************************************)
(* The KV cache of an engine: the start-up plan (KvCachePlan) and, once    *)
(* the cache exists, the queue of its free blocks (FreeBlockQueue).        *)
(***************************************************************************)
EXTENDS FreeBlockQueue, KvCachePlan

\* What an engine may be started with: [cfg, workers], where cfg holds
\* len, autofit, batched, states, layout, hybrid, override, mtp, lookahead, block,
\* caching, align_states, match_unit, and a worker [spec, requested, non_kv, graphs, estimate, fixed].
CONSTANT Inputs

CfgTyped(c) ==
    /\ c.len \in Nat \ {0}
    /\ \A n \in {c.batched, c.states, c.override, c.lookahead} : n \in Nat

WorkerTyped(w) ==
    /\ w.spec \in [DOMAIN w.spec -> KvSpec]
    /\ DOMAIN w.spec \in SUBSET Nat /\ IsFiniteSet(DOMAIN w.spec)
    /\ \A n \in {w.requested, w.non_kv, w.graphs} : n \in Int
    /\ w.fixed \in Nat

\* A bucket of state layers that are packed has as many of each page as the groups it is
\* dealt out to: the zip of its columns would drop the rest.
EvenStates(spec) ==
    \A b \in Range(Buckets(spec, FALSE)) :
        /\ spec[Min(b)].kind = "mamba" => Cardinality(PagesIn(spec, b)) = 1
        /\ spec[Min(b)].kind = "sw" => Balanced(spec, b)

Evenly(c, spec) ==
    c.hybrid /\ c.layout = "block" /\ ~Mergeable(Range(spec)) /\ ~UniformType(Range(spec)) =>
        EvenStates(spec)

\* Attention layers have the block size of the cache configuration, and so has every
\* layer of a model without them whose states are aligned to blocks.
EngineBlock(c, spec) ==
    \A s \in Range(spec) :
        s.kind \in Attention \/ (\A t \in Range(spec) : t.kind \notin Attention) => s.bs = c.block

\* A pipeline stage has consecutive layers, and of the models with recurrent layers only
\* GLM-5 ones have indexers.
Consecutive(S, D) == \A a, b \in S \cap D : \A l \in D : a <= l /\ l <= b => l \in S

StagedGlm5(spec, stages) ==
    OfKind(spec, "mamba") # {} /\ Indexers(spec) # {} =>
        IsGlm5(spec) /\ \A S \in stages : Consecutive(S, DOMAIN spec)

ASSUME InputsAssumption ==
    \A in \in Inputs :
        /\ CfgTyped(in.cfg)
        /\ IsFiniteSet(DOMAIN in.workers) /\ 1 \in DOMAIN in.workers
        /\ \A w \in DOMAIN in.workers : WorkerTyped(in.workers[w])
        /\ Evenly(in.cfg, MergedSpecs(in.cfg, in.workers))
        /\ in.cfg.caching /\ in.cfg.align_states =>
              EngineBlock(in.cfg, MergedSpecs(in.cfg, in.workers))
        /\ in.cfg.mtp => ~IsGlm5(MergedSpecs(in.cfg, in.workers))
        /\ StagedGlm5(MergedSpecs(in.cfg, in.workers), Stages(in.workers))

VARIABLE plan   \* <<>>, then [input, groups, len, num]; num = 0 if it raised

cacheVars == <<next, prev, num, plan>>

CacheInit == Init /\ plan = <<>>

Refused == [groups |-> <<>>, len |-> 0, num |-> 0]

Start ==
    /\ plan = <<>>
    /\ \E in \in Inputs :
          LET made == {p \in get_kv_cache_configs(in.cfg, in.workers) :
                          BlockSizes(SchedulerGroups(p), in.cfg) # {}}
          IN  \E p \in IF made = {} THEN {Refused} ELSE made :
                plan' = [input |-> in, groups |-> p.groups, len |-> p.len, num |-> p.num]
    /\ UNCHANGED vars

\* The queue of N blocks is that of an engine whose plan has N blocks.
Serve ==
    /\ plan # <<>> /\ plan.num = N
    /\ Next
    /\ UNCHANGED plan

CacheNext == Start \/ Serve

CacheSpec == CacheInit /\ [][CacheNext]_cacheVars

-----------------------------------------------------------------------------
Made == plan # <<>> /\ plan.num # 0
cfg == plan.input.cfg
Workers == DOMAIN plan.input.workers

\* <<group, layer, block, first byte, first byte after>> of every page.
Pages(T, blocks) ==
    UNION {{<<t.group, t.layers[k], b, Byte(t, k, b), Byte(t, k, b) + t.page>> :
                k \in DOMAIN t.layers, b \in 0..(blocks - 1)} : t \in T}

\* Every layer of a worker has its page in every block.  Two blocks never share a
\* byte, whatever groups they serve, nor do two layers of a group, and all lie in an
\* allocation that keeps to the memory the worker measured, unless the number of
\* blocks is set by hand.
PagesDisjoint ==
    Made => \A w \in Workers :
        LET own == plan.groups[w]
            size == IF own = <<>> THEN 0 ELSE BytesPerBlock(own) * plan.num
            pages == IF own = <<>> THEN {}
                     ELSE Pages(Tensors(cfg.layout, own, plan.num), plan.num)
        IN  /\ {x[2] : x \in pages} = DOMAIN plan.input.workers[w].spec
            /\ \A x \in pages : 0 <= x[4] /\ x[5] <= size
            /\ \A x, y \in pages :
                  \/ x[3] = y[3] /\ (x[1] # y[1] \/ x[2] = y[2])
                  \/ x[5] <= y[4] \/ y[5] <= x[4]
            /\ cfg.override = 0 /\ own # <<>> => size <= Available(plan.input.workers[w])

\* The scheduler's one block table per group is right for every worker: the
\* groups take every layer exactly once (an engine that refuses to start has not
\* lost one), a group has the same tokens per block on every worker and in the
\* scheduler, which are a whole number of block hashes if it is hashed at all, and the scheduler knows
\* which group holds the draft layer, if the first worker has a layer of it.
GroupsAligned ==
    plan # <<>> =>
        LET spec == MergedSpecs(cfg, plan.input.workers)
        IN  /\ ~Made => \A groups \in
                            get_kv_cache_groups(cfg, Stages(plan.input.workers), spec) :
                        Partitions(groups, spec)
            /\ Made /\ cfg.caching /\ cfg.align_states =>
                  \A i \in DOMAIN SchedulerGroups(plan) :
                    \A size \in BlockSizes(SchedulerGroups(plan), cfg) :
                        /\ \/ SchedulerGroups(plan)[i].spec.kind = "tail"
                           \/ SchedulerGroups(plan)[i].spec.bs % size.hash = 0
                        /\ size.scheduler % SchedulerGroups(plan)[i].spec.bs = 0
            /\ Made => \A i \in DOMAIN SchedulerGroups(plan) :
                  LET group == SchedulerGroups(plan)[i]
                      layers(w) == ToSet(plan.groups[w][i].layers)
                  IN  /\ \A w \in Workers : \A l \in layers(w) :
                            plan.groups[w][i].of[l].bs = group.spec.bs
                      /\ cfg.mtp /\ Len(plan.groups[1]) > 1 /\ layers(1) # {} =>
                            (group.eagle <=> \E w \in Workers : Max(DOMAIN spec) \in layers(w))

\* Whatever the workers' memory, an engine that starts can hold one request of
\* the full context next to the null block, counted as the scheduler allocates.
ServesOneRequest ==
    Made =>
        LET groups == SchedulerGroups(plan)
        IN  SumFunction([i \in DOMAIN groups |-> PagesOf(groups[i].spec, plan.len, cfg)])
                < plan.num

\* The context length found by the binary search is the longest that fits.
LongestFit ==
    Made /\ cfg.autofit =>
        \A len \in (plan.len + 1)..cfg.len :
            \E w \in Workers : BlocksPerRequest(plan.groups[w], len, cfg) >= plan.num
=============================================================================
