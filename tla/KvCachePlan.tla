----------------------------- MODULE KvCachePlan -----------------------------
(***************************************************************************)
(* How the KV cache is laid out at start-up (overlays/v1/core/             *)
(* kv_cache_utils.py): the layers of all workers are put into groups that  *)
(* share a block table, the memory left on every worker is cut into        *)
(* blocks, the longest context that fits is chosen, and every layer is     *)
(* given its place in the block.                                           *)
(*                                                                         *)
(* Layers are numbered in registration order, so that a Python dict from   *)
(* layer names to specs is a function and its order that of its domain.    *)
(* A spec is a record                                                      *)
(*   kind   "full" | "mla" | "sw" (sliding window) | "mamba" | "tail"      *)
(*          (the tail of an indexer's pooled keys)                         *)
(*   bs     tokens per block                                               *)
(*   unit   bytes per token, or of the whole state of a mamba layer        *)
(*   pad    page_size_padded, 0 for None                                   *)
(*   win    sliding window, 0 for none      extra  extra_retained_tokens   *)
(*   align  block_stride_alignment, 0 for none                             *)
(*   tps    tokens_per_state, more than 1 for the indexer of an MLA layer  *)
(* A group is [layers, of, eagle]: its layers in order, the specs of the   *)
(* layers it was made from, and whether it holds the drafter's layers.     *)
(*                                                                         *)
(* A function that may raise is the set of what it returns: {} when it     *)
(* raises, a singleton otherwise.                                          *)
(***************************************************************************)
EXTENDS Integers, Sequences, FiniteSets, SequencesExt

CeilDiv(a, b) == (a + b - 1) \div b
RoundUp(a, b) == CeilDiv(a, b) * b
Larger(a, b) == IF a >= b THEN a ELSE b

\* The members of S in the order of a relation that is total on S.
Sorted(S, before) ==
    [i \in 1..Cardinality(S) |->
        CHOOSE x \in S : Cardinality({y \in S : <<y, x>> \in before}) = i - 1]
InOrder(S) == Sorted(S, {p \in S \X S : p[1] < p[2]})

\* The elements of s that are in S, in order.
Kept(s, S) ==
    LET at == InOrder({i \in DOMAIN s : s[i] \in S}) IN [k \in DOMAIN at |-> s[at[k]]]

SpecsOf(spec, S) == {spec[l] : l \in S}

KvSpec ==
    {s \in [kind : {"full", "mla", "sw", "mamba", "tail"}, bs : Nat \ {0}, unit : Nat \ {0},
            pad : Nat, win : Nat, extra : Nat, align : Nat, tps : Nat \ {0}] :
       s.kind = "sw" => s.win # 0}

-----------------------------------------------------------------------------
(* The specs.                                                              *)

Attention == {"full", "mla"}        \* FullAttentionSpec and its subclass

\* page_size_bytes: what one block of one layer takes.
Page(s) == IF s.pad # 0 THEN s.pad
           ELSE IF s.kind = "mamba" THEN s.unit ELSE s.bs * s.unit

PageSizes(spec) == {Page(s) : s \in Range(spec)}

\* max_memory_usage_bytes, in pages: the blocks a request of `len` tokens
\* holds at most.  A window keeps what one more step may need; a recurrent
\* layer keeps the states of the last token and of the drafts, a tail one block.
PagesOf(s, len, cfg) ==
    CASE s.kind = "mamba" -> cfg.states
      [] s.kind = "tail" -> 1
      [] s.kind = "sw" ->
            CeilDiv(Min({s.win - 1 + s.extra + cfg.batched, len}), s.bs) + 1
      [] OTHER -> CeilDiv(len, s.bs)

\* merge(): specs that can be one, which differ in the window of a full
\* attention layer at most.
Mergeable(S) ==
    \A s, t \in S :
        \/ s = t
        \/ /\ s.kind = "full" /\ t = [s EXCEPT !.win = t.win]
           /\ s.win = 0 \/ t.win = 0

Merged(S) == CHOOSE s \in S : \A t \in S : t.win # 0 => s.win = t.win

\* is_uniform_type(): layers that need the same number of token slots.
UniformType(S) ==
    \A s, t \in S :
        /\ s.bs = t.bs
        /\ \/ {s.kind, t.kind} \subseteq Attention
           \/ s.kind = "sw" /\ t.kind = "sw" /\ s.win = t.win
           \/ s.kind = t.kind /\ s.kind \in {"mamba", "tail"}

-----------------------------------------------------------------------------
(* Groups.                                                                 *)

\* Every layer goes to the first bucket whose specs merge with its own (or are of
\* its type), or opens one.
Alike(S, merged) == IF merged THEN Mergeable(S) ELSE UniformType(S)
Buckets(spec, merged) ==
    LET Put(buckets, l) ==
          LET ok == {i \in DOMAIN buckets : Alike(SpecsOf(spec, buckets[i] \cup {l}), merged)}
          IN  IF ok = {} THEN Append(buckets, {l})
                         ELSE [buckets EXCEPT ![Min(ok)] = @ \cup {l}]
    IN  FoldLeft(Put, <<>>, InOrder(DOMAIN spec))

\* s[i::n], from the i-th on every n-th.
Stride_Even(s, i, n) == [k \in 1..Larger(1, Len(s) \div n) |-> s[i + (k - 1) * n]]
Stride(s, i, n) == [k \in 1..CeilDiv(Len(s) + 1 - i, n) |-> s[i + (k - 1) * n]]

Group(layers, of) == [layers |-> layers, of |-> of, eagle |-> FALSE]

\* UniformTypeKVCacheSpecs: each layer keeps its own spec.
TypeGroup(spec, layers) == Group(layers, Restrict(spec, ToSet(layers)))

\* create_kv_cache_group_specs: the layers share one merged spec.
MergedGroup(spec, layers) ==
    Group(layers, [l \in ToSet(layers) |-> Merged(SpecsOf(spec, ToSet(layers)))])

\* unify_kv_cache_spec_page_size: smaller pages take more tokens, or are padded.
Unified(s, page) ==
    IF Page(s) = page THEN s
    ELSE IF s.kind # "mamba" /\ page % Page(s) = 0
         THEN [s EXCEPT !.bs = @ * (page \div Page(s))]
         ELSE [s EXCEPT !.pad = page]

\* NotImplementedError: rows of MLA can be neither padded nor multiplied.
Unsupported(s, page) == s.kind = "mla" /\ page % Page(s) # 0

\* The layers it stops at: an unsupported one, or one whose padded page cannot
\* grow (the assertion on the new page).
Stops(spec) ==
    LET page == Max(PageSizes(spec))
    IN  {l \in DOMAIN spec : Unsupported(spec[l], page) \/ Page(Unified(spec[l], page)) # page}

unify_kv_cache_spec_page_size(spec) ==
    [l \in DOMAIN spec |-> Unified(spec[l], Max(PageSizes(spec)))]

\* _get_kv_cache_groups_uniform_page_size: groups of the same number of
\* layers, the smallest bucket's unless the largest is within half of it.
SameClassFirst(spec, bucket) ==
    LET first(l) == Min({m \in bucket : spec[m] = spec[l]})
    IN  Sorted(bucket, {p \in bucket \X bucket :
                          \/ first(p[1]) < first(p[2])
                          \/ first(p[1]) = first(p[2]) /\ p[1] < p[2]})

UniformPageGroups(spec) ==
    LET buckets == Buckets(spec, TRUE)
        sizes == {Cardinality(b) : b \in Range(buckets)}
        size == IF 2 * Max(sizes) < 3 * Min(sizes) THEN Max(sizes) ELSE Min(sizes)
        split(b) ==
            LET n == CeilDiv(Cardinality(b), size)
            IN  [i \in 1..n |-> MergedGroup(spec, Stride(SameClassFirst(spec, b), i, n))]
    IN  FlattenSeq([i \in DOMAIN buckets |-> split(buckets[i])])

-----------------------------------------------------------------------------
(* Groups of mixed pages, packed side by side in the block.                *)

OfPage(spec, b, p) == {l \in b : Page(spec[l]) = p}
PagesIn(spec, b) == {Page(s) : s \in SpecsOf(spec, b)}
\* get_max_layers_per_page_size
Repeats(spec, b) == Max({Cardinality(OfPage(spec, b, p)) : p \in PagesIn(spec, b)})
Balanced(spec, b) ==
    \A p, q \in PagesIn(spec, b) :
        Cardinality(OfPage(spec, b, p)) = Cardinality(OfPage(spec, b, q))

\* _approximate_gcd: the chunk that wastes least when every value is rounded up
\* to it; the larger of two that waste the same.
ApproximateGcd(values, lower) ==
    LET pad(d) == SumFunction([i \in DOMAIN values |-> RoundUp(values[i], d) - values[i]])
        range == lower..Larger(lower, Max(Range(values)))
    IN  CHOOSE d \in range :
            \A e \in range : pad(d) < pad(e) \/ (pad(d) = pad(e) /\ d >= e)

\* widest_group_bytes
Widest(spec, b, n) ==
    SumFunction([p \in PagesIn(spec, b) |-> CeilDiv(Cardinality(OfPage(spec, b, p)), n) * p])

\* The n groups of a bucket: the i-th takes every n-th repeat of one layer of
\* each page size.
Repeated(spec, b, n) ==
    LET first(p) == Min(OfPage(spec, b, p))
        pages == Sorted(PagesIn(spec, b), {r \in PagesIn(spec, b) \X PagesIn(spec, b) :
                                             first(r[1]) < first(r[2])})
        column(i) == InOrder(OfPage(spec, b, pages[i]))
        rows == Min({Len(column(i)) : i \in DOMAIN pages})
        repeat == [k \in 1..rows |-> [i \in DOMAIN pages |-> column(i)[k]]]
    IN  [i \in 1..n |-> TypeGroup(spec, FlattenSeq(Stride(repeat, i, n)))]

\* A bucket, whole or dealt out to n groups.
Dealt(spec, b, n) ==
    IF n = 1 THEN <<TypeGroup(spec, InOrder(b))>> ELSE Repeated(spec, b, n)

\* The buckets in groups of `repeats` rows if one that mixes pages sets a floor, and of
\* no more states than fit a block that is wide enough for the rest.
Packed(spec, buckets, floor, repeats) ==
    LET pattern(b) == IF floor > 0 /\ Balanced(spec, b)
                      THEN CeilDiv(Repeats(spec, b), repeats) ELSE 1
        kind(b) == spec[Min(b)].kind
        isState(b) == kind(b) = "mamba" \/ (floor = 0 /\ kind(b) = "sw")
        anchor == Max({Widest(spec, b, IF isState(b) THEN Cardinality(b) ELSE pattern(b)) :
                          b \in Range(buckets)})
        perBlock(b) == Larger(anchor \div Page(spec[Min(b)]), 1)
        count(b) == IF isState(b)
                    THEN Larger(pattern(b), CeilDiv(Cardinality(b), perBlock(b)))
                    ELSE pattern(b)
    IN  FlattenSeq([i \in DOMAIN buckets |-> Dealt(spec, buckets[i], count(buckets[i]))])

PackedGroups(spec) ==
    LET buckets == Buckets(spec, FALSE)
        even == {i \in DOMAIN buckets : Balanced(spec, buckets[i])}
        mixed == {i \in even : Cardinality(PagesIn(spec, buckets[i])) > 1}
        floor == Max({0} \cup {Repeats(spec, buckets[i]) : i \in mixed})
        repeats == ApproximateGcd([i \in even |-> Repeats(spec, buckets[i])], floor)
    IN  Packed(spec, buckets, floor, repeats)

-----------------------------------------------------------------------------
(* Recurrent layers next to MLA layers with indexers (GLM-5.3): recurrent   *)
(* layers use the pages of MLA layers, tails those of indexers.            *)

OfKind(spec, kind) == {l \in DOMAIN spec : spec[l].kind = kind}
Mlas(spec) == {l \in OfKind(spec, "mla") : spec[l].tps = 1}
Indexers(spec) == {l \in OfKind(spec, "mla") : spec[l].tps > 1}

IsGlm5(spec) ==
    /\ OfKind(spec, "mamba") # {} /\ Indexers(spec) # {}
    /\ \A s \in Range(spec) : s.kind \in {"mamba", "mla", "tail"}

\* _pp_balanced_mamba_group_count: enough groups that in no stage one has more
\* layers than the stage has MLA layers.
MambaGroupCount(spec, stages) ==
    LET mambas(S) == S \cap OfKind(spec, "mamba")
        mlas(S) == S \cap Mlas(spec)
        some == {S \in stages \cup {DOMAIN spec} : mambas(S) # {}}
    IN  IF \A S \in some : mlas(S) # {}
        THEN {Max({CeilDiv(Cardinality(mambas(S)), Cardinality(mlas(S))) : S \in some})}
        ELSE {}

Glm5Groups(spec, stages) ==
    LET attention == OfKind(spec, "mla")
        mambas == OfKind(spec, "mamba")
        tails == OfKind(spec, "tail")
        padded(S, T) == [l \in S |-> [spec[l] EXCEPT !.pad = Max(PagesIn(spec, T))]]
        ok == /\ \A l \in attention : spec[l].pad = 0
              /\ \A S \in {Mlas(spec), Indexers(spec)} : Cardinality(PagesIn(spec, S)) = 1
              /\ UniformType(SpecsOf(spec, attention)) /\ UniformType(SpecsOf(spec, tails))
              /\ Cardinality(SpecsOf(spec, mambas)) = 1
              /\ \A l \in mambas : spec[l].unit <= Max(PagesIn(spec, Mlas(spec)))
        tailGroups == IF tails = {} THEN <<>>
                      ELSE <<TypeGroup(padded(tails, Indexers(spec)), InOrder(tails))>>
        mambaGroups(n) ==
            [i \in 1..n |-> MergedGroup(padded(mambas, Mlas(spec)), Stride(InOrder(mambas), i, n))]
    IN  IF ok THEN {<<TypeGroup(spec, InOrder(attention))>> \o tailGroups \o mambaGroups(n) :
                        n \in MambaGroupCount(spec, stages)}
        ELSE {}

-----------------------------------------------------------------------------
(* Falling back to full attention, and the drafter's groups.               *)

\* _promote_local_kv_cache_specs: a window is allocated like full attention.
promote(spec) ==
    LET S == Range(spec)
        full == {s.bs : s \in {t \in S : t.kind \in Attention}}
        bs(s) == IF Cardinality(full) = 1 THEN Max(full) ELSE s.bs
        promoted(s) ==
            [s EXCEPT !.kind = "full", !.extra = 0, !.bs = bs(s),
                      !.pad = IF @ = 0 THEN 0 ELSE Larger(@, s.unit * bs(s))]
        new == IF Mergeable(S) \/ UniformType(S) \/ full = {} THEN spec
               ELSE [l \in DOMAIN spec |-> IF spec[l].kind = "sw" THEN promoted(spec[l])
                                           ELSE spec[l]]
    IN  IF Mergeable(Range(new)) \/ UniformType(Range(new)) THEN {new} ELSE {}

\* _try_get_full_allocation_fallback_groups
Fallback(spec) ==
    IF {"mla", "sw"} \subseteq {s.kind : s \in Range(spec)}
    THEN {<<TypeGroup(new, InOrder(DOMAIN new))>> :
              new \in {p \in promote(spec) : UniformType(Range(p))}}
    ELSE {}

Partitions(groups, spec) ==
    /\ \A l \in DOMAIN spec : \E g \in Range(groups) : l \in ToSet(g.layers)
    /\ SumFunction([i \in DOMAIN groups |-> Len(groups[i].layers)]) = Cardinality(DOMAIN spec)

\* _annotate_eagle_groups: the draft layers of MTP register last.
Annotate(cfg, spec, groups) ==
    IF cfg.mtp /\ Partitions(groups, spec)
    THEN [i \in DOMAIN groups |->
            [groups[i] EXCEPT !.eagle = Max(DOMAIN spec) \in ToSet(groups[i].layers)]]
    ELSE groups

\* The layers of each pipeline stage, `stages`, only matter to GLM-5.3.
get_kv_cache_groups(cfg, stages, given) ==
    LET groups(spec) ==
          IF DOMAIN spec = {} THEN {<<>>}
          ELSE IF Mergeable(Range(spec)) THEN {<<MergedGroup(spec, InOrder(DOMAIN spec))>>}
          ELSE IF UniformType(Range(spec)) THEN {<<TypeGroup(spec, InOrder(DOMAIN spec))>>}
          ELSE IF IsGlm5(spec) THEN Glm5Groups(spec, stages)
          ELSE IF cfg.layout = "block" /\ Cardinality(PageSizes(spec)) > 1
               THEN {Annotate(cfg, spec, PackedGroups(spec))}
          ELSE IF Stops(spec) = {}
               THEN {Annotate(cfg, spec, UniformPageGroups(unify_kv_cache_spec_page_size(spec)))}
          ELSE IF Unsupported(spec[Min(Stops(spec))], Max(PageSizes(spec)))
               THEN Fallback(spec) ELSE {}
    IN  UNION {groups(spec) : spec \in IF cfg.hybrid THEN {given} ELSE promote(given)}

-----------------------------------------------------------------------------
(* One worker: its share of the groups, its blocks, and its tensors.       *)

\* _project_kv_cache_groups_to_worker
Project(groups, own) ==
    [i \in DOMAIN groups |->
        LET g == groups[i]
            layers == Kept(g.layers, own)
        IN  [layers |-> layers,
             of |-> IF layers = <<>> THEN g.of ELSE Restrict(g.of, ToSet(layers)),
             eagle |-> g.eagle /\ layers # <<>>]]

PageOf(g, l) == Page(g.of[l])
GroupBytes(g) == SumFunction([i \in DOMAIN g.layers |-> PageOf(g, g.layers[i])])

Lcm(S) == CHOOSE m \in 1..ProductSet(S) :
             /\ \A a \in S : m % a = 0
             /\ \A k \in 1..(m - 1) : \E a \in S : k % a # 0

BytesPerBlock_FirstGroup(groups) == GroupBytes(groups[1])

\* _glm5_next_tensor_layout: whether the groups of a worker still have the form of
\* Glm5Groups.  attn, mambas and tails are the numbers of its groups, mla and idx
\* the layers of attn.
Glm5Holds(groups, p) ==
    LET attn == groups[p.attn]
        pages(seq) == {PageOf(attn, l) : l \in ToSet(seq)}
        sizes(i) == {s.bs * s.unit : s \in Range(groups[i].of)}     \* unpadded
    IN  /\ p.mambas # {} /\ DOMAIN groups = {p.attn} \cup p.mambas \cup p.tails
        /\ \A s \in Range(attn.of) : s.pad = 0
        /\ Cardinality(pages(p.mla)) = 1 /\ Cardinality(pages(p.idx)) = 1
        /\ \A i \in p.mambas : {Page(s) : s \in Range(groups[i].of)} = pages(p.mla)
        /\ \A i \in p.tails :
              /\ Cardinality(sizes(i)) = 1 /\ Len(groups[i].layers) = Len(p.idx)
              /\ Max(sizes(i)) <= Max(pages(p.idx))

Glm5Layout(groups) ==
    LET of(kind) == {i \in DOMAIN groups : {s.kind : s \in Range(groups[i].of)} = {kind}}
        rows(g, S) == Kept(g.layers, {l \in DOMAIN g.of : g.of[l].tps \in S})
        parts(attn) ==
            [attn |-> attn, mambas |-> of("mamba"), tails |-> of("tail"),
             mla |-> rows(groups[attn], {1}), idx |-> rows(groups[attn], Nat \ {0, 1})]
    IN  IF Cardinality(of("mla")) = 1
        THEN {p \in {parts(attn) : attn \in of("mla")} : Glm5Holds(groups, p)}
        ELSE {}

\* _get_kv_cache_bytes_per_block: the widest group, rounded up to what the
\* kernels ask of the distance between blocks; 0 is the failed assertion.
BytesPerBlock(groups) ==
    LET specs == UNION {SpecsOf(g.of, ToSet(g.layers)) : g \in Range(groups)}
        aligns == {s.align : s \in specs} \ {0}
        widest == Max({GroupBytes(g) : g \in Range(groups)})
        glm5 == Glm5Layout(groups)
    IN  IF glm5 # {} THEN Max({GroupBytes(groups[g.attn]) : g \in glm5})
        ELSE IF aligns = {} THEN widest ELSE RoundUp(widest, Lcm(aligns))

\* _max_memory_usage_bytes_from_groups, in blocks: every group claims its own.
BlocksPerRequest(groups, len, cfg) ==
    SumFunction([i \in DOMAIN groups |-> Max({PagesOf(s, len, cfg) : s \in Range(groups[i].of)})])

Fits(groups, len, cfg, memory) ==
    BytesPerBlock(groups) * BlocksPerRequest(groups, len, cfg) <= memory

\* _estimate_max_model_len_from_groups: binary search, 0 when nothing fits.
EstimateLen_StopsEarly(groups, cfg, memory) ==
    LET search[s \in [left : 1..(cfg.len + 1), right : 0..cfg.len, result : 0..cfg.len]] ==
          LET mid == (s.left + s.right) \div 2
          IN  IF s.left >= s.right THEN s.result
              ELSE IF Fits(groups, mid, cfg, memory)
                   THEN search[[s EXCEPT !.left = mid + 1, !.result = mid]]
                   ELSE search[[s EXCEPT !.right = mid - 1]]
    IN  IF Fits(groups, 1, cfg, memory)
        THEN search[[left |-> 1, right |-> cfg.len, result |-> 1]] ELSE 0

EstimateLen(groups, cfg, memory) ==
    LET search[s \in [left : 1..(cfg.len + 1), right : 0..cfg.len, result : 0..cfg.len]] ==
          LET mid == (s.left + s.right) \div 2
          IN  IF s.left > s.right THEN s.result
              ELSE IF Fits(groups, mid, cfg, memory)
                   THEN search[[s EXCEPT !.left = mid + 1, !.result = mid]]
                   ELSE search[[s EXCEPT !.right = mid - 1]]
    IN  IF Fits(groups, 1, cfg, memory)
        THEN search[[left |-> 1, right |-> cfg.len, result |-> 1]] ELSE 0

\* validate_kv_cache_layout: mixed pages need the layers inside the block when
\* several groups share it.
Expressible(layout, groups) ==
    \/ Glm5Layout(groups) # {}        \* which does not ask
    \/ Cardinality(UNION {{PageOf(g, l) : l \in ToSet(g.layers)} : g \in Range(groups)}) = 1
    \/ layout = "block" \/ Len(groups) = 1

\* Every layer is a tensor of its own, MLA layers before indexers.  The k-th layer of a
\* recurrent group lies where the k-th MLA layer does, the k-th tail where the k-th
\* indexer does.
Glm5Tensors(glm5, groups, num) ==
    LET page(i, l) == PageOf(groups[i], l)
        behind == SumFunction([l \in ToSet(glm5.mla) |-> page(glm5.attn, l) * num])
        place(i, layers, base, n) ==
            {[group |-> i, layers |-> <<layers[k]>>, page |-> page(i, layers[k]),
              layer_stride |-> page(i, layers[k]) * num, block_stride |-> page(i, layers[k]),
              offset |-> base + (k - 1) * page(i, layers[k]) * num] : k \in 1..n}
    IN  place(glm5.attn, glm5.mla, 0, Len(glm5.mla))
        \cup place(glm5.attn, glm5.idx, behind, Len(glm5.idx))
        \cup (UNION {place(i, groups[i].layers, 0, Min({Len(groups[i].layers), Len(glm5.mla)})) :
                         i \in glm5.mambas})
        \cup (UNION {place(i, groups[i].layers, behind, Len(glm5.idx)) : i \in glm5.tails})

\* get_kv_cache_config_from_groups: the groups alias from byte 0.  Within a
\* group the layers of one spec are one tensor.
Tensors(layout, groups, num) ==
    LET block == BytesPerBlock(groups)
        stride(s) == IF layout = "block" THEN Page(s) ELSE Page(s) * num
        specs(g) == SpecsOf(g.of, ToSet(g.layers))
        of(g, s) == Kept(g.layers, {l \in DOMAIN g.of : g.of[l] = s})
        first(g, s) == Min({i \in DOMAIN g.layers : g.of[g.layers[i]] = s})
        before(g, s) == SumFunction([t \in {u \in specs(g) : first(g, u) < first(g, s)} |->
                                        Len(of(g, t)) * Page(t)])
        tensor(i, s) ==
            [group |-> i, layers |-> of(groups[i], s), page |-> Page(s),
             layer_stride |-> stride(s),
             block_stride |-> IF layout = "block" THEN block ELSE Page(s),
             offset |-> (before(groups[i], s) * Larger(stride(s), Page(s))) \div Page(s)]
        glm5 == Glm5Layout(groups)
    IN  IF glm5 # {} THEN UNION {Glm5Tensors(g, groups, num) : g \in glm5}
        ELSE UNION {{tensor(i, s) : s \in specs(groups[i])} : i \in DOMAIN groups}

\* The first byte of block b (from 0) of the k-th layer of a tensor.
Byte(t, k, b) == t.offset + (k - 1) * t.layer_stride + b * t.block_stride

-----------------------------------------------------------------------------
(* All workers.                                                            *)

\* determine_available_memory (worker/gpu_worker.py)
Available(w) ==
    IF w.fixed # 0 THEN w.fixed
    ELSE w.requested - w.non_kv - (IF w.estimate THEN w.graphs ELSE 0)

\* The specs of all workers; windows keep what the drafter may look ahead.
MergedSpecs(cfg, workers) ==
    LET all == UNION {DOMAIN workers[w].spec : w \in DOMAIN workers}
        spec(l) == workers[CHOOSE w \in DOMAIN workers : l \in DOMAIN workers[w].spec].spec[l]
    IN  [l \in all |-> IF spec(l).kind = "sw"
                       THEN [spec(l) EXCEPT !.extra = Larger(0, cfg.lookahead - 1)]
                       ELSE spec(l)]

\* What the checks plan against: BlockPool holds the null block back.
Usable_All(memory, block) == memory
Usable(memory, block) == memory - block

\* _auto_fit_max_model_len: what fits on every worker.
AutoFitLen(own, cfg, check) == Min({EstimateLen(own[w], cfg, check[w]) : w \in DOMAIN own})

\* _check_enough_kv_cache_memory
Enough(groups, len, cfg, memory) == memory > 0 /\ Fits(groups, len, cfg, memory)

\* get_kv_cache_configs, for one grouping of the layers.
PlanOf(cfg, workers, groups) ==
    LET W == DOMAIN workers
        own == [w \in W |-> Project(groups, DOMAIN workers[w].spec)]
        bytes == [w \in W |-> BytesPerBlock(own[w])]
        memory == [w \in W |-> IF cfg.override # 0 THEN cfg.override * bytes[w]
                                                   ELSE Available(workers[w])]
        check == [w \in W |-> Usable(memory[w], bytes[w])]
        len == IF cfg.autofit THEN AutoFitLen(own, cfg, check) ELSE cfg.len
        num == [w \in W |-> memory[w] \div bytes[w]]
        ok == /\ \A w \in W : bytes[w] > 0
              /\ len > 0
              /\ \A w \in W : Enough(own[w], len, cfg, check[w])
              /\ \A w \in W : Partitions(own[w], workers[w].spec)
              /\ \A w \in W : Expressible(cfg.layout, own[w])
    IN  IF groups = <<>> THEN {[groups |-> own, len |-> cfg.len, num |-> 1]}
        ELSE IF ok THEN {[groups |-> own, len |-> len, num |-> Min(Range(num))]}
        ELSE {}

Stages(workers) == {DOMAIN workers[w].spec : w \in DOMAIN workers}

get_kv_cache_configs(cfg, workers) ==
    UNION {PlanOf(cfg, workers, groups) :
              groups \in get_kv_cache_groups(cfg, Stages(workers), MergedSpecs(cfg, workers))}

\* generate_scheduler_kv_cache_config: that of the first worker, each group
\* reduced to one spec.
SchedulerGroups(plan) ==
    [i \in DOMAIN plan.groups[1] |->
        LET g == plan.groups[1][i]
        IN  [spec |-> g.of[Min(DOMAIN g.of)], eagle |-> g.eagle]]

Gcd(S) == CHOOSE d \in 1..Min(S) :
             /\ \A a \in S : a % d = 0
             /\ \A k \in (d + 1)..Min(S) : \E a \in S : a % k # 0

\* resolve_kv_cache_block_sizes: the tokens the scheduler aligns to, and those of
\* one block hash, which a user may set.  Where a prefix hit may end has to be the
\* end of a compressed state.
BlockSizes(groups, cfg) ==
    LET specs == {groups[i].spec : i \in DOMAIN groups}
        cacheable == {s \in specs : s.kind # "tail"}
        sizes(S) == {s.bs : s \in S}
        coarse == [scheduler |-> Lcm(sizes(specs)), hash |-> Lcm(sizes(specs))]
        hashing == sizes(IF cacheable = {} THEN specs ELSE cacheable)
        unit == IF cfg.match_unit # 0 THEN cfg.match_unit ELSE Gcd(hashing)
        states == {s \in specs : s.kind = "mamba"}
        hit == IF \E s \in states : s.bs > unit THEN unit ELSE coarse.scheduler
    IN  IF Len(groups) <= 1 THEN {[scheduler |-> cfg.block, hash |-> cfg.block]}
        ELSE IF ~cfg.caching \/ (states # {} /\ ~cfg.align_states) THEN {coarse}
        ELSE IF \/ \E n \in hashing : n % unit # 0
                \/ \E s \in cacheable : hit % s.tps # 0 THEN {}
        ELSE {[coarse EXCEPT !.hash = unit]}
=============================================================================
