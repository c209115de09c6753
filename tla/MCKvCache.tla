------------------------------ MODULE MCKvCache ------------------------------
(* The engines of the TLC run of KvCache. *)
EXTENDS KvCache, TLC

Full(bs, unit) == [kind |-> "full", bs |-> bs, unit |-> unit, pad |-> 0,
                   win |-> 0, extra |-> 0, align |-> 0, tps |-> 1]
Windowed(bs, unit, win) == [Full(bs, unit) EXCEPT !.kind = "sw", !.win = win]
Mla(bs, unit, align) == [Full(bs, unit) EXCEPT !.kind = "mla", !.align = align]
Mamba(unit, pad) == [Full(2, unit) EXCEPT !.kind = "mamba", !.pad = pad]

Indexer(bs, unit, tps) == [Mla(bs, unit, 0) EXCEPT !.tps = tps]
KpoolTail(bs, unit) == [Full(bs, unit) EXCEPT !.kind = "tail"]

\* The layers of a model, in registration order.
Models ==
    {<<Full(2, 1), Full(2, 1), [Full(2, 1) EXCEPT !.win = 4]>>,            \* uniform
     <<Full(2, 1), Full(2, 2)>>,                                        \* uniform type
     <<Mamba(3, 4), Mamba(2, 4), Mamba(3, 4), Full(2, 2), Full(2, 2)>>, \* one state page
     <<Full(2, 1), Full(2, 1), Full(2, 1), Windowed(2, 1, 3), Windowed(2, 1, 3),
       Windowed(2, 1, 3), Windowed(2, 1, 3)>>,                          \* 3 and 4
     <<Full(2, 1), Windowed(2, 2, 3), Windowed(2, 2, 3)>>,              \* page doubled
     <<Full(2, 2), Windowed(1, 3, 3), Full(2, 2)>>,                     \* page padded
     <<Mla(2, 1, 0), Windowed(2, 2, 3), Windowed(1, 3, 2)>>,
     <<Mla(2, 1, 0), Windowed(1, 3, 2)>>,                               \* falls back
     <<Mla(2, 3, 4), Mla(2, 1, 4), Windowed(2, 2, 3), Windowed(2, 2, 3),
       Windowed(2, 2, 3)>>,                                             \* packed
     <<Mamba(3, 0), Mamba(3, 0), Mamba(3, 0), Full(2, 2), Full(2, 2)>>, \* packed
     <<>>}                                                              \* attention free

\* Recurrent layers, MLA layers, indexers and tails; in two stages the first has more
\* recurrent layers per MLA layer than the model, has no indexer, or no MLA layer.
Glm5Models ==
    LET M == Mamba(3, 0)
        A == Mla(2, 2, 0)
        I == Indexer(2, 1, 2)
        T == KpoolTail(1, 1)
    IN  {<<M, M, M, A, I, M, A, I, A, I>>, <<M, A, I, T, M, A, I, T>>,
         <<M, A, M, I, A>>, <<M, M, A, I>>}

Worker(spec, memory) ==
    [spec |-> spec, requested |-> memory + 5, non_kv |-> 3, graphs |-> 2,
     estimate |-> TRUE, fixed |-> 0]

\* One worker, two that share every layer, or two stages.
Clusters(model, m1, m2) ==
    {<<Worker(model, m1)>>,
     <<Worker(model, m1), Worker(model, m2)>>,
     <<Worker([l \in {k \in DOMAIN model : k <= Len(model) \div 2} |-> model[l]], m1),
       Worker([l \in {k \in DOMAIN model : k > Len(model) \div 2} |-> model[l]], m2)>>}

Configs ==
    {[len |-> len, autofit |-> autofit, batched |-> 2, states |-> 1, layout |-> layout,
      hybrid |-> hybrid, override |-> override, mtp |-> hybrid, lookahead |-> 2,
      block |-> 2, caching |-> override = 0, align_states |-> layout = "block",
      match_unit |-> IF autofit THEN 0 ELSE 2] :
        <<len, autofit, override>> \in {<<4, FALSE, 0>>, <<9, TRUE, 0>>, <<6, TRUE, 4>>},
        layout \in {"block", "layer"}, hybrid \in BOOLEAN}

\* The engine whose pool goes on running: five blocks, set by hand.
Served == [cfg |-> [CHOOSE c \in Configs : c.override # 0 EXCEPT !.override = 5],
           workers |-> <<Worker(<<Full(2, 1)>>, 28)>>]

Engines(models, configs, memories) ==
    UNION {{[cfg |-> c, workers |-> ws] :
                c \in configs, ws \in UNION {Clusters(model, m[1], m[2]) : m \in memories}} :
           model \in models}

MCInputs ==
    {Served} \cup Engines(Models, Configs, {<<28, 39>>, <<64, 49>>})
    \cup Engines(Glm5Models, {[c EXCEPT !.mtp = FALSE] : c \in {d \in Configs : d.hybrid}},
                 {<<64, 49>>, <<140, 175>>})
=============================================================================
