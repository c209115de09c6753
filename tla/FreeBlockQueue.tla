---------------------------- MODULE FreeBlockQueue ----------------------------
(***************************************************************************)
(* FreeKVCacheBlockQueue (overlays/v1/core/kv_cache_utils.py): the doubly  *)
(* linked list, threaded through the blocks themselves, that holds the     *)
(* free KV-cache blocks in eviction order between a fake head and a fake   *)
(* tail.                                                                   *)
(***************************************************************************)
EXTENDS Integers, Sequences, FiniteSets, Functions

CONSTANT N      \* blocks, numbered from 1 in list order

ASSUME NumBlocks == N \in Nat

Blocks == 1..N
Head0 == 0              \* fake_free_list_head
Tail0 == N + 1          \* fake_free_list_tail
Nodes == 0..(N + 1)
Nil == -1               \* Python's None

VARIABLES
    next,   \* next_free_block
    prev,   \* prev_free_block
    num     \* num_free_blocks

vars == <<next, prev, num>>

Init ==
    /\ next = [m \in Nodes |-> IF m = Tail0 THEN Nil ELSE m + 1]
    /\ prev = [m \in Nodes |-> m - 1]
    /\ num = N

\* remove() takes a block for free when it has both links.
Linked(b) == next[b] # Nil /\ prev[b] # Nil

\* Lists of distinct blocks that are in use: what callers free.
InUse == {b \in Blocks : ~Linked(b)}
Lists(free) == UNION {Injection(1..k, free) : k \in 1..N}

\* Take `out`, the nodes between two others, off the list.
Cut_KeepsLinks(before, out, after) ==
    /\ next' = [next EXCEPT ![before] = after]
    /\ prev' = [prev EXCEPT ![after] = before]

Cut(before, out, after) ==
    /\ next' = [m \in Nodes |-> IF m \in out THEN Nil
                                ELSE IF m = before THEN after ELSE next[m]]
    /\ prev' = [m \in Nodes |-> IF m \in out THEN Nil
                                ELSE IF m = after THEN before ELSE prev[m]]

\* Put the blocks bs, in order, between two adjacent nodes.
Join(before, bs, after) ==
    LET at(i) == IF i = 0 THEN before ELSE IF i > Len(bs) THEN after ELSE bs[i]
        pos(m) == CHOOSE i \in DOMAIN bs : bs[i] = m
    IN  /\ next' = [m \in Nodes |-> IF m = before THEN at(1)
                                    ELSE IF m \in Range(bs) THEN at(pos(m) + 1)
                                    ELSE next[m]]
        /\ prev' = [m \in Nodes |-> IF m = after THEN at(Len(bs))
                                    ELSE IF m \in Range(bs) THEN at(pos(m) - 1)
                                    ELSE prev[m]]

popleft ==
    /\ next[Head0] # Tail0
    /\ Cut(Head0, {next[Head0]}, next[next[Head0]])
    /\ num' = num - 1

\* The first n blocks, found by following the links.
Walks(n) ==
    {w \in [1..n -> Blocks] :
        w[1] = next[Head0] /\ \A i \in 1..(n - 1) : w[i + 1] = next[w[i]]}

popleft_n(n) ==
    /\ num >= n
    /\ num' = num - n
    /\ \E w \in Walks(n) : Cut(Head0, Range(w), next[w[n]])

remove(b) ==
    /\ Linked(b)
    /\ Cut(prev[b], {b}, next[b])
    /\ num' = num - 1

append(b) ==
    /\ Join(prev[Tail0], <<b>>, Tail0)
    /\ num' = num + 1

prepend_n_FromTheEnd(bs) ==
    /\ Join(Head0, [i \in DOMAIN bs |-> bs[Len(bs) + 1 - i]], next[Head0])
    /\ num' = num + Len(bs)

prepend_n(bs) ==
    /\ Join(Head0, bs, next[Head0])
    /\ num' = num + Len(bs)

append_n_CountsOne(bs) ==
    /\ Join(prev[Tail0], bs, Tail0)
    /\ num' = num + 1

append_n(bs) ==
    /\ Join(prev[Tail0], bs, Tail0)
    /\ num' = num + Len(bs)

Next ==
    \/ popleft
    \/ \E n \in Blocks : popleft_n(n)
    \/ \E b \in Blocks : remove(b)
    \/ \E b \in InUse : append(b)
    \/ \E bs \in Lists(InUse) : prepend_n(bs) \/ append_n(bs)

Spec == Init /\ [][Next]_vars

-----------------------------------------------------------------------------
\* get_all_free_blocks, and the rest of it from a block on (iter_blocks_after).
\* A path stays at the node it ends at: the blocks on it are its first ones.
path[i \in 0..(N + 1)] ==
    IF i = 0 THEN Head0
    ELSE LET p == path[i - 1] IN IF p \in {Nil, Tail0} THEN p ELSE next[p]

get_all_free_blocks == [i \in {k \in 1..N : path[k] \in Blocks} |-> path[i]]

\* Types, and the links mirror each other: the fake ends stay at the ends,
\* whoever follows a node is preceded by it, and a block is linked on both
\* sides or on neither.  remove() relies on the latter to tell a free block from
\* one in use (Cut and Join are the only writers of the links).
LinksMirror ==
    /\ next \in [Nodes -> Nodes \cup {Nil}]
    /\ prev \in [Nodes -> Nodes \cup {Nil}]
    /\ prev[Head0] = Nil /\ next[Tail0] = Nil
    /\ next[Head0] # Nil /\ prev[Tail0] # Nil
    /\ \A b \in Blocks : next[b] = Nil <=> prev[b] = Nil
    /\ \A m \in Nodes : next[m] # Nil => prev[next[m]] = m
    /\ \A m \in Nodes : prev[m] # Nil => next[prev[m]] = m

\* num_free_blocks is the number of blocks a walk from the head meets, which are
\* the linked ones: popleft's "out of sync" assertion never fires and the
\* scheduler's count of free blocks can be trusted.
CountExact ==
    /\ num = Len(get_all_free_blocks)
    /\ Range(get_all_free_blocks) = {b \in Blocks : Linked(b)}

Promise == INSTANCE FreeBlocks WITH queue <- get_all_free_blocks

\* The linked list is the sequence the cache was promised: it implements
\* FreeBlocks, each operation its own counterpart.
KeepsEvictionOrder ==
    /\ Promise!Spec
    /\ [][/\ popleft => Promise!Take(1)
          /\ \A n \in Blocks : popleft_n(n) => Promise!Take(n)
          /\ \A b \in Blocks : remove(b) => Promise!Claim(b)
          /\ \A b \in InUse : append(b) => Promise!Free(<<b>>)
          /\ \A bs \in Lists(InUse) :
                /\ prepend_n(bs) => Promise!GiveFirst(bs)
                /\ append_n(bs) => Promise!Free(bs)]_vars
=============================================================================
