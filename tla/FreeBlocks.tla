------------------------------ MODULE FreeBlocks ------------------------------
(***************************************************************************)
(* What the free-block queue of the KV cache promises: a sequence of       *)
(* distinct blocks in eviction order.  Blocks are taken from the front,    *)
(* any free block can be claimed out of the middle by a prefix hit, and    *)
(* freed blocks go to the back, or to the front to be reused first.        *)
(***************************************************************************)
EXTENDS Integers, Sequences, Functions

CONSTANT N      \* blocks, numbered from 1 (a natural number)

Blocks == 1..N

\* Lists of distinct blocks out of a set.
Lists(free) == UNION {Injection(1..k, free) : k \in 1..N}

VARIABLE queue

Init == queue = [i \in Blocks |-> i]

Take(n) ==
    n <= Len(queue) /\ queue' = SubSeq(queue, n + 1, Len(queue))

Claim(b) ==
    \E i \in DOMAIN queue :
        /\ queue[i] = b
        /\ queue' = SubSeq(queue, 1, i - 1) \o SubSeq(queue, i + 1, Len(queue))

Free(bs) == queue' = queue \o bs

GiveFirst(bs) == queue' = bs \o queue

Next ==
    \/ \E n \in Blocks : Take(n)
    \/ \E b \in Blocks : Claim(b)
    \/ \E bs \in Lists(Blocks \ Range(queue)) : Free(bs) \/ GiveFirst(bs)

Spec == Init /\ [][Next]_queue
=============================================================================
