------------------------- MODULE FreeBlockQueue_proofs -------------------------
(***************************************************************************)
(* For every number of blocks, the linked list of free blocks is the       *)
(* sequence the cache was promised.                                        *)
(*                                                                         *)
(* The inductive invariant is Threaded: the links thread, between the two  *)
(* fake ends, a sequence of distinct blocks, num_free_blocks is its        *)
(* length, and a block that is not on it has no link at all.  Every        *)
(* operation is a Cut or a Join.  A Cut takes a stretch of the sequence    *)
(* out (CutThreads), a Join puts blocks that are in use between two        *)
(* neighbours (JoinThreads); for popleft_n this needs that its walk from   *)
(* the head is along the sequence, shown at the first place where it would *)
(* not be.  get_all_free_blocks returns the sequence (FreeBlocksAre), so   *)
(* what an operation does to it is what FreeBlocks says.  LinksMirror says *)
(* too little for that: it also holds of a list with a ring of blocks      *)
(* beside it.                                                              *)
(***************************************************************************)
EXTENDS FreeBlockQueue, FiniteSetTheorems, SequenceTheorems,
        WellFoundedInduction, NaturalsInduction, TLAPS

\* A non-empty set of numbers has a least one.
LEMMA LeastNumber ==
    ASSUME NEW T \in SUBSET Nat, T # {}
    PROVE  \E x \in T : \A y \in T : x <= y
<1>1. PICK x \in T : \A y \in T : ~(<<y, x>> \in OpToRel(<, Nat))
  BY NatLessThanWellFounded, WFMin
<1>2. ASSUME NEW y \in T, y < x PROVE <<y, x>> \in OpToRel(<, Nat)
  <2>1. <<y, x>> \in Nat \X Nat /\ <<y, x>>[1] = y /\ <<y, x>>[2] = x
    OBVIOUS
  <2>. QED  BY <1>2, <2>1, Zenon DEF OpToRel
<1>3. ASSUME NEW y \in T PROVE x <= y
  <2>1. ~(y < x)
    BY <1>1, <1>2, Zenon
  <2>. QED  BY <2>1
<1>. QED  BY <1>3

-----------------------------------------------------------------------------
(* The list as a sequence *)

\* The node at a place of the list: the fake ends lie before and after the blocks.
Node(q, i) == IF i = 0 THEN Head0 ELSE IF i > Len(q) THEN Tail0 ELSE q[i]

\* The links thread the blocks of q, in order, between the fake ends, and touch no
\* other block; num_free_blocks counts them.
Threads(q) ==
    /\ q \in Seq(Blocks)
    /\ \A i, j \in 1..Len(q) : q[i] = q[j] => i = j
    /\ next \in [Nodes -> Nodes \cup {Nil}] /\ prev \in [Nodes -> Nodes \cup {Nil}]
    /\ prev[Head0] = Nil /\ next[Tail0] = Nil
    /\ \A i \in 0..Len(q) :
          /\ next[Node(q, i)] = Node(q, i + 1)
          /\ prev[Node(q, i + 1)] = Node(q, i)
    /\ \A b \in Blocks : (\A i \in 1..Len(q) : q[i] # b) => next[b] = Nil /\ prev[b] = Nil
    /\ num = Len(q)

\* The fake ends are not blocks, and the nodes of a list differ from each other.
LEMMA NodesDiffer ==
    ASSUME NEW q \in Seq(Blocks), \A i, j \in 1..Len(q) : q[i] = q[j] => i = j
    PROVE  /\ Len(q) \in Nat
           /\ \A i \in 1..Len(q) : Node(q, i) = q[i] /\ q[i] \in Blocks
           /\ Node(q, 0) = Head0 /\ Node(q, Len(q) + 1) = Tail0
           /\ \A i \in 0..(Len(q) + 1) : Node(q, i) \in Nodes
           /\ \A i, j \in 0..(Len(q) + 1) : Node(q, i) = Node(q, j) => i = j
<1>1. Len(q) \in Nat /\ \A i \in 1..Len(q) : q[i] \in Blocks
  BY LenProperties, ElementOfSeq
<1>2. \A i \in 1..Len(q) : Node(q, i) = q[i]
  BY <1>1 DEF Node
<1>3. Node(q, 0) = Head0 /\ Node(q, Len(q) + 1) = Tail0
  BY <1>1 DEF Node
<1>4. \A i \in 0..(Len(q) + 1) : i = 0 \/ i = Len(q) + 1 \/ i \in 1..Len(q)
  BY <1>1
<1>5. \A i \in 0..(Len(q) + 1) : Node(q, i) \in Nodes
  BY <1>1, <1>2, <1>3, <1>4, NumBlocks DEF Nodes, Head0, Tail0, Blocks
<1>6. /\ \A i \in 1..Len(q) : q[i] # Head0 /\ q[i] # Tail0
      /\ Head0 # Tail0
  BY <1>1, NumBlocks DEF Head0, Tail0, Blocks
<1>7. \A i, j \in 0..(Len(q) + 1) : Node(q, i) = Node(q, j) => i = j
  BY <1>2, <1>3, <1>4, <1>6
<1>. QED  BY <1>1, <1>2, <1>3, <1>5, <1>7

\* A list of distinct blocks is no longer than there are blocks.
LEMMA ListIsShort ==
    ASSUME NEW q \in Seq(Blocks), \A i, j \in 1..Len(q) : q[i] = q[j] => i = j
    PROVE  Len(q) <= N
<1>1. Len(q) \in Nat /\ q \in [1..Len(q) -> Blocks]
  BY LenProperties
<1>2. /\ IsFiniteSet(1..Len(q)) /\ Cardinality(1..Len(q)) = Len(q)
      /\ IsFiniteSet(Blocks) /\ Cardinality(Blocks) = N
  <2>1. /\ IsFiniteSet(1..Len(q)) /\ Cardinality(1..Len(q)) = IF 1 > Len(q) THEN 0 ELSE Len(q) - 1 + 1
        /\ IsFiniteSet(1..N) /\ Cardinality(1..N) = IF 1 > N THEN 0 ELSE N - 1 + 1
    BY <1>1, NumBlocks, FS_Interval
  <2>. QED  BY <1>1, <2>1, NumBlocks DEF Blocks
<1>3. ~(Cardinality(Blocks) < Cardinality(1..Len(q)))
  BY <1>1, <1>2, FS_PigeonHole
<1>. QED  BY <1>1, <1>2, <1>3, NumBlocks

\* A walk from the head meets the blocks of the list, in order, and stays at the tail.
LEMMA PathIs ==
    ASSUME NEW q, Threads(q)
    PROVE  \A i \in 0..(N + 1) : path[i] = Node(q, i)
<1>. USE NumBlocks
<1>. DEFINE Step(f, i) == IF i = 0 THEN Head0
                          ELSE LET p == f[i - 1]
                               IN IF p \in {Nil, Tail0} THEN p ELSE next[p]
            g == [i \in 0..(N + 1) |-> Node(q, i)]
<1>1. /\ Len(q) \in Nat /\ \A i \in 1..Len(q) : Node(q, i) = q[i] /\ q[i] \in Blocks
      /\ Node(q, 0) = Head0 /\ Node(q, Len(q) + 1) = Tail0
  BY NodesDiffer DEF Threads
<1>2. ASSUME NEW i \in 1..(N + 1)
      PROVE  Node(q, i) = LET p == Node(q, i - 1)
                          IN IF p \in {Nil, Tail0} THEN p ELSE next[p]
  <2>1. CASE i - 1 \in 0..Len(q)
    <3>1. next[Node(q, i - 1)] = Node(q, (i - 1) + 1) /\ (i - 1) + 1 = i
      BY <2>1 DEF Threads
    <3>2. Node(q, i - 1) \notin {Nil, Tail0}
      <4>1. i - 1 = 0 \/ i - 1 \in 1..Len(q)
        BY <1>1, <2>1
      <4>. QED  BY <1>1, <4>1 DEF Head0, Tail0, Nil, Blocks
    <3>. QED  BY <3>1, <3>2
  <2>2. CASE i - 1 \notin 0..Len(q)
    <3>1. i - 1 > Len(q) /\ i > Len(q) /\ i # 0 /\ i - 1 # 0
      BY <1>1, <2>2
    <3>. QED  BY <3>1 DEF Node
  <2>. QED  BY <2>1, <2>2
<1>3. g = [i \in 0..(N + 1) |-> Step(g, i)]
  <2>1. ASSUME NEW i \in 0..(N + 1) PROVE Node(q, i) = Step(g, i)
    <3>1. CASE i = 0
      BY <1>1, <3>1
    <3>2. CASE i # 0
      <4>1. i \in 1..(N + 1) /\ i - 1 \in 0..(N + 1)
        BY <3>2
      <4>2. g[i - 1] = Node(q, i - 1)
        BY <4>1
      <4>. QED  BY <1>2, <3>2, <4>1, <4>2
    <3>. QED  BY <3>1, <3>2
  <2>. QED  BY <2>1
<1>4. path = CHOOSE f : f = [i \in 0..(N + 1) |-> Step(f, i)]
  BY DEF path
<1>5. path = [i \in 0..(N + 1) |-> Step(path, i)]
  <2>. HIDE DEF Step, g
  <2>. QED  BY <1>3, <1>4
<1>6. \A i \in 0..(N + 1) : path[i] = Step(path, i)
  <2>. HIDE DEF Step
  <2>. QED  BY <1>5
<1>. DEFINE Off == {i \in 0..(N + 1) : path[i] # Node(q, i)}
<1>7. Off = {}
  <2>1. SUFFICES ASSUME Off # {} PROVE FALSE
    OBVIOUS
  <2>2. PICK m \in Off : \A i \in Off : m <= i
    <3>1. Off \in SUBSET Nat
      OBVIOUS
    <3>. QED  BY <2>1, <3>1, LeastNumber
  <2>3. m \in 0..(N + 1) /\ path[m] # Node(q, m)
    OBVIOUS
  <2>4. CASE m = 0
    <3>1. path[0] = Step(path, 0)
      BY <1>6, <2>3, <2>4
    <3>. QED  BY <1>1, <2>3, <2>4, <3>1
  <2>5. CASE m # 0
    <3>1. m \in 1..(N + 1) /\ m - 1 \in 0..(N + 1) /\ ~(m <= m - 1)
      BY <2>3, <2>5
    <3>2. path[m - 1] = Node(q, m - 1)
      BY <2>2, <3>1
    <3>3. path[m] = Step(path, m)
      BY <1>6, <2>3
    <3>. QED  BY <1>2, <2>3, <2>5, <3>1, <3>2, <3>3
  <2>. QED  BY <2>4, <2>5
<1>. QED  BY <1>7

\* What get_all_free_blocks returns is the list.
LEMMA FreeBlocksAre == \A q : Threads(q) => get_all_free_blocks = q
<1>1. SUFFICES ASSUME NEW q, Threads(q) PROVE get_all_free_blocks = q
  OBVIOUS
<1>2. /\ Len(q) \in Nat /\ Len(q) <= N /\ q \in [1..Len(q) -> Blocks]
      /\ \A i \in 1..Len(q) : Node(q, i) = q[i] /\ q[i] \in Blocks
  BY <1>1, ListIsShort, NodesDiffer, LenProperties DEF Threads
<1>3. \A i \in 1..N : path[i] = Node(q, i)
  BY <1>1, PathIs, NumBlocks
<1>4. \A i \in 1..N : i > Len(q) => Node(q, i) \notin Blocks
  BY <1>2, NumBlocks DEF Node, Tail0, Blocks
<1>5. {k \in 1..N : path[k] \in Blocks} = 1..Len(q)
  BY <1>2, <1>3, <1>4, NumBlocks
<1>6. get_all_free_blocks = [i \in 1..Len(q) |-> path[i]]
  BY <1>5 DEF get_all_free_blocks
<1>7. \A i \in 1..Len(q) : path[i] = q[i]
  BY <1>2, <1>3, NumBlocks
<1>. QED  BY <1>2, <1>6, <1>7

\* The same after a step.
LEMMA FreeBlocksBecome == \A q : Threads(q)' => get_all_free_blocks' = q
<1>1. (\A q : Threads(q) => get_all_free_blocks = q)'
  BY FreeBlocksAre, PTL
<1>. QED  BY <1>1

\* Blocks that are linked are those of the list.
LEMMA ListIsLinked ==
    ASSUME NEW q, Threads(q)
    PROVE  \A b \in Blocks : Linked(b) <=> \E i \in 1..Len(q) : q[i] = b
<1>. USE NumBlocks
<1>1. /\ Len(q) \in Nat /\ \A i \in 1..Len(q) : Node(q, i) = q[i]
      /\ \A i \in 0..(Len(q) + 1) : Node(q, i) \in Nodes
  BY NodesDiffer DEF Threads
<1>2. ASSUME NEW i \in 1..Len(q) PROVE Linked(q[i])
  <2>1. i \in 0..Len(q) /\ i - 1 \in 0..Len(q) /\ (i - 1) + 1 = i
    BY <1>1
  <2>2. next[Node(q, i)] = Node(q, i + 1)
    BY <2>1 DEF Threads
  <2>3. prev[Node(q, (i - 1) + 1)] = Node(q, i - 1)
    BY <2>1 DEF Threads
  <2>4. i + 1 \in 0..(Len(q) + 1) /\ i - 1 \in 0..(Len(q) + 1)
    BY <1>1
  <2>5. next[q[i]] \in Nodes /\ prev[q[i]] \in Nodes
    BY <1>1, <2>1, <2>2, <2>3, <2>4
  <2>6. Nil \notin Nodes
    BY DEF Nil, Nodes
  <2>. QED  BY <2>5, <2>6 DEF Linked
<1>3. ASSUME NEW b \in Blocks, \A i \in 1..Len(q) : q[i] # b PROVE ~Linked(b)
  BY <1>3 DEF Threads, Linked
<1>. QED  BY <1>2, <1>3

\* The blocks at places i to j of a list, and the list t that is left without them.
Spots(q, i, j) == {q[k] : k \in i..j}

CutOut(q, i, j, t) ==
    /\ t \in Seq(Blocks) /\ Len(t) = Len(q) - (j - i + 1)
    /\ \A k \in 1..Len(t) : t[k] = IF k < i THEN q[k] ELSE q[k + (j - i + 1)]

\* Cutting a stretch out of the list leaves the rest threaded.
LEMMA CutThreads ==
    ASSUME NEW q, Threads(q), NEW i \in 1..Len(q), NEW j \in i..Len(q),
           NEW out, out = Spots(q, i, j), NEW t, CutOut(q, i, j, t),
           Cut(Node(q, i - 1), out, Node(q, j + 1)), num' = num - (j - i + 1)
    PROVE  Threads(t)'
<1>. /\ t \in Seq(Blocks) /\ Len(t) = Len(q) - (j - i + 1)
     /\ \A k \in 1..Len(t) : t[k] = IF k < i THEN q[k] ELSE q[k + (j - i + 1)]
  BY DEF CutOut
<1>. \A m : m \in out <=> \E k \in i..j : q[k] = m
  BY DEF Spots
<1>1. PICK L, d : L = Len(q) /\ d = j - i + 1
  OBVIOUS
<1>2. /\ L \in Nat /\ i \in Int /\ j \in Int /\ d \in Nat \ {0}
      /\ 1 <= i /\ i <= j /\ j <= L
      /\ \A k \in 1..L : Node(q, k) = q[k] /\ q[k] \in Blocks
      /\ Node(q, 0) = Head0 /\ Node(q, L + 1) = Tail0
      /\ \A k \in 0..(L + 1) : Node(q, k) \in Nodes
      /\ \A k, l \in 0..(L + 1) : Node(q, k) = Node(q, l) => k = l
  <2>1. /\ Len(q) \in Nat
        /\ \A k \in 1..Len(q) : Node(q, k) = q[k] /\ q[k] \in Blocks
        /\ Node(q, 0) = Head0 /\ Node(q, Len(q) + 1) = Tail0
        /\ \A k \in 0..(Len(q) + 1) : Node(q, k) \in Nodes
        /\ \A k, l \in 0..(Len(q) + 1) : Node(q, k) = Node(q, l) => k = l
    BY NodesDiffer DEF Threads
  <2>2. i \in Int /\ j \in Int /\ 1 <= i /\ i <= j /\ j <= Len(q)
    BY <2>1
  <2>3. j - i + 1 \in Nat \ {0}
    BY <2>2
  <2>4. L = Len(q) /\ d = j - i + 1
    BY <1>1
  <2>. QED  BY <2>1, <2>2, <2>3, <2>4
<1>3. /\ Len(t) = L - d /\ L - d \in Nat
      /\ \A k \in 1..(L - d) : t[k] = IF k < i THEN q[k] ELSE q[k + d]
  BY <1>1, <1>2
<1>4. PICK before, after : before = Node(q, i - 1) /\ after = Node(q, j + 1)
  OBVIOUS
<1>5. /\ next' = [m \in Nodes |-> IF m \in out THEN Nil
                                  ELSE IF m = before THEN after ELSE next[m]]
      /\ prev' = [m \in Nodes |-> IF m \in out THEN Nil
                                  ELSE IF m = after THEN before ELSE prev[m]]
  BY <1>4 DEF Cut
<1>. DEFINE at(k) == IF k < i THEN k ELSE k + d
<1>6. \A k \in 0..(L - d + 1) :
        /\ at(k) \in 0..(L + 1) /\ Node(t, k) = Node(q, at(k))
        /\ Node(q, at(k)) \in Nodes /\ Node(q, at(k)) \notin out
  <2>. TAKE k \in 0..(L - d + 1)
  <2>1. at(k) \in 0..(L + 1) /\ at(k) \notin i..j
    BY <1>1, <1>2
  <2>2. Node(q, at(k)) \notin out
    <3>1. \A l \in i..j : l \in 1..L /\ l \in 0..(L + 1)
      BY <1>2
    <3>. HIDE DEF at
    <3>. QED  BY <1>2, <2>1, <3>1
  <2>3. Node(t, k) = Node(q, at(k))
    <3>1. CASE k = 0
      BY <1>2, <3>1 DEF Node
    <3>2. CASE k = L - d + 1
      <4>1. Len(t) = L - d
        BY <1>3
      <4>2. k > L - d /\ k # 0 /\ ~(k < i) /\ k + d = L + 1
        BY <1>1, <1>2, <3>2
      <4>3. Node(t, k) = Tail0
        BY <4>1, <4>2 DEF Node
      <4>4. at(k) = L + 1
        BY <4>2
      <4>. QED  BY <1>2, <4>3, <4>4
    <3>3. CASE k # 0 /\ k # L - d + 1
      <4>1. k \in 1..(L - d) /\ ~(k > L - d) /\ at(k) \in 1..L
        <5>1. k \in Int /\ 1 <= k /\ k <= L - d
          BY <1>1, <1>2, <3>3
        <5>2. k < i => k <= L
          BY <1>2, <5>1
        <5>3. k + d <= L /\ 1 <= k + d /\ k + d \in Int
          BY <1>2, <5>1
        <5>. QED  BY <1>2, <5>1, <5>2, <5>3
      <4>2. Node(t, k) = t[k]
        BY <1>3, <3>3, <4>1 DEF Node
      <4>3. t[k] = q[at(k)]
        BY <1>3, <4>1
      <4>. QED  BY <1>2, <4>1, <4>2, <4>3
    <3>. QED  BY <3>1, <3>2, <3>3
  <2>. HIDE DEF at
  <2>. QED  BY <1>2, <2>1, <2>2, <2>3
<1>7. ASSUME NEW k \in 0..(L - d)
      PROVE  next'[Node(t, k)] = Node(t, k + 1) /\ prev'[Node(t, k + 1)] = Node(t, k)
  <2>1. k \in 0..(L - d + 1) /\ k + 1 \in 0..(L - d + 1)
    BY <1>3
  <2>2. CASE k = i - 1
    <3>1. at(k) = i - 1 /\ at(k + 1) = j + 1
      BY <1>1, <1>2, <2>2
    <3>. HIDE DEF at
    <3>2. /\ Node(t, k) = before /\ Node(t, k + 1) = after
          /\ before \in Nodes \ out /\ after \in Nodes \ out
      BY <1>4, <1>6, <2>1, <3>1
    <3>. QED  BY <1>5, <3>2
  <2>3. CASE k # i - 1
    <3>1. at(k + 1) = at(k) + 1 /\ at(k) \in 0..L /\ at(k) # i - 1 /\ at(k + 1) # j + 1
      BY <1>1, <1>2, <1>3, <2>3
    <3>2. i - 1 \in 0..(L + 1) /\ j + 1 \in 0..(L + 1)
      BY <1>2
    <3>. HIDE DEF at
    <3>3. /\ Node(t, k) = Node(q, at(k)) /\ Node(t, k + 1) = Node(q, at(k + 1))
          /\ Node(t, k) \in Nodes \ out /\ Node(t, k + 1) \in Nodes \ out
          /\ at(k) \in 0..(L + 1) /\ at(k + 1) \in 0..(L + 1)
      BY <1>6, <2>1
    <3>4. Node(t, k) # before /\ Node(t, k + 1) # after
      BY <1>2, <1>4, <3>1, <3>2, <3>3
    <3>5. next'[Node(t, k)] = next[Node(t, k)] /\ prev'[Node(t, k + 1)] = prev[Node(t, k + 1)]
      BY <1>5, <3>3, <3>4
    <3>6. /\ next[Node(q, at(k))] = Node(q, at(k) + 1)
          /\ prev[Node(q, at(k) + 1)] = Node(q, at(k))
      BY <1>1, <3>1 DEF Threads
    <3>. QED  BY <3>1, <3>3, <3>5, <3>6
  <2>. QED  BY <2>2, <2>3
<1>8. ASSUME NEW k \in 1..(L - d), NEW l \in 1..(L - d), t[k] = t[l] PROVE k = l
  <2>1. k \in 0..(L - d + 1) /\ l \in 0..(L - d + 1)
    BY <1>3
  <2>2. Node(t, k) = t[k] /\ Node(t, l) = t[l]
    BY <1>3 DEF Node
  <2>3. at(k) = at(l)
    <3>. HIDE DEF at
    <3>. QED  BY <1>2, <1>6, <1>8, <2>1, <2>2
  <2>. QED  BY <1>1, <1>2, <2>3
<1>9. before \in Nodes /\ after \in Nodes /\ before # Tail0 /\ after # Head0
  <2>1. i - 1 \in 0..(L + 1) /\ j + 1 \in 0..(L + 1) /\ 0 \in 0..(L + 1) /\ L + 1 \in 0..(L + 1)
        /\ i - 1 # L + 1 /\ j + 1 # 0
    BY <1>2
  <2>. QED  BY <1>2, <1>4, <2>1
<1>10. /\ next' \in [Nodes -> Nodes \cup {Nil}] /\ prev' \in [Nodes -> Nodes \cup {Nil}]
       /\ prev'[Head0] = Nil /\ next'[Tail0] = Nil
  <2>1. next \in [Nodes -> Nodes \cup {Nil}] /\ prev \in [Nodes -> Nodes \cup {Nil}]
        /\ prev[Head0] = Nil /\ next[Tail0] = Nil
    BY DEF Threads
  <2>2. Head0 \in Nodes /\ Tail0 \in Nodes
    BY NumBlocks DEF Head0, Tail0, Nodes
  <2>. QED  BY <1>5, <1>9, <2>1, <2>2
<1>11. ASSUME NEW b \in Blocks, \A k \in 1..(L - d) : t[k] # b
       PROVE  next'[b] = Nil /\ prev'[b] = Nil
  <2>1. b \in Nodes /\ b # Head0 /\ b # Tail0
    BY NumBlocks DEF Blocks, Nodes, Head0, Tail0
  <2>2. CASE b \in out
    BY <1>5, <2>1, <2>2
  <2>3. CASE b \notin out
    <3>1. \A k \in 1..L : q[k] # b
      <4>1. SUFFICES ASSUME NEW k \in 1..L, q[k] = b PROVE FALSE
        OBVIOUS
      <4>2. k \notin i..j
        BY <2>3, <4>1
      <4>3. CASE k < i
        <5>1. k \in 1..(L - d)
          BY <1>1, <1>2, <4>3
        <5>. QED  BY <1>3, <1>11, <4>1, <4>3, <5>1
      <4>4. CASE k > j
        <5>1. k - d \in 1..(L - d) /\ ~(k - d < i) /\ (k - d) + d = k
          BY <1>1, <1>2, <4>4
        <5>2. t[k - d] = q[(k - d) + d]
          BY <1>3, <5>1
        <5>. QED  BY <1>11, <4>1, <5>1, <5>2
      <4>. QED  BY <1>2, <4>2, <4>3, <4>4
    <3>2. next[b] = Nil /\ prev[b] = Nil
      BY <1>1, <3>1 DEF Threads
    <3>3. b # before /\ b # after
      <4>1. i - 1 = 0 \/ i - 1 \in 1..L
        BY <1>2
      <4>2. j + 1 = L + 1 \/ j + 1 \in 1..L
        BY <1>2
      <4>. QED  BY <1>2, <1>4, <2>1, <3>1, <4>1, <4>2
    <3>. QED  BY <1>5, <2>1, <2>3, <3>2, <3>3
  <2>. QED  BY <2>2, <2>3
<1>12. num' = L - d
  BY <1>1 DEF Threads
<1>13. /\ \A k \in 0..Len(t) : /\ next'[Node(t, k)] = Node(t, k + 1)
                               /\ prev'[Node(t, k + 1)] = Node(t, k)
       /\ \A k, l \in 1..Len(t) : t[k] = t[l] => k = l
       /\ \A b \in Blocks : (\A k \in 1..Len(t) : t[k] # b) => next'[b] = Nil /\ prev'[b] = Nil
       /\ num' = Len(t)
  BY <1>3, <1>7, <1>8, <1>11, <1>12
<1>. QED  BY <1>10, <1>13 DEF Threads, Node

\* What Join writes: the n new blocks are linked in their order, the two nodes to
\* the ends of them, and nothing else changes.
Joined(before, bs, n, after) ==
    /\ next'[before] = bs[1] /\ prev'[after] = bs[n]
    /\ \A i \in 1..n : next'[bs[i]] = IF i = n THEN after ELSE bs[i + 1]
    /\ \A i \in 1..n : prev'[bs[i]] = IF i = 1 THEN before ELSE bs[i - 1]
    /\ next' = [m \in Nodes |-> next'[m]] /\ prev' = [m \in Nodes |-> prev'[m]]
    /\ \A m \in Nodes : m # before /\ m \notin Range(bs) => next'[m] = next[m]
    /\ \A m \in Nodes : m # after /\ m \notin Range(bs) => prev'[m] = prev[m]

\* Join does, between nodes that are not among the new blocks.
LEMMA JoinLinks ==
    ASSUME NEW n \in Nat \ {0}, NEW bs, bs \in [1..n -> Blocks],
           \A i, j \in 1..n : bs[i] = bs[j] => i = j,
           NEW before \in Nodes \ Range(bs), NEW after \in Nodes \ Range(bs),
           Join(before, bs, after)
    PROVE  Joined(before, bs, n, after)
<1>. USE NumBlocks DEF Blocks, Nodes, Head0, Tail0, Nil
<1>1. Len(bs) = n /\ DOMAIN bs = 1..n
  OBVIOUS
<1>2. PICK new : new = Range(bs)
  OBVIOUS
<1>3. \A m : m \in new <=> \E i \in 1..n : bs[i] = m
  BY <1>2 DEF Range
<1>. DEFINE at(i) == IF i = 0 THEN before ELSE IF i > Len(bs) THEN after ELSE bs[i]
            pos(m) == CHOOSE i \in DOMAIN bs : bs[i] = m
<1>4. \A i \in 1..n : pos(bs[i]) = i
  BY <1>1
<1>5. /\ next' = [m \in Nodes |-> IF m = before THEN at(1)
                                  ELSE IF m \in Range(bs) THEN at(pos(m) + 1)
                                  ELSE next[m]]
      /\ prev' = [m \in Nodes |-> IF m = after THEN at(Len(bs))
                                  ELSE IF m \in Range(bs) THEN at(pos(m) - 1)
                                  ELSE prev[m]]
  BY DEF Join
<1>6. at(0) = before /\ at(n + 1) = after /\ \A i \in 1..n : at(i) = bs[i]
  BY <1>1
<1>7. \A i \in 1..n : bs[i] \in new /\ bs[i] \in Nodes
  BY <1>3
<1>8. next'[before] = at(1) /\ prev'[after] = at(n)
  BY <1>1, <1>5
<1>9. ASSUME NEW i \in 1..n
      PROVE  next'[bs[i]] = at(i + 1) /\ prev'[bs[i]] = at(i - 1)
  <2>1. /\ bs[i] \in Nodes /\ bs[i] \in Range(bs) /\ pos(bs[i]) = i
        /\ bs[i] # before /\ bs[i] # after
    BY <1>2, <1>4, <1>7
  <2>. HIDE DEF at, pos
  <2>2. next'[bs[i]] = at(pos(bs[i]) + 1)
    BY <1>5, <2>1
  <2>3. prev'[bs[i]] = at(pos(bs[i]) - 1)
    BY <1>5, <2>1
  <2>. QED  BY <2>1, <2>2, <2>3
<1>10. /\ DOMAIN next' = Nodes /\ DOMAIN prev' = Nodes
       /\ \A m \in Nodes : m # before /\ m \notin Range(bs) => next'[m] = next[m]
       /\ \A m \in Nodes : m # after /\ m \notin Range(bs) => prev'[m] = prev[m]
  BY <1>5
<1>. HIDE DEF at, pos
<1>11. next' = [m \in Nodes |-> next'[m]] /\ prev' = [m \in Nodes |-> prev'[m]]
  BY <1>5, Zenon
<1>12. n \in 1..n /\ 1 \in 1..n
  OBVIOUS
<1>13. \A i \in 1..n : next'[bs[i]] = IF i = n THEN after ELSE bs[i + 1]
  BY <1>6, <1>9
<1>14. \A i \in 1..n : prev'[bs[i]] = IF i = 1 THEN before ELSE bs[i - 1]
  BY <1>6, <1>9
<1>. QED  BY <1>6, <1>8, <1>10, <1>11, <1>12, <1>13, <1>14 DEF Joined

\* The list t that is q with the blocks bs put in after place i.
PutIn(q, i, bs, t) ==
    /\ t \in Seq(Blocks) /\ Len(t) = Len(q) + Len(bs)
    /\ \A k \in 1..i : t[k] = q[k]
    /\ \A k \in 1..Len(bs) : t[i + k] = bs[k]
    /\ \A k \in (i + 1)..Len(q) : t[k + Len(bs)] = q[k]

\* Joining blocks that are in use in between two neighbours threads them there.
LEMMA JoinThreads ==
    ASSUME NEW q, Threads(q), NEW bs \in Lists(InUse), NEW i \in 0..Len(q),
           NEW t, PutIn(q, i, bs, t),
           Join(Node(q, i), bs, Node(q, i + 1)), num' = num + Len(bs)
    PROVE  Threads(t)'
<1>. /\ t \in Seq(Blocks) /\ Len(t) = Len(q) + Len(bs)
     /\ \A k \in 1..i : t[k] = q[k]
     /\ \A k \in 1..Len(bs) : t[i + k] = bs[k]
     /\ \A k \in (i + 1)..Len(q) : t[k + Len(bs)] = q[k]
  BY DEF PutIn
<1>1. PICK n \in Nat \ {0} : /\ bs \in [1..n -> InUse]
                              /\ \A k, l \in 1..n : bs[k] = bs[l] => k = l
  BY NumBlocks DEF Lists, Injection, IsInjective
<1>2. Len(bs) = n /\ DOMAIN bs = 1..n
  BY <1>1
<1>3. PICK L : L = Len(q)
  OBVIOUS
<1>4. /\ L \in Nat /\ i \in Nat /\ i <= L
      /\ \A k \in 1..L : Node(q, k) = q[k] /\ q[k] \in Blocks
      /\ Node(q, 0) = Head0 /\ Node(q, L + 1) = Tail0
      /\ \A k \in 0..(L + 1) : Node(q, k) \in Nodes
      /\ \A k, l \in 0..(L + 1) : Node(q, k) = Node(q, l) => k = l
  <2>1. /\ Len(q) \in Nat
        /\ \A k \in 1..Len(q) : Node(q, k) = q[k] /\ q[k] \in Blocks
        /\ Node(q, 0) = Head0 /\ Node(q, Len(q) + 1) = Tail0
        /\ \A k \in 0..(Len(q) + 1) : Node(q, k) \in Nodes
        /\ \A k, l \in 0..(Len(q) + 1) : Node(q, k) = Node(q, l) => k = l
    BY NodesDiffer DEF Threads
  <2>2. i \in Nat /\ i <= Len(q)
    BY <2>1
  <2>. QED  BY <1>3, <2>1, <2>2
<1>5. /\ Len(t) = L + n /\ L + n \in Nat
      /\ \A k \in 1..i : t[k] = q[k]
      /\ \A k \in 1..n : t[i + k] = bs[k]
      /\ \A k \in (i + 1)..L : t[k + n] = q[k]
  BY <1>1, <1>2, <1>3, <1>4
<1>6. PICK before, after, new : before = Node(q, i) /\ after = Node(q, i + 1) /\ new = Range(bs)
  OBVIOUS
<1>7. \A m : m \in new <=> \E k \in 1..n : bs[k] = m
  BY <1>1, <1>6 DEF Range
<1>8. \A k \in 1..n : bs[k] \in Blocks /\ ~Linked(bs[k]) /\ bs[k] \in new
  BY <1>1, <1>7 DEF InUse
<1>9. \A k \in 0..(L + 1) : Node(q, k) \in Nodes \ new
  <2>1. SUFFICES ASSUME NEW k \in 0..(L + 1), NEW l \in 1..n, Node(q, k) = bs[l] PROVE FALSE
    BY <1>4, <1>7
  <2>2. bs[l] \in Blocks /\ ~Linked(bs[l])
    BY <1>8
  <2>3. Node(q, k) # Head0 /\ Node(q, k) # Tail0
    BY <2>1, <2>2, NumBlocks DEF Blocks, Head0, Tail0
  <2>4. k \in 1..L
    BY <1>4, <2>3
  <2>5. q[k] = bs[l]
    BY <1>4, <2>1, <2>4
  <2>. QED  BY <1>3, <2>2, <2>4, <2>5, ListIsLinked
<1>10. before \in Nodes \ new /\ after \in Nodes \ new /\ i \in 0..(L + 1) /\ i + 1 \in 0..(L + 1)
  BY <1>4, <1>6, <1>9
<1>11. /\ next'[before] = bs[1] /\ prev'[after] = bs[n]
       /\ \A k \in 1..n : next'[bs[k]] = IF k = n THEN after ELSE bs[k + 1]
       /\ \A k \in 1..n : prev'[bs[k]] = IF k = 1 THEN before ELSE bs[k - 1]
       /\ next' = [m \in Nodes |-> next'[m]] /\ prev' = [m \in Nodes |-> prev'[m]]
       /\ \A m \in Nodes : m # before /\ m \notin new => next'[m] = next[m]
       /\ \A m \in Nodes : m # after /\ m \notin new => prev'[m] = prev[m]
  <2>1. bs \in [1..n -> Blocks]
    BY <1>1 DEF InUse
  <2>2. Join(before, bs, after) /\ before \in Nodes \ Range(bs) /\ after \in Nodes \ Range(bs)
    BY <1>6, <1>10
  <2>3. n \in Nat \ {0} /\ \A k, l \in 1..n : bs[k] = bs[l] => k = l
    BY <1>1
  <2>4. Joined(before, bs, n, after)
    BY <2>1, <2>2, <2>3, JoinLinks
  <2>. QED  BY <1>6, <2>4 DEF Joined
\* where the nodes of the list are now
<1>12. ASSUME NEW k \in 0..i PROVE Node(t, k) = Node(q, k)
  <2>1. k = 0 \/ (k \in 1..i /\ k \in 1..L /\ ~(k > L + n) /\ k # 0)
    BY <1>1, <1>4
  <2>. QED  BY <1>4, <1>5, <2>1 DEF Node
<1>13. ASSUME NEW k \in 1..n PROVE Node(t, i + k) = bs[k]
  <2>1. i + k # 0 /\ ~(i + k > L + n)
    BY <1>1, <1>4
  <2>. QED  BY <1>5, <2>1 DEF Node
<1>14. ASSUME NEW k \in (i + 1)..(L + 1) PROVE Node(t, k + n) = Node(q, k)
  <2>1. CASE k = L + 1
    <3>1. k + n # 0 /\ k + n > L + n
      BY <1>1, <1>4, <2>1
    <3>. QED  BY <1>4, <1>5, <2>1, <3>1 DEF Node
  <2>2. CASE k # L + 1
    <3>1. k \in (i + 1)..L /\ k \in 1..L /\ k + n # 0 /\ ~(k + n > L + n)
      <4>1. k \in Int /\ i + 1 <= k /\ k <= L
        BY <1>4, <2>2
      <4>2. k + n # 0 /\ ~(k + n > L + n)
        BY <1>4, <4>1
      <4>. QED  BY <1>4, <4>1, <4>2
    <3>2. Node(t, k + n) = t[k + n]
      BY <1>5, <3>1 DEF Node
    <3>. QED  BY <1>4, <1>5, <3>1, <3>2
  <2>. QED  BY <2>1, <2>2
\* links that do not touch the new blocks stay
<1>15. ASSUME NEW k \in 0..L, k # i
       PROVE  /\ next'[Node(q, k)] = Node(q, k + 1) /\ prev'[Node(q, k + 1)] = Node(q, k)
  <2>1. k \in 0..(L + 1) /\ k + 1 \in 0..(L + 1) /\ k + 1 # i + 1
    BY <1>4, <1>15
  <2>2. Node(q, k) # before /\ Node(q, k + 1) # after
    BY <1>4, <1>6, <1>10, <1>15, <2>1
  <2>3. Node(q, k) \in Nodes \ new /\ Node(q, k + 1) \in Nodes \ new
    BY <1>9, <2>1
  <2>4. next[Node(q, k)] = Node(q, k + 1) /\ prev[Node(q, k + 1)] = Node(q, k)
    BY <1>3 DEF Threads
  <2>. QED  BY <1>11, <2>2, <2>3, <2>4
<1>16. ASSUME NEW k \in 0..(L + n)
       PROVE  next'[Node(t, k)] = Node(t, k + 1) /\ prev'[Node(t, k + 1)] = Node(t, k)
  <2>1. CASE k < i
    <3>1. k \in 0..i /\ k + 1 \in 0..i /\ k \in 0..L /\ k # i
      BY <1>4, <2>1
    <3>. QED  BY <1>12, <1>15, <3>1
  <2>2. CASE k = i
    <3>1. k \in 0..i /\ 1 \in 1..n
      BY <1>1, <1>4, <2>2
    <3>2. Node(t, k) = before /\ Node(t, k + 1) = bs[1]
      BY <1>6, <1>12, <1>13, <2>2, <3>1
    <3>. QED  BY <1>11, <3>1, <3>2
  <2>3. CASE i < k /\ k < i + n
    <3>1. PICK l : l = k - i
      OBVIOUS
    <3>2. /\ l \in 1..n /\ l + 1 \in 1..n /\ l # n /\ l + 1 # 1 /\ (l + 1) - 1 = l
          /\ k = i + l /\ k + 1 = i + (l + 1)
      BY <1>1, <1>4, <2>3, <3>1
    <3>3. Node(t, k) = bs[l] /\ Node(t, k + 1) = bs[l + 1]
      BY <1>13, <3>2
    <3>4. next'[bs[l]] = bs[l + 1]
      BY <1>11, <3>2
    <3>5. prev'[bs[l + 1]] = bs[(l + 1) - 1]
      BY <1>11, <3>2
    <3>. QED  BY <3>2, <3>3, <3>4, <3>5
  <2>4. CASE k = i + n
    <3>1. n \in 1..n /\ i + 1 \in (i + 1)..(L + 1) /\ (i + 1) + n = k + 1
      BY <1>1, <1>4, <2>4
    <3>2. Node(t, k) = bs[n] /\ Node(t, k + 1) = after
      <4>1. Node(t, (i + 1) + n) = Node(q, i + 1)
        BY <1>14, <3>1
      <4>. QED  BY <1>6, <1>13, <2>4, <3>1, <4>1
    <3>. QED  BY <1>11, <3>1, <3>2
  <2>5. CASE i + n < k
    <3>1. PICK l : l = k - n
      OBVIOUS
    <3>2. /\ l \in (i + 1)..(L + 1) /\ l + 1 \in (i + 1)..(L + 1) /\ l \in 0..L /\ l # i
          /\ k = l + n /\ k + 1 = (l + 1) + n
      BY <1>1, <1>4, <2>5, <3>1
    <3>3. Node(t, k) = Node(q, l) /\ Node(t, k + 1) = Node(q, l + 1)
      BY <1>14, <3>2
    <3>. QED  BY <1>15, <3>2, <3>3
  <2>. QED  BY <1>1, <1>4, <2>1, <2>2, <2>3, <2>4, <2>5
<1>17. ASSUME NEW k \in 1..(L + n)
       PROVE  \/ k \in 1..i /\ k \in 1..L /\ t[k] = q[k]
              \/ k - i \in 1..n /\ t[k] = bs[k - i]
              \/ k - n \in (i + 1)..L /\ k - n \in 1..L /\ t[k] = q[k - n]
  <2>1. \/ k \in 1..i /\ k \in 1..L
        \/ k - i \in 1..n /\ i + (k - i) = k
        \/ k - n \in (i + 1)..L /\ k - n \in 1..L /\ (k - n) + n = k
    BY <1>1, <1>4
  <2>2. CASE k \in 1..i /\ k \in 1..L
    BY <1>5, <2>2
  <2>3. CASE k - i \in 1..n /\ i + (k - i) = k
    <3>1. t[i + (k - i)] = bs[k - i]
      BY <1>5, <2>3
    <3>. QED  BY <2>3, <3>1
  <2>4. CASE k - n \in (i + 1)..L /\ k - n \in 1..L /\ (k - n) + n = k
    <3>1. t[(k - n) + n] = q[k - n]
      BY <1>5, <2>4
    <3>. QED  BY <2>4, <3>1
  <2>. QED  BY <2>1, <2>2, <2>3, <2>4
<1>18. /\ \A k, l \in 1..L : q[k] = q[l] => k = l
       /\ \A k \in 1..L, l \in 1..n : q[k] # bs[l]
  <2>1. \A k, l \in 1..L : q[k] = q[l] => k = l
    BY <1>3 DEF Threads
  <2>2. \A k \in 1..L : k \in 0..(L + 1)
    BY <1>4
  <2>. QED  BY <1>4, <1>8, <1>9, <2>1, <2>2
<1>19. ASSUME NEW k \in 1..(L + n), NEW l \in 1..(L + n), t[k] = t[l] PROVE k = l
  <2>1. /\ k - i = l - i => k = l
        /\ k - n = l - n => k = l
        /\ ~(k \in 1..i /\ k = l - n /\ l - n \in (i + 1)..L)
        /\ ~(l \in 1..i /\ l = k - n /\ k - n \in (i + 1)..L)
    BY <1>1, <1>4
  <2>2. CASE k \in 1..i /\ k \in 1..L /\ t[k] = q[k]
    <3>1. CASE l \in 1..i /\ l \in 1..L /\ t[l] = q[l]
      BY <1>18, <1>19, <2>2, <3>1
    <3>2. CASE l - i \in 1..n /\ t[l] = bs[l - i]
      BY <1>18, <1>19, <2>2, <3>2
    <3>3. CASE l - n \in (i + 1)..L /\ l - n \in 1..L /\ t[l] = q[l - n]
      BY <1>18, <1>19, <2>1, <2>2, <3>3
    <3>. QED  BY <1>17, <3>1, <3>2, <3>3
  <2>3. CASE k - i \in 1..n /\ t[k] = bs[k - i]
    <3>1. CASE l \in 1..i /\ l \in 1..L /\ t[l] = q[l]
      BY <1>18, <1>19, <2>3, <3>1
    <3>2. CASE l - i \in 1..n /\ t[l] = bs[l - i]
      <4>1. k - i = l - i
        BY <1>1, <1>19, <2>3, <3>2
      <4>. QED  BY <2>1, <4>1
    <3>3. CASE l - n \in (i + 1)..L /\ l - n \in 1..L /\ t[l] = q[l - n]
      BY <1>18, <1>19, <2>3, <3>3
    <3>. QED  BY <1>17, <3>1, <3>2, <3>3
  <2>4. CASE k - n \in (i + 1)..L /\ k - n \in 1..L /\ t[k] = q[k - n]
    <3>1. CASE l \in 1..i /\ l \in 1..L /\ t[l] = q[l]
      BY <1>18, <1>19, <2>1, <2>4, <3>1
    <3>2. CASE l - i \in 1..n /\ t[l] = bs[l - i]
      BY <1>18, <1>19, <2>4, <3>2
    <3>3. CASE l - n \in (i + 1)..L /\ l - n \in 1..L /\ t[l] = q[l - n]
      <4>1. k - n = l - n
        BY <1>18, <1>19, <2>4, <3>3
      <4>. QED  BY <2>1, <4>1
    <3>. QED  BY <1>17, <3>1, <3>2, <3>3
  <2>. QED  BY <1>17, <2>2, <2>3, <2>4
<1>20. ASSUME NEW b \in Blocks, \A k \in 1..(L + n) : t[k] # b
       PROVE  next'[b] = Nil /\ prev'[b] = Nil
  <2>1. \A k \in 1..n : bs[k] # b
    <3>1. SUFFICES ASSUME NEW k \in 1..n PROVE bs[k] # b
      OBVIOUS
    <3>2. i + k \in 1..(L + n)
      BY <1>1, <1>4
    <3>. QED  BY <1>5, <1>20, <3>2
  <2>2. \A k \in 1..L : q[k] # b
    <3>1. SUFFICES ASSUME NEW k \in 1..L PROVE q[k] # b
      OBVIOUS
    <3>2. CASE k <= i
      <4>1. k \in 1..i /\ k \in 1..(L + n)
        BY <1>1, <1>4, <3>2
      <4>. QED  BY <1>5, <1>20, <4>1
    <3>3. CASE i < k
      <4>1. k \in (i + 1)..L /\ k + n \in 1..(L + n)
        BY <1>1, <1>4, <3>3
      <4>. QED  BY <1>5, <1>20, <4>1
    <3>. QED  BY <1>4, <3>2, <3>3
  <2>3. b \in Nodes /\ b # Head0 /\ b # Tail0 /\ b \notin new
    BY <1>7, <2>1, NumBlocks DEF Blocks, Nodes, Head0, Tail0
  <2>4. next[b] = Nil /\ prev[b] = Nil
    BY <1>3, <2>2 DEF Threads
  <2>5. b # before /\ b # after
    <3>1. (i = 0 \/ i \in 1..L) /\ (i + 1 = L + 1 \/ i + 1 \in 1..L)
      BY <1>4
    <3>. QED  BY <1>4, <1>6, <2>2, <2>3, <3>1
  <2>. QED  BY <1>11, <2>3, <2>4, <2>5
<1>21. /\ next' \in [Nodes -> Nodes \cup {Nil}] /\ prev' \in [Nodes -> Nodes \cup {Nil}]
       /\ prev'[Head0] = Nil /\ next'[Tail0] = Nil
  <2>1. /\ next \in [Nodes -> Nodes \cup {Nil}] /\ prev \in [Nodes -> Nodes \cup {Nil}]
        /\ prev[Head0] = Nil /\ next[Tail0] = Nil
    BY DEF Threads
  <2>2. Blocks \subseteq Nodes /\ Head0 \in Nodes \ Blocks /\ Tail0 \in Nodes \ Blocks /\ 1 \in 1..n /\ n \in 1..n
    BY <1>1, NumBlocks DEF Blocks, Nodes, Head0, Tail0
  <2>3. ASSUME NEW m \in Nodes PROVE next'[m] \in Nodes \cup {Nil} /\ prev'[m] \in Nodes \cup {Nil}
    <3>1. CASE m \in new
      <4>1. PICK k \in 1..n : bs[k] = m
        BY <1>7, <3>1
      <4>2. (k # n => k + 1 \in 1..n) /\ (k # 1 => k - 1 \in 1..n)
        BY <1>1
      <4>3. next'[m] = IF k = n THEN after ELSE bs[k + 1]
        BY <1>11, <4>1
      <4>4. prev'[m] = IF k = 1 THEN before ELSE bs[k - 1]
        BY <1>11, <4>1
      <4>. QED  BY <1>8, <1>10, <2>2, <4>2, <4>3, <4>4
    <3>2. CASE m \notin new
      BY <1>8, <1>11, <2>1, <2>2, <3>2
    <3>. QED  BY <3>1, <3>2
  <2>4. Head0 \notin new /\ Tail0 \notin new
    BY <1>7, <1>8, <2>2
  <2>5. before # Tail0 /\ after # Head0
    <3>1. 0 \in 0..(L + 1) /\ L + 1 \in 0..(L + 1) /\ i # L + 1 /\ i + 1 # 0
      BY <1>4
    <3>. QED  BY <1>4, <1>6, <1>10, <3>1
  <2>. QED  BY <1>11, <2>1, <2>2, <2>3, <2>4, <2>5
<1>22. num' = L + n
  BY <1>2, <1>3 DEF Threads
<1>23. /\ \A k \in 0..Len(t) : /\ next'[Node(t, k)] = Node(t, k + 1)
                               /\ prev'[Node(t, k + 1)] = Node(t, k)
       /\ \A k, l \in 1..Len(t) : t[k] = t[l] => k = l
       /\ \A b \in Blocks : (\A k \in 1..Len(t) : t[k] # b) => next'[b] = Nil /\ prev'[b] = Nil
       /\ num' = Len(t)
  BY <1>5, <1>16, <1>19, <1>20, <1>22
<1>. QED  BY <1>21, <1>23 DEF Threads, Node

-----------------------------------------------------------------------------
(* Every operation on the list *)

\* A stretch of the list: its length and its blocks.
LEMMA Stretch ==
    ASSUME NEW q \in Seq(Blocks), NEW m \in 1..(Len(q) + 1), NEW n \in (m - 1)..Len(q)
    PROVE  /\ SubSeq(q, m, n) \in Seq(Blocks) /\ Len(SubSeq(q, m, n)) = n - m + 1
           /\ \A k \in 1..(n - m + 1) : SubSeq(q, m, n)[k] = q[m + k - 1]
<1>1. Len(q) \in Nat /\ \A k \in 1..Len(q) : q[k] \in Blocks
  BY LenProperties, ElementOfSeq
<1>2. m \in Int /\ n \in Int /\ 1 <= m /\ m - 1 <= n /\ n <= Len(q)
  BY <1>1
<1>3. \A k \in m..n : q[k] \in Blocks
  BY <1>1, <1>2
<1>4. /\ SubSeq(q, m, n) \in Seq(Blocks)
      /\ Len(SubSeq(q, m, n)) = IF m <= n THEN n - m + 1 ELSE 0
      /\ \A k \in 1..(n - m + 1) : SubSeq(q, m, n)[k] = q[m + k - 1]
  BY <1>2, <1>3, SubSeqProperties
<1>5. (IF m <= n THEN n - m + 1 ELSE 0) = n - m + 1
  BY <1>2
<1>. QED  BY <1>4, <1>5

\* Python's list starts full, in block order.
LEMMA InitThreads == Init => Threads([i \in Blocks |-> i])
<1>. USE NumBlocks
<1>1. SUFFICES ASSUME Init PROVE Threads([i \in Blocks |-> i])
  OBVIOUS
<1>2. PICK q : q = [i \in 1..N |-> i]
  OBVIOUS
<1>3. q \in [1..N -> Blocks] /\ \A i \in 1..N : q[i] = i
  BY <1>2 DEF Blocks
<1>4. q \in Seq(Blocks) /\ Len(q) = N
  <2>1. q \in Seq(Blocks)
    BY <1>3
  <2>2. Len(q) \in Nat /\ \A k : k \in 1..Len(q) <=> k \in 1..N
    <3>1. Len(q) \in Nat /\ DOMAIN q = 1..Len(q) /\ DOMAIN q = 1..N
      BY <1>2, <2>1, LenProperties
    <3>. QED  BY <3>1
  <2>3. /\ Len(q) \in 1..Len(q) <=> Len(q) \in 1..N
        /\ N \in 1..Len(q) <=> N \in 1..N
    BY <2>2
  <2>. QED  BY <2>1, <2>2, <2>3
<1>5. \A i \in 0..(N + 1) : Node(q, i) = i
  BY <1>3, <1>4 DEF Node, Head0, Tail0
<1>6. /\ next = [m \in Nodes |-> IF m = Tail0 THEN Nil ELSE m + 1]
      /\ prev = [m \in Nodes |-> m - 1] /\ num = N
  BY <1>1 DEF Init
<1>7. \A i \in 0..N : next[Node(q, i)] = Node(q, i + 1) /\ prev[Node(q, i + 1)] = Node(q, i)
  <2>1. SUFFICES ASSUME NEW i \in 0..N
                 PROVE  next[Node(q, i)] = Node(q, i + 1) /\ prev[Node(q, i + 1)] = Node(q, i)
    OBVIOUS
  <2>2. Node(q, i) = i /\ Node(q, i + 1) = i + 1
    BY <1>5
  <2>3. i \in Nodes /\ i + 1 \in Nodes /\ i # Tail0 /\ (i + 1) - 1 = i
    BY DEF Nodes, Tail0
  <2>. QED  BY <1>6, <2>2, <2>3
<1>8. /\ next \in [Nodes -> Nodes \cup {Nil}] /\ prev \in [Nodes -> Nodes \cup {Nil}]
      /\ prev[Head0] = Nil /\ next[Tail0] = Nil
  BY <1>6 DEF Nodes, Nil, Head0, Tail0
<1>9. \A b \in Blocks : ~(\A i \in 1..N : q[i] # b)
  BY <1>3 DEF Blocks
<1>10. Threads(q)
  BY <1>3, <1>4, <1>6, <1>7, <1>8, <1>9 DEF Threads
<1>. QED  BY <1>2, <1>10 DEF Blocks

\* popleft takes the first block of a list that has one.
LEMMA PopleftThreads ==
    ASSUME NEW q, Threads(q), popleft
    PROVE  1 <= Len(q) /\ Threads(SubSeq(q, 2, Len(q)))'
<1>1. PICK L, t : L = Len(q) /\ t = SubSeq(q, 2, L)
  OBVIOUS
<1>2. /\ q \in Seq(Blocks) /\ L \in Nat
      /\ \A k \in 1..L : Node(q, k) = q[k] /\ q[k] \in Blocks
      /\ Node(q, 0) = Head0 /\ Node(q, L + 1) = Tail0
  BY <1>1, NodesDiffer DEF Threads
<1>3. \A k \in 0..L : next[Node(q, k)] = Node(q, k + 1)
  BY <1>1 DEF Threads
<1>4. 1 <= L
  <2>1. next[Node(q, 0)] = Node(q, 0 + 1) /\ next[Head0] # Tail0
    BY <1>2, <1>3 DEF popleft
  <2>2. L # 0
    BY <1>2, <2>1
  <2>. QED  BY <1>2, <2>2
<1>5. /\ t \in Seq(Blocks) /\ Len(t) = L - 1 /\ \A k \in 1..(L - 1) : t[k] = q[k + 1]
  <2>1. 2 \in 1..(L + 1) /\ L \in (2 - 1)..L /\ L - 2 + 1 = L - 1
    BY <1>2, <1>4
  <2>2. /\ SubSeq(q, 2, L) \in Seq(Blocks) /\ Len(SubSeq(q, 2, L)) = L - 2 + 1
        /\ \A k \in 1..(L - 2 + 1) : SubSeq(q, 2, L)[k] = q[2 + k - 1]
    BY <1>1, <1>2, <2>1, Stretch
  <2>3. \A k \in 1..(L - 1) : 2 + k - 1 = k + 1
    BY <1>2
  <2>. QED  BY <1>1, <2>1, <2>2, <2>3
<1>6. Cut(Node(q, 0), {q[1]}, Node(q, 2)) /\ num' = num - 1
  <2>1. next[Node(q, 0)] = Node(q, 0 + 1) /\ next[Node(q, 1)] = Node(q, 1 + 1)
    BY <1>2, <1>3, <1>4
  <2>2. next[Head0] = q[1] /\ next[next[Head0]] = Node(q, 2)
    BY <1>2, <1>4, <2>1
  <2>. QED  BY <1>2, <2>2 DEF popleft
<1>7. PICK out : out = {q[1]}
  OBVIOUS
<1>8. /\ 1 \in 1..Len(q)
      /\ out = Spots(q, 1, 1) /\ CutOut(q, 1, 1, t)
      /\ Cut(Node(q, 1 - 1), out, Node(q, 1 + 1)) /\ num' = num - (1 - 1 + 1)
  BY <1>1, <1>2, <1>4, <1>5, <1>6, <1>7 DEF Spots, CutOut
<1>9. Threads(t)'
  BY <1>8, CutThreads
<1>. QED  BY <1>1, <1>4, <1>9

\* popleft_n takes the first n blocks: the walk from the front is along the list.
LEMMA PopleftNThreads ==
    ASSUME NEW q, Threads(q), NEW n \in Blocks, popleft_n(n)
    PROVE  n <= Len(q) /\ Threads(SubSeq(q, n + 1, Len(q)))'
<1>1. PICK L, t : L = Len(q) /\ t = SubSeq(q, n + 1, L)
  OBVIOUS
<1>2. /\ q \in Seq(Blocks) /\ L \in Nat
      /\ \A k \in 1..L : Node(q, k) = q[k] /\ q[k] \in Blocks
      /\ Node(q, 0) = Head0 /\ Node(q, L + 1) = Tail0
  BY <1>1, NodesDiffer DEF Threads
<1>3. \A k \in 0..L : next[Node(q, k)] = Node(q, k + 1)
  BY <1>1 DEF Threads
<1>4. n \in Nat /\ 1 <= n /\ n <= L
  <2>1. num >= n /\ num = L
    BY <1>1 DEF popleft_n, Threads
  <2>. QED  BY <1>2, <2>1, NumBlocks DEF Blocks
<1>5. PICK w \in Walks(n) : Cut(Head0, Range(w), next[w[n]])
  BY DEF popleft_n
<1>6. /\ w \in [1..n -> Blocks] /\ w[1] = next[Head0]
      /\ \A k \in 1..(n - 1) : w[k + 1] = next[w[k]]
  BY DEF Walks
<1>. DEFINE Off == {k \in 1..n : w[k] # q[k]}
<1>7. Off = {}
  <2>1. SUFFICES ASSUME Off # {} PROVE FALSE
    OBVIOUS
  <2>2. PICK m \in Off : \A k \in Off : m <= k
    <3>1. Off \in SUBSET Nat
      BY <1>4
    <3>. QED  BY <2>1, <3>1, LeastNumber
  <2>3. m \in 1..n /\ w[m] # q[m]
    OBVIOUS
  <2>4. CASE m = 1
    <3>1. next[Node(q, 0)] = Node(q, 0 + 1)
      BY <1>2, <1>3
    <3>2. 0 + 1 = 1 /\ 1 \in 1..L
      BY <1>2, <1>4
    <3>. QED  BY <1>2, <1>6, <2>3, <2>4, <3>1, <3>2
  <2>5. CASE m # 1
    <3>1. /\ m - 1 \in 1..(n - 1) /\ m - 1 \in 1..n /\ m - 1 \in 1..L /\ m - 1 \in 0..L
          /\ m \in 1..L /\ ~(m <= m - 1) /\ (m - 1) + 1 = m
      BY <1>2, <1>4, <2>3, <2>5
    <3>2. w[m - 1] = q[m - 1]
      BY <2>2, <3>1
    <3>3. w[(m - 1) + 1] = next[w[m - 1]]
      BY <1>6, <3>1
    <3>4. next[Node(q, m - 1)] = Node(q, (m - 1) + 1)
      BY <1>3, <3>1
    <3>. QED  BY <1>2, <2>3, <3>1, <3>2, <3>3, <3>4
  <2>. QED  BY <2>4, <2>5
<1>8. \A k \in 1..n : w[k] = q[k]
  BY <1>7
<1>9. PICK out : out = Range(w)
  OBVIOUS
<1>10. out = Spots(q, 1, n)
  BY <1>6, <1>8, <1>9 DEF Range, Spots
<1>11. Cut(Node(q, 1 - 1), out, Node(q, n + 1))
  <2>1. next[Node(q, n)] = Node(q, n + 1) /\ n \in 1..n /\ n \in 1..L
    BY <1>2, <1>3, <1>4
  <2>2. next[w[n]] = Node(q, n + 1)
    BY <1>2, <1>8, <2>1
  <2>. QED  BY <1>2, <1>5, <1>9, <2>2
<1>12. /\ t \in Seq(Blocks) /\ Len(t) = L - n /\ \A k \in 1..(L - n) : t[k] = q[k + n]
  <2>1. n + 1 \in 1..(L + 1) /\ L \in ((n + 1) - 1)..L /\ L - (n + 1) + 1 = L - n
    BY <1>2, <1>4
  <2>2. /\ SubSeq(q, n + 1, L) \in Seq(Blocks) /\ Len(SubSeq(q, n + 1, L)) = L - (n + 1) + 1
        /\ \A k \in 1..(L - (n + 1) + 1) : SubSeq(q, n + 1, L)[k] = q[(n + 1) + k - 1]
    BY <1>1, <1>2, <2>1, Stretch
  <2>3. \A k \in 1..(L - n) : (n + 1) + k - 1 = k + n
    BY <1>2, <1>4
  <2>. QED  BY <1>1, <2>1, <2>2, <2>3
<1>13. /\ 1 \in 1..Len(q) /\ n \in 1..Len(q)
       /\ num' = num - (n - 1 + 1)
       /\ Len(t) = Len(q) - (n - 1 + 1)
  <2>1. n - 1 + 1 = n
    BY <1>4
  <2>2. num' = num - n
    BY DEF popleft_n
  <2>. QED  BY <1>1, <1>2, <1>4, <1>12, <2>1, <2>2
<1>14. \A k \in 1..Len(t) : t[k] = IF k < 1 THEN q[k] ELSE q[k + (n - 1 + 1)]
  <2>1. n - 1 + 1 = n
    BY <1>4
  <2>. QED  BY <1>2, <1>4, <1>12, <2>1
<1>15. CutOut(q, 1, n, t)
  BY <1>12, <1>13, <1>14 DEF CutOut
<1>16. Threads(t)'
  BY <1>10, <1>11, <1>13, <1>15, CutThreads
<1>. QED  BY <1>1, <1>4, <1>16

\* remove takes its block out of the list, which is on it for being linked.
LEMMA RemoveThreads ==
    ASSUME NEW q, Threads(q), NEW b \in Blocks, remove(b)
    PROVE  \E i \in 1..Len(q) :
              /\ q[i] = b
              /\ Threads(SubSeq(q, 1, i - 1) \o SubSeq(q, i + 1, Len(q)))'
<1>1. PICK L : L = Len(q)
  OBVIOUS
<1>2. /\ q \in Seq(Blocks) /\ L \in Nat
      /\ \A k \in 1..L : Node(q, k) = q[k] /\ q[k] \in Blocks
  BY <1>1, NodesDiffer DEF Threads
<1>3. PICK i \in 1..L : q[i] = b
  BY <1>1, ListIsLinked DEF remove
<1>4. i \in Nat /\ 1 <= i /\ i <= L
  BY <1>2
<1>5. PICK front, back, t : /\ front = SubSeq(q, 1, i - 1) /\ back = SubSeq(q, i + 1, L)
                            /\ t = front \o back
  OBVIOUS
<1>6. /\ front \in Seq(Blocks) /\ Len(front) = i - 1
      /\ \A k \in 1..(i - 1) : front[k] = q[k]
  <2>1. 1 \in 1..(L + 1) /\ i - 1 \in (1 - 1)..L /\ (i - 1) - 1 + 1 = i - 1
    BY <1>2, <1>4
  <2>2. /\ front \in Seq(Blocks) /\ Len(front) = (i - 1) - 1 + 1
        /\ \A k \in 1..((i - 1) - 1 + 1) : front[k] = q[1 + k - 1]
    BY <1>1, <1>2, <1>5, <2>1, Stretch
  <2>3. \A k \in 1..(i - 1) : 1 + k - 1 = k
    BY <1>4
  <2>. QED  BY <2>1, <2>2, <2>3
<1>7. /\ back \in Seq(Blocks) /\ Len(back) = L - i
      /\ \A k \in 1..(L - i) : back[k] = q[k + i]
  <2>1. i + 1 \in 1..(L + 1) /\ L \in ((i + 1) - 1)..L /\ L - (i + 1) + 1 = L - i
    BY <1>2, <1>4
  <2>2. /\ back \in Seq(Blocks) /\ Len(back) = L - (i + 1) + 1
        /\ \A k \in 1..(L - (i + 1) + 1) : back[k] = q[(i + 1) + k - 1]
    BY <1>1, <1>2, <1>5, <2>1, Stretch
  <2>3. \A k \in 1..(L - i) : (i + 1) + k - 1 = k + i
    BY <1>2, <1>4
  <2>. QED  BY <2>1, <2>2, <2>3
<1>8. /\ t \in Seq(Blocks) /\ Len(t) = L - 1
      /\ \A k \in 1..(L - 1) : t[k] = IF k <= i - 1 THEN front[k] ELSE back[k - (i - 1)]
  <2>1. (i - 1) + (L - i) = L - 1
    BY <1>2, <1>4
  <2>2. /\ front \o back \in Seq(Blocks) /\ Len(front \o back) = Len(front) + Len(back)
        /\ \A k \in 1..(Len(front) + Len(back)) :
              (front \o back)[k] = IF k <= Len(front) THEN front[k] ELSE back[k - Len(front)]
    <3>1. front \in Seq(Blocks) /\ back \in Seq(Blocks)
      BY <1>6, <1>7
    <3>. QED  BY <3>1, ConcatProperties
  <2>. QED  BY <1>5, <1>6, <1>7, <2>1, <2>2
<1>9. ASSUME NEW k \in 1..(L - 1) PROVE t[k] = IF k < i THEN q[k] ELSE q[k + 1]
  <2>1. CASE k < i
    <3>1. k \in 1..(i - 1) /\ k <= i - 1
      BY <1>2, <1>4, <2>1
    <3>. QED  BY <1>6, <1>8, <2>1, <3>1
  <2>2. CASE ~(k < i)
    <3>1. k - (i - 1) \in 1..(L - i) /\ ~(k <= i - 1) /\ (k - (i - 1)) + i = k + 1
      BY <1>2, <1>4, <2>2
    <3>2. back[k - (i - 1)] = q[(k - (i - 1)) + i]
      BY <1>7, <3>1
    <3>. QED  BY <1>8, <2>2, <3>1, <3>2
  <2>. QED  BY <2>1, <2>2
<1>10. Cut(Node(q, i - 1), {b}, Node(q, i + 1)) /\ num' = num - 1
  <2>1. i \in 0..Len(q) /\ i - 1 \in 0..Len(q) /\ (i - 1) + 1 = i
    BY <1>1, <1>2, <1>4
  <2>2. next[Node(q, i)] = Node(q, i + 1) /\ prev[Node(q, (i - 1) + 1)] = Node(q, i - 1)
    BY <2>1 DEF Threads
  <2>3. next[b] = Node(q, i + 1) /\ prev[b] = Node(q, i - 1)
    BY <1>2, <1>3, <2>1, <2>2
  <2>. QED  BY <2>3 DEF remove
<1>11. PICK out : out = {b}
  OBVIOUS
<1>12. out = Spots(q, i, i)
  BY <1>3, <1>4, <1>11 DEF Spots
<1>13. /\ i \in 1..Len(q) /\ i \in i..Len(q) /\ Cut(Node(q, i - 1), out, Node(q, i + 1))
       /\ num' = num - (i - i + 1) /\ Len(t) = Len(q) - (i - i + 1)
       /\ \A k \in 1..Len(t) : t[k] = IF k < i THEN q[k] ELSE q[k + (i - i + 1)]
  <2>1. i - i + 1 = 1 /\ i \in 1..L /\ i \in i..L
    BY <1>4
  <2>. QED  BY <1>1, <1>8, <1>9, <1>10, <1>11, <2>1
<1>14. CutOut(q, i, i, t)
  BY <1>8, <1>13 DEF CutOut
<1>15. Threads(t)'
  BY <1>12, <1>13, <1>14, CutThreads
<1>. QED  BY <1>1, <1>3, <1>5, <1>15

\* A list of blocks that are in use is a sequence of blocks.
LEMMA ListsAreSequences ==
    ASSUME NEW bs \in Lists(InUse)
    PROVE  /\ bs \in Seq(Blocks) /\ Len(bs) \in 1..N /\ DOMAIN bs = 1..Len(bs)
           /\ \A i \in 1..Len(bs) : bs[i] \in InUse
           /\ \A i, j \in 1..Len(bs) : bs[i] = bs[j] => i = j
<1>1. PICK n \in 1..N : /\ bs \in [1..n -> InUse]
                        /\ \A i, j \in 1..n : bs[i] = bs[j] => i = j
  BY NumBlocks DEF Lists, Injection, IsInjective
<1>2. Len(bs) = n /\ DOMAIN bs = 1..n
  BY <1>1, NumBlocks
<1>3. bs \in Seq(Blocks)
  BY <1>1, NumBlocks DEF InUse
<1>. QED  BY <1>1, <1>2, <1>3

\* append_n puts its blocks at the back.
LEMMA AppendNThreads ==
    ASSUME NEW q, Threads(q), NEW bs \in Lists(InUse), append_n(bs)
    PROVE  Threads(q \o bs)'
<1>1. PICK L, n, t : L = Len(q) /\ n = Len(bs) /\ t = q \o bs
  OBVIOUS
<1>2. /\ q \in Seq(Blocks) /\ L \in Nat
      /\ Node(q, L + 1) = Tail0 /\ bs \in Seq(Blocks) /\ n \in Nat
  BY <1>1, NodesDiffer, ListsAreSequences, NumBlocks DEF Threads
<1>3. /\ t \in Seq(Blocks) /\ Len(t) = L + n
      /\ \A k \in 1..(L + n) : t[k] = IF k <= L THEN q[k] ELSE bs[k - L]
  BY <1>1, <1>2, ConcatProperties
<1>4. ASSUME NEW k \in 1..L PROVE t[k] = q[k]
  <2>1. k \in 1..(L + n) /\ k <= L
    BY <1>2
  <2>. QED  BY <1>3, <2>1
<1>5. ASSUME NEW k \in 1..n PROVE t[L + k] = bs[k]
  <2>1. L + k \in 1..(L + n) /\ ~(L + k <= L) /\ (L + k) - L = k
    BY <1>2
  <2>. QED  BY <1>3, <2>1
<1>6. (L + 1)..L = {}
  BY <1>2
<1>7. PutIn(q, L, bs, t)
  BY <1>1, <1>3, <1>4, <1>5, <1>6 DEF PutIn
<1>8. Join(Node(q, L), bs, Node(q, L + 1)) /\ num' = num + Len(bs) /\ L \in 0..Len(q)
  <2>1. L \in 0..Len(q)
    BY <1>1, <1>2
  <2>2. prev[Tail0] = Node(q, L)
    BY <1>1, <1>2, <2>1 DEF Threads
  <2>. QED  BY <1>2, <2>1, <2>2 DEF append_n
<1>9. Threads(t)'
  BY <1>7, <1>8, JoinThreads
<1>. QED  BY <1>1, <1>9

\* append is append_n of one block.
LEMMA AppendIsAppendN ==
    ASSUME NEW b \in InUse, append(b)
    PROVE  <<b>> \in Lists(InUse) /\ append_n(<<b>>)
<1>1. <<b>> \in Lists(InUse)
  <2>1. 1 \in 1..N
    BY NumBlocks DEF InUse, Blocks
  <2>2. <<b>> \in [1..1 -> InUse] /\ IsInjective(<<b>>)
    BY DEF IsInjective
  <2>. QED  BY <2>1, <2>2 DEF Lists, Injection
<1>2. Len(<<b>>) = 1
  OBVIOUS
<1>. QED  BY <1>1, <1>2 DEF append, append_n

\* prepend_n puts its blocks at the front.
LEMMA PrependNThreads ==
    ASSUME NEW q, Threads(q), NEW bs \in Lists(InUse), prepend_n(bs)
    PROVE  Threads(bs \o q)'
<1>1. PICK L, n, t : L = Len(q) /\ n = Len(bs) /\ t = bs \o q
  OBVIOUS
<1>2. /\ q \in Seq(Blocks) /\ L \in Nat
      /\ Node(q, 0) = Head0 /\ bs \in Seq(Blocks) /\ n \in Nat
  BY <1>1, NodesDiffer, ListsAreSequences, NumBlocks DEF Threads
<1>3. /\ t \in Seq(Blocks) /\ Len(t) = n + L
      /\ \A k \in 1..(n + L) : t[k] = IF k <= n THEN bs[k] ELSE q[k - n]
  BY <1>1, <1>2, ConcatProperties
<1>4. ASSUME NEW k \in 1..n PROVE t[0 + k] = bs[k]
  <2>1. k \in 1..(n + L) /\ k <= n /\ 0 + k = k
    BY <1>2
  <2>. QED  BY <1>3, <2>1
<1>5. ASSUME NEW k \in (0 + 1)..L PROVE t[k + n] = q[k]
  <2>1. k + n \in 1..(n + L) /\ ~(k + n <= n) /\ (k + n) - n = k
    BY <1>2
  <2>. QED  BY <1>3, <2>1
<1>6. 1..0 = {} /\ n + L = L + n
  BY <1>2
<1>7. PutIn(q, 0, bs, t)
  BY <1>1, <1>3, <1>4, <1>5, <1>6 DEF PutIn
<1>8. Join(Node(q, 0), bs, Node(q, 0 + 1)) /\ num' = num + Len(bs) /\ 0 \in 0..Len(q)
  <2>1. 0 \in 0..Len(q)
    BY <1>1, <1>2
  <2>2. next[Head0] = Node(q, 0 + 1)
    BY <1>2, <2>1 DEF Threads
  <2>. QED  BY <1>2, <2>1, <2>2 DEF prepend_n
<1>9. Threads(t)'
  BY <1>7, <1>8, JoinThreads
<1>. QED  BY <1>1, <1>9

\* Stuttering leaves the list as it is.
LEMMA StutterThreads == ASSUME NEW q, Threads(q), UNCHANGED vars PROVE Threads(q)'
  BY DEF Threads, vars, Node

-----------------------------------------------------------------------------
(* The theorems *)

\* The links always thread some sequence of distinct blocks.
Threaded == \E q : Threads(q)

\* Every operation keeps the links a list: each of them cuts a stretch out or joins
\* blocks that are in use in.
LEMMA AlwaysThreaded == Spec => []Threaded
<1>1. Init => Threaded
  BY InitThreads DEF Threaded
<1>2. Threaded /\ [Next]_vars => Threaded'
  <2>1. SUFFICES ASSUME Threaded, [Next]_vars PROVE \E q : Threads(q)'
    BY DEF Threaded
  <2>2. PICK q : Threads(q)
    BY <2>1 DEF Threaded
  <2>3. CASE popleft
    BY <2>2, <2>3, PopleftThreads
  <2>4. CASE \E n \in Blocks : popleft_n(n)
    BY <2>2, <2>4, PopleftNThreads
  <2>5. CASE \E b \in Blocks : remove(b)
    BY <2>2, <2>5, RemoveThreads
  <2>6. CASE \E b \in InUse : append(b)
    BY <2>2, <2>6, AppendIsAppendN, AppendNThreads
  <2>7. CASE \E bs \in Lists(InUse) : prepend_n(bs)
    BY <2>2, <2>7, PrependNThreads
  <2>8. CASE \E bs \in Lists(InUse) : append_n(bs)
    BY <2>2, <2>8, AppendNThreads
  <2>9. CASE UNCHANGED vars
    BY <2>2, <2>9, StutterThreads
  <2>. QED  BY <2>1, <2>3, <2>4, <2>5, <2>6, <2>7, <2>8, <2>9 DEF Next
<1>. QED  BY <1>1, <1>2, PTL DEF Spec

\* num_free_blocks is the number of blocks a walk over the free list meets, and they
\* are the linked ones, for every number of blocks: a claim out of the middle or a
\* batch put back at either end never loses a block or counts one twice.
THEOREM CountAlwaysExact == Spec => []CountExact
<1>1. Threaded => CountExact
  <2>1. SUFFICES ASSUME NEW q, Threads(q) PROVE CountExact
    BY DEF Threaded
  <2>2. get_all_free_blocks = q
    BY <2>1, FreeBlocksAre
  <2>3. /\ \A b \in Blocks : Linked(b) <=> \E i \in 1..Len(q) : q[i] = b
        /\ q \in Seq(Blocks) /\ num = Len(q)
    BY <2>1, ListIsLinked DEF Threads
  <2>4. DOMAIN q = 1..Len(q) /\ \A i \in 1..Len(q) : q[i] \in Blocks
    BY <2>3, LenProperties, ElementOfSeq
  <2>5. Range(q) = {b \in Blocks : Linked(b)}
    BY <2>3, <2>4 DEF Range
  <2>. QED  BY <2>2, <2>3, <2>5 DEF CountExact
<1>. QED  BY <1>1, AlwaysThreaded, PTL

\* Each operation does to the list what FreeBlocks says.
LEMMA OperationsAreKept ==
    ASSUME Threaded
    PROVE  /\ popleft => Promise!Take(1)
           /\ \A n \in Blocks : popleft_n(n) => Promise!Take(n)
           /\ \A b \in Blocks : remove(b) => Promise!Claim(b)
           /\ \A b \in InUse : append(b) => Promise!Free(<<b>>)
           /\ \A bs \in Lists(InUse) :
                 /\ prepend_n(bs) => Promise!GiveFirst(bs)
                 /\ append_n(bs) => Promise!Free(bs)
<1>1. PICK q : Threads(q)
  BY DEF Threaded
<1>2. get_all_free_blocks = q
  BY <1>1, FreeBlocksAre
<1>3. ASSUME popleft PROVE Promise!Take(1)
  <2>1. 1 <= Len(q) /\ Threads(SubSeq(q, 2, Len(q)))'
    BY <1>1, <1>3, PopleftThreads
  <2>2. get_all_free_blocks' = SubSeq(q, 2, Len(q))
    BY <2>1, FreeBlocksBecome
  <2>3. 1 + 1 = 2
    OBVIOUS
  <2>. QED  BY <1>2, <2>1, <2>2, <2>3 DEF Promise!Take
<1>4. ASSUME NEW n \in Blocks, popleft_n(n) PROVE Promise!Take(n)
  <2>1. n <= Len(q) /\ Threads(SubSeq(q, n + 1, Len(q)))'
    BY <1>1, <1>4, PopleftNThreads
  <2>2. get_all_free_blocks' = SubSeq(q, n + 1, Len(q))
    BY <2>1, FreeBlocksBecome
  <2>. QED  BY <1>2, <2>1, <2>2 DEF Promise!Take
<1>5. ASSUME NEW b \in Blocks, remove(b) PROVE Promise!Claim(b)
  <2>1. PICK i \in 1..Len(q) :
           /\ q[i] = b
           /\ Threads(SubSeq(q, 1, i - 1) \o SubSeq(q, i + 1, Len(q)))'
    BY <1>1, <1>5, RemoveThreads
  <2>2. get_all_free_blocks' = SubSeq(q, 1, i - 1) \o SubSeq(q, i + 1, Len(q))
    BY <2>1, FreeBlocksBecome
  <2>3. DOMAIN q = 1..Len(q)
    BY <1>1, LenProperties DEF Threads
  <2>. QED  BY <1>2, <2>1, <2>2, <2>3 DEF Promise!Claim
<1>6. ASSUME NEW bs \in Lists(InUse), append_n(bs) PROVE Promise!Free(bs)
  <2>1. Threads(q \o bs)'
    BY <1>1, <1>6, AppendNThreads
  <2>2. get_all_free_blocks' = q \o bs
    BY <2>1, FreeBlocksBecome
  <2>. QED  BY <1>2, <2>2 DEF Promise!Free
<1>7. ASSUME NEW b \in InUse, append(b) PROVE Promise!Free(<<b>>)
  BY <1>6, <1>7, AppendIsAppendN
<1>8. ASSUME NEW bs \in Lists(InUse), prepend_n(bs) PROVE Promise!GiveFirst(bs)
  <2>1. Threads(bs \o q)'
    BY <1>1, <1>8, PrependNThreads
  <2>2. get_all_free_blocks' = bs \o q
    BY <2>1, FreeBlocksBecome
  <2>. QED  BY <1>2, <2>2 DEF Promise!GiveFirst
<1>. QED  BY <1>3, <1>4, <1>5, <1>6, <1>7, <1>8

\* What callers give back is a list of blocks that are not on the free list.
LEMMA GivenBackWereTaken ==
    ASSUME Threaded
    PROVE  Lists(InUse) = Promise!Lists(Promise!Blocks \ Promise!Range(get_all_free_blocks))
<1>1. PICK q : Threads(q)
  BY DEF Threaded
<1>2. get_all_free_blocks = q
  BY <1>1, FreeBlocksAre
<1>3. DOMAIN q = 1..Len(q)
  BY <1>1, LenProperties DEF Threads
<1>4. InUse = Blocks \ Range(q)
  BY <1>1, <1>3, ListIsLinked DEF InUse, Range
<1>5. Promise!Blocks \ Promise!Range(q) = InUse
  BY <1>4 DEF Promise!Blocks, Promise!Range, Blocks, Range
<1>. QED  BY <1>2, <1>5 DEF Lists, Promise!Lists, Promise!Injection, Injection,
                            Promise!IsInjective, IsInjective

\* The linked list implements the sequence in eviction order that FreeBlocks
\* promises the cache, each operation its own counterpart, for every number of
\* blocks.
THEOREM EvictionOrderIsKept == Spec => KeepsEvictionOrder
<1>1. Init => Promise!Init
  <2>1. SUFFICES ASSUME Init PROVE get_all_free_blocks = [i \in Blocks |-> i]
    BY DEF Promise!Init, Promise!Blocks, Blocks
  <2>. QED  BY <2>1, InitThreads, FreeBlocksAre
<1>2. Threaded /\ [Next]_vars => [Promise!Next]_get_all_free_blocks
  <2>1. SUFFICES ASSUME Threaded, [Next]_vars PROVE [Promise!Next]_get_all_free_blocks
    OBVIOUS
  <2>2. CASE UNCHANGED vars
    <3>1. PICK q : Threads(q)
      BY <2>1 DEF Threaded
    <3>2. Threads(q)'
      BY <2>2, <3>1, StutterThreads
    <3>3. get_all_free_blocks = q /\ get_all_free_blocks' = q
      BY <3>1, <3>2, FreeBlocksAre, FreeBlocksBecome
    <3>. QED  BY <3>3
  <2>3. CASE popleft
    <3>1. PICK q : Threads(q)
      BY <2>1 DEF Threaded
    <3>2. 1 <= Len(q) /\ Len(q) <= N /\ Len(q) \in Nat
      BY <2>3, <3>1, PopleftThreads, ListIsShort, LenProperties DEF Threads
    <3>3. 1 \in Promise!Blocks
      BY <3>2, NumBlocks DEF Promise!Blocks
    <3>. QED  BY <2>1, <2>3, <3>3, OperationsAreKept DEF Promise!Next
  <2>4. CASE \E n \in Blocks : popleft_n(n)
    BY <2>1, <2>4, OperationsAreKept DEF Promise!Next, Promise!Blocks, Blocks
  <2>5. CASE \E b \in Blocks : remove(b)
    BY <2>1, <2>5, OperationsAreKept DEF Promise!Next, Promise!Blocks, Blocks
  <2>6. CASE \E bs \in Lists(InUse) : prepend_n(bs) \/ append_n(bs)
    BY <2>1, <2>6, OperationsAreKept, GivenBackWereTaken DEF Promise!Next
  <2>7. CASE \E b \in InUse : append(b)
    <3>1. \E bs \in Lists(InUse) : append_n(bs)
      BY <2>7, AppendIsAppendN
    <3>. QED  BY <2>6, <3>1
  <2>. QED  BY <2>1, <2>2, <2>3, <2>4, <2>5, <2>6, <2>7 DEF Next
<1>. DEFINE Kept == /\ popleft => Promise!Take(1)
                    /\ \A n \in Blocks : popleft_n(n) => Promise!Take(n)
                    /\ \A b \in Blocks : remove(b) => Promise!Claim(b)
                    /\ \A b \in InUse : append(b) => Promise!Free(<<b>>)
                    /\ \A bs \in Lists(InUse) :
                          /\ prepend_n(bs) => Promise!GiveFirst(bs)
                          /\ append_n(bs) => Promise!Free(bs)
<1>3. Threaded => Kept
  BY OperationsAreKept
<1>4. KeepsEvictionOrder <=> Promise!Spec /\ [][Kept]_vars
  BY DEF KeepsEvictionOrder
<1>. HIDE DEF Kept
<1>5. Spec => Promise!Spec /\ [][Kept]_vars
  BY <1>1, <1>2, <1>3, AlwaysThreaded, PTL DEF Spec, Promise!Spec
<1>. QED  BY <1>4, <1>5

\* The links of the free-block queue mirror each other whatever the cache takes
\* and gives back, for every number of blocks: no operation of
\* FreeKVCacheBlockQueue leaves a block half linked.
THEOREM LinksAlwaysMirror == Spec => []LinksMirror
<1>1. Threaded => LinksMirror
  <2>1. SUFFICES ASSUME NEW q, Threads(q) PROVE LinksMirror
    BY DEF Threaded
  <2>2. PICK L : L = Len(q)
    OBVIOUS
  <2>3. /\ L \in Nat /\ \A i \in 1..L : Node(q, i) = q[i]
        /\ Node(q, 0) = Head0 /\ Node(q, L + 1) = Tail0
        /\ \A i \in 0..(L + 1) : Node(q, i) \in Nodes
    BY <2>1, <2>2, NodesDiffer DEF Threads
  <2>4. /\ next \in [Nodes -> Nodes \cup {Nil}] /\ prev \in [Nodes -> Nodes \cup {Nil}]
        /\ prev[Head0] = Nil /\ next[Tail0] = Nil
        /\ \A i \in 0..L : /\ next[Node(q, i)] = Node(q, i + 1)
                           /\ prev[Node(q, i + 1)] = Node(q, i)
        /\ \A b \in Blocks : (\A i \in 1..L : q[i] # b) => next[b] = Nil /\ prev[b] = Nil
    BY <2>1, <2>2 DEF Threads
  <2>5. Nil \notin Nodes
    BY NumBlocks DEF Nil, Nodes
  <2>6. \A m \in Nodes : m = Head0 \/ m = Tail0 \/ m \in Blocks
    BY NumBlocks DEF Nodes, Head0, Tail0, Blocks
  <2>7. ASSUME NEW m \in Nodes
        PROVE  (\E i \in 0..(L + 1) : Node(q, i) = m) \/ (m \in Blocks /\ next[m] = Nil /\ prev[m] = Nil)
    <3>1. 0 \in 0..(L + 1) /\ L + 1 \in 0..(L + 1) /\ \A i \in 1..L : i \in 0..(L + 1)
      BY <2>3
    <3>. QED  BY <2>3, <2>4, <2>6, <3>1
  <2>8. next[Head0] # Nil /\ prev[Tail0] # Nil
    <3>1. 0 \in 0..L /\ L \in 0..L /\ 0 + 1 \in 0..(L + 1) /\ L \in 0..(L + 1)
      BY <2>3
    <3>2. next[Node(q, 0)] = Node(q, 0 + 1) /\ prev[Node(q, L + 1)] = Node(q, L)
      BY <2>4, <3>1
    <3>. QED  BY <2>3, <2>5, <3>1, <3>2
  <2>9. \A b \in Blocks : next[b] = Nil <=> prev[b] = Nil
    <3>1. SUFFICES ASSUME NEW b \in Blocks, NEW i \in 1..L, q[i] = b
                   PROVE  next[b] # Nil /\ prev[b] # Nil
      BY <2>4
    <3>2. Linked(b)
      BY <2>1, <2>2, <3>1, ListIsLinked
    <3>. QED  BY <3>2 DEF Linked
  <2>10. ASSUME NEW m \in Nodes, next[m] # Nil PROVE prev[next[m]] = m
    <3>1. PICK i \in 0..(L + 1) : Node(q, i) = m
      BY <2>7, <2>10
    <3>2. i \in 0..L
      BY <2>3, <2>4, <2>10, <3>1
    <3>. QED  BY <2>4, <3>1, <3>2
  <2>11. ASSUME NEW m \in Nodes, prev[m] # Nil PROVE next[prev[m]] = m
    <3>1. PICK i \in 0..(L + 1) : Node(q, i) = m
      BY <2>7, <2>11
    <3>2. i - 1 \in 0..L /\ (i - 1) + 1 = i
      BY <2>3, <2>4, <2>11, <3>1
    <3>3. /\ next[Node(q, i - 1)] = Node(q, (i - 1) + 1)
          /\ prev[Node(q, (i - 1) + 1)] = Node(q, i - 1)
      BY <2>4, <3>2
    <3>. QED  BY <3>1, <3>2, <3>3
  <2>. QED  BY <2>4, <2>8, <2>9, <2>10, <2>11 DEF LinksMirror
<1>. QED  BY <1>1, AlwaysThreaded, PTL
=============================================================================
