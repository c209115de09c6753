-------------------------- MODULE Scheduler_proofs --------------------------
(***************************************************************************)
(* Theorems about Scheduler for every number of requests and blocks, every *)
(* pipeline depth, budget and draft length.                                *)
(*                                                                         *)
(* First come those about the chunks of a prefill (PrefillSplit), which    *)
(* need no state: what the aligned split and the reservation for the       *)
(* drafter guarantee for every block and hash size, limit and prompt.      *)
(***************************************************************************)
EXTENDS Scheduler, SequenceTheorems, TLAPS, FiniteSetTheorems

Prompts == [prompt : Nat, tokens : Nat]

-----------------------------------------------------------------------------
(* Multiples of a block *)

\* Rounding down stays within a block, and lands on a multiple of it.
LEMMA FloorBounds ==
  ASSUME NEW n \in Nat, NEW size \in Nat \ {0}
  PROVE  /\ Floor(n, size) \in Nat /\ Floor(n, size) <= n /\ n < Floor(n, size) + size
         /\ Floor(n, size) % size = 0
  BY DEF Floor

\* The multiples of a size are its products.
LEMMA Multiples ==
  ASSUME NEW size \in Nat \ {0}
  PROVE  /\ \A k \in Nat : (size * k) % size = 0
         /\ \A m \in Nat : m % size = 0 => \E k \in Nat : m = size * k
<1>1. \A k \in Nat : (size * k) % size = 0
  OBVIOUS
<1>2. ASSUME NEW m \in Nat, m % size = 0 PROVE \E k \in Nat : m = size * k
  <2>1. m = size * (m \div size) /\ m \div size \in Nat
    BY <1>2
  <2> QED BY <2>1
<1> QED
  BY <1>1, <1>2

\* Sums of multiples, and a multiple less one size, are multiples.
LEMMA SumOfMultiples ==
  ASSUME NEW size \in Nat \ {0}, NEW a \in Nat, NEW b \in Nat,
         a % size = 0, b % size = 0
  PROVE  /\ (a + b) % size = 0
         /\ a >= size => (a - size) % size = 0
<1>1. PICK i \in Nat : a = size * i
  BY Multiples
<1>2. PICK j \in Nat : b = size * j
  BY Multiples
<1>3. a + b = size * (i + j) /\ i + j \in Nat
  BY <1>1, <1>2
<1>4. (a + b) % size = 0
  <2> DEFINE k == i + j
  <2>1. k \in Nat /\ a + b = size * k
    BY <1>3
  <2> HIDE DEF k
  <2>2. (size * k) % size = 0
    BY <2>1, Multiples, Zenon
  <2> QED BY <2>1, <2>2, Zenon
<1>5. ASSUME a >= size PROVE (a - size) % size = 0
  <2> DEFINE k == i - 1
  <2>1. i # 0
    BY <1>1, <1>5
  <2>2. k \in Nat /\ a - size = size * k
    BY <1>1, <2>1
  <2> HIDE DEF k
  <2>3. (size * k) % size = 0
    BY <2>2, Multiples, Zenon
  <2> QED BY <2>2, <2>3, Zenon
<1> QED
  BY <1>4, <1>5

\* The end of the block a chunk starts inside of is the first multiple after it.
LEMMA BlockEndBounds ==
  ASSUME NEW c \in SplitConfigs, NEW start \in Nat, start % c.block # 0
  PROVE  /\ BlockEnd(c, start) \in Nat /\ start < BlockEnd(c, start)
         /\ BlockEnd(c, start) <= start + c.block
         /\ BlockEnd(c, start) % c.block = 0
<1>1. c.block \in Nat \ {0}
  BY DEF SplitConfigs
<1> DEFINE size == c.block
           f == Floor(start, size)
<1>2. f \in Nat /\ f <= start /\ start < f + size /\ f % size = 0
  BY <1>1, FloorBounds
<1>3. BlockEnd(c, start) = f + size
  BY DEF BlockEnd
<1> HIDE DEF size, f
<1>4. size \in Nat \ {0}
  BY <1>1 DEF size
<1>5. (f + size) % size = 0
  <2>1. size % size = 0
    BY <1>4
  <2> QED BY <1>2, <1>4, <2>1, SumOfMultiples
<1> QED
  BY <1>2, <1>3, <1>4, <1>5 DEF size

-----------------------------------------------------------------------------
(* The earliest stop *)

\* The least of five integers is one of them.
LEMMA LeastExists ==
  ASSUME NEW E, NEW end \in Int, end \in E,
         NEW s1 \in Int, NEW s2 \in Int, NEW s3 \in Int, NEW s4 \in Int,
         E \subseteq {s1, s2, s3, s4, end}
  PROVE  \E e \in E : \A s \in E : e <= s
  OBVIOUS

\* A chunk ends at its own end or at a stop strictly inside it, and runs past none.
LEMMA EarliestStopIs ==
  ASSUME NEW start \in Int, NEW end \in Int,
         NEW s1 \in Int, NEW s2 \in Int, NEW s3 \in Int, NEW s4 \in Int,
         NEW stops, stops = {s1, s2, s3, s4},
         NEW e, e = EarliestStop(start, end, stops)
  PROVE  /\ e \in Int /\ e <= end
         /\ e = end \/ (e \in stops /\ start < e)
         /\ \A s \in stops : start < s /\ s < end => e <= s
<1> DEFINE ends == {s \in stops : start < s /\ s < end} \cup {end}
<1>1. \E x \in ends : \A s \in ends : x <= s
  <2>1. end \in ends /\ ends \subseteq {s1, s2, s3, s4, end}
    OBVIOUS
  <2> HIDE DEF ends
  <2> QED BY <2>1, LeastExists
<1>2. e \in ends /\ \A s \in ends : e <= s
  <2>1. e = CHOOSE x \in ends : \A s \in ends : x <= s
    BY DEF EarliestStop
  <2> HIDE DEF ends
  <2> QED BY <1>1, <2>1
<1> QED
  BY <1>2

-----------------------------------------------------------------------------
(* How the split ends *)

\* The stops are positions, and but for the finer ones they are ends of blocks.
LEMMA StopTypes ==
  ASSUME NEW c \in SplitConfigs, NEW q \in Prompts, NEW start \in Nat, NEW end \in Int
  PROVE  /\ BlockEnd(c, start) \in Nat /\ LastCachePosition(c, q) \in Nat
         /\ TailBoundary(c, q) \in Nat /\ JunctionStop(c, q, start, end) \in Nat
         /\ PrefillEnd(q) \in Int
         /\ BlockEnd(c, start) % c.block = 0
         /\ LastCachePosition(c, q) % c.block = 0
<1>1. /\ c.block \in Nat \ {0} /\ c.hash \in Nat \ {0} /\ c.junction \in Nat
      /\ q.prompt \in Nat /\ q.tokens \in Nat
  BY DEF SplitConfigs, Prompts
<1>2. 0 % c.block = 0
  BY <1>1
<1>3. BlockEnd(c, start) \in Nat /\ BlockEnd(c, start) % c.block = 0
  <2>1. CASE start % c.block = 0
    BY <1>2, <2>1 DEF BlockEnd
  <2>2. CASE start % c.block # 0
    BY <2>2, BlockEndBounds
  <2> QED BY <2>1, <2>2
<1>4. LastCachePosition(c, q) \in Nat /\ LastCachePosition(c, q) % c.block = 0
  <2> DEFINE f == Floor(q.tokens, c.block)
  <2>1. f \in Nat /\ f % c.block = 0
    BY <1>1, FloorBounds
  <2>2. LastCachePosition(c, q) = IF c.drop THEN Positive(f - c.block) ELSE f
    BY DEF LastCachePosition
  <2> HIDE DEF f
  <2>3. f >= c.block => (f - c.block) % c.block = 0
    BY <1>1, <1>2, <2>1, SumOfMultiples
  <2>4. Positive(f - c.block) \in Nat /\ Positive(f - c.block) % c.block = 0
    BY <1>1, <1>2, <2>1, <2>3 DEF Positive
  <2> QED BY <2>1, <2>2, <2>4
<1>5. TailBoundary(c, q) \in Nat
  <2> DEFINE f == Floor(q.prompt, c.hash)
  <2>1. f \in Nat
    BY <1>1, FloorBounds
  <2> HIDE DEF f
  <2>2. Positive(f - c.hash) \in Nat
    BY <1>1, <2>1 DEF Positive
  <2> QED BY <2>1, <2>2 DEF TailBoundary, f
<1>6. JunctionStop(c, q, start, end) \in Nat
  <2>1. CASE start < c.junction
    <3> DEFINE gap == c.junction - start
    <3>1. gap \in Nat
      BY <1>1, <2>1
    <3> HIDE DEF gap
    <3>2. Floor(gap, c.block) \in Nat
      BY <1>1, <3>1, FloorBounds
    <3> QED BY <1>1, <3>2 DEF JunctionStop, gap
  <2>2. CASE ~(start < c.junction)
    BY <2>2 DEF JunctionStop
  <2> QED BY <2>1, <2>2
<1>7. PrefillEnd(q) \in Int
  BY <1>1 DEF PrefillEnd
<1> QED
  BY <1>3, <1>4, <1>5, <1>6, <1>7

\* The end the alignment gives a chunk.
LEMMA AlignedEndIs ==
  ASSUME NEW c \in SplitConfigs, NEW q \in Prompts, NEW start \in Nat, NEW n \in Nat
  PROVE  LET end == AlignedEnd(c, q, start, start + n)
         IN  /\ end \in Nat /\ end <= start + n
             /\ end = start + n \/ end % c.block = 0
             /\ c.block <= n => start < end
             /\ start + n >= PrefillEnd(q) => end = start + n
             /\ c.block <= c.max_chunk /\ start + n < PrefillEnd(q) => end % c.block = 0
<1> DEFINE m == start + n
           f == Floor(m, c.block)
<1>1. c.block \in Nat \ {0} /\ c.max_chunk \in Nat /\ m \in Nat /\ PrefillEnd(q) \in Int
  BY StopTypes DEF SplitConfigs
<1>2. f \in Nat /\ f <= m /\ m < f + c.block /\ f % c.block = 0
  BY <1>1, FloorBounds
<1>3. AlignedEnd(c, q, start, m)
        = IF m < PrefillEnd(q) /\ (f > start \/ c.block <= c.max_chunk) THEN f ELSE m
  BY DEF AlignedEnd
<1> HIDE DEF f
<1>4. c.block <= n => start < f /\ start < m
  BY <1>1, <1>2
<1> QED
  BY <1>1, <1>2, <1>3, <1>4

\* The split of n tokens from start on ends the chunk at e.
SplitsAt(c, q, start, n, e) ==
  LET end == AlignedEnd(c, q, start, start + n)
      stops == {BlockEnd(c, start), LastCachePosition(c, q), TailBoundary(c, q),
                JunctionStop(c, q, start, end)}
  IN  /\ BlockAligned(c, q, start, n) = Positive(e - start)
      /\ e <= end
      /\ e = end \/ start < e
      /\ e = end \/ e \in stops
      /\ \A s \in stops : start < s /\ s < end => e <= s

\* Inside a prefill every chunk has such an end.
LEMMA SplitEnd ==
  ASSUME NEW c \in SplitConfigs, NEW q \in Prompts, NEW start \in Nat, NEW n \in Nat,
         start < PrefillEnd(q)
  PROVE  \E e \in Int : SplitsAt(c, q, start, n, e)
<1> DEFINE end == AlignedEnd(c, q, start, start + n)
           s1 == BlockEnd(c, start)
           s2 == LastCachePosition(c, q)
           s3 == TailBoundary(c, q)
           s4 == JunctionStop(c, q, start, end)
           stops == {s1, s2, s3, s4}
           e == EarliestStop(start, end, stops)
<1>1. end \in Nat
  BY AlignedEndIs
<1>2. BlockAligned(c, q, start, n) = Positive(e - start)
  <2>1. ~(start >= PrefillEnd(q))
    BY StopTypes
  <2> QED BY <2>1, Zenon DEF BlockAligned
<1> HIDE DEF end
<1>3. s1 \in Int /\ s2 \in Int /\ s3 \in Int /\ s4 \in Int
  BY <1>1, StopTypes
<1>4. /\ e \in Int /\ e <= end
      /\ e = end \/ start < e
      /\ e = end \/ e \in stops
      /\ \A s \in stops : start < s /\ s < end => e <= s
  <2>1. start \in Int /\ end \in Int
    BY <1>1
  <2>2. stops = {s1, s2, s3, s4} /\ e = EarliestStop(start, end, stops)
    OBVIOUS
  <2> HIDE DEF s1, s2, s3, s4, stops, e
  <2> QED BY <1>3, <2>1, <2>2, EarliestStopIs
<1> HIDE DEF e
<1>5. SplitsAt(c, q, start, n, e)
  BY <1>2, <1>4, Zenon DEF SplitsAt, end
<1> QED
  BY <1>4, <1>5

-----------------------------------------------------------------------------
(* What the split guarantees *)

\* The split only clips: it never asks for more than the budgets left, and never
\* for a negative number of tokens (scheduler.py:520-523).
THEOREM SplitWithinBudget ==
  ASSUME NEW c \in SplitConfigs, NEW q \in Prompts, NEW start \in Nat, NEW n \in Nat
  PROVE  BlockAligned(c, q, start, n) \in 0..n
<1> DEFINE end == AlignedEnd(c, q, start, start + n)
<1>1. end \in Nat /\ end <= start + n
  BY AlignedEndIs
<1>2. CASE start < PrefillEnd(q)
  <2>1. PICK e \in Int : SplitsAt(c, q, start, n, e)
    BY <1>2, SplitEnd
  <2>2. BlockAligned(c, q, start, n) = Positive(e - start) /\ e <= end
    BY <2>1, Zenon DEF SplitsAt
  <2> HIDE DEF end
  <2> QED BY <1>1, <2>2 DEF Positive
<1>3. CASE ~(start < PrefillEnd(q))
  <2>1. start >= PrefillEnd(q)
    BY <1>3, StopTypes
  <2>2. BlockAligned(c, q, start, n) = n
    BY <2>1, Zenon DEF BlockAligned
  <2> QED BY <2>2
<1> QED
  BY <1>2, <1>3

\* The split does not starve a request that has the budget: with a block's worth of
\* tokens, or with what is left of the prefill, it always moves on.  This is what
\* keeps "insufficient budget for a block-aligned chunk" (scheduler.py:733-734) from
\* being permanent.
THEOREM SplitAdvances ==
  ASSUME NEW c \in SplitConfigs, NEW q \in Prompts, NEW start \in Nat, NEW n \in Nat,
         c.block <= n \/ (0 < n /\ start + n >= PrefillEnd(q))
  PROVE  BlockAligned(c, q, start, n) > 0
<1> DEFINE end == AlignedEnd(c, q, start, start + n)
<1>1. c.block \in Nat \ {0} /\ PrefillEnd(q) \in Int
  BY StopTypes DEF SplitConfigs
<1>2. end \in Nat /\ start < end /\ n > 0
  <2>1. /\ end \in Nat
        /\ c.block <= n => start < end
        /\ start + n >= PrefillEnd(q) => end = start + n
    BY AlignedEndIs
  <2> HIDE DEF end
  <2> QED BY <1>1, <2>1
<1>3. CASE start < PrefillEnd(q)
  <2>1. PICK e \in Int : SplitsAt(c, q, start, n, e)
    BY <1>3, SplitEnd
  <2>2. BlockAligned(c, q, start, n) = Positive(e - start) /\ (e = end \/ start < e)
    BY <2>1, Zenon DEF SplitsAt
  <2> HIDE DEF end
  <2> QED BY <1>2, <2>2 DEF Positive
<1>4. CASE ~(start < PrefillEnd(q))
  <2>1. start >= PrefillEnd(q)
    BY <1>1, <1>4
  <2>2. BlockAligned(c, q, start, n) = n
    BY <2>1, Zenon DEF BlockAligned
  <2> HIDE DEF end
  <2> QED BY <1>2, <2>2
<1> QED
  BY <1>3, <1>4

\* Recurrent states can be cached: a chunk that leaves part of the prefill ends with a
\* block, so that the block's slot holds the state after exactly its tokens, or at the
\* prompt's last hash unit or the shared prefix's end, where the manager keeps a
\* partial state (the invariant at scheduler.py:464-468).
THEOREM StatesAreCacheable ==
  ASSUME NEW c \in SplitConfigs, NEW q \in Prompts, NEW start \in Nat, NEW n \in Nat,
         c.block <= c.max_chunk,
         NEW m, m = BlockAligned(c, q, start, n), m > 0, start + m < PrefillEnd(q)
  PROVE  \/ (start + m) % c.block = 0
         \/ start + m = TailBoundary(c, q)
         \/ c.shared /\ start + m = c.junction
<1> DEFINE end == AlignedEnd(c, q, start, start + n)
           jump == JunctionStop(c, q, start, end)
           last == BlockEnd(c, start)
           stops == {last, LastCachePosition(c, q), TailBoundary(c, q), jump}
<1>1. c.block \in Nat \ {0} /\ c.junction \in Nat /\ PrefillEnd(q) \in Int
  BY StopTypes DEF SplitConfigs
<1>2. /\ end \in Nat
      /\ start + n >= PrefillEnd(q) => end = start + n
      /\ start + n < PrefillEnd(q) => end % c.block = 0
  BY AlignedEndIs
<1>3. /\ last \in Nat /\ last % c.block = 0 /\ LastCachePosition(c, q) % c.block = 0
      /\ jump \in Nat
  BY <1>2, StopTypes
<1>4. m \in 0..n
  BY SplitWithinBudget
<1>5. start < PrefillEnd(q)
  BY <1>1, <1>4
<1>6. PICK e \in Int : SplitsAt(c, q, start, n, e)
  BY <1>5, SplitEnd
<1>7. /\ m = Positive(e - start)
      /\ e <= end
      /\ e = end \/ e \in stops
      /\ \A s \in stops : start < s /\ s < end => e <= s
  BY <1>6, Zenon DEF SplitsAt
<1> HIDE DEF end, jump, last
<1>8. e = start + m
  BY <1>4, <1>7 DEF Positive
<1>9. CASE e = end
  BY <1>1, <1>2, <1>4, <1>8, <1>9
<1>10. CASE e # end /\ e = jump
  <2> DEFINE gap == c.junction - start
             whole == Floor(gap, c.block)
  <2>1. /\ start < c.junction
        /\ jump = IF c.shared /\ c.junction <= q.prompt THEN c.junction ELSE start + whole
    <3>1. jump # 0
      BY <1>4, <1>8, <1>10
    <3> QED BY <3>1 DEF JunctionStop, jump
  <2>2. gap \in Nat
    BY <1>1, <2>1
  <2> HIDE DEF gap
  <2>3. whole \in Nat /\ whole % c.block = 0
    BY <1>1, <2>2, FloorBounds
  <2> HIDE DEF whole
  <2>4. CASE c.shared /\ c.junction <= q.prompt
    BY <1>8, <1>10, <2>1, <2>4
  <2>5. CASE ~(c.shared /\ c.junction <= q.prompt)
    <3>1. e = start + whole
      BY <1>10, <2>1, <2>5
    <3>2. CASE start % c.block = 0
      <4>1. (start + whole) % c.block = 0
        BY <1>1, <2>3, <3>2, SumOfMultiples, ZenonT(30)
      <4> QED BY <1>8, <3>1, <4>1
    <3>3. CASE start % c.block # 0
      <4>1. start < last /\ last <= start + c.block
        BY <3>3, BlockEndBounds DEF last
      <4>2. whole >= c.block
        BY <1>1, <1>4, <1>8, <2>3, <3>1
      <4>3. last < end => e <= last
        BY <1>7, <4>1
      <4>4. e = last
        BY <1>1, <1>2, <1>3, <1>7, <1>10, <2>3, <3>1, <4>1, <4>2, <4>3
      <4> QED BY <1>3, <1>8, <4>4
    <3> QED BY <3>2, <3>3
  <2> QED BY <2>4, <2>5
<1>11. CASE e \in {last, LastCachePosition(c, q), TailBoundary(c, q)}
  BY <1>3, <1>8, <1>11
<1> QED
  BY <1>7, <1>9, <1>10, <1>11

\* A chunk that starts inside a block never runs past the block's end, whatever the
\* limits: the block's state is never skipped (the comment at scheduler.py:505-506).
THEOREM BlockEndIsNotSkipped ==
  ASSUME NEW c \in SplitConfigs, NEW q \in Prompts, NEW start \in Nat, NEW n \in Nat,
         start < PrefillEnd(q), start % c.block # 0
  PROVE  start + BlockAligned(c, q, start, n) <= BlockEnd(c, start)
<1> DEFINE end == AlignedEnd(c, q, start, start + n)
           last == BlockEnd(c, start)
<1>1. end \in Nat
  BY AlignedEndIs
<1>2. last \in Nat /\ start < last
  BY BlockEndBounds
<1>3. PICK e \in Int : SplitsAt(c, q, start, n, e)
  BY SplitEnd
<1>4. /\ BlockAligned(c, q, start, n) = Positive(e - start)
      /\ e <= end
      /\ start < last /\ last < end => e <= last
  BY <1>3 DEF SplitsAt
<1> HIDE DEF end, last
<1>5. start + BlockAligned(c, q, start, n) <= last
  BY <1>1, <1>2, <1>4 DEF Positive
<1> QED
  BY <1>5 DEF last

\* The reservation for the drafter clips too, leaves it the tokens it consumes or
\* finishes the prefill, and does nothing for a drafter that looks one token ahead
\* (the docstring at scheduler.py:543-551).
THEOREM LookaheadIsKept ==
  ASSUME NEW lookahead \in Nat, NEW tokens \in Nat, NEW start \in Nat, NEW n \in Nat,
         NEW m, m = WithLookahead(lookahead, tokens, start, n)
  PROVE  /\ m \in 0..n
         /\ m = 0 \/ tokens - start - m <= 0 \/ tokens - start - m >= lookahead
         /\ lookahead <= 1 => m = n
  BY DEF WithLookahead, Positive

-----------------------------------------------------------------------------
(* Operators on queues and on arithmetic *)

\* Taking a request out of a queue leaves a queue.
LEMMA WithoutType ==
  ASSUME NEW q \in Seq(Requests), NEW r
  PROVE  Without(q, r) \in Seq(Requests)
<1>1. CASE ~Contains(q, r)
  BY <1>1 DEF Without
<1>2. CASE Contains(q, r)
  <2>1. IndexOf(q, r) \in 1..Len(q)
    BY <1>2 DEF Contains, IndexOf
  <2>2. SubSeq(q, 1, IndexOf(q, r) - 1) \in Seq(Requests)
    BY <2>1, SubSeqProperties, ElementOfSeq, LenProperties, Z3
  <2>3. SubSeq(q, IndexOf(q, r) + 1, Len(q)) \in Seq(Requests)
    BY <2>1, SubSeqProperties, ElementOfSeq, LenProperties, Z3
  <2> QED
    BY <1>2, <2>2, <2>3, ConcatProperties DEF Without
<1> QED
  BY <1>1, <1>2

\* The index of a member of a queue is one of its positions.
LEMMA IndexOfType ==
  ASSUME NEW q \in Seq(Requests), NEW r, Contains(q, r)
  PROVE  IndexOf(q, r) \in 1..Len(q) /\ q[IndexOf(q, r)] = r
  BY DEF Contains, IndexOf

\* Dropping the head of a sequence, or its last element, leaves a sequence.
LEMMA TailFrontType ==
  ASSUME NEW S, NEW q \in Seq(S), q # <<>>
  PROVE  /\ q[1] \in S /\ q[Len(q)] \in S /\ Len(q) >= 1
         /\ SubSeq(q, 2, Len(q)) \in Seq(S)
         /\ SubSeq(q, 1, Len(q) - 1) \in Seq(S)
<1>1. Len(q) \in Nat \ {0}
  BY EmptySeq
<1>2. \A i \in 1..Len(q) : q[i] \in S
  BY ElementOfSeq
<1> QED
  BY <1>1, <1>2, SubSeqProperties

-----------------------------------------------------------------------------
(* Types *)

\* What the freshly built record of a request, and a preempted one, look like.
LEMMA RequestTypes ==
  /\ \A st \in {"NEW", "WAITING", "FINISHED"} : Blank(st) \in ReqFields
  /\ TypeOK => \A r \in Requests, drop \in BOOLEAN :
                 /\ Preempted(r, drop) \in ReqFields
                 /\ Preempted(r, drop).last_sched_seq = req[r].last_sched_seq
<1>1. \A st \in {"NEW", "WAITING", "FINISHED"} : Blank(st) \in ReqFields
  <2>1. PromptLen \in Int
    BY ConstantsOK
  <2> QED BY <2>1 DEF Blank, ReqFields
<1>2. ASSUME TypeOK, NEW r \in Requests, NEW drop \in BOOLEAN
      PROVE  /\ Preempted(r, drop) \in ReqFields
             /\ Preempted(r, drop).last_sched_seq = req[r].last_sched_seq
  <2>1. req[r] \in ReqFields
    BY <1>2 DEF TypeOK
  <2>2. StaleTokens(r) \in Int
    BY <2>1 DEF StaleTokens, ReqFields
  <2>3. DropsStale(r, drop) \in BOOLEAN
    BY Zenon DEF DropsStale
  <2> DEFINE q1 == [req[r] EXCEPT !.status = "PREEMPTED"]
             q2 == [q1 EXCEPT !.num_computed_tokens = 0]
             q3 == [q2 EXCEPT !.spec_token_ids = 0]
             q4 == [q3 EXCEPT !.drop_stale_output = DropsStale(r, drop)]
             q5 == [q4 EXCEPT !.num_stale_output_tokens = StaleTokens(r)]
             q6 == [q5 EXCEPT !.num_output_placeholders = 0]
  <2>4. q1 \in ReqFields /\ q1.last_sched_seq = req[r].last_sched_seq
    BY <2>1 DEF ReqFields
  <2> HIDE DEF q1
  <2>5. q2 \in ReqFields /\ q2.last_sched_seq = q1.last_sched_seq
    BY <2>4 DEF ReqFields
  <2> HIDE DEF q2
  <2>6. q3 \in ReqFields /\ q3.last_sched_seq = q2.last_sched_seq
    BY <2>5 DEF ReqFields
  <2> HIDE DEF q3
  <2>7. q4 \in ReqFields /\ q4.last_sched_seq = q3.last_sched_seq
    BY <2>3, <2>6 DEF ReqFields
  <2> HIDE DEF q4
  <2>8. q5 \in ReqFields /\ q5.last_sched_seq = q4.last_sched_seq
    BY <2>2, <2>7 DEF ReqFields
  <2> HIDE DEF q5
  <2>9. q6 \in ReqFields /\ q6.last_sched_seq = q5.last_sched_seq
    BY <2>8 DEF ReqFields
  <2> HIDE DEF q6
  <2>10. Preempted(r, drop) = q6
    BY Zenon DEF Preempted, q1, q2, q3, q4, q5, q6
  <2> QED BY <2>4, <2>5, <2>6, <2>7, <2>8, <2>9, <2>10
<1> QED
  BY <1>1, <1>2

\* Freeing a request's blocks keeps the block tables and the deferred frees typed.
LEMMA FreeRequestBlocksType ==
  ASSUME TypeOK, NEW r \in Requests, FreeRequestBlocks(r)
  PROVE  /\ owned' \in [Requests -> SUBSET Blocks]
         /\ deferred_frees' \in Seq([fence : Int, blocks : SUBSET Blocks])
<1>1. [fence |-> sched_step_seq, blocks |-> owned[r]]
        \in [fence : Int, blocks : SUBSET Blocks]
  BY DEF TypeOK
<1> QED
  BY <1>1, AppendProperties DEF TypeOK, FreeRequestBlocks

\* New blocks come from the pool, and go to the request alone.
LEMMA AllocateType ==
  ASSUME TypeOK, NEW r \in Requests, NEW hit, NEW computed, NEW n,
         \/ Allocate(r, Allocations(r, computed, n))
         \/ Allocate(r, Admissions(r, hit, n))
  PROVE  /\ owned' \in [Requests -> SUBSET Blocks]
         /\ \A q \in Requests : owned[q] \subseteq owned'[q]
<1>1. PICK new \in SUBSET Blocks : owned' = [owned EXCEPT ![r] = @ \cup new]
  BY DEF Allocate, Allocations, Admissions, Free
<1> QED
  BY <1>1 DEF TypeOK

\* Preempting a request keeps what it writes typed.
LEMMA PreemptRequestType ==
  ASSUME TypeOK, NEW r \in Requests, NEW drop \in BOOLEAN, PreemptRequest(r, drop)
  PROVE  /\ owned' \in [Requests -> SUBSET Blocks]
         /\ deferred_frees' \in Seq([fence : Int, blocks : SUBSET Blocks])
         /\ req' \in [Requests -> ReqFields]
         /\ waiting' \in Seq(Requests)
         /\ preempted_req_ids' \in SUBSET Requests
<1>1. FreeRequestBlocks(r)
  BY DEF PreemptRequest
<1>2. Preempted(r, drop) \in ReqFields
  BY RequestTypes
<1>3. <<r>> \o waiting \in Seq(Requests)
  BY ConcatProperties DEF TypeOK
<1> QED
  BY <1>1, <1>2, <1>3, FreeRequestBlocksType DEF PreemptRequest, TypeOK

\* So does finishing one: _free_request and the removal from the queues.
LEMMA FinishRequestType ==
  ASSUME TypeOK, NEW r \in Requests, FinishRequest(r)
  PROVE  /\ owned' \in [Requests -> SUBSET Blocks]
         /\ deferred_frees' \in Seq([fence : Int, blocks : SUBSET Blocks])
         /\ req' \in [Requests -> ReqFields]
         /\ running' \in Seq(Requests) /\ waiting' \in Seq(Requests)
         /\ skipped_waiting' \in Seq(Requests)
         /\ finished_req_ids' \in SUBSET Requests
<1>1. FreeRequestBlocks(r)
  BY DEF FinishRequest
<1> QED
  BY <1>1, FreeRequestBlocksType, RequestTypes, WithoutType DEF FinishRequest, TypeOK

\* Calls of the client keep the types: add, abort, pause, the start of a reset.
LEMMA ClientTypes ==
  ASSUME TypeOK, Client
  PROVE  TypeOK'
<1> USE DEF queueVars, blockVars, seqVars, idVars, stepVars, ctrlVars, localVars
<1>1. ASSUME NEW r \in Requests, AddRequest(r) PROVE TypeOK'
  <2>1. Append(waiting, r) \in Seq(Requests)
    BY AppendProperties DEF TypeOK
  <2>2. [req[r] EXCEPT !.status = "WAITING"] \in ReqFields
    <3>1. req[r] \in ReqFields
      BY DEF TypeOK
    <3> QED BY <3>1 DEF ReqFields
  <2> QED BY <1>1, <2>1, <2>2 DEF AddRequest, TypeOK
<1>2. ASSUME NEW r \in Requests, Abort(r) PROVE TypeOK'
  <2>1. FinishRequest(r)
    BY <1>2 DEF Abort
  <2> QED BY <1>2, <2>1, FinishRequestType DEF Abort, TypeOK
<1>3. ASSUME NEW p \in PauseStates, SetPauseState(p) PROVE TypeOK'
  BY <1>3, ConstantsOK DEF SetPauseState, TypeOK
<1>4. CASE BeginReset
  BY <1>4 DEF BeginReset, TypeOK
<1> QED
  BY <1>1, <1>2, <1>3, <1>4 DEF Client

\* The reset keeps the types through every preemption it makes.
LEMMA ResetTypes ==
  ASSUME TypeOK, ResetCall
  PROVE  TypeOK'
<1> USE DEF queueVars, blockVars, seqVars, idVars, stepVars, ctrlVars, localVars
<1>1. CASE ResetPreempt
  <2> DEFINE r == running[Len(running)]
  <2>1. r \in Requests /\ SubSeq(running, 1, Len(running) - 1) \in Seq(Requests)
    BY <1>1, TailFrontType DEF ResetPreempt, TypeOK
  <2>2. PreemptRequest(r, TRUE)
    BY <1>1 DEF ResetPreempt
  <2> HIDE DEF r
  <2> QED BY <1>1, <2>1, <2>2, PreemptRequestType DEF ResetPreempt, TypeOK
<1>2. CASE EndReset
  BY <1>2 DEF EndReset, TypeOK
<1> QED
  BY <1>1, <1>2 DEF ResetCall

\* Starting and ending the loops of schedule() keeps the types.
LEMMA LoopBoundsTypes ==
  ASSUME TypeOK, BeginSchedule \/ EndRunning \/ EndWaiting
  PROVE  TypeOK'
<1> USE DEF queueVars, blockVars, seqVars, idVars, stepVars, ctrlVars, localVars
<1>1. CASE BeginSchedule
  <2>1. MaxScheduledTokens \in Int /\ MaxBatchedTokens \in Int
    BY ConstantsOK
  <2>2. Zero \in [Requests -> Int]
    BY DEF Zero
  <2>3. step_skipped_waiting' \in Seq(Requests)
    BY <1>1, EmptySeq DEF BeginSchedule
  <2>4. token_budget' \in Int
    BY <1>1, <2>1 DEF BeginSchedule
  <2>5. /\ num_scheduled_tokens' \in [Requests -> Int]
        /\ scheduled_spec_tokens' \in [Requests -> Int]
        /\ input_budget' \in Int
    BY <1>1, <2>1, <2>2 DEF BeginSchedule
  <2>6. preempted_reqs' \in BOOLEAN
    BY <1>1, Zenon DEF BeginSchedule
  <2>7. /\ scheduled_new_reqs' \in SUBSET Requests
        /\ req_index' \in Nat \ {0} /\ pc' = "running"
    BY <1>1 DEF BeginSchedule
  <2>8. UNCHANGED <<req, queueVars, blockVars, seqVars, idVars, stepVars, ctrlVars>>
    BY <1>1 DEF BeginSchedule
  <2> QED BY <2>3, <2>4, <2>5, <2>6, <2>7, <2>8 DEF TypeOK
<1>2. CASE EndWaiting
  <2>1. step_skipped_waiting \o skipped_waiting \in Seq(Requests)
    BY ConcatProperties DEF TypeOK
  <2>2. step_skipped_waiting' \in Seq(Requests)
    BY <1>2, EmptySeq DEF EndWaiting
  <2> QED BY <1>2, <2>1, <2>2 DEF EndWaiting, TypeOK
<1>3. CASE EndRunning
  BY <1>3 DEF EndRunning, TypeOK
<1> QED
  BY <1>1, <1>2, <1>3

\* A running request scheduled or skipped moves the loop index one on.
LEMMA RunningLoopTypes ==
  ASSUME TypeOK, NEW r \in Requests, NEW n \in Int,
         SkipRunning(r) \/ ScheduleRunning(r, n)
  PROVE  TypeOK'
<1> USE DEF queueVars, blockVars, seqVars, idVars, stepVars, ctrlVars, localVars
<1>1. CASE SkipRunning(r)
  BY <1>1 DEF SkipRunning, TypeOK
<1>2. CASE ScheduleRunning(r, n)
  <2> DEFINE past == n + req[r].num_computed_tokens - req[r].num_tokens
                     - req[r].num_output_placeholders
             drafts == IF past < 0 THEN 0 ELSE Lesser(past, req[r].spec_token_ids)
             q == [req[r] EXCEPT !.spec_token_ids = 0]
  <2>1. DraftSlots \in Int /\ n \in Int
    BY ConstantsOK
  <2>2. req[r] \in ReqFields
    BY DEF TypeOK
  <2>3. q \in ReqFields
    BY <2>2 DEF ReqFields
  <2> HIDE DEF q
  <2>4. past \in Int /\ req[r].spec_token_ids \in Int
    BY <2>1, <2>2 DEF ReqFields
  <2> HIDE DEF past
  <2>5. drafts \in Int
    BY <2>4 DEF Lesser, drafts
  <2> HIDE DEF drafts
  <2>6. Allocate(r, Allocations(r, req[r].num_computed_tokens, n))
    BY <1>2, Zenon DEF ScheduleRunning
  <2>7. owned' \in [Requests -> SUBSET Blocks]
    BY <2>6, AllocateType
  <2>8. req' = [req EXCEPT ![r] = q]
    BY <1>2 DEF ScheduleRunning, q
  <2>9. req' \in [Requests -> ReqFields]
    BY <2>3, <2>8 DEF TypeOK
  <2>10. scheduled_spec_tokens' = [scheduled_spec_tokens EXCEPT ![r] = drafts]
    BY <1>2 DEF ScheduleRunning, drafts, past
  <2>11. /\ num_scheduled_tokens' = [num_scheduled_tokens EXCEPT ![r] = n]
         /\ token_budget' = token_budget - n
         /\ input_budget' = input_budget - (n + DraftSlots)
    BY <1>2 DEF ScheduleRunning
  <2>12. /\ token_budget' \in Int /\ input_budget' \in Int
         /\ num_scheduled_tokens' \in [Requests -> Int]
         /\ scheduled_spec_tokens' \in [Requests -> Int]
    BY <2>1, <2>5, <2>10, <2>11 DEF TypeOK
  <2> QED BY SMTT(60), <1>2, <2>7, <2>9, <2>12 DEF ScheduleRunning, TypeOK
<1> QED
  BY <1>1, <1>2

\* Evicting a victim leaves the loop index at a position: a victim that precedes it
\* implies that it was at least two.
LEMMA PreemptVictimTypes ==
  ASSUME TypeOK, NEW r \in Requests, NEW v \in Requests, PreemptVictim(r, v)
  PROVE  TypeOK'
<1> USE DEF queueVars, blockVars, seqVars, idVars, stepVars, ctrlVars, localVars
<1>1. PreemptRequest(v, RequiresKVDelivery) /\ RequiresKVDelivery \in BOOLEAN
  BY ConstantsOK DEF PreemptVictim
<1>2. IndexAfterEviction(v) \in Nat \ {0}
  <2>1. IndexOf(running, v) \in 1..Len(running)
    BY IndexOfType DEF PreemptVictim, IsVictim, TypeOK
  <2>2. Len(running) \in Nat /\ req_index \in Nat \ {0}
    BY LenProperties DEF TypeOK
  <2> QED BY <2>1, <2>2 DEF IndexAfterEviction
<1>3. token_budget' \in Int /\ input_budget' \in Int
  <2>1. DraftSlots \in Int /\ num_scheduled_tokens[v] \in Int
    BY ConstantsOK DEF TypeOK
  <2>2. GiveBack(v)
    BY DEF PreemptVictim
  <2> QED BY SMTT(60), <2>1, <2>2 DEF GiveBack, TypeOK
<1>4. running' \in Seq(Requests)
  BY WithoutType DEF PreemptVictim, TypeOK
<1>5. /\ num_scheduled_tokens' \in [Requests -> Int]
      /\ scheduled_spec_tokens' \in [Requests -> Int]
  BY DEF PreemptVictim, TypeOK
<1> QED
  BY <1>1, <1>2, <1>3, <1>4, <1>5, PreemptRequestType DEF PreemptVictim, TypeOK

\* Setting a waiting request aside keeps the types.
LEMMA SkipWaitingTypes ==
  ASSUME TypeOK, NEW r \in Requests, SkipWaiting(r)
  PROVE  TypeOK'
<1> USE DEF queueVars, blockVars, seqVars, idVars, stepVars, ctrlVars, localVars
<1>1. Append(step_skipped_waiting, r) \in Seq(Requests)
  BY AppendProperties DEF TypeOK
<1> QED
  BY <1>1, WithoutType DEF SkipWaiting, PopWaiting, TypeOK

\* Admitting a waiting request keeps the types.
LEMMA AdmitWaitingTypes ==
  ASSUME TypeOK, NEW r \in Requests, NEW hit \in HitLengths(r), NEW n \in Int,
         AdmitWaiting(r, hit, n)
  PROVE  TypeOK'
<1> DEFINE q1 == [req[r] EXCEPT !.status = "RUNNING"]
           q2 == [q1 EXCEPT !.num_computed_tokens = hit]
<1> USE DEF queueVars, blockVars, seqVars, idVars, stepVars, ctrlVars, localVars
<1>1. DraftSlots \in Int /\ hit \in Int
  <2>1. hit \in PrefixHits
    BY DEF HitLengths
  <2> QED BY <2>1, ConstantsOK
<1>2. req[r] \in ReqFields
  BY DEF TypeOK
<1>3. q1 \in ReqFields
  BY <1>2 DEF ReqFields
<1>4. Admitted(r, hit) = q2
  BY Zenon DEF Admitted, q1, q2
<1> HIDE DEF q1
<1>5. q2 \in ReqFields
  BY <1>1, <1>3 DEF ReqFields
<1> HIDE DEF q2
<1>6. req' \in [Requests -> ReqFields]
  BY <1>4, <1>5 DEF AdmitWaiting, TypeOK
<1>7. owned' \in [Requests -> SUBSET Blocks]
  BY AllocateType DEF AdmitWaiting
<1>8. /\ running' \in Seq(Requests) /\ waiting' \in Seq(Requests)
      /\ skipped_waiting' \in Seq(Requests)
  BY AppendProperties, WithoutType DEF AdmitWaiting, PopWaiting, TypeOK
<1>9. /\ num_scheduled_tokens' = [num_scheduled_tokens EXCEPT ![r] = n]
      /\ token_budget' = token_budget - n
      /\ input_budget' = input_budget - (n + DraftSlots)
      /\ scheduled_new_reqs' = scheduled_new_reqs \cup {r}
  BY DEF AdmitWaiting
<1>10. /\ num_scheduled_tokens' \in [Requests -> Int]
       /\ token_budget' \in Int /\ input_budget' \in Int
       /\ scheduled_new_reqs' \in SUBSET Requests
  BY <1>1, <1>9 DEF TypeOK
<1>11. UNCHANGED <<deferred_frees, seqVars, idVars, stepVars, ctrlVars, pc, req_index,
                   scheduled_spec_tokens, preempted_reqs, step_skipped_waiting>>
  BY DEF AdmitWaiting
<1> QED
  BY <1>6, <1>7, <1>8, <1>10, <1>11 DEF TypeOK

\* The request record after its step was planned.
LEMMA AfterScheduleType ==
  ASSUME TypeOK, NEW r \in Requests, NEW seq \in Int, NEW k \in SpecChoices
  PROVE  /\ AfterSchedule(r, seq, k) \in ReqFields
         /\ DeferBlockFree => AfterSchedule(r, seq, k).last_sched_seq
                               = IF r \in Scheduled THEN seq ELSE req[r].last_sched_seq
<1> DEFINE n == num_scheduled_tokens[r]
           q1 == [req[r] EXCEPT !.num_computed_tokens = @ + n]
           q2 == [q1 EXCEPT !.num_in_flight_tokens = @ + n]
           q3 == [q2 EXCEPT !.last_sched_seq = IF DeferBlockFree THEN seq ELSE @]
           q4 == [q3 EXCEPT !.num_output_placeholders =
                    IF FillsPrefix(r) THEN @ + 1 + scheduled_spec_tokens[r] ELSE @]
           q5 == [q4 EXCEPT !.spec_token_ids = IF FillsPrefix(r) THEN k ELSE @]
<1>1. req[r] \in ReqFields /\ n \in Int /\ k \in Int /\ scheduled_spec_tokens[r] \in Int
  BY ConstantsOK DEF TypeOK
<1>2. AfterSchedule(r, seq, k) = IF n = 0 THEN req[r] ELSE q5
  BY Zenon DEF AfterSchedule
<1> HIDE DEF n
<1>3. q1 \in ReqFields BY <1>1 DEF ReqFields
<1> HIDE DEF q1
<1>4. q2 \in ReqFields BY <1>1, <1>3 DEF ReqFields
<1> HIDE DEF q2
<1>5. q3 \in ReqFields /\ (DeferBlockFree => q3.last_sched_seq = seq)
  BY <1>4 DEF ReqFields
<1> HIDE DEF q3
<1>6. q4 \in ReqFields /\ q4.last_sched_seq = q3.last_sched_seq
  BY <1>1, <1>5 DEF ReqFields
<1> HIDE DEF q4
<1>7. q5 \in ReqFields /\ q5.last_sched_seq = q4.last_sched_seq
  BY <1>1, <1>6 DEF ReqFields
<1> HIDE DEF q5
<1>8. r \in Scheduled <=> n # 0
  BY DEF Scheduled, n
<1> QED
  BY <1>1, <1>2, <1>5, <1>6, <1>7, <1>8

\* Sending a step out keeps the types.
LEMMA EndScheduleTypes ==
  ASSUME TypeOK, EndSchedule
  PROVE  TypeOK'
<1> DEFINE seq == IF DeferBlockFree /\ Scheduled # {} THEN sched_step_seq + 1
                  ELSE sched_step_seq
           add == [r \in Requests |->
                     IF r \in scheduled_new_reqs
                     THEN [len |-> req[r].num_tokens,
                           computed |-> req[r].num_computed_tokens]
                     ELSE NoSlot]
           step == [n |-> num_scheduled_tokens, spec |-> scheduled_spec_tokens,
                    add |-> add, free |-> finished_req_ids \cup preempted_req_ids,
                    writes |-> UNION {owned[r] : r \in Scheduled}, seq |-> seq]
<1> USE DEF queueVars, blockVars, seqVars, idVars, stepVars, ctrlVars, localVars
<1>1. seq \in Nat
  BY DEF TypeOK
<1>2. /\ sched_step_seq' = seq
      /\ pipeline' = Append(pipeline, step)
  BY DEF EndSchedule
<1>3. PICK k \in SpecChoices :
        req' = [r \in Requests |-> AfterSchedule(r, seq, k)]
  BY DEF EndSchedule
<1> HIDE DEF seq
<1>4. req' \in [Requests -> ReqFields]
  BY <1>1, <1>3, AfterScheduleType
<1>5. add \in [Requests -> Slot]
  BY DEF TypeOK, ReqFields, Slot, NoSlot
<1> HIDE DEF add
<1>6. UNION {owned[r] : r \in Scheduled} \in SUBSET Blocks
  BY DEF TypeOK, Scheduled
<1>7. step \in Step
  BY <1>1, <1>5, <1>6 DEF Step, TypeOK
<1> HIDE DEF step
<1>8. pipeline' \in Seq(Step)
  BY <1>2, <1>7, AppendProperties DEF TypeOK
<1>9. /\ finished_req_ids' = {} /\ preempted_req_ids' = {} /\ pc' = "idle"
      /\ UNCHANGED <<queueVars, blockVars, processed_step_seq, slots, ctrlVars,
                     localVars>>
  BY DEF EndSchedule
<1> QED
  BY <1>1, <1>2, <1>4, <1>8, <1>9 DEF TypeOK

\* The request record after its share of a step was processed.
LEMMA UpdatedRequestTypes ==
  ASSUME TypeOK, NEW r \in Requests, pipeline # <<>>,
         NEW rejected \in Int, NEW appended \in Int
  PROVE  /\ Counted(r) \in ReqFields /\ Corrected(r, rejected, appended) \in ReqFields
         /\ Counted(r).last_sched_seq = req[r].last_sched_seq
         /\ Corrected(r, rejected, appended).last_sched_seq = req[r].last_sched_seq
<1> DEFINE n == pipeline[1].n[r]
           c1 == [req[r] EXCEPT !.num_in_flight_tokens = @ - n]
           c2 == [c1 EXCEPT !.num_stale_output_tokens = IF IsStale(r) THEN @ - n ELSE @]
<1>1. req[r] \in ReqFields /\ n \in Int
  <2>1. pipeline[1] \in Step
    BY TailFrontType DEF TypeOK
  <2> QED BY <2>1 DEF TypeOK, Step
<1>2. Counted(r) = c2
  BY Zenon DEF Counted
<1> HIDE DEF n
<1>3. c1 \in ReqFields /\ c1.last_sched_seq = req[r].last_sched_seq
  <2> DEFINE old == req[r]
             left == old.num_in_flight_tokens - n
  <2>1. left \in Int /\ old \in ReqFields
    BY <1>1 DEF ReqFields
  <2>2. c1 = [old EXCEPT !.num_in_flight_tokens = left] /\ old.last_sched_seq = req[r].last_sched_seq
    BY DEF c1
  <2> HIDE DEF left, old, c1
  <2>3. [old EXCEPT !.num_in_flight_tokens = left] \in ReqFields
        /\ [old EXCEPT !.num_in_flight_tokens = left].last_sched_seq = old.last_sched_seq
    BY <2>1 DEF ReqFields
  <2> QED BY <2>2, <2>3
<1> HIDE DEF c1
<1>4. c2 \in ReqFields /\ c2.last_sched_seq = req[r].last_sched_seq
  <2> DEFINE left == IF IsStale(r) THEN c1.num_stale_output_tokens - n
                     ELSE c1.num_stale_output_tokens
  <2>1. left \in Int
    BY <1>1, <1>3 DEF ReqFields
  <2> HIDE DEF left
  <2>2. /\ [c1 EXCEPT !.num_stale_output_tokens = left] \in ReqFields
        /\ [c1 EXCEPT !.num_stale_output_tokens = left].last_sched_seq = c1.last_sched_seq
    BY <1>3, <2>1 DEF ReqFields
  <2> QED BY <1>3, <2>2 DEF left
<1> HIDE DEF c2
<1> DEFINE q1 == [Counted(r) EXCEPT !.num_computed_tokens =
                    IF ~IsStale(r) /\ @ > 0 THEN @ - rejected ELSE @]
           q2 == [q1 EXCEPT !.num_output_placeholders =
                    IF IsStale(r) THEN @ ELSE (IF @ > 0 THEN @ - rejected ELSE @) - appended]
           q3 == [q2 EXCEPT !.num_tokens = @ + appended]
<1>5. Corrected(r, rejected, appended) = q3
  BY Zenon DEF Corrected
<1>6. q1 \in ReqFields /\ q1.last_sched_seq = req[r].last_sched_seq
  <2>1. Counted(r) \in ReqFields /\ Counted(r).last_sched_seq = req[r].last_sched_seq
    BY <1>2, <1>4
  <2> DEFINE left == IF ~IsStale(r) /\ Counted(r).num_computed_tokens > 0
                     THEN Counted(r).num_computed_tokens - rejected
                     ELSE Counted(r).num_computed_tokens
  <2>2. left \in Int
    BY <2>1 DEF ReqFields
  <2>3. q1 = [Counted(r) EXCEPT !.num_computed_tokens = left]
    BY DEF q1, left
  <2> HIDE DEF left, q1
  <2> QED BY <2>1, <2>2, <2>3 DEF ReqFields
<1> HIDE DEF q1
<1>7. q2 \in ReqFields /\ q2.last_sched_seq = q1.last_sched_seq
  <2> DEFINE old == q1.num_output_placeholders
             left == IF IsStale(r) THEN old ELSE (IF old > 0 THEN old - rejected ELSE old) - appended
  <2>1. left \in Int
    BY <1>6 DEF ReqFields
  <2>2. q2 = [q1 EXCEPT !.num_output_placeholders = left]
    BY Zenon DEF q2
  <2> HIDE DEF left, q2
  <2> QED BY <1>6, <2>1, <2>2 DEF ReqFields
<1> HIDE DEF q2
<1>8. q3 \in ReqFields /\ q3.last_sched_seq = q2.last_sched_seq
  BY <1>7 DEF ReqFields
<1> QED
  BY <1>2, <1>4, <1>5, <1>6, <1>7, <1>8

\* Replacing a field of the oldest step keeps the pipeline typed.
LEMMA PipelineUpdateTypes ==
  ASSUME TypeOK, pipeline # <<>>
  PROVE  /\ [pipeline EXCEPT ![1].writes = {}] \in Seq(Step)
         /\ [pipeline EXCEPT ![1].writes = {}] # <<>>
         /\ \A r \in Requests :
              /\ [pipeline EXCEPT ![1].n[r] = 0] \in Seq(Step)
              /\ [pipeline EXCEPT ![1].n[r] = 0] # <<>>
         /\ SubSeq(pipeline, 2, Len(pipeline)) \in Seq(Step)
         /\ pipeline[1] \in Step /\ 1 \in 1..Len(pipeline)
<1>1. pipeline \in Seq(Step)
  BY DEF TypeOK
<1>2. pipeline[1] \in Step /\ 1 \in 1..Len(pipeline)
  BY <1>1, TailFrontType, LenProperties
<1>3. [pipeline[1] EXCEPT !.writes = {}] \in Step
  BY <1>2 DEF Step
<1>4. ASSUME NEW r \in Requests PROVE [pipeline[1] EXCEPT !.n[r] = 0] \in Step
  <2> DEFINE n == [pipeline[1].n EXCEPT ![r] = 0]
  <2>1. n \in [Requests -> Int]
    BY <1>2 DEF Step
  <2>2. [pipeline[1] EXCEPT !.n[r] = 0] = [pipeline[1] EXCEPT !.n = n]
    BY Zenon
  <2> HIDE DEF n
  <2>3. [pipeline[1] EXCEPT !.n = n] \in Step
    BY <1>2, <2>1 DEF Step
  <2> QED BY <2>2, <2>3
<1> QED
  <2>1. ASSUME NEW r \in Requests
        PROVE  /\ [pipeline EXCEPT ![1].n[r] = 0] \in Seq(Step)
               /\ [pipeline EXCEPT ![1].n[r] = 0] # <<>>
    <3> DEFINE e == [pipeline[1] EXCEPT !.n[r] = 0]
    <3>1. [pipeline EXCEPT ![1].n[r] = 0] = [pipeline EXCEPT ![1] = e]
      BY Zenon
    <3>2. e \in Step
      BY <1>4
    <3> HIDE DEF e
    <3>3. [pipeline EXCEPT ![1] = e] \in Seq(Step)
          /\ Len([pipeline EXCEPT ![1] = e]) = Len(pipeline)
      BY <1>1, <1>2, <3>2, ExceptSeq
    <3>4. [pipeline EXCEPT ![1] = e] # <<>>
      BY <1>2, <3>3, EmptySeq
    <3> QED BY <3>1, <3>3, <3>4, Zenon
  <2>2. /\ [pipeline EXCEPT ![1].writes = {}] \in Seq(Step)
        /\ [pipeline EXCEPT ![1].writes = {}] # <<>>
    <3> DEFINE e == [pipeline[1] EXCEPT !.writes = {}]
    <3>1. [pipeline EXCEPT ![1].writes = {}] = [pipeline EXCEPT ![1] = e]
      BY Zenon
    <3>2. e \in Step
      BY <1>3
    <3> HIDE DEF e
    <3>3. [pipeline EXCEPT ![1] = e] \in Seq(Step)
          /\ Len([pipeline EXCEPT ![1] = e]) = Len(pipeline)
      BY <1>1, <1>2, <3>2, ExceptSeq
    <3>4. [pipeline EXCEPT ![1] = e] # <<>>
      BY <1>2, <3>3, EmptySeq
    <3> QED BY <3>1, <3>3, <3>4, Zenon
  <2> QED BY <1>1, <1>2, <2>1, <2>2, TailFrontType

\* The bookkeeping of update_from_output around its loop keeps the types.
LEMMA UpdateTypes ==
  ASSUME TypeOK, BeginUpdate \/ DrainDeferredFree \/ EndDrain \/ EndUpdate
  PROVE  TypeOK'
<1> USE DEF queueVars, blockVars, seqVars, idVars, stepVars, ctrlVars, localVars
<1>1. CASE BeginUpdate
  <2>1. pipeline # <<>>
    BY <1>1 DEF BeginUpdate
  <2>2. \A r \in Requests : SlotBefore(pipeline[1], r) \in Slot
    BY <2>1, PipelineUpdateTypes DEF SlotBefore, NoSlot, Slot, Step, TypeOK
  <2>3. slots' \in [Requests -> Slot]
    BY <1>1, <2>2 DEF BeginUpdate
  <2>4. pipeline' \in Seq(Step)
    BY <1>1, <2>1, PipelineUpdateTypes DEF BeginUpdate
  <2>5. processed_step_seq' \in Nat /\ pc' \in {"drain", "update"}
    BY <1>1 DEF BeginUpdate, TypeOK
  <2> QED BY <1>1, <2>3, <2>4, <2>5 DEF BeginUpdate, TypeOK
<1>2. CASE DrainDeferredFree
  BY <1>2, TailFrontType DEF DrainDeferredFree, FencePassed, TypeOK
<1>3. CASE EndDrain
  BY <1>3 DEF EndDrain, TypeOK
<1>4. CASE EndUpdate
  <2>1. pipeline # <<>> => pipeline' \in Seq(Step)
    BY <1>4, PipelineUpdateTypes DEF EndUpdate
  <2>2. pipeline = <<>> => pipeline' \in Seq(Step)
    BY <1>4 DEF EndUpdate
  <2> QED BY <1>4, <2>1, <2>2 DEF EndUpdate, TypeOK
<1> QED
  BY <1>1, <1>2, <1>3, <1>4

\* So does each iteration of that loop.
LEMMA UpdateRequestTypes ==
  ASSUME TypeOK, NEW r \in Requests, NEW accepted \in Int, NEW appended \in Int,
         NEW eos \in BOOLEAN, pipeline # <<>>, UpdateRequest(r, accepted, appended, eos)
  PROVE  TypeOK'
<1> DEFINE rejected == IF (IF Samples(r) THEN accepted + 1 ELSE 0) > 0
                       THEN pipeline[1].spec[r] - accepted ELSE 0
<1> USE DEF queueVars, blockVars, seqVars, idVars, stepVars, ctrlVars, localVars
<1>1. pipeline[1].n[r] \in Int /\ pipeline[1].spec[r] \in Int
  BY PipelineUpdateTypes DEF Step
<1>2. rejected \in Int
  BY <1>1
<1>3. slots' \in [Requests -> Slot]
  <2>1. slots[r] \in Slot
    BY DEF TypeOK
  <2>2. ExecuteRequest(r, accepted)
    BY DEF UpdateRequest
  <2> DEFINE n == pipeline[1].n[r]
             spec == pipeline[1].spec[r]
             e == IF Samples(r)
                  THEN [len |-> slots[r].len + accepted + 1,
                        computed |-> slots[r].computed + n - (spec - accepted)]
                  ELSE [len |-> slots[r].len, computed |-> slots[r].computed + n]
  <2>3. slots' = [slots EXCEPT ![r] = e]
    BY <2>2, Zenon DEF ExecuteRequest
  <2>4. n \in Int /\ spec \in Int
    BY <1>1
  <2> HIDE DEF n, spec
  <2>5. e \in Slot
    BY <2>1, <2>4 DEF Slot
  <2> HIDE DEF e
  <2> QED BY <2>3, <2>5 DEF TypeOK
<1>4. pipeline' \in Seq(Step)
  BY PipelineUpdateTypes DEF UpdateRequest
<1>5. UNCHANGED <<preempted_req_ids, seqVars, ctrlVars, pc, localVars>>
  BY DEF UpdateRequest
<1>6. \/ UNCHANGED <<req, queueVars, blockVars, finished_req_ids>>
      \/ /\ req' = [req EXCEPT ![r] = Counted(r)]
         /\ UNCHANGED <<queueVars, blockVars, finished_req_ids>>
      \/ /\ req' = [req EXCEPT ![r] = Corrected(r, rejected, appended)]
         /\ UNCHANGED <<queueVars, blockVars, finished_req_ids>>
      \/ FinishRequest(r)
  BY Zenon DEF UpdateRequest, rejected
<1> HIDE DEF rejected
<1>7. /\ req' \in [Requests -> ReqFields]
      /\ running' \in Seq(Requests) /\ waiting' \in Seq(Requests)
      /\ skipped_waiting' \in Seq(Requests)
      /\ owned' \in [Requests -> SUBSET Blocks]
      /\ deferred_frees' \in Seq([fence : Int, blocks : SUBSET Blocks])
      /\ finished_req_ids' \in SUBSET Requests
  <2>1. Counted(r) \in ReqFields /\ Corrected(r, rejected, appended) \in ReqFields
    BY <1>2, UpdatedRequestTypes
  <2>2. CASE FinishRequest(r)
    BY <2>2, FinishRequestType
  <2>3. CASE ~FinishRequest(r)
    BY <1>6, <2>1, <2>3 DEF TypeOK
  <2> QED BY <2>2, <2>3
<1> QED
  BY <1>3, <1>4, <1>5, <1>7 DEF TypeOK

\* A step of a call in progress is processed only when there is one.
UpdatingOldest == pc \in {"drain", "update"} => pipeline # <<>>

\* Initially no output is being processed.
LEMMA UpdatingOldestInit == Init => UpdatingOldest
  BY DEF Init, UpdatingOldest

\* While output is being processed its step stays at the head of the pipeline.
LEMMA UpdatingOldestStep ==
  TypeOK /\ UpdatingOldest /\ [Next]_vars => UpdatingOldest'
<1> SUFFICES ASSUME TypeOK, UpdatingOldest, [Next]_vars PROVE UpdatingOldest'
  OBVIOUS
<1> USE DEF UpdatingOldest, queueVars, blockVars, seqVars, idVars, stepVars,
            ctrlVars, localVars
<1>1. CASE Client
  BY <1>1 DEF Client, AddRequest, Abort, SetPauseState, BeginReset
<1>2. CASE ResetCall
  BY <1>2 DEF ResetCall, ResetPreempt, EndReset
<1>3. CASE ScheduleCall
  BY <1>3 DEF ScheduleCall, BeginSchedule, SkipRunning, ScheduleRunning,
     PreemptVictim, EndRunning, SkipWaiting, AdmitWaiting, EndWaiting, EndSchedule
<1>4. CASE UpdateCall
  <2>1. ASSUME NEW r \in Requests, NEW accepted, NEW appended, NEW eos,
               UpdateRequest(r, accepted, appended, eos)
        PROVE  UpdatingOldest'
    <3>1. pipeline' = [pipeline EXCEPT ![1].n[r] = 0]
      BY <2>1 DEF UpdateRequest
    <3>2. pipeline # <<>>
      BY <2>1 DEF UpdateRequest
    <3> QED BY <3>1, <3>2, PipelineUpdateTypes
  <2>2. CASE BeginUpdate
    <3>1. pipeline # <<>> /\ pipeline' = [pipeline EXCEPT ![1].writes = {}]
      BY <2>2 DEF BeginUpdate
    <3> QED BY <3>1, PipelineUpdateTypes
  <2>3. CASE DrainDeferredFree \/ EndDrain \/ EndUpdate
    BY <2>3 DEF DrainDeferredFree, EndDrain, EndUpdate
  <2> QED
    BY <1>4, <2>1, <2>2, <2>3 DEF UpdateCall
<1>5. CASE UNCHANGED vars
  BY <1>5 DEF vars
<1> QED
  BY <1>1, <1>2, <1>3, <1>4, <1>5 DEF Next

\* The initial state is typed.
LEMMA TypesInit == Init => TypeOK
<1> SUFFICES ASSUME Init PROVE TypeOK
  OBVIOUS
<1>1. <<>> \in Seq(Requests) /\ <<>> \in Seq(Step)
      /\ <<>> \in Seq([fence : Int, blocks : SUBSET Blocks])
  BY EmptySeq
<1>2. Blank("NEW") \in ReqFields
  BY RequestTypes
<1>3. /\ slots \in [Requests -> Slot]
      /\ num_scheduled_tokens \in [Requests -> Int]
      /\ scheduled_spec_tokens \in [Requests -> Int]
  BY DEF Init, Slot, NoSlot, Zero
<1>4. /\ reset_successful \in BOOLEAN /\ preempted_reqs \in BOOLEAN
  BY Zenon DEF Init
<1>5. /\ req \in [Requests -> ReqFields]
      /\ owned \in [Requests -> SUBSET Blocks]
      /\ running \in Seq(Requests) /\ waiting \in Seq(Requests)
      /\ skipped_waiting \in Seq(Requests) /\ step_skipped_waiting \in Seq(Requests)
      /\ deferred_frees \in Seq([fence : Int, blocks : SUBSET Blocks])
      /\ pipeline \in Seq(Step)
  BY <1>1, <1>2 DEF Init
<1> QED
  BY <1>3, <1>4, <1>5 DEF Init, TypeOK

\* Every step keeps the types.
LEMMA TypesStep ==
  TypeOK /\ UpdatingOldest /\ [Next]_vars => TypeOK'
<1> SUFFICES ASSUME TypeOK, UpdatingOldest, [Next]_vars PROVE TypeOK'
  OBVIOUS
<1>1. CASE Client
  BY <1>1, ClientTypes
<1>2. CASE ResetCall
  BY <1>2, ResetTypes
<1>3. CASE ScheduleCall
  <2> 1..token_budget \subseteq Int
    OBVIOUS
  <2>1. ASSUME NEW r \in Requests, NEW hit \in HitLengths(r), NEW n \in Int,
               AdmitWaiting(r, hit, n)
        PROVE TypeOK'
    BY <2>1, AdmitWaitingTypes
  <2>2. ASSUME NEW r \in Requests, NEW n \in Int,
               SkipRunning(r) \/ ScheduleRunning(r, n) \/ SkipWaiting(r)
        PROVE TypeOK'
    BY <2>2, RunningLoopTypes, SkipWaitingTypes
  <2>3. ASSUME NEW r \in Requests, NEW v \in Requests, PreemptVictim(r, v)
        PROVE TypeOK'
    BY <2>3, PreemptVictimTypes
  <2>4. CASE BeginSchedule \/ EndRunning \/ EndWaiting
    BY <2>4, LoopBoundsTypes
  <2> QED
    BY <1>3, <2>1, <2>2, <2>3, <2>4, EndScheduleTypes DEF ScheduleCall
<1>4. CASE UpdateCall
  <2>1. ASSUME NEW r \in Requests, NEW accepted \in 0..MaxSpec,
               NEW appended \in 0..(MaxSpec + 1), NEW eos \in BOOLEAN,
               UpdateRequest(r, accepted, appended, eos)
        PROVE  TypeOK'
    <3>1. pipeline # <<>>
      BY <2>1 DEF UpdatingOldest, UpdateRequest
    <3> QED BY <2>1, <3>1, UpdateRequestTypes
  <2> QED BY <1>4, <2>1, UpdateTypes DEF UpdateCall
<1>5. CASE UNCHANGED vars
  BY <1>5 DEF vars, TypeOK, queueVars, blockVars, seqVars, idVars, stepVars,
              ctrlVars, localVars
<1> QED
  BY <1>1, <1>2, <1>3, <1>4, <1>5 DEF Next

\* The type of every variable, whatever the constants: in particular the loop
\* index of schedule() survives every mid-loop eviction.
THEOREM TypeCorrect == Spec => []TypeOK
<1>1. Init => TypeOK /\ UpdatingOldest
  BY TypesInit, UpdatingOldestInit
<1>2. TypeOK /\ UpdatingOldest /\ [Next]_vars => TypeOK' /\ UpdatingOldest'
  BY TypesStep, UpdatingOldestStep
<1> QED
  BY <1>1, <1>2, PTL DEF Spec

-----------------------------------------------------------------------------
(* Deferred freeing of blocks.  A block that a step in flight writes is      *)
(* either still in the block table of a request scheduled no earlier than    *)
(* that step, or queued behind a fence no earlier than that step; and the    *)
(* sequence numbers of the non-empty steps in flight are exactly those       *)
(* between the two counters.                                                 *)

Updating == pc \in {"drain", "update"}

\* Indexes of the steps whose output has not come back.
Pending == {i \in 1..Len(pipeline) : Updating => i > 1}

\* The numbers of the non-empty pending steps are processed + 1 .. sched, in order.
StepsOrdered ==
  /\ processed_step_seq <= sched_step_seq
  /\ \A i \in Pending : NonEmpty(pipeline[i]) =>
       /\ processed_step_seq < pipeline[i].seq
       /\ pipeline[i].seq <= sched_step_seq
       /\ \A j \in Pending : i < j /\ NonEmpty(pipeline[j]) =>
            pipeline[i].seq < pipeline[j].seq
  /\ \A s \in (processed_step_seq + 1)..sched_step_seq :
       \E i \in Pending : NonEmpty(pipeline[i]) /\ pipeline[i].seq = s

\* Something referenced at or after step seq keeps b out of the pool.
Covered(b, seq) ==
  \/ \E r \in Requests : b \in owned[r] /\ seq <= req[r].last_sched_seq
  \/ \E k \in 1..Len(deferred_frees) :
       b \in deferred_frees[k].blocks /\ seq <= deferred_frees[k].fence

WritesCovered ==
  \A i \in Pending : \A b \in pipeline[i].writes :
    NonEmpty(pipeline[i]) /\ Covered(b, pipeline[i].seq)

OldestWritten == Updating => pipeline # <<>> /\ pipeline[1].writes = {}

FencesOrdered ==
  \A k \in 1..Len(deferred_frees) :
    /\ deferred_frees[k].fence <= sched_step_seq
    /\ pc # "drain" => processed_step_seq < deferred_frees[k].fence
    /\ \A m \in k..Len(deferred_frees) :
         deferred_frees[k].fence <= deferred_frees[m].fence

LastSeqBounded == \A r \in Requests : req[r].last_sched_seq <= sched_step_seq

FenceInv ==
  IF DeferBlockFree
  THEN StepsOrdered /\ WritesCovered /\ OldestWritten /\ FencesOrdered /\ LastSeqBounded
  ELSE deferred_frees = <<>>

\* The numbers the fence invariant compares are integers.
LEMMA FenceTypes ==
  ASSUME TypeOK
  PROVE  /\ sched_step_seq \in Nat /\ processed_step_seq \in Nat
         /\ Len(pipeline) \in Nat /\ Len(deferred_frees) \in Nat
         /\ \A i \in 1..Len(pipeline) : pipeline[i] \in Step /\ pipeline[i].seq \in Int
         /\ \A r \in Requests : req[r].last_sched_seq \in Int
         /\ \A k \in 1..Len(deferred_frees) : deferred_frees[k].fence \in Int
<1>1. \A i \in 1..Len(pipeline) : pipeline[i] \in Step
  BY ElementOfSeq DEF TypeOK
<1>2. \A k \in 1..Len(deferred_frees) :
        deferred_frees[k] \in [fence : Int, blocks : SUBSET Blocks]
  BY ElementOfSeq DEF TypeOK
<1>3. \A r \in Requests : req[r] \in ReqFields
  BY DEF TypeOK
<1> QED
  BY <1>1, <1>2, <1>3, LenProperties DEF TypeOK, Step, ReqFields

\* A step that leaves the pending steps and the counters alone.
StepsKept ==
  /\ UNCHANGED seqVars
  /\ Updating' = Updating /\ (pc' = "drain") = (pc = "drain")
  /\ Len(pipeline') = Len(pipeline)
  /\ \A i \in Pending : pipeline'[i] = pipeline[i]
  /\ Updating => pipeline' # <<>> /\ pipeline'[1].writes = {}

\* Requests are scheduled no later, and hold no block less, than before.
HoldsKept ==
  \A r \in Requests :
    /\ owned[r] \subseteq owned'[r]
    /\ req'[r].last_sched_seq = req[r].last_sched_seq

\* What leaves the pending steps and the counters alone keeps their order.
LEMMA KeptSteps ==
  ASSUME TypeOK, StepsOrdered, OldestWritten, StepsKept
  PROVE  StepsOrdered' /\ OldestWritten'
<1>1. Pending' = Pending
  BY DEF StepsKept, Pending
<1>2. UNCHANGED <<sched_step_seq, processed_step_seq>>
  BY DEF StepsKept, seqVars
<1>3. \A i \in Pending : (NonEmpty(pipeline[i])' <=> NonEmpty(pipeline[i]))
                         /\ pipeline'[i].seq = pipeline[i].seq
  BY DEF StepsKept, NonEmpty
<1>4. StepsOrdered'
  BY <1>1, <1>2, <1>3 DEF StepsOrdered
<1>5. OldestWritten'
  BY DEF StepsKept, OldestWritten
<1> QED
  BY <1>4, <1>5

\* A step that frees no block keeps the invariant.
LEMMA KeptFences ==
  ASSUME TypeOK, DeferBlockFree, FenceInv, StepsKept, HoldsKept, UNCHANGED deferred_frees
  PROVE  FenceInv'
<1>1. StepsOrdered' /\ OldestWritten'
  BY KeptSteps DEF FenceInv
<1>2. WritesCovered'
  <2>1. \A b, seq : Covered(b, seq) => Covered(b, seq)'
    BY DEF Covered, HoldsKept
  <2>2. Pending' = Pending /\ \A i \in Pending : pipeline'[i] = pipeline[i]
    BY DEF StepsKept, Pending
  <2>3. ASSUME NEW i \in Pending, NEW b \in pipeline[i].writes
        PROVE  NonEmpty(pipeline[i])' /\ Covered(b, pipeline[i].seq)'
    <3>1. NonEmpty(pipeline[i]) /\ Covered(b, pipeline[i].seq)
      BY <2>3 DEF FenceInv, WritesCovered
    <3> QED BY <2>1, <2>2, <3>1 DEF NonEmpty, Covered, HoldsKept
  <2> QED BY <2>2, <2>3 DEF WritesCovered
<1>3. FencesOrdered' /\ LastSeqBounded'
  BY DEF FenceInv, FencesOrdered, LastSeqBounded, HoldsKept, StepsKept, seqVars
<1> QED
  BY <1>1, <1>2, <1>3 DEF FenceInv

\* So does a step that frees one request's blocks.
LEMMA FreedFences ==
  ASSUME TypeOK, DeferBlockFree, FenceInv, StepsKept, pc # "drain",
         NEW r \in Requests, FreeRequestBlocks(r),
         \A q \in Requests \ {r} : req'[q].last_sched_seq = req[q].last_sched_seq,
         req'[r].last_sched_seq \in {0, req[r].last_sched_seq}
  PROVE  FenceInv'
<1> DEFINE entry == [fence |-> sched_step_seq, blocks |-> owned[r]]
           kept == req[r].last_sched_seq <= processed_step_seq \/ owned[r] = {}
<1> USE FenceTypes
<1>1. StepsOrdered' /\ OldestWritten'
  BY KeptSteps DEF FenceInv
<1>2. UNCHANGED <<sched_step_seq, processed_step_seq>> /\ pc' # "drain"
  BY DEF StepsKept, seqVars
<1>3. LastSeqBounded'
  BY <1>2 DEF FenceInv, LastSeqBounded
<1>4. /\ owned' = [owned EXCEPT ![r] = {}]
      /\ deferred_frees' = IF kept THEN deferred_frees ELSE Append(deferred_frees, entry)
  BY DEF FreeRequestBlocks, BlocksCanBeFreed
<1>5. entry \in [fence : Int, blocks : SUBSET Blocks]
  BY DEF TypeOK
<1>6. ~kept => /\ Len(deferred_frees') = Len(deferred_frees) + 1
               /\ \A k \in 1..Len(deferred_frees) : deferred_frees'[k] = deferred_frees[k]
               /\ deferred_frees'[Len(deferred_frees) + 1] = entry
               /\ processed_step_seq < sched_step_seq
  <2>1. ~kept => processed_step_seq < sched_step_seq
    BY DEF FenceInv, LastSeqBounded
  <2> QED BY <1>4, <1>5, <2>1, AppendProperties DEF TypeOK
<1>7. entry.fence = sched_step_seq /\ entry.blocks = owned[r]
  OBVIOUS
<1> HIDE DEF entry
<1>8. FencesOrdered'
  <2>1. CASE kept
    BY <1>2, <1>4, <2>1 DEF FenceInv, FencesOrdered
  <2>2. CASE ~kept
    <3> DEFINE n == Len(deferred_frees)
    <3>1. /\ n \in Nat /\ Len(deferred_frees') = n + 1
          /\ \A k \in 1..n : deferred_frees'[k] = deferred_frees[k]
          /\ deferred_frees'[n + 1].fence = sched_step_seq
          /\ processed_step_seq < sched_step_seq
      BY <1>6, <1>7, <2>2 DEF TypeOK
    <3>2. \A k \in 1..n :
            /\ deferred_frees[k].fence <= sched_step_seq
            /\ processed_step_seq < deferred_frees[k].fence
            /\ \A m \in k..n : deferred_frees[k].fence <= deferred_frees[m].fence
      BY DEF FenceInv, FencesOrdered
    <3> HIDE DEF n, kept
    <3>3. ASSUME NEW k \in 1..n + 1
          PROVE  /\ deferred_frees'[k].fence <= sched_step_seq
                 /\ processed_step_seq < deferred_frees'[k].fence
      <4>1. CASE k = n + 1
        BY <3>1, <4>1
      <4>2. CASE k \in 1..n
        BY <3>1, <3>2, <4>2
      <4> QED BY <3>1, <4>1, <4>2
    <3>4. ASSUME NEW k \in 1..n + 1, NEW m \in k..n + 1
          PROVE  deferred_frees'[k].fence <= deferred_frees'[m].fence
      <4>1. CASE m = n + 1
        BY <3>1, <3>3, <4>1
      <4>2. CASE m # n + 1
        <5>1. k \in 1..n /\ m \in 1..n /\ m \in k..n
          BY <3>1, <4>2
        <5> QED BY <3>1, <3>2, <5>1
      <4> QED BY <4>1, <4>2
    <3> QED BY <1>2, <3>1, <3>3, <3>4 DEF FencesOrdered
  <2> QED BY <2>1, <2>2
<1>9. WritesCovered'
  <2>1. Pending' = Pending /\ \A i \in Pending : pipeline'[i] = pipeline[i]
    BY DEF StepsKept, Pending
  <2>2. ASSUME NEW i \in Pending, NEW b \in pipeline[i].writes
        PROVE  NonEmpty(pipeline[i])' /\ Covered(b, pipeline[i].seq)'
    <3>1. NonEmpty(pipeline[i]) /\ Covered(b, pipeline[i].seq)
      BY <2>2 DEF FenceInv, WritesCovered
    <3>2. /\ NonEmpty(pipeline[i])' /\ pipeline'[i].seq = pipeline[i].seq
          /\ pipeline[i].seq \in Int
          /\ processed_step_seq < pipeline[i].seq /\ pipeline[i].seq <= sched_step_seq
      BY <2>1, <3>1 DEF NonEmpty, FenceInv, StepsOrdered, Pending
    <3> DEFINE seq == pipeline[i].seq
    <3>3. CASE \E q \in Requests \ {r} : b \in owned[q] /\ seq <= req[q].last_sched_seq
      <4>1. PICK q \in Requests \ {r} : b \in owned[q] /\ seq <= req[q].last_sched_seq
        BY <3>3
      <4>2. b \in owned'[q] /\ seq <= req'[q].last_sched_seq
        BY <1>4, <4>1 DEF TypeOK
      <4> QED BY <3>2, <4>2 DEF Covered
    <3>4. CASE b \in owned[r] /\ seq <= req[r].last_sched_seq
      <4>1. ~kept
        BY <3>2, <3>4
      <4>2. Len(deferred_frees) + 1 \in 1..Len(deferred_frees')
        BY <1>6, <4>1
      <4> QED BY <1>6, <1>7, <3>2, <3>4, <4>1, <4>2 DEF Covered
    <3>5. CASE \E k \in 1..Len(deferred_frees) :
                 b \in deferred_frees[k].blocks /\ seq <= deferred_frees[k].fence
      <4>1. PICK k \in 1..Len(deferred_frees) :
                   b \in deferred_frees[k].blocks /\ seq <= deferred_frees[k].fence
        BY <3>5
      <4>2. k \in 1..Len(deferred_frees') /\ deferred_frees'[k] = deferred_frees[k]
        BY <1>4, <1>6, <4>1
      <4> QED BY <3>2, <4>1, <4>2 DEF Covered
    <3> QED BY <3>1, <3>3, <3>4, <3>5 DEF Covered
  <2> QED BY <2>1, <2>2 DEF WritesCovered
<1> QED
  BY <1>1, <1>3, <1>8, <1>9 DEF FenceInv

\* Sending a step out: what it writes is held by the requests it schedules.
LEMMA SentFences ==
  ASSUME TypeOK, DeferBlockFree, FenceInv, EndSchedule
  PROVE  FenceInv'
<1> DEFINE seq == IF Scheduled # {} THEN sched_step_seq + 1 ELSE sched_step_seq
<1> USE FenceTypes
<1>0. PICK last \in Nat : last = Len(pipeline) + 1
  OBVIOUS
<1>1. PICK step \in Step, k \in SpecChoices :
        /\ pipeline' = Append(pipeline, step)
        /\ step.n = num_scheduled_tokens /\ step.seq = seq
        /\ step.writes = UNION {owned[r] : r \in Scheduled}
        /\ req' = [r \in Requests |-> AfterSchedule(r, seq, k)]
  <2> DEFINE add == [r \in Requests |->
                      IF r \in scheduled_new_reqs
                      THEN [len |-> req[r].num_tokens,
                            computed |-> req[r].num_computed_tokens]
                      ELSE NoSlot]
             step == [n |-> num_scheduled_tokens, spec |-> scheduled_spec_tokens,
                      add |-> add, free |-> finished_req_ids \cup preempted_req_ids,
                      writes |-> UNION {owned[r] : r \in Scheduled}, seq |-> seq]
  <2>1. pipeline' = Append(pipeline, step)
        /\ \E k \in SpecChoices : req' = [r \in Requests |-> AfterSchedule(r, seq, k)]
    BY DEF EndSchedule
  <2>2. seq \in Int
    OBVIOUS
  <2> HIDE DEF seq
  <2>3. add \in [Requests -> Slot]
    BY DEF TypeOK, ReqFields, Slot, NoSlot
  <2> HIDE DEF add
  <2>4. UNION {owned[r] : r \in Scheduled} \in SUBSET Blocks
    BY DEF TypeOK, Scheduled
  <2>5. step \in Step
    BY <2>2, <2>3, <2>4 DEF Step, TypeOK
  <2>6. /\ step.n = num_scheduled_tokens /\ step.seq = seq
        /\ step.writes = UNION {owned[r] : r \in Scheduled}
    OBVIOUS
  <2> HIDE DEF step
  <2> QED BY <2>1, <2>5, <2>6
<1>2. /\ sched_step_seq' = seq /\ pc = "finish" /\ pc' = "idle"
      /\ UNCHANGED <<processed_step_seq, owned, deferred_frees>>
  BY DEF EndSchedule, blockVars
<1>3. /\ Len(pipeline') = last /\ pipeline'[last] = step
      /\ \A i \in 1..Len(pipeline) : pipeline'[i] = pipeline[i]
  BY <1>0, <1>1, AppendProperties DEF TypeOK
<1>4. /\ Pending = 1..Len(pipeline) /\ Pending' = 1..last
      /\ ~Updating /\ ~Updating'
  BY <1>0, <1>2, <1>3 DEF Pending, Updating
<1>5. NonEmpty(step) <=> Scheduled # {}
  BY <1>1 DEF NonEmpty, Scheduled
<1>6. \A r \in Requests : req'[r].last_sched_seq
        = IF r \in Scheduled THEN seq ELSE req[r].last_sched_seq
  BY <1>1, AfterScheduleType
<1>7. /\ seq \in Int /\ sched_step_seq <= seq
      /\ seq = IF NonEmpty(step) THEN sched_step_seq + 1 ELSE sched_step_seq
  BY <1>5
<1>8. /\ \A i \in 1..Len(pipeline) : NonEmpty(pipeline[i])' <=> NonEmpty(pipeline[i])
      /\ NonEmpty(pipeline[last])' <=> NonEmpty(step)
  <2>1. NonEmpty(pipeline[last])' <=> \E r \in Requests : step.n[r] # 0
    BY <1>3 DEF NonEmpty
  <2>2. \A i \in 1..Len(pipeline) : NonEmpty(pipeline[i])' <=> NonEmpty(pipeline[i])
    BY <1>3 DEF NonEmpty
  <2> QED BY <2>1, <2>2 DEF NonEmpty
<1>9. /\ step.seq = seq /\ last \in Pending' /\ last \notin Pending
      /\ \A i \in Pending' : i = last \/ i \in Pending
      /\ \A i \in Pending : i \in Pending' /\ i < last
  BY <1>0, <1>1, <1>4
<1> HIDE DEF seq
<1>10. StepsOrdered'
  <2>1. /\ processed_step_seq <= sched_step_seq
        /\ \A i \in Pending : NonEmpty(pipeline[i]) =>
             processed_step_seq < pipeline[i].seq /\ pipeline[i].seq <= sched_step_seq
    BY DEF FenceInv, StepsOrdered
  <2>2. processed_step_seq' <= sched_step_seq'
    BY <1>2, <1>7, <2>1
  <2>3. ASSUME NEW i \in Pending', NonEmpty(pipeline[i])'
        PROVE  /\ processed_step_seq' < pipeline'[i].seq
               /\ pipeline'[i].seq <= sched_step_seq'
               /\ \A j \in Pending' : i < j /\ NonEmpty(pipeline[j])' =>
                    pipeline'[i].seq < pipeline'[j].seq
    <3>1. CASE i = last
      BY <1>2, <1>3, <1>4, <1>7, <1>8, <1>9, <2>1, <2>3, <3>1
    <3>2. CASE i \in Pending
      <4>1. /\ pipeline'[i] = pipeline[i] /\ pipeline[i].seq \in Int
            /\ NonEmpty(pipeline[i])
        BY <1>3, <1>4, <1>8, <2>3, <3>2
      <4>2. ASSUME NEW j \in Pending', i < j, NonEmpty(pipeline[j])'
            PROVE  pipeline'[i].seq < pipeline'[j].seq
        <5>1. CASE j = last
          BY <1>3, <1>7, <1>8, <1>9, <2>1, <3>2, <4>1, <4>2, <5>1
        <5>2. CASE j \in Pending
          <6>1. pipeline'[j] = pipeline[j] /\ NonEmpty(pipeline[j])
            BY <1>3, <1>4, <1>8, <4>2, <5>2
          <6> QED BY <3>2, <4>1, <4>2, <5>2, <6>1 DEF FenceInv, StepsOrdered
        <5> QED BY <1>9, <5>1, <5>2
      <4> QED BY <1>2, <1>7, <2>1, <3>2, <4>1, <4>2
    <3> QED BY <1>9, <3>1, <3>2
  <2>4. ASSUME NEW s \in (processed_step_seq + 1)..seq
        PROVE  \E i \in Pending' : NonEmpty(pipeline[i])' /\ pipeline'[i].seq = s
    <3>1. CASE s <= sched_step_seq
      <4>1. PICK i \in Pending : NonEmpty(pipeline[i]) /\ pipeline[i].seq = s
        BY <1>7, <3>1 DEF FenceInv, StepsOrdered
      <4> QED BY <1>3, <1>4, <1>8, <1>9, <4>1
    <3>2. CASE ~(s <= sched_step_seq)
      BY <1>3, <1>7, <1>8, <1>9, <3>2
    <3> QED BY <3>1, <3>2
  <2> QED BY <1>2, <2>2, <2>3, <2>4 DEF StepsOrdered
<1>11. WritesCovered'
  <2>1. ASSUME NEW i \in Pending', NEW b \in pipeline'[i].writes
        PROVE  NonEmpty(pipeline[i])' /\ Covered(b, pipeline[i].seq)'
    <3>1. CASE i = last
      <4>1. PICK r \in Scheduled : b \in owned[r]
        BY <1>1, <1>3, <2>1, <3>1
      <4>2. r \in Requests /\ b \in owned'[r] /\ req'[r].last_sched_seq = seq
        BY <1>2, <1>6, <4>1 DEF Scheduled
      <4> QED BY <1>3, <1>5, <1>7, <1>8, <1>9, <3>1, <4>1, <4>2 DEF Covered
    <3>2. CASE i \in Pending
      <4>1. /\ pipeline'[i] = pipeline[i] /\ pipeline[i].seq \in Int
            /\ NonEmpty(pipeline[i]) /\ Covered(b, pipeline[i].seq)
        BY <1>3, <1>4, <2>1, <3>2 DEF FenceInv, WritesCovered
      <4>2. pipeline[i].seq <= seq
        BY <1>7, <3>2, <4>1 DEF FenceInv, StepsOrdered
      <4>3. CASE \E r \in Requests : b \in owned[r] /\ pipeline[i].seq <= req[r].last_sched_seq
        <5>1. PICK r \in Requests : b \in owned[r] /\ pipeline[i].seq <= req[r].last_sched_seq
          BY <4>3
        <5>2. b \in owned'[r] /\ pipeline[i].seq <= req'[r].last_sched_seq
          BY <1>2, <1>6, <4>2, <5>1
        <5> QED BY <1>4, <1>8, <3>2, <4>1, <5>2 DEF Covered
      <4>4. CASE \E m \in 1..Len(deferred_frees) :
                   b \in deferred_frees[m].blocks /\ pipeline[i].seq <= deferred_frees[m].fence
        BY <1>2, <1>4, <1>8, <3>2, <4>1, <4>4 DEF Covered
      <4> QED BY <4>1, <4>3, <4>4 DEF Covered
    <3> QED BY <1>9, <3>1, <3>2
  <2> QED BY <2>1 DEF WritesCovered
<1>12. OldestWritten'
  BY <1>4 DEF OldestWritten
<1>13. FencesOrdered' /\ LastSeqBounded'
  <2>1. FencesOrdered /\ LastSeqBounded
    BY DEF FenceInv
  <2>2. FencesOrdered'
    BY <1>2, <1>7, <2>1 DEF FencesOrdered
  <2>3. LastSeqBounded'
    BY <1>2, <1>6, <1>7, <2>1 DEF LastSeqBounded
  <2> QED BY <2>2, <2>3
<1> QED
  BY <1>10, <1>11, <1>12, <1>13 DEF FenceInv

\* Output coming back: the oldest step stops pending, and the counter moves to it.
LEMMA ReturnedFences ==
  ASSUME TypeOK, DeferBlockFree, FenceInv, BeginUpdate
  PROVE  FenceInv'
<1> USE FenceTypes
<1>1. /\ ~Updating /\ Updating' /\ pc # "drain"
      /\ pipeline # <<>> /\ pipeline' = [pipeline EXCEPT ![1].writes = {}]
      /\ UNCHANGED <<sched_step_seq, deferred_frees, owned, req>>
  BY DEF BeginUpdate, Updating, blockVars
<1>2. /\ processed_step_seq' = IF NonEmpty(pipeline[1]) THEN processed_step_seq + 1
                               ELSE processed_step_seq
      /\ ~NonEmpty(pipeline[1]) => pc' # "drain"
  BY DEF BeginUpdate
<1>3. Len(pipeline) >= 1 /\ pipeline \in Seq(Step)
  BY <1>1, EmptySeq DEF TypeOK
<1>4. /\ Len(pipeline') = Len(pipeline) /\ pipeline'[1].writes = {}
      /\ \A i \in 2..Len(pipeline) : pipeline'[i] = pipeline[i]
  <2> DEFINE e == [pipeline[1] EXCEPT !.writes = {}]
  <2>1. pipeline[1] \in Step
    BY <1>3
  <2>2. e \in Step /\ e.writes = {}
    BY <2>1 DEF Step
  <2>3. pipeline' = [pipeline EXCEPT ![1] = e]
    BY <1>1, Zenon
  <2> HIDE DEF e
  <2> QED BY <1>3, <2>2, <2>3, ExceptSeq
<1>5. Pending = 1..Len(pipeline) /\ Pending' = 2..Len(pipeline) /\ pipeline' # <<>>
  BY <1>1, <1>3, <1>4, EmptySeq DEF Pending
<1>6. \A i \in Pending' : /\ i \in Pending /\ 1 < i /\ pipeline'[i] = pipeline[i]
                          /\ NonEmpty(pipeline[i])' <=> NonEmpty(pipeline[i])
                          /\ pipeline[i].seq \in Int
  BY <1>4, <1>5 DEF NonEmpty
<1>7. /\ 1 \in Pending /\ pipeline[1].seq \in Int
      /\ \A i \in Pending : i = 1 \/ i \in Pending'
  BY <1>3, <1>5
<1>8. StepsOrdered
  BY DEF FenceInv
<1>9. NonEmpty(pipeline[1]) => /\ processed_step_seq + 1 <= pipeline[1].seq
                               /\ pipeline[1].seq <= sched_step_seq
  BY <1>7, <1>8 DEF StepsOrdered
<1>10. processed_step_seq' <= sched_step_seq' /\ processed_step_seq <= processed_step_seq'
  BY <1>1, <1>2, <1>7, <1>8, <1>9 DEF StepsOrdered
<1>11. \A i \in Pending' : NonEmpty(pipeline[i])' => processed_step_seq' < pipeline'[i].seq
  <2>1. ASSUME NEW i \in Pending', NonEmpty(pipeline[i])'
        PROVE  processed_step_seq' < pipeline'[i].seq
    <3>1. /\ i \in Pending /\ NonEmpty(pipeline[i]) /\ pipeline[i].seq \in Int
          /\ pipeline'[i] = pipeline[i] /\ 1 < i
      BY <1>6, <2>1
    <3>2. processed_step_seq < pipeline[i].seq
      BY <1>8, <3>1 DEF StepsOrdered
    <3>3. NonEmpty(pipeline[1]) => pipeline[1].seq < pipeline[i].seq
      BY <1>7, <1>8, <3>1 DEF StepsOrdered
    <3> QED BY <1>2, <1>7, <1>9, <3>1, <3>2, <3>3
  <2> QED BY <2>1
<1>12. \A s \in (processed_step_seq' + 1)..sched_step_seq' :
         \E i \in Pending' : NonEmpty(pipeline[i])' /\ pipeline'[i].seq = s
  <2>1. ASSUME NEW s \in (processed_step_seq' + 1)..sched_step_seq'
        PROVE  \E i \in Pending' : NonEmpty(pipeline[i])' /\ pipeline'[i].seq = s
    <3>1. processed_step_seq' \in Nat
      BY <1>2
    <3>2. s \in (processed_step_seq + 1)..sched_step_seq
      BY <1>1, <1>10, <2>1, <3>1
    <3>3. PICK i \in Pending : NonEmpty(pipeline[i]) /\ pipeline[i].seq = s
      BY <1>8, <3>2 DEF StepsOrdered
    <3>4. CASE i = 1
      <4>1. processed_step_seq + 1 \in (processed_step_seq + 1)..sched_step_seq
        BY <3>2
      <4>2. PICK j \in Pending : NonEmpty(pipeline[j])
                                /\ pipeline[j].seq = processed_step_seq + 1
        BY <1>8, <4>1 DEF StepsOrdered
      <4>3. processed_step_seq + 1 < s
        BY <1>2, <2>1, <3>1, <3>3, <3>4
      <4>4. 1 < j
        BY <1>5, <3>3, <3>4, <4>2, <4>3
      <4> QED BY <1>7, <1>8, <3>3, <3>4, <4>2, <4>3, <4>4 DEF StepsOrdered
    <3>5. CASE i # 1
      BY <1>6, <1>7, <3>3, <3>5
    <3> QED BY <3>4, <3>5
  <2> QED BY <2>1
<1>13. StepsOrdered'
  BY <1>1, <1>6, <1>8, <1>10, <1>11, <1>12 DEF StepsOrdered
<1>14. WritesCovered'
  <2>1. \A b, seq : Covered(b, seq)' <=> Covered(b, seq)
    BY <1>1 DEF Covered
  <2>2. ASSUME NEW i \in Pending', NEW b \in pipeline'[i].writes
        PROVE  NonEmpty(pipeline[i])' /\ Covered(b, pipeline[i].seq)'
    <3>1. i \in Pending /\ b \in pipeline[i].writes /\ pipeline'[i].seq = pipeline[i].seq
      BY <1>6, <2>2
    <3>2. NonEmpty(pipeline[i]) /\ Covered(b, pipeline[i].seq)
      BY <3>1 DEF FenceInv, WritesCovered
    <3> QED BY <1>1, <1>6, <3>1, <3>2 DEF Covered
  <2> QED BY <2>2 DEF WritesCovered
<1>15. OldestWritten'
  BY <1>4, <1>5 DEF OldestWritten
<1>16. FencesOrdered' /\ LastSeqBounded'
  <2>1. /\ FencesOrdered /\ LastSeqBounded
        /\ pc' # "drain" => processed_step_seq' = processed_step_seq
    BY DEF FenceInv, BeginUpdate
  <2> QED BY <1>1, <2>1 DEF FencesOrdered, LastSeqBounded
<1> QED
  BY <1>13, <1>14, <1>15, <1>16 DEF FenceInv

\* Draining frees only blocks no pending step writes.
LEMMA DrainedFences ==
  ASSUME TypeOK, DeferBlockFree, FenceInv, DrainDeferredFree
  PROVE  FenceInv'
<1> USE FenceTypes
<1>1. /\ UNCHANGED <<pipeline, sched_step_seq, processed_step_seq, owned, req, pc>>
      /\ deferred_frees # <<>> /\ deferred_frees[1].fence <= processed_step_seq
      /\ deferred_frees' = SubSeq(deferred_frees, 2, Len(deferred_frees))
      /\ pc = "drain"
  BY DEF DrainDeferredFree, FencePassed, seqVars, stepVars
<1>2. /\ Len(deferred_frees') = Len(deferred_frees) - 1
      /\ \A k \in 1..Len(deferred_frees') : deferred_frees'[k] = deferred_frees[k + 1]
  <2>1. deferred_frees \in Seq([fence : Int, blocks : SUBSET Blocks])
        /\ Len(deferred_frees) \in Nat \ {0}
    BY <1>1, EmptySeq DEF TypeOK
  <2>2. \A k \in 1..Len(deferred_frees) :
          deferred_frees[k] \in [fence : Int, blocks : SUBSET Blocks]
    BY <2>1, ElementOfSeq
  <2> DEFINE n == Len(deferred_frees)
             rest == SubSeq(deferred_frees, 2, n)
  <2>3. n \in Int /\ n >= 1
    BY <2>1
  <2>4. \A k \in 2..n : deferred_frees[k] \in [fence : Int, blocks : SUBSET Blocks]
    BY <2>2, <2>3
  <2> HIDE DEF n
  <2>5. /\ Len(rest) = IF 2 <= n THEN n - 2 + 1 ELSE 0
        /\ \A k \in 1..(n - 2 + 1) : rest[k] = deferred_frees[2 + k - 1]
    BY <2>3, <2>4, SubSeqProperties
  <2>6. deferred_frees' = rest /\ n = Len(deferred_frees)
    BY <1>1 DEF n
  <2> HIDE DEF rest
  <2> QED BY <2>3, <2>5, <2>6
<1>3. StepsOrdered' /\ OldestWritten' /\ LastSeqBounded'
  <2>1. Updating' = Updating /\ Pending' = Pending
    BY <1>1 DEF Updating, Pending
  <2>2. \A i \in Pending : NonEmpty(pipeline[i])' <=> NonEmpty(pipeline[i])
    BY <1>1 DEF NonEmpty
  <2> QED BY <1>1, <2>1, <2>2
    DEF FenceInv, StepsOrdered, OldestWritten, LastSeqBounded
<1>4. FencesOrdered'
  BY SMTT(60), <1>1, <1>2 DEF FenceInv, FencesOrdered
<1>5. WritesCovered'
  <2>1. Pending' = Pending
    BY <1>1 DEF Updating, Pending
  <2>2. ASSUME NEW i \in Pending, NEW b \in pipeline[i].writes
        PROVE  NonEmpty(pipeline[i])' /\ Covered(b, pipeline[i].seq)'
    <3>1. NonEmpty(pipeline[i]) /\ Covered(b, pipeline[i].seq)
      BY <2>2 DEF FenceInv, WritesCovered
    <3>2. processed_step_seq < pipeline[i].seq /\ pipeline[i].seq \in Int
      BY <3>1 DEF FenceInv, StepsOrdered, Pending
    <3>3. NonEmpty(pipeline[i])'
      BY <1>1, <3>1 DEF NonEmpty
    <3>4. CASE \E r \in Requests : b \in owned[r] /\ pipeline[i].seq <= req[r].last_sched_seq
      <4>1. \E r \in Requests : b \in owned'[r] /\ pipeline'[i].seq <= req'[r].last_sched_seq
        BY <1>1, <3>4
      <4> QED BY <3>3, <4>1 DEF Covered
    <3>5. CASE \E k \in 1..Len(deferred_frees) :
                 b \in deferred_frees[k].blocks /\ pipeline[i].seq <= deferred_frees[k].fence
      <4>1. PICK k \in 1..Len(deferred_frees) :
                 b \in deferred_frees[k].blocks /\ pipeline[i].seq <= deferred_frees[k].fence
        BY <3>5
      <4>2. k # 1
        BY <1>1, <3>2, <4>1
      <4>3. k - 1 \in 1..Len(deferred_frees') /\ deferred_frees'[k - 1] = deferred_frees[k]
        BY <1>2, <4>1, <4>2
      <4> QED BY <1>1, <3>3, <4>1, <4>3 DEF Covered
    <3> QED BY <3>1, <3>4, <3>5 DEF Covered
  <2> QED BY <1>1, <2>1, <2>2 DEF WritesCovered
<1> QED
  BY <1>3, <1>4, <1>5 DEF FenceInv

\* The end of an update drops the step it processed, and renumbers the others.
LEMMA PoppedFences ==
  ASSUME TypeOK, DeferBlockFree, FenceInv, EndUpdate
  PROVE  FenceInv'
<1> USE FenceTypes
<1>1. /\ Updating /\ ~Updating' /\ pc = "update" /\ pc' = "idle" /\ pipeline # <<>>
      /\ pipeline' = SubSeq(pipeline, 2, Len(pipeline))
      /\ UNCHANGED <<sched_step_seq, processed_step_seq, deferred_frees, owned, req>>
  BY DEF EndUpdate, Updating, FenceInv, OldestWritten, seqVars, blockVars
<1>2. PICK n \in Nat : n = Len(pipeline) /\ 1 <= n
  BY <1>1, EmptySeq DEF TypeOK
<1>3. /\ Len(pipeline') = n - 1
      /\ \A i \in 1..(n - 1) : pipeline'[i] = pipeline[i + 1]
  <2> DEFINE rest == SubSeq(pipeline, 2, n)
  <2>1. \A i \in 2..n : pipeline[i] \in Step
    BY <1>2
  <2>2. /\ Len(rest) = IF 2 <= n THEN n - 2 + 1 ELSE 0
        /\ \A i \in 1..(n - 2 + 1) : rest[i] = pipeline[2 + i - 1]
    BY <1>2, <2>1, SubSeqProperties
  <2>3. pipeline' = rest
    BY <1>1, <1>2
  <2> HIDE DEF rest
  <2> QED BY <1>2, <2>2, <2>3
<1>4. Pending = 2..n /\ Pending' = 1..(n - 1)
  BY <1>1, <1>2, <1>3 DEF Pending
<1>5. /\ \A i \in Pending' : /\ i + 1 \in Pending /\ pipeline'[i] = pipeline[i + 1]
                             /\ NonEmpty(pipeline[i])' <=> NonEmpty(pipeline[i + 1])
      /\ \A i \in Pending : i - 1 \in Pending' /\ (i - 1) + 1 = i
  <2>1. ASSUME NEW i \in Pending'
        PROVE  /\ i + 1 \in Pending /\ pipeline'[i] = pipeline[i + 1]
               /\ NonEmpty(pipeline[i])' <=> NonEmpty(pipeline[i + 1])
    <3>1. i + 1 \in Pending /\ pipeline'[i] = pipeline[i + 1]
      BY <1>2, <1>3, <1>4
    <3> QED BY <3>1 DEF NonEmpty
  <2>2. \A i \in Pending : i - 1 \in Pending' /\ (i - 1) + 1 = i
    BY <1>2, <1>4
  <2> QED BY <2>1, <2>2
<1>6. StepsOrdered'
  <2>1. StepsOrdered
    BY DEF FenceInv
  <2>2. ASSUME NEW i \in Pending', NonEmpty(pipeline[i])'
        PROVE  /\ processed_step_seq' < pipeline'[i].seq
               /\ pipeline'[i].seq <= sched_step_seq'
               /\ \A j \in Pending' : i < j /\ NonEmpty(pipeline[j])' =>
                    pipeline'[i].seq < pipeline'[j].seq
    <3>1. \A j \in Pending' : i < j => i + 1 < j + 1
      BY <1>4
    <3> QED BY <1>1, <1>5, <2>1, <2>2, <3>1 DEF StepsOrdered
  <2>3. ASSUME NEW s \in (processed_step_seq + 1)..sched_step_seq
        PROVE  \E i \in Pending' : NonEmpty(pipeline[i])' /\ pipeline'[i].seq = s
    <3>1. PICK i \in Pending : NonEmpty(pipeline[i]) /\ pipeline[i].seq = s
      BY <2>1 DEF StepsOrdered
    <3>2. PICK j \in Pending' : j + 1 = i
      BY <1>5
    <3> QED BY <1>5, <3>1, <3>2
  <2> QED BY <1>1, <2>1, <2>2, <2>3 DEF StepsOrdered
<1>7. WritesCovered'
  <2>1. ASSUME NEW i \in Pending', NEW b \in pipeline'[i].writes
        PROVE  NonEmpty(pipeline[i])' /\ Covered(b, pipeline[i].seq)'
    <3>1. NonEmpty(pipeline[i + 1]) /\ Covered(b, pipeline[i + 1].seq)
      BY <1>5, <2>1 DEF FenceInv, WritesCovered
    <3> QED BY <1>1, <1>5, <3>1 DEF Covered
  <2> QED BY <2>1 DEF WritesCovered
<1>8. OldestWritten'
  BY <1>1 DEF OldestWritten
<1>9. FencesOrdered' /\ LastSeqBounded'
  BY <1>1 DEF FenceInv, FencesOrdered, LastSeqBounded
<1> QED
  BY <1>6, <1>7, <1>8, <1>9 DEF FenceInv

\* Draining ends at the first fence that lies beyond the step just processed.
LEMMA UndrainedFences ==
  ASSUME TypeOK, DeferBlockFree, FenceInv, EndDrain
  PROVE  FenceInv'
<1> USE FenceTypes
<1>1. /\ UNCHANGED <<pipeline, sched_step_seq, processed_step_seq, owned, req,
                     deferred_frees>>
      /\ pc = "drain" /\ pc' = "update"
      /\ deferred_frees # <<>> => processed_step_seq < deferred_frees[1].fence
  <2>1. deferred_frees # <<>> => 1 \in 1..Len(deferred_frees)
    BY EmptySeq DEF TypeOK
  <2> QED BY <2>1 DEF EndDrain, FencePassed, seqVars, stepVars, blockVars
<1>2. Updating' = Updating /\ Pending' = Pending
  BY <1>1 DEF Updating, Pending
<1>3. \A i \in Pending : NonEmpty(pipeline[i])' <=> NonEmpty(pipeline[i])
  BY <1>1 DEF NonEmpty
<1>4. StepsOrdered' /\ OldestWritten' /\ LastSeqBounded'
  BY <1>1, <1>2, <1>3 DEF FenceInv, StepsOrdered, OldestWritten, LastSeqBounded
<1>5. WritesCovered'
  <2>1. \A b, seq : Covered(b, seq)' <=> Covered(b, seq)
    BY <1>1 DEF Covered
  <2>2. ASSUME NEW i \in Pending, NEW b \in pipeline[i].writes
        PROVE  NonEmpty(pipeline[i])' /\ Covered(b, pipeline[i].seq)'
    BY <1>1, <1>3, <2>2 DEF FenceInv, WritesCovered, Covered
  <2> QED BY <1>1, <1>2, <2>2 DEF WritesCovered
<1>6. FencesOrdered'
  <2>1. ASSUME NEW k \in 1..Len(deferred_frees)
        PROVE  processed_step_seq < deferred_frees[k].fence
    <3>1. 1 \in 1..Len(deferred_frees) /\ k \in 1..Len(deferred_frees) /\ deferred_frees # <<>>
      BY EmptySeq DEF TypeOK
    <3>2. deferred_frees[1].fence <= deferred_frees[k].fence
      BY <3>1 DEF FenceInv, FencesOrdered
    <3> QED BY <1>1, <3>1, <3>2
  <2> QED BY <1>1, <2>1 DEF FenceInv, FencesOrdered
<1> QED
  BY <1>4, <1>5, <1>6 DEF FenceInv

\* Actions that leave pipeline, counters and phase alone keep the pending steps.
LEMMA SamePipelineKeepsSteps ==
  ASSUME FenceInv, DeferBlockFree, UNCHANGED <<pipeline, seqVars>>,
         pc \notin {"drain", "update"}, pc' \notin {"drain", "update"}
  PROVE  StepsKept
  BY DEF StepsKept, Pending, Updating

\* What frees nothing and plans nothing keeps the invariant.
LEMMA QueueFences ==
  ASSUME TypeOK, DeferBlockFree, FenceInv,
         \/ \E r \in Requests : AddRequest(r) \/ SkipRunning(r) \/ SkipWaiting(r)
         \/ \E p \in PauseStates : SetPauseState(p)
         \/ BeginReset \/ EndReset \/ BeginSchedule \/ EndRunning \/ EndWaiting
  PROVE  FenceInv'
<1> USE DEF queueVars, blockVars, seqVars, idVars, stepVars, ctrlVars, localVars
<1>1. /\ UNCHANGED <<pipeline, seqVars, owned, deferred_frees>>
      /\ pc \notin {"drain", "update"} /\ pc' \notin {"drain", "update"}
  BY DEF AddRequest, SkipRunning, SkipWaiting, AtRunning, AtWaiting, SetPauseState,
         BeginReset, EndReset, BeginSchedule, EndRunning, EndWaiting
<1>2. \/ UNCHANGED req
      \/ \E r \in Requests : req' = [req EXCEPT ![r].status = "WAITING"]
  BY DEF AddRequest, SkipRunning, SkipWaiting, SetPauseState,
         BeginReset, EndReset, BeginSchedule, EndRunning, EndWaiting
<1>3. HoldsKept
  <2>1. \A r \in Requests :
          [req[r] EXCEPT !.status = "WAITING"].last_sched_seq = req[r].last_sched_seq
    BY DEF TypeOK, ReqFields
  <2> QED BY <1>1, <1>2, <2>1 DEF HoldsKept, TypeOK
<1> QED
  BY <1>1, <1>3, SamePipelineKeepsSteps, KeptFences

\* Planning a request keeps the invariant: its blocks only grow.
LEMMA ScheduledFences ==
  ASSUME TypeOK, DeferBlockFree, FenceInv, NEW r \in Requests, NEW n,
         ScheduleRunning(r, n) \/ \E hit \in HitLengths(r) : AdmitWaiting(r, hit, n)
  PROVE  FenceInv'
<1>1. /\ UNCHANGED <<pipeline, seqVars, deferred_frees>>
      /\ pc \notin {"drain", "update"} /\ pc' \notin {"drain", "update"}
  BY DEF ScheduleRunning, AdmitWaiting, Wants, AtRunning, AtWaiting, stepVars
<1>2. \A q \in Requests : owned[q] \subseteq owned'[q]
  <2>1. ScheduleRunning(r, n) => Allocate(r, Allocations(r, req[r].num_computed_tokens, n))
    BY Zenon DEF ScheduleRunning
  <2>2. \A hit : AdmitWaiting(r, hit, n) => Allocate(r, Admissions(r, hit, n))
    BY Zenon DEF AdmitWaiting
  <2> QED BY <2>1, <2>2, AllocateType
<1>3. \A q \in Requests : req'[q].last_sched_seq = req[q].last_sched_seq
  <2>1. req[r] \in ReqFields
    BY DEF TypeOK
  <2>2. CASE ScheduleRunning(r, n)
    <3>1. req' = [req EXCEPT ![r] = [req[r] EXCEPT !.spec_token_ids = 0]]
      BY <2>2 DEF ScheduleRunning
    <3>2. [req[r] EXCEPT !.spec_token_ids = 0].last_sched_seq = req[r].last_sched_seq
      BY <2>1 DEF ReqFields
    <3> QED BY <3>1, <3>2 DEF TypeOK
  <2>3. ASSUME NEW hit \in HitLengths(r), AdmitWaiting(r, hit, n)
        PROVE  \A q \in Requests : req'[q].last_sched_seq = req[q].last_sched_seq
    <3> DEFINE q1 == [req[r] EXCEPT !.status = "RUNNING"]
               q2 == [q1 EXCEPT !.num_computed_tokens = hit]
    <3>1. q1 \in ReqFields /\ q1.last_sched_seq = req[r].last_sched_seq
      BY <2>1 DEF ReqFields
    <3>2. Admitted(r, hit) = q2
      BY Zenon DEF Admitted
    <3> HIDE DEF q1
    <3>3. q2.last_sched_seq = q1.last_sched_seq
      BY <3>1 DEF ReqFields
    <3> HIDE DEF q2
    <3>4. req' = [req EXCEPT ![r] = q2]
      BY <2>3, <3>2 DEF AdmitWaiting
    <3> QED BY <3>1, <3>3, <3>4 DEF TypeOK
  <2> QED BY <2>2, <2>3
<1>4. StepsKept /\ HoldsKept
  BY <1>1, <1>2, <1>3, SamePipelineKeepsSteps DEF HoldsKept
<1> QED
  BY <1>1, <1>4, KeptFences

\* Preempting or finishing a request frees its blocks, or queues them behind a fence
\* no earlier than any step that writes them.
LEMMA PreemptedFences ==
  ASSUME TypeOK, DeferBlockFree, FenceInv, NEW r \in Requests, NEW drop \in BOOLEAN,
         PreemptRequest(r, drop) \/ FinishRequest(r), StepsKept, pc # "drain"
  PROVE  FenceInv'
<1>1. FreeRequestBlocks(r)
  BY DEF PreemptRequest, FinishRequest
<1>2. \/ req' = [req EXCEPT ![r] = Preempted(r, drop)]
      \/ req' = [req EXCEPT ![r] = Blank("FINISHED")]
  BY DEF PreemptRequest, FinishRequest
<1>3. /\ Preempted(r, drop).last_sched_seq = req[r].last_sched_seq
      /\ Blank("FINISHED").last_sched_seq = 0
  BY RequestTypes DEF Blank
<1>4. \A q \in Requests \ {r} : req'[q].last_sched_seq = req[q].last_sched_seq
  BY <1>2 DEF TypeOK
<1>5. req'[r].last_sched_seq \in {0, req[r].last_sched_seq}
  BY <1>2, <1>3 DEF TypeOK
<1> QED
  BY <1>1, <1>4, <1>5, FreedFences

\* So aborts, resets and evictions keep the invariant.
LEMMA EvictedFences ==
  ASSUME TypeOK, DeferBlockFree, FenceInv,
         \/ \E r \in Requests : Abort(r)
         \/ ResetPreempt
         \/ \E r, v \in Requests : PreemptVictim(r, v)
  PROVE  FenceInv'
<1> USE DEF seqVars, stepVars
<1>1. ASSUME NEW r \in Requests, Abort(r) PROVE FenceInv'
  <2>1. FinishRequest(r) /\ pc # "drain" /\ StepsKept
    BY <1>1, SamePipelineKeepsSteps DEF Abort
  <2> QED BY <2>1, PreemptedFences
<1>2. CASE ResetPreempt
  <2> DEFINE r == running[Len(running)]
  <2>1. r \in Requests
    BY <1>2, TailFrontType DEF ResetPreempt, TypeOK
  <2>2. PreemptRequest(r, TRUE) /\ pc # "drain" /\ StepsKept
    BY <1>2, SamePipelineKeepsSteps DEF ResetPreempt
  <2> HIDE DEF r
  <2> QED BY <2>1, <2>2, PreemptedFences
<1>3. ASSUME NEW r \in Requests, NEW v \in Requests, PreemptVictim(r, v) PROVE FenceInv'
  <2>1. /\ PreemptRequest(v, RequiresKVDelivery) /\ pc # "drain" /\ StepsKept
        /\ RequiresKVDelivery \in BOOLEAN
    BY <1>3, SamePipelineKeepsSteps, ConstantsOK DEF PreemptVictim, LacksBlocks, Wants, AtRunning
  <2> QED BY <2>1, PreemptedFences
<1> QED
  BY <1>1, <1>2, <1>3

\* A request's share of the oldest output, and its end, keep the invariant.
LEMMA ProcessedFences ==
  ASSUME TypeOK, DeferBlockFree, FenceInv, NEW r \in Requests, NEW accepted \in Int,
         NEW appended \in Int, NEW eos \in BOOLEAN,
         UpdateRequest(r, accepted, appended, eos)
  PROVE  FenceInv'
<1> DEFINE rejected == IF (IF Samples(r) THEN accepted + 1 ELSE 0) > 0
                       THEN pipeline[1].spec[r] - accepted ELSE 0
<1> USE DEF queueVars, blockVars, seqVars
<1>1. /\ pc = "update" /\ pc' = "update" /\ Updating /\ Updating'
      /\ pipeline # <<>> /\ pipeline[1].writes = {}
      /\ pipeline' = [pipeline EXCEPT ![1].n[r] = 0]
      /\ UNCHANGED seqVars
  BY DEF UpdateRequest, Updating, FenceInv, OldestWritten
<1>2. pipeline[1] \in Step /\ 1 \in 1..Len(pipeline) /\ pipeline \in Seq(Step)
  BY <1>1, PipelineUpdateTypes DEF TypeOK
<1>3. StepsKept
  <2> DEFINE n == [pipeline[1].n EXCEPT ![r] = 0]
             e == [pipeline[1] EXCEPT !.n = n]
  <2>1. pipeline' = [pipeline EXCEPT ![1] = e]
    BY <1>1, Zenon
  <2>2. n \in [Requests -> Int]
    BY <1>2 DEF Step
  <2> HIDE DEF n
  <2>3. e \in Step /\ e.writes = {}
    BY <1>1, <1>2, <2>2 DEF Step
  <2> HIDE DEF e
  <2>4. /\ Len(pipeline') = Len(pipeline) /\ pipeline'[1] = e
        /\ \A i \in 2..Len(pipeline) : pipeline'[i] = pipeline[i]
    BY <1>2, <2>1, <2>3, ExceptSeq
  <2>5. pipeline' # <<>>
    BY <1>1, PipelineUpdateTypes
  <2>6. Pending \subseteq 2..Len(pipeline)
    BY <1>1, <1>2 DEF Pending
  <2> QED BY <1>1, <2>3, <2>4, <2>5, <2>6 DEF StepsKept
<1>4. CASE FinishRequest(r)
  BY <1>1, <1>3, <1>4, PreemptedFences
<1>5. CASE ~FinishRequest(r)
  <2>1. /\ UNCHANGED <<queueVars, blockVars>>
        /\ \/ UNCHANGED req
           \/ req' = [req EXCEPT ![r] = Counted(r)]
           \/ req' = [req EXCEPT ![r] = Corrected(r, rejected, appended)]
    BY <1>5, Zenon DEF UpdateRequest, rejected
  <2>2. rejected \in Int
    BY <1>2 DEF Step
  <2> HIDE DEF rejected
  <2>3. /\ Counted(r).last_sched_seq = req[r].last_sched_seq
        /\ Corrected(r, rejected, appended).last_sched_seq = req[r].last_sched_seq
    BY <1>1, <2>2, UpdatedRequestTypes
  <2>4. HoldsKept
    BY <2>1, <2>3 DEF HoldsKept, TypeOK
  <2> QED BY <1>3, <2>1, <2>4, KeptFences
<1> QED
  BY <1>4, <1>5

\* The invariant holds initially.
LEMMA FencesInit == Init => FenceInv
<1> SUFFICES ASSUME Init PROVE FenceInv
  OBVIOUS
<1>1. Len(pipeline) = 0 /\ Len(deferred_frees) = 0 /\ pc = "idle"
  BY EmptySeq DEF Init
<1>2. Pending = {}
  BY <1>1 DEF Pending
<1>3. StepsOrdered /\ WritesCovered /\ OldestWritten
  BY <1>1, <1>2 DEF Init, StepsOrdered, WritesCovered, OldestWritten, Updating
<1>4. FencesOrdered /\ LastSeqBounded
  BY <1>1 DEF Init, Blank, FencesOrdered, LastSeqBounded
<1> QED
  BY <1>3, <1>4 DEF Init, FenceInv

\* Without deferral nothing is ever queued behind a fence.
LEMMA NothingDeferred ==
  ASSUME TypeOK, ~DeferBlockFree, deferred_frees = <<>>, [Next]_vars
  PROVE  deferred_frees' = <<>>
<1> USE DEF blockVars
<1>1. \A r : FreeRequestBlocks(r) => deferred_frees' = <<>>
  BY DEF FreeRequestBlocks, BlocksCanBeFreed
<1>2. CASE Client
  BY <1>1, <1>2 DEF Client, AddRequest, Abort, SetPauseState, BeginReset, FinishRequest
<1>3. CASE ResetCall
  BY <1>1, <1>3 DEF ResetCall, ResetPreempt, EndReset, PreemptRequest
<1>4. CASE ScheduleCall
  BY <1>1, <1>4 DEF ScheduleCall, BeginSchedule, SkipRunning, ScheduleRunning,
     PreemptVictim, EndRunning, SkipWaiting, AdmitWaiting, EndWaiting, EndSchedule,
     PreemptRequest
<1>5. CASE UpdateCall
  <2>1. ASSUME NEW r \in Requests, NEW accepted, NEW appended, NEW eos,
               UpdateRequest(r, accepted, appended, eos)
        PROVE  deferred_frees' = <<>>
    <3>1. UNCHANGED deferred_frees \/ FinishRequest(r)
      BY <2>1, Zenon DEF UpdateRequest
    <3> QED BY <1>1, <3>1 DEF FinishRequest
  <2> QED
    BY <1>5, <2>1 DEF UpdateCall, BeginUpdate, DrainDeferredFree, EndDrain, EndUpdate,
                      FencePassed
<1>6. CASE UNCHANGED vars
  BY <1>6 DEF vars
<1> QED
  BY <1>2, <1>3, <1>4, <1>5, <1>6 DEF Next

\* Every step keeps the invariant.
LEMMA FencesStep ==
  TypeOK /\ FenceInv /\ [Next]_vars => FenceInv'
<1> SUFFICES ASSUME TypeOK, FenceInv, [Next]_vars PROVE FenceInv'
  OBVIOUS
<1>1. CASE ~DeferBlockFree
  BY <1>1, NothingDeferred DEF FenceInv
<1>2. CASE DeferBlockFree
  <2>1. CASE Client \/ ResetCall
    BY <1>2, <2>1, QueueFences, EvictedFences DEF Client, ResetCall
  <2>2. CASE ScheduleCall
    BY <1>2, <2>2, QueueFences, EvictedFences, ScheduledFences, SentFences
    DEF ScheduleCall
  <2>3. CASE UpdateCall
    <3>1. ASSUME NEW r \in Requests, NEW accepted \in 0..MaxSpec,
                 NEW appended \in 0..(MaxSpec + 1), NEW eos \in BOOLEAN,
                 UpdateRequest(r, accepted, appended, eos)
          PROVE  FenceInv'
      BY <1>2, <3>1, ProcessedFences
    <3> QED
      BY <1>2, <2>3, <3>1, ReturnedFences, DrainedFences, UndrainedFences, PoppedFences
      DEF UpdateCall
  <2>4. CASE UNCHANGED vars
    <3>1. StepsKept
      BY <1>2, <2>4 DEF vars, stepVars, seqVars, StepsKept, Pending, Updating, FenceInv,
                        OldestWritten
    <3>2. HoldsKept /\ UNCHANGED deferred_frees
      BY <2>4 DEF vars, HoldsKept, blockVars
    <3> QED BY <1>2, <3>1, <3>2, KeptFences
  <2> QED BY <2>1, <2>2, <2>3, <2>4 DEF Next
<1> QED
  BY <1>1, <1>2

\* A block that a block table or a deferred free references is not in the pool.
LEMMA ReferencedNotFree ==
  /\ \A r \in Requests : \A b : b \in owned[r] => b \notin Free
  /\ \A k \in 1..Len(deferred_frees) : \A b :
       b \in deferred_frees[k].blocks => b \notin Free
<1> DEFINE held == UNION {owned[r] : r \in Requests}
           fenced == UNION {deferred_frees[i].blocks : i \in 1..Len(deferred_frees)}
<1>1. Free = Blocks \ (held \cup fenced)
  BY Zenon DEF Free
<1>2. \A r \in Requests : \A b : b \in owned[r] => b \in held
  OBVIOUS
<1>3. \A k \in 1..Len(deferred_frees) : \A b :
        b \in deferred_frees[k].blocks => b \in fenced
  OBVIOUS
<1> HIDE DEF held, fenced
<1> QED
  BY <1>1, <1>2, <1>3

\* The invariant puts every block a pending step writes outside the pool.
LEMMA FencesProtect == TypeOK /\ FenceInv => NoWriteToFreeBlock
<1> SUFFICES ASSUME TypeOK, FenceInv, DeferBlockFree,
                    NEW i \in 1..Len(pipeline), NEW b \in pipeline[i].writes
             PROVE  b \notin Free
  BY DEF NoWriteToFreeBlock
<1>1. i \in Pending
  BY DEF Pending, FenceInv, OldestWritten
<1>2. Covered(b, pipeline[i].seq)
  BY <1>1 DEF FenceInv, WritesCovered
<1> QED
  BY <1>2, ReferencedNotFree DEF Covered

\* With nothing pending the two counters meet, and no fence can lie beyond them.
LEMMA FencesDrain == TypeOK /\ FenceInv => NoStrandedBlocks
<1> SUFFICES ASSUME TypeOK, FenceInv, DeferBlockFree, pc = "idle", pipeline = <<>>,
                    deferred_frees # <<>>
             PROVE  FALSE
  BY DEF NoStrandedBlocks, FenceInv
<1> USE FenceTypes
<1>1. Pending = {}
  <2>1. Len(pipeline) = 0
    BY EmptySeq
  <2> QED BY <2>1 DEF Pending
<1>2. 1 \in 1..Len(deferred_frees)
  BY EmptySeq DEF TypeOK
<1>3. processed_step_seq < sched_step_seq
  BY <1>2 DEF FenceInv, FencesOrdered
<1>4. processed_step_seq + 1 \in (processed_step_seq + 1)..sched_step_seq
  BY <1>3
<1> QED
  BY <1>1, <1>4 DEF FenceInv, StepsOrdered

\* The invariant holds throughout, together with the types it reads.
LEMMA FencesHold == Spec => [](TypeOK /\ FenceInv)
<1>1. Init => TypeOK /\ UpdatingOldest /\ FenceInv
  BY TypesInit, UpdatingOldestInit, FencesInit
<1>2. TypeOK /\ UpdatingOldest /\ FenceInv /\ [Next]_vars
        => TypeOK' /\ UpdatingOldest' /\ FenceInv'
  BY TypesStep, UpdatingOldestStep, FencesStep
<1> QED
  BY <1>1, <1>2, PTL DEF Spec

\* Deferred freeing is safe for any number of steps in flight: whatever mix of
\* preemptions, aborts, finishes and resets happens, no block that an unfinished
\* step may still write goes back to the pool.
THEOREM WritesAreFenced == Spec => []NoWriteToFreeBlock
  BY FencesHold, FencesProtect, PTL

\* And it leaks nothing: once no step is in flight every deferred block is back.
THEOREM FencesAllDrain == Spec => []NoStrandedBlocks
  BY FencesHold, FencesDrain, PTL

-----------------------------------------------------------------------------
(* The queues partition the live requests *)

\* No element of the queue occurs in it twice.
Once(q) == \A i, j \in 1..Len(q) : q[i] = q[j] => i = j

\* Appending adds an element, once if it was not there.
LEMMA AppendOnce ==
  ASSUME NEW q \in Seq(Requests), NEW r \in Requests
  PROVE  /\ \A x : Contains(Append(q, r), x) <=> Contains(q, x) \/ x = r
         /\ Once(q) /\ ~Contains(q, r) => Once(Append(q, r))
<1> DEFINE a == Append(q, r)
<1>1. /\ Len(q) \in Nat /\ Len(a) = Len(q) + 1
      /\ \A i \in 1..Len(q) : a[i] = q[i]
      /\ a[Len(q) + 1] = r
  BY AppendProperties, LenProperties
<1> HIDE DEF a
<1>2. \A i \in 1..Len(a) : i \in 1..Len(q) \/ i = Len(q) + 1
  BY <1>1
<1>3. \A x : Contains(a, x) <=> Contains(q, x) \/ x = r
  BY <1>1, <1>2 DEF Contains
<1>4. Once(q) /\ ~Contains(q, r) => Once(a)
  BY <1>1, <1>2 DEF Contains, Once
<1> QED
  BY <1>3, <1>4 DEF a

\* A concatenation holds what its parts hold, once if the parts are disjoint.
LEMMA ConcatOnce ==
  ASSUME NEW p \in Seq(Requests), NEW q \in Seq(Requests)
  PROVE  /\ \A x : Contains(p \o q, x) <=> Contains(p, x) \/ Contains(q, x)
         /\ Once(p) /\ Once(q) /\ (\A x \in Requests : ~(Contains(p, x) /\ Contains(q, x)))
              => Once(p \o q)
<1> DEFINE a == p \o q
<1>1. /\ Len(p) \in Nat /\ Len(q) \in Nat /\ Len(a) = Len(p) + Len(q)
      /\ \A i \in 1..Len(a) : a[i] = IF i <= Len(p) THEN p[i] ELSE q[i - Len(p)]
  BY ConcatProperties, LenProperties
<1>5. \A i \in 1..Len(p) : p[i] \in Requests
  BY ElementOfSeq
<1> HIDE DEF a
<1>2. /\ \A i \in 1..Len(p) : i \in 1..Len(a) /\ a[i] = p[i]
      /\ \A i \in 1..Len(q) : i + Len(p) \in 1..Len(a) /\ a[i + Len(p)] = q[i]
  BY <1>1
<1>3. \A x : Contains(a, x) <=> Contains(p, x) \/ Contains(q, x)
  <2> TAKE x
  <2>1. Contains(a, x) => Contains(p, x) \/ Contains(q, x)
    <3> SUFFICES ASSUME NEW i \in 1..Len(a), a[i] = x PROVE Contains(p, x) \/ Contains(q, x)
      BY DEF Contains
    <3>1. CASE i <= Len(p)
      BY <1>1, <3>1 DEF Contains
    <3>2. CASE ~ (i <= Len(p))
      <4>1. i - Len(p) \in 1..Len(q) /\ q[i - Len(p)] = x
        BY <1>1, <3>2
      <4> QED
        BY <4>1 DEF Contains
    <3> QED
      BY <3>1, <3>2
  <2>2. Contains(p, x) => Contains(a, x)
    BY <1>2 DEF Contains
  <2>3. Contains(q, x) => Contains(a, x)
    <3> SUFFICES ASSUME NEW i \in 1..Len(q), q[i] = x PROVE Contains(a, x)
      BY DEF Contains
    <3> QED
      BY <1>2 DEF Contains
  <2> QED
    BY <2>1, <2>2, <2>3
<1>4. ASSUME Once(p), Once(q), \A x \in Requests : ~(Contains(p, x) /\ Contains(q, x))
      PROVE  Once(a)
  <2> SUFFICES ASSUME NEW i \in 1..Len(a), NEW j \in 1..Len(a), a[i] = a[j] PROVE i = j
    BY DEF Once
  <2>1. CASE i <= Len(p) /\ j <= Len(p)
    BY <1>1, <1>4, <2>1 DEF Once
  <2>2. CASE i > Len(p) /\ j > Len(p)
    <3>1. i - Len(p) \in 1..Len(q) /\ j - Len(p) \in 1..Len(q) /\ q[i - Len(p)] = q[j - Len(p)]
      BY <1>1, <2>2
    <3>2. i - Len(p) = j - Len(p)
      BY <1>4, <3>1 DEF Once
    <3> QED
      BY <1>1, <3>2
  <2>3. ASSUME NEW m \in 1..Len(a), NEW n \in 1..Len(a), a[m] = a[n], m <= Len(p), n > Len(p)
        PROVE FALSE
    <3>1. m \in 1..Len(p) /\ p[m] = a[m] /\ n - Len(p) \in 1..Len(q) /\ q[n - Len(p)] = a[m]
      BY <1>1, <2>3
    <3>2. Contains(p, a[m]) /\ Contains(q, a[m]) /\ a[m] \in Requests
      BY <1>5, <3>1 DEF Contains
    <3> QED
      BY <1>4, <3>2
  <2> QED
    BY <1>1, <2>1, <2>2, <2>3
<1> QED
  BY <1>3, <1>4 DEF a

\* A part of a queue holds the elements at its indices.
LEMMA SubSeqOnce ==
  ASSUME NEW q \in Seq(Requests), NEW m \in Nat, NEW n \in Nat, m >= 1, n <= Len(q)
  PROVE  /\ SubSeq(q, m, n) \in Seq(Requests)
         /\ \A x : Contains(SubSeq(q, m, n), x) <=> \E i \in m..n : q[i] = x
         /\ Once(q) => Once(SubSeq(q, m, n))
<1> DEFINE a == SubSeq(q, m, n)
<1>0. Len(q) \in Nat /\ \A i \in m..n : q[i] \in Requests
  BY ElementOfSeq, LenProperties
<1>1. /\ a \in Seq(Requests) /\ Len(a) = IF m <= n THEN n - m + 1 ELSE 0
      /\ \A i \in 1..(n - m + 1) : a[i] = q[m + i - 1]
  BY <1>0, SubSeqProperties
<1> HIDE DEF a
<1>2. \A i \in 1..Len(a) : m + i - 1 \in m..n /\ m + i - 1 \in 1..Len(q) /\ a[i] = q[m + i - 1]
  BY <1>0, <1>1, SMTT(30)
<1>3. \A x : Contains(a, x) <=> \E i \in m..n : q[i] = x
  <2> TAKE x
  <2>1. ASSUME NEW i \in m..n, q[i] = x PROVE Contains(a, x)
    <3>1. i - m + 1 \in 1..Len(a) /\ a[i - m + 1] = q[i]
      BY <1>1, <2>1
    <3> QED
      BY <2>1, <3>1 DEF Contains
  <2> QED
    BY <1>2, <2>1 DEF Contains
<1>4. Once(q) => Once(a)
  <2> SUFFICES ASSUME Once(q), NEW i \in 1..Len(a), NEW j \in 1..Len(a), a[i] = a[j]
               PROVE  i = j
    BY DEF Once
  <2>1. m + i - 1 = m + j - 1
    BY <1>2 DEF Once
  <2> QED
    BY <2>1
<1> QED
  BY <1>1, <1>3, <1>4 DEF a

\* Removing a request from its queue leaves the other requests in it.
LEMMA WithoutOnce ==
  ASSUME NEW q \in Seq(Requests), NEW r, Once(q)
  PROVE  /\ Without(q, r) \in Seq(Requests)
         /\ \A x : Contains(Without(q, r), x) <=> Contains(q, x) /\ x # r
         /\ Once(Without(q, r))
<1>1. CASE ~Contains(q, r)
  BY <1>1 DEF Without
<1>2. CASE Contains(q, r)
  <2> DEFINE k == IndexOf(q, r)
             p == SubSeq(q, 1, k - 1)
             s == SubSeq(q, k + 1, Len(q))
  <2>1. k \in 1..Len(q) /\ q[k] = r /\ Len(q) \in Nat
    BY <1>2, IndexOfType, LenProperties
  <2> HIDE DEF k
  <2>2. /\ p \in Seq(Requests) /\ Once(p)
        /\ \A x : Contains(p, x) <=> \E i \in 1..(k - 1) : q[i] = x
    BY <2>1, SubSeqOnce
  <2>3. /\ s \in Seq(Requests) /\ Once(s)
        /\ \A x : Contains(s, x) <=> \E i \in (k + 1)..Len(q) : q[i] = x
    BY <2>1, SubSeqOnce
  <2> HIDE DEF p, s
  <2>4. \A x : ~(Contains(p, x) /\ Contains(s, x))
    BY <2>1, <2>2, <2>3 DEF Once
  <2>5. \A x : Contains(p, x) \/ Contains(s, x) <=> Contains(q, x) /\ x # r
    <3> TAKE x
    <3>1. \A i \in 1..Len(q) : i \in 1..(k - 1) \/ i = k \/ i \in (k + 1)..Len(q)
      BY <2>1
    <3>2. Contains(q, x) /\ x # r => Contains(p, x) \/ Contains(s, x)
      BY <2>1, <2>2, <2>3, <3>1 DEF Contains
    <3>3. Contains(p, x) => Contains(q, x) /\ x # r
      <4> SUFFICES ASSUME NEW i \in 1..(k - 1), q[i] = x PROVE Contains(q, x) /\ x # r
        BY <2>2
      <4>1. i \in 1..Len(q) /\ i # k
        BY <2>1
      <4> QED
        BY <2>1, <4>1 DEF Contains, Once
    <3>4. Contains(s, x) => Contains(q, x) /\ x # r
      <4> SUFFICES ASSUME NEW i \in (k + 1)..Len(q), q[i] = x PROVE Contains(q, x) /\ x # r
        BY <2>3
      <4>1. i \in 1..Len(q) /\ i # k
        BY <2>1
      <4> QED
        BY <2>1, <4>1 DEF Contains, Once
    <3> QED
      BY <3>2, <3>3, <3>4
  <2>6. Without(q, r) = p \o s
    BY <1>2 DEF Without, k, p, s
  <2> QED
    BY <2>2, <2>3, <2>4, <2>5, <2>6, ConcatOnce, ConcatProperties
<1> QED
  BY <1>1, <1>2

\* A queue without repetitions holds an element once or not at all.
LEMMA OccurrencesOnce ==
  ASSUME NEW q \in Seq(Requests), NEW r, Once(q)
  PROVE  Occurrences(q, r) = IF Contains(q, r) THEN 1 ELSE 0
<1> DEFINE S == {i \in 1..Len(q) : q[i] = r}
<1>1. CASE Contains(q, r)
  <2>1. PICK k \in 1..Len(q) : q[k] = r
    BY <1>1 DEF Contains
  <2>2. S = {k}
    BY <2>1 DEF Once
  <2> QED
    BY <1>1, <2>2, FS_Singleton DEF Occurrences
<1>2. CASE ~Contains(q, r)
  <2>1. S = {}
    BY <1>2 DEF Contains
  <2> QED
    BY <1>2, <2>1, FS_EmptySet DEF Occurrences
<1> QED
  BY <1>1, <1>2

\* The queues hold each request once, as its status says; the requests a call of
\* schedule() sets aside are only there while its WAITING loop runs.
QueueInv ==
  /\ Once(running) /\ Once(waiting) /\ Once(skipped_waiting) /\ Once(step_skipped_waiting)
  /\ \A r \in Requests :
       /\ Contains(running, r) <=> req[r].status = "RUNNING"
       /\ (Contains(waiting, r) \/ Contains(skipped_waiting, r) \/ Contains(step_skipped_waiting, r))
            <=> req[r].status \in {"WAITING", "PREEMPTED"}
       /\ ~(Contains(waiting, r) /\ Contains(skipped_waiting, r))
       /\ ~(Contains(waiting, r) /\ Contains(step_skipped_waiting, r))
       /\ ~(Contains(skipped_waiting, r) /\ Contains(step_skipped_waiting, r))
  /\ pc # "waiting" => step_skipped_waiting = <<>>

\* The empty queue holds nothing.
LEMMA EmptyOnce == Once(<<>>) /\ \A x : ~Contains(<<>>, x)
BY DEF Once, Contains

\* The status of a request after each of the changes that the calls make to it.
LEMMA StatusKept ==
  ASSUME TypeOK, NEW r \in Requests
  PROVE  /\ \A seq, k : AfterSchedule(r, seq, k).status = req[r].status
         /\ Counted(r).status = req[r].status
         /\ \A rejected, appended : Corrected(r, rejected, appended).status = req[r].status
         /\ \A drop : Preempted(r, drop).status = "PREEMPTED"
         /\ \A st : Blank(st).status = st
         /\ \A hit : Admitted(r, hit).status = "RUNNING"
<1>0. req[r] \in ReqFields
  BY DEF TypeOK
<1>1. \A seq, k : AfterSchedule(r, seq, k).status = req[r].status
  BY <1>0 DEF AfterSchedule, ReqFields
<1>6. "status" \in DOMAIN req[r]
  BY <1>0 DEF ReqFields
<1>2. Counted(r).status = req[r].status /\ "status" \in DOMAIN Counted(r)
  BY <1>6 DEF Counted
<1>3. \A rejected, appended : Corrected(r, rejected, appended).status = req[r].status
  BY <1>2 DEF Corrected
<1>4. \A drop : Preempted(r, drop).status = "PREEMPTED"
  BY <1>0 DEF Preempted, ReqFields
<1>5. \A hit : Admitted(r, hit).status = "RUNNING"
  BY <1>0 DEF Admitted, ReqFields
<1> QED
  BY <1>1, <1>2, <1>3, <1>4, <1>5 DEF Blank

\* Steps that move no request between the queues.
LEMMA QueuesSame ==
  ASSUME QueueInv, UNCHANGED <<running, waiting, skipped_waiting, step_skipped_waiting>>,
         \A r \in Requests : req'[r].status = req[r].status,
         pc' = pc \/ (pc # "waiting" /\ pc' # "waiting") \/ step_skipped_waiting = <<>>
  PROVE  QueueInv'
BY DEF QueueInv

\* A finished request leaves the queue it was in.
LEMMA QueuesFinish ==
  ASSUME TypeOK, QueueInv, NEW r \in Requests, FinishRequest(r), pc # "waiting", pc' # "waiting",
         UNCHANGED step_skipped_waiting
  PROVE  QueueInv'
<1>1. step_skipped_waiting = <<>> /\ \A x : ~Contains(step_skipped_waiting, x)
  BY EmptyOnce DEF QueueInv
<1>2. /\ Once(running') /\ \A x : Contains(running', x) <=> Contains(running, x) /\ x # r
      /\ Once(waiting') /\ \A x : Contains(waiting', x) <=> Contains(waiting, x) /\ x # r
      /\ Once(skipped_waiting')
      /\ \A x : Contains(skipped_waiting', x) <=> Contains(skipped_waiting, x) /\ x # r
  BY WithoutOnce DEF FinishRequest, QueueInv, TypeOK
<1>3. /\ req'[r].status = "FINISHED"
      /\ \A x \in Requests : x # r => req'[x].status = req[x].status
  BY StatusKept DEF FinishRequest, TypeOK
<1> QED
  BY <1>1, <1>2, <1>3 DEF QueueInv

\* A preempted request moves from the running queue to the head of the waiting one.
LEMMA QueuesPreempt ==
  ASSUME TypeOK, QueueInv, NEW r \in Requests, NEW drop, PreemptRequest(r, drop),
         Contains(running, r), Once(running'),
         \A x \in Requests : Contains(running', x) <=> Contains(running, x) /\ x # r,
         pc # "waiting", pc' # "waiting", UNCHANGED <<skipped_waiting, step_skipped_waiting>>
  PROVE  QueueInv'
<1>1. /\ <<r>> \in Seq(Requests) /\ Once(<<r>>) /\ \A x : Contains(<<r>>, x) <=> x = r
  BY DEF Once, Contains
<1>2. req[r].status = "RUNNING" /\ ~Contains(waiting, r)
  BY DEF QueueInv
<1>3. Once(waiting') /\ \A x : Contains(waiting', x) <=> Contains(waiting, x) \/ x = r
  BY <1>1, <1>2, ConcatOnce DEF PreemptRequest, TypeOK, QueueInv
<1>4. /\ req'[r].status = "PREEMPTED"
      /\ \A x \in Requests : x # r => req'[x].status = req[x].status
  BY StatusKept DEF PreemptRequest, TypeOK
<1>5. \A x \in Requests : Contains(running, x) <=> req[x].status = "RUNNING"
  BY DEF QueueInv
<1> QED
  BY <1>2, <1>3, <1>4, <1>5 DEF QueueInv

\* The request that the WAITING loop pops was in exactly one of its queues.
LEMMA QueuesPop ==
  ASSUME TypeOK, QueueInv, NEW r \in Requests, AtWaiting(r), PopWaiting(r)
  PROVE  /\ req[r].status \in {"WAITING", "PREEMPTED"}
         /\ ~Contains(running, r) /\ ~Contains(step_skipped_waiting, r)
         /\ Once(waiting') /\ Once(skipped_waiting')
         /\ \A x : Contains(waiting', x) <=> Contains(waiting, x) /\ x # r
         /\ \A x : Contains(skipped_waiting', x) <=> Contains(skipped_waiting, x) /\ x # r
<1>1. Contains(waiting, r) \/ Contains(skipped_waiting, r)
  BY DEF AtWaiting, IsNextWaiting, IsHead
<1>2. req[r].status \in {"WAITING", "PREEMPTED"} /\ ~Contains(step_skipped_waiting, r)
  BY <1>1 DEF QueueInv
<1>3. req[r].status # "RUNNING"
  BY <1>2
<1>4. ~Contains(running, r)
  BY <1>3 DEF QueueInv
<1>5. /\ Once(waiting') /\ \A x : Contains(waiting', x) <=> Contains(waiting, x) /\ x # r
      /\ Once(skipped_waiting')
      /\ \A x : Contains(skipped_waiting', x) <=> Contains(skipped_waiting, x) /\ x # r
  BY WithoutOnce DEF PopWaiting, QueueInv, TypeOK
<1> QED
  BY <1>2, <1>4, <1>5

\* Every step keeps the queues partitioned.
LEMMA QueuesStep ==
  TypeOK /\ QueueInv /\ [Next]_vars => QueueInv'
<1> SUFFICES ASSUME TypeOK, QueueInv, [Next]_vars PROVE QueueInv'
  OBVIOUS
<1> USE DEF queueVars, blockVars, seqVars, idVars, stepVars, ctrlVars, localVars
<1>1. ASSUME NEW r \in Requests, AddRequest(r) PROVE QueueInv'
  <2>1. /\ ~Contains(waiting, r) /\ ~Contains(running, r)
        /\ ~Contains(skipped_waiting, r) /\ ~Contains(step_skipped_waiting, r)
    BY <1>1 DEF AddRequest, QueueInv
  <2>2. Once(waiting') /\ \A x : Contains(waiting', x) <=> Contains(waiting, x) \/ x = r
    BY <1>1, <2>1, AppendOnce DEF AddRequest, TypeOK, QueueInv
  <2>3. req[r] \in ReqFields
    BY DEF TypeOK
  <2>4. /\ req'[r].status = "WAITING"
        /\ \A x \in Requests : x # r => req'[x].status = req[x].status
    BY <1>1, <2>3 DEF AddRequest, TypeOK, ReqFields
  <2> QED
    BY <1>1, <2>1, <2>2, <2>4 DEF AddRequest, QueueInv
<1>2. ASSUME NEW r \in Requests, Abort(r) PROVE QueueInv'
  BY <1>2, QueuesFinish DEF Abort
<1>3. ASSUME NEW p, SetPauseState(p) PROVE QueueInv'
  BY <1>3, QueuesSame DEF SetPauseState
<1>4. CASE BeginReset \/ EndReset
  <2>1. pc \in {"idle", "reset"} /\ pc' \in {"idle", "reset"}
        /\ UNCHANGED <<req, running, waiting, skipped_waiting, step_skipped_waiting>>
    BY <1>4 DEF BeginReset, EndReset
  <2> QED
    BY <2>1, QueuesSame
<1>5. CASE ResetPreempt
  <2> DEFINE r == running[Len(running)]
  <2>1. r \in Requests /\ Len(running) \in Nat /\ Len(running) >= 1
    BY <1>5, TailFrontType, LenProperties DEF ResetPreempt, TypeOK
  <2>2. /\ PreemptRequest(r, TRUE) /\ running' = SubSeq(running, 1, Len(running) - 1)
        /\ pc = "reset" /\ pc' = "reset" /\ UNCHANGED <<skipped_waiting, step_skipped_waiting>>
    BY <1>5 DEF ResetPreempt
  <2>3. /\ Once(running')
        /\ \A x : Contains(running', x) <=> \E i \in 1..(Len(running) - 1) : running[i] = x
    BY <2>1, <2>2, SubSeqOnce DEF QueueInv, TypeOK
  <2>4. \A x : Contains(running', x) <=> Contains(running, x) /\ x # r
    <3>1. \A i \in 1..Len(running) : i \in 1..(Len(running) - 1) \/ i = Len(running)
      BY <2>1
    <3>2. \A i \in 1..(Len(running) - 1) : i \in 1..Len(running) /\ i # Len(running)
      BY <2>1
    <3>3. \A i, j \in 1..Len(running) : running[i] = running[j] => i = j
      BY DEF QueueInv, Once
    <3>4. Len(running) \in 1..Len(running)
      BY <2>1
    <3> QED
      BY <2>3, <3>1, <3>2, <3>3, <3>4 DEF Contains
  <2>5. Contains(running, r)
    BY <2>1 DEF Contains
  <2> QED
    BY <2>1, <2>2, <2>3, <2>4, <2>5, QueuesPreempt
<1>6. CASE BeginSchedule
  BY <1>6, EmptyOnce DEF BeginSchedule, QueueInv
<1>7. ASSUME NEW r \in Requests, SkipRunning(r) PROVE QueueInv'
  BY <1>7, QueuesSame DEF SkipRunning
<1>8. ASSUME NEW r \in Requests, NEW n, ScheduleRunning(r, n) PROVE QueueInv'
  <2>1. req[r] \in ReqFields
    BY DEF TypeOK
  <2>2. \A x \in Requests : req'[x].status = req[x].status
    BY <1>8, <2>1 DEF ScheduleRunning, TypeOK, ReqFields
  <2> QED
    BY <1>8, <2>2, QueuesSame DEF ScheduleRunning
<1>9. ASSUME NEW r \in Requests, NEW v \in Requests, PreemptVictim(r, v) PROVE QueueInv'
  <2>1. /\ PreemptRequest(v, RequiresKVDelivery) /\ running' = Without(running, v)
        /\ pc = "running" /\ pc' # "waiting" /\ Contains(running, v)
        /\ UNCHANGED <<skipped_waiting, step_skipped_waiting>>
    BY <1>9 DEF PreemptVictim, LacksBlocks, Wants, AtRunning, IsVictim
  <2>2. Once(running') /\ \A x : Contains(running', x) <=> Contains(running, x) /\ x # v
    BY <2>1, WithoutOnce DEF QueueInv, TypeOK
  <2> QED
    BY <2>1, <2>2, QueuesPreempt
<1>10. ASSUME NEW r \in Requests, SkipWaiting(r) PROVE QueueInv'
  <2>1. AtWaiting(r) /\ PopWaiting(r) /\ pc = "waiting" /\ pc' = pc
        /\ step_skipped_waiting' = Append(step_skipped_waiting, r)
        /\ UNCHANGED <<req, running>>
    BY <1>10 DEF SkipWaiting, AtWaiting
  <2>2. /\ Once(step_skipped_waiting')
        /\ \A x : Contains(step_skipped_waiting', x) <=> Contains(step_skipped_waiting, x) \/ x = r
    BY <2>1, QueuesPop, AppendOnce DEF QueueInv, TypeOK
  <2> QED
    BY <2>1, <2>2, QueuesPop DEF QueueInv
<1>11. ASSUME NEW r \in Requests, NEW hit, NEW n, AdmitWaiting(r, hit, n) PROVE QueueInv'
  <2>1. AtWaiting(r) /\ PopWaiting(r) /\ pc = "waiting" /\ pc' = pc
        /\ running' = Append(running, r) /\ req' = [req EXCEPT ![r] = Admitted(r, hit)]
        /\ UNCHANGED step_skipped_waiting
    BY <1>11 DEF AdmitWaiting, AtWaiting
  <2>2. Once(running') /\ \A x : Contains(running', x) <=> Contains(running, x) \/ x = r
    BY <2>1, QueuesPop, AppendOnce DEF QueueInv, TypeOK
  <2>3. /\ req'[r].status = "RUNNING"
        /\ \A x \in Requests : x # r => req'[x].status = req[x].status
    BY <2>1, StatusKept DEF TypeOK
  <2> QED
    BY <2>1, <2>2, <2>3, QueuesPop DEF QueueInv
<1>12. CASE EndRunning
  <2>1. pc = "running" /\ UNCHANGED <<req, running, waiting, skipped_waiting, step_skipped_waiting>>
    BY <1>12 DEF EndRunning
  <2> QED
    BY <2>1, QueuesSame DEF QueueInv
<1>13. CASE EndWaiting
  <2>1. skipped_waiting' = step_skipped_waiting \o skipped_waiting
        /\ step_skipped_waiting' = <<>> /\ UNCHANGED <<req, running, waiting>>
    BY <1>13 DEF EndWaiting
  <2>2. /\ Once(skipped_waiting')
        /\ \A x : Contains(skipped_waiting', x)
                    <=> Contains(step_skipped_waiting, x) \/ Contains(skipped_waiting, x)
    BY <2>1, ConcatOnce DEF QueueInv, TypeOK
  <2> QED
    BY <2>1, <2>2, EmptyOnce DEF QueueInv
<1>14. CASE EndSchedule
  <2>1. /\ pc = "finish" /\ pc' = "idle"
        /\ \A x \in Requests : req'[x].status = req[x].status
        /\ UNCHANGED <<running, waiting, skipped_waiting, step_skipped_waiting>>
    BY <1>14, StatusKept DEF EndSchedule
  <2> QED
    BY <2>1, QueuesSame
<1>15. CASE BeginUpdate \/ DrainDeferredFree \/ EndDrain \/ EndUpdate
  <2>1. /\ pc # "waiting" /\ pc' # "waiting"
        /\ UNCHANGED <<req, running, waiting, skipped_waiting, step_skipped_waiting>>
    BY <1>15 DEF BeginUpdate, DrainDeferredFree, EndDrain, EndUpdate
  <2> QED
    BY <2>1, QueuesSame
<1>16. ASSUME NEW r \in Requests, NEW accepted, NEW appended, NEW eos,
              UpdateRequest(r, accepted, appended, eos)
       PROVE  QueueInv'
  <2>1. pc = "update" /\ pc' = pc /\ UNCHANGED step_skipped_waiting
    BY <1>16 DEF UpdateRequest
  <2>2. CASE FinishRequest(r)
    BY <2>1, <2>2, QueuesFinish
  <2>3. CASE ~FinishRequest(r)
    <3>1. /\ UNCHANGED queueVars
          /\ \/ req' = req
             \/ req' = [req EXCEPT ![r] = Counted(r)]
             \/ \E rejected : req' = [req EXCEPT ![r] = Corrected(r, rejected, appended)]
      BY <1>16, <2>3 DEF UpdateRequest
    <3>2. \A x \in Requests : req'[x].status = req[x].status
      <4>1. CASE req' = req
        BY <4>1
      <4>2. CASE req' = [req EXCEPT ![r] = Counted(r)]
        BY <4>2, StatusKept DEF TypeOK
      <4>3. ASSUME NEW rejected, req' = [req EXCEPT ![r] = Corrected(r, rejected, appended)]
            PROVE  \A x \in Requests : req'[x].status = req[x].status
        BY <4>3, StatusKept DEF TypeOK
      <4> QED
        BY <3>1, <4>1, <4>2, <4>3
    <3> QED
      BY <2>1, <3>1, <3>2, QueuesSame
  <2> QED
    BY <2>2, <2>3
<1>17. CASE UNCHANGED vars
  BY <1>17, QueuesSame DEF vars
<1> QED
  BY <1>1, <1>2, <1>3, <1>4, <1>5, <1>6, <1>7, <1>8, <1>9, <1>10, <1>11, <1>12, <1>13,
     <1>14, <1>15, <1>16, <1>17
     DEF Next, Client, ResetCall, ScheduleCall, UpdateCall

\* The queue invariant holds in every reachable state.
LEMMA QueuesHold == Spec => [](TypeOK /\ QueueInv)
<1>1. Init => QueueInv
  BY EmptyOnce, StatusKept DEF Init, QueueInv, Blank
<1> QED
  BY <1>1, QueuesStep, TypeCorrect, PTL DEF Spec

\* A live request sits in exactly one queue, once, the one its status names; a
\* finished one sits in none, for every policy, batch and pool size.
THEOREM QueuesArePartitioned == Spec => []QueuesPartition
<1>1. ASSUME TypeOK, QueueInv PROVE QueuesPartition
  <2> SUFFICES ASSUME NEW r \in Requests
               PROVE  /\ Occurrences(running, r) = IF req[r].status = "RUNNING" THEN 1 ELSE 0
                      /\ Occurrences(waiting, r) + Occurrences(skipped_waiting, r)
                           + Occurrences(step_skipped_waiting, r)
                         = IF req[r].status \in {"WAITING", "PREEMPTED"} THEN 1 ELSE 0
    BY DEF QueuesPartition
  <2>1. /\ Occurrences(running, r) = IF Contains(running, r) THEN 1 ELSE 0
        /\ Occurrences(waiting, r) = IF Contains(waiting, r) THEN 1 ELSE 0
        /\ Occurrences(skipped_waiting, r) = IF Contains(skipped_waiting, r) THEN 1 ELSE 0
        /\ Occurrences(step_skipped_waiting, r)
             = IF Contains(step_skipped_waiting, r) THEN 1 ELSE 0
    BY <1>1, OccurrencesOnce DEF TypeOK, QueueInv
  <2> QED
    BY <1>1, <2>1 DEF QueueInv
<1> QED
  BY <1>1, QueuesHold, PTL

-----------------------------------------------------------------------------
(* A reset of the prefix cache *)

\* Only running requests hold blocks.
HoldersRun == \A r \in Requests : owned[r] # {} => req[r].status = "RUNNING"

\* A request that leaves the running queue gives up its blocks.
LEMMA HoldersFreed ==
  ASSUME TypeOK, HoldersRun, NEW r \in Requests, NEW x, FreeRequestBlocks(r),
         req' = [req EXCEPT ![r] = x]
  PROVE  HoldersRun'
BY DEF TypeOK, HoldersRun, FreeRequestBlocks

\* Only a request that runs, or begins to, is given blocks.
LEMMA HoldersGrow ==
  ASSUME TypeOK, HoldersRun, NEW r \in Requests, NEW choices, Allocate(r, choices),
         req'[r].status = "RUNNING", \A q \in Requests : q # r => req'[q] = req[q]
  PROVE  HoldersRun'
BY DEF TypeOK, HoldersRun, Allocate

\* No request leaves the running queue.
LEMMA HoldersKept ==
  ASSUME HoldersRun, owned' = owned,
         \A q \in Requests : req[q].status = "RUNNING" => req'[q].status = "RUNNING"
  PROVE  HoldersRun'
BY DEF HoldersRun

\* Every step keeps the blocks with the running requests.
LEMMA HoldersStep ==
  TypeOK /\ QueueInv /\ HoldersRun /\ [Next]_vars => HoldersRun'
<1> SUFFICES ASSUME TypeOK, QueueInv, HoldersRun, [Next]_vars PROVE HoldersRun'
  OBVIOUS
<1> USE DEF queueVars, blockVars, seqVars, idVars, stepVars, ctrlVars, localVars
<1>1. ASSUME NEW r \in Requests, AddRequest(r) PROVE HoldersRun'
  <2>1. req' = [req EXCEPT ![r].status = "WAITING"] /\ owned' = owned /\ req[r].status = "NEW"
    BY <1>1 DEF AddRequest
  <2>2. \A q \in Requests : q # r => req'[q] = req[q]
    BY <2>1 DEF TypeOK
  <2> QED
    BY <2>1, <2>2, HoldersKept
<1>2. ASSUME NEW r \in Requests, FinishRequest(r) PROVE HoldersRun'
  BY <1>2, HoldersFreed DEF FinishRequest
<1>3. ASSUME NEW r \in Requests, NEW drop, PreemptRequest(r, drop) PROVE HoldersRun'
  BY <1>3, HoldersFreed DEF PreemptRequest
<1>4. CASE Client
  BY <1>1, <1>2, <1>4, HoldersKept DEF Client, Abort, SetPauseState, BeginReset
<1>5. CASE ResetCall
  <2>1. CASE ResetPreempt
    <3>1. running[Len(running)] \in Requests
      BY <2>1, TailFrontType DEF ResetPreempt, TypeOK
    <3> QED
      BY <1>3, <2>1, <3>1 DEF ResetPreempt
  <2>2. CASE EndReset
    BY <2>2, HoldersKept DEF EndReset
  <2> QED
    BY <1>5, <2>1, <2>2 DEF ResetCall
<1>6. ASSUME NEW r \in Requests, NEW n, ScheduleRunning(r, n) PROVE HoldersRun'
  <2>1. r = running[req_index] /\ req_index \in 1..Len(running)
    BY <1>6, LenProperties DEF ScheduleRunning, Wants, AtRunning, TypeOK
  <2>2. req[r].status = "RUNNING" /\ req[r] \in ReqFields
    BY <2>1 DEF QueueInv, Contains, TypeOK
  <2>3. /\ Allocate(r, Allocations(r, req[r].num_computed_tokens, n))
        /\ req' = [req EXCEPT ![r].spec_token_ids = 0]
    BY <1>6 DEF ScheduleRunning
  <2>4. req'[r].status = "RUNNING" /\ \A q \in Requests : q # r => req'[q] = req[q]
    BY <2>2, <2>3 DEF TypeOK, ReqFields
  <2> QED
    BY <2>3, <2>4, HoldersGrow
<1>7. ASSUME NEW r \in Requests, NEW hit, NEW n, AdmitWaiting(r, hit, n) PROVE HoldersRun'
  <2>1. /\ Allocate(r, Admissions(r, hit, n))
        /\ req' = [req EXCEPT ![r] = Admitted(r, hit)]
    BY <1>7 DEF AdmitWaiting
  <2>2. req'[r].status = "RUNNING" /\ \A q \in Requests : q # r => req'[q] = req[q]
    BY <2>1, StatusKept DEF TypeOK
  <2> QED
    BY <2>1, <2>2, HoldersGrow
<1>8. ASSUME NEW r \in Requests, NEW v \in Requests, PreemptVictim(r, v) PROVE HoldersRun'
  BY <1>3, <1>8 DEF PreemptVictim
<1>9. CASE EndSchedule
  <2>1. owned' = owned /\ \A q \in Requests : req'[q].status = req[q].status
    BY <1>9, StatusKept DEF EndSchedule
  <2> QED
    BY <2>1, HoldersKept
<1>10. CASE ScheduleCall
  <2>1. ASSUME UNCHANGED <<req, owned>> PROVE HoldersRun'
    BY <2>1, HoldersKept
  <2> QED
    BY <1>6, <1>7, <1>8, <1>9, <1>10, <2>1
    DEF ScheduleCall, BeginSchedule, SkipRunning, SkipWaiting, EndRunning, EndWaiting
<1>11. ASSUME NEW r \in Requests, NEW accepted, NEW appended, NEW eos,
              UpdateRequest(r, accepted, appended, eos)
       PROVE  HoldersRun'
  <2>1. CASE FinishRequest(r)
    BY <1>2, <2>1
  <2>2. CASE ~FinishRequest(r)
    <3>1. /\ owned' = owned
          /\ \/ req' = req
             \/ req' = [req EXCEPT ![r] = Counted(r)]
             \/ \E rejected : req' = [req EXCEPT ![r] = Corrected(r, rejected, appended)]
      BY <1>11, <2>2 DEF UpdateRequest
    <3>2. \A x \in Requests : req'[x].status = req[x].status
      <4>1. CASE req' = req
        BY <4>1
      <4>2. CASE req' = [req EXCEPT ![r] = Counted(r)]
        BY <4>2, StatusKept DEF TypeOK
      <4>3. ASSUME NEW rejected, req' = [req EXCEPT ![r] = Corrected(r, rejected, appended)]
            PROVE  \A x \in Requests : req'[x].status = req[x].status
        BY <4>3, StatusKept DEF TypeOK
      <4> QED
        BY <3>1, <4>1, <4>2, <4>3
    <3> QED
      BY <3>1, <3>2, HoldersKept
  <2> QED
    BY <2>1, <2>2
<1>12. CASE UpdateCall
  <2>1. ASSUME UNCHANGED <<req, owned>> PROVE HoldersRun'
    BY <2>1, HoldersKept
  <2> QED
    BY <1>11, <1>12, <2>1
    DEF UpdateCall, BeginUpdate, DrainDeferredFree, EndDrain, EndUpdate
<1>13. CASE UNCHANGED vars
  BY <1>13, HoldersKept DEF vars
<1> QED
  BY <1>4, <1>5, <1>10, <1>12, <1>13 DEF Next

\* Where no free is deferred a reset finds no block referenced.
LEMMA ResetStep ==
  ASSUME ~DeferBlockFree, TypeOK, QueueInv, HoldersRun, deferred_frees = <<>>,
         reset_successful, [Next]_vars
  PROVE  reset_successful'
<1> USE DEF queueVars, blockVars, seqVars, idVars, stepVars, ctrlVars, localVars
<1>1. CASE EndReset
  <2>1. \A r \in Requests : owned[r] = {}
    <3>1. \A r \in Requests : ~Contains(running, r)
      BY <1>1, EmptyOnce DEF EndReset
    <3> QED
      BY <3>1 DEF QueueInv, HoldersRun
  <2>2. UNION {owned[r] : r \in Requests} = {}
    BY <2>1
  <2>3. UNION {deferred_frees[i].blocks : i \in 1..Len(deferred_frees)} = {}
    BY EmptySeq
  <2>4. Free = Blocks
    BY <2>2, <2>3 DEF Free
  <2> QED
    BY <1>1, <2>4 DEF EndReset
<1>2. ASSUME UNCHANGED reset_successful PROVE reset_successful'
  BY <1>2
<1>3. CASE Client
  BY <1>2, <1>3 DEF Client, AddRequest, Abort, SetPauseState, BeginReset
<1>4. CASE ResetPreempt
  BY <1>2, <1>4 DEF ResetPreempt
<1>5. CASE ScheduleCall
  BY <1>2, <1>5 DEF ScheduleCall, BeginSchedule, SkipRunning, ScheduleRunning,
     PreemptVictim, EndRunning, SkipWaiting, AdmitWaiting, EndWaiting, EndSchedule
<1>6. CASE UpdateCall
  <2>1. ASSUME NEW r \in Requests, NEW accepted, NEW appended, NEW eos,
               UpdateRequest(r, accepted, appended, eos)
        PROVE  UNCHANGED reset_successful
    BY <2>1 DEF UpdateRequest
  <2> QED
    BY <1>2, <1>6, <2>1 DEF UpdateCall, BeginUpdate, DrainDeferredFree, EndDrain, EndUpdate
<1>7. CASE UNCHANGED vars
  BY <1>2, <1>7 DEF vars
<1> QED
  BY <1>1, <1>3, <1>4, <1>5, <1>6, <1>7 DEF Next, ResetCall

\* A reset that preempts every running request succeeds, however many steps are in
\* flight, unless frees are deferred: only then can a block outlive its request.
THEOREM ResetsSucceed ==
  ASSUME ~DeferBlockFree
  PROVE  Spec => []ResetSucceeds
<1> DEFINE ResetInv == HoldersRun /\ deferred_frees = <<>> /\ reset_successful
<1>1. Init => ResetInv
  BY DEF Init, HoldersRun
<1>2. TypeOK /\ QueueInv /\ ResetInv /\ [Next]_vars => ResetInv'
  BY HoldersStep, NothingDeferred, ResetStep
<1>3. ResetInv => ResetSucceeds
  BY DEF ResetSucceeds
<1> HIDE DEF ResetInv
<1> QED
  BY <1>1, <1>2, <1>3, QueuesHold, PTL DEF Spec
=============================================================================
