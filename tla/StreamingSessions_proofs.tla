---------------------- MODULE StreamingSessions_proofs ----------------------
(***************************************************************************)
(* That no session is lost, queued twice or miscounted, and that every     *)
(* session that waits keeps its slot on the worker, for every number of    *)
(* requests, chunks, drafts and slots and whatever the client does between *)
(* and during steps.                                                       *)
(*                                                                         *)
(* SessionsQueued follows from QueueInv, where each request is and what    *)
(* the counter counts.  SlotsAccounted needs SlotInv besides: whom the     *)
(* step on the worker may still name, which ids wait to be told, and that  *)
(* a request that left the running queue has computed something.           *)
(*                                                                         *)
(* HashesFingerprint, that a computed block is cached under the hash of    *)
(* what it holds, comes last.  First the pure part: what the walk over the *)
(* media finds in a block, and that the hasher appends the Fingerprint of  *)
(* the content when what it has is right and it begins at the right item.  *)
(* Then HashInv, what the blocks of each request hold and which hashes it  *)
(* has, action by action.                                                  *)
(***************************************************************************)
EXTENDS StreamingSessions, SequenceTheorems, FiniteSetTheorems, NaturalsInduction,
        WellFoundedInduction, TLAPS

-----------------------------------------------------------------------------
(* Queues of requests *)

\* No element of the queue occurs in it twice.
Once(q) == \A i, j \in 1..Len(q) : q[i] = q[j] => i = j

\* Appending adds an element, once if it was not there.
LEMMA AppendOnce ==
  ASSUME NEW q \in Seq(Requests), NEW r \in Requests
  PROVE  /\ \A x : Contains(Append(q, r), x) <=> Contains(q, x) \/ x = r
         /\ Once(q) /\ ~Contains(q, r) => Once(Append(q, r))
<1> DEFINE a == Append(q, r)
<1>1. /\ Len(q) \in Nat /\ Len(a) = Len(q) + 1
      /\ \A i \in 1..Len(q) : a[i] = q[i]
      /\ a[Len(q) + 1] = r
  BY AppendProperties, LenProperties
<1> HIDE DEF a
<1>2. \A i \in 1..Len(a) : i \in 1..Len(q) \/ i = Len(q) + 1
  BY <1>1
<1>3. \A x : Contains(a, x) <=> Contains(q, x) \/ x = r
  BY <1>1, <1>2 DEF Contains
<1>4. Once(q) /\ ~Contains(q, r) => Once(a)
  BY <1>1, <1>2 DEF Contains, Once
<1> QED
  BY <1>3, <1>4 DEF a

\* A concatenation holds what its parts hold, once if the parts are disjoint.
LEMMA ConcatOnce ==
  ASSUME NEW p \in Seq(Requests), NEW q \in Seq(Requests)
  PROVE  /\ \A x : Contains(p \o q, x) <=> Contains(p, x) \/ Contains(q, x)
         /\ Once(p) /\ Once(q) /\ (\A x \in Requests : ~(Contains(p, x) /\ Contains(q, x)))
              => Once(p \o q)
<1> DEFINE a == p \o q
<1>1. /\ Len(p) \in Nat /\ Len(q) \in Nat /\ Len(a) = Len(p) + Len(q)
      /\ \A i \in 1..Len(a) : a[i] = IF i <= Len(p) THEN p[i] ELSE q[i - Len(p)]
  BY ConcatProperties, LenProperties
<1>5. \A i \in 1..Len(p) : p[i] \in Requests
  BY ElementOfSeq
<1> HIDE DEF a
<1>2. /\ \A i \in 1..Len(p) : i \in 1..Len(a) /\ a[i] = p[i]
      /\ \A i \in 1..Len(q) : i + Len(p) \in 1..Len(a) /\ a[i + Len(p)] = q[i]
  BY <1>1
<1>3. \A x : Contains(a, x) <=> Contains(p, x) \/ Contains(q, x)
  <2> TAKE x
  <2>1. Contains(a, x) => Contains(p, x) \/ Contains(q, x)
    <3> SUFFICES ASSUME NEW i \in 1..Len(a), a[i] = x PROVE Contains(p, x) \/ Contains(q, x)
      BY DEF Contains
    <3>1. CASE i <= Len(p)
      BY <1>1, <3>1 DEF Contains
    <3>2. CASE ~ (i <= Len(p))
      <4>1. i - Len(p) \in 1..Len(q) /\ q[i - Len(p)] = x
        BY <1>1, <3>2
      <4> QED
        BY <4>1 DEF Contains
    <3> QED
      BY <3>1, <3>2
  <2>2. Contains(p, x) => Contains(a, x)
    BY <1>2 DEF Contains
  <2>3. Contains(q, x) => Contains(a, x)
    <3> SUFFICES ASSUME NEW i \in 1..Len(q), q[i] = x PROVE Contains(a, x)
      BY DEF Contains
    <3> QED
      BY <1>2 DEF Contains
  <2> QED
    BY <2>1, <2>2, <2>3
<1>4. ASSUME Once(p), Once(q), \A x \in Requests : ~(Contains(p, x) /\ Contains(q, x))
      PROVE  Once(a)
  <2> SUFFICES ASSUME NEW i \in 1..Len(a), NEW j \in 1..Len(a), a[i] = a[j] PROVE i = j
    BY DEF Once
  <2>1. CASE i <= Len(p) /\ j <= Len(p)
    BY <1>1, <1>4, <2>1 DEF Once
  <2>2. CASE i > Len(p) /\ j > Len(p)
    <3>1. i - Len(p) \in 1..Len(q) /\ j - Len(p) \in 1..Len(q) /\ q[i - Len(p)] = q[j - Len(p)]
      BY <1>1, <2>2
    <3>2. i - Len(p) = j - Len(p)
      BY <1>4, <3>1 DEF Once
    <3> QED
      BY <1>1, <3>2
  <2>3. ASSUME NEW m \in 1..Len(a), NEW n \in 1..Len(a), a[m] = a[n], m <= Len(p), n > Len(p)
        PROVE FALSE
    <3>1. m \in 1..Len(p) /\ p[m] = a[m] /\ n - Len(p) \in 1..Len(q) /\ q[n - Len(p)] = a[m]
      BY <1>1, <2>3
    <3>2. Contains(p, a[m]) /\ Contains(q, a[m]) /\ a[m] \in Requests
      BY <1>5, <3>1 DEF Contains
    <3> QED
      BY <1>4, <3>2
  <2> QED
    BY <1>1, <2>1, <2>2, <2>3
<1> QED
  BY <1>3, <1>4 DEF a

\* A part of a queue holds the elements at its indices.
LEMMA SubSeqOnce ==
  ASSUME NEW q \in Seq(Requests), NEW m \in Nat, NEW n \in Nat, m >= 1, n <= Len(q)
  PROVE  /\ SubSeq(q, m, n) \in Seq(Requests)
         /\ \A x : Contains(SubSeq(q, m, n), x) <=> \E i \in m..n : q[i] = x
         /\ Once(q) => Once(SubSeq(q, m, n))
<1> DEFINE a == SubSeq(q, m, n)
<1>0. Len(q) \in Nat /\ \A i \in m..n : q[i] \in Requests
  BY ElementOfSeq, LenProperties
<1>1. /\ a \in Seq(Requests) /\ Len(a) = IF m <= n THEN n - m + 1 ELSE 0
      /\ \A i \in 1..(n - m + 1) : a[i] = q[m + i - 1]
  BY <1>0, SubSeqProperties
<1> HIDE DEF a
<1>2. \A i \in 1..Len(a) : m + i - 1 \in m..n /\ m + i - 1 \in 1..Len(q) /\ a[i] = q[m + i - 1]
  <2> TAKE i \in 1..Len(a)
  <2>1. m <= n /\ Len(a) = n - m + 1
    BY <1>1
  <2>2. i \in 1..(n - m + 1)
    BY <2>1
  <2>3. a[i] = q[m + i - 1]
    BY <1>1, <2>2
  <2>4. PICK L \in Nat : L = Len(q) /\ n <= L
    BY <1>0
  <2>5. m + i - 1 \in m..n /\ m + i - 1 \in 1..L
    BY <2>2, <2>4
  <2> QED
    BY <2>3, <2>4, <2>5
<1>3. \A x : Contains(a, x) <=> \E i \in m..n : q[i] = x
  <2> TAKE x
  <2>1. ASSUME NEW i \in m..n, q[i] = x PROVE Contains(a, x)
    <3>1. i - m + 1 \in 1..Len(a) /\ a[i - m + 1] = q[i]
      BY <1>1, <2>1
    <3> QED
      BY <2>1, <3>1 DEF Contains
  <2> QED
    BY <1>2, <2>1 DEF Contains
<1>4. Once(q) => Once(a)
  <2> SUFFICES ASSUME Once(q), NEW i \in 1..Len(a), NEW j \in 1..Len(a), a[i] = a[j]
               PROVE  i = j
    BY DEF Once
  <2>1. m + i - 1 = m + j - 1
    BY <1>2 DEF Once
  <2> QED
    BY <2>1
<1> QED
  BY <1>1, <1>3, <1>4 DEF a

\* Cutting a queue in two parts its elements.
LEMMA CutOnce ==
  ASSUME NEW q \in Seq(Requests), NEW k \in Nat, k <= Len(q)
  PROVE  /\ SubSeq(q, 1, k) \in Seq(Requests) /\ Len(SubSeq(q, 1, k)) = k
         /\ SubSeq(q, k + 1, Len(q)) \in Seq(Requests)
         /\ k = Len(q) => SubSeq(q, k + 1, Len(q)) = <<>>
         /\ \A x : Contains(q, x) <=>
              Contains(SubSeq(q, 1, k), x) \/ Contains(SubSeq(q, k + 1, Len(q)), x)
         /\ Once(q) =>
              /\ Once(SubSeq(q, 1, k)) /\ Once(SubSeq(q, k + 1, Len(q)))
              /\ \A x : ~(Contains(SubSeq(q, 1, k), x) /\ Contains(SubSeq(q, k + 1, Len(q)), x))
<1>1. PICK L \in Nat : L = Len(q)
  BY LenProperties
<1> DEFINE p == SubSeq(q, 1, k)
           s == SubSeq(q, k + 1, L)
<1>2. /\ p \in Seq(Requests) /\ Once(q) => Once(p)
      /\ \A x : Contains(p, x) <=> \E i \in 1..k : q[i] = x
  BY <1>1, SubSeqOnce
<1>3. /\ s \in Seq(Requests) /\ Once(q) => Once(s)
      /\ \A x : Contains(s, x) <=> \E i \in (k + 1)..L : q[i] = x
  BY <1>1, SubSeqOnce
<1>4. Len(p) = k /\ Len(s) = L - k
  BY <1>1, SubSeqProperties, ElementOfSeq
<1>5. k = L => s = <<>>
  BY <1>3, <1>4, EmptySeq
<1> HIDE DEF p, s
<1>6. \A x : Contains(q, x) <=> Contains(p, x) \/ Contains(s, x)
  <2>1. \A i \in 1..L : i \in 1..k \/ i \in (k + 1)..L
    OBVIOUS
  <2>2. \A i \in 1..k : i \in 1..L
    BY <1>1
  <2>3. \A i \in (k + 1)..L : i \in 1..L
    OBVIOUS
  <2> QED
    BY <1>1, <1>2, <1>3, <2>1, <2>2, <2>3 DEF Contains
<1>7. ASSUME Once(q), NEW x, Contains(p, x), Contains(s, x) PROVE FALSE
  <2>1. PICK i \in 1..k : q[i] = x
    BY <1>2, <1>7
  <2>2. PICK j \in (k + 1)..L : q[j] = x
    BY <1>3, <1>7
  <2>3. i \in 1..L /\ j \in 1..L /\ i # j
    BY <1>1
  <2> QED
    BY <1>1, <1>7, <2>1, <2>2, <2>3 DEF Once
<1> QED
  BY <1>1, <1>2, <1>3, <1>4, <1>5, <1>6, <1>7 DEF p, s

\* Removing a request from its queue leaves the other requests in it.
LEMMA WithoutOnce ==
  ASSUME NEW q \in Seq(Requests), NEW r, Once(q)
  PROVE  /\ Without(q, r) \in Seq(Requests)
         /\ \A x : Contains(Without(q, r), x) <=> Contains(q, x) /\ x # r
         /\ Once(Without(q, r))
         /\ Len(Without(q, r)) = IF Contains(q, r) THEN Len(q) - 1 ELSE Len(q)
<1>1. CASE ~Contains(q, r)
  BY <1>1 DEF Without
<1>2. CASE Contains(q, r)
  <2>1. PICK L \in Nat : L = Len(q)
    BY LenProperties
  <2>2. PICK k : k = CHOOSE i \in DOMAIN q : q[i] = r
    OBVIOUS
  <2>3. k \in 1..L /\ q[k] = r
    BY <1>2, <2>1, <2>2, LenProperties DEF Contains
  <2> DEFINE p == SubSeq(q, 1, k - 1)
             s == SubSeq(q, k + 1, L)
  <2>4. /\ p \in Seq(Requests) /\ Once(p)
        /\ \A x : Contains(p, x) <=> \E i \in 1..(k - 1) : q[i] = x
    BY <2>1, <2>3, SubSeqOnce
  <2>5. /\ s \in Seq(Requests) /\ Once(s)
        /\ \A x : Contains(s, x) <=> \E i \in (k + 1)..L : q[i] = x
    BY <2>1, <2>3, SubSeqOnce
  <2>6. Len(p) = k - 1 /\ Len(s) = L - k
    <3>1. \A i \in 1..L : q[i] \in Requests
      BY <2>1, ElementOfSeq
    <3> QED
      BY <2>1, <2>3, <3>1, SubSeqProperties
  <2> HIDE DEF p, s
  <2>7. \A x : ~(Contains(p, x) /\ Contains(s, x))
    BY <2>1, <2>3, <2>4, <2>5 DEF Once
  <2>8. \A x : Contains(p, x) \/ Contains(s, x) <=> Contains(q, x) /\ x # r
    <3> TAKE x
    <3>1. \A i \in 1..L : i \in 1..(k - 1) \/ i = k \/ i \in (k + 1)..L
      BY <2>3
    <3>2. Contains(q, x) /\ x # r => Contains(p, x) \/ Contains(s, x)
      BY <2>1, <2>3, <2>4, <2>5, <3>1 DEF Contains
    <3>3. ASSUME NEW i \in 1..L, i # k, q[i] = x PROVE Contains(q, x) /\ x # r
      BY <2>1, <2>3, <3>3 DEF Contains, Once
    <3>4. \A i \in 1..(k - 1) : i \in 1..L /\ i # k
      BY <2>3
    <3>5. \A i \in (k + 1)..L : i \in 1..L /\ i # k
      BY <2>3
    <3> QED
      BY <2>4, <2>5, <3>2, <3>3, <3>4, <3>5
  <2>9. Without(q, r) = p \o s
    BY <1>2, <2>1, <2>2 DEF Without, RemoveAt, p, s
  <2>10. p \o s \in Seq(Requests) /\ Len(p \o s) = Len(p) + Len(s)
    BY <2>4, <2>5, ConcatProperties
  <2> QED
    BY <1>2, <2>1, <2>3, <2>4, <2>5, <2>6, <2>7, <2>8, <2>9, <2>10, ConcatOnce
<1> QED
  BY <1>1, <1>2

\* A queue without repetitions holds an element once or not at all.
LEMMA OccurrencesOnce ==
  ASSUME NEW q \in Seq(Requests), NEW r, Once(q)
  PROVE  Cardinality({i \in DOMAIN q : q[i] = r}) = IF Contains(q, r) THEN 1 ELSE 0
<1> DEFINE S == {i \in 1..Len(q) : q[i] = r}
<1>0. DOMAIN q = 1..Len(q)
  BY LenProperties
<1>1. CASE Contains(q, r)
  <2>1. PICK k \in 1..Len(q) : q[k] = r
    BY <1>1 DEF Contains
  <2>2. S = {k}
    BY <2>1 DEF Once
  <2> QED
    BY <1>0, <1>1, <2>2, FS_Singleton
<1>2. CASE ~Contains(q, r)
  <2>1. S = {}
    BY <1>2 DEF Contains
  <2> QED
    BY <1>0, <1>2, <2>1, FS_EmptySet
<1> QED
  BY <1>1, <1>2

\* The elements of a queue are as many as it is long.
LEMMA SizeOfQueue ==
  ASSUME NEW q \in Seq(Requests), Once(q), NEW S, \A x : x \in S <=> Contains(q, x)
  PROVE  IsFiniteSet(S) /\ Cardinality(S) = Len(q)
<1>1. PICK n \in Nat : n = Len(q)
  BY LenProperties
<1>2. PICK f : f = [i \in 1..n |-> q[i]]
  OBVIOUS
<1>3. f \in Bijection(1..n, S)
  BY <1>1, <1>2 DEF Bijection, Injection, IsInjective, Surjection, Contains, Once
<1>4. IsFiniteSet(1..n) /\ Cardinality(1..n) = n
  BY FS_Interval
<1> QED
  BY <1>1, <1>3, <1>4, FS_Bijection DEF ExistsBijection

-----------------------------------------------------------------------------
(* The invariants *)

Statuses == {"NEW", "WAITING", "RUNNING", "PREEMPTED", "FINISHED", Blocked}
Fields == {"status", "all_token_ids", "mm_features", "num_computed_tokens",
           "block_hashes", "num_output", "streaming_queue", "tags"}
Texts == Prompts \cup Chunks
Tokens == Samples \cup UNION {ToSet(chunk.tokens) : chunk \in Texts}
Inputs == Chunks \cup {END}

\* A Request object: the fields that decide where a request is.
IsRequest(u) ==
  /\ Fields \subseteq DOMAIN u
  /\ u.status \in Statuses
  /\ u.all_token_ids \in Seq(Tokens)
  /\ u.num_computed_tokens \in Nat
  /\ u.streaming_queue \in Seq(Inputs)

\* Types.
TypesOK ==
  /\ DOMAIN req = Requests /\ \A r \in Requests : IsRequest(req[r])
  /\ running \in Seq(Requests) /\ waiting \in Seq(Requests)
  /\ skipped_waiting \in Seq(Requests) /\ step_skipped_waiting \in Seq(Requests)
  /\ batch \in Seq(Requests)
  /\ num_waiting_for_streaming_input \in Int

BlockedSet == OfStatus({Blocked})

\* A request is in the one queue that its status names; a session that waits for input
\* has none queued.
PlaceOf(r) ==
  /\ Contains(running, r) <=> req[r].status = "RUNNING"
  /\ (Contains(waiting, r) \/ Contains(skipped_waiting, r) \/ Contains(step_skipped_waiting, r))
       <=> req[r].status \in {"WAITING", "PREEMPTED", Blocked}
  /\ ~(Contains(waiting, r) /\ Contains(skipped_waiting, r))
  /\ ~(Contains(waiting, r) /\ Contains(step_skipped_waiting, r))
  /\ ~(Contains(skipped_waiting, r) /\ Contains(step_skipped_waiting, r))
  /\ req[r].status = Blocked => ~Contains(waiting, r) /\ req[r].streaming_queue = <<>>

\* The queues hold each request once, and the counter counts the sessions that wait.
QueueInv ==
  /\ Once(running) /\ Once(waiting) /\ Once(skipped_waiting) /\ Once(step_skipped_waiting)
  /\ \A r \in Requests : PlaceOf(r)
  /\ pc # "admit" => step_skipped_waiting = <<>>
  /\ IsFiniteSet(BlockedSet)
  /\ num_waiting_for_streaming_input = Cardinality(BlockedSet)

\* Whom the worker holds a slot for.
SlotOf(r) ==
  /\ req[r].status = "RUNNING" /\ pc # "admit" =>
       r \in slots /\ req[r].num_computed_tokens > 0
  /\ req[r].status = Blocked => r \in slots /\ req[r].num_computed_tokens > 0
  /\ r \in slots =>
       \/ req[r].status \in {"RUNNING", Blocked}
       \/ r \in finished_req_ids \cup preempted_req_ids
       \/ req[r].status = "WAITING" /\ req[r].num_computed_tokens > 0

\* The ids still to be told to the worker, and the requests of the step it is on.
NamedOf(r) ==
  /\ req[r].status \notin {"NEW", "FINISHED"} => req[r].all_token_ids # <<>>
  /\ r \in finished_req_ids => req[r].status = "FINISHED"
  /\ r \in preempted_req_ids => req[r].status = "PREEMPTED" /\ pc = "preempted"
  /\ Contains(batch, r) =>
       req[r].status \in {"RUNNING", "FINISHED"} /\ pc \in {"flight", "update"}

SlotInv ==
  /\ \A r \in Requests : SlotOf(r) /\ NamedOf(r)
  /\ slots \subseteq Requests
  /\ Once(batch)
  /\ Len(running) + num_waiting_for_streaming_input <= MaxActive

\* The inductive invariant.
SessionInv == TypesOK /\ QueueInv /\ SlotInv

-----------------------------------------------------------------------------
(* The requests that the actions make *)

\* What a client sends is text.
LEMMA TextTypes ==
  ASSUME NEW chunk \in Texts
  PROVE  chunk.tokens \in Seq(Tokens) /\ chunk.tokens # <<>>
<1>1. chunk.tokens \in Seq(ToSet(chunk.tokens)) /\ chunk.tokens # <<>>
  BY ConstantsOK DEF Texts
<1>2. ToSet(chunk.tokens) \subseteq Tokens
  BY DEF Tokens
<1> HIDE DEF Texts, Tokens
<1>3. \A i \in 1..Len(chunk.tokens) : chunk.tokens[i] \in Tokens
  BY <1>1, <1>2, ElementOfSeq
<1>4. chunk.tokens \in Seq(Tokens)
  BY <1>1, <1>3, SeqDef, LenProperties
<1> QED
  BY <1>1, <1>4

\* Hashing a request's blocks changes nothing that the queues depend on.
LEMMA HashedFields ==
  ASSUME NEW u, IsRequest(u)
  PROVE  /\ IsRequest(WithHashes(u))
         /\ WithHashes(u).status = u.status
         /\ WithHashes(u).all_token_ids = u.all_token_ids
         /\ WithHashes(u).num_computed_tokens = u.num_computed_tokens
         /\ WithHashes(u).streaming_queue = u.streaming_queue
BY DEF IsRequest, WithHashes, Fields

\* A request before it is added, and after its end.
LEMMA BlankFields ==
  ASSUME NEW st \in Statuses
  PROVE  /\ IsRequest(Blank(st)) /\ Blank(st).status = st
         /\ Blank(st).num_computed_tokens = 0 /\ Blank(st).streaming_queue = <<>>
BY EmptySeq DEF Blank, IsRequest, Fields

\* A request as it is added.
LEMMA AddedFields ==
  ASSUME NEW chunk \in Prompts, NEW t, NEW v,
         v = WithHashes([Blank("WAITING") EXCEPT !.all_token_ids = chunk.tokens,
                           !.mm_features = chunk.media, !.tags = t])
  PROVE  /\ IsRequest(v) /\ v.status = "WAITING" /\ v.all_token_ids # <<>>
<1>1. chunk.tokens \in Seq(Tokens) /\ chunk.tokens # <<>>
  BY TextTypes DEF Texts
<1>2. PICK u : u = [Blank("WAITING") EXCEPT !.all_token_ids = chunk.tokens,
                      !.mm_features = chunk.media, !.tags = t]
  OBVIOUS
<1>3. IsRequest(u) /\ u.status = "WAITING" /\ u.all_token_ids = chunk.tokens
  BY <1>1, <1>2, EmptySeq DEF Blank, IsRequest, Fields, Statuses
<1> QED
  BY <1>1, <1>2, <1>3, HashedFields

\* A session goes on from what it has computed.
LEMMA ResumedFields ==
  ASSUME NEW u, IsRequest(u), NEW chunk \in Chunks
  PROVE  /\ IsRequest(Resumed(u, chunk)) /\ Resumed(u, chunk).status = "WAITING"
         /\ Resumed(u, chunk).all_token_ids # <<>>
         /\ Resumed(u, chunk).num_computed_tokens = u.num_computed_tokens
         /\ Resumed(u, chunk).streaming_queue = u.streaming_queue
<1>1. chunk.tokens \in Seq(Tokens) /\ chunk.tokens # <<>>
  BY TextTypes DEF Texts
<1>2. u.all_token_ids \in Seq(Tokens) /\ u.num_computed_tokens \in Nat
  BY DEF IsRequest
<1>3. PICK c : c = IF u.num_computed_tokens < Len(u.all_token_ids)
                   THEN u.num_computed_tokens ELSE Len(u.all_token_ids)
  OBVIOUS
<1>4. c \in Nat /\ c <= Len(u.all_token_ids)
  BY <1>2, <1>3, LenProperties
<1>5. PICK kept : kept = SubSeq(u.all_token_ids, 1, c)
  OBVIOUS
<1>6. kept \in Seq(Tokens)
  <2>1. \A i \in 1..c : u.all_token_ids[i] \in Tokens
    BY <1>2, <1>4, ElementOfSeq, LenProperties
  <2> QED
    BY <1>2, <1>4, <1>5, <2>1, SubSeqProperties
<1>7. PICK text : text = kept \o chunk.tokens
  OBVIOUS
<1>8. text \in Seq(Tokens) /\ text # <<>>
  <2>1. /\ text \in Seq(Tokens) /\ Len(text) = Len(kept) + Len(chunk.tokens)
        /\ Len(kept) \in Nat /\ Len(chunk.tokens) \in Nat
    BY <1>1, <1>6, <1>7, ConcatProperties, LenProperties
  <2>2. Len(chunk.tokens) # 0
    BY <1>1, EmptySeq
  <2>3. Len(text) # 0
    BY <2>1, <2>2
  <2> QED
    BY <2>1, <2>3, EmptySeq
<1>9. PICK media : media = u.mm_features \o Shifted(chunk.media, c)
  OBVIOUS
<1>10. PICK v : v = [u EXCEPT !.all_token_ids = text, !.mm_features = media,
                              !.num_output = 0, !.status = "WAITING"]
  OBVIOUS
<1>11. /\ IsRequest(v) /\ v.status = "WAITING" /\ v.all_token_ids = text
       /\ v.num_computed_tokens = u.num_computed_tokens
       /\ v.streaming_queue = u.streaming_queue
  BY <1>8, <1>10 DEF IsRequest, Fields, Statuses
<1>12. Resumed(u, chunk) = WithHashes(v)
  BY <1>3, <1>5, <1>7, <1>9, <1>10 DEF Resumed
<1> QED
  BY <1>8, <1>11, <1>12, HashedFields

\* What a step samples.
LEMMA OutputTypes ==
  ASSUME NEW out \in Outputs
  PROVE  /\ out \in Seq(Tokens) /\ Len(out) \in Nat /\ Len(out) >= 1
         /\ Len(out) \in DOMAIN out
         /\ \A k \in DOMAIN out : k \in 1..Len(out)
<1>1. PICK n \in 1..MaxSampled : out \in [1..n -> Samples]
  BY DEF Outputs
<1>2. n \in Nat /\ n >= 1 /\ DOMAIN out = 1..n
  BY <1>1, ConstantsOK
<1>3. \A i \in 1..n : out[i] \in Tokens
  BY <1>1 DEF Tokens
<1>4. out \in Seq(Tokens) /\ Len(out) = n
  BY <1>1, <1>2, <1>3, SeqDef, LenProperties
<1> QED
  BY <1>2, <1>4

\* A request after a step that sampled for it.
LEMMA SampledFields ==
  ASSUME TypesOK, NEW r \in Requests, NEW out \in Outputs, NEW k \in DOMAIN out
  PROVE  /\ IsRequest(Sampled(r, out, k)) /\ Sampled(r, out, k).status = req[r].status
         /\ req[r].all_token_ids # <<>> => Sampled(r, out, k).all_token_ids # <<>>
         /\ req[r].num_computed_tokens > 0 => Sampled(r, out, k).num_computed_tokens > 0
         /\ Sampled(r, out, k).streaming_queue = req[r].streaming_queue
<1>1. PICK u : u = req[r]
  OBVIOUS
<1>2. IsRequest(u)
  BY <1>1 DEF TypesOK
<1>3. u.all_token_ids \in Seq(Tokens) /\ u.num_computed_tokens \in Nat
  BY <1>2 DEF IsRequest
<1>4. PICK n \in Nat : n = Len(out) /\ n >= 1 /\ k \in 1..n /\ out \in Seq(Tokens)
  BY OutputTypes
<1>5. PICK new : new = SubSeq(out, 1, k)
  OBVIOUS
<1>6. new \in Seq(Tokens)
  <2>1. \A i \in 1..k : out[i] \in Tokens
    BY <1>4, ElementOfSeq
  <2> QED
    BY <1>4, <1>5, <2>1, SubSeqProperties
<1>7. PICK text : text = u.all_token_ids \o new
  OBVIOUS
<1>8. text \in Seq(Tokens) /\ (u.all_token_ids # <<>> => text # <<>>)
  <2>1. /\ text \in Seq(Tokens) /\ Len(text) = Len(u.all_token_ids) + Len(new)
        /\ Len(new) \in Nat /\ Len(u.all_token_ids) \in Nat
    BY <1>3, <1>6, <1>7, ConcatProperties, LenProperties
  <2>2. u.all_token_ids # <<>> => Len(u.all_token_ids) # 0
    BY <1>3, EmptySeq
  <2>3. u.all_token_ids # <<>> => Len(text) # 0
    BY <2>1, <2>2
  <2> QED
    BY <2>1, <2>3, EmptySeq
<1>9. PICK c \in Nat : c = u.num_computed_tokens + n - 1 /\ c >= u.num_computed_tokens
  BY <1>3, <1>4
<1>10. PICK o : o = u.num_output + k
  OBVIOUS
<1>11. PICK v : v = [u EXCEPT !.all_token_ids = text, !.num_computed_tokens = c,
                              !.num_output = o]
  OBVIOUS
<1>12. /\ IsRequest(v) /\ v.status = u.status /\ v.all_token_ids = text
       /\ v.num_computed_tokens = c /\ v.streaming_queue = u.streaming_queue
  BY <1>2, <1>8, <1>9, <1>11 DEF IsRequest, Fields
<1>13. Sampled(r, out, k) = WithHashes(v)
  <2>1. v = [u EXCEPT !.all_token_ids = u.all_token_ids \o new,
                      !.num_computed_tokens = u.num_computed_tokens + Len(out) - 1,
                      !.num_output = u.num_output + k]
    BY <1>4, <1>7, <1>9, <1>10, <1>11
  <2> QED
    BY <1>1, <1>5, <2>1 DEF Sampled
<1>14. u.num_computed_tokens > 0 => c > 0
  BY <1>3, <1>9
<1> QED
  BY <1>1, <1>8, <1>12, <1>13, <1>14, HashedFields

-----------------------------------------------------------------------------
(* What an action has to show *)

\* The other requests stay as they are.
Others(r) == \A q \in Requests : q # r => req'[q] = req[q]

\* The queues and the counter are of their types.
QueueTypes ==
  /\ running \in Seq(Requests) /\ waiting \in Seq(Requests)
  /\ skipped_waiting \in Seq(Requests) /\ step_skipped_waiting \in Seq(Requests)
  /\ batch \in Seq(Requests)
  /\ num_waiting_for_streaming_input \in Int

\* One request is replaced.
LEMMA OneReplaced ==
  ASSUME TypesOK, NEW r \in Requests, NEW u, IsRequest(u), req' = [req EXCEPT ![r] = u]
  PROVE  req'[r] = u /\ Others(r) /\ (QueueTypes' => TypesOK')
<1>1. req'[r] = u /\ Others(r) /\ DOMAIN req' = Requests
  BY DEF TypesOK, Others
<1>2. \A q \in Requests : IsRequest(req'[q])
  BY <1>1 DEF Others, TypesOK
<1> QED
  BY <1>1, <1>2 DEF TypesOK, QueueTypes, IsRequest

\* A queue that differs from the one before in what it says of r alone.
MovesOnly(q, r) == \A x \in Requests : x # r => (Contains(q', x) <=> Contains(q, x))

\* The sessions that wait, counted.
Waits(r) == IF req[r].status = Blocked THEN 1 ELSE 0

\* One request moves.
LEMMA OneMoves ==
  ASSUME QueueInv, NEW r \in Requests, Others(r), PlaceOf(r)',
         Once(running'), Once(waiting'), Once(skipped_waiting'), Once(step_skipped_waiting'),
         MovesOnly(running, r), MovesOnly(waiting, r), MovesOnly(skipped_waiting, r),
         MovesOnly(step_skipped_waiting, r),
         pc' # "admit" => step_skipped_waiting' = <<>>,
         num_waiting_for_streaming_input'
           = num_waiting_for_streaming_input + Waits(r)' - Waits(r)
  PROVE  QueueInv'
<1>1. \A q \in Requests : PlaceOf(q)'
  <2> TAKE q \in Requests
  <2>1. q # r => PlaceOf(q) /\ req'[q] = req[q]
    BY DEF QueueInv, Others
  <2>2. q # r => PlaceOf(q)'
    BY <2>1 DEF PlaceOf, MovesOnly
  <2> QED
    BY <2>2
<1>2. PICK B : B = BlockedSet
  OBVIOUS
<1>3. /\ IsFiniteSet(B) /\ num_waiting_for_streaming_input = Cardinality(B)
      /\ Cardinality(B) \in Nat
  BY <1>2, FS_CardinalityType DEF QueueInv
<1>4. BlockedSet' = IF req'[r].status = Blocked THEN B \cup {r} ELSE B \ {r}
  <2>1. \A q \in Requests : q # r => (q \in BlockedSet' <=> q \in B)
    BY <1>2 DEF BlockedSet, OfStatus, Others
  <2>2. r \in BlockedSet' <=> req'[r].status = Blocked
    BY DEF BlockedSet, OfStatus
  <2>3. BlockedSet' \subseteq Requests /\ B \subseteq Requests
    BY <1>2 DEF BlockedSet, OfStatus
  <2> QED
    BY <2>1, <2>2, <2>3
<1>5. r \in B <=> req[r].status = Blocked
  BY <1>2 DEF BlockedSet, OfStatus
<1>6. /\ IsFiniteSet(B \cup {r}) /\ IsFiniteSet(B \ {r})
      /\ Cardinality(B \cup {r}) = IF r \in B THEN Cardinality(B) ELSE Cardinality(B) + 1
      /\ Cardinality(B \ {r}) = IF r \in B THEN Cardinality(B) - 1 ELSE Cardinality(B)
  BY <1>3, FS_AddElement, FS_RemoveElement
<1>7. /\ IsFiniteSet(BlockedSet')
      /\ num_waiting_for_streaming_input' = Cardinality(BlockedSet')
  BY <1>3, <1>4, <1>5, <1>6 DEF Waits
<1> QED
  BY <1>1, <1>7 DEF QueueInv

\* One request changes what the worker has to know of it.
LEMMA OneSlotMoves ==
  ASSUME SlotInv, NEW r \in Requests, Others(r), SlotOf(r)', NamedOf(r)', Once(batch'),
         slots' = slots, preempted_req_ids' = preempted_req_ids,
         finished_req_ids \subseteq finished_req_ids',
         finished_req_ids' \subseteq finished_req_ids \cup {r},
         pc' # "admit" => pc # "admit", pc' = pc \/ pc # "preempted",
         \A q : Contains(batch', q) => Contains(batch, q) /\ pc' \in {"flight", "update"},
         Len(running') + num_waiting_for_streaming_input' <= MaxActive
  PROVE  SlotInv'
<1>1. ASSUME NEW q \in Requests, q # r PROVE SlotOf(q)' /\ NamedOf(q)'
  <2>1. SlotOf(q) /\ NamedOf(q) /\ req'[q] = req[q]
    BY <1>1 DEF SlotInv, Others
  <2>2. q \in finished_req_ids' <=> q \in finished_req_ids
    BY <1>1
  <2>3. SlotOf(q)'
    BY <2>1, <2>2 DEF SlotOf
  <2>4. NamedOf(q)'
    BY <2>1, <2>2 DEF NamedOf
  <2> QED
    BY <2>3, <2>4
<1> QED
  BY <1>1 DEF SlotInv

\* No request is in an empty queue.
LEMMA EmptyOnce == Once(<<>>) /\ \A x : ~Contains(<<>>, x)
BY DEF Once, Contains

\* A set of the elements of a queue; a queue of one.
LEMMA InQueue ==
  ASSUME NEW q \in Seq(Requests), NEW r \in Requests
  PROVE  /\ \A x : x \in ToSet(q) <=> Contains(q, x)
         /\ <<r>> \in Seq(Requests) /\ Once(<<r>>)
         /\ \A x : Contains(<<r>>, x) <=> x = r
<1>1. DOMAIN q = 1..Len(q)
  BY LenProperties
<1>2. \A x : x \in ToSet(q) <=> Contains(q, x)
  BY <1>1 DEF ToSet, Contains
<1> QED
  BY <1>2 DEF Once, Contains

\* The queue without its head.
LEMMA TailOnce ==
  ASSUME NEW q \in Seq(Requests), q # <<>>, Once(q)
  PROVE  /\ Tail(q) \in Seq(Requests) /\ Once(Tail(q)) /\ Head(q) \in Requests
         /\ Contains(q, Head(q))
         /\ \A x : Contains(Tail(q), x) => Contains(q, x) /\ x # Head(q) /\ Len(q) # 1
<1>1. PICK n \in Nat : n = Len(q) /\ n # 0
  BY LenProperties, EmptySeq
<1>0. /\ Tail(q) \in Seq(Requests) /\ Len(Tail(q)) = Len(q) - 1
      /\ \A i \in 1..Len(Tail(q)) : Tail(q)[i] = q[i + 1]
  BY HeadTailProperties
<1>2. PICK t \in Seq(Requests) :
        t = Tail(q) /\ Len(t) = n - 1 /\ \A i \in 1..(n - 1) : t[i] = q[i + 1]
  BY <1>0, <1>1
<1>3. Head(q) = q[1] /\ 1 \in 1..n /\ q[1] \in Requests
  BY <1>1, HeadTailProperties, ElementOfSeq
<1>4. \A i \in 1..(n - 1) : i + 1 \in 1..n /\ i + 1 # 1
  BY <1>1
<1>5. Contains(q, q[1])
  BY <1>1, <1>3 DEF Contains
<1>6. ASSUME NEW x, Contains(t, x) PROVE Contains(q, x) /\ x # q[1] /\ n # 1
  <2>1. PICK i \in 1..(n - 1) : t[i] = x
    BY <1>2, <1>6 DEF Contains
  <2>2. q[i + 1] = x /\ i + 1 \in 1..n /\ i + 1 # 1
    BY <1>2, <1>4, <2>1
  <2> QED
    BY <1>1, <1>3, <2>1, <2>2 DEF Contains, Once
<1>7. Once(t)
  <2> SUFFICES ASSUME NEW i \in 1..(n - 1), NEW j \in 1..(n - 1), t[i] = t[j]
               PROVE  i = j
    BY <1>2 DEF Once
  <2>1. q[i + 1] = q[j + 1] /\ i + 1 \in 1..n /\ j + 1 \in 1..n
    BY <1>2, <1>4
  <2>2. i + 1 = j + 1
    BY <1>1, <2>1 DEF Once
  <2> QED
    BY <2>2
<1> QED
  BY <1>1, <1>2, <1>3, <1>5, <1>6, <1>7

\* update_from_output() goes on to the next request of the step.
LEMMA Updates ==
  ASSUME SessionInv, NEW r, Updating(r), NextUpdate
  PROVE  /\ r \in Requests /\ Contains(batch, r)
         /\ req[r].status \in {"RUNNING", "FINISHED"}
         /\ batch' \in Seq(Requests) /\ Once(batch')
         /\ \A q : Contains(batch', q) => Contains(batch, q) /\ pc' \in {"flight", "update"}
         /\ ~Contains(batch', r)
         /\ pc \notin {"admit", "preempted"} /\ pc' \notin {"admit", "preempted"}
         /\ step_skipped_waiting = <<>>
<1>1. batch \in Seq(Requests) /\ batch # <<>> /\ r = Head(batch) /\ Once(batch)
  BY DEF SessionInv, TypesOK, SlotInv, Updating
<1>2. pc \in {"flight", "update"} /\ pc' = (IF Len(batch) = 1 THEN "idle" ELSE "update")
      /\ batch' = Tail(batch)
  BY DEF Updating, NextUpdate
<1>3. /\ batch' \in Seq(Requests) /\ Once(batch') /\ r \in Requests /\ Contains(batch, r)
      /\ \A x : Contains(batch', x) => Contains(batch, x) /\ x # r /\ Len(batch) # 1
  BY <1>1, <1>2, TailOnce
<1>4. req[r].status \in {"RUNNING", "FINISHED"}
  BY <1>3 DEF SessionInv, SlotInv, NamedOf
<1>5. step_skipped_waiting = <<>>
  BY <1>2 DEF SessionInv, QueueInv
<1> QED
  BY <1>2, <1>3, <1>4, <1>5

\* The step on the worker is as it was.
LEMMA BatchStays ==
  ASSUME TypesOK, SlotInv, batch' = batch, pc' = pc
  PROVE  /\ Once(batch')
         /\ \A q : Contains(batch', q) => Contains(batch, q) /\ pc' \in {"flight", "update"}
<1>1. \A q : Contains(batch, q) => q \in Requests
  BY ElementOfSeq DEF Contains, TypesOK
<1> QED
  BY <1>1 DEF SlotInv, NamedOf

-----------------------------------------------------------------------------
(* Each action keeps the invariant: the client *)

\* A new request joins the waiting queue.
LEMMA AddKeeps ==
  ASSUME SessionInv, NEW r \in Requests, NEW chunk \in Prompts, NEW t \in Tags,
         AddRequest(r, chunk, t)
  PROVE  SessionInv'
<1>1. PICK v : v = WithHashes([Blank("WAITING") EXCEPT !.all_token_ids = chunk.tokens,
                                  !.mm_features = chunk.media, !.tags = t])
  OBVIOUS
<1>2. IsRequest(v) /\ v.status = "WAITING" /\ v.all_token_ids # <<>>
  BY <1>1, AddedFields
<1>3. /\ req[r].status = "NEW" /\ pc \in {"idle", "flight"}
      /\ req' = [req EXCEPT ![r] = v] /\ waiting' = Append(waiting, r)
      /\ UNCHANGED <<skipped_waiting, running, num_waiting_for_streaming_input, tellVars,
                     step_skipped_waiting, pc, workVars>>
  BY <1>1 DEF AddRequest, ClientTurn
<1>4. UNCHANGED <<skipped_waiting, running, num_waiting_for_streaming_input,
         finished_req_ids, preempted_req_ids, step_skipped_waiting, pc, batch, slots>>
  BY <1>3 DEF tellVars, workVars
<1>5. TypesOK /\ QueueInv /\ SlotInv /\ PlaceOf(r) /\ SlotOf(r) /\ NamedOf(r)
  BY DEF SessionInv, QueueInv, SlotInv
<1>6. /\ waiting' \in Seq(Requests) /\ Once(waiting')
      /\ \A x : Contains(waiting', x) <=> Contains(waiting, x) \/ x = r
  <2>1. ~Contains(waiting, r) /\ Once(waiting) /\ waiting \in Seq(Requests)
    BY <1>3, <1>5 DEF PlaceOf, TypesOK, QueueInv, Blocked
  <2> QED
    BY <1>3, <2>1, AppendOnce, AppendProperties
<1>7. QueueTypes'
  BY <1>4, <1>5, <1>6 DEF QueueTypes, TypesOK
<1>8. req'[r] = v /\ Others(r) /\ TypesOK'
  BY <1>2, <1>3, <1>5, <1>7, OneReplaced
<1>9. PlaceOf(r)'
  BY <1>2, <1>3, <1>4, <1>5, <1>6, <1>8 DEF PlaceOf, Blocked
<1>10. QueueInv'
  <2>1. num_waiting_for_streaming_input'
          = num_waiting_for_streaming_input + Waits(r)' - Waits(r)
    BY <1>2, <1>3, <1>4, <1>5, <1>8 DEF Waits, Blocked, TypesOK
  <2> QED
    BY <1>4, <1>5, <1>6, <1>8, <1>9, <2>1, OneMoves DEF MovesOnly, QueueInv
<1>11. SlotOf(r)' /\ NamedOf(r)'
  BY <1>2, <1>3, <1>4, <1>5, <1>8 DEF SlotOf, NamedOf, Blocked
<1>12. SlotInv'
  <2>1. /\ slots' = slots /\ preempted_req_ids' = preempted_req_ids /\ pc' = pc
        /\ finished_req_ids' = finished_req_ids /\ batch' = batch /\ pc # "admit"
        /\ running' = running
        /\ num_waiting_for_streaming_input' = num_waiting_for_streaming_input
    BY <1>3, <1>4
  <2>2. Len(running') + num_waiting_for_streaming_input' <= MaxActive
    BY <1>5, <2>1 DEF SlotInv
  <2> QED
    BY <1>5, <1>8, <1>11, <2>1, <2>2, BatchStays, OneSlotMoves
<1> QED
  BY <1>8, <1>10, <1>12 DEF SessionInv

\* Input for a session that has not stopped is queued.
LEMMA QueueInputKeeps ==
  ASSUME SessionInv, NEW r \in Requests, NEW input \in Inputs, QueueInput(r, input)
  PROVE  SessionInv'
<1>1. PICK u : u = req[r]
  OBVIOUS
<1>2. PICK q : q = Append(u.streaming_queue, input)
  OBVIOUS
<1>3. PICK v : v = [u EXCEPT !.streaming_queue = q]
  OBVIOUS
<1>4. /\ req[r].status # Blocked /\ pc # "admit" /\ req' = [req EXCEPT ![r] = v]
      /\ UNCHANGED <<running, waiting, skipped_waiting, num_waiting_for_streaming_input,
                     finished_req_ids, preempted_req_ids, step_skipped_waiting, pc, batch,
                     slots>>
  BY <1>1, <1>2, <1>3
  DEF QueueInput, MaySend, ClientTurn, queueVars, tellVars, workVars
<1>5. TypesOK /\ QueueInv /\ SlotInv /\ PlaceOf(r) /\ SlotOf(r) /\ NamedOf(r)
  BY DEF SessionInv, QueueInv, SlotInv
<1>6. IsRequest(u) /\ u.streaming_queue \in Seq(Inputs)
  BY <1>1, <1>5 DEF TypesOK, IsRequest
<1>7. q \in Seq(Inputs)
  BY <1>2, <1>6, AppendProperties
<1>8. /\ IsRequest(v) /\ v.status = u.status /\ v.all_token_ids = u.all_token_ids
      /\ v.num_computed_tokens = u.num_computed_tokens
  BY <1>3, <1>6, <1>7 DEF IsRequest, Fields
<1>9. QueueTypes'
  BY <1>4, <1>5 DEF QueueTypes, TypesOK
<1>10. req'[r] = v /\ Others(r) /\ TypesOK'
  BY <1>4, <1>5, <1>8, <1>9, OneReplaced
<1>11. PlaceOf(r)'
  BY <1>1, <1>4, <1>5, <1>8, <1>10 DEF PlaceOf
<1>12. QueueInv'
  <2>1. num_waiting_for_streaming_input'
          = num_waiting_for_streaming_input + Waits(r)' - Waits(r)
    BY <1>1, <1>4, <1>5, <1>8, <1>10 DEF Waits, TypesOK
  <2> QED
    BY <1>4, <1>5, <1>10, <1>11, <2>1, OneMoves DEF MovesOnly, QueueInv
<1>13. SlotOf(r)' /\ NamedOf(r)'
  BY <1>1, <1>4, <1>5, <1>8, <1>10 DEF SlotOf, NamedOf
<1>14. SlotInv'
  <2>1. Len(running') + num_waiting_for_streaming_input' <= MaxActive
    BY <1>4, <1>5 DEF SlotInv
  <2> QED
    BY <1>4, <1>5, <1>10, <1>13, <2>1, BatchStays, OneSlotMoves
<1> QED
  BY <1>10, <1>12, <1>14 DEF SessionInv

\* A session that waits goes on, where it is.
LEMMA ResumeInputKeeps ==
  ASSUME SessionInv, NEW r \in Requests, NEW chunk \in Chunks, ResumeInput(r, chunk)
  PROVE  SessionInv'
<1>1. PICK u : u = req[r]
  OBVIOUS
<1>2. PICK v : v = Resumed(u, chunk)
  OBVIOUS
<1>3. /\ req[r].status = Blocked /\ pc # "admit" /\ req' = [req EXCEPT ![r] = v]
      /\ num_waiting_for_streaming_input' = num_waiting_for_streaming_input - 1
      /\ UNCHANGED <<running, waiting, skipped_waiting, finished_req_ids,
                     preempted_req_ids, step_skipped_waiting, pc, batch, slots>>
  BY <1>1, <1>2 DEF ResumeInput, MaySend, ClientTurn, queueVars, tellVars, workVars
<1>4. TypesOK /\ QueueInv /\ SlotInv /\ PlaceOf(r) /\ SlotOf(r) /\ NamedOf(r)
  BY DEF SessionInv, QueueInv, SlotInv
<1>5. IsRequest(u)
  BY <1>1, <1>4 DEF TypesOK
<1>6. /\ IsRequest(v) /\ v.status = "WAITING" /\ v.all_token_ids # <<>>
      /\ v.num_computed_tokens = u.num_computed_tokens
  BY <1>2, <1>5, ResumedFields
<1>7. QueueTypes'
  BY <1>3, <1>4 DEF QueueTypes, TypesOK
<1>8. req'[r] = v /\ Others(r) /\ TypesOK'
  BY <1>3, <1>4, <1>6, <1>7, OneReplaced
<1>9. PlaceOf(r)'
  BY <1>3, <1>4, <1>6, <1>8 DEF PlaceOf, Blocked
<1>10. QueueInv'
  <2>1. num_waiting_for_streaming_input'
          = num_waiting_for_streaming_input + Waits(r)' - Waits(r)
    BY <1>3, <1>4, <1>6, <1>8 DEF Waits, TypesOK, Blocked
  <2> QED
    BY <1>3, <1>4, <1>8, <1>9, <2>1, OneMoves DEF MovesOnly, QueueInv
<1>11. SlotOf(r)' /\ NamedOf(r)'
  BY <1>1, <1>3, <1>4, <1>6, <1>8 DEF SlotOf, NamedOf, Blocked
<1>12. SlotInv'
  <2>1. Len(running') + num_waiting_for_streaming_input' <= MaxActive
    <3>1. Len(running) \in Nat /\ num_waiting_for_streaming_input \in Int /\ MaxActive \in Nat
      BY <1>4, LenProperties, ConstantsOK DEF TypesOK
    <3> QED
      BY <1>3, <1>4, <3>1 DEF SlotInv
  <2> QED
    BY <1>3, <1>4, <1>8, <1>11, <2>1, BatchStays, OneSlotMoves
<1> QED
  BY <1>8, <1>10, <1>12 DEF SessionInv

\* A request that ends leaves the queue it is in and is told to the worker.
LEMMA FinishKeeps ==
  ASSUME SessionInv, NEW r \in Requests, Live(r), Finish(r),
         batch' \in Seq(Requests), Once(batch'),
         \A q : Contains(batch', q) => Contains(batch, q) /\ pc' \in {"flight", "update"},
         pc \notin {"admit", "preempted"}, pc' \notin {"admit", "preempted"},
         slots' = slots, preempted_req_ids' = preempted_req_ids,
         step_skipped_waiting' = step_skipped_waiting
  PROVE  SessionInv'
<1>1. PICK v : v = Blank("FINISHED")
  OBVIOUS
<1>2. IsRequest(v) /\ v.status = "FINISHED"
  BY <1>1, BlankFields DEF Statuses
<1>3. /\ req' = [req EXCEPT ![r] = v]
      /\ num_waiting_for_streaming_input' = num_waiting_for_streaming_input - Waits(r)
      /\ running' = Without(running, r) /\ waiting' = Without(waiting, r)
      /\ skipped_waiting' = Without(skipped_waiting, r)
      /\ finished_req_ids' = finished_req_ids \cup {r}
  BY <1>1 DEF Finish, CountAfter, Gone, Waits
<1>4. TypesOK /\ QueueInv /\ SlotInv /\ PlaceOf(r) /\ SlotOf(r) /\ NamedOf(r)
  BY DEF SessionInv, QueueInv, SlotInv
<1>5. /\ running' \in Seq(Requests) /\ Once(running')
      /\ \A x : Contains(running', x) <=> Contains(running, x) /\ x # r
  BY <1>3, <1>4, WithoutOnce DEF TypesOK, QueueInv
<1>6. /\ waiting' \in Seq(Requests) /\ Once(waiting')
      /\ \A x : Contains(waiting', x) <=> Contains(waiting, x) /\ x # r
  BY <1>3, <1>4, WithoutOnce DEF TypesOK, QueueInv
<1>7. /\ skipped_waiting' \in Seq(Requests) /\ Once(skipped_waiting')
      /\ \A x : Contains(skipped_waiting', x) <=> Contains(skipped_waiting, x) /\ x # r
  BY <1>3, <1>4, WithoutOnce DEF TypesOK, QueueInv
<1>8. step_skipped_waiting = <<>> /\ ~Contains(step_skipped_waiting, r)
  BY <1>4, EmptyOnce DEF QueueInv
<1>9. QueueTypes'
  <2>1. num_waiting_for_streaming_input' \in Int
    BY <1>3, <1>4 DEF TypesOK, Waits
  <2> QED
    BY <1>4, <1>5, <1>6, <1>7, <2>1 DEF QueueTypes, TypesOK
<1>10. req'[r] = v /\ Others(r) /\ TypesOK'
  BY <1>2, <1>3, <1>4, <1>9, OneReplaced
<1>11. PlaceOf(r)'
  BY <1>2, <1>5, <1>6, <1>7, <1>8, <1>10 DEF PlaceOf, Blocked
<1>12. QueueInv'
  <2>1. num_waiting_for_streaming_input'
          = num_waiting_for_streaming_input + Waits(r)' - Waits(r)
    BY <1>2, <1>3, <1>4, <1>10 DEF Waits, TypesOK, Blocked
  <2> QED
    BY <1>4, <1>5, <1>6, <1>7, <1>8, <1>10, <1>11, <2>1, OneMoves DEF MovesOnly, QueueInv
<1>13. SlotOf(r)' /\ NamedOf(r)'
  BY <1>2, <1>3, <1>4, <1>10 DEF SlotOf, NamedOf, Blocked
<1>14. SlotInv'
  <2>1. Len(running') + num_waiting_for_streaming_input' <= MaxActive
    <3>1. /\ Len(running) \in Nat /\ num_waiting_for_streaming_input \in Int
          /\ MaxActive \in Nat /\ Waits(r) \in {0, 1}
          /\ Len(running) + num_waiting_for_streaming_input <= MaxActive
      BY <1>4, LenProperties, ConstantsOK DEF TypesOK, Waits, SlotInv
    <3>2. Len(running') = Len(running) \/ Len(running') = Len(running) - 1
      BY <1>3, <1>4, WithoutOnce DEF TypesOK, QueueInv
    <3> QED
      BY <1>3, <3>1, <3>2
  <2> QED
    BY <1>3, <1>4, <1>10, <1>13, <2>1, OneSlotMoves
<1> QED
  BY <1>10, <1>12, <1>14 DEF SessionInv

\* The client's part.
LEMMA ClientKeeps ==
  ASSUME SessionInv, NEW r \in Requests, Client(r)
  PROVE  SessionInv'
<1>1. ASSUME NEW chunk \in Prompts, NEW t \in Tags, AddRequest(r, chunk, t)
      PROVE  SessionInv'
  BY <1>1, AddKeeps
<1>2. ASSUME NEW chunk \in Chunks, SendChunk(r, chunk) PROVE SessionInv'
  BY <1>2, QueueInputKeeps, ResumeInputKeeps DEF SendChunk, Inputs
<1>3. ASSUME ClientTurn, Live(r), Finish(r), UNCHANGED <<preempted_req_ids,
             step_skipped_waiting, pc, batch, slots>>
      PROVE  SessionInv'
  <2>1. TypesOK /\ SlotInv
    BY DEF SessionInv
  <2>2. batch' \in Seq(Requests) /\ pc \notin {"admit", "preempted"}
    BY <1>3, <2>1 DEF TypesOK, ClientTurn
  <2> QED
    BY <1>3, <2>1, <2>2, BatchStays, FinishKeeps
<1>4. SendEnd(r) => SessionInv'
  BY <1>3, QueueInputKeeps DEF SendEnd, Inputs, FinishWaiting, MaySend
<1>5. Abort(r) => SessionInv'
  BY <1>3 DEF Abort
<1> QED
  BY <1>1, <1>2, <1>4, <1>5 DEF Client

-----------------------------------------------------------------------------
(* schedule() *)

\* Statuses change, but not which sessions wait.
LEMMA SameWait ==
  ASSUME QueueInv, \A q \in Requests : req'[q].status = Blocked <=> req[q].status = Blocked,
         num_waiting_for_streaming_input' = num_waiting_for_streaming_input
  PROVE  /\ IsFiniteSet(BlockedSet')
         /\ num_waiting_for_streaming_input' = Cardinality(BlockedSet')
<1>1. BlockedSet' = BlockedSet
  BY DEF BlockedSet, OfStatus
<1> QED
  BY <1>1 DEF QueueInv

\* The requests that run are cut in two: the last are preempted.
LEMMA ScheduleKeeps ==
  ASSUME SessionInv, NEW n \in 0..Len(running), ScheduleRunning(n)
  PROVE  SessionInv'
<1>1. PICK L \in Nat : L = Len(running)
  BY LenProperties DEF SessionInv, TypesOK
<1>2. PICK k \in Nat : k = L - n /\ k <= L
  <2>1. n \in 0..L
    BY <1>1
  <2> QED
    BY <2>1
<1>3. PICK out : out = SubSeq(running, k + 1, Len(running))
  OBVIOUS
<1>4. /\ pc = "idle" /\ running' = SubSeq(running, 1, k) /\ waiting' = out \o waiting
      /\ req' = [q \in Requests |->
                   IF Contains(out, q)
                   THEN [req[q] EXCEPT !.status = "PREEMPTED", !.num_computed_tokens = 0]
                   ELSE req[q]]
      /\ preempted_req_ids' = preempted_req_ids \cup ToSet(out)
      /\ pc' = (IF n = 0 THEN "admit" ELSE "preempted")
      /\ UNCHANGED <<skipped_waiting, num_waiting_for_streaming_input, finished_req_ids,
                     step_skipped_waiting, batch, slots>>
  BY <1>1, <1>2, <1>3 DEF ScheduleRunning, workVars
<1>5. TypesOK /\ QueueInv /\ SlotInv
  BY DEF SessionInv
<1>6. /\ running' \in Seq(Requests) /\ Len(running') = k /\ Once(running')
      /\ out \in Seq(Requests) /\ Once(out)
      /\ k = L => out = <<>>
      /\ \A x : Contains(running, x) <=> Contains(running', x) \/ Contains(out, x)
      /\ \A x : ~(Contains(running', x) /\ Contains(out, x))
  BY <1>1, <1>2, <1>3, <1>4, <1>5, CutOnce DEF TypesOK, QueueInv
<1>7. \A q \in Requests : Contains(out, q) => n # 0 /\ req[q].status = "RUNNING"
  <2>1. n = 0 => out = <<>>
    BY <1>1, <1>2, <1>6
  <2> QED
    BY <1>5, <1>6, <2>1, EmptyOnce DEF QueueInv, PlaceOf
<1>8. /\ waiting' \in Seq(Requests) /\ Once(waiting')
      /\ \A x : Contains(waiting', x) <=> Contains(out, x) \/ Contains(waiting, x)
  <2>1. \A q \in Requests : ~(Contains(out, q) /\ Contains(waiting, q))
    BY <1>5, <1>7 DEF QueueInv, PlaceOf, Blocked
  <2>2. waiting \in Seq(Requests) /\ Once(waiting)
    BY <1>5 DEF TypesOK, QueueInv
  <2> QED
    BY <1>4, <1>6, <2>1, <2>2, ConcatOnce, ConcatProperties
<1>9. \A q \in Requests :
        /\ ~Contains(out, q) => req'[q] = req[q]
        /\ Contains(out, q) =>
             /\ IsRequest(req'[q]) /\ req'[q].status = "PREEMPTED"
             /\ req'[q].all_token_ids = req[q].all_token_ids
  <2> TAKE q \in Requests
  <2>1. PICK u : u = req[q]
    OBVIOUS
  <2>2. IsRequest(u)
    BY <1>5, <2>1 DEF TypesOK
  <2>3. PICK v : v = [u EXCEPT !.status = "PREEMPTED", !.num_computed_tokens = 0]
    OBVIOUS
  <2>4. IsRequest(v) /\ v.status = "PREEMPTED" /\ v.all_token_ids = u.all_token_ids
    BY <2>2, <2>3 DEF IsRequest, Fields, Statuses
  <2>5. req'[q] = IF Contains(out, q) THEN v ELSE u
    BY <1>4, <2>1, <2>3
  <2> QED
    BY <2>1, <2>4, <2>5
<1>10. TypesOK'
  <2>1. DOMAIN req' = Requests /\ \A q \in Requests : IsRequest(req'[q])
    BY <1>4, <1>5, <1>9 DEF TypesOK
  <2> QED
    BY <1>4, <1>5, <1>6, <1>8, <2>1 DEF TypesOK, IsRequest
<1>11. QueueInv'
  <2>1. \A q \in Requests : PlaceOf(q)'
    <3> TAKE q \in Requests
    <3>1. PlaceOf(q)
      BY <1>5 DEF QueueInv
    <3>2. CASE Contains(out, q)
      BY <1>4, <1>6, <1>7, <1>8, <1>9, <3>1, <3>2 DEF PlaceOf, Blocked
    <3>3. CASE ~Contains(out, q)
      BY <1>4, <1>6, <1>8, <1>9, <3>1, <3>3 DEF PlaceOf
    <3> QED
      BY <3>2, <3>3
  <2>2. \A q \in Requests : req'[q].status = Blocked <=> req[q].status = Blocked
    BY <1>7, <1>9 DEF Blocked
  <2> QED
    BY <1>4, <1>5, <1>6, <1>8, <2>1, <2>2, SameWait DEF QueueInv
<1>12. SlotInv'
  <2>1. ASSUME NEW q \in Requests PROVE SlotOf(q)' /\ NamedOf(q)'
    <3>1. SlotOf(q) /\ NamedOf(q)
      BY <1>5 DEF SlotInv
    <3>2. q \in preempted_req_ids' <=> Contains(out, q)
      BY <1>4, <1>6, <3>1, InQueue DEF NamedOf
    <3>3. CASE Contains(out, q)
      BY <1>4, <1>7, <1>9, <3>1, <3>2, <3>3 DEF SlotOf, NamedOf, Blocked
    <3>4. CASE ~Contains(out, q)
      BY <1>4, <1>9, <3>1, <3>2, <3>4 DEF SlotOf, NamedOf
    <3> QED
      BY <3>3, <3>4
  <2>2. Len(running') + num_waiting_for_streaming_input' <= MaxActive
    <3>1. num_waiting_for_streaming_input \in Int /\ MaxActive \in Nat
      BY <1>5, ConstantsOK DEF TypesOK
    <3>2. /\ Len(running') = k /\ L + num_waiting_for_streaming_input <= MaxActive
          /\ num_waiting_for_streaming_input' = num_waiting_for_streaming_input
      BY <1>1, <1>4, <1>5, <1>6 DEF SlotInv
    <3> QED
      BY <1>1, <1>2, <3>1, <3>2
  <2> QED
    BY <1>4, <1>5, <2>1, <2>2 DEF SlotInv
<1> QED
  BY <1>10, <1>11, <1>12 DEF SessionInv

\* The next request to be looked at waits in one of the queues.
LEMMA NextWaits ==
  ASSUME SessionInv, NEW r \in Requests, IsNext(r)
  PROVE  Contains(waiting, r) \/ Contains(skipped_waiting, r)
<1>1. CASE skipped_waiting # <<>>
  BY <1>1, TailOnce DEF SessionInv, TypesOK, QueueInv, IsNext
<1>2. CASE skipped_waiting = <<>>
  BY <1>2, TailOnce DEF SessionInv, TypesOK, QueueInv, IsNext
<1> QED
  BY <1>1, <1>2

\* It leaves them.
LEMMA PoppedOnce ==
  ASSUME SessionInv, NEW r \in Requests, Popped(r)
  PROVE  /\ waiting' \in Seq(Requests) /\ Once(waiting')
         /\ \A x : Contains(waiting', x) <=> Contains(waiting, x) /\ x # r
         /\ skipped_waiting' \in Seq(Requests) /\ Once(skipped_waiting')
         /\ \A x : Contains(skipped_waiting', x) <=> Contains(skipped_waiting, x) /\ x # r
BY WithoutOnce DEF SessionInv, TypesOK, QueueInv, Popped

\* A session that waits for input is passed over.
LEMMA PassOverKeeps ==
  ASSUME SessionInv, NEW r \in Requests, PassOver(r)
  PROVE  SessionInv'
<1>1. /\ pc = "admit" /\ req[r].status = Blocked /\ Popped(r)
      /\ step_skipped_waiting' = <<r>> \o step_skipped_waiting
      /\ UNCHANGED <<req, running, num_waiting_for_streaming_input, finished_req_ids,
                     preempted_req_ids, pc, batch, slots>>
  BY DEF PassOver, IsNext, tellVars, workVars
<1>2. TypesOK /\ QueueInv /\ SlotInv /\ PlaceOf(r) /\ SlotOf(r) /\ NamedOf(r)
  BY DEF SessionInv, QueueInv, SlotInv
<1>3. ~Contains(waiting, r) /\ Contains(skipped_waiting, r) /\ ~Contains(step_skipped_waiting, r)
  BY <1>1, <1>2, NextWaits DEF PlaceOf, PassOver
<1>4. /\ waiting' \in Seq(Requests) /\ Once(waiting')
      /\ \A x : Contains(waiting', x) <=> Contains(waiting, x) /\ x # r
      /\ skipped_waiting' \in Seq(Requests) /\ Once(skipped_waiting')
      /\ \A x : Contains(skipped_waiting', x) <=> Contains(skipped_waiting, x) /\ x # r
  BY <1>1, PoppedOnce
<1>5. /\ step_skipped_waiting' \in Seq(Requests) /\ Once(step_skipped_waiting')
      /\ \A x : Contains(step_skipped_waiting', x) <=> x = r \/ Contains(step_skipped_waiting, x)
  <2>1. step_skipped_waiting \in Seq(Requests) /\ Once(step_skipped_waiting)
    BY <1>2 DEF TypesOK, QueueInv
  <2>2. <<r>> \in Seq(Requests) /\ Once(<<r>>) /\ \A x : Contains(<<r>>, x) <=> x = r
    BY <2>1, InQueue
  <2>3. \A x \in Requests : ~(Contains(<<r>>, x) /\ Contains(step_skipped_waiting, x))
    BY <1>3, <2>2
  <2> DEFINE one == <<r>>
  <2> HIDE DEF one
  <2>4. one \in Seq(Requests) /\ Once(one) /\ \A x : Contains(one, x) <=> x = r
    BY <2>2 DEF one
  <2>5. \A x \in Requests : ~(Contains(one, x) /\ Contains(step_skipped_waiting, x))
    BY <2>3 DEF one
  <2>6. step_skipped_waiting' = one \o step_skipped_waiting
    BY <1>1 DEF one
  <2> QED
    BY <2>1, <2>4, <2>5, <2>6, ConcatOnce, ConcatProperties
<1>6. TypesOK'
  BY <1>1, <1>2, <1>4, <1>5 DEF TypesOK, IsRequest
<1>7. PlaceOf(r)'
  BY <1>1, <1>2, <1>3, <1>4, <1>5 DEF PlaceOf, Blocked
<1>8. QueueInv'
  <2>1. num_waiting_for_streaming_input'
          = num_waiting_for_streaming_input + Waits(r)' - Waits(r)
    BY <1>1, <1>2 DEF Waits, TypesOK
  <2>2. Others(r)
    BY <1>1 DEF Others
  <2> QED
    BY <1>1, <1>2, <1>4, <1>5, <1>7, <2>1, <2>2, OneMoves DEF MovesOnly, QueueInv
<1>9. SlotInv'
  BY <1>1, <1>2 DEF SlotInv, SlotOf, NamedOf
<1> QED
  BY <1>6, <1>8, <1>9 DEF SessionInv

\* A request begins to run.
LEMMA AdmitKeeps ==
  ASSUME SessionInv, NEW r \in Requests, Admit(r)
  PROVE  SessionInv'
<1>1. PICK u : u = req[r]
  OBVIOUS
<1>2. PICK start \in Starts(r) :
        req' = [req EXCEPT ![r].status = "RUNNING", ![r].num_computed_tokens = start]
  BY DEF Admit
<1>3. PICK v : v = [u EXCEPT !.status = "RUNNING", !.num_computed_tokens = start]
  OBVIOUS
<1>4. /\ pc = "admit" /\ req[r].status # Blocked /\ Popped(r) /\ NumActive < MaxActive
      /\ req' = [req EXCEPT ![r] = v] /\ running' = Append(running, r)
      /\ UNCHANGED <<num_waiting_for_streaming_input, finished_req_ids, preempted_req_ids,
                     step_skipped_waiting, pc, batch, slots>>
  BY <1>1, <1>2, <1>3 DEF Admit, IsNext, tellVars, workVars
<1>5. TypesOK /\ QueueInv /\ SlotInv /\ PlaceOf(r) /\ SlotOf(r) /\ NamedOf(r)
  BY DEF SessionInv, QueueInv, SlotInv
<1>6. IsRequest(u) /\ u.num_computed_tokens \in Nat
  BY <1>1, <1>5 DEF TypesOK, IsRequest
<1>7. start \in Nat
  <2>1. \A h \in Hits(r) : h \in Nat
    BY ConstantsOK DEF Hits
  <2> QED
    BY <1>1, <1>2, <1>6, <2>1 DEF Starts
<1>8. IsRequest(v) /\ v.status = "RUNNING" /\ v.all_token_ids = u.all_token_ids
  BY <1>3, <1>6, <1>7 DEF IsRequest, Fields, Statuses
<1>9. /\ req[r].status \in {"WAITING", "PREEMPTED"} /\ ~Contains(running, r)
      /\ ~Contains(step_skipped_waiting, r)
  BY <1>4, <1>5, NextWaits DEF PlaceOf, Admit, Blocked
<1>10. /\ waiting' \in Seq(Requests) /\ Once(waiting')
       /\ \A x : Contains(waiting', x) <=> Contains(waiting, x) /\ x # r
       /\ skipped_waiting' \in Seq(Requests) /\ Once(skipped_waiting')
       /\ \A x : Contains(skipped_waiting', x) <=> Contains(skipped_waiting, x) /\ x # r
  BY <1>4, PoppedOnce
<1>11. /\ running' \in Seq(Requests) /\ Once(running') /\ Len(running') = Len(running) + 1
       /\ \A x : Contains(running', x) <=> Contains(running, x) \/ x = r
  <2>1. Once(running) /\ running \in Seq(Requests)
    BY <1>5 DEF TypesOK, QueueInv
  <2> QED
    BY <1>4, <1>9, <2>1, AppendOnce, AppendProperties
<1>12. QueueTypes'
  BY <1>4, <1>5, <1>10, <1>11 DEF QueueTypes, TypesOK
<1>13. req'[r] = v /\ Others(r) /\ TypesOK'
  BY <1>4, <1>5, <1>8, <1>12, OneReplaced
<1>14. PlaceOf(r)'
  BY <1>4, <1>8, <1>9, <1>10, <1>11, <1>13 DEF PlaceOf, Blocked
<1>15. QueueInv'
  <2>1. num_waiting_for_streaming_input'
          = num_waiting_for_streaming_input + Waits(r)' - Waits(r)
    BY <1>4, <1>5, <1>8, <1>13 DEF Waits, TypesOK, Blocked
  <2> QED
    BY <1>4, <1>5, <1>10, <1>11, <1>13, <1>14, <2>1, OneMoves DEF MovesOnly, QueueInv
<1>16. SlotOf(r)' /\ NamedOf(r)'
  BY <1>1, <1>4, <1>5, <1>8, <1>9, <1>13 DEF SlotOf, NamedOf, Blocked
<1>17. SlotInv'
  <2>1. Len(running') + num_waiting_for_streaming_input' <= MaxActive
    <3>1. /\ Len(running) \in Nat /\ num_waiting_for_streaming_input \in Int
          /\ MaxActive \in Nat
      BY <1>5, LenProperties, ConstantsOK DEF TypesOK
    <3> QED
      BY <1>4, <1>11, <3>1 DEF NumActive
  <2> QED
    BY <1>4, <1>5, <1>13, <1>16, <2>1, BatchStays, OneSlotMoves
<1> QED
  BY <1>13, <1>15, <1>17 DEF SessionInv

\* The worker gets the step.
LEMMA EndScheduleKeeps ==
  ASSUME SessionInv, EndSchedule
  PROVE  SessionInv'
<1>1. TypesOK /\ QueueInv /\ SlotInv
  BY DEF SessionInv
<1>2. /\ pc \in {"admit", "preempted"}
      /\ skipped_waiting' = step_skipped_waiting \o skipped_waiting
      /\ step_skipped_waiting' = <<>>
      /\ slots' = (slots \ (finished_req_ids \cup preempted_req_ids)) \cup ToSet(running)
      /\ finished_req_ids' = {} /\ preempted_req_ids' = {}
      /\ batch' = running
      /\ req' = [r \in Requests |->
                   IF Contains(running, r)
                   THEN [req[r] EXCEPT !.num_computed_tokens = NumTokens(r)] ELSE req[r]]
      /\ pc' = (IF running = <<>> THEN "idle" ELSE "flight")
      /\ UNCHANGED <<waiting, running, num_waiting_for_streaming_input>>
  BY DEF EndSchedule
<1>3. /\ skipped_waiting' \in Seq(Requests) /\ Once(skipped_waiting')
      /\ \A x : Contains(skipped_waiting', x) <=>
           Contains(step_skipped_waiting, x) \/ Contains(skipped_waiting, x)
  <2>1. \A q \in Requests : ~(Contains(step_skipped_waiting, q) /\ Contains(skipped_waiting, q))
    BY <1>1 DEF QueueInv, PlaceOf
  <2>2. /\ skipped_waiting \in Seq(Requests) /\ Once(skipped_waiting)
        /\ step_skipped_waiting \in Seq(Requests) /\ Once(step_skipped_waiting)
    BY <1>1 DEF TypesOK, QueueInv
  <2> QED
    BY <1>2, <2>1, <2>2, ConcatOnce, ConcatProperties
<1>4. \A q \in Requests :
        /\ ~Contains(running, q) => req'[q] = req[q]
        /\ Contains(running, q) =>
             /\ IsRequest(req'[q]) /\ req'[q].status = "RUNNING"
             /\ req'[q].all_token_ids # <<>> /\ req'[q].num_computed_tokens > 0
             /\ req[q].status = "RUNNING"
  <2> SUFFICES ASSUME NEW q \in Requests, Contains(running, q)
               PROVE  /\ IsRequest(req'[q]) /\ req'[q].status = "RUNNING"
                      /\ req'[q].all_token_ids # <<>> /\ req'[q].num_computed_tokens > 0
                      /\ req[q].status = "RUNNING"
    BY <1>2
  <2>1. PICK u : u = req[q]
    OBVIOUS
  <2>2. IsRequest(u) /\ u.status = "RUNNING" /\ u.all_token_ids # <<>>
    BY <1>1, <2>1 DEF TypesOK, QueueInv, PlaceOf, SlotInv, NamedOf
  <2>3. PICK c : c = Len(u.all_token_ids)
    OBVIOUS
  <2>4. c \in Nat /\ c > 0
    <3>1. u.all_token_ids \in Seq(Tokens)
      BY <2>2 DEF IsRequest
    <3>2. Len(u.all_token_ids) \in Nat /\ Len(u.all_token_ids) # 0
      BY <2>2, <3>1, LenProperties, EmptySeq
    <3> QED
      BY <2>3, <3>2
  <2>5. PICK v : v = [u EXCEPT !.num_computed_tokens = c]
    OBVIOUS
  <2>6. /\ IsRequest(v) /\ v.status = "RUNNING" /\ v.all_token_ids = u.all_token_ids
        /\ v.num_computed_tokens = c
    BY <2>2, <2>4, <2>5 DEF IsRequest, Fields
  <2>7. req'[q] = v
    BY <1>2, <2>1, <2>3, <2>5 DEF NumTokens
  <2> QED
    BY <2>1, <2>2, <2>4, <2>6, <2>7
<1>5. TypesOK'
  <2>1. DOMAIN req' = Requests /\ \A q \in Requests : IsRequest(req'[q])
    BY <1>1, <1>2, <1>4 DEF TypesOK
  <2>2. step_skipped_waiting' \in Seq(Requests)
    BY <1>2, EmptySeq
  <2> QED
    BY <1>1, <1>2, <1>3, <2>1, <2>2 DEF TypesOK, IsRequest
<1>6. QueueInv'
  <2>1. \A q \in Requests : PlaceOf(q)'
    <3> TAKE q \in Requests
    <3>1. PlaceOf(q)
      BY <1>1 DEF QueueInv
    <3>2. ~Contains(step_skipped_waiting', q)
      BY <1>2, EmptyOnce
    <3>3. CASE Contains(running, q)
      BY <1>2, <1>3, <1>4, <3>1, <3>2, <3>3 DEF PlaceOf, Blocked
    <3>4. CASE ~Contains(running, q)
      BY <1>2, <1>3, <1>4, <3>1, <3>2, <3>4 DEF PlaceOf
    <3> QED
      BY <3>3, <3>4
  <2>2. \A q \in Requests : req'[q].status = Blocked <=> req[q].status = Blocked
    BY <1>4 DEF Blocked
  <2>3. Once(step_skipped_waiting')
    BY <1>2, EmptyOnce
  <2> QED
    BY <1>1, <1>2, <1>3, <2>1, <2>2, <2>3, SameWait DEF QueueInv
<1>7. SlotInv'
  <2>0. \A x : x \in ToSet(running) <=> Contains(running, x)
    BY <1>1 DEF TypesOK, ToSet, Contains
  <2>1. ASSUME NEW q \in Requests PROVE SlotOf(q)' /\ NamedOf(q)'
    <3>1. SlotOf(q) /\ NamedOf(q) /\ PlaceOf(q)
      BY <1>1 DEF SlotInv, QueueInv
    <3>2. CASE Contains(running, q)
      <4>1. running # <<>>
        BY <3>2, EmptyOnce
      <4> QED
        BY <1>2, <1>4, <2>0, <3>1, <3>2, <4>1 DEF SlotOf, NamedOf, Blocked
    <3>3. CASE ~Contains(running, q)
      <4>1. /\ req'[q] = req[q] /\ req[q].status # "RUNNING" /\ ~Contains(batch', q)
            /\ q \in slots' <=> q \in slots /\ q \notin finished_req_ids /\ q \notin preempted_req_ids
        BY <1>2, <1>4, <2>0, <3>1, <3>3 DEF PlaceOf
      <4>2. SlotOf(q)'
        BY <1>2, <3>1, <4>1 DEF SlotOf, NamedOf, Blocked
      <4>3. NamedOf(q)'
        BY <1>2, <3>1, <4>1 DEF NamedOf
      <4> QED
        BY <4>2, <4>3
    <3> QED
      BY <3>2, <3>3
  <2>2. slots' \subseteq Requests
    <3>1. \A x : Contains(running, x) => x \in Requests
      BY <1>1, ElementOfSeq DEF TypesOK, Contains
    <3> QED
      BY <1>1, <1>2, <2>0, <3>1 DEF SlotInv
  <2>3. Once(batch') /\ Len(running') + num_waiting_for_streaming_input' <= MaxActive
    BY <1>1, <1>2 DEF SlotInv, QueueInv
  <2> QED
    BY <2>1, <2>2, <2>3 DEF SlotInv
<1> QED
  BY <1>5, <1>6, <1>7 DEF SessionInv

-----------------------------------------------------------------------------
(* update_from_output() *)

\* A request that has ended meanwhile is skipped.
LEMMA SkipKeeps ==
  ASSUME SessionInv, NEW r \in Requests, SkipFinished(r)
  PROVE  SessionInv'
<1>1. /\ Updating(r) /\ NextUpdate
      /\ UNCHANGED <<req, running, waiting, skipped_waiting, num_waiting_for_streaming_input,
                     finished_req_ids, preempted_req_ids, step_skipped_waiting, slots>>
  BY DEF SkipFinished, queueVars, tellVars
<1>2. TypesOK /\ QueueInv /\ SlotInv /\ PlaceOf(r) /\ SlotOf(r) /\ NamedOf(r)
  BY DEF SessionInv, QueueInv, SlotInv
<1>3. /\ batch' \in Seq(Requests) /\ Once(batch') /\ ~Contains(batch', r)
      /\ \A q : Contains(batch', q) => Contains(batch, q) /\ pc' \in {"flight", "update"}
      /\ pc \notin {"admit", "preempted"} /\ pc' \notin {"admit", "preempted"}
      /\ step_skipped_waiting = <<>>
  BY <1>1, Updates
<1>4. TypesOK'
  BY <1>1, <1>2, <1>3 DEF TypesOK, IsRequest
<1>5. Others(r)
  BY <1>1 DEF Others
<1>6. QueueInv'
  <2>1. PlaceOf(r)'
    BY <1>1, <1>2 DEF PlaceOf
  <2>2. num_waiting_for_streaming_input'
          = num_waiting_for_streaming_input + Waits(r)' - Waits(r)
    BY <1>1, <1>2 DEF Waits, TypesOK
  <2> QED
    BY <1>1, <1>2, <1>3, <1>5, <2>1, <2>2, OneMoves DEF MovesOnly, QueueInv
<1>7. SlotInv'
  <2>1. SlotOf(r)' /\ NamedOf(r)'
    BY <1>1, <1>2, <1>3 DEF SlotOf, NamedOf
  <2>2. Len(running') + num_waiting_for_streaming_input' <= MaxActive
    BY <1>1, <1>2 DEF SlotInv
  <2> QED
    BY <1>1, <1>2, <1>3, <1>5, <2>1, <2>2, OneSlotMoves
<1> QED
  BY <1>4, <1>6, <1>7 DEF SessionInv

\* A request that does not stop stays where it is.
LEMMA GoOnKeeps ==
  ASSUME SessionInv, NEW r \in Requests, NEW out \in Outputs, GoOn(r, out)
  PROVE  SessionInv'
<1>1. PICK v : v = Sampled(r, out, Len(out))
  OBVIOUS
<1>2. /\ Updating(r) /\ Live(r) /\ NextUpdate /\ req' = [req EXCEPT ![r] = v]
      /\ UNCHANGED <<running, waiting, skipped_waiting, num_waiting_for_streaming_input,
                     finished_req_ids, preempted_req_ids, step_skipped_waiting, slots>>
  BY <1>1 DEF GoOn, queueVars, tellVars
<1>3. TypesOK /\ QueueInv /\ SlotInv /\ PlaceOf(r) /\ SlotOf(r) /\ NamedOf(r)
  BY DEF SessionInv, QueueInv, SlotInv
<1>4. /\ batch' \in Seq(Requests) /\ Once(batch') /\ ~Contains(batch', r)
      /\ \A q : Contains(batch', q) => Contains(batch, q) /\ pc' \in {"flight", "update"}
      /\ pc \notin {"admit", "preempted"} /\ pc' \notin {"admit", "preempted"}
      /\ step_skipped_waiting = <<>> /\ req[r].status \in {"RUNNING", "FINISHED"}
  BY <1>2, Updates
<1>5. req[r].status = "RUNNING" /\ req[r].all_token_ids # <<>> /\ req[r].num_computed_tokens > 0
  BY <1>2, <1>3, <1>4 DEF Live, SlotOf, NamedOf
<1>6. /\ IsRequest(v) /\ v.status = "RUNNING" /\ v.all_token_ids # <<>>
      /\ v.num_computed_tokens > 0
  BY <1>1, <1>3, <1>5, OutputTypes, SampledFields
<1>7. QueueTypes'
  BY <1>2, <1>3, <1>4 DEF QueueTypes, TypesOK
<1>8. req'[r] = v /\ Others(r) /\ TypesOK'
  BY <1>2, <1>3, <1>6, <1>7, OneReplaced
<1>9. QueueInv'
  <2>1. PlaceOf(r)'
    BY <1>2, <1>3, <1>5, <1>6, <1>8 DEF PlaceOf, Blocked
  <2>2. num_waiting_for_streaming_input'
          = num_waiting_for_streaming_input + Waits(r)' - Waits(r)
    BY <1>2, <1>3, <1>5, <1>6, <1>8 DEF Waits, TypesOK
  <2> QED
    BY <1>2, <1>3, <1>4, <1>8, <2>1, <2>2, OneMoves DEF MovesOnly, QueueInv
<1>10. SlotInv'
  <2>1. SlotOf(r)' /\ NamedOf(r)'
    BY <1>2, <1>3, <1>4, <1>5, <1>6, <1>8 DEF SlotOf, NamedOf, Blocked
  <2>2. Len(running') + num_waiting_for_streaming_input' <= MaxActive
    BY <1>2, <1>3 DEF SlotInv
  <2> QED
    BY <1>2, <1>3, <1>4, <1>8, <2>1, <2>2, OneSlotMoves
<1> QED
  BY <1>8, <1>9, <1>10 DEF SessionInv

\* A request stops and ends.
LEMMA StopForGoodKeeps ==
  ASSUME SessionInv, NEW r \in Requests, NEW k, StopForGood(r, k)
  PROVE  SessionInv'
<1>1. /\ Updating(r) /\ Live(r) /\ NextUpdate /\ Finish(r)
      /\ UNCHANGED <<preempted_req_ids, step_skipped_waiting, slots>>
  BY DEF StopForGood, Stops
<1>2. /\ batch' \in Seq(Requests) /\ Once(batch')
      /\ \A q : Contains(batch', q) => Contains(batch, q) /\ pc' \in {"flight", "update"}
      /\ pc \notin {"admit", "preempted"} /\ pc' \notin {"admit", "preempted"}
  BY <1>1, Updates
<1> QED
  BY <1>1, <1>2, FinishKeeps

\* A session stops and its next chunk is there: it waits to run again.
LEMMA StopAndResumeKeeps ==
  ASSUME SessionInv, NEW r \in Requests, NEW out \in Outputs, NEW k \in DOMAIN out,
         StopAndResume(r, out, k)
  PROVE  SessionInv'
<1>1. PICK queue : queue = req[r].streaming_queue
  OBVIOUS
<1>2. PICK s : s = Sampled(r, out, k)
  OBVIOUS
<1>3. PICK w : w = Resumed(s, Head(queue))
  OBVIOUS
<1>4. PICK v : v = [w EXCEPT !.streaming_queue = Tail(w.streaming_queue)]
  OBVIOUS
<1>5. /\ Updating(r) /\ Live(r) /\ NextUpdate /\ req' = [req EXCEPT ![r] = v]
      /\ queue # <<>> /\ Head(queue) # END
      /\ running' = Without(running, r) /\ waiting' = Append(waiting, r)
      /\ UNCHANGED <<skipped_waiting, num_waiting_for_streaming_input,
                     finished_req_ids, preempted_req_ids, step_skipped_waiting, slots>>
  BY <1>1, <1>2, <1>3, <1>4 DEF StopAndResume, Stops, tellVars
<1>6. TypesOK /\ QueueInv /\ SlotInv /\ PlaceOf(r) /\ SlotOf(r) /\ NamedOf(r)
  BY DEF SessionInv, QueueInv, SlotInv
<1>7. /\ batch' \in Seq(Requests) /\ Once(batch') /\ ~Contains(batch', r)
      /\ \A q : Contains(batch', q) => Contains(batch, q) /\ pc' \in {"flight", "update"}
      /\ pc \notin {"admit", "preempted"} /\ pc' \notin {"admit", "preempted"}
      /\ step_skipped_waiting = <<>> /\ req[r].status \in {"RUNNING", "FINISHED"}
  BY <1>5, Updates
<1>8. req[r].status = "RUNNING" /\ req[r].all_token_ids # <<>> /\ req[r].num_computed_tokens > 0
  BY <1>5, <1>6, <1>7 DEF Live, SlotOf, NamedOf
<1>9. IsRequest(s) /\ s.num_computed_tokens > 0 /\ s.streaming_queue = queue
  BY <1>1, <1>2, <1>6, <1>8, SampledFields
<1>10. queue \in Seq(Inputs)
  BY <1>9 DEF IsRequest
<1>11. Head(queue) \in Chunks /\ Tail(queue) \in Seq(Inputs)
  <2>1. Head(queue) \in Inputs /\ Tail(queue) \in Seq(Inputs)
    BY <1>5, <1>10, HeadTailProperties
  <2> QED
    BY <1>5, <2>1 DEF Inputs
<1>12. /\ IsRequest(w) /\ w.status = "WAITING" /\ w.all_token_ids # <<>>
       /\ w.num_computed_tokens > 0 /\ w.streaming_queue = queue
  BY <1>3, <1>9, <1>11, ResumedFields
<1>13. /\ IsRequest(v) /\ v.status = "WAITING" /\ v.all_token_ids # <<>>
       /\ v.num_computed_tokens > 0
  BY <1>4, <1>11, <1>12 DEF IsRequest, Fields
<1>14. /\ running' \in Seq(Requests) /\ Once(running')
       /\ \A x : Contains(running', x) <=> Contains(running, x) /\ x # r
       /\ Len(running') <= Len(running)
  <2>1. /\ running \in Seq(Requests) /\ Once(running) /\ Len(running) \in Nat
    BY <1>6, LenProperties DEF TypesOK, QueueInv
  <2> QED
    BY <1>5, <2>1, WithoutOnce
<1>15. ~Contains(waiting, r) /\ ~Contains(skipped_waiting, r)
  BY <1>6, <1>8 DEF PlaceOf, Blocked
<1>16. /\ waiting' \in Seq(Requests) /\ Once(waiting')
       /\ \A x : Contains(waiting', x) <=> Contains(waiting, x) \/ x = r
  <2>1. waiting \in Seq(Requests) /\ Once(waiting)
    BY <1>6 DEF TypesOK, QueueInv
  <2> QED
    BY <1>5, <1>15, <2>1, AppendOnce, AppendProperties
<1>17. QueueTypes'
  BY <1>5, <1>6, <1>7, <1>14, <1>16 DEF QueueTypes, TypesOK
<1>18. req'[r] = v /\ Others(r) /\ TypesOK'
  BY <1>5, <1>6, <1>13, <1>17, OneReplaced
<1>19. QueueInv'
  <2>0. ~Contains(step_skipped_waiting', r)
    BY <1>5, <1>7, EmptyOnce
  <2>1. PlaceOf(r)'
    BY <1>5, <1>13, <1>14, <1>15, <1>16, <1>18, <2>0 DEF PlaceOf, Blocked
  <2>2. num_waiting_for_streaming_input'
          = num_waiting_for_streaming_input + Waits(r)' - Waits(r)
    BY <1>5, <1>6, <1>8, <1>13, <1>18 DEF Waits, TypesOK, Blocked
  <2> QED
    BY <1>5, <1>6, <1>7, <1>14, <1>16, <1>18, <2>1, <2>2, OneMoves DEF MovesOnly, QueueInv
<1>20. SlotInv'
  <2>1. SlotOf(r)' /\ NamedOf(r)'
    BY <1>5, <1>6, <1>7, <1>8, <1>13, <1>18 DEF SlotOf, NamedOf, Blocked
  <2>2. Len(running') + num_waiting_for_streaming_input' <= MaxActive
    <3>1. /\ Len(running) \in Nat /\ num_waiting_for_streaming_input \in Int
          /\ Len(running') \in Nat /\ MaxActive \in Nat
          /\ Len(running) + num_waiting_for_streaming_input <= MaxActive
      BY <1>6, <1>14, LenProperties, ConstantsOK DEF TypesOK, SlotInv
    <3> QED
      BY <1>5, <1>14, <3>1
  <2> QED
    BY <1>5, <1>6, <1>7, <1>18, <2>1, <2>2, OneSlotMoves
<1> QED
  BY <1>18, <1>19, <1>20 DEF SessionInv

\* A session stops and waits for its next chunk.
LEMMA StopAndWaitKeeps ==
  ASSUME SessionInv, NEW r \in Requests, NEW out \in Outputs, NEW k \in DOMAIN out,
         StopAndWait(r, out, k)
  PROVE  SessionInv'
<1>1. PICK s : s = Sampled(r, out, k)
  OBVIOUS
<1>2. PICK v : v = [s EXCEPT !.status = Blocked]
  OBVIOUS
<1>3. /\ Updating(r) /\ Live(r) /\ NextUpdate /\ req' = [req EXCEPT ![r] = v]
      /\ req[r].streaming_queue = <<>>
      /\ num_waiting_for_streaming_input' = num_waiting_for_streaming_input + 1
      /\ running' = Without(running, r) /\ skipped_waiting' = Append(skipped_waiting, r)
      /\ UNCHANGED <<waiting, finished_req_ids, preempted_req_ids, step_skipped_waiting, slots>>
  BY <1>1, <1>2 DEF StopAndWait, Stops, tellVars
<1>4. TypesOK /\ QueueInv /\ SlotInv /\ PlaceOf(r) /\ SlotOf(r) /\ NamedOf(r)
  BY DEF SessionInv, QueueInv, SlotInv
<1>5. /\ batch' \in Seq(Requests) /\ Once(batch') /\ ~Contains(batch', r)
      /\ \A q : Contains(batch', q) => Contains(batch, q) /\ pc' \in {"flight", "update"}
      /\ pc \notin {"admit", "preempted"} /\ pc' \notin {"admit", "preempted"}
      /\ step_skipped_waiting = <<>> /\ req[r].status \in {"RUNNING", "FINISHED"}
  BY <1>3, Updates
<1>6. /\ req[r].status = "RUNNING" /\ req[r].all_token_ids # <<>>
      /\ req[r].num_computed_tokens > 0 /\ r \in slots
  BY <1>3, <1>4, <1>5 DEF Live, SlotOf, NamedOf
<1>7. /\ IsRequest(s) /\ s.num_computed_tokens > 0 /\ s.all_token_ids # <<>>
      /\ s.streaming_queue = <<>>
  BY <1>1, <1>3, <1>4, <1>6, SampledFields
<1>8. /\ IsRequest(v) /\ v.status = Blocked /\ v.all_token_ids # <<>>
      /\ v.num_computed_tokens > 0 /\ v.streaming_queue = <<>>
  BY <1>2, <1>7 DEF IsRequest, Fields, Statuses
<1>9. /\ running' \in Seq(Requests) /\ Once(running') /\ Len(running') = Len(running) - 1
      /\ \A x : Contains(running', x) <=> Contains(running, x) /\ x # r
  <2>1. running \in Seq(Requests) /\ Once(running) /\ Contains(running, r)
    BY <1>4, <1>6 DEF TypesOK, QueueInv, PlaceOf
  <2> QED
    BY <1>3, <2>1, WithoutOnce
<1>10. ~Contains(waiting, r) /\ ~Contains(skipped_waiting, r)
  BY <1>4, <1>6 DEF PlaceOf, Blocked
<1>11. /\ skipped_waiting' \in Seq(Requests) /\ Once(skipped_waiting')
       /\ \A x : Contains(skipped_waiting', x) <=> Contains(skipped_waiting, x) \/ x = r
  <2>1. skipped_waiting \in Seq(Requests) /\ Once(skipped_waiting)
    BY <1>4 DEF TypesOK, QueueInv
  <2> QED
    BY <1>3, <1>10, <2>1, AppendOnce, AppendProperties
<1>12. QueueTypes'
  BY <1>3, <1>4, <1>5, <1>9, <1>11 DEF QueueTypes, TypesOK
<1>13. req'[r] = v /\ Others(r) /\ TypesOK'
  BY <1>3, <1>4, <1>8, <1>12, OneReplaced
<1>14. QueueInv'
  <2>0. ~Contains(step_skipped_waiting', r)
    BY <1>3, <1>5, EmptyOnce
  <2>1. PlaceOf(r)'
    BY <1>3, <1>8, <1>9, <1>10, <1>11, <1>13, <2>0 DEF PlaceOf, Blocked
  <2>2. num_waiting_for_streaming_input'
          = num_waiting_for_streaming_input + Waits(r)' - Waits(r)
    BY <1>3, <1>4, <1>6, <1>8, <1>13 DEF Waits, TypesOK, Blocked
  <2> QED
    BY <1>3, <1>4, <1>5, <1>9, <1>11, <1>13, <2>1, <2>2, OneMoves DEF MovesOnly, QueueInv
<1>15. SlotInv'
  <2>1. SlotOf(r)' /\ NamedOf(r)'
    BY <1>3, <1>4, <1>5, <1>6, <1>8, <1>13 DEF SlotOf, NamedOf, Blocked
  <2>2. Len(running') + num_waiting_for_streaming_input' <= MaxActive
    <3>1. /\ Len(running) \in Nat /\ num_waiting_for_streaming_input \in Int
          /\ MaxActive \in Nat
          /\ Len(running) + num_waiting_for_streaming_input <= MaxActive
      BY <1>4, LenProperties, ConstantsOK DEF TypesOK, SlotInv
    <3> QED
      BY <1>3, <1>9, <3>1
  <2> QED
    BY <1>3, <1>4, <1>5, <1>13, <2>1, <2>2, OneSlotMoves
<1> QED
  BY <1>13, <1>14, <1>15 DEF SessionInv

-----------------------------------------------------------------------------
(* The invariant holds, and what follows from it *)

\* Nothing is queued at first.
LEMMA SessionsStart == Init => SessionInv
<1> SUFFICES ASSUME Init PROVE SessionInv
  OBVIOUS
<1>1. \A r \in Requests : IsRequest(req[r]) /\ req[r].status = "NEW"
  BY BlankFields DEF Init, Statuses
<1>2. TypesOK
  BY <1>1, EmptySeq DEF Init, TypesOK
<1>3. BlockedSet = {}
  BY <1>1 DEF BlockedSet, OfStatus, Blocked
<1>4. QueueInv
  <2>1. \A r \in Requests : PlaceOf(r)
    BY <1>1, EmptyOnce DEF Init, PlaceOf, Blocked
  <2> QED
    BY <1>3, <2>1, EmptyOnce, FS_EmptySet DEF Init, QueueInv
<1>5. SlotInv
  <2>1. \A r \in Requests : SlotOf(r) /\ NamedOf(r)
    BY <1>1, EmptyOnce DEF Init, SlotOf, NamedOf, Blocked
  <2>2. Len(running) + num_waiting_for_streaming_input <= MaxActive
    BY ConstantsOK, EmptySeq DEF Init
  <2> QED
    BY <2>1, <2>2, EmptyOnce DEF Init, SlotInv
<1> QED
  BY <1>2, <1>4, <1>5 DEF SessionInv

\* Every step keeps it.
LEMMA SessionsStep == SessionInv /\ [Next]_vars => SessionInv'
<1> SUFFICES ASSUME SessionInv, [Next]_vars PROVE SessionInv'
  OBVIOUS
<1>1. ASSUME NEW r \in Requests, UpdateRequest(r) PROVE SessionInv'
  BY <1>1, SkipKeeps, GoOnKeeps, StopForGoodKeeps, StopAndResumeKeeps, StopAndWaitKeeps
  DEF UpdateRequest
<1>2. CASE Next
  BY <1>1, <1>2, ClientKeeps, PassOverKeeps, AdmitKeeps, ScheduleKeeps, EndScheduleKeeps
  DEF Next
<1>3. CASE UNCHANGED vars
  BY <1>3 DEF vars, queueVars, tellVars, workVars, clientVars, SessionInv, TypesOK, IsRequest,
       QueueInv, PlaceOf, BlockedSet, OfStatus, SlotInv, SlotOf, NamedOf
<1> QED
  BY <1>2, <1>3

\* It holds in every reachable state.
LEMMA SessionsHold == Spec => []SessionInv
BY SessionsStart, SessionsStep, PTL DEF Spec

\* No session is lost or queued twice, the counter that get_num_unfinished_requests
\* subtracts is the number of sessions that wait for input, and a session only waits when
\* no chunk of it is queued: whatever the client sends, ends or aborts between steps and
\* while one is on the worker, and whatever is preempted.
THEOREM SessionsStayQueued == Spec => []SessionsQueued
<1>1. SessionInv => SessionsQueued
  <2> SUFFICES ASSUME SessionInv PROVE SessionsQueued
    OBVIOUS
  <2>1. num_waiting_for_streaming_input = Cardinality(OfStatus({Blocked}))
    BY DEF SessionInv, QueueInv, BlockedSet
  <2>2. ASSUME NEW r \in Requests
        PROVE  LET at == Places(r) IN
               /\ at[1] + at[2] + at[3] + at[4] = IF Live(r) THEN 1 ELSE 0
               /\ at[1] = 1 <=> req[r].status = "RUNNING"
               /\ req[r].status = Blocked => at[2] = 0 /\ req[r].streaming_queue = <<>>
    <3> DEFINE at == Places(r)
    <3>1. /\ at[1] = Cardinality({i \in DOMAIN running : running[i] = r})
          /\ at[2] = Cardinality({i \in DOMAIN waiting : waiting[i] = r})
          /\ at[3] = Cardinality({i \in DOMAIN skipped_waiting : skipped_waiting[i] = r})
          /\ at[4] = Cardinality({i \in DOMAIN step_skipped_waiting :
                                    step_skipped_waiting[i] = r})
      <4>1. PICK four : four = <<running, waiting, skipped_waiting, step_skipped_waiting>>
        OBVIOUS
      <4>2. /\ four[1] = running /\ four[2] = waiting /\ four[3] = skipped_waiting
            /\ four[4] = step_skipped_waiting
        BY <4>1
      <4>3. at = [s \in 1..4 |-> Cardinality({i \in DOMAIN four[s] : four[s][i] = r})]
        BY <4>1 DEF Places
      <4>4. \A s \in 1..4 : at[s] = Cardinality({i \in DOMAIN four[s] : four[s][i] = r})
        BY <4>3
      <4> HIDE DEF at
      <4> QED
        BY <4>2, <4>4
    <3>2. /\ at[1] = IF Contains(running, r) THEN 1 ELSE 0
          /\ at[2] = IF Contains(waiting, r) THEN 1 ELSE 0
          /\ at[3] = IF Contains(skipped_waiting, r) THEN 1 ELSE 0
          /\ at[4] = IF Contains(step_skipped_waiting, r) THEN 1 ELSE 0
      BY <3>1, OccurrencesOnce DEF SessionInv, TypesOK, QueueInv
    <3> HIDE DEF at
    <3>3. PlaceOf(r) /\ req[r].status \in Statuses
      BY DEF SessionInv, QueueInv, TypesOK, IsRequest
    <3>4. at[1] + at[2] + at[3] + at[4] = IF Live(r) THEN 1 ELSE 0
      BY <3>2, <3>3 DEF PlaceOf, Live, Statuses, Blocked
    <3>5. at[1] = 1 <=> req[r].status = "RUNNING"
      BY <3>2, <3>3 DEF PlaceOf
    <3>6. req[r].status = Blocked => at[2] = 0 /\ req[r].streaming_queue = <<>>
      BY <3>2, <3>3 DEF PlaceOf
    <3> QED
      BY <3>4, <3>5, <3>6 DEF at
  <2> QED
    BY <2>1, <2>2 DEF SessionsQueued
<1> QED
  BY <1>1, SessionsHold, PTL

\* Admission counts what it means to: the requests that run and the sessions that wait
\* for input never exceed max_num_active_reqs, all hold their slots on the worker once a
\* step is under way, and a slot that is neither's is about to be freed or is that of a
\* session that goes on.
THEOREM SlotsStayAccounted == Spec => []SlotsAccounted
<1>1. SessionInv => SlotsAccounted
  <2> SUFFICES ASSUME SessionInv PROVE SlotsAccounted
    OBVIOUS
  <2>1. TypesOK /\ QueueInv /\ SlotInv
    BY DEF SessionInv
  <2> DEFINE R == OfStatus({"RUNNING"})
             B == OfStatus({Blocked})
             A == OfStatus({"RUNNING", Blocked})
  <2>2. \A x : x \in R <=> Contains(running, x)
    <3>1. \A x : Contains(running, x) => x \in Requests
      BY <2>1, ElementOfSeq DEF TypesOK, Contains
    <3> QED
      BY <2>1, <3>1 DEF OfStatus, QueueInv, PlaceOf
  <2>3. A = R \cup B /\ R \cap B = {}
    BY DEF OfStatus, Blocked
  <2>4. IsFiniteSet(B) /\ num_waiting_for_streaming_input = Cardinality(B)
    BY <2>1 DEF QueueInv, BlockedSet
  <2> HIDE DEF R, B, A
  <2>5. IsFiniteSet(R) /\ Cardinality(R) = Len(running)
    BY <2>1, <2>2, SizeOfQueue DEF TypesOK, QueueInv
  <2>6. Cardinality(A) <= MaxActive
    <3>1. Cardinality(A) = Cardinality(R) + Cardinality(B) - Cardinality(R \cap B)
      BY <2>3, <2>4, <2>5, FS_Union
    <3>2. Cardinality(R \cap B) = 0
      BY <2>3, FS_EmptySet
    <3>3. Cardinality(R) \in Nat /\ Cardinality(B) \in Nat
      BY <2>4, <2>5, FS_CardinalityType
    <3> QED
      BY <2>1, <2>4, <2>5, <3>1, <3>2, <3>3 DEF SlotInv
  <2>7. pc # "admit" => A \subseteq slots
    BY <2>1 DEF A, OfStatus, SlotInv, SlotOf
  <2>8. \A r \in slots \ A :
          \/ r \in finished_req_ids \cup preempted_req_ids
          \/ req[r].status = "WAITING" /\ req[r].num_computed_tokens > 0
    BY <2>1 DEF A, OfStatus, SlotInv, SlotOf
  <2> QED
    BY <2>6, <2>7, <2>8 DEF SlotsAccounted, A
<1> QED
  BY <1>1, SessionsHold, PTL

-----------------------------------------------------------------------------
(* The media of a block *)

\* A non-empty set of numbers has a least one.
LEMMA LeastNumber ==
  ASSUME NEW T \in SUBSET Nat, T # {}
  PROVE  \E x \in T : \A y \in T : x <= y
<1>1. PICK x \in T : \A y \in T : ~(<<y, x>> \in OpToRel(<, Nat))
  BY NatLessThanWellFounded, WFMin
<1>2. ASSUME NEW y \in T, y < x PROVE <<y, x>> \in OpToRel(<, Nat)
  <2>1. <<y, x>> \in Nat \X Nat /\ <<y, x>>[1] = y /\ <<y, x>>[2] = x
    OBVIOUS
  <2> QED
    BY <1>2, <2>1, Zenon DEF OpToRel
<1>3. ASSUME NEW y \in T PROVE x <= y
  <2>1. ~(y < x)
    BY <1>1, <1>2, Zenon
  <2> QED
    BY <2>1
<1> QED
  BY <1>3

\* One item after the other.
Lined(M) ==
  /\ Len(M) \in Nat /\ DOMAIN M = 1..Len(M)
  /\ \A i \in 1..Len(M) : /\ M[i].offset \in Nat /\ EndOf(M[i]) \in Nat
                          /\ M[i].offset < EndOf(M[i])
  /\ \A i, j \in 1..Len(M) : i < j => EndOf(M[i]) <= M[j].offset

\* An item has a part in a stretch of positions.
Meets(item, s, e) == item.offset < e /\ s < EndOf(item)

\* The keys of the items a to b.
KeysOf(M, s, a, b) == [j \in 1..(b - a + 1) |-> <<M[a + j - 1].id, M[a + j - 1].offset - s>>]

\* What the walk from item i has to find: the items from i on that meet the stretch, and an
\* item before which, from i on, all have ended.
Walked(M, s, e, i, w) ==
  /\ \E a, b \in Int :
       /\ i <= a /\ a <= b + 1 /\ b <= Len(M)
       /\ w.keys = KeysOf(M, s, a, b)
       /\ \A j \in i..Len(M) : a <= j /\ j <= b <=> Meets(M[j], s, e)
  /\ w.next \in i..(Len(M) + 1)
  /\ \A j \in i..Len(M) : j < w.next => EndOf(M[j]) <= e

\* One round of the walk.
WalkStep(M, s, e, g, i) ==
  IF i > Len(M) \/ e <= M[i].offset
  THEN [keys |-> <<>>, next |-> i]
  ELSE IF s >= EndOf(M[i]) THEN g[i + 1]
  ELSE LET key == <<M[i].id, M[i].offset - s>>
           rest == IF e >= EndOf(M[i]) THEN g[i + 1] ELSE [keys |-> <<>>, next |-> i]
       IN  [keys |-> <<key>> \o rest.keys, next |-> rest.next]

\* A solution of the recursion, for n items.
IsWalk(M, n, s, e, g) == g = [i \in 1..(n + 1) |-> WalkStep(M, s, e, g, i)]

\* The recursion has a solution.
LEMMA WalkExists ==
  ASSUME NEW M, NEW n \in Nat, n = Len(M), NEW s, NEW e
  PROVE  \E g : IsWalk(M, n, s, e, g)
<1> DEFINE Upto(m, g) == \A i \in 1..(n + 1) : n + 1 - i <= m => g[i] = WalkStep(M, s, e, g, i)
           Next1(g) == [i \in 1..(n + 1) |-> WalkStep(M, s, e, g, i)]
           Missing == {m \in Nat : ~\E g : Upto(m, g)}
<1>0. ASSUME NEW i \in 1..(n + 1), NEW g, NEW h, i <= n => g[i + 1] = h[i + 1]
      PROVE  WalkStep(M, s, e, g, i) = WalkStep(M, s, e, h, i)
  <2>1. CASE i > n
    BY <2>1 DEF WalkStep
  <2>2. CASE i <= n
    <3>1. g[i + 1] = h[i + 1]
      BY <1>0, <2>2
    <3> QED
      BY <3>1 DEF WalkStep
  <2> QED
    BY <2>1, <2>2
<1>1. ASSUME NEW m \in Nat, NEW g, m = 0 \/ Upto(m - 1, g) PROVE Upto(m, Next1(g))
  <2> SUFFICES ASSUME NEW i \in 1..(n + 1), n + 1 - i <= m
               PROVE Next1(g)[i] = WalkStep(M, s, e, Next1(g), i)
    OBVIOUS
  <2>1. ASSUME i <= n PROVE g[i + 1] = Next1(g)[i + 1]
    <3>1. i + 1 \in 1..(n + 1) /\ n + 1 - (i + 1) <= m - 1 /\ m # 0
      BY <2>1
    <3>2. g[i + 1] = WalkStep(M, s, e, g, i + 1)
      BY <1>1, <3>1
    <3> QED
      BY <3>1, <3>2
  <2>2. Next1(g)[i] = WalkStep(M, s, e, g, i)
    OBVIOUS
  <2> HIDE DEF Next1
  <2> QED
    BY <1>0, <2>1, <2>2
<1> HIDE DEF Next1
<1>2. Missing = {}
  <2> SUFFICES ASSUME Missing # {} PROVE FALSE
    OBVIOUS
  <2>1. Missing \subseteq Nat
    OBVIOUS
  <2>2. PICK m \in Missing : \A i \in Missing : m <= i
    BY <2>1, LeastNumber
  <2> HIDE DEF Upto
  <2>3. m \in Nat /\ ~\E g : Upto(m, g)
    BY <2>2
  <2>4. m # 0
    <3>1. m = 0 => Upto(m, Next1(M))
      BY <1>1, <2>3
    <3> QED
      BY <2>3, <3>1
  <2>5. m - 1 \in Nat /\ ~(m <= m - 1)
    BY <2>3, <2>4
  <2>6. m - 1 \notin Missing
    BY <2>2, <2>5
  <2>7. PICK g : Upto(m - 1, g)
    BY <2>5, <2>6
  <2>8. Upto(m, Next1(g))
    BY <1>1, <2>3, <2>7
  <2> QED
    BY <2>3, <2>8
<1>3. PICK g : Upto(n, g)
  BY <1>2
<1>4. \A i \in 1..(n + 1) : g[i] = WalkStep(M, s, e, g, i)
  BY <1>3
<1>5. PICK h : h = Next1(g)
  OBVIOUS
<1>6. h = [i \in 1..(n + 1) |-> WalkStep(M, s, e, g, i)]
  BY <1>5 DEF Next1
<1>7. \A i \in 1..(n + 1) : h[i] = g[i]
  BY <1>4, <1>6
<1>8. \A i \in 1..(n + 1) : WalkStep(M, s, e, h, i) = WalkStep(M, s, e, g, i)
  BY <1>0, <1>7
<1>9. h = [i \in 1..(n + 1) |-> WalkStep(M, s, e, h, i)]
  BY <1>6, <1>8
<1> QED
  BY <1>9 DEF IsWalk

\* Keys of a stretch of items, the first taken off.
LEMMA KeysBegin ==
  ASSUME NEW M, NEW s, NEW a \in Int, NEW b \in Int, a <= b
  PROVE  KeysOf(M, s, a, b) = <<<<M[a].id, M[a].offset - s>>>> \o KeysOf(M, s, a + 1, b)
<1>1. PICK p, q, r : /\ p = <<<<M[a].id, M[a].offset - s>>>>
                     /\ q = KeysOf(M, s, a + 1, b) /\ r = KeysOf(M, s, a, b)
  OBVIOUS
<1>2. /\ q = [j \in 1..(b - a) |-> <<M[a + j].id, M[a + j].offset - s>>]
      /\ r = [j \in 1..(b - a + 1) |-> <<M[a + j - 1].id, M[a + j - 1].offset - s>>]
  <2>1. b - (a + 1) + 1 = b - a /\ \A j \in Int : a + 1 + j - 1 = a + j
    OBVIOUS
  <2> QED
    BY <1>1, <2>1 DEF KeysOf
<1>3. PICK n \in Nat : n = b - a
  OBVIOUS
<1>4. Len(q) = n /\ Len(p) = 1 /\ DOMAIN q = 1..n /\ DOMAIN p = 1..1
  BY <1>1, <1>2, <1>3
<1>5. p \o q = [j \in 1..(n + 1) |-> IF j <= 1 THEN p[j] ELSE q[j - 1]]
  <2>1. PICK S : S = {p[1]} \cup {q[j] : j \in 1..n}
    OBVIOUS
  <2>2. p \in Seq(S)
    BY <1>1, <2>1
  <2>3. q \in Seq(S)
    <3>1. q \in [1..n -> S]
      BY <1>2, <1>3, <2>1
    <3> QED
      BY <3>1, SeqDef
  <2>4. /\ p \o q \in Seq(S) /\ Len(p \o q) = n + 1
        /\ \A j \in 1..(n + 1) : (p \o q)[j] = IF j <= 1 THEN p[j] ELSE q[j - 1]
    <3>1. /\ p \o q \in Seq(S) /\ Len(p \o q) = Len(p) + Len(q)
          /\ \A j \in 1..(Len(p) + Len(q)) :
               (p \o q)[j] = IF j <= Len(p) THEN p[j] ELSE q[j - Len(p)]
      BY <2>2, <2>3, ConcatProperties, Zenon
    <3>2. Len(p) + Len(q) = n + 1
      BY <1>3, <1>4
    <3> QED
      BY <1>4, <3>1, <3>2
  <2>5. PICK f : f = p \o q
    OBVIOUS
  <2>6. f = [j \in 1..(n + 1) |-> f[j]]
    BY <2>4, <2>5, SeqDef, LenProperties
  <2> QED
    BY <2>4, <2>5, <2>6
<1>6. \A j \in 1..(n + 1) : r[j] = IF j <= 1 THEN p[j] ELSE q[j - 1]
  <2> TAKE j \in 1..(n + 1)
  <2>1. CASE j = 1
    <3>1. r[1] = <<M[a].id, M[a].offset - s>>
      <4>1. a + 1 - 1 = a /\ 1 \in 1..(b - a + 1)
        BY <1>3
      <4> QED
        BY <1>2, <4>1
    <3> QED
      BY <1>1, <2>1, <3>1
  <2>2. CASE j # 1
    <3>1. j - 1 \in 1..(b - a) /\ a + (j - 1) = a + j - 1 /\ j \in 1..(b - a + 1)
      BY <1>3, <2>2
    <3> QED
      BY <1>2, <2>2, <3>1
  <2> QED
    BY <2>1, <2>2
<1>7. r = [j \in 1..(n + 1) |-> r[j]]
  BY <1>2, <1>3
<1>8. r = p \o q
  BY <1>5, <1>6, <1>7
<1> QED
  BY <1>1, <1>8

\* A walk that stops at once has found nothing, or what it stands on.
LEMMA WalkStops ==
  ASSUME NEW M, Lined(M), NEW s \in Nat, NEW e \in Nat, s < e,
         NEW i \in 1..(Len(M) + 1), i <= Len(M) => e <= M[i].offset
  PROVE  Walked(M, s, e, i, [keys |-> <<>>, next |-> i])
<1>1. PICK n \in Nat : n = Len(M)
  BY DEF Lined
<1>2. \A j \in i..n : ~Meets(M[j], s, e)
  <2> TAKE j \in i..n
  <2>1. e <= M[i].offset /\ i \in 1..n /\ j \in 1..n
    BY <1>1
  <2>2. M[i].offset <= M[j].offset
    <3>1. CASE i = j
      <4>1. M[i].offset \in Nat
        BY <1>1, <2>1 DEF Lined
      <4> QED
        BY <3>1, <4>1
    <3>2. CASE i < j
      BY <1>1, <2>1, <3>2 DEF Lined
    <3> QED
      BY <3>1, <3>2
  <2>3. M[i].offset \in Nat /\ M[j].offset \in Nat
    BY <1>1, <2>1 DEF Lined
  <2> QED
    BY <2>1, <2>2, <2>3 DEF Meets
<1>3. KeysOf(M, s, i, i - 1) = <<>>
  <2>1. (i - 1) - i + 1 = 0 /\ 1..0 = {}
    OBVIOUS
  <2>2. KeysOf(M, s, i, i - 1) = [j \in 1..0 |-> <<M[i + j - 1].id, M[i + j - 1].offset - s>>]
    BY <2>1 DEF KeysOf
  <2> QED
    BY <2>1, <2>2
<1>4. PICK w : w = [keys |-> <<>>, next |-> i]
  OBVIOUS
<1>5. w.keys = <<>> /\ w.next = i
  BY <1>4
<1>6. \E a, b \in Int :
       /\ i <= a /\ a <= b + 1 /\ b <= n
       /\ w.keys = KeysOf(M, s, a, b)
       /\ \A j \in i..n : a <= j /\ j <= b <=> Meets(M[j], s, e)
  <2>1. PICK a, b \in Int : a = i /\ b = i - 1
    OBVIOUS
  <2>2. w.keys = KeysOf(M, s, a, b)
    BY <1>3, <1>5, <2>1
  <2>3. \A j \in i..n : ~(a <= j /\ j <= b)
    BY <2>1
  <2> QED
    BY <1>1, <1>2, <2>1, <2>2, <2>3
<1>7. i \in i..(n + 1) /\ \A j \in i..n : ~(j < i)
  BY <1>1
<1> QED
  BY <1>1, <1>4, <1>5, <1>6, <1>7 DEF Walked

\* A walk that goes on to the next item.
LEMMA WalkPasses ==
  ASSUME NEW M, Lined(M), NEW s \in Nat, NEW e \in Nat, s < e,
         NEW i \in 1..Len(M), EndOf(M[i]) <= s, NEW w, Walked(M, s, e, i + 1, w)
  PROVE  Walked(M, s, e, i, w)
<1>1. PICK n \in Nat : n = Len(M) /\ i \in 1..n
  BY DEF Lined
<1>2. EndOf(M[i]) \in Nat
  BY <1>1 DEF Lined
<1>3. PICK a, b \in Int :
       /\ i + 1 <= a /\ a <= b + 1 /\ b <= n
       /\ w.keys = KeysOf(M, s, a, b)
       /\ \A j \in (i + 1)..n : a <= j /\ j <= b <=> Meets(M[j], s, e)
  BY <1>1 DEF Walked
<1>4. \A j \in i..n : j = i \/ j \in (i + 1)..n
  OBVIOUS
<1>5. ~Meets(M[i], s, e) /\ EndOf(M[i]) <= e
  BY <1>2 DEF Meets
<1>6. \A j \in i..n : a <= j /\ j <= b <=> Meets(M[j], s, e)
  BY <1>3, <1>4, <1>5
<1>7. w.next \in (i + 1)..(n + 1) /\ \A j \in (i + 1)..n : j < w.next => EndOf(M[j]) <= e
  BY <1>1 DEF Walked
<1>8. \A j \in i..n : j < w.next => EndOf(M[j]) <= e
  BY <1>4, <1>5, <1>7
<1>9. w.next \in i..(n + 1) /\ i <= a
  BY <1>3, <1>7
<1> QED
  BY <1>1, <1>3, <1>6, <1>8, <1>9 DEF Walked

\* A walk that takes the item it stands on, and the rest.
LEMMA WalkTakes ==
  ASSUME NEW M, Lined(M), NEW s \in Nat, NEW e \in Nat, s < e,
         NEW i \in 1..Len(M), Meets(M[i], s, e),
         NEW rest, IF e >= EndOf(M[i]) THEN Walked(M, s, e, i + 1, rest)
                   ELSE rest = [keys |-> <<>>, next |-> i],
         NEW w, w = [keys |-> <<<<M[i].id, M[i].offset - s>>>> \o rest.keys, next |-> rest.next]
  PROVE  Walked(M, s, e, i, w)
<1>1. PICK n \in Nat : n = Len(M) /\ i \in 1..n
  BY DEF Lined
<1>2. /\ EndOf(M[i]) \in Nat /\ M[i].offset \in Nat /\ M[i].offset < e /\ s < EndOf(M[i])
      /\ \A j \in (i + 1)..n : /\ EndOf(M[i]) <= M[j].offset /\ M[j].offset \in Nat
                               /\ M[j].offset < EndOf(M[j]) /\ EndOf(M[j]) \in Nat
  BY <1>1 DEF Lined, Meets
<1>3. \A j \in i..n : j = i \/ j \in (i + 1)..n
  OBVIOUS
<1>4. w.keys = <<<<M[i].id, M[i].offset - s>>>> \o rest.keys /\ w.next = rest.next
  OBVIOUS
<1>5. CASE e >= EndOf(M[i])
  <2>1. PICK a, b \in Int :
         /\ i + 1 <= a /\ a <= b + 1 /\ b <= n
         /\ rest.keys = KeysOf(M, s, a, b)
         /\ \A j \in (i + 1)..n : a <= j /\ j <= b <=> Meets(M[j], s, e)
    BY <1>1, <1>5 DEF Walked
  <2>2. PICK c \in Int : c = IF a <= b THEN b ELSE i
    BY <1>1, <2>1
  <2>3. a <= b => a = i + 1
    <3> SUFFICES ASSUME a <= b, i + 1 < a PROVE FALSE
      BY <2>1
    <3>1. a \in (i + 1)..n /\ i + 1 \in (i + 1)..n /\ i + 1 \in 1..n /\ a \in 1..n
      BY <1>1, <2>1
    <3>2. M[a].offset < e
      BY <2>1, <3>1 DEF Meets
    <3>3. EndOf(M[i + 1]) <= M[a].offset
      BY <1>1, <3>1 DEF Lined
    <3>4. /\ EndOf(M[i]) <= M[i + 1].offset /\ M[i + 1].offset \in Nat
          /\ M[i + 1].offset < EndOf(M[i + 1]) /\ EndOf(M[i + 1]) \in Nat
      BY <1>2, <3>1
    <3>5. M[a].offset \in Nat
      BY <1>2, <3>1
    <3>6. M[i + 1].offset < e /\ s < EndOf(M[i + 1])
      BY <1>2, <3>2, <3>3, <3>4, <3>5
    <3>7. Meets(M[i + 1], s, e)
      BY <3>6 DEF Meets
    <3> QED
      BY <2>1, <3>1, <3>7
  <2>4. \A j \in i..n : i <= j /\ j <= c <=> Meets(M[j], s, e)
    <3> TAKE j \in i..n
    <3>1. CASE j = i
      <4>1. i <= c
        BY <1>1, <2>1, <2>2
      <4> QED
        BY <3>1, <4>1
    <3>2. CASE j \in (i + 1)..n
      <4>1. a <= j /\ j <= b <=> j <= c
        BY <2>1, <2>2, <2>3, <3>2
      <4> QED
        BY <2>1, <3>2, <4>1
    <3> QED
      BY <1>3, <3>1, <3>2
  <2>5. w.keys = KeysOf(M, s, i, c)
    <3>1. rest.keys = KeysOf(M, s, i + 1, c)
      <4>1. CASE a <= b
        BY <2>1, <2>2, <2>3, <4>1
      <4>2. CASE ~(a <= b)
        <5>1. b - a + 1 = 0 /\ c - (i + 1) + 1 = 0 /\ 1..0 = {}
          BY <2>1, <2>2, <4>2
        <5>2. KeysOf(M, s, a, b) = <<>> /\ KeysOf(M, s, i + 1, c) = <<>>
          BY <5>1 DEF KeysOf
        <5> QED
          BY <2>1, <5>2
      <4> QED
        BY <4>1, <4>2
    <3>2. i <= c /\ i \in Int /\ c \in Int
      BY <1>1, <2>1, <2>2
    <3>3. KeysOf(M, s, i, c) = <<<<M[i].id, M[i].offset - s>>>> \o KeysOf(M, s, i + 1, c)
      BY <3>2, KeysBegin, Zenon
    <3> QED
      BY <1>4, <3>1, <3>3, Zenon
  <2>6. rest.next \in (i + 1)..(n + 1) /\ \A j \in (i + 1)..n : j < rest.next => EndOf(M[j]) <= e
    BY <1>1, <1>5 DEF Walked
  <2>7. w.next \in i..(n + 1) /\ \A j \in i..n : j < w.next => EndOf(M[j]) <= e
    BY <1>3, <1>4, <1>5, <2>6
  <2>8. i <= i /\ i <= c + 1 /\ c <= n /\ i \in Int
    BY <1>1, <2>1, <2>2
  <2> QED
    BY <1>1, <2>4, <2>5, <2>7, <2>8 DEF Walked
<1>6. CASE ~(e >= EndOf(M[i]))
  <2>1. rest.keys = <<>> /\ rest.next = i
    BY <1>6
  <2>2. \A j \in i..n : i <= j /\ j <= i <=> Meets(M[j], s, e)
    BY <1>2, <1>3, <1>6 DEF Meets
  <2>3. w.keys = KeysOf(M, s, i, i)
    <3>1. i - (i + 1) + 1 = 0 /\ 1..0 = {}
      OBVIOUS
    <3>2. KeysOf(M, s, i + 1, i) = <<>>
      BY <3>1 DEF KeysOf
    <3>3. i \in Int /\ i <= i
      BY <1>1
    <3>4. KeysOf(M, s, i, i) = <<<<M[i].id, M[i].offset - s>>>> \o KeysOf(M, s, i + 1, i)
      BY <3>3, KeysBegin
    <3> QED
      BY <1>4, <2>1, <3>2, <3>4, Zenon
  <2>4. w.next \in i..(n + 1) /\ \A j \in i..n : ~(j < w.next)
    BY <1>1, <1>4, <2>1
  <2>5. i <= i /\ i <= i + 1 /\ i <= n /\ i \in Int
    BY <1>1
  <2> QED
    BY <1>1, <2>2, <2>3, <2>4, <2>5 DEF Walked
<1> QED
  BY <1>5, <1>6

\* So the walk finds what it has to, from wherever it begins.
LEMMA WalkFinds ==
  ASSUME NEW M, Lined(M), NEW s \in Nat, NEW e \in Nat, s < e, NEW n, n = Len(M),
         NEW g, g = [i \in 1..(n + 1) |-> WalkStep(M, s, e, g, i)]
  PROVE  \A i \in 1..(n + 1) : Walked(M, s, e, i, g[i])
<1> DEFINE Bad == {m \in Nat : \E i \in 1..(n + 1) : m = n + 1 - i /\ ~Walked(M, s, e, i, g[i])}
<1>0. n \in Nat
  BY DEF Lined
<1> SUFFICES ASSUME Bad # {} PROVE FALSE
  <2>1. \A i \in 1..(n + 1) : n + 1 - i \in Nat
    BY <1>0
  <2> QED
    BY <2>1
<1>1. Bad \subseteq Nat
  OBVIOUS
<1>2. PICK m \in Bad : \A x \in Bad : m <= x
  BY <1>1, LeastNumber
<1>3. PICK i \in 1..(n + 1) : m = n + 1 - i /\ ~Walked(M, s, e, i, g[i])
  BY <1>2
<1>4. i + 1 \in 1..(n + 1) => Walked(M, s, e, i + 1, g[i + 1])
  <2> SUFFICES ASSUME i + 1 \in 1..(n + 1), ~Walked(M, s, e, i + 1, g[i + 1]) PROVE FALSE
    OBVIOUS
  <2>1. n + 1 - (i + 1) \in Nat /\ ~(m <= n + 1 - (i + 1))
    BY <1>0, <1>3
  <2>2. n + 1 - (i + 1) \in Bad
    BY <2>1
  <2> QED
    BY <1>2, <2>1, <2>2
<1> HIDE DEF Bad
<1>5. g[i] = WalkStep(M, s, e, g, i)
  OBVIOUS
<1>6. CASE i > n \/ e <= M[i].offset
  <2>1. g[i] = [keys |-> <<>>, next |-> i]
    BY <1>5, <1>6 DEF WalkStep
  <2>2. i \in 1..(Len(M) + 1) /\ (i <= Len(M) => e <= M[i].offset)
    BY <1>0, <1>6
  <2> QED
    BY <1>3, <2>1, <2>2, WalkStops
<1>7. CASE ~(i > n \/ e <= M[i].offset) /\ s >= EndOf(M[i])
  <2>1. i \in 1..Len(M) /\ i + 1 \in 1..(n + 1) /\ EndOf(M[i]) <= s
    <3>1. i \in 1..Len(M) /\ i + 1 \in 1..(n + 1)
      BY <1>0, <1>7
    <3>2. EndOf(M[i]) \in Nat
      BY <3>1 DEF Lined
    <3> QED
      BY <1>7, <3>1, <3>2
  <2>2. g[i] = g[i + 1]
    BY <1>5, <1>7 DEF WalkStep
  <2> QED
    BY <1>3, <1>4, <2>1, <2>2, WalkPasses
<1>8. CASE ~(i > n \/ e <= M[i].offset) /\ ~(s >= EndOf(M[i]))
  <2>1. PICK rest : rest = IF e >= EndOf(M[i]) THEN g[i + 1] ELSE [keys |-> <<>>, next |-> i]
    OBVIOUS
  <2>2. i \in 1..Len(M) /\ i + 1 \in 1..(n + 1)
    BY <1>0, <1>8
  <2>3. Meets(M[i], s, e)
    <3>1. EndOf(M[i]) \in Nat /\ M[i].offset \in Nat
      BY <2>2 DEF Lined
    <3> QED
      BY <1>8, <3>1 DEF Meets
  <2>4. g[i] = [keys |-> <<<<M[i].id, M[i].offset - s>>>> \o rest.keys, next |-> rest.next]
    BY <1>5, <1>8, <2>1 DEF WalkStep
  <2>5. IF e >= EndOf(M[i]) THEN Walked(M, s, e, i + 1, rest)
        ELSE rest = [keys |-> <<>>, next |-> i]
    BY <1>4, <2>1, <2>2
  <2> QED
    BY <1>3, <2>2, <2>3, <2>4, <2>5, WalkTakes
<1> QED
  BY <1>6, <1>7, <1>8

\* What the keys of a block have to be: those of the items that meet it, in order.
Listed(M, s, e, q) ==
  \E a, b \in Int :
    /\ 1 <= a /\ a <= b + 1 /\ b <= Len(M)
    /\ q = KeysOf(M, s, a, b)
    /\ \A j \in 1..Len(M) : a <= j /\ j <= b <=> Meets(M[j], s, e)

\* Where the walk may begin: all items before have ended.
Started(M, x, s) ==
  M # <<>> => /\ FirstItem(M, x) \in 1..(Len(M) + 1)
              /\ \A j \in 1..Len(M) : j < FirstItem(M, x) => EndOf(M[j]) <= s

\* _gen_mm_extra_hash_keys returns them, and where the next block may begin.
LEMMA KeysFound ==
  ASSUME NEW M, Lined(M), NEW s \in Nat, NEW e \in Nat, s < e, NEW x, Started(M, x, s)
  PROVE  /\ Listed(M, s, e, MediaKeys(M, s, e, x).keys)
         /\ Started(M, MediaKeys(M, s, e, x).next, e)
<1>1. PICK n \in Nat : n = Len(M) /\ DOMAIN M = 1..n
  BY DEF Lined
<1>2. PICK w : w = MediaKeys(M, s, e, x)
  OBVIOUS
<1>3. CASE M = <<>> \/ EndOf(M[Len(M)]) <= s
  <2>1. w = [keys |-> <<>>, next |-> x]
    BY <1>2, <1>3 DEF MediaKeys
  <2>2. \A j \in 1..n : EndOf(M[j]) <= s
    <3> TAKE j \in 1..n
    <3>1. n \in 1..n /\ EndOf(M[n]) <= s
      BY <1>1, <1>3
    <3>2. EndOf(M[n]) \in Nat /\ EndOf(M[j]) \in Nat /\ M[n].offset \in Nat
          /\ M[n].offset < EndOf(M[n])
      BY <1>1, <3>1 DEF Lined
    <3>3. CASE j = n
      BY <3>1, <3>3
    <3>4. CASE j < n
      <4>1. EndOf(M[j]) <= M[n].offset
        BY <1>1, <3>1, <3>4 DEF Lined
      <4> QED
        BY <3>1, <3>2, <4>1
    <3> QED
      BY <3>3, <3>4
  <2>3. \A j \in 1..n : ~Meets(M[j], s, e) /\ EndOf(M[j]) <= e
    <3> TAKE j \in 1..n
    <3>1. EndOf(M[j]) \in Nat
      BY <1>1 DEF Lined
    <3> QED
      BY <2>2, <3>1 DEF Meets
  <2>4. Listed(M, s, e, w.keys)
    <3>1. PICK a, b \in Int : a = 1 /\ b = 0
      OBVIOUS
    <3>2. b - a + 1 = 0 /\ 1..0 = {}
      BY <3>1
    <3>3. KeysOf(M, s, a, b) = <<>>
      BY <3>2 DEF KeysOf
    <3>4. \A j \in 1..n : ~(a <= j /\ j <= b)
      BY <3>1
    <3> QED
      BY <1>1, <2>1, <2>3, <3>1, <3>3, <3>4 DEF Listed
  <2>5. Started(M, w.next, e)
    BY <1>1, <2>1, <2>3 DEF Started
  <2> QED
    BY <1>2, <2>4, <2>5
<1>4. CASE ~(M = <<>> \/ EndOf(M[Len(M)]) <= s)
  <2> DEFINE body(g) == [i \in 1..(Len(M) + 1) |->
           IF i > Len(M) \/ e <= M[i].offset
           THEN [keys |-> <<>>, next |-> i]
           ELSE IF s >= EndOf(M[i]) THEN g[i + 1]
           ELSE LET key == <<M[i].id, M[i].offset - s>>
                    rest == IF e >= EndOf(M[i]) THEN g[i + 1] ELSE [keys |-> <<>>, next |-> i]
                IN  [keys |-> <<key>> \o rest.keys, next |-> rest.next]]
  <2>1. PICK g : g = CHOOSE h : h = body(h)
    OBVIOUS
  <2>2. PICK f : f = FirstItem(M, x)
    OBVIOUS
  <2>3. w = g[f]
    BY <1>2, <1>4, <2>1, <2>2 DEF MediaKeys
  <2>4. PICK k : k = body(k)
    <3>0. \E k : IsWalk(M, n, s, e, k)
      BY <1>1, WalkExists, Zenon
    <3>1. PICK k : k = [i \in 1..(Len(M) + 1) |-> WalkStep(M, s, e, k, i)]
      BY <1>1, <3>0 DEF IsWalk
    <3>2. k = body(k)
      BY <3>1 DEF WalkStep
    <3> HIDE DEF body
    <3> QED
      BY <3>2
  <2> HIDE DEF body
  <2>5. g = body(g)
    BY <2>1, <2>4
  <2>6. g = [i \in 1..(Len(M) + 1) |-> WalkStep(M, s, e, g, i)]
    BY <2>5 DEF body, WalkStep
  <2>7. f \in 1..(n + 1) /\ \A j \in 1..n : j < f => EndOf(M[j]) <= s
    BY <1>1, <1>4, <2>2 DEF Started
  <2>8. Walked(M, s, e, f, w)
    BY <1>1, <2>3, <2>6, <2>7, WalkFinds
  <2>9. PICK a, b \in Int :
         /\ f <= a /\ a <= b + 1 /\ b <= n
         /\ w.keys = KeysOf(M, s, a, b)
         /\ \A j \in f..n : a <= j /\ j <= b <=> Meets(M[j], s, e)
    BY <1>1, <2>8 DEF Walked
  <2>10. \A j \in 1..n : j < f => ~Meets(M[j], s, e) /\ EndOf(M[j]) <= e
    <3> TAKE j \in 1..n
    <3>1. EndOf(M[j]) \in Nat
      BY <1>1 DEF Lined
    <3> QED
      BY <2>7, <3>1 DEF Meets
  <2>11. \A j \in 1..n : j < f \/ j \in f..n
    BY <2>7
  <2>12. Listed(M, s, e, w.keys)
    <3>1. \A j \in 1..n : a <= j /\ j <= b <=> Meets(M[j], s, e)
      <4> TAKE j \in 1..n
      <4>1. CASE j < f
        <5>1. ~(a <= j)
          BY <2>7, <2>9, <4>1
        <5> QED
          BY <2>10, <4>1, <5>1
      <4>2. CASE j \in f..n
        BY <2>9, <4>2
      <4> QED
        BY <2>11, <4>1, <4>2
    <3>2. 1 <= a
      BY <2>7, <2>9
    <3> QED
      BY <1>1, <2>9, <3>1, <3>2 DEF Listed
  <2>13. w.next \in f..(n + 1) /\ \A j \in f..n : j < w.next => EndOf(M[j]) <= e
    BY <1>1, <2>8 DEF Walked
  <2>14. FirstItem(M, w.next) = w.next
    BY <2>7, <2>13 DEF FirstItem
  <2>15. \A j \in 1..n : j < w.next => EndOf(M[j]) <= e
    BY <2>10, <2>11, <2>13
  <2>16. w.next \in 1..(n + 1)
    BY <2>7, <2>13
  <2>17. Started(M, w.next, e)
    BY <1>1, <2>14, <2>15, <2>16 DEF Started
  <2> QED
    BY <1>2, <2>12, <2>17
<1> QED
  BY <1>3, <1>4

-----------------------------------------------------------------------------
(* What a block holds *)

\* The item holds the position.
Covers(item, p) == item.offset < p /\ p <= EndOf(item)

\* Two items do not hold the same position.
LEMMA CoveredOnce ==
  ASSUME NEW M, Lined(M), NEW p \in Nat, NEW i \in 1..Len(M), NEW j \in 1..Len(M),
         Covers(M[i], p), Covers(M[j], p)
  PROVE  i = j
<1>1. ASSUME NEW x \in 1..Len(M), NEW y \in 1..Len(M), x < y, Covers(M[x], p), Covers(M[y], p)
      PROVE  FALSE
  <2>1. EndOf(M[x]) <= M[y].offset
    BY <1>1 DEF Lined
  <2>2. EndOf(M[x]) \in Nat /\ M[y].offset \in Nat
    BY <1>1 DEF Lined
  <2> QED
    BY <1>1, <2>1, <2>2 DEF Covers
<1>2. i \in Int /\ j \in Int
  BY DEF Lined
<1> QED
  BY <1>1, <1>2

\* What position p holds.
Holds(M, tokens, p, c) ==
  /\ c[1] = tokens[p]
  /\ \A i \in 1..Len(M) : Covers(M[i], p) => c[2] = M[i].id /\ c[3] = p - 1 - M[i].offset
  /\ (\A i \in 1..Len(M) : ~Covers(M[i], p)) => c[2] = NoItem /\ c[3] = 0

\* Content says so.
LEMMA ContentAt ==
  ASSUME NEW M, Lined(M), NEW tokens, NEW n \in Nat, n = Len(tokens), NEW p \in 1..n, NEW c,
         c = Content(tokens, M)[p]
  PROVE  Holds(M, tokens, p, c)
<1>1. PICK in : in = {i \in DOMAIN M : M[i].offset < p /\ p <= EndOf(M[i])}
  OBVIOUS
<1>2. \A i : i \in in <=> i \in 1..Len(M) /\ Covers(M[i], p)
  BY <1>1 DEF Covers, Lined
<1>3. CASE in = {}
  <2>1. c = <<tokens[p], NoItem, 0>>
    BY <1>1, <1>3 DEF Content
  <2> QED
    BY <1>2, <1>3, <2>1 DEF Holds
<1>4. CASE in # {}
  <2>1. PICK i : i = CHOOSE x \in in : TRUE
    OBVIOUS
  <2>2. i \in in
    BY <1>4, <2>1
  <2>3. c = <<tokens[p], M[i].id, p - 1 - M[i].offset>>
    BY <1>1, <1>4, <2>1 DEF Content
  <2>4. i \in 1..Len(M) /\ Covers(M[i], p)
    BY <1>2, <2>2
  <2>5. \A j \in 1..Len(M) : Covers(M[j], p) => j = i
    BY <2>4, CoveredOnce
  <2> QED
    BY <2>3, <2>4, <2>5 DEF Holds
<1> QED
  BY <1>3, <1>4

\* The elements up to one of them, counted, and the i-th element.
Rank(S, p) == Cardinality({q \in S : q <= p})
Nth(S, i) == CHOOSE p \in S : Rank(S, p) = i

\* S listed from the least to the greatest.
Rising(f, c, S) ==
  f \in [1..c -> Nat] /\ (\A i, j \in 1..c : i < j => f[i] < f[j]) /\ S = {f[i] : i \in 1..c}

\* A rising list enumerates its elements.
LEMMA Enumerated ==
  ASSUME NEW c \in Nat, NEW f, NEW S, Rising(f, c, S)
  PROVE  /\ Cardinality(S) = c
         /\ \A i \in 1..c : Nth(S, i) = f[i]
<1>0. /\ f \in [1..c -> Nat] /\ S = {f[i] : i \in 1..c}
      /\ \A i, j \in 1..c : i < j => f[i] < f[j]
  BY DEF Rising
<1>1. ASSUME NEW m \in 0..c PROVE Cardinality({f[i] : i \in 1..m}) = m
  <2>1. PICK g : g = [i \in 1..m |-> f[i]]
    OBVIOUS
  <2>2. PICK T : T = {f[i] : i \in 1..m}
    OBVIOUS
  <2>3. \A i, j \in 1..m : f[i] = f[j] => i = j
    <3> TAKE i, j \in 1..m
    <3>1. i \in 1..c /\ j \in 1..c /\ f[i] \in Nat /\ f[j] \in Nat
      BY <1>0
    <3>2. (i < j => f[i] < f[j]) /\ (j < i => f[j] < f[i])
      BY <1>0, <3>1
    <3> QED
      BY <3>1, <3>2
  <2>4. g \in Bijection(1..m, T)
    BY <1>0, <2>1, <2>2, <2>3 DEF Bijection, Injection, IsInjective, Surjection
  <2>5. IsFiniteSet(1..m) /\ Cardinality(1..m) = m
    <3>1. PICK k \in Nat : k = m
      OBVIOUS
    <3>2. IsFiniteSet(1..k) /\ Cardinality(1..k) = k
      BY FS_Interval
    <3> QED
      BY <3>1, <3>2
  <2> QED
    BY <2>2, <2>4, <2>5, FS_Bijection DEF ExistsBijection
<1>2. ASSUME NEW i \in 1..c PROVE Rank(S, f[i]) = i
  <2>1. \A j \in 1..c : f[j] <= f[i] <=> j <= i
    <3> TAKE j \in 1..c
    <3>1. f[i] \in Nat /\ f[j] \in Nat
      BY <1>0
    <3>2. (i < j => f[i] < f[j]) /\ (j < i => f[j] < f[i])
      BY <1>0
    <3> QED
      BY <3>1, <3>2
  <2>2. {q \in S : q <= f[i]} = {f[j] : j \in 1..i}
    <3>1. \A j : j \in 1..i <=> j \in 1..c /\ j <= i
      OBVIOUS
    <3>2. \A q : q \in S /\ q <= f[i] <=> \E j \in 1..c : q = f[j] /\ j <= i
      BY <1>0, <2>1
    <3> QED
      BY <3>1, <3>2
  <2>3. i \in 0..c
    OBVIOUS
  <2>4. Cardinality({f[j] : j \in 1..i}) = i
    BY <1>1, <2>3
  <2> QED
    BY <2>2, <2>4 DEF Rank
<1>3. Cardinality(S) = c
  <2>1. c \in 0..c
    OBVIOUS
  <2> QED
    BY <1>0, <1>1, <2>1
<1>4. ASSUME NEW i \in 1..c PROVE Nth(S, i) = f[i]
  <2>1. \A p \in S : Rank(S, p) = i => p = f[i]
    <3> SUFFICES ASSUME NEW j \in 1..c, Rank(S, f[j]) = i PROVE f[j] = f[i]
      BY <1>0
    <3>1. j = i
      BY <1>2
    <3> QED
      BY <3>1
  <2>2. f[i] \in S /\ Rank(S, f[i]) = i
    BY <1>0, <1>2
  <2> QED
    BY <2>1, <2>2 DEF Nth
<1> QED
  BY <1>3, <1>4

\* Where in its block an item begins, or would have.
StartIn(item, s) == IF item.offset < s THEN 1 ELSE item.offset - s + 1

\* The items a to b are those that have a part in [s, e).
Within(M, s, e, a, b) ==
  /\ 1 <= a /\ b <= Len(M)
  /\ \A j \in 1..Len(M) : a <= j /\ j <= b <=> Meets(M[j], s, e)

\* They begin at different places, one after the other, and nothing else begins.
Begun(M, C, s, size, a, b) ==
  /\ \A i \in a..b : /\ StartIn(M[i], s) \in 1..size
                     /\ C[s + StartIn(M[i], s)][2] = M[i].id
                     /\ C[s + StartIn(M[i], s)][3] = s + StartIn(M[i], s) - 1 - M[i].offset
  /\ \A i, j \in a..b : i < j => StartIn(M[i], s) < StartIn(M[j], s)
  /\ {p \in 1..size : C[s + p][2] # NoItem /\ (p = 1 \/ C[s + p][3] = 0)}
       = {StartIn(M[i], s) : i \in a..b}

\* The places where the items of a block begin.
LEMMA StartsOf ==
  ASSUME NEW M, Lined(M), \A i \in 1..Len(M) : M[i].id # NoItem,
         NEW tokens, NEW n \in Nat, n = Len(tokens),
         NEW size \in Nat \ {0}, NEW s \in Nat, s + size <= n,
         NEW C, C = Content(tokens, M), NEW a \in Int, NEW b \in Int,
         Within(M, s, s + size, a, b)
  PROVE  Begun(M, C, s, size, a, b)
<1>0. /\ a..b \subseteq 1..Len(M) /\ Len(M) \in Nat
      /\ \A i \in 1..Len(M) : M[i].offset \in Nat /\ EndOf(M[i]) \in Nat
  BY DEF Lined, Within
<1>1. \A i \in a..b : M[i].offset < s + size /\ s < EndOf(M[i])
  BY <1>0 DEF Meets, Within
<1>2. ASSUME NEW i \in a..b
      PROVE  /\ StartIn(M[i], s) \in 1..size /\ Covers(M[i], s + StartIn(M[i], s))
             /\ (M[i].offset <= s => StartIn(M[i], s) = 1)
             /\ (s <= M[i].offset => StartIn(M[i], s) = M[i].offset - s + 1)
  <2>1. M[i].offset \in Nat /\ EndOf(M[i]) \in Nat /\ M[i].offset < EndOf(M[i])
    BY <1>0 DEF Lined
  <2>2. PICK x, y \in Nat : x = M[i].offset /\ y = EndOf(M[i])
    BY <2>1
  <2>3. x < y /\ s < y /\ x < s + size
    BY <1>1, <2>1, <2>2
  <2>4. PICK p : p = IF x < s THEN 1 ELSE x - s + 1
    OBVIOUS
  <2>5. /\ p \in 1..size /\ x < s + p /\ s + p <= y
        /\ (x <= s => p = 1) /\ (s <= x => p = x - s + 1)
    BY <2>3, <2>4
  <2>6. p = StartIn(M[i], s)
    BY <2>2, <2>4 DEF StartIn
  <2> QED
    BY <2>2, <2>5, <2>6 DEF Covers
<1>3. ASSUME NEW p \in 1..size
      PROVE  /\ s + p \in 1..n
             /\ \A i \in 1..Len(M) : Covers(M[i], s + p) =>
                  C[s + p][2] = M[i].id /\ C[s + p][3] = s + p - 1 - M[i].offset
             /\ (\A i \in 1..Len(M) : ~Covers(M[i], s + p)) => C[s + p][2] = NoItem
  <2>1. PICK m : m = s + p
    OBVIOUS
  <2>2. m \in 1..n
    BY <2>1
  <2>3. PICK c : c = Content(tokens, M)[m]
    OBVIOUS
  <2>4. Holds(M, tokens, m, c)
    BY <2>2, <2>3, ContentAt, Zenon
  <2>5. C[m] = c
    BY <2>3
  <2>6. C[s + p] = c /\ s + p = m /\ s + p - 1 = m - 1
    BY <2>1, <2>5
  <2>7. \A i \in 1..Len(M) : Covers(M[i], m) => c[2] = M[i].id /\ c[3] = m - 1 - M[i].offset
    BY <2>4 DEF Holds
  <2>8. (\A i \in 1..Len(M) : ~Covers(M[i], m)) => c[2] = NoItem
    BY <2>4 DEF Holds
  <2>9. ASSUME NEW i \in 1..Len(M), Covers(M[i], s + p)
        PROVE  C[s + p][2] = M[i].id /\ C[s + p][3] = s + p - 1 - M[i].offset
    <3>1. c[2] = M[i].id /\ c[3] = m - 1 - M[i].offset
      BY <2>6, <2>7, <2>9
    <3>2. m - 1 - M[i].offset = s + p - 1 - M[i].offset
      BY <1>0, <2>1, <2>2
    <3> QED
      BY <2>6, <3>1, <3>2
  <2>10. (\A i \in 1..Len(M) : ~Covers(M[i], s + p)) => C[s + p][2] = NoItem
    BY <2>6, <2>8
  <2> QED
    BY <2>2, <2>6, <2>9, <2>10
<1>4. ASSUME NEW i \in a..b
      PROVE  /\ StartIn(M[i], s) \in 1..size
             /\ C[s + StartIn(M[i], s)][2] = M[i].id
             /\ C[s + StartIn(M[i], s)][3] = s + StartIn(M[i], s) - 1 - M[i].offset
  <2>1. PICK p : p = StartIn(M[i], s)
    OBVIOUS
  <2>2. p \in 1..size /\ Covers(M[i], s + p) /\ i \in 1..Len(M)
    BY <1>0, <1>2, <2>1
  <2> QED
    BY <1>3, <2>1, <2>2
<1>5. ASSUME NEW i \in a..b, NEW j \in a..b, i < j PROVE StartIn(M[i], s) < StartIn(M[j], s)
  <2>1. EndOf(M[i]) <= M[j].offset
    BY <1>0, <1>5 DEF Lined
  <2>2. /\ M[i].offset \in Nat /\ EndOf(M[i]) \in Nat /\ M[i].offset < EndOf(M[i])
        /\ M[j].offset \in Nat /\ s < EndOf(M[i])
    BY <1>0, <1>1 DEF Lined
  <2>3. PICK x, y, z \in Nat : x = M[i].offset /\ y = EndOf(M[i]) /\ z = M[j].offset
    BY <2>2
  <2>4. x < y /\ s < y /\ y <= z
    BY <2>1, <2>2, <2>3
  <2>5. (IF x < s THEN 1 ELSE x - s + 1) < (IF z < s THEN 1 ELSE z - s + 1)
    BY <2>4
  <2> QED
    BY <2>3, <2>5 DEF StartIn
<1>6. ASSUME NEW p \in 1..size
      PROVE  C[s + p][2] # NoItem /\ (p = 1 \/ C[s + p][3] = 0)
               <=> \E i \in a..b : p = StartIn(M[i], s)
  <2>1. ASSUME NEW i \in a..b, p = StartIn(M[i], s)
        PROVE  C[s + p][2] # NoItem /\ (p = 1 \/ C[s + p][3] = 0)
    <3>1. C[s + p][2] = M[i].id /\ C[s + p][3] = s + p - 1 - M[i].offset
      BY <1>4, <2>1
    <3>2. M[i].offset \in Nat
      BY <1>0
    <3>3. p = 1 \/ s + p - 1 - M[i].offset = 0
      <4>1. PICK o \in Nat : o = M[i].offset
        BY <3>2
      <4>2. p = IF o < s THEN 1 ELSE o - s + 1
        BY <2>1, <4>1 DEF StartIn
      <4>3. p = 1 \/ s + p - 1 - o = 0
        BY <4>2
      <4> QED
        BY <4>1, <4>3
    <3> QED
      BY <1>0, <3>1, <3>3
  <2>2. ASSUME C[s + p][2] # NoItem, p = 1 \/ C[s + p][3] = 0
        PROVE  \E i \in a..b : p = StartIn(M[i], s)
    <3>1. PICK i \in 1..Len(M) : Covers(M[i], s + p)
      BY <1>3, <2>2
    <3>2. C[s + p][3] = s + p - 1 - M[i].offset
      BY <1>3, <3>1
    <3>3. M[i].offset \in Nat /\ EndOf(M[i]) \in Nat
      BY <1>0
    <3>4. Meets(M[i], s, s + size)
      BY <3>1, <3>3 DEF Covers, Meets
    <3>5. i \in a..b
      BY <1>0, <3>4 DEF Within
    <3>6. p = StartIn(M[i], s)
      <4>1. PICK o, e \in Nat : o = M[i].offset /\ e = EndOf(M[i])
        BY <3>3
      <4>2. o < s + p
        BY <3>1, <4>1 DEF Covers
      <4>3. p = 1 \/ s + p - 1 - o = 0
        BY <2>2, <3>2, <4>1
      <4>4. p = IF o < s THEN 1 ELSE o - s + 1
        BY <4>2, <4>3
      <4> QED
        BY <4>1, <4>4 DEF StartIn
    <3> QED
      BY <3>5, <3>6
  <2> QED
    BY <2>1, <2>2
<1>7. {p \in 1..size : C[s + p][2] # NoItem /\ (p = 1 \/ C[s + p][3] = 0)}
        = {StartIn(M[i], s) : i \in a..b}
  <2>1. \A i \in a..b : StartIn(M[i], s) \in 1..size
    BY <1>2
  <2> QED
    BY <1>6, <2>1
<1> QED
  BY <1>4, <1>5, <1>7 DEF Begun

\* The keys a block has to have are those that its content says.
LEMMA KeysRight ==
  ASSUME NEW M, Lined(M), \A i \in 1..Len(M) : M[i].id # NoItem,
         NEW tokens, NEW n \in Nat, n = Len(tokens),
         NEW size \in Nat \ {0}, NEW k \in Nat, NEW s \in Nat, s = k * size, s + size <= n,
         NEW q, Listed(M, s, s + size, q)
  PROVE  BlockKeys(Content(tokens, M), size, k) = q
<1>1. PICK C : C = Content(tokens, M)
  OBVIOUS
<1>2. PICK a \in Int, b \in Int :
        /\ 1 <= a /\ a <= b + 1 /\ b <= Len(M)
        /\ q = KeysOf(M, s, a, b)
        /\ \A j \in 1..Len(M) : a <= j /\ j <= b <=> Meets(M[j], s, s + size)
  BY DEF Listed
<1>3. PICK c \in Nat : c = b - a + 1
  BY <1>2
<1>4. PICK S : S = {p \in 1..size : C[s + p][2] # NoItem /\ (p = 1 \/ C[s + p][3] = 0)}
  OBVIOUS
<1>5. /\ \A i \in a..b : /\ StartIn(M[i], s) \in 1..size
                         /\ C[s + StartIn(M[i], s)][2] = M[i].id
                         /\ C[s + StartIn(M[i], s)][3] = s + StartIn(M[i], s) - 1 - M[i].offset
      /\ \A i, j \in a..b : i < j => StartIn(M[i], s) < StartIn(M[j], s)
      /\ S = {StartIn(M[i], s) : i \in a..b}
  <2>1. Within(M, s, s + size, a, b)
    BY <1>2 DEF Within
  <2>2. Begun(M, C, s, size, a, b)
    BY <1>1, <2>1, StartsOf, Zenon
  <2> QED
    BY <1>4, <2>2 DEF Begun
<1>6. PICK f : f = [j \in 1..c |-> StartIn(M[a + j - 1], s)]
  OBVIOUS
<1>7. \A j \in 1..c : a + j - 1 \in a..b
  BY <1>3
<1>8. f \in [1..c -> Nat] /\ \A i, j \in 1..c : i < j => f[i] < f[j]
  <2>1. ASSUME NEW j \in 1..c PROVE f[j] \in Nat
    <3>1. PICK m \in a..b : m = a + j - 1
      BY <1>7
    <3>2. f[j] = StartIn(M[m], s)
      BY <1>6, <3>1
    <3>3. StartIn(M[m], s) \in 1..size
      BY <1>5
    <3> QED
      BY <3>2, <3>3
  <2>2. ASSUME NEW i \in 1..c, NEW j \in 1..c, i < j PROVE f[i] < f[j]
    <3>1. a + i - 1 < a + j - 1
      BY <2>2
    <3> QED
      BY <1>5, <1>6, <1>7, <3>1
  <2> QED
    BY <1>6, <2>1, <2>2
<1>9. S = {f[i] : i \in 1..c}
  <2>1. \A i \in a..b : i - a + 1 \in 1..c /\ a + (i - a + 1) - 1 = i
    BY <1>3
  <2>2. \A i \in a..b : StartIn(M[i], s) = f[i - a + 1]
    BY <1>6, <2>1
  <2>3. \A j \in 1..c : f[j] = StartIn(M[a + j - 1], s)
    BY <1>6
  <2>4. \A j \in 1..c : \E i \in a..b : f[j] = StartIn(M[i], s)
    BY <1>7, <2>3
  <2>5. \A i \in a..b : \E j \in 1..c : StartIn(M[i], s) = f[j]
    BY <2>1, <2>2
  <2>6. \A x : x \in S <=> \E i \in a..b : x = StartIn(M[i], s)
    BY <1>5
  <2>7. \A x : x \in S <=> \E j \in 1..c : x = f[j]
    <3> TAKE x
    <3>1. ASSUME x \in S PROVE \E j \in 1..c : x = f[j]
      <4>1. PICK i \in a..b : x = StartIn(M[i], s)
        BY <2>6, <3>1
      <4> QED
        BY <2>5, <4>1
    <3>2. ASSUME NEW j \in 1..c, x = f[j] PROVE x \in S
      <4>1. PICK i \in a..b : f[j] = StartIn(M[i], s)
        BY <2>4
      <4> QED
        BY <2>6, <3>2, <4>1
    <3> QED
      BY <3>1, <3>2
  <2> QED
    BY <2>7
<1>10. Cardinality(S) = c /\ \A i \in 1..c : Nth(S, i) = f[i]
  <2>1. Rising(f, c, S)
    BY <1>8, <1>9 DEF Rising
  <2> QED
    BY <2>1, Enumerated
<1>11. PICK g : g = [i \in 1..c |-> Nth(S, i)]
  OBVIOUS
<1>12. \A i \in 1..c : g[i] = f[i]
  BY <1>10, <1>11
<1>13. BlockKeys(C, size, k)
         = [i \in 1..c |-> <<C[s + g[i]][2], g[i] - 1 - C[s + g[i]][3]>>]
  <2>1. S = {p \in 1..size : C[k * size + p][2] # NoItem /\ (p = 1 \/ C[k * size + p][3] = 0)}
    BY <1>4
  <2>2. BlockKeys(C, size, k)
         = [i \in 1..Cardinality(S) |->
              <<C[k * size + Nth(S, i)][2], Nth(S, i) - 1 - C[k * size + Nth(S, i)][3]>>]
    BY <2>1 DEF BlockKeys, Nth, Rank
  <2> QED
    BY <1>10, <1>11, <2>2
<1>14. \A i \in 1..c : <<C[s + g[i]][2], g[i] - 1 - C[s + g[i]][3]>>
                         = <<M[a + i - 1].id, M[a + i - 1].offset - s>>
  <2> TAKE i \in 1..c
  <2>1. PICK m : m = a + i - 1
    OBVIOUS
  <2>2. m \in a..b /\ g[i] = StartIn(M[m], s)
    BY <1>6, <1>7, <1>12, <2>1
  <2>3. C[s + g[i]][2] = M[m].id /\ C[s + g[i]][3] = s + g[i] - 1 - M[m].offset
    BY <1>5, <2>2
  <2>4. g[i] \in Nat /\ M[m].offset \in Nat
    <3>1. g[i] \in 1..size
      BY <1>5, <2>2
    <3>2. m \in 1..Len(M)
      BY <1>2, <2>2 DEF Lined
    <3> QED
      BY <3>1, <3>2 DEF Lined
  <2>5. g[i] - 1 - (s + g[i] - 1 - M[m].offset) = M[m].offset - s
    <3>1. PICK x, o \in Int : x = g[i] /\ o = M[m].offset
      BY <2>4
    <3>2. x - 1 - (s + x - 1 - o) = o - s
      BY <3>1
    <3> QED
      BY <3>1, <3>2
  <2> QED
    BY <2>1, <2>3, <2>5
<1>15. BlockKeys(C, size, k) = [i \in 1..c |-> <<M[a + i - 1].id, M[a + i - 1].offset - s>>]
  BY <1>13, <1>14
<1>16. q = [i \in 1..c |-> <<M[a + i - 1].id, M[a + i - 1].offset - s>>]
  BY <1>2, <1>3 DEF KeysOf
<1> QED
  BY <1>1, <1>15, <1>16

-----------------------------------------------------------------------------
(* The hashes of a content *)

\* Among numbers up to size, each rank is somebody's.
LEMMA NthExists ==
  ASSUME NEW size \in Nat, NEW S \in SUBSET (1..size), NEW i \in 1..Cardinality(S)
  PROVE  Nth(S, i) \in S
<1> DEFINE Upto(m) == {q \in S : q <= m}
<1>0. \A q \in S : q \in Nat /\ 1 <= q /\ q <= size
  OBVIOUS
<1>1. IsFiniteSet(S) /\ Cardinality(S) \in Nat
  <2>1. IsFiniteSet(1..size)
    BY FS_Interval
  <2> QED
    BY <2>1, FS_Subset, FS_CardinalityType
<1>2. \A m \in Nat : IsFiniteSet(Upto(m)) /\ Cardinality(Upto(m)) \in Nat
  <2>1. \A m \in Nat : Upto(m) \subseteq S
    OBVIOUS
  <2> HIDE DEF Upto
  <2> QED
    BY <1>1, <2>1, FS_Subset, FS_CardinalityType
<1>3. PICK T : T = {m \in Nat : Cardinality(Upto(m)) >= i}
  OBVIOUS
<1>4. T # {} /\ T \in SUBSET Nat
  <2>1. Upto(size) = S
    BY <1>0
  <2>2. size \in T
    BY <1>1, <1>3, <2>1
  <2> QED
    BY <1>3, <2>2
<1>5. PICK m \in T : \A y \in T : m <= y
  BY <1>4, LeastNumber
<1>6. m \in Nat /\ Cardinality(Upto(m)) >= i
  BY <1>3, <1>5
<1>7. m # 0
  <2>1. \A q \in S : ~(q <= 0)
    BY <1>0
  <2>2. Upto(0) = {}
    BY <2>1
  <2>3. Cardinality(Upto(0)) = 0
    BY <2>2, FS_EmptySet
  <2> HIDE DEF Upto
  <2> QED
    BY <1>1, <1>6, <2>3
<1>8. m - 1 \in Nat /\ m - 1 \notin T
  BY <1>5, <1>6, <1>7
<1>9. Cardinality(Upto(m - 1)) < i
  <2> HIDE DEF Upto
  <2> QED
    BY <1>1, <1>2, <1>3, <1>8
<1>10. m \in S
  <2> SUFFICES ASSUME m \notin S PROVE FALSE
    OBVIOUS
  <2>1. \A q \in S : q <= m <=> q <= m - 1
    BY <1>0, <1>6
  <2>2. Upto(m) = Upto(m - 1)
    BY <2>1
  <2> HIDE DEF Upto
  <2> QED
    BY <1>1, <1>2, <1>6, <1>8, <1>9, <2>2
<1>11. Cardinality(Upto(m)) = Cardinality(Upto(m - 1)) + 1
  <2>1. (\A q \in S : q <= m <=> q <= m - 1 \/ q = m) /\ ~(m <= m - 1) /\ m <= m
    BY <1>0, <1>6
  <2>2. Upto(m) = Upto(m - 1) \cup {m} /\ m \notin Upto(m - 1)
    BY <1>10, <2>1
  <2> HIDE DEF Upto
  <2> QED
    BY <1>2, <1>8, <2>2, FS_AddElement
<1>12. Cardinality(Upto(m)) = i
  <2> HIDE DEF Upto
  <2> QED
    BY <1>1, <1>2, <1>6, <1>8, <1>9, <1>11
<1>13. Rank(S, m) = i
  BY <1>12 DEF Rank
<1> QED
  BY <1>10, <1>13 DEF Nth

\* The two contents hold the same in block k.
SameBlock(C, D, size, k) == \A p \in 1..size : C[k * size + p] = D[k * size + p]

SameBlocks(C, D, size, b) == \A k \in 0..(b - 1) : SameBlock(C, D, size, k)

\* The hash of a block depends on what the block holds.
LEMMA HashLocal ==
  ASSUME NEW C, NEW D, NEW size \in Nat \ {0}, NEW k \in Nat, SameBlock(C, D, size, k),
         NEW parent, NEW tags
  PROVE  ContentHash(parent, tags, C, size, k) = ContentHash(parent, tags, D, size, k)
<1> DEFINE Starts1(E) ==
       {p \in 1..size : E[k * size + p][2] # NoItem /\ (p = 1 \/ E[k * size + p][3] = 0)}
<1>1. PICK S : S = Starts1(C)
  OBVIOUS
<1>2. S = Starts1(D) /\ S \in SUBSET (1..size)
  BY <1>1 DEF SameBlock
<1>3. \A i \in 1..Cardinality(S) : Nth(S, i) \in 1..size
  BY <1>2, NthExists
<1> DEFINE Keys(E) == [i \in 1..Cardinality(S) |->
              <<E[k * size + Nth(S, i)][2], Nth(S, i) - 1 - E[k * size + Nth(S, i)][3]>>]
<1>4. BlockKeys(C, size, k) = Keys(C)
  BY <1>1 DEF BlockKeys, Nth, Rank
<1>5. BlockKeys(D, size, k) = Keys(D)
  BY <1>2 DEF BlockKeys, Nth, Rank
<1>6. Keys(C) = Keys(D)
  BY <1>3 DEF SameBlock
<1> HIDE DEF Keys
<1>7. [p \in 1..size |-> C[k * size + p][1]] = [p \in 1..size |-> D[k * size + p][1]]
  BY DEF SameBlock
<1> QED
  BY <1>4, <1>5, <1>6, <1>7 DEF ContentHash

\* The chain of hashes, up to block b.
IsChain(tags, C, size, b, g) ==
  g = [k \in 0..b |->
         IF k = 0 THEN NONE_HASH ELSE ContentHash(g[k - 1], tags, C, size, k - 1)]

\* There is one.
LEMMA ChainExists ==
  ASSUME NEW tags, NEW C, NEW size, NEW b \in Nat
  PROVE  \E g : IsChain(tags, C, size, b, g)
<1> DEFINE Missing == {m \in Nat : ~\E g : IsChain(tags, C, size, m, g)}
<1> SUFFICES ASSUME Missing # {} PROVE FALSE
  OBVIOUS
<1>1. Missing \in SUBSET Nat
  OBVIOUS
<1>2. PICK m \in Missing : \A y \in Missing : m <= y
  BY <1>1, LeastNumber
<1>3. m \in Nat /\ ~\E g : IsChain(tags, C, size, m, g)
  BY <1>2
<1>4. CASE m = 0
  <2>1. PICK h : h = [k \in 0..0 |-> NONE_HASH]
    OBVIOUS
  <2>2. 0..0 = {0}
    OBVIOUS
  <2>3. h = [k \in 0..0 |->
               IF k = 0 THEN NONE_HASH ELSE ContentHash(h[k - 1], tags, C, size, k - 1)]
    BY <2>1, <2>2
  <2>4. IsChain(tags, C, size, 0, h)
    BY <2>3 DEF IsChain
  <2> QED
    BY <1>3, <1>4, <2>4
<1>5. CASE m # 0
  <2>1. m - 1 \in Nat /\ ~(m <= m - 1)
    BY <1>3, <1>5
  <2>2. m - 1 \notin Missing
    BY <1>2, <2>1
  <2>3. PICK g : IsChain(tags, C, size, m - 1, g)
    BY <2>1, <2>2
  <2>4. PICK h : h = [k \in 0..m |-> IF k < m THEN g[k]
                                     ELSE ContentHash(g[m - 1], tags, C, size, m - 1)]
    OBVIOUS
  <2>5. \A k \in 0..(m - 1) : g[k] =
          IF k = 0 THEN NONE_HASH ELSE ContentHash(g[k - 1], tags, C, size, k - 1)
    BY <2>3 DEF IsChain
  <2>6. ASSUME NEW k \in 0..m
        PROVE  h[k] = IF k = 0 THEN NONE_HASH ELSE ContentHash(h[k - 1], tags, C, size, k - 1)
    <3>1. CASE k = 0
      <4>1. h[0] = g[0] /\ g[0] = NONE_HASH
        BY <2>1, <2>4, <2>5
      <4> QED
        BY <3>1, <4>1
    <3>2. CASE k # 0 /\ k < m
      <4>1. k \in 0..(m - 1) /\ k - 1 \in 0..m /\ k - 1 < m
        BY <3>2
      <4>2. h[k] = g[k] /\ h[k - 1] = g[k - 1]
        BY <2>4, <3>2, <4>1
      <4> QED
        BY <2>5, <3>2, <4>1, <4>2
    <3>3. CASE k = m
      <4>1. m - 1 \in 0..m /\ m - 1 < m /\ m \in 0..m /\ ~(m < m)
        BY <2>1
      <4>2. h[m] = ContentHash(g[m - 1], tags, C, size, m - 1) /\ h[m - 1] = g[m - 1]
        BY <2>4, <4>1
      <4> QED
        BY <1>5, <3>3, <4>2
    <3> QED
      BY <3>1, <3>2, <3>3
  <2>7. h = [k \in 0..m |-> h[k]]
    BY <2>4
  <2>8. IsChain(tags, C, size, m, h)
    BY <2>6, <2>7 DEF IsChain
  <2> QED
    BY <1>3, <2>8
<1> QED
  BY <1>4, <1>5

\* What a chain says of its blocks.
Chained(tags, C, size, b, g) ==
  \A k \in 0..b : g[k] =
    IF k = 0 THEN NONE_HASH ELSE ContentHash(g[k - 1], tags, C, size, k - 1)

\* Two chains of contents that hold the same agree.
LEMMA ChainsAgree ==
  ASSUME NEW tags, NEW C, NEW D, NEW size \in Nat \ {0}, NEW b \in Nat, NEW g, NEW h,
         Chained(tags, C, size, b, g), Chained(tags, D, size, b, h),
         SameBlocks(C, D, size, b)
  PROVE  \A k \in 0..b : g[k] = h[k]
<1> DEFINE Bad == {m \in Nat : m <= b /\ g[m] # h[m]}
<1> SUFFICES ASSUME Bad # {} PROVE FALSE
  OBVIOUS
<1>1. Bad \in SUBSET Nat
  OBVIOUS
<1>2. PICK m \in Bad : \A y \in Bad : m <= y
  BY <1>1, LeastNumber
<1>3. m \in 0..b /\ g[m] # h[m]
  BY <1>2
<1>4. CASE m = 0
  BY <1>3, <1>4 DEF Chained
<1>5. CASE m # 0
  <2>1. m - 1 \in Nat /\ m - 1 <= b /\ ~(m <= m - 1) /\ m - 1 \in 0..(b - 1)
    BY <1>3, <1>5
  <2>2. g[m - 1] = h[m - 1]
    BY <1>2, <2>1
  <2>3. /\ g[m] = ContentHash(g[m - 1], tags, C, size, m - 1)
        /\ h[m] = ContentHash(h[m - 1], tags, D, size, m - 1)
    BY <1>3, <1>5 DEF Chained
  <2>4. SameBlock(C, D, size, m - 1)
    BY <2>1 DEF SameBlocks
  <2>5. ContentHash(g[m - 1], tags, C, size, m - 1) = ContentHash(g[m - 1], tags, D, size, m - 1)
    BY <2>1, <2>4, HashLocal
  <2> QED
    BY <1>3, <2>2, <2>3, <2>5
<1> QED
  BY <1>4, <1>5

\* Fingerprint is the end of a chain.
LEMMA FingerprintChain ==
  ASSUME NEW tags, NEW C, NEW size, NEW b \in Nat
  PROVE  \E g : Chained(tags, C, size, b, g) /\ Fingerprint(tags, C, size, b) = g[b]
<1> DEFINE body(g) == [k \in 0..b |->
         IF k = 0 THEN NONE_HASH ELSE ContentHash(g[k - 1], tags, C, size, k - 1)]
<1>1. PICK g : g = CHOOSE h : h = body(h)
  OBVIOUS
<1>2. Fingerprint(tags, C, size, b) = g[b]
  BY <1>1 DEF Fingerprint
<1>3. PICK h : h = body(h)
  <2>1. PICK h : IsChain(tags, C, size, b, h)
    BY ChainExists
  <2>2. h = body(h)
    BY <2>1 DEF IsChain
  <2> HIDE DEF body
  <2> QED
    BY <2>2
<1> HIDE DEF body
<1>4. g = body(g)
  BY <1>1, <1>3
<1>5. Chained(tags, C, size, b, g)
  BY <1>4 DEF body, Chained
<1> QED
  BY <1>2, <1>5

\* The fingerprint of b blocks is determined by them.
LEMMA FingerprintLocal ==
  ASSUME NEW tags, NEW C, NEW D, NEW size \in Nat \ {0}, NEW b \in Nat,
         \A p \in 1..(b * size) : C[p] = D[p]
  PROVE  Fingerprint(tags, C, size, b) = Fingerprint(tags, D, size, b)
<1>1. PICK g : Chained(tags, C, size, b, g) /\ Fingerprint(tags, C, size, b) = g[b]
  BY FingerprintChain
<1>2. PICK h : Chained(tags, D, size, b, h) /\ Fingerprint(tags, D, size, b) = h[b]
  BY FingerprintChain
<1>3. ASSUME NEW k \in 0..(b - 1) PROVE SameBlock(C, D, size, k)
  <2>1. PICK d \in Nat : d = b - (k + 1)
    OBVIOUS
  <2>2. k * size \in Nat /\ d * size \in Nat /\ b * size = k * size + size + d * size
    <3>1. b = k + 1 + d
      BY <2>1
    <3> QED
      BY <3>1
  <2>3. \A p \in 1..size : k * size + p \in 1..(b * size)
    BY <2>2
  <2> QED
    BY <2>3 DEF SameBlock
<1>4. \A k \in 0..b : g[k] = h[k]
  <2>1. SameBlocks(C, D, size, b)
    BY <1>3 DEF SameBlocks
  <2> QED
    BY <1>1, <1>2, <2>1, ChainsAgree
<1>5. b \in 0..b
  OBVIOUS
<1> QED
  BY <1>1, <1>2, <1>4, <1>5

\* Fingerprint, block by block.
LEMMA FingerprintUnfolds ==
  ASSUME NEW tags, NEW C, NEW size \in Nat \ {0}, NEW b \in Nat
  PROVE  /\ Fingerprint(tags, C, size, 0) = NONE_HASH
         /\ Fingerprint(tags, C, size, b + 1)
              = ContentHash(Fingerprint(tags, C, size, b), tags, C, size, b)
<1>1. Fingerprint(tags, C, size, 0) = NONE_HASH
  <2>1. PICK g : Chained(tags, C, size, 0, g) /\ Fingerprint(tags, C, size, 0) = g[0]
    BY FingerprintChain
  <2> QED
    BY <2>1 DEF Chained
<1>2. PICK g : Chained(tags, C, size, b, g) /\ Fingerprint(tags, C, size, b) = g[b]
  BY FingerprintChain
<1>3. PICK c \in Nat : c = b + 1
  OBVIOUS
<1>4. PICK h : Chained(tags, C, size, c, h) /\ Fingerprint(tags, C, size, c) = h[c]
  BY FingerprintChain
<1>5. Chained(tags, C, size, b, h)
  BY <1>3, <1>4 DEF Chained
<1>6. SameBlocks(C, C, size, b)
  BY DEF SameBlock, SameBlocks
<1>7. \A k \in 0..b : g[k] = h[k]
  BY <1>2, <1>5, <1>6, ChainsAgree
<1>8. h[c] = ContentHash(h[c - 1], tags, C, size, c - 1)
  BY <1>3, <1>4 DEF Chained
<1>9. c - 1 = b /\ b \in 0..b
  BY <1>3
<1>10. h[b] = Fingerprint(tags, C, size, b)
  BY <1>2, <1>7, <1>9
<1>11. Fingerprint(tags, C, size, c) = ContentHash(h[b], tags, C, size, b)
  BY <1>4, <1>8, <1>9
<1> QED
  BY <1>1, <1>3, <1>10, <1>11

-----------------------------------------------------------------------------
(* What the hasher computes *)

\* Full blocks are within the text, and one more is not.
LEMMA FullBlocks ==
  ASSUME NEW n \in Nat, NEW size \in Nat \ {0}, NEW full, full = n \div size
  PROVE  /\ full \in Nat /\ full * size \in Nat /\ full * size <= n
         /\ n < full * size + size
OBVIOUS

\* Fewer blocks end earlier.
LEMMA BlocksEnd ==
  ASSUME NEW a \in Nat, NEW b \in Nat, a <= b, NEW size \in Nat
  PROVE  a * size <= b * size
<1>1. PICK d \in Nat : d = b - a
  OBVIOUS
<1>2. b = a + d
  BY <1>1
<1>3. b * size = a * size + d * size /\ d * size \in Nat /\ a * size \in Nat
  BY <1>2
<1> QED
  BY <1>3

\* The rounds of the hasher up to block m, the first `done` hashed before.
IsRounds(u, size, done, m, g) ==
  g = [n \in done..m |->
         IF n = done THEN [hashes |-> u.block_hashes, index |-> StartIndex(u.block_hashes)]
         ELSE HashBlock(u, size, g[n - 1], n - 1)]

\* What they say of each block.
Rounds(u, size, done, m, g) ==
  \A n \in done..m : g[n] =
    IF n = done THEN [hashes |-> u.block_hashes, index |-> StartIndex(u.block_hashes)]
    ELSE HashBlock(u, size, g[n - 1], n - 1)

\* There are such rounds.
LEMMA RoundsExist ==
  ASSUME NEW u, NEW size, NEW done \in Nat, NEW full \in Nat, done <= full
  PROVE  \E g : IsRounds(u, size, done, full, g)
<1> DEFINE Missing == {m \in Nat : done <= m /\ ~\E g : IsRounds(u, size, done, m, g)}
<1> SUFFICES ASSUME Missing # {} PROVE FALSE
  OBVIOUS
<1>1. Missing \in SUBSET Nat
  OBVIOUS
<1>2. PICK m \in Missing : \A y \in Missing : m <= y
  BY <1>1, LeastNumber
<1>3. m \in Nat /\ done <= m /\ ~\E g : IsRounds(u, size, done, m, g)
  BY <1>2
<1>4. PICK start : start = [hashes |-> u.block_hashes, index |-> StartIndex(u.block_hashes)]
  OBVIOUS
<1>5. CASE m = done
  <2>1. PICK h : h = [n \in done..done |-> start]
    OBVIOUS
  <2>2. h = [n \in done..done |-> IF n = done THEN start ELSE HashBlock(u, size, h[n - 1], n - 1)]
    BY <2>1
  <2>3. IsRounds(u, size, done, done, h)
    BY <1>4, <2>2 DEF IsRounds
  <2> QED
    BY <1>3, <1>5, <2>3
<1>6. CASE m # done
  <2>1. m - 1 \in Nat /\ done <= m - 1 /\ ~(m <= m - 1)
    BY <1>3, <1>6
  <2>2. m - 1 \notin Missing
    BY <1>2, <2>1
  <2>3. PICK g : IsRounds(u, size, done, m - 1, g)
    BY <2>1, <2>2
  <2>4. PICK last : last = HashBlock(u, size, g[m - 1], m - 1)
    OBVIOUS
  <2>5. PICK h : h = [n \in done..m |-> IF n < m THEN g[n] ELSE last]
    OBVIOUS
  <2>6. \A n \in done..(m - 1) :
          g[n] = IF n = done THEN start ELSE HashBlock(u, size, g[n - 1], n - 1)
    BY <1>4, <2>3 DEF IsRounds
  <2>7. ASSUME NEW n \in done..m
        PROVE  h[n] = IF n = done THEN start ELSE HashBlock(u, size, h[n - 1], n - 1)
    <3>1. CASE n = done
      <4>1. done \in done..(m - 1) /\ done \in done..m /\ done < m
        BY <2>1
      <4>2. h[done] = g[done] /\ g[done] = start
        BY <2>5, <2>6, <4>1
      <4> QED
        BY <3>1, <4>2
    <3>2. CASE n # done /\ n < m
      <4>1. n \in done..(m - 1) /\ n - 1 \in done..m /\ n - 1 < m
        BY <1>3, <3>2
      <4>2. h[n] = g[n] /\ h[n - 1] = g[n - 1]
        BY <2>5, <3>2, <4>1
      <4> QED
        BY <2>6, <3>2, <4>1, <4>2
    <3>3. CASE n = m
      <4>1. m - 1 \in done..m /\ m - 1 < m /\ m \in done..m /\ ~(m < m)
        BY <2>1
      <4>2. h[m] = last /\ h[m - 1] = g[m - 1]
        BY <2>5, <4>1
      <4> QED
        BY <1>6, <2>4, <3>3, <4>2
    <3> QED
      BY <1>3, <3>1, <3>2, <3>3
  <2>8. h = [n \in done..m |-> h[n]]
    BY <2>5
  <2>9. h = [n \in done..m |-> IF n = done THEN start ELSE HashBlock(u, size, h[n - 1], n - 1)]
    BY <2>7, <2>8
  <2>10. IsRounds(u, size, done, m, h)
    BY <1>4, <2>9 DEF IsRounds
  <2> QED
    BY <1>3, <2>10
<1> QED
  BY <1>5, <1>6

\* request_block_hasher goes through them when there are blocks to hash.
LEMMA HashedRounds ==
  ASSUME NEW u, NEW size, NEW done \in Nat, NEW full \in Nat,
         done = Len(u.block_hashes), full = Len(u.all_token_ids) \div size
  PROVE  IF done < full
         THEN \E g : Rounds(u, size, done, full, g) /\ Hashed(u, size) = g[full].hashes
         ELSE Hashed(u, size) = u.block_hashes
<1>1. CASE ~(done < full)
  BY <1>1 DEF Hashed
<1>2. CASE done < full
  <2> DEFINE body(g) == [n \in done..full |->
         IF n = done THEN [hashes |-> u.block_hashes, index |-> StartIndex(u.block_hashes)]
         ELSE HashBlock(u, size, g[n - 1], n - 1)]
  <2>1. PICK g : g = CHOOSE h : h = body(h)
    OBVIOUS
  <2>2. Hashed(u, size) = g[full].hashes
    BY <1>2, <2>1 DEF Hashed
  <2>3. PICK h : h = body(h)
    <3>0. done <= full
      BY <1>2
    <3>1. PICK h : IsRounds(u, size, done, full, h)
      BY <3>0, RoundsExist
    <3>2. h = body(h)
      BY <3>1 DEF IsRounds
    <3> HIDE DEF body
    <3> QED
      BY <3>2
  <2> HIDE DEF body
  <2>4. g = body(g)
    BY <2>1, <2>3
  <2>5. Rounds(u, size, done, full, g)
    BY <2>4 DEF body, Rounds
  <2> QED
    BY <1>2, <2>2, <2>5
<1> QED
  BY <1>1, <1>2

\* A sequence of n elements, whatever they are.
Sized(h, n) == \E S : h \in Seq(S) /\ Len(h) = n

\* h with x after its n elements.
Appended(a, h, n, x) == a = [i \in 1..(n + 1) |-> IF i <= n THEN h[i] ELSE x]

\* Appending whatever to a sequence.
LEMMA AppendSized ==
  ASSUME NEW h, NEW n \in Nat, Sized(h, n), NEW x
  PROVE  /\ Sized(Append(h, x), n + 1)
         /\ Appended(Append(h, x), h, n, x)
<1>1. PICK S : h \in Seq(S) /\ Len(h) = n
  BY DEF Sized
<1>2. PICK T : T = S \cup {x}
  OBVIOUS
<1>3. PICK a : a = Append(h, x)
  OBVIOUS
<1>4. h \in Seq(T) /\ x \in T
  <2>1. \A i \in 1..n : h[i] \in T
    BY <1>1, <1>2, ElementOfSeq
  <2>2. h \in [1..n -> T]
    BY <1>1, <2>1, LenProperties, SeqDef
  <2> QED
    BY <1>2, <2>2, SeqDef
<1>5. /\ a \in Seq(T) /\ Len(a) = n + 1
      /\ \A i \in 1..n : a[i] = h[i]
      /\ a[n + 1] = x
  BY <1>1, <1>3, <1>4, AppendProperties
<1>6. DOMAIN a = 1..(n + 1) /\ a = [i \in 1..(n + 1) |-> a[i]]
  BY <1>5, SeqDef, LenProperties
<1>7. \A i \in 1..(n + 1) : a[i] = IF i <= n THEN h[i] ELSE x
  <2> TAKE i \in 1..(n + 1)
  <2>1. i \in 1..n \/ (i = n + 1 /\ ~(i <= n))
    OBVIOUS
  <2> QED
    BY <1>5, <2>1
<1>8. a = [i \in 1..(n + 1) |-> IF i <= n THEN h[i] ELSE x]
  BY <1>6, <1>7
<1> QED
  BY <1>3, <1>5, <1>8 DEF Sized, Appended

\* The hasher leaves as many hashes as there are full blocks, and never fewer than there were.
LEMMA HashedSized ==
  ASSUME NEW u, NEW size, NEW done \in Nat, NEW full \in Nat, Sized(u.block_hashes, done),
         full = Len(u.all_token_ids) \div size
  PROVE  Sized(Hashed(u, size), IF done < full THEN full ELSE done)
<1>0. done = Len(u.block_hashes)
  BY DEF Sized
<1>1. CASE ~(done < full)
  BY <1>0, <1>1, HashedRounds
<1>2. CASE done < full
  <2>1. PICK g : Rounds(u, size, done, full, g) /\ Hashed(u, size) = g[full].hashes
    BY <1>0, <1>2, HashedRounds
  <2> DEFINE Bad == {m \in Nat : m \in done..full /\ ~Sized(g[m].hashes, m)}
  <2>2. Bad = {}
    <3> SUFFICES ASSUME Bad # {} PROVE FALSE
      OBVIOUS
    <3>1. Bad \in SUBSET Nat
      OBVIOUS
    <3>2. PICK m \in Bad : \A y \in Bad : m <= y
      BY <3>1, LeastNumber
    <3>3. m \in Nat /\ m \in done..full /\ ~Sized(g[m].hashes, m)
      BY <3>2
    <3>4. CASE m = done
      <4>1. g[done] = [hashes |-> u.block_hashes, index |-> StartIndex(u.block_hashes)]
        BY <2>1, <3>3, <3>4 DEF Rounds
      <4>2. g[done].hashes = u.block_hashes
        BY <4>1
      <4> QED
        BY <3>3, <3>4, <4>2
    <3>5. CASE m # done
      <4>1. m - 1 \in Nat /\ m - 1 \in done..full /\ ~(m <= m - 1)
        BY <3>3, <3>5
      <4>2. Sized(g[m - 1].hashes, m - 1)
        BY <3>2, <4>1
      <4>3. g[m] = HashBlock(u, size, g[m - 1], m - 1)
        BY <2>1, <3>3, <3>5 DEF Rounds
      <4>4. \E x : g[m].hashes = Append(g[m - 1].hashes, x)
        BY <4>3 DEF HashBlock
      <4>5. Sized(g[m].hashes, m - 1 + 1)
        BY <4>1, <4>2, <4>4, AppendSized
      <4> QED
        BY <3>3, <4>5
    <3> QED
      BY <3>4, <3>5
  <2>3. full \in done..full
    BY <1>2
  <2>4. Sized(g[full].hashes, full)
    BY <2>2, <2>3
  <2> QED
    BY <1>2, <2>1, <2>4
<1> QED
  BY <1>1, <1>2

\* The right hashes of n blocks.
Prints(tags, C, size, n) == [b \in 1..n |-> Fingerprint(tags, C, size, b)]

\* They are a sequence.
LEMMA PrintsSized ==
  ASSUME NEW tags, NEW C, NEW size, NEW n \in Nat
  PROVE  /\ Sized(Prints(tags, C, size, n), n) /\ Len(Prints(tags, C, size, n)) = n
         /\ Prints(tags, C, size, n) = <<>> <=> n = 0
<1>1. PICK p : p = Prints(tags, C, size, n)
  OBVIOUS
<1>2. PICK S : S = {Fingerprint(tags, C, size, b) : b \in 1..n}
  OBVIOUS
<1>3. p \in [1..n -> S]
  BY <1>1, <1>2 DEF Prints
<1>4. p \in Seq(S) /\ Len(p) = n
  BY <1>3, SeqDef, LenProperties
<1>5. p = <<>> <=> n = 0
  BY <1>4, EmptySeq
<1> QED
  BY <1>1, <1>4, <1>5 DEF Sized

\* One round.
LEMMA RoundRight ==
  ASSUME NEW u, NEW M, M = u.mm_features, Lined(M), \A i \in 1..Len(M) : M[i].id # NoItem,
         NEW tokens \in Seq(Tokens), tokens = u.all_token_ids,
         NEW size \in Nat \ {0}, NEW b \in Nat, (b + 1) * size <= Len(tokens),
         NEW C, C = Content(tokens, M), NEW before,
         before.hashes = Prints(u.tags, C, size, b), Started(M, before.index, b * size)
  PROVE  /\ HashBlock(u, size, before, b).hashes = Prints(u.tags, C, size, b + 1)
         /\ Started(M, HashBlock(u, size, before, b).index, (b + 1) * size)
<1>1. PICK n \in Nat : n = Len(tokens)
  BY LenProperties
<1>2. PICK s \in Nat : s = b * size
  OBVIOUS
<1>3. (b + 1) * size = s + size /\ s + size <= n
  BY <1>1, <1>2
<1>4. PICK m : m = MediaKeys(M, s, s + size, before.index)
  OBVIOUS
<1>5. Listed(M, s, s + size, m.keys) /\ Started(M, m.next, s + size)
  <2>1. PICK e \in Nat : e = s + size /\ s < e
    OBVIOUS
  <2>2. Started(M, before.index, s)
    BY <1>2
  <2>3. /\ Listed(M, s, e, MediaKeys(M, s, e, before.index).keys)
        /\ Started(M, MediaKeys(M, s, e, before.index).next, e)
    BY <2>1, <2>2, KeysFound
  <2> QED
    BY <1>4, <2>1, <2>3
<1>6. BlockKeys(C, size, b) = m.keys
  BY <1>1, <1>2, <1>3, <1>5, KeysRight
<1>7. PICK parent : parent = Fingerprint(u.tags, C, size, b)
  OBVIOUS
<1>8. (IF before.hashes = <<>> THEN NONE_HASH ELSE before.hashes[Len(before.hashes)]) = parent
  <2>1. /\ Len(before.hashes) = b /\ (before.hashes = <<>> <=> b = 0)
        /\ Fingerprint(u.tags, C, size, 0) = NONE_HASH
    BY PrintsSized, FingerprintUnfolds
  <2>2. CASE b = 0
    BY <1>7, <2>1, <2>2
  <2>3. CASE b # 0
    <3>1. b \in 1..b
      BY <2>3
    <3>2. before.hashes[b] = parent
      BY <1>7, <3>1 DEF Prints
    <3> QED
      BY <2>1, <2>3, <3>2
  <2> QED
    BY <2>2, <2>3
<1>9. SubSeq(tokens, s + 1, s + size) = [p \in 1..size |-> C[b * size + p][1]]
  <2>1. PICK part : part = SubSeq(tokens, s + 1, s + size)
    OBVIOUS
  <2>2. \A i \in (s + 1)..(s + size) : tokens[i] \in Tokens
    BY <1>1, <1>3, ElementOfSeq
  <2>3. /\ part \in Seq(Tokens) /\ Len(part) = size
        /\ \A i \in 1..size : part[i] = tokens[s + i]
    <3>1. PICK x, y \in Nat : x = s + 1 /\ y = s + size
      OBVIOUS
    <3>2. /\ SubSeq(tokens, x, y) \in Seq(Tokens)
          /\ Len(SubSeq(tokens, x, y)) = IF x <= y THEN y - x + 1 ELSE 0
          /\ \A i \in 1..(y - x + 1) : SubSeq(tokens, x, y)[i] = tokens[x + i - 1]
      BY <1>1, <1>3, <2>2, <3>1, SubSeqProperties
    <3>3. x <= y /\ y - x + 1 = size /\ \A i \in 1..size : x + i - 1 = s + i
      BY <3>1
    <3> QED
      BY <2>1, <3>1, <3>2, <3>3
  <2>4. \A p \in 1..size : C[b * size + p][1] = tokens[s + p]
    <3> TAKE p \in 1..size
    <3>1. PICK x : x = s + p
      OBVIOUS
    <3>2. x \in 1..n
      BY <1>3, <3>1
    <3>3. Holds(M, tokens, x, Content(tokens, M)[x])
      BY <1>1, <3>2, ContentAt
    <3> QED
      BY <1>2, <3>1, <3>3 DEF Holds
  <2>5. part = [i \in 1..size |-> part[i]]
    BY <2>3, SeqDef, LenProperties
  <2> QED
    BY <2>1, <2>3, <2>4, <2>5
<1>10. PICK x : x = hash_block_tokens(parent, SubSeq(tokens, s + 1, s + size),
                                      ExtraKeys(u.tags, m.keys, s))
  OBVIOUS
<1>11. x = Fingerprint(u.tags, C, size, b + 1)
  <2>1. Fingerprint(u.tags, C, size, b + 1) = ContentHash(parent, u.tags, C, size, b)
    BY <1>7, FingerprintUnfolds
  <2>2. ContentHash(parent, u.tags, C, size, b)
          = hash_block_tokens(parent, [p \in 1..size |-> C[b * size + p][1]],
                              ExtraKeys(u.tags, BlockKeys(C, size, b), b * size))
    BY DEF ContentHash
  <2> QED
    BY <1>2, <1>6, <1>9, <1>10, <2>1, <2>2
<1>12. HashBlock(u, size, before, b) = [hashes |-> Append(before.hashes, x), index |-> m.next]
  BY <1>2, <1>3, <1>4, <1>8, <1>10 DEF HashBlock
<1>13. Append(before.hashes, x) = Prints(u.tags, C, size, b + 1)
  <2>1. Sized(before.hashes, b)
    BY PrintsSized
  <2>2. Append(before.hashes, x) = [i \in 1..(b + 1) |-> IF i <= b THEN before.hashes[i] ELSE x]
    <3>1. PICK h : h = before.hashes
      OBVIOUS
    <3>2. Appended(Append(h, x), h, b, x)
      BY <2>1, <3>1, AppendSized
    <3> QED
      BY <3>1, <3>2 DEF Appended
  <2>3. \A i \in 1..(b + 1) : (IF i <= b THEN before.hashes[i] ELSE x)
                                = Fingerprint(u.tags, C, size, i)
    <3> TAKE i \in 1..(b + 1)
    <3>1. i \in 1..b \/ (i = b + 1 /\ ~(i <= b))
      OBVIOUS
    <3> QED
      BY <1>11, <3>1 DEF Prints
  <2> QED
    BY <2>2, <2>3 DEF Prints
<1>14. PICK after : after = HashBlock(u, size, before, b)
  OBVIOUS
<1>15. after.hashes = Prints(u.tags, C, size, b + 1) /\ after.index = m.next
  BY <1>12, <1>13, <1>14
<1>16. Started(M, after.index, (b + 1) * size)
  BY <1>3, <1>5, <1>15
<1> QED
  BY <1>14, <1>15, <1>16

\* The number of full blocks of a text.
IsFull(full, tokens, size) == full = Len(tokens) \div size

\* The hasher is right if what there is, is, and if it begins in the right place.
LEMMA HashedRight ==
  ASSUME NEW u, NEW M, M = u.mm_features, Lined(M), \A i \in 1..Len(M) : M[i].id # NoItem,
         NEW tokens \in Seq(Tokens), tokens = u.all_token_ids,
         NEW size \in Nat \ {0}, NEW done \in Nat, NEW full \in Nat,
         IsFull(full, tokens, size),
         NEW C, C = Content(tokens, M), u.block_hashes = Prints(u.tags, C, size, done),
         done <= full, done < full => Started(M, StartIndex(u.block_hashes), done * size)
  PROVE  Hashed(u, size) = Prints(u.tags, C, size, full)
<1>0. Len(u.block_hashes) = done
  BY PrintsSized
<1>1. CASE ~(done < full)
  <2>1. done = full
    BY <1>1
  <2> QED
    BY <1>0, <1>1, <2>1, HashedRounds DEF IsFull
<1>2. CASE done < full
  <2>1. PICK g : Rounds(u, size, done, full, g) /\ Hashed(u, size) = g[full].hashes
    BY <1>0, <1>2, HashedRounds DEF IsFull
  <2> DEFINE Right(m) == /\ g[m].hashes = Prints(u.tags, C, size, m)
                         /\ Started(M, g[m].index, m * size)
             Bad == {m \in Nat : m \in done..full /\ ~Right(m)}
  <2>2. Bad = {}
    <3> SUFFICES ASSUME Bad # {} PROVE FALSE
      OBVIOUS
    <3>1. Bad \in SUBSET Nat
      OBVIOUS
    <3>2. PICK m \in Bad : \A y \in Bad : m <= y
      BY <3>1, LeastNumber
    <3>3. m \in Nat /\ m \in done..full /\ ~Right(m)
      BY <3>2
    <3>6. \A y \in Nat : y \in done..full /\ ~(m <= y) => Right(y)
      BY <3>2
    <3>7. Right(m) <=> /\ g[m].hashes = Prints(u.tags, C, size, m)
                       /\ Started(M, g[m].index, m * size)
      OBVIOUS
    <3> HIDE DEF Bad, Right
    <3>4. CASE m = done
      <4>1. g[done] = [hashes |-> u.block_hashes, index |-> StartIndex(u.block_hashes)]
        BY <2>1, <3>3, <3>4 DEF Rounds
      <4>2. g[done].hashes = u.block_hashes /\ g[done].index = StartIndex(u.block_hashes)
        BY <4>1
      <4> QED
        BY <1>2, <3>3, <3>4, <3>7, <4>2
    <3>5. CASE m # done
      <4>1. PICK b \in Nat : b = m - 1
        BY <3>3, <3>5
      <4>2. b \in done..full /\ ~(m <= b) /\ b + 1 = m
        BY <3>3, <3>5, <4>1
      <4>3. Right(b)
        BY <3>6, <4>2
      <4>4. g[m] = HashBlock(u, size, g[b], b)
        BY <2>1, <3>3, <3>5, <4>1 DEF Rounds
      <4>5. (b + 1) * size <= Len(tokens)
        <5>1. PICK n \in Nat : n = Len(tokens)
          BY LenProperties
        <5>2. full * size \in Nat /\ full * size <= n
          <6>1. full = n \div size
            BY <5>1 DEF IsFull
          <6> QED
            BY <6>1, FullBlocks, Zenon
        <5>3. b + 1 \in Nat /\ b + 1 <= full
          BY <3>3, <4>2
        <5>4. (b + 1) * size <= full * size /\ (b + 1) * size \in Nat
          BY <5>3, BlocksEnd
        <5> QED
          BY <5>1, <5>2, <5>4
      <4>6. PICK before : before = g[b]
        OBVIOUS
      <4>7. before.hashes = Prints(u.tags, C, size, b) /\ Started(M, before.index, b * size)
        BY <4>3, <4>6 DEF Right
      <4>8. /\ HashBlock(u, size, before, b).hashes = Prints(u.tags, C, size, b + 1)
            /\ Started(M, HashBlock(u, size, before, b).index, (b + 1) * size)
        BY <4>5, <4>7, RoundRight
      <4> QED
        BY <3>3, <3>7, <4>2, <4>4, <4>6, <4>8
    <3> QED
      BY <3>4, <3>5
  <2>3. full \in done..full
    BY <1>2
  <2>4. Right(full)
    BY <2>2, <2>3
  <2> QED
    BY <2>1, <2>4
<1> QED
  BY <1>1, <1>2

-----------------------------------------------------------------------------
(* Requests and what their blocks hold *)

\* The media that clients may send.
Ids == UNION {{chunk.media[i].id : i \in 1..Len(chunk.media)} : chunk \in Texts}
Items == [id : Ids, offset : Nat, length : Nat \ {0}]

\* Media in a text of n tokens.
TextMedia(M, n) ==
  /\ M \in Seq(Items)
  /\ \A i \in 1..Len(M) : M[i].id # NoItem /\ EndOf(M[i]) <= n
  /\ \A i, j \in 1..Len(M) : i < j => EndOf(M[i]) <= M[j].offset

\* They are one after the other.
LEMMA MediaLined ==
  ASSUME NEW M, NEW n, TextMedia(M, n)
  PROVE  Lined(M) /\ \A i \in 1..Len(M) : M[i] \in Items /\ M[i].id # NoItem
<1>1. Len(M) \in Nat /\ DOMAIN M = 1..Len(M) /\ \A i \in 1..Len(M) : M[i] \in Items
  BY LenProperties, ElementOfSeq DEF TextMedia
<1>2. \A i \in 1..Len(M) : M[i].offset \in Nat /\ EndOf(M[i]) \in Nat /\ M[i].offset < EndOf(M[i])
  BY <1>1 DEF Items, EndOf
<1> QED
  BY <1>1, <1>2 DEF Lined, TextMedia

\* A text that goes on has the same media.
LEMMA MediaLonger ==
  ASSUME NEW M, NEW n \in Nat, NEW m \in Nat, TextMedia(M, n), n <= m
  PROVE  TextMedia(M, m)
<1>1. \A i \in 1..Len(M) : EndOf(M[i]) \in Nat
  BY MediaLined DEF Lined
<1> QED
  BY <1>1 DEF TextMedia

\* The media of what a client sends.
LEMMA ChunkMedia ==
  ASSUME NEW chunk \in Texts
  PROVE  TextMedia(chunk.media, Len(chunk.tokens))
<1>1. PICK M : M = chunk.media
  OBVIOUS
<1>2. M \in Seq(ToSet(M)) /\ InText(M, Len(chunk.tokens))
  BY <1>1, ConstantsOK DEF Texts
<1>3. DOMAIN M = 1..Len(M) /\ Len(M) \in Nat
  BY <1>2, LenProperties
<1>4. \A i \in 1..Len(M) : M[i] \in Items
  <2> TAKE i \in 1..Len(M)
  <2>1. M[i] \in [id : {M[i].id}, offset : Nat, length : Nat \ {0}]
    BY <1>2, <1>3 DEF InText
  <2>2. M[i].id \in Ids
    BY <1>1 DEF Ids
  <2> QED
    BY <2>1, <2>2 DEF Items
<1>5. M \in Seq(Items)
  <2>1. M \in [1..Len(M) -> Items]
    <3>1. M = [i \in 1..Len(M) |-> M[i]]
      BY <1>2, <1>3, SeqDef
    <3> QED
      BY <1>4, <3>1
  <2> QED
    BY <1>3, <2>1, SeqDef
<1> QED
  BY <1>1, <1>2, <1>3, <1>5 DEF TextMedia, InText

\* N are the media M and some that begin at position c or later.
Extends(N, M, c) ==
  /\ Len(M) <= Len(N) /\ \A i \in 1..Len(M) : N[i] = M[i]
  /\ \A i \in 1..Len(N) : i > Len(M) => c <= N[i].offset

\* The media of a text and those of a chunk after it.
LEMMA MediaAppended ==
  ASSUME NEW M, NEW c \in Nat, TextMedia(M, c), NEW N, NEW k \in Nat, TextMedia(N, k)
  PROVE  /\ TextMedia(M \o Shifted(N, c), c + k)
         /\ Extends(M \o Shifted(N, c), M, c)
<1>1. PICK T : T = Shifted(N, c)
  OBVIOUS
<1>2. Lined(M) /\ Lined(N) /\ \A i \in 1..Len(N) : N[i] \in Items /\ N[i].id # NoItem
  BY MediaLined
<1>3. PICK m, n \in Nat : m = Len(M) /\ n = Len(N) /\ DOMAIN N = 1..n
  BY <1>2 DEF Lined
<1>4. T = [i \in 1..n |-> [N[i] EXCEPT !.offset = N[i].offset + c]]
  BY <1>1, <1>3 DEF Shifted
<1>5. \A i \in 1..n : /\ T[i] \in Items /\ T[i].id = N[i].id
                      /\ T[i].offset = N[i].offset + c /\ EndOf(T[i]) = EndOf(N[i]) + c
                      /\ N[i].offset \in Nat /\ EndOf(N[i]) \in Nat
  <2> TAKE i \in 1..n
  <2>1. N[i] \in Items
    BY <1>2, <1>3
  <2>2. T[i] = [N[i] EXCEPT !.offset = N[i].offset + c]
    BY <1>4
  <2>3. /\ T[i] \in Items /\ T[i].id = N[i].id /\ T[i].offset = N[i].offset + c
        /\ T[i].length = N[i].length
    BY <2>1, <2>2 DEF Items
  <2>4. N[i].offset \in Nat /\ N[i].length \in Nat
    BY <2>1 DEF Items
  <2> QED
    BY <2>3, <2>4 DEF EndOf
<1>6. T \in Seq(Items) /\ Len(T) = n
  <2>1. T \in [1..n -> Items]
    BY <1>4, <1>5
  <2> QED
    BY <2>1, SeqDef, LenProperties
<1>7. PICK A : A = M \o T
  OBVIOUS
<1>8. /\ A \in Seq(Items) /\ Len(A) = m + n
      /\ \A i \in 1..(m + n) : A[i] = IF i <= m THEN M[i] ELSE T[i - m]
  <2>1. M \in Seq(Items)
    BY DEF TextMedia
  <2>2. /\ A \in Seq(Items) /\ Len(A) = Len(M) + Len(T)
        /\ \A i \in 1..(Len(M) + Len(T)) : A[i] = IF i <= Len(M) THEN M[i] ELSE T[i - Len(M)]
    BY <1>6, <1>7, <2>1, ConcatProperties, Zenon
  <2> QED
    BY <1>3, <1>6, <2>2
<1>9. \A i \in 1..(m + n) : i > m => i - m \in 1..n /\ A[i] = T[i - m]
  BY <1>8
<1>10. \A i \in 1..m : /\ A[i] = M[i] /\ M[i].id # NoItem
                       /\ EndOf(M[i]) \in Nat /\ EndOf(M[i]) <= c
  BY <1>2, <1>3, <1>8 DEF TextMedia, Lined
<1>11. \A i \in 1..n : T[i].id # NoItem /\ EndOf(T[i]) <= c + k /\ c <= T[i].offset
  <2> TAKE i \in 1..n
  <2>1. EndOf(N[i]) <= k /\ N[i].id # NoItem
    BY <1>3 DEF TextMedia
  <2> QED
    BY <1>5, <2>1
<1>12. \A i \in 1..(m + n) : A[i].id # NoItem /\ EndOf(A[i]) <= c + k
  <2> TAKE i \in 1..(m + n)
  <2>1. CASE i <= m
    BY <1>10, <2>1
  <2>2. CASE i > m
    BY <1>9, <1>11, <2>2
  <2> QED
    BY <2>1, <2>2
<1>13. \A i, j \in 1..(m + n) : i < j => EndOf(A[i]) <= A[j].offset
  <2> SUFFICES ASSUME NEW i \in 1..(m + n), NEW j \in 1..(m + n), i < j
               PROVE  EndOf(A[i]) <= A[j].offset
    OBVIOUS
  <2>1. CASE j <= m
    <3>1. i \in 1..m /\ j \in 1..m
      BY <2>1
    <3> QED
      BY <1>3, <1>10, <3>1 DEF TextMedia
  <2>2. CASE i <= m /\ j > m
    <3>1. i \in 1..m /\ j - m \in 1..n /\ A[j] = T[j - m]
      BY <1>9, <2>2
    <3>2. T[j - m].offset \in Nat
      BY <1>5, <3>1
    <3> QED
      BY <1>10, <1>11, <3>1, <3>2
  <2>3. CASE i > m
    <3>1. PICK x, y \in 1..n : x = i - m /\ y = j - m
      BY <2>3
    <3>2. A[i] = T[x] /\ A[j] = T[y] /\ x < y
      BY <1>9, <2>3, <3>1
    <3>3. EndOf(N[x]) <= N[y].offset
      BY <1>3, <3>2 DEF TextMedia
    <3> QED
      BY <1>5, <3>2, <3>3
  <2> QED
    BY <2>1, <2>2, <2>3
<1>14. TextMedia(A, c + k)
  BY <1>8, <1>12, <1>13 DEF TextMedia
<1>15. Extends(A, M, c)
  <2>1. Len(A) = m + n /\ Len(M) = m
    BY <1>3, <1>8
  <2>2. Len(M) <= Len(A) /\ \A i \in 1..Len(M) : A[i] = M[i]
    BY <1>10, <2>1
  <2>3. ASSUME NEW i \in 1..(m + n), i > m PROVE c <= A[i].offset
    <3>1. i - m \in 1..n /\ A[i] = T[i - m]
      BY <1>9, <2>3
    <3>2. c <= T[i - m].offset
      BY <1>11, <3>1
    <3> QED
      BY <3>1, <3>2
  <2>4. \A i \in 1..Len(A) : i > Len(M) => c <= A[i].offset
    BY <2>1, <2>3
  <2> QED
    BY <2>2, <2>4 DEF Extends
<1>16. A = M \o Shifted(N, c)
  BY <1>1, <1>7
<1> QED
  BY <1>14, <1>15, <1>16, Zenon

\* Two texts that begin alike, with media that the second extends, hold the same there.
LEMMA SameContent ==
  ASSUME NEW M, Lined(M), NEW N, Lined(N), NEW c \in Nat, Extends(N, M, c),
         NEW s \in Seq(Tokens), NEW t \in Seq(Tokens), c <= Len(s), c <= Len(t),
         \A p \in 1..c : t[p] = s[p]
  PROVE  \A p \in 1..c : Content(t, N)[p] = Content(s, M)[p]
<1> SUFFICES ASSUME NEW p \in 1..c PROVE Content(t, N)[p] = Content(s, M)[p]
  OBVIOUS
<1>1. Len(s) \in Nat /\ Len(t) \in Nat /\ p \in 1..Len(s) /\ p \in 1..Len(t)
  BY LenProperties
<1>2. PICK m, n \in Nat : m = Len(M) /\ n = Len(N) /\ DOMAIN M = 1..m /\ DOMAIN N = 1..n
  BY DEF Lined
<1>3. m <= n /\ \A i \in 1..m : N[i] = M[i]
  BY <1>2 DEF Extends
<1>4. PICK in : in = {i \in DOMAIN M : M[i].offset < p /\ p <= EndOf(M[i])}
  OBVIOUS
<1>5. \A i : i \in in <=> i \in 1..m /\ M[i].offset < p /\ p <= EndOf(M[i])
  BY <1>2, <1>4
<1>6. \A i \in 1..n : N[i].offset < p => i \in 1..m
  <2> TAKE i \in 1..n
  <2>1. N[i].offset \in Nat
    BY <1>2 DEF Lined
  <2>2. i > m => c <= N[i].offset
    BY <1>2 DEF Extends
  <2> QED
    BY <2>1, <2>2
<1>7. in = {i \in DOMAIN N : N[i].offset < p /\ p <= EndOf(N[i])}
  <2>1. \A i \in 1..m : i \in 1..n
    BY <1>3
  <2>2. \A i : i \in 1..n /\ N[i].offset < p /\ p <= EndOf(N[i]) <=> i \in in
    BY <1>3, <1>5, <1>6, <2>1
  <2> QED
    BY <1>2, <2>2
<1>8. PICK i : i = CHOOSE x \in in : TRUE
  OBVIOUS
<1>9. Content(s, M)[p] = IF in = {} THEN <<s[p], NoItem, 0>>
                         ELSE <<s[p], M[i].id, p - 1 - M[i].offset>>
  BY <1>1, <1>4, <1>8 DEF Content
<1>10. Content(t, N)[p] = IF in = {} THEN <<t[p], NoItem, 0>>
                          ELSE <<t[p], N[i].id, p - 1 - N[i].offset>>
  BY <1>1, <1>7, <1>8 DEF Content
<1>11. in # {} => N[i] = M[i]
  <2>1. in # {} => i \in in
    BY <1>8
  <2> QED
    BY <1>3, <1>5, <2>1
<1> QED
  BY <1>9, <1>10, <1>11

-----------------------------------------------------------------------------
(* Requests whose hashes are right *)

\* What the positions of a request hold.
ContentOf(u) == Content(u.all_token_ids, u.mm_features)

\* The right hashes for the full blocks of a request, up to n.
PrintsOf(u, n) == Prints(u.tags, ContentOf(u), BlockSize, n)

\* Its media are in its text and its hashes are right.
GoodRequest(u) ==
  /\ IsRequest(u)
  /\ TextMedia(u.mm_features, Len(u.all_token_ids))
  /\ u.block_hashes = PrintsOf(u, Len(u.all_token_ids) \div BlockSize)

\* The cells of its blocks hold what the request says, as far as it has computed.
Holding(u, cells) ==
  /\ Len(cells) \in 0..Len(u.all_token_ids)
  /\ cells = [p \in 1..Len(cells) |-> ContentOf(u)[p]]
  /\ u.num_computed_tokens \in 0..Len(cells)

\* Two requests of the same text, media, hashes and tags.
SameText(u, v) ==
  /\ v.all_token_ids = u.all_token_ids /\ v.mm_features = u.mm_features
  /\ v.block_hashes = u.block_hashes /\ v.tags = u.tags

\* What is right of one is right of the other.
LEMMA SameTextGood ==
  ASSUME NEW u, GoodRequest(u), NEW v, IsRequest(v), SameText(u, v), NEW cells
  PROVE  /\ GoodRequest(v) /\ ContentOf(v) = ContentOf(u)
         /\ Holding(u, cells) /\ v.num_computed_tokens \in 0..Len(cells) => Holding(v, cells)
<1>1. ContentOf(v) = ContentOf(u) /\ \A n : PrintsOf(v, n) = PrintsOf(u, n)
  BY DEF SameText, ContentOf, PrintsOf
<1> QED
  BY <1>1 DEF SameText, GoodRequest, Holding

\* The blocks completed by the step from u to v hold no item but the last of v.
LastGrows(u, v) ==
  Len(v.block_hashes) > Len(u.block_hashes) =>
    \A i \in 1..(Len(v.mm_features) - 1) :
       EndOf(v.mm_features[i]) <= Len(u.block_hashes) * BlockSize

\* Then the hasher may begin at the last.
LEMMA StartsLast ==
  ASSUME NEW M, NEW n, TextMedia(M, n), NEW h, NEW done \in Nat, Sized(h, done),
         done > 0 => \A i \in 1..(Len(M) - 1) : EndOf(M[i]) <= done * BlockSize
  PROVE  Started(M, StartIndex(h), done * BlockSize)
<1> SUFFICES ASSUME M # <<>>
             PROVE  /\ FirstItem(M, StartIndex(h)) \in 1..(Len(M) + 1)
                    /\ \A j \in 1..Len(M) : j < FirstItem(M, StartIndex(h)) =>
                         EndOf(M[j]) <= done * BlockSize
  BY DEF Started
<1>1. PICK m \in Nat : m = Len(M) /\ m # 0
  <2>1. M \in Seq(Items)
    BY DEF TextMedia
  <2> QED
    BY <2>1, EmptySeq, LenProperties
<1>2. h = <<>> <=> done = 0
  <2>1. PICK S : h \in Seq(S) /\ Len(h) = done
    BY DEF Sized
  <2> QED
    BY <2>1, EmptySeq
<1>3. CASE done = 0
  <2>1. FirstItem(M, StartIndex(h)) = 1
    BY <1>2, <1>3 DEF StartIndex, FirstItem
  <2> QED
    BY <1>1, <2>1
<1>4. CASE done # 0
  <2>1. FirstItem(M, StartIndex(h)) = m
    BY <1>1, <1>2, <1>4 DEF StartIndex, FirstItem
  <2>2. \A j \in 1..m : j < m => j \in 1..(m - 1)
    OBVIOUS
  <2> QED
    BY <1>1, <1>4, <2>1, <2>2
<1> QED
  BY <1>3, <1>4

\* What hashing leaves as it is, and how many hashes there are after.
LEMMA HashedParts ==
  ASSUME NEW u, IsRequest(u), NEW done \in Nat, Sized(u.block_hashes, done),
         NEW full, full = Len(u.all_token_ids) \div BlockSize
  PROVE  /\ WithHashes(u).mm_features = u.mm_features /\ WithHashes(u).tags = u.tags
         /\ WithHashes(u).block_hashes = Hashed(u, BlockSize)
         /\ full \in Nat
         /\ Sized(WithHashes(u).block_hashes, IF done < full THEN full ELSE done)
<1>1. /\ WithHashes(u).mm_features = u.mm_features /\ WithHashes(u).tags = u.tags
      /\ WithHashes(u).block_hashes = Hashed(u, BlockSize)
  BY DEF WithHashes, IsRequest, Fields
<1>2. full \in Nat
  <2>1. PICK n \in Nat : n = Len(u.all_token_ids)
    BY LenProperties DEF IsRequest
  <2>2. full = n \div BlockSize
    BY <2>1
  <2>3. BlockSize \in Nat \ {0}
    BY ConstantsOK
  <2> QED
    BY <2>2, <2>3, FullBlocks
<1>3. Sized(Hashed(u, BlockSize), IF done < full THEN full ELSE done)
  BY <1>2, HashedSized
<1> QED
  BY <1>1, <1>2, <1>3

\* A request with the hashes of its first blocks gets those of all.
LEMMA HashedGood ==
  ASSUME NEW u, IsRequest(u), TextMedia(u.mm_features, Len(u.all_token_ids)),
         NEW done \in Nat, u.block_hashes = PrintsOf(u, done),
         NEW full, IsFull(full, u.all_token_ids, BlockSize), done <= full,
         done < full => Started(u.mm_features, StartIndex(u.block_hashes), done * BlockSize)
  PROVE  GoodRequest(WithHashes(u)) /\ ContentOf(WithHashes(u)) = ContentOf(u)
<1>1. PICK M, tokens, size : /\ M = u.mm_features /\ tokens = u.all_token_ids
                             /\ size = BlockSize
  OBVIOUS
<1>2. /\ Lined(M) /\ \A i \in 1..Len(M) : M[i].id # NoItem
      /\ tokens \in Seq(Tokens) /\ size \in Nat \ {0}
  BY <1>1, MediaLined, ConstantsOK DEF IsRequest
<1>3. PICK C : C = Content(tokens, M)
  OBVIOUS
<1>4. u.block_hashes = Prints(u.tags, C, size, done)
  BY <1>1, <1>3 DEF PrintsOf, ContentOf
<1>5. Sized(u.block_hashes, done)
  BY <1>4, PrintsSized
<1>6. PICK w : w = WithHashes(u)
  OBVIOUS
<1>7. /\ w.mm_features = M /\ w.tags = u.tags /\ w.block_hashes = Hashed(u, size)
      /\ full \in Nat
  BY <1>1, <1>5, <1>6, HashedParts DEF IsFull
<1>8. IsRequest(w) /\ w.all_token_ids = tokens
  BY <1>1, <1>6, HashedFields
<1>9. Hashed(u, size) = Prints(u.tags, C, size, full)
  <2>1. IsFull(full, tokens, size) /\ (done < full => Started(M, StartIndex(u.block_hashes), done * size))
    BY <1>1
  <2> QED
    BY <1>1, <1>2, <1>3, <1>4, <1>7, <2>1, HashedRight
<1>10. ContentOf(w) = C /\ ContentOf(u) = C
  BY <1>1, <1>3, <1>7, <1>8 DEF ContentOf
<1>11. w.block_hashes = PrintsOf(w, Len(w.all_token_ids) \div BlockSize)
  BY <1>1, <1>7, <1>8, <1>9, <1>10 DEF PrintsOf, IsFull
<1>12. GoodRequest(w)
  BY <1>1, <1>7, <1>8, <1>11 DEF GoodRequest
<1> QED
  BY <1>6, <1>10, <1>12

\* The hashes of blocks that hold the same in two requests are the same.
LEMMA SamePrints ==
  ASSUME NEW u, NEW v, v.tags = u.tags, NEW c \in Nat,
         \A p \in 1..c : ContentOf(v)[p] = ContentOf(u)[p],
         NEW n \in Nat, n * BlockSize <= c
  PROVE  PrintsOf(v, n) = PrintsOf(u, n)
<1>1. PICK C, D, size : C = ContentOf(u) /\ D = ContentOf(v) /\ size = BlockSize
  OBVIOUS
<1>2. size \in Nat \ {0} /\ n * size <= c /\ \A p \in 1..c : D[p] = C[p]
  BY <1>1, ConstantsOK
<1>3. ASSUME NEW b \in 1..n
      PROVE  Fingerprint(u.tags, D, size, b) = Fingerprint(u.tags, C, size, b)
  <2>1. b \in Nat /\ b <= n
    OBVIOUS
  <2>2. b * size <= n * size /\ b * size \in Nat /\ n * size \in Nat
    BY <1>2, <2>1, BlocksEnd
  <2>3. \A p \in 1..(b * size) : D[p] = C[p]
    <3> TAKE p \in 1..(b * size)
    <3>1. p \in 1..c
      BY <1>2, <2>2
    <3> QED
      BY <1>2, <3>1
  <2> QED
    BY <1>2, <2>1, <2>3, FingerprintLocal
<1> QED
  BY <1>1, <1>3 DEF PrintsOf, Prints

\* A function on 1..n is a sequence.
LEMMA FunctionSized ==
  ASSUME NEW n \in Nat, NEW f, f = [i \in 1..n |-> f[i]]
  PROVE  Sized(f, n) /\ Len(f) = n
<1>1. PICK S : S = {f[i] : i \in 1..n}
  OBVIOUS
<1>2. f \in [1..n -> S]
  BY <1>1
<1>3. f \in Seq(S) /\ Len(f) = n
  BY <1>2, SeqDef, LenProperties
<1> QED
  BY <1>3 DEF Sized

\* c is the m elements of a, then the n elements of b.
Joined(c, a, m, b, n) ==
  c = [i \in 1..(m + n) |-> IF i <= m THEN a[i] ELSE b[i - m]]

\* What a concatenation is.
LEMMA ConcatSized ==
  ASSUME NEW a, NEW m \in Nat, Sized(a, m), NEW b, NEW n \in Nat, Sized(b, n)
  PROVE  Joined(a \o b, a, m, b, n)
<1>1. PICK S : a \in Seq(S) /\ Len(a) = m
  BY DEF Sized
<1>2. PICK T : b \in Seq(T) /\ Len(b) = n
  BY DEF Sized
<1>3. PICK U : U = S \cup T
  OBVIOUS
<1>4. a \in Seq(U) /\ b \in Seq(U)
  <2>1. a \in [1..m -> S] /\ b \in [1..n -> T]
    BY <1>1, <1>2, SeqDef, LenProperties
  <2>2. a \in [1..m -> U] /\ b \in [1..n -> U]
    BY <1>3, <2>1
  <2> QED
    BY <2>2, SeqDef
<1>5. PICK c : c = a \o b
  OBVIOUS
<1>6. /\ c \in Seq(U) /\ Len(c) = Len(a) + Len(b)
      /\ \A i \in 1..(Len(a) + Len(b)) : c[i] = IF i <= Len(a) THEN a[i] ELSE b[i - Len(a)]
  BY <1>4, <1>5, ConcatProperties, Zenon
<1>7. /\ c \in Seq(U) /\ Len(c) = m + n
      /\ \A i \in 1..(m + n) : c[i] = IF i <= m THEN a[i] ELSE b[i - m]
  BY <1>1, <1>2, <1>6
<1>8. c = [i \in 1..(m + n) |-> c[i]]
  BY <1>7, SeqDef, LenProperties
<1>9. c = [i \in 1..(m + n) |-> IF i <= m THEN a[i] ELSE b[i - m]]
  BY <1>7, <1>8
<1> QED
  BY <1>5, <1>9 DEF Joined

\* More tokens, no fewer full blocks.
LEMMA FullMore ==
  ASSUME NEW a \in Nat, NEW b \in Nat, a <= b, NEW size \in Nat \ {0}, NEW p, p = a \div size,
         NEW q, q = b \div size
  PROVE  p <= q
<1>1. /\ p \in Nat /\ q \in Nat /\ p * size \in Nat /\ p * size <= a
      /\ q * size \in Nat /\ b < q * size + size
  BY FullBlocks
<1>2. SUFFICES ASSUME q + 1 <= p PROVE FALSE
  BY <1>1
<1>3. (q + 1) * size <= p * size
  BY <1>1, <1>2, BlocksEnd
<1>4. (q + 1) * size = q * size + size
  BY <1>1
<1> QED
  BY <1>1, <1>3, <1>4

\* A token that does not complete a block leaves as many full blocks.
LEMMA FullSame ==
  ASSUME NEW n \in Nat, NEW size \in Nat \ {0}, n % size # 0
  PROVE  n # 0 /\ n \div size = (n - 1) \div size
<1>1. n # 0
  OBVIOUS
<1>2. PICK q, r : q = n \div size /\ r = n % size
  OBVIOUS
<1>3. q \in Nat /\ r \in 0..(size - 1) /\ n = q * size + r /\ q * size \in Nat
  BY <1>2
<1>4. PICK m \in Nat : m = n - 1
  BY <1>1
<1>5. PICK x : x = m \div size
  OBVIOUS
<1>6. x \in Nat /\ x * size \in Nat /\ x * size <= m /\ m < x * size + size
  BY <1>5, FullBlocks
<1>7. q * size <= m /\ m < q * size + size
  BY <1>2, <1>3, <1>4
<1>8. ~(q + 1 <= x)
  <2> SUFFICES ASSUME q + 1 <= x PROVE FALSE
    OBVIOUS
  <2>1. (q + 1) * size <= x * size
    BY <1>3, <1>6, BlocksEnd
  <2>2. (q + 1) * size = q * size + size
    BY <1>3
  <2> QED
    BY <1>3, <1>6, <1>7, <2>1, <2>2
<1>9. ~(x + 1 <= q)
  <2> SUFFICES ASSUME x + 1 <= q PROVE FALSE
    OBVIOUS
  <2>1. (x + 1) * size <= q * size
    BY <1>3, <1>6, BlocksEnd
  <2>2. (x + 1) * size = x * size + size
    BY <1>6
  <2> QED
    BY <1>3, <1>6, <1>7, <2>1, <2>2
<1>10. x = q
  BY <1>3, <1>6, <1>8, <1>9
<1> QED
  BY <1>1, <1>2, <1>4, <1>5, <1>10

\* The texts of u and v are the same up to position c, and so are the full blocks of u.
SamePast(u, v, c) ==
  /\ c <= Len(u.all_token_ids) /\ c <= Len(v.all_token_ids)
  /\ Len(u.all_token_ids) \div BlockSize = c \div BlockSize
  /\ \A p \in 1..c : v.all_token_ids[p] = u.all_token_ids[p]

\* Hashed, v is right and holds the same as u up to there.
KeepsPast(u, v, c) ==
  /\ GoodRequest(WithHashes(v))
  /\ ContentOf(WithHashes(v)) = ContentOf(v)
  /\ \A p \in 1..c : ContentOf(WithHashes(v))[p] = ContentOf(u)[p]

\* A request whose text changes after position c, in the last block that is not full, and
\* whose blocks completed by that hold no item but the last.
LEMMA TextChanged ==
  ASSUME NEW u, GoodRequest(u), NEW v, IsRequest(v), v.block_hashes = u.block_hashes,
         v.tags = u.tags, NEW c \in Nat, SamePast(u, v, c),
         TextMedia(v.mm_features, Len(v.all_token_ids)),
         Extends(v.mm_features, u.mm_features, c), LastGrows(u, WithHashes(v))
  PROVE  KeepsPast(u, v, c)
<1>0. /\ c <= Len(u.all_token_ids) /\ c <= Len(v.all_token_ids)
      /\ Len(u.all_token_ids) \div BlockSize = c \div BlockSize
      /\ \A p \in 1..c : v.all_token_ids[p] = u.all_token_ids[p]
  BY DEF SamePast
<1>1. PICK M, N : M = u.mm_features /\ N = v.mm_features
  OBVIOUS
<1>2. Lined(M) /\ Lined(N)
  BY <1>1, MediaLined DEF GoodRequest
<1>3. PICK n \in Nat : n = Len(v.all_token_ids)
  BY LenProperties DEF IsRequest
<1>4. PICK done : done = c \div BlockSize
  OBVIOUS
<1>5. BlockSize \in Nat \ {0}
  BY ConstantsOK
<1>6. done \in Nat /\ done * BlockSize \in Nat /\ done * BlockSize <= c
  BY <1>4, <1>5, FullBlocks
<1>7. PICK full : full = n \div BlockSize
  OBVIOUS
<1>8. done <= full
  <2>1. c <= n
    BY <1>0, <1>3
  <2> QED
    BY <1>4, <1>5, <1>7, <2>1, FullMore
<1>9. \A p \in 1..c : ContentOf(v)[p] = ContentOf(u)[p]
  <2>1. u.all_token_ids \in Seq(Tokens) /\ v.all_token_ids \in Seq(Tokens)
    BY DEF GoodRequest, IsRequest
  <2> QED
    BY <1>0, <1>1, <1>2, <2>1, SameContent DEF ContentOf
<1>10. u.block_hashes = PrintsOf(u, done)
  BY <1>0, <1>4 DEF GoodRequest
<1>11. v.block_hashes = PrintsOf(v, done)
  BY <1>6, <1>9, <1>10, SamePrints
<1>12. Sized(v.block_hashes, done) /\ Len(u.block_hashes) = done
  BY <1>6, <1>10, PrintsSized DEF PrintsOf
<1>13. PICK w : w = WithHashes(v)
  OBVIOUS
<1>14. /\ w.mm_features = N /\ full \in Nat
       /\ Sized(w.block_hashes, IF done < full THEN full ELSE done)
  BY <1>1, <1>3, <1>6, <1>7, <1>12, <1>13, HashedParts
<1>15. ASSUME done < full PROVE Started(N, StartIndex(v.block_hashes), done * BlockSize)
  <2>1. Len(w.block_hashes) = full
    BY <1>14, <1>15 DEF Sized
  <2>2. \A i \in 1..(Len(N) - 1) : EndOf(N[i]) <= done * BlockSize
    <3>1. Len(w.block_hashes) > Len(u.block_hashes)
      BY <1>6, <1>12, <1>14, <1>15, <2>1
    <3> QED
      BY <1>12, <1>13, <1>14, <3>1 DEF LastGrows
  <2> QED
    BY <1>1, <1>6, <1>12, <2>2, StartsLast
<1>16. GoodRequest(w) /\ ContentOf(w) = ContentOf(v)
  <2>1. IsFull(full, v.all_token_ids, BlockSize)
    BY <1>3, <1>7 DEF IsFull
  <2> QED
    BY <1>1, <1>6, <1>8, <1>11, <1>13, <1>15, <2>1, HashedGood
<1> QED
  BY <1>9, <1>13, <1>16 DEF KeepsPast

\* What a step leaves in the blocks: the accepted drafts are computed.
WrittenTo(cells, out) == cells \o [i \in 1..(Len(out) - 1) |-> <<out[i], NoItem, 0>>]

\* A request that has computed all it is told, before and after it samples.
Caught(u, cells) ==
  /\ GoodRequest(u) /\ Holding(u, cells)
  /\ Len(cells) = Len(u.all_token_ids) /\ u.num_computed_tokens = Len(cells)

\* u after a step that sampled out, of which k tokens are kept, not yet hashed.
Extended(u, out, k) ==
  [u EXCEPT !.all_token_ids = u.all_token_ids \o SubSeq(out, 1, k),
            !.num_computed_tokens = u.num_computed_tokens + Len(out) - 1,
            !.num_output = u.num_output + k]

\* v is u, of n tokens, with the first k of m sampled tokens.
IsExtended(u, v, out, n, m, k) ==
  /\ IsRequest(v) /\ k \in 1..m /\ Len(v.all_token_ids) = n + k
  /\ \A p \in 1..n : v.all_token_ids[p] = u.all_token_ids[p]
  /\ \A i \in 1..k : v.all_token_ids[n + i] = out[i]
  /\ v.num_computed_tokens = u.num_computed_tokens + m - 1
  /\ v.mm_features = u.mm_features /\ v.block_hashes = u.block_hashes /\ v.tags = u.tags
  /\ v.status = u.status /\ v.streaming_queue = u.streaming_queue

\* The text of a request after it samples.
LEMMA ExtendedParts ==
  ASSUME NEW u, IsRequest(u), NEW out \in Outputs, NEW k \in DOMAIN out,
         NEW v, v = Extended(u, out, k), NEW n \in Nat, n = Len(u.all_token_ids),
         NEW m \in Nat, m = Len(out)
  PROVE  IsExtended(u, v, out, n, m, k)
<1>1. PICK tokens \in Seq(Tokens) : tokens = u.all_token_ids
  BY DEF IsRequest
<1>2. k \in 1..m /\ m >= 1 /\ out \in Seq(Tokens)
  BY OutputTypes
<1>3. PICK new : new = SubSeq(out, 1, k)
  OBVIOUS
<1>4. new \in Seq(Tokens) /\ Len(new) = k /\ \A i \in 1..k : new[i] = out[i]
  <2>1. \A i \in 1..k : out[i] \in Tokens
    BY <1>2, ElementOfSeq
  <2>2. PICK x \in Nat : x = k
    BY <1>2
  <2>3. /\ SubSeq(out, 1, x) \in Seq(Tokens)
        /\ Len(SubSeq(out, 1, x)) = IF 1 <= x THEN x - 1 + 1 ELSE 0
        /\ \A i \in 1..(x - 1 + 1) : SubSeq(out, 1, x)[i] = out[1 + i - 1]
    BY <1>2, <2>1, <2>2, SubSeqProperties
  <2>4. 1 <= x /\ x - 1 + 1 = x /\ \A i \in 1..x : 1 + i - 1 = i
    BY <1>2, <2>2
  <2> QED
    BY <1>3, <2>2, <2>3, <2>4
<1>5. PICK text : text = tokens \o new
  OBVIOUS
<1>6. /\ text \in Seq(Tokens) /\ Len(text) = n + k
      /\ \A i \in 1..(n + k) : text[i] = IF i <= n THEN tokens[i] ELSE new[i - n]
  <2>1. /\ text \in Seq(Tokens) /\ Len(text) = Len(tokens) + Len(new)
        /\ \A i \in 1..(Len(tokens) + Len(new)) :
             text[i] = IF i <= Len(tokens) THEN tokens[i] ELSE new[i - Len(tokens)]
    BY <1>4, <1>5, ConcatProperties, Zenon
  <2> QED
    BY <1>1, <1>4, <2>1
<1>7. \A p \in 1..n : text[p] = tokens[p]
  <2> TAKE p \in 1..n
  <2>1. p \in 1..(n + k) /\ p <= n
    BY <1>2
  <2> QED
    BY <1>6, <2>1
<1>8. \A i \in 1..k : text[n + i] = out[i]
  <2> TAKE i \in 1..k
  <2>1. PICK p : p = n + i
    OBVIOUS
  <2>2. p \in 1..(n + k) /\ ~(p <= n) /\ p - n = i
    BY <1>2, <2>1
  <2>3. text[p] = new[i]
    BY <1>6, <2>2
  <2> QED
    BY <1>4, <2>1, <2>3
<1>9. PICK c : c = u.num_computed_tokens + m - 1
  OBVIOUS
<1>10. c \in Nat
  <2>1. u.num_computed_tokens \in Nat
    BY DEF IsRequest
  <2> QED
    BY <1>2, <1>9, <2>1
<1>11. PICK o : o = u.num_output + k
  OBVIOUS
<1>12. v = [u EXCEPT !.all_token_ids = text, !.num_computed_tokens = c, !.num_output = o]
  BY <1>1, <1>3, <1>5, <1>9, <1>11 DEF Extended
<1>13. IsRequest(v) /\ v.all_token_ids = text /\ v.num_computed_tokens = c
       /\ v.mm_features = u.mm_features /\ v.block_hashes = u.block_hashes /\ v.tags = u.tags
       /\ v.status = u.status /\ v.streaming_queue = u.streaming_queue
  BY <1>6, <1>10, <1>12 DEF IsRequest, Fields
<1> QED
  BY <1>1, <1>2, <1>6, <1>7, <1>8, <1>9, <1>13 DEF IsExtended

\* A step that samples, with at most one draft: the request is right, its blocks hold all it
\* has computed, which is its text but perhaps for the last token.
LEMMA SampledGood ==
  ASSUME MaxSampled <= 2, NEW u, NEW cells, Caught(u, cells), NEW out \in Outputs,
         NEW k \in DOMAIN out, NEW w, w = WithHashes(Extended(u, out, k)), LastGrows(u, w),
         NEW after, after = WrittenTo(cells, out), NEW n \in Nat, n = Len(u.all_token_ids)
  PROVE  /\ GoodRequest(w) /\ Holding(w, after) /\ w.num_computed_tokens = Len(after)
         /\ Len(w.all_token_ids) = n + k
         /\ w.num_computed_tokens = n + Len(out) - 1
         /\ Len(out) \in 1..2 /\ k \in 1..Len(out)
         /\ TextMedia(w.mm_features, w.num_computed_tokens)
         /\ w.status = u.status /\ w.streaming_queue = u.streaming_queue
<1>1. PICK m \in Nat : m = Len(out) /\ m \in 1..2 /\ k \in 1..m
  <2>1. PICK x \in 1..MaxSampled : out \in [1..x -> Samples]
    BY DEF Outputs
  <2>2. x \in 1..2
    BY <2>1, ConstantsOK
  <2>3. Len(out) = x /\ k \in 1..x
    <3>1. Len(out) \in Nat /\ out \in Seq(Tokens)
      BY OutputTypes
    <3>2. DOMAIN out = 1..x /\ DOMAIN out = 1..Len(out)
      BY <2>1, <3>1, LenProperties
    <3>3. x \in Nat
      BY <2>2
    <3>4. Len(out) = x
      <4>1. x \in 1..Len(out) /\ Len(out) \in 1..x
        <5>1. Len(out) >= 1
          BY OutputTypes
        <5>2. x \in 1..x /\ Len(out) \in 1..Len(out)
          BY <2>2, <3>1, <5>1
        <5> QED
          BY <3>2, <5>2
      <4> QED
        BY <3>1, <3>3, <4>1
    <3> QED
      BY <3>2, <3>4
  <2> QED
    BY <2>2, <2>3
<1>2. /\ GoodRequest(u) /\ Holding(u, cells) /\ Len(cells) = n
      /\ u.num_computed_tokens = n
  BY DEF Caught
<1>3. PICK v : v = Extended(u, out, k)
  OBVIOUS
<1>4. /\ IsRequest(v) /\ Len(v.all_token_ids) = n + k
      /\ \A p \in 1..n : v.all_token_ids[p] = u.all_token_ids[p]
      /\ \A i \in 1..k : v.all_token_ids[n + i] = out[i]
      /\ v.num_computed_tokens = n + m - 1
      /\ v.mm_features = u.mm_features /\ v.block_hashes = u.block_hashes /\ v.tags = u.tags
      /\ v.status = u.status /\ v.streaming_queue = u.streaming_queue
  <2>1. IsRequest(u)
    BY <1>2 DEF GoodRequest
  <2>2. IsExtended(u, v, out, n, m, k)
    BY <1>1, <1>3, <2>1, ExtendedParts
  <2> QED
    BY <1>2, <2>2 DEF IsExtended
<1>5. PICK M : M = u.mm_features
  OBVIOUS
<1>6. TextMedia(M, n) /\ TextMedia(M, n + k) /\ TextMedia(M, n + m - 1) /\ Lined(M)
  <2>1. TextMedia(M, n)
    BY <1>2, <1>5 DEF GoodRequest
  <2>2. n + k \in Nat /\ n <= n + k /\ n + m - 1 \in Nat /\ n <= n + m - 1
    BY <1>1
  <2> QED
    BY <2>1, <2>2, MediaLonger, MediaLined
<1>7. Extends(M, M, n)
  <2>1. Len(M) \in Nat
    BY <1>6 DEF Lined
  <2> QED
    BY <2>1 DEF Extends
<1>8. /\ GoodRequest(w) /\ ContentOf(w) = ContentOf(v)
      /\ \A p \in 1..n : ContentOf(w)[p] = ContentOf(u)[p]
  <2>1. SamePast(u, v, n)
    <3>1. n <= n + k /\ n <= n
      BY <1>1
    <3> QED
      BY <1>4, <3>1 DEF SamePast
  <2>2. TextMedia(v.mm_features, Len(v.all_token_ids)) /\ Extends(v.mm_features, u.mm_features, n)
    BY <1>4, <1>5, <1>6, <1>7
  <2>3. LastGrows(u, WithHashes(v))
    BY <1>3
  <2>4. KeepsPast(u, v, n)
    BY <1>2, <1>4, <2>1, <2>2, <2>3, TextChanged
  <2> QED
    BY <1>3, <2>4 DEF KeepsPast
<1>9. /\ w.all_token_ids = v.all_token_ids /\ w.num_computed_tokens = n + m - 1
      /\ w.status = u.status /\ w.streaming_queue = u.streaming_queue
  BY <1>3, <1>4, HashedFields
<1>10. w.mm_features = M
  BY <1>3, <1>4, <1>5 DEF WithHashes, IsRequest, Fields
<1>11. PICK e : e = [i \in 1..(m - 1) |-> <<out[i], NoItem, 0>>]
  OBVIOUS
<1>12. Joined(after, cells, n, e, m - 1)
  <2>1. m - 1 \in Nat
    BY <1>1
  <2>2. Sized(e, m - 1)
    <3>1. e = [i \in 1..(m - 1) |-> e[i]]
      BY <1>11
    <3> QED
      BY <2>1, <3>1, FunctionSized
  <2>3. Sized(cells, n)
    <3>1. cells = [p \in 1..n |-> cells[p]]
      BY <1>2 DEF Holding
    <3> QED
      BY <3>1, FunctionSized
  <2>4. after = cells \o e
    BY <1>1, <1>11 DEF WrittenTo
  <2>5. Joined(cells \o e, cells, n, e, m - 1)
    BY <2>1, <2>2, <2>3, ConcatSized, Zenon
  <2> QED
    BY <2>4, <2>5
<1>13. PICK l \in Nat : l = n + (m - 1) /\ l = n + m - 1 /\ l <= n + k /\ l <= n + 1
  <2>1. PICK l : l = n + (m - 1)
    OBVIOUS
  <2>2. m - 1 \in Nat /\ m - 1 <= k /\ m - 1 <= 1 /\ k \in Nat
    BY <1>1
  <2>3. l \in Nat /\ l = n + m - 1 /\ l <= n + k /\ l <= n + 1
    BY <2>1, <2>2
  <2> QED
    BY <2>1, <2>3
<1>14. ASSUME NEW p \in 1..l
       PROVE  (IF p <= n THEN cells[p] ELSE e[p - n]) = ContentOf(w)[p]
  <2>1. CASE p <= n
    <3>1. p \in 1..n
      BY <2>1
    <3>2. cells[p] = ContentOf(u)[p]
      BY <1>2, <3>1 DEF Holding
    <3> QED
      BY <1>8, <2>1, <3>1, <3>2
  <2>2. CASE ~(p <= n)
    <3>1. p = n + 1 /\ m = 2 /\ p - n = 1 /\ 1 \in 1..(m - 1) /\ 1 \in 1..k /\ p \in 1..(n + k)
      BY <1>1, <1>13, <2>2
    <3>2. e[1] = <<out[1], NoItem, 0>>
      BY <1>11, <3>1
    <3>3. \A i \in DOMAIN M : ~(p <= EndOf(M[i]))
      <4> TAKE i \in DOMAIN M
      <4>1. EndOf(M[i]) \in Nat /\ EndOf(M[i]) <= n
        BY <1>6 DEF Lined, TextMedia
      <4> QED
        BY <3>1, <4>1
    <3>4. {i \in DOMAIN M : M[i].offset < p /\ p <= EndOf(M[i])} = {}
      BY <3>3
    <3>5. Content(v.all_token_ids, M)[p] = <<v.all_token_ids[p], NoItem, 0>>
      BY <1>4, <3>1, <3>4 DEF Content
    <3>6. v.all_token_ids[p] = out[1]
      BY <1>4, <3>1
    <3> QED
      BY <1>4, <1>5, <1>8, <2>2, <3>1, <3>2, <3>5, <3>6 DEF ContentOf
  <2> QED
    BY <2>1, <2>2
<1>15. after = [p \in 1..l |-> ContentOf(w)[p]] /\ Len(after) = l
  <2>1. after = [p \in 1..l |-> IF p <= n THEN cells[p] ELSE e[p - n]]
    BY <1>12, <1>13 DEF Joined
  <2>2. after = [p \in 1..l |-> ContentOf(w)[p]]
    BY <1>14, <2>1
  <2>3. after = [p \in 1..l |-> after[p]]
    BY <2>1
  <2> QED
    BY <2>2, <2>3, FunctionSized
<1>16. Holding(w, after)
  BY <1>1, <1>4, <1>9, <1>13, <1>15 DEF Holding
<1> QED
  BY <1>1, <1>4, <1>6, <1>8, <1>9, <1>10, <1>13, <1>15, <1>16

\* A session that stopped: all its media are computed, and what it loses when it goes on is
\* in no full block.
Stopped(u, cells) ==
  /\ GoodRequest(u) /\ Holding(u, cells) /\ u.num_computed_tokens = Len(cells)
  /\ TextMedia(u.mm_features, u.num_computed_tokens)
  /\ Len(u.all_token_ids) \div BlockSize = u.num_computed_tokens \div BlockSize

\* A session that goes on: the request is right, its blocks hold what it has computed.
LEMMA ResumedGood ==
  ASSUME NEW u, NEW cells, Stopped(u, cells), NEW chunk \in Chunks,
         NEW w, w = Resumed(u, chunk), LastGrows(u, w)
  PROVE  GoodRequest(w) /\ Holding(w, cells)
<1>1. PICK c \in Nat, n \in Nat : c = u.num_computed_tokens /\ n = Len(u.all_token_ids) /\ c <= n
  <2>1. IsRequest(u) /\ Holding(u, cells)
    BY DEF Stopped, GoodRequest
  <2>2. Len(u.all_token_ids) \in Nat
    BY <2>1, LenProperties DEF IsRequest
  <2> QED
    BY <2>1, <2>2 DEF Holding
<1>2. IsRequest(u) /\ GoodRequest(u) /\ Holding(u, cells) /\ c = Len(cells)
  BY <1>1 DEF Stopped, GoodRequest
<1>3. PICK tokens \in Seq(Tokens) : tokens = u.all_token_ids
  BY <1>2 DEF IsRequest
<1>4. PICK kept : kept = SubSeq(tokens, 1, c)
  OBVIOUS
<1>5. kept \in Seq(Tokens) /\ Len(kept) = c /\ \A i \in 1..c : kept[i] = tokens[i]
  <2>1. \A i \in 1..c : tokens[i] \in Tokens
    BY <1>1, <1>3, ElementOfSeq
  <2>2. /\ SubSeq(tokens, 1, c) \in Seq(Tokens)
        /\ Len(SubSeq(tokens, 1, c)) = IF 1 <= c THEN c - 1 + 1 ELSE 0
        /\ \A i \in 1..(c - 1 + 1) : SubSeq(tokens, 1, c)[i] = tokens[1 + i - 1]
    BY <1>1, <1>3, <2>1, SubSeqProperties
  <2>3. c - 1 + 1 = c /\ (~(1 <= c) => c = 0) /\ \A i \in 1..c : 1 + i - 1 = i
    OBVIOUS
  <2> QED
    BY <1>4, <2>2, <2>3
<1>6. PICK k \in Nat : k = Len(chunk.tokens) /\ chunk.tokens \in Seq(Tokens)
  BY TextTypes, LenProperties DEF Texts
<1>7. PICK text : text = kept \o chunk.tokens
  OBVIOUS
<1>8. /\ text \in Seq(Tokens) /\ Len(text) = c + k
      /\ \A i \in 1..c : text[i] = tokens[i]
  <2>1. /\ text \in Seq(Tokens) /\ Len(text) = Len(kept) + Len(chunk.tokens)
        /\ \A i \in 1..(Len(kept) + Len(chunk.tokens)) :
             text[i] = IF i <= Len(kept) THEN kept[i] ELSE chunk.tokens[i - Len(kept)]
    BY <1>5, <1>6, <1>7, ConcatProperties, Zenon
  <2>2. \A i \in 1..c : i \in 1..(c + k) /\ i <= c
    BY <1>6
  <2> QED
    BY <1>5, <1>6, <2>1, <2>2
<1>9. PICK media : media = u.mm_features \o Shifted(chunk.media, c)
  OBVIOUS
<1>10. TextMedia(media, c + k) /\ Extends(media, u.mm_features, c)
  <2>1. TextMedia(chunk.media, k)
    BY <1>6, ChunkMedia DEF Texts
  <2>2. TextMedia(u.mm_features, c)
    BY <1>1 DEF Stopped
  <2> QED
    BY <1>1, <1>6, <1>9, <2>1, <2>2, MediaAppended
<1>11. PICK v : v = [u EXCEPT !.all_token_ids = text, !.mm_features = media,
                              !.num_output = 0, !.status = "WAITING"]
  OBVIOUS
<1>12. /\ IsRequest(v) /\ v.all_token_ids = text /\ v.mm_features = media
       /\ v.num_computed_tokens = c /\ v.block_hashes = u.block_hashes /\ v.tags = u.tags
  BY <1>1, <1>2, <1>8, <1>11 DEF IsRequest, Fields, Statuses
<1>13. w = WithHashes(v)
  <2>1. c = IF u.num_computed_tokens < Len(u.all_token_ids)
            THEN u.num_computed_tokens ELSE Len(u.all_token_ids)
    BY <1>1
  <2> QED
    BY <1>3, <1>4, <1>7, <1>9, <1>11, <2>1 DEF Resumed
<1>14. /\ GoodRequest(w) /\ ContentOf(w) = ContentOf(v)
       /\ \A p \in 1..c : ContentOf(w)[p] = ContentOf(u)[p]
  <2>1. SamePast(u, v, c)
    <3>1. c <= Len(u.all_token_ids) /\ c <= Len(v.all_token_ids)
      BY <1>1, <1>6, <1>8, <1>12
    <3>2. Len(u.all_token_ids) \div BlockSize = c \div BlockSize
      BY <1>1 DEF Stopped
    <3>3. \A p \in 1..c : v.all_token_ids[p] = u.all_token_ids[p]
      BY <1>3, <1>8, <1>12
    <3> QED
      BY <3>1, <3>2, <3>3 DEF SamePast
  <2>2. TextMedia(v.mm_features, Len(v.all_token_ids)) /\ Extends(v.mm_features, u.mm_features, c)
    BY <1>8, <1>10, <1>12
  <2>3. LastGrows(u, WithHashes(v))
    BY <1>13
  <2>4. KeepsPast(u, v, c)
    BY <1>2, <1>12, <2>1, <2>2, <2>3, TextChanged
  <2> QED
    BY <1>13, <2>4 DEF KeepsPast
<1>15. w.all_token_ids = text /\ w.num_computed_tokens = c
  BY <1>12, <1>13, HashedFields
<1>16. Holding(w, cells)
  <2>1. cells = [p \in 1..c |-> ContentOf(w)[p]]
    BY <1>2, <1>14 DEF Holding
  <2> QED
    BY <1>2, <1>6, <1>8, <1>15, <2>1 DEF Holding
<1> QED
  BY <1>14, <1>16

\* A request as it is added.
LEMMA AddedGood ==
  ASSUME NEW chunk \in Prompts, NEW t, NEW w,
         w = WithHashes([Blank("WAITING") EXCEPT !.all_token_ids = chunk.tokens,
                           !.mm_features = chunk.media, !.tags = t])
  PROVE  GoodRequest(w) /\ Holding(w, <<>>)
<1>1. PICK v : v = [Blank("WAITING") EXCEPT !.all_token_ids = chunk.tokens,
                      !.mm_features = chunk.media, !.tags = t]
  OBVIOUS
<1>2. PICK n \in Nat : n = Len(chunk.tokens) /\ chunk.tokens \in Seq(Tokens)
  BY TextTypes, LenProperties DEF Texts
<1>3. /\ IsRequest(v) /\ v.all_token_ids = chunk.tokens /\ v.mm_features = chunk.media
      /\ v.block_hashes = <<>> /\ v.num_computed_tokens = 0
  BY <1>1, <1>2, EmptySeq DEF Blank, IsRequest, Fields, Statuses
<1>4. TextMedia(v.mm_features, Len(v.all_token_ids))
  BY <1>3, ChunkMedia DEF Texts
<1>0. PICK zero \in Nat : zero = 0
  OBVIOUS
<1>5. v.block_hashes = PrintsOf(v, zero) /\ Sized(v.block_hashes, zero)
  <2>1. PICK p : p = PrintsOf(v, zero)
    OBVIOUS
  <2>2. Sized(p, zero) /\ p = <<>>
    BY <1>0, <2>1, PrintsSized DEF PrintsOf
  <2> QED
    BY <1>3, <2>1, <2>2
<1>6. Started(v.mm_features, StartIndex(v.block_hashes), zero * BlockSize)
  <2>1. ~(zero > 0)
    BY <1>0
  <2> QED
    BY <1>4, <1>5, <2>1, StartsLast
<1>7. PICK full : full = n \div BlockSize
  OBVIOUS
<1>8. zero <= full
  <2>1. BlockSize \in Nat \ {0}
    BY ConstantsOK
  <2>2. full \in Nat
    BY <1>7, <2>1, FullBlocks
  <2> QED
    BY <1>0, <2>2
<1>9. GoodRequest(w)
  <2>1. IsFull(full, v.all_token_ids, BlockSize)
    BY <1>2, <1>3, <1>7 DEF IsFull
  <2>2. GoodRequest(WithHashes(v))
    BY <1>3, <1>4, <1>5, <1>6, <1>8, <2>1, HashedGood
  <2> QED
    BY <1>1, <2>2
<1>10. w.all_token_ids = chunk.tokens /\ w.num_computed_tokens = 0
  BY <1>1, <1>3, HashedFields
<1>11. Holding(w, <<>>)
  <2>1. PICK e : e = <<>>
    OBVIOUS
  <2>2. Len(e) = 0 /\ 1..0 = {}
    BY <2>1, EmptySeq
  <2>3. e = [p \in 1..0 |-> ContentOf(w)[p]]
    BY <2>1, <2>2
  <2>4. Holding(w, e)
    BY <1>2, <1>10, <2>2, <2>3 DEF Holding
  <2> QED
    BY <2>1, <2>4
<1> QED
  BY <1>9, <1>11

\* What a step computes for a request is what the request says.
LEMMA ComputedGood ==
  ASSUME NEW r, GoodRequest(req[r]), Holding(req[r], kv[r])
  PROVE  /\ Len(Computed(r)) = NumTokens(r)
         /\ Computed(r) = [p \in 1..NumTokens(r) |-> ContentOf(req[r])[p]]
<1>1. PICK u, cells, C : u = req[r] /\ cells = kv[r] /\ C = ContentOf(u)
  OBVIOUS
<1>2. PICK n \in Nat, c \in Nat, l \in Nat :
        n = Len(u.all_token_ids) /\ c = u.num_computed_tokens /\ l = Len(cells)
        /\ c <= l /\ l <= n
  <2>1. Len(u.all_token_ids) \in Nat
    BY <1>1, LenProperties DEF GoodRequest, IsRequest
  <2> QED
    BY <1>1, <2>1 DEF Holding
<1>3. cells = [p \in 1..l |-> C[p]]
  BY <1>1, <1>2 DEF Holding
<1>4. C = [p \in 1..n |-> C[p]]
  BY <1>1, <1>2 DEF ContentOf, Content
<1>5. PICK a : a = SubSeq(cells, 1, c)
  OBVIOUS
<1>6. a = [p \in 1..c |-> C[p]]
  <2>1. PICK S : S = {cells[p] : p \in 1..l}
    OBVIOUS
  <2>2. cells \in Seq(S)
    <3>1. cells \in [1..l -> S]
      BY <1>3, <2>1
    <3> QED
      BY <3>1, SeqDef
  <2>3. \A i \in 1..c : cells[i] \in S
    BY <1>2, <2>1
  <2>4. /\ SubSeq(cells, 1, c) \in Seq(S)
        /\ Len(SubSeq(cells, 1, c)) = IF 1 <= c THEN c - 1 + 1 ELSE 0
        /\ \A i \in 1..(c - 1 + 1) : SubSeq(cells, 1, c)[i] = cells[1 + i - 1]
    BY <1>2, <2>2, <2>3, SubSeqProperties
  <2>5. c - 1 + 1 = c /\ (~(1 <= c) => c = 0) /\ \A i \in 1..c : 1 + i - 1 = i /\ i \in 1..l
    BY <1>2
  <2>6. Len(a) = c /\ a \in Seq(S) /\ \A i \in 1..c : a[i] = C[i]
    BY <1>3, <1>5, <2>4, <2>5
  <2>7. a = [p \in 1..c |-> a[p]]
    BY <2>6, SeqDef, LenProperties
  <2> QED
    BY <2>6, <2>7
<1>7. PICK b : b = SubSeq(C, c + 1, n)
  OBVIOUS
<1>8. b = [i \in 1..(n - c) |-> C[c + i]]
  <2>1. PICK S : S = {C[p] : p \in 1..n}
    OBVIOUS
  <2>2. C \in Seq(S) /\ Len(C) = n
    <3>1. C \in [1..n -> S]
      BY <1>4, <2>1
    <3> QED
      BY <3>1, SeqDef, LenProperties
  <2>3. PICK x \in Nat : x = c + 1
    OBVIOUS
  <2>4. \A i \in x..n : C[i] \in S
    BY <2>1, <2>3
  <2>5. /\ SubSeq(C, x, n) \in Seq(S)
        /\ Len(SubSeq(C, x, n)) = IF x <= n THEN n - x + 1 ELSE 0
        /\ \A i \in 1..(n - x + 1) : SubSeq(C, x, n)[i] = C[x + i - 1]
    BY <2>2, <2>3, <2>4, SubSeqProperties
  <2>6. n - x + 1 = n - c /\ (~(x <= n) => n - c = 0) /\ \A i \in 1..(n - c) : x + i - 1 = c + i
    <3>1. c <= n
      BY <1>2
    <3> QED
      BY <2>3, <3>1
  <2>7. Len(b) = n - c /\ b \in Seq(S) /\ \A i \in 1..(n - c) : b[i] = C[c + i]
    BY <1>7, <2>3, <2>5, <2>6
  <2>8. b = [p \in 1..(n - c) |-> b[p]]
    BY <2>7, SeqDef, LenProperties
  <2> QED
    BY <2>7, <2>8
<1>9. PICK d : d = a \o b
  OBVIOUS
<1>10. Joined(d, a, c, b, n - c)
  <2>1. n - c \in Nat
    BY <1>2
  <2>2. Sized(a, c)
    <3>1. a = [p \in 1..c |-> a[p]]
      BY <1>6
    <3> QED
      BY <3>1, FunctionSized
  <2>3. Sized(b, n - c)
    <3>1. b = [p \in 1..(n - c) |-> b[p]]
      BY <1>8
    <3> QED
      BY <2>1, <3>1, FunctionSized
  <2> QED
    BY <1>9, <2>1, <2>2, <2>3, ConcatSized
<1>11. d = [p \in 1..n |-> IF p <= c THEN a[p] ELSE b[p - c]]
  <2>1. c + (n - c) = n
    BY <1>2
  <2> QED
    BY <1>10, <2>1 DEF Joined
<1>12. \A p \in 1..n : (IF p <= c THEN a[p] ELSE b[p - c]) = C[p]
  <2> TAKE p \in 1..n
  <2>1. CASE p <= c
    <3>1. p \in 1..c
      BY <2>1
    <3> QED
      BY <1>6, <2>1, <3>1
  <2>2. CASE ~(p <= c)
    <3>1. p - c \in 1..(n - c) /\ c + (p - c) = p
      BY <2>2
    <3> QED
      BY <1>8, <2>2, <3>1
  <2> QED
    BY <2>1, <2>2
<1>13. d = [p \in 1..n |-> C[p]]
  BY <1>11, <1>12
<1>14. Len(d) = n
  <2>1. d = [p \in 1..n |-> d[p]]
    BY <1>13
  <2> QED
    BY <2>1, FunctionSized
<1>15. d = Computed(r)
  BY <1>1, <1>2, <1>5, <1>7, <1>9 DEF Computed, ContentOf, NumTokens
<1> QED
  BY <1>1, <1>2, <1>13, <1>14, <1>15 DEF NumTokens

-----------------------------------------------------------------------------
(* The invariant of the hashes, and what an action has to show *)

\* A step completes blocks in which no item but the last lies: what request_block_hasher
\* takes for granted of a request it has hashed before.  (A new request is hashed from its
\* first item.)  The findings of StreamingSessions are steps that are not so.
LastOnly == \A r \in Requests : req[r].status # "NEW" => LastGrows(req[r], req'[r])

\* The hashes of a request are right, and its blocks hold what it says.
HashOf(r) ==
  /\ ~Live(r) => req[r] = Blank(req[r].status)
  /\ req[r].status = "NEW" => kv[r] = <<>>
  /\ Live(r) => GoodRequest(req[r]) /\ Holding(req[r], kv[r])
  /\ req[r].status = Blocked => Stopped(req[r], kv[r])
  /\ Contains(batch, r) /\ Live(r) => Caught(req[r], kv[r])

\* Those of every request.
HashInv == DOMAIN kv = Requests /\ \A r \in Requests : HashOf(r)

\* An action that changes one request and its blocks.
LEMMA OthersHash ==
  ASSUME HashInv, NEW r \in Requests, Others(r), HashOf(r)', DOMAIN kv' = Requests,
         \A q \in Requests : q # r => kv'[q] = kv[q],
         \A q \in Requests : Contains(batch', q) => Contains(batch, q)
  PROVE  HashInv'
<1>1. ASSUME NEW q \in Requests, q # r PROVE HashOf(q)'
  <2>1. HashOf(q) /\ req'[q] = req[q] /\ kv'[q] = kv[q]
    BY <1>1 DEF HashInv, Others
  <2>2. Contains(batch', q) => Contains(batch, q)
    OBVIOUS
  <2>3. Live(q)' <=> Live(q)
    BY <2>1 DEF Live
  <2> QED
    BY <2>1, <2>2, <2>3 DEF HashOf
<1> QED
  BY <1>1 DEF HashInv

\* An action that leaves the blocks alone.
LEMMA SameCells ==
  ASSUME HashInv, kv' = kv
  PROVE  DOMAIN kv' = Requests /\ \A q \in Requests : kv'[q] = kv[q]
BY DEF HashInv

\* An action that writes the blocks of one request.
LEMMA OneWritten ==
  ASSUME HashInv, NEW r \in Requests, NEW cells, kv' = [kv EXCEPT ![r] = cells]
  PROVE  /\ DOMAIN kv' = Requests /\ kv'[r] = cells
         /\ \A q \in Requests : q # r => kv'[q] = kv[q]
BY DEF HashInv

\* What the step was to compute is still so of a request of the same text.
LEMMA CaughtSame ==
  ASSUME NEW u, NEW cells, Caught(u, cells), NEW v, IsRequest(v), SameText(u, v),
         v.num_computed_tokens = u.num_computed_tokens
  PROVE  Caught(v, cells)
<1>1. GoodRequest(u) /\ Holding(u, cells)
  BY DEF Caught
<1>2. v.num_computed_tokens \in 0..Len(cells)
  BY <1>1 DEF Holding
<1>3. GoodRequest(v) /\ Holding(v, cells)
  BY <1>1, <1>2, SameTextGood
<1> QED
  BY <1>3 DEF Caught, SameText

-----------------------------------------------------------------------------
(* Each action keeps it: the client *)

\* A new request is hashed from its first item.
LEMMA AddHash ==
  ASSUME SessionInv, HashInv, NEW r \in Requests, NEW chunk \in Prompts, NEW t \in Tags,
         AddRequest(r, chunk, t)
  PROVE  HashInv'
<1>1. PICK v : v = WithHashes([Blank("WAITING") EXCEPT !.all_token_ids = chunk.tokens,
                                  !.mm_features = chunk.media, !.tags = t])
  OBVIOUS
<1>2. IsRequest(v) /\ v.status = "WAITING"
  BY <1>1, AddedFields
<1>3. /\ req[r].status = "NEW" /\ req' = [req EXCEPT ![r] = v] /\ batch' = batch /\ kv' = kv
  BY <1>1 DEF AddRequest, workVars
<1>4. TypesOK /\ NamedOf(r) /\ HashOf(r)
  BY DEF SessionInv, SlotInv, HashInv
<1>5. req'[r] = v /\ Others(r)
  BY <1>2, <1>3, <1>4, OneReplaced
<1>6. kv'[r] = <<>> /\ ~Contains(batch', r)
  BY <1>3, <1>4 DEF HashOf, NamedOf
<1>7. GoodRequest(v) /\ Holding(v, <<>>)
  BY <1>1, AddedGood
<1>8. HashOf(r)'
  <2>1. PICK cells : cells = kv'[r]
    OBVIOUS
  <2>2. Holding(v, cells)
    BY <1>6, <1>7, <2>1
  <2> QED
    BY <1>2, <1>5, <1>6, <1>7, <2>1, <2>2 DEF HashOf, Live, Blocked
<1> QED
  BY <1>3, <1>5, <1>8, SameCells, OthersHash

\* Queued input changes nothing that is hashed.
LEMMA QueueInputHash ==
  ASSUME SessionInv, HashInv, NEW r \in Requests, NEW input \in Inputs, QueueInput(r, input)
  PROVE  HashInv'
<1>1. PICK u : u = req[r]
  OBVIOUS
<1>2. PICK q : q = Append(u.streaming_queue, input)
  OBVIOUS
<1>3. PICK v : v = [u EXCEPT !.streaming_queue = q]
  OBVIOUS
<1>4. /\ Live(r) /\ req[r].status # Blocked /\ req' = [req EXCEPT ![r] = v]
      /\ batch' = batch /\ kv' = kv
  BY <1>1, <1>2, <1>3 DEF QueueInput, MaySend, workVars
<1>5. TypesOK /\ HashOf(r)
  BY DEF SessionInv, HashInv
<1>6. IsRequest(u) /\ u.streaming_queue \in Seq(Inputs)
  BY <1>1, <1>5 DEF TypesOK, IsRequest
<1>7. q \in Seq(Inputs)
  BY <1>2, <1>6, AppendProperties
<1>8. /\ IsRequest(v) /\ v.status = u.status /\ v.num_computed_tokens = u.num_computed_tokens
  BY <1>3, <1>6, <1>7 DEF IsRequest, Fields
<1>9. SameText(u, v)
  BY <1>3 DEF SameText
<1>10. req'[r] = v /\ Others(r)
  BY <1>4, <1>5, <1>8, OneReplaced
<1>11. PICK cells : cells = kv[r] /\ cells = kv'[r]
  BY <1>4
<1>12. GoodRequest(v) /\ Holding(v, cells)
  <2>1. GoodRequest(u) /\ Holding(u, cells)
    BY <1>1, <1>4, <1>5, <1>11 DEF HashOf
  <2>2. v.num_computed_tokens \in 0..Len(cells)
    BY <1>8, <2>1 DEF Holding
  <2> QED
    BY <1>8, <1>9, <2>1, <2>2, SameTextGood
<1>13. Contains(batch', r) => Caught(v, cells)
  <2>1. Contains(batch, r) => Caught(u, cells)
    BY <1>1, <1>4, <1>5, <1>11 DEF HashOf
  <2> QED
    BY <1>4, <1>8, <1>9, <2>1, CaughtSame
<1>14. HashOf(r)'
  BY <1>1, <1>4, <1>8, <1>10, <1>11, <1>12, <1>13 DEF HashOf, Live
<1> QED
  BY <1>4, <1>10, <1>14, SameCells, OthersHash

\* A session that waits goes on.
LEMMA ResumeInputHash ==
  ASSUME SessionInv, HashInv, LastOnly, NEW r \in Requests, NEW chunk \in Chunks,
         ResumeInput(r, chunk)
  PROVE  HashInv'
<1>1. PICK u : u = req[r]
  OBVIOUS
<1>2. PICK v : v = Resumed(u, chunk)
  OBVIOUS
<1>3. /\ req[r].status = Blocked /\ req' = [req EXCEPT ![r] = v] /\ batch' = batch /\ kv' = kv
  BY <1>1, <1>2 DEF ResumeInput, workVars
<1>4. TypesOK /\ NamedOf(r) /\ HashOf(r)
  BY DEF SessionInv, SlotInv, HashInv
<1>5. IsRequest(v) /\ v.status = "WAITING"
  BY <1>1, <1>2, <1>4, ResumedFields DEF TypesOK
<1>6. req'[r] = v /\ Others(r)
  BY <1>3, <1>4, <1>5, OneReplaced
<1>7. PICK cells : cells = kv[r] /\ cells = kv'[r]
  BY <1>3
<1>8. GoodRequest(v) /\ Holding(v, cells)
  <2>1. Stopped(u, cells)
    BY <1>1, <1>3, <1>4, <1>7 DEF HashOf
  <2>2. LastGrows(u, v)
    BY <1>1, <1>3, <1>6 DEF LastOnly, Blocked
  <2> QED
    BY <1>2, <2>1, <2>2, ResumedGood
<1>9. ~Contains(batch', r)
  BY <1>3, <1>4 DEF NamedOf, Blocked
<1>10. HashOf(r)'
  BY <1>5, <1>6, <1>7, <1>8, <1>9 DEF HashOf, Live, Blocked
<1> QED
  BY <1>3, <1>6, <1>10, SameCells, OthersHash

\* A request that ends has no blocks.
LEMMA FinishHash ==
  ASSUME SessionInv, HashInv, NEW r \in Requests, Finish(r),
         \A q \in Requests : Contains(batch', q) => Contains(batch, q)
  PROVE  HashInv'
<1>1. PICK v : v = Blank("FINISHED")
  OBVIOUS
<1>2. IsRequest(v) /\ v.status = "FINISHED"
  BY <1>1, BlankFields DEF Statuses
<1>3. req' = [req EXCEPT ![r] = v] /\ kv' = [kv EXCEPT ![r] = <<>>]
  BY <1>1 DEF Finish, Gone
<1>4. req'[r] = v /\ Others(r)
  BY <1>2, <1>3, OneReplaced DEF SessionInv
<1>5. HashOf(r)'
  BY <1>1, <1>2, <1>4 DEF HashOf, Live, Blocked
<1> QED
  BY <1>3, <1>4, <1>5, OneWritten, OthersHash

\* The client's part.
LEMMA ClientHash ==
  ASSUME SessionInv, HashInv, LastOnly, NEW r \in Requests, Client(r)
  PROVE  HashInv'
<1>1. ASSUME NEW chunk \in Prompts, NEW t \in Tags, AddRequest(r, chunk, t)
      PROVE  HashInv'
  BY <1>1, AddHash
<1>2. ASSUME NEW chunk \in Chunks, SendChunk(r, chunk) PROVE HashInv'
  BY <1>2, QueueInputHash, ResumeInputHash DEF SendChunk, Inputs
<1>3. ASSUME Finish(r), batch' = batch PROVE HashInv'
  BY <1>3, FinishHash
<1>4. SendEnd(r) => HashInv'
  BY <1>3, QueueInputHash DEF SendEnd, Inputs, FinishWaiting
<1>5. Abort(r) => HashInv'
  BY <1>3 DEF Abort
<1> QED
  BY <1>1, <1>2, <1>4, <1>5 DEF Client

-----------------------------------------------------------------------------
(* schedule() *)

\* Nobody is on the worker while a step is scheduled.
LEMMA NobodyThere ==
  ASSUME SessionInv, pc \in {"idle", "admit", "preempted"}, NEW q \in Requests
  PROVE  ~Contains(batch, q)
BY DEF SessionInv, SlotInv, NamedOf

\* A preempted request keeps its text and forgets that it computed it.
LEMMA ScheduleHash ==
  ASSUME SessionInv, HashInv, NEW n \in 0..Len(running), ScheduleRunning(n)
  PROVE  HashInv'
<1>1. PICK L \in Nat : L = Len(running)
  BY LenProperties DEF SessionInv, TypesOK
<1>2. PICK k \in Nat : k = L - n /\ k <= L
  <2>1. n \in 0..L
    BY <1>1
  <2> QED
    BY <2>1
<1>3. PICK out : out = SubSeq(running, k + 1, Len(running))
  OBVIOUS
<1>4. /\ pc = "idle" /\ batch' = batch /\ kv' = kv
      /\ req' = [q \in Requests |->
                   IF Contains(out, q)
                   THEN [req[q] EXCEPT !.status = "PREEMPTED", !.num_computed_tokens = 0]
                   ELSE req[q]]
  BY <1>1, <1>2, <1>3 DEF ScheduleRunning, workVars
<1>5. TypesOK /\ QueueInv
  BY DEF SessionInv
<1>6. \A x : Contains(out, x) => Contains(running, x)
  BY <1>1, <1>2, <1>3, <1>5, CutOnce DEF TypesOK
<1>7. ASSUME NEW q \in Requests PROVE HashOf(q)'
  <2>1. PICK u, cells : u = req[q] /\ cells = kv[q] /\ cells = kv'[q]
    BY <1>4
  <2>2. IsRequest(u) /\ PlaceOf(q) /\ HashOf(q)
    BY <1>5, <2>1 DEF TypesOK, QueueInv, HashInv
  <2>3. ~Contains(batch', q)
    BY <1>4, NobodyThere
  <2>4. CASE Contains(out, q)
    <3>1. PICK v : v = [u EXCEPT !.status = "PREEMPTED", !.num_computed_tokens = 0]
      OBVIOUS
    <3>2. IsRequest(v) /\ v.status = "PREEMPTED" /\ v.num_computed_tokens = 0 /\ SameText(u, v)
      BY <2>2, <3>1 DEF IsRequest, Fields, Statuses, SameText
    <3>3. req'[q] = v
      BY <1>4, <2>1, <2>4, <3>1
    <3>4. GoodRequest(u) /\ Holding(u, cells)
      BY <1>6, <2>1, <2>2, <2>4 DEF PlaceOf, HashOf, Live
    <3>5. GoodRequest(v) /\ Holding(v, cells)
      <4>1. Len(cells) \in Nat
        <5>1. Len(u.all_token_ids) \in Nat
          BY <2>2, LenProperties DEF IsRequest
        <5> QED
          BY <3>4, <5>1 DEF Holding
      <4>2. v.num_computed_tokens \in 0..Len(cells)
        BY <3>2, <4>1
      <4> QED
        BY <3>2, <3>4, <4>2, SameTextGood
    <3> QED
      BY <2>1, <2>3, <3>2, <3>3, <3>5 DEF HashOf, Live, Blocked
  <2>5. CASE ~Contains(out, q)
    <3>1. req'[q] = req[q]
      BY <1>4, <2>5
    <3> QED
      BY <2>1, <2>2, <2>3, <3>1 DEF HashOf, Live
  <2> QED
    BY <2>4, <2>5
<1> QED
  BY <1>4, <1>7 DEF HashInv

\* A session that is passed over stays as it is.
LEMMA PassOverHash ==
  ASSUME SessionInv, HashInv, NEW r \in Requests, PassOver(r)
  PROVE  HashInv'
<1>1. req' = req /\ batch' = batch /\ kv' = kv
  BY DEF PassOver, workVars
<1> QED
  BY <1>1 DEF HashInv, HashOf, Live

\* A request begins to run, from what it has computed or finds of its own.
LEMMA AdmitHash ==
  ASSUME SessionInv, HashInv, NEW r \in Requests, Admit(r)
  PROVE  HashInv'
<1>1. PICK u, cells : u = req[r] /\ cells = kv[r]
  OBVIOUS
<1>2. PICK start \in Starts(r) :
        req' = [req EXCEPT ![r].status = "RUNNING", ![r].num_computed_tokens = start]
  BY DEF Admit
<1>3. PICK v : v = [u EXCEPT !.status = "RUNNING", !.num_computed_tokens = start]
  OBVIOUS
<1>4. /\ pc = "admit" /\ IsNext(r) /\ req[r].status # Blocked /\ req' = [req EXCEPT ![r] = v]
      /\ batch' = batch /\ kv' = kv
  BY <1>1, <1>2, <1>3 DEF Admit, IsNext, workVars
<1>5. TypesOK /\ PlaceOf(r) /\ HashOf(r)
  BY DEF SessionInv, QueueInv, HashInv
<1>6. IsRequest(u) /\ GoodRequest(u) /\ Holding(u, cells)
  <2>1. req[r].status \in {"WAITING", "PREEMPTED", Blocked}
    BY <1>4, <1>5, NextWaits DEF PlaceOf
  <2>2. Live(r)
    BY <2>1 DEF Live, Blocked
  <2> QED
    BY <1>1, <1>5, <2>2 DEF HashOf, GoodRequest
<1>7. start \in 0..Len(cells) /\ start \in Nat
  <2>1. CASE u.num_computed_tokens = 0
    <3>1. start \in Hits(r) /\ start <= Len(kv[r])
      BY <1>1, <2>1 DEF Starts
    <3>2. start \in Nat
      BY <3>1, ConstantsOK DEF Hits
    <3>3. Len(cells) \in Nat
      <4>1. Len(u.all_token_ids) \in Nat
        BY <1>6, LenProperties DEF IsRequest
      <4> QED
        BY <1>6, <4>1 DEF Holding
    <3> QED
      BY <1>1, <3>1, <3>2, <3>3
  <2>2. CASE u.num_computed_tokens # 0
    <3>1. start = u.num_computed_tokens
      BY <1>1, <2>2 DEF Starts
    <3> QED
      BY <1>6, <3>1 DEF Holding, IsRequest
  <2> QED
    BY <2>1, <2>2
<1>8. /\ IsRequest(v) /\ v.status = "RUNNING" /\ SameText(u, v)
      /\ v.num_computed_tokens \in 0..Len(cells)
  BY <1>3, <1>6, <1>7 DEF IsRequest, Fields, Statuses, SameText
<1>9. req'[r] = v /\ Others(r)
  BY <1>4, <1>5, <1>8, OneReplaced
<1>10. GoodRequest(v) /\ Holding(v, cells)
  BY <1>6, <1>8, SameTextGood
<1>11. ~Contains(batch', r)
  BY <1>4, NobodyThere
<1>12. HashOf(r)'
  <2>1. kv'[r] = cells
    BY <1>1, <1>4
  <2> QED
    BY <1>8, <1>9, <1>10, <1>11, <2>1 DEF HashOf, Live, Blocked
<1> QED
  BY <1>4, <1>9, <1>12, SameCells, OthersHash

\* The worker computes all there is of the requests of the step.
LEMMA EndScheduleHash ==
  ASSUME SessionInv, HashInv, EndSchedule
  PROVE  HashInv'
<1>1. TypesOK /\ QueueInv
  BY DEF SessionInv
<1>2. /\ batch' = running
      /\ kv' = [r \in Requests |-> IF Contains(running, r) THEN Computed(r) ELSE kv[r]]
      /\ req' = [r \in Requests |->
                   IF Contains(running, r)
                   THEN [req[r] EXCEPT !.num_computed_tokens = NumTokens(r)] ELSE req[r]]
  BY DEF EndSchedule
<1>3. ASSUME NEW q \in Requests PROVE HashOf(q)'
  <2>1. PICK u : u = req[q]
    OBVIOUS
  <2>2. IsRequest(u) /\ PlaceOf(q) /\ HashOf(q)
    BY <1>1, <2>1 DEF TypesOK, QueueInv, HashInv
  <2>3. CASE Contains(running, q)
    <3>1. u.status = "RUNNING" /\ GoodRequest(u) /\ Holding(u, kv[q])
      BY <2>1, <2>2, <2>3 DEF PlaceOf, HashOf, Live, Blocked
    <3>2. PICK c : c = Len(u.all_token_ids)
      OBVIOUS
    <3>3. c \in Nat
      BY <2>2, <3>2, LenProperties DEF IsRequest
    <3>4. PICK v : v = [u EXCEPT !.num_computed_tokens = c]
      OBVIOUS
    <3>5. /\ IsRequest(v) /\ v.status = "RUNNING" /\ v.num_computed_tokens = c
          /\ v.all_token_ids = u.all_token_ids /\ SameText(u, v)
      BY <2>2, <3>1, <3>3, <3>4 DEF IsRequest, Fields, SameText
    <3>6. req'[q] = v
      BY <1>2, <2>1, <2>3, <3>2, <3>4 DEF NumTokens
    <3>7. PICK cells : cells = Computed(q) /\ cells = kv'[q]
      BY <1>2, <2>3
    <3>8. Len(cells) = c /\ cells = [p \in 1..c |-> ContentOf(u)[p]]
      <4>1. /\ Len(Computed(q)) = NumTokens(q)
            /\ Computed(q) = [p \in 1..NumTokens(q) |-> ContentOf(req[q])[p]]
        BY <2>1, <3>1, ComputedGood
      <4>2. NumTokens(q) = c
        BY <2>1, <3>2 DEF NumTokens
      <4> QED
        BY <2>1, <3>7, <4>1, <4>2
    <3>9. GoodRequest(v) /\ ContentOf(v) = ContentOf(u)
      BY <3>1, <3>5, SameTextGood
    <3>10. Holding(v, cells)
      BY <3>2, <3>3, <3>5, <3>8, <3>9 DEF Holding
    <3>11. Caught(v, cells)
      BY <3>2, <3>5, <3>8, <3>9, <3>10 DEF Caught
    <3> QED
      BY <3>5, <3>6, <3>7, <3>9, <3>10, <3>11 DEF HashOf, Live, Blocked
  <2>4. CASE ~Contains(running, q)
    <3>1. req'[q] = req[q] /\ kv'[q] = kv[q] /\ ~Contains(batch', q)
      BY <1>2, <2>4
    <3> QED
      BY <2>2, <3>1 DEF HashOf, Live
  <2> QED
    BY <2>3, <2>4
<1> QED
  BY <1>2, <1>3 DEF HashInv

-----------------------------------------------------------------------------
(* update_from_output() *)

\* The request the worker's results are for has computed all it was told, and a step of it
\* leaves the others as they are.
LEMMA UpdateHash ==
  ASSUME SessionInv, HashInv, NEW r, Updating(r), NextUpdate
  PROVE  /\ r \in Requests /\ IsRequest(req[r]) /\ ~Contains(batch', r)
         /\ Live(r) => req[r].status = "RUNNING" /\ Caught(req[r], kv[r])
         /\ \A q \in Requests : Contains(batch', q) => Contains(batch, q)
<1>1. /\ r \in Requests /\ Contains(batch, r) /\ ~Contains(batch', r)
      /\ req[r].status \in {"RUNNING", "FINISHED"}
      /\ \A q : Contains(batch', q) => Contains(batch, q)
  BY Updates
<1>2. HashOf(r) /\ IsRequest(req[r])
  BY <1>1 DEF HashInv, SessionInv, TypesOK
<1> QED
  BY <1>1, <1>2 DEF HashOf, Live

\* What a step samples for a request is hashed.
LEMMA SampledIs ==
  ASSUME NEW r, NEW out, NEW k
  PROVE  Sampled(r, out, k) = WithHashes(Extended(req[r], out, k))
BY DEF Sampled, Extended

\* What it writes.
LEMMA WrittenIs ==
  ASSUME HashInv, NEW r \in Requests, NEW out, Written(r, out)
  PROVE  /\ DOMAIN kv' = Requests /\ kv'[r] = WrittenTo(kv[r], out)
         /\ \A q \in Requests : q # r => kv'[q] = kv[q]
<1>1. PICK e : e = [i \in 1..(Len(out) - 1) |-> <<out[i], NoItem, 0>>]
  OBVIOUS
<1>2. PICK after : after = kv[r] \o e
  OBVIOUS
<1>3. after = WrittenTo(kv[r], out)
  BY <1>1, <1>2 DEF WrittenTo
<1>4. kv' = [kv EXCEPT ![r] = after]
  BY <1>1, <1>2 DEF Written
<1> QED
  BY <1>3, <1>4, OneWritten

\* A request that has ended is skipped.
LEMMA SkipHash ==
  ASSUME SessionInv, HashInv, NEW r \in Requests, SkipFinished(r)
  PROVE  HashInv'
<1>1. Updating(r) /\ NextUpdate /\ req' = req /\ kv' = kv
  BY DEF SkipFinished
<1>2. \A q \in Requests : Contains(batch', q) => Contains(batch, q)
  BY <1>1, UpdateHash
<1>3. Others(r)
  BY <1>1 DEF Others
<1>4. HashOf(r)'
  BY <1>1, <1>2 DEF HashInv, HashOf, Live
<1> QED
  BY <1>1, <1>2, <1>3, <1>4, SameCells, OthersHash

\* A request that does not stop.
LEMMA GoOnHash ==
  ASSUME MaxSampled <= 2, SessionInv, HashInv, LastOnly, NEW r \in Requests,
         NEW out \in Outputs, GoOn(r, out)
  PROVE  HashInv'
<1>1. PICK u, cells, k : u = req[r] /\ cells = kv[r] /\ k = Len(out)
  OBVIOUS
<1>2. PICK s : s = Sampled(r, out, k)
  OBVIOUS
<1>3. /\ Updating(r) /\ Live(r) /\ NextUpdate /\ req' = [req EXCEPT ![r] = s]
      /\ Written(r, out)
  BY <1>1, <1>2 DEF GoOn
<1>4. /\ IsRequest(u) /\ u.status = "RUNNING" /\ Caught(u, cells) /\ ~Contains(batch', r)
      /\ \A q \in Requests : Contains(batch', q) => Contains(batch, q)
  BY <1>1, <1>3, UpdateHash
<1>5. k \in DOMAIN out /\ TypesOK
  BY <1>1, OutputTypes DEF SessionInv
<1>6. IsRequest(s) /\ s.status = "RUNNING"
  BY <1>1, <1>2, <1>4, <1>5, SampledFields
<1>7. req'[r] = s /\ Others(r)
  BY <1>3, <1>5, <1>6, OneReplaced
<1>8. PICK after : after = WrittenTo(cells, out)
  OBVIOUS
<1>9. /\ DOMAIN kv' = Requests /\ kv'[r] = after
      /\ \A q \in Requests : q # r => kv'[q] = kv[q]
  BY <1>1, <1>3, <1>8, WrittenIs
<1>10. GoodRequest(s) /\ Holding(s, after)
  <2>1. s = WithHashes(Extended(u, out, k))
    BY <1>1, <1>2, SampledIs
  <2>2. LastGrows(u, s)
    BY <1>1, <1>4, <1>7 DEF LastOnly
  <2>3. PICK n \in Nat : n = Len(u.all_token_ids)
    BY <1>4, LenProperties DEF IsRequest
  <2> QED
    BY <1>4, <1>5, <1>8, <2>1, <2>2, <2>3, SampledGood
<1>11. HashOf(r)'
  BY <1>4, <1>6, <1>7, <1>9, <1>10 DEF HashOf, Live, Blocked
<1> QED
  BY <1>4, <1>7, <1>9, <1>11, OthersHash

\* A session that stopped has as many full blocks as it has computed: the last token it
\* keeps, when that is not computed, completes none.
LEMMA StoppedBlocks ==
  ASSUME ~AlignedStops, NEW r, NEW k, MayStop(NumTokens(r) + k), NEW n \in Nat,
         n = NumTokens(r), NEW m \in Nat, k \in 1..m, NEW c, c = n + m - 1, c <= n + k
  PROVE  (n + k) \div BlockSize = c \div BlockSize
<1>1. PICK t \in Nat : t = n + k
  OBVIOUS
<1>2. t % BlockSize # 0
  BY <1>1 DEF MayStop
<1>3. BlockSize \in Nat \ {0}
  BY ConstantsOK
<1>4. t \div BlockSize = (t - 1) \div BlockSize
  BY <1>2, <1>3, FullSame
<1>5. c = t \/ c = t - 1
  BY <1>1
<1> QED
  BY <1>1, <1>4, <1>5

\* A request that stops after k of the tokens sampled for it.
LEMMA StopsGood ==
  ASSUME ~AlignedStops, MaxSampled <= 2, NEW r \in Requests, NEW out \in Outputs,
         NEW k \in DOMAIN out, MayStop(NumTokens(r) + k), NEW cells, Caught(req[r], cells),
         NEW s, s = Sampled(r, out, k), LastGrows(req[r], s)
  PROVE  Stopped(s, WrittenTo(cells, out))
<1>1. PICK u, after : u = req[r] /\ after = WrittenTo(cells, out)
  OBVIOUS
<1>2. PICK n \in Nat : n = Len(u.all_token_ids)
  BY <1>1, LenProperties DEF Caught, GoodRequest, IsRequest
<1>3. s = WithHashes(Extended(u, out, k))
  BY <1>1, SampledIs
<1>4. /\ GoodRequest(s) /\ Holding(s, after) /\ s.num_computed_tokens = Len(after)
      /\ Len(s.all_token_ids) = n + k
      /\ s.num_computed_tokens = n + Len(out) - 1
      /\ Len(out) \in 1..2 /\ k \in 1..Len(out)
      /\ TextMedia(s.mm_features, s.num_computed_tokens)
  <2>1. Caught(u, cells) /\ LastGrows(u, s)
    BY <1>1
  <2> QED
    BY <1>1, <1>2, <1>3, <2>1, SampledGood
<1>5. PICK m \in Nat : m = Len(out) /\ k \in 1..m
  BY <1>4
<1>6. PICK c : c = s.num_computed_tokens /\ c = n + m - 1 /\ c <= n + k
  BY <1>4, <1>5 DEF Holding
<1>7. (n + k) \div BlockSize = c \div BlockSize
  <2>1. n = NumTokens(r)
    BY <1>1, <1>2 DEF NumTokens
  <2> QED
    BY <1>5, <1>6, <2>1, StoppedBlocks
<1> QED
  BY <1>1, <1>4, <1>6, <1>7 DEF Stopped

\* A session that stops and waits for input.
LEMMA StopAndWaitHash ==
  ASSUME ~AlignedStops, MaxSampled <= 2, SessionInv, HashInv, LastOnly, NEW r \in Requests,
         NEW out \in Outputs, NEW k \in DOMAIN out, StopAndWait(r, out, k)
  PROVE  HashInv'
<1>1. PICK u, cells : u = req[r] /\ cells = kv[r]
  OBVIOUS
<1>2. PICK s : s = Sampled(r, out, k)
  OBVIOUS
<1>3. PICK v : v = [s EXCEPT !.status = Blocked]
  OBVIOUS
<1>4. /\ Updating(r) /\ Live(r) /\ MayStop(NumTokens(r) + k) /\ NextUpdate
      /\ req' = [req EXCEPT ![r] = v] /\ Written(r, out)
  BY <1>2, <1>3 DEF StopAndWait, Stops
<1>5. /\ IsRequest(u) /\ u.status = "RUNNING" /\ Caught(u, cells) /\ ~Contains(batch', r)
      /\ \A q \in Requests : Contains(batch', q) => Contains(batch, q)
  BY <1>1, <1>4, UpdateHash
<1>6. TypesOK
  BY DEF SessionInv
<1>7. IsRequest(s)
  BY <1>2, <1>6, SampledFields
<1>8. /\ IsRequest(v) /\ v.status = Blocked /\ v.num_computed_tokens = s.num_computed_tokens
      /\ SameText(s, v)
  BY <1>3, <1>7 DEF IsRequest, Fields, Statuses, SameText
<1>9. req'[r] = v /\ Others(r)
  BY <1>4, <1>6, <1>8, OneReplaced
<1>10. PICK after : after = WrittenTo(cells, out)
  OBVIOUS
<1>11. /\ DOMAIN kv' = Requests /\ kv'[r] = after
       /\ \A q \in Requests : q # r => kv'[q] = kv[q]
  BY <1>1, <1>4, <1>10, WrittenIs
<1>12. Stopped(s, after)
  <2>1. LastGrows(u, v)
    BY <1>1, <1>5, <1>9 DEF LastOnly
  <2>2. LastGrows(u, s)
    BY <1>8, <2>1 DEF LastGrows, SameText
  <2> QED
    BY <1>1, <1>2, <1>4, <1>5, <1>10, <2>2, StopsGood
<1>13. Stopped(v, after) /\ GoodRequest(v) /\ Holding(v, after)
  <2>1. GoodRequest(s) /\ Holding(s, after)
    BY <1>12 DEF Stopped
  <2>2. v.num_computed_tokens \in 0..Len(after)
    BY <1>8, <2>1 DEF Holding
  <2>3. GoodRequest(v) /\ Holding(v, after)
    BY <1>8, <2>1, <2>2, SameTextGood
  <2> QED
    BY <1>8, <1>12, <2>3 DEF Stopped, SameText
<1>14. HashOf(r)'
  BY <1>5, <1>8, <1>9, <1>11, <1>13 DEF HashOf, Live, Blocked
<1> QED
  BY <1>5, <1>9, <1>11, <1>14, OthersHash

\* Going on makes no fewer hashes and keeps the media there are.
LEMMA ResumedParts ==
  ASSUME NEW u, IsRequest(u), NEW n \in Nat, TextMedia(u.mm_features, n),
         n <= u.num_computed_tokens, n <= Len(u.all_token_ids),
         NEW d \in Nat, Sized(u.block_hashes, d), NEW chunk \in Chunks,
         NEW w, w = Resumed(u, chunk)
  PROVE  /\ Len(u.mm_features) \in Nat /\ Len(w.mm_features) \in Nat
         /\ Len(u.mm_features) <= Len(w.mm_features)
         /\ \A i \in 1..Len(u.mm_features) : w.mm_features[i] = u.mm_features[i]
         /\ \A i \in 1..Len(w.mm_features) : EndOf(w.mm_features[i]) \in Nat
         /\ Len(w.block_hashes) \in Nat /\ d <= Len(w.block_hashes)
<1>1. PICK tokens \in Seq(Tokens) : tokens = u.all_token_ids
  BY DEF IsRequest
<1>2. PICK c \in Nat : /\ c = IF u.num_computed_tokens < Len(u.all_token_ids)
                              THEN u.num_computed_tokens ELSE Len(u.all_token_ids)
                       /\ n <= c /\ c <= Len(tokens)
  <2>1. u.num_computed_tokens \in Nat /\ Len(u.all_token_ids) \in Nat
    BY <1>1, LenProperties DEF IsRequest
  <2> QED
    BY <1>1, <2>1
<1>3. PICK kept : kept = SubSeq(tokens, 1, c)
  OBVIOUS
<1>4. kept \in Seq(Tokens)
  <2>1. \A i \in 1..c : tokens[i] \in Tokens
    BY <1>1, <1>2, ElementOfSeq, LenProperties
  <2> QED
    BY <1>1, <1>2, <1>3, <2>1, SubSeqProperties
<1>5. PICK text : text = kept \o chunk.tokens
  OBVIOUS
<1>6. chunk.tokens \in Seq(Tokens) /\ text \in Seq(Tokens)
  BY <1>4, <1>5, TextTypes, ConcatProperties DEF Texts
<1>7. PICK media : media = u.mm_features \o Shifted(chunk.media, c)
  OBVIOUS
<1>8. PICK k \in Nat : k = Len(chunk.tokens) /\ TextMedia(chunk.media, k)
  BY <1>6, LenProperties, ChunkMedia DEF Texts
<1>9. TextMedia(media, c + k) /\ Extends(media, u.mm_features, c)
  <2>1. TextMedia(u.mm_features, c)
    BY <1>2, MediaLonger
  <2> QED
    BY <1>7, <1>8, <2>1, MediaAppended
<1>10. PICK v : v = [u EXCEPT !.all_token_ids = text, !.mm_features = media,
                              !.num_output = 0, !.status = "WAITING"]
  OBVIOUS
<1>11. /\ IsRequest(v) /\ v.all_token_ids = text /\ v.mm_features = media
       /\ v.block_hashes = u.block_hashes
  BY <1>6, <1>10 DEF IsRequest, Fields, Statuses
<1>12. w = WithHashes(v)
  BY <1>1, <1>2, <1>3, <1>5, <1>7, <1>10 DEF Resumed
<1>13. PICK full : full = Len(v.all_token_ids) \div BlockSize
  OBVIOUS
<1>14. /\ w.mm_features = media /\ full \in Nat
       /\ Sized(w.block_hashes, IF d < full THEN full ELSE d)
  BY <1>11, <1>12, <1>13, HashedParts
<1>15. Len(w.block_hashes) = IF d < full THEN full ELSE d
  BY <1>14 DEF Sized
<1>16. d <= Len(w.block_hashes) /\ Len(w.block_hashes) \in Nat
  BY <1>14, <1>15
<1>17. Len(u.mm_features) \in Nat /\ Len(media) \in Nat
  BY <1>9, LenProperties DEF TextMedia
<1>18. \A i \in 1..Len(media) : EndOf(media[i]) \in Nat
  BY <1>9, MediaLined DEF Lined
<1> QED
  BY <1>9, <1>14, <1>16, <1>17, <1>18 DEF Extends

\* A step that samples and goes on hashes twice: if it completes blocks with no item but
\* the last, so do both parts.
LEMMA GrowsTwice ==
  ASSUME NEW u, NEW s, NEW w, LastGrows(u, w),
         Len(u.block_hashes) \in Nat, Len(s.block_hashes) \in Nat, Len(w.block_hashes) \in Nat,
         Len(u.block_hashes) <= Len(s.block_hashes), Len(s.block_hashes) <= Len(w.block_hashes),
         Len(s.mm_features) \in Nat, Len(w.mm_features) \in Nat,
         Len(s.mm_features) <= Len(w.mm_features),
         \A i \in 1..Len(s.mm_features) : w.mm_features[i] = s.mm_features[i],
         \A i \in 1..Len(w.mm_features) : EndOf(w.mm_features[i]) \in Nat
  PROVE  LastGrows(u, s) /\ LastGrows(s, w)
<1>1. PICK a, b, c \in Nat : /\ a = Len(u.block_hashes) /\ b = Len(s.block_hashes)
                             /\ c = Len(w.block_hashes) /\ a <= b /\ b <= c
  OBVIOUS
<1>2. PICK i1, i2 \in Nat : i1 = Len(s.mm_features) /\ i2 = Len(w.mm_features) /\ i1 <= i2
  OBVIOUS
<1>3. c > a => \A i \in 1..(i2 - 1) : EndOf(w.mm_features[i]) <= a * BlockSize
  <2>1. Len(w.block_hashes) > Len(u.block_hashes) =>
          \A i \in 1..(Len(w.mm_features) - 1) :
             EndOf(w.mm_features[i]) <= Len(u.block_hashes) * BlockSize
    BY DEF LastGrows
  <2> QED
    BY <1>1, <1>2, <2>1
<1>4. ASSUME b > a, NEW i \in 1..(i1 - 1) PROVE EndOf(s.mm_features[i]) <= a * BlockSize
  <2>1. i \in 1..(i2 - 1) /\ i \in 1..i1 /\ c > a
    BY <1>1, <1>2, <1>4
  <2>2. w.mm_features[i] = s.mm_features[i]
    BY <1>2, <2>1
  <2>3. EndOf(w.mm_features[i]) <= a * BlockSize
    BY <1>3, <2>1
  <2> QED
    BY <2>2, <2>3
<1>5. ASSUME c > b, NEW i \in 1..(i2 - 1) PROVE EndOf(w.mm_features[i]) <= b * BlockSize
  <2>1. c > a /\ i \in 1..i2
    BY <1>1, <1>5
  <2>2. EndOf(w.mm_features[i]) <= a * BlockSize
    BY <1>3, <1>5, <2>1
  <2>3. PICK e \in Nat : e = EndOf(w.mm_features[i])
    BY <1>2, <2>1
  <2>4. PICK x, y : x = a * BlockSize /\ y = b * BlockSize
    OBVIOUS
  <2>5. x <= y /\ x \in Nat /\ y \in Nat
    <3>1. BlockSize \in Nat
      BY ConstantsOK
    <3>2. a * BlockSize \in Nat /\ b * BlockSize \in Nat
      BY <3>1
    <3> QED
      BY <1>1, <2>4, <3>1, <3>2, BlocksEnd
  <2> QED
    BY <2>2, <2>3, <2>4, <2>5
<1>6. LastGrows(u, s)
  BY <1>1, <1>2, <1>4 DEF LastGrows
<1>7. LastGrows(s, w)
  BY <1>1, <1>2, <1>5 DEF LastGrows
<1> QED
  BY <1>6, <1>7

\* A session that stops and goes on at once.
LEMMA StopAndResumeHash ==
  ASSUME ~AlignedStops, MaxSampled <= 2, SessionInv, HashInv, LastOnly, NEW r \in Requests,
         NEW out \in Outputs, NEW k \in DOMAIN out, StopAndResume(r, out, k)
  PROVE  HashInv'
<1>1. PICK u, cells, queue : u = req[r] /\ cells = kv[r] /\ queue = u.streaming_queue
  OBVIOUS
<1>2. PICK s : s = Sampled(r, out, k)
  OBVIOUS
<1>3. PICK chunk : chunk = Head(queue)
  OBVIOUS
<1>4. PICK w : w = Resumed(s, chunk)
  OBVIOUS
<1>5. PICK v : v = [w EXCEPT !.streaming_queue = Tail(w.streaming_queue)]
  OBVIOUS
<1>6. /\ Updating(r) /\ Live(r) /\ MayStop(NumTokens(r) + k) /\ NextUpdate
      /\ queue # <<>> /\ chunk # END
      /\ req' = [req EXCEPT ![r] = v] /\ Written(r, out)
  BY <1>1, <1>2, <1>3, <1>4, <1>5 DEF StopAndResume, Stops
<1>7. /\ IsRequest(u) /\ u.status = "RUNNING" /\ Caught(u, cells) /\ ~Contains(batch', r)
      /\ \A q \in Requests : Contains(batch', q) => Contains(batch, q)
  BY <1>1, <1>6, UpdateHash
<1>8. TypesOK
  BY DEF SessionInv
<1>9. IsRequest(s)
  BY <1>2, <1>8, SampledFields
<1>10. chunk \in Chunks /\ s.streaming_queue = queue /\ Tail(queue) \in Seq(Inputs)
  <2>1. queue \in Seq(Inputs)
    BY <1>1, <1>7 DEF IsRequest
  <2>2. Head(queue) \in Inputs /\ Tail(queue) \in Seq(Inputs)
    BY <1>6, <2>1, HeadTailProperties
  <2>3. s.streaming_queue = queue
    BY <1>1, <1>2, <1>8, SampledFields
  <2> QED
    BY <1>3, <1>6, <2>2, <2>3 DEF Inputs
<1>11. /\ IsRequest(w) /\ w.status = "WAITING" /\ w.streaming_queue = queue
       /\ w.num_computed_tokens = s.num_computed_tokens
  BY <1>4, <1>9, <1>10, ResumedFields
<1>12. /\ IsRequest(v) /\ v.status = "WAITING" /\ v.num_computed_tokens = w.num_computed_tokens
       /\ SameText(w, v)
  BY <1>5, <1>10, <1>11 DEF IsRequest, Fields, SameText
<1>13. req'[r] = v /\ Others(r)
  BY <1>6, <1>8, <1>12, OneReplaced
<1>14. PICK after : after = WrittenTo(cells, out)
  OBVIOUS
<1>15. /\ DOMAIN kv' = Requests /\ kv'[r] = after
       /\ \A q \in Requests : q # r => kv'[q] = kv[q]
  BY <1>1, <1>6, <1>14, WrittenIs
<1>16. LastGrows(u, w)
  <2>1. LastGrows(u, v)
    BY <1>1, <1>7, <1>13 DEF LastOnly
  <2> QED
    BY <1>12, <2>1 DEF LastGrows, SameText
<1>17. LastGrows(u, s) /\ LastGrows(s, w)
  <2>1. PICK n, m \in Nat : n = Len(u.all_token_ids) /\ m = Len(out) /\ k \in 1..m
    BY <1>7, OutputTypes, LenProperties DEF IsRequest
  <2>2. PICK e : e = Extended(u, out, k)
    OBVIOUS
  <2>3. IsExtended(u, e, out, n, m, k)
    BY <1>7, <2>1, <2>2, ExtendedParts
  <2>4. s = WithHashes(e)
    BY <1>1, <1>2, <2>2, SampledIs
  <2>5. u.num_computed_tokens = n /\ TextMedia(u.mm_features, n) /\ GoodRequest(u)
    BY <1>7, <2>1 DEF Caught, GoodRequest
  <2>6. PICK d \in Nat : Sized(u.block_hashes, d) /\ d = Len(u.block_hashes)
    <3>1. PICK b : b = n \div BlockSize
      OBVIOUS
    <3>2. b \in Nat
      BY <3>1, ConstantsOK, FullBlocks
    <3>3. Sized(u.block_hashes, b)
      BY <2>1, <2>5, <3>1, <3>2, PrintsSized DEF GoodRequest, PrintsOf
    <3> QED
      BY <3>2, <3>3 DEF Sized
  <2>7. PICK full : full = Len(e.all_token_ids) \div BlockSize
    OBVIOUS
  <2>8. IsRequest(e) /\ e.mm_features = u.mm_features /\ e.block_hashes = u.block_hashes
        /\ e.num_computed_tokens = n + m - 1 /\ Len(e.all_token_ids) = n + k
    BY <2>3, <2>5 DEF IsExtended
  <2>9. /\ s.mm_features = u.mm_features /\ full \in Nat
        /\ Sized(s.block_hashes, IF d < full THEN full ELSE d)
    BY <2>4, <2>6, <2>7, <2>8, HashedParts
  <2>10. PICK x \in Nat : Sized(s.block_hashes, x) /\ d <= x /\ x = Len(s.block_hashes)
    <3>1. PICK x : x = IF d < full THEN full ELSE d
      OBVIOUS
    <3>2. x \in Nat /\ d <= x
      BY <2>9, <3>1
    <3> QED
      BY <2>9, <3>1, <3>2 DEF Sized
  <2>11. s.num_computed_tokens = n + m - 1 /\ Len(s.all_token_ids) = n + k
    BY <2>4, <2>8, HashedFields
  <2>12. n <= s.num_computed_tokens /\ n <= Len(s.all_token_ids)
    BY <2>1, <2>11
  <2>13. /\ Len(s.mm_features) \in Nat /\ Len(w.mm_features) \in Nat
         /\ Len(s.mm_features) <= Len(w.mm_features)
         /\ \A i \in 1..Len(s.mm_features) : w.mm_features[i] = s.mm_features[i]
         /\ \A i \in 1..Len(w.mm_features) : EndOf(w.mm_features[i]) \in Nat
         /\ Len(w.block_hashes) \in Nat /\ x <= Len(w.block_hashes)
    <3>1. TextMedia(s.mm_features, n)
      BY <2>5, <2>9
    <3>2. chunk \in Chunks /\ Sized(s.block_hashes, x)
      BY <1>10, <2>10
    <3> QED
      BY <1>4, <1>9, <2>12, <3>1, <3>2, ResumedParts
  <2> QED
    BY <1>16, <2>6, <2>10, <2>13, GrowsTwice
<1>18. GoodRequest(w) /\ Holding(w, after)
  <2>1. Stopped(s, after)
    BY <1>1, <1>2, <1>6, <1>7, <1>14, <1>17, StopsGood
  <2> QED
    BY <1>4, <1>10, <1>17, <2>1, ResumedGood
<1>19. GoodRequest(v) /\ Holding(v, after)
  <2>1. v.num_computed_tokens \in 0..Len(after)
    BY <1>12, <1>18 DEF Holding
  <2> QED
    BY <1>12, <1>18, <2>1, SameTextGood
<1>20. HashOf(r)'
  BY <1>7, <1>12, <1>13, <1>15, <1>19 DEF HashOf, Live, Blocked
<1> QED
  BY <1>7, <1>13, <1>15, <1>20, OthersHash

-----------------------------------------------------------------------------
(* The invariant holds, and what follows from it *)

\* Nothing is hashed at first.
LEMMA HashStart == Init => HashInv
<1> SUFFICES ASSUME Init PROVE HashInv
  OBVIOUS
<1>1. DOMAIN kv = Requests
  BY DEF Init
<1>2. ASSUME NEW r \in Requests PROVE HashOf(r)
  <2>1. PICK v : v = Blank("NEW")
    OBVIOUS
  <2>2. v.status = "NEW"
    BY <2>1, BlankFields DEF Statuses
  <2>3. req[r] = v /\ kv[r] = <<>> /\ ~Contains(batch, r)
    BY <2>1, EmptyOnce DEF Init
  <2> QED
    BY <2>1, <2>2, <2>3 DEF HashOf, Live, Blocked
<1> QED
  BY <1>1, <1>2 DEF HashInv

\* Every step in which the hasher may begin at the last item keeps it.
LEMMA HashStep ==
  ASSUME ~AlignedStops, MaxSampled <= 2
  PROVE  SessionInv /\ HashInv /\ [Next /\ LastOnly]_vars => HashInv'
<1> SUFFICES ASSUME SessionInv, HashInv, [Next /\ LastOnly]_vars PROVE HashInv'
  OBVIOUS
<1>1. ASSUME NEW r \in Requests, UpdateRequest(r), LastOnly PROVE HashInv'
  <2>1. ASSUME NEW k, StopForGood(r, k) PROVE HashInv'
    <3>1. Updating(r) /\ NextUpdate /\ Finish(r)
      BY <2>1 DEF StopForGood, Stops
    <3>2. \A q \in Requests : Contains(batch', q) => Contains(batch, q)
      BY <3>1, UpdateHash
    <3> QED
      BY <3>1, <3>2, FinishHash
  <2> QED
    BY <1>1, <2>1, SkipHash, GoOnHash, StopAndResumeHash, StopAndWaitHash DEF UpdateRequest
<1>2. CASE Next /\ LastOnly
  BY <1>1, <1>2, ClientHash, PassOverHash, AdmitHash, ScheduleHash, EndScheduleHash DEF Next
<1>3. CASE UNCHANGED vars
  BY <1>3 DEF vars, workVars, HashInv, HashOf, Live
<1> QED
  BY <1>2, <1>3

\* The lesser of two numbers.
LEMMA LesserOf ==
  ASSUME NEW a \in Nat, NEW b \in Nat
  PROVE  Min({a, b}) \in Nat /\ Min({a, b}) <= a /\ Min({a, b}) <= b
<1>1. \E x \in {a, b} : \A y \in {a, b} : x <= y
  <2>1. a <= b \/ b <= a
    OBVIOUS
  <2> QED
    BY <2>1
<1>2. Min({a, b}) \in {a, b} /\ \A y \in {a, b} : Min({a, b}) <= y
  BY <1>1 DEF Min
<1> QED
  BY <1>2

\* The hashes of a request, in blocks of any group's size.
LEMMA ViewRight ==
  ASSUME NEW u, NEW cells, GoodRequest(u), Holding(u, cells), NEW scale \in Nat \ {0},
         NEW least \in Nat, least <= u.num_computed_tokens, least <= Len(u.all_token_ids),
         NEW computed, computed = least \div BlockSize,
         NEW b \in 1..(computed \div scale)
  PROVE  View(u.block_hashes, scale)[b] = Fingerprint(u.tags, cells, BlockSize, b * scale)
<1>1. PICK n, l \in Nat : n = Len(u.all_token_ids) /\ l = Len(cells) /\ l <= n /\ least <= l
                          /\ least <= n
  <2>1. PICK n \in Nat : n = Len(u.all_token_ids)
    BY LenProperties DEF GoodRequest, IsRequest
  <2>2. PICK l : l = Len(cells)
    OBVIOUS
  <2>3. PICK c : c = u.num_computed_tokens
    OBVIOUS
  <2>4. l \in 0..n /\ c \in 0..l
    BY <2>1, <2>2, <2>3 DEF Holding
  <2>5. l \in Nat /\ l <= n /\ least <= l /\ least <= n
    BY <2>1, <2>3, <2>4
  <2> QED
    BY <2>1, <2>2, <2>5
<1>2. BlockSize \in Nat \ {0} /\ BlockSize \in Nat
  BY ConstantsOK
<1>3. PICK full, groups, all : /\ full = n \div BlockSize /\ groups = computed \div scale
                               /\ all = full \div scale
  OBVIOUS
<1>4. /\ computed \in Nat /\ computed * BlockSize \in Nat /\ computed * BlockSize <= least
      /\ full \in Nat
  BY <1>2, <1>3, FullBlocks
<1>5. computed <= full
  BY <1>1, <1>2, <1>3, FullMore
<1>6. groups \in Nat /\ groups * scale \in Nat /\ groups * scale <= computed
  BY <1>3, <1>4, FullBlocks
<1>7. groups <= all /\ all \in Nat
  BY <1>3, <1>4, <1>5, FullMore, FullBlocks
<1>8. b \in Nat /\ b >= 1 /\ b <= groups /\ b \in 1..all
  BY <1>3, <1>6, <1>7
<1>9. PICK x : x = b * scale
  OBVIOUS
<1>10. x \in Nat /\ x >= 1 /\ x <= computed
  <2>1. b * scale <= groups * scale
    BY <1>6, <1>8, BlocksEnd
  <2>2. x \in Nat /\ x <= groups * scale
    BY <1>8, <1>9, <2>1
  <2>3. 1 * scale <= b * scale
    BY <1>8, BlocksEnd
  <2>4. 1 * scale = scale
    OBVIOUS
  <2> QED
    BY <1>4, <1>6, <1>9, <2>2, <2>3, <2>4
<1>11. x * BlockSize <= least /\ x * BlockSize \in Nat
  <2>1. x * BlockSize <= computed * BlockSize
    BY <1>2, <1>4, <1>10, BlocksEnd
  <2>2. x * BlockSize \in Nat
    BY <1>2, <1>10
  <2> QED
    BY <1>4, <2>1, <2>2
<1>12. u.block_hashes = PrintsOf(u, full)
  BY <1>1, <1>3 DEF GoodRequest
<1>13. Len(u.block_hashes) = full
  BY <1>4, <1>12, PrintsSized DEF PrintsOf
<1>14. View(u.block_hashes, scale)[b] = u.block_hashes[x]
  BY <1>3, <1>8, <1>9, <1>13 DEF View
<1>15. PICK C : C = ContentOf(u)
  OBVIOUS
<1>16. u.block_hashes[x] = Fingerprint(u.tags, C, BlockSize, x)
  <2>1. x \in 1..full
    BY <1>4, <1>5, <1>10
  <2> QED
    BY <1>12, <1>15, <2>1 DEF PrintsOf, Prints
<1>17. \A p \in 1..(x * BlockSize) : C[p] = cells[p]
  <2>1. PICK y \in Nat : y = x * BlockSize /\ y <= l
    BY <1>1, <1>11
  <2>2. \A p \in 1..y : p \in 1..l
    BY <2>1
  <2>3. \A p \in 1..l : cells[p] = C[p]
    BY <1>1, <1>15 DEF Holding
  <2> QED
    BY <2>1, <2>2, <2>3
<1>18. Fingerprint(u.tags, C, BlockSize, x) = Fingerprint(u.tags, cells, BlockSize, x)
  BY <1>2, <1>10, <1>17, FingerprintLocal
<1> QED
  BY <1>9, <1>14, <1>16, <1>18

\* The hashes of a request that has no text.
LEMMA BlankRight ==
  ASSUME NEW r \in Requests, NEW st, req[r] = Blank(st)
  PROVE  /\ Len(req[r].block_hashes) = 0 /\ NumTokens(r) = 0 /\ req[r].num_computed_tokens = 0
BY EmptySeq DEF Blank, NumTokens

\* From the invariant.
LEMMA HashesRight == SessionInv /\ HashInv => HashesFingerprint
<1> SUFFICES ASSUME SessionInv, HashInv, NEW r \in Requests, NEW scale \in Scales
             PROVE  LET view == View(req[r].block_hashes, scale)
                        computed == Min({req[r].num_computed_tokens, NumTokens(r)}) \div BlockSize
                    IN  /\ Len(req[r].block_hashes) = NumTokens(r) \div BlockSize
                        /\ \A b \in 1..(computed \div scale) :
                              view[b] = Fingerprint(req[r].tags, kv[r], BlockSize, b * scale)
  BY DEF HashesFingerprint
<1>1. PICK u, cells : u = req[r] /\ cells = kv[r]
  OBVIOUS
<1>2. scale \in Nat \ {0} /\ BlockSize \in Nat \ {0}
  BY ConstantsOK
<1>3. IsRequest(u) /\ HashOf(r)
  BY <1>1 DEF SessionInv, TypesOK, HashInv
<1>4. PICK n, c \in Nat : n = Len(u.all_token_ids) /\ n = NumTokens(r) /\ c = u.num_computed_tokens
  BY <1>1, <1>3, LenProperties DEF IsRequest, NumTokens
<1>5. PICK least : least = Min({c, n})
  OBVIOUS
<1>6. least \in Nat /\ least <= c /\ least <= n
  BY <1>4, <1>5, LesserOf
<1>7. PICK computed : computed = least \div BlockSize
  OBVIOUS
<1>8. CASE Live(r)
  <2>1. GoodRequest(u) /\ Holding(u, cells)
    BY <1>1, <1>3, <1>8 DEF HashOf
  <2>2. Len(u.block_hashes) = n \div BlockSize
    <3>1. PICK full : full = n \div BlockSize
      OBVIOUS
    <3>2. full \in Nat
      BY <1>2, <1>4, <3>1, FullBlocks
    <3>3. u.block_hashes = PrintsOf(u, full)
      BY <1>4, <2>1, <3>1 DEF GoodRequest
    <3>4. Len(PrintsOf(u, full)) = full
      BY <3>2, PrintsSized DEF PrintsOf
    <3> QED
      BY <3>1, <3>3, <3>4
  <2>3. ASSUME NEW b \in 1..(computed \div scale)
        PROVE  View(u.block_hashes, scale)[b] = Fingerprint(u.tags, cells, BlockSize, b * scale)
    <3>1. least \in Nat /\ least <= u.num_computed_tokens /\ least <= Len(u.all_token_ids)
      BY <1>4, <1>6
    <3>2. scale \in Nat \ {0}
      BY <1>2
    <3> QED
      BY <1>7, <2>1, <2>3, <3>1, <3>2, ViewRight, Zenon
  <2> QED
    BY <1>1, <1>4, <1>5, <1>7, <2>2, <2>3
<1>9. CASE ~Live(r)
  <2>1. Len(u.block_hashes) = 0 /\ n = 0 /\ c = 0
    BY <1>1, <1>3, <1>4, <1>9, BlankRight DEF HashOf
  <2>2. least = 0
    BY <1>6, <2>1
  <2>3. 0 \div BlockSize = 0 /\ 0 \div scale = 0
    BY <1>2
  <2>4. computed = 0 /\ 1..(computed \div scale) = {}
    BY <1>7, <2>2, <2>3
  <2> QED
    BY <1>1, <1>4, <1>5, <1>7, <2>1, <2>3, <2>4
<1> QED
  BY <1>8, <1>9

\* A computed block, in every group's size, is cached under the hash of what it holds:
\* whatever the client sends, ends or aborts, whatever is preempted and found again, with or
\* without a draft, if no session stops at a token that completes a block and every step
\* completes blocks that hold no item of media but the last.  Each hypothesis is needed:
\* the run session_hashes shows a step that is not LastOnly, and the README the two others.
THEOREM HashesAlwaysFingerprint ==
  ASSUME ~AlignedStops, MaxSampled <= 2
  PROVE  Spec /\ [][LastOnly]_vars => []HashesFingerprint
<1>1. Init => HashInv
  BY HashStart
<1>2. SessionInv /\ HashInv /\ [Next /\ LastOnly]_vars => HashInv'
  BY HashStep
<1>3. SessionInv /\ HashInv => HashesFingerprint
  BY HashesRight
<1>4. [Next]_vars /\ [LastOnly]_vars => [Next /\ LastOnly]_vars
  OBVIOUS
<1> QED
  BY <1>1, <1>2, <1>3, <1>4, SessionsHold, PTL DEF Spec
=============================================================================
