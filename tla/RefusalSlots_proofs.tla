------------------------ MODULE RefusalSlots_proofs ------------------------
(***************************************************************************)
(* For every set of requests, slots and strengths, and every buffer: the   *)
(* slots hold what their requests asked for, without adaptive verification *)
(* every row of every forward has its request's strength, and with or      *)
(* without it the rows after the batch hold the dial.                      *)
(***************************************************************************)
EXTENDS RefusalSlots, TLAPS, FiniteSetTheorems, WellFoundedInduction

\* The part of TypeOK the slots need.
TableTypes ==
  /\ index \in [Requests -> Slots \cup {None}]
  /\ asked \in [Requests -> Seals]
  /\ lambdas \in [Slots -> Seals] /\ req_lambda \in [Slots -> Seals]

\* Emptying slots keeps a slot list typed.
LEMMA EmptiedType ==
  ASSUME NEW f \in [Slots -> Seals], NEW gone
  PROVE  Emptied(f, gone) \in [Slots -> Seals]
BY DEF Emptied, Seals

\* Initially no request is in a slot.
LEMMA SlotsInit == Init => TableTypes /\ SlotsMatch
<1> SUFFICES ASSUME Init PROVE TableTypes /\ SlotsMatch
  OBVIOUS
<1>1. TableTypes
  BY DEF Init, TableTypes, Seals
<1>2. Members = {}
  BY DEF Init, Members
<1>3. \A s \in Slots : req_lambda[s] = None /\ lambdas[s] = None
  BY DEF Init
<1> QED
  BY <1>1, <1>2, <1>3 DEF SlotsMatch, FreeSlots

\* Finished and preempted requests leave, and their slots with nothing in them.
LEMMA SlotsFinish ==
  ASSUME TableTypes, SlotsMatch, NEW gone, FinishRequests(gone)
  PROVE  TableTypes' /\ SlotsMatch'
<1> USE RefusalSlotsAssumption
<1>1. TableTypes'
  BY EmptiedType DEF FinishRequests, TableTypes, Seals
<1>2. Members' = Members \ gone
  BY DEF FinishRequests, Members, TableTypes
<1>3. ASSUME NEW r \in Members' PROVE index'[r] = index[r] /\ asked'[r] = asked[r]
                                     /\ r \in Members /\ index[r] \in Slots
  BY <1>2, <1>3 DEF FinishRequests, Members, TableTypes
<1>4. ASSUME NEW r \in Members'
      PROVE  req_lambda'[index'[r]] = asked'[r] /\ lambdas'[index'[r]] = asked'[r]
  <2>1. ~ \E q \in gone : index[q] = index[r]
    BY <1>2, <1>3, <1>4 DEF SlotsMatch, FinishRequests
  <2> QED
    BY SMTT(60), <1>3, <1>4, <2>1 DEF FinishRequests, Emptied, SlotsMatch
<1>5. ASSUME NEW r \in Members', NEW q \in Members', index'[q] = index'[r] PROVE q = r
  BY <1>3, <1>5 DEF SlotsMatch
<1>6. ASSUME NEW s \in FreeSlots' PROVE req_lambda'[s] = None /\ lambdas'[s] = None
  <2>1. s \in FreeSlots \/ \E r \in gone : index[r] = s
    BY <1>6 DEF FreeSlots, FinishRequests, TableTypes
  <2>2. s \in Slots
    BY <1>6 DEF FreeSlots
  <2> QED
    BY <2>1, <2>2 DEF FinishRequests, Emptied, SlotsMatch
<1> QED
  BY <1>1, <1>4, <1>5, <1>6 DEF SlotsMatch

\* A request enters a slot nobody is in, or again its own.  Its old slot has been
\* emptied before, and so has the new one: without a seal it finds None there.
LEMMA SlotsAdd ==
  ASSUME TableTypes, SlotsMatch, NEW r \in Requests, NEW s \in Slots,
         NEW lam \in Seals, AddRequest(r, s, lam)
  PROVE  TableTypes' /\ SlotsMatch'
<1> USE RefusalSlotsAssumption
<1> DEFINE L == Emptied(lambdas, {r})
           D == Emptied(req_lambda, {r})
<1>1. L \in [Slots -> Seals] /\ D \in [Slots -> Seals]
  BY EmptiedType DEF TableTypes
<1>2. index' = [index EXCEPT ![r] = s] /\ asked' = [asked EXCEPT ![r] = lam]
  BY DEF AddRequest
<1>3. lambdas' = [L EXCEPT ![s] = lam] /\ req_lambda' = Sealed(D, s, lam)
  BY DEF AddRequest
<1>4. L[s] = None /\ D[s] = None
  <2>1. s \in FreeSlots \/ s = index[r]
    BY DEF AddRequest
  <2> QED
    BY <2>1 DEF Emptied, SlotsMatch
<1>5. req_lambda' \in [Slots -> Seals] /\ req_lambda'[s] = lam
      /\ \A t \in Slots : t # s => req_lambda'[t] = D[t]
  <2> HIDE DEF D
  <2> QED
    BY <1>1, <1>3, <1>4 DEF Sealed
<1>6. lambdas' \in [Slots -> Seals] /\ lambdas'[s] = lam
      /\ \A t \in Slots : t # s => lambdas'[t] = L[t]
  <2> HIDE DEF L
  <2> QED
    BY <1>1, <1>3
<1>7. TableTypes'
  BY <1>2, <1>5, <1>6 DEF TableTypes
<1>8. ASSUME NEW q \in Members', q # r
      PROVE  /\ q \in Members /\ index'[q] = index[q] /\ asked'[q] = asked[q]
             /\ index[q] \in Slots /\ index[q] # s /\ index[q] # index[r]
  <2>1. q \in Members /\ index'[q] = index[q] /\ asked'[q] = asked[q] /\ index[q] \in Slots
    BY <1>2, <1>8 DEF Members, TableTypes
  <2>2. index[q] # index[r]
    BY <1>8, <2>1 DEF SlotsMatch, Members
  <2>3. index[q] # s
    BY <2>1, <2>2 DEF AddRequest, FreeSlots, Members
  <2> QED
    BY <2>1, <2>2, <2>3
<1>9. index'[r] = s /\ asked'[r] = lam
  BY <1>2 DEF TableTypes
<1>10. ASSUME NEW q \in Members'
       PROVE  req_lambda'[index'[q]] = asked'[q] /\ lambdas'[index'[q]] = asked'[q]
  <2>1. CASE q = r
    BY <1>5, <1>6, <1>9, <2>1
  <2>2. CASE q # r
    <3>1. L[index[q]] = lambdas[index[q]] /\ D[index[q]] = req_lambda[index[q]]
      BY <1>8, <1>10, <2>2 DEF Emptied
    <3>2. /\ q \in Members /\ index'[q] = index[q] /\ asked'[q] = asked[q]
          /\ index[q] \in Slots /\ index[q] # s
      BY <1>8, <1>10, <2>2
    <3>3. req_lambda[index[q]] = asked[q] /\ lambdas[index[q]] = asked[q]
      BY <3>2 DEF SlotsMatch
    <3> HIDE DEF L, D
    <3>4. req_lambda'[index[q]] = D[index[q]] /\ lambdas'[index[q]] = L[index[q]]
      BY <1>5, <1>6, <3>2
    <3> QED
      BY <3>1, <3>2, <3>3, <3>4
  <2> QED
    BY <2>1, <2>2
<1>11. ASSUME NEW q \in Members', NEW p \in Members', index'[p] = index'[q] PROVE p = q
  BY <1>8, <1>9, <1>11 DEF SlotsMatch
<1>12. ASSUME NEW t \in FreeSlots' PROVE req_lambda'[t] = None /\ lambdas'[t] = None
  <2>1. t \in Slots /\ t # s
    BY <1>9, <1>12 DEF FreeSlots
  <2>2. t \in FreeSlots \/ t = index[r]
    BY <1>2, <1>12 DEF FreeSlots, TableTypes
  <2>3. L[t] = None /\ D[t] = None
    BY <2>1, <2>2 DEF Emptied, SlotsMatch
  <2> QED
    BY <1>5, <1>6, <2>1, <2>3
<1> QED
  BY <1>7, <1>10, <1>11, <1>12 DEF SlotsMatch

\* No other step touches the table.
LEMMA SlotsNext == TableTypes /\ SlotsMatch /\ [Next]_vars => TableTypes' /\ SlotsMatch'
<1> SUFFICES ASSUME TableTypes, SlotsMatch, [Next]_vars PROVE TableTypes' /\ SlotsMatch'
  OBVIOUS
<1>1. ASSUME NEW gone \in SUBSET Requests, FinishRequests(gone)
      PROVE  TableTypes' /\ SlotsMatch'
  BY <1>1, SlotsFinish
<1>2. ASSUME NEW r \in Requests, NEW s \in Slots, NEW lam \in Seals, AddRequest(r, s, lam)
      PROVE  TableTypes' /\ SlotsMatch'
  BY <1>2, SlotsAdd
<1>3. ASSUME UNCHANGED tableVars PROVE TableTypes' /\ SlotsMatch'
  BY <1>3 DEF tableVars, TableTypes, SlotsMatch, Members, FreeSlots
<1>4. UNCHANGED tableVars \/ (\E gone \in SUBSET Requests : FinishRequests(gone))
      \/ \E r \in Requests, s \in Slots, lam \in Seals : AddRequest(r, s, lam)
  BY DEF Next, vars, tableVars, NoTokens, RunTarget, ProjectFails, DraftPrefill,
         DraftDecode, EndStep, DummyRun, SetLambda
<1> QED
  BY <1>1, <1>2, <1>3, <1>4

\* Whatever requests finish, are preempted, come back or reuse a slot, every
\* slot holds the seal of the request in it, and none when there is none.
THEOREM SlotsCorrect == Spec => []SlotsMatch
<1>1. Init => TableTypes /\ SlotsMatch
  BY SlotsInit
<1>2. TableTypes /\ SlotsMatch /\ [Next]_vars => (TableTypes /\ SlotsMatch)'
  BY SlotsNext
<1> QED
  BY <1>1, <1>2, PTL DEF Spec

-----------------------------------------------------------------------------
\* Induction over the naturals, for a set instead of a predicate.
LEMMA SetInduction ==
  ASSUME NEW T, 0 \in T, \A n \in Nat : n \in T => n + 1 \in T
  PROVE  Nat \subseteq T
<1> SUFFICES ASSUME Nat \ T # {} PROVE FALSE
  OBVIOUS
<1> DEFINE R == StrictSubsetOrdering(Nat)
           F == {0..n : n \in Nat \ T}
<1>1. F \subseteq FiniteSubsetsOf(Nat)
  <2> SUFFICES ASSUME NEW n \in Nat \ T PROVE 0..n \in FiniteSubsetsOf(Nat)
    OBVIOUS
  <2>1. IsFiniteSet(0..n)
    BY FS_Interval
  <2>2. 0..n \in SUBSET Nat
    OBVIOUS
  <2> QED
    BY <2>1, <2>2 DEF FiniteSubsetsOf
<1>2. F # {}
  OBVIOUS
<1>3. \E A \in F : \A B \in F : <<B, A>> \notin R
  <2> HIDE DEF F, R
  <2>1. IsWellFoundedOn(R, FiniteSubsetsOf(Nat))
    BY FS_StrictSubsetOrderingWellFounded DEF R
  <2> QED
    BY <1>1, <1>2, <2>1, WFMin
<1>4. PICK n \in Nat \ T : \A m \in Nat \ T : <<0..m, 0..n>> \notin R
  BY <1>3
<1>5. n # 0 /\ n - 1 \in Nat
  BY <1>4
<1>6. n - 1 \notin T
  BY <1>5
<1>7. <<0..n - 1, 0..n>> \in R
  <2>1. 0..n - 1 \in SUBSET Nat /\ 0..n \in SUBSET Nat
    BY <1>5
  <2>2. 0..n - 1 \subseteq 0..n /\ n \in 0..n /\ n \notin 0..n - 1
    BY <1>5
  <2> QED
    BY <2>1, <2>2 DEF StrictSubsetOrdering
<1> QED
  BY <1>4, <1>5, <1>6, <1>7

\* The two equations that determine where each request's rows begin.
LEMMA StartSteps ==
  ASSUME NEW counts \in Seq(Nat)
  PROVE  /\ Start(counts, 1) = 0
         /\ \A i \in 1..Len(counts) + 1 : Start(counts, i) \in Nat
         /\ \A i \in 1..Len(counts) :
              Start(counts, i + 1) = Start(counts, i) + counts[i]
<1> DEFINE N == Len(counts)
           Sums(n, f) == /\ f \in [0..n -> Nat] /\ f[0] = 0
                         /\ \A j \in 1..n : f[j] = f[j - 1] + counts[j]
           T == {n \in Nat : n <= N => \E f : Sums(n, f)}
           Eq(f) == f = [j \in 0..N |-> IF j = 0 THEN 0 ELSE f[j - 1] + counts[j]]
<1>0. N \in Nat /\ \A j \in 1..N : counts[j] \in Nat
  OBVIOUS
<1>1. 0 \in T
  <2>1. Sums(0, [j \in 0..0 |-> 0])
    OBVIOUS
  <2> QED
    BY <2>1
<1>2. ASSUME NEW n \in Nat, n \in T PROVE n + 1 \in T
  <2>1. SUFFICES ASSUME n + 1 <= N PROVE \E f : Sums(n + 1, f)
    <3> HIDE DEF Sums
    <3> QED
      OBVIOUS
  <2>2. PICK f : Sums(n, f)
    <3> HIDE DEF Sums
    <3>1. n <= N
      BY <1>0, <2>1
    <3> QED
      BY <1>2, <3>1
  <2>3. counts[n + 1] \in Nat /\ f[n] \in Nat
    BY <1>0, <2>1, <2>2
  <2> DEFINE g == [j \in 0..n + 1 |-> IF j = n + 1 THEN f[n] + counts[n + 1] ELSE f[j]]
  <2>4. g \in [0..n + 1 -> Nat] /\ g[0] = 0
    BY <2>2, <2>3
  <2>5. ASSUME NEW j \in 1..n + 1 PROVE g[j] = g[j - 1] + counts[j]
    <3>1. CASE j = n + 1
      BY <2>2, <2>3, <3>1
    <3>2. CASE j # n + 1
      <4>1. j \in 1..n /\ g[j] = f[j] /\ g[j - 1] = f[j - 1]
        BY <2>5, <3>2
      <4> QED
        BY <2>2, <4>1
    <3> QED
      BY <3>1, <3>2
  <2>6. Sums(n + 1, g)
    BY <2>4, <2>5
  <2> HIDE DEF Sums, g
  <2> QED
    BY <2>6
<1>3. PICK f : Sums(N, f)
  <2> HIDE DEF Sums
  <2>1. Nat \subseteq T
    BY <1>1, <1>2, SetInduction
  <2> QED
    BY <1>0, <2>1
<1>4. Eq(f)
  BY <1>0, <1>3
<1> DEFINE sum == CHOOSE h : Eq(h)
<1>5. Eq(sum)
  <2> HIDE DEF Eq
  <2> QED
    BY <1>4
<1>6. ASSUME NEW i PROVE Start(counts, i) = sum[i - 1]
  BY DEF Start
<1>7. sum[0] = 0 /\ \A j \in 1..N : sum[j] = sum[j - 1] + counts[j]
  <2>1. \A j \in 0..N : sum[j] = IF j = 0 THEN 0 ELSE sum[j - 1] + counts[j]
    <3> HIDE DEF sum
    <3> QED
      BY <1>5
  <2> HIDE DEF sum
  <2> QED
    BY <1>0, <2>1
<1> HIDE DEF sum
<1> DEFINE U == {n \in Nat : n <= N => sum[n] \in Nat}
<1>8. 0 \in U /\ \A n \in Nat : n \in U => n + 1 \in U
  <2>1. 0 \in U
    BY <1>7
  <2>2. ASSUME NEW n \in Nat, n \in U PROVE n + 1 \in U
    BY <1>0, <1>7, <2>2
  <2> QED
    BY <2>1, <2>2
<1>9. \A n \in 0..N : sum[n] \in Nat
  <2>1. Nat \subseteq U
    BY <1>8, SetInduction
  <2> QED
    BY <1>0, <2>1
<1>10. Start(counts, 1) = 0
  BY <1>6, <1>7
<1>11. ASSUME NEW i \in 1..N + 1 PROVE Start(counts, i) \in Nat
  BY SMTT(60), <1>0, <1>6, <1>9
<1>12. ASSUME NEW i \in 1..N PROVE Start(counts, i + 1) = Start(counts, i) + counts[i]
  <2>1. (i + 1) - 1 = i
    BY <1>0
  <2> QED
    BY <1>0, <1>6, <1>7, <2>1
<1> QED
  BY <1>10, <1>11, <1>12

\* A later request's rows begin no earlier.
LEMMA StartMonotone ==
  ASSUME NEW counts \in Seq(Nat), NEW i \in 1..Len(counts) + 1,
         NEW j \in 1..Len(counts) + 1, i <= j
  PROVE  Start(counts, i) <= Start(counts, j)
<1> DEFINE N == Len(counts)
           S(x) == Start(counts, x)
           T == {d \in Nat : i + d <= N + 1 => S(i) <= S(i + d)}
<1>1. /\ N \in Nat /\ \A x \in 1..N : counts[x] \in Nat
      /\ \A x \in 1..N + 1 : S(x) \in Nat
      /\ \A x \in 1..N : S(x + 1) = S(x) + counts[x]
  BY StartSteps
<1> HIDE DEF S
<1>2. 0 \in T
  BY <1>1
<1>3. ASSUME NEW d \in Nat, d \in T PROVE d + 1 \in T
  <2> SUFFICES ASSUME i + (d + 1) <= N + 1 PROVE S(i) <= S(i + (d + 1))
    OBVIOUS
  <2>1. i + d \in 1..N /\ i \in 1..N + 1 /\ i + (d + 1) = (i + d) + 1
    BY <1>1
  <2>2. S(i) <= S(i + d)
    BY <1>1, <1>3, <2>1
  <2>3. S((i + d) + 1) = S(i + d) + counts[i + d] /\ counts[i + d] \in Nat
    BY <1>1, <2>1
  <2>4. S(i) \in Nat /\ S(i + d) \in Nat
    BY <1>1, <2>1
  <2> QED
    BY <2>1, <2>2, <2>3, <2>4
<1>4. Nat \subseteq T
  BY <1>2, <1>3, SetInduction
<1>5. j - i \in Nat /\ i + (j - i) = j /\ i + (j - i) <= N + 1
  BY <1>1
<1>6. S(i) <= S(i + (j - i))
  BY <1>4, <1>5
<1> QED
  BY <1>5, <1>6 DEF S

\* A row belongs to one request, and lies before the end of the batch.
LEMMA HoldsOnce ==
  ASSUME NEW counts \in Seq(Nat), NEW i \in 1..Len(counts), NEW k \in Nat,
         Holds(counts, i, k)
  PROVE  /\ k <= Total(counts)
         /\ \A j \in 1..Len(counts) : Holds(counts, j, k) => j = i
<1> DEFINE N == Len(counts)
<1>1. /\ N \in Nat
      /\ \A x \in 1..N + 1 : Start(counts, x) \in Nat
      /\ \A x \in 1..N : Start(counts, x + 1) = Start(counts, x) + counts[x]
  BY StartSteps
<1>2. \A x \in 1..N, y \in 1..N : x < y => Start(counts, x) + counts[x] <= Start(counts, y)
  <2> SUFFICES ASSUME NEW x \in 1..N, NEW y \in 1..N, x < y
               PROVE  Start(counts, x) + counts[x] <= Start(counts, y)
    OBVIOUS
  <2>1. x + 1 \in 1..N + 1 /\ y \in 1..N + 1 /\ x + 1 <= y
    BY <1>1
  <2>2. Start(counts, x + 1) <= Start(counts, y)
    BY <2>1, StartMonotone
  <2> QED
    BY <1>1, <2>2
<1>3. Start(counts, i + 1) <= Total(counts)
  <2>1. i + 1 \in 1..N + 1 /\ N + 1 \in 1..N + 1 /\ i + 1 <= N + 1
    BY <1>1
  <2> QED
    BY <2>1, StartMonotone DEF Total
<1>4. k <= Total(counts)
  <2>1. i + 1 \in 1..N + 1 /\ N + 1 \in 1..N + 1
    BY <1>1
  <2>2. k <= Start(counts, i + 1)
    BY <1>1 DEF Holds
  <2>3. Start(counts, i + 1) \in Nat /\ Total(counts) \in Nat
    BY <1>1, <2>1 DEF Total
  <2> QED
    BY <1>3, <2>2, <2>3
<1>5. ASSUME NEW j \in 1..N, Holds(counts, j, k) PROVE j = i
  <2>1. Start(counts, i) < k /\ k <= Start(counts, i) + counts[i]
        /\ Start(counts, j) < k /\ k <= Start(counts, j) + counts[j]
    BY <1>5 DEF Holds
  <2>2. /\ Start(counts, i) \in Nat /\ Start(counts, j) \in Nat
        /\ counts[i] \in Nat /\ counts[j] \in Nat
    BY <1>1
  <2>3. i < j => Start(counts, i) + counts[i] <= Start(counts, j)
    BY <1>2
  <2>4. j < i => Start(counts, j) + counts[j] <= Start(counts, i)
    BY <1>2
  <2>5. ~ (i < j)
    BY <2>1, <2>2, <2>3
  <2>6. ~ (j < i)
    BY <2>1, <2>2, <2>4
  <2> QED
    BY <1>1, <2>5, <2>6
<1> QED
  BY <1>4, <1>5

\* fill_target, given as many counts as the batch has requests and the number of
\* rows they add up to, writes each row with the strength at its request's slot.
LEMMA FilledRows ==
  ASSUME NEW b, NEW counts \in Seq(Nat), Len(counts) = Len(b),
         Total(counts) <= BufferRows,
         NEW i \in 1..Len(b), NEW k \in Rows, Holds(counts, i, k)
  PROVE  Filled(b, counts, Total(counts))[k] = Strength(req_lambda[index[b[i].req]])
<1>1. k \in Nat
  BY DEF Rows
<1>2. k <= Total(counts) /\ \A j \in 1..Len(b) : Holds(counts, j, k) => j = i
  BY <1>1, HoldsOnce
<1>3. (CHOOSE j \in 1..Len(b) : Holds(counts, j, k)) = i
  BY <1>2
<1> QED
  BY <1>2, <1>3 DEF Filled

\* One row for each of n requests makes n rows.
LEMMA TotalOfOnes ==
  ASSUME NEW n \in Nat
  PROVE  Total([i \in 1..n |-> 1]) = n
<1> DEFINE ones == [i \in 1..n |-> 1]
           T == {m \in Nat : m <= n => Start(ones, m + 1) = m}
<1>1. ones \in Seq(Nat) /\ Len(ones) = n
  OBVIOUS
<1>2. /\ Start(ones, 1) = 0
      /\ \A i \in 1..n : Start(ones, i + 1) = Start(ones, i) + ones[i]
  <2> HIDE DEF ones
  <2> QED
    BY <1>1, StartSteps
<1>3. 0 \in T
  BY <1>2
<1>4. ASSUME NEW m \in Nat, m \in T PROVE m + 1 \in T
  <2> SUFFICES ASSUME m + 1 <= n PROVE Start(ones, (m + 1) + 1) = m + 1
    <3> HIDE DEF ones
    <3> QED
      OBVIOUS
  <2>1. m + 1 \in 1..n /\ ones[m + 1] = 1
    OBVIOUS
  <2>2. Start(ones, m + 1) = m
    BY <1>4
  <2> HIDE DEF ones
  <2> QED
    BY <1>2, <2>1, <2>2
<1>5. Nat \subseteq T
  <2> HIDE DEF T
  <2> QED
    BY <1>3, <1>4, SetInduction
<1>6. Start(ones, n + 1) = n
  BY <1>5
<1> QED
  BY <1>1, <1>6 DEF Total

-----------------------------------------------------------------------------
\* What a forward needs of its batch: one row at least, and as many as its bound,
\* for each request.
Sound(b) ==
  /\ Len(b) \in Nat
  /\ \A i \in 1..Len(b) : b[i].req \in Members /\ b[i].rows \in Nat /\ b[i].bound = b[i].rows

BatchSound == phase \in {"target", "prefill", "decode"} => Sound(batch)

IInv == TableTypes /\ SlotsMatch /\ BatchSound /\ OwnLambda

\* Without adaptive verification the rows of a batch are its bounds.
LEMMA BatchesSound ==
  ASSUME ~Adaptive, NEW b \in Batches
  PROVE  Sound(b)
<1> USE RefusalSlotsAssumption
<1>1. PICK n \in 1..Cardinality(Members) :
        b \in [1..n -> [req : Members, bound : 1..MaxCount, rows : 1..MaxCount]]
  BY DEF Batches
<1>2. n \in Nat /\ Len(b) = n
  BY <1>1
<1>3. \A i \in 1..n : b[i].rows \in RowChoices(b[i].bound)
  BY <1>1 DEF Batches
<1> QED
  BY <1>1, <1>2, <1>3 DEF Sound, RowChoices

\* A fill by the rows of a sound batch gives every row its request's strength.
LEMMA FillSound ==
  ASSUME TableTypes, SlotsMatch, NEW b, Sound(b),
         NEW counts \in Seq(Nat), Len(counts) = Len(b), Total(counts) <= BufferRows
  PROVE  \A i \in 1..Len(b) : \A k \in Rows :
           Holds(counts, i, k) =>
             Filled(b, counts, Total(counts))[k] = Strength(asked[b[i].req])
<1> SUFFICES ASSUME NEW i \in 1..Len(b), NEW k \in Rows, Holds(counts, i, k)
             PROVE  Filled(b, counts, Total(counts))[k] = Strength(asked[b[i].req])
  OBVIOUS
<1>1. req_lambda[index[b[i].req]] = asked[b[i].req]
  BY DEF Sound, SlotsMatch
<1> QED
  BY <1>1, FilledRows

\* The counts of a sound batch are sequences of numbers.
LEMMA CountsType ==
  ASSUME NEW b, Sound(b)
  PROVE  /\ [i \in 1..Len(b) |-> b[i].rows] \in Seq(Nat)
         /\ Len([i \in 1..Len(b) |-> b[i].rows]) = Len(b)
         /\ [i \in 1..Len(b) |-> b[i].bound] = [i \in 1..Len(b) |-> b[i].rows]
         /\ [i \in 1..Len(b) |-> 1] \in Seq(Nat)
         /\ Len([i \in 1..Len(b) |-> 1]) = Len(b)
BY DEF Sound

\* The three fills of a step: target, draft step zero, later draft steps.
LEMMA OwnLambdaTarget ==
  ASSUME IInv, ~Adaptive, NEW b \in Batches, RunTarget(b)
  PROVE  BatchSound' /\ OwnLambda'
<1> DEFINE rows == [i \in 1..Len(b) |-> b[i].rows]
<1>1. Sound(b)
  BY BatchesSound
<1>2. rows \in Seq(Nat) /\ Len(rows) = Len(b) /\ [i \in 1..Len(b) |-> b[i].bound] = rows
  BY <1>1, CountsType
<1>3. batch' = b /\ phase' = "target" /\ UNCHANGED <<tableVars, value>>
      /\ tok' = Filled(b, rows, Total(rows))
  BY <1>2 DEF RunTarget
<1>4. BatchSound'
  BY <1>1, <1>3 DEF BatchSound, Sound, Members, tableVars
<1>5. Layout' = rows
  BY <1>3 DEF Layout, RowCounts
<1>6. ASSUME Total(rows) <= BufferRows, NEW i \in 1..Len(b), NEW k \in Rows, Holds(rows, i, k)
      PROVE  tok'[k] = Strength(asked[b[i].req])
  <2> HIDE DEF rows
  <2> QED
    BY <1>1, <1>2, <1>3, <1>6, FillSound DEF IInv
<1>7. \A r : Strength(asked[r])' = Strength(asked[r])
  BY <1>3 DEF Strength, tableVars
<1> HIDE DEF rows
<1> QED
  BY <1>3, <1>4, <1>5, <1>6, <1>7 DEF OwnLambda, InForward, Strength, tableVars

LEMMA OwnLambdaPrefill ==
  ASSUME IInv, DraftPrefill
  PROVE  BatchSound' /\ OwnLambda'
<1>1. Sound(batch)
  BY DEF IInv, BatchSound, DraftPrefill
<1>2. RowCounts \in Seq(Nat) /\ Len(RowCounts) = Len(batch) /\ Bounds = RowCounts
  BY <1>1, CountsType DEF RowCounts, Bounds
<1>3. UNCHANGED <<tableVars, value, batch>> /\ phase' = "prefill"
      /\ tok' = Filled(batch, RowCounts, Total(RowCounts)) /\ Total(RowCounts) <= BufferRows
  BY <1>2 DEF DraftPrefill
<1>4. BatchSound'
  BY <1>1, <1>3 DEF BatchSound, Sound, Members, tableVars
<1>5. Layout' = RowCounts
  BY <1>3 DEF Layout, RowCounts
<1>6. ASSUME NEW i \in 1..Len(batch), NEW k \in Rows, Holds(RowCounts, i, k)
      PROVE  tok'[k] = Strength(asked[batch[i].req])
  BY <1>1, <1>2, <1>3, <1>6, FillSound DEF IInv
<1> QED
  BY <1>3, <1>4, <1>5, <1>6 DEF OwnLambda, Strength, tableVars

LEMMA OwnLambdaDecode ==
  ASSUME IInv, DraftDecode
  PROVE  BatchSound' /\ OwnLambda'
<1>1. Sound(batch)
  BY DEF IInv, BatchSound, DraftDecode
<1>2. Ones \in Seq(Nat) /\ Len(Ones) = Len(batch)
  BY <1>1, CountsType DEF Ones
<1>3. Total(Ones) = Len(batch)
  BY <1>1, TotalOfOnes DEF Ones, Sound
<1>4. UNCHANGED <<tableVars, value, batch>> /\ phase' = "decode"
      /\ tok' = Filled(batch, Ones, Total(Ones))
  BY <1>3 DEF DraftDecode
<1>5. BatchSound'
  BY <1>1, <1>4 DEF BatchSound, Sound, Members, tableVars
<1>6. Layout' = Ones
  BY <1>4 DEF Layout, Ones
<1>7. ASSUME Total(Ones) <= BufferRows, NEW i \in 1..Len(batch), NEW k \in Rows,
             Holds(Ones, i, k)
      PROVE  tok'[k] = Strength(asked[batch[i].req])
  BY <1>1, <1>2, <1>4, <1>7, FillSound DEF IInv
<1> QED
  BY <1>4, <1>5, <1>6, <1>7 DEF OwnLambda, InForward, Strength, tableVars

\* The remaining steps leave no forward running, or change nothing.
LEMMA OwnLambdaNext ==
  ASSUME IInv, ~Adaptive, [Next]_vars
  PROVE  IInv'
<1>1. TableTypes' /\ SlotsMatch'
  BY SlotsNext DEF IInv
<1>2. CASE phase' \notin {"target", "prefill", "decode"}
  BY <1>1, <1>2 DEF IInv, BatchSound, OwnLambda, InForward
<1>3. ASSUME NEW b \in Batches, RunTarget(b) PROVE IInv'
  BY <1>1, <1>3, OwnLambdaTarget DEF IInv
<1>4. CASE DraftPrefill
  BY <1>1, <1>4, OwnLambdaPrefill DEF IInv
<1>5. CASE DraftDecode
  BY <1>1, <1>5, OwnLambdaDecode DEF IInv
<1>6. CASE UNCHANGED vars
  <2>1. phase' = phase /\ batch' = batch /\ tok' = tok /\ value' = value
        /\ index' = index /\ asked' = asked
    BY <1>6 DEF vars
  <2>2. BatchSound'
    BY <2>1 DEF IInv, BatchSound, Sound, Members
  <2>3. Layout' = Layout
    BY <2>1 DEF Layout, Ones, RowCounts
  <2>4. OwnLambda'
    BY <2>1, <2>3 DEF IInv, OwnLambda, InForward, Strength
  <2> QED
    BY <1>1, <2>2, <2>4 DEF IInv
<1>7. \/ phase' \notin {"target", "prefill", "decode"} \/ DraftPrefill \/ DraftDecode
      \/ (\E b \in Batches : RunTarget(b)) \/ UNCHANGED vars
  BY DEF Next, FinishRequests, AddRequest, NoTokens, ProjectFails, EndStep, DummyRun, SetLambda
<1> QED
  BY <1>2, <1>3, <1>4, <1>5, <1>6, <1>7

\* Without adaptive verification, every row of every forward of the target and of
\* the drafter is projected with the strength of the request it belongs to,
\* across slot reuse, mixed batches and dial changes.
THEOREM OwnLambdaCorrect ==
  ASSUME ~Adaptive
  PROVE  Spec => []OwnLambda
<1>1. Init => IInv
  BY SlotsInit DEF IInv, Init, BatchSound, OwnLambda, InForward
<1>2. IInv /\ [Next]_vars => IInv'
  BY OwnLambdaNext
<1>3. IInv => OwnLambda
  BY DEF IInv
<1> QED
  BY <1>1, <1>2, <1>3, PTL DEF Spec

-----------------------------------------------------------------------------
(* The rows after the batch *)

\* The batch of a running forward gives every request a number of rows.
Countable(b) == Len(b) \in Nat /\ \A i \in 1..Len(b) : b[i].rows \in Nat

PadInv ==
  /\ phase \in {"target", "prefill", "decode"} => Countable(batch)
  /\ PaddingNeutral

\* Any batch prepare_inputs may be given does.
LEMMA BatchesCountable ==
  ASSUME NEW b \in Batches
  PROVE  Countable(b)
<1>1. PICK n \in 1..Cardinality(Members) :
        b \in [1..n -> [req : Members, bound : 1..MaxCount, rows : 1..MaxCount]]
  BY DEF Batches
<1>2. n \in Nat /\ Len(b) = n
  BY <1>1
<1>3. ASSUME NEW i \in 1..n PROVE b[i].rows \in Nat
  <2>1. b[i] \in [req : Members, bound : 1..MaxCount, rows : 1..MaxCount]
    BY <1>1
  <2> QED
    BY <2>1
<1> QED
  BY <1>2, <1>3 DEF Countable

\* The number of rows of such a batch is a number.
LEMMA TotalType ==
  ASSUME NEW b, Countable(b)
  PROVE  Total([i \in 1..Len(b) |-> b[i].rows]) \in Nat
<1> DEFINE rows == [i \in 1..Len(b) |-> b[i].rows]
<1>1. rows \in Seq(Nat) /\ Len(rows) = Len(b)
  BY DEF Countable
<1>2. Len(rows) + 1 \in 1..Len(rows) + 1
  BY <1>1 DEF Countable
<1> HIDE DEF rows
<1>3. Start(rows, Len(rows) + 1) \in Nat
  BY <1>1, <1>2, StartSteps
<1> QED
  BY <1>3 DEF Total, rows

\* A fill leaves the dial in every row after those it is told of.
LEMMA FilledPadding ==
  ASSUME NEW b, NEW counts, NEW n \in Nat, NEW k \in Rows, k > n
  PROVE  Filled(b, counts, n)[k] = value
BY DEF Filled, Rows

\* Each fill is told of all the rows of the forward it is made for.
LEMMA PaddingNext ==
  ASSUME PadInv, [Next]_vars
  PROVE  PadInv'
<1>1. ASSUME NEW b \in Batches, RunTarget(b) PROVE PadInv'
  <2>1. Countable(b) /\ batch' = b /\ phase' = "target" /\ value' = value
    BY <1>1, BatchesCountable DEF RunTarget
  <2>2. PICK n : n = Total([i \in 1..Len(b) |-> b[i].rows])
    OBVIOUS
  <2>3. n \in Nat /\ tok' = Filled(b, [i \in 1..Len(b) |-> b[i].bound], n)
    BY <1>1, <2>1, <2>2, TotalType DEF RunTarget
  <2>4. Total(Layout)' = n
    BY <2>1, <2>2 DEF Layout, RowCounts
  <2>5. \A k \in Rows : k > n => tok'[k] = value'
    BY <2>1, <2>3, FilledPadding
  <2> QED
    BY <2>1, <2>4, <2>5 DEF PadInv, PaddingNeutral, Countable, Rows
<1>2. ASSUME DraftPrefill PROVE PadInv'
  <2>1. Countable(batch) /\ batch' = batch /\ phase' = "prefill" /\ value' = value
    BY <1>2 DEF DraftPrefill, PadInv
  <2>2. PICK n : n = Total([i \in 1..Len(batch) |-> batch[i].rows])
    OBVIOUS
  <2>3. n \in Nat /\ tok' = Filled(batch, Bounds, n)
    BY <1>2, <2>1, <2>2, TotalType DEF DraftPrefill, RowCounts
  <2>4. Total(Layout)' = n
    BY <2>1, <2>2 DEF Layout, RowCounts
  <2>5. \A k \in Rows : k > n => tok'[k] = value'
    BY <2>1, <2>3, FilledPadding
  <2> QED
    BY <2>1, <2>4, <2>5 DEF PadInv, PaddingNeutral, Countable, Rows
<1>3. ASSUME DraftDecode PROVE PadInv'
  <2>1. Countable(batch) /\ batch' = batch /\ phase' = "decode" /\ value' = value
    BY <1>3 DEF DraftDecode, PadInv
  <2>2. PICK n : n = Len(batch)
    OBVIOUS
  <2>3. n \in Nat /\ tok' = Filled(batch, Ones, n)
    BY <1>3, <2>1, <2>2 DEF DraftDecode, Countable
  <2>4. Total(Layout)' = n
    <3>1. Total(Layout)' = Total([i \in 1..n |-> 1])
      BY <2>1, <2>2 DEF Layout, Ones
    <3> QED
      BY <2>3, <3>1, TotalOfOnes
  <2>5. \A k \in Rows : k > n => tok'[k] = value'
    BY <2>1, <2>3, FilledPadding
  <2> QED
    BY <2>1, <2>4, <2>5 DEF PadInv, PaddingNeutral, Countable, Rows
<1>4. ASSUME DummyRun PROVE PadInv'
  BY <1>4 DEF DummyRun, PadInv, PaddingNeutral, InForward
<1>5. CASE phase' \notin {"target", "prefill", "decode", "dummy"}
  BY <1>5 DEF PadInv, PaddingNeutral, InForward
<1>6. CASE UNCHANGED vars
  <2>1. UNCHANGED <<phase, value, tok, batch>>
    BY <1>6 DEF vars
  <2>2. Layout' = Layout
    BY <2>1 DEF Layout, RowCounts, Ones
  <2>3. Total(Layout)' = Total(Layout)
    BY <2>2
  <2>4. InForward' = InForward
    BY <2>1, <2>3 DEF InForward
  <2> QED
    BY <2>1, <2>3, <2>4 DEF PadInv, PaddingNeutral, Countable, Rows
<1>7. ASSUME NEW gone, FinishRequests(gone) PROVE PadInv'
  BY <1>5, <1>7 DEF FinishRequests
<1>8. ASSUME NEW r, NEW s, NEW lam, AddRequest(r, s, lam) PROVE PadInv'
  BY <1>5, <1>8 DEF AddRequest
<1>9. ASSUME NoTokens PROVE PadInv'
  BY <1>5, <1>9 DEF NoTokens
<1>10. ASSUME ProjectFails PROVE PadInv'
  BY <1>5, <1>10 DEF ProjectFails
<1>11. ASSUME EndStep PROVE PadInv'
  BY <1>5, <1>11 DEF EndStep
<1>12. ASSUME NEW v, SetLambda(v) PROVE PadInv'
  BY <1>5, <1>12 DEF SetLambda
<1> QED
  BY <1>1, <1>2, <1>3, <1>4, <1>6, <1>7, <1>8, <1>9, <1>10, <1>11, <1>12 DEF Next

\* The rows that only a padded graph reads hold the dial in every forward, the
\* target's and each of the drafter's, and all of them do in a dummy run, with or
\* without adaptive verification: no request's seal outlives its rows in the buffer.
THEOREM PaddingAlwaysNeutral == Spec => []PaddingNeutral
<1>1. Init => PadInv
  BY DEF Init, PadInv, PaddingNeutral, InForward
<1>2. PadInv /\ [Next]_vars => PadInv'
  BY PaddingNext
<1>3. PadInv => PaddingNeutral
  BY DEF PadInv
<1> QED
  BY <1>1, <1>2, <1>3, PTL DEF Spec
=============================================================================
