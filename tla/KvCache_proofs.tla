--------------------------- MODULE KvCache_proofs ---------------------------
(***************************************************************************)
(* The start-up plan of the KV cache, for every model, cluster and amount  *)
(* of memory.                                                              *)
(***************************************************************************)
EXTENDS KvCache, FreeBlockQueue_proofs

-----------------------------------------------------------------------------
(* Rounding *)

\* A rounded quotient covers, and one less would not.
LEMMA CeilDivBounds ==
  ASSUME NEW a \in Nat, NEW c \in Nat \ {0}
  PROVE  /\ CeilDiv(a, c) \in Nat
         /\ a <= CeilDiv(a, c) * c
         /\ CeilDiv(a, c) * c < a + c
<1> DEFINE x == a + c - 1
           q == x \div c
<1>1. x \in Nat
  OBVIOUS
<1>2. q \in Int /\ x = q * c + (x % c) /\ x % c \in 0..(c - 1)
  BY <1>1
<1>3. CeilDiv(a, c) = q
  BY DEF CeilDiv
<1>4. q \in Nat
  BY <1>1
<1>5. x = a + c - 1
  OBVIOUS
<1> HIDE DEF q, x
<1>6. q * c \in Nat
  BY <1>4
<1> QED
  BY <1>2, <1>3, <1>4, <1>5, <1>6

\* Rounding up keeps the order.
LEMMA CeilDivGrows ==
  ASSUME NEW a \in Nat, NEW b \in Nat, a <= b, NEW c \in Nat \ {0}
  PROVE  CeilDiv(a, c) <= CeilDiv(b, c)
<1>1. PICK p, q : p = CeilDiv(a, c) /\ q = CeilDiv(b, c)
  OBVIOUS
<1>2. p \in Nat /\ q \in Nat /\ p * c < a + c /\ b <= q * c
  BY <1>1, CeilDivBounds
<1>3. SUFFICES ASSUME p >= q + 1 PROVE FALSE
  BY <1>1, <1>2
<1>4. PICK d \in Nat : p = q + 1 + d
  <2>1. p - q - 1 \in Nat /\ p = q + 1 + (p - q - 1)
    BY <1>2, <1>3
  <2> QED
    BY <2>1
<1>5. p * c = q * c + c + d * c
  BY <1>2, <1>4
<1>6. d * c \in Nat /\ q * c \in Nat /\ p * c \in Nat
  BY <1>2, <1>4
<1> QED
  BY <1>2, <1>5, <1>6

-----------------------------------------------------------------------------
(* The largest and the least of a set *)

\* A family of sets that has every set whose smaller subsets it has, one member
\* dropped, has them all.
LEMMA SmallerSets ==
  ASSUME NEW X, IsFiniteSet(X), NEW Good,
         \A S \in SUBSET X : (\A r \in S : S \ {r} \in Good) => S \in Good
  PROVE  \A S \in SUBSET X : S \in Good
<1> SUFFICES ASSUME NEW B \in SUBSET X, B \notin Good PROVE FALSE
  OBVIOUS
<1> DEFINE Sizes == {Cardinality(S) : S \in {S \in SUBSET X : S \notin Good}}
<1>1. \A S \in SUBSET X : IsFiniteSet(S) /\ Cardinality(S) \in Nat
  BY FS_Subset, FS_CardinalityType
<1>2. Sizes \subseteq Nat /\ Sizes # {}
  BY <1>1
<1>3. PICK m \in Sizes : \A i \in Sizes : m <= i
  BY <1>2, LeastNumber
<1>4. PICK S \in SUBSET X : S \notin Good /\ m = Cardinality(S)
  BY <1>3
<1>5. PICK r \in S : S \ {r} \notin Good
  BY <1>4
<1>6. Cardinality(S \ {r}) = m - 1
  BY <1>1, <1>4, <1>5, FS_RemoveElement
<1>7. Cardinality(S \ {r}) \in Sizes
  BY <1>4, <1>5
<1> HIDE DEF Sizes
<1>8. m \in Nat /\ m <= Cardinality(S \ {r})
  BY <1>2, <1>3, <1>7
<1> QED
  BY <1>6, <1>8

\* The greatest of a finite set of integers is one of them and bounds them.
LEMMA MaxOf ==
  ASSUME NEW X \in SUBSET Int, IsFiniteSet(X), X # {}
  PROVE  Max(X) \in X /\ \A y \in X : Max(X) >= y
<1> DEFINE Good == {S \in SUBSET X : S # {} => \E m \in S : \A y \in S : m >= y}
<1>1. ASSUME NEW S \in SUBSET X, \A r \in S : S \ {r} \in Good PROVE S \in Good
  <2> SUFFICES ASSUME S # {} PROVE \E m \in S : \A y \in S : m >= y
    OBVIOUS
  <2>1. PICK r \in S : TRUE
    OBVIOUS
  <2>2. CASE S \ {r} = {}
    BY <2>1, <2>2
  <2>3. CASE S \ {r} # {}
    <3>1. PICK m \in S \ {r} : \A y \in S \ {r} : m >= y
      BY <1>1, <2>1, <2>3
    <3>2. m \in Int /\ r \in Int
      BY <2>1
    <3>3. CASE m >= r
      BY <3>1, <3>2, <3>3
    <3>4. CASE r >= m
      <4>1. \A y \in S : r >= y
        BY <3>1, <3>2, <3>4
      <4> QED
        BY <2>1, <4>1
    <3> QED
      BY <3>2, <3>3, <3>4
  <2> QED
    BY <2>2, <2>3
<1> HIDE DEF Good
<1>2. X \in Good
  BY <1>1, SmallerSets
<1>3. \E m \in X : \A y \in X : m >= y
  BY <1>2 DEF Good
<1> QED
  BY <1>3 DEF Max

\* The least of a set of naturals is one of them and a lower bound.
LEMMA MinOf ==
  ASSUME NEW X \in SUBSET Nat, X # {}
  PROVE  Min(X) \in X /\ \A y \in X : Min(X) <= y
<1>1. \E m \in X : \A y \in X : m =< y
  BY LeastNumber
<1> QED
  BY <1>1 DEF Min

\* The smaller of two numbers, as `min` has it.
LEMMA MinOfTwo ==
  ASSUME NEW a \in Nat, NEW b \in Nat
  PROVE  Min({a, b}) = IF a <= b THEN a ELSE b
<1>1. PICK m : m = Min({a, b})
  OBVIOUS
<1>2. m \in {a, b} /\ m <= a /\ m <= b
  BY <1>1, MinOf
<1> QED
  BY <1>1, <1>2

-----------------------------------------------------------------------------
(* Folds *)

\* One step of a fold over S, where o[x] is what a member x does to the result and
\* pick[S] the member of S that is taken last.
FoldStep(o, base, pick, g, S) ==
  IF S = {} THEN base ELSE o[pick[S]][g[S \ {pick[S]}]]
IsFold(X, o, base, pick, g) == g = [S \in SUBSET X |-> FoldStep(o, base, pick, g, S)]

\* The recursion that a fold unfolds has a solution.
LEMMA FoldExists ==
  ASSUME NEW X, IsFiniteSet(X), NEW o, NEW base, NEW pick,
         \A S \in SUBSET X : S # {} => pick[S] \in S
  PROVE  \E g : IsFold(X, o, base, pick, g)
<1> DEFINE Step(g, S) == FoldStep(o, base, pick, g, S)
           Upto(n, g) == \A S \in SUBSET X : Cardinality(S) <= n => g[S] = Step(g, S)
           Next1(g) == [S \in SUBSET X |-> Step(g, S)]
           Missing == {n \in Nat : ~\E g : Upto(n, g)}
<1>1. \A S \in SUBSET X : IsFiniteSet(S) /\ Cardinality(S) \in Nat
  BY FS_Subset, FS_CardinalityType
<1>2. ASSUME NEW S \in SUBSET X, NEW g, NEW h,
             \A r \in S : g[S \ {r}] = h[S \ {r}]
      PROVE  Step(g, S) = Step(h, S)
  <2>1. CASE S = {}
    BY <2>1 DEF FoldStep
  <2>2. CASE S # {}
    <3>1. pick[S] \in S
      BY <2>2
    <3>2. g[S \ {pick[S]}] = h[S \ {pick[S]}]
      BY <1>2, <3>1
    <3> QED
      BY <2>2, <3>2 DEF FoldStep
  <2> QED
    BY <2>1, <2>2
<1> HIDE DEF Step
<1>3. ASSUME NEW n \in Nat, NEW g, n = 0 \/ Upto(n - 1, g) PROVE Upto(n, Next1(g))
  <2> SUFFICES ASSUME NEW S \in SUBSET X, Cardinality(S) <= n
               PROVE  Next1(g)[S] = Step(Next1(g), S)
    OBVIOUS
  <2>1. Next1(g)[S] = Step(g, S)
    OBVIOUS
  <2>2. ASSUME NEW r \in S PROVE g[S \ {r}] = Next1(g)[S \ {r}]
    <3>1. S \ {r} \in SUBSET X /\ Cardinality(S \ {r}) = Cardinality(S) - 1
          /\ Cardinality(S \ {r}) \in Nat
      BY <1>1, FS_RemoveElement
    <3>2. Cardinality(S \ {r}) <= n - 1 /\ n # 0
      BY <1>1, <3>1
    <3>3. g[S \ {r}] = Step(g, S \ {r})
      BY <1>3, <3>1, <3>2
    <3> QED
      BY <3>1, <3>3
  <2> HIDE DEF Next1
  <2> QED
    BY <1>2, <2>1, <2>2
<1> HIDE DEF Next1, Upto
<1>4. \A g : Upto(0, Next1(g))
  BY <1>3
<1>5. Missing = {}
  <2> SUFFICES ASSUME Missing # {} PROVE FALSE
    OBVIOUS
  <2>1. Missing \subseteq Nat
    OBVIOUS
  <2>2. PICK n \in Missing : \A i \in Missing : n <= i
    BY <2>1, LeastNumber
  <2>3. n \in Nat /\ ~\E g : Upto(n, g)
    BY <2>2
  <2>4. n # 0
    BY <1>4, <2>3
  <2>5. n - 1 \in Nat /\ ~(n <= n - 1)
    BY <2>3, <2>4
  <2>6. n - 1 \notin Missing
    BY <2>2, <2>5
  <2>7. PICK g : Upto(n - 1, g)
    BY <2>5, <2>6
  <2>8. Upto(n, Next1(g))
    BY <1>3, <2>3, <2>7
  <2> QED
    BY <2>3, <2>8
<1>6. PICK n : n = Cardinality(X)
  OBVIOUS
<1>7. n \in Nat /\ \A S \in SUBSET X : Cardinality(S) <= n
  BY <1>6, FS_Subset, FS_CardinalityType
<1>8. PICK g : Upto(n, g)
  BY <1>5, <1>7
<1>9. \A S \in SUBSET X : g[S] = Step(g, S)
  BY <1>7, <1>8 DEF Upto
<1>10. PICK h : h = Next1(g)
  OBVIOUS
<1>11. h = [S \in SUBSET X |-> Step(g, S)]
  BY <1>10 DEF Next1
<1>12. \A S \in SUBSET X : h[S] = g[S]
  BY <1>9, <1>11
<1>13. \A S \in SUBSET X : Step(g, S) = Step(h, S)
  <2> TAKE S \in SUBSET X
  <2>1. \A r \in S : S \ {r} \in SUBSET X
    OBVIOUS
  <2>2. \A r \in S : g[S \ {r}] = h[S \ {r}]
    BY <1>12, <2>1
  <2> QED
    BY <1>2, <2>2
<1>14. h = [S \in SUBSET X |-> Step(h, S)]
  BY <1>11, <1>13
<1> QED
  BY <1>14 DEF Step, IsFold

\* A fold keeps to a set that holds its base and that no member leads out of.
LEMMA FoldTyped ==
  ASSUME NEW X, IsFiniteSet(X), NEW V, NEW o \in [X -> [V -> V]], NEW base \in V, NEW pick,
         \A S \in SUBSET X : S # {} => pick[S] \in S,
         NEW g, IsFold(X, o, base, pick, g)
  PROVE  \A S \in SUBSET X : g[S] \in V
<1> DEFINE Good == {S \in SUBSET X : g[S] \in V}
<1>0. \A S \in SUBSET X : g[S] = FoldStep(o, base, pick, g, S)
  BY DEF IsFold
<1>1. ASSUME NEW S \in SUBSET X, \A r \in S : S \ {r} \in Good PROVE S \in Good
  <2>1. CASE S = {}
    BY <1>0, <2>1 DEF FoldStep
  <2>2. CASE S # {}
    <3>1. PICK x : x = pick[S]
      OBVIOUS
    <3>2. x \in S /\ x \in X
      BY <2>2, <3>1
    <3>3. g[S \ {x}] \in V
      BY <1>1, <3>2
    <3>4. g[S] = o[x][g[S \ {x}]]
      BY <1>0, <2>2, <3>1 DEF FoldStep
    <3> QED
      BY <3>2, <3>3, <3>4
  <2> QED
    BY <2>1, <2>2
<1> HIDE DEF Good
<1>2. \A S \in SUBSET X : S \in Good
  BY <1>1, SmallerSets
<1> QED
  BY <1>2 DEF Good

-----------------------------------------------------------------------------
(* Sums *)

\* g[S] is the sum of f over the members of S, in the order in which MapThenSumSet
\* adds them.
SumStep(f, g, S) ==
  IF S = {} THEN 0 ELSE LET x == CHOOSE x \in S : TRUE IN f[x] + g[S \ {x}]
IsSum(X, f, g) == g = [S \in SUBSET X |-> SumStep(f, g, S)]

\* The recursion has a solution.
LEMMA SumExists ==
  ASSUME NEW X, IsFiniteSet(X), NEW f
  PROVE  \E g : IsSum(X, f, g)
<1> DEFINE Upto(n, g) ==
             \A S \in SUBSET X : Cardinality(S) <= n => g[S] = SumStep(f, g, S)
           Next1(g) == [S \in SUBSET X |-> SumStep(f, g, S)]
           Missing == {n \in Nat : ~\E g : Upto(n, g)}
<1>1. \A S \in SUBSET X : IsFiniteSet(S) /\ Cardinality(S) \in Nat
  BY FS_Subset, FS_CardinalityType
<1>2. ASSUME NEW n \in Nat, NEW g, n = 0 \/ Upto(n - 1, g) PROVE Upto(n, Next1(g))
  <2> SUFFICES ASSUME NEW S \in SUBSET X, Cardinality(S) <= n
               PROVE  Next1(g)[S] = SumStep(f, Next1(g), S)
    OBVIOUS
  <2>1. Next1(g)[S] = SumStep(f, g, S)
    OBVIOUS
  <2>2. CASE S = {}
    BY <2>1, <2>2 DEF SumStep
  <2>3. CASE S # {}
    <3>1. PICK r : r = CHOOSE x \in S : TRUE
      OBVIOUS
    <3>2. r \in S
      BY <2>3, <3>1
    <3>3. S \ {r} \in SUBSET X /\ Cardinality(S \ {r}) = Cardinality(S) - 1
          /\ Cardinality(S \ {r}) \in Nat
      BY <1>1, <3>2, FS_RemoveElement
    <3>4. Cardinality(S \ {r}) <= n - 1 /\ n # 0
      BY <1>1, <3>3
    <3>5. g[S \ {r}] = SumStep(f, g, S \ {r})
      BY <1>2, <3>3, <3>4
    <3>6. Next1(g)[S \ {r}] = g[S \ {r}]
      BY <3>3, <3>5
    <3>7. \A h : SumStep(f, h, S) = f[r] + h[S \ {r}]
      BY <2>3, <3>1 DEF SumStep
    <3> QED
      BY <2>1, <3>6, <3>7
  <2> QED
    BY <2>2, <2>3
<1> HIDE DEF Next1
<1>3. Missing = {}
  <2> SUFFICES ASSUME Missing # {} PROVE FALSE
    OBVIOUS
  <2>1. Missing \subseteq Nat
    OBVIOUS
  <2>2. PICK n \in Missing : \A i \in Missing : n <= i
    BY <2>1, LeastNumber
  <2> HIDE DEF Upto
  <2>3. n \in Nat /\ ~\E g : Upto(n, g)
    BY <2>2
  <2>4. n # 0
    <3>1. n = 0 => Upto(n, Next1(f))
      BY <1>2, <2>3
    <3> QED
      BY <2>3, <3>1
  <2>5. n - 1 \in Nat /\ ~(n <= n - 1)
    BY <2>3, <2>4
  <2>6. n - 1 \notin Missing
    BY <2>2, <2>5
  <2>7. PICK g : Upto(n - 1, g)
    BY <2>5, <2>6
  <2>8. Upto(n, Next1(g))
    BY <1>2, <2>3, <2>7
  <2> QED
    BY <2>3, <2>8
<1>4. PICK n : n = Cardinality(X)
  OBVIOUS
<1>5. n \in Nat /\ \A S \in SUBSET X : Cardinality(S) <= n
  BY <1>4, FS_Subset, FS_CardinalityType
<1>6. PICK g : Upto(n, g)
  BY <1>3, <1>5
<1>7. \A S \in SUBSET X : g[S] = SumStep(f, g, S)
  BY <1>5, <1>6
<1>8. PICK h : h = Next1(g)
  OBVIOUS
<1>9. h = [S \in SUBSET X |-> SumStep(f, g, S)]
  BY <1>8 DEF Next1
<1>10. \A S \in SUBSET X : h[S] = g[S]
  BY <1>7, <1>9
<1>11. \A S \in SUBSET X : SumStep(f, h, S) = SumStep(f, g, S)
  <2> TAKE S \in SUBSET X
  <2>1. CASE S = {}
    BY <2>1 DEF SumStep
  <2>2. CASE S # {}
    <3>1. PICK r : r = CHOOSE x \in S : TRUE
      OBVIOUS
    <3>2. S \ {r} \in SUBSET X
      OBVIOUS
    <3>3. h[S \ {r}] = g[S \ {r}]
      BY <1>10, <3>2
    <3> QED
      BY <2>2, <3>1, <3>3 DEF SumStep
  <2> QED
    BY <2>1, <2>2
<1>12. h = [S \in SUBSET X |-> SumStep(f, h, S)]
  BY <1>9, <1>11
<1> QED
  BY <1>12 DEF IsSum

\* The sum of numbers is a number, and that of larger numbers is larger.
LEMMA SumsOrdered ==
  ASSUME NEW X, IsFiniteSet(X), NEW f \in [X -> Nat], NEW h \in [X -> Nat],
         \A x \in X : f[x] <= h[x],
         NEW g, IsSum(X, f, g), NEW k, IsSum(X, h, k)
  PROVE  g[X] \in Nat /\ k[X] \in Nat /\ g[X] <= k[X]
<1> DEFINE Good == {S \in SUBSET X : g[S] \in Nat /\ k[S] \in Nat /\ g[S] <= k[S]}
<1>1. \A S \in SUBSET X : g[S] = SumStep(f, g, S) /\ k[S] = SumStep(h, k, S)
  BY DEF IsSum
<1>2. ASSUME NEW S \in SUBSET X, \A r \in S : S \ {r} \in Good PROVE S \in Good
  <2>1. CASE S = {}
    <3>1. g[S] = 0 /\ k[S] = 0
      BY <1>1, <2>1 DEF SumStep
    <3> QED
      BY <3>1
  <2>2. CASE S # {}
    <3>1. PICK r : r = CHOOSE x \in S : TRUE
      OBVIOUS
    <3>2. r \in S /\ r \in X
      BY <2>2, <3>1
    <3>3. g[S] = f[r] + g[S \ {r}] /\ k[S] = h[r] + k[S \ {r}]
      BY <1>1, <2>2, <3>1 DEF SumStep
    <3>4. /\ g[S \ {r}] \in Nat /\ k[S \ {r}] \in Nat /\ g[S \ {r}] <= k[S \ {r}]
      BY <1>2, <3>2
    <3>5. f[r] \in Nat /\ h[r] \in Nat /\ f[r] <= h[r]
      BY <3>2
    <3> QED
      BY <3>3, <3>4, <3>5
  <2> QED
    BY <2>1, <2>2
<1> HIDE DEF Good
<1>3. X \in Good
  BY <1>2, SmallerSets
<1> QED
  BY <1>3 DEF Good

\* SumFunction unfolds this recursion.
LEMMA SumUnfolds ==
  ASSUME NEW X, IsFiniteSet(X), NEW f, DOMAIN f = X
  PROVE  \E g : IsSum(X, f, g) /\ SumFunction(f) = g[X]
<1> DEFINE body(g) == [S \in SUBSET X |-> SumStep(f, g, S)]
<1>1. PICK g : g = CHOOSE h : h = body(h)
  OBVIOUS
<1>2. SumFunction(f) = g[X]
  BY <1>1 DEF SumFunction, SumFunctionOnSet, FoldFunctionOnSet, MapThenFoldSet, SumStep
<1>3. PICK k : k = body(k)
  <2>1. PICK k : IsSum(X, f, k)
    BY SumExists
  <2>2. k = body(k)
    BY <2>1 DEF IsSum
  <2> HIDE DEF body
  <2> QED
    BY <2>2
<1> HIDE DEF body
<1>4. g = body(g)
  BY <1>1, <1>3
<1> QED
  BY <1>2, <1>4 DEF body, IsSum

\* A sum grows with its terms.
LEMMA SumsGrow ==
  ASSUME NEW X, IsFiniteSet(X), NEW f \in [X -> Nat], NEW h \in [X -> Nat],
         \A x \in X : f[x] <= h[x]
  PROVE  SumFunction(f) \in Nat /\ SumFunction(h) \in Nat /\ SumFunction(f) <= SumFunction(h)
<1>1. PICK g : IsSum(X, f, g) /\ SumFunction(f) = g[X]
  BY SumUnfolds
<1>2. PICK k : IsSum(X, h, k) /\ SumFunction(h) = k[X]
  BY SumUnfolds
<1> QED
  BY <1>1, <1>2, SumsOrdered

-----------------------------------------------------------------------------
(* What a request needs *)

\* A group lists layers, and has a spec for each of them.
FormedGroup(g) ==
  /\ g.of \in [DOMAIN g.of -> KvSpec]
  /\ IsFiniteSet(DOMAIN g.of) /\ DOMAIN g.of # {}
Formed(groups) == IsFiniteSet(DOMAIN groups) /\ \A i \in DOMAIN groups : FormedGroup(groups[i])

\* A longer request needs no less of any layer.
LEMMA PagesGrow ==
  ASSUME NEW s \in KvSpec, NEW c, CfgTyped(c),
         NEW len \in Nat, NEW longer \in Nat, len <= longer
  PROVE  /\ PagesOf(s, len, c) \in Nat /\ PagesOf(s, longer, c) \in Nat
         /\ PagesOf(s, len, c) <= PagesOf(s, longer, c)
<1>1. /\ s.bs \in Nat \ {0} /\ s.win \in Nat /\ s.extra \in Nat
      /\ s.kind = "sw" => s.win # 0
      /\ c.batched \in Nat /\ c.states \in Nat
  BY DEF KvSpec, CfgTyped
<1>2. CASE s.kind = "mamba"
  BY <1>1, <1>2 DEF PagesOf
<1>3. CASE s.kind = "tail"
  BY <1>1, <1>3 DEF PagesOf
<1>4. CASE s.kind = "sw"
  <2>1. PICK w : w = s.win - 1 + s.extra + c.batched
    OBVIOUS
  <2>2. w \in Nat
    BY <1>1, <1>4, <2>1
  <2>3. PICK a, b : a = Min({w, len}) /\ b = Min({w, longer})
    OBVIOUS
  <2>4. a \in Nat /\ b \in Nat /\ a <= b
    BY <2>2, <2>3, MinOfTwo
  <2>5. /\ PagesOf(s, len, c) = CeilDiv(a, s.bs) + 1
        /\ PagesOf(s, longer, c) = CeilDiv(b, s.bs) + 1
    BY <1>4, <2>1, <2>3 DEF PagesOf
  <2>6. /\ CeilDiv(a, s.bs) \in Nat /\ CeilDiv(b, s.bs) \in Nat
        /\ CeilDiv(a, s.bs) <= CeilDiv(b, s.bs)
    BY <1>1, <2>4, CeilDivBounds, CeilDivGrows
  <2> QED
    BY <2>5, <2>6
<1>5. CASE s.kind \notin {"mamba", "tail", "sw"}
  <2>1. PagesOf(s, len, c) = CeilDiv(len, s.bs) /\ PagesOf(s, longer, c) = CeilDiv(longer, s.bs)
    BY <1>5 DEF PagesOf
  <2> QED
    BY <1>1, <2>1, CeilDivBounds, CeilDivGrows
<1> QED
  BY <1>2, <1>3, <1>4, <1>5

\* The pages a group needs are those of the layer that needs most.
GroupPages(g, len, c) == {PagesOf(s, len, c) : s \in Range(g.of)}
Claims(groups, len, c) == [i \in DOMAIN groups |-> Max(GroupPages(groups[i], len, c))]

\* What a group needs for a request is one of the counts of its specs, and the greatest.
LEMMA GroupPagesTyped ==
  ASSUME NEW g, FormedGroup(g), NEW c, CfgTyped(c), NEW len \in Nat
  PROVE  /\ GroupPages(g, len, c) \in SUBSET Nat
         /\ Max(GroupPages(g, len, c)) \in GroupPages(g, len, c)
         /\ \A n \in GroupPages(g, len, c) : n <= Max(GroupPages(g, len, c))
<1> DEFINE S == GroupPages(g, len, c)
           f == [l \in DOMAIN g.of |-> PagesOf(g.of[l], len, c)]
<1>1. Range(g.of) \in SUBSET KvSpec
  BY DEF FormedGroup, Range
<1>2. S \in SUBSET Nat
  BY <1>1, PagesGrow DEF GroupPages
<1>3. S = {f[l] : l \in DOMAIN g.of}
  BY DEF GroupPages, Range
<1>4. S # {}
  BY <1>3 DEF FormedGroup
<1>5. IsFiniteSet(S)
  <2>1. f \in Surjection(DOMAIN g.of, S)
    BY <1>3 DEF Surjection
  <2> QED
    BY <2>1, FS_Surjection DEF FormedGroup
<1>6. S \in SUBSET Int
  BY <1>2
<1>7. Max(S) \in S /\ \A n \in S : Max(S) >= n
  BY <1>4, <1>5, <1>6, MaxOf
<1> HIDE DEF S
<1>8. \A n \in S : n <= Max(S)
  BY <1>2, <1>7
<1> QED
  BY <1>2, <1>7, <1>8 DEF S

\* No group needs fewer blocks for a longer request.
LEMMA ClaimsGrow ==
  ASSUME NEW groups, Formed(groups), NEW c, CfgTyped(c),
         NEW len \in Nat, NEW longer \in Nat, len <= longer
  PROVE  /\ Claims(groups, len, c) \in [DOMAIN groups -> Nat]
         /\ Claims(groups, longer, c) \in [DOMAIN groups -> Nat]
         /\ \A i \in DOMAIN groups : Claims(groups, len, c)[i] <= Claims(groups, longer, c)[i]
<1> SUFFICES ASSUME NEW i \in DOMAIN groups
             PROVE  /\ Max(GroupPages(groups[i], len, c)) \in Nat
                    /\ Max(GroupPages(groups[i], longer, c)) \in Nat
                    /\ Max(GroupPages(groups[i], len, c)) <= Max(GroupPages(groups[i], longer, c))
  BY DEF Claims
<1>1. PICK g : g = groups[i]
  OBVIOUS
<1>2. FormedGroup(g)
  BY <1>1 DEF Formed
<1>3. PICK m, n : m = Max(GroupPages(g, len, c)) /\ n = Max(GroupPages(g, longer, c))
  OBVIOUS
<1>4. m \in GroupPages(g, len, c) /\ m \in Nat
  BY <1>2, <1>3, GroupPagesTyped
<1>5. n \in Nat /\ \A x \in GroupPages(g, longer, c) : x <= n
  BY <1>2, <1>3, GroupPagesTyped
<1>6. PICK s \in Range(g.of) : m = PagesOf(s, len, c)
  BY <1>4 DEF GroupPages
<1>7. s \in KvSpec
  BY <1>2 DEF FormedGroup, Range
<1>8. PagesOf(s, longer, c) \in Nat /\ m <= PagesOf(s, longer, c)
  BY <1>6, <1>7, PagesGrow
<1>9. PagesOf(s, longer, c) <= n
  BY <1>5, <1>6 DEF GroupPages
<1> QED
  BY <1>1, <1>3, <1>4, <1>5, <1>8, <1>9

\* The blocks of a request are the sum of what its groups claim.
LEMMA BlocksAreClaims ==
  ASSUME NEW groups, NEW c, NEW len
  PROVE  BlocksPerRequest(groups, len, c) = SumFunction(Claims(groups, len, c))
BY DEF BlocksPerRequest, Claims, GroupPages

\* A longer request never takes fewer blocks of a worker.
LEMMA BlocksGrow ==
  ASSUME NEW groups, Formed(groups), NEW c, CfgTyped(c),
         NEW len \in Nat, NEW longer \in Nat, len <= longer
  PROVE  /\ BlocksPerRequest(groups, len, c) \in Nat
         /\ BlocksPerRequest(groups, longer, c) \in Nat
         /\ BlocksPerRequest(groups, len, c) <= BlocksPerRequest(groups, longer, c)
<1>1. IsFiniteSet(DOMAIN groups)
  BY DEF Formed
<1> QED
  BY <1>1, BlocksAreClaims, ClaimsGrow, SumsGrow

-----------------------------------------------------------------------------
(* The binary search *)

\* Where the search stands: its variables, for lengths up to n.
Standing(n) == [left : 1..(n + 1), right : 0..n, result : 0..n]

\* One iteration, where F holds the lengths that fit.
SearchStep(F, g, s) ==
  LET mid == (s.left + s.right) \div 2
  IN  IF s.left > s.right THEN s.result
      ELSE IF mid \in F THEN g[[s EXCEPT !.left = mid + 1, !.result = mid]]
      ELSE g[[s EXCEPT !.right = mid - 1]]
IsSearch(n, F, g) == g = [s \in Standing(n) |-> SearchStep(F, g, s)]

\* Every iteration that does not end the search goes on with a part of the range.
LEMMA SearchShrinks ==
  ASSUME NEW n \in Nat, NEW s \in Standing(n), s.left <= s.right,
         NEW mid, mid = (s.left + s.right) \div 2,
         NEW t, \/ t = [s EXCEPT !.left = mid + 1, !.result = mid]
                \/ t = [s EXCEPT !.right = mid - 1]
  PROVE  /\ mid \in s.left..s.right /\ t \in Standing(n)
         /\ t.right - t.left < s.right - s.left
<1>1. /\ s.left \in 1..(n + 1) /\ s.right \in 0..n /\ s.result \in 0..n
  BY DEF Standing
<1>2. mid \in s.left..s.right
  BY <1>1
<1>3. CASE t = [s EXCEPT !.left = mid + 1, !.result = mid]
  <2>1. t.left = mid + 1 /\ t.right = s.right /\ t \in [left : {mid + 1}, right : {s.right}, result : {mid}]
    BY <1>3 DEF Standing
  <2> QED
    BY <1>1, <1>2, <2>1 DEF Standing
<1>4. CASE t = [s EXCEPT !.right = mid - 1]
  <2>1. t.left = s.left /\ t.right = mid - 1
        /\ t \in [left : {s.left}, right : {mid - 1}, result : {s.result}]
    BY <1>4 DEF Standing
  <2> QED
    BY <1>1, <1>2, <2>1 DEF Standing
<1> QED
  BY <1>3, <1>4, <1>2

\* The recursion has a solution.
LEMMA SearchExists ==
  ASSUME NEW n \in Nat, NEW F
  PROVE  \E g : IsSearch(n, F, g)
<1> DEFINE Size(s) == s.right - s.left + n + 1
           Upto(m, g) ==
             \A s \in Standing(n) : Size(s) < m => g[s] = SearchStep(F, g, s)
           Next1(g) == [s \in Standing(n) |-> SearchStep(F, g, s)]
           Missing == {m \in Nat : ~\E g : Upto(m, g)}
<1>1. ASSUME NEW s \in Standing(n), NEW g, NEW h,
             \A t \in Standing(n) : t.right - t.left < s.right - s.left => g[t] = h[t]
      PROVE  SearchStep(F, g, s) = SearchStep(F, h, s)
  <2>1. s.left \in Int /\ s.right \in Int
    BY DEF Standing
  <2>2. CASE s.left > s.right
    BY <2>2 DEF SearchStep
  <2>3. CASE s.left <= s.right
    <3>1. PICK mid : mid = (s.left + s.right) \div 2
      OBVIOUS
    <3>2. PICK t, u : /\ t = [s EXCEPT !.left = mid + 1, !.result = mid]
                      /\ u = [s EXCEPT !.right = mid - 1]
      OBVIOUS
    <3>3. /\ t \in Standing(n) /\ t.right - t.left < s.right - s.left
          /\ u \in Standing(n) /\ u.right - u.left < s.right - s.left
      BY <2>3, <3>1, <3>2, SearchShrinks
    <3>4. g[t] = h[t] /\ g[u] = h[u]
      BY <1>1, <3>3
    <3>5. \A k : SearchStep(F, k, s) = IF mid \in F THEN k[t] ELSE k[u]
      BY <2>1, <2>3, <3>1, <3>2 DEF SearchStep
    <3> QED
      BY <3>4, <3>5
  <2> QED
    BY <2>1, <2>2, <2>3
<1>2. \A s \in Standing(n) : Size(s) \in 0..(2 * n)
  BY DEF Standing
<1>3. ASSUME NEW m \in Nat \ {0}, NEW g, Upto(m - 1, g) PROVE Upto(m, Next1(g))
  <2> SUFFICES ASSUME NEW s \in Standing(n), Size(s) < m
               PROVE  Next1(g)[s] = SearchStep(F, Next1(g), s)
    OBVIOUS
  <2>1. Next1(g)[s] = SearchStep(F, g, s)
    OBVIOUS
  <2>2. ASSUME NEW t \in Standing(n), t.right - t.left < s.right - s.left
        PROVE  g[t] = Next1(g)[t]
    <3>1. s.left \in Int /\ s.right \in Int /\ t.left \in Int /\ t.right \in Int
      BY DEF Standing
    <3>2. Size(t) < m - 1
      BY <2>2, <3>1
    <3>3. g[t] = SearchStep(F, g, t)
      BY <1>3, <3>2
    <3> QED
      BY <3>3
  <2> HIDE DEF Next1
  <2> QED
    BY <1>1, <2>1, <2>2
<1>4. \A g : Upto(0, g)
  BY <1>2
<1> HIDE DEF Next1, Upto
<1>5. Missing = {}
  <2> SUFFICES ASSUME Missing # {} PROVE FALSE
    OBVIOUS
  <2>1. Missing \subseteq Nat
    OBVIOUS
  <2>2. PICK m \in Missing : \A i \in Missing : m <= i
    BY <2>1, LeastNumber
  <2>3. m \in Nat /\ ~\E g : Upto(m, g)
    BY <2>2
  <2>4. m # 0
    BY <1>4, <2>3
  <2>5. m - 1 \in Nat /\ ~(m <= m - 1)
    BY <2>3, <2>4
  <2>6. m - 1 \notin Missing
    BY <2>2, <2>5
  <2>7. PICK g : Upto(m - 1, g)
    BY <2>5, <2>6
  <2>8. Upto(m, Next1(g))
    BY <1>3, <2>3, <2>4, <2>7
  <2> QED
    BY <2>3, <2>8
<1>6. PICK g : Upto(2 * n + 1, g)
  <2>1. 2 * n + 1 \in Nat
    OBVIOUS
  <2> QED
    BY <1>5, <2>1
<1>7. \A s \in Standing(n) : g[s] = SearchStep(F, g, s)
  <2>1. \A s \in Standing(n) : Size(s) < 2 * n + 1
    BY <1>2
  <2> QED
    BY <1>6, <2>1 DEF Upto
<1>8. PICK h : h = Next1(g)
  OBVIOUS
<1>9. h = [s \in Standing(n) |-> SearchStep(F, g, s)]
  BY <1>8 DEF Next1
<1>10. \A s \in Standing(n) : h[s] = g[s]
  BY <1>7, <1>9
<1>11. \A s \in Standing(n) : SearchStep(F, g, s) = SearchStep(F, h, s)
  BY <1>1, <1>10
<1>12. h = [s \in Standing(n) |-> SearchStep(F, h, s)]
  BY <1>9, <1>11
<1> QED
  BY <1>12 DEF IsSearch

\* r is the largest length of F.
Longest(n, F, r) == r \in 1..n /\ \A l \in 1..n : l \in F <=> l <= r

\* What is left of the search: all shorter lengths fit, no longer one does.
Bracketed(n, F, s) ==
  /\ s.left <= s.right + 1 /\ (s.left = 1 \/ s.result = s.left - 1)
  /\ \A l \in 1..n : (l < s.left => l \in F) /\ (l > s.right => l \notin F)

\* One iteration keeps the length sought within the range.
LEMMA BracketKept ==
  ASSUME NEW n \in Nat \ {0}, NEW F, \A l, m \in 1..n : l <= m /\ m \in F => l \in F,
         NEW s \in Standing(n), Bracketed(n, F, s), s.left <= s.right,
         NEW mid, mid = (s.left + s.right) \div 2,
         NEW t, t = IF mid \in F THEN [s EXCEPT !.left = mid + 1, !.result = mid]
                    ELSE [s EXCEPT !.right = mid - 1]
  PROVE  Bracketed(n, F, t)
<1>1. /\ s.left \in 1..(n + 1) /\ s.right \in 0..n /\ s.result \in 0..n
  BY DEF Standing
<1>2. mid \in s.left..s.right /\ mid \in 1..n
  BY <1>1
<1>3. CASE mid \in F
  <2>1. t.left = mid + 1 /\ t.right = s.right /\ t.result = mid
    BY <1>3 DEF Standing
  <2>2. \A l \in 1..n : l < mid + 1 => l \in F
    BY <1>2, <1>3
  <2> QED
    BY <1>1, <1>2, <2>1, <2>2 DEF Bracketed
<1>4. CASE mid \notin F
  <2>1. t.left = s.left /\ t.right = mid - 1 /\ t.result = s.result
    BY <1>4 DEF Standing
  <2>2. \A l \in 1..n : l > mid - 1 => l \notin F
    <3>1. ASSUME NEW l \in 1..n, l > mid - 1 PROVE l \notin F
      <4>1. mid <= l
        BY <1>2, <3>1
      <4> QED
        BY <1>2, <1>4, <4>1
    <3> QED
      BY <3>1
  <2> QED
    BY <1>1, <1>2, <2>1, <2>2 DEF Bracketed
<1> QED
  BY <1>3, <1>4

\* Where every shorter length fits as well, the search ends at the longest that fits.
LEMMA SearchFinds ==
  ASSUME NEW n \in Nat \ {0}, NEW F, \A l, m \in 1..n : l <= m /\ m \in F => l \in F,
         1 \in F, NEW g, IsSearch(n, F, g)
  PROVE  \A s \in Standing(n) : Bracketed(n, F, s) => Longest(n, F, g[s])
<1> DEFINE Size(s) == s.right - s.left + n + 1
           Wrong == {s \in Standing(n) : Bracketed(n, F, s) /\ ~Longest(n, F, g[s])}
           Sizes == {Size(s) : s \in Wrong}
<1> SUFFICES ASSUME Wrong # {} PROVE FALSE
  OBVIOUS
<1>1. Sizes \in SUBSET Nat /\ Sizes # {}
  BY DEF Standing
<1>2. PICK m \in Sizes : \A i \in Sizes : m <= i
  BY <1>1, LeastNumber
<1>3. PICK s \in Wrong : m = Size(s)
  BY <1>2
<1>4. /\ s \in Standing(n) /\ Bracketed(n, F, s) /\ ~Longest(n, F, g[s])
      /\ s.left \in 1..(n + 1) /\ s.right \in 0..n
      /\ g[s] = SearchStep(F, g, s)
  BY <1>3 DEF Standing, IsSearch
<1>5. CASE s.left > s.right
  <2>1. g[s] = s.result /\ s.left = s.right + 1
    BY <1>4, <1>5 DEF SearchStep, Bracketed
  <2>2. s.left # 1
    <3>1. s.left = 1 => s.right = 0 /\ 1 \in 1..n /\ 1 > s.right
      BY <1>4, <2>1
    <3> QED
      BY <1>4, <3>1 DEF Bracketed
  <2>3. s.result = s.right /\ s.right \in 1..n
    BY <1>4, <2>1, <2>2 DEF Bracketed
  <2>4. \A l \in 1..n : l \in F <=> l <= s.right
    BY <1>4, <2>1 DEF Bracketed
  <2> QED
    BY <1>4, <2>1, <2>3, <2>4 DEF Longest
<1>6. CASE s.left <= s.right
  <2>1. PICK mid : mid = (s.left + s.right) \div 2
    OBVIOUS
  <2>2. PICK t : t = IF mid \in F THEN [s EXCEPT !.left = mid + 1, !.result = mid]
                     ELSE [s EXCEPT !.right = mid - 1]
    OBVIOUS
  <2>3. g[s] = g[t]
    BY <1>4, <1>6, <2>1, <2>2 DEF SearchStep
  <2>4. t \in Standing(n) /\ t.right - t.left < s.right - s.left
    BY <1>4, <1>6, <2>1, <2>2, SearchShrinks
  <2>5. Bracketed(n, F, t)
    BY <1>4, <1>6, <2>1, <2>2, BracketKept
  <2>6. t \in Wrong
    BY <1>4, <2>3, <2>4, <2>5
  <2>7. Size(t) \in Sizes
    BY <2>6
  <2>8. t.left \in Int /\ t.right \in Int
    BY <2>4 DEF Standing
  <2>9. Size(s) <= Size(t)
    BY <1>2, <1>3, <2>7
  <2> QED
    BY <1>4, <2>4, <2>8, <2>9
<1> QED
  BY <1>4, <1>5, <1>6

\* What the search returns, as a set of lengths that fit.
Fitting(groups, c, memory) == {len \in 1..c.len : Fits(groups, len, c, memory)}

\* The estimate, once a length of 1 fits, is the answer of the search between 1 and the
\* configured length.
LEMMA EstimateIsSearch ==
  ASSUME NEW groups, NEW c, CfgTyped(c), NEW memory, Fits(groups, 1, c, memory)
  PROVE  \E g : /\ IsSearch(c.len, Fitting(groups, c, memory), g)
                /\ EstimateLen(groups, c, memory)
                     = g[[left |-> 1, right |-> c.len, result |-> 1]]
<1> DEFINE n == c.len
           F == Fitting(groups, c, memory)
           body(g) == [s \in [left : 1..(c.len + 1), right : 0..c.len, result : 0..c.len] |->
                         LET mid == (s.left + s.right) \div 2
                         IN  IF s.left > s.right THEN s.result
                             ELSE IF Fits(groups, mid, c, memory)
                                  THEN g[[s EXCEPT !.left = mid + 1, !.result = mid]]
                                  ELSE g[[s EXCEPT !.right = mid - 1]]]
<1>0. n \in Nat
  BY DEF CfgTyped
<1>1. ASSUME NEW g PROVE IsSearch(n, F, g) <=> g = body(g)
  <2>1. ASSUME NEW s \in Standing(n)
        PROVE  SearchStep(F, g, s) =
                 LET mid == (s.left + s.right) \div 2
                 IN  IF s.left > s.right THEN s.result
                     ELSE IF Fits(groups, mid, c, memory)
                          THEN g[[s EXCEPT !.left = mid + 1, !.result = mid]]
                          ELSE g[[s EXCEPT !.right = mid - 1]]
    <3>1. PICK mid : mid = (s.left + s.right) \div 2
      OBVIOUS
    <3>2. s.left \in 1..(n + 1) /\ s.right \in 0..n
      BY DEF Standing
    <3>3. CASE s.left > s.right
      BY <3>3 DEF SearchStep
    <3>4. CASE ~(s.left > s.right)
      <4>1. mid \in 1..n
        BY <1>0, <3>1, <3>2, <3>4
      <4>2. mid \in F <=> Fits(groups, mid, c, memory)
        BY <4>1 DEF Fitting
      <4> HIDE DEF F
      <4> QED
        BY <3>1, <3>4, <4>2 DEF SearchStep
    <3> QED
      BY <3>3, <3>4
  <2> QED
    BY <2>1 DEF IsSearch, Standing
<1>2. PICK g : g = CHOOSE h : h = body(h)
  OBVIOUS
<1>3. EstimateLen(groups, c, memory) = g[[left |-> 1, right |-> c.len, result |-> 1]]
  BY <1>2 DEF EstimateLen
<1> HIDE DEF body, F
<1>4. PICK k : IsSearch(n, F, k)
  BY <1>0, SearchExists
<1>5. k = body(k)
  BY <1>1, <1>4
<1>6. g = body(g)
  BY <1>2, <1>5
<1> QED
  BY <1>1, <1>3, <1>6 DEF F

\* For every grouping of the layers, configuration and amount of memory, the context
\* length found by the binary search is the longest that fits, and 0 if none does.
THEOREM EstimateIsLongest ==
  ASSUME NEW groups, Formed(groups), BytesPerBlock(groups) \in Nat,
         NEW c, CfgTyped(c), NEW memory \in Int
  PROVE  /\ EstimateLen(groups, c, memory) \in 0..c.len
         /\ \A len \in 1..c.len :
              Fits(groups, len, c, memory) <=> len <= EstimateLen(groups, c, memory)
<1> DEFINE n == c.len
           F == Fitting(groups, c, memory)
<1>1. n \in Nat \ {0}
  BY DEF CfgTyped
<1>2. ASSUME NEW l \in 1..n, NEW m \in 1..n, l <= m, Fits(groups, m, c, memory)
      PROVE  Fits(groups, l, c, memory)
  <2>1. PICK a, b, p : /\ a = BlocksPerRequest(groups, l, c)
                       /\ b = BlocksPerRequest(groups, m, c)
                       /\ p = BytesPerBlock(groups)
    OBVIOUS
  <2>2. a \in Nat /\ b \in Nat /\ a <= b /\ p \in Nat
    BY <1>1, <1>2, <2>1, BlocksGrow
  <2>3. PICK d \in Nat : b = a + d
    <3>1. b - a \in Nat /\ b = a + (b - a)
      BY <2>2
    <3> QED
      BY <3>1
  <2>4. p * b = p * a + p * d
    BY <2>2, <2>3
  <2>5. p * a \in Nat /\ p * d \in Nat /\ p * b \in Nat
    BY <2>2, <2>3
  <2>6. p * b <= memory
    BY <1>2, <2>1 DEF Fits
  <2>7. p * a <= memory
    BY <2>4, <2>5, <2>6
  <2> QED
    BY <2>1, <2>7 DEF Fits
<1>3. CASE ~Fits(groups, 1, c, memory)
  <2>1. EstimateLen(groups, c, memory) = 0
    BY <1>3 DEF EstimateLen
  <2>2. ASSUME NEW len \in 1..n PROVE ~Fits(groups, len, c, memory)
    BY <1>1, <1>2, <1>3, <2>2
  <2> QED
    BY <1>1, <2>1, <2>2
<1>4. CASE Fits(groups, 1, c, memory)
  <2>1. PICK g : /\ IsSearch(n, F, g)
                 /\ EstimateLen(groups, c, memory) = g[[left |-> 1, right |-> n, result |-> 1]]
    BY <1>4, EstimateIsSearch
  <2>2. 1 \in F /\ \A l, m \in 1..n : l <= m /\ m \in F => l \in F
    BY <1>1, <1>2, <1>4 DEF Fitting
  <2>3. PICK s : s = [left |-> 1, right |-> n, result |-> 1]
    OBVIOUS
  <2>4. s \in Standing(n) /\ s.left = 1 /\ s.right = n
    BY <1>1, <2>3 DEF Standing
  <2>5. Bracketed(n, F, s)
    BY <1>1, <2>4 DEF Bracketed
  <2>6. Longest(n, F, g[s])
    <3> HIDE DEF F, n
    <3> QED
      BY <1>1, <2>1, <2>2, <2>4, <2>5, SearchFinds
  <2> QED
    BY <1>1, <2>1, <2>3, <2>6 DEF Longest, Fitting
<1> QED
  BY <1>3, <1>4

-----------------------------------------------------------------------------
(* Sets in order *)

\* A relation that puts the members of S in one order.
Total(S, before) ==
  /\ \A x \in S : <<x, x>> \notin before
  /\ \A x, y \in S : x # y => <<x, y>> \in before \/ <<y, x>> \in before
  /\ \A x, y, z \in S : <<x, y>> \in before /\ <<y, z>> \in before => <<x, z>> \in before

\* Sorting lists each member once: no two have as many before them, so every number
\* below the size of the set is that of one.
LEMMA SortedLists ==
  ASSUME NEW S, IsFiniteSet(S), NEW before, Total(S, before)
  PROVE  /\ Sorted(S, before) \in Bijection(1..Cardinality(S), S)
         /\ \A i, j \in 1..Cardinality(S) :
              i < j <=> <<Sorted(S, before)[i], Sorted(S, before)[j]>> \in before
<1> DEFINE n == Cardinality(S)
           Below(x) == {y \in S : <<y, x>> \in before}
           T == 0..(n - 1)
           rank == [x \in S |-> Cardinality(Below(x))]
           q == Sorted(S, before)
<1>1. n \in Nat /\ \A x \in S : Below(x) \in SUBSET (S \ {x})
  BY FS_CardinalityType DEF Total
<1>2. \A x \in S : rank[x] \in T
  <2> TAKE x \in S
  <2>1. IsFiniteSet(S \ {x}) /\ Cardinality(S \ {x}) = n - 1
    BY FS_RemoveElement
  <2>2. IsFiniteSet(Below(x)) /\ Cardinality(Below(x)) <= n - 1
    <3>1. PICK B, C : B = Below(x) /\ C = S \ {x}
      OBVIOUS
    <3>2. B \in SUBSET C
      BY <1>1, <3>1
    <3>3. IsFiniteSet(B) /\ Cardinality(B) <= Cardinality(C)
      BY <2>1, <3>1, <3>2, FS_Subset
    <3> QED
      BY <2>1, <3>1, <3>3
  <2>3. Cardinality(Below(x)) \in Nat
    BY <2>2, FS_CardinalityType
  <2> QED
    BY <1>1, <2>2, <2>3
<1>3. ASSUME NEW x \in S, NEW y \in S, <<x, y>> \in before PROVE rank[x] < rank[y]
  <2>1. IsFiniteSet(Below(y)) /\ IsFiniteSet(Below(x))
    BY FS_Subset
  <2>2. Below(x) \in SUBSET Below(y) /\ Below(x) # Below(y)
    <3>1. x \in Below(y) /\ x \notin Below(x)
      BY <1>3 DEF Total
    <3>2. \A z \in S : z \in Below(x) => z \in Below(y)
      BY <1>3 DEF Total
    <3> QED
      BY <3>1, <3>2
  <2>3. Cardinality(Below(x)) <= Cardinality(Below(y)) /\ Cardinality(Below(x)) # Cardinality(Below(y))
    BY <2>1, <2>2, FS_Subset
  <2>4. rank[x] \in Nat /\ rank[y] \in Nat
    BY <1>2
  <2> QED
    BY <2>3, <2>4
<1>4. rank \in Injection(S, T)
  <2>1. ASSUME NEW x \in S, NEW y \in S, rank[x] = rank[y] PROVE x = y
    <3>1. ~(rank[x] < rank[y]) /\ ~(rank[y] < rank[x])
      BY <1>2, <2>1
    <3> QED
      BY <1>3, <3>1 DEF Total
  <2> HIDE DEF T
  <2> QED
    BY <1>2, <2>1 DEF Injection, IsInjective
<1>5. IsFiniteSet(T) /\ Cardinality(T) = n
  BY <1>1, FS_Interval
<1>6. rank \in Surjection(S, T)
  BY <1>4, <1>5, FS_Injection
<1>7. \A i \in 1..n : q[i] \in S /\ rank[q[i]] = i - 1
  <2> TAKE i \in 1..n
  <2>1. i - 1 \in T
    BY <1>1
  <2> HIDE DEF T
  <2>2. \E x \in S : rank[x] = i - 1
    BY <1>6, <2>1 DEF Surjection
  <2>3. q[i] = CHOOSE x \in S : Cardinality(Below(x)) = i - 1
    BY DEF Sorted
  <2> QED
    BY <2>2, <2>3
<1>8. q \in [1..n -> S]
  <2>1. q = [i \in 1..n |-> CHOOSE x \in S : Cardinality(Below(x)) = i - 1]
    BY DEF Sorted
  <2> HIDE DEF q, Below, n
  <2> QED
    BY <1>7, <2>1
<1> HIDE DEF q, rank, T
<1>9. \A i, j \in 1..n : i < j <=> <<q[i], q[j]>> \in before
  <2> TAKE i, j \in 1..n
  <2>1. q[i] \in S /\ q[j] \in S /\ rank[q[i]] = i - 1 /\ rank[q[j]] = j - 1
    BY <1>7
  <2>2. i \in Int /\ j \in Int
    BY <1>1
  <2>3. CASE <<q[i], q[j]>> \in before
    <3>1. i - 1 < j - 1
      BY <1>3, <2>1, <2>3
    <3> QED
      BY <2>2, <2>3, <3>1
  <2>4. CASE <<q[i], q[j]>> \notin before
    <3>1. q[i] = q[j] \/ <<q[j], q[i]>> \in before
      BY <2>1, <2>4 DEF Total
    <3>2. CASE q[i] = q[j]
      BY <2>1, <2>2, <2>4, <3>2
    <3>3. CASE <<q[j], q[i]>> \in before
      <4>1. j - 1 < i - 1
        BY <1>3, <2>1, <3>3
      <4> QED
        BY <2>2, <2>4, <4>1
    <3> QED
      BY <3>1, <3>2, <3>3
  <2> QED
    BY <2>3, <2>4
<1>10. \A i, j \in 1..n : q[i] = q[j] => i = j
  <2> TAKE i, j \in 1..n
  <2> HAVE q[i] = q[j]
  <2>1. i - 1 = j - 1
    BY <1>7
  <2> QED
    BY <1>1, <2>1
<1>11. \A x \in S : \E i \in 1..n : q[i] = x
  <2> TAKE x \in S
  <2>1. PICK i : i = rank[x] + 1
    OBVIOUS
  <2>2. i \in 1..n /\ rank[x] = i - 1
    BY <1>1, <1>2, <2>1 DEF T
  <2>3. q[i] \in S /\ rank[q[i]] = rank[x]
    BY <1>7, <2>2
  <2> QED
    BY <1>4, <2>2, <2>3 DEF Injection, IsInjective
<1> QED
  BY <1>8, <1>9, <1>10, <1>11 DEF q, Bijection, Injection, Surjection, IsInjective

\* Numbers in increasing order.
LEMMA InOrderLists ==
  ASSUME NEW S \in SUBSET Nat, IsFiniteSet(S)
  PROVE  /\ InOrder(S) \in Bijection(1..Cardinality(S), S)
         /\ \A i, j \in 1..Cardinality(S) : i < j <=> InOrder(S)[i] < InOrder(S)[j]
<1>1. PICK before : before = {p \in S \X S : p[1] < p[2]}
  OBVIOUS
<1>2. \A x, y \in S : <<x, y>> \in before <=> x < y
  BY <1>1
<1>3. Total(S, before)
  BY <1>2 DEF Total
<1>4. PICK q : q = Sorted(S, before)
  OBVIOUS
<1>5. /\ q \in Bijection(1..Cardinality(S), S)
      /\ \A i, j \in 1..Cardinality(S) : i < j <=> <<q[i], q[j]>> \in before
  BY <1>3, <1>4, SortedLists
<1>6. \A i \in 1..Cardinality(S) : q[i] \in S
  BY <1>5 DEF Bijection, Injection
<1>7. InOrder(S) = q
  BY <1>1, <1>4 DEF InOrder
<1> QED
  BY <1>2, <1>5, <1>6, <1>7

\* What is used of a list.
LEMMA SeqFacts ==
  ASSUME NEW T, NEW s \in Seq(T)
  PROVE  /\ DOMAIN s = 1..Len(s) /\ Len(s) \in Nat /\ IsFiniteSet(DOMAIN s)
         /\ \A i \in DOMAIN s : s[i] \in T
         /\ \A U : T \subseteq U => s \in Seq(U)
<1>1. DOMAIN s = 1..Len(s) /\ Len(s) \in Nat /\ \A i \in DOMAIN s : s[i] \in T
  OBVIOUS
<1>2. IsFiniteSet(DOMAIN s)
  BY <1>1, FS_Interval
<1>3. ASSUME NEW U, T \subseteq U PROVE s \in Seq(U)
  <2>1. s \in [1..Len(s) -> U]
    BY <1>1, <1>3
  <2> QED
    BY <1>1, <2>1
<1> QED
  BY <1>1, <1>2, <1>3

\* A bijection from 1..n is a sequence without repetition.
LEMMA ListIsSeq ==
  ASSUME NEW S, NEW n \in Nat, NEW q \in Bijection(1..n, S)
  PROVE  /\ q \in Seq(S) /\ Len(q) = n /\ ToSet(q) = S /\ DOMAIN q = 1..n
         /\ \A i, j \in 1..n : q[i] = q[j] => i = j
<1>1. q \in [1..n -> S] /\ (\A x \in S : \E i \in 1..n : q[i] = x) /\ DOMAIN q = 1..n
  BY DEF Bijection, Injection, Surjection
<1>2. q \in Seq(S) /\ Len(q) = n
  BY <1>1
<1>3. ToSet(q) = S
  BY <1>1 DEF ToSet
<1>4. \A i, j \in 1..n : q[i] = q[j] => i = j
  BY <1>1 DEF Bijection, Injection, IsInjective
<1> QED
  BY <1>1, <1>2, <1>3, <1>4

\* The layers of a set in order are its layers, each once.
LEMMA InOrderIsSeq ==
  ASSUME NEW S \in SUBSET Nat, IsFiniteSet(S)
  PROVE  /\ InOrder(S) \in Seq(S) /\ Len(InOrder(S)) = Cardinality(S)
         /\ ToSet(InOrder(S)) = S /\ DOMAIN InOrder(S) = 1..Cardinality(S)
<1>1. Cardinality(S) \in Nat
  BY FS_CardinalityType
<1>2. InOrder(S) \in Bijection(1..Cardinality(S), S)
  BY InOrderLists
<1> QED
  BY <1>1, <1>2, ListIsSeq

\* What is kept of a sequence are its elements in S.
LEMMA KeptIsSeq ==
  ASSUME NEW T, NEW s \in Seq(T), NEW S
  PROVE  /\ Kept(s, S) \in Seq(T \cap S)
         /\ ToSet(Kept(s, S)) = ToSet(s) \cap S
<1> DEFINE I == {i \in DOMAIN s : s[i] \in S}
<1>1. DOMAIN s = 1..Len(s) /\ Len(s) \in Nat /\ \A i \in 1..Len(s) : s[i] \in T
  OBVIOUS
<1>2. I \in SUBSET Nat /\ IsFiniteSet(I)
  <2>1. IsFiniteSet(1..Len(s))
    BY <1>1, FS_Interval
  <2>2. I \in SUBSET (1..Len(s)) /\ 1..Len(s) \in SUBSET Nat
    BY <1>1
  <2> QED
    BY <2>1, <2>2, FS_Subset
<1>3. PICK n, at : n = Cardinality(I) /\ at = InOrder(I)
  OBVIOUS
<1>4. n \in Nat /\ at \in Seq(I) /\ Len(at) = n /\ ToSet(at) = I /\ DOMAIN at = 1..n
  BY <1>2, <1>3, InOrderIsSeq, FS_CardinalityType
<1>5. Kept(s, S) = [k \in 1..n |-> s[at[k]]]
  BY <1>3, <1>4 DEF Kept
<1>6. \A k \in 1..n : at[k] \in I /\ s[at[k]] \in T \cap S
  BY <1>1, <1>4
<1>7. Kept(s, S) \in [1..n -> T \cap S]
  BY <1>5, <1>6
<1>8. ToSet(Kept(s, S)) = {s[at[k]] : k \in 1..n}
  BY <1>5 DEF ToSet
<1>9. \A x \in ToSet(s) \cap S : \E k \in 1..n : s[at[k]] = x
  <2> TAKE x \in ToSet(s) \cap S
  <2>1. PICK i \in DOMAIN s : s[i] = x
    BY DEF ToSet
  <2>2. i \in ToSet(at)
    BY <1>4, <2>1
  <2> QED
    BY <1>4, <2>1, <2>2 DEF ToSet
<1>10. \A k \in 1..n : s[at[k]] \in ToSet(s) \cap S
  BY <1>6 DEF ToSet
<1> QED
  BY <1>4, <1>7, <1>8, <1>9, <1>10

-----------------------------------------------------------------------------
(* Sequences end to end *)

FlatStep(seqs, g, i) == IF i = 1 THEN seqs[i] ELSE g[i - 1] \o seqs[i]

\* The recursion has a solution.
LEMMA FlatExists ==
  ASSUME NEW n \in Nat, NEW seqs
  PROVE  \E g : g = [i \in 1..n |-> FlatStep(seqs, g, i)]
<1> DEFINE Upto(m, g) == \A i \in 1..n : i <= m => g[i] = FlatStep(seqs, g, i)
           Next1(g) == [i \in 1..n |-> FlatStep(seqs, g, i)]
           Missing == {m \in Nat : ~\E g : Upto(m, g)}
<1>1. ASSUME NEW m \in Nat, NEW g, m = 0 \/ Upto(m - 1, g) PROVE Upto(m, Next1(g))
  <2> SUFFICES ASSUME NEW i \in 1..n, i <= m PROVE Next1(g)[i] = FlatStep(seqs, Next1(g), i)
    OBVIOUS
  <2>1. CASE i = 1
    BY <2>1 DEF FlatStep
  <2>2. CASE i # 1
    <3>1. i - 1 \in 1..n /\ i - 1 <= m - 1 /\ m # 0
      BY <2>2
    <3>2. g[i - 1] = FlatStep(seqs, g, i - 1)
      BY <1>1, <3>1
    <3>3. Next1(g)[i - 1] = g[i - 1]
      BY <3>1, <3>2
    <3> QED
      BY <2>2, <3>3 DEF FlatStep
  <2> QED
    BY <2>1, <2>2
<1> HIDE DEF Next1
<1>2. Missing = {}
  <2> SUFFICES ASSUME Missing # {} PROVE FALSE
    OBVIOUS
  <2>1. Missing \subseteq Nat
    OBVIOUS
  <2>2. PICK m \in Missing : \A i \in Missing : m <= i
    BY <2>1, LeastNumber
  <2> HIDE DEF Upto
  <2>3. m \in Nat /\ ~\E g : Upto(m, g)
    BY <2>2
  <2>4. m # 0
    <3>1. m = 0 => Upto(m, Next1(seqs))
      BY <1>1, <2>3
    <3> QED
      BY <2>3, <3>1
  <2>5. m - 1 \in Nat /\ ~(m <= m - 1)
    BY <2>3, <2>4
  <2>6. m - 1 \notin Missing
    BY <2>2, <2>5
  <2>7. PICK g : Upto(m - 1, g)
    BY <2>5, <2>6
  <2>8. Upto(m, Next1(g))
    BY <1>1, <2>3, <2>7
  <2> QED
    BY <2>3, <2>8
<1>3. PICK g : Upto(n, g)
  BY <1>2
<1>4. \A i \in 1..n : g[i] = FlatStep(seqs, g, i)
  BY <1>3
<1>5. PICK h : h = Next1(g)
  OBVIOUS
<1>6. h = [i \in 1..n |-> FlatStep(seqs, g, i)]
  BY <1>5 DEF Next1
<1>7. \A i \in 1..n : h[i] = g[i]
  BY <1>4, <1>6
<1>8. \A i \in 1..n : FlatStep(seqs, h, i) = FlatStep(seqs, g, i)
  <2> TAKE i \in 1..n
  <2>1. CASE i = 1
    BY <2>1 DEF FlatStep
  <2>2. CASE i # 1
    <3>1. i - 1 \in 1..n
      BY <2>2
    <3>2. h[i - 1] = g[i - 1]
      BY <1>7, <3>1
    <3> QED
      BY <2>2, <3>2 DEF FlatStep
  <2> QED
    BY <2>1, <2>2
<1>9. h = [i \in 1..n |-> FlatStep(seqs, h, i)]
  BY <1>6, <1>8
<1> QED
  BY <1>9

\* Flattening is this recursion.
LEMMA FlattenUnfolds ==
  ASSUME NEW T, NEW seqs \in Seq(T), seqs # <<>>
  PROVE  \E g : /\ FlattenSeq(seqs) = g[Len(seqs)]
                /\ \A i \in 1..Len(seqs) :
                      g[i] = IF i = 1 THEN seqs[i] ELSE g[i - 1] \o seqs[i]
<1> DEFINE n == Len(seqs)
           body(g) == [i \in 1..n |-> IF i = 1 THEN seqs[i] ELSE g[i - 1] \o seqs[i]]
<1>1. n \in Nat /\ n # 0
  OBVIOUS
<1>2. PICK g : g = CHOOSE h : h = body(h)
  OBVIOUS
<1>3. FlattenSeq(seqs) = g[n]
  BY <1>1, <1>2 DEF FlattenSeq
<1>4. PICK k : k = body(k)
  <2>1. PICK k : k = [i \in 1..n |-> FlatStep(seqs, k, i)]
    BY <1>1, FlatExists
  <2>2. k = body(k)
    BY <2>1 DEF FlatStep
  <2> HIDE DEF body
  <2> QED
    BY <2>2
<1> HIDE DEF body
<1>5. g = body(g)
  BY <1>2, <1>4
<1>6. \A i \in 1..n : g[i] = IF i = 1 THEN seqs[i] ELSE g[i - 1] \o seqs[i]
  BY <1>5 DEF body
<1> QED
  BY <1>3, <1>6

\* Sequences end to end make one, which is empty only if they all are.
LEMMA FlattenIsSeq ==
  ASSUME NEW T, NEW seqs \in Seq(Seq(T))
  PROVE  /\ FlattenSeq(seqs) \in Seq(T)
         /\ seqs # <<>> /\ seqs[1] # <<>> => FlattenSeq(seqs) # <<>>
<1> DEFINE n == Len(seqs)
           Bad(g) == {i \in 1..n : ~(g[i] \in Seq(T) /\ (seqs[1] # <<>> => g[i] # <<>>))}
<1>1. n \in Nat /\ \A i \in 1..n : seqs[i] \in Seq(T)
  OBVIOUS
<1>2. CASE n = 0
  <2>1. seqs = <<>> /\ FlattenSeq(seqs) = seqs
    BY <1>2 DEF FlattenSeq
  <2>2. <<>> \in Seq(T)
    BY EmptySeq
  <2> QED
    BY <2>1, <2>2
<1>3. CASE n # 0
  <2>1. seqs # <<>>
    BY <1>3
  <2>2. PICK g : /\ FlattenSeq(seqs) = g[n]
                 /\ \A i \in 1..n : g[i] = IF i = 1 THEN seqs[i] ELSE g[i - 1] \o seqs[i]
    BY <2>1, FlattenUnfolds
  <2>6. Bad(g) = {}
    <3> SUFFICES ASSUME Bad(g) # {} PROVE FALSE
      OBVIOUS
    <3>1. Bad(g) \subseteq Nat
      OBVIOUS
    <3>2. PICK i \in Bad(g) : \A j \in Bad(g) : i <= j
      BY <3>1, LeastNumber
    <3>3. CASE i = 1
      <4>1. g[i] = seqs[i] /\ seqs[i] \in Seq(T) /\ i \in 1..n
        BY <1>1, <2>2, <3>2, <3>3
      <4> QED
        BY <3>2, <3>3, <4>1
    <3>4. CASE i # 1
      <4>1. i - 1 \in 1..n /\ ~(i <= i - 1)
        BY <1>1, <3>2, <3>4
      <4>2. g[i - 1] \in Seq(T) /\ (seqs[1] # <<>> => g[i - 1] # <<>>)
        BY <3>2, <4>1
      <4>3. g[i] = g[i - 1] \o seqs[i] /\ seqs[i] \in Seq(T)
        BY <1>1, <2>2, <3>2, <3>4
      <4>4. g[i] \in Seq(T) /\ (seqs[1] # <<>> => g[i] # <<>>)
        BY <4>2, <4>3, ConcatProperties, ConcatEqualIffEmpty
      <4> QED
        BY <3>2, <4>4
    <3> QED
      BY <3>3, <3>4
  <2>7. n \in 1..n
    BY <1>1, <1>3
  <2> QED
    BY <2>2, <2>6, <2>7
<1> QED
  BY <1>2, <1>3

\* A list of the members of S, each once.
EachOnce(s, S) ==
  /\ s \in Seq(S) /\ ToSet(s) = S
  /\ \A i, j \in DOMAIN s : s[i] = s[j] => i = j

\* It is as long as S is large.
LEMMA ListLength ==
  ASSUME NEW S, NEW s, EachOnce(s, S)
  PROVE  IsFiniteSet(S) /\ Cardinality(S) = Len(s) /\ Len(s) \in Nat
<1>1. Len(s) \in Nat /\ DOMAIN s = 1..Len(s) /\ s \in [1..Len(s) -> S]
  BY DEF EachOnce
<1>2. \A x \in S : \E i \in 1..Len(s) : s[i] = x
  BY <1>1 DEF EachOnce, ToSet
<1>3. s \in Bijection(1..Len(s), S)
  BY <1>1, <1>2 DEF EachOnce, Bijection, Injection, Surjection, IsInjective
<1>4. ExistsBijection(1..Len(s), S)
  BY <1>3 DEF ExistsBijection
<1> QED
  BY <1>1, <1>4, FS_Interval, FS_Bijection

\* Numbers in order are listed once.
LEMMA InOrderOnce ==
  ASSUME NEW S \in SUBSET Nat, IsFiniteSet(S)
  PROVE  EachOnce(InOrder(S), S)
<1>1. Cardinality(S) \in Nat /\ InOrder(S) \in Bijection(1..Cardinality(S), S)
  BY InOrderLists, FS_CardinalityType
<1> QED
  BY <1>1, ListIsSeq DEF EachOnce

\* Two lists with no member in common make one.
LEMMA ListsConcat ==
  ASSUME NEW S, NEW T, NEW s, EachOnce(s, S), NEW t, EachOnce(t, T), S \cap T = {}
  PROVE  EachOnce(s \o t, S \cup T)
<1>1. /\ s \in Seq(S) /\ DOMAIN s = 1..Len(s) /\ Len(s) \in Nat
      /\ t \in Seq(T) /\ DOMAIN t = 1..Len(t) /\ Len(t) \in Nat
      /\ \A i \in 1..Len(s) : s[i] \in S
      /\ \A i \in 1..Len(t) : t[i] \in T
  BY DEF EachOnce
<1>2. PICK n, m, q : n = Len(s) /\ m = Len(t) /\ q = s \o t
  OBVIOUS
<1>3. s \in Seq(S \cup T) /\ t \in Seq(S \cup T)
  BY <1>1, SeqFacts
<1>4. q \in Seq(S \cup T) /\ Len(q) = n + m /\ DOMAIN q = 1..(n + m)
  BY <1>2, <1>3, ConcatProperties
<1>5. \A i \in 1..(n + m) : q[i] = IF i <= n THEN s[i] ELSE t[i - n]
  BY <1>2, <1>3, ConcatProperties
<1>6. ASSUME NEW i \in 1..(n + m), NEW j \in 1..(n + m), q[i] = q[j] PROVE i = j
  <2>1. CASE i <= n /\ j <= n
    BY <1>1, <1>2, <1>5, <1>6, <2>1 DEF EachOnce
  <2>2. CASE ~(i <= n) /\ ~(j <= n)
    <3>1. i - n \in 1..m /\ j - n \in 1..m
      BY <1>1, <1>2, <2>2
    <3>2. t[i - n] = t[j - n]
      BY <1>5, <1>6, <2>2
    <3>3. i - n = j - n
      BY <1>1, <1>2, <3>1, <3>2 DEF EachOnce
    <3> QED
      BY <1>1, <1>2, <3>3
  <2>3. CASE (i <= n) /\ ~(j <= n)
    <3>1. i \in 1..n /\ j - n \in 1..m
      BY <1>1, <1>2, <2>3
    <3>2. q[i] \in S /\ q[j] \in T
      BY <1>1, <1>2, <1>5, <2>3, <3>1
    <3> QED
      BY <1>6, <3>2
  <2>4. CASE ~(i <= n) /\ (j <= n)
    <3>1. j \in 1..n /\ i - n \in 1..m
      BY <1>1, <1>2, <2>4
    <3>2. q[j] \in S /\ q[i] \in T
      BY <1>1, <1>2, <1>5, <2>4, <3>1
    <3> QED
      BY <1>6, <3>2
  <2> QED
    BY <2>1, <2>2, <2>3, <2>4
<1>7. \A x \in S \cup T : \E i \in 1..(n + m) : q[i] = x
  <2>1. ASSUME NEW x \in S PROVE \E i \in 1..(n + m) : q[i] = x
    <3>1. PICK i \in 1..n : s[i] = x
      BY <1>1, <1>2 DEF EachOnce, ToSet
    <3>2. i \in 1..(n + m) /\ i <= n
      BY <1>1, <1>2
    <3> QED
      BY <1>5, <3>1, <3>2
  <2>2. ASSUME NEW x \in T PROVE \E i \in 1..(n + m) : q[i] = x
    <3>1. PICK i \in 1..m : t[i] = x
      BY <1>1, <1>2 DEF EachOnce, ToSet
    <3>2. n + i \in 1..(n + m) /\ ~(n + i <= n) /\ (n + i) - n = i
      BY <1>1, <1>2
    <3> QED
      BY <1>5, <3>1, <3>2
  <2> QED
    BY <2>1, <2>2
<1>8. \A i \in 1..(n + m) : q[i] \in S \cup T
  BY <1>4
<1>9. ToSet(q) = S \cup T
  BY <1>4, <1>7, <1>8 DEF ToSet
<1> QED
  BY <1>2, <1>4, <1>6, <1>9 DEF EachOnce

\* Lists end to end list the union of sets that are disjoint.
LEMMA FlattenLists ==
  ASSUME NEW T, NEW seqs \in Seq(T), NEW sets,
         \A i \in 1..Len(seqs) : EachOnce(seqs[i], sets[i]),
         \A i, j \in 1..Len(seqs) : i # j => sets[i] \cap sets[j] = {}
  PROVE  EachOnce(FlattenSeq(seqs), UNION {sets[i] : i \in 1..Len(seqs)})
<1> DEFINE n == Len(seqs)
           Upto(i) == UNION {sets[j] : j \in 1..i}
<1>1. n \in Nat
  OBVIOUS
<1>2. CASE seqs = <<>>
  <2>1. FlattenSeq(seqs) = <<>> /\ n = 0
    BY <1>2 DEF FlattenSeq
  <2>2. Upto(n) = {}
    BY <2>1
  <2>3. EachOnce(<<>>, {})
    BY EmptySeq DEF EachOnce, ToSet
  <2> QED
    BY <2>1, <2>2, <2>3
<1>3. CASE seqs # <<>>
  <2>1. n \in 1..n
    BY <1>3
  <2>2. PICK g : /\ FlattenSeq(seqs) = g[n]
                 /\ \A i \in 1..n : g[i] = IF i = 1 THEN seqs[i] ELSE g[i - 1] \o seqs[i]
    BY <1>3, FlattenUnfolds
  <2> DEFINE Bad == {i \in 1..n : ~EachOnce(g[i], Upto(i))}
  <2>3. Bad = {}
    <3> SUFFICES ASSUME Bad # {} PROVE FALSE
      OBVIOUS
    <3>1. Bad \subseteq Nat
      OBVIOUS
    <3>2. PICK i \in Bad : \A j \in Bad : i <= j
      BY <3>1, LeastNumber
    <3>3. i \in 1..n /\ ~EachOnce(g[i], Upto(i))
      BY <3>2
    <3>4. CASE i = 1
      <4>1. g[i] = seqs[i]
        BY <2>2, <3>3, <3>4
      <4>2. Upto(i) = sets[i]
        <5>1. 1..i = {i}
          BY <3>4
        <5> QED
          BY <5>1
      <4> HIDE DEF Upto
      <4> QED
        BY <3>3, <4>1, <4>2
    <3>5. CASE i # 1
      <4>1. i - 1 \in 1..n /\ ~(i <= i - 1)
        BY <1>1, <3>3, <3>5
      <4>2. EachOnce(g[i - 1], Upto(i - 1))
        BY <3>2, <4>1
      <4>3. g[i] = g[i - 1] \o seqs[i]
        BY <2>2, <3>3, <3>5
      <4>4. 1..i = (1..(i - 1)) \cup {i}
        BY <3>3, <3>5
      <4>5. Upto(i) = Upto(i - 1) \cup sets[i]
        BY <4>4
      <4>6. \A j \in 1..(i - 1) : j \in 1..n /\ j # i
        BY <1>1, <3>3
      <4>7. \A j \in 1..(i - 1) : sets[j] \cap sets[i] = {}
        BY <3>3, <4>6
      <4>8. Upto(i - 1) \cap sets[i] = {}
        BY <4>7
      <4> HIDE DEF Upto
      <4>9. EachOnce(g[i], Upto(i))
        BY <3>3, <4>2, <4>3, <4>5, <4>8, ListsConcat
      <4> QED
        BY <3>3, <4>9
    <3> QED
      BY <3>4, <3>5
  <2>4. EachOnce(g[n], Upto(n))
    BY <2>1, <2>3
  <2> QED
    BY <2>2, <2>4
<1> QED
  BY <1>2, <1>3

-----------------------------------------------------------------------------
(* The least common multiple *)

ProductStep(g, S) == IF S = {} THEN 1 ELSE LET x == CHOOSE x \in S : TRUE IN x * g[S \ {x}]

\* The product of a set of numbers is a multiple of each.
LEMMA ProductIsMultiple ==
  ASSUME NEW X \in SUBSET (Nat \ {0}), IsFiniteSet(X)
  PROVE  ProductSet(X) \in Nat \ {0} /\ \A a \in X : \E k \in Nat : ProductSet(X) = a * k
<1> DEFINE body(g) == [S \in SUBSET X |-> ProductStep(g, S)]
           V == Nat \ {0}
           o == [x \in X |-> [v \in V |-> x * v]]
           pick == [S \in SUBSET X |-> CHOOSE x \in S : TRUE]
<1>1. o \in [X -> [V -> V]] /\ 1 \in V
  BY SMT
<1>2. \A S \in SUBSET X : S # {} => pick[S] \in S
  OBVIOUS
<1>3. PICK k : IsFold(X, o, 1, pick, k)
  <2> HIDE DEF o, pick
  <2> QED
    BY <1>2, FoldExists
<1>4. \A S \in SUBSET X : k[S] \in V
  <2> HIDE DEF o, pick, V
  <2> QED
    BY <1>1, <1>2, <1>3, FoldTyped
<1>5. k = body(k)
  <2>1. ASSUME NEW S \in SUBSET X PROVE FoldStep(o, 1, pick, k, S) = ProductStep(k, S)
    <3>1. CASE S = {}
      BY <3>1 DEF FoldStep, ProductStep
    <3>2. CASE S # {}
      <4>1. PICK r : r = CHOOSE x \in S : TRUE
        OBVIOUS
      <4>2. r \in S /\ r \in X /\ pick[S] = r /\ S \ {r} \in SUBSET X
        BY <3>2, <4>1
      <4>3. k[S \ {r}] \in V
        BY <1>4, <4>2
      <4>4. o[r][k[S \ {r}]] = r * k[S \ {r}]
        BY <4>2, <4>3
      <4>5. FoldStep(o, 1, pick, k, S) = o[r][k[S \ {r}]]
        BY <3>2, <4>2 DEF FoldStep
      <4>6. ProductStep(k, S) = r * k[S \ {r}]
        BY <3>2, <4>1 DEF ProductStep
      <4> QED
        BY <4>4, <4>5, <4>6
    <3> QED
      BY <3>1, <3>2
  <2> HIDE DEF o, pick
  <2> QED
    BY <1>3, <2>1 DEF IsFold
<1>6. PICK g : g = CHOOSE h : h = body(h)
  OBVIOUS
<1>7. ProductSet(X) = g[X]
  BY <1>6 DEF ProductSet, FoldSet, MapThenFoldSet, ProductStep
<1>8. g = body(g)
  <2> HIDE DEF body
  <2> QED
    BY <1>5, <1>6
<1>9. \A S \in SUBSET X : g[S] = ProductStep(g, S)
  BY <1>8
<1> DEFINE Multiple(S) == \A a \in S : \E m \in Nat : g[S] = a * m
           Good == {S \in SUBSET X : g[S] \in V /\ Multiple(S)}
<1>10. ASSUME NEW S \in SUBSET X, \A r \in S : S \ {r} \in Good PROVE S \in Good
  <2>1. CASE S = {}
    <3>1. g[S] = 1
      BY <1>9, <2>1 DEF ProductStep
    <3> QED
      BY <2>1, <3>1
  <2>2. CASE S # {}
    <3>1. PICK r : r = CHOOSE x \in S : TRUE
      OBVIOUS
    <3>2. r \in S /\ r \in Nat \ {0}
      BY <2>2, <3>1
    <3>3. PICK p : p = g[S \ {r}]
      OBVIOUS
    <3>4. g[S] = r * p
      BY <1>9, <2>2, <3>1, <3>3 DEF ProductStep
    <3>5. p \in Nat \ {0} /\ \A a \in S \ {r} : \E m \in Nat : p = a * m
      BY <1>10, <3>2, <3>3
    <3>6. g[S] \in V
      BY <3>2, <3>4, <3>5
    <3>7. ASSUME NEW a \in S PROVE \E m \in Nat : g[S] = a * m
      <4>1. CASE a = r
        BY <3>4, <3>5, <4>1
      <4>2. CASE a # r
        <5>1. PICK m \in Nat : p = a * m
          BY <3>5, <4>2
        <5>2. a \in Nat
          OBVIOUS
        <5>3. r * (a * m) = a * (r * m) /\ r * m \in Nat
          BY <3>2, <5>2
        <5> QED
          BY <3>4, <5>1, <5>3
      <4> QED
        BY <4>1, <4>2
    <3> QED
      BY <3>6, <3>7
  <2> QED
    BY <2>1, <2>2
<1> HIDE DEF Good, body
<1>11. X \in Good
  <2>1. \A S \in SUBSET X : (\A r \in S : S \ {r} \in Good) => S \in Good
    BY <1>10
  <2>2. \A S \in SUBSET X : S \in Good
    BY <2>1, SmallerSets
  <2> QED
    BY <2>2
<1> QED
  BY <1>7, <1>11 DEF Good

\* Every number has its multiples.
LEMMA MultipleRemainder ==
  ASSUME NEW a \in Nat \ {0}
  PROVE  \A k \in Nat : (a * k) % a = 0
OBVIOUS

\* The least common multiple of block sizes is a positive multiple of each.
LEMMA LcmIsMultiple ==
  ASSUME NEW X \in SUBSET (Nat \ {0}), IsFiniteSet(X)
  PROVE  Lcm(X) \in Nat \ {0} /\ \A a \in X : Lcm(X) % a = 0
<1> DEFINE P == ProductSet(X)
           Common == {m \in 1..P : \A a \in X : m % a = 0}
<1>1. P \in Nat \ {0} /\ \A a \in X : P % a = 0
  BY ProductIsMultiple, MultipleRemainder
<1> HIDE DEF P
<1>2. P \in Common
  BY <1>1
<1>3. Common \in SUBSET Nat
  BY <1>1
<1>4. PICK c \in Common : \A m \in Common : c <= m
  BY <1>2, <1>3, LeastNumber
<1>5. \A k \in 1..(c - 1) : \E a \in X : k % a # 0
  <2> TAKE k \in 1..(c - 1)
  <2>1. k \in 1..P /\ ~(c <= k)
    BY <1>1, <1>4
  <2>2. k \notin Common
    BY <1>4, <2>1
  <2> QED
    BY <2>1, <2>2
<1>6. \E m \in 1..P : /\ \A a \in X : m % a = 0
                      /\ \A k \in 1..(m - 1) : \E a \in X : k % a # 0
  BY <1>4, <1>5
<1>7. Lcm(X) \in 1..P /\ \A a \in X : Lcm(X) % a = 0
  BY <1>6 DEF Lcm, P
<1> QED
  BY <1>1, <1>7

-----------------------------------------------------------------------------
(* Specs and groups *)

\* A table of finitely many entries has finitely many values.
LEMMA FiniteRange ==
  ASSUME NEW f, IsFiniteSet(DOMAIN f)
  PROVE  IsFiniteSet(Range(f)) /\ (DOMAIN f # {} => Range(f) # {})
<1>1. PICK S : S = DOMAIN f
  OBVIOUS
<1>2. PICK h : h = [x \in S |-> f[x]]
  OBVIOUS
<1>3. h \in Surjection(S, Range(f))
  BY <1>1, <1>2 DEF Surjection, Range
<1>4. IsFiniteSet(Range(f))
  BY <1>1, <1>3, FS_Surjection
<1> QED
  BY <1>4 DEF Range

\* The layers of a set have finitely many specs.
LEMMA SpecsFinite ==
  ASSUME NEW spec, NEW S, IsFiniteSet(S)
  PROVE  IsFiniteSet(SpecsOf(spec, S)) /\ (S # {} => SpecsOf(spec, S) # {})
<1>1. PICK f : f = [l \in S |-> spec[l]]
  OBVIOUS
<1>2. DOMAIN f = S /\ Range(f) = SpecsOf(spec, S)
  BY <1>1 DEF Range, SpecsOf
<1> QED
  BY <1>2, FiniteRange

\* Every spec has a page of at least one byte.
LEMMA PageTyped ==
  ASSUME NEW s \in KvSpec
  PROVE  Page(s) \in Nat \ {0}
<1>1. s.bs \in Nat \ {0} /\ s.unit \in Nat \ {0} /\ s.pad \in Nat
  BY DEF KvSpec
<1>2. s.bs * s.unit \in Nat \ {0}
  BY <1>1
<1> QED
  BY <1>1, <1>2 DEF Page

\* Specs that need as many pages as each other, whatever the length.
SamePages(S) ==
  \A s, t \in S :
    /\ s.bs = t.bs
    /\ \A c : CfgTyped(c) => \A len \in Nat : PagesOf(s, len, c) = PagesOf(t, len, c)

\* The drafter's look-ahead is that of every window.
SameExtra(S) == \A s, t \in S : s.kind = "sw" /\ t.kind = "sw" => s.extra = t.extra

\* Layers of one type and one size of entry have pages of one size.
LEMMA UniformSamePages ==
  ASSUME NEW S \in SUBSET KvSpec, UniformType(S), SameExtra(S)
  PROVE  SamePages(S)
<1>0. \A s, t \in S : s.bs = t.bs
  BY DEF UniformType
<1> SUFFICES ASSUME NEW s \in S, NEW t \in S, NEW c, CfgTyped(c), NEW len \in Nat
             PROVE  PagesOf(s, len, c) = PagesOf(t, len, c)
  BY <1>0 DEF SamePages
<1>1. s.bs = t.bs
  BY DEF UniformType
<1>2. \/ {s.kind, t.kind} \subseteq {"full", "mla"}
      \/ s.kind = "sw" /\ t.kind = "sw" /\ s.win = t.win
      \/ s.kind = t.kind /\ s.kind \in {"mamba", "tail"}
  BY DEF UniformType, Attention
<1>3. s.kind = "sw" /\ t.kind = "sw" => s.extra = t.extra
  BY DEF SameExtra
<1> QED
  BY <1>1, <1>2, <1>3 DEF PagesOf

\* Specs that merge have one that stands for all: at most one window is given.
LEMMA MergedIsOne ==
  ASSUME NEW S, S # {}, Mergeable(S)
  PROVE  Merged(S) \in S
<1>1. \E s \in S : \A t \in S : t.win # 0 => s.win = t.win
  <2>1. CASE \A t \in S : t.win = 0
    BY <2>1
  <2>2. CASE \E s \in S : s.win # 0
    <3>1. PICK s \in S : s.win # 0
      BY <2>2
    <3>2. ASSUME NEW t \in S, t.win # 0 PROVE s.win = t.win
      BY <3>1, <3>2 DEF Mergeable
    <3> QED
      BY <3>2
  <2> QED
    BY <2>1, <2>2
<1> QED
  BY <1>1 DEF Merged

\* A group as the scheduler and the workers use it: its layers have a spec each, and
\* all of them need as many pages.
Grouped(g) ==
  /\ FormedGroup(g) /\ DOMAIN g.of \in SUBSET Nat
  /\ g.layers \in Seq(DOMAIN g.of) /\ SamePages(Range(g.of))
KvGroup(D) ==
  {g \in [layers : Seq(D), of : UNION {[S -> KvSpec] : S \in SUBSET D}, eagle : BOOLEAN] :
     Grouped(g)}

\* A group of layers of D that merge, or are of one type, with specs among those given.
MergeGroups(D, spec) ==
  {g \in KvGroup(D) : Mergeable(SpecsOf(spec, ToSet(g.layers))) /\ Range(g.of) \subseteq Range(spec)}
TypeGroups(D, spec) ==
  {g \in KvGroup(D) : UniformType(SpecsOf(spec, ToSet(g.layers))) /\ Range(g.of) \subseteq Range(spec)}

\* A list is one of its own elements.
LEMMA SeqOfElements ==
  ASSUME NEW T, NEW s \in Seq(T)
  PROVE  /\ s \in Seq(ToSet(s)) /\ ToSet(s) \in SUBSET T /\ IsFiniteSet(ToSet(s))
         /\ (s # <<>> => ToSet(s) # {})
<1>1. /\ DOMAIN s = 1..Len(s) /\ Len(s) \in Nat /\ \A i \in 1..Len(s) : s[i] \in T
      /\ s \in [1..Len(s) -> T]
  OBVIOUS
<1>2. ToSet(s) = {s[i] : i \in 1..Len(s)}
  BY <1>1 DEF ToSet
<1>3. s \in [1..Len(s) -> ToSet(s)]
  BY <1>1, <1>2
<1>4. s \in Seq(ToSet(s))
  BY <1>1, <1>3
<1>5. IsFiniteSet(ToSet(s))
  <2>1. IsFiniteSet(DOMAIN s) /\ Range(s) = ToSet(s)
    BY <1>1, <1>2, FS_Interval DEF Range
  <2> QED
    BY <2>1, FiniteRange
<1>6. s # <<>> => ToSet(s) # {}
  BY <1>1, <1>2
<1> QED
  BY <1>1, <1>2, <1>4, <1>5, <1>6

\* How a group is shown to be a group of the layers D.
LEMMA InKvGroup ==
  ASSUME NEW D, NEW layers \in Seq(D), NEW of \in UNION {[S -> KvSpec] : S \in SUBSET D},
         NEW g, g = [layers |-> layers, of |-> of, eagle |-> FALSE], Grouped(g)
  PROVE  g \in KvGroup(D)
<1>1. PICK L, O : L = Seq(D) /\ O = UNION {[S -> KvSpec] : S \in SUBSET D}
  OBVIOUS
<1>2. g \in [layers : L, of : O, eagle : BOOLEAN]
  BY <1>1
<1> QED
  BY <1>1, <1>2 DEF KvGroup

\* Layers whose specs merge form a group.
LEMMA MergedGrouped ==
  ASSUME NEW D \in SUBSET Nat, NEW spec \in [D -> KvSpec], NEW layers \in Seq(D), layers # <<>>,
         Mergeable(SpecsOf(spec, ToSet(layers)))
  PROVE  MergedGroup(spec, layers) \in MergeGroups(D, spec)
<1>1. PICK S : S = ToSet(layers)
  OBVIOUS
<1>2. layers \in Seq(S) /\ S \in SUBSET D /\ IsFiniteSet(S) /\ S # {}
  BY <1>1, SeqOfElements
<1>3. PICK m : m = Merged(SpecsOf(spec, S))
  OBVIOUS
<1>4. m \in KvSpec /\ m \in SpecsOf(spec, S)
  <2>1. SpecsOf(spec, S) # {} /\ SpecsOf(spec, S) \subseteq KvSpec
    BY <1>2 DEF SpecsOf
  <2> QED
    BY <1>1, <1>3, <2>1, MergedIsOne
<1>5. PICK of : of = [l \in S |-> m]
  OBVIOUS
<1>6. of \in [S -> KvSpec] /\ DOMAIN of = S /\ Range(of) = {m}
  BY <1>2, <1>4, <1>5 DEF Range
<1>7. PICK g : g = [layers |-> layers, of |-> of, eagle |-> FALSE]
  OBVIOUS
<1>8. g = MergedGroup(spec, layers)
  BY <1>1, <1>3, <1>5, <1>7 DEF MergedGroup, Group
<1>9. g.of = of /\ g.layers = layers
  BY <1>7
<1>10. SamePages({m})
  BY DEF SamePages
<1>11. Grouped(g)
  BY <1>2, <1>6, <1>9, <1>10 DEF Grouped, FormedGroup
<1>12. of \in UNION {[R -> KvSpec] : R \in SUBSET D}
  BY <1>2, <1>6
<1>13. g \in KvGroup(D)
  BY <1>7, <1>9, <1>11, <1>12, InKvGroup
<1>14. Range(g.of) \subseteq Range(spec)
  BY <1>2, <1>4, <1>6, <1>9 DEF SpecsOf, Range
<1> QED
  BY <1>8, <1>9, <1>13, <1>14 DEF MergeGroups

\* Layers of one type form a group.
LEMMA TypeGrouped ==
  ASSUME NEW D \in SUBSET Nat, NEW spec \in [D -> KvSpec], NEW layers \in Seq(D), layers # <<>>,
         UniformType(SpecsOf(spec, ToSet(layers))), SameExtra(Range(spec))
  PROVE  TypeGroup(spec, layers) \in TypeGroups(D, spec)
<1>1. PICK S : S = ToSet(layers)
  OBVIOUS
<1>2. layers \in Seq(S) /\ S \in SUBSET D /\ IsFiniteSet(S) /\ S # {}
  BY <1>1, SeqOfElements
<1>3. PICK of : of = [l \in S |-> spec[l]]
  OBVIOUS
<1>4. of \in [S -> KvSpec] /\ DOMAIN of = S /\ Range(of) = SpecsOf(spec, S)
  BY <1>2, <1>3 DEF Range, SpecsOf
<1>5. Range(of) \in SUBSET KvSpec /\ Range(of) \subseteq Range(spec)
  BY <1>2, <1>3, <1>4 DEF Range
<1>6. SamePages(Range(of))
  <2>1. SameExtra(Range(of))
    BY <1>5 DEF SameExtra
  <2> QED
    BY <1>1, <1>4, <1>5, <2>1, UniformSamePages
<1>7. PICK g : g = [layers |-> layers, of |-> of, eagle |-> FALSE]
  OBVIOUS
<1>8. g = TypeGroup(spec, layers)
  BY <1>1, <1>3, <1>7 DEF TypeGroup, Group, Restrict
<1>9. g.of = of /\ g.layers = layers
  BY <1>7
<1>10. Grouped(g)
  BY <1>2, <1>4, <1>6, <1>9 DEF Grouped, FormedGroup
<1>11. of \in UNION {[R -> KvSpec] : R \in SUBSET D}
  BY <1>2, <1>4
<1>12. g \in KvGroup(D)
  BY <1>7, <1>9, <1>10, <1>11, InKvGroup
<1> QED
  BY <1>5, <1>8, <1>9, <1>12 DEF TypeGroups

\* q has every n-th of the m elements of s from the i-th on.
Spread(q, s, i, n, m) ==
  \E L \in Nat \ {0} : /\ q = [k \in 1..L |-> s[i + (k - 1) * n]]
                      /\ \A k \in 1..L : i + (k - 1) * n \in 1..m

\* So has a stride.
LEMMA StridePlaces ==
  ASSUME NEW s, NEW m \in Nat, m = Len(s), NEW n \in Nat \ {0}, n <= m, NEW i \in 1..n
  PROVE  Spread(Stride(s, i, n), s, i, n, m)
<1>1. PICK a, L : a = m + 1 - i /\ L = CeilDiv(a, n)
  OBVIOUS
<1>2. a \in Nat \ {0} /\ i \in Nat \ {0}
  BY <1>1
<1>3. L \in Nat /\ a <= L * n /\ L * n < a + n
  BY <1>1, <1>2, CeilDivBounds
<1>4. L >= 1
  <2>1. CASE L = 0
    <3>1. L * n = 0
      BY <2>1
    <3> QED
      BY <1>2, <1>3, <3>1
  <2> QED
    BY <1>3, <2>1
<1>5. ASSUME NEW k \in 1..L PROVE i + (k - 1) * n \in 1..m
  <2>1. PICK d \in Nat : L = k + d
    <3>1. L - k \in Nat /\ L = k + (L - k)
      BY <1>3
    <3> QED
      BY <3>1
  <2>2. L * n = (k - 1) * n + d * n + n
    BY <2>1
  <2>3. d * n \in Nat /\ (k - 1) * n \in Nat
    BY <2>1
  <2>4. (k - 1) * n < a
    BY <1>2, <1>3, <2>2, <2>3
  <2> QED
    BY <1>1, <1>2, <2>3, <2>4
<1>6. Stride(s, i, n) = [k \in 1..L |-> s[i + (k - 1) * n]]
  BY <1>1 DEF Stride
<1> QED
  BY <1>3, <1>4, <1>5, <1>6 DEF Spread

\* There is one as long as n does not exceed the length, and all are elements of it.
LEMMA StrideIsSeq ==
  ASSUME NEW T, NEW s \in Seq(T), NEW n \in Nat \ {0}, n <= Len(s), NEW i \in 1..n
  PROVE  Stride(s, i, n) \in Seq(T) /\ Stride(s, i, n) # <<>>
         /\ ToSet(Stride(s, i, n)) \subseteq ToSet(s)
<1>1. PICK L \in Nat \ {0} : /\ Stride(s, i, n) = [k \in 1..L |-> s[i + (k - 1) * n]]
                             /\ \A k \in 1..L : i + (k - 1) * n \in 1..Len(s)
  <2>1. PICK m : m = Len(s)
    OBVIOUS
  <2>2. m \in Nat /\ n <= m
    BY <2>1
  <2>3. Spread(Stride(s, i, n), s, i, n, m)
    BY <2>1, <2>2, StridePlaces
  <2> QED
    BY <2>1, <2>3 DEF Spread
<1>2. PICK q : q = [k \in 1..L |-> s[i + (k - 1) * n]]
  OBVIOUS
<1>3. q = Stride(s, i, n)
  BY <1>1, <1>2
<1>4. \A k \in 1..L : \E j \in 1..Len(s) : q[k] = s[j]
  BY <1>1, <1>2
<1>5. DOMAIN s = 1..Len(s) /\ \A j \in 1..Len(s) : s[j] \in T
  OBVIOUS
<1>6. DOMAIN q = 1..L /\ q \in [1..L -> T]
  BY <1>2, <1>4, <1>5
<1>7. q \in Seq(T) /\ Len(q) = L
  BY <1>6
<1>8. q # <<>>
  BY <1>7
<1>9. ToSet(q) \subseteq ToSet(s)
  BY <1>4, <1>5, <1>6 DEF ToSet
<1> QED
  BY <1>3, <1>7, <1>8, <1>9

\* Every n-th element from each of the first n on: each element is in one of these.
LEMMA StridesList ==
  ASSUME NEW S, NEW s, EachOnce(s, S), NEW n \in Nat \ {0}, n <= Len(s)
  PROVE  /\ \A i \in 1..n : EachOnce(Stride(s, i, n), ToSet(Stride(s, i, n)))
         /\ \A i, j \in 1..n :
               i # j => ToSet(Stride(s, i, n)) \cap ToSet(Stride(s, j, n)) = {}
         /\ UNION {ToSet(Stride(s, i, n)) : i \in 1..n} = S
<1>1. s \in Seq(S) /\ Len(s) \in Nat /\ DOMAIN s = 1..Len(s)
  BY DEF EachOnce
<1> DEFINE L == [i \in 1..n |-> CeilDiv(Len(s) + 1 - i, n)]
           q == [i \in 1..n |-> Stride(s, i, n)]
<1>2. ASSUME NEW i \in 1..n
      PROVE  /\ L[i] \in Nat /\ Len(s) + 1 - i <= L[i] * n
             /\ L[i] * n < Len(s) + 1 - i + n
             /\ q[i] = Stride(s, i, n)
             /\ q[i] \in Seq(S) /\ Len(q[i]) = L[i] /\ DOMAIN q[i] = 1..L[i]
             /\ \A k \in 1..L[i] : q[i][k] = s[i + (k - 1) * n]
  <2>1. PICK a : a = Len(s) + 1 - i
    OBVIOUS
  <2>2. a \in Nat
    BY <1>1, <2>1
  <2>3. CeilDiv(a, n) \in Nat /\ a <= CeilDiv(a, n) * n /\ CeilDiv(a, n) * n < a + n
    BY <2>2, CeilDivBounds
  <2>4. Stride(s, i, n) \in Seq(S)
    BY <1>1, StrideIsSeq
  <2>5. Stride(s, i, n) = [k \in 1..CeilDiv(a, n) |-> s[i + (k - 1) * n]]
    BY <2>1 DEF Stride
  <2>6. L[i] = CeilDiv(a, n) /\ q[i] = Stride(s, i, n)
    BY <2>1
  <2> QED
    BY <2>1, <2>3, <2>4, <2>5, <2>6
<1> HIDE DEF L, q
<1>3. ASSUME NEW i \in 1..n, NEW k \in 1..L[i] PROVE i + (k - 1) * n \in 1..Len(s)
  <2>1. PICK d \in Nat : L[i] = k + d
    <3>1. L[i] \in Nat
      BY <1>2
    <3>2. L[i] - k \in Nat /\ L[i] = k + (L[i] - k)
      BY <1>3, <3>1
    <3> QED
      BY <3>2
  <2>2. L[i] * n = (k - 1) * n + d * n + n
    BY <2>1
  <2>3. d * n \in Nat /\ (k - 1) * n \in Nat
    <3>1. k - 1 \in Nat
      BY <1>2
    <3> QED
      BY <3>1
  <2>4. L[i] * n < Len(s) + 1 - i + n
    BY <1>2
  <2>5. (k - 1) * n < Len(s) + 1 - i
    BY <1>1, <2>2, <2>3, <2>4
  <2> QED
    BY <1>1, <2>3, <2>5
<1>4. ASSUME NEW i \in 1..n, NEW j \in 1..n, NEW k \in Nat \ {0}, NEW m \in Nat \ {0},
             i + (k - 1) * n = j + (m - 1) * n
      PROVE  i = j /\ k = m
  <2>1. CASE k = m
    BY <1>4, <2>1
  <2>2. CASE k < m
    <3>1. PICK d \in Nat : m = k + 1 + d
      <4>1. m - k - 1 \in Nat
        BY <2>2
      <4> QED
        BY <4>1
    <3>2. (m - 1) * n = (k - 1) * n + n + d * n
      BY <3>1
    <3>3. d * n \in Nat /\ (k - 1) * n \in Nat
      OBVIOUS
    <3> QED
      BY <1>4, <3>2, <3>3
  <2>3. CASE m < k
    <3>1. PICK d \in Nat : k = m + 1 + d
      <4>1. k - m - 1 \in Nat
        BY <2>3
      <4> QED
        BY <4>1
    <3>2. (k - 1) * n = (m - 1) * n + n + d * n
      BY <3>1
    <3>3. d * n \in Nat /\ (m - 1) * n \in Nat
      OBVIOUS
    <3> QED
      BY <1>4, <3>2, <3>3
  <2> QED
    BY <2>1, <2>2, <2>3
<1>5. ASSUME NEW i \in 1..n, NEW j \in 1..n, NEW k \in 1..L[i], NEW m \in 1..L[j],
             q[i][k] = q[j][m]
      PROVE  i = j /\ k = m
  <2>1. k \in Nat \ {0} /\ m \in Nat \ {0}
    <3>1. L[i] \in Nat /\ L[j] \in Nat
      BY <1>2
    <3> QED
      BY <3>1
  <2>2. s[i + (k - 1) * n] = s[j + (m - 1) * n]
    BY <1>2, <1>5
  <2>3. i + (k - 1) * n = j + (m - 1) * n
    BY <1>1, <1>3, <2>2 DEF EachOnce
  <2> QED
    BY <1>4, <2>1, <2>3
<1>6. ASSUME NEW i \in 1..n PROVE EachOnce(q[i], ToSet(q[i]))
  <2>1. q[i] \in Seq(ToSet(q[i]))
    BY <1>2, SeqOfElements
  <2>2. \A k, m \in DOMAIN q[i] : q[i][k] = q[i][m] => k = m
    <3>1. DOMAIN q[i] = 1..L[i]
      BY <1>2
    <3> QED
      BY <1>5, <3>1
  <2> QED
    BY <2>1, <2>2 DEF EachOnce
<1>7. ASSUME NEW i \in 1..n, NEW j \in 1..n, i # j PROVE ToSet(q[i]) \cap ToSet(q[j]) = {}
  <2>1. DOMAIN q[i] = 1..L[i] /\ DOMAIN q[j] = 1..L[j]
    BY <1>2
  <2>2. ToSet(q[i]) = {q[i][k] : k \in 1..L[i]} /\ ToSet(q[j]) = {q[j][k] : k \in 1..L[j]}
    BY <2>1 DEF ToSet
  <2> QED
    BY <1>5, <1>7, <2>2
<1>8. ASSUME NEW x \in S PROVE \E i \in 1..n : x \in ToSet(q[i])
  <2>1. PICK p \in 1..Len(s) : s[p] = x
    BY <1>1 DEF EachOnce, ToSet
  <2>2. PICK r, h : r = (p - 1) % n /\ h = (p - 1) \div n
    OBVIOUS
  <2>3. p \in Nat \ {0}
    BY <1>1, <2>1
  <2>4. r \in 0..(n - 1) /\ h \in Nat /\ p - 1 = h * n + r
    BY <2>2, <2>3
  <2>5. PICK i : i = r + 1
    OBVIOUS
  <2>6. i \in 1..n /\ p = i + h * n
    BY <2>3, <2>4, <2>5
  <2>7. h + 1 <= L[i]
    <3>0. L[i] \in Nat /\ Len(s) + 1 - i <= L[i] * n
      BY <1>2, <2>6
    <3>1. CASE L[i] <= h
      <4>1. PICK d \in Nat : h = L[i] + d
        <5>1. h - L[i] \in Nat /\ h = L[i] + (h - L[i])
          BY <2>4, <3>0, <3>1
        <5> QED
          BY <5>1
      <4>2. h * n = L[i] * n + d * n /\ d * n \in Nat /\ L[i] * n \in Nat
        BY <3>0, <4>1
      <4> QED
        BY <1>1, <2>1, <2>6, <3>0, <4>2
    <3> QED
      BY <2>4, <3>0, <3>1
  <2>8. h + 1 \in 1..L[i] /\ (h + 1) - 1 = h
    BY <1>2, <2>4, <2>6, <2>7
  <2>9. q[i][h + 1] = x
    BY <1>2, <2>1, <2>6, <2>8
  <2>10. x \in {q[i][k] : k \in DOMAIN q[i]}
    BY <1>2, <2>6, <2>8, <2>9
  <2> QED
    BY <2>6, <2>10 DEF ToSet
<1>9. \A i \in 1..n : ToSet(q[i]) \subseteq S
  BY <1>2, SeqOfElements
<1>10. \A i \in 1..n : q[i] = Stride(s, i, n)
  BY <1>2
<1>11. UNION {ToSet(q[i]) : i \in 1..n} = S
  BY <1>8, <1>9
<1>12. {ToSet(Stride(s, i, n)) : i \in 1..n} = {ToSet(q[i]) : i \in 1..n}
  BY <1>10
<1> QED
  BY <1>6, <1>7, <1>10, <1>11, <1>12

-----------------------------------------------------------------------------
(* Groups that part the layers *)

\* Groups that list the members of D, each in one group and once.
Parts(groups, D) ==
  /\ \A i \in DOMAIN groups : EachOnce(groups[i].layers, ToSet(groups[i].layers))
  /\ \A i, j \in DOMAIN groups :
        i # j => ToSet(groups[i].layers) \cap ToSet(groups[j].layers) = {}
  /\ UNION {ToSet(groups[i].layers) : i \in DOMAIN groups} = D

\* One group of all.
LEMMA OnePart ==
  ASSUME NEW g, NEW S, EachOnce(g.layers, S)
  PROVE  Parts(<<g>>, S)
<1>1. DOMAIN <<g>> = {1} /\ <<g>>[1] = g
  OBVIOUS
<1>2. ToSet(g.layers) = S
  BY DEF EachOnce
<1>3. UNION {ToSet(<<g>>[i].layers) : i \in DOMAIN <<g>>} = S
  BY <1>1, <1>2
<1> QED
  BY <1>1, <1>2, <1>3 DEF Parts

\* A group that is alone has all.
LEMMA OnlyPart ==
  ASSUME NEW groups, NEW D, Parts(groups, D), DOMAIN groups = {1}
  PROVE  ToSet(groups[1].layers) = D
<1>1. {ToSet(groups[i].layers) : i \in DOMAIN groups} = {ToSet(groups[1].layers)}
  OBVIOUS
<1>2. UNION {ToSet(groups[1].layers)} = D
  BY <1>1 DEF Parts
<1> QED
  BY <1>2

\* The groups of two sets with no member in common are groups of both.
LEMMA PartsConcat ==
  ASSUME NEW T, NEW a \in Seq(T), NEW b \in Seq(T), NEW A, NEW B,
         Parts(a, A), Parts(b, B), A \cap B = {}
  PROVE  Parts(a \o b, A \cup B)
<1>1. PICK n, m, q : n = Len(a) /\ m = Len(b) /\ q = a \o b
  OBVIOUS
<1>2. /\ n \in Nat /\ m \in Nat /\ DOMAIN a = 1..n /\ DOMAIN b = 1..m
      /\ DOMAIN q = 1..(n + m)
      /\ \A i \in 1..(n + m) : q[i] = IF i <= n THEN a[i] ELSE b[i - n]
  BY <1>1, ConcatProperties, SeqFacts
<1>3. PICK S : S = [i \in 1..(n + m) |-> ToSet(q[i].layers)]
  OBVIOUS
<1>4. ASSUME NEW i \in 1..n
      PROVE  /\ i \in 1..(n + m) /\ q[i] = a[i] /\ S[i] = ToSet(a[i].layers)
             /\ S[i] \subseteq A
  <2>1. i \in 1..(n + m) /\ i <= n
    BY <1>2
  <2>2. q[i] = a[i]
    BY <1>2, <2>1
  <2>3. S[i] = ToSet(a[i].layers)
    BY <1>3, <2>1, <2>2
  <2> QED
    BY <1>2, <2>1, <2>2, <2>3 DEF Parts
<1>5. ASSUME NEW i \in 1..m
      PROVE  /\ n + i \in 1..(n + m) /\ q[n + i] = b[i] /\ S[n + i] = ToSet(b[i].layers)
             /\ S[n + i] \subseteq B
  <2>1. n + i \in 1..(n + m) /\ ~(n + i <= n) /\ (n + i) - n = i
    BY <1>2
  <2>2. q[n + i] = b[i]
    BY <1>2, <2>1
  <2>3. S[n + i] = ToSet(b[i].layers)
    BY <1>3, <2>1, <2>2
  <2> QED
    BY <1>2, <2>1, <2>2, <2>3 DEF Parts
<1>6. \A i \in 1..(n + m) : i \in 1..n \/ \E k \in 1..m : i = n + k
  <2> TAKE i \in 1..(n + m)
  <2>1. i <= n => i \in 1..n
    BY <1>2
  <2>2. ~(i <= n) => i - n \in 1..m /\ i = n + (i - n)
    BY <1>2
  <2> QED
    BY <2>1, <2>2
<1>7. \A i \in 1..(n + m) : EachOnce(q[i].layers, ToSet(q[i].layers))
  <2>1. \A i \in 1..n : EachOnce(q[i].layers, ToSet(q[i].layers))
    BY <1>2, <1>4 DEF Parts
  <2>2. \A i \in 1..m : EachOnce(q[n + i].layers, ToSet(q[n + i].layers))
    BY <1>2, <1>5 DEF Parts
  <2> QED
    BY <1>6, <2>1, <2>2
<1>8. ASSUME NEW i \in 1..(n + m), NEW j \in 1..(n + m), i # j PROVE S[i] \cap S[j] = {}
  <2>1. CASE i \in 1..n /\ j \in 1..n
    BY <1>2, <1>4, <1>8, <2>1 DEF Parts
  <2>2. CASE \E k \in 1..m, h \in 1..m : i = n + k /\ j = n + h
    <3>1. PICK k \in 1..m, h \in 1..m : i = n + k /\ j = n + h
      BY <2>2
    <3>2. k # h
      BY <1>8, <3>1
    <3> QED
      BY <1>2, <1>5, <3>1, <3>2 DEF Parts
  <2>3. CASE i \in 1..n /\ \E h \in 1..m : j = n + h
    BY <1>4, <1>5, <2>3
  <2>4. CASE j \in 1..n /\ \E h \in 1..m : i = n + h
    BY <1>4, <1>5, <2>4
  <2> QED
    BY <1>6, <2>1, <2>2, <2>3, <2>4
<1>9. UNION {S[i] : i \in 1..(n + m)} = A \cup B
  <2>1. ASSUME NEW x \in A PROVE \E i \in 1..n : x \in S[i]
    <3>1. PICK i \in 1..n : x \in ToSet(a[i].layers)
      BY <1>2, <2>1 DEF Parts
    <3> QED
      BY <1>4, <3>1
  <2>2. ASSUME NEW x \in B PROVE \E i \in 1..m : x \in S[n + i]
    <3>1. PICK i \in 1..m : x \in ToSet(b[i].layers)
      BY <1>2, <2>2 DEF Parts
    <3> QED
      BY <1>5, <3>1
  <2>3. \A i \in 1..(n + m) : S[i] \subseteq A \cup B
    BY <1>4, <1>5, <1>6
  <2> QED
    BY <1>4, <1>5, <2>1, <2>2, <2>3
<1>10. \A i \in 1..(n + m) : S[i] = ToSet(q[i].layers)
  BY <1>3
<1>11. UNION {ToSet(q[i].layers) : i \in DOMAIN q} = A \cup B
  BY <1>2, <1>9, <1>10
<1>12. Parts(q, A \cup B)
  BY <1>2, <1>7, <1>8, <1>10, <1>11 DEF Parts
<1> QED
  BY <1>1, <1>12

\* Sets with no member in common that make up D.
Parted(v, D) ==
  /\ \A i, j \in DOMAIN v : i # j => v[i] \cap v[j] = {}
  /\ UNION {v[i] : i \in DOMAIN v} = D

\* And so are those of any number of sets that are disjoint.
LEMMA FlattenParts ==
  ASSUME NEW T, NEW seqs \in Seq(Seq(T)), NEW D,
         NEW sets, DOMAIN sets = 1..Len(seqs), Parted(sets, D),
         \A i \in 1..Len(seqs) : Parts(seqs[i], sets[i])
  PROVE  Parts(FlattenSeq(seqs), D)
<1> DEFINE n == Len(seqs)
           Upto(i) == UNION {sets[j] : j \in 1..i}
<1>1. n \in Nat /\ \A i \in 1..n : seqs[i] \in Seq(T)
  OBVIOUS
<1>4. /\ \A i, j \in 1..n : i # j => sets[i] \cap sets[j] = {}
      /\ Upto(n) = D
  BY DEF Parted
<1>2. CASE seqs = <<>>
  <2>1. FlattenSeq(seqs) = <<>> /\ n = 0
    BY <1>2 DEF FlattenSeq
  <2>2. Upto(n) = {}
    BY <2>1
  <2>3. Parts(<<>>, {})
    BY EmptySeq DEF Parts
  <2> QED
    BY <1>4, <2>1, <2>2, <2>3
<1>3. CASE seqs # <<>>
  <2>1. n \in 1..n
    BY <1>3
  <2>2. PICK g : /\ FlattenSeq(seqs) = g[n]
                 /\ \A i \in 1..n : g[i] = IF i = 1 THEN seqs[i] ELSE g[i - 1] \o seqs[i]
    BY <1>3, FlattenUnfolds
  <2> DEFINE Fine(i) == g[i] \in Seq(T) /\ Parts(g[i], Upto(i))
             Bad == {i \in 1..n : ~Fine(i)}
  <2>3. Bad = {}
    <3> SUFFICES ASSUME Bad # {} PROVE FALSE
      OBVIOUS
    <3>1. Bad \subseteq Nat
      OBVIOUS
    <3>2. PICK i \in Bad : \A j \in Bad : i <= j
      BY <3>1, LeastNumber
    <3>3. i \in 1..n /\ ~(g[i] \in Seq(T) /\ Parts(g[i], Upto(i)))
      BY <3>2
    <3>4. CASE i = 1
      <4>1. g[i] = seqs[i] /\ seqs[i] \in Seq(T)
        BY <1>1, <2>2, <3>3, <3>4
      <4>2. Upto(i) = sets[i]
        <5>1. 1..i = {i}
          BY <3>4
        <5> QED
          BY <5>1
      <4> HIDE DEF Upto
      <4> QED
        BY <3>3, <4>1, <4>2
    <3>5. CASE i # 1
      <4>1. i - 1 \in 1..n /\ ~(i <= i - 1)
        BY <1>1, <3>3, <3>5
      <4>2. g[i - 1] \in Seq(T) /\ Parts(g[i - 1], Upto(i - 1))
        <5>1. i - 1 \notin Bad
          BY <3>2, <4>1
        <5>2. Fine(i - 1)
          <6> HIDE DEF Fine
          <6> QED
            BY <4>1, <5>1
        <5> QED
          BY <5>2
      <4>3. g[i] = g[i - 1] \o seqs[i] /\ seqs[i] \in Seq(T)
        BY <1>1, <2>2, <3>3, <3>5
      <4>4. 1..i = (1..(i - 1)) \cup {i}
        BY <3>3, <3>5
      <4>5. Upto(i) = Upto(i - 1) \cup sets[i]
        BY <4>4
      <4>6. \A j \in 1..(i - 1) : j \in 1..n /\ j # i
        BY <1>1, <3>3
      <4>7. \A j \in 1..(i - 1) : sets[j] \cap sets[i] = {}
        BY <1>4, <3>3, <4>6
      <4>8. Upto(i - 1) \cap sets[i] = {}
        BY <4>7
      <4> HIDE DEF Upto
      <4>9. g[i] \in Seq(T)
        BY <4>2, <4>3, ConcatProperties
      <4>10. Parts(g[i], Upto(i))
        <5>1. PICK A, a, b : A = Upto(i - 1) /\ a = g[i - 1] /\ b = seqs[i]
          OBVIOUS
        <5>2. Parts(b, sets[i]) /\ Parts(a, A) /\ A \cap sets[i] = {}
          BY <3>3, <4>2, <4>8, <5>1
        <5>3. Parts(a \o b, A \cup sets[i])
          BY <4>2, <4>3, <5>1, <5>2, PartsConcat
        <5> QED
          BY <4>3, <4>5, <5>1, <5>3
      <4> QED
        BY <3>3, <4>9, <4>10 DEF Fine
    <3> QED
      BY <3>4, <3>5
  <2>4. Parts(g[n], Upto(n))
    BY <2>1, <2>3
  <2> QED
    BY <1>4, <2>2, <2>4
<1> QED
  BY <1>2, <1>3

\* Every n-th element from each of the first n on, a group each.
LEMMA StridesPart ==
  ASSUME NEW S, NEW s, EachOnce(s, S), NEW n \in Nat \ {0}, n <= Len(s),
         NEW groups, DOMAIN groups = 1..n, \A i \in 1..n : groups[i].layers = Stride(s, i, n)
  PROVE  Parts(groups, S)
<1>1. /\ \A i \in 1..n : EachOnce(Stride(s, i, n), ToSet(Stride(s, i, n)))
      /\ \A i, j \in 1..n : i # j => ToSet(Stride(s, i, n)) \cap ToSet(Stride(s, j, n)) = {}
      /\ UNION {ToSet(Stride(s, i, n)) : i \in 1..n} = S
  BY StridesList
<1>2. {ToSet(groups[i].layers) : i \in 1..n} = {ToSet(Stride(s, i, n)) : i \in 1..n}
  OBVIOUS
<1> QED
  BY <1>1, <1>2 DEF Parts

\* Such groups are a partition as the code checks it, by adding up their lengths.
LEMMA PartsPartition ==
  ASSUME NEW T, NEW groups \in Seq(T), NEW spec, IsFiniteSet(DOMAIN spec),
         Parts(groups, DOMAIN spec)
  PROVE  Partitions(groups, spec)
<1>1. PICK X, D : X = DOMAIN groups /\ D = DOMAIN spec
  OBVIOUS
<1>2. IsFiniteSet(X) /\ IsFiniteSet(D)
  BY <1>1, SeqFacts
<1>3. PICK S, f : /\ S = [i \in X |-> ToSet(groups[i].layers)]
                  /\ f = [i \in X |-> Len(groups[i].layers)]
  OBVIOUS
<1>4. ASSUME NEW i \in X
      PROVE  /\ S[i] \subseteq D /\ IsFiniteSet(S[i]) /\ f[i] = Cardinality(S[i])
             /\ f[i] \in Nat
  <2>1. EachOnce(groups[i].layers, ToSet(groups[i].layers)) /\ ToSet(groups[i].layers) \subseteq D
    BY <1>1 DEF Parts
  <2> QED
    BY <1>3, <2>1, ListLength
<1>5. \A i, j \in X : i # j => S[i] \cap S[j] = {}
  BY <1>1, <1>3 DEF Parts
<1>6. UNION {S[i] : i \in X} = D
  BY <1>1, <1>3 DEF Parts
<1>7. PICK g : IsSum(X, f, g) /\ SumFunction(f) = g[X]
  BY <1>2, <1>3, SumUnfolds
<1>8. \A A \in SUBSET X : g[A] = SumStep(f, g, A)
  BY <1>7 DEF IsSum
<1> DEFINE All(A) == UNION {S[i] : i \in A}
           Good == {A \in SUBSET X : g[A] = Cardinality(All(A))}
<1>9. ASSUME NEW A \in SUBSET X, \A r \in A : A \ {r} \in Good PROVE A \in Good
  <2>1. CASE A = {}
    <3>1. g[A] = 0 /\ All(A) = {}
      BY <1>8, <2>1 DEF SumStep
    <3> QED
      BY <3>1, FS_EmptySet
  <2>2. CASE A # {}
    <3>1. PICK r : r = CHOOSE x \in A : TRUE
      OBVIOUS
    <3>2. r \in A /\ r \in X
      BY <2>2, <3>1
    <3>3. g[A] = f[r] + g[A \ {r}]
      BY <1>8, <2>2, <3>1 DEF SumStep
    <3>4. g[A \ {r}] = Cardinality(All(A \ {r}))
      BY <1>9, <3>2
    <3>5. All(A) = S[r] \cup All(A \ {r})
      BY <3>2
    <3>6. S[r] \cap All(A \ {r}) = {}
      BY <1>5, <3>2
    <3>7. All(A \ {r}) \subseteq D
      BY <1>4
    <3> HIDE DEF All
    <3>8. IsFiniteSet(All(A \ {r}))
      <4>1. PICK R : R = All(A \ {r})
        OBVIOUS
      <4> QED
        BY <1>2, <3>7, <4>1, FS_Subset
    <3>9. Cardinality(All(A)) = Cardinality(S[r]) + Cardinality(All(A \ {r})) - Cardinality({})
      <4>1. PICK R, Q : R = All(A \ {r}) /\ Q = S[r]
        OBVIOUS
      <4>2. IsFiniteSet(R) /\ IsFiniteSet(Q) /\ Q \cap R = {}
        BY <1>4, <3>2, <3>6, <3>8, <4>1
      <4>3. Cardinality(Q \cup R) = Cardinality(Q) + Cardinality(R) - Cardinality(Q \cap R)
        BY <4>2, FS_Union
      <4> QED
        BY <3>5, <4>1, <4>2, <4>3
    <3>10. Cardinality(All(A \ {r})) \in Nat
      BY <3>8, FS_CardinalityType
    <3>11. Cardinality(All(A)) = f[r] + g[A \ {r}]
      BY <1>4, <3>2, <3>4, <3>9, <3>10, FS_EmptySet
    <3> QED
      BY <3>3, <3>11
  <2> QED
    BY <2>1, <2>2
<1> HIDE DEF Good
<1>10. \A A \in SUBSET X : (\A r \in A : A \ {r} \in Good) => A \in Good
  BY <1>9
<1>11. X \in Good
  BY <1>2, <1>10, SmallerSets
<1>12. SumFunction(f) = Cardinality(D)
  BY <1>6, <1>7, <1>11 DEF Good
<1>13. \A l \in D : \E g1 \in Range(groups) : l \in ToSet(g1.layers)
  <2> TAKE l \in D
  <2>1. PICK i \in X : l \in S[i]
    BY <1>6
  <2>2. groups[i] \in Range(groups)
    BY <1>1 DEF Range
  <2> QED
    BY <1>3, <2>1, <2>2
<1> QED
  BY <1>1, <1>3, <1>12, <1>13 DEF Partitions
-----------------------------------------------------------------------------
(* Buckets *)

\* A bucket holds layers whose specs merge, or are of one type.
Bucket(spec, merged) ==
  {b \in SUBSET DOMAIN spec : b # {} /\ Alike(SpecsOf(spec, b), merged)}

Put(spec, merged, v, l) ==
  LET ok == {i \in DOMAIN v : Alike(SpecsOf(spec, v[i] \cup {l}), merged)}
  IN  IF ok = {} THEN Append(v, {l}) ELSE [v EXCEPT ![Min(ok)] = @ \cup {l}]

\* A layer joins a bucket it is alike to, or starts one: buckets stay buckets.
LEMMA PutTyped ==
  ASSUME NEW D, NEW spec \in [D -> KvSpec], NEW merged \in BOOLEAN,
         NEW v \in Seq(Bucket(spec, merged)), NEW l \in D
  PROVE  Put(spec, merged, v, l) \in Seq(Bucket(spec, merged))
<1> DEFINE ok == {i \in DOMAIN v : Alike(SpecsOf(spec, v[i] \cup {l}), merged)}
<1>1. DOMAIN v = 1..Len(v) /\ \A i \in DOMAIN v : v[i] \in Bucket(spec, merged)
  OBVIOUS
<1>2. DOMAIN spec = D
  OBVIOUS
<1>3. CASE ok = {}
  <2>1. SpecsOf(spec, {l}) = {spec[l]}
    BY DEF SpecsOf
  <2>2. spec[l].kind \in {"full", "mla", "sw", "mamba", "tail"}
    BY DEF KvSpec
  <2>3. Mergeable({spec[l]}) /\ UniformType({spec[l]})
    BY <2>2 DEF Mergeable, UniformType, Attention
  <2>4. {l} \in Bucket(spec, merged)
    BY <1>2, <2>1, <2>3 DEF Bucket, Alike
  <2>5. Put(spec, merged, v, l) = Append(v, {l})
    BY <1>3 DEF Put
  <2> HIDE DEF ok
  <2> QED
    BY <2>4, <2>5
<1>4. CASE ok # {}
  <2>1. PICK m : m = Min(ok)
    OBVIOUS
  <2>2. m \in ok
    <3>1. ok \in SUBSET Nat
      BY <1>1
    <3> HIDE DEF ok
    <3> QED
      BY <1>4, <2>1, <3>1, MinOf
  <2>3. PICK b : b = v[m] \cup {l}
    OBVIOUS
  <2>4. b \in Bucket(spec, merged)
    <3>1. v[m] \in SUBSET DOMAIN spec
      BY <1>1, <2>2 DEF Bucket
    <3> QED
      BY <1>2, <2>2, <2>3, <3>1 DEF Bucket
  <2>5. Put(spec, merged, v, l) = [v EXCEPT ![m] = b]
    BY <1>4, <2>1, <2>3 DEF Put
  <2>6. m \in 1..Len(v)
    BY <1>1, <2>2
  <2> HIDE DEF ok
  <2> QED
    BY <2>4, <2>5, <2>6
<1> QED
  BY <1>3, <1>4

\* A layer joins one bucket.
LEMMA PutParted ==
  ASSUME NEW D, NEW spec \in [D -> KvSpec], NEW merged \in BOOLEAN,
         NEW v \in Seq(Bucket(spec, merged)), NEW l \in D,
         NEW E, Parted(v, E), l \notin E
  PROVE  Parted(Put(spec, merged, v, l), E \cup {l})
<1> DEFINE ok == {i \in DOMAIN v : Alike(SpecsOf(spec, v[i] \cup {l}), merged)}
<1>1. DOMAIN v = 1..Len(v) /\ Len(v) \in Nat
  BY SeqFacts
<1>2. \A i \in DOMAIN v : l \notin v[i]
  BY DEF Parted
<1>3. CASE ok = {}
  <2>1. PICK q : q = Append(v, {l})
    OBVIOUS
  <2>2. Put(spec, merged, v, l) = q
    BY <1>3, <2>1 DEF Put
  <2> HIDE DEF ok
  <2>3. /\ DOMAIN q = 1..(Len(v) + 1) /\ q[Len(v) + 1] = {l}
        /\ \A i \in 1..Len(v) : q[i] = v[i]
    BY <1>1, <2>1, AppendProperties
  <2>4. DOMAIN q = DOMAIN v \cup {Len(v) + 1}
    BY <1>1, <2>3
  <2>5. \A i \in DOMAIN v : q[i] = v[i]
    BY <1>1, <2>3
  <2>6. UNION {q[i] : i \in DOMAIN q} = E \cup {l}
    BY <2>3, <2>4, <2>5 DEF Parted
  <2>7. \A i, j \in DOMAIN q : i # j => q[i] \cap q[j] = {}
    BY <1>2, <2>3, <2>4, <2>5 DEF Parted
  <2> QED
    BY <2>2, <2>6, <2>7 DEF Parted
<1>4. CASE ok # {}
  <2>1. PICK m : m = Min(ok)
    OBVIOUS
  <2>2. m \in ok
    <3>1. ok \in SUBSET Nat
      BY <1>1
    <3> HIDE DEF ok
    <3> QED
      BY <1>4, <2>1, <3>1, MinOf
  <2>3. PICK b, q : b = v[m] \cup {l} /\ q = [v EXCEPT ![m] = b]
    OBVIOUS
  <2>4. Put(spec, merged, v, l) = q
    BY <1>4, <2>1, <2>3 DEF Put
  <2>5. m \in DOMAIN v
    BY <2>2
  <2> HIDE DEF ok
  <2>6. v \in [DOMAIN v -> Bucket(spec, merged)]
    BY <1>1
  <2>7. DOMAIN q = DOMAIN v /\ q[m] = b /\ \A i \in DOMAIN v : i # m => q[i] = v[i]
    BY <2>3, <2>5, <2>6
  <2>8. UNION {q[i] : i \in DOMAIN q} = E \cup {l}
    <3>1. \A i \in DOMAIN v : v[i] \subseteq q[i] /\ q[i] \subseteq v[i] \cup {l}
      BY <2>3, <2>7
    <3>2. l \in q[m]
      BY <2>3, <2>7
    <3> QED
      BY <2>5, <2>7, <3>1, <3>2 DEF Parted
  <2>9. \A i, j \in DOMAIN q : i # j => q[i] \cap q[j] = {}
    BY <1>2, <2>3, <2>7 DEF Parted
  <2> QED
    BY <2>4, <2>8, <2>9 DEF Parted
<1> QED
  BY <1>3, <1>4

\* So the layers are parted into buckets of layers that are alike.
LEMMA BucketsTyped ==
  ASSUME NEW D \in SUBSET Nat, IsFiniteSet(D), NEW spec \in [D -> KvSpec],
         NEW merged \in BOOLEAN
  PROVE  /\ Buckets(spec, merged) \in Seq(Bucket(spec, merged))
         /\ Parted(Buckets(spec, merged), D)
<1>1. PICK s : s = InOrder(D)
  OBVIOUS
<1>2. s \in Seq(D) /\ DOMAIN s = 1..Len(s) /\ DOMAIN spec = D
  BY <1>1, InOrderIsSeq
<1>20. /\ ToSet(s) = D
       /\ \A i, j \in DOMAIN s : s[i] = s[j] => i = j
  <2>1. Cardinality(D) \in Nat /\ InOrder(D) \in Bijection(1..Cardinality(D), D)
    BY InOrderLists, FS_CardinalityType
  <2> QED
    BY <1>1, <2>1, ListIsSeq
<1>3. PICK X : X = DOMAIN s
  OBVIOUS
<1>4. IsFiniteSet(X) /\ X \in SUBSET Nat /\ \A i \in X : s[i] \in D
  BY <1>2, <1>3, FS_Interval
<1>5. PICK V : V = Seq(Bucket(spec, merged))
  OBVIOUS
<1>6. <<>> \in V /\ \A v \in V, l \in D : Put(spec, merged, v, l) \in V
  BY <1>5, PutTyped
<1> DEFINE Step(g, S) == IF S = {} THEN <<>>
                         ELSE LET x == Max(S) IN Put(spec, merged, g[S \ {x}], s[x])
           body(g) == [S \in SUBSET X |-> Step(g, S)]
           o == [x \in X |-> [v \in V |-> Put(spec, merged, v, s[x])]]
           pick == [S \in SUBSET X |-> Max(S)]
<1>7. \A S \in SUBSET X : S # {} => Max(S) \in S
  <2> TAKE S \in SUBSET X
  <2>1. IsFiniteSet(S)
    BY <1>4, FS_Subset
  <2>2. S \in SUBSET Int
    BY <1>4
  <2> QED
    BY <2>1, <2>2, MaxOf
<1>8. \A S \in SUBSET X : S # {} => pick[S] \in S
  BY <1>7
<1>9. o \in [X -> [V -> V]]
  BY <1>4, <1>6
<1>10. PICK k : IsFold(X, o, <<>>, pick, k)
  <2> HIDE DEF o, pick
  <2> QED
    BY <1>4, <1>8, FoldExists
<1>11. \A S \in SUBSET X : k[S] \in V
  <2> HIDE DEF o, pick
  <2> QED
    BY <1>4, <1>6, <1>8, <1>9, <1>10, FoldTyped
<1>12. k = body(k)
  <2>1. ASSUME NEW S \in SUBSET X PROVE FoldStep(o, <<>>, pick, k, S) = Step(k, S)
    <3>1. CASE S = {}
      BY <3>1 DEF FoldStep
    <3>2. CASE S # {}
      <4>1. PICK x : x = Max(S)
        OBVIOUS
      <4>2. x \in S /\ x \in X /\ pick[S] = x /\ S \ {x} \in SUBSET X
        BY <1>7, <3>2, <4>1
      <4>3. k[S \ {x}] \in V
        BY <1>11, <4>2
      <4>4. o[x][k[S \ {x}]] = Put(spec, merged, k[S \ {x}], s[x])
        BY <4>2, <4>3
      <4>5. FoldStep(o, <<>>, pick, k, S) = o[x][k[S \ {x}]]
        BY <3>2, <4>2 DEF FoldStep
      <4>6. Step(k, S) = Put(spec, merged, k[S \ {x}], s[x])
        BY <3>2, <4>1
      <4> QED
        BY <4>4, <4>5, <4>6
    <3> QED
      BY <3>1, <3>2
  <2> HIDE DEF o, pick, Step
  <2> QED
    BY <1>10, <2>1 DEF IsFold
<1>13. PICK g : g = CHOOSE h : h = body(h)
  OBVIOUS
<1>14. Buckets(spec, merged) = g[X]
  BY <1>1, <1>2, <1>3, <1>13 DEF Buckets, FoldLeft, MapThenFoldSet, Put
<1>15. g = body(g)
  <2> HIDE DEF body
  <2> QED
    BY <1>12, <1>13
<1>16. \A S \in SUBSET X : g[S] = Step(g, S)
  BY <1>15
<1> DEFINE Of(S) == {s[x] : x \in S}
           Good == {S \in SUBSET X : g[S] \in V /\ Parted(g[S], Of(S))}
<1>17. ASSUME NEW S \in SUBSET X, \A r \in S : S \ {r} \in Good PROVE S \in Good
  <2>1. CASE S = {}
    <3>1. g[S] = <<>> /\ Of(S) = {}
      BY <1>16, <2>1
    <3>2. Parted(<<>>, {})
      BY DEF Parted
    <3> QED
      BY <1>6, <3>1, <3>2
  <2>2. CASE S # {}
    <3>1. PICK x : x = Max(S)
      OBVIOUS
    <3>2. x \in S /\ s[x] \in D
      BY <1>4, <1>7, <2>2, <3>1
    <3>3. g[S] = Put(spec, merged, g[S \ {x}], s[x])
      BY <1>16, <2>2, <3>1
    <3>4. g[S \ {x}] \in V /\ Parted(g[S \ {x}], Of(S \ {x}))
      BY <1>17, <3>2
    <3>5. g[S] \in V
      BY <1>6, <3>2, <3>3, <3>4
    <3>6. Of(S) = Of(S \ {x}) \cup {s[x]}
      BY <3>2
    <3>7. s[x] \notin Of(S \ {x})
      BY <1>3, <1>20, <3>2
    <3>8. PICK E, v : E = Of(S \ {x}) /\ v = g[S \ {x}]
      OBVIOUS
    <3>9. Parted(Put(spec, merged, v, s[x]), E \cup {s[x]})
      <4>1. v \in Seq(Bucket(spec, merged)) /\ Parted(v, E) /\ s[x] \notin E
        BY <1>5, <3>4, <3>7, <3>8
      <4> HIDE DEF Step, body, Of
      <4> QED
        BY <3>2, <4>1, PutParted
    <3>10. Parted(g[S], Of(S))
      BY <3>3, <3>6, <3>8, <3>9
    <3> QED
      BY <3>5, <3>10
  <2> QED
    BY <2>1, <2>2
<1> HIDE DEF Good, body, Step
<1>18. \A S \in SUBSET X : (\A r \in S : S \ {r} \in Good) => S \in Good
  BY <1>17
<1>19. \A S \in SUBSET X : S \in Good
  BY <1>4, <1>18, SmallerSets
<1>21. Of(X) = D
  BY <1>3, <1>20 DEF ToSet
<1>22. g[X] \in V /\ Parted(g[X], Of(X))
  BY <1>19 DEF Good
<1> QED
  BY <1>5, <1>14, <1>21, <1>22

\* Part of a bucket is alike too.
LEMMA AlikeSubset ==
  ASSUME NEW T, NEW S \in SUBSET T, NEW merged \in BOOLEAN, Alike(T, merged)
  PROVE  Alike(S, merged)
BY DEF Alike, Mergeable, UniformType

\* A bucket is a finite set of layers.
LEMMA BucketFinite ==
  ASSUME NEW D \in SUBSET Nat, IsFiniteSet(D), NEW spec \in [D -> KvSpec],
         NEW merged \in BOOLEAN, NEW b \in Bucket(spec, merged)
  PROVE  /\ b \in SUBSET D /\ b \in SUBSET Nat /\ IsFiniteSet(b) /\ b # {}
         /\ Cardinality(b) \in Nat \ {0} /\ Alike(SpecsOf(spec, b), merged)
<1>1. b \in SUBSET D /\ b \in SUBSET Nat /\ b # {} /\ Alike(SpecsOf(spec, b), merged)
  BY DEF Bucket
<1>2. IsFiniteSet(b)
  BY <1>1, FS_Subset
<1> QED
  BY <1>1, <1>2, FS_CardinalityType, FS_EmptySet

\* A rounded quotient is not above what is divided.
LEMMA CeilDivAtMost ==
  ASSUME NEW a \in Nat \ {0}, NEW c \in Nat \ {0}
  PROVE  CeilDiv(a, c) \in 1..a
<1>1. PICK q : q = CeilDiv(a, c)
  OBVIOUS
<1>2. q \in Nat /\ a <= q * c /\ q * c < a + c
  BY <1>1, CeilDivBounds
<1>3. q # 0
  <2> SUFFICES ASSUME q = 0 PROVE FALSE
    OBVIOUS
  <2>1. q * c = 0
    OBVIOUS
  <2> QED
    BY <1>2, <2>1
<1>4. q <= a
  <2> SUFFICES ASSUME ~(q <= a) PROVE FALSE
    OBVIOUS
  <2>1. PICK d \in Nat : q = a + 1 + d
    <3>1. q - a - 1 \in Nat /\ q = a + 1 + (q - a - 1)
      BY <1>2
    <3> QED
      BY <3>1
  <2>2. q * c = a * c + c + d * c /\ d * c \in Nat
    BY <2>1
  <2>3. PICK e \in Nat : c = 1 + e
    <3>1. c - 1 \in Nat /\ c = 1 + (c - 1)
      OBVIOUS
    <3> QED
      BY <3>1
  <2>4. a * c = a + a * e /\ a * e \in Nat
    BY <2>3
  <2> QED
    BY <1>2, <2>2, <2>4
<1> QED
  BY <1>1, <1>2, <1>3, <1>4

\* A record of a spec with another block size or padding is a spec.
LEMMA SpecChanges ==
  ASSUME NEW s \in KvSpec, NEW n \in Nat \ {0}, NEW p \in Nat
  PROVE  [s EXCEPT !.bs = n] \in KvSpec /\ [s EXCEPT !.pad = p] \in KvSpec
BY DEF KvSpec

\* The widest page is positive and bounds every other.
LEMMA MaxPage ==
  ASSUME NEW D, IsFiniteSet(D), D # {}, NEW spec \in [D -> KvSpec]
  PROVE  /\ Max(PageSizes(spec)) \in Nat \ {0}
         /\ \A l \in D : Page(spec[l]) <= Max(PageSizes(spec))
<1>1. PICK f : f = [l \in D |-> Page(spec[l])]
  OBVIOUS
<1>2. DOMAIN f = D /\ Range(f) = PageSizes(spec)
  BY <1>1 DEF Range, PageSizes
<1>3. PICK X : X = PageSizes(spec)
  OBVIOUS
<1>4. IsFiniteSet(X) /\ X # {}
  BY <1>2, <1>3, FiniteRange
<1>5. X \in SUBSET (Nat \ {0})
  BY <1>3, PageTyped DEF PageSizes, Range
<1>6. X \in SUBSET Int
  BY <1>5
<1>7. Max(X) \in X /\ \A y \in X : Max(X) >= y
  BY <1>4, <1>6, MaxOf
<1>8. \A l \in D : Page(spec[l]) \in X
  BY <1>3 DEF PageSizes, Range
<1>9. \A l \in D : Page(spec[l]) <= Max(X)
  <2> TAKE l \in D
  <2>1. Page(spec[l]) \in X
    BY <1>8
  <2> QED
    BY <1>5, <1>7, <2>1
<1> QED
  BY <1>3, <1>5, <1>7, <1>9

\* Specs of as many layers that are of the same kinds.
SameKinds(D, spec, u) ==
  /\ u \in [D -> KvSpec]
  /\ \A l \in D : u[l].kind = spec[l].kind /\ u[l].tps = spec[l].tps /\ u[l].win = spec[l].win

\* Specs made to share the widest page are specs.
LEMMA UnifiedTyped ==
  ASSUME NEW D, IsFiniteSet(D), D # {}, NEW spec \in [D -> KvSpec],
         NEW u, u = unify_kv_cache_spec_page_size(spec)
  PROVE  SameKinds(D, spec, u)
<1>1. PICK page : page = Max(PageSizes(spec))
  OBVIOUS
<1>2. page \in Nat \ {0} /\ \A l \in D : Page(spec[l]) <= page
  BY <1>1, MaxPage
<1>3. ASSUME NEW l \in D
      PROVE  /\ Unified(spec[l], page) \in KvSpec
             /\ Unified(spec[l], page).kind = spec[l].kind
             /\ Unified(spec[l], page).tps = spec[l].tps
             /\ Unified(spec[l], page).win = spec[l].win
  <2>1. PICK s : s = spec[l]
    OBVIOUS
  <2>2. s \in KvSpec /\ Page(s) \in Nat \ {0} /\ Page(s) <= page
    BY <1>2, <2>1, PageTyped
  <2>3. page \div Page(s) \in Nat \ {0}
    <3>1. PICK p : p = Page(s)
      OBVIOUS
    <3> QED
      BY <1>2, <2>2, <3>1
  <2>4. s.bs \in Nat \ {0}
    BY <2>2 DEF KvSpec
  <2>5. PICK n : n = s.bs * (page \div Page(s))
    OBVIOUS
  <2>6. n \in Nat \ {0}
    <3>1. PICK x : x = page \div Page(s)
      OBVIOUS
    <3> QED
      BY <2>3, <2>4, <2>5, <3>1
  <2>7. [s EXCEPT !.bs = n] \in KvSpec /\ [s EXCEPT !.pad = page] \in KvSpec
    BY <1>2, <2>2, <2>6, SpecChanges
  <2>8. \/ Unified(s, page) = s
        \/ Unified(s, page) = [s EXCEPT !.bs = n]
        \/ Unified(s, page) = [s EXCEPT !.pad = page]
    BY <2>5 DEF Unified
  <2>9. \A k \in Nat : /\ [s EXCEPT !.bs = k].kind = s.kind /\ [s EXCEPT !.pad = k].kind = s.kind
                       /\ [s EXCEPT !.bs = k].tps = s.tps /\ [s EXCEPT !.pad = k].tps = s.tps
                       /\ [s EXCEPT !.bs = k].win = s.win /\ [s EXCEPT !.pad = k].win = s.win
    BY <2>2 DEF KvSpec
  <2>10. n \in Nat /\ page \in Nat
    BY <1>2, <2>6
  <2> QED
    BY <2>1, <2>2, <2>7, <2>8, <2>9, <2>10
<1>4. DOMAIN spec = D
  OBVIOUS
<1>5. u = [l \in D |-> Unified(spec[l], page)]
  BY <1>1, <1>4 DEF unify_kv_cache_spec_page_size
<1>7. u \in [D -> KvSpec]
  BY <1>3, <1>5
<1>8. \A l \in D : u[l].kind = spec[l].kind /\ u[l].tps = spec[l].tps /\ u[l].win = spec[l].win
  BY <1>3, <1>5
<1> QED
  BY <1>7, <1>8 DEF SameKinds

\* Layers of one spec side by side: the bucket in an order.
LEMMA SameClassFirstLists ==
  ASSUME NEW b \in SUBSET Nat, IsFiniteSet(b), NEW spec
  PROVE  /\ SameClassFirst(spec, b) \in Seq(b)
         /\ Len(SameClassFirst(spec, b)) = Cardinality(b)
         /\ ToSet(SameClassFirst(spec, b)) = b
         /\ EachOnce(SameClassFirst(spec, b), b)
<1>1. PICK f : f = [l \in b |-> Min({m \in b : spec[m] = spec[l]})]
  OBVIOUS
<1>2. f \in [b -> Nat]
  <2>1. ASSUME NEW l \in b PROVE Min({m \in b : spec[m] = spec[l]}) \in Nat
    <3>1. PICK X : X = {m \in b : spec[m] = spec[l]}
      OBVIOUS
    <3>2. X \in SUBSET Nat /\ X # {}
      BY <3>1
    <3> QED
      BY <3>1, <3>2, MinOf
  <2> QED
    BY <1>1, <2>1
<1>3. PICK R : R = {p \in b \X b : f[p[1]] < f[p[2]] \/ (f[p[1]] = f[p[2]] /\ p[1] < p[2])}
  OBVIOUS
<1>4. \A x, y \in b : <<x, y>> \in R <=> f[x] < f[y] \/ (f[x] = f[y] /\ x < y)
  BY <1>3
<1>5. Total(b, R)
  <2>1. \A x \in b : x \in Nat /\ f[x] \in Nat
    BY <1>2
  <2> QED
    BY <1>4, <2>1 DEF Total
<1>6. SameClassFirst(spec, b) = Sorted(b, R)
  BY <1>1, <1>3 DEF SameClassFirst
<1>7. Cardinality(b) \in Nat /\ Sorted(b, R) \in Bijection(1..Cardinality(b), b)
  BY <1>5, SortedLists, FS_CardinalityType
<1> QED
  BY <1>6, <1>7, ListIsSeq DEF EachOnce

\* The layers of a bucket, dealt out to no more groups than it has layers.
LEMMA StridesMerge ==
  ASSUME NEW D \in SUBSET Nat, IsFiniteSet(D), NEW spec \in [D -> KvSpec],
         NEW b \in SUBSET D, Mergeable(SpecsOf(spec, b)),
         NEW s \in Seq(b), ToSet(s) \in SUBSET b, NEW n \in Nat \ {0}, n <= Len(s),
         NEW i \in 1..n
  PROVE  MergedGroup(spec, Stride(s, i, n)) \in MergeGroups(D, spec)
<1>1. PICK q : q = Stride(s, i, n)
  OBVIOUS
<1>2. q \in Seq(b) /\ q # <<>> /\ ToSet(q) \in SUBSET b
  BY <1>1, StrideIsSeq
<1>3. q \in Seq(D)
  BY <1>2, SeqFacts
<1>4. SpecsOf(spec, ToSet(q)) \in SUBSET SpecsOf(spec, b)
  BY <1>2 DEF SpecsOf
<1>5. Mergeable(SpecsOf(spec, ToSet(q)))
  BY <1>4 DEF Mergeable
<1> QED
  BY <1>1, <1>2, <1>3, <1>5, MergedGrouped

\* The groups of equal pages are groups.
LEMMA UniformPageGrouped ==
  ASSUME NEW D \in SUBSET Nat, IsFiniteSet(D), NEW spec \in [D -> KvSpec]
  PROVE  UniformPageGroups(spec) \in Seq(MergeGroups(D, spec)) /\ Parts(UniformPageGroups(spec), D)
<1>1. PICK B : B = Buckets(spec, TRUE)
  OBVIOUS
<1>2. B \in Seq(Bucket(spec, TRUE)) /\ Parted(B, D)
  BY <1>1, BucketsTyped
<1>3. DOMAIN B = 1..Len(B) /\ Len(B) \in Nat /\ \A i \in DOMAIN B : B[i] \in Bucket(spec, TRUE)
  BY <1>2, SeqFacts
<1>4. \A i \in DOMAIN B : Cardinality(B[i]) \in Nat \ {0}
  <2> TAKE i \in DOMAIN B
  <2>1. PICK b : b = B[i]
    OBVIOUS
  <2>2. b \in Bucket(spec, TRUE)
    BY <1>3, <2>1
  <2>3. Cardinality(b) \in Nat \ {0}
    BY <2>2, BucketFinite
  <2> QED
    BY <2>1, <2>3
<1>5. PICK sizes : sizes = {Cardinality(b) : b \in Range(B)}
  OBVIOUS
<1>6. PICK size : size = IF 2 * Max(sizes) < 3 * Min(sizes) THEN Max(sizes) ELSE Min(sizes)
  OBVIOUS
<1>7. ASSUME NEW i \in DOMAIN B PROVE size \in Nat \ {0}
  <2>1. PICK f : f = [j \in DOMAIN B |-> Cardinality(B[j])]
    OBVIOUS
  <2>2. Range(f) = sizes /\ DOMAIN f = DOMAIN B
    BY <1>5, <2>1 DEF Range
  <2>3. IsFiniteSet(DOMAIN B)
    BY <1>3, FS_Interval
  <2>4. IsFiniteSet(sizes) /\ sizes # {}
    BY <1>7, <2>2, <2>3, FiniteRange
  <2>5. sizes \in SUBSET (Nat \ {0})
    BY <1>4, <2>1, <2>2 DEF Range
  <2>6. sizes \in SUBSET Nat /\ sizes \in SUBSET Int
    BY <2>5
  <2>7. Max(sizes) \in sizes /\ Min(sizes) \in sizes
    BY <2>4, <2>6, MaxOf, MinOf
  <2> QED
    BY <1>6, <2>5, <2>7
<1> DEFINE split(b) ==
             LET n == CeilDiv(Cardinality(b), size)
             IN  [i \in 1..n |-> MergedGroup(spec, Stride(SameClassFirst(spec, b), i, n))]
           seqs == [i \in DOMAIN B |-> split(B[i])]
<1>8. ASSUME NEW i \in DOMAIN B PROVE split(B[i]) \in Seq(MergeGroups(D, spec)) /\ Parts(split(B[i]), B[i])
  <2>1. PICK b, n, s : /\ b = B[i] /\ n = CeilDiv(Cardinality(b), size)
                       /\ s = SameClassFirst(spec, b)
    OBVIOUS
  <2>2. b \in Bucket(spec, TRUE)
    BY <1>3, <2>1
  <2>3. /\ b \in SUBSET D /\ b \in SUBSET Nat /\ IsFiniteSet(b)
        /\ Cardinality(b) \in Nat \ {0} /\ Mergeable(SpecsOf(spec, b))
    BY <2>2, BucketFinite DEF Alike
  <2>4. n \in 1..Cardinality(b)
    BY <1>7, <2>1, <2>3, CeilDivAtMost
  <2>5. s \in Seq(b) /\ Len(s) = Cardinality(b) /\ ToSet(s) = b /\ EachOnce(s, b)
    BY <2>1, <2>3, SameClassFirstLists
  <2>6. n \in Nat \ {0} /\ n <= Len(s)
    BY <2>3, <2>4, <2>5
  <2>7. \A j \in 1..n : MergedGroup(spec, Stride(s, j, n)) \in MergeGroups(D, spec)
    BY <2>3, <2>5, <2>6, StridesMerge
  <2>8. split(b) = [j \in 1..n |-> MergedGroup(spec, Stride(s, j, n))]
    BY <2>1
  <2>9. split(b) \in [1..n -> MergeGroups(D, spec)]
    BY <2>7, <2>8
  <2>10. Parts(split(b), b)
    <3>1. PICK q : q = split(b)
      OBVIOUS
    <3>2. DOMAIN q = 1..n /\ \A j \in 1..n : q[j].layers = Stride(s, j, n)
      BY <2>8, <3>1 DEF MergedGroup, Group
    <3> HIDE DEF split
    <3> QED
      BY <2>5, <2>6, <3>1, <3>2, StridesPart
  <2> HIDE DEF split
  <2> QED
    BY <2>1, <2>6, <2>9, <2>10
<1>9. UniformPageGroups(spec) = FlattenSeq(seqs)
  BY <1>1, <1>5, <1>6 DEF UniformPageGroups
<1> HIDE DEF split
<1>10. seqs \in [1..Len(B) -> Seq(MergeGroups(D, spec))]
  BY <1>3, <1>8
<1>11. seqs \in Seq(Seq(MergeGroups(D, spec))) /\ Len(seqs) = Len(B)
  BY <1>3, <1>10
<1>12. \A i \in 1..Len(seqs) : Parts(seqs[i], B[i])
  BY <1>3, <1>8, <1>11
<1> HIDE DEF seqs
<1>15. Parts(FlattenSeq(seqs), D)
  BY <1>2, <1>3, <1>11, <1>12, FlattenParts
<1> QED
  BY <1>9, <1>11, <1>15, FlattenIsSeq

-----------------------------------------------------------------------------
(* Buckets of mixed pages *)

\* The pages of a bucket are those of some of its layers.
LEMMA PagesInTyped ==
  ASSUME NEW D \in SUBSET Nat, NEW spec \in [D -> KvSpec],
         NEW b \in SUBSET D, IsFiniteSet(b), b # {}
  PROVE  /\ PagesIn(spec, b) \in SUBSET (Nat \ {0})
         /\ IsFiniteSet(PagesIn(spec, b)) /\ PagesIn(spec, b) # {}
         /\ \A p \in PagesIn(spec, b) :
              /\ OfPage(spec, b, p) \in SUBSET b /\ IsFiniteSet(OfPage(spec, b, p))
              /\ OfPage(spec, b, p) # {} /\ Cardinality(OfPage(spec, b, p)) \in Nat \ {0}
<1>1. PICK f : f = [l \in b |-> Page(spec[l])]
  OBVIOUS
<1>2. DOMAIN f = b /\ Range(f) = PagesIn(spec, b)
  BY <1>1 DEF Range, PagesIn, SpecsOf
<1>3. IsFiniteSet(PagesIn(spec, b)) /\ PagesIn(spec, b) # {}
  BY <1>2, FiniteRange
<1>4. f \in [b -> Nat \ {0}]
  <2>1. \A l \in b : spec[l] \in KvSpec
    OBVIOUS
  <2> QED
    BY <1>1, <2>1, PageTyped
<1>5. PagesIn(spec, b) \in SUBSET (Nat \ {0})
  BY <1>2, <1>4 DEF Range
<1>6. ASSUME NEW p \in PagesIn(spec, b)
      PROVE  /\ OfPage(spec, b, p) \in SUBSET b /\ IsFiniteSet(OfPage(spec, b, p))
             /\ OfPage(spec, b, p) # {} /\ Cardinality(OfPage(spec, b, p)) \in Nat \ {0}
  <2>1. PICK S : S = OfPage(spec, b, p)
    OBVIOUS
  <2>2. S \in SUBSET b
    BY <2>1 DEF OfPage
  <2>3. S # {}
    BY <2>1 DEF OfPage, PagesIn, SpecsOf
  <2>4. IsFiniteSet(S)
    BY <2>2, FS_Subset
  <2>5. Cardinality(S) \in Nat \ {0}
    BY <2>3, <2>4, FS_CardinalityType, FS_EmptySet
  <2> QED
    BY <2>1, <2>2, <2>3, <2>4, <2>5
<1> QED
  BY <1>3, <1>5, <1>6

\* The most layers of a page are all of them in a bucket of one page, and those of any
\* page in a balanced one.
LEMMA RepeatsTyped ==
  ASSUME NEW D \in SUBSET Nat, NEW spec \in [D -> KvSpec],
         NEW b \in SUBSET D, IsFiniteSet(b), b # {}
  PROVE  /\ Repeats(spec, b) \in Nat \ {0}
         /\ Balanced(spec, b) =>
              \A p \in PagesIn(spec, b) : Cardinality(OfPage(spec, b, p)) = Repeats(spec, b)
         /\ Cardinality(PagesIn(spec, b)) = 1 =>
              Balanced(spec, b) /\ Repeats(spec, b) = Cardinality(b)
<1>1. PICK P : P = PagesIn(spec, b)
  OBVIOUS
<1>2. PICK f : f = [p \in P |-> Cardinality(OfPage(spec, b, p))]
  OBVIOUS
<1>3. P # {} /\ IsFiniteSet(P) /\ f \in [P -> Nat \ {0}]
  BY <1>1, <1>2, PagesInTyped
<1>4. PICK X : X = Range(f)
  OBVIOUS
<1>5. X \in SUBSET (Nat \ {0}) /\ X # {} /\ IsFiniteSet(X)
  <2>1. DOMAIN f = P
    BY <1>3
  <2> QED
    BY <1>3, <1>4, <2>1, FiniteRange DEF Range
<1>6. Repeats(spec, b) = Max(X)
  BY <1>1, <1>2, <1>4 DEF Repeats, Range
<1>7. Max(X) \in X
  <2>1. X \in SUBSET Int
    BY <1>5
  <2> QED
    BY <1>5, <2>1, MaxOf
<1>8. PICK q \in P : Max(X) = f[q]
  BY <1>2, <1>4, <1>7 DEF Range
<1>9. ASSUME Balanced(spec, b), NEW p \in P
      PROVE  Cardinality(OfPage(spec, b, p)) = Repeats(spec, b)
  BY <1>1, <1>2, <1>6, <1>8, <1>9 DEF Balanced
<1>10. ASSUME Cardinality(P) = 1
       PROVE  Balanced(spec, b) /\ Repeats(spec, b) = Cardinality(b)
  <2>1. PICK r : P = {r}
    BY <1>3, <1>10, FS_Singleton
  <2>2. OfPage(spec, b, r) = b
    BY <1>1, <2>1 DEF OfPage, PagesIn, SpecsOf
  <2>3. Repeats(spec, b) = Cardinality(b)
    BY <1>2, <1>6, <1>8, <2>1, <2>2
  <2> QED
    BY <1>1, <2>1, <2>3 DEF Balanced
<1> QED
  BY <1>1, <1>5, <1>6, <1>7, <1>9, <1>10

\* The widest row of a bucket dealt out over n rows is a number.
LEMMA WidestTyped ==
  ASSUME NEW D \in SUBSET Nat, NEW spec \in [D -> KvSpec],
         NEW b \in SUBSET D, IsFiniteSet(b), b # {}, NEW n \in Nat \ {0}
  PROVE  Widest(spec, b, n) \in Nat
<1>1. PICK P : P = PagesIn(spec, b)
  OBVIOUS
<1>2. PICK f : f = [p \in P |-> CeilDiv(Cardinality(OfPage(spec, b, p)), n) * p]
  OBVIOUS
<1>3. IsFiniteSet(P)
  BY <1>1, PagesInTyped
<1>4. ASSUME NEW p \in P PROVE CeilDiv(Cardinality(OfPage(spec, b, p)), n) * p \in Nat
  <2>1. PICK k : k = Cardinality(OfPage(spec, b, p))
    OBVIOUS
  <2>2. p \in Nat /\ k \in Nat
    BY <1>1, <2>1, PagesInTyped
  <2>3. PICK m : m = CeilDiv(k, n)
    OBVIOUS
  <2>4. m \in Nat
    BY <2>2, <2>3, CeilDivBounds
  <2>5. m * p \in Nat
    BY <2>2, <2>4
  <2> QED
    BY <2>1, <2>3, <2>5
<1>5. f \in [P -> Nat]
  BY <1>2, <1>4
<1>6. \A p \in P : f[p] <= f[p]
  BY <1>5
<1>7. SumFunction(f) \in Nat
  BY <1>3, <1>5, <1>6, SumsGrow
<1> QED
  BY <1>1, <1>2, <1>7 DEF Widest

\* A non-empty interval has a member where a padding is least, and a largest of those.
LEMMA LeastPadding ==
  ASSUME NEW a \in Nat, NEW z \in Nat, a <= z, NEW pad \in [a..z -> Nat]
  PROVE  \E d \in a..z : \A e \in a..z : pad[d] < pad[e] \/ (pad[d] = pad[e] /\ d >= e)
<1>1. PICK X : X = Range(pad)
  OBVIOUS
<1>2. X \in SUBSET Nat /\ a \in a..z /\ \A e \in a..z : pad[e] \in X
  BY <1>1 DEF Range
<1>3. PICK m \in X : \A x \in X : m <= x
  BY <1>2, LeastNumber
<1>4. PICK Y : Y = {d \in a..z : pad[d] = m}
  OBVIOUS
<1>5. Y # {}
  BY <1>1, <1>3, <1>4 DEF Range
<1>6. Y \in SUBSET (a..z) /\ Y \in SUBSET Int
  BY <1>4
<1>7. IsFiniteSet(Y)
  <2>1. IsFiniteSet(a..z)
    BY FS_Interval
  <2> QED
    BY <1>6, <2>1, FS_Subset
<1>8. PICK d \in Y : \A e \in Y : d >= e
  BY <1>5, <1>6, <1>7, MaxOf
<1>9. ASSUME NEW e \in a..z PROVE pad[d] < pad[e] \/ (pad[d] = pad[e] /\ d >= e)
  <2>1. pad[d] = m /\ m \in Nat /\ pad[e] \in Nat /\ m <= pad[e]
    BY <1>2, <1>3, <1>4, <1>8
  <2>2. pad[e] = m => d >= e
    BY <1>4, <1>8
  <2> QED
    BY <2>1, <2>2
<1> QED
  BY <1>6, <1>8, <1>9

\* The approximate common divisor of the repeats of the buckets is positive.
LEMMA GcdTyped ==
  ASSUME NEW E, IsFiniteSet(E), E # {}, NEW values \in [E -> Nat], NEW lower \in Nat \ {0}
  PROVE  ApproximateGcd(values, lower) \in Nat \ {0}
<1>1. PICK top : top = Larger(lower, Max(Range(values)))
  OBVIOUS
<1>2. top \in Nat /\ lower <= top
  <2>1. PICK X : X = Range(values)
    OBVIOUS
  <2>2. X \in SUBSET Int /\ X \in SUBSET Nat /\ X # {}
    BY <2>1 DEF Range
  <2>3. IsFiniteSet(X)
    <3>1. DOMAIN values = E
      OBVIOUS
    <3> QED
      BY <2>1, <3>1, FiniteRange
  <2>4. Max(X) \in Nat
    BY <2>2, <2>3, MaxOf
  <2> QED
    BY <1>1, <2>1, <2>4 DEF Larger
<1> DEFINE cost(d) == SumFunction([i \in E |-> RoundUp(values[i], d) - values[i]])
<1>3. ASSUME NEW d \in lower..top PROVE cost(d) \in Nat
  <2>1. d \in Nat \ {0}
    BY <1>2
  <2>2. PICK f : f = [i \in E |-> RoundUp(values[i], d) - values[i]]
    OBVIOUS
  <2>3. ASSUME NEW i \in E PROVE RoundUp(values[i], d) - values[i] \in Nat
    <3>1. PICK v, q : v = values[i] /\ q = CeilDiv(v, d)
      OBVIOUS
    <3>2. v \in Nat /\ q \in Nat /\ v <= q * d
      BY <2>1, <3>1, CeilDivBounds
    <3>3. q * d \in Nat
      BY <2>1, <3>2
    <3>4. q * d - v \in Nat
      BY <3>2, <3>3
    <3> QED
      BY <3>1, <3>4 DEF RoundUp
  <2>4. f \in [E -> Nat] /\ \A i \in E : f[i] <= f[i]
    BY <2>2, <2>3
  <2>5. SumFunction(f) \in Nat
    BY <2>4, SumsGrow
  <2> QED
    BY <2>2, <2>5
<1> HIDE DEF cost
<1>4. PICK pad : pad = [d \in lower..top |-> cost(d)]
  OBVIOUS
<1>5. pad \in [lower..top -> Nat]
  BY <1>3, <1>4
<1>6. \E d \in lower..top :
        \A e \in lower..top : cost(d) < cost(e) \/ (cost(d) = cost(e) /\ d >= e)
  <2>1. PICK d \in lower..top : \A e \in lower..top :
                                   pad[d] < pad[e] \/ (pad[d] = pad[e] /\ d >= e)
    BY <1>2, <1>5, LeastPadding
  <2> QED
    BY <1>4, <2>1
<1>7. ApproximateGcd(values, lower) =
        CHOOSE d \in lower..top :
          \A e \in lower..top : cost(d) < cost(e) \/ (cost(d) = cost(e) /\ d >= e)
  <2>1. DOMAIN values = E
    OBVIOUS
  <2> QED
    BY <1>1, <2>1 DEF ApproximateGcd, cost
<1>8. ApproximateGcd(values, lower) \in lower..top
  BY <1>6, <1>7
<1> QED
  BY <1>2, <1>8

\* Rows of layers, one of each page, end to end.
LEMMA RepeatedGrouped ==
  ASSUME NEW D \in SUBSET Nat, NEW spec \in [D -> KvSpec], SameExtra(Range(spec)),
         NEW b \in SUBSET D, IsFiniteSet(b), b # {}, UniformType(SpecsOf(spec, b)),
         Balanced(spec, b), NEW n \in 1..Repeats(spec, b)
  PROVE  Repeated(spec, b, n) \in Seq(TypeGroups(D, spec)) /\ Parts(Repeated(spec, b, n), b)
<1>1. PICK P, R : P = PagesIn(spec, b) /\ R = Repeats(spec, b)
  OBVIOUS
<1>2. /\ P \in SUBSET (Nat \ {0}) /\ IsFiniteSet(P) /\ P # {}
      /\ \A p \in P : /\ OfPage(spec, b, p) \in SUBSET b /\ IsFiniteSet(OfPage(spec, b, p))
                      /\ OfPage(spec, b, p) # {}
  BY <1>1, PagesInTyped
<1>3. R \in Nat \ {0} /\ \A p \in P : Cardinality(OfPage(spec, b, p)) = R
  BY <1>1, RepeatsTyped
<1>4. PICK first : first = [p \in P |-> Min(OfPage(spec, b, p))]
  OBVIOUS
<1>5. ASSUME NEW p \in P PROVE first[p] \in Nat /\ Page(spec[first[p]]) = p
  <2>1. OfPage(spec, b, p) \in SUBSET Nat /\ OfPage(spec, b, p) # {}
    BY <1>2
  <2>2. first[p] \in OfPage(spec, b, p)
    BY <1>4, <2>1, MinOf
  <2> QED
    BY <2>1, <2>2 DEF OfPage
<1>6. PICK before : before = {r \in P \X P : first[r[1]] < first[r[2]]}
  OBVIOUS
<1>7. \A x, y \in P : <<x, y>> \in before <=> first[x] < first[y]
  BY <1>6
<1>8. Total(P, before)
  <2>1. \A x, y \in P : x # y => first[x] # first[y]
    BY <1>5
  <2>2. \A x \in P : first[x] \in Nat
    BY <1>5
  <2> QED
    BY <1>7, <2>1, <2>2 DEF Total
<1>9. PICK pages, K : pages = Sorted(P, before) /\ K = Cardinality(P)
  OBVIOUS
<1>10. K \in Nat \ {0} /\ pages \in Bijection(1..K, P)
  BY <1>2, <1>8, <1>9, SortedLists, FS_CardinalityType, FS_EmptySet
<1>11. DOMAIN pages = 1..K /\ \A i \in 1..K : pages[i] \in P
  BY <1>10 DEF Bijection, Injection
<1>12. PICK column : column = [i \in 1..K |-> InOrder(OfPage(spec, b, pages[i]))]
  OBVIOUS
<1>13. ASSUME NEW i \in 1..K
       PROVE  /\ column[i] \in Seq(b) /\ Len(column[i]) = R /\ DOMAIN column[i] = 1..R
              /\ EachOnce(column[i], OfPage(spec, b, pages[i]))
  <2>1. PICK S : S = OfPage(spec, b, pages[i])
    OBVIOUS
  <2>2. S \in SUBSET b /\ S \in SUBSET Nat /\ IsFiniteSet(S) /\ Cardinality(S) = R
    BY <1>2, <1>3, <1>11, <2>1
  <2>3. InOrder(S) \in Seq(S) /\ Len(InOrder(S)) = R
    BY <2>2, InOrderIsSeq
  <2>5. EachOnce(InOrder(S), S)
    BY <2>2, InOrderOnce
  <2>4. InOrder(S) \in Seq(b)
    BY <2>2, <2>3, SeqFacts
  <2> QED
    BY <1>3, <1>12, <2>1, <2>3, <2>4, <2>5
<1>14. PICK rows : rows = Min({Len(column[i]) : i \in 1..K})
  OBVIOUS
<1>15. rows = R
  <2>1. {Len(column[i]) : i \in 1..K} = {R}
    BY <1>10, <1>13
  <2>2. Min({R}) \in {R}
    <3>1. {R} \in SUBSET Nat /\ {R} # {}
      BY <1>3
    <3> QED
      BY <3>1, MinOf
  <2> QED
    BY <1>14, <2>1, <2>2
<1>16. PICK repeat : repeat = [k \in 1..R |-> [i \in 1..K |-> column[i][k]]]
  OBVIOUS
<1>17. PICK T : T = {t \in Seq(b) : t # <<>>}
  OBVIOUS
<1>18. repeat \in Seq(T) /\ Len(repeat) = R
  <2>1. ASSUME NEW k \in 1..R PROVE repeat[k] \in T
    <3>1. \A i \in 1..K : column[i][k] \in b
      BY <1>3, <1>13, <2>1
    <3>2. repeat[k] \in [1..K -> b]
      BY <1>16, <3>1
    <3>3. repeat[k] \in Seq(b) /\ Len(repeat[k]) = K
      BY <1>10, <3>2
    <3> QED
      BY <1>10, <1>17, <3>3
  <2>2. repeat \in [1..R -> T]
    BY <1>16, <2>1
  <2> QED
    BY <1>3, <2>2
<1>19. ASSUME NEW i \in 1..n
       PROVE  TypeGroup(spec, FlattenSeq(Stride(repeat, i, n))) \in TypeGroups(D, spec)
  <2>1. PICK q : q = Stride(repeat, i, n)
    OBVIOUS
  <2>2. q \in Seq(T) /\ q # <<>>
    <3>1. n \in Nat \ {0} /\ n <= Len(repeat)
      BY <1>1, <1>3, <1>18
    <3> QED
      BY <1>18, <2>1, <3>1, StrideIsSeq
  <2>3. q \in Seq(Seq(b)) /\ q[1] # <<>>
    <3>1. q[1] \in T
      BY <2>2
    <3>2. T \subseteq Seq(b)
      BY <1>17
    <3>3. q \in Seq(Seq(b))
      BY <2>2, <3>2, SeqFacts
    <3> QED
      BY <1>17, <3>1, <3>3
  <2>4. PICK s : s = FlattenSeq(q)
    OBVIOUS
  <2>5. s \in Seq(b) /\ s # <<>>
    BY <2>2, <2>3, <2>4, FlattenIsSeq
  <2>6. s \in Seq(D) /\ ToSet(s) \in SUBSET b
    BY <2>5, SeqFacts, SeqOfElements
  <2>7. UniformType(SpecsOf(spec, ToSet(s)))
    <3>1. SpecsOf(spec, ToSet(s)) \in SUBSET SpecsOf(spec, b)
      BY <2>6 DEF SpecsOf
    <3> QED
      BY <3>1 DEF UniformType
  <2> QED
    BY <2>1, <2>4, <2>5, <2>6, <2>7, TypeGrouped
<1>20. Repeated(spec, b, n) = [i \in 1..n |-> TypeGroup(spec, FlattenSeq(Stride(repeat, i, n)))]
  <2>1. before = {r \in P \X P : Min(OfPage(spec, b, r[1])) < Min(OfPage(spec, b, r[2]))}
    BY <1>4, <1>6
  <2>2. pages = Sorted(P, {r \in P \X P : Min(OfPage(spec, b, r[1])) < Min(OfPage(spec, b, r[2]))})
    BY <1>9, <2>1
  <2>3. repeat = [k \in 1..rows |-> [i \in DOMAIN pages |-> InOrder(OfPage(spec, b, pages[i]))[k]]]
    BY <1>11, <1>12, <1>15, <1>16
  <2>4. rows = Min({Len(InOrder(OfPage(spec, b, pages[i]))) : i \in DOMAIN pages})
    BY <1>11, <1>12, <1>14
  <2> QED
    BY <1>1, <2>2, <2>3, <2>4 DEF Repeated
<1>21. n \in Nat
  BY <1>1, <1>3
<1>22. ASSUME NEW i \in 1..K, NEW j \in 1..K, NEW k \in 1..R, NEW m \in 1..R,
              column[i][k] = column[j][m]
       PROVE  i = j /\ k = m
  <2>1. column[i][k] \in OfPage(spec, b, pages[i]) /\ column[j][m] \in OfPage(spec, b, pages[j])
    BY <1>13 DEF EachOnce
  <2>2. pages[i] = pages[j]
    BY <1>22, <2>1 DEF OfPage
  <2>3. i = j
    BY <1>10, <2>2 DEF Bijection, Injection, IsInjective
  <2> QED
    BY <1>13, <1>22, <2>3 DEF EachOnce
<1>23. ASSUME NEW k \in 1..R
       PROVE  /\ DOMAIN repeat[k] = 1..K /\ repeat[k] \in Seq(b)
              /\ \A i \in 1..K : repeat[k][i] = column[i][k]
  <2>1. repeat[k] = [i \in 1..K |-> column[i][k]]
    BY <1>16
  <2>2. k \in 1..Len(repeat) /\ \A m \in 1..Len(repeat) : repeat[m] \in T
    BY <1>18
  <2> QED
    BY <1>17, <2>1, <2>2
<1>24. ASSUME NEW k \in 1..R PROVE EachOnce(repeat[k], ToSet(repeat[k]))
  <2>1. repeat[k] \in Seq(ToSet(repeat[k]))
    BY <1>23, SeqOfElements
  <2>2. ASSUME NEW i \in 1..K, NEW j \in 1..K, repeat[k][i] = repeat[k][j] PROVE i = j
    BY <1>22, <1>23, <2>2
  <2>3. DOMAIN repeat[k] = 1..K
    BY <1>23
  <2> QED
    BY <2>1, <2>2, <2>3 DEF EachOnce
<1>25. ASSUME NEW k \in 1..R, NEW m \in 1..R, k # m
       PROVE  ToSet(repeat[k]) \cap ToSet(repeat[m]) = {}
  <2>1. /\ ToSet(repeat[k]) = {column[i][k] : i \in 1..K}
        /\ ToSet(repeat[m]) = {column[i][m] : i \in 1..K}
    <3>1. /\ DOMAIN repeat[k] = 1..K /\ DOMAIN repeat[m] = 1..K
          /\ \A i \in 1..K : repeat[k][i] = column[i][k] /\ repeat[m][i] = column[i][m]
      BY <1>23
    <3> QED
      BY <3>1 DEF ToSet
  <2> QED
    BY <1>22, <1>25, <2>1
<1>26. ASSUME NEW l \in b PROVE \E k \in 1..R : l \in ToSet(repeat[k])
  <2>1. Page(spec[l]) \in P
    BY <1>1 DEF PagesIn, SpecsOf
  <2>2. PICK i \in 1..K : pages[i] = Page(spec[l])
    BY <1>10, <2>1 DEF Bijection, Surjection
  <2>3. l \in OfPage(spec, b, pages[i])
    BY <2>2 DEF OfPage
  <2>4. l \in {column[i][k] : k \in 1..R}
    BY <1>13, <2>3 DEF EachOnce, ToSet
  <2>5. PICK k \in 1..R : column[i][k] = l
    BY <2>4
  <2>6. repeat[k][i] = l /\ i \in DOMAIN repeat[k]
    BY <1>23, <2>5
  <2> QED
    BY <2>6 DEF ToSet
<1>27. PICK rowset : rowset = ToSet(repeat)
  OBVIOUS
<1>28. DOMAIN repeat = 1..R /\ rowset = {repeat[k] : k \in 1..R}
  BY <1>16, <1>27 DEF ToSet
<1>29. EachOnce(repeat, rowset)
  <2>1. repeat \in Seq(rowset)
    BY <1>18, <1>27, SeqOfElements
  <2>2. ASSUME NEW k \in 1..R, NEW m \in 1..R, repeat[k] = repeat[m] PROVE k = m
    <3>1. 1 \in 1..K
      BY <1>10
    <3>2. column[1][k] = column[1][m]
      BY <1>23, <2>2, <3>1
    <3> QED
      BY <1>22, <3>1, <3>2
  <2> QED
    BY <1>27, <1>28, <2>1, <2>2 DEF EachOnce
<1>30. /\ \A i \in 1..n : EachOnce(Stride(repeat, i, n), ToSet(Stride(repeat, i, n)))
       /\ \A i, j \in 1..n :
             i # j => ToSet(Stride(repeat, i, n)) \cap ToSet(Stride(repeat, j, n)) = {}
       /\ UNION {ToSet(Stride(repeat, i, n)) : i \in 1..n} = rowset
  <2>1. n \in Nat \ {0} /\ n <= Len(repeat)
    BY <1>1, <1>3, <1>18
  <2> QED
    BY <1>29, <2>1, StridesList
<1>31. PICK W : W = [i \in 1..n |-> ToSet(Stride(repeat, i, n))]
  OBVIOUS
<1>32. /\ \A i \in 1..n : W[i] \subseteq rowset
       /\ \A i, j \in 1..n : i # j => W[i] \cap W[j] = {}
       /\ \A w \in rowset : \E i \in 1..n : w \in W[i]
  BY <1>30, <1>31
<1>33. \A w \in rowset : EachOnce(w, ToSet(w)) /\ ToSet(w) \subseteq b
  BY <1>23, <1>24, <1>28, SeqOfElements
<1>34. \A v, w \in rowset : v # w => ToSet(v) \cap ToSet(w) = {}
  BY <1>25, <1>28
<1>35. ASSUME NEW i \in 1..n
       PROVE  EachOnce(FlattenSeq(Stride(repeat, i, n)), UNION {ToSet(w) : w \in W[i]})
  <2>1. PICK q, L : q = Stride(repeat, i, n) /\ L = Len(q)
    OBVIOUS
  <2>2. EachOnce(q, W[i]) /\ W[i] = ToSet(q)
    BY <1>30, <1>31, <2>1
  <2>3. q \in Seq(W[i]) /\ DOMAIN q = 1..L /\ \A k \in 1..L : q[k] \in rowset
    BY <1>32, <2>1, <2>2 DEF EachOnce
  <2>4. PICK sets : sets = [k \in 1..L |-> ToSet(q[k])]
    OBVIOUS
  <2>5. \A k \in 1..L : EachOnce(q[k], sets[k])
    BY <1>33, <2>3, <2>4
  <2>6. \A k, m \in 1..L : k # m => sets[k] \cap sets[m] = {}
    BY <1>34, <2>2, <2>3, <2>4 DEF EachOnce
  <2>7. EachOnce(FlattenSeq(q), UNION {sets[k] : k \in 1..L})
    BY <2>1, <2>3, <2>5, <2>6, FlattenLists
  <2>8. {sets[k] : k \in 1..L} = {ToSet(w) : w \in W[i]}
    <3>1. W[i] = {q[k] : k \in 1..L}
      BY <2>2, <2>3 DEF ToSet
    <3>2. \A k \in 1..L : sets[k] = ToSet(q[k])
      BY <2>4
    <3> QED
      BY <3>1, <3>2
  <2> QED
    BY <2>1, <2>7, <2>8
<1>36. PICK G, U : /\ G = Repeated(spec, b, n)
                  /\ U = [i \in 1..n |-> UNION {ToSet(w) : w \in W[i]}]
  OBVIOUS
<1>37. DOMAIN G = 1..n /\ \A i \in 1..n : G[i].layers = FlattenSeq(Stride(repeat, i, n))
  BY <1>20, <1>36 DEF TypeGroup, Group
<1>38. \A i \in 1..n : EachOnce(G[i].layers, U[i]) /\ ToSet(G[i].layers) = U[i]
  BY <1>35, <1>36, <1>37 DEF EachOnce
<1>39. ASSUME NEW i \in 1..n, NEW j \in 1..n, i # j PROVE U[i] \cap U[j] = {}
  <2>1. ASSUME NEW x \in U[i], x \in U[j] PROVE FALSE
    <3>1. PICK v \in W[i] : x \in ToSet(v)
      BY <1>36, <2>1
    <3>2. PICK w \in W[j] : x \in ToSet(w)
      BY <1>36, <2>1
    <3>3. v # w /\ v \in rowset /\ w \in rowset
      BY <1>32, <1>39
    <3> QED
      BY <1>34, <3>1, <3>2, <3>3
  <2> QED
    BY <2>1
<1>40. UNION {U[i] : i \in 1..n} = b
  <2>1. \A i \in 1..n : U[i] \subseteq b
    BY <1>32, <1>33, <1>36
  <2>2. ASSUME NEW l \in b PROVE \E i \in 1..n : l \in U[i]
    <3>1. PICK w \in rowset : l \in ToSet(w)
      BY <1>26, <1>28
    <3>2. PICK i \in 1..n : w \in W[i]
      BY <1>32
    <3> QED
      BY <1>36, <3>1, <3>2
  <2> QED
    BY <2>1, <2>2
<1>41. {ToSet(G[i].layers) : i \in DOMAIN G} = {U[i] : i \in 1..n}
  BY <1>37, <1>38
<1>42. Parts(G, b)
  BY <1>37, <1>38, <1>39, <1>40, <1>41 DEF Parts
<1> QED
  BY <1>19, <1>20, <1>21, <1>36, <1>42

\* The packed groups are groups, once the buckets of state layers are even.
LEMMA PackedGrouped ==
  ASSUME NEW D \in SUBSET Nat, IsFiniteSet(D), NEW spec \in [D -> KvSpec],
         SameExtra(Range(spec)), EvenStates(spec)
  PROVE  PackedGroups(spec) \in Seq(TypeGroups(D, spec)) /\ Parts(PackedGroups(spec), D)
<1>1. PICK B : B = Buckets(spec, FALSE)
  OBVIOUS
<1>2. /\ DOMAIN B = 1..Len(B) /\ Len(B) \in Nat /\ IsFiniteSet(DOMAIN B)
      /\ \A i \in DOMAIN B : B[i] \in Bucket(spec, FALSE)
      /\ Parted(B, D)
  <2>1. B \in Seq(Bucket(spec, FALSE)) /\ Parted(B, D)
    BY <1>1, BucketsTyped
  <2> QED
    BY <2>1, SeqFacts
<1>3. ASSUME NEW i \in DOMAIN B
      PROVE  /\ B[i] \in SUBSET D /\ B[i] \in SUBSET Nat /\ IsFiniteSet(B[i]) /\ B[i] # {}
             /\ Cardinality(B[i]) \in Nat \ {0} /\ UniformType(SpecsOf(spec, B[i]))
             /\ Repeats(spec, B[i]) \in Nat \ {0}
             /\ Cardinality(PagesIn(spec, B[i])) = 1 =>
                  Balanced(spec, B[i]) /\ Repeats(spec, B[i]) = Cardinality(B[i])
  <2>1. PICK b : b = B[i]
    OBVIOUS
  <2>2. b \in Bucket(spec, FALSE)
    BY <1>2, <2>1
  <2>3. /\ b \in SUBSET D /\ b \in SUBSET Nat /\ IsFiniteSet(b) /\ b # {}
        /\ Cardinality(b) \in Nat \ {0} /\ UniformType(SpecsOf(spec, b))
    BY <2>2, BucketFinite DEF Alike
  <2>4. /\ Repeats(spec, b) \in Nat \ {0}
        /\ Cardinality(PagesIn(spec, b)) = 1 =>
             Balanced(spec, b) /\ Repeats(spec, b) = Cardinality(b)
    BY <2>3, RepeatsTyped
  <2> QED
    BY <2>1, <2>3, <2>4
<1>4. PICK even, mixed : /\ even = {i \in DOMAIN B : Balanced(spec, B[i])}
                         /\ mixed = {i \in even : Cardinality(PagesIn(spec, B[i])) > 1}
  OBVIOUS
<1>5. PICK X : X = {0} \cup {Repeats(spec, B[i]) : i \in mixed}
  OBVIOUS
<1>6. PICK floor : floor = Max(X)
  OBVIOUS
<1>7. floor \in X /\ floor \in Nat /\ \A x \in X : floor >= x
  <2>1. PICK f : f = [i \in mixed |-> Repeats(spec, B[i])]
    OBVIOUS
  <2>2. mixed \in SUBSET DOMAIN B /\ DOMAIN f = mixed
    BY <1>4, <2>1
  <2>3. IsFiniteSet(mixed)
    BY <1>2, <2>2, FS_Subset
  <2>4. IsFiniteSet(Range(f))
    BY <2>2, <2>3, FiniteRange
  <2>5. X = Range(f) \cup {0}
    BY <1>5, <2>1 DEF Range
  <2>6. IsFiniteSet(X) /\ X # {}
    BY <2>4, <2>5, FS_AddElement
  <2>7. X \in SUBSET Nat /\ X \in SUBSET Int
    BY <1>3, <1>5, <2>2
  <2> QED
    BY <1>6, <2>6, <2>7, MaxOf
<1>8. PICK repeats : repeats = ApproximateGcd([i \in even |-> Repeats(spec, B[i])], floor)
  OBVIOUS
<1>9. ASSUME floor > 0 PROVE repeats \in Nat \ {0}
  <2>1. mixed # {}
    BY <1>5, <1>7, <1>9
  <2>2. even # {} /\ even \in SUBSET DOMAIN B
    BY <1>4, <2>1
  <2>3. IsFiniteSet(even)
    BY <1>2, <2>2, FS_Subset
  <2>4. PICK values : values = [i \in even |-> Repeats(spec, B[i])]
    OBVIOUS
  <2>5. values \in [even -> Nat]
    BY <1>3, <2>2, <2>4
  <2>6. floor \in Nat \ {0}
    BY <1>7, <1>9
  <2> QED
    BY <1>8, <2>2, <2>3, <2>4, <2>5, <2>6, GcdTyped
<1> DEFINE pattern(b) == IF floor > 0 /\ Balanced(spec, b)
                         THEN CeilDiv(Repeats(spec, b), repeats) ELSE 1
           kind(b) == spec[Min(b)].kind
           isState(b) == kind(b) = "mamba" \/ (floor = 0 /\ kind(b) = "sw")
           anchor == Max({Widest(spec, b, IF isState(b) THEN Cardinality(b) ELSE pattern(b)) :
                            b \in Range(B)})
           perBlock(b) == Larger(anchor \div Page(spec[Min(b)]), 1)
           count(b) == IF isState(b)
                       THEN Larger(pattern(b), CeilDiv(Cardinality(b), perBlock(b)))
                       ELSE pattern(b)
           split(b) == IF count(b) = 1 THEN <<TypeGroup(spec, InOrder(b))>>
                       ELSE Repeated(spec, b, count(b))
           seqs == [i \in DOMAIN B |-> split(B[i])]
<1>10. ASSUME NEW i \in DOMAIN B
       PROVE  /\ pattern(B[i]) \in 1..Repeats(spec, B[i])
              /\ pattern(B[i]) # 1 => Balanced(spec, B[i])
  <2>1. Repeats(spec, B[i]) \in Nat \ {0}
    BY <1>3
  <2>2. CASE floor > 0 /\ Balanced(spec, B[i])
    <3>1. CeilDiv(Repeats(spec, B[i]), repeats) \in 1..Repeats(spec, B[i])
      BY <1>9, <2>1, <2>2, CeilDivAtMost
    <3> QED
      BY <2>2, <3>1
  <2>3. CASE ~(floor > 0 /\ Balanced(spec, B[i]))
    BY <2>1, <2>3
  <2> QED
    BY <2>2, <2>3
<1>11. ASSUME NEW i \in DOMAIN B, isState(B[i])
       PROVE  Cardinality(PagesIn(spec, B[i])) = 1
  <2>1. B[i] \in Range(B)
    BY DEF Range
  <2>2. CASE kind(B[i]) = "mamba"
    BY <1>1, <2>1, <2>2 DEF EvenStates
  <2>3. CASE floor = 0 /\ kind(B[i]) = "sw"
    <3>1. i \in even
      BY <1>1, <1>4, <2>1, <2>3 DEF EvenStates
    <3>2. i \notin mixed
      <4> SUFFICES ASSUME i \in mixed PROVE FALSE
        OBVIOUS
      <4>1. Repeats(spec, B[i]) \in X
        BY <1>5
      <4>2. Repeats(spec, B[i]) \in Nat \ {0}
        BY <1>3
      <4> QED
        BY <1>7, <2>3, <4>1, <4>2
    <3>3. ~(Cardinality(PagesIn(spec, B[i])) > 1)
      BY <1>4, <3>1, <3>2
    <3>4. PICK P : P = PagesIn(spec, B[i])
      OBVIOUS
    <3>5. P # {} /\ IsFiniteSet(P)
      BY <1>3, <3>4, PagesInTyped
    <3>6. Cardinality(P) \in Nat \ {0}
      BY <3>5, FS_CardinalityType, FS_EmptySet
    <3> QED
      BY <3>3, <3>4, <3>6
  <2> QED
    BY <1>11, <2>2, <2>3
<1> HIDE DEF pattern
<1>12. anchor \in Nat \/ DOMAIN B = {}
  <2> SUFFICES ASSUME DOMAIN B # {} PROVE anchor \in Nat
    OBVIOUS
  <2>1. PICK f : f = [i \in DOMAIN B |-> Widest(spec, B[i], IF isState(B[i]) THEN Cardinality(B[i])
                                                            ELSE pattern(B[i]))]
    OBVIOUS
  <2>2. ASSUME NEW i \in DOMAIN B PROVE f[i] \in Nat
    <3>1. PICK b, n : b = B[i] /\ n = IF isState(B[i]) THEN Cardinality(B[i]) ELSE pattern(B[i])
      OBVIOUS
    <3>2. n \in Nat \ {0}
      <4>1. Cardinality(B[i]) \in Nat \ {0} /\ Repeats(spec, B[i]) \in Nat
        BY <1>3
      <4>2. pattern(B[i]) \in Nat \ {0}
        BY <1>10, <4>1
      <4> QED
        BY <3>1, <4>1, <4>2
    <3>3. Widest(spec, b, n) \in Nat
      BY <1>3, <3>1, <3>2, WidestTyped
    <3> QED
      BY <2>1, <3>1, <3>3
  <2>3. PICK Y : Y = Range(f)
    OBVIOUS
  <2>4. DOMAIN f = DOMAIN B
    BY <2>1
  <2>5. Y \in SUBSET Nat /\ Y \in SUBSET Int /\ Y # {} /\ IsFiniteSet(Y)
    BY <1>2, <2>2, <2>3, <2>4, FiniteRange DEF Range
  <2>6. Max(Y) \in Nat
    BY <2>5, MaxOf
  <2>7. Y = {Widest(spec, b, IF isState(b) THEN Cardinality(b) ELSE pattern(b)) : b \in Range(B)}
    BY <2>1, <2>3 DEF Range
  <2> QED
    BY <2>6, <2>7
<1> HIDE DEF anchor
<1>13. ASSUME NEW i \in DOMAIN B
       PROVE  /\ count(B[i]) \in 1..Repeats(spec, B[i])
              /\ count(B[i]) # 1 => Balanced(spec, B[i])
  <2>1. CASE ~isState(B[i])
    BY <1>10, <2>1
  <2>2. CASE isState(B[i])
    <3>1. Balanced(spec, B[i]) /\ Repeats(spec, B[i]) = Cardinality(B[i])
      BY <1>3, <1>11, <2>2
    <3>2. PICK p, m : p = perBlock(B[i]) /\ m = CeilDiv(Cardinality(B[i]), p)
      OBVIOUS
    <3>3. p \in Nat \ {0}
      <4>1. PICK x : x = Page(spec[Min(B[i])])
        OBVIOUS
      <4>2. x \in Nat \ {0}
        <5>1. Min(B[i]) \in B[i]
          BY <1>3, MinOf
        <5>2. spec[Min(B[i])] \in KvSpec
          BY <1>3, <5>1
        <5> QED
          BY <4>1, <5>2, PageTyped
      <4>3. PICK y : y = anchor \div x
        OBVIOUS
      <4>4. y \in Nat
        BY <1>12, <4>2, <4>3
      <4>5. p = Larger(y, 1)
        BY <3>2, <4>1, <4>3
      <4> QED
        BY <4>4, <4>5 DEF Larger
    <3>4. m \in 1..Repeats(spec, B[i])
      BY <1>3, <3>1, <3>2, <3>3, CeilDivAtMost
    <3>5. count(B[i]) = Larger(pattern(B[i]), m)
      BY <2>2, <3>2
    <3>6. count(B[i]) = pattern(B[i]) \/ count(B[i]) = m
      BY <3>5 DEF Larger
    <3> QED
      BY <1>10, <3>1, <3>4, <3>6
  <2> QED
    BY <2>1, <2>2
<1> HIDE DEF count
<1>14. ASSUME NEW i \in DOMAIN B PROVE split(B[i]) \in Seq(TypeGroups(D, spec)) /\ Parts(split(B[i]), B[i])
  <2>1. PICK b, n : b = B[i] /\ n = count(B[i])
    OBVIOUS
  <2>2. /\ b \in SUBSET D /\ b \in SUBSET Nat /\ IsFiniteSet(b) /\ b # {}
        /\ Cardinality(b) \in Nat \ {0} /\ UniformType(SpecsOf(spec, b))
    BY <1>3, <2>1
  <2>3. CASE n = 1
    <3>1. PICK s : s = InOrder(b)
      OBVIOUS
    <3>2. s \in Seq(b) /\ Len(s) = Cardinality(b) /\ ToSet(s) = b
      BY <2>2, <3>1, InOrderIsSeq
    <3>3. s \in Seq(D) /\ s # <<>>
      BY <2>2, <3>2, SeqFacts
    <3>4. TypeGroup(spec, s) \in TypeGroups(D, spec)
      BY <2>2, <3>2, <3>3, TypeGrouped
    <3>5. split(B[i]) = <<TypeGroup(spec, s)>>
      BY <2>1, <2>3, <3>1
    <3>6. PICK t, T : t = TypeGroup(spec, s) /\ T = TypeGroups(D, spec)
      OBVIOUS
    <3>7. <<t>> \in Seq(T)
      BY <3>4, <3>6
    <3>8. Parts(<<t>>, b)
      <4>1. t.layers = s
        BY <3>6 DEF TypeGroup, Group
      <4>2. EachOnce(s, b)
        BY <2>2, <3>1, InOrderOnce
      <4> QED
        BY <4>1, <4>2, OnePart
    <3> QED
      BY <2>1, <3>5, <3>6, <3>7, <3>8
  <2>4. CASE n # 1
    <3>1. n \in 1..Repeats(spec, b) /\ Balanced(spec, b)
      BY <1>13, <2>1, <2>4
    <3>2. Repeated(spec, b, n) \in Seq(TypeGroups(D, spec)) /\ Parts(Repeated(spec, b, n), b)
      BY <2>2, <3>1, RepeatedGrouped
    <3> QED
      BY <2>1, <2>4, <3>2
  <2> QED
    BY <2>3, <2>4
<1>15. PackedGroups(spec) = FlattenSeq(seqs)
  <2>1. PackedGroups(spec) = Packed(spec, B, floor, repeats)
    BY <1>1, <1>4, <1>5, <1>6, <1>8 DEF PackedGroups
  <2>2. Packed(spec, B, floor, repeats) = FlattenSeq(seqs)
    BY DEF Packed, Dealt, pattern, anchor, count
  <2> QED
    BY <2>1, <2>2
<1> HIDE DEF split
<1>16. seqs \in [1..Len(B) -> Seq(TypeGroups(D, spec))]
  BY <1>2, <1>14
<1>17. seqs \in Seq(Seq(TypeGroups(D, spec))) /\ Len(seqs) = Len(B)
  BY <1>2, <1>16
<1>18. \A i \in 1..Len(seqs) : Parts(seqs[i], B[i])
  BY <1>2, <1>14, <1>17
<1> HIDE DEF seqs
<1>21. Parts(FlattenSeq(seqs), D)
  BY <1>2, <1>17, <1>18, FlattenParts
<1> QED
  BY <1>15, <1>17, <1>21, FlattenIsSeq

-----------------------------------------------------------------------------
(* Recurrent layers next to MLA layers with indexers *)

\* A group of some layers is a group of more layers.
LEMMA GroupsWiden ==
  ASSUME NEW D, NEW T \in SUBSET D
  PROVE  /\ KvGroup(T) \subseteq KvGroup(D)
         /\ \A spec : MergeGroups(T, spec) \cup TypeGroups(T, spec) \subseteq KvGroup(D)
<1> SUFFICES ASSUME NEW g \in KvGroup(T) PROVE g \in KvGroup(D)
  BY DEF MergeGroups, TypeGroups
<1>1. PICK L, O, M, P : /\ L = Seq(T) /\ O = UNION {[S -> KvSpec] : S \in SUBSET T}
                        /\ M = Seq(D) /\ P = UNION {[S -> KvSpec] : S \in SUBSET D}
  OBVIOUS
<1>2. g \in [layers : L, of : O, eagle : BOOLEAN] /\ Grouped(g)
  BY <1>1 DEF KvGroup
<1>3. O \subseteq P
  BY <1>1
<1>4. L \subseteq M
  <2> SUFFICES ASSUME NEW s \in Seq(T) PROVE s \in Seq(D)
    BY <1>1
  <2> QED
    BY SeqFacts
<1>5. g \in [layers : M, of : P, eagle : BOOLEAN]
  BY <1>2, <1>3, <1>4
<1> QED
  BY <1>1, <1>2, <1>5 DEF KvGroup

\* No stage deals its recurrent layers out to more groups than it has of them.
LEMMA MambaCountTyped ==
  ASSUME NEW D \in SUBSET Nat, IsFiniteSet(D), NEW spec \in [D -> KvSpec],
         NEW stages, IsFiniteSet(stages), OfKind(spec, "mamba") # {},
         NEW n \in MambaGroupCount(spec, stages)
  PROVE  n \in 1..Cardinality(OfKind(spec, "mamba"))
<1>1. PICK M, A : M = OfKind(spec, "mamba") /\ A = Mlas(spec)
  OBVIOUS
<1>2. M \in SUBSET D /\ A \in SUBSET D /\ DOMAIN spec = D
  BY <1>1 DEF OfKind, Mlas
<1>3. IsFiniteSet(M) /\ IsFiniteSet(A) /\ Cardinality(M) \in Nat
  BY <1>2, FS_Subset, FS_CardinalityType
<1>4. PICK some : some = {S \in stages \cup {D} : S \cap M # {}}
  OBVIOUS
<1>5. D \in some /\ IsFiniteSet(some)
  <2>1. IsFiniteSet(stages \cup {D})
    BY FS_AddElement
  <2>2. some \in SUBSET (stages \cup {D})
    BY <1>4
  <2>3. PICK all : all = stages \cup {D}
    OBVIOUS
  <2>4. IsFiniteSet(some)
    BY <2>1, <2>2, <2>3, FS_Subset
  <2> QED
    BY <1>1, <1>2, <1>4, <2>4
<1>6. PICK f : f = [S \in some |-> CeilDiv(Cardinality(S \cap M), Cardinality(S \cap A))]
  OBVIOUS
<1>7. (\A S \in some : S \cap A # {}) /\ n = Max(Range(f))
  <2>1. Range(f) = {CeilDiv(Cardinality(S \cap M), Cardinality(S \cap A)) : S \in some}
    BY <1>6 DEF Range
  <2> QED
    BY <1>1, <1>2, <1>4, <2>1 DEF MambaGroupCount
<1>8. ASSUME NEW S \in some PROVE f[S] \in 1..Cardinality(M)
  <2>1. PICK x, y : x = S \cap M /\ y = S \cap A
    OBVIOUS
  <2>2. x \in SUBSET M /\ y \in SUBSET A /\ x # {} /\ y # {}
    BY <1>4, <1>7, <2>1
  <2>3. IsFiniteSet(x) /\ Cardinality(x) <= Cardinality(M) /\ IsFiniteSet(y)
    BY <1>3, <2>2, FS_Subset
  <2>4. Cardinality(x) \in Nat \ {0} /\ Cardinality(y) \in Nat \ {0}
    BY <2>2, <2>3, FS_CardinalityType, FS_EmptySet
  <2>5. CeilDiv(Cardinality(x), Cardinality(y)) \in 1..Cardinality(x)
    BY <2>4, CeilDivAtMost
  <2> QED
    BY <1>3, <1>6, <2>1, <2>3, <2>4, <2>5
<1>9. PICK X : X = Range(f)
  OBVIOUS
<1>10. DOMAIN f = some
  BY <1>6
<1>11. IsFiniteSet(X) /\ X # {}
  BY <1>5, <1>9, <1>10, FiniteRange
<1>12. X \in SUBSET (1..Cardinality(M))
  BY <1>8, <1>9, <1>10 DEF Range
<1>13. X \in SUBSET Int
  BY <1>12
<1>14. Max(X) \in X
  BY <1>11, <1>13, MaxOf
<1> QED
  BY <1>1, <1>7, <1>9, <1>12, <1>14

IsPadded(f, spec, S, p) == f = [l \in S |-> [spec[l] EXCEPT !.pad = p]]

\* Padding changes neither the type of specs nor whether they merge.
LEMMA PaddedTyped ==
  ASSUME NEW D, NEW spec \in [D -> KvSpec],
         NEW S \in SUBSET D, IsFiniteSet(S), NEW p \in Nat,
         NEW f, IsPadded(f, spec, S, p)
  PROVE  /\ f \in [S -> KvSpec]
         /\ UniformType(SpecsOf(spec, S)) => UniformType(SpecsOf(f, S))
         /\ \A l \in S : f[l].kind = spec[l].kind
         /\ Cardinality(SpecsOf(spec, S)) = 1 => \A l, m \in S : f[l] = f[m]
<1>1. ASSUME NEW l \in S PROVE [spec[l] EXCEPT !.pad = p] \in KvSpec
  <2>1. spec[l] \in KvSpec
    OBVIOUS
  <2>2. PICK n \in Nat \ {0} : TRUE
    OBVIOUS
  <2> QED
    BY <2>1, <2>2, SpecChanges
<1>2. f \in [S -> KvSpec] /\ \A l \in S : f[l] = [spec[l] EXCEPT !.pad = p]
  BY <1>1 DEF IsPadded
<1>3. ASSUME NEW l \in S
      PROVE  f[l].kind = spec[l].kind /\ f[l].bs = spec[l].bs /\ f[l].win = spec[l].win
  <2>1. spec[l] \in KvSpec
    OBVIOUS
  <2> QED
    BY <1>2, <2>1 DEF KvSpec
<1>4. ASSUME UniformType(SpecsOf(spec, S)) PROVE UniformType(SpecsOf(f, S))
  <2>1. ASSUME NEW l \in S, NEW m \in S
        PROVE  /\ f[l].bs = f[m].bs
               /\ \/ {f[l].kind, f[m].kind} \subseteq Attention
                  \/ f[l].kind = "sw" /\ f[m].kind = "sw" /\ f[l].win = f[m].win
                  \/ f[l].kind = f[m].kind /\ f[l].kind \in {"mamba", "tail"}
    BY <1>3, <1>4 DEF UniformType, SpecsOf
  <2> QED
    BY <2>1 DEF UniformType, SpecsOf
<1>5. ASSUME Cardinality(SpecsOf(spec, S)) = 1, NEW l \in S, NEW m \in S PROVE f[l] = f[m]
  <2>1. spec[l] \in SpecsOf(spec, S) /\ spec[m] \in SpecsOf(spec, S)
    BY DEF SpecsOf
  <2>2. IsFiniteSet(SpecsOf(spec, S))
    BY SpecsFinite
  <2>3. PICK y : SpecsOf(spec, S) = {y}
    BY <1>5, <2>2, FS_Singleton
  <2>4. spec[l] = spec[m]
    BY <2>1, <2>3
  <2> QED
    BY <1>2, <2>4
<1> QED
  BY <1>2, <1>3, <1>4, <1>5

\* The group of the MLA layers and indexers, one of tails with the pages of indexers, or
\* every n-th recurrent layer.
Glm5Part(g, spec, stages) ==
  \/ /\ ToSet(g.layers) = OfKind(spec, "mla")
     /\ DOMAIN g.of = OfKind(spec, "mla") /\ \A l \in DOMAIN g.of : g.of[l] = spec[l]
  \/ /\ Cardinality(PagesIn(spec, Indexers(spec))) = 1
     /\ \A l \in DOMAIN g.of :
           g.of[l].kind = "tail" /\ g.of[l].pad = Max(PagesIn(spec, Indexers(spec)))
  \/ /\ \A l \in DOMAIN g.of : g.of[l].kind = "mamba"
     /\ \E n \in MambaGroupCount(spec, stages) : \E i \in 1..n :
           g.layers = Stride(InOrder(OfKind(spec, "mamba")), i, n)
Glm5Parts(D, spec, stages) == {g \in KvGroup(D) : Glm5Part(g, spec, stages)}

\* The groups of a GLM-5 model, whose indexer pages trail the others, are groups.
LEMMA Glm5Grouped ==
  ASSUME NEW D \in SUBSET Nat, IsFiniteSet(D), NEW spec \in [D -> KvSpec], IsGlm5(spec),
         NEW stages, IsFiniteSet(stages), NEW groups \in Glm5Groups(spec, stages)
  PROVE  /\ groups \in Seq(Glm5Parts(D, spec, stages)) /\ Parts(groups, D)
         /\ Len(groups) > 1
<1>1. PICK attention, mambas, tails :
        /\ attention = OfKind(spec, "mla") /\ mambas = OfKind(spec, "mamba")
        /\ tails = OfKind(spec, "tail")
  OBVIOUS
<1>2. /\ attention \in SUBSET D /\ mambas \in SUBSET D /\ tails \in SUBSET D
      /\ Mlas(spec) \in SUBSET attention /\ Indexers(spec) \in SUBSET attention
      /\ mambas # {}
      /\ \A l \in attention : spec[l].kind = "mla"
      /\ \A l \in tails : spec[l].kind = "tail"
      /\ \A l \in mambas : spec[l].kind = "mamba"
      /\ attention \cup tails \cup mambas = D
      /\ attention \cap tails = {} /\ (attention \cup tails) \cap mambas = {}
  <2>1. \A l \in D : spec[l].kind \in {"mamba", "mla", "tail"}
    BY DEF IsGlm5, Range
  <2> QED
    BY <1>1, <2>1 DEF OfKind, Mlas, Indexers, IsGlm5
<1>3. /\ IsFiniteSet(attention) /\ IsFiniteSet(mambas) /\ IsFiniteSet(tails)
      /\ attention \in SUBSET Nat /\ mambas \in SUBSET Nat /\ tails \in SUBSET Nat
  <2>1. IsFiniteSet(attention) /\ IsFiniteSet(mambas) /\ IsFiniteSet(tails)
    BY <1>2, FS_Subset
  <2> QED
    BY <1>2, <2>1
<1> DEFINE padded(S, T) == [l \in S |-> [spec[l] EXCEPT !.pad = Max(PagesIn(spec, T))]]
           tailGroups == IF tails = {} THEN <<>>
                         ELSE <<TypeGroup(padded(tails, Indexers(spec)), InOrder(tails))>>
           mambaGroups(n) == [i \in 1..n |-> MergedGroup(padded(mambas, Mlas(spec)),
                                                         Stride(InOrder(mambas), i, n))]
<1>4. PICK n \in MambaGroupCount(spec, stages) :
        /\ groups = <<TypeGroup(spec, InOrder(attention))>> \o tailGroups \o mambaGroups(n)
        /\ \A S \in {Mlas(spec), Indexers(spec)} : Cardinality(PagesIn(spec, S)) = 1
        /\ UniformType(SpecsOf(spec, attention)) /\ UniformType(SpecsOf(spec, tails))
        /\ Cardinality(SpecsOf(spec, mambas)) = 1
  BY <1>1 DEF Glm5Groups
<1>5. ASSUME NEW S \in {Mlas(spec), Indexers(spec)}
      PROVE  S # {} /\ Max(PagesIn(spec, S)) \in Nat
  <2>1. PICK P : P = PagesIn(spec, S)
    OBVIOUS
  <2>2. Cardinality(P) = 1
    BY <1>4, <1>5, <2>1
  <2>3. S # {}
    <3> SUFFICES ASSUME S = {} PROVE FALSE
      OBVIOUS
    <3>1. P = {}
      BY <2>1 DEF PagesIn, SpecsOf
    <3> QED
      BY <2>2, <3>1, FS_EmptySet
  <2>4. S \in SUBSET attention /\ S \in SUBSET D
    BY <1>2, <1>5
  <2>5. IsFiniteSet(S)
    BY <1>3, <2>4, FS_Subset
  <2>6. P \in SUBSET (Nat \ {0}) /\ P # {} /\ IsFiniteSet(P)
    BY <2>1, <2>3, <2>4, <2>5, PagesInTyped
  <2>7. P \in SUBSET Int
    BY <2>6
  <2>8. Max(P) \in P
    BY <2>6, <2>7, MaxOf
  <2> QED
    BY <2>1, <2>3, <2>6, <2>8
<1>6. /\ <<TypeGroup(spec, InOrder(attention))>> \in Seq(Glm5Parts(D, spec, stages))
      /\ Parts(<<TypeGroup(spec, InOrder(attention))>>, attention)
  <2>1. PICK s : s = InOrder(attention)
    OBVIOUS
  <2>2. s \in Seq(attention) /\ Len(s) = Cardinality(attention) /\ ToSet(s) = attention
    BY <1>3, <2>1, InOrderIsSeq
  <2>3. attention # {}
    BY <1>2, <1>5
  <2>4. s \in Seq(attention) /\ s # <<>>
    BY <2>2, <2>3 DEF ToSet
  <2>5. PICK f : f = [l \in attention |-> spec[l]]
    OBVIOUS
  <2>6. f \in [attention -> KvSpec] /\ SameExtra(Range(f))
        /\ SpecsOf(f, attention) = SpecsOf(spec, attention)
    BY <1>2, <2>5 DEF SameExtra, Range, SpecsOf
  <2>7. TypeGroup(f, s) \in TypeGroups(attention, f)
    BY <1>3, <1>4, <2>2, <2>4, <2>6, TypeGrouped
  <2>8. TypeGroup(f, s) = TypeGroup(spec, s)
    BY <2>2, <2>5 DEF TypeGroup, Restrict
  <2>9. PICK t, T : t = TypeGroup(spec, s) /\ T = Glm5Parts(D, spec, stages)
    OBVIOUS
  <2>10. t \in T
    <3>1. t \in KvGroup(D)
      BY <1>2, <2>7, <2>8, <2>9, GroupsWiden
    <3>2. t.layers = s /\ t.of = f
      BY <2>2, <2>5, <2>8, <2>9 DEF TypeGroup, Group, Restrict
    <3>3. Glm5Part(t, spec, stages)
      BY <1>1, <2>2, <2>5, <3>2 DEF Glm5Part
    <3> QED
      BY <2>9, <3>1, <3>3 DEF Glm5Parts
  <2>11. <<t>> \in Seq(T)
    BY <2>10
  <2>12. Parts(<<t>>, attention)
    <3>1. t.layers = s
      BY <2>9 DEF TypeGroup, Group
    <3>2. EachOnce(s, attention)
      BY <1>3, <2>1, InOrderOnce
    <3> QED
      BY <3>1, <3>2, OnePart
  <2> QED
    BY <2>1, <2>9, <2>11, <2>12
<1>7. tailGroups \in Seq(Glm5Parts(D, spec, stages)) /\ Parts(tailGroups, tails)
  <2>1. CASE tails = {}
    <3>1. tailGroups = <<>>
      BY <2>1
    <3>2. Parts(<<>>, {})
      BY DEF Parts
    <3>3. <<>> \in Seq(Glm5Parts(D, spec, stages))
      BY EmptySeq
    <3> QED
      BY <2>1, <3>1, <3>2, <3>3
  <2>2. CASE tails # {}
    <3>1. PICK f : f = padded(tails, Indexers(spec))
      OBVIOUS
    <3>2. PICK p \in Nat : IsPadded(f, spec, tails, p) /\ p = Max(PagesIn(spec, Indexers(spec)))
      BY <1>5, <3>1 DEF IsPadded
    <3>3. /\ f \in [tails -> KvSpec] /\ UniformType(SpecsOf(f, tails))
          /\ \A l \in tails : f[l].kind = "tail"
      <4>1. /\ f \in [tails -> KvSpec]
            /\ UniformType(SpecsOf(spec, tails)) => UniformType(SpecsOf(f, tails))
            /\ \A l \in tails : f[l].kind = spec[l].kind
        BY <1>2, <1>3, <3>2, PaddedTyped
      <4> QED
        BY <1>2, <1>4, <4>1
    <3>4. SameExtra(Range(f))
      BY <3>3 DEF SameExtra, Range
    <3>5. PICK s : s = InOrder(tails)
      OBVIOUS
    <3>6. s \in Seq(tails) /\ ToSet(s) = tails
      BY <1>3, <3>5, InOrderIsSeq
    <3>7. s # <<>>
      BY <2>2, <3>6 DEF ToSet
    <3>8. TypeGroup(f, s) \in TypeGroups(tails, f)
      BY <1>3, <3>3, <3>4, <3>6, <3>7, TypeGrouped
    <3>9. PICK t, T : t = TypeGroup(f, s) /\ T = Glm5Parts(D, spec, stages)
      OBVIOUS
    <3>10. t \in T
      <4>1. t \in KvGroup(D)
        BY <1>2, <3>8, <3>9, GroupsWiden
      <4>2. t.layers = s /\ DOMAIN t.of = tails /\ \A l \in tails : t.of[l] = f[l]
        BY <3>6, <3>9 DEF TypeGroup, Group, Restrict
      <4>3. \A l \in tails : f[l].kind = "tail" /\ f[l].pad = p
        <5> SUFFICES ASSUME NEW l \in tails PROVE f[l].kind = "tail" /\ f[l].pad = p
          OBVIOUS
        <5>1. spec[l] \in KvSpec /\ f[l] = [spec[l] EXCEPT !.pad = p]
          BY <1>2, <3>2 DEF IsPadded
        <5>2. f[l].pad = p
          BY <5>1 DEF KvSpec
        <5> QED
          BY <3>3, <5>2
      <4>4. Glm5Part(t, spec, stages)
        BY <1>4, <3>2, <4>2, <4>3 DEF Glm5Part
      <4> QED
        BY <3>9, <4>1, <4>4 DEF Glm5Parts
    <3>11. <<t>> \in Seq(T)
      BY <3>10
    <3>12. Parts(<<t>>, tails)
      <4>1. t.layers = s
        BY <3>9 DEF TypeGroup, Group
      <4>2. EachOnce(s, tails)
        BY <1>3, <3>5, InOrderOnce
      <4> QED
        BY <4>1, <4>2, OnePart
    <3> QED
      BY <2>2, <3>1, <3>5, <3>9, <3>11, <3>12
  <2> QED
    BY <2>1, <2>2
<1>8. /\ mambaGroups(n) \in Seq(Glm5Parts(D, spec, stages)) /\ Parts(mambaGroups(n), mambas)
      /\ Len(mambaGroups(n)) > 0
  <2>1. n \in 1..Cardinality(mambas) /\ Cardinality(mambas) \in Nat
    BY <1>1, <1>2, <1>3, MambaCountTyped, FS_CardinalityType
  <2>2. PICK f : f = padded(mambas, Mlas(spec))
    OBVIOUS
  <2>3. PICK p \in Nat : IsPadded(f, spec, mambas, p)
    BY <1>5, <2>2 DEF IsPadded
  <2>4. f \in [mambas -> KvSpec] /\ \A l, m \in mambas : f[l] = f[m]
    <3>1. Cardinality(SpecsOf(spec, mambas)) = 1
      BY <1>4
    <3>2. /\ f \in [mambas -> KvSpec]
          /\ Cardinality(SpecsOf(spec, mambas)) = 1 => \A l, m \in mambas : f[l] = f[m]
      BY <1>2, <1>3, <2>3, PaddedTyped
    <3> QED
      BY <3>1, <3>2
  <2>13. \A l \in mambas : f[l].kind = "mamba"
    <3>1. \A l \in mambas : f[l].kind = spec[l].kind
      BY <1>2, <1>3, <2>3, PaddedTyped
    <3> QED
      BY <1>2, <3>1
  <2>5. Mergeable(SpecsOf(f, mambas))
    BY <2>4 DEF Mergeable, SpecsOf
  <2>6. PICK s : s = InOrder(mambas)
    OBVIOUS
  <2>7. s \in Seq(mambas) /\ Len(s) = Cardinality(mambas) /\ ToSet(s) = mambas
    BY <1>3, <2>6, InOrderIsSeq
  <2>8. n \in Nat \ {0} /\ n <= Len(s)
    BY <2>1, <2>7
  <2>9. \A i \in 1..n : MergedGroup(f, Stride(s, i, n)) \in MergeGroups(mambas, f)
    <3> TAKE i \in 1..n
    <3>1. PICK b : b = mambas
      OBVIOUS
    <3>2. b \in SUBSET mambas /\ Mergeable(SpecsOf(f, b)) /\ s \in Seq(b)
          /\ ToSet(s) \in SUBSET b
      BY <2>5, <2>7, <3>1
    <3> QED
      BY <1>3, <2>4, <2>8, <3>2, StridesMerge
  <2>10. \A i \in 1..n : MergedGroup(f, Stride(s, i, n)) \in KvGroup(D)
    BY <1>2, <2>9, GroupsWiden
  <2>11. mambaGroups(n) = [i \in 1..n |-> MergedGroup(f, Stride(s, i, n))]
    BY <2>2, <2>6
  <2>12. \A i \in 1..n : MergedGroup(f, Stride(s, i, n)) \in Glm5Parts(D, spec, stages)
    <3> TAKE i \in 1..n
    <3>1. PICK t : t = MergedGroup(f, Stride(s, i, n))
      OBVIOUS
    <3>2. t.layers = Stride(s, i, n)
      BY <3>1 DEF MergedGroup, Group
    <3>3. Range(t.of) \subseteq Range(f)
      BY <2>9, <3>1 DEF MergeGroups
    <3>4. \A x \in Range(f) : x.kind = "mamba"
      BY <1>2, <2>4, <2>13 DEF Range
    <3>5. \A l \in DOMAIN t.of : t.of[l].kind = "mamba"
      BY <3>3, <3>4 DEF Range
    <3>6. Glm5Part(t, spec, stages)
      BY <1>1, <1>4, <2>6, <3>2, <3>5 DEF Glm5Part
    <3> QED
      BY <2>10, <3>1, <3>6 DEF Glm5Parts
  <2>14. PICK h : h = mambaGroups(n)
    OBVIOUS
  <2>15. DOMAIN h = 1..n /\ \A i \in 1..n : h[i].layers = Stride(s, i, n)
    BY <2>11, <2>14 DEF MergedGroup, Group
  <2>16. h \in [1..n -> Glm5Parts(D, spec, stages)]
    BY <2>11, <2>12, <2>14
  <2> HIDE DEF mambaGroups
  <2>17. Parts(h, mambas)
    <3>1. EachOnce(s, mambas)
      BY <1>3, <2>6, InOrderOnce
    <3> QED
      BY <2>8, <2>15, <3>1, StridesPart
  <2>18. Len(h) = n
    BY <2>8, <2>16
  <2> QED
    BY <2>8, <2>14, <2>16, <2>17, <2>18
<1> HIDE DEF tailGroups, mambaGroups
<1>9. PICK T, a, b, c : /\ T = Glm5Parts(D, spec, stages) /\ a = <<TypeGroup(spec, InOrder(attention))>>
                        /\ b = tailGroups /\ c = mambaGroups(n)
  OBVIOUS
<1>10. a \in Seq(T) /\ b \in Seq(T) /\ c \in Seq(T)
  BY <1>6, <1>7, <1>8, <1>9
<1>11. a \o b \in Seq(T) /\ a \o b \o c \in Seq(T)
  BY <1>10, ConcatProperties
<1>12. Parts(a \o b, attention \cup tails)
  BY <1>2, <1>6, <1>7, <1>9, <1>10, PartsConcat
<1>13. Parts(a \o b \o c, D)
  <2>1. PICK d : d = a \o b
    OBVIOUS
  <2>2. Parts(d \o c, (attention \cup tails) \cup mambas)
    BY <1>2, <1>8, <1>9, <1>10, <1>11, <1>12, <2>1, PartsConcat
  <2> QED
    BY <1>2, <2>1, <2>2
<1>14. Len(a \o b \o c) > 1
  <2>1. Len(a) = 1 /\ Len(b) \in Nat /\ Len(c) \in Nat /\ Len(c) > 0
    BY <1>8, <1>9, <1>10, SeqFacts
  <2>2. Len(a \o b) = Len(a) + Len(b) /\ Len(a \o b \o c) = Len(a \o b) + Len(c)
    BY <1>10, <1>11, ConcatProperties
  <2> QED
    BY <2>1, <2>2
<1> QED
  BY <1>4, <1>9, <1>11, <1>13, <1>14

-----------------------------------------------------------------------------
(* The groups of a model *)

\* Promotion leaves specs that merge or are of one type, and windows as they were or none.
LEMMA PromotedTyped ==
  ASSUME NEW D, IsFiniteSet(D), NEW spec \in [D -> KvSpec], SameExtra(Range(spec)),
         NEW p \in promote(spec)
  PROVE  /\ p \in [D -> KvSpec] /\ SameExtra(Range(p))
         /\ Mergeable(Range(p)) \/ UniformType(Range(p))
         /\ \A c : EngineBlock(c, spec) => EngineBlock(c, p)
<1>1. PICK S : S = Range(spec)
  OBVIOUS
<1>2. PICK full : full = {s.bs : s \in {t \in S : t.kind \in Attention}}
  OBVIOUS
<1> DEFINE bs(s) == IF Cardinality(full) = 1 THEN Max(full) ELSE s.bs
           promoted(s) == [s EXCEPT !.kind = "full", !.extra = 0, !.bs = bs(s),
                                    !.pad = IF @ = 0 THEN 0 ELSE Larger(@, s.unit * bs(s))]
           all == [l \in DOMAIN spec |-> IF spec[l].kind = "sw" THEN promoted(spec[l])
                                         ELSE spec[l]]
<1>3. DOMAIN spec = D /\ S \subseteq KvSpec
  BY <1>1 DEF Range
<1>4. Cardinality(full) = 1 => Max(full) \in Nat \ {0}
  <2> SUFFICES ASSUME Cardinality(full) = 1 PROVE Max(full) \in Nat \ {0}
    OBVIOUS
  <2>1. PICK X : X = {t \in S : t.kind \in Attention}
    OBVIOUS
  <2>2. PICK f : f = [t \in X |-> t.bs]
    OBVIOUS
  <2>3. IsFiniteSet(X)
    <3>1. IsFiniteSet(S)
      BY <1>1, <1>3, FiniteRange
    <3>2. X \in SUBSET S
      BY <2>1
    <3> QED
      BY <3>1, <3>2, FS_Subset
  <2>4. DOMAIN f = X /\ Range(f) = full
    BY <1>2, <2>1, <2>2 DEF Range
  <2>5. IsFiniteSet(full)
    BY <2>3, <2>4, FiniteRange
  <2>6. full # {}
    <3> SUFFICES ASSUME full = {} PROVE FALSE
      OBVIOUS
    <3> QED
      BY FS_EmptySet
  <2>7. full \in SUBSET (Nat \ {0})
    BY <1>2, <1>3 DEF KvSpec
  <2>8. full \in SUBSET Int
    BY <2>7
  <2>9. Max(full) \in full
    BY <2>5, <2>6, <2>8, MaxOf
  <2> QED
    BY <2>7, <2>9
<1>5. ASSUME NEW s \in KvSpec PROVE promoted(s) \in KvSpec /\ promoted(s).kind = "full"
  <2>1. s.bs \in Nat \ {0} /\ s.unit \in Nat \ {0} /\ s.pad \in Nat
    BY DEF KvSpec
  <2>2. PICK n : n = bs(s)
    OBVIOUS
  <2>3. n \in Nat \ {0}
    BY <1>4, <2>1, <2>2
  <2>4. PICK q : q = IF s.pad = 0 THEN 0 ELSE Larger(s.pad, s.unit * n)
    OBVIOUS
  <2>5. q \in Nat
    <3>1. s.unit * n \in Nat
      BY <2>1, <2>3
    <3> QED
      BY <2>1, <2>4, <3>1 DEF Larger
  <2>6. promoted(s) = [s EXCEPT !.kind = "full", !.extra = 0, !.bs = n, !.pad = q]
    BY <2>2, <2>4
  <2>7. PICK r : r = [s EXCEPT !.kind = "full", !.extra = 0, !.bs = n, !.pad = q]
    OBVIOUS
  <2>8. PICK P : P = Nat \ {0}
    OBVIOUS
  <2>9. s \in [kind : {"full", "mla", "sw", "mamba", "tail"}, bs : P, unit : P,
               pad : Nat, win : Nat, extra : Nat, align : Nat, tps : P]
    BY <2>8 DEF KvSpec
  <2>10. r.kind = "full"
    BY <2>7, <2>9
  <2>11. n \in P /\ 0 \in Nat /\ q \in Nat
    BY <2>3, <2>5, <2>8
  <2>12. r \in [kind : {"full", "mla", "sw", "mamba", "tail"}, bs : P, unit : P,
               pad : Nat, win : Nat, extra : Nat, align : Nat, tps : P]
    BY <2>7, <2>9, <2>11
  <2>13. r \in KvSpec
    BY <2>8, <2>10, <2>12 DEF KvSpec
  <2> HIDE DEF promoted
  <2> QED
    BY <2>6, <2>7, <2>10, <2>13
<1>6. all \in [D -> KvSpec] /\ \A l \in D : all[l].kind # "sw"
  <2>1. ASSUME NEW l \in D PROVE all[l] \in KvSpec /\ all[l].kind # "sw"
    <3>1. spec[l] \in KvSpec
      OBVIOUS
    <3>2. CASE spec[l].kind = "sw"
      <4>1. all[l] = promoted(spec[l])
        BY <1>3, <3>2
      <4> HIDE DEF promoted, all
      <4>2. all[l].kind = "full"
        BY <1>5, <3>1, <4>1
      <4> QED
        BY <1>5, <3>1, <4>1, <4>2
    <3>3. CASE spec[l].kind # "sw"
      BY <1>3, <3>1, <3>3
    <3> QED
      BY <3>2, <3>3
  <2>2. DOMAIN all = D /\ all = [l \in D |-> all[l]]
    BY <1>3
  <2> HIDE DEF all
  <2> QED
    BY <2>1, <2>2
<1>7. SameExtra(Range(all))
  <2> HIDE DEF all
  <2> QED
    BY <1>6 DEF SameExtra, Range
<1>8. /\ p = spec \/ (p = all /\ full # {})
      /\ Mergeable(Range(p)) \/ UniformType(Range(p))
  BY <1>1, <1>2 DEF promote
<1>9. ASSUME NEW c, EngineBlock(c, spec), p = all, full # {} PROVE EngineBlock(c, p)
  <2>1. full = {c.block}
    BY <1>1, <1>2, <1>9 DEF EngineBlock
  <2>2. Cardinality(full) = 1 /\ Max(full) = c.block
    <3>1. PICK b : b = c.block
      OBVIOUS
    <3>2. Cardinality({b}) = 1
      BY FS_Singleton
    <3>3. full \in SUBSET Int /\ IsFiniteSet(full)
      <4>1. full \in SUBSET Int
        BY <1>2, <1>3 DEF KvSpec
      <4> QED
        BY <2>1, <3>1, <4>1, FS_Singleton
    <3>4. Max(full) \in full
      BY <1>9, <3>3, MaxOf
    <3> QED
      BY <2>1, <3>1, <3>2, <3>4
  <2>3. ASSUME NEW l \in D PROVE p[l].kind \in Attention => p[l].bs = c.block
    <3>1. spec[l] \in KvSpec
      OBVIOUS
    <3>2. CASE spec[l].kind = "sw"
      <4>1. p[l] = promoted(spec[l])
        BY <1>3, <1>9, <3>2
      <4>2. p[l] = [spec[l] EXCEPT !.kind = "full", !.extra = 0, !.bs = c.block,
                      !.pad = IF @ = 0 THEN 0 ELSE Larger(@, spec[l].unit * c.block)]
        BY <2>2, <4>1
      <4> HIDE DEF promoted, all
      <4> QED
        BY <3>1, <4>2 DEF KvSpec
    <3>3. CASE spec[l].kind # "sw"
      <4>1. p[l] = spec[l]
        BY <1>3, <1>9, <3>3
      <4>2. spec[l] \in Range(spec)
        BY <1>3 DEF Range
      <4> HIDE DEF all
      <4> QED
        BY <1>9, <4>1, <4>2 DEF EngineBlock
    <3> QED
      BY <3>2, <3>3
  <2>4. \E s \in Range(p) : s.kind \in Attention
    <3>1. PICK l \in D : spec[l].kind \in Attention
      BY <1>1, <1>2, <1>3, <1>9 DEF Range
    <3>2. p[l] = spec[l]
      BY <1>3, <1>9, <3>1 DEF Attention
    <3> HIDE DEF all
    <3> QED
      BY <1>6, <1>9, <3>1, <3>2 DEF Range
  <2> HIDE DEF all
  <2> QED
    BY <1>6, <1>9, <2>3, <2>4 DEF EngineBlock, Range
<1> HIDE DEF all
<1> QED
  BY <1>6, <1>7, <1>8, <1>9

\* A list of groups, each with a spec for each of its layers.
WellGrouped(groups) ==
  \E n \in Nat : groups = [i \in 1..n |-> groups[i]] /\ \A i \in 1..n : Grouped(groups[i])

\* A list of groups is well grouped.
LEMMA SeqWellGrouped ==
  ASSUME NEW D, NEW groups \in Seq(KvGroup(D))
  PROVE  WellGrouped(groups)
<1>1. /\ DOMAIN groups = 1..Len(groups) /\ Len(groups) \in Nat
      /\ \A i \in DOMAIN groups : groups[i] \in KvGroup(D)
  BY SeqFacts
<1>2. PICK T : T = KvGroup(D)
  OBVIOUS
<1>3. groups = [i \in 1..Len(groups) |-> groups[i]]
  BY <1>2
<1> QED
  BY <1>1, <1>3 DEF WellGrouped, KvGroup

\* Marking the group of the draft layer changes no group's layers or specs.
LEMMA AnnotatedWell ==
  ASSUME NEW D, IsFiniteSet(D), NEW cfg1, NEW spec, DOMAIN spec = D,
         NEW groups \in Seq(KvGroup(D)), Parts(groups, D),
         NEW h, h = Annotate(cfg1, spec, groups)
  PROVE  /\ WellGrouped(h) /\ Parts(h, D) /\ DOMAIN h = DOMAIN groups
         /\ \A i \in DOMAIN h :
              /\ h[i].of = groups[i].of /\ h[i].layers = groups[i].layers
              /\ cfg1.mtp => h[i].eagle = (Max(D) \in ToSet(groups[i].layers))
<1>0. PICK n : n = Len(groups)
  OBVIOUS
<1>1. /\ DOMAIN groups = 1..n /\ n \in Nat
      /\ \A i \in 1..n : groups[i] \in KvGroup(D)
  BY <1>0, SeqFacts
<1>2. Partitions(groups, spec)
  BY PartsPartition
<1>3. CASE ~cfg1.mtp
  <2>1. h = groups
    BY <1>3 DEF Annotate
  <2>2. WellGrouped(groups)
    BY SeqWellGrouped
  <2> QED
    BY <1>3, <2>1, <2>2
<1>4. CASE cfg1.mtp
  <2>1. h = [i \in DOMAIN groups |->
               [groups[i] EXCEPT !.eagle = Max(DOMAIN spec) \in ToSet(groups[i].layers)]]
    BY <1>2, <1>4 DEF Annotate
  <2>2. ASSUME NEW i \in 1..n
        PROVE  /\ Grouped(h[i]) /\ h[i].of = groups[i].of /\ h[i].layers = groups[i].layers
               /\ h[i].eagle = (Max(D) \in ToSet(groups[i].layers))
    <3>1. PICK g, L, O : /\ g = groups[i] /\ L = Seq(D)
                         /\ O = UNION {[S -> KvSpec] : S \in SUBSET D}
      OBVIOUS
    <3>2. g \in [layers : L, of : O, eagle : BOOLEAN] /\ Grouped(g)
      BY <1>1, <3>1 DEF KvGroup
    <3>3. PICK e : e = (Max(D) \in ToSet(groups[i].layers))
      OBVIOUS
    <3>4. h[i] = [g EXCEPT !.eagle = e]
      BY <1>1, <2>1, <3>1, <3>3
    <3>5. h[i].of = g.of /\ h[i].layers = g.layers /\ h[i].eagle = e
      BY <3>2, <3>4
    <3> QED
      BY <3>1, <3>2, <3>3, <3>5 DEF Grouped, FormedGroup
  <2>3. DOMAIN h = 1..n /\ h = [i \in 1..n |-> h[i]]
    BY <1>1, <2>1
  <2>4. WellGrouped(h)
    BY <1>1, <2>2, <2>3 DEF WellGrouped
  <2>5. Parts(h, D)
    <3>1. \A i \in 1..n : h[i].layers = groups[i].layers
      BY <2>2
    <3>2. {ToSet(h[i].layers) : i \in 1..n} = {ToSet(groups[i].layers) : i \in 1..n}
      BY <3>1
    <3> QED
      BY <1>1, <2>3, <3>1, <3>2 DEF Parts
  <2> QED
    BY <1>1, <2>2, <2>3, <2>4, <2>5
<1> QED
  BY <1>3, <1>4

\* Layers that merge or are of one type have blocks of one size, that of the engine.
LEMMA OneTypeOneBlock ==
  ASSUME NEW D, NEW spec \in [D -> KvSpec], Mergeable(Range(spec)) \/ UniformType(Range(spec)),
         NEW c, EngineBlock(c, spec)
  PROVE  \A s \in Range(spec) : s.bs = c.block
<1>1. PICK S : S = Range(spec) /\ S \in SUBSET KvSpec
  BY DEF Range
<1>2. \A s, t \in S : s.bs = t.bs
  <2>1. CASE Mergeable(S)
    BY <1>1, <2>1 DEF Mergeable, KvSpec
  <2>2. CASE UniformType(S)
    BY <2>2 DEF UniformType
  <2> QED
    BY <1>1, <2>1, <2>2
<1> QED
  BY <1>1, <1>2 DEF EngineBlock

\* All the groups have the block size of an engine that has but one.
OwnBlock(groups, c) == \A i \in DOMAIN groups : \A s \in Range(groups[i].of) : s.bs = c.block

\* All layers in one group.
LEMMA WholeGrouped ==
  ASSUME NEW D \in SUBSET Nat, IsFiniteSet(D), D # {}, NEW spec \in [D -> KvSpec],
         SameExtra(Range(spec)),
         NEW g, \/ Mergeable(Range(spec)) /\ g = MergedGroup(spec, InOrder(DOMAIN spec))
                \/ UniformType(Range(spec)) /\ g = TypeGroup(spec, InOrder(DOMAIN spec))
  PROVE  /\ WellGrouped(<<g>>) /\ Parts(<<g>>, D) /\ Len(<<g>>) = 1
         /\ \A c : EngineBlock(c, spec) => OwnBlock(<<g>>, c)
<1>1. PICK s : s = InOrder(D)
  OBVIOUS
<1>2. s \in Seq(D) /\ ToSet(s) = D
  BY <1>1, InOrderIsSeq
<1>3. s # <<>>
  BY <1>2 DEF ToSet
<1>4. SpecsOf(spec, ToSet(s)) = Range(spec) /\ DOMAIN spec = D
  BY <1>2 DEF SpecsOf, Range
<1>5. g \in MergeGroups(D, spec) \/ g \in TypeGroups(D, spec)
  BY <1>1, <1>2, <1>3, <1>4, MergedGrouped, TypeGrouped
<1>6. g \in KvGroup(D) /\ Range(g.of) \subseteq Range(spec) /\ g.layers = s
  BY <1>1, <1>4, <1>5 DEF MergeGroups, TypeGroups, MergedGroup, TypeGroup, Group
<1>7. WellGrouped(<<g>>)
  <2>1. PICK T : T = KvGroup(D)
    OBVIOUS
  <2>2. <<g>> \in Seq(T)
    BY <1>6, <2>1
  <2> QED
    BY <2>1, <2>2, SeqWellGrouped
<1>8. Parts(<<g>>, D)
  BY <1>1, <1>6, InOrderOnce, OnePart
<1>9. ASSUME NEW c, EngineBlock(c, spec) PROVE OwnBlock(<<g>>, c)
  <2>1. \A t \in Range(g.of) : t.bs = c.block
    BY <1>6, <1>9, OneTypeOneBlock
  <2>2. DOMAIN <<g>> = {1} /\ <<g>>[1] = g
    OBVIOUS
  <2> QED
    BY <2>1, <2>2 DEF OwnBlock
<1> QED
  BY <1>7, <1>8, <1>9

\* The shapes groups have, whichever way the layers are grouped: one group of the engine's
\* block size; those of a GLM-5 model; or those of a model whose draft layer is known.
Shaped(groups, c, D, spec, stages) ==
  \/ Len(groups) <= 1 /\ (EngineBlock(c, spec) => OwnBlock(groups, c))
  \/ Len(groups) > 1 /\ c.hybrid /\ IsGlm5(spec) /\ groups \in Seq(Glm5Parts(D, spec, stages))
  \/ /\ Len(groups) > 1 /\ c.hybrid /\ ~IsGlm5(spec)
     /\ \A i \in DOMAIN groups :
          /\ \A s \in Range(groups[i].of) : \E t \in Range(spec) : s.kind = t.kind /\ s.tps = t.tps
          /\ c.mtp => groups[i].eagle = (Max(D) \in ToSet(groups[i].layers))

\* The group of the fallback to full attention.
LEMMA FallbackWell ==
  ASSUME NEW D \in SUBSET Nat, IsFiniteSet(D), D # {}, NEW spec \in [D -> KvSpec],
         SameExtra(Range(spec)), NEW groups \in Fallback(spec)
  PROVE  /\ WellGrouped(groups) /\ Parts(groups, D) /\ Len(groups) = 1
         /\ \A c : EngineBlock(c, spec) => OwnBlock(groups, c)
<1>1. PICK p \in promote(spec) : /\ UniformType(Range(p))
                                 /\ groups = <<TypeGroup(p, InOrder(DOMAIN p))>>
  BY DEF Fallback
<1>2. /\ p \in [D -> KvSpec] /\ SameExtra(Range(p))
      /\ \A c : EngineBlock(c, spec) => EngineBlock(c, p)
  BY PromotedTyped
<1>3. PICK g : g = TypeGroup(p, InOrder(DOMAIN p))
  OBVIOUS
<1>4. /\ WellGrouped(<<g>>) /\ Parts(<<g>>, D) /\ Len(<<g>>) = 1
      /\ \A c : EngineBlock(c, p) => OwnBlock(<<g>>, c)
  BY <1>1, <1>2, <1>3, WholeGrouped
<1> QED
  BY <1>1, <1>2, <1>3, <1>4

\* Layers of mixed specs that have one size of page when unified are not merged into one.
LEMMA UnifiedMixed ==
  ASSUME NEW D, IsFiniteSet(D), D # {}, NEW spec \in [D -> KvSpec],
         ~UniformType(Range(spec)), NEW c, EngineBlock(c, spec)
  PROVE  ~Mergeable(Range(unify_kv_cache_spec_page_size(spec)))
<1> SUFFICES ASSUME Mergeable(Range(unify_kv_cache_spec_page_size(spec))) PROVE FALSE
  OBVIOUS
<1>1. PICK u : u = unify_kv_cache_spec_page_size(spec)
  OBVIOUS
<1>2. /\ u \in [D -> KvSpec]
      /\ \A l \in D : u[l].kind = spec[l].kind /\ u[l].win = spec[l].win
  BY <1>1, UnifiedTyped DEF SameKinds
<1>3. Mergeable(Range(u))
  BY <1>1
<1>4. ASSUME NEW l \in D, NEW m \in D
      PROVE  /\ spec[l].kind = spec[m].kind
             /\ spec[l].kind = "full" \/ spec[l].win = spec[m].win
  <2>1. u[l] \in Range(u) /\ u[m] \in Range(u) /\ u[l] \in KvSpec /\ u[m] \in KvSpec
    BY <1>2 DEF Range
  <2>2. u[l] = u[m] \/ (u[l].kind = "full" /\ u[m].kind = "full")
    BY <1>3, <2>1 DEF Mergeable, KvSpec
  <2> QED
    BY <1>2, <2>2
<1>5. \A l \in D : spec[l].bs = c.block
  <2> TAKE l \in D
  <2>1. \A t \in Range(spec) : t.kind = spec[l].kind
    BY <1>4 DEF Range
  <2>2. spec[l] \in Range(spec)
    BY DEF Range
  <2> QED
    BY <2>1, <2>2 DEF EngineBlock
<1>6. ASSUME NEW l \in D, NEW m \in D
      PROVE  /\ spec[l].bs = spec[m].bs
             /\ \/ {spec[l].kind, spec[m].kind} \subseteq Attention
                \/ spec[l].kind = "sw" /\ spec[m].kind = "sw" /\ spec[l].win = spec[m].win
                \/ spec[l].kind = spec[m].kind /\ spec[l].kind \in {"mamba", "tail"}
  <2>1. spec[l].kind \in {"full", "mla", "sw", "mamba", "tail"}
    BY DEF KvSpec
  <2> QED
    BY <1>4, <1>5, <2>1 DEF Attention
<1> QED
  BY <1>6 DEF UniformType, Range

\* The kinds of layers of groups are those of the model.
Known(groups, spec) ==
  \A i \in DOMAIN groups : \A s \in Range(groups[i].of) :
    \E t \in Range(spec) : s.kind = t.kind /\ s.tps = t.tps

\* Groups of a model that is no GLM-5 one, once its draft layer is marked, have their shape.
LEMMA AnnotatedShaped ==
  ASSUME NEW D, IsFiniteSet(D), NEW spec \in [D -> KvSpec], NEW c, c.hybrid, NEW stages,
         ~IsGlm5(spec), NEW q \in Seq(KvGroup(D)), Parts(q, D), Known(q, spec),
         Len(q) = 1 /\ EngineBlock(c, spec) => OwnBlock(q, c),
         NEW groups, groups = Annotate(c, spec, q)
  PROVE  WellGrouped(groups) /\ Parts(groups, D) /\ Shaped(groups, c, D, spec, stages)
<1>1. /\ WellGrouped(groups) /\ Parts(groups, D) /\ DOMAIN groups = DOMAIN q
      /\ \A i \in DOMAIN groups :
           /\ groups[i].of = q[i].of /\ groups[i].layers = q[i].layers
           /\ c.mtp => groups[i].eagle = (Max(D) \in ToSet(q[i].layers))
  <2>1. DOMAIN spec = D
    OBVIOUS
  <2> QED
    BY <2>1, AnnotatedWell
<1>2. PICK n \in Nat : groups = [i \in 1..n |-> groups[i]]
  BY <1>1 DEF WellGrouped
<1>3. DOMAIN groups = 1..n /\ Len(groups) = n
  <2>1. PICK f : f = [i \in 1..n |-> groups[i]]
    OBVIOUS
  <2>2. DOMAIN f = 1..n /\ Len(f) = n
    BY <2>1
  <2> QED
    BY <1>2, <2>1, <2>2
<1>4. PICK m \in Nat : DOMAIN q = 1..m /\ m = Len(q)
  BY SeqFacts
<1>5. n = m
  <2>1. 1..n = 1..m
    BY <1>1, <1>3, <1>4
  <2>2. \A a, b \in Nat : 1..a = 1..b => a <= b
    <3> SUFFICES ASSUME NEW a \in Nat, NEW b \in Nat, 1..a = 1..b, ~(a <= b) PROVE FALSE
      OBVIOUS
    <3>1. a \in 1..a /\ ~(a \in 1..b)
      OBVIOUS
    <3> QED
      BY <3>1
  <2>3. n <= m /\ m <= n
    BY <2>1, <2>2
  <2> QED
    BY <2>3
<1>6. CASE n > 1
  <2>1. Known(groups, spec)
    BY <1>1 DEF Known
  <2> QED
    BY <1>1, <1>3, <1>6, <2>1 DEF Shaped, Known
<1>7. CASE n = 0
  BY <1>1, <1>3, <1>7 DEF Shaped, OwnBlock
<1>8. CASE n = 1
  <2>1. EngineBlock(c, spec) => OwnBlock(groups, c)
    BY <1>1, <1>4, <1>5, <1>8 DEF OwnBlock
  <2> QED
    BY <1>1, <1>3, <1>8, <2>1 DEF Shaped
<1> QED
  BY <1>6, <1>7, <1>8

\* The groups of layers that are neither merged nor of one type.
MixedGroups(c, spec, stages) ==
  IF IsGlm5(spec) THEN Glm5Groups(spec, stages)
  ELSE IF c.layout = "block" /\ Cardinality(PageSizes(spec)) > 1
       THEN {Annotate(c, spec, PackedGroups(spec))}
  ELSE IF Stops(spec) = {}
       THEN {Annotate(c, spec, UniformPageGroups(unify_kv_cache_spec_page_size(spec)))}
  ELSE IF Unsupported(spec[Min(Stops(spec))], Max(PageSizes(spec)))
       THEN Fallback(spec) ELSE {}

\* So have the groups of mixed layers.
LEMMA MixedWell ==
  ASSUME NEW D \in SUBSET Nat, IsFiniteSet(D), D # {}, NEW spec \in [D -> KvSpec],
         SameExtra(Range(spec)), NEW stages, IsFiniteSet(stages),
         ~Mergeable(Range(spec)), ~UniformType(Range(spec)),
         NEW c, c.hybrid, c.layout = "block" => EvenStates(spec),
         NEW groups \in MixedGroups(c, spec, stages)
  PROVE  WellGrouped(groups) /\ Parts(groups, D) /\ Shaped(groups, c, D, spec, stages)
<1>1. CASE IsGlm5(spec)
  <2>1. groups \in Glm5Groups(spec, stages)
    BY <1>1 DEF MixedGroups
  <2>2. /\ groups \in Seq(Glm5Parts(D, spec, stages)) /\ Parts(groups, D)
        /\ Len(groups) > 1
    BY <1>1, <2>1, Glm5Grouped
  <2>3. groups \in Seq(KvGroup(D))
    <3>1. Glm5Parts(D, spec, stages) \subseteq KvGroup(D)
      BY DEF Glm5Parts
    <3> QED
      BY <2>2, <3>1, SeqFacts
  <2> QED
    BY <1>1, <2>2, <2>3, SeqWellGrouped DEF Shaped
<1>2. CASE ~IsGlm5(spec) /\ c.layout = "block" /\ Cardinality(PageSizes(spec)) > 1
  <2>1. PICK q : q = PackedGroups(spec)
    OBVIOUS
  <2>2. groups = Annotate(c, spec, q)
    BY <1>2, <2>1 DEF MixedGroups
  <2>3. q \in Seq(TypeGroups(D, spec)) /\ Parts(q, D)
    BY <1>2, <2>1, PackedGrouped
  <2>4. q \in Seq(KvGroup(D)) /\ \A i \in DOMAIN q : q[i] \in TypeGroups(D, spec)
    <3>1. TypeGroups(D, spec) \subseteq KvGroup(D)
      BY DEF TypeGroups
    <3> QED
      BY <2>3, <3>1, SeqFacts
  <2>5. Known(q, spec)
    BY <2>4 DEF TypeGroups, Known
  <2>6. Len(q) # 1
    <3> SUFFICES ASSUME Len(q) = 1 PROVE FALSE
      OBVIOUS
    <3>1. DOMAIN q = {1}
      BY <2>4, SeqFacts
    <3>2. ToSet(q[1].layers) = D
      BY <2>3, <3>1, OnlyPart
    <3>3. UniformType(SpecsOf(spec, D))
      BY <2>4, <3>1, <3>2 DEF TypeGroups
    <3>4. SpecsOf(spec, D) = Range(spec)
      BY DEF SpecsOf, Range
    <3> QED
      BY <3>3, <3>4
  <2> QED
    BY <1>2, <2>2, <2>3, <2>4, <2>5, <2>6, AnnotatedShaped
<1>3. CASE /\ ~IsGlm5(spec) /\ ~(c.layout = "block" /\ Cardinality(PageSizes(spec)) > 1)
           /\ Stops(spec) = {}
  <2>1. PICK u : u = unify_kv_cache_spec_page_size(spec)
    OBVIOUS
  <2>2. PICK q : q = UniformPageGroups(u)
    OBVIOUS
  <2>3. groups = Annotate(c, spec, q)
    BY <1>3, <2>1, <2>2 DEF MixedGroups
  <2>4. /\ u \in [D -> KvSpec]
        /\ \A l \in D :
             u[l].kind = spec[l].kind /\ u[l].tps = spec[l].tps /\ u[l].win = spec[l].win
    <3>1. SameKinds(D, spec, u)
      BY <2>1, UnifiedTyped
    <3> QED
      BY <3>1 DEF SameKinds
  <2>5. q \in Seq(MergeGroups(D, u)) /\ Parts(q, D)
    BY <2>2, <2>4, UniformPageGrouped
  <2>6. q \in Seq(KvGroup(D)) /\ \A i \in DOMAIN q : q[i] \in MergeGroups(D, u)
    <3>1. MergeGroups(D, u) \subseteq KvGroup(D)
      BY DEF MergeGroups
    <3> QED
      BY <2>5, <3>1, SeqFacts
  <2>7. Known(q, spec)
    <3>1. \A s \in Range(u) : \E t \in Range(spec) : s.kind = t.kind /\ s.tps = t.tps
      BY <2>4 DEF Range
    <3> QED
      BY <2>6, <3>1 DEF MergeGroups, Known
  <2>8. EngineBlock(c, spec) => Len(q) # 1
    <3> SUFFICES ASSUME Len(q) = 1, EngineBlock(c, spec) PROVE FALSE
      OBVIOUS
    <3>1. DOMAIN q = {1}
      BY <2>6, SeqFacts
    <3>2. ToSet(q[1].layers) = D
      BY <2>5, <3>1, OnlyPart
    <3>3. Mergeable(SpecsOf(u, D))
      BY <2>6, <3>1, <3>2 DEF MergeGroups
    <3>4. SpecsOf(u, D) = Range(u)
      BY <2>4 DEF SpecsOf, Range
    <3> QED
      BY <2>1, <3>3, <3>4, UnifiedMixed
  <2> QED
    BY <1>3, <2>3, <2>5, <2>6, <2>7, <2>8, AnnotatedShaped
<1>4. CASE /\ ~IsGlm5(spec) /\ ~(c.layout = "block" /\ Cardinality(PageSizes(spec)) > 1)
           /\ Stops(spec) # {}
  <2>1. groups \in Fallback(spec)
    BY <1>4 DEF MixedGroups
  <2>2. /\ WellGrouped(groups) /\ Parts(groups, D) /\ Len(groups) = 1
        /\ EngineBlock(c, spec) => OwnBlock(groups, c)
    BY <2>1, FallbackWell
  <2> QED
    BY <2>2 DEF Shaped
<1> QED
  BY <1>1, <1>2, <1>3, <1>4

\* Whichever way the layers are grouped, each is listed in one group, with a spec.
LEMMA GroupsWell ==
  ASSUME NEW D \in SUBSET Nat, IsFiniteSet(D), NEW given \in [D -> KvSpec],
         SameExtra(Range(given)), NEW stages, IsFiniteSet(stages),
         NEW c, Evenly(c, given), NEW groups \in get_kv_cache_groups(c, stages, given)
  PROVE  /\ WellGrouped(groups) /\ Parts(groups, D)
         /\ Shaped(groups, c, D, given, stages)
<1> DEFINE Made1(spec) ==
             IF DOMAIN spec = {} THEN {<<>>}
             ELSE IF Mergeable(Range(spec)) THEN {<<MergedGroup(spec, InOrder(DOMAIN spec))>>}
             ELSE IF UniformType(Range(spec)) THEN {<<TypeGroup(spec, InOrder(DOMAIN spec))>>}
             ELSE MixedGroups(c, spec, stages)
<1>1. PICK spec \in IF c.hybrid THEN {given} ELSE promote(given) : groups \in Made1(spec)
  BY DEF get_kv_cache_groups, MixedGroups
<1>2. /\ spec \in [D -> KvSpec] /\ SameExtra(Range(spec))
      /\ EngineBlock(c, given) => EngineBlock(c, spec)
      /\ c.hybrid => spec = given
      /\ ~Mergeable(Range(spec)) /\ ~UniformType(Range(spec)) =>
           c.hybrid /\ (c.layout = "block" => EvenStates(spec))
  <2>1. CASE c.hybrid
    BY <1>1, <2>1 DEF Evenly
  <2>2. CASE ~c.hybrid
    <3>1. spec \in promote(given)
      BY <1>1, <2>2
    <3> QED
      BY <2>2, <3>1, PromotedTyped
  <2> QED
    BY <2>1, <2>2
<1>3. DOMAIN spec = D
  BY <1>2
<1>4. CASE D = {}
  <2>1. groups = <<>>
    BY <1>1, <1>3, <1>4
  <2>2. <<>> = [i \in 1..0 |-> <<>>[i]] /\ DOMAIN <<>> = {} /\ Len(<<>>) = 0
    OBVIOUS
  <2>3. WellGrouped(<<>>)
    BY <2>2 DEF WellGrouped
  <2>4. Parts(<<>>, {})
    BY <2>2 DEF Parts
  <2>5. OwnBlock(<<>>, c)
    BY <2>2 DEF OwnBlock
  <2> QED
    BY <1>4, <2>1, <2>2, <2>3, <2>4, <2>5 DEF Shaped
<1>5. CASE D # {} /\ (Mergeable(Range(spec)) \/ UniformType(Range(spec)))
  <2>1. PICK g : /\ groups = <<g>>
                 /\ \/ Mergeable(Range(spec)) /\ g = MergedGroup(spec, InOrder(DOMAIN spec))
                    \/ UniformType(Range(spec)) /\ g = TypeGroup(spec, InOrder(DOMAIN spec))
    BY <1>1, <1>3, <1>5
  <2>2. /\ WellGrouped(<<g>>) /\ Parts(<<g>>, D) /\ Len(<<g>>) = 1
        /\ EngineBlock(c, spec) => OwnBlock(<<g>>, c)
    BY <1>2, <1>5, <2>1, WholeGrouped
  <2> QED
    BY <1>2, <2>1, <2>2 DEF Shaped
<1>6. CASE D # {} /\ ~Mergeable(Range(spec)) /\ ~UniformType(Range(spec))
  <2>1. c.hybrid /\ spec = given /\ (c.layout = "block" => EvenStates(given))
    BY <1>2, <1>6
  <2>2. groups \in MixedGroups(c, given, stages)
    BY <1>1, <1>3, <1>6, <2>1
  <2>3. ~Mergeable(Range(given)) /\ ~UniformType(Range(given)) /\ D # {}
    BY <1>6, <2>1
  <2> QED
    BY <2>1, <2>2, <2>3, MixedWell
<1> QED
  BY <1>4, <1>5, <1>6

-----------------------------------------------------------------------------
(* What a worker has of the groups *)

\* What is used of a well-formed grouping that is not empty.
LEMMA WellFacts ==
  ASSUME NEW groups, WellGrouped(groups), groups # <<>>
  PROVE  \E n \in Nat \ {0} : /\ DOMAIN groups = 1..n
                              /\ groups = [i \in 1..n |-> groups[i]]
                              /\ \A i \in 1..n : Grouped(groups[i])
<1>1. PICK n \in Nat : /\ groups = [i \in 1..n |-> groups[i]]
                       /\ \A i \in 1..n : Grouped(groups[i])
  BY DEF WellGrouped
<1>2. n # 0
  <2> SUFFICES ASSUME n = 0 PROVE FALSE
    OBVIOUS
  <2>1. 1..n = {}
    OBVIOUS
  <2>2. PICK h : h = [i \in 1..n |-> groups[i]]
    OBVIOUS
  <2>3. h = <<>>
    BY <2>1, <2>2
  <2> QED
    BY <1>1, <2>2, <2>3
<1>3. PICK h : h = [i \in 1..n |-> groups[i]]
  OBVIOUS
<1>4. DOMAIN h = 1..n /\ h = groups
  BY <1>1, <1>3
<1> QED
  BY <1>1, <1>2, <1>4

\* A worker's share of well-formed groups is one group for each of them, with specs of its
\* own.
LEMMA ProjectWell ==
  ASSUME NEW groups, WellGrouped(groups), groups # <<>>, NEW own
  PROVE  /\ WellGrouped(Project(groups, own)) /\ Formed(Project(groups, own))
         /\ Project(groups, own) # <<>> /\ DOMAIN Project(groups, own) = DOMAIN groups
         /\ \A i \in DOMAIN groups :
              Range(Project(groups, own)[i].of) \in SUBSET Range(groups[i].of)
<1>1. PICK n \in Nat \ {0} : /\ DOMAIN groups = 1..n
                             /\ \A i \in 1..n : Grouped(groups[i])
  BY WellFacts
<1>2. PICK P : P = Project(groups, own)
  OBVIOUS
<1>3. DOMAIN P = 1..n /\ P = [i \in 1..n |-> P[i]]
  BY <1>1, <1>2 DEF Project
<1>4. ASSUME NEW i \in 1..n
      PROVE  Grouped(P[i]) /\ Range(P[i].of) \in SUBSET Range(groups[i].of)
  <2>1. PICK g, T, layers : /\ g = groups[i] /\ T = DOMAIN g.of
                            /\ layers = Kept(g.layers, own)
    OBVIOUS
  <2>2. /\ g.of \in [T -> KvSpec] /\ IsFiniteSet(T) /\ T # {}
        /\ g.layers \in Seq(T) /\ SamePages(Range(g.of)) /\ T \in SUBSET Nat
    BY <1>1, <2>1 DEF Grouped, FormedGroup
  <2>3. layers \in Seq(T \cap own)
    BY <2>1, <2>2, KeptIsSeq
  <2>4. layers \in Seq(T)
    BY <2>3, SeqFacts
  <2>5. PICK S : S = ToSet(layers)
    OBVIOUS
  <2>6. S \in SUBSET T /\ layers \in Seq(S) /\ (layers # <<>> => S # {}) /\ IsFiniteSet(S)
    BY <2>4, <2>5, SeqOfElements
  <2>7. PICK of : of = IF layers = <<>> THEN g.of ELSE [l \in S |-> g.of[l]]
    OBVIOUS
  <2>8. P[i].layers = layers /\ P[i].of = of
    BY <1>1, <1>2, <2>1, <2>5, <2>7 DEF Project, Restrict
  <2>9. CASE layers = <<>>
    <3>1. of = g.of
      BY <2>7, <2>9
    <3> QED
      BY <2>1, <2>2, <2>4, <2>8, <3>1 DEF Grouped, FormedGroup
  <2>10. CASE layers # <<>>
    <3>1. /\ of \in [S -> KvSpec] /\ DOMAIN of = S
          /\ Range(of) \in SUBSET Range(g.of)
      BY <2>2, <2>6, <2>7, <2>10 DEF Range
    <3>2. SamePages(Range(of))
      BY <2>2, <3>1 DEF SamePages
    <3> QED
      BY <2>1, <2>2, <2>6, <2>8, <2>10, <3>1, <3>2 DEF Grouped, FormedGroup
  <2> QED
    BY <2>9, <2>10
<1>5. IsFiniteSet(1..n)
  BY FS_Interval
<1>6. Formed(P)
  BY <1>3, <1>4, <1>5 DEF Formed, Grouped
<1>7. WellGrouped(P)
  BY <1>3, <1>4 DEF WellGrouped
<1>8. P # <<>>
  <2>1. 1 \in DOMAIN P
    BY <1>3
  <2> QED
    BY <2>1
<1> QED
  BY <1>1, <1>2, <1>3, <1>4, <1>6, <1>7, <1>8

\* Finitely many finite sets have a finite union.
LEMMA FiniteUnion ==
  ASSUME NEW f, NEW X, IsFiniteSet(X), \A x \in X : IsFiniteSet(f[x])
  PROVE  IsFiniteSet(UNION {f[x] : x \in X})
<1> DEFINE All(S) == UNION {f[x] : x \in S}
           Good == {S \in SUBSET X : IsFiniteSet(All(S))}
<1>1. ASSUME NEW S \in SUBSET X, \A r \in S : S \ {r} \in Good PROVE S \in Good
  <2>1. CASE S = {}
    <3>1. All(S) = {}
      BY <2>1
    <3> HIDE DEF All
    <3> QED
      BY <3>1, FS_EmptySet
  <2>2. CASE S # {}
    <3>1. PICK r \in S : TRUE
      BY <2>2
    <3>2. IsFiniteSet(All(S \ {r})) /\ IsFiniteSet(f[r])
      BY <1>1, <3>1
    <3>3. All(S) = All(S \ {r}) \cup f[r]
      BY <3>1
    <3> HIDE DEF All
    <3>4. IsFiniteSet(All(S \ {r}) \cup f[r])
      BY <3>2, FS_Union
    <3> QED
      BY <3>3, <3>4
  <2> QED
    BY <2>1, <2>2
<1> HIDE DEF Good
<1>2. \A S \in SUBSET X : (\A r \in S : S \ {r} \in Good) => S \in Good
  BY <1>1
<1>3. X \in Good
  BY <1>2, SmallerSets
<1> QED
  BY <1>3 DEF Good

\* The bytes of a group's block are a number.
LEMMA GroupBytesTyped ==
  ASSUME NEW g, Grouped(g)
  PROVE  GroupBytes(g) \in Nat
<1>1. PICK T : T = DOMAIN g.of
  OBVIOUS
<1>2. g.of \in [T -> KvSpec] /\ g.layers \in Seq(T)
  BY <1>1 DEF Grouped, FormedGroup
<1>3. PICK I, f : I = DOMAIN g.layers /\ f = [i \in I |-> PageOf(g, g.layers[i])]
  OBVIOUS
<1>4. IsFiniteSet(I) /\ \A i \in I : g.layers[i] \in T
  BY <1>2, <1>3, SeqFacts
<1>5. ASSUME NEW i \in I PROVE PageOf(g, g.layers[i]) \in Nat
  <2>1. PICK s : s = g.of[g.layers[i]]
    OBVIOUS
  <2>2. s \in KvSpec
    BY <1>2, <1>4, <2>1
  <2> QED
    BY <2>1, <2>2, PageTyped DEF PageOf
<1>6. f \in [I -> Nat] /\ \A i \in I : f[i] <= f[i]
  BY <1>3, <1>5
<1>7. SumFunction(f) \in Nat
  BY <1>4, <1>6, SumsGrow
<1> QED
  BY <1>3, <1>7 DEF GroupBytes

\* The bytes of a block: enough for every group or, where groups share the pages of the MLA
\* layers and indexers, those of the group of these.
BlockOf(groups, bytes) ==
  /\ Glm5Layout(groups) = {} => \A i \in DOMAIN groups : GroupBytes(groups[i]) <= bytes
  /\ \A g \in Glm5Layout(groups) : g.attn \in DOMAIN groups /\ bytes = GroupBytes(groups[g.attn])

\* The bytes of a block are a number: the widest group's, or its next multiple of what
\* the kernels ask for.
LEMMA BytesTyped ==
  ASSUME NEW groups, WellGrouped(groups), groups # <<>>
  PROVE  BytesPerBlock(groups) \in Nat /\ BlockOf(groups, BytesPerBlock(groups))
<1>1. PICK n \in Nat \ {0} : /\ DOMAIN groups = 1..n
                             /\ \A i \in 1..n : Grouped(groups[i])
  BY WellFacts
<1>2. IsFiniteSet(1..n)
  BY FS_Interval
<1>3. PICK W : W = {GroupBytes(g) : g \in Range(groups)}
  OBVIOUS
<1>4. W \in SUBSET Nat /\ W # {} /\ IsFiniteSet(W)
  <2>1. PICK f : f = [i \in 1..n |-> GroupBytes(groups[i])]
    OBVIOUS
  <2>2. DOMAIN f = 1..n /\ Range(f) = W
    BY <1>1, <1>3, <2>1 DEF Range
  <2>3. \A i \in 1..n : f[i] \in Nat
    BY <1>1, <2>1, GroupBytesTyped
  <2>4. W \in SUBSET Nat
    BY <2>2, <2>3 DEF Range
  <2>5. 1 \in 1..n
    OBVIOUS
  <2> QED
    BY <1>2, <2>2, <2>4, <2>5, FiniteRange
<1>5. Max(W) \in Nat /\ \A y \in W : y <= Max(W)
  <2>1. W \in SUBSET Int
    BY <1>4
  <2> QED
    BY <1>4, <2>1, MaxOf
<1>10. \A i \in 1..n : GroupBytes(groups[i]) \in W
  BY <1>1, <1>3 DEF Range
<1>6. PICK specs, aligns : /\ specs = UNION {SpecsOf(g.of, ToSet(g.layers)) : g \in Range(groups)}
                           /\ aligns = {s.align : s \in specs} \ {0}
  OBVIOUS
<1>7. aligns \in SUBSET (Nat \ {0}) /\ IsFiniteSet(aligns)
  <2>1. PICK f : f = [i \in 1..n |-> SpecsOf(groups[i].of, ToSet(groups[i].layers))]
    OBVIOUS
  <2>2. ASSUME NEW i \in 1..n PROVE f[i] \in SUBSET KvSpec /\ IsFiniteSet(f[i])
    <3>1. PICK g, T, S : g = groups[i] /\ T = DOMAIN g.of /\ S = ToSet(g.layers)
      OBVIOUS
    <3>2. g.of \in [T -> KvSpec] /\ g.layers \in Seq(T)
      BY <1>1, <3>1 DEF Grouped, FormedGroup
    <3>3. S \in SUBSET T /\ IsFiniteSet(S)
      BY <3>1, <3>2, SeqOfElements
    <3>4. SpecsOf(g.of, S) \in SUBSET KvSpec /\ IsFiniteSet(SpecsOf(g.of, S))
      BY <3>2, <3>3, SpecsFinite DEF SpecsOf
    <3> QED
      BY <2>1, <3>1, <3>4
  <2>3. specs = UNION {f[i] : i \in 1..n}
    BY <1>1, <1>6, <2>1 DEF Range
  <2>4. specs \in SUBSET KvSpec
    BY <2>2, <2>3
  <2>5. IsFiniteSet(specs)
    BY <1>2, <2>2, <2>3, FiniteUnion
  <2>6. PICK h : h = [s \in specs |-> s.align]
    OBVIOUS
  <2>7. IsFiniteSet(Range(h))
    <3>1. DOMAIN h = specs
      BY <2>6
    <3> QED
      BY <2>5, <3>1, FiniteRange
  <2>8. aligns \in SUBSET Range(h)
    BY <1>6, <2>6 DEF Range
  <2>9. \A s \in specs : s.align \in Nat
    BY <2>4 DEF KvSpec
  <2>10. IsFiniteSet(aligns)
    BY <2>7, <2>8, FS_Subset
  <2> QED
    BY <1>6, <2>9, <2>10
<1>8. CASE Glm5Layout(groups) # {}
  <2> DEFINE of(kind) == {i \in DOMAIN groups : {s.kind : s \in Range(groups[i].of)} = {kind}}
             bytes == {GroupBytes(groups[g.attn]) : g \in Glm5Layout(groups)}
  <2>1. PICK A : A = of("mla")
    OBVIOUS
  <2>2. Cardinality(A) = 1 /\ \A g \in Glm5Layout(groups) : g.attn \in A
    <3>1. PICK g : g \in Glm5Layout(groups)
      BY <1>8
    <3>2. Cardinality(of("mla")) = 1
      BY <3>1, Zenon DEF Glm5Layout
    <3>3. ASSUME NEW h \in Glm5Layout(groups) PROVE h.attn \in of("mla")
      <4>1. \E attn \in of("mla") : \E m, t, a, i :
              h = [attn |-> attn, mambas |-> m, tails |-> t, mla |-> a, idx |-> i]
        BY <3>2, Zenon DEF Glm5Layout
      <4> HIDE DEF of
      <4> QED
        BY <4>1
    <3> QED
      BY <2>1, <3>2, <3>3
  <2>3. A \in SUBSET (1..n)
    BY <1>1, <2>1
  <2>4. PICK a : A = {a}
    <3>1. IsFiniteSet(A)
      BY <1>2, <2>3, FS_Subset
    <3> QED
      BY <2>2, <3>1, FS_Singleton
  <2>5. a \in 1..n /\ \A g \in Glm5Layout(groups) : g.attn = a
    BY <2>2, <2>3, <2>4
  <2>7. PICK x : x = GroupBytes(groups[a])
    OBVIOUS
  <2>8. bytes = {x}
    BY <1>8, <2>5, <2>7
  <2>9. x \in Nat
    BY <1>1, <2>5, <2>7, GroupBytesTyped
  <2>10. Max({x}) \in {x}
    <3>1. PICK X : X = {x}
      OBVIOUS
    <3>2. X \in SUBSET Int /\ X # {}
      BY <2>9, <3>1
    <3>3. IsFiniteSet(X)
      BY <3>1, FS_Singleton
    <3> QED
      BY <3>1, <3>2, <3>3, MaxOf
  <2>11. BytesPerBlock(groups) = Max(bytes)
    BY <1>8 DEF BytesPerBlock
  <2> HIDE DEF bytes
  <2>12. BytesPerBlock(groups) = x
    BY <2>8, <2>10, <2>11
  <2> QED
    BY <1>1, <1>8, <2>5, <2>7, <2>9, <2>12 DEF BlockOf
<1>9. CASE Glm5Layout(groups) = {}
  <2>1. BytesPerBlock(groups) \in Nat /\ Max(W) <= BytesPerBlock(groups)
    <3>1. CASE aligns = {}
      <4>1. BytesPerBlock(groups) = Max(W)
        BY <1>3, <1>6, <1>9, <3>1 DEF BytesPerBlock
      <4> QED
        BY <1>5, <4>1
    <3>2. CASE aligns # {}
      <4>1. BytesPerBlock(groups) = RoundUp(Max(W), Lcm(aligns))
        BY <1>3, <1>6, <1>9, <3>2 DEF BytesPerBlock
      <4>2. PICK w, m, q : w = Max(W) /\ m = Lcm(aligns) /\ q = CeilDiv(w, m)
        OBVIOUS
      <4>3. w \in Nat /\ m \in Nat \ {0}
        BY <1>5, <1>7, <4>2, LcmIsMultiple
      <4>4. q \in Nat /\ w <= q * m
        BY <4>2, <4>3, CeilDivBounds
      <4>5. q * m \in Nat
        BY <4>3, <4>4
      <4> QED
        BY <4>1, <4>2, <4>4, <4>5 DEF RoundUp
    <3> QED
      BY <3>1, <3>2
  <2>2. \A i \in 1..n : GroupBytes(groups[i]) \in Nat
    BY <1>1, GroupBytesTyped
  <2>3. \A i \in 1..n : GroupBytes(groups[i]) <= BytesPerBlock(groups)
    BY <1>5, <1>10, <2>1, <2>2
  <2> QED
    BY <1>1, <1>9, <2>1, <2>3 DEF BlockOf
<1> QED
  BY <1>8, <1>9

-----------------------------------------------------------------------------
(* The plan *)

\* The specs of all workers are specs of one model, whose windows keep as much.
LEMMA MergedSpecsTyped ==
  ASSUME NEW c, CfgTyped(c), NEW workers, IsFiniteSet(DOMAIN workers),
         \A w \in DOMAIN workers : WorkerTyped(workers[w])
  PROVE  \E D \in SUBSET Nat : /\ IsFiniteSet(D) /\ MergedSpecs(c, workers) \in [D -> KvSpec]
                               /\ SameExtra(Range(MergedSpecs(c, workers)))
<1>1. PICK W, dom : W = DOMAIN workers /\ dom = [w \in W |-> DOMAIN workers[w].spec]
  OBVIOUS
<1>2. PICK D : D = UNION {dom[w] : w \in W}
  OBVIOUS
<1>3. \A w \in W : /\ dom[w] \in SUBSET Nat /\ IsFiniteSet(dom[w])
                   /\ workers[w].spec \in [dom[w] -> KvSpec]
  BY <1>1 DEF WorkerTyped
<1>4. D \in SUBSET Nat /\ IsFiniteSet(D)
  <2>1. IsFiniteSet(D)
    BY <1>1, <1>2, <1>3, FiniteUnion
  <2> QED
    BY <1>2, <1>3, <2>1
<1> DEFINE spec(l) == workers[CHOOSE w \in DOMAIN workers : l \in DOMAIN workers[w].spec].spec[l]
<1>5. ASSUME NEW l \in D PROVE spec(l) \in KvSpec
  <2>1. \E w \in DOMAIN workers : l \in DOMAIN workers[w].spec
    BY <1>1, <1>2
  <2>2. PICK w : w = CHOOSE v \in DOMAIN workers : l \in DOMAIN workers[v].spec
    OBVIOUS
  <2>3. w \in W /\ l \in dom[w]
    BY <1>1, <2>1, <2>2
  <2> QED
    BY <1>3, <2>2, <2>3
<1>6. PICK e : e = Larger(0, c.lookahead - 1)
  OBVIOUS
<1>7. e \in Nat
  BY <1>6 DEF CfgTyped, Larger
<1>8. PICK m : m = MergedSpecs(c, workers)
  OBVIOUS
<1>9. m = [l \in D |-> IF spec(l).kind = "sw" THEN [spec(l) EXCEPT !.extra = e] ELSE spec(l)]
  BY <1>1, <1>2, <1>6, <1>8 DEF MergedSpecs
<1> HIDE DEF spec
<1>10. ASSUME NEW l \in D
       PROVE  m[l] \in KvSpec /\ (m[l].kind = "sw" => m[l].extra = e)
  <2>1. PICK s : s = spec(l)
    OBVIOUS
  <2>2. s \in KvSpec
    BY <1>5, <2>1
  <2>3. m[l] = IF s.kind = "sw" THEN [s EXCEPT !.extra = e] ELSE s
    BY <1>9, <2>1
  <2> QED
    BY <1>7, <2>2, <2>3 DEF KvSpec
<1>11. m \in [D -> KvSpec]
  BY <1>9, <1>10
<1>12. SameExtra(Range(m))
  BY <1>10, <1>11 DEF SameExtra, Range
<1> QED
  BY <1>4, <1>8, <1>11, <1>12

\* Memory for some blocks next to one more is memory for more than that.
LEMMA RoomForOneMore ==
  ASSUME NEW b \in Nat \ {0}, NEW m \in Nat, NEW r \in Nat
  PROVE  m \div b \in Nat /\ (b * r <= m - b <=> r < m \div b)
<1>1. PICK q, t : q = m \div b /\ t = m % b
  OBVIOUS
<1>2. q \in Nat /\ t \in 0..(b - 1) /\ m = q * b + t
  BY <1>1
<1>3. q * b \in Nat /\ b * r \in Nat /\ b * r = r * b
  BY <1>2
<1>4. CASE r < q
  <2>1. PICK d \in Nat : q = r + 1 + d
    <3>1. q - r - 1 \in Nat /\ q = r + 1 + (q - r - 1)
      BY <1>2, <1>4
    <3> QED
      BY <3>1
  <2>2. q * b = r * b + b + d * b /\ d * b \in Nat
    BY <2>1
  <2>3. b * r <= m - b
    BY <1>2, <1>3, <2>2
  <2> QED
    BY <1>1, <1>2, <1>4, <2>3
<1>5. CASE ~(r < q)
  <2>1. PICK d \in Nat : r = q + d
    <3>1. r - q \in Nat /\ r = q + (r - q)
      BY <1>2, <1>5
    <3> QED
      BY <3>1
  <2>2. r * b = q * b + d * b /\ d * b \in Nat
    BY <1>2, <2>1
  <2>3. ~(b * r <= m - b)
    BY <1>2, <1>3, <2>2
  <2> QED
    BY <1>1, <1>2, <1>5, <2>3
<1> QED
  BY <1>4, <1>5

\* What a plan holds: next to the null block one request of its length fits into the
\* blocks, of some worker, and none of a length that the search could have chosen.
Serves(p, W, c) == \E w \in W : BlocksPerRequest(p.groups[w], p.len, c) < p.num
Longest1(p, W, c) ==
  \A len \in (p.len + 1)..c.len : \E w \in W : BlocksPerRequest(p.groups[w], len, c) >= p.num

\* Every worker's pool has a layout, and keeps to its memory unless its size is set by hand.
Roomy(p, workers, c) ==
  \A w \in DOMAIN workers :
    /\ Expressible(c.layout, p.groups[w])
    /\ c.override = 0 => BytesPerBlock(p.groups[w]) * p.num <= Available(workers[w])

\* A plan made from a well-formed grouping serves a request on some worker of every size of
\* memory and, if the length was fitted, cannot serve a longer one.
LEMMA PlansHold ==
  ASSUME NEW c, CfgTyped(c), NEW workers,
         IsFiniteSet(DOMAIN workers), 1 \in DOMAIN workers,
         \A w \in DOMAIN workers : WorkerTyped(workers[w]),
         NEW groups, WellGrouped(groups), groups # <<>>, NEW p \in PlanOf(c, workers, groups)
  PROVE  /\ p.groups = [w \in DOMAIN workers |-> Project(groups, DOMAIN workers[w].spec)]
         /\ p.len \in Nat /\ p.num \in Nat
         /\ Serves(p, DOMAIN workers, c)
         /\ c.autofit => Longest1(p, DOMAIN workers, c)
         /\ Roomy(p, workers, c)
<1>1. PICK W, own : /\ W = DOMAIN workers
                    /\ own = [w \in W |-> Project(groups, DOMAIN workers[w].spec)]
  OBVIOUS
<1>2. PICK bytes : bytes = [w \in W |-> BytesPerBlock(own[w])]
  OBVIOUS
<1>3. PICK memory : memory = [w \in W |-> IF c.override # 0 THEN c.override * bytes[w]
                                                           ELSE Available(workers[w])]
  OBVIOUS
<1>4. PICK check : check = [w \in W |-> Usable(memory[w], bytes[w])]
  OBVIOUS
<1>5. PICK len : len = IF c.autofit THEN AutoFitLen(own, c, check) ELSE c.len
  OBVIOUS
<1>6. PICK counts : counts = [w \in W |-> memory[w] \div bytes[w]]
  OBVIOUS
<1>7. /\ p = [groups |-> own, len |-> len, num |-> Min(Range(counts))]
      /\ \A w \in W : bytes[w] > 0
      /\ len > 0
      /\ \A w \in W : Enough(own[w], len, c, check[w])
      /\ \A w \in W : Expressible(c.layout, own[w])
  BY <1>1, <1>2, <1>3, <1>4, <1>5, <1>6, Zenon DEF PlanOf
<1>8. ASSUME NEW w \in W
      PROVE  /\ Formed(own[w]) /\ bytes[w] = BytesPerBlock(own[w])
             /\ bytes[w] \in Nat \ {0} /\ memory[w] \in Int
             /\ check[w] = memory[w] - bytes[w]
  <2>1. own[w] = Project(groups, DOMAIN workers[w].spec)
    BY <1>1
  <2>2. Formed(own[w]) /\ WellGrouped(own[w]) /\ own[w] # <<>>
    BY <2>1, ProjectWell
  <2>3. bytes[w] = BytesPerBlock(own[w])
    BY <1>2
  <2>4. bytes[w] \in Nat \ {0}
    <3>1. bytes[w] \in Nat
      BY <2>2, <2>3, BytesTyped
    <3> QED
      BY <1>7, <3>1
  <2>5. Available(workers[w]) \in Int
    BY <1>1 DEF Available, WorkerTyped
  <2>6. c.override \in Nat
    BY DEF CfgTyped
  <2>7. memory[w] \in Int
    <3>1. c.override * bytes[w] \in Int
      BY <2>4, <2>6
    <3> QED
      BY <1>3, <2>5, <3>1
  <2>8. check[w] = memory[w] - bytes[w]
    BY <1>4 DEF Usable
  <2> QED
    BY <2>2, <2>3, <2>4, <2>7, <2>8
<1>9. c.len \in Nat \ {0}
  BY DEF CfgTyped
<1>10. ASSUME NEW w \in W
       PROVE  /\ EstimateLen(own[w], c, check[w]) \in 0..c.len
              /\ \A k \in 1..c.len : Fits(own[w], k, c, check[w]) <=>
                                       k <= EstimateLen(own[w], c, check[w])
  <2>1. check[w] \in Int
    BY <1>8
  <2>2. BytesPerBlock(own[w]) \in Nat
    BY <1>8
  <2> QED
    BY <1>8, <2>1, <2>2, EstimateIsLongest
<1>11. PICK ests : ests = {EstimateLen(own[w], c, check[w]) : w \in W}
  OBVIOUS
<1>12. ests \in SUBSET Nat /\ ests # {}
  BY <1>1, <1>9, <1>10, <1>11
<1>13. DOMAIN own = W
  BY <1>1
<1>14. c.autofit => len = Min(ests)
  BY <1>5, <1>11, <1>13 DEF AutoFitLen
<1>15. len \in Nat
  <2>1. Min(ests) \in Nat
    BY <1>12, MinOf
  <2> QED
    BY <1>5, <1>9, <1>14, <2>1
<1>16. ASSUME NEW w \in W
       PROVE  memory[w] \in Nat /\ counts[w] = memory[w] \div bytes[w] /\ counts[w] \in Nat
  <2>1. check[w] > 0
    BY <1>7 DEF Enough
  <2>2. memory[w] \in Nat
    BY <1>8, <2>1
  <2>3. counts[w] = memory[w] \div bytes[w]
    BY <1>6
  <2>4. memory[w] \div bytes[w] \in Nat
    BY <1>8, <2>2, RoomForOneMore
  <2> QED
    BY <2>2, <2>3, <2>4
<1>17. ASSUME NEW w \in W, NEW k \in Nat
       PROVE  Fits(own[w], k, c, check[w]) <=> BlocksPerRequest(own[w], k, c) < counts[w]
  <2>1. PICK b, m, r : /\ b = bytes[w] /\ m = memory[w]
                       /\ r = BlocksPerRequest(own[w], k, c)
    OBVIOUS
  <2>2. k <= k
    OBVIOUS
  <2>3. r \in Nat
    BY <1>8, <2>1, <2>2, BlocksGrow
  <2>4. b \in Nat \ {0} /\ m \in Nat
    BY <1>8, <1>16, <2>1
  <2>5. b * r <= m - b <=> r < m \div b
    BY <2>3, <2>4, RoomForOneMore
  <2>6. Fits(own[w], k, c, check[w]) <=> b * r <= m - b
    BY <1>8, <2>1 DEF Fits
  <2> QED
    BY <1>16, <2>1, <2>5, <2>6
<1>18. PICK v \in W : Min(Range(counts)) = counts[v]
  <2>1. DOMAIN counts = W
    BY <1>6
  <2>2. Range(counts) \in SUBSET Nat /\ Range(counts) # {}
    BY <1>1, <1>16, <2>1 DEF Range
  <2>3. Min(Range(counts)) \in Range(counts)
    BY <2>2, MinOf
  <2> QED
    BY <2>1, <2>3 DEF Range
<1>19. \A w \in W : counts[v] <= counts[w]
  <2> TAKE w \in W
  <2>1. DOMAIN counts = W
    BY <1>6
  <2>2. Range(counts) \in SUBSET Nat /\ counts[w] \in Range(counts)
    BY <1>16, <2>1 DEF Range
  <2>3. Min(Range(counts)) <= counts[w]
    BY <2>2, MinOf
  <2> QED
    BY <1>18, <2>3
<1>20. p.groups = own /\ p.len = len /\ p.num = counts[v]
  BY <1>7, <1>18
<1>21. Serves(p, W, c)
  <2>1. Fits(own[v], len, c, check[v])
    BY <1>7 DEF Enough
  <2>2. BlocksPerRequest(own[v], len, c) < counts[v]
    BY <1>15, <1>17, <2>1
  <2> QED
    BY <1>20, <2>2 DEF Serves
<1>22. ASSUME c.autofit, NEW k \in (len + 1)..c.len
       PROVE  \E w \in W : BlocksPerRequest(own[w], k, c) >= counts[v]
  <2>1. len \in ests
    BY <1>12, <1>14, <1>22, MinOf
  <2>2. PICK w \in W : len = EstimateLen(own[w], c, check[w])
    BY <1>11, <2>1
  <2>3. k \in 1..c.len /\ ~(k <= len) /\ k \in Nat
    BY <1>9, <1>15
  <2>4. ~Fits(own[w], k, c, check[w])
    BY <1>10, <2>2, <2>3
  <2>5. ~(BlocksPerRequest(own[w], k, c) < counts[w])
    BY <1>17, <2>3, <2>4
  <2>6. BlocksPerRequest(own[w], k, c) \in Nat
    <3>1. k <= k
      BY <2>3
    <3> QED
      BY <1>8, <2>3, <3>1, BlocksGrow
  <2>7. counts[v] \in Nat /\ counts[w] \in Nat /\ counts[v] <= counts[w]
    BY <1>16, <1>19
  <2>8. BlocksPerRequest(own[w], k, c) >= counts[v]
    BY <2>5, <2>6, <2>7
  <2> QED
    BY <2>8
<1>23. c.autofit => Longest1(p, W, c)
  BY <1>20, <1>22 DEF Longest1
<1>24. counts[v] \in Nat
  BY <1>16
<1>25. ASSUME c.override = 0, NEW w \in W
       PROVE  BytesPerBlock(own[w]) * counts[v] <= Available(workers[w])
  <2>1. PICK b, m, q, r : b = bytes[w] /\ m = memory[w] /\ q = counts[w] /\ r = counts[v]
    OBVIOUS
  <2>2. /\ b \in Nat \ {0} /\ m \in Nat /\ q = m \div b /\ q \in Nat
        /\ r \in Nat /\ r <= q
    BY <1>8, <1>16, <1>19, <1>24, <2>1
  <2>3. CASE r = 0
    <3>1. b * r = 0
      BY <2>2, <2>3
    <3> QED
      BY <1>3, <1>8, <1>25, <2>1, <2>2, <3>1
  <2>4. CASE r # 0
    <3>1. PICK e : e = r - 1 /\ e \in Nat /\ e < q /\ r = e + 1
      BY <2>2, <2>4
    <3>2. b * e <= m - b
      BY <2>2, <3>1, RoomForOneMore
    <3>3. b * r = b * e + b /\ b * e \in Nat
      BY <2>2, <3>1
    <3>4. b * r <= m
      BY <2>2, <3>2, <3>3
    <3> QED
      BY <1>3, <1>8, <1>25, <2>1, <3>4
  <2> QED
    BY <2>3, <2>4
<1>26. Roomy(p, workers, c)
  BY <1>1, <1>7, <1>20, <1>25 DEF Roomy
<1> QED
  BY <1>1, <1>15, <1>20, <1>21, <1>23, <1>24, <1>26

-----------------------------------------------------------------------------
(* The scheduler's view of the plan *)

\* The sum of nothing is 0.
LEMMA SumOfNone ==
  ASSUME NEW f, DOMAIN f = {}
  PROVE  SumFunction(f) = 0
<1>1. PICK X : X = DOMAIN f
  OBVIOUS
<1>2. IsFiniteSet(X)
  BY <1>1, FS_EmptySet
<1>3. PICK g : IsSum(X, f, g) /\ SumFunction(f) = g[X]
  BY <1>1, <1>2, SumUnfolds
<1>4. g[X] = SumStep(f, g, X)
  BY <1>3 DEF IsSum
<1> QED
  BY <1>1, <1>3, <1>4 DEF SumStep

\* The spec of one layer of a group stands for those of every worker: the scheduler counts
\* no more blocks for a group of the first worker than any worker's share of it claims.
LEMMA OneSpecSuffices ==
  ASSUME NEW groups, WellGrouped(groups), groups # <<>>, NEW c, CfgTyped(c), NEW len \in Nat,
         NEW one, NEW other,
         NEW G, G = Project(groups, one), NEW H, H = Project(groups, other),
         NEW claim, claim = [i \in DOMAIN G |-> PagesOf(G[i].of[Min(DOMAIN G[i].of)], len, c)]
  PROVE  SumFunction(claim) \in Nat /\ SumFunction(claim) <= BlocksPerRequest(H, len, c)
<1>1. PICK n \in Nat \ {0} : DOMAIN groups = 1..n /\ \A i \in 1..n : Grouped(groups[i])
  BY WellFacts
<1>2. /\ WellGrouped(G) /\ DOMAIN G = 1..n /\ G # <<>>
      /\ \A i \in 1..n : Range(G[i].of) \in SUBSET Range(groups[i].of)
  BY <1>1, ProjectWell
<1>3. /\ Formed(H) /\ DOMAIN H = 1..n
      /\ \A i \in 1..n : Range(H[i].of) \in SUBSET Range(groups[i].of)
  BY <1>1, ProjectWell
<1>4. \A i \in 1..n : Grouped(G[i])
  <2>1. PICK m \in Nat \ {0} : DOMAIN G = 1..m /\ \A i \in 1..m : Grouped(G[i])
    BY <1>2, WellFacts
  <2> QED
    BY <1>2, <2>1
<1>5. claim = [i \in DOMAIN G |-> PagesOf(G[i].of[Min(DOMAIN G[i].of)], len, c)]
  OBVIOUS
<1>6. PICK all : all = Claims(H, len, c)
  OBVIOUS
<1>7. all \in [1..n -> Nat]
  <2>1. len <= len
    OBVIOUS
  <2> QED
    BY <1>3, <1>6, <2>1, ClaimsGrow
<1>8. ASSUME NEW i \in 1..n PROVE claim[i] \in Nat /\ claim[i] <= all[i]
  <2>1. PICK g, h, s : g = G[i] /\ h = H[i] /\ s = g.of[Min(DOMAIN g.of)]
    OBVIOUS
  <2>2. PICK T : T = DOMAIN g.of
    OBVIOUS
  <2>3. g.of \in [T -> KvSpec] /\ T \in SUBSET Nat /\ T # {}
    BY <1>4, <2>1, <2>2 DEF Grouped, FormedGroup
  <2>4. Min(T) \in T
    BY <2>3, MinOf
  <2>5. s \in Range(g.of) /\ s \in KvSpec
    BY <2>1, <2>2, <2>3, <2>4 DEF Range
  <2>6. FormedGroup(h)
    BY <1>3, <2>1 DEF Formed
  <2>7. PICK m : m = Max(GroupPages(h, len, c))
    OBVIOUS
  <2>8. m \in GroupPages(h, len, c) /\ m \in Nat
    BY <2>6, <2>7, GroupPagesTyped
  <2>9. PICK t \in Range(h.of) : m = PagesOf(t, len, c)
    BY <2>8 DEF GroupPages
  <2>10. s \in Range(groups[i].of) /\ t \in Range(groups[i].of)
    BY <1>2, <1>3, <2>1, <2>5, <2>9
  <2>11. SamePages(Range(groups[i].of))
    BY <1>1 DEF Grouped
  <2>12. PagesOf(s, len, c) = m
    BY <2>9, <2>10, <2>11 DEF SamePages
  <2>13. claim[i] = PagesOf(s, len, c)
    BY <1>2, <1>5, <2>1
  <2>14. all[i] = m
    BY <1>3, <1>6, <2>1, <2>7 DEF Claims
  <2> QED
    BY <2>8, <2>12, <2>13, <2>14
<1>9. claim \in [1..n -> Nat]
  BY <1>2, <1>5, <1>8
<1>10. IsFiniteSet(1..n)
  BY FS_Interval
<1>11. SumFunction(claim) \in Nat /\ SumFunction(claim) <= SumFunction(all)
  BY <1>7, <1>8, <1>9, <1>10, SumsGrow
<1>12. BlocksPerRequest(H, len, c) = SumFunction(all)
  BY <1>6, BlocksAreClaims
<1> QED
  BY <1>5, <1>11, <1>12

-----------------------------------------------------------------------------
(* The engine *)

\* A plan is one of those its engine could make.
Planned ==
  plan = <<>> \/ \E in \in Inputs : \E p \in {Refused} \cup get_kv_cache_configs(in.cfg, in.workers) :
    plan = [input |-> in, groups |-> p.groups, len |-> p.len, num |-> p.num]

\* The inductive invariant of the engine: its plan is one the start-up code can make, of
\* inputs it may be given, or a refusal.
LEMMA StaysPlanned == CacheSpec => []Planned
<1>1. CacheInit => Planned
  BY DEF CacheInit, Planned
<1>2. ASSUME Planned, [CacheNext]_cacheVars PROVE Planned'
  <2>1. CASE Start
    <3>1. PICK in \in Inputs :
            LET made == {p \in get_kv_cache_configs(in.cfg, in.workers) :
                            BlockSizes(SchedulerGroups(p), in.cfg) # {}}
            IN  \E p \in IF made = {} THEN {Refused} ELSE made :
                  plan' = [input |-> in, groups |-> p.groups, len |-> p.len, num |-> p.num]
      BY <2>1 DEF Start
    <3>2. \E p \in {Refused} \cup get_kv_cache_configs(in.cfg, in.workers) :
            plan' = [input |-> in, groups |-> p.groups, len |-> p.len, num |-> p.num]
      BY <3>1
    <3> QED
      BY <3>2 DEF Planned
  <2>2. CASE Serve
    BY <1>2, <2>2 DEF Serve, Planned
  <2>3. CASE UNCHANGED cacheVars
    BY <1>2, <2>3 DEF cacheVars, Planned
  <2> QED
    BY <1>2, <2>1, <2>2, <2>3 DEF CacheNext
<1> QED
  BY <1>1, <1>2, PTL DEF CacheSpec

\* What an engine was started with.
LEMMA PlannedInputs ==
  ASSUME Planned, plan # <<>>, NEW c, c = cfg, NEW workers, workers = plan.input.workers,
         NEW spec, spec = MergedSpecs(c, workers)
  PROVE  /\ CfgTyped(c) /\ IsFiniteSet(DOMAIN workers) /\ 1 \in DOMAIN workers
         /\ \A w \in DOMAIN workers : WorkerTyped(workers[w])
         /\ Evenly(c, spec) /\ (c.caching /\ c.align_states => EngineBlock(c, spec))
         /\ c.mtp => ~IsGlm5(spec)
         /\ StagedGlm5(spec, Stages(workers))
         /\ IsFiniteSet(Stages(workers))
         /\ DOMAIN spec \in SUBSET Nat /\ IsFiniteSet(DOMAIN spec)
         /\ spec \in [DOMAIN spec -> KvSpec] /\ SameExtra(Range(spec))
<1>1. PICK in \in Inputs : \E p \in {Refused} \cup get_kv_cache_configs(in.cfg, in.workers) :
        plan = [input |-> in, groups |-> p.groups, len |-> p.len, num |-> p.num]
  BY DEF Planned
<1>2. plan.input = in
  BY <1>1
<1>3. c = in.cfg /\ workers = in.workers
  BY <1>2 DEF cfg
<1>4. /\ CfgTyped(c) /\ IsFiniteSet(DOMAIN workers) /\ 1 \in DOMAIN workers
      /\ \A w \in DOMAIN workers : WorkerTyped(workers[w])
      /\ Evenly(c, spec) /\ (c.caching /\ c.align_states => EngineBlock(c, spec))
      /\ c.mtp => ~IsGlm5(spec)
      /\ StagedGlm5(spec, Stages(workers))
  BY <1>3, InputsAssumption
<1>5. IsFiniteSet(Stages(workers))
  <2>1. PICK f : f = [w \in DOMAIN workers |-> DOMAIN workers[w].spec]
    OBVIOUS
  <2>2. DOMAIN f = DOMAIN workers /\ Range(f) = Stages(workers)
    BY <2>1 DEF Range, Stages
  <2> QED
    BY <1>4, <2>2, FiniteRange
<1>6. PICK D \in SUBSET Nat : /\ IsFiniteSet(D) /\ spec \in [D -> KvSpec]
                              /\ SameExtra(Range(spec))
  BY <1>4, MergedSpecsTyped
<1>7. DOMAIN spec = D
  BY <1>6
<1> QED
  BY <1>4, <1>5, <1>6, <1>7

\* A plan that was made is one of some grouping of all layers.
LEMMA MadePlan ==
  ASSUME Planned, Made, NEW c, c = cfg, NEW workers, workers = plan.input.workers,
         NEW spec, spec = MergedSpecs(c, workers)
  PROVE  \E groups \in get_kv_cache_groups(c, Stages(workers), spec) :
           /\ WellGrouped(groups) /\ Parts(groups, DOMAIN spec)
           /\ Shaped(groups, c, DOMAIN spec, spec, Stages(workers))
           /\ \E p \in PlanOf(c, workers, groups) :
                plan.groups = p.groups /\ plan.len = p.len /\ plan.num = p.num
<1>1. PICK in \in Inputs : \E p \in {Refused} \cup get_kv_cache_configs(in.cfg, in.workers) :
        plan = [input |-> in, groups |-> p.groups, len |-> p.len, num |-> p.num]
  BY DEF Planned, Made
<1>2. PICK p \in {Refused} \cup get_kv_cache_configs(in.cfg, in.workers) :
        plan = [input |-> in, groups |-> p.groups, len |-> p.len, num |-> p.num]
  BY <1>1
<1>3. /\ plan.input = in /\ plan.groups = p.groups /\ plan.len = p.len /\ plan.num = p.num
  BY <1>2
<1>4. p \in get_kv_cache_configs(in.cfg, in.workers)
  <2>1. p.num # 0
    BY <1>3 DEF Made
  <2>2. Refused.num = 0
    BY DEF Refused
  <2> QED
    BY <1>2, <2>1, <2>2
<1>5. c = in.cfg /\ workers = in.workers
  BY <1>3 DEF cfg
<1>6. PICK groups \in get_kv_cache_groups(c, Stages(workers), spec) :
        p \in PlanOf(c, workers, groups)
  BY <1>4, <1>5 DEF get_kv_cache_configs
<1>7. /\ WellGrouped(groups) /\ Parts(groups, DOMAIN spec)
      /\ Shaped(groups, c, DOMAIN spec, spec, Stages(workers))
  <2>1. PICK D, stages : D = DOMAIN spec /\ stages = Stages(workers)
    OBVIOUS
  <2>2. /\ D \in SUBSET Nat /\ IsFiniteSet(D) /\ spec \in [D -> KvSpec]
        /\ SameExtra(Range(spec)) /\ IsFiniteSet(stages) /\ Evenly(c, spec)
    <3>1. plan # <<>>
      BY DEF Made
    <3> QED
      BY <2>1, <3>1, PlannedInputs
  <2>3. groups \in get_kv_cache_groups(c, stages, spec)
    BY <1>6, <2>1
  <2> QED
    BY <2>1, <2>2, <2>3, GroupsWell
<1> QED
  BY <1>3, <1>6, <1>7

\* What holds of a plan that was made, from the layers to the blocks.
LEMMA MadeIsWell ==
  ASSUME Planned, Made
  PROVE  /\ CfgTyped(cfg) /\ 1 \in Workers /\ plan.len \in Nat
         /\ \E groups :
              /\ WellGrouped(groups)
              /\ plan.groups =
                   [w \in Workers |-> Project(groups, DOMAIN plan.input.workers[w].spec)]
              /\ groups = <<>> => plan.len = cfg.len /\ plan.num = 1
              /\ groups # <<>> => /\ plan.num \in Nat /\ Serves(plan, Workers, cfg)
                                  /\ cfg.autofit => Longest1(plan, Workers, cfg)
<1>1. PICK c, workers, spec : /\ c = cfg /\ workers = plan.input.workers
                              /\ spec = MergedSpecs(c, workers)
  OBVIOUS
<1>2. Workers = DOMAIN workers
  BY <1>1 DEF Workers
<1>3. /\ CfgTyped(c) /\ IsFiniteSet(DOMAIN workers) /\ 1 \in DOMAIN workers
      /\ \A w \in DOMAIN workers : WorkerTyped(workers[w])
  <2>1. plan # <<>>
    BY DEF Made
  <2> QED
    BY <1>1, <2>1, PlannedInputs
<1>4. PICK groups \in get_kv_cache_groups(c, Stages(workers), spec) :
           /\ WellGrouped(groups)
           /\ \E p \in PlanOf(c, workers, groups) :
                plan.groups = p.groups /\ plan.len = p.len /\ plan.num = p.num
  BY <1>1, MadePlan
<1>5. PICK p \in PlanOf(c, workers, groups) :
        plan.groups = p.groups /\ plan.len = p.len /\ plan.num = p.num
  BY <1>4
<1>6. CASE groups = <<>>
  <2>1. p = [groups |-> [w \in DOMAIN workers |-> Project(groups, DOMAIN workers[w].spec)],
             len |-> c.len, num |-> 1]
    BY <1>5, <1>6 DEF PlanOf
  <2>2. /\ plan.groups = [w \in DOMAIN workers |-> Project(groups, DOMAIN workers[w].spec)]
        /\ plan.len = c.len /\ plan.num = 1
    BY <1>5, <2>1
  <2>3. c.len \in Nat
    BY <1>3 DEF CfgTyped
  <2> QED
    BY <1>1, <1>2, <1>3, <1>4, <1>6, <2>2, <2>3
<1>7. CASE groups # <<>>
  <2>1. /\ p.groups = [w \in DOMAIN workers |-> Project(groups, DOMAIN workers[w].spec)]
        /\ p.len \in Nat /\ p.num \in Nat
        /\ Serves(p, DOMAIN workers, c)
        /\ c.autofit => Longest1(p, DOMAIN workers, c)
    BY <1>3, <1>4, <1>5, <1>7, PlansHold
  <2>2. /\ Serves(plan, DOMAIN workers, c)
        /\ c.autofit => Longest1(plan, DOMAIN workers, c)
    BY <1>5, <2>1 DEF Serves, Longest1
  <2> QED
    BY <1>1, <1>2, <1>3, <1>4, <1>5, <1>7, <2>1, <2>2
<1> QED
  BY <1>6, <1>7

\* Whatever the model, the cluster and its memory, the context length an engine chooses is
\* the longest that fits: one more token would take all the blocks of some worker, if not more.
THEOREM LongestAlwaysFits == CacheSpec => []LongestFit
<1>1. Planned => LongestFit
  <2>1. SUFFICES ASSUME Planned, Made, cfg.autofit, NEW len \in (plan.len + 1)..cfg.len
                 PROVE  \E w \in Workers : BlocksPerRequest(plan.groups[w], len, cfg) >= plan.num
    BY DEF LongestFit
  <2>2. PICK groups :
          /\ groups = <<>> => plan.len = cfg.len /\ plan.num = 1
          /\ groups # <<>> => Longest1(plan, Workers, cfg)
    BY <2>1, MadeIsWell
  <2>3. plan.len \in Nat /\ cfg.len \in Nat
    BY <2>1, MadeIsWell DEF CfgTyped
  <2>4. groups # <<>>
    BY <2>1, <2>2, <2>3
  <2> QED
    BY <2>1, <2>2, <2>4 DEF Longest1
<1> QED
  BY <1>1, StaysPlanned, PTL

\* Whatever the model, the cluster and its memory, an engine that starts has the blocks for
\* one request of the full context and for the null block, as the scheduler counts them from
\* the first worker's groups, though a worker may hold other layers or have less memory.
THEOREM OneRequestAlwaysServed == CacheSpec => []ServesOneRequest
<1>1. Planned => ServesOneRequest
  <2>1. SUFFICES ASSUME Planned, Made PROVE ServesOneRequest
    BY DEF ServesOneRequest
  <2>2. /\ CfgTyped(cfg) /\ 1 \in Workers /\ plan.len \in Nat
    BY <2>1, MadeIsWell
  <2>3. PICK groups :
          /\ WellGrouped(groups)
          /\ plan.groups =
               [w \in Workers |-> Project(groups, DOMAIN plan.input.workers[w].spec)]
          /\ groups = <<>> => plan.num = 1
          /\ groups # <<>> => plan.num \in Nat /\ Serves(plan, Workers, cfg)
    BY <2>1, MadeIsWell
  <2>4. PICK G : G = Project(groups, DOMAIN plan.input.workers[1].spec)
    OBVIOUS
  <2>5. plan.groups[1] = G
    BY <2>2, <2>3, <2>4
  <2>6. PICK claim :
          claim = [i \in DOMAIN G |-> PagesOf(G[i].of[Min(DOMAIN G[i].of)], plan.len, cfg)]
    OBVIOUS
  <2>7. /\ DOMAIN SchedulerGroups(plan) = DOMAIN G
        /\ \A i \in DOMAIN G : SchedulerGroups(plan)[i].spec = G[i].of[Min(DOMAIN G[i].of)]
    BY <2>5 DEF SchedulerGroups
  <2>8. claim = [i \in DOMAIN SchedulerGroups(plan) |->
                   PagesOf(SchedulerGroups(plan)[i].spec, plan.len, cfg)]
    BY <2>6, <2>7
  <2>9. SumFunction(claim) < plan.num
    <3>1. CASE groups = <<>>
      <4>1. DOMAIN G = {}
        BY <2>4, <3>1 DEF Project
      <4>2. DOMAIN claim = {}
        BY <2>6, <4>1
      <4>3. SumFunction(claim) = 0
        BY <4>2, SumOfNone
      <4> QED
        BY <2>3, <3>1, <4>3
    <3>2. CASE groups # <<>>
      <4>1. PICK w \in Workers : BlocksPerRequest(plan.groups[w], plan.len, cfg) < plan.num
        BY <2>3, <3>2 DEF Serves
      <4>2. PICK H : H = Project(groups, DOMAIN plan.input.workers[w].spec)
        OBVIOUS
      <4>3. plan.groups[w] = H
        BY <2>3, <4>2
      <4>4. /\ SumFunction(claim) \in Nat
            /\ SumFunction(claim) <= BlocksPerRequest(H, plan.len, cfg)
        <5>1. WellGrouped(groups) /\ groups # <<>> /\ CfgTyped(cfg) /\ plan.len \in Nat
          BY <2>2, <2>3, <3>2
        <5> QED
          BY <2>4, <2>6, <4>2, <5>1, OneSpecSuffices
      <4>5. BlocksPerRequest(H, plan.len, cfg) \in Nat
        <5>1. Formed(H)
          BY <2>3, <3>2, <4>2, ProjectWell
        <5>2. plan.len <= plan.len
          BY <2>2
        <5> QED
          BY <2>2, <5>1, <5>2, BlocksGrow
      <4> QED
        BY <2>3, <3>2, <4>1, <4>3, <4>4, <4>5
    <3> QED
      BY <3>1, <3>2
  <2> QED
    BY <2>8, <2>9 DEF ServesOneRequest
<1> QED
  BY <1>1, StaysPlanned, PTL

-----------------------------------------------------------------------------
(* What workers and scheduler agree on *)

\* The block sizes the scheduler resolves are multiples of the groups' and divide those of
\* the groups that are hashed.
LEMMA BlockSizesAlign ==
  ASSUME NEW n \in Nat, NEW sg, DOMAIN sg = 1..n, Len(sg) = n,
         \A i \in 1..n : sg[i].spec \in KvSpec,
         NEW c, c.caching, c.align_states, n <= 1 => \A i \in 1..n : sg[i].spec.bs = c.block,
         NEW size \in BlockSizes(sg, c), NEW i \in 1..n
  PROVE  /\ sg[i].spec.kind = "tail" \/ sg[i].spec.bs % size.hash = 0
         /\ size.scheduler % sg[i].spec.bs = 0
<1>1. sg[i].spec \in KvSpec /\ sg[i].spec.bs \in Nat \ {0}
  BY DEF KvSpec
<1>2. CASE n <= 1
  <2>1. size = [scheduler |-> c.block, hash |-> c.block]
    BY <1>2 DEF BlockSizes
  <2>2. PICK b : b = sg[i].spec.bs
    OBVIOUS
  <2>3. b \in Nat \ {0} /\ c.block = b
    BY <1>1, <1>2, <2>2
  <2>4. b % b = 0
    BY <2>3
  <2> QED
    BY <2>1, <2>2, <2>3, <2>4
<1>3. CASE ~(n <= 1)
  <2>1. PICK specs, cacheable, all, hashing :
          /\ specs = {sg[k].spec : k \in DOMAIN sg}
          /\ cacheable = {s \in specs : s.kind # "tail"}
          /\ all = {s.bs : s \in specs}
          /\ hashing = {s.bs : s \in IF cacheable = {} THEN specs ELSE cacheable}
    OBVIOUS
  <2>2. PICK unit : unit = IF c.match_unit # 0 THEN c.match_unit ELSE Gcd(hashing)
    OBVIOUS
  <2>3. /\ size = [scheduler |-> Lcm(all), hash |-> unit]
        /\ \A x \in hashing : x % unit = 0
    <3>1. hashing = IF cacheable = {} THEN {s.bs : s \in specs} ELSE {s.bs : s \in cacheable}
      BY <2>1
    <3> QED
      BY <1>3, <2>1, <2>2, <3>1 DEF BlockSizes
  <2>4. sg[i].spec \in specs /\ sg[i].spec.bs \in all
    BY <2>1
  <2>5. sg[i].spec.kind = "tail" \/ sg[i].spec.bs % unit = 0
    <3> SUFFICES ASSUME sg[i].spec.kind # "tail" PROVE sg[i].spec.bs \in hashing
      BY <2>3
    <3>1. sg[i].spec \in cacheable
      BY <2>1, <2>4
    <3> QED
      BY <2>1, <3>1
  <2>6. Lcm(all) % sg[i].spec.bs = 0
    <3>1. all \in SUBSET (Nat \ {0})
      BY <2>1 DEF KvSpec
    <3>2. IsFiniteSet(all)
      <4>1. PICK f : f = [k \in 1..n |-> sg[k].spec.bs]
        OBVIOUS
      <4>2. DOMAIN f = 1..n /\ Range(f) = all
        BY <2>1, <4>1 DEF Range
      <4> QED
        BY <4>2, FS_Interval, FiniteRange
    <3> QED
      BY <2>4, <3>1, <3>2, LcmIsMultiple
  <2> QED
    BY <2>3, <2>5, <2>6
<1> QED
  BY <1>2, <1>3

\* Every worker of a plan has its share of the groups.
LEMMA PlanShares ==
  ASSUME NEW c, NEW workers, NEW groups, NEW p \in PlanOf(c, workers, groups)
  PROVE  p.groups = [w \in DOMAIN workers |-> Project(groups, DOMAIN workers[w].spec)]
<1>1. PICK own : own = [w \in DOMAIN workers |-> Project(groups, DOMAIN workers[w].spec)]
  OBVIOUS
<1>2. \E len, num1 : p = [groups |-> own, len |-> len, num |-> num1]
  <2>1. CASE groups = <<>>
    BY <1>1, <2>1 DEF PlanOf
  <2>2. CASE groups # <<>>
    BY <1>1, <2>2, Zenon DEF PlanOf
  <2> QED
    BY <2>1, <2>2
<1> QED
  BY <1>1, <1>2

\* A list in which every layer is listed once.
LEMMA PartsCounted ==
  ASSUME NEW groups, WellGrouped(groups), NEW spec, IsFiniteSet(DOMAIN spec),
         Parts(groups, DOMAIN spec)
  PROVE  Partitions(groups, spec)
<1>1. PICK n \in Nat : groups = [i \in 1..n |-> groups[i]]
  BY DEF WellGrouped
<1>2. PICK T : T = {groups[i] : i \in 1..n}
  OBVIOUS
<1>3. groups \in Seq(T)
  <2>1. PICK f : f = [i \in 1..n |-> groups[i]]
    OBVIOUS
  <2>2. f \in [1..n -> T]
    BY <1>2, <2>1
  <2>3. f \in Seq(T)
    BY <2>2
  <2> QED
    BY <1>1, <2>1, <2>3
<1> QED
  BY <1>3, PartsPartition

\* What a worker with the layers `one` has of the i-th of the groups, in G: its layers and
\* their specs, one of which the scheduler reads, and the mark of the drafter's group.
Share(groups, one, G, i) ==
  /\ ToSet(G[i].layers) = ToSet(groups[i].layers) \cap one
  /\ ToSet(G[i].layers) \in SUBSET DOMAIN G[i].of
  /\ ToSet(G[i].layers) # {} => (G[i].eagle <=> groups[i].eagle)
  /\ G[i].of[Min(DOMAIN G[i].of)] \in Range(groups[i].of)
  /\ Range(G[i].of) \in SUBSET Range(groups[i].of)
  /\ Range(groups[i].of) \in SUBSET KvSpec
  /\ \A s, t \in Range(groups[i].of) : s.bs = t.bs

\* A worker has its share of every group.
LEMMA OneGroupForAll ==
  ASSUME NEW groups, WellGrouped(groups), NEW n \in Nat, DOMAIN groups = 1..n,
         NEW one, NEW G, G = Project(groups, one), NEW i \in 1..n
  PROVE  DOMAIN G = 1..n /\ Share(groups, one, G, i)
<1>1. groups # <<>>
  <2> SUFFICES ASSUME groups = <<>> PROVE FALSE
    OBVIOUS
  <2>1. DOMAIN groups = {}
    OBVIOUS
  <2> QED
    BY <2>1
<1>2. Grouped(groups[i])
  <2>1. PICK m \in Nat \ {0} : DOMAIN groups = 1..m /\ \A k \in 1..m : Grouped(groups[k])
    BY <1>1, WellFacts
  <2> QED
    BY <2>1
<1>3. PICK g, T, layers : g = groups[i] /\ T = DOMAIN g.of /\ layers = Kept(g.layers, one)
  OBVIOUS
<1>4. /\ g.of \in [T -> KvSpec] /\ T # {} /\ T \in SUBSET Nat
      /\ g.layers \in Seq(T) /\ SamePages(Range(g.of))
  BY <1>2, <1>3 DEF Grouped, FormedGroup
<1>5. layers \in Seq(T \cap one) /\ ToSet(layers) = ToSet(g.layers) \cap one
  BY <1>3, <1>4, KeptIsSeq
<1>6. DOMAIN G = 1..n
  BY DEF Project
<1>7. PICK S : S = ToSet(layers) /\ S \in SUBSET T
  <2>1. ToSet(layers) \in SUBSET (T \cap one)
    BY <1>5, SeqOfElements
  <2> QED
    BY <2>1
<1>8. /\ G[i].layers = layers
      /\ G[i].of = IF layers = <<>> THEN g.of ELSE [l \in S |-> g.of[l]]
      /\ G[i].eagle = (g.eagle /\ layers # <<>>)
  BY <1>3, <1>7 DEF Project, Restrict
<1>9. layers = <<>> => S = {}
  BY <1>7 DEF ToSet
<1>10. layers # <<>> => S # {}
  BY <1>5, <1>7, SeqOfElements
<1>11. /\ S \in SUBSET DOMAIN G[i].of /\ DOMAIN G[i].of \in SUBSET Nat /\ DOMAIN G[i].of # {}
       /\ \A l \in DOMAIN G[i].of : l \in T /\ G[i].of[l] = g.of[l]
  <2>1. CASE layers = <<>>
    <3>1. G[i].of = g.of
      BY <1>8, <2>1
    <3> QED
      BY <1>3, <1>4, <1>9, <2>1, <3>1
  <2>2. CASE layers # <<>>
    <3>1. PICK f : f = [l \in S |-> g.of[l]]
      OBVIOUS
    <3>2. G[i].of = f
      BY <1>8, <2>2, <3>1
    <3> QED
      BY <1>4, <1>7, <1>10, <2>2, <3>1, <3>2
  <2> QED
    BY <2>1, <2>2
<1>12. G[i].of[Min(DOMAIN G[i].of)] \in Range(g.of) /\ Range(G[i].of) \in SUBSET Range(g.of)
  <2>1. Min(DOMAIN G[i].of) \in DOMAIN G[i].of
    BY <1>11, MinOf
  <2>2. \A l \in T : g.of[l] \in Range(g.of)
    BY <1>3 DEF Range
  <2> QED
    BY <1>11, <2>1, <2>2 DEF Range
<1>13. S # {} => (G[i].eagle <=> g.eagle)
  BY <1>8, <1>9
<1>14. Range(g.of) \in SUBSET KvSpec
  BY <1>4 DEF Range
<1>15. \A s, t \in Range(g.of) : s.bs = t.bs
  BY <1>4 DEF SamePages
<1> QED
  BY <1>3, <1>5, <1>6, <1>7, <1>8, <1>11, <1>12, <1>13, <1>14, <1>15 DEF Share

\* Whatever the model and the cluster, the one block table per group that the scheduler keeps
\* is right for every worker: every layer is in one group and counted once, a worker's blocks
\* of a group hold as many tokens as the scheduler's, which its hashes and its alignment
\* divide or are multiples of, and the group of the draft layer is marked as the drafter's.
THEOREM GroupsAlwaysAligned == CacheSpec => []GroupsAligned
<1>1. Planned => GroupsAligned
  <2>1. SUFFICES ASSUME Planned, plan # <<>> PROVE GroupsAligned
    BY DEF GroupsAligned
  <2>2. PICK c, workers, spec, D, stages, sg :
          /\ c = cfg /\ workers = plan.input.workers /\ spec = MergedSpecs(c, workers)
          /\ D = DOMAIN spec /\ stages = Stages(workers) /\ sg = SchedulerGroups(plan)
    OBVIOUS
  <2>3. /\ CfgTyped(c) /\ 1 \in DOMAIN workers
        /\ Evenly(c, spec) /\ (c.caching /\ c.align_states => EngineBlock(c, spec))
        /\ c.mtp => ~IsGlm5(spec)
        /\ IsFiniteSet(stages) /\ D \in SUBSET Nat /\ IsFiniteSet(D)
        /\ spec \in [D -> KvSpec] /\ SameExtra(Range(spec))
    BY <2>1, <2>2, PlannedInputs
  <2>4. Workers = DOMAIN workers
    BY <2>2 DEF Workers
  <2>5. \A groups \in get_kv_cache_groups(c, stages, spec) : Partitions(groups, spec)
    <3> TAKE groups \in get_kv_cache_groups(c, stages, spec)
    <3>1. WellGrouped(groups) /\ Parts(groups, D)
      BY <2>3, GroupsWell
    <3> QED
      BY <2>2, <2>3, <3>1, PartsCounted
  <2>6. ASSUME Made
        PROVE  /\ c.caching /\ c.align_states =>
                    \A i \in DOMAIN sg : \A size \in BlockSizes(sg, c) :
                        /\ sg[i].spec.kind = "tail" \/ sg[i].spec.bs % size.hash = 0
                        /\ size.scheduler % sg[i].spec.bs = 0
               /\ \A i \in DOMAIN sg :
                    /\ \A w \in DOMAIN workers : \A l \in ToSet(plan.groups[w][i].layers) :
                          plan.groups[w][i].of[l].bs = sg[i].spec.bs
                    /\ c.mtp /\ Len(plan.groups[1]) > 1 /\ ToSet(plan.groups[1][i].layers) # {} =>
                         (sg[i].eagle <=>
                            \E w \in DOMAIN workers : Max(D) \in ToSet(plan.groups[w][i].layers))
    <3>1. PICK groups :
            /\ WellGrouped(groups) /\ Parts(groups, D) /\ Shaped(groups, c, D, spec, stages)
            /\ \E p \in PlanOf(c, workers, groups) : plan.groups = p.groups
      BY <2>1, <2>2, <2>6, MadePlan
    <3>2. plan.groups = [w \in DOMAIN workers |-> Project(groups, DOMAIN workers[w].spec)]
      BY <3>1, PlanShares
    <3>3. PICK n \in Nat : /\ groups = [i \in 1..n |-> groups[i]]
      BY <3>1 DEF WellGrouped
    <3>4. DOMAIN groups = 1..n /\ Len(groups) = n
      <4>1. PICK f : f = [i \in 1..n |-> groups[i]]
        OBVIOUS
      <4>2. DOMAIN f = 1..n /\ Len(f) = n
        BY <4>1
      <4> QED
        BY <3>3, <4>1, <4>2
    <3>5. PICK dom : dom = [w \in DOMAIN workers |-> DOMAIN workers[w].spec]
      OBVIOUS
    <3>6. \A w \in DOMAIN workers : plan.groups[w] = Project(groups, dom[w])
      BY <3>2, <3>5
    <3>7. PICK G : G = plan.groups[1] /\ G = Project(groups, dom[1])
      BY <2>3, <3>6
    <3>8. DOMAIN G = 1..n /\ Len(G) = n
      <4>1. G = [i \in 1..n |-> G[i]]
        BY <3>4, <3>7 DEF Project
      <4>2. PICK f : f = [i \in 1..n |-> G[i]]
        OBVIOUS
      <4>3. DOMAIN f = 1..n /\ Len(f) = n
        BY <4>2
      <4> QED
        BY <4>1, <4>2, <4>3
    <3>9. /\ DOMAIN sg = 1..n /\ Len(sg) = n
          /\ \A i \in 1..n : /\ sg[i].spec = G[i].of[Min(DOMAIN G[i].of)]
                             /\ sg[i].eagle = G[i].eagle
      <4>1. PICK f : f = [i \in 1..n |-> [spec |-> G[i].of[Min(DOMAIN G[i].of)],
                                          eagle |-> G[i].eagle]]
        OBVIOUS
      <4>2. sg = f
        BY <2>2, <3>7, <3>8, <4>1 DEF SchedulerGroups
      <4>3. DOMAIN f = 1..n /\ Len(f) = n
        BY <4>1
      <4> QED
        BY <4>1, <4>2, <4>3
    <3>10. ASSUME NEW i \in 1..n
           PROVE  /\ sg[i].spec \in Range(groups[i].of) /\ sg[i].spec \in KvSpec
                  /\ \A s \in Range(groups[i].of) : s.bs = sg[i].spec.bs
                  /\ ToSet(G[i].layers) # {} => (sg[i].eagle <=> groups[i].eagle)
      <4>1. Share(groups, dom[1], G, i)
        BY <3>1, <3>4, <3>7, OneGroupForAll
      <4>2. /\ sg[i].spec = G[i].of[Min(DOMAIN G[i].of)] /\ sg[i].eagle = G[i].eagle
        BY <3>9
      <4> QED
        BY <4>1, <4>2 DEF Share
    <3>11. ASSUME NEW i \in 1..n, NEW w \in DOMAIN workers
           PROVE  /\ ToSet(plan.groups[w][i].layers) = ToSet(groups[i].layers) \cap dom[w]
                  /\ \A l \in ToSet(plan.groups[w][i].layers) :
                        plan.groups[w][i].of[l] \in Range(groups[i].of)
      <4>1. PICK H : H = Project(groups, dom[w])
        OBVIOUS
      <4>2. /\ ToSet(H[i].layers) = ToSet(groups[i].layers) \cap dom[w]
            /\ ToSet(H[i].layers) \in SUBSET DOMAIN H[i].of
            /\ Range(H[i].of) \in SUBSET Range(groups[i].of)
        <5>1. Share(groups, dom[w], H, i)
          BY <3>1, <3>4, <4>1, OneGroupForAll
        <5> QED
          BY <5>1 DEF Share
      <4>3. \A l \in ToSet(H[i].layers) : H[i].of[l] \in Range(H[i].of)
        BY <4>2 DEF Range
      <4> QED
        BY <3>6, <4>1, <4>2, <4>3
    <3>12. ASSUME c.caching, c.align_states, n <= 1, NEW i \in 1..n
           PROVE  sg[i].spec.bs = c.block
      <4>1. EngineBlock(c, spec)
        BY <2>3, <3>12
      <4>2. OwnBlock(groups, c)
        BY <3>1, <3>4, <3>12, <4>1 DEF Shaped
      <4> QED
        BY <3>4, <3>10, <4>2 DEF OwnBlock
    <3>13. ASSUME c.caching, c.align_states, NEW i \in 1..n, NEW size \in BlockSizes(sg, c)
           PROVE  /\ sg[i].spec.kind = "tail" \/ sg[i].spec.bs % size.hash = 0
                  /\ size.scheduler % sg[i].spec.bs = 0
      <4>1. \A k \in 1..n : sg[k].spec \in KvSpec
        BY <3>10
      <4>2. n <= 1 => \A k \in 1..n : sg[k].spec.bs = c.block
        BY <3>12, <3>13
      <4> QED
        BY <3>9, <3>13, <4>1, <4>2, BlockSizesAlign
    <3>14. ASSUME c.mtp, n > 1, NEW i \in 1..n, ToSet(G[i].layers) # {}
           PROVE  sg[i].eagle <=>
                    \E w \in DOMAIN workers : Max(D) \in ToSet(plan.groups[w][i].layers)
      <4>1. groups[i].eagle = (Max(D) \in ToSet(groups[i].layers))
        BY <2>3, <3>1, <3>4, <3>14 DEF Shaped
      <4>2. ToSet(groups[i].layers) \subseteq D
        BY <3>1, <3>4 DEF Parts
      <4>3. D = UNION {dom[w] : w \in DOMAIN workers}
        BY <2>2, <3>5 DEF MergedSpecs
      <4>4. sg[i].eagle <=> Max(D) \in ToSet(groups[i].layers)
        BY <3>10, <3>14, <4>1
      <4>5. PICK x : x = Max(D)
        OBVIOUS
      <4>6. x \in ToSet(groups[i].layers) => \E w \in DOMAIN workers : x \in dom[w]
        BY <4>2, <4>3
      <4>7. \A w \in DOMAIN workers : x \in ToSet(plan.groups[w][i].layers) <=>
              x \in ToSet(groups[i].layers) /\ x \in dom[w]
        BY <3>11
      <4> QED
        BY <4>4, <4>5, <4>6, <4>7
    <3> QED
      BY <3>7, <3>8, <3>9, <3>10, <3>11, <3>13, <3>14
  <2>7. \A groups \in get_kv_cache_groups(cfg, Stages(plan.input.workers),
                                           MergedSpecs(cfg, plan.input.workers)) :
          Partitions(groups, MergedSpecs(cfg, plan.input.workers))
    BY <2>2, <2>5
  <2>8. Made /\ cfg.caching /\ cfg.align_states =>
          \A i \in DOMAIN SchedulerGroups(plan) : \A size \in BlockSizes(SchedulerGroups(plan), cfg) :
            /\ \/ SchedulerGroups(plan)[i].spec.kind = "tail"
               \/ SchedulerGroups(plan)[i].spec.bs % size.hash = 0
            /\ size.scheduler % SchedulerGroups(plan)[i].spec.bs = 0
    BY <2>2, <2>6
  <2>9. ASSUME Made, NEW i \in DOMAIN SchedulerGroups(plan)
        PROVE  /\ \A w \in Workers : \A l \in ToSet(plan.groups[w][i].layers) :
                    plan.groups[w][i].of[l].bs = SchedulerGroups(plan)[i].spec.bs
               /\ cfg.mtp /\ Len(plan.groups[1]) > 1 /\ ToSet(plan.groups[1][i].layers) # {} =>
                    (SchedulerGroups(plan)[i].eagle <=>
                       \E w \in Workers : Max(DOMAIN MergedSpecs(cfg, plan.input.workers))
                                              \in ToSet(plan.groups[w][i].layers))
    BY <2>2, <2>4, <2>6, <2>9
  <2> QED
    BY <2>1, <2>7, <2>8, <2>9, Zenon DEF GroupsAligned
<1> QED
  BY <1>1, StaysPlanned, PTL

-----------------------------------------------------------------------------
(* Sums over the parts of a set *)

\* G adds up f over every part of X, whatever is taken first.
Adds(X, f, G) ==
  /\ G[{}] = 0
  /\ \A S \in SUBSET X : G[S] \in Nat
  /\ \A S \in SUBSET X : \A x \in S : G[S] = f[x] + G[S \ {x}]
  /\ \A S \in SUBSET X : SumFunction([x \in S |-> f[x]]) = G[S]

\* SumFunction adds up in an order of its own, but another order gives the same.
LEMMA SumsAdd ==
  ASSUME NEW X, IsFiniteSet(X), NEW f \in [X -> Nat]
  PROVE  \E G : Adds(X, f, G)
<1>1. PICK G : IsSum(X, f, G)
  BY SumExists
<1>2. \A S \in SUBSET X : G[S] = SumStep(f, G, S)
  BY <1>1 DEF IsSum
<1>3. G[{}] = 0
  BY <1>2 DEF SumStep
<1>4. ASSUME NEW S \in SUBSET X, S # {}
      PROVE  \E r \in S : G[S] = f[r] + G[S \ {r}]
  <2>1. PICK r : r = CHOOSE x \in S : TRUE
    OBVIOUS
  <2>2. G[S] = f[r] + G[S \ {r}]
    BY <1>2, <1>4, <2>1 DEF SumStep
  <2> QED
    BY <1>4, <2>1, <2>2
<1>5. \A S \in SUBSET X : G[S] \in Nat
  <2> DEFINE Good == {S \in SUBSET X : G[S] \in Nat}
  <2>1. ASSUME NEW S \in SUBSET X, \A r \in S : S \ {r} \in Good PROVE S \in Good
    <3>1. CASE S = {}
      BY <1>3, <3>1
    <3>2. CASE S # {}
      <4>1. PICK r \in S : G[S] = f[r] + G[S \ {r}]
        BY <1>4, <3>2
      <4>2. f[r] \in Nat /\ G[S \ {r}] \in Nat
        BY <2>1
      <4> QED
        BY <4>1, <4>2
    <3> QED
      BY <3>1, <3>2
  <2> HIDE DEF Good
  <2>2. \A S \in SUBSET X : S \in Good
    BY <2>1, SmallerSets
  <2> QED
    BY <2>2 DEF Good
<1>6. \A S \in SUBSET X : \A x \in S : G[S] = f[x] + G[S \ {x}]
  <2> DEFINE Good == {S \in SUBSET X : \A x \in S : G[S] = f[x] + G[S \ {x}]}
  <2>1. ASSUME NEW S \in SUBSET X, \A r \in S : S \ {r} \in Good PROVE S \in Good
    <3> SUFFICES ASSUME NEW x \in S PROVE G[S] = f[x] + G[S \ {x}]
      OBVIOUS
    <3>1. PICK r \in S : G[S] = f[r] + G[S \ {r}]
      BY <1>4
    <3>2. CASE x = r
      BY <3>1, <3>2
    <3>3. CASE x # r
      <4>1. PICK T : T = (S \ {r}) \ {x} /\ T = (S \ {x}) \ {r}
        OBVIOUS
      <4>2. G[S \ {r}] = f[x] + G[T]
        <5>1. x \in S \ {r}
          BY <3>3
        <5> QED
          BY <2>1, <4>1, <5>1
      <4>3. G[S \ {x}] = f[r] + G[T]
        <5>1. r \in S \ {x}
          BY <3>3
        <5> QED
          BY <2>1, <4>1, <5>1
      <4>4. f[x] \in Nat /\ f[r] \in Nat /\ G[T] \in Nat
        BY <1>5, <4>1
      <4> QED
        BY <3>1, <4>2, <4>3, <4>4
    <3> QED
      BY <3>2, <3>3
  <2> HIDE DEF Good
  <2>2. \A S \in SUBSET X : S \in Good
    BY <2>1, SmallerSets
  <2> QED
    BY <2>2 DEF Good
<1>7. ASSUME NEW A \in SUBSET X PROVE SumFunction([x \in A |-> f[x]]) = G[A]
  <2>1. PICK h : h = [x \in A |-> f[x]]
    OBVIOUS
  <2>2. IsFiniteSet(A) /\ DOMAIN h = A
    BY <2>1, FS_Subset
  <2>3. PICK k : IsSum(A, h, k) /\ SumFunction(h) = k[A]
    BY <2>2, SumUnfolds
  <2>4. \A S \in SUBSET A : k[S] = SumStep(h, k, S)
    BY <2>3 DEF IsSum
  <2> DEFINE Good == {S \in SUBSET A : k[S] = G[S]}
  <2>5. ASSUME NEW S \in SUBSET A, \A r \in S : S \ {r} \in Good PROVE S \in Good
    <3>1. CASE S = {}
      BY <1>3, <2>4, <3>1 DEF SumStep
    <3>2. CASE S # {}
      <4>1. PICK r : r = CHOOSE x \in S : TRUE
        OBVIOUS
      <4>2. r \in S
        BY <3>2, <4>1
      <4>3. k[S] = h[r] + k[S \ {r}]
        BY <2>4, <3>2, <4>1 DEF SumStep
      <4>4. k[S \ {r}] = G[S \ {r}] /\ h[r] = f[r]
        BY <2>1, <2>5, <4>2
      <4>5. G[S] = f[r] + G[S \ {r}]
        BY <1>6, <4>2
      <4> QED
        BY <4>3, <4>4, <4>5
    <3> QED
      BY <3>1, <3>2
  <2> HIDE DEF Good
  <2>6. \A S \in SUBSET A : S \in Good
    BY <2>2, <2>5, SmallerSets
  <2>7. A \in Good
    BY <2>6
  <2> QED
    BY <2>1, <2>3, <2>7 DEF Good
<1> QED
  BY <1>3, <1>5, <1>6, <1>7 DEF Adds

\* Two parts with nothing in common add up.
LEMMA AddsApart ==
  ASSUME NEW X, IsFiniteSet(X), NEW f \in [X -> Nat], NEW G, Adds(X, f, G),
         NEW A \in SUBSET X, NEW B \in SUBSET X, A \cap B = {}
  PROVE  G[A \cup B] = G[A] + G[B]
<1> DEFINE Good == {S \in SUBSET B : G[A \cup S] = G[A] + G[S]}
<1>1. \A S \in SUBSET X : G[S] \in Nat
  BY DEF Adds
<1>2. ASSUME NEW S \in SUBSET B, \A r \in S : S \ {r} \in Good PROVE S \in Good
  <2>1. CASE S = {}
    <3>1. A \cup S = A /\ G[S] = 0 /\ G[A] \in Nat
      BY <1>1, <2>1 DEF Adds
    <3> QED
      BY <3>1
  <2>2. CASE S # {}
    <3>1. PICK r \in S : TRUE
      BY <2>2
    <3>2. PICK T, U, V : T = S \ {r} /\ U = A \cup S /\ V = A \cup T
      OBVIOUS
    <3>3. U \ {r} = V /\ r \in U /\ U \in SUBSET X /\ V \in SUBSET X /\ S \in SUBSET X
          /\ T \in SUBSET X /\ r \in X
      BY <3>1, <3>2
    <3>4. G[U] = f[r] + G[V] /\ G[S] = f[r] + G[T]
      BY <3>1, <3>2, <3>3 DEF Adds
    <3>5. G[V] = G[A] + G[T]
      BY <1>2, <3>1, <3>2
    <3>6. G[A] \in Nat /\ G[T] \in Nat /\ f[r] \in Nat
      BY <1>1, <3>3
    <3>7. G[U] = G[A] + G[S]
      BY <3>4, <3>5, <3>6
    <3> QED
      BY <3>2, <3>7
  <2> QED
    BY <2>1, <2>2
<1> HIDE DEF Good
<1>3. IsFiniteSet(B)
  BY FS_Subset
<1>4. \A S \in SUBSET B : S \in Good
  BY <1>2, <1>3, SmallerSets
<1>5. B \in Good
  BY <1>4
<1> QED
  BY <1>5 DEF Good

\* A part that leaves out a member adds up to less by as much at least.
LEMMA AddsLess ==
  ASSUME NEW X, IsFiniteSet(X), NEW f \in [X -> Nat], NEW G, Adds(X, f, G),
         NEW A \in SUBSET X, NEW B \in SUBSET X, NEW x \in B, A \subseteq B \ {x}
  PROVE  G[A] + f[x] <= G[B]
<1>1. PICK T, R : T = B \ {x} /\ R = T \ A
  OBVIOUS
<1>2. T \in SUBSET X /\ R \in SUBSET X /\ A \cap R = {} /\ A \cup R = T
  BY <1>1
<1>3. G[T] = G[A] + G[R]
  <2>1. G[A \cup R] = G[A] + G[R]
    BY <1>2, AddsApart
  <2> QED
    BY <1>2, <2>1
<1>4. G[B] = f[x] + G[T]
  BY <1>1 DEF Adds
<1>5. G[A] \in Nat /\ G[R] \in Nat /\ f[x] \in Nat
  BY <1>2 DEF Adds
<1> QED
  BY <1>3, <1>4, <1>5

AllAre(f, A, p) == \A x \in A : f[x] = p

\* Equal terms are multiplied.
LEMMA AddsEqual ==
  ASSUME NEW X, IsFiniteSet(X), NEW f \in [X -> Nat], NEW G, Adds(X, f, G),
         NEW A \in SUBSET X, NEW p \in Nat, AllAre(f, A, p)
  PROVE  G[A] = Cardinality(A) * p /\ Cardinality(A) \in Nat
<1> DEFINE Good == {S \in SUBSET A : G[S] = Cardinality(S) * p}
<1>1. \A S \in SUBSET A : IsFiniteSet(S) /\ Cardinality(S) \in Nat
  BY FS_Subset, FS_CardinalityType
<1>2. ASSUME NEW S \in SUBSET A, \A r \in S : S \ {r} \in Good PROVE S \in Good
  <2>1. CASE S = {}
    <3>1. G[S] = 0 /\ Cardinality(S) = 0
      BY <2>1, FS_EmptySet DEF Adds
    <3> QED
      BY <3>1
  <2>2. CASE S # {}
    <3>1. PICK r \in S : TRUE
      BY <2>2
    <3>2. PICK n, T : T = S \ {r} /\ n = Cardinality(T)
      OBVIOUS
    <3>3. Cardinality(S) = n + 1 /\ n \in Nat
      <4>1. n = Cardinality(S) - 1 /\ Cardinality(S) \in Nat /\ n \in Nat
        BY <1>1, <3>1, <3>2, FS_RemoveElement
      <4> QED
        BY <4>1
    <3>4. G[S] = p + G[T] /\ G[T] = n * p
      BY <1>2, <3>1, <3>2 DEF Adds, AllAre
    <3>5. p + n * p = (n + 1) * p
      BY <3>3
    <3> QED
      BY <3>3, <3>4, <3>5
  <2> QED
    BY <2>1, <2>2
<1> HIDE DEF Good
<1>3. IsFiniteSet(A)
  BY FS_Subset
<1>4. \A S \in SUBSET A : S \in Good
  BY <1>2, <1>3, SmallerSets
<1>5. A \in Good
  BY <1>4
<1> QED
  BY <1>1, <1>5 DEF Good

\* C are parts of X with nothing in common, h the sum over each, and U all of them.
Classes(X, T, C, G, h, U) ==
  /\ IsFiniteSet(T) /\ C \in [T -> SUBSET X]
  /\ \A s, t \in T : s # t => C[s] \cap C[t] = {}
  /\ h = [t \in T |-> G[C[t]]] /\ U = UNION {C[t] : t \in T}
SumIs(h, G, U) == SumFunction(h) = G[U]

\* The sums of classes add up to the sum of all that is in one.
LEMMA ClassesAdd ==
  ASSUME NEW X, IsFiniteSet(X), NEW f \in [X -> Nat], NEW G, Adds(X, f, G),
         NEW T, NEW C, NEW h, NEW U, Classes(X, T, C, G, h, U)
  PROVE  SumIs(h, G, U)
<1>1. /\ IsFiniteSet(T) /\ C \in [T -> SUBSET X]
      /\ \A s, t \in T : s # t => C[s] \cap C[t] = {}
      /\ h = [t \in T |-> G[C[t]]] /\ U = UNION {C[t] : t \in T}
  BY DEF Classes
<1>2. DOMAIN h = T /\ h \in [T -> Nat]
  BY <1>1 DEF Adds
<1>3. PICK k : IsSum(T, h, k) /\ SumFunction(h) = k[T]
  BY <1>1, <1>2, SumUnfolds
<1>4. \A S \in SUBSET T : k[S] = SumStep(h, k, S)
  BY <1>3 DEF IsSum
<1> DEFINE All(S) == UNION {C[t] : t \in S}
           Good == {S \in SUBSET T : k[S] = G[All(S)]}
<1>5. ASSUME NEW S \in SUBSET T, \A r \in S : S \ {r} \in Good PROVE S \in Good
  <2>1. CASE S = {}
    <3>1. All(S) = {} /\ k[S] = 0
      <4>1. k[S] = SumStep(h, k, S)
        BY <1>4
      <4>2. SumStep(h, k, S) = 0
        BY <2>1, Zenon DEF SumStep
      <4> QED
        BY <2>1, <4>1, <4>2
    <3>2. G[{}] = 0
      BY DEF Adds
    <3>3. k[S] = G[All(S)]
      <4>1. PICK V : V = All(S)
        OBVIOUS
      <4> HIDE DEF All
      <4>2. V = {}
        BY <3>1, <4>1
      <4> QED
        BY <3>1, <3>2, <4>1, <4>2
    <3> QED
      BY <3>3
  <2>2. CASE S # {}
    <3>1. PICK r : r = CHOOSE x \in S : TRUE
      OBVIOUS
    <3>2. r \in S /\ r \in T
      BY <2>2, <3>1
    <3>3. k[S] = h[r] + k[S \ {r}]
      BY <1>4, <2>2, <3>1 DEF SumStep
    <3>4. k[S \ {r}] = G[All(S \ {r})] /\ h[r] = G[C[r]]
      BY <1>1, <1>5, <3>2
    <3>5. PICK A, B : A = C[r] /\ B = All(S \ {r})
      OBVIOUS
    <3>6. A \in SUBSET X /\ B \in SUBSET X /\ All(S) = A \cup B
      BY <1>1, <3>2, <3>5
    <3>7. A \cap B = {}
      BY <1>1, <3>2, <3>5
    <3>8. G[A \cup B] = G[A] + G[B]
      BY <3>6, <3>7, AddsApart
    <3> QED
      BY <3>3, <3>4, <3>5, <3>6, <3>8
  <2> QED
    BY <2>1, <2>2
<1> HIDE DEF Good, All
<1>6. \A S \in SUBSET T : S \in Good
  BY <1>1, <1>5, SmallerSets
<1>7. T \in Good
  BY <1>6
<1> QED
  BY <1>1, <1>3, <1>7 DEF Good, All, SumIs

-----------------------------------------------------------------------------
(* Where the pages of a group lie in a block *)

\* q lists what s has at the places I, in order: at[k] is the k-th of them.
Picked(q, s, I, n, at) ==
  /\ at \in Bijection(1..n, I) /\ Len(q) = n /\ DOMAIN q = 1..n
  /\ \A k \in 1..n : /\ q[k] = s[at[k]] /\ at[k] \in I
                     /\ Cardinality({i \in I : i < at[k]}) = k - 1

\* What is kept of a sequence are its elements in S in their order.
LEMMA KeptAt ==
  ASSUME NEW T, NEW s \in Seq(T), NEW S, NEW I, I = {i \in DOMAIN s : s[i] \in S}
  PROVE  \E n \in Nat : \E at : Picked(Kept(s, S), s, I, n, at)
<1>1. DOMAIN s \in SUBSET Nat /\ IsFiniteSet(DOMAIN s)
  BY SeqFacts
<1>2. I \in SUBSET Nat /\ IsFiniteSet(I)
  BY <1>1, FS_Subset
<1>3. PICK n, at : n = Cardinality(I) /\ at = InOrder(I)
  OBVIOUS
<1>4. /\ n \in Nat /\ at \in Bijection(1..n, I) /\ DOMAIN at = 1..n
      /\ \A i, j \in 1..n : i < j <=> at[i] < at[j]
  <2>1. n \in Nat /\ at \in Bijection(1..n, I) /\ DOMAIN at = 1..n
    BY <1>2, <1>3, InOrderLists, InOrderIsSeq, FS_CardinalityType
  <2>2. \A i, j \in 1..n : i < j <=> at[i] < at[j]
    BY <1>2, <1>3, InOrderLists
  <2> QED
    BY <2>1, <2>2
<1>5. \A k \in 1..n : at[k] \in I /\ s[at[k]] \in T /\ at[k] \in Nat
  <2>1. \A k \in 1..n : at[k] \in I
    BY <1>4 DEF Bijection, Injection
  <2>2. \A i \in DOMAIN s : s[i] \in T
    BY SeqFacts
  <2> QED
    BY <1>2, <2>1, <2>2
<1>6. PICK q : q = [k \in 1..n |-> s[at[k]]]
  OBVIOUS
<1>7. Kept(s, S) = q
  BY <1>3, <1>4, <1>6 DEF Kept
<1>8. q \in Seq(T) /\ Len(q) = n /\ DOMAIN q = 1..n
  <2>1. q \in [1..n -> T]
    BY <1>5, <1>6
  <2> QED
    BY <1>4, <1>6, <2>1
<1>9. ASSUME NEW k \in 1..n PROVE Cardinality({i \in I : i < at[k]}) = k - 1
  <2>1. PICK B, f : B = {i \in I : i < at[k]} /\ f = [m \in 1..(k - 1) |-> at[m]]
    OBVIOUS
  <2>2. k - 1 \in Nat /\ \A m \in 1..(k - 1) : m \in 1..n /\ m < k
    BY <1>4
  <2>3. f \in [1..(k - 1) -> B]
    BY <1>4, <1>5, <2>1, <2>2
  <2>4. \A i \in B : \E m \in 1..(k - 1) : f[m] = i
    <3> TAKE i \in B
    <3>1. PICK m \in 1..n : at[m] = i
      BY <1>4, <2>1 DEF Bijection, Surjection
    <3>2. m < k
      BY <1>4, <2>1, <3>1
    <3>3. m \in 1..(k - 1)
      BY <1>4, <3>1, <3>2
    <3> QED
      BY <2>1, <3>1, <3>3
  <2>5. \A l, m \in 1..(k - 1) : f[l] = f[m] => l = m
    BY <1>4, <2>1, <2>2 DEF Bijection, Injection, IsInjective
  <2>6. f \in Bijection(1..(k - 1), B)
    BY <2>3, <2>4, <2>5 DEF Bijection, Injection, Surjection, IsInjective
  <2>7. ExistsBijection(1..(k - 1), B)
    BY <2>6 DEF ExistsBijection
  <2>8. Cardinality(1..(k - 1)) = k - 1 /\ IsFiniteSet(1..(k - 1))
    BY <2>2, FS_Interval
  <2> QED
    BY <2>1, <2>7, <2>8, FS_Bijection
<1>10. \A k \in 1..n : q[k] = s[at[k]]
  BY <1>6
<1>11. Picked(Kept(s, S), s, I, n, at)
  BY <1>4, <1>5, <1>7, <1>8, <1>9, <1>10 DEF Picked
<1> QED
  BY <1>4, <1>11

\* A list without repetition has none in what is kept of it.
LEMMA KeptOnce ==
  ASSUME NEW S, NEW s, EachOnce(s, S), NEW A
  PROVE  EachOnce(Kept(s, A), S \cap A)
<1>1. s \in Seq(S) /\ ToSet(s) = S /\ \A i, j \in DOMAIN s : s[i] = s[j] => i = j
  BY DEF EachOnce
<1>2. Kept(s, A) \in Seq(S \cap A) /\ ToSet(Kept(s, A)) = S \cap A
  BY <1>1, KeptIsSeq
<1>3. PICK I : I = {i \in DOMAIN s : s[i] \in A}
  OBVIOUS
<1>8. PICK n \in Nat : \E at : Picked(Kept(s, A), s, I, n, at)
  BY <1>1, <1>3, KeptAt
<1>4. PICK at : Picked(Kept(s, A), s, I, n, at)
  BY <1>8
<1>7. /\ DOMAIN Kept(s, A) = 1..n
      /\ \A k \in 1..n : Kept(s, A)[k] = s[at[k]] /\ at[k] \in I
  BY <1>4 DEF Picked
<1>5. \A i, j \in 1..n : at[i] = at[j] => i = j
  BY <1>4 DEF Picked, Bijection, Injection, IsInjective
<1>6. \A i, j \in DOMAIN Kept(s, A) : Kept(s, A)[i] = Kept(s, A)[j] => i = j
  BY <1>1, <1>3, <1>5, <1>7
<1> QED
  BY <1>2, <1>6 DEF EachOnce

\* The layers of a group with one spec, the place of the first, and the bytes of the specs
\* that come earlier, as Tensors has them.
Row(g, s) == Kept(g.layers, {l \in DOMAIN g.of : g.of[l] = s})
FirstAt(g, s) == Min({i \in DOMAIN g.layers : g.of[g.layers[i]] = s})
Ahead(g, s) ==
  SumFunction([t \in {u \in SpecsOf(g.of, ToSet(g.layers)) : FirstAt(g, u) < FirstAt(g, s)} |->
                  Len(Row(g, t)) * Page(t)])

\* r gives the pages of a group bytes of their own within its block, those of a row in order.
Placed(g, r) ==
  /\ r \in [DOMAIN g.layers -> Nat]
  /\ \A i \in DOMAIN g.layers : r[i] + PageOf(g, g.layers[i]) <= GroupBytes(g)
  /\ \A i, j \in DOMAIN g.layers :
       i # j => \/ r[i] + PageOf(g, g.layers[i]) <= r[j]
                \/ r[j] + PageOf(g, g.layers[j]) <= r[i]
  /\ \A p \in Nat : (\A i \in DOMAIN g.layers : PageOf(g, g.layers[i]) = p) =>
       \A i \in DOMAIN g.layers : \E m \in Nat : r[i] = m * p
  /\ \A s \in SpecsOf(g.of, ToSet(g.layers)) :
       Ahead(g, s) \in Nat /\ DOMAIN Row(g, s) \in SUBSET (Nat \ {0})
  /\ \A s \in SpecsOf(g.of, ToSet(g.layers)) : \A k \in DOMAIN Row(g, s) :
       \E i \in DOMAIN g.layers : /\ g.of[g.layers[i]] = s /\ Row(g, s)[k] = g.layers[i]
                                  /\ r[i] = Ahead(g, s) + (k - 1) * Page(s)
  /\ \A i \in DOMAIN g.layers : \E k \in DOMAIN Row(g, g.of[g.layers[i]]) :
       Row(g, g.of[g.layers[i]])[k] = g.layers[i]

\* Rows one after the other have their pages apart: the bytes before a page are those of the
\* pages before it, in the order of the rows and within a row in its own.
LEMMA RowsPlaced ==
  ASSUME NEW g, Grouped(g)
  PROVE  \E r : Placed(g, r)
<1>1. PICK T, I, specs : /\ T = DOMAIN g.of /\ I = DOMAIN g.layers
                         /\ specs = SpecsOf(g.of, ToSet(g.layers))
  OBVIOUS
<1>2. g.of \in [T -> KvSpec] /\ g.layers \in Seq(T) /\ \A i \in I : g.layers[i] \in T
  <2>1. g.of \in [T -> KvSpec] /\ g.layers \in Seq(T)
    BY <1>1 DEF Grouped, FormedGroup
  <2> QED
    BY <1>1, <2>1, SeqFacts
<1>3. IsFiniteSet(I) /\ I \in SUBSET Nat
  <2>1. I = 1..Len(g.layers) /\ Len(g.layers) \in Nat /\ IsFiniteSet(I)
    BY <1>1, <1>2, SeqFacts
  <2> QED
    BY <2>1
<1>4. PICK sp : sp = [i \in I |-> g.of[g.layers[i]]]
  OBVIOUS
<1>5. sp \in [I -> KvSpec]
  BY <1>2, <1>4
<1>6. specs = {sp[i] : i \in I} /\ IsFiniteSet(specs)
  <2>1. specs = {sp[i] : i \in I}
    BY <1>1, <1>4 DEF SpecsOf, ToSet
  <2>2. Range(sp) = specs /\ DOMAIN sp = I
    BY <1>4, <2>1 DEF Range
  <2> QED
    BY <1>3, <2>1, <2>2, FiniteRange
<1>7. PICK f : f = [i \in I |-> Page(sp[i])]
  OBVIOUS
<1>8. f \in [I -> Nat]
  <2>1. \A i \in I : Page(sp[i]) \in Nat
    BY <1>5, PageTyped
  <2> QED
    BY <1>7, <2>1
<1>9. \A i \in I : PageOf(g, g.layers[i]) = f[i] /\ f[i] \in Nat
  BY <1>4, <1>7, <1>8 DEF PageOf
<1>10. PICK G : Adds(I, f, G)
  BY <1>3, <1>8, SumsAdd
<1>11. GroupBytes(g) = G[I]
  <2>1. SumFunction([i \in I |-> f[i]]) = G[I]
    BY <1>10 DEF Adds
  <2>2. [i \in I |-> f[i]] = [i \in I |-> PageOf(g, g.layers[i])]
    BY <1>9
  <2> QED
    BY <1>1, <2>1, <2>2 DEF GroupBytes
<1>12. PICK C : C = [s \in specs |-> {i \in I : sp[i] = s}]
  OBVIOUS
<1>13. C \in [specs -> SUBSET I] /\ \A s \in specs : C[s] # {} /\ \A i \in C[s] : sp[i] = s
  BY <1>6, <1>12
<1>14. PICK first : first = [s \in specs |-> FirstAt(g, s)]
  OBVIOUS
<1>15. ASSUME NEW s \in specs PROVE first[s] \in C[s] /\ first[s] \in Nat
  <2>1. {i \in DOMAIN g.layers : g.of[g.layers[i]] = s} = C[s]
    BY <1>1, <1>4, <1>12
  <2>2. PICK c : c = C[s]
    OBVIOUS
  <2>3. c \in SUBSET Nat /\ c # {}
    BY <1>3, <1>13, <2>2
  <2>4. Min(c) \in c
    BY <2>3, MinOf
  <2>5. first[s] = Min(c)
    BY <1>14, <2>1, <2>2 DEF FirstAt
  <2> QED
    BY <2>2, <2>3, <2>4, <2>5
<1>16. \A s, t \in specs : first[s] = first[t] => s = t
  BY <1>13, <1>15
<1>17. \A i \in I : sp[i] \in specs /\ i \in C[sp[i]]
  BY <1>6, <1>12
<1> DEFINE before(i) == {j \in I : first[sp[j]] < first[sp[i]] \/ (sp[j] = sp[i] /\ j < i)}
<1>18. PICK B, r : B = [i \in I |-> before(i)] /\ r = [i \in I |-> G[before(i)]]
  OBVIOUS
<1>19. /\ B \in [I -> SUBSET I]
       /\ \A i, j \in I : j \in B[i] <=> (first[sp[j]] < first[sp[i]] \/ (sp[j] = sp[i] /\ j < i))
       /\ \A i \in I : r[i] = G[B[i]]
  BY <1>18
<1> HIDE DEF before
<1>20. \A i \in I : i \in Nat /\ first[sp[i]] \in Nat
  BY <1>3, <1>15, <1>17
<1>21. r \in [I -> Nat]
  <2>1. \A i \in I : G[B[i]] \in Nat
    BY <1>10, <1>19 DEF Adds
  <2> QED
    BY <1>18, <1>19, <2>1
<1>22. ASSUME NEW i \in I PROVE r[i] + f[i] <= G[I]
  <2>1. PICK b : b = B[i]
    OBVIOUS
  <2>2. b \in SUBSET I /\ b \subseteq I \ {i} /\ I \in SUBSET I
    BY <1>19, <1>20, <2>1
  <2>3. G[b] + f[i] <= G[I]
    BY <1>3, <1>8, <1>10, <2>2, AddsLess
  <2> QED
    BY <1>19, <2>1, <2>3
<1>23. ASSUME NEW i \in I, NEW j \in I, i \in B[j] PROVE r[i] + f[i] <= r[j]
  <2>1. \A k \in B[i] : k \in B[j]
    <3> TAKE k \in B[i]
    <3>1. k \in I
      BY <1>19
    <3> QED
      BY <1>19, <1>20, <1>23, <3>1
  <2>2. i \notin B[i]
    BY <1>19, <1>20
  <2>3. B[i] \in SUBSET I /\ B[j] \in SUBSET I /\ i \in B[j] /\ B[i] \subseteq B[j] \ {i}
    BY <1>19, <1>23, <2>1, <2>2
  <2>4. G[B[i]] + f[i] <= G[B[j]]
    BY <1>3, <1>8, <1>10, <2>3, AddsLess
  <2> QED
    BY <1>19, <2>4
<1>24. \A i, j \in I : i # j => i \in B[j] \/ j \in B[i]
  <2> TAKE i, j \in I
  <2>1. first[sp[i]] < first[sp[j]] \/ first[sp[j]] < first[sp[i]] \/ first[sp[i]] = first[sp[j]]
    BY <1>20
  <2>2. first[sp[i]] = first[sp[j]] => sp[i] = sp[j]
    BY <1>16, <1>17
  <2> QED
    BY <1>19, <1>20, <2>1, <2>2
<1>25. ASSUME NEW p \in Nat, \A i \in I : f[i] = p, NEW i \in I
       PROVE  \E m \in Nat : r[i] = m * p
  <2>1. B[i] \in SUBSET I
    BY <1>19
  <2>2. AllAre(f, B[i], p)
    BY <1>25, <2>1 DEF AllAre
  <2>3. G[B[i]] = Cardinality(B[i]) * p /\ Cardinality(B[i]) \in Nat
    BY <1>3, <1>8, <1>10, <2>1, <2>2, AddsEqual
  <2> QED
    BY <1>19, <2>3
<1>26. ASSUME NEW s \in specs
       PROVE  \E n \in Nat : \E at : Picked(Row(g, s), g.layers, C[s], n, at)
  <2>1. PICK L : L = {l \in DOMAIN g.of : g.of[l] = s}
    OBVIOUS
  <2>2. C[s] = {i \in DOMAIN g.layers : g.layers[i] \in L}
    BY <1>1, <1>2, <1>4, <1>12, <2>1
  <2>3. g.layers \in Seq(T)
    BY <1>2
  <2> QED
    BY <2>1, <2>2, <2>3, KeptAt DEF Row
<1>27. ASSUME NEW s \in specs PROVE Len(Row(g, s)) * Page(s) = G[C[s]]
  <2>1. PICK n \in Nat : \E at : Picked(Row(g, s), g.layers, C[s], n, at)
    BY <1>26
  <2>2. PICK at : Picked(Row(g, s), g.layers, C[s], n, at)
    BY <2>1
  <2>3. at \in Bijection(1..n, C[s]) /\ Len(Row(g, s)) = n
    BY <2>2 DEF Picked
  <2>4. ExistsBijection(1..n, C[s])
    BY <2>3 DEF ExistsBijection
  <2>5. Cardinality(C[s]) = n
    BY <2>4, FS_CountingElements
  <2>6. PICK c, p : c = C[s] /\ p = Page(s)
    OBVIOUS
  <2>7. c \in SUBSET I /\ \A x \in c : x \in I /\ sp[x] = s
    BY <1>13, <2>6
  <2>8. G[c] = Cardinality(c) * p
    <3>1. PICK x \in c : x \in I /\ sp[x] = s
      BY <1>13, <2>6
    <3>2. p \in Nat
      BY <1>7, <1>8, <2>6, <3>1
    <3>3. AllAre(f, c, p)
      BY <1>7, <2>6, <2>7 DEF AllAre
    <3>4. c \in SUBSET I
      BY <2>7
    <3>5. G[c] = Cardinality(c) * p /\ Cardinality(c) \in Nat
      BY <1>3, <1>8, <1>10, <3>2, <3>3, <3>4, AddsEqual
    <3> QED
      BY <3>5
  <2> QED
    BY <2>3, <2>5, <2>6, <2>8
<1>28. ASSUME NEW s \in specs
       PROVE  Ahead(g, s) = G[{i \in I : first[sp[i]] < first[s]}]
  <2>1. PICK A : A = {u \in specs : FirstAt(g, u) < FirstAt(g, s)}
    OBVIOUS
  <2>2. A \in SUBSET specs /\ A = {u \in specs : first[u] < first[s]} /\ IsFiniteSet(A)
    <3>1. A \in SUBSET specs /\ A = {u \in specs : first[u] < first[s]}
      BY <1>14, <2>1
    <3> QED
      BY <1>6, <3>1, FS_Subset
  <2>3. PICK D : D = [t \in A |-> C[t]]
    OBVIOUS
  <2>4. D \in [A -> SUBSET I]
    BY <1>13, <2>2, <2>3
  <2>9. \A t, u \in A : t # u => D[t] \cap D[u] = {}
    BY <1>13, <2>2, <2>3
  <2>10. PICK h, U : h = [t \in A |-> G[D[t]]] /\ U = UNION {D[t] : t \in A}
    OBVIOUS
  <2>11. Classes(I, A, D, G, h, U)
    BY <2>2, <2>4, <2>9, <2>10 DEF Classes
  <2>5. SumFunction(h) = G[U]
    <3>1. SumIs(h, G, U)
      BY <1>3, <1>8, <1>10, <2>11, ClassesAdd
    <3> QED
      BY <3>1 DEF SumIs
  <2>6. h = [t \in A |-> Len(Row(g, t)) * Page(t)]
    BY <1>27, <2>2, <2>3, <2>10
  <2>7. U = {i \in I : first[sp[i]] < first[s]}
    <3>1. ASSUME NEW t \in A, NEW i \in D[t] PROVE i \in I /\ first[sp[i]] < first[s]
      BY <1>13, <2>2, <2>3, <3>1
    <3>2. ASSUME NEW i \in I, first[sp[i]] < first[s] PROVE sp[i] \in A /\ i \in D[sp[i]]
      BY <1>17, <2>2, <2>3, <3>2
    <3> QED
      BY <2>10, <3>1, <3>2
  <2>8. Ahead(g, s) = SumFunction([t \in A |-> Len(Row(g, t)) * Page(t)])
    BY <1>1, <2>1, Zenon DEF Ahead
  <2> QED
    BY <2>5, <2>6, <2>7, <2>8
<1>29. ASSUME NEW s \in specs, NEW k \in DOMAIN Row(g, s)
       PROVE  \E i \in I : /\ g.of[g.layers[i]] = s /\ Row(g, s)[k] = g.layers[i]
                           /\ r[i] = Ahead(g, s) + (k - 1) * Page(s)
  <2>1. PICK n \in Nat : \E at : Picked(Row(g, s), g.layers, C[s], n, at)
    BY <1>26
  <2>2. PICK at : Picked(Row(g, s), g.layers, C[s], n, at)
    BY <2>1
  <2>3. k \in 1..n
    BY <2>2 DEF Picked
  <2>4. PICK i : i = at[k]
    OBVIOUS
  <2>5. Row(g, s)[k] = g.layers[i] /\ i \in C[s] /\ Cardinality({j \in C[s] : j < i}) = k - 1
    BY <2>2, <2>3, <2>4 DEF Picked
  <2>6. i \in I /\ sp[i] = s
    BY <1>13, <2>5
  <2>7. PICK P, Q, p : /\ P = {j \in I : first[sp[j]] < first[s]} /\ Q = {j \in C[s] : j < i}
                       /\ p = Page(s)
    OBVIOUS
  <2>8. P \in SUBSET I /\ Q \in SUBSET I /\ P \cap Q = {} /\ B[i] = P \cup Q
    <3>1. Q \in SUBSET I /\ \A j \in Q : sp[j] = s
      BY <1>13, <2>7
    <3>2. \A j \in Q : ~(first[sp[j]] < first[s])
      BY <1>20, <2>6, <3>1
    <3>3. \A j \in I : j \in B[i] <=> j \in P \/ j \in Q
      BY <1>12, <1>19, <2>6, <2>7
    <3> QED
      BY <1>19, <2>6, <2>7, <3>1, <3>2, <3>3
  <2>9. G[P \cup Q] = G[P] + G[Q]
    BY <1>3, <1>8, <1>10, <2>8, AddsApart
  <2>10. p \in Nat /\ \A x \in Q : f[x] = p
    BY <1>7, <1>8, <1>13, <2>6, <2>7
  <2>11. G[Q] = Cardinality(Q) * p
    <3>1. Q \in SUBSET I /\ p \in Nat
      BY <2>8, <2>10
    <3>2. AllAre(f, Q, p)
      BY <2>10 DEF AllAre
    <3>3. G[Q] = Cardinality(Q) * p /\ Cardinality(Q) \in Nat
      BY <1>3, <1>8, <1>10, <3>1, <3>2, AddsEqual
    <3> QED
      BY <3>3
  <2>12. Ahead(g, s) = G[P]
    BY <1>28, <2>7
  <2>13. r[i] = Ahead(g, s) + (k - 1) * p
    BY <1>19, <2>5, <2>6, <2>7, <2>8, <2>9, <2>11, <2>12
  <2> QED
    BY <1>4, <2>5, <2>6, <2>7, <2>13
<1>30. ASSUME NEW i \in I
       PROVE  \E k \in DOMAIN Row(g, sp[i]) : Row(g, sp[i])[k] = g.layers[i]
  <2>1. sp[i] \in specs /\ i \in C[sp[i]]
    BY <1>17
  <2>2. PICK n \in Nat : \E at : Picked(Row(g, sp[i]), g.layers, C[sp[i]], n, at)
    BY <1>26, <2>1
  <2>3. PICK at : Picked(Row(g, sp[i]), g.layers, C[sp[i]], n, at)
    BY <2>2
  <2>4. PICK k \in 1..n : at[k] = i
    BY <2>1, <2>3 DEF Picked, Bijection, Surjection
  <2> QED
    BY <2>3, <2>4 DEF Picked
<1>31. \A i, j \in I : i # j => r[i] + f[i] <= r[j] \/ r[j] + f[j] <= r[i]
  BY <1>23, <1>24
<1>32. /\ \A i \in I : r[i] + PageOf(g, g.layers[i]) <= GroupBytes(g)
       /\ \A i, j \in I : i # j => \/ r[i] + PageOf(g, g.layers[i]) <= r[j]
                                   \/ r[j] + PageOf(g, g.layers[j]) <= r[i]
  BY <1>9, <1>11, <1>22, <1>31
<1>33. \A p \in Nat : (\A i \in I : PageOf(g, g.layers[i]) = p) =>
         \A i \in I : \E m \in Nat : r[i] = m * p
  BY <1>9, <1>25
<1>34. \A i \in I : \E k \in DOMAIN Row(g, g.of[g.layers[i]]) :
         Row(g, g.of[g.layers[i]])[k] = g.layers[i]
  BY <1>4, <1>30
<1>35. \A s \in specs : \A k \in DOMAIN Row(g, s) :
       \E i \in I : /\ g.of[g.layers[i]] = s /\ Row(g, s)[k] = g.layers[i]
                    /\ r[i] = Ahead(g, s) + (k - 1) * Page(s)
  BY <1>29
<1>36. /\ r \in [DOMAIN g.layers -> Nat]
       /\ \A i \in DOMAIN g.layers : r[i] + PageOf(g, g.layers[i]) <= GroupBytes(g)
  BY <1>1, <1>21, <1>32
<1>37. \A i, j \in DOMAIN g.layers :
         i # j => \/ r[i] + PageOf(g, g.layers[i]) <= r[j]
                  \/ r[j] + PageOf(g, g.layers[j]) <= r[i]
  BY <1>1, <1>32
<1>38. \A p \in Nat : (\A i \in DOMAIN g.layers : PageOf(g, g.layers[i]) = p) =>
         \A i \in DOMAIN g.layers : \E m \in Nat : r[i] = m * p
  BY <1>1, <1>33
<1>39. \A s \in SpecsOf(g.of, ToSet(g.layers)) : \A k \in DOMAIN Row(g, s) :
         \E i \in DOMAIN g.layers : /\ g.of[g.layers[i]] = s /\ Row(g, s)[k] = g.layers[i]
                                    /\ r[i] = Ahead(g, s) + (k - 1) * Page(s)
  BY <1>1, <1>35
<1>40. ASSUME NEW s \in specs
       PROVE  Ahead(g, s) \in Nat /\ DOMAIN Row(g, s) \in SUBSET (Nat \ {0})
  <2>1. PICK P : P = {i \in I : first[sp[i]] < first[s]}
    OBVIOUS
  <2>2. G[P] \in Nat
    BY <1>10, <2>1 DEF Adds
  <2>3. PICK n \in Nat : \E at : Picked(Row(g, s), g.layers, C[s], n, at)
    BY <1>26
  <2>4. DOMAIN Row(g, s) = 1..n
    BY <2>3 DEF Picked
  <2>5. 1..n \in SUBSET (Nat \ {0})
    OBVIOUS
  <2> QED
    BY <1>28, <2>1, <2>2, <2>4, <2>5
<1>41. \A s \in SpecsOf(g.of, ToSet(g.layers)) :
         Ahead(g, s) \in Nat /\ DOMAIN Row(g, s) \in SUBSET (Nat \ {0})
  BY <1>1, <1>40
<1>42. \A i \in DOMAIN g.layers : \E k \in DOMAIN Row(g, g.of[g.layers[i]]) :
         Row(g, g.of[g.layers[i]])[k] = g.layers[i]
  BY <1>1, <1>34
<1>43. Placed(g, r)
  BY <1>36, <1>37, <1>38, <1>39, <1>42, <1>41, Zenon DEF Placed
<1> QED
  BY <1>43

\* A product is divided exactly by its factor, and grows with the other.
LEMMA Products ==
  /\ \A a \in Nat : \A p \in Nat \ {0} : (a * p) \div p = a
  /\ \A a, c, p \in Nat : a < c => a * p + p <= c * p
  /\ \A a, c, p \in Nat : a <= c => a * p <= c * p
<1>1. ASSUME NEW a \in Nat, NEW p \in Nat \ {0} PROVE (a * p) \div p = a
  OBVIOUS
<1>2. ASSUME NEW a \in Nat, NEW c \in Nat, NEW p \in Nat, a <= c PROVE a * p <= c * p
  <2>1. PICK d \in Nat : c = a + d
    <3>1. c - a \in Nat /\ c = a + (c - a)
      BY <1>2
    <3> QED
      BY <3>1
  <2>2. c * p = a * p + d * p /\ d * p \in Nat /\ a * p \in Nat
    BY <2>1
  <2> QED
    BY <2>2
<1>3. ASSUME NEW a \in Nat, NEW c \in Nat, NEW p \in Nat, a < c PROVE a * p + p <= c * p
  <2>1. a + 1 \in Nat /\ a + 1 <= c
    BY <1>3
  <2>2. (a + 1) * p <= c * p
    BY <1>2, <2>1
  <2>3. (a + 1) * p = a * p + p
    OBVIOUS
  <2> QED
    BY <2>2, <2>3
<1> QED
  BY <1>1, <1>2, <1>3

\* The first byte of a page whose place in the block is `off`, in the b-th block.
Begin(layout, off, num1, block, page, b) ==
  IF layout = "block" THEN off + b * block ELSE off * num1 + b * page

\* x is the page of the j-th layer of the i-th group in block b.
Lies(layout, groups, num1, R, x) ==
  \E i \in DOMAIN groups : \E j \in DOMAIN groups[i].layers : \E b \in 0..(num1 - 1) :
    \E page, a :
      /\ page = PageOf(groups[i], groups[i].layers[j])
      /\ a = Begin(layout, R[i][j], num1, BytesPerBlock(groups), page, b)
      /\ x = <<i, groups[i].layers[j], b, a, a + page>>

GeneralTensor(layout, groups, num1, i, s) ==
  [group |-> i, layers |-> Row(groups[i], s), page |-> Page(s),
   layer_stride |-> IF layout = "block" THEN Page(s) ELSE Page(s) * num1,
   block_stride |-> IF layout = "block" THEN BytesPerBlock(groups) ELSE Page(s),
   offset |-> (Ahead(groups[i], s)
                 * Larger(IF layout = "block" THEN Page(s) ELSE Page(s) * num1, Page(s)))
                \div Page(s)]

\* Every layer of a group has a page in P.
Reached(P, groups) ==
  \A i \in DOMAIN groups : \A l \in ToSet(groups[i].layers) : \E x \in P : x[2] = l

\* Where the rows of a group have their places, the tensors of the general layout put the pages.
LEMMA GeneralPages ==
  ASSUME NEW groups, WellGrouped(groups), groups # <<>>, Glm5Layout(groups) = {},
         NEW R, \A i \in DOMAIN groups : Placed(groups[i], R[i]),
         NEW num1 \in Nat \ {0}, NEW layout,
         NEW P, P = Pages(Tensors(layout, groups, num1), num1)
  PROVE  /\ \A x \in P : Lies(layout, groups, num1, R, x)
         /\ Reached(P, groups)
<1>1. PICK n \in Nat \ {0} : /\ DOMAIN groups = 1..n
                             /\ \A i \in 1..n : Grouped(groups[i])
  BY WellFacts
<1>2. PICK block : block = BytesPerBlock(groups) /\ block \in Nat
  BY BytesTyped
<1>3. Tensors(layout, groups, num1) =
        UNION {{GeneralTensor(layout, groups, num1, i, s) :
                  s \in SpecsOf(groups[i].of, ToSet(groups[i].layers))} : i \in DOMAIN groups}
  BY Zenon DEF Tensors, GeneralTensor, Row, Ahead, FirstAt
<1>4. ASSUME NEW i \in DOMAIN groups,
             NEW s \in SpecsOf(groups[i].of, ToSet(groups[i].layers)),
             NEW t, t = GeneralTensor(layout, groups, num1, i, s),
             NEW k \in DOMAIN Row(groups[i], s), NEW b \in 0..(num1 - 1)
      PROVE  \E j \in DOMAIN groups[i].layers :
               /\ groups[i].of[groups[i].layers[j]] = s
               /\ Row(groups[i], s)[k] = groups[i].layers[j]
               /\ Byte(t, k, b) = Begin(layout, R[i][j], num1, block, Page(s), b)
  <2>1. PICK g, rr, A, p : g = groups[i] /\ rr = R[i] /\ A = Ahead(groups[i], s) /\ p = Page(s)
    OBVIOUS
  <2>2. Placed(g, rr) /\ Grouped(g)
    BY <1>1, <2>1
  <2>3. p \in Nat \ {0}
    <3>1. s \in KvSpec
      <4>1. PICK l \in ToSet(g.layers) : s = g.of[l]
        BY <2>1 DEF SpecsOf
      <4>2. PICK T : T = DOMAIN g.of
        OBVIOUS
      <4>3. g.of \in [T -> KvSpec] /\ g.layers \in Seq(T)
        BY <2>2, <4>2 DEF Grouped, FormedGroup
      <4>4. ToSet(g.layers) \in SUBSET T
        BY <4>3, SeqOfElements
      <4> QED
        BY <4>1, <4>3, <4>4
    <3> QED
      BY <2>1, <3>1, PageTyped
  <2>4. A \in Nat /\ k \in Nat \ {0}
    BY <2>1, <2>2 DEF Placed
  <2>5. PICK j \in DOMAIN g.layers : /\ g.of[g.layers[j]] = s /\ Row(g, s)[k] = g.layers[j]
                                     /\ rr[j] = A + (k - 1) * p
    BY <2>1, <2>2 DEF Placed
  <2>6. b \in Nat
    OBVIOUS
  <2>7. CASE layout = "block"
    <3>1. t.offset = (A * p) \div p /\ t.layer_stride = p /\ t.block_stride = block
      BY <1>2, <2>1, <2>3, <2>7, <1>4 DEF GeneralTensor, Larger
    <3>2. t.offset = A
      BY <2>3, <2>4, <3>1, Products
    <3>3. Byte(t, k, b) = rr[j] + b * block
      BY <2>5, <3>1, <3>2 DEF Byte
    <3> QED
      BY <2>1, <2>5, <2>7, <3>3 DEF Begin
  <2>8. CASE layout # "block"
    <3>1. PICK q : q = p * num1
      OBVIOUS
    <3>2. q \in Nat /\ p <= q
      <4>1. 1 * p <= num1 * p
        BY <2>3, Products
      <4>2. q = num1 * p
        BY <2>3, <3>1
      <4> QED
        BY <2>3, <4>1, <4>2
    <3>3. Larger(q, p) = q
      BY <2>3, <3>2 DEF Larger
    <3>4. t.offset = (A * q) \div p /\ t.layer_stride = q /\ t.block_stride = p
      BY <1>4, <2>1, <2>8, <3>1, <3>3 DEF GeneralTensor
    <3>5. A * q = (A * num1) * p /\ A * num1 \in Nat
      BY <2>3, <2>4, <3>1
    <3>6. t.offset = A * num1
      BY <2>3, <3>4, <3>5, Products
    <3>7. Byte(t, k, b) = A * num1 + (k - 1) * q + b * p
      BY <3>4, <3>6 DEF Byte
    <3>8. A * num1 + (k - 1) * q = rr[j] * num1
      <4>1. PICK m \in Nat : m = k - 1
        BY <2>4
      <4>2. m * q = (m * p) * num1
        BY <2>3, <3>1, <4>1
      <4>3. (A + m * p) * num1 = A * num1 + (m * p) * num1
        BY <2>3, <2>4
      <4> QED
        BY <2>5, <4>1, <4>2, <4>3
    <3> QED
      BY <2>1, <2>5, <2>8, <3>7, <3>8 DEF Begin
  <2> QED
    BY <2>7, <2>8
<1>5. ASSUME NEW x \in P PROVE Lies(layout, groups, num1, R, x)
  <2>1. PICK t \in Tensors(layout, groups, num1) :
          \E k \in DOMAIN t.layers, b \in 0..(num1 - 1) :
             x = <<t.group, t.layers[k], b, Byte(t, k, b), Byte(t, k, b) + t.page>>
    BY DEF Pages
  <2>2. PICK i \in DOMAIN groups :
          \E s \in SpecsOf(groups[i].of, ToSet(groups[i].layers)) :
             t = GeneralTensor(layout, groups, num1, i, s)
    BY <1>3, <2>1
  <2>3. PICK s \in SpecsOf(groups[i].of, ToSet(groups[i].layers)) :
             t = GeneralTensor(layout, groups, num1, i, s)
    BY <2>2
  <2>4. t.group = i /\ t.layers = Row(groups[i], s) /\ t.page = Page(s)
    BY <2>3 DEF GeneralTensor
  <2>5. PICK k \in DOMAIN Row(groups[i], s), b \in 0..(num1 - 1) :
          x = <<i, Row(groups[i], s)[k], b, Byte(t, k, b), Byte(t, k, b) + Page(s)>>
    BY <2>1, <2>4
  <2>6. PICK j \in DOMAIN groups[i].layers :
               /\ groups[i].of[groups[i].layers[j]] = s
               /\ Row(groups[i], s)[k] = groups[i].layers[j]
               /\ Byte(t, k, b) = Begin(layout, R[i][j], num1, block, Page(s), b)
    BY <1>4, <2>3
  <2>7. PICK page, a : page = PageOf(groups[i], groups[i].layers[j]) /\ a = Byte(t, k, b)
    OBVIOUS
  <2>8. page = Page(s)
    BY <2>6, <2>7 DEF PageOf
  <2>9. x = <<i, groups[i].layers[j], b, a, a + page>>
    BY <2>5, <2>6, <2>7, <2>8
  <2>10. a = Begin(layout, R[i][j], num1, BytesPerBlock(groups), page, b)
    BY <1>2, <2>6, <2>7, <2>8
  <2> QED
    BY <2>7, <2>9, <2>10 DEF Lies
<1>6. ASSUME NEW i \in DOMAIN groups, NEW l \in ToSet(groups[i].layers)
      PROVE  \E x \in P : x[2] = l
  <2>1. PICK j \in DOMAIN groups[i].layers : groups[i].layers[j] = l
    BY DEF ToSet
  <2>2. PICK s, t : s = groups[i].of[l] /\ t = GeneralTensor(layout, groups, num1, i, s)
    OBVIOUS
  <2>3. s \in SpecsOf(groups[i].of, ToSet(groups[i].layers))
    BY <2>2 DEF SpecsOf
  <2>4. t \in Tensors(layout, groups, num1)
    BY <1>3, <2>2, <2>3
  <2>5. PICK g : g = groups[i]
    OBVIOUS
  <2>6. Placed(g, R[i])
    BY <2>5
  <2>7. PICK k \in DOMAIN Row(g, s) : Row(g, s)[k] = l
    <3>1. \A m \in DOMAIN g.layers : \E k \in DOMAIN Row(g, g.of[g.layers[m]]) :
             Row(g, g.of[g.layers[m]])[k] = g.layers[m]
      BY <2>6, Zenon DEF Placed
    <3>2. g.layers[j] = l /\ j \in DOMAIN g.layers /\ s = g.of[l]
      BY <2>1, <2>2, <2>5
    <3> QED
      BY <3>1, <3>2
  <2>8. t.layers = Row(g, s)
    BY <2>2, <2>5 DEF GeneralTensor
  <2>9. PICK x : x = <<t.group, t.layers[k], 0, Byte(t, k, 0), Byte(t, k, 0) + t.page>>
    OBVIOUS
  <2>10. 0 \in 0..(num1 - 1) /\ k \in DOMAIN t.layers
    BY <2>8
  <2>11. x \in P
    <3>1. x \in {<<t.group, t.layers[m], b, Byte(t, m, b), Byte(t, m, b) + t.page>> :
                    m \in DOMAIN t.layers, b \in 0..(num1 - 1)}
      BY <2>9, <2>10
    <3> QED
      BY <2>4, <3>1 DEF Pages
  <2> QED
    BY <2>7, <2>8, <2>9, <2>11
<1>7. Reached(P, groups)
  BY <1>6 DEF Reached
<1> QED
  BY <1>5, <1>7

\* No page leaves the pool, and none but those of groups that share a block overlap.
Apart(P, size) ==
  /\ \A x \in P : 0 <= x[4] /\ x[5] <= size
  /\ \A x, y \in P : \/ x[3] = y[3] /\ (x[1] # y[1] \/ x[2] = y[2])
                     \/ x[5] <= y[4] \/ y[5] <= x[4]

\* Groups may share blocks if a block is one piece, if all pages are of one size, or if there
\* is but one group.
Shareable(layout, groups) ==
  \/ layout = "block"
  \/ \E p \in Nat : \A i \in DOMAIN groups : \A j \in DOMAIN groups[i].layers :
       PageOf(groups[i], groups[i].layers[j]) = p
  \/ \A i, j \in DOMAIN groups : i = j

\* A page ends within the pool.
LEMMA PageInside ==
  ASSUME NEW layout, NEW num1 \in Nat \ {0}, NEW block \in Nat, NEW b \in Nat, b < num1,
         NEW page \in Nat, NEW off \in Nat, off + page <= block,
         NEW a, a = Begin(layout, off, num1, block, page, b)
  PROVE  a \in Nat /\ 0 <= a /\ a + page <= block * num1
<1>1. CASE layout = "block"
  <2>1. a = off + b * block /\ b * block \in Nat
    BY <1>1 DEF Begin
  <2>2. b * block + block <= num1 * block
    BY Products
  <2>3. num1 * block = block * num1 /\ num1 * block \in Nat
    OBVIOUS
  <2> QED
    BY <2>1, <2>2, <2>3
<1>2. CASE layout # "block"
  <2>1. a = off * num1 + b * page /\ b * page \in Nat /\ off * num1 \in Nat
    BY <1>2 DEF Begin
  <2>2. b * page + page <= num1 * page
    BY Products
  <2>3. (off + page) * num1 <= block * num1
    <3>1. off + page \in Nat
      OBVIOUS
    <3> QED
      BY <3>1, Products
  <2>4. (off + page) * num1 = off * num1 + num1 * page
    OBVIOUS
  <2>5. num1 * page \in Nat /\ block * num1 \in Nat
    OBVIOUS
  <2> QED
    BY <2>1, <2>2, <2>3, <2>4, <2>5
<1> QED
  BY <1>1, <1>2

\* Two pages of one group with places of their own are apart, in all blocks.
LEMMA RowsApart ==
  ASSUME NEW layout, NEW num1 \in Nat \ {0}, NEW block \in Nat,
         NEW b \in Nat, b < num1, NEW c \in Nat, c < num1,
         NEW p \in Nat, NEW q \in Nat, NEW off \in Nat, NEW far \in Nat,
         off + p <= far, far + q <= block,
         NEW a, a = Begin(layout, off, num1, block, p, b),
         NEW d, d = Begin(layout, far, num1, block, q, c)
  PROVE  a + p <= d \/ d + q <= a
<1>1. CASE layout = "block"
  <2>1. a = off + b * block /\ d = far + c * block /\ b * block \in Nat /\ c * block \in Nat
    BY <1>1 DEF Begin
  <2>2. CASE b = c
    BY <2>1, <2>2
  <2>3. CASE b < c
    <3>1. b * block + block <= c * block
      BY <2>3, Products
    <3> QED
      BY <2>1, <3>1
  <2>4. CASE c < b
    <3>1. c * block + block <= b * block
      BY <2>4, Products
    <3> QED
      BY <2>1, <3>1
  <2> QED
    BY <2>2, <2>3, <2>4
<1>2. CASE layout # "block"
  <2>1. /\ a = off * num1 + b * p /\ d = far * num1 + c * q
        /\ b * p \in Nat /\ c * q \in Nat /\ off * num1 \in Nat /\ far * num1 \in Nat
    BY <1>2 DEF Begin
  <2>2. b * p + p <= num1 * p /\ num1 * p \in Nat
    BY Products
  <2>3. (off + p) * num1 <= far * num1
    <3>1. off + p \in Nat
      OBVIOUS
    <3> QED
      BY <3>1, Products
  <2>4. (off + p) * num1 = off * num1 + num1 * p
    OBVIOUS
  <2> QED
    BY <2>1, <2>2, <2>3, <2>4
<1> QED
  BY <1>1, <1>2

\* A block is one piece, or the places are whole pages of one size.
Regular(layout, p, q, off, far) ==
  layout = "block" \/ (p = q /\ \E m, n \in Nat : off = m * p /\ far = n * p)

\* Pages of different blocks are apart if a block is one piece, or if all pages are of one
\* size: then the pool is a list of such pages, and a place is a row of them, one per block.
LEMMA BlocksApart ==
  ASSUME NEW layout, NEW num1 \in Nat \ {0}, NEW block \in Nat,
         NEW b \in Nat, b < num1, NEW c \in Nat, c < num1, b # c,
         NEW p \in Nat, NEW q \in Nat, NEW off \in Nat, NEW far \in Nat,
         off + p <= block, far + q <= block,
         Regular(layout, p, q, off, far),
         NEW a, a = Begin(layout, off, num1, block, p, b),
         NEW d, d = Begin(layout, far, num1, block, q, c)
  PROVE  a + p <= d \/ d + q <= a
<1>1. CASE layout = "block"
  <2>1. a = off + b * block /\ d = far + c * block /\ b * block \in Nat /\ c * block \in Nat
    BY <1>1 DEF Begin
  <2>2. CASE b < c
    <3>1. b * block + block <= c * block
      BY <2>2, Products
    <3> QED
      BY <2>1, <3>1
  <2>3. CASE c < b
    <3>1. c * block + block <= b * block
      BY <2>3, Products
    <3> QED
      BY <2>1, <3>1
  <2> QED
    BY <2>2, <2>3
<1>2. CASE layout # "block"
  <2>1. PICK m \in Nat, n \in Nat : p = q /\ off = m * p /\ far = n * p
    BY <1>2 DEF Regular
  <2>2. a = off * num1 + b * p /\ d = far * num1 + c * p
    BY <1>2, <2>1 DEF Begin
  <2>3. PICK u, v : u = m * num1 + b /\ v = n * num1 + c
    OBVIOUS
  <2>4. m * num1 \in Nat /\ n * num1 \in Nat /\ u \in Nat /\ v \in Nat
    BY <2>3
  <2>5. a = u * p
    <3>1. PICK w \in Nat : w = m * num1
      BY <2>4
    <3>2. (w + b) * p = w * p + b * p
      OBVIOUS
    <3>3. (m * p) * num1 = w * p
      BY <3>1
    <3> QED
      BY <2>1, <2>2, <2>3, <3>1, <3>2, <3>3
  <2>6. d = v * p
    <3>1. PICK w \in Nat : w = n * num1
      BY <2>4
    <3>2. (w + c) * p = w * p + c * p
      OBVIOUS
    <3>3. (n * p) * num1 = w * p
      BY <3>1
    <3> QED
      BY <2>1, <2>2, <2>3, <3>1, <3>2, <3>3
  <2>7. u # v
    <3>1. CASE m = n
      BY <2>3, <2>4, <3>1
    <3>2. CASE m < n
      <4>1. m * num1 + num1 <= n * num1
        BY <3>2, Products
      <4> QED
        BY <2>3, <2>4, <4>1
    <3>3. CASE n < m
      <4>1. n * num1 + num1 <= m * num1
        BY <3>3, Products
      <4> QED
        BY <2>3, <2>4, <4>1
    <3> QED
      BY <3>1, <3>2, <3>3
  <2>8. CASE u < v
    <3>1. u * p + p <= v * p
      BY <2>4, <2>8, Products
    <3> QED
      BY <2>1, <2>5, <2>6, <3>1
  <2>9. CASE v < u
    <3>1. v * p + p <= u * p
      BY <2>4, <2>9, Products
    <3> QED
      BY <2>1, <2>5, <2>6, <3>1
  <2> QED
    BY <2>4, <2>7, <2>8, <2>9
<1> QED
  BY <1>1, <1>2

\* x is the page of the j-th layer of the i-th group, which has its place R[i][j] in a block.
Found(layout, groups, num1, block, R, x, i, j) ==
  /\ i \in DOMAIN groups /\ j \in DOMAIN groups[i].layers
  /\ x[3] \in Nat /\ x[3] < num1
  /\ R[i][j] \in Nat /\ PageOf(groups[i], groups[i].layers[j]) \in Nat
  /\ R[i][j] + PageOf(groups[i], groups[i].layers[j]) <= block
  /\ x[1] = i /\ x[2] = groups[i].layers[j]
  /\ x[4] = Begin(layout, R[i][j], num1, block, PageOf(groups[i], groups[i].layers[j]), x[3])
  /\ x[5] = x[4] + PageOf(groups[i], groups[i].layers[j])

\* Where the block is wide enough for all groups, every page has its place in one.
LEMMA PageFound ==
  ASSUME NEW groups, WellGrouped(groups), groups # <<>>,
         NEW R, \A i \in DOMAIN groups : Placed(groups[i], R[i]),
         NEW block \in Nat, block = BytesPerBlock(groups),
         \A i \in DOMAIN groups : GroupBytes(groups[i]) <= block,
         NEW num1 \in Nat \ {0}, NEW layout, NEW x, Lies(layout, groups, num1, R, x)
  PROVE  \E i, j : Found(layout, groups, num1, block, R, x, i, j)
<1>1. PICK i \in DOMAIN groups :
        \E j \in DOMAIN groups[i].layers : \E b \in 0..(num1 - 1) : \E page, a :
          /\ page = PageOf(groups[i], groups[i].layers[j])
          /\ a = Begin(layout, R[i][j], num1, block, page, b)
          /\ x = <<i, groups[i].layers[j], b, a, a + page>>
  BY DEF Lies
<1>2. PICK j \in DOMAIN groups[i].layers : \E b \in 0..(num1 - 1) : \E page, a :
          /\ page = PageOf(groups[i], groups[i].layers[j])
          /\ a = Begin(layout, R[i][j], num1, block, page, b)
          /\ x = <<i, groups[i].layers[j], b, a, a + page>>
  BY <1>1
<1>3. PICK b \in 0..(num1 - 1) : \E page, a :
          /\ page = PageOf(groups[i], groups[i].layers[j])
          /\ a = Begin(layout, R[i][j], num1, block, page, b)
          /\ x = <<i, groups[i].layers[j], b, a, a + page>>
  BY <1>2
<1>4. PICK page, a :
          /\ page = PageOf(groups[i], groups[i].layers[j])
          /\ a = Begin(layout, R[i][j], num1, block, page, b)
          /\ x = <<i, groups[i].layers[j], b, a, a + page>>
  BY <1>3
<1>5. PICK g, r, l : g = groups[i] /\ r = R[i] /\ l = groups[i].layers[j]
  OBVIOUS
<1>6. Grouped(g) /\ Placed(g, r)
  <2>1. PICK n \in Nat \ {0} : DOMAIN groups = 1..n /\ \A k \in 1..n : Grouped(groups[k])
    BY WellFacts
  <2> QED
    BY <1>5, <2>1
<1>7. page \in Nat
  <2>1. PICK T : T = DOMAIN g.of
    OBVIOUS
  <2>2. g.of \in [T -> KvSpec] /\ g.layers \in Seq(T)
    BY <1>6, <2>1 DEF Grouped, FormedGroup
  <2>3. l \in T
    BY <1>5, <2>2
  <2>4. g.of[l] \in KvSpec
    BY <2>2, <2>3
  <2> QED
    BY <1>4, <1>5, <2>4, PageTyped DEF PageOf
<1>8. r[j] \in Nat /\ r[j] + page <= GroupBytes(g) /\ GroupBytes(g) \in Nat
  BY <1>4, <1>5, <1>6, GroupBytesTyped DEF Placed
<1>9. r[j] + page <= block
  <2>1. GroupBytes(g) <= block
    BY <1>5
  <2> QED
    BY <1>7, <1>8, <2>1
<1>10. x[1] = i /\ x[2] = l /\ x[3] = b /\ x[4] = a /\ x[5] = a + page
  BY <1>4, <1>5
<1>11. b \in Nat /\ b < num1
  OBVIOUS
<1>12. Found(layout, groups, num1, block, R, x, i, j)
  BY <1>4, <1>5, <1>7, <1>8, <1>9, <1>10, <1>11 DEF Found
<1> QED
  BY <1>12

\* So pages of groups that may share blocks are apart.
LEMMA GeneralApart ==
  ASSUME NEW groups, WellGrouped(groups), groups # <<>>,
         NEW R, \A i \in DOMAIN groups : Placed(groups[i], R[i]),
         NEW block \in Nat, block = BytesPerBlock(groups),
         \A i \in DOMAIN groups : GroupBytes(groups[i]) <= block,
         NEW num1 \in Nat \ {0}, NEW layout, Shareable(layout, groups),
         NEW P, \A x \in P : Lies(layout, groups, num1, R, x)
  PROVE  Apart(P, block * num1)
<1>1. \A x \in P : \E i, j : Found(layout, groups, num1, block, R, x, i, j)
  BY PageFound
<1>2. ASSUME NEW x \in P PROVE 0 <= x[4] /\ x[5] <= block * num1
  <2>1. PICK i, j : Found(layout, groups, num1, block, R, x, i, j)
    BY <1>1
  <2>2. PICK page, off, a, b : /\ page = PageOf(groups[i], groups[i].layers[j]) /\ off = R[i][j]
                               /\ a = x[4] /\ b = x[3]
    OBVIOUS
  <2>3. /\ b \in Nat /\ b < num1 /\ off \in Nat /\ page \in Nat /\ off + page <= block
        /\ a = Begin(layout, off, num1, block, page, b) /\ x[5] = a + page
    BY <2>1, <2>2 DEF Found
  <2>4. a \in Nat /\ 0 <= a /\ a + page <= block * num1
    BY <2>3, PageInside
  <2> QED
    BY <2>2, <2>3, <2>4
<1>3. ASSUME NEW x \in P, NEW y \in P
      PROVE  \/ x[3] = y[3] /\ (x[1] # y[1] \/ x[2] = y[2])
             \/ x[5] <= y[4] \/ y[5] <= x[4]
  <2>1. PICK i, j : Found(layout, groups, num1, block, R, x, i, j)
    BY <1>1
  <2>2. PICK k, m : Found(layout, groups, num1, block, R, y, k, m)
    BY <1>1
  <2>3. PICK p, off, a, b : /\ p = PageOf(groups[i], groups[i].layers[j]) /\ off = R[i][j]
                            /\ a = x[4] /\ b = x[3]
    OBVIOUS
  <2>4. PICK q, far, d, c : /\ q = PageOf(groups[k], groups[k].layers[m]) /\ far = R[k][m]
                            /\ d = y[4] /\ c = y[3]
    OBVIOUS
  <2>5. /\ b \in Nat /\ b < num1 /\ off \in Nat /\ p \in Nat /\ off + p <= block
        /\ a = Begin(layout, off, num1, block, p, b) /\ x[5] = a + p
        /\ x[1] = i /\ x[2] = groups[i].layers[j] /\ x[3] = b /\ x[4] = a
        /\ i \in DOMAIN groups /\ j \in DOMAIN groups[i].layers
    BY <2>1, <2>3 DEF Found
  <2>6. /\ c \in Nat /\ c < num1 /\ far \in Nat /\ q \in Nat /\ far + q <= block
        /\ d = Begin(layout, far, num1, block, q, c) /\ y[5] = d + q
        /\ y[1] = k /\ y[2] = groups[k].layers[m] /\ y[3] = c /\ y[4] = d
        /\ k \in DOMAIN groups /\ m \in DOMAIN groups[k].layers
    BY <2>2, <2>4 DEF Found
  <2>7. CASE b = c /\ (i # k \/ j = m)
    BY <2>5, <2>6, <2>7
  <2>8. CASE i = k /\ j # m
    <3>1. Placed(groups[i], R[i])
      BY <2>5
    <3>2. off + p <= far \/ far + q <= off
      BY <2>3, <2>4, <2>5, <2>6, <2>8, <3>1 DEF Placed
    <3>3. a + p <= d \/ d + q <= a
      <4>1. CASE off + p <= far
        BY <2>5, <2>6, <4>1, RowsApart
      <4>2. CASE far + q <= off
        BY <2>5, <2>6, <4>2, RowsApart
      <4> QED
        BY <3>2, <4>1, <4>2
    <3> QED
      BY <2>5, <2>6, <3>3
  <2>9. CASE b # c /\ layout = "block"
    <3>2. Regular(layout, p, q, off, far)
      BY <2>9 DEF Regular
    <3>1. a + p <= d \/ d + q <= a
      BY <2>5, <2>6, <2>9, <3>2, BlocksApart
    <3> QED
      BY <2>5, <2>6, <3>1
  <2>10. CASE b # c /\ layout # "block" /\ i = k /\ j = m
    <3>1. p = q /\ off = far
      BY <2>3, <2>4, <2>10
    <3>2. PICK z : z = off * num1
      OBVIOUS
    <3>3. z \in Nat /\ a = z + b * p /\ d = z + c * p /\ b * p \in Nat /\ c * p \in Nat
      BY <2>5, <2>6, <2>10, <3>1, <3>2 DEF Begin
    <3>4. CASE b < c
      <4>1. b * p + p <= c * p
        BY <2>5, <2>6, <3>4, Products
      <4> QED
        BY <2>5, <2>6, <3>3, <4>1
    <3>5. CASE c < b
      <4>1. c * p + p <= b * p
        BY <2>5, <2>6, <3>5, Products
      <4> QED
        BY <2>5, <2>6, <3>1, <3>3, <4>1
    <3> QED
      BY <2>5, <2>6, <2>10, <3>4, <3>5
  <2>11. CASE b # c /\ layout # "block" /\ i # k
    <3>1. PICK page \in Nat : \A e \in DOMAIN groups : \A f \in DOMAIN groups[e].layers :
            PageOf(groups[e], groups[e].layers[f]) = page
      BY <2>5, <2>6, <2>11 DEF Shareable
    <3>2. p = page /\ q = page
      BY <2>3, <2>4, <2>5, <2>6, <3>1
    <3>3. ASSUME NEW e \in DOMAIN groups, NEW f \in DOMAIN groups[e].layers
          PROVE  \E u \in Nat : R[e][f] = u * page
      <4>1. Placed(groups[e], R[e])
        OBVIOUS
      <4>2. PICK g, r : g = groups[e] /\ r = R[e]
        OBVIOUS
      <4>3. \A h \in DOMAIN g.layers : PageOf(g, g.layers[h]) = page
        BY <3>1, <4>2
      <4>4. Placed(g, r)
        BY <4>1, <4>2
      <4>5. \A h \in DOMAIN g.layers : \E u \in Nat : r[h] = u * page
        BY <4>3, <4>4 DEF Placed
      <4> QED
        BY <4>2, <4>5
    <3>4. \E u, v \in Nat : off = u * page /\ far = v * page
      BY <2>3, <2>4, <2>5, <2>6, <3>3
    <3>5. Regular(layout, p, q, off, far)
      BY <3>2, <3>4 DEF Regular
    <3>6. a + p <= d \/ d + q <= a
      BY <2>5, <2>6, <2>11, <3>5, BlocksApart
    <3> QED
      BY <2>5, <2>6, <3>6
  <2> QED
    BY <2>7, <2>8, <2>9, <2>10, <2>11
<1> QED
  BY <1>2, <1>3 DEF Apart

\* What the layout check lets through may share blocks.
LEMMA ExpressibleShares ==
  ASSUME NEW groups, WellGrouped(groups), groups # <<>>, Glm5Layout(groups) = {},
         NEW layout, Expressible(layout, groups)
  PROVE  Shareable(layout, groups)
<1>1. PICK n \in Nat \ {0} : /\ DOMAIN groups = 1..n /\ groups = [i \in 1..n |-> groups[i]]
                             /\ \A i \in 1..n : Grouped(groups[i])
  BY WellFacts
<1>2. Len(groups) = n
  <2>1. PICK f : f = [i \in 1..n |-> groups[i]]
    OBVIOUS
  <2>2. Len(f) = n
    BY <2>1
  <2> QED
    BY <1>1, <2>1, <2>2
<1>3. CASE layout = "block" \/ Len(groups) = 1
  BY <1>1, <1>2, <1>3 DEF Shareable
<1>4. CASE Cardinality(UNION {{PageOf(g, l) : l \in ToSet(g.layers)} : g \in Range(groups)}) = 1
  <2>1. PICK P : P = UNION {{PageOf(g, l) : l \in ToSet(g.layers)} : g \in Range(groups)}
    OBVIOUS
  <2>2. IsFiniteSet(P)
    <3>1. PICK f : f = [i \in 1..n |-> {PageOf(groups[i], l) : l \in ToSet(groups[i].layers)}]
      OBVIOUS
    <3>2. ASSUME NEW i \in 1..n PROVE IsFiniteSet(f[i])
      <4>1. PICK g, T : g = groups[i] /\ T = DOMAIN g.of
        OBVIOUS
      <4>2. g.layers \in Seq(T)
        BY <1>1, <4>1 DEF Grouped
      <4>3. IsFiniteSet(ToSet(g.layers))
        BY <4>2, SeqOfElements
      <4>4. PICK h : h = [l \in ToSet(g.layers) |-> PageOf(g, l)]
        OBVIOUS
      <4>5. DOMAIN h = ToSet(g.layers) /\ Range(h) = f[i]
        BY <3>1, <4>1, <4>4 DEF Range
      <4>6. IsFiniteSet(DOMAIN h)
        BY <4>3, <4>5
      <4>7. IsFiniteSet(Range(h))
        BY <4>6, FiniteRange
      <4> QED
        BY <4>5, <4>7
    <3>3. ASSUME NEW x \in P PROVE \E i \in 1..n : x \in f[i]
      <4>1. PICK g \in Range(groups) : x \in {PageOf(g, l) : l \in ToSet(g.layers)}
        BY <2>1
      <4>2. PICK i \in 1..n : g = groups[i]
        BY <1>1 DEF Range
      <4> QED
        BY <3>1, <4>1, <4>2
    <3>4. PICK X : X = 1..n /\ IsFiniteSet(X)
      BY FS_Interval
    <3>5. \A i \in X : IsFiniteSet(f[i])
      BY <3>2, <3>4
    <3>6. IsFiniteSet(UNION {f[i] : i \in X})
      BY <3>4, <3>5, FiniteUnion
    <3>7. P \in SUBSET UNION {f[i] : i \in X}
      BY <3>3, <3>4
    <3> QED
      BY <3>6, <3>7, FS_Subset
  <2>3. PICK p : P = {p}
    BY <1>4, <2>1, <2>2, FS_Singleton
  <2>4. ASSUME NEW i \in DOMAIN groups, NEW j \in DOMAIN groups[i].layers
        PROVE  PageOf(groups[i], groups[i].layers[j]) = p /\ p \in Nat
    <3>1. PICK g, T, l : g = groups[i] /\ T = DOMAIN g.of /\ l = groups[i].layers[j]
      OBVIOUS
    <3>2. g.of \in [T -> KvSpec] /\ g.layers \in Seq(T)
      BY <1>1, <3>1 DEF Grouped, FormedGroup
    <3>3. l \in ToSet(g.layers) /\ l \in T
      BY <3>1, <3>2 DEF ToSet
    <3>4. PageOf(g, l) \in P
      BY <1>1, <2>1, <3>1, <3>3 DEF Range
    <3>5. g.of[l] \in KvSpec
      BY <3>2, <3>3
    <3>6. PageOf(g, l) \in Nat
      BY <3>5, PageTyped DEF PageOf
    <3> QED
      BY <2>3, <3>1, <3>4, <3>6
  <2>5. CASE \E i \in DOMAIN groups : DOMAIN groups[i].layers # {}
    <3>1. p \in Nat
      BY <2>4, <2>5
    <3> QED
      BY <2>4, <3>1 DEF Shareable
  <2>6. CASE \A i \in DOMAIN groups : DOMAIN groups[i].layers = {}
    <3>1. \A i \in DOMAIN groups : \A j \in DOMAIN groups[i].layers :
             PageOf(groups[i], groups[i].layers[j]) = 0
      BY <2>6
    <3> QED
      BY <3>1 DEF Shareable
  <2> QED
    BY <2>5, <2>6
<1> QED
  BY <1>3, <1>4 DEF Expressible

\* Every layer of the groups has a page, and no other.
Covers(P, groups) ==
  \A l : (\E x \in P : x[2] = l) <=> \E i \in DOMAIN groups : l \in ToSet(groups[i].layers)

\* The tensors of a worker give each layer its pages, apart and within the pool.
Laid(layout, groups, num1) ==
  /\ Apart(Pages(Tensors(layout, groups, num1), num1), BytesPerBlock(groups) * num1)
  /\ Covers(Pages(Tensors(layout, groups, num1), num1), groups)

\* So do those of the general layout, if it can be expressed.
LEMMA GeneralLaid ==
  ASSUME NEW groups, WellGrouped(groups), groups # <<>>, Glm5Layout(groups) = {},
         NEW layout, Expressible(layout, groups), NEW num1 \in Nat \ {0}
  PROVE  Laid(layout, groups, num1)
<1>1. PICK R : R = [i \in DOMAIN groups |-> CHOOSE r : Placed(groups[i], r)]
  OBVIOUS
<1>2. PICK n \in Nat \ {0} : /\ DOMAIN groups = 1..n
                             /\ \A i \in 1..n : Grouped(groups[i])
  BY WellFacts
<1>3. \A i \in DOMAIN groups : Placed(groups[i], R[i])
  <2> TAKE i \in DOMAIN groups
  <2>1. PICK g : g = groups[i]
    OBVIOUS
  <2>2. \E r : Placed(g, r)
    BY <1>2, <2>1, RowsPlaced
  <2>3. Placed(g, CHOOSE r : Placed(g, r))
    BY <2>2
  <2> QED
    BY <1>1, <2>1, <2>3
<1>4. PICK P, block : /\ P = Pages(Tensors(layout, groups, num1), num1)
                      /\ block = BytesPerBlock(groups)
  OBVIOUS
<1>5. block \in Nat /\ BlockOf(groups, block)
  BY <1>4, BytesTyped
<1>6. \A i \in DOMAIN groups : GroupBytes(groups[i]) <= block
  BY <1>5 DEF BlockOf
<1>7. /\ \A x \in P : Lies(layout, groups, num1, R, x)
      /\ \A i \in DOMAIN groups : \A l \in ToSet(groups[i].layers) : \E x \in P : x[2] = l
  <2>1. PICK Q : Q = Pages(Tensors(layout, groups, num1), num1)
    OBVIOUS
  <2>2. \A x \in Q : Lies(layout, groups, num1, R, x)
    BY <1>3, <2>1, GeneralPages
  <2>3. Reached(Q, groups)
    BY <1>3, <2>1, GeneralPages
  <2> QED
    BY <1>4, <2>1, <2>2, <2>3 DEF Reached
<1>8. Shareable(layout, groups)
  BY ExpressibleShares
<1>9. Apart(P, block * num1)
  BY <1>3, <1>4, <1>5, <1>6, <1>7, <1>8, GeneralApart
<1>10. ASSUME NEW x \in P PROVE \E i \in DOMAIN groups : x[2] \in ToSet(groups[i].layers)
  <2>1. PICK i \in DOMAIN groups : \E j \in DOMAIN groups[i].layers : x[2] = groups[i].layers[j]
    <3>1. Lies(layout, groups, num1, R, x)
      BY <1>7
    <3> QED
      BY <3>1 DEF Lies
  <2> QED
    BY <2>1 DEF ToSet
<1>11. Covers(P, groups)
  BY <1>7, <1>10 DEF Covers
<1> QED
  BY <1>4, <1>9, <1>11 DEF Laid

-----------------------------------------------------------------------------
(* Recurrent layers on the pages of MLA layers, tails on those of indexers *)

\* The tensors of one row of layers, one page after the other from `base`.
Place(groups, num1, i, layers, base, n) ==
  {[group |-> i, layers |-> <<layers[k]>>, page |-> PageOf(groups[i], layers[k]),
    layer_stride |-> PageOf(groups[i], layers[k]) * num1,
    block_stride |-> PageOf(groups[i], layers[k]),
    offset |-> base + (k - 1) * PageOf(groups[i], layers[k]) * num1] : k \in 1..n}

\* x is the page of layer l, the k-th of its row, in its block.
Slot(x, num1, i, l, k, base, unit) ==
  /\ x[1] = i /\ x[2] = l /\ x[3] \in 0..(num1 - 1)
  /\ x[4] = base + ((k - 1) * num1 + x[3]) * unit /\ x[5] = x[4] + unit

\* The layers of a row that is n long have pages of `unit` bytes.
OneUnit(groups, i, layers, n, unit) == \A k \in 1..n : PageOf(groups[i], layers[k]) = unit

\* The first n layers of a list have pages in Q.
HasPages(Q, layers, n) == \A k \in 1..n : \E x \in Q : x[2] = layers[k]

\* The pages of a row are its slots.
LEMMA PlacePages ==
  ASSUME NEW groups, NEW num1 \in Nat \ {0}, NEW i, NEW layers, NEW base \in Nat,
         NEW n \in Nat, NEW unit \in Nat, OneUnit(groups, i, layers, n, unit),
         NEW Q, Q = Pages(Place(groups, num1, i, layers, base, n), num1)
  PROVE  /\ \A x \in Q : \E k \in 1..n : Slot(x, num1, i, layers[k], k, base, unit)
         /\ HasPages(Q, layers, n)
<1>1. PICK T : T = Place(groups, num1, i, layers, base, n)
  OBVIOUS
<1>2. ASSUME NEW k \in 1..n, NEW t, t = [group |-> i, layers |-> <<layers[k]>>,
               page |-> PageOf(groups[i], layers[k]),
               layer_stride |-> PageOf(groups[i], layers[k]) * num1,
               block_stride |-> PageOf(groups[i], layers[k]),
               offset |-> base + (k - 1) * PageOf(groups[i], layers[k]) * num1],
             NEW b \in 0..(num1 - 1)
      PROVE  /\ DOMAIN t.layers = {1} /\ t.layers[1] = layers[k] /\ t.group = i /\ t.page = unit
             /\ Byte(t, 1, b) = base + ((k - 1) * num1 + b) * unit
  <2>1. PageOf(groups[i], layers[k]) = unit
    BY DEF OneUnit
  <2>2. /\ t.layers = <<layers[k]>> /\ t.group = i /\ t.page = unit
        /\ t.layer_stride = unit * num1 /\ t.block_stride = unit
        /\ t.offset = base + (k - 1) * unit * num1
    BY <1>2, <2>1
  <2>3. PICK m, w : m = k - 1 /\ w = unit * num1 /\ m \in Nat /\ w \in Nat
    OBVIOUS
  <2>4. Byte(t, 1, b) = base + m * unit * num1 + (1 - 1) * w + b * unit
    BY <2>2, <2>3 DEF Byte
  <2>5. (1 - 1) * w = 0
    BY <2>3
  <2>6. (m * num1 + b) * unit = m * unit * num1 + b * unit
    <3>1. (m * num1 + b) * unit = (m * num1) * unit + b * unit
      BY <2>3
    <3>2. (m * num1) * unit = m * unit * num1
      BY <2>3
    <3> QED
      BY <3>1, <3>2
  <2>7. m * unit * num1 \in Nat /\ b * unit \in Nat
    BY <2>3
  <2> QED
    BY <2>2, <2>3, <2>4, <2>5, <2>6, <2>7
<1>3. ASSUME NEW x \in Q PROVE \E k \in 1..n : Slot(x, num1, i, layers[k], k, base, unit)
  <2>1. PICK t \in T : \E m \in DOMAIN t.layers, b \in 0..(num1 - 1) :
             x = <<t.group, t.layers[m], b, Byte(t, m, b), Byte(t, m, b) + t.page>>
    BY <1>1 DEF Pages
  <2>2. PICK k \in 1..n : t = [group |-> i, layers |-> <<layers[k]>>,
               page |-> PageOf(groups[i], layers[k]),
               layer_stride |-> PageOf(groups[i], layers[k]) * num1,
               block_stride |-> PageOf(groups[i], layers[k]),
               offset |-> base + (k - 1) * PageOf(groups[i], layers[k]) * num1]
    BY <1>1, <2>1 DEF Place
  <2>3. PICK m \in DOMAIN t.layers, b \in 0..(num1 - 1) :
             x = <<t.group, t.layers[m], b, Byte(t, m, b), Byte(t, m, b) + t.page>>
    BY <2>1
  <2>4. /\ DOMAIN t.layers = {1} /\ t.layers[1] = layers[k] /\ t.group = i /\ t.page = unit
        /\ Byte(t, 1, b) = base + ((k - 1) * num1 + b) * unit
    BY <1>2, <2>2
  <2>5. PICK a : a = Byte(t, 1, b)
    OBVIOUS
  <2>6. x = <<i, layers[k], b, a, a + unit>>
    BY <2>3, <2>4, <2>5
  <2>7. Slot(x, num1, i, layers[k], k, base, unit)
    BY <2>4, <2>5, <2>6 DEF Slot
  <2> QED
    BY <2>7
<1>4. ASSUME NEW k \in 1..n PROVE \E x \in Q : x[2] = layers[k]
  <2>1. PICK t : t = [group |-> i, layers |-> <<layers[k]>>,
               page |-> PageOf(groups[i], layers[k]),
               layer_stride |-> PageOf(groups[i], layers[k]) * num1,
               block_stride |-> PageOf(groups[i], layers[k]),
               offset |-> base + (k - 1) * PageOf(groups[i], layers[k]) * num1]
    OBVIOUS
  <2>2. t \in T
    BY <1>1, <2>1 DEF Place
  <2>3. 0 \in 0..(num1 - 1)
    OBVIOUS
  <2>4. DOMAIN t.layers = {1} /\ t.layers[1] = layers[k]
    BY <1>2, <2>1, <2>3
  <2>5. PICK x : x = <<t.group, t.layers[1], 0, Byte(t, 1, 0), Byte(t, 1, 0) + t.page>>
    OBVIOUS
  <2>6. x \in {<<t.group, t.layers[m], b, Byte(t, m, b), Byte(t, m, b) + t.page>> :
                    m \in DOMAIN t.layers, b \in 0..(num1 - 1)}
    BY <2>3, <2>4, <2>5
  <2>7. x \in Q
    BY <1>1, <2>2, <2>6 DEF Pages
  <2> QED
    BY <2>4, <2>5, <2>7
<1>5. HasPages(Q, layers, n)
  BY <1>4 DEF HasPages
<1> QED
  BY <1>3, <1>5

\* The pages of the tensors U are those of each row of Ts.
RowsPages(U, Ts, num1) == \A x : x \in Pages(U, num1) <=> \E T \in Ts : x \in Pages(T, num1)

\* The pages of several rows are those of each.
LEMMA PagesUnion ==
  ASSUME NEW A, NEW B, NEW C, NEW E, NEW num1
  PROVE  RowsPages(A \cup B \cup (UNION C) \cup (UNION E), {A, B} \cup C \cup E, num1)
<1>1. PICK U : U = A \cup B \cup (UNION C) \cup (UNION E)
  OBVIOUS
<1>2. ASSUME NEW x, NEW T, x \in Pages(T, num1)
      PROVE  \E t \in T : x \in {<<t.group, t.layers[k], b, Byte(t, k, b), Byte(t, k, b) + t.page>> :
                                    k \in DOMAIN t.layers, b \in 0..(num1 - 1)}
  BY <1>2 DEF Pages
<1>3. ASSUME NEW x, NEW T, NEW t \in T,
             x \in {<<t.group, t.layers[k], b, Byte(t, k, b), Byte(t, k, b) + t.page>> :
                                    k \in DOMAIN t.layers, b \in 0..(num1 - 1)}
      PROVE  x \in Pages(T, num1)
  BY <1>3 DEF Pages
<1>4. ASSUME NEW t PROVE t \in U <=> \E T \in {A, B} \cup C \cup E : t \in T
  <2>1. PICK c, e : c = UNION C /\ e = UNION E
    OBVIOUS
  <2>2. (t \in c <=> \E T \in C : t \in T) /\ (t \in e <=> \E T \in E : t \in T)
    BY <2>1
  <2>3. t \in U <=> t \in A \/ t \in B \/ t \in c \/ t \in e
    BY <1>1, <2>1
  <2>4. PICK S : S = {A, B} \cup C \cup E
    OBVIOUS
  <2>5. \A T : T \in S <=> T = A \/ T = B \/ T \in C \/ T \in E
    BY <2>4
  <2>6. t \in U <=> \E T \in S : t \in T
    <3>1. ASSUME NEW T \in S, t \in T PROVE t \in U
      BY <2>2, <2>3, <2>5, <3>1
    <3>2. ASSUME t \in U PROVE \E T \in S : t \in T
      <4>1. A \in S /\ B \in S /\ \A T : T \in C \/ T \in E => T \in S
        BY <2>5
      <4>2. CASE t \in A \/ t \in B
        BY <4>1, <4>2
      <4>3. CASE t \in c \/ t \in e
        BY <2>2, <4>1, <4>3
      <4> QED
        BY <2>3, <3>2, <4>2, <4>3
    <3> QED
      BY <3>1, <3>2
  <2> QED
    BY <2>4, <2>6
<1>5. ASSUME NEW x, x \in Pages(U, num1)
      PROVE  \E T \in {A, B} \cup C \cup E : x \in Pages(T, num1)
  <2>1. PICK t \in U : x \in {<<t.group, t.layers[k], b, Byte(t, k, b), Byte(t, k, b) + t.page>> :
                                    k \in DOMAIN t.layers, b \in 0..(num1 - 1)}
    BY <1>2, <1>5
  <2>2. PICK T \in {A, B} \cup C \cup E : t \in T
    BY <1>4
  <2> QED
    BY <1>3, <2>1, <2>2
<1>6. ASSUME NEW x, NEW T \in {A, B} \cup C \cup E, x \in Pages(T, num1)
      PROVE  x \in Pages(U, num1)
  <2>1. PICK t \in T : x \in {<<t.group, t.layers[k], b, Byte(t, k, b), Byte(t, k, b) + t.page>> :
                                    k \in DOMAIN t.layers, b \in 0..(num1 - 1)}
    BY <1>2, <1>6
  <2>2. t \in U
    BY <1>4
  <2> QED
    BY <1>3, <2>1, <2>2
<1>7. PICK Ts : Ts = {A, B} \cup C \cup E
  OBVIOUS
<1>8. RowsPages(U, Ts, num1)
  BY <1>5, <1>6, <1>7 DEF RowsPages
<1> QED
  BY <1>1, <1>7, <1>8

\* Slots of rows that begin at one place are the same or apart.
LEMMA SlotsApart ==
  ASSUME NEW num1 \in Nat \ {0}, NEW base \in Nat, NEW unit \in Nat,
         NEW x, NEW i, NEW l, NEW k \in Nat \ {0}, Slot(x, num1, i, l, k, base, unit),
         NEW y, NEW j, NEW m, NEW h \in Nat \ {0}, Slot(y, num1, j, m, h, base, unit)
  PROVE  (x[3] = y[3] /\ k = h) \/ x[5] <= y[4] \/ y[5] <= x[4]
<1>1. PICK b, c : b = x[3] /\ c = y[3] /\ b \in 0..(num1 - 1) /\ c \in 0..(num1 - 1)
  BY DEF Slot
<1>2. PICK u, v : u = (k - 1) * num1 + b /\ v = (h - 1) * num1 + c
  OBVIOUS
<1>3. PICK e, f : e = k - 1 /\ f = h - 1 /\ e \in Nat /\ f \in Nat
  OBVIOUS
<1>4. e * num1 \in Nat /\ f * num1 \in Nat /\ u = e * num1 + b /\ v = f * num1 + c
  BY <1>2, <1>3
<1>5. u \in Nat /\ v \in Nat
  BY <1>1, <1>4
<1>6. /\ x[4] = base + u * unit /\ x[5] = x[4] + unit /\ u * unit \in Nat
      /\ y[4] = base + v * unit /\ y[5] = y[4] + unit /\ v * unit \in Nat
  BY <1>1, <1>2, <1>5 DEF Slot
<1>7. CASE u < v
  <2>1. u * unit + unit <= v * unit
    BY <1>5, <1>7, Products
  <2> QED
    BY <1>6, <2>1
<1>8. CASE v < u
  <2>1. v * unit + unit <= u * unit
    BY <1>5, <1>8, Products
  <2> QED
    BY <1>6, <2>1
<1>9. CASE u = v
  <2>1. CASE e = f
    BY <1>1, <1>3, <1>4, <1>9, <2>1
  <2>2. CASE e < f
    <3>1. e * num1 + num1 <= f * num1
      BY <1>3, <2>2, Products
    <3> QED
      BY <1>1, <1>4, <1>9, <3>1
  <2>3. CASE f < e
    <3>1. f * num1 + num1 <= e * num1
      BY <1>3, <2>3, Products
    <3> QED
      BY <1>1, <1>4, <1>9, <3>1
  <2> QED
    BY <1>3, <2>1, <2>2, <2>3
<1> QED
  BY <1>5, <1>7, <1>8, <1>9

\* The slots of a row take as many bytes as it has layers.
LEMMA SlotInside ==
  ASSUME NEW num1 \in Nat \ {0}, NEW base \in Nat, NEW unit \in Nat, NEW n \in Nat,
         NEW x, NEW i, NEW l, NEW k \in 1..n, Slot(x, num1, i, l, k, base, unit)
  PROVE  x[4] \in Nat /\ base <= x[4] /\ x[5] <= base + (n * num1) * unit
<1>1. PICK b : b = x[3] /\ b \in 0..(num1 - 1)
  BY DEF Slot
<1>2. PICK e, u : e = k - 1 /\ u = e * num1 + b /\ e \in Nat /\ e < n
  OBVIOUS
<1>3. e * num1 + num1 <= n * num1 /\ e * num1 \in Nat /\ n * num1 \in Nat
  BY <1>2, Products
<1>4. u \in Nat /\ u < n * num1
  BY <1>1, <1>2, <1>3
<1>5. u * unit + unit <= (n * num1) * unit /\ u * unit \in Nat /\ (n * num1) * unit \in Nat
  BY <1>3, <1>4, Products
<1>6. x[4] = base + u * unit /\ x[5] = x[4] + unit
  BY <1>1, <1>2 DEF Slot
<1> QED
  BY <1>5, <1>6

\* A list of pages of `unit` bytes, which has at most n of them.
Short(groups, i, layers, n, unit) ==
  /\ Len(layers) \in Nat /\ DOMAIN layers = 1..Len(layers) /\ Len(layers) <= n
  /\ OneUnit(groups, i, layers, Len(layers), unit)

\* A worker's groups of a GLM-5 model: M and I are the bytes of the pages of MLA layers and
\* indexers.
Glm5Rows(groups, p, M, I) ==
  /\ p.attn \in DOMAIN groups /\ DOMAIN groups = {p.attn} \cup p.mambas \cup p.tails
  /\ p.attn \notin p.mambas /\ p.attn \notin p.tails
  /\ EachOnce(p.mla, ToSet(p.mla)) /\ EachOnce(p.idx, ToSet(p.idx))
  /\ ToSet(groups[p.attn].layers) = ToSet(p.mla) \cup ToSet(p.idx)
  /\ \A l \in ToSet(p.mla) : PageOf(groups[p.attn], l) = M
  /\ Short(groups, p.attn, p.mla, Len(p.mla), M) /\ Short(groups, p.attn, p.idx, Len(p.idx), I)
  /\ GroupBytes(groups[p.attn]) = Len(p.mla) * M + Len(p.idx) * I
  /\ \A i \in p.mambas : Short(groups, i, groups[i].layers, Len(p.mla), M)
  /\ \A i \in p.tails : /\ Short(groups, i, groups[i].layers, Len(p.idx), I)
                        /\ Len(groups[i].layers) = Len(p.idx)

\* The bytes before the first indexer.
Behind(groups, p, num1) == SumFunction([l \in ToSet(p.mla) |-> PageOf(groups[p.attn], l) * num1])

\* They are those of all MLA layers.
LEMMA BehindAll ==
  ASSUME NEW groups, NEW p, NEW M \in Nat, NEW I \in Nat, Glm5Rows(groups, p, M, I),
         NEW num1 \in Nat \ {0}
  PROVE  Behind(groups, p, num1) = (Len(p.mla) * num1) * M
<1>1. PICK X, n : X = ToSet(p.mla) /\ n = Len(p.mla)
  OBVIOUS
<1>2. IsFiniteSet(X) /\ Cardinality(X) = n /\ n \in Nat
  BY <1>1, ListLength DEF Glm5Rows
<1>3. PICK q : q = M * num1 /\ q \in Nat
  OBVIOUS
<1>4. PICK f : f = [l \in X |-> PageOf(groups[p.attn], l) * num1]
  OBVIOUS
<1>5. \A l \in X : f[l] = q
  BY <1>1, <1>3, <1>4 DEF Glm5Rows
<1>6. f \in [X -> Nat] /\ AllAre(f, X, q)
  BY <1>3, <1>4, <1>5 DEF AllAre
<1>7. PICK G : Adds(X, f, G)
  BY <1>2, <1>6, SumsAdd
<1>8. G[X] = n * q
  <2>1. X \in SUBSET X
    OBVIOUS
  <2> QED
    BY <1>2, <1>3, <1>6, <1>7, <2>1, AddsEqual
<1>9. SumFunction([l \in X |-> f[l]]) = G[X]
  BY <1>7 DEF Adds
<1>10. [l \in X |-> f[l]] = f
  BY <1>4
<1>11. n * q = (n * num1) * M
  BY <1>2, <1>3
<1> QED
  BY <1>1, <1>4, <1>8, <1>9, <1>10, <1>11 DEF Behind

\* The rows of all groups, before and behind.
LEMMA Glm5Placed ==
  ASSUME NEW groups, NEW p, Glm5Layout(groups) = {p},
         NEW M \in Nat, NEW I \in Nat, Glm5Rows(groups, p, M, I),
         NEW layout, NEW num1 \in Nat \ {0}, NEW behind, behind = Behind(groups, p, num1)
  PROVE  Tensors(layout, groups, num1) =
           Place(groups, num1, p.attn, p.mla, 0, Len(p.mla))
           \cup Place(groups, num1, p.attn, p.idx, behind, Len(p.idx))
           \cup (UNION {Place(groups, num1, i, groups[i].layers, 0, Len(groups[i].layers)) :
                           i \in p.mambas})
           \cup (UNION {Place(groups, num1, i, groups[i].layers, behind, Len(groups[i].layers)) :
                           i \in p.tails})
<1>1. Tensors(layout, groups, num1) = UNION {Glm5Tensors(g, groups, num1) : g \in {p}}
  <2>1. Glm5Layout(groups) # {}
    OBVIOUS
  <2> QED
    BY <2>1, Zenon DEF Tensors
<1>2. UNION {Glm5Tensors(g, groups, num1) : g \in {p}} = Glm5Tensors(p, groups, num1)
  OBVIOUS
<1>3. Glm5Tensors(p, groups, num1) =
           Place(groups, num1, p.attn, p.mla, 0, Len(p.mla))
           \cup Place(groups, num1, p.attn, p.idx, behind, Len(p.idx))
           \cup (UNION {Place(groups, num1, i, groups[i].layers, 0,
                              Min({Len(groups[i].layers), Len(p.mla)})) : i \in p.mambas})
           \cup (UNION {Place(groups, num1, i, groups[i].layers, behind, Len(p.idx)) : i \in p.tails})
  <2>1. Glm5Tensors(p, groups, num1) =
           Place(groups, num1, p.attn, p.mla, 0, Len(p.mla))
           \cup Place(groups, num1, p.attn, p.idx, Behind(groups, p, num1), Len(p.idx))
           \cup (UNION {Place(groups, num1, i, groups[i].layers, 0,
                              Min({Len(groups[i].layers), Len(p.mla)})) : i \in p.mambas})
           \cup (UNION {Place(groups, num1, i, groups[i].layers, Behind(groups, p, num1), Len(p.idx)) :
                           i \in p.tails})
    BY Zenon DEF Glm5Tensors, Place, Behind
  <2> QED
    BY <2>1
<1>4. \A i \in p.mambas : Min({Len(groups[i].layers), Len(p.mla)}) = Len(groups[i].layers)
  <2> TAKE i \in p.mambas
  <2>1. PICK a, b : a = Len(groups[i].layers) /\ b = Len(p.mla)
    OBVIOUS
  <2>2. a \in Nat /\ b \in Nat /\ a <= b
    BY <2>1 DEF Glm5Rows, Short
  <2>3. {a, b} \in SUBSET Nat /\ {a, b} # {}
    BY <2>2
  <2>4. PICK X : X = {a, b}
    OBVIOUS
  <2>5. Min(X) \in X /\ \A y \in X : Min(X) <= y
    BY <2>3, <2>4, MinOf
  <2> QED
    BY <2>1, <2>2, <2>4, <2>5
<1>5. \A i \in p.tails : Len(p.idx) = Len(groups[i].layers)
  BY DEF Glm5Rows
<1>6. {Place(groups, num1, i, groups[i].layers, 0, Min({Len(groups[i].layers), Len(p.mla)})) :
          i \in p.mambas} =
        {Place(groups, num1, i, groups[i].layers, 0, Len(groups[i].layers)) : i \in p.mambas}
  BY <1>4
<1>7. {Place(groups, num1, i, groups[i].layers, behind, Len(p.idx)) : i \in p.tails} =
        {Place(groups, num1, i, groups[i].layers, behind, Len(groups[i].layers)) : i \in p.tails}
  BY <1>5
<1> QED
  BY <1>1, <1>2, <1>3, <1>6, <1>7

\* x is the k-th page of group i, which has the row of the MLA layers' group or its own
\* layers, no more than n; the rows begin at `base`.
Layers1(groups, attn, row, i) == IF i = attn THEN row ELSE groups[i].layers
Rowed(groups, attn, row, others, n, base, unit, num1, x, i, k) ==
  /\ i \in {attn} \cup others /\ k \in 1..Len(Layers1(groups, attn, row, i))
  /\ Short(groups, i, Layers1(groups, attn, row, i), n, unit)
  /\ Slot(x, num1, i, Layers1(groups, attn, row, i)[k], k, base, unit)

\* The rows that begin at one place are short enough.
AllShort(groups, attn, row, others, n, unit) ==
  \A i \in {attn} \cup others : Short(groups, i, Layers1(groups, attn, row, i), n, unit)

\* A tensor of one of these rows has its pages, each layer one in every block.
LEMMA RowPaged ==
  ASSUME NEW groups, NEW attn, NEW row, NEW others, NEW n \in Nat, NEW base \in Nat,
         NEW unit \in Nat, NEW num1 \in Nat \ {0}, AllShort(groups, attn, row, others, n, unit),
         NEW i \in {attn} \cup others, NEW layers, layers = Layers1(groups, attn, row, i),
         NEW Q, Q = Pages(Place(groups, num1, i, layers, base, Len(layers)), num1)
  PROVE  /\ \A x \in Q : \E k : Rowed(groups, attn, row, others, n, base, unit, num1, x, i, k)
         /\ \A l \in ToSet(layers) : \E x \in Q : x[2] = l
<1>1. Short(groups, i, layers, n, unit)
  BY DEF AllShort
<1>2. PICK m : m = Len(layers) /\ m \in Nat /\ OneUnit(groups, i, layers, m, unit)
  BY <1>1 DEF Short
<1>3. PICK P : P = Pages(Place(groups, num1, i, layers, base, m), num1)
  OBVIOUS
<1>4. \A x \in P : \E k \in 1..m : Slot(x, num1, i, layers[k], k, base, unit)
  BY <1>2, <1>3, PlacePages
<1>5. \A k \in 1..m : \E x \in P : x[2] = layers[k]
  <2>1. HasPages(P, layers, m)
    BY <1>2, <1>3, PlacePages
  <2> QED
    BY <2>1 DEF HasPages
<1>6. P = Q
  BY <1>2, <1>3
<1>7. \A x \in Q : \E k : Rowed(groups, attn, row, others, n, base, unit, num1, x, i, k)
  <2> TAKE x \in Q
  <2>1. PICK k \in 1..m : Slot(x, num1, i, layers[k], k, base, unit)
    BY <1>4, <1>6
  <2>2. Rowed(groups, attn, row, others, n, base, unit, num1, x, i, k)
    BY <1>1, <1>2, <2>1 DEF Rowed
  <2> QED
    BY <2>2
<1>8. \A l \in ToSet(layers) : \E x \in Q : x[2] = l
  <2>1. \A l \in ToSet(layers) : \E k \in 1..m : l = layers[k]
    BY <1>1, <1>2 DEF ToSet, Short
  <2> QED
    BY <1>5, <1>6, <2>1
<1> QED
  BY <1>7, <1>8

\* Pages of such rows are apart, or those of different groups.
LEMMA RowedApart ==
  ASSUME NEW groups, NEW attn, NEW row, NEW others, NEW n \in Nat, NEW base \in Nat,
         NEW unit \in Nat, NEW num1 \in Nat \ {0},
         NEW x, NEW i, NEW k, Rowed(groups, attn, row, others, n, base, unit, num1, x, i, k),
         NEW y, NEW j, NEW h, Rowed(groups, attn, row, others, n, base, unit, num1, y, j, h)
  PROVE  \/ x[3] = y[3] /\ (x[1] # y[1] \/ x[2] = y[2])
         \/ x[5] <= y[4] \/ y[5] <= x[4]
<1>1. PICK s, l : s = Layers1(groups, attn, row, i) /\ l = s[k]
  OBVIOUS
<1>2. PICK t, m : t = Layers1(groups, attn, row, j) /\ m = t[h]
  OBVIOUS
<1>3. k \in 1..Len(s) /\ Len(s) \in Nat /\ Slot(x, num1, i, l, k, base, unit)
  BY <1>1 DEF Rowed, Short
<1>4. h \in 1..Len(t) /\ Len(t) \in Nat /\ Slot(y, num1, j, m, h, base, unit)
  BY <1>2 DEF Rowed, Short
<1>5. k \in Nat \ {0} /\ h \in Nat \ {0}
  BY <1>3, <1>4
<1>6. (x[3] = y[3] /\ k = h) \/ x[5] <= y[4] \/ y[5] <= x[4]
  BY <1>3, <1>4, <1>5, SlotsApart
<1>7. x[1] = i /\ x[2] = l /\ y[1] = j /\ y[2] = m
  BY <1>3, <1>4 DEF Slot
<1> QED
  BY <1>1, <1>2, <1>6, <1>7

\* They are within the bytes of n pages per block.
LEMMA RowedInside ==
  ASSUME NEW groups, NEW attn, NEW row, NEW others, NEW n \in Nat, NEW base \in Nat,
         NEW unit \in Nat, NEW num1 \in Nat \ {0},
         NEW x, NEW i, NEW k, Rowed(groups, attn, row, others, n, base, unit, num1, x, i, k)
  PROVE  /\ x[4] \in Nat /\ base <= x[4] /\ x[5] <= base + (n * num1) * unit
         /\ i \in {attn} \cup others /\ x[2] \in ToSet(Layers1(groups, attn, row, i))
<1>1. PICK s, l : s = Layers1(groups, attn, row, i) /\ l = s[k]
  OBVIOUS
<1>2. /\ k \in 1..Len(s) /\ Len(s) \in Nat /\ Slot(x, num1, i, l, k, base, unit)
      /\ Len(s) <= n /\ DOMAIN s = 1..Len(s) /\ i \in {attn} \cup others
  BY <1>1 DEF Rowed, Short
<1>3. k \in 1..n
  BY <1>2
<1>4. x[4] \in Nat /\ base <= x[4] /\ x[5] <= base + (n * num1) * unit
  BY <1>2, <1>3, SlotInside
<1>5. x[2] = s[k]
  BY <1>1, <1>2 DEF Slot
<1> QED
  BY <1>1, <1>2, <1>4, <1>5 DEF ToSet

\* So the layers of a GLM-5 model have pages apart and within the pool.
LEMMA Glm5Laid ==
  ASSUME NEW groups, NEW p, Glm5Layout(groups) = {p},
         NEW M \in Nat, NEW I \in Nat, Glm5Rows(groups, p, M, I),
         BytesPerBlock(groups) = GroupBytes(groups[p.attn]),
         NEW layout, NEW num1 \in Nat \ {0}
  PROVE  Laid(layout, groups, num1)
<1>1. PICK L, H : L = Len(p.mla) /\ H = Len(p.idx) /\ L \in Nat /\ H \in Nat
  BY DEF Glm5Rows, Short
<1>2. PICK behind : behind = (L * num1) * M /\ behind \in Nat /\ behind = Behind(groups, p, num1)
  <2>1. (L * num1) * M \in Nat
    <3>1. L * num1 \in Nat
      BY <1>1
    <3> QED
      BY <3>1
  <2> QED
    BY <1>1, <2>1, BehindAll
<1>23. behind \in Nat
  BY <1>2
<1>3. PICK P, size : /\ P = Pages(Tensors(layout, groups, num1), num1)
                     /\ size = BytesPerBlock(groups) * num1
  OBVIOUS
<1>4. size = behind + (H * num1) * I /\ (H * num1) * I \in Nat
  <2>1. size = (L * M + H * I) * num1
    BY <1>1, <1>3 DEF Glm5Rows
  <2>2. L * M \in Nat /\ H * I \in Nat /\ H * num1 \in Nat
    BY <1>1
  <2>3. (L * M + H * I) * num1 = (L * M) * num1 + (H * I) * num1
    BY <2>2
  <2>4. (L * M) * num1 = (L * num1) * M /\ (H * I) * num1 = (H * num1) * I
    BY <1>1
  <2> QED
    BY <1>2, <2>1, <2>2, <2>3, <2>4
<1>5. PICK a, mla, idx, mambas, tails : /\ a = p.attn /\ mla = p.mla /\ idx = p.idx
                                        /\ mambas = p.mambas /\ tails = p.tails
  OBVIOUS
<1>6. /\ AllShort(groups, a, mla, mambas, L, M) /\ AllShort(groups, a, idx, tails, H, I)
      /\ DOMAIN groups = {a} \cup mambas \cup tails /\ a \notin mambas /\ a \notin tails
      /\ ToSet(groups[a].layers) = ToSet(mla) \cup ToSet(idx)
  BY <1>1, <1>5 DEF Glm5Rows, AllShort, Layers1
<1>7. PICK fore, back, fores, backs :
        /\ fore = Place(groups, num1, a, mla, 0, Len(mla))
        /\ back = Place(groups, num1, a, idx, behind, Len(idx))
        /\ fores = {Place(groups, num1, i, groups[i].layers, 0, Len(groups[i].layers)) : i \in mambas}
        /\ backs = {Place(groups, num1, i, groups[i].layers, behind, Len(groups[i].layers)) :
                       i \in tails}
  OBVIOUS
<1>8. P = Pages(fore \cup back \cup (UNION fores) \cup (UNION backs), num1)
  <2>1. Tensors(layout, groups, num1) =
           Place(groups, num1, p.attn, p.mla, 0, Len(p.mla))
           \cup Place(groups, num1, p.attn, p.idx, behind, Len(p.idx))
           \cup (UNION {Place(groups, num1, i, groups[i].layers, 0, Len(groups[i].layers)) :
                           i \in p.mambas})
           \cup (UNION {Place(groups, num1, i, groups[i].layers, behind, Len(groups[i].layers)) :
                           i \in p.tails})
    BY <1>2, Glm5Placed
  <2>2. Tensors(layout, groups, num1) = fore \cup back \cup (UNION fores) \cup (UNION backs)
    BY <1>5, <1>7, <2>1
  <2> QED
    BY <1>3, <2>2
<1>9. \A x : x \in P <=> \E T \in {fore, back} \cup fores \cup backs : x \in Pages(T, num1)
  <2>1. RowsPages(fore \cup back \cup (UNION fores) \cup (UNION backs),
                {fore, back} \cup fores \cup backs, num1)
    BY PagesUnion
  <2>2. PICK U : U = fore \cup back \cup (UNION fores) \cup (UNION backs)
    OBVIOUS
  <2>3. PICK Ts : Ts = {fore, back} \cup fores \cup backs
    OBVIOUS
  <2>4. RowsPages(U, Ts, num1) /\ P = Pages(U, num1)
    BY <1>8, <2>1, <2>2, <2>3
  <2>5. \A x : x \in P <=> \E T \in Ts : x \in Pages(T, num1)
    BY <2>4 DEF RowsPages
  <2> QED
    BY <2>3, <2>5
<1> DEFINE Fore(x, i, k) == Rowed(groups, a, mla, mambas, L, 0, M, num1, x, i, k)
           Back(x, i, k) == Rowed(groups, a, idx, tails, H, behind, I, num1, x, i, k)
<1>10. ASSUME NEW i \in {a} \cup mambas, NEW s, s = Layers1(groups, a, mla, i)
       PROVE  /\ \A x \in Pages(Place(groups, num1, i, s, 0, Len(s)), num1) : \E k : Fore(x, i, k)
              /\ \A l \in ToSet(s) :
                    \E x \in Pages(Place(groups, num1, i, s, 0, Len(s)), num1) : x[2] = l
  <2>1. PICK Q : Q = Pages(Place(groups, num1, i, s, 0, Len(s)), num1)
    OBVIOUS
  <2>2. \A x \in Q : \E k : Rowed(groups, a, mla, mambas, L, 0, M, num1, x, i, k)
    BY <1>1, <1>6, <1>10, <2>1, RowPaged
  <2>3. \A l \in ToSet(s) : \E x \in Q : x[2] = l
    BY <1>1, <1>6, <1>10, <2>1, RowPaged
  <2> QED
    BY <2>1, <2>2, <2>3
<1>11. ASSUME NEW i \in {a} \cup tails, NEW s, s = Layers1(groups, a, idx, i)
       PROVE  /\ \A x \in Pages(Place(groups, num1, i, s, behind, Len(s)), num1) : \E k : Back(x, i, k)
              /\ \A l \in ToSet(s) :
                    \E x \in Pages(Place(groups, num1, i, s, behind, Len(s)), num1) : x[2] = l
  <2>1. PICK Q : Q = Pages(Place(groups, num1, i, s, behind, Len(s)), num1)
    OBVIOUS
  <2>2. \A x \in Q : \E k : Rowed(groups, a, idx, tails, H, behind, I, num1, x, i, k)
    BY <1>1, <1>6, <1>11, <1>23, <2>1, RowPaged
  <2>3. \A l \in ToSet(s) : \E x \in Q : x[2] = l
    BY <1>1, <1>6, <1>11, <1>23, <2>1, RowPaged
  <2> QED
    BY <2>1, <2>2, <2>3
<1>12. ASSUME NEW x \in P PROVE \E i, k : Fore(x, i, k) \/ Back(x, i, k)
  <2>1. PICK T \in {fore, back} \cup fores \cup backs : x \in Pages(T, num1)
    BY <1>9
  <2>2. CASE T = fore
    <3>1. a \in {a} \cup mambas /\ mla = Layers1(groups, a, mla, a)
      BY DEF Layers1
    <3>2. \E k : Fore(x, a, k)
      BY <1>7, <1>10, <2>1, <2>2, <3>1
    <3> QED
      BY <3>2
  <2>3. CASE T = back
    <3>1. a \in {a} \cup tails /\ idx = Layers1(groups, a, idx, a)
      BY DEF Layers1
    <3>2. \E k : Back(x, a, k)
      BY <1>7, <1>11, <2>1, <2>3, <3>1
    <3> QED
      BY <3>2
  <2>4. CASE T \in fores
    <3>1. PICK i \in mambas :
            T = Place(groups, num1, i, groups[i].layers, 0, Len(groups[i].layers))
      BY <1>7, <2>4
    <3>2. groups[i].layers = Layers1(groups, a, mla, i)
      BY <1>6 DEF Layers1
    <3>3. \E k : Fore(x, i, k)
      BY <1>10, <2>1, <3>1, <3>2
    <3> QED
      BY <3>3
  <2>5. CASE T \in backs
    <3>1. PICK i \in tails :
            T = Place(groups, num1, i, groups[i].layers, behind, Len(groups[i].layers))
      BY <1>7, <2>5
    <3>2. groups[i].layers = Layers1(groups, a, idx, i)
      BY <1>6 DEF Layers1
    <3>3. \E k : Back(x, i, k)
      BY <1>11, <2>1, <3>1, <3>2
    <3> QED
      BY <3>3
  <2> QED
    BY <2>1, <2>2, <2>3, <2>4, <2>5
<1>13. ASSUME NEW x, NEW i, NEW k, Fore(x, i, k)
       PROVE  /\ x[4] \in Nat /\ x[5] <= behind
              /\ i \in DOMAIN groups /\ x[2] \in ToSet(groups[i].layers)
  <2>1. /\ x[4] \in Nat /\ x[5] <= 0 + (L * num1) * M
        /\ i \in {a} \cup mambas /\ x[2] \in ToSet(Layers1(groups, a, mla, i))
    BY <1>1, <1>13, RowedInside
  <2>2. x[2] \in ToSet(groups[i].layers)
    BY <1>6, <2>1 DEF Layers1
  <2> QED
    BY <1>2, <1>6, <2>1, <2>2
<1>14. ASSUME NEW x, NEW i, NEW k, Back(x, i, k)
       PROVE  /\ x[4] \in Nat /\ behind <= x[4] /\ x[5] <= size
              /\ i \in DOMAIN groups /\ x[2] \in ToSet(groups[i].layers)
  <2>1. /\ x[4] \in Nat /\ behind <= x[4] /\ x[5] <= behind + (H * num1) * I
        /\ i \in {a} \cup tails /\ x[2] \in ToSet(Layers1(groups, a, idx, i))
    <3>1. Rowed(groups, a, idx, tails, H, behind, I, num1, x, i, k)
      BY <1>14
    <3> QED
      BY <1>1, <1>23, <3>1, RowedInside
  <2>2. x[2] \in ToSet(groups[i].layers)
    BY <1>6, <2>1 DEF Layers1
  <2> QED
    BY <1>4, <1>6, <2>1, <2>2
<1>15. ASSUME NEW x, NEW i, NEW k, Fore(x, i, k), NEW y, NEW j, NEW h, Fore(y, j, h)
       PROVE  \/ x[3] = y[3] /\ (x[1] # y[1] \/ x[2] = y[2])
              \/ x[5] <= y[4] \/ y[5] <= x[4]
  BY <1>1, <1>15, RowedApart
<1>16. ASSUME NEW x, NEW i, NEW k, Back(x, i, k), NEW y, NEW j, NEW h, Back(y, j, h)
       PROVE  \/ x[3] = y[3] /\ (x[1] # y[1] \/ x[2] = y[2])
              \/ x[5] <= y[4] \/ y[5] <= x[4]
  BY <1>1, <1>2, <1>16, RowedApart
<1> HIDE DEF Fore, Back
<1>17. ASSUME NEW x \in P PROVE 0 <= x[4] /\ x[5] <= size
  <2>1. PICK i, k : Fore(x, i, k) \/ Back(x, i, k)
    BY <1>12
  <2>2. CASE Fore(x, i, k)
    <3>1. x[4] \in Nat /\ x[5] <= behind
      BY <1>13, <2>2
    <3>2. x[5] \in Int
      BY <2>2 DEF Fore, Rowed, Slot
    <3> QED
      BY <1>2, <1>4, <3>1, <3>2
  <2>3. CASE Back(x, i, k)
    <3>1. x[4] \in Nat /\ x[5] <= size
      BY <1>14, <2>3
    <3> QED
      BY <3>1
  <2> QED
    BY <2>1, <2>2, <2>3
<1>18. ASSUME NEW x \in P, NEW y \in P
       PROVE  \/ x[3] = y[3] /\ (x[1] # y[1] \/ x[2] = y[2])
              \/ x[5] <= y[4] \/ y[5] <= x[4]
  <2>1. PICK i, k : Fore(x, i, k) \/ Back(x, i, k)
    BY <1>12
  <2>2. PICK j, h : Fore(y, j, h) \/ Back(y, j, h)
    BY <1>12
  <2>3. CASE Fore(x, i, k) /\ Fore(y, j, h)
    BY <1>15, <2>3
  <2>4. CASE Back(x, i, k) /\ Back(y, j, h)
    BY <1>16, <2>4
  <2>5. CASE Fore(x, i, k) /\ Back(y, j, h)
    <3>1. x[4] \in Nat /\ x[5] <= behind /\ behind <= y[4] /\ y[4] \in Nat
      BY <1>13, <1>14, <2>5
    <3>2. x[5] = x[4] + M
      BY <2>5 DEF Fore, Rowed, Slot
    <3> QED
      BY <1>2, <3>1, <3>2
  <2>6. CASE Back(x, i, k) /\ Fore(y, j, h)
    <3>1. y[4] \in Nat /\ y[5] <= behind /\ behind <= x[4] /\ x[4] \in Nat
      BY <1>13, <1>14, <2>6
    <3>2. y[5] = y[4] + M
      BY <2>6 DEF Fore, Rowed, Slot
    <3> QED
      BY <1>2, <3>1, <3>2
  <2> QED
    BY <2>1, <2>2, <2>3, <2>4, <2>5, <2>6
<1>19. Apart(P, size)
  BY <1>17, <1>18 DEF Apart
<1>20. ASSUME NEW x \in P PROVE \E i \in DOMAIN groups : x[2] \in ToSet(groups[i].layers)
  <2>1. PICK i, k : Fore(x, i, k) \/ Back(x, i, k)
    BY <1>12
  <2> QED
    BY <1>13, <1>14, <2>1
<1>21. ASSUME NEW i \in DOMAIN groups, NEW l \in ToSet(groups[i].layers)
       PROVE  \E x \in P : x[2] = l
  <2>1. CASE i = a /\ l \in ToSet(mla)
    <3>1. a \in {a} \cup mambas /\ mla = Layers1(groups, a, mla, a)
      BY DEF Layers1
    <3>2. \E x \in Pages(fore, num1) : x[2] = l
      BY <1>7, <1>10, <2>1, <3>1
    <3> QED
      BY <1>9, <3>2
  <2>2. CASE i = a /\ l \in ToSet(idx)
    <3>1. a \in {a} \cup tails /\ idx = Layers1(groups, a, idx, a)
      BY DEF Layers1
    <3>2. \E x \in Pages(back, num1) : x[2] = l
      BY <1>7, <1>11, <2>2, <3>1
    <3> QED
      BY <1>9, <3>2
  <2>3. CASE i \in mambas
    <3>1. PICK T : T = Place(groups, num1, i, groups[i].layers, 0, Len(groups[i].layers))
      OBVIOUS
    <3>2. T \in fores
      BY <1>7, <2>3, <3>1
    <3>3. groups[i].layers = Layers1(groups, a, mla, i)
      BY <1>6, <2>3 DEF Layers1
    <3>4. \E x \in Pages(T, num1) : x[2] = l
      BY <1>10, <2>3, <3>1, <3>3
    <3> QED
      BY <1>9, <3>2, <3>4
  <2>4. CASE i \in tails
    <3>1. PICK T : T = Place(groups, num1, i, groups[i].layers, behind, Len(groups[i].layers))
      OBVIOUS
    <3>2. T \in backs
      BY <1>7, <2>4, <3>1
    <3>3. groups[i].layers = Layers1(groups, a, idx, i)
      BY <1>6, <2>4 DEF Layers1
    <3>4. \E x \in Pages(T, num1) : x[2] = l
      BY <1>11, <2>4, <3>1, <3>3
    <3> QED
      BY <1>9, <3>2, <3>4
  <2> QED
    BY <1>6, <2>1, <2>2, <2>3, <2>4
<1>22. Covers(P, groups)
  BY <1>20, <1>21 DEF Covers
<1> QED
  BY <1>3, <1>19, <1>22 DEF Laid

-----------------------------------------------------------------------------
(* The rows of a GLM-5 model *)

\* The numbers of the groups of one kind of layers.
KindGroups(groups, kind) ==
  {i \in DOMAIN groups : {s.kind : s \in Range(groups[i].of)} = {kind}}

\* The layers of a group with so many tokens per state.
RowsOf(g, S) == Kept(g.layers, {l \in DOMAIN g.of : g.of[l].tps \in S})

\* What the layout of a GLM-5 model is of.
Glm5Formed(groups, p) ==
  /\ KindGroups(groups, "mla") = {p.attn} /\ p.attn \in DOMAIN groups
  /\ p.mambas = KindGroups(groups, "mamba") /\ p.tails = KindGroups(groups, "tail")
  /\ p.mla = RowsOf(groups[p.attn], {1}) /\ p.idx = RowsOf(groups[p.attn], Nat \ {0, 1})
  /\ Glm5Holds(groups, p)

\* There is one such layout, and a block is as large as its attention layers.
LEMMA Glm5IsFormed ==
  ASSUME NEW groups, WellGrouped(groups), groups # <<>>, Glm5Layout(groups) # {}
  PROVE  \E p : /\ Glm5Layout(groups) = {p} /\ Glm5Formed(groups, p)
                /\ BytesPerBlock(groups) = GroupBytes(groups[p.attn])
<1>1. PICK n \in Nat \ {0} : DOMAIN groups = 1..n
  BY WellFacts
<1>2. IsFiniteSet(1..n)
  BY FS_Interval
<1>3. PICK A : A = KindGroups(groups, "mla")
  OBVIOUS
<1>4. Cardinality(A) = 1
  <2>1. PICK g : g \in Glm5Layout(groups)
    OBVIOUS
  <2> QED
    BY <1>3, <2>1, Zenon DEF Glm5Layout, KindGroups
<1>5. A \in SUBSET (1..n)
  BY <1>1, <1>3 DEF KindGroups
<1>6. PICK a : A = {a}
  <2>1. IsFiniteSet(A)
    BY <1>2, <1>5, FS_Subset
  <2> QED
    BY <1>4, <2>1, FS_Singleton
<1>7. PICK p : p = [attn |-> a, mambas |-> KindGroups(groups, "mamba"),
                    tails |-> KindGroups(groups, "tail"),
                    mla |-> RowsOf(groups[a], {1}), idx |-> RowsOf(groups[a], Nat \ {0, 1})]
  OBVIOUS
<1>8. Glm5Layout(groups) =
        {q \in {[attn |-> attn, mambas |-> KindGroups(groups, "mamba"),
                 tails |-> KindGroups(groups, "tail"), mla |-> RowsOf(groups[attn], {1}),
                 idx |-> RowsOf(groups[attn], Nat \ {0, 1})] : attn \in A} : Glm5Holds(groups, q)}
  BY <1>3, <1>4, Zenon DEF Glm5Layout, KindGroups, RowsOf
<1>9. \A q : q \in Glm5Layout(groups) <=> q = p /\ Glm5Holds(groups, q)
  <2>1. PICK X : X = {[attn |-> attn, mambas |-> KindGroups(groups, "mamba"),
                 tails |-> KindGroups(groups, "tail"), mla |-> RowsOf(groups[attn], {1}),
                 idx |-> RowsOf(groups[attn], Nat \ {0, 1})] : attn \in A}
    OBVIOUS
  <2>2. X = {p}
    BY <1>6, <1>7, <2>1
  <2>3. Glm5Layout(groups) = {q \in X : Glm5Holds(groups, q)}
    BY <1>8, <2>1
  <2> QED
    BY <2>2, <2>3
<1>10. Glm5Layout(groups) = {p} /\ Glm5Holds(groups, p)
  BY <1>9
<1>11. Glm5Formed(groups, p)
  BY <1>1, <1>3, <1>5, <1>6, <1>7, <1>10 DEF Glm5Formed
<1>12. BytesPerBlock(groups) = GroupBytes(groups[p.attn])
  <2>1. BlockOf(groups, BytesPerBlock(groups))
    BY BytesTyped
  <2>2. p \in Glm5Layout(groups)
    BY <1>10
  <2> QED
    BY <2>1, <2>2 DEF BlockOf
<1> QED
  BY <1>10, <1>11, <1>12

\* The layers of a group are those of its rows.
RowsSum(g, M, I) ==
  GroupBytes(g) = Len(RowsOf(g, {1})) * M + Len(RowsOf(g, Nat \ {0, 1})) * I

\* The bytes of the attention layers are those of the MLA layers and of the indexers.
LEMMA Glm5Bytes ==
  ASSUME NEW g, Grouped(g), NEW M \in Nat, NEW I \in Nat,
         \A l \in ToSet(RowsOf(g, {1})) : PageOf(g, l) = M,
         \A l \in ToSet(RowsOf(g, Nat \ {0, 1})) : PageOf(g, l) = I
  PROVE  RowsSum(g, M, I)
<1>1. PICK s, T, X : s = g.layers /\ T = DOMAIN g.of /\ X = DOMAIN s
  OBVIOUS
<1>2. s \in Seq(T) /\ g.of \in [T -> KvSpec]
  BY <1>1 DEF Grouped, FormedGroup
<1>3. IsFiniteSet(X) /\ \A i \in X : s[i] \in T
  BY <1>1, <1>2, SeqFacts
<1>4. PICK A, B : A = {l \in T : g.of[l].tps \in {1}} /\ B = {l \in T : g.of[l].tps \in Nat \ {0, 1}}
  OBVIOUS
<1>5. A \cup B = T /\ A \cap B = {}
  <2>1. \A l \in T : g.of[l].tps \in Nat \ {0}
    BY <1>2 DEF KvSpec
  <2> QED
    BY <1>4, <2>1
<1>6. PICK J, K : J = {i \in X : s[i] \in A} /\ K = {i \in X : s[i] \in B}
  OBVIOUS
<1>7. J \cup K = X /\ J \cap K = {} /\ J \in SUBSET X /\ K \in SUBSET X
  BY <1>3, <1>5, <1>6
<1>8. PICK m \in Nat : \E at : Picked(Kept(s, A), s, J, m, at)
  BY <1>1, <1>2, <1>6, KeptAt
<1>9. PICK k \in Nat : \E at : Picked(Kept(s, B), s, K, k, at)
  BY <1>1, <1>2, <1>6, KeptAt
<1>10. Len(Kept(s, A)) = m /\ Cardinality(J) = m
  <2>1. PICK at : Picked(Kept(s, A), s, J, m, at)
    BY <1>8
  <2>2. ExistsBijection(1..m, J)
    BY <2>1 DEF Picked, ExistsBijection
  <2> QED
    BY <1>8, <2>1, <2>2, FS_CountingElements DEF Picked
<1>11. Len(Kept(s, B)) = k /\ Cardinality(K) = k
  <2>1. PICK at : Picked(Kept(s, B), s, K, k, at)
    BY <1>9
  <2>2. ExistsBijection(1..k, K)
    BY <2>1 DEF Picked, ExistsBijection
  <2> QED
    BY <1>9, <2>1, <2>2, FS_CountingElements DEF Picked
<1>12. Kept(s, A) = RowsOf(g, {1}) /\ Kept(s, B) = RowsOf(g, Nat \ {0, 1})
  BY <1>1, <1>4 DEF RowsOf
<1>13. ToSet(Kept(s, A)) = ToSet(s) \cap A /\ ToSet(Kept(s, B)) = ToSet(s) \cap B
  BY <1>2, KeptIsSeq
<1>14. PICK f : f = [i \in X |-> PageOf(g, s[i])]
  OBVIOUS
<1>15. AllAre(f, J, M) /\ AllAre(f, K, I)
  <2>1. \A i \in J : s[i] \in ToSet(s) \cap A
    BY <1>1, <1>6 DEF ToSet
  <2>2. \A i \in K : s[i] \in ToSet(s) \cap B
    BY <1>1, <1>6 DEF ToSet
  <2> QED
    BY <1>7, <1>12, <1>13, <1>14, <2>1, <2>2 DEF AllAre
<1>16. f \in [X -> Nat]
  BY <1>7, <1>14, <1>15 DEF AllAre
<1>17. PICK G : Adds(X, f, G)
  BY <1>3, <1>16, SumsAdd
<1>18. G[J] = m * M /\ G[K] = k * I
  BY <1>3, <1>7, <1>10, <1>11, <1>15, <1>16, <1>17, AddsEqual
<1>19. G[X] = G[J] + G[K]
  BY <1>3, <1>7, <1>16, <1>17, AddsApart
<1>20. GroupBytes(g) = G[X]
  <2>1. SumFunction([i \in X |-> f[i]]) = G[X]
    BY <1>17 DEF Adds
  <2>2. [i \in X |-> f[i]] = [i \in DOMAIN g.layers |-> PageOf(g, g.layers[i])]
    BY <1>1, <1>14
  <2> QED
    BY <2>1, <2>2 DEF GroupBytes
<1> QED
  BY <1>10, <1>11, <1>12, <1>18, <1>19, <1>20 DEF RowsSum

\* A stage without gaps, dealt every n-th layer, has no more of one deal than an n-th of all.
LEMMA StrideShare ==
  ASSUME NEW ms \in SUBSET Nat, IsFiniteSet(ms), NEW S, Consecutive(S, ms),
         NEW n \in Nat \ {0}, n <= Cardinality(ms), NEW i \in 1..n,
         NEW layers, layers = Stride(InOrder(ms), i, n),
         NEW most \in Nat, Cardinality(S \cap ms) <= n * most
  PROVE  Len(Kept(layers, S)) \in Nat /\ Len(Kept(layers, S)) <= most
<1>1. PICK s, m : s = InOrder(ms) /\ m = Cardinality(ms)
  OBVIOUS
<1>2. /\ m \in Nat /\ s \in Seq(ms) /\ Len(s) = m /\ DOMAIN s = 1..m
      /\ \A j, k \in 1..m : j < k <=> s[j] < s[k]
      /\ \A j \in 1..m : s[j] \in ms
  <2>1. m \in Nat /\ s \in Seq(ms) /\ Len(s) = m /\ DOMAIN s = 1..m
    BY <1>1, InOrderIsSeq, FS_CardinalityType
  <2>2. \A j, k \in 1..m : j < k <=> s[j] < s[k]
    BY <1>1, InOrderLists
  <2>3. \A j \in DOMAIN s : s[j] \in ms
    BY <2>1, SeqFacts
  <2> QED
    BY <2>1, <2>2, <2>3
<1>3. PICK L \in Nat \ {0} : /\ layers = [k \in 1..L |-> s[i + (k - 1) * n]]
                             /\ \A k \in 1..L : i + (k - 1) * n \in 1..m
  <2>1. n \in Nat \ {0} /\ n <= m
    BY <1>1
  <2>2. Spread(Stride(s, i, n), s, i, n, m)
    BY <1>2, <2>1, StridePlaces
  <2>3. Spread(layers, s, i, n, m)
    BY <1>1, <2>2
  <2> QED
    BY <2>3 DEF Spread
<1>4. layers \in Seq(ms) /\ DOMAIN layers = 1..L
  <2>1. n \in Nat \ {0} /\ n <= Len(s)
    BY <1>1, <1>2
  <2>2. Stride(s, i, n) \in Seq(ms)
    BY <1>2, <2>1, StrideIsSeq
  <2> QED
    BY <1>1, <1>3, <2>2
<1>5. PICK J : J = {k \in 1..L : layers[k] \in S}
  OBVIOUS
<1>6. PICK r \in Nat : Len(Kept(layers, S)) = r /\ Cardinality(J) = r
  <2>1. J = {k \in DOMAIN layers : layers[k] \in S}
    BY <1>4, <1>5
  <2>2. PICK r \in Nat : \E at : Picked(Kept(layers, S), layers, J, r, at)
    BY <1>4, <2>1, KeptAt
  <2>3. PICK at : Picked(Kept(layers, S), layers, J, r, at)
    BY <2>2
  <2>4. ExistsBijection(1..r, J)
    BY <2>3 DEF Picked, ExistsBijection
  <2> QED
    BY <2>3, <2>4, FS_CountingElements DEF Picked
<1>7. CASE J = {}
  BY <1>6, <1>7, FS_EmptySet
<1>8. CASE J # {}
  <2>1. J \in SUBSET Nat /\ J \in SUBSET Int /\ IsFiniteSet(J)
    <3>1. PICK H : H = 1..L
      OBVIOUS
    <3>2. J \in SUBSET H /\ IsFiniteSet(H) /\ H \in SUBSET Nat
      BY <1>5, <3>1, FS_Interval
    <3>3. IsFiniteSet(J)
      BY <3>2, FS_Subset
    <3> QED
      BY <3>2, <3>3
  <2>2. PICK lo, hi : lo = Min(J) /\ hi = Max(J)
    OBVIOUS
  <2>3. lo \in J /\ hi \in J /\ \A k \in J : lo <= k /\ k <= hi
    BY <1>8, <2>1, <2>2, MinOf, MaxOf
  <2>4. PICK d : d = hi - lo /\ d \in Nat
    BY <2>1, <2>3
  <2>5. PICK u, v : u = i + (lo - 1) * n /\ v = i + (hi - 1) * n
    OBVIOUS
  <2>6. u \in 1..m /\ v \in 1..m /\ s[u] \in S \cap ms /\ s[v] \in S \cap ms
    BY <1>2, <1>3, <1>5, <2>3, <2>5
  <2>7. v = u + d * n /\ d * n \in Nat
    <3>1. PICK e : e = lo - 1 /\ e \in Nat /\ hi - 1 = e + d
      <4>1. lo \in Nat \ {0} /\ hi \in Nat
        BY <1>5, <2>1, <2>3
      <4> QED
        BY <2>4, <4>1
    <3>2. (e + d) * n = e * n + d * n
      BY <2>4, <3>1
    <3>3. e * n \in Nat /\ d * n \in Nat
      BY <2>4, <3>1
    <3>4. u = i + e * n /\ v = i + (e + d) * n
      BY <2>5, <3>1
    <3> QED
      BY <3>2, <3>3, <3>4
  <2>8. \A z \in u..v : s[z] \in S \cap ms
    <3> TAKE z \in u..v
    <3>1. z \in 1..m
      BY <1>2, <2>6
    <3>2. (u = z \/ u < z) /\ (z = v \/ z < v)
      BY <1>2, <2>6, <3>1
    <3>3. (s[u] = s[z] \/ s[u] < s[z]) /\ (s[z] = s[v] \/ s[z] < s[v])
      BY <1>2, <2>6, <3>1, <3>2
    <3>4. s[u] \in Nat /\ s[z] \in Nat /\ s[v] \in Nat
      BY <1>2, <2>6, <3>1
    <3>5. s[u] <= s[z] /\ s[z] <= s[v]
      BY <3>3, <3>4
    <3> QED
      BY <1>2, <2>6, <3>1, <3>5 DEF Consecutive
  <2>9. PICK f : f = [z \in u..v |-> s[z]]
    OBVIOUS
  <2>10. f \in Injection(u..v, S \cap ms)
    <3>1. f \in [u..v -> S \cap ms]
      BY <2>8, <2>9
    <3>2. \A y, z \in u..v : y # z => f[y] # f[z]
      <4> SUFFICES ASSUME NEW y \in u..v, NEW z \in u..v, y # z PROVE s[y] # s[z]
        BY <2>9
      <4>1. y \in 1..m /\ z \in 1..m /\ (y < z \/ z < y)
        BY <1>2, <2>6
      <4>2. s[y] < s[z] \/ s[z] < s[y]
        BY <1>2, <4>1
      <4>3. s[y] \in Nat /\ s[z] \in Nat
        BY <1>2, <4>1
      <4> QED
        BY <4>2, <4>3
    <3> QED
      BY <3>1, <3>2 DEF Injection, IsInjective
  <2>11. d * n + 1 <= n * most
    <3>1. PICK I1, C : I1 = u..v /\ C = S \cap ms
      OBVIOUS
    <3>2. IsFiniteSet(C)
      BY <3>1, FS_Subset
    <3>3. f \in Injection(I1, C)
      BY <2>10, <3>1
    <3>4. Cardinality(I1) <= Cardinality(C)
      BY <3>2, <3>3, FS_Injection
    <3>5. Cardinality(I1) = d * n + 1
      BY <2>6, <2>7, <3>1, FS_Interval
    <3>6. Cardinality(C) \in Nat
      BY <3>2, FS_CardinalityType
    <3> QED
      BY <2>7, <3>1, <3>4, <3>5, <3>6
  <2>12. d < most
    <3> SUFFICES ASSUME most <= d PROVE FALSE
      BY <2>4
    <3>1. PICK e \in Nat : d = most + e
      <4>1. d - most \in Nat /\ d = most + (d - most)
        BY <2>4
      <4> QED
        BY <4>1
    <3>2. d * n = n * most + e * n
      BY <3>1
    <3>3. e * n \in Nat /\ n * most \in Nat
      BY <3>1
    <3> QED
      BY <2>11, <3>2, <3>3
  <2>13. J \in SUBSET (lo..hi)
    BY <2>1, <2>3
  <2>14. Cardinality(J) <= d + 1
    <3>1. IsFiniteSet(lo..hi) /\ Cardinality(lo..hi) = d + 1
      BY <2>1, <2>3, <2>4, FS_Interval
    <3>2. PICK H : H = lo..hi
      OBVIOUS
    <3>3. Cardinality(J) <= Cardinality(H)
      BY <2>13, <3>1, <3>2, FS_Subset
    <3> QED
      BY <3>1, <3>2, <3>3
  <2> QED
    BY <1>6, <2>4, <2>12, <2>14
<1> QED
  BY <1>7, <1>8

\* A worker with layers of a group has the specs of those.
LEMMA ShareSpecs ==
  ASSUME NEW groups, WellGrouped(groups), NEW n \in Nat, DOMAIN groups = 1..n,
         NEW one, NEW G, G = Project(groups, one), NEW i \in 1..n
  PROVE  /\ G[i].layers = Kept(groups[i].layers, one)
         /\ G[i].layers # <<>> => /\ DOMAIN G[i].of = ToSet(G[i].layers)
                                  /\ \A l \in ToSet(G[i].layers) : G[i].of[l] = groups[i].of[l]
<1>1. ToSet(G[i].layers) \in SUBSET DOMAIN G[i].of
  BY OneGroupForAll DEF Share
<1>2. PICK g, layers, S : g = groups[i] /\ layers = Kept(g.layers, one) /\ S = ToSet(layers)
  OBVIOUS
<1>3. G[i].layers = layers /\ (layers # <<>> => G[i].of = Restrict(g.of, S))
  BY <1>2 DEF Project
<1>4. ASSUME layers # <<>> PROVE DOMAIN G[i].of = S /\ \A l \in S : G[i].of[l] = g.of[l]
  <2>1. G[i].of = [l \in S |-> g.of[l]]
    BY <1>3, <1>4 DEF Restrict
  <2> QED
    BY <2>1
<1> QED
  BY <1>2, <1>3, <1>4

\* There are enough groups for the recurrent layers of every stage.
LEMMA MambaCountCovers ==
  ASSUME NEW D \in SUBSET Nat, IsFiniteSet(D), NEW spec \in [D -> KvSpec],
         NEW stages, IsFiniteSet(stages), NEW S \in stages,
         NEW n \in MambaGroupCount(spec, stages), n \in Nat
  PROVE  Cardinality(S \cap OfKind(spec, "mamba")) <= n * Cardinality(S \cap Mlas(spec))
<1>1. PICK M, A : M = OfKind(spec, "mamba") /\ A = Mlas(spec)
  OBVIOUS
<1>2. M \in SUBSET D /\ A \in SUBSET D /\ DOMAIN spec = D
  BY <1>1 DEF OfKind, Mlas
<1>3. PICK x, y : x = S \cap M /\ y = S \cap A
  OBVIOUS
<1>4. x \in SUBSET D /\ y \in SUBSET D /\ IsFiniteSet(x) /\ IsFiniteSet(y)
      /\ Cardinality(x) \in Nat /\ Cardinality(y) \in Nat
  BY <1>2, <1>3, FS_Subset, FS_CardinalityType
<1>5. CASE x = {}
  <2>1. PICK a, b : a = Cardinality(x) /\ b = Cardinality(y)
    OBVIOUS
  <2>2. a = 0
    BY <1>5, <2>1, FS_EmptySet
  <2>3. n * b \in Nat
    BY <1>4, <2>1
  <2>4. a <= n * b
    BY <2>2, <2>3
  <2> QED
    BY <1>1, <1>3, <2>1, <2>4
<1>6. CASE x # {}
  <2>1. PICK some : some = {T \in stages \cup {D} : T \cap M # {}}
    OBVIOUS
  <2>2. IsFiniteSet(some) /\ S \in some
    <3>1. PICK all : all = stages \cup {D}
      OBVIOUS
    <3>2. IsFiniteSet(all) /\ some \in SUBSET all
      BY <2>1, <3>1, FS_AddElement
    <3> QED
      BY <1>3, <1>6, <2>1, <3>2, FS_Subset
  <2>3. PICK f : f = [T \in some |-> CeilDiv(Cardinality(T \cap M), Cardinality(T \cap A))]
    OBVIOUS
  <2>4. (\A T \in some : T \cap A # {}) /\ n = Max(Range(f))
    <3>1. Range(f) = {CeilDiv(Cardinality(T \cap M), Cardinality(T \cap A)) : T \in some}
      BY <2>3 DEF Range
    <3> QED
      BY <1>1, <1>2, <2>1, <3>1 DEF MambaGroupCount
  <2>5. \A T \in some : f[T] \in Nat
    <3> TAKE T \in some
    <3>1. PICK u, v : u = T \cap M /\ v = T \cap A
      OBVIOUS
    <3>2. u \in SUBSET D /\ v \in SUBSET D /\ v # {} /\ IsFiniteSet(u) /\ IsFiniteSet(v)
      BY <1>2, <2>4, <3>1, FS_Subset
    <3>3. Cardinality(u) \in Nat /\ Cardinality(v) \in Nat \ {0}
      BY <3>2, FS_CardinalityType, FS_EmptySet
    <3>4. CeilDiv(Cardinality(u), Cardinality(v)) \in Nat
      BY <3>3, CeilDivBounds
    <3> QED
      BY <2>3, <3>1, <3>4
  <2>6. PICK X : X = Range(f)
    OBVIOUS
  <2>7. f[S] \in X /\ X \in SUBSET Int /\ X # {} /\ IsFiniteSet(X)
    <3>1. DOMAIN f = some
      BY <2>3
    <3> QED
      BY <2>2, <2>5, <2>6, <3>1, FiniteRange DEF Range
  <2>8. f[S] <= n /\ f[S] \in Nat
    BY <2>2, <2>4, <2>5, <2>6, <2>7, MaxOf
  <2>9. PICK a, b, q : a = Cardinality(x) /\ b = Cardinality(y) /\ q = CeilDiv(a, b)
    OBVIOUS
  <2>10. a \in Nat /\ b \in Nat \ {0} /\ f[S] = q
    <3>1. y # {}
      BY <1>3, <2>2, <2>4
    <3> QED
      BY <1>3, <1>4, <2>2, <2>3, <2>9, <3>1, FS_EmptySet
  <2>11. a <= q * b
    BY <2>9, <2>10, CeilDivBounds
  <2>12. q * b <= n * b
    <3>1. PICK d \in Nat : n = q + d
      <4>1. n - q \in Nat /\ n = q + (n - q)
        BY <2>8, <2>10
      <4> QED
        BY <4>1
    <3>2. n * b = q * b + d * b /\ d * b \in Nat /\ q * b \in Nat
      BY <2>8, <2>10, <3>1
    <3> QED
      BY <3>2
  <2>13. q * b \in Nat /\ n * b \in Nat
    BY <2>8, <2>10
  <2> QED
    BY <1>1, <1>3, <2>9, <2>10, <2>11, <2>12, <2>13
<1> QED
  BY <1>5, <1>6

\* The groups of a worker whose stage S is part of a GLM-5 model.
Glm5Stage(groups, D, spec, stages, S) ==
  /\ WellGrouped(groups) /\ Parts(groups, D) /\ groups \in Seq(Glm5Parts(D, spec, stages))
  /\ D \in SUBSET Nat /\ IsFiniteSet(D) /\ spec \in [D -> KvSpec]
  /\ IsFiniteSet(stages) /\ S \in stages /\ Consecutive(S, D) /\ IsGlm5(spec)

\* A layout is only found for the groups of such a model.
LEMMA Glm5IsMixed ==
  ASSUME NEW D, NEW spec \in [D -> KvSpec], NEW stages, NEW c, NEW groups,
         WellGrouped(groups), groups # <<>>, Shaped(groups, c, D, spec, stages),
         OfKind(spec, "mamba") # {} /\ Indexers(spec) # {} => IsGlm5(spec),
         NEW S, NEW own, own = Project(groups, S), NEW p, Glm5Formed(own, p)
  PROVE  IsGlm5(spec) /\ groups \in Seq(Glm5Parts(D, spec, stages))
<1>1. PICK n \in Nat \ {0} : /\ DOMAIN groups = 1..n /\ groups = [i \in 1..n |-> groups[i]]
                             /\ \A i \in 1..n : Grouped(groups[i])
  BY WellFacts
<1>2. Len(groups) = n
  <2>1. PICK f, T : f = [i \in 1..n |-> groups[i]] /\ T = {groups[i] : i \in 1..n}
    OBVIOUS
  <2>2. f \in [1..n -> T]
    BY <2>1
  <2>3. Len(f) = n
    BY <2>2
  <2> QED
    BY <1>1, <2>1, <2>3
<1>3. \A i \in 1..n : DOMAIN own = 1..n /\ Share(groups, S, own, i)
  BY <1>1, OneGroupForAll
<1>4. PICK a : a = p.attn /\ a \in 1..n /\ {s.kind : s \in Range(own[a].of)} = {"mla"}
  <2>1. PICK a : a = p.attn
    OBVIOUS
  <2>2. 1 \in 1..n
    BY <1>1
  <2>3. DOMAIN own = 1..n
    BY <1>3, <2>2
  <2>4. a \in DOMAIN own /\ a \in KindGroups(own, "mla")
    BY <2>1 DEF Glm5Formed
  <2> QED
    BY <2>1, <2>3, <2>4 DEF KindGroups
<1>5. PICK j : j \in 1..n /\ {s.kind : s \in Range(own[j].of)} = {"mamba"}
  <2>1. DOMAIN own = 1..n
    BY <1>3, <1>4
  <2>2. PICK j : j \in p.mambas
    BY DEF Glm5Formed, Glm5Holds
  <2>3. j \in KindGroups(own, "mamba")
    BY <2>2 DEF Glm5Formed
  <2> QED
    BY <2>1, <2>3 DEF KindGroups
<1>6. n > 1
  <2>1. a # j
    BY <1>4, <1>5
  <2> QED
    BY <1>4, <1>5, <2>1
<1>7. CASE Len(groups) > 1 /\ c.hybrid /\ ~IsGlm5(spec)
           /\ \A i \in DOMAIN groups : \A s \in Range(groups[i].of) :
                 \E t \in Range(spec) : s.kind = t.kind /\ s.tps = t.tps
  <2>1. OfKind(spec, "mamba") # {}
    <3>1. PICK s : s \in Range(own[j].of) /\ s.kind = "mamba"
      BY <1>5
    <3>2. s \in Range(groups[j].of)
      BY <1>3, <1>5, <3>1 DEF Share
    <3>3. PICK t \in Range(spec) : t.kind = "mamba"
      BY <1>1, <1>5, <1>7, <3>1, <3>2
    <3> QED
      BY <3>3 DEF Range, OfKind
  <2>2. Indexers(spec) # {}
    <3>1. PICK g, l : g = own[a] /\ l \in ToSet(p.idx)
      <4>1. PICK P : P = {PageOf(own[p.attn], l) : l \in ToSet(p.idx)}
        OBVIOUS
      <4>2. Cardinality(P) = 1
        BY <4>1 DEF Glm5Formed, Glm5Holds
      <4>3. P # {}
        BY <4>2, FS_EmptySet
      <4> QED
        BY <4>1, <4>3
    <3>2. Grouped(g)
      <4>1. WellGrouped(own) /\ own # <<>>
        BY ProjectWell
      <4>2. PICK m \in Nat \ {0} : DOMAIN own = 1..m /\ \A k \in 1..m : Grouped(own[k])
        BY <4>1, WellFacts
      <4> QED
        BY <1>3, <1>4, <3>1, <4>2
    <3>3. l \in DOMAIN g.of /\ g.of[l].tps \in Nat \ {0, 1}
      <4>1. PICK B, T : B = {k \in DOMAIN g.of : g.of[k].tps \in Nat \ {0, 1}} /\ T = DOMAIN g.of
        OBVIOUS
      <4>2. p.idx = Kept(g.layers, B)
        BY <1>4, <3>1, <4>1 DEF Glm5Formed, RowsOf
      <4>3. g.layers \in Seq(T)
        BY <3>2, <4>1 DEF Grouped
      <4>4. ToSet(p.idx) = ToSet(g.layers) \cap B
        BY <4>2, <4>3, KeptIsSeq
      <4> QED
        BY <3>1, <4>1, <4>4
    <3>4. PICK s : s = g.of[l] /\ s \in Range(own[a].of)
      BY <3>1, <3>3 DEF Range
    <3>5. s \in Range(groups[a].of) /\ s.kind = "mla"
      BY <1>3, <1>4, <3>4 DEF Share
    <3>6. PICK t \in Range(spec) : t.kind = "mla" /\ t.tps \in Nat \ {0, 1}
      BY <1>1, <1>4, <1>7, <3>3, <3>4, <3>5
    <3>7. t.tps > 1
      BY <3>6
    <3> QED
      BY <3>6, <3>7 DEF Range, Indexers, OfKind
  <2> QED
    BY <1>7, <2>1, <2>2
<1>8. ~(Len(groups) <= 1)
  BY <1>1, <1>2, <1>6
<1> QED
  BY <1>7, <1>8 DEF Shaped

\* Which part of the model a worker's group is of.
LEMMA Glm5KindOf ==
  ASSUME NEW groups, NEW D, NEW spec, NEW stages, NEW S, Glm5Stage(groups, D, spec, stages, S),
         NEW n \in Nat, DOMAIN groups = 1..n, NEW own, own = Project(groups, S),
         NEW kind, NEW i \in KindGroups(own, kind)
  PROVE  /\ i \in 1..n /\ \E s \in Range(own[i].of) : s.kind = kind
         /\ kind = "mla" =>
              /\ ToSet(groups[i].layers) = OfKind(spec, "mla")
              /\ DOMAIN groups[i].of = OfKind(spec, "mla")
              /\ \A l \in DOMAIN groups[i].of : groups[i].of[l] = spec[l]
         /\ kind = "tail" =>
              /\ Cardinality(PagesIn(spec, Indexers(spec))) = 1
              /\ \A s \in Range(groups[i].of) : s.pad = Max(PagesIn(spec, Indexers(spec)))
         /\ kind = "mamba" =>
              \E m \in MambaGroupCount(spec, stages) : \E k \in 1..m :
                 groups[i].layers = Stride(InOrder(OfKind(spec, "mamba")), k, m)
<1>1. DOMAIN own = 1..n
  BY DEF Project
<1>2. i \in 1..n /\ {s.kind : s \in Range(own[i].of)} = {kind}
  BY <1>1 DEF KindGroups
<1>3. PICK s : s \in Range(own[i].of) /\ s.kind = kind
  BY <1>2
<1>4. s \in Range(groups[i].of)
  <2>1. Share(groups, S, own, i)
    BY <1>2, OneGroupForAll DEF Glm5Stage
  <2> QED
    BY <1>3, <2>1 DEF Share
<1>5. PICK g : g = groups[i] /\ Glm5Part(g, spec, stages)
  <2>1. PICK T : T = Glm5Parts(D, spec, stages)
    OBVIOUS
  <2>2. groups \in Seq(T)
    BY <2>1 DEF Glm5Stage
  <2>3. groups[i] \in T
    BY <1>2, <2>2, SeqFacts
  <2> QED
    BY <2>1, <2>3 DEF Glm5Parts
<1>6. PICK l \in DOMAIN g.of : g.of[l].kind = kind
  BY <1>3, <1>4, <1>5 DEF Range
<1>7. CASE /\ ToSet(g.layers) = OfKind(spec, "mla")
           /\ DOMAIN g.of = OfKind(spec, "mla") /\ \A m \in DOMAIN g.of : g.of[m] = spec[m]
  <2>1. kind = "mla"
    BY <1>6, <1>7 DEF OfKind
  <2> QED
    BY <1>2, <1>3, <1>5, <1>7, <2>1
<1>8. CASE /\ Cardinality(PagesIn(spec, Indexers(spec))) = 1
           /\ \A m \in DOMAIN g.of :
                 g.of[m].kind = "tail" /\ g.of[m].pad = Max(PagesIn(spec, Indexers(spec)))
  <2>1. kind = "tail"
    BY <1>6, <1>8
  <2>2. \A t \in Range(g.of) : t.pad = Max(PagesIn(spec, Indexers(spec)))
    BY <1>8 DEF Range
  <2> QED
    BY <1>2, <1>3, <1>5, <1>8, <2>1, <2>2
<1>9. CASE /\ \A m \in DOMAIN g.of : g.of[m].kind = "mamba"
           /\ \E m \in MambaGroupCount(spec, stages) : \E k \in 1..m :
                 g.layers = Stride(InOrder(OfKind(spec, "mamba")), k, m)
  <2>1. kind = "mamba"
    BY <1>6, <1>9
  <2> QED
    BY <1>2, <1>3, <1>5, <1>9, <2>1
<1> QED
  BY <1>5, <1>7, <1>8, <1>9 DEF Glm5Part

\* The layers and pages of a worker's attention group.
Glm5Pages(own, p, spec, S, M, I) ==
  /\ EachOnce(p.mla, S \cap Mlas(spec)) /\ EachOnce(p.idx, S \cap Indexers(spec))
  /\ ToSet(own[p.attn].layers) = ToSet(p.mla) \cup ToSet(p.idx)
  /\ \A l \in ToSet(p.mla) : PageOf(own[p.attn], l) = M
  /\ \A l \in ToSet(p.idx) : PageOf(own[p.attn], l) = I
  /\ {PageOf(own[p.attn], l) : l \in ToSet(p.mla)} = {M}
  /\ \E l \in Indexers(spec) : Page(spec[l]) = I

\* Its layers are the MLA layers and indexers of the stage.
LEMMA Glm5Attends ==
  ASSUME NEW groups, NEW D, NEW spec, NEW stages, NEW S, Glm5Stage(groups, D, spec, stages, S),
         NEW n \in Nat, DOMAIN groups = 1..n, NEW own, own = Project(groups, S),
         NEW p, Glm5Formed(own, p)
  PROVE  \E M, I \in Nat \ {0} : Glm5Pages(own, p, spec, S, M, I)
<1>1. PICK a, g, s : a = p.attn /\ g = own[a] /\ s = g.layers
  OBVIOUS
<1>2. /\ a \in 1..n /\ ToSet(groups[a].layers) = OfKind(spec, "mla")
      /\ DOMAIN groups[a].of = OfKind(spec, "mla")
      /\ \A l \in OfKind(spec, "mla") : groups[a].of[l] = spec[l]
  <2>1. a \in KindGroups(own, "mla")
    BY <1>1 DEF Glm5Formed
  <2> QED
    BY <2>1, Glm5KindOf
<1>3. EachOnce(s, OfKind(spec, "mla") \cap S)
  <2>1. EachOnce(groups[a].layers, OfKind(spec, "mla"))
    BY <1>2 DEF Glm5Stage, Parts
  <2>2. s = Kept(groups[a].layers, S)
    BY <1>1, <1>2, ShareSpecs DEF Glm5Stage
  <2> QED
    BY <2>1, <2>2, KeptOnce
<1>4. PICK O : O = OfKind(spec, "mla") \cap S
  OBVIOUS
<1>5. s \in Seq(O) /\ ToSet(s) = O
  BY <1>3, <1>4 DEF EachOnce
<1>6. PICK A, B : /\ A = {l \in DOMAIN g.of : g.of[l].tps \in {1}}
                  /\ B = {l \in DOMAIN g.of : g.of[l].tps \in Nat \ {0, 1}}
  OBVIOUS
<1>7. p.mla = Kept(s, A) /\ p.idx = Kept(s, B)
  BY <1>1, <1>6 DEF Glm5Formed, RowsOf
<1>8. EachOnce(p.mla, O \cap A) /\ EachOnce(p.idx, O \cap B)
  BY <1>3, <1>4, <1>7, KeptOnce
<1>9. PICK P, Q : /\ P = {PageOf(g, l) : l \in ToSet(p.mla)}
                  /\ Q = {PageOf(g, l) : l \in ToSet(p.idx)}
  OBVIOUS
<1>10. Cardinality(P) = 1 /\ Cardinality(Q) = 1
  BY <1>1, <1>9 DEF Glm5Formed, Glm5Holds
<1>11. ToSet(p.mla) = O \cap A /\ ToSet(p.idx) = O \cap B
  BY <1>8 DEF EachOnce
<1>12. s # <<>>
  <2>1. Q # {}
    BY <1>10, FS_EmptySet
  <2>2. O # {}
    BY <1>9, <1>11, <2>1
  <2> QED
    BY <1>5, <2>2 DEF ToSet
<1>13. DOMAIN g.of = O /\ \A l \in O : g.of[l] = spec[l]
  <2>1. DOMAIN g.of = ToSet(s) /\ \A l \in ToSet(s) : g.of[l] = groups[a].of[l]
    BY <1>1, <1>2, <1>12, ShareSpecs DEF Glm5Stage
  <2> QED
    BY <1>2, <1>4, <1>5, <2>1
<1>14. \A l \in O : l \in D /\ spec[l] \in KvSpec /\ spec[l].tps \in Nat \ {0} /\ spec[l].kind = "mla"
  BY <1>4 DEF Glm5Stage, OfKind, KvSpec
<1>15. O \cap A = S \cap Mlas(spec) /\ O \cap B = S \cap Indexers(spec) /\ O = (O \cap A) \cup (O \cap B)
  <2>1. \A l \in O : (l \in A <=> spec[l].tps = 1) /\ (l \in B <=> spec[l].tps > 1)
    BY <1>6, <1>13, <1>14
  <2>2. \A l \in O : spec[l].tps = 1 \/ spec[l].tps > 1
    BY <1>14
  <2> QED
    BY <1>4, <2>1, <2>2 DEF Mlas, Indexers
<1>16. \A l \in O : PageOf(g, l) = Page(spec[l]) /\ Page(spec[l]) \in Nat \ {0}
  BY <1>13, <1>14, PageTyped DEF PageOf
<1>17. IsFiniteSet(P) /\ IsFiniteSet(Q)
  <2>1. IsFiniteSet(O)
    BY <1>3, <1>4, ListLength
  <2>2. PICK f : f = [l \in O |-> PageOf(g, l)]
    OBVIOUS
  <2>3. DOMAIN f = O
    BY <2>2
  <2>4. IsFiniteSet(Range(f))
    BY <2>1, <2>3, FiniteRange
  <2>5. P \in SUBSET Range(f) /\ Q \in SUBSET Range(f)
    BY <1>9, <1>11, <2>2 DEF Range
  <2> QED
    BY <2>4, <2>5, FS_Subset
<1>18. PICK M : P = {M}
  BY <1>10, <1>17, FS_Singleton
<1>19. PICK I : Q = {I}
  BY <1>10, <1>17, FS_Singleton
<1>20. PICK k : k \in O \cap A /\ PageOf(g, k) = M
  BY <1>9, <1>11, <1>18
<1>21. PICK l : l \in O \cap B /\ PageOf(g, l) = I
  BY <1>9, <1>11, <1>19
<1>22. M \in Nat \ {0} /\ I \in Nat \ {0} /\ Page(spec[l]) = I /\ l \in Indexers(spec)
  BY <1>15, <1>16, <1>20, <1>21
<1>23. (\A m \in ToSet(p.mla) : PageOf(g, m) = M) /\ (\A m \in ToSet(p.idx) : PageOf(g, m) = I)
  BY <1>9, <1>18, <1>19
<1>24. Glm5Pages(own, p, spec, S, M, I)
  BY <1>1, <1>5, <1>8, <1>9, <1>11, <1>15, <1>18, <1>22, <1>23 DEF Glm5Pages
<1> QED
  BY <1>22, <1>24

\* A group of recurrent layers has no more of a stage than the stage has MLA layers.
LEMMA Glm5Mambas ==
  ASSUME NEW groups, NEW D, NEW spec, NEW stages, NEW S, Glm5Stage(groups, D, spec, stages, S),
         NEW n \in Nat, DOMAIN groups = 1..n, NEW own, own = Project(groups, S),
         NEW i \in KindGroups(own, "mamba")
  PROVE  /\ Len(own[i].layers) \in Nat
         /\ Len(own[i].layers) <= Cardinality(S \cap Mlas(spec))
<1>1. PICK ms, A : ms = OfKind(spec, "mamba") /\ A = S \cap Mlas(spec)
  OBVIOUS
<1>2. /\ D \in SUBSET Nat /\ IsFiniteSet(D) /\ spec \in [D -> KvSpec]
      /\ IsFiniteSet(stages) /\ S \in stages /\ Consecutive(S, D)
  BY DEF Glm5Stage
<1>3. ms \in SUBSET D /\ ms \in SUBSET Nat /\ A \in SUBSET D
  BY <1>1, <1>2 DEF OfKind, Mlas
<1>4. IsFiniteSet(ms) /\ IsFiniteSet(A) /\ Cardinality(A) \in Nat /\ Cardinality(ms) \in Nat
  BY <1>2, <1>3, FS_Subset, FS_CardinalityType
<1>5. PICK m \in MambaGroupCount(spec, stages) : \E k \in 1..m :
        groups[i].layers = Stride(InOrder(ms), k, m)
  BY <1>1, Glm5KindOf
<1>6. PICK k \in 1..m : groups[i].layers = Stride(InOrder(ms), k, m)
  BY <1>5
<1>7. i \in 1..n /\ own[i].layers = Kept(groups[i].layers, S)
  <2>1. i \in 1..n
    BY Glm5KindOf
  <2> QED
    BY <2>1, ShareSpecs DEF Glm5Stage
<1>8. ms # {}
  BY <1>1 DEF Glm5Stage, IsGlm5
<1>9. m \in 1..Cardinality(ms)
  BY <1>1, <1>2, <1>8, MambaCountTyped
<1>10. m \in Nat \ {0} /\ m <= Cardinality(ms)
  BY <1>4, <1>9
<1>11. Consecutive(S, ms)
  BY <1>2, <1>3 DEF Consecutive
<1>12. Cardinality(S \cap ms) <= m * Cardinality(A)
  BY <1>1, <1>2, <1>10, MambaCountCovers
<1>13. PICK most \in Nat : most = Cardinality(A)
  BY <1>4
<1>14. PICK layers : layers = groups[i].layers
  OBVIOUS
<1>15. Len(Kept(layers, S)) \in Nat /\ Len(Kept(layers, S)) <= most
  BY <1>3, <1>4, <1>6, <1>10, <1>11, <1>12, <1>13, <1>14, StrideShare
<1> QED
  BY <1>1, <1>7, <1>13, <1>14, <1>15

\* So a worker of a GLM-5 model has rows of MLA pages and rows of indexer pages.
LEMMA Glm5HasRows ==
  ASSUME NEW groups, NEW D, NEW spec, NEW stages, NEW S, Glm5Stage(groups, D, spec, stages, S),
         groups # <<>>, NEW own, own = Project(groups, S), NEW p, Glm5Formed(own, p)
  PROVE  \E M, I \in Nat : Glm5Rows(own, p, M, I)
<1>1. PICK n \in Nat \ {0} : DOMAIN groups = 1..n
  BY WellFacts DEF Glm5Stage
<1>2. DOMAIN own = 1..n /\ \A i \in 1..n : Grouped(own[i]) /\ Share(groups, S, own, i)
  <2>1. DOMAIN own = 1..n
    BY <1>1 DEF Project
  <2>2. WellGrouped(own) /\ own # <<>>
    BY ProjectWell DEF Glm5Stage
  <2>3. PICK m \in Nat \ {0} : DOMAIN own = 1..m /\ \A k \in 1..m : Grouped(own[k])
    BY <2>2, WellFacts
  <2>4. \A i \in 1..n : Share(groups, S, own, i)
    BY <1>1, OneGroupForAll DEF Glm5Stage
  <2> QED
    BY <2>1, <2>3, <2>4
<1>3. PICK M \in Nat \ {0}, I \in Nat \ {0} : Glm5Pages(own, p, spec, S, M, I)
  BY <1>1, Glm5Attends
<1>4. PICK a, g, L, H : /\ a = p.attn /\ g = own[a] /\ L = Len(p.mla) /\ H = Len(p.idx)
  OBVIOUS
<1>5. /\ EachOnce(p.mla, ToSet(p.mla)) /\ EachOnce(p.idx, ToSet(p.idx))
      /\ L = Cardinality(S \cap Mlas(spec)) /\ L \in Nat /\ H \in Nat
      /\ DOMAIN p.mla = 1..L /\ DOMAIN p.idx = 1..H
  <2>1. PICK X, Y : X = S \cap Mlas(spec) /\ Y = S \cap Indexers(spec)
    OBVIOUS
  <2>2. EachOnce(p.mla, X) /\ EachOnce(p.idx, Y)
    BY <1>3, <2>1 DEF Glm5Pages
  <2>3. L = Cardinality(X) /\ L \in Nat /\ H \in Nat
    BY <1>4, <2>2, ListLength
  <2>4. DOMAIN p.mla = 1..L /\ DOMAIN p.idx = 1..H
    BY <1>4, <2>2, SeqFacts DEF EachOnce
  <2>5. X = ToSet(p.mla) /\ Y = ToSet(p.idx)
    BY <2>2 DEF EachOnce
  <2> QED
    BY <2>1, <2>2, <2>3, <2>4, <2>5
<1>6. /\ p.mambas = KindGroups(own, "mamba") /\ p.tails = KindGroups(own, "tail")
      /\ KindGroups(own, "mla") = {a} /\ a \in DOMAIN own /\ a \in 1..n
  BY <1>2, <1>4 DEF Glm5Formed
<1>7. DOMAIN own = {a} \cup p.mambas \cup p.tails
  BY <1>4 DEF Glm5Formed, Glm5Holds
<1>8. a \notin p.mambas /\ a \notin p.tails
  <2>1. a \in KindGroups(own, "mla")
    BY <1>6
  <2> QED
    BY <1>6, <2>1 DEF KindGroups
<1>9. Short(own, a, p.mla, L, M) /\ Short(own, a, p.idx, H, I)
  <2>1. \A k \in 1..L : p.mla[k] \in ToSet(p.mla)
    BY <1>5 DEF ToSet
  <2>2. \A k \in 1..H : p.idx[k] \in ToSet(p.idx)
    BY <1>5 DEF ToSet
  <2>3. /\ \A l \in ToSet(p.mla) : PageOf(own[a], l) = M
        /\ \A l \in ToSet(p.idx) : PageOf(own[a], l) = I
    BY <1>3, <1>4 DEF Glm5Pages
  <2>4. OneUnit(own, a, p.mla, L, M) /\ OneUnit(own, a, p.idx, H, I)
    BY <2>1, <2>2, <2>3 DEF OneUnit
  <2>5. L = Len(p.mla) /\ H = Len(p.idx) /\ L <= L /\ H <= H
    BY <1>4, <1>5
  <2>6. Short(own, a, p.mla, L, M)
    BY <1>5, <2>4, <2>5 DEF Short
  <2>7. Short(own, a, p.idx, H, I)
    BY <1>5, <2>4, <2>5 DEF Short
  <2> QED
    BY <2>6, <2>7
<1>10. GroupBytes(g) = L * M + H * I
  <2>1. p.mla = RowsOf(g, {1}) /\ p.idx = RowsOf(g, Nat \ {0, 1})
    BY <1>4 DEF Glm5Formed
  <2>2. Grouped(g)
    BY <1>2, <1>4, <1>6
  <2>3. \A l \in ToSet(RowsOf(g, {1})) : PageOf(g, l) = M
    BY <1>3, <1>4, <2>1 DEF Glm5Pages
  <2>4. \A l \in ToSet(RowsOf(g, Nat \ {0, 1})) : PageOf(g, l) = I
    BY <1>3, <1>4, <2>1 DEF Glm5Pages
  <2>5. RowsSum(g, M, I)
    BY <2>2, <2>3, <2>4, Glm5Bytes
  <2> QED
    BY <1>4, <2>1, <2>5 DEF RowsSum
<1>11. ASSUME NEW i \in 1..n
       PROVE  /\ Len(own[i].layers) \in Nat /\ DOMAIN own[i].layers = 1..Len(own[i].layers)
              /\ \A k \in 1..Len(own[i].layers) :
                   /\ PageOf(own[i], own[i].layers[k]) = Page(own[i].of[own[i].layers[k]])
                   /\ own[i].of[own[i].layers[k]] \in Range(own[i].of)
  <2>1. PICK s, T : s = own[i].layers /\ T = DOMAIN own[i].of
    OBVIOUS
  <2>2. s \in Seq(T)
    BY <1>2, <2>1 DEF Grouped
  <2>3. DOMAIN s = 1..Len(s) /\ Len(s) \in Nat /\ \A k \in 1..Len(s) : s[k] \in T
    BY <2>2, SeqFacts
  <2> QED
    BY <2>1, <2>3 DEF PageOf, Range
<1>12. ASSUME NEW i \in p.mambas PROVE Short(own, i, own[i].layers, L, M)
  <2>1. i \in KindGroups(own, "mamba") /\ i \in 1..n
    BY <1>6, <1>2 DEF KindGroups
  <2>2. Len(own[i].layers) <= L
    BY <1>1, <1>5, <2>1, Glm5Mambas
  <2>3. {Page(s) : s \in Range(own[i].of)} = {PageOf(own[p.attn], l) : l \in ToSet(p.mla)}
    BY <1>12 DEF Glm5Formed, Glm5Holds
  <2>4. \A s \in Range(own[i].of) : Page(s) = M
    BY <1>3, <2>3 DEF Glm5Pages
  <2> QED
    BY <1>11, <2>1, <2>2, <2>4 DEF Short, OneUnit
<1>13. ASSUME NEW i \in p.tails
       PROVE  Len(own[i].layers) = H /\ Short(own, i, own[i].layers, H, I)
  <2>1. i \in KindGroups(own, "tail") /\ i \in 1..n
    BY <1>6, <1>2 DEF KindGroups
  <2>2. Len(own[i].layers) = H
    BY <1>4, <1>13 DEF Glm5Formed, Glm5Holds
  <2>3. PICK P : P = PagesIn(spec, Indexers(spec))
    OBVIOUS
  <2>4. Cardinality(P) = 1 /\ \A s \in Range(groups[i].of) : s.pad = Max(P)
    BY <1>1, <2>1, <2>3, Glm5KindOf
  <2>5. P = {I}
    <3>1. I \in P
      BY <1>3, <2>3 DEF Glm5Pages, PagesIn, SpecsOf
    <3>2. IsFiniteSet(P)
      <4>1. PICK X : X = Indexers(spec)
        OBVIOUS
      <4>2. X \in SUBSET D /\ IsFiniteSet(D)
        BY <4>1 DEF Glm5Stage, Indexers, OfKind
      <4>3. IsFiniteSet(X)
        BY <4>2, FS_Subset
      <4>4. IsFiniteSet(SpecsOf(spec, X))
        BY <4>3, SpecsFinite
      <4>5. PICK f : f = [s \in SpecsOf(spec, X) |-> Page(s)]
        OBVIOUS
      <4>6. DOMAIN f = SpecsOf(spec, X) /\ Range(f) = P
        BY <2>3, <4>1, <4>5 DEF PagesIn, Range
      <4> QED
        BY <4>4, <4>6, FiniteRange
    <3>3. PICK y : P = {y}
      BY <2>4, <3>2, FS_Singleton
    <3> QED
      BY <3>1, <3>3
  <2>6. Max(P) = I
    <3>1. P \in SUBSET Int /\ P # {} /\ IsFiniteSet(P)
      <4>1. P \in SUBSET Int /\ P # {}
        BY <1>3, <2>5
      <4>2. IsFiniteSet(P)
        BY <2>5, FS_Singleton
      <4> QED
        BY <4>1, <4>2
    <3>2. Max(P) \in P
      BY <3>1, MaxOf
    <3> QED
      BY <2>5, <3>2
  <2>7. \A s \in Range(own[i].of) : Page(s) = I
    <3> TAKE s \in Range(own[i].of)
    <3>1. s \in Range(groups[i].of)
      BY <1>2, <2>1 DEF Share
    <3> QED
      BY <2>4, <2>6, <3>1 DEF Page
  <2> QED
    BY <1>5, <1>11, <2>1, <2>2, <2>7 DEF Short, OneUnit
<1>14. Glm5Rows(own, p, M, I)
  <2>1. /\ ToSet(own[p.attn].layers) = ToSet(p.mla) \cup ToSet(p.idx)
        /\ \A l \in ToSet(p.mla) : PageOf(own[p.attn], l) = M
    BY <1>3 DEF Glm5Pages
  <2> QED
    BY <1>4, <1>5, <1>6, <1>7, <1>8, <1>9, <1>10, <1>12, <1>13, <2>1 DEF Glm5Rows
<1> QED
  BY <1>14

\* A worker's layers are those of its groups.
Owns(own, S) == \A l : (\E i \in DOMAIN own : l \in ToSet(own[i].layers)) <=> l \in S

\* A worker has its share of all layers.
LEMMA WorkerOwns ==
  ASSUME NEW groups, WellGrouped(groups), NEW D, Parts(groups, D), NEW S \in SUBSET D,
         NEW own, own = Project(groups, S)
  PROVE  Owns(own, S)
<1>1. PICK n \in Nat : groups = [i \in 1..n |-> groups[i]]
  BY DEF WellGrouped
<1>2. DOMAIN groups = 1..n
  <2>1. PICK f : f = [i \in 1..n |-> groups[i]]
    OBVIOUS
  <2> QED
    BY <1>1, <2>1
<1>3. DOMAIN own = 1..n
  BY <1>2 DEF Project
<1>4. \A i \in 1..n : ToSet(own[i].layers) = ToSet(groups[i].layers) \cap S
  <2> TAKE i \in 1..n
  <2>1. Share(groups, S, own, i)
    BY <1>2, OneGroupForAll
  <2> QED
    BY <2>1 DEF Share
<1>5. UNION {ToSet(groups[i].layers) : i \in 1..n} = D
  BY <1>2 DEF Parts
<1>6. \A l \in S : \E i \in 1..n : l \in ToSet(groups[i].layers)
  BY <1>5
<1> QED
  BY <1>3, <1>4, <1>6 DEF Owns

\* Whatever the layers, a worker's tensors give each its pages, apart and within the pool.
LEMMA WorkerLaid ==
  ASSUME NEW D \in SUBSET Nat, IsFiniteSet(D), NEW spec \in [D -> KvSpec],
         NEW stages, IsFiniteSet(stages), StagedGlm5(spec, stages), NEW S \in stages,
         NEW groups, WellGrouped(groups), Parts(groups, D), groups # <<>>,
         NEW c, Shaped(groups, c, D, spec, stages),
         NEW own, own = Project(groups, S), Expressible(c.layout, own), NEW num1 \in Nat \ {0}
  PROVE  Laid(c.layout, own, num1)
<1>1. WellGrouped(own) /\ own # <<>>
  BY ProjectWell
<1>2. PICK layout : layout = c.layout
  OBVIOUS
<1>3. CASE Glm5Layout(own) = {}
  <2>1. Laid(layout, own, num1)
    BY <1>1, <1>2, <1>3, GeneralLaid
  <2> QED
    BY <1>2, <2>1
<1>4. CASE Glm5Layout(own) # {}
  <2>1. PICK p : /\ Glm5Layout(own) = {p} /\ Glm5Formed(own, p)
                 /\ BytesPerBlock(own) = GroupBytes(own[p.attn])
    BY <1>1, <1>4, Glm5IsFormed
  <2>2. OfKind(spec, "mamba") # {} /\ Indexers(spec) # {} => IsGlm5(spec)
    BY DEF StagedGlm5
  <2>3. IsGlm5(spec) /\ groups \in Seq(Glm5Parts(D, spec, stages))
    BY <2>1, <2>2, Glm5IsMixed
  <2>4. Consecutive(S, D)
    <3>1. DOMAIN spec = D
      OBVIOUS
    <3> QED
      BY <2>3, <3>1 DEF StagedGlm5, IsGlm5
  <2>5. Glm5Stage(groups, D, spec, stages, S)
    BY <2>3, <2>4 DEF Glm5Stage
  <2>6. PICK M, I \in Nat : Glm5Rows(own, p, M, I)
    BY <2>1, <2>5, Glm5HasRows
  <2>7. Laid(layout, own, num1)
    BY <2>1, <2>6, Glm5Laid
  <2> QED
    BY <1>2, <2>7
<1> QED
  BY <1>3, <1>4

\* The pages of a worker and the bytes they lie in, none if it has no groups.
PoolSize(own, num1) == IF own = <<>> THEN 0 ELSE BytesPerBlock(own) * num1
PoolPages(layout, own, num1) ==
  IF own = <<>> THEN {} ELSE Pages(Tensors(layout, own, num1), num1)

\* They are those of its layers, apart, within the pool and that within its memory.
PoolSound(c, own, num1, worker) ==
  /\ {x[2] : x \in PoolPages(c.layout, own, num1)} = DOMAIN worker.spec
  /\ Apart(PoolPages(c.layout, own, num1), PoolSize(own, num1))
  /\ c.override = 0 /\ own # <<>> => PoolSize(own, num1) <= Available(worker)

\* Whatever the model, the cluster and its memory, every layer of a worker has a page in
\* every block, no two blocks share a byte though all groups begin at the first, nor do two
\* layers of a group, and the pool is within the worker's memory.
THEOREM PagesAlwaysDisjoint == CacheSpec => []PagesDisjoint
<1>1. Planned => PagesDisjoint
  <2> SUFFICES ASSUME Planned, Made PROVE PagesDisjoint
    BY DEF PagesDisjoint
  <2>1. PICK c, workers, spec, D, stages :
          /\ c = cfg /\ workers = plan.input.workers /\ spec = MergedSpecs(c, workers)
          /\ D = DOMAIN spec /\ stages = Stages(workers)
    OBVIOUS
  <2>2. /\ CfgTyped(c) /\ IsFiniteSet(DOMAIN workers) /\ 1 \in DOMAIN workers
        /\ \A w \in DOMAIN workers : WorkerTyped(workers[w])
        /\ StagedGlm5(spec, stages) /\ IsFiniteSet(stages)
        /\ D \in SUBSET Nat /\ IsFiniteSet(D) /\ spec \in [D -> KvSpec]
    <3>1. plan # <<>>
      BY DEF Made
    <3> QED
      BY <2>1, <3>1, PlannedInputs
  <2>3. PICK groups \in get_kv_cache_groups(c, stages, spec) :
          /\ WellGrouped(groups) /\ Parts(groups, D) /\ Shaped(groups, c, D, spec, stages)
          /\ \E p \in PlanOf(c, workers, groups) :
               plan.groups = p.groups /\ plan.len = p.len /\ plan.num = p.num
    BY <2>1, MadePlan
  <2>4. PICK p \in PlanOf(c, workers, groups) :
          plan.groups = p.groups /\ plan.len = p.len /\ plan.num = p.num
    BY <2>3
  <2>5. plan.groups = [w \in DOMAIN workers |-> Project(groups, DOMAIN workers[w].spec)]
    BY <2>4, PlanShares
  <2>6. ASSUME NEW w \in DOMAIN workers PROVE PoolSound(c, plan.groups[w], plan.num, workers[w])
    <3>1. PICK own, S, size, pages :
             /\ own = plan.groups[w] /\ S = DOMAIN workers[w].spec
             /\ size = PoolSize(own, plan.num) /\ pages = PoolPages(c.layout, own, plan.num)
      OBVIOUS
    <3>2. own = Project(groups, S)
      BY <2>5, <3>1
    <3>3. S \in SUBSET D /\ S \in stages
      BY <2>1, <3>1 DEF MergedSpecs, Stages
    <3>4. Owns(own, S)
      BY <2>3, <3>2, <3>3, WorkerOwns
    <3>5. CASE groups = <<>>
      <4>1. own = <<>>
        BY <3>2, <3>5 DEF Project
      <4>2. S = {}
        BY <3>4, <4>1 DEF Owns
      <4>3. pages = {}
        BY <3>1, <4>1 DEF PoolPages
      <4>4. Apart(pages, size)
        BY <4>3 DEF Apart
      <4> QED
        BY <3>1, <4>1, <4>2, <4>3, <4>4 DEF PoolSound
    <3>6. CASE groups # <<>>
      <4>1. own # <<>>
        BY <2>3, <3>2, <3>6, ProjectWell
      <4>2. p.num \in Nat /\ Roomy(p, workers, c)
        BY <2>2, <2>3, <2>4, <3>6, PlansHold
      <4>3. PICK num1 : num1 = plan.num /\ num1 \in Nat \ {0}
        BY <2>4, <4>2 DEF Made
      <4>4. Expressible(c.layout, own)
        BY <2>4, <3>1, <4>2 DEF Roomy
      <4>5. c.override = 0 => BytesPerBlock(own) * num1 <= Available(workers[w])
        BY <2>4, <3>1, <4>2, <4>3 DEF Roomy
      <4>6. Laid(c.layout, own, num1)
        BY <2>2, <2>3, <3>2, <3>3, <3>6, <4>3, <4>4, WorkerLaid
      <4>7. size = BytesPerBlock(own) * num1 /\ pages = Pages(Tensors(c.layout, own, num1), num1)
        BY <3>1, <4>1, <4>3 DEF PoolSize, PoolPages
      <4>8. Apart(pages, size) /\ Covers(pages, own)
        BY <4>6, <4>7 DEF Laid
      <4>9. {x[2] : x \in pages} = S
        BY <3>4, <4>8 DEF Covers, Owns
      <4> QED
        BY <3>1, <4>5, <4>7, <4>8, <4>9 DEF PoolSound
    <3> QED
      BY <3>5, <3>6
  <2>7. Workers = DOMAIN workers
    BY <2>1 DEF Workers
  <2>8. ASSUME NEW w \in Workers
        PROVE  LET own == plan.groups[w]
                   size == IF own = <<>> THEN 0 ELSE BytesPerBlock(own) * plan.num
                   pages == IF own = <<>> THEN {}
                            ELSE Pages(Tensors(cfg.layout, own, plan.num), plan.num)
               IN  /\ {x[2] : x \in pages} = DOMAIN plan.input.workers[w].spec
                   /\ \A x \in pages : 0 <= x[4] /\ x[5] <= size
                   /\ \A x, y \in pages :
                         \/ x[3] = y[3] /\ (x[1] # y[1] \/ x[2] = y[2])
                         \/ x[5] <= y[4] \/ y[5] <= x[4]
                   /\ cfg.override = 0 /\ own # <<>> => size <= Available(plan.input.workers[w])
    <3>1. PoolSound(cfg, plan.groups[w], plan.num, plan.input.workers[w])
      BY <2>1, <2>6, <2>7
    <3> QED
      BY <3>1, Zenon DEF PoolSound, PoolSize, PoolPages, Apart
  <2> QED
    BY <2>8, Zenon DEF PagesDisjoint
<1> QED
  BY <1>1, StaysPlanned, PTL

\* The queue of a running engine is the queue of free blocks: no start-up step touches it.
LEMMA ServesTheQueue == CacheSpec => Spec
<1>1. CacheInit => Init
  BY DEF CacheInit
<1>2. [CacheNext]_cacheVars => [Next]_vars
  BY DEF CacheNext, cacheVars, Start, Serve, vars
<1> QED
  BY <1>1, <1>2, PTL DEF CacheSpec, Spec

\* So what is proved of the queue holds in an engine as well.
THEOREM QueueHoldsInEngine == CacheSpec => [](LinksMirror /\ CountExact) /\ KeepsEvictionOrder
BY ServesTheQueue, LinksAlwaysMirror, CountAlwaysExact, EvictionOrderIsKept, PTL
=============================================================================
