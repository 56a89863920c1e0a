------------------------------ MODULE FoldLemmas ------------------------------
(***************************************************************************)
(* Folds over finite sets, as the community modules compute them: one      *)
(* element is picked, and the rest folded first.  Induction is on the      *)
(* number of elements, and is by the least counterexample: a set of        *)
(* naturals that is not empty has a least element.                         *)
(***************************************************************************)
EXTENDS Integers, FiniteSets, FiniteSetsExt, FiniteSetTheorems, NaturalsInduction, WellFoundedInduction, TLAPS

\* What a fold is: g takes the element picked and the fold of the rest.
IsFold(f, S, pick, g, base) ==
  f = [s \in SUBSET S |-> IF s = {} THEN base ELSE g[pick[s]][f[s \ {pick[s]}]]]

Picks(pick, S) ==
  /\ pick \in [(SUBSET S) \ {{}} -> S]
  /\ \A s \in (SUBSET S) \ {{}} : pick[s] \in s

\* Every set of naturals that is not empty has a least element.
LEMMA LeastElement ==
  ASSUME NEW T \in SUBSET Nat, T # {}
  PROVE  \E n \in T : \A m \in T : n <= m
<1>1. PICK n \in T : \A m \in T : ~(<<m, n>> \in OpToRel(<, Nat))
  BY NatLessThanWellFounded, WFMin
<1>2. OpToRel(<, Nat) = {ss \in Nat \X Nat : ss[1] < ss[2]}
  BY DEF OpToRel
<1>3. \A m \in T : ~(m < n)
  <2> TAKE m \in T
  <2>1. <<m, n>> \in Nat \X Nat
    OBVIOUS
  <2> QED BY <1>1, <1>2, <2>1
<1> QED BY <1>3

\* A set of naturals that has 0, and n + 1 with n, has them all.
LEMMA Ascending ==
  ASSUME NEW Good, 0 \in Good, \A n \in Nat : n \in Good => n + 1 \in Good
  PROVE  Nat \subseteq Good
<1> SUFFICES ASSUME Nat \ Good # {} PROVE FALSE
  OBVIOUS
<1>1. PICK n \in Nat \ Good : \A m \in Nat \ Good : n <= m
  BY LeastElement
<1>2. n # 0 /\ n - 1 \in Nat
  OBVIOUS
<1>3. n - 1 \in Good
  BY <1>1, <1>2
<1> QED BY <1>2, <1>3

LEMMA NothingIsNone == Cardinality({}) = 0
  BY FS_EmptySet

LEMMA Elements ==
  ASSUME NEW S, IsFiniteSet(S)
  PROVE  \A s \in SUBSET S : /\ IsFiniteSet(s)
                             /\ Cardinality(s) \in Nat
                             /\ Cardinality(s) = 0 => s = {}
                             /\ \A x \in s : Cardinality(s \ {x}) = Cardinality(s) - 1
  BY FS_Subset, FS_CardinalityType, FS_EmptySet, FS_RemoveElement

LEMMA PickedIsOne ==
  ASSUME NEW S, IsFiniteSet(S), NEW pick, Picks(pick, S)
  PROVE  \A s \in SUBSET S :
           s # {} => /\ pick[s] \in s
                     /\ s \ {pick[s]} \in SUBSET S
                     /\ Cardinality(s \ {pick[s]}) = Cardinality(s) - 1
  BY Elements, FS_RemoveElement DEF Picks

\* The recursion has a solution: it is built one cardinality at a time.
LEMMA FoldIsDefined ==
  ASSUME NEW S, IsFiniteSet(S), NEW D, NEW base \in D, NEW pick, Picks(pick, S),
         NEW g \in [S -> [D -> D]]
  PROVE  \E f \in [SUBSET S -> D] : IsFold(f, S, pick, g, base)
<1> DEFINE Level(n) == {s \in SUBSET S : Cardinality(s) <= n}
           Step(s, f) == IF s = {} THEN base ELSE g[pick[s]][f[s \ {pick[s]}]]
           Solves(f, n) == \A s \in Level(n) : f[s] = Step(s, f)
           Good == {n \in Nat : \E f \in [Level(n) -> D] : Solves(f, n)}
<1>0. \A s \in SUBSET S : Cardinality(s) \in Nat
  BY Elements
<1>1. \A s \in SUBSET S : Cardinality(s) = 0 => s = {}
  BY Elements
<1>2. \A n \in Nat : \A s \in Level(n + 1) :
        s # {} => pick[s] \in S /\ s \ {pick[s]} \in Level(n)
  BY <1>0, PickedIsOne
<1>3. \A n \in Nat : Level(n) \subseteq Level(n + 1)
  BY <1>0
<1>4. \A s \in Level(0) : s = {}
  BY <1>0, <1>1
<1>5. 0 \in Good
  <2> DEFINE f == [s \in Level(0) |-> base]
  <2>1. f \in [Level(0) -> D]
    OBVIOUS
  <2>2. Solves(f, 0)
    BY <1>4
  <2> QED BY <2>1, <2>2
<1>6. ASSUME NEW n \in Nat, n \in Good PROVE n + 1 \in Good
  <2>1. PICK f \in [Level(n) -> D] : Solves(f, n)
    BY <1>6
  <2> DEFINE h == [s \in Level(n + 1) |-> Step(s, f)]
  <2>2. \A s \in Level(n + 1) : s # {} => f[s \ {pick[s]}] \in D
    <3> HIDE DEF Level
    <3> QED BY <1>2
  <2>3. \A s \in Level(n + 1) : Step(s, f) \in D
    BY <1>2, <2>2
  <2>4. h \in [Level(n + 1) -> D]
    <3> HIDE DEF Level, Step
    <3> QED BY <2>3
  <2>5. \A s \in Level(n) : h[s] = f[s]
    <3> HIDE DEF Level, Step
    <3> QED BY <1>3, <2>1
  <2> HIDE DEF Level
  <2>6. \A s \in Level(n + 1) : Step(s, h) = Step(s, f)
    <3> HIDE DEF h
    <3> QED BY <1>2, <2>5
  <2>7. Solves(h, n + 1)
    <3> HIDE DEF Step
    <3> QED BY <2>6
  <2> HIDE DEF h, Solves
  <2> QED BY <2>4, <2>7
<1> HIDE DEF Good
<1>7. Nat \subseteq Good
  BY <1>5, <1>6, Ascending
<1>8. Level(Cardinality(S)) = SUBSET S /\ Cardinality(S) \in Nat
  BY <1>0, FS_Subset, FS_CardinalityType
<1>9. \E f \in [Level(Cardinality(S)) -> D] : Solves(f, Cardinality(S))
  BY <1>7, <1>8 DEF Good
<1> HIDE DEF Level
<1>10. PICK f \in [SUBSET S -> D] : \A s \in SUBSET S : f[s] = Step(s, f)
  BY <1>8, <1>9
<1>11. f = [s \in SUBSET S |-> Step(s, f)]
  <2> HIDE DEF Step
  <2> QED BY <1>10
<1> QED BY <1>11 DEF IsFold

\* What holds of the empty set, and of a set whenever it holds of the set
\* without the element picked, holds of every set.
LEMMA FoldStays ==
  ASSUME NEW S, IsFiniteSet(S), NEW D, NEW base \in D, NEW pick, Picks(pick, S),
         NEW g \in [S -> [D -> D]], NEW f, IsFold(f, S, pick, g, base)
  PROVE  f \in [SUBSET S -> D]
<1> DEFINE Good == {n \in Nat : \A s \in SUBSET S : Cardinality(s) = n => f[s] \in D}
<1>1. \A s \in SUBSET S :
        f[s] = IF s = {} THEN base ELSE g[pick[s]][f[s \ {pick[s]}]]
  BY DEF IsFold
<1>2. 0 \in Good
  BY <1>1, Elements
<1>3. ASSUME NEW n \in Nat, n \in Good PROVE n + 1 \in Good
  <2> SUFFICES ASSUME NEW s \in SUBSET S, Cardinality(s) = n + 1 PROVE f[s] \in D
    OBVIOUS
  <2>1. s # {}
    BY NothingIsNone
  <2>2. pick[s] \in S /\ s \ {pick[s]} \in SUBSET S /\ Cardinality(s \ {pick[s]}) = n
    BY <2>1, PickedIsOne
  <2>3. f[s \ {pick[s]}] \in D
    BY <1>3, <2>2
  <2>4. f[s] = g[pick[s]][f[s \ {pick[s]}]] /\ g[pick[s]] \in [D -> D]
    BY <1>1, <2>1, <2>2
  <2> QED BY <2>3, <2>4
<1> HIDE DEF Good
<1>4. Nat \subseteq Good
  BY <1>2, <1>3, Ascending
<1>5. \A s \in SUBSET S : f[s] \in D
  BY <1>4, Elements DEF Good
<1>6. f = [s \in SUBSET S |-> f[s]]
  BY <1>1 DEF IsFold
<1> QED BY <1>5, <1>6
-----------------------------------------------------------------------------
\* Sums of naturals.

Pick(s) == CHOOSE x \in s : TRUE

Adds(f, S, w) ==
  f = [s \in SUBSET S |-> IF s = {} THEN 0 ELSE w[Pick(s)] + f[s \ {Pick(s)}]]

\* A sum as a fold: the folding operators of the two definitions, as functions.
Picking(S) == [s \in (SUBSET S) \ {{}} |-> Pick(s)]
Adding(S, w) == [x \in S |-> [n \in Nat |-> w[x] + n]]

LEMMA AddingFolds ==
  ASSUME NEW S, NEW w \in [S -> Nat]
  PROVE  /\ Picks(Picking(S), S)
         /\ Adding(S, w) \in [S -> [Nat -> Nat]]
         /\ \A f \in [SUBSET S -> Nat] : Adds(f, S, w) <=> IsFold(f, S, Picking(S), Adding(S, w), 0)
<1>1. Picks(Picking(S), S)
  BY DEF Picks, Picking, Pick
<1>2. Adding(S, w) \in [S -> [Nat -> Nat]]
  BY DEF Adding
<1>3. ASSUME NEW f \in [SUBSET S -> Nat], NEW s \in SUBSET S, s # {}
      PROVE  Adding(S, w)[Picking(S)[s]][f[s \ {Picking(S)[s]}]] = w[Pick(s)] + f[s \ {Pick(s)}]
  <2>1. Picking(S)[s] = Pick(s) /\ Pick(s) \in S
    BY <1>3 DEF Picking, Pick
  <2> QED BY <2>1 DEF Adding
<1> QED BY <1>1, <1>2, <1>3 DEF Adds, IsFold

LEMMA AddingIsDefined ==
  ASSUME NEW S, IsFiniteSet(S), NEW w \in [S -> Nat]
  PROVE  \E f \in [SUBSET S -> Nat] : Adds(f, S, w)
  BY AddingFolds, FoldIsDefined, 0 \in Nat

\* Whatever solves the recursion: no other solution is looked at, so that a
\* CHOOSE of one may be reasoned about.
LEMMA AddingSteps ==
  ASSUME NEW S, IsFiniteSet(S), NEW w \in [S -> Nat], NEW f, Adds(f, S, w)
  PROVE  /\ f[{}] = 0
         /\ \A s \in SUBSET S : s # {} =>
              /\ Pick(s) \in s
              /\ Cardinality(s \ {Pick(s)}) = Cardinality(s) - 1
              /\ f[s] = w[Pick(s)] + f[s \ {Pick(s)}]
<1>1. \A s \in SUBSET S : f[s] = IF s = {} THEN 0 ELSE w[Pick(s)] + f[s \ {Pick(s)}]
  BY DEF Adds
<1>2. \A s \in SUBSET S : s # {} => Pick(s) \in s
  BY DEF Pick
<1>3. \A s \in SUBSET S : s # {} => Cardinality(s \ {Pick(s)}) = Cardinality(s) - 1
  BY <1>2, Elements, FS_RemoveElement
<1> QED BY <1>1, <1>2, <1>3

\* A sum of naturals is one.
LEMMA AddingIsNatural ==
  ASSUME NEW S, IsFiniteSet(S), NEW w \in [S -> Nat], NEW f, Adds(f, S, w)
  PROVE  \A s \in SUBSET S : f[s] \in Nat
<1> DEFINE Good == {n \in Nat : \A s \in SUBSET S : Cardinality(s) = n => f[s] \in Nat}
<1>1. 0 \in Good
  <2>1. f[{}] = 0
    BY AddingSteps
  <2>2. \A s \in SUBSET S : Cardinality(s) = 0 => s = {}
    BY Elements
  <2> QED BY <2>1, <2>2
<1>2. ASSUME NEW n \in Nat, n \in Good PROVE n + 1 \in Good
  <2> SUFFICES ASSUME NEW s \in SUBSET S, Cardinality(s) = n + 1 PROVE f[s] \in Nat
    OBVIOUS
  <2>1. s # {}
    BY NothingIsNone
  <2>2. /\ Pick(s) \in S /\ f[s] = w[Pick(s)] + f[s \ {Pick(s)}]
        /\ s \ {Pick(s)} \in SUBSET S /\ Cardinality(s \ {Pick(s)}) = n
    BY <2>1, AddingSteps
  <2>3. f[s \ {Pick(s)}] \in Nat /\ w[Pick(s)] \in Nat
    BY <1>2, <2>2
  <2> QED BY <2>2, <2>3
<1> HIDE DEF Good
<1>3. Nat \subseteq Good
  BY <1>1, <1>2, Ascending
<1> QED BY <1>3, Elements DEF Good

\* In whatever order the elements are picked.
LEMMA AddingTakesAny ==
  ASSUME NEW S, IsFiniteSet(S), NEW w \in [S -> Nat], NEW f, Adds(f, S, w)
  PROVE  \A s \in SUBSET S : \A x \in s : f[s] = w[x] + f[s \ {x}]
<1> DEFINE Any(s) == \A x \in s : f[s] = w[x] + f[s \ {x}]
           Good == {n \in Nat : \A s \in SUBSET S : Cardinality(s) = n => Any(s)}
<1>1. 0 \in Good
  BY Elements
<1>2. ASSUME NEW n \in Nat, n \in Good PROVE n + 1 \in Good
  <2> SUFFICES ASSUME NEW s \in SUBSET S, Cardinality(s) = n + 1, NEW x \in s
               PROVE  f[s] = w[x] + f[s \ {x}]
    OBVIOUS
  <2> DEFINE y == Pick(s)
             rest == s \ {x, y}
  <2>1. /\ y \in s /\ f[s] = w[y] + f[s \ {y}]
        /\ s \ {y} \in SUBSET S /\ Cardinality(s \ {y}) = n
    BY AddingSteps
  <2>2. CASE x = y
    BY <2>1, <2>2
  <2>3. CASE x # y
    <3>1. Cardinality(s \ {x}) = n /\ s \ {x} \in SUBSET S
      BY Elements
    <3>2. f[s \ {x}] = w[y] + f[(s \ {x}) \ {y}]
      BY <1>2, <2>1, <2>3, <3>1
    <3>3. f[s \ {y}] = w[x] + f[(s \ {y}) \ {x}]
      BY <1>2, <2>1, <2>3
    <3>4. (s \ {x}) \ {y} = rest /\ (s \ {y}) \ {x} = rest
      OBVIOUS
    <3>5. f[rest] \in Nat /\ w[x] \in Nat /\ w[y] \in Nat
      BY AddingIsNatural, <2>1
    <3> HIDE DEF y, rest
    <3> QED BY <2>1, <3>2, <3>3, <3>4, <3>5
  <2> QED BY <2>2, <2>3
<1> HIDE DEF Good
<1>3. Nat \subseteq Good
  BY <1>1, <1>2, Ascending
<1> QED BY <1>3, Elements DEF Good

\* Sums of the same numbers are the same, whatever sets they are part of.
LEMMA AddingIsUnique ==
  ASSUME NEW S, IsFiniteSet(S), NEW w \in [S -> Nat], NEW f, Adds(f, S, w),
         NEW T, IsFiniteSet(T), NEW v \in [T -> Nat], NEW h, Adds(h, T, v),
         NEW R, R \subseteq S, R \subseteq T, \A x \in R : v[x] = w[x]
  PROVE  h[R] = f[R]
<1> DEFINE Good == {n \in Nat : \A s \in SUBSET R : Cardinality(s) = n => h[s] = f[s]}
<1>1. IsFiniteSet(R)
  BY FS_Subset
<1>2. 0 \in Good
  <2>1. f[{}] = 0 /\ h[{}] = 0
    BY AddingSteps
  <2>2. \A s \in SUBSET R : Cardinality(s) = 0 => s = {}
    BY <1>1, Elements
  <2> QED BY <2>1, <2>2
<1>3. ASSUME NEW n \in Nat, n \in Good PROVE n + 1 \in Good
  <2> SUFFICES ASSUME NEW s \in SUBSET R, Cardinality(s) = n + 1 PROVE h[s] = f[s]
    OBVIOUS
  <2>1. s # {}
    BY NothingIsNone
  <2>2. /\ Pick(s) \in R /\ f[s] = w[Pick(s)] + f[s \ {Pick(s)}]
        /\ s \ {Pick(s)} \in SUBSET R /\ Cardinality(s \ {Pick(s)}) = n
    BY <2>1, AddingSteps
  <2>3. h[s] = v[Pick(s)] + h[s \ {Pick(s)}]
    <3>1. s \in SUBSET T
      OBVIOUS
    <3>2. \A r \in SUBSET T : h[r] = IF r = {} THEN 0 ELSE v[Pick(r)] + h[r \ {Pick(r)}]
      BY DEF Adds
    <3> QED BY <2>1, <3>1, <3>2
  <2> QED BY <1>3, <2>2, <2>3
<1> HIDE DEF Good
<1>4. Nat \subseteq Good
  BY <1>2, <1>3, Ascending
<1> QED BY <1>1, <1>4, Elements DEF Good

-----------------------------------------------------------------------------
\* Folds over sequences: the last place is picked, so that the fold of a prefix
\* is the fold of the one before it, and its last element.

Lasts(n) == [s \in (SUBSET (1..n)) \ {{}} |-> Max(s)]

LEMMA MaxIsGreatest ==
  ASSUME NEW n \in Nat, NEW s \in SUBSET (1..n), s # {}
  PROVE  Max(s) \in s /\ \A k \in s : k <= Max(s)
<1> DEFINE T == {k \in Nat : n - k \in s}
<1>1. \A x \in s : x \in 1..n /\ n - x \in T
  <2> TAKE x \in s
  <2>1. x \in 1..n
    OBVIOUS
  <2>2. n - x \in Nat /\ n - (n - x) = x
    BY <2>1
  <2> QED BY <2>1, <2>2
<1>2. PICK k \in T : \A m \in T : k <= m
  BY <1>1, LeastElement
<1>3. n - k \in s /\ \A x \in s : n - k >= x
  BY <1>1, <1>2
<1>4. \E x \in s : \A y \in s : x >= y
  BY <1>3
<1>5. Max(s) \in s /\ \A y \in s : Max(s) >= y
  <2> HIDE DEF T
  <2> QED BY <1>4 DEF Max
<1>6. \A y \in s : y \in Nat
  OBVIOUS
<1> QED BY <1>5, <1>6

LEMMA LastsPick == ASSUME NEW n \in Nat PROVE IsFiniteSet(1..n) /\ Picks(Lasts(n), 1..n)
<1>1. IsFiniteSet(1..n)
  BY FS_Interval
<1>2. Picks(Lasts(n), 1..n)
  BY MaxIsGreatest DEF Picks, Lasts
<1> QED BY <1>1, <1>2

LEMMA LastOfPrefix ==
  ASSUME NEW n \in Nat, NEW k \in 1..n
  PROVE  Lasts(n)[1..k] = k /\ (1..k) \ {k} = 1..(k - 1) /\ 1..k \in SUBSET (1..n) /\ 1..k # {}
<1>1. 1..k \in SUBSET (1..n) /\ 1..k # {} /\ k \in 1..k
  OBVIOUS
<1>2. Max(1..k) \in 1..k /\ k <= Max(1..k)
  BY <1>1, MaxIsGreatest
<1>3. Lasts(n)[1..k] = Max(1..k)
  BY <1>1 DEF Lasts
<1>4. (1..k) \ {k} = 1..(k - 1)
  OBVIOUS
<1> QED BY <1>1, <1>2, <1>3, <1>4

LEMMA FoldOfPrefix ==
  ASSUME NEW n \in Nat, NEW D, NEW base \in D, NEW g \in [1..n -> [D -> D]],
         NEW f, IsFold(f, 1..n, Lasts(n), g, base)
  PROVE  /\ f \in [SUBSET (1..n) -> D]
         /\ f[1..0] = base
         /\ \A k \in 1..n : f[1..k] = g[k][f[1..(k - 1)]]
<1>1. f \in [SUBSET (1..n) -> D]
  <2>1. IsFiniteSet(1..n) /\ Picks(Lasts(n), 1..n)
    BY LastsPick
  <2> QED BY <2>1, FoldStays
<1>2. \A s \in SUBSET (1..n) :
        f[s] = IF s = {} THEN base ELSE g[Lasts(n)[s]][f[s \ {Lasts(n)[s]}]]
  BY DEF IsFold
<1>3. 1..0 = {} /\ {} \in SUBSET (1..n)
  OBVIOUS
<1>4. \A k \in 1..n : f[1..k] = g[k][f[1..(k - 1)]]
  <2> TAKE k \in 1..n
  <2>1. Lasts(n)[1..k] = k /\ (1..k) \ {k} = 1..(k - 1) /\ 1..k \in SUBSET (1..n) /\ 1..k # {}
    BY LastOfPrefix
  <2>2. f[1..k] = g[Lasts(n)[1..k]][f[(1..k) \ {Lasts(n)[1..k]}]]
    BY <1>2, <2>1
  <2> QED BY <2>1, <2>2
<1> QED BY <1>1, <1>2, <1>3, <1>4
=============================================================================
