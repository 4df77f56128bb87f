----------------------------- MODULE FiniteSums -----------------------------
(***************************************************************************)
(* Sums over finite sets, as the community module Functions defines them   *)
(* (a fold that picks the elements one by one): what the proofs about      *)
(* balances and lengths need of them.  The induction theorems of the       *)
(* library take a predicate, which the provers cannot instantiate; these   *)
(* proofs look at a smallest counterexample instead.                       *)
(***************************************************************************)
EXTENDS Integers, Sequences, FiniteSets, Functions, FiniteSetTheorems, WellFoundedInduction, TLAPS

\* A set of naturals has a least element.
LEMMA LeastNatural ==
  ASSUME NEW T, T \subseteq Nat, T # {}
  PROVE  \E n \in T : \A m \in T : n <= m
<1>1. PICK R : IsWellFoundedOn(R, Nat) /\ \A m, n \in Nat : m < n => <<m, n>> \in R
  <2> DEFINE R == OpToRel(<, Nat)
  <2>1. IsWellFoundedOn(R, Nat)
    BY NatLessThanWellFounded
  <2>2. \A m, n \in Nat : m < n => <<m, n>> \in R
    BY DEF OpToRel
  <2> QED
    BY <2>1, <2>2
<1>2. IsWellFoundedOn(R, Nat)
  BY <1>1
<1>3. \E n \in T : \A m \in T : ~ (<<m, n>> \in R)
  BY <1>2, WFMin, Zenon
<1>4. PICK n \in T : \A m \in T : ~ (<<m, n>> \in R)
  BY <1>3
<1>5. \A m \in T : ~ (m < n)
  BY <1>1, <1>4
<1> QED
  BY <1>5

\* Induction on a set of naturals, and on a set of finite sets by their size.
LEMMA NaturalsReached ==
  ASSUME NEW T, 0 \in T, \A n \in Nat : n \in T => n + 1 \in T
  PROVE  Nat \subseteq T
<1> SUFFICES ASSUME Nat \ T # {} PROVE FALSE
  OBVIOUS
<1>1. Nat \ T \subseteq Nat /\ Nat \ T # {}
  OBVIOUS
<1>2. PICK n \in Nat \ T : \A m \in Nat \ T : n <= m
  BY <1>1, LeastNatural
<1>3. n # 0
  OBVIOUS
<1>4. n - 1 \in Nat /\ n - 1 \notin Nat \ T
  BY <1>2, <1>3
<1>5. (n - 1) + 1 \in T
  BY <1>4
<1> QED
  BY <1>5

LEMMA SubsetsReached ==
  ASSUME NEW S, IsFiniteSet(S), NEW T, {} \in T,
         \A s \in SUBSET S : s # {} /\ (\A x \in s : s \ {x} \in T) => s \in T
  PROVE  SUBSET S \subseteq T
<1> DEFINE Reached == {n \in Nat : \A s \in SUBSET S : Cardinality(s) = n => s \in T}
<1>1. \A s \in SUBSET S : IsFiniteSet(s) /\ Cardinality(s) \in Nat
  BY FS_Subset, FS_CardinalityType
<1>2. 0 \in Reached
  BY <1>1, FS_EmptySet
<1>3. ASSUME NEW n \in Nat, n \in Reached
      PROVE  n + 1 \in Reached
  <2> SUFFICES ASSUME NEW s \in SUBSET S, Cardinality(s) = n + 1 PROVE s \in T
    OBVIOUS
  <2>1. s # {}
    <3>1. Cardinality({}) = 0
      BY FS_EmptySet
    <3> QED
      BY <3>1
  <2>2. ASSUME NEW x \in s PROVE s \ {x} \in T
    <3>1. Cardinality(s \ {x}) = n
      BY <1>1, FS_RemoveElement
    <3> QED
      BY <1>3, <3>1
  <2> QED
    BY <2>1, <2>2
<1> HIDE DEF Reached
<1>4. Nat \subseteq Reached
  BY <1>2, <1>3, NaturalsReached
<1> QED
  BY <1>1, <1>4 DEF Reached

-----------------------------------------------------------------------------
(* The recursive function of the fold.                                       *)

Pick(s) == CHOOSE x \in s : TRUE

Summing(f, S, sum) ==
  sum = [s \in SUBSET S |-> IF s = {} THEN 0 ELSE f[Pick(s)] + sum[s \ {Pick(s)}]]

LEMMA PickIn == ASSUME NEW s, s # {} PROVE Pick(s) \in s
BY DEF Pick

\* Two such functions agree where the summed ones do.
LEMMA SummingAgree ==
  ASSUME NEW f, NEW g, NEW S, NEW U, NEW a, NEW b, Summing(f, S, a), Summing(g, U, b),
         IsFiniteSet(S), S \subseteq U, \A x \in S : f[x] = g[x]
  PROVE  \A s \in SUBSET S : a[s] = b[s]
<1> DEFINE T == {s \in SUBSET S : a[s] = b[s]}
<1>1. {} \in T
  BY DEF Summing
<1>2. ASSUME NEW s \in SUBSET S, s # {}, \A x \in s : s \ {x} \in T
      PROVE  s \in T
  <2>1. Pick(s) \in s
    BY <1>2, PickIn
  <2>2. a[s] = f[Pick(s)] + a[s \ {Pick(s)}] /\ b[s] = g[Pick(s)] + b[s \ {Pick(s)}]
    BY <1>2 DEF Summing
  <2> QED
    BY <1>2, <2>1, <2>2
<1> HIDE DEF T
<1>3. SUBSET S \subseteq T
  BY <1>1, <1>2, SubsetsReached
<1> QED
  BY <1>3 DEF T

\* There is one over any finite set.
LEMMA SummingExists ==
  ASSUME NEW f, NEW S, IsFiniteSet(S)
  PROVE  \E sum : Summing(f, S, sum)
<1> DEFINE Upto(n) == {s \in SUBSET S : Cardinality(s) <= n}
           Partial(n, sum) ==
             sum = [s \in Upto(n) |-> IF s = {} THEN 0 ELSE f[Pick(s)] + sum[s \ {Pick(s)}]]
           T == {n \in Nat : \E sum : Partial(n, sum)}
<1>0. \A s \in SUBSET S : IsFiniteSet(s) /\ Cardinality(s) \in Nat
  BY FS_Subset, FS_CardinalityType
<1>1. 0 \in T
  <2> DEFINE sum == [s \in Upto(0) |-> 0]
  <2>1. \A s \in Upto(0) : s = {}
    BY <1>0, FS_EmptySet
  <2>2. Partial(0, sum)
    BY <2>1
  <2> QED
    BY <2>2
<1>2. ASSUME NEW n \in Nat, n \in T
      PROVE  n + 1 \in T
  <2> PICK sum : Partial(n, sum)
    BY <1>2
  <2> DEFINE next == [s \in Upto(n + 1) |-> IF s = {} THEN 0 ELSE f[Pick(s)] + sum[s \ {Pick(s)}]]
  <2>1. ASSUME NEW s \in Upto(n + 1), s # {}
        PROVE  s \ {Pick(s)} \in Upto(n)
    <3>1. Pick(s) \in s
      BY <2>1, PickIn
    <3>2. Cardinality(s \ {Pick(s)}) = Cardinality(s) - 1
      BY <1>0, <3>1, FS_RemoveElement
    <3> QED
      BY <1>0, <3>2
  <2>2. ASSUME NEW s \in Upto(n)
        PROVE  next[s] = sum[s]
    <3>1. s \in Upto(n + 1)
      BY <1>0
    <3>2. sum[s] = IF s = {} THEN 0 ELSE f[Pick(s)] + sum[s \ {Pick(s)}]
      OBVIOUS
    <3> QED
      BY <3>1, <3>2
  <2>3. Partial(n + 1, next)
    BY <2>1, <2>2
  <2> HIDE DEF next
  <2>4. \E g : Partial(n + 1, g)
    BY <2>3
  <2> HIDE DEF Partial
  <2> QED
    BY <2>4
<1> HIDE DEF T
<1>3. Cardinality(S) \in T
  BY <1>0, <1>1, <1>2, NaturalsReached
<1>4. PICK sum : Partial(Cardinality(S), sum)
  BY <1>3 DEF T
<1>5. Upto(Cardinality(S)) = SUBSET S
  BY <1>0, FS_Subset
<1> QED
  BY <1>4, <1>5 DEF Summing

LEMMA SumIsSumming ==
  ASSUME NEW f, NEW S, IsFiniteSet(S)
  PROVE  \E sum : Summing(f, S, sum) /\ SumFunctionOnSet(f, S) = sum[S]
<1> DEFINE sum == CHOOSE iter : iter = [s \in SUBSET S |->
                    IF s = {} THEN 0 ELSE f[Pick(s)] + iter[s \ {Pick(s)}]]
<1>1. SumFunctionOnSet(f, S) = sum[S]
  BY DEF SumFunctionOnSet, FoldFunctionOnSet, MapThenFoldSet, Pick
<1>2. Summing(f, S, sum)
  <2> PICK g : Summing(f, S, g)
    BY SummingExists
  <2>1. \E iter : iter = [s \in SUBSET S |->
                     IF s = {} THEN 0 ELSE f[Pick(s)] + iter[s \ {Pick(s)}]]
    BY DEF Summing
  <2> QED
    BY <2>1 DEF Summing
<1> QED
  BY <1>1, <1>2

-----------------------------------------------------------------------------
(* What the proofs use.                                                      *)

LEMMA SumEmpty == ASSUME NEW f PROVE SumFunctionOnSet(f, {}) = 0
<1>1. IsFiniteSet({})
  BY FS_EmptySet
<1>2. PICK a : Summing(f, {}, a) /\ SumFunctionOnSet(f, {}) = a[{}]
  BY <1>1, SumIsSumming
<1> QED
  BY <1>2 DEF Summing

LEMMA SumCongruent ==
  ASSUME NEW f, NEW g, NEW S, IsFiniteSet(S), \A x \in S : f[x] = g[x]
  PROVE  SumFunctionOnSet(f, S) = SumFunctionOnSet(g, S)
<1>1. PICK a : Summing(f, S, a) /\ SumFunctionOnSet(f, S) = a[S]
  BY SumIsSumming
<1>2. PICK b : Summing(g, S, b) /\ SumFunctionOnSet(g, S) = b[S]
  BY SumIsSumming
<1> QED
  BY <1>1, <1>2, SummingAgree

LEMMA SumPicks ==
  ASSUME NEW f, NEW S, IsFiniteSet(S), S # {}
  PROVE  SumFunctionOnSet(f, S) = f[Pick(S)] + SumFunctionOnSet(f, S \ {Pick(S)})
<1> DEFINE rest == S \ {Pick(S)}
<1>1. PICK a : Summing(f, S, a) /\ SumFunctionOnSet(f, S) = a[S]
  BY SumIsSumming
<1>2. IsFiniteSet(rest) /\ rest \subseteq S
  BY FS_Subset
<1>3. PICK b : Summing(f, rest, b) /\ SumFunctionOnSet(f, rest) = b[rest]
  BY <1>2, SumIsSumming
<1>4. a[rest] = b[rest]
  BY <1>1, <1>2, <1>3, SummingAgree
<1>5. a[S] = f[Pick(S)] + a[rest]
  BY <1>1 DEF Summing
<1> QED
  BY <1>1, <1>3, <1>4, <1>5

LEMMA SumType ==
  ASSUME NEW S, IsFiniteSet(S), NEW f, NEW D \in {Nat, Int}, \A x \in S : f[x] \in D
  PROVE  SumFunctionOnSet(f, S) \in D
<1> DEFINE T == {s \in SUBSET S : SumFunctionOnSet(f, s) \in D}
<1>1. {} \in T
  BY SumEmpty
<1>2. ASSUME NEW s \in SUBSET S, s # {}, \A x \in s : s \ {x} \in T
      PROVE  s \in T
  <2>1. IsFiniteSet(s) /\ Pick(s) \in s
    BY <1>2, PickIn, FS_Subset
  <2>2. SumFunctionOnSet(f, s) = f[Pick(s)] + SumFunctionOnSet(f, s \ {Pick(s)})
    BY <1>2, <2>1, SumPicks
  <2>3. f[Pick(s)] \in D /\ SumFunctionOnSet(f, s \ {Pick(s)}) \in D
    BY <1>2, <2>1
  <2> QED
    BY <2>2, <2>3
<1> HIDE DEF T
<1>3. SUBSET S \subseteq T
  BY <1>1, <1>2, SubsetsReached
<1> QED
  BY <1>3 DEF T

\* Whichever element is taken out first.
LEMMA SumRemove ==
  ASSUME NEW S, IsFiniteSet(S), NEW f, \A x \in S : f[x] \in Int, NEW e \in S
  PROVE  SumFunctionOnSet(f, S) = f[e] + SumFunctionOnSet(f, S \ {e})
<1> DEFINE Sum(s) == SumFunctionOnSet(f, s)
           T == {s \in SUBSET S : \A x \in s : Sum(s) = f[x] + Sum(s \ {x})}
<1>1. {} \in T
  OBVIOUS
<1>2. ASSUME NEW s \in SUBSET S, s # {}, \A x \in s : s \ {x} \in T
      PROVE  s \in T
  <2> SUFFICES ASSUME NEW x \in s PROVE Sum(s) = f[x] + Sum(s \ {x})
    OBVIOUS
  <2> DEFINE p == Pick(s)
  <2>1. IsFiniteSet(s) /\ p \in s
    BY <1>2, PickIn, FS_Subset
  <2>2. Sum(s) = f[p] + Sum(s \ {p})
    BY <1>2, <2>1, SumPicks
  <2>3. CASE x = p
    BY <2>2, <2>3
  <2>4. CASE x # p
    <3>1. s \ {p} \in T /\ s \ {x} \in T
      BY <1>2, <2>1
    <3>2. Sum(s \ {p}) = f[x] + Sum((s \ {p}) \ {x})
      BY <2>4, <3>1
    <3>3. Sum(s \ {x}) = f[p] + Sum((s \ {x}) \ {p})
      BY <2>1, <2>4, <3>1
    <3>4. (s \ {p}) \ {x} = (s \ {x}) \ {p}
      OBVIOUS
    <3>5. IsFiniteSet((s \ {x}) \ {p})
      BY <2>1, FS_Subset
    <3>6. Sum((s \ {x}) \ {p}) \in Int /\ f[x] \in Int /\ f[p] \in Int
      BY <2>1, <3>5, SumType
    <3> DEFINE A == Sum((s \ {x}) \ {p})
    <3>7. Sum(s) = f[p] + (f[x] + A) /\ Sum(s \ {x}) = f[p] + A
      BY <2>2, <3>2, <3>3, <3>4
    <3> HIDE DEF Sum, p, A
    <3>8. A \in Int /\ f[x] \in Int /\ f[p] \in Int
      BY <3>6 DEF A
    <3> QED
      BY <3>7, <3>8
  <2> QED
    BY <2>3, <2>4
<1> HIDE DEF T
<1>3. SUBSET S \subseteq T
  BY <1>1, <1>2, SubsetsReached
<1> QED
  BY <1>3 DEF T

\* What one element adds to a sum, and what the move of one element moves.
LEMMA SumAdded ==
  ASSUME NEW S, IsFiniteSet(S), NEW f, NEW g, NEW e, e \notin S,
         \A x \in S : f[x] \in Int, \A x \in S : f[x] = g[x], g[e] \in Int
  PROVE  SumFunctionOnSet(g, S \cup {e}) = SumFunctionOnSet(f, S) + g[e]
<1> DEFINE T == S \cup {e}
<1>1. SumFunctionOnSet(f, S) \in Int /\ SumFunctionOnSet(f, S) = SumFunctionOnSet(g, S)
  BY SumType, SumCongruent
<1>2. IsFiniteSet(T) /\ e \in T /\ T \ {e} = S
  BY FS_AddElement
<1>3. \A x \in T : g[x] \in Int
  OBVIOUS
<1> HIDE DEF T
<1>4. SumFunctionOnSet(g, T) = g[e] + SumFunctionOnSet(g, T \ {e})
  BY <1>2, <1>3, SumRemove
<1>5. SumFunctionOnSet(g, T) = g[e] + SumFunctionOnSet(f, S)
  BY <1>1, <1>2, <1>4
<1> QED
  BY <1>1, <1>5 DEF T

LEMMA SumMoved ==
  ASSUME NEW S, IsFiniteSet(S), NEW f, NEW g, NEW e,
         \A x \in S : f[x] \in Int /\ g[x] \in Int /\ (x # e => g[x] = f[x])
  PROVE  SumFunctionOnSet(g, S) = SumFunctionOnSet(f, S) + (IF e \in S THEN g[e] - f[e] ELSE 0)
<1>1. SumFunctionOnSet(f, S) \in Int
  BY SumType
<1>2. CASE e \notin S
  BY <1>1, <1>2, SumCongruent
<1>3. CASE e \in S
  <2> DEFINE rest == S \ {e}
  <2>1. IsFiniteSet(rest)
    BY FS_Subset
  <2>2. SumFunctionOnSet(f, S) = f[e] + SumFunctionOnSet(f, rest)
        /\ SumFunctionOnSet(g, S) = g[e] + SumFunctionOnSet(g, rest)
    BY <1>3, SumRemove
  <2>3. SumFunctionOnSet(g, rest) = SumFunctionOnSet(f, rest)
        /\ SumFunctionOnSet(f, rest) \in Int
    BY <2>1, SumCongruent, SumType
  <2>4. f[e] \in Int /\ g[e] \in Int
    BY <1>3
  <2> HIDE DEF rest
  <2> QED
    BY <1>3, <2>2, <2>3, <2>4
<1> QED
  BY <1>2, <1>3

\* A sum of naturals is at least each of them.
LEMMA SumBounds ==
  ASSUME NEW S, IsFiniteSet(S), NEW f, \A x \in S : f[x] \in Nat, NEW e \in S
  PROVE  f[e] <= SumFunctionOnSet(f, S)
<1>1. SumFunctionOnSet(f, S) = f[e] + SumFunctionOnSet(f, S \ {e})
  BY SumRemove
<1>2. IsFiniteSet(S \ {e})
  BY FS_Subset
<1>3. SumFunctionOnSet(f, S \ {e}) \in Nat
  BY <1>2, SumType
<1>4. f[e] \in Nat
  OBVIOUS
<1> QED
  BY <1>1, <1>3, <1>4

\* Larger naturals have a larger sum.
LEMMA SumMonotone ==
  ASSUME NEW S, IsFiniteSet(S), NEW f, NEW g, \A x \in S : f[x] \in Nat /\ g[x] \in Nat /\ f[x] <= g[x]
  PROVE  SumFunctionOnSet(f, S) <= SumFunctionOnSet(g, S)
<1> DEFINE T == {s \in SUBSET S : SumFunctionOnSet(f, s) <= SumFunctionOnSet(g, s)}
<1>1. {} \in T
  BY SumEmpty
<1>2. ASSUME NEW s \in SUBSET S, s # {}, \A x \in s : s \ {x} \in T
      PROVE  s \in T
  <2>1. PICK x \in s : TRUE
    BY <1>2
  <2>2. IsFiniteSet(s) /\ IsFiniteSet(s \ {x})
    BY FS_Subset
  <2>3. /\ SumFunctionOnSet(f, s) = f[x] + SumFunctionOnSet(f, s \ {x})
        /\ SumFunctionOnSet(g, s) = g[x] + SumFunctionOnSet(g, s \ {x})
    BY <2>2, SumRemove
  <2>4. /\ SumFunctionOnSet(f, s \ {x}) \in Nat /\ SumFunctionOnSet(g, s \ {x}) \in Nat
        /\ SumFunctionOnSet(f, s \ {x}) <= SumFunctionOnSet(g, s \ {x})
    BY <1>2, <2>2, SumType
  <2> QED
    BY <2>3, <2>4
<1> HIDE DEF T
<1>3. SUBSET S \subseteq T
  BY <1>1, <1>2, SubsetsReached
<1> QED
  BY <1>3 DEF T

\* Over more elements, too.
LEMMA SumOverSuperset ==
  ASSUME NEW U, IsFiniteSet(U), NEW S \in SUBSET U, NEW f, \A x \in U : f[x] \in Nat
  PROVE  SumFunctionOnSet(f, S) <= SumFunctionOnSet(f, U)
<1> DEFINE T == {s \in SUBSET (U \ S) : SumFunctionOnSet(f, S) <= SumFunctionOnSet(f, S \cup s)}
<1>1. IsFiniteSet(S) /\ IsFiniteSet(U \ S)
  BY FS_Subset
<1>2. {} \in T
  <2>1. SumFunctionOnSet(f, S) \in Nat
    BY <1>1, SumType
  <2>2. S \cup {} = S
    OBVIOUS
  <2> QED
    BY <2>1, <2>2
<1>3. ASSUME NEW s \in SUBSET (U \ S), s # {}, \A x \in s : s \ {x} \in T
      PROVE  s \in T
  <2>1. PICK x \in s : TRUE
    BY <1>3
  <2> DEFINE all == S \cup s
             rest == S \cup (s \ {x})
  <2>2. all \subseteq U /\ rest \subseteq U /\ x \in all /\ all \ {x} = rest
    OBVIOUS
  <2>3. IsFiniteSet(all) /\ IsFiniteSet(rest)
    BY <2>2, FS_Subset
  <2>4. SumFunctionOnSet(f, S) <= SumFunctionOnSet(f, rest)
    BY <1>3
  <2>5. SumFunctionOnSet(f, S) \in Nat
    BY <1>1, SumType
  <2> HIDE DEF all, rest
  <2>6. SumFunctionOnSet(f, all) = f[x] + SumFunctionOnSet(f, rest)
    BY <2>2, <2>3, SumRemove
  <2>7. SumFunctionOnSet(f, rest) \in Nat
    BY <2>2, <2>3, SumType
  <2>8. SumFunctionOnSet(f, S) <= SumFunctionOnSet(f, all)
    BY <2>2, <2>4, <2>5, <2>6, <2>7
  <2> QED
    BY <2>8 DEF all
<1> HIDE DEF T
<1>4. SUBSET (U \ S) \subseteq T
  BY <1>1, <1>2, <1>3, SubsetsReached
<1>5. S \cup (U \ S) = U
  OBVIOUS
<1> QED
  BY <1>4, <1>5 DEF T

\* Nothing adds up to nothing.
LEMMA SumOfZeros ==
  ASSUME NEW S, IsFiniteSet(S), NEW f, \A x \in S : f[x] = 0
  PROVE  SumFunctionOnSet(f, S) = 0
<1> DEFINE T == {s \in SUBSET S : SumFunctionOnSet(f, s) = 0}
<1>1. {} \in T
  BY SumEmpty
<1>2. ASSUME NEW s \in SUBSET S, s # {}, \A x \in s : s \ {x} \in T
      PROVE  s \in T
  <2>1. PICK x \in s : TRUE
    BY <1>2
  <2>2. IsFiniteSet(s)
    BY FS_Subset
  <2>3. SumFunctionOnSet(f, s) = f[x] + SumFunctionOnSet(f, s \ {x})
    BY <2>2, SumRemove
  <2> QED
    BY <1>2, <2>3
<1> HIDE DEF T
<1>3. SUBSET S \subseteq T
  BY <1>1, <1>2, SubsetsReached
<1> QED
  BY <1>3 DEF T


\* A function with natural values on a finite set takes a greatest one.
LEMMA GreatestAttained ==
  ASSUME NEW S, IsFiniteSet(S), NEW f \in [S -> Nat]
  PROVE  S = {} \/ \E p \in S : \A q \in S : f[q] <= f[p]
<1> DEFINE T == {s \in SUBSET S : s = {} \/ \E p \in s : \A q \in s : f[q] <= f[p]}
<1>1. {} \in T
  OBVIOUS
<1>2. ASSUME NEW s \in SUBSET S, s # {}, \A x \in s : s \ {x} \in T
      PROVE  s \in T
  <2>1. PICK x \in s : TRUE
    BY <1>2
  <2>2. CASE s \ {x} = {}
    <3>1. \A q \in s : f[q] <= f[x]
      BY <2>1, <2>2
    <3> QED
      BY <2>1, <3>1
  <2>3. ASSUME NEW p \in s \ {x}, \A q \in s \ {x} : f[q] <= f[p]
        PROVE  s \in T
    <3>1. CASE f[x] <= f[p]
      <4>1. \A q \in s : f[q] <= f[p]
        BY <2>3, <3>1
      <4> QED
        BY <4>1
    <3>2. CASE f[p] <= f[x]
      <4>1. \A q \in s : f[q] <= f[x]
        <5> SUFFICES ASSUME NEW q \in s PROVE f[q] <= f[x]
          OBVIOUS
        <5>1. q = x \/ f[q] <= f[p]
          BY <2>3
        <5>2. f[q] \in Nat /\ f[p] \in Nat /\ f[x] \in Nat
          BY <2>1
        <5> QED
          BY <3>2, <5>1, <5>2
      <4> QED
        BY <2>1, <4>1
    <3>3. f[x] \in Nat /\ f[p] \in Nat
      BY <2>1
    <3> QED
      BY <3>1, <3>2, <3>3
  <2>4. s \ {x} \in T
    BY <1>2, <2>1
  <2> QED
    BY <2>2, <2>3, <2>4
<1> HIDE DEF T
<1>3. SUBSET S \subseteq T
  BY <1>1, <1>2, SubsetsReached
<1>4. S \in T
  BY <1>3
<1> QED
  BY <1>4 DEF T

\* A sum of ones counts them.
LEMMA SumOfOnes ==
  ASSUME NEW n \in Nat, NEW f, DOMAIN f = 1 .. n, \A k \in 1 .. n : f[k] = 1
  PROVE  SumFunction(f) = n
<1> DEFINE T == {m \in Nat : m <= n => SumFunctionOnSet(f, 1 .. m) = m}
<1>1. 0 \in T
  <2>1. 1 .. 0 = {}
    OBVIOUS
  <2> QED
    BY <2>1, SumEmpty
<1>2. ASSUME NEW m \in Nat, m \in T
      PROVE  m + 1 \in T
  <2> SUFFICES ASSUME m + 1 <= n PROVE SumFunctionOnSet(f, 1 .. m + 1) = m + 1
    OBVIOUS
  <2>1. IsFiniteSet(1 .. m + 1)
    BY FS_Interval
  <2>2. m + 1 \in 1 .. m + 1 /\ (1 .. m + 1) \ {m + 1} = 1 .. m
    OBVIOUS
  <2>3. \A k \in 1 .. m + 1 : f[k] \in Int
    OBVIOUS
  <2>4. SumFunctionOnSet(f, 1 .. m + 1) = f[m + 1] + SumFunctionOnSet(f, 1 .. m)
    BY <2>1, <2>2, <2>3, SumRemove
  <2>5. SumFunctionOnSet(f, 1 .. m) = m /\ f[m + 1] = 1
    BY <1>2
  <2> QED
    BY <2>4, <2>5
<1> HIDE DEF T
<1>3. n \in T
  BY <1>1, <1>2, NaturalsReached
<1> QED
  BY <1>3 DEF T, SumFunction

-----------------------------------------------------------------------------
(* Sequences: the first elements, two joined, a set listed in an order.      *)

LEMMA PrefixOf ==
  ASSUME NEW S, NEW s \in Seq(S), NEW k \in 0 .. Len(s)
  PROVE  /\ SubSeq(s, 1, k) \in Seq(S) /\ Len(SubSeq(s, 1, k)) = k
         /\ \A i \in 1 .. k : SubSeq(s, 1, k)[i] = s[i]
  OBVIOUS

LEMMA Joined ==
  ASSUME NEW S, NEW s \in Seq(S), NEW t \in Seq(S)
  PROVE  /\ s \o t \in Seq(S) /\ Range(s \o t) = Range(s) \cup Range(t)
         /\ IsInjective(s) /\ IsInjective(t) /\ Range(s) \cap Range(t) = {} => IsInjective(s \o t)
<1>1. PICK m, n : m = Len(s) /\ n = Len(t) /\ m \in Nat /\ n \in Nat
  <2>1. Len(s) \in Nat /\ Len(t) \in Nat
    OBVIOUS
  <2> QED
    BY <2>1
<1>2. PICK u : u = s \o t
  OBVIOUS
<1>3. u \in Seq(S) /\ Len(u) = m + n
  BY <1>1, <1>2
<1>4. /\ \A i \in 1 .. m : u[i] = s[i]
      /\ \A i \in 1 .. n : u[m + i] = t[i]
  BY <1>1, <1>2
<1>5. DOMAIN u = 1 .. m + n /\ DOMAIN s = 1 .. m /\ DOMAIN t = 1 .. n
  BY <1>1, <1>3
<1>6. /\ \A i \in 1 .. m : i \in 1 .. m + n
      /\ \A i \in 1 .. n : m + i \in 1 .. m + n
      /\ \A i \in 1 .. m + n : i \in 1 .. m \/ (i - m \in 1 .. n /\ m + (i - m) = i)
  BY <1>1
<1>7. Range(u) = Range(s) \cup Range(t)
  <2>1. ASSUME NEW i \in 1 .. m + n PROVE u[i] \in Range(s) \cup Range(t)
    <3>1. CASE i \in 1 .. m
      BY <1>4, <1>5, <3>1 DEF Range
    <3>2. CASE i - m \in 1 .. n /\ m + (i - m) = i
      <4>1. u[i] = t[i - m]
        BY <1>4, <3>2
      <4> QED
        BY <1>5, <3>2, <4>1 DEF Range
    <3> QED
      BY <1>6, <3>1, <3>2
  <2>2. ASSUME NEW i \in 1 .. m PROVE s[i] \in Range(u)
    BY <1>4, <1>5, <1>6 DEF Range
  <2>3. ASSUME NEW i \in 1 .. n PROVE t[i] \in Range(u)
    <3>1. t[i] = u[m + i] /\ m + i \in DOMAIN u
      BY <1>4, <1>5, <1>6
    <3> QED
      BY <3>1 DEF Range
  <2> QED
    BY <1>5, <2>1, <2>2, <2>3 DEF Range
<1>8. ASSUME IsInjective(s), IsInjective(t), Range(s) \cap Range(t) = {}
      PROVE  IsInjective(u)
  <2> SUFFICES ASSUME NEW i \in 1 .. m + n, NEW j \in 1 .. m + n, u[i] = u[j]
               PROVE  i = j
    BY <1>5 DEF IsInjective
  <2>1. \A k \in 1 .. m + n : \/ k \in 1 .. m /\ u[k] = s[k] /\ u[k] \in Range(s)
                              \/ k - m \in 1 .. n /\ u[k] = t[k - m] /\ u[k] \in Range(t)
    <3> SUFFICES ASSUME NEW k \in 1 .. m + n
                 PROVE  \/ k \in 1 .. m /\ u[k] = s[k] /\ u[k] \in Range(s)
                        \/ k - m \in 1 .. n /\ u[k] = t[k - m] /\ u[k] \in Range(t)
      OBVIOUS
    <3>1. CASE k \in 1 .. m
      BY <1>4, <1>5, <3>1 DEF Range
    <3>2. CASE k - m \in 1 .. n /\ m + (k - m) = k
      <4>1. u[k] = t[k - m]
        BY <1>4, <3>2
      <4> QED
        BY <1>5, <3>2, <4>1 DEF Range
    <3> QED
      BY <1>6, <3>1, <3>2
  <2>2. CASE i \in 1 .. m /\ u[i] = s[i] /\ u[i] \in Range(s)
    <3>1. j \in 1 .. m /\ u[j] = s[j]
      BY <1>8, <2>1, <2>2
    <3> QED
      BY <1>5, <1>8, <2>2, <3>1 DEF IsInjective
  <2>3. CASE i - m \in 1 .. n /\ u[i] = t[i - m] /\ u[i] \in Range(t)
    <3>1. j - m \in 1 .. n /\ u[j] = t[j - m]
      BY <1>8, <2>1, <2>3
    <3>2. i - m = j - m
      BY <1>5, <1>8, <2>3, <3>1 DEF IsInjective
    <3> QED
      BY <1>1, <3>2
  <2> QED
    BY <2>1, <2>2, <2>3
<1> QED
  BY <1>2, <1>3, <1>7, <1>8

\* The n elements of s, each after the ones the order puts before it.
ListedBy(R, s, n) ==
  \E seq \in [1 .. n -> s] : /\ \A x \in s : \E i \in 1 .. n : seq[i] = x
                             /\ \A i, j \in 1 .. n : i < j => <<seq[i], seq[j]>> \in R

LEMMA ListedWithLast ==
  ASSUME NEW R, NEW s, NEW n \in Nat, NEW z \in s, ListedBy(R, s \ {z}, n),
         \A x \in s : x # z => <<x, z>> \in R
  PROVE  ListedBy(R, s, n + 1)
<1>1. PICK q \in [1 .. n -> s \ {z}] :
          /\ \A x \in s \ {z} : \E i \in 1 .. n : q[i] = x
          /\ \A i, j \in 1 .. n : i < j => <<q[i], q[j]>> \in R
  BY DEF ListedBy
<1>2. PICK seq : seq = [i \in 1 .. n + 1 |-> IF i = n + 1 THEN z ELSE q[i]]
  OBVIOUS
<1>3. n + 1 \in 1 .. n + 1 /\ \A i \in 1 .. n : i \in 1 .. n + 1 /\ i # n + 1
  OBVIOUS
<1>4. \A i \in 1 .. n + 1 : i = n + 1 \/ i \in 1 .. n
  OBVIOUS
<1>5. seq[n + 1] = z /\ \A i \in 1 .. n : seq[i] = q[i]
  BY <1>2, <1>3
<1>6. seq \in [1 .. n + 1 -> s]
  BY <1>2, <1>4
<1>7. \A x \in s : \E i \in 1 .. n + 1 : seq[i] = x
  BY <1>1, <1>3, <1>5
<1>8. ASSUME NEW i \in 1 .. n + 1, NEW j \in 1 .. n + 1, i < j
      PROVE  <<seq[i], seq[j]>> \in R
  <2>1. i \in 1 .. n
    BY <1>8
  <2>2. seq[i] = q[i] /\ q[i] \in s \ {z}
    BY <1>5, <2>1
  <2>3. CASE j = n + 1
    BY <1>5, <2>2, <2>3
  <2>4. CASE j \in 1 .. n
    BY <1>1, <1>5, <1>8, <2>1, <2>4
  <2> QED
    BY <1>4, <2>3, <2>4
<1> QED
  BY <1>6, <1>7, <1>8 DEF ListedBy

\* A finite set under a strict total order can be listed in that order.
LEMMA SortExists ==
  ASSUME NEW S, IsFiniteSet(S), NEW R,
         \A a \in S : <<a, a>> \notin R,
         \A a, b \in S : a # b => <<a, b>> \in R \/ <<b, a>> \in R,
         \A a, b, c \in S : <<a, b>> \in R /\ <<b, c>> \in R => <<a, c>> \in R
  PROVE  ListedBy(R, S, Cardinality(S))
<1> DEFINE HasLast(s) == s = {} \/ \E z \in s : \A x \in s : x # z => <<x, z>> \in R
           T == {s \in SUBSET S : ListedBy(R, s, Cardinality(s)) /\ HasLast(s)}
<1>1. {} \in T
  <2>1. Cardinality({}) = 0
    BY FS_EmptySet
  <2>2. [i \in 1 .. 0 |-> i] \in [1 .. 0 -> {}]
    OBVIOUS
  <2> QED
    BY <2>1, <2>2 DEF ListedBy
<1>2. ASSUME NEW s \in SUBSET S, s # {}, \A x \in s : s \ {x} \in T
      PROVE  s \in T
  <2>1. IsFiniteSet(s) /\ Cardinality(s) \in Nat
    BY FS_Subset, FS_CardinalityType
  <2>2. HasLast(s)
    <3>1. PICK x \in s : TRUE
      BY <1>2
    <3>2. CASE s \ {x} = {}
      BY <3>1, <3>2
    <3>3. ASSUME NEW z \in s \ {x}, \A y \in s \ {x} : y # z => <<y, z>> \in R
          PROVE  HasLast(s)
      <4>1. CASE <<x, z>> \in R
        BY <3>3, <4>1
      <4>2. CASE <<z, x>> \in R
        <5>1. \A y \in s : y # x => <<y, x>> \in R
          BY <3>3, <4>2
        <5> QED
          BY <5>1
      <4> QED
        BY <4>1, <4>2
    <3>4. HasLast(s \ {x})
      BY <1>2
    <3> QED
      BY <3>2, <3>3, <3>4
  <2>3. PICK z \in s : \A x \in s : x # z => <<x, z>> \in R
    BY <1>2, <2>2
  <2>4. PICK n : n = Cardinality(s \ {z}) /\ n \in Nat /\ Cardinality(s) = n + 1
    <3>1. IsFiniteSet(s \ {z}) /\ Cardinality(s \ {z}) \in Nat
      BY <2>1, FS_Subset, FS_CardinalityType
    <3>2. Cardinality(s \ {z}) = Cardinality(s) - 1
      BY <2>1, <2>3, FS_RemoveElement
    <3> QED
      BY <2>1, <3>1, <3>2
  <2>5. ListedBy(R, s \ {z}, n)
    BY <1>2, <2>4
  <2>6. ListedBy(R, s, n + 1)
    BY <2>3, <2>4, <2>5, ListedWithLast
  <2> QED
    BY <2>2, <2>4, <2>6
<1> HIDE DEF T
<1>3. SUBSET S \subseteq T
  BY <1>1, <1>2, SubsetsReached
<1> QED
  BY <1>3 DEF T

\* A set of naturals with a bound has a greatest element.
LEMMA GreatestNatural ==
  ASSUME NEW n \in Nat, NEW T \in SUBSET (1 .. n), T # {}
  PROVE  \E m \in T : \A k \in T : k <= m
<1>1. PICK S : S = {n - k : k \in T}
  OBVIOUS
<1>2. S \subseteq Nat /\ S # {}
  <2>1. \A k \in T : k \in 1 .. n /\ n - k \in Nat
    OBVIOUS
  <2> QED
    BY <1>1, <2>1
<1>3. PICK d \in S : \A e \in S : d <= e
  BY <1>2, LeastNatural
<1>4. PICK m \in T : d = n - m
  BY <1>1, <1>3
<1>5. \A k \in T : n - k \in S /\ k \in Nat
  BY <1>1
<1>6. \A k \in T : n - m <= n - k
  BY <1>3, <1>4, <1>5
<1> QED
  BY <1>4, <1>5, <1>6

\* A sum up to k + 1 is the one up to k and the last term.
LEMMA SumGrows ==
  ASSUME NEW k \in Nat, NEW f, \A i \in 1 .. k + 1 : f[i] \in Nat
  PROVE  /\ SumFunction([i \in 1 .. k |-> f[i]]) \in Nat
         /\ SumFunction([i \in 1 .. k + 1 |-> f[i]]) = SumFunction([i \in 1 .. k |-> f[i]]) + f[k + 1]
<1>1. PICK g, h : g = [i \in 1 .. k |-> f[i]] /\ h = [i \in 1 .. k + 1 |-> f[i]]
  OBVIOUS
<1>2. IsFiniteSet(1 .. k) /\ IsFiniteSet(1 .. k + 1) /\ k + 1 \in 1 .. k + 1
      /\ (1 .. k + 1) \ {k + 1} = 1 .. k
  BY FS_Interval
<1>3. \A i \in 1 .. k + 1 : h[i] \in Int
  BY <1>1
<1>4. SumFunctionOnSet(h, 1 .. k + 1) = h[k + 1] + SumFunctionOnSet(h, 1 .. k)
  BY <1>2, <1>3, SumRemove
<1>5. \A i \in 1 .. k : h[i] = g[i] /\ g[i] \in Nat
  BY <1>1
<1>6. SumFunctionOnSet(h, 1 .. k) = SumFunctionOnSet(g, 1 .. k)
  BY <1>2, <1>5, SumCongruent
<1>7. SumFunctionOnSet(g, 1 .. k) \in Nat
  BY <1>2, <1>5, SumType
<1>8. SumFunction(g) = SumFunctionOnSet(g, 1 .. k) /\ SumFunction(h) = SumFunctionOnSet(h, 1 .. k + 1)
  BY <1>1 DEF SumFunction
<1>9. h[k + 1] = f[k + 1]
  BY <1>1, <1>2
<1>10. SumFunction(h) = SumFunction(g) + f[k + 1]
  <2>1. f[k + 1] \in Nat
    BY <1>2
  <2> QED
    BY <1>4, <1>6, <1>7, <1>8, <1>9, <2>1
<1> QED
  BY <1>1, <1>7, <1>8, <1>10

\* Every element computed from the one before it.
StepByStep(f, first, next, n) == \A i \in 1 .. n : f[i] = IF i = 1 THEN first ELSE next[i][f[i - 1]]

\* What is computed from one element to the next exists.
LEMMA RecursionExists ==
  ASSUME NEW S, NEW first \in S, NEW next \in [Nat -> [S -> S]], NEW n \in Nat
  PROVE  \E f \in [1 .. n -> S] : StepByStep(f, first, next, n)
<1> DEFINE T == {m \in Nat : \E f \in [1 .. m -> S] : StepByStep(f, first, next, m)}
<1>1. 0 \in T
  <2>1. [i \in 1 .. 0 |-> first] \in [1 .. 0 -> S] /\ 1 .. 0 = {}
    OBVIOUS
  <2> QED
    BY <2>1 DEF StepByStep
<1>2. ASSUME NEW m \in Nat, m \in T
      PROVE  m + 1 \in T
  <2>1. PICK f \in [1 .. m -> S] : StepByStep(f, first, next, m)
    BY <1>2
  <2>2. PICK last \in S : last = IF m + 1 = 1 THEN first ELSE next[m + 1][f[m]]
    <3>1. CASE m = 0
      BY <3>1
    <3>2. CASE m # 0
      <4>1. f[m] \in S /\ next[m + 1] \in [S -> S]
        BY <3>2
      <4>2. next[m + 1][f[m]] \in S
        BY <4>1
      <4> QED
        BY <3>2, <4>2
    <3> QED
      BY <3>1, <3>2
  <2>3. PICK g : g = [i \in 1 .. m + 1 |-> IF i = m + 1 THEN last ELSE f[i]]
    OBVIOUS
  <2>4. /\ \A i \in 1 .. m : i \in 1 .. m + 1 /\ i # m + 1 /\ g[i] = f[i]
        /\ m + 1 \in 1 .. m + 1 /\ g[m + 1] = last /\ (m + 1) - 1 = m
        /\ \A i \in 1 .. m + 1 : i = m + 1 \/ i \in 1 .. m
    BY <2>3
  <2>5. g \in [1 .. m + 1 -> S]
    BY <2>2, <2>3, <2>4
  <2>6. ASSUME NEW i \in 1 .. m + 1
        PROVE  g[i] = IF i = 1 THEN first ELSE next[i][g[i - 1]]
    <3>1. CASE i = m + 1
      <4>1. m # 0 => g[m] = f[m]
        BY <2>4
      <4> QED
        BY <2>2, <2>4, <3>1, <4>1
    <3>2. CASE i \in 1 .. m
      <4>1. i # 1 => i - 1 \in 1 .. m
        BY <3>2
      <4> QED
        BY <2>1, <2>4, <3>2, <4>1 DEF StepByStep
    <3> QED
      BY <2>4, <3>1, <3>2
  <2>7. StepByStep(g, first, next, m + 1)
    BY <2>6 DEF StepByStep
  <2> QED
    BY <2>5, <2>7
<1> HIDE DEF T
<1>3. n \in T
  BY <1>1, <1>2, NaturalsReached
<1> QED
  BY <1>3 DEF T

\* Induction up to a bound.
LEMMA BoundReached ==
  ASSUME NEW n \in Nat, NEW T, 0 \in T, \A i \in 1 .. n : i - 1 \in T => i \in T
  PROVE  0 .. n \subseteq T
<1> DEFINE U == {m \in Nat : m <= n => m \in T}
<1>1. 0 \in U
  OBVIOUS
<1>2. \A m \in Nat : m \in U => m + 1 \in U
  <2> SUFFICES ASSUME NEW m \in Nat, m \in U, m + 1 <= n PROVE m + 1 \in T
    OBVIOUS
  <2>1. m + 1 \in 1 .. n /\ (m + 1) - 1 = m /\ m \in T
    OBVIOUS
  <2> QED
    BY <2>1
<1> HIDE DEF U
<1>3. Nat \subseteq U
  BY <1>1, <1>2, NaturalsReached
<1> QED
  BY <1>3 DEF U

\* What is computed from a base, one element after the other, exists.
Iterates(f, base, next, n) == f[0] = base /\ \A i \in 1 .. n : f[i] = next[i][f[i - 1]]

LEMMA IterationExists ==
  ASSUME NEW S, NEW base \in S, NEW next \in [Nat -> [S -> S]], NEW n \in Nat
  PROVE  \E f \in [0 .. n -> S] : Iterates(f, base, next, n)
<1>1. PICK shifted : shifted = [i \in Nat |-> next[IF i = 0 THEN 0 ELSE i - 1]]
  OBVIOUS
<1>2. shifted \in [Nat -> [S -> S]] /\ \A i \in Nat : shifted[i + 1] = next[i]
  BY <1>1
<1>3. n + 1 \in Nat
  OBVIOUS
<1>4. PICK g \in [1 .. n + 1 -> S] : StepByStep(g, base, shifted, n + 1)
  BY <1>2, <1>3, RecursionExists
<1>5. PICK f : f = [i \in 0 .. n |-> g[i + 1]]
  OBVIOUS
<1>6. f \in [0 .. n -> S]
  BY <1>4, <1>5
<1>7. f[0] = base
  <2>1. 0 \in 0 .. n /\ 0 + 1 = 1 /\ 1 \in 1 .. n + 1
    OBVIOUS
  <2> QED
    BY <1>4, <1>5, <2>1 DEF StepByStep
<1>8. ASSUME NEW i \in 1 .. n
      PROVE  f[i] = next[i][f[i - 1]]
  <2>1. /\ i \in Nat /\ i \in 0 .. n /\ i - 1 \in 0 .. n /\ i + 1 \in 1 .. n + 1
        /\ i + 1 # 1 /\ (i + 1) - 1 = i /\ (i - 1) + 1 = i
    OBVIOUS
  <2>2. g[i + 1] = shifted[i + 1][g[i]]
    BY <1>4, <2>1 DEF StepByStep
  <2>3. f[i] = g[i + 1] /\ f[i - 1] = g[i]
    BY <1>5, <2>1
  <2> QED
    BY <1>2, <2>1, <2>2, <2>3
<1>9. Iterates(f, base, next, n)
  BY <1>7, <1>8 DEF Iterates
<1> QED
  BY <1>6, <1>9

\* The sum of two sequences of numbers put together.
LEMMA SumJoined ==
  ASSUME NEW n \in Nat, NEW m \in Nat, NEW f, \A i \in 1 .. n + m : f[i] \in Nat
  PROVE  SumFunction([i \in 1 .. n + m |-> f[i]]) =
           SumFunction([i \in 1 .. n |-> f[i]]) + SumFunction([i \in 1 .. m |-> f[n + i]])
<1> DEFINE Whole(k) == SumFunction([i \in 1 .. n + k |-> f[i]])
           First == SumFunction([i \in 1 .. n |-> f[i]])
           Rest(k) == SumFunction([i \in 1 .. k |-> f[n + i]])
           T == {k \in Nat : k <= m => Rest(k) \in Nat /\ Whole(k) = First + Rest(k)}
<1>1. First \in Nat
  <2>1. IsFiniteSet(1 .. n)
    BY FS_Interval
  <2>2. PICK g : g = [i \in 1 .. n |-> f[i]]
    OBVIOUS
  <2>3. \A i \in 1 .. n : g[i] \in Nat
    BY <2>2
  <2>4. SumFunction(g) = SumFunctionOnSet(g, 1 .. n)
    BY <2>2 DEF SumFunction
  <2> QED
    BY <2>1, <2>2, <2>3, <2>4, SumType
<1>2. 0 \in T
  <2>1. PICK g : g = [i \in 1 .. 0 |-> f[n + i]]
    OBVIOUS
  <2>2. DOMAIN g = {}
    BY <2>1
  <2>3. SumFunction(g) = 0
    BY <2>2, SumEmpty DEF SumFunction
  <2>4. n + 0 = n /\ Rest(0) = 0
    BY <2>1, <2>3
  <2>5. Whole(0) = First
    BY <2>4
  <2> HIDE DEF Whole, First, Rest
  <2> QED
    BY <1>1, <2>4, <2>5
<1>3. ASSUME NEW k \in Nat, k \in T
      PROVE  k + 1 \in T
  <2> SUFFICES ASSUME k + 1 <= m PROVE Rest(k + 1) \in Nat /\ Whole(k + 1) = First + Rest(k + 1)
    OBVIOUS
  <2>1. Rest(k) \in Nat /\ Whole(k) = First + Rest(k)
    BY <1>3
  <2>2. f[n + (k + 1)] \in Nat /\ (n + k) + 1 = n + (k + 1)
    OBVIOUS
  <2>3. Rest(k + 1) = Rest(k) + f[n + (k + 1)]
    <3>1. PICK g : g = [i \in 1 .. k + 1 |-> f[n + i]]
      OBVIOUS
    <3>2. \A i \in 1 .. k + 1 : g[i] \in Nat /\ g[i] = f[n + i]
      BY <3>1
    <3>3. SumFunction([i \in 1 .. k + 1 |-> g[i]]) = SumFunction([i \in 1 .. k |-> g[i]]) + g[k + 1]
      BY <3>2, SumGrows
    <3>4. [i \in 1 .. k + 1 |-> g[i]] = [i \in 1 .. k + 1 |-> f[n + i]]
          /\ [i \in 1 .. k |-> g[i]] = [i \in 1 .. k |-> f[n + i]] /\ g[k + 1] = f[n + (k + 1)]
      BY <3>2
    <3> QED
      BY <3>3, <3>4
  <2>4. Whole(k + 1) = Whole(k) + f[n + (k + 1)]
    <3>1. PICK j \in Nat : j = n + k
      OBVIOUS
    <3>2. \A i \in 1 .. j + 1 : f[i] \in Nat
      BY <3>1
    <3>3. SumFunction([i \in 1 .. j + 1 |-> f[i]]) = SumFunction([i \in 1 .. j |-> f[i]]) + f[j + 1]
      BY <3>2, SumGrows
    <3>4. j + 1 = n + (k + 1)
      BY <3>1
    <3> QED
      BY <3>1, <3>3, <3>4
  <2> HIDE DEF Whole, First, Rest
  <2> QED
    BY <1>1, <2>1, <2>2, <2>3, <2>4
<1> HIDE DEF T
<1>4. m \in T
  BY <1>2, <1>3, NaturalsReached
<1> QED
  BY <1>4 DEF T

\* A sum of naturals is one.
LEMMA SumOfNaturals ==
  ASSUME NEW n \in Nat, NEW f, DOMAIN f = 1 .. n, \A i \in 1 .. n : f[i] \in Nat
  PROVE  SumFunction(f) \in Nat
<1>1. IsFiniteSet(1 .. n)
  BY FS_Interval
<1> QED
  BY <1>1, SumType DEF SumFunction

=============================================================================
