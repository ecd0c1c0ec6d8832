----------------------------- MODULE DataLemmas -----------------------------
(***************************************************************************)
(* Facts about the library operators the models are built from, which the   *)
(* other proof modules cite: greatest and least elements of sets of          *)
(* numbers, and sums over finite sets.                                       *)
(*                                                                         *)
(* The library's induction theorems have an operator as a parameter, which   *)
(* the installed provers cannot instantiate.  SetInduction says the same of  *)
(* a set, so a property is proved by induction for the set of the numbers    *)
(* that have it.                                                            *)
(***************************************************************************)
EXTENDS Integers, FiniteSets, FiniteSetsExt, FiniteSetTheorems, WellFoundedInduction, TLAPS

\* Every non-empty set of natural numbers has a least element.
LEMMA LeastNatural ==
    ASSUME NEW S \in SUBSET Nat, S # {}
    PROVE  \E least \in S : \A n \in S : least <= n
<1> DEFINE Less == OpToRel(<, Nat)
<1>1. IsWellFoundedOn(Less, Nat)
  BY NatLessThanWellFounded
<1>2. \A m, n \in Nat : <<m, n>> \in Less <=> m < n
  BY DEF OpToRel
<1> HIDE DEF Less
<1>3. PICK least \in S : \A n \in S : ~(<<n, least>> \in Less)
  BY <1>1, WFMin
<1>4. \A n \in S : ~(n < least)
  BY <1>2, <1>3
<1> QED
  BY <1>4

\* A set of natural numbers with 0 and with the successor of each of its
\* elements holds all of them.
LEMMA SetInduction ==
    ASSUME NEW T \in SUBSET Nat, 0 \in T, \A n \in T : n + 1 \in T
    PROVE  T = Nat
<1> SUFFICES ASSUME Nat \ T # {} PROVE FALSE
  OBVIOUS
<1>1. PICK least \in Nat \ T : \A n \in Nat \ T : least <= n
  BY LeastNatural
<1>2. least # 0 /\ least - 1 \in Nat
  BY <1>1
<1>3. least - 1 \in T
  BY <1>1, <1>2
<1> QED
  BY <1>1, <1>3

\* Min of a non-empty set of natural numbers is its least element.
LEMMA MinOfNaturals ==
    ASSUME NEW S \in SUBSET Nat, S # {}
    PROVE  Min(S) \in S /\ \A n \in S : Min(S) <= n
BY LeastNatural DEF Min

\* Max of a non-empty finite set of natural numbers is its greatest element.
LEMMA MaxOfNaturals ==
    ASSUME NEW S \in SUBSET Nat, IsFiniteSet(S), S # {}
    PROVE  Max(S) \in S /\ \A n \in S : Max(S) >= n
<1> DEFINE HasMax(T) == \E m \in T : \A n \in T : m >= n
           Good == {k \in Nat : \A T \in SUBSET S : Cardinality(T) = k + 1 => HasMax(T)}
<1>1. \A T \in SUBSET S : IsFiniteSet(T) /\ Cardinality(T) \in Nat
  BY FS_Subset, FS_CardinalityType
<1>2. 0 \in Good
  <2> SUFFICES ASSUME NEW T \in SUBSET S, Cardinality(T) = 1 PROVE HasMax(T)
    OBVIOUS
  <2>1. PICK m : T = {m}
    BY <1>1, FS_Singleton
  <2> QED
    BY <2>1
<1>3. ASSUME NEW k \in Good PROVE k + 1 \in Good
  <2> SUFFICES ASSUME NEW T \in SUBSET S, Cardinality(T) = k + 2 PROVE HasMax(T)
    OBVIOUS
  <2>0. T # {}
    BY FS_EmptySet
  <2>1. PICK x \in T : TRUE
    BY <2>0
  <2>2. IsFiniteSet(T \ {x}) /\ Cardinality(T \ {x}) = k + 1
    BY <1>1, <2>1, FS_RemoveElement
  <2>3. PICK m \in T \ {x} : \A n \in T \ {x} : m >= n
    BY <1>3, <2>2
  <2>4. CASE m >= x
    BY <2>3, <2>4
  <2>5. CASE x >= m
    BY <2>1, <2>3, <2>5
  <2> QED
    BY <2>1, <2>3, <2>4, <2>5
<1>4. Good = Nat
  <2> HIDE DEF Good
  <2>1. Good \in SUBSET Nat
    BY DEF Good
  <2> QED
    BY <1>2, <1>3, <2>1, SetInduction
<1>5. Cardinality(S) # 0 /\ Cardinality(S) - 1 \in Good
  BY <1>1, <1>4, FS_EmptySet
<1>6. HasMax(S)
  BY <1>1, <1>5
<1> QED
  BY <1>6 DEF Max

-----------------------------------------------------------------------------
(* Sums: SumFunctionOnSet of the community modules.                         *)

\* The element the fold takes out of a set.
Taken(s) == CHOOSE x \in s : TRUE

\* One step of the fold, when g is the sum of the smaller sets.
SumStep(f, g, s) == IF s = {} THEN 0 ELSE f[Taken(s)] + g[s \ {Taken(s)}]

\* g solves the recursive equation of the fold on the sets of D.
SolvesSum(f, D, g) == g = [s \in D |-> SumStep(f, g, s)]

\* g is the sum of every subset of S.
SumsSubsets(f, S, g) == SolvesSum(f, SUBSET S, g)

\* The sum is what the solution of its equation gives for the whole set.
LEMMA SumUnfolds ==
    ASSUME NEW f, NEW S
    PROVE  SumFunctionOnSet(f, S) = (CHOOSE g : SumsSubsets(f, S, g))[S]
BY DEF SumsSubsets, SumFunctionOnSet, FoldFunctionOnSet, MapThenFoldSet, SolvesSum, SumStep, Taken

\* The set without the element taken from it is smaller.
LEMMA TakenFacts ==
    ASSUME NEW s, IsFiniteSet(s), s # {}
    PROVE  /\ Taken(s) \in s
           /\ IsFiniteSet(s \ {Taken(s)})
           /\ Cardinality(s) \in Nat
           /\ Cardinality(s \ {Taken(s)}) = Cardinality(s) - 1
<1>1. Taken(s) \in s
  BY DEF Taken
<1> QED
  BY <1>1, FS_RemoveElement, FS_CardinalityType

\* The equation of the fold has a solution on the subsets of a finite set.
LEMMA SumExists ==
    ASSUME NEW f, NEW S, IsFiniteSet(S)
    PROVE  \E g : SumsSubsets(f, S, g)
<1> DEFINE Small(n) == {s \in SUBSET S : Cardinality(s) <= n}
           Solved == {n \in Nat : \E g : SolvesSum(f, Small(n), g)}
<1>1. \A s \in SUBSET S : IsFiniteSet(s) /\ Cardinality(s) \in Nat /\ Cardinality(s) <= Cardinality(S)
  BY FS_Subset, FS_CardinalityType
<1>2. 0 \in Solved
  <2>1. Small(0) = {{}}
    BY <1>1, FS_EmptySet
  <2>2. SolvesSum(f, {{}}, [s \in {{}} |-> 0])
    BY DEF SolvesSum, SumStep
  <2> QED
    BY <2>1, <2>2
<1>3. ASSUME NEW n \in Solved PROVE n + 1 \in Solved
  <2>1. PICK g : SolvesSum(f, Small(n), g)
    OBVIOUS
  <2> DEFINE h == [s \in Small(n + 1) |-> SumStep(f, g, s)]
  <2>2. ASSUME NEW s \in Small(n + 1), s # {}
        PROVE  s \ {Taken(s)} \in Small(n) /\ s \ {Taken(s)} \in Small(n + 1)
    BY <1>1, <2>2, TakenFacts
  <2>3. ASSUME NEW s \in Small(n) PROVE g[s] = SumStep(f, g, s)
    BY <2>1, <2>3 DEF SolvesSum
  <2>4. ASSUME NEW s \in Small(n + 1) PROVE SumStep(f, h, s) = SumStep(f, g, s)
    <3>1. CASE s = {}
      BY <3>1 DEF SumStep
    <3>2. CASE s # {}
      <4>1. h[s \ {Taken(s)}] = g[s \ {Taken(s)}]
        BY <2>2, <2>3, <3>2
      <4> QED
        BY <3>2, <4>1 DEF SumStep
    <3> QED
      BY <3>1, <3>2
  <2>5. SolvesSum(f, Small(n + 1), h)
    BY <2>4 DEF SolvesSum
  <2> HIDE DEF h, Small
  <2>6. \E hh : SolvesSum(f, Small(n + 1), hh)
    BY <2>5
  <2> QED
    BY <2>6
<1>4. Solved = Nat
  <2>1. Solved \in SUBSET Nat
    OBVIOUS
  <2> HIDE DEF Solved
  <2> QED
    BY <1>2, <1>3, <2>1, SetInduction
<1>5. Cardinality(S) \in Nat
  BY FS_CardinalityType
<1>6. Small(Cardinality(S)) = SUBSET S
  BY <1>1
<1> HIDE DEF Small
<1>7. \E g : SolvesSum(f, Small(Cardinality(S)), g)
  BY <1>4, <1>5
<1> QED
  BY <1>6, <1>7 DEF SumsSubsets

\* Two solutions agree on the sets both are defined for.
LEMMA SumUnique ==
    ASSUME NEW f, NEW S, NEW g, SumsSubsets(f, S, g),
           NEW T \in SUBSET S, IsFiniteSet(T), NEW h, SumsSubsets(f, T, h)
    PROVE  g[T] = h[T]
<1> DEFINE Agree == {n \in Nat : \A s \in SUBSET T : Cardinality(s) = n => g[s] = h[s]}
<1>1. \A s \in SUBSET T : IsFiniteSet(s) /\ Cardinality(s) \in Nat
  BY FS_Subset, FS_CardinalityType
<1>2. \A s \in SUBSET T : g[s] = SumStep(f, g, s) /\ h[s] = SumStep(f, h, s)
  BY DEF SumsSubsets, SolvesSum
<1>3. 0 \in Agree
  BY <1>1, <1>2, FS_EmptySet DEF SumStep
<1>4. ASSUME NEW n \in Agree PROVE n + 1 \in Agree
  <2> SUFFICES ASSUME NEW s \in SUBSET T, Cardinality(s) = n + 1 PROVE g[s] = h[s]
    OBVIOUS
  <2>1. s # {}
    BY ONLY n \in Nat, Cardinality(s) = n + 1, FS_EmptySet
  <2>2. s \ {Taken(s)} \in SUBSET T /\ Cardinality(s \ {Taken(s)}) = n
    BY <1>1, <2>1, TakenFacts
  <2>3. g[s \ {Taken(s)}] = h[s \ {Taken(s)}]
    BY <2>2
  <2> QED
    BY <1>2, <2>1, <2>3 DEF SumStep
<1>5. Agree = Nat
  <2>1. Agree \in SUBSET Nat
    OBVIOUS
  <2> HIDE DEF Agree
  <2> QED
    BY <1>3, <1>4, <2>1, SetInduction
<1> QED
  BY <1>1, <1>5

\* The recursive equation of a sum.
LEMMA SumEquation ==
    ASSUME NEW f, NEW S, IsFiniteSet(S)
    PROVE  SumFunctionOnSet(f, S) =
              IF S = {} THEN 0
              ELSE f[Taken(S)] + SumFunctionOnSet(f, S \ {Taken(S)})
<1> DEFINE Solution(T) == CHOOSE g : SumsSubsets(f, T, g)
<1>1. ASSUME NEW T, IsFiniteSet(T)
      PROVE  SumsSubsets(f, T, Solution(T)) /\ SumFunctionOnSet(f, T) = Solution(T)[T]
  BY <1>1, SumExists, SumUnfolds
<1> HIDE DEF Solution
<1>2. Solution(S)[S] = SumStep(f, Solution(S), S)
  BY <1>1 DEF SumsSubsets, SolvesSum
<1>3. CASE S = {}
  BY <1>1, <1>2, <1>3 DEF SumStep
<1>4. CASE S # {}
  <2>1. PICK T : T = S \ {Taken(S)} /\ IsFiniteSet(T) /\ T \in SUBSET S
    BY <1>4, TakenFacts
  <2>2. PICK g, h : g = Solution(S) /\ h = Solution(T)
    OBVIOUS
  <2>3. SumsSubsets(f, S, g) /\ SumFunctionOnSet(f, S) = g[S]
    BY <1>1, <2>2
  <2>4. SumsSubsets(f, T, h) /\ SumFunctionOnSet(f, T) = h[T]
    BY <1>1, <2>1, <2>2
  <2>5. g[T] = h[T]
    BY <2>1, <2>3, <2>4, SumUnique
  <2> QED
    BY <1>2, <1>4, <2>1, <2>2, <2>3, <2>4, <2>5 DEF SumStep
<1> QED
  BY <1>3, <1>4

\* A sum of integers is an integer.
LEMMA SumInt ==
    ASSUME NEW f, NEW S, IsFiniteSet(S), \A x \in S : f[x] \in Int
    PROVE  SumFunctionOnSet(f, S) \in Int
<1> DEFINE Sum(T) == SumFunctionOnSet(f, T)
           Good == {n \in Nat : \A T \in SUBSET S : Cardinality(T) = n => Sum(T) \in Int}
<1>1. \A T \in SUBSET S : IsFiniteSet(T) /\ Cardinality(T) \in Nat
  BY FS_Subset, FS_CardinalityType
<1>2. \A T \in SUBSET S : Sum(T) = IF T = {} THEN 0 ELSE f[Taken(T)] + Sum(T \ {Taken(T)})
  BY <1>1, SumEquation
<1> HIDE DEF Sum
<1>3. 0 \in Good
  <2>1. \A T \in SUBSET S : Cardinality(T) = 0 => T = {}
    BY <1>1, FS_EmptySet
  <2>2. Sum({}) = 0
    BY <1>2
  <2> QED
    BY <2>1, <2>2
<1>4. ASSUME NEW n \in Good PROVE n + 1 \in Good
  <2> SUFFICES ASSUME NEW T \in SUBSET S, Cardinality(T) = n + 1 PROVE Sum(T) \in Int
    OBVIOUS
  <2>1. T # {}
    BY FS_EmptySet
  <2>2. Taken(T) \in T /\ Cardinality(T \ {Taken(T)}) = n
    BY <1>1, <2>1, TakenFacts
  <2>3. Sum(T \ {Taken(T)}) \in Int
    BY <2>2
  <2> QED
    BY <1>2, <2>1, <2>2, <2>3
<1>5. Good = Nat
  <2>1. Good \in SUBSET Nat
    OBVIOUS
  <2> HIDE DEF Good
  <2> QED
    BY <1>3, <1>4, <2>1, SetInduction
<1>6. Sum(S) \in Int
  BY <1>1, <1>5
<1> QED
  BY <1>6 DEF Sum

\* Any element may be taken out of a sum of integers.
LEMMA SumRemove ==
    ASSUME NEW f, NEW S, IsFiniteSet(S), \A x \in S : f[x] \in Int
    PROVE  \A x \in S : SumFunctionOnSet(f, S) = f[x] + SumFunctionOnSet(f, S \ {x})
<1> DEFINE Sum(T) == SumFunctionOnSet(f, T)
           Splits(T) == \A x \in T : Sum(T) = f[x] + Sum(T \ {x})
           Good == {n \in Nat : \A T \in SUBSET S : Cardinality(T) = n => Splits(T)}
<1>1. \A T \in SUBSET S : IsFiniteSet(T) /\ Cardinality(T) \in Nat
  BY FS_Subset, FS_CardinalityType
<1>2. \A T \in SUBSET S : Sum(T) = IF T = {} THEN 0 ELSE f[Taken(T)] + Sum(T \ {Taken(T)})
  BY <1>1, SumEquation
<1>3. \A T \in SUBSET S : Sum(T) \in Int
  BY <1>1, SumInt
<1> HIDE DEF Sum
<1>4. 0 \in Good
  <2>1. \A T \in SUBSET S : Cardinality(T) = 0 => T = {}
    BY <1>1, FS_EmptySet
  <2> QED
    BY <2>1
<1>5. ASSUME NEW n \in Good PROVE n + 1 \in Good
  <2> SUFFICES ASSUME NEW T \in SUBSET S, Cardinality(T) = n + 1, NEW x \in T
               PROVE  Sum(T) = f[x] + Sum(T \ {x})
    OBVIOUS
  <2>1. PICK t : t = Taken(T)
    OBVIOUS
  <2>2. t \in T /\ Sum(T) = f[t] + Sum(T \ {t})
    BY <1>1, <1>2, <2>1, TakenFacts
  <2>3. \A y \in T : Cardinality(T \ {y}) = n
    BY <1>1, FS_RemoveElement
  <2>4. \A y \in T : Splits(T \ {y})
    BY <2>3
  <2>5. CASE x = t
    BY <2>2, <2>5
  <2>6. CASE x # t
    <3>1. PICK U \in SUBSET S : U = (T \ {t}) \ {x} /\ U = (T \ {x}) \ {t}
      OBVIOUS
    <3>2. Sum(T \ {t}) = f[x] + Sum(U)
      BY <2>2, <2>4, <2>6, <3>1
    <3>3. Sum(T \ {x}) = f[t] + Sum(U)
      BY <2>2, <2>4, <2>6, <3>1
    <3>4. f[x] \in Int /\ f[t] \in Int /\ Sum(U) \in Int
      BY <1>3, <2>2
    <3> QED
      BY <2>2, <3>2, <3>3, <3>4
  <2> QED
    BY <2>5, <2>6
<1>6. Good = Nat
  <2>1. Good \in SUBSET Nat
    OBVIOUS
  <2> HIDE DEF Good
  <2> QED
    BY <1>4, <1>5, <2>1, SetInduction
<1>7. Splits(S)
  BY <1>1, <1>6
<1> QED
  BY <1>7 DEF Sum

\* Functions that agree on a set have the same sum over it.
LEMMA SumAgree ==
    ASSUME NEW f, NEW g, NEW S, IsFiniteSet(S), \A x \in S : f[x] = g[x]
    PROVE  SumFunctionOnSet(f, S) = SumFunctionOnSet(g, S)
<1> DEFINE Same == {n \in Nat : \A T \in SUBSET S :
                      Cardinality(T) = n => SumFunctionOnSet(f, T) = SumFunctionOnSet(g, T)}
<1>1. \A T \in SUBSET S : IsFiniteSet(T) /\ Cardinality(T) \in Nat
  BY FS_Subset, FS_CardinalityType
<1>2. 0 \in Same
  <2>1. \A T \in SUBSET S : Cardinality(T) = 0 => T = {}
    BY <1>1, FS_EmptySet
  <2>2. SumFunctionOnSet(f, {}) = 0 /\ SumFunctionOnSet(g, {}) = 0
    BY SumEquation, FS_EmptySet
  <2> QED
    BY <2>1, <2>2
<1>3. ASSUME NEW n \in Same PROVE n + 1 \in Same
  <2> SUFFICES ASSUME NEW T \in SUBSET S, Cardinality(T) = n + 1
               PROVE  SumFunctionOnSet(f, T) = SumFunctionOnSet(g, T)
    OBVIOUS
  <2>1. T # {}
    BY FS_EmptySet
  <2>2. Taken(T) \in T /\ Cardinality(T \ {Taken(T)}) = n
    BY <1>1, <2>1, TakenFacts
  <2>3. SumFunctionOnSet(f, T \ {Taken(T)}) = SumFunctionOnSet(g, T \ {Taken(T)})
    BY <2>2
  <2>4. f[Taken(T)] = g[Taken(T)]
    BY <2>2
  <2> QED
    BY <1>1, <2>1, <2>3, <2>4, SumEquation
<1>4. Same = Nat
  <2>1. Same \in SUBSET Nat
    OBVIOUS
  <2> HIDE DEF Same
  <2> QED
    BY <1>2, <1>3, <2>1, SetInduction
<1> QED
  BY <1>1, <1>4

\* The sum over a set with one more element, when the rest keeps its values.
LEMMA SumAdded ==
    ASSUME NEW f, NEW g, NEW S, NEW T, NEW x, IsFiniteSet(S), x \in T, S = T \ {x},
           \A y \in S : f[y] \in Int /\ g[y] = f[y], g[x] \in Int
    PROVE  /\ IsFiniteSet(T)
           /\ SumFunctionOnSet(f, S) \in Int
           /\ SumFunctionOnSet(g, T) = SumFunctionOnSet(f, S) + g[x]
<1>1. IsFiniteSet(T)
  <2>1. T = S \cup {x}
    OBVIOUS
  <2> QED
    BY <2>1, FS_AddElement
<1>2. \A y \in T : g[y] \in Int
  OBVIOUS
<1>3. SumFunctionOnSet(g, T) = g[x] + SumFunctionOnSet(g, S)
  BY <1>1, <1>2, SumRemove
<1>4. SumFunctionOnSet(g, S) = SumFunctionOnSet(f, S)
  BY SumAgree
<1>5. SumFunctionOnSet(f, S) \in Int
  BY SumInt
<1> QED
  BY <1>1, <1>2, <1>3, <1>4, <1>5

\* The sum over a set with one element less.
LEMMA SumTakenOut ==
    ASSUME NEW f, NEW g, NEW S, NEW T, NEW x, IsFiniteSet(S), x \in S, T = S \ {x},
           \A y \in S : f[y] \in Int, \A y \in T : g[y] = f[y]
    PROVE  /\ IsFiniteSet(T)
           /\ SumFunctionOnSet(f, S) \in Int
           /\ SumFunctionOnSet(g, T) = SumFunctionOnSet(f, S) - f[x]
<1>1. IsFiniteSet(T)
  BY FS_RemoveElement
<1>2. SumFunctionOnSet(f, S) = f[x] + SumFunctionOnSet(f, T)
  BY SumRemove
<1>3. SumFunctionOnSet(g, T) = SumFunctionOnSet(f, T)
  BY <1>1, SumAgree
<1>4. SumFunctionOnSet(f, S) \in Int /\ SumFunctionOnSet(f, T) \in Int
  BY <1>1, SumInt
<1> QED
  BY <1>1, <1>2, <1>3, <1>4

=============================================================================
