------------------------------ MODULE SumTheorems ------------------------------
(***************************************************************************)
(* Facts about SumFunctionOnSet of the community modules: the sum of f[x]  *)
(* over the elements x of a finite set.  The fold behind it takes elements *)
(* out in the order of CHOOSE; the facts are what is true of any order.    *)
(*                                                                         *)
(* Induction is by a smallest counterexample, with sets in the place of    *)
(* predicates.                                                             *)
(***************************************************************************)
EXTENDS Integers, FiniteSets, Functions, FiniteSetTheorems, WellFoundedInduction, TLAPS

\* A set of naturals that is not empty has a least element.
LEMMA LeastNatural ==
  ASSUME NEW T, T \subseteq Nat, T # {}
  PROVE  \E n \in T : \A m \in T : n <= m
<1>1. PICK n \in T : \A m \in T : <<m, n>> \notin OpToRel(<, Nat)
  BY NatLessThanWellFounded, WFMin, Zenon
<1>2. \A m \in T : ~(m < n)
  BY <1>1 DEF OpToRel
<1> QED
  BY <1>2

\* Among subsets of a finite set, one has no other of them inside.
LEMMA SmallestSubset ==
  ASSUME NEW S, IsFiniteSet(S), NEW C, C \subseteq SUBSET S, C # {}
  PROVE  \E s \in C : \A t \in C : t \subseteq s => t = s
<1> DEFINE T == {Cardinality(s) : s \in C}
<1>1. \A s \in C : IsFiniteSet(s) /\ Cardinality(s) \in Nat
  BY FS_Subset, FS_CardinalityType
<1>2. PICK n \in T : \A m \in T : n <= m
  <2>1. T \subseteq Nat /\ T # {}
    BY <1>1
  <2> HIDE DEF T
  <2> QED
    BY <2>1, LeastNatural
<1>3. PICK s \in C : Cardinality(s) = n
  BY <1>2
<1>4. ASSUME NEW t \in C, t \subseteq s, t # s
      PROVE  FALSE
  <2>1. Cardinality(t) < Cardinality(s)
    BY <1>1, <1>4, FS_Subset
  <2> QED
    BY <1>1, <1>2, <1>3, <2>1
<1> QED
  BY <1>4

-------------------------------------------------------------------------------
(***************************************************************************)
(* The fold satisfies its equation.                                        *)
(***************************************************************************)

FoldPick(s) == CHOOSE x \in s : TRUE

FoldStep(f, s, g) == IF s = {} THEN 0 ELSE f[FoldPick(s)] + g[s \ {FoldPick(s)}]

FoldSolution(f, S, g) == g = [s \in SUBSET S |-> FoldStep(f, s, g)]

\* The sum is the solution of the fold's equation.
LEMMA SumIsFold ==
  ASSUME NEW f, NEW S
  PROVE  SumFunctionOnSet(f, S) = (CHOOSE g : FoldSolution(f, S, g))[S]
BY DEF SumFunctionOnSet, FoldFunctionOnSet, MapThenFoldSet, FoldSolution, FoldStep, FoldPick

\* What the fold takes out of a set was in it.
LEMMA PickedIn == ASSUME NEW s, s # {} PROVE FoldPick(s) \in s
BY DEF FoldPick

\* Two solutions agree where both are defined.
LEMMA SolutionsAgree ==
  ASSUME NEW f, NEW S, NEW T, NEW g, NEW h, FoldSolution(f, S, g), FoldSolution(f, T, h),
         NEW U, IsFiniteSet(U), U \subseteq S, U \subseteq T
  PROVE  g[U] = h[U]
<1> DEFINE C == {s \in SUBSET U : g[s] # h[s]}
<1>1. ASSUME C # {} PROVE FALSE
  <2>1. PICK s \in C : \A t \in C : t \subseteq s => t = s
    <3>1. C \subseteq SUBSET U
      OBVIOUS
    <3> HIDE DEF C
    <3> QED
      BY <1>1, <3>1, SmallestSubset
  <2>2. s \in SUBSET S /\ s \in SUBSET T
    BY <2>1
  <2>3. g[s] = FoldStep(f, s, g) /\ h[s] = FoldStep(f, s, h)
    BY <2>2 DEF FoldSolution
  <2>4. s # {}
    BY <2>1, <2>3 DEF FoldStep
  <2>5. s \ {FoldPick(s)} \notin C
    BY <2>1, <2>4, PickedIn
  <2>6. g[s \ {FoldPick(s)}] = h[s \ {FoldPick(s)}]
    BY <2>1, <2>5
  <2> QED
    BY <2>1, <2>3, <2>4, <2>6 DEF FoldStep
<1> QED
  BY <1>1

\* Every finite set has a solution.
LEMMA SolutionExists ==
  ASSUME NEW f, NEW S, IsFiniteSet(S)
  PROVE  \E g : FoldSolution(f, S, g)
<1> DEFINE C == {s \in SUBSET S : ~ \E g : FoldSolution(f, s, g)}
<1>1. ASSUME C # {} PROVE FALSE
  <2>1. PICK s \in C : \A t \in C : t \subseteq s => t = s
    <3>1. C \subseteq SUBSET S
      OBVIOUS
    <3> HIDE DEF C
    <3> QED
      BY <1>1, <3>1, SmallestSubset
  <2> DEFINE V(t) == CHOOSE g : FoldSolution(f, t, g)
             h == [t \in SUBSET s |->
                     IF t = {} THEN 0
                     ELSE f[FoldPick(t)] + V(t \ {FoldPick(t)})[t \ {FoldPick(t)}]]
  <2>2. ASSUME NEW t, t \subseteq s, t # s
        PROVE  FoldSolution(f, t, V(t)) /\ IsFiniteSet(t)
    <3>1. t \in SUBSET S /\ t \notin C
      BY <2>1, <2>2
    <3>2. \E g : FoldSolution(f, t, g)
      BY <3>1
    <3> QED
      BY <3>1, <3>2, FS_Subset
  <2>3. ASSUME NEW t, t \subseteq s, t # s
        PROVE  h[t] = V(t)[t]
    <3> DEFINE u == t \ {FoldPick(t)}
    <3>1. V(t)[t] = FoldStep(f, t, V(t))
      <4>1. FoldSolution(f, t, V(t))
        BY <2>2, <2>3
      <4> HIDE DEF V
      <4> QED
        BY <4>1 DEF FoldSolution
    <3>2. CASE t = {}
      BY <3>1, <3>2 DEF FoldStep
    <3>3. CASE t # {}
      <4>1. u \subseteq s /\ u # s /\ u \subseteq t
        BY <2>3, <3>3, PickedIn
      <4>2. FoldSolution(f, u, V(u)) /\ IsFiniteSet(u) /\ FoldSolution(f, t, V(t))
        BY <2>2, <2>3, <4>1
      <4> HIDE DEF V, u
      <4>3. V(u)[u] = V(t)[u]
        BY <4>1, <4>2, SolutionsAgree
      <4> USE DEF u
      <4> QED
        BY <2>3, <3>1, <3>3, <4>3 DEF FoldStep
    <3> QED
      BY <3>2, <3>3
  <2>4. ASSUME NEW t \in SUBSET s
        PROVE  h[t] = FoldStep(f, t, h)
    <3>1. CASE t = {}
      BY <3>1 DEF FoldStep
    <3>2. CASE t # {}
      <4>1. t \ {FoldPick(t)} \subseteq s /\ t \ {FoldPick(t)} # s
        BY <2>4, <3>2, PickedIn
      <4>2. h[t \ {FoldPick(t)}] = V(t \ {FoldPick(t)})[t \ {FoldPick(t)}]
        BY <4>1, <2>3
      <4> QED
        BY <3>2, <4>2 DEF FoldStep
    <3> QED
      BY <3>1, <3>2
  <2>5. FoldSolution(f, s, h)
    BY <2>4 DEF FoldSolution
  <2> QED
    BY <2>1, <2>5
<1> QED
  BY <1>1

\* The sum takes the elements one by one.
LEMMA SumUnfolds ==
  ASSUME NEW f, NEW S, IsFiniteSet(S)
  PROVE  SumFunctionOnSet(f, S) =
           IF S = {} THEN 0
           ELSE f[FoldPick(S)] + SumFunctionOnSet(f, S \ {FoldPick(S)})
<1> DEFINE U == S \ {FoldPick(S)}
           g == CHOOSE g : FoldSolution(f, S, g)
           h == CHOOSE h : FoldSolution(f, U, h)
<1>1. FoldSolution(f, S, g)
  BY SolutionExists
<1>2. IsFiniteSet(U)
  BY FS_RemoveElement
<1>3. FoldSolution(f, U, h)
  BY <1>2, SolutionExists
<1>4. g[U] = h[U]
  <2> HIDE DEF g, h
  <2> QED
    BY <1>1, <1>2, <1>3, SolutionsAgree
<1>5. g[S] = FoldStep(f, S, g)
  <2> HIDE DEF g
  <2> QED
    BY <1>1 DEF FoldSolution
<1>6. SumFunctionOnSet(f, S) = g[S] /\ SumFunctionOnSet(f, U) = h[U]
  BY SumIsFold
<1> HIDE DEF g, h
<1> QED
  BY <1>4, <1>5, <1>6 DEF FoldStep

-------------------------------------------------------------------------------
(***************************************************************************)
(* What the rest of the project uses.                                      *)
(***************************************************************************)

\* The sum over no element.
LEMMA SumOfNothing == ASSUME NEW f PROVE SumFunctionOnSet(f, {}) = 0
BY SumUnfolds, FS_EmptySet

\* A sum of integers is an integer.
LEMMA SumIsInt ==
  ASSUME NEW f, NEW S, IsFiniteSet(S), \A x \in S : f[x] \in Int
  PROVE  SumFunctionOnSet(f, S) \in Int
<1> DEFINE C == {s \in SUBSET S : SumFunctionOnSet(f, s) \notin Int}
<1>1. ASSUME C # {} PROVE FALSE
  <2>1. PICK s \in C : \A t \in C : t \subseteq s => t = s
    <3>1. C \subseteq SUBSET S
      OBVIOUS
    <3> HIDE DEF C
    <3> QED
      BY <1>1, <3>1, SmallestSubset
  <2>2. IsFiniteSet(s)
    BY <2>1, FS_Subset
  <2>3. s # {}
    <3>1. SumFunctionOnSet(f, s) \notin Int
      BY <2>1
    <3> QED
      BY <3>1, SumOfNothing
  <2>4. SumFunctionOnSet(f, s \ {FoldPick(s)}) \in Int
    BY <2>1, <2>3, PickedIn
  <2>5. f[FoldPick(s)] \in Int
    BY <2>1, <2>3, PickedIn
  <2> QED
    BY <2>1, <2>2, <2>3, <2>4, <2>5, SumUnfolds
<1> QED
  BY <1>1

\* Any element may be taken out first.
LEMMA SumWithout ==
  ASSUME NEW f, NEW S, IsFiniteSet(S), \A y \in S : f[y] \in Int, NEW x \in S
  PROVE  SumFunctionOnSet(f, S) = f[x] + SumFunctionOnSet(f, S \ {x})
<1> DEFINE Sum(s) == SumFunctionOnSet(f, s)
           C == {s \in SUBSET S : \E y \in s : Sum(s) # f[y] + Sum(s \ {y})}
<1>1. ASSUME C # {} PROVE FALSE
  <2>1. PICK s \in C : \A t \in C : t \subseteq s => t = s
    <3>1. C \subseteq SUBSET S
      OBVIOUS
    <3> HIDE DEF C
    <3> QED
      BY <1>1, <3>1, SmallestSubset
  <2>2. PICK y \in s : Sum(s) # f[y] + Sum(s \ {y})
    BY <2>1
  <2> DEFINE c == FoldPick(s)
  <2>3. s \subseteq S /\ s # {} /\ c \in s
    BY <2>1, <2>2, PickedIn
  <2>4. \A t : t \subseteq s => IsFiniteSet(t) /\ Sum(t) \in Int
    BY <2>3, FS_Subset, SumIsInt
  <2>5. Sum(s) = f[c] + Sum(s \ {c})
    BY <2>3, <2>4, SumUnfolds
  <2>6. c # y
    BY <2>2, <2>5
  <2>7. s \ {c} \notin C /\ s \ {y} \notin C
    BY <2>1, <2>2, <2>3
  <2>8. Sum(s \ {c}) = f[y] + Sum((s \ {c}) \ {y})
    BY <2>2, <2>3, <2>6, <2>7
  <2>9. Sum(s \ {y}) = f[c] + Sum((s \ {y}) \ {c})
    BY <2>2, <2>3, <2>6, <2>7
  <2>10. (s \ {c}) \ {y} = (s \ {y}) \ {c}
    OBVIOUS
  <2>11. f[c] \in Int /\ f[y] \in Int /\ Sum((s \ {y}) \ {c}) \in Int
    BY <2>2, <2>3, <2>4
  <2>12. Sum(s) # f[y] + Sum(s \ {y})
    BY <2>2
  <2> DEFINE rest == Sum((s \ {y}) \ {c})
  <2>13. Sum(s \ {c}) = f[y] + rest /\ Sum(s \ {y}) = f[c] + rest
    BY <2>8, <2>9, <2>10
  <2>14. f[c] \in Int /\ f[y] \in Int /\ rest \in Int
    BY <2>11
  <2> HIDE DEF Sum, c, C, rest
  <2> QED
    BY <2>5, <2>12, <2>13, <2>14
<1> QED
  BY <1>1

\* Only the values on the set matter.
LEMMA SumOfEqual ==
  ASSUME NEW f, NEW g, NEW S, IsFiniteSet(S), \A x \in S : f[x] = g[x]
  PROVE  SumFunctionOnSet(f, S) = SumFunctionOnSet(g, S)
<1> DEFINE C == {s \in SUBSET S : SumFunctionOnSet(f, s) # SumFunctionOnSet(g, s)}
<1>1. ASSUME C # {} PROVE FALSE
  <2>1. PICK s \in C : \A t \in C : t \subseteq s => t = s
    <3>1. C \subseteq SUBSET S
      OBVIOUS
    <3> HIDE DEF C
    <3> QED
      BY <1>1, <3>1, SmallestSubset
  <2>2. IsFiniteSet(s) /\ s # {}
    <3>1. s \subseteq S /\ SumFunctionOnSet(f, s) # SumFunctionOnSet(g, s)
      BY <2>1
    <3> HIDE DEF C
    <3> QED
      BY <3>1, FS_Subset, SumOfNothing
  <2>3. FoldPick(s) \in S /\ s \ {FoldPick(s)} \notin C
    BY <2>1, <2>2, PickedIn
  <2>4. SumFunctionOnSet(f, s \ {FoldPick(s)}) = SumFunctionOnSet(g, s \ {FoldPick(s)})
    BY <2>1, <2>3
  <2>5. f[FoldPick(s)] = g[FoldPick(s)]
    BY <2>3
  <2> QED
    BY <2>1, <2>2, <2>4, <2>5, SumUnfolds
<1> QED
  BY <1>1

\* Larger values make no smaller sum.
LEMMA SumAtMost ==
  ASSUME NEW f, NEW g, NEW S, IsFiniteSet(S),
         \A x \in S : f[x] \in Int /\ g[x] \in Int /\ f[x] <= g[x]
  PROVE  SumFunctionOnSet(f, S) <= SumFunctionOnSet(g, S)
<1> DEFINE C == {s \in SUBSET S : ~(SumFunctionOnSet(f, s) <= SumFunctionOnSet(g, s))}
<1>1. ASSUME C # {} PROVE FALSE
  <2>1. PICK s \in C : \A t \in C : t \subseteq s => t = s
    <3>1. C \subseteq SUBSET S
      OBVIOUS
    <3> HIDE DEF C
    <3> QED
      BY <1>1, <3>1, SmallestSubset
  <2>2. IsFiniteSet(s) /\ s # {}
    <3>1. s \subseteq S /\ ~(SumFunctionOnSet(f, s) <= SumFunctionOnSet(g, s))
      BY <2>1
    <3> HIDE DEF C
    <3>2. SumFunctionOnSet(f, {}) <= SumFunctionOnSet(g, {})
      <4>1. SumFunctionOnSet(f, {}) = 0 /\ SumFunctionOnSet(g, {}) = 0
        BY SumOfNothing
      <4> QED
        BY <4>1
    <3>3. s # {}
      BY <3>1, <3>2
    <3> QED
      BY <3>1, <3>3, FS_Subset
  <2> DEFINE c == FoldPick(s)
             u == s \ {c}
  <2>3. c \in s /\ c \in S /\ u \notin C /\ u \subseteq S
    BY <2>1, <2>2, PickedIn
  <2>4. SumFunctionOnSet(f, u) <= SumFunctionOnSet(g, u)
    BY <2>1, <2>3
  <2>5. IsFiniteSet(u)
    BY <2>2, FS_Subset
  <2>6. SumFunctionOnSet(f, u) \in Int /\ SumFunctionOnSet(g, u) \in Int
    <3> HIDE DEF u
    <3> QED
      BY <2>3, <2>5, SumIsInt
  <2>7. f[c] \in Int /\ g[c] \in Int /\ f[c] <= g[c]
    BY <2>3
  <2>8. /\ SumFunctionOnSet(f, s) = f[c] + SumFunctionOnSet(f, u)
        /\ SumFunctionOnSet(g, s) = g[c] + SumFunctionOnSet(g, u)
    BY <2>2, SumUnfolds
  <2>9. ~(SumFunctionOnSet(f, s) <= SumFunctionOnSet(g, s))
    BY <2>1
  <2> HIDE DEF c, u
  <2> QED
    BY <2>4, <2>6, <2>7, <2>8, <2>9
<1> QED
  BY <1>1

\* An element more adds its value.
LEMMA SumWith ==
  ASSUME NEW f, NEW S, IsFiniteSet(S), NEW x, x \notin S, \A y \in S \cup {x} : f[y] \in Int
  PROVE  SumFunctionOnSet(f, S \cup {x}) = f[x] + SumFunctionOnSet(f, S)
<1>1. IsFiniteSet(S \cup {x})
  BY FS_AddElement
<1>2. (S \cup {x}) \ {x} = S
  OBVIOUS
<1> DEFINE T == S \cup {x}
<1>3. x \in T /\ IsFiniteSet(T) /\ T \ {x} = S
  BY <1>1, <1>2
<1> HIDE DEF T
<1> QED
  BY <1>3, SumWithout DEF T

\* A change at one element changes the sum by as much.
LEMMA SumChanges ==
  ASSUME NEW f, NEW g, NEW S, IsFiniteSet(S), NEW x \in S,
         \A y \in S : f[y] \in Int /\ g[y] \in Int,
         \A y \in S \ {x} : g[y] = f[y]
  PROVE  SumFunctionOnSet(g, S) = SumFunctionOnSet(f, S) + g[x] - f[x]
<1> DEFINE T == S \ {x}
<1>1. IsFiniteSet(T)
  BY FS_RemoveElement
<1>2. /\ SumFunctionOnSet(f, S) = f[x] + SumFunctionOnSet(f, T)
      /\ SumFunctionOnSet(g, S) = g[x] + SumFunctionOnSet(g, T)
  BY SumWithout
<1>3. \A y \in T : f[y] = g[y] /\ f[y] \in Int
  OBVIOUS
<1>4. f[x] \in Int /\ g[x] \in Int
  OBVIOUS
<1> HIDE DEF T
<1>5. SumFunctionOnSet(f, T) = SumFunctionOnSet(g, T) /\ SumFunctionOnSet(f, T) \in Int
  BY <1>1, <1>3, SumOfEqual, SumIsInt
<1> QED
  BY <1>2, <1>4, <1>5

\* A sum of zeros.
LEMMA SumOfZeros ==
  ASSUME NEW f, NEW S, IsFiniteSet(S), \A x \in S : f[x] = 0
  PROVE  SumFunctionOnSet(f, S) = 0
<1> DEFINE C == {s \in SUBSET S : SumFunctionOnSet(f, s) # 0}
<1>1. ASSUME C # {} PROVE FALSE
  <2>1. PICK s \in C : \A t \in C : t \subseteq s => t = s
    <3>1. C \subseteq SUBSET S
      OBVIOUS
    <3> HIDE DEF C
    <3> QED
      BY <1>1, <3>1, SmallestSubset
  <2>2. SumFunctionOnSet(f, s) # 0 /\ s \subseteq S
    BY <2>1
  <2>3. s # {} /\ IsFiniteSet(s)
    BY <2>2, SumOfNothing, FS_Subset
  <2> DEFINE c == FoldPick(s)
             u == s \ {c}
  <2>4. c \in s /\ c \in S /\ u \notin C /\ u \in SUBSET S
    BY <2>1, <2>2, <2>3, PickedIn
  <2>5. SumFunctionOnSet(f, u) = 0 /\ f[c] = 0
    BY <2>4
  <2>6. SumFunctionOnSet(f, s) = f[c] + SumFunctionOnSet(f, u)
    BY <2>3, SumUnfolds
  <2> HIDE DEF c, u
  <2> QED
    BY <2>2, <2>5, <2>6
<1> QED
  BY <1>1

\* A sum over one element.
LEMMA SumOfOne ==
  ASSUME NEW f, NEW x, f[x] \in Int
  PROVE  SumFunctionOnSet(f, {x}) = f[x]
<1>1. IsFiniteSet({x}) /\ {x} \ {x} = {} /\ x \in {x}
  BY FS_Singleton
<1>2. SumFunctionOnSet(f, {x}) = f[x] + SumFunctionOnSet(f, {x} \ {x})
  BY <1>1, SumWithout
<1> QED
  BY <1>1, <1>2, SumOfNothing

\* A sum of naturals is a natural, and no smaller than any of them.
LEMMA SumIsNat ==
  ASSUME NEW f, NEW S, IsFiniteSet(S), \A x \in S : f[x] \in Nat
  PROVE  /\ SumFunctionOnSet(f, S) \in Nat
         /\ \A x \in S : f[x] <= SumFunctionOnSet(f, S)
<1> DEFINE z == [x \in S |-> 0]
<1>1. ASSUME NEW T, T \subseteq S
      PROVE  SumFunctionOnSet(f, T) \in Nat
  <2>1. IsFiniteSet(T)
    BY <1>1, FS_Subset
  <2>2. \A x \in T : z[x] \in Int /\ f[x] \in Int /\ z[x] <= f[x] /\ z[x] = 0
    BY <1>1
  <2> HIDE DEF z
  <2>3. SumFunctionOnSet(z, T) <= SumFunctionOnSet(f, T)
    BY <2>1, <2>2, SumAtMost
  <2>4. SumFunctionOnSet(z, T) = 0 /\ SumFunctionOnSet(f, T) \in Int
    BY <2>1, <2>2, SumOfZeros, SumIsInt
  <2> QED
    BY <2>3, <2>4
<1>2. ASSUME NEW x \in S
      PROVE  f[x] <= SumFunctionOnSet(f, S)
  <2>1. SumFunctionOnSet(f, S) = f[x] + SumFunctionOnSet(f, S \ {x})
    BY SumWithout
  <2>2. SumFunctionOnSet(f, S \ {x}) \in Nat
    BY <1>1
  <2>3. f[x] \in Nat
    OBVIOUS
  <2> QED
    BY <2>1, <2>2, <2>3
<1> QED
  BY <1>1, <1>2

===============================================================================
