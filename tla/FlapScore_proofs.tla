-------------------------- MODULE FlapScore_proofs --------------------------
(***************************************************************************)
(* What FlapScore and Rollup promise, for any metrics, rollups and         *)
(* lateness and every lookback and threshold: no query sees a point that   *)
(* the other cannot place, rollups divide the points as far as they are    *)
(* equally late, a punctual one is the sum of all that messages have ever  *)
(* left, few points never alarm however scores are rounded, and a steady   *)
(* router alarms only by a rollup.                                         *)
(***************************************************************************)
EXTENDS FlapScore, FiniteSetTheorems, TLAPS

-----------------------------------------------------------------------------
\* Sums over finite sets.  The theorems of the library that prove such facts by
\* induction or recursion take an operator as a parameter, so the induction here is
\* over a set of subsets, with the well-founded order of strict inclusion.

\* Induction over the subsets of a finite set.  The members of G are what holds.
LEMMA SetInduction ==
  ASSUME NEW S, IsFiniteSet(S), NEW G,
         \A T \in SUBSET S : (\A x \in T : T \ {x} \in G) => T \in G
  PROVE  S \in G
<1> DEFINE Bad == (SUBSET S) \ G
<1>1. SUFFICES ASSUME Bad # {} PROVE FALSE
  OBVIOUS
<1>2. IsWellFoundedOn(StrictSubsetOrdering(S), SUBSET S)
  BY FS_StrictSubsetOrderingWellFounded, FS_FiniteSubsetsOfFinite
<1>3. PICK T \in Bad : \A U \in Bad : <<U, T>> \notin StrictSubsetOrdering(S)
  <2> HIDE DEF Bad
  <2>1. Bad \subseteq SUBSET S
    BY DEF Bad
  <2>. QED
    BY <1>1, <1>2, <2>1, WFMin
<1>4. PICK x \in T : T \ {x} \in Bad
  OBVIOUS
<1>5. <<T \ {x}, T>> \in StrictSubsetOrdering(S)
  BY <1>4 DEF StrictSubsetOrdering
<1>. QED
  BY <1>3, <1>4, <1>5

\* The element that a fold takes first.
Pick(T) == CHOOSE x \in T : TRUE

\* It is an element.
LEMMA PickIn == \A T : T # {} => Pick(T) \in T
BY DEF Pick

\* g solves the recursive equation of a sum over the subsets in D.
Solves(g, f, D) ==
  g = [T \in D |-> IF T = {} THEN 0 ELSE f[Pick(T)] + g[T \ {Pick(T)}]]

\* What the fold means by that equation.
Solution(f, S) == CHOOSE g : Solves(g, f, SUBSET S)

\* The fold of the community modules is the value of such a solution.
LEMMA SumIsSolution ==
  ASSUME NEW f, NEW S PROVE SumFunctionOnSet(f, S) = Solution(f, S)[S]
BY DEF SumFunctionOnSet, FoldFunctionOnSet, MapThenFoldSet, Solution, Solves, Pick

\* Two solutions agree wherever both are defined.
LEMMA SolutionUnique ==
  ASSUME NEW f, NEW D, NEW E, NEW g, NEW h, Solves(g, f, D), Solves(h, f, E),
         NEW S, IsFiniteSet(S), SUBSET S \subseteq D, SUBSET S \subseteq E
  PROVE  g[S] = h[S]
<1> DEFINE G == {T \in SUBSET S : g[T] = h[T]}
<1>1. ASSUME NEW T \in SUBSET S, \A x \in T : T \ {x} \in G
      PROVE  T \in G
  <2>1. /\ g[T] = IF T = {} THEN 0 ELSE f[Pick(T)] + g[T \ {Pick(T)}]
        /\ h[T] = IF T = {} THEN 0 ELSE f[Pick(T)] + h[T \ {Pick(T)}]
    <3>1. T \in D /\ T \in E
      OBVIOUS
    <3>. QED
      BY <3>1 DEF Solves
  <2>. QED
    BY <1>1, <2>1, PickIn
<1> HIDE DEF G
<1>2. S \in G
  BY <1>1, SetInduction
<1>. QED
  BY <1>2 DEF G

\* A solution for a set is one for each of its subsets.
LEMMA SolutionRestricts ==
  ASSUME NEW f, NEW S, NEW g, Solves(g, f, SUBSET S), NEW T \in SUBSET S
  PROVE  Solves([U \in SUBSET T |-> g[U]], f, SUBSET T)
<1> DEFINE h == [U \in SUBSET T |-> g[U]]
<1>1. ASSUME NEW U \in SUBSET T
      PROVE  h[U] = IF U = {} THEN 0 ELSE f[Pick(U)] + h[U \ {Pick(U)}]
  <2>1. U \in SUBSET S /\ U \ {Pick(U)} \in SUBSET T
    OBVIOUS
  <2>2. g[U] = IF U = {} THEN 0 ELSE f[Pick(U)] + g[U \ {Pick(U)}]
    BY <2>1 DEF Solves
  <2>. QED
    BY <2>1, <2>2
<1>. QED
  BY <1>1 DEF Solves

\* The equation has a solution for every finite set.
LEMMA SolutionExists ==
  ASSUME NEW f, NEW S, IsFiniteSet(S)
  PROVE  Solves(Solution(f, S), f, SUBSET S)
<1> DEFINE Solvable(T) == Solves(Solution(f, T), f, SUBSET T)
           G == {T \in SUBSET S : Solvable(T)}
<1>1. ASSUME NEW T, NEW g, Solves(g, f, SUBSET T)
      PROVE  Solvable(T)
  BY <1>1 DEF Solution
<1>2. ASSUME NEW T \in SUBSET S, \A x \in T : T \ {x} \in G
      PROVE  T \in G
  <2> DEFINE Value(U) == Solution(f, U)[U]
             g == [U \in SUBSET T |-> IF U = {} THEN 0
                                      ELSE f[Pick(U)] + Value(U \ {Pick(U)})]
  <2>1. ASSUME NEW W \in SUBSET T, W # T
        PROVE  Solvable(W)
    <3>1. PICK x \in T : x \notin W
      BY <2>1
    <3>2. Solvable(T \ {x})
      BY <1>2
    <3>3. W \in SUBSET (T \ {x})
      BY <3>1
    <3>. QED
      BY <3>2, <3>3, <1>1, SolutionRestricts
  <2>2. ASSUME NEW W \in SUBSET T, W # T
        PROVE  g[W] = Value(W)
    <3>1. Solvable(W)
      BY <2>1, <2>2
    <3>2. Value(W) = IF W = {} THEN 0 ELSE f[Pick(W)] + Solution(f, W)[W \ {Pick(W)}]
      BY <3>1 DEF Solves
    <3>3. ASSUME W # {}
          PROVE  Solution(f, W)[W \ {Pick(W)}] = Value(W \ {Pick(W)})
      <4>1. Pick(W) \in W
        BY <3>3, PickIn
      <4> DEFINE V == W \ {Pick(W)}
      <4>2. V \in SUBSET T /\ V # T /\ V \in SUBSET W /\ SUBSET V \subseteq SUBSET W
        BY <4>1
      <4>3. Solvable(V)
        BY <2>1, <4>2
      <4>4. IsFiniteSet(V)
        <5>1. V \in SUBSET S
          BY <4>2
        <5>. QED
          BY <5>1, FS_Subset
      <4> HIDE DEF V
      <4>. QED
        BY <3>1, <4>2, <4>3, <4>4, SolutionUnique DEF V
    <3>. QED
      BY <3>2, <3>3
  <2>3. ASSUME NEW U \in SUBSET T
        PROVE  g[U] = IF U = {} THEN 0 ELSE f[Pick(U)] + g[U \ {Pick(U)}]
    <3>1. CASE U = {}
      BY <3>1
    <3>2. CASE U # {}
      <4>1. Pick(U) \in U
        BY <3>2, PickIn
      <4>2. U \ {Pick(U)} \in SUBSET T /\ U \ {Pick(U)} # T
        BY <4>1
      <4>3. g[U \ {Pick(U)}] = Value(U \ {Pick(U)})
        BY <2>2, <4>2
      <4>4. g[U] = f[Pick(U)] + Value(U \ {Pick(U)})
        BY <3>2
      <4> HIDE DEF g, Value
      <4>. QED
        BY <3>2, <4>3, <4>4
    <3>. QED
      BY <3>1, <3>2
  <2>4. Solves(g, f, SUBSET T)
    <3>1. g = [U \in SUBSET T |-> g[U]]
      OBVIOUS
    <3> HIDE DEF g
    <3>. QED
      BY <2>3, <3>1 DEF Solves
  <2> HIDE DEF g
  <2>. QED
    BY <1>1, <2>4
<1> HIDE DEF G
<1>3. S \in G
  BY <1>2, SetInduction
<1>. QED
  BY <1>3 DEF G

\* The equation of a sum over a finite set.
LEMMA SumEquation ==
  ASSUME NEW f, NEW S, IsFiniteSet(S)
  PROVE  SumFunctionOnSet(f, S) =
           IF S = {} THEN 0
           ELSE f[Pick(S)] + SumFunctionOnSet(f, S \ {Pick(S)})
<1> DEFINE W == S \ {Pick(S)}
<1>1. IsFiniteSet(W) /\ SUBSET W \subseteq SUBSET S
  BY FS_RemoveElement
<1>2. Solves(Solution(f, S), f, SUBSET S) /\ Solves(Solution(f, W), f, SUBSET W)
  BY <1>1, SolutionExists
<1>3. Solution(f, S)[W] = Solution(f, W)[W]
  <2> HIDE DEF W
  <2>. QED
    BY <1>1, <1>2, SolutionUnique
<1>4. Solution(f, S)[S] = IF S = {} THEN 0 ELSE f[Pick(S)] + Solution(f, S)[W]
  BY <1>2 DEF Solves
<1>. QED
  BY <1>3, <1>4, SumIsSolution

\* Nothing sums to 0.
LEMMA SumEmpty == \A f : SumFunctionOnSet(f, {}) = 0
BY SumEquation, FS_EmptySet

\* Integers sum to an integer.
LEMMA SumType ==
  ASSUME NEW f, NEW S, IsFiniteSet(S), \A x \in S : f[x] \in Int
  PROVE  SumFunctionOnSet(f, S) \in Int
<1> DEFINE G == {T \in SUBSET S : SumFunctionOnSet(f, T) \in Int}
<1>1. ASSUME NEW T \in SUBSET S, \A x \in T : T \ {x} \in G
      PROVE  T \in G
  <2>1. SumFunctionOnSet(f, T) =
          IF T = {} THEN 0 ELSE f[Pick(T)] + SumFunctionOnSet(f, T \ {Pick(T)})
    BY FS_Subset, SumEquation
  <2>2. CASE T # {}
    <3>1. f[Pick(T)] \in Int /\ SumFunctionOnSet(f, T \ {Pick(T)}) \in Int
      BY <1>1, <2>2, PickIn
    <3>. QED
      BY <2>1, <2>2, <3>1
  <2>. QED
    BY <2>1, <2>2
<1> HIDE DEF G
<1>2. S \in G
  BY <1>1, SetInduction
<1>. QED
  BY <1>2 DEF G

\* Any element may be taken first.
LEMMA SumRemove ==
  ASSUME NEW f, NEW S, IsFiniteSet(S), \A x \in S : f[x] \in Int, NEW x \in S
  PROVE  SumFunctionOnSet(f, S) = f[x] + SumFunctionOnSet(f, S \ {x})
<1> DEFINE Sum(T) == SumFunctionOnSet(f, T)
           G == {T \in SUBSET S : \A y \in T : Sum(T) = f[y] + Sum(T \ {y})}
<1>0. \A T \in SUBSET S : IsFiniteSet(T) /\ Sum(T) \in Int
  BY FS_Subset, SumType
<1>1. ASSUME NEW T \in SUBSET S, \A y \in T : T \ {y} \in G, NEW y \in T
      PROVE  Sum(T) = f[y] + Sum(T \ {y})
  <2> DEFINE p == Pick(T)
  <2>1. p \in T /\ Sum(T) = f[p] + Sum(T \ {p})
    BY <1>0, SumEquation, PickIn
  <2>2. CASE p = y
    BY <2>1, <2>2
  <2>3. CASE p # y
    <3> HIDE DEF p
    <3>1. Sum(T \ {p}) = f[y] + Sum((T \ {p}) \ {y})
      <4>1. T \ {p} \in G /\ y \in T \ {p}
        BY <1>1, <2>1, <2>3
      <4> HIDE DEF Sum
      <4>. QED
        BY <4>1
    <3>2. Sum(T \ {y}) = f[p] + Sum((T \ {y}) \ {p})
      <4>1. T \ {y} \in G /\ p \in T \ {y}
        BY <1>1, <2>1, <2>3
      <4> HIDE DEF Sum
      <4>. QED
        BY <4>1
    <3>3. (T \ {y}) \ {p} = (T \ {p}) \ {y}
      OBVIOUS
    <3>4. f[p] \in Int /\ f[y] \in Int /\ Sum((T \ {p}) \ {y}) \in Int
      BY <1>0, <2>1
    <3>5. Sum(T) = f[p] + Sum(T \ {p})
      BY <2>1
    <3>6. Sum((T \ {y}) \ {p}) = Sum((T \ {p}) \ {y})
      BY <3>3
    <3> HIDE DEF Sum, G
    <3>. QED
      BY <3>1, <3>2, <3>4, <3>5, <3>6
  <2>. QED
    BY <2>2, <2>3
<1>2. ASSUME NEW T \in SUBSET S, \A y \in T : T \ {y} \in G
      PROVE  T \in G
  BY <1>1, <1>2
<1> HIDE DEF G
<1>3. S \in G
  BY <1>2, SetInduction
<1>. QED
  BY <1>3 DEF G

\* The sum is that of the elements and not of the function.
LEMMA SumAgree ==
  ASSUME NEW f, NEW g, NEW S, IsFiniteSet(S), \A x \in S : f[x] = g[x]
  PROVE  SumFunctionOnSet(f, S) = SumFunctionOnSet(g, S)
<1> DEFINE G == {T \in SUBSET S : SumFunctionOnSet(f, T) = SumFunctionOnSet(g, T)}
<1>1. ASSUME NEW T \in SUBSET S, \A x \in T : T \ {x} \in G
      PROVE  T \in G
  <2>1. /\ SumFunctionOnSet(f, T) =
             IF T = {} THEN 0 ELSE f[Pick(T)] + SumFunctionOnSet(f, T \ {Pick(T)})
        /\ SumFunctionOnSet(g, T) =
             IF T = {} THEN 0 ELSE g[Pick(T)] + SumFunctionOnSet(g, T \ {Pick(T)})
    BY FS_Subset, SumEquation
  <2>2. CASE T # {}
    <3>1. /\ f[Pick(T)] = g[Pick(T)]
          /\ SumFunctionOnSet(f, T \ {Pick(T)}) = SumFunctionOnSet(g, T \ {Pick(T)})
      BY <1>1, <2>2, PickIn
    <3>. QED
      BY <2>1, <2>2, <3>1
  <2>. QED
    BY <2>1, <2>2
<1> HIDE DEF G
<1>2. S \in G
  BY <1>1, SetInduction
<1>. QED
  BY <1>2 DEF G

\* Two parts.
LEMMA SumUnion ==
  ASSUME NEW f, NEW S, IsFiniteSet(S), NEW R, IsFiniteSet(R), S \cap R = {},
         \A x \in S \cup R : f[x] \in Int
  PROVE  SumFunctionOnSet(f, S \cup R) = SumFunctionOnSet(f, S) + SumFunctionOnSet(f, R)
<1> DEFINE Sum(T) == SumFunctionOnSet(f, T)
           G == {T \in SUBSET S : Sum(T \cup R) = Sum(T) + Sum(R)}
<1>0. \A T \in SUBSET S : IsFiniteSet(T) /\ IsFiniteSet(T \cup R) /\ Sum(T) \in Int
                          /\ Sum(T \cup R) \in Int
  <2>1. \A T \in SUBSET S : IsFiniteSet(T) /\ IsFiniteSet(T \cup R)
    BY FS_Subset, FS_Union
  <2>. QED
    BY <2>1, SumType
<1>1. Sum(R) \in Int
  BY SumType
<1>2. ASSUME NEW T \in SUBSET S, \A x \in T : T \ {x} \in G
      PROVE  T \in G
  <2>1. CASE T = {}
    BY <2>1, <1>1, SumEmpty
  <2>2. ASSUME NEW x \in T PROVE T \in G
    <3>0. \A y \in T \cup R : f[y] \in Int
      OBVIOUS
    <3>1. Sum(T) = f[x] + Sum(T \ {x})
      <4>1. IsFiniteSet(T) /\ \A y \in T : f[y] \in Int
        BY <1>0
      <4>. QED
        BY <4>1, SumRemove
    <3>2. Sum(T \cup R) = f[x] + Sum((T \ {x}) \cup R)
      <4>1. x \in T \cup R /\ (T \cup R) \ {x} = (T \ {x}) \cup R
        BY <2>2
      <4>2. IsFiniteSet(T \cup R)
        BY <1>0
      <4>3. Sum(T \cup R) = f[x] + Sum((T \cup R) \ {x})
        BY <3>0, <4>1, <4>2, SumRemove
      <4>. QED
        BY <4>1, <4>3
    <3>3. Sum((T \ {x}) \cup R) = Sum(T \ {x}) + Sum(R)
      BY <1>2
    <3>4. f[x] \in Int /\ Sum(T \ {x}) \in Int
      BY <1>0
    <3> HIDE DEF Sum
    <3>. QED
      BY <1>1, <3>1, <3>2, <3>3, <3>4
  <2>. QED
    BY <2>1, <2>2
<1> HIDE DEF G
<1>3. S \in G
  BY <1>2, SetInduction
<1>. QED
  BY <1>3 DEF G

\* A sum of numbers that are not less than c.
LEMMA SumBound ==
  ASSUME NEW f, NEW S, IsFiniteSet(S), NEW c \in Int,
         \A x \in S : f[x] \in Int /\ f[x] >= c
  PROVE  SumFunctionOnSet(f, S) >= Cardinality(S) * c
<1> DEFINE Sum(T) == SumFunctionOnSet(f, T)
           G == {T \in SUBSET S : Sum(T) >= Cardinality(T) * c}
<1>0. \A T \in SUBSET S : IsFiniteSet(T) /\ Sum(T) \in Int /\ Cardinality(T) \in Nat
  BY FS_Subset, SumType, FS_CardinalityType
<1>1. ASSUME NEW T \in SUBSET S, \A x \in T : T \ {x} \in G
      PROVE  T \in G
  <2>1. CASE T = {}
    BY <2>1, SumEmpty, FS_EmptySet
  <2>2. ASSUME NEW x \in T PROVE T \in G
    <3>1. Sum(T) = f[x] + Sum(T \ {x})
      <4>1. IsFiniteSet(T) /\ \A y \in T : f[y] \in Int
        BY <1>0
      <4>. QED
        BY <4>1, SumRemove
    <3>6. Sum(T \ {x}) >= Cardinality(T \ {x}) * c
      BY <1>1
    <3>2. Cardinality(T \ {x}) = Cardinality(T) - 1
      BY <1>0, FS_RemoveElement
    <3>3. \A n \in Nat : (n - 1) * c + c = n * c /\ (n - 1) * c \in Int
      OBVIOUS
    <3>4. f[x] \in Int /\ f[x] >= c /\ Sum(T \ {x}) \in Int
      BY <1>0
    <3>5. Cardinality(T) \in Nat
      BY <1>0
    <3> HIDE DEF Sum
    <3>7. Sum(T) >= Cardinality(T) * c
      BY <3>1, <3>2, <3>3, <3>4, <3>5, <3>6
    <3>. QED
      BY <3>7
  <2>. QED
    BY <2>1, <2>2
<1> HIDE DEF G
<1>2. S \in G
  BY <1>1, SetInduction
<1>. QED
  BY <1>2 DEF G

\* The elements that h takes into K, and those that it takes to j.
Part(S, h, K) == {x \in S : h[x] \in K}
Fibre(S, h, j) == {x \in S : h[x] = j}

\* The parts that h makes of a set: t holds their sums.
LEMMA SumOfParts ==
  ASSUME NEW f, NEW h, NEW t, NEW S, IsFiniteSet(S), \A x \in S : f[x] \in Int,
         NEW J, IsFiniteSet(J),
         \A j \in J : t[j] = SumFunctionOnSet(f, Fibre(S, h, j))
  PROVE  SumFunctionOnSet(f, Part(S, h, J)) = SumFunctionOnSet(t, J)
<1> DEFINE G == {K \in SUBSET J :
                   SumFunctionOnSet(f, Part(S, h, K)) = SumFunctionOnSet(t, K)}
<1>0. \A T \in SUBSET S : IsFiniteSet(T) /\ SumFunctionOnSet(f, T) \in Int
  BY FS_Subset, SumType
<1>1. \A j \in J : t[j] \in Int
  BY <1>0 DEF Part, Fibre
<1>2. ASSUME NEW K \in SUBSET J, \A j \in K : K \ {j} \in G
      PROVE  K \in G
  <2>1. CASE K = {}
    <3>1. Part(S, h, K) = {}
      BY <2>1 DEF Part, Fibre
    <3>. QED
      BY <2>1, <3>1, SumEmpty
  <2>2. ASSUME NEW j \in K PROVE K \in G
    <3>1. SumFunctionOnSet(t, K) = t[j] + SumFunctionOnSet(t, K \ {j})
      <4>1. IsFiniteSet(K) /\ \A k \in K : t[k] \in Int
        BY <1>1, FS_Subset
      <4>. QED
        BY <4>1, SumRemove
    <3>2. SumFunctionOnSet(f, Part(S, h, K)) =
            SumFunctionOnSet(f, Fibre(S, h, j)) + SumFunctionOnSet(f, Part(S, h, K \ {j}))
      <4> DEFINE A == Fibre(S, h, j)
                 B == Part(S, h, K \ {j})
      <4>1. /\ A \cup B = Part(S, h, K) /\ A \cap B = {} /\ A \in SUBSET S /\ B \in SUBSET S
            /\ \A x \in A \cup B : f[x] \in Int
        BY DEF Part, Fibre
      <4>2. IsFiniteSet(A) /\ IsFiniteSet(B)
        BY <1>0, <4>1
      <4> HIDE DEF A, B
      <4>3. SumFunctionOnSet(f, A \cup B) = SumFunctionOnSet(f, A) + SumFunctionOnSet(f, B)
        BY <4>1, <4>2, SumUnion
      <4>. QED
        BY <4>1, <4>3 DEF A, B
    <3>3. SumFunctionOnSet(f, Part(S, h, K \ {j})) = SumFunctionOnSet(t, K \ {j})
      BY <1>2
    <3>4. t[j] = SumFunctionOnSet(f, Fibre(S, h, j))
      OBVIOUS
    <3>. QED
      BY <3>1, <3>2, <3>3, <3>4
  <2>. QED
    BY <2>1, <2>2
<1> HIDE DEF G
<1>3. J \in G
  BY <1>2, SetInduction
<1>. QED
  BY <1>3 DEF G

\* One number more: what n Q - S^2 gains, times n.
LEMMA SpreadGrows ==
  ASSUME NEW n \in Nat \ {0}, NEW s \in Int, NEW q \in Int, NEW x \in Int,
         n * q - s * s >= 0
  PROVE  (n + 1) * (q + x * x) - (s + x) * (s + x) >= 0
<1> DEFINE w == n * q - s * s
           d == n * x - s
           v == (n + 1) * (q + x * x) - (s + x) * (s + x)
<1>1. w \in Int /\ d \in Int /\ v \in Int /\ d * d >= 0
  OBVIOUS
<1>2. n * v = (n + 1) * w + d * d
  OBVIOUS
<1> HIDE DEF w, d, v
<1>3. (n + 1) * w >= 0
  <2>. QED BY <1>1 DEF w
<1>4. n * v >= 0
  BY <1>1, <1>2, <1>3
<1>5. v >= 0
  BY <1>1, <1>4
<1>. QED
  BY <1>5 DEF v

\* The deviation of one of n numbers from their mean against what they deviate in all,
\* when the others obey n Q >= S^2.
LEMMA DeviationBound ==
  ASSUME NEW n \in Nat \ {0}, NEW s \in Int, NEW q \in Int, NEW x \in Int,
         (n - 1) * (q - x * x) - (s - x) * (s - x) >= 0
  PROVE  (n * x - s) * (n * x - s) <= (n - 1) * (n * q - s * s)
<1> DEFINE w == (n - 1) * (q - x * x) - (s - x) * (s - x)
<1>1. (n - 1) * (n * q - s * s) - (n * x - s) * (n * x - s) = n * w
  OBVIOUS
<1>2. n * w >= 0
  OBVIOUS
<1>. QED
  BY <1>1, <1>2

\* n Q >= S^2, the inequality of Cauchy and Schwarz.
LEMMA SpreadNatural ==
  ASSUME NEW f, NEW q, NEW S, IsFiniteSet(S),
         \A x \in S : f[x] \in Int /\ q[x] = f[x] * f[x]
  PROVE  Cardinality(S) * SumFunctionOnSet(q, S)
           - SumFunctionOnSet(f, S) * SumFunctionOnSet(f, S) >= 0
<1> DEFINE n(T) == Cardinality(T)
           s(T) == SumFunctionOnSet(f, T)
           sq(T) == SumFunctionOnSet(q, T)
           G == {T \in SUBSET S : n(T) * sq(T) - s(T) * s(T) >= 0}
<1>0. \A T \in SUBSET S : IsFiniteSet(T) /\ n(T) \in Nat /\ s(T) \in Int /\ sq(T) \in Int
  BY FS_Subset, SumType, FS_CardinalityType
<1>1. ASSUME NEW T \in SUBSET S, \A x \in T : T \ {x} \in G
      PROVE  T \in G
  <2>1. CASE T = {}
    BY <2>1, SumEmpty, FS_EmptySet
  <2>2. ASSUME NEW x \in T PROVE T \in G
    <3> DEFINE U == T \ {x}
    <3>0. IsFiniteSet(T)
      BY <1>0
    <3>1. IsFiniteSet(T) /\ U \in SUBSET S /\ T \in SUBSET S
      BY <1>0
    <3>7. \A y \in T : f[y] \in Int
      OBVIOUS
    <3>8. \A y \in T : q[y] \in Int
      BY <3>7
    <3>2. n(U) = n(T) - 1 /\ s(T) = f[x] + s(U) /\ sq(T) = q[x] + sq(U)
      <4>1. n(U) = n(T) - 1
        BY <3>1, FS_RemoveElement
      <4>2. SumFunctionOnSet(f, T) = f[x] + SumFunctionOnSet(f, T \ {x})
        BY <3>0, <3>7, SumRemove
      <4>3. SumFunctionOnSet(q, T) = q[x] + SumFunctionOnSet(q, T \ {x})
        BY <3>0, <3>8, SumRemove
      <4>. QED
        BY <4>1, <4>2, <4>3
    <3>3. n(U) * sq(U) - s(U) * s(U) >= 0
      BY <1>1
    <3>4. q[x] = f[x] * f[x] /\ f[x] \in Int
      OBVIOUS
    <3>5. CASE n(U) = 0
      <4>1. U = {} /\ s(U) = 0 /\ sq(U) = 0
        BY <1>0, <3>1, <3>5, FS_EmptySet, SumEmpty
      <4>2. n(T) = 1 /\ s(T) = f[x] /\ sq(T) = f[x] * f[x]
        BY <4>1, <3>1, <3>2, <3>4, <3>5, <1>0
      <4>3. n(T) * sq(T) - s(T) * s(T) >= 0
        BY <4>2, <3>4
      <4>. QED
        BY <4>3
    <3>6. CASE n(U) # 0
      <4>0. n(U) \in Nat \ {0} /\ s(U) \in Int /\ sq(U) \in Int /\ n(T) \in Nat
        BY <1>0, <3>1, <3>6
      <4> HIDE DEF n, s, sq, U
      <4>1. (n(U) + 1) * (sq(U) + f[x] * f[x]) - (s(U) + f[x]) * (s(U) + f[x]) >= 0
        BY <4>0, <3>3, <3>4, SpreadGrows
      <4>2. n(T) = n(U) + 1 /\ s(T) = s(U) + f[x] /\ sq(T) = sq(U) + f[x] * f[x]
        BY <3>2, <3>4, <4>0
      <4>3. n(T) * sq(T) - s(T) * s(T) >= 0
        BY <4>1, <4>2
      <4>. QED
        BY <4>3
    <3>. QED
      BY <3>5, <3>6
  <2>. QED
    BY <2>1, <2>2
<1> HIDE DEF G
<1>2. S \in G
  BY <1>1, SetInduction
<1>. QED
  BY <1>2 DEF G

-----------------------------------------------------------------------------
\* Points are numbered as they are written, and the clock only moves on.
PointsInv ==
  /\ now \in Nat
  /\ IsFiniteSet(points)
  /\ \A p \in points : p.no \in 1..Cardinality(points) /\ p.at \in 0..now
  /\ \A p, q \in points : p.at < q.at => p.no < q.no

\* The history that was read is all of its range at some time, which is past.
ReadInv ==
  run.state \in {"read", "judged"} =>
    \E t \in 0..now : run.baseline = {p \in points : p.at >= t - Lookback /\ p.at < t}

Inv == PointsInv /\ ReadInv

\* The locals of the detector.
RunTyped ==
  /\ run.state \in {"idle", "read", "judged"}
  /\ run.state # "judged" => run.current = {}
  /\ run = [state |-> run.state, baseline |-> run.baseline, current |-> run.current,
            judged |-> run.judged, severity |-> run.severity]

\* The parameters are natural numbers.
LEMMA Bounds == Period \in Nat /\ Lookback \in Nat /\ Period <= Lookback
BY BoundsAssumption, ScoreAssumption DEF BoundsAssumption, ScoreAssumption

\* A point that is written is the last one.
LEMMA WriteEffect ==
  ASSUME PointsInv, NEW flaps, NEW k, NEW neighbor,
         points' = points \cup {NewPoint(flaps, k, neighbor)}, now' = now
  PROVE  PointsInv' /\ NewPoint(flaps, k, neighbor).at = now
<1> DEFINE n == NewPoint(flaps, k, neighbor)
<1>1. n.no = Cardinality(points) + 1 /\ n.at = now /\ Cardinality(points) \in Nat
  BY FS_CardinalityType DEF NewPoint, PointsInv
<1>2. n \notin points
  BY <1>1 DEF PointsInv
<1> HIDE DEF n
<1>3. IsFiniteSet(points') /\ Cardinality(points') = Cardinality(points) + 1
  BY <1>2, FS_AddElement DEF PointsInv, n
<1>4. \A p \in points' : p \in points \/ p = n
  BY DEF n
<1>. QED
  BY <1>1, <1>3, <1>4 DEF PointsInv, n

\* What a step does to the points and the clock.
LEMMA PointsStep ==
  ASSUME PointsInv, [ScoreNext]_scoreVars
  PROVE  /\ PointsInv'
         /\ now' \in Nat /\ now <= now'
         /\ points \subseteq points' /\ \A p \in points' \ points : p.at >= now
<1>1. CASE UNCHANGED <<now, points>>
  BY <1>1 DEF PointsInv
<1>2. CASE Tick
  BY <1>2 DEF Tick, PointsInv
<1>3. ASSUME NEW flaps, NEW k, NEW neighbor,
             points' = points \cup {NewPoint(flaps, k, neighbor)}, now' = now
      PROVE  /\ PointsInv' /\ now' \in Nat /\ now <= now'
             /\ points \subseteq points' /\ \A p \in points' \ points : p.at >= now
  <2>1. PointsInv' /\ NewPoint(flaps, k, neighbor).at = now
    BY <1>3, WriteEffect
  <2>2. now' \in Nat /\ now <= now'
    BY <1>3 DEF PointsInv
  <2>. QED
    BY <1>3, <2>1, <2>2
<1>4. \/ UNCHANGED <<now, points>> \/ Tick
      \/ \E flaps \in FlapCount, neighbor \in Neighbor : Ingest(flaps, neighbor)
      \/ \E k \in Beat : Write(k)
  BY DEF ScoreNext, Next, Send, Query, Ack, Fail, HostDies, scoreVars, vars,
         ReadHistory, Judge, QueryFails, Return
<1>. QED
  BY <1>1, <1>2, <1>3, <1>4 DEF Ingest, Write

\* The history stays all of its range, whatever is written after it was read.
LEMMA ReadStep ==
  ASSUME Inv, RunTyped, [ScoreNext]_scoreVars
  PROVE  ReadInv' /\ RunTyped'
<1>1. /\ PointsInv' /\ now \in Nat /\ now' \in Nat /\ now <= now'
      /\ points \subseteq points' /\ \A p \in points' \ points : p.at >= now
  BY PointsStep DEF Inv, PointsInv
<1>2. CASE UNCHANGED run
  <2> SUFFICES ASSUME run.state \in {"read", "judged"}
               PROVE  \E t \in 0..now' : run.baseline =
                        {p \in points' : p.at >= t - Lookback /\ p.at < t}
    BY <1>2 DEF ReadInv, RunTyped
  <2>1. PICK t \in 0..now :
          run.baseline = {p \in points : p.at >= t - Lookback /\ p.at < t}
    BY DEF Inv, ReadInv
  <2>2. \A p \in points' \ points : ~(p.at < t)
    BY <1>1 DEF PointsInv
  <2>3. run.baseline = {p \in points' : p.at >= t - Lookback /\ p.at < t}
    BY <1>1, <2>1, <2>2
  <2>4. t \in 0..now'
    BY <1>1
  <2>. QED
    BY <2>3, <2>4
<1>3. CASE ReadHistory
  <2>1. run'.state = "read" /\ run'.baseline = InRange(Lookback) /\ RunTyped'
    BY <1>3 DEF ReadHistory, RunTyped
  <2>2. now' = now /\ points' = points
    BY <1>3 DEF ReadHistory, vars
  <2>. QED
    BY <1>1, <2>1, <2>2 DEF InRange, ReadInv
<1>4. CASE Judge
  <2>1. run'.baseline = run.baseline /\ RunTyped' /\ run.state = "read"
    BY <1>4 DEF Judge, RunTyped
  <2>2. now' = now /\ points' = points
    BY <1>4 DEF Judge, vars
  <2>. QED
    BY <2>1, <2>2 DEF Inv, ReadInv
<1>5. CASE QueryFails \/ Return
  BY <1>5 DEF QueryFails, Return, Idle, ReadInv, RunTyped
<1>. QED
  BY <1>2, <1>3, <1>4, <1>5 DEF ScoreNext, scoreVars

\* The points are numbered and the history is a snapshot throughout.
THEOREM Invariance == ScoreSpec => [](Inv /\ RunTyped)
<1>1. ScoreInit => Inv /\ RunTyped
  BY FS_EmptySet DEF ScoreInit, Init, Inv, PointsInv, ReadInv, RunTyped, Idle
<1>2. Inv /\ RunTyped /\ [ScoreNext]_scoreVars => (Inv /\ RunTyped)'
  BY PointsStep, ReadStep DEF Inv
<1>. QED
  BY <1>1, <1>2, PTL DEF ScoreSpec

\* The current point that is judged outside of its baseline is newer than all of
\* it, and what of its series is older has left the range of the current points:
\* the second query of detect_anomalies runs later than the first, and takes the
\* oldest point of a series that is still in its range.
THEOREM OutsideIsNewer == ScoreSpec => []OutsideOnlyIfNewer
<1>1. ScoreInit => OutsideOnlyIfNewer
  BY DEF ScoreInit, Idle, OutsideOnlyIfNewer
<1>2. Inv /\ RunTyped /\ OutsideOnlyIfNewer /\ [ScoreNext]_scoreVars => OutsideOnlyIfNewer'
  <2> SUFFICES ASSUME Inv, RunTyped, OutsideOnlyIfNewer, [ScoreNext]_scoreVars
               PROVE  OutsideOnlyIfNewer'
    OBVIOUS
  <2>1. CASE UNCHANGED run
    BY <2>1 DEF OutsideOnlyIfNewer
  <2>2. CASE ReadHistory \/ QueryFails \/ Return
    <3>1. run'.state # "judged"
      <4>1. CASE ReadHistory
        BY <4>1 DEF ReadHistory, RunTyped
      <4>2. CASE QueryFails \/ Return
        BY <4>2 DEF QueryFails, Return, Idle
      <4>. QED
        BY <2>2, <4>1, <4>2
    <3>. QED
      BY <3>1 DEF OutsideOnlyIfNewer
  <2>3. CASE Judge
    <3>1. /\ run'.judged = now /\ run'.baseline = run.baseline /\ run.state = "read"
          /\ run'.current = {} \/ \E p \in LastResults(InRange(Period)) : run'.current = {p}
      BY <2>3 DEF Judge, RunTyped
    <3>2. SUFFICES ASSUME NEW p \in run'.current \ run'.baseline, NEW q \in run'.baseline,
                          SameSeries(p, q)
                   PROVE  q.no < p.no /\ q.at < run'.judged - Period
      BY DEF OutsideOnlyIfNewer
    <3>3. p \in LastResults(InRange(Period)) /\ p \notin run.baseline /\ q \in run.baseline
      BY <3>1
    <3>4. /\ p \in points /\ p.at >= now - Period /\ p.at < now
          /\ \A r \in InRange(Period) : SameSeries(p, r) => p.no <= r.no
      BY <3>3 DEF LastResults, InRange
    <3>5. PICK t \in 0..now :
            run.baseline = {r \in points : r.at >= t - Lookback /\ r.at < t}
      BY <3>1 DEF Inv, ReadInv
    <3>6. /\ q \in points /\ q.at < t /\ q.at \in 0..now /\ q.no \in Nat
          /\ p.at \in 0..now /\ p.no \in Nat /\ now \in Nat
      BY <3>3, <3>4, <3>5, FS_CardinalityType DEF Inv, PointsInv
    <3>7. p.at >= t
      BY <3>3, <3>4, <3>5, <3>6, Bounds
    <3>8. q.no < p.no
      BY <3>4, <3>6, <3>7 DEF Inv, PointsInv
    <3>9. q \notin InRange(Period)
      BY <3>2, <3>4, <3>6, <3>8
    <3>10. q.at < now - Period
      BY <3>5, <3>6, <3>9, Bounds DEF InRange
    <3>. QED
      BY <3>1, <3>8, <3>10
  <2>. QED
    BY <2>1, <2>2, <2>3 DEF ScoreNext, scoreVars
<1>. QED
  BY <1>1, <1>2, Invariance, PTL DEF ScoreSpec
-----------------------------------------------------------------------------
\* The z-score of few samples.

\* Totals of points, over any finite set that they are from.
LEMMA TotalOver ==
  ASSUME NEW S, IsFiniteSet(S), NEW T \in SUBSET S
  PROVE  Total(T) = SumFunctionOnSet([p \in S |-> p.flap_count], T)
<1>1. DOMAIN [p \in T |-> p.flap_count] = T /\ IsFiniteSet(T)
  BY FS_Subset
<1>2. Total(T) = SumFunctionOnSet([p \in T |-> p.flap_count], T)
  BY <1>1 DEF Total, SumFunction
<1>3. SumFunctionOnSet([p \in T |-> p.flap_count], T)
        = SumFunctionOnSet([p \in S |-> p.flap_count], T)
  BY <1>1, SumAgree
<1>. QED
  BY <1>2, <1>3

\* What rounding leaves of a comparison of two squares.
LEMMA RoundedScore ==
  ASSUME NEW P \in Nat, NEW a \in Int, NEW b \in Nat, a >= b \/ P * Distance(a, b) <= b
  PROVE  P * a >= P * b - b
<1>1. CASE a >= b
  <2>1. P * (a - b) >= 0
    BY <1>1
  <2>2. P * (a - b) = P * a - P * b /\ P * a \in Int /\ P * b \in Int
    OBVIOUS
  <2>. QED
    BY <2>1, <2>2
<1>2. CASE ~(a >= b) /\ P * Distance(a, b) <= b
  <2>1. Distance(a, b) = b - a
    BY <1>2 DEF Distance
  <2>2. P * (b - a) = P * b - P * a /\ P * a \in Int /\ P * b \in Int
    OBVIOUS
  <2>. QED
    BY <1>2, <2>1, <2>2
<1>. QED
  BY <1>1, <1>2

\* What is P parts of m and nearly P parts of c is no less than c, when P is more.
LEMMA NearlyAsMany ==
  ASSUME NEW P \in Nat, NEW c \in Nat, NEW m \in Int, P > c, P * m >= P * c - c
  PROVE  m >= c
<1>1. SUFFICES ASSUME m <= c - 1 PROVE FALSE
  OBVIOUS
<1>2. P * (c - 1 - m) >= 0
  BY <1>1
<1>3. P * (c - 1 - m) = P * c - P - P * m /\ P * c \in Int /\ P * m \in Int
  OBVIOUS
<1>. QED
  BY <1>2, <1>3

\* A score above z, or of z, needs more than z^2 samples, when the one judged is
\* among them and rounding is too small to make up for one of them.
LEMMA ScoreNeedsSamples ==
  ASSUME NEW ps, IsFiniteSet(ps), \A p \in ps : p.flap_count \in Nat,
         NEW p \in ps, NEW z \in Nat, NEW lean, Precision \in Nat, Precision > Sqr(z),
         Above(p.flap_count, ps, z, lean) \/ AtLeast(p.flap_count, ps, z, lean)
  PROVE  Cardinality(ps) > Sqr(z)
<1> DEFINE f == [q \in ps |-> q.flap_count]
           g == [q \in ps |-> Sqr(q.flap_count)]
           n == Cardinality(ps)
           s == SumFunctionOnSet(f, ps)
           sq == SumFunctionOnSet(g, ps)
           x == p.flap_count
           v == n * sq - s * s
           d == n * x - s
<1>1. /\ (\A q \in ps : f[q] \in Int) /\ (\A q \in ps : g[q] \in Int)
      /\ \A q \in ps : f[q] \in Int /\ g[q] = f[q] * f[q]
  BY DEF Sqr
<1>2. DOMAIN f = ps /\ DOMAIN g = ps
  OBVIOUS
<1>3. Total(ps) = s /\ Squares(ps) = sq
  BY <1>2 DEF Total, Squares, SumFunction
<1>4. n \in Nat \ {0} /\ s \in Int /\ sq \in Int /\ x \in Int
  <2>1. n \in Nat /\ n # 0
    BY FS_CardinalityType, FS_EmptySet
  <2>2. s \in Int
    BY <1>1, SumType
  <2>3. sq \in Int
    BY <1>1, SumType
  <2>. QED
    BY <2>1, <2>2, <2>3
<1> DEFINE us == ps \ {p}
<1>5. IsFiniteSet(us) /\ Cardinality(us) = n - 1
  BY FS_RemoveElement
<1>6. s = x + SumFunctionOnSet(f, us) /\ sq = x * x + SumFunctionOnSet(g, us)
  <2>1. s = f[p] + SumFunctionOnSet(f, us)
    BY <1>1, SumRemove
  <2>2. sq = g[p] + SumFunctionOnSet(g, us)
    BY <1>1, SumRemove
  <2>. QED
    BY <2>1, <2>2 DEF Sqr
<1>7. /\ Cardinality(us) * SumFunctionOnSet(g, us)
           - SumFunctionOnSet(f, us) * SumFunctionOnSet(f, us) >= 0
      /\ SumFunctionOnSet(f, us) \in Int /\ SumFunctionOnSet(g, us) \in Int
  <2>1. \A q \in us : f[q] \in Int /\ g[q] = f[q] * f[q]
    BY <1>1
  <2>2. (\A q \in us : f[q] \in Int) /\ (\A q \in us : g[q] \in Int)
    BY <1>1
  <2> HIDE DEF us, f, g
  <2>3. SumFunctionOnSet(f, us) \in Int
    BY <1>5, <2>2, SumType
  <2>4. SumFunctionOnSet(g, us) \in Int
    BY <1>5, <2>2, SumType
  <2>. QED
    BY <1>5, <2>1, <2>3, <2>4, SpreadNatural
<1>8. v >= 0 /\ v \in Int
  <2>1. \A q \in ps : f[q] \in Int /\ g[q] = f[q] * f[q]
    BY <1>1
  <2> HIDE DEF f, g
  <2>. QED
    BY <1>4, <2>1, SpreadNatural
<1>9. Deviation(x, ps) = d /\ Spread(ps) = IF v = 0 THEN n * n ELSE v
  BY <1>3 DEF Deviation, Variance, Spread, Sqr
<1>10. Sqr(z) \in Nat /\ z * z = Sqr(z)
  BY DEF Sqr
<1> HIDE DEF f, g, s, sq, x, n, us
<1>11. d * d <= (n - 1) * v
  <2>1. (n - 1) * (sq - x * x) - (s - x) * (s - x) >= 0
    BY <1>4, <1>5, <1>6, <1>7
  <2>. QED
    BY <1>4, <2>1, DeviationBound
<1>12. d \in Int
  BY <1>4
<1> HIDE DEF d, v
<1>13. /\ d > 0
       /\ \/ d * d >= Sqr(z) * Spread(ps)
          \/ Precision * Distance(d * d, Sqr(z) * Spread(ps)) <= Sqr(z) * Spread(ps)
  <2>1. Spread(ps) \in Int
    BY <1>4, <1>8, <1>9
  <2>2. d * d \in Int /\ Sqr(z) * Spread(ps) \in Int /\ Sqr(d) = d * d
    BY <1>10, <1>12, <2>1 DEF Sqr
  <2>. QED
    BY <1>9, <2>2 DEF Above, AtLeast, Near, x
<1>14. Spread(ps) = v /\ v > 0
  <2>1. d * d > 0
    BY <1>12, <1>13
  <2>2. v # 0
    BY <1>4, <1>11, <1>12, <2>1
  <2>. QED
    BY <1>8, <1>9, <2>2
<1> DEFINE c == Sqr(z)
           m == n - 1
<1>15. c \in Nat /\ m \in Int /\ c * v \in Nat /\ m * v \in Int /\ d * d \in Int
  BY <1>4, <1>8, <1>10, <1>12
<1>16. Precision * (d * d) >= Precision * (c * v) - c * v
  BY <1>13, <1>14, <1>15, RoundedScore
<1>17. d * d <= m * v /\ Precision > c
  BY <1>11
<1> HIDE DEF c, m
<1>18. (Precision * c - c) * v <= (Precision * m) * v
  <2>1. Precision * (d * d) <= Precision * (m * v)
    BY <1>15, <1>17
  <2>2. /\ Precision * (m * v) = (Precision * m) * v
        /\ Precision * (c * v) - c * v = (Precision * c - c) * v
    BY <1>8, <1>15
  <2>3. /\ Precision * (d * d) \in Int /\ Precision * (m * v) \in Int
        /\ Precision * (c * v) - c * v \in Int
    BY <1>15
  <2>. QED
    BY <1>16, <2>1, <2>2, <2>3
<1>19. ASSUME NEW a \in Int, NEW b \in Int, a * v <= b * v PROVE a <= b
  BY <1>8, <1>14, <1>19
<1>20. Precision * m >= Precision * c - c
  <2>1. Precision * m \in Int /\ Precision * c - c \in Int
    BY <1>15
  <2>. QED
    BY <1>18, <1>19, <2>1
<1>21. m >= c
  BY <1>15, <1>17, <1>20, NearlyAsMany
<1>. QED
  BY <1>4, <1>15, <1>21 DEF n, m, c

-----------------------------------------------------------------------------
\* The rollups.

JobType ==
  [state : {"free", "queued", "read", "written", "done", "failed"}, due : Int,
   redelivered : Nat, queried : Nat, read : SUBSET Nat, flap_count : Nat]

\* What the query of a beat's latest execution found.
Found(k) == {p \in points : p.at >= job[k].queried - Period /\ p.at < job[k].queried}

TypesInv ==
  /\ job \in [Beat -> JobType]
  /\ \A p \in points : p.flap_count \in Nat /\ p.beat \in Beat \cup {0}

\* The locals of an execution stay true of the points, for what is written later is
\* not before its query.
JobInv(k) ==
  /\ job[k].queried <= now
  /\ job[k].state # "free" => now >= Period * k
  /\ job[k].flap_count = Total(Found(k))
  /\ job[k].read = {p.no : p \in Found(k)}
  /\ job[k].state = "read" => job[k].read # {}

\* The points of a beat are not older than it; one that is not delivered again
\* leaves at most one, with its sum.
RollupInv(p) ==
  /\ p.at >= Period * p.beat
  /\ job[p.beat].redelivered = 0 =>
       /\ job[p.beat].state \in {"written", "done"} /\ job[p.beat].read # {}
       /\ p.flap_count = job[p.beat].flap_count
       /\ \A q \in points : q.beat = p.beat => q = p

\* No point has less than some message's.
HasSource(p) == \E q \in points : q.beat = 0 /\ q.flap_count <= p.flap_count

MetricsInv ==
  /\ TypesInv
  /\ \A k \in Beat : JobInv(k)
  /\ \A p \in points : p.beat # 0 => RollupInv(p)
  /\ \A p \in points : HasSource(p)

\* The parameters of the rollup.
LEMMA RollupBounds ==
  Period \in Nat \ {0} /\ MaxBeats \in Nat /\ FlapCount \subseteq Nat /\ Beat \subseteq Nat \ {0}
BY BoundsAssumption DEF BoundsAssumption, Beat

\* Points have a total, which is that of the points before a time and at it.
LEMMA TotalType ==
  ASSUME NEW S, IsFiniteSet(S), \A p \in S : p.flap_count \in Nat
  PROVE  Total(S) \in Nat /\ \A p \in S : Total(S) >= p.flap_count
<1> DEFINE f == [p \in S |-> p.flap_count]
<1>1. Total(S) = SumFunctionOnSet(f, S) /\ \A p \in S : f[p] = p.flap_count /\ f[p] \in Int
  BY TotalOver
<1> HIDE DEF f
<1>2. ASSUME NEW T \in SUBSET S
      PROVE  SumFunctionOnSet(f, T) \in Int /\ SumFunctionOnSet(f, T) >= 0
  <2>1. IsFiniteSet(T) /\ Cardinality(T) \in Nat /\ \A p \in T : f[p] \in Int /\ f[p] >= 0
    BY <1>1, FS_Subset, FS_CardinalityType
  <2>2. SumFunctionOnSet(f, T) >= Cardinality(T) * 0
    BY <2>1, SumBound
  <2>3. SumFunctionOnSet(f, T) \in Int
    BY <2>1, SumType
  <2>. QED
    BY <2>1, <2>2, <2>3
<1>3. ASSUME NEW p \in S
      PROVE  SumFunctionOnSet(f, S) >= p.flap_count
  <2>1. SumFunctionOnSet(f, S) = f[p] + SumFunctionOnSet(f, S \ {p})
    BY <1>1, SumRemove
  <2>2. SumFunctionOnSet(f, S \ {p}) \in Int /\ SumFunctionOnSet(f, S \ {p}) >= 0
    BY <1>2
  <2>. QED
    BY <1>1, <2>1, <2>2
<1>. QED
  BY <1>1, <1>2, <1>3

\* What a query found is found for ever.
LEMMA FoundStays ==
  ASSUME Inv, MetricsInv, [ScoreNext]_scoreVars, NEW k \in Beat,
         job'[k].queried = job[k].queried
  PROVE  Found(k)' = Found(k)
<1>1. points \subseteq points' /\ \A p \in points' \ points : p.at >= now
  BY PointsStep DEF Inv
<1>2. \A p \in points' \ points : p.at \in Nat
  BY PointsStep, <1>1 DEF Inv, PointsInv
<1>3. job[k].queried \in Nat /\ job[k].queried <= now /\ now \in Nat
  BY DEF MetricsInv, TypesInv, JobType, JobInv, Inv, PointsInv
<1>. QED
  BY <1>1, <1>2, <1>3 DEF Found

\* A step of the rollup or of the detector, as far as it goes for job and points.
LEMMA StepKinds ==
  ASSUME [ScoreNext]_scoreVars
  PROVE  \/ UNCHANGED <<job, points>> /\ (now' = now \/ Tick)
         \/ \E flaps \in FlapCount, neighbor \in Neighbor : Ingest(flaps, neighbor)
         \/ \E k \in Beat : Send(k) \/ Query(k) \/ Ack(k) \/ Fail(k) \/ HostDies(k)
         \/ \E k \in Beat : Write(k)
BY DEF ScoreNext, Next, scoreVars, vars, ReadHistory, Judge, QueryFails, Return, Tick

\* An execution that goes on without a query keeps what its query found.
LEMMA JobGoesOn ==
  ASSUME Inv, MetricsInv, [ScoreNext]_scoreVars, NEW k \in Beat,
         job'[k].queried = job[k].queried, job'[k].flap_count = job[k].flap_count,
         job'[k].read = job[k].read,
         job'[k].state # "free" => job[k].state # "free" \/ now >= Period * k,
         job'[k].state = "read" => job[k].state = "read"
  PROVE  JobInv(k)'
<1>1. Found(k)' = Found(k)
  BY FoundStays
<1>2. Total(Found(k))' = Total(Found(k))
  BY <1>1 DEF Total
<1>3. now' \in Nat /\ now \in Nat /\ now <= now'
  BY PointsStep DEF Inv, PointsInv
<1>4. Period * k \in Nat /\ job[k].queried \in Nat
  BY RollupBounds DEF MetricsInv, TypesInv, JobType
<1>. QED
  BY <1>1, <1>2, <1>3, <1>4 DEF MetricsInv, JobInv

\* Points that stay are true as before, as long as their beats' executions are.
LEMMA RollupGoesOn ==
  ASSUME MetricsInv, NEW p \in points, p.beat # 0, p.beat \in Beat, NEW n,
         points' = points \/ (points' = points \cup {n} /\ n.beat # p.beat),
         \/ job'[p.beat].redelivered # 0
         \/ job'[p.beat] = job[p.beat]
         \/ /\ job[p.beat].state \in {"written", "done"} =>
                 job'[p.beat].state \in {"written", "done"}
            /\ job'[p.beat].read = job[p.beat].read
            /\ job'[p.beat].flap_count = job[p.beat].flap_count
            /\ job'[p.beat].redelivered = job[p.beat].redelivered
  PROVE  RollupInv(p)'
BY DEF MetricsInv, RollupInv

\* A point with a source keeps it.
LEMMA SourceStays ==
  ASSUME points \subseteq points', NEW p, HasSource(p)
  PROVE  HasSource(p)'
BY DEF HasSource

\* An ingested point is its own source.
LEMMA IngestStep ==
  ASSUME Inv, MetricsInv, [ScoreNext]_scoreVars, NEW flaps \in FlapCount,
         NEW neighbor, Ingest(flaps, neighbor)
  PROVE  MetricsInv'
<1> DEFINE n == NewPoint(flaps, 0, neighbor)
<1>1. /\ points' = points \cup {n} /\ job' = job /\ now' = now
      /\ n.beat = 0 /\ n.flap_count = flaps /\ flaps \in Nat
  BY RollupBounds DEF Ingest, NewPoint
<1> HIDE DEF n
<1>2. TypesInv'
  BY <1>1 DEF MetricsInv, TypesInv
<1>3. \A k \in Beat : JobInv(k)'
  BY <1>1, JobGoesOn
<1>4. ASSUME NEW p \in points', p.beat # 0 PROVE RollupInv(p)'
  <2>1. p \in points /\ p.beat \in Beat
    BY <1>1, <1>4 DEF MetricsInv, TypesInv
  <2>. QED
    BY <1>1, <1>4, <2>1, RollupGoesOn
<1>5. ASSUME NEW p \in points' PROVE HasSource(p)'
  <2>1. CASE p \in points
    BY <1>1, <2>1, SourceStays DEF MetricsInv
  <2>2. CASE p = n
    BY <1>1, <2>2 DEF HasSource
  <2>. QED
    BY <1>1, <2>1, <2>2
<1>. QED
  BY <1>2, <1>3, <1>4, <1>5 DEF MetricsInv

\* A query takes the total of what it finds.
LEMMA QueryStep ==
  ASSUME Inv, MetricsInv, [ScoreNext]_scoreVars, NEW k \in Beat, Query(k)
  PROVE  /\ job' \in [Beat -> JobType] /\ points' = points /\ now' = now
         /\ job' = [job EXCEPT ![k] = job'[k]] /\ JobInv(k)'
         /\ job[k].state = "queued" /\ job'[k].redelivered = job[k].redelivered
<1> DEFINE found == InRange(Period)
<1>1. /\ points' = points /\ now' = now /\ job[k].state = "queued"
      /\ job' = [job EXCEPT ![k].state = IF found = {} THEN "written" ELSE "read",
                            ![k].queried = now,
                            ![k].read = {p.no : p \in found},
                            ![k].flap_count = Total(found)]
  BY DEF Query
<1>2. IsFiniteSet(found) /\ found \subseteq points
  BY FS_Subset DEF InRange, Inv, PointsInv
<1>3. Total(found) \in Nat
  BY <1>2, TotalType DEF MetricsInv, TypesInv
<1>4. {p.no : p \in found} \in SUBSET Nat
  BY <1>2, FS_CardinalityType DEF Inv, PointsInv
<1>5. found = {p \in points' : p.at >= now - Period /\ p.at < now}
  BY <1>1 DEF InRange
<1>6. now \in Nat /\ job \in [Beat -> JobType] /\ now >= Period * k
  BY <1>1 DEF Inv, PointsInv, MetricsInv, TypesInv, JobInv
<1>7. {p.no : p \in found} = {} <=> found = {}
  BY Zenon
<1> HIDE DEF found
<1>8. /\ job'[k] \in JobType
      /\ job'[k].state = (IF found = {} THEN "written" ELSE "read")
      /\ job'[k].queried = now /\ job'[k].read = {p.no : p \in found}
      /\ job'[k].flap_count = Total(found) /\ job'[k].redelivered = job[k].redelivered
  BY <1>1, <1>3, <1>4, <1>6 DEF JobType
<1>9. job' = [job EXCEPT ![k] = job'[k]]
  BY <1>1, <1>6
<1>10. job' \in [Beat -> JobType]
  BY <1>6, <1>8, <1>9
<1>11. Found(k)' = found
  BY <1>5, <1>8 DEF Found
<1>12. Total(Found(k))' = Total(found)
  BY <1>11 DEF Total
<1>13. JobInv(k)'
  <2>1. job'[k].read = {p.no : p \in Found(k)}'
    BY <1>8, <1>11
  <2>2. job'[k].state = "read" => job'[k].read # {}
    BY <1>7, <1>8
  <2>3. job'[k].flap_count = Total(Found(k))'
    BY <1>8, <1>12
  <2>5. now' = now /\ job'[k].queried = now
    BY <1>1, <1>8
  <2>4. job'[k].queried <= now' /\ now' >= Period * k
    BY <1>6, <2>5
  <2>. QED
    BY <2>1, <2>2, <2>3, <2>4 DEF JobInv
<1>. QED
  BY <1>1, <1>8, <1>9, <1>10, <1>13

\* A step of one beat's message leaves the points and the other beats alone.
LEMMA JobStep ==
  ASSUME Inv, MetricsInv, [ScoreNext]_scoreVars, NEW k \in Beat,
         Send(k) \/ Query(k) \/ Ack(k) \/ Fail(k) \/ HostDies(k)
  PROVE  MetricsInv'
<1>1. /\ job' \in [Beat -> JobType] /\ points' = points /\ now' = now
      /\ job' = [job EXCEPT ![k] = job'[k]] /\ JobInv(k)'
      /\ \/ job[k].state \notin {"written", "done"}
            /\ job'[k].redelivered = job[k].redelivered
         \/ job'[k].redelivered # 0
         \/ /\ job'[k].state \in {"written", "done"} /\ job'[k].read = job[k].read
            /\ job'[k].flap_count = job[k].flap_count
            /\ job'[k].redelivered = job[k].redelivered
  <2>0. /\ job \in [Beat -> JobType] /\ now \in Nat /\ Period * k \in Nat
        /\ MaxRedeliveries \in Nat
    BY RollupBounds, BoundsAssumption
       DEF Inv, PointsInv, MetricsInv, TypesInv, BoundsAssumption
  <2>1. CASE Send(k)
    <3>1. /\ job' = [job EXCEPT ![k].state = "queued", ![k].due = now]
          /\ points' = points /\ now' = now
      BY <2>1 DEF Send
    <3>4. now >= Period * k
      BY <2>0, <2>1 DEF Send
    <3>5. job[k].state = "free"
      BY <2>1 DEF Send
    <3>2. /\ job' \in [Beat -> JobType] /\ job' = [job EXCEPT ![k] = job'[k]]
          /\ job'[k].state = "queued" /\ job'[k].queried = job[k].queried
          /\ job'[k].flap_count = job[k].flap_count /\ job'[k].read = job[k].read
          /\ job'[k].redelivered = job[k].redelivered
      <4>1. job[k] \in JobType /\ now \in Int
        BY <2>0
      <4>2. job' = [job EXCEPT ![k] = [job[k] EXCEPT !.state = "queued", !.due = now]]
        BY <3>1
      <4>3. [job[k] EXCEPT !.state = "queued", !.due = now] \in JobType
        BY <4>1 DEF JobType
      <4>. QED
        BY <2>0, <4>1, <4>2, <4>3 DEF JobType
    <3>3. JobInv(k)'
      BY <3>2, <3>4, JobGoesOn
    <3>. QED
      BY <3>1, <3>2, <3>3, <3>5
  <2>2. CASE Query(k)
    BY <2>2, QueryStep
  <2>3. CASE Ack(k)
    <3>1. /\ job' = [job EXCEPT ![k].state = "done"]
          /\ points' = points /\ now' = now /\ job[k].state = "written"
      BY <2>3 DEF Ack
    <3>2. /\ job' \in [Beat -> JobType] /\ job' = [job EXCEPT ![k] = job'[k]]
          /\ job'[k].state = "done" /\ job'[k].queried = job[k].queried
          /\ job'[k].flap_count = job[k].flap_count /\ job'[k].read = job[k].read
          /\ job'[k].redelivered = job[k].redelivered
      BY <2>0, <3>1 DEF JobType
    <3>3. JobInv(k)'
      BY <3>1, <3>2, JobGoesOn
    <3>. QED
      BY <3>1, <3>2, <3>3
  <2>4. CASE Fail(k)
    <3>1. /\ job' = [job EXCEPT ![k].state = "failed"]
          /\ points' = points /\ now' = now /\ job[k].state \in {"queued", "read"}
      BY <2>4 DEF Fail
    <3>2. /\ job' \in [Beat -> JobType] /\ job' = [job EXCEPT ![k] = job'[k]]
          /\ job'[k].state = "failed" /\ job'[k].queried = job[k].queried
          /\ job'[k].flap_count = job[k].flap_count /\ job'[k].read = job[k].read
          /\ job'[k].redelivered = job[k].redelivered
      BY <2>0, <3>1 DEF JobType
    <3>3. JobInv(k)'
      BY <3>1, <3>2, JobGoesOn
    <3>. QED
      BY <3>1, <3>2, <3>3
  <2>5. CASE HostDies(k)
    <3>1. /\ job' = [job EXCEPT ![k].state = "queued", ![k].due = now,
                                ![k].redelivered = @ + 1]
          /\ points' = points /\ now' = now /\ job[k].state \in {"read", "written"}
      BY <2>5 DEF HostDies
    <3>2. /\ job' \in [Beat -> JobType] /\ job' = [job EXCEPT ![k] = job'[k]]
          /\ job'[k].state = "queued" /\ job'[k].queried = job[k].queried
          /\ job'[k].flap_count = job[k].flap_count /\ job'[k].read = job[k].read
          /\ job'[k].redelivered # 0
      BY <2>0, <3>1 DEF JobType
    <3>3. JobInv(k)'
      BY <3>1, <3>2, JobGoesOn
    <3>. QED
      BY <3>1, <3>2, <3>3
  <2>. QED
    BY <2>1, <2>2, <2>3, <2>4, <2>5
<1>2. TypesInv'
  BY <1>1 DEF MetricsInv, TypesInv
<1>3. \A j \in Beat : j # k => job'[j] = job[j]
  BY <1>1 DEF MetricsInv, TypesInv
<1>4. \A j \in Beat : JobInv(j)'
  BY <1>1, <1>3, JobGoesOn
<1>5. ASSUME NEW p \in points, p.beat # 0 PROVE RollupInv(p)'
  <2>1. p.beat \in Beat /\ RollupInv(p)
    BY <1>5 DEF MetricsInv, TypesInv
  <2>2. CASE p.beat # k
    <3>1. points' = points /\ job'[p.beat] = job[p.beat]
      BY <1>1, <1>3, <2>1, <2>2
    <3>. QED
      BY <2>1, <3>1 DEF RollupInv
  <2>3. CASE p.beat = k
    <3>1. CASE job[k].state \notin {"written", "done"} /\ job'[k].redelivered = job[k].redelivered
      BY <1>1, <2>1, <2>3, <3>1 DEF RollupInv
    <3>2. CASE job'[k].redelivered # 0
      BY <1>1, <2>1, <2>3, <3>2 DEF RollupInv
    <3>3. CASE /\ job'[k].state \in {"written", "done"} /\ job'[k].read = job[k].read
               /\ job'[k].flap_count = job[k].flap_count
               /\ job'[k].redelivered = job[k].redelivered
      BY <1>1, <2>1, <2>3, <3>3 DEF RollupInv
    <3>. QED
      BY <1>1, <3>1, <3>2, <3>3
  <2>. QED
    BY <2>2, <2>3
<1>6. \A p \in points' : HasSource(p)'
  BY <1>1, SourceStays DEF MetricsInv
<1>. QED
  BY <1>1, <1>2, <1>4, <1>5, <1>6 DEF MetricsInv

\* The point of a rollup: it has the sum of what was found, which is not less than
\* any of it.
LEMMA WriteStep ==
  ASSUME Inv, MetricsInv, [ScoreNext]_scoreVars, NEW k \in Beat, Write(k)
  PROVE  MetricsInv'
<1> DEFINE n == NewPoint(job[k].flap_count, k, NoNeighbor)
<1>1. /\ points' = points \cup {n} /\ now' = now /\ job[k].state = "read"
      /\ job' = [job EXCEPT ![k].state = "written"]
      /\ n.beat = k /\ n.flap_count = job[k].flap_count /\ n.at = now
  BY DEF Write, NewPoint
<1>2. /\ job \in [Beat -> JobType] /\ job[k] \in JobType /\ now \in Nat
      /\ k \in Nat \ {0} /\ 0 \notin Beat
  BY RollupBounds DEF Inv, PointsInv, MetricsInv, TypesInv
<1> HIDE DEF n
<1>3. /\ job' \in [Beat -> JobType] /\ job' = [job EXCEPT ![k] = job'[k]]
      /\ job'[k].state = "written" /\ job'[k].queried = job[k].queried
      /\ job'[k].flap_count = job[k].flap_count /\ job'[k].read = job[k].read
      /\ job'[k].redelivered = job[k].redelivered
  BY <1>1, <1>2 DEF JobType
<1>4. \A j \in Beat : j # k => job'[j] = job[j]
  BY <1>2, <1>3
<1>5. n.flap_count \in Nat
  BY <1>1, <1>2 DEF JobType
<1>6. TypesInv'
  BY <1>1, <1>3, <1>5 DEF MetricsInv, TypesInv
<1>7. \A j \in Beat : JobInv(j)'
  BY <1>1, <1>3, <1>4, JobGoesOn
<1>8. ASSUME NEW p \in points', p.beat # 0 PROVE RollupInv(p)'
  <2>0. JobInv(k) /\ job[k].read # {} /\ now >= Period * k
    BY <1>1 DEF MetricsInv, JobInv
  <2>1. CASE p \in points /\ p.beat # k
    <3>1. p.beat \in Beat
      BY <1>8, <2>1 DEF MetricsInv, TypesInv
    <3>. QED
      BY <1>1, <1>4, <1>8, <2>1, <3>1, RollupGoesOn
  <2>2. CASE p \in points /\ p.beat = k
    <3>1. RollupInv(p) /\ job[k].redelivered # 0
      BY <1>1, <1>8, <2>2 DEF MetricsInv, RollupInv
    <3>. QED
      BY <1>3, <2>2, <3>1 DEF RollupInv
  <2>3. CASE p = n
    <3>1. ASSUME job'[k].redelivered = 0, NEW q \in points', q.beat = k
          PROVE  q = n
      <4>1. q \notin points
        BY <1>1, <1>2, <1>3, <3>1 DEF MetricsInv, RollupInv
      <4>. QED
        BY <1>1, <4>1
    <3>2. p.beat = k /\ p.at >= Period * p.beat /\ p.flap_count = job'[p.beat].flap_count
      BY <1>1, <1>3, <2>0, <2>3
    <3>. QED
      BY <1>3, <2>0, <2>3, <3>1, <3>2 DEF RollupInv
  <2>. QED
    BY <1>1, <2>1, <2>2, <2>3
<1>9. ASSUME NEW p \in points' PROVE HasSource(p)'
  <2>1. CASE p \in points
    BY <1>1, <2>1, SourceStays DEF MetricsInv
  <2>2. CASE p = n
    <3>1. job[k].flap_count = Total(Found(k)) /\ Found(k) # {}
      BY <1>1 DEF MetricsInv, JobInv
    <3>2. PICK q \in Found(k) : TRUE
      BY <3>1
    <3>3. IsFiniteSet(Found(k)) /\ Found(k) \subseteq points
      BY FS_Subset DEF Found, Inv, PointsInv
    <3>4. q \in points /\ q.flap_count \in Nat /\ q.flap_count <= n.flap_count
      BY <1>1, <3>1, <3>3, TotalType DEF MetricsInv, TypesInv
    <3>5. PICK r \in points : r.beat = 0 /\ r.flap_count <= q.flap_count
      BY <3>4 DEF MetricsInv, HasSource
    <3>6. r.flap_count \in Nat
      BY DEF MetricsInv, TypesInv
    <3>7. r \in points' /\ r.beat = 0 /\ r.flap_count <= n.flap_count
      BY <1>1, <1>5, <3>4, <3>5, <3>6
    <3>. QED
      BY <2>2, <3>7 DEF HasSource
  <2>. QED
    BY <1>1, <2>1, <2>2
<1>. QED
  BY <1>6, <1>7, <1>8, <1>9 DEF MetricsInv

\* Metrics, rollups and their sources are as said throughout.
THEOREM MetricsAreTrue == ScoreSpec => []MetricsInv
<1>1. ScoreInit => MetricsInv
  <2> SUFFICES ASSUME ScoreInit PROVE MetricsInv
    OBVIOUS
  <2>1. now = 0 /\ points = {} /\ job = [k \in Beat |-> FreeJob]
    BY DEF ScoreInit, Init
  <2>2. FreeJob \in JobType
    BY DEF FreeJob, JobType
  <2>3. ASSUME NEW k \in Beat PROVE JobInv(k)
    <3>1. Found(k) = {} /\ job[k] = FreeJob
      BY <2>1 DEF Found
    <3>2. Total(Found(k)) = 0
      BY <3>1, FS_EmptySet, TotalOver, SumEmpty
    <3>. QED
      BY <2>1, <3>1, <3>2 DEF JobInv, FreeJob
  <2>. QED
    BY <2>1, <2>2, <2>3 DEF MetricsInv, TypesInv
<1>2. Inv /\ MetricsInv /\ [ScoreNext]_scoreVars => MetricsInv'
  <2> SUFFICES ASSUME Inv, MetricsInv, [ScoreNext]_scoreVars PROVE MetricsInv'
    OBVIOUS
  <2>1. CASE UNCHANGED <<job, points>>
    <3>1. \A k \in Beat : JobInv(k)'
      BY <2>1, JobGoesOn
    <3>. QED
      BY <2>1, <3>1 DEF MetricsInv, TypesInv, RollupInv, HasSource
  <2>. QED
    BY <2>1, StepKinds, IngestStep, JobStep, WriteStep
<1>. QED
  BY <1>1, <1>2, Invariance, PTL DEF ScoreSpec

-----------------------------------------------------------------------------
\* What the rollups and the scores promise.

\* The time of a point is in the range of one beat's query.
LEMMA PeriodOf ==
  ASSUME NEW at \in Nat, NEW j \in Int
  PROVE  /\ at \div Period = j - 1 <=> (Period * j - Period <= at /\ at < Period * j)
         /\ at \div Period \in Int
BY RollupBounds

\* Nothing is between two beats.
LEMMA LaterBeats ==
  ASSUME NEW j \in Int, NEW k \in Int, j >= k
  PROVE  Period * j >= Period * k
BY RollupBounds

\* Its query ran at its beat.
Punctual(k) == job[k].queried = Period * k

\* The queries of the first k beats divide the points before beat k among them, so
\* that together they have counted all of these; the rollups among these points
\* are what the first k - 1 have counted, and the rest is what the messages have.
LEMMA Accumulation ==
  ASSUME Inv, MetricsInv, NEW k \in Beat,
         \A j \in 1..k : Punctual(j) /\ job[j].redelivered = 0,
         \A j \in 1..(k - 1) :
           job[j].read = {} \/ \E p \in points : p.beat = j /\ p.at < Period * k
  PROVE  job[k].flap_count = Total({p \in points : p.beat = 0 /\ p.at < Period * k})
<1> DEFINE f == [p \in points |-> p.flap_count]
           t == [j \in 1..k |-> job[j].flap_count]
           S == {p \in points : p.at < Period * k}
           M == {p \in points : p.beat = 0 /\ p.at < Period * k}
           R == {p \in points : p.beat # 0 /\ p.at < Period * k}
<1>0. /\ IsFiniteSet(points) /\ \A p \in points : p.flap_count \in Nat /\ p.at \in Nat
      /\ k \in Nat \ {0} /\ 1..k \subseteq Beat
      /\ \A p \in points : p.beat \in Beat \cup {0}
      /\ Beat \subseteq Nat \ {0} /\ Period \in Nat \ {0}
  BY RollupBounds DEF Inv, PointsInv, MetricsInv, TypesInv, Beat
<1>1. \A T \in SUBSET points :
        /\ IsFiniteSet(T) /\ Total(T) = SumFunctionOnSet(f, T)
        /\ SumFunctionOnSet(f, T) \in Int
  <2> SUFFICES ASSUME NEW T \in SUBSET points
               PROVE  /\ IsFiniteSet(T) /\ Total(T) = SumFunctionOnSet(f, T)
                      /\ SumFunctionOnSet(f, T) \in Int
    OBVIOUS
  <2>1. IsFiniteSet(T) /\ \A p \in T : f[p] \in Int
    BY <1>0, FS_Subset
  <2>2. Total(T) = SumFunctionOnSet(f, T)
    BY <1>0, TotalOver
  <2>3. SumFunctionOnSet(f, T) \in Int
    BY <2>1, SumType
  <2>. QED
    BY <2>1, <2>2, <2>3
<1>2. ASSUME NEW p \in points PROVE f[p] \in Int /\ f[p] = p.flap_count
  BY <1>0
<1>3. ASSUME NEW j \in 1..k
      PROVE  /\ j \in Beat /\ j \in Nat \ {0} /\ t[j] = job[j].flap_count /\ t[j] \in Int
             /\ t[j] = SumFunctionOnSet(f, Found(j))
             /\ Found(j) = {p \in points : p.at >= Period * j - Period /\ p.at < Period * j}
             /\ job[j].read = {} => t[j] = 0
  <2>1. j \in Beat /\ j \in Nat \ {0} /\ t[j] = job[j].flap_count
    BY <1>0
  <2>2. job[j].flap_count = Total(Found(j)) /\ (job[j].read = {} <=> Found(j) = {})
    <3>1. job[j].flap_count = Total(Found(j)) /\ job[j].read = {p.no : p \in Found(j)}
      BY <2>1 DEF MetricsInv, JobInv
    <3>2. {p.no : p \in Found(j)} = {} <=> Found(j) = {}
      BY Zenon
    <3>. QED
      BY <3>1, <3>2
  <2>3. Found(j) = {p \in points : p.at >= Period * j - Period /\ p.at < Period * j}
    BY DEF Found, Punctual
  <2>4. Found(j) \in SUBSET points
    BY DEF Found
  <2>5. Total(Found(j)) = SumFunctionOnSet(f, Found(j)) /\ SumFunctionOnSet(f, Found(j)) \in Int
    BY <1>1, <2>4
  <2> HIDE DEF f, t
  <2>6. job[j].read = {} => t[j] = 0
    BY <2>1, <2>2, <2>5, SumEmpty
  <2>. QED
    BY <2>1, <2>2, <2>3, <2>5, <2>6
<1>4. S \in SUBSET points /\ M \in SUBSET points /\ R \in SUBSET points
  OBVIOUS
<1> HIDE DEF f, t
<1>5. SumFunctionOnSet(f, S) = SumFunctionOnSet(t, 1..k)
  <2> DEFINE h == [p \in points |-> p.at \div Period + 1]
  <2>1. ASSUME NEW j \in 1..k PROVE Fibre(points, h, j) = Found(j)
    <3>1. ASSUME NEW p \in points
          PROVE  h[p] = j <=> p.at >= Period * j - Period /\ p.at < Period * j
      <4>1. p.at \in Nat /\ j \in Int /\ h[p] = p.at \div Period + 1
        BY <1>0
      <4> HIDE DEF h
      <4>. QED
        BY <4>1, PeriodOf
    <3>. QED
      BY <1>3, <3>1 DEF Part, Fibre
  <2>2. Part(points, h, 1..k) = S
    <3>1. ASSUME NEW p \in points, p.at < Period * k PROVE h[p] \in 1..k
      <4>1. p.at \in Nat /\ h[p] = p.at \div Period + 1
        BY <1>0
      <4> DEFINE d == p.at \div Period
      <4>2. d \in Int /\ Period * d <= p.at /\ p.at < Period * (d + 1)
        <5>1. d \in Int
          BY <4>1, PeriodOf
        <5>2. Period * (d + 1) - Period <= p.at /\ p.at < Period * (d + 1)
          <6>1. d + 1 \in Int /\ d = (d + 1) - 1
            BY <5>1
          <6>. QED
            BY <4>1, <6>1, PeriodOf
        <5>3. Period * (d + 1) - Period = Period * d
          <6> HIDE DEF d
          <6>. QED
            BY <1>0, <5>1
        <5>. QED
          BY <5>1, <5>2, <5>3
      <4> HIDE DEF d
      <4>3. d >= 0
        <5>1. d + 1 <= 0 => Period * 0 >= Period * (d + 1)
          BY <4>2, LaterBeats
        <5>. QED
          BY <1>0, <4>1, <4>2, <5>1
      <4>4. d < k
        <5>1. d >= k => Period * d >= Period * k
          BY <1>0, <4>2, LaterBeats
        <5>2. Period * d \in Int /\ Period * k \in Int
          BY <1>0, <4>2
        <5>. QED
          BY <1>0, <3>1, <4>1, <4>2, <5>1, <5>2
      <4>5. h[p] = d + 1
        BY <4>1 DEF d
      <4> HIDE DEF h
      <4>. QED
        BY <1>0, <4>2, <4>3, <4>4, <4>5
    <3>2. ASSUME NEW p \in points, h[p] \in 1..k PROVE p.at < Period * k
      <4>1. p \in Found(h[p])
        BY <2>1, <3>2 DEF Part, Fibre
      <4>2. p.at < Period * h[p]
        BY <1>3, <3>2, <4>1
      <4> HIDE DEF h
      <4>3. h[p] \in Int /\ k >= h[p] /\ k \in Int
        BY <1>0, <3>2
      <4>4. Period * k >= Period * h[p] /\ Period * k \in Int /\ Period * h[p] \in Int
        BY <1>0, <4>3, LaterBeats
      <4>. QED
        BY <1>0, <4>2, <4>4
    <3> HIDE DEF h
    <3>. QED
      BY <3>1, <3>2 DEF Part, Fibre
  <2> HIDE DEF h, S
  <2>3. \A j \in 1..k : t[j] = SumFunctionOnSet(f, Fibre(points, h, j))
    BY <1>3, <2>1
  <2>4. \A p \in points : f[p] \in Int
    BY <1>2
  <2>5. IsFiniteSet(1..k)
    BY <1>0, FS_Interval
  <2>6. SumFunctionOnSet(f, Part(points, h, 1..k)) = SumFunctionOnSet(t, 1..k)
    <3> DEFINE J == 1..k
    <3>1. IsFiniteSet(J) /\ \A j \in J : t[j] = SumFunctionOnSet(f, Fibre(points, h, j))
      BY <2>3, <2>5
    <3> HIDE DEF J
    <3>2. SumFunctionOnSet(f, Part(points, h, J)) = SumFunctionOnSet(t, J)
      BY <1>0, <2>4, <3>1, SumOfParts
    <3>. QED
      BY <3>2 DEF J
  <2>. QED
    BY <2>2, <2>6
<1>6. SumFunctionOnSet(f, S) = SumFunctionOnSet(f, M) + SumFunctionOnSet(f, R)
  <2>1. M \cup R = S /\ M \cap R = {} /\ \A p \in M \cup R : f[p] \in Int
    BY <1>2
  <2>2. IsFiniteSet(M) /\ IsFiniteSet(R)
    BY <1>1, <1>4
  <2> HIDE DEF M, R, S
  <2>. QED
    BY <2>1, <2>2, SumUnion
<1>7. SumFunctionOnSet(f, R) = SumFunctionOnSet(t, 1..(k - 1))
  <2> DEFINE h == [p \in points |-> p.beat]
  <2>1. ASSUME NEW j \in 1..(k - 1)
        PROVE  t[j] = SumFunctionOnSet(f, Fibre(S, h, j))
    <3>0. j \in 1..k /\ j \in Beat /\ j # 0 /\ job[j].redelivered = 0
      BY <1>0
    <3>1. CASE job[j].read = {}
      <4>1. \A p \in points : p.beat # j
        BY <3>0, <3>1 DEF MetricsInv, RollupInv
      <4>2. Fibre(S, h, j) = {}
        BY <4>1 DEF Part, Fibre
      <4>. QED
        BY <1>3, <3>0, <3>1, <4>2, SumEmpty
    <3>2. CASE job[j].read # {}
      <4>1. PICK p \in points : p.beat = j /\ p.at < Period * k
        BY <3>2
      <4>2. p.flap_count = job[j].flap_count /\ \A q \in points : q.beat = j => q = p
        BY <3>0, <4>1 DEF MetricsInv, RollupInv
      <4>3. Fibre(S, h, j) = {p}
        BY <4>1, <4>2 DEF Part, Fibre
      <4>4. SumFunctionOnSet(f, {p}) = f[p]
        <5>1. IsFiniteSet({p}) /\ (\A q \in {p} : f[q] \in Int) /\ p \in {p} /\ {p} \ {p} = {}
          BY <1>2, FS_Singleton
        <5>2. SumFunctionOnSet(f, {p}) = f[p] + SumFunctionOnSet(f, {p} \ {p})
          BY <5>1, SumRemove
        <5>3. SumFunctionOnSet(f, {p} \ {p}) = 0
          BY <5>1, SumEmpty
        <5>4. f[p] \in Int
          BY <1>2
        <5>. QED
          BY <5>2, <5>3, <5>4
      <4>. QED
        BY <1>2, <1>3, <3>0, <4>2, <4>3, <4>4
    <3>. QED
      BY <3>1, <3>2
  <2>2. Part(S, h, 1..(k - 1)) = R
    <3>1. ASSUME NEW p \in R PROVE p.beat \in 1..(k - 1)
      <4>1. p \in points /\ p.beat \in Beat /\ p.beat \in Nat \ {0} /\ p.at < Period * k
        BY <1>0
      <4>2. p.at >= Period * p.beat
        BY <4>1 DEF MetricsInv, RollupInv
      <4>3. p.beat >= k => Period * p.beat >= Period * k
        BY <1>0, <4>1, LaterBeats
      <4>4. Period * p.beat \in Int /\ Period * k \in Int /\ p.at \in Int
        BY <1>0, <4>1
      <4>5. p.beat < k
        BY <1>0, <4>1, <4>2, <4>3, <4>4
      <4>. QED
        BY <1>0, <4>1, <4>5
    <3>2. ASSUME NEW p \in points, p.beat \in 1..(k - 1) PROVE p.beat # 0
      BY <1>0, <3>2
    <3>. QED
      BY <3>1, <3>2 DEF Part, Fibre
  <2>3. IsFiniteSet(S) /\ \A p \in S : f[p] \in Int
    BY <1>1, <1>2, <1>4
  <2>4. IsFiniteSet(1..(k - 1))
    BY <1>0, FS_Interval
  <2> HIDE DEF h, S, R
  <2>5. SumFunctionOnSet(f, Part(S, h, 1..(k - 1)))
          = SumFunctionOnSet(t, 1..(k - 1))
    <3> DEFINE J == 1..(k - 1)
    <3>1. IsFiniteSet(J) /\ \A j \in J : t[j] = SumFunctionOnSet(f, Fibre(S, h, j))
      BY <2>1, <2>4
    <3> HIDE DEF J
    <3>2. SumFunctionOnSet(f, Part(S, h, J)) = SumFunctionOnSet(t, J)
      BY <2>3, <3>1, SumOfParts
    <3>. QED
      BY <3>2 DEF J
  <2>. QED
    BY <2>2, <2>5
<1>8. SumFunctionOnSet(t, 1..k) = t[k] + SumFunctionOnSet(t, 1..(k - 1))
  <2>0. k \in Nat \ {0}
    BY <1>0
  <2>1. IsFiniteSet(1..k)
    BY <2>0, FS_Interval
  <2>3. k \in 1..k /\ (1..k) \ {k} = 1..(k - 1)
    BY <2>0
  <2>2. \A j \in 1..k : t[j] \in Int
    BY <1>3
  <2>. QED
    BY <2>1, <2>2, <2>3, SumRemove
<1>9. t[k] = job[k].flap_count /\ t[k] \in Int
  BY <1>0, <1>3
<1>10. Total(M) = SumFunctionOnSet(f, M) /\ SumFunctionOnSet(f, M) \in Int
       /\ SumFunctionOnSet(f, R) \in Int
  BY <1>1, <1>4
<1>11. Total(M) = job[k].flap_count
  <2> HIDE DEF M, R, S
  <2>. QED
    BY <1>5, <1>6, <1>7, <1>8, <1>9, <1>10
<1>. QED
  BY <1>11

\* What comes of a rollup that finds the one before it in its range and counts it
\* with the rest.  It is not what the documents say of the field, "flaps in the last
\* 5-min window" (src/core/influxdb_connector.py).
SumsAccumulate ==
  \A k \in Beat :
    /\ Queried(k)
    /\ \A j \in 1..k : Punctual(j) /\ job[j].redelivered = 0
    /\ \A j \in 1..(k - 1) :
         job[j].read = {} \/ \E p \in points : p.beat = j /\ p.at < Period * k
    => job[k].flap_count = Total({p \in points : p.beat = 0 /\ p.at < Period * k})

\* With punctual beats that are not delivered again, whose rollups leave their points
\* before beat k, the sum of rollup k is not that of five minutes but of all that
\* messages have ever left before it: compute_aggregates_task does not tell the
\* rollups from the messages.
THEOREM RollupsAccumulate == ScoreSpec => []SumsAccumulate
<1>1. Inv /\ MetricsInv => SumsAccumulate
  BY Accumulation DEF SumsAccumulate
<1>. QED
  BY <1>1, Invariance, MetricsAreTrue, PTL

\* Rollups that are equally late divide the points among them, and of two that are not
\* the later one leaves points out or counts some again: the range of
\* compute_aggregates_task ends at its query.
THEOREM EachFlapIsInOneRollup == ScoreSpec => []EachFlapInOneRollup
<1>1. Inv /\ MetricsInv => EachFlapInOneRollup
  <2> SUFFICES ASSUME Inv, MetricsInv, NEW k \in Beat, k + 1 \in Beat
               PROVE  /\ Late(k + 1) <= Late(k) =>
                           \A p \in points :
                             p.at >= job[k].queried - Period
                               /\ p.at < job[k + 1].queried =>
                                 p.no \in job[k].read \cup job[k + 1].read
                      /\ Late(k + 1) >= Late(k) =>
                           job[k].read \cap job[k + 1].read = {}
    BY DEF EachFlapInOneRollup
  <2>1. /\ job[k].read = {p.no : p \in Found(k)}
        /\ job[k + 1].read = {p.no : p \in Found(k + 1)}
        /\ job[k].queried \in Nat /\ job[k + 1].queried \in Nat
    BY DEF MetricsInv, TypesInv, JobType, JobInv
  <2>2. \A p \in points : p.at \in Int /\ p.no \in Nat
    BY FS_CardinalityType DEF Inv, PointsInv
  <2>3. Period * (k + 1) = Period * k + Period /\ Period * k \in Int /\ Period \in Int
    BY RollupBounds
  <2>4. ASSUME Late(k + 1) <= Late(k), NEW p \in points,
               p.at >= job[k].queried - Period, p.at < job[k + 1].queried
        PROVE  p.no \in job[k].read \cup job[k + 1].read
    <3>1. job[k + 1].queried - Period <= job[k].queried
      BY <2>1, <2>3, <2>4 DEF Late
    <3>2. p \in Found(k) \/ p \in Found(k + 1)
      BY <2>1, <2>2, <2>3, <2>4, <3>1 DEF Found
    <3>. QED
      BY <2>1, <3>2
  <2>5. ASSUME Late(k + 1) >= Late(k), NEW p \in Found(k), NEW q \in Found(k + 1)
        PROVE  p.no # q.no
    <3>1. job[k + 1].queried - Period >= job[k].queried
      BY <2>1, <2>3, <2>5 DEF Late
    <3>2. p \in points /\ q \in points /\ p.at < q.at
      BY <2>1, <2>2, <2>3, <3>1 DEF Found
    <3>3. p.no < q.no
      BY <3>2 DEF Inv, PointsInv
    <3>. QED
      BY <2>2, <3>2, <3>3
  <2>6. Late(k + 1) >= Late(k) => job[k].read \cap job[k + 1].read = {}
    BY <2>1, <2>5
  <2>. QED
    BY <2>4, <2>6
<1>. QED
  BY <1>1, Invariance, MetricsAreTrue, PTL

\* The verdict on a point of its own baseline.
LEMMA SeverityNeedsSamples ==
  ASSUME NEW ps, IsFiniteSet(ps), \A p \in ps : p.flap_count \in Nat, NEW p \in ps, NEW lean
  PROVE  /\ SeverityOf(p.flap_count, ps, lean) # "none" => Cardinality(ps) > Sqr(Threshold)
         /\ SeverityOf(p.flap_count, ps, lean) = "CRITICAL"
              => Cardinality(ps) > Sqr(Critical)
<1>1. /\ Threshold \in Nat /\ Critical \in Nat /\ Precision \in Nat
      /\ Precision > Sqr(Threshold) /\ Precision > Sqr(Critical)
  BY ScoreAssumption DEF ScoreAssumption, Sqr
<1>2. Above(p.flap_count, ps, Threshold, lean) => Cardinality(ps) > Sqr(Threshold)
  BY <1>1, ScoreNeedsSamples
<1>3. AtLeast(p.flap_count, ps, Critical, lean) => Cardinality(ps) > Sqr(Critical)
  BY <1>1, ScoreNeedsSamples
<1>. QED
  BY <1>2, <1>3 DEF SeverityOf

\* What Judge does to the locals.
LEMMA JudgeEffect ==
  ASSUME RunTyped, Judge
  PROVE  /\ run'.state = "judged" /\ run'.baseline = run.baseline /\ points' = points
         /\ \/ run'.current = {} /\ run'.severity = run.severity
            \/ \E p \in points, lean \in {-1, 0, 1} :
                 /\ run'.current = {p}
                 /\ run'.severity = SeverityOf(p.flap_count, run.baseline, lean)
  BY DEF RunTyped, Judge, vars, LastResults, InRange

\* Before the verdict there is no severity.
NoVerdictYet == run.state # "judged" => run.severity = "none"

\* The score of a speaker with few points cannot reach the threshold, whatever they
\* are and however it is rounded: the point that is judged is one of those its mean
\* and deviation are of.
THEOREM FewSamplesAreQuiet == ScoreSpec => []FewSamplesNeverAlarm
<1>1. ScoreInit => NoVerdictYet /\ FewSamplesNeverAlarm
  BY DEF ScoreInit, Idle, FewSamplesNeverAlarm, NoVerdictYet
<1>2. Inv /\ RunTyped /\ MetricsInv /\ NoVerdictYet /\ FewSamplesNeverAlarm
      /\ [ScoreNext]_scoreVars => (NoVerdictYet /\ FewSamplesNeverAlarm)'
  <2> SUFFICES ASSUME Inv, RunTyped, MetricsInv, NoVerdictYet, FewSamplesNeverAlarm,
                      [ScoreNext]_scoreVars
               PROVE  (NoVerdictYet /\ FewSamplesNeverAlarm)'
    OBVIOUS
  <2>1. CASE UNCHANGED run
    BY <2>1 DEF FewSamplesNeverAlarm, NoVerdictYet
  <2>2. CASE ReadHistory
    <3>1. run'.state = "read" /\ run'.severity = run.severity /\ run.state = "idle"
      BY <2>2 DEF ReadHistory, RunTyped
    <3>. QED
      BY <3>1 DEF FewSamplesNeverAlarm, NoVerdictYet
  <2>3. CASE QueryFails \/ Return
    BY <2>3 DEF QueryFails, Return, Idle, FewSamplesNeverAlarm, NoVerdictYet
  <2>4. CASE Judge
    <3>1. NoVerdictYet'
      BY <2>4, JudgeEffect DEF NoVerdictYet
    <3>2. ASSUME run'.current \subseteq run'.baseline
          PROVE  /\ run'.severity # "none" => Cardinality(run'.baseline) > Sqr(Threshold)
                 /\ run'.severity = "CRITICAL" => Cardinality(run'.baseline) > Sqr(Critical)
      <4>1. run.state = "read" /\ run.severity = "none"
        BY <2>4 DEF Judge, NoVerdictYet
      <4>2. CASE run'.current = {} /\ run'.severity = run.severity
        BY <4>1, <4>2
      <4>3. ASSUME NEW p \in points, NEW lean, run'.current = {p},
                   run'.severity = SeverityOf(p.flap_count, run.baseline, lean)
            PROVE  /\ run'.severity # "none"
                        => Cardinality(run'.baseline) > Sqr(Threshold)
                   /\ run'.severity = "CRITICAL"
                        => Cardinality(run'.baseline) > Sqr(Critical)
        <5>1. run'.baseline = run.baseline /\ run.baseline \subseteq points
          BY <2>4, <4>1, JudgeEffect DEF Inv, ReadInv
        <5>2. IsFiniteSet(run.baseline) /\ p \in run.baseline
              /\ \A q \in run.baseline : q.flap_count \in Nat
          BY <3>2, <4>3, <5>1, FS_Subset DEF Inv, PointsInv, MetricsInv, TypesInv
        <5>. QED
          BY <4>3, <5>1, <5>2, SeverityNeedsSamples
      <4>. QED
        BY <2>4, <4>2, <4>3, JudgeEffect
    <3>. QED
      BY <3>1, <3>2 DEF FewSamplesNeverAlarm
  <2>. QED
    BY <2>1, <2>2, <2>3, <2>4 DEF ScoreNext, scoreVars
<1>. QED
  BY <1>1, <1>2, Invariance, MetricsAreTrue, PTL DEF ScoreSpec

\* A number that is none of the greater ones is not above their mean.
LEMMA LeastIsNotAbove ==
  ASSUME NEW ps, IsFiniteSet(ps), NEW x \in Nat, NEW lean,
         \A p \in ps : p.flap_count \in Nat /\ x <= p.flap_count
  PROVE  SeverityOf(x, ps, lean) = "none"
<1> DEFINE f == [p \in ps |-> p.flap_count]
<1>1. \A p \in ps : f[p] \in Int /\ f[p] >= x
  OBVIOUS
<1>2. Total(ps) = SumFunctionOnSet(f, ps)
  BY TotalOver
<1> HIDE DEF f
<1>3. SumFunctionOnSet(f, ps) >= Cardinality(ps) * x
  BY <1>1, SumBound
<1>4. SumFunctionOnSet(f, ps) \in Int
  BY <1>1, SumType
<1>5. Cardinality(ps) \in Nat
  BY FS_CardinalityType
<1>6. ~(Deviation(x, ps) > 0)
  BY <1>2, <1>3, <1>4, <1>5 DEF Deviation
<1>. QED
  BY <1>6 DEF SeverityOf, Above, Near

\* A router that always withdraws as much cannot be above its own mean by a message:
\* a rollup has at least what one of the messages in it has.
THEOREM SteadyIsQuiet == ScoreSpec => []SteadyAlarmsOnlyByRollup
<1>1. ScoreInit => SteadyAlarmsOnlyByRollup
  BY DEF ScoreInit, Idle, SteadyAlarmsOnlyByRollup
<1>2. Inv /\ RunTyped /\ MetricsInv /\ NoVerdictYet /\ SteadyAlarmsOnlyByRollup
      /\ [ScoreNext]_scoreVars => SteadyAlarmsOnlyByRollup'
  <2> SUFFICES ASSUME Inv, RunTyped, MetricsInv, NoVerdictYet, SteadyAlarmsOnlyByRollup,
                      [ScoreNext]_scoreVars,
                      run'.state = "judged", run'.severity # "none",
                      \A p, q \in points' :
                        p.beat = 0 /\ q.beat = 0 => p.flap_count = q.flap_count,
                      NEW p \in run'.current
               PROVE  p.beat # 0
    BY DEF SteadyAlarmsOnlyByRollup
  <2>1. points \subseteq points'
    BY PointsStep DEF Inv
  <2>2. CASE UNCHANGED run
    BY <2>1, <2>2 DEF SteadyAlarmsOnlyByRollup
  <2>3. CASE ReadHistory \/ QueryFails \/ Return
    <3>1. run'.state # "judged"
      <4>1. CASE ReadHistory
        BY <4>1 DEF ReadHistory, RunTyped
      <4>2. CASE QueryFails \/ Return
        BY <4>2 DEF QueryFails, Return, Idle
      <4>. QED
        BY <2>3, <4>1, <4>2
    <3>. QED
      BY <3>1
  <2>4. CASE Judge
    <3>1. run.state = "read" /\ run.severity = "none"
      BY <2>4 DEF Judge, NoVerdictYet
    <3>2. /\ p \in points /\ points' = points
          /\ \E lean \in {-1, 0, 1} :
               run'.severity = SeverityOf(p.flap_count, run.baseline, lean)
      BY <2>4, <3>1, JudgeEffect
    <3>3. IsFiniteSet(run.baseline) /\ run.baseline \subseteq points
      BY <3>1, FS_Subset DEF Inv, PointsInv, ReadInv
    <3>4. ASSUME p.beat = 0, NEW q \in run.baseline
          PROVE  q.flap_count \in Nat /\ p.flap_count <= q.flap_count
      <4>1. PICK r \in points : r.beat = 0 /\ r.flap_count <= q.flap_count
        BY <3>3 DEF MetricsInv, HasSource
      <4>2. r.flap_count = p.flap_count
        BY <3>2, <3>4, <4>1
      <4>. QED
        BY <3>3, <4>1, <4>2 DEF MetricsInv, TypesInv
    <3>5. p.flap_count \in Nat
      BY <3>2 DEF MetricsInv, TypesInv
    <3>. QED
      BY <3>2, <3>3, <3>4, <3>5, LeastIsNotAbove
  <2>. QED
    BY <2>2, <2>3, <2>4 DEF ScoreNext, scoreVars
<1>3. ScoreSpec => []NoVerdictYet
  <2>1. ScoreInit => NoVerdictYet
    BY DEF ScoreInit, Idle, NoVerdictYet
  <2>2. RunTyped /\ NoVerdictYet /\ [ScoreNext]_scoreVars => NoVerdictYet'
    <3> SUFFICES ASSUME RunTyped, NoVerdictYet, [ScoreNext]_scoreVars PROVE NoVerdictYet'
      OBVIOUS
    <3>1. CASE UNCHANGED run
      BY <3>1 DEF NoVerdictYet
    <3>2. CASE Judge
      BY <3>2, JudgeEffect DEF NoVerdictYet
    <3>3. CASE ReadHistory
      <4>1. run'.severity = run.severity /\ run.state = "idle"
        BY <3>3 DEF ReadHistory, RunTyped
      <4>. QED
        BY <4>1 DEF NoVerdictYet
    <3>4. CASE QueryFails \/ Return
      BY <3>4 DEF QueryFails, Return, Idle, NoVerdictYet
    <3>. QED
      BY <3>1, <3>2, <3>3, <3>4 DEF ScoreNext, scoreVars
  <2>. QED
    BY <2>1, <2>2, Invariance, PTL DEF ScoreSpec
<1>. QED
  BY <1>1, <1>2, <1>3, Invariance, MetricsAreTrue, PTL DEF ScoreSpec
=============================================================================
