----------------------- MODULE MatchCoordinatorProofs -----------------------
(***************************************************************************)
(* Theorems about MatchCoordinator, for every number of players, every     *)
(* stack, every blind schedule and both kinds of match: the chips are      *)
(* accounted for, the match is as long as its rules say, the blinds follow *)
(* the dealer, and a quit divides the quitter's chips evenly.              *)
(*                                                                         *)
(* SumFunction is a fold over a set in an arbitrary order.  The first part *)
(* shows that it is a sum: the fold exists (by induction on the size of    *)
(* the set, stated with sets and their least elements), any element may be *)
(* taken first, and hence sums add up and may leave out zeros.             *)
(***************************************************************************)
EXTENDS MatchCoordinator, FiniteSetTheorems, FunctionTheorems, WellFoundedInduction, TLAPS

-----------------------------------------------------------------------------
(***************************************************************************)
(* Sums.                                                                   *)
(***************************************************************************)

\* Every non-empty set of natural numbers has a least element.
LEMMA LeastNatural ==
    ASSUME NEW T \in SUBSET Nat, T # {}
    PROVE  \E m \in T : \A n \in T : m <= n
  <1>1. \E m \in T : \A n \in T : ~ (<<n, m>> \in OpToRel(<, Nat))
    BY NatLessThanWellFounded, WFMin
  <1>2. PICK m \in T : \A n \in T : ~ (<<n, m>> \in OpToRel(<, Nat))
    BY <1>1
  <1>3. ASSUME NEW n \in T PROVE m <= n
    <2>1. ~ (<<n, m>> \in OpToRel(<, Nat))
      BY <1>2
    <2>2. m \in Nat /\ n \in Nat
      OBVIOUS
    <2> QED BY <2>1, <2>2 DEF OpToRel
  <1> QED BY <1>3

\* The sums of f over the subsets of S, as a function that SumFunction evaluates.
Tally(h, f, S) ==
    /\ h \in [SUBSET S -> Int]
    /\ h[{}] = 0
    /\ \A s \in SUBSET S : \A y \in s : h[s] = f[y] + h[s \ {y}]

\* A property of the subsets of a finite set that the empty set has, and every other
\* subset when the subsets with one element less have it, is one of all of them.
LEMMA SubsetInduction ==
    ASSUME NEW S, IsFiniteSet(S), NEW Good \in SUBSET SUBSET S,
           {} \in Good,
           \A s \in SUBSET S : (\A y \in s : s \ {y} \in Good) => s \in Good
    PROVE  Good = SUBSET S
  <1> SUFFICES ASSUME Good # SUBSET S PROVE FALSE
    OBVIOUS
  <1> DEFINE Bad == (SUBSET S) \ Good
             Sizes == {Cardinality(s) : s \in Bad}
  <1>1. \A s \in SUBSET S : IsFiniteSet(s) /\ Cardinality(s) \in Nat
    BY FS_Subset, FS_CardinalityType
  <1>2. Sizes \in SUBSET Nat /\ Sizes # {}
    BY <1>1
  <1>3. PICK m \in Sizes : \A n \in Sizes : m <= n
    <2> HIDE DEF Sizes
    <2> QED BY <1>2, LeastNatural
  <1>4. PICK s \in Bad : m = Cardinality(s)
    OBVIOUS
  <1>5. ASSUME NEW y \in s PROVE s \ {y} \in Good
    <2>1. Cardinality(s \ {y}) = Cardinality(s) - 1
      BY <1>1, <1>5, FS_RemoveElement
    <2>2. ~ (Cardinality(s) <= Cardinality(s \ {y}))
      BY <1>1, <2>1
    <2> QED BY <1>3, <1>4, <2>2
  <1> QED BY <1>4, <1>5

\* The fold that SumFunction evaluates is a tally, whatever the order of the CHOOSEs.
LEMMA TallyExists ==
    ASSUME NEW S, IsFiniteSet(S), NEW f \in [S -> Int]
    PROVE  \E h : Tally(h, f, S) /\ h[S] = SumFunction(f)
  <1> DEFINE first(s) == CHOOSE x \in s : TRUE
             body(g, s) == IF s = {} THEN 0 ELSE f[first(s)] + g[s \ {first(s)}]
             \* the numbers up to which some function is right
             Right(n) == \E g \in [SUBSET S -> Int] : \A s \in SUBSET S :
                             Cardinality(s) <= n => g[s] = body(g, s)
             Wrong == {n \in Nat : ~Right(n)}
  <1>1. \A s \in SUBSET S : IsFiniteSet(s) /\ Cardinality(s) \in Nat
    BY FS_Subset, FS_CardinalityType
  <1>2. \A s \in SUBSET S : s # {} => first(s) \in s /\ first(s) \in S /\ s \ {first(s)} \in SUBSET S
    OBVIOUS
  <1>3. \A s \in SUBSET S : s # {} => Cardinality(s \ {first(s)}) = Cardinality(s) - 1
    BY <1>1, <1>2, FS_RemoveElement
  <1>4. \A g \in [SUBSET S -> Int] : \A s \in SUBSET S : body(g, s) \in Int
    BY <1>2
  <1>5. Right(0)
    <2> DEFINE g == [s \in SUBSET S |-> 0]
    <2>1. \A s \in SUBSET S : Cardinality(s) <= 0 => g[s] = body(g, s)
      BY <1>1, FS_EmptySet
    <2>2. g \in [SUBSET S -> Int]
      OBVIOUS
    <2> HIDE DEF g
    <2> QED BY <2>1, <2>2
  <1>6. ASSUME NEW n \in Nat, Right(n) PROVE Right(n + 1)
    <2>1. PICK g \in [SUBSET S -> Int] : \A s \in SUBSET S :
                   Cardinality(s) <= n => g[s] = body(g, s)
      BY <1>6
    <2> DEFINE k == [s \in SUBSET S |-> body(g, s)]
    <2>2. k \in [SUBSET S -> Int]
      BY <1>4
    <2>3. ASSUME NEW s \in SUBSET S, Cardinality(s) <= n + 1
          PROVE  k[s] = body(k, s)
      <3>1. CASE s = {}
        BY <3>1
      <3>2. CASE s # {}
        <4>1. s \ {first(s)} \in SUBSET S /\ Cardinality(s \ {first(s)}) <= n
          BY <1>1, <1>2, <1>3, <2>3, <3>2
        <4>2. k[s \ {first(s)}] = g[s \ {first(s)}]
          BY <2>1, <4>1
        <4> QED BY <3>2, <4>2
      <3> QED BY <3>1, <3>2
    <2> QED BY <2>2, <2>3
  <1>7. Wrong = {}
    <2> SUFFICES ASSUME Wrong # {} PROVE FALSE
      OBVIOUS
    <2> HIDE DEF Right
    <2>1. PICK m \in Wrong : \A n \in Wrong : m <= n
      <3>1. Wrong \in SUBSET Nat /\ Wrong # {}
        OBVIOUS
      <3> HIDE DEF Wrong
      <3> QED BY <3>1, LeastNatural
    <2>2. m # 0 /\ m \in Nat /\ m - 1 \in Nat
      BY <1>5
    <2>3. Right(m - 1)
      BY <2>1, <2>2
    <2>4. Right((m - 1) + 1)
      BY <1>6, <2>2, <2>3
    <2>5. (m - 1) + 1 = m
      BY <2>2
    <2> QED BY <2>4, <2>5
  <1>8. \E g : g = [s \in SUBSET S |-> body(g, s)]
    <2>1. Right(Cardinality(S))
      BY <1>1, <1>7
    <2>2. PICK g \in [SUBSET S -> Int] : \A s \in SUBSET S :
                   Cardinality(s) <= Cardinality(S) => g[s] = body(g, s)
      BY <2>1
    <2>3. \A s \in SUBSET S : g[s] = body(g, s)
      BY <2>2, FS_Subset
    <2> QED BY <2>3
  <1> DEFINE h == CHOOSE g : g = [s \in SUBSET S |-> body(g, s)]
  <1>9. h = [s \in SUBSET S |-> body(h, s)]
    BY <1>8
  <1>10. SumFunction(f) = h[S]
    <2>1. DOMAIN f = S
      OBVIOUS
    <2> QED BY <2>1 DEF SumFunction, SumFunctionOnSet, FoldFunctionOnSet, MapThenFoldSet
  <1> HIDE DEF h
  <1>11. h[{}] = 0
    BY <1>9
  <1>12. \A s \in SUBSET S : s # {} => h[s] = f[first(s)] + h[s \ {first(s)}]
    BY <1>9
  <1> HIDE DEF first
  <1>13. \A s \in SUBSET S : h[s] \in Int
    <2> DEFINE Good == {s \in SUBSET S : h[s] \in Int}
    <2>1. {} \in Good
      BY <1>11
    <2>2. ASSUME NEW s \in SUBSET S, \A y \in s : s \ {y} \in Good
          PROVE  s \in Good
      <3>1. CASE s = {}
        BY <2>1, <3>1
      <3>2. CASE s # {}
        <4>1. f[first(s)] \in Int /\ h[s \ {first(s)}] \in Int
          BY <1>2, <2>2, <3>2
        <4> QED BY <1>12, <3>2, <4>1
      <3> QED BY <3>1, <3>2
    <2> HIDE DEF Good
    <2>3. Good = SUBSET S
      <3>1. Good \in SUBSET SUBSET S
        BY DEF Good
      <3> QED BY <2>1, <2>2, <3>1, SubsetInduction
    <2> QED BY <2>3 DEF Good
  <1>14. \A s \in SUBSET S : \A y \in s : h[s] = f[y] + h[s \ {y}]
    <2> DEFINE Good == {s \in SUBSET S : \A y \in s : h[s] = f[y] + h[s \ {y}]}
    <2>1. {} \in Good
      OBVIOUS
    <2>2. ASSUME NEW s \in SUBSET S, \A y \in s : s \ {y} \in Good
          PROVE  s \in Good
      <3> SUFFICES ASSUME NEW y \in s PROVE h[s] = f[y] + h[s \ {y}]
        OBVIOUS
      <3> DEFINE x == first(s)
      <3>1. x \in s /\ h[s] = f[x] + h[s \ {x}]
        BY <1>2, <1>12
      <3>2. CASE x = y
        BY <3>1, <3>2
      <3>3. CASE x # y
        <4>1. h[s \ {x}] = f[y] + h[(s \ {x}) \ {y}]
          BY <2>2, <3>1, <3>3
        <4>2. h[s \ {y}] = f[x] + h[(s \ {y}) \ {x}]
          BY <2>2, <3>1, <3>3
        <4>3. (s \ {x}) \ {y} = (s \ {y}) \ {x}
          OBVIOUS
        <4>4. f[x] \in Int /\ f[y] \in Int /\ h[(s \ {x}) \ {y}] \in Int
          BY <1>13, <3>1
        <4>5. h[s] = f[x] + (f[y] + h[(s \ {x}) \ {y}])
          BY <3>1, <4>1
        <4>6. f[y] + h[s \ {y}] = f[y] + (f[x] + h[(s \ {x}) \ {y}])
          BY <4>2, <4>3
        <4> QED BY <4>4, <4>5, <4>6
      <3> QED BY <3>2, <3>3
    <2> HIDE DEF Good
    <2>3. Good = SUBSET S
      <3>1. Good \in SUBSET SUBSET S
        BY DEF Good
      <3> QED BY <2>1, <2>2, <3>1, SubsetInduction
    <2> QED BY <2>3 DEF Good
  <1>15. h \in [SUBSET S -> Int]
    BY <1>9, <1>13
  <1> QED BY <1>10, <1>11, <1>14, <1>15 DEF Tally

\* A function that counts like a sum has its value.
LEMMA SumIs ==
    ASSUME NEW S, IsFiniteSet(S), NEW f \in [S -> Int], NEW k, Tally(k, f, S)
    PROVE  SumFunction(f) = k[S]
  <1>1. PICK h : Tally(h, f, S) /\ h[S] = SumFunction(f)
    BY TallyExists
  <1> DEFINE Good == {s \in SUBSET S : h[s] = k[s]}
  <1>2. {} \in Good
    BY <1>1 DEF Tally
  <1>3. ASSUME NEW s \in SUBSET S, \A y \in s : s \ {y} \in Good
        PROVE  s \in Good
    <2>1. CASE s = {}
      BY <1>2, <2>1
    <2>2. CASE s # {}
      <3>1. PICK y \in s : TRUE
        BY <2>2
      <3>2. h[s] = f[y] + h[s \ {y}] /\ k[s] = f[y] + k[s \ {y}]
        BY <1>1 DEF Tally
      <3>3. h[s \ {y}] = k[s \ {y}]
        BY <1>3
      <3> QED BY <3>2, <3>3
    <2> QED BY <2>1, <2>2
  <1> HIDE DEF Good
  <1>4. Good = SUBSET S
    <2>1. Good \in SUBSET SUBSET S
      BY DEF Good
    <2> QED BY <1>2, <1>3, <2>1, SubsetInduction
  <1>5. h[S] = k[S]
    BY <1>4 DEF Good
  <1> QED BY <1>1, <1>5

\* Sums of whole numbers are whole numbers.
LEMMA SumInt ==
    ASSUME NEW S, IsFiniteSet(S), NEW f \in [S -> Int]
    PROVE  SumFunction(f) \in Int
  <1>1. PICK h : Tally(h, f, S) /\ h[S] = SumFunction(f)
    BY TallyExists
  <1> QED BY <1>1 DEF Tally

\* Two functions may be added element by element or by their sums.
LEMMA SumPlus ==
    ASSUME NEW S, IsFiniteSet(S), NEW f \in [S -> Int], NEW g \in [S -> Int]
    PROVE  SumFunction([x \in S |-> f[x] + g[x]]) = SumFunction(f) + SumFunction(g)
  <1>1. PICK h : Tally(h, f, S) /\ h[S] = SumFunction(f)
    BY TallyExists
  <1>2. PICK k : Tally(k, g, S) /\ k[S] = SumFunction(g)
    BY TallyExists
  <1> DEFINE b == [x \in S |-> f[x] + g[x]]
             t == [s \in SUBSET S |-> h[s] + k[s]]
  <1>3. \A s \in SUBSET S : h[s] \in Int /\ k[s] \in Int
    BY <1>1, <1>2 DEF Tally
  <1>4. t \in [SUBSET S -> Int] /\ t[{}] = 0
    <2>1. h[{}] = 0 /\ k[{}] = 0
      BY <1>1, <1>2 DEF Tally
    <2> QED BY <1>3, <2>1
  <1>5. ASSUME NEW s \in SUBSET S, NEW y \in s
        PROVE  t[s] = b[y] + t[s \ {y}]
    <2>1. h[s] = f[y] + h[s \ {y}] /\ k[s] = g[y] + k[s \ {y}]
      BY <1>1, <1>2 DEF Tally
    <2>2. f[y] \in Int /\ g[y] \in Int /\ h[s \ {y}] \in Int /\ k[s \ {y}] \in Int
      BY <1>3
    <2>3. t[s] = h[s] + k[s] /\ t[s \ {y}] = h[s \ {y}] + k[s \ {y}] /\ b[y] = f[y] + g[y]
      OBVIOUS
    <2> HIDE DEF t, b
    <2> QED BY <2>1, <2>2, <2>3
  <1>6. Tally(t, b, S)
    <2> HIDE DEF t, b
    <2> QED BY <1>4, <1>5 DEF Tally
  <1>7. b \in [S -> Int]
    OBVIOUS
  <1>8. t[S] = h[S] + k[S]
    OBVIOUS
  <1> HIDE DEF t, b
  <1>9. SumFunction(b) = t[S]
    BY <1>6, <1>7, SumIs
  <1> QED BY <1>1, <1>2, <1>8, <1>9 DEF b

\* The sum of equal values, such as the starting chips of the seats.
LEMMA SumSame ==
    ASSUME NEW S, IsFiniteSet(S), NEW c \in Int
    PROVE  SumFunction([x \in S |-> c]) = Cardinality(S) * c
  <1> DEFINE b == [x \in S |-> c]
             t == [s \in SUBSET S |-> Cardinality(s) * c]
  <1>1. \A s \in SUBSET S : IsFiniteSet(s) /\ Cardinality(s) \in Nat
    BY FS_Subset, FS_CardinalityType
  <1>2. t \in [SUBSET S -> Int] /\ t[{}] = 0
    BY <1>1, FS_EmptySet
  <1>3. ASSUME NEW s \in SUBSET S, NEW y \in s
        PROVE  t[s] = b[y] + t[s \ {y}]
    <2>1. Cardinality(s) \in Nat /\ Cardinality(s \ {y}) = Cardinality(s) - 1
      BY <1>1, FS_RemoveElement
    <2>2. t[s] = Cardinality(s) * c /\ t[s \ {y}] = Cardinality(s \ {y}) * c /\ b[y] = c
      OBVIOUS
    <2>3. Cardinality(s) * c = c + (Cardinality(s) - 1) * c
      BY <2>1
    <2> HIDE DEF t, b
    <2> QED BY <2>1, <2>2, <2>3
  <1>4. Tally(t, b, S)
    <2> HIDE DEF t, b
    <2> QED BY <1>2, <1>3 DEF Tally
  <1>5. b \in [S -> Int] /\ t[S] = Cardinality(S) * c
    OBVIOUS
  <1> HIDE DEF t, b
  <1>6. SumFunction(b) = t[S]
    BY <1>4, <1>5, SumIs
  <1> QED BY <1>5, <1>6 DEF b

\* The sum of ones counts a set.
LEMMA SumCounts ==
    ASSUME NEW S, IsFiniteSet(S), NEW A \in SUBSET S
    PROVE  SumFunction([x \in S |-> IF x \in A THEN 1 ELSE 0]) = Cardinality(A)
  <1> DEFINE b == [x \in S |-> IF x \in A THEN 1 ELSE 0]
             t == [s \in SUBSET S |-> Cardinality(s \cap A)]
  <1>1. \A s \in SUBSET S : IsFiniteSet(s \cap A) /\ Cardinality(s \cap A) \in Nat
    BY FS_Subset, FS_CardinalityType
  <1>2. t \in [SUBSET S -> Int] /\ t[{}] = 0
    BY <1>1, FS_EmptySet
  <1>3. ASSUME NEW s \in SUBSET S, NEW y \in s
        PROVE  t[s] = b[y] + t[s \ {y}]
    <2>1. (s \ {y}) \cap A = (s \cap A) \ {y}
      OBVIOUS
    <2>2. Cardinality((s \cap A) \ {y}) = Cardinality(s \cap A) - b[y]
      <3>1. IsFiniteSet(s \cap A) /\ Cardinality(s \cap A) \in Nat
        BY <1>1
      <3>2. CASE y \in A
        BY <3>1, <3>2, FS_RemoveElement
      <3>3. CASE y \notin A
        <4>1. y \notin s \cap A /\ b[y] = 0
          BY <3>3
        <4>2. (s \cap A) \ {y} = s \cap A
          BY <4>1
        <4>3. Cardinality((s \cap A) \ {y}) = Cardinality(s \cap A)
          BY <4>2
        <4> HIDE DEF b
        <4> QED BY <3>1, <4>1, <4>3
      <3> QED BY <3>2, <3>3
    <2>3. t[s] = Cardinality(s \cap A) /\ t[s \ {y}] = Cardinality((s \cap A) \ {y})
      BY <2>1
    <2>4. b[y] \in Int /\ Cardinality(s \cap A) \in Int
      BY <1>1
    <2> HIDE DEF t, b
    <2> QED BY <2>2, <2>3, <2>4
  <1>4. Tally(t, b, S)
    <2> HIDE DEF t, b
    <2> QED BY <1>2, <1>3 DEF Tally
  <1>5. b \in [S -> Int] /\ t[S] = Cardinality(A)
    <2>1. S \cap A = A
      OBVIOUS
    <2> QED BY <2>1
  <1> HIDE DEF t, b
  <1>6. SumFunction(b) = t[S]
    BY <1>4, <1>5, SumIs
  <1> QED BY <1>5, <1>6 DEF b

\* Elements without a value may be left out.
LEMMA SumWithin ==
    ASSUME NEW S, IsFiniteSet(S), NEW T \in SUBSET S,
           NEW f \in [T -> Int], NEW g \in [S -> Int],
           \A x \in S : g[x] = IF x \in T THEN f[x] ELSE 0
    PROVE  SumFunction(g) = SumFunction(f)
  <1>0. IsFiniteSet(T)
    BY FS_Subset
  <1>1. PICK h : Tally(h, f, T) /\ h[T] = SumFunction(f)
    BY <1>0, TallyExists
  <1> DEFINE t == [s \in SUBSET S |-> h[s \cap T]]
  <1>2. \A s \in SUBSET S : h[s \cap T] \in Int
    BY <1>1 DEF Tally
  <1>3. t \in [SUBSET S -> Int] /\ t[{}] = 0
    <2>1. {} \cap T = {}
      OBVIOUS
    <2>2. h[{}] = 0
      BY <1>1 DEF Tally
    <2> QED BY <1>2, <2>1, <2>2
  <1>4. ASSUME NEW s \in SUBSET S, NEW y \in s
        PROVE  t[s] = g[y] + t[s \ {y}]
    <2>1. t[s] = h[s \cap T] /\ t[s \ {y}] = h[(s \ {y}) \cap T]
      OBVIOUS
    <2>2. CASE y \in T
      <3>1. (s \ {y}) \cap T = (s \cap T) \ {y}
        OBVIOUS
      <3>2. h[s \cap T] = f[y] + h[(s \cap T) \ {y}]
        BY <1>1, <2>2 DEF Tally
      <3>3. g[y] = f[y]
        BY <2>2
      <3>4. t[s \ {y}] = h[(s \cap T) \ {y}]
        BY <2>1, <3>1
      <3>5. t[s] = f[y] + h[(s \cap T) \ {y}]
        BY <2>1, <3>2
      <3> HIDE DEF t
      <3> QED BY <3>3, <3>4, <3>5
    <2>3. CASE y \notin T
      <3>1. (s \ {y}) \cap T = s \cap T
        BY <2>3
      <3>2. g[y] = 0 /\ h[s \cap T] \in Int
        BY <1>2, <2>3
      <3>3. t[s \ {y}] = h[s \cap T]
        BY <2>1, <3>1
      <3> HIDE DEF t
      <3> QED BY <2>1, <3>2, <3>3
    <2> QED BY <2>2, <2>3
  <1>5. Tally(t, g, S)
    <2> HIDE DEF t
    <2> QED BY <1>3, <1>4 DEF Tally
  <1>6. t[S] = h[T]
    <2>1. S \cap T = T
      OBVIOUS
    <2> QED BY <2>1
  <1> HIDE DEF t
  <1> QED BY <1>1, <1>5, <1>6, SumIs

\* A sum of natural numbers bounds each of them, and is positive through one of them.
LEMMA SumNatural ==
    ASSUME NEW S, IsFiniteSet(S), NEW f \in [S -> Nat]
    PROVE  /\ SumFunction(f) \in Nat
           /\ \A x \in S : f[x] <= SumFunction(f)
           /\ SumFunction(f) > 0 => \E x \in S : f[x] > 0
  <1>0. f \in [S -> Int]
    OBVIOUS
  <1>1. PICK h : Tally(h, f, S) /\ h[S] = SumFunction(f)
    BY <1>0, TallyExists
  <1> DEFINE Good == {s \in SUBSET S : h[s] \in Nat /\ (h[s] > 0 => \E x \in s : f[x] > 0)}
  <1>2. {} \in Good
    BY <1>1 DEF Tally
  <1>3. ASSUME NEW s \in SUBSET S, \A y \in s : s \ {y} \in Good
        PROVE  s \in Good
    <2>1. CASE s = {}
      BY <1>2, <2>1
    <2>2. CASE s # {}
      <3>1. PICK y \in s : TRUE
        BY <2>2
      <3>2. h[s] = f[y] + h[s \ {y}] /\ f[y] \in Nat
        BY <1>1 DEF Tally
      <3>3. h[s \ {y}] \in Nat /\ (h[s \ {y}] > 0 => \E x \in s \ {y} : f[x] > 0)
        BY <1>3
      <3>4. h[s] > 0 => f[y] > 0 \/ h[s \ {y}] > 0
        BY <3>2, <3>3
      <3> QED BY <3>2, <3>3, <3>4
    <2> QED BY <2>1, <2>2
  <1> HIDE DEF Good
  <1>4. Good = SUBSET S
    <2>1. Good \in SUBSET SUBSET S
      BY DEF Good
    <2> QED BY <1>2, <1>3, <2>1, SubsetInduction
  <1>5. h[S] \in Nat /\ (h[S] > 0 => \E x \in S : f[x] > 0)
    BY <1>4 DEF Good
  <1>6. ASSUME NEW x \in S PROVE f[x] <= h[S]
    <2>1. h[S] = f[x] + h[S \ {x}]
      BY <1>1 DEF Tally
    <2>2. h[S \ {x}] \in Nat
      BY <1>4 DEF Good
    <2> QED BY <2>1, <2>2
  <1> QED BY <1>1, <1>5, <1>6

\* One value is replaced: a player's stack or bet.
LEMMA SumChanged ==
    ASSUME NEW S, IsFiniteSet(S), NEW f \in [S -> Int], NEW x \in S, NEW v \in Int
    PROVE  SumFunction([f EXCEPT ![x] = v]) = SumFunction(f) - f[x] + v
  <1> DEFINE d == [y \in S |-> IF y = x THEN v - f[x] ELSE 0]
             e == [y \in {x} |-> v - f[x]]
  <1>1. [f EXCEPT ![x] = v] = [y \in S |-> f[y] + d[y]]
    <2>1. ASSUME NEW y \in S PROVE [f EXCEPT ![x] = v][y] = f[y] + d[y]
      <3>1. f[y] \in Int /\ f[x] \in Int
        OBVIOUS
      <3>2. [f EXCEPT ![x] = v][y] = IF y = x THEN v ELSE f[y]
        OBVIOUS
      <3>3. d[y] = IF y = x THEN v - f[x] ELSE 0
        OBVIOUS
      <3> HIDE DEF d
      <3> QED BY <3>1, <3>2, <3>3
    <2> HIDE DEF d
    <2> QED BY <2>1
  <1>2. d \in [S -> Int] /\ e \in [{x} -> Int] /\ {x} \in SUBSET S
    OBVIOUS
  <1>3. SumFunction(e) = v - f[x]
    <2>1. SumFunction([y \in {x} |-> v - f[x]]) = Cardinality({x}) * (v - f[x])
      <3>1. IsFiniteSet({x})
        BY FS_Singleton
      <3>2. v - f[x] \in Int
        OBVIOUS
      <3> QED BY <3>1, <3>2, SumSame
    <2>2. Cardinality({x}) = 1 /\ v - f[x] \in Int
      BY FS_Singleton
    <2>3. Cardinality({x}) * (v - f[x]) = v - f[x]
      BY <2>2
    <2> QED BY <2>1, <2>3
  <1>4. \A y \in S : d[y] = IF y \in {x} THEN e[y] ELSE 0
    OBVIOUS
  <1> HIDE DEF d, e
  <1>5. SumFunction(d) = SumFunction(e)
    BY <1>2, <1>4, SumWithin
  <1>6. SumFunction([y \in S |-> f[y] + d[y]]) = SumFunction(f) + SumFunction(d)
    BY <1>2, SumPlus
  <1>7. SumFunction(f) \in Int /\ f[x] \in Int
    BY SumInt
  <1> QED BY <1>1, <1>3, <1>5, <1>6, <1>7

-----------------------------------------------------------------------------
(***************************************************************************)
(* Quotients and powers.                                                   *)
(***************************************************************************)

\* divmod
LEMMA Division ==
    ASSUME NEW a \in Nat, NEW n \in Nat \ {0}
    PROVE  /\ a \div n \in Nat
           /\ a % n \in 0..(n - 1)
           /\ a = n * (a \div n) + (a % n)
OBVIOUS

\* The quotient grows by one at each multiple.
LEMMA NextQuotient ==
    ASSUME NEW a \in Nat, NEW n \in Nat \ {0}
    PROVE  (a + 1) \div n = a \div n + (IF (a + 1) % n = 0 THEN 1 ELSE 0)
  <1> DEFINE q == a \div n
             r == a % n
             p == (a + 1) \div n
             t == (a + 1) % n
  <1>1. q \in Nat /\ r \in 0..(n - 1) /\ a = n * q + r
    BY Division
  <1>2. p \in Nat /\ t \in 0..(n - 1) /\ a + 1 = n * p + t
    <2>1. a + 1 \in Nat
      OBVIOUS
    <2> QED BY <2>1, Division
  <1> HIDE DEF q, r, p, t
  <1>3. n * p - n * q = r + 1 - t
    BY <1>1, <1>2
  <1>4. n * (p - q) = r + 1 - t
    BY <1>1, <1>2, <1>3
  <1>5. r + 1 - t \in (2 - n)..n
    BY <1>1, <1>2
  <1> DEFINE e == p - q
  <1>6. e \in Int /\ n * e = r + 1 - t
    BY <1>1, <1>2, <1>4
  <1> HIDE DEF e
  <1>7. ~ (e >= 2) /\ ~ (e <= -1)
    <2>1. e >= 2 => n * e >= n * 2
      BY <1>6
    <2>2. e <= -1 => n * e <= -n
      BY <1>6
    <2> QED BY <1>5, <1>6, <2>1, <2>2
  <1>8. e = 0 \/ e = 1
    BY <1>6, <1>7
  <1>9. e = 0 => t = r + 1
    BY <1>1, <1>2, <1>6
  <1>10. e = 1 => t = r + 1 - n
    BY <1>1, <1>2, <1>6
  <1>11. t = 0 <=> e = 1
    BY <1>1, <1>2, <1>8, <1>9, <1>10
  <1>12. p = q + (IF t = 0 THEN 1 ELSE 0)
    BY <1>1, <1>2, <1>8, <1>11 DEF e
  <1> QED BY <1>12 DEF p, q, t

\* Of the numbers up to k, as many are multiples of n as the quotient says.
LEMMA Multiples ==
    ASSUME NEW k \in Nat, NEW n \in Nat \ {0}
    PROVE  Cardinality({m \in 1..k : m % n = 0}) = k \div n
  <1> DEFINE Those(j) == {m \in 1..j : m % n = 0}
             Wrong == {j \in Nat : Cardinality(Those(j)) # j \div n}
  <1>1. Those(0) = {} /\ 0 \div n = 0
    OBVIOUS
  <1>2. 0 \notin Wrong
    BY <1>1, FS_EmptySet
  <1>3. ASSUME NEW j \in Nat, j \notin Wrong PROVE j + 1 \notin Wrong
    <2>1. IsFiniteSet(Those(j)) /\ Cardinality(Those(j)) \in Nat
      <3>1. IsFiniteSet(1..j)
        BY FS_Interval
      <3>2. Those(j) \in SUBSET (1..j)
        OBVIOUS
      <3> QED BY <3>1, <3>2, FS_Subset, FS_CardinalityType
    <2>2. Those(j + 1) = IF (j + 1) % n = 0 THEN Those(j) \cup {j + 1} ELSE Those(j)
      <3>1. 1..(j + 1) = (1..j) \cup {j + 1}
        OBVIOUS
      <3> QED BY <3>1
    <2>3. j + 1 \notin Those(j)
      OBVIOUS
    <2>4. Cardinality(Those(j)) = j \div n
      BY <1>3
    <2> HIDE DEF Those
    <2>5. Cardinality(Those(j + 1)) = j \div n + (IF (j + 1) % n = 0 THEN 1 ELSE 0)
      <3>1. CASE (j + 1) % n = 0
        BY <2>1, <2>2, <2>3, <2>4, <3>1, FS_AddElement
      <3>2. CASE (j + 1) % n # 0
        <4>1. Those(j + 1) = Those(j)
          BY <2>2, <3>2
        <4>2. j \div n \in Nat
          BY Division
        <4> QED BY <2>4, <3>2, <4>1, <4>2
      <3> QED BY <3>1, <3>2
    <2> QED BY <2>5, NextQuotient
  <1>4. Wrong = {}
    <2> SUFFICES ASSUME Wrong # {} PROVE FALSE
      OBVIOUS
    <2>1. Wrong \in SUBSET Nat
      OBVIOUS
    <2> HIDE DEF Wrong
    <2>2. PICK m \in Wrong : \A j \in Wrong : m <= j
      BY <2>1, LeastNatural
    <2>3. m \in Nat /\ m # 0 /\ m - 1 \in Nat /\ (m - 1) + 1 = m
      BY <1>2, <2>1
    <2>4. m - 1 \notin Wrong
      BY <2>2, <2>3
    <2> QED BY <1>3, <2>3, <2>4
  <1> QED BY <1>4

\* A power of two counts the subsets of a set, so it is a positive number.
LEMMA TwoPower ==
    ASSUME NEW k \in Nat
    PROVE  2 ^ k \in Nat \ {0}
  <1>1. IsFiniteSet(1..k) /\ Cardinality(1..k) = k
    BY FS_Interval
  <1>2. IsFiniteSet(SUBSET (1..k)) /\ Cardinality(SUBSET (1..k)) = 2 ^ k
    BY <1>1, FS_SUBSET
  <1>3. SUBSET (1..k) # {}
    OBVIOUS
  <1> DEFINE P == SUBSET (1..k)
  <1>4. IsFiniteSet(P) /\ Cardinality(P) = 2 ^ k /\ P # {}
    BY <1>2, <1>3
  <1> HIDE DEF P
  <1> QED BY <1>4, FS_CardinalityType, FS_EmptySet

-----------------------------------------------------------------------------
\* Share: the chips of a quitter are divided without remainder, and of two
\* recipients the first gets as much as the other or one chip more.
LEMMA Shares ==
    ASSUME NEW R, R \in SUBSET Seats, R # {}, NEW a \in Nat
    PROVE  /\ \A s \in R : Share(a, R, s) \in Nat
           /\ SumFunction([s \in R |-> Share(a, R, s)]) = a
           /\ \A r, s \in R : r < s => Share(a, R, r) - Share(a, R, s) \in {0, 1}
  <1> DEFINE n == Cardinality(R)
             q == a \div n
             m == a % n
             Those(s) == {r \in R : r < s}
             rank(s) == Cardinality(Those(s))
             Lucky == {s \in R : rank(s) < m}
  <1>1. IsFiniteSet(R) /\ n \in Nat \ {0} /\ R \in SUBSET Int
    <2>1. IsFiniteSet(Seats) /\ Seats \in SUBSET Int
      BY CoordinatorAssumption, FS_Interval DEF Seats
    <2>2. IsFiniteSet(R)
      BY <2>1, FS_Subset
    <2> QED BY <2>1, <2>2, FS_CardinalityType, FS_EmptySet
  <1>2. q \in Nat /\ m \in 0..(n - 1) /\ a = n * q + m
    <2> HIDE DEF n
    <2> QED BY <1>1, Division
  <1>3. \A s \in R : IsFiniteSet(Those(s)) /\ rank(s) \in Nat
    BY <1>1, FS_Subset, FS_CardinalityType
  <1>4. ASSUME NEW r \in R, NEW s \in R, r < s PROVE rank(r) < rank(s)
    <2>1. Those(r) \in SUBSET Those(s) /\ r \in Those(s) /\ r \notin Those(r)
      <3>1. \A x \in R : x \in Int
        BY <1>1
      <3>2. \A x \in R : x < r => x < s
        BY <1>4, <3>1
      <3> QED BY <1>4, <3>1, <3>2
    <2> HIDE DEF Those
    <2>2. Cardinality(Those(r)) <= Cardinality(Those(s)) /\ Cardinality(Those(r)) # Cardinality(Those(s))
      BY <1>3, <2>1, FS_Subset
    <2> QED BY <1>3, <2>2
  <1>5. ASSUME NEW s \in R PROVE rank(s) \in 0..(n - 1)
    <2>1. Those(s) \in SUBSET R /\ s \notin Those(s)
      BY <1>1
    <2> HIDE DEF Those
    <2>2. Cardinality(Those(s)) <= n /\ Cardinality(Those(s)) # n
      BY <1>1, <2>1, FS_Subset
    <2> QED BY <1>1, <1>3, <2>2
  <1>6. \A s \in R : Share(a, R, s) = q + (IF rank(s) < m THEN 1 ELSE 0)
    BY DEF Share
  <1> HIDE DEF q, m, rank, n
  <1>7. IsFiniteSet(0..(n - 1)) /\ Cardinality(0..(n - 1)) = n
    BY <1>1, FS_Interval
  <1>8. \A k \in 0..(n - 1) : \E s \in R : rank(s) = k
    <2> DEFINE f == [s \in R |-> rank(s)]
    <2>1. f \in [R -> 0..(n - 1)]
      BY <1>5
    <2>2. ASSUME NEW r \in R, NEW s \in R, r # s PROVE f[r] # f[s]
      <3>1. r \in Int /\ s \in Int
        BY <1>1, <2>2
      <3>2. r < s \/ s < r
        BY <2>2, <3>1
      <3>3. rank(r) \in Nat /\ rank(s) \in Nat /\ (rank(r) < rank(s) \/ rank(s) < rank(r))
        BY <1>3, <1>4, <2>2, <3>2
      <3>4. f[r] = rank(r) /\ f[s] = rank(s)
        BY <2>2
      <3> HIDE DEF f
      <3> QED BY <3>3, <3>4
    <2>3. f \in Injection(R, 0..(n - 1))
      BY <2>1, <2>2, Fun_IsInj
    <2>4. f \in Surjection(R, 0..(n - 1))
      BY <1>7, <2>3, FS_Injection DEF n
    <2>5. \A k \in 0..(n - 1) : \E s \in R : f[s] = k
      BY <2>4 DEF Surjection
    <2> QED BY <2>5
  <1>9. IsFiniteSet(Lucky) /\ Cardinality(Lucky) = m
    <2> DEFINE f == [s \in Lucky |-> rank(s)]
    <2>1. f \in [Lucky -> 0..(m - 1)]
      BY <1>2, <1>3, <1>5
    <2>2. ASSUME NEW r \in Lucky, NEW s \in Lucky, r # s PROVE f[r] # f[s]
      <3>1. r \in Int /\ s \in Int
        BY <1>1, <2>2
      <3>2. r < s \/ s < r
        BY <2>2, <3>1
      <3>3. rank(r) \in Nat /\ rank(s) \in Nat /\ (rank(r) < rank(s) \/ rank(s) < rank(r))
        BY <1>3, <1>4, <2>2, <3>2
      <3>4. f[r] = rank(r) /\ f[s] = rank(s)
        BY <2>2
      <3> HIDE DEF f
      <3> QED BY <3>3, <3>4
    <2>3. ASSUME NEW k \in 0..(m - 1) PROVE \E s \in Lucky : f[s] = k
      <3>1. k \in 0..(n - 1) /\ k < m
        BY <1>1, <1>2
      <3>2. PICK s \in R : rank(s) = k
        BY <1>8, <3>1
      <3> QED BY <3>1, <3>2
    <2> HIDE DEF Lucky, f
    <2>4. f \in Injection(Lucky, 0..(m - 1)) /\ f \in Surjection(Lucky, 0..(m - 1))
      BY <2>1, <2>2, <2>3, Fun_IsInj, Fun_IsSurj
    <2>5. IsFiniteSet(0..(m - 1)) /\ Cardinality(0..(m - 1)) = m
      BY <1>1, <1>2, FS_Interval
    <2> QED BY <2>4, <2>5, FS_Injection
  <1> DEFINE even == [s \in R |-> q]
             extra == [s \in R |-> IF s \in Lucky THEN 1 ELSE 0]
             share == [s \in R |-> Share(a, R, s)]
  <1>10. share = [s \in R |-> even[s] + extra[s]]
    BY <1>6
  <1>11. SumFunction(even) = n * q
    <2>1. SumFunction([s \in R |-> q]) = Cardinality(R) * q
      <3>1. IsFiniteSet(R) /\ q \in Int
        BY <1>1, <1>2
      <3> QED BY <3>1, SumSame
    <2> QED BY <2>1 DEF n
  <1>12. SumFunction(extra) = m
    <2>1. Lucky \in SUBSET R
      OBVIOUS
    <2> HIDE DEF Lucky
    <2> QED BY <1>1, <1>9, <2>1, SumCounts
  <1>13. even \in [R -> Int] /\ extra \in [R -> Int]
    BY <1>2
  <1>14. SumFunction(share) = a
    <2> HIDE DEF even, extra
    <2>1. SumFunction([s \in R |-> even[s] + extra[s]]) = SumFunction(even) + SumFunction(extra)
      BY <1>1, <1>13, SumPlus
    <2> HIDE DEF share
    <2> QED BY <1>2, <1>10, <1>11, <1>12, <2>1
  <1>15. ASSUME NEW s \in R PROVE Share(a, R, s) \in Nat
    BY <1>2, <1>6
  <1>16. ASSUME NEW r \in R, NEW s \in R, r < s
         PROVE  Share(a, R, r) - Share(a, R, s) \in {0, 1}
    <2>1. rank(r) < rank(s) /\ rank(r) \in Nat /\ rank(s) \in Nat
      BY <1>3, <1>4, <1>16
    <2> QED BY <1>2, <1>6, <2>1
  <1> QED BY <1>14, <1>15, <1>16
-----------------------------------------------------------------------------
(***************************************************************************)
(* Seats and blinds.                                                       *)
(***************************************************************************)

\* What the assumption on the constants says of the seats.
LEMMA SeatCount ==
    /\ N \in Nat \ {0, 1}
    /\ IsFiniteSet(Seats) /\ Cardinality(Seats) = N
    /\ Seats \in SUBSET Nat
BY CoordinatorAssumption, FS_Interval DEF Seats

\* Seat numbers wrap around once.
LEMMA Rounded ==
    ASSUME NEW a \in 0..(2 * N - 1)
    PROVE  a % N = IF a < N THEN a ELSE a - N
  <1>1. N \in Nat \ {0}
    BY SeatCount
  <1> DEFINE q == a \div N
             r == a % N
  <1>2. q \in Nat /\ r \in 0..(N - 1) /\ a = N * q + r
    <2>1. a \in Nat
      BY <1>1
    <2> QED BY <1>1, <2>1, Division
  <1> HIDE DEF q, r
  <1>3. ~ (q >= 2)
    <2>1. q >= 2 => N * q >= N * 2
      BY <1>1, <1>2
    <2> QED BY <1>1, <1>2, <2>1
  <1>4. q = 0 \/ q = 1
    BY <1>2, <1>3
  <1>5. (q = 0 => r = a) /\ (q = 1 => r = a - N)
    BY <1>1, <1>2
  <1> QED BY <1>1, <1>2, <1>4, <1>5 DEF r

\* The next seat, and how far another one is.
LEMMA Clockwise ==
    ASSUME NEW s \in Seats
    PROVE  /\ (s + 0) % N = s
           /\ (s + 1) % N = IF s + 1 = N THEN 0 ELSE s + 1
           /\ (s + 1) % N \in Seats
           /\ \A t \in Seats : Distance(s, t) = IF t >= s THEN t - s ELSE t - s + N
  <1>1. N \in Nat \ {0, 1} /\ s \in 0..(N - 1)
    BY SeatCount DEF Seats
  <1>2. s + 0 \in 0..(2 * N - 1) /\ s + 1 \in 0..(2 * N - 1)
    BY <1>1
  <1>3. (s + 0) % N = s
    BY <1>1, <1>2, Rounded
  <1>4. (s + 1) % N = IF s + 1 = N THEN 0 ELSE s + 1
    BY <1>1, <1>2, Rounded
  <1>5. (s + 1) % N \in Seats
    BY <1>1, <1>4 DEF Seats
  <1>6. ASSUME NEW t \in Seats PROVE Distance(s, t) = IF t >= s THEN t - s ELSE t - s + N
    <2>1. t \in 0..(N - 1)
      BY DEF Seats
    <2>2. t - s + N \in 0..(2 * N - 1)
      BY <1>1, <2>1
    <2>3. (t - s + N) % N = IF t - s + N < N THEN t - s + N ELSE (t - s + N) - N
      <3> DEFINE x == t - s + N
      <3>1. x \in 0..(2 * N - 1)
        BY <2>2
      <3> HIDE DEF x
      <3>2. x % N = IF x < N THEN x ELSE x - N
        BY <3>1, Rounded
      <3> QED BY <3>2 DEF x
    <2> QED BY <1>1, <2>1, <2>3 DEF Distance
  <1> QED BY <1>3, <1>4, <1>5, <1>6

\* SeatFrom finds a nearest seat.
LEMMA SeatFound ==
    ASSUME NEW S \in SUBSET Seats, S # {}, NEW s \in Seats, NEW d \in {0, 1}
    PROVE  /\ SeatFrom(S, s, d) \in S
           /\ \A u \in S : Distance((s + d) % N, SeatFrom(S, s, d)) <= Distance((s + d) % N, u)
  <1> DEFINE b == (s + d) % N
             Distances == {Distance(b, t) : t \in S}
  <1>1. b \in Seats
    <2>1. CASE d = 0
      BY <2>1, Clockwise
    <2>2. CASE d = 1
      BY <2>2, Clockwise
    <2> QED BY <2>1, <2>2
  <1> HIDE DEF b
  <1>2. \A t \in Seats : Distance(b, t) \in Nat
    <2> SUFFICES ASSUME NEW t \in Seats PROVE Distance(b, t) \in Nat
      OBVIOUS
    <2>1. Distance(b, t) = IF t >= b THEN t - b ELSE t - b + N
      BY <1>1, Clockwise
    <2>2. t \in 0..(N - 1) /\ b \in 0..(N - 1) /\ N \in Nat
      BY <1>1, SeatCount DEF Seats
    <2> QED BY <2>1, <2>2
  <1>3. Distances \in SUBSET Nat /\ Distances # {}
    BY <1>2
  <1>4. PICK m \in Distances : \A n \in Distances : m <= n
    <2> HIDE DEF Distances
    <2> QED BY <1>3, LeastNatural
  <1>5. PICK t \in S : Distance(b, t) = m
    BY <1>4
  <1>6. \E v \in S : \A u \in S : Distance(b, v) <= Distance(b, u)
    BY <1>4, <1>5
  <1>7. SeatFrom(S, s, d) = CHOOSE v \in S : \A u \in S : Distance(b, v) <= Distance(b, u)
    BY DEF SeatFrom, b
  <1>8. SeatFrom(S, s, d) \in S /\ \A u \in S : Distance(b, SeatFrom(S, s, d)) <= Distance(b, u)
    BY <1>6, <1>7
  <1> QED BY <1>8 DEF b

\* _next_active_button: the button is a player with chips.
LEMMA ButtonFound ==
    ASSUME NEW S \in SUBSET Seats, S # {}, NEW b \in Seats
    PROVE  NextActiveButton(S, b) \in S
BY SeatFound DEF NextActiveButton

\* The seat after one of several is another one.
LEMMA NextSeat ==
    ASSUME NEW S \in SUBSET Seats, NEW s \in S, NEW u \in S, u # s
    PROVE  After(S, s) \in S /\ After(S, s) # s
  <1> DEFINE b == (s + 1) % N
  <1>1. After(S, s) \in S /\ Distance(b, After(S, s)) <= Distance(b, u)
    BY SeatFound DEF After
  <1>2. N \in Nat \ {0, 1} /\ s \in 0..(N - 1) /\ u \in 0..(N - 1) /\ s \in Seats /\ u \in Seats
    BY SeatCount DEF Seats
  <1>3. b = (IF s + 1 = N THEN 0 ELSE s + 1) /\ b \in Seats
    BY <1>2, Clockwise
  <1> HIDE DEF b
  <1>4. /\ Distance(b, s) = IF s >= b THEN s - b ELSE s - b + N
        /\ Distance(b, u) = IF u >= b THEN u - b ELSE u - b + N
    BY <1>2, <1>3, Clockwise
  <1>5. Distance(b, s) = N - 1
    BY <1>2, <1>3, <1>4
  <1>6. Distance(b, u) < N - 1
    BY <1>2, <1>3, <1>4
  <1>7. Distance(b, u) \in Int
    BY <1>2, <1>3, <1>4
  <1> QED BY <1>1, <1>2, <1>5, <1>6, <1>7

\* _raw_blinds read by PokerKit: who owes what in a hand.
LEMMA BlindsOwed ==
    ASSUME NEW S \in SUBSET Seats, Cardinality(S) >= 2, NEW d \in S, NEW b \in Nat,
           NEW owed, owed = Owed(S, RawBlinds(S, d, b)),
           NEW small, small = IF Cardinality(S) = 2 THEN d ELSE After(S, d),
           NEW big, big = After(S, small)
    PROVE  /\ owed \in [Seats -> Nat]
           /\ owed[small] = b
           /\ owed[big] = 2 * b
           /\ \A s \in Seats \ {small, big} : owed[s] = 0
  <1> DEFINE raw == RawBlinds(S, d, b)
             next == After(S, d)
  <1>1. IsFiniteSet(S) /\ Cardinality(S) \in Nat
    BY SeatCount, FS_Subset, FS_CardinalityType
  <1>2. ASSUME NEW s \in S PROVE \E u \in S : u # s
    <2> SUFFICES ASSUME \A u \in S : u = s PROVE FALSE
      OBVIOUS
    <2>1. S = {s}
      BY <1>2
    <2>2. Cardinality(S) = 1
      BY <2>1, FS_Singleton
    <2> QED BY <2>2
  <1>3. \A s \in S : After(S, s) \in S /\ After(S, s) # s
    BY <1>2, NextSeat
  <1>4. b \in Int /\ 2 * b \in Nat
    OBVIOUS
  <1>5. CASE Cardinality(S) = 2
    <2>1. S = {d, next}
      <3>1. {d, next} \in SUBSET S /\ d # next
        BY <1>3
      <3> HIDE DEF next
      <3>2. Cardinality({d, next}) = 2
        <4>1. IsFiniteSet({d}) /\ Cardinality({d}) = 1
          BY FS_Singleton
        <4>2. Cardinality({d} \cup {next}) = 2
          <5>1. next \notin {d}
            BY <3>1
          <5> DEFINE D == {d}
          <5>2. IsFiniteSet(D) /\ Cardinality(D) = 1 /\ next \notin D
            BY <4>1, <5>1
          <5> HIDE DEF D
          <5>3. Cardinality(D \cup {next}) = 2
            BY <5>2, FS_AddElement
          <5> QED BY <5>3 DEF D
        <4>3. {d, next} = {d} \cup {next}
          OBVIOUS
        <4> QED BY <4>2, <4>3
      <3> DEFINE T == {d, next}
      <3>3. T \in SUBSET S /\ Cardinality(T) = Cardinality(S)
        BY <1>5, <3>1, <3>2
      <3> HIDE DEF T
      <3>4. T = S
        BY <1>1, <3>3, FS_Subset
      <3> QED BY <3>4 DEF T
    <2>2. After(S, next) = d /\ next # d /\ next \in S
      BY <1>3, <2>1
    <2> HIDE DEF next
    <2>3. raw = [s \in Seats |-> IF s \notin S THEN 0 ELSE IF s = d THEN 2 * b ELSE b]
      BY <1>5 DEF RawBlinds
    <2>4. \A s \in Seats : owed[s] = IF s \in S THEN raw[After(S, s)] ELSE raw[s]
      BY <1>5 DEF Owed
    <2>5. owed[d] = b /\ owed[next] = 2 * b
      <3>1. d \in Seats /\ next \in Seats
        BY <2>2
      <3>2. raw[next] = b /\ raw[d] = 2 * b
        BY <2>2, <2>3, <3>1
      <3> HIDE DEF raw
      <3> QED BY <2>2, <2>4, <3>1, <3>2 DEF next
    <2>6. \A s \in Seats \ {d, next} : owed[s] = 0
      BY <2>1, <2>3, <2>4
    <2>7. owed \in [Seats -> Nat]
      <3>1. owed = [s \in Seats |-> owed[s]]
        BY DEF Owed
      <3>2. \A s \in Seats : owed[s] \in Nat
        BY <1>4, <2>5, <2>6
      <3> QED BY <3>1, <3>2
    <2> QED BY <1>5, <2>5, <2>6, <2>7 DEF next
  <1>6. CASE Cardinality(S) # 2
    <2>0. big = After(S, next)
      BY <1>6
    <2>1. next \in S /\ big \in S /\ big # next
      BY <1>3, <2>0
    <2>2. raw = [s \in Seats |-> IF s \notin S THEN 0
                                 ELSE IF s = next THEN b
                                 ELSE IF s = big THEN 2 * b ELSE 0]
      BY <1>6, <2>0 DEF RawBlinds
    <2>3. \A s \in Seats : owed[s] = raw[s]
      BY <1>6 DEF Owed
    <2> HIDE DEF next
    <2>4. owed[next] = b /\ owed[big] = 2 * b /\ \A s \in Seats \ {next, big} : owed[s] = 0
      BY <2>1, <2>2, <2>3
    <2>5. owed \in [Seats -> Nat]
      <3>1. owed = [s \in Seats |-> owed[s]]
        BY DEF Owed
      <3>2. \A s \in Seats : owed[s] \in Nat
        BY <1>4, <2>4
      <3> QED BY <3>1, <3>2
    <2> QED BY <1>6, <2>4, <2>5 DEF next
  <1> QED BY <1>5, <1>6

\* blind_amounts: the size doubles once for every IncreaseEvery hands played before.
LEMMA BlindSize ==
    ASSUME NEW n \in Nat \ {0}
    PROVE  /\ BlindAmount(n) \in Nat \ {0}
           /\ BlindAmount(n) =
                SmallBlind * 2 ^ Cardinality({m \in 1..(n - 1) : m % IncreaseEvery = 0})
  <1>1. n - 1 \in Nat /\ IncreaseEvery \in Nat \ {0} /\ SmallBlind \in Nat \ {0}
    BY CoordinatorAssumption
  <1> DEFINE k == (n - 1) \div IncreaseEvery
  <1>2. k \in Nat
    BY <1>1, Division
  <1>3. Cardinality({m \in 1..(n - 1) : m % IncreaseEvery = 0}) = k
    BY <1>1, Multiples
  <1>4. BlindAmount(n) = SmallBlind * 2 ^ k
    BY DEF BlindAmount
  <1> HIDE DEF k
  <1>5. 2 ^ k \in Nat \ {0}
    BY <1>2, TwoPower
  <1>6. SmallBlind * 2 ^ k \in Nat \ {0}
    <2> DEFINE p == 2 ^ k
    <2>1. p \in Nat \ {0}
      BY <1>5
    <2> HIDE DEF p
    <2>2. SmallBlind * p \in Nat \ {0}
      BY <1>1, <2>1
    <2> QED BY <2>2 DEF p
  <1> QED BY <1>3, <1>4, <1>6
-----------------------------------------------------------------------------
(***************************************************************************)
(* The inductive invariant.                                                *)
(***************************************************************************)

\* The type invariant.  Nobody is asked to show without the choice.
TypeInv ==
    /\ status \in {"active", "complete"}
    /\ button \in Seats
    /\ handNumber \in Nat \ {0}
    /\ stacks \in [Seats -> Nat]
    /\ chips \in [Seats -> Nat]
    /\ bets \in [Seats -> Nat]
    /\ players \in SUBSET Seats
    /\ folded \in SUBSET players
    /\ pot \in Nat
    /\ vanished \in Nat
    /\ street \in 1..(IF ShowdownChoice THEN LastStreet + 1 ELSE LastStreet)

\* The chips of the match and those of the running hand.
MoneyInv ==
    /\ SumFunction(stacks) + vanished = Total
    /\ status = "active" => SumFunction(chips) + SumFunction(bets) + pot = SumFunction(stacks)

\* Who plays the running hand, and for what.
HandInv ==
    status = "active" =>
      /\ players = Alive(stacks)
      /\ Cardinality(players) >= 2
      /\ dealer \in players
      /\ posted = Owed(players, RawBlinds(players, dealer, BlindAmount(handNumber)))
      /\ FixedHands # 0 => handNumber <= FixedHands
      /\ \A s \in Seats \ players : chips[s] = 0 /\ bets[s] = 0

\* What is left of the match.
OverInv ==
    status = "complete" =>
      /\ players = {}
      /\ \/ Cardinality(Alive(stacks)) <= 1
         \/ FixedHands # 0 /\ handNumber = FixedHands
      /\ ~ShowdownChoice => Alive(stacks) # {}

IInv == TypeInv /\ MoneyInv /\ HandInv /\ OverInv

-----------------------------------------------------------------------------
\* The players with chips are finitely many seats.
LEMMA AliveCount ==
    ASSUME NEW st
    PROVE  /\ Alive(st) \in SUBSET Seats
           /\ IsFiniteSet(Alive(st)) /\ Cardinality(Alive(st)) \in Nat
  <1>1. Alive(st) \in SUBSET Seats
    BY DEF Alive
  <1> QED BY <1>1, SeatCount, FS_Subset, FS_CardinalityType

\* Two or more are not none.
LEMMA SeveralThere ==
    ASSUME NEW S, Cardinality(S) >= 2
    PROVE  S # {}
BY FS_EmptySet

\* The blinds move chips from the stacks to the bets.
LEMMA BlindsPosted ==
    ASSUME NEW st \in [Seats -> Nat], NEW owed \in [Seats -> Nat],
           NEW b, b = [s \in Seats |-> Least(st[s], owed[s])],
           NEW c, c = [s \in Seats |-> st[s] - b[s]]
    PROVE  /\ b \in [Seats -> Nat] /\ c \in [Seats -> Nat]
           /\ SumFunction(c) + SumFunction(b) = SumFunction(st)
           /\ \A s \in Seats : st[s] = 0 => c[s] = 0 /\ b[s] = 0
  <1>1. ASSUME NEW s \in Seats
        PROVE  /\ b[s] \in Nat /\ c[s] \in Nat /\ c[s] + b[s] = st[s]
               /\ st[s] = 0 => c[s] = 0 /\ b[s] = 0
    <2>1. st[s] \in Nat /\ owed[s] \in Nat
      OBVIOUS
    <2>2. b[s] = IF st[s] < owed[s] THEN st[s] ELSE owed[s]
      BY DEF Least
    <2>3. c[s] = st[s] - b[s]
      OBVIOUS
    <2> QED BY <2>1, <2>2, <2>3
  <1>2. b \in [Seats -> Nat] /\ c \in [Seats -> Nat]
    <2>1. b = [s \in Seats |-> b[s]] /\ c = [s \in Seats |-> c[s]]
      OBVIOUS
    <2> QED BY <1>1, <2>1
  <1>3. [s \in Seats |-> c[s] + b[s]] = st
    BY <1>1
  <1>4. b \in [Seats -> Int] /\ c \in [Seats -> Int] /\ IsFiniteSet(Seats)
    BY <1>2, SeatCount
  <1>5. SumFunction([s \in Seats |-> c[s] + b[s]]) = SumFunction(c) + SumFunction(b)
    <2>1. \A f, g \in [Seats -> Int] :
             SumFunction([s \in Seats |-> f[s] + g[s]]) = SumFunction(f) + SumFunction(g)
      BY <1>4, SumPlus
    <2> QED BY <1>4, <2>1
  <1> QED BY <1>1, <1>2, <1>3, <1>5

\* settle_hand and start_hand: what the settled stacks must add up to.
LEMMA Settles ==
    ASSUME IInv, players # {},
           NEW final \in [players -> Nat], SettleWith(final), vanished' \in Nat,
           NEW st, st = [s \in Seats |-> IF s \in players THEN final[s] ELSE 0],
           SumFunction(st) + vanished' = Total,
           ~ShowdownChoice => SumFunction(st) > 0
    PROVE  IInv'
  <1>1. TypeInv /\ MoneyInv /\ HandInv /\ OverInv /\ status = "active"
    BY DEF IInv, TypeInv, OverInv
  <1>2. ASSUME NEW s \in Seats PROVE (IF s \in players THEN final[s] ELSE stacks[s]) = st[s]
    <2>1. CASE s \in players
      BY <2>1
    <2>2. CASE s \notin players
      <3>1. s \notin Alive(stacks) /\ stacks[s] \in Nat
        BY <1>1, <2>2 DEF HandInv, TypeInv
      <3>2. stacks[s] = 0
        BY <3>1 DEF Alive
      <3> QED BY <2>2, <3>2
    <2> QED BY <2>1, <2>2
  <1>3. st = [s \in Seats |-> IF s \in players THEN final[s] ELSE stacks[s]]
    BY <1>2
  <1> DEFINE b == (button + 1) % N
  <1>4. /\ stacks' = st
        /\ button' = b
        /\ IF MatchIsComplete(st)
             THEN /\ status' = "complete"
                  /\ players' = {}
                  /\ folded' = {}
                  /\ chips' = [s \in Seats |-> 0]
                  /\ bets' = [s \in Seats |-> 0]
                  /\ pot' = 0
                  /\ UNCHANGED <<handNumber, dealer, posted, street, dealtOver>>
             ELSE /\ handNumber < MaxHands
                  /\ UNCHANGED status
                  /\ Deal(st, b, handNumber + 1)
    BY <1>3 DEF SettleWith
  <1>5. st \in [Seats -> Nat]
    BY <1>1
  <1>6. b \in Seats
    BY <1>1, Clockwise DEF TypeInv
  <1>7. handNumber \in Nat \ {0} /\ handNumber + 1 \in Nat \ {0}
    BY <1>1 DEF TypeInv
  <1>8. SumFunction(stacks') + vanished' = Total
    BY <1>4
  <1> HIDE DEF b
  <1>9. CASE MatchIsComplete(st)
    <2>1. /\ status' = "complete" /\ players' = {} /\ folded' = {}
          /\ chips' = [s \in Seats |-> 0] /\ bets' = [s \in Seats |-> 0] /\ pot' = 0
          /\ handNumber' = handNumber /\ street' = street
      BY <1>4, <1>9
    <2>2. TypeInv'
      BY <1>1, <1>4, <1>5, <1>6, <2>1 DEF TypeInv
    <2>3. MoneyInv' /\ HandInv'
      BY <1>8, <2>1 DEF MoneyInv, HandInv
    <2>4. OverInv'
      <3>1. Cardinality(Alive(st)) <= 1 \/ (FixedHands # 0 /\ handNumber = FixedHands)
        <4>1. FixedHands # 0 => handNumber <= FixedHands
          BY <1>1 DEF HandInv
        <4> QED BY <1>7, <1>9, <4>1, CoordinatorAssumption DEF MatchIsComplete
      <3>2. ~ShowdownChoice => Alive(st) # {}
        <4> SUFFICES ASSUME ~ShowdownChoice PROVE Alive(st) # {}
          OBVIOUS
        <4>1. \E s \in Seats : st[s] > 0
          BY <1>5, SeatCount, SumNatural
        <4> QED BY <4>1 DEF Alive
      <3>3. Alive(stacks)' = Alive(st)
        BY <1>4 DEF Alive
      <3> QED BY <2>1, <3>1, <3>2, <3>3 DEF OverInv
    <2> QED BY <2>2, <2>3, <2>4 DEF IInv
  <1>10. CASE ~MatchIsComplete(st)
    <2> DEFINE S == Alive(st)
               size == BlindAmount(handNumber + 1)
    <2>1. status' = "active" /\ Deal(st, b, handNumber + 1)
      BY <1>1, <1>4, <1>10
    <2>2. /\ handNumber' = handNumber + 1 /\ players' = S
          /\ dealer' = NextActiveButton(S, b)
          /\ posted' = Owed(S, RawBlinds(S, dealer', size))
          /\ bets' = [s \in Seats |-> Least(st[s], posted'[s])]
          /\ chips' = [s \in Seats |-> st[s] - bets'[s]]
          /\ pot' = 0 /\ folded' = {} /\ street' = 1
      BY <2>1 DEF Deal
    <2>3. S \in SUBSET Seats /\ Cardinality(S) >= 2 /\ S # {}
      <3>1. S \in SUBSET Seats /\ Cardinality(S) \in Nat
        BY AliveCount
      <3>2. Cardinality(S) >= 2
        BY <1>10, <3>1 DEF MatchIsComplete
      <3> QED BY <3>1, <3>2, SeveralThere
    <2>4. FixedHands # 0 => handNumber + 1 <= FixedHands
      BY <1>7, <1>10, CoordinatorAssumption DEF MatchIsComplete
    <2>5. \A s \in Seats : s \notin S => st[s] = 0
      BY <1>5 DEF Alive
    <2>6. (Alive(stacks) = S)'
      BY <1>4 DEF Alive
    <2> HIDE DEF S
    <2>7. dealer' \in S
      BY <1>6, <2>2, <2>3, ButtonFound
    <2>8. size \in Nat
      BY <1>7, BlindSize
    <2>9. posted' \in [Seats -> Nat]
      <3> HIDE DEF size
      <3> QED BY <2>2, <2>3, <2>7, <2>8, BlindsOwed
    <2>10. /\ bets' \in [Seats -> Nat] /\ chips' \in [Seats -> Nat]
           /\ SumFunction(chips') + SumFunction(bets') = SumFunction(st)
           /\ \A s \in Seats : st[s] = 0 => chips'[s] = 0 /\ bets'[s] = 0
      BY <1>5, <2>2, <2>9, BlindsPosted
    <2>11. 1 \in 1..(IF ShowdownChoice THEN LastStreet + 1 ELSE LastStreet)
      BY CoordinatorAssumption
    <2>12. TypeInv'
      BY <1>1, <1>4, <1>5, <1>6, <1>7, <2>1, <2>2, <2>3, <2>10, <2>11 DEF TypeInv
    <2>13. MoneyInv'
      <3>1. SumFunction(st) \in Nat
        BY <1>5, SeatCount, SumNatural
      <3> QED BY <1>4, <1>8, <2>2, <2>10, <3>1 DEF MoneyInv
    <2>14. HandInv'
      <3>1. \A s \in Seats \ S : chips'[s] = 0 /\ bets'[s] = 0
        BY <2>5, <2>10
      <3>2. (posted = Owed(players, RawBlinds(players, dealer, BlindAmount(handNumber))))'
        BY <2>2
      <3>3. FixedHands # 0 => handNumber' <= FixedHands
        BY <2>2, <2>4
      <3>4. players' = S
        BY <2>2
      <3>5. Cardinality(players)' >= 2 /\ dealer' \in players' /\ (players = Alive(stacks))'
        BY <2>3, <2>6, <2>7, <3>4
      <3> QED BY <3>1, <3>2, <3>3, <3>4, <3>5 DEF HandInv
    <2>15. OverInv'
      BY <2>1 DEF OverInv
    <2> QED BY <2>12, <2>13, <2>14, <2>15 DEF IInv
  <1> QED BY <1>9, <1>10

-----------------------------------------------------------------------------
\* Each action keeps the invariant.

\* A bet of a player of the hand: at most his chips, at least one.
LEMMA WagerIsCovered ==
    ASSUME TypeInv, NEW s \in players, NEW c \in Wagers(s)
    PROVE  c \in 1..chips[s]
  <1> DEFINE Betted == {bets[t] : t \in players}
  <1>1. \A t \in players : bets[t] \in Nat /\ chips[t] \in Nat
    BY DEF TypeInv
  <1>2. \E m \in Betted : \A t \in players : bets[t] <= m
    <2>1. bets \in [Seats -> Nat] /\ IsFiniteSet(Seats)
      BY SeatCount DEF TypeInv
    <2>2. PICK k \in Nat : \A t \in players : bets[t] <= k
      BY <2>1, SumNatural DEF TypeInv
    <2> DEFINE Rest == {k - bets[t] : t \in players}
    <2>3. Rest \in SUBSET Nat /\ Rest # {}
      BY <1>1, <2>2
    <2> HIDE DEF Rest
    <2>4. PICK r \in Rest : \A n \in Rest : r <= n
      BY <2>3, LeastNatural
    <2>5. PICK t \in players : r = k - bets[t]
      BY DEF Rest
    <2>6. ASSUME NEW u \in players PROVE bets[u] <= bets[t]
      <3>1. k - bets[t] <= k - bets[u]
        BY <2>4, <2>5 DEF Rest
      <3> QED BY <1>1, <3>1
    <2> QED BY <2>6
  <1>3. HighBet \in Nat /\ bets[s] <= HighBet
    BY <1>1, <1>2 DEF HighBet
  <1>4. c = chips[s] \/ c = Least(chips[s], HighBet - bets[s])
    BY DEF Wagers
  <1>5. c # 0
    BY DEF Wagers
  <1> QED BY <1>1, <1>3, <1>4, <1>5 DEF Least

\* A call or a bet moves chips from a stack to the bets.
LEMMA WagerKeeps ==
    ASSUME IInv, NEW s \in Seats, Wager(s)
    PROVE  IInv'
  <1>1. TypeInv /\ MoneyInv /\ HandInv /\ OverInv
    BY DEF IInv
  <1>2. s \in players /\ players # {}
    BY DEF Wager, In
  <1>3. status = "active"
    BY <1>1, <1>2 DEF TypeInv, OverInv
  <1>4. PICK c \in Wagers(s) : /\ chips' = [chips EXCEPT ![s] = chips[s] - c]
                               /\ bets' = [bets EXCEPT ![s] = bets[s] + c]
    BY DEF Wager
  <1>5. UNCHANGED <<matchVars, players, dealer, posted, pot, folded, street, dealtOver, vanished>>
    BY DEF Wager
  <1>6. c \in 1..chips[s]
    BY <1>1, <1>2, <1>4, WagerIsCovered
  <1>7. chips \in [Seats -> Nat] /\ bets \in [Seats -> Nat] /\ chips[s] \in Nat /\ bets[s] \in Nat
    BY <1>1 DEF TypeInv
  <1>8. chips[s] - c \in Nat /\ bets[s] + c \in Nat
    BY <1>6, <1>7
  <1>9. chips' \in [Seats -> Nat] /\ bets' \in [Seats -> Nat]
    BY <1>4, <1>7, <1>8
  <1>10. TypeInv'
    BY <1>1, <1>5, <1>9 DEF TypeInv, matchVars
  <1>11. SumFunction(chips') + SumFunction(bets') = SumFunction(chips) + SumFunction(bets)
    <2>1. IsFiniteSet(Seats) /\ chips \in [Seats -> Int] /\ bets \in [Seats -> Int]
      BY <1>7, SeatCount
    <2> DEFINE v == chips[s] - c
               w == bets[s] + c
    <2>0. v \in Int /\ w \in Int /\ chips' = [chips EXCEPT ![s] = v]
                              /\ bets' = [bets EXCEPT ![s] = w]
      BY <1>4, <1>8
    <2> HIDE DEF v, w
    <2>2. SumFunction(chips') = SumFunction(chips) - chips[s] + v
      BY <2>0, <2>1, SumChanged
    <2>3. SumFunction(bets') = SumFunction(bets) - bets[s] + w
      BY <2>0, <2>1, SumChanged
    <2>4. SumFunction(chips) \in Int /\ SumFunction(bets) \in Int
      BY <2>1, SumInt
    <2> QED BY <1>6, <1>7, <2>2, <2>3, <2>4 DEF v, w
  <1>12. MoneyInv'
    BY <1>1, <1>5, <1>11 DEF MoneyInv, matchVars
  <1>13. HandInv'
    <2>1. \A t \in Seats \ players : chips'[t] = 0 /\ bets'[t] = 0
      BY <1>1, <1>2, <1>3, <1>4, <1>7 DEF HandInv
    <2> QED BY <1>1, <1>3, <1>5, <2>1 DEF HandInv, matchVars, Alive
  <1>14. OverInv'
    BY <1>3, <1>5 DEF OverInv, matchVars
  <1> QED BY <1>10, <1>12, <1>13, <1>14 DEF IInv

\* A fold moves no chips.
LEMMA FoldKeeps ==
    ASSUME IInv, NEW s \in Seats, Fold(s)
    PROVE  IInv'
  <1>1. TypeInv /\ MoneyInv /\ HandInv /\ OverInv
    BY DEF IInv
  <1>2. /\ s \in players /\ folded' = folded \cup {s}
        /\ UNCHANGED <<matchVars, players, dealer, posted, chips, bets, pot, street, dealtOver,
                       vanished>>
    BY DEF Fold, In
  <1>3. TypeInv'
    BY <1>1, <1>2 DEF TypeInv, matchVars
  <1>4. MoneyInv'
    BY <1>1, <1>2 DEF MoneyInv, matchVars
  <1>5. HandInv'
    BY <1>1, <1>2 DEF HandInv, matchVars, Alive
  <1>6. OverInv'
    BY <1>1, <1>2 DEF OverInv, matchVars, Alive
  <1> QED BY <1>3, <1>4, <1>5, <1>6 DEF IInv

\* The end of a betting round moves the bets to the pot.
LEMMA CollectKeeps ==
    ASSUME IInv, CollectBets
    PROVE  IInv'
  <1>1. TypeInv /\ MoneyInv /\ HandInv /\ OverInv
    BY DEF IInv
  <1>2. status = "active"
    BY <1>1 DEF TypeInv, OverInv, CollectBets, Playing
  <1>3. /\ street < IF ShowdownChoice THEN LastStreet + 1 ELSE LastStreet
        /\ street' = street + 1
        /\ pot' = pot + SumFunction(bets)
        /\ bets' = [s \in Seats |-> 0]
        /\ UNCHANGED <<matchVars, players, dealer, posted, chips, folded, dealtOver, vanished>>
    BY DEF CollectBets
  <1>4. IsFiniteSet(Seats) /\ bets \in [Seats -> Nat] /\ chips \in [Seats -> Nat] /\ pot \in Nat
    BY <1>1, SeatCount DEF TypeInv
  <1>5. SumFunction(bets) \in Nat /\ SumFunction(chips) \in Nat
    BY <1>4, SumNatural
  <1>6. SumFunction(bets') = 0
    <2>1. PICK c \in Int : c = 0
      OBVIOUS
    <2>2. SumFunction([s \in Seats |-> c]) = Cardinality(Seats) * c
      BY <1>4, SumSame
    <2>3. bets' = [s \in Seats |-> c]
      BY <1>3, <2>1
    <2>4. Cardinality(Seats) * c = 0
      BY <2>1, SeatCount
    <2> QED BY <2>2, <2>3, <2>4
  <1>7. street' \in 1..(IF ShowdownChoice THEN LastStreet + 1 ELSE LastStreet)
    BY <1>1, <1>3, CoordinatorAssumption DEF TypeInv
  <1>8. TypeInv'
    <2>1. pot' \in Nat /\ bets' \in [Seats -> Nat]
      BY <1>3, <1>4, <1>5
    <2> QED BY <1>1, <1>3, <1>7, <2>1 DEF TypeInv, matchVars
  <1>9. MoneyInv'
    <2>1. SumFunction(chips) + SumFunction(bets') + pot' = SumFunction(chips) + SumFunction(bets) + pot
      BY <1>3, <1>4, <1>5, <1>6
    <2> QED BY <1>1, <1>2, <1>3, <2>1 DEF MoneyInv, matchVars
  <1>10. HandInv'
    <2>1. \A s \in Seats : bets'[s] = 0
      BY <1>3
    <2> QED BY <1>1, <1>2, <1>3, <2>1 DEF HandInv, matchVars, Alive
  <1>11. OverInv'
    BY <1>2, <1>3 DEF OverInv, matchVars
  <1> QED BY <1>8, <1>9, <1>10, <1>11 DEF IInv

\* The last fold or the showdown pays the pot and the bets to players of the hand.
LEMMA HandEndKeeps ==
    ASSUME IInv, HandEnds
    PROVE  IInv'
  <1>1. TypeInv /\ MoneyInv /\ HandInv /\ OverInv
    BY DEF IInv
  <1>2. players # {} /\ status = "active" /\ vanished' = vanished
    BY <1>1 DEF TypeInv, OverInv, HandEnds, Playing
  <1> DEFINE all == pot + SumFunction(bets)
  <1>3. PICK W \in {In} \cup {{s} : s \in IF Cardinality(In) = 2 THEN In ELSE {}} :
               \E f \in Payouts(W, all) :
                 SettleWith([s \in players |-> chips[s] + (IF s \in W THEN f[s] ELSE 0)])
    BY DEF HandEnds
  <1>4. PICK f \in Payouts(W, all) :
               SettleWith([s \in players |-> chips[s] + (IF s \in W THEN f[s] ELSE 0)])
    BY <1>3
  <1>5. W \in SUBSET players /\ W \in SUBSET Seats
    <2>1. In \in SUBSET players
      BY DEF In
    <2>2. W = In \/ \E s \in In : W = {s}
      BY <1>3
    <2> QED BY <1>1, <2>1, <2>2 DEF TypeInv
  <1>6. /\ IsFiniteSet(Seats) /\ bets \in [Seats -> Nat] /\ chips \in [Seats -> Nat] /\ pot \in Nat
        /\ stacks \in [Seats -> Nat] /\ vanished \in Nat /\ players \in SUBSET Seats
    BY <1>1, SeatCount DEF TypeInv
  <1>7. SumFunction(bets) \in Nat /\ SumFunction(chips) \in Nat /\ SumFunction(stacks) \in Nat
    BY <1>6, SumNatural
  <1>8. f \in [W -> Nat] /\ SumFunction(f) = all
    BY <1>4, <1>6, <1>7 DEF Payouts
  <1> HIDE DEF all
  <1> DEFINE won == [s \in Seats |-> IF s \in W THEN f[s] ELSE 0]
             final == [s \in players |-> chips[s] + (IF s \in W THEN f[s] ELSE 0)]
             st == [s \in Seats |-> IF s \in players THEN final[s] ELSE 0]
  <1>9. won \in [Seats -> Nat]
    BY <1>8
  <1>10. SumFunction(won) = all
    <2>1. won \in [Seats -> Int] /\ f \in [W -> Int]
      BY <1>8, <1>9
    <2>2. \A s \in Seats : won[s] = IF s \in W THEN f[s] ELSE 0
      OBVIOUS
    <2> HIDE DEF won
    <2> QED BY <1>5, <1>6, <1>8, <2>1, <2>2, SumWithin
  <1>11. final \in [players -> Nat]
    <2>1. ASSUME NEW s \in players PROVE chips[s] + (IF s \in W THEN f[s] ELSE 0) \in Nat
      BY <1>6, <1>8, <2>1
    <2> QED BY <2>1
  <1>12. st = [s \in Seats |-> chips[s] + won[s]]
    <2>1. ASSUME NEW s \in Seats PROVE st[s] = chips[s] + won[s]
      <3>1. CASE s \in players
        BY <3>1
      <3>2. CASE s \notin players
        <4>1. chips[s] = 0 /\ s \notin W
          BY <1>1, <1>2, <1>5, <3>2 DEF HandInv
        <4> QED BY <3>2, <4>1
      <3> QED BY <3>1, <3>2
    <2> QED BY <2>1
  <1> HIDE DEF won, st, final
  <1>13. SumFunction(st) = SumFunction(stacks)
    <2>1. chips \in [Seats -> Int] /\ won \in [Seats -> Int]
      BY <1>6, <1>9
    <2>2. SumFunction([s \in Seats |-> chips[s] + won[s]]) = SumFunction(chips) + SumFunction(won)
      BY <1>6, <2>1, SumPlus
    <2>3. SumFunction(chips) + SumFunction(bets) + pot = SumFunction(stacks)
      BY <1>1, <1>2 DEF MoneyInv
    <2> QED BY <1>6, <1>7, <1>10, <1>12, <2>2, <2>3 DEF all
  <1>14. SumFunction(st) > 0
    <2>1. PICK s \in players : TRUE
      BY <1>2
    <2>2. s \in Seats /\ stacks[s] > 0
      BY <1>1, <1>2 DEF HandInv, Alive
    <2>3. stacks[s] <= SumFunction(stacks) /\ stacks[s] \in Nat
      BY <1>6, <2>2, SumNatural
    <2> QED BY <1>7, <1>13, <2>2, <2>3
  <1>15. SumFunction(st) + vanished' = Total
    BY <1>1, <1>2, <1>13 DEF MoneyInv
  <1>16. SettleWith(final) /\ vanished' \in Nat
    BY <1>2, <1>4, <1>6 DEF final
  <1> QED BY <1>2, <1>11, <1>14, <1>15, <1>16, Settles DEF st

\* quit_player: what it is given, and the stacks it leaves.
LEMMA QuitSettles ==
    ASSUME IInv, NEW q \in players, Quit(q)
    PROVE  /\ SettleWith(QuitSettlement(q))
           /\ vanished' = vanished + pot
           /\ status = "active"
           /\ players \ {q} \in SUBSET Seats /\ players \ {q} # {}
           /\ chips[q] + bets[q] \in Nat
           /\ \A s \in players \ {q} : Share(chips[q] + bets[q], players \ {q}, s) \in Nat
           /\ stacks' = [s \in Seats |-> IF s \in players THEN QuitSettlement(q)[s] ELSE 0]
  <1>1. TypeInv /\ HandInv /\ OverInv
    BY DEF IInv
  <1>2. status = "active"
    BY <1>1 DEF TypeInv, OverInv
  <1>3. SettleWith(QuitSettlement(q)) /\ vanished' = vanished + pot
    BY DEF Quit
  <1>4. q \in Seats /\ players \in SUBSET Seats /\ chips[q] + bets[q] \in Nat
    BY <1>1 DEF TypeInv
  <1>5. players \ {q} # {}
    <2> SUFFICES ASSUME players \ {q} = {} PROVE FALSE
      OBVIOUS
    <2>1. players = {q}
      OBVIOUS
    <2>2. Cardinality(players) = 1
      BY <2>1, FS_Singleton
    <2> QED BY <1>1, <1>2, <2>2 DEF HandInv
  <1> DEFINE R == players \ {q}
             a == chips[q] + bets[q]
  <1>6. R \in SUBSET Seats /\ R # {} /\ a \in Nat
    BY <1>4, <1>5
  <1> HIDE DEF R, a
  <1>7. \A s \in R : Share(a, R, s) \in Nat
    BY <1>6, Shares
  <1>8. stacks' = [s \in Seats |-> IF s \in players THEN QuitSettlement(q)[s] ELSE 0]
    <2>1. stacks' = [s \in Seats |-> IF s \in players THEN QuitSettlement(q)[s] ELSE stacks[s]]
      BY <1>3 DEF SettleWith
    <2>2. ASSUME NEW s \in Seats, s \notin players PROVE stacks[s] = 0
      BY <1>1, <1>2, <2>2 DEF HandInv, TypeInv, Alive
    <2> QED BY <2>1, <2>2
  <1> QED BY <1>2, <1>3, <1>6, <1>7, <1>8 DEF R, a

\* A quit takes the pot out of the match and divides everything else.
LEMMA QuitKeeps ==
    ASSUME IInv, NEW q \in Seats, Quit(q)
    PROVE  IInv'
  <1>1. TypeInv /\ MoneyInv /\ HandInv /\ OverInv
    BY DEF IInv
  <1>2. q \in players /\ players # {}
    BY DEF Quit
  <1> DEFINE R == players \ {q}
             a == chips[q] + bets[q]
             final == QuitSettlement(q)
             st == [s \in Seats |-> IF s \in players THEN final[s] ELSE 0]
             share == [s \in R |-> Share(a, R, s)]
             given == [s \in Seats |-> IF s \in R THEN share[s] ELSE 0]
             own == [s \in {q} |-> a]
             taken == [s \in Seats |-> IF s \in {q} THEN own[s] ELSE 0]
             table == [s \in Seats |-> chips[s] + bets[s]]
  <1>3. /\ SettleWith(final) /\ vanished' = vanished + pot /\ status = "active"
        /\ R \in SUBSET Seats /\ R # {} /\ a \in Nat
        /\ \A s \in R : Share(a, R, s) \in Nat
    BY <1>2, QuitSettles
  <1>4. /\ IsFiniteSet(Seats) /\ bets \in [Seats -> Nat] /\ chips \in [Seats -> Nat] /\ pot \in Nat
        /\ stacks \in [Seats -> Nat] /\ vanished \in Nat /\ players \in SUBSET Seats
    BY <1>1, SeatCount DEF TypeInv
  <1>5. SumFunction(bets) \in Nat /\ SumFunction(chips) \in Nat /\ SumFunction(stacks) \in Nat
    BY <1>4, SumNatural
  <1>6. \A s \in players : final[s] = IF s = q THEN 0 ELSE chips[s] + bets[s] + share[s]
    BY DEF QuitSettlement
  <1>7. final \in [players -> Nat]
    <2>1. \A s \in players : final[s] \in Nat
      <3> SUFFICES ASSUME NEW s \in players PROVE final[s] \in Nat
        OBVIOUS
      <3>1. CASE s = q
        BY <1>6, <3>1
      <3>2. CASE s # q
        <4>1. share[s] \in Nat /\ chips[s] \in Nat /\ bets[s] \in Nat
          BY <1>3, <1>4, <3>2
        <4> HIDE DEF final, share
        <4> QED BY <1>6, <3>2, <4>1
      <3> QED BY <3>1, <3>2
    <2>2. final = [s \in players |-> final[s]]
      BY DEF QuitSettlement
    <2> HIDE DEF final
    <2> QED BY <2>1, <2>2
  <1>8. SumFunction(share) = a
    <2> HIDE DEF R, a
    <2> QED BY <1>3, Shares
  <1>9. share \in [R -> Int] /\ given \in [Seats -> Int] /\ own \in [{q} -> Int]
        /\ taken \in [Seats -> Int] /\ table \in [Seats -> Int]
        /\ chips \in [Seats -> Int] /\ bets \in [Seats -> Int]
    <2>1. share \in [R -> Int]
      <3>1. \A s \in R : Share(a, R, s) \in Int
        BY <1>3
      <3> HIDE DEF a, R
      <3> QED BY <3>1
    <2>2. given \in [Seats -> Int]
      <3> HIDE DEF share, R
      <3> QED BY <2>1
    <2>3. own \in [{q} -> Int]
      <3>1. a \in Int
        BY <1>3
      <3> HIDE DEF a
      <3> QED BY <3>1
    <2>4. taken \in [Seats -> Int]
      <3> HIDE DEF own
      <3> QED BY <2>3
    <2>5. table \in [Seats -> Int]
      <3>1. \A s \in Seats : chips[s] + bets[s] \in Int
        BY <1>4
      <3> QED BY <3>1
    <2>6. chips \in [Seats -> Int] /\ bets \in [Seats -> Int]
      BY <1>4
    <2> HIDE DEF share, given, own, taken, table
    <2> QED BY <2>1, <2>2, <2>3, <2>4, <2>5, <2>6
  <1>10. SumFunction(given) = a
    <2>1. \A s \in Seats : given[s] = IF s \in R THEN share[s] ELSE 0
      OBVIOUS
    <2>2. R \in SUBSET Seats /\ IsFiniteSet(Seats)
      BY <1>3, <1>4
    <2>3. share \in [R -> Int] /\ given \in [Seats -> Int]
      BY <1>9
    <2> HIDE DEF given, share, R
    <2>4. SumFunction(given) = SumFunction(share)
      BY <2>1, <2>2, <2>3, SumWithin
    <2> QED BY <1>8, <2>4
  <1>11. SumFunction(taken) = a
    <2>1. SumFunction(own) = a
      <3>1. IsFiniteSet({q}) /\ Cardinality({q}) = 1
        BY FS_Singleton
      <3> HIDE DEF a
      <3>2. SumFunction([s \in {q} |-> a]) = Cardinality({q}) * a
        <4>1. a \in Int
          BY <1>3
        <4> QED BY <3>1, <4>1, SumSame
      <3> QED BY <1>3, <3>1, <3>2
    <2>2. \A s \in Seats : taken[s] = IF s \in {q} THEN own[s] ELSE 0
      OBVIOUS
    <2>3. {q} \in SUBSET Seats
      OBVIOUS
    <2> HIDE DEF taken, own
    <2> QED BY <1>4, <1>9, <2>1, <2>2, <2>3, SumWithin
  <1>12. SumFunction(table) = SumFunction(chips) + SumFunction(bets)
    BY <1>4, <1>9, SumPlus
  <1>13. \A s \in Seats : st[s] + taken[s] = table[s] + given[s] /\ st[s] \in Int
    <2> SUFFICES ASSUME NEW s \in Seats PROVE st[s] + taken[s] = table[s] + given[s] /\ st[s] \in Int
      OBVIOUS
    <2>1. CASE s = q
      <3>1. st[s] = 0 /\ taken[s] = a /\ table[s] = a /\ given[s] = 0
        BY <1>2, <1>6, <2>1
      <3> HIDE DEF st, taken, table, given, a
      <3> QED BY <1>3, <3>1
    <2>2. CASE s # q /\ s \in players
      <3>1. st[s] = table[s] + share[s] /\ taken[s] = 0 /\ given[s] = share[s]
        BY <1>6, <2>2
      <3>2. share[s] \in Int /\ table[s] \in Int
        BY <1>9, <2>2
      <3> HIDE DEF st, taken, table, given, share
      <3> QED BY <3>1, <3>2
    <2>3. CASE s \notin players
      <3>1. chips[s] = 0 /\ bets[s] = 0
        BY <1>1, <1>3, <2>3 DEF HandInv
      <3>2. st[s] = 0 /\ taken[s] = 0 /\ given[s] = 0 /\ table[s] = 0
        BY <1>2, <2>3, <3>1
      <3> HIDE DEF st, taken, table, given
      <3> QED BY <3>2
    <2> QED BY <2>1, <2>2, <2>3
  <1>14. st = [s \in Seats |-> st[s]]
    OBVIOUS
  <1> HIDE DEF final, share, given, own, taken, table, a
  <1>15. SumFunction(st) = SumFunction(chips) + SumFunction(bets)
    <2> DEFINE left == [s \in Seats |-> st[s] + taken[s]]
               right == [s \in Seats |-> table[s] + given[s]]
    <2> HIDE DEF st
    <2>1. st \in [Seats -> Int]
      BY <1>13, <1>14
    <2>2. left = right
      BY <1>13
    <2>3. SumFunction(left) = SumFunction(st) + SumFunction(taken)
      BY <1>4, <1>9, <2>1, SumPlus
    <2>4. SumFunction(right) = SumFunction(table) + SumFunction(given)
      BY <1>4, <1>9, SumPlus
    <2>5. SumFunction(st) \in Int
      BY <1>4, <2>1, SumInt
    <2> HIDE DEF left, right
    <2>6. SumFunction(st) + a = SumFunction(chips) + SumFunction(bets) + a
      BY <1>10, <1>11, <1>12, <2>2, <2>3, <2>4
    <2>7. a \in Int
      BY <1>3
    <2> QED BY <1>5, <2>5, <2>6, <2>7
  <1>16. SumFunction(st) + vanished' = Total
    <2>1. SumFunction(chips) + SumFunction(bets) + pot = SumFunction(stacks)
      BY <1>1, <1>3 DEF MoneyInv
    <2>2. SumFunction(stacks) + vanished = Total
      BY <1>1 DEF MoneyInv
    <2> HIDE DEF st
    <2>3. SumFunction(st) + (vanished + pot) = SumFunction(stacks) + vanished
      BY <1>4, <1>5, <1>15, <2>1
    <2> QED BY <1>3, <2>2, <2>3
  <1>17. ~ShowdownChoice => SumFunction(st) > 0
    <2> SUFFICES ASSUME ~ShowdownChoice PROVE SumFunction(st) > 0
      OBVIOUS
    <2>1. ~Showdown
      BY <1>1, CoordinatorAssumption DEF Showdown, TypeInv
    <2>2. PICK s \in In : chips[s] > 0
      BY <2>1 DEF Quit, DecisionPoint
    <2>3. s \in Seats
      BY <1>4 DEF In
    <2>4. chips[s] <= SumFunction(chips) /\ chips[s] \in Nat
      BY <1>4, <2>3, SumNatural
    <2> HIDE DEF st
    <2> QED BY <1>5, <1>15, <2>2, <2>4
  <1>18. vanished' \in Nat
    BY <1>3, <1>4
  <1> QED BY <1>2, <1>3, <1>7, <1>16, <1>17, <1>18, Settles

\* The invariant is inductive.
LEMMA Invariance == Spec => []IInv
  <1>1. Init => IInv
    <2> SUFFICES ASSUME Init PROVE IInv
      OBVIOUS
    <2> DEFINE size == BlindAmount(1)
    <2>1. /\ status = "active" /\ button \in Seats /\ handNumber = 1
          /\ stacks = [s \in Seats |-> StartingChips] /\ players = Seats /\ dealer = button
          /\ posted = Owed(Seats, RawBlinds(Seats, dealer, size))
          /\ pot = 0 /\ folded = {} /\ street = 1 /\ vanished = 0
      BY DEF Init
    <2>2. /\ bets = [s \in Seats |-> Least(stacks[s], posted[s])]
          /\ chips = [s \in Seats |-> stacks[s] - bets[s]]
      BY <2>1 DEF Init
    <2>3. size \in Nat
      <3>1. 1 \in Nat \ {0}
        OBVIOUS
      <3> QED BY <3>1, BlindSize
    <2>4. Seats \in SUBSET Seats /\ Cardinality(Seats) >= 2 /\ IsFiniteSet(Seats)
      BY SeatCount
    <2>5. stacks \in [Seats -> Nat]
      BY <2>1, CoordinatorAssumption
    <2>6. posted \in [Seats -> Nat]
      <3> HIDE DEF size
      <3> QED BY <2>1, <2>3, <2>4, BlindsOwed
    <2>7. /\ bets \in [Seats -> Nat] /\ chips \in [Seats -> Nat]
          /\ SumFunction(chips) + SumFunction(bets) = SumFunction(stacks)
      BY <2>2, <2>5, <2>6, BlindsPosted
    <2>8. SumFunction(stacks) = Total
      <3>1. StartingChips \in Int
        BY CoordinatorAssumption
      <3>2. SumFunction([s \in Seats |-> StartingChips]) = Cardinality(Seats) * StartingChips
        BY <2>4, <3>1, SumSame
      <3> QED BY <2>1, <3>2, SeatCount DEF Total
    <2>9. Alive(stacks) = Seats
      BY <2>1, CoordinatorAssumption DEF Alive
    <2>10. TypeInv
      <3>1. 1 \in 1..(IF ShowdownChoice THEN LastStreet + 1 ELSE LastStreet)
        BY CoordinatorAssumption
      <3> QED BY <2>1, <2>5, <2>7, <3>1 DEF TypeInv
    <2>11. MoneyInv
      <3>1. SumFunction(stacks) \in Nat
        BY <2>4, <2>5, SumNatural
      <3> QED BY <2>1, <2>7, <2>8, <3>1 DEF MoneyInv
    <2>12. HandInv
      BY <2>1, <2>4, <2>9, CoordinatorAssumption DEF HandInv
    <2>13. OverInv
      BY <2>1 DEF OverInv
    <2> QED BY <2>10, <2>11, <2>12, <2>13 DEF IInv
  <1>2. IInv /\ [Next]_vars => IInv'
    <2> SUFFICES ASSUME IInv, [Next]_vars PROVE IInv'
      OBVIOUS
    <2>1. ASSUME NEW s \in Seats, Wager(s) PROVE IInv'
      BY <2>1, WagerKeeps
    <2>2. ASSUME NEW s \in Seats, Fold(s) PROVE IInv'
      BY <2>2, FoldKeeps
    <2>3. ASSUME NEW s \in Seats, Quit(s) PROVE IInv'
      BY <2>3, QuitKeeps
    <2>4. CASE CollectBets
      BY <2>4, CollectKeeps
    <2>5. CASE HandEnds
      BY <2>5, HandEndKeeps
    <2>6. CASE UNCHANGED vars
      BY <2>6 DEF IInv, TypeInv, MoneyInv, HandInv, OverInv, Alive, vars, matchVars, handVars
    <2> QED BY <2>1, <2>2, <2>3, <2>4, <2>5, <2>6 DEF Next
  <1> QED BY <1>1, <1>2, PTL DEF Spec

-----------------------------------------------------------------------------
(***************************************************************************)
(* The theorems.                                                           *)
(***************************************************************************)

\* MatchCoordinator.settle_hand, start_hand and quit_player with PokerKitAdapter: in
\* every match the settled stacks and the pots that vanished at quits are all the chips
\* there are, and the running hand's chips, bets and pot are the settled stacks.
THEOREM ChipsAreKept == Spec => []ChipsAccounted
  <1>1. IInv => ChipsAccounted
    <2> SUFFICES ASSUME IInv PROVE ChipsAccounted
      OBVIOUS
    <2>1. \A s \in Seats : stacks[s] >= 0 /\ chips[s] >= 0 /\ bets[s] >= 0
      BY DEF IInv, TypeInv
    <2> QED BY <2>1 DEF ChipsAccounted, IInv, MoneyInv
  <1> QED BY <1>1, Invariance, PTL

\* MatchEndsOnTime, but for a match with the showdown choice, where a quit at the
\* showdown may take the last chips with it and leave no player with chips.
MatchEndsByTheRules ==
    IF status = "active"
      THEN /\ Cardinality(Alive(stacks)) >= 2
           /\ players = Alive(stacks)
           /\ FixedHands # 0 => handNumber <= FixedHands
      ELSE \/ Cardinality(Alive(stacks)) <= 1
           \/ FixedHands # 0 /\ handNumber = FixedHands

\* _match_is_complete in settle_hand: the match goes on while two players have chips
\* and hands are left, and is over otherwise.  Without the showdown choice the match
\* ends with a player who has chips.
THEOREM MatchIsOnTime ==
    /\ Spec => []MatchEndsByTheRules
    /\ ~ShowdownChoice => (Spec => []MatchEndsOnTime)
  <1>1. IInv => MatchEndsByTheRules
    BY DEF IInv, TypeInv, HandInv, OverInv, MatchEndsByTheRules
  <1>2. ASSUME ~ShowdownChoice PROVE IInv => MatchEndsOnTime
    <2> SUFFICES ASSUME IInv PROVE MatchEndsOnTime
      OBVIOUS
    <2>1. CASE status = "active"
      BY <1>1, <2>1 DEF MatchEndsByTheRules, MatchEndsOnTime
    <2>2. CASE status # "active"
      <3> DEFINE A == Alive(stacks)
      <3>1. A # {} /\ IsFiniteSet(A) /\ Cardinality(A) \in Nat
        BY <1>2, <2>2, AliveCount DEF IInv, TypeInv, OverInv
      <3> HIDE DEF A
      <3>2. Cardinality(A) # 0
        BY <3>1, FS_EmptySet
      <3>3. Cardinality(A) <= 1 \/ (FixedHands # 0 /\ handNumber = FixedHands)
        BY <1>1, <2>2 DEF A, MatchEndsByTheRules
      <3>4. Cardinality(A) = 1 \/ (FixedHands # 0 /\ handNumber = FixedHands)
        BY <3>1, <3>2, <3>3
      <3> QED BY <2>2, <3>4 DEF A, MatchEndsOnTime
    <2> QED BY <2>1, <2>2
  <1>3. Spec => []MatchEndsByTheRules
    BY <1>1, Invariance, PTL
  <1>4. ASSUME ~ShowdownChoice PROVE Spec => []MatchEndsOnTime
    <2>1. IInv => MatchEndsOnTime
      BY <1>2, <1>4
    <2> QED BY <2>1, Invariance, PTL
  <1> QED BY <1>3, <1>4

\* _raw_blinds, _next_active_button and blind_amounts with PokerKit's own order for two
\* players: in every hand the right seats owe the right blinds, and no other seat any.
THEOREM BlindsAreRight == Spec => []BlindsFollowTheDealer
  <1>1. IInv => BlindsFollowTheDealer
    <2> SUFFICES ASSUME IInv, status = "active" PROVE BlindsFollowTheDealer
      BY DEF BlindsFollowTheDealer
    <2> DEFINE size == BlindAmount(handNumber)
               small == IF Cardinality(players) = 2 THEN dealer ELSE After(players, dealer)
               big == After(players, small)
    <2>1. /\ players \in SUBSET Seats /\ Cardinality(players) >= 2 /\ dealer \in players
          /\ posted = Owed(players, RawBlinds(players, dealer, size))
          /\ handNumber \in Nat \ {0}
      BY DEF IInv, TypeInv, HandInv
    <2>2. /\ size \in Nat
          /\ size = SmallBlind * 2 ^ Cardinality({n \in 1..(handNumber - 1) : n % IncreaseEvery = 0})
      BY <2>1, BlindSize
    <2> HIDE DEF size
    <2>3. /\ posted[small] = size /\ posted[big] = 2 * size
          /\ \A s \in Seats \ {small, big} : posted[s] = 0
      <3>1. /\ small = IF Cardinality(players) = 2 THEN dealer ELSE After(players, dealer)
            /\ big = After(players, small)
        OBVIOUS
      <3> HIDE DEF small, big
      <3>2. size \in Nat
        BY <2>2
      <3> QED BY <2>1, <3>1, <3>2, BlindsOwed
    <2> QED BY <2>1, <2>2, <2>3 DEF BlindsFollowTheDealer
  <1> QED BY <1>1, Invariance, PTL

\* quit_player with its divmod: nobody else loses, all that the quitter has at the table
\* is paid out, and earlier seats get as much as later ones or one chip more.
THEOREM QuitsAreFair == Spec => QuitIsFair
  <1> DEFINE Fair == \A q \in players : Quit(q) =>
         LET gain == [s \in players \ {q} |-> stacks'[s] - chips[s] - bets[s]]
         IN  /\ stacks'[q] = 0
             /\ SumFunction(gain) = chips[q] + bets[q]
             /\ \A r, s \in players \ {q} : r < s => gain[r] - gain[s] \in {0, 1}
  <1>1. ASSUME IInv, NEW q \in players, Quit(q)
        PROVE  LET gain == [s \in players \ {q} |-> stacks'[s] - chips[s] - bets[s]]
               IN  /\ stacks'[q] = 0
                   /\ SumFunction(gain) = chips[q] + bets[q]
                   /\ \A r, s \in players \ {q} : r < s => gain[r] - gain[s] \in {0, 1}
    <2> DEFINE R == players \ {q}
               a == chips[q] + bets[q]
               gain == [s \in R |-> stacks'[s] - chips[s] - bets[s]]
               share == [s \in R |-> Share(a, R, s)]
    <2>1. /\ R \in SUBSET Seats /\ R # {} /\ a \in Nat
          /\ \A s \in R : Share(a, R, s) \in Nat
          /\ stacks' = [s \in Seats |-> IF s \in players THEN QuitSettlement(q)[s] ELSE 0]
      BY <1>1, QuitSettles
    <2>2. chips \in [Seats -> Nat] /\ bets \in [Seats -> Nat] /\ players \in SUBSET Seats
      BY <1>1 DEF IInv, TypeInv
    <2>3. stacks'[q] = 0
      BY <2>1, <2>2 DEF QuitSettlement
    <2>4. \A s \in R : stacks'[s] = chips[s] + bets[s] + Share(a, R, s)
      BY <2>1, <2>2 DEF QuitSettlement
    <2>5. \A s \in R : gain[s] = Share(a, R, s)
      <3> SUFFICES ASSUME NEW s \in R PROVE gain[s] = Share(a, R, s)
        OBVIOUS
      <3>1. gain[s] = stacks'[s] - chips[s] - bets[s]
        OBVIOUS
      <3>2. chips[s] \in Nat /\ bets[s] \in Nat /\ Share(a, R, s) \in Nat
        BY <2>1, <2>2
      <3> HIDE DEF gain, R, a
      <3> QED BY <2>4, <3>1, <3>2
    <2>6. gain = share
      BY <2>5
    <2>7. \A r, s \in R : r < s => gain[r] - gain[s] \in {0, 1}
      <3> HIDE DEF gain, R, a
      <3>1. \A r, s \in R : r < s => Share(a, R, r) - Share(a, R, s) \in {0, 1}
        BY <2>1, Shares
      <3> QED BY <2>5, <3>1
    <2>8. SumFunction(gain) = a
      <3>1. SumFunction(share) = a
        <4> HIDE DEF R, a
        <4> QED BY <2>1, Shares
      <3> QED BY <2>6, <3>1
    <2> QED BY <2>3, <2>7, <2>8
  <1>2. IInv /\ [Next]_vars => [Fair]_vars
    BY <1>1
  <1>3. QuitIsFair <=> [][Fair]_vars
    BY DEF QuitIsFair
  <1> HIDE DEF Fair
  <1> QED BY <1>2, <1>3, Invariance, PTL DEF Spec
=============================================================================
