----------------------------- MODULE Induction -----------------------------
(***************************************************************************)
(* Induction in the form the proofs of this project use it: over a set of  *)
(* natural numbers or a set of finite sets instead of a predicate.  Then   *)
(* what sums over functions are, SumFunction and SumFunctionOnSet of the   *)
(* community modules being recursive definitions.                          *)
(***************************************************************************)
EXTENDS Functions, Sequences, FiniteSetTheorems, WellFoundedInduction, TLAPS

(* The least number principle. *)
LEMMA LeastNatural ==
    ASSUME NEW T \in SUBSET Nat, T # {}
    PROVE  \E m \in T : \A k \in T : m <= k
<1> DEFINE R == OpToRel(<, Nat)
<1>1. PICK m \in T : \A k \in T : ~(<<k, m>> \in R)
  <2>1. IsWellFoundedOn(R, Nat)
    BY NatLessThanWellFounded
  <2> HIDE DEF R
  <2> QED
    BY <2>1, WFMin
<1>2. ASSUME NEW k \in T
      PROVE  ~(k < m)
  <2>1. <<k, m>> \in Nat \X Nat
    OBVIOUS
  <2>2. k < m => <<k, m>> \in R
    BY <2>1 DEF OpToRel
  <2> QED
    BY <1>1, <2>2
<1> QED
  BY <1>2

(* Induction over the natural numbers. *)
LEMMA NaturalInduction ==
    ASSUME NEW T, 0 \in T, \A n \in Nat : n \in T => n + 1 \in T
    PROVE  Nat \subseteq T
<1> DEFINE U == Nat \ T
<1>1. SUFFICES ASSUME U # {}
               PROVE  FALSE
  OBVIOUS
<1>2. PICK m \in U : \A k \in U : m <= k
  <2>1. U \in SUBSET Nat
    OBVIOUS
  <2> HIDE DEF U
  <2> QED
    BY <1>1, <2>1, LeastNatural
<1>3. m - 1 \in Nat /\ m - 1 \notin U
  BY <1>2
<1> QED
  BY <1>3

(* Induction over the subsets of a finite set. *)
LEMMA SubsetInduction ==
    ASSUME NEW S, IsFiniteSet(S), NEW P,
           \A U \in SUBSET S : (\A x \in U : U \ {x} \in P) => U \in P
    PROVE  \A U \in SUBSET S : U \in P
<1> DEFINE N == {n \in Nat : \A U \in SUBSET S : Cardinality(U) <= n => U \in P}
<1>0. ASSUME NEW U \in SUBSET S
      PROVE  IsFiniteSet(U) /\ Cardinality(U) \in Nat
  BY FS_Subset, FS_CardinalityType
<1>1. 0 \in N
  <2> SUFFICES ASSUME NEW U \in SUBSET S, Cardinality(U) <= 0
               PROVE  U \in P
    OBVIOUS
  <2>1. U = {}
    BY <1>0, FS_EmptySet
  <2> QED
    BY <2>1
<1>2. ASSUME NEW n \in Nat, n \in N
      PROVE  n + 1 \in N
  <2> SUFFICES ASSUME NEW U \in SUBSET S, Cardinality(U) <= n + 1
               PROVE  U \in P
    OBVIOUS
  <2>1. ASSUME NEW x \in U
        PROVE  U \ {x} \in P
    <3>1. Cardinality(U \ {x}) <= n
      BY <1>0, FS_RemoveElement
    <3> QED
      BY <1>2, <3>1
  <2> QED
    BY <2>1
<1>3. Nat \subseteq N
  <2> HIDE DEF N
  <2> QED
    BY <1>1, <1>2, NaturalInduction
<1> QED
  BY <1>0, <1>3

-----------------------------------------------------------------------------
(* The equation by which MapThenFoldSet defines the sum of f over the      *)
(* subsets of a set.                                                       *)
Picked(s) == CHOOSE x \in s : TRUE

SumStep(f, g, s) == IF s = {} THEN 0 ELSE f[Picked(s)] + g[s \ {Picked(s)}]

Sums(f, S, g) == g = [s \in SUBSET S |-> SumStep(f, g, s)]

LEMMA PickedIsIn ==
    ASSUME NEW s, s # {}
    PROVE  Picked(s) \in s
BY DEF Picked

LEMMA SumIsChosen ==
    ASSUME NEW f, NEW S
    PROVE  SumFunctionOnSet(f, S) = (CHOOSE g : Sums(f, S, g))[S]
BY Zenon DEF SumFunctionOnSet, FoldFunctionOnSet, MapThenFoldSet, Sums, SumStep, Picked

(* The recursion ends, because the sets get smaller. *)
LEMMA SumsExist ==
    ASSUME NEW f, NEW S, IsFiniteSet(S)
    PROVE  \E g : Sums(f, S, g)
<1> DEFINE Small(n) == {s \in SUBSET S : Cardinality(s) <= n}
           Fits(g, n) == g = [s \in Small(n) |-> SumStep(f, g, s)]
           N == {n \in Nat : \E g : Fits(g, n)}
<1>0. ASSUME NEW s \in SUBSET S
      PROVE  IsFiniteSet(s) /\ Cardinality(s) \in Nat
  BY FS_Subset, FS_CardinalityType
<1>1. 0 \in N
  <2> DEFINE g == [s \in Small(0) |-> 0]
  <2>1. \A s \in Small(0) : s = {}
    BY <1>0, FS_EmptySet
  <2>2. \A s \in Small(0) : SumStep(f, g, s) = 0
    BY <2>1 DEF SumStep
  <2>3. Fits(g, 0)
    BY <2>2
  <2> QED
    BY <2>3
<1>2. ASSUME NEW n \in Nat, n \in N
      PROVE  n + 1 \in N
  <2>1. PICK g : Fits(g, n)
    BY <1>2
  <2> DEFINE h == [s \in Small(n + 1) |-> SumStep(f, g, s)]
  <2>2. ASSUME NEW s \in Small(n)
        PROVE  s \in Small(n + 1) /\ h[s] = g[s]
    <3>1. s \in Small(n + 1)
      BY <1>0
    <3>2. g[s] = SumStep(f, g, s)
      BY <2>1
    <3> QED
      BY <3>1, <3>2
  <2>3. ASSUME NEW s \in Small(n + 1)
        PROVE  SumStep(f, h, s) = SumStep(f, g, s)
    <3>1. CASE s = {}
      BY <3>1 DEF SumStep
    <3>2. CASE s # {}
      <4>1. s \ {Picked(s)} \in Small(n)
        BY <1>0, <3>2, PickedIsIn, FS_RemoveElement
      <4>2. h[s \ {Picked(s)}] = g[s \ {Picked(s)}]
        BY <4>1, <2>2
      <4> HIDE DEF h
      <4> QED
        BY <4>2 DEF SumStep
    <3> QED
      BY <3>1, <3>2
  <2>4. Fits(h, n + 1)
    BY <2>3
  <2> HIDE DEF h
  <2> QED
    BY <2>4
<1>3. Cardinality(S) \in N
  <2>1. Nat \subseteq N
    <3> HIDE DEF N
    <3> QED
      BY <1>1, <1>2, NaturalInduction
  <2> QED
    BY <2>1, FS_CardinalityType
<1>4. Small(Cardinality(S)) = SUBSET S
  BY FS_Subset, <1>0
<1> QED
  BY <1>3, <1>4 DEF Sums

LEMMA SumsAreUnique ==
    ASSUME NEW f, NEW S, IsFiniteSet(S), NEW g, NEW h, Sums(f, S, g), Sums(f, S, h)
    PROVE  g = h
<1> DEFINE P == {U \in SUBSET S : g[U] = h[U]}
<1>1. ASSUME NEW U \in SUBSET S, \A x \in U : U \ {x} \in P
      PROVE  U \in P
  <2>1. g[U] = SumStep(f, g, U) /\ h[U] = SumStep(f, h, U)
    BY DEF Sums
  <2>2. U # {} => g[U \ {Picked(U)}] = h[U \ {Picked(U)}]
    BY <1>1, PickedIsIn
  <2> QED
    BY <2>1, <2>2 DEF SumStep
<1>2. \A U \in SUBSET S : U \in P
  <2> HIDE DEF P
  <2> QED
    BY <1>1, SubsetInduction
<1> QED
  BY <1>2 DEF Sums

LEMMA SumIsValue ==
    ASSUME NEW f, NEW S, IsFiniteSet(S), NEW g, Sums(f, S, g)
    PROVE  SumFunctionOnSet(f, S) = g[S]
<1>1. Sums(f, S, CHOOSE h : Sums(f, S, h))
  BY Zenon
<1>2. (CHOOSE h : Sums(f, S, h)) = g
  BY <1>1, SumsAreUnique
<1> QED
  BY <1>2, SumIsChosen

(* The equation of the definition. *)
LEMMA SumUnfolds ==
    ASSUME NEW f, NEW S, IsFiniteSet(S), S # {}
    PROVE  SumFunctionOnSet(f, S) =
             f[Picked(S)] + SumFunctionOnSet(f, S \ {Picked(S)})
<1> DEFINE T == S \ {Picked(S)}
<1>1. PICK g : Sums(f, S, g)
  BY SumsExist
<1> DEFINE h == [s \in SUBSET T |-> g[s]]
<1>2. IsFiniteSet(T)
  BY FS_RemoveElement
<1>3. ASSUME NEW s \in SUBSET T
      PROVE  h[s] = SumStep(f, h, s)
  <2>1. g[s] = SumStep(f, g, s)
    BY <1>1 DEF Sums
  <2>2. s # {} => h[s \ {Picked(s)}] = g[s \ {Picked(s)}]
    OBVIOUS
  <2>3. SumStep(f, h, s) = SumStep(f, g, s)
    <3> HIDE DEF h
    <3> QED
      BY <2>2 DEF SumStep
  <2> QED
    BY <2>1, <2>3
<1>4. Sums(f, T, h)
  BY <1>3 DEF Sums
<1>5. g[S] = f[Picked(S)] + g[T]
  BY <1>1 DEF Sums, SumStep
<1>6. SumFunctionOnSet(f, S) = g[S] /\ SumFunctionOnSet(f, T) = h[T]
  <2> HIDE DEF h
  <2> QED
    BY <1>1, <1>2, <1>4, SumIsValue
<1> QED
  BY <1>5, <1>6

LEMMA SumOverNothing ==
    ASSUME NEW f
    PROVE  SumFunctionOnSet(f, {}) = 0
<1>1. IsFiniteSet({})
  BY FS_EmptySet
<1>2. PICK g : Sums(f, {}, g)
  BY <1>1, SumsExist
<1>3. g[{}] = 0
  BY <1>2 DEF Sums, SumStep
<1> QED
  BY <1>1, <1>2, <1>3, SumIsValue

(* A sum of integers is an integer. *)
LEMMA SumType ==
    ASSUME NEW f, NEW S, IsFiniteSet(S), \A x \in S : f[x] \in Int
    PROVE  SumFunctionOnSet(f, S) \in Int
<1> DEFINE P == {U \in SUBSET S : SumFunctionOnSet(f, U) \in Int}
<1>1. ASSUME NEW U \in SUBSET S, \A x \in U : U \ {x} \in P
      PROVE  U \in P
  <2>1. CASE U = {}
    BY <2>1, SumOverNothing
  <2>2. CASE U # {}
    <3>1. SumFunctionOnSet(f, U) = f[Picked(U)] + SumFunctionOnSet(f, U \ {Picked(U)})
      BY <2>2, SumUnfolds, FS_Subset
    <3> QED
      BY <1>1, <2>2, <3>1, PickedIsIn
  <2> QED
    BY <2>1, <2>2
<1>2. \A U \in SUBSET S : U \in P
  <2> HIDE DEF P
  <2> QED
    BY <1>1, SubsetInduction
<1> QED
  BY <1>2

(* The order of summation does not matter: any element can be taken out.   *)
LEMMA SumTakesOut ==
    ASSUME NEW f, NEW S, IsFiniteSet(S), \A x \in S : f[x] \in Int, NEW a \in S
    PROVE  SumFunctionOnSet(f, S) = f[a] + SumFunctionOnSet(f, S \ {a})
<1> DEFINE P == {U \in SUBSET S : \A x \in U :
                   SumFunctionOnSet(f, U) = f[x] + SumFunctionOnSet(f, U \ {x})}
<1>1. ASSUME NEW U \in SUBSET S, \A x \in U : U \ {x} \in P
      PROVE  U \in P
  <2> SUFFICES ASSUME NEW x \in U
               PROVE  SumFunctionOnSet(f, U) = f[x] + SumFunctionOnSet(f, U \ {x})
    OBVIOUS
  <2> DEFINE p == Picked(U)
             V == U \ {p}
             W == U \ {x}
  <2>1. p \in U /\ SumFunctionOnSet(f, U) = f[p] + SumFunctionOnSet(f, V)
    BY SumUnfolds, FS_Subset, PickedIsIn
  <2>2. CASE x = p
    BY <2>1, <2>2
  <2>3. CASE x # p
    <3>1. V \in P /\ W \in P /\ x \in V /\ p \in W
      BY <1>1, <2>1, <2>3
    <3>2. SumFunctionOnSet(f, V) = f[x] + SumFunctionOnSet(f, V \ {x})
      BY <3>1
    <3>3. SumFunctionOnSet(f, W) = f[p] + SumFunctionOnSet(f, W \ {p})
      BY <3>1
    <3>4. V \ {x} = W \ {p} /\ IsFiniteSet(V \ {x})
      BY FS_Subset
    <3>5. /\ SumFunctionOnSet(f, V \ {x}) \in Int
          /\ SumFunctionOnSet(f, W \ {p}) = SumFunctionOnSet(f, V \ {x})
      <4>1. SumFunctionOnSet(f, V \ {x}) \in Int
        BY <3>4, SumType
      <4> HIDE DEF p, V, W
      <4> QED
        BY <3>4, <4>1, Zenon
    <3>6. f[x] \in Int /\ f[p] \in Int
      BY <2>1
    <3> SUFFICES SumFunctionOnSet(f, U) = f[x] + SumFunctionOnSet(f, W)
      OBVIOUS
    <3> HIDE DEF p, V, W
    <3> QED
      BY <2>1, <3>2, <3>3, <3>5, <3>6
  <2> QED
    BY <2>2, <2>3
<1>2. \A U \in SUBSET S : U \in P
  <2> HIDE DEF P
  <2> QED
    BY <1>1, SubsetInduction
<1> QED
  BY <1>2

(* A sum depends on the values only. *)
LEMMA SumsAgree ==
    ASSUME NEW f, NEW g, NEW S, IsFiniteSet(S), \A x \in S : f[x] = g[x]
    PROVE  SumFunctionOnSet(f, S) = SumFunctionOnSet(g, S)
<1> DEFINE P == {U \in SUBSET S : SumFunctionOnSet(f, U) = SumFunctionOnSet(g, U)}
<1>1. ASSUME NEW U \in SUBSET S, \A x \in U : U \ {x} \in P
      PROVE  U \in P
  <2>1. CASE U = {}
    BY <2>1, SumOverNothing
  <2>2. CASE U # {}
    <3>1. /\ SumFunctionOnSet(f, U) = f[Picked(U)] + SumFunctionOnSet(f, U \ {Picked(U)})
          /\ SumFunctionOnSet(g, U) = g[Picked(U)] + SumFunctionOnSet(g, U \ {Picked(U)})
      BY <2>2, SumUnfolds, FS_Subset
    <3> QED
      BY <1>1, <2>2, <3>1, PickedIsIn
  <2> QED
    BY <2>1, <2>2
<1>2. \A U \in SUBSET S : U \in P
  <2> HIDE DEF P
  <2> QED
    BY <1>1, SubsetInduction
<1> QED
  BY <1>2

(* A sum of natural numbers is not negative. *)
LEMMA SumNotNegative ==
    ASSUME NEW f, NEW S, IsFiniteSet(S), \A x \in S : f[x] \in Nat
    PROVE  SumFunctionOnSet(f, S) \in Nat
<1> DEFINE P == {U \in SUBSET S : SumFunctionOnSet(f, U) \in Nat}
<1>1. ASSUME NEW U \in SUBSET S, \A x \in U : U \ {x} \in P
      PROVE  U \in P
  <2>1. CASE U = {}
    BY <2>1, SumOverNothing
  <2>2. CASE U # {}
    <3>1. SumFunctionOnSet(f, U) = f[Picked(U)] + SumFunctionOnSet(f, U \ {Picked(U)})
      BY <2>2, SumUnfolds, FS_Subset
    <3> QED
      BY <1>1, <2>2, <3>1, PickedIsIn
  <2> QED
    BY <2>1, <2>2
<1>2. \A U \in SUBSET S : U \in P
  <2> HIDE DEF P
  <2> QED
    BY <1>1, SubsetInduction
<1> QED
  BY <1>2

LEMMA SumOfZeros ==
    ASSUME NEW S, IsFiniteSet(S)
    PROVE  SumFunction([x \in S |-> 0]) = 0
<1> DEFINE f == [x \in S |-> 0]
           P == {U \in SUBSET S : SumFunctionOnSet(f, U) = 0}
<1>1. ASSUME NEW U \in SUBSET S, \A x \in U : U \ {x} \in P
      PROVE  U \in P
  <2>1. CASE U = {}
    BY <2>1, SumOverNothing
  <2>2. CASE U # {}
    <3>1. SumFunctionOnSet(f, U) = f[Picked(U)] + SumFunctionOnSet(f, U \ {Picked(U)})
      BY <2>2, SumUnfolds, FS_Subset
    <3>2. f[Picked(U)] = 0 /\ SumFunctionOnSet(f, U \ {Picked(U)}) = 0
      BY <1>1, <2>2, PickedIsIn
    <3> HIDE DEF f
    <3> QED
      BY <3>1, <3>2
  <2> QED
    BY <2>1, <2>2
<1>2. \A U \in SUBSET S : U \in P
  <2> HIDE DEF P
  <2> QED
    BY <1>1, SubsetInduction
<1>3. DOMAIN f = S
  OBVIOUS
<1> HIDE DEF f
<1>4. SumFunction(f) = 0
  BY <1>2, <1>3 DEF SumFunction
<1> QED
  BY <1>4 DEF f

(* What becomes of a sum when one value changes. *)
LEMMA SumChanges ==
    ASSUME NEW S, IsFiniteSet(S), NEW f \in [S -> Int], NEW g \in [S -> Int],
           NEW x \in S, \A y \in S \ {x} : g[y] = f[y]
    PROVE  /\ SumFunction(f) \in Int
           /\ SumFunction(g) = SumFunction(f) - f[x] + g[x]
<1> DEFINE T == S \ {x}
<1>1. /\ SumFunctionOnSet(f, S) = f[x] + SumFunctionOnSet(f, T)
      /\ SumFunctionOnSet(g, S) = g[x] + SumFunctionOnSet(g, T)
  BY SumTakesOut
<1>2. IsFiniteSet(T)
  BY FS_Subset
<1>3. SumFunctionOnSet(f, T) = SumFunctionOnSet(g, T)
  BY <1>2, SumsAgree
<1>4. SumFunctionOnSet(f, T) \in Int
  BY <1>2, SumType
<1>5. SumFunction(f) = SumFunctionOnSet(f, S) /\ SumFunction(g) = SumFunctionOnSet(g, S)
  BY DEF SumFunction
<1>6. f[x] \in Int /\ g[x] \in Int
  OBVIOUS
<1> HIDE DEF T
<1> QED
  BY <1>1, <1>3, <1>4, <1>5, <1>6

(* What becomes of a sum over a sequence when an element is appended. *)
LEMMA SumExtends ==
    ASSUME NEW n \in Nat, NEW f \in [1..n -> Int], NEW g \in [1..(n + 1) -> Int],
           \A i \in 1..n : g[i] = f[i]
    PROVE  /\ SumFunction(f) \in Int
           /\ SumFunction(g) = SumFunction(f) + g[n + 1]
<1> DEFINE S == 1..n
           T == 1..(n + 1)
<1>1. IsFiniteSet(S) /\ IsFiniteSet(T)
  BY FS_Interval
<1>2. T \ {n + 1} = S /\ n + 1 \in T
  OBVIOUS
<1>3. SumFunctionOnSet(g, T) = g[n + 1] + SumFunctionOnSet(g, T \ {n + 1})
  BY <1>1, <1>2, SumTakesOut
<1>4. SumFunctionOnSet(g, T \ {n + 1}) = SumFunctionOnSet(g, S)
  <2> HIDE DEF S, T
  <2> QED
    BY <1>2, Zenon
<1>5. SumFunctionOnSet(g, S) = SumFunctionOnSet(f, S)
  BY <1>1, SumsAgree
<1>6. SumFunctionOnSet(f, S) \in Int /\ g[n + 1] \in Int
  BY <1>1, <1>2, SumType
<1>7. SumFunction(f) = SumFunctionOnSet(f, S) /\ SumFunction(g) = SumFunctionOnSet(g, T)
  BY DEF SumFunction
<1> HIDE DEF S, T
<1> QED
  BY <1>3, <1>4, <1>5, <1>6, <1>7
=============================================================================
