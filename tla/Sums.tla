-------------------------------- MODULE Sums --------------------------------
(***************************************************************************)
(* Facts about finite sums, for the modules that prove something about     *)
(* money: MapThenSumSet of the community modules (a fold, which is a       *)
(* recursively defined function underneath) does not depend on the order   *)
(* of summation, and is additive.                                          *)
(*                                                                         *)
(* The induction theorems of the library take an operator as parameter,    *)
(* which the provers cannot instantiate.  The induction principles here    *)
(* take a set instead: they follow from the fact that the subsets of a     *)
(* finite set are well-founded under strict inclusion, so that a non-empty *)
(* set of counterexamples would have a minimal one.                        *)
(***************************************************************************)
EXTENDS Integers, FiniteSets, FiniteSetsExt, FiniteSetTheorems, WellFoundedInduction, TLAPS

\* The sum of f[x] over the x in S.
SumOn(f, S) == MapThenSumSet(LAMBDA x : f[x], S)

AnyOf(s) == CHOOSE x \in s : TRUE

LEMMA AnyOfIn == ASSUME NEW s, s # {} PROVE AnyOf(s) \in s
BY DEF AnyOf

-----------------------------------------------------------------------------
(* Induction *)

\* A set of sets that holds every subset of S all of whose proper subsets it
\* holds, holds every subset of S.
LEMMA StrongSetInduction ==
    ASSUME NEW S, IsFiniteSet(S), NEW D,
           \A T \in SUBSET S : (\A U \in SUBSET T : U # T => U \in D) => T \in D
    PROVE  SUBSET S \subseteq D
<1> SUFFICES ASSUME (SUBSET S) \ D # {} PROVE FALSE
  OBVIOUS
<1>1. IsWellFoundedOn(StrictSubsetOrdering(S), SUBSET S)
  <2>1. FiniteSubsetsOf(S) = SUBSET S
    BY FS_FiniteSubsetsOfFinite
  <2>2. IsWellFoundedOn(StrictSubsetOrdering(S), FiniteSubsetsOf(S))
    BY FS_StrictSubsetOrderingWellFounded
  <2>3. QED
    BY <2>1, <2>2
<1>2. PICK T \in (SUBSET S) \ D : \A U \in (SUBSET S) \ D : ~(<<U, T>> \in StrictSubsetOrdering(S))
  <2>1. PICK C : C = (SUBSET S) \ D
    OBVIOUS
  <2>2. C \subseteq SUBSET S /\ C # {}
    BY <2>1
  <2>3. \E T \in C : \A U \in C : ~(<<U, T>> \in StrictSubsetOrdering(S))
    BY <1>1, <2>2, WFMin
  <2>4. QED
    BY <2>1, <2>3
<1>3. \A U \in SUBSET T : U # T => U \in D
  BY <1>2 DEF StrictSubsetOrdering
<1>4. QED
  BY <1>2, <1>3

\* A set of sets that holds the empty set, and with a set every set that has
\* one element more, holds every subset of S.
LEMMA SetInduction ==
    ASSUME NEW S, IsFiniteSet(S), NEW D, {} \in D,
           \A T \in SUBSET S, x \in S : T \in D /\ x \notin T => T \cup {x} \in D
    PROVE  SUBSET S \subseteq D
<1>1. ASSUME NEW T \in SUBSET S, \A U \in SUBSET T : U # T => U \in D, T # {}
      PROVE  T \in D
  <2>1. PICK x \in T : TRUE
    BY <1>1
  <2>2. PICK U \in SUBSET T : U = T \ {x}
    OBVIOUS
  <2>3. U # T /\ U \cup {x} = T /\ x \notin U /\ x \in S /\ U \in SUBSET S
    BY <2>1, <2>2
  <2>4. QED
    BY <1>1, <2>3
<1>2. \A T \in SUBSET S : (\A U \in SUBSET T : U # T => U \in D) => T \in D
  BY <1>1
<1>3. QED
  BY <1>2, StrongSetInduction

\* The natural numbers, from the subsets of 0 .. n.
LEMMA NatSetInduction ==
    ASSUME NEW D, 0 \in D, \A n \in Nat : n \in D => n + 1 \in D
    PROVE  Nat \subseteq D
<1> SUFFICES ASSUME NEW n \in Nat PROVE n \in D
  OBVIOUS
<1>1. IsFiniteSet(0 .. n)
  BY FS_Interval
<1>2. PICK E : E = {s \in SUBSET (0 .. n) : \A k \in 0 .. n : s = 0 .. k => k \in D}
  OBVIOUS
<1>3. ASSUME NEW s \in SUBSET (0 .. n), \A r \in SUBSET s : r # s => r \in E
      PROVE  s \in E
  <2>1. SUFFICES ASSUME NEW k \in 0 .. n, s = 0 .. k PROVE k \in D
    BY <1>2
  <2>2. CASE k = 0
    BY <2>2
  <2>3. CASE k # 0
    <3>1. k - 1 \in Nat /\ k - 1 \in 0 .. n /\ k = (k - 1) + 1
      BY <2>3
    <3>2. (0 .. k - 1) \in SUBSET s /\ k \in s /\ k \notin 0 .. k - 1
      BY <2>1, <3>1
    <3>3. (0 .. k - 1) \in E
      BY <1>3, <3>2
    <3>4. k - 1 \in D
      BY <1>2, <3>1, <3>3
    <3>5. QED
      BY <3>1, <3>4
  <2>4. QED
    BY <2>2, <2>3
<1>4. PICK S : S = 0 .. n
  OBVIOUS
<1>5. \A s \in SUBSET S : (\A r \in SUBSET s : r # s => r \in E) => s \in E
  BY <1>3, <1>4
<1>6. IsFiniteSet(S)
  BY <1>1, <1>4
<1>7. SUBSET S \subseteq E
  BY <1>5, <1>6, StrongSetInduction
<1>8. (0 .. n) \in E
  BY <1>4, <1>7
<1>9. QED
  BY <1>2, <1>8

\* The image of a finite set under a function is finite.
LEMMA FiniteImage ==
    ASSUME NEW S, IsFiniteSet(S), NEW m
    PROVE  IsFiniteSet({m[x] : x \in S})
<1>1. PICK D : D = {T \in SUBSET S : IsFiniteSet({m[x] : x \in T})}
  OBVIOUS
<1>2. {} \in D
  <2>1. {m[x] : x \in {}} = {}
    OBVIOUS
  <2>2. QED
    BY <1>1, <2>1, FS_EmptySet
<1>3. ASSUME NEW T \in SUBSET S, NEW x \in S, T \in D, x \notin T
      PROVE  T \cup {x} \in D
  <2>1. PICK U : U = {m[y] : y \in T}
    OBVIOUS
  <2>2. {m[y] : y \in T \cup {x}} = U \cup {m[x]}
    BY <2>1
  <2>3. IsFiniteSet(U)
    BY <1>1, <1>3, <2>1
  <2>4. IsFiniteSet(U \cup {m[x]})
    BY <2>3, FS_AddElement
  <2>5. QED
    BY <1>1, <2>2, <2>4
<1>4. SUBSET S \subseteq D
  BY <1>2, <1>3, SetInduction
<1>5. S \in D
  BY <1>4
<1>6. QED
  BY <1>1, <1>5

-----------------------------------------------------------------------------
(* The function behind MapThenSumSet exists, and is unique *)

\* g is the function that MapThenSumSet computes with, on the subsets of S.
IsSum(g, f, S) ==
    /\ g \in [SUBSET S -> Int]
    /\ \A s \in SUBSET S : g[s] = IF s = {} THEN 0 ELSE f[AnyOf(s)] + g[s \ {AnyOf(s)}]

\* There is such a function for the subsets of at most n elements.
Steps(f, S, n) ==
    \E g \in [SUBSET S -> Int] : \A s \in SUBSET S : Cardinality(s) <= n =>
         g[s] = IF s = {} THEN 0 ELSE f[AnyOf(s)] + g[s \ {AnyOf(s)}]

\* By induction on the number of elements.
LEMMA SumExists ==
    ASSUME NEW S, IsFiniteSet(S), NEW f, \A x \in S : f[x] \in Int
    PROVE  \E g : IsSum(g, f, S)
<1>1. \A s \in SUBSET S : IsFiniteSet(s) /\ Cardinality(s) \in Nat
  BY FS_Subset, FS_CardinalityType
<1>2. 0 \in {n \in Nat : Steps(f, S, n)}
  <2>1. [s \in SUBSET S |-> 0] \in [SUBSET S -> Int]
    OBVIOUS
  <2>2. \A s \in SUBSET S : Cardinality(s) <= 0 => s = {}
    BY <1>1, FS_EmptySet
  <2>3. QED
    BY <2>1, <2>2 DEF Steps
<1>3. ASSUME NEW n \in Nat, Steps(f, S, n)
      PROVE  Steps(f, S, n + 1)
  <2>1. PICK g \in [SUBSET S -> Int] : \A s \in SUBSET S : Cardinality(s) <= n =>
           g[s] = IF s = {} THEN 0 ELSE f[AnyOf(s)] + g[s \ {AnyOf(s)}]
    BY <1>3 DEF Steps
  <2>2. PICK h : h = [s \in SUBSET S |-> IF s = {} THEN 0 ELSE f[AnyOf(s)] + g[s \ {AnyOf(s)}]]
    OBVIOUS
  <2>3. h \in [SUBSET S -> Int]
    BY <2>2, AnyOfIn
  <2>4. ASSUME NEW s \in SUBSET S, Cardinality(s) <= n + 1
        PROVE  h[s] = IF s = {} THEN 0 ELSE f[AnyOf(s)] + h[s \ {AnyOf(s)}]
    <3>1. CASE s = {}
      BY <2>2, <3>1
    <3>2. CASE s # {}
      <4>1. AnyOf(s) \in s /\ s \ {AnyOf(s)} \in SUBSET S
        BY <3>2, AnyOfIn
      <4>2. Cardinality(s \ {AnyOf(s)}) = Cardinality(s) - 1
        BY <1>1, <4>1, FS_RemoveElement
      <4>3. Cardinality(s \ {AnyOf(s)}) <= n
        BY <1>1, <2>4, <4>2
      <4>4. h[s \ {AnyOf(s)}] = g[s \ {AnyOf(s)}]
        BY <2>1, <2>2, <4>1, <4>3
      <4>5. QED
        BY <2>2, <3>2, <4>4
    <3>3. QED
      BY <3>1, <3>2
  <2>5. QED
    BY <2>3, <2>4 DEF Steps
<1>4. Nat \subseteq {n \in Nat : Steps(f, S, n)}
  <2>1. PICK D : D = {n \in Nat : Steps(f, S, n)}
    OBVIOUS
  <2>2. 0 \in D /\ \A n \in Nat : n \in D => n + 1 \in D
    BY <1>2, <1>3, <2>1
  <2>3. Nat \subseteq D
    BY <2>2, NatSetInduction
  <2>4. QED
    BY <2>1, <2>3
<1>5. Steps(f, S, Cardinality(S))
  BY <1>1, <1>4
<1>6. \A s \in SUBSET S : Cardinality(s) <= Cardinality(S)
  BY FS_Subset
<1>7. QED
  BY <1>5, <1>6 DEF Steps, IsSum

\* The recursion equation alone makes the values integers.
LEMMA RecursionIsSum ==
    ASSUME NEW S, IsFiniteSet(S), NEW f, \A x \in S : f[x] \in Int, NEW g,
           g = [s \in SUBSET S |-> IF s = {} THEN 0 ELSE f[AnyOf(s)] + g[s \ {AnyOf(s)}]]
    PROVE  IsSum(g, f, S)
<1>1. PICK D : D = {s \in SUBSET S : g[s] \in Int}
  OBVIOUS
<1>2. \A s \in SUBSET S : g[s] = IF s = {} THEN 0 ELSE f[AnyOf(s)] + g[s \ {AnyOf(s)}]
  OBVIOUS
<1>3. ASSUME NEW T \in SUBSET S, \A U \in SUBSET T : U # T => U \in D
      PROVE  T \in D
  <2>1. CASE T = {}
    BY <1>1, <1>2, <2>1
  <2>2. CASE T # {}
    <3>1. AnyOf(T) \in T
      BY <2>2, AnyOfIn
    <3>2. PICK U \in SUBSET T : U = T \ {AnyOf(T)}
      OBVIOUS
    <3>3. g[U] \in Int
      BY <1>1, <1>3, <3>1, <3>2
    <3>4. g[T] = f[AnyOf(T)] + g[U]
      BY <1>2, <2>2, <3>2
    <3>5. QED
      BY <1>1, <3>1, <3>3, <3>4
  <2>3. QED
    BY <2>1, <2>2
<1>4. SUBSET S \subseteq D
  BY <1>3, StrongSetInduction
<1>5. QED
  BY <1>1, <1>2, <1>4 DEF IsSum

\* Two such functions agree where both are defined.
LEMMA SumUnique ==
    ASSUME NEW f, NEW S, NEW R, IsFiniteSet(S), NEW g, NEW h, IsSum(g, f, S), IsSum(h, f, R)
    PROVE  \A s \in SUBSET S : s \subseteq R => g[s] = h[s]
<1>1. PICK D : D = {s \in SUBSET S : s \subseteq R => g[s] = h[s]}
  OBVIOUS
<1>2. ASSUME NEW T \in SUBSET S, \A U \in SUBSET T : U # T => U \in D
      PROVE  T \in D
  <2>1. SUFFICES ASSUME T \subseteq R PROVE g[T] = h[T]
    BY <1>1
  <2>2. CASE T = {}
    BY <2>1, <2>2 DEF IsSum
  <2>3. CASE T # {}
    <3>1. AnyOf(T) \in T
      BY <2>3, AnyOfIn
    <3>2. PICK U \in SUBSET T : U = T \ {AnyOf(T)}
      OBVIOUS
    <3>3. g[U] = h[U]
      BY <1>1, <1>2, <2>1, <3>1, <3>2
    <3>4. g[T] = f[AnyOf(T)] + g[U] /\ h[T] = f[AnyOf(T)] + h[U]
      BY <2>1, <2>3, <3>2 DEF IsSum
    <3>5. QED
      BY <3>3, <3>4
  <2>4. QED
    BY <2>2, <2>3
<1>3. SUBSET S \subseteq D
  BY <1>2, StrongSetInduction
<1>4. QED
  BY <1>1, <1>3

LEMMA SumOnIsSum ==
    ASSUME NEW S, IsFiniteSet(S), NEW f, \A x \in S : f[x] \in Int
    PROVE  \E g : IsSum(g, f, S) /\ SumOn(f, S) = g[S]
<1>1. PICK g0 : IsSum(g0, f, S)
  BY SumExists
<1>2. PICK g : g = CHOOSE k : k = [s \in SUBSET S |->
         IF s = {} THEN 0 ELSE f[CHOOSE x \in s : TRUE] + k[s \ {CHOOSE x \in s : TRUE}]]
  OBVIOUS
<1>3. SumOn(f, S) = g[S]
  BY <1>2 DEF SumOn, MapThenSumSet, MapThenFoldSet
<1>4. \E k : k = [s \in SUBSET S |->
         IF s = {} THEN 0 ELSE f[CHOOSE x \in s : TRUE] + k[s \ {CHOOSE x \in s : TRUE}]]
  BY <1>1 DEF IsSum, AnyOf
<1>5. g = [s \in SUBSET S |->
         IF s = {} THEN 0 ELSE f[CHOOSE x \in s : TRUE] + g[s \ {CHOOSE x \in s : TRUE}]]
  BY <1>2, <1>4, ZenonT(30)
<1>6. IsSum(g, f, S)
  BY <1>5, RecursionIsSum DEF AnyOf
<1>7. QED
  BY <1>3, <1>6

-----------------------------------------------------------------------------
(* Sums *)

LEMMA SumOnType ==
    ASSUME NEW S, IsFiniteSet(S), NEW f, \A x \in S : f[x] \in Int
    PROVE  SumOn(f, S) \in Int
<1>1. PICK g : IsSum(g, f, S) /\ SumOn(f, S) = g[S]
  BY SumOnIsSum
<1>2. QED
  BY <1>1 DEF IsSum

LEMMA SumOnEmpty == ASSUME NEW f PROVE SumOn(f, {}) = 0
<1>1. PICK g : IsSum(g, f, {}) /\ SumOn(f, {}) = g[{}]
  BY SumOnIsSum, FS_EmptySet
<1>2. QED
  BY <1>1 DEF IsSum

\* One step of the fold.
LEMMA SumOnStep ==
    ASSUME NEW S, IsFiniteSet(S), NEW f, \A x \in S : f[x] \in Int, S # {}
    PROVE  SumOn(f, S) = f[AnyOf(S)] + SumOn(f, S \ {AnyOf(S)})
<1>1. PICK R \in SUBSET S : R = S \ {AnyOf(S)}
  OBVIOUS
<1>2. IsFiniteSet(R)
  BY <1>1, FS_Subset
<1>3. PICK g : IsSum(g, f, S) /\ SumOn(f, S) = g[S]
  BY SumOnIsSum
<1>4. PICK h : IsSum(h, f, R) /\ SumOn(f, R) = h[R]
  BY <1>1, <1>2, SumOnIsSum
<1>5. \A s \in SUBSET S : s \subseteq R => g[s] = h[s]
  BY <1>3, <1>4, SumUnique
<1>6. g[R] = h[R]
  BY <1>5
<1>7. g[S] = f[AnyOf(S)] + g[R]
  BY <1>1, <1>3 DEF IsSum
<1>8. QED
  BY <1>1, <1>3, <1>4, <1>6, <1>7

\* The order of summation does not matter: any element can be the first.
LEMMA SumOnRemove ==
    ASSUME NEW S, IsFiniteSet(S), NEW f, \A x \in S : f[x] \in Int, NEW x \in S
    PROVE  SumOn(f, S) = f[x] + SumOn(f, S \ {x})
<1>1. PICK D : D = {T \in SUBSET S : \A y \in T : SumOn(f, T) = f[y] + SumOn(f, T \ {y})}
  OBVIOUS
<1>2. ASSUME NEW T \in SUBSET S, \A U \in SUBSET T : U # T => U \in D
      PROVE  T \in D
  <2>1. SUFFICES ASSUME NEW y \in T PROVE SumOn(f, T) = f[y] + SumOn(f, T \ {y})
    BY <1>1
  <2>2. PICK p \in T : p = AnyOf(T)
    BY AnyOfIn
  <2>3. IsFiniteSet(T) /\ SumOn(f, T) = f[p] + SumOn(f, T \ {p})
    BY <2>2, FS_Subset, SumOnStep
  <2>4. CASE y = p
    BY <2>3, <2>4
  <2>5. CASE y # p
    <3>1. PICK U \in SUBSET T : U = T \ {p}
      OBVIOUS
    <3>2. PICK V \in SUBSET T : V = T \ {y}
      OBVIOUS
    <3>3. PICK W \in SUBSET T : W = T \ {p, y}
      OBVIOUS
    <3>4. U \ {y} = W /\ V \ {p} = W /\ y \in U /\ p \in V /\ U # T /\ V # T
      BY <2>5, <3>1, <3>2, <3>3
    <3>5. SumOn(f, U) = f[y] + SumOn(f, W) /\ SumOn(f, V) = f[p] + SumOn(f, W)
      BY <1>1, <1>2, <3>4
    <3>6. SumOn(f, W) \in Int
      BY <3>3, FS_Subset, SumOnType
    <3>7. QED
      BY <2>3, <3>1, <3>2, <3>5, <3>6
  <2>6. QED
    BY <2>4, <2>5
<1>3. SUBSET S \subseteq D
  BY <1>2, StrongSetInduction
<1>4. S \in D
  BY <1>3
<1>5. QED
  BY <1>1, <1>4

LEMMA SumOnAdd ==
    ASSUME NEW S, IsFiniteSet(S), NEW f, \A y \in S : f[y] \in Int, NEW x, x \notin S, f[x] \in Int
    PROVE  SumOn(f, S \cup {x}) = SumOn(f, S) + f[x]
<1>1. PICK R : R = S \cup {x}
  OBVIOUS
<1>2. IsFiniteSet(R) /\ x \in R /\ R \ {x} = S /\ \A y \in R : f[y] \in Int
  BY <1>1, FS_AddElement
<1>3. SumOn(f, R) = f[x] + SumOn(f, R \ {x})
  BY <1>2, SumOnRemove
<1>4. SumOn(f, R) = f[x] + SumOn(f, S)
  BY <1>2, <1>3
<1>5. SumOn(f, S) \in Int
  BY SumOnType
<1>6. QED
  BY <1>1, <1>4, <1>5

\* Functions that agree on S have the same sum over S.
LEMMA SumOnSame ==
    ASSUME NEW S, IsFiniteSet(S), NEW f, NEW g, \A x \in S : f[x] \in Int /\ g[x] = f[x]
    PROVE  SumOn(g, S) = SumOn(f, S)
<1>1. PICK h : IsSum(h, f, S) /\ SumOn(f, S) = h[S]
  BY SumOnIsSum
<1>2. PICK k : IsSum(k, g, S) /\ SumOn(g, S) = k[S]
  BY SumOnIsSum
<1>3. \A s \in SUBSET S : k[s] = IF s = {} THEN 0 ELSE f[AnyOf(s)] + k[s \ {AnyOf(s)}]
  <2>1. \A s \in SUBSET S : s # {} => AnyOf(s) \in S
    BY AnyOfIn
  <2>2. QED
    BY <1>2, <2>1 DEF IsSum
<1>4. IsSum(k, f, S)
  BY <1>2, <1>3 DEF IsSum
<1>5. \A s \in SUBSET S : s \subseteq S => h[s] = k[s]
  BY <1>1, <1>4, SumUnique
<1>6. h[S] = k[S]
  BY <1>5
<1>7. QED
  BY <1>1, <1>2, <1>6

\* A sum over two sets that have no element in common.
LEMMA SumOnUnion ==
    ASSUME NEW S, IsFiniteSet(S), NEW R, IsFiniteSet(R), S \cap R = {},
           NEW f, \A x \in S \cup R : f[x] \in Int
    PROVE  SumOn(f, S \cup R) = SumOn(f, S) + SumOn(f, R)
<1>1. PICK D : D = {T \in SUBSET R : SumOn(f, S \cup T) = SumOn(f, S) + SumOn(f, T)}
  OBVIOUS
<1>2. SumOn(f, S) \in Int
  BY SumOnType
<1>3. {} \in D
  <2>1. S \cup {} = S
    OBVIOUS
  <2>2. QED
    BY <1>1, <1>2, <2>1, SumOnEmpty
<1>4. ASSUME NEW T \in SUBSET R, NEW x \in R, T \in D, x \notin T
      PROVE  T \cup {x} \in D
  <2>1. IsFiniteSet(T) /\ (\A y \in T : f[y] \in Int)
    BY FS_Subset
  <2>2. SumOn(f, T) \in Int /\ f[x] \in Int
    BY <2>1, SumOnType
  <2>3. SumOn(f, T \cup {x}) = SumOn(f, T) + f[x]
    BY <1>4, <2>1, <2>2, SumOnAdd
  <2>4. PICK U : U = S \cup T
    OBVIOUS
  <2>5. IsFiniteSet(U) /\ x \notin U /\ (\A y \in U : f[y] \in Int)
    BY <1>4, <2>1, <2>4, FS_Union
  <2>6. SumOn(f, U \cup {x}) = SumOn(f, U) + f[x]
    BY <2>2, <2>5, SumOnAdd
  <2>7. PICK V : V = S \cup (T \cup {x}) /\ V = U \cup {x}
    BY <2>4
  <2>8. SumOn(f, U) = SumOn(f, S) + SumOn(f, T)
    BY <1>1, <1>4, <2>4
  <2>9. SumOn(f, V) = SumOn(f, U) + f[x]
    BY <2>6, <2>7
  <2>10. SumOn(f, V) = SumOn(f, S) + SumOn(f, T \cup {x})
    BY <1>2, <2>2, <2>3, <2>8, <2>9
  <2>11. QED
    BY <1>1, <2>7, <2>10
<1>5. SUBSET R \subseteq D
  BY <1>3, <1>4, SetInduction
<1>6. R \in D
  BY <1>5
<1>7. QED
  BY <1>1, <1>6

\* The sum of pointwise sums.
LEMMA SumOnPlus ==
    ASSUME NEW S, IsFiniteSet(S), NEW f, NEW g, NEW h,
           \A x \in S : f[x] \in Int /\ g[x] \in Int /\ h[x] = f[x] + g[x]
    PROVE  SumOn(h, S) = SumOn(f, S) + SumOn(g, S)
<1>1. PICK D : D = {T \in SUBSET S : SumOn(h, T) = SumOn(f, T) + SumOn(g, T)}
  OBVIOUS
<1>2. {} \in D
  BY <1>1, SumOnEmpty
<1>3. ASSUME NEW T \in SUBSET S, NEW x \in S, T \in D, x \notin T
      PROVE  T \cup {x} \in D
  <2>1. IsFiniteSet(T)
    BY FS_Subset
  <2>2. SumOn(f, T \cup {x}) = SumOn(f, T) + f[x]
    BY <1>3, <2>1, SumOnAdd
  <2>3. SumOn(g, T \cup {x}) = SumOn(g, T) + g[x]
    BY <1>3, <2>1, SumOnAdd
  <2>4. SumOn(h, T \cup {x}) = SumOn(h, T) + h[x]
    BY <1>3, <2>1, SumOnAdd
  <2>5. SumOn(f, T) \in Int /\ SumOn(g, T) \in Int
    BY <2>1, SumOnType
  <2>6. SumOn(h, T) = SumOn(f, T) + SumOn(g, T)
    BY <1>1, <1>3
  <2>7. SumOn(h, T \cup {x}) = SumOn(f, T \cup {x}) + SumOn(g, T \cup {x})
    BY <2>2, <2>3, <2>4, <2>5, <2>6
  <2>8. QED
    BY <1>1, <2>7
<1>4. SUBSET S \subseteq D
  BY <1>2, <1>3, SetInduction
<1>5. S \in D
  BY <1>4
<1>6. QED
  BY <1>1, <1>5

\* A sum over the image of S under a function that is injective on S.
LEMMA SumOnImage ==
    ASSUME NEW S, IsFiniteSet(S), NEW m, NEW f, NEW g,
           \A x, y \in S : m[x] = m[y] => x = y,
           \A x \in S : f[x] \in Int /\ g[m[x]] = f[x]
    PROVE  SumOn(g, {m[x] : x \in S}) = SumOn(f, S) /\ IsFiniteSet({m[x] : x \in S})
<1>1. PICK D : D = {T \in SUBSET S : SumOn(g, {m[x] : x \in T}) = SumOn(f, T) /\ IsFiniteSet({m[x] : x \in T})}
  OBVIOUS
<1>2. {} \in D
  <2>1. {m[x] : x \in {}} = {}
    OBVIOUS
  <2>2. QED
    BY <1>1, <2>1, SumOnEmpty, FS_EmptySet
<1>3. ASSUME NEW T \in SUBSET S, NEW x \in S, T \in D, x \notin T
      PROVE  T \cup {x} \in D
  <2>1. IsFiniteSet(T)
    BY FS_Subset
  <2>2. SumOn(f, T \cup {x}) = SumOn(f, T) + f[x]
    BY <1>3, <2>1, SumOnAdd
  <2>3. PICK U : U = {m[y] : y \in T}
    OBVIOUS
  <2>4. IsFiniteSet(U) /\ m[x] \notin U /\ (\A z \in U : g[z] \in Int) /\ g[m[x]] \in Int
    BY <1>1, <1>3, <2>3
  <2>5. SumOn(g, U \cup {m[x]}) = SumOn(g, U) + g[m[x]]
    BY <2>4, SumOnAdd
  <2>6. {m[y] : y \in T \cup {x}} = U \cup {m[x]}
    BY <2>3
  <2>7. SumOn(g, {m[y] : y \in T \cup {x}}) = SumOn(f, T \cup {x})
    BY <1>1, <1>3, <2>2, <2>3, <2>5, <2>6
  <2>8. IsFiniteSet({m[y] : y \in T \cup {x}})
    BY <2>4, <2>6, FS_AddElement
  <2>9. QED
    BY <1>1, <2>7, <2>8
<1>4. SUBSET S \subseteq D
  BY <1>2, <1>3, SetInduction
<1>5. S \in D
  BY <1>4
<1>6. QED
  BY <1>1, <1>5

LEMMA SumOnZero ==
    ASSUME NEW S, IsFiniteSet(S), NEW f, \A x \in S : f[x] = 0
    PROVE  SumOn(f, S) = 0
<1>1. SumOn(f, S) \in Int
  BY SumOnType
<1>2. \A x \in S : f[x] \in Int /\ f[x] \in Int /\ f[x] = f[x] + f[x]
  OBVIOUS
<1>3. SumOn(f, S) = SumOn(f, S) + SumOn(f, S)
  BY <1>2, SumOnPlus
<1>4. PICK n \in Int : n = SumOn(f, S)
  BY <1>1
<1>5. n = n + n
  BY <1>3, <1>4
<1>6. n = 0
  BY <1>5
<1>7. QED
  BY <1>4, <1>6

LEMMA SumOnNegated ==
    ASSUME NEW S, IsFiniteSet(S), NEW f, NEW g, \A x \in S : f[x] \in Int /\ g[x] = -f[x]
    PROVE  SumOn(g, S) = -SumOn(f, S)
<1>1. SumOn(f, S) \in Int /\ SumOn(g, S) \in Int
  BY SumOnType
<1>2. PICK h : h = [x \in S |-> 0]
  OBVIOUS
<1>3. SumOn(h, S) = 0
  BY <1>2, SumOnZero
<1>4. \A x \in S : f[x] \in Int /\ g[x] \in Int /\ h[x] = f[x] + g[x]
  BY <1>2
<1>5. SumOn(h, S) = SumOn(f, S) + SumOn(g, S)
  BY <1>4, SumOnPlus
<1>6. QED
  BY <1>1, <1>3, <1>5

\* The sums of two functions that differ at one element.
LEMMA SumOnChange ==
    ASSUME NEW S, IsFiniteSet(S), NEW f, NEW g, NEW x \in S,
           \A y \in S : f[y] \in Int /\ g[y] \in Int, \A y \in S \ {x} : g[y] = f[y]
    PROVE  SumOn(g, S) = SumOn(f, S) + g[x] - f[x]
<1>1. PICK R : R = S \ {x}
  OBVIOUS
<1>2. IsFiniteSet(R) /\ (\A y \in R : f[y] \in Int /\ g[y] = f[y])
  BY <1>1, FS_Subset
<1>3. SumOn(g, R) = SumOn(f, R)
  BY <1>2, SumOnSame
<1>4. SumOn(g, S) = g[x] + SumOn(g, R) /\ SumOn(f, S) = f[x] + SumOn(f, R)
  BY <1>1, SumOnRemove
<1>5. SumOn(f, R) \in Int
  BY <1>2, SumOnType
<1>6. QED
  BY <1>3, <1>4, <1>5

\* The sum of pointwise differences.
LEMMA SumOnMinus ==
    ASSUME NEW S, IsFiniteSet(S), NEW f, NEW g, NEW h,
           \A x \in S : f[x] \in Int /\ g[x] \in Int /\ h[x] = f[x] - g[x]
    PROVE  SumOn(h, S) = SumOn(f, S) - SumOn(g, S)
<1>1. \A x \in S : h[x] \in Int /\ g[x] \in Int /\ f[x] = h[x] + g[x]
  OBVIOUS
<1>2. SumOn(f, S) = SumOn(h, S) + SumOn(g, S)
  BY <1>1, SumOnPlus
<1>3. SumOn(f, S) \in Int /\ SumOn(g, S) \in Int /\ SumOn(h, S) \in Int
  BY <1>1, SumOnType
<1>4. QED
  BY <1>2, <1>3

LEMMA SumOnNonneg ==
    ASSUME NEW S, IsFiniteSet(S), NEW f, \A x \in S : f[x] \in Nat
    PROVE  SumOn(f, S) \in Nat
<1>1. PICK D : D = {T \in SUBSET S : SumOn(f, T) \in Nat}
  OBVIOUS
<1>2. {} \in D
  BY <1>1, SumOnEmpty
<1>3. ASSUME NEW T \in SUBSET S, NEW x \in S, T \in D, x \notin T
      PROVE  T \cup {x} \in D
  <2>1. IsFiniteSet(T) /\ \A y \in T : f[y] \in Int
    BY FS_Subset
  <2>2. f[x] \in Nat /\ f[x] \in Int
    OBVIOUS
  <2>3. SumOn(f, T \cup {x}) = SumOn(f, T) + f[x]
    BY <1>3, <2>1, <2>2, SumOnAdd
  <2>4. QED
    BY <1>1, <1>3, <2>2, <2>3
<1>4. SUBSET S \subseteq D
  BY <1>2, <1>3, SetInduction
<1>5. S \in D
  BY <1>4
<1>6. QED
  BY <1>1, <1>5

LEMMA SumOnMonotone ==
    ASSUME NEW S, IsFiniteSet(S), NEW f, NEW g,
           \A x \in S : f[x] \in Int /\ g[x] \in Int /\ f[x] <= g[x]
    PROVE  SumOn(f, S) <= SumOn(g, S)
<1>1. PICK h : h = [x \in S |-> g[x] - f[x]]
  OBVIOUS
<1>2. \A x \in S : g[x] \in Int /\ f[x] \in Int /\ h[x] = g[x] - f[x]
  BY <1>1
<1>3. SumOn(h, S) = SumOn(g, S) - SumOn(f, S)
  BY <1>2, SumOnMinus
<1>4. \A x \in S : h[x] \in Nat
  BY <1>1
<1>5. SumOn(h, S) \in Nat
  BY <1>4, SumOnNonneg
<1>6. SumOn(f, S) \in Int /\ SumOn(g, S) \in Int
  BY SumOnType
<1>7. QED
  BY <1>3, <1>5, <1>6

\* What is zero outside a subset adds up over the subset alone.
LEMMA SumOnPadded ==
    ASSUME NEW D, IsFiniteSet(D), NEW S \in SUBSET D, NEW f, NEW g,
           \A x \in S : f[x] \in Int /\ g[x] = f[x], \A x \in D \ S : g[x] = 0
    PROVE  SumOn(g, D) = SumOn(f, S)
<1>1. PICK R : R = D \ S
  OBVIOUS
<1>2. IsFiniteSet(S) /\ IsFiniteSet(R) /\ S \cap R = {} /\ D = S \cup R
  BY <1>1, FS_Subset
<1>3. \A x \in S \cup R : g[x] \in Int
  BY <1>1
<1>4. SumOn(g, S \cup R) = SumOn(g, S) + SumOn(g, R)
  BY <1>2, <1>3, SumOnUnion
<1>5. \A x \in R : g[x] = 0
  BY <1>1
<1>6. SumOn(g, R) = 0
  BY <1>2, <1>5, SumOnZero
<1>7. SumOn(g, S) = SumOn(f, S)
  BY <1>2, SumOnSame
<1>8. SumOn(f, S) \in Int
  BY <1>2, SumOnType
<1>9. QED
  BY <1>2, <1>4, <1>6, <1>7, <1>8

LEMMA SumOnSingle == ASSUME NEW f, NEW x, f[x] \in Int PROVE SumOn(f, {x}) = f[x]
<1>1. SumOn(f, {} \cup {x}) = SumOn(f, {}) + f[x]
  BY SumOnAdd, FS_EmptySet
<1>2. {} \cup {x} = {x}
  OBVIOUS
<1>3. QED
  BY <1>1, <1>2, SumOnEmpty

\* A sum of zeros but for one element.
LEMMA SumOnOnly ==
    ASSUME NEW S, IsFiniteSet(S), NEW f, NEW x \in S, f[x] \in Int, \A y \in S \ {x} : f[y] = 0
    PROVE  SumOn(f, S) = f[x]
<1>1. {x} \in SUBSET S /\ (\A y \in {x} : f[y] \in Int /\ f[y] = f[y])
  OBVIOUS
<1>2. SumOn(f, S) = SumOn(f, {x})
  BY <1>1, SumOnPadded
<1>3. QED
  BY <1>2, SumOnSingle

\* Two functions that differ by a at p, by b at d and by v[x] at the x in U.
Shift(x, p, a, d, b, U, v) ==
    (IF x = p THEN a ELSE 0) + (IF x = d THEN b ELSE 0) + (IF x \in U THEN v[x] ELSE 0)
Shifted(f, g, S, p, a, d, b, U, v) ==
    /\ p \in S /\ a \in Int /\ d \in S /\ b \in Int /\ U \in SUBSET S /\ \A x \in U : v[x] \in Int
    /\ \A x \in S : f[x] \in Int /\ g[x] = f[x] + Shift(x, p, a, d, b, U, v)

LEMMA SumOnShift ==
    ASSUME NEW S, IsFiniteSet(S), NEW f, NEW g, NEW p, NEW a, NEW d, NEW b, NEW U, NEW v,
           Shifted(f, g, S, p, a, d, b, U, v)
    PROVE  SumOn(g, S) = SumOn(f, S) + a + b + SumOn(v, U) /\ SumOn(g, S) \in Int /\ SumOn(v, U) \in Int
<1>0. /\ p \in S /\ a \in Int /\ d \in S /\ b \in Int /\ U \in SUBSET S /\ \A x \in U : v[x] \in Int
      /\ \A x \in S : f[x] \in Int /\ g[x] = f[x] + Shift(x, p, a, d, b, U, v)
  BY DEF Shifted
<1>1. PICK fa, fb, w : /\ fa = [x \in S |-> IF x = p THEN a ELSE 0]
                       /\ fb = [x \in S |-> IF x = d THEN b ELSE 0]
                       /\ w = [x \in S |-> IF x \in U THEN v[x] ELSE 0]
  OBVIOUS
<1>2. PICK h, k : h = [x \in S |-> f[x] + fa[x]] /\ k = [x \in S |-> fb[x] + w[x]]
  OBVIOUS
<1>3. /\ \A x \in S : fa[x] \in Int /\ fb[x] \in Int /\ w[x] \in Int
      /\ fa[p] = a /\ \A x \in S \ {p} : fa[x] = 0
      /\ fb[d] = b /\ \A x \in S \ {d} : fb[x] = 0
  BY <1>0, <1>1
<1>4. SumOn(fa, S) = a
  BY <1>0, <1>3, SumOnOnly
<1>5. SumOn(fb, S) = b
  BY <1>0, <1>3, SumOnOnly
<1>6. SumOn(w, S) = SumOn(v, U)
  <2>1. /\ \A x \in U : v[x] \in Int /\ w[x] = v[x]
        /\ \A x \in S \ U : w[x] = 0
    BY <1>0, <1>1
  <2> QED
    BY <1>0, <2>1, SumOnPadded
<1>7. \A x \in S : f[x] \in Int /\ fa[x] \in Int /\ h[x] = f[x] + fa[x]
  BY <1>0, <1>2, <1>3
<1>8. \A x \in S : fb[x] \in Int /\ w[x] \in Int /\ k[x] = fb[x] + w[x]
  BY <1>2, <1>3
<1>9. ASSUME NEW x \in S PROVE h[x] \in Int /\ k[x] \in Int /\ g[x] = h[x] + k[x]
  <2>1. g[x] = f[x] + ((IF x = p THEN a ELSE 0) + (IF x = d THEN b ELSE 0) + (IF x \in U THEN v[x] ELSE 0))
    BY <1>0 DEF Shift
  <2>2. g[x] = f[x] + (fa[x] + fb[x] + w[x])
    BY <1>1, <2>1
  <2> QED
    BY <1>3, <1>7, <1>8, <2>2
<1>10. SumOn(h, S) = SumOn(f, S) + SumOn(fa, S)
  BY <1>7, SumOnPlus
<1>11. SumOn(k, S) = SumOn(fb, S) + SumOn(w, S)
  BY <1>8, SumOnPlus
<1>12. SumOn(g, S) = SumOn(h, S) + SumOn(k, S)
  BY <1>9, SumOnPlus
<1>13. SumOn(f, S) \in Int
  BY <1>7, SumOnType
<1>14. SumOn(w, S) \in Int
  BY <1>3, SumOnType
<1> QED
  BY <1>0, <1>4, <1>5, <1>6, <1>10, <1>11, <1>12, <1>13, <1>14

\* A table summed by rows and by columns.
ByRow(t, X, Y) == [x \in X |-> SumOn(t[x], Y)]
Column(t, X, y) == [x \in X |-> t[x][y]]
ByColumn(t, X, Y) == [y \in Y |-> SumOn(Column(t, X, y), X)]

LEMMA SumOnTable ==
    ASSUME NEW X, IsFiniteSet(X), NEW Y, IsFiniteSet(Y), NEW t, \A x \in X : \A y \in Y : t[x][y] \in Int
    PROVE  SumOn(ByRow(t, X, Y), X) = SumOn(ByColumn(t, X, Y), Y)
<1>1. PICK D : D = {T \in SUBSET X : SumOn(ByRow(t, X, Y), T) = SumOn(ByColumn(t, T, Y), Y)}
  OBVIOUS
<1>2. PICK row : row = ByRow(t, X, Y)
  OBVIOUS
<1>3. \A x \in X : row[x] = SumOn(t[x], Y) /\ row[x] \in Int
  <2>1. ASSUME NEW x \in X PROVE SumOn(t[x], Y) \in Int
    <3>1. PICK f : f = t[x]
      OBVIOUS
    <3>2. \A y \in Y : f[y] \in Int
      BY <3>1
    <3> QED
      BY <3>1, <3>2, SumOnType
  <2> QED
    BY <1>2, <2>1 DEF ByRow
<1>4. ASSUME NEW T \in SUBSET X, NEW y \in Y
      PROVE  \A x \in T : Column(t, T, y)[x] = t[x][y] /\ Column(t, T, y)[x] \in Int
  BY DEF Column
<1>5. {} \in D
  <2>1. SumOn(row, {}) = 0
    BY SumOnEmpty
  <2>2. PICK g : g = ByColumn(t, {}, Y)
    OBVIOUS
  <2>3. \A y \in Y : g[y] = 0
    BY <2>2, SumOnEmpty DEF ByColumn
  <2>4. SumOn(g, Y) = 0
    BY <2>3, SumOnZero
  <2> QED
    BY <1>1, <1>2, <2>1, <2>2, <2>4
<1>6. ASSUME NEW T \in SUBSET X, NEW z \in X, T \in D, z \notin T
      PROVE  T \cup {z} \in D
  <2>1. IsFiniteSet(T)
    BY FS_Subset
  <2>2. PICK U : U = T \cup {z}
    OBVIOUS
  <2>3. U \in SUBSET X
    BY <2>2
  <2>4. PICK g, h, k : g = ByColumn(t, T, Y) /\ h = ByColumn(t, U, Y) /\ k = t[z]
    OBVIOUS
  <2>5. ASSUME NEW y \in Y PROVE g[y] \in Int /\ k[y] \in Int /\ h[y] = g[y] + k[y]
    <3>1. PICK c, e : c = Column(t, T, y) /\ e = Column(t, U, y)
      OBVIOUS
    <3>2. \A x \in T : c[x] = t[x][y] /\ c[x] \in Int
      BY <1>4, <3>1
    <3>3. \A x \in U : e[x] = t[x][y] /\ e[x] \in Int
      BY <1>4, <2>3, <3>1
    <3>4. \A x \in T : e[x] \in Int
      BY <2>2, <3>3
    <3>5. e[z] \in Int
      BY <2>2, <3>3
    <3>6. SumOn(e, T \cup {z}) = SumOn(e, T) + e[z]
      BY <1>6, <2>1, <3>4, <3>5, SumOnAdd
    <3>7. \A x \in T : c[x] \in Int /\ e[x] = c[x]
      BY <2>2, <3>2, <3>3
    <3>8. SumOn(e, T) = SumOn(c, T)
      BY <2>1, <3>7, SumOnSame
    <3>9. SumOn(c, T) \in Int
      BY <2>1, <3>2, SumOnType
    <3>10. g[y] = SumOn(c, T) /\ h[y] = SumOn(e, U)
      BY <2>4, <3>1 DEF ByColumn
    <3>11. e[z] = k[y]
      BY <2>2, <2>4, <3>3
    <3> QED
      BY <2>2, <3>5, <3>6, <3>8, <3>9, <3>10, <3>11
  <2>6. SumOn(h, Y) = SumOn(g, Y) + SumOn(k, Y)
    BY <2>5, SumOnPlus
  <2>7. \A x \in T : row[x] \in Int
    BY <1>3
  <2>8. SumOn(row, T \cup {z}) = SumOn(row, T) + row[z]
    BY <1>3, <1>6, <2>1, <2>7, SumOnAdd
  <2>9. row[z] = SumOn(k, Y)
    BY <1>3, <2>4
  <2>10. SumOn(row, T) = SumOn(g, Y)
    BY <1>1, <1>2, <1>6, <2>4
  <2>11. SumOn(row, U) = SumOn(h, Y)
    BY <2>2, <2>6, <2>8, <2>9, <2>10
  <2> QED
    BY <1>1, <1>2, <2>2, <2>3, <2>4, <2>11
<1>7. SUBSET X \subseteq D
  BY <1>5, <1>6, SetInduction
<1>8. X \in D
  BY <1>7
<1> QED
  BY <1>1, <1>8

-----------------------------------------------------------------------------
(* Sums of the field `amt` *)

\* One unfolding of the recursive function that sums the field.
AmountsStep(g, S) ==
    [s \in SUBSET S |-> IF s = {} THEN 0 ELSE AnyOf(s).amt + g[s \ {AnyOf(s)}]]

\* The sum of the amounts of a set of lines is that of any function that
\* gives each line its amount.
LEMMA AmountsSum ==
    ASSUME NEW S, IsFiniteSet(S), NEW f, \A x \in S : x.amt \in Int /\ f[x] = x.amt
    PROVE  MapThenSumSet(LAMBDA l : l.amt, S) = SumOn(f, S)
<1>1. PICK h : IsSum(h, f, S) /\ SumOn(f, S) = h[S]
  BY SumOnIsSum
<1>2. PICK g : g = CHOOSE k : k = AmountsStep(k, S)
  OBVIOUS
<1>3. MapThenSumSet(LAMBDA l : l.amt, S) = g[S]
  BY <1>2 DEF MapThenSumSet, MapThenFoldSet, AmountsStep, AnyOf
<1>4. \A s \in SUBSET S : s # {} => AnyOf(s) \in S
  BY AnyOfIn
<1>5. h = AmountsStep(h, S)
  BY <1>1, <1>4 DEF IsSum, AmountsStep
<1>6. g = AmountsStep(g, S)
  BY <1>2, <1>5
<1>7. g = [s \in SUBSET S |-> IF s = {} THEN 0 ELSE f[AnyOf(s)] + g[s \ {AnyOf(s)}]]
  BY <1>4, <1>6 DEF AmountsStep
<1>8. IsSum(g, f, S)
  BY <1>7, RecursionIsSum
<1>9. \A s \in SUBSET S : s \subseteq S => h[s] = g[s]
  BY <1>1, <1>8, SumUnique
<1>10. h[S] = g[S]
  BY <1>9
<1>11. QED
  BY <1>1, <1>3, <1>10
=============================================================================
