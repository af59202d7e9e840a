----------------------------- MODULE Inductions -----------------------------
(***************************************************************************)
(* Induction over numbers and finite sets, for the proofs of this project. *)
(* The induction theorems of the library take the formula to be proved as  *)
(* an operator; here it is the set of the numbers, or of the subsets, that *)
(* satisfy it.  Both rest on WFMin: what is well-founded has a minimum.    *)
(***************************************************************************)
EXTENDS Integers, Sequences, FiniteSetTheorems, SequenceTheorems, WellFoundedInduction, TLAPS

(* A set of numbers that is not empty has a least one. *)
LEMMA LeastNumber ==
  ASSUME NEW N \in SUBSET Nat, N # {}
  PROVE  \E m \in N : \A k \in N : m <= k
<1>1. PICK R : R = OpToRel(<, Nat)
  OBVIOUS
<1>2. R = { p \in Nat \X Nat : p[1] < p[2] }
  BY <1>1 DEF OpToRel
<1>3. IsWellFoundedOn(R, Nat)
  BY <1>1, NatLessThanWellFounded
<1>4. \E m \in N : \A k \in N : ~(<<k, m>> \in R)
  BY <1>3, WFMin
<1>5. \A k, m \in Nat : ~(<<k, m>> \in R) => m <= k
  BY <1>2
<1> QED BY <1>4, <1>5

(* A set that holds 0 and the successors of its members holds every number. *)
LEMMA NumberInduction ==
  ASSUME NEW N \in SUBSET Nat, 0 \in N, \A n \in N : n + 1 \in N
  PROVE  \A n \in Nat : n \in N
<1>1. SUFFICES ASSUME Nat \ N # {} PROVE FALSE
  OBVIOUS
<1>2. PICK m \in Nat \ N : \A k \in Nat \ N : m <= k
  BY <1>1, LeastNumber
<1>3. m - 1 \in N
  BY <1>2
<1> QED BY <1>2, <1>3

(* A family of subsets that holds the empty one, and with a subset every     *)
(* subset one element larger, holds the whole of a finite set.              *)
LEMMA FiniteInduction ==
  ASSUME NEW S, IsFiniteSet(S), NEW F, {} \in F,
         \A T \in F, x \in S : T \subseteq S /\ x \notin T => T \cup {x} \in F
  PROVE  S \in F
<1> DEFINE N == { n \in Nat : \A T \in SUBSET S : Cardinality(T) = n => T \in F }
<1>1. 0 \in N
  BY FS_EmptySet, FS_Subset
<1>2. ASSUME NEW n \in N PROVE n + 1 \in N
  <2>1. ASSUME NEW T \in SUBSET S, Cardinality(T) = n + 1 PROVE T \in F
    <3>1. IsFiniteSet(T) /\ n \in Nat /\ n + 1 # 0 /\ n + 1 - 1 = n
      BY FS_Subset
    <3>2. PICK x : x \in T
      BY <2>1, <3>1, FS_EmptySet
    <3>3. Cardinality(T \ {x}) = n
      <4>1. Cardinality(T \ {x}) = Cardinality(T) - 1
        BY <3>1, <3>2, FS_RemoveElement
      <4> QED BY <2>1, <3>1, <4>1
    <3>4. T \ {x} \in F
      BY <3>3
    <3>5. (T \ {x}) \cup {x} = T /\ x \in S /\ T \ {x} \subseteq S
      BY <3>2
    <3> QED BY <3>4, <3>5
  <2> QED BY <2>1
<1>3. \A n \in Nat : n \in N
  <2> HIDE DEF N
  <2>1. N \in SUBSET Nat
    BY DEF N
  <2> QED BY <1>1, <1>2, <2>1, NumberInduction
<1> QED BY <1>3, FS_CardinalityType

-----------------------------------------------------------------------------
(* Counting. *)

(* A finite set of numbers stays below one. *)
LEMMA FiniteIsBounded ==
  ASSUME NEW S \in SUBSET Nat, IsFiniteSet(S)
  PROVE  \E b \in Nat : \A x \in S : x < b
<1> DEFINE F == { T \in SUBSET S : \E b \in Nat : \A x \in T : x < b }
<1>1. {} \in F
  OBVIOUS
<1>2. ASSUME NEW T \in F, NEW x \in S PROVE T \cup {x} \in F
  <2>1. PICK b \in Nat : \A y \in T : y < b
    OBVIOUS
  <2>2. CASE x < b
    <3>1. \A y \in T \cup {x} : y < b
      BY <2>1, <2>2
    <3> QED BY <3>1
  <2>3. CASE ~(x < b)
    <3>1. x + 1 \in Nat /\ \A y \in T \cup {x} : y < x + 1
      BY <2>1, <2>3
    <3> QED BY <3>1
  <2> QED BY <2>2, <2>3
<1>3. S \in F
  <2> HIDE DEF F
  <2> QED BY <1>1, <1>2, FiniteInduction
<1> QED BY <1>3

(* What a function makes of a finite set is finite. *)
LEMMA ImageIsFinite ==
  ASSUME NEW S, IsFiniteSet(S), NEW f
  PROVE  IsFiniteSet({ f[x] : x \in S })
<1> DEFINE T == { f[x] : x \in S }
<1>1. [x \in S |-> f[x]] \in Surjection(S, T)
  BY DEF Surjection
<1> QED BY <1>1, FS_Surjection

(* What comes before a number, step by step. *)
LEMMA StepBelow ==
  ASSUME NEW S \in SUBSET Nat, NEW m \in Nat
  PROVE  /\ { x \in S : x < 0 } = {}
         /\ m \notin { x \in S : x < m }
         /\ { x \in S : x < m + 1 } =
              IF m \in S THEN { x \in S : x < m } \cup {m} ELSE { x \in S : x < m }
<1>1. \A x \in Nat : ~(x < 0) /\ ~(m < m) /\ (x < m + 1 <=> x < m \/ x = m)
  OBVIOUS
<1>2. \A x \in S : x \in Nat
  OBVIOUS
<1>3. { x \in S : x < 0 } = {}
  BY <1>1, <1>2
<1>4. \A x \in S : x < m + 1 <=> x < m \/ x = m
  BY <1>1, <1>2
<1>5. CASE m \in S
  BY <1>1, <1>3, <1>4, <1>5
<1>6. CASE m \notin S
  BY <1>1, <1>3, <1>4, <1>6
<1> QED BY <1>5, <1>6

(* The nth of a finite set of numbers has n - 1 before it. *)
LEMMA NthNumber ==
  ASSUME NEW S \in SUBSET Nat, IsFiniteSet(S), NEW n \in 1 .. Cardinality(S)
  PROVE  \E s \in S : Cardinality({ x \in S : x < s }) = n - 1
<1> DEFINE Below(m) == { x \in S : x < m }
<1>1. \A m : IsFiniteSet(Below(m)) /\ Cardinality(Below(m)) \in Nat
  <2>1. \A m : Below(m) \in SUBSET S
    OBVIOUS
  <2> QED BY <2>1, FS_Subset, FS_CardinalityType
<1> DEFINE N == { m \in Nat : Cardinality(Below(m)) >= n }
<1>2. N # {}
  <2>1. PICK b \in Nat : \A x \in S : x < b
    BY FiniteIsBounded
  <2>2. Below(b) = S
    BY <2>1
  <2>3. Cardinality(S) \in Nat
    BY FS_CardinalityType
  <2> QED BY <2>2, <2>3
<1>3. PICK m \in N : \A k \in N : m <= k
  BY <1>2, LeastNumber
<1>4. m # 0
  <2>1. Below(0) = {}
    BY StepBelow
  <2>2. ~(Cardinality(Below(0)) >= n)
    BY <2>1, FS_EmptySet
  <2> QED BY <1>3, <2>2
<1>5. m \in Nat /\ m - 1 \in Nat /\ Cardinality(Below(m - 1)) < n
  <2>1. m - 1 \in Nat /\ ~(m <= m - 1)
    BY <1>4
  <2>2. m - 1 \notin N
    BY <1>3, <2>1
  <2>3. ~(Cardinality(Below(m - 1)) >= n)
    BY <2>1, <2>2
  <2>4. Cardinality(Below(m - 1)) \in Nat
    BY <1>1
  <2> HIDE DEF Below
  <2> QED BY <2>1, <2>3, <2>4
<1>6. CASE m - 1 \in S
  <2>1. Below(m) = Below(m - 1) \cup {m - 1} /\ m - 1 \notin Below(m - 1)
    <3>1. (m - 1) + 1 = m
      BY <1>5
    <3> QED BY <1>5, <1>6, <3>1, StepBelow
  <2>2. Cardinality(Below(m)) = Cardinality(Below(m - 1)) + 1
    <3> HIDE DEF Below
    <3> QED BY <1>1, <1>5, <2>1, FS_AddElement
  <2>3. Cardinality(Below(m - 1)) = n - 1
    BY <1>1, <1>3, <1>5, <2>2
  <2> QED BY <1>6, <2>3
<1>7. CASE m - 1 \notin S
  <2>1. Below(m) = Below(m - 1)
    <3>1. (m - 1) + 1 = m
      BY <1>5
    <3> QED BY <1>5, <1>7, <3>1, StepBelow
  <2>2. Cardinality(Below(m)) >= n
    BY <1>3
  <2>3. Cardinality(Below(m)) \in Nat
    BY <1>1
  <2> HIDE DEF Below
  <2> QED BY <1>5, <2>1, <2>2, <2>3
<1> QED BY <1>6, <1>7

-----------------------------------------------------------------------------
(* Sums.  The fold of the library takes the elements in an order that        *)
(* CHOOSE gives; nothing below depends on it.                               *)

AnyOf(s) == CHOOSE x \in s : TRUE

(* The recursion behind SumFunctionOnSet(f, S). *)
SumsUp(f, S, g) ==
  g = [s \in SUBSET S |-> IF s = {} THEN 0 ELSE f[AnyOf(s)] + g[s \ {AnyOf(s)}]]

LEMMA SumIsFold ==
  ASSUME NEW f, NEW S
  PROVE  SumFunctionOnSet(f, S) = (CHOOSE g : SumsUp(f, S, g))[S]
BY DEF SumFunctionOnSet, FoldFunctionOnSet, MapThenFoldSet, SumsUp, AnyOf

(* The recursion has a solution: up to every cardinality there is one.       *)
LEMMA SumExists ==
  ASSUME NEW f, NEW S, IsFiniteSet(S)
  PROVE  \E g : SumsUp(f, S, g)
<1> DEFINE Value(g, s) == IF s = {} THEN 0 ELSE f[AnyOf(s)] + g[s \ {AnyOf(s)}]
           UpTo(n) == { s \in SUBSET S : Cardinality(s) <= n }
           N == { n \in Nat : \E g : \A s \in UpTo(n) : g[s] = Value(g, s) }
<1>1. \A s \in SUBSET S : IsFiniteSet(s) /\ Cardinality(s) \in Nat
  BY FS_Subset, FS_CardinalityType
<1>2. \A s \in SUBSET S : s # {} =>
        /\ AnyOf(s) \in s /\ s \ {AnyOf(s)} \in SUBSET S
        /\ Cardinality(s \ {AnyOf(s)}) = Cardinality(s) - 1
  <2>1. TAKE s \in SUBSET S
  <2>2. HAVE s # {}
  <2>3. AnyOf(s) \in s
    BY <2>2 DEF AnyOf
  <2>4. Cardinality(s \ {AnyOf(s)}) = Cardinality(s) - 1
    BY <1>1, <2>3, FS_RemoveElement
  <2> QED BY <2>3, <2>4
<1>3. 0 \in N
  <2> DEFINE g == [s \in SUBSET S |-> 0]
  <2>1. \A s \in UpTo(0) : s = {} /\ g[s] = 0
    <3>1. TAKE s \in UpTo(0)
    <3>2. Cardinality(s) = 0 /\ IsFiniteSet(s)
      BY <1>1
    <3> QED BY <3>2, FS_EmptySet
  <2>2. \A s \in UpTo(0) : g[s] = Value(g, s)
    BY <2>1
  <2> QED BY <2>2
<1>4. ASSUME NEW n \in N PROVE n + 1 \in N
  <2>1. n \in Nat /\ n + 1 \in Nat
    OBVIOUS
  <2>2. PICK g : \A s \in UpTo(n) : g[s] = Value(g, s)
    OBVIOUS
  <2> DEFINE h == [s \in SUBSET S |-> IF s \in UpTo(n) THEN g[s] ELSE Value(g, s)]
  <2>3. ASSUME NEW s \in UpTo(n + 1) PROVE h[s] = Value(h, s)
    <3>1. h[s] = Value(g, s)
      BY <2>2
    <3>2. CASE s = {}
      BY <3>1, <3>2
    <3>3. CASE s # {}
      <4>1. s \ {AnyOf(s)} \in UpTo(n)
        <5>1. Cardinality(s) <= n + 1 /\ s \in SUBSET S
          OBVIOUS
        <5>2. Cardinality(s \ {AnyOf(s)}) <= n
          BY <1>1, <1>2, <2>1, <3>3, <5>1
        <5> QED BY <5>1, <5>2
      <4>2. h[s \ {AnyOf(s)}] = g[s \ {AnyOf(s)}]
        BY <4>1
      <4> HIDE DEF h
      <4> QED BY <3>1, <3>3, <4>2
    <3> QED BY <3>2, <3>3
  <2> HIDE DEF h, UpTo
  <2> QED BY <2>1, <2>3
<1>5. \A n \in Nat : n \in N
  <2> HIDE DEF N
  <2>1. N \in SUBSET Nat
    BY DEF N
  <2> QED BY <1>3, <1>4, <2>1, NumberInduction
<1>6. PICK g : \A s \in UpTo(Cardinality(S)) : g[s] = Value(g, s)
  BY <1>1, <1>5
<1>7. \A s \in SUBSET S : s \in UpTo(Cardinality(S))
  BY FS_Subset
<1> DEFINE h == [s \in SUBSET S |-> g[s]]
<1>8. \A s \in SUBSET S : h[s] = Value(h, s)
  <2>1. TAKE s \in SUBSET S
  <2>2. h[s] = Value(g, s)
    BY <1>6, <1>7
  <2>3. s # {} => h[s \ {AnyOf(s)}] = g[s \ {AnyOf(s)}]
    BY <1>2
  <2> HIDE DEF h
  <2> QED BY <2>2, <2>3
<1>9. h = [s \in SUBSET S |-> h[s]]
  OBVIOUS
<1> HIDE DEF h
<1>10. h = [s \in SUBSET S |-> Value(h, s)]
  BY <1>8, <1>9
<1> QED BY <1>10 DEF SumsUp

(* Whichever way it is solved, the order does not matter. *)
LEMMA SumInAnyOrder ==
  ASSUME NEW f, NEW S, IsFiniteSet(S), \A x \in S : f[x] \in Int, NEW g, SumsUp(f, S, g),
         NEW T \in SUBSET S
  PROVE  g[T] \in Int /\ \A x \in T : g[T] = f[x] + g[T \ {x}]
<1> DEFINE Sound(s) == g[s] \in Int /\ \A x \in s : g[s] = f[x] + g[s \ {x}]
           N == { n \in Nat : \A s \in SUBSET S : Cardinality(s) <= n => Sound(s) }
<1>1. \A s \in SUBSET S : IsFiniteSet(s) /\ Cardinality(s) \in Nat
  BY FS_Subset, FS_CardinalityType
<1>2. \A s \in SUBSET S : g[s] = IF s = {} THEN 0 ELSE f[AnyOf(s)] + g[s \ {AnyOf(s)}]
  BY DEF SumsUp
<1>3. \A s \in SUBSET S : s # {} => AnyOf(s) \in s
  BY DEF AnyOf
<1>4. \A s \in SUBSET S : \A x \in s :
        s \ {x} \in SUBSET S /\ Cardinality(s \ {x}) = Cardinality(s) - 1
  <2>1. TAKE s \in SUBSET S
  <2> TAKE x \in s
  <2>2. Cardinality(s \ {x}) = Cardinality(s) - 1
    BY <1>1, FS_RemoveElement
  <2> QED BY <2>2
<1>5. 0 \in N
  <2>1. ASSUME NEW s \in SUBSET S, Cardinality(s) <= 0 PROVE Sound(s)
    <3>1. s = {}
      BY <1>1, <2>1, FS_EmptySet
    <3>2. g[s] = 0
      BY <1>2, <3>1
    <3> QED BY <3>1, <3>2
  <2> QED BY <2>1
<1>6. ASSUME NEW n \in N PROVE n + 1 \in N
  <2>1. n \in Nat /\ \A s \in SUBSET S : Cardinality(s) <= n => Sound(s)
    OBVIOUS
  <2> HIDE DEF N
  <2>2. ASSUME NEW s \in SUBSET S, Cardinality(s) = n + 1 PROVE Sound(s)
    <3> DEFINE c == AnyOf(s)
    <3>1. s # {}
      BY <1>1, <2>1, <2>2, FS_EmptySet
    <3>2. c \in s /\ g[s] = f[c] + g[s \ {c}]
      BY <1>2, <1>3, <3>1
    <3> HIDE DEF c
    <3>3. \A x \in s : s \ {x} \in SUBSET S /\ Cardinality(s \ {x}) = n
      <4>1. TAKE x \in s
      <4>2. s \ {x} \in SUBSET S /\ Cardinality(s \ {x}) = Cardinality(s) - 1
        BY <1>4
      <4> QED BY <2>1, <2>2, <4>2
    <3>4. \A x \in s : Sound(s \ {x})
      <4>1. n <= n
        BY <2>1
      <4> QED BY <2>1, <3>3, <4>1
    <3>5. \A x \in s : f[x] \in Int /\ g[s \ {x}] \in Int
      BY <3>4
    <3>8. f[c] \in Int /\ g[s \ {c}] \in Int
      BY <3>2, <3>5
    <3>6. ASSUME NEW x \in s, x # c PROVE g[s] = f[x] + g[s \ {x}]
      <4>1. g[s \ {c}] = f[x] + g[(s \ {c}) \ {x}]
        BY <3>2, <3>4, <3>6
      <4>2. g[s \ {x}] = f[c] + g[(s \ {x}) \ {c}]
        BY <3>2, <3>4, <3>6
      <4>3. (s \ {c}) \ {x} = (s \ {x}) \ {c}
        OBVIOUS
      <4>4. g[(s \ {x}) \ {c}] \in Int
        <5>1. s \ {x} \in SUBSET S /\ c \in s \ {x} /\ Cardinality(s \ {x}) = n
          BY <3>2, <3>3, <3>6
        <5>2. (s \ {x}) \ {c} \in SUBSET S /\ Cardinality((s \ {x}) \ {c}) = n - 1
          BY <1>4, <5>1
        <5>3. n - 1 <= n
          BY <2>1
        <5> QED BY <2>1, <5>2, <5>3
      <4>5. g[s \ {c}] = f[x] + g[(s \ {x}) \ {c}]
        BY <4>1, <4>3, Zenon
      <4>6. g[s] = f[c] + (f[x] + g[(s \ {x}) \ {c}])
        BY <3>2, <4>5, Zenon
      <4>7. f[x] \in Int
        BY <3>5
      <4>8. PICK a \in Int, b \in Int, e \in Int :
              a = f[c] /\ b = f[x] /\ e = g[(s \ {x}) \ {c}]
        BY <3>8, <4>4, <4>7
      <4>9. g[s] = a + (b + e) /\ g[s \ {x}] = a + e /\ f[x] = b
        BY <4>2, <4>6, <4>8, Zenon
      <4> QED BY <4>9
    <3>7. g[s] \in Int
      BY <3>2, <3>8
    <3> QED BY <3>2, <3>6, <3>7
  <2>3. ASSUME NEW s \in SUBSET S, Cardinality(s) <= n + 1 PROVE Sound(s)
    <3>1. Cardinality(s) <= n \/ Cardinality(s) = n + 1
      BY <1>1, <2>1, <2>3
    <3> QED BY <2>1, <2>2, <3>1
  <2>4. n + 1 \in Nat
    BY <2>1
  <2> QED BY <2>3, <2>4 DEF N
<1>7. \A n \in Nat : n \in N
  <2> HIDE DEF N
  <2>1. N \in SUBSET Nat
    BY DEF N
  <2> QED BY <1>5, <1>6, <2>1, NumberInduction
<1>8. ASSUME NEW s \in SUBSET S PROVE Sound(s)
  <2>1. Cardinality(s) \in N /\ Cardinality(s) <= Cardinality(s)
    BY <1>1, <1>7
  <2> QED BY <2>1
<1> QED BY <1>8

(* What a sum is: nothing of nothing, and any element and the rest.  Two     *)
(* functions that agree on the elements, whatever they are elsewhere, have   *)
(* the same sum.                                                            *)
LEMMA SumOfNothing ==
  ASSUME NEW f
  PROVE  SumFunctionOnSet(f, {}) = 0
<1>1. PICK g : SumsUp(f, {}, g) /\ SumFunctionOnSet(f, {}) = g[{}]
  <2>1. \E g : SumsUp(f, {}, g)
    BY SumExists, FS_EmptySet
  <2> QED BY <2>1, SumIsFold
<1> QED BY <1>1 DEF SumsUp

Summable(f, S) == \A x \in S : f[x] \in Int

LEMMA SumByElements ==
  ASSUME NEW f, NEW S, IsFiniteSet(S), Summable(f, S)
  PROVE  \E g : /\ SumFunctionOnSet(f, S) = g[S] /\ g[{}] = 0
               /\ \A T \in SUBSET S : \A x \in T : g[T] = f[x] + g[T \ {x}]
<1>1. PICK g : SumsUp(f, S, g) /\ SumFunctionOnSet(f, S) = g[S]
  <2>1. \E g : SumsUp(f, S, g)
    BY SumExists
  <2> QED BY <2>1, SumIsFold
<1>2. g[{}] = 0
  BY <1>1 DEF SumsUp
<1>3. ASSUME NEW T \in SUBSET S PROVE \A x \in T : g[T] = f[x] + g[T \ {x}]
  BY <1>1, SumInAnyOrder DEF Summable
<1> QED BY <1>1, <1>2, <1>3

LEMMA SumOfPart ==
  ASSUME NEW f, NEW S, IsFiniteSet(S), Summable(f, S), NEW g, SumsUp(f, S, g),
         NEW T \in SUBSET S
  PROVE  SumFunctionOnSet(f, T) = g[T]
<1>1. IsFiniteSet(T)
  BY FS_Subset
<1>2. PICK h : /\ SumFunctionOnSet(f, T) = h[T] /\ h[{}] = 0
               /\ \A U \in SUBSET T : \A x \in U : h[U] = f[x] + h[U \ {x}]
  <2>1. Summable(f, T)
    BY DEF Summable
  <2> QED BY <1>1, <2>1, SumByElements, SMTT(30)
<1> DEFINE F == { s \in SUBSET T : h[s] = g[s] }
<1>3. {} \in F
  BY <1>2 DEF SumsUp
<1>4. ASSUME NEW s \in F, NEW x \in T, x \notin s PROVE s \cup {x} \in F
  <2>1. s \cup {x} \in SUBSET T /\ x \in s \cup {x} /\ (s \cup {x}) \ {x} = s
    BY <1>4
  <2>2. h[s \cup {x}] = f[x] + h[s]
    <3>1. h[s \cup {x}] = f[x] + h[(s \cup {x}) \ {x}]
      BY <1>2, <2>1
    <3> QED BY <2>1, <3>1, Zenon
  <2>3. g[s \cup {x}] = f[x] + g[s]
    <3>1. s \cup {x} \in SUBSET S
      BY <2>1
    <3>2. \A y \in s \cup {x} : g[s \cup {x}] = f[y] + g[(s \cup {x}) \ {y}]
      BY <3>1, SumInAnyOrder DEF Summable
    <3> QED BY <2>1, <3>2, Zenon
  <2> QED BY <2>1, <2>2, <2>3
<1>5. T \in F
  <2> HIDE DEF F
  <2> QED BY <1>1, <1>3, <1>4, FiniteInduction
<1> QED BY <1>2, <1>5

LEMMA SumWithout ==
  ASSUME NEW f, NEW S, IsFiniteSet(S), \A x \in S : f[x] \in Int
  PROVE  /\ SumFunctionOnSet(f, S) \in Int
         /\ \A x \in S : SumFunctionOnSet(f, S) = f[x] + SumFunctionOnSet(f, S \ {x})
<1>1. PICK g : SumsUp(f, S, g)
  BY SumExists
<1>2. \A T \in SUBSET S : SumFunctionOnSet(f, T) = g[T]
  BY <1>1, SumOfPart DEF Summable
<1>3. g[S] \in Int /\ \A x \in S : g[S] = f[x] + g[S \ {x}]
  BY <1>1, SumInAnyOrder
<1>4. S \in SUBSET S /\ \A x \in S : S \ {x} \in SUBSET S
  OBVIOUS
<1> QED BY <1>2, <1>3, <1>4

LEMMA SumWith ==
  ASSUME NEW f, NEW S, IsFiniteSet(S), \A x \in S : f[x] \in Int, NEW y, y \notin S, f[y] \in Int
  PROVE  SumFunctionOnSet(f, S \cup {y}) = SumFunctionOnSet(f, S) + f[y]
<1>1. IsFiniteSet(S \cup {y}) /\ \A x \in S \cup {y} : f[x] \in Int
  BY FS_AddElement
<1>2. SumFunctionOnSet(f, S \cup {y}) = f[y] + SumFunctionOnSet(f, (S \cup {y}) \ {y})
  BY <1>1, SumWithout
<1>3. (S \cup {y}) \ {y} = S
  OBVIOUS
<1>4. SumFunctionOnSet(f, S) \in Int
  BY SumWithout
<1>5. SumFunctionOnSet(f, S \cup {y}) = f[y] + SumFunctionOnSet(f, S)
  BY <1>2, <1>3, Zenon
<1> QED BY <1>4, <1>5

LEMMA SumOfEqual ==
  ASSUME NEW f, NEW h, NEW S, IsFiniteSet(S), \A x \in S : f[x] \in Int /\ h[x] = f[x]
  PROVE  SumFunctionOnSet(f, S) = SumFunctionOnSet(h, S)
<1> DEFINE F == { T \in SUBSET S : SumFunctionOnSet(f, T) = SumFunctionOnSet(h, T) }
<1>1. {} \in F
  BY SumOfNothing
<1>2. ASSUME NEW T \in F, NEW x \in S, x \notin T PROVE T \cup {x} \in F
  <2>1. IsFiniteSet(T) /\ \A y \in T : f[y] \in Int /\ h[y] \in Int
    BY FS_Subset
  <2>2. SumFunctionOnSet(f, T \cup {x}) = SumFunctionOnSet(f, T) + f[x]
    BY <1>2, <2>1, SumWith
  <2>3. SumFunctionOnSet(h, T \cup {x}) = SumFunctionOnSet(h, T) + h[x]
    BY <1>2, <2>1, SumWith
  <2> QED BY <2>2, <2>3
<1>3. S \in F
  <2> HIDE DEF F
  <2> QED BY <1>1, <1>2, FiniteInduction
<1> QED BY <1>3

(* A sum of natural numbers is one. *)
LEMMA SumIsNat ==
  ASSUME NEW f, NEW S, IsFiniteSet(S), \A x \in S : f[x] \in Nat
  PROVE  SumFunctionOnSet(f, S) \in Nat
<1> DEFINE F == { T \in SUBSET S : SumFunctionOnSet(f, T) \in Nat }
<1>1. {} \in F
  BY SumOfNothing
<1>2. ASSUME NEW T \in F, NEW x \in S, x \notin T PROVE T \cup {x} \in F
  <2>1. IsFiniteSet(T) /\ \A y \in T : f[y] \in Int
    BY FS_Subset
  <2>2. SumFunctionOnSet(f, T \cup {x}) = SumFunctionOnSet(f, T) + f[x]
    BY <1>2, <2>1, SumWith
  <2> QED BY <2>2
<1>3. S \in F
  <2> HIDE DEF F
  <2> QED BY <1>1, <1>2, FiniteInduction
<1> QED BY <1>3

(* The sum over two sets that share nothing. *)
LEMMA SumOfUnion ==
  ASSUME NEW f, NEW S, NEW T, IsFiniteSet(S), IsFiniteSet(T), S \cap T = {},
         \A x \in S \cup T : f[x] \in Int
  PROVE  SumFunctionOnSet(f, S \cup T) = SumFunctionOnSet(f, S) + SumFunctionOnSet(f, T)
<1> DEFINE F == { U \in SUBSET T : SumFunctionOnSet(f, S \cup U) =
                                   SumFunctionOnSet(f, S) + SumFunctionOnSet(f, U) }
<1>1. SumFunctionOnSet(f, S) \in Int
  BY SumWithout
<1>2. {} \in F
  <2>1. S \cup {} = S
    OBVIOUS
  <2> QED BY <1>1, <2>1, SumOfNothing
<1>3. ASSUME NEW U \in F, NEW x \in T, x \notin U PROVE U \cup {x} \in F
  <2>1. IsFiniteSet(U) /\ IsFiniteSet(S \cup U) /\ \A y \in S \cup U : f[y] \in Int
    BY FS_Subset, FS_Union
  <2>2. SumFunctionOnSet(f, U \cup {x}) = SumFunctionOnSet(f, U) + f[x]
    BY <1>3, <2>1, SumWith
  <2>3. SumFunctionOnSet(f, (S \cup U) \cup {x}) = SumFunctionOnSet(f, S \cup U) + f[x]
    BY <1>3, <2>1, SumWith
  <2>4. (S \cup U) \cup {x} = S \cup (U \cup {x})
    OBVIOUS
  <2>5. SumFunctionOnSet(f, U) \in Int /\ f[x] \in Int
    BY <2>1, SumWithout
  <2>6. SumFunctionOnSet(f, S \cup U) = SumFunctionOnSet(f, S) + SumFunctionOnSet(f, U)
    OBVIOUS
  <2>7. SumFunctionOnSet(f, S \cup (U \cup {x})) =
          (SumFunctionOnSet(f, S) + SumFunctionOnSet(f, U)) + f[x]
    BY <2>3, <2>4, <2>6, Zenon
  <2>8. SumFunctionOnSet(f, S \cup (U \cup {x})) =
          SumFunctionOnSet(f, S) + SumFunctionOnSet(f, U \cup {x})
    BY <1>1, <2>2, <2>5, <2>7
  <2> QED BY <2>8
<1>4. T \in F
  <2> HIDE DEF F
  <2> QED BY <1>2, <1>3, FiniteInduction
<1> QED BY <1>4

(* Sums over parts that share nothing add up to the sum over the whole, and  *)
(* so do their sizes.                                                       *)
Parted(f, I, part) ==
  /\ \A i \in I : IsFiniteSet(part[i]) /\ Summable(f, part[i])
  /\ \A i, j \in I : i # j => part[i] \cap part[j] = {}

Counts(f, I, part, sums, sizes) ==
  \A i \in I : sums[i] = SumFunctionOnSet(f, part[i]) /\ sizes[i] = Cardinality(part[i])

LEMMA SumOfParts ==
  ASSUME NEW f, NEW I, IsFiniteSet(I), NEW part, Parted(f, I, part),
         NEW sums, NEW sizes, Counts(f, I, part, sums, sizes)
  PROVE  /\ SumFunctionOnSet(sums, I) = SumFunctionOnSet(f, UNION { part[i] : i \in I })
         /\ SumFunctionOnSet(sizes, I) = Cardinality(UNION { part[i] : i \in I })
<1> DEFINE Whole(J) == UNION { part[i] : i \in J }
           AddUp(J) == /\ IsFiniteSet(Whole(J))
                       /\ SumFunctionOnSet(sums, J) = SumFunctionOnSet(f, Whole(J))
                       /\ SumFunctionOnSet(sizes, J) = Cardinality(Whole(J))
           F == { J \in SUBSET I : AddUp(J) }
<1>1. {} \in F
  <2>1. Whole({}) = {}
    OBVIOUS
  <2> HIDE DEF Whole
  <2> QED BY <2>1, SumOfNothing, FS_EmptySet
<1> USE DEF Parted, Counts
<1>2. \A i \in I : sums[i] \in Int /\ sizes[i] \in Int
  BY SumWithout, FS_CardinalityType DEF Summable
<1>3. /\ \A J \in SUBSET I : \A x \in Whole(J) : f[x] \in Int
      /\ \A i \in I : \A x \in part[i] : f[x] \in Int
  BY DEF Summable
<1>4. \A J \in SUBSET I : \A i \in I \ J :
        Whole(J \cup {i}) = Whole(J) \cup part[i] /\ Whole(J) \cap part[i] = {}
  OBVIOUS
<1> HIDE DEF Whole
<1>5. ASSUME NEW J \in F, NEW i \in I, i \notin J PROVE J \cup {i} \in F
  <2>1. J \in SUBSET I /\ IsFiniteSet(J) /\ IsFiniteSet(Whole(J)) /\ IsFiniteSet(part[i])
    BY FS_Subset
  <2>2. Whole(J \cup {i}) = Whole(J) \cup part[i] /\ Whole(J) \cap part[i] = {}
    BY <1>4, <1>5, <2>1
  <2>3. IsFiniteSet(Whole(J \cup {i}))
    <3>1. IsFiniteSet(Whole(J) \cup part[i])
      BY <2>1, FS_Union
    <3> QED BY <2>2, <3>1, Zenon
  <2>4. SumFunctionOnSet(sums, J \cup {i}) = SumFunctionOnSet(sums, J) + sums[i]
    BY <1>2, <1>5, <2>1, SumWith
  <2>5. SumFunctionOnSet(sizes, J \cup {i}) = SumFunctionOnSet(sizes, J) + sizes[i]
    BY <1>2, <1>5, <2>1, SumWith
  <2>6. SumFunctionOnSet(f, Whole(J) \cup part[i]) =
          SumFunctionOnSet(f, Whole(J)) + SumFunctionOnSet(f, part[i])
    <3>1. \A x \in Whole(J) \cup part[i] : f[x] \in Int
      BY <1>3, <2>1
    <3> QED BY <2>1, <2>2, <3>1, SumOfUnion
  <2>7. Cardinality(Whole(J) \cup part[i]) = Cardinality(Whole(J)) + Cardinality(part[i])
    <3>1. Cardinality(Whole(J) \cup part[i]) =
            Cardinality(Whole(J)) + Cardinality(part[i]) - Cardinality(Whole(J) \cap part[i])
      BY <2>1, FS_Union
    <3>2. Cardinality(Whole(J) \cap part[i]) = 0
      BY <2>2, FS_EmptySet
    <3>3. Cardinality(Whole(J)) \in Nat /\ Cardinality(part[i]) \in Nat
      BY <2>1, FS_CardinalityType
    <3> QED BY <3>1, <3>2, <3>3
  <2>8. AddUp(J)
    OBVIOUS
  <2>9. AddUp(J \cup {i})
    BY <2>2, <2>3, <2>4, <2>5, <2>6, <2>7, <2>8
  <2> HIDE DEF AddUp
  <2> QED BY <2>1, <2>9
<1>6. I \in F
  <2> HIDE DEF F
  <2> QED BY <1>1, <1>5, FiniteInduction
<1> QED BY <1>6 DEF Whole
=============================================================================
