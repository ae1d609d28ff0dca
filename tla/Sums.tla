-------------------------------- MODULE Sums --------------------------------
(***************************************************************************)
(* Sums of integers over finite sets.  A sum is computed by a recursion    *)
(* that takes the elements in an order nobody knows; the lemmas here say   *)
(* that it can be computed in any order.  Induction over the number of     *)
(* elements is done with a least counterexample.                           *)
(***************************************************************************)
EXTENDS Integers, FiniteSetsExt, FiniteSetTheorems, WellFoundedInduction, TLAPS

Sum(f, S) == MapThenSumSet(LAMBDA x : f[x], S)

(* One step of the recursion, over the subset s. *)
First(s) == CHOOSE x \in s : TRUE
SumStep(f, g, s) == IF s = {} THEN 0 ELSE f[First(s)] + g[s \ {First(s)}]

(* g is the recursive function of the sums of f over the subsets of S. *)
SumsOf(f, g, S) == g = [s \in SUBSET S |-> SumStep(f, g, s)]

-----------------------------------------------------------------------------
(* Every nonempty set of natural numbers has a least element. *)
LEMMA LeastNat ==
  ASSUME NEW T \in SUBSET Nat, T # {}
  PROVE  \E n \in T : \A m \in T : n <= m
  <1>1. PICK n \in T : \A m \in T : ~(<<m, n>> \in OpToRel(<, Nat))
    BY NatLessThanWellFounded, WFMin, Zenon
  <1>2. \A m \in T : ~(m < n)
    BY <1>1, Zenon DEF OpToRel
  <1> QED
    BY <1>2

(* The recursive function behind a sum exists. *)
LEMMA SumExists ==
  ASSUME NEW S, IsFiniteSet(S), NEW f
  PROVE  \E g : SumsOf(f, g, S)
  <1> DEFINE Sub(n) == {s \in SUBSET S : Cardinality(s) <= n}
             Good(n) == \E g : g = [s \in Sub(n) |-> SumStep(f, g, s)]
             Bad == {n \in Nat : ~Good(n)}
  <1>1. ASSUME NEW s \in SUBSET S
        PROVE  /\ IsFiniteSet(s) /\ Cardinality(s) \in Nat
               /\ s # {} => /\ First(s) \in s
                            /\ s \ {First(s)} \in SUBSET S
                            /\ Cardinality(s \ {First(s)}) = Cardinality(s) - 1
    <2>1. IsFiniteSet(s) /\ Cardinality(s) \in Nat
      BY FS_Subset, FS_CardinalityType
    <2>2. ASSUME s # {} PROVE First(s) \in s
      BY <2>2 DEF First
    <2> QED
      BY <2>1, <2>2, FS_RemoveElement, Zenon
  <1>2. ASSUME NEW n \in Bad, \A m \in Bad : n <= m PROVE FALSE
    <2>1. CASE n = 0
      <3> DEFINE g == [s \in Sub(0) |-> 0]
      <3>1. ASSUME NEW s \in Sub(0) PROVE s = {}
        <4>1. IsFiniteSet(s) /\ Cardinality(s) \in Nat /\ Cardinality(s) <= 0
          BY <1>1, Zenon
        <4> QED
          BY <4>1, FS_EmptySet
      <3>2. \A s \in Sub(0) : SumStep(f, g, s) = 0
        BY <3>1 DEF SumStep
      <3>3. g = [s \in Sub(0) |-> SumStep(f, g, s)]
        BY <3>2
      <3>4. Good(0)
        BY <3>3, Zenon
      <3> HIDE DEF Good
      <3> QED
        BY <2>1, <3>4
    <2>2. CASE n # 0
      <3>1. Good(n - 1)
        <4> HIDE DEF Good
        <4> QED
          BY <1>2, <2>2
      <3>2. PICK g : g = [s \in Sub(n - 1) |-> SumStep(f, g, s)]
        BY <3>1
      <3> DEFINE h == [s \in Sub(n) |-> SumStep(f, g, s)]
      <3>3. ASSUME NEW s \in Sub(n) PROVE SumStep(f, h, s) = SumStep(f, g, s)
        <4>1. CASE s = {}
          BY <4>1 DEF SumStep
        <4>2. CASE s # {}
          <5> DEFINE t == s \ {First(s)}
          <5>1. t \in Sub(n) /\ t \in Sub(n - 1)
            BY <1>1, <4>2
          <5>2. h[t] = SumStep(f, g, t) /\ g[t] = SumStep(f, g, t)
            BY <3>2, <5>1
          <5> QED
            BY <4>2, <5>2 DEF SumStep
        <4> QED
          BY <4>1, <4>2
      <3>4. h = [s \in Sub(n) |-> SumStep(f, h, s)]
        BY <3>3
      <3>5. Good(n)
        BY <3>4, Zenon
      <3> HIDE DEF Good
      <3> QED
        BY <3>5
    <2> QED
      BY <2>1, <2>2
  <1>3. Bad = {}
    BY <1>2, LeastNat, Zenon
  <1>4. Cardinality(S) \in Nat /\ Sub(Cardinality(S)) = SUBSET S
    BY FS_CardinalityType, FS_Subset
  <1>5. Good(Cardinality(S))
    <2> HIDE DEF Good
    <2> QED
      BY <1>3, <1>4
  <1> QED
    BY <1>4, <1>5, Zenon DEF SumsOf

(* A sum is the value of such a function. *)
LEMMA SumIsValue ==
  ASSUME NEW S, IsFiniteSet(S), NEW f
  PROVE  \E g : SumsOf(f, g, S) /\ Sum(f, S) = g[S]
  <1> DEFINE g == CHOOSE h : SumsOf(f, h, S)
  <1>1. SumsOf(f, g, S)
    BY SumExists
  <1>2. Sum(f, S) = g[S]
    BY DEF SumsOf, Sum, MapThenSumSet, MapThenFoldSet, SumStep, First
  <1> QED
    BY <1>1, <1>2, Zenon

(* The value of such a function at s does not depend on the order in which *)
(* the elements are chosen.  A least set where it did would have two       *)
(* elements, and the two sets with one of them left out would be smaller.  *)
LEMMA AnyOrder ==
  ASSUME NEW S, IsFiniteSet(S), NEW f, \A x \in S : f[x] \in Int,
         NEW g, SumsOf(f, g, S)
  PROVE  \A s \in SUBSET S : g[s] \in Int /\ \A x \in s : g[s] = f[x] + g[s \ {x}]
  <1> DEFINE Fine(s) == g[s] \in Int /\ \A x \in s : g[s] = f[x] + g[s \ {x}]
             Bad == {n \in Nat : \E s \in SUBSET S : Cardinality(s) = n /\ ~Fine(s)}
  <1>0. \A s \in SUBSET S : IsFiniteSet(s) /\ Cardinality(s) \in Nat
    BY FS_Subset, FS_CardinalityType
  <1>1. \A s \in SUBSET S : g[s] = SumStep(f, g, s)
    BY DEF SumsOf
  <1>2. ASSUME NEW s \in SUBSET S,
               \A t \in SUBSET S : Cardinality(t) < Cardinality(s) => Fine(t)
        PROVE  Fine(s)
    <2>1. CASE s = {}
      <3>1. g[s] = 0
        BY <1>1, <2>1, Zenon DEF SumStep
      <3> QED
        BY <2>1, <3>1
    <2>2. CASE s # {}
      <3> DEFINE y == First(s)
      <3>1. y \in s
        BY <2>2 DEF First
      <3>2. g[s] = f[y] + g[s \ {y}]
        BY <1>1, <2>2, Zenon DEF SumStep
      <3> HIDE DEF y
      <3>3. \A x \in s : s \ {x} \in SUBSET S /\ Cardinality(s \ {x}) < Cardinality(s)
        <4> TAKE x \in s
        <4>1. Cardinality(s \ {x}) = Cardinality(s) - 1
          BY <1>0, FS_RemoveElement
        <4> QED
          BY <1>0, <4>1
      <3>4. \A x \in s : Fine(s \ {x})
        BY <1>2, <3>3, Zenon
      <3>5. \A x \in s : g[s \ {x}] \in Int
        BY <3>4, Zenon
      <3>6. g[s] \in Int
        <4>1. f[y] \in Int /\ g[s \ {y}] \in Int
          BY <3>1, <3>5
        <4> QED
          BY <3>2, <4>1
      <3>7. ASSUME NEW x \in s
            PROVE  g[s] = f[x] + g[s \ {x}]
        <4>1. CASE x = y
          BY <3>2, <4>1
        <4>2. CASE x # y
          <5>1. g[s \ {y}] = f[x] + g[(s \ {y}) \ {x}]
            BY <3>1, <3>4, <4>2
          <5>2. g[s \ {x}] = f[y] + g[(s \ {x}) \ {y}]
            BY <3>1, <3>4, <4>2
          <5>3. (s \ {y}) \ {x} = (s \ {x}) \ {y}
            OBVIOUS
          <5> DEFINE r == (s \ {x}) \ {y}
          <5>4. g[r] \in Int
            <6>1. r \in SUBSET S /\ Cardinality(r) < Cardinality(s)
              <7>1. Cardinality(r) = Cardinality(s \ {x}) - 1
                BY <1>0, <3>1, <3>3, <4>2, FS_RemoveElement, Zenon
              <7> QED
                BY <1>0, <3>3, <7>1
            <6> QED
              BY <1>2, <6>1
          <5>5. f[x] \in Int /\ f[y] \in Int
            BY <3>1
          <5> HIDE DEF r
          <5>6. g[s] = f[y] + (f[x] + g[r]) /\ g[s \ {x}] = f[y] + g[r]
            BY <3>2, <5>1, <5>2, <5>3 DEF r
          <5> QED
            BY <5>4, <5>5, <5>6
        <4> QED
          BY <4>1, <4>2
      <3> QED
        BY <3>6, <3>7
    <2> QED
      BY <2>1, <2>2, Zenon
  <1> HIDE DEF Fine
  <1>3. ASSUME Bad # {}
        PROVE  FALSE
    <2>1. Bad \subseteq Nat
      OBVIOUS
    <2>2. PICK n \in Bad : \A m \in Bad : n <= m
      BY <1>3, <2>1, LeastNat, Zenon
    <2>3. PICK s \in SUBSET S : Cardinality(s) = n /\ ~Fine(s)
      BY <2>2
    <2>4. ASSUME NEW t \in SUBSET S, Cardinality(t) < Cardinality(s), ~Fine(t)
          PROVE  FALSE
      <3>1. Cardinality(t) \in Bad
        BY <1>0, <2>4
      <3> QED
        BY <1>0, <2>2, <2>3, <2>4, <3>1
    <2> QED
      BY <1>2, <2>3, <2>4
  <1>4. \A s \in SUBSET S : Fine(s)
    BY <1>0, <1>3
  <1> QED
    BY <1>4 DEF Fine

(* A sum over t only depends on the values at t. *)
LEMMA SameValues ==
  ASSUME NEW S, NEW T, IsFiniteSet(S), T \subseteq S, NEW f, NEW e,
         \A x \in T : e[x] = f[x],
         NEW g, SumsOf(f, g, S),
         NEW h, SumsOf(e, h, T)
  PROVE  \A s \in SUBSET T : g[s] = h[s]
  <1> DEFINE Bad == {n \in Nat : \E s \in SUBSET T : Cardinality(s) = n /\ g[s] # h[s]}
  <1>0. \A s \in SUBSET T : IsFiniteSet(s) /\ Cardinality(s) \in Nat
    BY FS_Subset, FS_CardinalityType
  <1>1. \A s \in SUBSET T : g[s] = SumStep(f, g, s) /\ h[s] = SumStep(e, h, s)
    BY DEF SumsOf
  <1>2. ASSUME Bad # {}
        PROVE  FALSE
    <2>1. Bad \subseteq Nat
      OBVIOUS
    <2>2. PICK n \in Bad : \A m \in Bad : n <= m
      BY <1>2, <2>1, LeastNat, Zenon
    <2>3. PICK s \in SUBSET T : Cardinality(s) = n /\ g[s] # h[s]
      BY <2>2
    <2>4. s # {}
      BY <1>1, <2>3 DEF SumStep
    <2> DEFINE t == s \ {First(s)}
    <2>5. First(s) \in s
      BY <2>4 DEF First
    <2>6. t \in SUBSET T /\ Cardinality(t) = Cardinality(s) - 1
      BY <1>0, <2>5, FS_RemoveElement
    <2>7. g[t] = h[t]
      <3>1. SUFFICES ASSUME g[t] # h[t]
                     PROVE  FALSE
        OBVIOUS
      <3>2. Cardinality(t) \in Bad
        BY <1>0, <2>6, <3>1, Zenon
      <3> HIDE DEF Bad, t
      <3> QED
        BY <1>0, <2>2, <2>3, <2>6, <3>2
    <2>8. e[First(s)] = f[First(s)]
      BY <2>5
    <2> QED
      BY <1>1, <2>3, <2>4, <2>7, <2>8, Zenon DEF SumStep
  <1> QED
    BY <1>0, <1>2

-----------------------------------------------------------------------------
(* What the proofs use: the sum of nothing is 0, ... *)
LEMMA SumEmpty ==
  ASSUME NEW f
  PROVE  Sum(f, {}) = 0
  <1>1. IsFiniteSet({})
    BY FS_EmptySet
  <1>2. PICK g : SumsOf(f, g, {}) /\ Sum(f, {}) = g[{}]
    BY <1>1, SumIsValue
  <1> QED
    BY <1>2 DEF SumsOf, SumStep

(* ... a sum of integers is an integer, ... *)
LEMMA SumType ==
  ASSUME NEW S, IsFiniteSet(S), NEW f, \A x \in S : f[x] \in Int
  PROVE  Sum(f, S) \in Int
  <1>1. PICK g : SumsOf(f, g, S) /\ Sum(f, S) = g[S]
    BY SumIsValue
  <1>2. g[S] \in Int
    BY <1>1, AnyOrder
  <1> QED
    BY <1>1, <1>2

(* ... any element can be the first one, ... *)
LEMMA SumRemove ==
  ASSUME NEW S, IsFiniteSet(S), NEW f, \A x \in S : f[x] \in Int, NEW y \in S
  PROVE  Sum(f, S) = f[y] + Sum(f, S \ {y})
  <1>1. PICK g : SumsOf(f, g, S) /\ Sum(f, S) = g[S]
    BY SumIsValue
  <1> DEFINE T == S \ {y}
  <1>2. IsFiniteSet(T) /\ T \subseteq S
    BY FS_RemoveElement
  <1> HIDE DEF T
  <1>3. PICK h : SumsOf(f, h, T) /\ Sum(f, T) = h[T]
    BY <1>2, SumIsValue
  <1>4. g[T] = h[T]
    <2>1. \A s \in SUBSET T : g[s] = h[s]
      BY <1>1, <1>2, <1>3, SameValues
    <2> QED
      BY <2>1
  <1>5. g[S] = f[y] + g[S \ {y}]
    <2>1. SumsOf(f, g, S)
      BY <1>1
    <2>2. \A s \in SUBSET S : g[s] \in Int /\ \A x \in s : g[s] = f[x] + g[s \ {x}]
      BY ONLY IsFiniteSet(S), \A x \in S : f[x] \in Int, <2>1, AnyOrder
    <2>3. S \in SUBSET S
      OBVIOUS
    <2> QED
      BY <2>2, <2>3
  <1> QED
    BY <1>1, <1>3, <1>4, <1>5 DEF T

(* ... and a sum only depends on the values that are summed. *)
LEMMA SumSame ==
  ASSUME NEW S, IsFiniteSet(S), NEW f, NEW e, \A x \in S : e[x] = f[x]
  PROVE  Sum(e, S) = Sum(f, S)
  <1>1. PICK g : SumsOf(f, g, S) /\ Sum(f, S) = g[S]
    BY SumIsValue
  <1>2. PICK h : SumsOf(e, h, S) /\ Sum(e, S) = h[S]
    BY SumIsValue
  <1>3. g[S] = h[S]
    <2>1. \A s \in SUBSET S : g[s] = h[s]
      BY <1>1, <1>2, SameValues
    <2> QED
      BY <2>1
  <1> QED
    BY <1>1, <1>2, <1>3

(* A change at one place changes the sum by as much. *)
LEMMA SumChange ==
  ASSUME NEW S, IsFiniteSet(S), NEW f, NEW e, NEW y \in S,
         \A x \in S : f[x] \in Int /\ e[x] \in Int,
         \A x \in S : x # y => e[x] = f[x]
  PROVE  Sum(e, S) = Sum(f, S) - f[y] + e[y]
  <1>1. Sum(f, S) = f[y] + Sum(f, S \ {y}) /\ Sum(e, S) = e[y] + Sum(e, S \ {y})
    BY SumRemove
  <1>2. IsFiniteSet(S \ {y})
    BY FS_RemoveElement
  <1>3. Sum(e, S \ {y}) = Sum(f, S \ {y})
    BY <1>2, SumSame
  <1>4. Sum(f, S \ {y}) \in Int
    BY <1>2, SumType
  <1> QED
    BY <1>1, <1>3, <1>4

(* Larger terms have a larger sum. *)
LEMMA SumMonotone ==
  ASSUME NEW S, IsFiniteSet(S), NEW f, NEW e,
         \A x \in S : f[x] \in Int /\ e[x] \in Int /\ f[x] <= e[x]
  PROVE  Sum(f, S) <= Sum(e, S)
  <1> DEFINE Bad == {n \in Nat : \E s \in SUBSET S : Cardinality(s) = n /\ ~(Sum(f, s) <= Sum(e, s))}
  <1>0. \A s \in SUBSET S : IsFiniteSet(s) /\ Cardinality(s) \in Nat
    BY FS_Subset, FS_CardinalityType
  <1>1. ASSUME Bad # {}
        PROVE  FALSE
    <2>1. Bad \subseteq Nat
      OBVIOUS
    <2>2. PICK n \in Bad : \A m \in Bad : n <= m
      BY <1>1, <2>1, LeastNat, Zenon
    <2>3. PICK s \in SUBSET S : Cardinality(s) = n /\ ~(Sum(f, s) <= Sum(e, s))
      BY <2>2
    <2>4. PICK y \in s : TRUE
      BY <2>3, SumEmpty
    <2> DEFINE t == s \ {y}
    <2>5. t \in SUBSET S /\ Cardinality(t) = Cardinality(s) - 1
      BY <1>0, FS_RemoveElement
    <2>6. Sum(f, t) <= Sum(e, t)
      <3>1. SUFFICES ASSUME ~(Sum(f, t) <= Sum(e, t))
                     PROVE  FALSE
        OBVIOUS
      <3>2. Cardinality(t) \in Bad
        BY <1>0, <2>5, <3>1, Zenon
      <3> HIDE DEF Bad, t
      <3> QED
        BY <1>0, <2>2, <2>3, <2>5, <3>2
    <2>7. Sum(f, s) = f[y] + Sum(f, t) /\ Sum(e, s) = e[y] + Sum(e, t)
      BY <1>0, SumRemove
    <2>8. Sum(f, t) \in Int /\ Sum(e, t) \in Int
      BY <1>0, <2>5, SumType
    <2>9. f[y] \in Int /\ e[y] \in Int /\ f[y] <= e[y]
      OBVIOUS
    <2> HIDE DEF t
    <2> QED
      BY <2>3, <2>6, <2>7, <2>8, <2>9
  <1>2. Cardinality(S) \in Nat
    BY <1>0
  <1>3. Cardinality(S) \notin Bad
    BY <1>1
  <1> QED
    BY <1>2, <1>3

(* The sum of zeros is 0. *)
LEMMA SumZero ==
  ASSUME NEW S, IsFiniteSet(S), NEW f, \A x \in S : f[x] = 0
  PROVE  Sum(f, S) = 0
  <1> DEFINE Bad == {n \in Nat : \E s \in SUBSET S : Cardinality(s) = n /\ Sum(f, s) # 0}
  <1>0. \A s \in SUBSET S : IsFiniteSet(s) /\ Cardinality(s) \in Nat
    BY FS_Subset, FS_CardinalityType
  <1>1. ASSUME Bad # {}
        PROVE  FALSE
    <2>1. Bad \subseteq Nat
      OBVIOUS
    <2>2. PICK n \in Bad : \A m \in Bad : n <= m
      BY <1>1, <2>1, LeastNat
    <2>3. PICK s \in SUBSET S : Cardinality(s) = n /\ Sum(f, s) # 0
      BY <2>2
    <2>4. PICK y \in s : TRUE
      BY <2>3, SumEmpty
    <2> DEFINE t == s \ {y}
    <2>5. t \in SUBSET S /\ Cardinality(t) = Cardinality(s) - 1
      BY <1>0, FS_RemoveElement
    <2>6. Sum(f, t) = 0
      <3>1. SUFFICES ASSUME Sum(f, t) # 0
                     PROVE  FALSE
        OBVIOUS
      <3>2. Cardinality(t) \in Bad
        BY <1>0, <2>5, <3>1
      <3> HIDE DEF Bad, t
      <3> QED
        BY <1>0, <2>2, <2>3, <2>5, <3>2
    <2>7. \A x \in s : f[x] \in Int
      OBVIOUS
    <2>8. Sum(f, s) = f[y] + Sum(f, t)
      BY <1>0, <2>7, SumRemove
    <2> QED
      BY <2>3, <2>6, <2>8
  <1>2. Cardinality(S) \in Nat
    BY <1>0
  <1>3. Cardinality(S) \notin Bad
    BY <1>1
  <1> QED
    BY <1>2, <1>3

=============================================================================
