------------------------------ MODULE SumTheorems -----------------------------
(***************************************************************************)
(* What SumFunctionOnSet of the module Functions computes: the sum of the  *)
(* values of a function on a finite set, in whatever order they are taken. *)
(* An induction over the set is an argument by a least counterexample,     *)
(* over the numbers of elements.                                           *)
(***************************************************************************)
EXTENDS Integers, FiniteSets, Functions, FiniteSetTheorems, WellFoundedInduction, TLAPS

(* A set of numbers has a least one.                                       *)
LEMMA LeastNatural ==
  ASSUME NEW S \in SUBSET Nat, S # {}
  PROVE  \E m \in S : \A k \in S : m <= k
<1> DEFINE R == {ss \in Nat \X Nat : ss[1] < ss[2]}
<1>1. IsWellFoundedOn(R, Nat)
  BY NatLessThanWellFounded DEF OpToRel
<1> HIDE DEF R
<1>2. PICK m \in S : \A k \in S : <<k, m>> \notin R
  BY <1>1, WFMin
<1>3. ASSUME NEW k \in S PROVE m <= k
  <2>1. k \in Nat /\ m \in Nat
    OBVIOUS
  <2>2. k < m => <<k, m>> \in R
    BY <2>1 DEF R
  <2>. QED
    BY <1>2, <2>1, <2>2
<1>. QED
  BY <1>3

(* What follows from smaller numbers to the next holds of every number.    *)
LEMMA EveryNatural ==
  ASSUME NEW G \in SUBSET Nat, 0 \in G, \A n \in G : n + 1 \in G
  PROVE  G = Nat
<1> SUFFICES ASSUME Nat \ G # {} PROVE FALSE
  OBVIOUS
<1>1. PICK m \in Nat \ G : \A k \in Nat \ G : m <= k
  BY LeastNatural
<1>2. m # 0 /\ m - 1 \in Nat
  BY <1>1
<1>3. m - 1 \in G
  BY <1>1, <1>2
<1>4. (m - 1) + 1 \in G /\ (m - 1) + 1 = m
  BY <1>1, <1>3
<1>. QED
  BY <1>1, <1>4
-----------------------------------------------------------------------------
Pick(s) == CHOOSE x \in s : TRUE

(* The sum of a subset, by the sums of smaller ones.                       *)
Body(g, f, s) == IF s = {} THEN 0 ELSE f[Pick(s)] + g[s \ {Pick(s)}]

IsSum(g, f, S) == g = [s \in SUBSET S |-> Body(g, f, s)]

LEMMA SumDef ==
  ASSUME NEW f, NEW S
  PROVE  SumFunctionOnSet(f, S) = (CHOOSE g : IsSum(g, f, S))[S]
BY DEF SumFunctionOnSet, FoldFunctionOnSet, MapThenFoldSet, IsSum, Body, Pick

(* A set without one of its elements is smaller.                           *)
LEMMA Smaller ==
  ASSUME NEW S, IsFiniteSet(S), NEW s \in SUBSET S
  PROVE  /\ IsFiniteSet(s) /\ Cardinality(s) \in Nat
         /\ s = {} <=> Cardinality(s) = 0
         /\ \A x \in s : s \ {x} \in SUBSET S /\ Cardinality(s \ {x}) = Cardinality(s) - 1
         /\ s # {} => Pick(s) \in s
<1>1. IsFiniteSet(s) /\ Cardinality(s) \in Nat /\ (s = {} <=> Cardinality(s) = 0)
  BY FS_Subset, FS_CardinalityType, FS_EmptySet
<1>2. \A x \in s : Cardinality(s \ {x}) = Cardinality(s) - 1
  BY <1>1, FS_RemoveElement
<1>3. s # {} => Pick(s) \in s
  BY DEF Pick
<1>. QED
  BY <1>1, <1>2, <1>3

(* There is a table of the sums of the subsets.                            *)
LEMMA SumExists ==
  ASSUME NEW S, IsFiniteSet(S), NEW f, \A x \in S : f[x] \in Nat
  PROVE  \E g \in [SUBSET S -> Nat] : IsSum(g, f, S)
<1> DEFINE Upto(g, n) == \A s \in SUBSET S : Cardinality(s) <= n => g[s] = Body(g, f, s)
           G == {n \in Nat : \E g \in [SUBSET S -> Nat] : Upto(g, n)}
<1>1. 0 \in G
  <2> DEFINE zero == [s \in SUBSET S |-> 0]
  <2>1. ASSUME NEW s \in SUBSET S, Cardinality(s) <= 0 PROVE zero[s] = Body(zero, f, s)
    <3>1. s = {}
      BY <2>1, Smaller
    <3>. QED
      BY <3>1 DEF Body
  <2>2. zero \in [SUBSET S -> Nat]
    OBVIOUS
  <2> HIDE DEF zero
  <2>. QED
    BY <2>1, <2>2
<1>2. ASSUME NEW n \in G PROVE n + 1 \in G
  <2>1. PICK g \in [SUBSET S -> Nat] : Upto(g, n)
    BY <1>2
  <2> DEFINE h == [s \in SUBSET S |-> IF Cardinality(s) = n + 1 THEN Body(g, f, s) ELSE g[s]]
  <2>2. \A s \in SUBSET S : Body(g, f, s) \in Nat
    <3> SUFFICES ASSUME NEW s \in SUBSET S PROVE Body(g, f, s) \in Nat
      OBVIOUS
    <3>1. CASE s = {}
      BY <3>1 DEF Body
    <3>2. CASE s # {}
      <4>1. Pick(s) \in S /\ s \ {Pick(s)} \in SUBSET S
        BY <3>2, Smaller
      <4>2. f[Pick(s)] \in Nat /\ g[s \ {Pick(s)}] \in Nat
        BY <4>1
      <4>. QED
        BY <3>2, <4>2 DEF Body
    <3>. QED
      BY <3>1, <3>2
  <2>3. h \in [SUBSET S -> Nat]
    BY <2>2
  <2>4. ASSUME NEW s \in SUBSET S, Cardinality(s) <= n + 1 PROVE h[s] = Body(h, f, s)
    <3>1. Cardinality(s) \in Nat /\ n \in Nat
      BY Smaller
    <3>2. h[s] = Body(g, f, s)
      BY <2>1, <2>4, <3>1
    <3>3. Body(h, f, s) = Body(g, f, s)
      <4>1. CASE s = {}
        BY <4>1 DEF Body
      <4>2. CASE s # {}
        <5>1. s \ {Pick(s)} \in SUBSET S /\ Cardinality(s \ {Pick(s)}) = Cardinality(s) - 1
          BY <4>2, Smaller
        <5>2. Cardinality(s \ {Pick(s)}) # n + 1
          BY <2>4, <3>1, <5>1
        <5>3. h[s \ {Pick(s)}] = g[s \ {Pick(s)}]
          BY <5>1, <5>2
        <5> HIDE DEF h
        <5>. QED
          BY <4>2, <5>3 DEF Body
      <4>. QED
        BY <4>1, <4>2
    <3>. QED
      BY <3>2, <3>3
  <2>5. n + 1 \in Nat
    OBVIOUS
  <2> HIDE DEF h
  <2>. QED
    BY <2>3, <2>4, <2>5
<1>3. Cardinality(S) \in G
  <2>1. G \in SUBSET Nat
    OBVIOUS
  <2> HIDE DEF G
  <2>2. G = Nat
    BY <1>1, <1>2, <2>1, EveryNatural
  <2>. QED
    BY <2>2, FS_CardinalityType
<1>4. PICK g \in [SUBSET S -> Nat] : Upto(g, Cardinality(S))
  BY <1>3
<1>5. \A s \in SUBSET S : g[s] = Body(g, f, s)
  BY <1>4, FS_Subset
<1>6. g = [s \in SUBSET S |-> Body(g, f, s)]
  BY <1>5
<1>. QED
  BY <1>6 DEF IsSum

(* Tables of functions that agree on a set agree on its subsets.           *)
LEMMA SumsAgree ==
  ASSUME NEW S, IsFiniteSet(S), NEW T \in SUBSET S, NEW f, NEW h, NEW g, NEW k,
         \A x \in T : f[x] = h[x], IsSum(g, f, S), IsSum(k, h, T)
  PROVE  \A s \in SUBSET T : g[s] = k[s]
<1> DEFINE B == {n \in Nat : \E s \in SUBSET T : Cardinality(s) = n /\ g[s] # k[s]}
<1>1. /\ \A s \in SUBSET S : g[s] = Body(g, f, s)
      /\ \A s \in SUBSET T : k[s] = Body(k, h, s)
  BY DEF IsSum
<1>2. B = {}
  <2> SUFFICES ASSUME B # {} PROVE FALSE
    OBVIOUS
  <2>1. B \in SUBSET Nat
    OBVIOUS
  <2>2. PICK n \in B : \A m \in B : n <= m
    <3> HIDE DEF B
    <3>. QED
      BY <2>1, LeastNatural
  <2>3. PICK s \in SUBSET T : Cardinality(s) = n /\ g[s] # k[s]
    OBVIOUS
  <2>4. s \in SUBSET S /\ n \in Nat
    OBVIOUS
  <2>5. g[s] = Body(g, f, s) /\ k[s] = Body(k, h, s)
    BY <1>1, <2>3, <2>4
  <2>6. CASE s = {}
    BY <2>3, <2>5, <2>6 DEF Body
  <2>7. CASE s # {}
    <3> DEFINE p == Pick(s)
               r == s \ {p}
    <3>1. p \in s /\ r \in SUBSET T /\ r \in SUBSET S /\ Cardinality(r) = n - 1 /\ n - 1 \in Nat
      BY <2>3, <2>4, <2>7, Smaller
    <3>2. g[r] = k[r]
      <4>1. n - 1 \notin B
        BY <2>2, <2>4
      <4>. QED
        BY <3>1, <4>1
    <3>3. f[p] = h[p]
      BY <2>3, <3>1
    <3>. QED
      BY <2>3, <2>5, <2>7, <3>2, <3>3 DEF Body
  <2>. QED
    BY <2>6, <2>7
<1>3. \A s \in SUBSET T : Cardinality(s) \in Nat
  BY Smaller
<1>. QED
  BY <1>2, <1>3

(* One table has all the sums.                                             *)
Summable(f, S) == IsFiniteSet(S) /\ \A x \in S : f[x] \in Nat

IsTable(g, f, S) ==
  /\ g \in [SUBSET S -> Nat] /\ IsSum(g, f, S)
  /\ \A T \in SUBSET S : SumFunctionOnSet(f, T) = g[T]

Tabled(f, S) == \E g : IsTable(g, f, S)

LEMMA SumTable ==
  ASSUME NEW S, NEW f, Summable(f, S)
  PROVE  Tabled(f, S)
<1> USE DEF Summable
<1>1. PICK g \in [SUBSET S -> Nat] : IsSum(g, f, S)
  BY SumExists
<1>2. ASSUME NEW T \in SUBSET S PROVE SumFunctionOnSet(f, T) = g[T]
  <2>1. IsFiniteSet(T) /\ \A x \in T : f[x] \in Nat
    BY FS_Subset
  <2> DEFINE k == CHOOSE k : IsSum(k, f, T)
  <2>2. IsSum(k, f, T)
    BY <2>1, SumExists
  <2>3. SumFunctionOnSet(f, T) = k[T]
    BY SumDef
  <2> HIDE DEF k
  <2>4. g[T] = k[T]
    BY <1>1, <2>2, SumsAgree
  <2>. QED
    BY <2>3, <2>4
<1>. QED
  BY <1>1, <1>2 DEF Tabled, IsTable
-----------------------------------------------------------------------------
(* A sum of nothing, and the numbers sums are.                             *)
LEMMA SumEmpty ==
  ASSUME NEW f
  PROVE  SumFunctionOnSet(f, {}) = 0
<1> DEFINE none == {}
<1>1. IsFiniteSet(none) /\ (\A x \in none : f[x] \in Nat) /\ none \in SUBSET none
  BY FS_EmptySet
<1>2. none = {}
  OBVIOUS
<1> HIDE DEF none
<1>3. PICK g : IsTable(g, f, none)
  BY <1>1, SumTable DEF Tabled, Summable
<1>4. g[none] = Body(g, f, none)
  BY <1>1, <1>3 DEF IsTable, IsSum
<1>. QED
  BY <1>1, <1>2, <1>3, <1>4 DEF IsTable, Body

LEMMA SumType ==
  ASSUME NEW S, IsFiniteSet(S), NEW f, \A x \in S : f[x] \in Nat
  PROVE  SumFunctionOnSet(f, S) \in Nat
<1>1. PICK g : IsTable(g, f, S)
  BY SumTable DEF Tabled, Summable
<1>2. S \in SUBSET S
  OBVIOUS
<1>3. SumFunctionOnSet(f, S) = g[S] /\ g[S] \in Nat
  BY <1>1, <1>2 DEF IsTable
<1>. QED
  BY <1>3

(* The sum is of the values on the set.                                    *)
LEMMA SumSame ==
  ASSUME NEW S, IsFiniteSet(S), NEW f, NEW h, \A x \in S : f[x] = h[x] /\ f[x] \in Nat
  PROVE  SumFunctionOnSet(f, S) = SumFunctionOnSet(h, S)
<1>1. PICK g : IsTable(g, f, S)
  BY SumTable DEF Tabled, Summable
<1>2. \A x \in S : h[x] \in Nat
  OBVIOUS
<1>3. PICK k : IsTable(k, h, S)
  BY <1>2, SumTable DEF Tabled, Summable
<1>4. S \in SUBSET S /\ \A x \in S : f[x] = h[x]
  OBVIOUS
<1>5. \A s \in SUBSET S : g[s] = k[s]
  <2>1. IsSum(g, f, S) /\ IsSum(k, h, S)
    BY <1>1, <1>3 DEF IsTable
  <2>. QED
    BY <2>1, <1>4, SumsAgree
<1>. QED
  BY <1>1, <1>3, <1>4, <1>5 DEF IsTable

(* Any element may be taken first.                                         *)
LEMMA AnyFirst ==
  ASSUME NEW S, NEW f, NEW g, Summable(f, S), IsTable(g, f, S)
  PROVE  \A s \in SUBSET S, x \in S : x \in s => g[s] = f[x] + g[s \ {x}]
<1> USE DEF Summable, IsTable
<1> DEFINE Wrong(s) == \E x \in s : g[s] # f[x] + g[s \ {x}]
           B == {n \in Nat : \E s \in SUBSET S : Cardinality(s) = n /\ Wrong(s)}
<1>1. \A s \in SUBSET S : s # {} => g[s] = f[Pick(s)] + g[s \ {Pick(s)}]
  BY DEF IsSum, Body
<1>2. B = {}
  <2> SUFFICES ASSUME B # {} PROVE FALSE
    OBVIOUS
  <2>1. B \in SUBSET Nat
    OBVIOUS
  <2>2. PICK n \in B : \A m \in B : n <= m
    <3> HIDE DEF B
    <3>. QED
      BY <2>1, LeastNatural
  <2>3. PICK s \in SUBSET S : Cardinality(s) = n /\ Wrong(s)
    OBVIOUS
  <2>4. PICK x \in s : g[s] # f[x] + g[s \ {x}]
    BY <2>3
  <2> DEFINE p == Pick(s)
             both == (s \ {x}) \ {p}
  <2>5. p \in s /\ p \in S /\ x \in S /\ g[s] = f[p] + g[s \ {p}] /\ p # x
    BY <1>1, <2>4, Smaller
  <2>6. \A r \in SUBSET S : Cardinality(r) = n - 1 => ~Wrong(r)
    <3>1. n \in Nat /\ n # 0
      BY <2>3, <2>5, Smaller
    <3>2. n - 1 \in Nat /\ ~(n <= n - 1)
      BY <3>1
    <3>3. n - 1 \notin B
      <4> HIDE DEF B
      <4>. QED
        BY <2>2, <3>2
    <3>. QED
      BY <3>2, <3>3
  <2>7. \A y \in s : s \ {y} \in SUBSET S /\ Cardinality(s \ {y}) = n - 1
    BY <2>3, Smaller
  <2>8. (s \ {p}) \ {x} = both /\ x \in s \ {p} /\ p \in s \ {x} /\ both \in SUBSET S
    BY <2>4, <2>5
  <2> HIDE DEF B, both, p
  <2>9. ~Wrong(s \ {p}) /\ ~Wrong(s \ {x})
    BY <2>4, <2>5, <2>6, <2>7
  <2>10. g[s \ {p}] = f[x] + g[both]
    BY <2>8, <2>9
  <2>11. g[s \ {x}] = f[p] + g[both]
    BY <2>8, <2>9 DEF both
  <2>12. f[x] \in Nat /\ f[p] \in Nat /\ g[both] \in Nat
    BY <2>5, <2>8
  <2>. QED
    BY <2>4, <2>5, <2>10, <2>11, <2>12
<1>3. ASSUME NEW s \in SUBSET S PROVE ~Wrong(s)
  <2>1. Cardinality(s) \in Nat
    BY Smaller
  <2>2. Cardinality(s) \notin B
    BY <1>2
  <2>. QED
    BY <2>1, <2>2
<1>. QED
  BY <1>3

(* An element adds its value.                                              *)
LEMMA SumAdd ==
  ASSUME NEW S, IsFiniteSet(S), NEW f, NEW x, x \notin S,
         \A y \in S \union {x} : f[y] \in Nat
  PROVE  SumFunctionOnSet(f, S \union {x}) = SumFunctionOnSet(f, S) + f[x]
<1> DEFINE T == S \union {x}
<1>1. IsFiniteSet(T) /\ S \in SUBSET T /\ T \in SUBSET T /\ x \in T /\ T \ {x} = S
  BY FS_AddElement
<1>2. \A y \in T : f[y] \in Nat
  OBVIOUS
<1> HIDE DEF T
<1>3. PICK g : IsTable(g, f, T)
  BY <1>1, <1>2, SumTable DEF Tabled, Summable
<1>4. g[T] = f[x] + g[S]
  <2>1. \A s \in SUBSET T, y \in T : y \in s => g[s] = f[y] + g[s \ {y}]
    <3>1. Summable(f, T)
      BY <1>1, <1>2 DEF Summable
    <3>. QED
      BY <1>3, <3>1, AnyFirst
  <2>. QED
    BY <1>1, <2>1
<1>5. f[x] \in Nat /\ g[S] \in Nat
  BY <1>1, <1>2, <1>3 DEF IsTable
<1>6. SumFunctionOnSet(f, T) = SumFunctionOnSet(f, S) + f[x]
  BY <1>1, <1>3, <1>4, <1>5 DEF IsTable
<1>. QED
  BY <1>6 DEF T
===============================================================================
