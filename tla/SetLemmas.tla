----------------------------- MODULE SetLemmas ------------------------------
(***************************************************************************)
(* Least elements, and the sum of a function over a finite set, for the    *)
(* proofs about the models.  A claim about all sets or numbers is proved   *)
(* here and there from the least that breaks it.                           *)
(***************************************************************************)
EXTENDS Integers, FiniteSets, FiniteSetsExt, FiniteSetTheorems, WellFoundedInduction, TLAPS

(* A set of numbers has a least one.                                       *)
LEMMA HasALeast ==
  ASSUME NEW T \in SUBSET Nat, T # {} PROVE \E i \in T : \A j \in T : i <= j
<1> DEFINE Smaller == {p \in Nat \X Nat : p[1] < p[2]}
<1>1. IsWellFoundedOn(Smaller, Nat)
  BY NatLessThanWellFounded DEF OpToRel
<1> HIDE DEF Smaller
<1>2. PICK i \in T : \A j \in T : <<j, i>> \notin Smaller
  BY <1>1, WFMin
<1>3. ASSUME NEW x \in Nat, NEW y \in Nat, <<x, y>> \notin Smaller PROVE y <= x
  <2>1. <<x, y>> \in Nat \X Nat /\ <<x, y>>[1] = x /\ <<x, y>>[2] = y
    OBVIOUS
  <2>2. ~(x < y)
    BY <2>1, <1>3 DEF Smaller
  <2> QED  BY <2>2
<1>4. ASSUME NEW j \in T PROVE i <= j
  BY <1>2, <1>3
<1> QED  BY <1>4

(* A set of numbers up to n has a greatest one.                            *)
LEMMA HasAGreatest ==
  ASSUME NEW n \in Nat, NEW T \in SUBSET (0..n), T # {} PROVE \E i \in T : \A j \in T : j <= i
<1> DEFINE S == {n - i : i \in T}
<1>1. \A i \in T : i \in Nat /\ n - i \in Nat /\ n - i \in S
  OBVIOUS
<1>2. S \in SUBSET Nat /\ S # {}
  BY <1>1
<1>3. PICK s \in S : \A u \in S : s <= u
  BY <1>2, HasALeast
<1>4. PICK i \in T : s = n - i
  BY <1>3
<1>5. ASSUME NEW j \in T PROVE j <= i
  <2>1. n - i <= n - j
    BY <1>1, <1>3, <1>4
  <2> QED  BY <2>1, <1>1
<1> QED  BY <1>5

(* Of some finite sets one is a smallest: no set with an element less is   *)
(* among them.                                                             *)
LEMMA HasASmallest ==
  ASSUME NEW A, A # {}, \A S \in A : IsFiniteSet(S)
  PROVE  \E S \in A : \A x \in S : S \ {x} \notin A
<1> DEFINE C == {Cardinality(S) : S \in A}
<1>1. C \in SUBSET Nat /\ C # {}
  BY FS_CardinalityType
<1>2. PICK c \in C : \A d \in C : c <= d
  BY <1>1, HasALeast
<1>3. PICK S \in A : Cardinality(S) = c
  BY <1>2
<1>4. ASSUME NEW x \in S, S \ {x} \in A PROVE FALSE
  <2>1. Cardinality(S \ {x}) = Cardinality(S) - 1 /\ Cardinality(S) \in Nat
    BY FS_RemoveElement, FS_CardinalityType
  <2>2. Cardinality(S) <= Cardinality(S \ {x})
    BY <1>2, <1>3, <1>4
  <2> QED  BY <2>1, <2>2
<1> QED  BY <1>3, <1>4

-----------------------------------------------------------------------------
(* MapThenSumSet takes the elements in any order.  g is the recursive      *)
(* function it is defined by, on the subsets of T.                         *)
Total(f, S) == MapThenSumSet(LAMBDA n : f[n], S)
One(s) == CHOOSE y \in s : TRUE
Sums(f, g, T) ==
  g = [s \in SUBSET T |-> IF s = {} THEN 0 ELSE f[One(s)] + g[s \ {One(s)}]]

LEMMA OneIs == ASSUME NEW s, s # {} PROVE One(s) \in s
BY DEF One

LEMMA TotalIs ==
  ASSUME NEW f, NEW T
  PROVE  Total(f, T) = (CHOOSE g : Sums(f, g, T))[T]
BY DEF Total, Sums, One, MapThenSumSet, MapThenFoldSet

LEMMA SumsAt ==
  ASSUME NEW f, NEW g, NEW T, Sums(f, g, T), NEW s \in SUBSET T
  PROVE  g[s] = IF s = {} THEN 0 ELSE f[One(s)] + g[s \ {One(s)}]
<1>1. g = [u \in SUBSET T |-> IF u = {} THEN 0 ELSE f[One(u)] + g[u \ {One(u)}]]
  BY DEF Sums
<1> QED  BY <1>1

LEMMA SumsAreUnique ==
  ASSUME NEW f, NEW g, NEW T, Sums(f, g, T), NEW h, NEW U, Sums(f, h, U),
         NEW s, s \subseteq T, s \subseteq U, IsFiniteSet(s)
  PROVE  g[s] = h[s]
<1> DEFINE A == {u \in SUBSET s : g[u] # h[u]}
<1>1. SUFFICES ASSUME A # {} PROVE FALSE
  OBVIOUS
<1>2. \A u \in A : IsFiniteSet(u)
  BY FS_Subset
<1> HIDE DEF A
<1>3. PICK u \in A : \A x \in u : u \ {x} \notin A
  BY <1>1, <1>2, HasASmallest
<1>4. u \in SUBSET T /\ u \in SUBSET U /\ u \in SUBSET s /\ g[u] # h[u]
  BY <1>3 DEF A
<1>5. u # {}
  BY <1>4, SumsAt
<1>6. g[u \ {One(u)}] = h[u \ {One(u)}]
  BY <1>3, <1>4, <1>5, OneIs DEF A
<1> QED  BY <1>4, <1>5, <1>6, SumsAt

LEMMA SumsRestrict ==
  ASSUME NEW f, NEW g, NEW T, Sums(f, g, T), NEW U, U \subseteq T
  PROVE  Sums(f, [s \in SUBSET U |-> g[s]], U)
<1> DEFINE h == [s \in SUBSET U |-> g[s]]
<1>1. ASSUME NEW s \in SUBSET U
      PROVE  h[s] = IF s = {} THEN 0 ELSE f[One(s)] + h[s \ {One(s)}]
  <2>1. h[s] = g[s] /\ s \in SUBSET T /\ s \ {One(s)} \in SUBSET U
    OBVIOUS
  <2>2. h[s \ {One(s)}] = g[s \ {One(s)}]
    BY <2>1
  <2> HIDE DEF h
  <2> QED  BY <2>1, <2>2, SumsAt
<1>2. h = [s \in SUBSET U |-> h[s]]
  OBVIOUS
<1> HIDE DEF h
<1>3. h = [s \in SUBSET U |-> IF s = {} THEN 0 ELSE f[One(s)] + h[s \ {One(s)}]]
  BY <1>1, <1>2
<1> QED  BY <1>3 DEF Sums, h

Summable(f, T) == \E g : Sums(f, g, T)

LEMMA TotalIsASum ==
  ASSUME NEW f, NEW g, NEW T, Sums(f, g, T), IsFiniteSet(T)
  PROVE  Total(f, T) = g[T]
<1>1. Sums(f, CHOOSE h : Sums(f, h, T), T)
  OBVIOUS
<1> QED  BY <1>1, TotalIs, SumsAreUnique

LEMMA TotalOfSubset ==
  ASSUME NEW f, NEW g, NEW T, Sums(f, g, T), NEW U, U \subseteq T, IsFiniteSet(U)
  PROVE  Total(f, U) = g[U]
<1>1. Sums(f, [s \in SUBSET U |-> g[s]], U)
  BY SumsRestrict
<1>2. Total(f, U) = [s \in SUBSET U |-> g[s]][U]
  BY <1>1, TotalIsASum
<1> QED  BY <1>2

LEMMA FiniteIsSummable ==
  ASSUME NEW f, NEW S, IsFiniteSet(S) PROVE Summable(f, S)
<1> DEFINE A == {T \in SUBSET S : ~Summable(f, T)}
<1>1. SUFFICES ASSUME A # {} PROVE FALSE
  OBVIOUS
<1>2. \A u \in A : IsFiniteSet(u)
  BY FS_Subset
<1> HIDE DEF A
<1>3. PICK T \in A : \A x \in T : T \ {x} \notin A
  BY <1>1, <1>2, HasASmallest
<1>4. T \subseteq S /\ ~Summable(f, T) /\ IsFiniteSet(T)
  BY <1>2, <1>3 DEF A
<1>5. ASSUME NEW U, U \subseteq T, U # T PROVE Summable(f, U) /\ IsFiniteSet(U)
  <2>1. PICK x \in T : x \notin U
    BY <1>5
  <2>2. PICK g : Sums(f, g, T \ {x})
    <3>1. Summable(f, T \ {x})
      BY <1>3, <1>4, <2>1 DEF A
    <3> QED  BY <3>1 DEF Summable
  <2>3. Sums(f, [s \in SUBSET U |-> g[s]], U)
    BY <1>5, <2>1, <2>2, SumsRestrict
  <2> QED  BY <1>4, <1>5, <2>3, FS_Subset DEF Summable
<1> DEFINE Body(s) == IF s = {} THEN 0 ELSE f[One(s)] + Total(f, s \ {One(s)})
           h == [s \in SUBSET T |-> Body(s)]
<1>6. ASSUME NEW U, U \subseteq T, U # T PROVE Total(f, U) = Body(U)
  <2>1. PICK g : Sums(f, g, U)
    BY <1>5, <1>6 DEF Summable
  <2>2. Total(f, U) = g[U]
    BY <1>5, <1>6, <2>1, TotalIsASum
  <2>3. U # {} => Total(f, U \ {One(U)}) = g[U \ {One(U)}]
    <3>1. IsFiniteSet(U \ {One(U)})
      BY <1>5, <1>6, FS_Subset
    <3> QED  BY <2>1, <3>1, TotalOfSubset
  <2>4. g[U] = IF U = {} THEN 0 ELSE f[One(U)] + g[U \ {One(U)}]
    BY <2>1, SumsAt
  <2> QED  BY <2>2, <2>3, <2>4
<1>7. ASSUME NEW s \in SUBSET T
      PROVE  h[s] = IF s = {} THEN 0 ELSE f[One(s)] + h[s \ {One(s)}]
  <2>1. CASE s = {}
    BY <2>1
  <2>2. CASE s # {}
    <3> DEFINE u == s \ {One(s)}
    <3>1. u \subseteq T /\ u # T
      BY <2>2, OneIs
    <3>2. Total(f, u) = Body(u)
      BY <1>6, <3>1
    <3>3. h[u] = Body(u) /\ h[s] = Body(s)
      BY <3>1
    <3>4. Body(s) = f[One(s)] + Total(f, u)
      BY <2>2
    <3> HIDE DEF h, Body
    <3> QED  BY <2>2, <3>2, <3>3, <3>4
  <2> QED  BY <2>1, <2>2
<1>8. h = [s \in SUBSET T |-> h[s]]
  OBVIOUS
<1> HIDE DEF h
<1>9. h = [s \in SUBSET T |-> IF s = {} THEN 0 ELSE f[One(s)] + h[s \ {One(s)}]]
  BY <1>7, <1>8
<1>10. Sums(f, h, T)
  BY <1>9 DEF Sums
<1> QED  BY <1>4, <1>10 DEF Summable

LEMMA TotalOfNone == ASSUME NEW f PROVE Total(f, {}) = 0
<1>1. PICK g : Sums(f, g, {})
  BY FiniteIsSummable, FS_EmptySet DEF Summable
<1>2. Total(f, {}) = g[{}]
  BY <1>1, TotalIsASum, FS_EmptySet
<1> QED  BY <1>1, <1>2, SumsAt

LEMMA TotalFrom ==
  ASSUME NEW f, NEW S, IsFiniteSet(S), S # {}
  PROVE  Total(f, S) = f[One(S)] + Total(f, S \ {One(S)})
<1>1. PICK g : Sums(f, g, S)
  BY FiniteIsSummable DEF Summable
<1>2. IsFiniteSet(S \ {One(S)})
  BY FS_Subset
<1>3. Total(f, S) = g[S] /\ Total(f, S \ {One(S)}) = g[S \ {One(S)}]
  BY <1>1, <1>2, TotalIsASum, TotalOfSubset
<1>4. g[S] = IF S = {} THEN 0 ELSE f[One(S)] + g[S \ {One(S)}]
  BY <1>1, SumsAt
<1> QED  BY <1>3, <1>4

LEMMA TotalIsInt ==
  ASSUME NEW f, NEW S, IsFiniteSet(S), \A x \in S : f[x] \in Int
  PROVE  Total(f, S) \in Int
<1> DEFINE A == {T \in SUBSET S : Total(f, T) \notin Int}
<1>1. SUFFICES ASSUME A # {} PROVE FALSE
  OBVIOUS
<1>2. \A u \in A : IsFiniteSet(u)
  BY FS_Subset
<1> HIDE DEF A
<1>3. PICK T \in A : \A x \in T : T \ {x} \notin A
  BY <1>1, <1>2, HasASmallest
<1>4. T \subseteq S /\ Total(f, T) \notin Int /\ IsFiniteSet(T)
  BY <1>2, <1>3 DEF A
<1>5. T # {}
  BY <1>4, TotalOfNone
<1>6. One(T) \in T /\ Total(f, T) = f[One(T)] + Total(f, T \ {One(T)})
  BY <1>4, <1>5, OneIs, TotalFrom
<1>7. Total(f, T \ {One(T)}) \in Int /\ f[One(T)] \in Int
  BY <1>3, <1>4, <1>6 DEF A
<1> QED  BY <1>4, <1>6, <1>7

(* Any element may be added first.                                         *)
AnyFirst(f, S) == \A x \in S : Total(f, S) = f[x] + Total(f, S \ {x})

LEMMA TotalFromAny ==
  ASSUME NEW f, NEW S, IsFiniteSet(S), \A x \in S : f[x] \in Int
  PROVE  AnyFirst(f, S)
<1> DEFINE A == {T \in SUBSET S : ~AnyFirst(f, T)}
<1>1. SUFFICES ASSUME A # {} PROVE FALSE
  OBVIOUS
<1>2. \A u \in A : IsFiniteSet(u)
  BY FS_Subset
<1> HIDE DEF A
<1>3. PICK T \in A : \A x \in T : T \ {x} \notin A
  BY <1>1, <1>2, HasASmallest
<1>4. T \subseteq S /\ ~AnyFirst(f, T) /\ IsFiniteSet(T)
  BY <1>2, <1>3 DEF A
<1>5. ASSUME NEW x \in T PROVE AnyFirst(f, T \ {x}) /\ f[x] \in Int
  BY <1>3, <1>4 DEF A
<1>6. T # {}
  BY <1>4 DEF AnyFirst
<1> DEFINE y == One(T)
<1>7. y \in T /\ Total(f, T) = f[y] + Total(f, T \ {y})
  BY <1>4, <1>6, OneIs, TotalFrom
<1> HIDE DEF y
<1>8. ASSUME NEW x \in T PROVE Total(f, T) = f[x] + Total(f, T \ {x})
  <2>1. CASE x = y
    BY <1>7, <2>1
  <2>2. CASE x # y
    <3> DEFINE rest == T \ {x, y}
    <3>1. Total(f, T \ {y}) = f[x] + Total(f, (T \ {y}) \ {x})
      BY <1>5, <1>7, <2>2 DEF AnyFirst
    <3>2. Total(f, T \ {x}) = f[y] + Total(f, (T \ {x}) \ {y})
      BY <1>5, <1>7, <2>2 DEF AnyFirst
    <3>3. (T \ {y}) \ {x} = rest /\ (T \ {x}) \ {y} = rest
      OBVIOUS
    <3>4. Total(f, rest) \in Int
      <4>1. IsFiniteSet(rest)
        BY <1>4, FS_Subset
      <4> QED  BY <1>4, <4>1, TotalIsInt
    <3>5. f[x] \in Int /\ f[y] \in Int
      BY <1>5, <1>7
    <3>6. Total(f, T) = f[y] + (f[x] + Total(f, rest)) /\ Total(f, T \ {x}) = f[y] + Total(f, rest)
      BY <1>7, <3>1, <3>2, <3>3
    <3> HIDE DEF rest
    <3> QED  BY <3>4, <3>5, <3>6
  <2> QED  BY <2>1, <2>2
<1> QED  BY <1>4, <1>8 DEF AnyFirst

LEMMA TotalAdds ==
  ASSUME NEW f, NEW S, IsFiniteSet(S), \A y \in S : f[y] \in Int,
         NEW x, x \notin S, f[x] \in Int
  PROVE  /\ IsFiniteSet(S \cup {x})
         /\ Total(f, S \cup {x}) = Total(f, S) + f[x] /\ Total(f, S) \in Int
<1>1. IsFiniteSet(S \cup {x})
  BY FS_AddElement
<1>2. (S \cup {x}) \ {x} = S
  OBVIOUS
<1>3. Total(f, S) \in Int
  BY TotalIsInt
<1>4. \A y \in S \cup {x} : f[y] \in Int
  OBVIOUS
<1>5. Total(f, S \cup {x}) = f[x] + Total(f, S)
  BY <1>1, <1>2, <1>4, TotalFromAny DEF AnyFirst
<1> QED  BY <1>1, <1>3, <1>5
=============================================================================
