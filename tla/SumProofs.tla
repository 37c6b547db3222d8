----------------------------- MODULE SumProofs -----------------------------
(***************************************************************************)
(* Induction over the naturals and over a finite set, and facts about the  *)
(* sums of FiniteSetsExt: what Ledger and CoinBook count coins with. The   *)
(* theorems of the libraries that take an operator are stated here for     *)
(* sets and tables, which the provers can instantiate.                     *)
(***************************************************************************)
EXTENDS FiniteSetsExt, FiniteSetTheorems, WellFoundedInduction, TLAPS

(* A set of naturals that is not empty has a least element: what the       *)
(* induction below and find_low_leaf_index rest on.                        *)
THEOREM LeastElement ==
    ASSUME NEW S \in SUBSET Nat, S # {}
    PROVE  \E x \in S : \A y \in S : x <= y
<1> DEFINE Less == {ss \in Nat \X Nat : ss[1] < ss[2]}
<1>1. IsWellFoundedOn(OpToRel(<, Nat), Nat)
  BY NatLessThanWellFounded
<1>2. IsWellFoundedOn(Less, Nat)
  BY <1>1 DEF OpToRel
<1>3. PICK x \in S : \A y \in S : ~(<<y, x>> \in Less)
  <2> HIDE DEF Less
  <2> QED BY <1>2, WFMin
<1>4. ASSUME NEW y \in S, y < x PROVE FALSE
  <2>1. <<y, x>> \in Nat \X Nat /\ <<y, x>>[1] < <<y, x>>[2]
    BY <1>4
  <2>2. <<y, x>> \in Less
    BY <2>1
  <2> QED BY <1>3, <2>2
<1> QED BY <1>4

(* Induction over the naturals, on the set of those that satisfy what is   *)
(* to be shown: the loops over TREE_DEPTH levels of lib.rs.                *)
THEOREM NatSetInduction ==
    ASSUME NEW S, 0 \in S, \A n \in Nat : n \in S => n + 1 \in S
    PROVE  Nat \subseteq S
<1> SUFFICES ASSUME Nat \ S # {} PROVE FALSE
  OBVIOUS
<1>1. PICK x \in Nat \ S : \A y \in Nat \ S : x <= y
  BY LeastElement
<1>2. x # 0 /\ x - 1 \in Nat /\ x - 1 \in S
  BY <1>1
<1> QED BY <1>1, <1>2

(* Induction over a finite set: what passes from the sets with one element *)
(* less to every subset holds of every subset. It is how the sums over     *)
(* coins, outputs and hosts are taken apart.                               *)
THEOREM SubsetInduction ==
    ASSUME NEW S, NEW P, IsFiniteSet(S),
           \A T \in SUBSET S : (\A x \in T : T \ {x} \in P) => T \in P
    PROVE  \A T \in SUBSET S : T \in P
<1> DEFINE Sizes == {n \in Nat : \A T \in SUBSET S : Cardinality(T) = n => T \in P}
<1>1. \A T \in SUBSET S : IsFiniteSet(T) /\ Cardinality(T) \in Nat
  BY FS_Subset, FS_CardinalityType
<1>2. 0 \in Sizes
  <2> SUFFICES ASSUME NEW T \in SUBSET S, Cardinality(T) = 0 PROVE T \in P
    OBVIOUS
  <2>1. T = {}
    BY <1>1, FS_EmptySet
  <2> QED BY <2>1
<1>3. ASSUME NEW n \in Nat, n \in Sizes PROVE n + 1 \in Sizes
  <2> SUFFICES ASSUME NEW T \in SUBSET S, Cardinality(T) = n + 1 PROVE T \in P
    OBVIOUS
  <2>1. ASSUME NEW x \in T PROVE T \ {x} \in P
    <3>1. Cardinality(T \ {x}) = Cardinality(T) - 1
      BY <1>1, FS_RemoveElement
    <3>2. Cardinality(T \ {x}) = n
      BY <3>1
    <3> QED BY <1>3, <3>2
  <2> QED BY <2>1
<1> HIDE DEF Sizes
<1>4. Nat \subseteq Sizes
  BY <1>2, <1>3, NatSetInduction
<1> QED BY <1>1, <1>4 DEF Sizes

(* The sum of a table over a set, as the models write it.                  *)
SumOf(v, S) == MapThenSumSet(LAMBDA x : v[x], S)

(* The element MapThenSumSet takes out first.                              *)
pick(s) == CHOOSE x \in s : TRUE

(* The recursive function in MapThenSumSet: g is the sum over each subset. *)
IsSumTable(g, v, S) ==
    g = [s \in SUBSET S |-> IF s = {} THEN 0 ELSE v[pick(s)] + g[s \ {pick(s)}]]

(* The element picked from a set is in it.                                 *)
LEMMA PickIn == ASSUME NEW s, s # {} PROVE pick(s) \in s
BY DEF pick

(* A table of sums, restricted to the subsets of a subset, is the table of *)
(* that one.                                                               *)
LEMMA SumTableRestricts ==
    ASSUME NEW v, NEW S, NEW T \in SUBSET S, NEW g, IsSumTable(g, v, S)
    PROVE  IsSumTable([s \in SUBSET T |-> g[s]], v, T)
<1> DEFINE h == [s \in SUBSET T |-> g[s]]
<1>1. ASSUME NEW s \in SUBSET T
      PROVE  h[s] = IF s = {} THEN 0 ELSE v[pick(s)] + h[s \ {pick(s)}]
  <2>1. s \in SUBSET S /\ s \ {pick(s)} \in SUBSET T
    OBVIOUS
  <2>2. g[s] = IF s = {} THEN 0 ELSE v[pick(s)] + g[s \ {pick(s)}]
    BY <2>1, Zenon DEF IsSumTable
  <2> QED BY <2>1, <2>2
<1> QED BY <1>1 DEF IsSumTable

(* There is at most one table of sums.                                     *)
LEMMA SumTableUnique ==
    ASSUME NEW v, NEW S, NEW g, NEW h, IsFiniteSet(S), IsSumTable(g, v, S), IsSumTable(h, v, S)
    PROVE  g = h
<1> DEFINE P == {T \in SUBSET S : g[T] = h[T]}
<1>1. ASSUME NEW T \in SUBSET S, \A x \in T : T \ {x} \in P PROVE T \in P
  <2>1. g[T] = IF T = {} THEN 0 ELSE v[pick(T)] + g[T \ {pick(T)}]
    BY Zenon DEF IsSumTable
  <2>2. h[T] = IF T = {} THEN 0 ELSE v[pick(T)] + h[T \ {pick(T)}]
    BY Zenon DEF IsSumTable
  <2> QED BY <1>1, <2>1, <2>2, PickIn
<1> HIDE DEF P
<1>2. \A T \in SUBSET S : T \in P
  BY <1>1, SubsetInduction
<1>3. \A T \in SUBSET S : g[T] = h[T]
  BY <1>2 DEF P
<1>4. g = [s \in SUBSET S |-> g[s]] /\ h = [s \in SUBSET S |-> h[s]]
  BY DEF IsSumTable
<1> QED BY <1>3, <1>4

(* A table of sums exists for every finite set: the recursion in           *)
(* MapThenSumSet is well founded.                                          *)
LEMMA SumTableExists ==
    ASSUME NEW v, NEW S, IsFiniteSet(S)
    PROVE  \E g : IsSumTable(g, v, S)
<1> DEFINE P == {T \in SUBSET S : \E g : IsSumTable(g, v, T)}
<1>1. ASSUME NEW T \in SUBSET S, \A x \in T : T \ {x} \in P PROVE T \in P
  <2>0. \A U \in SUBSET S : IsFiniteSet(U)
    BY FS_Subset
  <2>1. \A x \in T : \E g : IsSumTable(g, v, T \ {x})
    BY <1>1
  <2> DEFINE tab(U) == CHOOSE g : IsSumTable(g, v, U)
             sum(U) == IF U = {} THEN 0 ELSE v[pick(U)] + tab(U \ {pick(U)})[U \ {pick(U)}]
             h == [U \in SUBSET T |-> sum(U)]
  <2> HIDE DEF tab
  <2>3. ASSUME NEW x \in T, NEW U \in SUBSET (T \ {x})
        PROVE  /\ IsSumTable(tab(U), v, U)
               /\ tab(U)[U] = sum(U)
    <3>1. \E g : IsSumTable(g, v, U)
      <4>1. PICK g : IsSumTable(g, v, T \ {x})
        BY <2>1
      <4>2. IsSumTable([s \in SUBSET U |-> g[s]], v, U)
        BY <4>1, SumTableRestricts
      <4> QED BY <4>2
    <3>2. IsSumTable(tab(U), v, U)
      BY <3>1, Zenon DEF tab
    <3>3. CASE U = {}
      BY <3>2, <3>3 DEF IsSumTable
    <3>4. CASE U # {}
      <4> DEFINE W == U \ {pick(U)}
      <4>1. tab(U)[U] = v[pick(U)] + tab(U)[W]
        BY <3>2, <3>4 DEF IsSumTable
      <4>2. IsSumTable([s \in SUBSET W |-> tab(U)[s]], v, W)
        BY <3>2, SumTableRestricts
      <4>3. IsSumTable(tab(W), v, W)
        BY <4>2, Zenon DEF tab
      <4>4. IsFiniteSet(W)
        BY <2>0
      <4> HIDE DEF W
      <4>5. [s \in SUBSET W |-> tab(U)[s]] = tab(W)
        BY <4>2, <4>3, <4>4, SumTableUnique
      <4>6. tab(U)[W] = tab(W)[W]
        BY <4>5
      <4> QED BY <3>2, <3>4, <4>1, <4>6 DEF W
    <3> QED BY <3>2, <3>3, <3>4
  <2>4. ASSUME NEW U \in SUBSET T
        PROVE  h[U] = IF U = {} THEN 0 ELSE v[pick(U)] + h[U \ {pick(U)}]
    <3>1. CASE U = {}
      BY <3>1
    <3>2. CASE U # {}
      <4>1. pick(U) \in T /\ U \ {pick(U)} \in SUBSET (T \ {pick(U)})
        BY <3>2, PickIn
      <4>2. tab(U \ {pick(U)})[U \ {pick(U)}] = sum(U \ {pick(U)})
        BY <2>3, <4>1
      <4>3. h[U] = sum(U) /\ h[U \ {pick(U)}] = sum(U \ {pick(U)})
        BY <4>1
      <4>4. sum(U) = v[pick(U)] + tab(U \ {pick(U)})[U \ {pick(U)}]
        BY <3>2
      <4> HIDE DEF h, sum
      <4> QED BY <3>2, <4>2, <4>3, <4>4
    <3> QED BY <3>1, <3>2
  <2>5. IsSumTable(h, v, T)
    <3> HIDE DEF sum
    <3>1. h = [U \in SUBSET T |-> h[U]]
      OBVIOUS
    <3> HIDE DEF h
    <3> QED BY <2>4, <3>1 DEF IsSumTable
  <2> HIDE DEF h
  <2> QED BY <2>5
<1>2. \A T \in SUBSET S : T \in P
  <2> HIDE DEF P
  <2> QED BY <1>1, SubsetInduction
<1> QED BY <1>2

(* The sum is what such a table has for the whole set.                     *)
LEMMA SumIsTable ==
    ASSUME NEW v, NEW S, IsFiniteSet(S)
    PROVE  \E g : IsSumTable(g, v, S) /\ SumOf(v, S) = g[S]
<1> DEFINE t == CHOOSE g : IsSumTable(g, v, S)
<1>1. IsSumTable(t, v, S)
  BY SumTableExists, Zenon
<1>2. SumOf(v, S) = t[S]
  BY DEF SumOf, MapThenSumSet, MapThenFoldSet, IsSumTable, pick
<1> QED BY <1>1, <1>2

(* Nothing sums to zero.                                                   *)
LEMMA SumEmpty == \A v : SumOf(v, {}) = 0
<1> TAKE v
<1>1. PICK g : IsSumTable(g, v, {}) /\ SumOf(v, {}) = g[{}]
  BY SumIsTable, FS_EmptySet
<1> QED BY <1>1 DEF IsSumTable

(* The recursion of MapThenSumSet.                                         *)
LEMMA SumPick ==
    ASSUME NEW v, NEW S, IsFiniteSet(S), S # {}
    PROVE  SumOf(v, S) = v[pick(S)] + SumOf(v, S \ {pick(S)})
<1> DEFINE W == S \ {pick(S)}
<1>1. PICK g : IsSumTable(g, v, S) /\ SumOf(v, S) = g[S]
  BY SumIsTable
<1>2. IsFiniteSet(W)
  BY FS_RemoveElement
<1>3. PICK h : IsSumTable(h, v, W) /\ SumOf(v, W) = h[W]
  BY <1>2, SumIsTable
<1>4. IsSumTable([s \in SUBSET W |-> g[s]], v, W)
  BY <1>1, SumTableRestricts
<1>5. g[S] = v[pick(S)] + g[W]
  BY <1>1 DEF IsSumTable
<1> HIDE DEF W
<1>6. [s \in SUBSET W |-> g[s]] = h
  BY <1>2, <1>3, <1>4, SumTableUnique
<1>7. g[W] = h[W]
  BY <1>6
<1> QED BY <1>1, <1>3, <1>5, <1>7 DEF W


(* Sums of integers are integers.                                          *)
LEMMA SumInt ==
    ASSUME NEW v, NEW S, IsFiniteSet(S), \A y \in S : v[y] \in Int
    PROVE  \A T \in SUBSET S : SumOf(v, T) \in Int
<1> DEFINE P == {T \in SUBSET S : SumOf(v, T) \in Int}
<1>1. ASSUME NEW T \in SUBSET S, \A z \in T : T \ {z} \in P PROVE T \in P
  <2>1. CASE T = {}
    BY <2>1, SumEmpty
  <2>2. CASE T # {}
    <3>1. IsFiniteSet(T) /\ pick(T) \in T
      BY <2>2, PickIn, FS_Subset
    <3>2. SumOf(v, T) = v[pick(T)] + SumOf(v, T \ {pick(T)})
      BY <2>2, <3>1, SumPick
    <3> QED BY <1>1, <3>1, <3>2
  <2> QED BY <2>1, <2>2
<1> HIDE DEF P
<1>2. \A T \in SUBSET S : T \in P
  BY <1>1, SubsetInduction
<1> QED BY <1>2 DEF P

(* Sums of naturals are naturals.                                          *)
LEMMA SumNat ==
    ASSUME NEW v, NEW S, IsFiniteSet(S), \A y \in S : v[y] \in Nat
    PROVE  \A T \in SUBSET S : SumOf(v, T) \in Nat
<1> DEFINE P == {T \in SUBSET S : SumOf(v, T) \in Nat}
<1>1. ASSUME NEW T \in SUBSET S, \A z \in T : T \ {z} \in P PROVE T \in P
  <2>1. CASE T = {}
    BY <2>1, SumEmpty
  <2>2. CASE T # {}
    <3>1. IsFiniteSet(T) /\ pick(T) \in T
      BY <2>2, PickIn, FS_Subset
    <3>2. SumOf(v, T) = v[pick(T)] + SumOf(v, T \ {pick(T)})
      BY <2>2, <3>1, SumPick
    <3> QED BY <1>1, <3>1, <3>2
  <2> QED BY <2>1, <2>2
<1> HIDE DEF P
<1>2. \A T \in SUBSET S : T \in P
  BY <1>1, SubsetInduction
<1> QED BY <1>2 DEF P

(* Any element may be taken out first: the sum does not depend on the      *)
(* order in which a set is enumerated.                                     *)
LEMMA SumRemoveWithin ==
    ASSUME NEW v, NEW S, IsFiniteSet(S), \A y \in S : v[y] \in Int
    PROVE  \A T \in SUBSET S : \A x \in T : SumOf(v, T) = v[x] + SumOf(v, T \ {x})
<1> DEFINE P == {T \in SUBSET S : \A z \in T : SumOf(v, T) = v[z] + SumOf(v, T \ {z})}
<1>0. \A T \in SUBSET S : IsFiniteSet(T) /\ SumOf(v, T) \in Int
  BY FS_Subset, SumInt
<1>1. ASSUME NEW T \in SUBSET S, \A z \in T : T \ {z} \in P PROVE T \in P
  <2> SUFFICES ASSUME NEW z \in T PROVE SumOf(v, T) = v[z] + SumOf(v, T \ {z})
    OBVIOUS
  <2> DEFINE c == pick(T)
             W == (T \ {c}) \ {z}
  <2>1. c \in T /\ c \in S /\ z \in S
    BY PickIn
  <2>2. SumOf(v, T) = v[c] + SumOf(v, T \ {c})
    BY <1>0, SumPick
  <2> HIDE DEF c
  <2>3. CASE z = c
    BY <2>2, <2>3
  <2>4. CASE z # c
    <3>1. SumOf(v, T \ {c}) = v[z] + SumOf(v, W)
      BY <1>1, <2>1, <2>4
    <3>2. (T \ {z}) \ {c} = W
      OBVIOUS
    <3>3. SumOf(v, T \ {z}) = v[c] + SumOf(v, W)
      BY <1>1, <2>1, <2>4, <3>2
    <3>4. W \in SUBSET S
      OBVIOUS
    <3>5. SumOf(v, W) \in Int /\ v[z] \in Int /\ v[c] \in Int
      BY <1>0, <2>1, <3>4
    <3> HIDE DEF W
    <3> QED BY <2>2, <3>1, <3>3, <3>5
  <2> QED BY <2>3, <2>4
<1> HIDE DEF P
<1>2. \A T \in SUBSET S : T \in P
  BY <1>1, SubsetInduction
<1> QED BY <1>2 DEF P

(* The same for the set itself.                                            *)
LEMMA SumRemove ==
    ASSUME NEW v, NEW S, NEW x \in S, IsFiniteSet(S), \A y \in S : v[y] \in Int
    PROVE  SumOf(v, S) = v[x] + SumOf(v, S \ {x})
BY SumRemoveWithin

(* A new element adds its value.                                           *)
LEMMA SumAdd ==
    ASSUME NEW v, NEW S, NEW x, x \notin S, IsFiniteSet(S), \A y \in S \union {x} : v[y] \in Int
    PROVE  SumOf(v, S \union {x}) = SumOf(v, S) + v[x]
<1> DEFINE T == S \union {x}
<1>1. IsFiniteSet(T) /\ x \in T /\ T \ {x} = S
  BY FS_AddElement
<1>2. SumOf(v, S) \in Int /\ v[x] \in Int
  BY SumInt
<1>3. \A y \in T : v[y] \in Int
  OBVIOUS
<1> HIDE DEF T
<1>4. SumOf(v, T) = v[x] + SumOf(v, T \ {x})
  BY <1>1, <1>3, SumRemove
<1>5. SumOf(v, T \ {x}) = SumOf(v, S)
  BY <1>1, Zenon
<1> QED BY <1>2, <1>4, <1>5 DEF T

(* The sum over one element.                                               *)
LEMMA SumSingleton ==
    ASSUME NEW v, NEW x, v[x] \in Int
    PROVE  SumOf(v, {x}) = v[x]
<1>1. SumOf(v, {} \union {x}) = SumOf(v, {}) + v[x]
  BY FS_EmptySet, SumAdd
<1>2. {} \union {x} = {x}
  OBVIOUS
<1> QED BY <1>1, <1>2, SumEmpty

(* Tables that agree on a set have the same sum over it.                   *)
LEMMA SumAgrees ==
    ASSUME NEW v, NEW w, NEW S, IsFiniteSet(S), \A x \in S : v[x] = w[x]
    PROVE  SumOf(v, S) = SumOf(w, S)
<1> DEFINE P == {T \in SUBSET S : SumOf(v, T) = SumOf(w, T)}
<1>1. ASSUME NEW T \in SUBSET S, \A z \in T : T \ {z} \in P PROVE T \in P
  <2>1. CASE T = {}
    BY <2>1, SumEmpty
  <2>2. CASE T # {}
    <3>1. IsFiniteSet(T) /\ pick(T) \in T
      BY <2>2, PickIn, FS_Subset
    <3>2. /\ SumOf(v, T) = v[pick(T)] + SumOf(v, T \ {pick(T)})
          /\ SumOf(w, T) = w[pick(T)] + SumOf(w, T \ {pick(T)})
      BY <2>2, <3>1, SumPick
    <3> QED BY <1>1, <3>1, <3>2
  <2> QED BY <2>1, <2>2
<1> HIDE DEF P
<1>2. \A T \in SUBSET S : T \in P
  BY <1>1, SubsetInduction
<1> QED BY <1>2 DEF P

(* Sums over disjoint sets add up.                                         *)
LEMMA SumUnion ==
    ASSUME NEW v, NEW A, NEW B, IsFiniteSet(A), IsFiniteSet(B), A \intersect B = {},
           \A y \in A \union B : v[y] \in Int
    PROVE  SumOf(v, A \union B) = SumOf(v, A) + SumOf(v, B)
<1> DEFINE P == {T \in SUBSET B : SumOf(v, A \union T) = SumOf(v, A) + SumOf(v, T)}
<1>0. \A T \in SUBSET B : /\ IsFiniteSet(T) /\ IsFiniteSet(A \union T)
                          /\ SumOf(v, A) \in Int /\ SumOf(v, T) \in Int
  BY FS_Subset, FS_Union, SumInt
<1>01. \A T \in SUBSET B : \A x \in T : SumOf(v, T) = v[x] + SumOf(v, T \ {x})
  <2>1. \A y \in B : v[y] \in Int
    OBVIOUS
  <2> QED BY <2>1, SumRemoveWithin
<1>1. ASSUME NEW T \in SUBSET B, \A z \in T : T \ {z} \in P PROVE T \in P
  <2>1. CASE T = {}
    <3>1. A \union T = A
      BY <2>1
    <3> QED BY <1>0, <2>1, <3>1, SumEmpty
  <2>2. CASE T # {}
    <3>1. PICK x \in T : TRUE
      BY <2>2
    <3>2. (A \union T) \ {x} = A \union (T \ {x}) /\ x \in A \union T
      OBVIOUS
    <3>3. \A y \in A \union T : v[y] \in Int
      OBVIOUS
    <3>4. SumOf(v, A \union T) = v[x] + SumOf(v, A \union (T \ {x}))
      BY <1>0, <3>2, <3>3, SumRemove
    <3>5. SumOf(v, T) = v[x] + SumOf(v, T \ {x})
      BY <1>01
    <3>6. SumOf(v, A \union (T \ {x})) = SumOf(v, A) + SumOf(v, T \ {x})
      BY <1>1
    <3>7. SumOf(v, T \ {x}) \in Int /\ SumOf(v, A) \in Int /\ v[x] \in Int
      BY <1>0, <3>3
    <3> QED BY <3>4, <3>5, <3>6, <3>7
  <2> QED BY <2>1, <2>2
<1> HIDE DEF P
<1>2. \A T \in SUBSET B : T \in P
  BY <1>0, <1>1, SubsetInduction
<1> QED BY <1>2 DEF P

(* A part of a set of naturals sums to no more than the whole.             *)
LEMMA SumSubset ==
    ASSUME NEW v, NEW S, NEW T \in SUBSET S, IsFiniteSet(S), \A y \in S : v[y] \in Nat
    PROVE  SumOf(v, T) <= SumOf(v, S)
<1>1. IsFiniteSet(T) /\ IsFiniteSet(S \ T) /\ S \ T \in SUBSET S
  BY FS_Subset
<1>2. T \union (S \ T) = S /\ T \intersect (S \ T) = {} /\ \A y \in T \union (S \ T) : v[y] \in Int
  OBVIOUS
<1>3. SumOf(v, T) \in Nat /\ SumOf(v, S \ T) \in Nat
  BY <1>1, SumNat
<1> DEFINE U == S \ T
<1>4. SumOf(v, T \union U) = SumOf(v, T) + SumOf(v, U)
  <2> HIDE DEF U
  <2> QED BY <1>1, <1>2, SumUnion DEF U
<1> HIDE DEF U
<1>5. SumOf(v, S) = SumOf(v, T \union U)
  BY <1>2 DEF U
<1>6. SumOf(v, T) \in Nat /\ SumOf(v, U) \in Nat
  BY <1>3 DEF U
<1> QED BY <1>4, <1>5, <1>6

(* A union sums to no more than its parts.                                 *)
LEMMA SumUnionBound ==
    ASSUME NEW v, NEW A, NEW B, IsFiniteSet(A), IsFiniteSet(B), \A y \in A \union B : v[y] \in Nat
    PROVE  SumOf(v, A \union B) <= SumOf(v, A) + SumOf(v, B)
<1>1. IsFiniteSet(B \ A) /\ A \union (B \ A) = A \union B /\ A \intersect (B \ A) = {}
  BY FS_Subset
<1>2. \A y \in A \union (B \ A) : v[y] \in Int
  OBVIOUS
<1>3. SumOf(v, A \union (B \ A)) = SumOf(v, A) + SumOf(v, B \ A)
  BY <1>1, <1>2, SumUnion
<1>4. SumOf(v, B \ A) <= SumOf(v, B)
  BY SumSubset
<1> DEFINE C == B \ A
<1>5. SumOf(v, A) \in Nat /\ SumOf(v, B) \in Nat /\ SumOf(v, C) \in Nat
  BY SumNat
<1>6. SumOf(v, A \union B) = SumOf(v, A) + SumOf(v, C) /\ SumOf(v, C) <= SumOf(v, B)
  BY <1>1, <1>3, <1>4
<1> HIDE DEF C
<1> QED BY <1>5, <1>6

(* The image of a finite set is finite.                                    *)
LEMMA FiniteImage ==
    ASSUME NEW S, NEW f, IsFiniteSet(S)
    PROVE  IsFiniteSet({f[x] : x \in S})
<1> DEFINE T == {f[x] : x \in S}
           g == [x \in S |-> f[x]]
<1>1. g \in Surjection(S, T)
  BY DEF Surjection
<1> HIDE DEF g, T
<1>2. IsFiniteSet(T)
  BY <1>1, FS_Surjection
<1> QED BY <1>2 DEF T

(* A finite union of finite sets is finite.                                *)
LEMMA FiniteUnion ==
    ASSUME NEW K, NEW F, IsFiniteSet(K), \A k \in K : IsFiniteSet(F[k])
    PROVE  \A L \in SUBSET K : IsFiniteSet(UNION {F[k] : k \in L})
<1> DEFINE P == {L \in SUBSET K : IsFiniteSet(UNION {F[k] : k \in L})}
<1>1. ASSUME NEW L \in SUBSET K, \A z \in L : L \ {z} \in P PROVE L \in P
  <2>1. CASE L = {}
    <3>1. UNION {F[k] : k \in L} = {}
      BY <2>1
    <3> QED BY <3>1, FS_EmptySet
  <2>2. CASE L # {}
    <3>1. PICK z \in L : TRUE
      BY <2>2
    <3>2. UNION {F[k] : k \in L} = (UNION {F[k] : k \in L \ {z}}) \union F[z]
      BY <3>1
    <3>3. IsFiniteSet(UNION {F[k] : k \in L \ {z}}) /\ IsFiniteSet(F[z])
      BY <1>1
    <3> DEFINE A == UNION {F[k] : k \in L \ {z}}
    <3>4. IsFiniteSet(A \union F[z])
      <4> HIDE DEF A
      <4>1. IsFiniteSet(A) /\ IsFiniteSet(F[z])
        BY <3>3 DEF A
      <4> QED BY <4>1, FS_Union
    <3> QED BY <3>2, <3>4
  <2> QED BY <2>1, <2>2
<1> HIDE DEF P
<1>2. \A L \in SUBSET K : L \in P
  BY <1>1, SubsetInduction
<1> QED BY <1>2 DEF P

(* What several elements map to is counted once on the left and each time  *)
(* on the right.                                                           *)
LEMMA SumImage ==
    ASSUME NEW v, NEW w, NEW f, NEW S, IsFiniteSet(S),
           \A x \in S : v[f[x]] \in Nat /\ w[x] = v[f[x]]
    PROVE  SumOf(v, {f[x] : x \in S}) <= SumOf(w, S)
<1> DEFINE Im(T) == {f[x] : x \in T}
           P == {T \in SUBSET S : SumOf(v, Im(T)) <= SumOf(w, T)}
<1>0. \A T \in SUBSET S : /\ IsFiniteSet(T) /\ IsFiniteSet(Im(T))
                          /\ SumOf(v, Im(T)) \in Nat /\ SumOf(w, T) \in Nat
  <2>1. ASSUME NEW T \in SUBSET S PROVE IsFiniteSet(T) /\ IsFiniteSet(Im(T)) /\ SumOf(w, T) \in Nat
    <3>1. IsFiniteSet(T) /\ IsFiniteSet(Im(T))
      BY FS_Subset, FiniteImage
    <3>2. \A x \in S : w[x] \in Nat
      OBVIOUS
    <3> HIDE DEF Im
    <3> QED BY <3>1, <3>2, SumNat
  <2>2. ASSUME NEW T \in SUBSET S PROVE SumOf(v, Im(T)) \in Nat
    <3>1. \A y \in Im(T) : v[y] \in Nat
      OBVIOUS
    <3> HIDE DEF Im
    <3> QED BY <2>1, <3>1, SumNat
  <2> HIDE DEF Im
  <2> QED BY <2>1, <2>2
<1>1. ASSUME NEW T \in SUBSET S, \A z \in T : T \ {z} \in P PROVE T \in P
  <2>1. CASE T = {}
    <3>1. Im(T) = {}
      BY <2>1
    <3> QED BY <2>1, <3>1, SumEmpty
  <2>2. CASE T # {}
    <3>1. PICK z \in T : TRUE
      BY <2>2
    <3> DEFINE U == T \ {z}
    <3>2. Im(T) = Im(U) \union {f[z]}
      BY <3>1
    <3>3. SumOf(v, Im(U)) <= SumOf(w, U) /\ U \in SUBSET S
      BY <1>1, <3>1
    <3>4. \A y \in Im(U) \union {f[z]} : v[y] \in Nat
      BY <3>1
    <3>5. SumOf(w, T) = w[z] + SumOf(w, U)
      <4>1. \A y \in S : w[y] \in Int
        OBVIOUS
      <4> QED BY <3>1, <4>1, SumRemoveWithin
    <3> HIDE DEF Im, U
    <3>6. SumOf(v, Im(U) \union {f[z]}) <= SumOf(v, Im(U)) + SumOf(v, {f[z]})
      BY <1>0, <3>3, <3>4, FS_Singleton, SumUnionBound
    <3>7. SumOf(v, {f[z]}) = v[f[z]] /\ v[f[z]] \in Nat /\ w[z] = v[f[z]]
      BY <3>1, SumSingleton
    <3>8. SumOf(v, Im(T)) <= SumOf(v, Im(U)) + v[f[z]]
      BY <3>2, <3>6, <3>7
    <3>9. SumOf(v, Im(T)) \in Nat /\ SumOf(v, Im(U)) \in Nat /\ SumOf(w, U) \in Nat
      BY <1>0, <3>3
    <3>10. SumOf(v, Im(T)) <= SumOf(w, T)
      BY <3>3, <3>5, <3>7, <3>8, <3>9
    <3> QED BY <3>10
  <2> QED BY <2>1, <2>2
<1> HIDE DEF P, Im
<1>2. \A T \in SUBSET S : T \in P
  BY <1>1, SubsetInduction
<1> QED BY <1>2 DEF P, Im

(* The sum of the sums over disjoint sets is the sum over their union.     *)
LEMMA SumFamily ==
    ASSUME NEW v, NEW w, NEW F, NEW K, IsFiniteSet(K),
           \A k \in K : IsFiniteSet(F[k]) /\ w[k] = SumOf(v, F[k]) /\ \A y \in F[k] : v[y] \in Int,
           \A j, k \in K : j # k => F[j] \intersect F[k] = {}
    PROVE  SumOf(w, K) = SumOf(v, UNION {F[k] : k \in K})
<1> DEFINE All(L) == UNION {F[k] : k \in L}
           P == {L \in SUBSET K : SumOf(w, L) = SumOf(v, All(L))}
<1>0. \A L \in SUBSET K : IsFiniteSet(L) /\ IsFiniteSet(All(L))
  BY FS_Subset, FiniteUnion
<1>1. \A k \in K : w[k] \in Int
  BY SumInt
<1>2. ASSUME NEW L \in SUBSET K, \A z \in L : L \ {z} \in P PROVE L \in P
  <2>1. CASE L = {}
    <3>1. All(L) = {}
      BY <2>1
    <3> QED BY <2>1, <3>1, SumEmpty
  <2>2. CASE L # {}
    <3>1. PICK z \in L : TRUE
      BY <2>2
    <3> DEFINE M == L \ {z}
    <3>2. All(L) = All(M) \union F[z] /\ All(M) \intersect F[z] = {}
      BY <3>1
    <3>3. SumOf(w, M) = SumOf(v, All(M)) /\ M \in SUBSET K
      BY <1>2, <3>1
    <3>4. SumOf(w, L) = w[z] + SumOf(w, M)
      BY <1>1, <3>1, SumRemoveWithin
    <3>5. \A y \in All(M) \union F[z] : v[y] \in Int
      OBVIOUS
    <3>6. IsFiniteSet(All(M)) /\ IsFiniteSet(F[z]) /\ w[z] = SumOf(v, F[z])
      BY <1>0, <3>1, <3>3
    <3>7. SumOf(w, M) \in Int /\ w[z] \in Int
      BY <1>1, <3>1, <3>3, SumInt
    <3> HIDE DEF All, M
    <3>8. SumOf(v, All(M) \union F[z]) = SumOf(v, All(M)) + SumOf(v, F[z])
      BY <3>2, <3>5, <3>6, SumUnion
    <3>9. SumOf(w, L) = SumOf(v, All(L))
      BY <3>2, <3>3, <3>4, <3>6, <3>7, <3>8
    <3> QED BY <3>9
  <2> QED BY <2>1, <2>2
<1> HIDE DEF P, All
<1>3. \A L \in SUBSET K : L \in P
  BY <1>2, SubsetInduction
<1> QED BY <1>3 DEF P, All

(* Whatever table satisfies the recursion gives the sum.                   *)
LEMMA SumChosen ==
    ASSUME NEW v, NEW S, NEW t, IsFiniteSet(S), IsSumTable(t, v, S)
    PROVE  t[S] = SumOf(v, S)
<1>1. PICK g : IsSumTable(g, v, S) /\ SumOf(v, S) = g[S]
  BY SumIsTable
<1> QED BY <1>1, SumTableUnique
=============================================================================
