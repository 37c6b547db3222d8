------------------------ MODULE NullifierTreeProofs ------------------------
(***************************************************************************)
(* Theorems about the nullifier accumulator, for every depth and every     *)
(* range of nullifiers: the list stays sorted, the cache exact, the        *)
(* verdicts exact, and the whole implements NullifierSet.                  *)
(***************************************************************************)
EXTENDS NullifierTree, TreeProofs

(* A witness that is held once opened the root of a tree with no more      *)
(* leaves than now.                                                        *)
HeldOpensEarlierRoot ==
    \/ held = NoWitness
    \/ /\ held.target \in Nullifiers
       /\ held.witness.low_leaf_index \in Nat
       /\ held.witness.low_leaf_index < Capacity
       /\ FullLength(held.witness.sibling_path)
       /\ \E m \in 1 .. Len(tree.leaves) : \E f :
             /\ \A i \in Nat : i >= m => f[i] = ZeroLeaf
             /\ compute_root_from_path(leaf_hash(held.witness.low_leaf),
                                       held.witness.low_leaf_index,
                                       held.witness.sibling_path) = FullTreeRoot(f)

(* The invariant: the list, its cache and the witness that is held.        *)
Inv == Linked(tree) /\ Cached(tree) /\ HeldOpensEarlierRoot

(* The invariant of list, cache and held witness holds in every reachable  *)
(* state.                                                                  *)
LEMMA InvHolds == Spec => []Inv
<1>1. Init => Inv
  BY NewIsLinked DEF Init, Inv, HeldOpensEarlierRoot
<1>2. Inv /\ [Next]_vars => Inv'
  <2> SUFFICES ASSUME Inv, [Next]_vars PROVE Inv'
    OBVIOUS
  <2>1. ASSUME NEW n \in Nullifiers, Insert(n) PROVE Inv'
    <3>1. Len(tree.leaves) < Capacity /\ tree' = insert(tree, n) /\ UNCHANGED held
      BY <2>1 DEF Insert
    <3>2. Linked(tree)' /\ Cached(tree)'
      BY <3>1, InsertKeeps DEF Inv
    <3>3. 1 .. Len(tree.leaves) \subseteq 1 .. Len(tree'.leaves)
      <4>1. Len(tree.leaves) \in Nat
        BY DEF Inv, Linked, Shape
      <4> QED BY <3>1, <4>1, InsertGrows DEF Inv
    <3>4. HeldOpensEarlierRoot'
      BY <3>1, <3>3 DEF Inv, HeldOpensEarlierRoot
    <3> QED BY <3>2, <3>4 DEF Inv
  <2>2. ASSUME NEW n \in Nullifiers, ProveNonMembership(n) PROVE Inv'
    <3> DEFINE w == prove_non_membership(tree, n)
    <3>1. held'.target = n /\ held'.witness = w /\ tree' = tree
      BY <2>2 DEF ProveNonMembership
    <3>2. /\ w.low_leaf_index \in Nat /\ w.low_leaf_index < Capacity /\ FullLength(w.sibling_path)
          /\ compute_root_from_path(leaf_hash(w.low_leaf), w.low_leaf_index, w.sibling_path)
                 = FullTreeRoot(LeafHashOf(tree))
      BY WitnessOpens, RootOfCache DEF Inv
    <3>3. Len(tree.leaves) \in 1 .. Len(tree.leaves)
      BY DEF Inv, Linked, Shape
    <3>4. \A i \in Nat : i >= Len(tree.leaves) => LeafHashOf(tree)[i] = ZeroLeaf
      BY DEF LeafHashOf, Inv, Linked, Shape
    <3> HIDE DEF w
    <3>5. HeldOpensEarlierRoot'
      BY <3>1, <3>2, <3>3, <3>4 DEF HeldOpensEarlierRoot
    <3> QED BY <3>1, <3>5 DEF Inv
  <2>3. CASE UNCHANGED vars
    BY <2>3 DEF vars, Inv, HeldOpensEarlierRoot
  <2> QED BY <2>1, <2>2, <2>3 DEF Next
<1> QED BY <1>1, <1>2, PTL DEF Spec

(* TypeOK: leaves, index and cache of NullifierTree are well typed and     *)
(* within the tree's capacity.                                             *)
THEOREM TypeCorrect == Spec => []TypeOK
<1>1. Inv => TypeOK
  <2> SUFFICES ASSUME Inv PROVE TypeOK
    OBVIOUS
  <2>1. held.target \in 0 .. MAX_NULLIFIER - 1
    BY MaxNullifierAssumption DEF Inv, HeldOpensEarlierRoot, NoWitness, Nullifiers
  <2> QED BY <2>1 DEF Inv, Linked, Shape, TypeOK
<1> QED BY <1>1, InvHolds, PTL

(* SortedLinkedList: whatever the order of insertions, the leaves stay one *)
(* sorted linked list over the inserted values, and index_of finds each.   *)
THEOREM ListStaysSorted == Spec => []SortedLinkedList
<1>1. Inv => SortedLinkedList
  BY DEF Inv, Linked, SortedLinkedList
<1> QED BY <1>1, InvHolds, PTL

(* CachedRootExact: the root set_leaf maintains node by node is the root   *)
(* of the tree rebuilt from the leaves, for every depth.                   *)
THEOREM CacheStaysExact == Spec => []CachedRootExact
<1>1. Inv => CachedRootExact
  BY RootOfCache DEF Inv, CachedRootExact
<1> QED BY <1>1, InvHolds, PTL

(* NonMembershipExact: a fresh witness of prove_non_membership is accepted *)
(* by verify_nonmembership exactly for the values that were not inserted.  *)
THEOREM WitnessesAreExact == Spec => []NonMembershipExact
<1>1. Inv => NonMembershipExact
  BY FreshVerdict DEF Inv, NonMembershipExact
<1> QED BY <1>1, InvHolds, PTL

(* OnlyOwnLeavesOpen: at every position the root opens to the leaf the     *)
(* tree has there and to no other, so no low leaf can be made up.          *)
THEOREM LeavesAreBound == Spec => []OnlyOwnLeavesOpen
<1>1. Inv => OnlyOwnLeavesOpen
  <2> SUFFICES ASSUME Inv, NEW i \in 0 .. Capacity - 1, NEW leaf \in IndexedLeaf,
                      compute_root_from_path(leaf_hash(leaf), i, path_for(tree, i)) = root(tree)
               PROVE  i < Len(tree.leaves) /\ leaf = Leaf(tree, i)
    BY DEF OnlyOwnLeavesOpen
  <2>1. i \in Nat /\ i < Capacity
    BY CapacityIsPositive
  <2>2. FullLength(path_for(tree, i)) /\ root(tree) = FullTreeRoot(LeafHashOf(tree))
    BY PathsOfCache, RootOfCache DEF Inv
  <2>3. leaf_hash(leaf) = LeafHashOf(tree)[i]
    BY <2>1, <2>2, RootBinds
  <2>4. leaf_hash(leaf) # ZeroLeaf
    BY DEF leaf_hash, ZeroLeaf
  <2>5. i < Len(tree.leaves) /\ leaf_hash(leaf) = leaf_hash(Leaf(tree, i))
    BY <2>1, <2>3, <2>4 DEF LeafHashOf
  <2>6. Leaf(tree, i) \in IndexedLeaf
    BY <2>1, <2>5 DEF Inv, Linked, Shape, Leaf
  <2>7. leaf.value = Leaf(tree, i).value /\ leaf.next_value = Leaf(tree, i).next_value
        /\ leaf.next_index = Leaf(tree, i).next_index
    BY <2>5 DEF leaf_hash
  <2> QED BY <2>5, <2>6, <2>7 DEF IndexedLeaf
<1> QED BY <1>1, InvHolds, PTL

-----------------------------------------------------------------------------
(* The hash of a list leaf is no zero leaf.                                *)
LEMMA LeafHashIsNotZero ==
    ASSUME NEW leaf
    PROVE  leaf_hash(leaf) # ZeroLeaf
BY DEF leaf_hash, ZeroLeaf

(* The verdict on the held witness is a truth value.                       *)
LEMMA HeldAcceptedIsBoolean == HeldAccepted \in BOOLEAN /\ HeldAccepted' \in BOOLEAN
BY DEF HeldAccepted

(* An insertion whose effect on members and verdict is the set's is an     *)
(* insertion of the set.                                                   *)
LEMMA VerdictOfInsert ==
    ASSUME NEW n, Members(tree)' = Members(tree) \union {n}, UNCHANGED held,
           HeldAccepted' = (HeldAccepted /\ n \in Members(tree))
    PROVE  Set!Insert(n)
<1> DEFINE accepted == HeldAccepted
           v == [target |-> held.target, accepted |-> accepted]
<1>1. [v EXCEPT !.accepted = v.accepted /\ n \in Members(tree)]
          = [target |-> held.target, accepted |-> accepted /\ n \in Members(tree)]
  <2> HIDE DEF accepted
  <2> QED OBVIOUS
<1>2. v' = [target |-> held.target, accepted |-> accepted /\ n \in Members(tree)]
  OBVIOUS
<1> QED BY <1>1, <1>2 DEF Set!Insert

(* A held witness is refused by verify_nonmembership after the next new    *)
(* nullifier: its root is that of a tree with fewer leaves.                *)
LEMMA OldWitnessRefused ==
    ASSUME NEW t, Linked(t), Cached(t), NEW w, NEW n, NEW m \in Nat, m < Len(t.leaves), NEW f,
           w.low_leaf_index \in Nat, w.low_leaf_index < Capacity, FullLength(w.sibling_path),
           \A i \in Nat : i >= m => f[i] = ZeroLeaf,
           compute_root_from_path(leaf_hash(w.low_leaf), w.low_leaf_index, w.sibling_path) = FullTreeRoot(f)
    PROVE  ~verify_nonmembership(root(t), n, w)
<1> SUFFICES ASSUME FullTreeRoot(f) = FullTreeRoot(LeafHashOf(t)) PROVE FALSE
  BY RootOfCache DEF verify_nonmembership
<1>1. m \in 0 .. Capacity - 1
  BY CapacityIsPositive DEF Linked, Shape
<1>2. f[m] = LeafHashOf(t)[m]
  BY <1>1, RootDeterminesLeaves
<1>3. f[m] = ZeroLeaf
  OBVIOUS
<1>4. LeafHashOf(t)[m] = leaf_hash(Leaf(t, m))
  BY DEF LeafHashOf
<1> QED BY <1>2, <1>3, <1>4, LeafHashIsNotZero

(* ImplementsNullifierSet: the accumulator of lib.rs implements a set      *)
(* whose witnesses are good exactly while the set is the one they were     *)
(* made for; the held witness is refused, not misjudged, once the tree     *)
(* moved on.                                                               *)
THEOREM TreeImplementsSet == Spec => ImplementsNullifierSet
<1>1. Init => Set!Init
  <2> SUFFICES ASSUME Init PROVE Set!Init
    OBVIOUS
  <2>1. Members(tree) = {}
    BY DEF Init, Members, new
  <2>2. held = NoWitness /\ held.target = 0 /\ ~HeldAccepted
    BY DEF Init, NoWitness, HeldAccepted
  <2>3. HeldAccepted = FALSE
    BY <2>2, HeldAcceptedIsBoolean
  <2> QED BY <2>1, <2>2, <2>3 DEF Set!Init, Set!NoVerdict
<1>2. Inv /\ [Next]_vars => [Set!Next]_(Set!vars)
  <2> SUFFICES ASSUME Inv, [Next]_vars PROVE [Set!Next]_(Set!vars)
    OBVIOUS
  <2>1. ASSUME NEW n \in Nullifiers, Insert(n) PROVE Set!Insert(n)
    <3>1. Len(tree.leaves) < Capacity /\ tree' = insert(tree, n) /\ UNCHANGED held
      BY <2>1 DEF Insert
    <3>2. CASE n \in DOMAIN tree.index_of
      <4>1. tree' = tree /\ n \in Members(tree)
        BY <3>1, <3>2, InsertGrows, MembersFacts DEF Inv
      <4>2. HeldAccepted' = HeldAccepted /\ Members(tree)' = Members(tree) \union {n}
        BY <3>1, <4>1 DEF HeldAccepted
      <4>3. HeldAccepted' = (HeldAccepted /\ n \in Members(tree))
        BY <4>1, <4>2, HeldAcceptedIsBoolean
      <4> QED BY <3>1, <4>2, <4>3, VerdictOfInsert
    <3>3. CASE n \notin DOMAIN tree.index_of
      <4>1. Members(tree)' = Members(tree) \union {n} /\ n \notin Members(tree)
        BY <3>1, <3>3, InsertGrows, MembersFacts DEF Inv
      <4>2. ~HeldAccepted'
        <5> SUFFICES ASSUME held # NoWitness
                     PROVE  ~verify_nonmembership(root(tree'), held.target, held.witness)
          BY <3>1 DEF HeldAccepted
        <5>1. PICK m \in 1 .. Len(tree.leaves) : \E f :
                  /\ \A i \in Nat : i >= m => f[i] = ZeroLeaf
                  /\ compute_root_from_path(leaf_hash(held.witness.low_leaf),
                                            held.witness.low_leaf_index,
                                            held.witness.sibling_path) = FullTreeRoot(f)
          BY DEF Inv, HeldOpensEarlierRoot
        <5>5. PICK f :
                  /\ \A i \in Nat : i >= m => f[i] = ZeroLeaf
                  /\ compute_root_from_path(leaf_hash(held.witness.low_leaf),
                                            held.witness.low_leaf_index,
                                            held.witness.sibling_path) = FullTreeRoot(f)
          BY <5>1
        <5>2. held.witness.low_leaf_index \in Nat /\ held.witness.low_leaf_index < Capacity
              /\ FullLength(held.witness.sibling_path)
          BY DEF Inv, HeldOpensEarlierRoot
        <5>3. Linked(tree') /\ Cached(tree')
          BY <3>1, InsertKeeps DEF Inv
        <5>4. m \in Nat /\ m < Len(tree'.leaves)
          BY <3>1, <3>3, InsertGrows DEF Inv, Linked, Shape
        <5> QED BY <5>2, <5>3, <5>4, <5>5, OldWitnessRefused
      <4>3. HeldAccepted' = (HeldAccepted /\ n \in Members(tree))
        BY <4>1, <4>2, HeldAcceptedIsBoolean
      <4> QED BY <3>1, <4>1, <4>3, VerdictOfInsert
    <3> QED BY <3>2, <3>3
  <2>2. ASSUME NEW n \in Nullifiers, ProveNonMembership(n) PROVE Set!ProveNonMembership(n)
    <3>1. held'.target = n /\ held'.witness = prove_non_membership(tree, n) /\ tree' = tree
      BY <2>2 DEF ProveNonMembership
    <3>2. held' # NoWitness
      BY <3>1, MaxNullifierAssumption DEF NoWitness, Nullifiers
    <3>3. HeldAccepted' = (n \notin Members(tree))
      BY <3>1, <3>2, FreshVerdict DEF Inv, HeldAccepted
    <3> QED BY <3>1, <3>3 DEF Set!ProveNonMembership
  <2>3. CASE UNCHANGED vars
    BY <2>3 DEF vars, Set!vars, HeldAccepted
  <2> QED BY <2>1, <2>2, <2>3 DEF Next, Set!Next
<1> QED BY <1>1, <1>2, InvHolds, PTL DEF Spec, ImplementsNullifierSet, Set!Spec
=============================================================================
