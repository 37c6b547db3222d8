---------------------------- MODULE IndexedTree ----------------------------
(***************************************************************************)
(* The operations of NullifierTree in lib/src/lib.rs: an indexed Merkle    *)
(* tree, that is, a sorted linked list of leaves (value, next_value,       *)
(* next_index) kept in the leaves of a Merkle tree, with an index from     *)
(* value to leaf and a cache of every filled node.  Nullifiers, 32-byte    *)
(* strings compared as numbers, are naturals below MAX_NULLIFIER.          *)
(***************************************************************************)
EXTENDS Merkle

CONSTANT MAX_NULLIFIER

(* No real nullifier is [0u8; 32] or MAX_NULLIFIER (lib.rs, on the         *)
(* sentinels): they are the hash values strictly between.                  *)
ASSUME MaxNullifierAssumption == MAX_NULLIFIER \in Nat \ {0}

Nullifiers == 1 .. MAX_NULLIFIER - 1

(* A leaf of the list; values are kept with the two sentinels.             *)
IndexedLeaf == [value : 0 .. MAX_NULLIFIER, next_value : 0 .. MAX_NULLIFIER,
                next_index : 0 .. Capacity - 1]

(* Mutant: next_value is left out of the hash.                             *)
HashWithoutNextValue(leaf) == <<"leaf", leaf.value, leaf.next_index>>

leaf_hash(leaf) == <<"leaf", leaf.value, leaf.next_value, leaf.next_index>>

(* leaves[i] of the code is Leaf(t, i): a Vec counts from 0.               *)
Leaf(t, i) == t.leaves[i + 1]
Members(t) == DOMAIN t.index_of \ {0}

NodeAt(nodes, d, i) == IF i \in DOMAIN nodes[d] THEN nodes[d][i] ELSE zero_hashes[d]

(* The siblings on the way from leaf idx to the root.                      *)
Siblings(nodes, idx) ==
    [d \in 1 .. TREE_DEPTH |-> NodeAt(nodes, d - 1, SiblingIndex(Ancestor(idx, d - 1)))]

(* HashMap::insert and BTreeMap::insert.                                   *)
MapInsert(map, key, value) ==
    [k \in DOMAIN map \union {key} |-> IF k = key THEN value ELSE map[k]]

(* Sets leaf idx's hash and every ancestor of it, each from the node below *)
(* and that node's sibling.                                                *)
set_leaf(nodes, idx, hash) ==
    LET node == NodesOnPath(hash, idx, Siblings(nodes, idx))
    IN  [d \in 0 .. TREE_DEPTH |-> MapInsert(nodes[d], Ancestor(idx, d), node[d])]

Sentinel == [value |-> 0, next_value |-> MAX_NULLIFIER, next_index |-> 0]

new == [leaves   |-> <<Sentinel>>,
        index_of |-> [v \in {0} |-> 0],
        nodes    |-> set_leaf([d \in 0 .. TREE_DEPTH |-> <<>>], 0, leaf_hash(Sentinel))]

root(t) == NodeAt(t.nodes, TREE_DEPTH, 0)

contains(t, value) == value \in DOMAIN t.index_of

(* index_of.range(..target).next_back(): the greatest value below target.  *)
LowValue(t, target) ==
    CHOOSE v \in DOMAIN t.index_of :
        v < target /\ \A w \in DOMAIN t.index_of : w < target => w <= v

find_low_leaf_index(t, target) == t.index_of[LowValue(t, target)]

(* A leaf for value after its low leaf, which now points to it.            *)
Splice(t, value) ==
    LET low_idx == find_low_leaf_index(t, value)
        low == Leaf(t, low_idx)
        new_index == Len(t.leaves)
        updated_low == [value |-> low.value, next_value |-> value, next_index |-> new_index]
        new_leaf == [value |-> value, next_value |-> low.next_value, next_index |-> low.next_index]
    IN  [leaves   |-> Append([t.leaves EXCEPT ![low_idx + 1] = updated_low], new_leaf),
         index_of |-> MapInsert(t.index_of, value, new_index),
         nodes    |-> set_leaf(set_leaf(t.nodes, low_idx, leaf_hash(updated_low)),
                               new_index, leaf_hash(new_leaf))]

(* Mutant: only the new leaf reaches the cached nodes.                     *)
InsertWithoutLowUpdate(t, value) ==
    IF contains(t, value) THEN t
    ELSE [Splice(t, value) EXCEPT
             !.nodes = set_leaf(t.nodes, Len(t.leaves),
                                leaf_hash(Leaf(Splice(t, value), Len(t.leaves))))]

(* Mutant: the new leaf does not take over the low leaf's next_index.      *)
InsertDroppingNextIndex(t, value) ==
    IF contains(t, value) THEN t
    ELSE [Splice(t, value) EXCEPT !.leaves[Len(t.leaves) + 1].next_index = 0]

(* Mutant: next_index is the length after the push.                        *)
InsertWithNextIndexOffByOne(t, value) ==
    IF contains(t, value) THEN t
    ELSE [Splice(t, value) EXCEPT
             !.leaves[find_low_leaf_index(t, value) + 1].next_index = Len(t.leaves) + 1,
             !.index_of[value] = Len(t.leaves) + 1]

insert(t, value) == IF contains(t, value) THEN t ELSE Splice(t, value)

path_for(t, idx) == Siblings(t.nodes, idx)

prove_non_membership(t, target) ==
    LET low_idx == find_low_leaf_index(t, target)
    IN  [low_leaf |-> Leaf(t, low_idx), low_leaf_index |-> low_idx,
         sibling_path |-> path_for(t, low_idx)]

(* Mutant: next_value itself counts as absent.                             *)
VerifyNonStrict(r, target, w) ==
    /\ w.low_leaf.value < target /\ target <= w.low_leaf.next_value
    /\ compute_root_from_path(leaf_hash(w.low_leaf), w.low_leaf_index, w.sibling_path) = r

(* Mutant: the path is never compared with the root.                       *)
VerifyWithoutRoot(r, target, w) ==
    w.low_leaf.value < target /\ target < w.low_leaf.next_value

verify_nonmembership(r, target, w) ==
    /\ w.low_leaf.value < target /\ target < w.low_leaf.next_value
    /\ compute_root_from_path(leaf_hash(w.low_leaf), w.low_leaf_index, w.sibling_path) = r

-----------------------------------------------------------------------------
(* Reference definitions for the checks and proofs: what a sorted linked   *)
(* list with an index is, and the leaves the Merkle tree is over.          *)

(* The index and the list agree: each key's leaf holds that key, and no    *)
(* two leaves hold the same value.                                         *)
IndexExact(t) ==
    /\ \A v \in DOMAIN t.index_of : Leaf(t, t.index_of[v]).value = v
    /\ \A i \in 0 .. Len(t.leaves) - 1 :
          /\ Leaf(t, i).value \in DOMAIN t.index_of
          /\ t.index_of[Leaf(t, i).value] = i

(* No member lies strictly inside a leaf's gap.                            *)
GapsEmpty(t) ==
    \A i \in 0 .. Len(t.leaves) - 1 :
        /\ Leaf(t, i).value < Leaf(t, i).next_value
        /\ \A v \in DOMAIN t.index_of :
              ~(Leaf(t, i).value < v /\ v < Leaf(t, i).next_value)

(* next_value is a member and next_index is where its leaf is, or the gap  *)
(* runs to the upper sentinel.                                             *)
LinksExact(t) ==
    \A i \in 0 .. Len(t.leaves) - 1 :
        IF Leaf(t, i).next_value = MAX_NULLIFIER THEN Leaf(t, i).next_index = 0
        ELSE /\ Leaf(t, i).next_value \in DOMAIN t.index_of
             /\ t.index_of[Leaf(t, i).next_value] = Leaf(t, i).next_index

LeafHashOf(t) == [i \in Nat |-> IF i < Len(t.leaves) THEN leaf_hash(Leaf(t, i)) ELSE ZeroLeaf]
=============================================================================
