------------------------------- MODULE Merkle -------------------------------
(***************************************************************************)
(* The fixed-depth Merkle tree of lib/src/lib.rs that the board and the    *)
(* nullifier accumulator share.  SHA-256 is a free constructor: two hashes *)
(* are equal exactly when what was hashed is.                              *)
(***************************************************************************)
EXTENDS Integers, Sequences, TLC

CONSTANT TREE_DEPTH

ASSUME TreeDepthAssumption == TREE_DEPTH \in Nat \ {0}

(* 1 << d, and the number of leaves.                                       *)
PowerOf2[d \in 0 .. TREE_DEPTH] == IF d = 0 THEN 1 ELSE 2 * PowerOf2[d - 1]
Capacity == PowerOf2[TREE_DEPTH]

(* [0u8; 32], the placeholder of an unfilled leaf: no hash equals it.      *)
ZeroLeaf == <<"zero">>

merkle_combine(l, r) == <<"node", l, r>>

zero_hashes[d \in 0 .. TREE_DEPTH] ==
    IF d = 0 THEN ZeroLeaf
    ELSE merkle_combine(zero_hashes[d - 1], zero_hashes[d - 1])

empty_root == zero_hashes[TREE_DEPTH]

(* idx ^ 1 and idx >> d.                                                   *)
SiblingIndex(idx) == IF idx % 2 = 0 THEN idx + 1 ELSE idx - 1
Ancestor(idx, d) == idx \div PowerOf2[d]

(* One level of the walk to the root: node idx meets its sibling.          *)
CombineWithSibling(idx, node, sibling) ==
    IF idx % 2 = 0 THEN merkle_combine(node, sibling)
                   ELSE merkle_combine(sibling, node)

NodesOnPath(leaf, slot, path) ==
    LET node[d \in 0 .. Len(path)] ==
          IF d = 0 THEN leaf
          ELSE CombineWithSibling(Ancestor(slot, d - 1), node[d - 1], path[d])
    IN  node

compute_root_from_path(leaf, slot, path) == NodesOnPath(leaf, slot, path)[Len(path)]

-----------------------------------------------------------------------------
(* Reference definition for the checks and proofs: the tree over a         *)
(* function that gives every leaf, spelled out level by level.  A level    *)
(* goes on for ever; the first PowerOf2[TREE_DEPTH - d] of its nodes are   *)
(* those below the root.                                                   *)
LevelAbove(level) == [i \in Nat |-> merkle_combine(level[2 * i], level[2 * i + 1])]

FullTree(leaf) ==
    LET level[d \in 0 .. TREE_DEPTH] == IF d = 0 THEN leaf ELSE LevelAbove(level[d - 1])
    IN  level

FullTreeRoot(leaf) == FullTree(leaf)[TREE_DEPTH][0]
=============================================================================
