----------------------------- MODULE BoardPaths -----------------------------
(***************************************************************************)
(* The board tree's functions in lib/src/lib.rs: leaf k is                 *)
(* H(k || ciphertext of entry k), paths are built by collapsing the list   *)
(* of filled leaves level by level.                                        *)
(***************************************************************************)
EXTENDS Merkle

merkle_leaf(slot, entry) == <<"leaf", slot, entry.ciphertext>>

LeafHashes(es) == [i \in 1 .. Len(es) |-> merkle_leaf(i - 1, es[i])]

(* Mutant: an odd last node meets itself.                                  *)
CollapseDuplicatingLast(level, d) ==
    [i \in 1 .. (Len(level) + 1) \div 2 |->
        merkle_combine(level[2 * i - 1],
                       level[IF 2 * i <= Len(level) THEN 2 * i ELSE 2 * i - 1])]

(* One level of hashes to the next one up, an odd last node meeting the    *)
(* zero subtree.                                                           *)
CollapseLevel(level, d) ==
    [i \in 1 .. (Len(level) + 1) \div 2 |->
        merkle_combine(level[2 * i - 1],
                       IF 2 * i <= Len(level) THEN level[2 * i] ELSE zero_hashes[d])]

(* The filled nodes of every level.                                        *)
Levels(leaf_hashes) ==
    LET level[d \in 0 .. TREE_DEPTH] ==
          IF d = 0 THEN leaf_hashes ELSE CollapseLevel(level[d - 1], d - 1)
    IN  level

(* Mutant: an unfilled subtree of any depth is taken for the zero leaf.    *)
PathWithZeroLeaves(leaf_hashes, target_idx) ==
    LET level == Levels(leaf_hashes)
    IN  [d \in 1 .. TREE_DEPTH |->
            LET sibling_idx == SiblingIndex(Ancestor(target_idx, d - 1))
            IN  IF sibling_idx < Len(level[d - 1])
                THEN level[d - 1][sibling_idx + 1]
                ELSE ZeroLeaf]

merkle_path_for_index(leaf_hashes, target_idx) ==
    LET level == Levels(leaf_hashes)
    IN  [d \in 1 .. TREE_DEPTH |->
            LET sibling_idx == SiblingIndex(Ancestor(target_idx, d - 1))
            IN  IF sibling_idx < Len(level[d - 1])
                THEN level[d - 1][sibling_idx + 1]
                ELSE zero_hashes[d - 1]]

(* Mutant: the proof is for the slot after the last entry.                 *)
ProofForSlotAfter(es) == merkle_path_for_index(LeafHashes(es), Len(es))

append_proof_for(es) == merkle_path_for_index(LeafHashes(es), Len(es) - 1)

(* Mutant: the path stops one level below the root.                        *)
PathTooShort(es) ==
    SubSeq(merkle_path_for_index(LeafHashes(es), Len(es)), 1, TREE_DEPTH - 1)

(* Mutant: the path is for the last filled slot.                           *)
PathForLastSlot(es) ==
    merkle_path_for_index(LeafHashes(es), IF es = <<>> THEN 0 ELSE Len(es) - 1)

append_path_for_next(es) == merkle_path_for_index(LeafHashes(es), Len(es))

merkle_root_of(es) ==
    IF es = <<>> THEN empty_root
    ELSE compute_root_from_path(merkle_leaf(Len(es) - 1, es[Len(es)]),
                                Len(es) - 1, append_proof_for(es))

merkle_verify(root, slot, entry, proof) ==
    compute_root_from_path(merkle_leaf(slot, entry), slot, proof) = root

-----------------------------------------------------------------------------
(* Reference definition for the checks and proofs: the leaves of the tree. *)
LeafOf(es) == [i \in Nat |-> IF i < Len(es) THEN merkle_leaf(i, es[i + 1]) ELSE ZeroLeaf]
=============================================================================
