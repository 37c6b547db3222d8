--------------------------- MODULE NullifierTree ---------------------------
(***************************************************************************)
(* The nullifier accumulator as its host uses it: nullifiers are inserted  *)
(* as slots are finished, and witnesses of absence are asked for and kept  *)
(* while the tree moves on.                                                *)
(***************************************************************************)
EXTENDS IndexedTree

VARIABLES
    tree,   \* the host's NullifierTree
    held    \* the last witness asked for, with its target, or NoWitness

vars == <<tree, held>>

-----------------------------------------------------------------------------
NoWitness == [target |-> 0]

Init == /\ tree = new
        /\ held = NoWitness

(* main: nullifier_tree.insert(entries[slot].nullifier).  Bound: a new     *)
(* leaf still has a place in the tree.                                     *)
Insert(n) ==
    /\ Len(tree.leaves) < Capacity
    /\ tree' = insert(tree, n)
    /\ UNCHANGED held

(* own_nullifier_witness, and bootstrap's parent witness.                  *)
ProveNonMembership(n) ==
    /\ held' = [target |-> n, witness |-> prove_non_membership(tree, n)]
    /\ UNCHANGED tree

Next == \E n \in Nullifiers : Insert(n) \/ ProveNonMembership(n)

Spec == Init /\ [][Next]_vars

-----------------------------------------------------------------------------
(* Type invariant.                                                         *)
TypeOK ==
    /\ tree.leaves \in Seq(IndexedLeaf)
    /\ Len(tree.leaves) \in 1 .. Capacity
    /\ DOMAIN tree.index_of \subseteq 0 .. MAX_NULLIFIER - 1
    /\ \A v \in DOMAIN tree.index_of : tree.index_of[v] \in 0 .. Len(tree.leaves) - 1
    /\ held.target \in 0 .. MAX_NULLIFIER - 1

(* After any series of inserts, in whatever order the values came, the     *)
(* leaves are one sorted linked list from 0 to MAX_NULLIFIER over exactly  *)
(* the inserted values: insert's splice loses, doubles and misorders none. *)
SortedLinkedList == IndexExact(tree) /\ GapsEmpty(tree) /\ LinksExact(tree)

(* set_leaf touches only the ancestors of the two leaves an insert         *)
(* changes; the root it leaves in the cache must still be the root of the  *)
(* tree rebuilt from all the leaves.                                       *)
CachedRootExact == root(tree) = FullTreeRoot(LeafHashOf(tree))

(* A fresh witness is accepted exactly for the targets that are absent:    *)
(* an unspent coin can always be proved unspent, a spent one never.        *)
NonMembershipExact ==
    \A t \in Nullifiers :
        verify_nonmembership(root(tree), t, prove_non_membership(tree, t))
            <=> t \notin Members(tree)

(* Whatever leaf a prover claims, at whatever position, the current root   *)
(* accepts it only if it is the leaf the tree has there, so that no        *)
(* claimed gap can skip over a member.                                     *)
OnlyOwnLeavesOpen ==
    LET r == root(tree)
    IN  \A i \in 0 .. Capacity - 1 :
            LET path == path_for(tree, i)
            IN  \A leaf \in IndexedLeaf :
                    (leaf.value < leaf.next_value
                       /\ compute_root_from_path(leaf_hash(leaf), i, path) = r)
                        => i < Len(tree.leaves) /\ leaf = Leaf(tree, i)

(* The accumulator is the set NullifierSet describes: a witness, however   *)
(* long it was held, is accepted by the current root exactly while no new  *)
(* nullifier was inserted since and its target is absent.                  *)
HeldAccepted ==
    held # NoWitness /\ verify_nonmembership(root(tree), held.target, held.witness)

Set == INSTANCE NullifierSet
           WITH members <- Members(tree),
                verdict <- [target |-> held.target, accepted |-> HeldAccepted]

ImplementsNullifierSet == Set!Spec
=============================================================================
