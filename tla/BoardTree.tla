----------------------------- MODULE BoardTree -----------------------------
(***************************************************************************)
(* The board: an append-only list of entries, committed to by the root of  *)
(* a Merkle tree whose leaf k is H(k || ciphertext of entry k).  A spend   *)
(* is anchored at the root before its own entry (append_path_for_next), a  *)
(* receipt at the root after it (append_proof_for).                        *)
(***************************************************************************)
EXTENDS BoardPaths

CONSTANTS Ciphertexts, EntryNullifiers

VARIABLES
    entries,   \* the host's Vec<BoardEntry>
    anchor     \* what the last spend was proved against, or NoAnchor

vars == <<entries, anchor>>

(* ek_pk and key_encs play no part in the tree.                            *)
BoardEntry == [ciphertext : Ciphertexts, nullifier : EntryNullifiers]

(* Slots count from 0, positions of a TLA+ sequence from 1.                *)
Entry(k) == entries[k + 1]
Prefix(n) == SubSeq(entries, 1, n)

-----------------------------------------------------------------------------
NoAnchor == [slot |-> -1, path |-> <<>>, board_root |-> <<>>]

Init == /\ entries = <<>>
        /\ anchor = NoAnchor

(* main: the spend about to be proved takes its append path, and           *)
(* check_spend commits to the root that path gives the empty slot.         *)
AnchorSpend ==
    /\ Len(entries) < Capacity
    /\ LET path == append_path_for_next(entries)
       IN  anchor' = [slot |-> Len(entries), path |-> path,
                      board_root |-> compute_root_from_path(ZeroLeaf, Len(entries), path)]
    /\ UNCHANGED entries

(* main: entries.push(encrypt_tx(..)).  Bound: the board is not full.      *)
Push(e) ==
    /\ Len(entries) < Capacity
    /\ entries' = Append(entries, e)
    /\ UNCHANGED anchor

Next == AnchorSpend \/ \E e \in BoardEntry : Push(e)

Spec == Init /\ [][Next]_vars

-----------------------------------------------------------------------------
(* Type invariant: the board is a list of entries no longer than the tree  *)
(* has leaves, and the anchor was taken at a slot the board had reached.   *)
TypeOK ==
    /\ entries \in Seq(BoardEntry)
    /\ Len(entries) <= Capacity
    /\ anchor.slot \in -1 .. Len(entries)
    /\ Len(anchor.path) \in {0, TREE_DEPTH}

(* merkle_root_of computes the root from one path built by collapsing      *)
(* levels; it must be the root of the full tree in which slots 0..T hold   *)
(* the entries and every other leaf is zero.                               *)
RootIsFullTree == merkle_root_of(entries) = FullTreeRoot(LeafOf(entries))

(* The "Key property" of lib.rs: the append path of slot k gives the root  *)
(* without entry k when the leaf is zero and the root with it when the     *)
(* leaf is the entry's, for every slot of the board.                       *)
SamePathBothRoots ==
    \A k \in 0 .. Len(entries) - 1 :
        LET path == append_proof_for(Prefix(k + 1))
        IN  /\ compute_root_from_path(ZeroLeaf, k, path) = merkle_root_of(Prefix(k))
            /\ compute_root_from_path(merkle_leaf(k, Entry(k)), k, path)
                   = merkle_root_of(Prefix(k + 1))

(* The anchor a spend committed to stays the root of the board as it was   *)
(* before the spend's own entry, whatever is posted since; this is what    *)
(* main asserts when the proof comes back (pv.board_root).                 *)
AnchorIsPriorRoot ==
    anchor # NoAnchor => anchor.board_root = merkle_root_of(Prefix(anchor.slot))

(* The path a spend was proved with is the inclusion proof of the entry    *)
(* that lands in its slot, and it opens to the current root exactly while  *)
(* that entry is the newest one.                                           *)
AnchorPathOpensOwnSlot ==
    (anchor # NoAnchor /\ anchor.slot < Len(entries)) =>
        /\ anchor.path = append_proof_for(Prefix(anchor.slot + 1))
        /\ merkle_verify(merkle_root_of(entries), anchor.slot, Entry(anchor.slot), anchor.path)
               <=> Len(entries) = anchor.slot + 1

(* An inclusion proof for any slot of the board opens the current root to  *)
(* the entry that was posted there, and to no other ciphertext at any      *)
(* slot: entries cannot be permuted or replaced under a root.              *)
InclusionExact ==
    LET root == merkle_root_of(entries)
    IN  \A k \in 0 .. Len(entries) - 1 :
            LET proof == merkle_path_for_index(LeafHashes(entries), k)
            IN  /\ merkle_verify(root, k, Entry(k), proof)
                /\ \A j \in 0 .. Capacity - 1, e \in BoardEntry :
                       merkle_verify(root, j, e, proof)
                           => j < Len(entries) /\ e.ciphertext = Entry(j).ciphertext

(* What the comment on merkle_verify says: an entry that verifies at slot  *)
(* k is the genuine content of slot k.  The leaf hashes the ciphertext     *)
(* only, so the public nullifier field of the entry is not covered.        *)
OnlyGenuineEntry ==
    \A k \in 0 .. Len(entries) - 1, e \in BoardEntry :
        merkle_verify(merkle_root_of(entries), k, e, merkle_path_for_index(LeafHashes(entries), k))
            => e = Entry(k)
=============================================================================
