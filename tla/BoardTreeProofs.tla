-------------------------- MODULE BoardTreeProofs --------------------------
(***************************************************************************)
(* Theorems about the board's tree, for every depth, every set of entries  *)
(* and every board that fits: the levels merkle_path_for_index collapses   *)
(* are those of the full tree.                                             *)
(***************************************************************************)
EXTENDS BoardTree, TreeProofs

(* Every prefix of the board is a board that fits.                         *)
LEMMA PrefixFacts ==
    ASSUME TypeOK, NEW n \in 0 .. Len(entries)
    PROVE  /\ SubSeq(entries, 1, n) \in Seq(BoardEntry)
           /\ Len(SubSeq(entries, 1, n)) = n
           /\ n <= Capacity
BY CapacityIsNat DEF TypeOK

-----------------------------------------------------------------------------
(* TypeOK: the board holds entries and fits the tree, and an anchor is a   *)
(* slot, a root and a full path (main's entries, check_spend's anchor).    *)
THEOREM TypeCorrect == Spec => []TypeOK
<1>1. Init => TypeOK
  BY CapacityIsNat DEF Init, TypeOK, NoAnchor
<1>2. TypeOK /\ [Next]_vars => TypeOK'
  <2> SUFFICES ASSUME TypeOK, [Next]_vars PROVE TypeOK'
    OBVIOUS
  <2>1. CASE AnchorSpend
    <3>1. Len(append_path_for_next(entries)) = TREE_DEPTH
      BY TreeDepthAssumption DEF append_path_for_next, merkle_path_for_index
    <3> QED BY <2>1, <3>1 DEF TypeOK, AnchorSpend
  <2>2. ASSUME NEW e \in BoardEntry, Push(e) PROVE TypeOK'
    BY <2>2, CapacityIsNat DEF TypeOK, Push
  <2>3. CASE UNCHANGED vars
    BY <2>3 DEF TypeOK, vars
  <2> QED BY <2>1, <2>2, <2>3 DEF Next
<1> QED BY <1>1, <1>2, PTL DEF Spec

(* RootIsFullTree: merkle_root_of computes the root of the tree over all   *)
(* slots from one path, for every depth and every length of the board.     *)
THEOREM RootExact == Spec => []RootIsFullTree
<1>1. TypeOK => RootIsFullTree
  BY RootOfBoard DEF TypeOK, RootIsFullTree
<1> QED BY <1>1, TypeCorrect, PTL

(* SamePathBothRoots: the path append_proof_for returns turns the zero     *)
(* leaf into the root before the entry and the entry's leaf into the root  *)
(* after it.                                                               *)
THEOREM OnePathBothRoots == Spec => []SamePathBothRoots
<1>1. TypeOK => SamePathBothRoots
  <2> SUFFICES ASSUME TypeOK, NEW k \in 0 .. Len(entries) - 1
               PROVE  /\ compute_root_from_path(ZeroLeaf, k, append_proof_for(Prefix(k + 1)))
                             = merkle_root_of(Prefix(k))
                      /\ compute_root_from_path(merkle_leaf(k, Entry(k)), k, append_proof_for(Prefix(k + 1)))
                             = merkle_root_of(Prefix(k + 1))
    BY DEF SamePathBothRoots
  <2> DEFINE with == LeafOf(SubSeq(entries, 1, k + 1))
             without == LeafOf(SubSeq(entries, 1, k))
  <2>1. k \in Nat /\ k < Capacity
    BY CapacityIsNat DEF TypeOK
  <2>2. /\ append_proof_for(Prefix(k + 1)) = PathOf(with, k)
        /\ \A i \in Nat \ {k} : with[i] = without[i]
        /\ with[k] = merkle_leaf(k, Entry(k))
        /\ without[k] = ZeroLeaf
    BY AppendPaths DEF TypeOK, Prefix, Entry
  <2>3. merkle_root_of(Prefix(k)) = FullTreeRoot(without)
    <3>1. k \in 0 .. Len(entries)
      OBVIOUS
    <3> QED BY <3>1, PrefixFacts, RootOfBoard DEF Prefix
  <2>4. merkle_root_of(Prefix(k + 1)) = FullTreeRoot(with)
    <3>1. k + 1 \in 0 .. Len(entries)
      BY DEF TypeOK
    <3> QED BY <3>1, PrefixFacts, RootOfBoard DEF Prefix
  <2> HIDE DEF with, without
  <2>5. compute_root_from_path(without[k], k, PathOf(with, k)) = FullTreeRoot(without)
    BY <2>1, <2>2, PathOpens
  <2>6. compute_root_from_path(with[k], k, PathOf(with, k)) = FullTreeRoot(with)
    BY <2>1, PathOpens
  <2> QED BY <2>2, <2>3, <2>4, <2>5, <2>6
<1> QED BY <1>1, TypeCorrect, PTL

(* Whatever merkle_verify accepts for a slot under a board's root hashes   *)
(* to the leaf the board has there.                                        *)
LEMMA VerifiedLeaf ==
    ASSUME NEW es \in Seq(BoardEntry), Len(es) <= Capacity,
           NEW slot \in 0 .. Capacity - 1, NEW e, NEW path, FullLength(path),
           merkle_verify(merkle_root_of(es), slot, e, path)
    PROVE  merkle_leaf(slot, e) = LeafOf(es)[slot]
<1>1. slot \in Nat /\ slot < Capacity
  BY CapacityIsNat
<1>2. compute_root_from_path(merkle_leaf(slot, e), slot, path) = FullTreeRoot(LeafOf(es))
  BY RootOfBoard DEF merkle_verify
<1> QED BY <1>1, <1>2, RootBindsLeaf

(* InclusionExact: merkle_verify accepts the path merkle_path_for_index    *)
(* makes for a slot, and whatever else it accepts at any slot with any     *)
(* kept path has the ciphertext that was posted there.                     *)
THEOREM InclusionIsExact == Spec => []InclusionExact
<1>1. TypeOK => InclusionExact
  <2> SUFFICES ASSUME TypeOK, NEW k \in 0 .. Len(entries) - 1
               PROVE  LET board_root == merkle_root_of(entries)
                          proof == merkle_path_for_index(LeafHashes(entries), k)
                      IN  /\ merkle_verify(board_root, k, Entry(k), proof)
                          /\ \A j \in 0 .. Capacity - 1, e \in BoardEntry :
                                 merkle_verify(board_root, j, e, proof)
                                     => j < Len(entries) /\ e.ciphertext = Entry(j).ciphertext
    BY DEF InclusionExact
  <2> DEFINE proof == merkle_path_for_index(LeafHashes(entries), k)
             board_root == merkle_root_of(entries)
             f == LeafOf(entries)
  <2>1. k \in Nat /\ k < Capacity /\ f[k] = merkle_leaf(k, Entry(k))
    BY CapacityIsNat DEF TypeOK, LeafOf, Entry
  <2>2. board_root = FullTreeRoot(f) /\ proof = PathOf(f, k)
    BY <2>1, RootOfBoard, PathIsSiblings DEF TypeOK
  <2>3. FullLength(proof)
    BY <2>2, TreeDepthAssumption DEF FullLength, PathOf
  <2>4. merkle_verify(board_root, k, Entry(k), proof)
    <3> HIDE DEF f, board_root, proof
    <3> QED BY <2>1, <2>2, PathOpens DEF merkle_verify
  <2>5. ASSUME NEW j \in 0 .. Capacity - 1, NEW e \in BoardEntry, merkle_verify(board_root, j, e, proof)
        PROVE  j < Len(entries) /\ e.ciphertext = Entry(j).ciphertext
    <3>1. j \in Nat /\ j < Capacity
      BY CapacityIsNat
    <3>2. merkle_leaf(j, e) = f[j]
      BY <2>3, <2>5, VerifiedLeaf DEF TypeOK
    <3>3. f[j] = IF j < Len(entries) THEN merkle_leaf(j, Entry(j)) ELSE ZeroLeaf
      BY <3>1 DEF LeafOf, Entry
    <3> HIDE DEF f
    <3>4. j < Len(entries)
      BY <3>2, <3>3, LeafIsNotZero
    <3> QED BY <3>2, <3>3, <3>4 DEF merkle_leaf
  <2> QED BY <2>4, <2>5
<1> QED BY <1>1, TypeCorrect, PTL

-----------------------------------------------------------------------------
(* An anchor was taken at a slot the board had reached, on the entries     *)
(* before it, and these never change.                                      *)
AnchorFromPrefix ==
    anchor # NoAnchor =>
        /\ anchor.slot \in 0 .. Len(entries)
        /\ anchor.slot < Capacity
        /\ anchor.path = append_path_for_next(Prefix(anchor.slot))
        /\ anchor.board_root = compute_root_from_path(ZeroLeaf, anchor.slot, anchor.path)

(* TypeOK and AnchorFromPrefix hold in every reachable state: entries.push *)
(* touches no earlier slot.                                                *)
LEMMA AnchorInvariant == Spec => [](TypeOK /\ AnchorFromPrefix)
<1>1. Init => AnchorFromPrefix
  BY DEF Init, AnchorFromPrefix
<1>2. TypeOK /\ AnchorFromPrefix /\ [Next]_vars => AnchorFromPrefix'
  <2> SUFFICES ASSUME TypeOK, AnchorFromPrefix, [Next]_vars PROVE AnchorFromPrefix'
    OBVIOUS
  <2>1. CASE AnchorSpend
    <3>1. SubSeq(entries, 1, Len(entries)) = entries /\ Len(entries) \in Nat
      BY DEF TypeOK
    <3> DEFINE path == append_path_for_next(entries)
    <3>2. /\ anchor'.slot = Len(entries) /\ anchor'.path = path
          /\ anchor'.board_root = compute_root_from_path(ZeroLeaf, Len(entries), path)
          /\ Len(entries) < Capacity
          /\ entries' = entries
      BY <2>1 DEF AnchorSpend
    <3>3. Prefix(anchor.slot)' = entries
      BY <3>1, <3>2 DEF Prefix
    <3> HIDE DEF path
    <3>4. anchor'.path = append_path_for_next(Prefix(anchor.slot)')
      BY <3>2, <3>3 DEF path
    <3> QED BY <3>1, <3>2, <3>4 DEF AnchorFromPrefix
  <2>2. ASSUME NEW e \in BoardEntry, Push(e) PROVE AnchorFromPrefix'
    <3>1. Len(entries') = Len(entries) + 1 /\ Len(entries) \in Nat
      BY <2>2 DEF Push, TypeOK
    <3>2. \A n \in 0 .. Len(entries) : SubSeq(entries', 1, n) = SubSeq(entries, 1, n)
      BY <2>2 DEF Push, TypeOK
    <3>3. UNCHANGED anchor
      BY <2>2 DEF Push
    <3>4. SUFFICES ASSUME anchor # NoAnchor
                   PROVE  /\ anchor.slot \in 0 .. Len(entries')
                          /\ anchor.slot < Capacity
                          /\ anchor.path = append_path_for_next(SubSeq(entries', 1, anchor.slot))
                          /\ anchor.board_root = compute_root_from_path(ZeroLeaf, anchor.slot, anchor.path)
      BY <3>3 DEF AnchorFromPrefix, Prefix
    <3>5. /\ anchor.slot \in 0 .. Len(entries)
          /\ anchor.slot < Capacity
          /\ anchor.path = append_path_for_next(SubSeq(entries, 1, anchor.slot))
          /\ anchor.board_root = compute_root_from_path(ZeroLeaf, anchor.slot, anchor.path)
      BY <3>4 DEF AnchorFromPrefix, Prefix
    <3>6. SubSeq(entries', 1, anchor.slot) = SubSeq(entries, 1, anchor.slot)
      BY <3>2, <3>5
    <3>7. anchor.slot \in 0 .. Len(entries')
      BY <3>1, <3>5
    <3> QED BY <3>5, <3>6, <3>7
  <2>3. CASE UNCHANGED vars
    BY <2>3 DEF vars, AnchorFromPrefix, Prefix
  <2> QED BY <2>1, <2>2, <2>3 DEF Next
<1> QED BY <1>1, <1>2, TypeCorrect, PTL DEF Spec

(* The anchor's path is that of its slot in the tree over the entries      *)
(* before it (append_path_for_next).                                       *)
LEMMA AnchorPath ==
    ASSUME TypeOK, AnchorFromPrefix, anchor # NoAnchor
    PROVE  /\ anchor.slot \in Nat /\ anchor.slot < Capacity /\ anchor.slot <= Len(entries)
           /\ Prefix(anchor.slot) \in Seq(BoardEntry)
           /\ Len(Prefix(anchor.slot)) = anchor.slot
           /\ anchor.path = PathOf(LeafOf(Prefix(anchor.slot)), anchor.slot)
           /\ LeafOf(Prefix(anchor.slot))[anchor.slot] = ZeroLeaf
<1>1. anchor.slot \in Nat /\ anchor.slot < Capacity /\ anchor.slot <= Len(entries)
  BY DEF AnchorFromPrefix, TypeOK
<1>2. Prefix(anchor.slot) \in Seq(BoardEntry) /\ Len(Prefix(anchor.slot)) = anchor.slot
  BY <1>1 DEF TypeOK, Prefix
<1>3. anchor.path = PathOf(LeafOf(Prefix(anchor.slot)), anchor.slot)
  BY <1>1, <1>2, PathIsSiblings DEF AnchorFromPrefix, append_path_for_next
<1>4. LeafOf(Prefix(anchor.slot))[anchor.slot] = ZeroLeaf
  BY <1>1, <1>2 DEF LeafOf
<1> QED BY <1>1, <1>2, <1>3, <1>4

(* AnchorIsPriorRoot: the root check_spend computes from the zero leaf is  *)
(* that of the board before the spend's own entry, and stays so however    *)
(* long the proof takes and whatever is pushed meanwhile.                  *)
THEOREM AnchorHolds == Spec => []AnchorIsPriorRoot
<1>1. TypeOK /\ AnchorFromPrefix => AnchorIsPriorRoot
  <2> SUFFICES ASSUME TypeOK, AnchorFromPrefix, anchor # NoAnchor
               PROVE  anchor.board_root = merkle_root_of(Prefix(anchor.slot))
    BY DEF AnchorIsPriorRoot
  <2> DEFINE f == LeafOf(Prefix(anchor.slot))
             k == anchor.slot
  <2>1. k \in Nat /\ k < Capacity /\ anchor.path = PathOf(f, k) /\ f[k] = ZeroLeaf
    BY AnchorPath
  <2>2. merkle_root_of(Prefix(k)) = FullTreeRoot(f)
    BY AnchorPath, RootOfBoard, CapacityIsNat
  <2>3. anchor.board_root = compute_root_from_path(ZeroLeaf, k, anchor.path)
    BY DEF AnchorFromPrefix
  <2> HIDE DEF f, k
  <2>4. compute_root_from_path(f[k], k, PathOf(f, k)) = FullTreeRoot(f)
    BY <2>1, PathOpens
  <2>5. anchor.board_root = merkle_root_of(Prefix(k))
    BY <2>1, <2>2, <2>3, <2>4
  <2> QED BY <2>5 DEF k
<1> QED BY <1>1, AnchorInvariant, PTL

(* AnchorPathOpensOwnSlot: an anchored path is the inclusion proof of the  *)
(* entry that lands in its slot, good for the current root exactly while   *)
(* that entry is the newest.                                               *)
THEOREM AnchorPathOpensOwn == Spec => []AnchorPathOpensOwnSlot
<1>1. TypeOK /\ AnchorFromPrefix => AnchorPathOpensOwnSlot
  <2> DEFINE k == anchor.slot
             with == LeafOf(SubSeq(entries, 1, k + 1))
             without == LeafOf(SubSeq(entries, 1, k))
             f == LeafOf(entries)
  <2> SUFFICES ASSUME TypeOK, AnchorFromPrefix, anchor # NoAnchor, k < Len(entries)
               PROVE  /\ anchor.path = append_proof_for(Prefix(k + 1))
                      /\ merkle_verify(merkle_root_of(entries), k, Entry(k), anchor.path)
                             <=> Len(entries) = k + 1
    BY DEF AnchorPathOpensOwnSlot
  <2>1. k \in Nat /\ k < Capacity /\ k \in 0 .. Len(entries) - 1 /\ Len(entries) \in Nat
    BY AnchorPath DEF TypeOK
  <2>2. anchor.path = PathOf(without, k)
    BY AnchorPath DEF Prefix
  <2>3. /\ append_proof_for(SubSeq(entries, 1, k + 1)) = PathOf(with, k)
        /\ \A i \in Nat \ {k} : with[i] = without[i]
        /\ with[k] = merkle_leaf(k, entries[k + 1])
    BY <2>1, AppendPaths DEF TypeOK
  <2>4. merkle_root_of(entries) = FullTreeRoot(f)
    BY RootOfBoard DEF TypeOK
  <2>5. PathOf(with, k) = PathOf(without, k)
    <3> HIDE DEF with, without, k
    <3> QED BY <2>1, <2>3, SiblingsUnchanged
  <2>6. compute_root_from_path(with[k], k, PathOf(with, k)) = FullTreeRoot(with)
    <3> HIDE DEF with, k
    <3> QED BY <2>1, PathOpens
  <2>7. compute_root_from_path(merkle_leaf(k, Entry(k)), k, anchor.path) = FullTreeRoot(with)
    <3> HIDE DEF with, without
    <3> QED BY <2>2, <2>3, <2>5, <2>6 DEF Entry
  <2>8. ASSUME Len(entries) = k + 1 PROVE FullTreeRoot(with) = FullTreeRoot(f)
    <3>1. SubSeq(entries, 1, k + 1) = entries
      BY <2>1, <2>8 DEF TypeOK
    <3> QED BY <3>1
  <2>9. ASSUME FullTreeRoot(with) = FullTreeRoot(f), Len(entries) # k + 1 PROVE FALSE
    <3>1. k + 1 \in 0 .. Capacity - 1 /\ k + 1 \in Nat /\ k + 1 < Len(entries)
      BY <2>1, <2>9, CapacityIsNat DEF TypeOK
    <3>2. f[k + 1] = merkle_leaf(k + 1, entries[(k + 1) + 1])
      BY <3>1 DEF LeafOf
    <3>3. Len(SubSeq(entries, 1, k + 1)) = k + 1
      BY <2>1 DEF TypeOK
    <3>4. with[k + 1] = ZeroLeaf
      BY <3>1, <3>3 DEF LeafOf
    <3>5. with[k + 1] = f[k + 1]
      <4> HIDE DEF with, f, k
      <4> QED BY <2>9, <3>1, RootDeterminesLeaves
    <3> QED BY <3>2, <3>4, <3>5, LeafIsNotZero
  <2> HIDE DEF with, without, f
  <2>10. merkle_verify(merkle_root_of(entries), k, Entry(k), anchor.path) <=> Len(entries) = k + 1
    BY <2>4, <2>7, <2>8, <2>9 DEF merkle_verify
  <2> QED BY <2>2, <2>3, <2>5, <2>10 DEF Prefix
<1> QED BY <1>1, AnchorInvariant, PTL
=============================================================================
