----------------------------- MODULE TreeProofs -----------------------------
(***************************************************************************)
(* Facts about the trees of Merkle.tla, BoardPaths.tla and IndexedTree.tla *)
(* for every depth, board and range of nullifiers; the theorems about the  *)
(* board, the accumulator and the driver rest on them.  What a recursive   *)
(* function computes is shown by induction over the depth, on the set of   *)
(* the depths for which it is right; the wrapped hash is a free            *)
(* constructor, hence injective.                                           *)
(***************************************************************************)
EXTENDS BoardPaths, IndexedTree, SumProofs

(* A table of powers of two exists up to any depth.                        *)
LEMMA PowerExists ==
    \E g : g = [d \in 0 .. TREE_DEPTH |-> IF d = 0 THEN 1 ELSE 2 * g[d - 1]]
<1> DEFINE S == {m \in Nat : \E g : g = [d \in 0 .. m |-> IF d = 0 THEN 1 ELSE 2 * g[d - 1]]}
<1>1. 0 \in S
  <2> DEFINE g == [d \in 0 .. 0 |-> 1]
  <2>1. g = [d \in 0 .. 0 |-> IF d = 0 THEN 1 ELSE 2 * g[d - 1]]
    OBVIOUS
  <2> HIDE DEF g
  <2> QED BY <2>1
<1>2. ASSUME NEW m \in Nat, m \in S PROVE m + 1 \in S
  <2>1. PICK g : g = [d \in 0 .. m |-> IF d = 0 THEN 1 ELSE 2 * g[d - 1]]
    BY <1>2
  <2> DEFINE h == [d \in 0 .. m + 1 |-> IF d <= m THEN g[d] ELSE 2 * g[m]]
  <2>2. h = [d \in 0 .. m + 1 |-> IF d = 0 THEN 1 ELSE 2 * h[d - 1]]
    BY <2>1
  <2>3. m + 1 \in Nat
    OBVIOUS
  <2> HIDE DEF h
  <2> QED BY <2>2, <2>3
<1> HIDE DEF S
<1>3. Nat \subseteq S
  BY <1>1, <1>2, NatSetInduction
<1>4. TREE_DEPTH \in S
  BY <1>3, TreeDepthAssumption
<1> QED BY <1>4 DEF S

(* The recursive table of powers (1 << TREE_DEPTH) equals its body.        *)
LEMMA PowerOf2Unfolds ==
    PowerOf2 = [d \in 0 .. TREE_DEPTH |-> IF d = 0 THEN 1 ELSE 2 * PowerOf2[d - 1]]
BY PowerExists, Zenon DEF PowerOf2

(* Each power is twice the one before it, from 1, and a positive natural.  *)
LEMMA PowerOf2Facts ==
    /\ PowerOf2[0] = 1
    /\ \A d \in 1 .. TREE_DEPTH : PowerOf2[d] = 2 * PowerOf2[d - 1]
    /\ \A d \in 0 .. TREE_DEPTH : PowerOf2[d] \in Nat \ {0}
<1>1. PowerOf2[0] = 1 /\ \A d \in 1 .. TREE_DEPTH : PowerOf2[d] = 2 * PowerOf2[d - 1]
  <2>1. \A d \in 0 .. TREE_DEPTH : PowerOf2[d] = IF d = 0 THEN 1 ELSE 2 * PowerOf2[d - 1]
    BY PowerOf2Unfolds
  <2> QED BY <2>1, TreeDepthAssumption
<1> DEFINE S == {m \in Nat : m <= TREE_DEPTH => PowerOf2[m] \in Nat \ {0}}
<1>2. 0 \in S
  BY <1>1
<1>3. ASSUME NEW m \in Nat, m \in S PROVE m + 1 \in S
  <2>1. SUFFICES ASSUME m + 1 <= TREE_DEPTH PROVE PowerOf2[m + 1] \in Nat \ {0}
    OBVIOUS
  <2>2. PowerOf2[m + 1] = 2 * PowerOf2[m]
    BY <1>1, <2>1, TreeDepthAssumption
  <2> QED BY <1>3, <2>1, <2>2, TreeDepthAssumption
<1> HIDE DEF S
<1>4. Nat \subseteq S
  BY <1>2, <1>3, NatSetInduction
<1> QED BY <1>1, <1>4, TreeDepthAssumption DEF S

(* Halving a quotient is dividing by twice as much: idx >>= 1 once more.   *)
LEMMA DivisionTwice ==
    ASSUME NEW a \in Nat, NEW b \in Nat \ {0}
    PROVE  /\ (a \div b) \div 2 = a \div (2 * b)
           /\ a \div b \in Nat
           /\ a < b => a \div b = 0
OBVIOUS

(* The ancestors of a leaf (idx >>= 1, level after level): each the half   *)
(* of the one below, and the last the root when the leaf is one of the     *)
(* tree.                                                                   *)
LEMMA AncestorFacts ==
    ASSUME NEW idx \in Nat
    PROVE  /\ Ancestor(idx, 0) = idx
           /\ \A d \in 0 .. TREE_DEPTH : Ancestor(idx, d) \in Nat
           /\ \A d \in 1 .. TREE_DEPTH : Ancestor(idx, d) = Ancestor(idx, d - 1) \div 2
           /\ idx < Capacity => Ancestor(idx, TREE_DEPTH) = 0
<1>1. Ancestor(idx, 0) = idx
  BY PowerOf2Facts DEF Ancestor
<1>2. ASSUME NEW d \in 0 .. TREE_DEPTH PROVE Ancestor(idx, d) \in Nat
  BY PowerOf2Facts, DivisionTwice DEF Ancestor
<1>3. ASSUME NEW d \in 1 .. TREE_DEPTH PROVE Ancestor(idx, d) = Ancestor(idx, d - 1) \div 2
  <2>1. d - 1 \in 0 .. TREE_DEPTH
    BY TreeDepthAssumption
  <2>2. PowerOf2[d - 1] \in Nat \ {0} /\ PowerOf2[d] = 2 * PowerOf2[d - 1]
    BY <2>1, PowerOf2Facts
  <2> QED BY <2>2, DivisionTwice DEF Ancestor
<1>4. ASSUME idx < Capacity PROVE Ancestor(idx, TREE_DEPTH) = 0
  <2>1. PowerOf2[TREE_DEPTH] \in Nat \ {0} /\ idx < PowerOf2[TREE_DEPTH]
    BY <1>4, PowerOf2Facts, TreeDepthAssumption DEF Capacity
  <2> QED BY <2>1, DivisionTwice DEF Ancestor
<1> QED BY <1>1, <1>2, <1>3, <1>4

(* idx ^ 1 is the other child of the same parent.                          *)
LEMMA SiblingFacts ==
    ASSUME NEW i \in Nat
    PROVE  /\ i \div 2 \in Nat
           /\ SiblingIndex(i) \in Nat
           /\ SiblingIndex(i) # i
           /\ SiblingIndex(i) \div 2 = i \div 2
           /\ i % 2 = 0 => i = 2 * (i \div 2) /\ SiblingIndex(i) = 2 * (i \div 2) + 1
           /\ i % 2 # 0 => i = 2 * (i \div 2) + 1 /\ SiblingIndex(i) = 2 * (i \div 2)
BY DEF SiblingIndex

(* merkle_combine is injective.                                            *)
LEMMA CombineInjective ==
    ASSUME NEW l1, NEW r1, NEW l2, NEW r2, merkle_combine(l1, r1) = merkle_combine(l2, r2)
    PROVE  l1 = l2 /\ r1 = r2
BY DEF merkle_combine

-----------------------------------------------------------------------------
(* A table of zero hashes exists up to any depth.                          *)
LEMMA ZeroHashesExist ==
    \E g : g = [d \in 0 .. TREE_DEPTH |-> IF d = 0 THEN ZeroLeaf ELSE merkle_combine(g[d - 1], g[d - 1])]
<1> DEFINE S == {m \in Nat : \E g : g = [d \in 0 .. m |-> IF d = 0 THEN ZeroLeaf
                                                          ELSE merkle_combine(g[d - 1], g[d - 1])]}
<1>1. 0 \in S
  <2> DEFINE g == [d \in 0 .. 0 |-> ZeroLeaf]
  <2>1. g = [d \in 0 .. 0 |-> IF d = 0 THEN ZeroLeaf ELSE merkle_combine(g[d - 1], g[d - 1])]
    OBVIOUS
  <2> HIDE DEF g
  <2> QED BY <2>1
<1>2. ASSUME NEW m \in Nat, m \in S PROVE m + 1 \in S
  <2>1. PICK g : g = [d \in 0 .. m |-> IF d = 0 THEN ZeroLeaf ELSE merkle_combine(g[d - 1], g[d - 1])]
    BY <1>2
  <2> DEFINE h == [d \in 0 .. m + 1 |-> IF d <= m THEN g[d] ELSE merkle_combine(g[m], g[m])]
  <2>2. h = [d \in 0 .. m + 1 |-> IF d = 0 THEN ZeroLeaf ELSE merkle_combine(h[d - 1], h[d - 1])]
    BY <2>1
  <2>3. m + 1 \in Nat
    OBVIOUS
  <2> HIDE DEF h
  <2> QED BY <2>2, <2>3
<1> HIDE DEF S
<1>3. Nat \subseteq S
  BY <1>1, <1>2, NatSetInduction
<1>4. TREE_DEPTH \in S
  BY <1>3, TreeDepthAssumption
<1> QED BY <1>4 DEF S

(* zero_hashes: the zero leaf, then each level the combination of the one  *)
(* below with itself.                                                      *)
LEMMA ZeroHashesFacts ==
    /\ zero_hashes[0] = ZeroLeaf
    /\ \A d \in 1 .. TREE_DEPTH : zero_hashes[d] = merkle_combine(zero_hashes[d - 1], zero_hashes[d - 1])
<1>1. zero_hashes = [d \in 0 .. TREE_DEPTH |-> IF d = 0 THEN ZeroLeaf
                                              ELSE merkle_combine(zero_hashes[d - 1], zero_hashes[d - 1])]
  BY ZeroHashesExist, Zenon DEF zero_hashes
<1>2. \A d \in 0 .. TREE_DEPTH : zero_hashes[d] = IF d = 0 THEN ZeroLeaf
                                              ELSE merkle_combine(zero_hashes[d - 1], zero_hashes[d - 1])
  BY <1>1
<1> QED BY <1>2, TreeDepthAssumption

(* compute_root_from_path visits the leaf, then at each level the          *)
(* combination of the node below with the path's sibling.                  *)
LEMMA NodesOnPathFacts ==
    ASSUME NEW leaf, NEW slot, NEW path, Len(path) \in Nat
    PROVE  /\ NodesOnPath(leaf, slot, path)[0] = leaf
           /\ \A d \in 1 .. Len(path) :
                  NodesOnPath(leaf, slot, path)[d] =
                      CombineWithSibling(Ancestor(slot, d - 1), NodesOnPath(leaf, slot, path)[d - 1], path[d])
<1> DEFINE S == {m \in Nat : \E g : g = [d \in 0 .. m |->
                    IF d = 0 THEN leaf
                    ELSE CombineWithSibling(Ancestor(slot, d - 1), g[d - 1], path[d])]}
<1>1. 0 \in S
  <2> DEFINE g == [d \in 0 .. 0 |-> leaf]
  <2>1. g = [d \in 0 .. 0 |-> IF d = 0 THEN leaf
                               ELSE CombineWithSibling(Ancestor(slot, d - 1), g[d - 1], path[d])]
    OBVIOUS
  <2> HIDE DEF g
  <2> QED BY <2>1
<1>2. ASSUME NEW m \in Nat, m \in S PROVE m + 1 \in S
  <2>1. PICK g : g = [d \in 0 .. m |->
                        IF d = 0 THEN leaf
                        ELSE CombineWithSibling(Ancestor(slot, d - 1), g[d - 1], path[d])]
    BY <1>2
  <2> DEFINE h == [d \in 0 .. m + 1 |->
                      IF d <= m THEN g[d] ELSE CombineWithSibling(Ancestor(slot, m), g[m], path[m + 1])]
  <2>2. h = [d \in 0 .. m + 1 |->
                IF d = 0 THEN leaf
                ELSE CombineWithSibling(Ancestor(slot, d - 1), h[d - 1], path[d])]
    BY <2>1
  <2>3. m + 1 \in Nat
    OBVIOUS
  <2> HIDE DEF h
  <2> QED BY <2>2, <2>3
<1> HIDE DEF S
<1>3. Nat \subseteq S
  BY <1>1, <1>2, NatSetInduction
<1>4. Len(path) \in S
  BY <1>3
<1>5. \E g : g = [d \in 0 .. Len(path) |-> IF d = 0 THEN leaf
                                    ELSE CombineWithSibling(Ancestor(slot, d - 1), g[d - 1], path[d])]
  BY <1>4 DEF S
<1> DEFINE N == NodesOnPath(leaf, slot, path)
<1>6. N = [d \in 0 .. Len(path) |-> IF d = 0 THEN leaf
                                    ELSE CombineWithSibling(Ancestor(slot, d - 1), N[d - 1], path[d])]
  BY <1>5, Zenon DEF NodesOnPath
<1> HIDE DEF N
<1>7. \A d \in 0 .. Len(path) : N[d] = IF d = 0 THEN leaf
                                    ELSE CombineWithSibling(Ancestor(slot, d - 1), N[d - 1], path[d])
  BY <1>6
<1>8. N[0] = leaf /\ \A d \in 1 .. Len(path) :
          N[d] = CombineWithSibling(Ancestor(slot, d - 1), N[d - 1], path[d])
  BY <1>7
<1> QED BY <1>8 DEF N

(* The levels of a full tree exist up to any depth.                        *)
LEMMA FullTreeExists ==
    ASSUME NEW leaf
    PROVE  \E g : g = [d \in 0 .. TREE_DEPTH |-> IF d = 0 THEN leaf ELSE LevelAbove(g[d - 1])]
<1> DEFINE S == {m \in Nat : \E g : g = [d \in 0 .. m |-> IF d = 0 THEN leaf ELSE LevelAbove(g[d - 1])]}
<1>1. 0 \in S
  <2> DEFINE g == [d \in 0 .. 0 |-> leaf]
  <2>1. g = [d \in 0 .. 0 |-> IF d = 0 THEN leaf ELSE LevelAbove(g[d - 1])]
    OBVIOUS
  <2> HIDE DEF g
  <2> QED BY <2>1
<1>2. ASSUME NEW m \in Nat, m \in S PROVE m + 1 \in S
  <2>1. PICK g : g = [d \in 0 .. m |-> IF d = 0 THEN leaf ELSE LevelAbove(g[d - 1])]
    BY <1>2
  <2> DEFINE h == [d \in 0 .. m + 1 |-> IF d <= m THEN g[d] ELSE LevelAbove(g[m])]
  <2>2. h = [d \in 0 .. m + 1 |-> IF d = 0 THEN leaf ELSE LevelAbove(h[d - 1])]
    BY <2>1
  <2>3. m + 1 \in Nat
    OBVIOUS
  <2> HIDE DEF h
  <2> QED BY <2>2, <2>3
<1> HIDE DEF S
<1>3. Nat \subseteq S
  BY <1>1, <1>2, NatSetInduction
<1>4. TREE_DEPTH \in S
  BY <1>3, TreeDepthAssumption
<1> QED BY <1>4 DEF S

(* A node of the full tree is the combination of its two children.         *)
LEMMA FullTreeFacts ==
    ASSUME NEW leaf
    PROVE  /\ FullTree(leaf)[0] = leaf
           /\ \A d \in 1 .. TREE_DEPTH, i \in Nat :
                  FullTree(leaf)[d][i] = merkle_combine(FullTree(leaf)[d - 1][2 * i],
                                                        FullTree(leaf)[d - 1][2 * i + 1])
<1> DEFINE T == FullTree(leaf)
<1>1. T = [d \in 0 .. TREE_DEPTH |-> IF d = 0 THEN leaf ELSE LevelAbove(T[d - 1])]
  BY FullTreeExists, Zenon DEF FullTree
<1> HIDE DEF T
<1>2. T[0] = leaf
  BY <1>1, TreeDepthAssumption
<1>3. ASSUME NEW d \in 1 .. TREE_DEPTH, NEW i \in Nat
      PROVE  T[d][i] = merkle_combine(T[d - 1][2 * i], T[d - 1][2 * i + 1])
  <2>1. T[d] = LevelAbove(T[d - 1])
    BY <1>1, TreeDepthAssumption
  <2> QED BY <2>1 DEF LevelAbove
<1> QED BY <1>2, <1>3 DEF T

-----------------------------------------------------------------------------
(* The siblings of a leaf's ancestors in the full tree: its path.          *)
PathOf(leaf, slot) ==
    [d \in 1 .. TREE_DEPTH |-> FullTree(leaf)[d - 1][SiblingIndex(Ancestor(slot, d - 1))]]

(* A node of the full tree is its child combined with that child's         *)
(* sibling, left or right by the parity of the index                       *)
(* (compute_root_from_path).                                               *)
LEMMA CombineClimbs ==
    ASSUME NEW leaf, NEW d \in 1 .. TREE_DEPTH, NEW i \in Nat
    PROVE  CombineWithSibling(i, FullTree(leaf)[d - 1][i], FullTree(leaf)[d - 1][SiblingIndex(i)])
               = FullTree(leaf)[d][i \div 2]
<1> DEFINE T == FullTree(leaf)
<1>1. T[d][i \div 2] = merkle_combine(T[d - 1][2 * (i \div 2)], T[d - 1][2 * (i \div 2) + 1])
  <2>1. i \div 2 \in Nat
    BY SiblingFacts
  <2> QED BY <2>1, FullTreeFacts
<1> DEFINE h == i \div 2
<1>2. /\ i % 2 = 0 => i = 2 * h /\ SiblingIndex(i) = 2 * h + 1
      /\ i % 2 # 0 => i = 2 * h + 1 /\ SiblingIndex(i) = 2 * h
  BY SiblingFacts
<1> HIDE DEF T, h
<1>3. CombineWithSibling(i, T[d - 1][i], T[d - 1][SiblingIndex(i)])
          = merkle_combine(T[d - 1][2 * h], T[d - 1][2 * h + 1])
  <2>1. CASE i % 2 = 0
    BY <1>2, <2>1 DEF CombineWithSibling
  <2>2. CASE i % 2 # 0
    BY <1>2, <2>2 DEF CombineWithSibling
  <2> QED BY <2>1, <2>2
<1> QED BY <1>1, <1>3 DEF T, h

(* A path of the length check_spend asks for.                              *)
FullLength(path) == Len(path) = TREE_DEPTH

(* compute_root_from_path with siblings taken from a tree stays on that    *)
(* tree's nodes.                                                           *)
LEMMA PathLeadsUp ==
    ASSUME NEW leaf, NEW slot \in Nat, NEW path, FullLength(path),
           \A d \in 1 .. TREE_DEPTH : path[d] = PathOf(leaf, slot)[d]
    PROVE  \A d \in 0 .. TREE_DEPTH :
               NodesOnPath(leaf[slot], slot, path)[d] = FullTree(leaf)[d][Ancestor(slot, d)]
<1> DEFINE N == NodesOnPath(leaf[slot], slot, path)
           T == FullTree(leaf)
           S == {m \in Nat : m <= TREE_DEPTH => N[m] = T[m][Ancestor(slot, m)]}
<1>1. N[0] = leaf[slot] /\ \A d \in 1 .. TREE_DEPTH :
          N[d] = CombineWithSibling(Ancestor(slot, d - 1), N[d - 1], path[d])
  BY NodesOnPathFacts, TreeDepthAssumption DEF FullLength
<1>2. 0 \in S
  BY <1>1, FullTreeFacts, AncestorFacts
<1>3. ASSUME NEW m \in Nat, m \in S PROVE m + 1 \in S
  <2> SUFFICES ASSUME m + 1 <= TREE_DEPTH PROVE N[m + 1] = T[m + 1][Ancestor(slot, m + 1)]
    OBVIOUS
  <2>1. m + 1 \in 1 .. TREE_DEPTH /\ (m + 1) - 1 = m /\ m \in 0 .. TREE_DEPTH
    BY TreeDepthAssumption
  <2>2. N[m] = T[m][Ancestor(slot, m)]
    BY <1>3, <2>1
  <2>3. path[m + 1] = T[m][SiblingIndex(Ancestor(slot, m))]
    BY <2>1 DEF PathOf
  <2>4. N[m + 1] = CombineWithSibling(Ancestor(slot, m), N[m], path[m + 1])
    BY <1>1, <2>1
  <2>5. Ancestor(slot, m) \in Nat /\ Ancestor(slot, m + 1) = Ancestor(slot, m) \div 2
    BY <2>1, AncestorFacts
  <2>6. CombineWithSibling(Ancestor(slot, m), T[m][Ancestor(slot, m)], T[m][SiblingIndex(Ancestor(slot, m))])
            = T[m + 1][Ancestor(slot, m) \div 2]
    BY <2>1, <2>5, CombineClimbs
  <2> HIDE DEF N, T
  <2> QED BY <2>2, <2>3, <2>4, <2>5, <2>6
<1> HIDE DEF S
<1>4. Nat \subseteq S
  BY <1>2, <1>3, NatSetInduction
<1>5. ASSUME NEW d \in 0 .. TREE_DEPTH PROVE N[d] = T[d][Ancestor(slot, d)]
  <2>1. d \in Nat /\ d <= TREE_DEPTH
    BY TreeDepthAssumption
  <2> QED BY <1>4, <2>1 DEF S
<1> QED BY <1>5

(* Two trees that differ in one leaf only differ in its ancestors only:    *)
(* what set_leaf may leave alone.                                          *)
LEMMA OffPathUnchanged ==
    ASSUME NEW f, NEW g, NEW slot \in Nat, \A i \in Nat \ {slot} : f[i] = g[i]
    PROVE  \A d \in 0 .. TREE_DEPTH : \A i \in Nat \ {Ancestor(slot, d)} :
               FullTree(f)[d][i] = FullTree(g)[d][i]
<1> DEFINE F == FullTree(f)
           G == FullTree(g)
           S == {m \in Nat : m <= TREE_DEPTH =>
                    \A i \in Nat \ {Ancestor(slot, m)} : F[m][i] = G[m][i]}
<1>1. 0 \in S
  BY FullTreeFacts, AncestorFacts
<1>2. ASSUME NEW m \in Nat, m \in S PROVE m + 1 \in S
  <2> SUFFICES ASSUME m + 1 <= TREE_DEPTH, NEW i \in Nat, i # Ancestor(slot, m + 1)
               PROVE  F[m + 1][i] = G[m + 1][i]
    OBVIOUS
  <2>1. m + 1 \in 1 .. TREE_DEPTH /\ (m + 1) - 1 = m /\ m \in 0 .. TREE_DEPTH
    BY TreeDepthAssumption
  <2>2. F[m + 1][i] = merkle_combine(F[m][2 * i], F[m][2 * i + 1])
        /\ G[m + 1][i] = merkle_combine(G[m][2 * i], G[m][2 * i + 1])
    BY <2>1, FullTreeFacts, SMTT(30)
  <2>3. Ancestor(slot, m) \in Nat /\ Ancestor(slot, m + 1) = Ancestor(slot, m) \div 2
    BY <2>1, AncestorFacts
  <2>4. 2 * i # Ancestor(slot, m) /\ 2 * i + 1 # Ancestor(slot, m)
    BY <2>3
  <2>5. F[m][2 * i] = G[m][2 * i] /\ F[m][2 * i + 1] = G[m][2 * i + 1]
    BY <1>2, <2>1, <2>4
  <2> QED BY <2>2, <2>5
<1> HIDE DEF S
<1>3. Nat \subseteq S
  BY <1>1, <1>2, NatSetInduction
<1>4. ASSUME NEW d \in 0 .. TREE_DEPTH, NEW i \in Nat \ {Ancestor(slot, d)} PROVE F[d][i] = G[d][i]
  <2>1. d \in Nat /\ d <= TREE_DEPTH
    BY TreeDepthAssumption
  <2> QED BY <1>3, <2>1 DEF S
<1> QED BY <1>4

(* The siblings on a leaf's path do not depend on that leaf.               *)
LEMMA SiblingsUnchanged ==
    ASSUME NEW f, NEW g, NEW slot \in Nat, \A i \in Nat \ {slot} : f[i] = g[i]
    PROVE  PathOf(f, slot) = PathOf(g, slot)
<1>1. ASSUME NEW d \in 1 .. TREE_DEPTH
      PROVE  FullTree(f)[d - 1][SiblingIndex(Ancestor(slot, d - 1))]
                 = FullTree(g)[d - 1][SiblingIndex(Ancestor(slot, d - 1))]
  <2>1. d - 1 \in 0 .. TREE_DEPTH
    BY TreeDepthAssumption
  <2>2. SiblingIndex(Ancestor(slot, d - 1)) \in Nat \ {Ancestor(slot, d - 1)}
    BY <2>1, AncestorFacts, SiblingFacts
  <2> QED BY <2>1, <2>2, OffPathUnchanged
<1> QED BY <1>1 DEF PathOf

(* A leaf's path in one tree opens the root of any tree that differs from  *)
(* it in that leaf only. This is the property check_spend's board anchor   *)
(* needs of compute_root_from_path: one path, the zero leaf and the new    *)
(* entry.                                                                  *)
THEOREM PathOpens ==
    ASSUME NEW f, NEW g, NEW slot \in Nat, slot < Capacity, \A i \in Nat \ {slot} : f[i] = g[i]
    PROVE  compute_root_from_path(g[slot], slot, PathOf(f, slot)) = FullTreeRoot(g)
<1>1. FullLength(PathOf(f, slot))
  BY TreeDepthAssumption DEF PathOf, FullLength
<1>2. PathOf(f, slot) = PathOf(g, slot)
  BY SiblingsUnchanged
<1>3. NodesOnPath(g[slot], slot, PathOf(f, slot))[TREE_DEPTH] = FullTree(g)[TREE_DEPTH][Ancestor(slot, TREE_DEPTH)]
  BY <1>1, <1>2, PathLeadsUp, TreeDepthAssumption
<1>4. Ancestor(slot, TREE_DEPTH) = 0
  BY AncestorFacts
<1> QED BY <1>1, <1>3, <1>4 DEF compute_root_from_path, FullTreeRoot, FullLength

(* A path that makes compute_root_from_path return the root of a tree is   *)
(* that tree's path, and the leaf it opens is the leaf the tree has there: *)
(* no other witness of verify_nonmembership or merkle_verify exists.       *)
THEOREM RootBinds ==
    ASSUME NEW f, NEW x, NEW slot \in Nat, slot < Capacity, NEW path, FullLength(path),
           compute_root_from_path(x, slot, path) = FullTreeRoot(f)
    PROVE  /\ x = f[slot]
           /\ \A d \in 1 .. TREE_DEPTH : path[d] = PathOf(f, slot)[d]
<1> DEFINE N == NodesOnPath(x, slot, path)
           T == FullTree(f)
           S == {m \in Nat : m <= TREE_DEPTH =>
                    N[TREE_DEPTH - m] = T[TREE_DEPTH - m][Ancestor(slot, TREE_DEPTH - m)]}
<1>0. /\ T[0] = f
      /\ \A d \in 1 .. TREE_DEPTH, i \in Nat :
             T[d][i] = merkle_combine(T[d - 1][2 * i], T[d - 1][2 * i + 1])
  BY FullTreeFacts
<1>1. N[0] = x /\ \A d \in 1 .. TREE_DEPTH :
          N[d] = CombineWithSibling(Ancestor(slot, d - 1), N[d - 1], path[d])
  BY NodesOnPathFacts, TreeDepthAssumption DEF FullLength
<1>2. 0 \in S
  BY AncestorFacts, TreeDepthAssumption DEF compute_root_from_path, FullTreeRoot, FullLength
<1>3. ASSUME NEW d \in 1 .. TREE_DEPTH, N[d] = T[d][Ancestor(slot, d)]
      PROVE  N[d - 1] = T[d - 1][Ancestor(slot, d - 1)] /\ path[d] = T[d - 1][SiblingIndex(Ancestor(slot, d - 1))]
  <2> DEFINE a == Ancestor(slot, d - 1)
  <2>1. d - 1 \in 0 .. TREE_DEPTH
    BY TreeDepthAssumption
  <2>2. a \in Nat /\ Ancestor(slot, d) = a \div 2
    BY <2>1, AncestorFacts
  <2> DEFINE h == a \div 2
  <2>3. T[d][h] = merkle_combine(T[d - 1][2 * h], T[d - 1][2 * h + 1])
    <3>1. h \in Nat
      BY <2>2, SiblingFacts
    <3> HIDE DEF T, a, h
    <3> QED BY <1>0, <3>1
  <2>4. N[d] = CombineWithSibling(a, N[d - 1], path[d])
    BY <1>1
  <2>5. /\ a % 2 = 0 => a = 2 * h /\ SiblingIndex(a) = 2 * h + 1
        /\ a % 2 # 0 => a = 2 * h + 1 /\ SiblingIndex(a) = 2 * h
    BY <2>2, SiblingFacts
  <2>6. N[d] = T[d][h]
    BY <1>3, <2>2
  <2> HIDE DEF N, T, a, h
  <2>7. CombineWithSibling(a, N[d - 1], path[d]) = merkle_combine(T[d - 1][2 * h], T[d - 1][2 * h + 1])
    BY <2>3, <2>4, <2>6
  <2>8. N[d - 1] = T[d - 1][a] /\ path[d] = T[d - 1][SiblingIndex(a)]
    <3>1. CASE a % 2 = 0
      BY <2>5, <2>7, <3>1, CombineInjective DEF CombineWithSibling
    <3>2. CASE a % 2 # 0
      BY <2>5, <2>7, <3>2, CombineInjective DEF CombineWithSibling
    <3> QED BY <3>1, <3>2
  <2> QED BY <2>8 DEF a
<1>4. ASSUME NEW m \in Nat, m \in S PROVE m + 1 \in S
  <2> SUFFICES ASSUME m + 1 <= TREE_DEPTH
               PROVE  N[TREE_DEPTH - (m + 1)] = T[TREE_DEPTH - (m + 1)][Ancestor(slot, TREE_DEPTH - (m + 1))]
    OBVIOUS
  <2>1. TREE_DEPTH - m \in 1 .. TREE_DEPTH /\ TREE_DEPTH - (m + 1) = (TREE_DEPTH - m) - 1
    BY TreeDepthAssumption
  <2>2. N[TREE_DEPTH - m] = T[TREE_DEPTH - m][Ancestor(slot, TREE_DEPTH - m)]
    BY <1>4, TreeDepthAssumption
  <2> HIDE DEF N, T, S
  <2> QED BY <1>3, <2>1, <2>2
<1> HIDE DEF S
<1>5. Nat \subseteq S
  BY <1>2, <1>4, NatSetInduction
<1>6. ASSUME NEW d \in 0 .. TREE_DEPTH PROVE N[d] = T[d][Ancestor(slot, d)]
  <2>1. TREE_DEPTH - d \in Nat /\ TREE_DEPTH - d <= TREE_DEPTH /\ TREE_DEPTH - (TREE_DEPTH - d) = d
    BY TreeDepthAssumption
  <2> HIDE DEF N, T
  <2> QED BY <1>5, <2>1 DEF S
<1>7. x = f[slot]
  <2>1. 0 \in 0 .. TREE_DEPTH /\ Ancestor(slot, 0) = slot
    BY AncestorFacts, TreeDepthAssumption
  <2>2. N[0] = T[0][slot]
    BY <1>6, <2>1
  <2> QED BY <1>0, <1>1, <2>2
<1>8. ASSUME NEW d \in 1 .. TREE_DEPTH PROVE path[d] = PathOf(f, slot)[d]
  BY <1>3, <1>6, TreeDepthAssumption DEF PathOf
<1> QED BY <1>7, <1>8

(* The part of RootBinds about the leaf.                                   *)
LEMMA RootBindsLeaf ==
    ASSUME NEW f, NEW x, NEW slot \in Nat, slot < Capacity, NEW path, FullLength(path),
           compute_root_from_path(x, slot, path) = FullTreeRoot(f)
    PROVE  x = f[slot]
BY RootBinds

(* A root determines every leaf: two boards, or two accumulators, with one *)
(* merkle_root are the same.                                               *)
THEOREM RootDeterminesLeaves ==
    ASSUME NEW f, NEW g, FullTreeRoot(f) = FullTreeRoot(g)
    PROVE  \A i \in 0 .. Capacity - 1 : f[i] = g[i]
<1> SUFFICES ASSUME NEW i \in 0 .. Capacity - 1 PROVE f[i] = g[i]
  OBVIOUS
<1>1. Capacity \in Nat
  BY PowerOf2Facts, TreeDepthAssumption DEF Capacity
<1>2. i \in Nat /\ i < Capacity
  BY <1>1
<1>3. FullLength(PathOf(f, i))
  BY TreeDepthAssumption DEF PathOf, FullLength
<1>4. compute_root_from_path(f[i], i, PathOf(f, i)) = FullTreeRoot(f)
  BY <1>2, PathOpens
<1>5. compute_root_from_path(f[i], i, PathOf(f, i)) = FullTreeRoot(g)
  BY <1>4
<1> QED BY <1>2, <1>3, <1>5, RootBinds

(* Without a filled leaf every node is the zero hash of its level          *)
(* (empty_root, and the missing nodes of NullifierTree::set_leaf).         *)
LEMMA EmptyTree ==
    ASSUME NEW f, \A i \in Nat : f[i] = ZeroLeaf
    PROVE  \A d \in 0 .. TREE_DEPTH, i \in Nat : FullTree(f)[d][i] = zero_hashes[d]
<1> DEFINE S == {m \in Nat : m <= TREE_DEPTH => \A i \in Nat : FullTree(f)[m][i] = zero_hashes[m]}
<1>1. 0 \in S
  BY FullTreeFacts, ZeroHashesFacts
<1>2. ASSUME NEW m \in Nat, m \in S PROVE m + 1 \in S
  <2> SUFFICES ASSUME m + 1 <= TREE_DEPTH, NEW i \in Nat
               PROVE  FullTree(f)[m + 1][i] = zero_hashes[m + 1]
    OBVIOUS
  <2>1. m + 1 \in 1 .. TREE_DEPTH /\ (m + 1) - 1 = m
    BY TreeDepthAssumption
  <2>2. FullTree(f)[m + 1][i] = merkle_combine(FullTree(f)[m][2 * i], FullTree(f)[m][2 * i + 1])
    BY <2>1, FullTreeFacts
  <2>3. FullTree(f)[m][2 * i] = zero_hashes[m] /\ FullTree(f)[m][2 * i + 1] = zero_hashes[m]
    BY <1>2, TreeDepthAssumption
  <2>4. zero_hashes[m + 1] = merkle_combine(zero_hashes[m], zero_hashes[m])
    BY <2>1, ZeroHashesFacts
  <2> QED BY <2>2, <2>3, <2>4
<1> HIDE DEF S
<1>3. Nat \subseteq S
  BY <1>1, <1>2, NatSetInduction
<1>4. ASSUME NEW d \in 0 .. TREE_DEPTH, NEW i \in Nat PROVE FullTree(f)[d][i] = zero_hashes[d]
  <2>1. d \in Nat /\ d <= TREE_DEPTH
    BY TreeDepthAssumption
  <2> QED BY <1>3, <2>1 DEF S
<1> QED BY <1>4

-----------------------------------------------------------------------------
(* The levels merkle_path_for_index walks through exist for any depth.     *)
LEMMA LevelsExist ==
    ASSUME NEW hashes
    PROVE  \E g : g = [d \in 0 .. TREE_DEPTH |-> IF d = 0 THEN hashes ELSE CollapseLevel(g[d - 1], d - 1)]
<1> DEFINE S == {m \in Nat : \E g : g = [d \in 0 .. m |-> IF d = 0 THEN hashes
                                                          ELSE CollapseLevel(g[d - 1], d - 1)]}
<1>1. 0 \in S
  <2> DEFINE g == [d \in 0 .. 0 |-> hashes]
  <2>1. g = [d \in 0 .. 0 |-> IF d = 0 THEN hashes ELSE CollapseLevel(g[d - 1], d - 1)]
    OBVIOUS
  <2> HIDE DEF g
  <2> QED BY <2>1
<1>2. ASSUME NEW m \in Nat, m \in S PROVE m + 1 \in S
  <2>1. PICK g : g = [d \in 0 .. m |-> IF d = 0 THEN hashes ELSE CollapseLevel(g[d - 1], d - 1)]
    BY <1>2
  <2> DEFINE h == [d \in 0 .. m + 1 |-> IF d <= m THEN g[d] ELSE CollapseLevel(g[m], m)]
  <2>2. h = [d \in 0 .. m + 1 |-> IF d = 0 THEN hashes ELSE CollapseLevel(h[d - 1], d - 1)]
    BY <2>1
  <2>3. m + 1 \in Nat
    OBVIOUS
  <2> HIDE DEF h
  <2> QED BY <2>2, <2>3
<1> HIDE DEF S
<1>3. Nat \subseteq S
  BY <1>1, <1>2, NatSetInduction
<1>4. TREE_DEPTH \in S
  BY <1>3, TreeDepthAssumption
<1> QED BY <1>4 DEF S

(* Each of its levels is the collapse of the one below.                    *)
LEMMA LevelsFacts ==
    ASSUME NEW hashes
    PROVE  /\ Levels(hashes)[0] = hashes
           /\ \A d \in 1 .. TREE_DEPTH :
                  Levels(hashes)[d] = CollapseLevel(Levels(hashes)[d - 1], d - 1)
<1> DEFINE L == Levels(hashes)
<1>1. L = [d \in 0 .. TREE_DEPTH |-> IF d = 0 THEN hashes ELSE CollapseLevel(L[d - 1], d - 1)]
  BY LevelsExist, Zenon DEF Levels
<1> HIDE DEF L
<1>2. L[0] = hashes
  BY <1>1, TreeDepthAssumption
<1>3. ASSUME NEW d \in 1 .. TREE_DEPTH PROVE L[d] = CollapseLevel(L[d - 1], d - 1)
  BY <1>1, TreeDepthAssumption
<1> QED BY <1>2, <1>3 DEF L

(* One collapse takes the filled nodes of a level of the full tree to      *)
(* those of the next: a node is filled when its left child is.             *)
Filled(level, zero, row) ==
    /\ Len(level) \in Nat
    /\ \A i \in Nat : row[i] = IF i < Len(level) THEN level[i + 1] ELSE zero

(* The arithmetic of half a level: chunks(2) of n nodes.                   *)
LEMMA HalfFacts ==
    ASSUME NEW n \in Nat, NEW i \in Nat
    PROVE  /\ (n + 1) \div 2 \in Nat
           /\ i < (n + 1) \div 2 <=> 2 * i < n
           /\ 2 * i + 2 <= n <=> 2 * i + 1 < n
OBVIOUS

(* One collapse of merkle_path_for_index takes the filled nodes of a level *)
(* of the full tree to the filled nodes of the next, the odd one out       *)
(* combined with the zero hash.                                            *)
LEMMA CollapseFacts ==
    ASSUME NEW level, NEW d \in 1 .. TREE_DEPTH, NEW row, NEW above,
           Filled(level, zero_hashes[d - 1], row),
           \A i \in Nat : above[i] = merkle_combine(row[2 * i], row[2 * i + 1])
    PROVE  Filled(CollapseLevel(level, d - 1), zero_hashes[d], above)
<1> DEFINE n == Len(level)
           up == CollapseLevel(level, d - 1)
           m == (n + 1) \div 2
<1>1. n \in Nat /\ m \in Nat
  BY DEF Filled
<1>2. up = [i \in 1 .. m |-> merkle_combine(level[2 * i - 1],
                                            IF 2 * i <= n THEN level[2 * i] ELSE zero_hashes[d - 1])]
  BY DEF CollapseLevel
<1>3. Len(up) = m
  <2> HIDE DEF up, n, m
  <2> QED BY <1>1, <1>2
<1>4. ASSUME NEW i \in Nat
      PROVE  above[i] = IF i < m THEN up[i + 1] ELSE zero_hashes[d]
  <2>1. 2 * i \in Nat /\ 2 * i + 1 \in Nat
    OBVIOUS
  <2>2. above[i] = merkle_combine(row[2 * i], row[2 * i + 1])
    OBVIOUS
  <2>3. row[2 * i] = IF 2 * i < n THEN level[2 * i + 1] ELSE zero_hashes[d - 1]
    BY <2>1 DEF Filled
  <2>4. row[2 * i + 1] = IF 2 * i + 1 < n THEN level[2 * i + 2] ELSE zero_hashes[d - 1]
    <3>1. row[2 * i + 1] = IF 2 * i + 1 < n THEN level[(2 * i + 1) + 1] ELSE zero_hashes[d - 1]
      BY <2>1 DEF Filled
    <3>2. (2 * i + 1) + 1 = 2 * i + 2
      OBVIOUS
    <3> QED BY <3>1, <3>2
  <2>5. /\ i < m <=> 2 * i < n
        /\ 2 * i + 2 <= n <=> 2 * i + 1 < n
    <3> HIDE DEF n
    <3> QED BY <1>1, HalfFacts
  <2>6. CASE i < m
    <3>1. i + 1 \in 1 .. m /\ 2 * (i + 1) - 1 = 2 * i + 1 /\ 2 * (i + 1) = 2 * i + 2
      BY <1>1, <2>6
    <3> HIDE DEF up, n, m
    <3>3. up[i + 1] = merkle_combine(level[2 * i + 1],
                                     IF 2 * i + 2 <= n THEN level[2 * i + 2] ELSE zero_hashes[d - 1])
      BY <1>2, <3>1
    <3> QED BY <2>2, <2>3, <2>4, <2>5, <2>6, <3>3
  <2>7. CASE ~(i < m)
    <3>1. ~(2 * i < n) /\ ~(2 * i + 1 < n)
      BY <1>1, <2>5, <2>7
    <3> HIDE DEF up, n, m
    <3>2. zero_hashes[d] = merkle_combine(zero_hashes[d - 1], zero_hashes[d - 1])
      BY ZeroHashesFacts
    <3> QED BY <2>2, <2>3, <2>4, <2>7, <3>1, <3>2
  <2> QED BY <2>6, <2>7
<1> HIDE DEF up, n, m
<1> QED BY <1>1, <1>3, <1>4 DEF Filled, up

(* The levels of merkle_path_for_index are the filled nodes of the full    *)
(* tree's.                                                                 *)
LEMMA LevelsAreTheTree ==
    ASSUME NEW hashes, NEW f, Filled(hashes, ZeroLeaf, f)
    PROVE  \A d \in 0 .. TREE_DEPTH : Filled(Levels(hashes)[d], zero_hashes[d], FullTree(f)[d])
<1> DEFINE S == {m \in Nat : m <= TREE_DEPTH =>
                    Filled(Levels(hashes)[m], zero_hashes[m], FullTree(f)[m])}
<1>1. 0 \in S
  BY FullTreeFacts, ZeroHashesFacts, LevelsFacts
<1>2. ASSUME NEW m \in Nat, m \in S PROVE m + 1 \in S
  <2> SUFFICES ASSUME m + 1 <= TREE_DEPTH
               PROVE  Filled(Levels(hashes)[m + 1], zero_hashes[m + 1], FullTree(f)[m + 1])
    OBVIOUS
  <2>1. m + 1 \in 1 .. TREE_DEPTH /\ (m + 1) - 1 = m
    BY TreeDepthAssumption
  <2>2. Filled(Levels(hashes)[m], zero_hashes[m], FullTree(f)[m])
    BY <1>2, TreeDepthAssumption
  <2>3. Levels(hashes)[m + 1] = CollapseLevel(Levels(hashes)[m], m)
    BY <2>1, LevelsFacts
  <2>4. \A i \in Nat : FullTree(f)[m + 1][i]
                         = merkle_combine(FullTree(f)[m][2 * i], FullTree(f)[m][2 * i + 1])
    BY <2>1, FullTreeFacts
  <2>5. Filled(CollapseLevel(Levels(hashes)[m], m), zero_hashes[m + 1], FullTree(f)[m + 1])
    BY <2>1, <2>2, <2>4, CollapseFacts
  <2> QED BY <2>3, <2>5
<1> HIDE DEF S
<1>3. Nat \subseteq S
  BY <1>1, <1>2, NatSetInduction
<1>4. ASSUME NEW d \in 0 .. TREE_DEPTH
      PROVE  Filled(Levels(hashes)[d], zero_hashes[d], FullTree(f)[d])
  <2>1. d \in Nat /\ d <= TREE_DEPTH
    BY TreeDepthAssumption
  <2> QED BY <1>3, <2>1 DEF S
<1> QED BY <1>4

-----------------------------------------------------------------------------
(* The leaves of a board are the hashes of its entries, then zero leaves.  *)
LEMMA LeafOfFilled ==
    ASSUME NEW S, NEW es \in Seq(S)
    PROVE  Filled(LeafHashes(es), ZeroLeaf, LeafOf(es))
BY DEF Filled, LeafHashes, LeafOf

(* merkle_path_for_index is the leaf's path in the full tree, for any      *)
(* index, of an entry or beyond.                                           *)
LEMMA PathIsSiblings ==
    ASSUME NEW S, NEW es \in Seq(S), NEW idx \in Nat
    PROVE  merkle_path_for_index(LeafHashes(es), idx) = PathOf(LeafOf(es), idx)
<1> DEFINE L == Levels(LeafHashes(es))
           T == FullTree(LeafOf(es))
           sib(d) == SiblingIndex(Ancestor(idx, d - 1))
<1>1. ASSUME NEW d \in 1 .. TREE_DEPTH
      PROVE  (IF sib(d) < Len(L[d - 1]) THEN L[d - 1][sib(d) + 1] ELSE zero_hashes[d - 1]) = T[d - 1][sib(d)]
  <2>1. d - 1 \in 0 .. TREE_DEPTH
    BY TreeDepthAssumption
  <2>2. sib(d) \in Nat
    BY <2>1, AncestorFacts, SiblingFacts
  <2>3. Filled(L[d - 1], zero_hashes[d - 1], T[d - 1])
    BY <2>1, LeafOfFilled, LevelsAreTheTree
  <2> HIDE DEF L, T, sib
  <2> QED BY <2>2, <2>3 DEF Filled
<1> QED BY <1>1 DEF merkle_path_for_index, PathOf

(* merkle_root_of, which folds one path, is the root of the full tree.     *)
LEMMA RootOfBoard ==
    ASSUME NEW S, NEW es \in Seq(S), Len(es) <= Capacity
    PROVE  merkle_root_of(es) = FullTreeRoot(LeafOf(es))
<1>1. CASE es = <<>>
  <2>1. \A i \in Nat : LeafOf(es)[i] = ZeroLeaf
    BY <1>1 DEF LeafOf
  <2>2. FullTree(LeafOf(es))[TREE_DEPTH][0] = zero_hashes[TREE_DEPTH]
    BY <2>1, EmptyTree, TreeDepthAssumption
  <2> QED BY <1>1, <2>2 DEF merkle_root_of, FullTreeRoot, empty_root
<1>2. CASE es # <<>>
  <2> DEFINE k == Len(es) - 1
  <2>1. Capacity \in Nat
    BY PowerOf2Facts, TreeDepthAssumption DEF Capacity
  <2>2. k \in Nat /\ k < Capacity /\ k + 1 = Len(es) /\ k < Len(es)
    BY <1>2, <2>1
  <2>3. LeafOf(es)[k] = merkle_leaf(Len(es) - 1, es[Len(es)])
    BY <2>2 DEF LeafOf
  <2>4. compute_root_from_path(LeafOf(es)[k], k, PathOf(LeafOf(es), k)) = FullTreeRoot(LeafOf(es))
    BY <2>2, PathOpens
  <2> QED BY <1>2, <2>2, <2>3, <2>4, PathIsSiblings DEF merkle_root_of, append_proof_for
<1> QED BY <1>1, <1>2

(* append_proof_for and append_path_for_next return the path of the last   *)
(* slot and of the next one; the tree with the entry and the tree without  *)
(* differ in that slot only.                                               *)
LEMMA AppendPaths ==
    ASSUME NEW S, NEW es \in Seq(S), NEW k \in 0 .. Len(es) - 1
    PROVE  /\ append_proof_for(SubSeq(es, 1, k + 1)) = PathOf(LeafOf(SubSeq(es, 1, k + 1)), k)
           /\ append_path_for_next(SubSeq(es, 1, k)) = PathOf(LeafOf(SubSeq(es, 1, k)), k)
           /\ \A i \in Nat \ {k} : LeafOf(SubSeq(es, 1, k + 1))[i] = LeafOf(SubSeq(es, 1, k))[i]
           /\ LeafOf(SubSeq(es, 1, k + 1))[k] = merkle_leaf(k, es[k + 1])
           /\ LeafOf(SubSeq(es, 1, k))[k] = ZeroLeaf
<1> DEFINE with == SubSeq(es, 1, k + 1)
           without == SubSeq(es, 1, k)
<1>1. with \in Seq(S) /\ Len(with) = k + 1 /\ \A i \in 1 .. k + 1 : with[i] = es[i]
  OBVIOUS
<1>2. without \in Seq(S) /\ Len(without) = k /\ \A i \in 1 .. k : without[i] = es[i]
  OBVIOUS
<1>3. k \in Nat /\ (k + 1) - 1 = k
  OBVIOUS
<1> HIDE DEF with, without
<1>4. append_proof_for(with) = PathOf(LeafOf(with), k)
  BY <1>1, <1>3, PathIsSiblings DEF append_proof_for
<1>5. append_path_for_next(without) = PathOf(LeafOf(without), k)
  BY <1>2, <1>3, PathIsSiblings DEF append_path_for_next
<1>6. ASSUME NEW i \in Nat \ {k} PROVE LeafOf(with)[i] = LeafOf(without)[i]
  <2>1. CASE i < k
    <3>1. i + 1 \in 1 .. k /\ i + 1 \in 1 .. k + 1
      BY <1>3, <2>1
    <3>2. with[i + 1] = without[i + 1]
      BY <1>1, <1>2, <3>1
    <3> QED BY <1>1, <1>2, <1>3, <2>1, <3>2 DEF LeafOf
  <2>2. CASE ~(i < k)
    BY <1>1, <1>2, <1>3, <2>2 DEF LeafOf
  <2> QED BY <2>1, <2>2
<1>7. LeafOf(with)[k] = merkle_leaf(k, es[k + 1]) /\ LeafOf(without)[k] = ZeroLeaf
  BY <1>1, <1>2, <1>3 DEF LeafOf
<1> QED BY <1>4, <1>5, <1>6, <1>7 DEF with, without

(* The hash of an entry is no zero leaf.                                   *)
LEMMA LeafIsNotZero ==
    ASSUME NEW k, NEW e
    PROVE  merkle_leaf(k, e) # ZeroLeaf
BY DEF merkle_leaf, ZeroLeaf

(* The number of slots is a natural.                                       *)
LEMMA CapacityIsNat == Capacity \in Nat
BY PowerOf2Facts, TreeDepthAssumption DEF Capacity

-----------------------------------------------------------------------------
(* The tree has a leaf.                                                    *)
LEMMA CapacityIsPositive == Capacity \in Nat \ {0}
BY PowerOf2Facts, TreeDepthAssumption DEF Capacity

(* HashMap::insert sets one key and leaves the others.                     *)
LEMMA MapInsertFacts ==
    ASSUME NEW map, NEW key, NEW value
    PROVE  /\ DOMAIN MapInsert(map, key, value) = DOMAIN map \union {key}
           /\ MapInsert(map, key, value)[key] = value
           /\ \A k \in DOMAIN map : k # key => MapInsert(map, key, value)[k] = map[k]
BY DEF MapInsert

(* After an insertion into one level of the cache the other nodes of the   *)
(* level read as before.                                                   *)
LEMMA NodeAtInsert ==
    ASSUME NEW nodes, NEW after, NEW d, NEW key, NEW value, NEW i,
           after[d] = MapInsert(nodes[d], key, value)
    PROVE  NodeAt(after, d, i) = IF i = key THEN value ELSE NodeAt(nodes, d, i)
BY DEF MapInsert, NodeAt

(* The cache holds the nodes of the full tree over f.                      *)
Caches(nodes, f) ==
    \A d \in 0 .. TREE_DEPTH, i \in Nat : NodeAt(nodes, d, i) = FullTree(f)[d][i]

(* The siblings set_leaf and path_for read from an exact cache are the     *)
(* leaf's path in the full tree.                                           *)
LEMMA SiblingsArePath ==
    ASSUME NEW nodes, NEW f, NEW idx \in Nat, Caches(nodes, f)
    PROVE  Siblings(nodes, idx) = PathOf(f, idx)
<1>1. ASSUME NEW d \in 1 .. TREE_DEPTH
      PROVE  NodeAt(nodes, d - 1, SiblingIndex(Ancestor(idx, d - 1)))
                 = FullTree(f)[d - 1][SiblingIndex(Ancestor(idx, d - 1))]
  <2>1. d - 1 \in 0 .. TREE_DEPTH
    BY TreeDepthAssumption
  <2>2. SiblingIndex(Ancestor(idx, d - 1)) \in Nat
    BY <2>1, AncestorFacts, SiblingFacts
  <2> QED BY <2>1, <2>2 DEF Caches
<1> QED BY <1>1 DEF Siblings, PathOf

(* set_leaf turns the cache of a tree into that of the tree with one leaf  *)
(* replaced.                                                               *)
LEMMA SetLeafCaches ==
    ASSUME NEW nodes, NEW f, NEW g, NEW idx \in Nat, Caches(nodes, f),
           \A i \in Nat \ {idx} : f[i] = g[i]
    PROVE  Caches(set_leaf(nodes, idx, g[idx]), g)
<1> DEFINE path == Siblings(nodes, idx)
           node == NodesOnPath(g[idx], idx, path)
           after == set_leaf(nodes, idx, g[idx])
<1>1. path = PathOf(f, idx) /\ PathOf(f, idx) = PathOf(g, idx)
  BY SiblingsArePath, SiblingsUnchanged
<1>2. FullLength(path)
  BY TreeDepthAssumption DEF Siblings, FullLength
<1>3. \A d \in 0 .. TREE_DEPTH : node[d] = FullTree(g)[d][Ancestor(idx, d)]
  <2> HIDE DEF path
  <2> QED BY <1>1, <1>2, PathLeadsUp
<1>4. \A d \in 0 .. TREE_DEPTH : after[d] = MapInsert(nodes[d], Ancestor(idx, d), node[d])
  <2> HIDE DEF node
  <2> QED BY DEF set_leaf, node
<1> HIDE DEF path, node, after
<1>5. ASSUME NEW d \in 0 .. TREE_DEPTH, NEW i \in Nat
      PROVE  NodeAt(after, d, i) = FullTree(g)[d][i]
  <2>0. NodeAt(after, d, i) = IF i = Ancestor(idx, d) THEN node[d] ELSE NodeAt(nodes, d, i)
    BY <1>4, NodeAtInsert
  <2>1. CASE i = Ancestor(idx, d)
    BY <1>3, <2>0, <2>1
  <2>2. CASE i # Ancestor(idx, d)
    <3>1. NodeAt(after, d, i) = NodeAt(nodes, d, i)
      BY <2>0, <2>2
    <3>2. NodeAt(nodes, d, i) = FullTree(f)[d][i]
      BY DEF Caches
    <3>3. FullTree(f)[d][i] = FullTree(g)[d][i]
      BY <2>2, OffPathUnchanged
    <3> QED BY <3>1, <3>2, <3>3
  <2> QED BY <2>1, <2>2
<1> QED BY <1>5 DEF Caches, after

-----------------------------------------------------------------------------
(* The invariant: the shape of the list, its index, and the cache.         *)
Shape(t) ==
    /\ t = [leaves |-> t.leaves, index_of |-> t.index_of, nodes |-> t.nodes]
    /\ t.leaves \in Seq(IndexedLeaf)
    /\ Len(t.leaves) \in 1 .. Capacity
    /\ DOMAIN t.index_of \subseteq 0 .. MAX_NULLIFIER - 1
    /\ 0 \in DOMAIN t.index_of
    /\ \A v \in DOMAIN t.index_of : t.index_of[v] \in 0 .. Len(t.leaves) - 1

Linked(t) == Shape(t) /\ IndexExact(t) /\ GapsEmpty(t) /\ LinksExact(t)

(* There is always a greatest value below the target: what                 *)
(* BTreeMap::range(..target).next_back() of find_low_leaf_index unwraps.   *)
LEMMA LowValueFacts ==
    ASSUME NEW t, Linked(t), NEW n \in Nullifiers
    PROVE  /\ LowValue(t, n) \in DOMAIN t.index_of
           /\ LowValue(t, n) < n
           /\ \A w \in DOMAIN t.index_of : w < n => w <= LowValue(t, n)
<1> DEFINE Below == {v \in DOMAIN t.index_of : v < n}
           S == {n - v : v \in Below}
<1>1. n \in Nat /\ 0 < n
  BY MaxNullifierAssumption DEF Nullifiers
<1>2. DOMAIN t.index_of \subseteq Nat
  BY MaxNullifierAssumption DEF Linked, Shape
<1>3. 0 \in Below
  BY <1>1 DEF Linked, Shape
<1>4. S \in SUBSET Nat /\ S # {}
  BY <1>1, <1>2, <1>3
<1>5. PICK s \in S : \A y \in S : s <= y
  BY <1>4, LeastElement
<1>6. PICK v \in Below : s = n - v
  BY <1>5
<1>7. ASSUME NEW w \in DOMAIN t.index_of, w < n PROVE w <= v
  <2>1. n - w \in S
    BY <1>7
  <2>2. s <= n - w
    BY <1>5, <2>1
  <2> QED BY <1>1, <1>2, <1>6, <2>2
<1>8. \E u \in DOMAIN t.index_of : u < n /\ \A w \in DOMAIN t.index_of : w < n => w <= u
  BY <1>6, <1>7
<1> QED BY <1>8 DEF LowValue

(* The low leaf find_low_leaf_index returns for an absent value has a gap  *)
(* the value lies in.                                                      *)
LEMMA LowLeafFacts ==
    ASSUME NEW t, Linked(t), NEW n \in Nullifiers
    PROVE  /\ find_low_leaf_index(t, n) \in 0 .. Len(t.leaves) - 1
           /\ Leaf(t, find_low_leaf_index(t, n)).value = LowValue(t, n)
           /\ Leaf(t, find_low_leaf_index(t, n)) \in IndexedLeaf
           /\ n \notin DOMAIN t.index_of => n < Leaf(t, find_low_leaf_index(t, n)).next_value
<1> DEFINE k == find_low_leaf_index(t, n)
           low == Leaf(t, k)
<1>1. k \in 0 .. Len(t.leaves) - 1 /\ low.value = LowValue(t, n)
  BY LowValueFacts DEF find_low_leaf_index, Linked, Shape, IndexExact
<1>2. low \in IndexedLeaf
  BY <1>1 DEF Linked, Shape, Leaf
<1>3. ASSUME n \notin DOMAIN t.index_of PROVE n < low.next_value
  <2>1. low.next_value \in Nat /\ n \in Nat /\ low.value \in Nat /\ n < MAX_NULLIFIER
    BY <1>2, MaxNullifierAssumption DEF IndexedLeaf, Nullifiers
  <2>2. CASE low.next_value = MAX_NULLIFIER
    BY <2>1, <2>2
  <2>3. CASE low.next_value # MAX_NULLIFIER
    <3>1. low.next_value \in DOMAIN t.index_of
      BY <1>1, <2>3 DEF Linked, LinksExact
    <3>2. low.value < low.next_value
      BY <1>1 DEF Linked, GapsEmpty
    <3>3. ~(low.next_value < n)
      BY <1>1, <2>1, <3>1, <3>2, LowValueFacts
    <3>4. low.next_value # n
      BY <1>3, <3>1
    <3> QED BY <2>1, <3>3, <3>4
  <2> QED BY <2>2, <2>3
<1> QED BY <1>1, <1>2, <1>3

(* What an insert leaves: the low leaf ends at the new value, the new leaf *)
(* takes over the rest of its gap, and every other leaf stays.             *)
LowAfter(t, n) == [value |-> Leaf(t, find_low_leaf_index(t, n)).value,
                   next_value |-> n, next_index |-> Len(t.leaves)]
NewAfter(t, n) == [value |-> n,
                   next_value |-> Leaf(t, find_low_leaf_index(t, n)).next_value,
                   next_index |-> Leaf(t, find_low_leaf_index(t, n)).next_index]

(* What the two set_leaf calls of insert leave: the low leaf ends at the   *)
(* new value, the new leaf takes over the rest of its gap, every other     *)
(* leaf stays.                                                             *)
LEMMA SpliceFacts ==
    ASSUME NEW t, Linked(t), NEW n \in Nullifiers, n \notin DOMAIN t.index_of,
           Len(t.leaves) < Capacity
    PROVE  /\ Splice(t, n).leaves \in Seq(IndexedLeaf)
           /\ Len(Splice(t, n).leaves) = Len(t.leaves) + 1
           /\ \A i \in 0 .. Len(t.leaves) :
                  Leaf(Splice(t, n), i) = IF i = Len(t.leaves) THEN NewAfter(t, n)
                                          ELSE IF i = find_low_leaf_index(t, n) THEN LowAfter(t, n)
                                          ELSE Leaf(t, i)
           /\ DOMAIN Splice(t, n).index_of = DOMAIN t.index_of \union {n}
           /\ Splice(t, n).index_of[n] = Len(t.leaves)
           /\ \A v \in DOMAIN t.index_of : Splice(t, n).index_of[v] = t.index_of[v]
<1> DEFINE k == find_low_leaf_index(t, n)
           len == Len(t.leaves)
           u == Splice(t, n)
<1>1. u.leaves = Append([t.leaves EXCEPT ![k + 1] = LowAfter(t, n)], NewAfter(t, n))
      /\ u.index_of = MapInsert(t.index_of, n, len)
  BY DEF Splice, LowAfter, NewAfter
<1>2. len \in Nat \ {0} /\ len < Capacity /\ t.leaves \in Seq(IndexedLeaf) /\ k \in 0 .. len - 1
  BY LowLeafFacts, CapacityIsPositive DEF Linked, Shape
<1>3. LowAfter(t, n) \in IndexedLeaf /\ NewAfter(t, n) \in IndexedLeaf
  <2>1. Leaf(t, k) \in IndexedLeaf
    BY LowLeafFacts
  <2>2. n \in 0 .. MAX_NULLIFIER /\ len \in 0 .. Capacity - 1
    BY <1>2, CapacityIsPositive, MaxNullifierAssumption DEF Nullifiers
  <2> DEFINE low == Leaf(t, k)
  <2>3. /\ LowAfter(t, n) = [value |-> low.value, next_value |-> n, next_index |-> len]
        /\ NewAfter(t, n) = [value |-> n, next_value |-> low.next_value, next_index |-> low.next_index]
    BY DEF LowAfter, NewAfter
  <2> HIDE DEF low, len
  <2> QED BY <2>1, <2>2, <2>3 DEF IndexedLeaf, low
<1>4. \A v \in DOMAIN t.index_of : v # n
  OBVIOUS
<1> HIDE DEF k, len, u
<1>5. u.leaves \in Seq(IndexedLeaf) /\ Len(u.leaves) = len + 1
  BY <1>1, <1>2, <1>3 DEF len
<1>6. ASSUME NEW i \in 0 .. len
      PROVE  Leaf(u, i) = IF i = len THEN NewAfter(t, n)
                          ELSE IF i = k THEN LowAfter(t, n) ELSE Leaf(t, i)
  BY <1>1, <1>2, <1>3 DEF len, Leaf
<1>7. /\ DOMAIN u.index_of = DOMAIN t.index_of \union {n}
      /\ u.index_of[n] = len
      /\ \A v \in DOMAIN t.index_of : u.index_of[v] = t.index_of[v]
  BY <1>1, <1>4 DEF MapInsert
<1> QED BY <1>5, <1>6, <1>7 DEF k, len, u

(* insert keeps one sorted linked list: no gap is opened, no value lost.   *)
LEMMA SpliceKeepsList ==
    ASSUME NEW t, Linked(t), NEW n \in Nullifiers, n \notin DOMAIN t.index_of,
           Len(t.leaves) < Capacity
    PROVE  Linked(Splice(t, n))
<1> DEFINE k == find_low_leaf_index(t, n)
           len == Len(t.leaves)
           u == Splice(t, n)
           low == Leaf(t, k)
<1>1. /\ u.leaves \in Seq(IndexedLeaf) /\ Len(u.leaves) = len + 1
      /\ \A i \in 0 .. len : Leaf(u, i) = IF i = len THEN NewAfter(t, n)
                                          ELSE IF i = k THEN LowAfter(t, n) ELSE Leaf(t, i)
      /\ DOMAIN u.index_of = DOMAIN t.index_of \union {n}
      /\ u.index_of[n] = len
      /\ \A v \in DOMAIN t.index_of : u.index_of[v] = t.index_of[v]
  BY SpliceFacts
<1>2. len \in Nat \ {0} /\ len < Capacity /\ k \in 0 .. len - 1 /\ Capacity \in Nat
  BY LowLeafFacts, CapacityIsPositive DEF Linked, Shape
<1>3. n \in Nat /\ 0 < n /\ n < MAX_NULLIFIER /\ MAX_NULLIFIER \in Nat
  BY MaxNullifierAssumption DEF Nullifiers
<1>4. low.value = LowValue(t, n) /\ low.value \in DOMAIN t.index_of /\ low.value < n /\ n < low.next_value
      /\ t.index_of[low.value] = k
      /\ \A w \in DOMAIN t.index_of : w < n => w <= low.value
  BY LowLeafFacts, LowValueFacts DEF find_low_leaf_index
<1>5. /\ LowAfter(t, n).value = low.value /\ LowAfter(t, n).next_value = n
      /\ LowAfter(t, n).next_index = len
      /\ NewAfter(t, n).value = n /\ NewAfter(t, n).next_value = low.next_value
      /\ NewAfter(t, n).next_index = low.next_index
  BY DEF LowAfter, NewAfter
<1>6. /\ DOMAIN t.index_of \subseteq 0 .. MAX_NULLIFIER - 1 /\ 0 \in DOMAIN t.index_of
      /\ \A v \in DOMAIN t.index_of : t.index_of[v] \in 0 .. len - 1
      /\ \A i \in 0 .. len - 1 : Leaf(t, i) \in IndexedLeaf
  BY DEF Linked, Shape, Leaf
<1>7. u = [leaves |-> u.leaves, index_of |-> u.index_of, nodes |-> u.nodes]
  BY DEF Splice
<1>8. /\ \A v \in DOMAIN t.index_of : Leaf(t, t.index_of[v]).value = v
      /\ \A i \in 0 .. len - 1 :
             Leaf(t, i).value \in DOMAIN t.index_of /\ t.index_of[Leaf(t, i).value] = i
  BY DEF Linked, IndexExact
<1>9. \A i \in 0 .. len - 1 :
          /\ Leaf(t, i).value < Leaf(t, i).next_value
          /\ \A v \in DOMAIN t.index_of : ~(Leaf(t, i).value < v /\ v < Leaf(t, i).next_value)
  BY DEF Linked, GapsEmpty
<1>10. \A i \in 0 .. len - 1 :
          IF Leaf(t, i).next_value = MAX_NULLIFIER THEN Leaf(t, i).next_index = 0
          ELSE /\ Leaf(t, i).next_value \in DOMAIN t.index_of
               /\ t.index_of[Leaf(t, i).next_value] = Leaf(t, i).next_index
  BY DEF Linked, LinksExact
<1> HIDE DEF k, len, u, low
<1>11. Shape(u)
  BY <1>1, <1>2, <1>3, <1>6, <1>7, SMTT(30) DEF Shape
<1>12. IndexExact(u)
  <2>1. ASSUME NEW v \in DOMAIN u.index_of PROVE Leaf(u, u.index_of[v]).value = v
    <3>1. CASE v = n
      BY <1>1, <1>2, <1>5, <3>1
    <3>2. CASE v # n
      <4>1. v \in DOMAIN t.index_of /\ u.index_of[v] = t.index_of[v] /\ t.index_of[v] \in 0 .. len - 1
        BY <1>1, <1>6, <3>2
      <4>2. CASE t.index_of[v] = k
        BY <1>1, <1>2, <1>5, <1>8, <4>1, <4>2 DEF low
      <4>3. CASE t.index_of[v] # k
        BY <1>1, <1>2, <1>8, <4>1, <4>3
      <4> QED BY <4>2, <4>3
    <3> QED BY <3>1, <3>2
  <2>2. ASSUME NEW i \in 0 .. len
        PROVE  Leaf(u, i).value \in DOMAIN u.index_of /\ u.index_of[Leaf(u, i).value] = i
    <3>1. CASE i = len
      BY <1>1, <1>5, <3>1
    <3>2. CASE i = k
      BY <1>1, <1>2, <1>4, <1>5, <3>2
    <3>3. CASE i # len /\ i # k
      <4>1. i \in 0 .. len - 1 /\ Leaf(u, i) = Leaf(t, i)
        BY <1>1, <1>2, <3>3
      <4> QED BY <1>1, <1>8, <4>1
    <3> QED BY <3>1, <3>2, <3>3
  <2>3. 0 .. Len(u.leaves) - 1 = 0 .. len
    BY <1>1, <1>2
  <2> QED BY <2>1, <2>2, <2>3 DEF IndexExact
<1>13. GapsEmpty(u)
  <2>1. ASSUME NEW i \in 0 .. len, NEW v \in DOMAIN u.index_of
        PROVE  Leaf(u, i).value < Leaf(u, i).next_value
               /\ ~(Leaf(u, i).value < v /\ v < Leaf(u, i).next_value)
    <3>1. v \in Nat
      BY <1>1, <1>3, <1>6
    <3>2. low.value \in Nat /\ low.next_value \in Nat
      <4>1. low \in IndexedLeaf
        BY <1>2, <1>6 DEF low
      <4> QED BY <1>3, <4>1 DEF IndexedLeaf
    <3>3. CASE i = len
      <4>1. v \in DOMAIN t.index_of => ~(low.value < v /\ v < low.next_value)
        BY <1>2, <1>9 DEF low
      <4> QED BY <1>1, <1>3, <1>4, <1>5, <3>1, <3>2, <3>3, <4>1
    <3>4. CASE i = k
      <4>1. v \in DOMAIN t.index_of /\ v < n => v <= low.value
        BY <1>4
      <4>2. Leaf(u, i).value = low.value /\ Leaf(u, i).next_value = n
        BY <1>1, <1>2, <1>5, <3>4
      <4> QED BY <1>1, <1>3, <1>4, <3>1, <3>2, <4>1, <4>2
    <3>5. CASE i # len /\ i # k
      <4>1. i \in 0 .. len - 1 /\ Leaf(u, i) = Leaf(t, i)
        BY <1>1, <1>2, <3>5
      <4>2. Leaf(t, i).value \in Nat /\ Leaf(t, i).next_value \in Nat /\ Leaf(t, i).value \in DOMAIN t.index_of
            /\ t.index_of[Leaf(t, i).value] = i
        BY <1>3, <1>6, <1>8, <4>1 DEF IndexedLeaf
      <4>3. ~(Leaf(t, i).value < n /\ n < Leaf(t, i).next_value)
        <5> SUFFICES ASSUME Leaf(t, i).value < n, n < Leaf(t, i).next_value PROVE FALSE
          OBVIOUS
        <5>1. Leaf(t, i).value <= low.value
          BY <1>4, <4>2
        <5>2. Leaf(t, i).value # low.value
          BY <1>4, <3>5, <4>2
        <5>3. Leaf(t, i).value < low.value /\ low.value < Leaf(t, i).next_value
          BY <1>3, <1>4, <3>2, <4>2, <5>1, <5>2
        <5> QED BY <1>4, <1>9, <4>1, <5>3
      <4>4. v = n \/ v \in DOMAIN t.index_of
        BY <1>1
      <4>5. Leaf(t, i).value < Leaf(t, i).next_value
            /\ (v \in DOMAIN t.index_of => ~(Leaf(t, i).value < v /\ v < Leaf(t, i).next_value))
        BY <1>9, <4>1
      <4> QED BY <4>1, <4>3, <4>4, <4>5
    <3> QED BY <3>3, <3>4, <3>5
  <2>2. 0 .. Len(u.leaves) - 1 = 0 .. len
    BY <1>1, <1>2
  <2>3. 0 \in DOMAIN u.index_of
    BY <1>1, <1>6
  <2> QED BY <2>1, <2>2, <2>3 DEF GapsEmpty
<1>14. LinksExact(u)
  <2>1. ASSUME NEW i \in 0 .. len
        PROVE  IF Leaf(u, i).next_value = MAX_NULLIFIER THEN Leaf(u, i).next_index = 0
               ELSE /\ Leaf(u, i).next_value \in DOMAIN u.index_of
                    /\ u.index_of[Leaf(u, i).next_value] = Leaf(u, i).next_index
    <3>1. CASE i = len
      <4>1. Leaf(u, i).next_value = low.next_value /\ Leaf(u, i).next_index = low.next_index
        BY <1>1, <1>5, <3>1
      <4>2. IF low.next_value = MAX_NULLIFIER THEN low.next_index = 0
            ELSE low.next_value \in DOMAIN t.index_of /\ t.index_of[low.next_value] = low.next_index
        BY <1>2, <1>10 DEF low
      <4> QED BY <1>1, <4>1, <4>2
    <3>2. CASE i = k
      <4>1. Leaf(u, i).next_value = n /\ Leaf(u, i).next_index = len
        BY <1>1, <1>2, <1>5, <3>2
      <4> QED BY <1>1, <1>3, <4>1
    <3>3. CASE i # len /\ i # k
      <4>1. i \in 0 .. len - 1 /\ Leaf(u, i) = Leaf(t, i)
        BY <1>1, <1>2, <3>3
      <4>2. IF Leaf(t, i).next_value = MAX_NULLIFIER THEN Leaf(t, i).next_index = 0
            ELSE /\ Leaf(t, i).next_value \in DOMAIN t.index_of
                 /\ t.index_of[Leaf(t, i).next_value] = Leaf(t, i).next_index
        BY <1>10, <4>1
      <4> QED BY <1>1, <4>1, <4>2
    <3> QED BY <3>1, <3>2, <3>3
  <2>2. 0 .. Len(u.leaves) - 1 = 0 .. len
    BY <1>1, <1>2
  <2> QED BY <2>1, <2>2 DEF LinksExact
<1> QED BY <1>11, <1>12, <1>13, <1>14 DEF Linked, u

-----------------------------------------------------------------------------
Cached(t) == Caches(t.nodes, LeafHashOf(t))

(* insert keeps the cached nodes those of the tree over the new leaves:    *)
(* both leaf updates reach the root.                                       *)
LEMMA SpliceKeepsCache ==
    ASSUME NEW t, Linked(t), Cached(t), NEW n \in Nullifiers, n \notin DOMAIN t.index_of,
           Len(t.leaves) < Capacity
    PROVE  Cached(Splice(t, n))
<1> DEFINE k == find_low_leaf_index(t, n)
           len == Len(t.leaves)
           u == Splice(t, n)
           f == LeafHashOf(t)
           g == [i \in Nat |-> IF i = k THEN leaf_hash(LowAfter(t, n)) ELSE f[i]]
           h == LeafHashOf(u)
<1>1. /\ Len(u.leaves) = len + 1
      /\ \A i \in 0 .. len : Leaf(u, i) = IF i = len THEN NewAfter(t, n)
                                          ELSE IF i = k THEN LowAfter(t, n) ELSE Leaf(t, i)
  BY SpliceFacts
<1>2. len \in Nat /\ k \in Nat /\ k < len
  BY LowLeafFacts DEF Linked, Shape
<1>3. u.nodes = set_leaf(set_leaf(t.nodes, k, leaf_hash(LowAfter(t, n))), len, leaf_hash(NewAfter(t, n)))
  BY DEF Splice, LowAfter, NewAfter
<1>4. \A i \in Nat : f[i] = IF i < len THEN leaf_hash(Leaf(t, i)) ELSE ZeroLeaf
  BY DEF LeafHashOf
<1>5. \A i \in Nat : h[i] = IF i < len + 1 THEN leaf_hash(Leaf(u, i)) ELSE ZeroLeaf
  BY <1>1 DEF LeafHashOf
<1>6. \A i \in Nat : g[i] = IF i = k THEN leaf_hash(LowAfter(t, n)) ELSE f[i]
  OBVIOUS
<1>7. Caches(t.nodes, f)
  BY DEF Cached
<1> HIDE DEF k, len, u, f, g, h
<1>8. Caches(set_leaf(t.nodes, k, g[k]), g)
  BY <1>2, <1>6, <1>7, SetLeafCaches
<1>9. ASSUME NEW i \in Nat \ {len} PROVE g[i] = h[i]
  <2>1. CASE i < len
    <3>1. i \in 0 .. len /\ i < len + 1
      BY <1>2, <2>1
    <3> QED BY <1>1, <1>4, <1>5, <1>6, <2>1, <3>1
  <2>2. CASE ~(i < len)
    <3>1. i # k /\ ~(i < len + 1)
      BY <1>2, <2>2
    <3> QED BY <1>4, <1>5, <1>6, <2>2, <3>1
  <2> QED BY <2>1, <2>2
<1>10. h[len] = leaf_hash(NewAfter(t, n)) /\ g[k] = leaf_hash(LowAfter(t, n))
  <2>1. len \in 0 .. len /\ len < len + 1
    BY <1>2
  <2> QED BY <1>1, <1>2, <1>5, <1>6, <2>1
<1>11. Caches(set_leaf(set_leaf(t.nodes, k, g[k]), len, h[len]), h)
  BY <1>2, <1>8, <1>9, SetLeafCaches
<1> QED BY <1>3, <1>10, <1>11 DEF Cached, h, u

(* NullifierTree::new makes a list of the sentinel alone, with its path    *)
(* cached.                                                                 *)
LEMMA NewIsLinked == Linked(new) /\ Cached(new)
<1> DEFINE none == [d \in 0 .. TREE_DEPTH |-> <<>>]
           zero == [i \in Nat |-> ZeroLeaf]
<1>1. /\ new.leaves = <<Sentinel>> /\ new.index_of = [v \in {0} |-> 0]
      /\ new.nodes = set_leaf(none, 0, leaf_hash(Sentinel))
      /\ new = [leaves |-> new.leaves, index_of |-> new.index_of, nodes |-> new.nodes]
  BY DEF new
<1>2. Len(new.leaves) = 1 /\ Leaf(new, 0) = Sentinel
  BY <1>1 DEF Leaf
<1>3. DOMAIN new.index_of = {0} /\ new.index_of[0] = 0
  BY <1>1
<1>4. MAX_NULLIFIER \in Nat \ {0} /\ Capacity \in Nat \ {0}
  BY MaxNullifierAssumption, CapacityIsPositive
<1>5. Sentinel.value = 0 /\ Sentinel.next_value = MAX_NULLIFIER /\ Sentinel.next_index = 0
      /\ Sentinel \in IndexedLeaf
  BY <1>4 DEF Sentinel, IndexedLeaf
<1>6. new.leaves \in Seq(IndexedLeaf)
  BY <1>1, <1>5
<1>7. 0 .. Len(new.leaves) - 1 = {0}
  BY <1>2
<1>8. Linked(new)
  <2>1. Shape(new)
    BY <1>1, <1>2, <1>3, <1>4, <1>6, <1>7 DEF Shape
  <2>2. IndexExact(new)
    BY <1>2, <1>3, <1>5, <1>7 DEF IndexExact
  <2>3. GapsEmpty(new)
    BY <1>2, <1>3, <1>4, <1>5, <1>7 DEF GapsEmpty
  <2>4. LinksExact(new)
    BY <1>2, <1>5, <1>7 DEF LinksExact
  <2> QED BY <2>1, <2>2, <2>3, <2>4 DEF Linked
<1>9. Caches(none, zero)
  <2>1. \A i \in Nat : zero[i] = ZeroLeaf
    OBVIOUS
  <2>2. \A d \in 0 .. TREE_DEPTH, i \in Nat : FullTree(zero)[d][i] = zero_hashes[d]
    <3> HIDE DEF zero
    <3> QED BY <2>1, EmptyTree
  <2>3. \A d \in 0 .. TREE_DEPTH, i \in Nat : NodeAt(none, d, i) = zero_hashes[d]
    BY DEF NodeAt
  <2> HIDE DEF none, zero
  <2> QED BY <2>2, <2>3 DEF Caches
<1>10. \A i \in Nat : LeafHashOf(new)[i] = IF i = 0 THEN leaf_hash(Sentinel) ELSE ZeroLeaf
  BY <1>2 DEF LeafHashOf
<1>11. \A i \in Nat \ {0} : zero[i] = LeafHashOf(new)[i]
  BY <1>10
<1> HIDE DEF none, zero
<1>12. Caches(set_leaf(none, 0, LeafHashOf(new)[0]), LeafHashOf(new))
  BY <1>9, <1>11, SetLeafCaches
<1> QED BY <1>1, <1>8, <1>10, <1>12 DEF Cached

(* insert keeps list and cache, also when the value was there (the early   *)
(* return).                                                                *)
LEMMA InsertKeeps ==
    ASSUME NEW t, Linked(t), Cached(t), NEW n \in Nullifiers, Len(t.leaves) < Capacity
    PROVE  Linked(insert(t, n)) /\ Cached(insert(t, n))
BY SpliceKeepsList, SpliceKeepsCache DEF insert, contains

-----------------------------------------------------------------------------
(* root reads the root of the full tree from an exact cache.               *)
LEMMA RootOfCache ==
    ASSUME NEW t, Cached(t)
    PROVE  root(t) = FullTreeRoot(LeafHashOf(t))
BY TreeDepthAssumption DEF Cached, Caches, root, FullTreeRoot

(* path_for returns, for every slot, a path that opens the root to its     *)
(* leaf.                                                                   *)
LEMMA PathsOfCache ==
    ASSUME NEW t, Cached(t), NEW i \in 0 .. Capacity - 1
    PROVE  /\ FullLength(path_for(t, i))
           /\ compute_root_from_path(LeafHashOf(t)[i], i, path_for(t, i)) = root(t)
<1>1. i \in Nat /\ i < Capacity
  BY CapacityIsPositive
<1>2. path_for(t, i) = PathOf(LeafHashOf(t), i)
  BY <1>1, SiblingsArePath DEF Cached, path_for
<1>3. FullLength(path_for(t, i))
  BY TreeDepthAssumption DEF path_for, Siblings, FullLength
<1>4. compute_root_from_path(LeafHashOf(t)[i], i, PathOf(LeafHashOf(t), i)) = FullTreeRoot(LeafHashOf(t))
  BY <1>1, PathOpens
<1> QED BY <1>2, <1>3, <1>4, RootOfCache

(* A fresh witness of prove_non_membership opens the root it was made for. *)
LEMMA WitnessOpens ==
    ASSUME NEW t, Linked(t), Cached(t), NEW n \in Nullifiers
    PROVE  LET w == prove_non_membership(t, n)
           IN  /\ w.low_leaf_index \in 0 .. Len(t.leaves) - 1
               /\ w.low_leaf_index < Capacity
               /\ w.low_leaf = Leaf(t, w.low_leaf_index)
               /\ FullLength(w.sibling_path)
               /\ compute_root_from_path(leaf_hash(w.low_leaf), w.low_leaf_index, w.sibling_path) = root(t)
<1> DEFINE k == find_low_leaf_index(t, n)
           w == prove_non_membership(t, n)
<1>1. k \in 0 .. Len(t.leaves) - 1 /\ Len(t.leaves) \in 1 .. Capacity
  BY LowLeafFacts DEF Linked, Shape
<1>2. w.low_leaf_index = k /\ w.low_leaf = Leaf(t, k) /\ w.sibling_path = path_for(t, k)
  BY DEF prove_non_membership
<1>3. k \in 0 .. Capacity - 1 /\ k < Len(t.leaves) /\ k \in Nat /\ k < Capacity
  BY <1>1, CapacityIsPositive
<1>4. LeafHashOf(t)[k] = leaf_hash(Leaf(t, k))
  BY <1>3 DEF LeafHashOf
<1> HIDE DEF k, w
<1>5. FullLength(path_for(t, k)) /\ compute_root_from_path(LeafHashOf(t)[k], k, path_for(t, k)) = root(t)
  BY <1>3, PathsOfCache
<1>6. /\ w.low_leaf_index \in 0 .. Len(t.leaves) - 1
      /\ w.low_leaf_index < Capacity
      /\ w.low_leaf = Leaf(t, w.low_leaf_index)
      /\ FullLength(w.sibling_path)
      /\ compute_root_from_path(leaf_hash(w.low_leaf), w.low_leaf_index, w.sibling_path) = root(t)
  BY <1>1, <1>2, <1>3, <1>4, <1>5
<1> QED BY <1>6 DEF w

(* The members are the keys of index_of between the sentinels.             *)
LEMMA MembersFacts ==
    ASSUME NEW t, Linked(t), NEW n \in Nullifiers
    PROVE  n \in Members(t) <=> n \in DOMAIN t.index_of
BY MaxNullifierAssumption DEF Members, Nullifiers

(* verify_nonmembership accepts a fresh witness exactly for an absent      *)
(* value.                                                                  *)
LEMMA FreshVerdict ==
    ASSUME NEW t, Linked(t), Cached(t), NEW n \in Nullifiers
    PROVE  verify_nonmembership(root(t), n, prove_non_membership(t, n)) <=> n \notin Members(t)
<1> DEFINE w == prove_non_membership(t, n)
           k == find_low_leaf_index(t, n)
<1>1. compute_root_from_path(leaf_hash(w.low_leaf), w.low_leaf_index, w.sibling_path) = root(t)
  BY WitnessOpens
<1>2. w.low_leaf = Leaf(t, k)
  BY DEF prove_non_membership
<1>3. k \in 0 .. Len(t.leaves) - 1 /\ Leaf(t, k).value < n
      /\ (n \notin DOMAIN t.index_of => n < Leaf(t, k).next_value)
  BY LowLeafFacts, LowValueFacts
<1>4. n \in DOMAIN t.index_of => ~(Leaf(t, k).value < n /\ n < Leaf(t, k).next_value)
  BY <1>3 DEF Linked, GapsEmpty
<1> HIDE DEF w, k
<1>5. verify_nonmembership(root(t), n, w) <=> n \notin DOMAIN t.index_of
  BY <1>1, <1>2, <1>3, <1>4 DEF verify_nonmembership
<1> QED BY <1>5, MembersFacts DEF w

(* insert of a present value changes nothing; of a new one it adds one     *)
(* leaf, and the value to the members.                                     *)
LEMMA InsertGrows ==
    ASSUME NEW t, Linked(t), NEW n \in Nullifiers, Len(t.leaves) < Capacity
    PROVE  /\ n \in DOMAIN t.index_of => insert(t, n) = t
           /\ n \notin DOMAIN t.index_of =>
                  /\ Len(insert(t, n).leaves) = Len(t.leaves) + 1
                  /\ Members(insert(t, n)) = Members(t) \union {n}
<1>1. n \in DOMAIN t.index_of => insert(t, n) = t
  BY DEF insert, contains
<1>2. n \notin DOMAIN t.index_of => insert(t, n) = Splice(t, n)
  BY DEF insert, contains
<1>3. n # 0
  BY MaxNullifierAssumption DEF Nullifiers
<1> QED BY <1>1, <1>2, <1>3, SpliceFacts DEF Members
=============================================================================
