SPECIFICATION Spec
CONSTANTS
    TREE_DEPTH = 3
    Ciphertexts = {c1, c2}
    EntryNullifiers = {n1}
INVARIANTS
    TypeOK
    RootIsFullTree
    SamePathBothRoots
    AnchorIsPriorRoot
    AnchorPathOpensOwnSlot
    InclusionExact
CHECK_DEADLOCK FALSE
