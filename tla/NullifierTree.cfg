SPECIFICATION Spec
CONSTANTS
    TREE_DEPTH = 2
    MAX_NULLIFIER = 6
INVARIANTS
    TypeOK
    SortedLinkedList
    CachedRootExact
    NonMembershipExact
    OnlyOwnLeavesOpen
PROPERTY
    ImplementsNullifierSet
