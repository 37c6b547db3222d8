SPECIFICATION Spec
CONSTANTS
    TREE_DEPTH = 1
    Ciphertexts = {c1}
    EntryNullifiers = {n1, n2}
INVARIANT
    OnlyGenuineEntry
CHECK_DEADLOCK FALSE
