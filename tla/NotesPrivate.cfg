SPECIFICATION Spec
CONSTANTS
    alice = alice
    bob = bob
    carol = carol
    Parties = {alice, bob, carol}
    Coins <- MCCoins
    Ids = {1}
    MaxOutputs = 2
    MaxSlots = 2
INVARIANT
    NotesPrivate
CHECK_DEADLOCK FALSE
