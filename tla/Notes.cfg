SPECIFICATION Spec
CONSTANTS
    alice = alice
    bob = bob
    carol = carol
    Parties = {alice, bob, carol}
    Coins <- MCCoins
    Ids = {1, 2}
    MaxOutputs = 2
    MaxSlots = 2
INVARIANTS
    TypeOK
    FindsExactlyOwnCoins
    OutsidersReadNothing
    
CHECK_DEADLOCK FALSE
