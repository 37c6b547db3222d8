SPECIFICATION Spec
CONSTANTS
    genesis = genesis
    alice = alice
    bob = bob
    carol = carol
    GENESIS_SK = genesis
    Coins <- MCCoins
    Wallets <- MCWallets
    Scripts <- MCScripts
    NullifierOf <- MCNullifierOf
    MAX_NULLIFIER = 29
    TREE_DEPTH = 2
    ValueModulus = 8
INVARIANTS
    TypeOK
    ReceiptsAnswerRequest
    PostedSpendsAnchored
    AccumulatorIsReplay
    PanicsExactlyOnBadTransfers
    ValidationNeverHalts
PROPERTIES
    ImplementsLedger
    RunEnds
