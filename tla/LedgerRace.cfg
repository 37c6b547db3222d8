SPECIFICATION FairSpec
CONSTANTS
    SecretKeys <- MCKeys
    PublicKeys <- MCPublicKeys
    derive_pk <- MCDerive
    GENESIS_SK = "genesis"
    Coins <- MCUnitCoins
    ValueModulus = 16
    MaxInputs = 1
    MaxOutputs = 1
    MaxSlots = 3
    MaxPending = 2
INVARIANTS
    CoinSpentOnce
    DoubleSpendIsARace
    ChainOfCustody
PROPERTIES
    ImplementsCoinBook
    CoinsReachWallets
CHECK_DEADLOCK FALSE
