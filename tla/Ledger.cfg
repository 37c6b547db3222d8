SPECIFICATION Spec
CONSTANTS
    SecretKeys <- MCKeys
    PublicKeys <- MCPublicKeys
    derive_pk <- MCDerive
    GENESIS_SK = "genesis"
    Coins <- MCCoins
    ValueModulus = 16
    MaxInputs = 1
    MaxOutputs = 2
    MaxSlots = 3
    MaxPending = 1
INVARIANTS
    TypeOK
    WalletExact
    PanicOnlyOnDoubleSpend
    NoInflation
CHECK_DEADLOCK FALSE
