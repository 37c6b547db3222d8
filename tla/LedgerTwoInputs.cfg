SPECIFICATION Spec
CONSTANTS
    SecretKeys <- MCKeys
    PublicKeys <- MCPublicKeys
    derive_pk <- MCDerive
    GENESIS_SK = "genesis"
    Coins <- MCPairCoins
    ValueModulus = 16
    MaxInputs = 2
    MaxOutputs = 2
    MaxSlots = 3
    MaxPending = 1
INVARIANTS
    CoinSpentOnce
CHECK_DEADLOCK FALSE
