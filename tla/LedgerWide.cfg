SPECIFICATION Spec
CONSTANTS
    SecretKeys <- MCKeys
    PublicKeys <- MCPublicKeys
    derive_pk <- MCDerive
    GENESIS_SK = "genesis"
    Coins <- MCWideCoins
    ValueModulus = 4
    MaxInputs = 1
    MaxOutputs = 2
    MaxSlots = 3
    MaxPending = 1
INVARIANTS
    TransactionBalanced
CHECK_DEADLOCK FALSE
