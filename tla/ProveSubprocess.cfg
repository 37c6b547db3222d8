SPECIFICATION FairSpec
CONSTANTS
    Hosts = {h1}
    Elfs = {"spend", "coinproof"}
    Inputs = {"a", "b", "c"}
    Spend = "spend"
    RootOf <- MCRootOf
INVARIANTS
    TypeOK
    ProofAnswersRequest
    SuccessMeansProof
PROPERTY
    CallEnds
