SPECIFICATION Spec
CONSTANTS
    Hosts = {h1, h2}
    Elfs = {"spend", "coinproof"}
    Inputs = {"a", "b", "c"}
    Spend = "spend"
    RootOf <- MCRootOf
INVARIANT
    BoardRootAsserted
