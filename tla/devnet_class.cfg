SPECIFICATION Spec
CONSTANTS
    Suites = {"plain", "shared", "cch", "p2p"}
    MaxMethods <- MCMaxMethods
    Leftovers = {{}, {"ckb"}, {"fiber1", "lnd0"}}
INVARIANTS
    HarnessInv
    LeaksAreReported
    OldNodeOnlyAfterFailure
    StoreIsFreeOnStart
PROPERTY EventuallyQuiet
CHECK_DEADLOCK FALSE
