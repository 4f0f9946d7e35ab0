SPECIFICATION Spec
CONSTANTS
    Coins <- MCCoins
    MaxTxs = 4
    MaxTests = 2
    MaxFaucets = 1
    MineTries = 2
    MaxRounds = 3
    MaxPays = 2
    MaxSends = 1
    TryCount = 1
    RpcTries = 2
    MaxChannels = 3
    OpenTries = 2
INVARIANTS
    BodyInv
    CoinsAreFree
    SendsReportTheOutcome
    
PROPERTY PaymentsSettle
CHECK_DEADLOCK FALSE
