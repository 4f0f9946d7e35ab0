SPECIFICATION FairSpec
CONSTANTS
    Methods = {get_transaction, send_transaction}
    None = None
    MaxRequests = 4
    MaxQueued = 1
    MaxCalls = 4
    Limits = {0, 1}
INVARIANTS
    ProxyInv
    ReopenedServes
    AtMostOneOverTheLimit
PROPERTIES
    NobodyWaitsForEver
    ForwardsOnlyThroughTheGate
CHECK_DEADLOCK FALSE
