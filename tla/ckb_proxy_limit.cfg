SPECIFICATION Spec
CONSTANTS
    Methods = {get_transaction}
    None = None
    MaxRequests = 3
    MaxQueued = 1
    MaxCalls = 2
    Limits = {0, 1}
INVARIANT ExactlyTheLimit
CHECK_DEADLOCK FALSE
