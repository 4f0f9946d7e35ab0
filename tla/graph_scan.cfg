SPECIFICATION FairSpec
CONSTANTS
    None = None
    k1 = k1
    k2 = k2
    ident = ident
    other = other
    Ids = {k1, k2}
    Idents = {ident, other}
    Updates <- MCUpdates
    NodeRecords <- MCNodeRecords
    ChannelRecords <- MCChannelRecords
    Last = 3
    MaxPages = 3
    MaxChanges = 1
INVARIANTS
    MergedIsNewest
    NoConflictHidden
    ScanInv
    CleanScanIsComplete
 
CHECK_DEADLOCK FALSE
