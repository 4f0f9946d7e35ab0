SPECIFICATION Spec
CONSTANTS
    None = None
    N = 1
    StableSeconds = 2
    SampleInterval = 1
    MaxDuration = 4
    MaxQuery = 1
    Counts = {1, 2}
    PeerSets = {{}, {p}}
    MaxChanges = 1
    MaxFailures = 1
INVARIANT PeerSignalsMeanPeers
CHECK_DEADLOCK FALSE
