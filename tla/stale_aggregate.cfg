SPECIFICATION Spec
CONSTANTS
    None = None
    boot = boot
    peerA = peerA
    self = self
    node1 = node1
    chan1 = chan1
    node1new = node1new
    PollInterval = 1
    StableWindow = 2
    MaxWait = 4
    MaxDelay = 1
    PeerSets <- MCPeerSets
    Bootnodes <- MCBootnodes
    NodeSets <- MCNodeSets
    ChannelSets <- MCChannelSets
    Self = self
    Aggregates <- MCAggregates
    MaxLines = 2
    MaxSwaps = 1
    MaxEvents = 1
INVARIANT StaleAggregateNeverCompletes
CHECK_DEADLOCK FALSE
