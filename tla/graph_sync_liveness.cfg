SPECIFICATION FairSpec
CONSTANTS
    None = None
    boot = boot
    peerA = peerA
    self = self
    node1 = node1
    chan1 = chan1
    node1new = node1new
    PollInterval = 1
    StableWindow = 2
    MaxWait = 6
    MaxDelay = 0
    PeerSets <- MCPeerSets
    Bootnodes <- MCBootnodes
    NodeSets <- LiveNodeSets
    ChannelSets <- LiveChannelSets
    Self = self
    Aggregates <- MCAggregates
    MaxLines = 2
    MaxSwaps = 1
    MaxEvents = 1
PROPERTIES
    EventuallyEnds
    
CHECK_DEADLOCK FALSE
