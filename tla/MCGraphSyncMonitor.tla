------------------------- MODULE MCGraphSyncMonitor -------------------------
(* Small instances of GraphSyncMonitor for TLC. *)
EXTENDS GraphSyncMonitor

CONSTANTS boot, peerA, self, node1, node1new, chan1

\* A bootnode, another peer, or both: {boot} and {peerA} have equal counts.
MCPeerSets == {{boot}, {peerA}, {boot, peerA}}
MCBootnodes == {boot}

\* Before the first remote announcement arrives, with it, and after it was
\* replaced by a newer one: same count, other content.
MCNodeSets == {{self}, {self, node1}, {self, node1new}}
MCChannelSets == {{chan1}}

\* For the liveness run: the node's announcement is stable, channels come and go.
LiveNodeSets == {{self, node1}}
LiveChannelSets == {{}, {chan1}}

Agg(t, f, a, p) == [total |-> t, finished |-> f, active |-> a, passive |-> p]

MCAggregates == {Agg(1, 1, 0, 0), Agg(1, 0, 0, 1), Agg(2, 1, 1, 0)}
=============================================================================
