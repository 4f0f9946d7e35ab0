-------------------------- MODULE GraphSyncMonitor --------------------------
(***************************************************************************)
(* The monitoring loop of run_attempt (src/framework/daily_graph_sync.py), *)
(* run against the dedicated fnn process it watches.                       *)
(*                                                                         *)
(* Each poll reads the aggregate lines appended to node.log, then calls    *)
(* list_peers, graph_nodes, graph_channels and list_peers again, then      *)
(* evaluates what it saw.  The node, its peers and the clock move between  *)
(* any two of those steps.                                                 *)
(***************************************************************************)
EXTENDS Integers, Sequences, FiniteSets

CONSTANTS
    PollInterval,  \* POLL_INTERVAL
    StableWindow,  \* STABLE_WINDOW
    MaxWait,       \* MAX_WAIT, the hard deadline of the attempt
    MaxDelay,      \* bound: time a due poll or a running scan is held up
    PeerSets,      \* the peer sets the node may have
    Bootnodes,     \* the peers match_bootnodes recognises
    NodeSets,      \* the sets of announcements graph_nodes may return
    ChannelSets,   \* the sets of channels graph_channels may return
    Self,          \* the announcement of the measured node itself
    Aggregates,    \* the aggregate counters the node may log
    MaxLines,      \* bound: aggregate lines the node logs
    MaxSwaps,      \* bound: changes of the peer set
    MaxEvents,     \* bound: graph changes, failures and exits together
    None           \* Python's None

ASSUME MonitorAssumption ==
    /\ PollInterval \in Nat \ {0}
    /\ StableWindow \in Nat \ {0}
    /\ MaxWait \in Nat
    /\ MaxDelay \in Nat
    /\ \A P \in PeerSets : IsFiniteSet(P)
    /\ \A N \in NodeSets : IsFiniteSet(N)
    /\ \A C \in ChannelSets : IsFiniteSet(C)
    /\ Aggregates \subseteq
         [total : Nat, finished : Nat, active : Nat, passive : Nat]
    /\ None \notin Nat
    /\ None \notin PeerSets \cup NodeSets \cup ChannelSets
    /\ None \notin [nodes : {N \ {Self} : N \in NodeSets}, channels : ChannelSets]

MaxSampleGap == 2 * PollInterval

-----------------------------------------------------------------------------
VARIABLES
    \* the world: the clock, the fnn process and its view of the network
    now,              \* time.monotonic() - start
    alive,            \* the fnn process runs
    peers,            \* what list_peers would return now
    nodes,            \* what graph_nodes would return now
    channels,         \* what graph_channels would return now
    log,              \* the aggregate lines of node.log
    swaps,            \* changes of the peer set so far
    events,           \* the other disturbances so far
    \* run_attempt
    pc,               \* where the loop is
    verdict,          \* how the attempt ended
    nextPoll,         \* next_poll
    seq,              \* agg_reader.seq
    peersBefore,      \* peers_before
    nodesSeen,        \* the result of paginate("graph_nodes")
    channelsSeen,     \* the result of paginate("graph_channels")
    peersAfter,       \* peers_after
    prevPeers,        \* prev_peer_fp
    peerChangeSeq,    \* peer_change_seq
    peerSetChanges,   \* peer_set_changes
    prevGraph,        \* prev_count, prev_digest
    lastCountChange,  \* last_count_change_ts
    lastDigestChange, \* last_digest_change_ts
    completionSince,  \* completion_since
    lastSample,       \* last_successful_sample_ts
    \* history, read by properties only
    genAtRead,        \* swaps when the current poll read the log
    changeGen         \* genAtRead of the poll that last set peerChangeSeq

world   == <<now, alive, peers, nodes, channels, log, swaps, events>>
scan    == <<peersBefore, nodesSeen, channelsSeen, peersAfter>>
gate    == <<prevPeers, peerChangeSeq, peerSetChanges, changeGen>>
window  == <<prevGraph, lastCountChange, lastDigestChange, completionSince,
             lastSample>>
poll    == <<nextPoll, seq, genAtRead>>
vars    == <<world, pc, verdict, poll, scan, gate, window>>

RpcSteps == {"peers_before", "graph_nodes", "graph_channels", "peers_after"}

Verdicts == {"measuring", "converged", "timed_out", "node_exited",
             "log_error", "graph_error"}

-----------------------------------------------------------------------------
(* Reading an observation *)

\* An aggregate line with the peer set it describes.
Line(a, P, g) == [agg |-> a, peers |-> P, gen |-> g]

\* Mutated form: the completed state still has to show finished > 0.
StillFinished(a) == a.finished > 0 /\ a.active = 0 /\ a.finished + a.passive = a.total

\* SyncAggregate.all_connected_finished
AllConnectedFinished(a) ==
    a.total > 0 /\ a.active = 0 /\ a.finished + a.passive = a.total

\* AggregateReader.ever_finished: some line read so far had finished > 0.
EverFinished == \E i \in 1..seq : log[i].agg.finished > 0

\* Our own announcement counts neither for node_count nor for the digest.
Remote(N) == N \ {Self}

ObservedGraph == [nodes |-> Remote(nodesSeen), channels |-> channelsSeen]

CountOf(g) == <<Cardinality(g.nodes), Cardinality(g.channels)>>

Nonempty(g) == g.nodes # {} /\ g.channels # {}

Later(s, t) == IF s >= t THEN s ELSE t

\* Mutated form: unobserved time is not looked at.
GapNeverExceeded == FALSE

\* _sample_gap_exceeded(last_successful_sample_ts, sample_ts)
GapExceeded == lastSample # None /\ now - lastSample > MaxSampleGap

\* Mutated form: the line read by the discovering poll counts as fresh.
FreshOrSame(c) == seq >= c

\* fresh_aggregate, for a peer set last seen to change when seq was c
Fresh(c) == seq > c

\* completion, for the peers P and graph g of this sample
Completion(P, g, c) ==
    /\ EverFinished
    /\ seq > 0
    /\ AllConnectedFinished(log[seq].agg)
    /\ log[seq].agg.total = Cardinality(P)
    /\ Fresh(c)
    /\ P \cap Bootnodes # {}
    /\ Nonempty(g)

\* Mutated form: the first peer set seen counts as a change.
PeersDiffer(P) == prevPeers # P

\* P is not the peer set of the observation before, if there was one.
PeersMoved(P) == prevPeers # None /\ prevPeers # P

\* Mutated form: the loop runs on past its deadline.
NoDeadline == TRUE

\* time.monotonic() < deadline
TimeLeft == now < MaxWait

-----------------------------------------------------------------------------
Init ==
    /\ now = 0
    /\ alive = TRUE
    /\ peers \in PeerSets
    /\ nodes \in NodeSets
    /\ channels \in ChannelSets
    /\ log = <<>>
    /\ swaps = 0
    /\ events = 0
    /\ pc = "wait"
    /\ verdict = "measuring"
    /\ nextPoll = 0
    /\ seq = 0
    /\ peersBefore = None
    /\ nodesSeen = None
    /\ channelsSeen = None
    /\ peersAfter = None
    /\ prevPeers = None
    /\ peerChangeSeq = 0
    /\ peerSetChanges = 0
    /\ prevGraph = None
    /\ lastCountChange = 0
    /\ lastDigestChange = 0
    /\ completionSince = None
    /\ lastSample = None
    /\ genAtRead = 0
    /\ changeGen = 0

-----------------------------------------------------------------------------
(* The world *)

monitor == <<pc, verdict, poll, scan, gate, window>>

Running == verdict = "measuring"

\* Time passes.  A due poll and a running scan are held up at most MaxDelay.
Tick ==
    /\ Running
    /\ now < MaxWait
    /\ IF pc = "wait"
       THEN now < nextPoll + MaxDelay
       ELSE now < nextPoll - PollInterval + MaxDelay
    /\ now' = now + 1
    /\ UNCHANGED <<alive, peers, nodes, channels, log, swaps, events, monitor>>

\* The gossip maintenance tick logs the counters of the current peers.
LogAggregate ==
    /\ Running
    /\ alive
    /\ Len(log) < MaxLines
    /\ \E a \in Aggregates :
         /\ a.total = Cardinality(peers)
         /\ log' = Append(log, Line(a, peers, swaps))
    /\ UNCHANGED <<now, alive, peers, nodes, channels, swaps, events, monitor>>

ChangePeers ==
    /\ Running
    /\ alive
    /\ swaps < MaxSwaps
    /\ peers' \in PeerSets \ {peers}
    /\ swaps' = swaps + 1
    /\ UNCHANGED <<now, alive, nodes, channels, log, events, monitor>>

ChangeGraph ==
    /\ Running
    /\ alive
    /\ events < MaxEvents
    /\ \/ nodes' \in NodeSets \ {nodes} /\ UNCHANGED channels
       \/ channels' \in ChannelSets \ {channels} /\ UNCHANGED nodes
    /\ events' = events + 1
    /\ UNCHANGED <<now, alive, peers, log, swaps, monitor>>

NodeExit ==
    /\ Running
    /\ alive
    /\ events < MaxEvents
    /\ alive' = FALSE
    /\ events' = events + 1
    /\ UNCHANGED <<now, peers, nodes, channels, log, swaps, monitor>>

-----------------------------------------------------------------------------
(* The loop *)

End(v) ==
    /\ verdict' = v
    /\ pc' = "done"

\* while time.monotonic() < deadline
LoopDeadline ==
    /\ pc = "wait"
    /\ ~TimeLeft
    /\ End("timed_out")
    /\ UNCHANGED <<world, poll, scan, gate, window>>

\* node.proc.poll() at the top of the loop, also between two polls
SeeNodeExit ==
    /\ pc = "wait"
    /\ TimeLeft
    /\ ~alive
    /\ End("node_exited")
    /\ UNCHANGED <<world, poll, scan, gate, window>>

\* read_latest_aggregate, the first thing a due poll does
ReadLog ==
    /\ pc = "wait"
    /\ TimeLeft
    /\ alive
    /\ now >= nextPoll
    /\ nextPoll' = now + PollInterval
    /\ seq' = Len(log)
    /\ genAtRead' = swaps
    /\ pc' = "peers_before"
    /\ UNCHANGED <<world, verdict, scan, gate, window>>

\* NodeLogError: node.log ran past its cap or shrank
ReadLogFails ==
    /\ pc = "wait"
    /\ TimeLeft
    /\ alive
    /\ now >= nextPoll
    /\ events < MaxEvents
    /\ events' = events + 1
    /\ nextPoll' = now + PollInterval
    /\ End("log_error")
    /\ UNCHANGED <<now, alive, peers, nodes, channels, log, swaps, seq,
                   genAtRead, scan, gate, window>>

Answered(step, next) ==
    /\ pc = step
    /\ TimeLeft
    /\ alive
    /\ pc' = next
    /\ UNCHANGED <<world, verdict, poll, gate, window>>

ListPeersBefore ==
    /\ Answered("peers_before", "graph_nodes")
    /\ peersBefore' = peers
    /\ UNCHANGED <<nodesSeen, channelsSeen, peersAfter>>

PaginateNodes ==
    /\ Answered("graph_nodes", "graph_channels")
    /\ nodesSeen' = nodes
    /\ UNCHANGED <<peersBefore, channelsSeen, peersAfter>>

PaginateChannels ==
    /\ Answered("graph_channels", "peers_after")
    /\ channelsSeen' = channels
    /\ UNCHANGED <<peersBefore, nodesSeen, peersAfter>>

ListPeersAfter ==
    /\ Answered("peers_after", "evaluate")
    /\ peersAfter' = peers
    /\ UNCHANGED <<peersBefore, nodesSeen, channelsSeen>>

\* What was scanned is local to the iteration.
DropScan ==
    /\ peersBefore' = None
    /\ nodesSeen' = None
    /\ channelsSeen' = None
    /\ peersAfter' = None

\* Mutated form: the open window survives the failed observation.
ForgetSample ==
    /\ lastSample' = None
    /\ UNCHANGED completionSince

\* An observation that cannot be used breaks the stable window.
ResetWindow ==
    /\ completionSince' = None
    /\ lastSample' = None

\* A transport or RPC error: the handler resets the window and polls again.
ObservationFailed ==
    /\ pc \in RpcSteps
    /\ TimeLeft
    /\ IF alive THEN events < MaxEvents /\ events' = events + 1
                ELSE UNCHANGED events
    /\ ResetWindow
    /\ pc' = "wait"
    /\ DropScan
    /\ UNCHANGED <<now, alive, peers, nodes, channels, log, swaps, verdict,
                   poll, gate, prevGraph, lastCountChange, lastDigestChange>>

\* GraphError: a reply of the wrong shape fails the attempt.
MalformedReply ==
    /\ pc \in RpcSteps
    /\ TimeLeft
    /\ alive
    /\ events < MaxEvents
    /\ events' = events + 1
    /\ End("graph_error")
    /\ UNCHANGED <<now, alive, peers, nodes, channels, log, swaps, poll, scan,
                   gate, window>>

\* DeadlineExceeded before the next call of the scan
ScanDeadline ==
    /\ pc \in RpcSteps
    /\ ~TimeLeft
    /\ End("timed_out")
    /\ UNCHANGED <<world, poll, scan, gate, window>>

\* The peers moved while the graph was being read: nothing of it is used.
DiscardSample ==
    /\ pc = "evaluate"
    /\ peersBefore # peersAfter
    /\ peerSetChanges' = peerSetChanges + 1
         + (IF PeersMoved(peersBefore) THEN 1 ELSE 0)
    /\ prevPeers' = peersAfter
    /\ peerChangeSeq' = seq
    /\ changeGen' = genAtRead
    /\ ResetWindow
    /\ pc' = "wait"
    /\ DropScan
    /\ UNCHANGED <<world, verdict, poll, prevGraph, lastCountChange,
                   lastDigestChange>>

\* Bind the sample to the peer set it was taken with.
ObservePeers ==
    /\ prevPeers' = peersAfter
    /\ peerSetChanges' =
         IF PeersMoved(peersAfter) THEN peerSetChanges + 1 ELSE peerSetChanges
    /\ IF peersAfter # prevPeers
       THEN peerChangeSeq' = seq /\ changeGen' = genAtRead
       ELSE UNCHANGED <<peerChangeSeq, changeGen>>

\* Compare the sample with the one before it.
ObserveGraph ==
    /\ prevGraph' = ObservedGraph
    /\ lastDigestChange' =
         IF prevGraph = ObservedGraph THEN lastDigestChange ELSE now
    /\ lastCountChange' =
         IF prevGraph # None /\ CountOf(prevGraph) = CountOf(ObservedGraph)
         THEN lastCountChange ELSE now
    /\ lastSample' = now

\* completion_since, once this sample has been taken into account
SinceAfterSample(P, g, c) ==
    IF ~Completion(P, g, c) THEN None
    ELSE IF completionSince = None \/ P # prevPeers \/ GapExceeded THEN now
    ELSE completionSince

GraphStable ==
    LET since == IF completionSince' = None THEN now ELSE completionSince'
    IN  now - Later(Later(lastCountChange', lastDigestChange'), since)
          >= StableWindow

Sample ==
    /\ pc = "evaluate"
    /\ peersBefore = peersAfter
    /\ ObservePeers
    /\ ObserveGraph
    /\ completionSince' =
         SinceAfterSample(peersAfter, ObservedGraph, peerChangeSeq')
    /\ DropScan
    /\ UNCHANGED <<world, poll>>

StableAndComplete == completionSince' # None /\ GraphStable

AcceptSample ==
    /\ Sample
    /\ ~StableAndComplete
    /\ pc' = "wait"
    /\ UNCHANGED verdict

Converge ==
    /\ Sample
    /\ StableAndComplete
    /\ alive
    /\ End("converged")

\* proc.poll() after the final scan
ExitedDuringFinalScan ==
    /\ Sample
    /\ StableAndComplete
    /\ ~alive
    /\ End("node_exited")

-----------------------------------------------------------------------------
World == Tick \/ LogAggregate \/ ChangePeers \/ ChangeGraph \/ NodeExit

Loop ==
    \/ LoopDeadline
    \/ SeeNodeExit
    \/ ReadLog
    \/ ReadLogFails
    \/ ListPeersBefore
    \/ PaginateNodes
    \/ PaginateChannels
    \/ ListPeersAfter
    \/ ObservationFailed
    \/ MalformedReply
    \/ ScanDeadline
    \/ DiscardSample
    \/ AcceptSample
    \/ Converge
    \/ ExitedDuringFinalScan

Next == World \/ Loop

Spec == Init /\ [][Next]_vars

(* The process runs until it ends its attempt and the clock does not stop. *)
FairSpec == Spec /\ WF_vars(Tick) /\ WF_vars(Loop)
-----------------------------------------------------------------------------
(* Properties *)

\* Every variable keeps to its type; node.log only ever holds lines whose total
\* is the size of the peer set they describe.
TypeOK ==
    /\ now \in 0..MaxWait
    /\ alive \in BOOLEAN
    /\ peers \in PeerSets
    /\ nodes \in NodeSets
    /\ channels \in ChannelSets
    /\ log \in Seq([agg : Aggregates, peers : PeerSets, gen : Nat])
    /\ swaps \in Nat
    /\ events \in Nat
    /\ pc \in RpcSteps \cup {"wait", "evaluate", "done"}
    /\ verdict \in Verdicts
    /\ nextPoll \in Nat
    /\ seq \in Nat
    /\ peersBefore \in PeerSets \cup {None}
    /\ nodesSeen \in NodeSets \cup {None}
    /\ channelsSeen \in ChannelSets \cup {None}
    /\ peersAfter \in PeerSets \cup {None}
    /\ prevPeers \in PeerSets \cup {None}
    /\ peerChangeSeq \in Nat
    /\ peerSetChanges \in Nat
    /\ prevGraph \in
         [nodes : {Remote(N) : N \in NodeSets}, channels : ChannelSets] \cup {None}
    /\ lastCountChange \in Nat
    /\ lastDigestChange \in Nat
    /\ completionSince \in Nat \cup {None}
    /\ lastSample \in Nat \cup {None}
    /\ genAtRead \in Nat
    /\ changeGen \in Nat

\* What a scan holds once its steps have been answered.
ScanInv ==
    /\ pc \in {"graph_nodes", "graph_channels", "peers_after", "evaluate"}
         => peersBefore # None
    /\ pc \in {"graph_channels", "peers_after", "evaluate"} => nodesSeen # None
    /\ pc \in {"peers_after", "evaluate"} => channelsSeen # None
    /\ pc = "evaluate" => peersAfter # None
    /\ verdict = "measuring" <=> pc # "done"

\* The reader never runs ahead of node.log, and a line that it reads after a
\* poll, or that was logged after the poll that saw the peers change, describes
\* a peer set no older than the one in place when that poll read the log.
ReaderInv ==
    /\ seq <= Len(log)
    /\ peerChangeSeq <= seq
    /\ changeGen <= genAtRead
    /\ genAtRead <= swaps
    /\ \A i \in 1..Len(log) :
         /\ log[i].gen <= swaps
         /\ i > seq => log[i].gen >= genAtRead
         /\ i > peerChangeSeq => log[i].gen >= changeGen

\* An open stability window lies in the past and has been fed by a sample.
WindowInv ==
    /\ lastCountChange <= now
    /\ lastDigestChange <= now
    /\ lastSample # None => lastSample <= now /\ prevGraph # None
    /\ completionSince # None =>
         /\ lastSample # None
         /\ prevPeers # None
         /\ completionSince <= lastSample
         /\ lastCountChange <= lastSample
         /\ lastDigestChange <= lastSample

MonitorInv == TypeOK /\ ScanInv /\ ReaderInv /\ WindowInv

\* A verdict "converged" rests on an aggregate line that describes the peer set
\* in place when the poll that discovered the current peers read node.log, or a
\* later one: peer_change_seq bounds how stale the counters can be.
StalenessBounded ==
    verdict = "converged" => seq > 0 /\ log[seq].gen >= changeGen

\* The report never counts more peer-set changes than there were, although one
\* poll may add two (before the scan and during it).
PeerSetChangesNeverOvercounted == peerSetChanges <= swaps

\* Docstring of daily_graph_sync.py, lines 17-20: a stale aggregate describing
\* an old, equal-count peer set can never satisfy completion.
StaleAggregateNeverCompletes ==
    verdict = "converged" => log[seq].peers = prevPeers

WindowOpen == completionSince # None

\* The anchor of an open window: when the unbroken run began.
RunSince ==
    IF WindowOpen
    THEN Later(Later(lastCountChange, lastDigestChange), completionSince)
    ELSE 0

Outcome == IF verdict \in {"measuring", "converged"} THEN verdict ELSE "failed"

\* The promise of STABLE_WINDOW and MAX_SAMPLE_GAP, without the loop's timestamps.
Abstract == INSTANCE StableConvergence WITH
    Window <- StableWindow, MaxGap <- MaxSampleGap,
    open <- WindowOpen, since <- RunSince, last <- lastSample,
    view <- <<prevPeers, prevGraph>>, verdict <- Outcome

\* run_attempt converges only on an unbroken, gap-free series of samples of one
\* peer set and one graph that spans the stability window.
ConvergesOnlyOnStableWindow == Abstract!Spec

\* The hard deadline ends every attempt, whatever the node does.
EventuallyEnds == <>(verdict # "measuring")

\* Nothing disturbs the network any more, it is fully synced with a bootnode
\* connected, and a line that says so waits to be read.
Settled ==
    /\ verdict = "measuring"
    /\ pc = "wait"
    /\ alive
    /\ swaps = MaxSwaps
    /\ events = MaxEvents
    /\ Len(log) = MaxLines
    /\ Len(log) > seq
    /\ \E i \in 1..Len(log) : log[i].agg.finished > 0
    /\ LET a == log[Len(log)].agg
       IN  /\ a.total = Cardinality(peers)
           /\ a.active = 0
           /\ a.finished + a.passive = a.total
    /\ prevPeers = peers
    /\ peers \cap Bootnodes # {}
    /\ Remote(nodes) # {}
    /\ channels # {}

\* Time enough before the deadline: one poll to read the line and open the
\* window, then the window, each poll held up at most MaxDelay.
EnoughTimeLeft ==
    nextPoll + MaxDelay + StableWindow + PollInterval + MaxDelay < MaxWait

\* Measurement is not needlessly strict: a network that has settled while there
\* is time enough is reported as converged.
SettledNetworkConverges ==
    (Settled /\ EnoughTimeLeft) ~> (verdict = "converged")
=============================================================================
