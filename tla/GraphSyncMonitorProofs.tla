----------------------- MODULE GraphSyncMonitorProofs -----------------------
(***************************************************************************)
(* Proofs about GraphSyncMonitor for every value of its constants.         *)
(***************************************************************************)
EXTENDS GraphSyncMonitor, TLAPS

\* The initial state satisfies the inductive invariant.
LEMMA InitMonitorInv == Init => MonitorInv
<1> SUFFICES ASSUME Init PROVE MonitorInv
    OBVIOUS
<1>1. TypeOK
    BY MonitorAssumption DEF Init, TypeOK, RpcSteps, Verdicts
<1>2. ScanInv
    BY DEF Init, ScanInv
<1>3. ReaderInv
    BY DEF Init, ReaderInv
<1>4. WindowInv
    BY DEF Init, WindowInv
<1>5. QED
    BY <1>1, <1>2, <1>3, <1>4 DEF MonitorInv

\* Every step keeps every variable within its type.
LEMMA TypeStep == TypeOK /\ ScanInv /\ [Next]_vars => TypeOK'
<1> SUFFICES ASSUME TypeOK, ScanInv, [Next]_vars PROVE TypeOK'
    OBVIOUS
<1> USE MonitorAssumption
<1>1. CASE Tick
    BY <1>1 DEF Tick, TypeOK, monitor, poll, scan, gate, window
<1>2. CASE LogAggregate
    <2>1. PICK a \in Aggregates : log' = Append(log, Line(a, peers, swaps))
        BY <1>2 DEF LogAggregate
    <2>2. Line(a, peers, swaps) \in [agg : Aggregates, peers : PeerSets, gen : Nat]
        BY DEF Line, TypeOK
    <2>3. log' \in Seq([agg : Aggregates, peers : PeerSets, gen : Nat])
        BY <2>1, <2>2 DEF TypeOK
    <2>4. QED
        BY <1>2, <2>3 DEF LogAggregate, TypeOK, monitor, poll, scan, gate, window
<1>3. CASE ChangePeers
    BY <1>3 DEF ChangePeers, TypeOK, monitor, poll, scan, gate, window
<1>4. CASE ChangeGraph
    BY <1>4 DEF ChangeGraph, TypeOK, monitor, poll, scan, gate, window
<1>5. CASE NodeExit
    <2>1. alive' \in BOOLEAN
        BY <1>5, Zenon DEF NodeExit
    <2>2. UNCHANGED monitor /\ events' \in Nat
          /\ UNCHANGED <<now, peers, nodes, channels, log, swaps>>
        BY <1>5 DEF NodeExit, TypeOK
    <2>3. QED
        BY <2>1, <2>2 DEF TypeOK, monitor, poll, scan, gate, window
<1>6. CASE LoopDeadline \/ SeeNodeExit \/ ScanDeadline
    BY <1>6 DEF LoopDeadline, SeeNodeExit, ScanDeadline, End, TypeOK, Verdicts,
                world, poll, scan, gate, window
<1>7. CASE ReadLog
    <2>1. Len(log) \in Nat /\ now + PollInterval \in Nat
        BY DEF TypeOK
    <2>2. QED
        BY <1>7, <2>1 DEF ReadLog, TypeOK, RpcSteps, world, scan, gate, window
<1>8. CASE ReadLogFails
    BY <1>8 DEF ReadLogFails, End, TypeOK, Verdicts, scan, gate, window
<1>9. CASE ListPeersBefore \/ PaginateNodes \/ PaginateChannels \/ ListPeersAfter
    BY <1>9 DEF ListPeersBefore, PaginateNodes, PaginateChannels, ListPeersAfter,
                Answered, TypeOK, RpcSteps, world, poll, gate, window
<1>10. CASE ObservationFailed
    BY <1>10, SMTT(30) DEF ObservationFailed, ResetWindow, DropScan, TypeOK, poll, gate
<1>11. CASE MalformedReply
    BY <1>11 DEF MalformedReply, End, TypeOK, Verdicts, poll, scan, gate, window
<1>12. CASE DiscardSample
    BY <1>12 DEF DiscardSample, ResetWindow, DropScan, ScanInv, TypeOK, world, poll
<1>13. ASSUME Sample
       PROVE  /\ completionSince' \in Nat \cup {None}
              /\ prevGraph' \in [nodes : {Remote(N) : N \in NodeSets},
                                 channels : ChannelSets]
    <2>1. completionSince' \in Nat \cup {None}
        BY <1>13 DEF Sample, SinceAfterSample, TypeOK
    <2>2. nodesSeen \in NodeSets /\ channelsSeen \in ChannelSets
        BY <1>13 DEF Sample, ScanInv, TypeOK
    <2>3. QED
        BY <1>13, <2>1, <2>2 DEF Sample, ObserveGraph, ObservedGraph
<1>14. ASSUME Sample,
              pc' \in {"wait", "done"}, verdict' \in Verdicts
       PROVE TypeOK'
    BY <1>13, <1>14 DEF Sample, ObservePeers, ObserveGraph, DropScan, TypeOK,
                        ScanInv, world, poll
<1>15. CASE AcceptSample \/ Converge \/ ExitedDuringFinalScan
    BY <1>14, <1>15 DEF AcceptSample, Converge, ExitedDuringFinalScan, End,
                        Verdicts, TypeOK
<1>16. CASE UNCHANGED vars
    BY <1>16 DEF vars, world, poll, scan, gate, window, TypeOK
<1>17. QED
    BY <1>1, <1>2, <1>3, <1>4, <1>5, <1>6, <1>7, <1>8, <1>9, <1>10, <1>11,
       <1>12, <1>15, <1>16 DEF Next, World, Loop

\* What a scan holds follows the loop's control.
LEMMA ScanStep == TypeOK /\ ScanInv /\ [Next]_vars => ScanInv'
<1> SUFFICES ASSUME TypeOK, ScanInv, [Next]_vars PROVE ScanInv'
    OBVIOUS
<1>1. CASE World
    BY <1>1 DEF World, Tick, LogAggregate, ChangePeers, ChangeGraph, NodeExit,
                monitor, scan, ScanInv
<1>2. CASE LoopDeadline \/ SeeNodeExit \/ ReadLogFails \/ MalformedReply
           \/ ScanDeadline
    BY <1>2 DEF LoopDeadline, SeeNodeExit, ReadLogFails, MalformedReply,
                ScanDeadline, End, scan, ScanInv, RpcSteps
<1>3. CASE ReadLog \/ ObservationFailed \/ DiscardSample
    BY <1>3 DEF ReadLog, ObservationFailed, DiscardSample, DropScan, scan,
                ScanInv, RpcSteps
<1>4. CASE ListPeersBefore \/ PaginateNodes \/ PaginateChannels \/ ListPeersAfter
    BY <1>4, MonitorAssumption
       DEF ListPeersBefore, PaginateNodes, PaginateChannels, ListPeersAfter,
           Answered, scan, ScanInv, TypeOK
<1>5. CASE AcceptSample \/ Converge \/ ExitedDuringFinalScan
    BY <1>5 DEF AcceptSample, Converge, ExitedDuringFinalScan, Sample, End,
                DropScan, ScanInv
<1>6. CASE UNCHANGED vars
    BY <1>6 DEF vars, scan, ScanInv
<1>7. QED
    BY <1>1, <1>2, <1>3, <1>4, <1>5, <1>6 DEF Next, Loop

\* The reader stays within node.log, and the generations of the lines behind
\* its two marks stay bounded from below.
LEMMA ReaderStep == TypeOK /\ ReaderInv /\ [Next]_vars => ReaderInv'
<1> SUFFICES ASSUME TypeOK, ReaderInv, [Next]_vars PROVE ReaderInv'
    OBVIOUS
<1>1. CASE LogAggregate
    <2>1. PICK a \in Aggregates : log' = Append(log, Line(a, peers, swaps))
        BY <1>1 DEF LogAggregate
    <2>2. /\ Len(log') = Len(log) + 1
          /\ \A i \in 1..Len(log) : log'[i] = log[i]
          /\ log'[Len(log) + 1].gen = swaps
        BY <2>1 DEF TypeOK, Line
    <2>3. UNCHANGED <<swaps, seq, peerChangeSeq, genAtRead, changeGen>>
        BY <1>1 DEF LogAggregate, monitor, poll, gate
    <2>4. QED
        BY <2>2, <2>3 DEF ReaderInv, TypeOK
<1>2. CASE Tick \/ ChangeGraph \/ NodeExit
    BY <1>2 DEF Tick, ChangeGraph, NodeExit, monitor, poll, gate, ReaderInv
<1>3. CASE ChangePeers
    <2>1. ASSUME NEW i \in 1..Len(log) PROVE log[i].gen \in Nat
        <3> DEFINE Lines == [agg : Aggregates, peers : PeerSets, gen : Nat]
        <3>1. log \in Seq(Lines)
            BY DEF TypeOK
        <3>2. log[i] \in Lines
            <4> HIDE DEF Lines
            <4> QED BY <3>1
        <3>3. QED
            BY <3>2
    <2>2. /\ swaps' = swaps + 1
          /\ UNCHANGED <<log, seq, peerChangeSeq, genAtRead, changeGen>>
        BY <1>3 DEF ChangePeers, monitor, poll, gate
    <2>3. QED
        BY <2>1, <2>2 DEF ReaderInv, TypeOK
<1>4. CASE ReadLog
    BY <1>4 DEF ReadLog, world, gate, ReaderInv, TypeOK
<1>5. CASE DiscardSample
    BY <1>5 DEF DiscardSample, world, poll, ReaderInv, TypeOK
<1>6. CASE AcceptSample \/ Converge \/ ExitedDuringFinalScan
    BY <1>6, SMTT(30) DEF AcceptSample, Converge, ExitedDuringFinalScan, Sample,
                ObservePeers, world, poll, ReaderInv, TypeOK
<1>7. CASE LoopDeadline \/ SeeNodeExit \/ ReadLogFails \/ ListPeersBefore
           \/ PaginateNodes \/ PaginateChannels \/ ListPeersAfter
           \/ ObservationFailed \/ MalformedReply \/ ScanDeadline
    BY <1>7 DEF LoopDeadline, SeeNodeExit, ReadLogFails, ListPeersBefore,
                PaginateNodes, PaginateChannels, ListPeersAfter, Answered,
                ObservationFailed, MalformedReply, ScanDeadline, world, poll,
                gate, ReaderInv
<1>8. CASE UNCHANGED vars
    BY <1>8 DEF vars, world, poll, gate, ReaderInv
<1>9. QED
    BY <1>1, <1>2, <1>3, <1>4, <1>5, <1>6, <1>7, <1>8 DEF Next, World, Loop

\* The window's timestamps are never ahead of the clock or of the last sample.
LEMMA WindowStep ==
    TypeOK /\ ScanInv /\ WindowInv /\ [Next]_vars => WindowInv'
<1> SUFFICES ASSUME TypeOK, ScanInv, WindowInv, [Next]_vars PROVE WindowInv'
    OBVIOUS
<1> USE MonitorAssumption
<1>1. CASE Tick
    BY <1>1, SMTT(30) DEF Tick, monitor, gate, window, WindowInv, TypeOK
<1>2. CASE LogAggregate \/ ChangePeers \/ ChangeGraph \/ NodeExit
    BY <1>2 DEF LogAggregate, ChangePeers, ChangeGraph, NodeExit, monitor, gate,
                window, WindowInv
<1>3. CASE LoopDeadline \/ SeeNodeExit \/ ReadLog \/ ReadLogFails
           \/ ListPeersBefore \/ PaginateNodes \/ PaginateChannels
           \/ ListPeersAfter \/ MalformedReply \/ ScanDeadline
    BY <1>3 DEF LoopDeadline, SeeNodeExit, ReadLog, ReadLogFails,
                ListPeersBefore, PaginateNodes, PaginateChannels,
                ListPeersAfter, Answered, MalformedReply, ScanDeadline, world,
                gate, window, WindowInv
<1>4. CASE ObservationFailed \/ DiscardSample
    BY <1>4 DEF ObservationFailed, DiscardSample, ResetWindow, world, WindowInv
<1>5. CASE AcceptSample \/ Converge \/ ExitedDuringFinalScan
    <2>1. Sample
        BY <1>5 DEF AcceptSample, Converge, ExitedDuringFinalScan
    <2>2. /\ now' = now
          /\ lastSample' = now
          /\ prevGraph' # None
          /\ prevPeers' # None
        BY <2>1 DEF Sample, ObservePeers, ObserveGraph, ObservedGraph, ScanInv,
                    TypeOK, world, Remote
    <2>3. lastCountChange' <= now /\ lastDigestChange' <= now
        BY <2>1 DEF Sample, ObserveGraph, WindowInv, TypeOK
    <2>4. completionSince' # None => completionSince' <= now
        BY <2>1 DEF Sample, SinceAfterSample, WindowInv, TypeOK
    <2>5. QED
        BY <2>2, <2>3, <2>4 DEF WindowInv, TypeOK
<1>6. CASE UNCHANGED vars
    BY <1>6 DEF vars, world, gate, window, WindowInv
<1>7. QED
    BY <1>1, <1>2, <1>3, <1>4, <1>5, <1>6 DEF Next, World, Loop

\* The inductive invariant of the monitoring loop.
THEOREM MonitorInvariant == Spec => []MonitorInv
<1>1. MonitorInv /\ [Next]_vars => MonitorInv'
    BY TypeStep, ScanStep, ReaderStep, WindowStep DEF MonitorInv
<1>2. QED
    BY InitMonitorInv, <1>1, PTL DEF Spec

\* Every variable keeps to its type.
THEOREM TypeCorrect == Spec => []TypeOK
<1>1. MonitorInv => TypeOK
    BY DEF MonitorInv
<1>2. QED
    BY MonitorInvariant, <1>1, PTL

\* A converged verdict rests on a line logged no earlier than the poll that
\* discovered the current peers read the log.
THEOREM StalenessIsBounded == Spec => []StalenessBounded
<1> DEFINE Fed == verdict = "converged" => seq > peerChangeSeq
<1>1. Init => Fed
    BY DEF Init
<1>2. TypeOK /\ ScanInv /\ Fed /\ [Next]_vars => Fed'
    <2> SUFFICES ASSUME TypeOK, ScanInv, Fed, [Next]_vars PROVE Fed'
        OBVIOUS
    <2>1. CASE World
        BY <2>1 DEF World, Tick, LogAggregate, ChangePeers, ChangeGraph,
                    NodeExit, monitor, poll, gate
    <2>2. CASE LoopDeadline \/ SeeNodeExit \/ ReadLogFails \/ MalformedReply
               \/ ScanDeadline \/ ExitedDuringFinalScan
        BY <2>2 DEF LoopDeadline, SeeNodeExit, ReadLogFails, MalformedReply,
                    ScanDeadline, ExitedDuringFinalScan, End
    <2>3. CASE ReadLog \/ ListPeersBefore \/ PaginateNodes \/ PaginateChannels
               \/ ListPeersAfter \/ ObservationFailed \/ DiscardSample
               \/ AcceptSample
        BY <2>3 DEF ReadLog, ListPeersBefore, PaginateNodes, PaginateChannels,
                    ListPeersAfter, Answered, ObservationFailed, DiscardSample,
                    AcceptSample, Sample, ScanInv, RpcSteps
    <2>4. CASE Converge
        <3>1. completionSince' # None
            BY <2>4 DEF Converge, StableAndComplete
        <3>2. Fresh(peerChangeSeq')
            BY <2>4, <3>1 DEF Converge, Sample, SinceAfterSample, Completion
        <3>3. QED
            BY <2>4, <3>2 DEF Converge, Sample, Fresh, poll
    <2>5. CASE UNCHANGED vars
        BY <2>5 DEF vars, poll, gate
    <2>6. QED
        BY <2>1, <2>2, <2>3, <2>4, <2>5 DEF Next, Loop
<1>3. MonitorInv /\ Fed => StalenessBounded
    BY DEF MonitorInv, ReaderInv, TypeOK, StalenessBounded
<1>4. MonitorInv => TypeOK /\ ScanInv
    BY DEF MonitorInv
<1>5. QED
    BY MonitorInvariant, <1>1, <1>2, <1>3, <1>4, PTL DEF Spec

\* A sample that leaves the window open begins a run, or extends the run there
\* was without a gap and without a change of what is observed.
LEMMA SampleKeepsOrStartsRun ==
    ASSUME TypeOK, ScanInv, WindowInv, Sample, completionSince' # None
    PROVE  /\ RunSince' = now \/ Abstract!Extend
           /\ lastSample' = now
<1> USE MonitorAssumption
<1>1. lastSample' = now /\ now \in Nat
    BY DEF Sample, ObserveGraph, TypeOK
<1>2. /\ lastDigestChange' \in Nat /\ lastDigestChange' <= now
      /\ lastCountChange' \in Nat /\ lastCountChange' <= now
      /\ completionSince' \in Nat /\ completionSince' <= now
    <2>1. lastDigestChange' \in Nat /\ lastDigestChange' <= now
        BY <1>1 DEF Sample, ObserveGraph, TypeOK, WindowInv
    <2>2. lastCountChange' \in Nat /\ lastCountChange' <= now
        BY <1>1 DEF Sample, ObserveGraph, TypeOK, WindowInv
    <2>3. completionSince' \in Nat /\ completionSince' <= now
        BY <1>1 DEF Sample, SinceAfterSample, TypeOK, WindowInv
    <2>4. QED
        BY <2>1, <2>2, <2>3
<1>3. CASE lastDigestChange' = now \/ lastCountChange' = now
           \/ completionSince' = now
    BY <1>1, <1>2, <1>3 DEF RunSince, WindowOpen, Later
<1>4. CASE lastDigestChange' # now /\ lastCountChange' # now
           /\ completionSince' # now
    <2>1. /\ prevGraph = ObservedGraph
          /\ prevGraph' = prevGraph
          /\ lastDigestChange' = lastDigestChange
          /\ lastCountChange' = lastCountChange
        BY <1>4 DEF Sample, ObserveGraph
    <2>2. /\ completionSince' = completionSince
          /\ completionSince # None
          /\ prevPeers = peersAfter
          /\ ~GapExceeded
        BY <1>4 DEF Sample, SinceAfterSample
    <2>3. prevPeers' = prevPeers
        BY <2>2 DEF Sample, ObservePeers
    <2>4. /\ lastSample \in Nat
          /\ lastSample <= now
          /\ now - lastSample <= MaxSampleGap
        BY <2>2 DEF WindowInv, TypeOK, GapExceeded, MaxSampleGap
    <2>5. RunSince' = RunSince
        BY <2>1, <2>2 DEF RunSince, WindowOpen
    <2>6. QED
        BY <1>1, <2>1, <2>2, <2>3, <2>4, <2>5 DEF Abstract!Extend, WindowOpen
<1>5. QED
    BY <1>1, <1>3, <1>4

\* run_attempt implements StableConvergence: it converges only on an unbroken,
\* gap-free series of samples of one peer set and one graph that spans the
\* stability window.
THEOREM ConvergenceRefinesStableWindow == Spec => ConvergesOnlyOnStableWindow
<1>1. Init => Abstract!Init
    BY DEF Init, Abstract!Init, WindowOpen, Outcome
<1>2. ASSUME MonitorInv, [Next]_vars PROVE [Abstract!Next]_(Abstract!vars)
    <2>0. TypeOK /\ ScanInv /\ WindowInv
        BY <1>2 DEF MonitorInv
    <2>1. CASE World \/ ReadLog \/ ListPeersBefore \/ PaginateNodes
               \/ PaginateChannels \/ ListPeersAfter
        BY <2>1 DEF World, Tick, LogAggregate, ChangePeers, ChangeGraph,
                    NodeExit, ReadLog, ListPeersBefore, PaginateNodes,
                    PaginateChannels, ListPeersAfter, Answered, monitor, gate,
                    window, WindowOpen, RunSince, Outcome, Abstract!vars
    <2>2. CASE LoopDeadline \/ SeeNodeExit \/ ReadLogFails \/ MalformedReply
               \/ ScanDeadline \/ ExitedDuringFinalScan
        <3>1. verdict = "measuring"
            BY <2>0, <2>2
               DEF LoopDeadline, SeeNodeExit, ReadLogFails, MalformedReply,
                        ScanDeadline, ExitedDuringFinalScan, Sample, ScanInv,
                        RpcSteps
        <3>2. verdict' \notin {"measuring", "converged"}
            BY <2>2 DEF LoopDeadline, SeeNodeExit, ReadLogFails, MalformedReply,
                        ScanDeadline, ExitedDuringFinalScan, End
        <3>3. QED
            BY <3>1, <3>2 DEF Abstract!Next, Abstract!GiveUp, Outcome
    <2>3. CASE ObservationFailed \/ DiscardSample
        <3>1. verdict = "measuring" /\ verdict' = verdict
            BY <2>0, <2>3 DEF ObservationFailed, DiscardSample, ScanInv, RpcSteps
        <3>2. completionSince' = None
            BY <2>3 DEF ObservationFailed, DiscardSample, ResetWindow
        <3>3. QED
            BY <3>1, <3>2 DEF Abstract!Next, Abstract!Observe, Abstract!Break,
                              WindowOpen, Outcome
    <2>4. CASE AcceptSample
        <3>1. verdict = "measuring" /\ verdict' = verdict
            BY <2>0, <2>4 DEF AcceptSample, Sample, ScanInv
        <3>2. \/ ~WindowOpen'
              \/ WindowOpen' /\ (RunSince' = lastSample' \/ Abstract!Extend)
            BY <2>0, <2>4, SampleKeepsOrStartsRun DEF AcceptSample, WindowOpen
        <3>3. QED
            BY <3>1, <3>2 DEF Abstract!Next, Abstract!Observe, Abstract!Break,
                              Abstract!Restart, Outcome
    <2>5. CASE Converge
        <3>1. /\ verdict = "measuring"
              /\ verdict' = "converged"
              /\ completionSince' # None
              /\ Sample
              /\ GraphStable
            BY <2>0, <2>5 DEF Converge, Sample, ScanInv, StableAndComplete, End
        <3>2. now - RunSince' >= StableWindow
            BY <3>1 DEF GraphStable, RunSince, WindowOpen
        <3>3. lastSample' = now /\ now \in Nat /\ RunSince' # now
            BY <2>0, <3>1, <3>2, SampleKeepsOrStartsRun, MonitorAssumption DEF TypeOK
        <3>4. Abstract!Extend
            BY <2>0, <3>1, <3>3, SampleKeepsOrStartsRun
        <3>5. QED
            BY <3>1, <3>2, <3>3, <3>4 DEF Abstract!Next, Abstract!Converge,
                                          Outcome
    <2>6. CASE UNCHANGED vars
        BY <2>6 DEF vars, gate, window, WindowOpen, RunSince, Outcome,
                    Abstract!vars
    <2>7. QED
        BY <1>2, <2>1, <2>2, <2>3, <2>4, <2>5, <2>6 DEF Next, Loop
<1>3. QED
    BY MonitorInvariant, <1>1, <1>2, PTL
       DEF Spec, ConvergesOnlyOnStableWindow, Abstract!Spec

-----------------------------------------------------------------------------
(* The number of peer-set changes *)

\* Two observations of the peers, one after the other, differ; None is none.
Moves(P, Q) == IF P # None /\ P # Q THEN 1 ELSE 0

\* What was counted, and what the observations made since then and the peers of this
\* moment will add to it, is covered by changes that there were.
ChangesInv ==
    /\ peerSetChanges <= swaps
    /\ pc \in {"wait", "peers_before"} =>
          peerSetChanges + Moves(prevPeers, peers) <= swaps
    /\ pc \in {"graph_nodes", "graph_channels", "peers_after"} =>
          peerSetChanges + Moves(prevPeers, peersBefore) + Moves(peersBefore, peers) <= swaps
    /\ pc = "evaluate" =>
          peerSetChanges + Moves(prevPeers, peersBefore) + Moves(peersBefore, peersAfter)
            + Moves(peersAfter, peers) <= swaps

\* A change that is seen through an observation in between is seen by one of the two.
LEMMA MovesFacts ==
    ASSUME NEW P, NEW Q, NEW R, Q # None
    PROVE  /\ Moves(P, R) <= Moves(P, Q) + Moves(Q, R)
           /\ Moves(P, Q) \in {0, 1}
           /\ Moves(P, P) = 0
BY DEF Moves

\* Every step keeps the account.
LEMMA ChangesStep == MonitorInv /\ ChangesInv /\ [Next]_vars => ChangesInv'
<1> SUFFICES ASSUME MonitorInv, ChangesInv, [Next]_vars PROVE ChangesInv'
    OBVIOUS
<1>0. /\ peerSetChanges \in Nat /\ swaps \in Nat
      /\ peers # None
      /\ TypeOK /\ ScanInv
    BY MonitorAssumption DEF MonitorInv, TypeOK
<1> USE DEF RpcSteps
<1>1. CASE Tick \/ LogAggregate \/ ChangeGraph \/ NodeExit
    BY <1>0, <1>1
    DEF Tick, LogAggregate, ChangeGraph, NodeExit, monitor, scan, gate, ChangesInv, Moves
<1>2. CASE ChangePeers
    <2>1. /\ swaps' = swaps + 1
          /\ UNCHANGED <<pc, peerSetChanges, prevPeers, peersBefore, peersAfter>>
          /\ pc # "done"
        BY <1>0, <1>2 DEF ChangePeers, Running, ScanInv, monitor, scan, gate
    <2>2. \A P : /\ Moves(P, peers') <= Moves(P, peers) + 1
                 /\ Moves(P, peers) \in {0, 1}
        BY DEF Moves
    <2>3. QED
        BY <1>0, <2>1, <2>2 DEF ChangesInv, Moves
<1>3. CASE LoopDeadline \/ SeeNodeExit \/ ReadLogFails \/ MalformedReply \/ ScanDeadline
    BY <1>0, <1>3
    DEF LoopDeadline, SeeNodeExit, ReadLogFails, MalformedReply, ScanDeadline, End,
        world, gate, ChangesInv
<1>4. CASE ReadLog
    BY <1>0, <1>4 DEF ReadLog, world, scan, gate, ChangesInv, Moves
<1>5. CASE ListPeersBefore
    BY <1>0, <1>5 DEF ListPeersBefore, Answered, world, gate, ChangesInv, Moves
<1>6. CASE PaginateNodes \/ PaginateChannels
    BY <1>0, <1>6 DEF PaginateNodes, PaginateChannels, Answered, world, gate, ChangesInv, Moves
<1>7. CASE ListPeersAfter
    BY <1>0, <1>7 DEF ListPeersAfter, Answered, world, gate, ScanInv, ChangesInv, Moves
<1>8. CASE ObservationFailed
    <2>1. /\ UNCHANGED <<swaps, peers, peerSetChanges, prevPeers>>
          /\ pc' = "wait"
        BY <1>8 DEF ObservationFailed, gate
    <2>2. peerSetChanges + Moves(prevPeers, peers) <= swaps
        <3>1. CASE pc = "peers_before"
            BY <3>1 DEF ChangesInv
        <3>2. CASE pc \in {"graph_nodes", "graph_channels", "peers_after"}
            <4>1. Moves(prevPeers, peers) <=
                      Moves(prevPeers, peersBefore) + Moves(peersBefore, peers)
                BY <1>0, <3>2, MovesFacts DEF ScanInv
            <4>2. QED
                BY <1>0, <3>2, <4>1 DEF ChangesInv, Moves
        <3>3. QED
            BY <1>8, <3>1, <3>2 DEF ObservationFailed
    <2>3. QED
        BY <1>0, <2>1, <2>2 DEF ChangesInv, Moves
<1>9. CASE DiscardSample
    <2>1. /\ peersBefore # None /\ peersBefore # peersAfter /\ pc = "evaluate"
          /\ UNCHANGED <<swaps, peers>>
          /\ pc' = "wait" /\ prevPeers' = peersAfter
        BY <1>0, <1>9 DEF DiscardSample, ScanInv, world
    <2>2. peerSetChanges' =
              peerSetChanges + Moves(peersBefore, peersAfter) + Moves(prevPeers, peersBefore)
        BY <1>0, <1>9, <2>1 DEF DiscardSample, PeersMoved, Moves
    <2>3. QED
        BY <1>0, <2>1, <2>2 DEF ChangesInv, Moves
<1>10. CASE AcceptSample \/ Converge \/ ExitedDuringFinalScan
    <2>1. /\ peersBefore = peersAfter /\ pc = "evaluate"
          /\ UNCHANGED <<swaps, peers>>
          /\ pc' \in {"wait", "done"} /\ prevPeers' = peersAfter
        BY <1>10 DEF AcceptSample, Converge, ExitedDuringFinalScan, Sample, ObservePeers,
                    End, world
    <2>2. peerSetChanges' = peerSetChanges + Moves(prevPeers, peersBefore)
        BY <1>0, <1>10, <2>1
        DEF AcceptSample, Converge, ExitedDuringFinalScan, Sample, ObservePeers,
            PeersMoved, Moves
    <2>3. QED
        BY <1>0, <2>1, <2>2 DEF ChangesInv, Moves
<1>11. CASE UNCHANGED vars
    BY <1>11 DEF vars, world, scan, gate, ChangesInv, Moves
<1>12. QED
    BY <1>1, <1>2, <1>3, <1>4, <1>5, <1>6, <1>7, <1>8, <1>9, <1>10, <1>11
    DEF Next, World, Loop

\* The report never counts more peer-set changes than there were, although one poll
\* may count two, may discard what it has seen, and may miss any number.
THEOREM ChangesAreNeverOvercounted == Spec => []PeerSetChangesNeverOvercounted
<1>1. Init => ChangesInv
    BY DEF Init, ChangesInv, Moves
<1>2. ChangesInv => PeerSetChangesNeverOvercounted
    BY DEF ChangesInv, PeerSetChangesNeverOvercounted
<1>3. QED
    BY MonitorInvariant, ChangesStep, <1>1, <1>2, PTL DEF Spec

-----------------------------------------------------------------------------
(* How many steps an attempt can take *)

\* The steps of a poll from here to the next one, this one included.
StepsOfPoll ==
    [peers_before |-> 6, graph_nodes |-> 5, graph_channels |-> 4, peers_after |-> 3,
     evaluate |-> 2, wait |-> 1]

\* What the loop has left to spend: six steps for every poll that is due before the
\* deadline, and those of the poll under way, at PollInterval each.
Budget ==
    IF pc = "done" THEN 0
    ELSE 6 * (MaxWait + PollInterval - nextPoll) + StepsOfPoll[pc] * PollInterval

FullBudget == 6 * (MaxWait + PollInterval) + PollInterval

\* No poll is scheduled later than an interval behind the deadline, and the one after
\* the poll under way is scheduled.
ScheduleInv ==
    /\ nextPoll <= MaxWait + PollInterval
    /\ pc \in RpcSteps \cup {"evaluate"} => nextPoll >= PollInterval

\* Every step keeps to the schedule.
LEMMA ScheduleStep == TypeOK /\ ScheduleInv /\ [Next]_vars => ScheduleInv'
<1> SUFFICES ASSUME TypeOK, ScheduleInv, [Next]_vars PROVE ScheduleInv'
    OBVIOUS
<1>1. CASE ReadLog \/ ReadLogFails
    <2>1. now \in Nat /\ now < MaxWait /\ nextPoll' = now + PollInterval
        BY <1>1 DEF ReadLog, ReadLogFails, TimeLeft, TypeOK
    <2>2. QED
        BY <2>1, MonitorAssumption DEF ScheduleInv
<1>2. CASE /\ UNCHANGED nextPoll
           /\ \/ UNCHANGED pc
              \/ pc \in RpcSteps
              \/ pc' \in {"wait", "done"}
    BY <1>2 DEF ScheduleInv, RpcSteps
<1>3. UNCHANGED pc \/ Loop
    BY DEF Next, World, Tick, LogAggregate, ChangePeers, ChangeGraph, NodeExit, monitor, vars
<1>4. UNCHANGED nextPoll \/ ReadLog \/ ReadLogFails
    BY DEF Next, World, Loop, Tick, LogAggregate, ChangePeers, ChangeGraph, NodeExit,
        LoopDeadline, SeeNodeExit, ListPeersBefore, PaginateNodes, PaginateChannels,
        ListPeersAfter, Answered, ObservationFailed, MalformedReply, ScanDeadline, DiscardSample,
        AcceptSample, Converge, ExitedDuringFinalScan, Sample, monitor, poll, vars
<1>5. Loop => ReadLog \/ ReadLogFails \/ pc \in RpcSteps \/ pc' \in {"wait", "done"}
    BY DEF Loop, LoopDeadline, SeeNodeExit, ListPeersBefore, PaginateNodes, PaginateChannels,
        ListPeersAfter, Answered, ObservationFailed, MalformedReply, ScanDeadline, DiscardSample,
        AcceptSample, Converge, ExitedDuringFinalScan, End, RpcSteps
<1>6. QED
    BY <1>1, <1>2, <1>3, <1>4, <1>5

\* What a step of the loop costs.
LEMMA StepsCost ==
    ASSUME MonitorInv, ScheduleInv, ScheduleInv', [Next]_vars, pc' # pc
    PROVE  Budget' + PollInterval <= Budget
<1>1. PICK p \in Nat \ {0} : p = PollInterval
    BY MonitorAssumption
<1>2. PICK x \in Nat : x = MaxWait + PollInterval - nextPoll
    BY MonitorAssumption DEF ScheduleInv, MonitorInv, TypeOK
<1>3. Budget = IF pc = "done" THEN 0 ELSE 6 * x + StepsOfPoll[pc] * p
    BY <1>1, <1>2 DEF Budget
<1>4. \A s \in DOMAIN StepsOfPoll : StepsOfPoll[s] * p >= p
    BY <1>1 DEF StepsOfPoll
<1>5. pc # "done" => pc \in DOMAIN StepsOfPoll /\ StepsOfPoll[pc] \in Nat
    BY DEF MonitorInv, TypeOK, RpcSteps, StepsOfPoll
<1>6. CASE pc # "done" /\ pc' = "done"
    <2>1. Budget' = 0
        BY <1>6 DEF Budget
    <2>2. PICK c \in Nat : c = StepsOfPoll[pc] * p /\ c >= p
        BY <1>1, <1>4, <1>5, <1>6
    <2>3. QED
        BY <1>1, <1>2, <1>3, <1>6, <2>1, <2>2
<1>7. CASE ReadLog
    <2>1. /\ pc = "wait" /\ pc' = "peers_before" /\ nextPoll' >= nextPoll + PollInterval
          /\ nextPoll' \in Nat
        BY <1>7, MonitorAssumption DEF ReadLog, MonitorInv, TypeOK
    <2>a. nextPoll' <= MaxWait + PollInterval /\ MaxWait \in Nat /\ nextPoll \in Nat
        BY MonitorAssumption DEF ScheduleInv, MonitorInv, TypeOK
    <2>2. PICK y \in Nat : y = MaxWait + PollInterval - nextPoll' /\ y + p <= x
        <3>1. PICK n \in Nat : n = nextPoll
            BY <2>a
        <3>2. PICK m \in Nat : m = nextPoll'
            BY <2>1
        <3>3. PICK w \in Nat : w = MaxWait
            BY <2>a
        <3>4. m >= n + p /\ m <= w + p /\ x = w + p - n
            BY <1>1, <1>2, <2>1, <2>a, <3>1, <3>2, <3>3
        <3>5. w + p - m \in Nat /\ w + p - m + p <= x
            BY <3>4
        <3>6. QED
            BY <1>1, <3>2, <3>3, <3>5
    <2>3. Budget' = 6 * y + 6 * p /\ Budget = 6 * x + 1 * p
        BY <1>1, <1>3, <2>1, <2>2 DEF Budget, StepsOfPoll
    <2>4. QED
        BY <1>1, <1>2, <2>2, <2>3
<1>8. CASE /\ UNCHANGED nextPoll
           /\ \/ pc = "peers_before" /\ pc' \in {"graph_nodes", "wait"}
              \/ pc = "graph_nodes" /\ pc' \in {"graph_channels", "wait"}
              \/ pc = "graph_channels" /\ pc' \in {"peers_after", "wait"}
              \/ pc = "peers_after" /\ pc' \in {"evaluate", "wait"}
              \/ pc = "evaluate" /\ pc' = "wait"
    <2>1. Budget' = 6 * x + StepsOfPoll[pc'] * p /\ Budget = 6 * x + StepsOfPoll[pc] * p
        BY <1>1, <1>2, <1>3, <1>8 DEF Budget
    <2>2. StepsOfPoll[pc'] * p + p <= StepsOfPoll[pc] * p
        BY <1>1, <1>8 DEF StepsOfPoll
    <2>3. StepsOfPoll[pc'] * p \in Nat /\ StepsOfPoll[pc] * p \in Nat
        BY <1>1, <1>8 DEF StepsOfPoll
    <2>4. QED
        BY <1>1, <1>2, <2>1, <2>2, <2>3
<1>9. CASE LoopDeadline \/ SeeNodeExit \/ ReadLogFails \/ MalformedReply \/ ScanDeadline
           \/ Converge \/ ExitedDuringFinalScan
    <2>1. pc # "done" /\ pc' = "done"
        BY <1>9 DEF LoopDeadline, SeeNodeExit, ReadLogFails, MalformedReply, ScanDeadline,
            Converge, ExitedDuringFinalScan, Sample, End, RpcSteps
    <2>2. QED
        BY <1>6, <2>1
<1>10. CASE ListPeersBefore \/ PaginateNodes \/ PaginateChannels \/ ListPeersAfter
            \/ ObservationFailed \/ DiscardSample \/ AcceptSample
    BY <1>8, <1>10 DEF ListPeersBefore, PaginateNodes, PaginateChannels, ListPeersAfter,
        Answered, ObservationFailed, DiscardSample, AcceptSample, Sample, RpcSteps, poll
<1>11. UNCHANGED pc \/ Loop
    BY DEF Next, World, Tick, LogAggregate, ChangePeers, ChangeGraph, NodeExit, monitor, vars
<1>12. QED
    BY <1>7, <1>9, <1>10, <1>11 DEF Loop

\* The hard deadline bounds the work, too: every step of the loop costs PollInterval of
\* a budget that nothing refills, neither the node nor the clock, and that is used up
\* only when the attempt has ended.  An attempt polls at most every PollInterval.
THEOREM AttemptsAreBounded ==
    Spec => /\ [](Budget \in 0..FullBudget)
            /\ [](Budget = 0 <=> verdict # "measuring")
            /\ [][Budget' + PollInterval <= Budget]_pc
<1>1. ASSUME MonitorInv, ScheduleInv
      PROVE  Budget \in 0..FullBudget /\ (Budget = 0 <=> verdict # "measuring")
    <2>1. PICK p \in Nat \ {0} : p = PollInterval
        BY MonitorAssumption
    <2>2. PICK x \in Nat : x = MaxWait + PollInterval - nextPoll
        BY <1>1, MonitorAssumption DEF ScheduleInv, MonitorInv, TypeOK
    <2>3. MaxWait \in Nat /\ nextPoll \in Nat /\ (pc = "done" <=> verdict # "measuring")
        BY <1>1, MonitorAssumption DEF MonitorInv, TypeOK, ScanInv
    <2>4. x <= MaxWait + p /\ (pc \in RpcSteps \cup {"evaluate"} => x <= MaxWait)
        BY <1>1, <2>1, <2>2, <2>3 DEF ScheduleInv
    <2>5. CASE pc = "done"
        BY <2>1, <2>3, <2>5 DEF Budget, FullBudget
    <2>6. CASE pc = "wait"
        <3>1. Budget = 6 * x + p
            BY <2>1, <2>2, <2>6 DEF Budget, StepsOfPoll
        <3>2. QED
            BY <2>1, <2>2, <2>3, <2>4, <2>6, <3>1 DEF FullBudget
    <2>7. CASE pc \in RpcSteps \cup {"evaluate"}
        <3>1. \E r \in 2..6 : Budget = 6 * x + r * p
            BY <2>1, <2>2, <2>7 DEF Budget, StepsOfPoll, RpcSteps
        <3>2. pc # "done" /\ pc # "wait"
            BY <2>7 DEF RpcSteps
        <3>3. \A r \in 2..6 : r * p \in Nat /\ r * p <= 6 * p
            BY <2>1
        <3>4. QED
            BY <2>1, <2>2, <2>3, <2>4, <2>7, <3>1, <3>2, <3>3 DEF FullBudget
    <2>8. QED
        BY <1>1, <2>5, <2>6, <2>7 DEF MonitorInv, TypeOK
<1>2. Init => ScheduleInv
    BY MonitorAssumption DEF Init, ScheduleInv, RpcSteps
<1>3. MonitorInv => TypeOK
    BY DEF MonitorInv
<1>4. MonitorInv /\ ScheduleInv => Budget \in 0..FullBudget
    BY <1>1
<1>5. MonitorInv /\ ScheduleInv => (Budget = 0 <=> verdict # "measuring")
    BY <1>1
<1>6. MonitorInv /\ ScheduleInv /\ ScheduleInv' /\ [Next]_vars =>
         [Budget' + PollInterval <= Budget]_pc
    BY StepsCost
<1>7. QED
    BY MonitorInvariant, ScheduleStep, <1>2, <1>3, <1>4, <1>5, <1>6, PTL DEF Spec
=============================================================================
