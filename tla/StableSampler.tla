---------------------------- MODULE StableSampler ----------------------------
(***************************************************************************)
(* sample_nodes_graph_sync_until_stable: one thread polls several Fiber    *)
(* nodes in turn until the graph counts of each have been the same for     *)
(* StableSeconds, or the time is up, and summarises what it saw of each.   *)
(*                                                                         *)
(* A snapshot is four calls, each of which may fail on its own; the nodes  *)
(* change between any two of them.                                         *)
(***************************************************************************)
EXTENDS Integers, Sequences, FiniteSets

CONSTANTS
    N,              \* the number of targets
    StableSeconds,
    SampleInterval,
    MaxDuration,
    MaxQuery,       \* bound on the time a snapshot takes
    Counts,         \* the sizes a part of the graph may have
    PeerSets,       \* the peer sets a target may have
    MaxChanges,     \* bound on the changes of the targets
    MaxFailures,    \* bound on the failed calls
    None            \* Python's None

ASSUME SamplerAssumption ==
    /\ N \in Nat \ {0}
    /\ StableSeconds \in Nat \ {0}
    /\ SampleInterval \in Nat \ {0}
    /\ MaxDuration \in Nat
    /\ MaxQuery \in Nat
    /\ Counts \subseteq Nat
    /\ {} \in PeerSets
    /\ None \notin Counts

Targets == 1..N
Parts == {"graph_channels", "graph_nodes"}
Graph == [Parts -> Counts]

\* What is None is nothing else.
ASSUME NoneAssumption ==
    None \notin Graph \cup {"graph_stable", "max_duration_reached"}

VARIABLES
    now,        \* time.monotonic() - start
    graph,      \* per target: the sizes of its graph
    peers,      \* per target: its peers
    changes,    \* how often a target has changed
    failures,   \* calls that failed so far
    moved,      \* history: the targets whose peers have changed
    pc,         \* the next call of the snapshot, "evaluate", "round", "sleep" or "done"
    target,     \* the target of the loop over states
    snapshot,   \* the results of the calls made, and which of them failed
    started,    \* sample_started
    wake,       \* when the sleep ends
    state       \* per target: what the sampler keeps of it

world == <<graph, peers, changes, moved>>
vars == <<now, world, failures, pc, target, snapshot, started, wake, state>>

NoSnapshot == [count |-> [p \in Parts |-> None], peers |-> {}, errors |-> {}]

\* The counts are None before the first sample; reason before the summary.
Unsampled ==
    [first |-> None, last |-> None,
     added |-> [p \in Parts |-> 0], removed |-> [p \in Parts |-> 0],
     lastChange |-> 0, changeEvents |-> 0, regressions |-> 0,
     lastPeers |-> {}, peerChanges |-> 0, peerless |-> 0,
     failed |-> FALSE, samples |-> << >>, reason |-> None, signals |-> {}]

Done(t) == state[t].reason # None

-----------------------------------------------------------------------------
\* The first target is polled at once.
Init ==
    /\ now = 0
    /\ graph \in [Targets -> Graph]
    /\ peers \in [Targets -> PeerSets]
    /\ changes = 0
    /\ failures = 0
    /\ moved = {}
    /\ pc = "graph_channels"
    /\ target = 1
    /\ snapshot = NoSnapshot
    /\ started = 0
    /\ wake = 0
    /\ state = [t \in Targets |-> Unsampled]

-----------------------------------------------------------------------------
(* The world *)

Calls == {"graph_channels", "graph_nodes", "list_peers", "node_info"}

\* A call takes time, but has a timeout; a sleep ends.
Tick ==
    /\ \/ pc \in Calls /\ now < started + MaxQuery
       \/ pc = "sleep" /\ now < wake
    /\ now' = now + 1
    /\ UNCHANGED <<world, failures, pc, target, snapshot, started, wake, state>>

GraphChanges ==
    /\ pc # "done"
    /\ changes < MaxChanges
    /\ changes' = changes + 1
    /\ \E t \in Targets, g \in Graph : graph' = [graph EXCEPT ![t] = g]
    /\ UNCHANGED <<now, peers, moved, failures, pc, target, snapshot, started, wake,
                   state>>

PeersChange ==
    /\ pc # "done"
    /\ changes < MaxChanges
    /\ changes' = changes + 1
    /\ \E t \in Targets, P \in PeerSets :
         /\ P # peers[t]
         /\ peers' = [peers EXCEPT ![t] = P]
         /\ moved' = moved \cup {t}
    /\ UNCHANGED <<now, graph, failures, pc, target, snapshot, started, wake, state>>

-----------------------------------------------------------------------------
(* _query_sync_snapshot *)

Then == [graph_channels |-> "graph_nodes", graph_nodes |-> "list_peers",
         list_peers |-> "node_info", node_info |-> "evaluate"]

AnswerGraph ==
    /\ pc \in Parts
    /\ snapshot' = [snapshot EXCEPT !.count[pc] = graph[target][pc]]
    /\ pc' = Then[pc]
    /\ UNCHANGED <<now, world, failures, target, started, wake, state>>

AnswerPeers ==
    /\ pc = "list_peers"
    /\ snapshot' = [snapshot EXCEPT !.peers = peers[target]]
    /\ pc' = Then[pc]
    /\ UNCHANGED <<now, world, failures, target, started, wake, state>>

AnswerInfo ==
    /\ pc = "node_info"
    /\ pc' = Then[pc]
    /\ UNCHANGED <<now, world, failures, target, snapshot, started, wake, state>>

\* The failed call has no result; the others are made all the same.
CallFails ==
    /\ pc \in Calls
    /\ failures < MaxFailures
    /\ failures' = failures + 1
    /\ snapshot' = [snapshot EXCEPT !.errors = @ \cup {pc}]
    /\ pc' = Then[pc]
    /\ UNCHANGED <<now, world, target, started, wake, state>>

-----------------------------------------------------------------------------
(* The evaluation of a snapshot *)

CoreQueryFailed == snapshot.errors \cap Parts # {}

WithErrors(s) == [s EXCEPT !.failed = @ \/ snapshot.errors # {}]

Delta(s, p) == IF s.last = None THEN 0 ELSE snapshot.count[p] - s.last[p]

\* Mutated form: the sizes are compared as one number.
TotalChanged(s) == Delta(s, "graph_channels") + Delta(s, "graph_nodes") # 0

GraphChanged(s) == \E p \in Parts : Delta(s, p) # 0

Positive(n) == IF n > 0 THEN n ELSE 0

\* Mutated form: the stable time counts from the start, not from the first sample.
SinceStart(s) == GraphChanged(s)

\* last_change_at is set to this sample.
Restarts(s) == s.last = None \/ GraphChanged(s)

\* Mutated form: what was removed is taken for something added.
CountAbsolute(s) ==
    [s EXCEPT !.first = IF @ = None THEN snapshot.count ELSE @,
              !.last = snapshot.count,
              !.added = [p \in Parts |->
                           @[p] + Positive(Delta(s, p)) + Positive(-Delta(s, p))],
              !.changeEvents = @ + (IF GraphChanged(s) THEN 1 ELSE 0),
              !.regressions = @ + (IF \E p \in Parts : Delta(s, p) < 0 THEN 1 ELSE 0)]

\* The counts and what has been added and removed.
WithGraph(s) ==
    [s EXCEPT !.first = IF @ = None THEN snapshot.count ELSE @,
              !.last = snapshot.count,
              !.added = [p \in Parts |-> @[p] + Positive(Delta(s, p))],
              !.removed = [p \in Parts |-> @[p] + Positive(-Delta(s, p))],
              !.changeEvents = @ + (IF GraphChanged(s) THEN 1 ELSE 0),
              !.regressions = @ + (IF \E p \in Parts : Delta(s, p) < 0 THEN 1 ELSE 0)]

\* A list_peers that failed reads as no peers.
WithPeers(s) ==
    [s EXCEPT !.peerChanges =
                  @ + (IF s.samples # << >> /\ snapshot.peers # s.lastPeers THEN 1 ELSE 0),
              !.peerless = @ + (IF snapshot.peers = {} THEN 1 ELSE 0),
              !.lastPeers = snapshot.peers]

WithSample(s) ==
    [s EXCEPT !.lastChange = IF Restarts(s) THEN now ELSE @,
              !.samples = Append(@, [at |-> now, count |-> snapshot.count])]

Sampled(s) == WithGraph(WithSample(WithPeers(WithErrors(s))))

Signals == {"rpc_errors", "peer_unavailable", "peer_set_changed",
            "graph_count_regressed", "graph_updates_trickled",
            "initial_snapshot_stable"}

\* _diagnostic_signals, without slow_rpc
SignalsOf(s) ==
    LET signals == (IF s.failed THEN {"rpc_errors"} ELSE {})
             \cup (IF s.peerless > 0 THEN {"peer_unavailable"} ELSE {})
             \cup (IF s.peerChanges > 0 THEN {"peer_set_changed"} ELSE {})
             \cup (IF s.regressions > 0 THEN {"graph_count_regressed"} ELSE {})
             \cup (IF s.changeEvents > 0 THEN {"graph_updates_trickled"} ELSE {})
    IN  IF signals = {} THEN {"initial_snapshot_stable"} ELSE signals

\* _build_summary
Summarised(s, why) == [s EXCEPT !.reason = why, !.signals = SignalsOf(s)]

\* stable_for >= stable_seconds
Stable(s) == now - s.lastChange >= StableSeconds

NextTarget ==
    /\ target' = target + 1
    /\ pc' = "round"
    /\ snapshot' = NoSnapshot
    /\ UNCHANGED <<now, world, failures, started, wake>>

\* Without both counts the target is left for the next round.
SkipSample ==
    /\ pc = "evaluate"
    /\ CoreQueryFailed
    /\ state' = [state EXCEPT ![target] = WithErrors(@)]
    /\ NextTarget

TakeSample ==
    /\ pc = "evaluate"
    /\ ~CoreQueryFailed
    /\ ~Stable(Sampled(state[target]))
    /\ state' = [state EXCEPT ![target] = Sampled(@)]
    /\ NextTarget

FindStable ==
    /\ pc = "evaluate"
    /\ ~CoreQueryFailed
    /\ Stable(Sampled(state[target]))
    /\ state' = [state EXCEPT ![target] = Summarised(Sampled(@), "graph_stable")]
    /\ NextTarget

-----------------------------------------------------------------------------
(* The loops *)

\* Mutated form: a target that is done is polled again.
PollEvery ==
    /\ pc = "round"
    /\ target <= N
    /\ started' = now
    /\ pc' = "graph_channels"
    /\ UNCHANGED <<now, world, failures, target, snapshot, wake, state>>

Poll ==
    /\ pc = "round"
    /\ target <= N
    /\ ~Done(target)
    /\ started' = now
    /\ pc' = "graph_channels"
    /\ UNCHANGED <<now, world, failures, target, snapshot, wake, state>>

SkipDone ==
    /\ pc = "round"
    /\ target <= N
    /\ Done(target)
    /\ target' = target + 1
    /\ UNCHANGED <<now, world, failures, pc, snapshot, started, wake, state>>

RoundOver == pc = "round" /\ target > N

AllDone ==
    /\ RoundOver
    /\ \A t \in Targets : Done(t)
    /\ pc' = "done"
    /\ UNCHANGED <<now, world, failures, target, snapshot, started, wake, state>>

Deadline ==
    /\ RoundOver
    /\ \E t \in Targets : ~Done(t)
    /\ now >= MaxDuration
    /\ state' = [t \in Targets |->
                   IF Done(t) THEN state[t]
                   ELSE Summarised(state[t], "max_duration_reached")]
    /\ pc' = "done"
    /\ UNCHANGED <<now, world, failures, target, snapshot, started, wake>>

\* Mutated form: the sleep may last beyond the deadline.
SleepOn ==
    /\ RoundOver
    /\ \E t \in Targets : ~Done(t)
    /\ now < MaxDuration
    /\ wake' = now + SampleInterval
    /\ pc' = "sleep"
    /\ UNCHANGED <<now, world, failures, target, snapshot, started, state>>

Sleep ==
    /\ RoundOver
    /\ \E t \in Targets : ~Done(t)
    /\ now < MaxDuration
    /\ wake' = IF now + SampleInterval < MaxDuration
               THEN now + SampleInterval ELSE MaxDuration
    /\ pc' = "sleep"
    /\ UNCHANGED <<now, world, failures, target, snapshot, started, state>>

NextRound ==
    /\ pc = "sleep"
    /\ now = wake
    /\ target' = 1
    /\ pc' = "round"
    /\ UNCHANGED <<now, world, failures, snapshot, started, wake, state>>

-----------------------------------------------------------------------------
World == GraphChanges \/ PeersChange

Snapshot == AnswerGraph \/ AnswerPeers \/ AnswerInfo \/ CallFails

Evaluate == SkipSample \/ TakeSample \/ FindStable

Rounds == Poll \/ SkipDone \/ AllDone \/ Deadline \/ Sleep \/ NextRound

\* The summaries have been returned: the one state in which nothing is left to do.
Returned == pc = "done" /\ UNCHANGED vars

Next == Tick \/ World \/ Snapshot \/ Evaluate \/ Rounds \/ Returned

Spec == Init /\ [][Next]_vars

-----------------------------------------------------------------------------
(* Properties *)

LastSample(t) == state[t].samples[Len(state[t].samples)]

Horizon == MaxDuration + N * MaxQuery

Summary ==
    [first : Graph \cup {None}, last : Graph \cup {None},
     added : [Parts -> Nat], removed : [Parts -> Nat],
     lastChange : Nat, changeEvents : Nat, regressions : Nat,
     lastPeers : PeerSets, peerChanges : Nat, peerless : Nat,
     failed : BOOLEAN, samples : Seq([at : Nat, count : Graph]),
     reason : {None, "graph_stable", "max_duration_reached"}, signals : SUBSET Signals]

Steps == Calls \cup {"evaluate", "round", "sleep", "done"}

Snapshots ==
    [count : [Parts -> Counts \cup {None}], peers : PeerSets, errors : SUBSET Calls]

TypeOK ==
    /\ now \in Nat
    /\ graph \in [Targets -> Graph]
    /\ peers \in [Targets -> PeerSets]
    /\ target \in 1..(N + 1)
    /\ pc \in Steps
    /\ snapshot \in Snapshots
    /\ started \in Nat
    /\ wake \in Nat
    /\ state \in [Targets -> Summary]

\* A target that is done is not polled, and all are done in the end.
LoopInv ==
    /\ pc \in Calls \cup {"evaluate"} => target \in Targets /\ ~Done(target)
    /\ pc = "done" => \A t \in Targets : Done(t)

\* The part of a snapshot that has been asked for failed or has a count.
SnapshotInv ==
    \A p \in Parts :
        \/ pc = "graph_channels"
        \/ pc = "graph_nodes" /\ p = "graph_nodes"
        \/ pc \in {"round", "sleep", "done"}
        \/ p \in snapshot.errors
        \/ snapshot.count[p] \in Counts

\* All samples since lastChange show the last counts.
SpanOf(s) ==
    /\ s.last = None <=> s.samples = << >>
    /\ s.samples # << >> =>
           \E i \in DOMAIN s.samples :
               /\ s.samples[i].at = s.lastChange
               /\ \A j \in i..Len(s.samples) : s.samples[j].count = s.last

\* These samples are enough in a target that is stable.
StableOf(s) ==
    s.reason = "graph_stable" =>
        /\ s.samples # << >>
        /\ s.samples[Len(s.samples)].at - s.lastChange >= StableSeconds

\* Nothing is in the ledger yet, or it balances.
LedgerOf(s) ==
    /\ s.samples = << >> =>
           /\ s.first = None
           /\ s.last = None
           /\ \A p \in Parts : s.added[p] = 0 /\ s.removed[p] = 0
    /\ s.samples # << >> =>
           /\ s.first = s.samples[1].count
           /\ s.last = s.samples[Len(s.samples)].count
           /\ \A p \in Parts : s.last[p] = s.first[p] + s.added[p] - s.removed[p]

RecordInv ==
    \A t \in Targets :
        SpanOf(state[t]) /\ StableOf(state[t]) /\ LedgerOf(state[t])

\* No sample is of the future.
PastInv ==
    \A t \in Targets : \A i \in DOMAIN state[t].samples : state[t].samples[i].at <= now

\* How far a round can be beyond the deadline.
TimeInv ==
    /\ pc \in Calls \cup {"evaluate"} =>
           /\ started <= MaxDuration + (target - 1) * MaxQuery
           /\ started <= now
           /\ now <= started + MaxQuery
    /\ pc = "round" => now <= MaxDuration + (target - 1) * MaxQuery
    /\ pc = "sleep" => now <= wake /\ wake <= MaxDuration
    /\ pc = "done" => now <= Horizon

\* The inductive invariant.
SamplerInv == TypeOK /\ LoopInv /\ SnapshotInv /\ RecordInv /\ PastInv /\ TimeInv

\* Whatever was skipped, the report balances: what a target has in the end is
\* what it had first, and what was added and removed in between, and no query
\* that failed has left a trace in it.
LedgerBalances ==
    \A t \in Targets :
        LET s == state[t] IN
        s.samples # << >> =>
            /\ s.first = s.samples[1].count
            /\ s.last = LastSample(t).count
            /\ \A p \in Parts : s.last[p] = s.first[p] + s.added[p] - s.removed[p]

\* A target is reported as stable only if samples that span StableSeconds, from
\* its first one at the earliest, have all shown the same counts of both parts.
StabilityWasObserved ==
    \A t \in Targets :
        state[t].reason = "graph_stable" =>
            \E i \in DOMAIN state[t].samples :
                /\ LastSample(t).at - state[t].samples[i].at >= StableSeconds
                /\ \A j \in i..Len(state[t].samples) :
                        state[t].samples[j].count = LastSample(t).count

Differ(s, t) == \E p \in Parts : s.count[p] # t.count[p]
Shrank(s, t) == \E p \in Parts : t.count[p] < s.count[p]

\* The diagnosis agrees with the samples that were taken: trickle and regression
\* are reported exactly when neighbouring samples show them, and a target that
\* is said to be stable from the start had no failed call and no other counts.
DiagnosisMatchesSamples ==
    \A t \in Targets :
        LET s == state[t].samples
            Some(Rel(_, _)) == \E i \in 1..(Len(s) - 1) : Rel(s[i], s[i + 1])
        IN  Done(t) =>
                /\ "graph_updates_trickled" \in state[t].signals <=> Some(Differ)
                /\ "graph_count_regressed" \in state[t].signals <=> Some(Shrank)
                /\ "initial_snapshot_stable" \in state[t].signals =>
                       ~Some(Differ) /\ ~state[t].failed

\* The sampler overruns its time by one round of snapshots at most, however many
\* targets have not settled.
OverrunBounded == now <= Horizon

Verdict(s) ==
    IF s.reason = None THEN "measuring"
    ELSE IF s.reason = "graph_stable" THEN "converged" ELSE "failed"

\* The promise of the daily benchmark, for one target, except that no gap is too
\* long: failed rounds leave the window open.
Promise(t) == INSTANCE StableConvergence WITH
    Window <- StableSeconds, MaxGap <- Horizon,
    open <- state[t].samples # << >>,
    since <- state[t].lastChange,
    last <- IF state[t].samples = << >> THEN 0 ELSE LastSample(t).at,
    view <- state[t].last,
    verdict <- Verdict(state[t])

\* Of every target, the sampler reports stability only where it observed a run
\* of one view that is StableSeconds long.
StableOnlyOnWindow ==
    /\ \A t \in Targets : Promise(t)!Init
    /\ [][\A t \in Targets : Promise(t)!Next \/ UNCHANGED Promise(t)!vars]_vars

\* The docstring, lines 316-319: a slow run is distinguishable as peer loss or RPC
\* failure from the log alone.
PeerSignalsMeanPeers ==
    \A t \in Targets :
        Done(t) /\ "peer_set_changed" \in state[t].signals => t \in moved
=============================================================================
