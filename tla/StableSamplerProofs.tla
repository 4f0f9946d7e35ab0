------------------------ MODULE StableSamplerProofs ------------------------
(***************************************************************************)
(* Proofs about StableSampler for every value of its constants.            *)
(***************************************************************************)
EXTENDS StableSampler, SequenceTheorems, TLAPS

-----------------------------------------------------------------------------
(* What the evaluation of a snapshot does to the record of a target *)

\* A part of a graph has a size.
LEMMA SizeIsInt ==
    ASSUME NEW g \in Graph, NEW p \in Parts
    PROVE  g[p] \in Int
<1>1. g[p] \in Counts
    BY DEF Graph
<1>2. g[p] \in Nat
    BY <1>1, SamplerAssumption
<1>3. QED
    BY <1>2

\* A delta is an integer, whether or not there was a sample before.
LEMMA DeltaIsInt ==
    ASSUME NEW s \in Summary, snapshot.count \in Graph, NEW p \in Parts
    PROVE  Delta(s, p) \in Int
<1>1. CASE s.last = None
    BY <1>1 DEF Delta
<1>2. CASE s.last # None
    <2>1. s.last \in Graph
        BY <1>2 DEF Summary
    <2>2. s.last[p] \in Int /\ snapshot.count[p] \in Int
        BY <2>1, SizeIsInt
    <2>3. QED
        BY <1>2, <2>2 DEF Delta
<1>3. QED
    BY <1>1, <1>2

\* Errors enter nothing but the mark of a failure.
LEMMA ErrorsKeep ==
    ASSUME NEW s \in Summary
    PROVE  /\ WithErrors(s) \in Summary
           /\ WithErrors(s).first = s.first /\ WithErrors(s).last = s.last
           /\ WithErrors(s).added = s.added /\ WithErrors(s).removed = s.removed
           /\ WithErrors(s).lastChange = s.lastChange
           /\ WithErrors(s).samples = s.samples
           /\ WithErrors(s).reason = s.reason
BY DEF WithErrors, Summary

\* The peers enter nothing but their own counters.
LEMMA PeersKeep ==
    ASSUME NEW s \in Summary, snapshot.peers \in PeerSets
    PROVE  /\ WithPeers(s) \in Summary
           /\ WithPeers(s).first = s.first /\ WithPeers(s).last = s.last
           /\ WithPeers(s).added = s.added /\ WithPeers(s).removed = s.removed
           /\ WithPeers(s).lastChange = s.lastChange
           /\ WithPeers(s).samples = s.samples
           /\ WithPeers(s).reason = s.reason
<1>1. /\ s.peerChanges + (IF s.samples # << >> /\ snapshot.peers # s.lastPeers
                          THEN 1 ELSE 0) \in Nat
      /\ s.peerless + (IF snapshot.peers = {} THEN 1 ELSE 0) \in Nat
    BY DEF Summary
<1>2. QED
    BY <1>1 DEF WithPeers, Summary

\* The sample is appended and may move lastChange.
LEMMA SampleKeeps ==
    ASSUME NEW s \in Summary, snapshot.count \in Graph, now \in Nat
    PROVE  /\ WithSample(s) \in Summary
           /\ WithSample(s).first = s.first /\ WithSample(s).last = s.last
           /\ WithSample(s).added = s.added /\ WithSample(s).removed = s.removed
           /\ WithSample(s).lastChange = (IF Restarts(s) THEN now ELSE s.lastChange)
           /\ WithSample(s).samples =
                  Append(s.samples, [at |-> now, count |-> snapshot.count])
           /\ WithSample(s).reason = s.reason
<1>1. [at |-> now, count |-> snapshot.count] \in [at : Nat, count : Graph]
    OBVIOUS
<1>2. Append(s.samples, [at |-> now, count |-> snapshot.count])
        \in Seq([at : Nat, count : Graph])
    BY <1>1 DEF Summary
<1>3. (IF Restarts(s) THEN now ELSE s.lastChange) \in Nat
    BY DEF Summary
<1>4. QED
    BY <1>2, <1>3 DEF WithSample, Summary

\* The counts replace those of the sample before and enter the ledger.
LEMMA GraphKeeps ==
    ASSUME NEW s \in Summary, snapshot.count \in Graph
    PROVE  /\ WithGraph(s) \in Summary
           /\ WithGraph(s).first = (IF s.first = None THEN snapshot.count ELSE s.first)
           /\ WithGraph(s).last = snapshot.count
           /\ WithGraph(s).added = [p \in Parts |-> s.added[p] + Positive(Delta(s, p))]
           /\ WithGraph(s).removed = [p \in Parts |-> s.removed[p] + Positive(-Delta(s, p))]
           /\ WithGraph(s).lastChange = s.lastChange
           /\ WithGraph(s).samples = s.samples
           /\ WithGraph(s).reason = s.reason
<1>1. \A p \in Parts : Positive(Delta(s, p)) \in Nat /\ Positive(-Delta(s, p)) \in Nat
    BY DeltaIsInt DEF Positive
<1>2. /\ [p \in Parts |-> s.added[p] + Positive(Delta(s, p))] \in [Parts -> Nat]
      /\ [p \in Parts |-> s.removed[p] + Positive(-Delta(s, p))] \in [Parts -> Nat]
    BY <1>1 DEF Summary
<1>3. /\ s.changeEvents + (IF GraphChanged(s) THEN 1 ELSE 0) \in Nat
      /\ s.regressions + (IF \E p \in Parts : Delta(s, p) < 0 THEN 1 ELSE 0) \in Nat
    BY DEF Summary
<1>4. (IF s.first = None THEN snapshot.count ELSE s.first) \in Graph \cup {None}
    BY DEF Summary
<1>5. QED
    BY <1>2, <1>3, <1>4 DEF WithGraph, Summary

\* All of it together: what a sample does to a target.
LEMMA SampledIs ==
    ASSUME NEW s \in Summary, snapshot.count \in Graph, snapshot.peers \in PeerSets,
           now \in Nat
    PROVE  /\ Sampled(s) \in Summary
           /\ Sampled(s).first = (IF s.first = None THEN snapshot.count ELSE s.first)
           /\ Sampled(s).last = snapshot.count
           /\ Sampled(s).added = [p \in Parts |-> s.added[p] + Positive(Delta(s, p))]
           /\ Sampled(s).removed = [p \in Parts |-> s.removed[p] + Positive(-Delta(s, p))]
           /\ Sampled(s).lastChange = (IF Restarts(s) THEN now ELSE s.lastChange)
           /\ Sampled(s).samples =
                  Append(s.samples, [at |-> now, count |-> snapshot.count])
           /\ Sampled(s).reason = s.reason
<1> DEFINE q == WithPeers(WithErrors(s))
           r == WithSample(q)
<1>1. /\ q \in Summary
      /\ q.first = s.first /\ q.last = s.last
      /\ q.added = s.added /\ q.removed = s.removed
      /\ q.lastChange = s.lastChange /\ q.samples = s.samples /\ q.reason = s.reason
    BY ErrorsKeep, PeersKeep
<1>2. Restarts(q) = Restarts(s)
    BY <1>1 DEF Restarts, GraphChanged, Delta
<1>3. /\ r \in Summary
      /\ r.first = s.first /\ r.last = s.last
      /\ r.added = s.added /\ r.removed = s.removed /\ r.reason = s.reason
      /\ r.lastChange = (IF Restarts(s) THEN now ELSE s.lastChange)
      /\ r.samples = Append(s.samples, [at |-> now, count |-> snapshot.count])
    <2> HIDE DEF q
    <2>1. QED
        BY <1>1, <1>2, SampleKeeps
<1>4. \A p \in Parts : Delta(r, p) = Delta(s, p)
    BY <1>3 DEF Delta
<1>5. Sampled(s) = WithGraph(r)
    BY DEF Sampled
<1> HIDE DEF q, r
<1>6. QED
    BY <1>3, <1>4, <1>5, GraphKeeps

\* A summary gives a reason and the signals, and changes nothing else.
LEMMA SummarisedIs ==
    ASSUME NEW s \in Summary, NEW why \in {"graph_stable", "max_duration_reached"}
    PROVE  /\ Summarised(s, why) \in Summary
           /\ Summarised(s, why).first = s.first /\ Summarised(s, why).last = s.last
           /\ Summarised(s, why).added = s.added /\ Summarised(s, why).removed = s.removed
           /\ Summarised(s, why).lastChange = s.lastChange
           /\ Summarised(s, why).samples = s.samples
           /\ Summarised(s, why).reason = why
<1>1. SignalsOf(s) \in SUBSET Signals
    BY DEF SignalsOf, Signals
<1>2. QED
    BY <1>1 DEF Summarised, Summary

\* A snapshot that is evaluated, both of whose graph calls succeeded, is a graph.
LEMMA CompleteSnapshot ==
    ASSUME TypeOK, SnapshotInv, pc = "evaluate", ~CoreQueryFailed
    PROVE  snapshot.count \in Graph /\ snapshot.peers \in PeerSets
<1>1. \A p \in Parts : snapshot.count[p] \in Counts
    BY DEF SnapshotInv, CoreQueryFailed, Parts
<1>2. QED
    BY <1>1 DEF TypeOK, Snapshots, Graph

-----------------------------------------------------------------------------
(* The ledger and the span of one target *)

\* Two graphs without a difference in either part are the same.
LEMMA NoDeltaIsEqual ==
    ASSUME NEW s \in Summary, snapshot.count \in Graph, ~Restarts(s)
    PROVE  s.last = snapshot.count
<1>1. s.last # None /\ \A p \in Parts : Delta(s, p) = 0
    BY DEF Restarts, GraphChanged
<1>2. s.last \in Graph
    BY <1>1 DEF Summary
<1>3. \A p \in Parts : s.last[p] \in Int /\ snapshot.count[p] \in Int
    BY <1>2, SizeIsInt
<1>4. \A p \in Parts : s.last[p] = snapshot.count[p]
    BY <1>1, <1>3 DEF Delta
<1>5. QED
    BY <1>2, <1>4 DEF Graph

\* A sample keeps the ledger balanced: the first one opens it, and every later one
\* enters exactly what it differs by.
LEMMA SampleKeepsLedger ==
    ASSUME NEW s \in Summary, snapshot.count \in Graph, snapshot.peers \in PeerSets,
           now \in Nat, LedgerOf(s)
    PROVE  LedgerOf(Sampled(s))
<1> DEFINE new == [at |-> now, count |-> snapshot.count]
           r == Sampled(s)
<1>0. /\ r \in Summary
      /\ r.first = (IF s.first = None THEN snapshot.count ELSE s.first)
      /\ r.last = snapshot.count
      /\ r.added = [p \in Parts |-> s.added[p] + Positive(Delta(s, p))]
      /\ r.removed = [p \in Parts |-> s.removed[p] + Positive(-Delta(s, p))]
      /\ r.samples = Append(s.samples, new)
    BY SampledIs
<1> HIDE DEF r
<1>1. s.samples \in Seq([at : Nat, count : Graph]) /\ new \in [at : Nat, count : Graph]
    BY DEF Summary
<1> HIDE DEF new
<1>2. /\ r.samples # << >>
      /\ r.samples[Len(r.samples)] = new
      /\ r.samples[1] = (IF s.samples = << >> THEN new ELSE s.samples[1])
    BY <1>0, <1>1
<1>3. new.count = snapshot.count
    BY DEF new
<1>4. ASSUME s.samples = << >> PROVE LedgerOf(r)
    <2>1. \A p \in Parts : snapshot.count[p] \in Int
        BY SizeIsInt
    <2>2. \A p \in Parts : r.added[p] = 0 /\ r.removed[p] = 0
        BY <1>0, <1>4 DEF LedgerOf, Delta, Positive
    <2>3. QED
        BY <1>0, <1>2, <1>3, <1>4, <2>1, <2>2 DEF LedgerOf
<1>5. ASSUME s.samples # << >> PROVE LedgerOf(r)
    <2>1. s.samples[1].count \in Graph /\ s.samples[Len(s.samples)].count \in Graph
        <3>1. /\ s.samples[1] \in [at : Nat, count : Graph]
              /\ s.samples[Len(s.samples)] \in [at : Nat, count : Graph]
            <4>1. Len(s.samples) \in Nat \ {0}
                BY <1>1, <1>5, EmptySeq
            <4>2. 1 \in 1..Len(s.samples) /\ Len(s.samples) \in 1..Len(s.samples)
                BY <4>1
            <4>3. \A n \in 1..Len(s.samples) : s.samples[n] \in [at : Nat, count : Graph]
                BY <1>1, ElementOfSeq, Zenon
            <4>4. QED
                BY <4>2, <4>3, Zenon
        <3>2. QED
            BY <3>1
    <2>2. s.first \in Graph /\ s.last \in Graph /\ s.first # None /\ s.last # None
        BY <1>5, <2>1, NoneAssumption DEF LedgerOf
    <2>3. r.first = s.first /\ r.first = r.samples[1].count
        BY <1>0, <1>2, <1>5, <2>2 DEF LedgerOf
    <2>4. ASSUME NEW p \in Parts
          PROVE  r.last[p] = r.first[p] + r.added[p] - r.removed[p]
        <3>1. s.first[p] \in Int /\ s.last[p] \in Int /\ snapshot.count[p] \in Int
            BY <2>2, SizeIsInt
        <3>2. s.added[p] \in Int /\ s.removed[p] \in Int
            BY DEF Summary
        <3>3. Delta(s, p) = snapshot.count[p] - s.last[p]
            BY <2>2 DEF Delta
        <3>4. s.last[p] = s.first[p] + s.added[p] - s.removed[p]
            BY <1>5 DEF LedgerOf
        <3>5. /\ r.added[p] = s.added[p] + Positive(Delta(s, p))
              /\ r.removed[p] = s.removed[p] + Positive(-Delta(s, p))
            BY <1>0
        <3>6. Positive(Delta(s, p)) - Positive(-Delta(s, p)) = Delta(s, p)
              /\ Positive(Delta(s, p)) \in Int /\ Positive(-Delta(s, p)) \in Int
            BY <3>1, <3>3 DEF Positive
        <3>7. r.last[p] = snapshot.count[p] /\ r.first[p] = s.first[p]
            BY <1>0, <2>3
        <3>8. QED
            BY <3>1, <3>2, <3>3, <3>4, <3>5, <3>6, <3>7
    <2>5. QED
        BY <1>0, <1>2, <1>3, <2>3, <2>4 DEF LedgerOf
<1>6. QED
    BY <1>4, <1>5 DEF r

\* A sample with the counts of the one before lengthens the span, any other begins
\* a span of its own.
LEMMA SampleKeepsSpan ==
    ASSUME NEW s \in Summary, snapshot.count \in Graph, snapshot.peers \in PeerSets,
           now \in Nat, SpanOf(s)
    PROVE  SpanOf(Sampled(s)) /\ Sampled(s).samples[Len(Sampled(s).samples)].at = now
<1> DEFINE new == [at |-> now, count |-> snapshot.count]
           r == Sampled(s)
           n == Len(s.samples)
<1>0. /\ r.last = snapshot.count
      /\ r.lastChange = (IF Restarts(s) THEN now ELSE s.lastChange)
      /\ r.samples = Append(s.samples, new)
    BY SampledIs
<1> HIDE DEF r
<1>1. s.samples \in Seq([at : Nat, count : Graph]) /\ new \in [at : Nat, count : Graph]
    BY DEF Summary
<1>2. new.count = snapshot.count /\ new.at = now
    BY DEF new
<1> HIDE DEF new
<1>3. /\ n \in Nat /\ Len(r.samples) = n + 1 /\ r.samples[n + 1] = new
      /\ \A j \in 1..n : r.samples[j] = s.samples[j]
      /\ DOMAIN r.samples = 1..(n + 1) /\ DOMAIN s.samples = 1..n
      /\ r.samples # << >>
    BY <1>0, <1>1
<1>4. r.last # None
    BY <1>0, NoneAssumption
<1>5. ASSUME Restarts(s) PROVE SpanOf(r)
    <2>1. r.samples[n + 1].at = r.lastChange
          /\ \A j \in (n + 1)..Len(r.samples) : r.samples[j].count = r.last
        BY <1>0, <1>2, <1>3, <1>5
    <2>2. QED
        BY <1>2, <1>3, <1>4, <2>1 DEF SpanOf
<1>6. ASSUME ~Restarts(s) PROVE SpanOf(r)
    <2>1. s.last = snapshot.count /\ s.samples # << >>
        BY <1>6, NoDeltaIsEqual DEF Restarts, SpanOf
    <2>2. PICK i \in 1..n : /\ s.samples[i].at = s.lastChange
                            /\ \A j \in i..n : s.samples[j].count = s.last
        BY <1>3, <2>1 DEF SpanOf
    <2>3. r.samples[i].at = r.lastChange
        BY <1>0, <1>3, <1>6, <2>2
    <2>4. ASSUME NEW j \in i..(n + 1) PROVE r.samples[j].count = r.last
        BY <1>0, <1>2, <1>3, <2>1, <2>2
    <2>5. i \in DOMAIN r.samples
        BY <1>3
    <2>6. QED
        BY <1>2, <1>3, <1>4, <2>3, <2>4, <2>5 DEF SpanOf
<1>7. SpanOf(r) /\ r.samples[Len(r.samples)].at = now
    BY <1>2, <1>3, <1>5, <1>6
<1>8. QED
    BY <1>7 DEF r

-----------------------------------------------------------------------------
(* The inductive invariant *)

\* The sampler starts in a state of the inductive invariant.
LEMMA InitSamplerInv == Init => SamplerInv
<1> SUFFICES ASSUME Init PROVE SamplerInv
    OBVIOUS
<1> USE SamplerAssumption
<1>1. Unsampled \in Summary
    <2>1. << >> \in Seq([at : Nat, count : Graph])
        BY EmptySeq
    <2>2. [p \in Parts |-> 0] \in [Parts -> Nat]
        OBVIOUS
    <2>3. QED
        BY <2>1, <2>2 DEF Unsampled, Summary
<1>2. NoSnapshot \in Snapshots
    BY DEF NoSnapshot, Snapshots
<1>3. TypeOK
    BY <1>1, <1>2 DEF Init, TypeOK, Steps, Calls
<1>4. LoopInv
    BY DEF Init, LoopInv, Done, Unsampled, Targets
<1>5. SnapshotInv
    BY DEF Init, SnapshotInv
<1>6. SpanOf(Unsampled) /\ StableOf(Unsampled) /\ LedgerOf(Unsampled)
    BY NoneAssumption DEF Unsampled, SpanOf, StableOf, LedgerOf
<1>7. RecordInv
    BY <1>6 DEF Init, RecordInv
<1>8. TimeInv
    BY DEF Init, TimeInv
<1>9. PastInv
    BY DEF Init, PastInv, Unsampled
<1>10. QED
    BY <1>3, <1>4, <1>5, <1>7, <1>8, <1>9 DEF SamplerInv

\* Whatever a step writes into the record of a target is a record that balances,
\* and whose span and stability were observed.
LEMMA RecordStep ==
    TypeOK /\ LoopInv /\ SnapshotInv /\ RecordInv /\ [Next]_vars =>
        state' \in [Targets -> Summary] /\ RecordInv'
<1> SUFFICES ASSUME TypeOK, LoopInv, SnapshotInv, RecordInv, [Next]_vars
             PROVE  state' \in [Targets -> Summary] /\ RecordInv'
    OBVIOUS
<1> DEFINE Good(s) == s \in Summary /\ SpanOf(s) /\ StableOf(s) /\ LedgerOf(s)
<1>0. state \in [Targets -> Summary] /\ \A t \in Targets : Good(state[t])
    BY DEF TypeOK, RecordInv
<1>1. ASSUME NEW s, Good(s), target \in Targets, state' = [state EXCEPT ![target] = s]
      PROVE  state' \in [Targets -> Summary] /\ RecordInv'
    <2>1. \A t \in Targets : state'[t] = (IF t = target THEN s ELSE state[t])
        BY <1>0, <1>1
    <2>2. \A t \in Targets : Good(state'[t])
        BY <1>0, <1>1, <2>1
    <2>3. QED
        BY <1>0, <1>1, <2>2 DEF RecordInv
<1>2. CASE SkipSample
    <2>1. target \in Targets /\ state' = [state EXCEPT ![target] = WithErrors(@)]
        BY <1>2 DEF SkipSample, LoopInv
    <2>2. Good(state[target])
        BY <1>0, <2>1
    <2> DEFINE s == WithErrors(state[target])
    <2>3. /\ s \in Summary
          /\ s.first = state[target].first /\ s.last = state[target].last
          /\ s.added = state[target].added /\ s.removed = state[target].removed
          /\ s.lastChange = state[target].lastChange
          /\ s.samples = state[target].samples /\ s.reason = state[target].reason
        BY <2>2, ErrorsKeep
    <2>4. state' = [state EXCEPT ![target] = s]
        BY <2>1
    <2> HIDE DEF s
    <2>5. Good(s)
        BY <2>2, <2>3 DEF SpanOf, StableOf, LedgerOf
    <2>6. QED
        BY <1>1, <2>1, <2>4, <2>5
<1>3. ASSUME TakeSample \/ FindStable
      PROVE  /\ target \in Targets
             /\ snapshot.count \in Graph /\ snapshot.peers \in PeerSets /\ now \in Nat
             /\ Sampled(state[target]) \in Summary
             /\ SpanOf(Sampled(state[target])) /\ LedgerOf(Sampled(state[target]))
             /\ Sampled(state[target]).reason = None
             /\ LET r == Sampled(state[target]) IN r.samples[Len(r.samples)].at = now
    <2>1. target \in Targets /\ state[target].reason = None
        BY <1>3 DEF TakeSample, FindStable, LoopInv, Done
    <2>2. snapshot.count \in Graph /\ snapshot.peers \in PeerSets /\ now \in Nat
        BY <1>3, CompleteSnapshot DEF TakeSample, FindStable, TypeOK
    <2>3. Good(state[target])
        BY <1>0, <2>1
    <2>4. QED
        BY <2>1, <2>2, <2>3, SampledIs, SampleKeepsLedger, SampleKeepsSpan
<1>4. CASE TakeSample
    <2>1. StableOf(Sampled(state[target]))
        BY <1>3, <1>4, NoneAssumption DEF StableOf
    <2>2. state' = [state EXCEPT ![target] = Sampled(@)]
        BY <1>4 DEF TakeSample
    <2>3. QED
        BY <1>1, <1>3, <1>4, <2>1, <2>2
<1>5. CASE FindStable
    <2> DEFINE r == Sampled(state[target])
               s == Summarised(r, "graph_stable")
    <2>1. /\ s \in Summary
          /\ s.first = r.first /\ s.last = r.last
          /\ s.added = r.added /\ s.removed = r.removed
          /\ s.lastChange = r.lastChange /\ s.samples = r.samples
        BY <1>3, <1>5, SummarisedIs
    <2>2. r.samples # << >> /\ r.samples[Len(r.samples)].at - r.lastChange >= StableSeconds
        <3>1. r.last # None
            BY <1>3, <1>5, <1>0, SampledIs, NoneAssumption
        <3>2. r.samples # << >>
            BY <1>3, <1>5, <3>1 DEF SpanOf
        <3>3. QED
            BY <1>3, <1>5, <3>2 DEF FindStable, Stable
    <2>3. state' = [state EXCEPT ![target] = s]
        BY <1>5 DEF FindStable
    <2>4. SpanOf(r) /\ LedgerOf(r) /\ target \in Targets
        BY <1>3, <1>5
    <2> HIDE DEF r, s
    <2>5. Good(s)
        BY <2>1, <2>2, <2>4 DEF SpanOf, StableOf, LedgerOf
    <2>6. QED
        BY <1>1, <2>3, <2>4, <2>5
<1>6. CASE Deadline
    <2>1. state' = [t \in Targets |->
                      IF Done(t) THEN state[t]
                      ELSE Summarised(state[t], "max_duration_reached")]
        BY <1>6 DEF Deadline
    <2>2. ASSUME NEW t \in Targets
          PROVE  Good(Summarised(state[t], "max_duration_reached"))
        <3> DEFINE s == Summarised(state[t], "max_duration_reached")
        <3>1. Good(state[t])
            BY <1>0
        <3>2. /\ s \in Summary
              /\ s.first = state[t].first /\ s.last = state[t].last
              /\ s.added = state[t].added /\ s.removed = state[t].removed
              /\ s.lastChange = state[t].lastChange /\ s.samples = state[t].samples
              /\ s.reason = "max_duration_reached"
            BY <3>1, SummarisedIs
        <3> HIDE DEF s
        <3>3. Good(s)
            BY <3>1, <3>2 DEF SpanOf, StableOf, LedgerOf
        <3>4. QED
            BY <3>3 DEF s
    <2>3. \A t \in Targets : Good(state'[t])
        BY <1>0, <2>1, <2>2
    <2>4. QED
        BY <2>1, <2>3 DEF RecordInv
<1>7. CASE UNCHANGED state
    BY <1>0, <1>7 DEF RecordInv
<1>8. QED
    BY <1>2, <1>4, <1>5, <1>6, <1>7
    DEF Next, World, Snapshot, Evaluate, Rounds, Tick, GraphChanges, PeersChange,
        AnswerGraph, AnswerPeers, AnswerInfo, CallFails, Poll, SkipDone, AllDone, Sleep,
        NextRound, Returned, vars

\* A step leaves the samples of a target alone or appends one, and neither turns
\* time back.
LEMMA SamplesStep ==
    ASSUME TypeOK, LoopInv, SnapshotInv, [Next]_vars, NEW t \in Targets
    PROVE  /\ now' \in Int /\ now <= now'
           /\ \/ state'[t].samples = state[t].samples
              \/ /\ state'[t].samples =
                        Append(state[t].samples, [at |-> now, count |-> snapshot.count])
                 /\ now' = now
<1>0. now \in Nat /\ state[t] \in Summary
    BY DEF TypeOK
<1>1. CASE SkipSample
    <2>1. WithErrors(state[t]).samples = state[t].samples
        BY <1>0, ErrorsKeep
    <2>2. QED
        BY <1>0, <1>1, <2>1 DEF SkipSample, NextTarget, TypeOK
<1>2. CASE TakeSample \/ FindStable
    <2>1. snapshot.count \in Graph /\ snapshot.peers \in PeerSets
        BY <1>2, CompleteSnapshot DEF TakeSample, FindStable
    <2>2. /\ Sampled(state[t]) \in Summary
          /\ Sampled(state[t]).samples =
                Append(state[t].samples, [at |-> now, count |-> snapshot.count])
        BY <1>0, <2>1, SampledIs
    <2>3. Summarised(Sampled(state[t]), "graph_stable").samples = Sampled(state[t]).samples
        BY <2>2, SummarisedIs
    <2>4. QED
        BY <1>0, <1>2, <2>2, <2>3 DEF TakeSample, FindStable, NextTarget, TypeOK
<1>3. CASE Deadline
    <2>1. Summarised(state[t], "max_duration_reached").samples = state[t].samples
        BY <1>0, SummarisedIs
    <2>2. QED
        BY <1>0, <1>3, <2>1 DEF Deadline
<1>4. CASE UNCHANGED state /\ (Tick \/ UNCHANGED now)
    BY <1>0, <1>4 DEF Tick
<1>5. QED
    BY <1>1, <1>2, <1>3, <1>4
    DEF Next, World, Snapshot, Evaluate, Rounds, Tick, GraphChanges, PeersChange,
        AnswerGraph, AnswerPeers, AnswerInfo, CallFails, Poll, SkipDone, AllDone, Sleep,
        NextRound, Returned, vars

\* No sample is ever of the future.
LEMMA PastStep ==
    TypeOK /\ LoopInv /\ SnapshotInv /\ PastInv /\ [Next]_vars => PastInv'
<1> SUFFICES ASSUME TypeOK, LoopInv, SnapshotInv, PastInv, [Next]_vars, NEW t \in Targets,
                    NEW i \in DOMAIN state'[t].samples
             PROVE  state'[t].samples[i].at <= now'
    BY DEF PastInv
<1> DEFINE n == Len(state[t].samples)
<1>1. /\ state[t].samples \in Seq([at : Nat, count : Graph])
      /\ now \in Nat /\ now' \in Int /\ now <= now'
    BY SamplesStep DEF TypeOK, Summary
<1>2. /\ n \in Nat /\ DOMAIN state[t].samples = 1..n
      /\ \A j \in 1..n : state[t].samples[j].at \in Nat /\ state[t].samples[j].at <= now
    <2>1. \A j \in 1..n : state[t].samples[j] \in [at : Nat, count : Graph]
        BY <1>1, ElementOfSeq, Zenon
    <2>2. QED
        BY <1>1, <2>1 DEF PastInv
<1>3. CASE state'[t].samples = state[t].samples
    <2>1. i \in 1..n /\ state'[t].samples[i] = state[t].samples[i]
        BY <1>2, <1>3
    <2>2. QED
        BY <1>1, <1>2, <2>1
<1>4. CASE state'[t].samples =
               Append(state[t].samples, [at |-> now, count |-> snapshot.count])
    <2>1. /\ i \in 1..(n + 1)
          /\ \A j \in 1..n : state'[t].samples[j] = state[t].samples[j]
          /\ state'[t].samples[n + 1] = [at |-> now, count |-> snapshot.count]
        BY <1>1, <1>2, <1>4
    <2>2. CASE i = n + 1
        BY <1>1, <2>1, <2>2
    <2>3. CASE i \in 1..n
        BY <1>1, <1>2, <2>1, <2>3
    <2>4. QED
        BY <1>2, <2>1, <2>2, <2>3
<1>5. QED
    BY SamplesStep, <1>3, <1>4

\* Every step keeps every variable within its type.
LEMMA TypeStep ==
    TypeOK /\ LoopInv /\ SnapshotInv /\ RecordInv /\ [Next]_vars => TypeOK'
<1> SUFFICES ASSUME TypeOK, LoopInv, SnapshotInv, RecordInv, [Next]_vars PROVE TypeOK'
    OBVIOUS
<1> USE SamplerAssumption
<1>0. state' \in [Targets -> Summary]
    BY RecordStep
<1>1. CASE Tick
    BY <1>1 DEF Tick, TypeOK, world
<1>2. CASE GraphChanges
    BY <1>2 DEF GraphChanges, TypeOK, Targets
<1>3. CASE PeersChange
    BY <1>3 DEF PeersChange, TypeOK, Targets
<1>4. CASE AnswerGraph
    <2>1. target \in Targets /\ pc \in Parts
        BY <1>4 DEF AnswerGraph, LoopInv, Calls, Parts
    <2>2. graph[target][pc] \in Counts
        BY <2>1 DEF TypeOK, Graph
    <2>3. snapshot' \in Snapshots
        BY <1>4, <2>1, <2>2 DEF AnswerGraph, TypeOK, Snapshots
    <2>4. pc' \in Steps
        BY <1>4 DEF AnswerGraph, Then, Steps, Calls, Parts
    <2>5. QED
        BY <1>4, <2>3, <2>4 DEF AnswerGraph, TypeOK, world
<1>5. CASE AnswerPeers
    <2>1. peers[target] \in PeerSets
        BY <1>5 DEF AnswerPeers, LoopInv, Calls, TypeOK
    <2>2. snapshot' \in Snapshots
        BY <1>5, <2>1 DEF AnswerPeers, TypeOK, Snapshots
    <2>3. pc' \in Steps
        BY <1>5 DEF AnswerPeers, Then, Steps, Calls
    <2>4. QED
        BY <1>5, <2>2, <2>3 DEF AnswerPeers, TypeOK, world
<1>6. CASE AnswerInfo
    BY <1>6 DEF AnswerInfo, Then, Steps, Calls, TypeOK, world
<1>7. CASE CallFails
    <2>1. snapshot' \in Snapshots
        BY <1>7 DEF CallFails, TypeOK, Snapshots
    <2>2. pc' \in Steps
        BY <1>7 DEF CallFails, Then, Steps, Calls
    <2>3. QED
        BY <1>7, <2>1, <2>2 DEF CallFails, TypeOK, world
<1>8. CASE Evaluate
    <2>1. target \in Targets /\ NextTarget
        BY <1>8 DEF Evaluate, SkipSample, TakeSample, FindStable, LoopInv
    <2>2. snapshot' \in Snapshots
        BY <2>1 DEF NextTarget, NoSnapshot, Snapshots
    <2>3. target' \in 1..(N + 1) /\ pc' \in Steps
        BY <2>1 DEF NextTarget, Targets, Steps
    <2>4. QED
        BY <1>0, <2>1, <2>2, <2>3 DEF NextTarget, TypeOK, world
<1>9. CASE Poll \/ SkipDone \/ NextRound
    BY <1>9 DEF Poll, SkipDone, NextRound, TypeOK, Steps, Calls, world
<1>10. CASE AllDone \/ Deadline \/ Sleep
    BY <1>0, <1>10 DEF AllDone, Deadline, Sleep, TypeOK, Steps, world
<1>11. CASE UNCHANGED vars
    BY <1>11 DEF vars, world, TypeOK
<1>12. QED
    BY <1>1, <1>2, <1>3, <1>4, <1>5, <1>6, <1>7, <1>8, <1>9, <1>10, <1>11
    DEF Next, World, Snapshot, Rounds, Returned

\* A target that is polled is not done, and in the end all are.
LEMMA LoopStep ==
    TypeOK /\ LoopInv /\ [Next]_vars => LoopInv'
<1> SUFFICES ASSUME TypeOK, LoopInv, [Next]_vars PROVE LoopInv'
    OBVIOUS
<1> USE SamplerAssumption DEF LoopInv, Done
<1>1. CASE Tick \/ World
    BY <1>1 DEF Tick, World, GraphChanges, PeersChange
<1>2. CASE AnswerGraph \/ AnswerPeers \/ AnswerInfo \/ CallFails
    <2>1. pc \in Calls /\ target' = target /\ state' = state
        BY <1>2 DEF AnswerGraph, AnswerPeers, AnswerInfo, CallFails, Calls, Parts
    <2>2. pc' # "done"
        BY <1>2 DEF AnswerGraph, AnswerPeers, AnswerInfo, CallFails, Calls, Parts, Then
    <2>3. QED
        BY <2>1, <2>2
<1>3. CASE Evaluate
    BY <1>3 DEF Evaluate, SkipSample, TakeSample, FindStable, NextTarget, Calls
<1>4. CASE Poll
    BY <1>4 DEF Poll, TypeOK, Targets
<1>5. CASE SkipDone \/ Sleep \/ NextRound
    BY <1>5 DEF SkipDone, Sleep, NextRound, RoundOver, Calls
<1>6. CASE AllDone
    BY <1>6 DEF AllDone, Calls
<1>7. CASE Deadline
    <2>1. \A t \in Targets : state'[t].reason # None
        <3> SUFFICES ASSUME NEW t \in Targets PROVE state'[t].reason # None
            OBVIOUS
        <3>1. state[t] \in Summary
            BY DEF TypeOK
        <3>2. Summarised(state[t], "max_duration_reached").reason # None
            BY <3>1, SummarisedIs, NoneAssumption
        <3>3. QED
            BY <1>7, <3>2 DEF Deadline
    <2>2. pc' = "done"
        BY <1>7 DEF Deadline
    <2>3. QED
        BY <2>1, <2>2 DEF Calls
<1>8. CASE UNCHANGED vars
    BY <1>8 DEF vars
<1>9. QED
    BY <1>1, <1>2, <1>3, <1>4, <1>5, <1>6, <1>7, <1>8
    DEF Next, Snapshot, Rounds, Returned

\* A graph call leaves a count or an error, and later calls take neither away.
LEMMA SnapshotStep ==
    TypeOK /\ LoopInv /\ SnapshotInv /\ [Next]_vars => SnapshotInv'
<1> SUFFICES ASSUME TypeOK, LoopInv, SnapshotInv, [Next]_vars PROVE SnapshotInv'
    OBVIOUS
<1>1. CASE Tick \/ World
    BY <1>1 DEF Tick, World, GraphChanges, PeersChange, SnapshotInv
<1>2. CASE AnswerGraph
    <2>1. target \in Targets /\ pc \in Parts
        BY <1>2 DEF AnswerGraph, LoopInv, Calls, Parts
    <2>2. graph[target][pc] \in Counts
        BY <2>1 DEF TypeOK, Graph
    <2>3. /\ snapshot'.errors = snapshot.errors
          /\ snapshot'.count[pc] \in Counts
          /\ \A p \in Parts \ {pc} : snapshot'.count[p] = snapshot.count[p]
        BY <1>2, <2>1, <2>2 DEF AnswerGraph, TypeOK, Snapshots
    <2>4. \/ pc = "graph_channels" /\ pc' = "graph_nodes"
          \/ pc = "graph_nodes" /\ pc' = "list_peers"
        BY <1>2 DEF AnswerGraph, Then, Parts
    <2>5. QED
        BY <2>1, <2>3, <2>4 DEF SnapshotInv, Parts
<1>3. CASE AnswerPeers \/ AnswerInfo
    <2>1. snapshot'.errors = snapshot.errors /\ snapshot'.count = snapshot.count
        BY <1>3 DEF AnswerPeers, AnswerInfo, TypeOK, Snapshots
    <2>2. pc \in {"list_peers", "node_info"}
        BY <1>3 DEF AnswerPeers, AnswerInfo
    <2>3. QED
        BY <2>1, <2>2 DEF SnapshotInv
<1>4. CASE CallFails
    <2>1. snapshot'.errors = snapshot.errors \cup {pc} /\ snapshot'.count = snapshot.count
        BY <1>4 DEF CallFails, TypeOK, Snapshots
    <2>2. \/ pc = "graph_channels" /\ pc' = "graph_nodes"
          \/ pc = "graph_nodes" /\ pc' = "list_peers"
          \/ pc \in {"list_peers", "node_info"}
        BY <1>4 DEF CallFails, Calls, Then
    <2>3. QED
        BY <2>1, <2>2 DEF SnapshotInv, Parts
<1>5. CASE Evaluate
    BY <1>5 DEF Evaluate, SkipSample, TakeSample, FindStable, NextTarget, SnapshotInv
<1>6. CASE Rounds
    BY <1>6 DEF Rounds, Poll, SkipDone, AllDone, Deadline, Sleep, NextRound, RoundOver,
                SnapshotInv
<1>7. CASE UNCHANGED vars
    BY <1>7 DEF vars, SnapshotInv
<1>8. QED
    BY <1>1, <1>2, <1>3, <1>4, <1>5, <1>6, <1>7 DEF Next, Snapshot, Returned

\* The product of a number of targets and the time of a snapshot.
LEMMA QueryTimes ==
    /\ \A k \in Nat : k * MaxQuery \in Nat /\ (k + 1) * MaxQuery = k * MaxQuery + MaxQuery
    /\ Horizon = MaxDuration + N * MaxQuery
BY SamplerAssumption DEF Horizon

\* A round begins by the deadline and lasts no longer than its snapshots.
LEMMA TimeStep ==
    TypeOK /\ LoopInv /\ TimeInv /\ [Next]_vars => TimeInv'
<1> SUFFICES ASSUME TypeOK, LoopInv, TimeInv, [Next]_vars PROVE TimeInv'
    OBVIOUS
<1> USE SamplerAssumption
<1> DEFINE Due(k) == MaxDuration + (k - 1) * MaxQuery
<1>0. /\ now \in Nat /\ started \in Nat /\ wake \in Nat /\ target \in 1..(N + 1)
      /\ \A k \in 1..(N + 1) : Due(k) \in Nat
      /\ \A k \in 1..N : Due(k + 1) = Due(k) + MaxQuery
      /\ \A k \in 1..(N + 1) : Due(k) <= Horizon
      /\ Due(1) = MaxDuration
    <2>1. \A k \in 1..(N + 1) : k - 1 \in Nat /\ (k - 1) + 1 = k
        OBVIOUS
    <2>2. \A k \in 1..(N + 1) : (k - 1) * MaxQuery \in Nat
        BY <2>1, QueryTimes
    <2>3. \A k \in 1..N : ((k + 1) - 1) * MaxQuery = (k - 1) * MaxQuery + MaxQuery
        OBVIOUS
    <2>4. \A k \in 1..(N + 1) : (k - 1) * MaxQuery <= N * MaxQuery
        OBVIOUS
    <2>5. QED
        BY <2>2, <2>3, <2>4, QueryTimes DEF TypeOK
<1>1. CASE Tick
    BY <1>0, <1>1 DEF Tick, TimeInv, Calls
<1>2. CASE World
    BY <1>2 DEF World, GraphChanges, PeersChange, TimeInv
<1>3. CASE AnswerGraph \/ AnswerPeers \/ AnswerInfo \/ CallFails
    <2>1. pc \in Calls /\ UNCHANGED <<now, target, started, wake>>
        BY <1>3 DEF AnswerGraph, AnswerPeers, AnswerInfo, CallFails, Calls, Parts
    <2>2. pc' \in Calls \cup {"evaluate"}
        BY <1>3 DEF AnswerGraph, AnswerPeers, AnswerInfo, CallFails, Calls, Parts, Then
    <2>3. QED
        BY <2>1, <2>2 DEF TimeInv, Calls
<1>4. CASE Evaluate
    <2>1. pc = "evaluate" /\ target \in 1..N /\ NextTarget
        BY <1>4 DEF Evaluate, SkipSample, TakeSample, FindStable, LoopInv, Targets
    <2>2. now <= Due(target) + MaxQuery
        BY <1>0, <2>1 DEF TimeInv
    <2>3. now' <= Due(target')
        BY <1>0, <2>1, <2>2 DEF NextTarget
    <2>4. QED
        BY <2>1, <2>3 DEF NextTarget, TimeInv, Calls
<1>5. CASE Poll
    BY <1>0, <1>5 DEF Poll, TimeInv, Calls
<1>6. CASE SkipDone
    <2>1. target \in 1..N /\ pc = "round" /\ pc' = pc /\ target' = target + 1 /\ now' = now
        BY <1>0, <1>6 DEF SkipDone
    <2>2. now' <= Due(target')
        BY <1>0, <2>1 DEF TimeInv
    <2>3. QED
        BY <2>1, <2>2 DEF TimeInv, Calls
<1>7. CASE AllDone \/ Deadline
    <2>1. pc = "round" /\ pc' = "done" /\ now' = now
        BY <1>7 DEF AllDone, Deadline, RoundOver
    <2>2. now <= Due(target) /\ Due(target) <= Horizon
        BY <1>0, <2>1 DEF TimeInv
    <2>3. Due(target) \in Nat /\ Horizon \in Nat
        BY <1>0, QueryTimes
    <2>4. now' <= Horizon
        BY <1>0, <2>1, <2>2, <2>3
    <2>5. Horizon' = Horizon
        BY DEF Horizon
    <2>6. QED
        BY <2>1, <2>4, <2>5 DEF TimeInv, Calls
<1>8. CASE Sleep
    BY <1>0, <1>8 DEF Sleep, TimeInv, Calls
<1>9. CASE NextRound
    BY <1>0, <1>9 DEF NextRound, TimeInv, Calls
<1>10. CASE UNCHANGED vars
    BY <1>10 DEF vars, TimeInv
<1>11. QED
    BY <1>1, <1>2, <1>3, <1>4, <1>5, <1>6, <1>7, <1>8, <1>9, <1>10
    DEF Next, Snapshot, Rounds, Returned

-----------------------------------------------------------------------------
(* The theorems *)

\* The inductive invariant: a polled target is not done, a snapshot that is
\* evaluated is complete or failed, every record balances and rests on observed
\* spans, and a round is over in time.
THEOREM SamplerInvariant == Spec => []SamplerInv
<1>1. SamplerInv /\ [Next]_vars => SamplerInv'
    BY TypeStep, LoopStep, SnapshotStep, RecordStep, PastStep, TimeStep DEF SamplerInv
<1>2. QED
    BY InitSamplerInv, <1>1, PTL DEF Spec

\* Whatever was skipped, the counts a target reports in the end are those it had
\* first, and what was added and removed in between.
THEOREM ReportsBalance == Spec => []LedgerBalances
<1>1. SamplerInv => LedgerBalances
    BY DEF SamplerInv, RecordInv, LedgerOf, LedgerBalances, LastSample
<1>2. QED
    BY SamplerInvariant, <1>1, PTL

\* A target is reported as stable only if samples that span StableSeconds have all
\* shown the same counts of both parts.
THEOREM StabilityIsObserved == Spec => []StabilityWasObserved
<1>1. SamplerInv => StabilityWasObserved
    <2> SUFFICES ASSUME SamplerInv, NEW t \in Targets, state[t].reason = "graph_stable"
                 PROVE  \E i \in DOMAIN state[t].samples :
                            /\ LastSample(t).at - state[t].samples[i].at >= StableSeconds
                            /\ \A j \in i..Len(state[t].samples) :
                                    state[t].samples[j].count = LastSample(t).count
        BY DEF StabilityWasObserved
    <2> DEFINE s == state[t]
    <2>1. SpanOf(s) /\ StableOf(s) /\ LedgerOf(s)
        BY DEF SamplerInv, RecordInv
    <2>2. /\ s.samples # << >>
          /\ LastSample(t).at - s.lastChange >= StableSeconds
          /\ s.last = LastSample(t).count
        BY <2>1 DEF StableOf, LedgerOf, LastSample
    <2>3. QED
        BY <2>1, <2>2 DEF SpanOf
<1>2. QED
    BY SamplerInvariant, <1>1, PTL

\* The sampler overruns its time by one round of snapshots at most.
THEOREM OverrunIsBounded == Spec => []OverrunBounded
<1>1. SamplerInv => OverrunBounded
    <2> SUFFICES ASSUME SamplerInv PROVE now <= Horizon
        BY DEF OverrunBounded
    <2> USE SamplerAssumption
    <2>0. /\ now \in Nat /\ started \in Nat /\ wake \in Nat
          /\ target \in 1..(N + 1) /\ pc \in Steps
        BY DEF SamplerInv, TypeOK
    <2>1. CASE pc \in Calls \cup {"evaluate"}
        <3>1. target - 1 \in Nat /\ target - 1 <= N - 1 /\ N - 1 \in Nat
            BY <2>1, <2>0 DEF SamplerInv, LoopInv, Targets
        <3>2. (target - 1) * MaxQuery <= (N - 1) * MaxQuery
            BY <3>1
        <3>3. /\ (target - 1) * MaxQuery \in Nat /\ (N - 1) * MaxQuery \in Nat
              /\ N * MaxQuery = (N - 1) * MaxQuery + MaxQuery
            BY <3>1, QueryTimes
        <3>4. now <= MaxDuration + (target - 1) * MaxQuery + MaxQuery
            BY <2>0, <2>1, <3>3 DEF SamplerInv, TimeInv
        <3>5. QED
            BY <2>0, <3>2, <3>3, <3>4, QueryTimes
    <2>2. CASE pc = "round"
        <3>1. target - 1 \in Nat /\ target - 1 <= N
            BY <2>0
        <3>2. (target - 1) * MaxQuery <= N * MaxQuery /\ (target - 1) * MaxQuery \in Nat
            BY <3>1
        <3>3. now <= MaxDuration + (target - 1) * MaxQuery
            BY <2>2 DEF SamplerInv, TimeInv
        <3>4. QED
            BY <2>0, <3>2, <3>3, QueryTimes
    <2>3. CASE pc = "sleep"
        <3>1. now <= MaxDuration
            BY <2>0, <2>3 DEF SamplerInv, TimeInv
        <3>2. N * MaxQuery \in Nat
            BY QueryTimes
        <3>3. QED
            BY <2>0, <3>1, <3>2, QueryTimes
    <2>4. CASE pc = "done"
        BY <2>4 DEF SamplerInv, TimeInv
    <2>5. QED
        BY <2>0, <2>1, <2>2, <2>3, <2>4 DEF Steps
<1>2. QED
    BY SamplerInvariant, <1>1, PTL

\* The sampler implements the promise of the daily benchmark for every target,
\* with a gap as long as its whole run: a sample without a change extends the run
\* of the abstraction, any other restarts it, and only the first kind can report
\* stability.
THEOREM StabilityRefinesStableWindow == Spec => StableOnlyOnWindow
<1>1. Init => \A t \in Targets : Promise(t)!Init
    <2> SUFFICES ASSUME Init, NEW t \in Targets PROVE Promise(t)!Init
        OBVIOUS
    <2>1. state[t] = Unsampled
        BY DEF Init
    <2>2. state[t].samples = << >> /\ Verdict(state[t]) = "measuring"
        BY <2>1 DEF Unsampled, Verdict
    <2>3. QED
        BY <2>2 DEF Promise!Init
<1>2. ASSUME SamplerInv, SamplerInv', OverrunBounded, [Next]_vars, NEW t \in Targets
      PROVE  Promise(t)!Next \/ UNCHANGED Promise(t)!vars
    <2> DEFINE s == state[t]
               r == Sampled(s)
    <2>0. /\ s \in Summary /\ SpanOf(s) /\ now \in Nat
          /\ TypeOK /\ LoopInv /\ SnapshotInv
        BY <1>2 DEF SamplerInv, TypeOK, RecordInv
    <2>1. CASE state'[t] = state[t]
        BY <2>1 DEF Promise!vars, LastSample, Verdict
    <2>2. CASE SkipSample
        <3>1. WithErrors(s).samples = s.samples /\ WithErrors(s).last = s.last
              /\ WithErrors(s).lastChange = s.lastChange /\ WithErrors(s).reason = s.reason
            BY <2>0, ErrorsKeep
        <3>2. state'[t] = s \/ state'[t] = WithErrors(s)
            BY <2>0, <2>2 DEF SkipSample, TypeOK
        <3>3. QED
            BY <3>1, <3>2 DEF Promise!vars, LastSample, Verdict
    <2>3. CASE Deadline /\ state'[t] # state[t]
        <3>1. s.reason = None /\ state'[t] = Summarised(s, "max_duration_reached")
            BY <2>3 DEF Deadline, Done
        <3>2. state'[t].reason = "max_duration_reached"
            BY <2>0, <3>1, SummarisedIs
        <3>3. QED
            BY <3>1, <3>2, NoneAssumption DEF Promise!Next, Promise!GiveUp, Verdict
    <2>4. ASSUME TakeSample \/ FindStable, state'[t] # state[t]
          PROVE  Promise(t)!Next
        <3>1. t = target /\ s.reason = None
            BY <2>0, <2>4 DEF TakeSample, FindStable, LoopInv, Done, TypeOK
        <3>2. snapshot.count \in Graph /\ snapshot.peers \in PeerSets
            BY <2>0, <2>4, CompleteSnapshot DEF TakeSample, FindStable
        <3>3. /\ r \in Summary
              /\ r.last = snapshot.count
              /\ r.lastChange = (IF Restarts(s) THEN now ELSE s.lastChange)
              /\ r.samples = Append(s.samples, [at |-> now, count |-> snapshot.count])
              /\ r.reason = None
              /\ r.samples[Len(r.samples)].at = now
            BY <2>0, <3>1, <3>2, SampledIs, SampleKeepsSpan
        <3> HIDE DEF r
        <3>4. /\ state'[t].samples = r.samples
              /\ state'[t].last = r.last
              /\ state'[t].lastChange = r.lastChange
              /\ state'[t].reason = (IF TakeSample THEN None ELSE "graph_stable")
            <4>1. CASE TakeSample
                <5>1. state'[t] = r
                    BY <2>0, <3>1, <4>1 DEF TakeSample, TypeOK, r
                <5>2. QED
                    BY <3>3, <4>1, <5>1
            <4>2. CASE FindStable
                <5>1. state'[t] = Summarised(r, "graph_stable")
                    BY <2>0, <3>1, <4>2 DEF FindStable, TypeOK, r
                <5>2. ~TakeSample
                    BY <4>2 DEF TakeSample, FindStable
                <5>3. QED
                    BY <3>3, <5>1, <5>2, SummarisedIs
            <4>3. QED
                BY <2>4, <4>1, <4>2
        <3>5. r.samples # << >>
            <4>1. s.samples \in Seq([at : Nat, count : Graph])
                  /\ [at |-> now, count |-> snapshot.count] \in [at : Nat, count : Graph]
                BY <2>0, <3>2 DEF Summary
            <4>2. QED
                BY <3>3, <4>1
        <3>6. state'[t].samples # << >> /\ LastSample(t)' .at = now
            BY <3>3, <3>4, <3>5 DEF LastSample
        <3>7. /\ Verdict(s) = "measuring"
              /\ Verdict(state[t])' = (IF TakeSample THEN "measuring" ELSE "converged")
            BY <3>1, <3>4, NoneAssumption DEF Verdict
        <3>8. CASE Restarts(s)
            <4>1. TakeSample
                <5>1. now - r.lastChange = 0
                    BY <2>0, <3>3, <3>8
                <5>2. ~Stable(r)
                    BY <5>1, SamplerAssumption DEF Stable
                <5>3. QED
                    BY <2>4, <3>1, <5>2 DEF FindStable, r
            <4>2. QED
                BY <3>3, <3>4, <3>6, <3>7, <3>8, <4>1
                DEF Promise!Next, Promise!Observe, Promise!Restart
        <3>9. CASE ~Restarts(s)
            <4>1. s.last = snapshot.count /\ s.samples # << >>
                BY <2>0, <3>2, <3>9, NoDeltaIsEqual DEF Restarts, SpanOf
            <4>2. LastSample(t).at \in Nat /\ LastSample(t).at <= now
                <5>1. Len(s.samples) \in Nat \ {0}
                    BY <2>0, <4>1, EmptySeq DEF Summary
                <5>2. s.samples \in Seq([at : Nat, count : Graph])
                    BY <2>0 DEF Summary
                <5>3. Len(s.samples) \in 1..Len(s.samples)
                    BY <5>1
                <5>4. s.samples[Len(s.samples)] \in [at : Nat, count : Graph]
                    BY <5>2, <5>3, ElementOfSeq, Zenon
                <5>5. DOMAIN s.samples = 1..Len(s.samples)
                    BY <5>2
                <5>6. QED
                    BY <1>2, <5>3, <5>4, <5>5 DEF LastSample, SamplerInv, PastInv
            <4>3. now - LastSample(t).at <= Horizon
                BY <1>2, <2>0, <4>2, QueryTimes, SamplerAssumption DEF OverrunBounded
            <4>4. Promise(t)!Extend
                BY <3>3, <3>4, <3>6, <3>9, <4>1, <4>2, <4>3 DEF Promise!Extend
            <4>5. CASE TakeSample
                BY <3>7, <4>4, <4>5 DEF Promise!Next, Promise!Observe
            <4>6. CASE FindStable
                <5>1. now - r.lastChange >= StableSeconds
                    BY <3>1, <4>6 DEF FindStable, Stable, r
                <5>2. ~TakeSample
                    BY <4>6 DEF TakeSample, FindStable
                <5>3. QED
                    BY <3>4, <3>6, <3>7, <4>4, <5>1, <5>2
                    DEF Promise!Next, Promise!Converge
            <4>7. QED
                BY <2>4, <4>5, <4>6
        <3>10. QED
            BY <3>8, <3>9
    <2>5. QED
        BY <1>2, <2>1, <2>2, <2>3, <2>4
        DEF Next, World, Snapshot, Evaluate, Rounds, Tick, GraphChanges, PeersChange,
            AnswerGraph, AnswerPeers, AnswerInfo, CallFails, Poll, SkipDone, AllDone,
            Sleep, NextRound, Returned, vars
<1>3. SamplerInv /\ SamplerInv' /\ OverrunBounded /\ [Next]_vars =>
          [\A t \in Targets : Promise(t)!Next \/ UNCHANGED Promise(t)!vars]_vars
    BY <1>2
<1>4. QED
    BY SamplerInvariant, OverrunIsBounded, <1>1, <1>3, PTL DEF Spec, StableOnlyOnWindow

-----------------------------------------------------------------------------
(* The diagnosis *)

\* Some sample of a target is related by Rel to the one that follows it.
SomeDiffer(q) == \E i \in 1 .. (Len(q) - 1) : Differ(q[i], q[i + 1])
SomeShrank(q) == \E i \in 1 .. (Len(q) - 1) : Shrank(q[i], q[i + 1])

\* The counters of a record are those of its samples.
EventsOf(s) ==
    /\ s.changeEvents > 0 <=> SomeDiffer(s.samples)
    /\ s.regressions > 0 <=> SomeShrank(s.samples)

\* What is summarised are these counters.
DiagnosisInv ==
    \A t \in Targets :
        /\ EventsOf(state[t])
        /\ Done(t) => state[t].signals = SignalsOf(state[t])

\* An evaluation counts one change and one regression at most, by the deltas.
LEMMA SampledCounts ==
    ASSUME NEW s \in Summary, snapshot.count \in Graph, snapshot.peers \in PeerSets,
           now \in Nat
    PROVE  /\ Sampled(s).changeEvents = s.changeEvents + (IF GraphChanged(s) THEN 1 ELSE 0)
           /\ Sampled(s).regressions =
                  s.regressions + (IF \E p \in Parts : Delta(s, p) < 0 THEN 1 ELSE 0)
<1> DEFINE q == WithPeers(WithErrors(s))
           r == WithSample(q)
<1>1. WithErrors(s) \in Summary /\ q \in Summary /\ r \in Summary
    BY ErrorsKeep, PeersKeep, SampleKeeps
<1>2. /\ WithErrors(s).changeEvents = s.changeEvents
      /\ WithErrors(s).regressions = s.regressions
      /\ WithErrors(s).last = s.last
    BY DEF WithErrors, Summary
<1>3. q.changeEvents = s.changeEvents /\ q.regressions = s.regressions /\ q.last = s.last
    BY <1>1, <1>2 DEF WithPeers, Summary
<1> HIDE DEF q
<1>4. r.changeEvents = s.changeEvents /\ r.regressions = s.regressions /\ r.last = s.last
    BY <1>1, <1>3 DEF WithSample, Summary
<1> HIDE DEF r
<1>5. \A p \in Parts : Delta(r, p) = Delta(s, p)
    BY <1>4 DEF Delta
<1>6. /\ WithGraph(r).changeEvents = r.changeEvents + (IF GraphChanged(r) THEN 1 ELSE 0)
      /\ WithGraph(r).regressions =
             r.regressions + (IF \E p \in Parts : Delta(r, p) < 0 THEN 1 ELSE 0)
    BY <1>1 DEF WithGraph, Summary
<1>7. QED
    BY <1>4, <1>5, <1>6 DEF Sampled, GraphChanged, q, r

\* A sample keeps the counters true to the samples: its deltas are the differences
\* from the sample before.
LEMMA SampleKeepsEvents ==
    ASSUME NEW s \in Summary, snapshot.count \in Graph, snapshot.peers \in PeerSets,
           now \in Nat, LedgerOf(s), EventsOf(s)
    PROVE  EventsOf(Sampled(s))
<1> DEFINE new == [at |-> now, count |-> snapshot.count]
           r == Sampled(s)
           n == Len(s.samples)
<1>1. /\ r.samples = Append(s.samples, new)
      /\ r.changeEvents = s.changeEvents + (IF GraphChanged(s) THEN 1 ELSE 0)
      /\ r.regressions = s.regressions + (IF \E p \in Parts : Delta(s, p) < 0 THEN 1 ELSE 0)
    BY SampledIs, SampledCounts
<1>2. /\ s.samples \in Seq([at : Nat, count : Graph])
      /\ s.changeEvents \in Nat /\ s.regressions \in Nat
    BY DEF Summary
<1>3. /\ n \in Nat /\ Len(r.samples) = n + 1
      /\ r.samples[n + 1] = new
      /\ \A i \in 1 .. n : r.samples[i] = s.samples[i]
    BY <1>1, <1>2
<1> SUFFICES EventsOf(r)
    OBVIOUS
<1> HIDE DEF r
<1>4. CASE s.samples = << >>
    <2>1. n = 0 /\ s.last = None
        BY <1>4 DEF LedgerOf
    <2>2. \A p \in Parts : Delta(s, p) = 0
        BY <2>1 DEF Delta
    <2>3. r.changeEvents = s.changeEvents /\ r.regressions = s.regressions
        BY <1>1, <1>2, <2>2 DEF GraphChanged
    <2>4. 1 .. (n - 1) = {} /\ 1 .. (Len(r.samples) - 1) = {}
        BY <1>3, <2>1
    <2>5. QED
        BY <2>3, <2>4 DEF EventsOf, SomeDiffer, SomeShrank
<1>5. CASE s.samples # << >>
    <2>1. n \in Nat \ {0} /\ s.last = s.samples[n].count /\ s.last \in Graph
        <3>1. n \in Nat \ {0}
            BY <1>2, <1>5
        <3>2. n \in 1 .. Len(s.samples)
            BY <3>1
        <3>3. \A i \in 1 .. Len(s.samples) : s.samples[i] \in [at : Nat, count : Graph]
            BY <1>2, ElementOfSeq, Zenon
        <3>4. s.samples[n] \in [at : Nat, count : Graph]
            BY <3>2, <3>3
        <3>5. s.samples[n].count \in Graph
            BY <3>4
        <3>6. QED
            BY <1>5, <3>1, <3>5 DEF LedgerOf
    <2>2. \A p \in Parts : /\ Delta(s, p) = new.count[p] - s.samples[n].count[p]
                           /\ new.count[p] \in Int /\ s.samples[n].count[p] \in Int
        BY <2>1, SizeIsInt, NoneAssumption DEF Delta
    <2>3. /\ GraphChanged(s) <=> Differ(s.samples[n], new)
          /\ (\E p \in Parts : Delta(s, p) < 0) <=> Shrank(s.samples[n], new)
        BY <2>2 DEF GraphChanged, Differ, Shrank
    <2>4. 1 .. (Len(r.samples) - 1) = 1 .. (n - 1) \cup {n}
        BY <1>3, <2>1
    <2>5. /\ SomeDiffer(r.samples) <=> SomeDiffer(s.samples) \/ Differ(s.samples[n], new)
          /\ SomeShrank(r.samples) <=> SomeShrank(s.samples) \/ Shrank(s.samples[n], new)
        <3>1. /\ r.samples[n] = s.samples[n] /\ r.samples[n + 1] = new
              /\ \A i \in 1 .. (n - 1) : r.samples[i] = s.samples[i]
                                       /\ r.samples[i + 1] = s.samples[i + 1]
            BY <1>3, <2>1
        <3>2. QED
            BY <2>4, <3>1 DEF SomeDiffer, SomeShrank
    <2>6. QED
        BY <1>1, <1>2, <2>3, <2>5 DEF EventsOf
<1>6. QED
    BY <1>4, <1>5

\* A summary reports the counters it is made from.
LEMMA SummaryKeepsEvents ==
    ASSUME NEW s \in Summary, EventsOf(s),
           NEW why \in {"graph_stable", "max_duration_reached"}
    PROVE  /\ EventsOf(Summarised(s, why))
           /\ Summarised(s, why).signals = SignalsOf(Summarised(s, why))
<1>1. /\ Summarised(s, why).changeEvents = s.changeEvents
      /\ Summarised(s, why).regressions = s.regressions
      /\ Summarised(s, why).peerless = s.peerless
      /\ Summarised(s, why).peerChanges = s.peerChanges
      /\ Summarised(s, why).failed = s.failed
      /\ Summarised(s, why).samples = s.samples
      /\ Summarised(s, why).signals = SignalsOf(s)
    BY DEF Summarised, Summary
<1>2. QED
    BY <1>1 DEF EventsOf, SignalsOf

\* Every step keeps the records true to their samples.
LEMMA DiagnosisStep == SamplerInv /\ DiagnosisInv /\ [Next]_vars => DiagnosisInv'
<1> SUFFICES ASSUME SamplerInv, DiagnosisInv, [Next]_vars PROVE DiagnosisInv'
    OBVIOUS
<1>0. /\ TypeOK /\ LoopInv /\ SnapshotInv
      /\ state \in [Targets -> Summary]
      /\ \A t \in Targets : LedgerOf(state[t]) /\ EventsOf(state[t])
    BY DEF SamplerInv, RecordInv, DiagnosisInv, TypeOK
<1>1. ASSUME NEW s, target \in Targets, state' = [state EXCEPT ![target] = s],
             EventsOf(s), s.reason # None => s.signals = SignalsOf(s)
      PROVE  DiagnosisInv'
    BY <1>0, <1>1 DEF DiagnosisInv, Done
<1>2. CASE SkipSample
    <2> DEFINE s == WithErrors(state[target])
    <2>1. /\ target \in Targets /\ state[target].reason = None
          /\ state' = [state EXCEPT ![target] = s]
        BY <1>0, <1>2 DEF SkipSample, LoopInv, Done
    <2>2. /\ s.reason = None
          /\ s.changeEvents = state[target].changeEvents
          /\ s.regressions = state[target].regressions
          /\ s.samples = state[target].samples
        BY <1>0, <2>1 DEF WithErrors, Summary
    <2> HIDE DEF s
    <2>3. EventsOf(s)
        BY <1>0, <2>1, <2>2 DEF EventsOf
    <2>4. QED
        BY <1>1, <2>1, <2>2, <2>3
<1>3. ASSUME TakeSample \/ FindStable
      PROVE  /\ target \in Targets
             /\ Sampled(state[target]) \in Summary
             /\ Sampled(state[target]).reason = None
             /\ EventsOf(Sampled(state[target]))
    <2>1. target \in Targets /\ state[target].reason = None /\ state[target] \in Summary
        BY <1>0, <1>3 DEF TakeSample, FindStable, LoopInv, Done
    <2>2. snapshot.count \in Graph /\ snapshot.peers \in PeerSets /\ now \in Nat
        BY <1>0, <1>3, CompleteSnapshot DEF TakeSample, FindStable, TypeOK
    <2>3. QED
        BY <1>0, <2>1, <2>2, SampledIs, SampleKeepsEvents
<1>4. CASE TakeSample
    BY <1>1, <1>3, <1>4 DEF TakeSample
<1>5. CASE FindStable
    <2> DEFINE s == Summarised(Sampled(state[target]), "graph_stable")
    <2>1. EventsOf(s) /\ s.signals = SignalsOf(s)
        BY <1>3, <1>5, SummaryKeepsEvents
    <2>2. state' = [state EXCEPT ![target] = s]
        BY <1>5 DEF FindStable
    <2> HIDE DEF s
    <2>3. QED
        BY <1>1, <1>3, <1>5, <2>1, <2>2
<1>6. CASE Deadline
    <2>1. state' = [t \in Targets |->
                      IF Done(t) THEN state[t]
                      ELSE Summarised(state[t], "max_duration_reached")]
        BY <1>6 DEF Deadline
    <2>2. ASSUME NEW t \in Targets
          PROVE  EventsOf(state'[t]) /\ (Done(t)' => state'[t].signals = SignalsOf(state'[t]))
        <3>1. CASE Done(t)
            BY <2>1, <2>2, <3>1 DEF DiagnosisInv, Done
        <3>2. CASE ~Done(t)
            <4> DEFINE s == Summarised(state[t], "max_duration_reached")
            <4>1. EventsOf(s) /\ s.signals = SignalsOf(s)
                BY <1>0, <2>2, SummaryKeepsEvents
            <4>2. state'[t] = s
                BY <2>1, <2>2, <3>2
            <4> HIDE DEF s
            <4>3. QED
                BY <4>1, <4>2
        <3>3. QED
            BY <3>1, <3>2
    <2>3. QED
        BY <2>2 DEF DiagnosisInv
<1>7. CASE UNCHANGED state
    BY <1>7 DEF DiagnosisInv, Done
<1>8. QED
    BY <1>2, <1>4, <1>5, <1>6, <1>7
    DEF Next, World, Snapshot, Evaluate, Rounds, Tick, GraphChanges, PeersChange,
        AnswerGraph, AnswerPeers, AnswerInfo, CallFails, Poll, SkipDone, AllDone, Sleep,
        NextRound, Returned, vars

\* The diagnosis agrees with the samples that were taken, in every target and however
\* many rounds were skipped.
THEOREM DiagnosisIsOfTheSamples == Spec => []DiagnosisMatchesSamples
<1>1. Init => DiagnosisInv
    <2> SUFFICES ASSUME Init, NEW t \in Targets
                 PROVE  EventsOf(state[t]) /\ ~Done(t)
        BY DEF DiagnosisInv
    <2>1. state[t] = Unsampled
        BY DEF Init
    <2>2. QED
        BY <2>1 DEF Unsampled, EventsOf, SomeDiffer, SomeShrank, Done
<1>2. SamplerInv /\ DiagnosisInv => DiagnosisMatchesSamples
    <2> SUFFICES ASSUME SamplerInv, DiagnosisInv, NEW t \in Targets, Done(t)
                 PROVE  /\ "graph_updates_trickled" \in state[t].signals
                               <=> SomeDiffer(state[t].samples)
                        /\ "graph_count_regressed" \in state[t].signals
                               <=> SomeShrank(state[t].samples)
                        /\ "initial_snapshot_stable" \in state[t].signals =>
                               ~SomeDiffer(state[t].samples) /\ ~state[t].failed
        BY DEF DiagnosisMatchesSamples, SomeDiffer, SomeShrank
    <2>1. EventsOf(state[t]) /\ state[t].signals = SignalsOf(state[t])
        BY DEF DiagnosisInv
    <2>2. QED
        BY <2>1 DEF EventsOf, SignalsOf
<1>3. QED
    BY SamplerInvariant, DiagnosisStep, <1>1, <1>2, PTL DEF Spec
=============================================================================
