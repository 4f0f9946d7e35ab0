-------------------------- MODULE CkbRpcProxyProofs --------------------------
(***************************************************************************)
(* Proofs about CkbRpcProxy for every set of methods, every limit and any  *)
(* number of requests and calls.                                           *)
(***************************************************************************)
EXTENDS CkbRpcProxy, TLAPS

\* The types of what ProxyInv does not mention.
ControlTypeOK ==
    /\ queued \in Seq(Methods)
    /\ call \in {"none", "block", "unblock", "start"}
    /\ armed \in Methods \cup {None}

\* unblock() has disarmed the trigger for good: it cannot go off while the call
\* waits for the server to stop and starts another one.
DisarmedInv == call \in {"unblock", "start"} => armed = None /\ ~autoBlocked

\* The counter the limit is compared with lags behind by at most the request that
\* had passed the limit section when block_after reset it.
LimitInv == limit # None => count <= limit /\ passed + InFlight <= count + 1

ServingInv ==
    /\ ProxyInv
    /\ ControlTypeOK
    /\ DisarmedInv
    /\ LimitInv
    /\ BlockedIsQuiet
    /\ ReopenedServes

\* The proxy starts in a state of the inductive invariant.
LEMMA InitServingInv == Init => ServingInv
<1> SUFFICES ASSUME Init PROVE ServingInv
    OBVIOUS
<1>1. ProxyInv
    BY ProxyAssumption DEF Init, ProxyInv, ShuttingDown
<1>2. ControlTypeOK /\ DisarmedInv /\ BlockedIsQuiet /\ ReopenedServes
    BY DEF Init, ControlTypeOK, DisarmedInv, BlockedIsQuiet, Admitted, ReopenedServes
<1>3. LimitInv
    BY DEF Init, LimitInv
<1>4. QED
    BY <1>1, <1>2, <1>3 DEF ServingInv

\* The server thread keeps it, section by section.
LEMMA ServingKeepsInv ==
    ASSUME ProxyAssumption, ServingInv, Serving
    PROVE  ServingInv'
<1>1. CASE Accept
    <2>1. ProxyInv'
        BY <1>1 DEF Accept, faults, bounds, ServingInv, ProxyInv, ControlTypeOK, ShuttingDown
    <2>2. ControlTypeOK' /\ DisarmedInv' /\ BlockedIsQuiet' /\ ReopenedServes'
        BY <1>1 DEF Accept, faults, bounds, ServingInv, ProxyInv, ControlTypeOK, DisarmedInv,
            BlockedIsQuiet, Admitted, ReopenedServes, ShuttingDown
    <2>3. LimitInv'
        BY <1>1 DEF Accept, faults, bounds, ServingInv, ProxyInv, LimitInv, InFlight
    <2>4. QED
        BY <2>1, <2>2, <2>3 DEF ServingInv
<1>2. CASE RejectSection
    <2>1. ProxyInv'
        BY <1>2 DEF RejectSection, Answer, Continue, bounds, ServingInv, ProxyInv,
            ControlTypeOK, ShuttingDown
    <2>2. ControlTypeOK' /\ DisarmedInv' /\ BlockedIsQuiet' /\ ReopenedServes'
        BY <1>2 DEF RejectSection, Answer, Continue, bounds, ServingInv, ProxyInv,
            ControlTypeOK, DisarmedInv, BlockedIsQuiet, Admitted, ReopenedServes, ShuttingDown
    <2>3. LimitInv'
        BY <1>2 DEF RejectSection, Answer, Continue, bounds, ServingInv, ProxyInv, LimitInv,
            InFlight
    <2>4. QED
        BY <2>1, <2>2, <2>3 DEF ServingInv
<1>3. CASE AutoBlockSection
    <2> USE DEF AutoBlockSection, TriggerAutoBlock, Answer, Continue
    <2>1. ProxyInv'
        BY <1>3 DEF ServingInv, ProxyInv, ShuttingDown
    <2>2. ControlTypeOK'
        <3>1. CASE TriggerAutoBlock
            <4>1. queued' \in Seq(Methods) /\ armed' = None
                BY <3>1
            <4>2. QED
                BY <1>3, <4>1 DEF ServingInv, ControlTypeOK
        <3>2. CASE UNCHANGED <<queued, armed>>
            BY <1>3, <3>2 DEF ServingInv, ControlTypeOK
        <3>3. QED
            BY <1>3, <3>1, <3>2
    <2>3. DisarmedInv'
        BY <1>3 DEF ServingInv, ProxyInv, DisarmedInv
    <2>4. BlockedIsQuiet' /\ ReopenedServes'
        BY <1>3 DEF ServingInv, ProxyInv, BlockedIsQuiet, Admitted, ReopenedServes
    <2>5. LimitInv'
        BY <1>3 DEF ServingInv, ProxyInv, LimitInv, InFlight
    <2>6. QED
        BY <2>1, <2>2, <2>3, <2>4, <2>5 DEF ServingInv
<1>4. CASE ErrorSection
    <2>1. ProxyInv'
        BY <1>4 DEF ErrorSection, Answer, Continue, faults, bounds, ServingInv, ProxyInv,
            ControlTypeOK, ShuttingDown
    <2>2. ControlTypeOK' /\ DisarmedInv' /\ BlockedIsQuiet' /\ ReopenedServes'
        BY <1>4 DEF ErrorSection, Answer, Continue, faults, bounds, ServingInv, ProxyInv,
            ControlTypeOK, DisarmedInv, BlockedIsQuiet, Admitted, ReopenedServes, ShuttingDown
    <2>3. LimitInv'
        BY <1>4 DEF ErrorSection, Answer, Continue, faults, bounds, ServingInv, ProxyInv,
            LimitInv, InFlight
    <2>4. QED
        BY <2>1, <2>2, <2>3 DEF ServingInv
<1>5. CASE LimitSection
    <2>1. ProxyInv'
        BY <1>5 DEF LimitSection, Answer, Continue, AtLimit, bounds, ServingInv, ProxyInv,
            ControlTypeOK, ShuttingDown
    <2>2. ControlTypeOK' /\ DisarmedInv' /\ BlockedIsQuiet' /\ ReopenedServes'
        BY <1>5 DEF LimitSection, Answer, Continue, AtLimit, bounds, ServingInv, ProxyInv,
            ControlTypeOK, DisarmedInv, BlockedIsQuiet, Admitted, ReopenedServes, ShuttingDown
    <2>3. LimitInv'
        BY <1>5 DEF LimitSection, Answer, Continue, AtLimit, bounds, ServingInv, ProxyInv,
            LimitInv, InFlight
    <2>4. QED
        BY <2>1, <2>2, <2>3 DEF ServingInv
<1>6. CASE NotifySection
    <2>1. ProxyInv'
        BY <1>6 DEF NotifySection, Answer, Continue, bounds, ServingInv, ProxyInv,
            ControlTypeOK, ShuttingDown
    <2>2. ControlTypeOK' /\ DisarmedInv' /\ BlockedIsQuiet' /\ ReopenedServes'
        BY <1>6 DEF NotifySection, Answer, Continue, bounds, ServingInv, ProxyInv,
            ControlTypeOK, DisarmedInv, BlockedIsQuiet, Admitted, ReopenedServes, ShuttingDown
    <2>3. LimitInv'
        BY <1>6 DEF NotifySection, Answer, Continue, bounds, ServingInv, ProxyInv, LimitInv,
            InFlight
    <2>4. QED
        BY <2>1, <2>2, <2>3 DEF ServingInv
<1>7. CASE Forward
    <2>1. ProxyInv'
        BY <1>7 DEF Forward, Answer, faults, bounds, ServingInv, ProxyInv, ControlTypeOK,
            ShuttingDown
    <2>2. ControlTypeOK' /\ DisarmedInv' /\ BlockedIsQuiet' /\ ReopenedServes'
        BY <1>7 DEF Forward, Answer, faults, bounds, ServingInv, ProxyInv, ControlTypeOK,
            DisarmedInv, BlockedIsQuiet, Admitted, ReopenedServes, ShuttingDown
    <2>3. LimitInv'
        BY <1>7 DEF Forward, Answer, faults, bounds, ServingInv, ProxyInv, LimitInv, InFlight
    <2>4. QED
        BY <2>1, <2>2, <2>3 DEF ServingInv
<1>8. CASE ServerStops
    <2>1. ProxyInv'
        BY <1>8 DEF ServerStops, faults, bounds, ServingInv, ProxyInv, ControlTypeOK,
            ShuttingDown
    <2>2. ControlTypeOK' /\ DisarmedInv' /\ BlockedIsQuiet' /\ ReopenedServes'
        BY <1>8 DEF ServerStops, faults, bounds, ServingInv, ProxyInv, ControlTypeOK,
            DisarmedInv, BlockedIsQuiet, Admitted, ReopenedServes, ShuttingDown
    <2>3. LimitInv'
        BY <1>8 DEF ServerStops, faults, bounds, ServingInv, ProxyInv, LimitInv, InFlight
    <2>4. QED
        BY <2>1, <2>2, <2>3 DEF ServingInv
<1>9. QED
    BY <1>1, <1>2, <1>3, <1>4, <1>5, <1>6, <1>7, <1>8 DEF Serving, Sections

\* So does every call of the test, between any two sections.
LEMMA ControlsKeepInv ==
    ASSUME ProxyAssumption, ServingInv, Controls
    PROVE  ServingInv'
<1>1. CASE RejectNext
    <2>1. ProxyInv'
        BY <1>1 DEF RejectNext, Calls, ServingInv, ProxyInv, ControlTypeOK, ShuttingDown
    <2>2. ControlTypeOK' /\ DisarmedInv' /\ BlockedIsQuiet' /\ ReopenedServes'
        BY <1>1 DEF RejectNext, Calls, ServingInv, ProxyInv, ControlTypeOK, DisarmedInv,
            BlockedIsQuiet, Admitted, ReopenedServes, ShuttingDown
    <2>3. LimitInv'
        BY <1>1 DEF RejectNext, Calls, ServingInv, ProxyInv, LimitInv, InFlight
    <2>4. QED
        BY <2>1, <2>2, <2>3 DEF ServingInv
<1>2. CASE BlockMethods
    <2>1. ProxyInv'
        BY <1>2 DEF BlockMethods, Calls, ServingInv, ProxyInv, ControlTypeOK, ShuttingDown
    <2>2. ControlTypeOK' /\ DisarmedInv' /\ BlockedIsQuiet' /\ ReopenedServes'
        BY <1>2 DEF BlockMethods, Calls, ServingInv, ProxyInv, ControlTypeOK, DisarmedInv,
            BlockedIsQuiet, Admitted, ReopenedServes, ShuttingDown
    <2>3. LimitInv'
        BY <1>2 DEF BlockMethods, Calls, ServingInv, ProxyInv, LimitInv, InFlight
    <2>4. QED
        BY <2>1, <2>2, <2>3 DEF ServingInv
<1>3. CASE BlockAfter
    <2>1. ProxyInv'
        BY <1>3 DEF BlockAfter, Calls, ServingInv, ProxyInv, ControlTypeOK, ShuttingDown
    <2>2. ControlTypeOK' /\ DisarmedInv' /\ BlockedIsQuiet' /\ ReopenedServes'
        BY <1>3 DEF BlockAfter, Calls, ServingInv, ProxyInv, ControlTypeOK, DisarmedInv,
            BlockedIsQuiet, Admitted, ReopenedServes, ShuttingDown
    <2>3. LimitInv'
        BY <1>3, ProxyAssumption DEF BlockAfter, Calls, ServingInv, ProxyInv, LimitInv,
            InFlight
    <2>4. QED
        BY <2>1, <2>2, <2>3 DEF ServingInv
<1>4. CASE Resume
    <2>1. ProxyInv'
        BY <1>4 DEF Resume, Calls, ServingInv, ProxyInv, ControlTypeOK, ShuttingDown
    <2>2. ControlTypeOK' /\ DisarmedInv' /\ BlockedIsQuiet' /\ ReopenedServes'
        BY <1>4 DEF Resume, Calls, ServingInv, ProxyInv, ControlTypeOK, DisarmedInv,
            BlockedIsQuiet, Admitted, ReopenedServes, ShuttingDown
    <2>3. LimitInv'
        BY <1>4 DEF Resume, Calls, ServingInv, ProxyInv, LimitInv, InFlight
    <2>4. QED
        BY <2>1, <2>2, <2>3 DEF ServingInv
<1>5. CASE NotifyOnMethod
    <2>1. ProxyInv'
        BY <1>5 DEF NotifyOnMethod, Calls, ServingInv, ProxyInv, ControlTypeOK, ShuttingDown
    <2>2. ControlTypeOK' /\ DisarmedInv' /\ BlockedIsQuiet' /\ ReopenedServes'
        BY <1>5 DEF NotifyOnMethod, Calls, ServingInv, ProxyInv, ControlTypeOK, DisarmedInv,
            BlockedIsQuiet, Admitted, ReopenedServes, ShuttingDown
    <2>3. LimitInv'
        BY <1>5 DEF NotifyOnMethod, Calls, ServingInv, ProxyInv, LimitInv, InFlight
    <2>4. QED
        BY <2>1, <2>2, <2>3 DEF ServingInv
<1>6. CASE AutoBlockOnMethod
    <2>1. ProxyInv'
        BY <1>6 DEF AutoBlockOnMethod, Calls, ServingInv, ProxyInv, ControlTypeOK, ShuttingDown
    <2>2. ControlTypeOK' /\ DisarmedInv' /\ BlockedIsQuiet' /\ ReopenedServes'
        BY <1>6 DEF AutoBlockOnMethod, Calls, ServingInv, ProxyInv, ControlTypeOK,
            DisarmedInv, BlockedIsQuiet, Admitted, ReopenedServes, ShuttingDown
    <2>3. LimitInv'
        BY <1>6 DEF AutoBlockOnMethod, Calls, ServingInv, ProxyInv, LimitInv, InFlight
    <2>4. QED
        BY <2>1, <2>2, <2>3 DEF ServingInv
<1>7. CASE Block
    <2>1. ProxyInv'
        BY <1>7 DEF Block, Calls, faults, ServingInv, ProxyInv, ControlTypeOK, ShuttingDown
    <2>2. ControlTypeOK' /\ DisarmedInv' /\ BlockedIsQuiet' /\ ReopenedServes'
        BY <1>7 DEF Block, Calls, faults, ServingInv, ProxyInv, ControlTypeOK, DisarmedInv,
            BlockedIsQuiet, Admitted, ReopenedServes, ShuttingDown
    <2>3. LimitInv'
        BY <1>7 DEF Block, Calls, faults, ServingInv, ProxyInv, LimitInv, InFlight
    <2>4. QED
        BY <2>1, <2>2, <2>3 DEF ServingInv
<1>8. CASE Unblock
    <2>1. ProxyInv'
        BY <1>8 DEF Unblock, Calls, ServingInv, ProxyInv, ControlTypeOK, ShuttingDown
    <2>2. ControlTypeOK' /\ DisarmedInv' /\ BlockedIsQuiet' /\ ReopenedServes'
        BY <1>8 DEF Unblock, Calls, ServingInv, ProxyInv, ControlTypeOK, DisarmedInv,
            BlockedIsQuiet, Admitted, ReopenedServes, ShuttingDown
    <2>3. LimitInv'
        BY <1>8 DEF Unblock, Calls, ServingInv, ProxyInv, LimitInv, InFlight
    <2>4. QED
        BY <2>1, <2>2, <2>3 DEF ServingInv
<1>9. QED
    BY <1>1, <1>2, <1>3, <1>4, <1>5, <1>6, <1>7, <1>8 DEF Controls

\* So do the clients and the end of unblock().
LEMMA OthersKeepInv ==
    ASSUME ServingInv, Connect \/ Start \/ UNCHANGED vars
    PROVE  ServingInv'
<1>1. CASE Connect
    <2>1. ProxyInv'
        BY <1>1 DEF Connect, faults, ServingInv, ProxyInv, ControlTypeOK, ShuttingDown
    <2>2. ControlTypeOK' /\ DisarmedInv' /\ BlockedIsQuiet' /\ ReopenedServes'
        BY <1>1 DEF Connect, faults, ServingInv, ProxyInv, ControlTypeOK, DisarmedInv,
            BlockedIsQuiet, Admitted, ReopenedServes, ShuttingDown
    <2>3. LimitInv'
        BY <1>1 DEF Connect, faults, ServingInv, ProxyInv, LimitInv, InFlight
    <2>4. QED
        BY <2>1, <2>2, <2>3 DEF ServingInv
<1>2. CASE Start
    <2>1. ProxyInv'
        BY <1>2 DEF Start, faults, bounds, ServingInv, ProxyInv, ControlTypeOK, ShuttingDown
    <2>2. ControlTypeOK' /\ DisarmedInv' /\ BlockedIsQuiet' /\ ReopenedServes'
        BY <1>2 DEF Start, faults, bounds, ServingInv, ProxyInv, ControlTypeOK, DisarmedInv,
            BlockedIsQuiet, Admitted, ReopenedServes, ShuttingDown
    <2>3. LimitInv'
        BY <1>2 DEF Start, faults, bounds, ServingInv, ProxyInv, LimitInv, InFlight
    <2>4. QED
        BY <2>1, <2>2, <2>3 DEF ServingInv
<1>3. CASE UNCHANGED vars
    <2>1. ProxyInv'
        BY <1>3 DEF vars, ServingInv, ProxyInv, ControlTypeOK, ShuttingDown
    <2>2. ControlTypeOK' /\ DisarmedInv' /\ BlockedIsQuiet' /\ ReopenedServes'
        BY <1>3 DEF vars, ServingInv, ProxyInv, ControlTypeOK, DisarmedInv, BlockedIsQuiet,
            Admitted, ReopenedServes, ShuttingDown
    <2>3. LimitInv'
        BY <1>3 DEF vars, ServingInv, ProxyInv, LimitInv, InFlight
    <2>4. QED
        BY <2>1, <2>2, <2>3 DEF ServingInv
<1>4. QED
    BY <1>1, <1>2, <1>3

\* The inductive invariant holds in every behaviour of the proxy and its test.
THEOREM ServingInvariant == Spec => []ServingInv
<1>1. ServingInv /\ [Next]_vars => ServingInv'
    BY ProxyAssumption, ServingKeepsInv, ControlsKeepInv, OthersKeepInv DEF Next
<1>2. QED
    BY InitServingInv, <1>1, PTL DEF Spec

\* Type correctness, and what the two threads rely on: a stopped server handles
\* nothing, and nothing waits at a closed socket.
THEOREM ProxyInvariant == Spec => []ProxyInv
<1>1. ServingInv => ProxyInv
    BY DEF ServingInv
<1>2. QED
    BY ServingInvariant, <1>1, PTL

\* Once block() has returned, or the trigger method was seen, no request gets through,
\* whatever was under way.
THEOREM BlockingIsComplete == Spec => []BlockedIsQuiet
<1>1. ServingInv => BlockedIsQuiet
    BY DEF ServingInv
<1>2. QED
    BY ServingInvariant, <1>1, PTL

\* A server that unblock() has opened again does not reset every request: a trigger
\* cannot go off while unblock() waits.
THEOREM ReopeningServes == Spec => []ReopenedServes
<1>1. ServingInv => ReopenedServes
    BY DEF ServingInv
<1>2. QED
    BY ServingInvariant, <1>1, PTL

\* block_after(n) lets through at most n + 1 requests, whatever was sent, called and
\* under way.
THEOREM OvershootIsOne == Spec => []AtMostOneOverTheLimit
<1>1. ServingInv => AtMostOneOverTheLimit
    BY DEF ServingInv, ProxyInv, LimitInv, InFlight, AtMostOneOverTheLimit
<1>2. QED
    BY ServingInvariant, <1>1, PTL

-----------------------------------------------------------------------------
(* The proxy implements the gate *)

\* Only a server that is up handles a request: its socket is closed under it by the
\* handler on its way out, or when it is idle.
HandlingInv == server # "up" => handler = "idle"

\* Every step keeps it.
LEMMA HandlingStep == ServingInv /\ HandlingInv /\ [Next]_vars => HandlingInv'
<1> SUFFICES ASSUME ServingInv, HandlingInv, [Next]_vars PROVE HandlingInv'
    OBVIOUS
<1>1. CASE Accept \/ Sections \/ ServerStops
    BY <1>1 DEF Accept, ServerStops, Sections, RejectSection, AutoBlockSection, TriggerAutoBlock,
        ErrorSection, LimitSection, NotifySection, Forward, Answer, Continue, HandlingInv
<1>2. CASE Controls
    BY <1>2 DEF Controls, Calls, RejectNext, BlockMethods, BlockAfter, Resume, NotifyOnMethod,
        AutoBlockOnMethod, Block, Unblock, HandlingInv
<1>3. CASE Connect \/ Start \/ UNCHANGED vars
    BY <1>3 DEF Connect, Start, vars, HandlingInv
<1>4. QED
    BY <1>1, <1>2, <1>3 DEF Next, Serving

\* A step that leaves the gate's variables alone is a stutter of the gate.
LEMMA GateStutters ==
    ASSUME UNCHANGED <<server, limit, count, passed, InFlight>>
    PROVE  UNCHANGED Gate!vars
BY DEF Gate!vars, Uncounted

\* The steps of the server thread are steps of the gate.
LEMMA ServingIsAGateStep ==
    ASSUME ServingInv, HandlingInv, Serving
    PROVE  [Gate!Next]_(Gate!vars)
<1>0. /\ count \in Nat /\ passed \in Nat /\ limit \in Nat \cup {None} /\ None \notin Nat
      /\ handler # "idle" => server = "up"
    BY ProxyAssumption DEF ServingInv, ProxyInv, HandlingInv
<1>1. CASE Accept \/ RejectSection \/ ErrorSection \/ NotifySection
    <2>1. UNCHANGED <<server, limit, count, passed, InFlight>>
        BY <1>1 DEF Accept, RejectSection, ErrorSection, NotifySection, Answer, Continue,
            InFlight, faults
    <2>2. QED
        BY <2>1, GateStutters
<1>2. CASE AutoBlockSection
    <2>1. InFlight = 0 /\ InFlight' = 0 /\ UNCHANGED <<limit, count, passed>>
        BY <1>2 DEF AutoBlockSection, Answer, Continue, InFlight
    <2>2. CASE UNCHANGED server
        BY <2>1, <2>2, GateStutters
    <2>3. CASE TriggerAutoBlock
        BY <2>1, <2>3 DEF TriggerAutoBlock, Uncounted, Gate!Close, Gate!Next
    <2>4. QED
        BY <1>2, <2>2, <2>3 DEF AutoBlockSection
<1>3. CASE LimitSection
    <2>1. /\ server = "up" /\ InFlight = 0
          /\ UNCHANGED <<server, limit, passed>>
        BY <1>0, <1>3 DEF LimitSection, InFlight
    <2>2. CASE Answer /\ UNCHANGED count
        <3>1. InFlight' = 0
            BY <2>2 DEF Answer, InFlight
        <3>2. QED
            BY <2>1, <2>2, <3>1, GateStutters
    <2>3. CASE Continue("notify")
        <3>1. InFlight' = 1
            BY <2>3 DEF Continue, InFlight
        <3>2. CASE limit = None
            BY <2>1, <3>1, <3>2 DEF Uncounted, Gate!Enter, Gate!Next
        <3>3. CASE limit # None
            <4>1. count < limit /\ count' = count + 1
                BY <1>0, <1>3, <2>3, <3>3 DEF LimitSection, AtLimit, Answer, Continue
            <4>2. Uncounted = passed - count /\ Uncounted' = passed + 1 - (count + 1)
                BY <1>0, <2>1, <3>1, <3>3, <4>1 DEF Uncounted
            <4>3. Uncounted' = Uncounted /\ passed < limit + Uncounted
                BY <1>0, <3>3, <4>1, <4>2
            <4>4. QED
                BY <2>1, <3>1, <4>3 DEF Gate!Enter, Gate!Next
        <3>4. QED
            BY <3>2, <3>3
    <2>4. QED
        BY <1>3, <2>2, <2>3 DEF LimitSection
<1>4. CASE Forward
    <2>1. /\ server = "up" /\ InFlight = 1 /\ InFlight' = 0 /\ passed' = passed + 1
          /\ UNCHANGED <<server, limit, count>>
        BY <1>0, <1>4 DEF Forward, Answer, InFlight, faults
    <2>2. Uncounted' = Uncounted
        BY <1>0, <2>1 DEF Uncounted
    <2>3. QED
        BY <2>1, <2>2 DEF Gate!Pass, Gate!Next
<1>5. CASE ServerStops
    <2>1. /\ InFlight = 0 /\ InFlight' = 0 /\ server' = "none"
          /\ UNCHANGED <<limit, count, passed>>
        BY <1>5 DEF ServerStops, InFlight, faults
    <2>2. QED
        BY <2>1 DEF Uncounted, Gate!Close, Gate!Next
<1>6. QED
    BY <1>1, <1>2, <1>3, <1>4, <1>5 DEF Serving, Sections

\* So are the calls of the test.
LEMMA ControlsAreGateSteps ==
    ASSUME ServingInv, Controls
    PROVE  [Gate!Next]_(Gate!vars)
<1>0. UNCHANGED InFlight
    BY DEF Controls, Calls, RejectNext, BlockMethods, BlockAfter, Resume, NotifyOnMethod,
        AutoBlockOnMethod, Block, Unblock, InFlight
<1>1. CASE BlockAfter
    <2>1. /\ limit' \in Nat /\ limit' # None /\ count' = 0 /\ passed' = 0
          /\ UNCHANGED server
        BY <1>1, ProxyAssumption DEF BlockAfter
    <2>2. InFlight \in {0, 1}
        BY DEF InFlight
    <2>3. Uncounted' = InFlight
        BY <1>0, <2>1, <2>2 DEF Uncounted
    <2>4. QED
        BY <1>0, <2>1, <2>2, <2>3 DEF Gate!SetQuota, Gate!Next
<1>2. CASE Resume
    <2>1. limit' = None /\ UNCHANGED <<server, passed>>
        BY <1>2 DEF Resume
    <2>2. QED
        BY <1>0, <2>1 DEF Uncounted, Gate!Lift, Gate!Next
<1>3. CASE UNCHANGED <<server, limit, count, passed>>
    BY <1>0, <1>3, GateStutters
<1>4. QED
    BY <1>1, <1>2, <1>3 DEF Controls, RejectNext, BlockMethods, NotifyOnMethod,
        AutoBlockOnMethod, Block, Unblock, faults

\* Whatever section a request is in when the test calls, the proxy is a gate: it lets
\* requests in while it is open, closes on nobody, and lets through no more than a
\* limit allows beside the one that was past it when it was set.
THEOREM ProxyIsAGate == Spec => ForwardsOnlyThroughTheGate
<1>1. Init => Gate!Init /\ HandlingInv
    BY DEF Init, Gate!Init, InFlight, Uncounted, HandlingInv
<1>2. ASSUME ServingInv, HandlingInv, [Next]_vars
      PROVE  [Gate!Next]_(Gate!vars)
    <2>1. CASE Serving
        BY <1>2, <2>1, ServingIsAGateStep
    <2>2. CASE Controls
        BY <1>2, <2>2, ControlsAreGateSteps
    <2>3. CASE Start
        <3>1. server' = "up" /\ UNCHANGED <<handler, limit, count, passed>>
            BY <2>3 DEF Start, faults
        <3>2. UNCHANGED InFlight
            BY <3>1 DEF InFlight
        <3>3. QED
            BY <3>1, <3>2 DEF Uncounted, Gate!Open, Gate!Next
    <2>4. CASE Connect \/ UNCHANGED vars
        <3>1. UNCHANGED <<server, handler, limit, count, passed>>
            BY <2>4 DEF Connect, faults, vars
        <3>2. UNCHANGED InFlight
            BY <3>1 DEF InFlight
        <3>3. QED
            BY <3>1, <3>2, GateStutters
    <2>5. QED
        BY <1>2, <2>1, <2>2, <2>3, <2>4 DEF Next
<1>3. QED
    BY ServingInvariant, HandlingStep, <1>1, <1>2, PTL
    DEF Spec, ForwardsOnlyThroughTheGate, Gate!Spec

-----------------------------------------------------------------------------
(* How long a call can wait *)

\* The sections a request has still to pass, the current one included.
SectionsLeft ==
    [idle |-> 0, forward |-> 1, notify |-> 2, limit |-> 3, errors |-> 4, auto |-> 5,
     reject |-> 6]

\* The steps of the two threads until the call the test is in returns: the sections
\* of the request under way, the stop of the server, and the start of another one.
StepsToReturn ==
    SectionsLeft[handler]
    + CASE call = "none" -> 0 [] call = "unblock" -> 2 [] OTHER -> 1

\* Every section of the handler has a number.
LEMMA SectionsLeftType ==
    ASSUME ServingInv, ServingInv'
    PROVE  SectionsLeft[handler] \in 0..6 /\ SectionsLeft[handler'] \in 0..6
BY DEF ServingInv, ProxyInv, SectionsLeft

\* No section is passed twice.
LEMMA SectionsGetFewer ==
    ASSUME ServingInv, ServingInv', [Next]_vars, handler # "idle", handler' # handler
    PROVE  SectionsLeft[handler'] < SectionsLeft[handler]
<1>1. Sections
    BY DEF Next, Serving, Accept, ServerStops, Controls, Calls, RejectNext, BlockMethods,
        BlockAfter, Resume, NotifyOnMethod, AutoBlockOnMethod, Block, Unblock, Connect, Start, vars
<1>2. QED
    BY <1>1 DEF Sections, RejectSection, AutoBlockSection, ErrorSection, LimitSection,
        NotifySection, Forward, Answer, Continue, SectionsLeft

\* While the test is in block() or unblock(), only what it waits for goes on.
LEMMA WaitsGetShorter ==
    ASSUME ServingInv, ServingInv', [Next]_vars, call # "none",
           <<handler, call>>' # <<handler, call>>
    PROVE  StepsToReturn' < StepsToReturn
<1>0. /\ call \in {"block", "unblock", "start"} /\ call' \in {"none", "block", "unblock", "start"}
      /\ SectionsLeft[handler] \in 0..6 /\ SectionsLeft[handler'] \in 0..6
    BY SectionsLeftType DEF ServingInv, ControlTypeOK
<1>1. CASE Accept
    <2>1. call = "start" /\ server = "up"
        BY <1>0, <1>1 DEF Accept, ShuttingDown
    <2>2. QED
        BY <2>1 DEF ServingInv, ProxyInv
<1>2. CASE Sections
    <2>1. UNCHANGED call /\ handler # "idle"
        BY <1>2 DEF Sections, RejectSection, AutoBlockSection, ErrorSection, LimitSection,
            NotifySection, Forward
    <2>2. SectionsLeft[handler'] < SectionsLeft[handler]
        BY <2>1, SectionsGetFewer
    <2>3. QED
        BY <1>0, <2>1, <2>2 DEF StepsToReturn
<1>3. CASE ServerStops
    <2>1. /\ UNCHANGED handler
          /\ \/ call = "block" /\ call' = "none"
             \/ call = "unblock" /\ call' = "start"
        BY <1>0, <1>3 DEF ServerStops, ShuttingDown
    <2>2. QED
        BY <1>0, <2>1 DEF StepsToReturn
<1>4. CASE Start
    <2>1. UNCHANGED handler /\ call = "start" /\ call' = "none"
        BY <1>4 DEF Start
    <2>2. QED
        BY <1>0, <2>1 DEF StepsToReturn
<1>5. QED
    BY <1>1, <1>2, <1>3, <1>4 DEF Next, Serving, Connect, Controls, Calls, RejectNext,
        BlockMethods, BlockAfter, Resume, NotifyOnMethod, AutoBlockOnMethod, Block, Unblock, vars

\* A request is answered after at most six sections, and block() and unblock() return
\* after at most eight steps of the two threads: while one of them waits no further
\* request is taken, and no step of another thread gives it more to wait for.
THEOREM WaitsAreBounded ==
    Spec => /\ [](StepsToReturn \in 0..8)
            /\ [][handler # "idle" => SectionsLeft[handler'] < SectionsLeft[handler]]_handler
            /\ [][call # "none" => StepsToReturn' < StepsToReturn]_<<handler, call>>
<1>1. ServingInv => StepsToReturn \in 0..8
    BY DEF ServingInv, ProxyInv, ControlTypeOK, SectionsLeft, StepsToReturn
<1>2. ServingInv /\ ServingInv' /\ [Next]_vars =>
         [handler # "idle" => SectionsLeft[handler'] < SectionsLeft[handler]]_handler
    BY SectionsGetFewer
<1>3. ServingInv /\ ServingInv' /\ [Next]_vars =>
         [call # "none" => StepsToReturn' < StepsToReturn]_<<handler, call>>
    BY WaitsGetShorter
<1>4. QED
    BY ServingInvariant, <1>1, <1>2, <1>3, PTL DEF Spec
=============================================================================
