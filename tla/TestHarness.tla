---------------------------- MODULE TestHarness ----------------------------
(***************************************************************************)
(* A test class under pytest: setup_class, for each method setup_method,   *)
(* the body and teardown_method, then teardown_class, of the four suites   *)
(* of the framework: FiberTest ("plain"), SharedFiberTest ("shared"),      *)
(* FiberCchTest ("cch") and P2pFiberTest ("p2p").  A stage that raises is  *)
(* aborted; pytest runs no teardown for a setup that raised.  The ports    *)
(* are fixed, so what an earlier class left running is in the way.         *)
(***************************************************************************)
EXTENDS NodeProcesses, SequencesExt

CONSTANTS
    Suites,     \* the suites to run
    MaxMethods, \* the number of methods of a class of each suite
    Leftovers   \* the sets of slots an earlier class may have left occupied

ASSUME HarnessAssumption ==
    /\ Suites \subseteq {"plain", "shared", "cch", "p2p"}
    /\ MaxMethods \in [Suites -> Nat \ {0}]
    /\ Leftovers \subseteq SUBSET (Slots \ {"miner"})

VARIABLES
    suite, debug, firstDebug,
    stage,      \* the xunit function that runs
    todo,       \* the steps it has left, in units; see Raise for what a unit is
    raised,     \* did it raise?
    fibers,     \* self.fibers
    made,       \* the resources setup_class of the cch suite has created
    redirected, \* config.TMP_PATH is the class's own
    failed,     \* history: the stages that raised
    errors      \* history: what _cleanup_class_resources caught

control == <<suite, debug, firstDebug, stage, method>>
harnessVars == <<control, todo, raised, fibers, made, redirected, failed, errors>>
vars == <<procVars, harnessVars>>

Stages == {"start", "setup_class", "setup_method", "body", "teardown_method",
           "teardown_class", "cleanup", "ended"}

-----------------------------------------------------------------------------
(* What each stage does. *)

ForceStopAndClean(s) == FiberForceStop(s) \o <<S("clean", s)>>
StopAndClean(s) == StopOf(s) \o <<S("clean", s)>>

StartFiber(s) == <<S("prepare", s)>> \o FiberStart(s)
StartLnd(s) == LndPrepare(s) \o LndStart(s)

SetupCkb == CkbPrepare \o CkbStart \o <<S("rpc", "ckb")>>

TrackFibers == <<S("rpc", "ckb"), S("track", "fiber1"), S("track", "fiber2")>>

\* clear the pool, mine, issue the UDT, mine on, start and connect both nodes
SetupFibers ==
    TrackFibers \o
    (IF debug THEN <<>>
     ELSE <<S("rpc", "ckb"), S("start_miner", "miner")>>
          \o StartFiber("fiber1") \o StartFiber("fiber2") \o ConnectPeer("fiber1"))

\* setup_class of the shared suite does both
SharedSetup == SetupCkb \o SetupFibers

StartNewMockFiber(s) == <<S("read_key", s), S("track", s)>>

StartNewFiber(s) ==
    IF debug THEN StartNewMockFiber(s)
    ELSE <<S("rpc", "ckb"), S("track", s)>> \o StartFiber(s)

SetupAttacker ==
    (IF debug THEN <<>> ELSE ForceStopAndClean("fiber2"))
    \o <<S("untrack", "fiber2")>> \o StartNewFiber("extra") \o <<S("rpc", "extra")>>

MakeNodes == <<S("make", "btc"), S("make", "lnd0"), S("make", "lnd1")>>

SetupCchClass ==
    SetupCkb \o MakeNodes
    \o BtcPrepare \o <<S("start_btc", "btc")>>
    \o StartLnd("lnd0") \o StartLnd("lnd1")
    \o <<S("rpc", "btc")>> \o LndOpenChannel("lnd0")
    \o <<S("rpc", "btc")>> \o LndOpenChannel("lnd1")

\* fiber1 is started again with the lnd node's certificate and address
SetupCchMethod ==
    SetupFibers \o (IF debug THEN <<>> ELSE FiberStop("fiber1") \o StartFiber("fiber1"))

StartNewLnd ==
    <<S("make", "lnd2")>> \o (IF debug THEN <<>> ELSE StartLnd("lnd2"))

\* stop all, then clean all, each on its own
CleanupUnits ==
    LET Made(s) == IF s \in made THEN <<s>> ELSE <<>>
        all == Made("lnd0") \o Made("lnd1") \o Made("lnd2") \o Made("btc") \o <<"ckb">>
    IN  [i \in DOMAIN all |-> StopOf(all[i])]
        \o [i \in DOMAIN all |-> <<S("clean", all[i])>>]

Units(steps) == IF steps = <<>> THEN <<>> ELSE <<steps>>

SetupMethod ==
    CASE suite = "plain" -> SetupFibers
      [] suite = "shared" -> <<>>
      [] suite = "cch" -> SetupCchMethod
      [] suite = "p2p" -> SetupFibers \o SetupAttacker

FiberTeardown == [i \in DOMAIN fibers |-> ForceStopAndClean(fibers[i])]
StopFibers == [i \in DOMAIN fibers |-> StopAndClean(fibers[i])]
CchTeardown == FiberTeardown \o StopFibers

\* Mutated form: only the first two nodes are torn down.
TeardownFirstTwo ==
    IF debug \/ firstDebug \/ suite = "shared" THEN <<>>
    ELSE [i \in DOMAIN fibers \cap {1, 2} |-> ForceStopAndClean(fibers[i])]

TeardownMethod ==
    IF debug \/ firstDebug \/ suite = "shared" THEN <<>>
    ELSE IF suite = "cch" THEN CchTeardown ELSE FiberTeardown

SharedTeardown == StopFibers \o <<StopAndClean("ckb")>>

TeardownClass ==
    IF debug \/ firstDebug THEN <<>>
    ELSE CASE suite \in {"plain", "p2p"} -> <<StopAndClean("ckb")>>
           [] suite = "shared" -> SharedTeardown
           [] suite = "cch" -> CleanupUnits

RestartFiber(s) == FiberStop(s) \o FiberStart(s)

\* _restart_fibers_with_config_overrides
RestartBoth ==
    FiberStop("fiber1") \o FiberStop("fiber2")
    \o FiberStart("fiber1") \o FiberStart("fiber2") \o ConnectPeer("fiber1")

\* What the tests of the repository do to the nodes.
Bodies ==
    {<<S("rpc", "fiber1")>>, RestartFiber("fiber1") \o <<S("rpc", "fiber1")>>}
    \cup (IF suite = "p2p" THEN {}
          ELSE {RestartBoth})
    \cup (IF "extra" \in Range(fibers) THEN {} ELSE {StartNewFiber("extra")})
    \cup (IF suite = "cch" /\ "lnd2" \notin made THEN {StartNewLnd} ELSE {})

-----------------------------------------------------------------------------
(* One step of the running stage. *)

ProcStep(op, s, ok) ==
    \/ op = "prepare" /\ Prepare(s, ok)
    \/ op = "spawn" /\ ok /\ Spawn(s)
    \/ op = "await_open" /\ AwaitPort(s, TRUE, ok)
    \/ op = "await_closed" /\ AwaitPort(s, FALSE, ok)
    \/ op = "await_unlocked" /\ AwaitUnlocked(s, ok)
    \/ op = "await_gone" /\ AwaitGone(s, ok)
    \/ op = "term" /\ ok /\ Term(s)
    \/ op = "kill" /\ ok /\ Kill(s)
    \/ op = "clean" /\ Clean(s, ok)
    \/ op = "refuse" /\ RefuseIfListening(s, ok)
    \/ op = "start_btc" /\ StartBitcoind(ok)
    \/ op = "stop_btc" /\ StopBitcoind(ok)
    \/ op = "start_miner" /\ ok /\ StartMiner
    \/ op = "stop_miner" /\ ok /\ StopMiner
    \/ op = "rpc" /\ Rpc(s, ok)
    \/ op = "read_key" /\ ReadKey(s, ok)

ListStep(op, s) ==
    \/ op = "track" /\ fibers' = Append(fibers, s) /\ UNCHANGED made
    \/ /\ op = "untrack"
       /\ \E i \in DOMAIN fibers : fibers[i] = s /\ fibers' = RemoveAt(fibers, i)
       /\ UNCHANGED made
    \/ op = "make" /\ made' = made \cup {s} /\ UNCHANGED fibers

\* Mutated form: teardown_class stops at its first error.
StopsAtFirstError == stage = "cleanup"

Collecting == stage = "cleanup" \/ (stage = "teardown_class" /\ suite = "cch")

\* A unit of CleanupUnits that raises is skipped, any other ends the stage.
Raise(s) ==
    IF Collecting
    THEN /\ errors' = errors \cup {s}
         /\ todo' = Tail(todo)
         /\ UNCHANGED <<raised, failed>>
    ELSE /\ todo' = <<>>
         /\ raised' = TRUE
         /\ failed' = failed \cup {stage}
         /\ UNCHANGED errors

Return ==
    /\ todo' = Units(Tail(Head(todo))) \o Tail(todo)
    /\ UNCHANGED <<raised, failed, errors>>

Step ==
    /\ todo # <<>>
    /\ LET st == Head(Head(todo)) IN
       \/ /\ \E ok \in BOOLEAN :
                /\ ProcStep(st.op, st.on, ok)
                /\ IF ok THEN Return ELSE Raise(st.on)
          /\ UNCHANGED <<fibers, made>>
       \/ ListStep(st.op, st.on) /\ Return /\ UNCHANGED procVars
    /\ UNCHANGED <<control, redirected>>

-----------------------------------------------------------------------------
(* From one stage to the next. *)

Enter(next, units) ==
    /\ stage' = next
    /\ todo' = units
    /\ raised' = FALSE

\* setup_class attaches to a node that listens if the class is being debugged.
StartClass ==
    /\ stage = "start"
    /\ UNCHANGED <<procVars, suite, method, fibers, made, failed, errors>>
    /\ redirected' = (suite = "p2p")
    /\ IF debug /\ Listening("ckb")
       THEN /\ Enter("setup_class", Units(CASE suite = "shared" -> TrackFibers
                                             [] suite = "cch" -> MakeNodes
                                             [] OTHER -> <<>>))
            /\ UNCHANGED <<debug, firstDebug>>
       ELSE /\ debug' = FALSE
            /\ firstDebug' = debug
            /\ Enter("setup_class",
                     Units(CASE suite = "cch" -> SetupCchClass
                             [] suite = "shared" -> SharedSetup'
                             [] OTHER -> SetupCkb))

\* The next method on a new instance of the class, or teardown_class.
NextMethod ==
    IF method < MaxMethods[suite]
    THEN /\ Enter("setup_method", Units(SetupMethod'))
         /\ method' = method + 1
         /\ fibers' = IF suite = "shared" THEN fibers ELSE <<>>
         /\ UNCHANGED redirected
    ELSE /\ Enter("teardown_class", TeardownClass)
         /\ UNCHANGED <<method, fibers, redirected>>

SetupClassEnds ==
    /\ stage = "setup_class" /\ todo = <<>>
    /\ UNCHANGED <<procVars, suite, debug, firstDebug, made, failed, errors>>
    /\ IF ~raised THEN NextMethod
       ELSE /\ IF suite = "cch" /\ ~debug /\ ~firstDebug
               THEN Enter("cleanup", CleanupUnits)
               ELSE Enter("ended", <<>>)
            /\ UNCHANGED <<method, fibers, redirected>>

SetupMethodEnds ==
    /\ stage = "setup_method" /\ todo = <<>>
    /\ UNCHANGED <<procVars, suite, debug, firstDebug, made, failed, errors>>
    /\ IF raised THEN NextMethod
       ELSE /\ \E body \in Bodies : Enter("body", Units(body))
            /\ UNCHANGED <<method, fibers, redirected>>

BodyEnds ==
    /\ stage = "body" /\ todo = <<>>
    /\ Enter("teardown_method", TeardownMethod)
    /\ UNCHANGED <<procVars, suite, debug, firstDebug, method, fibers, made,
                   redirected, failed, errors>>

\* Later methods of a P2P class reattach to the retained nodes.
TeardownMethodEnds ==
    /\ stage = "teardown_method" /\ todo = <<>>
    /\ UNCHANGED <<procVars, suite, firstDebug, made, failed, errors>>
    /\ debug' = (debug \/ (suite = "p2p" /\ firstDebug /\ ~raised))
    /\ NextMethod

\* Mutated form: TMP_PATH is not restored.
ClassEndsRedirected ==
    /\ stage \in {"teardown_class", "cleanup"} /\ todo = <<>>
    /\ Enter("ended", <<>>)
    /\ UNCHANGED <<procVars, suite, debug, firstDebug, method, fibers, made, redirected,
                   failed, errors>>

ClassEnds ==
    /\ stage \in {"teardown_class", "cleanup"} /\ todo = <<>>
    /\ Enter("ended", <<>>)
    /\ redirected' = (redirected /\ stage = "cleanup")
    /\ UNCHANGED <<procVars, suite, debug, firstDebug, method, fibers, made,
                   failed, errors>>

-----------------------------------------------------------------------------

Init ==
    /\ suite \in Suites
    /\ debug \in BOOLEAN /\ firstDebug = FALSE
    /\ stage = "start" /\ todo = <<>> /\ raised = FALSE
    /\ method = 0 /\ fibers = <<>> /\ made = {} /\ redirected = FALSE
    /\ failed = {} /\ errors = {} /\ missed = {}
    /\ minerPid = FALSE /\ guess = FALSE
    /\ \E left \in Leftovers, hasDir \in BOOLEAN :
         /\ phase = [s \in Slots |-> IF s \in left THEN "up" ELSE "none"]
         /\ dir = [s \in Slots |-> s \in left /\ hasDir]
         /\ orphan = [s \in Slots |-> s \in left /\ ~hasDir]
    /\ born = [s \in Slots |-> IF phase[s] = "up" THEN -1 ELSE 0]

Thread == Step \/ StartClass \/ SetupClassEnds \/ SetupMethodEnds \/ BodyEnds
          \/ TeardownMethodEnds \/ ClassEnds

Stops(s) == (s \in Fibers /\ ClosesPort(s)) \/ Exits(s)

Processes ==
    /\ \E s \in Slots :
          \/ Boots(s)
          \/ s \in Fibers /\ Dies(s)
          \/ Stops(s)
    /\ UNCHANGED harnessVars

Next == Thread \/ Processes

\* The runner goes on; a node that was told to stop flushes and exits.
Fairness ==
    /\ WF_vars(Thread)
    /\ \A s \in Slots :
          WF_vars(Stops(s) /\ UNCHANGED harnessVars)

Spec == Init /\ [][Next]_vars /\ Fairness

-----------------------------------------------------------------------------
(* Properties. *)

HarnessTypeOK ==
    /\ ProcTypeOK
    /\ suite \in Suites /\ stage \in Stages /\ method \in 0 .. MaxMethods[suite]
    /\ {debug, firstDebug, raised, redirected} \subseteq BOOLEAN
    /\ Range(fibers) \subseteq Fibers /\ IsInjective(fibers)
    /\ made \subseteq Lnds \cup {"btc"}
    /\ failed \subseteq Stages /\ errors \subseteq Slots

\* Types; and the process-wide TMP_PATH is the default one again once a class
\* has ended, unless its setup_class raised, after which nothing restores it.
HarnessInv ==
    /\ HarnessTypeOK
    /\ stage = "ended" /\ redirected => "setup_class" \in failed

Debugged == debug \/ firstDebug

\* What makes a class lose track of a process: one of its setups or teardowns
\* raised, or a kill looked for a listener while the process was starting.
LostTrack(s) ==
    \/ failed \cap {"setup_class", "setup_method", "teardown_method", "teardown_class"} # {}
    \/ s \in missed

ClassResources == Lnds \cup {"btc", "ckb"}

\* No silent leaks: what a class started and left behind, process or directory,
\* goes back to a setup or teardown that raised, to a kill that came before the
\* process listened, or to the guessed pid of the miner.  The resources of a cch
\* class are stopped one by one whatever else raised: only an error of their own
\* excuses them.  A test body that raises never does.
LeaksAreReported ==
    stage = "ended" /\ ~Debugged =>
        \A s \in Slots :
            /\ phase[s] \in {"booting", "up"} /\ born[s] >= 0 =>
                  CASE s = "miner" -> ~guess \/ LostTrack(s)
                    [] suite = "cch" /\ s \in ClassResources -> s \in errors \cup missed
                    [] OTHER -> LostTrack(s)
            /\ suite = "cch" /\ s \in made /\ dir[s] => s \in errors

\* In a suite that starts its nodes for every method, a test runs against a node
\* of its own method unless an earlier step lost track of that node or the port
\* was taken before the class began: start cannot tell whose port it finds open.
OldNodeOnlyAfterFailure ==
    stage = "body" /\ ~Debugged /\ suite # "shared" =>
        \A s \in Range(fibers) :
            phase[s] = "up" /\ born[s] # method => LostTrack(s) \/ born[s] = -1

\* As _wait_store_lock_released promises, no start of a node meets its old
\* process still flushing the store, as long as no setup or teardown raised and
\* the nodes are not kept for debugging.
StoreIsFreeOnStart ==
    \A s \in Fibers :
        /\ todo # <<>> /\ Head(Head(todo)) = S("spawn", s)
        /\ phase[s] = "closing" /\ StoreLocked(s)
        => LostTrack(s) \/ Debugged

\* Every class ends, and after one in which nothing raised and no kill came too
\* early its nodes are gone for good, except a miner with a wrongly guessed pid.
EventuallyQuiet ==
    <>[](/\ stage = "ended"
         /\ failed = {} /\ errors = {} /\ missed = {} /\ ~Debugged =>
               \A s \in Slots : \/ phase[s] = "none" \/ born[s] = -1
                                \/ (s = "miner" /\ ~guess))
=============================================================================
