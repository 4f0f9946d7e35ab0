--------------------------- MODULE NodeProcesses ---------------------------
(***************************************************************************)
(* The processes a test class starts on fixed ports (fnn nodes, the CKB    *)
(* node and its miner, bitcoind, lnd) and what the methods of Fiber,       *)
(* CkbNode, LndNode and BtcNode do to them.  A method is a sequence of     *)
(* steps; a step returns (ok) or raises (~ok).  Whoever is found listening *)
(* on a node's port is taken for the node, and only he is ever killed.     *)
(***************************************************************************)
EXTENDS Integers, Sequences, FiniteSets

Fibers == {"fiber1", "fiber2", "extra"}
Lnds == {"lnd0", "lnd1", "lnd2"}
Slots == Fibers \cup Lnds \cup {"ckb", "miner", "btc"}

VARIABLES
    phase,    \* what the process on a port does; "closing": port closed, store locked
    born,     \* the test method it was started in; 0: setup_class, -1: an earlier class
    dir,      \* is the work dir there?
    orphan,   \* was the work dir removed under the process?
    minerPid, \* ckb_miner_pid # -1
    guess,    \* is the pid + 1 of run_command the miner's?
    missed,   \* history: slots where a kill found a live process that did not listen
    method    \* the test method under way, 0 in setup_class

procVars == <<phase, born, dir, orphan, minerPid, guess, missed>>

Phases == {"none", "booting", "up", "stopping", "closing"}

Listening(s) == phase[s] \in {"up", "stopping"}
StoreLocked(s) == phase[s] # "none" /\ dir[s] /\ ~orphan[s]

-----------------------------------------------------------------------------
(* The steps. *)

\* run_command with a trailing "&": the new process takes the place of nothing,
\* or of one whose dir is gone and whose port is free; else it loses the port
\* or the store's LOCK and exits.
Spawn(s) ==
    /\ \/ /\ dir[s]
          /\ \/ phase[s] = "none"
             \/ phase[s] \in {"booting", "closing"} /\ orphan[s]
          /\ phase' = [phase EXCEPT ![s] = "booting"]
          /\ born' = [born EXCEPT ![s] = method]
          /\ orphan' = [orphan EXCEPT ![s] = FALSE]
       \/ /\ ~dir[s] \/ Listening(s) \/ phase[s] = "booting" \/ StoreLocked(s)
          /\ UNCHANGED <<phase, born, orphan>>
    /\ UNCHANGED <<dir, minerPid, guess, missed>>

\* wait_for_port: returns once the port is as asked for, else times out.
AwaitPort(s, open, ok) ==
    /\ ok <=> (Listening(s) = open)
    /\ UNCHANGED procVars

\* _wait_store_lock_released: returns once nobody holds the store's LOCK.
AwaitUnlocked(s, ok) ==
    /\ ok <=> ~StoreLocked(s)
    /\ UNCHANGED procVars

Missed(s) == IF phase[s] = "booting" THEN missed \cup {s} ELSE missed

\* kill $(lsof -i:port | grep LISTEN): SIGTERM to whoever listens.
Term(s) ==
    /\ phase' = [phase EXCEPT ![s] = IF Listening(s) THEN "stopping" ELSE @]
    /\ missed' = Missed(s)
    /\ UNCHANGED <<born, dir, orphan, minerPid, guess>>

\* kill -9: the kernel closes the port and drops the lock.
Kill(s) ==
    /\ phase' = [phase EXCEPT ![s] = IF Listening(s) THEN "none" ELSE @]
    /\ missed' = Missed(s)
    /\ UNCHANGED <<born, dir, orphan, minerPid, guess>>

\* LndNode.stop polls the pids it signalled until they are gone.
AwaitGone(s, ok) ==
    /\ ok <=> (phase[s] # "stopping")
    /\ UNCHANGED procVars

\* prepare writes the config files and keys; it may fail half-way.
Prepare(s, ok) ==
    /\ dir' \in {[dir EXCEPT ![s] = TRUE]} \cup (IF ok THEN {} ELSE {dir})
    /\ UNCHANGED <<phase, born, orphan, minerPid, guess, missed>>

\* rm -rf fails only against a process that still writes; rmtree also if there
\* is nothing to remove.
Clean(s, ok) ==
    /\ IF ok
       THEN /\ s \in Lnds \cup {"btc"} => dir[s]
            /\ dir' = [dir EXCEPT ![s] = FALSE]
            /\ orphan' = [orphan EXCEPT ![s] = @ \/ phase[s] # "none"]
       ELSE /\ phase[s] # "none" \/ (s \in Lnds \cup {"btc"} /\ ~dir[s])
            /\ UNCHANGED <<dir, orphan>>
    /\ UNCHANGED <<phase, born, minerPid, guess, missed>>

\* LndNode.start refuses a port that has a listener.
RefuseIfListening(s, ok) ==
    /\ ok <=> ~Listening(s)
    /\ UNCHANGED procVars

\* bitcoind -daemonwait, createwallet, 101 blocks: any of them may fail, the
\* daemon running or not.
StartBitcoind(ok) ==
    /\ ok => dir["btc"] /\ phase["btc"] = "none"
    /\ \/ /\ dir["btc"] /\ phase["btc"] = "none"
          /\ phase' = [phase EXCEPT !["btc"] = "up"]
          /\ born' = [born EXCEPT !["btc"] = method]
       \/ ~ok /\ UNCHANGED <<phase, born>>
    /\ UNCHANGED <<dir, orphan, minerPid, guess, missed>>

\* kill `cat bitcoind.pid`: fails without the file or the process.
StopBitcoind(ok) ==
    /\ ok <=> Listening("btc") /\ dir["btc"]
    /\ phase' = [phase EXCEPT !["btc"] = IF ok THEN "stopping" ELSE @]
    /\ UNCHANGED <<born, dir, orphan, minerPid, guess, missed>>

\* start_miner remembers run_command's pid + 1, which may not be the miner's.
StartMiner ==
    /\ IF minerPid
       THEN UNCHANGED <<phase, born, guess>>
       ELSE /\ phase' = [phase EXCEPT !["miner"] = "up"]
            /\ born' = [born EXCEPT !["miner"] = method]
            /\ guess' \in BOOLEAN
    /\ minerPid' = TRUE
    /\ UNCHANGED <<dir, orphan, missed>>

\* stop_miner forgets the pid whether or not the kill hit the miner.
StopMiner ==
    /\ phase' = [phase EXCEPT !["miner"] = IF minerPid /\ guess THEN "none" ELSE @]
    /\ minerPid' = FALSE
    /\ UNCHANGED <<born, dir, orphan, guess, missed>>

\* Any calls of a node: they need it up, and may fail all the same.
Rpc(s, ok) ==
    /\ ok => phase[s] = "up"
    /\ UNCHANGED procVars

\* start_new_mock_fiber reads the key of a node that was left running.
ReadKey(s, ok) ==
    /\ ok <=> dir[s]
    /\ UNCHANGED procVars

-----------------------------------------------------------------------------
(* The methods, as the steps they take. *)

S(op, s) == [op |-> op, on |-> s]

\* Mutated form: stop returns with the port, not with the store's LOCK.
FiberStopByPort(s) == <<S("term", s), S("await_closed", s)>>

FiberStart(s) == <<S("spawn", s), S("await_open", s)>>
FiberStop(s) == <<S("term", s), S("await_closed", s), S("await_unlocked", s)>>
FiberForceStop(s) == <<S("kill", s), S("await_closed", s)>>

\* Mutated form: the miner is not stopped with its node.
CkbStopNodeOnly == <<S("term", "ckb")>>

LndPrepare(s) == <<S("prepare", s)>>
BtcPrepare == <<S("prepare", "btc")>>
CkbPrepare == <<S("prepare", "ckb")>>

\* Retried for as long as lnd is still syncing, then raises.
LndOpenChannel(s) == <<S("rpc", s)>>
ConnectPeer(s) == <<S("rpc", s)>>

CkbStart == <<S("spawn", "ckb")>>
CkbStop == <<S("stop_miner", "miner"), S("term", "ckb")>>

LndStart(s) == <<S("refuse", s), S("spawn", s), S("await_open", s)>>
LndStop(s) == <<S("term", s), S("await_gone", s)>>

StopOf(s) ==
    CASE s \in Fibers -> FiberStop(s)
      [] s \in Lnds -> LndStop(s)
      [] s = "btc" -> <<S("stop_btc", "btc")>>
      [] s = "ckb" -> CkbStop

-----------------------------------------------------------------------------
(* What the processes do by themselves. *)

\* A node that starts opens its port, unless another one has it.
Boots(s) ==
    /\ phase[s] = "booting"
    /\ phase' = [phase EXCEPT ![s] = "up"]
    /\ UNCHANGED <<born, dir, orphan, minerPid, guess, missed>>

\* A node may die at any time, for instance of a panic or a bad config.
Dies(s) ==
    /\ phase[s] \in {"booting", "up"}
    /\ phase' = [phase EXCEPT ![s] = "none"]
    /\ UNCHANGED <<born, dir, orphan, minerPid, guess, missed>>

\* fnn closes its RPC port first and flushes its store afterwards.
ClosesPort(s) ==
    /\ phase[s] = "stopping"
    /\ phase' = [phase EXCEPT ![s] = "closing"]
    /\ UNCHANGED <<born, dir, orphan, minerPid, guess, missed>>

Exits(s) ==
    /\ phase[s] \in IF s \in Fibers THEN {"closing"} ELSE {"stopping"}
    /\ phase' = [phase EXCEPT ![s] = "none"]
    /\ UNCHANGED <<born, dir, orphan, minerPid, guess, missed>>

ProcTypeOK ==
    /\ phase \in [Slots -> Phases]
    /\ born \in [Slots -> Int]
    /\ dir \in [Slots -> BOOLEAN]
    /\ orphan \in [Slots -> BOOLEAN]
    /\ minerPid \in BOOLEAN /\ guess \in BOOLEAN
    /\ missed \subseteq Slots
=============================================================================
