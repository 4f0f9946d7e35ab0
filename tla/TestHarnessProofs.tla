------------------------- MODULE TestHarnessProofs -------------------------
(***************************************************************************)
(* Proofs about TestHarness for every choice of suites, every number of    *)
(* methods and whatever an earlier class has left on the ports.            *)
(***************************************************************************)
EXTENDS TestHarness, SequenceTheorems, TLAPS

-----------------------------------------------------------------------------
(* Steps and processes *)

Ops == {"prepare", "spawn", "await_open", "await_closed", "await_unlocked", "await_gone",
        "term", "kill", "clean", "refuse", "start_btc", "stop_btc", "start_miner",
        "stop_miner", "rpc", "read_key", "track", "untrack", "make"}
Owned == Lnds \cup {"btc"}

StepSet == {st \in [op : Ops, on : Slots] :
              /\ st.op \in {"track", "untrack"} => st.on \in Fibers
              /\ st.op = "make" => st.on \in Owned
              /\ st.op \in {"start_btc", "stop_btc"} => st.on = "btc"
              /\ st.op \in {"start_miner", "stop_miner"} <=> st.on = "miner"}
UnitSet == Seq(StepSet) \ {<<>>}

\* Does a process run that nobody has told to stop?  One this class has started?
Running(s) == phase[s] \in {"booting", "up"}
Alive(s) == Running(s) /\ born[s] >= 0

\* Does a process that was told to stop still hold the store, or will it, once
\* the work dir is there again?
Held(s) == phase[s] \in {"stopping", "closing"} /\ ~orphan[s]

\* The miner, if the guess at its pid is right.
MinerLoose == Alive("miner") /\ guess

\* A fiber node whose work dir was removed is without it until another one is started.
DirInv ==
    /\ \A s \in Fibers : phase[s] # "none" /\ ~dir[s] => orphan[s]
    /\ \A s \in Slots : born[s] >= -1
    /\ MinerLoose => minerPid

\* What a step does to the process of a slot, whether it returns or raises.
Moved(st, s) ==
    /\ Running(s)' => \/ Running(s) /\ born'[s] = born[s]
                      \/ /\ st.on = s /\ st.op \in {"spawn", "start_btc", "start_miner"}
                         /\ born'[s] = method
    /\ s \in Fibers /\ Held(s)' => Held(s) \/ (st = S("term", s) /\ Running(s))
    /\ st \in {S("kill", s), S("term", s)} => ~Running(s)' \/ s \in missed'
    /\ missed \subseteq missed'
    /\ dir'[s] => dir[s] \/ st = S("prepare", s)
    /\ MinerLoose' => (MinerLoose \/ st.op = "start_miner") /\ st.op # "stop_miner"

\* What it has done once it returns.
Worked(st, s) ==
    /\ st = S("clean", s) => ~Held(s)' /\ ~dir'[s]
    /\ st = S("await_unlocked", s) /\ s \in Fibers => ~Held(s)'
    /\ st.op = "stop_btc" /\ s = "btc" => ~Running(s)'

LEMMA StepIs ==
    ASSUME NEW st \in StepSet
    PROVE  /\ st.op \in Ops /\ st.on \in Slots /\ st = S(st.op, st.on)
           /\ st.op \in {"track", "untrack"} => st.on \in Fibers
           /\ st.op = "make" => st.on \in Owned
           /\ st.op \in {"start_btc", "stop_btc"} => st.on = "btc"
           /\ st.op \in {"start_miner", "stop_miner"} <=> st.on = "miner"
           /\ \A o, s : st = S(o, s) <=> st.op = o /\ st.on = s
BY DEF StepSet, S

\* A step touches the process of its own slot only.
LEMMA ProcStepTypes ==
    ASSUME ProcTypeOK, method \in Nat, NEW st \in StepSet, NEW ok \in BOOLEAN,
           ProcStep(st.op, st.on, ok)
    PROVE  /\ ProcTypeOK'
           /\ \A s \in Slots \ {st.on} :
                 /\ phase'[s] = phase[s] /\ born'[s] = born[s]
                 /\ dir'[s] = dir[s] /\ orphan'[s] = orphan[s]
<1> DEFINE t == st.on
<1>1. /\ t \in Slots /\ (st.op \in {"start_miner", "stop_miner"} => t = "miner")
      /\ st.op \in {"start_btc", "stop_btc"} => t = "btc"
      /\ {"none", "booting", "up", "stopping"} \subseteq Phases
    BY StepIs DEF Phases
<1>2. /\ phase \in [Slots -> Phases] /\ born \in [Slots -> Int]
      /\ dir \in [Slots -> BOOLEAN] /\ orphan \in [Slots -> BOOLEAN]
      /\ minerPid \in BOOLEAN /\ guess \in BOOLEAN /\ missed \subseteq Slots
    BY DEF ProcTypeOK
<1>3. ASSUME /\ phase' = phase \/ \E v \in Phases : phase' = [phase EXCEPT ![t] = v]
             /\ born' = born \/ born' = [born EXCEPT ![t] = method]
             /\ dir' = dir \/ \E v \in BOOLEAN : dir' = [dir EXCEPT ![t] = v]
             /\ orphan' = orphan \/ \E v \in BOOLEAN : orphan' = [orphan EXCEPT ![t] = v]
             /\ minerPid' \in BOOLEAN /\ guess' \in BOOLEAN
             /\ missed' = missed \/ missed' = missed \cup {t}
      PROVE  /\ ProcTypeOK'
             /\ \A s \in Slots \ {t} :
                   /\ phase'[s] = phase[s] /\ born'[s] = born[s]
                   /\ dir'[s] = dir[s] /\ orphan'[s] = orphan[s]
    <2>1. /\ phase' \in [Slots -> Phases] /\ \A s \in Slots \ {t} : phase'[s] = phase[s]
        BY <1>1, <1>2, <1>3
    <2>2. /\ born' \in [Slots -> Int] /\ \A s \in Slots \ {t} : born'[s] = born[s]
        BY <1>1, <1>2, <1>3
    <2>3. /\ dir' \in [Slots -> BOOLEAN] /\ \A s \in Slots \ {t} : dir'[s] = dir[s]
        BY <1>1, <1>2, <1>3
    <2>4. /\ orphan' \in [Slots -> BOOLEAN] /\ \A s \in Slots \ {t} : orphan'[s] = orphan[s]
        BY <1>1, <1>2, <1>3
    <2>5. missed' \subseteq Slots
        BY <1>1, <1>2, <1>3
    <2> HIDE DEF t
    <2>6. QED
        BY <1>3, <2>1, <2>2, <2>3, <2>4, <2>5 DEF ProcTypeOK
<1>4. CASE st.op = "prepare"
    <2>1. /\ UNCHANGED <<phase, born, orphan, minerPid, guess, missed>>
          /\ dir' = dir \/ dir' = [dir EXCEPT ![t] = TRUE]
        BY <1>4 DEF ProcStep, Prepare
    <2>2. QED
        BY <1>2, <1>3, <2>1
<1>5. CASE st.op = "spawn"
    <2>1. /\ UNCHANGED <<dir, minerPid, guess, missed>>
          /\ phase' = phase \/ phase' = [phase EXCEPT ![t] = "booting"]
          /\ born' = born \/ born' = [born EXCEPT ![t] = method]
          /\ orphan' = orphan \/ orphan' = [orphan EXCEPT ![t] = FALSE]
        BY <1>5 DEF ProcStep, Spawn
    <2>2. QED
        BY <1>1, <1>2, <1>3, <2>1
<1>6. CASE st.op \in {"await_open", "await_closed", "await_unlocked", "await_gone", "refuse",
                      "rpc", "read_key"}
    <2>1. UNCHANGED procVars
        BY <1>6
        DEF ProcStep, AwaitPort, AwaitUnlocked, AwaitGone, RefuseIfListening, Rpc, ReadKey
    <2>2. QED
        BY <1>2, <1>3, <2>1 DEF procVars
<1>7. CASE st.op = "term"
    <2>1. /\ UNCHANGED <<born, dir, orphan, minerPid, guess>>
          /\ phase' = [phase EXCEPT ![t] = IF Listening(t) THEN "stopping" ELSE phase[t]]
          /\ missed' = missed \/ missed' = missed \cup {t}
        BY <1>7 DEF ProcStep, Term, Missed
    <2>2. QED
        BY <1>1, <1>2, <1>3, <2>1
<1>8. CASE st.op = "kill"
    <2>1. /\ UNCHANGED <<born, dir, orphan, minerPid, guess>>
          /\ phase' = [phase EXCEPT ![t] = IF Listening(t) THEN "none" ELSE phase[t]]
          /\ missed' = missed \/ missed' = missed \cup {t}
        BY <1>8 DEF ProcStep, Kill, Missed
    <2>2. QED
        BY <1>1, <1>2, <1>3, <2>1
<1>9. CASE st.op = "clean"
    <2>1. /\ UNCHANGED <<phase, born, minerPid, guess, missed>>
          /\ dir' = dir \/ dir' = [dir EXCEPT ![t] = FALSE]
          /\ orphan' = orphan \/ orphan' = [orphan EXCEPT ![t] = orphan[t] \/ phase[t] # "none"]
        BY <1>9 DEF ProcStep, Clean
    <2>2. (orphan[t] \/ phase[t] # "none") \in BOOLEAN
        OBVIOUS
    <2>3. QED
        BY <1>2, <1>3, <2>1, <2>2
<1>10. CASE st.op = "start_btc"
    <2>1. /\ UNCHANGED <<dir, orphan, minerPid, guess, missed>>
          /\ phase' = phase \/ phase' = [phase EXCEPT !["btc"] = "up"]
          /\ born' = born \/ born' = [born EXCEPT !["btc"] = method]
        BY <1>10 DEF ProcStep, StartBitcoind
    <2>2. QED
        BY <1>1, <1>2, <1>3, <1>10, <2>1
<1>11. CASE st.op = "stop_btc"
    <2>1. /\ UNCHANGED <<born, dir, orphan, minerPid, guess, missed>>
          /\ phase' = [phase EXCEPT !["btc"] = IF ok THEN "stopping" ELSE phase["btc"]]
        BY <1>11 DEF ProcStep, StopBitcoind
    <2>2. QED
        BY <1>1, <1>2, <1>3, <1>11, <2>1
<1>12. CASE st.op = "start_miner"
    <2>1. /\ UNCHANGED <<dir, orphan, missed>>
          /\ phase' = phase \/ phase' = [phase EXCEPT !["miner"] = "up"]
          /\ born' = born \/ born' = [born EXCEPT !["miner"] = method]
          /\ minerPid' = TRUE /\ (guess' = guess \/ guess' \in BOOLEAN)
        BY <1>12 DEF ProcStep, StartMiner
    <2>2. QED
        BY <1>1, <1>2, <1>3, <1>12, <2>1
<1>13. CASE st.op = "stop_miner"
    <2>1. /\ UNCHANGED <<born, dir, orphan, guess, missed>> /\ minerPid' = FALSE
          /\ phase' = [phase EXCEPT !["miner"] = IF minerPid /\ guess THEN "none"
                                                 ELSE phase["miner"]]
        BY <1>13 DEF ProcStep, StopMiner
    <2>2. QED
        BY <1>1, <1>2, <1>3, <1>13, <2>1
<1>14. QED
    BY <1>4, <1>5, <1>6, <1>7, <1>8, <1>9, <1>10, <1>11, <1>12, <1>13 DEF ProcStep

LEMMA ProcStepMoves ==
    ASSUME ProcTypeOK, DirInv, method \in Nat, NEW st \in StepSet, NEW ok \in BOOLEAN,
           ProcStep(st.op, st.on, ok)
    PROVE  DirInv' /\ \A s \in Slots : Moved(st, s)
<1> DEFINE t == st.on
<1>1. /\ t \in Slots /\ (st.op \in {"start_miner", "stop_miner"} <=> t = "miner")
      /\ st.op \in {"start_btc", "stop_btc"} => t = "btc"
      /\ "miner" \in Slots /\ "miner" # "btc" /\ "btc" \notin Fibers /\ "miner" \notin Fibers
      /\ Fibers \subseteq Slots
      /\ \A o, q : st = S(o, q) <=> st.op = o /\ t = q
    BY StepIs DEF Slots, Fibers, Lnds
<1>2. /\ phase \in [Slots -> Phases] /\ born \in [Slots -> Int]
      /\ dir \in [Slots -> BOOLEAN] /\ orphan \in [Slots -> BOOLEAN]
      /\ minerPid \in BOOLEAN /\ guess \in BOOLEAN /\ missed \subseteq Slots
    BY DEF ProcTypeOK
<1>3. /\ \A s \in Slots \ {t} : /\ phase'[s] = phase[s] /\ born'[s] = born[s]
                                /\ dir'[s] = dir[s] /\ orphan'[s] = orphan[s]
      /\ phase' \in [Slots -> Phases] /\ born' \in [Slots -> Int]
      /\ dir' \in [Slots -> BOOLEAN] /\ orphan' \in [Slots -> BOOLEAN]
    BY ProcStepTypes DEF ProcTypeOK
<1> HIDE DEF t
\* what the step does to its own slot
<1>4. /\ phase'[t] # "none" /\ ~dir'[t] /\ t \in Fibers => orphan'[t]
      /\ born'[t] >= -1
      /\ Running(t)' => \/ Running(t) /\ born'[t] = born[t]
                        \/ /\ st.op \in {"spawn", "start_btc", "start_miner"}
                           /\ born'[t] = method
      /\ t \in Fibers /\ Held(t)' => Held(t) \/ (st.op = "term" /\ Running(t))
      /\ st.op \in {"kill", "term"} => ~Running(t)' \/ t \in missed'
      /\ missed \subseteq missed'
      /\ dir'[t] => dir[t] \/ st.op = "prepare"
    <2>1. CASE st.op = "prepare"
        <3>1. /\ UNCHANGED <<phase, born, orphan, missed>>
              /\ dir' = dir \/ dir' = [dir EXCEPT ![t] = TRUE]
            BY <2>1 DEF ProcStep, Prepare, t
        <3>2. dir[t] => dir'[t]
            BY <1>1, <1>2, <3>1
        <3>3. QED
            BY <1>1, <1>2, <2>1, <3>1, <3>2 DEF Running, Held, DirInv
    <2>2. CASE st.op = "spawn"
        <3>1. UNCHANGED <<dir, missed>>
            BY <2>2 DEF ProcStep, Spawn
        <3>2. \/ /\ dir[t] /\ phase'[t] = "booting" /\ born'[t] = method
              \/ UNCHANGED <<phase, born, orphan>>
            BY <1>1, <1>2, <2>2 DEF ProcStep, Spawn, t
        <3>3. QED
            BY <1>1, <1>2, <2>2, <3>1, <3>2 DEF Running, Held, DirInv
    <2>3. CASE st.op \in {"await_open", "await_closed", "await_unlocked", "await_gone",
                          "refuse", "rpc", "read_key"}
        <3>1. UNCHANGED procVars
            BY <2>3
            DEF ProcStep, AwaitPort, AwaitUnlocked, AwaitGone, RefuseIfListening, Rpc, ReadKey
        <3>2. QED
            BY <1>1, <1>2, <2>3, <3>1 DEF procVars, Running, Held, DirInv
    <2>4. CASE st.op \in {"term", "kill"}
        <3>1. /\ UNCHANGED <<born, dir, orphan>> /\ missed' = Missed(t)
              /\ phase'[t] = IF Listening(t)
                             THEN IF st.op = "term" THEN "stopping" ELSE "none"
                             ELSE phase[t]
            BY <1>1, <1>2, <2>4 DEF ProcStep, Term, Kill, t
        <3>2. missed \subseteq missed' /\ (phase[t] = "booting" => t \in missed')
            BY <3>1 DEF Missed
        <3>3. phase[t] # "none" /\ ~dir[t] /\ t \in Fibers => orphan[t]
            BY DEF DirInv
        <3>4. QED
            BY <1>1, <1>2, <2>4, <3>1, <3>2, <3>3 DEF Running, Held, DirInv, Listening
    <2>5. CASE st.op = "clean"
        <3>1. /\ UNCHANGED <<phase, born, missed>>
              /\ \/ UNCHANGED <<dir, orphan>>
                 \/ dir'[t] = FALSE /\ orphan'[t] = (orphan[t] \/ phase[t] # "none")
            BY <1>1, <1>2, <2>5 DEF ProcStep, Clean, t
        <3>2. QED
            BY <1>1, <1>2, <2>5, <3>1 DEF Running, Held, DirInv
    <2>6. CASE st.op = "start_btc"
        <3>1. /\ UNCHANGED <<dir, orphan, missed>> /\ t = "btc"
              /\ \/ UNCHANGED <<phase, born>>
                 \/ phase'[t] = "up" /\ born'[t] = method
            BY <1>1, <1>2, <2>6 DEF ProcStep, StartBitcoind
        <3>2. QED
            BY <1>1, <1>2, <2>6, <3>1 DEF Running, Held, DirInv
    <2>7. CASE st.op = "stop_btc"
        <3>1. /\ UNCHANGED <<born, dir, orphan, missed>> /\ t = "btc"
              /\ phase'[t] = IF ok THEN "stopping" ELSE phase[t]
              /\ ok => phase[t] \in {"up", "stopping"}
            BY <1>1, <1>2, <2>7 DEF ProcStep, StopBitcoind, Listening
        <3>2. QED
            BY <1>1, <1>2, <2>7, <3>1 DEF Running, Held, DirInv
    <2>8. CASE st.op \in {"start_miner", "stop_miner"}
        <3>1. /\ UNCHANGED <<dir, orphan, missed>> /\ t = "miner"
              /\ \/ UNCHANGED <<phase, born>>
                 \/ phase'[t] = "up" /\ born'[t] = method /\ st.op = "start_miner"
                 \/ phase'[t] \in {"none", phase[t]} /\ born' = born
            BY <1>1, <1>2, <2>8 DEF ProcStep, StartMiner, StopMiner
        <3>2. QED
            BY <1>1, <1>2, <2>8, <3>1 DEF Running, Held, DirInv
    <2>9. QED
        BY <2>1, <2>2, <2>3, <2>4, <2>5, <2>6, <2>7, <2>8 DEF ProcStep
<1>5. /\ MinerLoose' => (MinerLoose \/ st.op = "start_miner") /\ st.op # "stop_miner"
      /\ MinerLoose' => minerPid'
    <2>1. CASE st.op = "start_miner"
        <3>1. minerPid' = TRUE
            BY <2>1 DEF ProcStep, StartMiner
        <3>2. QED
            BY <2>1, <3>1
    <2>2. CASE st.op = "stop_miner"
        <3>1. /\ born' = born /\ guess' = guess
              /\ phase'["miner"] = IF minerPid /\ guess THEN "none" ELSE phase["miner"]
            BY <1>1, <1>2, <2>2 DEF ProcStep, StopMiner
        <3>2. ~MinerLoose'
            BY <3>1 DEF MinerLoose, Alive, Running, DirInv
        <3>3. QED
            BY <3>2
    <2>3. CASE st.op \notin {"start_miner", "stop_miner"}
        <3>1. UNCHANGED <<minerPid, guess>> /\ t # "miner"
            BY <1>1, <2>3
            DEF ProcStep, Prepare, Spawn, AwaitPort, AwaitUnlocked, AwaitGone, Term, Kill, Clean,
                RefuseIfListening, StartBitcoind, StopBitcoind, Rpc, ReadKey, procVars
        <3>2. QED
            BY <1>1, <1>3, <2>3, <3>1 DEF MinerLoose, Alive, Running, DirInv
    <2>4. QED
        BY <2>1, <2>2, <2>3
<1>6. DirInv'
    BY <1>1, <1>2, <1>3, <1>4, <1>5 DEF DirInv
<1>7. ASSUME NEW s \in Slots PROVE Moved(st, s)
    BY <1>1, <1>3, <1>4, <1>5 DEF Moved, Running, Held, t
<1>8. QED
    BY <1>6, <1>7

LEMMA ProcStepWorks ==
    ASSUME ProcTypeOK, DirInv, method \in Nat, NEW st \in StepSet,
           ProcStep(st.op, st.on, TRUE), NEW s \in Slots
    PROVE  Worked(st, s)
<1>1. /\ st.on \in Slots /\ st.op \in Ops
      /\ st.op \in {"start_btc", "stop_btc"} => st.on = "btc"
      /\ \A o, q : st = S(o, q) <=> st.op = o /\ st.on = q
    BY StepIs
<1>2. /\ phase \in [Slots -> Phases] /\ born \in [Slots -> Int]
      /\ dir \in [Slots -> BOOLEAN] /\ orphan \in [Slots -> BOOLEAN]
    BY DEF ProcTypeOK
<1>3. CASE st.op = "clean"
    <2>1. /\ phase' = phase /\ dir'[st.on] = FALSE
          /\ orphan'[st.on] = (orphan[st.on] \/ phase[st.on] # "none")
        BY <1>1, <1>2, <1>3 DEF ProcStep, Clean
    <2>2. QED
        BY <1>1, <1>2, <1>3, <2>1 DEF Worked, Held
<1>4. CASE st.op = "await_unlocked"
    BY <1>1, <1>2, <1>4
    DEF ProcStep, AwaitUnlocked, StoreLocked, procVars, Worked, Held, DirInv
<1>5. CASE st.op = "stop_btc"
    BY <1>1, <1>2, <1>5 DEF ProcStep, StopBitcoind, Worked, Running
<1>6. CASE st.op \notin {"clean", "await_unlocked", "stop_btc"}
    BY <1>1, <1>6 DEF Worked
<1>7. QED
    BY <1>3, <1>4, <1>5, <1>6

\* What cannot raise.
LEMMA MustReturn ==
    ASSUME NEW st \in StepSet, NEW ok \in BOOLEAN, ProcStep(st.op, st.on, ok),
           st.op \in {"kill", "term", "spawn", "start_miner", "stop_miner"}
    PROVE  ok
BY DEF ProcStep

\* What the processes do by themselves ends them at most.
LEMMA ProcessesMove ==
    ASSUME ProcTypeOK, DirInv, Processes
    PROVE  /\ ProcTypeOK' /\ DirInv' /\ missed' = missed /\ dir' = dir
           /\ \A s \in Slots : Running(s)' => Running(s) /\ born'[s] = born[s]
           /\ \A s \in Slots : Held(s)' => Held(s)
           /\ MinerLoose' => MinerLoose
<1>1. /\ phase \in [Slots -> Phases] /\ born \in [Slots -> Int] /\ orphan \in [Slots -> BOOLEAN]
      /\ "miner" \in Slots
    BY DEF ProcTypeOK, Slots
<1>2. PICK t \in Slots : Boots(t) \/ (t \in Fibers /\ Dies(t)) \/ Stops(t)
    BY DEF Processes
<1>3. UNCHANGED <<born, dir, orphan, minerPid, guess, missed>>
    BY <1>2 DEF Boots, Dies, Stops, ClosesPort, Exits
<1>4. \/ phase' = [phase EXCEPT ![t] = "up"] /\ phase[t] = "booting"
      \/ phase' = [phase EXCEPT ![t] = "none"]
      \/ phase' = [phase EXCEPT ![t] = "closing"] /\ phase[t] = "stopping"
    BY <1>2 DEF Boots, Dies, Stops, ClosesPort, Exits
<1>5. /\ phase' \in [Slots -> Phases]
      /\ \A s \in Slots : phase'[s] \in {"booting", "up"} => phase[s] \in {"booting", "up"}
      /\ \A s \in Slots : phase'[s] \in {"stopping", "closing"} => phase[s] \in {"stopping", "closing"}
      /\ \A s \in Slots : phase'[s] # "none" => phase[s] # "none"
    <2>1. CASE phase' = [phase EXCEPT ![t] = "up"] /\ phase[t] = "booting"
        BY <1>1, <2>1 DEF Phases
    <2>2. CASE phase' = [phase EXCEPT ![t] = "none"]
        BY <1>1, <2>2 DEF Phases
    <2>3. CASE phase' = [phase EXCEPT ![t] = "closing"] /\ phase[t] = "stopping"
        BY <1>1, <2>3 DEF Phases
    <2>4. QED
        BY <1>4, <2>1, <2>2, <2>3
<1>6. ProcTypeOK'
    BY <1>3, <1>5 DEF ProcTypeOK
<1>7. /\ \A s \in Slots : Running(s)' => Running(s) /\ born'[s] = born[s]
      /\ \A s \in Slots : Held(s)' => Held(s)
      /\ MinerLoose' => MinerLoose
    BY <1>1, <1>3, <1>5 DEF Running, Held, MinerLoose, Alive
<1>8. DirInv'
    <2>1. \A s \in Fibers : phase'[s] # "none" /\ ~dir'[s] => orphan'[s]
        BY <1>3, <1>5 DEF DirInv, Slots
    <2>2. QED
        BY <1>3, <1>7, <2>1 DEF DirInv
<1>9. QED
    BY <1>3, <1>6, <1>7, <1>8

-----------------------------------------------------------------------------
(* The order of the steps of a stage *)

In(p, x) == \E i \in DOMAIN p : p[i] = x

\* x never comes without a y before it.
Before(p, y, x) == \A i \in DOMAIN p : p[i] = x => \E j \in 1 .. i - 1 : p[j] = y

\* Between an a and a later x there is a y.
Between(p, a, y, x) ==
    \A i, j \in DOMAIN p :
        i < j /\ p[i] = a /\ p[j] = x => \E k \in i + 1 .. j - 1 : p[k] = y

\* No x comes after an a.
Never(p, a, x) == \A i, j \in DOMAIN p : i < j => ~(p[i] = a /\ p[j] = x)

\* A node is started again only once its store is unlocked, and leaves the list
\* only when it was killed and cleaned.
Ordered(p) ==
    \A s \in Fibers :
        /\ Never(p, S("track", s), S("track", s))
        /\ Between(p, S("term", s), S("await_unlocked", s), S("spawn", s))
        /\ Between(p, S("spawn", s), S("kill", s), S("untrack", s))
        /\ Never(p, S("term", s), S("untrack", s))
        /\ Never(p, S("untrack", s), S("spawn", s))
        /\ Never(p, S("untrack", s), S("term", s))

\* The steps p fit a class that has these nodes in its list and these resources:
\* only what is in the list is started or stopped, only what was made is started.
Fits(p, tracked, has) ==
    /\ p \in Seq(StepSet) /\ Ordered(p)
    /\ \A s \in tracked : ~In(p, S("track", s))
    /\ \A s \in Fibers \ tracked :
          Before(p, S("track", s), S("spawn", s)) /\ Before(p, S("track", s), S("term", s))
    /\ \A s \in Owned \ has :
          Before(p, S("make", s), S("spawn", s)) /\ Before(p, S("make", s), S("start_btc", s))

LEMMA TailOrder ==
    ASSUME NEW p \in Seq(StepSet), p # <<>>, NEW a, NEW y, NEW x
    PROVE  /\ Tail(p) \in Seq(StepSet) /\ Head(p) \in StepSet /\ In(p, Head(p))
           /\ Before(p, y, x) => Head(p) # x /\ (Head(p) # y => Before(Tail(p), y, x))
           /\ Between(p, a, y, x) => /\ Between(Tail(p), a, y, x)
                                     /\ Head(p) = a => Before(Tail(p), y, x)
           /\ Never(p, a, x) => /\ Never(Tail(p), a, x)
                                /\ Head(p) = a => ~In(Tail(p), x)
           /\ In(Tail(p), x) => In(p, x)
           /\ In(p, x) => x = Head(p) \/ In(Tail(p), x)
           /\ ~In(p, x) => Before(p, y, x)
<1>1. /\ Len(p) \in Nat /\ Len(p) >= 1 /\ DOMAIN p = 1 .. Len(p) /\ Head(p) = p[1]
      /\ Tail(p) \in Seq(StepSet) /\ Len(Tail(p)) = Len(p) - 1
      /\ DOMAIN Tail(p) = 1 .. Len(p) - 1
      /\ \A i \in 1 .. Len(p) - 1 : Tail(p)[i] = p[i + 1]
    OBVIOUS
<1> DEFINE q == Tail(p)
<1>2. \A i \in DOMAIN p : i = 1 \/ (i - 1 \in DOMAIN q /\ p[i] = q[i - 1])
    BY <1>1
<1> HIDE DEF q
<1>3. Before(p, y, x) => Head(p) # x /\ (Head(p) # y => Before(q, y, x))
    <2>1. ASSUME Before(p, y, x), Head(p) # y, NEW i \in DOMAIN q, q[i] = x
          PROVE  \E j \in 1 .. i - 1 : q[j] = y
        <3>1. i + 1 \in DOMAIN p /\ p[i + 1] = x
            BY <1>1, <2>1 DEF q
        <3>2. PICK j \in 1 .. i : p[j] = y
            BY <2>1, <3>1, <1>1 DEF Before, q
        <3>3. j - 1 \in 1 .. i - 1 /\ q[j - 1] = y
            BY <1>1, <2>1, <3>2 DEF q
        <3>4. QED
            BY <3>3
    <2>2. Before(p, y, x) => Head(p) # x
        BY <1>1 DEF Before
    <2>3. QED
        BY <2>1, <2>2 DEF Before
<1>4. Between(p, a, y, x) => Between(q, a, y, x) /\ (Head(p) = a => Before(q, y, x))
    <2>1. ASSUME Between(p, a, y, x), NEW i \in 0 .. Len(p) - 1, NEW j \in DOMAIN q,
                 i < j, p[i + 1] = a, q[j] = x
          PROVE  \E k \in i + 1 .. j - 1 : q[k] = y
        <3>1. i + 1 \in DOMAIN p /\ j + 1 \in DOMAIN p /\ p[j + 1] = x
            BY <1>1, <2>1 DEF q
        <3>2. PICK k \in i + 2 .. j : p[k] = y
            BY <1>1, <2>1, <3>1 DEF Between, q
        <3>3. k - 1 \in i + 1 .. j - 1 /\ q[k - 1] = y
            BY <1>1, <2>1, <3>2 DEF q
        <3>4. QED
            BY <3>3
    <2>2. ASSUME Between(p, a, y, x) PROVE Between(q, a, y, x)
        BY <1>1, <2>1, <2>2 DEF Between, q
    <2>3. ASSUME Between(p, a, y, x), Head(p) = a PROVE Before(q, y, x)
        <3>1. ASSUME NEW j \in DOMAIN q, q[j] = x PROVE \E k \in 1 .. j - 1 : q[k] = y
            <4>1. 0 \in 0 .. Len(p) - 1 /\ 0 < j /\ p[0 + 1] = a
                BY <1>1, <2>3, <3>1 DEF q
            <4>2. \E k \in 0 + 1 .. j - 1 : q[k] = y
                BY <2>1, <2>3, <3>1, <4>1
            <4>3. QED
                BY <4>2
        <3>2. QED
            BY <3>1 DEF Before
    <2>4. QED
        BY <2>2, <2>3
<1>5. Never(p, a, x) => Never(q, a, x) /\ (Head(p) = a => ~In(q, x))
    <2>1. ASSUME Never(p, a, x) PROVE Never(q, a, x)
        BY <1>1, <2>1 DEF Never, q
    <2>2. ASSUME Never(p, a, x), Head(p) = a PROVE ~In(q, x)
        BY <1>1, <2>2 DEF Never, In, q
    <2>3. QED
        BY <2>1, <2>2
<1>6. (In(q, x) => In(p, x)) /\ (In(p, x) => x = Head(p) \/ In(q, x))
    <2>1. ASSUME NEW i \in DOMAIN q, q[i] = x PROVE In(p, x)
        BY <1>1, <2>1 DEF In, q
    <2>2. ASSUME NEW i \in DOMAIN p, p[i] = x, x # Head(p) PROVE In(q, x)
        BY <1>1, <1>2, <2>2 DEF In
    <2>3. QED
        BY <2>1, <2>2 DEF In
<1>7. ~In(p, x) => Before(p, y, x)
    BY DEF In, Before
<1>8. Head(p) \in StepSet /\ In(p, Head(p))
    BY <1>1 DEF In
<1>9. QED
    BY <1>1, <1>3, <1>4, <1>5, <1>6, <1>7, <1>8 DEF q

LEMMA TailNever ==
    ASSUME NEW p \in Seq(StepSet), p # <<>>, NEW x, Never(p, Head(p), x)
    PROVE  ~In(Tail(p), x)
<1>1. /\ Len(p) \in Nat /\ Len(p) >= 1 /\ DOMAIN p = 1 .. Len(p) /\ Head(p) = p[1]
      /\ DOMAIN Tail(p) = 1 .. Len(p) - 1
      /\ \A i \in 1 .. Len(p) - 1 : Tail(p)[i] = p[i + 1]
    OBVIOUS
<1>2. QED
    BY <1>1 DEF Never, In

\* What is left of such steps fits what the first one has made of the lists.
LEMMA TailFits ==
    ASSUME NEW T \in SUBSET Fibers, NEW M \in SUBSET Owned, NEW p, Fits(p, T, M), p # <<>>,
           NEW T2 \in SUBSET Fibers, NEW M2 \in SUBSET Owned,
           \/ T2 = T /\ Head(p).op \notin {"track", "untrack"}
           \/ T2 = T \cup {Head(p).on} /\ Head(p).op = "track"
           \/ T2 \cup {Head(p).on} = T /\ Head(p).op = "untrack",
           \/ M2 = M /\ Head(p).op # "make"
           \/ M2 = M \cup {Head(p).on} /\ Head(p).op = "make"
    PROVE  Fits(Tail(p), T2, M2)
<1> DEFINE q == Tail(p)
           h == Head(p)
<1>1. p \in Seq(StepSet) /\ q \in Seq(StepSet) /\ h \in StepSet
    BY DEF Fits
<1>2. \A o, s : h = S(o, s) <=> h.op = o /\ h.on = s
    BY <1>1, StepIs
<1>3. \A a, y, x :
        /\ Before(p, y, x) => (h # y => Before(q, y, x))
        /\ Between(p, a, y, x) => Between(q, a, y, x)
        /\ Never(p, a, x) => Never(q, a, x) /\ (h = a => ~In(q, x))
        /\ In(q, x) => In(p, x)
        /\ ~In(q, x) => Before(q, y, x)
    <2> SUFFICES ASSUME NEW a, NEW y, NEW x
                 PROVE  /\ Before(p, y, x) => (h # y => Before(q, y, x))
                        /\ Between(p, a, y, x) => Between(q, a, y, x)
                        /\ Never(p, a, x) => Never(q, a, x) /\ (h = a => ~In(q, x))
                        /\ In(q, x) => In(p, x)
                        /\ ~In(q, x) => Before(q, y, x)
        OBVIOUS
    <2>1. ~In(q, x) => Before(q, y, x)
        BY DEF In, Before
    <2>2. QED
        BY <1>1, <2>1, TailOrder
<1> HIDE DEF q, h
<1>4. Ordered(q)
    BY <1>3 DEF Fits, Ordered
<1>5. ASSUME NEW s \in T2 PROVE ~In(q, S("track", s))
    <2>1. CASE s \in T
        BY <1>3, <2>1 DEF Fits
    <2>2. CASE s \notin T
        <3>1. h = S("track", s)
            BY <1>2, <2>2 DEF h
        <3>2. QED
            BY <1>3, <3>1 DEF Fits, Ordered
    <2>3. QED
        BY <2>1, <2>2
<1>6. ASSUME NEW s \in Fibers \ T2
      PROVE  Before(q, S("track", s), S("spawn", s)) /\ Before(q, S("track", s), S("term", s))
    <2>1. CASE s \in T
        <3>1. h = S("untrack", s)
            BY <1>2, <1>6, <2>1 DEF h
        <3>2. QED
            BY <1>3, <3>1 DEF Fits, Ordered
    <2>2. CASE s \notin T
        <3>1. h # S("track", s)
            BY <1>2, <1>6, <2>2 DEF h
        <3>2. QED
            BY <1>3, <2>2, <3>1 DEF Fits
    <2>3. QED
        BY <2>1, <2>2
<1>7. ASSUME NEW s \in Owned \ M2
      PROVE  Before(q, S("make", s), S("spawn", s)) /\ Before(q, S("make", s), S("start_btc", s))
    <2>1. s \notin M /\ h # S("make", s)
        BY <1>2, <1>7 DEF h
    <2>2. QED
        BY <1>3, <2>1 DEF Fits
<1>8. QED
    BY <1>1, <1>4, <1>5, <1>6, <1>7 DEF Fits, q

-----------------------------------------------------------------------------
(* What the stages of a class do, step by step *)

\* setup_class of a plain or P2P class.
CkbSteps(p) ==
    /\ p \in Seq(StepSet) /\ Len(p) = 3
    /\ p[1] = S("prepare", "ckb") /\ p[2] = S("spawn", "ckb") /\ p[3] = S("rpc", "ckb")

\* The setup of a class that attaches to the nodes it finds.
TrackSteps(p) ==
    /\ p \in Seq(StepSet) /\ Len(p) = 3
    /\ p[1] = S("rpc", "ckb") /\ p[2] = S("track", "fiber1") /\ p[3] = S("track", "fiber2")

\* setup_class of a cch class that does.
MakeSteps(p) ==
    /\ p \in Seq(StepSet) /\ Len(p) = 3
    /\ p[1] = S("make", "btc") /\ p[2] = S("make", "lnd0") /\ p[3] = S("make", "lnd1")

\* setup_class of a cch class.
CchClassSteps(p) ==
    /\ p \in Seq(StepSet) /\ Len(p) = 20
    /\ p[1] = S("prepare", "ckb") /\ p[2] = S("spawn", "ckb") /\ p[3] = S("rpc", "ckb")
    /\ p[4] = S("make", "btc") /\ p[5] = S("make", "lnd0") /\ p[6] = S("make", "lnd1")
    /\ p[7] = S("prepare", "btc") /\ p[8] = S("start_btc", "btc")
    /\ p[9] = S("prepare", "lnd0") /\ p[10] = S("refuse", "lnd0")
    /\ p[11] = S("spawn", "lnd0") /\ p[12] = S("await_open", "lnd0")
    /\ p[13] = S("prepare", "lnd1") /\ p[14] = S("refuse", "lnd1")
    /\ p[15] = S("spawn", "lnd1") /\ p[16] = S("await_open", "lnd1")
    /\ p[17] = S("rpc", "btc") /\ p[18] = S("rpc", "lnd0") /\ p[19] = S("rpc", "btc")
    /\ p[20] = S("rpc", "lnd1")

\* setup_method of a plain class.
FiberSteps(p) ==
    /\ p \in Seq(StepSet) /\ Len(p) = 12
    /\ p[1] = S("rpc", "ckb") /\ p[2] = S("track", "fiber1") /\ p[3] = S("track", "fiber2")
    /\ p[4] = S("rpc", "ckb") /\ p[5] = S("start_miner", "miner")
    /\ p[6] = S("prepare", "fiber1") /\ p[7] = S("spawn", "fiber1")
    /\ p[8] = S("await_open", "fiber1") /\ p[9] = S("prepare", "fiber2")
    /\ p[10] = S("spawn", "fiber2") /\ p[11] = S("await_open", "fiber2")
    /\ p[12] = S("rpc", "fiber1")

\* setup_class of a shared class.
SharedClassSteps(p) ==
    /\ p \in Seq(StepSet) /\ Len(p) = 15
    /\ p[1] = S("prepare", "ckb") /\ p[2] = S("spawn", "ckb") /\ p[3] = S("rpc", "ckb")
    /\ p[4] = S("rpc", "ckb") /\ p[5] = S("track", "fiber1") /\ p[6] = S("track", "fiber2")
    /\ p[7] = S("rpc", "ckb") /\ p[8] = S("start_miner", "miner")
    /\ p[9] = S("prepare", "fiber1") /\ p[10] = S("spawn", "fiber1")
    /\ p[11] = S("await_open", "fiber1") /\ p[12] = S("prepare", "fiber2")
    /\ p[13] = S("spawn", "fiber2") /\ p[14] = S("await_open", "fiber2")
    /\ p[15] = S("rpc", "fiber1")

\* setup_method of a cch class.
CchMethodSteps(p) ==
    /\ p \in Seq(StepSet) /\ Len(p) = 18
    /\ p[1] = S("rpc", "ckb") /\ p[2] = S("track", "fiber1") /\ p[3] = S("track", "fiber2")
    /\ p[4] = S("rpc", "ckb") /\ p[5] = S("start_miner", "miner")
    /\ p[6] = S("prepare", "fiber1") /\ p[7] = S("spawn", "fiber1")
    /\ p[8] = S("await_open", "fiber1") /\ p[9] = S("prepare", "fiber2")
    /\ p[10] = S("spawn", "fiber2") /\ p[11] = S("await_open", "fiber2")
    /\ p[12] = S("rpc", "fiber1") /\ p[13] = S("term", "fiber1")
    /\ p[14] = S("await_closed", "fiber1") /\ p[15] = S("await_unlocked", "fiber1")
    /\ p[16] = S("prepare", "fiber1") /\ p[17] = S("spawn", "fiber1")
    /\ p[18] = S("await_open", "fiber1")

\* setup_method of a P2P class.
P2pSteps(p) ==
    /\ p \in Seq(StepSet) /\ Len(p) = 22
    /\ p[1] = S("rpc", "ckb") /\ p[2] = S("track", "fiber1") /\ p[3] = S("track", "fiber2")
    /\ p[4] = S("rpc", "ckb") /\ p[5] = S("start_miner", "miner")
    /\ p[6] = S("prepare", "fiber1") /\ p[7] = S("spawn", "fiber1")
    /\ p[8] = S("await_open", "fiber1") /\ p[9] = S("prepare", "fiber2")
    /\ p[10] = S("spawn", "fiber2") /\ p[11] = S("await_open", "fiber2")
    /\ p[12] = S("rpc", "fiber1") /\ p[13] = S("kill", "fiber2")
    /\ p[14] = S("await_closed", "fiber2") /\ p[15] = S("clean", "fiber2")
    /\ p[16] = S("untrack", "fiber2") /\ p[17] = S("rpc", "ckb")
    /\ p[18] = S("track", "extra") /\ p[19] = S("prepare", "extra")
    /\ p[20] = S("spawn", "extra") /\ p[21] = S("await_open", "extra")
    /\ p[22] = S("rpc", "extra")

\* setup_method of a P2P class that attaches to the nodes it finds.
P2pDebugSteps(p) ==
    /\ p \in Seq(StepSet) /\ Len(p) = 7
    /\ p[1] = S("rpc", "ckb") /\ p[2] = S("track", "fiber1") /\ p[3] = S("track", "fiber2")
    /\ p[4] = S("untrack", "fiber2") /\ p[5] = S("read_key", "extra")
    /\ p[6] = S("track", "extra") /\ p[7] = S("rpc", "extra")

\* A body that restarts both nodes.
RestartBothSteps(p) ==
    /\ p \in Seq(StepSet) /\ Len(p) = 11
    /\ p[1] = S("term", "fiber1") /\ p[2] = S("await_closed", "fiber1")
    /\ p[3] = S("await_unlocked", "fiber1") /\ p[4] = S("term", "fiber2")
    /\ p[5] = S("await_closed", "fiber2") /\ p[6] = S("await_unlocked", "fiber2")
    /\ p[7] = S("spawn", "fiber1") /\ p[8] = S("await_open", "fiber1")
    /\ p[9] = S("spawn", "fiber2") /\ p[10] = S("await_open", "fiber2")
    /\ p[11] = S("rpc", "fiber1")

\* Steps that strike no node off the list fit when what they start and stop is in
\* the list or enters it before, and what they stop and start again unlocks between.
LEMMA FitsIf ==
    ASSUME NEW p \in Seq(StepSet), NEW T \in SUBSET Fibers, NEW M \in SUBSET Owned,
           \A i \in DOMAIN p : p[i].op # "untrack" /\ (p[i].op = "track" => p[i].on \notin T),
           \A i, j \in DOMAIN p : i < j /\ p[i].op = "track" /\ p[j].op = "track" =>
                                   p[i].on # p[j].on,
           \A i \in DOMAIN p : p[i].op \in {"spawn", "term"} /\ p[i].on \in Fibers \ T =>
                               \E j \in 1 .. i - 1 : p[j] = S("track", p[i].on),
           \A i, j \in DOMAIN p :
               i < j /\ p[i].op = "term" /\ p[j].op = "spawn" /\ p[i].on = p[j].on =>
                   \E k \in i + 1 .. j - 1 : p[k] = S("await_unlocked", p[i].on),
           \A i \in DOMAIN p : p[i].op \in {"spawn", "start_btc"} /\ p[i].on \in Owned \ M =>
                               \E j \in 1 .. i - 1 : p[j] = S("make", p[i].on)
    PROVE  /\ Fits(p, T, M)
           /\ \A s \in Fibers : ~In(p, S("untrack", s))
<1>1. \A i \in DOMAIN p : \A o, s : p[i] = S(o, s) => p[i].op = o /\ p[i].on = s
    BY DEF S
<1>2. Ordered(p)
    BY <1>1, SMTT(30) DEF Ordered, Never, Between
<1>3. QED
    BY <1>1, <1>2 DEF Fits, Before, In

\* The same for a class that has neither nodes nor resources yet.
LEMMA FitsAtFirst ==
    ASSUME NEW p \in Seq(StepSet),
           \A i \in DOMAIN p : p[i].op # "untrack",
           \A i, j \in DOMAIN p : i < j /\ p[i].op = "track" /\ p[j].op = "track" =>
                                   p[i].on # p[j].on,
           \A i \in DOMAIN p : p[i].op \in {"spawn", "term"} /\ p[i].on \in Fibers =>
                               \E j \in 1 .. i - 1 : p[j] = S("track", p[i].on),
           \A i, j \in DOMAIN p :
               i < j /\ p[i].op = "term" /\ p[j].op = "spawn" /\ p[i].on = p[j].on =>
                   \E k \in i + 1 .. j - 1 : p[k] = S("await_unlocked", p[i].on),
           \A i \in DOMAIN p : p[i].op \in {"spawn", "start_btc"} /\ p[i].on \in Owned =>
                               \E j \in 1 .. i - 1 : p[j] = S("make", p[i].on)
    PROVE  /\ Fits(p, {}, {})
           /\ \A s \in Fibers : ~In(p, S("untrack", s))
<1> DEFINE T == {}
           M == {}
<1>1. /\ T \in SUBSET Fibers /\ M \in SUBSET Owned
      /\ \A x : x \notin T /\ x \notin M
    OBVIOUS
<1> HIDE DEF T, M
<1>2. /\ \A i \in DOMAIN p : p[i].op # "untrack" /\ (p[i].op = "track" => p[i].on \notin T)
      /\ \A i \in DOMAIN p : p[i].op \in {"spawn", "term"} /\ p[i].on \in Fibers \ T =>
                              \E j \in 1 .. i - 1 : p[j] = S("track", p[i].on)
      /\ \A i \in DOMAIN p : p[i].op \in {"spawn", "start_btc"} /\ p[i].on \in Owned \ M =>
                              \E j \in 1 .. i - 1 : p[j] = S("make", p[i].on)
    BY <1>1
<1>3. Fits(p, T, M) /\ \A s \in Fibers : ~In(p, S("untrack", s))
    BY <1>1, <1>2, FitsIf
<1>4. QED
    BY <1>3 DEF T, M

\* They fit with more resources made, too.
LEMMA FitsMore ==
    ASSUME NEW p, NEW T, NEW M, NEW M2, Fits(p, T, M), M \subseteq M2
    PROVE  Fits(p, T, M2)
BY DEF Fits

\* The setup of a class that attaches, or has no fiber nodes to set up.
LEMMA ShortFits ==
    ASSUME NEW p, CkbSteps(p) \/ TrackSteps(p) \/ MakeSteps(p)
    PROVE  /\ Fits(p, {}, {})
           /\ \A s \in Fibers : ~In(p, S("untrack", s))
           /\ TrackSteps(p) => In(p, S("track", "fiber1")) /\ In(p, S("track", "fiber2"))
           /\ ~MakeSteps(p) => \A s \in Owned : ~In(p, S("make", s))
           /\ ~TrackSteps(p) => \A s \in Fibers : ~In(p, S("track", s))
<1>1. p \in Seq(StepSet) /\ DOMAIN p = 1 .. 3
    BY DEF CkbSteps, TrackSteps, MakeSteps
<1>2. ASSUME NEW i \in 1 .. 3
      PROVE  /\ p[i].op \notin {"untrack", "term", "start_btc"}
             /\ p[i].op = "track" => (i = 2 /\ p[i].on = "fiber1") \/ (i = 3 /\ p[i].on = "fiber2")
             /\ p[i].op = "spawn" => p[i].on = "ckb"
             /\ p[i].op = "make" => MakeSteps(p)
             /\ p[i].op = "track" => TrackSteps(p)
    BY DEF CkbSteps, TrackSteps, MakeSteps, S
<1>3. Fits(p, {}, {}) /\ \A s \in Fibers : ~In(p, S("untrack", s))
    <2>1. \A i \in DOMAIN p : p[i].op # "untrack" /\ p[i].op # "term" /\ p[i].op # "start_btc"
        BY <1>1, <1>2
    <2>2. \A i, j \in DOMAIN p : i < j /\ p[i].op = "track" /\ p[j].op = "track" =>
                                  p[i].on # p[j].on
        BY <1>1, <1>2
    <2>3. \A i \in DOMAIN p : p[i].op = "spawn" => p[i].on \notin Fibers /\ p[i].on \notin Owned
        BY <1>1, <1>2 DEF Fibers, Owned, Lnds
    <2>4. QED
        BY <1>1, <2>1, <2>2, <2>3, FitsAtFirst
<1>4. \A s \in Owned : In(p, S("make", s)) => MakeSteps(p)
    BY <1>1, <1>2 DEF In, S
<1>5. TrackSteps(p) => In(p, S("track", "fiber1")) /\ In(p, S("track", "fiber2"))
    BY <1>1 DEF TrackSteps, In
<1>6. \A s \in Fibers : In(p, S("track", s)) => TrackSteps(p)
    BY <1>1, <1>2 DEF In, S
<1>7. QED
    BY <1>3, <1>4, <1>5, <1>6

\* The two nodes of a method are in the list before they are started.
LEMMA FiberFits ==
    ASSUME NEW p, FiberSteps(p)
    PROVE  /\ Fits(p, {}, {})
           /\ \A s \in Fibers : ~In(p, S("untrack", s))
           /\ In(p, S("track", "fiber1")) /\ In(p, S("track", "fiber2"))
           /\ \A s \in Owned : ~In(p, S("make", s))
<1>1. p \in Seq(StepSet) /\ DOMAIN p = 1 .. 12
    BY DEF FiberSteps
<1>2. ASSUME NEW i \in 1 .. 12
      PROVE  /\ p[i].op \notin {"untrack", "term", "make", "start_btc"}
             /\ p[i].op = "track" => (i = 2 /\ p[i].on = "fiber1") \/ (i = 3 /\ p[i].on = "fiber2")
             /\ p[i].op = "spawn" => (i = 7 /\ p[i].on = "fiber1") \/ (i = 10 /\ p[i].on = "fiber2")
    <2>1. CASE i \in 1 .. 8
        BY <2>1 DEF FiberSteps, S
    <2>2. CASE i \in 9 .. 12
        BY <2>2 DEF FiberSteps, S
    <2>3. QED
        BY <2>1, <2>2
<1>3. \A i, j \in DOMAIN p : i < j /\ p[i].op = "track" /\ p[j].op = "track" =>
                              p[i].on # p[j].on
    BY <1>1, <1>2
<1>4. ASSUME NEW i \in DOMAIN p, p[i].op \in {"spawn", "term"}, p[i].on \in Fibers
      PROVE  \E j \in 1 .. i - 1 : p[j] = S("track", p[i].on)
    BY <1>1, <1>2, <1>4 DEF FiberSteps, Fibers
<1>5. ASSUME NEW i \in DOMAIN p, NEW j \in DOMAIN p,
             i < j, p[i].op = "term", p[j].op = "spawn", p[i].on = p[j].on
      PROVE  \E k \in i + 1 .. j - 1 : p[k] = S("await_unlocked", p[i].on)
    BY <1>1, <1>2, <1>5 DEF FiberSteps
<1>6. ASSUME NEW i \in DOMAIN p, p[i].op \in {"spawn", "start_btc"}, p[i].on \in Owned
      PROVE  \E j \in 1 .. i - 1 : p[j] = S("make", p[i].on)
    BY <1>1, <1>2, <1>6 DEF FiberSteps, Owned, Lnds
<1>7. Fits(p, {}, {}) /\ \A s \in Fibers : ~In(p, S("untrack", s))
    <2>1. \A i \in DOMAIN p : p[i].op # "untrack"
        BY <1>1, <1>2
    <2>2. QED
        BY <1>1, <1>3, <1>4, <1>5, <1>6, <2>1, FitsAtFirst
<1>8. QED
    BY <1>1, <1>2, <1>7 DEF FiberSteps, In, S

\* So they are in the shared suite.
LEMMA SharedClassFits ==
    ASSUME NEW p, SharedClassSteps(p)
    PROVE  /\ Fits(p, {}, {})
           /\ \A s \in Fibers : ~In(p, S("untrack", s))
           /\ In(p, S("track", "fiber1")) /\ In(p, S("track", "fiber2"))
           /\ \A s \in Owned : ~In(p, S("make", s))
<1>1. p \in Seq(StepSet) /\ DOMAIN p = 1 .. 15
    BY DEF SharedClassSteps
<1>2. ASSUME NEW i \in 1 .. 15
      PROVE  /\ p[i].op \notin {"untrack", "term", "make", "start_btc"}
             /\ p[i].op = "track" => (i = 5 /\ p[i].on = "fiber1") \/ (i = 6 /\ p[i].on = "fiber2")
             /\ p[i].op = "spawn" => \/ i = 2 /\ p[i].on = "ckb"
                                     \/ i = 10 /\ p[i].on = "fiber1"
                                     \/ i = 13 /\ p[i].on = "fiber2"
    <2>1. CASE i \in 1 .. 8
        BY <2>1 DEF SharedClassSteps, S
    <2>2. CASE i \in 9 .. 15
        BY <2>2 DEF SharedClassSteps, S
    <2>3. QED
        BY <2>1, <2>2
<1>3. \A i, j \in DOMAIN p : i < j /\ p[i].op = "track" /\ p[j].op = "track" =>
                              p[i].on # p[j].on
    BY <1>1, <1>2
<1>4. ASSUME NEW i \in DOMAIN p, p[i].op \in {"spawn", "term"}, p[i].on \in Fibers
      PROVE  \E j \in 1 .. i - 1 : p[j] = S("track", p[i].on)
    BY <1>1, <1>2, <1>4 DEF SharedClassSteps, Fibers
<1>5. ASSUME NEW i \in DOMAIN p, NEW j \in DOMAIN p,
             i < j, p[i].op = "term", p[j].op = "spawn", p[i].on = p[j].on
      PROVE  \E k \in i + 1 .. j - 1 : p[k] = S("await_unlocked", p[i].on)
    BY <1>1, <1>2, <1>5 DEF SharedClassSteps
<1>6. ASSUME NEW i \in DOMAIN p, p[i].op \in {"spawn", "start_btc"}, p[i].on \in Owned
      PROVE  \E j \in 1 .. i - 1 : p[j] = S("make", p[i].on)
    BY <1>1, <1>2, <1>6 DEF SharedClassSteps, Owned, Lnds
<1>7. Fits(p, {}, {}) /\ \A s \in Fibers : ~In(p, S("untrack", s))
    <2>1. \A i \in DOMAIN p : p[i].op # "untrack"
        BY <1>1, <1>2
    <2>2. QED
        BY <1>1, <1>3, <1>4, <1>5, <1>6, <2>1, FitsAtFirst
<1>8. QED
    BY <1>1, <1>2, <1>7 DEF SharedClassSteps, In, S

\* And in the cch suite, where the first one is started once more.
LEMMA CchMethodFits ==
    ASSUME NEW p, CchMethodSteps(p)
    PROVE  /\ Fits(p, {}, {})
           /\ \A s \in Fibers : ~In(p, S("untrack", s))
           /\ In(p, S("track", "fiber1")) /\ In(p, S("track", "fiber2"))
           /\ \A s \in Owned : ~In(p, S("make", s))
<1>1. p \in Seq(StepSet) /\ DOMAIN p = 1 .. 18
    BY DEF CchMethodSteps
<1>2. ASSUME NEW i \in 1 .. 18
      PROVE  /\ p[i].op \notin {"untrack", "make", "start_btc"}
             /\ p[i].op = "track" => (i = 2 /\ p[i].on = "fiber1") \/ (i = 3 /\ p[i].on = "fiber2")
             /\ p[i].op = "spawn" => \/ i = 7 /\ p[i].on = "fiber1"
                                     \/ i = 10 /\ p[i].on = "fiber2"
                                     \/ i = 17 /\ p[i].on = "fiber1"
             /\ p[i].op = "term" => (i = 13 /\ p[i].on = "fiber1")
    <2>1. CASE i \in 1 .. 8
        BY <2>1 DEF CchMethodSteps, S
    <2>2. CASE i \in 9 .. 16
        BY <2>2 DEF CchMethodSteps, S
    <2>3. CASE i \in 17 .. 18
        BY <2>3 DEF CchMethodSteps, S
    <2>4. QED
        BY <2>1, <2>2, <2>3
<1>3. \A i, j \in DOMAIN p : i < j /\ p[i].op = "track" /\ p[j].op = "track" =>
                              p[i].on # p[j].on
    BY <1>1, <1>2
<1>4. ASSUME NEW i \in DOMAIN p, p[i].op \in {"spawn", "term"}, p[i].on \in Fibers
      PROVE  \E j \in 1 .. i - 1 : p[j] = S("track", p[i].on)
    BY <1>1, <1>2, <1>4 DEF CchMethodSteps, Fibers
<1>5. ASSUME NEW i \in DOMAIN p, NEW j \in DOMAIN p,
             i < j, p[i].op = "term", p[j].op = "spawn", p[i].on = p[j].on
      PROVE  \E k \in i + 1 .. j - 1 : p[k] = S("await_unlocked", p[i].on)
    BY <1>1, <1>2, <1>5 DEF CchMethodSteps
<1>6. ASSUME NEW i \in DOMAIN p, p[i].op \in {"spawn", "start_btc"}, p[i].on \in Owned
      PROVE  \E j \in 1 .. i - 1 : p[j] = S("make", p[i].on)
    BY <1>1, <1>2, <1>6 DEF CchMethodSteps, Owned, Lnds
<1>7. Fits(p, {}, {}) /\ \A s \in Fibers : ~In(p, S("untrack", s))
    <2>1. \A i \in DOMAIN p : p[i].op # "untrack"
        BY <1>1, <1>2
    <2>2. QED
        BY <1>1, <1>3, <1>4, <1>5, <1>6, <2>1, FitsAtFirst
<1>8. QED
    BY <1>1, <1>2, <1>7 DEF CchMethodSteps, In, S

\* The resources of a cch class are recorded before they are started.
LEMMA CchClassFits ==
    ASSUME NEW p, CchClassSteps(p)
    PROVE  /\ Fits(p, {}, {})
           /\ \A s \in Fibers : ~In(p, S("untrack", s)) /\ ~In(p, S("track", s))
<1>1. p \in Seq(StepSet) /\ DOMAIN p = 1 .. 20
    BY DEF CchClassSteps
<1>2. ASSUME NEW i \in 1 .. 20
      PROVE  /\ p[i].op \notin {"untrack", "term", "track"}
             /\ p[i].op = "make" => \/ i = 4 /\ p[i].on = "btc"
                                    \/ i = 5 /\ p[i].on = "lnd0"
                                    \/ i = 6 /\ p[i].on = "lnd1"
             /\ p[i].op = "spawn" => \/ i = 2 /\ p[i].on = "ckb"
                                     \/ i = 11 /\ p[i].on = "lnd0"
                                     \/ i = 15 /\ p[i].on = "lnd1"
             /\ p[i].op = "start_btc" => (i = 8 /\ p[i].on = "btc")
    <2>1. CASE i \in 1 .. 8
        BY <2>1 DEF CchClassSteps, S
    <2>2. CASE i \in 9 .. 16
        BY <2>2 DEF CchClassSteps, S
    <2>3. CASE i \in 17 .. 20
        BY <2>3 DEF CchClassSteps, S
    <2>4. QED
        BY <2>1, <2>2, <2>3
<1>3. \A i, j \in DOMAIN p : i < j /\ p[i].op = "track" /\ p[j].op = "track" =>
                              p[i].on # p[j].on
    BY <1>1, <1>2
<1>4. ASSUME NEW i \in DOMAIN p, p[i].op \in {"spawn", "term"}, p[i].on \in Fibers
      PROVE  \E j \in 1 .. i - 1 : p[j] = S("track", p[i].on)
    BY <1>1, <1>2, <1>4 DEF CchClassSteps, Fibers
<1>5. ASSUME NEW i \in DOMAIN p, NEW j \in DOMAIN p,
             i < j, p[i].op = "term", p[j].op = "spawn", p[i].on = p[j].on
      PROVE  \E k \in i + 1 .. j - 1 : p[k] = S("await_unlocked", p[i].on)
    BY <1>1, <1>2, <1>5 DEF CchClassSteps
<1>6. ASSUME NEW i \in DOMAIN p, p[i].op \in {"spawn", "start_btc"}, p[i].on \in Owned
      PROVE  \E j \in 1 .. i - 1 : p[j] = S("make", p[i].on)
    BY <1>1, <1>2, <1>6 DEF CchClassSteps, Owned, Lnds
<1>7. Fits(p, {}, {}) /\ \A s \in Fibers : ~In(p, S("untrack", s))
    <2>1. \A i \in DOMAIN p : p[i].op # "untrack"
        BY <1>1, <1>2
    <2>2. QED
        BY <1>1, <1>3, <1>4, <1>5, <1>6, <2>1, FitsAtFirst
<1>8. \A s \in Fibers : ~In(p, S("track", s))
    BY <1>1, <1>2 DEF In, S
<1>9. QED
    BY <1>7, <1>8

\* The P2P suite strikes fiber2 off the list once it was killed and its dir removed.
LEMMA P2pFits ==
    ASSUME NEW p, P2pSteps(p)
    PROVE  /\ Fits(p, {}, {})
           /\ \A s \in Fibers : /\ Before(p, S("kill", s), S("untrack", s))
                                /\ Before(p, S("clean", s), S("untrack", s))
           /\ ~In(p, S("untrack", "fiber1")) /\ In(p, S("track", "fiber1"))
           /\ \A s \in Owned : ~In(p, S("make", s))
<1>1. p \in Seq(StepSet) /\ DOMAIN p = 1 .. 22
    BY DEF P2pSteps
<1>2. ASSUME NEW i \in 1 .. 22
      PROVE  /\ p[i].op \notin {"term", "make", "start_btc"}
             /\ p[i].op = "track" => \/ i = 2 /\ p[i].on = "fiber1"
                                     \/ i = 3 /\ p[i].on = "fiber2"
                                     \/ i = 18 /\ p[i].on = "extra"
             /\ p[i].op = "spawn" => \/ i = 7 /\ p[i].on = "fiber1"
                                     \/ i = 10 /\ p[i].on = "fiber2"
                                     \/ i = 20 /\ p[i].on = "extra"
             /\ p[i].op = "untrack" => i = 16 /\ p[i].on = "fiber2"
    <2>1. CASE i \in 1 .. 8
        BY <2>1, SMTT(30) DEF P2pSteps, S
    <2>2. CASE i \in 9 .. 15
        BY <2>2, SMTT(30) DEF P2pSteps, S
    <2>3. CASE i \in 16 .. 22
        BY <2>3, SMTT(30) DEF P2pSteps, S
    <2>4. QED
        BY <2>1, <2>2, <2>3
<1>3. p[13] = S("kill", "fiber2") /\ p[15] = S("clean", "fiber2")
    BY DEF P2pSteps
<1>4. ASSUME NEW s \in Fibers
      PROVE  /\ \A i \in DOMAIN p : p[i] # S("term", s)
             /\ \A i \in DOMAIN p : p[i] = S("track", s) =>
                   \/ i = 2 /\ s = "fiber1"
                   \/ i = 3 /\ s = "fiber2"
                   \/ i = 18 /\ s = "extra"
             /\ \A i \in DOMAIN p : p[i] = S("spawn", s) =>
                   \/ i = 7 /\ s = "fiber1"
                   \/ i = 10 /\ s = "fiber2"
                   \/ i = 20 /\ s = "extra"
             /\ \A i \in DOMAIN p : p[i] = S("untrack", s) => i = 16 /\ s = "fiber2"
    BY <1>1, <1>2 DEF S
<1>5. Ordered(p)
    BY <1>1, <1>3, <1>4 DEF Ordered, Never, Between
<1>6. ASSUME NEW s \in Fibers
      PROVE  Before(p, S("track", s), S("spawn", s)) /\ Before(p, S("track", s), S("term", s))
    <2>1. ASSUME NEW i \in DOMAIN p, p[i] = S("spawn", s)
          PROVE  \E j \in 1 .. i - 1 : p[j] = S("track", s)
        <3>1. CASE i = 7
            BY <1>4, <2>1, <3>1 DEF P2pSteps
        <3>2. CASE i = 10
            BY <1>4, <2>1, <3>2 DEF P2pSteps
        <3>3. CASE i = 20
            BY <1>4, <2>1, <3>3 DEF P2pSteps
        <3>4. QED
            BY <1>4, <2>1, <3>1, <3>2, <3>3
    <2>2. QED
        BY <1>4, <2>1 DEF Before
<1>7. /\ \A s \in Fibers : /\ Before(p, S("kill", s), S("untrack", s))
                           /\ Before(p, S("clean", s), S("untrack", s))
      /\ ~In(p, S("untrack", "fiber1"))
    <2>1. 13 \in 1 .. 15 /\ 15 \in 1 .. 15 /\ "fiber1" \in Fibers
        BY DEF Fibers
    <2>2. QED
        BY <1>3, <1>4, <2>1 DEF Before, In
<1>8. \A s \in Owned : /\ ~In(p, S("make", s)) /\ ~In(p, S("spawn", s))
                       /\ ~In(p, S("start_btc", s))
    BY <1>1, <1>2 DEF In, S, Owned, Lnds
<1>9. In(p, S("track", "fiber1"))
    BY <1>1 DEF P2pSteps, In
<1>10. QED
    <2>1. \A s \in Owned : /\ Before(p, S("make", s), S("spawn", s))
                           /\ Before(p, S("make", s), S("start_btc", s))
        BY <1>8 DEF In, Before
    <2>2. Fits(p, {}, {})
        BY <1>1, <1>5, <1>6, <2>1 DEF Fits
    <2>3. QED
        BY <1>7, <1>8, <1>9, <2>2

LEMMA P2pDebugFits ==
    ASSUME NEW p, P2pDebugSteps(p)
    PROVE  /\ Fits(p, {}, {})
           /\ ~In(p, S("untrack", "fiber1")) /\ In(p, S("track", "fiber1"))
           /\ \A s \in Owned : ~In(p, S("make", s))
<1>1. p \in Seq(StepSet) /\ DOMAIN p = 1 .. 7
    BY DEF P2pDebugSteps
<1>2. ASSUME NEW i \in 1 .. 7
      PROVE  /\ p[i].op \notin {"term", "make", "start_btc", "spawn"}
             /\ p[i].op = "track" => \/ i = 2 /\ p[i].on = "fiber1"
                                     \/ i = 3 /\ p[i].on = "fiber2"
                                     \/ i = 6 /\ p[i].on = "extra"
             /\ p[i].op = "untrack" => p[i].on = "fiber2"
    BY DEF P2pDebugSteps, S
<1>3. \A s : /\ \A i \in DOMAIN p : /\ p[i] # S("term", s) /\ p[i] # S("make", s)
                                    /\ p[i] # S("spawn", s) /\ p[i] # S("start_btc", s)
             /\ \A i \in DOMAIN p : p[i] = S("untrack", s) => s = "fiber2"
             /\ \A i, j \in DOMAIN p : i < j => ~(p[i] = S("track", s) /\ p[j] = S("track", s))
    BY <1>1, <1>2 DEF S
<1>4. Fits(p, {}, {}) /\ \A s \in Owned : ~In(p, S("make", s))
    BY <1>1, <1>3 DEF Fits, Ordered, Never, Between, Before, In
<1>5. ~In(p, S("untrack", "fiber1")) /\ In(p, S("track", "fiber1"))
    BY <1>1, <1>3 DEF In, P2pDebugSteps
<1>6. QED
    BY <1>4, <1>5

\* A body that calls a node, or restarts it.
RpcSteps(p) == p \in Seq(StepSet) /\ Len(p) = 1 /\ p[1] = S("rpc", "fiber1")
RestartSteps(p) ==
    /\ p \in Seq(StepSet) /\ Len(p) = 6
    /\ p[1] = S("term", "fiber1") /\ p[2] = S("await_closed", "fiber1")
    /\ p[3] = S("await_unlocked", "fiber1") /\ p[4] = S("spawn", "fiber1")
    /\ p[5] = S("await_open", "fiber1") /\ p[6] = S("rpc", "fiber1")

\* A body that starts another node.
NewFiberSteps(p) ==
    /\ p \in Seq(StepSet) /\ Len(p) = 5
    /\ p[1] = S("rpc", "ckb") /\ p[2] = S("track", "extra") /\ p[3] = S("prepare", "extra")
    /\ p[4] = S("spawn", "extra") /\ p[5] = S("await_open", "extra")

\* A body that starts another lnd node.
NewLndSteps(p) ==
    /\ p \in Seq(StepSet) /\ Len(p) = 5
    /\ p[1] = S("make", "lnd2") /\ p[2] = S("prepare", "lnd2")
    /\ p[3] = S("refuse", "lnd2") /\ p[4] = S("spawn", "lnd2")
    /\ p[5] = S("await_open", "lnd2")

\* The same in a class that attaches to the nodes it finds.
MockFiberSteps(p) ==
    p \in Seq(StepSet) /\ Len(p) = 2 /\ p[1] = S("read_key", "extra") /\ p[2] = S("track", "extra")
MockLndSteps(p) == p \in Seq(StepSet) /\ Len(p) = 1 /\ p[1] = S("make", "lnd2")

LEMMA BodySteps ==
    ASSUME NEW p \in Bodies, debug \in BOOLEAN
    PROVE  \/ RpcSteps(p) \/ RestartSteps(p)
           \/ suite # "p2p" /\ RestartBothSteps(p)
           \/ "extra" \notin Range(fibers) /\ (NewFiberSteps(p) \/ MockFiberSteps(p))
           \/ suite = "cch" /\ (NewLndSteps(p) \/ MockLndSteps(p))
<1>1. \/ p = <<S("rpc", "fiber1")>>
      \/ p = RestartFiber("fiber1") \o <<S("rpc", "fiber1")>>
      \/ suite # "p2p" /\ p = RestartBoth
      \/ "extra" \notin Range(fibers) /\ p = StartNewFiber("extra")
      \/ suite = "cch" /\ p = StartNewLnd
    BY DEF Bodies
<1>2. p = <<S("rpc", "fiber1")>> => RpcSteps(p)
    BY DEF RpcSteps, StepSet, Ops, Slots, Fibers, Lnds, Owned, S
<1>3. p = RestartFiber("fiber1") \o <<S("rpc", "fiber1")>> => RestartSteps(p)
    BY DEF RestartSteps, RestartFiber, FiberStop, FiberStart,
           StepSet, Ops, Slots, Fibers, Lnds, Owned, S
<1>4. p = RestartBoth => RestartBothSteps(p)
    BY DEF RestartBothSteps, RestartBoth, FiberStop, FiberStart, ConnectPeer,
           StepSet, Ops, Slots, Fibers, Lnds, Owned, S
<1>5. p = StartNewFiber("extra") => NewFiberSteps(p) \/ MockFiberSteps(p)
    <2>1. CASE debug
        BY <2>1 DEF MockFiberSteps, StartNewFiber, StartNewMockFiber,
                    StepSet, Ops, Slots, Fibers, Lnds, Owned, S
    <2>2. CASE ~debug
        BY <2>2 DEF NewFiberSteps, StartNewFiber, StartFiber, FiberStart,
                    StepSet, Ops, Slots, Fibers, Lnds, Owned, S
    <2>3. QED
        BY <2>1, <2>2
<1>6. p = StartNewLnd => NewLndSteps(p) \/ MockLndSteps(p)
    <2>1. StartNewLnd = <<S("make", "lnd2")>> \o (IF debug THEN <<>> ELSE StartLnd("lnd2"))
        BY DEF StartNewLnd
    <2>2. CASE debug
        BY <2>1, <2>2 DEF MockLndSteps, StepSet, Ops, Slots, Fibers, Lnds, Owned, S
    <2>3. CASE ~debug
        BY <2>1, <2>3 DEF NewLndSteps, StartLnd, LndPrepare, LndStart,
                    StepSet, Ops, Slots, Fibers, Lnds, Owned, S
    <2>4. QED
        BY <2>2, <2>3
<1>7. QED
    BY <1>1, <1>2, <1>3, <1>4, <1>5, <1>6

\* A body restarts what is in the list, and starts what is not after it entered it.
Kept == IF suite = "p2p" THEN {"fiber1"} ELSE {"fiber1", "fiber2"}

LEMMA BodyFits ==
    ASSUME NEW p \in Bodies, NEW T \in SUBSET Fibers, NEW M \in SUBSET Owned,
           Kept \subseteq T, T = Range(fibers), debug \in BOOLEAN
    PROVE  /\ Fits(p, T, M)
           /\ \A s \in Fibers : ~In(p, S("untrack", s))
           /\ \A s \in T : Before(p, S("await_unlocked", s), S("spawn", s))
           /\ \A s \in Owned : In(p, S("make", s)) => suite = "cch"
           /\ p # <<>>
<1>1. "fiber1" \in T /\ (suite # "p2p" => "fiber2" \in T)
    BY DEF Kept
<1>2. \/ RpcSteps(p) \/ RestartSteps(p)
      \/ "fiber2" \in T /\ RestartBothSteps(p)
      \/ "extra" \notin T /\ (NewFiberSteps(p) \/ MockFiberSteps(p))
      \/ suite = "cch" /\ (NewLndSteps(p) \/ MockLndSteps(p))
    BY <1>1, BodySteps
<1>3. p \in Seq(StepSet) /\ DOMAIN p = 1 .. Len(p) /\ p # <<>> /\ Len(p) \in 1 .. 11
    BY <1>2
    DEF RpcSteps, RestartSteps, RestartBothSteps, NewFiberSteps, MockFiberSteps, NewLndSteps,
        MockLndSteps
<1>4. CASE RpcSteps(p) \/ RestartSteps(p) \/ ("fiber2" \in T /\ RestartBothSteps(p))
    <2>1. ASSUME NEW i \in DOMAIN p
          PROVE  /\ p[i].op \notin {"untrack", "track", "make", "start_btc"}
                 /\ p[i].op \in {"spawn", "term"} => p[i].on \in T
                 /\ p[i].op = "spawn" =>
                       \/ RestartSteps(p) /\ i = 4 /\ p[i].on = "fiber1"
                       \/ RestartBothSteps(p) /\ i = 7 /\ p[i].on = "fiber1"
                       \/ RestartBothSteps(p) /\ i = 9 /\ p[i].on = "fiber2"
                 /\ p[i].op = "term" =>
                       \/ RestartSteps(p) /\ i = 1
                       \/ RestartBothSteps(p) /\ i = 1 /\ p[i].on = "fiber1"
                       \/ RestartBothSteps(p) /\ i = 4 /\ p[i].on = "fiber2"
        <3>1. CASE RpcSteps(p)
            BY <1>3, <3>1 DEF RpcSteps, S
        <3>2. CASE RestartSteps(p)
            BY <1>1, <1>3, <3>2 DEF RestartSteps, S
        <3>3. CASE "fiber2" \in T /\ RestartBothSteps(p)
            BY <1>1, <1>3, <3>3 DEF RestartBothSteps, S
        <3>4. QED
            BY <1>4, <3>1, <3>2, <3>3
    <2>2. ASSUME NEW j \in DOMAIN p, p[j].op = "spawn"
          PROVE  /\ \E k \in 1 .. j - 1 : p[k] = S("await_unlocked", p[j].on)
                 /\ \A i \in DOMAIN p : i < j /\ p[i].op = "term" /\ p[i].on = p[j].on =>
                       \E k \in i + 1 .. j - 1 : p[k] = S("await_unlocked", p[j].on)
        <3>1. CASE RestartSteps(p) /\ j = 4 /\ p[j].on = "fiber1"
            BY <1>3, <2>1, <3>1 DEF RestartSteps
        <3>2. CASE RestartBothSteps(p) /\ j = 7 /\ p[j].on = "fiber1"
            BY <1>3, <2>1, <3>2 DEF RestartBothSteps
        <3>3. CASE RestartBothSteps(p) /\ j = 9 /\ p[j].on = "fiber2"
            BY <1>3, <2>1, <3>3 DEF RestartBothSteps
        <3>4. QED
            BY <2>1, <2>2, <3>1, <3>2, <3>3
    <2>3. Fits(p, T, M) /\ \A s \in Fibers : ~In(p, S("untrack", s))
        <3>1. Owned \cap T = {}
            BY DEF Owned, Lnds, Fibers
        <3>2. \A i \in DOMAIN p : p[i].op # "untrack" /\ p[i].op # "track" /\ p[i].op # "start_btc"
            BY <2>1
        <3>3. \A i \in DOMAIN p : p[i].op \in {"spawn", "term"} =>
                                    p[i].on \in T /\ p[i].on \notin Owned
            BY <2>1, <3>1
        <3>4. QED
            BY <1>3, <2>2, <3>2, <3>3, FitsIf
    <2>4. \A s \in T : Before(p, S("await_unlocked", s), S("spawn", s))
        BY <2>2 DEF Before, S
    <2>5. \A s \in Owned : ~In(p, S("make", s))
        BY <2>1 DEF In, S
    <2>6. QED
        BY <1>3, <2>3, <2>4, <2>5
<1>5. CASE "extra" \notin T /\ (NewFiberSteps(p) \/ MockFiberSteps(p))
    <2>1. ASSUME NEW i \in DOMAIN p
          PROVE  /\ p[i].op \notin {"untrack", "term", "make", "start_btc"}
                 /\ p[i].op = "track" => p[i].on = "extra" /\ i = 2
                 /\ p[i].op = "spawn" => /\ p[i].on = "extra" /\ i = 4
                                         /\ p[2] = S("track", "extra")
        BY <1>3, <1>5, SMTT(30) DEF NewFiberSteps, MockFiberSteps, S
    <2>2. Fits(p, T, M) /\ \A s \in Fibers : ~In(p, S("untrack", s))
        <3>1. "extra" \notin Owned
            BY DEF Owned, Lnds
        <3>2. \A i \in DOMAIN p : p[i].op = "spawn" => p[i].on \notin Owned
            BY <2>1, <3>1
        <3>3. \A i \in DOMAIN p : p[i].op # "untrack" /\ p[i].op # "term" /\ p[i].op # "start_btc"
            BY <2>1
        <3>4. \A i \in DOMAIN p : p[i].op = "track" => p[i].on \notin T
            BY <1>5, <2>1
        <3>5. \A i, j \in DOMAIN p : i < j => ~(p[i].op = "track" /\ p[j].op = "track")
            BY <1>3, <2>1
        <3>6. \A i \in DOMAIN p : p[i].op = "spawn" =>
                                    \E j \in 1 .. i - 1 : p[j] = S("track", p[i].on)
            BY <2>1
        <3>7. QED
            BY <1>3, <3>2, <3>3, <3>4, <3>5, <3>6, FitsIf
    <2>3. \A s \in T : Before(p, S("await_unlocked", s), S("spawn", s))
        BY <1>5, <2>1 DEF Before, S
    <2>4. \A s \in Owned : ~In(p, S("make", s))
        BY <2>1 DEF In, S
    <2>5. QED
        BY <1>3, <2>2, <2>3, <2>4
<1>6. CASE suite = "cch" /\ (NewLndSteps(p) \/ MockLndSteps(p))
    <2>1. ASSUME NEW i \in DOMAIN p
          PROVE  /\ p[i].op \notin {"untrack", "track", "term", "start_btc"}
                 /\ p[i].op = "spawn" => p[i].on = "lnd2" /\ i = 4
        BY <1>3, <1>6 DEF NewLndSteps, MockLndSteps, S
    <2>2. p[1] = S("make", "lnd2") /\ "lnd2" \notin Fibers
        BY <1>6 DEF NewLndSteps, MockLndSteps, Fibers
    <2>3. Fits(p, T, M) /\ \A s \in Fibers : ~In(p, S("untrack", s))
        <3>1. \A i \in DOMAIN p : p[i].op = "spawn" =>
                  p[i].on \notin Fibers /\ \E j \in 1 .. i - 1 : p[j] = S("make", p[i].on)
            BY <1>3, <2>1, <2>2
        <3>2. \A i \in DOMAIN p : /\ p[i].op # "untrack" /\ p[i].op # "term"
                                  /\ p[i].op # "start_btc" /\ p[i].op # "track"
            BY <2>1
        <3>3. QED
            BY <1>3, <3>1, <3>2, FitsIf
    <2>4. \A s \in T : Before(p, S("await_unlocked", s), S("spawn", s))
        BY <2>1, <2>2 DEF Before, S
    <2>5. QED
        BY <1>3, <1>6, <2>3, <2>4
<1>7. QED
    BY <1>2, <1>4, <1>5, <1>6

\* What setup_method does to the list fits a new instance of the class.
LEMMA SetupMethodFits ==
    ASSUME suite' \in {"plain", "cch", "p2p"}, debug' \in BOOLEAN
    PROVE  /\ Fits(SetupMethod', {}, {})
           /\ ~debug' => \A s \in Fibers :
                 /\ Before(SetupMethod', S("kill", s), S("untrack", s))
                 /\ Before(SetupMethod', S("clean", s), S("untrack", s))
           /\ \A s \in Kept' : /\ ~In(SetupMethod', S("untrack", s))
                               /\ In(SetupMethod', S("track", s))
           /\ \A s \in Owned : ~In(SetupMethod', S("make", s))
<1> DEFINE p == SetupMethod'
<1>1. /\ suite' = "plain" => p = SetupFibers'
      /\ suite' = "cch" => p = SetupCchMethod'
      /\ suite' = "p2p" => p = SetupFibers' \o SetupAttacker'
    BY DEF SetupMethod
<1> DEFINE first == <<S("rpc", "ckb"), S("start_miner", "miner")>> \o StartFiber("fiber1")
                    \o StartFiber("fiber2") \o ConnectPeer("fiber1")
<1>2. SetupFibers' = TrackFibers \o (IF debug' THEN <<>> ELSE first)
    BY DEF SetupFibers
<1> HIDE DEF p
<1>3. ASSUME suite' \in {"plain", "cch"}, debug' PROVE TrackSteps(p)
    <2>1. p = TrackFibers \o <<>> \/ p = TrackFibers \o <<>> \o <<>>
        BY <1>1, <1>2, <1>3 DEF SetupCchMethod
    <2>2. TrackFibers \in Seq(StepSet)
        BY DEF TrackFibers, StepSet, Ops, Slots, Fibers, Lnds, Owned, S
    <2>3. p = TrackFibers
        BY <2>1, <2>2, ConcatEmptySeq
    <2>4. QED
        BY <2>2, <2>3 DEF TrackSteps, TrackFibers
<1>4. ASSUME suite' = "plain", ~debug' PROVE FiberSteps(p)
    <2>1. p = TrackFibers \o first
        BY <1>1, <1>2, <1>4
    <2>2. QED
        BY <2>1
        DEF FiberSteps, TrackFibers, StartFiber, FiberStart, ConnectPeer, StepSet, Ops, Slots,
            Fibers, Lnds, Owned, S
<1>5. ASSUME suite' = "cch", ~debug' PROVE CchMethodSteps(p)
    <2>1. p = (TrackFibers \o first) \o (FiberStop("fiber1") \o StartFiber("fiber1"))
        BY <1>1, <1>2, <1>5 DEF SetupCchMethod
    <2>2. QED
        BY <2>1
        DEF CchMethodSteps, TrackFibers, StartFiber, FiberStart, FiberStop, ConnectPeer,
            StepSet, Ops, Slots, Fibers, Lnds, Owned, S
<1>6. suite' = "p2p" => /\ debug' => P2pDebugSteps(p)
                        /\ ~debug' => P2pSteps(p)
    <2>1. CASE suite' = "p2p" /\ debug'
        <3>1. SetupAttacker' = (<<>> \o <<S("untrack", "fiber2")>>) \o StartNewMockFiber("extra")
                               \o <<S("rpc", "extra")>>
            BY <2>1 DEF SetupAttacker, StartNewFiber
        <3>2. p = (TrackFibers \o <<>>)
                  \o ((<<>> \o <<S("untrack", "fiber2")>>) \o StartNewMockFiber("extra")
                      \o <<S("rpc", "extra")>>)
            BY <1>1, <1>2, <2>1, <3>1
        <3>3. P2pDebugSteps(p)
            BY <3>2
            DEF P2pDebugSteps, TrackFibers, StartNewMockFiber, StepSet, Ops, Slots, Fibers,
                Lnds, Owned, S
        <3>4. QED
            BY <2>1, <3>3
    <2>2. CASE suite' = "p2p" /\ ~debug'
        <3>1. SetupAttacker' = (ForceStopAndClean("fiber2") \o <<S("untrack", "fiber2")>>)
                               \o (<<S("rpc", "ckb"), S("track", "extra")>> \o StartFiber("extra"))
                               \o <<S("rpc", "extra")>>
            BY <2>2 DEF SetupAttacker, StartNewFiber
        <3>2. p = (TrackFibers \o first)
                  \o ((ForceStopAndClean("fiber2") \o <<S("untrack", "fiber2")>>)
                      \o (<<S("rpc", "ckb"), S("track", "extra")>> \o StartFiber("extra"))
                      \o <<S("rpc", "extra")>>)
            BY <1>1, <1>2, <2>2, <3>1
        <3>3. P2pSteps(p)
            BY <3>2 DEF P2pSteps, TrackFibers, StartFiber, FiberStart, ForceStopAndClean,
                        FiberForceStop, ConnectPeer, StepSet, Ops, Slots, Fibers, Lnds, Owned, S
        <3>4. QED
            BY <2>2, <3>3
    <2>3. QED
        BY <2>1, <2>2
<1>7. CASE suite' \in {"plain", "cch"}
    <2>1. Kept' = {"fiber1", "fiber2"}
        BY <1>7 DEF Kept
    <2>2. TrackSteps(p) \/ FiberSteps(p) \/ CchMethodSteps(p)
        BY <1>3, <1>4, <1>5, <1>7
    <2>3. /\ Fits(p, {}, {})
          /\ \A s \in Fibers : ~In(p, S("untrack", s))
          /\ In(p, S("track", "fiber1")) /\ In(p, S("track", "fiber2"))
          /\ \A s \in Owned : ~In(p, S("make", s))
        <3>1. TrackSteps(p) => ~MakeSteps(p)
            BY DEF TrackSteps, MakeSteps, S
        <3>2. QED
            BY <2>2, <3>1, ShortFits, FiberFits, CchMethodFits
    <2>4. "fiber1" \in Fibers /\ "fiber2" \in Fibers
        BY DEF Fibers
    <2>5. \A s \in Fibers : /\ Before(p, S("kill", s), S("untrack", s))
                            /\ Before(p, S("clean", s), S("untrack", s))
        BY <2>3 DEF In, Before
    <2>6. QED
        BY <2>1, <2>3, <2>4, <2>5 DEF p
<1>8. CASE suite' = "p2p"
    <2>1. Kept' = {"fiber1"}
        BY <1>8 DEF Kept
    <2>2. QED
        BY <1>6, <1>8, <2>1, P2pFits, P2pDebugFits DEF p
<1>9. QED
    BY <1>7, <1>8

\* So does what setup_class does, whether it attaches or not.
SetupClassSteps(p, attach) ==
    CASE suite = "shared" -> IF attach THEN p = TrackFibers ELSE p = SharedSetup'
      [] suite = "cch" -> IF attach THEN p = MakeNodes ELSE p = SetupCchClass
      [] OTHER -> IF attach THEN p = <<>> ELSE p = SetupCkb

LEMMA SetupClassFits ==
    ASSUME suite \in {"plain", "shared", "cch", "p2p"}, NEW attach \in BOOLEAN,
           ~attach => debug' = FALSE, NEW p, SetupClassSteps(p, attach)
    PROVE  /\ Fits(p, {}, {})
           /\ \A s \in Fibers : ~In(p, S("untrack", s))
           /\ suite = "shared" => \A s \in {"fiber1", "fiber2"} : In(p, S("track", s))
           /\ suite # "shared" => \A s \in Fibers : ~In(p, S("track", s))
           /\ \A s \in Owned : In(p, S("make", s)) => suite = "cch"
<1>1. ASSUME suite = "shared", attach PROVE TrackSteps(p)
    <2>1. p = TrackFibers
        BY <1>1 DEF SetupClassSteps
    <2>2. QED
        BY <2>1 DEF TrackSteps, TrackFibers, StepSet, Ops, Slots, Fibers, Lnds, Owned, S
<1>2. ASSUME suite = "shared", ~attach PROVE SharedClassSteps(p)
    <2>1. p = SharedSetup' /\ debug' = FALSE
        BY <1>2 DEF SetupClassSteps
    <2>2. QED
        BY <2>1 DEF SharedClassSteps, SharedSetup, SetupCkb, CkbPrepare, CkbStart, SetupFibers,
                    TrackFibers, StartFiber, FiberStart, ConnectPeer,
                    StepSet, Ops, Slots, Fibers, Lnds, Owned, S
<1>3. ASSUME suite = "cch", attach PROVE MakeSteps(p)
    <2>1. p = MakeNodes
        BY <1>3 DEF SetupClassSteps
    <2>2. QED
        BY <2>1 DEF MakeSteps, MakeNodes, StepSet, Ops, Slots, Fibers, Lnds, Owned, S
<1>4. ASSUME suite = "cch", ~attach PROVE CchClassSteps(p)
    <2>1. p = SetupCchClass
        BY <1>4 DEF SetupClassSteps
    <2>2. QED
        BY <2>1 DEF CchClassSteps, SetupCchClass, SetupCkb, CkbPrepare, CkbStart, MakeNodes,
                    BtcPrepare, StartLnd, LndPrepare, LndStart, LndOpenChannel,
                    StepSet, Ops, Slots, Fibers, Lnds, Owned, S
<1>5. ASSUME suite \in {"plain", "p2p"}, attach PROVE p = <<>>
    BY <1>5 DEF SetupClassSteps
<1>6. ASSUME suite \in {"plain", "p2p"}, ~attach PROVE CkbSteps(p)
    <2>1. p = SetupCkb
        BY <1>6 DEF SetupClassSteps
    <2>2. QED
        BY <2>1 DEF CkbSteps, SetupCkb, CkbPrepare, CkbStart, StepSet, Ops, Slots, Fibers, Lnds, Owned, S
<1>7. CASE suite = "shared"
    <2>1. TrackSteps(p) => ~MakeSteps(p)
        BY DEF TrackSteps, MakeSteps, S
    <2>2. QED
        BY <1>1, <1>2, <1>7, <2>1, ShortFits, SharedClassFits
<1>8. CASE suite = "cch"
    <2>1. MakeSteps(p) => ~TrackSteps(p)
        BY DEF TrackSteps, MakeSteps, S
    <2>2. QED
        BY <1>3, <1>4, <1>8, <2>1, ShortFits, CchClassFits
<1>9. CASE suite \in {"plain", "p2p"}
    <2>1. CASE p = <<>>
        <3>1. p \in Seq(StepSet) /\ DOMAIN p = {}
            BY <2>1
        <3>2. QED
            BY <1>9, <3>1 DEF Fits, Ordered, Never, Between, Before, In
    <2>2. CASE CkbSteps(p)
        <3>1. ~MakeSteps(p) /\ ~TrackSteps(p)
            BY <2>2 DEF CkbSteps, MakeSteps, TrackSteps, S
        <3>2. QED
            BY <1>9, <2>2, <3>1, ShortFits
    <2>3. QED
        BY <1>5, <1>6, <1>9, <2>1, <2>2
<1>10. QED
    BY <1>7, <1>8, <1>9

-----------------------------------------------------------------------------
(* What is left to do *)

\* The steps that setup_class, setup_method or a body has left.
Plan == IF todo = <<>> THEN <<>> ELSE Head(todo)

\* Is step x still to come?  Is the node s still to be killed and then cleaned?
Pending(x) == \E i \in DOMAIN todo : In(todo[i], x)
KillPending(s) ==
    \E i \in DOMAIN todo : \E k, l \in DOMAIN todo[i] :
        k < l /\ todo[i][k] = S("kill", s) /\ todo[i][l] = S("clean", s)

LEMMA Skipped ==
    ASSUME todo \in Seq(UnitSet), todo # <<>>, todo' = Tail(todo)
    PROVE  /\ todo' \in Seq(UnitSet) /\ Len(todo') = Len(todo) - 1 /\ Len(todo) \in Nat
           /\ \A i \in DOMAIN todo' : i + 1 \in DOMAIN todo /\ todo'[i] = todo[i + 1]
           /\ \A i \in DOMAIN todo : i = 1 \/ (i - 1 \in DOMAIN todo' /\ todo[i] = todo'[i - 1])
           /\ \A x : Pending(x) => Pending(x)' \/ In(Head(todo), x)
<1>1. /\ Len(todo) \in Nat /\ Len(todo) >= 1 /\ DOMAIN todo = 1 .. Len(todo)
      /\ todo' \in Seq(UnitSet) /\ Len(todo') = Len(todo) - 1 /\ DOMAIN todo' = 1 .. Len(todo) - 1
      /\ Head(todo) = todo[1]
      /\ \A i \in 1 .. Len(todo) - 1 : todo'[i] = todo[i + 1]
    OBVIOUS
<1>2. \A i \in DOMAIN todo' : i + 1 \in DOMAIN todo /\ todo'[i] = todo[i + 1]
    BY <1>1
<1>3. \A i \in DOMAIN todo : i = 1 \/ (i - 1 \in DOMAIN todo' /\ todo[i] = todo'[i - 1])
    BY <1>1
<1>4. \A x : Pending(x) => Pending(x)' \/ In(Head(todo), x)
    BY <1>1, <1>3 DEF Pending
<1>5. QED
    BY <1>1, <1>2, <1>3, <1>4

LEMMA Returned ==
    ASSUME todo \in Seq(UnitSet), todo # <<>>, Return
    PROVE  /\ Head(todo) \in Seq(StepSet) /\ Head(todo) # <<>> /\ Head(Head(todo)) \in StepSet
           /\ todo' \in Seq(UnitSet)
           /\ Len(todo) <= 1 => Len(todo') <= 1 /\ Plan' = Tail(Plan)
           /\ \A i \in DOMAIN todo' : \E j \in DOMAIN todo :
                 todo'[i] = todo[j] \/ todo'[i] = Tail(todo[j])
           /\ \A x : Pending(x) => Pending(x)' \/ x = Head(Head(todo))
           /\ \A s : KillPending(s) => KillPending(s)' \/ Head(Head(todo)) = S("kill", s)
<1> DEFINE u == Head(todo)
           v == Tail(u)
<1>1. /\ Len(todo) \in Nat /\ Len(todo) >= 1 /\ DOMAIN todo = 1 .. Len(todo)
      /\ u = todo[1] /\ u \in UnitSet
    OBVIOUS
<1>2. /\ u \in Seq(StepSet) /\ u # <<>> /\ Head(u) \in StepSet /\ Head(u) = u[1]
      /\ Len(u) \in Nat /\ Len(u) >= 1 /\ DOMAIN u = 1 .. Len(u)
      /\ v \in Seq(StepSet) /\ Len(v) = Len(u) - 1 /\ DOMAIN v = 1 .. Len(u) - 1
      /\ \A k \in 1 .. Len(u) - 1 : v[k] = u[k + 1]
    BY <1>1 DEF UnitSet
<1>3. \A x : In(u, x) => x = Head(u) \/ In(v, x)
    BY <1>2, TailOrder
<1>4. ASSUME NEW k \in DOMAIN u, k # 1 PROVE k - 1 \in DOMAIN v /\ v[k - 1] = u[k]
    BY <1>2, <1>4
<1> DEFINE KillIn(w, s) == \E k, l \in DOMAIN w :
                               k < l /\ w[k] = S("kill", s) /\ w[l] = S("clean", s)
<1>5. \A s : KillIn(u, s) => KillIn(v, s) \/ Head(u) = S("kill", s)
    <2> SUFFICES ASSUME NEW s, NEW k \in DOMAIN u, NEW l \in DOMAIN u, k < l,
                        u[k] = S("kill", s), u[l] = S("clean", s), k # 1
                 PROVE  KillIn(v, s)
        BY <1>2
    <2>1. /\ k - 1 \in DOMAIN v /\ v[k - 1] = u[k] /\ l - 1 \in DOMAIN v /\ v[l - 1] = u[l]
          /\ k - 1 < l - 1
        BY <1>2, <1>4
    <2>2. QED
        BY <2>1
<1>6. \A s : KillPending(s) <=> \E i \in DOMAIN todo : KillIn(todo[i], s)
    BY DEF KillPending
<1>7. \A s : KillPending(s)' <=> \E i \in DOMAIN todo' : KillIn(todo'[i], s)
    BY DEF KillPending
<1>8. CASE v = <<>>
    <2>1. todo' = Tail(todo)
        <3>1. Units(v) = <<>> /\ Tail(todo) \in Seq(UnitSet)
            BY <1>1, <1>8 DEF Units
        <3>2. QED
            BY <3>1, ConcatEmptySeq DEF Return
    <2>2. /\ todo' \in Seq(UnitSet) /\ Len(todo') = Len(todo) - 1
          /\ \A i \in DOMAIN todo' : i + 1 \in DOMAIN todo /\ todo'[i] = todo[i + 1]
          /\ \A i \in DOMAIN todo : i = 1 \/ (i - 1 \in DOMAIN todo' /\ todo[i] = todo'[i - 1])
          /\ \A x : Pending(x) => Pending(x)' \/ In(u, x)
        BY <2>1, Skipped
    <2>3. Len(todo) <= 1 => Len(todo') <= 1 /\ Plan' = Tail(Plan)
        <3>1. Len(todo) <= 1 => todo' = <<>>
            <4>1. Len(todo) <= 1 => Len(todo') = 0
                BY <1>1, <2>2
            <4>2. todo' # <<>> => Len(todo') \in Nat \ {0}
                BY <2>2, EmptySeq
            <4>3. QED
                BY <4>1, <4>2
        <3>2. Plan = u
            BY DEF Plan
        <3>3. todo' = <<>> => Plan' = <<>>
            BY DEF Plan
        <3>4. Tail(Plan) = <<>>
            BY <1>8, <3>2
        <3>5. Len(todo) <= 1 => Len(todo') <= 1
            BY <1>1, <2>2
        <3>6. QED
            BY <3>1, <3>3, <3>4, <3>5
    <2>4. \A x : ~In(v, x)
        BY <1>8 DEF In
    <2>5. \A s : ~KillIn(v, s)
        BY <1>8
    <2> HIDE DEF KillIn
    <2>6. \A s : KillPending(s) => KillPending(s)' \/ Head(u) = S("kill", s)
        BY <1>1, <1>5, <1>6, <1>7, <2>2, <2>5
    <2>7. QED
        BY <1>2, <1>3, <2>2, <2>3, <2>4, <2>6
<1>9. CASE v # <<>>
    <2>1. /\ Units(v) = <<v>> /\ v \in UnitSet /\ Tail(todo) \in Seq(UnitSet)
          /\ Len(Tail(todo)) = Len(todo) - 1
          /\ \A i \in 1 .. Len(todo) - 1 : Tail(todo)[i] = todo[i + 1]
        BY <1>1, <1>2, <1>9 DEF Units, UnitSet
    <2>2. /\ todo' \in Seq(UnitSet) /\ Len(todo') = Len(todo)
          /\ todo'[1] = v /\ \A i \in 2 .. Len(todo) : todo'[i] = todo[i]
        <3> DEFINE a == <<v>>
                   b == Tail(todo)
        <3>1. a \in Seq(UnitSet) /\ Len(a) = 1 /\ a[1] = v /\ b \in Seq(UnitSet)
            BY <2>1
        <3>2. todo' = a \o b /\ Len(b) = Len(todo) - 1
            BY <2>1 DEF Return
        <3>3. \A i \in 2 .. Len(todo) : b[i - 1] = todo[i]
            BY <1>1, <2>1
        <3> HIDE DEF a, b
        <3>4. /\ a \o b \in Seq(UnitSet) /\ Len(a \o b) = Len(a) + Len(b)
              /\ \A i \in 1 .. Len(a) + Len(b) :
                    (a \o b)[i] = IF i <= Len(a) THEN a[i] ELSE b[i - Len(a)]
            BY <3>1, ConcatProperties
        <3>5. Len(todo') = Len(todo) /\ todo' \in Seq(UnitSet)
            BY <1>1, <3>1, <3>2, <3>4
        <3>6. \A i \in 1 .. Len(todo) : todo'[i] = IF i <= 1 THEN a[i] ELSE b[i - 1]
            BY <1>1, <3>1, <3>2, <3>4
        <3>7. QED
            BY <1>1, <3>1, <3>3, <3>5, <3>6
    <2>3. DOMAIN todo' = DOMAIN todo /\ 1 \in DOMAIN todo
          /\ \A i \in DOMAIN todo : i = 1 \/ todo'[i] = todo[i]
        BY <1>1, <2>2
    <2>4. Len(todo) <= 1 => Len(todo') <= 1 /\ Plan' = Tail(Plan)
        BY <1>1, <2>2 DEF Plan
    <2>5. \A x : Pending(x) => Pending(x)' \/ x = Head(u)
        BY <1>1, <1>3, <2>2, <2>3 DEF Pending
    <2> HIDE DEF KillIn
    <2>6. \A s : KillPending(s) => KillPending(s)' \/ Head(u) = S("kill", s)
        BY <1>1, <1>5, <1>6, <1>7, <2>2, <2>3
    <2>7. QED
        BY <1>1, <1>2, <2>2, <2>3, <2>4, <2>5, <2>6
<1>10. QED
    BY <1>8, <1>9

-----------------------------------------------------------------------------
(* What the teardowns do, unit by unit *)

\* They start nothing and keep the lists.
TearOps == {"kill", "term", "await_closed", "await_unlocked", "await_gone", "clean",
            "stop_btc", "stop_miner"}
TearUnit == {u \in UnitSet : \A k \in DOMAIN u : u[k].op \in TearOps}

KillsThenCleans(u, s) ==
    \E k, l \in DOMAIN u : k < l /\ u[k] = S("kill", s) /\ u[l] = S("clean", s)

\* A unit is about one slot, or none of its steps can raise.
SameOrSure(u) ==
    \/ \A k \in DOMAIN u : u[k].op \in {"stop_miner", "term"}
    \/ \E r \in Slots : \A k \in DOMAIN u : u[k].on = r

StopStep(s) == IF s = "btc" THEN S("stop_btc", "btc") ELSE S("term", s)

LEMMA FiberUnits ==
    ASSUME NEW s \in Fibers
    PROVE  /\ ForceStopAndClean(s) \in TearUnit /\ KillsThenCleans(ForceStopAndClean(s), s)
           /\ StopAndClean(s) \in TearUnit /\ In(StopAndClean(s), S("term", s))
           /\ \A q : ~In(ForceStopAndClean(s), S("term", q))
           /\ \A q : In(StopAndClean(s), S("term", q)) => q = s
<1> DEFINE u == ForceStopAndClean(s)
           v == StopAndClean(s)
<1>1. /\ u \in Seq(StepSet) /\ Len(u) = 3
      /\ u[1] = S("kill", s) /\ u[2] = S("await_closed", s) /\ u[3] = S("clean", s)
    BY DEF ForceStopAndClean, FiberForceStop, StepSet, Ops, Slots, Fibers, Lnds, Owned, S
<1>2. /\ v \in Seq(StepSet) /\ Len(v) = 4
      /\ v[1] = S("term", s) /\ v[2] = S("await_closed", s)
      /\ v[3] = S("await_unlocked", s) /\ v[4] = S("clean", s)
    <2>1. StopOf(s) = FiberStop(s)
        BY DEF StopOf, Fibers, Lnds
    <2>2. v = FiberStop(s) \o <<S("clean", s)>>
        BY <2>1 DEF StopAndClean
    <2> HIDE DEF v
    <2>3. QED
        BY <2>2 DEF FiberStop, StepSet, Ops, Slots, Fibers, Lnds, Owned, S
<1> HIDE DEF u, v
<1>3. u \in TearUnit /\ KillsThenCleans(u, s)
    <2>1. DOMAIN u = 1 .. 3 /\ u # <<>> /\ \A k \in 1 .. 3 : u[k].op \in TearOps
        <3>0. u \in Seq(StepSet) /\ Len(u) = 3
            BY <1>1
        <3>1. DOMAIN u = 1 .. 3 /\ u # <<>>
            BY <3>0, LenProperties, EmptySeq
        <3>2. \A k \in 1 .. 3 : u[k].op \in TearOps
            BY <1>1 DEF TearOps, S
        <3>3. QED
            BY <3>1, <3>2
    <2>2. QED
        BY <1>1, <2>1 DEF TearUnit, UnitSet, KillsThenCleans
<1>4. v \in TearUnit /\ In(v, S("term", s))
    <2>1. DOMAIN v = 1 .. 4 /\ v # <<>> /\ \A k \in 1 .. 4 : v[k].op \in TearOps
        <3>0. v \in Seq(StepSet) /\ Len(v) = 4
            BY <1>2
        <3>1. DOMAIN v = 1 .. 4 /\ v # <<>>
            BY <3>0, LenProperties, EmptySeq
        <3>2. \A k \in 1 .. 4 : v[k].op \in TearOps
            BY <1>2 DEF TearOps, S
        <3>3. QED
            BY <3>1, <3>2
    <2>2. QED
        BY <1>2, <2>1 DEF TearUnit, UnitSet, In
<1>5. \A q : ~In(u, S("term", q))
    <2>1. DOMAIN u = 1 .. 3 /\ \A k \in 1 .. 3 : u[k].op # "term"
        BY <1>1 DEF S
    <2>2. QED
        BY <2>1 DEF In, S
<1>6. \A q : In(v, S("term", q)) => q = s
    <2>1. DOMAIN v = 1 .. 4 /\ \A k \in 1 .. 4 : v[k].on = s
        BY <1>2 DEF S
    <2>2. QED
        BY <2>1 DEF In, S
<1>7. QED
    BY <1>3, <1>4, <1>5, <1>6 DEF u, v

LEMMA CkbUnit ==
    /\ StopAndClean("ckb") \in TearUnit
    /\ In(StopAndClean("ckb"), S("term", "ckb"))
    /\ In(StopAndClean("ckb"), S("stop_miner", "miner"))
<1> DEFINE u == StopAndClean("ckb")
<1>1. u = CkbStop \o <<S("clean", "ckb")>>
    BY DEF StopAndClean, StopOf, Fibers, Lnds
<1> HIDE DEF u
<1>2. /\ u \in Seq(StepSet) /\ Len(u) = 3
      /\ u[1] = S("stop_miner", "miner") /\ u[2] = S("term", "ckb") /\ u[3] = S("clean", "ckb")
    BY <1>1 DEF CkbStop, StepSet, Ops, Slots, Fibers, Lnds, Owned, S
<1>3. u \in TearUnit /\ In(u, S("term", "ckb")) /\ In(u, S("stop_miner", "miner"))
    <2>1. DOMAIN u = 1 .. 3 /\ u # <<>> /\ \A k \in 1 .. 3 : u[k].op \in TearOps
        BY <1>2 DEF TearOps, S
    <2>2. QED
        BY <1>2, <2>1 DEF TearUnit, UnitSet, In
<1>4. QED
    BY <1>3 DEF u

\* Each resource of a cch class has a unit that stops it and one that cleans it.
LEMMA ResourceUnits ==
    ASSUME NEW s \in Owned \cup {"ckb"}
    PROVE  /\ StopOf(s) \in TearUnit /\ SameOrSure(StopOf(s)) /\ In(StopOf(s), StopStep(s))
           /\ <<S("clean", s)>> \in TearUnit /\ SameOrSure(<<S("clean", s)>>)
           /\ In(<<S("clean", s)>>, S("clean", s))
           /\ s = "ckb" => In(StopOf(s), S("stop_miner", "miner"))
<1> DEFINE u == StopOf(s)
           v == <<S("clean", s)>>
<1>1. s \in Slots
    BY DEF Owned, Slots
<1>2. /\ v \in Seq(StepSet) /\ Len(v) = 1 /\ v[1] = S("clean", s)
    BY DEF StepSet, Ops, Slots, Fibers, Lnds, Owned, S
<1> HIDE DEF u, v
<1>4. v \in TearUnit /\ SameOrSure(v) /\ In(v, S("clean", s))
    BY <1>1, <1>2 DEF TearUnit, TearOps, UnitSet, SameOrSure, In, S
<1>5. CASE s \in Lnds
    <2>1. s # "btc" /\ s # "ckb" /\ u = LndStop(s)
        BY <1>5 DEF Lnds, Fibers, StopOf, u
    <2>2. u \in Seq(StepSet) /\ Len(u) = 2 /\ u[1] = S("term", s) /\ u[2] = S("await_gone", s)
        <3>1. S("term", s) \in StepSet /\ S("await_gone", s) \in StepSet
            BY <1>5 DEF StepSet, Ops, Slots, Fibers, Lnds, Owned, S
        <3>2. QED
            BY <2>1, <3>1 DEF LndStop
    <2>3. /\ DOMAIN u = 1 .. 2 /\ u # <<>>
          /\ \A k \in 1 .. 2 : u[k].op \in TearOps /\ u[k].on = s
        <3>1. u \in Seq(StepSet) /\ Len(u) = 2
            BY <2>2
        <3>2. DOMAIN u = 1 .. 2 /\ u # <<>>
            BY <3>1, LenProperties, EmptySeq
        <3>3. \A k \in 1 .. 2 : u[k].op \in TearOps /\ u[k].on = s
            BY <2>2 DEF TearOps, S
        <3>4. QED
            BY <3>2, <3>3
    <2>4. u \in TearUnit /\ SameOrSure(u) /\ In(u, S("term", s))
        BY <1>1, <2>2, <2>3 DEF TearUnit, UnitSet, SameOrSure, In
    <2>5. QED
        BY <1>4, <2>1, <2>4 DEF u, v, StopStep
<1>6. CASE s = "btc"
    <2>1. u = <<S("stop_btc", "btc")>>
        BY <1>6 DEF Lnds, Fibers, StopOf, u
    <2>2. u \in Seq(StepSet) /\ Len(u) = 1 /\ u[1] = S("stop_btc", "btc")
        BY <2>1 DEF StepSet, Ops, Slots, Fibers, Lnds, Owned, S
    <2>3. /\ DOMAIN u = 1 .. 1 /\ u # <<>>
          /\ \A k \in 1 .. 1 : u[k].op \in TearOps /\ u[k].on = s
        <3>1. DOMAIN u = 1 .. 1 /\ u # <<>>
            BY <2>2
        <3>2. \A k \in 1 .. 1 : u[k].op \in TearOps /\ u[k].on = s
            BY <1>6, <2>2 DEF TearOps, S
        <3>3. QED
            BY <3>1, <3>2
    <2>4. u \in TearUnit /\ SameOrSure(u) /\ In(u, S("stop_btc", "btc"))
        BY <1>1, <2>2, <2>3 DEF TearUnit, UnitSet, SameOrSure, In
    <2>5. QED
        BY <1>4, <1>6, <2>4 DEF u, v, StopStep
<1>7. CASE s = "ckb"
    <2>1. u = CkbStop
        BY <1>7 DEF Lnds, Fibers, StopOf, u
    <2>2. /\ u \in Seq(StepSet) /\ Len(u) = 2
          /\ u[1] = S("stop_miner", "miner") /\ u[2] = S("term", "ckb")
        BY <2>1 DEF CkbStop, StepSet, Ops, Slots, Fibers, Lnds, Owned, S
    <2>3. /\ DOMAIN u = 1 .. 2 /\ u # <<>>
          /\ \A k \in 1 .. 2 : u[k].op \in TearOps /\ u[k].op \in {"stop_miner", "term"}
        <3>1. u \in Seq(StepSet) /\ Len(u) = 2
            BY <2>2
        <3>2. DOMAIN u = 1 .. 2 /\ u # <<>>
            BY <3>1, LenProperties, EmptySeq
        <3>3. \A k \in 1 .. 2 : u[k].op \in TearOps /\ u[k].op \in {"stop_miner", "term"}
            BY <2>2 DEF TearOps, S
        <3>4. QED
            BY <3>2, <3>3
    <2>4. /\ u \in TearUnit /\ SameOrSure(u) /\ In(u, S("term", "ckb"))
          /\ In(u, S("stop_miner", "miner"))
        BY <2>2, <2>3 DEF TearUnit, UnitSet, SameOrSure, In
    <2>5. QED
        BY <1>4, <1>7, <2>4 DEF u, v, StopStep
<1>8. QED
    BY <1>5, <1>6, <1>7 DEF Owned

\* The units of two lists, one after the other.
Joins(c, a, b) ==
    /\ c \in Seq(TearUnit)
    /\ \A i \in DOMAIN a : \E k \in DOMAIN c : c[k] = a[i]
    /\ \A i \in DOMAIN b : \E k \in DOMAIN c : c[k] = b[i]
    /\ \A k \in DOMAIN c : \/ \E i \in DOMAIN a : c[k] = a[i]
                           \/ \E i \in DOMAIN b : c[k] = b[i]

LEMMA Appended ==
    ASSUME NEW a \in Seq(TearUnit), NEW b \in Seq(TearUnit)
    PROVE  Joins(a \o b, a, b)
<1> DEFINE c == a \o b
<1>1. /\ c \in Seq(TearUnit) /\ Len(c) = Len(a) + Len(b)
      /\ \A i \in 1 .. Len(a) + Len(b) : c[i] = IF i <= Len(a) THEN a[i] ELSE b[i - Len(a)]
    BY ConcatProperties
<1> HIDE DEF c
<1>2. /\ Len(a) \in Nat /\ Len(b) \in Nat
      /\ DOMAIN a = 1 .. Len(a) /\ DOMAIN b = 1 .. Len(b) /\ DOMAIN c = 1 .. Len(c)
    BY <1>1, LenProperties
<1>3. ASSUME NEW i \in DOMAIN a PROVE \E k \in DOMAIN c : c[k] = a[i]
    BY <1>1, <1>2
<1>4. ASSUME NEW i \in DOMAIN b PROVE \E k \in DOMAIN c : c[k] = b[i]
    <2>1. Len(a) + i \in DOMAIN c /\ c[Len(a) + i] = b[i]
        BY <1>1, <1>2
    <2>2. QED
        BY <2>1
<1>5. ASSUME NEW k \in DOMAIN c
      PROVE  \/ \E i \in DOMAIN a : c[k] = a[i]
             \/ \E i \in DOMAIN b : c[k] = b[i]
    <2>1. CASE k <= Len(a)
        BY <1>1, <1>2, <2>1
    <2>2. CASE k > Len(a)
        <3>1. k - Len(a) \in DOMAIN b /\ c[k] = b[k - Len(a)]
            BY <1>1, <1>2, <2>2
        <3>2. QED
            BY <3>1
    <2>3. QED
        BY <1>1, <1>2, <2>1, <2>2
<1>6. QED
    BY <1>1, <1>3, <1>4, <1>5 DEF Joins, c

\* Every node in the list is killed and cleaned, or stopped.
LEMMA TeardownFits ==
    ASSUME fibers \in Seq(Fibers)
    PROVE  /\ FiberTeardown \in Seq(TearUnit) /\ CchTeardown \in Seq(TearUnit)
           /\ SharedTeardown \in Seq(TearUnit)
           /\ \A s \in Range(fibers) :
                 /\ \E i \in DOMAIN FiberTeardown : KillsThenCleans(FiberTeardown[i], s)
                 /\ \E i \in DOMAIN CchTeardown : KillsThenCleans(CchTeardown[i], s)
                 /\ \E i \in DOMAIN SharedTeardown : In(SharedTeardown[i], S("term", s))
           /\ \A s : /\ \A i \in DOMAIN FiberTeardown : ~In(FiberTeardown[i], S("term", s))
                     /\ \A i \in DOMAIN CchTeardown :
                           In(CchTeardown[i], S("term", s)) => s \in Range(fibers)
           /\ \E i \in DOMAIN SharedTeardown : In(SharedTeardown[i], S("term", "ckb"))
           /\ \E i \in DOMAIN SharedTeardown : In(SharedTeardown[i], S("stop_miner", "miner"))
<1> DEFINE a == FiberTeardown
           b == StopFibers
           c == <<StopAndClean("ckb")>>
<1>1. /\ Len(fibers) \in Nat /\ DOMAIN fibers = 1 .. Len(fibers)
      /\ \A i \in DOMAIN fibers : fibers[i] \in Fibers
    OBVIOUS
<1>2. /\ a \in Seq(TearUnit) /\ DOMAIN a = DOMAIN fibers
      /\ \A i \in DOMAIN a : a[i] = ForceStopAndClean(fibers[i])
    BY <1>1, FiberUnits DEF FiberTeardown
<1>3. /\ b \in Seq(TearUnit) /\ DOMAIN b = DOMAIN fibers
      /\ \A i \in DOMAIN b : b[i] = StopAndClean(fibers[i])
    BY <1>1, FiberUnits DEF StopFibers
<1>4. c \in Seq(TearUnit) /\ 1 \in DOMAIN c /\ c[1] = StopAndClean("ckb")
    BY CkbUnit
<1>5. CchTeardown = a \o b /\ SharedTeardown = b \o c
    BY DEF CchTeardown, SharedTeardown
<1>6. ASSUME NEW s \in Range(fibers)
      PROVE  /\ \E i \in DOMAIN a : KillsThenCleans(a[i], s)
             /\ \E i \in DOMAIN b : In(b[i], S("term", s))
    <2>1. PICK i \in DOMAIN fibers : fibers[i] = s
        BY <1>6 DEF Range
    <2>2. QED
        BY <1>1, <1>2, <1>3, <2>1, FiberUnits
<1>0. ASSUME NEW s
      PROVE  /\ \A i \in DOMAIN a : ~In(a[i], S("term", s))
             /\ \A i \in DOMAIN b : In(b[i], S("term", s)) => s \in Range(fibers)
    <2>1. \A i \in DOMAIN fibers : fibers[i] \in Range(fibers)
        BY DEF Range
    <2> HIDE DEF a, b
    <2>2. QED
        BY <1>1, <1>2, <1>3, <2>1, FiberUnits
<1> HIDE DEF a, b, c
<1>7. /\ CchTeardown \in Seq(TearUnit)
      /\ \A i \in DOMAIN a : \E k \in DOMAIN CchTeardown : CchTeardown[k] = a[i]
      /\ \A k \in DOMAIN CchTeardown : \/ \E i \in DOMAIN a : CchTeardown[k] = a[i]
                                       \/ \E i \in DOMAIN b : CchTeardown[k] = b[i]
    <2>1. a \in Seq(TearUnit) /\ b \in Seq(TearUnit)
        BY <1>2, <1>3
    <2>2. Joins(a \o b, a, b)
        BY <2>1, Appended
    <2>3. QED
        BY <1>5, <2>2 DEF Joins
<1>8. /\ SharedTeardown \in Seq(TearUnit)
      /\ \A i \in DOMAIN b : \E k \in DOMAIN SharedTeardown : SharedTeardown[k] = b[i]
      /\ \A i \in DOMAIN c : \E k \in DOMAIN SharedTeardown : SharedTeardown[k] = c[i]
    <2>1. b \in Seq(TearUnit) /\ c \in Seq(TearUnit)
        BY <1>3, <1>4
    <2>2. Joins(b \o c, b, c)
        BY <2>1, Appended
    <2>3. QED
        BY <1>5, <2>2 DEF Joins
<1>9. ASSUME NEW s \in Range(fibers)
      PROVE  /\ \E i \in DOMAIN CchTeardown : KillsThenCleans(CchTeardown[i], s)
             /\ \E i \in DOMAIN SharedTeardown : In(SharedTeardown[i], S("term", s))
    BY <1>6, <1>7, <1>8
<1>10. /\ \E i \in DOMAIN SharedTeardown : In(SharedTeardown[i], S("term", "ckb"))
       /\ \E i \in DOMAIN SharedTeardown : In(SharedTeardown[i], S("stop_miner", "miner"))
    BY <1>4, <1>8, CkbUnit
<1>11. ASSUME NEW s
       PROVE  \A i \in DOMAIN CchTeardown : In(CchTeardown[i], S("term", s)) => s \in Range(fibers)
    BY <1>0, <1>7
<1>12. QED
    BY <1>0, <1>2, <1>6, <1>7, <1>8, <1>9, <1>10, <1>11 DEF a

\* Every resource of a cch class is stopped and cleaned.
LEMMA CleanupFits ==
    ASSUME made \subseteq Owned
    PROVE  /\ CleanupUnits \in Seq(TearUnit)
           /\ \A i \in DOMAIN CleanupUnits : SameOrSure(CleanupUnits[i])
           /\ \A s \in made \cup {"ckb"} :
                 /\ \E i \in DOMAIN CleanupUnits : In(CleanupUnits[i], StopStep(s))
                 /\ \E i \in DOMAIN CleanupUnits : In(CleanupUnits[i], S("clean", s))
           /\ \E i \in DOMAIN CleanupUnits : In(CleanupUnits[i], S("stop_miner", "miner"))
<1> DEFINE R == Owned \cup {"ckb"}
           Made(s) == IF s \in made THEN <<s>> ELSE <<>>
           all == Made("lnd0") \o Made("lnd1") \o Made("lnd2") \o Made("btc") \o <<"ckb">>
           a == [i \in DOMAIN all |-> StopOf(all[i])]
           b == [i \in DOMAIN all |-> <<S("clean", all[i])>>]
<1>1. CleanupUnits = a \o b
    BY DEF CleanupUnits
<1>2. \A s \in R : Made(s) \in Seq(R) /\ Range(Made(s)) = {s} \cap made
    <2> SUFFICES ASSUME NEW s \in R
                 PROVE  Made(s) \in Seq(R) /\ Range(Made(s)) = {s} \cap made
        OBVIOUS
    <2>1. CASE s \in made
        <3>1. Made(s) = <<s>> /\ Range(<<s>>) = {s}
            BY <2>1 DEF Range
        <3>2. QED
            BY <2>1, <3>1
    <2>2. CASE s \notin made
        <3>1. Made(s) = <<>> /\ Range(<<>>) = {}
            BY <2>2 DEF Range
        <3>2. QED
            BY <2>2, <3>1
    <2>3. QED
        BY <2>1, <2>2
<1>3. <<"ckb">> \in Seq(R) /\ Range(<<"ckb">>) = {"ckb"}
    BY DEF Range
<1>4. all \in Seq(R) /\ Range(all) = made \cup {"ckb"}
    <2>1. "lnd0" \in R /\ "lnd1" \in R /\ "lnd2" \in R /\ "btc" \in R
        BY DEF Owned, Lnds
    <2> DEFINE x0 == Made("lnd0")
               x1 == x0 \o Made("lnd1")
               x2 == x1 \o Made("lnd2")
               x3 == x2 \o Made("btc")
    <2>2. x0 \in Seq(R) /\ Range(x0) = {"lnd0"} \cap made
        BY <1>2, <2>1
    <2> HIDE DEF Made, R
    <2>3. ASSUME NEW x \in Seq(R), NEW s \in R
          PROVE  /\ x \o Made(s) \in Seq(R)
                 /\ Range(x \o Made(s)) = Range(x) \cup ({s} \cap made)
        <3> DEFINE y == Made(s)
        <3>1. y \in Seq(R) /\ Range(y) = {s} \cap made
            BY <1>2
        <3> HIDE DEF y
        <3>2. x \o y \in Seq(R) /\ Range(x \o y) = Range(x) \cup Range(y)
            BY <3>1, ConcatProperties, RangeConcatenation
        <3>3. QED
            BY <3>1, <3>2 DEF y
    <2> HIDE DEF x0
    <2>4. x1 \in Seq(R) /\ Range(x1) = {"lnd0", "lnd1"} \cap made
        BY <2>1, <2>2, <2>3
    <2> HIDE DEF x1
    <2>5. x2 \in Seq(R) /\ Range(x2) = {"lnd0", "lnd1", "lnd2"} \cap made
        BY <2>1, <2>3, <2>4
    <2> HIDE DEF x2
    <2>6. x3 \in Seq(R) /\ Range(x3) = {"lnd0", "lnd1", "lnd2", "btc"} \cap made
        BY <2>1, <2>3, <2>5
    <2>7. all = x3 \o <<"ckb">>
        BY DEF x3, x2, x1, x0
    <2> DEFINE y == <<"ckb">>
    <2> HIDE DEF x3, y, all
    <2>8. x3 \o y \in Seq(R) /\ Range(x3 \o y) = Range(x3) \cup Range(y)
        <3>1. x3 \in Seq(R) /\ y \in Seq(R)
            BY <1>3, <2>6 DEF y
        <3>2. QED
            BY <3>1, ConcatProperties, RangeConcatenation
    <2>9. Range(all) = ({"lnd0", "lnd1", "lnd2", "btc"} \cap made) \cup {"ckb"}
        BY <1>3, <2>6, <2>7, <2>8 DEF y
    <2>10. QED
        BY <2>7, <2>8, <2>9 DEF y, Owned, Lnds
<1> HIDE DEF all
<1>5. /\ Len(all) \in Nat /\ DOMAIN all = 1 .. Len(all)
      /\ \A i \in DOMAIN all : all[i] \in R
    BY <1>4
<1>6. /\ a \in Seq(TearUnit) /\ b \in Seq(TearUnit) /\ DOMAIN a = DOMAIN all /\ DOMAIN b = DOMAIN all
      /\ \A i \in DOMAIN all : a[i] = StopOf(all[i]) /\ b[i] = <<S("clean", all[i])>>
    <2>1. ASSUME NEW i \in DOMAIN all
          PROVE  StopOf(all[i]) \in TearUnit /\ <<S("clean", all[i])>> \in TearUnit
        BY <1>5, ResourceUnits
    <2>2. a \in [1 .. Len(all) -> TearUnit] /\ b \in [1 .. Len(all) -> TearUnit]
        BY <1>5, <2>1
    <2>3. a \in Seq(TearUnit) /\ b \in Seq(TearUnit)
        BY <1>5, <2>2
    <2>4. QED
        BY <2>3
<1> HIDE DEF a, b
<1>7. /\ CleanupUnits \in Seq(TearUnit)
      /\ \A i \in DOMAIN a : \E k \in DOMAIN CleanupUnits : CleanupUnits[k] = a[i]
      /\ \A i \in DOMAIN b : \E k \in DOMAIN CleanupUnits : CleanupUnits[k] = b[i]
      /\ \A k \in DOMAIN CleanupUnits : \/ \E i \in DOMAIN a : CleanupUnits[k] = a[i]
                                        \/ \E i \in DOMAIN b : CleanupUnits[k] = b[i]
    <2>1. a \in Seq(TearUnit) /\ b \in Seq(TearUnit)
        BY <1>6
    <2>2. Joins(a \o b, a, b)
        BY <2>1, Appended
    <2>3. QED
        BY <1>1, <2>2 DEF Joins
<1>8. \A i \in DOMAIN CleanupUnits : SameOrSure(CleanupUnits[i])
    <2>1. \A i \in DOMAIN all : SameOrSure(a[i]) /\ SameOrSure(b[i])
        BY <1>5, <1>6, ResourceUnits
    <2>2. QED
        BY <1>6, <1>7, <2>1
<1>9. ASSUME NEW s \in made \cup {"ckb"}
      PROVE  /\ \E i \in DOMAIN CleanupUnits : In(CleanupUnits[i], StopStep(s))
             /\ \E i \in DOMAIN CleanupUnits : In(CleanupUnits[i], S("clean", s))
             /\ s = "ckb" => \E i \in DOMAIN CleanupUnits :
                                In(CleanupUnits[i], S("stop_miner", "miner"))
    <2>1. PICK i \in DOMAIN all : all[i] = s
        BY <1>4, <1>9 DEF Range
    <2>2. /\ In(a[i], StopStep(s)) /\ In(b[i], S("clean", s))
          /\ s = "ckb" => In(a[i], S("stop_miner", "miner"))
        BY <1>5, <1>6, <2>1, ResourceUnits
    <2>3. QED
        BY <1>6, <1>7, <2>2
<1>10. QED
    BY <1>7, <1>8, <1>9

-----------------------------------------------------------------------------
(* The inductive invariant *)

Working == {"setup_class", "setup_method", "body"}
Tearing == {"teardown_method", "teardown_class", "cleanup"}

TypeInv ==
    /\ HarnessTypeOK /\ DirInv
    /\ fibers \in Seq(Fibers) /\ todo \in Seq(UnitSet)

\* What the stages stand for.
StageInv ==
    /\ stage \in {"start", "ended"} => todo = <<>>
    /\ stage = "start" => /\ fibers = <<>> /\ made = {} /\ redirected = FALSE
                          /\ \A s \in Slots : ~Alive(s)
                          /\ \A s \in Fibers : ~Held(s)
    /\ stage \in Working => Len(todo) <= 1
    /\ stage = "setup_class" /\ suite # "shared" =>
          fibers = <<>> /\ \A s \in Fibers : ~In(Plan, S("track", s))
    /\ raised => stage \in failed
    /\ stage = "cleanup" => "setup_class" \in failed /\ suite = "cch" /\ ~Debugged
    /\ stage = "ended" /\ redirected => "setup_class" \in failed
    /\ suite = "shared" /\ stage \in {"setup_method", "teardown_method"} => todo = <<>>
    /\ stage \in Tearing => todo \in Seq(TearUnit)
    /\ stage = "teardown_method" =>
          \A s \in Fibers : Pending(S("term", s)) => s \in Range(fibers)

\* What is left of a setup or a body fits the lists.
PlanInv ==
    stage \in Working =>
        /\ Fits(Plan, Range(fibers), made)
        /\ \A s \in Owned : In(Plan, S("make", s)) => suite = "cch"

\* A body finds the nodes its setup was to start in the list.
KeptInv ==
    /\ /\ ~raised
       /\ \/ stage = "setup_method" /\ suite # "shared"
          \/ stage = "setup_class" /\ suite = "shared"
       => \A s \in Kept : /\ ~In(Plan, S("untrack", s))
                          /\ s \in Range(fibers) \/ In(Plan, S("track", s))
    /\ \/ stage = "body"
       \/ stage \in {"setup_method", "teardown_method"} /\ suite = "shared"
       => Kept \subseteq Range(fibers)
    /\ stage = "body" => \A s \in Fibers : ~In(Plan, S("untrack", s))

\* A node that runs or flushes is in the list.  Its method started it, no step
\* starts it again before the store is unlocked, and it leaves the list dead.
FiberWorking(s) ==
    /\ Alive(s) \/ Held(s) => s \in Range(fibers)
    /\ Alive(s) /\ suite # "shared" => born[s] = method
    /\ Held(s) => /\ Before(Plan, S("await_unlocked", s), S("spawn", s))
                  /\ Before(Plan, S("clean", s), S("untrack", s))
    /\ Running(s) => Before(Plan, S("kill", s), S("untrack", s))

\* The teardown of a method has yet to kill what runs and to clean what flushes.
FiberTearing(s) ==
    /\ Alive(s) \/ Held(s) => s \in Range(fibers)
    /\ suite # "shared" => /\ Alive(s) => born[s] = method
                           /\ Running(s) /\ s \in Range(fibers) => KillPending(s)
                           /\ Held(s) => Pending(S("clean", s))

FiberInv ==
    ~Debugged => \A s \in Fibers : ~LostTrack(s) =>
        /\ stage \in Working => FiberWorking(s)
        /\ stage = "teardown_method" => FiberTearing(s)
        /\ stage = "teardown_class" /\ Alive(s) =>
              suite = "shared" /\ Pending(S("term", s))
        /\ stage = "ended" => ~Alive(s)

\* What a class has made of resources it has yet to stop and to clean.
ResourceInv ==
    /\ \A s \in Owned : Alive(s) => s \in made
    /\ made # {} => suite = "cch"
    /\ Collecting => \A i \in DOMAIN todo : SameOrSure(todo[i])
    /\ ~Debugged =>
         /\ Collecting =>
              /\ \A s \in made \cup {"ckb"} :
                    Alive(s) => s \in errors \cup missed \/ Pending(StopStep(s))
              /\ \A s \in made : dir[s] => s \in errors \/ Pending(S("clean", s))
         /\ stage = "teardown_class" =>
              /\ suite # "cch" /\ Alive("ckb") => LostTrack("ckb") \/ Pending(S("term", "ckb"))
              /\ MinerLoose => LostTrack("miner") \/ Pending(S("stop_miner", "miner"))

IInv == TypeInv /\ StageInv /\ PlanInv /\ KeptInv /\ FiberInv /\ ResourceInv /\ LeaksAreReported

-----------------------------------------------------------------------------
(* A step of a stage *)

\* The step that runs.
Now == Head(Head(todo))

\* What a step does to the lists.
Listed(st) ==
    \/ /\ st.op \notin {"track", "untrack", "make"}
       /\ UNCHANGED <<fibers, made>>
    \/ st.op = "track" /\ fibers' = Append(fibers, st.on) /\ made' = made
    \/ /\ st.op = "untrack" /\ made' = made
       /\ \E i \in DOMAIN fibers : fibers[i] = st.on /\ fibers' = RemoveAt(fibers, i)
    \/ st.op = "make" /\ made' = made \cup {st.on} /\ fibers' = fibers

LEMMA StepFacts ==
    ASSUME TypeInv, Step
    PROVE  /\ todo # <<>> /\ Head(todo) \in UnitSet /\ Now \in StepSet
           /\ ProcTypeOK' /\ DirInv' /\ method \in Nat
           /\ UNCHANGED <<control, redirected>>
           /\ \A s \in Slots : Moved(Now, s)
           /\ \/ Return /\ Listed(Now) /\ \A s \in Slots : Worked(Now, s)
              \/ /\ Raise(Now.on) /\ UNCHANGED <<fibers, made>>
                 /\ Now.op \notin {"kill", "term", "spawn", "start_miner", "stop_miner",
                                "track", "untrack", "make"}
           /\ failed \subseteq failed' /\ errors \subseteq errors' /\ missed \subseteq missed'
<1>0. todo # <<>> /\ UNCHANGED <<control, redirected>>
    BY DEF Step
<1>1. \/ /\ \E ok \in BOOLEAN : /\ ProcStep(Now.op, Now.on, ok)
                                /\ IF ok THEN Return ELSE Raise(Now.on)
         /\ UNCHANGED <<fibers, made>>
      \/ ListStep(Now.op, Now.on) /\ Return /\ UNCHANGED procVars
    BY DEF Step, Now
<1>2. /\ ProcTypeOK /\ DirInv /\ todo \in Seq(UnitSet) /\ method \in Nat
    <2>1. method \in 0 .. MaxMethods[suite] /\ MaxMethods[suite] \in Nat
        BY HarnessAssumption DEF TypeInv, HarnessTypeOK
    <2>2. QED
        BY <2>1 DEF TypeInv, HarnessTypeOK
<1>3. Head(todo) \in UnitSet /\ Now \in StepSet
    BY <1>0, <1>2 DEF UnitSet, Now
<1>4. CASE /\ \E ok \in BOOLEAN : /\ ProcStep(Now.op, Now.on, ok)
                                  /\ IF ok THEN Return ELSE Raise(Now.on)
           /\ UNCHANGED <<fibers, made>>
    <2>1. PICK ok \in BOOLEAN : /\ ProcStep(Now.op, Now.on, ok)
                                /\ IF ok THEN Return ELSE Raise(Now.on)
        BY <1>4
    <2>2. ProcTypeOK' /\ DirInv' /\ \A s \in Slots : Moved(Now, s)
        BY <1>2, <1>3, <2>1, ProcStepTypes, ProcStepMoves
    <2>3. Now.op \notin {"track", "untrack", "make"}
        BY <2>1 DEF ProcStep
    <2>4. missed \subseteq missed'
        BY <2>2 DEF Moved, Slots
    <2>5. CASE ok
        <3>1. Return /\ Listed(Now)
            BY <1>4, <2>1, <2>3, <2>5 DEF Listed
        <3>2. ProcStep(Now.op, Now.on, TRUE)
            BY <2>1, <2>5
        <3>3. \A s \in Slots : Worked(Now, s)
            BY <1>2, <1>3, <3>2, ProcStepWorks
        <3>4. failed' = failed /\ errors' = errors
            BY <3>1 DEF Return
        <3>5. QED
            BY <1>0, <1>2, <1>3, <2>2, <2>4, <3>1, <3>3, <3>4
    <2>6. CASE ~ok
        <3>1. Raise(Now.on) /\ Now.op \notin {"kill", "term", "spawn", "start_miner", "stop_miner"}
            BY <1>3, <2>1, <2>6, MustReturn
        <3>2. failed \subseteq failed' /\ errors \subseteq errors'
            BY <3>1 DEF Raise
        <3>3. UNCHANGED <<fibers, made>>
            BY <1>4
        <3>4. Now.op \notin {"kill", "term", "spawn", "start_miner", "stop_miner",
                                "track", "untrack", "make"}
            BY <2>3, <3>1
        <3>5. QED
            BY <1>0, <1>2, <1>3, <2>2, <2>4, <3>1, <3>2, <3>3, <3>4
    <2>7. QED
        BY <2>5, <2>6
<1>5. CASE ListStep(Now.op, Now.on) /\ Return /\ UNCHANGED procVars
    <2>1. Now.op \in {"track", "untrack", "make"} /\ Listed(Now)
        BY <1>5 DEF ListStep, Listed
    <2>2. ProcTypeOK' /\ DirInv' /\ missed' = missed
        BY <1>2, <1>5 DEF procVars, ProcTypeOK, DirInv, MinerLoose, Alive, Running
    <2>3. \A o, q : Now = S(o, q) <=> Now.op = o /\ Now.on = q
        BY <1>3, StepIs
    <2>4. ASSUME NEW s \in Slots PROVE Moved(Now, s) /\ Worked(Now, s)
        BY <1>5, <2>1, <2>3 DEF procVars, Moved, Worked, MinerLoose, Alive, Running, Held
    <2>5. QED
        BY <1>0, <1>2, <1>3, <1>5, <2>1, <2>2, <2>4 DEF Return
<1>6. QED
    BY <1>1, <1>4, <1>5

\* The list after a step.
LEMMA ListMoves ==
    ASSUME fibers \in Seq(Fibers), IsInjective(fibers), NEW st \in StepSet, Listed(st),
           st.op = "track" => st.on \notin Range(fibers)
    PROVE  /\ fibers' \in Seq(Fibers) /\ IsInjective(fibers')
           /\ \/ Range(fibers') = Range(fibers) /\ st.op \notin {"track", "untrack"}
              \/ Range(fibers') = Range(fibers) \cup {st.on} /\ st.op = "track"
              \/ /\ Range(fibers') \cup {st.on} = Range(fibers) /\ st.op = "untrack"
                 /\ st.on \notin Range(fibers')
<1>1. /\ Len(fibers) \in Nat /\ DOMAIN fibers = 1 .. Len(fibers)
      /\ \A i, j \in DOMAIN fibers : fibers[i] = fibers[j] => i = j
      /\ \A i \in DOMAIN fibers : fibers[i] \in Fibers
    BY DEF IsInjective
<1>2. CASE st.op = "track"
    <2>1. fibers' = Append(fibers, st.on) /\ st.on \in Fibers /\ st.on \notin Range(fibers)
        BY <1>2, StepIs DEF Listed
    <2>2. /\ fibers' \in Seq(Fibers) /\ Len(fibers') = Len(fibers) + 1
          /\ DOMAIN fibers' = 1 .. Len(fibers) + 1
          /\ \A i \in DOMAIN fibers : fibers'[i] = fibers[i]
          /\ fibers'[Len(fibers) + 1] = st.on
        BY <1>1, <2>1
    <2>3. \A i \in DOMAIN fibers : fibers[i] # st.on
        BY <2>1 DEF Range
    <2>4. \A i \in DOMAIN fibers' : i \in DOMAIN fibers \/ i = Len(fibers) + 1
        BY <1>1, <2>2
    <2>5. IsInjective(fibers')
        BY <1>1, <2>2, <2>3, <2>4 DEF IsInjective
    <2>6. Range(fibers') = Range(fibers) \cup {st.on}
        BY <1>1, <2>2, <2>4 DEF Range
    <2>7. QED
        BY <1>2, <2>2, <2>5, <2>6
<1>3. CASE st.op = "untrack"
    <2>1. PICK i \in DOMAIN fibers : fibers[i] = st.on /\ fibers' = RemoveAt(fibers, i)
        BY <1>3 DEF Listed
    <2>2. /\ fibers' \in Seq(Fibers) /\ DOMAIN fibers' = 1 .. Len(fibers) - 1
          /\ \A k \in 1 .. Len(fibers) - 1 : fibers'[k] = IF k < i THEN fibers[k] ELSE fibers[k + 1]
        <3> DEFINE a == SubSeq(fibers, 1, i - 1)
                   b == SubSeq(fibers, i + 1, Len(fibers))
        <3>1. fibers' = a \o b /\ i \in 1 .. Len(fibers)
            BY <1>1, <2>1 DEF RemoveAt
        <3>2. /\ a \in Seq(Fibers) /\ Len(a) = i - 1
              /\ \A k \in 1 .. i - 1 : a[k] = fibers[k]
            BY <1>1, <3>1
        <3>3. /\ b \in Seq(Fibers) /\ Len(b) = Len(fibers) - i
              /\ \A k \in 1 .. Len(fibers) - i : b[k] = fibers[i + k]
            BY <1>1, <3>1, SMTT(30)
        <3> HIDE DEF a, b
        <3>4. /\ a \o b \in Seq(Fibers) /\ Len(a \o b) = Len(a) + Len(b)
              /\ \A k \in 1 .. Len(a) + Len(b) :
                    (a \o b)[k] = IF k <= Len(a) THEN a[k] ELSE b[k - Len(a)]
            BY <3>2, <3>3, ConcatProperties
        <3>5. fibers' \in Seq(Fibers) /\ Len(fibers') = Len(fibers) - 1
            BY <1>1, <3>1, <3>2, <3>3, <3>4
        <3>6. DOMAIN fibers' = 1 .. Len(fibers) - 1
            BY <3>5
        <3>7. \A k \in 1 .. Len(fibers) - 1 : fibers'[k] = IF k <= i - 1 THEN a[k] ELSE b[k - (i - 1)]
            BY <1>1, <3>1, <3>2, <3>3, <3>4
        <3>8. ASSUME NEW k \in 1 .. Len(fibers) - 1
              PROVE  fibers'[k] = IF k < i THEN fibers[k] ELSE fibers[k + 1]
            <4>1. CASE k < i
                BY <1>1, <3>1, <3>2, <3>7, <4>1
            <4>2. CASE ~(k < i)
                <5>1. k - (i - 1) \in 1 .. Len(fibers) - i /\ i + (k - (i - 1)) = k + 1
                    BY <1>1, <3>1, <4>2
                <5>2. b[k - (i - 1)] = fibers[k + 1]
                    BY <3>3, <5>1
                <5>3. fibers'[k] = IF k <= i - 1 THEN a[k] ELSE b[k - (i - 1)]
                    BY <3>7
                <5>4. ~(k <= i - 1)
                    BY <1>1, <3>1, <4>2
                <5>5. QED
                    BY <4>2, <5>2, <5>3, <5>4
            <4>3. QED
                BY <4>1, <4>2
        <3>9. QED
            BY <3>5, <3>6, <3>8
    <2>3. ASSUME NEW k \in DOMAIN fibers'
          PROVE  \E j \in DOMAIN fibers :
                    j # i /\ fibers'[k] = fibers[j] /\ j = (IF k < i THEN k ELSE k + 1)
        BY <1>1, <2>1, <2>2
    <2>4. ASSUME NEW j \in DOMAIN fibers, j # i
          PROVE  \E k \in DOMAIN fibers' : fibers'[k] = fibers[j]
        <3>1. CASE j < i
            BY <1>1, <2>1, <2>2, <3>1
        <3>2. CASE j > i
            <4>1. j - 1 \in DOMAIN fibers' /\ fibers'[j - 1] = fibers[j]
                BY <1>1, <2>1, <2>2, <3>2
            <4>2. QED
                BY <4>1
        <3>3. QED
            BY <1>1, <2>1, <2>4, <3>1, <3>2
    <2>5. IsInjective(fibers')
        <3>1. ASSUME NEW k \in DOMAIN fibers', NEW l \in DOMAIN fibers', fibers'[k] = fibers'[l]
              PROVE  k = l
            <4>1. PICK a \in DOMAIN fibers : fibers'[k] = fibers[a] /\ a = (IF k < i THEN k ELSE k + 1)
                BY <2>3
            <4>2. PICK b \in DOMAIN fibers : fibers'[l] = fibers[b] /\ b = (IF l < i THEN l ELSE l + 1)
                BY <2>3
            <4>3. a = b
                BY <1>1, <3>1, <4>1, <4>2
            <4>4. QED
                BY <1>1, <2>1, <2>2, <4>1, <4>2, <4>3
        <3>2. QED
            BY <3>1 DEF IsInjective
    <2>6. Range(fibers') = Range(fibers) \ {st.on} /\ st.on \in Range(fibers)
        BY <1>1, <2>1, <2>3, <2>4 DEF Range
    <2>7. QED
        BY <1>3, <2>2, <2>5, <2>6
<1>4. CASE st.op \notin {"track", "untrack"}
    BY <1>4 DEF Listed
<1>5. QED
    BY <1>2, <1>3, <1>4

\* Where a step can run, and what it does to the plan and to what is still to come.
StepOf(st) ==
    /\ st \in StepSet /\ todo # <<>> /\ Head(todo) \in UnitSet /\ st = Head(Head(todo))
    /\ \/ /\ stage \in Working /\ Len(todo) <= 1
          /\ Plan \in Seq(StepSet) /\ Plan # <<>> /\ st = Head(Plan)
          /\ Fits(Plan, Range(fibers), made)
       \/ /\ stage \in Tearing /\ st.op \in TearOps /\ todo \in Seq(TearUnit)
          /\ UNCHANGED <<fibers, made>>
    /\ \/ Range(fibers') = Range(fibers) /\ st.op \notin {"track", "untrack"}
       \/ Range(fibers') = Range(fibers) \cup {st.on} /\ st.op = "track"
       \/ /\ Range(fibers') \cup {st.on} = Range(fibers) /\ st.op = "untrack"
          /\ st.on \notin Range(fibers')
    /\ \/ made' = made /\ st.op # "make"
       \/ made' = made \cup {st.on} /\ st.op = "make"

LEMMA Stepping ==
    ASSUME IInv, Step
    PROVE  /\ StepOf(Now)
           /\ fibers' \in Seq(Fibers) /\ IsInjective(fibers')
<1>1. /\ TypeInv /\ todo # <<>> /\ Head(todo) \in UnitSet /\ Now \in StepSet
      /\ fibers \in Seq(Fibers) /\ IsInjective(fibers) /\ todo \in Seq(UnitSet)
    <2>1. TypeInv
        BY DEF IInv
    <2>2. QED
        BY <2>1, StepFacts DEF TypeInv, HarnessTypeOK
<1>2. stage \in Working \/ stage \in Tearing
    <2>1. stage \in Stages /\ stage \notin {"start", "ended"}
        BY <1>1 DEF IInv, TypeInv, StageInv, HarnessTypeOK
    <2>2. QED
        BY <2>1 DEF Stages, Working, Tearing
<1>3. ASSUME stage \in Working
      PROVE  /\ Len(todo) <= 1 /\ Plan \in Seq(StepSet) /\ Plan # <<>> /\ Now = Head(Plan)
             /\ Fits(Plan, Range(fibers), made)
    <2>1. Plan = Head(todo) /\ Plan \in Seq(StepSet) /\ Plan # <<>>
        BY <1>1 DEF Plan, UnitSet
    <2>2. Len(todo) <= 1 /\ Fits(Plan, Range(fibers), made)
        BY <1>3 DEF IInv, StageInv, PlanInv
    <2>3. QED
        BY <2>1, <2>2 DEF Now
<1>4. ASSUME stage \in Tearing
      PROVE  todo \in Seq(TearUnit) /\ Now.op \in TearOps
    <2>1. todo \in Seq(TearUnit)
        BY <1>4 DEF IInv, StageInv
    <2>2. Head(todo) \in TearUnit
        BY <1>1, <2>1
    <2>3. Head(todo) \in Seq(StepSet) /\ Head(todo) # <<>> /\ 1 \in DOMAIN Head(todo)
          /\ Now = Head(todo)[1]
        BY <2>2 DEF TearUnit, UnitSet, Now
    <2>4. QED
        BY <2>1, <2>2, <2>3 DEF TearUnit
<1>5. Now.op = "track" => Now.on \notin Range(fibers)
    <2>1. ASSUME stage \in Working, Now.op = "track", Now.on \in Range(fibers) PROVE FALSE
        <3>1. Now = S("track", Now.on)
            BY <1>1, <2>1, StepIs
        <3>2. In(Plan, S("track", Now.on))
            BY <1>3, <2>1, <3>1, TailOrder
        <3>3. QED
            BY <1>3, <2>1, <3>2 DEF Fits
    <2>2. stage \in Tearing => Now.op # "track"
        BY <1>4 DEF TearOps
    <2>3. QED
        BY <1>2, <2>1, <2>2
<1>6. CASE Listed(Now)
    <2>1. /\ fibers' \in Seq(Fibers) /\ IsInjective(fibers')
          /\ \/ Range(fibers') = Range(fibers) /\ Now.op \notin {"track", "untrack"}
             \/ Range(fibers') = Range(fibers) \cup {Now.on} /\ Now.op = "track"
             \/ /\ Range(fibers') \cup {Now.on} = Range(fibers) /\ Now.op = "untrack"
                /\ Now.on \notin Range(fibers')
        BY <1>1, <1>5, <1>6, ListMoves
    <2>2. \/ made' = made /\ Now.op # "make"
          \/ made' = made \cup {Now.on} /\ Now.op = "make"
        BY <1>6 DEF Listed
    <2>3. stage \in Tearing => UNCHANGED <<fibers, made>>
        BY <1>4, <1>6 DEF Listed, TearOps
    <2>4. QED
        BY <1>1, <1>2, <1>3, <1>4, <2>1, <2>2, <2>3 DEF StepOf, Now
<1>7. CASE UNCHANGED <<fibers, made>> /\ Now.op \notin {"track", "untrack", "make"}
    <2>1. Range(fibers') = Range(fibers) /\ made' = made /\ fibers' = fibers
        BY <1>7
    <2>2. QED
        BY <1>1, <1>2, <1>3, <1>4, <1>7, <2>1 DEF StepOf, Now
<1>8. QED
    BY <1>1, <1>6, <1>7, StepFacts

\* Nothing left to do fits any lists.
LEMMA NothingFits ==
    ASSUME NEW T, NEW M
    PROVE  /\ Fits(<<>>, T, M)
           /\ \A x : ~In(<<>>, x)
           /\ \A x, y : Before(<<>>, y, x)
<1>1. <<>> \in Seq(StepSet) /\ DOMAIN <<>> = {}
    OBVIOUS
<1>2. QED
    BY <1>1 DEF Fits, Ordered, Never, Between, Before, In

\* What a raise leaves to do.
LEMMA Raised ==
    ASSUME TypeInv, StepOf(Now), Raise(Now.on), UNCHANGED control
    PROVE  /\ todo' \in Seq(UnitSet) /\ Collecting' = Collecting
           /\ stage \in Working => ~Collecting
           /\ ~Collecting => todo' = <<>> /\ Plan' = <<>> /\ raised' /\ stage \in failed'
           /\ Collecting => /\ todo' = Tail(todo) /\ raised' = raised
                            /\ Now.on \in errors'
           /\ raised' \in BOOLEAN /\ failed' \subseteq Stages /\ errors' \subseteq Slots
<1>1. /\ todo \in Seq(UnitSet) /\ todo # <<>> /\ Now.on \in Slots /\ raised \in BOOLEAN
      /\ failed \subseteq Stages /\ errors \subseteq Slots /\ stage \in Stages
    <2>1. raised \in BOOLEAN
        BY Zenon DEF TypeInv, HarnessTypeOK
    <2>2. QED
        BY <2>1, StepIs DEF TypeInv, HarnessTypeOK, StepOf
<1>2. Collecting' = Collecting
    BY DEF control, Collecting
<1>3. stage \in Working => ~Collecting
    BY DEF Working, Collecting
<1>4. CASE Collecting
    BY <1>1, <1>2, <1>3, <1>4 DEF Raise
<1>5. CASE ~Collecting
    <2>1. todo' = <<>> /\ raised' = TRUE /\ failed' = failed \cup {stage} /\ errors' = errors
        BY <1>5 DEF Raise
    <2>2. Plan' = <<>>
        BY <2>1 DEF Plan
    <2>3. todo' \in Seq(UnitSet)
        BY <2>1
    <2>4. QED
        BY <1>1, <1>2, <1>3, <1>5, <2>1, <2>2, <2>3
<1>6. QED
    BY <1>4, <1>5

LEMMA StepTypes ==
    ASSUME IInv, Step
    PROVE  TypeInv'
<1>1. /\ TypeInv /\ StepOf(Now) /\ fibers' \in Seq(Fibers) /\ IsInjective(fibers')
      /\ ProcTypeOK' /\ DirInv' /\ UNCHANGED <<control, redirected>>
    BY Stepping, StepFacts DEF IInv
<1>2. /\ todo' \in Seq(UnitSet) /\ raised' \in BOOLEAN /\ failed' \subseteq Stages
      /\ errors' \subseteq Slots
    <2>1. CASE Return
        <3>1. raised' = raised /\ failed' = failed /\ errors' = errors
            BY <2>1 DEF Return
        <3>2. raised \in BOOLEAN
            BY <1>1, Zenon DEF TypeInv, HarnessTypeOK
        <3>3. todo' \in Seq(UnitSet)
            BY <1>1, <2>1, Returned DEF TypeInv, StepOf
        <3>4. QED
            BY <1>1, <3>1, <3>2, <3>3 DEF TypeInv, HarnessTypeOK
    <2>2. CASE Raise(Now.on)
        <3>1. UNCHANGED control
            BY <1>1
        <3>2. QED
            BY <1>1, <2>2, <3>1, Raised
    <2>3. QED
        BY <1>1, <2>1, <2>2, StepFacts
<1>3. /\ suite' \in Suites /\ stage' \in Stages /\ method' \in 0 .. MaxMethods[suite]'
      /\ debug' \in BOOLEAN /\ firstDebug' \in BOOLEAN /\ redirected' \in BOOLEAN
    <2>1. /\ debug \in BOOLEAN /\ firstDebug \in BOOLEAN /\ redirected \in BOOLEAN
          /\ suite \in Suites /\ stage \in Stages /\ method \in 0 .. MaxMethods[suite]
        BY <1>1, Zenon DEF TypeInv, HarnessTypeOK
    <2>2. QED
        BY <1>1, <2>1 DEF control
<1>4. made' \subseteq Owned
    <2>1. made \subseteq Owned
        BY <1>1 DEF TypeInv, HarnessTypeOK, Owned
    <2>2. Now.op = "make" => Now.on \in Owned
        BY <1>1, StepIs DEF StepOf
    <2>3. QED
        BY <1>1, <2>1, <2>2 DEF StepOf
<1>5. Range(fibers') \subseteq Fibers
    BY <1>1 DEF Range
<1>6. HarnessTypeOK'
    BY <1>1, <1>2, <1>3, <1>4, <1>5, Zenon DEF HarnessTypeOK, Owned
<1>7. QED
    BY <1>1, <1>2, <1>6 DEF TypeInv

\* A step that returns leaves the rest of the plan, or of the units of a teardown.
LEMMA ReturnedOf ==
    ASSUME TypeInv, StepOf(Now), Return, UNCHANGED control
    PROVE  /\ raised' = raised /\ errors' = errors /\ failed' = failed
           /\ todo' \in Seq(UnitSet)
           /\ stage \in Working => Len(todo') <= 1 /\ Plan' = Tail(Plan)
           /\ stage \in Tearing => todo' \in Seq(TearUnit)
           /\ \A i \in DOMAIN todo' : \E j \in DOMAIN todo :
                 todo'[i] = todo[j] \/ todo'[i] = Tail(todo[j])
           /\ \A x : Pending(x) => Pending(x)' \/ x = Now
           /\ \A x : Pending(x)' => Pending(x)
           /\ \A s : KillPending(s) => KillPending(s)' \/ Now = S("kill", s)
<1>1. todo \in Seq(UnitSet) /\ todo # <<>>
    BY DEF TypeInv, StepOf
<1>2. /\ todo' \in Seq(UnitSet)
      /\ Len(todo) <= 1 => Len(todo') <= 1 /\ Plan' = Tail(Plan)
      /\ \A i \in DOMAIN todo' : \E j \in DOMAIN todo :
            todo'[i] = todo[j] \/ todo'[i] = Tail(todo[j])
      /\ \A x : Pending(x) => Pending(x)' \/ x = Now
      /\ \A s : KillPending(s) => KillPending(s)' \/ Now = S("kill", s)
    BY <1>1, Returned DEF Now
<1>3. stage \in Working => Len(todo) <= 1
    BY DEF StepOf, Working, Tearing
<1>4. \A j \in DOMAIN todo : /\ todo[j] \in Seq(StepSet) /\ todo[j] # <<>>
                             /\ Tail(todo[j]) \in Seq(StepSet)
                             /\ \A x : In(Tail(todo[j]), x) => In(todo[j], x)
    <2>1. \A j \in DOMAIN todo : todo[j] \in Seq(StepSet) /\ todo[j] # <<>>
        BY <1>1 DEF UnitSet
    <2>2. QED
        BY <2>1, TailOrder
<1>5. \A x : Pending(x)' => Pending(x)
    BY <1>2, <1>4 DEF Pending
<1>6. ASSUME stage \in Tearing PROVE todo' \in Seq(TearUnit)
    <2>1. todo \in Seq(TearUnit)
        BY <1>6 DEF StepOf, Working, Tearing
    <2>2. ASSUME NEW i \in DOMAIN todo' PROVE todo'[i] \in TearUnit
        <3>1. PICK j \in DOMAIN todo : todo'[i] = todo[j] \/ todo'[i] = Tail(todo[j])
            BY <1>2
        <3>2. todo[j] \in TearUnit /\ todo'[i] \in UnitSet
            BY <1>2, <2>1
        <3>3. ASSUME todo'[i] = Tail(todo[j]), NEW k \in DOMAIN todo'[i]
              PROVE  todo'[i][k].op \in TearOps
            <4>1. todo[j] \in Seq(StepSet) /\ todo[j] # <<>>
                BY <1>4
            <4>2. k + 1 \in DOMAIN todo[j] /\ Tail(todo[j])[k] = todo[j][k + 1]
                BY <3>3, <4>1
            <4>3. QED
                BY <3>2, <3>3, <4>2 DEF TearUnit
        <3>4. QED
            BY <3>1, <3>2, <3>3 DEF TearUnit
    <2>3. QED
        BY <1>2, <2>2
<1>7. QED
    BY <1>2, <1>3, <1>5, <1>6 DEF Return

\* A step returns and moves the lists, or it raises.
LEMMA StepCases ==
    ASSUME IInv, Step
    PROVE  /\ TypeInv /\ StageInv /\ PlanInv /\ KeptInv /\ FiberInv /\ ResourceInv
           /\ TypeInv' /\ StepOf(Now)
           /\ UNCHANGED <<suite, debug, firstDebug, stage, method>> /\ UNCHANGED control
           /\ redirected' = redirected
           /\ \/ Return /\ Listed(Now) /\ \A s \in Slots : Worked(Now, s)
              \/ /\ Raise(Now.on) /\ UNCHANGED <<fibers, made>>
                 /\ Now.op \notin {"kill", "term", "spawn", "start_miner", "stop_miner"}
           /\ failed \subseteq failed' /\ errors \subseteq errors' /\ missed \subseteq missed'
           /\ \A s \in Slots : Moved(Now, s)
<1>1. TypeInv /\ StageInv /\ PlanInv /\ KeptInv /\ FiberInv /\ ResourceInv
    BY DEF IInv
<1>2. StepOf(Now) /\ TypeInv'
    BY Stepping, StepTypes
<1>3. /\ failed \subseteq failed' /\ errors \subseteq errors' /\ missed \subseteq missed'
      /\ UNCHANGED control /\ redirected' = redirected
      /\ \A s \in Slots : Moved(Now, s)
      /\ \/ Return /\ Listed(Now) /\ \A s \in Slots : Worked(Now, s)
         \/ /\ Raise(Now.on) /\ UNCHANGED <<fibers, made>>
            /\ Now.op \notin {"kill", "term", "spawn", "start_miner", "stop_miner"}
    BY <1>1, StepFacts
<1>4. UNCHANGED <<suite, debug, firstDebug, stage, method>>
    BY <1>3 DEF control
<1>5. QED
    BY <1>1, <1>2, <1>3, <1>4

LEMMA StepStage ==
    ASSUME IInv, Step
    PROVE  StageInv'
<1>1. /\ TypeInv /\ StageInv /\ StepOf(Now) /\ failed \subseteq failed'
      /\ UNCHANGED control /\ redirected' = redirected /\ TypeInv'
      /\ \/ Return /\ Listed(Now)
         \/ Raise(Now.on) /\ UNCHANGED <<fibers, made>>
    BY StepCases
<1>2. /\ UNCHANGED <<suite, debug, firstDebug, stage, method>>
      /\ stage' \notin {"start", "ended"} /\ (Debugged' <=> Debugged)
      /\ ~(suite' = "shared" /\ stage' \in {"setup_method", "teardown_method"})
    <2>1. UNCHANGED <<suite, debug, firstDebug, stage, method>>
        BY <1>1 DEF control
    <2>2. todo # <<>>
        BY <1>1 DEF StepOf
    <2>3. QED
        BY <1>1, <2>1, <2>2 DEF StageInv, Debugged
<1>3. raised' => stage' \in failed'
    <2>1. CASE Return
        BY <1>1, <1>2, <2>1 DEF Return, StageInv
    <2>2. CASE Raise(Now.on)
        BY <1>1, <1>2, <2>2, Raised DEF StageInv
    <2>3. QED
        BY <1>1, <2>1, <2>2
<1>4. stage' \in Working => Len(todo') <= 1
    <2>1. CASE Return
        BY <1>1, <1>2, <2>1, ReturnedOf
    <2>2. CASE Raise(Now.on)
        BY <1>1, <1>2, <2>2, Raised
    <2>3. QED
        BY <1>1, <2>1, <2>2
<1>5. ASSUME stage = "setup_class", suite # "shared"
      PROVE  fibers' = <<>> /\ \A s \in Fibers : ~In(Plan', S("track", s))
    <2>1. /\ fibers = <<>> /\ \A s \in Fibers : ~In(Plan, S("track", s))
          /\ stage \in Working /\ stage \notin Tearing
        BY <1>1, <1>5 DEF StageInv, Working, Tearing
    <2>2. Plan \in Seq(StepSet) /\ Plan # <<>> /\ Now = Head(Plan) /\ Now \in StepSet
        BY <1>1, <2>1 DEF StepOf
    <2>3. CASE Return /\ Listed(Now)
        <3>1. Plan' = Tail(Plan)
            BY <1>1, <2>1, <2>3, ReturnedOf
        <3>2. Now.op # "track"
            <4>1. In(Plan, Now)
                BY <2>2, TailOrder
            <4>2. QED
                BY <2>1, <2>2, <4>1, StepIs
        <3>3. DOMAIN fibers = {}
            BY <2>1
        <3>4. fibers' = fibers
            BY <2>3, <3>2, <3>3 DEF Listed
        <3>5. \A x : In(Plan', x) => In(Plan, x)
            BY <2>2, <3>1, TailOrder
        <3>6. QED
            BY <2>1, <3>4, <3>5
    <2>4. CASE Raise(Now.on) /\ UNCHANGED <<fibers, made>>
        <3>1. Plan' = <<>>
            BY <1>1, <2>1, <2>4, Raised
        <3>2. QED
            BY <2>1, <2>4, <3>1, NothingFits
    <2>5. QED
        BY <1>1, <2>3, <2>4
<1>6. ASSUME stage \in Tearing
      PROVE  todo' \in Seq(TearUnit) /\ fibers' = fibers /\ \A x : Pending(x)' => Pending(x)
    <2>1. todo \in Seq(TearUnit) /\ todo # <<>> /\ fibers' = fibers
        BY <1>1, <1>6 DEF StepOf, Working, Tearing
    <2>2. CASE Return
        BY <1>1, <1>6, <2>1, <2>2, ReturnedOf
    <2>3. CASE Raise(Now.on)
        <3>1. todo' = <<>> \/ todo' = Tail(todo)
            BY <1>1, <2>3, Raised
        <3>2. CASE todo' = <<>>
            BY <2>1, <3>2 DEF Pending
        <3>3. CASE todo' = Tail(todo)
            <4>1. todo' \in Seq(TearUnit)
                BY <2>1, <3>3
            <4>2. todo \in Seq(UnitSet)
                BY <1>1 DEF TypeInv
            <4>3. \A i \in DOMAIN todo' : i + 1 \in DOMAIN todo /\ todo'[i] = todo[i + 1]
                BY <2>1, <3>3, <4>2, Skipped
            <4>4. QED
                BY <2>1, <4>1, <4>3 DEF Pending
        <3>4. QED
            BY <3>1, <3>2, <3>3
    <2>4. QED
        BY <1>1, <2>2, <2>3
<1>7. stage = "cleanup" \/ stage = "teardown_method" => stage \in Tearing
    BY DEF Tearing
<1>8. QED
    BY <1>1, <1>2, <1>3, <1>4, <1>5, <1>6, <1>7 DEF StageInv

\* What is left of a plan still fits.
LEMMA StepPlan ==
    ASSUME IInv, Step
    PROVE  PlanInv' /\ KeptInv'
<1>1. /\ TypeInv /\ PlanInv /\ KeptInv /\ StageInv /\ StepOf(Now) /\ TypeInv'
      /\ UNCHANGED <<suite, debug, firstDebug, stage, method>> /\ UNCHANGED control
      /\ \/ Return /\ Listed(Now)
         \/ Raise(Now.on) /\ UNCHANGED <<fibers, made>>
    BY StepCases
<1>2. /\ Range(fibers) \in SUBSET Fibers /\ Range(fibers') \in SUBSET Fibers
      /\ made \in SUBSET Owned /\ made' \in SUBSET Owned
    BY <1>1 DEF TypeInv, HarnessTypeOK, Owned
<1>3. /\ Working' = Working /\ Kept' = Kept
      /\ ~(suite = "shared" /\ stage \in {"setup_method", "teardown_method"})
    <2>1. todo # <<>>
        BY <1>1 DEF StepOf
    <2>2. QED
        BY <1>1, <2>1 DEF Working, Kept, StageInv
<1>4. CASE stage \notin Working
    <2>1. stage' \notin {"setup_class", "setup_method", "body"}
        BY <1>1, <1>4 DEF Working
    <2>2. QED
        BY <1>1, <1>3, <2>1 DEF PlanInv, KeptInv, Working
<1>5. CASE stage \in Working /\ Raise(Now.on) /\ UNCHANGED <<fibers, made>>
    <2>1. Plan' = <<>> /\ raised'
        BY <1>1, <1>5, Raised
    <2>2. PlanInv'
        BY <2>1, NothingFits DEF PlanInv
    <2>3. KeptInv'
        BY <1>1, <1>3, <1>5, <2>1, NothingFits DEF KeptInv
    <2>4. QED
        BY <2>2, <2>3
<1>6. CASE stage \in Working /\ Return /\ Listed(Now)
    <2>1. /\ Plan' = Tail(Plan) /\ raised' = raised
          /\ Plan \in Seq(StepSet) /\ Plan # <<>> /\ Now = Head(Plan) /\ Now \in StepSet
          /\ Fits(Plan, Range(fibers), made)
        BY <1>1, <1>6, ReturnedOf DEF StepOf, Working, Tearing
    <2>2. \A x : /\ In(Plan', x) => In(Plan, x)
                 /\ In(Plan, x) => x = Now \/ In(Plan', x)
                 /\ In(Plan, Now)
        BY <2>1, TailOrder
    <2>3. Fits(Plan', Range(fibers'), made')
        <3>1. \/ Range(fibers') = Range(fibers) /\ Head(Plan).op \notin {"track", "untrack"}
              \/ Range(fibers') = Range(fibers) \cup {Head(Plan).on} /\ Head(Plan).op = "track"
              \/ Range(fibers') \cup {Head(Plan).on} = Range(fibers) /\ Head(Plan).op = "untrack"
            BY <1>1, <2>1 DEF StepOf
        <3>2. \/ made' = made /\ Head(Plan).op # "make"
              \/ made' = made \cup {Head(Plan).on} /\ Head(Plan).op = "make"
            BY <1>1, <2>1 DEF StepOf
        <3>3. PICK p : p = Plan
            OBVIOUS
        <3>4. Fits(Tail(p), Range(fibers'), made')
            BY <1>2, <2>1, <3>1, <3>2, <3>3, TailFits
        <3>5. QED
            BY <2>1, <3>3, <3>4
    <2>4. PlanInv'
        BY <1>1, <1>6, <2>2, <2>3 DEF PlanInv
    \* a node stays in the list, and one that is to enter it does
    <2>5. ASSUME NEW s, ~In(Plan, S("untrack", s)), s \in Range(fibers)
          PROVE  s \in Range(fibers')
        <3>1. Now # S("untrack", s)
            BY <2>2, <2>5
        <3>2. ~(Now.op = "untrack" /\ Now.on = s)
            BY <2>1, <3>1, StepIs
        <3>3. QED
            BY <1>1, <2>5, <3>2 DEF StepOf
    <2>6. ASSUME NEW s, In(Plan, S("track", s))
          PROVE  s \in Range(fibers') \/ In(Plan', S("track", s))
        <3>1. ASSUME Now = S("track", s) PROVE s \in Range(fibers')
            <4>1. Now.op = "track" /\ Now.on = s
                BY <3>1 DEF S
            <4>2. QED
                BY <1>1, <4>1 DEF StepOf
        <3>2. QED
            BY <2>2, <2>6, <3>1
    <2>7. KeptInv'
        <3>1. ASSUME ~raised', \/ stage = "setup_method" /\ suite # "shared"
                               \/ stage = "setup_class" /\ suite = "shared",
                     NEW s \in Kept
              PROVE  /\ ~In(Plan', S("untrack", s))
                     /\ s \in Range(fibers') \/ In(Plan', S("track", s))
            <4>1. ~In(Plan, S("untrack", s)) /\ (s \in Range(fibers) \/ In(Plan, S("track", s)))
                BY <1>1, <2>1, <3>1 DEF KeptInv
            <4>2. QED
                BY <2>2, <2>5, <2>6, <4>1
        <3>2. ASSUME stage = "body"
              PROVE  Kept \subseteq Range(fibers') /\ \A s \in Fibers : ~In(Plan', S("untrack", s))
            <4>1. Kept \subseteq Range(fibers) /\ \A s \in Fibers : ~In(Plan, S("untrack", s))
                BY <1>1, <3>2 DEF KeptInv
            <4>2. Range(fibers) \subseteq Fibers
                BY <1>2
            <4>3. QED
                BY <2>2, <2>5, <4>1, <4>2
        <3>3. suite' = suite /\ stage' = stage
            BY <1>1
        <3>4. /\ ~raised'
              /\ \/ stage' = "setup_method" /\ suite' # "shared"
                 \/ stage' = "setup_class" /\ suite' = "shared"
              => \A s \in Kept' : /\ ~In(Plan', S("untrack", s))
                                  /\ s \in Range(fibers') \/ In(Plan', S("track", s))
            BY <1>3, <3>1, <3>3
        <3>5. stage' = "body" => /\ Kept' \subseteq Range(fibers')
                                 /\ \A s \in Fibers : ~In(Plan', S("untrack", s))
            BY <1>3, <3>2, <3>3
        <3>6. ~(stage' \in {"setup_method", "teardown_method"} /\ suite' = "shared")
            BY <1>3, <3>3
        <3>7. QED
            BY <3>4, <3>5, <3>6 DEF KeptInv
    <2>8. QED
        BY <2>4, <2>7
<1>7. QED
    BY <1>1, <1>4, <1>5, <1>6

\* The nodes after a step.
LEMMA StepFibersWorking ==
    ASSUME IInv, Step, stage \in Working, ~Debugged, NEW s \in Fibers, ~LostTrack(s)'
    PROVE  FiberWorking(s)'
<1>1. /\ StepOf(Now) /\ FiberInv /\ TypeInv
      /\ UNCHANGED <<suite, debug, firstDebug, stage, method>> /\ UNCHANGED control
      /\ \/ Return /\ Listed(Now) /\ \A q \in Slots : Worked(Now, q)
         \/ Raise(Now.on) /\ UNCHANGED <<fibers, made>>
      /\ failed \subseteq failed' /\ missed \subseteq missed'
    BY StepCases
<1>2. /\ s \in Slots /\ s # "btc" /\ s # "miner" /\ Moved(Now, s)
    <2>1. s \in Slots /\ s # "btc" /\ s # "miner"
        BY DEF Fibers, Slots, Lnds
    <2>2. QED
        BY <1>1, <2>1, StepCases
<1>3. ~LostTrack(s) /\ s \notin missed'
    BY <1>1 DEF LostTrack
<1>4. FiberWorking(s)
    BY <1>1, <1>3 DEF FiberInv
<1>5. /\ Plan \in Seq(StepSet) /\ Plan # <<>> /\ Now = Head(Plan) /\ Now \in StepSet
      /\ Fits(Plan, Range(fibers), made)
    BY <1>1 DEF StepOf, Working, Tearing
<1>6. \A o, q : Now = S(o, q) <=> Now.op = o /\ Now.on = q
    BY <1>5, StepIs
<1>7. /\ Ordered(Plan)
      /\ s \notin Range(fibers) => /\ Before(Plan, S("track", s), S("spawn", s))
                                   /\ Before(Plan, S("track", s), S("term", s))
    BY <1>5 DEF Fits
\* only a node in the list is started or stopped
<1>8. Now \in {S("spawn", s), S("term", s)} => s \in Range(fibers)
    BY <1>5, <1>7, TailOrder
<1>9. /\ Running(s)' => \/ Running(s) /\ born'[s] = born[s]
                        \/ Now = S("spawn", s) /\ born'[s] = method
      /\ Held(s)' => Held(s) \/ (Now = S("term", s) /\ Running(s))
      /\ Now \in {S("kill", s), S("term", s)} => ~Running(s)'
    <2>1. Now.op \in {"start_btc", "start_miner"} => Now.on # s
        BY <1>2, <1>5, StepIs
    <2>2. QED
        BY <1>2, <1>3, <1>6, <2>1 DEF Moved
\* it leaves the list only when it is dead
<1>10. Now = S("untrack", s) => ~Running(s)' /\ ~Held(s)'
    <2>1. ASSUME Now = S("untrack", s) PROVE ~Running(s) /\ ~Held(s)
        <3>1. Running(s) => Before(Plan, S("kill", s), S("untrack", s))
            BY <1>4 DEF FiberWorking
        <3>2. Held(s) => Before(Plan, S("clean", s), S("untrack", s))
            BY <1>4 DEF FiberWorking
        <3>3. \A y : ~Before(Plan, y, S("untrack", s))
            BY <1>5, <2>1, TailOrder
        <3>4. QED
            BY <3>1, <3>2, <3>3
    <2>2. Now = S("untrack", s) => Now # S("spawn", s) /\ Now # S("term", s)
        BY <1>6
    <2>3. QED
        BY <1>9, <2>1, <2>2
<1>11. s \in Range(fibers) => s \in Range(fibers') \/ Now = S("untrack", s)
    BY <1>1, <1>6 DEF StepOf
<1>12. Alive(s)' => Running(s)' /\ (Alive(s) \/ Now = S("spawn", s))
    BY <1>9 DEF Alive
<1>13. Alive(s)' \/ Held(s)' => s \in Range(fibers')
    <2>1. Alive(s)' \/ Held(s)' => s \in Range(fibers)
        <3>1. Alive(s) \/ Held(s) => s \in Range(fibers)
            BY <1>4 DEF FiberWorking
        <3>2. Running(s)' => (Running(s) /\ born'[s] = born[s]) \/ Now = S("spawn", s)
            BY <1>9
        <3>3. QED
            BY <1>8, <1>9, <1>12, <3>1
    <2>2. QED
        BY <1>10, <1>11, <1>12, <2>1
<1>14. Alive(s)' /\ suite' # "shared" => born'[s] = method'
    BY <1>1, <1>4, <1>9 DEF Alive, FiberWorking
<1>15. CASE Raise(Now.on)
    <2>1. Plan' = <<>>
        BY <1>1, <1>15, Raised
    <2>2. /\ Before(Plan', S("await_unlocked", s), S("spawn", s))
          /\ Before(Plan', S("clean", s), S("untrack", s))
          /\ Before(Plan', S("kill", s), S("untrack", s))
        BY <2>1, NothingFits
    <2>3. QED
        BY <1>13, <1>14, <2>2 DEF FiberWorking
<1>16. CASE Return /\ \A q \in Slots : Worked(Now, q)
    <2>1. Plan' = Tail(Plan)
        BY <1>1, <1>16, ReturnedOf
    <2>2. ASSUME Held(s)'
          PROVE  /\ Before(Plan', S("await_unlocked", s), S("spawn", s))
                 /\ Before(Plan', S("clean", s), S("untrack", s))
        <3>1. CASE Held(s)
            <4>1. Now # S("await_unlocked", s) /\ Now # S("clean", s)
                BY <1>2, <1>16, <2>2 DEF Worked
            <4>2. /\ Before(Plan, S("await_unlocked", s), S("spawn", s))
                  /\ Before(Plan, S("clean", s), S("untrack", s))
                BY <1>4, <3>1 DEF FiberWorking
            <4>3. QED
                BY <1>5, <2>1, <4>1, <4>2, TailOrder
        <3>2. CASE Now = S("term", s)
            <4>1. /\ Between(Plan, S("term", s), S("await_unlocked", s), S("spawn", s))
                  /\ Never(Plan, S("term", s), S("untrack", s))
                BY <1>7 DEF Ordered
            <4>2. Before(Plan', S("await_unlocked", s), S("spawn", s))
                BY <1>5, <2>1, <3>2, <4>1, TailOrder
            <4>3. ~In(Plan', S("untrack", s))
                BY <1>5, <2>1, <3>2, <4>1, TailNever
            <4>4. QED
                BY <4>2, <4>3 DEF In, Before
        <3>3. QED
            BY <1>9, <2>2, <3>1, <3>2
    <2>3. ASSUME Running(s)' PROVE Before(Plan', S("kill", s), S("untrack", s))
        <3>1. CASE Running(s)
            <4>1. Before(Plan, S("kill", s), S("untrack", s)) /\ Now # S("kill", s)
                BY <1>4, <1>9, <2>3, <3>1 DEF FiberWorking
            <4>2. QED
                BY <1>5, <2>1, <4>1, TailOrder
        <3>2. CASE Now = S("spawn", s)
            <4>1. Between(Plan, S("spawn", s), S("kill", s), S("untrack", s))
                BY <1>7 DEF Ordered
            <4>2. QED
                BY <1>5, <2>1, <3>2, <4>1, TailOrder
        <3>3. QED
            BY <1>9, <2>3, <3>1, <3>2
    <2>4. QED
        BY <1>13, <1>14, <2>2, <2>3 DEF FiberWorking
<1>17. QED
    BY <1>1, <1>15, <1>16

LEMMA StepFibers ==
    ASSUME IInv, Step
    PROVE  FiberInv'
<1>1. /\ StepOf(Now) /\ FiberInv /\ StageInv /\ TypeInv
      /\ UNCHANGED <<suite, debug, firstDebug, stage, method>> /\ UNCHANGED control
      /\ \/ Return /\ Listed(Now) /\ \A q \in Slots : Worked(Now, q)
         \/ Raise(Now.on) /\ UNCHANGED <<fibers, made>>
      /\ failed \subseteq failed' /\ missed \subseteq missed'
      /\ \A q \in Slots : Moved(Now, q)
    BY StepCases
<1>2. /\ Debugged' <=> Debugged
      /\ stage \notin {"start", "ended"}
      /\ ~(suite = "shared" /\ stage = "teardown_method")
    <2>1. todo # <<>>
        BY <1>1 DEF StepOf
    <2>2. QED
        BY <1>1, <2>1 DEF Debugged, StageInv
<1> SUFFICES ASSUME ~Debugged, NEW s \in Fibers, ~LostTrack(s)'
             PROVE  /\ stage \in Working => FiberWorking(s)'
                    /\ stage = "teardown_method" => FiberTearing(s)'
                    /\ stage = "teardown_class" /\ Alive(s)' =>
                          suite = "shared" /\ Pending(S("term", s))'
    BY <1>1, <1>2 DEF FiberInv, Working
<1>3. ~LostTrack(s) /\ s \notin missed' /\ s \in Slots /\ s # "btc" /\ s # "miner"
    BY <1>1 DEF LostTrack, Fibers, Slots, Lnds
<1>4. Now \in StepSet /\ \A o, q : Now = S(o, q) <=> Now.op = o /\ Now.on = q
    BY <1>1, StepIs DEF StepOf
<1>5. CASE stage \in Working
    <2>1. FiberWorking(s)'
        BY <1>5, StepFibersWorking
    <2>2. stage \notin {"teardown_method", "teardown_class"}
        BY <1>5 DEF Working
    <2>3. QED
        BY <2>1, <2>2
<1>6. CASE stage \in {"teardown_method", "teardown_class"}
    <2>1. /\ stage \in Tearing /\ stage \notin Working /\ Now.op \in TearOps
          /\ fibers' = fibers
        BY <1>1, <1>6 DEF StepOf, Tearing, Working
    <2>2. CASE Return /\ \A q \in Slots : Worked(Now, q)
        <3>1. /\ Running(s)' => Running(s) /\ born'[s] = born[s]
              /\ Held(s)' => Held(s) \/ (Now = S("term", s) /\ Running(s))
              /\ Now \in {S("kill", s), S("term", s)} => ~Running(s)'
              /\ Now = S("clean", s) => ~Held(s)'
            BY <1>1, <1>3, <2>1, <2>2 DEF Moved, Worked, TearOps
        <3>2. /\ \A x : Pending(x) => Pending(x)' \/ x = Now
              /\ KillPending(s) => KillPending(s)' \/ Now = S("kill", s)
            BY <1>1, <2>2, ReturnedOf
        <3>3. Alive(s)' => Alive(s)
            BY <3>1 DEF Alive
        <3>4. CASE stage = "teardown_class"
            <4>1. Alive(s) => suite = "shared" /\ Pending(S("term", s))
                BY <1>1, <1>3, <3>4 DEF FiberInv
            <4>2. Alive(s)' => Now # S("term", s)
                BY <3>1 DEF Alive
            <4>3. QED
                BY <2>1, <3>2, <3>3, <3>4, <4>1, <4>2
        <3>5. CASE stage = "teardown_method"
            <4>1. FiberTearing(s) /\ suite # "shared"
                BY <1>1, <1>2, <1>3, <3>5 DEF FiberInv
            <4>2. Now = S("term", s) => s \in Range(fibers)
                <5>1. Pending(Now)
                    <6>1. todo # <<>> /\ todo \in Seq(UnitSet)
                        BY <1>1 DEF TypeInv, StepOf
                    <6>2. 1 \in DOMAIN todo /\ todo[1] = Head(todo) /\ Head(todo) \in UnitSet
                        BY <6>1
                    <6>3. In(Head(todo), Now)
                        BY <6>2, TailOrder DEF UnitSet, Now
                    <6>4. QED
                        BY <6>2, <6>3 DEF Pending
                <5>2. QED
                    BY <1>1, <3>5, <5>1 DEF StageInv
            <4>3. Alive(s)' \/ Held(s)' => s \in Range(fibers')
                BY <2>1, <3>1, <3>3, <4>1, <4>2 DEF FiberTearing
            <4>4. Alive(s)' => born'[s] = method'
                BY <1>1, <3>1, <3>3, <4>1 DEF FiberTearing, Alive
            <4>5. Running(s)' /\ s \in Range(fibers') => KillPending(s)'
                BY <2>1, <3>1, <3>2, <4>1 DEF FiberTearing
            <4>6. Held(s)' => Pending(S("clean", s))'
                <5>1. CASE Held(s) /\ Held(s)'
                    BY <3>1, <3>2, <4>1, <5>1 DEF FiberTearing
                <5>2. CASE Now = S("term", s) /\ Running(s)
                    <6>1. KillPending(s)
                        BY <4>1, <4>2, <5>2 DEF FiberTearing
                    <6>2. KillPending(s)'
                        BY <1>4, <3>2, <5>2, <6>1
                    <6>3. QED
                        BY <6>2 DEF KillPending, Pending, In
                <5>3. QED
                    BY <3>1, <5>1, <5>2
            <4>7. QED
                BY <2>1, <3>5, <4>3, <4>4, <4>5, <4>6 DEF FiberTearing
        <3>6. QED
            BY <1>6, <3>4, <3>5
    <2>3. CASE Raise(Now.on)
        <3>1. CASE Collecting
            <4>1. stage = "teardown_class" /\ suite = "cch" /\ fibers' = fibers
                BY <1>6, <2>1, <3>1 DEF Collecting
            <4>2. ~Alive(s)
                BY <1>1, <1>3, <4>1 DEF FiberInv
            <4>3. Now.op \notin {"spawn", "start_btc", "start_miner"}
                BY <2>1 DEF TearOps
            <4>4. ~Alive(s)'
                BY <1>1, <1>3, <4>2, <4>3 DEF Moved, Alive
            <4>5. QED
                BY <2>1, <4>1, <4>4
        <3>2. CASE ~Collecting
            <4>1. stage \in failed'
                BY <1>1, <2>3, <3>2, Raised
            <4>2. LostTrack(s)'
                BY <1>6, <4>1 DEF LostTrack
            <4>3. QED
                BY <4>2
        <3>3. QED
            BY <3>1, <3>2
    <2>4. QED
        BY <1>1, <2>2, <2>3
<1>7. CASE stage \notin Working \cup {"teardown_method", "teardown_class"}
    BY <1>7
<1>8. QED
    BY <1>5, <1>6, <1>7

\* A unit that raises while the errors are collected is about the slot that is noted.
LEMMA RaisedUnit ==
    ASSUME NEW u \in UnitSet, SameOrSure(u), Head(u).op \notin {"stop_miner", "term"},
           NEW x \in StepSet, In(u, x)
    PROVE  x.on = Head(u).on
<1>1. u \in Seq(StepSet) /\ u # <<>> /\ 1 \in DOMAIN u /\ Head(u) = u[1]
    BY DEF UnitSet
<1>2. PICK r \in Slots : \A k \in DOMAIN u : u[k].on = r
    BY <1>1 DEF SameOrSure
<1>3. QED
    BY <1>1, <1>2 DEF In

\* The resources after a step.
LEMMA StepResources ==
    ASSUME IInv, Step
    PROVE  ResourceInv'
<1>1. /\ StepOf(Now) /\ ResourceInv /\ PlanInv /\ TypeInv
      /\ UNCHANGED <<suite, debug, firstDebug, stage, method>> /\ UNCHANGED control
      /\ failed \subseteq failed' /\ errors \subseteq errors' /\ missed \subseteq missed'
    BY StepCases
<1>2. /\ \/ Return /\ \A q \in Slots : Worked(Now, q)
         \/ /\ Raise(Now.on)
            /\ Now.op \notin {"kill", "term", "spawn", "start_miner", "stop_miner"}
      /\ \A q \in Slots : Moved(Now, q)
    BY StepCases
<1>3. Now \in StepSet /\ \A o, q : Now = S(o, q) <=> Now.op = o /\ Now.on = q
    BY <1>1, StepIs DEF StepOf
<1>4. /\ Owned \subseteq Slots \ {"miner"} /\ "ckb" \in Slots /\ "miner" \in Slots
      /\ "ckb" # "btc" /\ made \subseteq Owned
    BY <1>1 DEF Owned, Slots, Lnds, TypeInv, HarnessTypeOK
<1>5. stage \in Tearing \cup Working /\ (stage \in Working => ~Collecting)
      /\ (Collecting' <=> Collecting) /\ (Debugged' <=> Debugged)
    BY <1>1 DEF StepOf, Tearing, Working, Collecting, Debugged
<1>6. ASSUME stage \in Tearing
      PROVE  /\ Now.op \in TearOps /\ made' = made /\ todo # <<>> /\ Head(todo) \in UnitSet
             /\ \A q \in Slots : Alive(q)' => Alive(q) /\ Running(q)'
             /\ \A q \in Slots : dir'[q] => dir[q]
             /\ MinerLoose' => MinerLoose /\ Now.op # "stop_miner"
    <2>1. Now.op \in TearOps /\ made' = made /\ todo # <<>> /\ Head(todo) \in UnitSet
        BY <1>1, <1>6 DEF StepOf, Tearing, Working
    <2>2. Now.op \notin {"spawn", "start_btc", "start_miner", "prepare"}
        BY <2>1 DEF TearOps
    <2>3. ASSUME NEW q \in Slots
          PROVE  /\ Alive(q)' => Alive(q) /\ Running(q)'
                 /\ dir'[q] => dir[q]
                 /\ MinerLoose' => MinerLoose /\ Now.op # "stop_miner"
        BY <1>2, <1>3, <2>2 DEF Moved, Alive
    <2>4. QED
        BY <1>4, <2>1, <2>3
<1>7. ASSUME stage \in Working
      PROVE  /\ Plan \in Seq(StepSet) /\ Plan # <<>> /\ Now = Head(Plan)
             /\ Fits(Plan, Range(fibers), made)
    BY <1>1, <1>7 DEF StepOf, Tearing, Working
\* what was not made is not started
<1>8. ASSUME NEW s \in Owned, Alive(s)' PROVE s \in made'
    <2>1. made \subseteq made'
        BY <1>1 DEF StepOf
    <2>2. CASE Alive(s)
        BY <1>1, <2>1, <2>2 DEF ResourceInv
    <2>3. CASE ~Alive(s)
        <3>1. Now.on = s /\ Now.op \in {"spawn", "start_btc", "start_miner"}
            BY <1>2, <1>4, <1>8, <2>3 DEF Moved, Alive
        <3>2. Now = S("spawn", s) \/ Now = S("start_btc", s)
            BY <1>3, <1>4, <3>1, StepIs
        <3>3. stage \in Working
            BY <1>5, <1>6, <1>8, <2>3, <1>4
        <3>4. ASSUME s \notin made PROVE FALSE
            <4>1. /\ Before(Plan, S("make", s), S("spawn", s))
                  /\ Before(Plan, S("make", s), S("start_btc", s))
                BY <1>7, <3>3, <3>4 DEF Fits
            <4>2. Head(Plan) # S("spawn", s)
                BY <1>7, <3>3, <4>1, TailOrder
            <4>3. Head(Plan) # S("start_btc", s)
                BY <1>7, <3>3, <4>1, TailOrder
            <4>4. QED
                BY <1>7, <3>2, <3>3, <4>2, <4>3
        <3>5. QED
            BY <2>1, <3>4
    <2>4. QED
        BY <2>2, <2>3
<1>9. made' # {} => suite' = "cch"
    <2>1. CASE made' = made
        BY <1>1, <2>1 DEF ResourceInv
    <2>2. CASE Now.op = "make"
        <3>1. stage \in Working
            BY <1>5, <1>6, <2>2 DEF TearOps
        <3>2. Now = S("make", Now.on) /\ Now.on \in Owned /\ In(Plan, Now)
            BY <1>3, <1>7, <2>2, <3>1, StepIs, TailOrder
        <3>3. QED
            BY <1>1, <3>1, <3>2 DEF PlanInv
    <2>3. QED
        BY <1>1, <2>1, <2>2 DEF StepOf
<1>10. todo \in Seq(UnitSet) /\ todo # <<>>
    BY <1>1 DEF TypeInv, StepOf
<1>11. ASSUME Collecting PROVE \A i \in DOMAIN todo' : SameOrSure(todo'[i])
    <2>1. \A i \in DOMAIN todo : SameOrSure(todo[i])
        BY <1>1, <1>11 DEF ResourceInv
    <2>2. CASE Return
        <3>1. ASSUME NEW i \in DOMAIN todo' PROVE SameOrSure(todo'[i])
            <4>1. PICK j \in DOMAIN todo : todo'[i] = todo[j] \/ todo'[i] = Tail(todo[j])
                BY <1>1, <2>2, <3>1, ReturnedOf
            <4>2. todo[j] \in Seq(StepSet) /\ todo[j] # <<>> /\ SameOrSure(todo[j])
                BY <1>10, <2>1 DEF UnitSet
            <4>3. \A k \in DOMAIN Tail(todo[j]) : k + 1 \in DOMAIN todo[j]
                                              /\ Tail(todo[j])[k] = todo[j][k + 1]
                BY <4>2
            <4>4. SameOrSure(Tail(todo[j]))
                BY <4>2, <4>3 DEF SameOrSure
            <4>5. QED
                BY <4>1, <4>2, <4>4
        <3>2. QED
            BY <3>1
    <2>3. CASE Raise(Now.on)
        <3>1. todo' = Tail(todo)
            BY <1>1, <1>11, <2>3, Raised
        <3>2. \A i \in DOMAIN todo' : i + 1 \in DOMAIN todo /\ todo'[i] = todo[i + 1]
            BY <1>10, <3>1, Skipped
        <3>3. QED
            BY <2>1, <3>2
    <2>4. QED
        BY <1>2, <2>2, <2>3
\* a step still to come is taken or goes with the unit that raised
<1>12. ASSUME Collecting, NEW x \in StepSet, Pending(x)
       PROVE  \/ Pending(x)'
              \/ Return /\ (\A q \in Slots : Worked(Now, q)) /\ Now = x
              \/ x.on \in errors' /\ Now.op \notin {"stop_miner", "term"} /\ x.on = Now.on
    <2>1. CASE Return /\ \A q \in Slots : Worked(Now, q)
        BY <1>1, <1>12, <2>1, ReturnedOf
    <2>2. CASE /\ Raise(Now.on)
               /\ Now.op \notin {"kill", "term", "spawn", "start_miner", "stop_miner"}
        <3>1. todo' = Tail(todo) /\ Now.on \in errors'
            BY <1>1, <1>12, <2>2, Raised
        <3>2. Pending(x)' \/ In(Head(todo), x)
            BY <1>10, <1>12, <3>1, Skipped
        <3>3. Head(todo) \in UnitSet /\ SameOrSure(Head(todo))
            <4>1. 1 \in DOMAIN todo /\ todo[1] = Head(todo)
                BY <1>10
            <4>2. QED
                BY <1>1, <1>10, <1>12, <4>1 DEF ResourceInv
        <3>4. In(Head(todo), x) => x.on = Now.on
            BY <2>2, <3>3, <1>12, RaisedUnit DEF Now
        <3>5. QED
            BY <2>2, <3>1, <3>2, <3>4
    <2>3. QED
        BY <1>2, <2>1, <2>2
<1>13. ASSUME ~Debugged, Collecting, NEW s \in made \cup {"ckb"}
       PROVE  /\ Alive(s)' => s \in errors' \cup missed' \/ Pending(StopStep(s))'
              /\ s \in made => (dir'[s] => s \in errors' \/ Pending(S("clean", s))')
    <2>1. stage \in Tearing /\ s \in Slots
        BY <1>4, <1>5, <1>13
    <2>2. StopStep(s) \in StepSet /\ S("clean", s) \in StepSet
          /\ StopStep(s).on = s /\ S("clean", s).on = s
        BY <1>4 , <1>13 DEF StopStep, StepSet, Ops, S, Owned, Slots, Fibers, Lnds
    <2>3. ASSUME Alive(s)' PROVE s \in errors' \cup missed' \/ Pending(StopStep(s))'
        <3>1. Alive(s) /\ Running(s)'
            BY <1>6, <2>1, <2>3
        <3>2. s \in errors \cup missed \/ Pending(StopStep(s))
            BY <1>1, <1>13, <3>1 DEF ResourceInv
        <3>3. ASSUME Return, \A q \in Slots : Worked(Now, q), Now = StopStep(s)
              PROVE  s \in missed'
            <4>1. CASE s = "btc"
                <5>1. Now.op = "stop_btc"
                    BY <3>3, <4>1 DEF StopStep, S
                <5>2. ~Running(s)'
                    BY <2>1, <3>3, <4>1, <5>1 DEF Worked
                <5>3. QED
                    BY <3>1, <5>2
            <4>2. CASE s # "btc"
                BY <1>2, <2>1, <3>1, <3>3, <4>2 DEF StopStep, Moved
            <4>3. QED
                BY <4>1, <4>2
        <3>4. CASE Pending(StopStep(s))
            BY <1>12, <1>13, <2>2, <3>3, <3>4
        <3>5. QED
            BY <1>1, <3>2, <3>4
    <2>4. ASSUME s \in made, dir'[s] PROVE s \in errors' \/ Pending(S("clean", s))'
        <3>1. s \in errors \/ Pending(S("clean", s))
            BY <1>1, <1>6, <1>13, <2>1, <2>4 DEF ResourceInv
        <3>2. CASE Pending(S("clean", s))
            BY <1>12, <1>13, <2>1, <2>2, <2>4, <3>2 DEF Worked
        <3>3. QED
            BY <1>1, <3>1, <3>2
    <2>5. QED
        BY <2>3, <2>4
<1>14. ASSUME ~Debugged, stage = "teardown_class"
       PROVE  /\ suite # "cch" /\ Alive("ckb")' => LostTrack("ckb")' \/ Pending(S("term", "ckb"))'
              /\ MinerLoose' => LostTrack("miner")' \/ Pending(S("stop_miner", "miner"))'
    <2>1. stage \in Tearing
        BY <1>14 DEF Tearing
    <2>2. /\ suite # "cch" /\ Alive("ckb") => LostTrack("ckb") \/ Pending(S("term", "ckb"))
          /\ MinerLoose => LostTrack("miner") \/ Pending(S("stop_miner", "miner"))
        BY <1>1, <1>14 DEF ResourceInv
    <2>3. \A s : LostTrack(s) => LostTrack(s)'
        BY <1>1 DEF LostTrack
    <2>4. CASE Return
        <3>1. \A x : Pending(x) => Pending(x)' \/ x = Now
            BY <1>1, <2>4, ReturnedOf
        <3>2. Alive("ckb")' => Alive("ckb") /\ (Now = S("term", "ckb") => "ckb" \in missed')
            BY <1>2, <1>4, <1>6, <2>1 DEF Moved
        <3>3. MinerLoose' => MinerLoose /\ Now # S("stop_miner", "miner")
            BY <1>3, <1>6, <2>1
        <3>4. "ckb" \in missed' => LostTrack("ckb")'
            BY DEF LostTrack
        <3>5. QED
            BY <2>2, <2>3, <3>1, <3>2, <3>3, <3>4
    <2>5. CASE Raise(Now.on) /\ ~Collecting
        <3>1. stage \in failed'
            BY <1>1, <2>5, Raised
        <3>2. LostTrack("ckb")' /\ LostTrack("miner")'
            BY <1>14, <3>1 DEF LostTrack
        <3>3. QED
            BY <3>2
    <2>6. CASE Raise(Now.on) /\ Collecting
        <3>1. suite = "cch"
            BY <1>14, <2>6 DEF Collecting
        <3>2. S("stop_miner", "miner") \in StepSet /\ S("stop_miner", "miner").on = "miner"
            BY DEF StepSet, Ops, S, Slots, Fibers, Lnds
        <3>3. MinerLoose' => MinerLoose /\ Now # S("stop_miner", "miner")
            BY <1>3, <1>6, <2>1
        <3>4. Now.on = "miner" => Now.op = "stop_miner"
            <4>1. Now.on = "miner" => Now.op \in {"start_miner", "stop_miner"}
                BY <1>3, StepIs
            <4>2. QED
                BY <1>6, <2>1, <4>1 DEF TearOps
        <3>5. MinerLoose' /\ Pending(S("stop_miner", "miner")) => Pending(S("stop_miner", "miner"))'
            BY <1>12, <2>6, <3>2, <3>3, <3>4
        <3>6. QED
            BY <2>2, <2>3, <3>1, <3>3, <3>5
    <2>7. QED
        BY <1>2, <2>4, <2>5, <2>6
<1>15. Collecting => made' = made
    BY <1>5, <1>6
<1>16. QED
    BY <1>1, <1>5, <1>8, <1>9, <1>11, <1>13, <1>14, <1>15 DEF ResourceInv

LEMMA StepInv ==
    ASSUME IInv, Step
    PROVE  IInv'
<1>1. StageInv /\ todo # <<>> /\ stage' = stage
    BY StepCases DEF Step
<1>2. LeaksAreReported'
    BY <1>1 DEF StageInv, LeaksAreReported
<1>3. QED
    BY <1>2, StepTypes, StepStage, StepPlan, StepFibers, StepResources DEF IInv

-----------------------------------------------------------------------------
(* The processes by themselves, and the changes of stage *)

LEMMA ProcessesInv ==
    ASSUME IInv, Processes \/ UNCHANGED vars
    PROVE  IInv'
<1>1. /\ TypeInv /\ StageInv /\ PlanInv /\ KeptInv /\ FiberInv /\ ResourceInv /\ LeaksAreReported
      /\ ProcTypeOK /\ DirInv
    BY DEF IInv, TypeInv, HarnessTypeOK
<1>2. /\ ProcTypeOK' /\ DirInv' /\ missed' = missed /\ dir' = dir
      /\ \A s \in Slots : Running(s)' => Running(s) /\ born'[s] = born[s]
      /\ \A s \in Slots : Held(s)' => Held(s)
      /\ MinerLoose' => MinerLoose
    <2>1. CASE Processes
        BY <1>1, <2>1, ProcessesMove
    <2>2. CASE UNCHANGED vars
        <3>1. UNCHANGED <<phase, born, dir, orphan, minerPid, guess, missed>>
            BY <2>2 DEF vars, procVars
        <3>2. QED
            BY <1>1, <3>1 DEF ProcTypeOK, DirInv, MinerLoose, Alive, Running, Held
    <2>3. QED
        BY <2>1, <2>2
<1>3. /\ UNCHANGED <<suite, debug, firstDebug, stage, method, todo, raised, fibers, made,
                     redirected, failed, errors>>
      /\ UNCHANGED control
    <2>1. UNCHANGED harnessVars
        BY DEF Processes, vars
    <2>2. QED
        BY <2>1 DEF harnessVars, control
<1>4. /\ \A s \in Slots : Alive(s)' => Alive(s) /\ born'[s] = born[s]
      /\ Fibers \subseteq Slots /\ Owned \subseteq Slots /\ "ckb" \in Slots /\ "miner" \in Slots
    BY <1>2 DEF Alive, Fibers, Owned, Slots
<1>5. /\ Plan' = Plan /\ (Debugged' <=> Debugged) /\ (Collecting' <=> Collecting)
      /\ Kept' = Kept
      /\ \A s : LostTrack(s)' <=> LostTrack(s)
      /\ \A x : Pending(x)' <=> Pending(x)
      /\ \A s : KillPending(s)' <=> KillPending(s)
    BY <1>2, <1>3 DEF Plan, Debugged, Collecting, Kept, LostTrack, Pending, KillPending
<1>6. TypeInv'
    <2>1. HarnessTypeOK'
        BY <1>1, <1>2, <1>3 DEF TypeInv, HarnessTypeOK
    <2>2. QED
        BY <1>1, <1>2, <1>3, <2>1 DEF TypeInv
<1>7. StageInv'
    BY <1>1, <1>2, <1>3, <1>4, <1>5 DEF StageInv, Working, Tearing
<1>8. PlanInv' /\ KeptInv'
    BY <1>1, <1>3, <1>5 DEF PlanInv, KeptInv, Working
<1>9. FiberInv'
    <2>1. ASSUME NEW s \in Fibers
          PROVE  /\ FiberWorking(s) => FiberWorking(s)'
                 /\ FiberTearing(s) => FiberTearing(s)'
                 /\ Alive(s)' => Alive(s)
        BY <1>2, <1>3, <1>4, <1>5 DEF FiberWorking, FiberTearing
    <2>2. QED
        BY <1>1, <1>3, <1>5, <2>1 DEF FiberInv, Working
<1>10. ResourceInv'
    <2>1. /\ \A s \in Owned : Alive(s)' => Alive(s)
          /\ Alive("ckb")' => Alive("ckb")
          /\ made \subseteq Owned
        BY <1>1, <1>4 DEF TypeInv, HarnessTypeOK, Owned
    <2>2. QED
        BY <1>1, <1>2, <1>3, <1>5, <2>1 DEF ResourceInv, StopStep
<1>11. LeaksAreReported'
    <2>1. ASSUME NEW s \in Slots, phase'[s] \in {"booting", "up"}, born'[s] >= 0
          PROVE  /\ phase[s] \in {"booting", "up"} /\ born[s] >= 0
                 /\ s = "miner" /\ guess' => guess
        BY <1>2, <2>1 DEF Running, MinerLoose, Alive
    <2>2. QED
        BY <1>1, <1>2, <1>3, <1>5, <2>1 DEF LeaksAreReported
<1>12. QED
    BY <1>6, <1>7, <1>8, <1>9, <1>10, <1>11 DEF IInv

LEMMA UnitsPlan ==
    ASSUME NEW p \in Seq(StepSet), todo' = Units(p)
    PROVE  todo' \in Seq(UnitSet) /\ Len(todo') <= 1 /\ Plan' = p
<1>1. CASE p = <<>>
    <2>1. todo' = <<>>
        BY <1>1 DEF Units
    <2>2. todo' \in Seq(UnitSet) /\ Len(todo') = 0
        BY <2>1
    <2>3. Plan' = <<>>
        BY <2>1 DEF Plan
    <2>4. QED
        BY <1>1, <2>2, <2>3
<1>2. CASE p # <<>>
    <2>1. todo' = <<p>> /\ p \in UnitSet
        BY <1>2 DEF Units, UnitSet
    <2>2. todo' # <<>> /\ Len(todo') = 1 /\ Head(todo') = p /\ todo' \in Seq(UnitSet)
        BY <2>1
    <2>3. QED
        BY <2>2 DEF Plan
<1>3. QED
    BY <1>1, <1>2

\* The processes do not move as the stage changes.
Still ==
    /\ UNCHANGED procVars
    /\ UNCHANGED <<suite, failed, errors, made>>

LEMMA StillFacts ==
    ASSUME TypeInv, Still
    PROVE  /\ ProcTypeOK' /\ DirInv' /\ made' \subseteq Owned
           /\ missed' = missed /\ failed' = failed /\ errors' = errors /\ suite' = suite
           /\ made' = made /\ phase' = phase /\ born' = born /\ dir' = dir /\ guess' = guess
           /\ failed' \subseteq Stages /\ errors' \subseteq Slots /\ suite' \in Suites
           /\ suite \in {"plain", "shared", "cch", "p2p"}
           /\ Kept' = Kept /\ (MinerLoose' <=> MinerLoose)
           /\ \A s : /\ Running(s)' <=> Running(s)
                     /\ Alive(s)' <=> Alive(s)
                     /\ Held(s)' <=> Held(s)
                     /\ LostTrack(s)' <=> LostTrack(s)
<1>1. /\ UNCHANGED <<phase, born, dir, orphan, minerPid, guess, missed>>
      /\ UNCHANGED <<suite, failed, errors, made>>
    BY DEF Still, procVars
<1>2. ProcTypeOK' /\ DirInv'
    BY <1>1 DEF TypeInv, HarnessTypeOK, ProcTypeOK, DirInv, MinerLoose, Alive, Running
<1>3. /\ made' \subseteq Owned /\ failed' \subseteq Stages /\ errors' \subseteq Slots
      /\ suite' \in Suites /\ suite \in {"plain", "shared", "cch", "p2p"}
    BY <1>1, HarnessAssumption DEF TypeInv, HarnessTypeOK, Owned
<1>4. Kept' = Kept /\ (MinerLoose' <=> MinerLoose)
    BY <1>1 DEF Kept, MinerLoose, Alive, Running
<1>5. \A s : /\ Running(s)' <=> Running(s)
             /\ Alive(s)' <=> Alive(s)
             /\ Held(s)' <=> Held(s)
             /\ LostTrack(s)' <=> LostTrack(s)
    BY <1>1 DEF Running, Alive, Held, LostTrack
<1>6. QED
    BY <1>1, <1>2, <1>3, <1>4, <1>5

\* What the types of a new stage take besides.
LEMMA StillTypes ==
    ASSUME TypeInv, Still, debug' \in BOOLEAN, firstDebug' \in BOOLEAN, stage' \in Stages,
           raised' = FALSE, redirected' \in BOOLEAN, method' \in 0 .. MaxMethods[suite],
           fibers' = fibers \/ fibers' = <<>>, todo' \in Seq(UnitSet)
    PROVE  TypeInv' /\ Range(fibers') \subseteq Fibers
<1>1. /\ fibers' \in Seq(Fibers) /\ IsInjective(fibers')
    <2>1. CASE fibers' = <<>>
        BY <2>1 DEF IsInjective
    <2>2. CASE fibers' = fibers
        BY <2>2 DEF TypeInv, HarnessTypeOK
    <2>3. QED
        BY <2>1, <2>2
<1>2. Range(fibers') \subseteq Fibers
    BY <1>1 DEF Range
<1>3. /\ ProcTypeOK' /\ DirInv' /\ made' \subseteq Owned /\ failed' \subseteq Stages
      /\ errors' \subseteq Slots /\ suite' \in Suites /\ suite' = suite
    BY StillFacts
<1>4. method' \in 0 .. MaxMethods[suite]'
    BY <1>3
<1>5. HarnessTypeOK'
    BY <1>1, <1>2, <1>3, <1>4, Zenon DEF HarnessTypeOK, Owned
<1>6. QED
    BY <1>1, <1>2, <1>3, <1>5 DEF TypeInv

LEMMA StartClassInv ==
    ASSUME IInv, StartClass
    PROVE  IInv'
<1>1. /\ TypeInv /\ StageInv /\ Still /\ stage = "start" /\ method' = method /\ fibers' = fibers
    BY DEF IInv, StartClass, Still
<1>2. /\ fibers' = <<>> /\ Range(fibers') = {} /\ made = {} /\ stage' = "setup_class"
      /\ raised' = FALSE
      /\ \A s \in Slots : ~Alive(s)
      /\ \A s \in Fibers : ~Held(s)
    <2>1. fibers' = <<>> /\ made = {}
        BY <1>1 DEF StageInv
    <2>2. Range(fibers') = {}
        BY <2>1 DEF Range
    <2>3. QED
        BY <1>1, <2>1, <2>2 DEF StageInv, StartClass, Enter
<1>3. /\ debug \in BOOLEAN /\ firstDebug \in BOOLEAN /\ method \in 0 .. MaxMethods[suite]
    BY <1>1, Zenon DEF TypeInv, HarnessTypeOK
<1>4. /\ debug' \in BOOLEAN /\ firstDebug' \in BOOLEAN /\ redirected' \in BOOLEAN
    BY <1>3 DEF StartClass
<1>5. PICK attach \in BOOLEAN : attach <=> debug /\ Listening("ckb")
    BY Zenon
<1>6. \E p : todo' = Units(p) /\ SetupClassSteps(p, attach) /\ (~attach => debug' = FALSE)
    <2>1. suite \in {"plain", "shared", "cch", "p2p"}
        BY <1>1, StillFacts
    <2>2. CASE attach
        BY <1>5, <2>1, <2>2 DEF StartClass, Enter, SetupClassSteps
    <2>3. CASE ~attach
        BY <1>5, <2>1, <2>3 DEF StartClass, Enter, SetupClassSteps
    <2>4. QED
        BY <2>2, <2>3
<1>7. PICK p : todo' = Units(p) /\ SetupClassSteps(p, attach) /\ (~attach => debug' = FALSE)
    BY <1>6
<1>8. /\ Fits(p, {}, {})
      /\ \A s \in Fibers : ~In(p, S("untrack", s))
      /\ suite = "shared" => \A s \in {"fiber1", "fiber2"} : In(p, S("track", s))
      /\ suite # "shared" => \A s \in Fibers : ~In(p, S("track", s))
      /\ \A s \in Owned : In(p, S("make", s)) => suite = "cch"
    BY <1>1, <1>7, StillFacts, SetupClassFits
<1>9. todo' \in Seq(UnitSet) /\ Len(todo') <= 1 /\ Plan' = p
    <2>1. p \in Seq(StepSet)
        BY <1>8 DEF Fits
    <2>2. QED
        BY <1>7, <2>1, UnitsPlan
<1>10. TypeInv'
    BY <1>1, <1>2, <1>3, <1>4, <1>9, StillTypes DEF Stages
<1>11. StageInv'
    BY <1>1, <1>2, <1>8, <1>9, StillFacts DEF StageInv, Tearing
<1>12. PlanInv'
    BY <1>1, <1>2, <1>8, <1>9, StillFacts DEF PlanInv
<1>13. KeptInv'
    <2>1. suite = "shared" => \A s \in Kept' : /\ ~In(p, S("untrack", s))
                                               /\ In(p, S("track", s))
        BY <1>1, <1>8, StillFacts DEF Kept, Fibers
    <2>2. QED
        BY <1>1, <1>2, <1>9, <2>1, StillFacts DEF KeptInv
<1>14. FiberInv'
    <2>1. ASSUME NEW s \in Fibers PROVE FiberWorking(s)'
        <3>1. ~Alive(s)' /\ ~Held(s)'
            BY <1>1, <1>2, StillFacts DEF Fibers, Slots
        <3>2. Before(p, S("kill", s), S("untrack", s))
            BY <1>8 DEF In, Before
        <3>3. QED
            BY <1>9, <3>1, <3>2 DEF FiberWorking
    <2>2. QED
        BY <1>2, <2>1 DEF FiberInv
<1>15. ResourceInv'
    <2>1. ~Collecting' /\ made' = {}
        BY <1>1, <1>2, StillFacts DEF Collecting
    <2>2. \A s \in Owned : ~Alive(s)'
        BY <1>1, <1>2, StillFacts DEF Owned, Slots
    <2>3. QED
        BY <1>2, <2>1, <2>2 DEF ResourceInv
<1>16. LeaksAreReported'
    BY <1>2 DEF LeaksAreReported
<1>17. QED
    BY <1>10, <1>11, <1>12, <1>13, <1>14, <1>15, <1>16 DEF IInv

\* A stage that ends has nothing of its own left running, unless it lost track of
\* it; the nodes of a shared class live on in the list.
Settled ==
    /\ suite = "shared" => Kept \subseteq Range(fibers)
    /\ ~Debugged => \A s \in Fibers : ~LostTrack(s) =>
          IF suite = "shared" THEN Alive(s) \/ Held(s) => s \in Range(fibers)
          ELSE ~Alive(s) /\ ~Held(s)

LEMMA NextMethodInv ==
    ASSUME IInv, Settled, Still, NextMethod, stage \in Stages,
           debug' \in BOOLEAN, firstDebug' = firstDebug, Debugged' <=> Debugged
    PROVE  IInv'
<1>1. TypeInv /\ StageInv /\ ResourceInv
    BY DEF IInv
<1>2. /\ debug \in BOOLEAN /\ firstDebug \in BOOLEAN /\ redirected \in BOOLEAN
      /\ method \in 0 .. MaxMethods[suite] /\ MaxMethods[suite] \in Nat /\ fibers \in Seq(Fibers)
    <2>1. /\ debug \in BOOLEAN /\ firstDebug \in BOOLEAN /\ redirected \in BOOLEAN
          /\ method \in 0 .. MaxMethods[suite] /\ suite \in Suites
        BY <1>1, Zenon DEF TypeInv, HarnessTypeOK
    <2>2. QED
        BY <1>1, <2>1, HarnessAssumption DEF TypeInv
<1>3. suite' = suite /\ made' = made /\ redirected' = redirected
    BY StillFacts, <1>1 DEF NextMethod
<1>4. CASE method < MaxMethods[suite]
    <2>1. /\ stage' = "setup_method" /\ todo' = Units(SetupMethod') /\ raised' = FALSE
          /\ method' = method + 1 /\ fibers' = IF suite = "shared" THEN fibers ELSE <<>>
        BY <1>4 DEF NextMethod, Enter
    <2>0. method' \in 0 .. MaxMethods[suite]
        BY <1>2, <1>4, <2>1
    <2>2. CASE suite = "shared"
        <3>1. SetupMethod' = <<>>
            BY <1>3, <2>2 DEF SetupMethod
        <3>2. PICK p : p = SetupMethod'
            OBVIOUS
        <3>3. p \in Seq(StepSet) /\ p = <<>> /\ Fits(p, Range(fibers'), made')
            BY <3>1, <3>2, NothingFits
        <3>4. todo' = <<>> /\ todo' \in Seq(UnitSet) /\ Plan' = <<>> /\ Len(todo') <= 1
            BY <2>1, <3>1, <3>2, <3>3, UnitsPlan DEF Units
        <3>5. TypeInv'
            BY <1>1, <1>2, <1>3, <2>0, <2>1, <2>2, <3>4, StillTypes DEF Stages
        <3>6. StageInv'
            BY <2>1, <3>4 DEF StageInv, Tearing
        <3>7. PlanInv'
            BY <3>2, <3>3, <3>4, NothingFits DEF PlanInv
        <3>8. KeptInv'
            <4>1. Kept' \subseteq Range(fibers')
                BY <1>1, <2>1, <2>2, StillFacts DEF Settled
            <4>2. QED
                BY <1>3, <2>1, <2>2, <4>1 DEF KeptInv
        <3>9. FiberInv'
            <4>1. ASSUME ~Debugged', NEW s \in Fibers, ~LostTrack(s)' PROVE FiberWorking(s)'
                <5>1. Alive(s)' \/ Held(s)' => s \in Range(fibers')
                    BY <1>1, <2>1, <2>2, <4>1, StillFacts DEF Settled
                <5>2. \A x, y : Before(Plan', y, x)
                    BY <3>4, NothingFits
                <5>3. QED
                    BY <1>3, <2>2, <5>1, <5>2 DEF FiberWorking
            <4>2. QED
                BY <2>1, <4>1 DEF FiberInv
        <3>10. QED
            <4>1. ResourceInv'
                BY <1>1, <1>3, <2>1, StillFacts DEF ResourceInv, Collecting
            <4>2. LeaksAreReported'
                BY <2>1 DEF LeaksAreReported
            <4>3. QED
                BY <3>5, <3>6, <3>7, <3>8, <3>9, <4>1, <4>2 DEF IInv
    <2>3. CASE suite # "shared"
        <3>1. suite' \in {"plain", "cch", "p2p"}
            BY <1>1, <2>3, StillFacts
        <3>2. PICK p : p = SetupMethod'
            OBVIOUS
        <3>3. /\ Fits(p, {}, {})
              /\ ~debug' => \A s \in Fibers : /\ Before(p, S("kill", s), S("untrack", s))
                                              /\ Before(p, S("clean", s), S("untrack", s))
              /\ \A s \in Kept' : ~In(p, S("untrack", s)) /\ In(p, S("track", s))
              /\ \A s \in Owned : ~In(p, S("make", s))
            BY <3>1, <3>2, SetupMethodFits
        <3>4. todo' \in Seq(UnitSet) /\ Plan' = p /\ Len(todo') <= 1
            <4>1. p \in Seq(StepSet)
                BY <3>3 DEF Fits
            <4>2. QED
                BY <2>1, <3>2, <4>1, UnitsPlan
        <3>5. fibers' = <<>> /\ Range(fibers') = {}
            BY <2>1, <2>3 DEF Range
        <3>6. TypeInv'
            BY <1>1, <1>2, <1>3, <2>0, <2>1, <3>4, <3>5, StillTypes DEF Stages
        <3>7. StageInv'
            BY <1>3, <2>1, <2>3, <3>4 DEF StageInv, Tearing
        <3>8. PlanInv'
            <4>1. Fits(p, {}, made')
                BY <3>3, FitsMore
            <4>2. QED
                BY <3>3, <3>4, <3>5, <4>1 DEF PlanInv
        <3>9. KeptInv'
            BY <1>3, <2>1, <2>3, <3>3, <3>4 DEF KeptInv
        <3>10. FiberInv'
            <4>1. ASSUME ~Debugged', NEW s \in Fibers, ~LostTrack(s)' PROVE FiberWorking(s)'
                <5>1. ~Alive(s)' /\ ~Held(s)'
                    BY <1>1, <2>3, <4>1, StillFacts DEF Settled
                <5>2. ~debug'
                    BY <4>1 DEF Debugged
                <5>3. QED
                    BY <3>3, <3>4, <5>1, <5>2 DEF FiberWorking
            <4>2. QED
                BY <2>1, <4>1 DEF FiberInv
        <3>11. QED
            <4>1. ResourceInv'
                BY <1>1, <1>3, <2>1, StillFacts DEF ResourceInv, Collecting
            <4>2. LeaksAreReported'
                BY <2>1 DEF LeaksAreReported
            <4>3. QED
                BY <3>6, <3>7, <3>8, <3>9, <3>10, <4>1, <4>2 DEF IInv
    <2>4. QED
        BY <2>2, <2>3
<1>5. CASE ~(method < MaxMethods[suite])
    <2>1. /\ stage' = "teardown_class" /\ todo' = TeardownClass /\ raised' = FALSE
          /\ UNCHANGED <<method, fibers, redirected>>
        BY <1>5 DEF NextMethod, Enter
    <2>2. made \subseteq Owned /\ \A s \in Owned : Alive(s) => s \in made
        BY <1>1 DEF TypeInv, HarnessTypeOK, Owned, ResourceInv
    \* what teardown_class has to do
    <2>3. /\ todo' \in Seq(TearUnit)
          /\ suite = "cch" => \A i \in DOMAIN todo' : SameOrSure(todo'[i])
          /\ ~Debugged => /\ Pending(S("stop_miner", "miner"))'
                          /\ suite # "cch" => Pending(S("term", "ckb"))'
                          /\ suite = "shared" =>
                                \A s \in Range(fibers) : Pending(S("term", s))'
                          /\ suite = "cch" =>
                                \A s \in made \cup {"ckb"} : /\ Pending(StopStep(s))'
                                                             /\ Pending(S("clean", s))'
        <3>1. CASE Debugged
            <4>1. todo' = <<>>
                BY <2>1, <3>1 DEF TeardownClass, Debugged
            <4>2. QED
                BY <3>1, <4>1
        <3>2. CASE ~Debugged /\ suite \in {"plain", "p2p"}
            <4>1. todo' = <<StopAndClean("ckb")>>
                BY <2>1, <3>2 DEF TeardownClass, Debugged
            <4>2. todo' \in Seq(TearUnit) /\ 1 \in DOMAIN todo' /\ todo'[1] = StopAndClean("ckb")
                BY <4>1, CkbUnit
            <4>3. QED
                BY <3>2, <4>2, CkbUnit DEF Pending
        <3>3. CASE ~Debugged /\ suite = "shared"
            <4>1. todo' = SharedTeardown
                BY <2>1, <3>3 DEF TeardownClass, Debugged
            <4>2. QED
                BY <1>2, <3>3, <4>1, TeardownFits DEF Pending
        <3>4. CASE ~Debugged /\ suite = "cch"
            <4>1. todo' = CleanupUnits
                BY <2>1, <3>4 DEF TeardownClass, Debugged
            <4>2. QED
                BY <2>2, <3>4, <4>1, CleanupFits DEF Pending
        <3>5. QED
            BY <1>1, <3>1, <3>2, <3>3, <3>4, StillFacts
    <2>4. todo' \in Seq(UnitSet)
        BY <2>3 DEF TearUnit
    <2>5. TypeInv'
        BY <1>1, <1>2, <1>3, <2>1, <2>4, StillTypes DEF Stages
    <2>6. StageInv' /\ PlanInv' /\ KeptInv' /\ LeaksAreReported'
        BY <2>1, <2>3 DEF StageInv, PlanInv, KeptInv, LeaksAreReported, Working
    <2>7. FiberInv'
        <3>1. ASSUME ~Debugged', NEW s \in Fibers, ~LostTrack(s)', Alive(s)'
              PROVE  suite' = "shared" /\ Pending(S("term", s))'
            <4>1. ~Debugged /\ suite = "shared" /\ s \in Range(fibers)
                BY <1>1, <3>1, StillFacts DEF Settled
            <4>2. QED
                BY <1>3, <2>3, <4>1
        <3>2. QED
            BY <2>1, <3>1 DEF FiberInv, Working
    <2>8. ResourceInv'
        <3>1. Collecting' <=> suite = "cch"
            BY <1>3, <2>1 DEF Collecting
        <3>2. /\ \A s \in Owned : Alive(s)' => s \in made'
              /\ made' # {} => suite' = "cch"
            BY <1>1, <1>3, <2>2, StillFacts DEF ResourceInv
        <3>4. QED
            BY <1>3, <2>1, <2>3, <3>1, <3>2 DEF ResourceInv
    <2>9. QED
        BY <2>5, <2>6, <2>7, <2>8 DEF IInv
<1>6. QED
    BY <1>4, <1>5

LEMMA SetupClassEndsInv ==
    ASSUME IInv, SetupClassEnds
    PROVE  IInv'
<1>1. /\ TypeInv /\ StageInv /\ PlanInv /\ KeptInv /\ FiberInv /\ ResourceInv
      /\ stage = "setup_class" /\ todo = <<>> /\ Plan = <<>> /\ Still
      /\ UNCHANGED <<debug, firstDebug>> /\ (Debugged' <=> Debugged)
    BY DEF IInv, SetupClassEnds, Still, Plan, Debugged
<1>2. /\ debug \in BOOLEAN /\ firstDebug \in BOOLEAN /\ redirected \in BOOLEAN
      /\ method \in 0 .. MaxMethods[suite] /\ fibers \in Seq(Fibers)
      /\ raised \in BOOLEAN
    BY <1>1, Zenon DEF TypeInv, HarnessTypeOK
<1>3. CASE ~raised
    <2>1. Settled
        <3>1. suite = "shared" => Kept \subseteq Range(fibers)
            BY <1>1, <1>3, NothingFits DEF KeptInv
        <3>2. suite # "shared" => Range(fibers) = {}
            <4>1. suite # "shared" => fibers = <<>>
                BY <1>1 DEF StageInv
            <4>2. QED
                BY <4>1 DEF Range
        <3>3. ASSUME ~Debugged, NEW s \in Fibers, ~LostTrack(s)
              PROVE  Alive(s) \/ Held(s) => s \in Range(fibers)
            BY <1>1, <3>3 DEF FiberInv, FiberWorking, Working
        <3>4. QED
            BY <3>1, <3>2, <3>3 DEF Settled
    <2>2. NextMethod
        BY <1>3 DEF SetupClassEnds
    <2>3. QED
        BY <1>1, <1>2, <2>1, <2>2, NextMethodInv DEF Stages
<1>4. CASE raised
    <2>1. "setup_class" \in failed
        BY <1>1, <1>4 DEF StageInv
    <2>2. /\ UNCHANGED <<method, fibers, redirected>>
          /\ \/ /\ suite = "cch" /\ ~debug /\ ~firstDebug
                /\ Enter("cleanup", CleanupUnits)
             \/ /\ ~(suite = "cch" /\ ~debug /\ ~firstDebug)
                /\ Enter("ended", <<>>)
        BY <1>4 DEF SetupClassEnds
    <2>3. /\ suite' = suite /\ made' = made /\ failed' = failed
          /\ \A s : LostTrack(s)'
        BY <1>1, <2>1, StillFacts DEF LostTrack
    <2>4. made \subseteq Owned /\ \A s \in Owned : Alive(s) => s \in made
        BY <1>1 DEF TypeInv, HarnessTypeOK, Owned, ResourceInv
    <2>5. CASE suite = "cch" /\ ~debug /\ ~firstDebug /\ Enter("cleanup", CleanupUnits)
        <3>1. stage' = "cleanup" /\ todo' = CleanupUnits /\ raised' = FALSE
            BY <2>5 DEF Enter
        <3>2. /\ todo' \in Seq(TearUnit) /\ todo' \in Seq(UnitSet)
              /\ \A i \in DOMAIN todo' : SameOrSure(todo'[i])
              /\ \A s \in made \cup {"ckb"} : Pending(StopStep(s))' /\ Pending(S("clean", s))'
            <4>1. /\ CleanupUnits \in Seq(TearUnit)
                  /\ \A i \in DOMAIN CleanupUnits : SameOrSure(CleanupUnits[i])
                  /\ \A s \in made \cup {"ckb"} :
                       /\ \E i \in DOMAIN CleanupUnits : In(CleanupUnits[i], StopStep(s))
                       /\ \E i \in DOMAIN CleanupUnits : In(CleanupUnits[i], S("clean", s))
                BY <2>4, CleanupFits
            <4>2. QED
                BY <3>1, <4>1 DEF Pending, TearUnit
        <3>3. TypeInv'
            BY <1>1, <1>2, <2>2, <3>1, <3>2, StillTypes DEF Stages
        <3>4. StageInv'
            BY <1>1, <2>1, <2>3, <2>5, <3>1, <3>2 DEF StageInv, Working, Debugged
        <3>5. PlanInv' /\ KeptInv' /\ FiberInv' /\ LeaksAreReported'
            BY <3>1 DEF PlanInv, KeptInv, FiberInv, LeaksAreReported, Working
        <3>6. ResourceInv'
            <4>1. \A s \in Owned : Alive(s)' => s \in made'
                BY <1>1, <2>3, <2>4, StillFacts
            <4>2. QED
                BY <2>3, <2>5, <3>1, <3>2, <4>1 DEF ResourceInv
        <3>7. QED
            BY <3>3, <3>4, <3>5, <3>6 DEF IInv
    <2>6. CASE ~(suite = "cch" /\ ~debug /\ ~firstDebug) /\ Enter("ended", <<>>)
        <3>1. stage' = "ended" /\ todo' = <<>> /\ raised' = FALSE /\ todo' \in Seq(UnitSet)
            BY <2>6 DEF Enter
        <3>2. TypeInv'
            BY <1>1, <1>2, <2>2, <3>1, StillTypes DEF Stages
        <3>3. StageInv'
            BY <2>1, <2>3, <3>1 DEF StageInv, Working, Tearing
        <3>4. PlanInv' /\ KeptInv' /\ FiberInv'
            BY <2>3, <3>1 DEF PlanInv, KeptInv, FiberInv, Working
        <3>5. ResourceInv'
            <4>1. \A s \in Owned : Alive(s)' => s \in made'
                BY <1>1, <2>3, <2>4, StillFacts
            <4>2. made' # {} => suite' = "cch"
                BY <1>1, <2>3 DEF ResourceInv
            <4>3. QED
                BY <3>1, <4>1, <4>2 DEF ResourceInv, Collecting
        <3>6. LeaksAreReported'
            <4>1. ~Debugged' => suite' # "cch"
                BY <1>1, <2>3, <2>6 DEF Debugged
            <4>2. QED
                BY <2>3, <4>1 DEF LeaksAreReported
        <3>7. QED
            BY <3>2, <3>3, <3>4, <3>5, <3>6 DEF IInv
    <2>7. QED
        BY <2>2, <2>5, <2>6
<1>5. QED
    BY <1>2, <1>3, <1>4

LEMMA SetupMethodEndsInv ==
    ASSUME IInv, SetupMethodEnds
    PROVE  IInv'
<1>1. /\ TypeInv /\ StageInv /\ PlanInv /\ KeptInv /\ FiberInv /\ ResourceInv
      /\ stage = "setup_method" /\ todo = <<>> /\ Plan = <<>> /\ Still
      /\ UNCHANGED <<debug, firstDebug>> /\ (Debugged' <=> Debugged)
    BY DEF IInv, SetupMethodEnds, Still, Plan, Debugged
<1>2. /\ debug \in BOOLEAN /\ firstDebug \in BOOLEAN /\ redirected \in BOOLEAN
      /\ method \in 0 .. MaxMethods[suite] /\ fibers \in Seq(Fibers)
      /\ raised \in BOOLEAN
    BY <1>1, Zenon DEF TypeInv, HarnessTypeOK
<1>3. CASE raised
    <2>1. Settled
        <3>1. suite = "shared" => Kept \subseteq Range(fibers)
            BY <1>1 DEF KeptInv
        <3>2. \A s : LostTrack(s)
            BY <1>1, <1>3 DEF StageInv, LostTrack
        <3>3. QED
            BY <3>1, <3>2 DEF Settled
    <2>2. NextMethod
        BY <1>3 DEF SetupMethodEnds
    <2>3. QED
        BY <1>1, <1>2, <2>1, <2>2, NextMethodInv DEF Stages
<1>4. CASE ~raised
    <2>1. PICK p \in Bodies : Enter("body", Units(p))
        BY <1>4 DEF SetupMethodEnds
    <2>2. /\ stage' = "body" /\ todo' = Units(p) /\ raised' = FALSE
          /\ UNCHANGED <<method, fibers, redirected>>
        BY <1>4, <2>1 DEF SetupMethodEnds, Enter
    <2>3. Kept \subseteq Range(fibers)
        <3>1. suite = "shared" => Kept \subseteq Range(fibers)
            BY <1>1 DEF KeptInv
        <3>2. suite # "shared" => Kept \subseteq Range(fibers)
            BY <1>1, <1>4, NothingFits DEF KeptInv
        <3>3. QED
            BY <3>1, <3>2
    <2>4. /\ Fits(p, Range(fibers), made)
          /\ \A s \in Fibers : ~In(p, S("untrack", s))
          /\ \A s \in Range(fibers) : Before(p, S("await_unlocked", s), S("spawn", s))
          /\ \A s \in Owned : In(p, S("make", s)) => suite = "cch"
        <3>1. Range(fibers) \in SUBSET Fibers /\ made \in SUBSET Owned
            BY <1>1 DEF TypeInv, HarnessTypeOK, Owned
        <3>2. QED
            BY <1>2, <2>1, <2>3, <3>1, BodyFits
    <2>5. todo' \in Seq(UnitSet) /\ Len(todo') <= 1 /\ Plan' = p
        <3>1. p \in Seq(StepSet)
            BY <2>4 DEF Fits
        <3>2. QED
            BY <2>2, <3>1, UnitsPlan
    <2>6. TypeInv'
        BY <1>1, <1>2, <2>2, <2>5, StillTypes DEF Stages
    <2>7. StageInv'
        BY <2>2, <2>5 DEF StageInv, Tearing
    <2>8. PlanInv' /\ KeptInv'
        BY <1>1, <2>2, <2>3, <2>4, <2>5, StillFacts DEF PlanInv, KeptInv
    <2>9. FiberInv'
        <3>1. ASSUME ~Debugged', NEW s \in Fibers, ~LostTrack(s)' PROVE FiberWorking(s)'
            <4>1. FiberWorking(s)
                BY <1>1, <3>1, StillFacts DEF FiberInv, Working
            <4>2. \A y : Before(p, y, S("untrack", s))
                BY <2>4 DEF In, Before
            <4>3. UNCHANGED <<suite, fibers, method, born>>
                BY <1>1, <2>2, StillFacts
            <4>4. QED
                BY <1>1, <2>4, <2>5, <4>1, <4>2, <4>3, StillFacts DEF FiberWorking
        <3>2. QED
            BY <2>2, <3>1 DEF FiberInv
    <2>10. ResourceInv'
        BY <1>1, <2>2, StillFacts DEF ResourceInv, Collecting
    <2>11. LeaksAreReported'
        BY <2>2 DEF LeaksAreReported
    <2>12. QED
        BY <2>6, <2>7, <2>8, <2>9, <2>10, <2>11 DEF IInv
<1>5. QED
    BY <1>2, <1>3, <1>4

LEMMA BodyEndsInv ==
    ASSUME IInv, BodyEnds
    PROVE  IInv'
<1>1. /\ TypeInv /\ StageInv /\ KeptInv /\ FiberInv /\ ResourceInv
      /\ stage = "body" /\ todo = <<>> /\ Still
      /\ UNCHANGED <<debug, firstDebug, method, fibers, redirected>>
      /\ (Debugged' <=> Debugged)
      /\ stage' = "teardown_method" /\ todo' = TeardownMethod /\ raised' = FALSE
    BY DEF IInv, BodyEnds, Enter, Still, Debugged
<1>2. /\ debug \in BOOLEAN /\ firstDebug \in BOOLEAN /\ redirected \in BOOLEAN
      /\ method \in 0 .. MaxMethods[suite] /\ fibers \in Seq(Fibers)
    BY <1>1, Zenon DEF TypeInv, HarnessTypeOK
<1>3. /\ suite' = suite /\ made' = made
      /\ suite \in {"plain", "shared", "cch", "p2p"}
    BY <1>1, StillFacts
\* what teardown_method has to do
<1>4. /\ todo' \in Seq(TearUnit)
      /\ suite = "shared" => todo' = <<>>
      /\ \A s \in Fibers : Pending(S("term", s))' => s \in Range(fibers)
      /\ ~Debugged /\ suite # "shared" =>
            \A s \in Range(fibers) : KillPending(s)' /\ Pending(S("clean", s))'
    <2>1. CASE Debugged \/ suite = "shared"
        <3>1. todo' = <<>>
            BY <1>1, <2>1 DEF TeardownMethod, Debugged
        <3>2. todo' \in Seq(TearUnit) /\ DOMAIN todo' = {}
            BY <3>1
        <3>3. \A s \in Fibers : ~Pending(S("term", s))'
            BY <3>2 DEF Pending
        <3>4. QED
            BY <2>1, <3>1, <3>2, <3>3
    <2>2. ASSUME todo' \in Seq(TearUnit),
                 \A s \in Range(fibers) : \E i \in DOMAIN todo' : KillsThenCleans(todo'[i], s)
          PROVE  \A s \in Range(fibers) : KillPending(s)' /\ Pending(S("clean", s))'
        <3>1. ASSUME NEW s \in Range(fibers) PROVE KillPending(s)' /\ Pending(S("clean", s))'
            <4>1. PICK i \in DOMAIN todo' : KillsThenCleans(todo'[i], s)
                BY <2>2
            <4>2. PICK k \in DOMAIN todo'[i], l \in DOMAIN todo'[i] :
                      k < l /\ todo'[i][k] = S("kill", s) /\ todo'[i][l] = S("clean", s)
                BY <4>1 DEF KillsThenCleans
            <4>3. KillPending(s)'
                BY <4>2 DEF KillPending
            <4>4. Pending(S("clean", s))'
                BY <4>2 DEF Pending, In, S
            <4>5. QED
                BY <4>3, <4>4
        <3>2. QED
            BY <3>1
    <2>3. CASE ~Debugged /\ suite = "cch"
        <3>1. todo' = CchTeardown
            BY <1>1, <2>3 DEF TeardownMethod, Debugged
        <3>2. /\ todo' \in Seq(TearUnit)
              /\ \A s \in Range(fibers) : \E i \in DOMAIN todo' : KillsThenCleans(todo'[i], s)
              /\ \A s : \A i \in DOMAIN todo' : In(todo'[i], S("term", s)) => s \in Range(fibers)
            BY <1>2, <3>1, TeardownFits
        <3>3. \A s \in Fibers : Pending(S("term", s))' => s \in Range(fibers)
            BY <3>2 DEF Pending, S
        <3>4. QED
            BY <2>2, <2>3, <3>2, <3>3
    <2>4. CASE ~Debugged /\ suite \notin {"shared", "cch"}
        <3>1. todo' = FiberTeardown
            BY <1>1, <2>4 DEF TeardownMethod, Debugged
        <3>2. /\ todo' \in Seq(TearUnit)
              /\ \A s \in Range(fibers) : \E i \in DOMAIN todo' : KillsThenCleans(todo'[i], s)
              /\ \A s : \A i \in DOMAIN todo' : ~In(todo'[i], S("term", s))
            BY <1>2, <3>1, TeardownFits
        <3>3. \A s \in Fibers : Pending(S("term", s))' => s \in Range(fibers)
            BY <3>2 DEF Pending, S
        <3>4. QED
            BY <2>2, <2>4, <3>2, <3>3
    <2>5. QED
        BY <2>1, <2>3, <2>4
<1>5. todo' \in Seq(UnitSet)
    BY <1>4 DEF TearUnit
<1>6. TypeInv'
    BY <1>1, <1>2, <1>5, StillTypes DEF Stages
<1>7. StageInv'
    BY <1>1, <1>3, <1>4 DEF StageInv, Working
<1>8. PlanInv' /\ LeaksAreReported'
    BY <1>1 DEF PlanInv, LeaksAreReported, Working
<1>9. KeptInv'
    <2>1. Kept' \subseteq Range(fibers')
        BY <1>1, StillFacts DEF KeptInv
    <2>2. QED
        BY <1>1, <2>1 DEF KeptInv
<1>10. FiberInv'
    <2>1. ASSUME ~Debugged', NEW s \in Fibers, ~LostTrack(s)' PROVE FiberTearing(s)'
        <3>1. FiberWorking(s)
            BY <1>1, <2>1, StillFacts DEF FiberInv, Working
        <3>2. UNCHANGED <<suite, fibers, method, born>>
            BY <1>1, StillFacts
        <3>3. /\ Running(s)' <=> Running(s)
              /\ Alive(s)' <=> Alive(s)
              /\ Held(s)' <=> Held(s)
            BY <1>1, StillFacts
        <3>4. ~Debugged /\ suite # "shared" /\ s \in Range(fibers) =>
                  KillPending(s)' /\ Pending(S("clean", s))'
            BY <1>4
        <3>5. QED
            BY <1>1, <2>1, <3>1, <3>2, <3>3, <3>4 DEF FiberWorking, FiberTearing
    <2>2. QED
        BY <1>1, <2>1 DEF FiberInv, Working
<1>11. ResourceInv'
    BY <1>1, StillFacts DEF ResourceInv, Collecting
<1>12. QED
    BY <1>6, <1>7, <1>8, <1>9, <1>10, <1>11 DEF IInv

LEMMA TeardownMethodEndsInv ==
    ASSUME IInv, TeardownMethodEnds
    PROVE  IInv'
<1>1. /\ TypeInv /\ KeptInv /\ FiberInv
      /\ stage = "teardown_method" /\ todo = <<>> /\ Still /\ NextMethod
      /\ firstDebug' = firstDebug
      /\ debug' = (debug \/ (suite = "p2p" /\ firstDebug /\ ~raised))
    BY DEF IInv, TeardownMethodEnds, Still
<1>2. debug \in BOOLEAN /\ firstDebug \in BOOLEAN /\ raised \in BOOLEAN
    BY <1>1, Zenon DEF TypeInv, HarnessTypeOK
<1>3. debug' \in BOOLEAN /\ (Debugged' <=> Debugged)
    BY <1>1, <1>2 DEF Debugged
<1>4. \A x, s : ~Pending(x) /\ ~KillPending(s)
    BY <1>1 DEF Pending, KillPending
<1>5. Settled
    <2>1. suite = "shared" => Kept \subseteq Range(fibers)
        BY <1>1 DEF KeptInv
    <2>2. ASSUME ~Debugged, NEW s \in Fibers, ~LostTrack(s)
          PROVE  IF suite = "shared" THEN Alive(s) \/ Held(s) => s \in Range(fibers)
                 ELSE ~Alive(s) /\ ~Held(s)
        <3>1. FiberTearing(s)
            BY <1>1, <2>2 DEF FiberInv
        <3>2. Alive(s) => Running(s)
            BY DEF Alive
        <3>3. QED
            BY <1>4, <3>1, <3>2 DEF FiberTearing
    <2>3. QED
        BY <2>1, <2>2 DEF Settled
<1>6. QED
    BY <1>1, <1>3, <1>5, NextMethodInv DEF Stages

LEMMA ClassEndsInv ==
    ASSUME IInv, ClassEnds
    PROVE  IInv'
<1>1. /\ TypeInv /\ StageInv /\ FiberInv /\ ResourceInv
      /\ stage \in {"teardown_class", "cleanup"} /\ todo = <<>> /\ Still
      /\ UNCHANGED <<debug, firstDebug, method, fibers>>
      /\ (Debugged' <=> Debugged)
      /\ stage' = "ended" /\ todo' = <<>> /\ raised' = FALSE
      /\ redirected' = (redirected /\ stage = "cleanup")
    BY DEF IInv, ClassEnds, Enter, Still, Debugged
<1>2. /\ debug \in BOOLEAN /\ firstDebug \in BOOLEAN /\ redirected \in BOOLEAN
      /\ method \in 0 .. MaxMethods[suite]
    BY <1>1, Zenon DEF TypeInv, HarnessTypeOK
<1>3. /\ suite' = suite /\ made' = made /\ errors' = errors /\ missed' = missed
      /\ failed' = failed /\ dir' = dir /\ guess' = guess
      /\ \A s : LostTrack(s)' <=> LostTrack(s)
      /\ \A s : Alive(s)' <=> Alive(s)
    BY <1>1, StillFacts
<1>4. \A x : ~Pending(x)
    BY <1>1 DEF Pending
<1>5. redirected' \in BOOLEAN /\ (redirected' => stage = "cleanup")
    BY <1>1, <1>2
<1>6. /\ stage = "cleanup" => "setup_class" \in failed /\ suite = "cch" /\ \A s : LostTrack(s)
      /\ Collecting <=> stage = "cleanup" \/ suite = "cch"
    BY <1>1 DEF StageInv, LostTrack, Collecting
<1>7. TypeInv'
    <2>1. todo' \in Seq(UnitSet)
        BY <1>1
    <2>2. QED
        BY <1>1, <1>2, <1>5, <2>1, StillTypes DEF Stages
<1>8. StageInv'
    BY <1>1, <1>3, <1>5, <1>6 DEF StageInv, Working, Tearing
<1>9. PlanInv' /\ KeptInv'
    BY <1>1 DEF PlanInv, KeptInv, Working
<1>10. \A s \in Fibers : ~Debugged /\ ~LostTrack(s) => ~Alive(s)
    BY <1>1, <1>4, <1>6 DEF FiberInv
<1>11. FiberInv'
    BY <1>1, <1>3, <1>10 DEF FiberInv, Working
<1>12. ResourceInv'
    BY <1>1, <1>3 DEF ResourceInv, Collecting
<1>13. LeaksAreReported'
    <2>1. ASSUME ~Debugged, NEW s \in Slots, Alive(s)
          PROVE  CASE s = "miner" -> ~guess \/ LostTrack(s)
                   [] suite = "cch" /\ s \in ClassResources -> s \in errors \cup missed
                   [] OTHER -> LostTrack(s)
        <3>0. /\ Owned \cup {"ckb"} = ClassResources /\ "miner" \notin ClassResources
              /\ s \in Fibers \/ s \in Owned \/ s = "ckb" \/ s = "miner"
            BY DEF Owned, ClassResources, Lnds, Slots
        <3>1. CASE s = "miner"
            <4>1. guess => MinerLoose
                BY <2>1, <3>1 DEF MinerLoose
            <4>2. ~guess \/ LostTrack(s)
                BY <1>1, <1>4, <1>6, <2>1, <3>1, <4>1 DEF ResourceInv
            <4>3. QED
                BY <3>0, <3>1, <4>2
        <3>2. CASE suite = "cch" /\ s \in ClassResources
            <4>1. s \in made \cup {"ckb"} /\ Collecting
                BY <1>1, <1>6, <2>1, <3>0, <3>2 DEF ResourceInv
            <4>2. s \in errors \cup missed
                BY <1>1, <1>4, <2>1, <4>1 DEF ResourceInv
            <4>3. QED
                BY <3>0, <3>2, <4>2
        <3>3. CASE s # "miner" /\ ~(suite = "cch" /\ s \in ClassResources)
            <4>1. s \in Fibers => LostTrack(s)
                BY <1>10, <2>1
            <4>2. s \notin Owned
                BY <1>1, <2>1, <3>0, <3>3 DEF ResourceInv
            <4>3. s = "ckb" => LostTrack(s)
                BY <1>1, <1>4, <1>6, <2>1, <3>0, <3>3 DEF ResourceInv
            <4>4. QED
                BY <3>0, <3>3, <4>1, <4>2, <4>3
        <3>4. QED
            BY <3>1, <3>2, <3>3
    <2>2. ASSUME ~Debugged, NEW s \in Slots, suite = "cch", s \in made, dir[s]
          PROVE  s \in errors
        BY <1>1, <1>4, <1>6, <2>2 DEF ResourceInv
    <2>3. \A s \in Slots : phase'[s] \in {"booting", "up"} /\ born'[s] >= 0 => Alive(s)
        BY <1>3 DEF Alive, Running
    <2>4. QED
        BY <1>1, <1>3, <2>1, <2>2, <2>3 DEF LeaksAreReported
<1>14. QED
    BY <1>7, <1>8, <1>9, <1>11, <1>12, <1>13 DEF IInv

LEMMA InitInv == Init => IInv
<1> SUFFICES ASSUME Init PROVE IInv
    OBVIOUS
<1>1. /\ suite \in Suites /\ debug \in BOOLEAN /\ firstDebug = FALSE
      /\ stage = "start" /\ todo = <<>> /\ raised = FALSE
      /\ method = 0 /\ fibers = <<>> /\ made = {} /\ redirected = FALSE
      /\ failed = {} /\ errors = {} /\ missed = {}
      /\ minerPid = FALSE /\ guess = FALSE
    BY DEF Init
<1>2. MaxMethods[suite] \in Nat /\ Leftovers \subseteq SUBSET Slots
    BY <1>1, HarnessAssumption
<1>3. PICK left \in Leftovers, hasDir \in BOOLEAN :
         /\ phase = [s \in Slots |-> IF s \in left THEN "up" ELSE "none"]
         /\ dir = [s \in Slots |-> s \in left /\ hasDir]
         /\ orphan = [s \in Slots |-> s \in left /\ ~hasDir]
    BY DEF Init
<1>4. born = [s \in Slots |-> IF phase[s] = "up" THEN -1 ELSE 0]
    BY DEF Init
<1>5. /\ phase \in [Slots -> Phases] /\ born \in [Slots -> Int]
      /\ dir \in [Slots -> BOOLEAN] /\ orphan \in [Slots -> BOOLEAN]
    BY <1>3, <1>4 DEF Phases
<1>6. \A s \in Slots : /\ phase[s] \in {"up", "none"} /\ born[s] >= -1
                       /\ ~Alive(s) /\ ~Held(s)
                       /\ phase[s] # "none" /\ ~dir[s] => orphan[s]
    <2>1. ASSUME NEW s \in Slots
          PROVE  /\ phase[s] \in {"up", "none"}
                 /\ phase[s] = "up" => born[s] = -1
                 /\ phase[s] # "up" => born[s] = 0
        BY <1>3, <1>4
    <2>2. ASSUME NEW s \in Slots
          PROVE  phase[s] # "none" /\ ~dir[s] => orphan[s]
        BY <1>3
    <2>3. QED
        BY <2>1, <2>2 DEF Alive, Running, Held
<1>7. Fibers \subseteq Slots /\ Owned \subseteq Slots /\ "miner" \in Slots
    BY DEF Fibers, Owned, Slots
<1>8. TypeInv
    <2>1. ProcTypeOK
        BY <1>1, <1>5 DEF ProcTypeOK
    <2>2. /\ Range(fibers) \subseteq Fibers /\ IsInjective(fibers) /\ fibers \in Seq(Fibers)
          /\ todo \in Seq(UnitSet)
        BY <1>1 DEF Range, IsInjective
    <2>3. method \in 0 .. MaxMethods[suite] /\ stage \in Stages
        BY <1>1, <1>2 DEF Stages
    <2>4. HarnessTypeOK
        BY <1>1, <2>1, <2>2, <2>3, Zenon DEF HarnessTypeOK
    <2>5. DirInv
        BY <1>6, <1>7 DEF DirInv, MinerLoose
    <2>6. QED
        BY <2>2, <2>4, <2>5 DEF TypeInv
<1>9. StageInv
    BY <1>1, <1>6, <1>7 DEF StageInv, Working, Tearing
<1>10. PlanInv /\ KeptInv /\ LeaksAreReported
    BY <1>1 DEF PlanInv, KeptInv, LeaksAreReported, Working
<1>11. FiberInv
    BY <1>1 DEF FiberInv, Working
<1>12. ResourceInv
    BY <1>1, <1>6, <1>7 DEF ResourceInv, Collecting
<1>13. QED
    BY <1>8, <1>9, <1>10, <1>11, <1>12 DEF IInv

-----------------------------------------------------------------------------
(* The theorems *)

\* The inductive invariant holds in every state of every class: what the running
\* stage has left to do is enough to stop and to clean what the class still has.
THEOREM HarnessInvariant == Spec => []IInv
<1>1. Init => IInv
    BY InitInv
<1>2. IInv /\ [Next]_vars => IInv'
    <2> SUFFICES ASSUME IInv, [Next]_vars PROVE IInv'
        OBVIOUS
    <2>1. CASE Step
        BY <2>1, StepInv
    <2>2. CASE StartClass
        BY <2>2, StartClassInv
    <2>3. CASE SetupClassEnds
        BY <2>3, SetupClassEndsInv
    <2>4. CASE SetupMethodEnds
        BY <2>4, SetupMethodEndsInv
    <2>5. CASE BodyEnds
        BY <2>5, BodyEndsInv
    <2>6. CASE TeardownMethodEnds
        BY <2>6, TeardownMethodEndsInv
    <2>7. CASE ClassEnds
        BY <2>7, ClassEndsInv
    <2>8. CASE Processes
        BY <2>8, ProcessesInv
    <2>9. CASE UNCHANGED vars
        BY <2>9, ProcessesInv
    <2>10. QED
        BY <2>1, <2>2, <2>3, <2>4, <2>5, <2>6, <2>7, <2>8, <2>9 DEF Next, Thread
<1>3. QED
    BY <1>1, <1>2, PTL DEF Spec

\* The harness keeps its types, and config.TMP_PATH is the process-wide default
\* again once a class has ended, unless its setup_class raised.
THEOREM PathIsRestored == Spec => []HarnessInv
<1>1. IInv => HarnessInv
    BY DEF IInv, TypeInv, StageInv, HarnessInv
<1>2. QED
    BY <1>1, HarnessInvariant, PTL

\* What a class leaves behind goes back to a setup or teardown that raised, to a
\* kill that came too early or to the guessed pid of the miner, in all four suites
\* and for every number of methods: a test body that raises leaks nothing.
THEOREM NoSilentLeaks == Spec => []LeaksAreReported
<1>1. IInv => LeaksAreReported
    BY DEF IInv
<1>2. QED
    BY <1>1, HarnessInvariant, PTL

\* A test of a suite that starts its nodes for every method runs against nodes of
\* that method, unless the class lost track of the node or found the port taken.
THEOREM NodesAreOfTheMethod == Spec => []OldNodeOnlyAfterFailure
<1>1. IInv => OldNodeOnlyAfterFailure
    <2> SUFFICES ASSUME IInv, stage = "body", ~Debugged, suite # "shared",
                        NEW s \in Range(fibers), phase[s] = "up", born[s] # method,
                        ~LostTrack(s)
                 PROVE  born[s] = -1
        BY DEF OldNodeOnlyAfterFailure
    <2>1. TypeInv /\ FiberInv
        BY DEF IInv
    <2>2. s \in Fibers /\ s \in Slots
        BY <2>1 DEF TypeInv, HarnessTypeOK, Fibers, Slots
    <2>3. born[s] \in Int /\ born[s] >= -1
        BY <2>1, <2>2 DEF TypeInv, HarnessTypeOK, ProcTypeOK, DirInv
    <2>4. FiberWorking(s)
        BY <2>1, <2>2 DEF FiberInv, Working
    <2>5. ~(born[s] >= 0)
        BY <2>4 DEF FiberWorking, Alive, Running
    <2>6. QED
        BY <2>3, <2>5
<1>2. QED
    BY <1>1, HarnessInvariant, PTL

\* No start of a node meets its old process still flushing the store, as long as
\* no setup or teardown raised and the nodes are not kept for debugging.
THEOREM StartsFindTheStoreFree == Spec => []StoreIsFreeOnStart
<1>1. IInv => StoreIsFreeOnStart
    <2> SUFFICES ASSUME IInv, NEW s \in Fibers, todo # <<>>, Now = S("spawn", s),
                        phase[s] = "closing", StoreLocked(s), ~LostTrack(s), ~Debugged
                 PROVE  FALSE
        BY DEF StoreIsFreeOnStart, Now
    <2>1. TypeInv /\ StageInv /\ FiberInv /\ Held(s)
        BY DEF IInv, Held, StoreLocked
    <2>2. Plan \in Seq(StepSet) /\ Plan # <<>> /\ Head(Plan) = S("spawn", s) /\ Plan = Head(todo)
        BY <2>1 DEF TypeInv, UnitSet, Plan, Now
    <2>3. stage \notin Working
        <3>1. ASSUME stage \in Working PROVE FALSE
            <4>1. Before(Plan, S("await_unlocked", s), S("spawn", s))
                BY <2>1, <3>1 DEF FiberInv, FiberWorking
            <4>2. QED
                BY <2>2, <4>1, TailOrder
        <3>2. QED
            BY <3>1
    <2>4. stage \notin Tearing
        <3>1. ASSUME stage \in Tearing PROVE FALSE
            <4>1. todo \in Seq(TearUnit)
                BY <2>1, <3>1 DEF StageInv
            <4>2. Head(todo) \in TearUnit
                BY <4>1
            <4>3. 1 \in DOMAIN Plan /\ Plan[1] = S("spawn", s)
                BY <2>2
            <4>4. S("spawn", s).op \in TearOps
                BY <2>2, <4>2, <4>3 DEF TearUnit
            <4>5. QED
                BY <4>4 DEF S, TearOps
        <3>2. QED
            BY <3>1
    <2>5. stage \in Stages /\ stage \notin {"start", "ended"}
        BY <2>1 DEF TypeInv, HarnessTypeOK, StageInv
    <2>6. QED
        BY <2>3, <2>4, <2>5 DEF Stages, Working, Tearing
<1>2. QED
    BY <1>1, HarnessInvariant, PTL

-----------------------------------------------------------------------------
(* A class ends *)

\* How far the class is: the methods one after the other, and the stages of each.
Rank == [start |-> 0, setup_class |-> 1, setup_method |-> 2, body |-> 3,
         teardown_method |-> 4, teardown_class |-> 5, cleanup |-> 5, ended |-> 6]
Position == 6 * method + Rank[stage]

\* Less of the stage is left: a unit, or a step of the unit that runs.
Shorter ==
    /\ Position' = Position
    /\ \/ Len(todo') < Len(todo)
       \/ Len(todo') = Len(todo) /\ Len(Head(todo')) < Len(Head(todo))

\* The rank of each stage.
LEMMA RankOf ==
    ASSUME NEW g \in Stages
    PROVE  /\ Rank[g] \in 0 .. 6
           /\ g = "start" => Rank[g] = 0
           /\ g = "setup_class" => Rank[g] = 1
           /\ g = "setup_method" => Rank[g] = 2
           /\ g = "body" => Rank[g] = 3
           /\ g = "teardown_method" => Rank[g] = 4
           /\ g \in {"teardown_class", "cleanup"} => Rank[g] = 5
           /\ g = "ended" => Rank[g] = 6
BY DEF Rank, Stages

\* A step of the stage returns or raises, and leaves less to do either way.
LEMMA StepShortens ==
    ASSUME IInv, Step
    PROVE  Shorter
<1>1. /\ TypeInv /\ StepOf(Now) /\ UNCHANGED <<stage, method>>
      /\ Return \/ Raise(Now.on)
    BY StepCases
<1>2. todo \in Seq(UnitSet) /\ todo # <<>>
    BY <1>1 DEF TypeInv, StepOf
<1>3. Len(todo) \in Nat /\ Len(todo) >= 1 /\ Len(Tail(todo)) = Len(todo) - 1
    BY <1>2
<1>4. Position' = Position
    BY <1>1 DEF Position
<1>5. CASE Raise(Now.on)
    <2>1. Len(todo') < Len(todo)
        BY <1>3, <1>5 DEF Raise
    <2>2. QED
        BY <1>4, <2>1 DEF Shorter
<1>6. CASE Return
    <2> DEFINE u == Head(todo)
    <2>1. u \in Seq(StepSet) /\ u # <<>> /\ Tail(todo) \in Seq(UnitSet)
        BY <1>2 DEF UnitSet
    <2>2. Len(u) \in Nat /\ Len(u) >= 1 /\ Len(Tail(u)) = Len(u) - 1 /\ Tail(u) \in Seq(StepSet)
        BY <2>1
    <2>3. todo' = Units(Tail(u)) \o Tail(todo)
        BY <1>6 DEF Return
    <2>4. CASE Tail(u) = <<>>
        <3>1. todo' = Tail(todo)
            BY <2>1, <2>3, <2>4 DEF Units
        <3>2. QED
            BY <1>3, <1>4, <3>1 DEF Shorter
    <2>5. CASE Tail(u) # <<>>
        <3>1. Tail(u) \in UnitSet
            BY <2>2, <2>5 DEF UnitSet
        <3>2. todo' = <<Tail(u)>> \o Tail(todo)
            BY <2>3, <2>5 DEF Units
        <3>3. <<Tail(u)>> \in Seq(UnitSet) /\ Len(<<Tail(u)>>) = 1
            BY <3>1
        <3> HIDE DEF u
        <3>4. Len(todo') = Len(todo) /\ todo'[1] = Tail(u) /\ Head(todo') = todo'[1]
            BY <1>3, <2>1, <3>2, <3>3
        <3>5. Len(Head(todo')) < Len(u)
            BY <2>2, <3>4
        <3>6. QED
            BY <1>4, <3>4, <3>5 DEF Shorter, u
    <2>6. QED
        BY <2>4, <2>5
<1>7. QED
    BY <1>1, <1>5, <1>6

\* From a stage a class goes on to a later one, or to a later method.
LEMMA ClassGoesOn ==
    ASSUME IInv, IInv',
           StartClass \/ SetupClassEnds \/ SetupMethodEnds \/ BodyEnds
           \/ TeardownMethodEnds \/ ClassEnds
    PROVE  Position' > Position
<1>1. /\ HarnessTypeOK /\ HarnessTypeOK' /\ suite' = suite
    BY DEF IInv, TypeInv, StartClass, SetupClassEnds, SetupMethodEnds, BodyEnds,
           TeardownMethodEnds, ClassEnds
<1> DEFINE r == Rank[stage]
           q == Rank[stage']
<1>2. /\ method \in Nat /\ method' \in Nat /\ stage \in Stages /\ stage' \in Stages
      /\ Position = 6 * method + r /\ Position' = 6 * method' + q
    BY <1>1, HarnessAssumption DEF HarnessTypeOK, Position
<1>3. /\ r \in 0 .. 6
      /\ stage = "start" => r = 0
      /\ stage = "setup_class" => r = 1
      /\ stage = "setup_method" => r = 2
      /\ stage = "body" => r = 3
      /\ stage = "teardown_method" => r = 4
      /\ stage \in {"teardown_class", "cleanup"} => r = 5
    BY <1>2, RankOf
<1>4. /\ q \in 0 .. 6
      /\ stage' = "setup_class" => q = 1
      /\ stage' = "setup_method" => q = 2
      /\ stage' = "body" => q = 3
      /\ stage' = "teardown_method" => q = 4
      /\ stage' \in {"teardown_class", "cleanup"} => q = 5
      /\ stage' = "ended" => q = 6
    BY <1>2, RankOf
<1> HIDE DEF r, q
<1>5. CASE StartClass
    <2>1. stage = "start" /\ stage' = "setup_class" /\ method' = method
        BY <1>5 DEF StartClass, Enter
    <2>2. QED
        BY <1>2, <1>3, <1>4, <2>1
<1>6. ASSUME NextMethod, stage \in {"setup_class", "setup_method", "teardown_method"}
      PROVE  Position' > Position
    <2>1. \/ stage' = "setup_method" /\ method' = method + 1
          \/ stage' = "teardown_class" /\ method' = method
        BY <1>6 DEF NextMethod, Enter
    <2>2. r <= 4
        BY <1>3, <1>6
    <2>3. CASE stage' = "setup_method" /\ method' = method + 1
        BY <1>2, <1>3, <1>4, <2>2, <2>3
    <2>4. CASE stage' = "teardown_class" /\ method' = method
        BY <1>2, <1>3, <1>4, <2>2, <2>4
    <2>5. QED
        BY <2>1, <2>3, <2>4
<1>7. CASE SetupClassEnds
    <2>1. /\ stage = "setup_class"
          /\ \/ NextMethod
             \/ stage' \in {"cleanup", "ended"} /\ method' = method
        BY <1>7 DEF SetupClassEnds, Enter
    <2>2. CASE NextMethod
        BY <1>6, <2>1, <2>2
    <2>3. CASE stage' \in {"cleanup", "ended"} /\ method' = method
        BY <1>2, <1>3, <1>4, <2>1, <2>3
    <2>4. QED
        BY <2>1, <2>2, <2>3
<1>8. CASE SetupMethodEnds
    <2>1. /\ stage = "setup_method"
          /\ NextMethod \/ (stage' = "body" /\ method' = method)
        BY <1>8 DEF SetupMethodEnds, Enter
    <2>2. CASE NextMethod
        BY <1>6, <2>1, <2>2
    <2>3. CASE stage' = "body" /\ method' = method
        BY <1>2, <1>3, <1>4, <2>1, <2>3
    <2>4. QED
        BY <2>1, <2>2, <2>3
<1>9. CASE BodyEnds
    <2>1. stage = "body" /\ stage' = "teardown_method" /\ method' = method
        BY <1>9 DEF BodyEnds, Enter
    <2>2. QED
        BY <1>2, <1>3, <1>4, <2>1
<1>10. CASE TeardownMethodEnds
    BY <1>6, <1>10 DEF TeardownMethodEnds
<1>11. CASE ClassEnds
    <2>1. stage \in {"teardown_class", "cleanup"} /\ stage' = "ended" /\ method' = method
        BY <1>11 DEF ClassEnds, Enter
    <2>2. QED
        BY <1>2, <1>3, <1>4, <2>1
<1>12. QED
    BY <1>5, <1>7, <1>8, <1>9, <1>10, <1>11

\* A class cannot go on for ever: each step of the runner brings it to a later stage
\* or method, of which there are as many as the suite has, or leaves less of the stage
\* to do, whatever raises and whatever the processes do meanwhile.
THEOREM ClassesAreBounded ==
    Spec => /\ [](Position \in 0 .. 6 * MaxMethods[suite] + 6)
            /\ [][Position' > Position \/ Shorter]_<<stage, method, todo>>
<1>1. IInv => Position \in 0 .. 6 * MaxMethods[suite] + 6
    <2> SUFFICES ASSUME IInv PROVE Position \in 0 .. 6 * MaxMethods[suite] + 6
        OBVIOUS
    <2>1. /\ Rank[stage] \in 0 .. 6 /\ method \in Nat /\ method <= MaxMethods[suite]
          /\ MaxMethods[suite] \in Nat /\ Position = 6 * method + Rank[stage]
        BY RankOf, HarnessAssumption DEF IInv, TypeInv, HarnessTypeOK, Position
    <2>2. QED
        BY <2>1
<1>2. IInv /\ IInv' /\ [Next]_vars => [Position' > Position \/ Shorter]_<<stage, method, todo>>
    <2> SUFFICES ASSUME IInv, IInv', [Next]_vars,
                        <<stage, method, todo>>' # <<stage, method, todo>>
                 PROVE  Position' > Position \/ Shorter
        OBVIOUS
    <2>1. Thread
        BY DEF Next, Processes, vars, harnessVars, control
    <2>2. QED
        BY <2>1, StepShortens, ClassGoesOn DEF Thread
<1>3. QED
    BY <1>1, <1>2, HarnessInvariant, PTL DEF Spec

=============================================================================
