-------------------------- MODULE TestBodiesProofs --------------------------
(***************************************************************************)
(* Proofs about what the bodies of devnet tests do, one part after another:*)
(* channels opened (for every number of channels and tries), payments      *)
(* through a P2pPeer (every number of sends, payments and retries), and    *)
(* the chain (every set of coins, every number of transactions and tests). *)
(* TestBodies runs the parts, each by itself.                              *)
(***************************************************************************)
EXTENDS TestBodies, FiniteSetTheorems, SequenceTheorems, WellFoundedInduction, TLAPS

-----------------------------------------------------------------------------
(* Opening channels. *)

\* The type invariant, with the channels as a sequence, and the two ways to open one.
ChansOK ==
    /\ chans \in Seq(ChannelStates)
    /\ via \in {"open", "propose"}
    /\ OpeningTypeOK

\* Until the answer to open_channel has come nothing is known of a new channel; and
\* the test accepts only a channel it knows.
StepInv ==
    /\ step \in {"accept", "proposed"} => temp # 0
    /\ step = "fee" => first # 0
    /\ step \in {"proposed", "wait_ready"} => via = "propose"
    /\ Opening => {temp, opened, first, feeSetOn} = {0}

\* Beside the channels there were when open_channel began, and beside none if there
\* were none, only the channel just opened is listed, unless an answer was lost.
NewcomersInv ==
    ~lost => /\ via = "open" => Listed \subseteq existing \cup {temp}
             /\ ~older => Listed \subseteq {temp}
             /\ ~older => first \in {0, temp}

OpeningInv == ChansOK /\ StepInv /\ NewcomersInv /\ OpensItsChannel

\* A channel that changes its state is the same entry of a list as long as before.
LEMMA MovesKeepTypes ==
    ASSUME chans \in Seq(ChannelStates), NEW c \in DOMAIN chans, NEW s \in ChannelStates,
           chans' = [chans EXCEPT ![c] = s]
    PROVE  /\ chans' \in Seq(ChannelStates)
           /\ Len(chans') = Len(chans)
           /\ DOMAIN chans' = DOMAIN chans
OBVIOUS

\* A closed channel stays closed: moves and acceptances list no other channel.
LEMMA MovesListNoOther ==
    ASSUME chans \in Seq(ChannelStates), NEW c \in Listed, NEW s \in ChannelStates,
           chans' = [chans EXCEPT ![c] = s]
    PROVE  Listed' \subseteq Listed
<1>1. c \in DOMAIN chans
    BY DEF Listed
<1>2. DOMAIN chans' = DOMAIN chans
    BY <1>1, MovesKeepTypes
<1>3. \A d \in DOMAIN chans : d # c => chans'[d] = chans[d]
    OBVIOUS
<1>4. QED
    BY <1>2, <1>3 DEF Listed

\* A created channel is the last of the list, and the only new one listed.
LEMMA CreateFacts ==
    ASSUME ChansOK, Create
    PROVE  /\ chans' \in Seq(ChannelStates)
           /\ Len(chans') <= MaxChannels
           /\ DOMAIN chans' = DOMAIN chans \cup {Len(chans) + 1}
           /\ Listed' \subseteq Listed \cup {Len(chans) + 1}
<1> DEFINE s == IF auto THEN "Accepted" ELSE "Negotiating"
<1>1. s \in ChannelStates /\ chans' = Append(chans, s)
    BY DEF Create, ChannelStates
<1>2. chans \in Seq(ChannelStates) /\ MaxChannels \in Nat
    BY OpeningAssumption DEF ChansOK
<1> HIDE DEF s
<1>3. /\ chans' \in Seq(ChannelStates)
      /\ Len(chans') = Len(chans) + 1
      /\ \A d \in DOMAIN chans : chans'[d] = chans[d]
    BY <1>1, <1>2
<1>4. DOMAIN chans' = DOMAIN chans \cup {Len(chans) + 1}
    BY <1>2, <1>3
<1>5. Len(chans') <= MaxChannels
    BY <1>2, <1>3 DEF Create
<1>6. QED
    BY <1>3, <1>4, <1>5 DEF Listed

\* The test begins in a state of the inductive invariant.
LEMMA InitOpeningInv == OpeningInit => OpeningInv
<1> SUFFICES ASSUME OpeningInit PROVE OpeningInv
    OBVIOUS
<1>1. ChansOK
    <2>1. /\ chans \in Seq(ChannelStates)
          /\ Len(chans) = 0
          /\ DOMAIN chans = {}
        BY DEF OpeningInit
    <2>2. MaxChannels \in Nat /\ 1 \in 1 .. OpenTries
        BY OpeningAssumption
    <2>3. {auto, older, lost} \subseteq BOOLEAN
        BY Zenon DEF OpeningInit
    <2>4. QED
        BY <2>1, <2>2, <2>3 DEF OpeningInit, ChansOK, OpeningTypeOK
<1>2. Listed = {}
    BY DEF OpeningInit, Listed
<1>3. StepInv /\ NewcomersInv /\ OpensItsChannel
    BY <1>2 DEF OpeningInit, StepInv, Opening, NewcomersInv, OpensItsChannel
<1>4. QED
    BY <1>1, <1>3 DEF OpeningInv

\* Every step keeps it.
LEMMA NextOpeningInv == OpeningInv /\ [OpeningNext]_openVars => OpeningInv'
<1> SUFFICES ASSUME OpeningInv, [OpeningNext]_openVars PROVE OpeningInv'
    OBVIOUS
<1> USE DEF OpeningInv
<1>0. /\ chans \in Seq(ChannelStates)
      /\ Listed \subseteq DOMAIN chans
      /\ 0 \notin Listed
      /\ OpenTries \in Nat \ {0}
    BY OpeningAssumption DEF ChansOK, Listed
<1>1. CASE ChannelMoves
    <2>1. PICK c \in DOMAIN chans, next \in ChannelStates :
              chans[c] # "Closed" /\ chans' = [chans EXCEPT ![c] = next]
        BY <1>1 DEF ChannelMoves
    <2>2. /\ chans' \in Seq(ChannelStates)
          /\ Len(chans') = Len(chans)
          /\ DOMAIN chans' = DOMAIN chans
        BY <1>0, <2>1, MovesKeepTypes
    <2>3. Listed' \subseteq Listed
        BY <1>0, <2>1, MovesListNoOther DEF Listed
    <2>4. ChansOK'
        BY <1>1, <2>2 DEF ChannelMoves, ChansOK, OpeningTypeOK
    <2>5. StepInv' /\ NewcomersInv' /\ OpensItsChannel'
        BY <1>1, <2>3 DEF ChannelMoves, StepInv, Opening, NewcomersInv, OpensItsChannel
    <2>6. QED
        BY <2>4, <2>5
<1>2. ASSUME NEW how \in {"open", "propose"}, Begin(how),
             how = "open" => existing' = Listed,
             how = "propose" => UNCHANGED existing
      PROVE  OpeningInv'
    <2>1. Listed' = Listed
        BY <1>2 DEF Begin, Listed
    <2>2. ChansOK'
        <3>1. {auto', older', lost'} \subseteq BOOLEAN
            BY <1>2, Zenon DEF Begin
        <3>2. existing' \subseteq DOMAIN chans /\ 1 \in 1 .. OpenTries
            BY <1>0, <1>2 DEF ChansOK, OpeningTypeOK
        <3>3. QED
            BY <1>2, <3>1, <3>2 DEF Begin, ChansOK, OpeningTypeOK
    <2>3. StepInv'
        BY <1>2 DEF Begin, StepInv, Opening
    <2>4. NewcomersInv' /\ OpensItsChannel'
        BY <1>2, <2>1 DEF Begin, NewcomersInv, OpensItsChannel
    <2>5. QED
        BY <2>2, <2>3, <2>4
<1>3. CASE OpenAnswered
    <2>1. Create /\ temp' = Len(chans) + 1
        BY <1>3 DEF OpenAnswered
    <2>2. /\ chans' \in Seq(ChannelStates)
          /\ Len(chans') <= MaxChannels
          /\ DOMAIN chans' = DOMAIN chans \cup {temp'}
          /\ Listed' \subseteq Listed \cup {temp'}
        BY <2>1, CreateFacts
    <2>3. temp = 0 /\ opened = 0 /\ first = 0 /\ feeSetOn = 0
        BY <1>3 DEF OpenAnswered, StepInv
    <2>4. /\ step' \in {"proposed", "wait_new", "accept"} /\ temp' # 0
          /\ step' = "proposed" => via = "propose"
        BY <1>0, <1>3 DEF OpenAnswered, ChansOK, OpeningTypeOK
    <2>5. ChansOK'
        BY <1>3, <2>2, <2>3, <2>4 DEF OpenAnswered, ChansOK, OpeningTypeOK
    <2>6. StepInv'
        BY <1>3, <2>3, <2>4 DEF OpenAnswered, StepInv, Opening, ChansOK
    <2>7. NewcomersInv' /\ OpensItsChannel'
        BY <1>0, <1>3, <2>2, <2>3 DEF OpenAnswered, NewcomersInv, OpensItsChannel
    <2>8. QED
        BY <2>5, <2>6, <2>7
<1>4. CASE OpenRefused
    <2>1. Listed' = Listed
        BY <1>4 DEF OpenRefused, Listed
    <2>2. step' \in {step, "raised"} /\ openTry' \in 1 .. OpenTries
        BY <1>0, <1>4 DEF OpenRefused, NextTry, ChansOK, OpeningTypeOK
    <2>3. ChansOK'
        BY <1>4, <2>2 DEF OpenRefused, ChansOK, OpeningTypeOK
    <2>4. StepInv' /\ NewcomersInv' /\ OpensItsChannel'
        BY <1>4, <2>1, <2>2 DEF OpenRefused, StepInv, Opening, NewcomersInv, OpensItsChannel
    <2>5. QED
        BY <2>3, <2>4
<1>5. CASE OpenBroken
    <2>1. /\ chans' \in Seq(ChannelStates)
          /\ Len(chans') <= MaxChannels
          /\ DOMAIN chans \subseteq DOMAIN chans'
        <3>1. CASE Create
            BY <3>1, CreateFacts
        <3>2. CASE UNCHANGED chans
            BY <3>2 DEF ChansOK, OpeningTypeOK
        <3>3. QED
            BY <1>5, <3>1, <3>2 DEF OpenBroken
    <2>2. step' \in {step, "raised"} /\ openTry' \in 1 .. OpenTries
        BY <1>0, <1>5 DEF OpenBroken, NextTry, ChansOK, OpeningTypeOK
    <2>3. ChansOK'
        BY <1>5, <2>1, <2>2 DEF OpenBroken, ChansOK, OpeningTypeOK
    <2>4. StepInv' /\ NewcomersInv' /\ OpensItsChannel'
        BY <1>5, <2>2 DEF OpenBroken, StepInv, Opening, NewcomersInv, OpensItsChannel
    <2>5. QED
        BY <2>3, <2>4
<1>6. ASSUME NEW from \in {"accept", "proposed"}, NEW next \in {"wait_new", "wait_ready"},
             next = "wait_ready" => via = "propose",
             AcceptTemp(from, next)
      PROVE  OpeningInv'
    <2>1. temp \in DOMAIN chans
        BY <1>6 DEF AcceptTemp, StepInv, ChansOK, OpeningTypeOK
    <2>2. /\ chans' \in Seq(ChannelStates)
          /\ Len(chans') = Len(chans)
          /\ DOMAIN chans' = DOMAIN chans
          /\ Listed' \subseteq Listed
        <3>1. CASE chans[temp] \in {"Negotiating", "Accepted"}
            <4>1. temp \in Listed /\ "Accepted" \in ChannelStates
                BY <2>1, <3>1 DEF Listed, ChannelStates
            <4>2. chans' = [chans EXCEPT ![temp] = "Accepted"]
                BY <1>6, <3>1 DEF AcceptTemp
            <4>3. QED
                BY <1>0, <2>1, <4>1, <4>2, MovesKeepTypes, MovesListNoOther
        <3>2. CASE ~(chans[temp] \in {"Negotiating", "Accepted"})
            BY <1>0, <1>6, <3>2 DEF AcceptTemp, Listed
        <3>3. QED
            BY <3>1, <3>2
    <2>3. step' \in {next, "raised"}
        BY <1>6 DEF AcceptTemp
    <2>4. ChansOK'
        BY <1>6, <2>2, <2>3 DEF AcceptTemp, ChansOK, OpeningTypeOK
    <2>5. StepInv' /\ NewcomersInv' /\ OpensItsChannel'
        BY <1>6, <2>2, <2>3
        DEF AcceptTemp, StepInv, Opening, ChansOK, NewcomersInv, OpensItsChannel
    <2>6. QED
        BY <2>4, <2>5
<1>7. CASE WaitNew
    <2>1. Listed' = Listed /\ opened' \in Listed \ existing
        BY <1>7 DEF WaitNew, NewReady, Listed
    <2>2. step' \in {"idle", "list"}
        BY <1>7 DEF WaitNew
    <2>3. ChansOK'
        BY <1>0, <1>7, <2>1, <2>2 DEF WaitNew, ChansOK, OpeningTypeOK
    <2>4. StepInv' /\ NewcomersInv' /\ OpensItsChannel'
        BY <1>7, <2>1, <2>2 DEF WaitNew, StepInv, Opening, ChansOK, NewcomersInv, OpensItsChannel
    <2>5. QED
        BY <2>3, <2>4
<1>8. CASE WaitReady
    <2>1. Listed' = Listed /\ opened' \in Listed /\ via = "propose"
        BY <1>8 DEF WaitReady, FirstReady, Listed, StepInv
    <2>2. ChansOK'
        BY <1>0, <1>8, <2>1 DEF WaitReady, ChansOK, OpeningTypeOK
    <2>3. StepInv' /\ NewcomersInv' /\ OpensItsChannel'
        BY <1>8, <2>1 DEF WaitReady, StepInv, Opening, NewcomersInv, OpensItsChannel
    <2>4. QED
        BY <2>2, <2>3
<1>9. CASE ReadyTimesOut
    <2>1. Listed' = Listed
        BY <1>9 DEF ReadyTimesOut, Listed
    <2>2. ChansOK'
        BY <1>9 DEF ReadyTimesOut, ChansOK, OpeningTypeOK
    <2>3. StepInv' /\ NewcomersInv' /\ OpensItsChannel'
        BY <1>9, <2>1 DEF ReadyTimesOut, StepInv, Opening, ChansOK, NewcomersInv, OpensItsChannel
    <2>4. QED
        BY <2>2, <2>3
<1>10. CASE ListAgain
    <2>1. Listed' = Listed
        BY <1>10 DEF ListAgain, Listed
    <2>2. \/ first' \in Listed /\ step' = "fee"
          \/ step' = "raised" /\ UNCHANGED first
        BY <1>10 DEF ListAgain
    <2>3. ChansOK'
        BY <1>0, <1>10, <2>2 DEF ListAgain, ChansOK, OpeningTypeOK
    <2>4. StepInv' /\ NewcomersInv' /\ OpensItsChannel'
        BY <1>0, <1>10, <2>1, <2>2
        DEF ListAgain, StepInv, Opening, ChansOK, NewcomersInv, OpensItsChannel
    <2>5. QED
        BY <2>3, <2>4
<1>11. CASE SetFee
    <2>1. Listed' = Listed
        BY <1>11 DEF SetFee, Listed
    <2>2. \/ feeSetOn' = first /\ step' = "idle"
          \/ step' = "raised" /\ UNCHANGED feeSetOn
        BY <1>11 DEF SetFee
    <2>3. ChansOK'
        BY <1>11, <2>2 DEF SetFee, ChansOK, OpeningTypeOK
    <2>4. StepInv' /\ NewcomersInv' /\ OpensItsChannel'
        BY <1>11, <2>1, <2>2 DEF SetFee, StepInv, Opening, ChansOK, NewcomersInv, OpensItsChannel
    <2>5. QED
        BY <2>3, <2>4
<1>12. CASE UNCHANGED openVars
    <2>1. Listed' = Listed
        BY <1>12 DEF openVars, Listed
    <2>2. QED
        BY <1>12, <2>1 DEF openVars, ChansOK, OpeningTypeOK, StepInv, Opening,
                           NewcomersInv, OpensItsChannel
<1>13. CASE BeginOpen
    BY <1>2, <1>13 DEF BeginOpen
<1>14. CASE Propose
    BY <1>2, <1>14 DEF Propose
<1>15. CASE Accept
    BY <1>6, <1>15 DEF Accept
<1>16. CASE AcceptProposed
    BY <1>6, <1>16 DEF AcceptProposed, AcceptTemp, StepInv
<1>17. QED
    BY <1>1, <1>3, <1>4, <1>5, <1>7, <1>8, <1>9, <1>10, <1>11, <1>12, <1>13, <1>14, <1>15,
       <1>16 DEF OpeningNext

\* The inductive invariant holds in every behaviour of the component.
LEMMA OpeningInvariant == OpeningSpec => []OpeningInv
BY InitOpeningInv, NextOpeningInv, PTL DEF OpeningSpec

\* Type correctness of the opening of channels.
THEOREM OpeningTypeCorrect == OpeningSpec => []OpeningTypeOK
<1>1. OpeningInv => OpeningTypeOK
    BY DEF OpeningInv, ChansOK
<1>2. QED
    BY OpeningInvariant, <1>1, PTL

\* open_channel returns the channel it has opened, unless an answer was lost; and
\* between nodes without an older channel the id a test gets, and the channel whose
\* fee it sets, are those it asked for, however many channels are created and closed.
THEOREM OpeningReturnsItsChannel == OpeningSpec => []OpensItsChannel
<1>1. OpeningInv => OpensItsChannel
    BY DEF OpeningInv
<1>2. QED
    BY OpeningInvariant, <1>1, PTL

-----------------------------------------------------------------------------
(* Payments through a P2pPeer. *)

PayStates == {"Inflight", "Success", "Failed"}
SendEnds == {"none", "returned", "raised"}
OpNames == {"idle", "over", "send", "await", "wait", "wait_deliver", "wait_held", "wait_release"}
Paying == op.name \in {"send", "await"}

\* Who a payment is of, and that the one send that has not ended is being worked on.
SendsOK ==
    /\ pays \in Seq([send : Nat, status : PayStates])
    /\ sends \in Seq([invoice : BOOLEAN, wait : BOOLEAN, end : SendEnds])
    /\ \A p \in DOMAIN pays : pays[p].send \in DOMAIN sends
    /\ Len(pays) <= MaxPays /\ Len(sends) <= MaxSends
    /\ unknown \subseteq DOMAIN sends
    /\ op.name \in OpNames
    /\ rule \in Rules \cup {NoRule}
    /\ attempt \in 1 .. TryCount + 1 /\ rpcTry \in 1 .. RpcTries
    /\ Paying => Current \in DOMAIN sends
    /\ \A n \in DOMAIN sends : sends[n].end = "none" <=> n = Current /\ Paying

\* Messages beyond the wire to the attacker.
Elsewhere == UNION {actor, captured, held, inbox, leftover}

\* The attacker's node has seen the payment's TLC.
Touched(p) == (\E m \in Elsewhere : m.pay = p) \/ <<"AddTlc", p>> \in gone

Letters == [kind : Kinds, pay : DOMAIN pays, ok : BOOLEAN]

\* A TLC still on its way has been seen by nobody: no answer to it is anywhere, and
\* its payment is not final.
LettersOK ==
    /\ wire \cup Elsewhere \subseteq Letters
    /\ gone \subseteq {"AddTlc", "RemoveTlc"} \X DOMAIN pays
    /\ \A m \in wire : m.kind = "AddTlc" =>
          /\ pays[m.pay].status = "Inflight"
          /\ ~Touched(m.pay)
          /\ \A n \in wire : n.pay = m.pay => n = m

PaysOf(n) == {p \in DOMAIN pays : pays[p].send = n}
AllFailed(set) == \A p \in set : pays[p].status = "Failed"

\* A send goes on only when all it has paid for so far has failed, as long as it saw
\* how its attempts ended.
OutcomeOf(n) ==
    /\ \E q \in Nat : AllFailed(PaysOf(n) \ {q})
    /\ n = Current /\ Busy("send") => AllFailed(PaysOf(n))
    /\ n = Current /\ Busy("await") => /\ AllFailed(PaysOf(n) \ {Len(pays)})
                                       /\ Len(pays) \in PaysOf(n)
                                       /\ sends[n].wait
    /\ sends[n].end = "raised" => AllFailed(PaysOf(n))
    /\ sends[n].end = "returned" /\ sends[n].wait =>
          \E p \in PaysOf(n) : pays[p].status = "Success"

OutcomesOK == \A n \in DOMAIN sends \ unknown : OutcomeOf(n)

PaymentsInv == SendsOK /\ LettersOK /\ OutcomesOK

-----------------------------------------------------------------------------
(* Messages *)

\* Moving messages about, taking them away and answering a TLC that has arrived
\* touches no payment whose TLC is still on its way.
LEMMA LettersMove ==
    ASSUME LettersOK, pays' = pays,
           \A m \in wire' : m \in wire \/ (m \in Letters /\ m.kind # "AddTlc" /\ Touched(m.pay)),
           \A m \in Elsewhere' : m \in Letters /\ Touched(m.pay),
           \A g \in gone' : g \in gone \/ \E m \in Letters :
                                              /\ g = <<m.kind, m.pay>> /\ Touched(m.pay)
                                              /\ m.kind # "CommitmentSigned"
    PROVE  LettersOK'
<1>1. ASSUME NEW p, Touched(p)'
      PROVE  Touched(p)
    <2>1. CASE \E m \in Elsewhere' : m.pay = p
        BY <2>1
    <2>2. CASE <<"AddTlc", p>> \in gone'
        <3>1. CASE <<"AddTlc", p>> \in gone
            BY <3>1 DEF Touched
        <3>2. CASE \E m \in Letters : <<"AddTlc", p>> = <<m.kind, m.pay>> /\ Touched(m.pay)
            BY <3>2
        <3>3. QED
            BY <2>2, <3>1, <3>2
    <2>3. QED
        BY <1>1, <2>1, <2>2 DEF Touched
<1>2. Letters' = Letters
    BY DEF Letters
<1>3. wire' \cup Elsewhere' \subseteq Letters
    BY DEF LettersOK
<1>4. gone' \subseteq {"AddTlc", "RemoveTlc"} \X DOMAIN pays
    <2>1. ASSUME NEW m \in Letters, m.kind # "CommitmentSigned"
          PROVE  <<m.kind, m.pay>> \in {"AddTlc", "RemoveTlc"} \X DOMAIN pays
        BY <2>1 DEF Letters, Kinds, In, Out
    <2>2. QED
        BY <2>1 DEF LettersOK
<1>5. ASSUME NEW m \in wire', m.kind = "AddTlc"
      PROVE  /\ pays'[m.pay].status = "Inflight"
             /\ ~Touched(m.pay)'
             /\ \A n \in wire' : n.pay = m.pay => n = m
    <2>1. /\ m \in wire /\ pays[m.pay].status = "Inflight" /\ ~Touched(m.pay)
          /\ \A n \in wire : n.pay = m.pay => n = m
        BY <1>5 DEF LettersOK
    <2>2. \A n \in wire' : n.pay = m.pay => n = m
        BY <2>1
    <2>3. QED
        BY <1>1, <2>1, <2>2
<1>6. QED
    BY <1>2, <1>3, <1>4, <1>5 DEF LettersOK

\* Whatever is beyond the wire is a message of a payment that was touched.
LEMMA ElsewhereFacts ==
    ASSUME LettersOK
    PROVE  /\ \A m \in actor \cup captured \cup held \cup inbox \cup leftover :
                  m \in Letters /\ Touched(m.pay)
           /\ \A msgs \in SUBSET Elsewhere : \A g \in Trace(msgs) :
                  \E m \in Letters : /\ g = <<m.kind, m.pay>> /\ Touched(m.pay)
                                     /\ m.kind # "CommitmentSigned"
<1>1. \A m \in Elsewhere : m \in Letters /\ Touched(m.pay)
    BY DEF LettersOK, Touched
<1>2. Elsewhere = actor \cup captured \cup held \cup inbox \cup leftover
    BY DEF Elsewhere
<1>3. ASSUME NEW msgs \in SUBSET Elsewhere, NEW g \in Trace(msgs)
      PROVE  \E m \in Letters : /\ g = <<m.kind, m.pay>> /\ Touched(m.pay)
                                /\ m.kind # "CommitmentSigned"
    BY <1>1 DEF Trace
<1>4. QED
    BY <1>1, <1>2, <1>3

\* The steps of the queues.
QueueStep ==
    \/ Intercept \/ ClearIntercept \/ BeginWait \/ WaitTimesOut \/ SendRaw
    \/ Take \/ WaitPoll \/ Deliver \/ DeliverPoll
    \/ TakeHeld \/ HeldPoll \/ Release \/ ReleasePoll

\* No step of the queues touches a payment whose TLC is still on its way.
LEMMA QueueKeepsLetters ==
    ASSUME SendsOK, LettersOK, QueueStep
    PROVE  LettersOK'
<1>1. /\ \A m \in actor \cup captured \cup held \cup inbox \cup leftover :
             m \in Letters /\ Touched(m.pay)
      /\ \A msgs \in SUBSET Elsewhere : \A g \in Trace(msgs) :
             \E m \in Letters : /\ g = <<m.kind, m.pay>> /\ Touched(m.pay)
                                /\ m.kind # "CommitmentSigned"
    BY ElsewhereFacts
<1>2. Elsewhere = actor \cup captured \cup held \cup inbox \cup leftover
    BY DEF Elsewhere
<1>3. Elsewhere' = actor' \cup captured' \cup held' \cup inbox' \cup leftover'
    BY DEF Elsewhere
<1>4. ASSUME UNCHANGED <<pays, wire>>, Elsewhere' \subseteq Elsewhere,
             NEW msgs \in SUBSET Elsewhere, gone' \subseteq gone \cup Trace(msgs)
      PROVE  LettersOK'
    <2>1. \A m \in wire' : m \in wire
        BY <1>4
    <2>2. \A m \in Elsewhere' : m \in Letters /\ Touched(m.pay)
        BY <1>1, <1>2, <1>4
    <2>3. \A g \in gone' : g \in gone \/ \E m \in Letters :
                                             /\ g = <<m.kind, m.pay>> /\ Touched(m.pay)
                                             /\ m.kind # "CommitmentSigned"
        BY <1>1, <1>4
    <2>4. QED
        BY <1>4, <2>1, <2>2, <2>3, LettersMove
<1>5. CASE Intercept \/ ClearIntercept \/ BeginWait \/ WaitTimesOut
    <2>1. /\ UNCHANGED <<pays, wire, actor, captured, held, inbox>>
          /\ leftover' \subseteq leftover
          /\ gone' \subseteq gone \cup Trace(leftover)
        BY <1>5 DEF Intercept, ClearIntercept, BeginWait, WaitTimesOut, nodeVars
    <2>2. leftover \in SUBSET Elsewhere /\ Elsewhere' \subseteq Elsewhere
        BY <1>2, <1>3, <2>1
    <2>3. QED
        BY <1>4, <2>1, <2>2
<1>6. ASSUME NEW kind, TakeMatching(kind)
      PROVE  LettersOK'
    <2>1. /\ UNCHANGED <<pays, wire, actor, held, leftover>>
          /\ captured' = {} /\ inbox' \subseteq inbox \cup captured
          /\ gone' \subseteq gone \cup Trace(Matching(inbox \cup captured, kind))
        BY <1>6 DEF TakeMatching, Others, nodeVars
    <2>2. Matching(inbox \cup captured, kind) \in SUBSET Elsewhere
        BY <1>2 DEF Matching
    <2>3. Elsewhere' \subseteq Elsewhere
        BY <1>2, <1>3, <2>1
    <2>4. QED
        BY <1>4, <2>1, <2>2, <2>3
<1>7. ASSUME NEW kind, DeliverMatching(kind)
      PROVE  LettersOK'
    <2>1. /\ UNCHANGED <<pays, wire, gone, held, inbox, leftover>>
          /\ captured' \subseteq captured /\ actor' \subseteq actor \cup captured
        BY <1>7 DEF DeliverMatching, Others, Matching
    <2>2. Elsewhere' \subseteq Elsewhere /\ {} \in SUBSET Elsewhere
        BY <1>2, <1>3, <2>1
    <2>3. QED
        BY <1>4, <2>1, <2>2
<1>8. CASE TakeHeld
    <2>1. /\ UNCHANGED <<pays, wire, actor, captured, inbox, leftover>>
          /\ held' = {} /\ gone' \subseteq gone \cup Trace(held)
        BY <1>8 DEF TakeHeld, nodeVars
    <2>2. held \in SUBSET Elsewhere /\ Elsewhere' \subseteq Elsewhere
        BY <1>2, <1>3, <2>1
    <2>3. QED
        BY <1>4, <2>1, <2>2
<1>9. CASE HeldPoll
    <2>1. /\ UNCHANGED <<pays, wire, actor, captured, inbox>>
          /\ held' = {} /\ leftover' \subseteq leftover \cup held
          /\ gone' \subseteq gone \cup Trace(leftover \cup held)
        BY <1>9 DEF HeldPoll, nodeVars
    <2>2. leftover \cup held \in SUBSET Elsewhere /\ Elsewhere' \subseteq Elsewhere
        BY <1>2, <1>3, <2>1
    <2>3. QED
        BY <1>4, <2>1, <2>2
<1>10. ASSUME NEW kind, ReleaseMatching(kind)
       PROVE  LettersOK'
    <2>1. /\ UNCHANGED <<pays, actor, captured, inbox, leftover, gone>>
          /\ held' \subseteq held
          /\ \A m \in wire' : m \in wire \/ (m \in held /\ m.kind = "RemoveTlc")
        BY <1>10 DEF ReleaseMatching, Others, Matching
    <2>2. \A m \in wire' : m \in wire \/ (m \in Letters /\ m.kind # "AddTlc" /\ Touched(m.pay))
        BY <1>1, <2>1
    <2>3. \A m \in Elsewhere' : m \in Letters /\ Touched(m.pay)
        BY <1>1, <1>3, <2>1
    <2>4. QED
        BY <2>1, <2>2, <2>3, LettersMove
<1>11. CASE SendRaw
    <2>1. PICK p \in DOMAIN pays :
              /\ <<"AddTlc", p>> \in gone \cup Trace(captured \cup inbox)
              /\ wire' = wire \cup {Msg("RemoveTlc", p, FALSE)}
        BY <1>11 DEF SendRaw
    <2>2. UNCHANGED <<pays, actor, captured, held, inbox, leftover, gone>>
        BY <1>11 DEF SendRaw, queueVars
    <2>3. Touched(p)
        <3>1. CASE <<"AddTlc", p>> \in gone
            BY <3>1 DEF Touched
        <3>2. CASE <<"AddTlc", p>> \in Trace(captured \cup inbox)
            <4>1. captured \cup inbox \in SUBSET Elsewhere
                BY <1>2
            <4>2. \E m \in Letters : <<"AddTlc", p>> = <<m.kind, m.pay>> /\ Touched(m.pay)
                BY <1>1, <3>2, <4>1
            <4>3. QED
                BY <4>2
        <3>3. QED
            BY <2>1, <3>1, <3>2
    <2>4. /\ Msg("RemoveTlc", p, FALSE) \in Letters
          /\ Msg("RemoveTlc", p, FALSE).kind # "AddTlc"
          /\ Msg("RemoveTlc", p, FALSE).pay = p
        BY DEF Msg, Letters, Kinds, In, Out
    <2>5. \A m \in wire' : m \in wire \/ (m \in Letters /\ m.kind # "AddTlc" /\ Touched(m.pay))
        BY <2>1, <2>3, <2>4
    <2>6. \A m \in Elsewhere' : m \in Letters /\ Touched(m.pay)
        BY <1>1, <1>3, <2>2
    <2>7. QED
        BY <2>2, <2>5, <2>6, LettersMove
<1>12. QED
    BY <1>5, <1>6, <1>7, <1>8, <1>9, <1>10, <1>11
       DEF QueueStep, Take, WaitPoll, Deliver, DeliverPoll, Release, ReleasePoll

\* A TLC that arrives is the only message of its payment so far.
LEMMA ArrivalKeepsLetters ==
    ASSUME SendsOK, LettersOK, NEW q, ArriveIn(q)
    PROVE  LettersOK'
<1>1. PICK m \in wire :
          /\ m.kind = "AddTlc" /\ m.pay = q
          /\ wire' = wire \ {m}
          /\ gone' \subseteq gone \cup Trace({m})
          /\ captured' \subseteq captured \cup {m} /\ actor' \subseteq actor \cup {m}
          /\ UNCHANGED <<pays, held, inbox, leftover>>
    BY DEF ArriveIn
<1>2. /\ m \in Letters
      /\ \A n \in wire : n.pay = q => n = m
    BY <1>1 DEF LettersOK
<1>3. Letters' = Letters
    BY <1>1 DEF Letters
<1>4. Elsewhere' \subseteq Elsewhere \cup {m}
    BY <1>1 DEF Elsewhere
<1>5. Trace({m}) = {<<"AddTlc", q>>}
    BY <1>1 DEF Trace
<1>6. ASSUME NEW p, p # q, Touched(p)'
      PROVE  Touched(p)
    <2>1. (\E n \in Elsewhere' : n.pay = p) => \E n \in Elsewhere : n.pay = p
        BY <1>1, <1>4, <1>6
    <2>2. <<"AddTlc", p>> \in gone' => <<"AddTlc", p>> \in gone
        BY <1>1, <1>5, <1>6
    <2>3. QED
        BY <1>6, <2>1, <2>2 DEF Touched
<1>7. ASSUME NEW n \in wire', n.kind = "AddTlc"
      PROVE  /\ pays'[n.pay].status = "Inflight"
             /\ ~Touched(n.pay)'
             /\ \A o \in wire' : o.pay = n.pay => o = n
    <2>1. n \in wire /\ n # m /\ n.pay # q
        BY <1>1, <1>2
    <2>2. /\ pays[n.pay].status = "Inflight" /\ ~Touched(n.pay)
          /\ \A o \in wire : o.pay = n.pay => o = n
        BY <1>7, <2>1 DEF LettersOK
    <2>3. QED
        BY <1>1, <1>6, <2>1, <2>2
<1>8. wire' \cup Elsewhere' \subseteq Letters'
    BY <1>1, <1>2, <1>3, <1>4 DEF LettersOK
<1>9. gone' \subseteq {"AddTlc", "RemoveTlc"} \X DOMAIN pays'
    <2>1. q \in DOMAIN pays
        BY <1>1, <1>2 DEF Letters
    <2>2. <<"AddTlc", q>> \in {"AddTlc", "RemoveTlc"} \X DOMAIN pays
        BY <2>1
    <2>3. gone \subseteq {"AddTlc", "RemoveTlc"} \X DOMAIN pays
        BY DEF LettersOK
    <2>4. DOMAIN pays' = DOMAIN pays
        BY <1>1
    <2>5. QED
        BY <1>1, <1>5, <2>2, <2>3, <2>4
<1>10. QED
    BY <1>7, <1>8, <1>9 DEF LettersOK

\* The actor answers a TLC it has, so one that was touched.
LEMMA ProcessKeepsLetters ==
    ASSUME SendsOK, LettersOK, NEW q, Process(q)
    PROVE  LettersOK'
<1>1. PICK m \in actor, ok \in BOOLEAN :
          LET out == {Msg("RemoveTlc", m.pay, ok), Msg("CommitmentSigned", m.pay, TRUE)}
              dropped == {n \in out : n.kind \in rule.dropOut}
              toHold == {n \in out : n.kind \in rule.hold}
          IN  /\ actor' = actor \ {m}
              /\ gone' = gone \cup Trace(dropped)
              /\ held' = held \cup toHold
              /\ wire' = wire \cup {n \in out \ (dropped \cup toHold) : n.kind = "RemoveTlc"}
              /\ UNCHANGED <<pays, captured, inbox, leftover>>
    BY DEF Process
<1> DEFINE out == {Msg("RemoveTlc", m.pay, ok), Msg("CommitmentSigned", m.pay, TRUE)}
<1>2. /\ \A n \in actor \cup captured \cup held \cup inbox \cup leftover :
             n \in Letters /\ Touched(n.pay)
    BY ElsewhereFacts
<1>3. \A n \in out : n \in Letters /\ n.pay = m.pay /\ n.kind # "AddTlc" /\ Touched(n.pay)
    <2>1. m \in Letters /\ Touched(m.pay)
        BY <1>2
    <2>2. m.pay \in DOMAIN pays
        BY <2>1 DEF Letters
    <2>3. \A kind \in Out, b \in BOOLEAN :
              /\ Msg(kind, m.pay, b) \in Letters
              /\ Msg(kind, m.pay, b).pay = m.pay /\ Msg(kind, m.pay, b).kind = kind
        BY <2>2 DEF Msg, Letters, Kinds, Out
    <2>4. "AddTlc" \notin Out /\ {"RemoveTlc", "CommitmentSigned"} = Out
        BY DEF Out
    <2>5. QED
        BY <2>1, <2>3, <2>4
<1>4. /\ \A n \in wire' : n \in wire \/ n \in out
      /\ \A n \in Elsewhere' : n \in Elsewhere \cup out
      /\ \A g \in gone' : g \in gone \/ \E n \in out : g = <<n.kind, n.pay>>
                                                  /\ n.kind # "CommitmentSigned"
    BY <1>1 DEF Elsewhere, Trace
<1> HIDE DEF out
<1>5. \A n \in Elsewhere' : n \in Letters /\ Touched(n.pay)
    <2>1. Elsewhere = actor \cup captured \cup held \cup inbox \cup leftover
        BY DEF Elsewhere
    <2>2. QED
        BY <1>2, <1>3, <1>4, <2>1
<1>6. \A n \in wire' : n \in wire \/ (n \in Letters /\ n.kind # "AddTlc" /\ Touched(n.pay))
    BY <1>3, <1>4
<1>7. \A g \in gone' : g \in gone \/ \E n \in Letters :
                                       /\ g = <<n.kind, n.pay>> /\ Touched(n.pay)
                                       /\ n.kind # "CommitmentSigned"
    BY <1>3, <1>4
<1>8. QED
    BY <1>1, <1>5, <1>6, <1>7, LettersMove

\* The statuses: a payment that is final stays as it is.
Settles ==
    /\ pays' \in Seq([send : Nat, status : PayStates]) /\ Len(pays') = Len(pays)
    /\ DOMAIN pays' = DOMAIN pays
    /\ \A p \in DOMAIN pays : /\ pays'[p].send = pays[p].send
                              /\ pays[p].status # "Inflight" => pays'[p].status = pays[p].status

\* An answer that arrives, or a payment that is given up, makes its payment final.
LEMMA SettleStep ==
    ASSUME SendsOK, LettersOK, NEW q, ArriveOut(q) \/ FailsAlone
    PROVE  LettersOK' /\ Settles
<1>1. /\ pays \in Seq([send : Nat, status : PayStates])
    BY DEF SendsOK
<1>2. UNCHANGED <<Elsewhere, gone>>
    BY DEF ArriveOut, FailsAlone, queueVars, Elsewhere
<1>3. PICK m \in wire, st \in PayStates :
          /\ wire' = wire \ {m}
          /\ pays' = [pays EXCEPT ![m.pay].status = st]
          /\ pays[m.pay].status # "Inflight" => st = pays[m.pay].status
          /\ m.pay \in DOMAIN pays
    <2>1. \A m \in wire : m.pay \in DOMAIN pays
        BY DEF LettersOK, Letters
    <2>2. CASE ArriveOut(q)
        <3>1. PICK m \in wire :
                  /\ m.pay = q /\ wire' = wire \ {m}
                  /\ pays' = [pays EXCEPT ![q].status =
                        IF @ = "Inflight" THEN (IF m.ok THEN "Success" ELSE "Failed") ELSE @]
            BY <2>2 DEF ArriveOut
        <3> DEFINE st == IF pays[q].status = "Inflight"
                         THEN (IF m.ok THEN "Success" ELSE "Failed") ELSE pays[q].status
        <3>2. q \in DOMAIN pays /\ pays[q].status \in PayStates
            <4>1. q \in DOMAIN pays
                BY <2>1, <3>1
            <4>2. pays[q] \in [send : Nat, status : PayStates]
                BY <1>1, <4>1, ElementOfSeq, LenProperties
            <4>3. QED
                BY <4>1, <4>2
        <3>3. st \in PayStates /\ (pays[q].status # "Inflight" => st = pays[q].status)
            BY <3>2 DEF PayStates
        <3>4. pays' = [pays EXCEPT ![q].status = st]
            BY <3>1
        <3> HIDE DEF st
        <3>5. QED
            BY <3>1, <3>2, <3>3, <3>4
    <2>3. CASE FailsAlone
        <3>1. PICK m \in wire :
                  /\ m.kind = "AddTlc" /\ wire' = wire \ {m}
                  /\ pays' = [pays EXCEPT ![m.pay].status = "Failed"]
            BY <2>3 DEF FailsAlone
        <3>2. pays[m.pay].status = "Inflight" /\ "Failed" \in PayStates
            BY <3>1 DEF LettersOK, PayStates
        <3>3. QED
            BY <2>1, <3>1, <3>2
    <2>4. QED
        BY <2>2, <2>3
<1>4. Settles
    <2>1. pays[m.pay] \in [send : Nat, status : PayStates]
        BY <1>1, <1>3, ElementOfSeq, LenProperties
    <2>2. pays' = [pays EXCEPT ![m.pay] = [@ EXCEPT !.status = st]]
        BY <1>3
    <2>3. /\ [pays[m.pay] EXCEPT !.status = st] \in [send : Nat, status : PayStates]
          /\ [pays[m.pay] EXCEPT !.status = st].send = pays[m.pay].send
          /\ [pays[m.pay] EXCEPT !.status = st].status = st
        BY <2>1
    <2>4. pays' \in Seq([send : Nat, status : PayStates]) /\ Len(pays') = Len(pays)
          /\ DOMAIN pays' = DOMAIN pays
        BY <1>1, <1>3, <2>2, <2>3
    <2>5. \A p \in DOMAIN pays : /\ pays'[p].send = pays[p].send
                                 /\ pays[p].status # "Inflight" =>
                                       pays'[p].status = pays[p].status
        BY <1>1, <1>3, <2>2, <2>3
    <2>6. QED
        BY <2>4, <2>5 DEF Settles
<1>5. LettersOK'
    <2>1. Letters' = Letters
        BY <1>4 DEF Settles, Letters
    <2>2. wire' \cup Elsewhere' \subseteq Letters'
        BY <1>2, <1>3, <2>1 DEF LettersOK
    <2>3. gone' \subseteq {"AddTlc", "RemoveTlc"} \X DOMAIN pays'
        BY <1>2, <1>4 DEF LettersOK, Settles
    <2>4. ASSUME NEW n \in wire', n.kind = "AddTlc"
          PROVE  /\ pays'[n.pay].status = "Inflight"
                 /\ ~Touched(n.pay)'
                 /\ \A o \in wire' : o.pay = n.pay => o = n
        <3>1. /\ n \in wire /\ n # m /\ n.pay \in DOMAIN pays
              /\ pays[n.pay].status = "Inflight" /\ ~Touched(n.pay)
              /\ \A o \in wire : o.pay = n.pay => o = n
            BY <1>3, <2>4 DEF LettersOK, Letters
        <3>2. n.pay # m.pay
            BY <3>1
        <3>3. pays'[n.pay] = pays[n.pay]
            BY <1>1, <1>3, <3>1, <3>2
        <3>4. Touched(n.pay)' = Touched(n.pay)
            BY <1>2 DEF Touched
        <3>5. QED
            BY <1>3, <3>1, <3>3, <3>4
    <2>5. QED
        BY <2>2, <2>3, <2>4 DEF LettersOK
<1>6. QED
    BY <1>4, <1>5

\* A call that executes adds a payment of the current send, and its TLC.
Adds ==
    /\ pays' \in Seq([send : Nat, status : PayStates])
    /\ Len(pays) \in Nat /\ Len(pays') = Len(pays) + 1 /\ Len(pays') <= MaxPays
    /\ DOMAIN pays' = DOMAIN pays \cup {Len(pays) + 1} /\ Len(pays) + 1 \notin DOMAIN pays
    /\ pays'[Len(pays) + 1].send = Current
    /\ \A p \in DOMAIN pays : pays'[p] = pays[p]

\* A call that the victim executes adds one payment, with its TLC on the wire.
LEMMA ExecuteStep ==
    ASSUME SendsOK, LettersOK, Execute, UNCHANGED <<captured, held, inbox, leftover, gone>>
    PROVE  LettersOK' /\ Adds
<1> DEFINE new == [send |-> Current, status |-> "Inflight"]
           q == Len(pays) + 1
           m == Msg("AddTlc", q, TRUE)
<1>1. /\ pays \in Seq([send : Nat, status : PayStates]) /\ Len(pays) < MaxPays
      /\ sends \in Seq([invoice : BOOLEAN, wait : BOOLEAN, end : SendEnds])
      /\ pays' = Append(pays, new) /\ wire' = wire \cup {m} /\ UNCHANGED actor
      /\ MaxPays \in Nat
    BY PaymentsAssumption DEF SendsOK, Execute, Accepted
<1>2. new \in [send : Nat, status : PayStates] /\ new.send = Current /\ new.status = "Inflight"
    BY <1>1 DEF PayStates, Current
<1>3. Adds /\ pays'[q] = new
    <2> HIDE DEF new
    <2>1. QED
        BY <1>1, <1>2 DEF Adds
<1>4. UNCHANGED <<Elsewhere, gone>>
    BY <1>1 DEF Elsewhere
<1>5. m \in Letters' /\ m.kind = "AddTlc" /\ m.pay = q
    BY <1>3 DEF Msg, Letters, Adds, Kinds, In
<1>6. Letters \subseteq Letters'
    BY <1>3 DEF Letters, Adds
<1>7. q \notin DOMAIN pays
    BY <1>3 DEF Adds
<1> HIDE DEF m, q
<1>8. wire' \cup Elsewhere' \subseteq Letters'
    BY <1>1, <1>4, <1>5, <1>6 DEF LettersOK
<1>9. gone' \subseteq {"AddTlc", "RemoveTlc"} \X DOMAIN pays'
    BY <1>3, <1>4 DEF LettersOK, Adds
<1>10. \A p : Touched(p)' <=> Touched(p)
    BY <1>4 DEF Touched
<1>11. \A n \in wire \cup Elsewhere : n.pay \in DOMAIN pays
    BY DEF LettersOK, Letters
<1>12. ~Touched(q)
    BY <1>7, <1>11 DEF Touched, LettersOK
<1>13. ASSUME NEW n \in wire', n.kind = "AddTlc"
       PROVE  /\ pays'[n.pay].status = "Inflight"
              /\ ~Touched(n.pay)
              /\ \A o \in wire' : o.pay = n.pay => o = n
    <2>1. CASE n = m
        BY <1>1, <1>2, <1>3, <1>5, <1>7, <1>11, <1>12, <2>1
    <2>2. CASE n \in wire
        <3>1. /\ pays[n.pay].status = "Inflight" /\ ~Touched(n.pay) /\ n.pay \in DOMAIN pays
              /\ \A o \in wire : o.pay = n.pay => o = n
            BY <1>11, <1>13, <2>2 DEF LettersOK
        <3>2. pays'[n.pay] = pays[n.pay] /\ n.pay # q
            BY <1>3, <1>7, <3>1 DEF Adds
        <3>3. QED
            BY <1>1, <1>5, <3>1, <3>2
    <2>3. QED
        BY <1>1, <2>1, <2>2
<1>14. QED
    BY <1>3, <1>8, <1>9, <1>10, <1>13 DEF LettersOK

-----------------------------------------------------------------------------
(* Sends *)

\* While the test does something else, only the payments move, and a send that had
\* one payment that was not final has at most that one.
LEMMA QuietStep ==
    ASSUME SendsOK, OutcomesOK, Settles, UNCHANGED <<sends, unknown, attempt, rpcTry>>,
           op'.name \in OpNames, rule' \in Rules \cup {NoRule},
           op'.name = op.name \/ (op'.name \notin {"send", "await"} /\ ~Paying)
    PROVE  SendsOK' /\ OutcomesOK'
<1>1. /\ Paying' <=> Paying
      /\ Busy("send")' <=> Busy("send")
      /\ Busy("await")' <=> Busy("await")
    BY DEF Paying, Busy
<1>2. SendsOK'
    BY <1>1 DEF SendsOK, Settles, Current, Paying
<1>3. ASSUME NEW n \in DOMAIN sends \ unknown
      PROVE  OutcomeOf(n)'
    <2>1. OutcomeOf(n)
        BY <1>3 DEF OutcomesOK
    <2>2. PaysOf(n)' = PaysOf(n)
        BY DEF PaysOf, Settles
    <2>3. \A p \in PaysOf(n) : /\ pays[p].status = "Failed" => pays'[p].status = "Failed"
                               /\ pays[p].status = "Success" => pays'[p].status = "Success"
        BY DEF PaysOf, Settles
    <2>4. Len(pays') = Len(pays) /\ Current' = Current
        BY DEF Settles, Current
    <2>5. \A set \in SUBSET PaysOf(n) :
              AllFailed(set) => \A p \in set : pays'[p].status = "Failed"
        BY <2>3 DEF AllFailed
    <2>6. /\ \E q \in Nat : \A p \in PaysOf(n) \ {q} : pays'[p].status = "Failed"
          /\ n = Current /\ Busy("send") => \A p \in PaysOf(n) : pays'[p].status = "Failed"
          /\ n = Current /\ Busy("await") =>
                 \A p \in PaysOf(n) \ {Len(pays)} : pays'[p].status = "Failed"
          /\ sends[n].end = "raised" => \A p \in PaysOf(n) : pays'[p].status = "Failed"
        BY <2>1, <2>5 DEF OutcomeOf
    <2>7. /\ n = Current /\ Busy("await") => Len(pays) \in PaysOf(n) /\ sends[n].wait
          /\ sends[n].end = "returned" /\ sends[n].wait =>
                 \E p \in PaysOf(n) : pays'[p].status = "Success"
        BY <2>1, <2>3 DEF OutcomeOf
    <2>8. (\E q \in Nat : AllFailed(PaysOf(n) \ {q}))'
        BY <2>2, <2>6 DEF AllFailed
    <2>9. (n = Current /\ Busy("send") => AllFailed(PaysOf(n)))'
        BY <1>1, <2>2, <2>4, <2>6 DEF AllFailed
    <2>10. (n = Current /\ Busy("await") => /\ AllFailed(PaysOf(n) \ {Len(pays)})
                                            /\ Len(pays) \in PaysOf(n)
                                            /\ sends[n].wait)'
        BY <1>1, <2>2, <2>4, <2>6, <2>7 DEF AllFailed
    <2>11. (sends[n].end = "raised" => AllFailed(PaysOf(n)))'
        BY <2>2, <2>6 DEF AllFailed
    <2>12. (sends[n].end = "returned" /\ sends[n].wait =>
                \E p \in PaysOf(n) : pays[p].status = "Success")'
        BY <2>2, <2>7
    <2>13. QED
        BY <2>8, <2>9, <2>10, <2>11, <2>12, Zenon DEF OutcomeOf
<1>4. QED
    BY <1>2, <1>3 DEF OutcomesOK

\* A step that leaves the payments alone settles none, which is within Settles.
LEMMA NothingSettles == SendsOK /\ pays' = pays => Settles
BY DEF SendsOK, Settles

\* A step of the test for the current send: it goes on, or it ends.
Continues == UNCHANGED sends /\ Paying'
Finishes(how) == /\ sends' = [sends EXCEPT ![Current].end = how]
                 /\ how \in {"returned", "raised"} /\ op'.name \in {"idle", "over"}

PaysStep == pays' = pays \/ Adds

\* Such a step keeps the types, and leaves every other send as it is.
LEMMA CurrentStep ==
    ASSUME SendsOK, Paying, PaysStep, Continues \/ \E how : Finishes(how),
           unknown' \subseteq unknown \cup {Current}, UNCHANGED rule,
           attempt' \in 1 .. TryCount + 1, rpcTry' \in 1 .. RpcTries
    PROVE  /\ SendsOK'
           /\ DOMAIN sends' = DOMAIN sends /\ Current' = Current
           /\ \A n \in DOMAIN sends : sends'[n].wait = sends[n].wait
           /\ \A n \in DOMAIN sends \ {Current} : sends'[n] = sends[n]
<1>1. /\ sends \in Seq([invoice : BOOLEAN, wait : BOOLEAN, end : SendEnds])
      /\ pays \in Seq([send : Nat, status : PayStates])
      /\ Current \in DOMAIN sends /\ DOMAIN sends = 1 .. Len(sends)
      /\ \A n \in DOMAIN sends : sends[n].end = "none" <=> n = Current
    BY LenProperties DEF SendsOK, Paying
<1>2. /\ pays' \in Seq([send : Nat, status : PayStates]) /\ Len(pays') <= MaxPays
      /\ \A p \in DOMAIN pays' : pays'[p].send \in DOMAIN sends
    BY <1>1 DEF PaysStep, SendsOK, Adds
<1>3. CASE Continues
    <2>1. Current' = Current /\ op'.name \in OpNames
        BY <1>3 DEF Continues, Current, Paying, OpNames
    <2>2. SendsOK'
        BY <1>1, <1>2, <1>3, <2>1 DEF SendsOK, Continues
    <2>3. QED
        BY <1>3, <2>1, <2>2 DEF Continues
<1>4. CASE \E how : Finishes(how)
    <2>1. PICK how \in {"returned", "raised"} :
              /\ sends' = [sends EXCEPT ![Current].end = how]
              /\ op'.name \in {"idle", "over"}
        BY <1>4 DEF Finishes
    <2>2. sends[Current] \in [invoice : BOOLEAN, wait : BOOLEAN, end : SendEnds]
        BY <1>1, ElementOfSeq
    <2>3. sends' = [sends EXCEPT ![Current] = [@ EXCEPT !.end = how]]
        BY <2>1
    <2>4. /\ [sends[Current] EXCEPT !.end = how]
                \in [invoice : BOOLEAN, wait : BOOLEAN, end : SendEnds]
          /\ [sends[Current] EXCEPT !.end = how].wait = sends[Current].wait
          /\ [sends[Current] EXCEPT !.end = how].end = how
        BY <2>2 DEF SendEnds
    <2>5. /\ sends' \in Seq([invoice : BOOLEAN, wait : BOOLEAN, end : SendEnds])
          /\ Len(sends') = Len(sends) /\ DOMAIN sends' = DOMAIN sends
        BY <1>1, <2>3, <2>4
    <2>6. /\ sends'[Current].end = how /\ sends'[Current].wait = sends[Current].wait
          /\ \A n \in DOMAIN sends \ {Current} : sends'[n] = sends[n]
        BY <1>1, <2>3, <2>4
    <2>7. Current' = Current /\ op'.name \in OpNames /\ ~Paying'
        BY <2>1, <2>5 DEF Current, OpNames, Paying
    <2>8. \A n \in DOMAIN sends' : sends'[n].end = "none" <=> n = Current' /\ Paying'
        BY <1>1, <2>1, <2>5, <2>6, <2>7
    <2>9. SendsOK'
        BY <1>1, <1>2, <2>5, <2>7, <2>8 DEF SendsOK
    <2>10. QED
        BY <2>5, <2>6, <2>7, <2>9
<1>5. QED
    BY <1>3, <1>4

\* A send that finishes is over, and the test is neither sending nor waiting.
LEMMA FinishesIs ==
    ASSUME SendsOK, Current \in DOMAIN sends, NEW how, Finishes(how)
    PROVE  sends'[Current].end = how /\ ~Busy("send")' /\ ~Busy("await")'
<1>1. sends[Current] \in [invoice : BOOLEAN, wait : BOOLEAN, end : SendEnds]
    BY LenProperties, ElementOfSeq DEF SendsOK
<1>2. sends'[Current] = [sends[Current] EXCEPT !.end = how]
    BY DEF Finishes, SendsOK
<1>3. QED
    BY <1>1, <1>2 DEF Finishes, Busy

\* It changes nothing of the other sends; the current one is a matter of its own.
LEMMA OthersStep ==
    ASSUME SendsOK, OutcomesOK, PaysStep, DOMAIN sends' = DOMAIN sends, Current' = Current,
           \A n \in DOMAIN sends \ {Current} : sends'[n] = sends[n],
           unknown \subseteq unknown', Current \in unknown' \/ OutcomeOf(Current)'
    PROVE  OutcomesOK'
<1>1. ASSUME NEW n \in DOMAIN sends \ unknown', n # Current
      PROVE  OutcomeOf(n)'
    <2>1. OutcomeOf(n) /\ n # Current' /\ sends'[n] = sends[n]
        BY <1>1 DEF OutcomesOK
    <2>2. PaysOf(n)' = PaysOf(n)
        <3>1. CASE pays' = pays
            BY <3>1 DEF PaysOf
        <3>2. CASE Adds
            <4>1. \A p \in DOMAIN pays : pays'[p].send = pays[p].send
                BY <3>2 DEF Adds
            <4>2. QED
                BY <1>1, <3>2, <4>1 DEF PaysOf, Adds
        <3>3. QED
            BY <3>1, <3>2 DEF PaysStep
    <2>3. \A p \in PaysOf(n) : pays'[p] = pays[p]
        BY DEF PaysOf, PaysStep, Adds
    <2>4. QED
        BY <2>1, <2>2, <2>3 DEF OutcomeOf, AllFailed
<1>2. QED
    BY <1>1 DEF OutcomesOK

\* A raise goes on with the next attempt or ends the send.
LEMMA RaisesIs ==
    ASSUME SendsOK, Raises
    PROVE  /\ (Continues /\ op'.name = "send") \/ Finishes("raised")
           /\ attempt' \in 1 .. TryCount + 1 /\ rpcTry' \in 1 .. RpcTries
<1>1. attempt \in 1 .. TryCount + 1 /\ rpcTry \in 1 .. RpcTries
    BY DEF SendsOK
<1>2. TryCount \in Nat \ {0} /\ RpcTries \in Nat \ {0}
    BY PaymentsAssumption
<1>3. CASE LastAttempt
    BY <1>1, <1>3 DEF Raises, Finishes, Over, Op
<1>4. CASE ~LastAttempt
    <2>1. /\ op' = Op("send") /\ attempt' = attempt + 1 /\ rpcTry' = 1 /\ UNCHANGED sends
        BY <1>4 DEF Raises
    <2>2. op'.name = "send" /\ Paying'
        BY <2>1 DEF Op, Paying
    <2>3. QED
        BY <1>1, <1>2, <1>4, <2>1, <2>2 DEF LastAttempt, Continues
<1>5. QED
    BY <1>3, <1>4

\* An attempt whose outcome is not seen makes the send one of unknown outcome.
LEMMA UnseenStep ==
    ASSUME PaymentsInv, SendBroken \/ SendTimesOut \/ AwaitGivesUp
    PROVE  PaymentsInv'
<1>1. SendsOK /\ LettersOK /\ OutcomesOK
    BY DEF PaymentsInv
<1>2. Paying /\ unknown' = unknown \cup {Current} /\ UNCHANGED queueVars
    BY DEF SendBroken, SendTimesOut, AwaitGivesUp, Paying, Busy, queueVars
<1>3. PaysStep /\ LettersOK'
    <2>1. CASE Execute
        BY <1>1, <1>2, <2>1, ExecuteStep DEF PaysStep, queueVars
    <2>2. CASE UNCHANGED nodeVars
        <3>1. UNCHANGED <<pays, wire, Elsewhere, gone>>
            BY <1>2, <2>2 DEF nodeVars, queueVars, Elsewhere
        <3>2. QED
            BY <1>1, <3>1 DEF PaysStep, LettersOK, Letters, Touched
    <2>3. QED
        BY <2>1, <2>2 DEF SendBroken, SendTimesOut, AwaitGivesUp, nodeVars
<1>4. /\ Continues \/ \E how : Finishes(how)
      /\ attempt' \in 1 .. TryCount + 1 /\ rpcTry' \in 1 .. RpcTries
    <2>1. CASE Raises
        BY <1>1, <2>1, RaisesIs
    <2>2. CASE rpcTry < RpcTries /\ rpcTry' = rpcTry + 1 /\ UNCHANGED <<attempt, sends, op>>
        <3>1. /\ attempt \in 1 .. TryCount + 1 /\ rpcTry \in 1 .. RpcTries
              /\ RpcTries \in Nat
            BY <1>1, PaymentsAssumption DEF SendsOK
        <3>2. Continues
            BY <1>2, <2>2 DEF Continues, Paying
        <3>3. QED
            BY <2>2, <3>1, <3>2
    <2>3. QED
        BY <2>1, <2>2 DEF SendBroken, SendTimesOut, AwaitGivesUp
<1>5. /\ SendsOK'
      /\ DOMAIN sends' = DOMAIN sends /\ Current' = Current
      /\ \A n \in DOMAIN sends \ {Current} : sends'[n] = sends[n]
    BY <1>1, <1>2, <1>3, <1>4, CurrentStep DEF queueVars
<1>6. OutcomesOK'
    BY <1>1, <1>2, <1>3, <1>5, OthersStep
<1>7. QED
    BY <1>3, <1>5, <1>6 DEF PaymentsInv

\* An answer to a call of the current send: a payment, its wait, or an error.
LEMMA AnsweredStep ==
    ASSUME PaymentsInv, SendAnswered
    PROVE  PaymentsInv'
<1>1. SendsOK /\ LettersOK /\ OutcomesOK /\ Paying /\ Busy("send")
    BY DEF PaymentsInv, SendAnswered, Paying, Busy
<1>2. LettersOK' /\ Adds
    BY <1>1, ExecuteStep DEF SendAnswered, queueVars
<1>3. \/ sends[Current].wait /\ op' = Op("await") /\ UNCHANGED sends
      \/ ~sends[Current].wait /\ op' = Idle /\ Finishes("returned")
    BY DEF SendAnswered, Ends, Finishes, Idle, Op
<1>4. Continues \/ \E how : Finishes(how)
    BY <1>3 DEF Continues, Paying, Op
<1>5. UNCHANGED <<rule, unknown, attempt, rpcTry>>
    BY DEF SendAnswered, queueVars
<1>6. /\ SendsOK'
      /\ DOMAIN sends' = DOMAIN sends /\ Current' = Current
      /\ \A n \in DOMAIN sends : sends'[n].wait = sends[n].wait
      /\ \A n \in DOMAIN sends \ {Current} : sends'[n] = sends[n]
    BY <1>1, <1>2, <1>4, <1>5, CurrentStep DEF PaysStep, SendsOK
<1>7. ASSUME Current \notin unknown
      PROVE  OutcomeOf(Current)'
    <2> DEFINE q == Len(pays) + 1
    <2>1. AllFailed(PaysOf(Current)) /\ Current \in DOMAIN sends
        BY <1>1, <1>7 DEF OutcomesOK, OutcomeOf, SendsOK
    <2>2. /\ PaysOf(Current)' = PaysOf(Current) \cup {q}
          /\ \A p \in PaysOf(Current) : pays'[p].status = "Failed"
        BY <1>2, <1>6, <2>1 DEF Adds, PaysOf, AllFailed
    <2>3. q \in Nat /\ Len(pays') = q
        BY <1>2 DEF Adds
    <2> HIDE DEF q
    <2>4. \A p \in PaysOf(Current)' \ {q} : pays'[p].status = "Failed"
        BY <2>2
    <2>5. CASE sends[Current].wait /\ op' = Op("await") /\ UNCHANGED sends
        <3>1. ~Busy("send")' /\ sends'[Current].end = "none" /\ sends'[Current].wait
            BY <1>1, <2>1, <2>5 DEF Busy, Op, SendsOK
        <3>2. QED
            BY <1>6, <2>2, <2>3, <2>4, <3>1 DEF OutcomeOf, AllFailed
    <2>6. CASE ~sends[Current].wait /\ op' = Idle /\ Finishes("returned")
        <3>1. ~Busy("send")' /\ ~Busy("await")' /\ ~sends'[Current].wait
            BY <1>6, <2>1, <2>6 DEF Busy, Idle, Op
        <3>2. sends'[Current].end = "returned"
            BY <1>1, <2>1, <2>6, FinishesIs
        <3>3. QED
            BY <1>6, <2>3, <2>4, <3>1, <3>2 DEF OutcomeOf, AllFailed
    <2>7. QED
        BY <1>3, <2>5, <2>6
<1>8. OutcomesOK'
    BY <1>1, <1>2, <1>5, <1>6, <1>7, OthersStep DEF PaysStep
<1>9. QED
    BY <1>2, <1>6, <1>8 DEF PaymentsInv

\* A refusal, or the end of a wait, executes nothing.
LEMMA SeenStep ==
    ASSUME PaymentsInv, SendRefused \/ AwaitFinished
    PROVE  PaymentsInv'
<1>1. SendsOK /\ LettersOK /\ OutcomesOK /\ Paying
    BY DEF PaymentsInv, SendRefused, AwaitFinished, Paying, Busy
<1>2. UNCHANGED <<nodeVars, queueVars, unknown>>
    BY DEF SendRefused, AwaitFinished
<1>3. LettersOK' /\ PaysStep /\ pays' = pays
    <2>1. UNCHANGED <<pays, wire, Elsewhere, gone>>
        BY <1>2 DEF nodeVars, queueVars, Elsewhere
    <2>2. QED
        BY <1>1, <2>1 DEF PaysStep, LettersOK, Letters, Touched
<1>4. attempt \in 1 .. TryCount + 1 /\ rpcTry \in 1 .. RpcTries /\ RpcTries \in Nat
    BY <1>1, PaymentsAssumption DEF SendsOK
\* What the current send may do next, with the reason.
<1>5. /\ \/ Continues /\ op'.name = "send" /\ (Busy("send") \/ pays[Len(pays)].status = "Failed")
         \/ Finishes("raised") /\ (Busy("send") \/ pays[Len(pays)].status = "Failed")
         \/ Finishes("returned") /\ Busy("await") /\ pays[Len(pays)].status = "Success"
      /\ attempt' \in 1 .. TryCount + 1 /\ rpcTry' \in 1 .. RpcTries
    <2>1. CASE SendRefused
        <3>1. CASE Raises
            BY <1>1, <2>1, <3>1, RaisesIs DEF SendRefused
        <3>2. CASE rpcTry < RpcTries /\ rpcTry' = rpcTry + 1 /\ UNCHANGED <<attempt, sends, op>>
            BY <1>4, <2>1, <3>2 DEF SendRefused, Continues, Busy, Paying
        <3>3. QED
            BY <2>1, <3>1, <3>2 DEF SendRefused
    <2>2. CASE AwaitFinished
        <3>1. CASE pays[AwaitedPay].status = "Failed" /\ Raises
            BY <1>1, <3>1, RaisesIs DEF AwaitedPay
        <3>2. CASE /\ pays[AwaitedPay].status = "Success" /\ Ends("returned")
                   /\ UNCHANGED <<attempt, rpcTry>>
            BY <1>4, <2>2, <3>2 DEF AwaitFinished, AwaitedPay, Ends, Finishes, Idle, Op
        <3>3. QED
            BY <2>2, <3>1, <3>2 DEF AwaitFinished
    <2>3. QED
        BY <2>1, <2>2
<1>6. /\ SendsOK'
      /\ DOMAIN sends' = DOMAIN sends /\ Current' = Current
      /\ \A n \in DOMAIN sends : sends'[n].wait = sends[n].wait
      /\ \A n \in DOMAIN sends \ {Current} : sends'[n] = sends[n]
    BY <1>1, <1>2, <1>3, <1>5, CurrentStep DEF queueVars
<1>7. ASSUME Current \notin unknown
      PROVE  OutcomeOf(Current)'
    <2>1. OutcomeOf(Current) /\ Current \in DOMAIN sends /\ PaysOf(Current)' = PaysOf(Current)
        BY <1>1, <1>3, <1>6, <1>7 DEF OutcomesOK, SendsOK, PaysOf
    <2>2. Busy("send") \/ Busy("await")
        BY <1>1 DEF Paying, Busy
    <2>3. ASSUME Busy("send") \/ pays[Len(pays)].status = "Failed"
          PROVE  AllFailed(PaysOf(Current))
        BY <2>1, <2>2, <2>3 DEF OutcomeOf, AllFailed
    <2>4. CASE Continues /\ op'.name = "send" /\ AllFailed(PaysOf(Current))
        <3>1. ~Busy("await")' /\ sends'[Current].end = "none" /\ 0 \in Nat
            BY <1>1, <2>1, <2>4 DEF Busy, Continues, SendsOK
        <3>2. QED
            BY <1>3, <1>6, <2>1, <2>4, <3>1 DEF OutcomeOf, AllFailed
    <2>5. CASE Finishes("raised") /\ AllFailed(PaysOf(Current))
        <3>1. ~Busy("await")' /\ ~Busy("send")' /\ sends'[Current].end = "raised" /\ 0 \in Nat
            BY <1>1, <2>1, <2>5, FinishesIs
        <3>2. QED
            BY <1>3, <1>6, <2>1, <2>5, <3>1 DEF OutcomeOf, AllFailed
    <2>6. CASE Finishes("returned") /\ Busy("await") /\ pays[Len(pays)].status = "Success"
        <3>1. ~Busy("await")' /\ ~Busy("send")' /\ sends'[Current].end = "returned"
            BY <1>1, <2>1, <2>6, FinishesIs
        <3>2. Len(pays) \in PaysOf(Current) /\ \E q \in Nat : AllFailed(PaysOf(Current) \ {q})
            BY <2>1, <2>6 DEF OutcomeOf
        <3>3. QED
            BY <1>3, <1>6, <2>1, <2>6, <3>1, <3>2 DEF OutcomeOf, AllFailed
    <2>7. QED
        BY <1>5, <2>3, <2>4, <2>5, <2>6
<1>8. OutcomesOK'
    BY <1>1, <1>2, <1>3, <1>6, <1>7, OthersStep
<1>9. QED
    BY <1>3, <1>6, <1>8 DEF PaymentsInv

\* A new send has paid for nothing yet.
LEMMA StartStep ==
    ASSUME PaymentsInv, StartSend
    PROVE  PaymentsInv'
<1>1. SendsOK /\ LettersOK /\ OutcomesOK /\ op = Idle
    BY DEF PaymentsInv, StartSend
<1>2. UNCHANGED <<pays, unknown, rule>> /\ UNCHANGED <<wire, Elsewhere, gone>>
    BY DEF StartSend, nodeVars, queueVars, Elsewhere
<1>3. LettersOK'
    BY <1>1, <1>2 DEF LettersOK, Letters, Touched
<1>4. PICK new \in [invoice : BOOLEAN, wait : BOOLEAN, end : SendEnds] :
          sends' = Append(sends, new) /\ new.end = "none"
    BY DEF StartSend, SendEnds
<1>5. /\ sends \in Seq([invoice : BOOLEAN, wait : BOOLEAN, end : SendEnds])
      /\ Len(sends) < MaxSends /\ MaxSends \in Nat
    BY <1>1, PaymentsAssumption DEF SendsOK, StartSend, Current
<1>6. /\ sends' \in Seq([invoice : BOOLEAN, wait : BOOLEAN, end : SendEnds])
      /\ Len(sends') <= MaxSends
      /\ Current' = Current + 1 /\ Current \in Nat
      /\ DOMAIN sends' = DOMAIN sends \cup {Current'} /\ Current' \notin DOMAIN sends
      /\ sends'[Current'] = new /\ \A n \in DOMAIN sends : sends'[n] = sends[n]
    BY <1>4, <1>5 DEF Current
<1>7. /\ op'.name = "send" /\ attempt' \in 1 .. TryCount + 1 /\ rpcTry' \in 1 .. RpcTries
      /\ ~Paying /\ Paying' /\ ~Busy("await")'
    BY <1>1, PaymentsAssumption DEF StartSend, Op, Idle, Paying, Busy
<1>8. SendsOK'
    <2>1. \A n \in DOMAIN sends' : sends'[n].end = "none" <=> n = Current' /\ Paying'
        BY <1>1, <1>4, <1>6, <1>7 DEF SendsOK
    <2>2. \A p \in DOMAIN pays' : pays'[p].send \in DOMAIN sends'
        BY <1>1, <1>2, <1>6 DEF SendsOK
    <2>3. unknown' \subseteq DOMAIN sends' /\ Current' \in DOMAIN sends' /\ op'.name \in OpNames
        BY <1>1, <1>2, <1>6, <1>7 DEF SendsOK, OpNames
    <2>4. /\ pays' \in Seq([send : Nat, status : PayStates]) /\ Len(pays') <= MaxPays
          /\ rule' \in Rules \cup {NoRule}
        BY <1>1, <1>2 DEF SendsOK
    <2>5. QED
        BY <1>6, <1>7, <2>1, <2>2, <2>3, <2>4 DEF SendsOK
<1>9. ASSUME NEW n \in DOMAIN sends' \ unknown'
      PROVE  OutcomeOf(n)'
    <2>1. PaysOf(n)' = PaysOf(n)
        BY <1>2 DEF PaysOf
    <2>2. CASE n = Current'
        <3>1. PaysOf(n) = {}
            BY <1>1, <1>6, <2>2 DEF PaysOf, SendsOK
        <3>2. sends'[n].end = "none" /\ 0 \in Nat
            BY <1>4, <1>6, <2>2
        <3>3. QED
            BY <1>7, <2>1, <3>1, <3>2 DEF OutcomeOf, AllFailed
    <2>3. CASE n # Current'
        <3>1. OutcomeOf(n) /\ sends'[n] = sends[n]
            BY <1>1, <1>2, <1>6, <2>3 DEF OutcomesOK
        <3>2. QED
            BY <1>2, <2>1, <2>3, <3>1 DEF OutcomeOf, AllFailed
    <2>4. QED
        BY <2>2, <2>3
<1>10. QED
    BY <1>3, <1>8, <1>9 DEF PaymentsInv, OutcomesOK

-----------------------------------------------------------------------------

\* Every step keeps the invariant of the payments.
LEMMA PaymentsStep == PaymentsInv /\ [P2pNext]_p2pVars => PaymentsInv'
<1> SUFFICES ASSUME PaymentsInv, [P2pNext]_p2pVars
             PROVE  PaymentsInv'
    OBVIOUS
<1>1. SendsOK /\ LettersOK /\ OutcomesOK
    BY DEF PaymentsInv
\* The steps that are not about the sends.
<1>2. ASSUME LettersOK', Settles, UNCHANGED <<sends, unknown, attempt, rpcTry>>,
             op'.name \in OpNames, rule' \in Rules \cup {NoRule},
             op'.name = op.name \/ (op'.name \notin {"send", "await"} /\ ~Paying)
      PROVE  PaymentsInv'
    BY <1>1, <1>2, QuietStep DEF PaymentsInv
<1>3. op.name \in OpNames /\ rule \in Rules \cup {NoRule}
    BY <1>1 DEF SendsOK
<1>4. ASSUME NEW q, ArriveIn(q) \/ Process(q)
      PROVE  PaymentsInv'
    <2>1. LettersOK'
        BY <1>1, <1>4, ArrivalKeepsLetters, ProcessKeepsLetters
    <2>2. UNCHANGED <<pays, rule, sendVars, op>>
        BY <1>4 DEF ArriveIn, Process
    <2>3. QED
        BY <1>1, <1>2, <1>3, <2>1, <2>2, NothingSettles DEF sendVars
<1>5. ASSUME NEW q, ArriveOut(q) \/ FailsAlone
      PROVE  PaymentsInv'
    <2>1. LettersOK' /\ Settles
        BY <1>1, <1>5, SettleStep
    <2>2. UNCHANGED <<rule, sendVars, op>>
        BY <1>5 DEF ArriveOut, FailsAlone, queueVars
    <2>3. QED
        BY <1>2, <1>3, <2>1, <2>2 DEF sendVars
<1>6. CASE QueueStep
    <2>1. LettersOK'
        BY <1>1, <1>6, QueueKeepsLetters
    <2>2. UNCHANGED <<pays, sendVars>> /\ rule' \in Rules \cup {NoRule}
        BY <1>3, <1>6
           DEF QueueStep, Intercept, ClearIntercept, BeginWait, WaitTimesOut, SendRaw,
               Take, WaitPoll, TakeMatching, Deliver, DeliverPoll, DeliverMatching,
               TakeHeld, HeldPoll, Release, ReleasePoll, ReleaseMatching, nodeVars, queueVars
    <2>3. /\ ~Paying
          /\ op'.name \in OpNames \ {"send", "await"}
        <3>1. CASE BeginWait
            BY <3>1 DEF BeginWait, Idle, Op, OpNames, Paying
        <3>2. CASE WaitTimesOut
            BY <3>2 DEF WaitTimesOut, Over, Op, OpNames, Paying
        <3>3. CASE op = Idle /\ op' = op
            BY <3>3 DEF Idle, Op, OpNames, Paying
        <3>4. CASE /\ op.name \in {"wait", "wait_deliver", "wait_held", "wait_release"}
                   /\ op' = op \/ op' = Idle
            BY <3>4 DEF Idle, Op, OpNames, Paying
        <3>5. QED
            BY <1>6, <3>1, <3>2, <3>3, <3>4
               DEF QueueStep, Intercept, ClearIntercept, SendRaw, Take, WaitPoll, Deliver,
                   DeliverPoll, TakeHeld, HeldPoll, Release, ReleasePoll, Busy
    <2>4. QED
        BY <1>1, <1>2, <2>1, <2>2, <2>3, NothingSettles DEF sendVars
<1>7. CASE StartSend
    BY <1>7, StartStep
<1>8. CASE SendAnswered
    BY <1>8, AnsweredStep
<1>9. CASE SendRefused \/ AwaitFinished
    BY <1>9, SeenStep
<1>10. CASE SendBroken \/ SendTimesOut \/ AwaitGivesUp
    BY <1>10, UnseenStep
<1>11. CASE UNCHANGED p2pVars
    <2>1. LettersOK'
        BY <1>1, <1>11
           DEF LettersOK, Letters, Touched, Elsewhere, p2pVars, nodeVars, queueVars
    <2>2. UNCHANGED <<pays, rule, sendVars, op>>
        BY <1>11 DEF p2pVars, nodeVars, queueVars
    <2>3. QED
        BY <1>1, <1>2, <1>3, <2>1, <2>2, NothingSettles DEF sendVars
<1>12. QED
    BY <1>4, <1>5, <1>6, <1>7, <1>8, <1>9, <1>10, <1>11 DEF P2pNext, QueueStep

\* Sends, payments and messages fit: a TLC that is still on its way has been seen by
\* nobody, and a send of send_payment goes on only when all it has paid for so far has
\* failed, as long as it saw how its attempts ended.
THEOREM PaymentsInvariant == P2pSpec => []PaymentsInv
<1>1. P2pInit => PaymentsInv
    <2> SUFFICES ASSUME P2pInit
                 PROVE  PaymentsInv
        OBVIOUS
    <2>1. /\ pays = << >> /\ sends = << >> /\ unknown = {} /\ gone = {} /\ wire = {}
          /\ op.name = "idle" /\ rule = NoRule /\ attempt = 1 /\ rpcTry = 1
          /\ Elsewhere = {}
        BY DEF P2pInit, Idle, Op, Elsewhere
    <2>2. SendsOK
        BY <2>1, PaymentsAssumption DEF SendsOK, OpNames, Paying, Current
    <2>3. LettersOK /\ OutcomesOK
        BY <2>1 DEF LettersOK, OutcomesOK
    <2>4. QED
        BY <2>2, <2>3 DEF PaymentsInv
<1>2. QED
    BY <1>1, PaymentsStep, PTL DEF P2pSpec

\* A payment, a message and a loop counter are always of their types.
THEOREM PaymentsTypeCorrect == P2pSpec => []P2pTypeOK
<1>1. PaymentsInv => P2pTypeOK
    <2> SUFFICES ASSUME SendsOK, LettersOK
                 PROVE  P2pTypeOK
        BY DEF PaymentsInv
    <2>1. /\ pays \in Seq([send : Nat, status : PayStates]) /\ Len(pays) <= MaxPays
          /\ sends \in Seq([invoice : BOOLEAN, wait : BOOLEAN, end : SendEnds])
          /\ Len(sends) <= MaxSends /\ MaxPays \in Nat /\ MaxSends \in Nat
        BY PaymentsAssumption DEF SendsOK
    <2>2. DOMAIN pays \subseteq 1 .. MaxPays /\ DOMAIN sends \subseteq 1 .. MaxSends
        BY <2>1, LenProperties
    <2>3. Letters \subseteq Msgs
        BY <2>2 DEF Letters, Msgs
    <2>4. UNION {wire, actor, captured, held, inbox, leftover} \subseteq Msgs
        BY <2>3 DEF LettersOK, Elsewhere
    <2>5. gone \subseteq {"AddTlc", "RemoveTlc"} \X Nat
        BY <2>2 DEF LettersOK
    <2>6. \A p \in DOMAIN pays : pays[p].status \in {"Inflight", "Success", "Failed"}
        <3>1. TAKE p \in DOMAIN pays
        <3>2. pays[p] \in [send : Nat, status : PayStates]
            BY <2>1, LenProperties, ElementOfSeq
        <3>3. QED
            BY <3>2 DEF PayStates
    <2>7. unknown \subseteq 1 .. MaxSends
        BY <2>2 DEF SendsOK
    <2>8. QED
        BY <2>1, <2>4, <2>5, <2>6, <2>7 DEF P2pTypeOK, SendsOK
<1>2. QED
    BY <1>1, PaymentsInvariant, PTL

\* What send_payment and send_invoice_payment report is what happened, for any number
\* of payments, attempts and retries, and whatever the P2pPeer does with the messages.
THEOREM ReportsAreTrue == P2pSpec => []SendsReportTheOutcome
<1>1. PaymentsInv => SendsReportTheOutcome
    <2> SUFFICES ASSUME PaymentsInv, NEW n \in DOMAIN sends \ unknown
                 PROVE  /\ Cardinality(Succeeded(n)) <= 1
                        /\ sends[n].end = "returned" /\ sends[n].wait => Succeeded(n) # {}
                        /\ sends[n].end = "raised" => Succeeded(n) = {}
        BY DEF SendsReportTheOutcome
    <2>1. OutcomeOf(n)
        BY DEF PaymentsInv, OutcomesOK
    <2>2. Succeeded(n) = {p \in PaysOf(n) : pays[p].status = "Success"}
        BY DEF Succeeded, PaysOf
    <2>3. PICK q \in Nat : AllFailed(PaysOf(n) \ {q})
        BY <2>1 DEF OutcomeOf
    <2>4. Succeeded(n) \in SUBSET {q}
        BY <2>2, <2>3 DEF AllFailed
    <2>5. Cardinality(Succeeded(n)) <= 1
        <3>1. IsFiniteSet({q}) /\ Cardinality({q}) = 1
            BY FS_Singleton
        <3>2. QED
            BY <2>4, <3>1, FS_Subset
    <2>6. QED
        BY <2>1, <2>2, <2>5 DEF OutcomeOf, AllFailed
<1>2. QED
    BY <1>1, PaymentsInvariant, PTL

-----------------------------------------------------------------------------
(* Where a payment is *)

\* The messages a payment hangs on, and where one of them can be.
Settling == {"AddTlc", "RemoveTlc"}
Carriers == wire \cup actor \cup captured \cup held \cup inbox \cup leftover

\* It is somewhere, or the rule or the test has had it.
Placed(p) ==
    \/ \E m \in Carriers : m.pay = p /\ m.kind \in Settling
    \/ \E kind \in Settling : <<kind, p>> \in gone

\* One of them will arrive at a node without the test.
Moving(p) == \E m \in wire \cup actor : m.pay = p /\ m.kind \in Settling

\* Only answers are held, so what is released reaches the victim; and the list that
\* wait_held keeps is empty whenever no wait_held runs.
QueuesOK ==
    /\ \A m \in held : m.kind \in Out
    /\ leftover # {} => op.name = "wait_held"

PlacedInv ==
    /\ QueuesOK
    /\ \A p \in DOMAIN pays : pays[p].status = "Inflight" => Placed(p)

\* What leaves a queue for the test leaves its trace.
LEMMA TraceHas ==
    ASSUME NEW msgs, NEW m \in msgs, m.kind \in Settling
    PROVE  <<m.kind, m.pay>> \in Trace(msgs)
BY DEF Trace, Settling

\* A payment stays placed if each message that leaves a queue goes to another, to the
\* test or to the rule, or leaves a message of its payment behind.
LEMMA StaysPlaced ==
    ASSUME gone \subseteq gone',
           \A m \in Carriers : m.kind \in Settling =>
               \/ \E n \in Carriers' : n.pay = m.pay /\ n.kind \in Settling
               \/ <<m.kind, m.pay>> \in gone',
           NEW p, Placed(p)
    PROVE  Placed(p)'
BY DEF Placed

\* A message on its way to the attacker, or in its actor, goes on.
LEMMA NodesKeepPlaces ==
    ASSUME PlacedInv, NEW q, ArriveIn(q) \/ Process(q)
    PROVE  PlacedInv'
<1>1. UNCHANGED <<pays, op>>
    BY DEF ArriveIn, Process
<1>2. CASE ArriveIn(q)
    <2>1. PICK m \in wire :
              /\ m.kind = "AddTlc" /\ wire' = wire \ {m}
              /\ m \in captured' \/ m \in actor' \/ Trace({m}) \subseteq gone'
              /\ gone \subseteq gone' /\ captured \subseteq captured' /\ actor \subseteq actor'
              /\ UNCHANGED <<held, inbox, leftover>>
        BY <1>2 DEF ArriveIn
    <2>2. m.kind \in Settling => <<m.kind, m.pay>> \in Trace({m})
        BY TraceHas
    <2>3. \A n \in Carriers : n \in Carriers' \/ (n = m /\ Trace({m}) \subseteq gone')
        BY <2>1 DEF Carriers
    <2>4. \A p : Placed(p) => Placed(p)'
        BY <2>1, <2>2, <2>3, StaysPlaced
    <2>5. QueuesOK'
        BY <1>1, <2>1 DEF PlacedInv, QueuesOK
    <2>6. QED
        BY <1>1, <2>4, <2>5 DEF PlacedInv
<1>3. CASE Process(q)
    <2>1. PICK m \in actor, ok \in BOOLEAN :
              LET out == {Msg("RemoveTlc", m.pay, ok), Msg("CommitmentSigned", m.pay, TRUE)}
                  dropped == {n \in out : n.kind \in rule.dropOut}
                  toHold == {n \in out : n.kind \in rule.hold}
              IN  /\ actor' = actor \ {m}
                  /\ gone' = gone \cup Trace(dropped)
                  /\ held' = held \cup toHold
                  /\ wire' = wire \cup {n \in out \ (dropped \cup toHold) : n.kind = "RemoveTlc"}
                  /\ UNCHANGED <<captured, inbox, leftover>>
        BY <1>3 DEF Process
    <2> DEFINE answer == Msg("RemoveTlc", m.pay, ok)
               signed == Msg("CommitmentSigned", m.pay, TRUE)
    <2>2. /\ answer.kind = "RemoveTlc" /\ answer.pay = m.pay /\ signed.kind = "CommitmentSigned"
          /\ answer.kind \in Settling /\ {"RemoveTlc", "CommitmentSigned"} = Out
        BY DEF Msg, Settling, Out
    <2> HIDE DEF answer, signed
    <2>3. /\ answer \in held' \/ answer \in wire' \/ <<answer.kind, answer.pay>> \in gone'
          /\ gone \subseteq gone' /\ wire \subseteq wire' /\ held \subseteq held'
          /\ held' \subseteq held \cup {answer, signed}
        <3> DEFINE out == {answer, signed}
                   dropped == {n \in out : n.kind \in rule.dropOut}
                   toHold == {n \in out : n.kind \in rule.hold}
        <3>1. /\ gone' = gone \cup Trace(dropped) /\ held' = held \cup toHold
              /\ wire' = wire \cup {n \in out \ (dropped \cup toHold) : n.kind = "RemoveTlc"}
            BY <2>1 DEF answer, signed
        <3>2. answer \in dropped => <<answer.kind, answer.pay>> \in Trace(dropped)
            BY <2>2, TraceHas
        <3>3. answer \in dropped \/ answer \in toHold \/ answer \in out \ (dropped \cup toHold)
            OBVIOUS
        <3>4. QED
            BY <2>2, <3>1, <3>2, <3>3
    <2>4. \A n \in Carriers : n \in Carriers' \/ n = m
        BY <2>1, <2>3 DEF Carriers
    <2>5. ASSUME NEW p, Placed(p)
          PROVE  Placed(p)'
        <3>1. \/ \E n \in Carriers' : n.pay = m.pay /\ n.kind \in Settling
              \/ \E kind \in Settling : <<kind, m.pay>> \in gone'
            BY <2>2, <2>3 DEF Carriers
        <3>2. CASE p = m.pay
            BY <3>1, <3>2 DEF Placed
        <3>3. CASE p # m.pay
            BY <2>3, <2>4, <2>5, <3>3 DEF Placed
        <3>4. QED
            BY <3>2, <3>3
    <2>6. QueuesOK'
        <3>1. \A n \in held' : n.kind \in Out
            BY <2>2, <2>3 DEF PlacedInv, QueuesOK
        <3>2. UNCHANGED leftover
            BY <2>1
        <3>3. QED
            BY <1>1, <3>1, <3>2 DEF PlacedInv, QueuesOK
    <2>7. QED
        BY <1>1, <2>5, <2>6 DEF PlacedInv
<1>4. QED
    BY <1>2, <1>3

\* The P2pPeer moves messages between its queues, to the nodes and to the test.
LEMMA PeerKeepsPlaces ==
    ASSUME PlacedInv, QueueStep
    PROVE  PlacedInv'
<1>1. UNCHANGED pays
    BY DEF QueueStep, Intercept, ClearIntercept, BeginWait, WaitTimesOut, SendRaw,
           Take, WaitPoll, TakeMatching, Deliver, DeliverPoll, DeliverMatching,
           TakeHeld, HeldPoll, Release, ReleasePoll, ReleaseMatching, nodeVars
<1>2. /\ \A m \in held : m.kind \in Out
      /\ leftover # {} => op.name = "wait_held"
    BY DEF PlacedInv, QueuesOK
\* It is enough to say where each message of a queue is afterwards.
<1>3. ASSUME \A m \in Carriers : m.kind \in Settling =>
                 m \in Carriers' \/ <<m.kind, m.pay>> \in gone',
             gone \subseteq gone', held' \subseteq held,
             leftover' # {} => op'.name = "wait_held"
      PROVE  PlacedInv'
    <2>1. QueuesOK'
        BY <1>2, <1>3 DEF QueuesOK
    <2>2. \A p : Placed(p) => Placed(p)'
        BY <1>3, StaysPlaced
    <2>3. QED
        BY <1>1, <2>1, <2>2 DEF PlacedInv
<1>4. CASE Intercept \/ ClearIntercept \/ SendRaw
    <2>1. /\ wire \subseteq wire' /\ UNCHANGED <<actor, captured, held, inbox, leftover, gone, op>>
        BY <1>4 DEF Intercept, ClearIntercept, SendRaw, nodeVars, queueVars
    <2>2. QED
        BY <1>2, <1>3, <2>1 DEF Carriers
<1>5. CASE BeginWait
    <2>1. /\ op = Idle /\ leftover' = {}
          /\ UNCHANGED <<wire, actor, captured, held, inbox, gone>>
        BY <1>5 DEF BeginWait, nodeVars
    <2>2. leftover = {}
        BY <1>2, <2>1 DEF Idle, Op
    <2>3. QED
        BY <1>3, <2>1, <2>2 DEF Carriers
<1>6. CASE WaitTimesOut
    <2>1. /\ leftover' = {} /\ gone' = gone \cup Trace(leftover)
          /\ UNCHANGED <<wire, actor, captured, held, inbox>>
        BY <1>6 DEF WaitTimesOut, nodeVars
    <2>2. \A m \in leftover : m.kind \in Settling => <<m.kind, m.pay>> \in gone'
        BY <2>1, TraceHas
    <2>3. QED
        BY <1>3, <2>1, <2>2 DEF Carriers
<1>7. CASE TakeHeld
    <2>1. /\ held' = {} /\ gone' = gone \cup Trace(held)
          /\ UNCHANGED <<wire, actor, captured, inbox, leftover, op>>
        BY <1>7 DEF TakeHeld, nodeVars
    <2>2. \A m \in held : m.kind \in Settling => <<m.kind, m.pay>> \in gone'
        BY <2>1, TraceHas
    <2>3. QED
        BY <1>2, <1>3, <2>1, <2>2 DEF Carriers
<1>8. CASE HeldPoll
    <2>1. /\ op.name = "wait_held" /\ held' = {} /\ UNCHANGED <<wire, actor, captured, inbox>>
          /\ \/ leftover' = leftover \cup held /\ UNCHANGED <<gone, op>>
             \/ leftover' = {} /\ gone' = gone \cup Trace(leftover \cup held)
        BY <1>8 DEF HeldPoll, Busy, nodeVars
    <2>2. CASE leftover' = leftover \cup held /\ UNCHANGED <<gone, op>>
        BY <1>3, <2>1, <2>2 DEF Carriers
    <2>3. CASE leftover' = {} /\ gone' = gone \cup Trace(leftover \cup held)
        <3>1. \A m \in leftover \cup held : m.kind \in Settling => <<m.kind, m.pay>> \in gone'
            BY <2>3, TraceHas
        <3>2. QED
            BY <1>3, <2>1, <2>3, <3>1 DEF Carriers
    <2>4. QED
        BY <2>1, <2>2, <2>3
<1>9. ASSUME NEW kind, TakeMatching(kind), op.name # "wait_held"
      PROVE  PlacedInv'
    <2> DEFINE all == inbox \cup captured
    <2>1. /\ captured' = {} /\ inbox' = Others(all, kind)
          /\ gone' = gone \cup Trace(Matching(all, kind))
          /\ UNCHANGED <<wire, actor, held, leftover>>
        BY <1>9 DEF TakeMatching, nodeVars
    <2>2. \A m \in Matching(all, kind) : m.kind \in Settling => <<m.kind, m.pay>> \in gone'
        BY <2>1, TraceHas
    <2>3. \A m \in all : m \in Matching(all, kind) \/ m \in inbox'
        BY <2>1 DEF Others
    <2>4. leftover' = {}
        BY <1>2, <1>9, <2>1
    <2>5. \A m \in Carriers : m.kind \in Settling =>
              m \in Carriers' \/ <<m.kind, m.pay>> \in gone'
        BY <2>1, <2>2, <2>3 DEF Carriers
    <2>6. QED
        BY <1>3, <2>1, <2>4, <2>5
<1>10. ASSUME NEW kind, DeliverMatching(kind), op.name # "wait_held"
       PROVE  PlacedInv'
    <2>1. /\ captured' = captured \ Matching(captured, kind)
          /\ actor' = actor \cup Matching(captured, kind)
          /\ UNCHANGED <<wire, held, inbox, leftover, gone>>
        BY <1>10 DEF DeliverMatching, Others
    <2>2. leftover' = {} /\ \A m \in Carriers : m \in Carriers'
        BY <1>2, <1>10, <2>1 DEF Carriers
    <2>3. QED
        BY <1>3, <2>1, <2>2
<1>11. ASSUME NEW kind, ReleaseMatching(kind), op.name # "wait_held"
       PROVE  PlacedInv'
    <2>1. /\ held' = held \ Matching(held, kind)
          /\ wire' = wire \cup {m \in Matching(held, kind) : m.kind = "RemoveTlc"}
          /\ UNCHANGED <<actor, captured, inbox, leftover, gone>>
        BY <1>11 DEF ReleaseMatching, Others
    <2>2. \A m \in held : m.kind \in Settling => m.kind = "RemoveTlc"
        BY <1>2 DEF Settling, Out
    <2>3. leftover' = {} /\ \A m \in Carriers : m.kind \in Settling => m \in Carriers'
        BY <1>2, <1>11, <2>1, <2>2 DEF Carriers
    <2>4. QED
        BY <1>3, <2>1, <2>3
<1>12. /\ Take \/ Deliver \/ Release => op.name = "idle"
       /\ WaitPoll => op.name = "wait"
       /\ DeliverPoll => op.name = "wait_deliver"
       /\ ReleasePoll => op.name = "wait_release"
    BY DEF Take, Deliver, Release, WaitPoll, DeliverPoll, ReleasePoll, Idle, Op, Busy
<1>13. CASE Take \/ WaitPoll
    BY <1>9, <1>12, <1>13 DEF Take, WaitPoll
<1>14. CASE Deliver \/ DeliverPoll
    BY <1>10, <1>12, <1>14 DEF Deliver, DeliverPoll
<1>15. CASE Release \/ ReleasePoll
    BY <1>11, <1>12, <1>15 DEF Release, ReleasePoll
<1>16. QED
    BY <1>4, <1>5, <1>6, <1>7, <1>8, <1>13, <1>14, <1>15 DEF QueueStep

\* A payment whose message the victim takes off the wire is final.
LEMMA SettleKeepsPlaces ==
    ASSUME SendsOK, LettersOK, PlacedInv, NEW q, ArriveOut(q) \/ FailsAlone
    PROVE  PlacedInv'
<1>1. Settles /\ pays \in Seq([send : Nat, status : PayStates])
    BY SettleStep DEF SendsOK
<1>2. UNCHANGED <<actor, captured, held, inbox, leftover, gone, op>>
    BY DEF ArriveOut, FailsAlone, queueVars
<1>3. PICK m \in wire :
          /\ wire' = wire \ {m} /\ m.pay \in DOMAIN pays
          /\ pays'[m.pay].status # "Inflight"
    <2>1. \A m \in wire : m.pay \in DOMAIN pays
        BY DEF LettersOK, Letters
    <2>2. CASE ArriveOut(q)
        <3>1. PICK m \in wire :
                  /\ m.pay = q /\ wire' = wire \ {m}
                  /\ pays' = [pays EXCEPT ![q].status =
                        IF @ = "Inflight" THEN (IF m.ok THEN "Success" ELSE "Failed") ELSE @]
            BY <2>2 DEF ArriveOut
        <3>2. q \in DOMAIN pays /\ pays[q] \in [send : Nat, status : PayStates]
            BY <1>1, <2>1, <3>1, ElementOfSeq, LenProperties
        <3>3. pays'[q].status # "Inflight"
            BY <3>1, <3>2
        <3>4. QED
            BY <3>1, <3>2, <3>3
    <2>3. CASE FailsAlone
        <3>1. PICK m \in wire :
                  /\ wire' = wire \ {m}
                  /\ pays' = [pays EXCEPT ![m.pay].status = "Failed"]
            BY <2>3 DEF FailsAlone
        <3>2. m.pay \in DOMAIN pays /\ pays[m.pay] \in [send : Nat, status : PayStates]
            BY <1>1, <2>1, <3>1, ElementOfSeq, LenProperties
        <3>3. QED
            BY <3>1, <3>2
    <2>4. QED
        BY <2>2, <2>3
<1>4. ASSUME NEW p \in DOMAIN pays', pays'[p].status = "Inflight"
      PROVE  Placed(p)'
    <2>1. p \in DOMAIN pays /\ pays[p].status = "Inflight" /\ p # m.pay
        BY <1>1, <1>3, <1>4 DEF Settles
    <2>2. Placed(p)
        BY <2>1 DEF PlacedInv
    <2>3. QED
        BY <1>2, <1>3, <2>1, <2>2 DEF Placed, Carriers
<1>5. QueuesOK'
    BY <1>2 DEF PlacedInv, QueuesOK
<1>6. QED
    BY <1>4, <1>5 DEF PlacedInv

\* A payment begins with its TLC on the wire.
LEMMA SendsKeepPlaces ==
    ASSUME SendsOK, LettersOK, PlacedInv,
           StartSend \/ SendAnswered \/ SendRefused \/ SendBroken \/ SendTimesOut
           \/ AwaitFinished \/ AwaitGivesUp
    PROVE  PlacedInv'
<1>1. /\ UNCHANGED queueVars /\ op.name \in {"idle", "send", "await"}
      /\ UNCHANGED nodeVars \/ Execute
    BY DEF StartSend, SendAnswered, SendRefused, SendBroken, SendTimesOut, AwaitFinished,
           AwaitGivesUp, Busy, Idle, Op
<1>2. leftover' = {} /\ QueuesOK'
    BY <1>1 DEF PlacedInv, QueuesOK, queueVars
<1>3. CASE UNCHANGED nodeVars
    <2>1. \A p : Placed(p)' <=> Placed(p)
        BY <1>1, <1>3 DEF Placed, Carriers, nodeVars, queueVars
    <2>2. QED
        BY <1>2, <1>3, <2>1 DEF PlacedInv, nodeVars
<1>4. CASE Execute
    <2> DEFINE new == Len(pays) + 1
               m == Msg("AddTlc", new, TRUE)
    <2>1. /\ Adds /\ wire' = wire \cup {m} /\ UNCHANGED actor
        BY <1>1, <1>4, ExecuteStep DEF Execute, queueVars
    <2>2. m.pay = new /\ m.kind \in Settling
        BY DEF Msg, Settling
    <2> HIDE DEF m
    <2>3. m \in Carriers' /\ Carriers \subseteq Carriers' /\ UNCHANGED gone
        BY <1>1, <2>1 DEF Carriers, queueVars
    <2>4. ASSUME NEW p \in DOMAIN pays', pays'[p].status = "Inflight"
          PROVE  Placed(p)'
        <3>1. CASE p = new
            BY <2>2, <2>3, <3>1 DEF Placed
        <3>2. CASE p \in DOMAIN pays
            <4>1. Placed(p)
                BY <2>1, <2>4, <3>2 DEF PlacedInv, Adds
            <4>2. QED
                BY <2>3, <4>1 DEF Placed
        <3>3. QED
            BY <2>1, <3>1, <3>2 DEF Adds
    <2>5. QED
        BY <1>2, <2>4 DEF PlacedInv
<1>5. QED
    BY <1>1, <1>3, <1>4

\* No payment gets lost behind the test's back: one that is not final has a message
\* that will arrive without the test, or one of its messages was dropped by the rule,
\* is queued, or went to the test.  That it is settled then is up to fairness.
THEOREM NoPaymentIsLost ==
    P2pSpec => [](\A p \in DOMAIN pays : pays[p].status = "Inflight" => Moving(p) \/ Withheld(p))
<1>1. P2pInit => PlacedInv
    BY DEF P2pInit, PlacedInv, QueuesOK
<1>2. PaymentsInv /\ PlacedInv /\ [P2pNext]_p2pVars => PlacedInv'
    <2> SUFFICES ASSUME SendsOK, LettersOK, PlacedInv, [P2pNext]_p2pVars
                 PROVE  PlacedInv'
        BY DEF PaymentsInv
    <2>1. CASE UNCHANGED p2pVars
        <3>1. UNCHANGED <<pays, wire, actor, captured, held, inbox, leftover, gone, op>>
            BY <2>1 DEF p2pVars, nodeVars, queueVars
        <3>2. (\A p : Placed(p)' <=> Placed(p)) /\ (QueuesOK' <=> QueuesOK)
            BY <3>1 DEF Placed, Carriers, QueuesOK
        <3>3. QED
            BY <3>1, <3>2 DEF PlacedInv
    <2>2. CASE \E q \in 1 .. MaxPays : ArriveIn(q) \/ Process(q)
        BY <2>2, NodesKeepPlaces
    <2>3. CASE FailsAlone \/ \E q \in 1 .. MaxPays : ArriveOut(q)
        BY <2>3, SettleKeepsPlaces
    <2>4. CASE \/ StartSend \/ SendAnswered \/ SendRefused \/ SendBroken \/ SendTimesOut
               \/ AwaitFinished \/ AwaitGivesUp
        BY <2>4, SendsKeepPlaces
    <2>5. CASE QueueStep
        BY <2>5, PeerKeepsPlaces
    <2>6. QED
        BY <2>1, <2>2, <2>3, <2>4, <2>5 DEF P2pNext, QueueStep
<1>3. PlacedInv => \A p \in DOMAIN pays :
                       pays[p].status = "Inflight" => Moving(p) \/ Withheld(p)
    <2> SUFFICES ASSUME PlacedInv, NEW p \in DOMAIN pays, pays[p].status = "Inflight"
                 PROVE  Moving(p) \/ Withheld(p)
        OBVIOUS
    <2>1. Placed(p)
        BY DEF PlacedInv
    <2>2. CASE \E kind \in Settling : <<kind, p>> \in gone
        BY <2>2 DEF Withheld, Settling
    <2>3. CASE \E m \in Carriers : m.pay = p /\ m.kind \in Settling
        <3>1. PICK m \in Carriers : m.pay = p /\ m.kind \in Settling
            BY <2>3
        <3>2. CASE m \in wire \cup actor
            BY <3>1, <3>2 DEF Moving
        <3>3. CASE m \notin wire \cup actor
            <4>1. m \in UNION {captured, held, inbox, leftover}
                BY <3>1, <3>3 DEF Carriers
            <4>2. <<m.kind, m.pay>> \in Trace(UNION {captured, held, inbox, leftover})
                BY <3>1, <4>1, TraceHas
            <4>3. QED
                BY <3>1, <4>2 DEF Withheld, Settling
        <3>4. QED
            BY <3>2, <3>3
    <2>4. QED
        BY <2>1, <2>2, <2>3 DEF Placed
<1>4. QED
    BY <1>1, <1>2, <1>3, PaymentsInvariant, PTL DEF P2pSpec

\* A payment that is final stays as it is, and of the send it was made for: a late
\* answer, a released message, one that was injected or a victim that gives up changes
\* nothing about it, and a repeated call makes a payment of its own.
THEOREM FinalPaymentsStay ==
    P2pSpec => [][\A p \in DOMAIN pays :
                      /\ p \in DOMAIN pays' /\ pays'[p].send = pays[p].send
                      /\ pays[p].status # "Inflight" => pays'[p].status = pays[p].status]_pays
<1>1. PaymentsInv /\ [P2pNext]_p2pVars =>
          [\A p \in DOMAIN pays :
               /\ p \in DOMAIN pays' /\ pays'[p].send = pays[p].send
               /\ pays[p].status # "Inflight" => pays'[p].status = pays[p].status]_pays
    <2> SUFFICES ASSUME PaymentsInv, [P2pNext]_p2pVars, pays' # pays
                 PROVE  \A p \in DOMAIN pays :
                            /\ p \in DOMAIN pays' /\ pays'[p].send = pays[p].send
                            /\ pays[p].status # "Inflight" =>
                                   pays'[p].status = pays[p].status
        OBVIOUS
    <2>1. SendsOK /\ LettersOK
        BY DEF PaymentsInv
    <2>2. CASE FailsAlone \/ \E q \in 1 .. MaxPays : ArriveOut(q)
        <3>1. Settles
            BY <2>1, <2>2, SettleStep
        <3>2. QED
            BY <3>1 DEF Settles
    <2>3. CASE SendAnswered \/ SendBroken \/ SendTimesOut
        <3>1. Execute /\ UNCHANGED <<captured, held, inbox, leftover, gone>>
            BY <2>3 DEF SendAnswered, SendBroken, SendTimesOut, nodeVars, queueVars
        <3>2. Adds
            BY <2>1, <3>1, ExecuteStep
        <3>3. QED
            BY <3>2 DEF Adds
    <2>4. ~(\E q \in 1 .. MaxPays : ArriveIn(q) \/ Process(q))
        BY DEF ArriveIn, Process
    <2>5. ~(StartSend \/ SendRefused \/ AwaitFinished \/ AwaitGivesUp)
        BY DEF StartSend, SendRefused, AwaitFinished, AwaitGivesUp, nodeVars
    <2>6. ~QueueStep
        BY DEF QueueStep, Intercept, ClearIntercept, BeginWait, WaitTimesOut, SendRaw,
               Take, WaitPoll, TakeMatching, Deliver, DeliverPoll, DeliverMatching,
               TakeHeld, HeldPoll, Release, ReleasePoll, ReleaseMatching, nodeVars
    <2>7. QED
        BY <2>2, <2>3, <2>4, <2>5, <2>6 DEF P2pNext, QueueStep, p2pVars, nodeVars
<1>2. QED
    BY <1>1, PaymentsInvariant, PTL DEF P2pSpec

-----------------------------------------------------------------------------
(* Totals of cells: induction over finite sets, by a least counterexample. *)

\* Of finitely many sets some are least.
LEMMA MinimalSubset ==
    ASSUME NEW S, IsFiniteSet(S), NEW T, T \subseteq SUBSET S, T # {}
    PROVE  \E x \in T : \A y \in T : y \subseteq x => y = x
<1>1. T \subseteq FiniteSubsetsOf(S)
    BY FS_Subset DEF FiniteSubsetsOf
<1>2. PICK x \in T : \A y \in T : ~ (<<y, x>> \in StrictSubsetOrdering(S))
    BY <1>1, FS_StrictSubsetOrderingWellFounded, WFMin
<1>3. QED
    BY <1>2 DEF StrictSubsetOrdering

\* A set of natural numbers has a least one.
LEMMA LeastNatural ==
    ASSUME NEW T, T \subseteq Nat, T # {}
    PROVE  \E n \in T : \A m \in T : n <= m
<1>1. PICK k : k \in T
    OBVIOUS
<1>2. k \in Nat /\ IsFiniteSet(1 .. k)
    BY <1>1, FS_Interval
<1> DEFINE Segments == {s \in SUBSET (1 .. k) : \E m \in T : s = 1 .. m}
<1>3. 1 .. k \in Segments
    BY <1>1
<1>4. PICK x \in Segments : \A y \in Segments : y \subseteq x => y = x
    <2>1. \A s \in Segments : s \in SUBSET (1 .. k)
        OBVIOUS
    <2> HIDE DEF Segments
    <2>2. QED
        BY <1>2, <1>3, <2>1, MinimalSubset
<1>5. PICK n \in T : x = 1 .. n
    BY <1>4
<1>6. ASSUME NEW m \in T, m < n
      PROVE  FALSE
    <2>1. n \in Nat /\ m \in Nat
        OBVIOUS
    <2>2. 1 .. m \subseteq 1 .. n /\ n \in 1 .. n /\ n \notin 1 .. m
        BY <1>6, <2>1
    <2>3. 1 .. m \in Segments
        BY <1>5, <2>2
    <2>4. QED
        BY <1>4, <1>5, <2>2, <2>3
<1>7. QED
    BY <1>6

\* The cell that a total counts first, and what is left.
First(s) == CHOOSE x \in s : TRUE
Rest(s) == s \ {First(s)}

\* It is one of the cells.
LEMMA FirstIs ==
    ASSUME NEW s, s # {}
    PROVE  First(s) \in s
BY DEF First

Sums(g, dom) == g = [s \in dom |-> IF s = {} THEN 0 ELSE First(s).cap + g[Rest(s)]]

UpTo(S, n) == {s \in SUBSET S : Cardinality(s) <= n}

LEMMA RestIs ==
    ASSUME NEW S, IsFiniteSet(S), NEW n \in Nat \ {0}, NEW s \in UpTo(S, n), s # {}
    PROVE  Rest(s) \in UpTo(S, n - 1) /\ Rest(s) \in UpTo(S, n)
<1>1. IsFiniteSet(s) /\ First(s) \in s
    BY FS_Subset, FirstIs DEF UpTo
<1>2. Cardinality(Rest(s)) = Cardinality(s) - 1 /\ Cardinality(s) \in Nat
    BY <1>1, FS_RemoveElement, FS_CardinalityType DEF Rest
<1>3. QED
    BY <1>1, <1>2 DEF UpTo, Rest

\* The sums of the sets of at most n elements exist, for every n.
LEMMA SumsUpTo ==
    ASSUME NEW S, IsFiniteSet(S), NEW n \in Nat
    PROVE  \E g : Sums(g, UpTo(S, n))
<1> DEFINE Bad == {m \in Nat : ~ \E g : Sums(g, UpTo(S, m))}
<1> SUFFICES ASSUME Bad # {} PROVE FALSE
    OBVIOUS
<1>1. PICK m \in Bad : \A k \in Bad : m <= k
    <2>1. Bad \subseteq Nat
        OBVIOUS
    <2> HIDE DEF Bad
    <2>2. QED
        BY <2>1, LeastNatural
<1>2. m # 0
    <2>1. SUFFICES ASSUME m = 0 PROVE FALSE
        OBVIOUS
    <2> DEFINE g == [s \in UpTo(S, 0) |-> 0]
    <2>2. \A s \in UpTo(S, 0) : s = {}
        <3> SUFFICES ASSUME NEW s \in UpTo(S, 0) PROVE s = {}
            OBVIOUS
        <3>1. IsFiniteSet(s) /\ Cardinality(s) \in Nat /\ Cardinality(s) <= 0
            BY FS_Subset, FS_CardinalityType DEF UpTo
        <3>2. QED
            BY <3>1, FS_EmptySet
    <2>3. Sums(g, UpTo(S, 0))
        BY <2>2 DEF Sums
    <2>4. QED
        BY <2>1, <2>3
<1>3. m - 1 \in Nat /\ m - 1 \notin Bad
    BY <1>1, <1>2
<1>4. PICK g : Sums(g, UpTo(S, m - 1))
    BY <1>3
<1> DEFINE dom == UpTo(S, m)
<1> DEFINE h == [s \in dom |-> IF s = {} THEN 0 ELSE First(s).cap + g[Rest(s)]]
<1>5. \A s \in UpTo(S, m - 1) : s \in dom /\ h[s] = g[s]
    <2>1. \A s \in UpTo(S, m - 1) : s \in dom
        BY <1>3, FS_Subset, FS_CardinalityType DEF UpTo
    <2>2. \A s \in UpTo(S, m - 1) : g[s] = IF s = {} THEN 0 ELSE First(s).cap + g[Rest(s)]
        BY <1>4 DEF Sums
    <2> HIDE DEF dom
    <2>3. QED
        BY <2>1, <2>2
<1>6. \A s \in dom : s # {} => Rest(s) \in UpTo(S, m - 1)
    BY <1>1, <1>2, RestIs
<1>7. Sums(h, dom)
    <2>1. \A s \in dom : s # {} => h[Rest(s)] = g[Rest(s)]
        BY <1>5, <1>6
    <2>2. \A s \in dom : h[s] = IF s = {} THEN 0 ELSE First(s).cap + h[Rest(s)]
        BY <2>1
    <2> HIDE DEF dom
    <2>3. QED
        BY <2>2 DEF Sums
<1>8. QED
    BY <1>7, <1>1

\* The sums of all the subsets of a set.
Tallies(g, S) == Sums(g, SUBSET S)

\* Every finite set of cells has a function that sums up its subsets, cell by cell.
LEMMA SumsExist ==
    ASSUME NEW S, IsFiniteSet(S)
    PROVE  \E g : Tallies(g, S)
<1>1. Cardinality(S) \in Nat
    BY FS_CardinalityType
<1>2. UpTo(S, Cardinality(S)) = SUBSET S
    BY FS_Subset DEF UpTo
<1>3. PICK g : Sums(g, UpTo(S, Cardinality(S)))
    BY <1>1, SumsUpTo
<1>4. QED
    BY <1>2, <1>3 DEF Tallies

TheSums(S) == CHOOSE g : Tallies(g, S)

\* Total is such a sum.
LEMMA TotalIs ==
    ASSUME NEW S, IsFiniteSet(S)
    PROVE  Tallies(TheSums(S), S) /\ Total(S) = TheSums(S)[S]
<1>1. Tallies(TheSums(S), S)
    BY SumsExist DEF TheSums
<1>2. Total(S) = TheSums(S)[S]
    BY DEF Total, MapThenSumSet, MapThenFoldSet, TheSums, Tallies, Sums, Rest, First
<1>3. QED
    BY <1>1, <1>2

\* The sums of capacities are natural numbers.
LEMMA SumsAreNatural ==
    ASSUME NEW S, IsFiniteSet(S), \A c \in S : c.cap \in Nat, NEW g, Tallies(g, S)
    PROVE  \A s \in SUBSET S : g[s] \in Nat
<1> DEFINE Bad == {s \in SUBSET S : g[s] \notin Nat}
<1> SUFFICES ASSUME Bad # {} PROVE FALSE
    OBVIOUS
<1>1. PICK s \in Bad : \A t \in Bad : t \subseteq s => t = s
    <2>1. Bad \subseteq SUBSET S
        OBVIOUS
    <2> HIDE DEF Bad
    <2>2. QED
        BY <2>1, MinimalSubset
<1>2. g[s] = IF s = {} THEN 0 ELSE First(s).cap + g[Rest(s)]
    BY DEF Tallies, Sums
<1>3. s # {} /\ First(s) \in s
    BY <1>2, FirstIs
<1>4. Rest(s) \in SUBSET S /\ Rest(s) \subseteq s /\ Rest(s) # s
    BY <1>3 DEF Rest
<1>5. g[Rest(s)] \in Nat
    BY <1>1, <1>4
<1>6. QED
    BY <1>2, <1>3, <1>5

\* The total of finitely many cells is a natural number.
LEMMA TotalType ==
    ASSUME NEW S, IsFiniteSet(S), \A c \in S : c.cap \in Nat
    PROVE  Total(S) \in Nat
BY TotalIs, SumsAreNatural

\* A part of a set is summed as it is by itself.
LEMMA SumsAgree ==
    ASSUME NEW S, IsFiniteSet(S), NEW R \in SUBSET S,
           NEW g, Tallies(g, S), NEW h, Tallies(h, R)
    PROVE  g[R] = h[R]
<1> DEFINE Bad == {s \in SUBSET R : g[s] # h[s]}
<1> SUFFICES ASSUME Bad # {} PROVE FALSE
    OBVIOUS
<1>1. PICK s \in Bad : \A t \in Bad : t \subseteq s => t = s
    <2>1. Bad \subseteq SUBSET R /\ IsFiniteSet(R)
        BY FS_Subset
    <2> HIDE DEF Bad
    <2>2. QED
        BY <2>1, MinimalSubset
<1>2. /\ g[s] = IF s = {} THEN 0 ELSE First(s).cap + g[Rest(s)]
      /\ h[s] = IF s = {} THEN 0 ELSE First(s).cap + h[Rest(s)]
    <2>1. s \in SUBSET R /\ s \in SUBSET S
        OBVIOUS
    <2>2. QED
        BY <2>1 DEF Tallies, Sums
<1>3. s # {} /\ First(s) \in s
    BY <1>2, FirstIs
<1>4. Rest(s) \in SUBSET R /\ Rest(s) \subseteq s /\ Rest(s) # s
    BY <1>3 DEF Rest
<1>5. g[Rest(s)] = h[Rest(s)]
    BY <1>1, <1>4
<1>6. QED
    BY <1>2, <1>5

\* The sum of a set is the capacity of one of its cells and the sum of the others.
LEMMA TotalRest ==
    ASSUME NEW S, IsFiniteSet(S)
    PROVE  Total(S) = IF S = {} THEN 0 ELSE First(S).cap + Total(Rest(S))
<1>1. Rest(S) \subseteq S /\ IsFiniteSet(Rest(S))
    BY FS_Subset DEF Rest
<1>2. PICK g : Tallies(g, S) /\ Total(S) = g[S]
    BY TotalIs
<1>3. PICK h : Tallies(h, Rest(S)) /\ Total(Rest(S)) = h[Rest(S)]
    BY <1>1, TotalIs
<1>5. g[Rest(S)] = h[Rest(S)]
    BY <1>1, <1>2, <1>3, SumsAgree
<1>6. g[S] = IF S = {} THEN 0 ELSE First(S).cap + g[Rest(S)]
    BY <1>2 DEF Tallies, Sums
<1>7. QED
    BY <1>2, <1>3, <1>5, <1>6

\* It does not matter which cell is counted first.
LEMMA TotalWithout ==
    ASSUME NEW S, IsFiniteSet(S), \A c \in S : c.cap \in Nat, NEW x \in S
    PROVE  Total(S) = x.cap + Total(S \ {x}) /\ Total(S \ {x}) \in Nat
<1>0. \A s \in SUBSET S : IsFiniteSet(s) /\ Total(s) \in Nat
    <2>1. TAKE s \in SUBSET S
    <2>2. IsFiniteSet(s) /\ \A c \in s : c.cap \in Nat
        BY FS_Subset
    <2>3. QED
        BY <2>2, TotalType
<1> DEFINE Bad == {s \in SUBSET S : \E y \in s : Total(s) # y.cap + Total(s \ {y})}
<1>1. Bad = {}
    <2> SUFFICES ASSUME Bad # {} PROVE FALSE
        OBVIOUS
    <2>1. PICK s \in Bad : \A t \in Bad : t \subseteq s => t = s
        <3>1. Bad \subseteq SUBSET S
            OBVIOUS
        <3> HIDE DEF Bad
        <3>2. QED
            BY <3>1, MinimalSubset
    <2>2. PICK y \in s : Total(s) # y.cap + Total(s \ {y})
        OBVIOUS
    <2> DEFINE z == First(s)
               both == (s \ {y}) \ {z}
    <2>3. s \in SUBSET S /\ z \in s /\ z \in S /\ y \in S /\ Total(s) = z.cap + Total(s \ {z})
        <3>1. s \in SUBSET S /\ IsFiniteSet(s) /\ s # {}
            BY <1>0
        <3>2. z \in s
            BY <3>1, FirstIs
        <3>3. Total(s) = z.cap + Total(s \ {z})
            BY <3>1, TotalRest DEF Rest
        <3>4. QED
            BY <3>1, <3>2, <3>3
    <2>4. z # y
        BY <2>2, <2>3
    <2>5. Total(s \ {z}) = y.cap + Total((s \ {z}) \ {y})
        <3>1. s \ {z} \in SUBSET S /\ s \ {z} \subseteq s /\ s \ {z} # s /\ y \in s \ {z}
            BY <2>3, <2>4
        <3> HIDE DEF z
        <3>2. QED
            BY <2>1, <3>1
    <2>6. Total(s \ {y}) = z.cap + Total(both)
        <3>1. s \ {y} \in SUBSET S /\ s \ {y} \subseteq s /\ s \ {y} # s /\ z \in s \ {y}
            BY <2>3, <2>4
        <3> HIDE DEF z
        <3>2. QED
            BY <2>1, <3>1
    <2>7. (s \ {z}) \ {y} = both /\ both \in SUBSET S
        BY <2>3
    <2> HIDE DEF z, both, Bad
    <2>8. Total(both) \in Nat /\ y.cap \in Nat /\ z.cap \in Nat
        BY <1>0, <2>3, <2>7
    <2>9. Total(s) = z.cap + (y.cap + Total(both))
        BY <2>3, <2>5, <2>7
    <2>10. y.cap + Total(s \ {y}) = y.cap + (z.cap + Total(both))
        BY <2>6
    <2>11. QED
        BY <2>2, <2>8, <2>9, <2>10
<1>2. S \in SUBSET S /\ S \notin Bad
    BY <1>1
<1>3. QED
    BY <1>0, <1>2

\* A cell that is added adds its capacity.
LEMMA TotalWith ==
    ASSUME NEW S, IsFiniteSet(S), \A c \in S : c.cap \in Nat, NEW x, x.cap \in Nat, x \notin S
    PROVE  Total(S \cup {x}) = x.cap + Total(S) /\ Total(S) \in Nat
<1>1. IsFiniteSet(S \cup {x}) /\ \A c \in S \cup {x} : c.cap \in Nat
    BY FS_AddElement
<1>2. (S \cup {x}) \ {x} = S /\ x \in S \cup {x}
    OBVIOUS
<1>3. Total(S \cup {x}) = x.cap + Total((S \cup {x}) \ {x})
    BY <1>1, <1>2, TotalWithout
<1>4. QED
    BY <1>2, <1>3, TotalType

\* The sums of no cell, one cell and two cells.
LEMMA TotalsOfFew ==
    /\ Total({}) = 0
    /\ \A x : x.cap \in Nat => Total({x}) = x.cap
    /\ \A x, y : x.cap \in Nat /\ y.cap \in Nat /\ x # y => Total({x, y}) = x.cap + y.cap
<1>1. IsFiniteSet({}) /\ Total({}) = 0
    BY FS_EmptySet, TotalRest
<1>2. ASSUME NEW x, x.cap \in Nat
      PROVE  Total({x}) = x.cap /\ IsFiniteSet({x})
    <2>1. {} \cup {x} = {x}
        OBVIOUS
    <2>2. Total({} \cup {x}) = x.cap + Total({})
        BY <1>1, <1>2, TotalWith
    <2>3. QED
        BY <1>1, <1>2, <2>1, <2>2, FS_Singleton
<1>3. ASSUME NEW x, NEW y, x.cap \in Nat, y.cap \in Nat, x # y
      PROVE  Total({x, y}) = x.cap + y.cap
    <2>1. {y} \cup {x} = {x, y} /\ x \notin {y}
        BY <1>3
    <2>2. Total({y}) = y.cap /\ IsFiniteSet({y})
        BY <1>2, <1>3
    <2>3. Total({y} \cup {x}) = x.cap + Total({y})
        BY <1>3, <2>1, <2>2, TotalWith
    <2>4. QED
        BY <1>3, <2>1, <2>2, <2>3
<1>4. QED
    BY <1>1, <1>2, <1>3

\* Disjoint sets of cells are worth what they are worth together.
LEMMA TotalUnion ==
    ASSUME NEW S, IsFiniteSet(S), \A c \in S : c.cap \in Nat,
           NEW R, IsFiniteSet(R), \A c \in R : c.cap \in Nat, S \cap R = {}
    PROVE  Total(S \cup R) = Total(S) + Total(R)
<1> DEFINE Bad == {r \in SUBSET R : Total(S \cup r) # Total(S) + Total(r)}
<1>0. Total(S) \in Nat
    BY TotalType
<1>1. Bad = {}
    <2> SUFFICES ASSUME Bad # {} PROVE FALSE
        OBVIOUS
    <2>1. PICK r \in Bad : \A t \in Bad : t \subseteq r => t = r
        <3>1. Bad \subseteq SUBSET R
            OBVIOUS
        <3> HIDE DEF Bad
        <3>2. QED
            BY <3>1, MinimalSubset
    <2>2. r # {}
        <3>1. CASE r = {}
            <4>1. S \cup r = S
                BY <3>1
            <4>2. QED
                BY <1>0, <3>1, <4>1, TotalsOfFew
        <3>2. QED
            BY <3>1
    <2>3. PICK x : x \in r
        BY <2>2
    <2> DEFINE q == r \ {x}
    <2>4. /\ IsFiniteSet(q) /\ q \subseteq r /\ q # r /\ q \in SUBSET R /\ x \in R /\ x \notin q
          /\ q \cup {x} = r /\ x \notin S
        BY <2>3, FS_Subset
    <2>5. Total(S \cup q) = Total(S) + Total(q)
        BY <2>1, <2>4
    <2>6. Total(r) = x.cap + Total(q) /\ Total(q) \in Nat
        <3> HIDE DEF q, Bad
        <3>1. x.cap \in Nat /\ \A c \in q : c.cap \in Nat
            BY <2>4
        <3>2. QED
            BY <2>4, <3>1, TotalWith
    <2>7. Total(S \cup r) = x.cap + Total(S \cup q)
        <3> HIDE DEF q, Bad
        <3>1. /\ x.cap \in Nat /\ \A c \in S \cup q : c.cap \in Nat
              /\ x \notin S \cup q /\ (S \cup q) \cup {x} = S \cup r
            BY <2>4
        <3>2. IsFiniteSet(S \cup q)
            BY <2>4, FS_Union
        <3>3. Total((S \cup q) \cup {x}) = x.cap + Total(S \cup q)
            BY <3>1, <3>2, TotalWith
        <3>4. QED
            BY <3>1, <3>3
    <2>8. x.cap \in Nat
        BY <2>4
    <2> HIDE DEF q
    <2>9. Total(S \cup r) = Total(S) + Total(r)
        BY <1>0, <2>5, <2>6, <2>7, <2>8
    <2>10. QED
        BY <2>9
<1>2. R \notin Bad
    BY <1>1
<1>3. QED
    BY <1>2

\* The sum of a set is that of a part and that of the rest.
LEMMA TotalParts ==
    ASSUME NEW S, IsFiniteSet(S), \A c \in S : c.cap \in Nat, NEW R, R \subseteq S
    PROVE  /\ Total(S) = Total(S \ R) + Total(R)
           /\ Total(R) \in Nat /\ Total(S \ R) \in Nat
<1>1. /\ IsFiniteSet(R) /\ IsFiniteSet(S \ R) /\ (S \ R) \cup R = S /\ (S \ R) \cap R = {}
      /\ \A c \in R : c.cap \in Nat /\ \A d \in S \ R : d.cap \in Nat
    BY FS_Subset
<1>2. Total((S \ R) \cup R) = Total(S \ R) + Total(R)
    BY <1>1, TotalUnion
<1>3. QED
    BY <1>1, <1>2, TotalType

-----------------------------------------------------------------------------
(* The chain of a devnet test. *)

Steps == {"clear", "mine", "issue_own", "until", "start_miner", "transfer", "until_known",
          "issue", "sync", "raised"}
Pickers == {"issue", "issue_own", "transfer"}
Untils == {"until", "until_known"}

\* A stack of steps: what a transaction is waited for with comes right after it, and
\* the pool is cleared first of all.
WorkOK(w) ==
    /\ w \in Seq(Steps)
    /\ \A i \in 1 .. Len(w) :
          /\ w[i] = "clear" => i = 1 /\ Len(w) >= 2 /\ w[2] = "mine"
          /\ w[i] \in {"sync", "raised"} => i = 1
          /\ w[i] \in Pickers => i < Len(w) /\ w[i + 1] \in Untils

LEMMA SetupIs ==
    /\ WorkOK(SetupWork) /\ SetupWork # <<>> /\ Head(SetupWork) = "clear"
    /\ DOMAIN SetupWork = 1 .. 9 /\ SetupWork[1] = "clear" /\ SetupWork[2] = "mine"
    /\ SetupWork[7] = "issue_own" /\ SetupWork[8] = "until" /\ SetupWork[9] = "start_miner"
<1> DEFINE one == <<"clear">>
           mines == [i \in 1 .. 5 |-> "mine"]
           rest == <<"issue_own", "until", "start_miner">>
<1>1. mines \in Seq(Steps) /\ Len(mines) = 5 /\ \A i \in 1 .. 5 : mines[i] = "mine"
    BY DEF Steps
<1>2. /\ one \in Seq(Steps) /\ Len(one) = 1 /\ one[1] = "clear"
      /\ rest \in Seq(Steps) /\ Len(rest) = 3
      /\ rest[1] = "issue_own" /\ rest[2] = "until" /\ rest[3] = "start_miner"
    BY DEF Steps
<1> HIDE DEF one, mines, rest
<1> DEFINE start == one \o mines
<1>3. /\ start \in Seq(Steps) /\ Len(start) = Len(one) + Len(mines)
      /\ \A i \in 1 .. (Len(one) + Len(mines)) :
             start[i] = IF i <= Len(one) THEN one[i] ELSE mines[i - Len(one)]
    BY <1>1, <1>2, ConcatProperties
<1> HIDE DEF start
<1>4. Len(start) = 6 /\ start[1] = "clear" /\ \A i \in 2 .. 6 : start[i] = "mine"
    BY <1>1, <1>2, <1>3
<1> DEFINE w == start \o rest
<1>5. /\ w \in Seq(Steps) /\ Len(w) = Len(start) + Len(rest)
      /\ \A i \in 1 .. (Len(start) + Len(rest)) :
             w[i] = IF i <= Len(start) THEN start[i] ELSE rest[i - Len(start)]
    <2>1. start \in Seq(Steps) /\ rest \in Seq(Steps)
        BY <1>2, <1>3
    <2>2. QED
        BY <2>1, ConcatProperties
<1> HIDE DEF w
<1>6. /\ Len(w) = 9 /\ w[1] = "clear" /\ \A i \in 2 .. 6 : w[i] = "mine"
      /\ w[7] = "issue_own" /\ w[8] = "until" /\ w[9] = "start_miner"
    BY <1>2, <1>4, <1>5
<1>7. \A i \in 1 .. 9 : i = 1 \/ i \in 2 .. 6 \/ i = 7 \/ i = 8 \/ i = 9
    OBVIOUS
<1>8. WorkOK(w)
    <2>1. ASSUME NEW i \in 1 .. Len(w)
          PROVE  /\ w[i] = "clear" => i = 1 /\ Len(w) >= 2 /\ w[2] = "mine"
                 /\ w[i] \in {"sync", "raised"} => i = 1
                 /\ w[i] \in Pickers => i < Len(w) /\ w[i + 1] \in Untils
        <3>1. CASE i = 7
            BY <1>6, <3>1 DEF Pickers, Untils
        <3>2. CASE i \in {1, 8, 9} \/ i \in 2 .. 6
            BY <1>6, <3>2 DEF Pickers
        <3>3. QED
            BY <1>6, <1>7, <3>1, <3>2
    <2>2. QED
        BY <1>5, <2>1 DEF WorkOK
<1>9. SetupWork = w
    BY DEF w, start, rest, mines, one, SetupWork
<1>10. w # <<>> /\ Head(w) = w[1]
    BY <1>5, <1>6
<1>11. QED
    BY <1>6, <1>8, <1>9, <1>10

\* A job taken off the stack.
LEMMA TailOK ==
    ASSUME NEW w, WorkOK(w), w # <<>>
    PROVE  /\ WorkOK(Tail(w)) /\ Head(w) = w[1] /\ Len(w) \in Nat \ {0}
           /\ Len(Tail(w)) = Len(w) - 1 /\ \A i \in 1 .. (Len(w) - 1) : Tail(w)[i] = w[i + 1]
           /\ \A i \in 1 .. Len(Tail(w)) : Tail(w)[i] \notin {"clear", "sync", "raised"}
<1>1. /\ w \in Seq(Steps) /\ Len(w) \in Nat \ {0}
      /\ \A i \in 1 .. Len(w) :
            /\ w[i] = "clear" => i = 1 /\ Len(w) >= 2 /\ w[2] = "mine"
            /\ w[i] \in {"sync", "raised"} => i = 1
            /\ w[i] \in Pickers => i < Len(w) /\ w[i + 1] \in Untils
    BY EmptySeq DEF WorkOK
<1>2. /\ Tail(w) \in Seq(Steps) /\ Len(Tail(w)) = Len(w) - 1
      /\ \A i \in 1 .. Len(Tail(w)) : Tail(w)[i] = w[i + 1]
    BY <1>1, HeadTailProperties
<1>3. ASSUME NEW i \in 1 .. Len(Tail(w))
      PROVE  /\ Tail(w)[i] \notin {"clear", "sync", "raised"}
             /\ Tail(w)[i] \in Pickers => i < Len(Tail(w)) /\ Tail(w)[i + 1] \in Untils
    <2>1. i \in Nat \ {0} /\ i + 1 \in 1 .. Len(w) /\ i + 1 # 1 /\ Tail(w)[i] = w[i + 1]
        BY <1>1, <1>2
    <2>2. Tail(w)[i] \notin {"clear", "sync", "raised"}
        BY <1>1, <2>1
    <2>3. ASSUME Tail(w)[i] \in Pickers
          PROVE  i < Len(Tail(w)) /\ Tail(w)[i + 1] \in Untils
        <3>1. i + 1 < Len(w) /\ w[(i + 1) + 1] \in Untils
            BY <1>1, <2>1, <2>3
        <3>2. i < Len(Tail(w)) /\ i + 1 \in 1 .. Len(Tail(w))
            BY <1>1, <1>2, <2>1, <3>1
        <3>3. QED
            BY <1>2, <3>1, <3>2
    <2>4. QED
        BY <2>2, <2>3
<1>4. WorkOK(Tail(w))
    BY <1>2, <1>3 DEF WorkOK
<1>5. Head(w) = w[1]
    BY <1>1
<1>6. QED
    BY <1>1, <1>2, <1>3, <1>4, <1>5

\* A job put on the stack.
LEMMA PushOK ==
    ASSUME NEW w, WorkOK(w), NEW job \in {"mine", "sync"},
           \A i \in 1 .. Len(w) : w[i] \notin {"clear", "sync", "raised"}
    PROVE  LET v == <<job>> \o w IN
           /\ WorkOK(v) /\ v # <<>> /\ Head(v) = job
           /\ Len(w) \in Nat /\ Len(v) = Len(w) + 1 /\ v[1] = job
           /\ \A i \in 1 .. Len(w) : v[i + 1] = w[i]
<1> DEFINE one == <<job>>
           v == one \o w
<1>1. /\ w \in Seq(Steps) /\ Len(w) \in Nat
      /\ \A i \in 1 .. Len(w) : w[i] \in Pickers => i < Len(w) /\ w[i + 1] \in Untils
    BY LenProperties DEF WorkOK
<1>2. one \in Seq(Steps) /\ Len(one) = 1 /\ one[1] = job
    BY DEF Steps
<1> HIDE DEF one
<1>3. /\ v \in Seq(Steps) /\ Len(v) = Len(one) + Len(w)
      /\ \A i \in 1 .. (Len(one) + Len(w)) :
             v[i] = IF i <= Len(one) THEN one[i] ELSE w[i - Len(one)]
    <2>1. w \in Seq(Steps) /\ one \in Seq(Steps)
        BY <1>1, <1>2
    <2>2. QED
        BY <2>1, ConcatProperties
<1> HIDE DEF v
<1>4. /\ Len(v) = Len(w) + 1 /\ v[1] = job
      /\ \A i \in 1 .. Len(w) : v[i + 1] = w[i]
    <2>1. Len(v) = Len(w) + 1 /\ v[1] = job
        BY <1>1, <1>2, <1>3
    <2>2. ASSUME NEW i \in 1 .. Len(w)
          PROVE  v[i + 1] = w[i]
        <3>1. /\ i + 1 \in 1 .. (Len(one) + Len(w)) /\ ~(i + 1 <= Len(one))
              /\ (i + 1) - Len(one) = i
            BY <1>1, <1>2
        <3>2. QED
            BY <1>3, <3>1
    <2>3. QED
        BY <2>1, <2>2
<1>5. v # <<>> /\ Head(v) = job
    BY <1>1, <1>3, <1>4
<1>6. ASSUME NEW i \in 1 .. Len(v)
      PROVE  /\ v[i] # "clear"
             /\ v[i] \in {"sync", "raised"} => i = 1
             /\ v[i] \in Pickers => i < Len(v) /\ v[i + 1] \in Untils
    <2>1. CASE i = 1
        BY <1>4, <2>1 DEF Pickers
    <2>2. CASE i # 1
        <3>1. i - 1 \in 1 .. Len(w) /\ (i - 1) + 1 = i
            BY <1>1, <1>4, <2>2
        <3>2. v[i] = w[i - 1]
            BY <1>4, <3>1
        <3>3. ASSUME v[i] \in Pickers
              PROVE  i < Len(v) /\ v[i + 1] \in Untils
            <4>1. i - 1 < Len(w) /\ w[i] \in Untils
                BY <1>1, <3>1, <3>2, <3>3
            <4>2. i \in 1 .. Len(w) /\ i < Len(v)
                BY <1>1, <1>4, <4>1
            <4>3. QED
                BY <1>4, <4>1, <4>2
        <3>4. QED
            BY <3>1, <3>2, <3>3
    <2>3. QED
        BY <2>1, <2>2
<1>7. WorkOK(v)
    BY <1>3, <1>6 DEF WorkOK
<1>8. QED
    BY <1>1, <1>4, <1>5, <1>7 DEF v, one

LEMMA FaucetIs ==
    \A w \in {FaucetWork, SubSeq(FaucetWork, 1, 2), SubSeq(FaucetWork, 3, 4)} : WorkOK(w)
<1>1. /\ FaucetWork \in Seq(Steps) /\ Len(FaucetWork) = 4
      /\ FaucetWork[1] = "transfer" /\ FaucetWork[2] = "until_known"
      /\ FaucetWork[3] = "issue" /\ FaucetWork[4] = "until_known"
    BY DEF FaucetWork, Steps
<1> DEFINE a == SubSeq(FaucetWork, 1, 2)
           b == SubSeq(FaucetWork, 3, 4)
<1>2. /\ a \in Seq(Steps) /\ Len(a) = 2 /\ a[1] = "transfer" /\ a[2] = "until_known"
      /\ b \in Seq(Steps) /\ Len(b) = 2 /\ b[1] = "issue" /\ b[2] = "until_known"
    BY <1>1
<1> HIDE DEF a, b
<1>3. WorkOK(a) /\ WorkOK(b)
    <2>1. \A i \in 1 .. 2 : i = 1 \/ i = 2
        OBVIOUS
    <2>2. QED
        BY <1>2, <2>1 DEF WorkOK, Pickers, Untils
<1>4. WorkOK(FaucetWork)
    <2>1. \A i \in 1 .. 4 : i = 1 \/ i = 2 \/ i = 3 \/ i = 4
        OBVIOUS
    <2>2. QED
        BY <1>1, <2>1 DEF WorkOK, Pickers, Untils
<1>5. QED
    BY <1>3, <1>4 DEF a, b

-----------------------------------------------------------------------------
IsTx(t) == /\ t = [status |-> t.status, by |-> t.by, ins |-> t.ins, outs |-> t.outs]
           /\ t.status \in Statuses /\ t.by \in {"test", "fiber"}

\* The transactions, none of which spends a UDT cell.
TxsOK ==
    /\ \E S : txs \in Seq(S)
    /\ \A n \in DOMAIN txs : IsTx(txs[n]) /\ \A c \in txs[n].ins : ~c.typed

Sent(n) == n \in DOMAIN txs /\ txs[n].by = "test"
LastTest(n) == \A m \in DOMAIN txs : Sent(m) => m <= n

\* The test waits for the transaction it sent last before it picks coins again.
Waiting ==
    \/ Len(work) >= 1 /\ work[1] \in Untils
    \/ Len(work) >= 2 /\ work[2] \in Untils /\ work[1] \in {"mine", "sync"}

\* A transaction of the test that is in the pool is being waited for, unless the
\* method has raised; then the next one clears the pool.
PoolOK ==
    \A n \in DOMAIN txs : Sent(n) /\ InPool(txs[n]) =>
        /\ work # <<>>
        /\ work[1] \in {"clear", "raised"} \/ (Waiting /\ LastTest(n))

\* If the indexer is behind, the background miner was faster, or the test is about
\* to mine and to wait for it.
IndexerOK ==
    /\ idxFresh => seen = live
    /\ ~idxFresh /\ ~unseen => work # <<>> /\ work[1] \in {"clear", "raised", "mine", "sync"}

ChainInv == TxsOK /\ WorkOK(work) /\ PoolOK /\ IndexerOK

LEMMA TxsFacts ==
    ASSUME TxsOK
    PROVE  Len(txs) \in Nat /\ DOMAIN txs = 1 .. Len(txs)
BY LenProperties DEF TxsOK

LEMMA DoingIs ==
    ASSUME WorkOK(work), NEW job, Doing(job)
    PROVE  work # <<>> /\ work[1] = job /\ Len(work) \in Nat \ {0}
BY TailOK DEF Doing

\* The head of what is left decides; the rest is for later.
LEMMA LastSentIs ==
    ASSUME TxsOK, NEW n, Sent(n), LastTest(n)
    PROVE  LastSent = n
<1>1. n \in DOMAIN txs /\ DOMAIN txs \subseteq Nat
    BY TxsFacts DEF Sent
<1>2. \A m \in DOMAIN txs :
          (txs[m].by = "test" /\ \A k \in DOMAIN txs : txs[k].by = "test" => k <= m) => m = n
    BY <1>1 DEF Sent, LastTest
<1>3. txs[n].by = "test" /\ \A k \in DOMAIN txs : txs[k].by = "test" => k <= n
    BY DEF Sent, LastTest
<1>4. QED
    BY <1>1, <1>2, <1>3 DEF LastSent

\* What the node and the pool do to the transactions there are: none comes back.
TxsKept ==
    /\ TxsOK' /\ DOMAIN txs' = DOMAIN txs
    /\ \A n \in DOMAIN txs : /\ txs'[n].by = txs[n].by
                             /\ InPool(txs'[n]) => InPool(txs[n])

LEMMA Restated ==
    ASSUME TxsOK, DOMAIN txs' = DOMAIN txs, \E S : txs' \in Seq(S),
           \A n \in DOMAIN txs : \/ txs'[n] = txs[n]
                                 \/ \E st \in Statuses :
                                        /\ txs'[n] = [txs[n] EXCEPT !.status = st]
                                        /\ st \in {"pending", "proposed"} => InPool(txs[n])
    PROVE  TxsKept
<1>1. ASSUME NEW n \in DOMAIN txs
      PROVE  /\ IsTx(txs'[n]) /\ \A c \in txs'[n].ins : ~c.typed
             /\ txs'[n].by = txs[n].by
             /\ InPool(txs'[n]) => InPool(txs[n])
    <2>1. IsTx(txs[n]) /\ \A c \in txs[n].ins : ~c.typed
        BY DEF TxsOK
    <2>2. CASE txs'[n] = txs[n]
        BY <2>1, <2>2
    <2>3. ASSUME NEW st \in Statuses, txs'[n] = [txs[n] EXCEPT !.status = st],
                 st \in {"pending", "proposed"} => InPool(txs[n])
          PROVE  /\ IsTx(txs'[n]) /\ \A c \in txs'[n].ins : ~c.typed
                 /\ txs'[n].by = txs[n].by
                 /\ InPool(txs'[n]) => InPool(txs[n])
        <3> DEFINE t == txs[n]
                   u == txs'[n]
        <3>1. t = [status |-> t.status, by |-> t.by, ins |-> t.ins, outs |-> t.outs]
            BY <2>1 DEF IsTx
        <3>2. u = [status |-> st, by |-> t.by, ins |-> t.ins, outs |-> t.outs]
            BY <2>3, <3>1
        <3> HIDE DEF u, t
        <3>3. u.status = st /\ u.by = t.by /\ u.ins = t.ins /\ u.outs = t.outs
            BY <3>2
        <3>4. IsTx(u)
            BY <2>1, <3>2, <3>3 DEF IsTx, t
        <3>5. InPool(u) => InPool(t)
            BY <2>3, <3>3 DEF InPool, t
        <3>6. QED
            BY <2>1, <3>3, <3>4, <3>5 DEF u, t
    <2>4. QED
        BY <2>2, <2>3
<1>2. QED
    BY <1>1 DEF TxsKept, TxsOK

LEMMA BlockKeepsTxs ==
    ASSUME TxsOK, Block
    PROVE  TxsKept
<1> DEFINE done == {n \in DOMAIN txs : txs[n].status = "proposed"}
           after(n) == CASE n \in done -> [txs[n] EXCEPT !.status = "committed"]
                         [] txs[n].status = "pending" -> [txs[n] EXCEPT !.status = "proposed"]
                         [] OTHER -> txs[n]
<1>1. txs' = [n \in DOMAIN txs |-> after(n)]
    BY DEF Block
<1>2. \A n \in DOMAIN txs : \/ after(n) = txs[n]
                            \/ \E st \in Statuses :
                                   /\ after(n) = [txs[n] EXCEPT !.status = st]
                                   /\ st \in {"pending", "proposed"} => InPool(txs[n])
    <2>1. TAKE n \in DOMAIN txs
    <2>2. CASE n \in done
        BY <2>2 DEF Statuses
    <2>3. CASE n \notin done /\ txs[n].status = "pending"
        BY <2>3 DEF Statuses, InPool
    <2>4. CASE n \notin done /\ txs[n].status # "pending"
        BY <2>4
    <2>5. QED
        BY <2>2, <2>3, <2>4
<1> HIDE DEF after
<1>3. txs' \in Seq({after(n) : n \in DOMAIN txs})
    <2>1. Len(txs) \in Nat /\ DOMAIN txs = 1 .. Len(txs)
        BY TxsFacts
    <2>2. txs' \in [1 .. Len(txs) -> {after(n) : n \in DOMAIN txs}]
        BY <1>1, <2>1
    <2>3. QED
        BY <2>1, <2>2, SeqDef
<1>4. DOMAIN txs' = DOMAIN txs
    BY <1>1
<1>5. \A n \in DOMAIN txs : txs'[n] = after(n)
    BY <1>1
<1>6. QED
    BY <1>2, <1>3, <1>4, <1>5, Restated

LEMMA ClearKeepsTxs ==
    ASSUME TxsOK, ClearPool
    PROVE  TxsKept /\ \A n \in DOMAIN txs : ~InPool(txs'[n])
<1> DEFINE after(n) == IF InPool(txs[n]) THEN [txs[n] EXCEPT !.status = "unknown"] ELSE txs[n]
<1>1. txs' = [n \in DOMAIN txs |-> after(n)]
    BY DEF ClearPool
<1>2. \A n \in DOMAIN txs : \/ after(n) = txs[n]
                            \/ \E st \in Statuses :
                                   /\ after(n) = [txs[n] EXCEPT !.status = st]
                                   /\ st \in {"pending", "proposed"} => InPool(txs[n])
    BY DEF Statuses
<1>3. \A n \in DOMAIN txs : ~InPool(after(n))
    <2>1. TAKE n \in DOMAIN txs
    <2>2. ASSUME InPool(txs[n])
          PROVE  [txs[n] EXCEPT !.status = "unknown"].status = "unknown"
        BY DEF TxsOK, IsTx
    <2>3. QED
        BY <2>2 DEF InPool
<1> HIDE DEF after
<1>4. txs' \in Seq({after(n) : n \in DOMAIN txs})
    <2>1. Len(txs) \in Nat /\ DOMAIN txs = 1 .. Len(txs)
        BY TxsFacts
    <2>2. txs' \in [1 .. Len(txs) -> {after(n) : n \in DOMAIN txs}]
        BY <1>1, <2>1
    <2>3. QED
        BY <2>1, <2>2, SeqDef
<1>5. DOMAIN txs' = DOMAIN txs /\ \A n \in DOMAIN txs : txs'[n] = after(n)
    BY <1>1
<1>6. QED
    BY <1>2, <1>3, <1>4, <1>5, Restated

\* A transaction is added at the end.
LEMMA AddedTx ==
    ASSUME TxsOK, NEW t, IsTx(t), \A c \in t.ins : ~c.typed, txs' = Append(txs, t)
    PROVE  /\ TxsOK' /\ DOMAIN txs' = DOMAIN txs \cup {Len(txs) + 1}
           /\ \A n \in DOMAIN txs : txs'[n] = txs[n] /\ n < Len(txs) + 1
           /\ txs'[Len(txs) + 1] = t /\ Len(txs) + 1 \in Nat
<1>1. PICK S : txs \in Seq(S)
    BY DEF TxsOK
<1>2. txs \in Seq(S \cup {t}) /\ t \in S \cup {t}
    BY <1>1, SeqMonotonic
<1>3. /\ txs' \in Seq(S \cup {t}) /\ Len(txs') = Len(txs) + 1
      /\ \A i \in 1 .. Len(txs) : txs'[i] = txs[i]
      /\ txs'[Len(txs) + 1] = t
    BY <1>2, AppendProperties
<1>4. Len(txs) \in Nat /\ DOMAIN txs = 1 .. Len(txs) /\ DOMAIN txs' = 1 .. Len(txs')
    BY <1>2, <1>3, LenProperties
<1>5. DOMAIN txs' = DOMAIN txs \cup {Len(txs) + 1}
    BY <1>3, <1>4
<1>6. \A n \in DOMAIN txs' : IsTx(txs'[n]) /\ \A c \in txs'[n].ins : ~c.typed
    <2>1. \A n \in DOMAIN txs : IsTx(txs[n]) /\ \A c \in txs[n].ins : ~c.typed
        BY DEF TxsOK
    <2>2. QED
        BY <1>3, <1>4, <1>5, <2>1
<1>7. TxsOK'
    BY <1>3, <1>6 DEF TxsOK
<1>8. QED
    BY <1>3, <1>4, <1>5, <1>7

-----------------------------------------------------------------------------
LEMMA SameTxs ==
    ASSUME TxsOK, UNCHANGED txs
    PROVE  TxsKept
BY DEF TxsOK, TxsKept

LEMMA RaisedOK ==
    WorkOK(<<"raised">>) /\ <<"raised">> # <<>> /\ <<"raised">>[1] = "raised"
BY DEF WorkOK, Steps, Pickers

\* Is there nothing of the test in the pool?
NoneAwaited == \A n \in DOMAIN txs : Sent(n) => ~InPool(txs[n])

LEMMA IdleWhen ==
    ASSUME PoolOK, work # <<>> => work[1] \notin {"clear", "raised"}, work # <<>> => ~Waiting
    PROVE  NoneAwaited
BY DEF PoolOK, NoneAwaited

LEMMA IdleStays ==
    ASSUME NoneAwaited, TxsKept
    PROVE  PoolOK'
BY DEF NoneAwaited, TxsKept, PoolOK, Sent

\* What is waited for is waited for still.
LEMMA PoolStays ==
    ASSUME PoolOK, TxsKept,
           work # <<>> /\ work[1] \in {"clear", "raised"} =>
               work' # <<>> /\ work'[1] \in {"clear", "raised"},
           work # <<>> /\ Waiting => work' # <<>> /\ (work'[1] = "raised" \/ Waiting')
    PROVE  PoolOK'
<1>1. ASSUME NEW n \in DOMAIN txs', Sent(n)', InPool(txs[n])'
      PROVE  /\ work' # <<>>
             /\ work'[1] \in {"clear", "raised"} \/ (Waiting' /\ LastTest(n)')
    <2>1. Sent(n) /\ InPool(txs[n]) /\ n \in DOMAIN txs
        BY <1>1 DEF Sent, TxsKept
    <2>2. LastTest(n) => LastTest(n)'
        BY DEF LastTest, Sent, TxsKept
    <2>3. QED
        BY <2>1, <2>2 DEF PoolOK
<1>2. QED
    BY <1>1 DEF PoolOK

\* The chain is as it was, and the test gives up or goes on.
LEMMA TestGoesOn ==
    ASSUME ChainInv, UNCHANGED chainState, WorkOK(work'),
           work # <<>> /\ work[1] \in {"clear", "raised"} =>
               work' # <<>> /\ work'[1] \in {"clear", "raised"},
           work # <<>> /\ Waiting => work' # <<>> /\ (work'[1] = "raised" \/ Waiting'),
           ~idxFresh /\ ~unseen =>
               work' # <<>> /\ work'[1] \in {"clear", "raised", "mine", "sync"}
    PROVE  ChainInv'
<1>1. TxsKept
    BY SameTxs DEF ChainInv, chainState
<1>2. TxsOK'
    BY <1>1 DEF TxsKept
<1>3. PoolOK'
    BY <1>1, PoolStays DEF ChainInv
<1>4. IndexerOK'
    BY DEF ChainInv, IndexerOK, chainState
<1>5. QED
    BY <1>2, <1>3, <1>4 DEF ChainInv

LEMMA RaiseIsFine ==
    ASSUME ChainInv, UNCHANGED chainState, Raise
    PROVE  ChainInv'
BY TestGoesOn, RaisedOK DEF Raise

\* A picker has nothing of the test in the pool.
LEMMA PickersAreIdle ==
    ASSUME ChainInv, NEW job \in Pickers, Doing(job)
    PROVE  /\ NoneAwaited /\ WorkOK(Tail(work)) /\ Tail(work) # <<>>
           /\ Tail(work)[1] \in Untils
           /\ idxFresh \/ unseen
<1>1. WorkOK(work) /\ work # <<>> /\ work[1] = job /\ Len(work) \in Nat \ {0}
    BY DoingIs DEF ChainInv
<1>2. 1 < Len(work) /\ work[2] \in Untils
    BY <1>1 DEF WorkOK
<1>3. /\ WorkOK(Tail(work)) /\ Len(Tail(work)) = Len(work) - 1
      /\ \A i \in 1 .. (Len(work) - 1) : Tail(work)[i] = work[i + 1]
    BY <1>1, TailOK
<1>4. Tail(work) # <<>> /\ Tail(work)[1] = work[2]
    <2>1. Tail(work) \in Seq(Steps) /\ Len(Tail(work)) # 0
        BY <1>1, <1>2, <1>3 DEF WorkOK
    <2>2. 1 \in 1 .. (Len(work) - 1)
        BY <1>1, <1>2
    <2>3. Tail(work) # <<>>
        BY <2>1, EmptySeq
    <2>4. Tail(work)[1] = work[1 + 1]
        BY <1>3, <2>2
    <2>5. QED
        BY <2>3, <2>4
<1>5. NoneAwaited
    <2>1. work[1] \notin {"clear", "raised"} /\ ~Waiting
        BY <1>1 DEF Pickers, Waiting, Untils
    <2>2. QED
        BY <2>1, IdleWhen DEF ChainInv
<1>6. idxFresh \/ unseen
    BY <1>1 DEF ChainInv, IndexerOK, Pickers
<1>7. QED
    BY <1>2, <1>3, <1>4, <1>5, <1>6

LEMMA SendStep ==
    ASSUME ChainInv, NEW job \in Pickers, Doing(job), NEW ins, NEW outs, NEW fits,
           \A c \in ins : ~c.typed, Send(ins, outs, fits)
    PROVE  ChainInv'
<1> DEFINE t == Tx("test", ins, outs)
<1>1. /\ NoneAwaited /\ WorkOK(Tail(work)) /\ Tail(work) # <<>> /\ Tail(work)[1] \in Untils
      /\ idxFresh \/ unseen
    BY PickersAreIdle
<1>2. CASE UNCHANGED txs /\ Raise
    <2>1. UNCHANGED chainState
        BY <1>2 DEF Send, chainState
    <2>2. QED
        BY <1>2, <2>1, RaiseIsFine
<1>3. CASE txs' = Append(txs, Tx("test", ins, outs)) /\ Done
    <2>1. IsTx(t) /\ t.ins = ins /\ t.by = "test"
        BY DEF Tx, IsTx, Statuses
    <2>2. TxsOK /\ txs' = Append(txs, t) /\ \A c \in t.ins : ~c.typed
        BY <1>3, <2>1 DEF ChainInv
    <2> HIDE DEF t
    <2>3. /\ TxsOK' /\ DOMAIN txs' = DOMAIN txs \cup {Len(txs) + 1}
          /\ \A n \in DOMAIN txs : txs'[n] = txs[n] /\ n < Len(txs) + 1
          /\ txs'[Len(txs) + 1] = t /\ Len(txs) + 1 \in Nat
        BY <2>1, <2>2, AddedTx
    <2>4. WorkOK(work') /\ work' # <<>> /\ work'[1] \in Untils
        BY <1>1, <1>3 DEF Done
    <2>5. Waiting'
        <3>1. Len(work') \in Nat /\ Len(work') # 0
            BY <2>4, EmptySeq, LenProperties DEF WorkOK
        <3>2. QED
            BY <2>4, <3>1 DEF Waiting
    <2>6. PICK last : last = Len(txs) + 1
        OBVIOUS
    <2>7. PoolOK'
        <3>1. \A m \in DOMAIN txs' : m <= last
            BY <2>2, <2>3, <2>6, TxsFacts
        <3>2. LastTest(last)'
            BY <3>1 DEF LastTest
        <3>3. ASSUME NEW n \in DOMAIN txs', Sent(n)', InPool(txs[n])'
              PROVE  n = last
            BY <1>1, <2>3, <2>6, <3>3 DEF NoneAwaited, Sent
        <3>4. QED
            BY <2>4, <2>5, <3>2, <3>3 DEF PoolOK
    <2>8. IndexerOK'
        BY <1>1 DEF ChainInv, IndexerOK, Send
    <2>9. QED
        BY <2>3, <2>4, <2>7, <2>8 DEF ChainInv
<1>4. QED
    BY <1>2, <1>3 DEF Send

LEMMA FiberStep ==
    ASSUME ChainInv, FiberFunds
    PROVE  ChainInv'
<1>1. PICK t : /\ IsTx(t) /\ t.by = "fiber" /\ \A c \in t.ins : ~c.typed
               /\ txs' = Append(txs, t)
    <2>1. PICK c, outs : ~c.typed /\ txs' = Append(txs, Tx("fiber", {c}, outs))
        BY DEF FiberFunds
    <2> DEFINE u == Tx("fiber", {c}, outs)
    <2>2. IsTx(u) /\ u.by = "fiber" /\ u.ins = {c}
        BY DEF Tx, IsTx, Statuses
    <2>3. QED
        BY <2>1, <2>2
<1>2. /\ TxsOK' /\ DOMAIN txs' = DOMAIN txs \cup {Len(txs) + 1}
      /\ \A n \in DOMAIN txs : txs'[n] = txs[n] /\ n < Len(txs) + 1
      /\ txs'[Len(txs) + 1] = t /\ Len(txs) + 1 \in Nat
    BY <1>1, AddedTx DEF ChainInv
<1>3. UNCHANGED <<live, seen, idxFresh, unseen, work>>
    BY DEF FiberFunds, testState
<1>4. \A n \in DOMAIN txs' : Sent(n)' => n \in DOMAIN txs /\ txs'[n] = txs[n] /\ Sent(n)
    BY <1>1, <1>2 DEF Sent
<1>5. \A n \in DOMAIN txs : LastTest(n) => LastTest(n)'
    BY <1>4 DEF LastTest
<1>6. PoolOK'
    <2>1. Waiting' <=> Waiting
        BY <1>3 DEF Waiting
    <2>2. QED
        BY <1>3, <1>4, <1>5, <2>1 DEF ChainInv, PoolOK
<1>7. IndexerOK' /\ WorkOK(work')
    BY <1>3 DEF ChainInv, IndexerOK
<1>8. QED
    BY <1>2, <1>6, <1>7 DEF ChainInv

\* What is mined for goes on being waited for.
LEMMA MinedFor ==
    ASSUME ChainInv, Doing("mine"), work' = <<"sync">> \o Tail(work)
    PROVE  /\ WorkOK(work') /\ work' # <<>> /\ work'[1] = "sync" /\ (Waiting => Waiting')
           /\ work[1] = "mine"
<1>1. WorkOK(work) /\ work # <<>> /\ work[1] = "mine"
    BY DoingIs DEF ChainInv
<1> DEFINE rest == Tail(work)
<1>2. /\ WorkOK(rest) /\ Len(rest) = Len(work) - 1 /\ Len(work) \in Nat \ {0}
      /\ \A i \in 1 .. (Len(work) - 1) : rest[i] = work[i + 1]
      /\ \A i \in 1 .. Len(rest) : rest[i] \notin {"clear", "sync", "raised"}
    BY <1>1, TailOK
<1> HIDE DEF rest
<1>3. work' = <<"sync">> \o rest
    BY DEF rest
<1>4. /\ WorkOK(work') /\ work' # <<>> /\ Len(work') = Len(rest) + 1 /\ work'[1] = "sync"
      /\ \A i \in 1 .. Len(rest) : work'[i + 1] = rest[i]
    BY <1>2, <1>3, PushOK
<1>5. ASSUME Waiting
      PROVE  Waiting'
    <2>1. Len(work) >= 2 /\ work[2] \in Untils
        BY <1>1, <1>5 DEF Waiting, Untils
    <2>2. 1 \in 1 .. Len(rest) /\ 1 \in 1 .. (Len(work) - 1) /\ Len(work') >= 2
        BY <1>2, <1>4, <2>1
    <2>3. work'[1 + 1] = work[1 + 1]
        BY <1>2, <1>4, <2>2
    <2>4. work'[2] \in Untils
        BY <2>1, <2>3
    <2>5. QED
        BY <1>4, <2>2, <2>4 DEF Waiting
<1>6. QED
    BY <1>1, <1>4, <1>5

LEMMA MineStep ==
    ASSUME ChainInv, SubmitBlock \/ SubmitFails
    PROVE  ChainInv'
<1>1. CASE SubmitBlock
    <2>1. /\ WorkOK(work') /\ work' # <<>> /\ work'[1] = "sync" /\ (Waiting => Waiting')
          /\ work[1] = "mine"
        BY <1>1, MinedFor DEF SubmitBlock
    <2>2. TxsKept
        <3>1. CASE ExtendsTip
            BY <1>1, <3>1, BlockKeepsTxs DEF SubmitBlock, ChainInv
        <3>2. CASE ~ExtendsTip
            BY <1>1, <3>2, SameTxs DEF SubmitBlock, ChainInv
        <3>3. QED
            BY <3>1, <3>2
    <2>3. PoolOK'
        BY <2>1, <2>2, PoolStays DEF ChainInv
    <2>4. IndexerOK'
        <3>1. CASE ExtendsTip
            BY <1>1, <2>1, <3>1 DEF SubmitBlock, Block, IndexerOK
        <3>2. CASE ~ExtendsTip
            BY <1>1, <2>1, <3>2 DEF SubmitBlock, ChainInv, IndexerOK
        <3>3. QED
            BY <3>1, <3>2
    <2>5. QED
        BY <2>1, <2>2, <2>3, <2>4 DEF ChainInv, TxsKept
<1>2. CASE SubmitFails
    <2>1. UNCHANGED chainState /\ Doing("mine")
        BY <1>2 DEF SubmitFails
    <2>2. CASE UNCHANGED work
        <3>1. work # <<>> /\ work[1] = "mine"
            BY <2>1, DoingIs DEF ChainInv
        <3>2. WorkOK(work') /\ (Waiting => Waiting')
            BY <2>2 DEF ChainInv, Waiting
        <3>3. QED
            BY <2>1, <2>2, <3>1, <3>2, TestGoesOn
    <2>3. CASE Raise
        BY <2>1, <2>3, RaiseIsFine
    <2>4. CASE work' = <<"sync">> \o Tail(work)
        BY <2>1, <2>4, MinedFor, TestGoesOn
    <2>5. QED
        BY <1>2, <2>2, <2>3, <2>4 DEF SubmitFails
<1>3. QED
    BY <1>1, <1>2

LEMMA SyncStep ==
    ASSUME ChainInv, Sync
    PROVE  ChainInv'
<1>1. UNCHANGED chainState /\ Doing("sync")
    BY DEF Sync
<1>2. CASE Raise
    BY <1>1, <1>2, RaiseIsFine
<1>3. CASE idxFresh /\ Done
    <2>1. WorkOK(work) /\ work # <<>> /\ work[1] = "sync"
        BY <1>1, DoingIs DEF ChainInv
    <2>2. /\ WorkOK(work') /\ Len(work) \in Nat \ {0} /\ Len(work') = Len(work) - 1
          /\ \A i \in 1 .. (Len(work) - 1) : work'[i] = work[i + 1]
        BY <1>3, <2>1, TailOK DEF Done
    <2>3. ASSUME Waiting
          PROVE  work' # <<>> /\ Waiting'
        <3>1. Len(work) >= 2 /\ work[2] \in Untils
            BY <2>1, <2>3 DEF Waiting, Untils
        <3>2. 1 \in 1 .. (Len(work) - 1) /\ Len(work') >= 1
            BY <2>2, <3>1
        <3>3. work'[1] = work[1 + 1]
            BY <2>2, <3>2
        <3>4. work'[1] \in Untils
            BY <3>1, <3>3
        <3>5. QED
            BY <3>2, <3>4 DEF Waiting
    <2>4. QED
        BY <1>1, <1>3, <2>1, <2>2, <2>3, TestGoesOn
<1>4. QED
    BY <1>2, <1>3 DEF Sync

LEMMA StatusStep ==
    ASSUME ChainInv, NEW job \in Untils, SeeStatus(job)
    PROVE  ChainInv'
<1>1. /\ UNCHANGED chainState /\ WorkOK(work) /\ work # <<>> /\ work[1] = job
      /\ Len(work) \in Nat \ {0}
    BY DoingIs DEF SeeStatus, ChainInv
<1>2. /\ work[1] \notin {"clear", "raised", "mine", "sync"}
      /\ idxFresh \/ unseen
    BY <1>1 DEF Untils, ChainInv, IndexerOK
<1>3. CASE Raise
    BY <1>1, <1>3, RaiseIsFine
<1>4. CASE txs[LastSent].status = "committed" /\ Done
    <2>1. WorkOK(work')
        BY <1>1, <1>4, TailOK DEF Done
    <2>2. NoneAwaited
        <3>1. ASSUME NEW n \in DOMAIN txs, Sent(n), InPool(txs[n])
              PROVE  FALSE
            <4>1. LastTest(n)
                BY <1>2, <3>1 DEF ChainInv, PoolOK
            <4>2. LastSent = n
                BY <3>1, <4>1, LastSentIs DEF ChainInv
            <4>3. QED
                BY <1>4, <3>1, <4>2 DEF InPool
        <3>2. QED
            BY <3>1 DEF NoneAwaited
    <2>3. TxsKept
        BY <1>1, SameTxs DEF ChainInv, chainState
    <2>4. PoolOK' /\ TxsOK'
        BY <2>2, <2>3, IdleStays DEF TxsKept
    <2>5. IndexerOK'
        BY <1>1, <1>2 DEF ChainInv, IndexerOK, chainState
    <2>6. QED
        BY <2>1, <2>4, <2>5 DEF ChainInv
<1>5. CASE work' = <<"mine">> \o work
    <2>1. \A i \in 1 .. Len(work) : work[i] \notin {"clear", "sync", "raised"}
        BY <1>1, <1>2 DEF WorkOK
    <2>2. /\ WorkOK(work') /\ work' # <<>> /\ Len(work') = Len(work) + 1 /\ work'[1] = "mine"
          /\ \A i \in 1 .. Len(work) : work'[i + 1] = work[i]
        BY <1>1, <1>5, <2>1, PushOK
    <2>3. work'[2] = job /\ Len(work') >= 2
        <3>1. 1 \in 1 .. Len(work) /\ Len(work') >= 2
            BY <1>1, <2>2
        <3>2. work'[1 + 1] = work[1]
            BY <2>2, <3>1
        <3>3. QED
            BY <1>1, <3>1, <3>2
    <2>4. Waiting'
        BY <2>2, <2>3 DEF Waiting
    <2>5. QED
        BY <1>1, <1>2, <2>2, <2>4, TestGoesOn
<1>6. QED
    BY <1>3, <1>4, <1>5 DEF SeeStatus

LEMMA ClearStep ==
    ASSUME ChainInv, ClearPool
    PROVE  ChainInv'
<1>1. WorkOK(work) /\ work # <<>> /\ work[1] = "clear" /\ Len(work) \in Nat \ {0}
    BY DoingIs DEF ClearPool, ChainInv
<1>2. Len(work) >= 2 /\ work[2] = "mine"
    BY <1>1 DEF WorkOK
<1>3. /\ WorkOK(work') /\ Len(work') = Len(work) - 1
      /\ \A i \in 1 .. (Len(work) - 1) : work'[i] = work[i + 1]
    BY <1>1, TailOK DEF ClearPool, Done
<1>4. work' # <<>> /\ work'[1] = "mine"
    <2>1. 1 \in 1 .. (Len(work) - 1) /\ Len(work') # 0
        BY <1>1, <1>2, <1>3
    <2>2. work'[1] = work[1 + 1]
        BY <1>3, <2>1
    <2>3. QED
        BY <1>2, <1>3, <2>1, <2>2, EmptySeq DEF WorkOK
<1>5. TxsKept /\ \A n \in DOMAIN txs : ~InPool(txs'[n])
    BY ClearKeepsTxs DEF ChainInv
<1>6. PoolOK' /\ TxsOK'
    BY <1>5 DEF PoolOK, TxsKept
<1>7. IndexerOK'
    BY <1>4 DEF ClearPool, ChainInv, IndexerOK
<1>8. QED
    BY <1>3, <1>6, <1>7 DEF ChainInv

LEMMA MinerStep ==
    ASSUME ChainInv, StartMiner
    PROVE  ChainInv'
<1>1. WorkOK(work) /\ work # <<>> /\ work[1] = "start_miner"
    BY DoingIs DEF StartMiner, ChainInv
<1>2. WorkOK(work')
    BY <1>1, TailOK DEF StartMiner, Done
<1>3. NoneAwaited
    <2>1. ~Waiting
        BY <1>1 DEF Waiting, Untils
    <2>2. QED
        BY <1>1, <2>1, IdleWhen DEF ChainInv
<1>4. TxsKept
    BY SameTxs DEF ChainInv, StartMiner
<1>5. PoolOK' /\ TxsOK'
    BY <1>3, <1>4, IdleStays DEF TxsKept
<1>6. IndexerOK'
    BY <1>1 DEF StartMiner, ChainInv, IndexerOK
<1>7. QED
    BY <1>2, <1>5, <1>6 DEF ChainInv

\* The node's own steps leave the test alone.
LEMMA NodeStep ==
    ASSUME ChainInv, BackgroundBlock \/ IndexerCatchesUp \/ PoolCatchesUp
    PROVE  ChainInv'
<1>1. UNCHANGED work
    BY DEF BackgroundBlock, IndexerCatchesUp, PoolCatchesUp, testState
<1>2. TxsKept
    <2>1. CASE BackgroundBlock
        BY <2>1, BlockKeepsTxs DEF BackgroundBlock, ChainInv
    <2>2. CASE IndexerCatchesUp \/ PoolCatchesUp
        BY <2>2, SameTxs DEF IndexerCatchesUp, PoolCatchesUp, ChainInv
    <2>3. QED
        BY <2>1, <2>2
<1>3. PoolOK'
    <2>1. Waiting => Waiting'
        BY <1>1 DEF Waiting
    <2>2. work # <<>> /\ Waiting => work' # <<>>
        BY <1>1
    <2>3. QED
        BY <1>1, <1>2, <2>1, <2>2, PoolStays DEF ChainInv
<1>4. IndexerOK'
    BY <1>1 DEF BackgroundBlock, Block, IndexerCatchesUp, PoolCatchesUp, ChainInv, IndexerOK
<1>5. QED
    BY <1>1, <1>2, <1>3, <1>4 DEF ChainInv, TxsKept

LEMMA CallStep ==
    ASSUME ChainInv, Faucet \/ BeginTest
    PROVE  ChainInv'
<1>1. CASE Faucet
    <2>1. WorkOK(work') /\ work = <<>> /\ UNCHANGED chainState
        BY <1>1, FaucetIs DEF Faucet
    <2>2. NoneAwaited
        BY <2>1, IdleWhen DEF ChainInv
    <2>3. TxsKept
        BY <2>1, SameTxs DEF ChainInv, chainState
    <2>4. PoolOK' /\ TxsOK'
        BY <2>2, <2>3, IdleStays DEF TxsKept
    <2>5. IndexerOK'
        BY <2>1 DEF ChainInv, IndexerOK, chainState
    <2>6. QED
        BY <2>1, <2>4, <2>5 DEF ChainInv
<1>2. CASE BeginTest
    <2>1. WorkOK(work') /\ work' # <<>> /\ work'[1] = "clear" /\ UNCHANGED chainState
        BY <1>2, SetupIs, TailOK DEF BeginTest
    <2>2. TxsKept
        BY <2>1, SameTxs DEF ChainInv, chainState
    <2>3. PoolOK'
        <3>1. work # <<>> => work[1] = "raised"
            BY <1>2, DoingIs DEF BeginTest, ChainInv
        <3>2. ASSUME NEW n \in DOMAIN txs', Sent(n)', InPool(txs[n])'
              PROVE  work' # <<>> /\ work'[1] \in {"clear", "raised"}
            BY <2>1
        <3>3. QED
            BY <3>2 DEF PoolOK
    <2>4. IndexerOK'
        BY <2>1 DEF ChainInv, IndexerOK, chainState
    <2>5. QED
        BY <2>1, <2>2, <2>3, <2>4 DEF ChainInv, TxsKept
<1>3. QED
    BY <1>1, <1>2

LEMMA PickStep ==
    ASSUME ChainInv, Issue("issue") \/ Issue("issue_own") \/ Transfer \/ OutOfCoins
    PROVE  ChainInv'
<1>1. ASSUME NEW job \in {"issue", "issue_own"}, Issue(job)
      PROVE  ChainInv'
    <2>1. PICK ins \in SUBSET IssueCandidates :
              Send(ins, IssueOutputs(Len(txs) + 1, Total(ins), job = "issue_own"),
                   Total(ins) >= UdtSize)
        BY <1>1 DEF Issue
    <2>2. job \in Pickers /\ Doing(job) /\ \A c \in ins : ~c.typed
        BY <1>1, <2>1 DEF Issue, Pickers, IssueCandidates
    <2>3. QED
        BY <2>1, <2>2, SendStep
<1>2. CASE Transfer
    <2>1. PICK ins \in SUBSET {c \in seen : ~c.typed} :
              Send(ins, {Cell(Len(txs) + 1, Total(ins) - Gift, FALSE)}, Total(ins) > Gift)
        BY <1>2 DEF Transfer
    <2>2. "transfer" \in Pickers /\ Doing("transfer") /\ \A c \in ins : ~c.typed
        BY <1>2, <2>1 DEF Transfer, Pickers
    <2>3. QED
        BY <2>1, <2>2, SendStep
<1>3. CASE OutOfCoins
    BY <1>3, RaiseIsFine DEF OutOfCoins
<1>4. QED
    BY <1>1, <1>2, <1>3

-----------------------------------------------------------------------------
\* At every moment, a transaction of the test that is in the pool is being waited for
\* or about to be cleared, and an indexer behind the tip is being waited for unless
\* the background miner was faster; no transaction spends a UDT cell.
THEOREM ChainInvariant == ChainSpec => []ChainInv
<1>1. ChainInit => ChainInv
    <2> SUFFICES ASSUME ChainInit PROVE ChainInv
        OBVIOUS
    <2>1. txs = <<>> /\ work = <<>> /\ idxFresh = TRUE /\ seen = live
        BY DEF ChainInit
    <2>2. TxsOK
        <3>1. txs \in Seq({}) /\ DOMAIN txs = {}
            BY <2>1
        <3>2. QED
            BY <3>1 DEF TxsOK
    <2>3. WorkOK(work)
        BY <2>1 DEF WorkOK
    <2>4. PoolOK /\ IndexerOK
        BY <2>1 DEF PoolOK, IndexerOK
    <2>5. QED
        BY <2>2, <2>3, <2>4 DEF ChainInv
<1>2. ChainInv /\ [ChainNext]_chainVars => ChainInv'
    <2> SUFFICES ASSUME ChainInv, [ChainNext]_chainVars
                 PROVE  ChainInv'
        OBVIOUS
    <2>1. CASE BackgroundBlock \/ IndexerCatchesUp \/ PoolCatchesUp
        BY <2>1, NodeStep
    <2>2. CASE FiberFunds
        BY <2>2, FiberStep
    <2>3. CASE ClearPool
        BY <2>3, ClearStep
    <2>4. CASE StartMiner
        BY <2>4, MinerStep
    <2>5. CASE SubmitBlock \/ SubmitFails
        BY <2>5, MineStep
    <2>6. CASE Sync
        BY <2>6, SyncStep
    <2>7. CASE SeeStatus("until") \/ SeeStatus("until_known")
        BY <2>7, StatusStep DEF Untils
    <2>8. CASE Issue("issue") \/ Issue("issue_own") \/ Transfer \/ OutOfCoins
        BY <2>8, PickStep
    <2>9. CASE Faucet \/ BeginTest
        BY <2>9, CallStep
    <2>10. CASE UNCHANGED chainVars
        <3>1. UNCHANGED <<txs, live, seen, idxFresh, unseen, work>>
            BY <2>10 DEF chainVars, chainState, testState
        <3>2. TxsOK' /\ WorkOK(work')
            BY <3>1 DEF ChainInv, TxsOK
        <3>3. PoolOK' /\ IndexerOK'
            BY <3>1 DEF ChainInv, PoolOK, IndexerOK, Sent, Waiting, LastTest
        <3>4. QED
            BY <3>2, <3>3 DEF ChainInv
    <2>11. QED
        BY <2>1, <2>2, <2>3, <2>4, <2>5, <2>6, <2>7, <2>8, <2>9, <2>10 DEF ChainNext
<1>3. QED
    BY <1>1, <1>2, PTL DEF ChainSpec

-----------------------------------------------------------------------------
(* What the account is worth. *)

\* Finitely many cells, each worth something.
AreCells(S) ==
    /\ IsFiniteSet(S)
    /\ \A c \in S : c.cap \in Nat \ {0} /\ c.typed \in BOOLEAN

\* Is the cell on the chain, or was it?
Made(c) == c.of \in Int /\ (c.of <= 0 \/ (c.of \in DOMAIN txs /\ txs[c.of].status = "committed"))

\* The transactions' cells; what the pool is about to commit can be committed, what
\* is committed is spent, and no output is on the chain before that.
CellsOK ==
    /\ AreCells(live) /\ \A c \in live : Made(c)
    /\ \A n \in DOMAIN txs :
          /\ AreCells(txs[n].ins) /\ \A c \in txs[n].ins : Made(c)
          /\ AreCells(txs[n].outs) /\ \A c \in txs[n].outs : c.of = n
          /\ Total(txs[n].outs) <= Total(txs[n].ins)
          /\ InPool(txs[n]) => txs[n].ins \subseteq live
          /\ txs[n].status = "committed" => txs[n].ins \cap live = {}

AccountInv == CellsOK /\ SpentOnce

\* Some of the cells are cells, and worth no more than all of them.
LEMMA SomeCells ==
    ASSUME NEW S, AreCells(S), NEW R, R \subseteq S
    PROVE  /\ AreCells(R) /\ \A c \in R : c.cap \in Nat
           /\ Total(R) \in Nat /\ Total(S) = Total(S \ R) + Total(R)
           /\ Total(S \ R) \in Nat
<1>1. AreCells(R)
    BY FS_Subset DEF AreCells
<1>2. \A c \in S : c.cap \in Nat
    BY DEF AreCells
<1>3. QED
    BY <1>1, <1>2, TotalParts DEF AreCells

\* A part of the cells that is replaced by new ones.
LEMMA Replaced ==
    ASSUME NEW S, AreCells(S), NEW R, R \subseteq S, NEW O, AreCells(O), O \cap (S \ R) = {},
           Total(O) <= Total(R)
    PROVE  /\ AreCells((S \ R) \cup O)
           /\ Total((S \ R) \cup O) <= Total(S)
<1>1. /\ AreCells(S \ R) /\ Total(R) \in Nat /\ Total(S \ R) \in Nat
      /\ Total(S) = Total(S \ R) + Total(R)
    BY SomeCells
<1>2. \A c \in O : c.cap \in Nat /\ \A d \in S \ R : d.cap \in Nat
    BY <1>1 DEF AreCells
<1>3. IsFiniteSet(S \ R) /\ IsFiniteSet(O) /\ (S \ R) \cap O = {}
    BY <1>1 DEF AreCells
<1>4. Total((S \ R) \cup O) = Total(S \ R) + Total(O) /\ Total(O) \in Nat
    <2>1. PICK Q : Q = S \ R
        OBVIOUS
    <2>2. /\ IsFiniteSet(Q) /\ (\A c \in Q : c.cap \in Nat) /\ Q \cap O = {}
          /\ IsFiniteSet(O) /\ (\A c \in O : c.cap \in Nat)
        BY <1>1, <1>3, <2>1 DEF AreCells
    <2>3. Total(Q \cup O) = Total(Q) + Total(O)
        BY <2>2, TotalUnion
    <2>4. QED
        BY <2>1, <2>2, <2>3, TotalType
<1>5. AreCells((S \ R) \cup O)
    BY <1>1, FS_Union DEF AreCells
<1>6. QED
    BY <1>1, <1>4, <1>5

-----------------------------------------------------------------------------
\* What a block does to the transactions.
LEMMA BlockMoves ==
    ASSUME TxsOK, Block
    PROVE  /\ DOMAIN txs' = DOMAIN txs
           /\ \A n \in DOMAIN txs :
                 /\ txs'[n].ins = txs[n].ins /\ txs'[n].outs = txs[n].outs
                 /\ txs'[n].status = IF txs[n].status = "proposed" THEN "committed"
                                     ELSE IF txs[n].status = "pending" THEN "proposed"
                                     ELSE txs[n].status
<1>1. DOMAIN txs' = DOMAIN txs
    BY DEF Block
<1>2. ASSUME NEW n \in DOMAIN txs
      PROVE  /\ txs'[n].ins = txs[n].ins /\ txs'[n].outs = txs[n].outs
             /\ txs'[n].status = IF txs[n].status = "proposed" THEN "committed"
                                 ELSE IF txs[n].status = "pending" THEN "proposed"
                                 ELSE txs[n].status
    <2>1. PICK t : t = txs[n] /\ IsTx(t)
        BY DEF TxsOK
    <2>2. t = [status |-> t.status, by |-> t.by, ins |-> t.ins, outs |-> t.outs]
        BY <2>1 DEF IsTx
    <2>3. CASE t.status = "proposed"
        <3>1. txs'[n] = [t EXCEPT !.status = "committed"]
            BY <2>1, <2>3 DEF Block
        <3>2. QED
            BY <2>1, <2>2, <2>3, <3>1
    <2>4. CASE t.status = "pending"
        <3>1. txs'[n] = [t EXCEPT !.status = "proposed"]
            BY <2>1, <2>4 DEF Block
        <3>2. QED
            BY <2>1, <2>2, <2>4, <3>1
    <2>5. CASE t.status \notin {"pending", "proposed"}
        <3>1. txs'[n] = t
            BY <2>1, <2>5 DEF Block
        <3>2. QED
            BY <2>1, <2>5, <3>1
    <2>6. QED
        BY <2>3, <2>4, <2>5
<1>3. QED
    BY <1>1, <1>2

\* Clearing the pool drops what was in it.
LEMMA ClearMoves ==
    ASSUME TxsOK, ClearPool
    PROVE  /\ DOMAIN txs' = DOMAIN txs
           /\ \A n \in DOMAIN txs :
                 /\ txs'[n].ins = txs[n].ins /\ txs'[n].outs = txs[n].outs
                 /\ txs'[n].status = IF InPool(txs[n]) THEN "unknown" ELSE txs[n].status
<1>1. DOMAIN txs' = DOMAIN txs
    BY DEF ClearPool
<1>2. ASSUME NEW n \in DOMAIN txs
      PROVE  /\ txs'[n].ins = txs[n].ins /\ txs'[n].outs = txs[n].outs
             /\ txs'[n].status = IF InPool(txs[n]) THEN "unknown" ELSE txs[n].status
    <2>1. PICK t : t = txs[n] /\ IsTx(t)
        BY DEF TxsOK
    <2>2. t = [status |-> t.status, by |-> t.by, ins |-> t.ins, outs |-> t.outs]
        BY <2>1 DEF IsTx
    <2>3. txs'[n] = IF InPool(t) THEN [t EXCEPT !.status = "unknown"] ELSE t
        BY <2>1 DEF ClearPool
    <2>4. CASE InPool(t)
        BY <2>1, <2>2, <2>3, <2>4
    <2>5. CASE ~InPool(t)
        BY <2>1, <2>3, <2>5
    <2>6. QED
        BY <2>4, <2>5
<1>3. QED
    BY <1>1, <1>2

\* The cells there are when some of the proposed transactions are committed.
InsOf(D) == UNION {txs[n].ins : n \in D}
OutsOf(D) == UNION {txs[n].outs : n \in D}
After(D) == (live \ InsOf(D)) \cup OutsOf(D)

Proposed == {n \in DOMAIN txs : txs[n].status = "proposed"}

\* One more of them takes its inputs and leaves its outputs.
LEMMA OneMore ==
    ASSUME TxsOK, AccountInv, NEW D \in SUBSET Proposed, NEW n \in Proposed, n \notin D
    PROVE  /\ After(D \cup {n}) = (After(D) \ txs[n].ins) \cup txs[n].outs
           /\ txs[n].ins \subseteq After(D)
           /\ txs[n].outs \cap After(D) = {}
<1>1. ASSUME NEW m \in Proposed
      PROVE  /\ m \in DOMAIN txs /\ txs[m].status = "proposed" /\ txs[m].ins \subseteq live
             /\ \A c \in txs[m].outs : c.of = m /\ ~Made(c)
             /\ \A c \in txs[m].ins : Made(c)
    <2>1. m \in DOMAIN txs /\ txs[m].status = "proposed" /\ InPool(txs[m])
        BY DEF Proposed, InPool
    <2>2. /\ txs[m].ins \subseteq live /\ \A c \in txs[m].outs : c.of = m
          /\ \A c \in txs[m].ins : Made(c)
        BY <2>1 DEF AccountInv, CellsOK
    <2>3. \A c \in txs[m].outs : ~Made(c)
        <3>1. TAKE c \in txs[m].outs
        <3>2. c.of = m /\ m \notin {k \in Int : k <= 0}
            BY <2>1, <2>2, TxsFacts
        <3>3. QED
            BY <2>1, <3>2 DEF Made
    <2>4. QED
        BY <2>1, <2>2, <2>3
<1>2. \A m \in D : m # n /\ txs[m].ins \cap txs[n].ins = {}
    BY <1>1 DEF AccountInv, SpentOnce
<1>3. \A m \in D : txs[m].outs \cap txs[n].ins = {} /\ txs[m].outs \cap txs[n].outs = {}
    BY <1>1, <1>2
<1>4. /\ \A x : x \in InsOf(D) <=> \E m \in D : x \in txs[m].ins
      /\ \A x : x \in OutsOf(D) <=> \E m \in D : x \in txs[m].outs
      /\ \A x : x \in InsOf(D \cup {n}) <=> \E m \in D \cup {n} : x \in txs[m].ins
      /\ \A x : x \in OutsOf(D \cup {n}) <=> \E m \in D \cup {n} : x \in txs[m].outs
    BY DEF InsOf, OutsOf
<1>5. live \cap txs[n].outs = {} /\ txs[n].ins \subseteq live
    BY <1>1 DEF AccountInv, CellsOK
<1>6. InsOf(D) \cap txs[n].ins = {} /\ OutsOf(D) \cap txs[n].ins = {} /\ OutsOf(D) \cap txs[n].outs = {}
    BY <1>2, <1>3, <1>4
<1>7. InsOf(D \cup {n}) = InsOf(D) \cup txs[n].ins /\ OutsOf(D \cup {n}) = OutsOf(D) \cup txs[n].outs
    BY <1>4
<1>8. QED
    BY <1>5, <1>6, <1>7 DEF After

\* However many are committed at once, the cells are worth no more than before.
LEMMA CommitsBalance ==
    ASSUME TxsOK, AccountInv
    PROVE  \A D \in SUBSET Proposed : AreCells(After(D)) /\ Total(After(D)) <= Total(live)
<1> DEFINE Bad == {D \in SUBSET Proposed : ~(AreCells(After(D)) /\ Total(After(D)) <= Total(live))}
<1> SUFFICES ASSUME Bad # {} PROVE FALSE
    OBVIOUS
<1>1. IsFiniteSet(Proposed) /\ AreCells(live) /\ Total(live) \in Nat
    <2>1. IsFiniteSet(DOMAIN txs)
        BY TxsFacts, FS_Interval
    <2>2. Proposed \subseteq DOMAIN txs
        BY DEF Proposed
    <2>3. AreCells(live)
        BY DEF AccountInv, CellsOK
    <2>4. QED
        BY <2>1, <2>2, <2>3, FS_Subset, SomeCells
<1>2. PICK D \in Bad : \A E \in Bad : E \subseteq D => E = D
    <2>1. Bad \subseteq SUBSET Proposed
        OBVIOUS
    <2> HIDE DEF Bad
    <2>2. QED
        BY <1>1, <2>1, MinimalSubset
<1>3. D # {}
    <2>1. CASE D = {}
        <3>1. After({}) = live
            BY DEF After, InsOf, OutsOf
        <3>2. QED
            BY <1>1, <2>1, <3>1
    <2>2. QED
        BY <2>1
<1>4. PICK n : n \in D
    BY <1>3
<1> DEFINE E == D \ {n}
<1>5. /\ E \in SUBSET Proposed /\ E \subseteq D /\ E # D /\ n \in Proposed /\ n \notin E
      /\ E \cup {n} = D
    BY <1>4
<1>6. AreCells(After(E)) /\ Total(After(E)) <= Total(live) /\ Total(After(E)) \in Nat
    <2>1. AreCells(After(E)) /\ Total(After(E)) <= Total(live)
        BY <1>2, <1>5
    <2>2. QED
        BY <2>1, SomeCells
<1> HIDE DEF E, Bad
<1>7. /\ After(D) = (After(E) \ txs[n].ins) \cup txs[n].outs
      /\ txs[n].ins \subseteq After(E)
      /\ txs[n].outs \cap After(E) = {}
    <2>1. After(E \cup {n}) = (After(E) \ txs[n].ins) \cup txs[n].outs
        BY <1>5, OneMore
    <2>2. txs[n].ins \subseteq After(E) /\ txs[n].outs \cap After(E) = {}
        BY <1>5, OneMore
    <2>3. QED
        BY <1>5, <2>1, <2>2
<1>8. AreCells(txs[n].outs) /\ Total(txs[n].outs) <= Total(txs[n].ins)
    BY <1>5 DEF AccountInv, CellsOK, Proposed
<1>9. /\ AreCells((After(E) \ txs[n].ins) \cup txs[n].outs)
      /\ Total((After(E) \ txs[n].ins) \cup txs[n].outs) <= Total(After(E))
    <2>1. PICK S, R, O : S = After(E) /\ R = txs[n].ins /\ O = txs[n].outs
        OBVIOUS
    <2>2. /\ AreCells(S) /\ R \subseteq S /\ AreCells(O) /\ O \cap (S \ R) = {}
          /\ Total(O) <= Total(R)
        BY <1>6, <1>7, <1>8, <2>1
    <2>3. AreCells((S \ R) \cup O) /\ Total((S \ R) \cup O) <= Total(S)
        BY <2>2, Replaced
    <2>4. QED
        BY <2>1, <2>3
<1>10. AreCells(After(D)) /\ Total(After(D)) \in Nat
    <2>1. AreCells(After(D))
        BY <1>7, <1>9
    <2>2. QED
        BY <2>1, SomeCells
<1>11. Total(After(D)) <= Total(live)
    BY <1>1, <1>6, <1>7, <1>9, <1>10
<1>12. QED
    BY <1>2, <1>10, <1>11 DEF Bad

\* A transaction that is committed stays so: what was made stays made.
LEMMA BlockAccount ==
    ASSUME TxsOK, AccountInv, Block
    PROVE  AccountInv' /\ Total(live') <= Total(live)
<1>1. /\ DOMAIN txs' = DOMAIN txs
      /\ \A n \in DOMAIN txs :
            /\ txs'[n].ins = txs[n].ins /\ txs'[n].outs = txs[n].outs
            /\ txs'[n].status = IF txs[n].status = "proposed" THEN "committed"
                                ELSE IF txs[n].status = "pending" THEN "proposed"
                                ELSE txs[n].status
    BY BlockMoves
<1>2. live' = After(Proposed)
    BY DEF Block, After, InsOf, OutsOf, Proposed
<1>3. AreCells(live') /\ Total(live') <= Total(live)
    BY <1>2, CommitsBalance
<1>4. \A c : Made(c) => Made(c)'
    BY <1>1 DEF Made
<1>5. \A c : /\ c \in InsOf(Proposed) <=> \E m \in Proposed : c \in txs[m].ins
             /\ c \in OutsOf(Proposed) <=> \E m \in Proposed : c \in txs[m].outs
    BY DEF InsOf, OutsOf
<1>6. \A m \in Proposed : m \in DOMAIN txs /\ txs[m].status = "proposed" /\ m \in Int /\ ~(m <= 0)
    BY TxsFacts DEF Proposed
<1>7. \A c \in OutsOf(Proposed) : c.of \in Proposed /\ ~Made(c) /\ Made(c)'
    <2>1. TAKE c \in OutsOf(Proposed)
    <2>2. PICK m \in Proposed : c \in txs[m].outs
        BY <1>5
    <2>3. c.of = m /\ m \in DOMAIN txs /\ txs'[m].status = "committed"
        BY <1>1, <1>6, <2>2 DEF AccountInv, CellsOK
    <2>4. QED
        BY <1>1, <1>6, <2>2, <2>3 DEF Made
<1>8. \A c \in live' : Made(c)'
    <2>1. \A c \in live : Made(c)'
        BY <1>4 DEF AccountInv, CellsOK
    <2>2. QED
        BY <1>2, <1>7, <2>1 DEF After
<1>9. ASSUME NEW n \in DOMAIN txs
      PROVE  /\ AreCells(txs[n].ins) /\ \A c \in txs[n].ins : Made(c) /\ Made(c)'
             /\ AreCells(txs[n].outs) /\ \A c \in txs[n].outs : c.of = n
             /\ Total(txs[n].outs) <= Total(txs[n].ins)
    BY <1>4, <1>9 DEF AccountInv, CellsOK
<1>10. ASSUME NEW n \in DOMAIN txs, InPool(txs'[n])
       PROVE  txs[n].ins \subseteq live'
    <2>1. txs[n].status = "pending"
        BY <1>1, <1>10 DEF InPool
    <2>2. txs[n].ins \subseteq live
        BY <1>10, <2>1 DEF AccountInv, CellsOK, InPool
    <2>3. \A m \in Proposed : txs[m].ins \cap txs[n].ins = {}
        BY <1>6, <2>1 DEF AccountInv, SpentOnce
    <2>4. QED
        BY <1>2, <1>5, <2>2, <2>3 DEF After
<1>11. ASSUME NEW n \in DOMAIN txs, txs'[n].status = "committed"
       PROVE  txs[n].ins \cap live' = {}
    <2>1. txs[n].ins \cap OutsOf(Proposed) = {}
        BY <1>7, <1>9
    <2>2. CASE n \in Proposed
        <3>1. txs[n].ins \subseteq InsOf(Proposed)
            BY <1>5, <2>2
        <3>2. QED
            BY <1>2, <2>1, <3>1 DEF After
    <2>3. CASE n \notin Proposed
        <3>1. txs[n].status = "committed"
            BY <1>1, <1>11, <2>3 DEF Proposed
        <3>2. txs[n].ins \cap live = {}
            BY <3>1 DEF AccountInv, CellsOK
        <3>3. QED
            BY <1>2, <2>1, <3>2 DEF After
    <2>4. QED
        BY <2>2, <2>3
<1>12. CellsOK'
    <2>1. \A n \in DOMAIN txs' :
              /\ AreCells(txs'[n].ins) /\ \A c \in txs'[n].ins : Made(c)'
              /\ AreCells(txs'[n].outs) /\ \A c \in txs'[n].outs : c.of = n
              /\ Total(txs'[n].outs) <= Total(txs'[n].ins)
              /\ InPool(txs'[n]) => txs'[n].ins \subseteq live'
              /\ txs'[n].status = "committed" => txs'[n].ins \cap live' = {}
        <3>1. TAKE n \in DOMAIN txs'
        <3>2. n \in DOMAIN txs /\ txs'[n].ins = txs[n].ins /\ txs'[n].outs = txs[n].outs
            BY <1>1
        <3>3. QED
            BY <1>9, <1>10, <1>11, <3>2
    <2>2. QED
        BY <1>3, <1>8, <2>1 DEF CellsOK
<1>13. SpentOnce'
    BY <1>1 DEF AccountInv, SpentOnce
<1>14. QED
    BY <1>3, <1>12, <1>13 DEF AccountInv

\* What the pool forgets is neither spent nor waited for.
LEMMA ClearAccount ==
    ASSUME TxsOK, AccountInv, ClearPool
    PROVE  AccountInv'
<1>1. /\ DOMAIN txs' = DOMAIN txs /\ live' = live
      /\ \A n \in DOMAIN txs :
            /\ txs'[n].ins = txs[n].ins /\ txs'[n].outs = txs[n].outs
            /\ txs'[n].status = IF InPool(txs[n]) THEN "unknown" ELSE txs[n].status
    BY ClearMoves DEF ClearPool
<1>2. \A c : Made(c) => Made(c)'
    BY <1>1 DEF Made, InPool
<1>3. \A n \in DOMAIN txs : /\ ~InPool(txs'[n])
                            /\ txs'[n].status = "committed" => txs[n].status = "committed"
                            /\ txs'[n].status # "unknown" => txs[n].status # "unknown"
    BY <1>1 DEF InPool
<1>4. CellsOK'
    <2>1. \A n \in DOMAIN txs' :
              /\ AreCells(txs'[n].ins) /\ \A c \in txs'[n].ins : Made(c)'
              /\ AreCells(txs'[n].outs) /\ \A c \in txs'[n].outs : c.of = n
              /\ Total(txs'[n].outs) <= Total(txs'[n].ins)
              /\ InPool(txs'[n]) => txs'[n].ins \subseteq live'
              /\ txs'[n].status = "committed" => txs'[n].ins \cap live' = {}
        BY <1>1, <1>2, <1>3 DEF AccountInv, CellsOK
    <2>2. AreCells(live') /\ \A c \in live' : Made(c)'
        BY <1>1, <1>2 DEF AccountInv, CellsOK
    <2>3. QED
        BY <2>1, <2>2 DEF CellsOK
<1>5. SpentOnce'
    BY <1>1, <1>3 DEF AccountInv, SpentOnce
<1>6. QED
    BY <1>4, <1>5 DEF AccountInv

\* The pool takes only what spends live cells that nothing in it spends.
LEMMA AddedAccount ==
    ASSUME TxsOK, AccountInv, NEW by \in {"test", "fiber"}, NEW ins, NEW outs, Accepts(ins),
           \A c \in ins : ~c.typed, txs' = Append(txs, Tx(by, ins, outs)), live' = live,
           AreCells(outs), \A c \in outs : c.of = Len(txs) + 1, Total(outs) <= Total(ins)
    PROVE  AccountInv'
<1> DEFINE t == Tx(by, ins, outs)
<1>1. IsTx(t) /\ t.ins = ins /\ t.outs = outs /\ t.status = "pending"
    BY DEF Tx, IsTx, Statuses
<1>2. PICK last : last = Len(txs) + 1
    OBVIOUS
<1>3. txs' = Append(txs, t) /\ \A c \in t.ins : ~c.typed
    BY <1>1
<1> HIDE DEF t
<1>4. /\ DOMAIN txs' = DOMAIN txs \cup {last}
      /\ \A n \in DOMAIN txs : txs'[n] = txs[n] /\ n < last
      /\ txs'[last] = t
    BY <1>1, <1>2, <1>3, AddedTx
<1>5. last \notin DOMAIN txs
    BY <1>2, TxsFacts
<1>6. \A c : Made(c) => Made(c)'
    BY <1>4 DEF Made
<1>7. ins \subseteq live /\ AreCells(ins) /\ \A c \in ins : Made(c)'
    <2>1. ins \subseteq live
        BY DEF Accepts
    <2>2. QED
        BY <1>6, <2>1, SomeCells DEF AccountInv, CellsOK
<1>8. ASSUME NEW n \in DOMAIN txs, txs[n].status # "unknown"
      PROVE  txs[n].ins \cap ins = {}
    <2>1. txs[n].status \in Statuses /\ txs[n].by \in {"test", "fiber"}
        BY DEF TxsOK, IsTx
    <2>2. CASE InPool(txs[n])
        <3>1. txs[n].ins \subseteq Claimed({"test", "fiber"})
            BY <2>1, <2>2 DEF Claimed
        <3>2. QED
            BY <3>1 DEF Accepts
    <2>3. CASE txs[n].status = "committed"
        BY <1>7, <2>3 DEF AccountInv, CellsOK
    <2>4. QED
        BY <1>8, <2>1, <2>2, <2>3 DEF Statuses, InPool
<1>9. SpentOnce'
    <2>1. ASSUME NEW m \in DOMAIN txs', NEW n \in DOMAIN txs', m # n,
                 "unknown" \notin {txs'[m].status, txs'[n].status}
          PROVE  txs'[m].ins \cap txs'[n].ins = {}
        <3>1. CASE m \in DOMAIN txs /\ n \in DOMAIN txs
            BY <1>4, <2>1, <3>1 DEF AccountInv, SpentOnce
        <3>2. CASE m \in DOMAIN txs /\ n = last
            BY <1>1, <1>4, <1>8, <2>1, <3>2
        <3>3. CASE m = last /\ n \in DOMAIN txs
            BY <1>1, <1>4, <1>8, <2>1, <3>3
        <3>4. QED
            BY <1>4, <2>1, <3>1, <3>2, <3>3
    <2>2. QED
        BY <2>1 DEF SpentOnce
<1>10. CellsOK'
    <2>1. ASSUME NEW n \in DOMAIN txs'
          PROVE  /\ AreCells(txs'[n].ins) /\ \A c \in txs'[n].ins : Made(c)'
                 /\ AreCells(txs'[n].outs) /\ \A c \in txs'[n].outs : c.of = n
                 /\ Total(txs'[n].outs) <= Total(txs'[n].ins)
                 /\ InPool(txs'[n]) => txs'[n].ins \subseteq live'
                 /\ txs'[n].status = "committed" => txs'[n].ins \cap live' = {}
        <3>1. CASE n \in DOMAIN txs
            BY <1>4, <1>6, <3>1 DEF AccountInv, CellsOK
        <3>2. CASE n = last
            BY <1>1, <1>2, <1>4, <1>7, <3>2
        <3>3. QED
            BY <1>4, <3>1, <3>2
    <2>2. AreCells(live') /\ \A c \in live' : Made(c)'
        BY <1>6 DEF AccountInv, CellsOK
    <2>3. QED
        BY <2>1, <2>2 DEF CellsOK
<1>11. QED
    BY <1>9, <1>10 DEF AccountInv

\* One cell, or two, of a transaction.
LEMMA FewCells ==
    /\ AreCells({}) /\ Total({}) = 0
    /\ \A x : x.cap \in Nat \ {0} /\ x.typed \in BOOLEAN => AreCells({x}) /\ Total({x}) = x.cap
    /\ \A x, y : /\ x.cap \in Nat \ {0} /\ x.typed \in BOOLEAN
                 /\ y.cap \in Nat \ {0} /\ y.typed \in BOOLEAN /\ x # y
                 => AreCells({x, y}) /\ Total({x, y}) = x.cap + y.cap
<1>1. IsFiniteSet({}) /\ (\A x : IsFiniteSet({x})) /\ \A x, y : IsFiniteSet({x, y})
    <2>1. \A x, y : {x, y} = {x} \cup {y}
        OBVIOUS
    <2>2. \A x, y : IsFiniteSet({x} \cup {y})
        BY FS_Singleton, FS_AddElement
    <2>3. \A x, y : IsFiniteSet({x, y})
        BY <2>1, <2>2
    <2>4. QED
        BY <2>3, FS_EmptySet, FS_Singleton
<1>2. QED
    BY <1>1, TotalsOfFew DEF AreCells

\* Issuing UDT leaves no more than it takes.
LEMMA IssueBalances ==
    ASSUME NEW n, NEW total \in Nat, total >= UdtSize, NEW own \in BOOLEAN
    PROVE  /\ AreCells(IssueOutputs(n, total, own))
           /\ \A c \in IssueOutputs(n, total, own) : c.of = n
           /\ Total(IssueOutputs(n, total, own)) <= total
<1> DEFINE udt == IF total > Large THEN UdtCap ELSE total
           u == Cell(n, udt, TRUE)
           v == Cell(n, total - UdtCap, FALSE)
<1>1. IssueOutputs(n, total, own) =
          (IF own THEN {u} ELSE {}) \cup (IF total > Large THEN {v} ELSE {})
    BY DEF IssueOutputs
<1>2. /\ u.of = n /\ u.cap = udt /\ u.typed = TRUE
      /\ v.of = n /\ v.cap = total - UdtCap /\ v.typed = FALSE
    BY DEF Cell
<1>3. /\ udt \in Nat \ {0} /\ udt <= total
      /\ total > Large => total - UdtCap \in Nat \ {0} /\ udt + (total - UdtCap) = total
    BY DEF UdtSize, Large, UdtCap
<1> HIDE DEF u, v, udt
<1>4. u # v
    BY <1>2
<1>5. CASE own /\ total > Large
    <2>1. IssueOutputs(n, total, own) = {u, v}
        BY <1>1, <1>5
    <2>2. AreCells({u, v}) /\ Total({u, v}) = u.cap + v.cap
        <3>1. /\ u.cap \in Nat \ {0} /\ u.typed \in BOOLEAN
              /\ v.cap \in Nat \ {0} /\ v.typed \in BOOLEAN
            BY <1>2, <1>3, <1>5
        <3>2. QED
            BY <1>4, <3>1, FewCells
    <2>3. Total({u, v}) = total
        BY <1>2, <1>3, <1>5, <2>2
    <2>4. \A c \in {u, v} : c.of = n
        BY <1>2
    <2>5. QED
        BY <2>1, <2>2, <2>3, <2>4
<1>6. CASE own /\ ~(total > Large)
    <2>1. IssueOutputs(n, total, own) = {u}
        BY <1>1, <1>6
    <2>2. AreCells({u}) /\ Total({u}) = u.cap
        BY <1>2, <1>3, FewCells
    <2>3. QED
        BY <1>2, <1>3, <2>1, <2>2
<1>7. CASE ~own /\ total > Large
    <2>1. IssueOutputs(n, total, own) = {v}
        BY <1>1, <1>7
    <2>2. AreCells({v}) /\ Total({v}) = v.cap
        BY <1>2, <1>3, <1>7, FewCells
    <2>3. QED
        BY <1>2, <1>3, <1>7, <2>1, <2>2
<1>8. CASE ~own /\ ~(total > Large)
    <2>1. IssueOutputs(n, total, own) = {}
        BY <1>1, <1>8
    <2>2. QED
        BY <2>1, FewCells
<1>9. QED
    BY <1>5, <1>6, <1>7, <1>8

\* Whoever sends a transaction, if the pool takes it it balances.
LEMMA SpendStep ==
    ASSUME TxsOK, AccountInv,
           FiberFunds \/ Issue("issue") \/ Issue("issue_own") \/ Transfer
    PROVE  AccountInv' /\ live' = live
<1>0. AreCells(live) /\ Len(txs) \in Nat
    BY TxsFacts DEF AccountInv, CellsOK
<1>1. ASSUME UNCHANGED <<txs, live>>
      PROVE  AccountInv'
    BY <1>1 DEF AccountInv, CellsOK, SpentOnce, Made
<1>2. CASE FiberFunds
    <2>1. PICK c \in seen :
              /\ ~c.typed /\ Accepts({c})
              /\ txs' = Append(txs, Tx("fiber", {c},
                     IF c.cap > 1 THEN {Cell(Len(txs) + 1, c.cap - 1, FALSE)} ELSE {}))
        BY <1>2 DEF FiberFunds
    <2>2. PICK outs : outs = IF c.cap > 1 THEN {Cell(Len(txs) + 1, c.cap - 1, FALSE)} ELSE {}
        OBVIOUS
    <2>3. c \in live /\ c.cap \in Nat \ {0} /\ c.typed \in BOOLEAN
        BY <1>0, <2>1 DEF Accepts, AreCells
    <2>4. Total({c}) = c.cap
        BY <2>3, FewCells
    <2>5. AreCells(outs) /\ (\A d \in outs : d.of = Len(txs) + 1) /\ Total(outs) <= Total({c})
        <3>1. CASE c.cap > 1
            <4>1. PICK d : d = Cell(Len(txs) + 1, c.cap - 1, FALSE)
                OBVIOUS
            <4>2. d.of = Len(txs) + 1 /\ d.cap = c.cap - 1 /\ d.typed = FALSE
                BY <4>1 DEF Cell
            <4>3. d.cap \in Nat \ {0} /\ d.typed \in BOOLEAN /\ d.cap <= c.cap
                <5>1. PICK cap \in Nat \ {0} : cap = c.cap
                    BY <2>3
                <5>2. cap > 1 /\ d.cap = cap - 1
                    BY <3>1, <4>2, <5>1
                <5>3. d.cap \in Nat \ {0} /\ d.cap <= cap
                    BY <5>2
                <5>4. QED
                    BY <4>2, <5>1, <5>3
            <4>4. AreCells({d}) /\ Total({d}) = d.cap /\ outs = {d}
                BY <2>2, <3>1, <4>1, <4>3, FewCells
            <4>5. QED
                BY <2>4, <4>2, <4>3, <4>4
        <3>2. CASE ~(c.cap > 1)
            <4>1. outs = {}
                BY <2>2, <3>2
            <4>2. 0 <= c.cap
                BY <2>3
            <4>3. QED
                BY <2>4, <4>1, <4>2, FewCells
        <3>3. QED
            BY <3>1, <3>2
    <2>6. live' = live
        BY <1>2 DEF FiberFunds
    <2>7. AccountInv'
        <3>1. txs' = Append(txs, Tx("fiber", {c}, outs)) /\ \A d \in {c} : ~d.typed
            BY <2>1, <2>2
        <3>2. QED
            BY <2>1, <2>5, <2>6, <3>1, AddedAccount
    <2>8. QED
        BY <2>6, <2>7
<1>3. ASSUME NEW ins, NEW outs, NEW fits, Send(ins, outs, fits), \A c \in ins : ~c.typed,
             ins \subseteq live /\ fits =>
                 /\ AreCells(outs) /\ \A c \in outs : c.of = Len(txs) + 1
                 /\ Total(outs) <= Total(ins)
      PROVE  AccountInv' /\ live' = live
    <2>1. live' = live
        BY <1>3 DEF Send
    <2>2. CASE fits /\ Accepts(ins)
        <3>1. txs' = Append(txs, Tx("test", ins, outs)) /\ ins \subseteq live
            BY <1>3, <2>2 DEF Send, Accepts
        <3>2. QED
            BY <1>3, <2>1, <2>2, <3>1, AddedAccount
    <2>3. CASE ~(fits /\ Accepts(ins))
        <3>1. UNCHANGED txs
            BY <1>3, <2>3 DEF Send
        <3>2. QED
            BY <1>1, <2>1, <3>1
    <2>4. QED
        BY <2>2, <2>3
<1>4. ASSUME NEW job \in {"issue", "issue_own"}, Issue(job)
      PROVE  AccountInv' /\ live' = live
    <2>1. PICK ins \in SUBSET IssueCandidates :
              Send(ins, IssueOutputs(Len(txs) + 1, Total(ins), job = "issue_own"),
                   Total(ins) >= UdtSize)
        BY <1>4 DEF Issue
    <2>2. PICK outs, fits : /\ outs = IssueOutputs(Len(txs) + 1, Total(ins), job = "issue_own")
                            /\ fits = (Total(ins) >= UdtSize)
        OBVIOUS
    <2>3. ASSUME ins \subseteq live, fits
          PROVE  /\ AreCells(outs) /\ \A c \in outs : c.of = Len(txs) + 1
                 /\ Total(outs) <= Total(ins)
        <3>1. Total(ins) \in Nat
            BY <1>0, <2>3, SomeCells
        <3>2. QED
            BY <2>2, <2>3, <3>1, IssueBalances
    <2>4. Send(ins, outs, fits) /\ \A c \in ins : ~c.typed
        BY <2>1, <2>2 DEF IssueCandidates
    <2>5. QED
        BY <1>3, <2>3, <2>4
<1>5. CASE Transfer
    <2>1. PICK ins \in SUBSET {c \in seen : ~c.typed} :
              Send(ins, {Cell(Len(txs) + 1, Total(ins) - Gift, FALSE)}, Total(ins) > Gift)
        BY <1>5 DEF Transfer
    <2>2. PICK outs, fits : /\ outs = {Cell(Len(txs) + 1, Total(ins) - Gift, FALSE)}
                            /\ fits = (Total(ins) > Gift)
        OBVIOUS
    <2>3. ASSUME ins \subseteq live, fits
          PROVE  /\ AreCells(outs) /\ \A c \in outs : c.of = Len(txs) + 1
                 /\ Total(outs) <= Total(ins)
        <3>1. Total(ins) \in Nat
            BY <1>0, <2>3, SomeCells
        <3>2. PICK d : d = Cell(Len(txs) + 1, Total(ins) - Gift, FALSE)
            OBVIOUS
        <3>3. d.of = Len(txs) + 1 /\ d.cap = Total(ins) - Gift /\ d.typed = FALSE
            BY <3>2 DEF Cell
        <3>4. d.cap \in Nat \ {0} /\ d.cap <= Total(ins)
            <4>1. PICK total \in Nat : total = Total(ins)
                BY <3>1
            <4>2. total > 1 /\ d.cap = total - 1
                BY <2>2, <2>3, <3>3, <4>1 DEF Gift
            <4>3. QED
                BY <4>1, <4>2
        <3>5. AreCells({d}) /\ Total({d}) = d.cap
            BY <3>3, <3>4, FewCells
        <3>6. QED
            BY <2>2, <3>2, <3>3, <3>4, <3>5
    <2>4. Send(ins, outs, fits) /\ \A c \in ins : ~c.typed
        BY <2>1, <2>2
    <2>5. QED
        BY <1>3, <2>3, <2>4
<1>6. QED
    BY <1>2, <1>4, <1>5

\* The account's books are right at the start and after every step, and no step makes
\* its cells worth more.
LEMMA AccountSteps ==
    ASSUME ChainInv, AccountInv, [ChainNext]_chainVars
    PROVE  AccountInv' /\ (live' = live \/ Total(live') <= Total(live))
<1>0. TxsOK
    BY DEF ChainInv
<1>1. CASE UNCHANGED <<txs, live>>
    BY <1>1 DEF AccountInv, CellsOK, SpentOnce, Made
<1>2. CASE Block
    BY <1>0, <1>2, BlockAccount
<1>3. CASE ClearPool
    BY <1>0, <1>3, ClearAccount DEF ClearPool
<1>4. CASE FiberFunds \/ Issue("issue") \/ Issue("issue_own") \/ Transfer
    BY <1>0, <1>4, SpendStep
<1>5. QED
    BY <1>1, <1>2, <1>3, <1>4
    DEF ChainNext, chainVars, chainState, BackgroundBlock, SubmitBlock, IndexerCatchesUp,
        PoolCatchesUp, StartMiner, SubmitFails, Sync, SeeStatus, OutOfCoins, Faucet, BeginTest

\* The account balances throughout.
LEMMA AccountInvariant == ChainSpec => []AccountInv
<1>1. ChainInit => AccountInv
    <2> SUFFICES ASSUME ChainInit PROVE AccountInv
        OBVIOUS
    <2>1. DOMAIN txs = {} /\ live = Coins
        BY DEF ChainInit
    <2>2. \A c \in Coins : c.typed = FALSE
        BY ChainAssumption DEF Cell
    <2>3. AreCells(Coins) /\ \A c \in Coins : Made(c)
        BY <2>2, ChainAssumption DEF AreCells, Made
    <2>4. QED
        BY <2>1, <2>3 DEF AccountInv, CellsOK, SpentOnce
<1>2. ChainInv /\ AccountInv /\ [ChainNext]_chainVars => AccountInv'
    BY AccountSteps
<1>3. QED
    BY <1>1, <1>2, ChainInvariant, PTL DEF ChainSpec

\* No step, of a test, of fiber1 or of the miner, and no clearing of the pool makes the
\* account's cells worth more: what setup, issuing and faucet hand out is spent.
THEOREM NeverRicher == ChainSpec => [][Total(live') <= Total(live)]_live
<1>1. ASSUME ChainInv, AccountInv, [ChainNext]_chainVars
      PROVE  [Total(live') <= Total(live)]_live
    BY <1>1, AccountSteps
<1>2. QED
    BY <1>1, ChainInvariant, AccountInvariant, PTL DEF ChainSpec

\* So they are never worth more than the first ones, for every run of tests.
THEOREM NothingFromNowhere == ChainSpec => [](Total(live) <= Total(Coins))
<1> DEFINE Bounded == Total(live) <= Total(Coins) /\ Total(Coins) \in Nat
<1>1. AccountInv => Total(live) \in Nat
    BY SomeCells DEF AccountInv, CellsOK
<1>2. ChainInit => Bounded
    <2>1. IsFiniteSet(Coins) /\ \A c \in Coins : c.cap \in Nat
        BY ChainAssumption
    <2>2. Total(Coins) \in Nat
        BY <2>1, TotalType
    <2>3. QED
        BY <2>2 DEF ChainInit
<1>3. ASSUME Bounded, ChainInv, AccountInv, AccountInv', [ChainNext]_chainVars
      PROVE  Bounded'
    <2>1. Total(live) \in Nat /\ Total(live') \in Nat
        BY <1>3, SomeCells DEF AccountInv, CellsOK
    <2>2. live' = live \/ Total(live') <= Total(live)
        BY <1>3, AccountSteps
    <2>3. QED
        BY <1>3, <2>1, <2>2
<1>4. Bounded => Total(live) <= Total(Coins)
    OBVIOUS
<1> HIDE DEF Bounded
<1>5. QED
    BY <1>2, <1>3, <1>4, ChainInvariant, AccountInvariant, PTL DEF ChainSpec

\* issue_udt_tx and the wallet transfer of faucet pick coins that are live at the tip
\* and that no transaction of the test spends, unless a block of the background miner
\* came after the indexer; no transaction spends a UDT cell for its capacity, and no
\* two that count spend one cell, whatever is cleared or sent again.
THEOREM PickedCoinsAreFree == ChainSpec => []CoinsAreFree
<1>1. ChainInv /\ AccountInv => CoinsAreFree
    <2> SUFFICES ASSUME ChainInv, AccountInv PROVE CoinsAreFree
        OBVIOUS
    <2>1. ASSUME Picking, ~unseen
          PROVE  seen = live /\ IssueCandidates \cap Claimed({"test"}) = {}
        <3>1. PICK job \in Pickers : Doing(job)
            BY <2>1 DEF Picking, Pickers
        <3>2. NoneAwaited /\ idxFresh
            BY <2>1, <3>1, PickersAreIdle
        <3>3. seen = live
            BY <3>2 DEF ChainInv, IndexerOK
        <3>4. Claimed({"test"}) = {}
            BY <3>2 DEF Claimed, NoneAwaited, Sent
        <3>5. QED
            BY <3>3, <3>4
    <2>2. \A n \in DOMAIN txs : \A c \in txs[n].ins : ~c.typed
        BY DEF ChainInv, TxsOK
    <2>3. QED
        BY <2>1, <2>2 DEF CoinsAreFree, AccountInv
<1>2. QED
    BY <1>1, ChainInvariant, AccountInvariant, PTL

-----------------------------------------------------------------------------
(* The types of the chain. *)

\* The counters and flags, beside the transactions and the work, which ChainInv types.
CountersOK ==
    /\ Len(txs) <= MaxTxs
    /\ {idxFresh, poolFresh, minerOn, unseen} \subseteq BOOLEAN
    /\ tries \in 0 .. MineTries - 1 /\ rounds \in 0 .. MaxRounds
    /\ tests \in 0 .. MaxTests /\ faucets \in 0 .. MaxFaucets

\* The steps a test has to do are among those that are typed.
LEMMA StepsAreWorks == Steps \subseteq Works
<1>1. /\ SetupWork[1] = "clear" /\ SetupWork[2] = "mine" /\ SetupWork[7] = "issue_own"
      /\ SetupWork[8] = "until" /\ SetupWork[9] = "start_miner"
      /\ DOMAIN SetupWork = 1 .. 9
    BY SetupIs
<1>2. {"clear", "mine", "issue_own", "until", "start_miner"} \subseteq Range(SetupWork)
    BY <1>1 DEF Range
<1>3. {"transfer", "until_known", "issue"} \subseteq Range(FaucetWork)
    BY DEF FaucetWork, Range
<1>4. QED
    BY <1>2, <1>3 DEF Steps, Works

\* What keeps the transactions keeps their number.
LEMMA KeptLength ==
    ASSUME TxsOK, TxsKept
    PROVE  Len(txs') = Len(txs)
<1>1. /\ Len(txs) \in Nat /\ DOMAIN txs = 1 .. Len(txs)
      /\ Len(txs') \in Nat /\ DOMAIN txs' = 1 .. Len(txs')
    BY TxsFacts, LenProperties DEF TxsKept, TxsOK
<1>2. PICK a, b \in Nat : a = Len(txs) /\ b = Len(txs')
    BY <1>1
<1>3. \A i \in Int : i \in 1 .. a <=> i \in 1 .. b
    BY <1>1, <1>2 DEF TxsKept
<1>4. a <= b
    <2>1. CASE a = 0
        BY <2>1
    <2>2. CASE a \in 1 .. a
        BY <1>3, <2>2
    <2>3. QED
        BY <2>1, <2>2
<1>5. b <= a
    <2>1. CASE b = 0
        BY <2>1
    <2>2. CASE b \in 1 .. b
        BY <1>3, <2>2
    <2>3. QED
        BY <2>1, <2>2
<1>6. QED
    BY <1>2, <1>4, <1>5

\* Sending is limited, and a block or a clearing forgets no transaction.
LEMMA LengthStep ==
    ASSUME ChainInv, CountersOK, [ChainNext]_chainVars
    PROVE  Len(txs') <= MaxTxs
<1>0. TxsOK /\ Len(txs) \in Nat /\ MaxTxs \in Nat
    BY ChainAssumption, TxsFacts DEF ChainInv
<1>1. CASE UNCHANGED txs
    BY <1>1 DEF CountersOK
<1>2. CASE Block
    BY <1>0, <1>2, BlockKeepsTxs, KeptLength DEF CountersOK
<1>3. CASE ClearPool
    BY <1>0, <1>3, ClearKeepsTxs, KeptLength DEF CountersOK
<1>4. ASSUME NEW t, txs' = Append(txs, t), Len(txs) < MaxTxs
      PROVE  Len(txs') <= MaxTxs
    <2>1. PICK S : txs \in Seq(S)
        BY <1>0 DEF TxsOK
    <2>2. Len(txs') = Len(txs) + 1
        BY <1>4, <2>1
    <2>3. QED
        BY <1>0, <1>4, <2>2
<1>5. CASE FiberFunds
    BY <1>4, <1>5 DEF FiberFunds
<1>6. ASSUME Len(txs) < MaxTxs, NEW ins, NEW outs, NEW fits, Send(ins, outs, fits)
      PROVE  Len(txs') <= MaxTxs
    BY <1>1, <1>4, <1>6 DEF Send
<1>7. CASE Issue("issue") \/ Issue("issue_own") \/ Transfer
    BY <1>6, <1>7 DEF Issue, Transfer
<1>8. QED
    BY <1>1, <1>2, <1>3, <1>5, <1>7
    DEF ChainNext, chainVars, chainState, BackgroundBlock, SubmitBlock, IndexerCatchesUp,
        PoolCatchesUp, StartMiner, SubmitFails, Sync, SeeStatus, OutOfCoins, Faucet, BeginTest

\* Every step keeps the flags Boolean.
LEMMA FlagsStep ==
    ASSUME idxFresh \in BOOLEAN, poolFresh \in BOOLEAN, minerOn \in BOOLEAN, unseen \in BOOLEAN,
           [ChainNext]_chainVars
    PROVE  idxFresh' \in BOOLEAN /\ poolFresh' \in BOOLEAN /\ minerOn' \in BOOLEAN /\ unseen' \in BOOLEAN
BY Zenon
DEF ChainNext, chainVars, chainState, BackgroundBlock, SubmitBlock, IndexerCatchesUp, Block,
    PoolCatchesUp, StartMiner, SubmitFails, Sync, SeeStatus, OutOfCoins, Faucet, BeginTest,
    FiberFunds, ClearPool, Issue, Transfer, Send

\* Every step keeps the loop counters within their tries.
LEMMA LoopsStep ==
    ASSUME tries \in 0 .. MineTries - 1, rounds \in 0 .. MaxRounds,
           tests \in 0 .. MaxTests, faucets \in 0 .. MaxFaucets,
           [ChainNext]_chainVars
    PROVE  /\ tries' \in 0 .. MineTries - 1 /\ rounds' \in 0 .. MaxRounds
           /\ tests' \in 0 .. MaxTests /\ faucets' \in 0 .. MaxFaucets
<1>0. /\ MaxTests \in Nat /\ MaxFaucets \in Nat /\ MaxRounds \in Nat /\ MineTries \in Nat \ {0}
    BY ChainAssumption
<1>1. CASE UNCHANGED <<tries, rounds, tests, faucets>>
    BY <1>1
<1>2. CASE SubmitBlock
    BY <1>0, <1>2 DEF SubmitBlock
<1>3. CASE SubmitFails
    BY <1>0, <1>3 DEF SubmitFails
<1>4. CASE SeeStatus("until") \/ SeeStatus("until_known")
    BY <1>0, <1>4 DEF SeeStatus
<1>5. CASE Faucet
    BY <1>0, <1>5 DEF Faucet
<1>6. CASE BeginTest
    BY <1>0, <1>6 DEF BeginTest
<1>7. QED
    BY <1>1, <1>2, <1>3, <1>4, <1>5, <1>6
    DEF ChainNext, chainVars, testState, BackgroundBlock, IndexerCatchesUp, PoolCatchesUp,
        StartMiner, Sync, OutOfCoins, FiberFunds, ClearPool, Issue, Transfer, Send

\* The counters and flags are of their types throughout.
LEMMA CountersInvariant == ChainSpec => []CountersOK
<1>1. ChainInit => CountersOK
    <2> SUFFICES ASSUME ChainInit PROVE CountersOK
        OBVIOUS
    <2>1. {idxFresh, poolFresh, minerOn, unseen} \subseteq BOOLEAN
        BY Zenon DEF ChainInit
    <2>2. Len(txs) = 0
        BY DEF ChainInit
    <2>3. QED
        BY <2>1, <2>2, ChainAssumption DEF ChainInit, CountersOK
<1>2. ChainInv /\ CountersOK /\ [ChainNext]_chainVars => CountersOK'
    <2> SUFFICES ASSUME ChainInv, CountersOK, [ChainNext]_chainVars PROVE CountersOK'
        OBVIOUS
    <2>1. idxFresh \in BOOLEAN /\ poolFresh \in BOOLEAN /\ minerOn \in BOOLEAN /\ unseen \in BOOLEAN
        BY Zenon DEF CountersOK
    <2>2. /\ idxFresh' \in BOOLEAN /\ poolFresh' \in BOOLEAN /\ minerOn' \in BOOLEAN
          /\ unseen' \in BOOLEAN
        BY <2>1, FlagsStep
    <2>3. {idxFresh', poolFresh', minerOn', unseen'} \subseteq BOOLEAN
        BY <2>2, Zenon
    <2>4. /\ tries' \in 0 .. MineTries - 1 /\ rounds' \in 0 .. MaxRounds
          /\ tests' \in 0 .. MaxTests /\ faucets' \in 0 .. MaxFaucets
        BY LoopsStep DEF CountersOK
    <2>5. Len(txs') <= MaxTxs
        BY LengthStep
    <2>6. QED
        BY <2>3, <2>4, <2>5 DEF CountersOK
<1>3. QED
    BY <1>1, <1>2, ChainInvariant, PTL DEF ChainSpec

\* Type correctness of the chain: however often coins are split, issued and transferred
\* no cell is worth nothing or less, and the loops of the miner stay in their bounds.
THEOREM ChainTypeCorrect == ChainSpec => []ChainTypeOK
<1>1. ChainInv /\ AccountInv /\ CountersOK => ChainTypeOK
    <2> SUFFICES ASSUME ChainInv, AccountInv, CountersOK PROVE ChainTypeOK
        OBVIOUS
    <2>1. ASSUME NEW n \in DOMAIN txs
          PROVE  /\ txs[n].status \in Statuses /\ txs[n].by \in {"test", "fiber"}
                 /\ \A c \in txs[n].ins \cup txs[n].outs : c.cap \in Nat \ {0} /\ c.typed \in BOOLEAN
        BY DEF ChainInv, TxsOK, IsTx, AccountInv, CellsOK, AreCells
    <2>2. Range(work) \subseteq Works
        <3>1. \A i \in DOMAIN work : work[i] \in Steps
            BY DEF ChainInv, WorkOK
        <3>2. QED
            BY <3>1, StepsAreWorks DEF Range
    <2>3. QED
        BY <2>1, <2>2 DEF ChainTypeOK, CountersOK
<1>2. QED
    BY <1>1, ChainInvariant, AccountInvariant, CountersInvariant, PTL


-----------------------------------------------------------------------------
(* The parts together. *)

\* A behaviour of a test body is one of each of its parts: what is proved of a part
\* holds of the body.
THEOREM BodiesRunTheParts == Spec => ChainSpec /\ P2pSpec /\ OpeningSpec
<1>1. Init => ChainInit /\ P2pInit /\ OpeningInit
    BY DEF Init
<1>2. [Next]_vars => [ChainNext]_chainVars /\ [P2pNext]_p2pVars /\ [OpeningNext]_openVars
    BY DEF Next, ChainStep, P2pStep, OpeningStep, vars
<1>3. QED
    BY <1>1, <1>2, PTL DEF Spec, ChainSpec, P2pSpec, OpeningSpec

\* Type correctness of a test body: of the chain, of its payments and of the channels
\* it opens, together.
THEOREM BodyTypeCorrect == Spec => []BodyInv
BY BodiesRunTheParts, ChainTypeCorrect, PaymentsTypeCorrect, OpeningTypeCorrect, PTL DEF BodyInv
=============================================================================
