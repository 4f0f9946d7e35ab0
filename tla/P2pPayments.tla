---------------------------- MODULE P2pPayments ----------------------------
(***************************************************************************)
(* A test of a P2P fault-injection class: the victim pays the attacker     *)
(* over their channel with send_payment and send_invoice_payment, each RPC *)
(* of which FiberRPCClient.call may repeat, while the test captures, drops,*)
(* holds, delivers, releases and injects channel messages at the attacker  *)
(* through a P2pPeer.  The two nodes are modelled from how they are used.  *)
(***************************************************************************)
EXTENDS Integers, Sequences, FiniteSets

CONSTANTS
    MaxPays,  \* bound: payments the victim executes
    MaxSends, \* bound: payments the test asks for
    TryCount, \* send_payment's try_count (5)
    RpcTries  \* FiberRPCClient.try_count

ASSUME PaymentsAssumption == {MaxPays, MaxSends, TryCount, RpcTries} \subseteq Nat \ {0}

VARIABLES
    pays,     \* the payments the victim has executed: for which send, status
    rule,     \* the intercept set at the attacker
    wire,     \* messages on their way to either node
    captured, held, \* the attacker's queues of inbound and outbound messages; like
                    \* the two lists, kept as sets: no step depends on their order
    actor,    \* messages the attacker's channel actor has to process
    inbox,    \* P2pPeer._inbox
    leftover, \* the list wait_held keeps
    gone,     \* history: messages dropped by the rule or taken by the test
    op,       \* what the test is doing
    attempt, rpcTry, \* loop counters of send_payment and call
    sends,    \* the sends so far: keysend or invoice, waited for, how it ended
    unknown   \* history: sends with an attempt whose outcome the test never saw

nodeVars == <<pays, wire, actor>>
queueVars == <<rule, captured, held, inbox, leftover, gone>>
sendVars == <<attempt, rpcTry, sends, unknown>>
p2pVars == <<nodeVars, queueVars, sendVars, op>>

In == {"AddTlc"}
Out == {"RemoveTlc", "CommitmentSigned"}
Kinds == In \cup Out
AnyKind == "any"

Msg(kind, p, ok) == [kind |-> kind, pay |-> p, ok |-> ok]

\* What gone remembers of messages: those a payment hangs on.
Trace(msgs) == {<<m.kind, m.pay>> : m \in {n \in msgs : n.kind # "CommitmentSigned"}}

Matching(msgs, kind) == {m \in msgs : kind \in {m.kind, AnyKind}}
Others(msgs, kind) == msgs \ Matching(msgs, kind)

NoRule == [capture |-> {}, dropIn |-> {}, hold |-> {}, dropOut |-> {}]
Rules == {[NoRule EXCEPT !.capture = In], [NoRule EXCEPT !.dropIn = In],
          [NoRule EXCEPT !.hold = Out], [NoRule EXCEPT !.dropOut = {"RemoveTlc"}]}

Op(name) == [name |-> name, kind |-> AnyKind]
Idle == Op("idle")
Over == Op("over")
Busy(name) == op.name = name
Current == Len(sends)

-----------------------------------------------------------------------------
(* The nodes. *)

\* An inbound message reaches the attacker, whose rule applies to it.
ArriveIn(p) ==
    \E m \in wire :
        /\ m.kind = "AddTlc" /\ m.pay = p
        /\ wire' = wire \ {m}
        /\ \/ /\ m.kind \in rule.dropIn
              /\ gone' = gone \cup Trace({m})
              /\ UNCHANGED <<captured, actor>>
           \/ /\ m.kind \in rule.capture \ rule.dropIn
              /\ captured' = captured \cup {m}
              /\ UNCHANGED <<actor, gone>>
           \/ /\ m.kind \notin rule.capture \cup rule.dropIn
              /\ actor' = actor \cup {m}
              /\ UNCHANGED <<captured, gone>>
        /\ UNCHANGED <<pays, rule, held, inbox, leftover, sendVars, op>>

\* The victim hears of its TLC; only the first answer counts.
ArriveOut(p) ==
    \E m \in wire :
        /\ m.kind = "RemoveTlc" /\ m.pay = p
        /\ wire' = wire \ {m}
        /\ pays' = [pays EXCEPT ![p].status =
                       IF @ = "Inflight" THEN (IF m.ok THEN "Success" ELSE "Failed") ELSE @]
        /\ UNCHANGED <<actor, queueVars, sendVars, op>>

\* The actor settles or fails the TLC and signs; the rule applies to both messages.
\* Only the first matters to the payment: of the other one, only a held one is kept.
Process(p) ==
    \E m \in {n \in actor : n.pay = p}, ok \in BOOLEAN :
        LET out == {Msg("RemoveTlc", m.pay, ok), Msg("CommitmentSigned", m.pay, TRUE)}
            dropped == {n \in out : n.kind \in rule.dropOut}
            toHold == {n \in out : n.kind \in rule.hold}
        IN  /\ actor' = actor \ {m}
            /\ gone' = gone \cup Trace(dropped)
            /\ held' = held \cup toHold
            /\ wire' = wire \cup {n \in out \ (dropped \cup toHold) : n.kind = "RemoveTlc"}
            /\ UNCHANGED <<pays, rule, captured, inbox, leftover, sendVars, op>>

\* The victim finds no route, or gives the payment up before it sends the TLC.
FailsAlone ==
    \E m \in wire :
        /\ m.kind = "AddTlc"
        /\ wire' = wire \ {m}
        /\ pays' = [pays EXCEPT ![m.pay].status = "Failed"]
        /\ UNCHANGED <<actor, queueVars, sendVars, op>>

-----------------------------------------------------------------------------
(* send_payment and send_invoice_payment. *)

StartSend ==
    /\ op = Idle /\ Current < MaxSends
    /\ \E invoice, wait \in BOOLEAN :
          sends' = Append(sends, [invoice |-> invoice, wait |-> wait, end |-> "none"])
    /\ op' = Op("send") /\ attempt' = 1 /\ rpcTry' = 1
    /\ UNCHANGED <<nodeVars, queueVars, unknown>>

LastAttempt == attempt > TryCount
Ends(how) == sends' = [sends EXCEPT ![Current].end = how] /\ op' = Idle

\* An exception inside the loop starts the next attempt, one of the last attempt
\* leaves the function, and so the test.
Raises ==
    IF LastAttempt
    THEN /\ sends' = [sends EXCEPT ![Current].end = "raised"]
         /\ op' = Over
         /\ UNCHANGED <<attempt, rpcTry>>
    ELSE /\ op' = Op("send") /\ attempt' = attempt + 1 /\ rpcTry' = 1
         /\ UNCHANGED sends

OfCurrent == {p \in DOMAIN pays : pays[p].send = Current}

\* The victim executes a call: a keysend is a payment of its own each time, an
\* invoice is paid again only after it has failed.
Accepted ==
    /\ Len(pays) < MaxPays
    /\ sends[Current].invoice => \A p \in OfCurrent : pays[p].status = "Failed"

Execute ==
    /\ Accepted
    /\ pays' = Append(pays, [send |-> Current, status |-> "Inflight"])
    /\ wire' = wire \cup {Msg("AddTlc", Len(pays) + 1, TRUE)}
    /\ UNCHANGED actor

\* The call executes and its answer arrives.
SendAnswered ==
    /\ Busy("send") /\ Execute
    /\ IF sends[Current].wait
       THEN op' = Op("await") /\ UNCHANGED sends
       ELSE Ends("returned")
    /\ UNCHANGED <<queueVars, attempt, rpcTry, unknown>>

\* Mutated form: the wait ends at any status it reads.
AwaitAnyStatus ==
    /\ Busy("await")
    /\ Ends("returned")
    /\ UNCHANGED <<nodeVars, queueVars, attempt, rpcTry, unknown>>

\* It is answered with an error, retryable or not; nothing was executed.
SendRefused ==
    /\ Busy("send")
    /\ \/ rpcTry < RpcTries /\ rpcTry' = rpcTry + 1 /\ UNCHANGED <<attempt, sends, op>>
       \/ Raises
    /\ UNCHANGED <<nodeVars, queueVars, unknown>>

\* The connection breaks, before or after the victim executed the call: call
\* sends it again, up to its limit.
SendBroken ==
    /\ Busy("send")
    /\ Execute \/ UNCHANGED nodeVars
    /\ unknown' = unknown \cup {Current}
    /\ IF rpcTry < RpcTries
       THEN rpcTry' = rpcTry + 1 /\ UNCHANGED <<attempt, sends, op>>
       ELSE Raises
    /\ UNCHANGED queueVars

\* No answer in time: call raises at once, but the loop above it goes on.
SendTimesOut ==
    /\ Busy("send")
    /\ Execute \/ UNCHANGED nodeVars
    /\ unknown' = unknown \cup {Current}
    /\ Raises
    /\ UNCHANGED queueVars

\* wait_payment_state, and wait_payment_finished of a keysend's last attempt, on
\* the payment whose hash was returned.
AwaitedPay == Len(pays)

AwaitFinished ==
    /\ Busy("await")
    /\ \/ pays[AwaitedPay].status = "Success" /\ Ends("returned") /\ UNCHANGED <<attempt, rpcTry>>
       \/ pays[AwaitedPay].status = "Failed" /\ Raises
    /\ UNCHANGED <<nodeVars, queueVars, unknown>>

\* A poll fails, or there have been too many.
AwaitGivesUp ==
    /\ Busy("await")
    /\ unknown' = unknown \cup {Current}
    /\ Raises
    /\ UNCHANGED <<nodeVars, queueVars>>

-----------------------------------------------------------------------------
(* P2pPeer. *)

Intercept ==
    /\ op = Idle /\ rule = NoRule
    /\ rule' \in Rules
    /\ UNCHANGED <<nodeVars, captured, held, inbox, leftover, gone, sendVars, op>>

\* Clearing the rule leaves the queues as they are.
ClearIntercept ==
    /\ op = Idle /\ rule # NoRule
    /\ rule' = NoRule
    /\ UNCHANGED <<nodeVars, captured, held, inbox, leftover, gone, sendVars, op>>

BeginWait ==
    /\ op = Idle
    /\ op' \in [name : {"wait"}, kind : Kinds]
             \cup [name : {"wait_deliver"}, kind : In \cup {AnyKind}]
             \cup [name : {"wait_held", "wait_release"}, kind : Out \cup {AnyKind}]
    /\ leftover' = {}
    /\ UNCHANGED <<nodeVars, rule, captured, held, inbox, gone, sendVars>>

\* take: the queue is drained into the inbox, the matching ones go to the test.
TakeMatching(kind) ==
    LET all == inbox \cup captured IN
    /\ captured' = {}
    /\ inbox' = Others(all, kind)
    /\ gone' = gone \cup Trace(Matching(all, kind))
    /\ UNCHANGED <<nodeVars, rule, held, leftover, sendVars>>

Take ==
    /\ op = Idle
    /\ \E kind \in Kinds \cup {AnyKind} : TakeMatching(kind)
    /\ UNCHANGED op

\* wait returns the first match; if there were more, the test has lost them.
WaitPoll ==
    /\ Busy("wait")
    /\ TakeMatching(op.kind)
    /\ op' = IF Matching(inbox \cup captured, op.kind) = {} THEN op ELSE Idle

\* deliver hands the matching messages to the actor, wait_deliver repeats it
\* until there was one.
DeliverMatching(kind) ==
    /\ captured' = Others(captured, kind)
    /\ actor' = actor \cup Matching(captured, kind)
    /\ UNCHANGED <<pays, wire, rule, held, inbox, leftover, gone, sendVars>>

Deliver ==
    /\ op = Idle
    /\ \E kind \in In \cup {AnyKind} : DeliverMatching(kind)
    /\ UNCHANGED op

DeliverPoll ==
    /\ Busy("wait_deliver")
    /\ DeliverMatching(op.kind)
    /\ op' = IF Matching(captured, op.kind) = {} THEN op ELSE Idle

TakeHeld ==
    /\ op = Idle
    /\ held' = {}
    /\ gone' = gone \cup Trace(held)
    /\ UNCHANGED <<nodeVars, rule, captured, inbox, leftover, sendVars, op>>

\* wait_held drains the whole queue on every poll; when it returns, what did not
\* match is forgotten with its local list.
HeldPoll ==
    /\ Busy("wait_held")
    /\ held' = {}
    /\ LET all == leftover \cup held IN
       IF Matching(all, op.kind) = {}
       THEN leftover' = all /\ UNCHANGED <<gone, op>>
       ELSE leftover' = {} /\ gone' = gone \cup Trace(all) /\ op' = Idle
    /\ UNCHANGED <<nodeVars, rule, captured, inbox, sendVars>>

\* Mutated form: what does not match is lost.
ReleaseAndDropOthers(kind) ==
    /\ held' = {}
    /\ wire' = wire \cup {m \in Matching(held, kind) : m.kind = "RemoveTlc"}
    /\ UNCHANGED <<pays, actor, rule, captured, inbox, leftover, gone, sendVars>>

ReleaseMatching(kind) ==
    /\ held' = Others(held, kind)
    /\ wire' = wire \cup {m \in Matching(held, kind) : m.kind = "RemoveTlc"}
    /\ UNCHANGED <<pays, actor, rule, captured, inbox, leftover, gone, sendVars>>

Release ==
    /\ op = Idle
    /\ \E kind \in Out \cup {AnyKind} : ReleaseMatching(kind)
    /\ UNCHANGED op

ReleasePoll ==
    /\ Busy("wait_release")
    /\ ReleaseMatching(op.kind)
    /\ op' = IF Matching(held, op.kind) = {} THEN op ELSE Idle

WaitTimesOut ==
    /\ op.name \in {"wait", "wait_deliver", "wait_held", "wait_release"}
    /\ op' = Over
    /\ leftover' = {}
    /\ gone' = gone \cup Trace(leftover)
    /\ UNCHANGED <<nodeVars, rule, captured, held, inbox, sendVars>>

\* send_remove_tlc goes past the intercept, for a TLC the attacker has seen.
SendRaw ==
    /\ op = Idle
    /\ \E p \in DOMAIN pays :
          /\ <<"AddTlc", p>> \in gone \cup Trace(captured \cup inbox)
          /\ wire' = wire \cup {Msg("RemoveTlc", p, FALSE)}
    /\ UNCHANGED <<pays, actor, queueVars, sendVars, op>>

-----------------------------------------------------------------------------

P2pInit ==
    /\ pays = <<>> /\ wire = {} /\ actor = {}
    /\ rule = NoRule /\ captured = {} /\ held = {}
    /\ inbox = {} /\ leftover = {} /\ gone = {}
    /\ op = Idle /\ attempt = 1 /\ rpcTry = 1 /\ sends = <<>> /\ unknown = {}

P2pNext ==
    \/ \E p \in 1 .. MaxPays : ArriveIn(p) \/ ArriveOut(p) \/ Process(p)
    \/ FailsAlone
    \/ StartSend \/ SendAnswered \/ SendRefused \/ SendBroken \/ SendTimesOut
    \/ AwaitFinished \/ AwaitGivesUp
    \/ Intercept \/ ClearIntercept \/ BeginWait \/ WaitTimesOut \/ SendRaw
    \/ Take \/ WaitPoll \/ Deliver \/ DeliverPoll
    \/ TakeHeld \/ HeldPoll \/ Release \/ ReleasePoll

P2pSpec == P2pInit /\ [][P2pNext]_p2pVars

-----------------------------------------------------------------------------
(* Properties. *)

Msgs == [kind : Kinds, pay : 1 .. MaxPays, ok : BOOLEAN]

P2pTypeOK ==
    /\ Len(pays) <= MaxPays /\ Len(sends) <= MaxSends
    /\ \A p \in DOMAIN pays : pays[p].status \in {"Inflight", "Success", "Failed"}
    /\ rule \in Rules \cup {NoRule}
    /\ UNION {wire, actor, captured, held, inbox, leftover} \subseteq Msgs
    /\ gone \subseteq {"AddTlc", "RemoveTlc"} \X Nat
    /\ attempt \in 1 .. TryCount + 1 /\ rpcTry \in 1 .. RpcTries
    /\ unknown \subseteq 1 .. MaxSends

Succeeded(n) == {p \in DOMAIN pays : pays[p].send = n /\ pays[p].status = "Success"}

\* What a send reports is what happened: unless the outcome of one of its attempts
\* was never seen (a broken connection, a timeout, a wait given up), it pays at
\* most once, a waited-for return means it has paid and an exception that it has
\* not.
SendsReportTheOutcome ==
    \A n \in DOMAIN sends \ unknown :
        /\ Cardinality(Succeeded(n)) <= 1
        /\ sends[n].end = "returned" /\ sends[n].wait => Succeeded(n) # {}
        /\ sends[n].end = "raised" => Succeeded(n) = {}

Withheld(p) ==
    \E kind \in {"AddTlc", "RemoveTlc"} :
        <<kind, p>> \in gone \cup Trace(UNION {captured, held, inbox, leftover})

\* No payment is left hanging behind the test's back: in the end each is final,
\* or a message of it was dropped by the rule, is queued, or went to the test.
PaymentsSettle ==
    <>[](\A p \in DOMAIN pays : pays[p].status # "Inflight" \/ Withheld(p))
=============================================================================
