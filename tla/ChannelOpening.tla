--------------------------- MODULE ChannelOpening ---------------------------
(***************************************************************************)
(* How tests open channels between two nodes: FiberTest.open_channel, which*)
(* remembers the channels there were and waits for another one, and the    *)
(* P2P steps propose_channel, accept_proposed and wait_ready, which take   *)
(* the first channel listed.  open_channel is not idempotent, and          *)
(* FiberRPCClient.call repeats it when the connection breaks.              *)
(***************************************************************************)
EXTENDS Integers, Sequences, FiniteSets

CONSTANTS
    MaxChannels, \* bound: channels the node creates
    OpenTries    \* FiberRPCClient.try_count

ASSUME OpeningAssumption == {MaxChannels, OpenTries} \subseteq Nat \ {0}

VARIABLES
    chans,    \* the channels of the pair, in the order of their creation
    step,     \* what the test is doing
    auto,     \* is the funding enough for the peer to accept by itself?
    existing, \* existing_channel_ids
    temp,     \* the channel whose temporary id was returned, or 0
    opened,   \* the channel open_channel found, or 0
    first,    \* channels["channels"][0], read before the fee is set, or 0
    feeSetOn, \* the channel whose fee was set, or 0
    openTry,  \* loop counter of call
    via,      \* which of the two ways this opening takes
    older,    \* history: did the nodes have a channel when it began?
    lost      \* history: did an answer to open_channel get lost?

openVars == <<chans, step, auto, existing, temp, opened, first, feeSetOn, openTry, via, older, lost>>

ChannelStates == {"Negotiating", "Accepted", "Ready", "Closed"}
Listed == {c \in DOMAIN chans : chans[c] # "Closed"}

-----------------------------------------------------------------------------
(* The nodes. *)

Create ==
    /\ Len(chans) < MaxChannels
    /\ chans' = Append(chans, IF auto THEN "Accepted" ELSE "Negotiating")

ChannelMoves ==
    /\ \E c \in DOMAIN chans, next \in ChannelStates :
          /\ <<chans[c], next>> \in {<<"Accepted", "Ready">>, <<"Negotiating", "Closed">>,
                                     <<"Accepted", "Closed">>, <<"Ready", "Closed">>}
          /\ chans' = [chans EXCEPT ![c] = next]
    /\ UNCHANGED <<step, auto, existing, temp, opened, first, feeSetOn, openTry, via, older, lost>>

-----------------------------------------------------------------------------
(* The test. *)

Begin(how) ==
    /\ step = "idle"
    /\ via' = how /\ step' = how
    /\ auto' \in BOOLEAN
    /\ older' = (Listed # {})
    /\ temp' = 0 /\ opened' = 0 /\ first' = 0 /\ feeSetOn' = 0 /\ openTry' = 1
    /\ lost' = FALSE
    /\ UNCHANGED chans

\* connect_peer, the list of the channels there are, and what the peer accepts.
BeginOpen == Begin("open") /\ existing' = Listed

Propose == Begin("propose") /\ UNCHANGED existing

Opening == step = via

OpenAnswered ==
    /\ Opening /\ Create
    /\ temp' = Len(chans) + 1
    /\ step' = CASE via = "propose" -> "proposed"
                 [] via = "open" /\ auto -> "wait_new"
                 [] via = "open" /\ ~auto -> "accept"
    /\ UNCHANGED <<auto, existing, opened, first, feeSetOn, openTry, via, older, lost>>

NextTry ==
    IF openTry < OpenTries
    THEN openTry' = openTry + 1 /\ UNCHANGED step
    ELSE step' = "raised" /\ UNCHANGED openTry

OpenRefused ==
    /\ Opening
    /\ NextTry \/ (step' = "raised" /\ UNCHANGED openTry)
    /\ UNCHANGED <<chans, auto, existing, temp, opened, first, feeSetOn, via, older, lost>>

\* The connection breaks, the call executed or not.
OpenBroken ==
    /\ Opening
    /\ Create \/ UNCHANGED chans
    /\ lost' = TRUE
    /\ NextTry
    /\ UNCHANGED <<auto, existing, temp, opened, first, feeSetOn, via, older>>

\* accept_channel names the temporary id of the channel just opened.
AcceptTemp(from, next) ==
    /\ step = from
    /\ IF chans[temp] \in {"Negotiating", "Accepted"}
       THEN chans' = [chans EXCEPT ![temp] = "Accepted"] /\ step' = next
       ELSE step' = "raised" /\ UNCHANGED chans
    /\ UNCHANGED <<auto, existing, temp, opened, first, feeSetOn, openTry, via, older, lost>>

Accept == AcceptTemp("accept", "wait_new")
AcceptProposed == AcceptTemp("proposed", "wait_ready")

\* Mutated form: the channels there were are not left out.
AnyReady == {c \in Listed : chans[c] = "Ready"}

\* wait_for_new_channel_state: any channel that was not there before, once ready.
NewReady == {c \in Listed \ existing : chans[c] = "Ready"}

WaitNew ==
    /\ step = "wait_new"
    /\ opened' \in NewReady
    /\ step' \in IF auto THEN {"idle", "list"} ELSE {"idle"}
    /\ UNCHANGED <<chans, auto, existing, temp, first, feeSetOn, openTry, via, older, lost>>

\* wait_for_channel_state without an id looks at the first channel listed.
FirstReady == {c \in Listed : chans[c] = "Ready"}

WaitReady ==
    /\ step = "wait_ready"
    /\ opened' \in FirstReady
    /\ step' = "idle"
    /\ UNCHANGED <<chans, auto, existing, temp, first, feeSetOn, openTry, via, older, lost>>

ReadyTimesOut ==
    /\ step \in {"wait_new", "wait_ready"}
    /\ step' = "raised"
    /\ UNCHANGED <<chans, auto, existing, temp, opened, first, feeSetOn, openTry, via, older, lost>>

\* The channels are listed again and a payment is sent, which may raise; then the
\* fee is set on the first of them, if there is one.
ListAgain ==
    /\ step = "list"
    /\ \/ first' \in Listed /\ step' = "fee"
       \/ step' = "raised" /\ UNCHANGED first
    /\ UNCHANGED <<chans, auto, existing, temp, opened, feeSetOn, openTry, via, older, lost>>

SetFee ==
    /\ step = "fee"
    /\ IF chans[first] = "Ready"
       THEN feeSetOn' = first /\ step' = "idle"
       ELSE step' = "raised" /\ UNCHANGED feeSetOn
    /\ UNCHANGED <<chans, auto, existing, temp, opened, first, openTry, via, older, lost>>

-----------------------------------------------------------------------------

OpeningInit ==
    /\ chans = <<>> /\ step = "idle" /\ auto = FALSE /\ existing = {}
    /\ temp = 0 /\ opened = 0 /\ first = 0 /\ feeSetOn = 0 /\ openTry = 1 /\ lost = FALSE
    /\ via = "open" /\ older = FALSE

OpeningNext ==
    \/ ChannelMoves \/ BeginOpen \/ Propose \/ OpenAnswered \/ OpenRefused \/ OpenBroken
    \/ Accept \/ AcceptProposed
    \/ WaitNew \/ WaitReady \/ ReadyTimesOut \/ ListAgain \/ SetFee

OpeningSpec == OpeningInit /\ [][OpeningNext]_openVars

-----------------------------------------------------------------------------
(* Properties. *)

OpeningTypeOK ==
    /\ Len(chans) <= MaxChannels
    /\ \A c \in DOMAIN chans : chans[c] \in ChannelStates
    /\ step \in {"idle", "open", "propose", "accept", "proposed", "wait_new",
                 "wait_ready", "list", "fee", "raised"}
    /\ {auto, older, lost} \subseteq BOOLEAN
    /\ existing \subseteq DOMAIN chans
    /\ {temp, opened, first, feeSetOn} \subseteq {0} \cup DOMAIN chans
    /\ openTry \in 1 .. OpenTries

\* open_channel returns the channel it has opened, not one that was there, as long
\* as no answer was lost; and between nodes without an older channel every id a
\* test gets, and every fee it sets, is that of the channel it asked for.
OpensItsChannel ==
    ~lost => /\ via = "open" => opened \in {0, temp}
             /\ ~older => {opened, feeSetOn} \subseteq {0, temp}
=============================================================================
