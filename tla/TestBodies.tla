----------------------------- MODULE TestBodies -----------------------------
(***************************************************************************)
(* What the body of a devnet test does with its nodes: it works with the   *)
(* chain, opens channels, or pays through a P2pPeer.  The three parts share*)
(* no state of the test, so a behaviour is about one of them.              *)
(***************************************************************************)
EXTENDS DevnetChain, P2pPayments, ChannelOpening

VARIABLE part \* the part this behaviour is about

vars == <<part, chainVars, p2pVars, openVars>>

MCCoins == {Cell(0, 14, FALSE), Cell(-1, 2, FALSE)}

Init ==
    /\ part \in {"chain", "payments", "opening"}
    /\ ChainInit /\ P2pInit /\ OpeningInit

ChainStep == part = "chain" /\ ChainNext /\ UNCHANGED <<part, p2pVars, openVars>>
P2pStep == part = "payments" /\ P2pNext /\ UNCHANGED <<part, chainVars, openVars>>
OpeningStep == part = "opening" /\ OpeningNext /\ UNCHANGED <<part, chainVars, p2pVars>>

Next == ChainStep \/ P2pStep \/ OpeningStep

\* Every message on the wire arrives, and the attacker's actor answers it.
Fairness ==
    \A p \in 1 .. MaxPays :
        /\ WF_vars(ArriveIn(p) /\ UNCHANGED <<part, chainVars, openVars>>)
        /\ WF_vars(ArriveOut(p) /\ UNCHANGED <<part, chainVars, openVars>>)
        /\ WF_vars(Process(p) /\ UNCHANGED <<part, chainVars, openVars>>)

Spec == Init /\ [][Next]_vars /\ Fairness

-----------------------------------------------------------------------------
(* Properties; the others are those of the parts. *)

\* The states of the three parts are of their types.
BodyInv == ChainTypeOK /\ P2pTypeOK /\ OpeningTypeOK
=============================================================================
