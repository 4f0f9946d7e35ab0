------------------------------ MODULE RpcGate ------------------------------
(***************************************************************************)
(* What CkbRpcProxy promises a test, without threads, sections or the      *)
(* server behind it: a gate between the Fiber nodes and the CKB RPC.       *)
(*                                                                         *)
(* A request goes through it in two steps, for it is let in first and      *)
(* reaches the node later.  The gate closes only when nobody is inside.  A *)
(* quota bounds how many get through from the moment it is set, not        *)
(* counting the one that was inside already.                               *)
(***************************************************************************)
EXTENDS Integers

CONSTANT None   \* there is no quota

VARIABLES
    closed,   \* no request is let in
    inside,   \* one was let in and has not reached the node yet
    quota,    \* how many may get through, or None
    late,     \* 1 if one was inside when the quota was set, else 0
    passed    \* how many have got through since

vars == <<closed, inside, quota, late, passed>>

Init ==
    /\ ~closed
    /\ ~inside
    /\ quota = None
    /\ late = 0
    /\ passed = 0

Enter ==
    /\ ~closed
    /\ ~inside
    /\ quota # None => passed < quota + late
    /\ inside'
    /\ UNCHANGED <<closed, quota, late, passed>>

Pass ==
    /\ ~closed
    /\ inside
    /\ ~inside'
    /\ passed' = passed + 1
    /\ UNCHANGED <<closed, quota, late>>

(* block(), and the request that trips auto_block_on_method. *)
Close ==
    /\ ~inside
    /\ closed'
    /\ UNCHANGED <<inside, quota, late, passed>>

(* unblock() *)
Open ==
    /\ ~closed'
    /\ UNCHANGED <<inside, quota, late, passed>>

(* block_after(n) *)
SetQuota ==
    /\ quota' \in Nat
    /\ late' = IF inside THEN 1 ELSE 0
    /\ passed' = 0
    /\ UNCHANGED <<closed, inside>>

(* resume() *)
Lift ==
    /\ quota' = None
    /\ late' = 0
    /\ UNCHANGED <<closed, inside, passed>>

Next == Enter \/ Pass \/ Close \/ Open \/ SetQuota \/ Lift

Spec == Init /\ [][Next]_vars
=============================================================================
