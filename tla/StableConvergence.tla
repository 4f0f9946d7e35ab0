------------------------- MODULE StableConvergence -------------------------
(***************************************************************************)
(* What a graph-sync attempt promises when it reports convergence, stated  *)
(* without any of the bookkeeping that run_attempt uses to get there.      *)
(*                                                                         *)
(* A measurement looks at the remote graph now and then.  A "run" is an    *)
(* unbroken series of good observations of one and the same view: no       *)
(* failed observation inside it, no two neighbours further apart than      *)
(* MaxGap.  The attempt may report convergence only on an observation that *)
(* closes a run at least Window long.                                      *)
(***************************************************************************)
EXTENDS Integers

CONSTANTS
    Window,   \* STABLE_WINDOW: how long the view has to stay the same
    MaxGap    \* MAX_SAMPLE_GAP: the longest unobserved time inside a run

VARIABLES
    open,     \* there is a run
    since,    \* when the run began
    last,     \* when its last observation was made
    view,     \* what all its observations saw
    verdict   \* "measuring", "converged" or "failed"

vars == <<open, since, last, view, verdict>>

Init ==
    /\ ~open
    /\ verdict = "measuring"

(* A good observation of the view the run already has, close enough to the *)
(* one before it.                                                          *)
Extend ==
    /\ open
    /\ open'
    /\ since' = since
    /\ view' = view
    /\ last <= last'
    /\ last' - last <= MaxGap

(* A good observation that begins a run of its own. *)
Restart ==
    /\ open'
    /\ since' = last'

(* A failed, discarded or incomplete observation. *)
Break == ~open'

Observe ==
    /\ verdict = "measuring"
    /\ verdict' = "measuring"
    /\ Extend \/ Restart \/ Break

(* The only way to a positive verdict. *)
Converge ==
    /\ verdict = "measuring"
    /\ Extend
    /\ last' - since' >= Window
    /\ verdict' = "converged"

GiveUp ==
    /\ verdict = "measuring"
    /\ verdict' = "failed"

Next == Observe \/ Converge \/ GiveUp

Spec == Init /\ [][Next]_vars
=============================================================================
