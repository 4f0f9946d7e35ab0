----------------------------- MODULE CkbRpcProxy -----------------------------
(***************************************************************************)
(* CkbRpcProxy: the fault-injecting proxy between the Fiber nodes and the  *)
(* CKB RPC.  Two threads share its state: the thread of the HTTP server,   *)
(* which handles one request at a time in several sections under the lock, *)
(* and the test, whose calls land between any two of them.                 *)
(***************************************************************************)
EXTENDS Integers, Sequences

CONSTANTS
    Methods,      \* the JSON-RPC methods
    None,
    MaxRequests,  \* bound on the requests sent
    MaxQueued,    \* bound on the connections waiting to be accepted
    MaxCalls,     \* bound on the calls the test makes
    Limits        \* the arguments of reject_next and block_after

ASSUME ProxyAssumption ==
    /\ None \notin Methods
    /\ MaxRequests \in Nat
    /\ MaxQueued \in Nat
    /\ MaxCalls \in Nat
    /\ Limits \subseteq Nat
    /\ None \notin Nat

VARIABLES
    server,       \* "up", "deaf": its socket was closed under it, or "none"
    queued,       \* methods of the connections not accepted yet
    handler,      \* the next section of do_POST, "idle" between requests
    method,       \* of the request being handled
    reject,       \* _reject_remaining
    errors,       \* the methods in _method_errors
    limit,        \* _block_after
    count,        \* _forwarded_count
    armed,        \* _auto_block_method
    autoBlocked,  \* _auto_blocked
    watched,      \* _notify_method
    event,        \* _notify_event is set
    call,         \* the call the test is waiting in: "none", "block", "unblock", "start"
    passed,       \* history: requests forwarded since block_after was last called
    sent, calls   \* requests sent and calls made, bounded

vars == <<server, queued, handler, method, reject, errors, limit, count, armed,
          autoBlocked, watched, event, call, passed, sent, calls>>

faults == <<reject, errors, limit, count, armed, autoBlocked, watched, event>>
bounds == <<sent, calls>>

Init ==
    /\ server = "up"
    /\ queued = << >>
    /\ handler = "idle"
    /\ method = None
    /\ reject = 0
    /\ errors = {}
    /\ limit = None
    /\ count = 0
    /\ armed = None
    /\ autoBlocked = FALSE
    /\ watched = None
    /\ event = FALSE
    /\ call = "none"
    /\ passed = 0
    /\ sent = 0
    /\ calls = 0

-----------------------------------------------------------------------------
(* The Fiber nodes *)

Connect ==
    /\ server = "up"
    /\ sent < MaxRequests
    /\ Len(queued) < MaxQueued
    /\ \E m \in Methods : queued' = Append(queued, m)
    /\ sent' = sent + 1
    /\ UNCHANGED <<server, handler, method, faults, call, passed, calls>>

-----------------------------------------------------------------------------
(* The server thread *)

ShuttingDown == call \in {"block", "unblock"}

\* serve_forever does not take another request once shutdown() was called.
Accept ==
    /\ server = "up"
    /\ ~ShuttingDown
    /\ handler = "idle"
    /\ queued # << >>
    /\ handler' = "reject"
    /\ method' = Head(queued)
    /\ queued' = Tail(queued)
    /\ UNCHANGED <<server, faults, call, passed, bounds>>

\* The request is answered: by a reset, an error, or the reply of the node.
Answer == handler' = "idle" /\ method' = None

Continue(section) == handler' = section /\ UNCHANGED method

RejectSection ==
    /\ handler = "reject"
    /\ \/ reject > 0 /\ reject' = reject - 1 /\ Answer
       \/ reject = 0 /\ UNCHANGED reject /\ Continue("auto")
    /\ UNCHANGED <<server, queued, errors, limit, count, armed, autoBlocked, watched,
                   event, call, passed, bounds>>

\* The request that triggers it closes the listening socket and is reset.
TriggerAutoBlock ==
    /\ ~autoBlocked
    /\ armed = method
    /\ armed' = None
    /\ autoBlocked' = TRUE
    /\ server' = "deaf"
    /\ queued' = << >>

\* Mutated form: the handler calls shutdown(), which waits for the handler.
ShutdownFromHandler ==
    /\ handler = "auto"
    /\ \/ TriggerAutoBlock /\ Continue("waits_for_itself")
       \/ autoBlocked /\ Answer /\ UNCHANGED <<server, queued, armed, autoBlocked>>
       \/ /\ ~autoBlocked /\ armed # method /\ Continue("errors")
          /\ UNCHANGED <<server, queued, armed, autoBlocked>>
    /\ UNCHANGED <<reject, errors, limit, count, watched, event, call, passed, bounds>>

AutoBlockSection ==
    /\ handler = "auto"
    /\ \/ TriggerAutoBlock /\ Answer
       \/ autoBlocked /\ Answer /\ UNCHANGED <<server, queued, armed, autoBlocked>>
       \/ /\ ~autoBlocked /\ armed # method /\ Continue("errors")
          /\ UNCHANGED <<server, queued, armed, autoBlocked>>
    /\ UNCHANGED <<reject, errors, limit, count, watched, event, call, passed, bounds>>

ErrorSection ==
    /\ handler = "errors"
    /\ \/ method \in errors /\ Answer
       \/ method \notin errors /\ Continue("limit")
    /\ UNCHANGED <<server, queued, faults, call, passed, bounds>>

\* Mutated form: one request too many before the limit bites.
OverLimit == limit # None /\ count > limit

AtLimit == limit # None /\ count >= limit

LimitSection ==
    /\ handler = "limit"
    /\ \/ AtLimit /\ Answer /\ UNCHANGED count
       \/ ~AtLimit /\ limit # None /\ count' = count + 1 /\ Continue("notify")
       \/ limit = None /\ UNCHANGED count /\ Continue("notify")
    /\ UNCHANGED <<server, queued, reject, errors, limit, armed, autoBlocked, watched,
                   event, call, passed, bounds>>

NotifySection ==
    /\ handler = "notify"
    /\ \/ watched = method /\ watched' = None /\ event' = TRUE
       \/ watched # method /\ UNCHANGED <<watched, event>>
    /\ Continue("forward")
    /\ UNCHANGED <<server, queued, reject, errors, limit, count, armed, autoBlocked,
                   call, passed, bounds>>

\* The reply or the 502 goes back to the client.
Forward ==
    /\ handler = "forward"
    /\ passed' = passed + 1
    /\ Answer
    /\ UNCHANGED <<server, queued, faults, call, bounds>>

\* shutdown() returns between two requests; then the socket is closed, with
\* the connections it had not accepted.
ServerStops ==
    /\ ShuttingDown
    /\ handler = "idle"
    /\ server' = "none"
    /\ queued' = << >>
    /\ call' = IF call = "block" THEN "none" ELSE "start"
    /\ UNCHANGED <<handler, method, faults, passed, bounds>>

-----------------------------------------------------------------------------
(* The calls of the test *)

Calls ==
    /\ call = "none"
    /\ calls < MaxCalls
    /\ calls' = calls + 1
    /\ UNCHANGED <<handler, method, sent>>

RejectNext ==
    /\ Calls
    /\ \E n \in Limits : reject' = n
    /\ UNCHANGED <<server, queued, errors, limit, count, armed, autoBlocked, watched,
                   event, call, passed>>

\* block_methods replaces the errors, block_method_with_error adds one.
BlockMethods ==
    /\ Calls
    /\ errors' \in SUBSET Methods \ {errors}
    /\ UNCHANGED <<server, queued, reject, limit, count, armed, autoBlocked, watched,
                   event, call, passed>>

BlockAfter ==
    /\ Calls
    /\ limit' \in Limits
    /\ count' = 0
    /\ passed' = 0
    /\ UNCHANGED <<server, queued, reject, errors, armed, autoBlocked, watched, event, call>>

Resume ==
    /\ Calls
    /\ limit # None
    /\ limit' = None
    /\ UNCHANGED <<server, queued, reject, errors, count, armed, autoBlocked, watched,
                   event, call, passed>>

NotifyOnMethod ==
    /\ Calls
    /\ watched' \in Methods
    /\ event' = FALSE
    /\ UNCHANGED <<server, queued, reject, errors, limit, count, armed, autoBlocked,
                   call, passed>>

AutoBlockOnMethod ==
    /\ Calls
    /\ armed' \in Methods
    /\ autoBlocked' = FALSE
    /\ UNCHANGED <<server, queued, reject, errors, limit, count, watched, event, call, passed>>

\* Mutated form: the socket is closed without waiting for the handler.
CloseAtOnce ==
    /\ Calls
    /\ server # "none"
    /\ server' = "none"
    /\ queued' = << >>
    /\ UNCHANGED <<faults, call, passed>>

Block ==
    /\ Calls
    /\ server # "none"
    /\ call' = "block"
    /\ UNCHANGED <<server, queued, faults, passed>>

\* Mutated form: unblock() leaves the trigger armed.
UnblockArmed ==
    /\ Calls
    /\ autoBlocked' = FALSE
    /\ call' = IF server = "none" THEN "start" ELSE "unblock"
    /\ UNCHANGED <<server, queued, reject, errors, limit, count, armed, watched, event, passed>>

Unblock ==
    /\ Calls
    /\ autoBlocked' = FALSE
    /\ armed' = None
    /\ call' = IF server = "none" THEN "start" ELSE "unblock"
    /\ UNCHANGED <<server, queued, reject, errors, limit, count, watched, event, passed>>

\* start(port=self.port)
Start ==
    /\ call = "start"
    /\ server' = "up"
    /\ call' = "none"
    /\ UNCHANGED <<queued, handler, method, faults, passed, bounds>>

-----------------------------------------------------------------------------
Sections == RejectSection \/ AutoBlockSection \/ ErrorSection \/ LimitSection
            \/ NotifySection \/ Forward

Serving == Accept \/ Sections \/ ServerStops

Controls == RejectNext \/ BlockMethods \/ BlockAfter \/ Resume \/ NotifyOnMethod
            \/ AutoBlockOnMethod \/ Block \/ Unblock

Next == Connect \/ Serving \/ Controls \/ Start

Spec == Init /\ [][Next]_vars

\* The server thread runs; a call the test is in goes on once it may.
FairSpec == Spec /\ WF_vars(Serving) /\ WF_vars(Start)

-----------------------------------------------------------------------------
(* Properties *)

\* The request under way will reach the node unless a later section stops it.
Admitted == handler \in {"errors", "limit", "notify", "forward"}

\* The type invariant, and what the two threads rely on: a stopped server
\* handles nothing, and nothing waits at a socket that is closed.
ProxyInv ==
    /\ server \in {"up", "deaf", "none"}
    /\ handler \in {"idle", "reject", "auto", "errors", "limit", "notify", "forward"}
    /\ handler = "idle" <=> method = None
    /\ method \in Methods \cup {None}
    /\ reject \in Nat
    /\ count \in Nat
    /\ passed \in Nat
    /\ limit \in Nat \cup {None}
    /\ server = "none" => handler = "idle"
    /\ call = "start" => server = "none"
    /\ ShuttingDown => server # "none"
    /\ server # "up" => queued = << >>

\* Once block() has returned, or the trigger method was seen, no request gets
\* through, whatever was under way when it happened.
BlockedIsQuiet == server = "none" \/ autoBlocked => ~Admitted

\* A server that was opened again serves: no trigger that went off while
\* unblock() was under way makes it reset every request.
ReopenedServes == server = "up" => ~autoBlocked

\* The request between the limit section and its reply.
InFlight == IF handler \in {"notify", "forward"} THEN 1 ELSE 0

\* block_after(n) lets through n requests, and at most one more: the one
\* that had passed the limit section when it was called.
AtMostOneOverTheLimit == limit # None => passed + InFlight <= limit + 1

\* What got through, or is about to, without having been counted: the request that
\* had passed the limit section when block_after reset the counter.
Uncounted == IF limit = None THEN 0 ELSE passed + InFlight - count

\* The promise of the proxy as a gate.
Gate == INSTANCE RpcGate WITH
    closed <- server # "up", inside <- InFlight = 1, quota <- limit, late <- Uncounted

\* Whatever section a request is in when the test calls: after block() and after the
\* trigger nothing is let in or reaches the node until the proxy is open again, and
\* what a limit lets through exceeds it only by a request that was already past it.
ForwardsOnlyThroughTheGate == Gate!Spec

\* "Allow exactly n more requests through", as the docstring of block_after has it.
ExactlyTheLimit == limit # None => passed <= limit

\* Nobody waits for ever: a request that was accepted is answered, and block()
\* and unblock(), which wait for the handler, return.
NobodyWaitsForEver ==
    /\ (handler # "idle") ~> (handler = "idle")
    /\ (call # "none") ~> (call = "none")
=============================================================================
