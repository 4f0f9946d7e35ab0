------------------------------ MODULE GraphScan ------------------------------
(***************************************************************************)
(* DailySyncNode.paginate with the merge rules it folds duplicates by: one *)
(* cursor-paged scan of graph_nodes or graph_channels, while the node that *)
(* answers keeps changing its graph.                                       *)
(*                                                                         *)
(* Duplicates are merged one item at a time and a page lists its items in  *)
(* any order, so the invariants show that the order does not matter.       *)
(***************************************************************************)
EXTENDS Integers

CONSTANTS
    None,            \* Python's None
    Ids,             \* lower-cased pubkeys or channel outpoints
    Idents,          \* the values of a channel's identity fields
    Updates,         \* [timestamp, canon]: canon ranks the canonical JSON text
    NodeRecords,     \* the items graph_nodes may list
    ChannelRecords,  \* the items graph_channels may list
    Last,            \* the cursors are 1..Last
    MaxPages,        \* MAX_PAGES
    MaxChanges       \* bound on the changes of the graph during the scan

MaybeUpdate == Updates \cup {None}

\* The form of a channel record, merged or not.
Channel == [id : Ids, ident : Idents \cup {None},
            update1 : MaybeUpdate, update2 : MaybeUpdate]

ASSUME ScanAssumption ==
    /\ Last \in Nat
    /\ MaxPages \in Nat
    /\ MaxChanges \in Nat
    /\ Updates \subseteq [timestamp : Nat, canon : Nat]
    /\ None \notin Updates \cup Idents \cup NodeRecords \cup Channel
    /\ NodeRecords \subseteq [id : Ids, update : Updates]
    /\ ChannelRecords \subseteq Channel

Positions == 1..Last

VARIABLES
    method,     \* "graph_nodes" or "graph_channels"
    store,      \* the fnn node: the record at each cursor position
    changes,    \* how often it has changed during the scan
    touched,    \* history: the positions that changed during the scan
    pc,         \* "request", "items" or "done"
    pages,      \* requests made
    after,      \* the cursor sent, 0 for None
    seen,       \* seen_cursors
    batch,      \* items of the page not merged yet
    cursor,     \* last_cursor of the page, 0 if it has none
    items,      \* the merged record of each identity
    delivered,  \* history: the records merged so far
    outcome     \* "running", "ok" (items is returned) or the exception

vars == <<method, store, changes, touched, pc, pages, after, seen, batch, cursor,
          items, delivered, outcome>>

server == <<method, store, changes, touched>>
client == <<pc, pages, after, seen, batch, cursor, items, delivered, outcome>>

Records == IF method = "graph_nodes" THEN NodeRecords ELSE ChannelRecords

\* What items may hold: a merged channel need not be one that was listed.
Items == IF method = "graph_nodes" THEN NodeRecords ELSE Channel

-----------------------------------------------------------------------------
(* The merge rules *)

\* u wins over v: the later timestamp, and on a tie the greater JSON text.
Newer(u, v) ==
    \/ u.timestamp > v.timestamp
    \/ u.timestamp = v.timestamp /\ u.canon > v.canon

\* Mutated form: on a tie the record that arrived last wins.
PickLater(a, b) ==
    CASE a = None -> b
      [] b = None -> a
      [] OTHER -> IF b.timestamp >= a.timestamp THEN b ELSE a

\* _pick_newer_update
PickNewer(a, b) ==
    CASE a = None -> b
      [] b = None -> a
      [] OTHER -> IF Newer(b, a) THEN b ELSE a

\* _merge_node, for an existing record
MergeNode(existing, incoming) ==
    IF Newer(incoming.update, existing.update) THEN incoming ELSE existing

OldOrNew(old, new) == IF old # None THEN old ELSE new

\* Mutated form: the record with the newer update is kept whole.
KeepNewest(existing, incoming) ==
    IF /\ incoming.update1 # None
       /\ existing.update1 = None \/ Newer(incoming.update1, existing.update1)
    THEN incoming ELSE existing

\* _merge_channel, for an existing record: each direction on its own
MergeChannel(existing, incoming) ==
    [existing EXCEPT !.ident = OldOrNew(@, incoming.ident),
                     !.update1 = PickNewer(@, incoming.update1),
                     !.update2 = PickNewer(@, incoming.update2)]

\* Mutated form: a conflict is not noticed.
NeverConflicts(existing, incoming) == FALSE

\* _merge_channel raises: both records have the identity, and it differs.
Conflicts(existing, incoming) ==
    /\ method = "graph_channels"
    /\ existing # None
    /\ None \notin {existing.ident, incoming.ident}
    /\ existing.ident # incoming.ident

Merge(existing, incoming) ==
    IF existing = None THEN incoming
    ELSE IF method = "graph_nodes" THEN MergeNode(existing, incoming)
    ELSE MergeChannel(existing, incoming)

-----------------------------------------------------------------------------
Init ==
    /\ method \in {"graph_nodes", "graph_channels"}
    /\ store \in [Positions -> Records \cup {None}]
    /\ changes = 0
    /\ touched = {}
    /\ pc = "request"
    /\ pages = 0
    /\ after = 0
    /\ seen = {}
    /\ batch = {}
    /\ cursor = 0
    /\ items = [i \in Ids |-> None]
    /\ delivered = {}
    /\ outcome = "running"

\* The fnn node adds, updates or prunes a record.
GraphChanges ==
    /\ outcome = "running"
    /\ changes < MaxChanges
    /\ changes' = changes + 1
    /\ \E p \in Positions, r \in Records \cup {None} :
         /\ store' = [store EXCEPT ![p] = r]
         /\ touched' = touched \cup {p}
    /\ UNCHANGED <<method, client>>

-----------------------------------------------------------------------------
(* paginate *)

End(o) ==
    /\ outcome' = o
    /\ pc' = "done"

Ahead == {p \in Positions : p > after /\ store[p] # None}

Requesting == pc = "request" /\ pages < MaxPages

\* A page lists the next records up to last; its cursor is last, or it is
\* missing or does not advance.
FetchPage ==
    /\ Requesting
    /\ \E last \in Ahead :
         /\ batch' = {store[p] : p \in {q \in Ahead : q <= last}}
         /\ cursor' \in 0..after \cup {last}
    /\ pages' = pages + 1
    /\ pc' = "items"
    /\ UNCHANGED <<server, after, seen, items, delivered, outcome>>

\* An empty page is the only clean end.
FetchEmptyPage ==
    /\ Requesting
    /\ Ahead = {}
    /\ End("ok")
    /\ UNCHANGED <<server, pages, after, seen, batch, cursor, items, delivered>>

\* A malformed reply, a failed call, or the deadline.
FetchFails ==
    /\ Requesting
    /\ \E o \in {"GraphError", "RpcError", "DeadlineExceeded"} : End(o)
    /\ UNCHANGED <<server, pages, after, seen, batch, cursor, items, delivered>>

\* Mutated form: the number of pages is not checked after the last one.
NeverExhausted == FALSE /\ UNCHANGED vars

PagesExhausted ==
    /\ pc = "request"
    /\ pages = MaxPages
    /\ End("GraphError")
    /\ UNCHANGED <<server, pages, after, seen, batch, cursor, items, delivered>>

MergeItem ==
    /\ pc = "items"
    /\ \E it \in batch :
         /\ ~Conflicts(items[it.id], it)
         /\ items' = [items EXCEPT ![it.id] = Merge(@, it)]
         /\ batch' = batch \ {it}
         /\ delivered' = delivered \cup {it}
    /\ UNCHANGED <<server, pc, pages, after, seen, cursor, outcome>>

\* The validator or the merge raises.
BadItem ==
    /\ pc = "items"
    /\ batch # {}
    /\ End("GraphError")
    /\ UNCHANGED <<server, pages, after, seen, batch, cursor, items, delivered>>

Advance ==
    /\ cursor # 0
    /\ cursor \notin seen
    /\ seen' = seen \cup {cursor}
    /\ after' = cursor
    /\ pc' = "request"
    /\ UNCHANGED outcome

\* Mutated form: a page without a cursor is taken for the last one.
EndWithoutCursor ==
    /\ pc = "items"
    /\ batch = {}
    /\ \/ Advance
       \/ cursor = 0 /\ End("ok") /\ UNCHANGED <<after, seen>>
       \/ cursor \in seen /\ End("GraphError") /\ UNCHANGED <<after, seen>>
    /\ UNCHANGED <<server, pages, batch, cursor, items, delivered>>

CheckCursor ==
    /\ pc = "items"
    /\ batch = {}
    /\ \/ Advance
       \/ cursor \in {0} \cup seen /\ End("GraphError") /\ UNCHANGED <<after, seen>>
    /\ UNCHANGED <<server, pages, batch, cursor, items, delivered>>

Scan == FetchPage \/ FetchEmptyPage \/ FetchFails \/ PagesExhausted
        \/ MergeItem \/ BadItem \/ CheckCursor

Next == Scan \/ GraphChanges

Spec == Init /\ [][Next]_vars

\* The scan is a loop of one thread whose calls have a timeout.
FairSpec == Spec /\ WF_vars(Scan)

-----------------------------------------------------------------------------
(* Properties *)

Outcomes == {"running", "ok", "GraphError", "RpcError", "DeadlineExceeded"}

TypeOK ==
    /\ method \in {"graph_nodes", "graph_channels"}
    /\ store \in [Positions -> Records \cup {None}]
    /\ changes \in Nat
    /\ touched \subseteq Positions
    /\ pc \in {"request", "items", "done"}
    /\ pages \in 0..MaxPages
    /\ after \in 0..Last
    /\ seen \subseteq Positions
    /\ batch \subseteq Records
    /\ cursor \in 0..Last
    /\ delivered \subseteq Records
    /\ outcome \in Outcomes
    /\ outcome = "running" <=> pc # "done"
    /\ items \in [Ids -> {None} \cup Items]

\* u is v or wins over it; anything is at least as new as no update.
AtLeast(u, v) == v = None \/ (u # None /\ (u = v \/ Newer(u, v)))

Covers(m, r) ==
    IF method = "graph_nodes" THEN AtLeast(m.update, r.update)
    ELSE /\ AtLeast(m.update1, r.update1)
         /\ AtLeast(m.update2, r.update2)
         /\ r.ident \in {None, m.ident}

\* Every part of the merged record m of identity i was delivered.
Delivered(m, i) ==
    LET of == {r \in delivered : r.id = i} IN
    IF method = "graph_nodes" THEN m \in of
    ELSE /\ m.id = i
         /\ \E r \in of : m.update1 = r.update1
         /\ \E r \in of : m.update2 = r.update2
         /\ \E r \in of : m.ident = r.ident

\* Whatever order the pages and the items came in, the merged record of an
\* identity is, direction by direction, the newest of what was delivered for
\* it: the digest depends on the set of records alone, and a record split
\* over two pages loses neither direction.
MergedIsNewest ==
    /\ \A r \in delivered : items[r.id] # None /\ Covers(items[r.id], r)
    /\ \A i \in Ids : items[i] # None => Delivered(items[i], i)

\* Records that disagree on what a channel is are never merged, in whatever
\* order they came and however many pages lie between them.
NoConflictHidden ==
    method = "graph_channels" =>
        \A r, s \in delivered :
            r.id = s.id /\ None \notin {r.ident, s.ident} => r.ident = s.ident

\* A scan that ends cleanly has the whole graph: every record that stayed in
\* its place from the first request to the last is in what it returns, however
\* much the rest of the graph changed in between, and even if some pages came
\* with a cursor that was missing or did not advance.
CleanScanIsComplete ==
    outcome = "ok" =>
        \A p \in Positions \ touched :
            store[p] # None => /\ items[store[p].id] # None
                               /\ Covers(items[store[p].id], store[p])

\* What is behind the cursor has been delivered, or is about to be.
BehindCursor ==
    \A p \in Positions \ touched :
        store[p] # None =>
            /\ p <= after => store[p] \in delivered
            /\ pc = "items" /\ p <= cursor => store[p] \in delivered \cup batch
            /\ outcome = "ok" => store[p] \in delivered

\* The inductive invariant.
ScanInv == TypeOK /\ MergedIsNewest /\ NoConflictHidden /\ BehindCursor

\* Every scan ends, even if the node keeps inserting or answering in circles.
ScanEnds == <>(outcome # "running")
=============================================================================
