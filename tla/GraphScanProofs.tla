--------------------------- MODULE GraphScanProofs ---------------------------
(***************************************************************************)
(* Proofs about GraphScan for every value of its constants.                *)
(***************************************************************************)
EXTENDS GraphScan, FiniteSetTheorems, TLAPS

\* Picking the newer update does not depend on which of the two came first.
THEOREM PickNewerCommutes ==
    ASSUME NEW a \in MaybeUpdate, NEW b \in MaybeUpdate
    PROVE  PickNewer(a, b) = PickNewer(b, a)
BY ScanAssumption DEF PickNewer, Newer, MaybeUpdate

\* Nor on how three updates are grouped.
THEOREM PickNewerAssociates ==
    ASSUME NEW a \in MaybeUpdate, NEW b \in MaybeUpdate, NEW c \in MaybeUpdate
    PROVE  PickNewer(a, PickNewer(b, c)) = PickNewer(PickNewer(a, b), c)
BY ScanAssumption DEF PickNewer, Newer, MaybeUpdate

\* The order of updates is transitive, and the pick is an upper bound in it.
LEMMA AtLeastTransitive ==
    ASSUME NEW a \in MaybeUpdate, NEW b \in MaybeUpdate, NEW c \in MaybeUpdate,
           AtLeast(a, b), AtLeast(b, c)
    PROVE  AtLeast(a, c)
BY ScanAssumption DEF AtLeast, Newer, MaybeUpdate

\* What _pick_newer_update returns is one of the two and no older than either.
LEMMA PickNewerBounds ==
    ASSUME NEW a \in MaybeUpdate, NEW b \in MaybeUpdate
    PROVE  /\ PickNewer(a, b) \in {a, b}
           /\ AtLeast(PickNewer(a, b), a)
           /\ AtLeast(PickNewer(a, b), b)
BY ScanAssumption DEF PickNewer, AtLeast, Newer, MaybeUpdate

\* The records of a page are items, and an item is a record.
LEMMA RecordFacts ==
    ASSUME TypeOK
    PROVE  /\ Records \subseteq Items
           /\ None \notin Items
           /\ \A r \in Items : r.id \in Ids
BY ScanAssumption DEF TypeOK, Records, Items, Channel

\* A scan starts in a state of the inductive invariant.
LEMMA InitScanInv == Init => ScanInv
<1> SUFFICES ASSUME Init PROVE ScanInv
    OBVIOUS
<1>1. TypeOK
    BY ScanAssumption DEF Init, TypeOK, Positions, Outcomes
<1>2. MergedIsNewest /\ NoConflictHidden
    BY DEF Init, MergedIsNewest, NoConflictHidden
<1>3. BehindCursor
    BY DEF Init, BehindCursor, Positions
<1>4. QED
    BY <1>1, <1>2, <1>3 DEF ScanInv

\* A merged record is an item of the same identity.
LEMMA MergeType ==
    ASSUME TypeOK, NEW m \in {None} \cup Items, NEW r \in Records,
           m # None => m.id = r.id
    PROVE  /\ Merge(m, r) \in Items
           /\ Merge(m, r).id = r.id
<1>1. CASE m = None
    <2>1. Merge(m, r) = r
        BY <1>1 DEF Merge
    <2>2. QED
        BY <2>1, RecordFacts
<1>2. CASE m # None /\ method = "graph_nodes"
    BY <1>2, RecordFacts DEF Merge, MergeNode, Items, Records, TypeOK
<1>3. CASE m # None /\ method # "graph_nodes"
    <2>1. m \in Channel /\ r \in Channel
        BY <1>3, RecordFacts DEF Items
    <2>2. /\ PickNewer(m.update1, r.update1) \in MaybeUpdate
          /\ PickNewer(m.update2, r.update2) \in MaybeUpdate
          /\ OldOrNew(m.ident, r.ident) \in Idents \cup {None}
        BY <2>1, PickNewerBounds DEF Channel, OldOrNew
    <2>3. QED
        BY <1>3, <2>1, <2>2 DEF Merge, MergeChannel, Channel, Items
<1>4. QED
    BY <1>1, <1>2, <1>3

\* Every step keeps every variable within its type.
LEMMA TypeStep == TypeOK /\ MergedIsNewest /\ [Next]_vars => TypeOK'
<1> SUFFICES ASSUME TypeOK, MergedIsNewest, [Next]_vars PROVE TypeOK'
    OBVIOUS
<1> USE ScanAssumption
<1>1. CASE GraphChanges
    <2>1. UNCHANGED <<Records, Items>>
        BY <1>1 DEF GraphChanges, Records, Items
    <2>2. QED
        BY <1>1, <2>1 DEF GraphChanges, TypeOK, client
<1>2. CASE FetchPage
    <2>1. PICK last \in Ahead :
             /\ batch' = {store[p] : p \in {q \in Ahead : q <= last}}
             /\ cursor' \in 0..after \cup {last}
        BY <1>2 DEF FetchPage
    <2>2. batch' \subseteq Records /\ cursor' \in 0..Last
        BY <2>1 DEF Ahead, TypeOK, Positions
    <2>3. pages' \in 0..MaxPages
        BY <1>2 DEF FetchPage, Requesting, TypeOK
    <2>4. UNCHANGED <<Records, Items>>
        BY <1>2 DEF FetchPage, server, Records, Items
    <2>5. QED
        BY <1>2, <2>2, <2>3, <2>4 DEF FetchPage, Requesting, TypeOK, server
<1>3. CASE FetchEmptyPage \/ FetchFails \/ PagesExhausted \/ BadItem
    <2>1. UNCHANGED <<Records, Items>>
        BY <1>3 DEF FetchEmptyPage, FetchFails, PagesExhausted, BadItem, server,
                    Records, Items
    <2>2. QED
        BY <1>3, <2>1 DEF FetchEmptyPage, FetchFails, PagesExhausted, BadItem, End,
                          TypeOK, Outcomes, server
<1>4. CASE MergeItem
    <2>1. PICK it \in batch :
             /\ items' = [items EXCEPT ![it.id] = Merge(@, it)]
             /\ batch' = batch \ {it}
             /\ delivered' = delivered \cup {it}
        BY <1>4 DEF MergeItem
    <2>2. it \in Records /\ it.id \in Ids
        BY <2>1, RecordFacts DEF TypeOK
    <2>3. items[it.id] # None => items[it.id].id = it.id
        <3>1. items[it.id] # None => Delivered(items[it.id], it.id)
            BY <2>2 DEF MergedIsNewest
        <3>2. QED
            BY <3>1 DEF Delivered
    <2>4. Merge(items[it.id], it) \in Items
        BY <2>2, <2>3, MergeType DEF TypeOK
    <2>5. UNCHANGED <<Records, Items>>
        BY <1>4 DEF MergeItem, server, Records, Items
    <2>6. QED
        BY <1>4, <2>1, <2>2, <2>4, <2>5 DEF MergeItem, TypeOK, server
<1>5. CASE CheckCursor
    <2>1. UNCHANGED <<Records, Items>>
        BY <1>5 DEF CheckCursor, server, Records, Items
    <2>2. QED
        <3>1. CASE Advance
            BY <1>5, <2>1, <3>1 DEF CheckCursor, Advance, TypeOK, Positions, server
        <3>2. CASE End("GraphError") /\ UNCHANGED <<after, seen>>
            BY <1>5, <2>1, <3>2 DEF CheckCursor, End, TypeOK, Outcomes, server
        <3>3. QED
            BY <1>5, <3>1, <3>2 DEF CheckCursor
<1>6. CASE UNCHANGED vars
    BY <1>6 DEF vars, TypeOK, Records, Items
<1>7. QED
    BY <1>1, <1>2, <1>3, <1>4, <1>5, <1>6 DEF Next, Scan

\* Merging loses nothing: the result is as new as the item, and as new as
\* anything the existing record was as new as.
LEMMA MergeCovers ==
    ASSUME TypeOK, NEW m \in {None} \cup Items, NEW it \in Records, ~Conflicts(m, it)
    PROVE  /\ Covers(Merge(m, it), it)
           /\ \A r \in Records : m # None /\ Covers(m, r) => Covers(Merge(m, it), r)
<1>1. CASE m = None
    BY <1>1 DEF Merge, Covers, AtLeast
<1>2. CASE m # None /\ method = "graph_nodes"
    <2>1. /\ m.update \in Updates /\ it.update \in Updates
          /\ \A r \in Records : r.update \in Updates
        BY <1>2, ScanAssumption DEF Items, Records
    <2>2. Merge(m, it).update = PickNewer(m.update, it.update)
        BY <1>2, <2>1, ScanAssumption DEF Merge, MergeNode, PickNewer
    <2>3. AtLeast(Merge(m, it).update, it.update) /\ AtLeast(Merge(m, it).update, m.update)
        BY <2>1, <2>2, PickNewerBounds DEF MaybeUpdate
    <2>4. Merge(m, it).update \in Updates
        BY <2>1, <2>2, PickNewerBounds DEF MaybeUpdate
    <2>5. \A r \in Records : AtLeast(m.update, r.update) =>
             AtLeast(Merge(m, it).update, r.update)
        BY <2>1, <2>3, <2>4, AtLeastTransitive DEF MaybeUpdate
    <2>6. QED
        BY <1>2, <2>3, <2>5 DEF Covers
<1>3. CASE m # None /\ method # "graph_nodes"
    <2>1. method = "graph_channels"
        BY <1>3 DEF TypeOK
    <2>2. /\ m \in Channel /\ it \in Channel
          /\ \A r \in Records : r \in Channel
        BY <1>3, ScanAssumption DEF Items, Records
    <2> DEFINE new == Merge(m, it)
    <2>3. /\ new.update1 = PickNewer(m.update1, it.update1)
          /\ new.update2 = PickNewer(m.update2, it.update2)
          /\ new.ident = OldOrNew(m.ident, it.ident)
        BY <1>3, <2>2 DEF Merge, MergeChannel, Channel
    <2>4. /\ m.update1 \in MaybeUpdate /\ it.update1 \in MaybeUpdate
          /\ m.update2 \in MaybeUpdate /\ it.update2 \in MaybeUpdate
          /\ \A r \in Records : r.update1 \in MaybeUpdate /\ r.update2 \in MaybeUpdate
        BY <2>2 DEF Channel
    <2>5. /\ new.update1 \in MaybeUpdate /\ new.update2 \in MaybeUpdate
          /\ AtLeast(new.update1, m.update1) /\ AtLeast(new.update1, it.update1)
          /\ AtLeast(new.update2, m.update2) /\ AtLeast(new.update2, it.update2)
        BY <2>3, <2>4, PickNewerBounds
    <2>6. it.ident \in {None, new.ident}
        BY <1>3, <2>1, <2>3 DEF Conflicts, OldOrNew
    <2>7. \A r \in Records : r.ident \in {None, m.ident} => r.ident \in {None, new.ident}
        BY <2>3 DEF OldOrNew
    <2>8. \A r \in Records : Covers(m, r) => Covers(new, r)
        <3>1. SUFFICES ASSUME NEW r \in Records, Covers(m, r) PROVE Covers(new, r)
            OBVIOUS
        <3>2. AtLeast(m.update1, r.update1) /\ AtLeast(m.update2, r.update2)
            BY <1>3, <3>1 DEF Covers
        <3>3. AtLeast(new.update1, r.update1) /\ AtLeast(new.update2, r.update2)
            BY <2>4, <2>5, <3>2, AtLeastTransitive
        <3>4. QED
            BY <1>3, <2>7, <3>1, <3>3 DEF Covers
    <2>9. QED
        BY <1>3, <2>5, <2>6, <2>8 DEF Covers
<1>4. QED
    BY <1>1, <1>2, <1>3

\* Merging invents nothing: each part is one of the existing record or the item.
LEMMA MergeParts ==
    ASSUME TypeOK, NEW m \in {None} \cup Items, NEW it \in Records
    PROVE  IF method = "graph_nodes" THEN Merge(m, it) \in {m, it} /\ Merge(m, it) # None
           ELSE /\ Merge(m, it).update1 \in
                     {it.update1} \cup IF m = None THEN {} ELSE {m.update1}
                /\ Merge(m, it).update2 \in
                     {it.update2} \cup IF m = None THEN {} ELSE {m.update2}
                /\ Merge(m, it).ident \in
                     {it.ident} \cup IF m = None THEN {} ELSE {m.ident}
<1>1. CASE m = None
    BY <1>1, RecordFacts DEF Merge
<1>2. CASE m # None /\ method = "graph_nodes"
    BY <1>2, RecordFacts DEF Merge, MergeNode
<1>3. CASE m # None /\ method # "graph_nodes"
    <2>1. m \in Channel /\ it \in Channel
        BY <1>3, ScanAssumption DEF Items, Records
    <2>2. QED
        BY <1>3, <2>1 DEF Merge, MergeChannel, Channel, PickNewer, OldOrNew
<1>4. QED
    BY <1>1, <1>2, <1>3

\* Every step keeps the merged records the newest of what was delivered.
LEMMA MergedStep ==
    TypeOK /\ MergedIsNewest /\ NoConflictHidden /\ [Next]_vars =>
        MergedIsNewest' /\ NoConflictHidden'
<1> SUFFICES ASSUME TypeOK, MergedIsNewest, NoConflictHidden, [Next]_vars
             PROVE  MergedIsNewest' /\ NoConflictHidden'
    OBVIOUS
<1>1. CASE MergeItem
    <2>1. PICK it \in batch :
             /\ ~Conflicts(items[it.id], it)
             /\ items' = [items EXCEPT ![it.id] = Merge(@, it)]
             /\ delivered' = delivered \cup {it}
        BY <1>1 DEF MergeItem
    <2>2. /\ it \in Records /\ it.id \in Ids
          /\ items[it.id] \in {None} \cup Items
          /\ \A r \in delivered : r \in Records /\ r.id \in Ids
        BY <2>1, RecordFacts DEF TypeOK
    <2>3. method' = method
        BY <1>1 DEF MergeItem, server
    <2>4. items[it.id] # None => Delivered(items[it.id], it.id)
        BY <2>2 DEF MergedIsNewest
    <2>5. items[it.id] # None => items[it.id].id = it.id
        BY <2>4 DEF Delivered
    <2>6. Merge(items[it.id], it) \in Items /\ Merge(items[it.id], it).id = it.id
        BY <2>2, <2>5, MergeType
    <2>7. /\ items'[it.id] = Merge(items[it.id], it)
          /\ \A i \in Ids \ {it.id} : items'[i] = items[i]
        BY <2>1, <2>2 DEF TypeOK
    <2>8. \A r \in delivered' : items'[r.id] # None /\ Covers(items'[r.id], r)
        <3>1. SUFFICES ASSUME NEW r \in delivered'
                       PROVE  items'[r.id] # None /\ Covers(items'[r.id], r)
            OBVIOUS
        <3>2. CASE r = it
            BY <2>1, <2>2, <2>6, <2>7, <3>2, MergeCovers, RecordFacts
        <3>3. CASE r \in delivered /\ r.id = it.id
            <4>1. items[r.id] # None /\ Covers(items[r.id], r)
                BY <3>3 DEF MergedIsNewest
            <4>2. QED
                BY <2>1, <2>2, <2>6, <2>7, <3>3, <4>1, MergeCovers, RecordFacts
        <3>4. CASE r \in delivered /\ r.id # it.id
            BY <2>2, <2>7, <3>4 DEF MergedIsNewest
        <3>5. QED
            BY <2>1, <3>2, <3>3, <3>4
    <2>9. \A i \in Ids : items'[i] # None => Delivered(items[i], i)'
        <3>1. SUFFICES ASSUME NEW i \in Ids, items'[i] # None
                       PROVE  Delivered(items[i], i)'
            OBVIOUS
        <3>2. CASE i # it.id
            <4>1. items'[i] = items[i] /\ Delivered(items[i], i)
                BY <2>7, <3>1, <3>2 DEF MergedIsNewest
            <4>2. QED
                BY <2>1, <2>3, <4>1 DEF Delivered
        <3>3. CASE i = it.id
            <4>1. it \in delivered' /\ delivered \subseteq delivered'
                BY <2>1
            <4> DEFINE m == items[it.id]
                       new == Merge(m, it)
            <4>2. CASE method = "graph_nodes"
                <5>1. new \in {m, it} /\ new # None
                    BY <2>2, <4>2, MergeParts
                <5>2. new \in delivered' /\ new.id = it.id
                    BY <2>4, <2>6, <4>1, <4>2, <5>1 DEF Delivered
                <5>3. QED
                    BY <2>3, <2>7, <3>3, <4>2, <5>2 DEF Delivered
            <4>3. CASE method # "graph_nodes"
                <5>1. /\ new.update1 \in {it.update1} \cup IF m = None THEN {} ELSE {m.update1}
                      /\ new.update2 \in {it.update2} \cup IF m = None THEN {} ELSE {m.update2}
                      /\ new.ident \in {it.ident} \cup IF m = None THEN {} ELSE {m.ident}
                    BY <2>2, <4>3, MergeParts
                <5>2. m # None =>
                         /\ \E r \in delivered : r.id = it.id /\ m.update1 = r.update1
                         /\ \E r \in delivered : r.id = it.id /\ m.update2 = r.update2
                         /\ \E r \in delivered : r.id = it.id /\ m.ident = r.ident
                    BY <2>4, <4>3 DEF Delivered
                <5>3. /\ \E r \in delivered' : r.id = it.id /\ new.update1 = r.update1
                      /\ \E r \in delivered' : r.id = it.id /\ new.update2 = r.update2
                      /\ \E r \in delivered' : r.id = it.id /\ new.ident = r.ident
                    BY <4>1, <5>1, <5>2
                <5>4. QED
                    BY <2>3, <2>6, <2>7, <3>3, <4>3, <5>3 DEF Delivered
            <4>4. QED
                BY <4>2, <4>3
        <3>4. QED
            BY <3>2, <3>3
    <2>10. NoConflictHidden'
        <3>1. SUFFICES ASSUME method = "graph_channels",
                              NEW r \in delivered', NEW s \in delivered', r.id = s.id,
                              r.ident # None, s.ident # None
                       PROVE  r.ident = s.ident
            BY <2>3 DEF NoConflictHidden
        <3>2. \A t \in delivered : t.id = it.id /\ t.ident # None /\ it.ident # None
                                   => t.ident = it.ident
            BY <2>1, <2>2, <3>1 DEF MergedIsNewest, Covers, Conflicts
        <3>3. QED
            BY <2>1, <3>1, <3>2 DEF NoConflictHidden
    <2>11. MergedIsNewest'
        BY <2>3, <2>8, <2>9 DEF MergedIsNewest, Covers
    <2>12. QED
        BY <2>10, <2>11
<1>2. CASE ~MergeItem
    <2>1. UNCHANGED <<method, items, delivered>>
        BY <1>2 DEF Next, Scan, GraphChanges, FetchPage, FetchEmptyPage, FetchFails,
                    PagesExhausted, BadItem, CheckCursor, server, client, vars
    <2>2. QED
        BY <2>1 DEF MergedIsNewest, NoConflictHidden, Covers, Delivered
<1>3. QED
    BY <1>1, <1>2

\* Every step keeps what lies behind the cursor delivered.
LEMMA BehindStep == TypeOK /\ BehindCursor /\ [Next]_vars => BehindCursor'
<1> SUFFICES ASSUME TypeOK, BehindCursor, [Next]_vars,
                    NEW p \in Positions \ touched', store'[p] # None
             PROVE  /\ p <= after' => store'[p] \in delivered'
                    /\ pc' = "items" /\ p <= cursor' => store'[p] \in delivered' \cup batch'
                    /\ outcome' = "ok" => store'[p] \in delivered'
    BY DEF BehindCursor
<1>0. p \in Nat /\ after \in Nat /\ cursor \in Nat
    BY DEF TypeOK, Positions
<1>1. CASE GraphChanges
    <2>1. p \notin touched /\ store'[p] = store[p]
        BY <1>1 DEF GraphChanges, TypeOK
    <2>2. QED
        BY <1>1, <2>1 DEF GraphChanges, client, BehindCursor
<1>2. CASE ~GraphChanges /\ ~UNCHANGED vars
    <2>0. UNCHANGED server
        BY <1>2 DEF Next, Scan, FetchPage, FetchEmptyPage, FetchFails, PagesExhausted,
                    MergeItem, BadItem, CheckCursor
    <2>1. /\ store[p] # None
          /\ store'[p] = store[p]
          /\ p <= after => store[p] \in delivered
          /\ pc = "items" /\ p <= cursor => store[p] \in delivered \cup batch
          /\ outcome = "ok" => store[p] \in delivered
        BY <2>0 DEF server, BehindCursor
    <2>2. CASE FetchPage
        <3>1. PICK last \in Ahead :
                 /\ batch' = {store[q] : q \in {q \in Ahead : q <= last}}
                 /\ cursor' \in 0..after \cup {last}
            BY <2>2 DEF FetchPage
        <3>2. UNCHANGED <<after, delivered, outcome>>
            BY <2>2 DEF FetchPage
        <3>3. p <= cursor' => p <= after \/ (p \in Ahead /\ p <= last)
            BY <1>0, <2>1, <3>1 DEF Ahead
        <3>4. QED
            BY <2>1, <3>1, <3>2, <3>3
    <2>3. CASE FetchEmptyPage
        <3>1. p <= after
            BY <1>0, <2>1, <2>3 DEF FetchEmptyPage, Ahead
        <3>2. QED
            BY <2>1, <2>3, <3>1 DEF FetchEmptyPage, End
    <2>4. CASE FetchFails \/ PagesExhausted \/ BadItem
        BY <2>1, <2>4 DEF FetchFails, PagesExhausted, BadItem, End
    <2>5. CASE MergeItem
        BY <2>1, <2>5 DEF MergeItem
    <2>6. CASE CheckCursor
        BY <2>1, <2>6 DEF CheckCursor, Advance, End
    <2>7. QED
        BY <1>2, <2>2, <2>3, <2>4, <2>5, <2>6 DEF Next, Scan
<1>3. CASE UNCHANGED vars
    BY <1>3 DEF vars, BehindCursor
<1>4. QED
    BY <1>1, <1>2, <1>3

\* The inductive invariant holds throughout.
THEOREM ScanInvariant == Spec => []ScanInv
<1>1. ScanInv /\ [Next]_vars => ScanInv'
    BY TypeStep, MergedStep, BehindStep DEF ScanInv
<1>2. QED
    BY InitScanInv, <1>1, PTL DEF Spec

\* What a scan reports of an identity is the newest of what was delivered for it
\* in each direction, whatever the order of pages and items.
THEOREM MergeIgnoresOrder == Spec => []MergedIsNewest
BY ScanInvariant, PTL DEF ScanInv

\* Records that contradict each other are never merged into one.
THEOREM ConflictsAreNeverHidden == Spec => []NoConflictHidden
BY ScanInvariant, PTL DEF ScanInv

\* A scan that ends cleanly covers every record that stayed in its place.
THEOREM CleanScansAreComplete == Spec => []CleanScanIsComplete
<1>1. ScanInv => CleanScanIsComplete
    BY DEF ScanInv, BehindCursor, MergedIsNewest, CleanScanIsComplete
<1>2. QED
    BY ScanInvariant, <1>1, PTL

-----------------------------------------------------------------------------
(* How long a scan can be *)

\* A page lists no more records than there are cursors, and has been asked for.
BatchInv ==
    /\ IsFiniteSet(batch) /\ Cardinality(batch) <= Last
    /\ pc = "items" => pages > 0

\* The steps a scan may still take: a request that is answered, an item of its page
\* after the other, and the look at the cursor, for every page that is left.
StepsLeft ==
    IF pc = "done" THEN 0
    ELSE (MaxPages - pages) * (Last + 2)
         + (IF pc = "request" THEN 1 ELSE Cardinality(batch) + 2)

StepBound == MaxPages * (Last + 2) + 1

\* What a page lists is a finite set, no larger than the range of its cursors.
LEMMA PageIsFinite ==
    ASSUME TypeOK, NEW last \in Positions
    PROVE  LET page == {store[p] : p \in {q \in Ahead : q <= last}}
           IN  IsFiniteSet(page) /\ Cardinality(page) <= Last
<1> DEFINE S == {q \in Ahead : q <= last}
           T == {store[p] : p \in S}
           f == [p \in S |-> store[p]]
<1>1. IsFiniteSet(Positions) /\ Cardinality(Positions) = Last
    <2>1. Last \in Nat
        BY ScanAssumption
    <2>2. QED
        BY <2>1, FS_Interval DEF Positions
<1>2. S \subseteq Positions
    BY DEF Ahead
<1>3. IsFiniteSet(S) /\ Cardinality(S) <= Last
    BY <1>1, <1>2, FS_Subset
<1>4. f \in Surjection(S, T)
    BY DEF Surjection
<1>5. IsFiniteSet(T) /\ Cardinality(T) <= Cardinality(S)
    BY <1>3, <1>4, FS_Surjection
<1>6. Cardinality(T) \in Nat /\ Cardinality(S) \in Nat
    BY <1>3, <1>5, FS_CardinalityType
<1>7. QED
    BY <1>3, <1>5, <1>6, ScanAssumption

\* Every step leaves a page of that size behind.
LEMMA BatchStep == TypeOK /\ BatchInv /\ [Next]_vars => BatchInv'
<1> SUFFICES ASSUME TypeOK, BatchInv, [Next]_vars PROVE BatchInv'
    OBVIOUS
<1>0. pages \in Nat
    BY DEF TypeOK
<1>1. CASE FetchPage
    <2>1. PICK last \in Ahead : batch' = {store[p] : p \in {q \in Ahead : q <= last}}
        BY <1>1 DEF FetchPage
    <2>2. last \in Positions
        BY <2>1 DEF Ahead
    <2>3. IsFiniteSet(batch') /\ Cardinality(batch') <= Last
        BY <2>1, <2>2, PageIsFinite
    <2>4. pages' > 0
        BY <1>0, <1>1 DEF FetchPage
    <2>5. QED
        BY <2>3, <2>4 DEF BatchInv
<1>2. CASE MergeItem
    <2>1. PICK it \in batch : batch' = batch \ {it}
        BY <1>2 DEF MergeItem
    <2>2. IsFiniteSet(batch') /\ Cardinality(batch') = Cardinality(batch) - 1
        BY <2>1, FS_RemoveElement DEF BatchInv
    <2>3. Cardinality(batch) \in Nat /\ Last \in Nat
        BY FS_CardinalityType, ScanAssumption DEF BatchInv
    <2>4. Cardinality(batch') <= Last
        BY <2>2, <2>3 DEF BatchInv
    <2>5. QED
        BY <1>2, <2>2, <2>4 DEF MergeItem, BatchInv
<1>3. CASE UNCHANGED <<batch, pages>> /\ (pc' = "items" => pc = "items")
    BY <1>3 DEF BatchInv
<1>4. QED
    BY <1>1, <1>2, <1>3 DEF Next, Scan, FetchEmptyPage, FetchFails, PagesExhausted, BadItem,
        CheckCursor, Advance, End, GraphChanges, client, vars

\* The steps left are a number, and none are left exactly if the scan has ended.
LEMMA StepsLeftType ==
    ASSUME TypeOK, BatchInv
    PROVE  /\ StepsLeft \in 0..StepBound
           /\ StepsLeft = 0 <=> outcome # "running"
<1>1. PICK n \in Nat : n = Cardinality(batch)
    BY FS_CardinalityType DEF BatchInv
<1>2. PICK l \in Nat : l = Last + 2 /\ n + 2 <= l
    BY <1>1, ScanAssumption DEF BatchInv
<1>3. PICK k \in Nat : k = MaxPages - pages /\ k <= MaxPages
    BY ScanAssumption DEF TypeOK
<1>4. StepsLeft = IF pc = "done" THEN 0 ELSE k * l + (IF pc = "request" THEN 1 ELSE n + 2)
    BY <1>1, <1>2, <1>3 DEF StepsLeft
<1>5. pc \in {"request", "items", "done"} /\ (outcome = "running" <=> pc # "done")
    BY DEF TypeOK
<1>6. PICK m \in Nat : m = MaxPages
    BY ScanAssumption
<1>7. k * l \in Nat /\ k * l <= m * l /\ (k < m => k * l + l <= m * l)
    BY <1>2, <1>3, <1>6
<1>8. pc = "items" => k < m
    BY <1>3, <1>6 DEF TypeOK, BatchInv
<1>9. StepBound = m * l + 1
    BY <1>2, <1>6 DEF StepBound
<1>10. QED
    BY <1>2, <1>3, <1>4, <1>5, <1>6, <1>7, <1>8, <1>9

\* Whatever the node answers, and whatever happens to its graph meanwhile, each step
\* of the scan leaves fewer steps to take.
LEMMA StepsGetFewer ==
    ASSUME TypeOK, BatchInv, BatchInv', [Next]_vars, client' # client
    PROVE  StepsLeft' < StepsLeft
<1>1. PICK n \in Nat : n = Cardinality(batch)
    BY FS_CardinalityType DEF BatchInv
<1>2. PICK m \in Nat : m = Cardinality(batch')
    BY FS_CardinalityType DEF BatchInv
<1>3. PICK l \in Nat : l = Last + 2 /\ m + 2 <= l
    BY <1>2, ScanAssumption DEF BatchInv
<1>4. pages \in Nat /\ MaxPages \in Nat /\ pages <= MaxPages
    BY ScanAssumption DEF TypeOK
<1>5. PICK k \in Nat : k = MaxPages - pages
    BY <1>4
<1>6. k * l \in Nat
    BY <1>3, <1>5
<1>7. StepsLeft = IF pc = "done" THEN 0 ELSE k * l + (IF pc = "request" THEN 1 ELSE n + 2)
    BY <1>1, <1>3, <1>5 DEF StepsLeft
<1>8. CASE FetchPage
    <2>1. pages + 1 <= MaxPages /\ pages' = pages + 1 /\ pc' = "items" /\ pc = "request"
        BY <1>4, <1>8 DEF FetchPage, Requesting
    <2>2. PICK j \in Nat : j = MaxPages - pages' /\ j + 1 = k
        BY <1>4, <1>5, <2>1
    <2>3. j * l \in Nat /\ k * l = j * l + l
        BY <1>3, <2>2
    <2>4. StepsLeft' = j * l + m + 2
        BY <1>2, <1>3, <2>1, <2>2, <2>3 DEF StepsLeft
    <2>5. QED
        BY <1>3, <1>7, <2>1, <2>3, <2>4
<1>9. CASE FetchEmptyPage \/ FetchFails \/ PagesExhausted \/ BadItem
    <2>1. pc' = "done" /\ pc # "done"
        BY <1>9 DEF FetchEmptyPage, FetchFails, PagesExhausted, BadItem, End, Requesting
    <2>2. StepsLeft' = 0
        BY <2>1 DEF StepsLeft
    <2>3. QED
        BY <1>1, <1>6, <1>7, <2>1, <2>2
<1>10. CASE MergeItem
    <2>1. /\ pc = "items" /\ pc' = "items" /\ pages' = pages
          /\ \E it \in batch : batch' = batch \ {it}
        BY <1>10 DEF MergeItem
    <2>2. m = n - 1
        BY <1>1, <1>2, <2>1, FS_RemoveElement DEF BatchInv
    <2>3. StepsLeft' = k * l + m + 2
        BY <1>2, <1>3, <1>5, <1>6, <2>1 DEF StepsLeft
    <2>4. QED
        BY <1>1, <1>2, <1>6, <1>7, <2>1, <2>2, <2>3
<1>11. CASE CheckCursor
    <2>1. pc = "items" /\ pages' = pages /\ pc' \in {"request", "done"}
        BY <1>11 DEF CheckCursor, Advance, End
    <2>2. StepsLeft' = IF pc' = "done" THEN 0 ELSE k * l + 1
        BY <1>3, <1>5, <2>1 DEF StepsLeft
    <2>3. QED
        BY <1>1, <1>6, <1>7, <2>1, <2>2
<1>12. QED
    BY <1>8, <1>9, <1>10, <1>11 DEF Next, Scan, GraphChanges, client, vars

\* A scan is over after at most StepBound of its own steps, even if the node keeps
\* inserting records or answering in circles: each step leaves fewer to take, the
\* changes of the graph give it no further ones, and when none is left it has ended.
THEOREM ScansAreBounded ==
    Spec => /\ [](StepsLeft \in 0..StepBound)
            /\ [](StepsLeft = 0 <=> outcome # "running")
            /\ [][StepsLeft' < StepsLeft]_client
<1>1. Init => BatchInv
    BY ScanAssumption, FS_EmptySet DEF Init, BatchInv
<1>2. TypeOK /\ BatchInv /\ [Next]_vars => BatchInv'
    BY BatchStep
<1>3. Spec => []TypeOK
    BY ScanInvariant, PTL DEF ScanInv
<1>4. Spec => []BatchInv
    BY <1>1, <1>2, <1>3, PTL DEF Spec
<1>5. TypeOK /\ BatchInv => StepsLeft \in 0..StepBound
    BY StepsLeftType
<1>6. TypeOK /\ BatchInv => (StepsLeft = 0 <=> outcome # "running")
    BY StepsLeftType
<1>7. TypeOK /\ BatchInv /\ BatchInv' /\ [Next]_vars => [StepsLeft' < StepsLeft]_client
    BY StepsGetFewer
<1>8. QED
    BY <1>3, <1>4, <1>5, <1>6, <1>7, PTL DEF Spec
=============================================================================
