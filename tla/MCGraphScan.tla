---------------------------- MODULE MCGraphScan ----------------------------
(* Small instances of GraphScan for TLC. *)
EXTENDS GraphScan

CONSTANTS k1, k2, ident, other

U(t, c) == [timestamp |-> t, canon |-> c]

\* A tie on the timestamp and a later one.
MCUpdates == {U(1, 1), U(1, 2), U(2, 1)}

MCNodeRecords == [id : {k1}, update : MCUpdates] \cup [id : {k2}, update : {U(1, 1)}]

\* For k1: either direction newer, a tie, an absent direction, a record
\* without the optional identity and one that contradicts the others.
MCChannelRecords ==
    [id : {k1}, ident : {ident}, update1 : {None, U(1, 2)}, update2 : {U(1, 1), U(2, 1)}]
    \cup [id : {k1}, ident : {None, other}, update1 : {U(1, 1)}, update2 : {None}]
    \cup [id : {k2}, ident : {ident}, update1 : {U(1, 1)}, update2 : {None}]
=============================================================================
