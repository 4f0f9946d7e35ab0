--------------------------- MODULE AggregateReader ---------------------------
(***************************************************************************)
(* AggregateReader.poll: the gossip aggregates of node.log, read while fnn *)
(* appends to it.  Polling takes the size and reads in two steps, and what *)
(* it reads may stop anywhere in a line.                                   *)
(*                                                                         *)
(* GraphSyncMonitor takes ReadLog for one step that sees every complete    *)
(* line once; this module is about why it may.                             *)
(***************************************************************************)
EXTENDS Integers, Sequences, FiniteSets, FiniteSetsExt

CONSTANTS
    MaxBytes,    \* MAX_NODE_LOG_BYTES
    MaxWritten,  \* bound on the length of the log
    MaxCuts      \* bound on the truncations of the log

ASSUME ReaderAssumption ==
    /\ MaxBytes \in Nat
    /\ MaxWritten \in Nat
    /\ MaxCuts \in Nat

None == << >>

\* A line holds an aggregate if it has "fin" or "act", which stand for the text
\* of one with finished > 0 or not up to the first digit of its last number.
\* "digit" is a further digit: a line cut before it holds another aggregate.
Symbols == {"fin", "act", "digit", "newline"}

VARIABLES
    log,           \* the bytes of node.log; a missing file reads as none
    cuts,          \* how often it was truncated
    lost,          \* history: bytes already read were cut off
    pc,            \* "idle", "open" between size and read, or "raised"
    size,          \* the size taken, 0 when it is not needed any more
    offset,        \* bytes read
    carry,         \* _carry, the partial trailing line
    latest,        \* the last aggregate, None at first
    seq,           \* how many there were
    everFinished,  \* one had finished > 0
    capped

vars == <<log, cuts, lost, pc, size, offset, carry, latest, seq, everFinished, capped>>

file == <<log, cuts, lost>>
parsed == <<offset, carry, latest, seq, everFinished>>

-----------------------------------------------------------------------------
(* Lines and aggregates *)

Newlines(bytes) == {i \in DOMAIN bytes : bytes[i] = "newline"}

LastNewline(bytes, before) ==
    Max({0} \cup {i \in Newlines(bytes) : i < before})

\* raw.split(b"\n"): the line that the newline at i ends, and what is left over.
LineAt(bytes, i) == SubSeq(bytes, LastNewline(bytes, i) + 1, i - 1)

LeftOver(bytes) == SubSeq(bytes, LastNewline(bytes, Len(bytes) + 1) + 1, Len(bytes))

\* _AGG_RE.search: the first aggregate of a line with all its digits.
Match(line) ==
    LET starts == {i \in DOMAIN line : line[i] \in {"fin", "act"}}
        first == Min(starts)
        \* where the digits that follow it end
        end == Max({j \in first..Len(line) :
                      \A i \in (first + 1)..j : line[i] = "digit"})
    IN  IF starts = {} THEN None ELSE SubSeq(line, first, end)

\* The newlines of the lines that hold an aggregate.
Matches(bytes) == {i \in Newlines(bytes) : Match(LineAt(bytes, i)) # None}

LastMatch(bytes) == Match(LineAt(bytes, Max(Matches(bytes))))

AnyFinished(bytes) == \E i \in Matches(bytes) : Head(Match(LineAt(bytes, i))) = "fin"

-----------------------------------------------------------------------------
Init ==
    /\ log = << >>
    /\ cuts = 0
    /\ lost = FALSE
    /\ pc = "idle"
    /\ size = 0
    /\ offset = 0
    /\ carry = << >>
    /\ latest = None
    /\ seq = 0
    /\ everFinished = FALSE
    /\ capped = FALSE

\* fnn writes.
Write ==
    /\ Len(log) < MaxWritten
    /\ \E s \in Symbols : log' = Append(log, s)
    /\ UNCHANGED <<cuts, lost, pc, size, parsed, capped>>

\* Something truncates the file.
Truncate ==
    /\ cuts < MaxCuts
    /\ cuts' = cuts + 1
    /\ \E n \in 0..(Len(log) - 1) :
         /\ log' = SubSeq(log, 1, n)
         /\ lost' = (lost \/ n < offset)
    /\ UNCHANGED <<pc, size, parsed, capped>>

Polling == pc = "idle"

Raise ==
    /\ pc' = "raised"
    /\ UNCHANGED <<file, size, parsed>>

\* os.path.getsize: there is more than was read.
TakeSize ==
    /\ Polling
    /\ Len(log) <= MaxBytes
    /\ Len(log) > offset
    /\ size' = Len(log)
    /\ pc' = "open"
    /\ UNCHANGED <<file, parsed, capped>>

TooLarge ==
    /\ Polling
    /\ Len(log) > MaxBytes
    /\ capped' = TRUE
    /\ Raise

Shrank ==
    /\ Polling
    /\ Len(log) <= MaxBytes
    /\ Len(log) < offset
    /\ Raise
    /\ UNCHANGED capped

\* Mutated form: a line begun in the chunk before is not completed.
ParseAlone(chunk) ==
    /\ carry' = LeftOver(chunk)
    /\ seq' = seq + Cardinality(Matches(chunk))
    /\ latest' = IF Matches(chunk) = {} THEN latest ELSE LastMatch(chunk)
    /\ everFinished' = (everFinished \/ AnyFinished(chunk))

\* Parse chunk, the bytes read from offset on.
Parse(chunk) ==
    LET raw == carry \o chunk IN
    /\ carry' = LeftOver(raw)
    /\ seq' = seq + Cardinality(Matches(raw))
    /\ latest' = IF Matches(raw) = {} THEN latest ELSE LastMatch(raw)
    /\ everFinished' = (everFinished \/ AnyFinished(raw))

\* Mutated form: the offset is set to the size taken before the read.
ReadFromSize ==
    /\ pc = "open"
    /\ Parse(SubSeq(log, offset + 1, Len(log)))
    /\ offset' = size
    /\ pc' = "idle"
    /\ size' = 0
    /\ UNCHANGED <<file, capped>>

\* seek, read to the end of file, tell: the file may have grown meanwhile.
Read ==
    /\ pc = "open"
    /\ Parse(SubSeq(log, offset + 1, Len(log)))
    /\ offset' = Max({offset, Len(log)})
    /\ pc' = "idle"
    /\ size' = 0
    /\ UNCHANGED <<file, capped>>

Next == Write \/ Truncate \/ TakeSize \/ TooLarge \/ Shrank \/ Read

Spec == Init /\ [][Next]_vars

-----------------------------------------------------------------------------
(* Properties *)

\* The type invariant, and what is carried is the open line at the offset.
ReaderInv ==
    /\ log \in Seq(Symbols)
    /\ offset \in Nat
    /\ size \in Nat
    /\ seq \in Nat
    /\ pc \in {"idle", "open", "raised"}
    /\ capped => pc = "raised"
    /\ ~lost => /\ offset <= Len(log)
                /\ carry = LeftOver(SubSeq(log, 1, offset))

\* Wherever the reads divided the log and however it grew between the size and
\* the read, the reader has seen each complete line before its offset exactly
\* once and whole: its count, its last aggregate and "once finished" are those
\* of the file read in one piece.  Nothing is said once bytes it had read were
\* cut off: a log that grew back past the offset cannot be told from a longer one.
EveryLineOnce ==
    ~lost =>
        LET read == SubSeq(log, 1, offset) IN
        /\ seq = Cardinality(Matches(read))
        /\ latest = IF Matches(read) = {} THEN None ELSE LastMatch(read)
        /\ everFinished = AnyFinished(read)
=============================================================================
