------------------------ MODULE AggregateReaderProofs ------------------------
(***************************************************************************)
(* Proofs about AggregateReader for every log, however long, and every way *)
(* the reads divide it.                                                    *)
(***************************************************************************)
EXTENDS AggregateReader, FunctionTheorems, FiniteSetTheorems, SequenceTheorems, TLAPS

Bytes == Seq(Symbols)

-----------------------------------------------------------------------------
(* The last newline of a sequence of bytes *)

\* A set of numbers with a bound has a greatest one.
LEMMA MaxFacts ==
    ASSUME NEW S \in SUBSET Nat, S # {}, NEW b \in Nat, \A x \in S : x <= b
    PROVE  Max(S) \in S /\ \A x \in S : x <= Max(S)
<1> DEFINE T == {b - x : x \in S}
           less == OpToRel(<, Nat)
<1>1. T \subseteq Nat /\ T # {}
    <2>1. \A x \in S : b - x \in Nat
        OBVIOUS
    <2>2. QED
        BY <2>1
<1>2. PICK t \in T : \A u \in T : ~(<<u, t>> \in less)
    <2> HIDE DEF T, less
    <2>1. IsWellFoundedOn(less, Nat)
        BY NatLessThanWellFounded DEF less
    <2>2. QED
        BY <1>1, <2>1, WFMin, Zenon
<1>3. \A u \in T : t <= u
    <2>1. less = {ss \in Nat \X Nat : ss[1] < ss[2]}
        BY Zenon DEF OpToRel
    <2> HIDE DEF T, less
    <2>2. \A u \in T : u \in Nat /\ t \in Nat /\ ~(u < t)
        BY <1>1, <1>2, <2>1
    <2>3. QED
        BY <2>2
<1>4. PICK m \in S : t = b - m
    OBVIOUS
<1>5. \A x \in S : m >= x
    <2>1. TAKE x \in S
    <2>2. b - m <= b - x
        BY <1>3, <1>4
    <2>3. QED
        BY <2>2
<1>6. QED
    <2>1. Max(S) \in S /\ \A x \in S : Max(S) >= x
        BY <1>5 DEF Max
    <2>2. QED
        BY <2>1

\* The greatest element is the only one with its properties.
LEMMA MaxIs ==
    ASSUME NEW S \in SUBSET Nat, NEW m \in S, \A x \in S : x <= m
    PROVE  Max(S) = m
<1>1. m \in Nat /\ S # {}
    OBVIOUS
<1>2. Max(S) \in S /\ \A x \in S : x <= Max(S)
    BY <1>1, MaxFacts
<1>3. Max(S) \in Nat /\ Max(S) <= m /\ m <= Max(S)
    BY <1>2
<1>4. QED
    BY <1>1, <1>3

\* LastNewline is the last newline before a place, 0 when there is none.
LEMMA LastNewlineFacts ==
    ASSUME NEW bytes \in Bytes, NEW before \in 1 .. (Len(bytes) + 1)
    PROVE  /\ LastNewline(bytes, before) \in 0 .. (before - 1)
           /\ LastNewline(bytes, before) \in {0} \cup Newlines(bytes)
           /\ \A i \in Newlines(bytes) : i < before => i <= LastNewline(bytes, before)
<1> DEFINE S == {0} \cup {i \in Newlines(bytes) : i < before}
<1>1. DOMAIN bytes = 1 .. Len(bytes) /\ Len(bytes) \in Nat
    BY DEF Bytes
<1>2. S \in SUBSET Nat /\ S # {} /\ \A x \in S : x <= before - 1
    BY <1>1 DEF Newlines
<1>3. before - 1 \in Nat
    BY <1>1
<1>4. Max(S) \in S /\ \A x \in S : x <= Max(S)
    <2> HIDE DEF S
    <2>1. QED
        BY <1>2, <1>3, MaxFacts
<1>5. QED
    BY <1>2, <1>4 DEF LastNewline

\* And the only place that is.
LEMMA LastNewlineIs ==
    ASSUME NEW bytes \in Bytes, NEW before \in 1 .. (Len(bytes) + 1),
           NEW m \in {0} \cup Newlines(bytes), m < before,
           \A i \in Newlines(bytes) : i < before => i <= m
    PROVE  LastNewline(bytes, before) = m
<1> DEFINE S == {0} \cup {i \in Newlines(bytes) : i < before}
<1>1. DOMAIN bytes = 1 .. Len(bytes) /\ Len(bytes) \in Nat
    BY DEF Bytes
<1>2. S \in SUBSET Nat /\ m \in S /\ \A x \in S : x <= m
    BY <1>1 DEF Newlines
<1>3. Max(S) = m
    <2> HIDE DEF S
    <2>1. QED
        BY <1>2, MaxIs
<1>4. QED
    BY <1>3 DEF LastNewline

-----------------------------------------------------------------------------
(* What is carried over, and the bytes that follow it *)

\* Where the line begins that p leaves open.
OpenAt(p) == LastNewline(p, Len(p) + 1)

\* The carried bytes are those of p after its last newline.
LEMMA LeftOverIs ==
    ASSUME NEW p \in Bytes
    PROVE  /\ OpenAt(p) \in 0 .. Len(p)
           /\ OpenAt(p) \in {0} \cup Newlines(p)
           /\ \A i \in Newlines(p) : i <= OpenAt(p)
           /\ LeftOver(p) \in Bytes
           /\ Len(LeftOver(p)) = Len(p) - OpenAt(p)
           /\ \A i \in 1 .. Len(LeftOver(p)) : LeftOver(p)[i] = p[OpenAt(p) + i]
<1> DEFINE L == OpenAt(p)
<1>1. Len(p) \in Nat /\ DOMAIN p = 1 .. Len(p) /\ \A i \in 1 .. Len(p) : p[i] \in Symbols
    BY ElementOfSeq, LenProperties DEF Bytes
<1>2. /\ L \in 0 .. Len(p)
      /\ L \in {0} \cup Newlines(p)
      /\ \A i \in Newlines(p) : i < Len(p) + 1 => i <= L
    BY <1>1, LastNewlineFacts DEF OpenAt
<1>3. \A i \in Newlines(p) : i <= L
    BY <1>1, <1>2 DEF Newlines
<1>4. LeftOver(p) = SubSeq(p, L + 1, Len(p))
    BY DEF LeftOver, OpenAt
<1> HIDE DEF L
<1>5. /\ LeftOver(p) \in Bytes
      /\ Len(LeftOver(p)) = IF L + 1 <= Len(p) THEN Len(p) - (L + 1) + 1 ELSE 0
      /\ \A i \in 1 .. (Len(p) - (L + 1) + 1) : LeftOver(p)[i] = p[(L + 1) + i - 1]
    <2>1. L + 1 \in Int /\ \A i \in (L + 1) .. Len(p) : p[i] \in Symbols
        BY <1>1, <1>2
    <2>2. QED
        BY <1>1, <1>4, <2>1, SubSeqProperties DEF Bytes
<1>6. Len(LeftOver(p)) = Len(p) - L
    <2>1. CASE L + 1 <= Len(p)
        BY <1>1, <1>2, <1>5, <2>1
    <2>2. CASE L = Len(p)
        BY <1>1, <1>2, <1>5, <2>2
    <2>3. L \in Nat /\ Len(p) \in Nat /\ L <= Len(p)
        BY <1>1, <1>2
    <2>4. L + 1 <= Len(p) \/ L = Len(p)
        BY <2>3
    <2>5. QED
        BY <2>1, <2>2, <2>4
<1>7. \A i \in 1 .. Len(LeftOver(p)) : LeftOver(p)[i] = p[L + i]
    <2>1. TAKE i \in 1 .. Len(LeftOver(p))
    <2>2. i \in 1 .. (Len(p) - (L + 1) + 1) /\ (L + 1) + i - 1 = L + i
        BY <1>1, <1>2, <1>6
    <2>3. LeftOver(p)[i] = p[(L + 1) + i - 1]
        BY <1>5, <2>2
    <2>4. QED
        BY <2>2, <2>3
<1>8. QED
    BY <1>2, <1>3, <1>5, <1>6, <1>7 DEF L

\* The parts of a log: p was read, chunk follows it, raw is what Parse works on.
Shifted(p, raw, full) ==
    /\ p \in Bytes /\ raw \in Bytes /\ full \in Bytes
    /\ Len(p) \in Nat /\ Len(raw) \in Nat
    /\ OpenAt(p) \in 0 .. Len(p)
    /\ OpenAt(p) \in {0} \cup Newlines(p)
    /\ \A i \in Newlines(p) : i <= OpenAt(p)
    /\ Len(full) = OpenAt(p) + Len(raw) /\ Len(p) <= Len(full)
    /\ \A i \in 1 .. Len(p) : full[i] = p[i]
    /\ \A j \in 1 .. Len(raw) : full[OpenAt(p) + j] = raw[j]

\* raw is the log from the open line on.
LEMMA RawIsShifted ==
    ASSUME NEW p \in Bytes, NEW chunk \in Bytes
    PROVE  Shifted(p, LeftOver(p) \o chunk, p \o chunk)
<1> DEFINE c == LeftOver(p)
           L == OpenAt(p)
           raw == c \o chunk
           full == p \o chunk
<1>1. /\ L \in 0 .. Len(p)
      /\ L \in {0} \cup Newlines(p)
      /\ \A i \in Newlines(p) : i <= L
      /\ c \in Bytes
      /\ Len(c) = Len(p) - L
      /\ \A i \in 1 .. Len(c) : c[i] = p[L + i]
    BY LeftOverIs
<1> HIDE DEF c, L
<1>2. /\ full \in Bytes /\ Len(full) = Len(p) + Len(chunk)
      /\ \A i \in 1 .. (Len(p) + Len(chunk)) :
             full[i] = IF i <= Len(p) THEN p[i] ELSE chunk[i - Len(p)]
    BY ConcatProperties DEF Bytes
<1>3. /\ raw \in Bytes /\ Len(raw) = Len(c) + Len(chunk)
      /\ \A i \in 1 .. (Len(c) + Len(chunk)) :
             raw[i] = IF i <= Len(c) THEN c[i] ELSE chunk[i - Len(c)]
    BY <1>1, ConcatProperties DEF Bytes
<1>4. Len(p) \in Nat /\ Len(chunk) \in Nat /\ Len(c) \in Nat
    BY <1>1, LenProperties DEF Bytes
<1> HIDE DEF raw, full
<1>5. Len(full) = L + Len(raw) /\ Len(p) <= Len(full) /\ Len(raw) \in Nat
    BY <1>1, <1>2, <1>3, <1>4
<1>6. \A i \in 1 .. Len(p) : full[i] = p[i]
    BY <1>2, <1>4
<1>7. \A j \in 1 .. Len(raw) : full[L + j] = raw[j]
    <2>1. TAKE j \in 1 .. Len(raw)
    <2>2. CASE j <= Len(c)
        <3>1. raw[j] = c[j] /\ c[j] = p[L + j]
            BY <1>1, <1>3, <1>4, <2>2
        <3>2. L + j \in 1 .. Len(p)
            BY <1>1, <1>4, <2>2
        <3>3. QED
            BY <1>6, <3>1, <3>2
    <2>3. CASE j > Len(c)
        <3>1. raw[j] = chunk[j - Len(c)]
            BY <1>3, <1>4, <2>3
        <3>2. /\ L + j \in 1 .. (Len(p) + Len(chunk)) /\ ~(L + j <= Len(p))
              /\ (L + j) - Len(p) = j - Len(c)
            BY <1>1, <1>3, <1>4, <2>3
        <3>3. QED
            BY <1>2, <3>1, <3>2
    <2>4. QED
        BY <1>4, <1>5, <2>2, <2>3
<1>8. QED
    BY <1>1, <1>2, <1>3, <1>4, <1>5, <1>6, <1>7 DEF Shifted, c, L, raw, full

\* The newlines of the log are those of p and, at their places, those of raw.
LEMMA NewlinesOf ==
    ASSUME NEW p, NEW raw, NEW full, Shifted(p, raw, full)
    PROVE  /\ \A i \in 1 .. OpenAt(p) : i \in Newlines(full) <=> i \in Newlines(p)
           /\ \A j \in 1 .. Len(raw) : OpenAt(p) + j \in Newlines(full) <=> j \in Newlines(raw)
           /\ Newlines(p) \subseteq 1 .. OpenAt(p)
           /\ Newlines(raw) \subseteq 1 .. Len(raw)
           /\ Newlines(full) \subseteq 1 .. Len(full)
           /\ OpenAt(p) \in {0} \cup Newlines(full)
<1>1. /\ DOMAIN p = 1 .. Len(p) /\ DOMAIN raw = 1 .. Len(raw) /\ DOMAIN full = 1 .. Len(full)
    BY LenProperties DEF Shifted, Bytes
<1>2. \A i \in 1 .. OpenAt(p) : i \in Newlines(full) <=> i \in Newlines(p)
    <2>1. \A i \in 1 .. OpenAt(p) : i \in 1 .. Len(p) /\ i \in 1 .. Len(full)
        BY DEF Shifted
    <2>2. QED
        BY <1>1, <2>1 DEF Shifted, Newlines
<1>3. \A j \in 1 .. Len(raw) : OpenAt(p) + j \in Newlines(full) <=> j \in Newlines(raw)
    <2>1. \A j \in 1 .. Len(raw) : OpenAt(p) + j \in 1 .. Len(full)
        BY DEF Shifted
    <2>2. QED
        BY <1>1, <2>1 DEF Shifted, Newlines
<1>4. Newlines(p) \subseteq 1 .. OpenAt(p)
    BY <1>1 DEF Shifted, Newlines
<1>5. Newlines(raw) \subseteq 1 .. Len(raw) /\ Newlines(full) \subseteq 1 .. Len(full)
    BY <1>1 DEF Newlines
<1>6. OpenAt(p) \in {0} \cup Newlines(full)
    BY <1>2, <1>4 DEF Shifted
<1>7. QED
    BY <1>2, <1>3, <1>4, <1>5, <1>6

\* Parts of two sequences are the same when their bytes are, d places apart.
LEMMA MovedSubSeq ==
    ASSUME NEW s \in Bytes, NEW t \in Bytes, NEW d \in Nat, NEW a \in Nat, NEW b \in Int,
           \A k \in (a + 1) .. b : t[k] \in Symbols /\ s[d + k] = t[k]
    PROVE  SubSeq(s, (d + a) + 1, d + b) = SubSeq(t, a + 1, b)
<1> DEFINE u == SubSeq(s, (d + a) + 1, d + b)
           v == SubSeq(t, a + 1, b)
<1>1. (d + a) + 1 \in Int /\ d + b \in Int /\ a + 1 \in Int
    OBVIOUS
<1>2. \A k \in ((d + a) + 1) .. (d + b) : s[k] \in Symbols
    <2>1. TAKE k \in ((d + a) + 1) .. (d + b)
    <2>2. k - d \in (a + 1) .. b /\ d + (k - d) = k
        OBVIOUS
    <2>3. QED
        BY <2>2
<1>3. /\ u \in Bytes
      /\ Len(u) = IF (d + a) + 1 <= d + b THEN (d + b) - ((d + a) + 1) + 1 ELSE 0
      /\ \A k \in 1 .. ((d + b) - ((d + a) + 1) + 1) : u[k] = s[((d + a) + 1) + k - 1]
    BY <1>1, <1>2, SubSeqProperties DEF Bytes
<1>4. /\ v \in Bytes
      /\ Len(v) = IF a + 1 <= b THEN b - (a + 1) + 1 ELSE 0
      /\ \A k \in 1 .. (b - (a + 1) + 1) : v[k] = t[(a + 1) + k - 1]
    BY <1>1, SubSeqProperties DEF Bytes
<1> HIDE DEF u, v
<1>5. Len(u) = Len(v)
    BY <1>3, <1>4
<1>6. ASSUME NEW k \in 1 .. Len(u)
      PROVE  u[k] = v[k]
    <2>1. /\ k \in Int
          /\ k \in 1 .. ((d + b) - ((d + a) + 1) + 1) /\ k \in 1 .. (b - (a + 1) + 1)
          /\ (a + 1) + k - 1 \in (a + 1) .. b
          /\ ((d + a) + 1) + k - 1 = d + ((a + 1) + k - 1)
        BY <1>3
    <2>2. u[k] = s[d + ((a + 1) + k - 1)] /\ v[k] = t[(a + 1) + k - 1]
        BY <1>3, <1>4, <2>1
    <2>3. QED
        BY <2>1, <2>2
<1>7. u = v
    BY <1>3, <1>4, <1>5, <1>6, SeqEqual DEF Bytes
<1>8. QED
    BY <1>7 DEF u, v

\* The same with both at their own places.
LEMMA SameSubSeq ==
    ASSUME NEW s \in Bytes, NEW t \in Bytes, NEW a \in Nat, NEW b \in Int,
           \A k \in (a + 1) .. b : t[k] \in Symbols /\ s[k] = t[k]
    PROVE  SubSeq(s, a + 1, b) = SubSeq(t, a + 1, b)
<1>1. \A k \in (a + 1) .. b : s[0 + k] = t[k]
    <2>1. \A k \in (a + 1) .. b : 0 + k = k
        OBVIOUS
    <2>2. QED
        BY <2>1
<1>2. SubSeq(s, (0 + a) + 1, 0 + b) = SubSeq(t, a + 1, b)
    BY <1>1, MovedSubSeq
<1>3. (0 + a) + 1 = a + 1 /\ 0 + b = b
    OBVIOUS
<1>4. QED
    BY <1>2, <1>3

\* The line of full that the newline at OpenAt(p) + j ends is that of raw at j,
\* and the lines that end in p are those of p.
LEMMA LinesOf ==
    ASSUME NEW p, NEW raw, NEW full, Shifted(p, raw, full)
    PROVE  /\ \A i \in Newlines(p) : LineAt(full, i) = LineAt(p, i)
           /\ \A j \in Newlines(raw) : LineAt(full, OpenAt(p) + j) = LineAt(raw, j)
           /\ LeftOver(full) = LeftOver(raw)
<1> DEFINE L == OpenAt(p)
<1>1. /\ L \in Nat /\ Len(p) \in Nat /\ Len(raw) \in Nat /\ Len(full) \in Nat
      /\ L <= Len(p) /\ Len(p) <= Len(full) /\ Len(full) = L + Len(raw)
      /\ p \in Bytes /\ raw \in Bytes /\ full \in Bytes
    BY DEF Shifted
<1>2. /\ \A i \in 1 .. L : i \in Newlines(full) <=> i \in Newlines(p)
      /\ \A j \in 1 .. Len(raw) : L + j \in Newlines(full) <=> j \in Newlines(raw)
      /\ Newlines(p) \subseteq 1 .. L
      /\ Newlines(raw) \subseteq 1 .. Len(raw)
      /\ Newlines(full) \subseteq 1 .. Len(full)
      /\ L \in {0} \cup Newlines(full)
    BY NewlinesOf
<1>3. /\ \A i \in 1 .. Len(p) : full[i] = p[i]
      /\ \A j \in 1 .. Len(raw) : full[L + j] = raw[j]
    BY DEF Shifted
<1>4. /\ \A i \in 1 .. Len(p) : p[i] \in Symbols
      /\ \A i \in 1 .. Len(raw) : raw[i] \in Symbols
      /\ \A i \in 1 .. Len(full) : full[i] \in Symbols
    BY <1>1, ElementOfSeq DEF Bytes
<1> HIDE DEF L
<1>5. ASSUME NEW i \in Newlines(p)
      PROVE  LineAt(full, i) = LineAt(p, i)
    <2> DEFINE m == LastNewline(p, i)
    <2>1. i \in 1 .. L /\ i \in 1 .. (Len(p) + 1) /\ i \in 1 .. (Len(full) + 1)
        BY <1>1, <1>2
    <2>2. /\ m \in 0 .. (i - 1) /\ m \in {0} \cup Newlines(p)
          /\ \A k \in Newlines(p) : k < i => k <= m
        BY <1>1, <2>1, LastNewlineFacts
    <2> HIDE DEF m
    <2>3. m \in {0} \cup Newlines(full) /\ m < i
        BY <1>2, <2>1, <2>2
    <2>4. \A k \in Newlines(full) : k < i => k <= m
        BY <1>1, <1>2, <2>1, <2>2
    <2>5. LastNewline(full, i) = m
        BY <1>1, <2>1, <2>3, <2>4, LastNewlineIs
    <2>6. SubSeq(full, m + 1, i - 1) = SubSeq(p, m + 1, i - 1)
        BY <1>1, <1>3, <1>4, <2>1, <2>2, SameSubSeq
    <2>7. QED
        BY <2>5, <2>6 DEF LineAt, m
<1>6. ASSUME NEW j \in 1 .. (Len(raw) + 1)
      PROVE  /\ LastNewline(full, L + j) = L + LastNewline(raw, j)
             /\ SubSeq(full, LastNewline(full, L + j) + 1, (L + j) - 1)
                    = SubSeq(raw, LastNewline(raw, j) + 1, j - 1)
    <2> DEFINE m == LastNewline(raw, j)
    <2>1. L + j \in 1 .. (Len(full) + 1)
        BY <1>1
    <2>2. /\ m \in 0 .. (j - 1) /\ m \in {0} \cup Newlines(raw)
          /\ \A k \in Newlines(raw) : k < j => k <= m
        BY <1>1, LastNewlineFacts
    <2> HIDE DEF m
    <2>3. L + m \in {0} \cup Newlines(full) /\ L + m < L + j
        <3>1. m \in Nat /\ m < j /\ L + 0 = L
            BY <1>1, <2>2
        <3>2. CASE m = 0
            BY <1>1, <1>2, <3>1, <3>2
        <3>3. CASE m \in Newlines(raw)
            BY <1>1, <1>2, <3>1, <3>3
        <3>4. QED
            BY <2>2, <3>2, <3>3
    <2>4. ASSUME NEW k \in Newlines(full), k < L + j
          PROVE  k <= L + m
        <3>1. k \in 1 .. Len(full) /\ m \in Nat
            BY <1>2, <2>2
        <3>2. CASE k <= L
            BY <1>1, <3>1, <3>2
        <3>3. CASE k > L
            <4>1. k - L \in 1 .. Len(raw) /\ L + (k - L) = k /\ k - L < j
                BY <1>1, <2>4, <3>1, <3>3
            <4>2. k - L \in Newlines(raw)
                BY <1>2, <4>1
            <4>3. k - L <= m
                BY <2>2, <4>1, <4>2
            <4>4. QED
                BY <1>1, <3>1, <4>3
        <3>4. QED
            BY <1>1, <3>1, <3>2, <3>3
    <2>5. LastNewline(full, L + j) = L + m
        BY <1>1, <2>1, <2>3, <2>4, LastNewlineIs
    <2>6. SubSeq(full, (L + m) + 1, (L + j) - 1) = SubSeq(raw, m + 1, j - 1)
        BY <1>1, <1>3, <1>4, <2>2, MovedSubSeq
    <2>7. QED
        BY <2>5, <2>6 DEF m
<1>7. ASSUME NEW j \in Newlines(raw)
      PROVE  LineAt(full, L + j) = LineAt(raw, j)
    <2>1. j \in 1 .. (Len(raw) + 1)
        BY <1>1, <1>2
    <2>2. QED
        BY <1>6, <2>1 DEF LineAt
<1>8. LeftOver(full) = LeftOver(raw)
    <2>1. /\ Len(raw) + 1 \in 1 .. (Len(raw) + 1)
          /\ L + (Len(raw) + 1) = Len(full) + 1
          /\ (L + (Len(raw) + 1)) - 1 = Len(full)
          /\ (Len(raw) + 1) - 1 = Len(raw)
        BY <1>1
    <2>2. QED
        BY <1>6, <2>1 DEF LeftOver
<1>9. QED
    BY <1>5, <1>7, <1>8 DEF L

-----------------------------------------------------------------------------
(* The aggregates of the log *)

\* The lines with an aggregate are finitely many, and their newlines are places.
LEMMA MatchesAreFinite ==
    ASSUME NEW b \in Bytes
    PROVE  /\ Len(b) \in Nat
           /\ Matches(b) \subseteq 1 .. Len(b)
           /\ Matches(b) \subseteq Newlines(b)
           /\ IsFiniteSet(Matches(b)) /\ Cardinality(Matches(b)) \in Nat
<1>1. Len(b) \in Nat /\ DOMAIN b = 1 .. Len(b)
    BY LenProperties DEF Bytes
<1>2. Matches(b) \subseteq Newlines(b) /\ Newlines(b) \subseteq 1 .. Len(b)
    BY <1>1, Zenon DEF Matches, Newlines
<1>3. IsFiniteSet(1 .. Len(b))
    BY <1>1, FS_Interval
<1>4. IsFiniteSet(Matches(b))
    BY <1>2, <1>3, FS_Subset
<1>5. Cardinality(Matches(b)) \in Nat
    BY <1>4, FS_CardinalityType
<1>6. QED
    BY <1>1, <1>2, <1>4, <1>5

\* A set moved up by d has as many elements.
LEMMA MovedSet ==
    ASSUME NEW S \in SUBSET Nat, IsFiniteSet(S), NEW d \in Nat
    PROVE  /\ IsFiniteSet({d + x : x \in S})
           /\ Cardinality({d + x : x \in S}) = Cardinality(S)
<1> DEFINE T == {d + x : x \in S}
           f == [x \in S |-> d + x]
<1>1. f \in [S -> T]
    OBVIOUS
<1>2. \A x, y \in S : f[x] = f[y] => x = y
    <2>1. \A x, y \in S : d + x = d + y => x = y
        OBVIOUS
    <2>2. QED
        BY <2>1
<1>3. \A t \in T : \E x \in S : f[x] = t
    OBVIOUS
<1>4. f \in Bijection(S, T)
    <2> HIDE DEF f, T
    <2>1. QED
        BY <1>1, <1>2, <1>3, Zenon DEF Bijection, Injection, Surjection, IsInjective
<1>5. ExistsBijection(S, T)
    BY <1>4, Zenon DEF ExistsBijection
<1> HIDE DEF T
<1>6. IsFiniteSet(T) /\ Cardinality(T) = Cardinality(S)
    BY <1>5, FS_Bijection
<1>7. QED
    BY <1>6 DEF T

\* The aggregates of the log are those of p and those of raw, each once: raw holds
\* the line p leaves open and none of the lines p has ended.
LEMMA MatchesOf ==
    ASSUME NEW p, NEW raw, NEW full, Shifted(p, raw, full)
    PROVE  /\ Matches(full) = Matches(p) \cup {OpenAt(p) + j : j \in Matches(raw)}
           /\ Matches(p) \subseteq 1 .. OpenAt(p)
           /\ \A i \in Matches(p) : LineAt(full, i) = LineAt(p, i)
           /\ \A j \in Matches(raw) : LineAt(full, OpenAt(p) + j) = LineAt(raw, j)
           /\ Cardinality(Matches(full)) = Cardinality(Matches(p)) + Cardinality(Matches(raw))
<1> DEFINE L == OpenAt(p)
           up == {L + j : j \in Matches(raw)}
<1>1. /\ L \in Nat /\ Len(p) \in Nat /\ Len(raw) \in Nat
      /\ p \in Bytes /\ raw \in Bytes /\ full \in Bytes
      /\ Len(full) = L + Len(raw)
    BY DEF Shifted
<1>2. /\ \A i \in 1 .. L : i \in Newlines(full) <=> i \in Newlines(p)
      /\ \A j \in 1 .. Len(raw) : L + j \in Newlines(full) <=> j \in Newlines(raw)
      /\ Newlines(p) \subseteq 1 .. L
      /\ Newlines(raw) \subseteq 1 .. Len(raw)
      /\ Newlines(full) \subseteq 1 .. Len(full)
    BY NewlinesOf
<1>3. /\ \A i \in Newlines(p) : LineAt(full, i) = LineAt(p, i)
      /\ \A j \in Newlines(raw) : LineAt(full, L + j) = LineAt(raw, j)
    BY LinesOf
<1> HIDE DEF L
<1>4. /\ Matches(p) \subseteq Newlines(p) /\ IsFiniteSet(Matches(p))
      /\ Matches(raw) \subseteq Newlines(raw) /\ IsFiniteSet(Matches(raw))
      /\ Matches(full) \subseteq Newlines(full)
      /\ Cardinality(Matches(p)) \in Nat /\ Cardinality(Matches(raw)) \in Nat
    BY <1>1, MatchesAreFinite
<1>5. \A i \in 1 .. L : i \in Matches(full) <=> i \in Matches(p)
    BY <1>2, <1>3, <1>4 DEF Matches
<1>6. \A j \in 1 .. Len(raw) : L + j \in Matches(full) <=> j \in Matches(raw)
    BY <1>2, <1>3, <1>4 DEF Matches
<1>7. Matches(full) = Matches(p) \cup up
    <2>1. ASSUME NEW k \in Matches(full)
          PROVE  k \in Matches(p) \cup up
        <3>1. k \in 1 .. Len(full)
            BY <1>2, <1>4
        <3>2. CASE k <= L
            <4>1. k \in 1 .. L
                BY <1>1, <3>1, <3>2
            <4>2. QED
                BY <1>5, <4>1
        <3>3. CASE k > L
            <4>1. k - L \in 1 .. Len(raw) /\ L + (k - L) = k
                BY <1>1, <3>1, <3>3
            <4>2. QED
                BY <1>6, <4>1
        <3>4. QED
            BY <1>1, <3>1, <3>2, <3>3
    <2>2. Matches(p) \subseteq Matches(full)
        BY <1>2, <1>4, <1>5
    <2>3. up \subseteq Matches(full)
        BY <1>2, <1>4, <1>6
    <2>4. QED
        BY <2>1, <2>2, <2>3
<1>8. Cardinality(Matches(full)) = Cardinality(Matches(p)) + Cardinality(Matches(raw))
    <2>1. IsFiniteSet(up) /\ Cardinality(up) = Cardinality(Matches(raw))
        <3>1. Matches(raw) \in SUBSET Nat
            BY <1>1, <1>2, <1>4
        <3>2. QED
            BY <1>1, <1>4, <3>1, MovedSet
    <2>2. Matches(p) \cap up = {}
        <3>1. \A i \in Matches(p) : i <= L /\ i \in Int
            BY <1>1, <1>2, <1>4
        <3>2. \A j \in Matches(raw) : ~(L + j <= L)
            BY <1>1, <1>2, <1>4
        <3>3. QED
            BY <3>1, <3>2
    <2> HIDE DEF up
    <2>3. Cardinality(Matches(full)) = Cardinality(Matches(p)) + Cardinality(up) - Cardinality({})
        BY <1>4, <1>7, <2>1, <2>2, FS_Union
    <2>4. QED
        BY <1>4, <2>1, <2>3, FS_EmptySet
<1>9. QED
    BY <1>2, <1>3, <1>4, <1>7, <1>8 DEF L

\* With an aggregate in raw the last one of the log is the last one of raw, and
\* without one it is the last one of p.
LEMMA LastMatchOf ==
    ASSUME NEW p, NEW raw, NEW full, Shifted(p, raw, full)
    PROVE  /\ Matches(raw) # {} => Matches(full) # {} /\ LastMatch(full) = LastMatch(raw)
           /\ Matches(raw) = {} => Matches(full) = Matches(p)
           /\ Matches(raw) = {} /\ Matches(p) # {} => LastMatch(full) = LastMatch(p)
           /\ AnyFinished(full) <=> AnyFinished(p) \/ AnyFinished(raw)
<1> DEFINE L == OpenAt(p)
<1>1. /\ L \in Nat /\ p \in Bytes /\ raw \in Bytes
    BY DEF Shifted
<1>2. /\ Matches(full) = Matches(p) \cup {L + j : j \in Matches(raw)}
      /\ Matches(p) \subseteq 1 .. L
      /\ \A i \in Matches(p) : LineAt(full, i) = LineAt(p, i)
      /\ \A j \in Matches(raw) : LineAt(full, L + j) = LineAt(raw, j)
    BY MatchesOf
<1> HIDE DEF L
<1>3. /\ Matches(p) \subseteq 1 .. Len(p) /\ Len(p) \in Nat
      /\ Matches(raw) \subseteq 1 .. Len(raw) /\ Len(raw) \in Nat
    BY <1>1, MatchesAreFinite
<1>4. /\ Matches(p) \in SUBSET Nat /\ \A x \in Matches(p) : x <= Len(p)
      /\ Matches(raw) \in SUBSET Nat /\ \A x \in Matches(raw) : x <= Len(raw)
    BY <1>3
<1>5. ASSUME Matches(raw) # {}
      PROVE  Matches(full) # {} /\ LastMatch(full) = LastMatch(raw)
    <2> DEFINE m == Max(Matches(raw))
    <2>1. m \in Matches(raw) /\ \A j \in Matches(raw) : j <= m
        BY <1>3, <1>4, <1>5, MaxFacts
    <2> HIDE DEF m
    <2>2. m \in Nat /\ L + m \in Nat
        BY <1>1, <1>3, <2>1
    <2>3. L + m \in Matches(full) /\ \A k \in Matches(full) : k <= L + m
        <3>1. \A i \in Matches(p) : i <= L + m
            BY <1>1, <1>2, <2>2
        <3>2. \A j \in Matches(raw) : L + j <= L + m
            BY <1>1, <1>3, <2>1, <2>2
        <3>3. QED
            BY <1>2, <2>1, <3>1, <3>2
    <2>4. Matches(full) \in SUBSET Nat
        BY <1>1, <1>2, <1>3
    <2>5. Max(Matches(full)) = L + m
        BY <2>3, <2>4, MaxIs
    <2>6. LastMatch(full) = LastMatch(raw)
        BY <1>2, <2>1, <2>5 DEF LastMatch, m
    <2>7. QED
        BY <2>3, <2>6
<1>6. ASSUME Matches(raw) = {}
      PROVE  /\ Matches(full) = Matches(p)
             /\ Matches(p) # {} => LastMatch(full) = LastMatch(p)
    <2>1. Matches(full) = Matches(p)
        BY <1>2, <1>6
    <2>2. Matches(p) # {} => Max(Matches(p)) \in Matches(p)
        BY <1>3, <1>4, MaxFacts
    <2>3. Matches(p) # {} => LastMatch(full) = LastMatch(p)
        BY <1>2, <2>1, <2>2 DEF LastMatch
    <2>4. QED
        BY <2>1, <2>3
<1>7. AnyFinished(full) <=> AnyFinished(p) \/ AnyFinished(raw)
    BY <1>2 DEF AnyFinished
<1>8. QED
    BY <1>5, <1>6, <1>7

-----------------------------------------------------------------------------
(* The invariant *)

\* ReaderInv with the types of what it does not mention, lost or not.
BytesTypeOK ==
    /\ carry \in Bytes
    /\ lost \in BOOLEAN
    /\ capped \in BOOLEAN

PollInv == BytesTypeOK /\ ReaderInv /\ EveryLineOnce

\* The bytes read so far.
Prefix == SubSeq(log, 1, offset)

\* What the reader holds is what it would hold had it read the prefix in one piece.
HoldsPrefix ==
    /\ offset <= Len(log)
    /\ carry = LeftOver(Prefix)
    /\ seq = Cardinality(Matches(Prefix))
    /\ latest = IF Matches(Prefix) = {} THEN None ELSE LastMatch(Prefix)
    /\ everFinished = AnyFinished(Prefix)

\* What a part of a log is.
LEMMA PartIs ==
    ASSUME NEW b \in Bytes, NEW m \in Nat, NEW n \in Nat, n <= Len(b)
    PROVE  /\ SubSeq(b, m + 1, n) \in Bytes
           /\ Len(SubSeq(b, m + 1, n)) = IF m <= n THEN n - m ELSE 0
           /\ \A k \in 1 .. (n - m) : SubSeq(b, m + 1, n)[k] = b[m + k]
<1>1. m + 1 \in Int /\ n \in Int /\ \A k \in (m + 1) .. n : b[k] \in Symbols
    BY ElementOfSeq DEF Bytes
<1>2. /\ SubSeq(b, m + 1, n) \in Bytes
      /\ Len(SubSeq(b, m + 1, n)) = IF m + 1 <= n THEN n - (m + 1) + 1 ELSE 0
      /\ \A k \in 1 .. (n - (m + 1) + 1) : SubSeq(b, m + 1, n)[k] = b[(m + 1) + k - 1]
    BY <1>1, SubSeqProperties DEF Bytes
<1>3. \A k \in 1 .. (n - m) : /\ k \in 1 .. (n - (m + 1) + 1)
                              /\ (m + 1) + k - 1 = m + k
    OBVIOUS
<1>4. QED
    BY <1>2, <1>3

\* A prefix does not depend on what follows it.
LEMMA SamePrefix ==
    ASSUME NEW b \in Bytes, NEW c \in Bytes, NEW n \in Nat, n <= Len(c),
           \A k \in 1 .. n : b[k] = c[k]
    PROVE  SubSeq(b, 1, n) = SubSeq(c, 1, n)
<1>1. \A k \in (0 + 1) .. n : c[k] \in Symbols /\ b[k] = c[k]
    BY ElementOfSeq DEF Bytes
<1>2. SubSeq(b, 0 + 1, n) = SubSeq(c, 0 + 1, n)
    BY <1>1, SameSubSeq
<1>3. 0 + 1 = 1
    OBVIOUS
<1>4. QED
    BY <1>2, <1>3

\* Nothing is in an empty log.
LEMMA NothingRead ==
    /\ LeftOver(<< >>) = << >>
    /\ Matches(<< >>) = {} /\ Cardinality(Matches(<< >>)) = 0
    /\ ~AnyFinished(<< >>)
<1>1. << >> \in Bytes /\ Len(<< >>) = 0
    BY EmptySeq DEF Bytes
<1>2. Matches(<< >>) = {}
    BY <1>1, MatchesAreFinite
<1>3. LeftOver(<< >>) \in Bytes /\ Len(LeftOver(<< >>)) = 0
    BY <1>1, LeftOverIs
<1>4. LeftOver(<< >>) = << >>
    BY <1>3, EmptySeq DEF Bytes
<1>5. QED
    BY <1>2, <1>4, FS_EmptySet DEF AnyFinished

\* Parsing what follows the bytes read gives what parsing both at once would give.
LEMMA ParseReads ==
    ASSUME NEW p \in Bytes, NEW chunk \in Bytes,
           carry = LeftOver(p), seq = Cardinality(Matches(p)),
           latest = IF Matches(p) = {} THEN None ELSE LastMatch(p),
           everFinished = AnyFinished(p),
           Parse(chunk)
    PROVE  /\ carry' = LeftOver(p \o chunk)
           /\ seq' = Cardinality(Matches(p \o chunk))
           /\ latest' = IF Matches(p \o chunk) = {} THEN None ELSE LastMatch(p \o chunk)
           /\ everFinished' = AnyFinished(p \o chunk)
<1> DEFINE raw == carry \o chunk
           full == p \o chunk
<1>1. Shifted(p, raw, full)
    BY RawIsShifted
<1>2. /\ carry' = LeftOver(raw)
      /\ seq' = seq + Cardinality(Matches(raw))
      /\ latest' = IF Matches(raw) = {} THEN latest ELSE LastMatch(raw)
      /\ everFinished' = (everFinished \/ AnyFinished(raw))
    BY DEF Parse
<1> HIDE DEF raw, full
<1>3. /\ LeftOver(full) = LeftOver(raw)
      /\ Cardinality(Matches(full)) = Cardinality(Matches(p)) + Cardinality(Matches(raw))
    BY <1>1, LinesOf, MatchesOf
<1>4. /\ Matches(raw) # {} => Matches(full) # {} /\ LastMatch(full) = LastMatch(raw)
      /\ Matches(raw) = {} => Matches(full) = Matches(p)
      /\ Matches(raw) = {} /\ Matches(p) # {} => LastMatch(full) = LastMatch(p)
      /\ AnyFinished(full) <=> AnyFinished(p) \/ AnyFinished(raw)
    BY <1>1, LastMatchOf
<1>5. latest' = IF Matches(full) = {} THEN None ELSE LastMatch(full)
    BY <1>2, <1>4
<1>6. everFinished' = AnyFinished(full)
    BY <1>2, <1>4, Zenon DEF AnyFinished
<1>7. QED
    BY <1>2, <1>3, <1>5, <1>6 DEF full

\* A read types what it parses, whatever was truncated.
LEMMA ParseType ==
    ASSUME carry \in Bytes, seq \in Nat, NEW chunk \in Bytes, Parse(chunk)
    PROVE  carry' \in Bytes /\ seq' \in Nat
<1>1. carry \o chunk \in Bytes
    BY ConcatProperties DEF Bytes
<1>2. /\ LeftOver(carry \o chunk) \in Bytes
      /\ Cardinality(Matches(carry \o chunk)) \in Nat
    BY <1>1, LeftOverIs, MatchesAreFinite
<1>3. QED
    BY <1>2 DEF Parse

\* The steps of the log keep the bytes that were read, unless they count as lost.
LEMMA FileStep ==
    ASSUME PollInv, Write \/ Truncate
    PROVE  /\ log' \in Bytes /\ lost' \in BOOLEAN
           /\ ~lost' => ~lost /\ offset <= Len(log') /\ Prefix' = Prefix
<1>1. /\ log \in Bytes /\ offset \in Nat /\ Len(log) \in Nat /\ lost \in BOOLEAN
      /\ ~lost => offset <= Len(log)
    BY LenProperties DEF PollInv, BytesTypeOK, ReaderInv, Bytes
<1>2. CASE Write
    <2>1. PICK s \in Symbols : log' = Append(log, s)
        BY <1>2 DEF Write
    <2>2. /\ log' \in Bytes /\ Len(log') = Len(log) + 1
          /\ \A k \in 1 .. Len(log) : log'[k] = log[k]
        BY <1>1, <2>1, AppendProperties DEF Bytes
    <2>3. lost' = lost /\ offset' = offset
        BY <1>2 DEF Write, parsed
    <2>4. ASSUME ~lost
          PROVE  Prefix' = Prefix
        <3>1. \A k \in 1 .. offset : log'[k] = log[k]
            BY <1>1, <2>2, <2>4
        <3>2. SubSeq(log', 1, offset) = SubSeq(log, 1, offset)
            BY <1>1, <2>2, <2>4, <3>1, SamePrefix
        <3>3. QED
            BY <2>3, <3>2 DEF Prefix
    <2>5. QED
        BY <1>1, <2>2, <2>3, <2>4
<1>3. CASE Truncate
    <2>1. PICK n \in 0 .. (Len(log) - 1) : /\ log' = SubSeq(log, 1, n)
                                           /\ lost' = (lost \/ n < offset)
        BY <1>3 DEF Truncate
    <2>2. /\ log' \in Bytes /\ Len(log') = n
          /\ \A k \in 1 .. n : log'[k] = log[k]
        <3>1. n \in Nat /\ n <= Len(log) /\ 0 + 1 = 1 /\ n - 0 = n /\ 0 <= n
              /\ \A k \in 1 .. n : 0 + k = k
            BY <1>1
        <3>2. /\ SubSeq(log, 0 + 1, n) \in Bytes
              /\ Len(SubSeq(log, 0 + 1, n)) = IF 0 <= n THEN n - 0 ELSE 0
              /\ \A k \in 1 .. (n - 0) : SubSeq(log, 0 + 1, n)[k] = log[0 + k]
            BY <1>1, <3>1, PartIs
        <3>3. QED
            BY <2>1, <3>1, <3>2
    <2>3. offset' = offset
        BY <1>3 DEF Truncate, parsed
    <2>4. lost' \in BOOLEAN
        BY <1>1, <2>1
    <2>5. ASSUME ~lost'
          PROVE  ~lost /\ offset <= n /\ n \in Int /\ n <= Len(log)
        <3>1. ~lost /\ ~(n < offset)
            BY <2>1, <2>5, Zenon
        <3>2. n \in Int /\ n <= Len(log)
            BY <1>1
        <3>3. QED
            BY <1>1, <3>1, <3>2
    <2>6. ASSUME ~lost'
          PROVE  Prefix' = Prefix
        <3>1. \A k \in 1 .. offset : log'[k] = log[k]
            BY <1>1, <2>2, <2>5, <2>6
        <3>2. SubSeq(log', 1, offset) = SubSeq(log, 1, offset)
            BY <1>1, <2>2, <2>5, <2>6, <3>1, SamePrefix
        <3>3. QED
            BY <2>3, <3>2 DEF Prefix
    <2>7. QED
        BY <2>2, <2>4, <2>5, <2>6
<1>4. QED
    BY <1>2, <1>3

\* A read takes in the log as it is, however it grew since the size was taken.
LEMMA ReadStep ==
    ASSUME PollInv, Read
    PROVE  /\ offset' \in Nat /\ carry' \in Bytes /\ seq' \in Nat
           /\ ~lost => HoldsPrefix'
<1> DEFINE chunk == SubSeq(log, offset + 1, Len(log))
<1>1. /\ log \in Bytes /\ offset \in Nat /\ Len(log) \in Nat
      /\ carry \in Bytes /\ seq \in Nat
      /\ ~lost => HoldsPrefix
    BY LenProperties
       DEF PollInv, BytesTypeOK, ReaderInv, EveryLineOnce, HoldsPrefix, Prefix, Bytes
<1>2. chunk \in Bytes
    BY <1>1, PartIs
<1>3. /\ Parse(chunk) /\ offset' = Max({offset, Len(log)})
      /\ log' = log
    BY DEF Read, file
<1> HIDE DEF chunk
<1>4. carry' \in Bytes /\ seq' \in Nat
    BY <1>1, <1>2, <1>3, ParseType
<1>5. /\ offset' \in Nat
      /\ offset <= Len(log) => offset' = Len(log)
    <2>1. CASE offset <= Len(log)
        <3>1. /\ {offset, Len(log)} \in SUBSET Nat /\ Len(log) \in {offset, Len(log)}
              /\ \A x \in {offset, Len(log)} : x <= Len(log)
            BY <1>1, <2>1
        <3>2. Max({offset, Len(log)}) = Len(log)
            BY <3>1, MaxIs
        <3>3. QED
            BY <1>1, <1>3, <3>2
    <2>2. CASE ~(offset <= Len(log))
        <3>1. /\ {offset, Len(log)} \in SUBSET Nat /\ offset \in {offset, Len(log)}
              /\ \A x \in {offset, Len(log)} : x <= offset
            BY <1>1, <2>2
        <3>2. Max({offset, Len(log)}) = offset
            BY <3>1, MaxIs
        <3>3. QED
            BY <1>1, <1>3, <2>2, <3>2
    <2>3. QED
        BY <2>1, <2>2
<1>6. ASSUME ~lost
      PROVE  HoldsPrefix'
    <2>1. HoldsPrefix /\ offset' = Len(log)
        BY <1>1, <1>5, <1>6 DEF HoldsPrefix
    <2>2. Prefix \in Bytes
        <3>1. 0 + 1 = 1
            OBVIOUS
        <3>2. SubSeq(log, 0 + 1, offset) \in Bytes
            BY <1>1, <2>1, PartIs DEF HoldsPrefix
        <3>3. QED
            BY <3>1, <3>2 DEF Prefix
    <2>3. Prefix \o chunk = log
        <3>1. /\ 1 \in 1 .. (Len(log) + 1) /\ offset \in (1 - 1) .. Len(log)
              /\ Len(log) \in offset .. Len(log)
            BY <1>1, <2>1 DEF HoldsPrefix
        <3>2. SubSeq(log, 1, offset) \o SubSeq(log, offset + 1, Len(log))
                  = SubSeq(log, 1, Len(log))
            BY <1>1, <3>1, ConcatAdjacentSubSeq DEF Bytes
        <3>3. SubSeq(log, 1, Len(log)) = log
            BY <1>1, SubSeqFull DEF Bytes
        <3>4. QED
            BY <3>2, <3>3 DEF Prefix, chunk
    <2>4. /\ carry' = LeftOver(log)
          /\ seq' = Cardinality(Matches(log))
          /\ latest' = IF Matches(log) = {} THEN None ELSE LastMatch(log)
          /\ everFinished' = AnyFinished(log)
        <3>1. /\ carry = LeftOver(Prefix)
              /\ seq = Cardinality(Matches(Prefix))
              /\ latest = IF Matches(Prefix) = {} THEN None ELSE LastMatch(Prefix)
              /\ everFinished = AnyFinished(Prefix)
            BY <2>1 DEF HoldsPrefix
        <3>2. QED
            BY <1>2, <1>3, <2>2, <2>3, <3>1, ParseReads
    <2>5. Prefix' = log
        BY <1>1, <1>3, <2>1, SubSeqFull DEF Prefix, Bytes
    <2>6. offset' <= Len(log')
        BY <1>1, <1>3, <2>1
    <2>7. QED
        BY <2>4, <2>5, <2>6 DEF HoldsPrefix
<1>7. QED
    BY <1>4, <1>5, <1>6

\* The invariant: nothing was lost and the reader holds what it read, or bytes it
\* had read were cut off and only the types are left.
LEMMA PollStep == PollInv /\ [Next]_vars => PollInv'
<1> SUFFICES ASSUME PollInv, [Next]_vars
             PROVE  PollInv'
    OBVIOUS
<1>1. /\ log \in Bytes /\ Len(log) \in Nat
      /\ offset \in Nat /\ size \in Nat /\ seq \in Nat
      /\ pc \in {"idle", "open", "raised"}
      /\ carry \in Bytes /\ lost \in BOOLEAN /\ capped \in BOOLEAN
      /\ capped => pc = "raised"
      /\ ~lost => HoldsPrefix
    BY LenProperties
       DEF PollInv, BytesTypeOK, ReaderInv, EveryLineOnce, HoldsPrefix, Prefix, Bytes
<1>2. ASSUME /\ log' \in Bytes /\ offset' \in Nat /\ size' \in Nat /\ seq' \in Nat
             /\ pc' \in {"idle", "open", "raised"}
             /\ carry' \in Bytes /\ lost' \in BOOLEAN /\ capped' \in BOOLEAN
             /\ capped' => pc' = "raised"
             /\ ~lost' => HoldsPrefix'
      PROVE  PollInv'
    BY <1>2 DEF PollInv, BytesTypeOK, ReaderInv, EveryLineOnce, HoldsPrefix, Prefix, Bytes
<1>3. ASSUME Write \/ Truncate
      PROVE  PollInv'
    <2>1. /\ log' \in Bytes /\ lost' \in BOOLEAN
          /\ ~lost' => ~lost /\ offset <= Len(log') /\ Prefix' = Prefix
        BY <1>3, FileStep
    <2>2. UNCHANGED <<pc, size, parsed, capped>>
        BY <1>3 DEF Write, Truncate
    <2>3. ~lost' => HoldsPrefix'
        BY <1>1, <2>1, <2>2 DEF HoldsPrefix, parsed
    <2>4. QED
        BY <1>1, <1>2, <2>1, <2>2, <2>3 DEF parsed
<1>4. ASSUME UNCHANGED <<file, parsed>>, size' \in Nat, capped' \in BOOLEAN,
             pc' \in {"idle", "open", "raised"}, capped' => pc' = "raised"
      PROVE  PollInv'
    <2>1. ~lost' => HoldsPrefix'
        BY <1>1, <1>4 DEF HoldsPrefix, Prefix, file, parsed
    <2>2. QED
        BY <1>1, <1>2, <1>4, <2>1 DEF file, parsed
<1>5. CASE TakeSize
    BY <1>1, <1>4, <1>5 DEF TakeSize, Polling
<1>6. CASE TooLarge
    BY <1>1, <1>4, <1>6 DEF TooLarge, Raise
<1>7. CASE Shrank
    BY <1>1, <1>4, <1>7 DEF Shrank, Raise
<1>8. CASE Read
    <2>1. /\ offset' \in Nat /\ carry' \in Bytes /\ seq' \in Nat
          /\ ~lost => HoldsPrefix'
        BY <1>8, ReadStep
    <2>2. /\ pc = "open" /\ pc' = "idle" /\ size' = 0
          /\ UNCHANGED <<log, lost, capped>>
        BY <1>8 DEF Read, file
    <2>3. QED
        BY <1>1, <1>2, <2>1, <2>2
<1>9. CASE UNCHANGED vars
    BY <1>1, <1>4, <1>9 DEF vars, file, parsed
<1>10. QED
    BY <1>3, <1>5, <1>6, <1>7, <1>8, <1>9 DEF Next

\* PollInv holds in every state of every run: at the start nothing is read.
THEOREM PollInvariant == Spec => []PollInv
<1>1. Init => PollInv
    <2> SUFFICES ASSUME Init
                 PROVE  PollInv
        OBVIOUS
    <2>1. << >> \in Bytes /\ Len(<< >>) = 0
        BY EmptySeq DEF Bytes
    <2>2. Prefix = << >>
        BY SubSeqEmpty DEF Init, Prefix
    <2>3. everFinished = AnyFinished(Prefix)
        BY <2>2, NothingRead, Zenon DEF Init, AnyFinished
    <2>4. EveryLineOnce
        BY <2>2, <2>3, NothingRead DEF Init, EveryLineOnce, Prefix
    <2>5. ReaderInv
        <3>1. /\ log \in Bytes /\ Len(log) = 0 /\ offset = 0 /\ size = 0 /\ seq = 0
              /\ pc = "idle" /\ capped = FALSE
            BY <2>1, Zenon DEF Init
        <3>2. carry = LeftOver(Prefix)
            BY <2>2, NothingRead DEF Init
        <3>3. QED
            BY <3>1, <3>2 DEF ReaderInv, Prefix, Bytes
    <2>6. QED
        BY <2>1, <2>4, <2>5 DEF Init, PollInv, BytesTypeOK
<1>2. QED
    BY <1>1, PollStep, PTL DEF Spec

\* What is carried from one poll to the next is the line that is open where the
\* last read ended, as long as nothing that was read is cut off.
THEOREM CarriesTheOpenLine == Spec => []ReaderInv
<1>1. PollInv => ReaderInv
    BY DEF PollInv
<1>2. QED
    BY <1>1, PollInvariant, PTL

\* poll counts every complete line once and whole, wherever its reads end.
THEOREM EveryLineIsReadOnce == Spec => []EveryLineOnce
<1>1. PollInv => EveryLineOnce
    BY DEF PollInv
<1>2. QED
    BY <1>1, PollInvariant, PTL
=============================================================================
