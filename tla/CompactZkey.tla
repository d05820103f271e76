----------------------------- MODULE CompactZkey -----------------------------
(***************************************************************************)
(* The compact zkey format: encode turns a zkey into a body that stores a  *)
(* point as x and a sign and the coefficients as columns, and inflate turns*)
(* a body back, symbol by symbol.  In mode "file" every symbol of the body *)
(* is arbitrary; in mode "encoder" the body is what encode made of a zkey, *)
(* which it inflates before it returns.  A zkey is a sequence of sections  *)
(* of words: a header, a coordinate, a count, or one of the two parts of a *)
(* coefficient record (its indices and its value) is a word.               *)
(***************************************************************************)
EXTENDS Integers, Sequences, FiniteSets, SequencesExt, FiniteSetsExt

-----------------------------------------------------------------------------
(* The square roots that decompress points (compact_zkey/roots.rs): in Fq, *)
(* of a prime order P = 3 mod 4, by one power with a fixed exponent, and in*)
(* Fq2 = Fq[u] / (u^2 + 1) by two.                                         *)

CONSTANTS
    P,
    Window,     \* bits of an exponentiation window: 4 in the code
    None

PAssumption == P \in Nat /\ P % 4 = 3 /\ Window \in Nat \ {0}

Fq == 0..(P - 1)
Fq2 == Fq \X Fq

FqMul(a, b) == (a * b) % P
FqNeg(a) == (P - a) % P
FqAdd(a, b) == (a + b) % P
Half == (P + 1) \div 2

Fq2Mul(a, b) ==
    <<FqAdd(FqMul(a[1], b[1]), FqNeg(FqMul(a[2], b[2]))), FqAdd(FqMul(a[1], b[2]), FqMul(a[2], b[1]))>>

\* (p - 3) / 4, which is p shifted by two bits, from its highest bit down.
ExponentBits ==
    LET length == CHOOSE n \in 0..P : 2 ^ n <= P \div 4 /\ P \div 4 < 2 ^ (n + 1)
    IN  [i \in 1..(length + 1) |-> ((P \div 4) \div 2 ^ (length + 1 - i)) % 2]
Value(bits) == FoldLeft(LAMBDA value, bit : 2 * value + bit, 0, bits)

\* The longest window from `index` that ends in a one.
WindowEnd(index) ==
    CHOOSE end \in index..(index + Window - 1) :
        /\ end <= Len(ExponentBits) /\ ExponentBits[end] = 1
        /\ \A later \in (end + 1)..(index + Window - 1) :
            later > Len(ExponentBits) \/ ExponentBits[later] = 0

\* The exponent as squarings, and at the end of each window a product with an
\* odd power: zeros between the windows only square.
Schedule ==
    LET from[index \in 1..(Len(ExponentBits) + 1)] ==
            IF index > Len(ExponentBits) THEN <<>>
            ELSE IF ExponentBits[index] = 0 THEN <<[bits |-> 1, value |-> 0]>> \o from[index + 1]
            ELSE <<[bits |-> WindowEnd(index) - index + 1,
                    value |-> Value(SubSeq(ExponentBits, index, WindowEnd(index)))]>>
                 \o from[WindowEnd(index) + 1]
    IN  from[1]

Squared(x, times) == FoldLeft(LAMBDA y, i : FqMul(y, y), x, [i \in 1..times |-> i])

\* a^(2k + 1) at k, each from the last by one product with the square.
OddPowers(a) ==
    LET square == FqMul(a, a)
        power[k \in 0..(2 ^ (Window - 1) - 1)] == IF k = 0 THEN a ELSE FqMul(power[k - 1], square)
    IN  power

\* pow_p_minus_3_over_4; the squarings of the first window would only square one.
PowPMinus3Over4(a) ==
    FoldLeft(LAMBDA x, step :
                LET squared == Squared(x, step.bits)
                IN  IF step.value = 0 THEN squared ELSE FqMul(squared, OddPowers(a)[step.value \div 2]),
             OddPowers(a)[Head(Schedule).value \div 2], Tail(Schedule))

SqrtFq(a) ==
    LET root == FqMul(a, PowPMinus3Over4(a))
    IN  IF FqMul(root, root) = a THEN root ELSE None

\* An element of the base field has a root in it, or one that is a multiple of u.
SqrtOfBase(a) ==
    IF SqrtFq(a) # None THEN <<SqrtFq(a), 0>>
    ELSE IF SqrtFq(FqNeg(a)) # None THEN <<0, SqrtFq(FqNeg(a))>> ELSE None

\* Mutation: the other candidate keeps the sign.
Candidate_SameSign(a, t, r) ==
    LET tr == FqMul(t, r)
        half == FqMul(FqMul(a[2], r), Half)
    IN  IF FqMul(tr, tr) = t THEN <<tr, half>> ELSE <<half, tr>>

\* One power of t gives its root and its inverse when t is a square, and the
\* root of the other candidate when it is not.
Candidate(a, t, r) ==
    LET tr == FqMul(t, r)
        half == FqMul(FqMul(a[2], r), Half)
    IN  IF FqMul(tr, tr) = t THEN <<tr, half>> ELSE <<half, FqNeg(tr)>>

SqrtFq2(a) ==
    IF a[2] = 0 THEN SqrtOfBase(a[1])
    ELSE LET s == SqrtFq(FqAdd(FqMul(a[1], a[1]), FqMul(a[2], a[2])))
         IN  IF s = None THEN None
             ELSE LET t == FqMul(FqAdd(a[1], s), Half)
                      root == Candidate(a, t, PowPMinus3Over4(t))
                  IN  IF Fq2Mul(root, root) = a THEN root ELSE None

-----------------------------------------------------------------------------
(* Compact zkeys *)

CONSTANTS
    Radix,              \* of the Montgomery form: a word w stands for w / Radix
    G1B, G2B,           \* of the curves y^2 = x^3 + b
    Words,              \* what a word may be; from P on it is no coordinate
    Sources,            \* zkeys to encode: sections and whether words follow
    TableEntries,       \* of a file: [id, words, tag]
    FileLengths, Limits,
    RecordWords,        \* the words of a coefficient column
    PointsPerBatch, CoefficientsPerBatch, MaxSections

VARIABLES
    mode, source,   \* what is encoded
    file,           \* the length in the file's header and the caller's limit
    count, table,   \* of the body's header
    read,           \* the payload symbols of each section so far
    zkey,           \* the sections decoded so far: [id, region]
    filled,         \* the words of the region that are written, or entries of a column
    column,         \* of a coefficient section; 0 is its count
    phase           \* "header", "table", "section", "payload", "end", "done", "refused", "panicked"

vars == <<mode, source, file, count, table, read, zkey, filled, column, phase>>

Raw == 0
G1 == 1
G2 == 2
Coefficients == 3
Tags == {Raw, G1, G2, Coefficients}
EncodingFor(id) ==
    CASE id \in {3, 5, 6, 8, 9} -> G1 [] id = 7 -> G2 [] id = 4 -> Coefficients [] OTHER -> Raw
Coordinates(tag) == IF tag = G1 THEN 1 ELSE 2
PointWords(tag) == 2 * Coordinates(tag)
Unit(tag) == IF tag \in {G1, G2} THEN PointWords(tag) ELSE 1

\* The length of sections, or of a table, in words.
ZkeyLength(sizes) == FoldLeft(LAMBDA total, words : total + 1 + words, 1, sizes)
CountFits(words, records) == words = 1 + 2 * records

-----------------------------------------------------------------------------
(* Points: in mode G1 a coordinate is an element of Fq, in G2 of Fq2 *)

FromWord(word) == CHOOSE x \in Fq : (x * Radix) % P = word
ToWord(x) == (x * Radix) % P

Mul(tag, a, b) == IF tag = G1 THEN FqMul(a, b) ELSE Fq2Mul(a, b)
Negated(tag, a) == IF tag = G1 THEN FqNeg(a) ELSE <<FqNeg(a[1]), FqNeg(a[2])>>
CubePlusB(tag, x) ==
    LET cube == Mul(tag, Mul(tag, x, x), x)
    IN  IF tag = G1 THEN FqAdd(cube, G1B) ELSE <<FqAdd(cube[1], G2B[1]), FqAdd(cube[2], G2B[2])>>
Sqrt(tag, a) == IF tag = G1 THEN SqrtFq(a) ELSE SqrtFq2(a)

\* arkworks orders Fq2 by its second coordinate first.
Less(tag, a, b) == IF tag = G1 THEN a < b ELSE a[2] < b[2] \/ (a[2] = b[2] /\ a[1] < b[1])

\* A coordinate's words, and the element they stand for.
Element(tag, words) == IF tag = G1 THEN FromWord(words[1]) ELSE <<FromWord(words[1]), FromWord(words[2])>>
WordsOf(tag, a) == IF tag = G1 THEN <<ToWord(a)>> ELSE <<ToWord(a[1]), ToWord(a[2])>>
ZeroWords(n) == [i \in 1..n |-> 0]
Zero(tag) == IF tag = G1 THEN 0 ELSE <<0, 0>>
IsCanonical(tag, x) == IF tag = G1 THEN x \in Fq ELSE x \in Fq2

Flags == {"smaller", "larger", "infinity", "both"}
InfinityPoint(tag) == [x |-> Zero(tag), flag |-> "infinity"]

\* serialize_compressed of a point that deserialize_g1 or deserialize_g2 read:
\* zero coordinates are the point at infinity, and no curve is checked.
Compressed(tag, words) ==
    LET n == Coordinates(tag)
        x == Element(tag, SubSeq(words, 1, n))
        y == Element(tag, SubSeq(words, n + 1, 2 * n))
    IN  IF x = Zero(tag) /\ y = Zero(tag) THEN InfinityPoint(tag)
        ELSE [x |-> x, flag |-> IF Less(tag, Negated(tag, y), y) THEN "larger" ELSE "smaller"]

ChooseRoot(tag, root, flag) ==
    LET negated == Negated(tag, root)
        smaller == IF Less(tag, root, negated) THEN root ELSE negated
        larger == IF Less(tag, root, negated) THEN negated ELSE root
    IN  IF flag = "smaller" THEN smaller ELSE larger

\* Only one spelling of the point at infinity is taken.
IsInfinity(tag, point) == point = InfinityPoint(tag)

\* decode_g1 and decode_g2: the words of a point, or None.
DecodedPoint(tag, point) ==
    LET y == Sqrt(tag, CubePlusB(tag, point.x))
    IN  IF ~IsCanonical(tag, point.x) \/ point.flag = "both" THEN None
        ELSE IF IsInfinity(tag, point) THEN ZeroWords(PointWords(tag))
        ELSE IF point.flag = "infinity" \/ y = None THEN None
        ELSE WordsOf(tag, point.x) \o WordsOf(tag, ChooseRoot(tag, y, point.flag))

-----------------------------------------------------------------------------
(* The encoder *)

PointAt(tag, region, i) == SubSeq(region, (i - 1) * PointWords(tag) + 1, i * PointWords(tag))

\* The coefficient records column by column.
ColumnsOf(region) ==
    LET n == (Len(region) - 1) \div 2
    IN  [i \in 1..n |-> region[2 * i]] \o [i \in 1..n |-> region[2 * i + 1]]

\* encode_section.
Payload(tag, region) ==
    CASE tag = Raw -> region
      [] tag \in {G1, G2} ->
            [i \in 1..(Len(region) \div PointWords(tag)) |-> Compressed(tag, PointAt(tag, region, i))]
      [] tag = Coefficients -> <<Head(region)>> \o ColumnsOf(region)

\* What encode_section refuses outright.
CanEncode(tag, region) ==
    CASE tag = Raw -> TRUE
      [] tag \in {G1, G2} -> Len(region) % PointWords(tag) = 0 /\ \A i \in DOMAIN region : region[i] < P
      [] tag = Coefficients -> region # <<>> /\ CountFits(Len(region), Head(region))

IsLayout(zk) == ~zk.trailing /\ Len(zk.sections) <= MaxSections
Entry(section) == [id |-> section.id, words |-> Len(section.region), tag |-> EncodingFor(section.id)]
SectionLengths(sections) == [k \in DOMAIN sections |-> Len(sections[k].region)]

Init ==
    /\ mode \in {"file", "encoder"}
    /\ read = <<>> /\ zkey = <<>> /\ filled = 0 /\ column = 0 /\ table = <<>>
    /\ IF mode = "file"
       THEN /\ source = None /\ count \in 0..(MaxSections + 1)
            /\ file \in [length : FileLengths, limit : Limits] /\ phase = "header"
       ELSE /\ source \in Sources /\ count = Len(source.sections)
            /\ LET length == ZkeyLength(SectionLengths(source.sections))
               IN  file = [length |-> length, limit |-> length]
            /\ phase = IF /\ IsLayout(source)
                          /\ \A k \in DOMAIN source.sections :
                                CanEncode(EncodingFor(source.sections[k].id), source.sections[k].region)
                       THEN "header" ELSE "refused"

-----------------------------------------------------------------------------
(* The decoder *)

\* The symbols that a read of n returns from a set of possible ones: any if the
\* file is arbitrary, else the next that were encoded.
Reads(n, symbols) ==
    IF mode = "file" THEN [1..n -> symbols]
    ELSE LET k == Len(zkey)
             section == source.sections[k]
             from == Len(read[k])
         IN  {SubSeq(Payload(EncodingFor(section.id), section.region), from + 1, from + n)}

Refuse == phase' = "refused" /\ UNCHANGED <<table, read, zkey, filled, column>>

\* read_file_header, and the section count against the declared length.
ReadHeader ==
    /\ phase = "header"
    /\ IF file.length > file.limit \/ count > MaxSections \/ count > file.length - 1
       THEN Refuse
       ELSE phase' = "table" /\ UNCHANGED <<table, read, zkey, filled, column>>
    /\ UNCHANGED <<mode, source, file, count>>

TableLength == ZkeyLength([k \in DOMAIN table |-> table[k].words])

\* read_body_header: one entry of the table, and at its end the total.
ReadEntry ==
    /\ phase = "table" /\ Len(table) < count
    /\ \E entry \in IF mode = "file" THEN TableEntries ELSE {Entry(source.sections[Len(table) + 1])} :
        IF entry.tag \notin Tags \/ entry.words % Unit(entry.tag) # 0 THEN Refuse
        ELSE table' = Append(table, entry) /\ UNCHANGED <<read, zkey, filled, column, phase>>
    /\ UNCHANGED <<mode, source, file, count>>
CloseTable ==
    /\ phase = "table" /\ Len(table) = count
    /\ IF TableLength # file.length THEN Refuse
       ELSE phase' = "section" /\ UNCHANGED <<table, read, zkey, filled, column>>
    /\ UNCHANGED <<mode, source, file, count>>

Current == table[Len(zkey)]
Region == zkey[Len(zkey)].region

\* The section's header, and its region as zeros.
BeginSection ==
    /\ phase = "section"
    /\ IF Len(zkey) = count THEN phase' = "end" /\ UNCHANGED <<read, zkey, filled, column>>
       ELSE LET entry == table[Len(zkey) + 1]
            IN  /\ zkey' = Append(zkey, [id |-> entry.id, region |-> ZeroWords(entry.words)])
                /\ read' = Append(read, <<>>)
                /\ filled' = 0 /\ column' = 0 /\ phase' = "payload"
    /\ UNCHANGED <<mode, source, file, count, table>>

\* What was read, the region as it is now, and whether the section is over.
Decoded(symbols, region) ==
    /\ read' = [read EXCEPT ![Len(read)] = @ \o symbols]
    /\ zkey' = [zkey EXCEPT ![Len(zkey)].region = region]
Overwritten(words, at) == [i \in DOMAIN Region |-> IF i - at \in DOMAIN words THEN words[i - at] ELSE Region[i]]

DecodeRaw ==
    /\ phase = "payload" /\ Current.tag = Raw
    /\ \E words \in Reads(Current.words, RecordWords) : Decoded(words, words)
    /\ phase' = "section"
    /\ UNCHANGED <<mode, source, file, count, table, filled, column>>

PointSymbols(tag) == [x : IF tag = G1 THEN Words ELSE Words \X Words, flag : Flags]

\* decode_points: a batch of points, refused if one of them is no point.
DecodePoints ==
    /\ phase = "payload" /\ Current.tag \in {G1, G2}
    /\ LET tag == Current.tag
           n == Min({PointsPerBatch, (Current.words - filled) \div PointWords(tag)})
       IN  IF n = 0 THEN phase' = "section" /\ UNCHANGED <<table, read, zkey, filled, column>>
           ELSE \E points \in Reads(n, PointSymbols(tag)) :
                IF \E i \in 1..n : DecodedPoint(tag, points[i]) = None THEN Refuse
                ELSE /\ Decoded(points, Overwritten(FlattenSeq([i \in 1..n |-> DecodedPoint(tag, points[i])]), filled))
                     /\ filled' = filled + n * PointWords(tag)
                     /\ UNCHANGED <<table, column, phase>>
    /\ UNCHANGED <<mode, source, file, count>>

\* decode_coefficients: the count is read into the start of the region, which
\* panics if the region has no room for it.
DecodeCount ==
    /\ phase = "payload" /\ Current.tag = Coefficients /\ column = 0
    /\ IF Region = <<>> THEN phase' = "panicked" /\ UNCHANGED <<table, read, zkey, filled, column>>
       ELSE \E words \in Reads(1, Words) :
            IF ~CountFits(Current.words, words[1]) THEN Refuse
            ELSE /\ Decoded(words, Overwritten(words, 0))
                 /\ column' = 1 /\ filled' = 0 /\ UNCHANGED <<table, phase>>
    /\ UNCHANGED <<mode, source, file, count>>

\* A batch of a column's words goes to the same place in each record.
DecodeColumn ==
    /\ phase = "payload" /\ Current.tag = Coefficients /\ column > 0
    /\ LET n == Min({CoefficientsPerBatch, (Current.words - 1) \div 2 - filled})
       IN  IF n = 0
           THEN /\ column' = column + 1 /\ filled' = 0
                /\ phase' = IF column = 2 THEN "section" ELSE "payload"
                /\ UNCHANGED <<table, read, zkey>>
           ELSE \E words \in Reads(n, RecordWords) :
                /\ Decoded(words, [i \in DOMAIN Region |->
                                    IF \E j \in 1..n : i = 1 + 2 * (filled + j - 1) + column
                                    THEN words[(i - 1 - column) \div 2 - filled + 1] ELSE Region[i]])
                /\ filled' = filled + n /\ UNCHANGED <<table, column, phase>>
    /\ UNCHANGED <<mode, source, file, count>>

\* The zkey's digest, the frame's end and its checksum; the encoder compares.
Finish ==
    /\ phase = "end"
    /\ \E asNamed \in IF mode = "file" THEN BOOLEAN ELSE {TRUE} :
        phase' = IF asNamed /\ (mode = "encoder" => zkey = source.sections) THEN "done" ELSE "refused"
    /\ UNCHANGED <<mode, source, file, count, table, read, zkey, filled, column>>

Next ==
    ReadHeader \/ ReadEntry \/ CloseTable \/ BeginSection \/ DecodeRaw
    \/ DecodePoints \/ DecodeCount \/ DecodeColumn \/ Finish
Spec == Init /\ [][Next]_vars

-----------------------------------------------------------------------------
(* Properties *)

\* "The decoded zkey's length is reserved up front once the section table is
\* consistent, so max_zkey_bytes is also an allocation bound": nothing that is
\* decoded outgrows the declared length or the limit, and a whole file fills it.
ZkeyFillsItsReservation ==
    /\ ZkeyLength(SectionLengths(zkey)) <= file.length /\ (zkey # <<>> => file.length <= file.limit)
    /\ phase \in {"end", "done"} => ZkeyLength(SectionLengths(zkey)) = file.length

\* "requiring zeros keeps one body per zkey": what decodes is the payload that
\* encode_section writes for the decoded section, symbol for symbol.
OneBodyPerZkey ==
    phase = "done" => \A k \in DOMAIN zkey : read[k] = Payload(table[k].tag, zkey[k].region)

IsOnCurve(tag, words) ==
    LET n == Coordinates(tag)
        y == Element(tag, SubSeq(words, n + 1, 2 * n))
    IN  words = ZeroWords(PointWords(tag)) \/ Mul(tag, y, y) = CubePlusB(tag, Element(tag, SubSeq(words, 1, n)))
PointsOf(tag, region) == {PointAt(tag, region, i) : i \in 1..(Len(region) \div PointWords(tag))}

\* "no point decoded from a compact zkey can be off-curve", and the encoder
\* refuses exactly the zkeys "it cannot reproduce byte for byte": it takes every
\* zkey that is a header and its sections, with whole points of their curves and
\* coefficients that fill their section.
EncoderTakesEveryZkeyOfCurvePoints ==
    mode = "encoder" /\ phase \in {"done", "refused"} =>
        (phase = "done") =
            (/\ IsLayout(source)
             /\ \A k \in DOMAIN source.sections :
                    LET tag == EncodingFor(source.sections[k].id)
                        region == source.sections[k].region
                    IN  /\ CanEncode(tag, region)
                        /\ tag \in {G1, G2} => \A point \in PointsOf(tag, region) : IsOnCurve(tag, point))

\* "errors, never panics" (the test mutated_bodies_and_files_fail_cleanly): a
\* file that is not what encode writes is refused with an error.  It does not
\* hold: decode_coefficients slices a region that has no room for the count.
InflateReturns == phase # "panicked"
=============================================================================
