--------------------------- MODULE InputDecoding ----------------------------
(***************************************************************************)
(* The inputs of a witness (curvy-witness): the table that maps the hash   *)
(* of a signal's name to a range of the input buffer, as it is read from a *)
(* graph (read_input_mappings, check_input_ranges), and the JSON object    *)
(* that fills the buffer as it is decoded, token by token (input.rs).      *)
(***************************************************************************)
EXTENDS Integers, Sequences, FiniteSets, SequencesExt

CONSTANTS
    BufferLen,              \* the graph's input buffer; the constant one comes first
    MappingCount,           \* rows of the table
    Names, HashOf,          \* the names of the object and their FNV-1a hashes
    Literals,               \* decimal strings, [negative, digits]
    TenBase, ChunkDigits,   \* 10 and 19 in the code
    Modulus,
    MaxDepth,               \* of nested arrays
    MaxTokens               \* bounds the object

InputAssumption == BufferLen \in Nat \ {0} /\ HashOf \in [Names -> Nat]

VARIABLES
    phase,          \* "table", "object", "value", "after", "accepted" or the refusal
    mappings,       \* the rows read so far
    values,         \* the input buffer
    matched,        \* the rows that were given
    current,        \* the row whose value is being read
    count, depth,   \* how many of its values came, in how many open arrays
    given,          \* what the object said, in order: [row, place, value, exact]
    tokens

vars == <<phase, mappings, values, matched, current, count, depth, given, tokens>>

-----------------------------------------------------------------------------
(* The table *)

Rows == [hash : Range(HashOf), id : 0..BufferLen, size : 0..BufferLen]
End(row) == row.id + row.size

\* The order of the check: by start, the enclosing range first.
Encloses(a, b) == a.id < b.id \/ (a.id = b.id /\ a.size >= b.size)

\* The ends of the ranges that enclose the current one are a stack.
CheckRanges(table) ==
    LET order == SortSeq(table, Encloses)
        Step(state, row) ==
            LET open == SelectSeq(state.ends, LAMBDA outer : outer > row.id)
            IN  [ends |-> Append(open, End(row)),
                 fits |-> state.fits /\ (open = <<>> \/ End(row) <= Last(open))]
    IN  FoldLeft(Step, [ends |-> <<>>, fits |-> TRUE], order).fits

ReadMapping ==
    /\ phase = "table" /\ Len(mappings) < MappingCount
    /\ \E row \in Rows :
        LET table == Append(mappings, row)
        IN  IF \E i \in DOMAIN mappings : mappings[i].hash = row.hash
            THEN phase' = "DuplicateInputHash" /\ UNCHANGED mappings
            ELSE IF row.id = 0 \/ row.size = 0 \/ End(row) > BufferLen
            THEN phase' = "InputMappingRange" /\ UNCHANGED mappings
            ELSE /\ mappings' = table
                 /\ phase' = IF Len(table) < MappingCount THEN phase
                             ELSE IF CheckRanges(table) THEN "object" ELSE "InputMappingOverlap"
    /\ UNCHANGED <<values, matched, current, count, depth, given, tokens>>

-----------------------------------------------------------------------------
(* The object *)

\* Mutation: every chunk is scaled as if it were a full one.
ScaleOf_Full(chunk) == TenBase ^ ChunkDigits

ScaleOf(chunk) == TenBase ^ Len(chunk)

NumberOf(digits) == FoldLeft(LAMBDA n, d : n * TenBase + d, 0, digits)

\* A decimal string is read in chunks of as many digits as a word holds.
ParseField(literal) ==
    LET chunks == (Len(literal.digits) + ChunkDigits - 1) \div ChunkDigits
        Chunk(k) == SubSeq(literal.digits, (k - 1) * ChunkDigits + 1,
                           IF k < chunks THEN k * ChunkDigits ELSE Len(literal.digits))
        field == FoldLeft(LAMBDA n, k : (n * ScaleOf(Chunk(k)) + NumberOf(Chunk(k))) % Modulus, 0,
                          [k \in 1..chunks |-> k])
    IN  IF literal.negative THEN (Modulus - field) % Modulus ELSE field

Token == tokens < MaxTokens /\ tokens' = tokens + 1

\* A name: it must be in the table and not have been given, by its hash.
Key ==
    /\ phase = "object" /\ Token
    /\ \E name \in Names :
        LET row == SelectInSeq(mappings, LAMBDA m : m.hash = HashOf[name])
        IN  IF row = 0 THEN phase' = "UnknownInput" /\ UNCHANGED <<matched, current, count>>
            ELSE IF row \in matched THEN phase' = "duplicate input" /\ UNCHANGED <<matched, current, count>>
            ELSE /\ phase' = "value" /\ matched' = matched \cup {row} /\ current' = row /\ count' = 0
    /\ UNCHANGED <<mappings, values, depth, given>>

\* The value of a name is over; it must have filled the row.
Filled(row, n) == n = mappings[row].size

AfterValue(n, open) ==
    IF open > 0 THEN "value" ELSE IF Filled(current, n) THEN "object" ELSE "InputLength"

\* A number, wherever it is nested, is the row's next value.  The object may
\* have said another one (exact).
Push(field, number, exact) ==
    IF count >= mappings[current].size
    THEN phase' = "too many values" /\ UNCHANGED <<values, count, given>>
    ELSE LET place == mappings[current].id + count
         IN  /\ values' = [values EXCEPT ![place] = field]
             /\ count' = count + 1
             /\ phase' = AfterValue(count + 1, depth)
             /\ given' = Append(given,
                    [row |-> current, place |-> place, value |-> number % Modulus, exact |-> exact])

Refuse(why) == phase' = why /\ UNCHANGED <<values, count, given>>

\* A decimal string or an integer of up to 64 bits.
Literal ==
    /\ phase = "value" /\ Token
    /\ \E literal \in Literals :
        IF literal.digits = <<>> THEN Refuse("invalid decimal")
        ELSE Push(ParseField(literal),
                  IF literal.negative THEN -NumberOf(literal.digits) ELSE NumberOf(literal.digits),
                  TRUE)
    /\ UNCHANGED <<mappings, matched, current, depth>>

\* Every other number comes as a double, and one that is 0.0 is taken: -0, 0.0
\* and 0e5, and a number that is too small for a double (1e-400).
Float ==
    /\ phase = "value" /\ Token
    /\ \E number \in {"zero", "underflows", "other"} :
        IF number = "other" THEN Refuse("without a fraction or exponent")
        ELSE Push(0, 0, number = "zero")
    /\ UNCHANGED <<mappings, matched, current, depth>>

\* A truth value, null or an object.
Unsupported ==
    /\ phase = "value" /\ Token /\ Refuse("unsupported value")
    /\ UNCHANGED <<mappings, matched, current, depth>>

OpenArray ==
    /\ phase = "value" /\ Token
    /\ IF depth < MaxDepth THEN depth' = depth + 1 /\ phase' = phase
       ELSE phase' = "recursion limit" /\ UNCHANGED depth
    /\ UNCHANGED <<mappings, values, matched, current, count, given>>

CloseArray ==
    /\ phase = "value" /\ depth > 0 /\ Token
    /\ depth' = depth - 1
    /\ phase' = AfterValue(count, depth - 1)
    /\ UNCHANGED <<mappings, values, matched, current, count, given>>

\* The object ends, and the text with it or not.
CloseObject ==
    /\ phase = "object"
    /\ \E nothingFollows \in BOOLEAN : phase' = IF nothingFollows THEN "accepted" ELSE "trailing characters"
    /\ UNCHANGED <<mappings, values, matched, current, count, depth, given, tokens>>

Init ==
    /\ phase = "table" /\ mappings = <<>>
    /\ values = [i \in 0..(BufferLen - 1) |-> IF i = 0 THEN 1 ELSE 0]
    /\ matched = {} /\ current = 0 /\ count = 0 /\ depth = 0 /\ given = <<>> /\ tokens = 0

Next ==
    \/ ReadMapping \/ Key \/ Literal \/ Float \/ Unsupported \/ OpenArray \/ CloseArray \/ CloseObject
Spec == Init /\ [][Next]_vars

-----------------------------------------------------------------------------
(* Properties *)

Cells(row) == row.id..(End(row) - 1)

\* "Input ranges may nest, but may not partially overlap" (check_input_ranges):
\* the stack over the sorted ranges decides exactly that, of every table.
OnlyNestedTablesAreTaken ==
    LET nested == \A i, j \in DOMAIN mappings :
                      LET a == Cells(mappings[i]) b == Cells(mappings[j])
                      IN  a \cap b = {} \/ a \subseteq b \/ b \subseteq a
    IN  Len(mappings) = MappingCount => (phase = "InputMappingOverlap" <=> ~nested)

\* What an accepted object leaves in the buffer is, at every place, the last
\* number the object gave for it as the JSON decoder hands it on, reduced into
\* the field whatever its length and sign, zero where it gave none and one at
\* the first place.
BufferHoldsWhatWasGiven ==
    phase = "accepted" =>
        \A place \in DOMAIN values :
            LET here == SelectSeq(given, LAMBDA g : g.place = place)
            IN  values[place] = IF here # <<>> THEN Last(here).value ELSE IF place = 0 THEN 1 ELSE 0

\* "Non-zero fractional or exponent numbers are rejected" (README of the
\* crate): an accepted object gave no number but the ones the buffer got.
OnlyZeroReadsAsZero == phase = "accepted" => \A i \in DOMAIN given : given[i].exact

\* "Duplicate signal names (including hash collisions) and surplus values are
\* rejected": an accepted object gave every row it touched as many values as
\* the row has places, in the row's order, once.
EveryRowIsGivenWholeAndOnce ==
    phase = "accepted" =>
        \A row \in DOMAIN mappings :
            LET here == SelectSeq(given, LAMBDA g : g.row = row)
            IN  /\ (here = <<>>) = (row \notin matched)
                /\ here # <<>> => [k \in DOMAIN here |-> here[k].place]
                                     = [k \in 1..mappings[row].size |-> mappings[row].id + k - 1]
=============================================================================
