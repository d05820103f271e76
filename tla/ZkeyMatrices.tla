---------------------------- MODULE ZkeyMatrices ----------------------------
(***************************************************************************)
(* The coefficient section of a zkey becomes the matrices A and B: the     *)
(* nested parser (parse_matrices), which pushes records into rows, and the *)
(* compact one (parse_compact_matrices), which counts the rows in one pass *)
(* and fills exact arrays in a second, while the source may be rewritten   *)
(* between and during the passes.  A record is drawn as it is read.        *)
(***************************************************************************)
EXTENDS Integers, Sequences, FiniteSets, SequencesExt, FiniteSetsExt

CONSTANTS
    DomainSize, VarCount, PublicCount,  \* of the Groth16 header
    Modulus,                            \* of the scalar field
    Records,                            \* what a record may read as
    MaxRecords

HeaderAssumption == DomainSize \in Nat \ {0} /\ PublicCount < VarCount

VARIABLES
    phase,          \* "counting", "filling", "done" or "refused"
    declared,       \* the number of records
    first, second,  \* what each pass read
    ends,           \* where each row ends
    cursors,        \* where the row's next record goes
    cells           \* the arrays of each matrix

vars == <<phase, declared, first, second, ends, cursors, cells>>

Matrices == {0, 1}
Empty == [signal |-> 0, value |-> 0]
Cell(record) == [signal |-> record.signal, value |-> record.value]

IsInRange(record) ==
    record.matrix \in Matrices /\ record.constraint < DomainSize /\ record.signal < VarCount
IsCanonical(record) == record.value < Modulus

\* The constraints that the key has without those of its public inputs, which
\* the last rows are; negative if there are none at all.
ConstraintsOf(records) ==
    IF records = <<>> THEN -1
    ELSE Max({records[i].constraint : i \in DOMAIN records}) - PublicCount

RowOf(records, matrix, row) ==
    LET here == SelectSeq(records, LAMBDA r : r.matrix = matrix /\ r.constraint = row)
    IN  [k \in DOMAIN here |-> Cell(here[k])]

-----------------------------------------------------------------------------
(* The nested parser *)

NestedAccepts(records) ==
    /\ \A i \in DOMAIN records : IsInRange(records[i]) /\ IsCanonical(records[i])
    /\ ConstraintsOf(records) >= 0

NestedRows(records) ==
    [m \in Matrices |-> [row \in 0..(ConstraintsOf(records) - 1) |-> RowOf(records, m, row)]]

-----------------------------------------------------------------------------
(* The compact parser *)

Init ==
    /\ phase = "counting" /\ declared \in 0..MaxRecords
    /\ first = <<>> /\ second = <<>>
    /\ ends = <<>> /\ cursors = <<>> /\ cells = <<>>

\* Pass one: a value is read and not looked at.
CountRecord ==
    /\ phase = "counting" /\ Len(first) < declared
    /\ \E record \in Records :
        IF IsInRange(record) THEN first' = Append(first, record) /\ phase' = phase
        ELSE phase' = "refused" /\ UNCHANGED first
    /\ UNCHANGED <<declared, second, ends, cursors, cells>>

RowCount(matrix, row) ==
    Cardinality({i \in DOMAIN first : first[i].matrix = matrix /\ first[i].constraint = row})

RowStart(matrix, row) == FoldFunctionOnSet(+, 0, [r \in 0..(DomainSize - 1) |-> RowCount(matrix, r)], 0..(row - 1))

\* The ends are kept apart from the cursors, which pass two moves.
EndsOf(constraints) ==
    [m \in Matrices |-> [row \in 0..(constraints - 1) |-> RowStart(m, row + 1)]]

\* Between the passes the counts of the constraints that stay become offsets.
Offsets ==
    LET constraints == ConstraintsOf(first)
    IN  /\ phase = "counting" /\ Len(first) = declared
        /\ IF constraints < 0 THEN phase' = "refused" /\ UNCHANGED <<ends, cursors, cells>>
           ELSE /\ phase' = "filling"
                /\ cursors' = [m \in Matrices |-> [row \in 0..(constraints - 1) |-> RowStart(m, row)]]
                /\ ends' = EndsOf(constraints)
                /\ cells' = [m \in Matrices |-> [i \in 0..(RowStart(m, constraints) - 1) |-> Empty]]
        /\ UNCHANGED <<declared, first, second>>

Rows == DOMAIN cursors[0]

IsFull(record) ==
    cursors[record.matrix][record.constraint] >= ends[record.matrix][record.constraint]

\* Pass two: the count must not have changed; a record beyond the constraints
\* is dropped, and one that its row has no cell for is refused.
FillRecord ==
    /\ phase = "filling" /\ Len(second) < declared
    /\ \E record \in Records, sameCount \in BOOLEAN :
        IF ~sameCount \/ ~IsInRange(record) \/ ~IsCanonical(record)
           \/ (record.constraint \in Rows /\ IsFull(record))
        THEN phase' = "refused" /\ UNCHANGED <<second, cursors, cells>>
        ELSE /\ second' = Append(second, record)
             /\ phase' = phase
             /\ IF record.constraint \notin Rows THEN UNCHANGED <<cursors, cells>>
                ELSE LET m == record.matrix
                         place == cursors[m][record.constraint]
                     IN  /\ cells' = [cells EXCEPT ![m] = (place :> Cell(record)) @@ @]
                         /\ cursors' = [cursors EXCEPT ![m][record.constraint] = @ + 1]
    /\ UNCHANGED <<declared, first, ends>>

IsFilled == cursors = ends

\* Every row must have been filled; the cursors moved by one are the offsets.
Finish ==
    /\ phase = "filling" /\ Len(second) = declared
    /\ phase' = IF IsFilled THEN "done" ELSE "refused"
    /\ UNCHANGED <<declared, first, second, ends, cursors, cells>>

Next == CountRecord \/ Offsets \/ FillRecord \/ Finish
Spec == Init /\ [][Next]_vars

-----------------------------------------------------------------------------
(* Properties *)

\* Row r of a matrix as CompactMatrix finds it between its offsets.
CompactRow(m, row) ==
    LET start == IF row = 0 THEN 0 ELSE cursors[m][row - 1]
    IN  [k \in 1..(cursors[m][row] - start) |-> cells[m][start + k - 1]]

\* "equal total counts do not imply equal counts in each row": however the
\* source changes between the passes, a matrix that is accepted is exactly what
\* the second pass read, row by row and in order, with no cell left unwritten.
AcceptedRowsAreWhatWasRead ==
    phase = "done" => \A m \in Matrices : \A row \in Rows : CompactRow(m, row) = RowOf(second, m, row)

\* No record is written outside the arrays that pass one sized.
WritesStayInTheArrays ==
    phase \in {"filling", "done"} =>
        \A m \in Matrices : DOMAIN cells[m] = 0..(RowStart(m, ConstraintsOf(first)) - 1)

\* While the source does not change, the two parsers take the same sections
\* and build the same rows from them.
FormsBuildTheSameMatrices ==
    phase = "done" /\ first = second =>
        /\ NestedAccepts(first)
        /\ [m \in Matrices |-> [row \in Rows |-> CompactRow(m, row)]] = NestedRows(first)
=============================================================================
