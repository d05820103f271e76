------------------------- MODULE CoefficientStream -------------------------
(***************************************************************************)
(* The coefficient section of a zkey streamed through SPARROW's            *)
(* CoefficientAccumulator: a declared count, then one record per non-zero  *)
(* coefficient of A and B in any order, decoded a batch at a time and      *)
(* summed into the rows of the QAP.                                        *)
(*                                                                         *)
(* The file also holds a row of A for each input; the accumulator drops    *)
(* them and copies the inputs instead.                                     *)
(***************************************************************************)
EXTENDS Groth16Ops

CONSTANTS
    Assignment,     \* the satisfying assignment of each circuit
    RecordBytes, PrefixBytes,
    BatchSizes,     \* msm_chunk_points
    NoIndex         \* no constraint was seen

VARIABLES
    file,       \* the circuit, the declared count and the records
    sent,       \* how many bytes of the file have been pushed
    acc,        \* the accumulator
    spoiled,    \* ghost: whether a push failed
    outcome, h

vars == <<file, sent, acc, spoiled, outcome, h>>

Circuit == file.circuit
W == AsVector(Assignment[Circuit])
DomainSize == WitnessDomain(Circuit.inputs, Len(Circuit.a), Circuit.variables)

\* The records of a circuit's section, the input rows included.
Terms(rows, matrix) ==
    FlattenSeq([j \in DOMAIN rows |->
        [k \in DOMAIN rows[j] |-> [matrix |-> matrix, constraint |-> j - 1,
                                   signal |-> rows[j][k].signal, value |-> rows[j][k].coefficient]]])
RecordsOf(c) ==
    Terms(c.a, 0) \o Terms(c.b, 1) \o
    [i \in 1..c.inputs |-> [matrix |-> 0, constraint |-> Len(c.a) + i - 1, signal |-> i - 1, value |-> 1]]

\* A key's own section, and sections a key could hold instead.
Genuine(c) == {[circuit |-> c, genuine |-> TRUE, declared |-> Len(records), records |-> records] :
                  records \in {RecordsOf(c), Reverse(RecordsOf(c))}}
Altered(c) ==
    LET records == RecordsOf(c)
        outside == [records[1] EXCEPT !.constraint = 8]
        noncanonical == [records[1] EXCEPT !.value = P]
        last == Front(records)
    IN  {[circuit |-> c, genuine |-> FALSE, declared |-> d, records |-> r] :
            <<d, r>> \in {<<Len(records) - 1, records>>, <<Len(records) + 1, records>>,
                          <<Len(last), last>>, <<Len(records) + 1, Append(records, outside)>>,
                          <<Len(records) + 1, <<noncanonical>> \o records>>, <<0, <<>>>>}}

\* The bytes of the section: byte k of a value is the value and k.
BytesOf(f) ==
    [k \in 1..PrefixBytes |-> <<[declared |-> f.declared], k>>] \o
    FlattenSeq([i \in DOMAIN f.records |-> [k \in 1..RecordBytes |-> <<f.records[i], k>>]])
\* A value is only read back from its own bytes, in order.
Garbled == [matrix |-> 2, constraint |-> 0, signal |-> 0, value |-> 0]
Decode(bytes) ==
    IF \A k \in DOMAIN bytes : bytes[k] = <<bytes[1][1], k>> THEN bytes[1][1] ELSE Garbled

Init ==
    /\ \E c \in Circuits : file \in Genuine(c) \cup Altered(c)
    /\ \E batch \in BatchSizes :
           acc = [a |-> [i \in 0..(DomainSize - 1) |-> 0], b |-> [i \in 0..(DomainSize - 1) |-> 0],
                  carry |-> <<>>, batch |-> <<>>, batchRecords |-> batch,
                  declared |-> NoIndex, seen |-> 0, maxConstraint |-> NoIndex]
    /\ sent = 0 /\ spoiled = FALSE /\ outcome = "open" /\ h = NoVector

\* decode_coefficient.
Decodes(record) ==
    /\ record.matrix \in {0, 1} /\ record.constraint < DomainSize
    /\ record.signal < Circuit.variables /\ record.value < P

Apply(x, record) ==
    LET term == (record.value * W[record.signal]) % P
        highest == IF x.maxConstraint = NoIndex THEN record.constraint
                   ELSE Max({x.maxConstraint, record.constraint})
    IN  IF record.matrix = 0
        THEN [x EXCEPT !.a[record.constraint] = (@ + term) % P, !.seen = @ + 1,
                       !.maxConstraint = highest]
        ELSE [x EXCEPT !.b[record.constraint] = (@ + term) % P, !.seen = @ + 1,
                       !.maxConstraint = highest]

Step(x, ok) == [acc |-> x, ok |-> ok]

\* The whole batch decodes before any of it is summed; a batch that does not
\* is kept.
Flush(x) ==
    IF \E i \in DOMAIN x.batch : ~Decodes(Decode(x.batch[i])) THEN Step(x, FALSE)
    ELSE Step([FoldLeft(LAMBDA y, record : Apply(y, Decode(record)), x, x.batch)
                  EXCEPT !.batch = <<>>], TRUE)

QueueRecord(s, record) ==
    LET queued == [s.acc EXCEPT !.batch = Append(@, record)]
    IN  IF ~s.ok THEN s
        ELSE IF Len(queued.batch) = queued.batchRecords THEN Flush(queued) ELSE Step(queued, TRUE)

\* Bytes completed by what is carried: what is carried then, and what is left.
Take(x, bytes, width) ==
    LET take == Min({width - Len(x.carry), Len(bytes)})
    IN  [carry |-> x.carry \o SubSeq(bytes, 1, take), rest |-> SubSeq(bytes, take + 1, Len(bytes))]

Chunks(bytes) ==
    [i \in 1..(Len(bytes) \div RecordBytes) |-> SubSeq(bytes, (i - 1) * RecordBytes + 1, i * RecordBytes)]

\* The records of a push, once the count is known.
PushRecords(x, bytes) ==
    LET first == Take(x, bytes, RecordBytes)
        whole == x.carry # <<>> /\ Len(first.carry) = RecordBytes
        started == IF x.carry = <<>> THEN Step(x, TRUE)
                   ELSE IF whole THEN QueueRecord(Step([x EXCEPT !.carry = <<>>], TRUE), first.carry)
                   ELSE Step([x EXCEPT !.carry = first.carry], TRUE)
        rest == IF x.carry = <<>> THEN bytes ELSE first.rest
        done == FoldLeft(QueueRecord, started, Chunks(rest))
        tail == SubSeq(rest, Len(rest) - (Len(rest) % RecordBytes) + 1, Len(rest))
    IN  IF done.ok THEN Step([done.acc EXCEPT !.carry = @ \o tail], TRUE) ELSE done

Pushed(x, bytes) ==
    LET first == Take(x, bytes, PrefixBytes)
    IN  IF x.declared # NoIndex THEN PushRecords(x, bytes)
        ELSE IF Len(first.carry) < PrefixBytes THEN Step([x EXCEPT !.carry = first.carry], TRUE)
        ELSE PushRecords([x EXCEPT !.carry = <<>>, !.declared = Decode(first.carry).declared], first.rest)

\* A caller may go on after a push that failed.
Push(n) ==
    /\ outcome = "open" /\ sent + n <= Len(BytesOf(file))
    /\ LET done == Pushed(acc, SubSeq(BytesOf(file), sent + 1, sent + n))
       IN  acc' = done.acc /\ spoiled' = (spoiled \/ ~done.ok)
    /\ sent' = sent + n
    /\ UNCHANGED <<file, outcome, h>>

\* The last input row follows the last constraint.
NumConstraints(x) == x.maxConstraint - (Circuit.inputs - 1)

\* The rows after the constraints are zeroed and the inputs copied into A's.
RowsOf(x, count) ==
    LET cut(v) == [i \in DOMAIN v |-> IF i < count THEN v[i] ELSE 0]
    IN  [x EXCEPT !.a = PadInputs(cut(@), count, Circuit.inputs, W), !.b = cut(@)]

Finish ==
    /\ outcome = "open" /\ sent = Len(BytesOf(file))
    /\ LET flushed == Flush(acc)
           x == flushed.acc
           count == NumConstraints(x)
           accepted == /\ flushed.ok /\ x.carry = <<>> /\ x.declared = x.seen
                       /\ x.maxConstraint # NoIndex /\ count >= 0
                       /\ NextPowerOfTwo(count + Circuit.inputs) = DomainSize
           rows == RowsOf(x, count)
       IN  /\ outcome' = IF accepted THEN "finished" ELSE "rejected"
           /\ acc' = IF accepted THEN rows ELSE x
           /\ h' = IF accepted THEN FinishEvaluations(rows.a, rows.b, DomainSize, count) ELSE NoVector
    /\ UNCHANGED <<file, sent, spoiled>>

Next == (\E n \in 0..(Len(BytesOf(file)) - sent) : Push(n)) \/ Finish

Spec == Init /\ [][Next]_vars

-----------------------------------------------------------------------------
(* Properties *)

\* Records are counted once they are summed, and less than one is carried.
TypeOK ==
    /\ Len(acc.carry) < IF acc.declared = NoIndex THEN PrefixBytes ELSE RecordBytes
    /\ acc.seen + Len(acc.batch) <= Len(file.records)
    /\ ~spoiled => Len(acc.batch) <= acc.batchRecords
    /\ outcome \in {"open", "finished", "rejected"}

\* A key's own section is accepted in any order of its records, however it is
\* split, and gives the H the resident prover computes from its matrices.
StreamedQapIsResident ==
    file.genuine =>
        /\ ~spoiled /\ outcome # "rejected"
        /\ outcome = "finished" =>
              h = WitnessMap(Circuit.a, Circuit.b, Circuit.inputs, W, Circuit.variables)

\* A section with a record that does not decode never finishes, even when the
\* caller goes on after the push that reported it.
SpoiledNeverFinishes == spoiled => outcome # "finished"

\* With the same blinding, SPARROW's proof is the resident prover's.
StreamedProofIsResident ==
    file.genuine /\ outcome = "finished" =>
        StreamedProof(Circuit, Assignment[Circuit], 17, 101, h)
            = CreateProof(Circuit, Assignment[Circuit], 17, 101)
=============================================================================
