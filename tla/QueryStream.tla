---------------------------- MODULE QueryStream ----------------------------
(***************************************************************************)
(* A point query of a zkey streamed through SPARROW's QueryAccumulator:    *)
(* the section arrives in pushes of any size, whole records are decoded    *)
(* one by one or, under `parallel`, in runs on the pool, and every         *)
(* ChunkPoints pairs are folded into the buckets.                          *)
(*                                                                         *)
(* The readers of the crate and the browser adapter drop the proof after a *)
(* push that failed.  A caller of the framing interface may go on, and     *)
(* StreamingProofBuilder then counts and hashes only the other pushes.     *)
(***************************************************************************)
EXTENDS Naturals, Sequences, SequencesExt, FiniteSetsExt

CONSTANTS
    RecordBytes,    \* bytes of an encoded point
    Expected,       \* points of the query
    ScalarOffset,   \* scalars of the assignment before the query's first
    ZeroScalars,    \* positions of the assignment that hold zero
    ChunkPoints,    \* msm_chunk_points
    Parallel,       \* whether the crate is built with `parallel`
    MinRun,         \* parallel_min_records
    CarryOn         \* whether the caller goes on after a push that failed

QueryStreamAssumption ==
    /\ {RecordBytes, ChunkPoints, MinRun} \subseteq Nat \ {0}
    /\ {Expected, ScalarOffset} \subseteq Nat
    /\ {Parallel, CarryOn} \subseteq BOOLEAN

VARIABLES
    query,      \* the accumulator
    accepted,   \* ghost: the bytes of the pushes that succeeded
    failed,     \* ghost: whether a push failed
    outcome     \* "open", "rejected" or "finished"

vars == <<query, accepted, failed, outcome>>

\* Encodings by what the decoder and the endpoint check see of them.
Bytes == {"zero", "curve", "stray", "noncanonical"}
Decodes(record) == "noncanonical" \notin Range(record)
IsZero(record) == Range(record) = {"zero"}
Validate(record) == "stray" \notin Range(record)

SectionBytes == Expected * RecordBytes

Init ==
    /\ query = [seen |-> 0, carry |-> <<>>, pairs |-> <<>>, folded |-> <<>>,
                first |-> <<>>, last |-> <<>>]
    /\ accepted = <<>> /\ failed = FALSE /\ outcome = "open"

\* The scalar after the point's own.
Pairs_OffByOne(seen, points) ==
    LET at == [i \in DOMAIN points |-> [scalar |-> ScalarOffset + seen + i + 1, point |-> points[i]]]
    IN  SelectSeq(at, LAMBDA p : ~IsZero(p.point) /\ p.scalar \notin ZeroScalars)

\* A point with its scalar; zeros of either kind contribute nothing.
Pairs(seen, points) ==
    LET at == [i \in DOMAIN points |-> [scalar |-> ScalarOffset + seen + i, point |-> points[i]]]
    IN  SelectSeq(at, LAMBDA p : ~IsZero(p.point) /\ p.scalar \notin ZeroScalars)

Flush(q) ==
    IF q.pairs = <<>> THEN q
    ELSE [q EXCEPT !.folded = Append(@, q.pairs), !.pairs = <<>>]

\* Points enter the current chunk; a full chunk is folded.
Enter(q, points) ==
    LET entered == [q EXCEPT !.seen = @ + Len(points),
                             !.pairs = @ \o Pairs(q.seen, points)]
    IN  IF Len(entered.pairs) = ChunkPoints THEN Flush(entered) ELSE entered

Endpoints(q, points) ==
    [q EXCEPT !.first = IF @ = <<>> THEN Head(points) ELSE @,
              !.last = Last(points)]

\* A step of the accumulator: what it is afterwards, and whether `?` returned.
Step(q, ok) == [query |-> q, ok |-> ok]

ProcessRecord(s, record) ==
    IF ~s.ok \/ s.query.seen >= Expected \/ ~Decodes(record)
    THEN Step(s.query, FALSE)
    ELSE Step(Enter(Endpoints(s.query, <<record>>), <<record>>), TRUE)

\* The endpoints of a run are decoded and kept before the rest is.
ProcessRun(q, run) ==
    IF \/ Len(run) > Expected - q.seen
       \/ q.first = <<>> /\ ~Decodes(Head(run))
    THEN Step(q, FALSE)
    ELSE IF ~Decodes(Last(run))
    THEN Step([q EXCEPT !.first = IF @ = <<>> THEN Head(run) ELSE @], FALSE)
    ELSE IF \E i \in DOMAIN run : ~Decodes(run[i])
    THEN Step(Endpoints(q, run), FALSE)
    ELSE Step(Enter(Endpoints(q, run), run), TRUE)

\* A run never extends past the free space of the current chunk.
RunLength(q, records) ==
    IF Parallel THEN Min({Len(records), ChunkPoints - Len(q.pairs)}) ELSE Len(records)

RECURSIVE ProcessRecords(_, _)
ProcessRecords(s, records) ==
    IF ~s.ok \/ records = <<>> THEN s
    ELSE LET run == RunLength(s.query, records)
             head == SubSeq(records, 1, run)
             done == IF Parallel /\ run >= MinRun
                     THEN ProcessRun(s.query, head)
                     ELSE FoldLeft(ProcessRecord, s, head)
         IN  ProcessRecords(done, SubSeq(records, run + 1, Len(records)))

\* as_chunks: the whole records of a byte string, and what is left of it.
WholeRecords(bytes) ==
    [i \in 1..(Len(bytes) \div RecordBytes) |->
        SubSeq(bytes, (i - 1) * RecordBytes + 1, i * RecordBytes)]
Remainder(bytes) ==
    SubSeq(bytes, Len(bytes) - (Len(bytes) % RecordBytes) + 1, Len(bytes))

\* QueryAccumulator::push.  A carried record is taken before it is processed.
Pushed(q, bytes) ==
    LET take == IF q.carry = <<>> THEN 0
                ELSE Min({RecordBytes - Len(q.carry), Len(bytes)})
        filled == q.carry \o SubSeq(bytes, 1, take)
        rest == SubSeq(bytes, take + 1, Len(bytes))
        carried == IF take > 0 /\ Len(filled) = RecordBytes
                   THEN ProcessRecord(Step([q EXCEPT !.carry = <<>>], TRUE), filled)
                   ELSE Step([q EXCEPT !.carry = filled], TRUE)
        done == ProcessRecords(carried, WholeRecords(rest))
    IN  IF done.ok
        THEN Step([done.query EXCEPT !.carry = @ \o Remainder(rest)], TRUE)
        ELSE done

\* push_section_chunk over this processor.
Push(bytes) ==
    /\ outcome = "open" /\ (failed => CarryOn)
    /\ Len(accepted) + Len(bytes) <= SectionBytes
    /\ LET done == Pushed(query, bytes)
       IN  /\ query' = done.query
           /\ accepted' = IF done.ok THEN accepted \o bytes ELSE accepted
           /\ failed' = (failed \/ ~done.ok)
    /\ UNCHANGED outcome

\* end_section over this processor: `finish` consumes it.
Finish ==
    /\ outcome = "open" /\ Len(accepted) = SectionBytes
    /\ outcome' = IF /\ query.carry = <<>> /\ query.seen = Expected
                     /\ Validate(query.first) /\ Validate(query.last)
                  THEN "finished" ELSE "rejected"
    /\ query' = IF outcome' = "finished" THEN Flush(query) ELSE query
    /\ UNCHANGED <<accepted, failed>>

Next ==
    \/ \E n \in 0..(SectionBytes - Len(accepted)) :
           \E bytes \in [1..n -> Bytes] : Push(bytes)
    \/ Finish

Spec == Init /\ [][Next]_vars

-----------------------------------------------------------------------------
(* Properties *)

\* Carries are shorter than a record and no more points than expected are in.
TypeOK ==
    /\ query.seen \in 0..Expected
    /\ Len(query.carry) < RecordBytes
    /\ Range(accepted) \subseteq Bytes
    /\ outcome \in {"open", "rejected", "finished"}

\* The terms of the bytes that were accepted.
TermsOf(bytes) ==
    LET records == WholeRecords(bytes)
        used == {i \in DOMAIN records : ~IsZero(records[i]) /\ ScalarOffset + i \notin ZeroScalars}
    IN  [k \in 1..Cardinality(used) |->
            LET i == SetToSortSeq(used, <)[k]
            IN  [scalar |-> ScalarOffset + i, point |-> records[i]]]

\* A query that finishes has folded the point of every accepted record with
\* its own scalar, once and in order, however the bytes were split.
FinishedQueryIsExact ==
    outcome = "finished" /\ ~failed => FlattenSeq(query.folded) = TermsOf(accepted)

\* Runs decoded on the pool fill the same chunks as the serial loop: every
\* folded chunk but the last is full, and the current one always has room (a
\* run of no records would never end).
ChunksAreSerial ==
    /\ Len(query.pairs) < ChunkPoints
    /\ \A i \in DOMAIN query.folded :
         /\ Len(query.folded[i]) <= ChunkPoints
         /\ Len(query.folded[i]) < ChunkPoints => outcome = "finished" /\ i = Len(query.folded)

\* The endpoints a finished query was checked at are its own.
EndpointsAreTheQuerys ==
    outcome = "finished" /\ ~failed =>
        LET records == WholeRecords(accepted)
        IN  records # <<>> => query.first = Head(records) /\ query.last = Last(records)
=============================================================================
