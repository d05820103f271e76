--------------------------- MODULE ZkeyManifests ---------------------------
(***************************************************************************)
(* Chunk manifests of a zkey: generated from a reader, decoded against two *)
(* pins, verified against a zkey by release tooling, and used to read a    *)
(* zkey forward (ManifestReader).                                          *)
(*                                                                         *)
(* Another process may write to the zkey while it is read.  A digest is    *)
(* the bytes it was taken of, so a manifest can be written out as it is.   *)
(***************************************************************************)
EXTENDS Integers, Sequences, FiniteSets, SequencesExt

CONSTANTS
    Zkeys,      \* files that may be published, of different lengths
    ChunkBytes, MaxWrites, None

ManifestAssumption == ChunkBytes \in Nat \ {0} /\ MaxWrites \in Nat /\ <<>> \notin Zkeys

VARIABLES
    file, writes,   \* the source, and how often it was written to
    manifest,       \* the encoded manifest
    trusted,        \* the decoded one
    verified,       \* what verify_reader answered
    reader,         \* ManifestReader
    delivered,      \* ghost: the bytes it delivered
    dirty,          \* ghost: the source differed from the manifest during a read
    last

vars == <<file, writes, manifest, trusted, verified, reader, delivered, dirty, last>>

ChunksOf(bytes) ==
    [k \in 1..((Len(bytes) + ChunkBytes - 1) \div ChunkBytes) |->
        SubSeq(bytes, (k - 1) * ChunkBytes + 1, Min({k * ChunkBytes, Len(bytes)}))]
Written(bytes) ==
    {[bytes EXCEPT ![i] = 0] : i \in DOMAIN bytes} \cup {Front(bytes), Append(bytes, 0)} \cup Zkeys

Init ==
    /\ file \in Zkeys /\ writes = 0
    /\ manifest = None /\ trusted = None /\ verified = None /\ reader = None
    /\ delivered = <<>> /\ dirty = FALSE /\ last = "none"

Write ==
    /\ writes < MaxWrites
    /\ file' \in Written(file) \ {<<>>, file}
    /\ writes' = writes + 1
    /\ dirty' = (dirty \/ (trusted # None /\ file' # FlattenSeq(trusted.hashes)))
    /\ UNCHANGED <<manifest, trusted, verified, reader, delivered, last>>

\* generate reads the zkey once.
Encode(bytes) == [bytes |-> Len(bytes), sha256 |-> bytes, count |-> Len(ChunksOf(bytes)), hashes |-> ChunksOf(bytes)]

Generate ==
    /\ manifest = None
    /\ manifest' = Encode(file)
    /\ UNCHANGED <<file, writes, trusted, verified, reader, delivered, dirty, last>>

\* A manifest made some other way, its claims and its table at odds.
Forge ==
    /\ manifest = None
    /\ manifest' \in {[Encode(file) EXCEPT !.sha256 = other] : other \in Zkeys}
                     \cup {[Encode(file) EXCEPT !.bytes = @ + 1], [Encode(file) EXCEPT !.count = @ + 1]}
                     \cup {[Encode(file) EXCEPT !.bytes = @ - ChunkBytes]}
    /\ UNCHANGED <<file, writes, trusted, verified, reader, delivered, dirty, last>>

\* The header's sizes against each other and against the table.
Consistent(m) ==
    /\ m.bytes > 0 /\ m.count = (m.bytes + ChunkBytes - 1) \div ChunkBytes
    /\ m.count = Len(m.hashes)

\* from_bytes under the manifest's own pin and a pin of the zkey.
FromBytes(expectedZkey) ==
    /\ manifest # None /\ trusted = None
    /\ trusted' = IF expectedZkey = manifest.sha256 /\ Consistent(manifest) THEN manifest ELSE None
    /\ last' = IF trusted' = None THEN "refused" ELSE "decoded"
    /\ UNCHANGED <<file, writes, manifest, verified, reader, delivered, dirty>>

\* verify_reader: chunk by chunk, nothing after them, and the whole digest.
Verifies(m) ==
    /\ Len(file) = m.bytes
    /\ \A k \in DOMAIN m.hashes :
           SubSeq(file, (k - 1) * ChunkBytes + 1, Min({k * ChunkBytes, m.bytes})) = m.hashes[k]
    /\ file = m.sha256

VerifyReader ==
    /\ trusted # None /\ reader = None
    /\ verified' = [accepted |-> Verifies(trusted), file |-> file]
    /\ UNCHANGED <<file, writes, manifest, trusted, reader, delivered, dirty, last>>

-----------------------------------------------------------------------------
(* ManifestReader *)

Open ==
    /\ trusted # None /\ reader = None
    /\ reader' = [chunk |-> <<>>, position |-> 0, next |-> 0, delivered |-> 0, offset |-> 0]
    /\ delivered' = <<>> /\ dirty' = (file # FlattenSeq(trusted.hashes)) /\ last' = "none"
    /\ UNCHANGED <<file, writes, manifest, trusted, verified>>

WantedChunk == Min({trusted.bytes - reader.delivered, ChunkBytes})

Copied(r, n) ==
    LET count == Min({n, Len(r.chunk) - r.position})
    IN  /\ reader' = [r EXCEPT !.position = @ + count, !.delivered = @ + count]
        /\ delivered' = delivered \o SubSeq(r.chunk, r.position + 1, r.position + count)
        /\ last' = "read"

\* What is left of the chunk at hand.
ReadHere(n) ==
    /\ reader # None /\ n > 0 /\ reader.delivered # trusted.bytes
    /\ reader.position # Len(reader.chunk)
    /\ Copied(reader, n)
    /\ UNCHANGED <<file, writes, manifest, trusted, verified, dirty>>

\* A chunk stays unavailable until it is authenticated.
Unavailable(r, count) == [r EXCEPT !.position = count]


\* The next chunk; read_exact takes what the source has before it fails.
ReadNext(n) ==
    /\ reader # None /\ n > 0 /\ reader.delivered # trusted.bytes
    /\ reader.position = Len(reader.chunk)
    /\ LET got == SubSeq(file, reader.offset + 1, Min({reader.offset + WantedChunk, Len(file)}))
           old == [i \in 1..WantedChunk |-> IF i <= Len(reader.chunk) THEN reader.chunk[i] ELSE 0]
           chunk == [i \in 1..WantedChunk |-> IF i <= Len(got) THEN got[i] ELSE old[i]]
           taken == Unavailable([reader EXCEPT !.chunk = chunk, !.offset = @ + Len(got)], WantedChunk)
       IN  IF Len(got) < WantedChunk
           THEN reader' = taken /\ last' = "eof" /\ UNCHANGED delivered
           ELSE IF chunk # trusted.hashes[reader.next + 1]
           THEN reader' = taken /\ last' = "mismatch" /\ UNCHANGED delivered
           ELSE Copied([taken EXCEPT !.next = @ + 1, !.position = 0], n)
    /\ UNCHANGED <<file, writes, manifest, trusted, verified, dirty>>

\* finish: everything was delivered and the source has no more.
Finish ==
    /\ reader # None
    /\ last' = IF reader.delivered # trusted.bytes THEN "short"
               ELSE IF Len(file) > reader.offset THEN "trailing" ELSE "finished"
    /\ reader' = None
    /\ UNCHANGED <<file, writes, manifest, trusted, verified, delivered, dirty>>

Next ==
    \/ Write \/ Generate \/ Forge \/ VerifyReader \/ Open \/ Finish
    \/ \E expected \in Zkeys : FromBytes(expected)
    \/ \E n \in 1..ChunkBytes : ReadHere(n) \/ ReadNext(n)

Spec == Init /\ [][Next]_vars

-----------------------------------------------------------------------------
(* Properties *)

\* A reader counts what it delivered, chunk after chunk.
TypeOK ==
    reader # None =>
        /\ reader.delivered = Len(delivered) /\ reader.delivered <= trusted.bytes
        /\ reader.position <= Len(reader.chunk)

\* "Authenticates complete chunks before exposing any bytes": what a reader
\* delivers, however often it is read on after a failure, is a prefix of the
\* manifest's chunks.
OnlyManifestBytesAreDelivered ==
    trusted # None => IsPrefix(delivered, FlattenSeq(trusted.hashes))

\* A manifest that release tooling verified is consistent with itself: the
\* digest that one-pass loading never recomputes is that of its chunks.
VerifiedIsConsistent ==
    verified # None /\ verified.accepted => trusted = Encode(verified.file)

\* Generating, decoding and reading agree: with the manifest of some file, that
\* file verifies and, untouched, is read to its end, the short chunk included.
OnlyChangesFail ==
    trusted # None /\ trusted = Encode(trusted.sha256) =>
        /\ last \in {"eof", "mismatch", "trailing"} => dirty
        /\ verified # None /\ ~verified.accepted => verified.file # trusted.sha256

\* A reader that finishes delivered every chunk of the manifest.
FinishedIsWhole ==
    last = "finished" => delivered = FlattenSeq(trusted.hashes) /\ Len(delivered) = trusted.bytes
=============================================================================
