--------------------------- MODULE ManifestStream ---------------------------
(***************************************************************************)
(* A zkey streamed under a chunk manifest (ManifestProofStream): every     *)
(* chunk is hashed before a byte of it reaches the framer, which cuts the  *)
(* bytes into the sections the proof builder takes.                        *)
(*                                                                         *)
(* Byte i of the pinned file is i and an altered byte is 0.  A digest is   *)
(* the bytes it was taken of.  With `parallel`, a complete chunk is framed *)
(* while the next one is hashed.                                           *)
(***************************************************************************)
EXTENDS Integers, Sequences, FiniteSets, SequencesExt

CONSTANTS
    Layouts,        \* the lengths of the sections of each pinned file
    HeaderBytes,    \* FILE_HEADER_BYTES and SECTION_HEADER_BYTES
    Sections,       \* ZKEY_SECTIONS
    ChunkBytes,     \* the manifest's chunk size
    BatchChunks,    \* chunks the native reader authenticates at once
    MaxFaults,      \* calls with bytes other than the next of the file
    NoChunk

StreamAssumption ==
    /\ HeaderBytes \in Nat \ {0} /\ ChunkBytes \in Nat \ {0} /\ BatchChunks \in Nat \ {0}
    /\ Sections \in Nat \ {0} /\ MaxFaults \in Nat

VARIABLES
    layout,     \* the pinned file
    parallel,   \* the build has `parallel`
    host,       \* "pieces": push, push_complete_chunk; "reader": the native loop
    stream,     \* ManifestProofStream with its framer
    sent,       \* the caller's position in the file
    faults,
    spoiled,    \* ghost: bytes were altered, skipped, or lost to a failed push
    outcome     \* open, finished, or why a call of an unspoiled caller failed

vars == <<layout, parallel, host, stream, sent, faults, spoiled, outcome>>

-----------------------------------------------------------------------------
(* The pinned file *)

\* Where the header of each section starts.
Starts(lengths) ==
    [k \in 1..(Len(lengths) + 1) |->
        HeaderBytes * k + FoldLeft(LAMBDA x, y : x + y, 1, SubSeq(lengths, 1, k - 1))]
Headers == [lengths \in Layouts |-> Starts(lengths)]
Files == [lengths \in Layouts |-> [i \in 1..(Headers[lengths][Len(lengths) + 1] - 1) |-> i]]
File == Files[layout]
Size == Len(File)
ChunkAt(k) == SubSeq(File, k * ChunkBytes + 1, Min({(k + 1) * ChunkBytes, Size}))
ChunkCount == (Size + ChunkBytes - 1) \div ChunkBytes

\* The length a section header declares; a garbled header declares none.
DeclaredLength(header) ==
    LET here == {k \in 1..Len(layout) : Headers[layout][k] = header[1]}
    IN  IF header = [i \in 1..HeaderBytes |-> header[1] + i - 1] /\ here # {}
        THEN layout[CHOOSE k \in here : TRUE] ELSE 0

-----------------------------------------------------------------------------
(* The framer *)

NewFramer == [state |-> "file", remaining |-> 0, header |-> <<>>, sections |-> 0,
              calls |-> <<>>, parsed |-> <<>>]

Called(framer, call) == [framer EXCEPT !.calls = Append(@, call)]

\* A section's body is collected as one call, wherever it was cut.
BodyPushed(framer, bytes) ==
    IF Last(framer.calls)[1] = "push_section_chunk"
    THEN [framer EXCEPT !.calls[Len(framer.calls)][2] = @ \o bytes]
    ELSE Called(framer, <<"push_section_chunk", bytes>>)

EndSection(framer) ==
    LET sections == framer.sections + 1
    IN  [Called(framer, <<"end_section">>) EXCEPT
            !.sections = sections, !.remaining = 0,
            !.state = IF sections = Sections THEN "done" ELSE "section"]

HeaderRead(framer) ==
    LET header == framer.header
        taken == [framer EXCEPT !.header = <<>>]
    IN  IF framer.state = "file"
        THEN [Called(taken, <<"begin_zkey", header>>) EXCEPT !.state = "section"]
        ELSE LET begun == Called(taken, <<"begin_section", header>>)
             IN  IF DeclaredLength(header) = 0 THEN EndSection(begun)
                 ELSE [begun EXCEPT !.state = "body", !.remaining = DeclaredLength(header)]

\* One turn of the loop of ZkeyFramer::push; `parsed` collects what it took.  A
\* header may come in several pushes.
RECURSIVE Framed(_, _)
Framed(framer, bytes) ==
    LET wanted == IF framer.state = "body" THEN framer.remaining ELSE HeaderBytes - Len(framer.header)
        take == SubSeq(bytes, 1, Min({wanted, Len(bytes)}))
        rest == SubSeq(bytes, Len(take) + 1, Len(bytes))
        next == [framer EXCEPT !.parsed = @ \o take]
        body == [BodyPushed(next, take) EXCEPT !.remaining = @ - Len(take)]
        header == [next EXCEPT !.header = @ \o take]
    IN  IF bytes = <<>> THEN [ok |-> TRUE, framer |-> framer]
        ELSE IF framer.state = "done" THEN [ok |-> FALSE, framer |-> framer]
        ELSE IF framer.state = "body"
             THEN Framed(IF body.remaining = 0 THEN EndSection(body) ELSE body, rest)
        ELSE Framed(IF Len(header.header) < HeaderBytes THEN header ELSE HeaderRead(header), rest)

-----------------------------------------------------------------------------
(* The stream *)

Result(s, ok) == [stream |-> s, ok |-> ok]

FrameAuthenticated(s) ==
    LET framed == Framed(s.framer, s.authenticated)
    IN  IF s.authenticated = NoChunk THEN Result(s, TRUE)
        ELSE Result([s EXCEPT !.framer = framed.framer, !.authenticated = NoChunk], framed.ok)

\* Mutation: the digest of any later chunk will do.
Matches_Later(k, bytes) == \E other \in k..(ChunkCount - 1) : bytes = ChunkAt(other)
\* The digest of the next chunk of the manifest.
Matches(k, bytes) == k < ChunkCount /\ bytes = ChunkAt(k)

AuthenticateChunk(s, bytes) ==
    LET ready == FrameAuthenticated(s)
        framed == Framed(ready.stream.framer, bytes)
    IN  IF ~ready.ok \/ ~Matches(s.next, bytes) THEN Result(ready.stream, FALSE)
        ELSE Result([ready.stream EXCEPT !.framer = framed.framer,
                                         !.next = IF framed.ok THEN @ + 1 ELSE @], framed.ok)

\* The loop of push: chunks are authenticated as they fill up.
RECURSIVE Filled(_, _)
Filled(s, bytes) ==
    LET take == Min({ChunkBytes - Len(s.pending), Len(bytes)})
        pending == s.pending \o SubSeq(bytes, 1, take)
        rest == SubSeq(bytes, take + 1, Len(bytes))
        done == AuthenticateChunk([s EXCEPT !.pending = <<>>], pending)
    IN  IF bytes = <<>> THEN Result(s, TRUE)
        ELSE IF Len(pending) < ChunkBytes THEN Filled([s EXCEPT !.pending = pending], rest)
        ELSE IF done.ok THEN Filled(done.stream, rest) ELSE done

PushResult(s, bytes) ==
    LET counted == [s EXCEPT !.received = @ + Len(bytes)]
    IN  IF counted.received > Size THEN Result(counted, FALSE) ELSE Filled(counted, bytes)

\* check_complete_chunk.
IsCompleteChunk(s, bytes) ==
    /\ s.pending = <<>> /\ s.received <= Size
    /\ bytes # <<>> /\ Len(bytes) = Min({Size - s.received, ChunkBytes})

PushCompleteResult(s, bytes) ==
    LET ready == FrameAuthenticated(s)
        serial == AuthenticateChunk(s, bytes)
        counted(x) == [x EXCEPT !.received = @ + Len(bytes)]
    IN  IF ~IsCompleteChunk(s, bytes) \/ s.next >= ChunkCount THEN Result(s, FALSE)
        ELSE IF ~parallel
             THEN IF serial.ok THEN Result(counted(serial.stream), TRUE) ELSE serial
        ELSE IF ~ready.ok \/ ~Matches(s.next, bytes) THEN Result(ready.stream, FALSE)
        ELSE Result([counted(ready.stream) EXCEPT !.next = @ + 1, !.authenticated = bytes], TRUE)

\* push_complete_chunks_ref: the whole batch is hashed before any is framed.
BatchResult(s, bytes) ==
    LET count == (Len(bytes) + ChunkBytes - 1) \div ChunkBytes
        chunk(k) == SubSeq(bytes, k * ChunkBytes + 1, Min({(k + 1) * ChunkBytes, Len(bytes)}))
        framed == FoldLeft(LAMBDA f, k : IF f.ok THEN Framed(f.framer, chunk(k - 1)) ELSE f,
                           [ok |-> TRUE, framer |-> s.framer], [k \in 1..count |-> k])
    IN  IF \E k \in 0..(count - 1) : ~Matches(s.next + k, chunk(k)) THEN Result(s, FALSE)
        ELSE Result([s EXCEPT !.framer = framed.framer, !.next = @ + count,
                              !.received = @ + Len(bytes)], framed.ok)

-----------------------------------------------------------------------------
(* Actions *)

Init ==
    /\ layout \in Layouts /\ parallel \in BOOLEAN /\ host \in {"pieces", "reader"}
    /\ stream = [next |-> 0, received |-> 0, pending |-> <<>>, authenticated |-> NoChunk,
                 framer |-> NewFramer]
    /\ sent = 0 /\ faults = 0 /\ spoiled = FALSE /\ outcome = "open"

\* What a caller may pass for n bytes: the next of the file, the same with its
\* first or last altered, or bytes from one chunk further on or further back.
Pieces(n) ==
    LET next == SubSeq(File, sent + 1, Min({sent + n, Size}))
    IN  {next} \cup {[next EXCEPT ![i] = 0] : i \in {1, Len(next)} \cap DOMAIN next}
             \cup {SubSeq(File, at + 1, Min({at + n, Size})) :
                       at \in {sent - ChunkBytes, sent + ChunkBytes} \cap 0..(Size - 1)}
IsNext(bytes) == bytes = SubSeq(File, sent + 1, Min({sent + Len(bytes), Size}))
Expected(bytes) == faults' = IF IsNext(bytes) THEN faults ELSE faults + 1

\* A caller takes its position from the calls that succeed; after one that
\* fails it may retry, or go on.
Answered(result, bytes, keeps) ==
    /\ stream' = result.stream
    /\ IF result.ok
       THEN /\ sent' = Min({sent + Len(bytes), Size})
            /\ spoiled' = (spoiled \/ ~IsNext(bytes))
            /\ UNCHANGED outcome
       ELSE \E retries \in BOOLEAN :
                /\ sent' = IF retries THEN sent ELSE Min({sent + Len(bytes), Size})
                /\ spoiled' = (spoiled \/ ~retries \/ ~keeps)
                /\ outcome' = IF IsNext(bytes) /\ ~spoiled THEN "refused" ELSE outcome
    /\ UNCHANGED <<layout, parallel, host>>

\* Once more than the file was received every push fails: one such is enough.
Push(bytes) ==
    /\ outcome = "open" /\ host = "pieces" /\ bytes # <<>>
    /\ stream.received <= Size
    /\ Expected(bytes) /\ faults' <= MaxFaults
    /\ Answered(PushResult(stream, bytes), bytes, FALSE)

\* With a chunk half pushed, complete chunks wait.
PushCompleteChunk(bytes) ==
    /\ outcome = "open" /\ host = "pieces" /\ bytes # <<>>
    /\ IsNext(bytes) => IsCompleteChunk(stream, bytes) \/ spoiled
    /\ Expected(bytes) /\ faults' <= MaxFaults
    /\ Answered(PushCompleteResult(stream, bytes), bytes, TRUE)

\* prove_reader_with_manifest_owned; its stream is dropped on the first error.
ReadBatch(bytes) ==
    /\ outcome = "open" /\ host = "reader" /\ stream.received < Size
    /\ Len(bytes) = Min({Size - stream.received, BatchChunks * ChunkBytes})
    /\ Expected(bytes) /\ faults' <= MaxFaults
    /\ LET result == BatchResult(stream, bytes)
       IN  /\ stream' = result.stream
           /\ outcome' = IF result.ok THEN "open" ELSE IF IsNext(bytes) THEN "refused" ELSE "dropped"
           /\ sent' = IF result.ok THEN sent + Len(bytes) ELSE sent
    /\ UNCHANGED <<layout, parallel, host, spoiled>>

\* The bytes of the last chunk may still be pending.
LastChunk(s) ==
    IF s.received # Size THEN Result(s, FALSE)
    ELSE IF s.pending = <<>> THEN Result(s, TRUE)
    ELSE AuthenticateChunk([s EXCEPT !.pending = <<>>], s.pending)

FinishResult(last) ==
    LET framed == FrameAuthenticated(last.stream)
    IN  IF ~last.ok \/ last.stream.next # ChunkCount THEN Result(last.stream, FALSE)
        ELSE Result(framed.stream, framed.ok /\ framed.stream.framer.state = "done")

Finish ==
    /\ outcome = "open"
    /\ \E last \in {LastChunk(stream)} :
        LET result == FinishResult(last)
        IN  /\ stream' = result.stream
            /\ outcome' = IF result.ok THEN "finished"
                          ELSE IF sent = Size /\ ~spoiled THEN "refused" ELSE "dropped"
    /\ UNCHANGED <<layout, parallel, host, sent, faults, spoiled>>

Next ==
    \/ \E n \in 1..(ChunkBytes + 1) : \E bytes \in Pieces(n) : Push(bytes)
    \/ \E n \in 1..ChunkBytes : \E bytes \in Pieces(n) : PushCompleteChunk(bytes)
    \/ \E bytes \in Pieces(BatchChunks * ChunkBytes) : ReadBatch(bytes)
    \/ Finish

Spec == Init /\ [][Next]_vars

-----------------------------------------------------------------------------
(* Properties *)

\* A chunk is pending or waiting to be framed, and less than one is pending.
TypeOK ==
    /\ Len(stream.pending) < ChunkBytes
    /\ stream.authenticated # NoChunk => parallel /\ host = "pieces"
    /\ stream.next \in 0..ChunkCount
    /\ sent \in 0..Size

\* "No byte is parsed before its chunk is authenticated, and chunks are parsed
\* in order": whatever the caller passed and retried, the parser has seen a
\* prefix of the pinned file.
OnlyAuthenticatedIsParsed == IsPrefix(stream.framer.parsed, File)

\* The builder's calls are those of the file read in one piece: no header is
\* lost and no section ends early at a chunk boundary.
FramingFollowsTheFile ==
    Framed(NewFramer, stream.framer.parsed) = [ok |-> TRUE, framer |-> stream.framer]

\* A caller that passes the file's bytes in order, however it cuts them and
\* mixes the two calls, and that resends a complete chunk that was refused,
\* is never refused itself.
HonestBytesAreTaken == outcome # "refused"

\* A stream only finishes with every byte of the file parsed.
FinishedMeansWhole ==
    outcome = "finished" =>
        /\ stream.framer.parsed = File /\ stream.framer.sections = Sections
        /\ stream.next = ChunkCount
=============================================================================
