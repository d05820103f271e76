--------------------------- MODULE ArtifactFrame ---------------------------
(***************************************************************************)
(* How the bytes of a witness artifact are opened: authenticate, then the  *)
(* zstd frame of a graph (decompress_graph_with_limits), of a stored SAGE  *)
(* program (decode_compressed_program) or as the signet tool unwraps it    *)
(* (to_raw).  The frame's decoder is external: a read returns some of the  *)
(* content, fails where the frame is broken, or is at its end.             *)
(***************************************************************************)
EXTENDS Integers, FiniteSets, FiniteSetsExt

CONSTANTS
    Artifacts,          \* [magic, size, window, dictionary, declared, content,
                        \*  broken, checksum, trailing, program]
    GraphBytes, CompressedBytes, WindowBytes, StoredBytes,     \* Limits
    ToolBytes,          \* the tool's own bound on a graph
    InitialBytes, GrowthBytes, ChunkBytes

ASSUME FrameAssumption ==
    /\ {GraphBytes, CompressedBytes, WindowBytes, StoredBytes, ToolBytes, InitialBytes} \subseteq Nat
    /\ {GrowthBytes, ChunkBytes} \subseteq Nat \ {0}
    /\ InitialBytes < GraphBytes /\ ToolBytes >= GraphBytes
ASSUME ArtifactsAssumption ==
    \A a \in Artifacts :
        /\ {a.size, a.window, a.declared, a.content, a.broken, a.program} \subseteq Nat
        /\ {a.dictionary, a.trailing} \subseteq BOOLEAN

VARIABLES
    encoded, pinned,    \* the bytes and whether they hash to the pin
    loader,             \* "graph", "program" or "tool"
    decoded,            \* words of content read
    reserved,           \* words reserved for it
    outcome             \* "bytes", "decoding", "opened" or "refused"

frameVars == <<encoded, pinned, loader, decoded, reserved, outcome>>

FrameInit ==
    /\ encoded \in Artifacts /\ pinned \in BOOLEAN /\ loader \in {"graph", "program", "tool"}
    /\ decoded = 0 /\ reserved = 0 /\ outcome = "bytes"

\* is_zstd_artifact: a skippable frame is not one and is taken for a raw artifact.
IsZstd == encoded.magic = "zstd"

MaxOutput == IF loader = "graph" THEN GraphBytes ELSE IF loader = "program" THEN StoredBytes ELSE ToolBytes
MaxBytes ==
    IF loader = "program" THEN StoredBytes ELSE IF IsZstd THEN CompressedBytes ELSE GraphBytes

\* A frame may declare all that is allowed and fail at once.
InitialReservation == Min({encoded.declared, InitialBytes})

\* authenticate and from_compiled_bytes_with_limits, then the frame's header.
\* The tool authenticates through the evaluator before it unwraps.
OpenFrame ==
    /\ outcome = "bytes"
    /\ LET taken == pinned /\ (loader # "tool" => encoded.size <= MaxBytes)
           fits == /\ encoded.window <= WindowBytes /\ ~encoded.dictionary
                   /\ loader # "tool" => encoded.declared <= MaxOutput
       IN  outcome' = IF ~taken \/ (IsZstd /\ ~fits) THEN "refused"
                      ELSE IF IsZstd THEN "decoding"
                      ELSE IF encoded.magic = "raw" THEN "opened" ELSE "refused"
    /\ reserved' = IF outcome' = "decoding" /\ loader = "graph" THEN InitialReservation ELSE 0
    /\ UNCHANGED <<encoded, pinned, loader, decoded>>

\* The capacity a graph needs for `required` words grows in whole steps.
FrameCapacity(required) ==
    LET rounded == ((required + GrowthBytes - 1) \div GrowthBytes) * GrowthBytes
        bound == IF encoded.declared = 0 THEN MaxOutput ELSE encoded.declared
    IN  IF required > reserved THEN Min({rounded, bound}) ELSE reserved

Overruns(required) ==
    \/ required > MaxOutput
    \/ loader = "graph" /\ encoded.declared # 0 /\ required > encoded.declared
    \/ loader = "program" /\ required > encoded.program

\* A read of the next words, refused if they do not fit.
ReadFrame ==
    /\ outcome = "decoding" /\ decoded < encoded.content
    /\ IF decoded = encoded.broken
       THEN outcome' = "refused" /\ UNCHANGED <<decoded, reserved>>
       ELSE \E count \in 1..ChunkBytes :
            /\ decoded + count <= Min({encoded.content, encoded.broken})
            /\ IF Overruns(decoded + count)
               THEN outcome' = "refused" /\ UNCHANGED <<decoded, reserved>>
               ELSE /\ decoded' = decoded + count
                    /\ reserved' = IF loader = "graph" THEN FrameCapacity(decoded + count) ELSE reserved
                    /\ UNCHANGED outcome
    /\ UNCHANGED <<encoded, pinned, loader>>

\* Mutation: the source is not asked for what is left of it.
FrameIsWhole_AnyRest == encoded.checksum # "wrong"

\* A checksum must be right if there is one, and nothing may follow the frame.
FrameIsWhole == encoded.checksum # "wrong" /\ ~encoded.trailing

\* The end of the frame.  A program ends where its own counts say, which is the
\* declared size if there is one.
CloseFrame ==
    /\ outcome = "decoding" /\ decoded = encoded.content
    /\ LET size == CASE loader = "graph" -> encoded.declared \in {0, decoded}
                     [] loader = "program" -> encoded.program = decoded /\ encoded.declared \in {0, decoded}
                     [] loader = "tool" -> TRUE
       IN  outcome' = IF size /\ (loader = "tool" \/ FrameIsWhole) THEN "opened" ELSE "refused"
    /\ UNCHANGED <<encoded, pinned, loader, decoded, reserved>>

FrameNext == OpenFrame \/ ReadFrame \/ CloseFrame
FrameSpec == FrameInit /\ [][FrameNext]_frameVars

-----------------------------------------------------------------------------
(* Properties *)

\* "Do not reserve the full declared size up front ... grow in bounded chunks":
\* what is reserved is enough for what was read, and never more than a step
\* ahead of it, of the declared size or of the limit.
ReservationFollowsTheOutput ==
    loader = "graph" =>
        /\ decoded <= reserved \/ ~IsZstd
        /\ reserved <= InitialBytes \/ reserved < decoded + GrowthBytes
        /\ reserved <= GraphBytes /\ (encoded.declared # 0 => reserved <= encoded.declared)

\* "keeps the artifact-to-graph mapping injective": an artifact is opened if and
\* only if it is pinned, within its limits, and exactly one whole frame of the
\* size it declares - whatever a frame says, and wherever it breaks.
IsOneFrame ==
    /\ encoded.window <= WindowBytes /\ ~encoded.dictionary
    /\ encoded.declared \in {0, encoded.content} /\ encoded.content <= MaxOutput
    /\ encoded.broken >= encoded.content
    /\ encoded.checksum # "wrong" /\ ~encoded.trailing
    /\ loader = "program" => encoded.program = encoded.content
IsOpenable ==
    /\ pinned /\ encoded.size <= MaxBytes
    /\ encoded.magic = "raw" \/ (IsZstd /\ IsOneFrame)
OneWholeFrameIsOpened ==
    loader # "tool" /\ outcome \in {"opened", "refused"} => (outcome = "opened" <=> IsOpenable)

\* "Unwrap a zstd frame, bounded the way the evaluator bounds one": the tool
\* unwraps whatever frame the evaluator takes for a graph, to its last word.
ToolUnwrapsWhatTheEvaluatorTakes ==
    LET evaluatorTakes ==
            /\ IsZstd /\ pinned /\ encoded.size <= CompressedBytes /\ encoded.window <= WindowBytes
            /\ ~encoded.dictionary /\ encoded.declared \in {0, encoded.content}
            /\ encoded.content <= GraphBytes /\ encoded.broken >= encoded.content
    IN  loader = "tool" /\ evaluatorTakes /\ outcome \in {"opened", "refused"} =>
            outcome = "opened" /\ decoded = encoded.content

\* How a frame is opened, by the evaluator and by the tool: exactly if it is one
\* whole frame within the limits, and without reserving more than a step ahead.
OnlyOneWholeFrameIsOpened ==
    ReservationFollowsTheOutput /\ OneWholeFrameIsOpened /\ ToolUnwrapsWhatTheEvaluatorTakes
=============================================================================
