---------------------------- MODULE SignetTool -----------------------------
(***************************************************************************)
(* The signet commands that write or describe artifacts (main.rs): reseal, *)
(* transcode and export each read a source, make an artifact of it, load   *)
(* it through the evaluator and write it to a path of its own; inspect     *)
(* reads an artifact twice.  Invocations run side by side, the files they  *)
(* read may be replaced between two reads, the system zstd may be missing, *)
(* fail or choose a window of its own, and a write may fail halfway.       *)
(* A file stands for its bytes, so it is its own digest.                   *)
(* OutputsComeFromPinnedSourcesHolds proves what they promise for any      *)
(* number of invocations, files and replacements, and                      *)
(* OnlyOneWholeFrameIsOpenedHolds how the frames they unwrap are opened    *)
(* (ArtifactFrame), for any limits.                                        *)
(***************************************************************************)
EXTENDS ArtifactFrame, TLAPS

CONSTANTS
    Tools,              \* invocations; all name the same source and the same output
    Files,              \* what may be at the source path
    Invocations,        \* arguments of the commands
    BodyBytes(_, _),    \* the size of a graph's body in a version
    ClientBytes, BatchBytes,    \* Limits::client().graph_bytes and batch_prover()'s
    MaxReplacements     \* bounds the changes of the source

\* main.rs has these four that write or describe artifacts.
Commands == {"export", "reseal", "transcode", "inspect"}
ASSUME InvocationsAssumption == \A o \in Invocations : o.command \in Commands
ASSUME LimitsAssumption == ClientBytes \in Nat /\ BatchBytes \in Nat /\ ClientBytes <= BatchBytes

VARIABLES
    sourceFile,         \* the file at the source path
    replaced,
    outputFile,         \* what is at the output path
    step,               \* of each invocation
    options,            \* its arguments
    bytes,              \* what it read
    artifact,           \* what it made, and with which compressor
    report              \* what client_limits= says

toolVars == <<sourceFile, replaced, outputFile, step, options, bytes, artifact, report>>

Frames == {"none", "system", "wide", "ruzstd"}
Artifact(graph, version, envelope, frame) == [graph |-> graph, version |-> version, envelope |-> envelope, frame |-> frame]
Junk == Artifact("junk", 1, "signet", "none")
Absent == [by |-> "nobody"]

Invocation(command, pin, envelope, version, compress, requireZstd) ==
    [command |-> command, pin |-> pin, envelope |-> envelope, version |-> version, compress |-> compress,
     requireZstd |-> requireZstd]

\* WitnessGraph::from_bytes_with_limits: the digest, the frame's window, and the
\* size of what is in it.
Loads(file, pin, limit) == file = pin /\ file # Junk /\ file.frame # "wide" /\ BodyBytes(file.graph, file.version) <= limit

ToolInit ==
    /\ sourceFile \in Files /\ replaced = 0 /\ outputFile = Absent
    /\ options \in [Tools -> Invocations]
    /\ step = [t \in Tools |-> "start"]
    /\ bytes = [t \in Tools |-> Junk] /\ artifact = [t \in Tools |-> Junk]
    /\ report = [t \in Tools |-> "none"]

\* Another program replaces the source.
Replace ==
    /\ replaced < MaxReplacements
    /\ sourceFile' \in Files \ {sourceFile} /\ replaced' = replaced + 1
    /\ UNCHANGED <<outputFile, step, options, bytes, artifact, report>>

\* std::fs::read, then load_bytes for the commands that take a pin.  What export
\* reads is a graph of the builder (GraphExport).
Read(t) ==
    /\ step[t] = "start"
    /\ bytes' = [bytes EXCEPT ![t] = sourceFile]
    /\ step' = [step EXCEPT ![t] =
            IF sourceFile = Junk \/ (options[t].command # "export" /\ ~Loads(sourceFile, options[t].pin, BatchBytes))
            THEN "refused" ELSE "read"]
    /\ UNCHANGED <<sourceFile, replaced, outputFile, options, artifact, report>>

\* Mutation: what is rewritten is read again.
Identified_Reread(t) == sourceFile

\* The bytes that were authenticated are the bytes that are rewritten.
Identified(t) == bytes[t]

\* encode: the graph of the builder in the chosen version and envelope.
Exported(t, frame) == Artifact(bytes[t].graph, options[t].version, options[t].envelope, frame)

\* to_raw, then reseal: only the first eight bytes change.
Resealed(t, frame) == Artifact(Identified(t).graph, Identified(t).version, options[t].envelope, frame)

\* to_raw, then transcode: the same graph in the other version, and under
\* another envelope if one is asked for.  The checks of the header and of the way
\* back pass.
Transcoded(t, frame) ==
    Artifact(Identified(t).graph, options[t].version,
             IF options[t].envelope = "kept" THEN Identified(t).envelope ELSE options[t].envelope, frame)

Rewritten(t, frame) ==
    CASE options[t].command = "export" -> Exported(t, frame)
      [] options[t].command = "reseal" -> Resealed(t, frame)
      [] options[t].command = "transcode" -> Transcoded(t, frame)

\* "With `require_zstd`, a frame from the ruzstd fallback is refused before
\* anything is written."
MayFallBack(t) == ~options[t].requireZstd

\* wrap: raw, a frame of the system zstd, or one of the fallback.
Wrap(t) ==
    /\ step[t] = "read" /\ options[t].command # "inspect"
    /\ \E frame \in (IF options[t].compress THEN Frames \ {"none"} ELSE {"none"}) :
        IF Rewritten(t, frame).graph = "junk" \/ (frame = "ruzstd" /\ ~MayFallBack(t))
        THEN step' = [step EXCEPT ![t] = "refused"] /\ UNCHANGED artifact
        ELSE /\ artifact' = [artifact EXCEPT ![t] = Rewritten(t, frame)]
             /\ step' = [step EXCEPT ![t] = "wrapped"]
    /\ UNCHANGED <<sourceFile, replaced, outputFile, options, bytes, report>>

ClientLimit == ClientBytes

\* transcode evaluates the source and the result alike, unless the file given
\* with --input or --reference cannot be read or has another witness.
EvaluatesAlike(t) == IF options[t].command = "transcode" THEN BOOLEAN ELSE {TRUE}

\* The gate: what is about to be written loads and evaluates alike, and whether a
\* client loads it.
Check(t) ==
    /\ step[t] = "wrapped"
    /\ \E alike \in EvaluatesAlike(t) :
        IF Loads(artifact[t], artifact[t], BatchBytes) /\ alike
        THEN /\ report' = [report EXCEPT ![t] =
                    IF Loads(artifact[t], artifact[t], ClientLimit) THEN "ok" ELSE "exceeded"]
             /\ step' = [step EXCEPT ![t] = "checked"]
        ELSE step' = [step EXCEPT ![t] = "refused"] /\ UNCHANGED report
    /\ UNCHANGED <<sourceFile, replaced, outputFile, options, bytes, artifact>>

\* create_new.
MayCreate == outputFile = Absent

\* write_new: the file is created, then written.
Create(t) ==
    /\ step[t] = "checked"
    /\ IF MayCreate
       THEN /\ outputFile' = [by |-> t, whole |-> FALSE, content |-> artifact[t]]
            /\ step' = [step EXCEPT ![t] = "created"]
       ELSE step' = [step EXCEPT ![t] = "refused"] /\ UNCHANGED outputFile
    /\ UNCHANGED <<sourceFile, replaced, options, bytes, artifact, report>>

\* "Do not leave a truncated artifact behind, under the name it was meant to have."
AfterFailedWrite == Absent

Write(t) ==
    /\ step[t] = "created"
    /\ \/ outputFile' = [by |-> t, whole |-> TRUE, content |-> artifact[t]] /\ step' = [step EXCEPT ![t] = "written"]
       \/ outputFile' = AfterFailedWrite /\ step' = [step EXCEPT ![t] = "refused"]
    /\ UNCHANGED <<sourceFile, replaced, options, bytes, artifact, report>>

\* inspect: the graph is described from the first read, the report comes from a
\* second one.
Inspect(t) ==
    /\ step[t] = "read" /\ options[t].command = "inspect"
    /\ report' = [report EXCEPT ![t] = IF Loads(sourceFile, options[t].pin, ClientLimit) THEN "ok" ELSE "exceeded"]
    /\ step' = [step EXCEPT ![t] = "inspected"]
    /\ UNCHANGED <<sourceFile, replaced, outputFile, options, bytes, artifact>>

ToolNext ==
    \/ Replace
    \/ \E t \in Tools : Read(t) \/ Wrap(t) \/ Check(t) \/ Create(t) \/ Write(t) \/ Inspect(t)

ToolSpec == ToolInit /\ [][ToolNext]_toolVars

-----------------------------------------------------------------------------
(* Properties *)

\* "Resealing an artifact you have not identified would launder an unknown file
\* into one carrying a fresh pin": what reseal and transcode write is the graph
\* of the pinned bytes, whatever happens to the file meanwhile.
PinnedGraphIsWritten ==
    outputFile # Absent /\ options[outputFile.by].command \in {"reseal", "transcode"} =>
        /\ outputFile.content.graph = options[outputFile.by].pin.graph
        /\ options[outputFile.by].command = "reseal" =>
              outputFile.content.version = options[outputFile.by].pin.version

\* An invocation that reports success has left its whole artifact at the path,
\* and a client's pin of it opens it under the limits the report names.  Of two
\* invocations at most one does.
SuccessfulOutputsStay ==
    \A t \in Tools : step[t] = "written" =>
        /\ outputFile = [by |-> t, whole |-> TRUE, content |-> artifact[t]]
        /\ Loads(outputFile.content, artifact[t], BatchBytes)

\* Nothing partial is at the path once no invocation is writing it.
NoTruncatedOutputStays ==
    outputFile # Absent /\ ~outputFile.whole => step[outputFile.by] = "created"

\* What is reported of a written artifact is so: a client's limits, and that
\* `--compressor zstd` had its way.
ReportsMatchTheOutput ==
    \A t \in Tools : step[t] = "written" =>
        /\ (report[t] = "ok") = (BodyBytes(artifact[t].graph, artifact[t].version) <= ClientBytes)
        /\ options[t].requireZstd => artifact[t].frame # "ruzstd"

\* inspect reads the file twice, and what is there the second time counts only
\* if it is the pinned artifact too: no other one passes for it.
InspectedWithinLimits(t) ==
    step[t] = "inspected" /\ report[t] = "ok" => Loads(options[t].pin, options[t].pin, ClientBytes)
InspectionReportsThePin == \A t \in Tools : InspectedWithinLimits(t)

\* What is rewritten is the graph of the pinned bytes, whatever happens to the
\* file meanwhile; a success stays whole at its path, no truncated file does,
\* and the report is true of it, or of the pin if it is inspected (main.rs).
OutputsComeFromPinnedSources ==
    /\ PinnedGraphIsWritten /\ SuccessfulOutputsStay /\ NoTruncatedOutputStays
    /\ ReportsMatchTheOutput /\ InspectionReportsThePin

-----------------------------------------------------------------------------
(* The inductive invariant: an invocation works on what it identified and     *)
(* checks what it writes, and the file at the output path is owned by the one *)
(* invocation that created it.                                                *)

StepNames == {"start", "read", "wrapped", "checked", "created", "written", "refused", "inspected"}
ToolTyped ==
    /\ step \in [Tools -> StepNames]
    /\ report \in [Tools -> {"none", "ok", "exceeded"}]
    /\ bytes = [t \in Tools |-> bytes[t]]
    /\ artifact = [t \in Tools |-> artifact[t]]
    /\ options \in [Tools -> Invocations]

\* What was read is what the pin names.
WasIdentified(t) ==
    step[t] = "read" /\ options[t].command # "export" => bytes[t] = options[t].pin

\* What was made is the graph that was read.
WasRewritten(t) ==
    step[t] \in {"wrapped", "checked", "created", "written"} =>
        /\ options[t].command \in {"reseal", "transcode"} => artifact[t].graph = options[t].pin.graph
        /\ options[t].command = "reseal" => artifact[t].version = options[t].pin.version
        /\ options[t].requireZstd => artifact[t].frame # "ruzstd"

\* What is written went through the gate.
WasChecked(t) ==
    step[t] \in {"checked", "created", "written"} =>
        /\ Loads(artifact[t], artifact[t], BatchBytes)
        /\ (report[t] = "ok") = Loads(artifact[t], artifact[t], ClientBytes)

\* Whoever created the file is the one that it belongs to.
Owns(t, whole) ==
    /\ outputFile = [by |-> t, whole |-> whole, content |-> artifact[t]]
    /\ step[t] = IF whole THEN "written" ELSE "created"
OwnedByOne ==
    /\ outputFile = Absent \/ \E t \in Tools, whole \in BOOLEAN : Owns(t, whole)
    /\ \A t \in Tools : step[t] \in {"created", "written"} => \E whole \in BOOLEAN : Owns(t, whole)

InvocationOK(t) ==
    WasIdentified(t) /\ WasRewritten(t) /\ WasChecked(t) /\ InspectedWithinLimits(t)
ToolInv == ToolTyped /\ (\A t \in Tools : InvocationOK(t)) /\ OwnedByOne

\* An owned file is there, and it tells whose it is.
LEMMA OwnedFile ==
    ASSUME NEW t, NEW whole \in BOOLEAN, Owns(t, whole)
    PROVE  /\ outputFile # Absent /\ outputFile.by = t /\ outputFile.whole = whole
           /\ outputFile.content = artifact[t]
<1>1. outputFile = [by |-> t, whole |-> whole, content |-> artifact[t]]
    BY DEF Owns
<1>2. outputFile.by = t /\ outputFile.whole = whole /\ outputFile.content = artifact[t]
    BY <1>1
<1>3. DOMAIN outputFile = {"by", "whole", "content"} /\ DOMAIN Absent = {"by"}
    BY <1>1 DEF Absent
<1>4. "whole" \in DOMAIN outputFile /\ "whole" \notin DOMAIN Absent
    BY <1>3
<1> QED BY <1>2, <1>4

\* The invariant is stronger than the checked property.
LEMMA ToolInvIsProperty == ToolInv => OutputsComeFromPinnedSources
<1> SUFFICES ASSUME ToolInv PROVE OutputsComeFromPinnedSources
    OBVIOUS
<1>1. ToolTyped /\ OwnedByOne /\ \A t \in Tools : WasIdentified(t) /\ WasRewritten(t) /\ WasChecked(t)
    BY DEF ToolInv, InvocationOK
<1>2. ASSUME outputFile # Absent
      PROVE  \E t \in Tools, whole \in BOOLEAN : Owns(t, whole)
    BY <1>1, <1>2 DEF OwnedByOne
<1>3. PinnedGraphIsWritten
  <2> SUFFICES ASSUME outputFile # Absent, options[outputFile.by].command \in {"reseal", "transcode"}
               PROVE  /\ outputFile.content.graph = options[outputFile.by].pin.graph
                      /\ options[outputFile.by].command = "reseal" =>
                            outputFile.content.version = options[outputFile.by].pin.version
    BY DEF PinnedGraphIsWritten
  <2>1. PICK t \in Tools, whole \in BOOLEAN : Owns(t, whole)
    BY <1>2
  <2>2. outputFile.by = t /\ outputFile.content = artifact[t]
    BY <2>1, OwnedFile
  <2>3. step[t] \in {"created", "written"}
    BY <2>1 DEF Owns
  <2>4. WasRewritten(t)
    BY <1>1
  <2> QED BY <2>2, <2>3, <2>4 DEF WasRewritten
<1>4. ASSUME NEW t \in Tools, step[t] = "written"
      PROVE  /\ Owns(t, TRUE) /\ WasRewritten(t) /\ WasChecked(t)
  <2>1. PICK whole \in BOOLEAN : Owns(t, whole)
    BY <1>1, <1>4 DEF OwnedByOne
  <2>2. whole = TRUE
    BY <1>4, <2>1 DEF Owns
  <2> QED BY <1>1, <2>1, <2>2
<1>5. SuccessfulOutputsStay
  <2> SUFFICES ASSUME NEW t \in Tools, step[t] = "written"
               PROVE  /\ outputFile = [by |-> t, whole |-> TRUE, content |-> artifact[t]]
                      /\ Loads(outputFile.content, artifact[t], BatchBytes)
    BY DEF SuccessfulOutputsStay
  <2>1. Owns(t, TRUE) /\ WasChecked(t)
    BY <1>4
  <2>2. outputFile.content = artifact[t]
    BY <2>1, OwnedFile
  <2> QED BY <2>1, <2>2 DEF Owns, WasChecked
<1>6. NoTruncatedOutputStays
  <2> SUFFICES ASSUME outputFile # Absent, ~outputFile.whole
               PROVE  step[outputFile.by] = "created"
    BY DEF NoTruncatedOutputStays
  <2>1. PICK t \in Tools, whole \in BOOLEAN : Owns(t, whole)
    BY <1>2
  <2>2. outputFile.by = t /\ outputFile.whole = whole
    BY <2>1, OwnedFile
  <2> QED BY <2>1, <2>2 DEF Owns
<1>7. ReportsMatchTheOutput
  <2> SUFFICES ASSUME NEW t \in Tools, step[t] = "written"
               PROVE  /\ (report[t] = "ok") =
                            (BodyBytes(artifact[t].graph, artifact[t].version) <= ClientBytes)
                      /\ options[t].requireZstd => artifact[t].frame # "ruzstd"
    BY DEF ReportsMatchTheOutput
  <2>1. WasRewritten(t) /\ WasChecked(t)
    BY <1>4
  <2>2. Loads(artifact[t], artifact[t], BatchBytes)
        /\ (report[t] = "ok") = Loads(artifact[t], artifact[t], ClientBytes)
    BY <2>1 DEF WasChecked
  <2>3. Loads(artifact[t], artifact[t], ClientBytes) =
            (BodyBytes(artifact[t].graph, artifact[t].version) <= ClientBytes)
    BY <2>2 DEF Loads
  <2> QED BY <2>1, <2>2, <2>3 DEF WasRewritten
<1>8. InspectionReportsThePin
    BY DEF ToolInv, InvocationOK, InspectionReportsThePin
<1> QED BY <1>3, <1>5, <1>6, <1>7, <1>8 DEF OutputsComeFromPinnedSources

\* Nothing is read, made or written before the invocations start.
LEMMA InitToolInv == ToolInit => ToolInv
<1> SUFFICES ASSUME ToolInit PROVE ToolInv
    OBVIOUS
<1>1. ToolTyped
    BY DEF ToolInit, ToolTyped, StepNames
<1>2. \A t \in Tools : InvocationOK(t)
    BY DEF ToolInit, InvocationOK, WasIdentified, WasRewritten, WasChecked, InspectedWithinLimits
<1>3. OwnedByOne
    BY DEF ToolInit, OwnedByOne
<1> QED BY <1>1, <1>2, <1>3 DEF ToolInv

\* A step of one invocation leaves what the others know, and the file of another
\* invocation, alone.
LEMMA OtherInvocations ==
    ASSUME ToolInv, NEW t \in Tools, options' = options,
           \A u \in Tools \ {t} : /\ step'[u] = step[u] /\ bytes'[u] = bytes[u]
                                  /\ artifact'[u] = artifact[u] /\ report'[u] = report[u],
           InvocationOK(t)'
    PROVE  \A u \in Tools : InvocationOK(u)'
<1> SUFFICES ASSUME NEW u \in Tools, u # t PROVE InvocationOK(u)'
    OBVIOUS
<1>1. InvocationOK(u)
    BY DEF ToolInv
<1> QED BY <1>1 DEF InvocationOK, WasIdentified, WasRewritten, WasChecked, InspectedWithinLimits, Loads

\* While an invocation neither creates nor writes, the file stays whose it is.
LEMMA FileStays ==
    ASSUME ToolInv, NEW t \in Tools, outputFile' = outputFile,
           \A u \in Tools \ {t} : step'[u] = step[u] /\ artifact'[u] = artifact[u],
           step[t] \notin {"created", "written"}, step'[t] \notin {"created", "written"}
    PROVE  OwnedByOne'
<1>1. OwnedByOne
    BY DEF ToolInv
<1>2. ASSUME NEW u \in Tools, NEW whole \in BOOLEAN, Owns(u, whole)
      PROVE  Owns(u, whole)'
  <2>1. u # t
    BY <1>2 DEF Owns
  <2> QED BY <1>2, <2>1 DEF Owns
<1>3. outputFile' = Absent \/ \E u \in Tools, whole \in BOOLEAN : Owns(u, whole)'
    BY <1>1, <1>2 DEF OwnedByOne
<1>4. ASSUME NEW u \in Tools, step'[u] \in {"created", "written"}
      PROVE  \E whole \in BOOLEAN : Owns(u, whole)'
  <2>1. u # t /\ step[u] \in {"created", "written"}
    BY <1>4
  <2>2. PICK whole \in BOOLEAN : Owns(u, whole)
    BY <1>1, <2>1 DEF OwnedByOne
  <2> QED BY <1>2, <2>2
<1> QED BY <1>3, <1>4 DEF OwnedByOne, Absent

\* The source may be replaced at any moment.
LEMMA ReplaceStep == ToolInv /\ Replace => ToolInv'
    BY DEF ToolInv, Replace, ToolTyped, InvocationOK, WasIdentified, WasRewritten, WasChecked, InspectedWithinLimits, Loads,
           OwnedByOne, Owns, Absent

\* A pinned command goes on only with the bytes of its pin.
LEMMA ReadStep == ASSUME ToolInv, NEW t \in Tools, Read(t) PROVE ToolInv'
<1>1. ToolTyped
    BY DEF ToolInv
<1>2. /\ step[t] = "start" /\ step'[t] \in {"refused", "read"} /\ bytes'[t] = sourceFile
      /\ step'[t] = "read" =>
            options[t].command = "export" \/ Loads(sourceFile, options[t].pin, BatchBytes)
    BY <1>1 DEF Read, ToolTyped
<1>3. ToolTyped'
    BY <1>1 DEF Read, ToolTyped, StepNames
<1>4. InvocationOK(t)'
    BY <1>2 DEF Read, InvocationOK, WasIdentified, WasRewritten, WasChecked, InspectedWithinLimits, Loads
<1>5. \A u \in Tools \ {t} : step'[u] = step[u] /\ bytes'[u] = bytes[u]
    BY <1>1 DEF Read, ToolTyped
<1>6. \A u \in Tools : InvocationOK(u)'
    BY <1>4, <1>5, OtherInvocations DEF Read
<1>7. OwnedByOne'
    BY <1>2, <1>5, FileStays DEF Read
<1> QED BY <1>3, <1>6, <1>7 DEF ToolInv

\* What is made is the graph that was identified.
LEMMA WrapStep == ASSUME ToolInv, NEW t \in Tools, Wrap(t) PROVE ToolInv'
<1>1. ToolTyped /\ InvocationOK(t)
    BY DEF ToolInv
<1>2. PICK frame : /\ frame \in (IF options[t].compress THEN Frames \ {"none"} ELSE {"none"})
                   /\ IF Rewritten(t, frame).graph = "junk" \/ (frame = "ruzstd" /\ ~MayFallBack(t))
                      THEN step' = [step EXCEPT ![t] = "refused"] /\ UNCHANGED artifact
                      ELSE /\ artifact' = [artifact EXCEPT ![t] = Rewritten(t, frame)]
                           /\ step' = [step EXCEPT ![t] = "wrapped"]
    BY DEF Wrap
<1>3. step[t] = "read" /\ step'[t] \in {"refused", "wrapped"}
    BY <1>1, <1>2 DEF Wrap, ToolTyped
<1>4. ToolTyped'
    BY <1>1, <1>2 DEF Wrap, ToolTyped, StepNames
<1>5. \A u \in Tools \ {t} : step'[u] = step[u] /\ artifact'[u] = artifact[u]
    BY <1>1, <1>2 DEF ToolTyped
<1>6. InvocationOK(t)'
  <2>1. CASE step'[t] = "refused"
    BY <2>1 DEF InvocationOK, WasIdentified, WasRewritten, WasChecked, InspectedWithinLimits
  <2>2. CASE step'[t] = "wrapped"
    <3>1. artifact'[t] = Rewritten(t, frame) /\ ~(frame = "ruzstd" /\ ~MayFallBack(t))
        BY <1>1, <1>2, <2>2 DEF ToolTyped
    <3>2. options[t].command \in {"reseal", "transcode"} =>
            /\ artifact'[t].graph = bytes[t].graph
            /\ options[t].command = "reseal" => artifact'[t].version = bytes[t].version
        BY <3>1 DEF Rewritten, Resealed, Transcoded, Artifact, Identified
    <3>4. artifact'[t].frame = frame
        <4>1. options[t].command \in {"export", "reseal", "transcode"}
            BY <1>1, InvocationsAssumption DEF Wrap, ToolTyped, Commands
        <4> QED BY <3>1, <4>1 DEF Rewritten, Exported, Resealed, Transcoded, Artifact
    <3>3. options[t].command # "export" => bytes[t] = options[t].pin
        BY <1>1, <1>3 DEF InvocationOK, WasIdentified
    <3>5. WasRewritten(t)'
        BY <3>1, <3>2, <3>3, <3>4 DEF WasRewritten, MayFallBack, Wrap
    <3> QED BY <2>2, <3>5 DEF InvocationOK, WasIdentified, WasChecked, InspectedWithinLimits
  <2> QED BY <1>3, <2>1, <2>2
<1>7. \A u \in Tools : InvocationOK(u)'
    BY <1>5, <1>6, OtherInvocations DEF Wrap
<1>8. OwnedByOne'
    BY <1>3, <1>5, FileStays DEF Wrap
<1> QED BY <1>4, <1>7, <1>8 DEF ToolInv

\* The gate loads what was made, and reports what a client would find.
LEMMA CheckStep == ASSUME ToolInv, NEW t \in Tools, Check(t) PROVE ToolInv'
<1>1. ToolTyped /\ InvocationOK(t)
    BY DEF ToolInv
<1>2. /\ step[t] = "wrapped" /\ step'[t] \in {"refused", "checked"}
      /\ step'[t] = "checked" =>
            /\ Loads(artifact[t], artifact[t], BatchBytes)
            /\ (report'[t] = "ok") = Loads(artifact[t], artifact[t], ClientBytes)
  <2>1. step[t] = "wrapped"
    BY DEF Check
  <2>4. PICK alike \in EvaluatesAlike(t) :
            IF Loads(artifact[t], artifact[t], BatchBytes) /\ alike
            THEN /\ report' = [report EXCEPT ![t] =
                        IF Loads(artifact[t], artifact[t], ClientLimit) THEN "ok" ELSE "exceeded"]
                 /\ step' = [step EXCEPT ![t] = "checked"]
            ELSE step' = [step EXCEPT ![t] = "refused"] /\ UNCHANGED report
    BY DEF Check
  <2>2. CASE Loads(artifact[t], artifact[t], BatchBytes) /\ alike
    <3>1. step'[t] = "checked"
        BY <1>1, <2>2, <2>4 DEF ToolTyped
    <3>2. report'[t] = IF Loads(artifact[t], artifact[t], ClientBytes) THEN "ok" ELSE "exceeded"
        BY <1>1, <2>2, <2>4 DEF ToolTyped, ClientLimit
    <3>3. Loads(artifact[t], artifact[t], ClientBytes) \in BOOLEAN
        BY DEF Loads
    <3>4. (report'[t] = "ok") = Loads(artifact[t], artifact[t], ClientBytes)
        BY <3>2, <3>3
    <3> QED BY <2>1, <2>2, <3>1, <3>4
  <2>3. CASE ~(Loads(artifact[t], artifact[t], BatchBytes) /\ alike)
    <3>1. step'[t] = "refused"
        BY <1>1, <2>3, <2>4 DEF ToolTyped
    <3> QED BY <2>1, <3>1
  <2> QED BY <2>2, <2>3
<1>3. ToolTyped'
    BY <1>1 DEF Check, ToolTyped, StepNames
<1>4. InvocationOK(t)'
    BY <1>1, <1>2 DEF Check, InvocationOK, WasIdentified, WasRewritten, WasChecked, InspectedWithinLimits, Loads
<1>5. \A u \in Tools \ {t} : step'[u] = step[u] /\ report'[u] = report[u]
    BY <1>1 DEF Check, ToolTyped
<1>6. \A u \in Tools : InvocationOK(u)'
    BY <1>4, <1>5, OtherInvocations DEF Check
<1>7. OwnedByOne'
    BY <1>2, <1>5, FileStays DEF Check
<1> QED BY <1>3, <1>6, <1>7 DEF ToolInv

\* Only who finds nothing at the path creates a file there.
LEMMA CreateStep == ASSUME ToolInv, NEW t \in Tools, Create(t) PROVE ToolInv'
<1>1. ToolTyped /\ InvocationOK(t) /\ OwnedByOne
    BY DEF ToolInv
<1>2. step[t] = "checked" /\ step'[t] \in {"refused", "created"}
    BY <1>1 DEF Create, ToolTyped
<1>3. ToolTyped'
    BY <1>1 DEF Create, ToolTyped, StepNames
<1>4. InvocationOK(t)'
    BY <1>1, <1>2 DEF Create, InvocationOK, WasIdentified, WasRewritten, WasChecked, InspectedWithinLimits, Loads
<1>5. \A u \in Tools \ {t} : step'[u] = step[u]
    BY <1>1 DEF Create, ToolTyped
<1>6. \A u \in Tools : InvocationOK(u)'
    BY <1>4, <1>5, OtherInvocations DEF Create
<1>7. OwnedByOne'
  <2>1. CASE ~MayCreate
    <3>1. step'[t] = "refused" /\ outputFile' = outputFile
        BY <1>1, <2>1 DEF Create, ToolTyped
    <3> QED BY <1>2, <1>5, <3>1, FileStays DEF Create
  <2>2. CASE MayCreate
    <3>1. /\ step'[t] = "created" /\ artifact' = artifact
          /\ outputFile' = [by |-> t, whole |-> FALSE, content |-> artifact[t]]
        BY <1>1, <2>2 DEF Create, ToolTyped
    <3>2. Owns(t, FALSE)'
        BY <3>1 DEF Owns
    <3>3. \A u \in Tools : step[u] \notin {"created", "written"}
        BY <1>1, <2>2, OwnedFile DEF OwnedByOne, MayCreate
    <3>4. \A u \in Tools : step'[u] \in {"created", "written"} => u = t
        BY <1>5, <3>3
    <3> QED BY <3>2, <3>4 DEF OwnedByOne
  <2> QED BY <2>1, <2>2
<1> QED BY <1>3, <1>6, <1>7 DEF ToolInv

\* A file is completed, or removed, by the invocation that created it.
LEMMA WriteStep == ASSUME ToolInv, NEW t \in Tools, Write(t) PROVE ToolInv'
<1>1. ToolTyped /\ InvocationOK(t) /\ OwnedByOne
    BY DEF ToolInv
<1>2. step[t] = "created" /\ step'[t] \in {"refused", "written"}
    BY <1>1 DEF Write, ToolTyped
<1>3. ToolTyped'
    BY <1>1 DEF Write, ToolTyped, StepNames
<1>4. InvocationOK(t)'
    BY <1>1, <1>2 DEF Write, InvocationOK, WasIdentified, WasRewritten, WasChecked, InspectedWithinLimits, Loads
<1>5. \A u \in Tools \ {t} : step'[u] = step[u]
    BY <1>1 DEF Write, ToolTyped
<1>6. \A u \in Tools : InvocationOK(u)'
    BY <1>4, <1>5, OtherInvocations DEF Write
<1>7. \A u \in Tools : step[u] \in {"created", "written"} => u = t
  <2>1. PICK mine \in BOOLEAN : Owns(t, mine)
    BY <1>1, <1>2 DEF OwnedByOne
  <2>2. ASSUME NEW u \in Tools, step[u] \in {"created", "written"} PROVE u = t
    <3>1. PICK whole \in BOOLEAN : Owns(u, whole)
        BY <1>1, <2>2 DEF OwnedByOne
    <3>2. outputFile.by = u
        BY <3>1, OwnedFile
    <3>3. outputFile.by = t
        BY <2>1, OwnedFile
    <3> QED BY <3>2, <3>3
  <2> QED BY <2>2
<1>8. \A u \in Tools : step'[u] \in {"created", "written"} => u = t
    BY <1>5, <1>7
<1>9. OwnedByOne'
  <2>1. CASE step'[t] = "written"
    <3>1. outputFile' = [by |-> t, whole |-> TRUE, content |-> artifact'[t]]
        BY <1>1, <2>1 DEF Write, ToolTyped
    <3>2. Owns(t, TRUE)'
        BY <2>1, <3>1 DEF Owns
    <3> QED BY <1>8, <3>2 DEF OwnedByOne
  <2>2. CASE step'[t] = "refused"
    <3>1. outputFile' = Absent
        BY <1>1, <2>2 DEF Write, ToolTyped, AfterFailedWrite
    <3> QED BY <1>8, <2>2, <3>1 DEF OwnedByOne, Absent
  <2> QED BY <1>2, <2>1, <2>2
<1> QED BY <1>3, <1>6, <1>9 DEF ToolInv

\* inspect writes nothing.
LEMMA InspectStep == ASSUME ToolInv, NEW t \in Tools, Inspect(t) PROVE ToolInv'
<1>1. ToolTyped
    BY DEF ToolInv
<1>2. step[t] = "read" /\ step'[t] = "inspected"
    BY <1>1 DEF Inspect, ToolTyped
<1>3. ToolTyped'
    BY <1>1 DEF Inspect, ToolTyped, StepNames
<1>4. InvocationOK(t)'
  <2>1. report'[t] = "ok" => Loads(sourceFile, options[t].pin, ClientBytes)
    BY <1>1 DEF Inspect, ToolTyped, ClientLimit
  <2>2. options'[t] = options[t]
    BY DEF Inspect
  <2>3. InspectedWithinLimits(t)'
    BY <2>1, <2>2 DEF InspectedWithinLimits, Loads
  <2> QED BY <1>2, <2>3 DEF InvocationOK, WasIdentified, WasRewritten, WasChecked
<1>5. \A u \in Tools \ {t} : step'[u] = step[u] /\ report'[u] = report[u]
    BY <1>1 DEF Inspect, ToolTyped
<1>6. \A u \in Tools : InvocationOK(u)'
    BY <1>4, <1>5, OtherInvocations DEF Inspect
<1>7. OwnedByOne'
    BY <1>2, <1>5, FileStays DEF Inspect
<1> QED BY <1>3, <1>6, <1>7 DEF ToolInv

\* Every step keeps the invariant.
LEMMA NextToolInv == ToolInv /\ [ToolNext]_toolVars => ToolInv'
<1> SUFFICES ASSUME ToolInv, [ToolNext]_toolVars PROVE ToolInv'
    OBVIOUS
<1>1. CASE ToolNext
    BY <1>1, ReplaceStep, ReadStep, WrapStep, CheckStep, CreateStep, WriteStep, InspectStep
    DEF ToolNext
<1>2. CASE UNCHANGED toolVars
    BY <1>2 DEF toolVars, ToolInv, ToolTyped, InvocationOK, WasIdentified, WasRewritten, WasChecked, InspectedWithinLimits,
                Loads, OwnedByOne, Owns, Absent
<1> QED BY <1>1, <1>2

\* For any number of invocations, files, arguments and replacements: what
\* reseal and transcode leave at a path is the graph of their pin, whole, and as
\* it was reported (main.rs).
THEOREM OutputsComeFromPinnedSourcesHolds == ToolSpec => []OutputsComeFromPinnedSources
<1>1. ToolSpec => []ToolInv
    BY InitToolInv, NextToolInv, PTL DEF ToolSpec
<1> QED BY <1>1, ToolInvIsProperty, PTL

-----------------------------------------------------------------------------
(* How a frame is opened (ArtifactFrame).  The inductive invariant: what is   *)
(* decoded was taken, lies within everything that bounds it, and the          *)
(* reservation holds it without running a step ahead.                         *)

FrameTyped ==
    /\ encoded \in Artifacts /\ pinned \in BOOLEAN /\ loader \in {"graph", "program", "tool"}
    /\ decoded \in Nat /\ reserved \in Nat
    /\ outcome \in {"bytes", "decoding", "opened", "refused"}

\* What the header said before the first word was read.
HeaderWasTaken ==
    /\ IsZstd /\ pinned /\ encoded.window <= WindowBytes /\ ~encoded.dictionary
    /\ loader # "tool" => encoded.size <= MaxBytes /\ encoded.declared <= MaxOutput

\* No word was taken beyond the content, a break or a bound.
WordsAreWithinBounds ==
    /\ decoded <= encoded.content /\ decoded <= encoded.broken /\ ~Overruns(decoded)

FrameInv ==
    /\ FrameTyped
    /\ outcome = "bytes" => decoded = 0 /\ reserved = 0
    /\ outcome = "decoding" => HeaderWasTaken /\ WordsAreWithinBounds
    /\ OnlyOneWholeFrameIsOpened

\* The smaller of two numbers.
LEMMA SmallerOfTwo ==
    ASSUME NEW a \in Int, NEW b \in Int
    PROVE  /\ Min({a, b}) \in {a, b} /\ Min({a, b}) <= a /\ Min({a, b}) <= b
<1>1. \E x \in {a, b} : \A y \in {a, b} : x <= y
    <2>1. CASE a <= b
        BY <2>1
    <2>2. CASE b <= a
        BY <2>2
    <2> QED BY <2>1, <2>2
<1>2. Min({a, b}) \in {a, b} /\ \A y \in {a, b} : Min({a, b}) <= y
    BY <1>1 DEF Min
<1> QED BY <1>2

\* Rounding up to whole steps adds less than a step.
LEMMA WholeSteps ==
    ASSUME NEW n \in Nat, NEW g \in Nat \ {0}
    PROVE  /\ ((n + g - 1) \div g) * g \in Int
           /\ n <= ((n + g - 1) \div g) * g /\ ((n + g - 1) \div g) * g < n + g
    OBVIOUS

\* The numbers of the limits and of an artifact.
LEMMA FrameNumbers ==
    ASSUME FrameTyped
    PROVE  /\ GraphBytes \in Nat /\ CompressedBytes \in Nat /\ WindowBytes \in Nat
           /\ StoredBytes \in Nat /\ ToolBytes \in Nat /\ InitialBytes \in Nat
           /\ GrowthBytes \in Nat \ {0} /\ ChunkBytes \in Nat
           /\ InitialBytes < GraphBytes /\ ToolBytes >= GraphBytes
           /\ encoded.size \in Nat /\ encoded.window \in Nat /\ encoded.declared \in Nat
           /\ encoded.content \in Nat /\ encoded.broken \in Nat /\ encoded.program \in Nat
           /\ encoded.dictionary \in BOOLEAN /\ encoded.trailing \in BOOLEAN
           /\ MaxOutput \in Nat /\ MaxBytes \in Nat
<1>1. encoded \in Artifacts
    BY DEF FrameTyped
<1>2. /\ {encoded.size, encoded.window, encoded.declared, encoded.content, encoded.broken,
          encoded.program} \subseteq Nat
      /\ {encoded.dictionary, encoded.trailing} \subseteq BOOLEAN
    BY <1>1, ArtifactsAssumption
<1> QED BY <1>2, FrameAssumption DEF MaxOutput, MaxBytes

\* Nothing is decoded before an artifact is opened.
LEMMA FrameInitInv == FrameInit => FrameInv
<1> SUFFICES ASSUME FrameInit PROVE FrameInv
    OBVIOUS
<1>1. FrameTyped
    BY DEF FrameInit, FrameTyped
<1> QED BY <1>1, FrameNumbers
    DEF FrameInit, FrameInv, OnlyOneWholeFrameIsOpened, ReservationFollowsTheOutput,
        OneWholeFrameIsOpened, ToolUnwrapsWhatTheEvaluatorTakes

\* Opening takes what is pinned and within the limits, and reserves what may
\* fail at once.
LEMMA OpenFrameStep == ASSUME FrameInv, OpenFrame PROVE FrameInv'
<1> USE DEF FrameInv
<1>1. /\ FrameTyped /\ outcome = "bytes" /\ decoded = 0
      /\ encoded' = encoded /\ pinned' = pinned /\ loader' = loader /\ decoded' = 0
    BY DEF OpenFrame
<1> DEFINE taken == pinned /\ (loader # "tool" => encoded.size <= MaxBytes)
           fits == /\ encoded.window <= WindowBytes /\ ~encoded.dictionary
                   /\ loader # "tool" => encoded.declared <= MaxOutput
<1>2. /\ outcome' = IF ~taken \/ (IsZstd /\ ~fits) THEN "refused"
                    ELSE IF IsZstd THEN "decoding"
                    ELSE IF encoded.magic = "raw" THEN "opened" ELSE "refused"
      /\ reserved' = IF outcome' = "decoding" /\ loader = "graph" THEN InitialReservation ELSE 0
    BY DEF OpenFrame
<1>3. /\ InitialReservation \in Nat /\ InitialReservation <= encoded.declared
      /\ InitialReservation <= InitialBytes
  <2> DEFINE declared == encoded.declared
  <2>1. declared \in Nat /\ InitialBytes \in Nat
      BY <1>1, FrameNumbers
  <2> HIDE DEF declared
  <2>2. /\ Min({declared, InitialBytes}) \in {declared, InitialBytes}
        /\ Min({declared, InitialBytes}) <= declared /\ Min({declared, InitialBytes}) <= InitialBytes
      BY <2>1, SmallerOfTwo
  <2> QED BY <2>1, <2>2 DEF InitialReservation, declared
<1>4. FrameTyped'
    BY <1>1, <1>2, <1>3 DEF FrameTyped
<1>5. outcome' = "decoding" => HeaderWasTaken' /\ WordsAreWithinBounds'
    <2>1. outcome' = "decoding" => IsZstd /\ taken /\ fits
        BY <1>2
    <2>2. outcome' = "decoding" => HeaderWasTaken'
        BY <1>1, <2>1, FrameNumbers DEF HeaderWasTaken, IsZstd, MaxBytes, MaxOutput
    <2>3. ~Overruns(0)
        BY <1>1, FrameNumbers DEF Overruns
    <2> QED BY <1>1, <2>2, <2>3, FrameNumbers DEF WordsAreWithinBounds, Overruns, MaxOutput
<1>6. ReservationFollowsTheOutput'
    BY <1>1, <1>2, <1>3, FrameNumbers DEF ReservationFollowsTheOutput, IsZstd
<1>7. OneWholeFrameIsOpened'
    <2>1. IsOpenable' <=> IsOpenable
        BY <1>1 DEF IsOpenable, IsOneFrame, IsZstd, MaxBytes, MaxOutput
    <2>2. loader # "tool" /\ ~taken => ~IsOpenable
        BY DEF IsOpenable
    <2>3. loader # "tool" /\ IsZstd /\ ~fits => ~IsOpenable
        BY <1>1, FrameNumbers DEF IsOpenable, IsOneFrame, IsZstd
    <2>4. loader # "tool" /\ taken /\ ~IsZstd => (IsOpenable <=> encoded.magic = "raw")
        BY DEF IsOpenable
    <2> HIDE DEF taken, fits
    <2> QED BY <1>1, <1>2, <2>1, <2>2, <2>3, <2>4 DEF OneWholeFrameIsOpened
<1>8. ToolUnwrapsWhatTheEvaluatorTakes'
    BY <1>1, <1>2, FrameNumbers DEF ToolUnwrapsWhatTheEvaluatorTakes, IsZstd
<1> QED BY <1>1, <1>2, <1>4, <1>5, <1>6, <1>7, <1>8 DEF OnlyOneWholeFrameIsOpened

\* A read is refused where the frame breaks and where its content runs over;
\* the reservation grows by whole steps.
LEMMA ReadFrameStep == ASSUME FrameInv, ReadFrame PROVE FrameInv'
<1>1. /\ FrameTyped /\ outcome = "decoding" /\ HeaderWasTaken /\ WordsAreWithinBounds
      /\ ReservationFollowsTheOutput
      /\ encoded' = encoded /\ pinned' = pinned /\ loader' = loader
      /\ decoded < encoded.content
    BY DEF FrameInv, ReadFrame, OnlyOneWholeFrameIsOpened
<1>2. CASE outcome' = "refused" /\ decoded' = decoded /\ reserved' = reserved
           /\ \/ decoded = encoded.broken
              \/ \E count \in 1..ChunkBytes : /\ decoded + count <= encoded.content
                                              /\ Overruns(decoded + count)
    <2>1. FrameTyped'
        BY <1>1, <1>2 DEF FrameTyped
    <2>2. ReservationFollowsTheOutput'
        BY <1>1, <1>2 DEF ReservationFollowsTheOutput, IsZstd
    <2>3. OneWholeFrameIsOpened'
        <3> SUFFICES ASSUME loader # "tool", IsOpenable PROVE FALSE
            <4>1. IsOpenable' <=> IsOpenable
                BY <1>1 DEF IsOpenable, IsOneFrame, IsZstd, MaxBytes, MaxOutput
            <4> QED BY <1>1, <1>2, <4>1 DEF OneWholeFrameIsOpened
        <3>3. IsOneFrame
            BY <1>1 DEF IsOpenable, HeaderWasTaken, IsZstd
        <3>1. CASE decoded = encoded.broken
            BY <1>1, <3>1, <3>3, FrameNumbers DEF IsOneFrame, FrameTyped
        <3>2. CASE \E count \in 1..ChunkBytes : /\ decoded + count <= encoded.content
                                                /\ Overruns(decoded + count)
            <4>1. PICK count \in 1..ChunkBytes : /\ decoded + count <= encoded.content
                                                 /\ Overruns(decoded + count)
                BY <3>2
            <4>2. decoded + count \in Nat /\ decoded + count > 0
                BY <1>1, <4>1, FrameNumbers DEF FrameTyped
            <4> QED BY <1>1, <3>3, <4>1, <4>2, FrameNumbers DEF IsOneFrame, Overruns, FrameTyped
        <3> QED BY <1>2, <3>1, <3>2
    <2>4. ToolUnwrapsWhatTheEvaluatorTakes'
        <3>1. SUFFICES ASSUME loader = "tool", encoded.content <= GraphBytes,
                              encoded.broken >= encoded.content
                       PROVE  FALSE
            BY <1>1 DEF ToolUnwrapsWhatTheEvaluatorTakes, IsZstd
        <3> QED BY <1>1, <1>2, <3>1, FrameNumbers DEF Overruns, MaxOutput, FrameTyped
    <2> QED BY <1>2, <2>1, <2>2, <2>3, <2>4 DEF FrameInv, OnlyOneWholeFrameIsOpened
<1>3. ASSUME NEW count \in 1..ChunkBytes, decoded + count <= encoded.content,
             decoded + count <= encoded.broken, ~Overruns(decoded + count),
             decoded' = decoded + count, outcome' = outcome,
             reserved' = IF loader = "graph" THEN FrameCapacity(decoded + count) ELSE reserved
      PROVE  FrameInv'
    <2> DEFINE required == decoded + count
               rounded == ((required + GrowthBytes - 1) \div GrowthBytes) * GrowthBytes
               bound == IF encoded.declared = 0 THEN MaxOutput ELSE encoded.declared
    <2>1. required \in Nat /\ required > decoded
        BY <1>1, <1>3, FrameNumbers DEF FrameTyped
    <2>2. rounded \in Int /\ required <= rounded /\ rounded < required + GrowthBytes
        <3> HIDE DEF required
        <3> QED BY <1>1, <2>1, WholeSteps, FrameNumbers
    <2>3. bound \in Nat
        BY <1>1, FrameNumbers
    <2>4. FrameCapacity(required) = IF required > reserved THEN Min({rounded, bound}) ELSE reserved
        BY DEF FrameCapacity
    <2>5. loader = "graph" => required <= bound /\ bound <= GraphBytes
        BY <1>1, <1>3, <2>1, FrameNumbers DEF Overruns, HeaderWasTaken, MaxOutput
    <2> HIDE DEF rounded, bound
    <2>6. /\ Min({rounded, bound}) \in {rounded, bound}
          /\ Min({rounded, bound}) <= rounded /\ Min({rounded, bound}) <= bound
        BY <2>2, <2>3, SmallerOfTwo
    <2>7. loader = "graph" =>
            /\ reserved' \in Nat /\ required <= reserved'
            /\ reserved' = reserved \/ (reserved' < required + GrowthBytes /\ reserved' <= bound)
        BY <1>1, <1>3, <2>1, <2>2, <2>3, <2>4, <2>5, <2>6, FrameNumbers DEF FrameTyped
    <2>8. FrameTyped'
        BY <1>1, <1>3, <2>1, <2>7 DEF FrameTyped
    <2>9. HeaderWasTaken' /\ WordsAreWithinBounds'
        <3>1. HeaderWasTaken'
            BY <1>1 DEF HeaderWasTaken, IsZstd, MaxBytes, MaxOutput
        <3> QED BY <1>1, <1>3, <3>1 DEF WordsAreWithinBounds, Overruns, MaxOutput
    <2>10. ReservationFollowsTheOutput'
        <3> SUFFICES ASSUME loader = "graph"
                     PROVE  /\ required <= reserved'
                            /\ reserved' <= InitialBytes \/ reserved' < required + GrowthBytes
                            /\ reserved' <= GraphBytes
                            /\ encoded.declared # 0 => reserved' <= encoded.declared
            BY <1>1, <1>3 DEF ReservationFollowsTheOutput
        <3>1. /\ reserved <= InitialBytes \/ reserved < decoded + GrowthBytes
              /\ reserved <= GraphBytes
              /\ encoded.declared # 0 => reserved <= encoded.declared
            BY <1>1 DEF ReservationFollowsTheOutput
        <3>2. encoded.declared # 0 => bound = encoded.declared
            BY DEF bound
        <3> HIDE DEF required
        <3> QED BY <1>1, <2>1, <2>5, <2>7, <2>3, <3>1, <3>2, FrameNumbers DEF FrameTyped
    <2> QED BY <1>1, <1>3, <2>8, <2>9, <2>10
            DEF FrameInv, OnlyOneWholeFrameIsOpened, OneWholeFrameIsOpened,
                ToolUnwrapsWhatTheEvaluatorTakes
<1>4. CASE decoded = encoded.broken
    BY <1>2, <1>4 DEF ReadFrame
<1>5. CASE decoded # encoded.broken
    <2>1. PICK count \in 1..ChunkBytes :
            /\ decoded + count <= Min({encoded.content, encoded.broken})
            /\ IF Overruns(decoded + count)
               THEN outcome' = "refused" /\ UNCHANGED <<decoded, reserved>>
               ELSE /\ decoded' = decoded + count
                    /\ reserved' = IF loader = "graph" THEN FrameCapacity(decoded + count) ELSE reserved
                    /\ UNCHANGED outcome
        BY <1>5 DEF ReadFrame
    <2>2. decoded + count <= encoded.content /\ decoded + count <= encoded.broken
        <3> DEFINE content == encoded.content
                   broken == encoded.broken
        <3>1. content \in Nat /\ broken \in Nat /\ decoded \in Nat
            BY <1>1, FrameNumbers DEF FrameTyped
        <3> HIDE DEF content, broken
        <3>2. /\ Min({content, broken}) \in {content, broken}
              /\ Min({content, broken}) <= content /\ Min({content, broken}) <= broken
            BY <3>1, SmallerOfTwo
        <3>3. decoded + count <= Min({content, broken}) /\ count \in Nat
            BY <1>1, <2>1, FrameNumbers DEF content, broken
        <3>4. decoded + count <= content /\ decoded + count <= broken
            BY <3>1, <3>2, <3>3
        <3> QED BY <3>4 DEF content, broken
    <2> QED BY <1>2, <1>3, <2>1, <2>2
<1> QED BY <1>4, <1>5

\* At the end of the frame everything it promised is compared.
LEMMA CloseFrameStep == ASSUME FrameInv, CloseFrame PROVE FrameInv'
<1>1. /\ FrameTyped /\ outcome = "decoding" /\ HeaderWasTaken /\ WordsAreWithinBounds
      /\ ReservationFollowsTheOutput
      /\ encoded' = encoded /\ pinned' = pinned /\ loader' = loader
      /\ decoded' = decoded /\ reserved' = reserved /\ decoded = encoded.content
    BY DEF FrameInv, CloseFrame, OnlyOneWholeFrameIsOpened
<1> DEFINE size == CASE loader = "graph" -> encoded.declared \in {0, decoded}
                     [] loader = "program" -> /\ encoded.program = decoded
                                              /\ encoded.declared \in {0, decoded}
                     [] loader = "tool" -> TRUE
<1>2. outcome' = IF size /\ (loader = "tool" \/ FrameIsWhole) THEN "opened" ELSE "refused"
    BY DEF CloseFrame
<1>3. /\ loader = "graph" => size = (encoded.declared \in {0, decoded})
      /\ loader = "program" => size = (encoded.program = decoded /\ encoded.declared \in {0, decoded})
      /\ loader = "tool" => size = TRUE
    OBVIOUS
<1> HIDE DEF size
<1>4. FrameTyped'
    BY <1>1, <1>2 DEF FrameTyped
<1>5. ReservationFollowsTheOutput'
    BY <1>1 DEF ReservationFollowsTheOutput, IsZstd
<1>6. OneWholeFrameIsOpened'
    <2>1. IsOpenable' <=> IsOpenable
        BY <1>1 DEF IsOpenable, IsOneFrame, IsZstd, MaxBytes, MaxOutput
    <2>2. loader # "tool" => (IsOpenable <=> IsOneFrame)
        BY <1>1 DEF IsOpenable, HeaderWasTaken, IsZstd
    <2>3. decoded <= MaxOutput /\ encoded.broken >= encoded.content
        BY <1>1, FrameNumbers DEF WordsAreWithinBounds, Overruns, FrameTyped
    <2>4. loader # "tool" => (IsOneFrame <=> size /\ FrameIsWhole)
        BY <1>1, <1>3, <2>3 DEF IsOneFrame, HeaderWasTaken, FrameIsWhole, FrameTyped
    <2> QED BY <1>1, <1>2, <2>1, <2>2, <2>4 DEF OneWholeFrameIsOpened
<1>7. ToolUnwrapsWhatTheEvaluatorTakes'
    BY <1>1, <1>2, <1>3 DEF ToolUnwrapsWhatTheEvaluatorTakes
<1>8. outcome' \in {"opened", "refused"}
    BY <1>2
<1> QED BY <1>4, <1>5, <1>6, <1>7, <1>8 DEF FrameInv, OnlyOneWholeFrameIsOpened

\* For every artifact and all limits: an artifact is opened if and only if it is
\* pinned, within its limits and one whole frame of the size it declares; what is
\* reserved for it is never more than a step ahead; and the tool unwraps what the
\* evaluator takes (decompress_graph_with_limits, decode_compressed_program,
\* to_raw).
THEOREM OnlyOneWholeFrameIsOpenedHolds == FrameSpec => []OnlyOneWholeFrameIsOpened
<1>1. FrameInv /\ [FrameNext]_frameVars => FrameInv'
  <2> SUFFICES ASSUME FrameInv, [FrameNext]_frameVars PROVE FrameInv'
      OBVIOUS
  <2>1. CASE FrameNext
      BY <2>1, OpenFrameStep, ReadFrameStep, CloseFrameStep DEF FrameNext
  <2>2. CASE UNCHANGED frameVars
      BY <2>2 DEF frameVars, FrameInv, FrameTyped, HeaderWasTaken, WordsAreWithinBounds, Overruns,
                  OnlyOneWholeFrameIsOpened, ReservationFollowsTheOutput, OneWholeFrameIsOpened,
                  ToolUnwrapsWhatTheEvaluatorTakes, IsOpenable, IsOneFrame, IsZstd, MaxOutput, MaxBytes
  <2> QED BY <2>1, <2>2
<1>2. FrameInv => OnlyOneWholeFrameIsOpened
    BY DEF FrameInv
<1> QED BY FrameInitInv, <1>1, <1>2, PTL DEF FrameSpec
=============================================================================
