----------------------------- MODULE SystemZstd -----------------------------
(***************************************************************************)
(* The signet tool compresses an artifact with the system zstd             *)
(* (compress_with_system_zstd): a scoped thread writes to the child's stdin*)
(* while the caller drains its stdout, both through pipes that hold a few  *)
(* blocks, and the child may fail at any time.  The child turns a block of *)
(* input into a block of output, as it does with what cannot be compressed.*)
(***************************************************************************)
EXTENDS Integers

CONSTANTS
    Blocks,         \* of the artifact
    PipeBlocks,     \* what a pipe holds
    ChildBlocks     \* what the child holds between its input and its output

BlocksAssumption == Blocks \in Nat /\ PipeBlocks \in Nat \ {0} /\ ChildBlocks \in Nat \ {0}

VARIABLES
    child,          \* "absent", "running", "succeeded" or "failed"
    writer,         \* "writing", "written" or "failed"
    written,        \* blocks written to stdin
    taken,          \* blocks the child read
    given,          \* blocks it wrote to stdout
    drained,        \* blocks the caller read
    result          \* "pending", "none", or the number of blocks returned

vars == <<child, writer, written, taken, given, drained, result>>

\* Command::spawn: without the binary there is no child.
Init ==
    /\ \/ child = "running" /\ result = <<"pending">>
       \/ child = "absent" /\ result = <<"none">>
    /\ writer = "writing"
    /\ written = 0 /\ taken = 0 /\ given = 0 /\ drained = 0

\* The thread writes all blocks and closes stdin, or sees the pipe broken.
Write ==
    /\ writer = "writing" /\ result = <<"pending">>
    /\ \/ /\ child = "running" /\ written < Blocks /\ written - taken < PipeBlocks
          /\ written' = written + 1 /\ UNCHANGED writer
       \/ child # "running" /\ written < Blocks /\ writer' = "failed" /\ UNCHANGED written
       \/ written = Blocks /\ writer' = "written" /\ UNCHANGED written
    /\ UNCHANGED <<child, taken, given, drained, result>>

\* The child reads while it has room, writes while the pipe has, and ends well
\* after the end of its input.
ChildReads ==
    /\ child = "running" /\ taken < written /\ taken - given < ChildBlocks
    /\ taken' = taken + 1
    /\ UNCHANGED <<child, writer, written, given, drained, result>>
ChildWrites ==
    /\ child = "running" /\ given < taken /\ given - drained < PipeBlocks
    /\ given' = given + 1
    /\ UNCHANGED <<child, writer, written, taken, drained, result>>
ChildEnds ==
    /\ child = "running" /\ writer = "written" /\ given = written
    /\ child' = "succeeded"
    /\ UNCHANGED <<writer, written, taken, given, drained, result>>
ChildFails ==
    /\ child = "running"
    /\ child' = "failed"
    /\ UNCHANGED <<writer, written, taken, given, drained, result>>

\* Mutation: the output is read once the input is written.
MayDrain_AfterWriting == writer # "writing"

\* The caller reads from the start.
MayDrain == TRUE

\* wait_with_output: to the end of the child's output.
Drain ==
    /\ result = <<"pending">> /\ MayDrain /\ drained < given
    /\ drained' = drained + 1
    /\ UNCHANGED <<child, writer, written, taken, given, result>>

Compressed == writer = "written" /\ child = "succeeded"

\* The thread is joined and the child's status is known.
Return ==
    /\ result = <<"pending">> /\ MayDrain
    /\ child # "running" /\ drained = given /\ writer # "writing"
    /\ result' = IF Compressed THEN <<"compressed", drained>> ELSE <<"none">>
    /\ UNCHANGED <<child, writer, written, taken, given, drained>>

Next == Write \/ ChildReads \/ ChildWrites \/ ChildEnds \/ ChildFails \/ Drain \/ Return
ChildRuns == ChildReads \/ ChildWrites \/ ChildEnds
Spec == Init /\ [][Next]_vars /\ WF_vars(Write) /\ WF_vars(ChildRuns) /\ WF_vars(Drain) /\ WF_vars(Return)

-----------------------------------------------------------------------------
(* Properties *)

\* "Drain stdout while feeding stdin": however large the output and however
\* small the pipes, the caller returns.
Returned == result # <<"pending">>
CompressReturns == <>Returned

\* What is returned is the compression of the whole artifact; one that the
\* child did not finish is never taken for it.
OnlyWholeOutputsAreReturned == result[1] = "compressed" => result[2] = Blocks
=============================================================================
