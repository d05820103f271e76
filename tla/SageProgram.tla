---------------------------- MODULE SageProgram -----------------------------
(***************************************************************************)
(* A stored SAGE program is loaded from a host's cache and evaluated.  Its *)
(* digest is authenticated, but a digest kept beside the bytes says only   *)
(* that they are what was stored: any sequence of records may be in it.    *)
(* The records are chosen as the decoder reads them.  Of a value, only     *)
(* whether it was written matters; a field division may fail.              *)
(***************************************************************************)
EXTENDS Integers, Sequences, FiniteSets

CONSTANTS
    NodeLimit, SignalLimit, ProgramBytes,   \* Limits: nodes, signals and bytes of a program
    OperationTags                           \* the published operation tags

HeaderBytes == 108
InstructionBytes == 16
ConstantBytes == 32
OutputBytes == 8

ProgramSize(dims) ==
    HeaderBytes + dims.instructions * InstructionBytes + dims.constants * ConstantBytes
        + dims.outputs * OutputBytes

DimensionsAreValid(dims) ==
    /\ dims.instructions \in 1..NodeLimit /\ dims.constants \in 0..dims.instructions
    /\ dims.inputs > 0 /\ dims.signals \in 1..SignalLimit
    /\ dims.slots \in 1..dims.instructions
    /\ dims.outputs = dims.signals
    /\ ProgramSize(dims) <= ProgramBytes

\* The kinds are bytes: 0 an input, 1 a constant, 2 an inverse, 3 an operation.
OperandsAreInBounds(dims, instruction) ==
    CASE instruction.kind = 0 -> instruction.tag = 0 /\ instruction.left < dims.inputs /\ instruction.right = 0
      [] instruction.kind = 1 -> instruction.tag = 0 /\ instruction.left < dims.constants /\ instruction.right = 0
      [] instruction.kind = 2 -> instruction.tag = 0 /\ instruction.left < dims.slots /\ instruction.right = 0
      [] instruction.kind = 3 -> /\ instruction.left < dims.slots /\ instruction.right < dims.slots
                                 /\ instruction.tag \in OperationTags
      [] OTHER -> FALSE

SlotsRead(instruction) ==
    CASE instruction.kind = 2 -> {instruction.left}
      [] instruction.kind = 3 -> {instruction.left, instruction.right}
      [] OTHER -> {}

\* Mutation: only the left operand must have been written.
ReadsWrittenSlots_Left(instruction, defined) ==
    instruction.kind \in {2, 3} => instruction.left \in defined

ReadsWrittenSlots(instruction, defined) == SlotsRead(instruction) \subseteq defined

InstructionIsValid(dims, instruction, defined) ==
    /\ instruction.padding = 0 /\ instruction.destination < dims.slots
    /\ OperandsAreInBounds(dims, instruction)
    /\ ReadsWrittenSlots(instruction, defined)

RowPrecedes(a, b) == a.node < b.node \/ (a.node = b.node /\ a.signal <= b.signal)

\* Rows are in order, and each signal has one.
OutputIsValid(dims, output, rows) ==
    /\ output.node < dims.instructions /\ output.signal < dims.signals
    /\ \A row \in rows : row.signal # output.signal /\ RowPrecedes(row, output)

OutputsAreComplete(dims, rows) == {row.signal : row \in rows} = 0..(dims.signals - 1)

-----------------------------------------------------------------------------
(* Loading and evaluating a program *)

CONSTANTS
    Bytes,                  \* the values of an index read from the file
    Kinds, Tags,            \* the values of the two bytes of an instruction
    OperationCost, InverseCost, Budget   \* Limits: evaluation cost

ASSUME ProgramAssumption ==
    /\ {NodeLimit, SignalLimit, ProgramBytes, OperationCost, InverseCost, Budget} \subseteq Nat
    /\ Bytes \subseteq Nat

VARIABLES
    loadPhase,          \* "dimensions", "instructions", "outputs", "loaded", "done" or "refused"
    loadedDims,         \* the counts of the header
    loadedInstructions, loadedOutputs,
    definedSlots,       \* the slots written by the instructions read so far
    meteredCost,        \* CostMeter
    loadedRun           \* the evaluation: the next instruction and output, what was written

programVars == <<loadPhase, loadedDims, loadedInstructions, loadedOutputs, definedSlots, meteredCost, loadedRun>>

NoDims == [instructions |-> 0, constants |-> 0, outputs |-> 0, inputs |-> 0, signals |-> 0, slots |-> 0]
Run(index, output, written, assigned, cost, error) ==
    [index |-> index, output |-> output, written |-> written, assigned |-> assigned, cost |-> cost,
     error |-> error]
FreshRun == Run(0, 0, {}, <<>>, 0, "none")
Stopped(run, error) == Run(run.index, run.output, run.written, run.assigned, run.cost, error)
At(seq, index) == seq[index + 1]
RowsOf(table) == {table[i] : i \in DOMAIN table}

ProgramInit ==
    /\ loadPhase = "dimensions" /\ loadedDims = NoDims
    /\ loadedInstructions = <<>> /\ loadedOutputs = <<>> /\ definedSlots = {} /\ meteredCost = 0
    /\ loadedRun = FreshRun

\* The header: an impossible combination is refused before anything is
\* allocated, and so is a size other than the file's, where a frame declares it.
ReadDimensions ==
    /\ loadPhase = "dimensions"
    /\ \E d \in [instructions : Bytes, constants : Bytes, outputs : Bytes, inputs : Bytes,
                 signals : Bytes, slots : Bytes], declared \in BOOLEAN, sizeMatches \in BOOLEAN :
        /\ loadedDims' = d
        /\ loadPhase' = IF DimensionsAreValid(d) /\ (declared => sizeMatches) THEN "instructions" ELSE "refused"
    /\ UNCHANGED <<loadedInstructions, loadedOutputs, definedSlots, meteredCost, loadedRun>>

CostOf(instruction) ==
    CASE instruction.kind = 2 -> InverseCost
      [] instruction.kind = 3 -> OperationCost
      [] OTHER -> 1

WithinBudget(cost) == cost <= Budget

ReadInstruction ==
    /\ loadPhase = "instructions" /\ Len(loadedInstructions) < loadedDims.instructions
    /\ \E instruction \in [kind : Kinds, tag : Tags, left : Bytes, right : Bytes, destination : Bytes,
                           padding : {0, 1}] :
        IF /\ InstructionIsValid(loadedDims, instruction, definedSlots)
           /\ WithinBudget(meteredCost + CostOf(instruction))
        THEN /\ loadedInstructions' = Append(loadedInstructions, instruction)
             /\ definedSlots' = definedSlots \cup {instruction.destination}
             /\ meteredCost' = meteredCost + CostOf(instruction)
             /\ loadPhase' = IF Len(loadedInstructions') = loadedDims.instructions THEN "outputs" ELSE loadPhase
        ELSE loadPhase' = "refused" /\ UNCHANGED <<loadedInstructions, definedSlots, meteredCost>>
    /\ UNCHANGED <<loadedDims, loadedOutputs, loadedRun>>

ReadOutput ==
    /\ loadPhase = "outputs" /\ Len(loadedOutputs) < loadedDims.outputs
    /\ \E output \in [node : Bytes, signal : Bytes] :
        IF OutputIsValid(loadedDims, output, RowsOf(loadedOutputs))
        THEN loadedOutputs' = Append(loadedOutputs, output) /\ loadPhase' = loadPhase
        ELSE loadPhase' = "refused" /\ UNCHANGED loadedOutputs
    /\ UNCHANGED <<loadedDims, loadedInstructions, definedSlots, meteredCost, loadedRun>>

\* The table is complete, and nothing follows the mappings.
FinishReading ==
    /\ loadPhase = "outputs" /\ Len(loadedOutputs) = loadedDims.outputs
    /\ \E nothingFollows \in BOOLEAN :
        loadPhase' = IF OutputsAreComplete(loadedDims, RowsOf(loadedOutputs)) /\ nothingFollows THEN "loaded" ELSE "refused"
    /\ UNCHANGED <<loadedDims, loadedInstructions, loadedOutputs, definedSlots, meteredCost, loadedRun>>

\* The rows of this node at the front of what is left of the table.
DueOutputs(run) ==
    {k \in run.output..(Len(loadedOutputs) - 1) :
        \A j \in run.output..k : At(loadedOutputs, j).node = run.index}

\* One instruction of the evaluation.  (A slot that was not written reads as
\* zero in the code; the run notes it.)
StepOf(run, instruction, divides) ==
    LET due == Cardinality(DueOutputs(run))
        inBounds == /\ SlotsRead(instruction) \subseteq 0..(loadedDims.slots - 1)
                    /\ instruction.kind = 0 => instruction.left < loadedDims.inputs
                    /\ instruction.kind = 1 => instruction.left < loadedDims.constants
    IN  IF ~inBounds THEN Stopped(run, "CompiledIndex")
        ELSE IF ~(SlotsRead(instruction) \subseteq run.written) THEN Stopped(run, "read an unwritten slot")
        ELSE IF instruction.kind = 3 /\ ~divides THEN Stopped(run, "DivisionByZero")
        ELSE Run(run.index + 1, run.output + due, run.written \cup {instruction.destination},
                 run.assigned \o [k \in 1..due |->
                     [node |-> run.index, signal |-> loadedOutputs[run.output + k].signal]],
                 run.cost + CostOf(instruction), "none")
EvaluateInstruction ==
    /\ loadPhase = "loaded" /\ loadedRun.error = "none" /\ loadedRun.index < loadedDims.instructions
    /\ \E divides \in BOOLEAN :
        loadedRun' = StepOf(loadedRun, At(loadedInstructions, loadedRun.index), divides)
    /\ UNCHANGED <<loadPhase, loadedDims, loadedInstructions, loadedOutputs, definedSlots, meteredCost>>

\* Every output must have been written by the end.
FinishEvaluation ==
    /\ loadPhase = "loaded" /\ (loadedRun.error # "none" \/ loadedRun.index = loadedDims.instructions)
    /\ loadPhase' = "done"
    /\ loadedRun' = IF loadedRun.error = "none" /\ loadedRun.output # Len(loadedOutputs)
                  THEN Stopped(loadedRun, "CompiledIndex") ELSE loadedRun
    /\ UNCHANGED <<loadedDims, loadedInstructions, loadedOutputs, definedSlots, meteredCost>>

ProgramNext ==
    \/ ReadDimensions \/ ReadInstruction \/ ReadOutput \/ FinishReading
    \/ EvaluateInstruction \/ FinishEvaluation
ProgramSpec == ProgramInit /\ [][ProgramNext]_programVars

-----------------------------------------------------------------------------
(* Properties *)

\* "Loading it authenticates the program digest, validates every dimension and
\* index": a program that loads never runs into an index out of bounds, during
\* its instructions or for an output left over at the end.
ProgramsStayInBounds == loadedRun.error # "CompiledIndex"

\* A program that loads reads no slot that the same calculation has not
\* written, so nothing of an earlier one could reach an assignment.
OnlyWrittenSlotsAreRead == loadedRun.error # "read an unwritten slot"

\* A calculation that ends without an error wrote every signal exactly once,
\* each with the value of the node the table names.
EverySignalIsWrittenOnce ==
    (loadPhase = "done" /\ loadedRun.error = "none") =>
        /\ Len(loadedRun.assigned) = loadedDims.signals
        /\ {row.signal : row \in RowsOf(loadedRun.assigned)} = 0..(loadedDims.signals - 1)
        /\ RowsOf(loadedRun.assigned) = RowsOf(loadedOutputs)

\* Loading meters what a calculation will spend: none goes over the budget.
CalculationsStayInBudget == loadedRun.cost <= Budget

\* A program that loads reads only what the same calculation wrote, stays in
\* bounds and in its budget, and writes every signal once (sage.rs).
LoadedProgramsReadWhatTheyWrote ==
    /\ ProgramsStayInBounds /\ OnlyWrittenSlotsAreRead
    /\ EverySignalIsWrittenOnce /\ CalculationsStayInBudget
=============================================================================
