-------------------------------- MODULE Sage --------------------------------
(***************************************************************************)
(* The two evaluators of a witness graph (curvy-witness): WitnessGraph     *)
(* keeps the value of every node; SAGE compiles the graph in two passes    *)
(* over the same records into instructions whose value slots are recycled  *)
(* once their last reader has run.  Both evaluate the same input in        *)
(* step, each in a workspace that it reuses for the next calculation.      *)
(* EvaluationIsExactHolds proves that they agree, for every graph, field   *)
(* and input, and LoadedProgramsReadWhatTheyWroteHolds that of the stored  *)
(* programs of SageProgram one that loads is evaluated in bounds.          *)
(***************************************************************************)
EXTENDS FieldOperations, SageProgram, SequencesExt, FiniteSetTheorems, SequenceTheorems, TLAPS

CONSTANTS
    MaxNodes, SignalCount,          \* nodes and signals of the graph
    Operations, ConstantValues,     \* what its nodes may be
    InputBuffers,                   \* the decoded inputs: the constant one first
    RetainedLimit,                  \* elements a workspace may keep while idle
    MaxCalculations

InputLen == Len(CHOOSE inputs \in InputBuffers : TRUE)

ASSUME GraphAssumption ==
    /\ MaxNodes \in Nat \ {0} /\ SignalCount \in Nat \ {0} /\ RetainedLimit \in Nat
    /\ Operations \subseteq OperationNames /\ ConstantValues \subseteq Field
    /\ InputBuffers # {}
    /\ \A inputs \in InputBuffers : inputs \in Seq(Field) /\ Len(inputs) = InputLen /\ inputs[1] = 1

VARIABLES
    nodes, signals,         \* the graph, as its records are read
    pass,                   \* of the compiler: "mark", "allocate", "ready", or its refusal
    lastUse,                \* the last record that reads each node
    program,                \* instructions, constants and outputs
    nodeSlots, freeSlots, slotOwner,
    calculation,            \* the calculation in progress, or Idle
    workspaces,             \* the retained buffers of each evaluator
    calculations            \* how many were begun

graphVars == <<nodes, signals>>
compilerVars == <<pass, lastUse, program, nodeSlots, freeSlots, slotOwner>>
vars == <<graphVars, compilerVars, calculation, workspaces, calculations>>

NodeCount == Len(nodes)

\* The records that may come next: each refers only to earlier nodes.
Record(kind, operation, left, right) == [kind |-> kind, operation |-> operation, left |-> left, right |-> right]
Records(index) ==
    {Record("Input", "None", input, 0) : input \in 0..(InputLen - 1)}
    \cup {Record("Constant", "None", value, 0) : value \in ConstantValues}
    \cup {Record("Inverse", "None", source, 0) : source \in 0..(index - 1)}
    \cup {Record("Operation", o, l, r) : o \in Operations, l \in 0..(index - 1), r \in 0..(index - 1)}
Reads(record) ==
    CASE record.kind = "Operation" -> {record.left, record.right}
      [] record.kind = "Inverse" -> {record.left}
      [] OTHER -> {}

-----------------------------------------------------------------------------
(* Buffers: the cells a vector has allocated and how many of them it uses *)

Buffer(cells, length) == [cells |-> cells, length |-> length]
Extended(buffer, values) ==
    LET length == buffer.length + Len(values)
        allocated == IF length > Len(buffer.cells) THEN length ELSE Len(buffer.cells)
    IN  Buffer([i \in 1..allocated |-> IF i \in (buffer.length + 1)..length THEN values[i - buffer.length]
                                       ELSE buffer.cells[i]], length)
EmptyBuffer == Buffer(<<>>, 0)
Pushed(buffer, value) == Extended(buffer, <<value>>)
Resized(buffer, length) ==
    IF length <= buffer.length THEN Buffer(buffer.cells, length)
    ELSE Extended(buffer, [i \in 1..(length - buffer.length) |-> 0])
Contents(buffer) == SubSeq(buffer.cells, 1, buffer.length)
Zeroized(buffer) == Buffer([i \in DOMAIN buffer.cells |-> 0], 0)

Retained(workspace) == Len(workspace.values.cells) + Len(workspace.assignment.cells)
EmptyWorkspace == [values |-> EmptyBuffer, assignment |-> EmptyBuffer]

Cleared(workspace) ==
    IF Retained(workspace) > RetainedLimit THEN EmptyWorkspace
    ELSE [values |-> Zeroized(workspace.values), assignment |-> Zeroized(workspace.assignment)]

-----------------------------------------------------------------------------
(* The compiler *)

\* A node nobody reads keeps its own index.
Marked(uses, record, index) ==
    Append([j \in DOMAIN uses |-> IF j - 1 \in Reads(record) THEN index ELSE uses[j]], index)

\* Pass one, a record.
Mark ==
    /\ pass = "mark" /\ NodeCount < MaxNodes
    /\ \E record \in Records(NodeCount) :
        /\ nodes' = Append(nodes, record)
        /\ lastUse' = Marked(lastUse, record, NodeCount)
    /\ UNCHANGED <<signals, pass, program, nodeSlots, freeSlots, slotOwner, calculation, workspaces, calculations>>

\* sort_unstable_by_key: the one order of the outputs in which they increase.
Precedes(a, b) == a.node < b.node \/ (a.node = b.node /\ a.signal < b.signal)
SortedOutputs(outputs) ==
    {sorted \in [1..SignalCount -> outputs] :
        /\ \A output \in outputs : \E i \in 1..SignalCount : sorted[i] = output
        /\ \A i, j \in 1..SignalCount : i < j => Precedes(sorted[i], sorted[j])}

Program(instructions, constants, outputs) ==
    [instructions |-> instructions, constants |-> constants, outputs |-> outputs]

\* The output references end the first pass.
MarkOutputs ==
    /\ pass = "mark" /\ nodes # <<>>
    /\ \E references \in [1..SignalCount -> 0..(NodeCount - 1)] :
        /\ signals' = references
        /\ \E sorted \in SortedOutputs({[node |-> references[s], signal |-> s - 1] : s \in 1..SignalCount}) :
              program' = Program(program.instructions, program.constants, sorted)
    /\ pass' = "allocate"
    /\ UNCHANGED <<nodes, lastUse, nodeSlots, freeSlots, slotOwner, calculation, workspaces, calculations>>

\* A node used twice by one instruction is released once.
Freed(node, index) == IF At(lastUse, node) = index THEN <<At(nodeSlots, node)>> ELSE <<>>
Released(record, index) ==
    CASE record.kind = "Operation" /\ record.left # record.right ->
            Freed(record.left, index) \o Freed(record.right, index)
      [] record.kind = "Operation" /\ record.left = record.right -> Freed(record.left, index)
      [] record.kind = "Inverse" -> Freed(record.left, index)
      [] OTHER -> <<>>

Encoded(record, destination) ==
    [kind |-> record.kind, operation |-> record.operation, destination |-> destination,
     left |-> CASE record.kind = "Input" -> record.left
                [] record.kind = "Constant" -> Len(program.constants)
                [] OTHER -> At(nodeSlots, record.left),
     right |-> IF record.kind = "Operation" THEN At(nodeSlots, record.right) ELSE 0]

\* Mutation: a recycled destination is encoded as the newest slot.
Instruction_Newest(record, destination) ==
    Encoded(record, IF destination < Len(slotOwner) THEN Len(slotOwner) - 1 ELSE destination)

Instruction(record, destination) == Encoded(record, destination)

\* Pass two, a record: its operands' slots are given back before its own is
\* chosen, and its own is if nobody reads it.
Allocate ==
    LET index == Len(program.instructions)
        record == At(nodes, index)
        free == freeSlots \o Released(record, index)
        recycled == free # <<>>
        destination == IF recycled THEN Last(free) ELSE Len(slotOwner)
        kept == IF recycled THEN Front(free) ELSE free
    IN  /\ pass = "allocate" /\ index < NodeCount
        /\ IF recycled /\ At(lastUse, At(slotOwner, destination)) > index
           THEN pass' = "recycled a live slot"
                /\ UNCHANGED <<program, nodeSlots, freeSlots, slotOwner>>
           ELSE /\ slotOwner' = IF recycled THEN [slotOwner EXCEPT ![destination + 1] = index]
                                ELSE Append(slotOwner, index)
                /\ nodeSlots' = Append(nodeSlots, destination)
                /\ program' = Program(Append(program.instructions, Instruction(record, destination)),
                      IF record.kind = "Constant" THEN Append(program.constants, record.left)
                      ELSE program.constants, program.outputs)
                /\ freeSlots' = IF At(lastUse, index) = index THEN Append(kept, destination) ELSE kept
                /\ pass' = IF index + 1 = NodeCount THEN "ready" ELSE pass
        /\ UNCHANGED <<graphVars, lastUse, calculation, workspaces, calculations>>

-----------------------------------------------------------------------------
(* Evaluation *)

Idle == [state |-> "idle"]
Running == [running |-> TRUE]
Calculation(state, inputs, index, outputIndex, direct, sage) ==
    [state |-> state, inputs |-> inputs, index |-> index, outputIndex |-> outputIndex,
     direct |-> direct, sage |-> sage]

\* SAGE takes all its slots at once; the direct evaluator pushes as it goes.
Begun ==
    [direct |-> workspaces.direct,
     sage |-> [values |-> Resized(workspaces.sage.values, Len(slotOwner)),
               assignment |-> Resized(workspaces.sage.assignment, SignalCount)]]

Begin ==
    /\ pass = "ready" /\ calculation = Idle /\ calculations < MaxCalculations
    /\ \E inputs \in InputBuffers :
        /\ calculation' = Calculation("nodes", inputs, 0, 0, Running, Running)
        /\ workspaces' = Begun
    /\ calculations' = calculations + 1
    /\ UNCHANGED <<graphVars, compilerVars>>

\* What the direct evaluator computes for the next node.
DirectValue ==
    LET record == At(nodes, calculation.index)
        values == workspaces.direct.values.cells
    IN  CASE record.kind = "Input" -> Gives(At(calculation.inputs, record.left))
          [] record.kind = "Constant" -> Gives(record.left)
          [] record.kind = "Inverse" -> Gives(InverseOrZero(At(values, record.left)))
          [] OTHER -> Evaluated(record.operation, At(values, record.left), At(values, record.right))

\* A slot outside the buffer is the error CompiledIndex.
SlotValue(seq, index) == IF index < Len(seq) THEN Gives(At(seq, index)) ELSE Fails("CompiledIndex")

SageValue ==
    LET instruction == At(program.instructions, calculation.index)
        values == Contents(workspaces.sage.values)
        left == SlotValue(values, instruction.left)
        right == SlotValue(values, instruction.right)
    IN  CASE instruction.kind = "Input" -> SlotValue(calculation.inputs, instruction.left)
          [] instruction.kind = "Constant" -> SlotValue(program.constants, instruction.left)
          [] instruction.kind = "Inverse" /\ "value" \in DOMAIN left -> Gives(InverseOrZero(left.value))
          [] instruction.kind = "Operation" /\ "value" \in DOMAIN left /\ "value" \in DOMAIN right ->
                Evaluated(instruction.operation, left.value, right.value)
          [] OTHER -> Fails("CompiledIndex")

IsValue(result) == "value" \in DOMAIN result
Outcome(result) == IF IsValue(result) THEN Running ELSE Fails(result.error)

\* The outputs of this node are next in the table; each gets the value itself.
OutputsEnd ==
    LET others == {i \in (calculation.outputIndex + 1)..Len(program.outputs) :
                      program.outputs[i].node # calculation.index}
    IN  IF others = {} THEN Len(program.outputs) ELSE Min(others) - 1
OutputsWritten(cells, value) ==
    [s \in DOMAIN cells |->
        IF \E i \in (calculation.outputIndex + 1)..OutputsEnd : program.outputs[i].signal + 1 = s
        THEN value ELSE cells[s]]

\* SAGE stores a value in its node's slot and in the outputs of the node.
SageStored(workspace, value) ==
    LET destination == At(program.instructions, calculation.index).destination
    IN  [values |-> Buffer([workspace.values.cells EXCEPT ![destination + 1] = value], workspace.values.length),
         assignment |-> Buffer(OutputsWritten(workspace.assignment.cells, value), workspace.assignment.length)]

\* One node in each evaluator that has not failed.
Evaluate ==
    LET direct == DirectValue
        sage == SageValue
    IN  /\ calculation.state = "nodes" /\ calculation.index < NodeCount
        /\ calculation.direct = Running /\ calculation.sage = Running
        /\ calculation' = Calculation("nodes", calculation.inputs, calculation.index + 1,
                              IF IsValue(sage) THEN OutputsEnd ELSE calculation.outputIndex,
                              Outcome(direct), Outcome(sage))
        /\ workspaces' =
              [direct |-> IF IsValue(direct)
                          THEN [values |-> Pushed(workspaces.direct.values, direct.value),
                                assignment |-> workspaces.direct.assignment]
                          ELSE workspaces.direct,
               sage |-> IF IsValue(sage) THEN SageStored(workspaces.sage, sage.value) ELSE workspaces.sage]
        /\ UNCHANGED <<graphVars, compilerVars, calculations>>

\* The first signal must be the constant one.
Assigned(assignment) ==
    IF Contents(assignment)[1] # 1 THEN Fails("InvalidAssignmentOne") ELSE [assignment |-> Contents(assignment)]

\* The assignments are handed to the consumer, which may fail.
Complete ==
    LET direct == Extended(workspaces.direct.assignment,
                           [s \in 1..SignalCount |-> At(workspaces.direct.values.cells, signals[s])])
    IN  /\ calculation.state = "nodes"
        /\ calculation.index = NodeCount \/ calculation.direct # Running \/ calculation.sage # Running
        /\ calculation' = Calculation("returning", calculation.inputs, calculation.index, calculation.outputIndex,
                              IF calculation.direct = Running THEN Assigned(direct) ELSE calculation.direct,
                              IF calculation.sage # Running THEN calculation.sage
                              ELSE IF calculation.outputIndex # Len(program.outputs) THEN Fails("CompiledIndex")
                              ELSE Assigned(workspaces.sage.assignment))
        /\ workspaces' =
              [direct |-> IF calculation.direct = Running
                          THEN [values |-> workspaces.direct.values, assignment |-> direct]
                          ELSE workspaces.direct,
               sage |-> workspaces.sage]
        /\ UNCHANGED <<graphVars, compilerVars, calculations>>

\* However the call ends, by a value, an error or the consumer's panic, the
\* leases end with it.
Return ==
    /\ calculation.state = "returning"
    /\ workspaces' = [direct |-> Cleared(workspaces.direct), sage |-> Cleared(workspaces.sage)]
    /\ calculation' = Idle
    /\ UNCHANGED <<graphVars, compilerVars, calculations>>

Init ==
    /\ nodes = <<>> /\ signals = <<>> /\ pass = "mark" /\ lastUse = <<>>
    /\ program = Program(<<>>, <<>>, <<>>)
    /\ nodeSlots = <<>> /\ freeSlots = <<>> /\ slotOwner = <<>>
    /\ calculation = Idle /\ calculations = 0
    /\ workspaces = [direct |-> EmptyWorkspace, sage |-> EmptyWorkspace]

Next == Mark \/ MarkOutputs \/ Allocate \/ Begin \/ Evaluate \/ Complete \/ Return
Spec == Init /\ [][Next]_vars

-----------------------------------------------------------------------------
(* The program as encode_program writes it *)

KindByte(kind) ==
    CASE kind = "Input" -> 0 [] kind = "Constant" -> 1 [] kind = "Inverse" -> 2 [] OTHER -> 3
StoredInstruction(instruction) ==
    [kind |-> KindByte(instruction.kind), tag |-> IF instruction.kind = "Operation" THEN instruction.operation ELSE 0,
     left |-> instruction.left, right |-> instruction.right, destination |-> instruction.destination,
     padding |-> 0]
StoredDims ==
    [instructions |-> Len(program.instructions), constants |-> Len(program.constants),
     outputs |-> Len(program.outputs), inputs |-> InputLen, signals |-> SignalCount, slots |-> Len(slotOwner)]
StoredProgram ==
    [dims |-> StoredDims, outputs |-> program.outputs,
     instructions |-> [i \in DOMAIN program.instructions |-> StoredInstruction(program.instructions[i])]]

IsCompiled == pass = "ready"

-----------------------------------------------------------------------------
(* Properties *)

\* "It should be unreachable for every graph the parser accepts" (WitnessError::
\* Invariant): the compiler never gives out a slot that is still to be read.
CompilerNeverRefuses == pass \in {"mark", "allocate", "ready"}

ReadAfter(node, index) == \E later \in (index + 1)..(NodeCount - 1) : node \in Reads(At(nodes, later))

\* The live nodes after instruction `index`: itself, and every earlier node a
\* later one reads.
LiveAfter(index) == {index} \cup {node \in 0..(index - 1) : ReadAfter(node, index)}

\* Slot allocation is tight: the program has as many slots as nodes were ever
\* live at once, however the last uses fall.
SlotsAreThePeakOfLiveNodes ==
    pass = "ready" =>
        /\ \A index \in 0..(NodeCount - 1) : Cardinality(LiveAfter(index)) <= Len(slotOwner)
        /\ \E index \in 0..(NodeCount - 1) : Cardinality(LiveAfter(index)) = Len(slotOwner)

\* While both evaluate, the slot of every node that is still to be read holds
\* the value the direct evaluator kept for it.
SlotsHoldTheLiveValues ==
    (calculation.state = "nodes" /\ calculation.direct = Running /\ calculation.sage = Running) =>
        \A node \in 0..(calculation.index - 1) :
            ReadAfter(node, calculation.index - 1) =>
                At(workspaces.sage.values.cells, At(nodeSlots, node)) = At(workspaces.direct.values.cells, node)

\* "Produces the identical assignment to WitnessGraph::calculate_json", and
\* the identical refusal.
SageMatchesTheDirectEvaluator ==
    calculation.state = "returning" => calculation.sage = calculation.direct

\* The values of a graph by its definition.
ReferenceValues(inputs) ==
    LET value[i \in 0..(NodeCount - 1)] ==
            LET record == At(nodes, i)
            IN  CASE record.kind = "Input" -> Gives(At(inputs, record.left))
                  [] record.kind = "Constant" -> Gives(record.left)
                  [] \E node \in Reads(record) : ~IsValue(value[node]) -> Fails("unreached")
                  [] record.kind = "Inverse" -> Gives(InverseOrZero(value[record.left].value))
                  [] OTHER -> Evaluated(record.operation, value[record.left].value, value[record.right].value)
    IN  value

\* A calculation in a reused workspace, after one that succeeded, failed
\* half way or whose consumer failed, gives what a fresh one would.
CalculationsAreIndependent ==
    calculation.state = "returning" =>
        LET value == ReferenceValues(calculation.inputs)
            assignment == [s \in 1..SignalCount |-> value[signals[s]].value]
        IN  IF \E node \in DOMAIN value : ~IsValue(value[node])
            THEN calculation.direct = Fails("DivisionByZero")
            ELSE calculation.direct = IF assignment[1] = 1 THEN [assignment |-> assignment]
                                      ELSE Fails("InvalidAssignmentOne")

\* Between calculations a workspace holds no value of the last one in any cell
\* it keeps, and keeps no more than it was allowed.
IdleWorkspacesHoldNothing ==
    calculation = Idle =>
        \A workspace \in {workspaces.direct, workspaces.sage} :
            /\ Retained(workspace) <= RetainedLimit
            /\ \A buffer \in {workspace.values, workspace.assignment} :
                  \A i \in DOMAIN buffer.cells : buffer.cells[i] = 0

\* SAGE is the direct evaluator: it never recycles a slot that is still to be
\* read, so every calculation gives the same assignment or the same refusal,
\* and leaves nothing behind.
EvaluationIsExact ==
    /\ CompilerNeverRefuses
    /\ SlotsHoldTheLiveValues
    /\ SageMatchesTheDirectEvaluator
    /\ IdleWorkspacesHoldNothing

-----------------------------------------------------------------------------
(* Proofs *)

RecordKinds == {"Input", "Constant", "Inverse", "Operation"}
Nodes == [kind : RecordKinds, operation : OperationNames \cup {"None"}, left : Int \cup ConstantValues, right : Int]
Instructions ==
    [kind : RecordKinds, operation : OperationNames \cup {"None"}, destination : Nat, left : Int, right : Int]
Outputs == [node : Nat, signal : Nat]
Written == Len(nodeSlots)       \* the instructions so far

\* A node refers to earlier nodes, and is last used at itself or where it is read.
Graph ==
    /\ nodes \in Seq(Nodes)
    /\ \A k \in 0..(NodeCount - 1) : At(nodes, k) \in Records(k)
Uses ==
    /\ lastUse \in Seq(Nat) /\ Len(lastUse) = NodeCount
    /\ \A n \in 0..(NodeCount - 1) :
        /\ At(lastUse, n) >= n
        /\ \A m \in 0..(NodeCount - 1) : n \in Reads(At(nodes, m)) => At(lastUse, n) >= m

\* Every slot has an owner; the slot of a node that is still to be read is the
\* node's own; the owner of a free slot is no longer read, and no slot is free
\* twice; so no later node was written over a node before its last use.
Owned ==
    /\ nodeSlots \in Seq(Nat) /\ slotOwner \in Seq(Nat) /\ freeSlots \in Seq(Nat)
    /\ Written <= NodeCount
    /\ \A n \in 0..(Written - 1) : At(nodeSlots, n) < Len(slotOwner)
    /\ \A s \in 0..(Len(slotOwner) - 1) : At(slotOwner, s) < Written
Live ==
    \A n \in 0..(Written - 1) : At(lastUse, n) >= Written => At(slotOwner, At(nodeSlots, n)) = n
Free ==
    /\ \A i \in 1..Len(freeSlots) :
        /\ freeSlots[i] < Len(slotOwner)
        /\ At(lastUse, At(slotOwner, freeSlots[i])) < Written
    /\ \A i, j \in 1..Len(freeSlots) : freeSlots[i] = freeSlots[j] => i = j
Unharmed ==
    \A n, k \in 0..(Written - 1) : n < k /\ k < At(lastUse, n) => At(nodeSlots, k) # At(nodeSlots, n)

\* An instruction is its node, with slots for nodes.
Compiled ==
    /\ program.instructions \in Seq(Instructions) /\ Len(program.instructions) = Written
    /\ program.constants \in Seq(ConstantValues)
    /\ \A k \in 0..(Written - 1) :
        LET instruction == At(program.instructions, k)
            node == At(nodes, k)
        IN  /\ instruction.kind = node.kind /\ instruction.operation = node.operation
            /\ instruction.destination = At(nodeSlots, k)
            /\ node.kind = "Input" => instruction.left = node.left
            /\ node.kind = "Constant" =>
                instruction.left \in 0..(Len(program.constants) - 1)
                /\ At(program.constants, instruction.left) = node.left
            /\ node.kind \in {"Inverse", "Operation"} => instruction.left = At(nodeSlots, node.left)
            /\ node.kind = "Operation" => instruction.right = At(nodeSlots, node.right)

\* The table has every output, in the order of the nodes.
Tabled ==
    /\ signals \in [1..SignalCount -> 0..(NodeCount - 1)]
    /\ program.outputs \in Seq(Outputs) /\ Len(program.outputs) = SignalCount
    /\ \A i \in 1..SignalCount :
        /\ program.outputs[i].signal < SignalCount
        /\ program.outputs[i].node = signals[program.outputs[i].signal + 1]
        /\ program.outputs[i].node < NodeCount
    /\ \A s \in 1..SignalCount : \E i \in 1..SignalCount : program.outputs[i].signal + 1 = s
    /\ \A i, j \in 1..SignalCount : i <= j => program.outputs[i].node <= program.outputs[j].node

Passes ==
    /\ pass \in {"mark", "allocate", "ready"}
    /\ pass = "mark" => Written = 0 /\ slotOwner = <<>> /\ freeSlots = <<>>
    /\ pass # "mark" => Tabled
    /\ pass = "ready" => Written = NodeCount

CompilerInv ==
    Graph /\ Uses /\ Owned /\ Live /\ Free /\ Unharmed /\ Compiled /\ Passes

\* A vector holds what it was given, whatever that is.
Listed(s) == \E n \in Nat : s = [i \in 1..n |-> s[i]]
Vector(buffer) == Listed(buffer.cells) /\ buffer.length \in 0..Len(buffer.cells)
Vectors(workspace) == Vector(workspace.values) /\ Vector(workspace.assignment)
Blank(buffer) == buffer.length = 0 /\ \A i \in DOMAIN buffer.cells : buffer.cells[i] = 0
Clean(workspace) ==
    Retained(workspace) <= RetainedLimit /\ Blank(workspace.values) /\ Blank(workspace.assignment)

\* While both run, the slot of a node still to be read holds its value, and so
\* do the outputs of the nodes so far.
InStep ==
    /\ calculation.index \in 0..NodeCount /\ calculation.outputIndex \in 0..SignalCount
    /\ calculation.inputs \in InputBuffers
    /\ workspaces.direct.values.length = calculation.index
    /\ workspaces.direct.assignment.length = 0
    /\ workspaces.sage.values.length = Len(slotOwner)
    /\ workspaces.sage.assignment.length = SignalCount
    /\ \A n \in 0..(calculation.index - 1) : At(lastUse, n) >= calculation.index =>
          At(workspaces.sage.values.cells, At(nodeSlots, n)) = At(workspaces.direct.values.cells, n)
    /\ \A i \in 1..SignalCount :
        /\ i <= calculation.outputIndex <=> program.outputs[i].node < calculation.index
        /\ i <= calculation.outputIndex =>
            At(workspaces.sage.assignment.cells, program.outputs[i].signal)
                = At(workspaces.direct.values.cells, program.outputs[i].node)

EvaluationInv ==
    /\ Vectors(workspaces.direct) /\ Vectors(workspaces.sage)
    /\ calculation = Idle => Clean(workspaces.direct) /\ Clean(workspaces.sage)
    /\ calculation # Idle =>
        /\ pass = "ready" /\ calculation.state \in {"nodes", "returning"}
        /\ calculation.sage = calculation.direct
        /\ calculation.state = "nodes" /\ calculation.direct = Running => InStep

-----------------------------------------------------------------------------
\* An entry of a vector is what the vector holds.
LEMMA EntryAt ==
    ASSUME NEW S, NEW seq \in Seq(S), NEW index \in 0..(Len(seq) - 1)
    PROVE  At(seq, index) \in S
<1>1. index + 1 \in 1..Len(seq) OBVIOUS
<1> QED BY <1>1 DEF At

\* What a record may be.
LEMMA RecordFacts ==
    ASSUME NEW k \in Nat, NEW r \in Records(k)
    PROVE  /\ r \in Nodes /\ r.kind \in RecordKinds
           /\ Reads(r) \subseteq 0..(k - 1)
           /\ r.kind = "Input" => r.left \in 0..(InputLen - 1)
           /\ r.kind = "Constant" => r.left \in ConstantValues
           /\ r.kind = "Inverse" => r.left \in 0..(k - 1) /\ Reads(r) = {r.left}
           /\ r.kind = "Operation" =>
                r.left \in 0..(k - 1) /\ r.right \in 0..(k - 1) /\ Reads(r) = {r.left, r.right}
<1>a. InputLen \in Nat
  <2>1. PICK inputs \in InputBuffers : TRUE BY GraphAssumption
  <2> QED BY <2>1, GraphAssumption
<1>1. CASE \E input \in 0..(InputLen - 1) : r = Record("Input", "None", input, 0)
  <2>1. PICK input \in 0..(InputLen - 1) : r = Record("Input", "None", input, 0) BY <1>1
  <2>2. r = [kind |-> "Input", operation |-> "None", left |-> input, right |-> 0] BY <2>1 DEF Record
  <2>3. input \in Int BY <1>a
  <2>4. r.kind = "Input" /\ r.left = input BY <2>2
  <2>5. r \in Nodes BY <2>2, <2>3 DEF Nodes, RecordKinds
  <2>6. Reads(r) = {} BY <2>4 DEF Reads
  <2> QED BY <2>4, <2>5, <2>6 DEF RecordKinds
<1>2. CASE \E value \in ConstantValues : r = Record("Constant", "None", value, 0)
  <2>1. PICK value \in ConstantValues : r = Record("Constant", "None", value, 0) BY <1>2
  <2>2. r = [kind |-> "Constant", operation |-> "None", left |-> value, right |-> 0] BY <2>1 DEF Record
  <2>3. r.kind = "Constant" /\ r.left = value BY <2>2
  <2>4. r \in Nodes BY <2>2 DEF Nodes, RecordKinds
  <2>5. Reads(r) = {} BY <2>3 DEF Reads
  <2> QED BY <2>3, <2>4, <2>5 DEF RecordKinds
<1>3. CASE \E source \in 0..(k - 1) : r = Record("Inverse", "None", source, 0)
  <2>1. PICK source \in 0..(k - 1) : r = Record("Inverse", "None", source, 0) BY <1>3
  <2>2. r = [kind |-> "Inverse", operation |-> "None", left |-> source, right |-> 0] BY <2>1 DEF Record
  <2>3. r.kind = "Inverse" /\ r.left = source BY <2>2
  <2>4. r \in Nodes BY <2>2 DEF Nodes, RecordKinds
  <2>5. Reads(r) = {r.left} BY <2>3 DEF Reads
  <2> QED BY <2>3, <2>4, <2>5 DEF RecordKinds
<1>4. CASE \E o \in Operations, l \in 0..(k - 1), m \in 0..(k - 1) : r = Record("Operation", o, l, m)
  <2>1. PICK o \in Operations, l \in 0..(k - 1), m \in 0..(k - 1) : r = Record("Operation", o, l, m) BY <1>4
  <2>2. r = [kind |-> "Operation", operation |-> o, left |-> l, right |-> m] BY <2>1 DEF Record
  <2>3. r.kind = "Operation" /\ r.left = l /\ r.right = m BY <2>2
  <2>4. o \in OperationNames BY GraphAssumption
  <2>5. r \in Nodes BY <2>2, <2>4 DEF Nodes, RecordKinds
  <2>6. Reads(r) = {r.left, r.right} BY <2>3 DEF Reads
  <2> QED BY <2>3, <2>5, <2>6 DEF RecordKinds
<1> QED BY <1>1, <1>2, <1>3, <1>4 DEF Records

\* The compiler before it has read a record.
LEMMA CompilerInvAtStart == Init => CompilerInv
<1> SUFFICES ASSUME Init PROVE CompilerInv OBVIOUS
<1>1. /\ nodes = <<>> /\ lastUse = <<>> /\ nodeSlots = <<>> /\ freeSlots = <<>> /\ slotOwner = <<>>
      /\ pass = "mark" /\ program = [instructions |-> <<>>, constants |-> <<>>, outputs |-> <<>>]
    BY DEF Init, Program
<1>2. Graph /\ Uses BY <1>1 DEF Graph, Uses, NodeCount
<1>3. Owned /\ Live /\ Free /\ Unharmed
    BY <1>1 DEF Owned, Live, Free, Unharmed, Written, NodeCount
<1>4. Compiled /\ Passes BY <1>1 DEF Compiled, Passes, Written
<1> QED BY <1>2, <1>3, <1>4 DEF CompilerInv

\* The first pass keeps, for each node, the last record that reads it.
LEMMA MarkKeeps ==
    ASSUME CompilerInv, Mark
    PROVE  CompilerInv'
<1>a. Graph /\ Uses /\ Owned /\ Live /\ Free /\ Unharmed /\ Compiled /\ Passes BY DEF CompilerInv
<1>b. /\ pass = "mark"
      /\ UNCHANGED <<signals, pass, program, nodeSlots, freeSlots, slotOwner>>
    BY DEF Mark
<1>1. PICK record \in Records(NodeCount) :
            nodes' = Append(nodes, record) /\ lastUse' = Marked(lastUse, record, NodeCount)
    BY DEF Mark
<1> DEFINE n == NodeCount
<1>2. n \in Nat /\ nodes \in Seq(Nodes) /\ n = Len(nodes) BY <1>a DEF Graph, NodeCount
<1>3. record \in Nodes /\ Reads(record) \subseteq 0..(n - 1) BY <1>2, RecordFacts
<1>4. /\ nodes' \in Seq(Nodes) /\ NodeCount' = n + 1
      /\ \A k \in 0..(n - 1) : At(nodes', k) = At(nodes, k)
      /\ At(nodes', n) = record
    BY <1>1, <1>2, <1>3 DEF At, NodeCount
<1>5. Graph'
  <2>1. ASSUME NEW k \in 0..n PROVE At(nodes', k) \in Records(k)
    <3>1. CASE k \in 0..(n - 1) BY <1>a, <1>4, <3>1 DEF Graph
    <3>2. CASE k = n BY <1>4, <3>2
    <3> QED BY <1>2, <3>1, <3>2
  <2>2. NodeCount' - 1 = n BY <1>2, <1>4
  <2> QED BY <1>4, <2>1, <2>2 DEF Graph, At
<1>6. Uses'
  <2> DEFINE marked == [j \in DOMAIN lastUse |-> IF j - 1 \in Reads(record) THEN n ELSE lastUse[j]]
  <2>1. lastUse \in Seq(Nat) /\ Len(lastUse) = n BY <1>a DEF Uses
  <2>2. lastUse' = Append(marked, n) BY <1>1 DEF Marked
  <2>3. DOMAIN lastUse = 1..n BY <2>1
  <2>4. marked \in [1..n -> Nat] BY <1>2, <2>1, <2>3
  <2>5. marked \in Seq(Nat) /\ Len(marked) = n BY <1>2, <2>4
  <2>6. \A k \in 0..(n - 1) : At(marked, k) = IF k \in Reads(record) THEN n ELSE At(lastUse, k)
    <3>1. ASSUME NEW k \in 0..(n - 1) PROVE At(marked, k) = IF k \in Reads(record) THEN n ELSE At(lastUse, k)
      <4>1. k + 1 \in DOMAIN lastUse /\ (k + 1) - 1 = k BY <1>2, <2>3
      <4> QED BY <4>1 DEF At
    <3> QED BY <3>1
  <2> HIDE DEF marked
  <2>7. /\ lastUse' \in Seq(Nat) /\ Len(lastUse') = n + 1
        /\ \A k \in 0..(n - 1) : At(lastUse', k) = At(marked, k)
        /\ At(lastUse', n) = n
      BY <1>2, <2>2, <2>5 DEF At
  <2>8. ASSUME NEW k \in 0..n
        PROVE  /\ At(lastUse', k) >= k
               /\ \A m \in 0..n : k \in Reads(At(nodes', m)) => At(lastUse', k) >= m
    <3>1. CASE k \in 0..(n - 1)
      <4>1. At(lastUse', k) = IF k \in Reads(record) THEN n ELSE At(lastUse, k) BY <2>6, <2>7, <3>1
      <4>2. At(lastUse, k) >= k /\ At(lastUse, k) \in Nat BY <1>a, <2>1, <3>1 DEF Uses, At
      <4>3. ASSUME NEW m \in 0..n, k \in Reads(At(nodes', m)) PROVE At(lastUse', k) >= m
        <5>1. CASE m = n BY <1>2, <1>4, <4>1, <4>3, <5>1
        <5>2. CASE m \in 0..(n - 1)
          <6>1. k \in Reads(At(nodes, m)) BY <1>4, <4>3, <5>2
          <6>2. At(lastUse, k) >= m BY <1>a, <3>1, <5>2, <6>1 DEF Uses
          <6> QED BY <1>2, <4>1, <6>2, <5>2
        <5> QED BY <1>2, <5>1, <5>2
      <4> QED BY <1>2, <3>1, <4>1, <4>2, <4>3
    <3>2. CASE k = n
      <4>1. ASSUME NEW m \in 0..n, k \in Reads(At(nodes', m)) PROVE FALSE
        <5>1. CASE m = n BY <1>2, <1>3, <1>4, <3>2, <4>1, <5>1
        <5>2. CASE m \in 0..(n - 1)
          <6>1. At(nodes, m) \in Records(m) BY <1>a, <5>2 DEF Graph
          <6>2. Reads(At(nodes, m)) \subseteq 0..(m - 1) BY <5>2, <6>1, RecordFacts
          <6> QED BY <1>2, <1>4, <3>2, <4>1, <5>2, <6>2
        <5> QED BY <1>2, <5>1, <5>2
      <4> QED BY <1>2, <2>7, <3>2, <4>1
    <3> QED BY <1>2, <3>1, <3>2
  <2>9. NodeCount' - 1 = n BY <1>2, <1>4
  <2> QED BY <1>4, <2>7, <2>8, <2>9 DEF Uses, At
<1>7. Written = 0 /\ Written' = 0 /\ slotOwner = <<>> /\ freeSlots = <<>>
    BY <1>a, <1>b DEF Passes, Written
<1>8. Owned'
  <2>1. nodeSlots' \in Seq(Nat) /\ slotOwner' \in Seq(Nat) /\ freeSlots' \in Seq(Nat) BY <1>a, <1>b DEF Owned
  <2>2. Written' <= NodeCount' BY <1>2, <1>4, <1>7
  <2>3. Len(slotOwner') = 0 BY <1>b, <1>7
  <2> QED BY <1>7, <2>1, <2>2, <2>3 DEF Owned
<1>9. Live' /\ Free' /\ Unharmed' BY <1>b, <1>7 DEF Live, Free, Unharmed
<1>10. Compiled' BY <1>a, <1>b, <1>7 DEF Compiled
<1>11. Passes' BY <1>b, <1>7 DEF Passes
<1> QED BY <1>5, <1>6, <1>8, <1>9, <1>10, <1>11 DEF CompilerInv

\* The output table is sorted once the references are known.
LEMMA MarkOutputsKeeps ==
    ASSUME CompilerInv, MarkOutputs
    PROVE  CompilerInv'
<1>a. Graph /\ Uses /\ Owned /\ Live /\ Free /\ Unharmed /\ Compiled /\ Passes BY DEF CompilerInv
<1>b. /\ pass = "mark" /\ pass' = "allocate"
      /\ UNCHANGED <<nodes, lastUse, nodeSlots, freeSlots, slotOwner>>
    BY DEF MarkOutputs
<1>1. PICK references \in [1..SignalCount -> 0..(NodeCount - 1)] :
            /\ signals' = references
            /\ \E sorted \in SortedOutputs({[node |-> references[s], signal |-> s - 1] : s \in 1..SignalCount}) :
                  program' = Program(program.instructions, program.constants, sorted)
    BY DEF MarkOutputs
<1> DEFINE outputs == {[node |-> references[s], signal |-> s - 1] : s \in 1..SignalCount}
<1>2. PICK sorted \in SortedOutputs(outputs) : program' = Program(program.instructions, program.constants, sorted) BY <1>1
<1>3. /\ sorted \in [1..SignalCount -> outputs]
      /\ \A output \in outputs : \E i \in 1..SignalCount : sorted[i] = output
      /\ \A i, j \in 1..SignalCount : i < j => Precedes(sorted[i], sorted[j])
    BY <1>2 DEF SortedOutputs
<1>4. SignalCount \in Nat /\ NodeCount \in Nat BY <1>a, GraphAssumption DEF Graph, NodeCount
<1>5. ASSUME NEW i \in 1..SignalCount
      PROVE  /\ sorted[i] \in Outputs /\ sorted[i].signal < SignalCount
             /\ sorted[i].node = references[sorted[i].signal + 1] /\ sorted[i].node < NodeCount
  <2>1. PICK s \in 1..SignalCount : sorted[i] = [node |-> references[s], signal |-> s - 1] BY <1>3
  <2>2. references[s] \in 0..(NodeCount - 1) OBVIOUS
  <2>3. sorted[i].node = references[s] /\ sorted[i].signal = s - 1 BY <2>1
  <2>4. (s - 1) + 1 = s /\ s - 1 \in Nat /\ s - 1 < SignalCount BY <1>4
  <2>5. sorted[i] \in Outputs BY <1>4, <2>1, <2>2, <2>4 DEF Outputs
  <2> QED BY <1>4, <2>2, <2>3, <2>4, <2>5
<1>6. ASSUME NEW s \in 1..SignalCount PROVE \E i \in 1..SignalCount : sorted[i].signal + 1 = s
  <2> DEFINE output == [node |-> references[s], signal |-> s - 1]
  <2>1. output \in outputs OBVIOUS
  <2>2. PICK i \in 1..SignalCount : sorted[i] = output BY <1>3, <2>1
  <2>3. sorted[i].signal = s - 1 BY <2>2
  <2>4. (s - 1) + 1 = s BY <1>4
  <2> QED BY <2>3, <2>4
<1>7. ASSUME NEW i \in 1..SignalCount, NEW j \in 1..SignalCount, i <= j
      PROVE  sorted[i].node <= sorted[j].node
  <2>1. sorted[i].node \in Nat /\ sorted[j].node \in Nat BY <1>5 DEF Outputs
  <2>2. CASE i = j BY <2>1, <2>2
  <2>3. CASE i < j BY <1>3, <2>1, <2>3 DEF Precedes
  <2> QED BY <1>4, <1>7, <2>2, <2>3
<1>8. sorted \in Seq(Outputs) /\ Len(sorted) = SignalCount
  <2>1. sorted \in [1..SignalCount -> Outputs] BY <1>3, <1>5
  <2> QED BY <1>4, <2>1
<1> HIDE DEF outputs
<1>9. /\ program'.instructions = program.instructions /\ program'.constants = program.constants
      /\ program'.outputs = sorted
    BY <1>2 DEF Program
<1>10. Tabled'
  <2>1. NodeCount' = NodeCount BY <1>b DEF NodeCount
  <2>2. signals' = references BY <1>1
  <2> QED BY <1>5, <1>6, <1>7, <1>8, <1>9, <2>1, <2>2 DEF Tabled
<1>11. Graph' /\ Uses' BY <1>a, <1>b DEF Graph, Uses, NodeCount, At
<1>12. Owned' /\ Live' /\ Free' /\ Unharmed'
    BY <1>a, <1>b DEF Owned, Live, Free, Unharmed, Written, NodeCount, At
<1>13. Compiled' BY <1>a, <1>b, <1>9 DEF Compiled, Written, At
<1>14. Passes'
  <2>1. pass' = "allocate" BY <1>b
  <2> QED BY <1>10, <2>1 DEF Passes
<1> QED BY <1>11, <1>12, <1>13, <1>14 DEF CompilerInv

\* A node that the next record reads was computed and its slot is its own; it
\* is released if this is its last use.
LEMMA FreedFacts ==
    ASSUME CompilerInv, Written < NodeCount, NEW n \in Reads(At(nodes, Written))
    PROVE  /\ n \in 0..(Written - 1) /\ At(nodeSlots, n) \in Nat /\ At(nodeSlots, n) < Len(slotOwner)
           /\ At(slotOwner, At(nodeSlots, n)) = n
           /\ At(lastUse, n) \in Nat /\ At(lastUse, n) >= Written
           /\ Freed(n, Written) = <<>> \/ (Freed(n, Written) = <<At(nodeSlots, n)>> /\ At(lastUse, n) = Written)
<1>a. Graph /\ Uses /\ Owned /\ Live BY DEF CompilerInv
<1>1. Written \in Nat /\ NodeCount \in Nat /\ Written \in 0..(NodeCount - 1)
    BY <1>a DEF Owned, Graph, Written, NodeCount
<1>2. At(nodes, Written) \in Records(Written) BY <1>a, <1>1 DEF Graph
<1>3. n \in 0..(Written - 1) BY <1>1, <1>2, RecordFacts
<1>4. n \in 0..(NodeCount - 1) BY <1>1, <1>3
<1>5. At(lastUse, n) \in Nat BY <1>a, <1>4 DEF Uses, At
<1>6. At(lastUse, n) >= Written BY <1>a, <1>1, <1>4 DEF Uses
<1>7. At(slotOwner, At(nodeSlots, n)) = n BY <1>a, <1>3, <1>6 DEF Live
<1>8. At(nodeSlots, n) \in Nat BY <1>a, <1>1, <1>3 DEF Owned, Written, At
<1>9. At(nodeSlots, n) < Len(slotOwner) BY <1>a, <1>3 DEF Owned
<1>10. Freed(n, Written) = <<>> \/ (Freed(n, Written) = <<At(nodeSlots, n)>> /\ At(lastUse, n) = Written)
    BY DEF Freed
<1> QED BY <1>3, <1>5, <1>6, <1>7, <1>8, <1>9, <1>10

\* A slot after a slot.
LEMMA TwoSlots ==
    ASSUME NEW l \in Seq(Nat), NEW r \in Seq(Nat), Len(l) = 1, Len(r) = 1
    PROVE  l \o r \in Seq(Nat) /\ Len(l \o r) = 2 /\ (l \o r)[1] = l[1] /\ (l \o r)[2] = r[1]
<1> DEFINE both == l \o r
<1>1. /\ both \in Seq(Nat) /\ Len(both) = Len(l) + Len(r)
      /\ \A i \in 1..(Len(l) + Len(r)) : both[i] = IF i <= Len(l) THEN l[i] ELSE r[i - Len(l)]
    BY ConcatProperties
<1> HIDE DEF both
<1>2. Len(both) = 2 /\ \A i \in 1..2 : both[i] = IF i <= 1 THEN l[i] ELSE r[i - 1] BY <1>1
<1>3. both[1] = l[1] /\ both[2] = r[2 - 1] BY <1>2
<1>4. 2 - 1 = 1 OBVIOUS
<1> QED BY <1>1, <1>2, <1>3, <1>4 DEF both

\* What the next record releases: slots of its operands, none of them twice.
LEMMA ReleasedFacts ==
    ASSUME CompilerInv, Written < NodeCount
    PROVE  LET rel == Released(At(nodes, Written), Written)
           IN  /\ rel \in Seq(Nat)
               /\ \A i \in 1..Len(rel) :
                    /\ rel[i] < Len(slotOwner)
                    /\ At(lastUse, At(slotOwner, rel[i])) = Written
               /\ \A i, j \in 1..Len(rel) : rel[i] = rel[j] => i = j
<1> DEFINE record == At(nodes, Written)
           rel == Released(record, Written)
           Fine(s) == /\ s \in Seq(Nat)
                      /\ \A i \in 1..Len(s) :
                            s[i] < Len(slotOwner) /\ At(lastUse, At(slotOwner, s[i])) = Written
                      /\ \A i, j \in 1..Len(s) : s[i] = s[j] => i = j
<1>a. Graph /\ Owned BY DEF CompilerInv
<1>1. Written \in Nat /\ NodeCount \in Nat /\ Written \in 0..(NodeCount - 1)
    BY <1>a DEF Owned, Graph, Written, NodeCount
<1>2. record \in Records(Written) BY <1>a, <1>1 DEF Graph
<1>3. Fine(<<>>) OBVIOUS
<1>4. ASSUME NEW n \in Reads(record) PROVE Fine(Freed(n, Written))
  <2>1. /\ At(nodeSlots, n) \in Nat /\ At(nodeSlots, n) < Len(slotOwner)
        /\ At(slotOwner, At(nodeSlots, n)) = n
        /\ Freed(n, Written) = <<>> \/ (Freed(n, Written) = <<At(nodeSlots, n)>> /\ At(lastUse, n) = Written)
      BY FreedFacts
  <2> DEFINE slot == At(nodeSlots, n)
             freed == Freed(n, Written)
  <2>2. CASE freed = <<>> BY <1>3, <2>2
  <2>3. CASE freed = <<slot>> /\ At(lastUse, n) = Written
    <3>1. slot \in Nat /\ slot < Len(slotOwner) /\ At(lastUse, At(slotOwner, slot)) = Written BY <2>1, <2>3
    <3>2. freed = <<slot>> BY <2>3
    <3> HIDE DEF slot, freed, record
    <3>3. Fine(<<slot>>) BY <3>1
    <3> QED BY <3>2, <3>3 DEF freed
  <2> QED BY <2>1, <2>2, <2>3
<1>5. CASE record.kind = "Operation" /\ record.left # record.right
  <2>1. record.left \in Reads(record) /\ record.right \in Reads(record) BY <1>1, <1>2, <1>5, RecordFacts
  <2> DEFINE l == Freed(record.left, Written)
             r == Freed(record.right, Written)
  <2>2. rel = l \o r BY <1>5 DEF Released
  <2>3. Fine(l) /\ Fine(r) BY <1>4, <2>1
  <2>4. \/ l = <<>>
        \/ l = <<At(nodeSlots, record.left)>> /\ At(slotOwner, At(nodeSlots, record.left)) = record.left
      BY <2>1, FreedFacts
  <2>5. \/ r = <<>>
        \/ r = <<At(nodeSlots, record.right)>> /\ At(slotOwner, At(nodeSlots, record.right)) = record.right
      BY <2>1, FreedFacts
  <2> HIDE DEF l, r, rel
  <2>6. CASE l = <<>>
    <3>1. rel = r BY <2>2, <2>3, <2>6
    <3> QED BY <2>3, <3>1 DEF rel
  <2>7. CASE r = <<>>
    <3>1. rel = l BY <2>2, <2>3, <2>7
    <3> QED BY <2>3, <3>1 DEF rel
  <2>8. CASE l # <<>> /\ r # <<>>
    <3> DEFINE a == At(nodeSlots, record.left)
               b == At(nodeSlots, record.right)
    <3>1. l = <<a>> /\ r = <<b>> /\ a # b BY <1>5, <2>4, <2>5, <2>8
    <3> HIDE DEF a, b
    <3>2. /\ a \in Nat /\ a < Len(slotOwner) /\ At(lastUse, At(slotOwner, a)) = Written
          /\ b \in Nat /\ b < Len(slotOwner) /\ At(lastUse, At(slotOwner, b)) = Written
      <4>1. a \in Nat /\ b \in Nat BY <2>3, <3>1
      <4>2. l[1] = a /\ Len(l) = 1 /\ r[1] = b /\ Len(r) = 1 BY <3>1
      <4> QED BY <2>3, <4>1, <4>2
    <3>3. Len(l) = 1 /\ l[1] = a /\ Len(r) = 1 /\ r[1] = b BY <3>1
    <3>4. rel \in Seq(Nat) /\ Len(rel) = 2 /\ rel[1] = a /\ rel[2] = b
      <4>1. l \in Seq(Nat) /\ r \in Seq(Nat) BY <2>3
      <4>2. l \o r \in Seq(Nat) /\ Len(l \o r) = 2 /\ (l \o r)[1] = a /\ (l \o r)[2] = b
        <5> HIDE DEF Fine
        <5> QED BY <3>3, <4>1, TwoSlots
      <4> QED BY <2>2, <4>2
    <3>5. \A i \in 1..Len(rel) : i = 1 \/ i = 2 BY <3>4
    <3>6. Fine(rel) BY <3>1, <3>2, <3>4, <3>5
    <3> QED BY <3>6 DEF rel
  <2> QED BY <2>6, <2>7, <2>8
<1>6. CASE (record.kind = "Operation" /\ record.left = record.right) \/ record.kind = "Inverse"
  <2>1. record.left \in Reads(record) BY <1>1, <1>2, <1>6, RecordFacts
  <2>2. rel = Freed(record.left, Written) BY <1>6 DEF Released
  <2> QED BY <1>4, <2>1, <2>2
<1>7. CASE record.kind # "Operation" /\ record.kind # "Inverse"
  <2>1. rel = <<>> BY <1>7 DEF Released
  <2> QED BY <1>3, <2>1
<1> QED BY <1>5, <1>6, <1>7

\* The slots that may be given out: nothing in them is read after this record.
LEMMA FreeFacts ==
    ASSUME CompilerInv, Written < NodeCount
    PROVE  LET free == freeSlots \o Released(At(nodes, Written), Written)
           IN  /\ free \in Seq(Nat)
               /\ \A i \in 1..Len(free) :
                    /\ free[i] < Len(slotOwner)
                    /\ At(lastUse, At(slotOwner, free[i])) \in Nat
                    /\ At(lastUse, At(slotOwner, free[i])) <= Written
               /\ \A i, j \in 1..Len(free) : free[i] = free[j] => i = j
<1> DEFINE rel == Released(At(nodes, Written), Written)
           free == freeSlots \o rel
<1>a. Owned /\ Free /\ Uses BY DEF CompilerInv
<1>1. /\ rel \in Seq(Nat)
      /\ \A i \in 1..Len(rel) : rel[i] < Len(slotOwner) /\ At(lastUse, At(slotOwner, rel[i])) = Written
      /\ \A i, j \in 1..Len(rel) : rel[i] = rel[j] => i = j
    BY ReleasedFacts
<1> HIDE DEF rel
<1>2. freeSlots \in Seq(Nat) /\ Written \in Nat BY <1>a DEF Owned, Written
<1>3. /\ free \in Seq(Nat) /\ Len(free) = Len(freeSlots) + Len(rel)
      /\ \A i \in 1..Len(freeSlots) : free[i] = freeSlots[i]
      /\ \A i \in (Len(freeSlots) + 1)..Len(free) :
            i - Len(freeSlots) \in 1..Len(rel) /\ free[i] = rel[i - Len(freeSlots)]
    BY <1>1, <1>2
<1> HIDE DEF free
<1>4. /\ Len(freeSlots) \in Nat /\ Len(rel) \in Nat /\ Len(free) \in Nat
    BY <1>1, <1>2, <1>3
<1>5. ASSUME NEW i \in 1..Len(free)
      PROVE  \/ /\ i <= Len(freeSlots) /\ free[i] = freeSlots[i]
                /\ free[i] < Len(slotOwner) /\ At(lastUse, At(slotOwner, free[i])) < Written
             \/ /\ i > Len(freeSlots) /\ i - Len(freeSlots) \in 1..Len(rel)
                /\ free[i] = rel[i - Len(freeSlots)]
                /\ free[i] < Len(slotOwner) /\ At(lastUse, At(slotOwner, free[i])) = Written
  <2>1. CASE i <= Len(freeSlots)
    <3>1. i \in 1..Len(freeSlots) BY <1>4, <2>1
    <3>2. freeSlots[i] < Len(slotOwner) /\ At(lastUse, At(slotOwner, freeSlots[i])) < Written
        BY <1>a, <3>1 DEF Free
    <3> QED BY <1>3, <2>1, <3>1, <3>2
  <2>2. CASE i > Len(freeSlots)
    <3>1. i \in (Len(freeSlots) + 1)..Len(free) BY <1>4, <2>2
    <3> QED BY <1>1, <1>3, <2>2, <3>1
  <2> QED BY <1>4, <2>1, <2>2
<1>6. ASSUME NEW i \in 1..Len(free) PROVE At(lastUse, At(slotOwner, free[i])) \in Nat
  <2>1. free[i] \in Nat /\ free[i] < Len(slotOwner) BY <1>3, <1>5
  <2>2. Len(slotOwner) \in Nat /\ free[i] \in 0..(Len(slotOwner) - 1) BY <1>a, <2>1 DEF Owned
  <2>3. At(slotOwner, free[i]) \in Nat BY <1>a, <2>2 DEF Owned, At
  <2>4. At(slotOwner, free[i]) < Written BY <1>a, <2>2 DEF Owned
  <2>5. Written <= NodeCount /\ lastUse \in Seq(Nat) /\ Len(lastUse) = NodeCount BY <1>a DEF Owned, Uses
  <2>6. At(slotOwner, free[i]) + 1 \in 1..Len(lastUse) BY <1>2, <2>3, <2>4, <2>5
  <2> QED BY <2>5, <2>6 DEF At
<1>7. ASSUME NEW i \in 1..Len(free), NEW j \in 1..Len(free), free[i] = free[j] PROVE i = j
  <2>1. CASE i <= Len(freeSlots) /\ j <= Len(freeSlots)
    <3>1. i \in 1..Len(freeSlots) /\ j \in 1..Len(freeSlots) BY <1>4, <2>1
    <3>2. freeSlots[i] = freeSlots[j] BY <1>3, <1>7, <3>1
    <3> QED BY <1>a, <3>1, <3>2 DEF Free
  <2>2. CASE i > Len(freeSlots) /\ j > Len(freeSlots)
    <3>1. /\ i - Len(freeSlots) \in 1..Len(rel) /\ j - Len(freeSlots) \in 1..Len(rel)
          /\ rel[i - Len(freeSlots)] = rel[j - Len(freeSlots)]
        BY <1>4, <1>5, <1>7, <2>2
    <3>2. i - Len(freeSlots) = j - Len(freeSlots) BY <1>1, <3>1
    <3> QED BY <1>4, <3>2
  <2>3. CASE ~(i <= Len(freeSlots) <=> j <= Len(freeSlots))
    <3>1. At(lastUse, At(slotOwner, free[i])) = At(lastUse, At(slotOwner, free[j])) BY <1>7
    <3>2. At(lastUse, At(slotOwner, free[i])) \in Nat BY <1>6
    <3>3. ASSUME NEW a \in 1..Len(free), NEW b \in 1..Len(free), a <= Len(freeSlots), b > Len(freeSlots)
          PROVE  At(lastUse, At(slotOwner, free[a])) # At(lastUse, At(slotOwner, free[b]))
      <4>1. At(lastUse, At(slotOwner, free[a])) < Written BY <1>4, <1>5, <3>3
      <4>2. At(lastUse, At(slotOwner, free[b])) = Written BY <1>4, <1>5, <3>3
      <4>3. At(lastUse, At(slotOwner, free[a])) \in Nat BY <1>6
      <4> QED BY <1>2, <4>1, <4>2, <4>3
    <3> QED BY <1>4, <2>3, <3>1, <3>3
  <2> QED BY <1>4, <2>1, <2>2, <2>3
<1>8. \A i \in 1..Len(free) : free[i] < Len(slotOwner) /\ At(lastUse, At(slotOwner, free[i])) <= Written
    BY <1>2, <1>5, <1>6
<1> QED BY <1>3, <1>6, <1>7, <1>8 DEF free, rel

\* The slot a record gets is new, or one that nothing reads after it; either way
\* it is no longer free.
LEMMA AllocateFacts ==
    ASSUME CompilerInv, Allocate
    PROVE  \E destination \in Nat, kept \in Seq(Nat) :
              /\ slotOwner' \in Seq(Nat)
              /\ destination < Len(slotOwner') /\ Len(slotOwner) <= Len(slotOwner')
              /\ \A s \in 0..(Len(slotOwner') - 1) :
                    /\ At(slotOwner', s) = IF s = destination THEN Written ELSE At(slotOwner, s)
                    /\ s # destination => s < Len(slotOwner)
              /\ destination < Len(slotOwner) => At(lastUse, At(slotOwner, destination)) <= Written
              /\ \A i \in 1..Len(kept) :
                    /\ kept[i] # destination /\ kept[i] < Len(slotOwner)
                    /\ At(lastUse, At(slotOwner, kept[i])) <= Written
              /\ \A i, j \in 1..Len(kept) : kept[i] = kept[j] => i = j
              /\ nodeSlots' = Append(nodeSlots, destination)
              /\ freeSlots' = IF At(lastUse, Written) = Written THEN Append(kept, destination) ELSE kept
              /\ program' = Program(Append(program.instructions, Instruction(At(nodes, Written), destination)),
                     IF At(nodes, Written).kind = "Constant" THEN Append(program.constants, At(nodes, Written).left)
                     ELSE program.constants, program.outputs)
              /\ pass' = IF Written + 1 = NodeCount THEN "ready" ELSE pass
<1> DEFINE free == freeSlots \o Released(At(nodes, Written), Written)
           recycled == free # <<>>
           destination == IF recycled THEN Last(free) ELSE Len(slotOwner)
           kept == IF recycled THEN Front(free) ELSE free
<1>a. Owned /\ Compiled BY DEF CompilerInv
<1>1. Len(program.instructions) = Written /\ Written \in Nat BY <1>a DEF Compiled, Owned, Written
<1>2. Written < NodeCount BY <1>1 DEF Allocate
<1>3. /\ free \in Seq(Nat)
      /\ \A i \in 1..Len(free) :
            /\ free[i] < Len(slotOwner)
            /\ At(lastUse, At(slotOwner, free[i])) \in Nat
            /\ At(lastUse, At(slotOwner, free[i])) <= Written
      /\ \A i, j \in 1..Len(free) : free[i] = free[j] => i = j
    BY <1>2, FreeFacts
<1>4. IF recycled /\ At(lastUse, At(slotOwner, destination)) > Written
      THEN pass' = "recycled a live slot"
           /\ UNCHANGED <<program, nodeSlots, freeSlots, slotOwner>>
      ELSE /\ slotOwner' = IF recycled THEN [slotOwner EXCEPT ![destination + 1] = Written]
                           ELSE Append(slotOwner, Written)
           /\ nodeSlots' = Append(nodeSlots, destination)
           /\ program' = Program(Append(program.instructions, Instruction(At(nodes, Written), destination)),
                 IF At(nodes, Written).kind = "Constant" THEN Append(program.constants, At(nodes, Written).left)
                 ELSE program.constants, program.outputs)
           /\ freeSlots' = IF At(lastUse, Written) = Written THEN Append(kept, destination) ELSE kept
           /\ pass' = IF Written + 1 = NodeCount THEN "ready" ELSE pass
    BY <1>1 DEF Allocate
<1> HIDE DEF free
<1>5. slotOwner \in Seq(Nat) /\ Len(slotOwner) \in Nat BY <1>a DEF Owned
<1>6. CASE recycled
  <2> DEFINE last == free[Len(free)]
  <2>1. Len(free) \in Nat \ {0} /\ Len(free) \in 1..Len(free) BY <1>3, <1>6
  <2>2. destination = last BY <1>6 DEF Last
  <2>3. /\ last \in Nat /\ last < Len(slotOwner) /\ At(lastUse, At(slotOwner, last)) \in Nat
        /\ At(lastUse, At(slotOwner, last)) <= Written
    <3>1. last \in Nat BY <1>3, <2>1
    <3> QED BY <1>3, <2>1, <3>1
  <2>4. kept = [i \in 1..(Len(free) - 1) |-> free[i]]
    <3>1. kept = SubSeq(free, 1, Len(free) - 1) BY <1>6 DEF Front
    <3> QED BY <1>3, <2>1, <3>1
  <2>5. /\ kept \in Seq(Nat) /\ Len(kept) = Len(free) - 1
        /\ \A i \in 1..Len(kept) : i \in 1..Len(free) /\ i # Len(free) /\ kept[i] = free[i]
    <3> HIDE DEF kept
    <3>1. kept \in [1..(Len(free) - 1) -> Nat] BY <1>3, <2>1, <2>4
    <3>2. kept \in Seq(Nat) /\ Len(kept) = Len(free) - 1 BY <2>1, <3>1
    <3>3. ASSUME NEW i \in 1..Len(kept)
          PROVE  i \in 1..Len(free) /\ i # Len(free) /\ kept[i] = free[i]
      <4>1. i \in 1..(Len(free) - 1) BY <3>2
      <4>2. kept[i] = free[i] BY <2>4, <4>1
      <4> QED BY <2>1, <4>1, <4>2
    <3> QED BY <3>2, <3>3
  <2> HIDE DEF kept, last
  <2>6. /\ slotOwner' = [slotOwner EXCEPT ![last + 1] = Written]
        /\ nodeSlots' = Append(nodeSlots, last)
        /\ program' = Program(Append(program.instructions, Instruction(At(nodes, Written), last)),
              IF At(nodes, Written).kind = "Constant" THEN Append(program.constants, At(nodes, Written).left)
              ELSE program.constants, program.outputs)
        /\ freeSlots' = IF At(lastUse, Written) = Written THEN Append(kept, last) ELSE kept
        /\ pass' = IF Written + 1 = NodeCount THEN "ready" ELSE pass
    <3>1. ~(At(lastUse, At(slotOwner, destination)) > Written) BY <1>1, <2>2, <2>3
    <3> QED BY <1>4, <1>6, <2>2, <3>1
  <2>7. /\ slotOwner' \in Seq(Nat) /\ Len(slotOwner') = Len(slotOwner)
        /\ \A s \in 0..(Len(slotOwner') - 1) :
              At(slotOwner', s) = IF s = last THEN Written ELSE At(slotOwner, s)
    <3>1. last + 1 \in 1..Len(slotOwner) BY <1>5, <2>3
    <3>2. slotOwner' \in Seq(Nat) /\ Len(slotOwner') = Len(slotOwner) BY <1>1, <1>5, <2>6, <3>1
    <3>3. ASSUME NEW s \in 0..(Len(slotOwner) - 1)
          PROVE  At(slotOwner', s) = IF s = last THEN Written ELSE At(slotOwner, s)
      <4>1. s + 1 \in 1..Len(slotOwner) /\ (s + 1 = last + 1 <=> s = last) BY <1>5, <2>3
      <4> QED BY <1>5, <2>6, <4>1 DEF At
    <3> QED BY <3>2, <3>3
  <2>8. \A s \in 0..(Len(slotOwner') - 1) : s < Len(slotOwner) BY <1>5, <2>7
  <2>9. \A i \in 1..Len(kept) :
              /\ kept[i] # last /\ kept[i] < Len(slotOwner)
              /\ At(lastUse, At(slotOwner, kept[i])) <= Written
    BY <1>3, <2>1, <2>5 DEF last
  <2>10. \A i, j \in 1..Len(kept) : kept[i] = kept[j] => i = j BY <1>3, <2>5
  <2>11. last \in Nat /\ kept \in Seq(Nat) /\ last < Len(slotOwner') /\ Len(slotOwner) <= Len(slotOwner')
    BY <1>5, <2>3, <2>5, <2>7
  <2>12. last < Len(slotOwner) => At(lastUse, At(slotOwner, last)) <= Written BY <2>3
  <2> HIDE DEF recycled, destination
  <2> QED BY <2>6, <2>7, <2>8, <2>9, <2>10, <2>11, <2>12
<1>7. CASE ~recycled
  <2> DEFINE new == Len(slotOwner)
  <2>1. destination = new /\ kept = <<>> BY <1>7
  <2>2. /\ slotOwner' = Append(slotOwner, Written)
        /\ nodeSlots' = Append(nodeSlots, new)
        /\ program' = Program(Append(program.instructions, Instruction(At(nodes, Written), new)),
              IF At(nodes, Written).kind = "Constant" THEN Append(program.constants, At(nodes, Written).left)
              ELSE program.constants, program.outputs)
        /\ freeSlots' = IF At(lastUse, Written) = Written THEN Append(<<>>, new) ELSE <<>>
        /\ pass' = IF Written + 1 = NodeCount THEN "ready" ELSE pass
    BY <1>4, <1>7, <2>1
  <2>3. /\ slotOwner' \in Seq(Nat) /\ Len(slotOwner') = new + 1
        /\ \A s \in 0..new : At(slotOwner', s) = IF s = new THEN Written ELSE At(slotOwner, s)
    BY <1>1, <1>5, <2>2 DEF At
  <2>4. \A s \in 0..(Len(slotOwner') - 1) : s \in 0..new /\ (s # new => s < new) BY <1>5, <2>3
  <2> DEFINE none == <<>>
  <2>5. none \in Seq(Nat) /\ \A i \in 1..Len(none) : FALSE OBVIOUS
  <2>6. new \in Nat /\ new < Len(slotOwner') /\ Len(slotOwner) <= Len(slotOwner') /\ ~(new < Len(slotOwner))
    BY <1>5, <2>3
  <2>7. freeSlots' = IF At(lastUse, Written) = Written THEN Append(none, new) ELSE none BY <2>2
  <2>8. \A s \in 0..(Len(slotOwner') - 1) :
            /\ At(slotOwner', s) = IF s = new THEN Written ELSE At(slotOwner, s)
            /\ s # new => s < Len(slotOwner)
    BY <2>3, <2>4
  <2> HIDE DEF none, new, recycled, destination, kept
  <2> QED BY <2>2, <2>3, <2>5, <2>6, <2>7, <2>8
<1> QED BY <1>6, <1>7

\* The instruction of a record names the slots its operands were given.
LEMMA EncodedFacts ==
    ASSUME CompilerInv, Written < NodeCount, NEW destination \in Nat
    PROVE  LET record == At(nodes, Written)
               instruction == Instruction(record, destination)
           IN  /\ instruction \in Instructions
               /\ instruction.kind = record.kind /\ instruction.operation = record.operation
               /\ instruction.destination = destination
               /\ record.kind = "Input" => instruction.left = record.left
               /\ record.kind = "Constant" => instruction.left = Len(program.constants)
               /\ record.kind \in {"Inverse", "Operation"} =>
                    record.left \in 0..(Written - 1) /\ instruction.left = At(nodeSlots, record.left)
               /\ record.kind = "Operation" =>
                    record.right \in 0..(Written - 1) /\ instruction.right = At(nodeSlots, record.right)
<1> DEFINE record == At(nodes, Written)
           left == CASE record.kind = "Input" -> record.left
                     [] record.kind = "Constant" -> Len(program.constants)
                     [] OTHER -> At(nodeSlots, record.left)
           right == IF record.kind = "Operation" THEN At(nodeSlots, record.right) ELSE 0
           instruction == [kind |-> record.kind, operation |-> record.operation, destination |-> destination,
                           left |-> left, right |-> right]
<1>a. Graph /\ Owned /\ Compiled BY DEF CompilerInv
<1>1. Written \in Nat /\ NodeCount \in Nat /\ Written \in 0..(NodeCount - 1)
    BY <1>a DEF Owned, Graph, Written, NodeCount
<1>2. record \in Records(Written) BY <1>a, <1>1 DEF Graph
<1>3. /\ record \in Nodes /\ record.kind \in RecordKinds
      /\ record.kind = "Input" => record.left \in 0..(InputLen - 1)
      /\ record.kind = "Inverse" => record.left \in 0..(Written - 1)
      /\ record.kind = "Operation" => record.left \in 0..(Written - 1) /\ record.right \in 0..(Written - 1)
    BY <1>1, <1>2, RecordFacts
<1>4. Instruction(record, destination) = instruction BY DEF Instruction, Encoded
<1>5. record.kind \in RecordKinds /\ record.operation \in OperationNames \cup {"None"} BY <1>3 DEF Nodes
<1>6. \A n \in 0..(Written - 1) : At(nodeSlots, n) \in Nat BY <1>a, <1>1 DEF Owned, Written, At
<1>7. Len(program.constants) \in Nat BY <1>a DEF Compiled
<1> HIDE DEF record
<1>8. /\ record.kind = "Input" => left = record.left /\ left \in Int
      /\ record.kind = "Constant" => left = Len(program.constants) /\ left \in Int
      /\ record.kind \in {"Inverse", "Operation"} => left = At(nodeSlots, record.left) /\ left \in Int
  <2>1. CASE record.kind = "Input"
    <3>1. record.left \in Int BY <1>3, <2>1
    <3> QED BY <2>1, <3>1
  <2>2. CASE record.kind = "Constant" BY <1>7, <2>2
  <2>3. CASE record.kind \in {"Inverse", "Operation"}
    <3>1. record.left \in 0..(Written - 1) BY <1>3, <2>3
    <3>2. left = At(nodeSlots, record.left) BY <2>3
    <3> QED BY <1>6, <2>3, <3>1, <3>2
  <2> QED BY <1>5, <2>1, <2>2, <2>3 DEF RecordKinds
<1>9. right \in Int /\ (record.kind = "Operation" => right = At(nodeSlots, record.right)) BY <1>3, <1>6
<1> HIDE DEF left, right
<1>10. left \in Int BY <1>5, <1>8 DEF RecordKinds
<1>11. instruction \in Instructions BY <1>5, <1>9, <1>10 DEF Instructions
<1>12. /\ instruction.kind = record.kind /\ instruction.operation = record.operation
       /\ instruction.destination = destination /\ instruction.left = left /\ instruction.right = right
    OBVIOUS
<1> HIDE DEF instruction
<1> QED BY <1>3, <1>4, <1>8, <1>9, <1>11, <1>12 DEF record

\* The second pass writes no slot before the last use of the node in it.
LEMMA AllocateKeeps ==
    ASSUME CompilerInv, Allocate
    PROVE  CompilerInv'
<1>a. Graph /\ Uses /\ Owned /\ Live /\ Free /\ Unharmed /\ Compiled /\ Passes BY DEF CompilerInv
<1>1. /\ Written \in Nat /\ NodeCount \in Nat /\ Written < NodeCount /\ Written \in 0..(NodeCount - 1)
      /\ nodeSlots \in Seq(Nat) /\ slotOwner \in Seq(Nat) /\ Len(slotOwner) \in Nat
  <2>1. Len(program.instructions) = Written BY <1>a DEF Compiled
  <2>2. Written < NodeCount BY <2>1 DEF Allocate
  <2> QED BY <1>a, <2>2 DEF Graph, Owned, Written, NodeCount
<1>b. pass = "allocate" /\ UNCHANGED <<nodes, signals, lastUse>> BY DEF Allocate, graphVars
<1>2. PICK destination \in Nat, kept \in Seq(Nat) :
              /\ slotOwner' \in Seq(Nat)
              /\ destination < Len(slotOwner') /\ Len(slotOwner) <= Len(slotOwner')
              /\ \A s \in 0..(Len(slotOwner') - 1) :
                    /\ At(slotOwner', s) = IF s = destination THEN Written ELSE At(slotOwner, s)
                    /\ s # destination => s < Len(slotOwner)
              /\ destination < Len(slotOwner) => At(lastUse, At(slotOwner, destination)) <= Written
              /\ \A i \in 1..Len(kept) :
                    /\ kept[i] # destination /\ kept[i] < Len(slotOwner)
                    /\ At(lastUse, At(slotOwner, kept[i])) <= Written
              /\ \A i, j \in 1..Len(kept) : kept[i] = kept[j] => i = j
              /\ nodeSlots' = Append(nodeSlots, destination)
              /\ freeSlots' = IF At(lastUse, Written) = Written THEN Append(kept, destination) ELSE kept
              /\ program' = Program(Append(program.instructions, Instruction(At(nodes, Written), destination)),
                     IF At(nodes, Written).kind = "Constant" THEN Append(program.constants, At(nodes, Written).left)
                     ELSE program.constants, program.outputs)
              /\ pass' = IF Written + 1 = NodeCount THEN "ready" ELSE pass
    BY AllocateFacts
<1>3. /\ nodeSlots' \in Seq(Nat) /\ Written' = Written + 1 /\ NodeCount' = NodeCount
      /\ \A n \in 0..(Written - 1) : At(nodeSlots', n) = At(nodeSlots, n)
      /\ At(nodeSlots', Written) = destination
  <2>1. nodeSlots' = Append(nodeSlots, destination) /\ nodes' = nodes BY <1>2, <1>b
  <2>2. nodeSlots \in Seq(Nat) /\ Written = Len(nodeSlots) BY <1>1 DEF Written
  <2>3. /\ nodeSlots' \in Seq(Nat) /\ Len(nodeSlots') = Len(nodeSlots) + 1
        /\ \A n \in 0..(Len(nodeSlots) - 1) : At(nodeSlots', n) = At(nodeSlots, n)
        /\ At(nodeSlots', Len(nodeSlots)) = destination
      BY <2>1, <2>2 DEF At
  <2> QED BY <2>1, <2>2, <2>3 DEF Written, NodeCount
<1>4. \A n \in 0..Written : n \in 0..(Written - 1) \/ n = Written BY <1>1
<1>5. /\ Written' - 1 = Written /\ Len(slotOwner') \in Nat
      /\ destination < Len(slotOwner') /\ Len(slotOwner) <= Len(slotOwner')
  <2>1. Len(slotOwner') \in Nat BY <1>2
  <2>2. Written' - 1 = Written BY <1>1, <1>3
  <2> QED BY <1>2, <2>1, <2>2
<1>6. \A n \in 0..(NodeCount - 1) : At(lastUse, n) \in Nat /\ At(lastUse', n) = At(lastUse, n)
    BY <1>a, <1>1, <1>b DEF Uses, At
\* Nothing later than this record reads the slot it got.
<1>7. ASSUME NEW n \in 0..(Written - 1), At(lastUse, n) > Written PROVE At(nodeSlots, n) # destination
  <2>1. n \in 0..(NodeCount - 1) BY <1>1
  <2>2. At(slotOwner, At(nodeSlots, n)) = n /\ At(nodeSlots, n) < Len(slotOwner)
    <3>1. At(lastUse, n) >= Written BY <1>1, <1>6, <1>7, <2>1
    <3> QED BY <1>a, <3>1 DEF Live, Owned
  <2>3. CASE At(nodeSlots, n) = destination
    <3>1. At(lastUse, n) <= Written BY <1>2, <2>2, <2>3
    <3> QED BY <1>1, <1>6, <1>7, <2>1, <3>1
  <2> QED BY <2>3
<1>8. Graph' /\ Uses' BY <1>a, <1>b DEF Graph, Uses, NodeCount, At
<1>9. Owned'
  <2>1. freeSlots' \in Seq(Nat) BY <1>2
  <2>2. ASSUME NEW n \in 0..Written PROVE At(nodeSlots', n) < Len(slotOwner')
    <3>1. CASE n \in 0..(Written - 1)
      <4>1. At(nodeSlots, n) < Len(slotOwner) /\ At(nodeSlots, n) \in Nat
          BY <1>a, <1>1, <3>1 DEF Owned, Written, At
      <4> QED BY <1>1, <1>2, <1>3, <1>5, <3>1, <4>1
    <3>2. CASE n = Written BY <1>2, <1>3, <3>2
    <3> QED BY <1>4, <3>1, <3>2
  <2>3. ASSUME NEW s \in 0..(Len(slotOwner') - 1) PROVE At(slotOwner', s) < Written'
    <3>1. CASE s = destination
      <4>1. At(slotOwner', s) = Written BY <1>2, <3>1
      <4> QED BY <1>1, <1>3, <4>1
    <3>2. CASE s # destination
      <4>1. s < Len(slotOwner) /\ At(slotOwner', s) = At(slotOwner, s) BY <1>2, <3>2
      <4>2. s \in 0..(Len(slotOwner) - 1) BY <1>1, <1>5, <4>1
      <4>3. At(slotOwner, s) < Written /\ At(slotOwner, s) \in Nat BY <1>a, <1>1, <4>2 DEF Owned, At
      <4> QED BY <1>1, <1>3, <4>1, <4>3
    <3> QED BY <3>1, <3>2
  <2>4. Written' <= NodeCount' BY <1>1, <1>3
  <2> QED BY <1>2, <1>3, <1>5, <2>1, <2>2, <2>3, <2>4 DEF Owned
<1>10. Live'
  <2>1. ASSUME NEW n \in 0..Written, At(lastUse, n) >= Written + 1
        PROVE  At(slotOwner', At(nodeSlots', n)) = n
    <3>1. CASE n \in 0..(Written - 1)
      <4>1. At(lastUse, n) > Written /\ At(lastUse, n) >= Written BY <1>1, <1>6, <2>1
      <4>2. At(nodeSlots, n) # destination BY <1>7, <3>1, <4>1
      <4>3. At(slotOwner, At(nodeSlots, n)) = n BY <1>a, <3>1, <4>1 DEF Live
      <4>4. At(nodeSlots, n) \in Nat /\ At(nodeSlots, n) < Len(slotOwner)
          BY <1>a, <1>1, <3>1 DEF Owned, Written, At
      <4>5. At(nodeSlots, n) \in 0..(Len(slotOwner') - 1) BY <1>1, <1>2, <1>5, <4>4
      <4> QED BY <1>2, <1>3, <3>1, <4>2, <4>3, <4>5
    <3>2. CASE n = Written
      <4>1. destination \in 0..(Len(slotOwner') - 1) BY <1>2, <1>5
      <4> QED BY <1>2, <1>3, <3>2, <4>1
    <3> QED BY <1>4, <3>1, <3>2
  <2> QED BY <1>3, <1>5, <1>b, <2>1 DEF Live, At
<1>11. Free'
  <2>1. ASSUME NEW i \in 1..Len(kept)
        PROVE  kept[i] < Len(slotOwner') /\ At(lastUse, At(slotOwner', kept[i])) < Written + 1
    <3>1. kept[i] \in Nat /\ kept[i] # destination /\ kept[i] < Len(slotOwner)
          /\ At(lastUse, At(slotOwner, kept[i])) <= Written
        BY <1>2
    <3>2. kept[i] \in 0..(Len(slotOwner') - 1) /\ kept[i] \in 0..(Len(slotOwner) - 1) BY <1>1, <1>5, <3>1
    <3>3. At(slotOwner', kept[i]) = At(slotOwner, kept[i]) BY <1>2, <3>1, <3>2
    <3>4. At(slotOwner, kept[i]) \in 0..(NodeCount - 1)
      <4>1. At(slotOwner, kept[i]) < Written BY <1>a, <3>2 DEF Owned
      <4>2. At(slotOwner, kept[i]) \in Nat BY <1>1, <3>2 DEF At
      <4> QED BY <1>1, <4>1, <4>2
    <3>5. At(lastUse, At(slotOwner, kept[i])) \in Nat BY <1>6, <3>4
    <3> QED BY <1>1, <1>5, <3>1, <3>2, <3>3, <3>5
  <2>2. CASE At(lastUse, Written) # Written
    <3>1. freeSlots' = kept BY <1>2, <2>2
    <3> QED BY <1>2, <1>3, <1>b, <2>1, <3>1 DEF Free, At
  <2>3. CASE At(lastUse, Written) = Written
    <3>1. freeSlots' = Append(kept, destination) BY <1>2, <2>3
    <3>2. /\ Len(freeSlots') = Len(kept) + 1 /\ Len(kept) \in Nat
          /\ \A i \in 1..Len(kept) : freeSlots'[i] = kept[i]
          /\ freeSlots'[Len(kept) + 1] = destination
        BY <1>2, <3>1
    <3>3. At(lastUse, At(slotOwner', destination)) = Written
      <4>1. destination \in 0..(Len(slotOwner') - 1) BY <1>2, <1>5
      <4> QED BY <1>2, <2>3, <4>1
    <3>4. \A i \in 1..Len(freeSlots') : i \in 1..Len(kept) \/ i = Len(kept) + 1 BY <3>2
    <3>5. ASSUME NEW i \in 1..Len(freeSlots')
          PROVE  /\ freeSlots'[i] < Len(slotOwner')
                 /\ At(lastUse, At(slotOwner', freeSlots'[i])) < Written + 1
      <4>1. CASE i \in 1..Len(kept) BY <2>1, <3>2, <4>1
      <4>2. CASE i = Len(kept) + 1 BY <1>1, <1>2, <3>2, <3>3, <4>2
      <4> QED BY <3>4, <4>1, <4>2
    <3>6. ASSUME NEW i \in 1..Len(freeSlots'), NEW j \in 1..Len(freeSlots'), freeSlots'[i] = freeSlots'[j]
          PROVE  i = j
        BY <1>2, <3>2, <3>4, <3>6
    <3> QED BY <1>3, <1>b, <3>5, <3>6 DEF Free, At
  <2> QED BY <2>2, <2>3
<1>12. Unharmed'
  <2>1. ASSUME NEW n \in 0..Written, NEW k \in 0..Written, n < k, k < At(lastUse, n)
        PROVE  At(nodeSlots', k) # At(nodeSlots', n)
    <3>1. n \in 0..(Written - 1) BY <1>1, <2>1
    <3>2. CASE k \in 0..(Written - 1) BY <1>a, <1>3, <2>1, <3>1, <3>2 DEF Unharmed
    <3>3. CASE k = Written
      <4>1. At(lastUse, n) > Written
        <5>1. At(lastUse, n) \in Nat BY <1>1, <1>6, <3>1
        <5> QED BY <1>1, <2>1, <3>3, <5>1
      <4> QED BY <1>3, <1>7, <3>1, <3>3, <4>1
    <3> QED BY <1>4, <3>2, <3>3
  <2> QED BY <1>3, <1>5, <1>b, <2>1 DEF Unharmed, At
<1>13. Compiled'
  <2> DEFINE record == At(nodes, Written)
             instruction == Instruction(record, destination)
             constants == IF record.kind = "Constant" THEN Append(program.constants, record.left)
                          ELSE program.constants
  <2>1. /\ instruction \in Instructions
        /\ instruction.kind = record.kind /\ instruction.operation = record.operation
        /\ instruction.destination = destination
        /\ record.kind = "Input" => instruction.left = record.left
        /\ record.kind = "Constant" => instruction.left = Len(program.constants)
        /\ record.kind \in {"Inverse", "Operation"} =>
             record.left \in 0..(Written - 1) /\ instruction.left = At(nodeSlots, record.left)
        /\ record.kind = "Operation" =>
             record.right \in 0..(Written - 1) /\ instruction.right = At(nodeSlots, record.right)
      BY <1>1, EncodedFacts
  <2>2. record.kind = "Constant" => record.left \in ConstantValues
    <3>1. record \in Records(Written) BY <1>a, <1>1 DEF Graph
    <3> QED BY <1>1, <3>1, RecordFacts
  <2>3. /\ program'.instructions = Append(program.instructions, instruction)
        /\ program'.constants = constants
      BY <1>2 DEF Program
  <2> HIDE DEF record, instruction
  <2>4. /\ program.instructions \in Seq(Instructions) /\ Len(program.instructions) = Written
        /\ program.constants \in Seq(ConstantValues) /\ Len(program.constants) \in Nat
      BY <1>a DEF Compiled
  <2>5. /\ program'.instructions \in Seq(Instructions) /\ Len(program'.instructions) = Written + 1
        /\ \A k \in 0..(Written - 1) : At(program'.instructions, k) = At(program.instructions, k)
        /\ At(program'.instructions, Written) = instruction
    <3> DEFINE old == program.instructions
    <3>1. old \in Seq(Instructions) /\ Len(old) = Written /\ program'.instructions = Append(old, instruction)
        BY <2>3, <2>4
    <3> HIDE DEF old
    <3>2. /\ Append(old, instruction) \in Seq(Instructions) /\ Len(Append(old, instruction)) = Written + 1
          /\ \A k \in 0..(Written - 1) : At(Append(old, instruction), k) = At(old, k)
          /\ At(Append(old, instruction), Written) = instruction
        BY <1>1, <2>1, <3>1 DEF At
    <3> QED BY <3>1, <3>2 DEF old
  <2>6. /\ constants \in Seq(ConstantValues) /\ Len(constants) \in Nat
        /\ \A c \in 0..(Len(program.constants) - 1) :
              c \in 0..(Len(constants) - 1) /\ At(constants, c) = At(program.constants, c)
        /\ record.kind = "Constant" =>
              /\ Len(program.constants) \in 0..(Len(constants) - 1)
              /\ At(constants, Len(program.constants)) = record.left
    <3>1. CASE record.kind = "Constant" BY <2>2, <2>4, <3>1 DEF At
    <3>2. CASE record.kind # "Constant" BY <2>4, <3>2
    <3> QED BY <3>1, <3>2
  <2> HIDE DEF constants
  <2>7. ASSUME NEW k \in 0..Written
        PROVE  /\ At(program'.instructions, k).kind = At(nodes, k).kind
               /\ At(program'.instructions, k).operation = At(nodes, k).operation
               /\ At(program'.instructions, k).destination = At(nodeSlots', k)
               /\ At(nodes, k).kind = "Input" => At(program'.instructions, k).left = At(nodes, k).left
               /\ At(nodes, k).kind = "Constant" =>
                    At(program'.instructions, k).left \in 0..(Len(constants) - 1)
                    /\ At(constants, At(program'.instructions, k).left) = At(nodes, k).left
               /\ At(nodes, k).kind \in {"Inverse", "Operation"} =>
                    At(program'.instructions, k).left = At(nodeSlots', At(nodes, k).left)
               /\ At(nodes, k).kind = "Operation" =>
                    At(program'.instructions, k).right = At(nodeSlots', At(nodes, k).right)
    <3>1. CASE k = Written BY <1>3, <2>1, <2>5, <2>6, <3>1 DEF record
    <3>2. CASE k \in 0..(Written - 1)
      <4> DEFINE old == At(program.instructions, k)
                 node == At(nodes, k)
      <4>1. /\ old.kind = node.kind /\ old.operation = node.operation
            /\ old.destination = At(nodeSlots, k)
            /\ node.kind = "Input" => old.left = node.left
            /\ node.kind = "Constant" =>
                 old.left \in 0..(Len(program.constants) - 1) /\ At(program.constants, old.left) = node.left
            /\ node.kind \in {"Inverse", "Operation"} => old.left = At(nodeSlots, node.left)
            /\ node.kind = "Operation" => old.right = At(nodeSlots, node.right)
          BY <1>a, <3>2 DEF Compiled
      <4>2. /\ node.kind \in {"Inverse", "Operation"} => node.left \in 0..(Written - 1)
            /\ node.kind = "Operation" => node.right \in 0..(Written - 1)
        <5>1. k \in Nat /\ k \in 0..(NodeCount - 1) BY <1>1, <3>2
        <5>2. node \in Records(k) BY <1>a, <5>1 DEF Graph
        <5>3. /\ node.kind = "Inverse" => node.left \in 0..(k - 1)
              /\ node.kind = "Operation" => node.left \in 0..(k - 1) /\ node.right \in 0..(k - 1)
            BY <5>1, <5>2, RecordFacts
        <5>4. 0..(k - 1) \subseteq 0..(Written - 1) BY <1>1, <3>2
        <5> QED BY <5>3, <5>4
      <4>3. At(program'.instructions, k) = old /\ At(nodeSlots', k) = At(nodeSlots, k) BY <1>3, <2>5, <3>2
      <4> HIDE DEF old, node
      <4> QED BY <1>3, <2>6, <4>1, <4>2, <4>3 DEF node
    <3> QED BY <1>4, <3>1, <3>2
  <2>8. program'.constants = constants BY <2>3
  <2> QED BY <1>3, <1>5, <1>b, <2>5, <2>6, <2>7, <2>8 DEF Compiled, At
<1>14. Passes'
  <2>1. Tabled BY <1>a, <1>b DEF Passes
  <2>2. program'.outputs = program.outputs BY <1>2 DEF Program
  <2>3. Tabled' BY <1>3, <1>b, <2>1, <2>2 DEF Tabled
  <2> QED BY <1>2, <1>3, <1>b, <2>3 DEF Passes
<1> QED BY <1>8, <1>9, <1>10, <1>11, <1>12, <1>13, <1>14 DEF CompilerInv

\* A calculation changes neither the graph nor its program.
LEMMA CompilerInvStays ==
    ASSUME CompilerInv, UNCHANGED <<graphVars, compilerVars>>
    PROVE  CompilerInv'
<1>1. UNCHANGED <<nodes, signals, pass, lastUse, program, nodeSlots, freeSlots, slotOwner>>
    BY DEF graphVars, compilerVars
<1>2. Graph /\ Uses /\ Owned /\ Live /\ Free /\ Unharmed /\ Compiled /\ Passes BY DEF CompilerInv
<1>3. Graph' /\ Uses' BY <1>1, <1>2 DEF Graph, Uses, NodeCount, At
<1>4. Owned' /\ Live' /\ Free' /\ Unharmed'
    BY <1>1, <1>2 DEF Owned, Live, Free, Unharmed, Written, NodeCount, At
<1>5. Compiled' BY <1>1, <1>2 DEF Compiled, Written, At
<1>6. Passes' BY <1>1, <1>2 DEF Passes, Tabled, Written, NodeCount
<1> QED BY <1>3, <1>4, <1>5, <1>6 DEF CompilerInv

-----------------------------------------------------------------------------
\* The length and the places of a vector's cells.
LEMMA ListedFacts ==
    ASSUME NEW s, Listed(s)
    PROVE  Len(s) \in Nat /\ DOMAIN s = 1..Len(s) /\ s \in Seq({s[i] : i \in 1..Len(s)})
<1>1. PICK n \in Nat : s = [i \in 1..n |-> s[i]] BY DEF Listed
<1> DEFINE S == {s[i] : i \in 1..n}
<1>2. DOMAIN s = 1..n BY <1>1
<1>3. \A i \in 1..n : s[i] \in S OBVIOUS
<1> HIDE DEF S
<1>4. s \in [1..n -> S] BY <1>1, <1>3
<1>5. s \in Seq(S) BY <1>4
<1>6. Len(s) = n BY <1>2, <1>5
<1> QED BY <1>2, <1>5, <1>6 DEF S

\* A function on the first numbers is a list of that length.
LEMMA ListedIs ==
    ASSUME NEW n \in Nat, NEW s, DOMAIN s = 1..n, s = [i \in DOMAIN s |-> s[i]]
    PROVE  Listed(s) /\ Len(s) = n
<1>1. s = [i \in 1..n |-> s[i]] OBVIOUS
<1>2. Listed(s) BY <1>1 DEF Listed
<1>3. Len(s) \in Nat /\ DOMAIN s = 1..Len(s) BY <1>2, ListedFacts
<1> HIDE DEF Listed
<1>4. 1..Len(s) = 1..n BY <1>3
<1>5. Len(s) = n BY <1>3, <1>4
<1> QED BY <1>2, <1>5

\* Appending to a vector keeps what it has, and adds what it is given.
LEMMA ExtendedFacts ==
    ASSUME NEW buffer, Vector(buffer), NEW n \in Nat, NEW values,
           DOMAIN values = 1..n, values = [i \in DOMAIN values |-> values[i]]
    PROVE  LET extended == Extended(buffer, values)
           IN  /\ Vector(extended) /\ extended.length = buffer.length + n
               /\ \A i \in 1..buffer.length : extended.cells[i] = buffer.cells[i]
               /\ \A i \in 1..n : extended.cells[buffer.length + i] = values[i]
<1> DEFINE old == buffer.length
           length == old + n
           allocated == IF length > Len(buffer.cells) THEN length ELSE Len(buffer.cells)
           cells == [i \in 1..allocated |-> IF i \in (old + 1)..length THEN values[i - old] ELSE buffer.cells[i]]
<1>1. Len(values) = n BY ListedIs
<1>2. Listed(buffer.cells) /\ old \in 0..Len(buffer.cells) BY DEF Vector
<1>3. Len(buffer.cells) \in Nat BY <1>2, ListedFacts
<1>4. Extended(buffer, values) = Buffer(cells, length) BY <1>1 DEF Extended
<1>5. allocated \in Nat /\ length \in 0..allocated /\ old \in Nat BY <1>2, <1>3
<1> HIDE DEF allocated
<1>6. Listed(cells) /\ Len(cells) = allocated
  <2>1. DOMAIN cells = 1..allocated /\ cells = [i \in DOMAIN cells |-> cells[i]] OBVIOUS
  <2> HIDE DEF cells
  <2> QED BY <1>5, <2>1, ListedIs
<1>7. \A i \in 1..old : cells[i] = buffer.cells[i] BY <1>5
<1>8. \A i \in 1..n : cells[old + i] = values[i]
  <2>1. ASSUME NEW i \in 1..n PROVE cells[old + i] = values[i]
    <3>1. old + i \in 1..allocated /\ old + i \in (old + 1)..length /\ (old + i) - old = i BY <1>5
    <3> QED BY <3>1
  <2> QED BY <2>1
<1> HIDE DEF cells
<1>9. Extended(buffer, values).cells = cells /\ Extended(buffer, values).length = length BY <1>4 DEF Buffer
<1> QED BY <1>5, <1>6, <1>7, <1>8, <1>9 DEF Vector

\* Pushing adds the one value.
LEMMA PushedFacts ==
    ASSUME NEW buffer, Vector(buffer), NEW value
    PROVE  LET pushed == Pushed(buffer, value)
           IN  /\ Vector(pushed) /\ pushed.length = buffer.length + 1
               /\ \A i \in 1..buffer.length : pushed.cells[i] = buffer.cells[i]
               /\ pushed.cells[buffer.length + 1] = value
<1> DEFINE n == 1
           one == <<value>>
           extended == Extended(buffer, one)
<1>1. DOMAIN one = 1..n /\ one = [i \in DOMAIN one |-> one[i]] OBVIOUS
<1>2. one[1] = value OBVIOUS
<1>3. Pushed(buffer, value) = extended BY DEF Pushed
<1>4. n \in Nat OBVIOUS
<1>5. n = 1 OBVIOUS
<1> HIDE DEF n, one
<1>6. /\ Vector(extended) /\ extended.length = buffer.length + n
      /\ \A i \in 1..buffer.length : extended.cells[i] = buffer.cells[i]
      /\ \A i \in 1..n : extended.cells[buffer.length + i] = one[i]
    BY <1>1, <1>4, ExtendedFacts
<1> HIDE DEF extended
<1>7. extended.cells[buffer.length + 1] = one[1] BY <1>5, <1>6
<1> QED BY <1>3, <1>5, <1>6, <1>7, <1>2

\* What a vector holds.
LEMMA ContentsFacts ==
    ASSUME NEW buffer, Vector(buffer)
    PROVE  /\ Contents(buffer) = [i \in 1..buffer.length |-> buffer.cells[i]]
           /\ Len(Contents(buffer)) = buffer.length /\ buffer.length \in Nat
<1> DEFINE S == {buffer.cells[i] : i \in 1..Len(buffer.cells)}
           held == [i \in 1..buffer.length |-> buffer.cells[i]]
<1>1. Listed(buffer.cells) /\ buffer.length \in 0..Len(buffer.cells) BY DEF Vector
<1>2. Len(buffer.cells) \in Nat /\ buffer.cells \in Seq(S) BY <1>1, ListedFacts
<1> HIDE DEF S
<1>3. buffer.length \in Nat BY <1>1, <1>2
<1>4. Contents(buffer) = held BY <1>1, <1>2 DEF Contents
<1>5. DOMAIN held = 1..buffer.length /\ held = [i \in DOMAIN held |-> held[i]] OBVIOUS
<1> HIDE DEF held
<1>6. Len(held) = buffer.length BY <1>3, <1>5, ListedIs
<1> QED BY <1>3, <1>4, <1>6 DEF held

\* A set of numbers has a least one: no step down from each of 0..m to another
\* could be one to one.
LEMMA LeastNumber ==
    ASSUME NEW S, S \subseteq Nat, S # {}
    PROVE  Min(S) \in S /\ \A x \in S : Min(S) <= x
<1>1. SUFFICES \E x \in S : \A y \in S : x <= y BY DEF Min
<1>2. SUFFICES ASSUME \A x \in S : \E y \in S : y < x PROVE FALSE OBVIOUS
<1>3. PICK m \in S : TRUE OBVIOUS
<1> DEFINE Above == {k \in 0..m : \E x \in S : x <= k}
           down == [k \in Above |-> k - 1]
<1>4. IsFiniteSet(Above)
  <2>1. IsFiniteSet(0..m) BY FS_Interval
  <2> QED BY <2>1, FS_Subset
<1>5. m \in Above OBVIOUS
<1>6. \A k \in Above : k - 1 \in Above \ {m}
  <2>1. ASSUME NEW k \in Above PROVE k - 1 \in Above \ {m}
    <3>1. PICK x \in S : x <= k OBVIOUS
    <3>2. PICK y \in S : y < x BY <1>2
    <3>3. k - 1 \in 0..m /\ y <= k - 1 /\ k - 1 # m BY <3>1, <3>2
    <3> QED BY <3>3
  <2> QED BY <2>1
<1>7. down \in [Above -> Above \ {m}] BY <1>6
<1>8. Above \subseteq Nat OBVIOUS
<1> HIDE DEF Above
<1>9. /\ IsFiniteSet(Above \ {m})
      /\ Cardinality(Above \ {m}) < Cardinality(Above)
  <2>1. Cardinality(Above) \in Nat BY <1>4, FS_CardinalityType
  <2>2. /\ IsFiniteSet(Above \ {m})
        /\ Cardinality(Above \ {m}) = IF m \in Above THEN Cardinality(Above) - 1 ELSE Cardinality(Above)
      BY <1>4, FS_RemoveElement, Zenon
  <2> QED BY <1>5, <2>1, <2>2
<1>10. \E x, y \in Above : x # y /\ down[x] = down[y]
  <2> HIDE DEF down
  <2> QED BY <1>4, <1>7, <1>9, FS_PigeonHole
<1> QED BY <1>8, <1>10

\* The outputs up to the end are those of the nodes up to this one.
LEMMA OutputsEndFacts ==
    ASSUME Tabled, NodeCount \in Nat,
           calculation.index \in Nat, calculation.outputIndex \in 0..SignalCount,
           \A i \in 1..SignalCount : i <= calculation.outputIndex <=> program.outputs[i].node < calculation.index
    PROVE  /\ OutputsEnd \in calculation.outputIndex..SignalCount
           /\ \A i \in 1..SignalCount : i <= OutputsEnd <=> program.outputs[i].node < calculation.index + 1
           /\ \A i \in (calculation.outputIndex + 1)..OutputsEnd : program.outputs[i].node = calculation.index
<1> DEFINE index == calculation.index
           first == calculation.outputIndex
           others == {i \in (first + 1)..SignalCount : program.outputs[i].node # index}
           end == OutputsEnd
<1>1. SignalCount \in Nat BY GraphAssumption
<1>2. /\ Len(program.outputs) = SignalCount
      /\ \A i, j \in 1..SignalCount : i <= j => program.outputs[i].node <= program.outputs[j].node
    BY DEF Tabled
<1>3. \A i \in 1..SignalCount : program.outputs[i].node \in Nat
  <2>1. ASSUME NEW i \in 1..SignalCount PROVE program.outputs[i].node \in Nat
    <3>1. program.outputs[i] \in Outputs BY DEF Tabled
    <3> QED BY <3>1 DEF Outputs
  <2> QED BY <2>1
<1>4. end = IF others = {} THEN SignalCount ELSE Min(others) - 1 BY <1>2 DEF OutputsEnd
<1>5. others \subseteq Nat BY <1>1
<1>6. /\ end \in first..SignalCount
      /\ \A i \in (first + 1)..end : program.outputs[i].node = index
      /\ end < SignalCount => program.outputs[end + 1].node # index
  <2>1. CASE others = {} BY <1>1, <1>4, <2>1
  <2>2. CASE others # {}
    <3>1. Min(others) \in others /\ \A x \in others : Min(others) <= x BY <1>5, <2>2, LeastNumber
    <3>2. end = Min(others) - 1 BY <1>4, <2>2
    <3> DEFINE least == Min(others)
    <3>3. least \in (first + 1)..SignalCount /\ program.outputs[least].node # index BY <3>1
    <3>4. \A i \in (first + 1)..SignalCount : program.outputs[i].node # index => least <= i BY <3>1
    <3> HIDE DEF end, least, others
    <3>5. end = least - 1 /\ least = end + 1 /\ end \in first..SignalCount /\ end \in Nat
        BY <1>1, <3>2, <3>3 DEF least
    <3>6. ASSUME NEW i \in (first + 1)..end PROVE program.outputs[i].node = index
      <4>1. i \in (first + 1)..SignalCount /\ ~(least <= i) BY <1>1, <3>3, <3>5
      <4> QED BY <3>4, <4>1
    <3> QED BY <3>3, <3>5, <3>6
  <2> QED BY <2>1, <2>2
<1> HIDE DEF end
<1>7. ASSUME NEW i \in 1..SignalCount PROVE i <= end <=> program.outputs[i].node < index + 1
  <2>1. CASE i <= first BY <1>1, <1>3, <1>6, <2>1
  <2>2. CASE i > first /\ i <= end
    <3>1. i \in (first + 1)..end BY <1>1, <1>6, <2>2
    <3> QED BY <1>6, <2>2, <3>1
  <2>3. CASE i > end
    <3>1. end + 1 \in 1..SignalCount /\ end + 1 <= i /\ end + 1 > first BY <1>1, <1>6, <2>3
    <3>2. program.outputs[end + 1].node # index BY <1>1, <1>6, <3>1
    <3>3. ~(program.outputs[end + 1].node < index) BY <3>1, <1>1, <1>6
    <3>4. program.outputs[end + 1].node <= program.outputs[i].node BY <1>2, <3>1
    <3>5. program.outputs[end + 1].node \in Nat /\ program.outputs[i].node \in Nat BY <1>3, <3>1
    <3> QED BY <1>1, <1>6, <2>3, <3>2, <3>3, <3>4, <3>5
  <2> QED BY <1>1, <1>6, <2>1, <2>2, <2>3
<1> QED BY <1>6, <1>7 DEF end

\* While in step, both evaluators compute the same for the next node: SAGE finds
\* in the slots of its operands what the direct evaluator kept for them.
LEMMA SameValue ==
    ASSUME CompilerInv, pass = "ready", Vectors(workspaces.sage), InStep, calculation.index < NodeCount
    PROVE  SageValue = DirectValue
<1> DEFINE index == calculation.index
           record == At(nodes, index)
           instruction == At(program.instructions, index)
           kept == workspaces.direct.values.cells
           values == Contents(workspaces.sage.values)
<1>a. Graph /\ Uses /\ Owned /\ Compiled /\ Passes BY DEF CompilerInv
<1>1. Written = NodeCount /\ NodeCount \in Nat /\ index \in 0..(NodeCount - 1)
    BY <1>a DEF Passes, Graph, NodeCount, InStep
<1>2. record \in Records(index) BY <1>a, <1>1 DEF Graph
<1>3. /\ record.kind \in RecordKinds /\ Reads(record) \subseteq 0..(index - 1)
      /\ record.kind = "Input" => record.left \in 0..(InputLen - 1)
      /\ record.kind = "Inverse" => record.left \in 0..(index - 1) /\ Reads(record) = {record.left}
      /\ record.kind = "Operation" =>
           record.left \in 0..(index - 1) /\ record.right \in 0..(index - 1)
           /\ Reads(record) = {record.left, record.right}
    BY <1>1, <1>2, RecordFacts
<1>4. /\ instruction.kind = record.kind /\ instruction.operation = record.operation
      /\ record.kind = "Input" => instruction.left = record.left
      /\ record.kind = "Constant" =>
           instruction.left \in 0..(Len(program.constants) - 1)
           /\ At(program.constants, instruction.left) = record.left
      /\ record.kind \in {"Inverse", "Operation"} => instruction.left = At(nodeSlots, record.left)
      /\ record.kind = "Operation" => instruction.right = At(nodeSlots, record.right)
    BY <1>a, <1>1 DEF Compiled
<1>5. /\ Len(values) = Len(slotOwner) /\ Len(slotOwner) \in Nat
      /\ \A s \in 0..(Len(slotOwner) - 1) : At(values, s) = At(workspaces.sage.values.cells, s)
  <2>1. Vector(workspaces.sage.values) BY DEF Vectors
  <2>2. workspaces.sage.values.length = Len(slotOwner) /\ Len(slotOwner) \in Nat BY <1>a DEF InStep, Owned
  <2>3. values = [i \in 1..Len(slotOwner) |-> workspaces.sage.values.cells[i]] /\ Len(values) = Len(slotOwner)
      BY <2>1, <2>2, ContentsFacts
  <2> HIDE DEF values
  <2> QED BY <2>2, <2>3 DEF At
<1> HIDE DEF values
<1>6. ASSUME NEW n \in Reads(record) PROVE SlotValue(values, At(nodeSlots, n)) = Gives(At(kept, n))
  <2>1. n \in 0..(index - 1) /\ n \in 0..(NodeCount - 1) BY <1>1, <1>3
  <2>2. At(lastUse, n) >= index BY <1>a, <1>1, <2>1 DEF Uses
  <2>3. At(workspaces.sage.values.cells, At(nodeSlots, n)) = At(kept, n) BY <2>1, <2>2 DEF InStep
  <2>4. At(nodeSlots, n) \in Nat /\ At(nodeSlots, n) < Len(slotOwner)
      BY <1>a, <1>1, <2>1 DEF Owned, Written, At
  <2>5. At(nodeSlots, n) \in 0..(Len(slotOwner) - 1) BY <1>5, <2>4
  <2> QED BY <1>5, <2>3, <2>4, <2>5 DEF SlotValue
<1> DEFINE left == SlotValue(values, instruction.left)
           right == SlotValue(values, instruction.right)
<1>7. SageValue =
        CASE record.kind = "Input" -> SlotValue(calculation.inputs, instruction.left)
          [] record.kind = "Constant" -> SlotValue(program.constants, instruction.left)
          [] record.kind = "Inverse" /\ "value" \in DOMAIN left -> Gives(InverseOrZero(left.value))
          [] record.kind = "Operation" /\ "value" \in DOMAIN left /\ "value" \in DOMAIN right ->
                Evaluated(record.operation, left.value, right.value)
          [] OTHER -> Fails("CompiledIndex")
    BY <1>4 DEF SageValue, values
<1>8. DirectValue =
        CASE record.kind = "Input" -> Gives(At(calculation.inputs, record.left))
          [] record.kind = "Constant" -> Gives(record.left)
          [] record.kind = "Inverse" -> Gives(InverseOrZero(At(kept, record.left)))
          [] OTHER -> Evaluated(record.operation, At(kept, record.left), At(kept, record.right))
    BY DEF DirectValue
<1>9. \A x : Gives(x).value = x /\ "value" \in DOMAIN Gives(x) BY DEF Gives
<1> HIDE DEF record, instruction, kept, left, right, index
<1>10. CASE record.kind = "Input"
  <2>1. record.left \in 0..(InputLen - 1) /\ instruction.left = record.left BY <1>3, <1>4, <1>10
  <2>2. calculation.inputs \in Seq(Field) /\ Len(calculation.inputs) = InputLen BY GraphAssumption DEF InStep
  <2>3. record.left < Len(calculation.inputs) BY <2>1, <2>2
  <2>4. SlotValue(calculation.inputs, record.left) = Gives(At(calculation.inputs, record.left))
      BY <2>3 DEF SlotValue
  <2> QED BY <1>7, <1>8, <1>10, <2>1, <2>4
<1>11. CASE record.kind = "Constant"
  <2>1. /\ instruction.left \in 0..(Len(program.constants) - 1)
        /\ At(program.constants, instruction.left) = record.left
      BY <1>4, <1>11
  <2>2. Len(program.constants) \in Nat BY <1>a DEF Compiled
  <2>3. instruction.left < Len(program.constants) BY <2>1, <2>2
  <2>4. SlotValue(program.constants, instruction.left) = Gives(record.left) BY <2>1, <2>3 DEF SlotValue
  <2> QED BY <1>7, <1>8, <1>11, <2>4
<1>12. CASE record.kind = "Inverse"
  <2>1. left = Gives(At(kept, record.left)) BY <1>3, <1>4, <1>6, <1>12 DEF left
  <2>2. left.value = At(kept, record.left) /\ "value" \in DOMAIN left BY <1>9, <2>1
  <2> QED BY <1>7, <1>8, <1>12, <2>2
<1>13. CASE record.kind = "Operation"
  <2>1. left = Gives(At(kept, record.left)) BY <1>3, <1>4, <1>6, <1>13 DEF left
  <2>2. right = Gives(At(kept, record.right)) BY <1>3, <1>4, <1>6, <1>13 DEF right
  <2>3. left.value = At(kept, record.left) /\ "value" \in DOMAIN left BY <1>9, <2>1
  <2>4. right.value = At(kept, record.right) /\ "value" \in DOMAIN right BY <1>9, <2>2
  <2> QED BY <1>7, <1>8, <1>13, <2>3, <2>4
<1> QED BY <1>3, <1>10, <1>11, <1>12, <1>13 DEF RecordKinds

\* Before the first calculation the workspaces are empty.
LEMMA EvaluationInvAtStart == Init => EvaluationInv
<1> SUFFICES ASSUME Init PROVE EvaluationInv OBVIOUS
<1>1. calculation = Idle /\ workspaces.direct = EmptyWorkspace /\ workspaces.sage = EmptyWorkspace BY DEF Init
<1>2. EmptyBuffer.cells = <<>> /\ EmptyBuffer.length = 0 BY DEF EmptyBuffer, Buffer
<1>3. EmptyWorkspace.values = EmptyBuffer /\ EmptyWorkspace.assignment = EmptyBuffer BY DEF EmptyWorkspace
<1>4. Listed(<<>>)
  <2>1. <<>> = [i \in 1..0 |-> <<>>[i]] OBVIOUS
  <2> QED BY <2>1 DEF Listed
<1>5. Vectors(EmptyWorkspace) BY <1>2, <1>3, <1>4 DEF Vectors, Vector
<1>6. Clean(EmptyWorkspace) BY <1>2, <1>3, GraphAssumption DEF Clean, Blank, Retained
<1> QED BY <1>1, <1>5, <1>6 DEF EvaluationInv

\* Nothing is evaluated while the compiler runs.
LEMMA EvaluationInvStays ==
    ASSUME EvaluationInv, pass # "ready" \/ UNCHANGED <<graphVars, compilerVars>>,
           UNCHANGED <<calculation, workspaces>>
    PROVE  EvaluationInv'
<1>1. /\ Vectors(workspaces.direct) /\ Vectors(workspaces.sage)
      /\ calculation = Idle => Clean(workspaces.direct) /\ Clean(workspaces.sage)
      /\ calculation # Idle =>
           /\ pass = "ready" /\ calculation.state \in {"nodes", "returning"}
           /\ calculation.sage = calculation.direct
           /\ calculation.state = "nodes" /\ calculation.direct = Running => InStep
    BY DEF EvaluationInv
<1>2. CASE calculation = Idle
  <2>1. Vectors(workspaces.direct)' /\ Vectors(workspaces.sage)' BY <1>1 DEF Vectors, Vector
  <2>2. Clean(workspaces.direct)' /\ Clean(workspaces.sage)' BY <1>1, <1>2 DEF Clean, Blank, Retained
  <2> QED BY <1>2, <2>1, <2>2 DEF EvaluationInv
<1>3. CASE calculation # Idle
  <2>1. Vectors(workspaces.direct)' /\ Vectors(workspaces.sage)' BY <1>1 DEF Vectors, Vector
  <2>2. UNCHANGED <<nodes, signals, pass, lastUse, program, nodeSlots, slotOwner>>
      BY <1>1, <1>3 DEF graphVars, compilerVars
  <2>3. InStep => InStep' BY <2>2 DEF InStep, NodeCount, At
  <2> QED BY <1>1, <1>3, <2>1, <2>2, <2>3 DEF EvaluationInv
<1> QED BY <1>2, <1>3

\* What a calculation in progress is made of.
LEMMA CalculationFacts ==
    ASSUME NEW state, NEW inputs, NEW index, NEW outputIndex, NEW direct, NEW sage
    PROVE  LET c == Calculation(state, inputs, index, outputIndex, direct, sage)
           IN  /\ c # Idle /\ c.state = state /\ c.inputs = inputs /\ c.index = index
               /\ c.outputIndex = outputIndex /\ c.direct = direct /\ c.sage = sage
<1> DEFINE c == [state |-> state, inputs |-> inputs, index |-> index, outputIndex |-> outputIndex,
                 direct |-> direct, sage |-> sage]
<1>1. /\ c.state = state /\ c.inputs = inputs /\ c.index = index
      /\ c.outputIndex = outputIndex /\ c.direct = direct /\ c.sage = sage
    OBVIOUS
<1>2. "inputs" \in DOMAIN c /\ ~("inputs" \in DOMAIN Idle) BY DEF Idle
<1>3. c # Idle BY <1>2
<1>4. Calculation(state, inputs, index, outputIndex, direct, sage) = c BY DEF Calculation
<1> HIDE DEF c
<1> QED BY <1>1, <1>3, <1>4

\* An empty vector takes the length it is given.
LEMMA ResizedFacts ==
    ASSUME NEW buffer, Vector(buffer), buffer.length = 0, NEW n \in Nat
    PROVE  Vector(Resized(buffer, n)) /\ Resized(buffer, n).length = n
<1>1. CASE n = 0
  <2>1. Resized(buffer, n) = Buffer(buffer.cells, 0) BY <1>1 DEF Resized
  <2>2. Resized(buffer, n).cells = buffer.cells /\ Resized(buffer, n).length = 0 BY <2>1 DEF Buffer
  <2> QED BY <1>1, <2>2 DEF Vector
<1>2. CASE n # 0
  <2> DEFINE zeros == [i \in 1..n |-> 0]
  <2>1. Resized(buffer, n) = Extended(buffer, zeros) BY <1>2 DEF Resized
  <2>2. DOMAIN zeros = 1..n /\ zeros = [i \in DOMAIN zeros |-> zeros[i]] OBVIOUS
  <2> HIDE DEF zeros
  <2>3. Vector(Extended(buffer, zeros)) /\ Extended(buffer, zeros).length = buffer.length + n
      BY <2>2, ExtendedFacts
  <2> QED BY <2>1, <2>3
<1> QED BY <1>1, <1>2

\* A calculation begins in step.
LEMMA BeginKeeps ==
    ASSUME CompilerInv, EvaluationInv, Begin
    PROVE  EvaluationInv'
<1>1. PICK inputs \in InputBuffers : calculation' = Calculation("nodes", inputs, 0, 0, Running, Running)
    BY DEF Begin
<1>2. /\ calculation = Idle /\ pass = "ready" /\ workspaces' = Begun
      /\ UNCHANGED <<nodes, signals, pass, lastUse, program, nodeSlots, freeSlots, slotOwner>>
    BY DEF Begin, graphVars, compilerVars
<1>3. /\ Vectors(workspaces.direct) /\ Vectors(workspaces.sage)
      /\ Clean(workspaces.direct) /\ Clean(workspaces.sage)
    BY <1>2 DEF EvaluationInv
<1>4. Len(slotOwner) \in Nat /\ SignalCount \in Nat /\ NodeCount \in Nat
    BY GraphAssumption DEF CompilerInv, Owned, Graph, NodeCount
<1>5. /\ workspaces'.direct = workspaces.direct
      /\ workspaces'.sage.values = Resized(workspaces.sage.values, Len(slotOwner))
      /\ workspaces'.sage.assignment = Resized(workspaces.sage.assignment, SignalCount)
    BY <1>2 DEF Begun
<1>6. /\ Vector(workspaces'.sage.values) /\ workspaces'.sage.values.length = Len(slotOwner)
      /\ Vector(workspaces'.sage.assignment) /\ workspaces'.sage.assignment.length = SignalCount
  <2>1. /\ Vector(workspaces.sage.values) /\ workspaces.sage.values.length = 0
        /\ Vector(workspaces.sage.assignment) /\ workspaces.sage.assignment.length = 0
      BY <1>3 DEF Vectors, Clean, Blank
  <2> QED BY <1>4, <1>5, <2>1, ResizedFacts
<1>7. workspaces'.direct.values.length = 0 /\ workspaces'.direct.assignment.length = 0
    BY <1>3, <1>5 DEF Clean, Blank
<1>8. /\ calculation' # Idle /\ calculation'.state = "nodes" /\ calculation'.inputs = inputs
      /\ calculation'.index = 0 /\ calculation'.outputIndex = 0
      /\ calculation'.direct = Running /\ calculation'.sage = Running
    BY <1>1, CalculationFacts
<1>9. InStep'
  <2>1. ASSUME NEW i \in 1..SignalCount PROVE ~(i <= 0) /\ ~(program.outputs[i].node < 0)
    <3>1. program.outputs[i] \in Outputs BY <1>2 DEF CompilerInv, Passes, Tabled
    <3>2. program.outputs[i].node \in Nat BY <3>1 DEF Outputs
    <3> QED BY <1>4, <3>2
  <2>2. 0 \in 0..NodeCount' /\ 0 \in 0..SignalCount BY <1>2, <1>4 DEF NodeCount
  <2>3. 0..(0 - 1) = {} OBVIOUS
  <2> QED BY <1>2, <1>6, <1>7, <1>8, <2>1, <2>2, <2>3 DEF InStep
<1>10. Vectors(workspaces.direct)' /\ Vectors(workspaces.sage)' BY <1>3, <1>5, <1>6 DEF Vectors, Vector
<1> QED BY <1>2, <1>8, <1>9, <1>10 DEF EvaluationInv, Idle, Running

\* What is kept of a vector is zero.
LEMMA ZeroizedFacts ==
    ASSUME NEW buffer, Vector(buffer)
    PROVE  LET zeroized == Zeroized(buffer)
           IN  Vector(zeroized) /\ Blank(zeroized) /\ Len(zeroized.cells) = Len(buffer.cells)
<1> DEFINE cells == [i \in DOMAIN buffer.cells |-> 0]
<1>1. Len(buffer.cells) \in Nat /\ DOMAIN buffer.cells = 1..Len(buffer.cells)
    BY ListedFacts DEF Vector
<1>2. DOMAIN cells = 1..Len(buffer.cells) /\ cells = [i \in DOMAIN cells |-> cells[i]] BY <1>1
<1>3. \A i \in DOMAIN cells : cells[i] = 0 OBVIOUS
<1> HIDE DEF cells
<1>4. Listed(cells) /\ Len(cells) = Len(buffer.cells) BY <1>1, <1>2, ListedIs
<1>5. Zeroized(buffer) = [cells |-> cells, length |-> 0] BY DEF Zeroized, Buffer, cells
<1>6. Zeroized(buffer).cells = cells /\ Zeroized(buffer).length = 0 BY <1>5
<1> QED BY <1>1, <1>3, <1>4, <1>6 DEF Vector, Blank

\* A workspace returns to its pool with nothing in it.
LEMMA ClearedFacts ==
    ASSUME NEW workspace, Vectors(workspace)
    PROVE  Vectors(Cleared(workspace)) /\ Clean(Cleared(workspace))
<1>1. CASE Retained(workspace) > RetainedLimit
  <2>1. Cleared(workspace) = EmptyWorkspace BY <1>1 DEF Cleared
  <2>2. EmptyBuffer.cells = <<>> /\ EmptyBuffer.length = 0 BY DEF EmptyBuffer, Buffer
  <2>3. EmptyWorkspace.values = EmptyBuffer /\ EmptyWorkspace.assignment = EmptyBuffer BY DEF EmptyWorkspace
  <2>4. Listed(<<>>)
    <3>1. <<>> = [i \in 1..0 |-> <<>>[i]] OBVIOUS
    <3> QED BY <3>1 DEF Listed
  <2>5. Vectors(EmptyWorkspace) BY <2>2, <2>3, <2>4 DEF Vectors, Vector
  <2>6. Clean(EmptyWorkspace) BY <2>2, <2>3, GraphAssumption DEF Clean, Blank, Retained
  <2> QED BY <2>1, <2>5, <2>6
<1>2. CASE ~(Retained(workspace) > RetainedLimit)
  <2> DEFINE cleared == Cleared(workspace)
  <2>1. cleared.values = Zeroized(workspace.values) /\ cleared.assignment = Zeroized(workspace.assignment)
      BY <1>2 DEF Cleared
  <2>2. /\ Vector(cleared.values) /\ Blank(cleared.values)
        /\ Len(cleared.values.cells) = Len(workspace.values.cells)
        /\ Vector(cleared.assignment) /\ Blank(cleared.assignment)
        /\ Len(cleared.assignment.cells) = Len(workspace.assignment.cells)
      BY <2>1, ZeroizedFacts DEF Vectors
  <2>3. Len(workspace.values.cells) \in Nat /\ Len(workspace.assignment.cells) \in Nat
      BY ListedFacts DEF Vectors, Vector
  <2> HIDE DEF cleared
  <2>4. Retained(cleared) = Retained(workspace) BY <2>2 DEF Retained
  <2>5. Retained(workspace) \in Nat
    <3> DEFINE values == Len(workspace.values.cells)
               assignment == Len(workspace.assignment.cells)
    <3>1. values \in Nat /\ assignment \in Nat /\ Retained(workspace) = values + assignment BY <2>3 DEF Retained
    <3> HIDE DEF values, assignment
    <3> QED BY <3>1
  <2>6. Retained(cleared) <= RetainedLimit BY <1>2, <2>4, <2>5, GraphAssumption
  <2> QED BY <2>2, <2>6 DEF Vectors, Clean, cleared
<1> QED BY <1>1, <1>2

\* However a calculation ended, its workspaces are cleared.
LEMMA ReturnKeeps ==
    ASSUME EvaluationInv, Return
    PROVE  EvaluationInv'
<1>1. /\ workspaces'.direct = Cleared(workspaces.direct) /\ workspaces'.sage = Cleared(workspaces.sage)
      /\ calculation' = Idle
    BY DEF Return
<1>2. Vectors(workspaces.direct) /\ Vectors(workspaces.sage) BY DEF EvaluationInv
<1>3. /\ Vectors(workspaces'.direct) /\ Clean(workspaces'.direct)
      /\ Vectors(workspaces'.sage) /\ Clean(workspaces'.sage)
    BY <1>1, <1>2, ClearedFacts
<1>4. Vectors(workspaces.direct)' /\ Vectors(workspaces.sage)' BY <1>3 DEF Vectors, Vector
<1>5. Clean(workspaces.direct)' /\ Clean(workspaces.sage)' BY <1>3 DEF Clean, Blank, Retained
<1> QED BY <1>1, <1>4, <1>5 DEF EvaluationInv, Idle

\* What SAGE stores: the value in its node's slot and in the node's outputs.
LEMMA SageStoredFacts ==
    ASSUME NEW workspace, Vectors(workspace), NEW value, calculation.outputIndex \in Nat,
           NEW destination \in Nat, destination < workspace.values.length,
           At(program.instructions, calculation.index).destination = destination
    PROVE  LET stored == SageStored(workspace, value)
           IN  /\ Vectors(stored)
               /\ stored.values.length = workspace.values.length
               /\ stored.assignment.length = workspace.assignment.length
               /\ \A s \in 0..(workspace.values.length - 1) :
                    At(stored.values.cells, s) = IF s = destination THEN value ELSE At(workspace.values.cells, s)
               /\ \A s \in 1..workspace.assignment.length :
                    stored.assignment.cells[s] =
                       IF \E i \in (calculation.outputIndex + 1)..OutputsEnd : program.outputs[i].signal + 1 = s
                       THEN value ELSE workspace.assignment.cells[s]
<1> DEFINE values == [workspace.values.cells EXCEPT ![destination + 1] = value]
           outputs == OutputsWritten(workspace.assignment.cells, value)
           stored == SageStored(workspace, value)
<1>1. /\ Len(workspace.values.cells) \in Nat
      /\ DOMAIN workspace.values.cells = 1..Len(workspace.values.cells)
      /\ workspace.values.length \in 0..Len(workspace.values.cells)
      /\ Len(workspace.assignment.cells) \in Nat
      /\ DOMAIN workspace.assignment.cells = 1..Len(workspace.assignment.cells)
      /\ workspace.assignment.length \in 0..Len(workspace.assignment.cells)
    BY ListedFacts DEF Vectors, Vector
<1>2. stored = [values |-> Buffer(values, workspace.values.length),
                assignment |-> Buffer(outputs, workspace.assignment.length)]
    BY DEF SageStored
<1>3. /\ stored.values.cells = values /\ stored.values.length = workspace.values.length
      /\ stored.assignment.cells = outputs /\ stored.assignment.length = workspace.assignment.length
    BY <1>2 DEF Buffer
<1>4. DOMAIN values = 1..Len(workspace.values.cells) /\ values = [i \in DOMAIN values |-> values[i]]
    BY <1>1
<1>5. ASSUME NEW s \in 0..(workspace.values.length - 1)
      PROVE  At(values, s) = IF s = destination THEN value ELSE At(workspace.values.cells, s)
  <2>1. s + 1 \in DOMAIN workspace.values.cells /\ (s + 1 = destination + 1 <=> s = destination) BY <1>1
  <2> QED BY <2>1 DEF At
<1>6. /\ DOMAIN outputs = 1..Len(workspace.assignment.cells) /\ outputs = [i \in DOMAIN outputs |-> outputs[i]]
    BY <1>1 DEF OutputsWritten
<1>7. ASSUME NEW s \in 1..workspace.assignment.length
      PROVE  outputs[s] = IF \E i \in (calculation.outputIndex + 1)..OutputsEnd : program.outputs[i].signal + 1 = s
                          THEN value ELSE workspace.assignment.cells[s]
  <2>1. s \in DOMAIN workspace.assignment.cells BY <1>1
  <2> QED BY <2>1 DEF OutputsWritten
<1> HIDE DEF values, outputs, stored
<1>8. Listed(values) /\ Len(values) = Len(workspace.values.cells) BY <1>1, <1>4, ListedIs
<1>9. Listed(outputs) /\ Len(outputs) = Len(workspace.assignment.cells) BY <1>1, <1>6, ListedIs
<1>10. Vectors(stored) BY <1>1, <1>3, <1>8, <1>9 DEF Vectors, Vector
<1> QED BY <1>3, <1>5, <1>7, <1>10 DEF stored

\* One node in both evaluators.
LEMMA EvaluateKeeps ==
    ASSUME CompilerInv, EvaluationInv, Evaluate
    PROVE  EvaluationInv'
<1> DEFINE index == calculation.index
           result == DirectValue
<1>1. /\ calculation.state = "nodes" /\ index < NodeCount
      /\ calculation.direct = Running /\ calculation.sage = Running
      /\ UNCHANGED <<nodes, signals, pass, lastUse, program, nodeSlots, freeSlots, slotOwner>>
    BY DEF Evaluate, graphVars, compilerVars
<1>2. calculation # Idle BY <1>1 DEF Idle
<1>3. /\ Vectors(workspaces.direct) /\ Vectors(workspaces.sage)
      /\ pass = "ready" /\ calculation.sage = calculation.direct /\ InStep
    BY <1>1, <1>2 DEF EvaluationInv
<1>4. SageValue = result BY <1>1, <1>3, SameValue
<1>5. /\ calculation' = Calculation("nodes", calculation.inputs, index + 1,
                             IF IsValue(result) THEN OutputsEnd ELSE calculation.outputIndex,
                             Outcome(result), Outcome(result))
      /\ workspaces' =
            [direct |-> IF IsValue(result)
                        THEN [values |-> Pushed(workspaces.direct.values, result.value),
                              assignment |-> workspaces.direct.assignment]
                        ELSE workspaces.direct,
             sage |-> IF IsValue(result) THEN SageStored(workspaces.sage, result.value) ELSE workspaces.sage]
    BY <1>4 DEF Evaluate
<1>6. /\ calculation' # Idle /\ calculation'.state = "nodes" /\ calculation'.inputs = calculation.inputs
      /\ calculation'.index = index + 1
      /\ calculation'.outputIndex = IF IsValue(result) THEN OutputsEnd ELSE calculation.outputIndex
      /\ calculation'.direct = Outcome(result) /\ calculation'.sage = Outcome(result)
    BY <1>5, CalculationFacts
<1> HIDE DEF result
<1>7. CASE ~IsValue(result)
  <2>1. workspaces'.direct = workspaces.direct /\ workspaces'.sage = workspaces.sage BY <1>5, <1>7
  <2>2. Vectors(workspaces.direct)' /\ Vectors(workspaces.sage)' BY <1>3, <2>1 DEF Vectors, Vector
  <2>3. calculation'.direct # Running
    <3>1. calculation'.direct = [error |-> result.error] BY <1>6, <1>7 DEF Outcome, Fails
    <3>2. ~("running" \in DOMAIN calculation'.direct) /\ "running" \in DOMAIN Running
        BY <3>1 DEF Running
    <3> QED BY <3>2
  <2> QED BY <1>1, <1>3, <1>6, <2>2, <2>3 DEF EvaluationInv, Idle, Running
<1>8. CASE IsValue(result)
  <2> DEFINE value == result.value
             kept == workspaces.direct.values
             destination == At(nodeSlots, index)
             stored == SageStored(workspaces.sage, value)
             pushed == Pushed(kept, value)
             end == OutputsEnd
  <2>1. workspaces'.direct.values = pushed /\ workspaces'.direct.assignment = workspaces.direct.assignment
        /\ workspaces'.sage = stored
      BY <1>5, <1>8
  <2>2. Graph /\ Uses /\ Owned /\ Unharmed /\ Compiled /\ Passes /\ Tabled
      BY <1>3 DEF CompilerInv, Passes
  <2>3. /\ NodeCount \in Nat /\ Written = NodeCount /\ index \in 0..(NodeCount - 1)
        /\ calculation.outputIndex \in 0..SignalCount /\ SignalCount \in Nat
      BY <1>1, <1>3, <2>2, GraphAssumption DEF Graph, NodeCount, Passes, InStep
  <2>4. destination \in Nat /\ destination < Len(slotOwner)
        /\ At(program.instructions, index).destination = destination
    <3>1. nodeSlots \in Seq(Nat) /\ Len(nodeSlots) = NodeCount BY <2>2, <2>3 DEF Owned, Written
    <3>2. destination \in Nat BY <2>3, <3>1, EntryAt
    <3>3. destination < Len(slotOwner) BY <2>2, <2>3 DEF Owned
    <3>4. At(program.instructions, index).destination = destination
      <4>1. index \in 0..(Written - 1) BY <2>3
      <4> HIDE DEF index
      <4> QED BY <2>2, <4>1 DEF Compiled
    <3> QED BY <3>2, <3>3, <3>4
  <2>5. /\ workspaces.sage.values.length = Len(slotOwner) /\ workspaces.sage.assignment.length = SignalCount
        /\ kept.length = index /\ workspaces.direct.assignment.length = 0
      BY <1>3 DEF InStep
  <2>6. /\ Vectors(stored)
        /\ stored.values.length = Len(slotOwner) /\ stored.assignment.length = SignalCount
        /\ \A s \in 0..(Len(slotOwner) - 1) :
              At(stored.values.cells, s) = IF s = destination THEN value ELSE At(workspaces.sage.values.cells, s)
        /\ \A s \in 1..SignalCount :
              stored.assignment.cells[s] =
                 IF \E i \in (calculation.outputIndex + 1)..end : program.outputs[i].signal + 1 = s
                 THEN value ELSE workspaces.sage.assignment.cells[s]
    <3>1. calculation.outputIndex \in Nat BY <2>3
    <3> HIDE DEF destination, value, index
    <3> QED BY <1>3, <2>4, <2>5, <3>1, SageStoredFacts DEF index
  <2>7. /\ Vector(pushed) /\ pushed.length = index + 1
        /\ \A n \in 0..(index - 1) : At(pushed.cells, n) = At(kept.cells, n)
        /\ At(pushed.cells, index) = value
    <3>2. Vector(kept) BY <1>3 DEF Vectors
    <3>3. /\ Vector(pushed) /\ pushed.length = kept.length + 1
          /\ \A i \in 1..kept.length : pushed.cells[i] = kept.cells[i]
          /\ pushed.cells[kept.length + 1] = value
      <4> HIDE DEF kept, value
      <4> QED BY <3>2, PushedFacts
    <3> HIDE DEF pushed, kept, value
    <3>4. ASSUME NEW n \in 0..(index - 1) PROVE At(pushed.cells, n) = At(kept.cells, n)
      <4>1. n + 1 \in 1..kept.length BY <2>3, <2>5
      <4> QED BY <3>3, <4>1 DEF At
    <3>5. kept.length + 1 = index + 1 BY <2>5
    <3> QED BY <2>5, <3>3, <3>4, <3>5 DEF At
  <2>8. /\ end \in calculation.outputIndex..SignalCount
        /\ \A i \in 1..SignalCount : i <= end <=> program.outputs[i].node < index + 1
        /\ \A i \in (calculation.outputIndex + 1)..end : program.outputs[i].node = index
    <3>1. /\ index \in Nat
          /\ \A i \in 1..SignalCount : i <= calculation.outputIndex <=> program.outputs[i].node < index
        BY <1>3, <2>3 DEF InStep
    <3> QED BY <2>2, <2>3, <3>1, OutputsEndFacts
  <2> HIDE DEF stored, pushed, end, value
  <2>9. ASSUME NEW n \in 0..index, At(lastUse, n) >= index + 1
        PROVE  At(stored.values.cells, At(nodeSlots, n)) = At(pushed.cells, n)
    <3>1. At(nodeSlots, n) \in 0..(Len(slotOwner) - 1)
      <4>1. n \in 0..(Written - 1) BY <2>3
      <4>2. At(nodeSlots, n) \in Nat /\ At(nodeSlots, n) < Len(slotOwner) /\ Len(slotOwner) \in Nat
          BY <2>2, <4>1 DEF Owned, Written, At
      <4> QED BY <4>2
    <3>2. CASE n = index BY <2>6, <2>7, <3>1, <3>2
    <3>3. CASE n \in 0..(index - 1)
      <4>1. At(lastUse, n) \in Nat
        <5>1. n \in 0..(NodeCount - 1) BY <2>3
        <5> QED BY <2>2, <2>3, <5>1 DEF Uses, At
      <4>2. At(nodeSlots, n) # destination
        <5>1. n \in 0..(Written - 1) /\ index \in 0..(Written - 1) /\ n < index /\ index < At(lastUse, n)
            BY <2>3, <2>9, <3>3, <4>1
        <5> QED BY <2>2, <5>1 DEF Unharmed
      <4>3. At(workspaces.sage.values.cells, At(nodeSlots, n)) = At(kept.cells, n)
        <5>1. At(lastUse, n) >= index BY <2>3, <2>9, <4>1
        <5> QED BY <1>3, <3>3, <5>1 DEF InStep
      <4> QED BY <2>6, <2>7, <3>1, <3>3, <4>2, <4>3
    <3> QED BY <2>3, <3>2, <3>3
  <2>10. ASSUME NEW i \in 1..SignalCount, i <= end
         PROVE  At(stored.assignment.cells, program.outputs[i].signal) = At(pushed.cells, program.outputs[i].node)
    <3> DEFINE output == program.outputs[i]
               s == output.signal + 1
    <3>1. output.signal \in Nat /\ output.node \in Nat /\ output.signal < SignalCount
          /\ output.node = signals[s]
      <4>1. output \in Outputs BY <2>2 DEF Tabled
      <4> QED BY <2>2, <4>1 DEF Outputs, Tabled
    <3>2. s \in 1..SignalCount BY <2>3, <3>1
    <3>3. CASE \E k \in (calculation.outputIndex + 1)..end : program.outputs[k].signal + 1 = s
      <4>1. PICK k \in (calculation.outputIndex + 1)..end : program.outputs[k].signal + 1 = s BY <3>3
      <4>2. program.outputs[k].node = index BY <2>8
      <4>3. k \in 1..SignalCount BY <2>3, <2>8
      <4>4. program.outputs[k].node = signals[program.outputs[k].signal + 1] BY <2>2, <4>3 DEF Tabled
      <4>5. output.node = index BY <3>1, <4>1, <4>2, <4>4
      <4>6. stored.assignment.cells[s] = value BY <2>6, <3>2, <3>3
      <4> QED BY <2>7, <4>5, <4>6 DEF At
    <3>4. CASE ~\E k \in (calculation.outputIndex + 1)..end : program.outputs[k].signal + 1 = s
      <4>1. stored.assignment.cells[s] = workspaces.sage.assignment.cells[s] BY <2>6, <3>2, <3>4
      <4>2. i <= calculation.outputIndex
        <5>1. ~(i \in (calculation.outputIndex + 1)..end) BY <3>4
        <5> QED BY <2>3, <2>8, <2>10, <5>1
      <4>3. output.node < index
            /\ At(workspaces.sage.assignment.cells, output.signal) = At(kept.cells, output.node)
          BY <1>3, <4>2 DEF InStep
      <4>4. output.node \in 0..(index - 1) BY <2>3, <3>1, <4>3
      <4>5. At(pushed.cells, output.node) = At(kept.cells, output.node) BY <2>7, <4>4
      <4> QED BY <4>1, <4>3, <4>5 DEF At
    <3> QED BY <3>3, <3>4
  <2>11. calculation'.outputIndex = end BY <1>6, <1>8 DEF end
  <2>12. InStep'
    <3>1. /\ index + 1 \in 0..NodeCount' /\ end \in 0..SignalCount /\ (index + 1) - 1 = index
        BY <1>1, <2>3, <2>8 DEF NodeCount
    <3>2. calculation'.inputs \in InputBuffers BY <1>3, <1>6 DEF InStep
    <3>3. /\ workspaces'.direct.values.length = index + 1 /\ workspaces'.direct.assignment.length = 0
          /\ workspaces'.sage.values.length = Len(slotOwner)' /\ workspaces'.sage.assignment.length = SignalCount
        BY <1>1, <2>1, <2>5, <2>6, <2>7
    <3>4. \A n \in 0..((index + 1) - 1) : At(lastUse, n)' >= index + 1 =>
             At(workspaces'.sage.values.cells, At(nodeSlots, n)') = At(workspaces'.direct.values.cells, n)
        BY <1>1, <2>1, <2>9, <3>1 DEF At
    <3>5. \A i \in 1..SignalCount :
             /\ i <= end <=> program'.outputs[i].node < index + 1
             /\ i <= end => At(workspaces'.sage.assignment.cells, program'.outputs[i].signal)
                                = At(workspaces'.direct.values.cells, program'.outputs[i].node)
        BY <1>1, <2>1, <2>8, <2>10
    <3> HIDE DEF index
    <3> QED BY <1>6, <2>11, <3>1, <3>2, <3>3, <3>4, <3>5 DEF InStep, At
  <2>13. Vectors(workspaces.direct)' /\ Vectors(workspaces.sage)'
      BY <1>3, <2>1, <2>6, <2>7 DEF Vectors, Vector
  <2> QED BY <1>1, <1>3, <1>6, <2>12, <2>13 DEF EvaluationInv, Idle, Running
<1> QED BY <1>7, <1>8

\* The two assignments are the same, and so is what is said of them.
LEMMA CompleteKeeps ==
    ASSUME CompilerInv, EvaluationInv, Complete
    PROVE  EvaluationInv'
<1> DEFINE given == [s \in 1..SignalCount |-> At(workspaces.direct.values.cells, signals[s])]
           direct == Extended(workspaces.direct.assignment, given)
           answer == IF calculation.direct = Running THEN Assigned(direct) ELSE calculation.direct
           sage == IF calculation.sage # Running THEN calculation.sage
                   ELSE IF calculation.outputIndex # Len(program.outputs) THEN Fails("CompiledIndex")
                   ELSE Assigned(workspaces.sage.assignment)
<1>1. /\ calculation.state = "nodes"
      /\ calculation.index = NodeCount \/ calculation.direct # Running \/ calculation.sage # Running
      /\ calculation' = Calculation("returning", calculation.inputs, calculation.index, calculation.outputIndex,
                            answer, sage)
      /\ workspaces' = [direct |-> IF calculation.direct = Running
                                  THEN [values |-> workspaces.direct.values, assignment |-> direct]
                                  ELSE workspaces.direct,
                        sage |-> workspaces.sage]
      /\ UNCHANGED <<nodes, signals, pass, lastUse, program, nodeSlots, freeSlots, slotOwner>>
    BY DEF Complete, graphVars, compilerVars
<1>2. calculation # Idle BY <1>1 DEF Idle
<1>3. /\ Vectors(workspaces.direct) /\ Vectors(workspaces.sage)
      /\ pass = "ready" /\ calculation.sage = calculation.direct
      /\ calculation.direct = Running => InStep
    BY <1>1, <1>2 DEF EvaluationInv
<1>4. SignalCount \in Nat \ {0} BY GraphAssumption
<1>5. /\ calculation' # Idle /\ calculation'.state = "returning"
      /\ calculation'.direct = answer /\ calculation'.sage = sage
    <2> HIDE DEF answer, sage
    <2> QED BY <1>1, CalculationFacts
<1>6. DOMAIN given = 1..SignalCount /\ given = [s \in DOMAIN given |-> given[s]] OBVIOUS
<1>7. \A s \in 1..SignalCount : given[s] = At(workspaces.direct.values.cells, signals[s]) OBVIOUS
<1> HIDE DEF given
<1>8. /\ Vector(direct) /\ direct.length = workspaces.direct.assignment.length + SignalCount
      /\ \A s \in 1..SignalCount : direct.cells[workspaces.direct.assignment.length + s] = given[s]
  <2>1. Vector(workspaces.direct.assignment) /\ SignalCount \in Nat BY <1>3, <1>4 DEF Vectors
  <2> QED BY <1>6, <2>1, ExtendedFacts
<1> HIDE DEF direct
<1>9. answer = sage
  <2>1. CASE calculation.direct # Running BY <1>3, <2>1
  <2>2. CASE calculation.direct = Running
    <3>1. InStep /\ calculation.index = NodeCount BY <1>1, <1>3, <2>2
    <3>2. Tabled /\ Graph BY <1>3 DEF CompilerInv, Passes
    <3>3. ASSUME NEW i \in 1..SignalCount PROVE i <= calculation.outputIndex BY <3>1, <3>2 DEF InStep, Tabled
    <3>4. calculation.outputIndex = Len(program.outputs)
      <4>1. calculation.outputIndex \in 0..SignalCount /\ Len(program.outputs) = SignalCount
          BY <3>1, <3>2 DEF InStep, Tabled
      <4>2. SignalCount \in 1..SignalCount BY <1>4
      <4>3. SignalCount <= calculation.outputIndex BY <3>3, <4>2
      <4> QED BY <1>4, <4>1, <4>3
    <3>5. /\ workspaces.direct.assignment.length = 0 /\ workspaces.sage.assignment.length = SignalCount
        BY <3>1 DEF InStep
    <3>6. direct.length = SignalCount /\ \A s \in 1..SignalCount : direct.cells[s] = given[s]
      <4>1. \A s \in 1..SignalCount : 0 + s = s BY <1>4
      <4> QED BY <1>4, <1>8, <3>5, <4>1
    <3>7. ASSUME NEW s \in 1..SignalCount PROVE workspaces.sage.assignment.cells[s] = given[s]
      <4>1. PICK i \in 1..SignalCount : program.outputs[i].signal + 1 = s BY <3>2 DEF Tabled
      <4>2. program.outputs[i].node = signals[s] BY <3>2, <4>1 DEF Tabled
      <4>3. At(workspaces.sage.assignment.cells, program.outputs[i].signal)
              = At(workspaces.direct.values.cells, program.outputs[i].node)
          BY <3>1, <3>3 DEF InStep
      <4> QED BY <1>7, <4>1, <4>2, <4>3 DEF At
    <3>8. Contents(direct) = Contents(workspaces.sage.assignment)
      <4>1. Contents(direct) = [s \in 1..SignalCount |-> direct.cells[s]] BY <1>8, <3>6, ContentsFacts
      <4>2. Contents(workspaces.sage.assignment)
              = [s \in 1..SignalCount |-> workspaces.sage.assignment.cells[s]]
          BY <1>3, <3>5, ContentsFacts DEF Vectors
      <4>3. \A s \in 1..SignalCount : direct.cells[s] = workspaces.sage.assignment.cells[s] BY <3>6, <3>7
      <4> QED BY <4>1, <4>2, <4>3
    <3>9. Assigned(direct) = Assigned(workspaces.sage.assignment) BY <3>8 DEF Assigned
    <3> QED BY <1>3, <2>2, <3>4, <3>9
  <2> QED BY <2>1, <2>2
<1> HIDE DEF answer, sage
<1>10. Vectors(workspaces.direct)' /\ Vectors(workspaces.sage)'
  <2>1. workspaces'.sage = workspaces.sage BY <1>1
  <2>2. CASE calculation.direct = Running
    <3>1. workspaces'.direct.values = workspaces.direct.values /\ workspaces'.direct.assignment = direct
        BY <1>1, <2>2
    <3> QED BY <1>3, <1>8, <2>1, <3>1 DEF Vectors, Vector
  <2>3. CASE calculation.direct # Running
    <3>1. workspaces'.direct = workspaces.direct BY <1>1, <2>3
    <3> QED BY <1>3, <2>1, <3>1 DEF Vectors, Vector
  <2> QED BY <2>2, <2>3
<1>11. pass' = "ready" /\ calculation'.sage = calculation'.direct BY <1>1, <1>3, <1>5, <1>9
<1> QED BY <1>5, <1>10, <1>11 DEF EvaluationInv, Idle

\* The two invariants hold in every reachable state.
LEMMA SageInvHolds == Spec => [](CompilerInv /\ EvaluationInv)
<1>1. Init => CompilerInv /\ EvaluationInv BY CompilerInvAtStart, EvaluationInvAtStart
<1>2. CompilerInv /\ EvaluationInv /\ [Next]_vars => (CompilerInv /\ EvaluationInv)'
  <2> SUFFICES ASSUME CompilerInv, EvaluationInv, [Next]_vars PROVE CompilerInv' /\ EvaluationInv' OBVIOUS
  <2>1. CASE Mark
    <3>1. pass # "ready" /\ UNCHANGED <<calculation, workspaces>> BY <2>1 DEF Mark
    <3> QED BY <2>1, <3>1, MarkKeeps, EvaluationInvStays
  <2>2. CASE MarkOutputs
    <3>1. pass # "ready" /\ UNCHANGED <<calculation, workspaces>> BY <2>2 DEF MarkOutputs
    <3> QED BY <2>2, <3>1, MarkOutputsKeeps, EvaluationInvStays
  <2>3. CASE Allocate
    <3>1. pass # "ready" /\ UNCHANGED <<calculation, workspaces>> BY <2>3 DEF Allocate
    <3> QED BY <2>3, <3>1, AllocateKeeps, EvaluationInvStays
  <2>4. CASE Begin
    <3>1. UNCHANGED <<graphVars, compilerVars>> BY <2>4 DEF Begin
    <3> QED BY <2>4, <3>1, CompilerInvStays, BeginKeeps
  <2>5. CASE Evaluate
    <3>1. UNCHANGED <<graphVars, compilerVars>> BY <2>5 DEF Evaluate
    <3> QED BY <2>5, <3>1, CompilerInvStays, EvaluateKeeps
  <2>6. CASE Complete
    <3>1. UNCHANGED <<graphVars, compilerVars>> BY <2>6 DEF Complete
    <3> QED BY <2>6, <3>1, CompilerInvStays, CompleteKeeps
  <2>7. CASE Return
    <3>1. UNCHANGED <<graphVars, compilerVars>> BY <2>7 DEF Return
    <3> QED BY <2>7, <3>1, CompilerInvStays, ReturnKeeps
  <2>8. CASE UNCHANGED vars
    <3>1. UNCHANGED <<graphVars, compilerVars>> /\ UNCHANGED <<calculation, workspaces>> BY <2>8 DEF vars
    <3> QED BY <3>1, CompilerInvStays, EvaluationInvStays
  <2> QED BY <2>1, <2>2, <2>3, <2>4, <2>5, <2>6, <2>7, <2>8 DEF Next
<1> QED BY <1>1, <1>2, PTL DEF Spec

\* What the invariants say of the calculation in progress and of the workspaces.
LEMMA InStepIsExact ==
    ASSUME CompilerInv, EvaluationInv
    PROVE  EvaluationIsExact
<1>1. CompilerNeverRefuses BY DEF CompilerInv, Passes, CompilerNeverRefuses
<1>2. SlotsHoldTheLiveValues
  <2> SUFFICES ASSUME calculation.state = "nodes", calculation.direct = Running,
                      NEW node \in 0..(calculation.index - 1), ReadAfter(node, calculation.index - 1)
               PROVE  At(workspaces.sage.values.cells, At(nodeSlots, node))
                         = At(workspaces.direct.values.cells, node)
      BY DEF SlotsHoldTheLiveValues
  <2>1. InStep
    <3>1. calculation # Idle BY DEF Idle
    <3> QED BY <3>1 DEF EvaluationInv
  <2>2. Uses /\ NodeCount \in Nat /\ calculation.index \in 0..NodeCount
      BY <2>1 DEF CompilerInv, Graph, NodeCount, InStep
  <2>3. PICK later \in (calculation.index - 1 + 1)..(NodeCount - 1) : node \in Reads(At(nodes, later))
      BY DEF ReadAfter
  <2>4. later \in 0..(NodeCount - 1) /\ later >= calculation.index /\ node \in 0..(NodeCount - 1)
      BY <2>2, <2>3
  <2>5. At(lastUse, node) >= later /\ At(lastUse, node) \in Nat
    <3>1. At(lastUse, node) >= later BY <2>2, <2>3, <2>4 DEF Uses
    <3>2. lastUse \in Seq(Nat) /\ Len(lastUse) = NodeCount BY <2>2 DEF Uses
    <3>3. At(lastUse, node) \in Nat BY <2>2, <2>4, <3>2, EntryAt
    <3> QED BY <3>1, <3>3
  <2>6. At(lastUse, node) >= calculation.index BY <2>2, <2>4, <2>5
  <2> QED BY <2>1, <2>6 DEF InStep
<1>3. SageMatchesTheDirectEvaluator
  <2> SUFFICES ASSUME calculation.state = "returning" PROVE calculation.sage = calculation.direct
      BY DEF SageMatchesTheDirectEvaluator
  <2>1. calculation # Idle BY DEF Idle
  <2> QED BY <2>1 DEF EvaluationInv
<1>4. IdleWorkspacesHoldNothing
  <2> SUFFICES ASSUME calculation = Idle
               PROVE  \A workspace \in {workspaces.direct, workspaces.sage} :
                         /\ Retained(workspace) <= RetainedLimit
                         /\ \A buffer \in {workspace.values, workspace.assignment} :
                               \A i \in DOMAIN buffer.cells : buffer.cells[i] = 0
      BY DEF IdleWorkspacesHoldNothing
  <2>1. Clean(workspaces.direct) /\ Clean(workspaces.sage) BY DEF EvaluationInv
  <2> QED BY <2>1 DEF Clean, Blank
<1> QED BY <1>1, <1>2, <1>3, <1>4 DEF EvaluationIsExact

\* SAGE and the direct evaluator agree, for every graph, field and input: the
\* compiler recycles no slot that is still to be read (its "unreachable" error is
\* so), the assignments and the refusals are the same, and an idle workspace
\* holds nothing of the calculation before.
THEOREM EvaluationIsExactHolds == Spec => []EvaluationIsExact
<1>1. CompilerInv /\ EvaluationInv => EvaluationIsExact BY InStepIsExact
<1> QED BY <1>1, SageInvHolds, PTL

-----------------------------------------------------------------------------
(* A stored program (SageProgram): whatever its bytes, a program that loads is *)
(* evaluated without running out of bounds.  The inductive invariant says of  *)
(* what was read that each instruction was checked against what the earlier   *)
(* ones write, and of the run that it is that far into the instructions, the  *)
(* table and the costs that loading metered.                                  *)

LoadPhases == {"dimensions", "instructions", "outputs", "loaded", "done", "refused"}
Dims == [instructions : Nat, constants : Nat, outputs : Nat, inputs : Nat, signals : Nat, slots : Nat]
StoredRecords ==
    [kind : Kinds, tag : Tags, left : Bytes, right : Bytes, destination : Bytes, padding : {0, 1}]
TableRows == [node : Nat, signal : Nat]

\* The slots written by the instructions before one.
WrittenBefore(i) == {loadedInstructions[j].destination : j \in 1..(i - 1)}

InstructionsAreValid ==
    /\ loadedInstructions \in Seq(StoredRecords) /\ Len(loadedInstructions) <= loadedDims.instructions
    /\ \A i \in 1..Len(loadedInstructions) :
          InstructionIsValid(loadedDims, loadedInstructions[i], WrittenBefore(i))
    /\ definedSlots = WrittenBefore(Len(loadedInstructions) + 1)

RowsAreOrdered ==
    /\ loadedOutputs \in Seq(TableRows) /\ Len(loadedOutputs) <= loadedDims.outputs
    /\ \A k \in 1..Len(loadedOutputs) : loadedOutputs[k].node < loadedDims.instructions
    /\ \A j, k \in 1..Len(loadedOutputs) : j < k => loadedOutputs[j].node <= loadedOutputs[k].node

\* What the meter showed after each instruction.
IsMeter(costs) ==
    /\ costs \in [0..Len(loadedInstructions) -> Nat] /\ costs[0] = 0
    /\ \A i \in 1..Len(loadedInstructions) : costs[i] = costs[i - 1] + CostOf(loadedInstructions[i])
    /\ \A i \in 0..Len(loadedInstructions) : costs[i] <= meteredCost
    /\ costs[Len(loadedInstructions)] = meteredCost

CostsAreMetered == \E costs : IsMeter(costs)

RunHasCome(run) ==
    /\ run = Run(run.index, run.output, run.written, run.assigned, run.cost, run.error)
    /\ run.index \in 0..Len(loadedInstructions) /\ run.output \in 0..Len(loadedOutputs)
    /\ run.written = WrittenBefore(run.index + 1)
    /\ run.assigned \in Seq(TableRows) /\ Len(run.assigned) = run.output
    /\ \A k \in 1..run.output : run.assigned[k] = loadedOutputs[k]
    /\ \A k \in (run.output + 1)..Len(loadedOutputs) : loadedOutputs[k].node >= run.index
    /\ \E costs : IsMeter(costs) /\ run.cost = costs[run.index]
    /\ run.error \notin {"CompiledIndex", "read an unwritten slot"}

HeaderInv ==
    /\ loadPhase \in LoadPhases /\ loadedDims \in Dims
    /\ loadPhase \in {"instructions", "outputs", "loaded", "done"} => DimensionsAreValid(loadedDims)
    /\ loadPhase \in {"outputs", "loaded", "done"} => Len(loadedInstructions) = loadedDims.instructions
    /\ loadPhase \in {"loaded", "done"} =>
          Len(loadedOutputs) = loadedDims.outputs /\ OutputsAreComplete(loadedDims, RowsOf(loadedOutputs))
    /\ meteredCost \in Nat /\ meteredCost <= Budget

ProgramInv ==
    /\ HeaderInv /\ InstructionsAreValid /\ RowsAreOrdered /\ CostsAreMetered
    /\ loadPhase = "dimensions" => loadedInstructions = <<>> /\ loadedOutputs = <<>>
    /\ loadPhase \notin {"loaded", "done"} => loadedRun = FreshRun
    /\ loadPhase \in {"loaded", "done"} => RunHasCome(loadedRun)
    /\ loadPhase = "done" /\ loadedRun.error = "none" => loadedRun.output = Len(loadedOutputs)

\* The numbers among the limits.
LEMMA ProgramNumbers ==
    /\ NodeLimit \in Nat /\ SignalLimit \in Nat /\ ProgramBytes \in Nat /\ Budget \in Nat
    /\ OperationCost \in Nat /\ InverseCost \in Nat /\ Bytes \subseteq Nat
    BY ProgramAssumption

\* Each instruction costs something or nothing.
LEMMA CostIsNumber == ASSUME NEW r PROVE CostOf(r) \in Nat
    BY ProgramNumbers DEF CostOf

\* The numbers of a row.
LEMMA RowNumbers ==
    ASSUME RowsAreOrdered
    PROVE  \A k \in 1..Len(loadedOutputs) :
              loadedOutputs[k] \in TableRows /\ loadedOutputs[k].node \in Nat
<1>1. \A k \in 1..Len(loadedOutputs) : loadedOutputs[k] \in TableRows
    BY DEF RowsAreOrdered
<1> QED BY <1>1 DEF TableRows

\* The meter of no instructions.
LEMMA EmptyMeter ==
    ASSUME loadedInstructions = <<>>, meteredCost = 0
    PROVE  IsMeter([i \in 0..0 |-> 0])
<1>1. Len(loadedInstructions) = 0
    OBVIOUS
<1> QED BY <1>1 DEF IsMeter

\* A run is where it is said to be if its parts are.
LEMMA RunFromParts ==
    ASSUME NEW index \in 0..Len(loadedInstructions), NEW output \in 0..Len(loadedOutputs),
           NEW assigned \in Seq(TableRows), Len(assigned) = output,
           \A k \in 1..output : assigned[k] = loadedOutputs[k],
           \A k \in (output + 1)..Len(loadedOutputs) : loadedOutputs[k].node >= index,
           NEW costs, IsMeter(costs), NEW cost, cost = costs[index],
           NEW error, error \notin {"CompiledIndex", "read an unwritten slot"},
           NEW written, written = WrittenBefore(index + 1)
    PROVE  RunHasCome(Run(index, output, written, assigned, cost, error))
<1> DEFINE run == Run(index, output, written, assigned, cost, error)
<1>1. /\ run.index = index /\ run.output = output /\ run.written = written
      /\ run.assigned = assigned /\ run.cost = cost /\ run.error = error
    BY DEF Run
<1>2. run = Run(run.index, run.output, run.written, run.assigned, run.cost, run.error)
    BY <1>1
<1> HIDE DEF run
<1>3. run.index \in 0..Len(loadedInstructions) /\ run.output \in 0..Len(loadedOutputs)
    BY <1>1
<1>4. run.written = WrittenBefore(run.index + 1)
    BY <1>1
<1>5. run.assigned \in Seq(TableRows) /\ Len(run.assigned) = run.output
    BY <1>1
<1>6. \A k \in 1..run.output : run.assigned[k] = loadedOutputs[k]
    BY <1>1
<1>7. \A k \in (run.output + 1)..Len(loadedOutputs) : loadedOutputs[k].node >= run.index
    BY <1>1
<1>8. \E c : IsMeter(c) /\ run.cost = c[run.index]
    BY <1>1
<1>9. run.error \notin {"CompiledIndex", "read an unwritten slot"}
    BY <1>1
<1>10. RunHasCome(run)
    BY <1>2, <1>3, <1>4, <1>5, <1>6, <1>7, <1>8, <1>9 DEF RunHasCome
<1> QED BY <1>10 DEF run

\* A run that has not begun.
LEMMA FreshHasCome ==
    ASSUME loadedInstructions \in Seq(StoredRecords), RowsAreOrdered,
           NEW costs, IsMeter(costs)
    PROVE  RunHasCome(FreshRun)
<1>1. /\ 0 \in 0..Len(loadedInstructions) /\ 0 \in 0..Len(loadedOutputs)
      /\ \A k \in (0 + 1)..Len(loadedOutputs) : loadedOutputs[k].node >= 0
    BY RowNumbers DEF RowsAreOrdered
<1>2. {} = WrittenBefore(0 + 1)
    BY DEF WrittenBefore
<1>3. 0 = costs[0]
    BY DEF IsMeter
<1>4. PICK none : none = <<>>
    OBVIOUS
<1>5. /\ none \in Seq(TableRows) /\ Len(none) = 0
      /\ \A k \in 1..0 : none[k] = loadedOutputs[k]
    BY <1>4
<1>6. PICK quiet : quiet = "none"
    OBVIOUS
<1>7. quiet \notin {"CompiledIndex", "read an unwritten slot"}
    BY <1>6
<1>8. RunHasCome(Run(0, 0, {}, none, 0, quiet))
    BY <1>1, <1>2, <1>3, <1>5, <1>7, RunFromParts
<1> QED BY <1>4, <1>6, <1>8 DEF FreshRun

\* Nothing is loaded at first.
LEMMA ProgramInitInv == ProgramInit => ProgramInv
<1> SUFFICES ASSUME ProgramInit PROVE ProgramInv
    OBVIOUS
<1>1. /\ loadPhase = "dimensions" /\ loadedDims = NoDims /\ loadedInstructions = <<>>
      /\ loadedOutputs = <<>> /\ definedSlots = {} /\ meteredCost = 0 /\ loadedRun = FreshRun
    BY DEF ProgramInit
<1>2. HeaderInv
    BY <1>1, ProgramNumbers DEF HeaderInv, LoadPhases, Dims, NoDims
<1>3. WrittenBefore(0 + 1) = {}
    BY DEF WrittenBefore
<1>4. InstructionsAreValid
    BY <1>1, <1>3 DEF InstructionsAreValid, NoDims
<1>5. RowsAreOrdered
    BY <1>1 DEF RowsAreOrdered, NoDims
<1>6. CostsAreMetered
    BY <1>1, EmptyMeter DEF CostsAreMetered
<1> QED BY <1>1, <1>2, <1>4, <1>5, <1>6 DEF ProgramInv

\* What was read and metered stays so.
LEMMA CostsStay ==
    ASSUME CostsAreMetered, loadedInstructions' = loadedInstructions, meteredCost' = meteredCost
    PROVE  CostsAreMetered'
    BY DEF CostsAreMetered, IsMeter

\* A run is as far after a step that reads nothing more.
LEMMA RunStays ==
    ASSUME NEW run, RunHasCome(run), loadedRun' = run,
           loadedInstructions' = loadedInstructions, loadedOutputs' = loadedOutputs,
           meteredCost' = meteredCost
    PROVE  RunHasCome(loadedRun)'
<1>1. \A costs : IsMeter(costs) => IsMeter(costs)'
    BY DEF IsMeter
<1>2. PICK costs : IsMeter(costs) /\ run.cost = costs[run.index]
    BY DEF RunHasCome
<1>3. \A i : WrittenBefore(i)' = WrittenBefore(i)
    BY DEF WrittenBefore
<1> QED BY <1>1, <1>2, <1>3 DEF RunHasCome

\* The header is read before anything else.
LEMMA ReadDimensionsStep == ASSUME ProgramInv, ReadDimensions PROVE ProgramInv'
<1>1. PICK d \in [instructions : Bytes, constants : Bytes, outputs : Bytes, inputs : Bytes,
                  signals : Bytes, slots : Bytes] :
        /\ loadedDims' = d
        /\ loadPhase' \in {"instructions", "refused"}
        /\ loadPhase' = "instructions" => DimensionsAreValid(d)
    BY DEF ReadDimensions
<1>2. /\ loadedInstructions' = loadedInstructions /\ loadedOutputs' = loadedOutputs
      /\ definedSlots' = definedSlots /\ meteredCost' = meteredCost /\ loadedRun' = loadedRun
      /\ loadPhase = "dimensions" /\ loadedRun = FreshRun
    BY DEF ReadDimensions, ProgramInv
<1>3. loadedInstructions = <<>> /\ loadedOutputs = <<>> /\ d \in Dims
    BY <1>1, <1>2, ProgramNumbers DEF ProgramInv, Dims
<1>4. HeaderInv'
    BY <1>1, <1>2, <1>3 DEF HeaderInv, LoadPhases, ProgramInv
<1>5. InstructionsAreValid'
  <2>1. definedSlots = WrittenBefore(Len(loadedInstructions) + 1)
      BY DEF ProgramInv, InstructionsAreValid
  <2>2. Len(loadedInstructions) = 0 /\ d.instructions \in Nat
      BY <1>3 DEF Dims
  <2> QED BY <1>1, <1>2, <1>3, <2>1, <2>2 DEF InstructionsAreValid, WrittenBefore
<1>6. RowsAreOrdered'
  <2>1. Len(loadedOutputs) = 0 /\ d.outputs \in Nat
      BY <1>3 DEF Dims
  <2> QED BY <1>1, <1>2, <1>3, <2>1 DEF RowsAreOrdered
<1>7. CostsAreMetered'
    BY <1>2, CostsStay DEF ProgramInv
<1> QED BY <1>1, <1>2, <1>4, <1>5, <1>6, <1>7 DEF ProgramInv

\* A refusal leaves what was read as it was.
LEMMA RefusalKeeps ==
    ASSUME ProgramInv, loadPhase' = "refused", loadPhase \notin {"loaded", "done"},
           UNCHANGED <<loadedDims, loadedInstructions, loadedOutputs, definedSlots, meteredCost, loadedRun>>
    PROVE  ProgramInv'
<1>1. HeaderInv'
    BY DEF ProgramInv, HeaderInv, LoadPhases
<1>2. InstructionsAreValid' /\ RowsAreOrdered'
    BY DEF ProgramInv, InstructionsAreValid, WrittenBefore, RowsAreOrdered
<1>3. CostsAreMetered'
    BY CostsStay DEF ProgramInv
<1> QED BY <1>1, <1>2, <1>3 DEF ProgramInv

\* The costs with those of one more instruction.
LEMMA MeterAfter ==
    ASSUME loadedInstructions \in Seq(StoredRecords), meteredCost \in Nat,
           NEW costs, IsMeter(costs), NEW r \in StoredRecords,
           loadedInstructions' = Append(loadedInstructions, r),
           meteredCost' = meteredCost + CostOf(r)
    PROVE  CostsAreMetered'
<1> DEFINE n == Len(loadedInstructions)
<1>1. n \in Nat /\ CostOf(r) \in Nat
    BY CostIsNumber
<1>2. /\ Len(loadedInstructions') = n + 1
      /\ \A i \in 1..n : loadedInstructions'[i] = loadedInstructions[i]
      /\ loadedInstructions'[n + 1] = r
    BY <1>1
<1>3. /\ costs \in [0..n -> Nat] /\ costs[0] = 0 /\ costs[n] = meteredCost
      /\ \A i \in 1..n : costs[i] = costs[i - 1] + CostOf(loadedInstructions[i])
      /\ \A i \in 0..n : costs[i] <= meteredCost
    BY DEF IsMeter
<1> HIDE DEF n
<1>4. PICK after : after = [i \in 0..(n + 1) |-> IF i <= n THEN costs[i] ELSE meteredCost + CostOf(r)]
    OBVIOUS
<1>5. /\ after \in [0..(n + 1) -> Nat]
      /\ \A i \in 0..n : after[i] = costs[i]
      /\ after[n + 1] = meteredCost + CostOf(r)
    BY <1>1, <1>3, <1>4
<1>6. \A i \in 0..(n + 1) : after[i] <= meteredCost'
  <2> SUFFICES ASSUME NEW i \in 0..(n + 1) PROVE after[i] <= meteredCost'
      OBVIOUS
  <2>1. CASE i \in 0..n
    <3>1. costs[i] \in Nat /\ costs[i] <= meteredCost /\ after[i] = costs[i]
        BY <1>3, <1>5, <2>1
    <3> QED BY <1>1, <3>1
  <2>2. CASE i = n + 1
      BY <1>1, <1>5, <2>2
  <2>3. i \in 0..n \/ i = n + 1
      BY <1>1
  <2> QED BY <2>1, <2>2, <2>3
<1>7. \A i \in 1..(n + 1) : after[i] = after[i - 1] + CostOf(loadedInstructions'[i])
  <2> SUFFICES ASSUME NEW i \in 1..(n + 1)
               PROVE  after[i] = after[i - 1] + CostOf(loadedInstructions'[i])
      OBVIOUS
  <2>1. CASE i \in 1..n
    <3>1. i \in 0..n /\ i - 1 \in 0..n
        BY <1>1, <2>1
    <3>2. after[i] = costs[i] /\ after[i - 1] = costs[i - 1]
        BY <1>5, <3>1
    <3> QED BY <1>2, <1>3, <2>1, <3>2
  <2>2. CASE i = n + 1
    <3>1. n \in 0..n /\ i - 1 = n
        BY <1>1, <2>2
    <3>2. after[i] = meteredCost + CostOf(r) /\ after[i - 1] = costs[n]
        BY <1>5, <2>2, <3>1
    <3> QED BY <1>2, <1>3, <2>2, <3>2
  <2>3. i \in 1..n \/ i = n + 1
      BY <1>1
  <2> QED BY <2>1, <2>2, <2>3
<1>8. \A q : CostOf(q)' = CostOf(q)
    BY DEF CostOf
<1>9. after[0] = 0
    BY <1>1, <1>3, <1>5
<1>10. IsMeter(after)'
    BY <1>2, <1>5, <1>6, <1>7, <1>8, <1>9 DEF IsMeter
<1> QED BY <1>10 DEF CostsAreMetered

\* An instruction is checked against what the earlier ones write, and metered.
LEMMA ReadInstructionStep == ASSUME ProgramInv, ReadInstruction PROVE ProgramInv'
<1>0. PICK n \in Nat : n = Len(loadedInstructions)
    BY DEF ProgramInv, InstructionsAreValid
<1>1. PICK r \in StoredRecords :
        IF InstructionIsValid(loadedDims, r, definedSlots) /\ WithinBudget(meteredCost + CostOf(r))
        THEN /\ loadedInstructions' = Append(loadedInstructions, r)
             /\ definedSlots' = definedSlots \cup {r.destination}
             /\ meteredCost' = meteredCost + CostOf(r)
             /\ loadPhase' = IF Len(loadedInstructions') = loadedDims.instructions
                             THEN "outputs" ELSE loadPhase
        ELSE loadPhase' = "refused" /\ UNCHANGED <<loadedInstructions, definedSlots, meteredCost>>
    BY DEF ReadInstruction, StoredRecords
<1>2. /\ loadPhase = "instructions" /\ n < loadedDims.instructions
      /\ loadedDims' = loadedDims /\ loadedOutputs' = loadedOutputs /\ loadedRun' = loadedRun
      /\ loadedRun = FreshRun
    BY <1>0 DEF ReadInstruction, ProgramInv
<1>3. CASE loadPhase' = "refused" /\ UNCHANGED <<loadedInstructions, definedSlots, meteredCost>>
    BY <1>2, <1>3, RefusalKeeps
<1>4. CASE InstructionIsValid(loadedDims, r, definedSlots) /\ WithinBudget(meteredCost + CostOf(r))
  <2>1. /\ loadedInstructions' = Append(loadedInstructions, r)
        /\ definedSlots' = definedSlots \cup {r.destination}
        /\ meteredCost' = meteredCost + CostOf(r)
        /\ loadPhase' = IF Len(loadedInstructions') = loadedDims.instructions
                        THEN "outputs" ELSE "instructions"
      BY <1>1, <1>2, <1>4
  <2>2. /\ loadedInstructions \in Seq(StoredRecords) /\ n \in Nat /\ loadedDims.instructions \in Nat
        /\ definedSlots = WrittenBefore(n + 1) /\ meteredCost \in Nat
        /\ \A i \in 1..n : InstructionIsValid(loadedDims, loadedInstructions[i], WrittenBefore(i))
      BY <1>0 DEF ProgramInv, HeaderInv, InstructionsAreValid, Dims
  <2>3. /\ Len(loadedInstructions') = n + 1 /\ loadedInstructions' \in Seq(StoredRecords)
        /\ \A i \in 1..n : loadedInstructions'[i] = loadedInstructions[i]
        /\ loadedInstructions'[n + 1] = r
      BY <1>0, <2>1, <2>2
  <2>4. \A i \in 1..(n + 1) : WrittenBefore(i)' = WrittenBefore(i)
      BY <2>2, <2>3 DEF WrittenBefore
  <2>5. WrittenBefore(n + 2)' = WrittenBefore(n + 1) \cup {r.destination}
    <3>1. WrittenBefore(n + 2)' = {loadedInstructions'[j].destination : j \in 1..(n + 1)}
        BY <2>2 DEF WrittenBefore
    <3>2. WrittenBefore(n + 1) = {loadedInstructions[j].destination : j \in 1..n}
        BY <2>2 DEF WrittenBefore
    <3>3. 1..(n + 1) = 1..n \cup {n + 1}
        BY <2>2
    <3> QED BY <2>3, <3>1, <3>2, <3>3
  <2>6. InstructionsAreValid'
    <3>1. \A i \in 1..(n + 1) :
            InstructionIsValid(loadedDims, loadedInstructions'[i], WrittenBefore(i)')
      <4> SUFFICES ASSUME NEW i \in 1..(n + 1)
                   PROVE  InstructionIsValid(loadedDims, loadedInstructions'[i], WrittenBefore(i)')
          OBVIOUS
      <4>1. CASE i \in 1..n
          BY <2>2, <2>3, <2>4, <4>1
      <4>2. CASE i = n + 1
          BY <1>4, <2>2, <2>3, <2>4, <4>2
      <4> QED BY <2>2, <4>1, <4>2
    <3>2. n + 1 + 1 = n + 2 /\ n + 1 <= loadedDims.instructions
        BY <1>2, <2>2
    <3>3. definedSlots' = WrittenBefore(n + 2)'
        BY <2>1, <2>2, <2>5
    <3>4. \A i : InstructionIsValid(loadedDims, loadedInstructions[i], WrittenBefore(i))' <=>
                 InstructionIsValid(loadedDims, loadedInstructions'[i], WrittenBefore(i)')
        BY <1>2 DEF InstructionIsValid, OperandsAreInBounds, ReadsWrittenSlots, SlotsRead
    <3> QED BY <1>2, <2>3, <3>1, <3>2, <3>3, <3>4 DEF InstructionsAreValid
  <2>7. HeaderInv'
    <3>1. meteredCost' \in Nat /\ meteredCost' <= Budget
        BY <1>4, <2>1, <2>2, CostIsNumber DEF WithinBudget
    <3>2. loadPhase' = "outputs" => Len(loadedInstructions') = loadedDims.instructions
        BY <2>1
    <3> QED BY <1>2, <2>1, <3>1, <3>2 DEF ProgramInv, HeaderInv, LoadPhases
  <2>8. RowsAreOrdered'
      BY <1>2 DEF ProgramInv, RowsAreOrdered
  <2>9. CostsAreMetered'
    <3>1. PICK costs : IsMeter(costs)
        BY DEF ProgramInv, CostsAreMetered
    <3> QED BY <2>1, <2>2, <3>1, MeterAfter
  <2> QED BY <1>2, <2>1, <2>6, <2>7, <2>8, <2>9 DEF ProgramInv
<1> QED BY <1>1, <1>3, <1>4

\* Rows are read in order, and each names an instruction.
LEMMA ReadOutputStep == ASSUME ProgramInv, ReadOutput PROVE ProgramInv'
<1>0. PICK n \in Nat : n = Len(loadedOutputs)
    BY DEF ProgramInv, RowsAreOrdered
<1>1. PICK row \in [node : Bytes, signal : Bytes] :
        IF OutputIsValid(loadedDims, row, RowsOf(loadedOutputs))
        THEN loadedOutputs' = Append(loadedOutputs, row) /\ loadPhase' = loadPhase
        ELSE loadPhase' = "refused" /\ UNCHANGED loadedOutputs
    BY DEF ReadOutput
<1>2. /\ loadPhase = "outputs" /\ n < loadedDims.outputs
      /\ loadedDims' = loadedDims /\ loadedInstructions' = loadedInstructions
      /\ definedSlots' = definedSlots /\ meteredCost' = meteredCost /\ loadedRun' = loadedRun
      /\ loadedRun = FreshRun
    BY <1>0 DEF ReadOutput, ProgramInv
<1>3. CASE loadPhase' = "refused" /\ UNCHANGED loadedOutputs
    BY <1>2, <1>3, RefusalKeeps
<1>4. CASE OutputIsValid(loadedDims, row, RowsOf(loadedOutputs))
  <2>1. loadedOutputs' = Append(loadedOutputs, row) /\ loadPhase' = loadPhase
      BY <1>1, <1>4
  <2>2. /\ loadedOutputs \in Seq(TableRows) /\ n \in Nat /\ loadedDims.outputs \in Nat
        /\ \A k \in 1..n : loadedOutputs[k].node < loadedDims.instructions
        /\ \A j, k \in 1..n : j < k => loadedOutputs[j].node <= loadedOutputs[k].node
      BY <1>0 DEF ProgramInv, HeaderInv, RowsAreOrdered, Dims
  <2>3. row \in TableRows
      BY ProgramNumbers DEF TableRows
  <2>4. /\ Len(loadedOutputs') = n + 1 /\ loadedOutputs' \in Seq(TableRows)
        /\ \A k \in 1..n : loadedOutputs'[k] = loadedOutputs[k]
        /\ loadedOutputs'[n + 1] = row
      BY <1>0, <2>1, <2>2, <2>3
  <2>5. row.node < loadedDims.instructions
      BY <1>4 DEF OutputIsValid
  <2>6. \A j \in 1..n : loadedOutputs[j].node <= row.node
    <3> SUFFICES ASSUME NEW j \in 1..n PROVE loadedOutputs[j].node <= row.node
        OBVIOUS
    <3>1. loadedOutputs[j] \in RowsOf(loadedOutputs) /\ loadedOutputs[j] \in TableRows
        BY <1>0, <2>2 DEF RowsOf
    <3>2. RowPrecedes(loadedOutputs[j], row)
        BY <1>4, <3>1 DEF OutputIsValid
    <3> QED BY <2>3, <3>1, <3>2 DEF RowPrecedes, TableRows
  <2>7. RowsAreOrdered'
    <3>1. \A k \in 1..(n + 1) : loadedOutputs'[k].node < loadedDims.instructions
      <4> SUFFICES ASSUME NEW k \in 1..(n + 1) PROVE loadedOutputs'[k].node < loadedDims.instructions
          OBVIOUS
      <4>1. CASE k \in 1..n
          BY <2>2, <2>4, <4>1
      <4>2. CASE k = n + 1
          BY <2>4, <2>5, <4>2
      <4> QED BY <2>2, <4>1, <4>2
    <3>2. \A j, k \in 1..(n + 1) : j < k => loadedOutputs'[j].node <= loadedOutputs'[k].node
      <4> SUFFICES ASSUME NEW j \in 1..(n + 1), NEW k \in 1..(n + 1), j < k
                   PROVE  loadedOutputs'[j].node <= loadedOutputs'[k].node
          OBVIOUS
      <4>1. j \in 1..n /\ (k \in 1..n \/ k = n + 1)
          BY <2>2
      <4>2. CASE k \in 1..n
          BY <2>2, <2>4, <4>1, <4>2
      <4>3. CASE k = n + 1
          BY <2>4, <2>6, <4>1, <4>3
      <4> QED BY <4>1, <4>2, <4>3
    <3>3. n + 1 <= loadedDims.outputs
        BY <1>2, <2>2
    <3> QED BY <1>2, <2>4, <3>1, <3>2, <3>3 DEF RowsAreOrdered
  <2>8. HeaderInv'
      BY <1>2, <2>1 DEF ProgramInv, HeaderInv
  <2>9. InstructionsAreValid'
      BY <1>2 DEF ProgramInv, InstructionsAreValid, WrittenBefore
  <2>10. CostsAreMetered'
      BY <1>2, CostsStay DEF ProgramInv
  <2> QED BY <1>2, <2>1, <2>7, <2>8, <2>9, <2>10 DEF ProgramInv
<1> QED BY <1>1, <1>3, <1>4

\* A program is loaded once its table is complete.
LEMMA FinishReadingStep == ASSUME ProgramInv, FinishReading PROVE ProgramInv'
<1>1. /\ loadPhase = "outputs" /\ Len(loadedOutputs) = loadedDims.outputs
      /\ loadPhase' \in {"loaded", "refused"}
      /\ loadPhase' = "loaded" => OutputsAreComplete(loadedDims, RowsOf(loadedOutputs))
      /\ UNCHANGED <<loadedDims, loadedInstructions, loadedOutputs, definedSlots, meteredCost, loadedRun>>
    BY DEF FinishReading
<1>2. CASE loadPhase' = "refused"
    BY <1>1, <1>2, RefusalKeeps
<1>3. CASE loadPhase' = "loaded"
  <2>1. HeaderInv'
      BY <1>1, <1>3 DEF ProgramInv, HeaderInv, LoadPhases, OutputsAreComplete, RowsOf
  <2>2. InstructionsAreValid' /\ RowsAreOrdered'
      BY <1>1 DEF ProgramInv, InstructionsAreValid, WrittenBefore, RowsAreOrdered
  <2>3. CostsAreMetered'
      BY <1>1, CostsStay DEF ProgramInv
  <2>4. RunHasCome(loadedRun)'
    <3>1. PICK costs : IsMeter(costs)
        BY DEF ProgramInv, CostsAreMetered
    <3>2. RunHasCome(FreshRun)
        BY <3>1, FreshHasCome DEF ProgramInv, InstructionsAreValid
    <3>3. PICK run : run = FreshRun
        OBVIOUS
    <3>4. loadedRun' = run /\ RunHasCome(run)
        BY <1>1, <3>2, <3>3 DEF ProgramInv
    <3> QED BY <1>1, <3>4, RunStays
  <2> QED BY <1>1, <1>3, <2>1, <2>2, <2>3, <2>4 DEF ProgramInv
<1> QED BY <1>1, <1>2, <1>3

\* The outputs of a node are the rows up to some row of the table.
LEMMA DueFacts ==
    ASSUME NEW run, RowsAreOrdered, run.output \in 0..Len(loadedOutputs), run.index \in Nat,
           \A k \in (run.output + 1)..Len(loadedOutputs) : loadedOutputs[k].node >= run.index
    PROVE  \E end \in run.output..Len(loadedOutputs) :
              /\ Cardinality(DueOutputs(run)) = end - run.output
              /\ \A k \in (run.output + 1)..end : loadedOutputs[k].node = run.index
              /\ \A k \in (end + 1)..Len(loadedOutputs) : loadedOutputs[k].node >= run.index + 1
<1> DEFINE n == Len(loadedOutputs)
           first == run.output
           index == run.index
           others == {k \in first..(n - 1) : loadedOutputs[k + 1].node # index}
           end == IF others = {} THEN n ELSE Min(others)
<1>1. /\ n \in Nat /\ first \in 0..n /\ index \in Nat
      /\ \A k \in 1..n : loadedOutputs[k].node \in Nat
      /\ \A j, k \in 1..n : j < k => loadedOutputs[j].node <= loadedOutputs[k].node
      /\ \A k \in (first + 1)..n : loadedOutputs[k].node >= index
    BY RowNumbers DEF RowsAreOrdered
<1>2. DueOutputs(run) = {k \in first..(n - 1) : \A j \in first..k : loadedOutputs[j + 1].node = index}
    BY DEF DueOutputs, At
<1> HIDE DEF n, first, index
<1>3. /\ end \in first..n
      /\ \A k \in first..(end - 1) : loadedOutputs[k + 1].node = index
      /\ end < n => loadedOutputs[end + 1].node # index
  <2>1. CASE others = {}
    <3>1. end = n
        BY <2>1
    <3>2. \A k \in first..(n - 1) : loadedOutputs[k + 1].node = index
        BY <2>1
    <3> HIDE DEF end, others
    <3>3. end \in first..n /\ ~(end < n)
        BY <1>1, <3>1
    <3> QED BY <3>1, <3>2, <3>3
  <2>2. CASE others # {}
    <3>1. others \subseteq Nat
        BY <1>1
    <3>2. Min(others) \in others /\ \A x \in others : Min(others) <= x
        BY <2>2, <3>1, LeastNumber
    <3> DEFINE least == Min(others)
    <3>3. least \in first..(n - 1) /\ loadedOutputs[least + 1].node # index
        BY <3>2
    <3>4. \A k \in first..(n - 1) : loadedOutputs[k + 1].node # index => least <= k
        BY <3>2
    <3>5. end = least
        BY <2>2
    <3> HIDE DEF end, least, others
    <3>6. ASSUME NEW k \in first..(end - 1) PROVE loadedOutputs[k + 1].node = index
      <4>1. k \in first..(n - 1) /\ ~(least <= k)
          BY <1>1, <3>3, <3>5
      <4> QED BY <3>4, <4>1
    <3>7. end \in first..n /\ loadedOutputs[end + 1].node # index
        BY <1>1, <3>3, <3>5
    <3> QED BY <3>6, <3>7
  <2> QED BY <2>1, <2>2
<1> HIDE DEF end, others
<1>4. end \in Nat /\ end - 1 \in Int
    BY <1>1, <1>3
<1>5. DueOutputs(run) = first..(end - 1)
  <2>1. ASSUME NEW k \in first..(end - 1) PROVE k \in DueOutputs(run)
    <3>1. k \in first..(n - 1) /\ \A j \in first..k : j \in first..(end - 1)
        BY <1>1, <1>3, <1>4
    <3> QED BY <1>2, <1>3, <3>1
  <2>2. ASSUME NEW k \in DueOutputs(run) PROVE k \in first..(end - 1)
    <3>1. k \in first..(n - 1) /\ \A j \in first..k : loadedOutputs[j + 1].node = index
        BY <1>2
    <3>2. ~(end <= k)
      <4> SUFFICES ASSUME end <= k PROVE FALSE
          OBVIOUS
      <4>1. end \in first..k /\ end < n
          BY <1>1, <1>3, <1>4, <3>1
      <4> QED BY <1>3, <3>1, <4>1
    <3> QED BY <1>1, <1>4, <3>1, <3>2
  <2> QED BY <2>1, <2>2
<1>6. Cardinality(DueOutputs(run)) = end - first
  <2>1. first \in Int /\ end - 1 \in Int
      BY <1>1, <1>4
  <2>2. Cardinality(first..(end - 1)) = IF first > end - 1 THEN 0 ELSE (end - 1) - first + 1
      BY <2>1, FS_Interval
  <2> QED BY <1>1, <1>3, <1>4, <1>5, <2>2
<1>7. ASSUME NEW k \in (first + 1)..end PROVE loadedOutputs[k].node = index
  <2>1. k - 1 \in first..(end - 1) /\ (k - 1) + 1 = k
      BY <1>1, <1>4
  <2> QED BY <1>3, <2>1
<1>8. ASSUME NEW k \in (end + 1)..n PROVE loadedOutputs[k].node >= index + 1
  <2>1. end + 1 \in 1..n /\ end + 1 \in (first + 1)..n /\ k \in 1..n /\ end + 1 <= k /\ end < n
      BY <1>1, <1>3, <1>4
  <2>2. loadedOutputs[end + 1].node >= index /\ loadedOutputs[end + 1].node # index
      BY <1>1, <1>3, <2>1
  <2>3. loadedOutputs[end + 1].node <= loadedOutputs[k].node
    <3>1. CASE end + 1 = k
        BY <1>1, <2>1, <3>1
    <3>2. CASE end + 1 < k
        BY <1>1, <2>1, <3>2
    <3> QED BY <1>1, <2>1, <3>1, <3>2, <1>4
  <2>4. loadedOutputs[end + 1].node \in Nat /\ loadedOutputs[k].node \in Nat
      BY <1>1, <2>1
  <2> QED BY <1>1, <2>2, <2>3, <2>4
<1>9. end \in run.output..Len(loadedOutputs)
    BY <1>3 DEF first, n
<1> QED BY <1>6, <1>7, <1>8, <1>9 DEF first, n, index

\* A stopped run is where it was.
LEMMA StoppedHasCome ==
    ASSUME NEW run, RunHasCome(run), NEW error,
           error \notin {"CompiledIndex", "read an unwritten slot"}
    PROVE  RunHasCome(Stopped(run, error))
<1> DEFINE stopped == Stopped(run, error)
<1>1. /\ stopped = Run(run.index, run.output, run.written, run.assigned, run.cost, error)
      /\ stopped.index = run.index /\ stopped.output = run.output /\ stopped.written = run.written
      /\ stopped.assigned = run.assigned /\ stopped.cost = run.cost /\ stopped.error = error
    BY DEF Stopped, Run
<1> HIDE DEF stopped
<1>2. RunHasCome(stopped)
    BY <1>1 DEF RunHasCome
<1> QED BY <1>2 DEF stopped

\* What a valid instruction reads was written, and lies in bounds.
LEMMA ValidInstruction ==
    ASSUME loadedDims \in Dims, NEW r \in StoredRecords, NEW written,
           InstructionIsValid(loadedDims, r, written)
    PROVE  /\ SlotsRead(r) \subseteq written /\ SlotsRead(r) \subseteq 0..(loadedDims.slots - 1)
           /\ r.kind = 0 => r.left < loadedDims.inputs
           /\ r.kind = 1 => r.left < loadedDims.constants
<1>1. OperandsAreInBounds(loadedDims, r) /\ SlotsRead(r) \subseteq written
    BY DEF InstructionIsValid, ReadsWrittenSlots
<1>2. /\ r.left \in Nat /\ r.right \in Nat /\ loadedDims.slots \in Nat
      /\ loadedDims.inputs \in Nat /\ loadedDims.constants \in Nat
    BY ProgramNumbers DEF StoredRecords, Dims
<1>3. /\ r.kind = 0 => r.left < loadedDims.inputs
      /\ r.kind = 1 => r.left < loadedDims.constants
      /\ r.kind = 2 => r.left < loadedDims.slots
      /\ r.kind = 3 => r.left < loadedDims.slots /\ r.right < loadedDims.slots
    BY <1>1 DEF OperandsAreInBounds
<1>4. /\ r.kind = 2 => SlotsRead(r) = {r.left}
      /\ r.kind = 3 => SlotsRead(r) = {r.left, r.right}
      /\ r.kind # 2 /\ r.kind # 3 => SlotsRead(r) = {}
    BY DEF SlotsRead
<1>5. SlotsRead(r) \subseteq 0..(loadedDims.slots - 1)
  <2>1. CASE r.kind = 2
      BY <1>2, <1>3, <1>4, <2>1
  <2>2. CASE r.kind = 3
      BY <1>2, <1>3, <1>4, <2>2
  <2>3. CASE r.kind # 2 /\ r.kind # 3
      BY <1>4, <2>3
  <2> QED BY <2>1, <2>2, <2>3
<1> QED BY <1>1, <1>3, <1>5

\* An instruction of a loaded program is evaluated, or divides by zero.
LEMMA StepHasCome ==
    ASSUME HeaderInv, InstructionsAreValid, RowsAreOrdered,
           NEW run, RunHasCome(run), run.index < Len(loadedInstructions), NEW divides \in BOOLEAN
    PROVE  RunHasCome(StepOf(run, At(loadedInstructions, run.index), divides))
<1>1. PICK index, first, length, n, written, taken, cost :
        /\ index = run.index /\ first = run.output /\ length = Len(loadedOutputs)
        /\ n = Len(loadedInstructions) /\ written = run.written /\ taken = run.assigned
        /\ cost = run.cost
    OBVIOUS
<1>2. /\ n \in Nat /\ index \in 0..n /\ index < n /\ first \in 0..length /\ length \in Nat
      /\ written = WrittenBefore(index + 1)
      /\ taken \in Seq(TableRows) /\ Len(taken) = first
      /\ \A k \in 1..first : taken[k] = loadedOutputs[k]
      /\ \A k \in (first + 1)..length : loadedOutputs[k].node >= index
  <2>1. n \in Nat /\ length \in Nat /\ index < n
      BY <1>1 DEF InstructionsAreValid, RowsAreOrdered
  <2>2. index \in 0..n /\ first \in 0..length
      BY <1>1 DEF RunHasCome
  <2>3. written = WrittenBefore(index + 1)
      BY <1>1 DEF RunHasCome
  <2>4. taken \in Seq(TableRows) /\ Len(taken) = first
      BY <1>1 DEF RunHasCome
  <2>5. \A k \in 1..first : taken[k] = loadedOutputs[k]
      BY <1>1 DEF RunHasCome
  <2>6. \A k \in (first + 1)..length : loadedOutputs[k].node >= index
      BY <1>1 DEF RunHasCome
  <2> QED BY <2>1, <2>2, <2>3, <2>4, <2>5, <2>6
<1>3. PICK r : r = At(loadedInstructions, index)
    OBVIOUS
<1>4. index + 1 \in 1..n /\ index + 1 \in 0..n /\ (index + 1) - 1 = index /\ (index + 1) + 1 = index + 2
    BY <1>2
<1>5. /\ r = loadedInstructions[index + 1] /\ r \in StoredRecords
      /\ InstructionIsValid(loadedDims, r, written)
    BY <1>1, <1>2, <1>3, <1>4 DEF At, InstructionsAreValid
<1>6. /\ SlotsRead(r) \subseteq written /\ SlotsRead(r) \subseteq 0..(loadedDims.slots - 1)
      /\ r.kind = 0 => r.left < loadedDims.inputs
      /\ r.kind = 1 => r.left < loadedDims.constants
    BY <1>5, ValidInstruction DEF HeaderInv
<1>7. PICK next : next = StepOf(run, r, divides)
    OBVIOUS
<1>8. CASE r.kind = 3 /\ ~divides
  <2>1. next = Stopped(run, "DivisionByZero")
      BY <1>1, <1>6, <1>7, <1>8 DEF StepOf
  <2>2. PICK error : error = "DivisionByZero"
      OBVIOUS
  <2>3. RunHasCome(Stopped(run, error))
      BY <2>2, StoppedHasCome
  <2> QED BY <1>1, <1>3, <1>7, <2>1, <2>2, <2>3
<1>9. CASE ~(r.kind = 3 /\ ~divides)
  <2>1. PICK due : due = Cardinality(DueOutputs(run))
      OBVIOUS
  <2>2. PICK rows : rows = [k \in 1..due |-> [node |-> index, signal |-> loadedOutputs[first + k].signal]]
      OBVIOUS
  <2>3. next = Run(index + 1, first + due, written \cup {r.destination}, taken \o rows,
                   cost + CostOf(r), "none")
      BY <1>1, <1>6, <1>7, <1>9, <2>1, <2>2 DEF StepOf
  <2>4. PICK end \in first..length :
            /\ due = end - first
            /\ \A k \in (first + 1)..end : loadedOutputs[k].node = index
            /\ \A k \in (end + 1)..length : loadedOutputs[k].node >= index + 1
    <3>1. /\ run.output \in 0..Len(loadedOutputs) /\ run.index \in Nat
          /\ \A k \in (run.output + 1)..Len(loadedOutputs) : loadedOutputs[k].node >= run.index
        BY <1>1, <1>2
    <3> QED BY <1>1, <2>1, <3>1, DueFacts
  <2>5. due \in Nat /\ first + due = end /\ end \in Nat /\ end \in 0..length /\ first \in Nat
      BY <1>2, <2>4
  <2>6. \A k \in 1..due : rows[k] \in TableRows /\ rows[k] = loadedOutputs[first + k]
    <3> SUFFICES ASSUME NEW k \in 1..due
                 PROVE  rows[k] \in TableRows /\ rows[k] = loadedOutputs[first + k]
        OBVIOUS
    <3>1. first + k \in 1..length /\ first + k \in (first + 1)..end
        BY <1>2, <2>4, <2>5
    <3>2. PICK row : row = loadedOutputs[first + k]
        OBVIOUS
    <3>3. row \in TableRows /\ row.node = index
        BY <1>1, <2>4, <3>1, <3>2 DEF RowsAreOrdered
    <3>4. row = [node |-> index, signal |-> row.signal]
        BY <3>3 DEF TableRows
    <3> QED BY <2>2, <3>2, <3>3, <3>4
  <2>7. rows \in Seq(TableRows) /\ Len(rows) = due
    <3>1. rows \in [1..due -> TableRows]
        BY <2>2, <2>6
    <3> QED BY <2>5, <3>1
  <2>8. PICK assigned : assigned = taken \o rows
      OBVIOUS
  <2>9. /\ assigned \in Seq(TableRows) /\ Len(assigned) = end
        /\ \A k \in 1..end : assigned[k] = IF k <= first THEN taken[k] ELSE rows[k - first]
    <3>1. taken \in Seq(TableRows) /\ rows \in Seq(TableRows) /\ Len(taken) = first /\ Len(rows) = due
        BY <1>2, <2>7
    <3>2. /\ assigned \in Seq(TableRows) /\ Len(assigned) = Len(taken) + Len(rows)
          /\ \A k \in 1..(Len(taken) + Len(rows)) :
                assigned[k] = IF k <= Len(taken) THEN taken[k] ELSE rows[k - Len(taken)]
        BY <2>8, <3>1, ConcatProperties, Zenon
    <3>3. Len(taken) + Len(rows) = end
        BY <2>5, <3>1
    <3> QED BY <3>1, <3>2, <3>3
  <2>10. \A k \in 1..end : assigned[k] = loadedOutputs[k]
    <3> SUFFICES ASSUME NEW k \in 1..end PROVE assigned[k] = loadedOutputs[k]
        OBVIOUS
    <3>1. CASE k <= first
      <4>1. k \in 1..first
          BY <2>5, <3>1
      <4> QED BY <1>2, <2>9, <3>1, <4>1
    <3>2. CASE ~(k <= first)
      <4>1. k - first \in 1..due /\ first + (k - first) = k
          BY <2>5, <3>2
      <4> QED BY <2>6, <2>9, <3>2, <4>1
    <3> QED BY <3>1, <3>2
  <2>11. PICK after : after = written \cup {r.destination}
      OBVIOUS
  <2>12. after = WrittenBefore((index + 1) + 1)
    <3>1. WrittenBefore((index + 1) + 1) = {loadedInstructions[j].destination : j \in 1..(index + 1)}
        BY <1>2 DEF WrittenBefore
    <3>2. written = {loadedInstructions[j].destination : j \in 1..index}
        BY <1>2 DEF WrittenBefore
    <3>3. 1..(index + 1) = 1..index \cup {index + 1}
        BY <1>2
    <3> QED BY <1>5, <2>11, <3>1, <3>2, <3>3
  <2>13. PICK costs : IsMeter(costs) /\ cost = costs[index]
      BY <1>1 DEF RunHasCome
  <2>14. PICK spent : spent = cost + CostOf(r)
      OBVIOUS
  <2>15. spent = costs[index + 1]
    <3>1. costs[index + 1] = costs[(index + 1) - 1] + CostOf(loadedInstructions[index + 1])
        BY <1>1, <1>4, <2>13 DEF IsMeter
    <3> QED BY <1>4, <1>5, <2>13, <2>14, <3>1
  <2>16. PICK quiet, begun : quiet = "none" /\ begun = index + 1
      OBVIOUS
  <2>17. quiet \notin {"CompiledIndex", "read an unwritten slot"}
      BY <2>16
  <2>18. begun \in 0..Len(loadedInstructions) /\ end \in 0..Len(loadedOutputs)
      BY <1>1, <1>4, <2>5, <2>16
  <2>19. /\ \A k \in (end + 1)..Len(loadedOutputs) : loadedOutputs[k].node >= begun
         /\ spent = costs[begun] /\ after = WrittenBefore(begun + 1)
      BY <1>1, <2>4, <2>12, <2>15, <2>16
  <2>20. RunHasCome(Run(begun, end, after, assigned, spent, quiet))
      BY <2>9, <2>10, <2>13, <2>17, <2>18, <2>19, RunFromParts
  <2>21. next = Run(begun, end, after, assigned, spent, quiet)
      BY <2>3, <2>5, <2>8, <2>11, <2>14, <2>16
  <2> QED BY <1>1, <1>3, <1>7, <2>20, <2>21
<1> QED BY <1>8, <1>9

\* What was read and metered is so after a step that reads nothing more.
LEMMA ReadingStays ==
    ASSUME ProgramInv, loadPhase = "loaded", loadPhase' \in {"loaded", "done"},
           UNCHANGED <<loadedDims, loadedInstructions, loadedOutputs, definedSlots, meteredCost>>
    PROVE  HeaderInv' /\ InstructionsAreValid' /\ RowsAreOrdered' /\ CostsAreMetered'
<1>1. HeaderInv'
    BY DEF ProgramInv, HeaderInv, LoadPhases, OutputsAreComplete, RowsOf
<1>2. InstructionsAreValid' /\ RowsAreOrdered'
    BY DEF ProgramInv, InstructionsAreValid, WrittenBefore, RowsAreOrdered
<1>3. CostsAreMetered'
    BY CostsStay DEF ProgramInv
<1> QED BY <1>1, <1>2, <1>3

\* The evaluation of a loaded program goes on.
LEMMA EvaluateInstructionStep == ASSUME ProgramInv, EvaluateInstruction PROVE ProgramInv'
<1>1. PICK divides \in BOOLEAN :
        loadedRun' = StepOf(loadedRun, At(loadedInstructions, loadedRun.index), divides)
    BY DEF EvaluateInstruction
<1>2. /\ loadPhase = "loaded" /\ loadPhase' = "loaded" /\ loadedRun.index < loadedDims.instructions
      /\ UNCHANGED <<loadedDims, loadedInstructions, loadedOutputs, definedSlots, meteredCost>>
    BY DEF EvaluateInstruction
<1>3. PICK run : run = loadedRun
    OBVIOUS
<1>4. RunHasCome(run) /\ run.index < Len(loadedInstructions)
    BY <1>2, <1>3 DEF ProgramInv, HeaderInv
<1>5. PICK next : next = StepOf(run, At(loadedInstructions, run.index), divides)
    OBVIOUS
<1>6. RunHasCome(next)
    BY <1>4, <1>5, StepHasCome DEF ProgramInv
<1>7. loadedRun' = next
    BY <1>1, <1>3, <1>5
<1>8. RunHasCome(loadedRun)'
    BY <1>2, <1>6, <1>7, RunStays
<1>9. HeaderInv' /\ InstructionsAreValid' /\ RowsAreOrdered' /\ CostsAreMetered'
    BY <1>2, ReadingStays
<1> QED BY <1>2, <1>8, <1>9 DEF ProgramInv

\* At its end a run has taken every row: none names a later instruction.
LEMMA EndedRunsHaveTheirRows ==
    ASSUME RowsAreOrdered, HeaderInv, NEW run, RunHasCome(run),
           run.index = loadedDims.instructions
    PROVE  run.output = Len(loadedOutputs)
<1>1. PICK first, length : first = run.output /\ length = Len(loadedOutputs)
    OBVIOUS
<1>2. /\ first \in 0..length /\ length \in Nat /\ loadedDims.instructions \in Nat
      /\ \A k \in (first + 1)..length : loadedOutputs[k].node >= loadedDims.instructions
      /\ \A k \in 1..length : loadedOutputs[k].node < loadedDims.instructions
      /\ \A k \in 1..length : loadedOutputs[k].node \in Nat
  <2>1. first \in 0..length
      BY <1>1 DEF RunHasCome
  <2>2. \A k \in (first + 1)..length : loadedOutputs[k].node >= loadedDims.instructions
      BY <1>1 DEF RunHasCome
  <2>3. loadedDims.instructions \in Nat
      BY DEF HeaderInv, Dims
  <2>4. \A k \in 1..length : loadedOutputs[k].node < loadedDims.instructions
      BY <1>1 DEF RowsAreOrdered
  <2>5. length \in Nat
      BY <1>1 DEF RowsAreOrdered
  <2> QED BY <1>1, <2>1, <2>2, <2>3, <2>4, <2>5, RowNumbers
<1>3. ~(first < length)
  <2> SUFFICES ASSUME first < length PROVE FALSE
      OBVIOUS
  <2>1. length \in (first + 1)..length /\ length \in 1..length
      BY <1>2
  <2> QED BY <1>2, <2>1
<1> QED BY <1>1, <1>2, <1>3

\* The evaluation ends.
LEMMA FinishEvaluationStep == ASSUME ProgramInv, FinishEvaluation PROVE ProgramInv'
<1>1. /\ loadPhase = "loaded" /\ loadPhase' = "done"
      /\ loadedRun.error # "none" \/ loadedRun.index = loadedDims.instructions
      /\ loadedRun' = IF loadedRun.error = "none" /\ loadedRun.output # Len(loadedOutputs)
                      THEN Stopped(loadedRun, "CompiledIndex") ELSE loadedRun
      /\ UNCHANGED <<loadedDims, loadedInstructions, loadedOutputs, definedSlots, meteredCost>>
    BY DEF FinishEvaluation
<1>2. PICK run : run = loadedRun
    OBVIOUS
<1>3. RunHasCome(run)
    BY <1>1, <1>2 DEF ProgramInv
<1>4. run.error = "none" => run.output = Len(loadedOutputs)
    BY <1>1, <1>2, <1>3, EndedRunsHaveTheirRows DEF ProgramInv
<1>5. loadedRun' = run
    BY <1>1, <1>2, <1>4
<1>6. RunHasCome(loadedRun)'
    BY <1>1, <1>3, <1>5, RunStays
<1>7. HeaderInv' /\ InstructionsAreValid' /\ RowsAreOrdered' /\ CostsAreMetered'
    BY <1>1, ReadingStays
<1>8. loadedRun'.error = "none" => loadedRun'.output = Len(loadedOutputs')
    BY <1>1, <1>4, <1>5
<1> QED BY <1>1, <1>6, <1>7, <1>8 DEF ProgramInv

\* Every step keeps the invariant.
LEMMA NextProgramInv == ProgramInv /\ [ProgramNext]_programVars => ProgramInv'
<1> SUFFICES ASSUME ProgramInv, [ProgramNext]_programVars PROVE ProgramInv'
    OBVIOUS
<1>1. CASE ProgramNext
    BY <1>1, ReadDimensionsStep, ReadInstructionStep, ReadOutputStep, FinishReadingStep,
       EvaluateInstructionStep, FinishEvaluationStep DEF ProgramNext
<1>2. CASE UNCHANGED programVars
  <2>1. /\ UNCHANGED <<loadedDims, loadedInstructions, loadedOutputs, definedSlots, meteredCost>>
        /\ loadPhase' = loadPhase /\ loadedRun' = loadedRun
      BY <1>2 DEF programVars
  <2>2. HeaderInv' /\ InstructionsAreValid' /\ RowsAreOrdered'
    <3>1. HeaderInv'
        BY <2>1 DEF ProgramInv, HeaderInv, OutputsAreComplete, RowsOf, DimensionsAreValid, ProgramSize
    <3>2. InstructionsAreValid'
        BY <2>1 DEF ProgramInv, InstructionsAreValid, WrittenBefore
    <3>3. RowsAreOrdered'
        BY <2>1 DEF ProgramInv, RowsAreOrdered
    <3> QED BY <3>1, <3>2, <3>3
  <2>3. CostsAreMetered'
      BY <2>1, CostsStay DEF ProgramInv
  <2>4. PICK run : run = loadedRun
      OBVIOUS
  <2>5. RunHasCome(run) => RunHasCome(loadedRun)'
      BY <2>1, <2>4, RunStays
  <2> QED BY <2>1, <2>2, <2>3, <2>4, <2>5 DEF ProgramInv
<1> QED BY <1>1, <1>2

\* The invariant is stronger than the checked property.
LEMMA ProgramInvIsProperty == ProgramInv => LoadedProgramsReadWhatTheyWrote
<1> SUFFICES ASSUME ProgramInv PROVE LoadedProgramsReadWhatTheyWrote
    OBVIOUS
<1>1. CASE loadPhase \notin {"loaded", "done"}
  <2>1. loadedRun.error = "none" /\ loadedRun.cost = 0
      BY <1>1 DEF ProgramInv, FreshRun, Run
  <2> QED BY <1>1, <2>1, ProgramNumbers
          DEF LoadedProgramsReadWhatTheyWrote, ProgramsStayInBounds, OnlyWrittenSlotsAreRead,
              EverySignalIsWrittenOnce, CalculationsStayInBudget
<1>2. CASE loadPhase \in {"loaded", "done"}
  <2>1. PICK run : run = loadedRun
      OBVIOUS
  <2>2. RunHasCome(run)
      BY <1>2, <2>1 DEF ProgramInv
  <2>3. ProgramsStayInBounds /\ OnlyWrittenSlotsAreRead
      BY <2>1, <2>2 DEF RunHasCome, ProgramsStayInBounds, OnlyWrittenSlotsAreRead
  <2>4. CalculationsStayInBudget
    <3>1. PICK costs : IsMeter(costs) /\ run.cost = costs[run.index]
        BY <2>2 DEF RunHasCome
    <3>2. run.index \in 0..Len(loadedInstructions)
        BY <2>2 DEF RunHasCome
    <3>3. costs[run.index] \in Nat /\ costs[run.index] <= meteredCost
        BY <3>1, <3>2 DEF IsMeter
    <3>4. meteredCost \in Nat /\ meteredCost <= Budget
        BY DEF ProgramInv, HeaderInv
    <3> QED BY <2>1, <3>1, <3>3, <3>4, ProgramNumbers DEF CalculationsStayInBudget
  <2>5. EverySignalIsWrittenOnce
    <3> SUFFICES ASSUME loadPhase = "done", loadedRun.error = "none"
                 PROVE  /\ Len(loadedRun.assigned) = loadedDims.signals
                        /\ {row.signal : row \in RowsOf(loadedRun.assigned)} = 0..(loadedDims.signals - 1)
                        /\ RowsOf(loadedRun.assigned) = RowsOf(loadedOutputs)
        BY DEF EverySignalIsWrittenOnce
    <3>1. PICK assigned, length : assigned = run.assigned /\ length = Len(loadedOutputs)
        OBVIOUS
    <3>2. /\ assigned \in Seq(TableRows) /\ Len(assigned) = length
          /\ \A k \in 1..length : assigned[k] = loadedOutputs[k]
          /\ loadedOutputs \in Seq(TableRows)
        BY <2>1, <2>2, <3>1 DEF RunHasCome, ProgramInv, RowsAreOrdered
    <3>3. DOMAIN assigned = 1..length /\ DOMAIN loadedOutputs = 1..length
        BY <3>1, <3>2
    <3>4. RowsOf(assigned) = RowsOf(loadedOutputs)
        BY <3>2, <3>3 DEF RowsOf
    <3>5. /\ length = loadedDims.outputs /\ DimensionsAreValid(loadedDims)
          /\ OutputsAreComplete(loadedDims, RowsOf(loadedOutputs))
        BY <3>1 DEF ProgramInv, HeaderInv
    <3>6. length = loadedDims.signals
        BY <3>5 DEF DimensionsAreValid
    <3> QED BY <2>1, <3>1, <3>2, <3>4, <3>5, <3>6 DEF OutputsAreComplete
  <2> QED BY <2>3, <2>4, <2>5 DEF LoadedProgramsReadWhatTheyWrote
<1> QED BY <1>1, <1>2

\* Whatever program is stored, one that loads is evaluated within its bounds and
\* budget, reads only what the same calculation wrote and writes every signal
\* once (sage.rs).
THEOREM LoadedProgramsReadWhatTheyWroteHolds == ProgramSpec => []LoadedProgramsReadWhatTheyWrote
<1>1. ProgramSpec => []ProgramInv
    BY ProgramInitInv, NextProgramInv, PTL DEF ProgramSpec
<1> QED BY <1>1, ProgramInvIsProperty, PTL
=============================================================================
