---------------------------- MODULE GraphExport ----------------------------
(***************************************************************************)
(* `signet export`: a postcard graph of the upstream builder is decoded    *)
(* under the operation schema the caller names (Graph::from_postcard),     *)
(* encoded record by record (encode) and read by the evaluator, which is   *)
(* what the tool asks before it writes the artifact.  The file holds an    *)
(* operation as its index in the enum of the builder that wrote it.  How a *)
(* record is spelled in each body version is SignetBodies'.                *)
(***************************************************************************)
EXTENDS Integers, Sequences, FiniteSets, SequencesExt

CONSTANTS
    UpstreamNodes,      \* what the builder may emit, operations by name
    Tables,             \* the output references and the input table of a file
    MaxNodes,
    Modulus,
    MaxU32, MaxUsize    \* u32::MAX and usize::MAX

WidthAssumption == MaxU32 < MaxUsize

VARIABLES
    nodes,              \* the builder's
    signals, mappings,
    writer, schema,     \* the builder's operation set and the one the caller names
    version,            \* of the body
    phase,              \* "building", "decoding", "encoding", "loading", "exported", or who refused
    decoded,            \* Graph::nodes
    records             \* written so far

vars == <<nodes, signals, mappings, writer, schema, version, phase, decoded, records>>

-----------------------------------------------------------------------------
(* Operations *)

\* The builder's enum, from before and after the patch for bitwise operators.
Upstream(by) ==
    LET until == <<"Mul", "MMul", "Add", "Sub", "Eq", "Neq", "Lt", "Gt", "Leq", "Geq", "Lor", "Shl", "Shr", "Band">>
        from == <<"Neg", "Inv", "Div", "Mod", "Pow", "Land", "IDiv">>
    IN  IF by = "original" THEN until \o from ELSE until \o <<"Bor", "Bxor">> \o from

\* Mutation: the patched operators are taken to be at the end of the enum.
OperationSchema_Appended(named) ==
    <<"Mul", "MMul", "Add", "Sub", "Eq", "Neq", "Lt", "Gt", "Leq", "Geq", "Lor", "Shl", "Shr", "Band",
      "Neg", "Inv", "Div", "Mod", "Pow", "Land", "IDiv">>
    \o (IF named = "original" THEN <<>> ELSE <<"Bor", "Bxor">>)

\* OriginalOperation and PatchedOperation: "Do not reorder."
OperationSchema(named) ==
    LET patched == <<"Mul", "MMul", "Add", "Sub", "Eq", "Neq", "Lt", "Gt", "Leq", "Geq", "Lor", "Shl", "Shr",
                     "Band", "Bor", "Bxor", "Neg", "Inv", "Div", "Mod", "Pow", "Land", "IDiv">>
    IN  IF named = "original" THEN SelectSeq(patched, LAMBDA operation : operation \notin {"Bor", "Bxor"})
        ELSE patched

\* curvy-witness' table: what the evaluator takes each tag for.
Wire == <<"Mul", "MMul", "Add", "Sub", "Eq", "Neq", "Lt", "Gt", "Leq", "Geq", "Lor", "Shl", "Shr", "Band",
          "Neg", "Inv", "Div", "Mod", "Pow", "Land", "IDiv", "Bxor", "Bor">>

OperationTag(operation) == SelectInSeq(Wire, LAMBDA name : name = operation) - 1

IndexIn(enum, operation) == SelectInSeq(enum, LAMBDA name : name = operation) - 1

-----------------------------------------------------------------------------
(* Records *)

\* strip_suffix_number, of a name as its stem and whether digits follow it.
BlackBox(name) == name.stem

Least(a, b) == IF a <= b THEN a ELSE b
Greatest(S) == CHOOSE x \in S : \A y \in S : y <= x

\* The mappings that are kept: upstream leaves a placeholder that maps no name.
Named == SelectSeq(mappings, LAMBDA mapping : mapping.hash # 0)

\* "Optimization drops input nodes nothing reads, so a graph whose last inputs
\* are unused has no node for them."
InputBufferLen ==
    LET named == {Least(Named[i].id + Named[i].size, MaxUsize) : i \in DOMAIN Named}
        read == {Least(decoded[i].value + 1, MaxUsize) : i \in {j \in DOMAIN decoded : decoded[j].kind = "Input"}}
    IN  Greatest({1} \cup named \cup read)

\* record: the node as the body format has it, if it can be written at all.
CanRecord(node) ==
    CASE node.kind = "Input" -> node.value <= MaxU32
      [] node.kind = "Constant" -> node.value < Modulus
      [] node.kind = "Bbf" -> BlackBox(node.name) = "bbf_inv" /\ node.parameters # <<>>
      [] node.kind = "Op" -> TRUE

Record(node) ==
    CASE node.kind \in {"Input", "Constant"} -> node
      [] node.kind = "Bbf" -> [kind |-> "Inverse", source |-> node.parameters[1]]
      [] node.kind = "Op" -> [kind |-> "Operation", tag |-> OperationTag(node.operation), left |-> node.left,
                              right |-> node.right]

References(record) ==
    CASE record.kind = "Inverse" -> {record.source}
      [] record.kind = "Operation" -> {record.left, record.right}
      [] OTHER -> {}

\* push_record: version 1 writes any reference of 32 bits, version 2 the distance
\* to a prior node.
CanPush(index, record) ==
    \A reference \in References(record) : IF version = 1 THEN reference <= MaxU32 ELSE reference < index

-----------------------------------------------------------------------------
(* The command *)

Init ==
    /\ nodes = <<>> /\ decoded = <<>> /\ records = <<>>
    /\ \E table \in Tables : signals = table.signals /\ mappings = table.mappings
    /\ writer \in {"original", "patched"} /\ schema \in {"original", "patched"} /\ version \in {1, 2}
    /\ phase = "building"

\* The builder emits a node; an operation must be one it has.
Build ==
    /\ phase = "building"
    /\ \/ \E node \in UpstreamNodes :
            /\ Len(nodes) < MaxNodes
            /\ node.kind = "Op" => Contains(Upstream(writer), node.operation)
            /\ nodes' = Append(nodes, IF node.kind = "Op"
                                      THEN [kind |-> "Op", index |-> IndexIn(Upstream(writer), node.operation),
                                            left |-> node.left, right |-> node.right]
                                      ELSE node)
            /\ UNCHANGED phase
       \/ phase' = "decoding" /\ UNCHANGED nodes
    /\ UNCHANGED <<signals, mappings, writer, schema, version, decoded, records>>

\* Graph::decode of the next node: postcard refuses an index past the enum.
Decode ==
    /\ phase = "decoding"
    /\ IF Len(decoded) = Len(nodes) THEN phase' = "encoding" /\ UNCHANGED decoded
       ELSE LET node == nodes[Len(decoded) + 1]
                operations == OperationSchema(schema)
            IN  IF node.kind # "Op" THEN decoded' = Append(decoded, node) /\ UNCHANGED phase
                ELSE IF node.index >= Len(operations) THEN phase' = "Postcard" /\ UNCHANGED decoded
                ELSE /\ decoded' = Append(decoded, [kind |-> "Op", operation |-> operations[node.index + 1],
                                                    left |-> node.left, right |-> node.right])
                     /\ UNCHANGED phase
    /\ UNCHANGED <<nodes, signals, mappings, writer, schema, version, records>>

\* encode of the next record.  The header comes first and holds the buffer's
\* length in 32 bits.
Encode ==
    /\ phase = "encoding"
    /\ IF InputBufferLen > MaxU32 THEN phase' = "TooLarge" /\ UNCHANGED records
       ELSE IF Len(records) = Len(decoded)
       THEN /\ phase' = IF \A i \in DOMAIN Named : Named[i].id <= MaxU32 /\ Named[i].size <= MaxU32
                        THEN "loading" ELSE "TooLarge"
            /\ UNCHANGED records
       ELSE LET node == decoded[Len(records) + 1]
            IN  IF CanRecord(node) /\ CanPush(Len(records), Record(node))
                THEN records' = Append(records, Record(node)) /\ UNCHANGED phase
                ELSE phase' = "NotEncodable" /\ UNCHANGED records
    /\ UNCHANGED <<nodes, signals, mappings, writer, schema, version, decoded>>

\* Two ranges of the input table are apart or one holds the other.
Cross(a, b) == a.id < b.id /\ b.id < a.id + a.size /\ a.id + a.size < b.id + b.size

\* The evaluator takes references to prior nodes only.
AreOrdered == \A i \in DOMAIN records : \A reference \in References(records[i]) : reference < i - 1

\* WitnessGraph::from_bytes_with_limits: "Load what we are about to write, through
\* the evaluator a client uses."
Load ==
    /\ phase = "loading"
    /\ LET loads == /\ records # <<>> /\ signals # <<>>
                    /\ \A i \in DOMAIN records : records[i].kind = "Input" => records[i].value < InputBufferLen
                    /\ AreOrdered
                    /\ \A i \in DOMAIN signals : signals[i] < Len(records)
                    /\ \A i, j \in DOMAIN Named :
                          /\ Named[i].id > 0 /\ Named[i].size > 0 /\ Named[i].id + Named[i].size <= InputBufferLen
                          /\ ~Cross(Named[i], Named[j])
                          /\ Named[i].hash = Named[j].hash => i = j
       IN  phase' = IF loads THEN "exported" ELSE "Rejected"
    /\ UNCHANGED <<nodes, signals, mappings, writer, schema, version, decoded, records>>

Next == Build \/ Decode \/ Encode \/ Load
Spec == Init /\ [][Next]_vars

-----------------------------------------------------------------------------
(* Properties *)

\* An operation of an exported graph is the one upstream meant if the schema was
\* the writer's; otherwise exactly those from index 14 up are others.  The test
\* of the tables compares sets and four tags; this is every operation, through
\* both tables.
MeaningFollowsTheSchema ==
    phase = "exported" =>
        \A i \in DOMAIN nodes : nodes[i].kind = "Op" =>
            LET meant == Upstream(writer)[nodes[i].index + 1]
                evaluated == Wire[records[i].tag + 1]
            IN  (meant = evaluated) = (schema = writer \/ nodes[i].index < 14)

\* Every value of an exported graph is computed from values before it, in either
\* version of the body, and every output is one of them.
ExportedGraphsAreOrdered ==
    phase = "exported" =>
        /\ \A i \in DOMAIN decoded :
              /\ decoded[i].kind = "Op" => decoded[i].left < i - 1 /\ decoded[i].right < i - 1
              /\ decoded[i].kind = "Bbf" => decoded[i].parameters[1] < i - 1
              /\ decoded[i].kind = "Constant" => decoded[i].value < Modulus
        /\ \A i \in DOMAIN signals : signals[i] < Len(nodes)

\* What the builder makes of a circuit is exported: placeholders in the input
\* table and inputs that no node reads are no obstacle ("callers write through
\* it and the evaluator refuses a mapping that runs past the buffer").
BuildersGraphsAreExported ==
    LET ofACircuit ==
            /\ schema = writer /\ nodes # <<>> /\ signals # <<>>
            /\ \A i \in DOMAIN nodes :
                  /\ nodes[i].kind = "Op" => nodes[i].left < i - 1 /\ nodes[i].right < i - 1
                  /\ nodes[i].kind = "Constant" => nodes[i].value < Modulus
                  /\ nodes[i].kind = "Input" => nodes[i].value < MaxU32
                  /\ nodes[i].kind = "Bbf" => /\ nodes[i].name.stem = "bbf_inv" /\ nodes[i].parameters # <<>>
                                              /\ nodes[i].parameters[1] < i - 1
            /\ \A i \in DOMAIN signals : signals[i] < Len(nodes)
            /\ \A i, j \in DOMAIN mappings : mappings[i].hash # 0 =>
                  /\ mappings[i].id > 0 /\ mappings[i].size > 0 /\ mappings[i].id + mappings[i].size <= MaxU32
                  /\ mappings[j].hash # 0 => ~Cross(mappings[i], mappings[j])
                  /\ mappings[i].hash = mappings[j].hash => i = j
    IN  ofACircuit => phase \in {"building", "decoding", "encoding", "loading", "exported"}
=============================================================================
