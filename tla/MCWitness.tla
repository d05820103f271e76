----------------------------- MODULE MCWitness ------------------------------
(***************************************************************************)
(* The witness side: the operations of a graph, its two evaluators, stored *)
(* programs, the frames and bodies a graph is read from, the inputs that are *)
(* decoded into it, and the tool that exports and rewrites graphs.         *)
(***************************************************************************)
EXTENDS Integers, Sequences, FiniteSets, Sage, SignetTool

CONSTANTS
    Parts    \* the components that run

VARIABLES
    part,   \* which component runs
    v1, v2, v3, v4, v5, v6, v7, v8, v9   \* its variables, but for those of Sage and of SignetTool and what these extend

\* Every graph of up to four nodes over inputs, a zero constant, inverses and
\* divisions, which do not commute and may fail, with any two outputs: enough
\* for a slot to be recycled under an operand, an output or a node read twice.
MCInputBuffers == {<<1, 0>>, <<1, 2>>}

\* Two names of one hash.  The literals are one chunk, a chunk and a part, two
\* chunks, negative, a negative zero and empty.
MCHashOf == [a |-> 1, b |-> 2, collides |-> 1]
MCLiterals ==
    {[negative |-> FALSE, digits |-> <<2>>], [negative |-> TRUE, digits |-> <<0>>], [negative |-> TRUE, digits |-> <<1, 0, 2>>],
     [negative |-> FALSE, digits |-> <<2, 0, 1, 2>>], [negative |-> FALSE, digits |-> <<>>]}

\* Frames around every limit: a content of up to one word more than a graph
\* may have, declared right, wrong or not at all, broken anywhere.
MCFramed ==
    [magic : {"zstd"}, size : {2, 5}, window : {1, 2}, dictionary : BOOLEAN,
     declared : {0, 4, 7, 8, 9}, content : {1, 4, 7, 8}, broken : {0, 3, 9},
     checksum : {"none", "right", "wrong"}, trailing : BOOLEAN, program : {4, 8}]
    \cup [magic : {"raw", "skippable"}, size : {6, 7, 8, 9}, window : {1}, dictionary : {FALSE},
          declared : {0}, content : {4}, broken : {9}, checksum : {"none"},
          trailing : {FALSE}, program : {4}]
OneFrame == CHOOSE a \in MCFramed : a.magic = "raw"

\* Every operation of a builder, references to earlier nodes, to the node itself
\* and beyond, inputs at the width of an index, and input tables with
\* placeholders, unused inputs, nested and crossing ranges.
MCOperations ==
    {"Mul", "MMul", "Add", "Sub", "Eq", "Neq", "Lt", "Gt", "Leq", "Geq", "Lor", "Shl", "Shr", "Band",
     "Bor", "Bxor", "Neg", "Inv", "Div", "Mod", "Pow", "Land", "IDiv"}
MCNodes ==
    [kind : {"Input"}, value : {0, 7, 8}] \cup [kind : {"Constant"}, value : {4, 5}]
    \cup [kind : {"Op"}, operation : MCOperations, left : {0}, right : {0}]
    \cup [kind : {"Op"}, operation : {"Mul"}, left : {0, 1, 8}, right : {0, 1}]
    \cup [kind : {"Bbf"}, name : [stem : {"bbf_inv", "bbf_sqrt"}, suffix : {"", "_1"}],
          parameters : {<<>>, <<0, 1>>, <<1>>}]
Mapping(hash, id, size) == [hash |-> hash, id |-> id, size |-> size]
Placeholder == Mapping(0, 0, 0)
MCTables ==
    [signals : {<<0>>}, mappings : {
        <<Placeholder, Mapping(1, 1, 2)>>, <<Mapping(1, 1, 4), Placeholder, Mapping(2, 2, 1)>>,
        <<Mapping(1, 1, 2), Mapping(2, 2, 3)>>, <<Mapping(1, 0, 2)>>, <<Mapping(1, 6, 9)>>}]
    \cup [signals : {<<>>, <<1, 0>>}, mappings : {<<Mapping(1, 1, 1)>>}]

\* A graph that any client loads, one that only a batch prover does and only in
\* version 2, a frame with too wide a window and a file that is no artifact.
MCBytes(graph, version) ==
    CASE graph = "small" -> 2 [] graph = "large" -> IF version = 1 THEN 7 ELSE 4
Small == Artifact("small", 1, "signet", "none")
Large == Artifact("large", 2, "cvywit", "system")
MCFiles == {Small, Large, Artifact("small", 2, "signet", "wide"), Junk}
Wrappings == {<<FALSE, FALSE>>, <<TRUE, FALSE>>, <<TRUE, TRUE>>}
Wrapped(command, pin, envelope, version, wrapping) ==
    Invocation(command, pin, envelope, version, wrapping[1], wrapping[2])
Idling == Wrapped("inspect", Small, "kept", 1, <<FALSE, FALSE>>)
MCInvocations ==
    {Wrapped("export", Junk, "cvywit", v, w) : v \in {1, 2}, w \in Wrappings}
    \cup {Wrapped("reseal", pin, "signet", 1, w) : pin \in {Small, Large}, w \in Wrappings}
    \cup {Wrapped("transcode", pin, e, 2, w) :
            pin \in {Small, Large}, e \in {"cvywit", "kept"}, w \in Wrappings}
    \cup {Idling}

-----------------------------------------------------------------------------
(* The components *)

\* The stored programs (SageProgram) have up to three instructions with any
\* index in every field, an unknown kind and a tag that is no operation.

\* Five bits in two limbs of three: the register is a bit wider than the field,
\* and half of what the field's bits hold is no element.
Arithmetic == INSTANCE FieldOperations WITH
    Modulus <- 29, FieldBits <- 5, LimbBits <- 3, Limbs <- 2
ASSUME Arithmetic!RegisterAssumption

\* Words of five bits in groups of two: a varint has up to three bytes and the
\* last holds one bit, as the tenth does in the code.
Bodies == INSTANCE SignetBodies WITH
    WordBits <- 5, PayloadBits <- 2, IndexBits <- 3, TagBase <- 4,
    OperationTags <- {0, 2}, Modulus <- 5, NodeLimit <- 2, SignalLimit <- 2,
    InputLimit <- 2, Budget <- 6, header <- v1, phase <- v2, pending <- v3,
    records <- v4, references <- v5, body <- v6, image <- v7, spent <- v8, size <- v9
ASSUME Bodies!WireAssumption

\* Every table of two rows over a buffer of four: equal, nested, disjoint and
\* overlapping ranges.
Inputs == INSTANCE InputDecoding WITH
    BufferLen <- 4, MappingCount <- 2, Names <- {"a", "b", "collides"},
    HashOf <- MCHashOf, Literals <- MCLiterals, TenBase <- 3, ChunkDigits <- 2,
    Modulus <- 7, MaxDepth <- 2, MaxTokens <- 7, phase <- v1, mappings <- v2,
    values <- v3, matched <- v4, current <- v5, count <- v6, depth <- v7, given <- v8,
    tokens <- v9
ASSUME Inputs!InputAssumption

Export == INSTANCE GraphExport WITH
    UpstreamNodes <- MCNodes, Tables <- MCTables, MaxNodes <- 2, Modulus <- 5,
    MaxU32 <- 7, MaxUsize <- 15, nodes <- v1, signals <- v2, mappings <- v3,
    writer <- v4, schema <- v5, version <- v6, phase <- v7, decoded <- v8, records <- v9
ASSUME Export!WidthAssumption

Elements == 0..28
Results(left, right) ==
    [operation \in Arithmetic!OperationNames |-> Arithmetic!Evaluated(operation, left, right)]
Chain == <<v1, v2, v3>>   \* the operands of a node and what each operation makes of them

\* The next node reads one of the results beside any element.
ChainInit == v1 \in Elements /\ v2 = 0 /\ v3 = Results(v1, v2)
ChainNext ==
    \E result \in {v3[operation] : operation \in Arithmetic!OperationNames}, element \in Elements :
        /\ result \in [value : Elements]
        /\ v1' = result.value /\ v2' = element /\ v3' = Results(v1', v2')

Value(operation) == v3[operation].value
Refused(operation) == v3[operation] \notin [value : Elements]
Signed(x) == IF x > 14 THEN x - 29 ELSE x

\* Only a zero divisor or a shift amount outside the register is refused; the
\* comparisons are a total order of the signed representatives; quotient and
\* remainder are those of the integers; a shift moves the integer within the
\* field's five bits; the bitwise operations fit each other and addition.
ChainIsExact ==
    /\ \A operation \in Arithmetic!OperationNames :
        \/ v3[operation] \in [value : Elements]
        \/ /\ operation \in {"Inv", "Div", "Mod", "IntegerDiv", "Shl", "Shr"}
           /\ v3[operation] \in [error : {"DivisionByZero", "InvalidShift"}]
    /\ Value("Lt") = (IF Signed(v1) < Signed(v2) THEN 1 ELSE 0)
    /\ Value("Geq") = 1 - Value("Lt") /\ Value("Leq") = 1 - Value("Gt")
    /\ Value("Gt") * Value("Lt") = 0 /\ Value("Eq") = Value("Leq") * Value("Geq")
    /\ IF v2 = 0 THEN Refused("Mod") /\ Refused("IntegerDiv") /\ Refused("Div")
       ELSE /\ Value("IntegerDiv") * v2 + Value("Mod") = v1 /\ Value("Mod") < v2
            /\ (Value("Div") * v2) % 29 = v1
    /\ IF v2 >= 6 THEN Refused("Shl") /\ Refused("Shr")
       ELSE Value("Shl") = ((v1 * 2 ^ v2) % 32) % 29 /\ Value("Shr") = v1 \div 2 ^ v2
    /\ (2 * Value("BitAnd") + Value("BitXor")) % 29 = Value("Add")
    /\ (Value("BitAnd") + Value("BitOr")) % 29 = Value("Add")

\* What the loader asks of a program, of the one that the compiler stored.
Loader == INSTANCE SageProgram WITH
    NodeLimit <- 4, SignalLimit <- 2, ProgramBytes <- 316, OperationTags <- {"Div"}
IsLoaded(stored) ==
    LET Before(i) == {stored.instructions[j].destination : j \in 1..(i - 1)}
        Rows(n) == {stored.outputs[k] : k \in 1..n}
    IN  /\ Loader!DimensionsAreValid(stored.dims)
        /\ \A i \in DOMAIN stored.instructions :
              Loader!InstructionIsValid(stored.dims, stored.instructions[i], Before(i))
        /\ \A k \in DOMAIN stored.outputs :
              Loader!OutputIsValid(stored.dims, stored.outputs[k], Rows(k - 1))
        /\ Loader!OutputsAreComplete(stored.dims, Rows(Len(stored.outputs)))

-----------------------------------------------------------------------------
(* One of them runs; the others stand still. *)

ownVars == <<v1, v2, v3, v4, v5, v6, v7, v8, v9>>
otherVars == <<vars, toolVars, programVars, frameVars>>
suiteVars == <<part, ownVars, otherVars>>

SuiteInit ==
    /\ part \in Parts
    /\ part # "tool" => sourceFile = Small /\ options = [t \in Tools |-> Idling]
    /\ part # "frame" => encoded = OneFrame /\ pinned = TRUE /\ loader = "graph"
    /\ Init /\ ToolInit /\ ProgramInit /\ FrameInit
    /\ \/ /\ part \in {"sage", "tool", "program", "frame"}
          /\ v1 = 0 /\ v2 = 0 /\ v3 = 0 /\ v4 = 0 /\ v5 = 0 /\ v6 = 0 /\ v7 = 0 /\ v8 = 0 /\ v9 = 0
       \/ /\ part = "chain" /\ ChainInit
          /\ v4 = 0 /\ v5 = 0 /\ v6 = 0 /\ v7 = 0 /\ v8 = 0 /\ v9 = 0
       \/ /\ part = "body" /\ Bodies!Init
       \/ /\ part = "inputs" /\ Inputs!Init
       \/ /\ part = "export" /\ Export!Init

SuiteNext ==
    \/ part = "sage" /\ Next /\ UNCHANGED <<part, toolVars, programVars, frameVars, ownVars>>
    \/ part = "tool" /\ ToolNext /\ UNCHANGED <<part, vars, programVars, frameVars, ownVars>>
    \/ part = "program" /\ ProgramNext /\ UNCHANGED <<part, vars, toolVars, frameVars, ownVars>>
    \/ part = "frame" /\ FrameNext /\ UNCHANGED <<part, vars, toolVars, programVars, ownVars>>
    \/ part = "chain" /\ ChainNext /\ UNCHANGED <<part, otherVars, v4, v5, v6, v7, v8, v9>>
    \/ part = "body" /\ Bodies!Next /\ UNCHANGED <<part, otherVars>>
    \/ part = "inputs" /\ Inputs!Next /\ UNCHANGED <<part, otherVars>>
    \/ part = "export" /\ Export!Next /\ UNCHANGED <<part, otherVars>>

SuiteSpec == SuiteInit /\ [][SuiteNext]_suiteVars

-----------------------------------------------------------------------------
(* Properties *)

\* What an accepted input object leaves in the buffer is the last value given
\* for each place; a table is taken if its ranges nest; a row is given whole
\* and once, by its hash (input.rs).
BufferHoldsWhatWasGiven ==
    part = "inputs" =>
        /\ Inputs!OnlyNestedTablesAreTaken
        /\ Inputs!BufferHoldsWhatWasGiven
        /\ Inputs!EveryRowIsGivenWholeAndOnce

\* "Non-zero fractional or exponent numbers are rejected" (README of the
\* crate): no accepted object gave a number that reads as zero and is not
\* (input.rs, visit_f64).
OnlyZeroReadsAsZero == part = "inputs" => Inputs!OnlyZeroReadsAsZero

\* A graph has one body in each version and a transcoded one is read as the
\* same graph; accepted graphs are ordered and stay in their budget
\* (curvy-witness, transcode.rs).
TranscodedBodyIsTheSameGraph ==
    part = "body" =>
        /\ Bodies!OneBodyPerGraph
        /\ Bodies!TranscodedBodyIsTheSameGraph
        /\ Bodies!AcceptedGraphsAreOrdered
        /\ Bodies!PreflightRefusesNoGraph
        /\ Bodies!AcceptedGraphsStayInBudget

\* Any operation gives a canonical element or a typed refusal, comparisons
\* order the signed representatives, shifts stay in the field (lib.rs,
\* Operation).  Every program that the compiler makes loads, has as many slots
\* as nodes are live at once, and gives what the graph defines whatever ran in
\* its workspace before (sage.rs).  An exported operation is the one the
\* builder meant exactly if the schema is the builder's; every value is
\* computed from earlier ones; and what a builder makes of a circuit is
\* exported (postcard.rs, encode.rs).
GraphsKeepTheirMeaning ==
    /\ part = "chain" => ChainIsExact
    /\ part = "sage" =>
        /\ IsCompiled => IsLoaded(StoredProgram)
        /\ SlotsAreThePeakOfLiveNodes
        /\ CalculationsAreIndependent
    /\ part = "export" =>
        /\ Export!MeaningFollowsTheSchema
        /\ Export!ExportedGraphsAreOrdered
        /\ Export!BuildersGraphsAreExported
=============================================================================
