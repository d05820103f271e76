---------------------------- MODULE SignetBodies ----------------------------
(***************************************************************************)
(* The two body versions of a SIGNET witness graph: what curvy-witness     *)
(* reads (read_header, read_node_record, read_output_references), what the *)
(* signet tool writes (push_record, SignalWriter) and how it transcodes    *)
(* one version into the other.  A body arrives symbol by symbol, any at    *)
(* all: a byte of version 2, a byte or a 32-bit index of version 1.  The   *)
(* constants are single symbols, canonical below Modulus.                  *)
(***************************************************************************)
EXTENDS Integers, Sequences, FiniteSets, SequencesExt

CONSTANTS
    WordBits, PayloadBits,      \* 64 and 7 in the code: a varint and what one byte of it holds
    IndexBits,                  \* 32 in the code
    TagBase,                    \* 0x80 in the code: operation tags of version 2 lie below
    OperationTags,              \* the published ones
    Modulus,
    NodeLimit, SignalLimit, InputLimit, Budget      \* Limits

WireAssumption ==
    /\ IndexBits <= WordBits /\ PayloadBits < WordBits
    /\ OperationTags \subseteq 0..(TagBase - 1)

VARIABLES
    header,         \* of the source artifact
    phase,          \* "header", "nodes", "signals", "end", "accepted" or the refusal
    pending,        \* the symbols of the record that is being read
    records,        \* the nodes read so far
    references,     \* the output references read so far
    body,           \* the symbols of each record and reference read
    image,          \* what the transcoder wrote for each, in the other version
    spent, size     \* the evaluation cost and the bytes read

vars == <<header, phase, pending, records, references, body, image, spent, size>>

Continuation == 2 ^ PayloadBits
Groups == (WordBits + PayloadBits - 1) \div PayloadBits
Symbols == 0..(2 * Continuation - 1)
InputTag == TagBase
ConstantTag == TagBase + 1
InverseTag == TagBase + 2
Other(version) == IF version = 1 THEN 2 ELSE 1

More == [more |-> TRUE]
Refused(error) == [error |-> error]
IsRecord(result) == "kind" \in DOMAIN result
Input(i) == [kind |-> "Input", tag |-> 0, left |-> i, right |-> 0]
Constant(c) == [kind |-> "Constant", tag |-> 0, left |-> c, right |-> 0]
InverseOf(s) == [kind |-> "Inverse", tag |-> 0, left |-> s, right |-> 0]
Operation(t, l, r) == [kind |-> "Operation", tag |-> t, left |-> l, right |-> r]

-----------------------------------------------------------------------------
(* Variable-length integers *)

\* Mutation: a varint may end in a group of zeros.
IsRedundant_Never(bytes, last) == FALSE

\* The last of several groups must not be zero.
IsRedundant(bytes, last) == last > 1 /\ bytes[last] = 0

\* The integer at the front of the bytes and how many of them it takes.
VarU64(bytes) ==
    LET last == SelectInSeq(bytes, LAMBDA byte : byte < Continuation)
        overflows == /\ Len(bytes) >= Groups /\ (last = 0 \/ last >= Groups)
                     /\ bytes[Groups] >= 2 ^ (WordBits - PayloadBits * (Groups - 1))
        value == FoldLeft(LAMBDA sum, i : sum + (bytes[i] % Continuation) * Continuation ^ (i - 1), 0,
                          [i \in 1..last |-> i])
    IN  CASE overflows -> Refused("InvalidVarint")
          [] ~overflows /\ last = 0 -> More
          [] ~overflows /\ last > 0 /\ IsRedundant(bytes, last) -> Refused("NonCanonicalVarint")
          [] OTHER -> [value |-> value, taken |-> last]

PushVarU64(value) ==
    LET groups == CHOOSE n \in 1..Groups : value < Continuation ^ n /\ (n = 1 \/ value >= Continuation ^ (n - 1))
    IN  [i \in 1..groups |-> ((value \div Continuation ^ (i - 1)) % Continuation)
                             + (IF i < groups THEN Continuation ELSE 0)]

ZigZag(delta) == IF delta >= 0 THEN 2 * delta ELSE -2 * delta - 1
UnZigZag(encoded) == IF encoded % 2 = 0 THEN encoded \div 2 ELSE -(encoded \div 2) - 1

-----------------------------------------------------------------------------
(* Reading a record.  Each operator gives More, a refusal, or the record.  *)

CheckedInput(input) ==
    IF input >= header.inputs THEN Refused("InputReference") ELSE Input(input)
CheckedConstant(symbol) ==
    IF symbol >= Modulus THEN Refused("NonCanonicalConstant") ELSE Constant(symbol)

\* "In version 2 an operation tag shares the first byte with the node kind, so an
\* unknown version-1 tag would come back as an input, constant or inverse node."
IsOperation(tag) == tag \in OperationTags

\* Version 1: fixed-width fields after a tag of its own for each kind.
ReadV1(index, bytes) ==
    LET Prior(reference) == reference < index
    IN  CASE bytes[1] > 3 -> Refused("InvalidNodeTag")
          [] bytes[1] < 3 /\ Len(bytes) = 1 -> More
          [] bytes[1] = 3 /\ Len(bytes) = 1 -> More
          [] bytes[1] = 0 -> CheckedInput(bytes[2])
          [] bytes[1] = 1 -> CheckedConstant(bytes[2])
          [] bytes[1] = 3 -> IF Prior(bytes[2]) THEN InverseOf(bytes[2]) ELSE Refused("ForwardReference")
          [] bytes[1] = 2 /\ ~IsOperation(bytes[2]) -> Refused("InvalidOperation")
          [] bytes[1] = 2 /\ Len(bytes) < 4 -> More
          [] OTHER -> IF Prior(bytes[3]) /\ Prior(bytes[4]) THEN Operation(bytes[2], bytes[3], bytes[4])
                      ELSE Refused("ForwardReference")

\* The node a distance leads back to.
Backward(index, varint) ==
    IF "value" \notin DOMAIN varint THEN varint
    ELSE IF varint.value \notin 1..index THEN Refused("InvalidBackwardReference")
    ELSE [reference |-> index - varint.value, taken |-> varint.taken]

\* Version 2: one tag for the kind or the operation, and distances.
ReadV2(index, bytes) ==
    LET first == VarU64(Tail(bytes))
        left == Backward(index, first)
        right == Backward(index, VarU64(SubSeq(bytes, 2 + left.taken, Len(bytes))))
    IN  CASE bytes[1] > InverseTag -> Refused("InvalidNodeTag")
          [] bytes[1] < TagBase /\ ~IsOperation(bytes[1]) -> Refused("InvalidOperation")
          [] Len(bytes) = 1 -> More
          [] bytes[1] = ConstantTag -> CheckedConstant(bytes[2])
          [] bytes[1] = InputTag /\ "value" \notin DOMAIN first -> first
          [] bytes[1] = InputTag /\ first.value >= 2 ^ IndexBits -> Refused("InvalidVarint")
          [] bytes[1] = InputTag -> CheckedInput(first.value)
          [] "reference" \notin DOMAIN left -> left
          [] bytes[1] = InverseTag -> InverseOf(left.reference)
          [] "reference" \notin DOMAIN right -> right
          [] OTHER -> Operation(bytes[1], left.reference, right.reference)

ReadNode(version, index, bytes) == IF version = 1 THEN ReadV1(index, bytes) ELSE ReadV2(index, bytes)

\* An output reference, given the one before it.
ReadReference(version, previous, bytes) ==
    LET varint == VarU64(bytes)
        reference == IF version = 1 THEN bytes[1] ELSE previous + UnZigZag(varint.value)
    IN  CASE version = 2 /\ "value" \notin DOMAIN varint -> varint
          [] OTHER -> IF reference \in 0..(header.nodes - 1) THEN [kind |-> "Reference", left |-> reference]
                      ELSE Refused("OutputReference")

-----------------------------------------------------------------------------
(* Writing a record *)

WriteNode(version, index, record) ==
    LET Distance(reference) == PushVarU64(index - reference)
    IN  CASE record.kind = "Input" ->
              IF version = 1 THEN <<0, record.left>> ELSE <<InputTag>> \o PushVarU64(record.left)
          [] record.kind = "Constant" -> <<IF version = 1 THEN 1 ELSE ConstantTag, record.left>>
          [] record.kind = "Inverse" ->
              IF version = 1 THEN <<3, record.left>> ELSE <<InverseTag>> \o Distance(record.left)
          [] OTHER -> IF version = 1 THEN <<2, record.tag, record.left, record.right>>
                      ELSE <<record.tag>> \o Distance(record.left) \o Distance(record.right)

WriteReference(version, previous, reference) ==
    IF version = 1 THEN <<reference>> ELSE PushVarU64(ZigZag(reference - previous))

-----------------------------------------------------------------------------
(* The body *)

CostOf(record) ==
    CASE record.kind \in {"Input", "Constant"} -> 1
      [] record.kind = "Inverse" -> 3
      [] OTHER -> 2

Charged(cost, record) == cost + CostOf(record)

\* The bytes of a record; an index has four in version 1 and a constant 32.
BytesOf(version, record, symbols) ==
    CASE record.kind = "Constant" -> 33
      [] record.kind = "Reference" -> IF version = 1 THEN 4 ELSE Len(symbols)
      [] version = 2 -> Len(symbols)
      [] record.kind = "Operation" -> 10
      [] OTHER -> 5

\* What preflight_body_size asks of a body before anything is allocated (the
\* input table comes on top on both sides).
MinimumBytes(head) ==
    IF head.version = 1 THEN head.nodes * 5 + head.signals * 4 ELSE head.nodes * 2 + head.signals

Headers == [magic : {"CVYWIT01", "SIGNET01", "other"}, version : 1..3, field : {1, 2}, size : {64, 65},
            nodes : 0..(NodeLimit + 1), signals : 0..(SignalLimit + 1), inputs : 0..(InputLimit + 1)]

HeaderError(head) ==
    CASE head.magic = "other" -> "InvalidMagic"
      [] head.version = 3 -> "UnsupportedVersion"
      [] head.field # 1 -> "UnsupportedField"
      [] head.size # 64 -> "InvalidHeaderSize"
      [] head.nodes > NodeLimit \/ head.signals > SignalLimit \/ head.inputs > InputLimit -> "CountLimit"
      [] head.nodes = 0 \/ head.signals = 0 \/ head.inputs = 0 -> "EmptyGraph"
      [] OTHER -> "none"

Init ==
    /\ header \in Headers /\ phase = "header"
    /\ pending = <<>> /\ records = <<>> /\ references = <<>> /\ body = <<>> /\ image = <<>>
    /\ spent = 0 /\ size = 0

ReadHeader ==
    /\ phase = "header"
    /\ phase' = IF HeaderError(header) = "none" THEN "nodes" ELSE HeaderError(header)
    /\ UNCHANGED <<header, pending, records, references, body, image, spent, size>>

Previous == IF references = <<>> THEN 0 ELSE Last(references)

\* A node: read, charged, and written again by the transcoder.
NodeSymbol ==
    /\ phase = "nodes" /\ Len(records) < header.nodes
    /\ \E symbol \in Symbols :
        LET symbols == Append(pending, symbol)
            record == ReadNode(header.version, Len(records), symbols)
        IN  IF record = More THEN pending' = symbols /\ UNCHANGED <<phase, records, body, image, spent, size>>
            ELSE IF ~IsRecord(record)
            THEN phase' = record.error /\ UNCHANGED <<pending, records, body, image, spent, size>>
            ELSE /\ pending' = <<>>
                 /\ spent' = Charged(spent, record)
                 /\ size' = size + BytesOf(header.version, record, symbols)
                 /\ records' = Append(records, record)
                 /\ body' = Append(body, symbols)
                 /\ image' = Append(image, WriteNode(Other(header.version), Len(records), record))
                 /\ phase' = IF spent' > Budget THEN "EvaluationCostLimit"
                             ELSE IF Len(records') = header.nodes THEN "signals" ELSE phase
    /\ UNCHANGED <<header, references>>

\* An output reference, in the same way.
ReferenceSymbol ==
    /\ phase = "signals" /\ Len(references) < header.signals
    /\ \E symbol \in Symbols :
        LET symbols == Append(pending, symbol)
            read == ReadReference(header.version, Previous, symbols)
        IN  IF read = More THEN pending' = symbols /\ UNCHANGED <<phase, references, body, image, size>>
            ELSE IF ~IsRecord(read)
            THEN phase' = read.error /\ UNCHANGED <<pending, references, body, image, size>>
            ELSE /\ pending' = <<>>
                 /\ size' = size + BytesOf(header.version, read, symbols)
                 /\ references' = Append(references, read.left)
                 /\ body' = Append(body, symbols)
                 /\ image' = Append(image, WriteReference(Other(header.version), Previous, read.left))
                 /\ phase' = IF Len(references') = header.signals THEN "end" ELSE phase
    /\ UNCHANGED <<header, records, spent>>

\* The file ends here or goes on; a body that ends too early is truncated.
End ==
    \/ /\ phase = "end"
       /\ \E nothingFollows \in BOOLEAN : phase' = IF nothingFollows THEN "accepted" ELSE "TrailingBytes"
       /\ UNCHANGED <<header, pending, records, references, body, image, spent, size>>
    \/ /\ phase \in {"nodes", "signals"}
       /\ phase' = "Truncated"
       /\ UNCHANGED <<header, pending, records, references, body, image, spent, size>>

Next == ReadHeader \/ NodeSymbol \/ ReferenceSymbol \/ End
Spec == Init /\ [][Next]_vars

-----------------------------------------------------------------------------
(* Properties *)

\* The reference before the k-th.
Before(k) == IF k = 1 THEN 0 ELSE references[k - 1]

\* A graph has one body in each version: what the tool would write for the
\* records that were read is, symbol by symbol, what they were read from.
\* "Accepting it here would make a version-2 to version-1 to version-2 round
\* trip lossy" (Body::var_u64).
OneBodyPerGraph ==
    phase = "accepted" =>
        /\ \A i \in DOMAIN records : WriteNode(header.version, i - 1, records[i]) = body[i]
        /\ \A k \in DOMAIN references :
              WriteReference(header.version, Before(k), references[k]) = body[Len(records) + k]

\* The transcoded body is read as the same graph: every record and every
\* reference comes back, and none of them a symbol early or late.
TranscodedBodyIsTheSameGraph ==
    LET target == Other(header.version)
    IN  phase = "accepted" =>
        /\ \A i \in DOMAIN records : ReadNode(target, i - 1, image[i]) = records[i]
        /\ \A k \in DOMAIN references :
              ReadReference(target, Before(k), image[Len(records) + k])
                  = [kind |-> "Reference", left |-> references[k]]
        /\ \A i \in DOMAIN records : \A n \in 1..(Len(image[i]) - 1) :
              ReadNode(target, i - 1, SubSeq(image[i], 1, n)) = More

\* No node of an accepted graph can read itself or a later one, so a single
\* pass over the nodes defines every value and a later node cannot be missing.
AcceptedGraphsAreOrdered ==
    phase = "accepted" =>
        /\ \A i \in DOMAIN records :
              /\ records[i].kind \in {"Inverse", "Operation"} => records[i].left < i - 1
              /\ records[i].kind = "Operation" => records[i].right < i - 1
              /\ records[i].kind = "Constant" => records[i].left < Modulus
        /\ Range(references) \subseteq 0..(Len(records) - 1)

\* "This is intentionally a lower bound": the preflight over the header's counts
\* refuses no body that the records themselves would not have refused.
PreflightRefusesNoGraph == phase = "accepted" => size >= MinimumBytes(header)

\* Evaluating an accepted graph, one cost per node, stays within the budget.
AcceptedGraphsStayInBudget ==
    phase = "accepted" => FoldLeft(LAMBDA sum, r : sum + CostOf(r), 0, records) <= Budget
=============================================================================
