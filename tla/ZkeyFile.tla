------------------------------ MODULE ZkeyFile ------------------------------
(***************************************************************************)
(* A zkey file is read into a proving key by seeking to its sections       *)
(* (BinFile, read_zkey) or in one forward pass that digests every byte     *)
(* (read_zkey_forward), and loaded by Prover.  The file is drawn section   *)
(* by section as the forward reader reaches it; what the other reader      *)
(* makes of the same file is SeekAccepts.  Lengths are words: one for a    *)
(* file header, a section header, a G1 point or a coefficient.             *)
(***************************************************************************)
EXTENDS Integers, Sequences, FiniteSets, SequencesExt, FiniteSetsExt

CONSTANTS
    Lengths,            \* of the file
    Sections,           \* what a section may be: [id, size, content]
    Queries,            \* the point sections: 3 and 5 to 9 in the code
    HeaderWords,        \* what the Groth16 header takes
    MaxSections,
    NoHeader

QueriesAssumption == Queries \subseteq {3, 5, 6, 7, 8, 9}

VARIABLES
    length,         \* of the file
    file,           \* the sections so far
    position,       \* of the forward reader
    hashed,         \* the words its digest covers
    header,         \* the Groth16 header it parsed
    slots,          \* the section that filled each part of the key
    reserved,       \* the entries it reserved
    outcome         \* "reading", "refused" (by a section), "parsed",
                    \* "incomplete", "loaded" or "rejected"

vars == <<length, file, position, hashed, header, slots, reserved, outcome>>

Required == Queries \cup {2, 4}
Unit(id) == IF id = 7 THEN 2 ELSE 1

\* How many points a query section holds.
Count(groth, id) ==
    CASE id = 3 -> groth.public + 1
      [] id = 8 -> groth.vars - (groth.public + 1)
      [] id = 9 -> groth.domain
      [] OTHER -> groth.vars

\* HeaderGroth::read.
HeaderIsValid(groth) == groth.vars > groth.public /\ groth.domain \in {2 ^ i : i \in 0..8}

\* Section 4 must be filled by its count and by records that leave constraints.
MatricesAreValid(section) ==
    section.size = 1 + section.content.records /\ section.content.constraints >= 0

\* The prover sizes its domain from the constraints; a larger one in the header
\* would leave bases of the H query without a scalar.
DomainFits(groth, matrices) ==
    groth.domain = Min({n \in {2 ^ i : i \in 0..8} : n >= matrices.constraints + groth.public + 1})

-----------------------------------------------------------------------------
(* The seeking reader *)

Start(k) == 1 + FoldFunctionOnSet(+, 0, [i \in DOMAIN file |-> 1 + file[i].size], 1..(k - 1)) + 1
Indexed == {k \in DOMAIN file : Start(k) + file[k].size <= length}
WithId(id) == {k \in DOMAIN file : file[k].id = id}
SectionOf(id) == CHOOSE k \in WithId(id) : TRUE

\* Every section ends in the file, each that is needed is there once and has
\* its size; the header is read from its start, wherever its section ends.
SeekAccepts ==
    /\ Indexed = DOMAIN file
    /\ \A id \in Required : Cardinality(WithId(id)) = 1
    /\ LET groth == file[SectionOf(2)].content
       IN  /\ Start(SectionOf(2)) + HeaderWords <= length /\ HeaderIsValid(groth)
           /\ \A id \in Queries : file[SectionOf(id)].size = Count(groth, id) * Unit(id)
           /\ MatricesAreValid(file[SectionOf(4)])
           /\ DomainFits(groth, file[SectionOf(4)].content)

-----------------------------------------------------------------------------
(* The forward reader *)

Init ==
    /\ length \in Lengths /\ file = <<>>
    /\ position = 1 /\ hashed = {0}
    /\ header = NoHeader /\ slots = <<>> /\ reserved = {} /\ outcome = "reading"

\* validate_dimensions: every section that the header sizes fits in the file.
DimensionsFit(groth) ==
    groth.vars * Unit(5) <= length /\ groth.vars * Unit(7) <= length /\ groth.domain * Unit(9) <= length

\* Mutation: a later section of an id takes the place of the first.
FillsSlot_Again(id) == TRUE

\* A part of the key is filled once.
FillsSlot(id) == id \notin DOMAIN slots

\* What a section's parser consumes, or that it refuses.
Parses(section, from) ==
    CASE section.id = 2 -> /\ from + HeaderWords <= length /\ HeaderIsValid(section.content)
                           /\ DimensionsFit(section.content) /\ FillsSlot(2)
      [] section.id = 4 -> header # NoHeader /\ MatricesAreValid(section) /\ FillsSlot(4)
      [] section.id \in Queries ->
            /\ header # NoHeader /\ FillsSlot(section.id)
            /\ section.size = Count(header, section.id) * Unit(section.id)
      [] OTHER -> TRUE
Consumed(section) ==
    IF section.id = 2 THEN HeaderWords ELSE IF section.id \in Required THEN section.size ELSE 0
Reserves(section) ==
    CASE section.id = 4 /\ header # NoHeader -> {section.size, header.domain}
      [] section.id \in Queries /\ header # NoHeader -> {Count(header, section.id) * Unit(section.id)}
      [] OTHER -> {}

\* Everything up to the section's end is digested, parsed or not.
HashedTo(from, parsed, end) == hashed \cup {from - 1} \cup from..(end - 1)

\* The next section of the file; a parser that ran past its end is refused, as
\* the reader does not go back.
ReadSection ==
    /\ outcome \in {"reading", "refused"} /\ Len(file) < MaxSections
    /\ \E section \in Sections :
        LET from == position + 1
            end == from + section.size
        IN  /\ file' = Append(file, section)
            /\ IF outcome = "reading" /\ end <= length /\ Parses(section, from) /\ from + Consumed(section) <= end
               THEN /\ position' = end
                    /\ hashed' = HashedTo(from, Consumed(section), end)
                    /\ header' = IF section.id = 2 THEN section.content ELSE header
                    /\ slots' = IF section.id \in Required
                                THEN (section.id :> Len(file')) @@ slots ELSE slots
                    /\ reserved' = reserved \cup Reserves(section)
                    /\ outcome' = outcome
               ELSE /\ outcome' = "refused"
                    /\ reserved' = IF outcome = "reading" /\ end <= length
                                   THEN reserved \cup Reserves(section) ELSE reserved
                    /\ UNCHANGED <<position, hashed, header, slots>>
    /\ UNCHANGED length

\* The sections are over; the rest of the file is digested, the key is put
\* together and its domain is checked.
Finish ==
    /\ outcome = "reading"
    /\ position' = length
    /\ hashed' = hashed \cup position..(length - 1)
    /\ outcome' = IF DOMAIN slots = Required /\ DomainFits(header, file[slots[4]].content)
                  THEN "parsed" ELSE "incomplete"
    /\ UNCHANGED <<length, file, header, slots, reserved>>

\* Prover::from_zkey_reader and from_zkey_manifest_reader: the digest is the
\* pin's, and the anchors and the ends of the queries are on their curves.
Load ==
    /\ outcome = "parsed"
    /\ \E pinned \in BOOLEAN, spotChecked \in BOOLEAN :
        outcome' = IF pinned /\ spotChecked THEN "loaded" ELSE "rejected"
    /\ UNCHANGED <<length, file, position, hashed, header, slots, reserved>>

Next == ReadSection \/ Finish \/ Load
Spec == Init /\ [][Next]_vars

-----------------------------------------------------------------------------
(* Properties *)

\* The two readers make the same key of a file: what the forward pass takes is
\* taken by seeking, each part of the key from the same section.
ForwardKeysAreSeekKeys ==
    outcome \in {"parsed", "loaded"} => SeekAccepts /\ \A id \in Required : slots[id] = SectionOf(id)

\* "This requires the Groth header (section 2) to precede the query sections"
\* (read_zkey_sequential), and nothing more: a file that seeking takes, whose
\* header comes first and fills its section, gets through the forward pass as
\* far as it was read.
HeaderFirstIsEnough ==
    LET inOrder == \A k \in DOMAIN file : file[k].id \in Required \ {2} => SectionOf(2) < k
    IN  SeekAccepts /\ inOrder /\ file[SectionOf(2)].size >= HeaderWords => header # NoHeader /\ DOMAIN slots = Required

\* "The returned digest therefore covers exactly the bytes that were parsed":
\* the digest of an accepted file covers every word of it, sections that no
\* parser knows and bytes after the last one included.
DigestCoversTheFile == outcome \in {"parsed", "loaded"} => hashed = 0..(length - 1)

\* "Reject header dimensions the artifact could not possibly hold": nothing is
\* reserved for more entries than the file has words, whatever the header says
\* and whatever comes after it.
ReservationsFitTheFile == \A entries \in reserved : entries <= length
=============================================================================
