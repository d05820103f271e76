---------------------------- MODULE ZkeyBuilder ----------------------------
(***************************************************************************)
(* SPARROW's StreamingProofBuilder: a zkey arrives section by section      *)
(* through the framing API, each section is consumed by a processor of its *)
(* own, and the assignment and the quotient evaluations are let go as soon *)
(* as no later section needs them.                                         *)
(*                                                                         *)
(* The bytes of a section are units told apart by what the builder sees of *)
(* them; QueryStream and CoefficientStream look inside the processors.     *)
(* A push that fails is an error to the caller, and the readers of the     *)
(* crate give up on it.  A caller of the framing API may go on: the        *)
(* builder has counted and hashed nothing of that push, but its processor  *)
(* has taken some of it.                                                   *)
(* The proofs are for every file order and every length of a section.      *)
(***************************************************************************)
EXTENDS Naturals, Sequences, Functions, TLAPS

CONSTANTS
    FileOrder,      \* the sections of the pinned file, in its order
    Length,         \* the units of each section of the pinned file
    MaxLength,      \* units a section whose size is not fixed may declare
    None            \* no hasher, no active section

Sections == 1..10

\* "other" bytes parse but are not the file's; "late" ones are refused when
\* their section ends and "bad" ones as soon as a processor decodes them.
Units == {"file", "other", "late", "bad"}

ASSUME ZkeyBuilderAssumption ==
    /\ FileOrder \in [Sections -> Sections] /\ Range(FileOrder) = Sections
    /\ Length \in [Sections -> Nat] /\ MaxLength \in Nat
    /\ \A id \in Sections : Length[id] <= MaxLength
    /\ None \notin [same : BOOLEAN, sections : Nat, units : Nat]
    /\ None \notin [id : Sections, length : Nat, received : Seq(Units), spoiled : BOOLEAN]

VARIABLES
    hasher,         \* the digest so far: how much of the pinned file it covers
    began, seen, active,
    assignment, header, h,
    parts,          \* the values the proof is assembled from
    outcome,
    altered,        \* ghost: whether a section that ended was not the file's
    resumed         \* ghost: the kinds of section that ended after a failed push

vars == <<hasher, began, seen, active, assignment, header, h, parts, outcome, altered, resumed>>

NeedsAssignment == 4..8
Queries == 5..9
Kind(id) == IF id \in Queries THEN "query" ELSE "other"

\* SHA-256 as what it has covered, while that is the pinned file so far: the
\* header, then `units` of the last of `sections` sections, ids and sizes
\* included.
FileDigest(sections, units) == [same |-> TRUE, sections |-> sections, units |-> units]
OtherDigest == [same |-> FALSE, sections |-> 0, units |-> 0]
PartLength(sections) == IF sections = 0 THEN 1 ELSE Length[FileOrder[sections]]
Whole(digest) == digest.units = PartLength(digest.sections)
Absorb(continues, sections, units) ==
    hasher' = IF hasher = None THEN None
              ELSE IF hasher.same /\ continues THEN FileDigest(sections, units) ELSE OtherDigest

\* new and new_manifest_authenticated, which keeps no hasher.
Init ==
    /\ hasher \in {None, FileDigest(0, 0)}
    /\ began = FALSE /\ seen = {} /\ active = None
    /\ assignment = TRUE /\ header = FALSE /\ h = FALSE
    /\ parts = {} /\ outcome = "open" /\ altered = FALSE /\ resumed = {}

BeginZkey(wellFormed) ==
    /\ outcome = "open"
    /\ IF ~began /\ active = None /\ wellFormed
       THEN began' = TRUE /\ Absorb(TRUE, 0, 1)
       ELSE UNCHANGED <<began, hasher>>
    /\ UNCHANGED <<seen, active, assignment, header, h, parts, outcome, altered, resumed>>

\* Only the coefficients and the contributions have a size of their own.
SizeAllowed(id, length) ==
    /\ id \notin {4, 10} => length = Length[id]
    /\ length <= MaxLength

\* Whether the section has a processor now.
ProcessorFor(id, length) ==
    /\ id \in 3..9 => header
    /\ id \in NeedsAssignment => assignment
    /\ id = 9 => h
    /\ SizeAllowed(id, length)

BeginSection(id, length) ==
    /\ outcome = "open"
    /\ IF /\ began /\ active = None
          /\ id \in Sections \ seen /\ ProcessorFor(id, length)
       THEN /\ active' = [id |-> id, length |-> length, received |-> <<>>, spoiled |-> FALSE]
            /\ Absorb(/\ Whole(hasher) /\ hasher.sections < 10
                      /\ FileOrder[hasher.sections + 1] = id /\ Length[id] = length,
                      hasher.sections + 1, 0)
       ELSE UNCHANGED <<active, hasher>>
    /\ UNCHANGED <<began, seen, assignment, header, h, parts, outcome, altered, resumed>>

HasRoom(section) == Len(section.received) < section.length

\* Whether the processor may take a unit.  A coefficient that does not decode
\* stays in its batch, which is then past full and left for the end.  A query
\* has lost its carry and kept the points before the failure: what it makes of
\* the next unit depends on both.
Takings(section, unit) ==
    CASE section.id \notin 4..9 -> {TRUE}
      [] section.id \in 4..9 /\ ~section.spoiled -> {unit # "bad"}
      [] section.id = 4 /\ section.spoiled -> {TRUE}
      [] section.id \in Queries /\ section.spoiled -> BOOLEAN

\* The unit is counted and hashed only after the processor took it.
PushSectionChunk(unit) ==
    /\ outcome = "open"
    /\ IF active = None \/ ~HasRoom(active)
       THEN UNCHANGED <<active, hasher>>
       ELSE \E taken \in Takings(active, unit) :
            IF taken
            THEN /\ active' = [active EXCEPT !.received = Append(@, unit)]
                 /\ Absorb(unit = "file" /\ ~Whole(hasher), hasher.sections, hasher.units + 1)
            ELSE active' = [active EXCEPT !.spoiled = TRUE] /\ UNCHANGED hasher
    /\ UNCHANGED <<began, seen, assignment, header, h, parts, outcome, altered, resumed>>

\* Whether the processor may turn what it received into its part.  The
\* assignment is read by the header (its length and the public inputs).  The
\* coefficients decode their batch again; a query closes after a failed push if
\* it has its number of points and its first and last are on the curve.
Closings(section) ==
    IF section.id \in Queries /\ section.spoiled THEN BOOLEAN
    ELSE {/\ ~section.spoiled
          /\ section.id # 10 => {"late", "bad"} \cap Range(section.received) = {}
          /\ section.id = 2 => assignment
          /\ section.id = 3 => header}

\* Mutation: the assignment is released after the four queries 5 to 8.
ReleaseAfter_Queries(sections) == 5..8 \subseteq sections
\* The coefficients and four queries read the assignment.
ReleaseAfter(sections) == NeedsAssignment \subseteq sections

IsFile(section) ==
    /\ Len(section.received) = Length[section.id]
    /\ Range(section.received) \subseteq {"file"}

\* What an ended section adds; one whose processor failed is dropped.
EndTaken(section, closes) ==
    [seen |-> seen \cup (IF closes THEN {section.id} ELSE {}),
     parts |-> parts \cup (IF closes THEN {section.id} \ {1, 4, 10} ELSE {})]

\* A section that is short stays active.  Otherwise it is taken, and the
\* arrays no later section reads are released.
EndSection ==
    /\ outcome = "open"
    /\ IF active = None \/ HasRoom(active)
       THEN UNCHANGED <<active, seen, parts, header, h, assignment, altered, resumed>>
       ELSE \E closes \in Closings(active) :
            LET done == EndTaken(active, closes)
            IN  /\ active' = None
                /\ seen' = done.seen /\ parts' = done.parts
                /\ header' = (header \/ 2 \in done.parts)
                /\ h' = (IF active.id = 4 THEN closes ELSE h /\ 9 \notin done.seen)
                /\ assignment' = (assignment /\ ~ReleaseAfter(done.seen))
                /\ altered' = (altered \/ (closes /\ ~IsFile(active)))
                /\ resumed' = resumed \cup (IF closes /\ active.spoiled THEN {Kind(active.id)} ELSE {})
    /\ UNCHANGED <<hasher, began, outcome>>

\* The digest is the pinned one.
HashMatches == hasher = None \/ (hasher.same /\ hasher.sections = 10 /\ Whole(hasher))

\* finish consumes the builder; the new proof is verified before it is
\* returned, and a key that is not the file's, or was not summed from it, may
\* fail that.
Finish(verifies) ==
    /\ outcome = "open" /\ (~altered /\ resumed = {} => verifies)
    /\ outcome' = IF active # None \/ ~began \/ seen # Sections THEN "incomplete"
                  ELSE IF ~HashMatches THEN "mismatch"
                  ELSE IF parts # {2, 3, 5, 6, 7, 8, 9} THEN "missing"
                  ELSE IF ~verifies THEN "unverified" ELSE "proved"
    /\ UNCHANGED <<hasher, began, seen, active, assignment, header, h, parts, altered, resumed>>

Next ==
    \/ \E wellFormed \in BOOLEAN : BeginZkey(wellFormed)
    \/ \E id \in 0..11, length \in 0..(MaxLength + 1) : BeginSection(id, length)
    \/ \E unit \in Units : PushSectionChunk(unit)
    \/ EndSection
    \/ \E verifies \in BOOLEAN : Finish(verifies)

Spec == Init /\ [][Next]_vars

-----------------------------------------------------------------------------
(* Properties *)

\* What is kept belongs to sections seen, and no section is over its size.
TypeOK ==
    /\ seen \subseteq Sections /\ parts \subseteq seen
    /\ header => 2 \in seen
    /\ h => 4 \in seen /\ 9 \notin seen
    /\ active # None => active.id \in Sections \ seen /\ Len(active.received) <= active.length

\* Whatever order the sections arrive in, one whose own prerequisites have
\* been seen (the header, and the coefficients before the H query) is never
\* refused: nothing it needs has been released, even after sections that
\* failed and were sent again.
NeededIsThere ==
    outcome = "open" /\ began /\ active = None =>
        \A id \in Sections \ seen :
            (id \in 3..9 => 2 \in seen) /\ (id = 9 => 4 \in seen) => ProcessorFor(id, Length[id])

\* The quotient evaluations are there when the H query starts, and they are
\* made only while the assignment is.
DependenciesPrecede ==
    active # None =>
        /\ active.id \in 3..9 => 2 \in seen
        /\ active.id \in NeedsAssignment => assignment
        /\ active.id = 9 => h

\* "missing ..." is unreachable: ten sections seen are ten parts.
FinishNeverMisses == outcome # "missing"

\* A builder that hashes proves from the bytes of the pinned file and nothing
\* else: those of a section that was dropped and sent again are in the digest
\* too.  What was summed is those bytes, except in a query whose caller went on
\* after a push that failed: its points may be others than the digest covers,
\* and only the check of the finished proof is left.  The coefficients never
\* end after such a push.
ProvesOnlyTheFile ==
    outcome = "proved" => (hasher # None => ~altered) /\ resumed \subseteq {"query"}

\* Sections may come in any order their prerequisites allow, some dropped and
\* sent again: what a later one needs is still there, finish misses nothing,
\* and the bytes hashed are those of the pinned file (StreamingProofBuilder).
NothingNeededWasReleased ==
    /\ TypeOK /\ NeededIsThere /\ DependenciesPrecede /\ FinishNeverMisses /\ ProvesOnlyTheFile

-----------------------------------------------------------------------------
(* Proofs *)

Digest == [same : BOOLEAN, sections : Nat, units : Nat]
Section == [id : Sections, length : Nat, received : Seq(Units), spoiled : BOOLEAN]
Outcomes == {"open", "incomplete", "mismatch", "missing", "unverified", "proved"}
Partless == {1, 4, 10}

\* The type of each variable.
Flags ==
    /\ began \in BOOLEAN /\ assignment \in BOOLEAN /\ header \in BOOLEAN
    /\ h \in BOOLEAN /\ altered \in BOOLEAN /\ resumed \subseteq {"query"}
Data ==
    /\ hasher \in {None} \cup Digest /\ active \in {None} \cup Section
    /\ seen \subseteq Sections /\ outcome \in Outcomes

\* What is kept is what the sections seen left, and what later ones read.
Kept ==
    /\ parts = seen \ Partless
    /\ header <=> 2 \in seen
    /\ h <=> 4 \in seen /\ 9 \notin seen
    /\ 9 \in seen => 4 \in seen
    /\ assignment <=> ~ReleaseAfter(seen)

\* The section in progress has what its processor reads.
InProgress ==
    active # None =>
        /\ began /\ active.id \notin seen /\ Len(active.received) <= active.length
        /\ active.id \in 3..9 => header
        /\ active.id \in NeedsAssignment => assignment
        /\ active.id = 9 => h

\* The digest of the file's first bytes has seen the file's sections only, and
\* the section in progress is the one it ends in.
DigestFollows ==
    hasher # None /\ hasher.same =>
        /\ ~altered
        /\ active # None =>
            /\ active.length = Length[active.id] /\ Len(active.received) = hasher.units
            /\ hasher.sections \in Sections /\ active.id = FileOrder[hasher.sections]
            /\ Range(active.received) \subseteq {"file"}

\* A proof was made over the pinned bytes, of all its parts.
Finished ==
    /\ outcome # "missing"
    /\ outcome = "proved" => HashMatches

BuilderInv == Flags /\ Data /\ Kept /\ InProgress /\ DigestFollows /\ Finished
-----------------------------------------------------------------------------
\* The invariant is stronger than the checked property.
LEMMA BuilderInvIsProperty == BuilderInv => NothingNeededWasReleased
<1> SUFFICES ASSUME BuilderInv PROVE NothingNeededWasReleased OBVIOUS
<1>a. Flags /\ Data /\ Kept /\ InProgress /\ DigestFollows /\ Finished BY DEF BuilderInv
<1>1. TypeOK
    BY <1>a DEF TypeOK, Data, Kept, InProgress, Section
<1>2. NeededIsThere
    <2> SUFFICES ASSUME NEW id \in Sections \ seen, id \in 3..9 => 2 \in seen,
                        id = 9 => 4 \in seen
                 PROVE  ProcessorFor(id, Length[id])
        BY DEF NeededIsThere
    <2>1. id \in NeedsAssignment => assignment
        BY <1>a DEF Kept, ReleaseAfter
    <2>2. SizeAllowed(id, Length[id]) BY ZkeyBuilderAssumption DEF SizeAllowed
    <2> QED BY <1>a, <2>1, <2>2 DEF ProcessorFor, Kept
<1>3. DependenciesPrecede BY <1>a DEF DependenciesPrecede, InProgress, Kept
<1>4. FinishNeverMisses BY <1>a DEF FinishNeverMisses, Finished
<1>5. ProvesOnlyTheFile BY <1>a DEF ProvesOnlyTheFile, Flags, Finished, HashMatches, DigestFollows
<1> QED BY <1>1, <1>2, <1>3, <1>4, <1>5 DEF NothingNeededWasReleased

\* A fresh builder.
LEMMA BuilderInvAtStart == Init => BuilderInv
<1> SUFFICES ASSUME Init PROVE BuilderInv OBVIOUS
<1>1. FileDigest(0, 0) \in Digest BY DEF FileDigest, Digest
<1>2. Flags BY DEF Init, Flags
<1>3. Data BY <1>1 DEF Init, Data, Outcomes
<1>4. Kept BY DEF Init, Kept, ReleaseAfter, NeedsAssignment
<1>5. InProgress /\ DigestFollows /\ Finished
    BY DEF Init, InProgress, DigestFollows, Finished
<1> QED BY <1>2, <1>3, <1>4, <1>5 DEF BuilderInv

\* What the digest becomes.
LEMMA Absorbed ==
    ASSUME NEW continues \in BOOLEAN, NEW sections \in Nat, NEW units \in Nat,
           Absorb(continues, sections, units), Data
    PROVE  /\ hasher' \in {None} \cup Digest
           /\ hasher' # None /\ hasher'.same =>
                /\ hasher # None /\ hasher.same /\ continues
                /\ hasher'.sections = sections /\ hasher'.units = units
<1>1. FileDigest(sections, units) \in Digest /\ OtherDigest \in Digest /\ ~OtherDigest.same
    BY DEF FileDigest, OtherDigest, Digest
<1>2. /\ FileDigest(sections, units).sections = sections
      /\ FileDigest(sections, units).units = units
    BY DEF FileDigest
<1> QED BY <1>1, <1>2 DEF Absorb, Data

\* The header is read once, before every section.
LEMMA HeaderKeeps ==
    ASSUME BuilderInv, NEW wellFormed \in BOOLEAN, BeginZkey(wellFormed)
    PROVE  BuilderInv'
<1>a. Flags /\ Data /\ Kept /\ InProgress /\ DigestFollows /\ Finished BY DEF BuilderInv
<1>1. /\ outcome = "open"
      /\ UNCHANGED <<seen, active, assignment, header, h, parts, outcome, altered, resumed>>
    BY DEF BeginZkey
<1>2. CASE UNCHANGED <<began, hasher>>
    BY <1>a, <1>1, <1>2
       DEF BuilderInv, Flags, Data, Kept, InProgress, DigestFollows, Finished, HashMatches, Whole
<1>3. CASE began' = TRUE /\ active = None /\ Absorb(TRUE, 0, 1)
    <2>1. /\ hasher' \in {None} \cup Digest
          /\ hasher' # None /\ hasher'.same => hasher # None /\ hasher.same
        BY <1>a, <1>3, Absorbed
    <2>2. Flags' BY <1>a, <1>1, <1>3 DEF Flags
    <2>3. Data' BY <1>a, <1>1, <2>1 DEF Data
    <2>4. Kept' BY <1>a, <1>1 DEF Kept
    <2>5. InProgress' BY <1>1, <1>3 DEF InProgress
    <2>6. DigestFollows' BY <1>a, <1>1, <1>3, <2>1 DEF DigestFollows
    <2>7. Finished' BY <1>1 DEF Finished
    <2> QED BY <2>2, <2>3, <2>4, <2>5, <2>6, <2>7 DEF BuilderInv
<1> QED BY <1>2, <1>3 DEF BeginZkey

\* A section begins with what it needs.
LEMMA BeginSectionKeeps ==
    ASSUME BuilderInv, NEW id \in 0..11, NEW length \in Nat, BeginSection(id, length)
    PROVE  BuilderInv'
<1>a. Flags /\ Data /\ Kept /\ InProgress /\ DigestFollows /\ Finished BY DEF BuilderInv
<1>1. /\ outcome = "open"
      /\ UNCHANGED <<began, seen, assignment, header, h, parts, outcome, altered, resumed>>
    BY DEF BeginSection
<1>2. CASE UNCHANGED <<active, hasher>>
    BY <1>a, <1>1, <1>2
       DEF BuilderInv, Flags, Data, Kept, InProgress, DigestFollows, Finished, HashMatches, Whole
<1> DEFINE continues == /\ Whole(hasher) /\ hasher.sections < 10
                        /\ FileOrder[hasher.sections + 1] = id /\ Length[id] = length
           new == [id |-> id, length |-> length, received |-> <<>>, spoiled |-> FALSE]
<1>3. CASE /\ began /\ active = None /\ id \in Sections \ seen /\ ProcessorFor(id, length)
           /\ active' = new /\ Absorb(continues, hasher.sections + 1, 0)
    <2>1. /\ new \in Section /\ new.id = id /\ new.length = length /\ new.received = <<>>
        <3>1. <<>> \in Seq(Units) OBVIOUS
        <3> QED BY <1>3, <3>1 DEF Section
    <2>2. new # None BY <2>1, ZkeyBuilderAssumption DEF Section
    <2> HIDE DEF new
    <2>3. /\ hasher' \in {None} \cup Digest
          /\ hasher' # None /\ hasher'.same =>
                /\ hasher # None /\ hasher.same /\ continues
                /\ hasher'.sections = hasher.sections + 1 /\ hasher'.units = 0
        <3>1. FileDigest(hasher.sections + 1, 0).same /\ ~OtherDigest.same
            BY DEF FileDigest, OtherDigest
        <3>2. /\ FileDigest(hasher.sections + 1, 0).sections = hasher.sections + 1
              /\ FileDigest(hasher.sections + 1, 0).units = 0
            BY DEF FileDigest
        <3>3. OtherDigest \in Digest BY DEF OtherDigest, Digest
        <3>4. hasher # None => FileDigest(hasher.sections + 1, 0) \in Digest
            BY <1>a DEF FileDigest, Digest, Data
        <3> HIDE DEF continues
        <3> QED BY <1>3, <3>1, <3>2, <3>3, <3>4 DEF Absorb
    <2>4. Flags' BY <1>a, <1>1 DEF Flags
    <2>5. Data' BY <1>a, <1>1, <1>3, <2>1, <2>3 DEF Data
    <2>6. Kept' BY <1>a, <1>1 DEF Kept
    <2>7. InProgress'
        <3>1. length >= 0 OBVIOUS
        <3> QED BY <1>1, <1>3, <2>1, <3>1 DEF InProgress, ProcessorFor
    <2>8. DigestFollows'
        <3> SUFFICES ASSUME hasher' # None, hasher'.same
                     PROVE  /\ ~altered
                            /\ active'.length = Length[active'.id]
                            /\ Len(active'.received) = hasher'.units
                            /\ hasher'.sections \in Sections
                            /\ active'.id = FileOrder[hasher'.sections]
                            /\ Range(active'.received) \subseteq {"file"}
            BY <1>1 DEF DigestFollows
        <3>1. hasher # None /\ hasher.same /\ continues BY <2>3
        <3>2. ~altered BY <1>a, <3>1 DEF DigestFollows
        <3>3. hasher.sections \in Nat BY <1>a, <3>1 DEF Data, Digest
        <3>4. hasher.sections + 1 \in Sections BY <3>1, <3>3 DEF Sections
        <3>5. Range(<<>>) \subseteq {"file"} BY DEF Range
        <3> QED BY <1>3, <2>1, <2>3, <3>1, <3>2, <3>4, <3>5
    <2>9. Finished' BY <1>1 DEF Finished
    <2> QED BY <2>4, <2>5, <2>6, <2>7, <2>8, <2>9 DEF BuilderInv
<1> QED BY <1>2, <1>3 DEF BeginSection

\* What was received grows by a unit.
LEMMA ReceivedGrows ==
    ASSUME NEW s \in Seq(Units), NEW unit \in Units
    PROVE  /\ Append(s, unit) \in Seq(Units) /\ Len(Append(s, unit)) = Len(s) + 1
           /\ Range(Append(s, unit)) = Range(s) \cup {unit}
<1>1. Append(s, unit) \in Seq(Units) /\ Len(Append(s, unit)) = Len(s) + 1 OBVIOUS
<1>2. \A i \in 1..Len(s) : Append(s, unit)[i] = s[i] OBVIOUS
<1>3. Append(s, unit)[Len(s) + 1] = unit OBVIOUS
<1>4. DOMAIN s = 1..Len(s) /\ DOMAIN Append(s, unit) = 1..(Len(s) + 1) /\ Len(s) \in Nat
    OBVIOUS
<1> DEFINE t == Append(s, unit)
<1> HIDE DEF t
<1>5. Range(t) = Range(s) \cup {unit}
    <2>1. ASSUME NEW x \in Range(t) PROVE x \in Range(s) \cup {unit}
        <3>1. PICK i \in 1..(Len(s) + 1) : x = t[i] BY <1>4 DEF Range, t
        <3>2. CASE i = Len(s) + 1 BY <1>3, <3>1, <3>2 DEF t
        <3>3. CASE i \in 1..Len(s) BY <1>2, <1>4, <3>1, <3>3 DEF Range, t
        <3> QED BY <1>4, <3>1, <3>2, <3>3
    <2>2. ASSUME NEW x \in Range(s) PROVE x \in Range(t)
        <3>1. PICK i \in 1..Len(s) : x = s[i] BY <1>4 DEF Range
        <3>2. i \in 1..(Len(s) + 1) BY <1>4
        <3> QED BY <1>2, <1>4, <3>1, <3>2 DEF Range, t
    <2>3. unit \in Range(t)
        <3>1. Len(s) + 1 \in 1..(Len(s) + 1) BY <1>4
        <3> QED BY <1>3, <1>4, <3>1 DEF Range, t
    <2> QED BY <2>1, <2>2, <2>3
<1> QED BY <1>1, <1>5 DEF t

\* A chunk is received and hashed, or refused.
LEMMA PushKeeps ==
    ASSUME BuilderInv, NEW unit \in Units, PushSectionChunk(unit)
    PROVE  BuilderInv'
<1>a. Flags /\ Data /\ Kept /\ InProgress /\ DigestFollows /\ Finished BY DEF BuilderInv
<1>1. /\ outcome = "open"
      /\ UNCHANGED <<began, seen, assignment, header, h, parts, outcome, altered, resumed>>
    BY DEF PushSectionChunk
<1>2. CASE UNCHANGED <<active, hasher>>
    BY <1>a, <1>1, <1>2
       DEF BuilderInv, Flags, Data, Kept, InProgress, DigestFollows, Finished, HashMatches, Whole
<1>3. Flags' /\ Kept' /\ Finished' BY <1>a, <1>1 DEF Flags, Kept, Finished
<1>4. CASE active # None /\ active' = [active EXCEPT !.spoiled = TRUE] /\ hasher' = hasher
    <2>1. active \in Section BY <1>a, <1>4 DEF Data
    <2>3. active' \in Section BY <1>4, <2>1 DEF Section
    <2>4. /\ active'.id = active.id /\ active'.length = active.length
          /\ active'.received = active.received
        BY <1>4, <2>1 DEF Section
    <2>5. Data' BY <1>a, <1>1, <1>4, <2>3 DEF Data
    <2>6. InProgress' BY <1>a, <1>1, <1>4, <2>4 DEF InProgress
    <2>7. DigestFollows' BY <1>a, <1>1, <1>4, <2>4 DEF DigestFollows
    <2> QED BY <1>3, <2>5, <2>6, <2>7 DEF BuilderInv
<1> DEFINE longer == Append(active.received, unit)
           continues == unit = "file" /\ ~Whole(hasher)
<1>5. CASE /\ active # None /\ HasRoom(active)
           /\ active' = [active EXCEPT !.received = longer]
           /\ Absorb(continues, hasher.sections, hasher.units + 1)
    <2>1. active \in Section /\ active.received \in Seq(Units) /\ active.length \in Nat
        BY <1>a, <1>5 DEF Data, Section
    <2>2. /\ longer \in Seq(Units) /\ Len(longer) = Len(active.received) + 1
          /\ Range(longer) = Range(active.received) \cup {unit}
        <3> DEFINE s == active.received
        <3>1. s \in Seq(Units) BY <2>1
        <3> HIDE DEF s
        <3>2. /\ Append(s, unit) \in Seq(Units) /\ Len(Append(s, unit)) = Len(s) + 1
              /\ Range(Append(s, unit)) = Range(s) \cup {unit}
            BY <3>1, ReceivedGrows
        <3> QED BY <3>2 DEF s
    <2>3. Len(active.received) \in Nat /\ Len(active.received) < active.length
        BY <1>5, <2>1 DEF HasRoom
    <2> HIDE DEF longer
    <2>4. /\ active' \in Section /\ active'.id = active.id /\ active'.length = active.length
          /\ active'.received = longer
        BY <1>5, <2>1, <2>2 DEF Section
    <2>5. /\ hasher' \in {None} \cup Digest
          /\ hasher' # None /\ hasher'.same =>
                /\ hasher # None /\ hasher.same /\ continues
                /\ hasher'.sections = hasher.sections /\ hasher'.units = hasher.units + 1
        <3> DEFINE after == FileDigest(hasher.sections, hasher.units + 1)
        <3>1. after.same /\ ~OtherDigest.same
            BY DEF FileDigest, OtherDigest
        <3>2. after.sections = hasher.sections /\ after.units = hasher.units + 1
            BY DEF FileDigest
        <3>3. OtherDigest \in Digest BY DEF OtherDigest, Digest
        <3>4. hasher # None => after \in Digest
            BY <1>a DEF FileDigest, Digest, Data
        <3>5. hasher' = IF hasher = None THEN None
                        ELSE IF hasher.same /\ continues THEN after ELSE OtherDigest
            BY <1>5 DEF Absorb
        <3> HIDE DEF continues, after
        <3> QED BY <3>1, <3>2, <3>3, <3>4, <3>5
    <2>6. Data' BY <1>a, <1>1, <2>4, <2>5 DEF Data
    <2>7. InProgress'
        <3>1. Len(longer) <= active.length BY <2>1, <2>2, <2>3
        <3>2. /\ began /\ active.id \notin seen /\ (active.id \in 3..9 => header)
              /\ (active.id \in NeedsAssignment => assignment) /\ (active.id = 9 => h)
            BY <1>a, <1>5 DEF InProgress
        <3> QED BY <1>1, <2>4, <3>1, <3>2 DEF InProgress
    <2>8. DigestFollows'
        <3> SUFFICES ASSUME hasher' # None, hasher'.same
                     PROVE  /\ ~altered
                            /\ active'.length = Length[active'.id]
                            /\ Len(active'.received) = hasher'.units
                            /\ hasher'.sections \in Sections
                            /\ active'.id = FileOrder[hasher'.sections]
                            /\ Range(active'.received) \subseteq {"file"}
            BY <1>1 DEF DigestFollows
        <3>1. hasher # None /\ hasher.same /\ unit = "file" BY <2>5
        <3>2. /\ ~altered /\ active.length = Length[active.id]
              /\ Len(active.received) = hasher.units /\ hasher.sections \in Sections
              /\ active.id = FileOrder[hasher.sections]
              /\ Range(active.received) \subseteq {"file"}
            BY <1>a, <1>5, <3>1 DEF DigestFollows
        <3> QED BY <2>2, <2>4, <2>5, <3>1, <3>2
    <2> QED BY <1>3, <2>6, <2>7, <2>8 DEF BuilderInv
<1>6. \/ UNCHANGED <<active, hasher>>
      \/ active # None /\ active' = [active EXCEPT !.spoiled = TRUE] /\ hasher' = hasher
      \/ /\ active # None /\ HasRoom(active)
         /\ active' = [active EXCEPT !.received = longer]
         /\ Absorb(continues, hasher.sections, hasher.units + 1)
    BY DEF PushSectionChunk
<1> QED BY <1>2, <1>4, <1>5, <1>6

\* A section that ends is taken, or dropped; what no later one reads is let go.
LEMMA EndKeeps ==
    ASSUME BuilderInv, EndSection
    PROVE  BuilderInv'
<1>a. Flags /\ Data /\ Kept /\ InProgress /\ DigestFollows /\ Finished BY DEF BuilderInv
<1>1. outcome = "open" /\ UNCHANGED <<hasher, began, outcome>> BY DEF EndSection
<1>2. CASE UNCHANGED <<active, seen, parts, header, h, assignment, altered, resumed>>
    BY <1>a, <1>1, <1>2
       DEF BuilderInv, Flags, Data, Kept, InProgress, DigestFollows, Finished, HashMatches, Whole
<1>3. ASSUME NEW closes \in Closings(active), active # None, ~HasRoom(active), active' = None,
             seen' = EndTaken(active, closes).seen, parts' = EndTaken(active, closes).parts,
             header' = (header \/ 2 \in EndTaken(active, closes).parts),
             h' = (IF active.id = 4 THEN closes ELSE h /\ 9 \notin EndTaken(active, closes).seen),
             assignment' = (assignment /\ ~ReleaseAfter(EndTaken(active, closes).seen)),
             altered' = (altered \/ (closes /\ ~IsFile(active))),
             resumed' = resumed \cup (IF closes /\ active.spoiled THEN {Kind(active.id)} ELSE {})
      PROVE  BuilderInv'
    <2> DEFINE id == active.id
    <2>1. /\ active \in Section /\ id \in Sections /\ id \notin seen
          /\ active.received \in Seq(Units) /\ active.length \in Nat
        BY <1>a, <1>3 DEF Data, Section, InProgress
    <2>2. /\ EndTaken(active, closes).seen = seen \cup (IF closes THEN {id} ELSE {})
          /\ EndTaken(active, closes).parts = parts \cup (IF closes THEN {id} \ {1, 4, 10} ELSE {})
        BY DEF EndTaken
    <2>4. \/ closes /\ seen' = seen \cup {id} /\ parts' = parts \cup ({id} \ Partless)
          \/ ~closes /\ seen' = seen /\ parts' = parts
        BY <1>3, <2>2 DEF Partless
    <2>5. /\ header' = (header \/ 2 \in parts')
          /\ h' = (IF id = 4 THEN closes ELSE h /\ 9 \notin seen')
          /\ assignment' = (assignment /\ ~ReleaseAfter(seen'))
          /\ altered' = (altered \/ (closes /\ ~IsFile(active)))
        BY <1>3
    <2> HIDE DEF id
    <2>6. closes \in BOOLEAN BY <1>3 DEF Closings
    <2>r. resumed' \subseteq {"query"}
        <3>1. closes /\ active.spoiled => id \in Queries BY <1>3 DEF Closings, id
        <3> QED BY <1>a, <1>3, <3>1 DEF Flags, Kind, id
    <2>7. Flags' BY <1>a, <1>1, <2>5, <2>6, <2>r DEF Flags
    <2>8. Data' BY <1>a, <1>1, <1>3, <2>1, <2>4 DEF Data
    <2>9. Kept'
        <3>1. parts' = seen' \ Partless BY <1>a, <2>4 DEF Kept
        <3>2. header' <=> 2 \in seen'
            <4>1. 2 \in parts' <=> 2 \in seen' BY <3>1 DEF Partless
            <4>2. 2 \in seen => 2 \in seen' BY <2>4
            <4>3. header <=> 2 \in seen BY <1>a DEF Kept
            <4> QED BY <2>5, <4>1, <4>2, <4>3
        <3>3. h' <=> 4 \in seen' /\ 9 \notin seen'
            <4>1. CASE id = 4
                <5>1. h' = closes BY <2>5, <4>1
                <5>2. 9 \notin seen
                    BY <1>a, <2>1, <4>1 DEF Kept
                <5> QED BY <2>1, <2>4, <4>1, <5>1, <5>2
            <4>2. CASE id # 4
                <5>1. h' = (h /\ 9 \notin seen') BY <2>5, <4>2
                <5> QED BY <1>a, <2>4, <4>2, <5>1 DEF Kept
            <4> QED BY <4>1, <4>2
        <3>4. assignment' <=> ~ReleaseAfter(seen')
            BY <1>a, <2>4, <2>5 DEF Kept, ReleaseAfter
        <3>5. 9 \in seen' => 4 \in seen'
            BY <1>a, <1>3, <2>4 DEF Kept, InProgress, id
        <3> QED BY <3>1, <3>2, <3>3, <3>4, <3>5 DEF Kept
    <2>10. InProgress' BY <1>3 DEF InProgress
    <2>11. DigestFollows'
        <3> SUFFICES ASSUME hasher # None, hasher.same PROVE ~altered'
            BY <1>1, <1>3 DEF DigestFollows
        <3>1. /\ ~altered /\ active.length = Length[active.id]
              /\ Range(active.received) \subseteq {"file"}
            BY <1>a, <1>3 DEF DigestFollows
        <3>2. Len(active.received) = active.length
            BY <1>a, <1>3, <2>1 DEF InProgress, HasRoom
        <3> QED BY <2>5, <3>1, <3>2 DEF IsFile
    <2>12. Finished' BY <1>1 DEF Finished
    <2> QED BY <2>7, <2>8, <2>9, <2>10, <2>11, <2>12 DEF BuilderInv
<1> QED BY <1>2, <1>3 DEF EndSection

\* Ten sections seen are the seven parts of a proof.
LEMMA FinishKeeps ==
    ASSUME BuilderInv, NEW verifies \in BOOLEAN, Finish(verifies)
    PROVE  BuilderInv'
<1>a. Flags /\ Data /\ Kept /\ InProgress /\ DigestFollows /\ Finished BY DEF BuilderInv
<1>1. UNCHANGED <<hasher, began, seen, active, assignment, header, h, parts, altered, resumed>>
    BY DEF Finish
<1>2. outcome' \in Outcomes BY DEF Finish, Outcomes
<1>3. outcome' = "proved" => HashMatches BY DEF Finish
<1>4. outcome' # "missing"
    <2>1. seen = Sections => parts = {2, 3, 5, 6, 7, 8, 9}
        BY <1>a DEF Kept, Sections, Partless
    <2> QED BY <2>1 DEF Finish
<1>5. HashMatches' <=> HashMatches BY <1>1 DEF HashMatches, Whole
<1>6. Flags' /\ Kept' /\ InProgress' /\ DigestFollows'
    BY <1>a, <1>1 DEF Flags, Kept, InProgress, DigestFollows
<1>7. Data' BY <1>a, <1>1, <1>2 DEF Data
<1>8. Finished' BY <1>3, <1>4, <1>5 DEF Finished
<1> QED BY <1>6, <1>7, <1>8 DEF BuilderInv

\* In whatever order the sections arrive, how many of them are dropped and sent
\* again, and for every file order and size: what a later section needs is
\* still there, finish misses nothing, and a builder that hashes proves from
\* the pinned file only (sparrow.rs: StreamingProofBuilder).
THEOREM NothingNeededWasReleasedHolds == Spec => []NothingNeededWasReleased
<1>1. BuilderInv /\ [Next]_vars => BuilderInv'
    <2> SUFFICES ASSUME BuilderInv, [Next]_vars PROVE BuilderInv' OBVIOUS
    <2>1. CASE UNCHANGED vars
        BY <2>1 DEF vars, BuilderInv, Flags, Data, Kept, InProgress, DigestFollows, Finished,
                    HashMatches, Whole
    <2>2. CASE Next
        <3>1. \A length \in 0..(MaxLength + 1) : length \in Nat BY ZkeyBuilderAssumption
        <3> QED
            BY <2>2, <3>1, HeaderKeeps, BeginSectionKeeps, PushKeeps, EndKeeps, FinishKeeps DEF Next
    <2> QED BY <2>1, <2>2
<1> QED BY <1>1, BuilderInvAtStart, BuilderInvIsProperty, PTL DEF Spec
=============================================================================
