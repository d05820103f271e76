---------------------------- MODULE MCArtifacts -----------------------------
(***************************************************************************)
(* The artifacts a prover is given: files read again after they were hashed, *)
(* manifests, zkeys and compact zkeys, and the system's zstd.              *)
(***************************************************************************)
EXTENDS Integers, Sequences, AuthenticatedReader

CONSTANTS
    Parts,   \* the components that run
    None

VARIABLES
    part,   \* which component runs
    v1, v2, v3, v4, v5, v6, v7, v8, v9, v10   \* its variables, but for the reader's

\* A domain of four of which one public input takes a row.  Two signals, and
\* every record that is refused; the source is free to answer each read of
\* each pass differently.
Record == [matrix |-> 0, constraint |-> 0, signal |-> 0, value |-> 1]
MCRecords ==
    [matrix : {0, 1}, constraint : {0, 1, 3}, signal : {0, 1}, value : {1}]
    \cup {[Record EXCEPT !.matrix = 2], [Record EXCEPT !.constraint = 4],
          [Record EXCEPT !.signal = 2], [Record EXCEPT !.value = 5]}

\* The header, the coefficients, one query in G2 and the H query, with a
\* section that no parser knows, of the right size and of others.
Header(variables, public, domain) == [vars |-> variables, public |-> public, domain |-> domain]
Section(id, size, content) == [id |-> id, size |-> size, content |-> content]
MCSections ==
    {Section(2, size, Header(2, 0, 2)) : size \in 1..3}
    \cup {Section(2, 2, Header(2, 0, 16)), Section(2, 2, Header(1, 1, 2))}
    \cup {Section(4, 2, [records |-> 1, constraints |-> c]) : c \in {-1, 1}}
    \cup {Section(7, 4, <<>>), Section(7, 2, <<>>), Section(9, 2, <<>>), Section(9, 16, <<>>),
          Section(10, 1, <<>>)}

\* The encoder is given every pair of words as a G1 point, every four as a G2
\* point, points that need two batches, and coefficients of two records.
Region(id, region) == [id |-> id, region |-> region]
Zkey(sections) == [sections |-> sections, trailing |-> FALSE]
MCFq == 0..6
MCSources ==
    {Zkey(<<Region(3, <<x, y>>)>>) : x \in 0..7, y \in 0..7}
    \cup {Zkey(<<Region(7, <<a, b, c, d>>)>>) : a \in MCFq, b \in MCFq, c \in MCFq, d \in MCFq}
    \cup {Zkey(<<Region(5, <<2, 4, x, y, 0, 0>>), Region(4, <<n, 1, 0, 0, 1, 1, 1>>)>>) :
            x \in MCFq, y \in MCFq, n \in {2, 3}}
    \cup {Zkey(<<Region(4, <<>>)>>), Zkey(<<Region(3, <<1>>)>>),
          Zkey(<<Region(1, <<9>>), Region(1, <<>>), Region(2, <<>>)>>)}
    \cup {[sections |-> <<Region(1, <<1>>)>>, trailing |-> TRUE]}
MCTableEntries == [id : {3}, words : 0..7, tag : 0..4]

-----------------------------------------------------------------------------
(* The components *)

\* Zkeys of three, four and five bytes in chunks of two.
Manifests == INSTANCE ZkeyManifests WITH
    Zkeys <- {<<1, 2, 3>>, <<1, 2, 5, 6>>, <<1, 2, 3, 4, 5>>}, ChunkBytes <- 2,
    MaxWrites <- 2, file <- v1, writes <- v2, manifest <- v3, trusted <- v4,
    verified <- v5, reader <- v6, delivered <- v7, dirty <- v8, last <- v9
ASSUME Manifests!ManifestAssumption

Matrices == INSTANCE ZkeyMatrices WITH
    DomainSize <- 4, VarCount <- 2, PublicCount <- 1, Modulus <- 5,
    Records <- MCRecords, MaxRecords <- 2, phase <- v1, declared <- v2, first <- v3,
    second <- v4, ends <- v5, cursors <- v6, cells <- v7
ASSUME Matrices!HeaderAssumption

\* Files of up to five sections in any order, some repeated or missing.
File == INSTANCE ZkeyFile WITH
    Lengths <- {15, 18}, Sections <- MCSections, Queries <- {7, 9}, HeaderWords <- 2,
    MaxSections <- 5, NoHeader <- None, length <- v1, file <- v2, position <- v3,
    hashed <- v4, header <- v5, slots <- v6, reserved <- v7, outcome <- v8
ASSUME File!QueriesAssumption

\* Fq of seven elements and Fq2 of 49, with 2 for the Montgomery radix and
\* batches of two; files list up to two sections of any encoding.
Compact == INSTANCE CompactZkey WITH
    P <- 7, Window <- 2, Radix <- 2, G1B <- 3, G2B <- <<1, 2>>, Words <- 0..7,
    Sources <- MCSources, TableEntries <- MCTableEntries,
    FileLengths <- {1, 4, 6, 8, 9}, Limits <- {8, 9}, RecordWords <- {0, 1},
    PointsPerBatch <- 2, CoefficientsPerBatch <- 2, MaxSections <- 2, mode <- v1,
    source <- v2, file <- v3, count <- v4, table <- v5, read <- v6, zkey <- v7,
    filled <- v8, column <- v9, phase <- v10
ASSUME Compact!PAssumption

\* Square roots in the field of 83^2 elements, whose exponent 20 = 10100 has
\* windows that end in zeros, zeros between windows and zeros at its end.
Roots == INSTANCE CompactZkey WITH
    P <- 83, Window <- 2, Radix <- 2, G1B <- 3, G2B <- <<1, 2>>, Words <- 0..7,
    Sources <- MCSources, TableEntries <- MCTableEntries,
    FileLengths <- {1, 4, 6, 8, 9}, Limits <- {8, 9}, RecordWords <- {0, 1},
    PointsPerBatch <- 2, CoefficientsPerBatch <- 2, MaxSections <- 2, mode <- v1,
    source <- v2, file <- v3, count <- v4, table <- v5, read <- v6, zkey <- v7,
    filled <- v8, column <- v9, phase <- v10
ASSUME Roots!PAssumption

Zstd == INSTANCE SystemZstd WITH
    Blocks <- 7, PipeBlocks <- 2, ChildBlocks <- 1, child <- v1, writer <- v2,
    written <- v3, taken <- v4, given <- v5, drained <- v6, result <- v7
ASSUME Zstd!BlocksAssumption

zstdVars == Zstd!vars

\* One root is taken of each element.
RootsInit == v1 \in Roots!Fq2 /\ v2 = <<>>
RootsNext == v2 = <<>> /\ v2' = <<Roots!SqrtFq2(v1)>> /\ UNCHANGED v1

-----------------------------------------------------------------------------
(* One of them runs; the others stand still. *)

suiteVars == <<part, vars, v1, v2, v3, v4, v5, v6, v7, v8, v9, v10>>

SuiteInit ==
    /\ part \in Parts
    /\ Init
    /\ \/ /\ part = "reader"
          /\ v1 = 0 /\ v2 = 0 /\ v3 = 0 /\ v4 = 0 /\ v5 = 0 /\ v6 = 0 /\ v7 = 0 /\ v8 = 0 /\ v9 = 0 /\ v10 = 0
       \/ /\ part = "manifests" /\ Manifests!Init
          /\ v10 = 0
       \/ /\ part = "matrices" /\ Matrices!Init
          /\ v8 = 0 /\ v9 = 0 /\ v10 = 0
       \/ /\ part = "file" /\ File!Init
          /\ v9 = 0 /\ v10 = 0
       \/ /\ part = "compact" /\ Compact!Init
       \/ /\ part = "roots" /\ RootsInit
          /\ v3 = 0 /\ v4 = 0 /\ v5 = 0 /\ v6 = 0 /\ v7 = 0 /\ v8 = 0 /\ v9 = 0 /\ v10 = 0
       \/ /\ part = "zstd" /\ Zstd!Init
          /\ v8 = 0 /\ v9 = 0 /\ v10 = 0

SuiteNext ==
    \/ part = "reader" /\ Next /\ UNCHANGED <<part, v1, v2, v3, v4, v5, v6, v7, v8, v9, v10>>
    \/ part = "manifests" /\ Manifests!Next /\ UNCHANGED <<part, vars, v10>>
    \/ part = "matrices" /\ Matrices!Next /\ UNCHANGED <<part, vars, v8, v9, v10>>
    \/ part = "file" /\ File!Next /\ UNCHANGED <<part, vars, v9, v10>>
    \/ part = "compact" /\ Compact!Next /\ UNCHANGED <<part, vars>>
    \/ part = "roots" /\ RootsNext /\ UNCHANGED <<part, vars, v3, v4, v5, v6, v7, v8, v9, v10>>
    \/ part = "zstd" /\ Zstd!Next /\ UNCHANGED <<part, vars, v8, v9, v10>>

SuiteSpec == SuiteInit /\ [][SuiteNext]_suiteVars
    /\ WF_zstdVars(part = "zstd" /\ Zstd!Write)
    /\ WF_zstdVars(part = "zstd" /\ Zstd!ChildRuns)
    /\ WF_zstdVars(part = "zstd" /\ Zstd!Drain)
    /\ WF_zstdVars(part = "zstd" /\ Zstd!Return)

-----------------------------------------------------------------------------
(* Properties *)

\* A key made in one forward pass is the key made by seeking, its digest
\* covers every word, its matrices are what the second pass read, and nothing
\* is reserved or written that the file cannot hold (zkey.rs); what is read
\* through a manifest is its file's, chunk by chunk and to the end, whatever
\* is written to the file meanwhile (artifacts/manifest.rs, sparrow/manifest.rs).
KeysMatchTheirFiles ==
    /\ part = "matrices" =>
        /\ Matrices!WritesStayInTheArrays
        /\ Matrices!AcceptedRowsAreWhatWasRead
        /\ Matrices!FormsBuildTheSameMatrices
    /\ part = "file" =>
        /\ File!ReservationsFitTheFile
        /\ File!ForwardKeysAreSeekKeys
        /\ File!HeaderFirstIsEnough
        /\ File!DigestCoversTheFile
    /\ part = "manifests" =>
        /\ Manifests!TypeOK
        /\ Manifests!OnlyManifestBytesAreDelivered
        /\ Manifests!VerifiedIsConsistent
        /\ Manifests!OnlyChangesFail
        /\ Manifests!FinishedIsWhole

Squares == {Roots!Fq2Mul(x, x) : x \in Roots!Fq2}
Powers ==
    [a \in Roots!Fq |->
        LET power[n \in Nat] == IF n = 0 THEN 1 ELSE Roots!FqMul(power[n - 1], a)
        IN  power[20]]

\* sqrt_fq2 returns "a square root of a in Fq2, or None when there is none",
\* and its windows over the fixed exponent compute a^((p - 3) / 4).
RootIsFoundIfThereIsOne ==
    part = "roots" /\ v2 # <<>> =>
        /\ IF v1 \in Squares
           THEN v2[1] # None /\ Roots!Fq2Mul(v2[1], v2[1]) = v1
           ELSE v2[1] = None
        /\ Roots!PowPMinus3Over4(v1[1]) = Powers[v1[1]]

\* What decodes is what encode writes, symbol for symbol, no point that
\* decodes is off its curve, the encoder takes every zkey of such points, and
\* a file fills exactly what its table reserved (compact_zkey.rs).
OneBodyPerZkey ==
    /\ part = "compact" =>
        /\ Compact!ZkeyFillsItsReservation
        /\ Compact!OneBodyPerZkey
        /\ Compact!EncoderTakesEveryZkeyOfCurvePoints
    /\ RootIsFoundIfThereIsOne

\* "errors, never panics" (mutated_bodies_and_files_fail_cleanly): a file that
\* is not what encode writes is refused with an error.
InflateReturns == part = "compact" => Compact!InflateReturns

\* "Drain stdout while feeding stdin": however large the output and however
\* small the pipes, the caller of the system's zstd returns, and what it
\* returns is the whole output (signet/src/lib.rs).
CompressReturns ==
    part = "zstd" ~> (part = "zstd" => Zstd!Returned /\ Zstd!OnlyWholeOutputsAreReturned)
=============================================================================
