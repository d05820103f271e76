------------------------------ MODULE MCProver ------------------------------
(***************************************************************************)
(* The provers: the zkey streamed in authenticated chunks, its queries and *)
(* coefficients, the builder that takes its sections, the resident prover and *)
(* the kernels under both.                                                 *)
(***************************************************************************)
EXTENDS Integers, ZkeyBuilder

CONSTANT Parts   \* the components that run

VARIABLES
    part,   \* which component runs
    v1, v2, v3, v4, v5, v6, v7, v8, v9, v10, v11, v12   \* its variables

Term(i) == [coefficient |-> 1, signal |-> i]

\* Circuits whose domains have 2, 4 and 8 elements, with assignments that
\* satisfy them, do not, are too short or do not begin with one: x * x = y
\* without public inputs; the same with y public; s = x * x and
\* (3x + 1) * s = y, in rows of different lengths.
Private == [a |-> <<<<Term(1)>>>>, b |-> <<<<Term(1)>>>>, c |-> <<<<Term(2)>>>>,
            inputs |-> 1, variables |-> 3]
Square == [a |-> <<<<Term(2)>>>>, b |-> <<<<Term(2)>>>>, c |-> <<<<Term(1)>>>>,
           inputs |-> 2, variables |-> 3]
Cubic == [a |-> <<<<Term(2)>>, <<[coefficient |-> 3, signal |-> 2], Term(0)>>, <<>>>>,
          b |-> <<<<Term(2)>>, <<Term(3)>>, <<Term(0)>>>>,
          c |-> <<<<Term(3)>>, <<Term(1)>>, <<>>>>,
          inputs |-> 2, variables |-> 4]
MCCircuits == {Private, Square, Cubic}
MCWitnesses ==
    [c \in MCCircuits |->
        CASE c = Private -> {<<1, 7, 49>>, <<1, 7, 50>>, <<1, 7>>}
          [] c = Square  -> {<<1, 25, 5>>, <<2, 25, 5>>}
          [] c = Cubic   -> {<<1, 28, 2, 4>>, <<1, 27, 2, 4>>}]
MCAssignment ==
    [c \in MCCircuits |->
        CASE c = Private -> <<1, 7, 49>>
          [] c = Square  -> <<1, 25, 5>>
          [] c = Cubic   -> <<1, 28, 2, 4>>]
MCTrapdoor == [alpha |-> 21, beta |-> 33, gamma |-> 58, delta |-> 77, t |-> 19]

\* A zkey in the order snarkjs writes; every section of one unit but the
\* coefficients, which have two, and the contributions, which have none.
MCFileOrder == <<1, 2, 4, 3, 9, 8, 5, 6, 7, 10>>
MCLength == [id \in 1..10 |-> CASE id = 4 -> 2 [] id = 10 -> 0 [] OTHER -> 1]

\* On y^2 = x^3 + 1 over the field of 7, twelve points, three of order two:
\* every case of an addition happens.  Four buckets and a batch of three for
\* two lanes, so that the last group is partial; one bucket, which no lane
\* takes; and overflow on either side of a segment.
Kinds == {<<0, 1>>, <<0, 6>>, <<1, 3>>, <<3, 0>>}
MCWindows ==
    LET Empty == <<1, 1, 0, 0>>
        O1 == <<4, 3, 4, 1>>   \* <<1, 3>> and <<3, 0>> with other ZZ
        O2 == <<6, 0, 2, 6>>
    IN  {[buckets |-> <<p, d, q, <<0, 1>>>>, overflow |-> o,
          batch |-> <<[slot |-> 3, point |-> a], [slot |-> 1, point |-> b],
                      [slot |-> 4, point |-> c]>>] :
            p \in Kinds, q \in Kinds, d \in {None, <<3, 0>>},
            a \in Kinds, b \in Kinds, c \in {<<0, 1>>, <<3, 0>>},
            o \in {<<>>, <<O1, Empty, Empty, O2>>}}
        \cup {[buckets |-> <<p>>, overflow |-> <<>>, batch |-> <<[slot |-> 1, point |-> q]>>] :
            p \in Kinds, q \in Kinds}

\* 193 has the shape of the BN254 scalar modulus: a top window of two bits
\* that may both be set, over a window that is then zero.  Every scalar
\* alone, and pairs and triples of those at the boundaries of a window.
G == <<1, 2>>
Boundary == {0, 1, 3, 4, 28, 31, 32, 192}
MCInputs ==
    {<<>>} \cup {<<<<s, b>>>> : s \in 0..192, b \in {G, None}}
    \cup {<<<<s, G>>, <<t, b>>>> : s \in Boundary, t \in Boundary, b \in {G, <<1, 5>>}}
    \cup {<<<<s, G>>, <<t, G>>, <<u, <<3, 3>>>>>> : s \in {0, 1}, t \in {0, 1, 28}, u \in {1, 192}}

\* The ends of the weakly reduced range, the multiples of p, and values whose
\* limbs are full.
MCSamples == {0, 1, 1023, 1986, 1987, 2047, 3973}

-----------------------------------------------------------------------------
(* The components *)

\* A file of ten bytes in chunks of four, with an empty section.
Manifest == INSTANCE ManifestStream WITH
    Layouts <- {<<1, 0, 1>>}, HeaderBytes <- 2, Sections <- 3, ChunkBytes <- 4,
    BatchChunks <- 2, MaxFaults <- 1, NoChunk <- None, layout <- v1, parallel <- v2,
    host <- v3, stream <- v4, sent <- v5, faults <- v6, spoiled <- v7, outcome <- v8
ASSUME Manifest!StreamAssumption

\* Four points of two bytes in chunks of two; the second scalar is zero.
Query == INSTANCE QueryStream WITH
    RecordBytes <- 2, Expected <- 4, ScalarOffset <- 1, ZeroScalars <- {3},
    ChunkPoints <- 2, Parallel <- TRUE, MinRun <- 2, CarryOn <- FALSE, query <- v1,
    accepted <- v2, failed <- v3, outcome <- v4
ASSUME Query!QueryStreamAssumption

\* Two points, pushed by a caller that goes on after a push that failed.
Resumed == INSTANCE QueryStream WITH
    RecordBytes <- 2, Expected <- 2, ScalarOffset <- 1, ZeroScalars <- {3},
    ChunkPoints <- 2, Parallel <- TRUE, MinRun <- 2, CarryOn <- TRUE, query <- v1,
    accepted <- v2, failed <- v3, outcome <- v4

\* Sections of up to nine records of two bytes, in batches of two or three.
Coefficients == INSTANCE CoefficientStream WITH
    P <- 193, Generator <- 5, Circuits <- MCCircuits, Trapdoor <- MCTrapdoor,
    Assignment <- MCAssignment, RecordBytes <- 2, PrefixBytes <- 2,
    BatchSizes <- {2, 3}, NoIndex <- None, file <- v1, sent <- v2, acc <- v3,
    spoiled <- v4, outcome <- v5, h <- v6
ASSUME Coefficients!QapAssumption

\* The field of 193, with blinding factors that include zero.
Resident == INSTANCE Groth16 WITH
    P <- 193, Generator <- 5, Circuits <- MCCircuits, Trapdoor <- MCTrapdoor,
    Witnesses <- MCWitnesses, Blinding <- {<<0, 6>>, <<17, 101>>}, Limit <- 20,
    NoLease <- None, workspace <- v1, lease <- v2, last <- v3, leaked <- v4

\* Every unit vector; leaf blocks of 2 vectors make the largest domain recurse
\* twice.
Transform == INSTANCE Ntt WITH
    P <- 193, Generator <- 5, Sizes <- {8, 16, 32}, Leaves <- {2, 4}, Shifts <- {5, 11},
    job <- v1, buf <- v2, split <- v3, joined <- v4, stage <- v5, output <- v6
ASSUME Transform!NttAssumption

\* Two buckets, batches of two.
Window == INSTANCE AffineBuckets WITH
    Q <- 7, B <- 1, Identity <- None, Buckets <- 2, BatchSize <- 2, MinRetryBatch <- 2,
    Bases <- {None, <<0, 1>>, <<1, 3>>, <<3, 0>>}, MaxPoints <- 6, buckets <- v1,
    overflow <- v2, batch <- v3, deferred <- v4, state <- v5, at <- v6, folded <- v7,
    total <- v8
ASSUME Window!BucketsAssumption

Lane == INSTANCE LaneKernel WITH
    Q <- 7, B <- 1, Identity <- None, Lanes <- 2, Windows <- MCWindows, given <- v1,
    buckets <- v2, steps <- v3, prefix <- v4, dens <- v5, product <- v6, inverse <- v7,
    running <- v8, sum <- v9, at <- v10, index <- v11, result <- v12
ASSUME Lane!LaneAssumption

Sum == INSTANCE Msm WITH
    Q <- 7, B <- 3, Identity <- None, Width <- 3, Modulus <- 193, Inputs <- MCInputs,
    TrivialShare <- 2, input <- v1, pairs <- v2, ones <- v3, sums <- v4, result <- v5,
    at <- v6
ASSUME Sum!MsmAssumption

\* Three limbs of five bits with columns of fourteen, the least that takes
\* operands with limbs of six bits; two words of seven bits, which a limb
\* straddles; a modulus of eleven bits, so that R > 16 p as in the code.
Limb == INSTANCE MontLimbs WITH
    LimbBits <- 5, Limbs <- 3, ColumnBits <- 14, WordBits <- 7, Words <- 2,
    Modulus <- 1987, Samples <- MCSamples, MaxOps <- 2, x <- v1, y <- v2, fx <- v3,
    fy <- v4, job <- v5, columns <- v6, round <- v7, exported <- v8, ops <- v9
ASSUME Limb!LimbAssumption

-----------------------------------------------------------------------------
(* One of them runs; the others stand still. *)

restVars == <<v1, v2, v3, v4, v5, v6, v7, v8, v9, v10, v11, v12>>
suiteVars == <<part, vars, restVars>>

SuiteInit ==
    /\ part \in Parts
    /\ Init /\ (part # "builder" => hasher = None)
    /\ \/ /\ part = "manifest" /\ Manifest!Init
          /\ v9 = 0 /\ v10 = 0 /\ v11 = 0 /\ v12 = 0
       \/ /\ part = "query" /\ Query!Init
          /\ v5 = 0 /\ v6 = 0 /\ v7 = 0 /\ v8 = 0 /\ v9 = 0 /\ v10 = 0 /\ v11 = 0 /\ v12 = 0
       \/ /\ part = "resumed" /\ Resumed!Init
          /\ v5 = 0 /\ v6 = 0 /\ v7 = 0 /\ v8 = 0 /\ v9 = 0 /\ v10 = 0 /\ v11 = 0 /\ v12 = 0
       \/ /\ part = "builder"
          /\ v1 = 0 /\ v2 = 0 /\ v3 = 0 /\ v4 = 0 /\ v5 = 0 /\ v6 = 0 /\ v7 = 0 /\ v8 = 0
          /\ v9 = 0 /\ v10 = 0 /\ v11 = 0 /\ v12 = 0
       \/ /\ part = "coefficients" /\ Coefficients!Init
          /\ v7 = 0 /\ v8 = 0 /\ v9 = 0 /\ v10 = 0 /\ v11 = 0 /\ v12 = 0
       \/ /\ part = "groth16" /\ Resident!Init
          /\ v5 = 0 /\ v6 = 0 /\ v7 = 0 /\ v8 = 0 /\ v9 = 0 /\ v10 = 0 /\ v11 = 0 /\ v12 = 0
       \/ /\ part = "ntt" /\ Transform!Init
          /\ v7 = 0 /\ v8 = 0 /\ v9 = 0 /\ v10 = 0 /\ v11 = 0 /\ v12 = 0
       \/ /\ part = "buckets" /\ Window!Init
          /\ v9 = 0 /\ v10 = 0 /\ v11 = 0 /\ v12 = 0
       \/ /\ part = "lanes" /\ Lane!Init
       \/ /\ part = "msm" /\ Sum!Init
          /\ v7 = 0 /\ v8 = 0 /\ v9 = 0 /\ v10 = 0 /\ v11 = 0 /\ v12 = 0
       \/ /\ part = "limbs" /\ Limb!Init
          /\ v10 = 0 /\ v11 = 0 /\ v12 = 0

SuiteNext ==
    \/ part = "manifest" /\ Manifest!Next /\ UNCHANGED <<part, vars, v9, v10, v11, v12>>
    \/ part = "query" /\ Query!Next
       /\ UNCHANGED <<part, vars, v5, v6, v7, v8, v9, v10, v11, v12>>
    \/ part = "resumed" /\ Resumed!Next
       /\ UNCHANGED <<part, vars, v5, v6, v7, v8, v9, v10, v11, v12>>
    \/ part = "builder" /\ Next /\ UNCHANGED <<part, restVars>>
    \/ part = "coefficients" /\ Coefficients!Next
       /\ UNCHANGED <<part, vars, v7, v8, v9, v10, v11, v12>>
    \/ part = "groth16" /\ Resident!Next
       /\ UNCHANGED <<part, vars, v5, v6, v7, v8, v9, v10, v11, v12>>
    \/ part = "ntt" /\ Transform!Next /\ UNCHANGED <<part, vars, v7, v8, v9, v10, v11, v12>>
    \/ part = "buckets" /\ Window!Next /\ UNCHANGED <<part, vars, v9, v10, v11, v12>>
    \/ part = "lanes" /\ Lane!Next /\ UNCHANGED <<part, vars>>
    \/ part = "msm" /\ Sum!Next /\ UNCHANGED <<part, vars, v7, v8, v9, v10, v11, v12>>
    \/ part = "limbs" /\ Limb!Next /\ UNCHANGED <<part, vars, v10, v11, v12>>

SuiteSpec == SuiteInit /\ [][SuiteNext]_suiteVars

-----------------------------------------------------------------------------
(* Properties *)

\* "No byte is parsed before its chunk is authenticated": whatever a caller
\* passes, cuts and retries, the builder is called as for the pinned file read
\* in one piece, an honest caller is never refused, and a stream finishes
\* only with the whole file (sparrow/manifest.rs).
OnlyAuthenticatedIsParsed ==
    part = "manifest" =>
        /\ Manifest!TypeOK
        /\ Manifest!OnlyAuthenticatedIsParsed
        /\ Manifest!FramingFollowsTheFile
        /\ Manifest!HonestBytesAreTaken
        /\ Manifest!FinishedMeansWhole

\* However the bytes of the queries and of the coefficients are split, and
\* whether runs are decoded on the pool or one by one, what a stream computes
\* is what the resident prover computes from the whole key, and a section
\* with a bad record never finishes (sparrow.rs).  After a push that failed, no
\* split makes a query take more points than it has or overfill a chunk.
StreamedKeyIsResident ==
    /\ part = "query" =>
        /\ Query!TypeOK
        /\ Query!FinishedQueryIsExact
        /\ Query!ChunksAreSerial
        /\ Query!EndpointsAreTheQuerys
    /\ part = "resumed" => Resumed!TypeOK /\ Resumed!ChunksAreSerial
    /\ part = "coefficients" =>
        /\ Coefficients!TypeOK
        /\ Coefficients!SpoiledNeverFinishes
        /\ Coefficients!StreamedQapIsResident
        /\ Coefficients!StreamedProofIsResident

\* After any history of proofs, failures and panics, a proof made in a
\* workspace is that of a fresh prover: it verifies exactly for assignments
\* that satisfy the circuit, and an idle workspace is wiped and bounded
\* (groth16_prover.rs, workspace.rs).
WorkspaceProofIsFresh ==
    part = "groth16" =>
        /\ Resident!TypeOK
        /\ Resident!WorkspaceProofIsFresh
        /\ Resident!SatisfiedAssignmentsProve
        /\ Resident!OnlySatisfiedAreReturned
        /\ Resident!IdleIsWipedAndBounded

\* The fused transform is ark-poly's, and each step of a windowed sum, in
\* whatever order its parts end, keeps the points it was given (simd_fft,
\* msm.rs, msm_simd).
KernelsAreExact ==
    /\ part = "ntt" =>
        Transform!TypeOK /\ Transform!StepIsTheWitnessMap /\ Transform!ScalingFollowsTheLayout
    /\ part = "buckets" =>
        /\ Window!TypeOK
        /\ Window!BatchIsIndependent
        /\ Window!InversionExists
        /\ Window!NoPointIsLost
        /\ Window!FinishedWindowIsWhole
    /\ part = "lanes" =>
        /\ Lane!TypeOK
        /\ Lane!LanesKeepTheirInverse
        /\ Lane!BatchAddsItsPoints
        /\ Lane!LanesSumTheirSegment
        /\ Lane!WindowSumIsWeighted
    /\ part = "msm" =>
        Sum!TypeOK /\ Sum!DigitsRecodeScalars /\ Sum!ResultIsTheSum /\ Sum!SplitIsComplete
    /\ part = "limbs" =>
        /\ Limb!RegistersAreWeaklyReduced
        /\ Limb!RegistersHoldTheirElements
        /\ Limb!TestsSeeTheElement
        /\ Limb!LiveColumnsHoldTheProduct
        /\ Limb!ArkworksGetsTheElement
=============================================================================
