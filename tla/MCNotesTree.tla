---------------------------- MODULE MCNotesTree -----------------------------
(***************************************************************************)
(* The sharded notes tree, with the storage that survives a restart and    *)
(* alone with refused calls, and in two larger geometries.                 *)
(***************************************************************************)
EXTENDS NotesStore

CONSTANTS
    Parts

VARIABLES
    part,   \* which component runs
    v1, v2, v3, v4, v5, v6, v7, v8, v9, v10   \* its variables

OneNote == {CHOOSE note \in Notes : note # FieldZero}

-----------------------------------------------------------------------------
(* The components *)

\* Four shards of two leaves.
Wide == INSTANCE ShardedNotesTree WITH
    Mine <- OneNote, Depth <- 3, ShardHeight <- 1, MaxBatch <- 2, completed <- v1,
    live <- v2, liveLeaves <- v3, cap <- v4, owned <- v5, ownedLeaves <- v6,
    dirty <- v7, pending <- v8, result <- v9, log <- v10

\* Two shards of four leaves.
Tall == INSTANCE ShardedNotesTree WITH
    Notes <- OneNote, Mine <- OneNote, Depth <- 3, ShardHeight <- 2, MaxBatch <- 2,
    completed <- v1, live <- v2, liveLeaves <- v3, cap <- v4, owned <- v5,
    ownedLeaves <- v6, dirty <- v7, pending <- v8, result <- v9, log <- v10

-----------------------------------------------------------------------------
(* One of them runs; the others stand still. *)

suiteVars == <<part, v1, v2, v3, v4, v5, v6, v7, v8, v9, v10, allVars>>

SuiteInit ==
    /\ part \in Parts
    /\ StoreInit
    /\ \/ /\ part = "notes"
          /\ v1 = 0 /\ v2 = 0 /\ v3 = 0 /\ v4 = 0 /\ v5 = 0 /\ v6 = 0 /\ v7 = 0 /\ v8 = 0 /\ v9 = 0 /\ v10 = 0
       \/ /\ part = "wide" /\ Wide!Init /\ attached = FALSE
       \/ /\ part = "tall" /\ Tall!Init /\ attached = FALSE

SuiteNext ==
    \/ part = "notes" /\ StoreNext /\ UNCHANGED <<part, v1, v2, v3, v4, v5, v6, v7, v8, v9, v10>>
    \/ part = "wide" /\ Wide!Next /\ UNCHANGED <<part, allVars>>
    \/ part = "tall" /\ Tall!Next /\ UNCHANGED <<part, allVars>>

SuiteSpec == SuiteInit /\ [][SuiteNext]_suiteVars

-----------------------------------------------------------------------------
(* Properties *)

\* Four shards instead of two, or four leaves in a shard, change nothing: the
\* witnesses are the flat tree's, and the tree's own snapshot is accepted and
\* restores the tree as it is (from_snapshot, snapshot).
OtherGeometriesAgree ==
    /\ [](part = "wide" => Wide!ProvesAgainstFlatTree /\ Wide!OwnSnapshotAccepted)
    /\ [](part = "tall" => Tall!ProvesAgainstFlatTree /\ Tall!OwnSnapshotAccepted)
    /\ [][/\ part = "wide" => Wide!RestoresOwnSnapshot
          /\ part = "tall" => Tall!RestoresOwnSnapshot]_suiteVars
=============================================================================
