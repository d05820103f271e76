--------------------------- MODULE MCMerkleTrees ----------------------------
(***************************************************************************)
(* The trees of curvy-core, one at a time: the incremental tree, the notes *)
(* frontier, and the pending-commitment builders over both forms of tree.  *)
(***************************************************************************)
EXTENDS Imt, PendingCommitments, TLC

CONSTANTS
    Parts    \* the components that run

VARIABLES
    part     \* which one does

\* The second is refused by `NotesFrontier::new`.
PendingGeometries == {<<2, 1>>, <<2, 2>>}

\* Note ids other than zero are interchangeable.
Symmetry == Permutations(NoteIds \ {ZeroId})

-----------------------------------------------------------------------------
(* One of them runs; the others stand still. *)

suiteVars == <<part, tree, result, frontierVars, pendingVars>>

SuiteInit ==
    /\ part \in Parts
    /\ IF part = "imt" THEN Init ELSE tree = ImtNew(0, FieldZero) /\ result = "ok"
    /\ IF part = "frontier" THEN FrontierInit
       ELSE /\ frontier = FrontierNew(2, 1) /\ log = <<>> /\ roots = <<>> /\ saved = {}
            /\ outcome = "ok"
    /\ IF part = "pending" THEN PendingInit
       ELSE notes = OrderedFromLeaves(0, <<>>) /\ history = <<>> /\ stored = <<>> /\ reply = "ok"

SuiteNext ==
    \/ part = "imt" /\ Next /\ UNCHANGED <<part, frontier, log, roots, saved, outcome, pendingVars>>
    \/ part = "frontier" /\ FrontierNext /\ UNCHANGED <<part, tree, result, pendingVars>>
    \/ part = "pending" /\ PendingNext /\ UNCHANGED <<part, tree, result, frontier, log, roots, saved, outcome>>

SuiteSpec == SuiteInit /\ [][SuiteNext]_suiteVars

-----------------------------------------------------------------------------
(* Properties *)

\* A call that reports an error leaves the tree, the frontier or the notes as
\* they were, though it may fail in the middle of its loop.
RefusedCallsChangeNothing ==
    [][/\ part = "frontier" => FailedAppendsChangeNothing
       /\ part = "pending" => RefusedNotesStay]_suiteVars
=============================================================================
