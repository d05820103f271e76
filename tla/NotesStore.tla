----------------------------- MODULE NotesStore -----------------------------
(***************************************************************************)
(* A `ShardedNotesTree` and the storage adapter its interface is made for: *)
(* shard roots, live leaves and owned-note witnesses live in separate      *)
(* tables (the comment of `from_parts`), witnesses are written as          *)
(* `drain_dirty_owned_notes` hands them out and deleted as `unmark_owned`  *)
(* and `rewind_live_to` report them gone.  The process may stop at any     *)
(* time; what it has not written is lost, and it restores the public state *)
(* with `from_parts`, then marks or adopts each witness row, in any order. *)
(* A host that stores nothing uses the tree alone, with every call of it.  *)
(*                                                                         *)
(* The adapter itself is outside the repository.  It is modelled as the    *)
(* most that interface allows: one transaction per commit.                 *)
(***************************************************************************)
EXTENDS ShardedNotesTree

VARIABLES
    attached,  \* whether an adapter stores the tree
    tables,    \* what is stored: [completed, live, rows, log]; log is a ghost
    gone,      \* notes reported gone since the last commit
    restoring  \* witness rows not marked or adopted yet after a restart

storeVars == <<tables, gone, restoring>>
allVars == <<vars, storeVars, attached>>

StoreInit ==
    /\ Init
    /\ attached \in BOOLEAN
    /\ tables = [completed |-> <<>>, live |-> <<>>, rows |-> <<>>, log |-> <<>>]
    /\ gone = {} /\ restoring = {}

Running == restoring = {}

\* Calls that report no note gone.  Refused ones change nothing (see
\* FailedCallsChangeNothing), and are left to the tree alone.
TreeCall ==
    /\ Running
    /\ \/ \E note \in Notes : AppendNote(note)
       \/ \E notes \in Batches : AppendMany(notes)
       \/ AppendSegment
       \/ \E note \in Mine, index \in Indices : MarkOwned(note, index)
       \/ \E note \in Mine, index \in Indices, path \in Paths :
              AdoptFrozenWitness(note, index, path)
    /\ result' = "ok"
    /\ UNCHANGED storeVars

Forget(note) ==
    /\ Running
    /\ UnmarkOwned(note)
    /\ gone' = gone \cup {note}
    /\ UNCHANGED <<tables, restoring>>

\* The notes `rewind_live_to` returns.
Rewind(count) ==
    /\ Running
    /\ RewindLiveTo(count)
    /\ gone' = gone \cup (DOMAIN owned \ DOMAIN owned')
    /\ UNCHANGED <<tables, restoring>>

\* The witness table after deleting the rows of `gone`, then writing `Drained`.
RowsAfterCommit ==
    [n \in (DOMAIN tables.rows \ gone) \cup DOMAIN Drained |->
        IF n \in DOMAIN Drained THEN Drained[n] ELSE tables.rows[n]]

Commit ==
    /\ Running
    /\ DrainDirty
    /\ tables' = [completed |-> completed, live |-> liveLeaves,
                  rows |-> RowsAfterCommit, log |-> log]
    /\ gone' = {}
    /\ UNCHANGED restoring

\* `from_parts` on the stored tables, at a restart.
Restart ==
    /\ Load([completed |-> tables.completed, live |-> tables.live, owned |-> <<>>])
    /\ log' = tables.log
    /\ pending' = <<>> /\ result' = "ok"
    /\ restoring' = DOMAIN tables.rows
    /\ gone' = {}
    /\ UNCHANGED tables

\* One stored row: a note without a path is marked, one with a path adopted.
RestoreRow(note) ==
    LET row == tables.rows[note]
    IN  /\ note \in restoring
        /\ IF row.path = NoPath THEN MarkOwned(note, row.leaf_index)
           ELSE AdoptFrozenWitness(note, row.leaf_index, row.path)
        /\ restoring' = restoring \ {note}
        /\ UNCHANGED <<tables, gone>>

StoreStep ==
    \/ TreeCall
    \/ \E note \in Mine : Forget(note)
    \/ \E count \in 0..Capacity : Rewind(count)
    \/ Commit
    \/ Restart
    \/ \E note \in Mine : RestoreRow(note)

StoreNext ==
    /\ IF attached THEN StoreStep ELSE Next /\ UNCHANGED storeVars
    /\ UNCHANGED attached

StoreSpec == StoreInit /\ [][StoreNext]_allVars
-----------------------------------------------------------------------------
\* The dirty set misses nothing: at any time, between any calls, a commit
\* would leave exactly the owned witnesses in the table, the path frozen by a
\* rollover included.
CommitStoresEverything == Running => RowsAfterCommit = owned

\* No restart is refused a row, in whatever order the rows are restored, and
\* the stored public state is one `from_snapshot` accepts.
RestartSucceeds ==
    /\ ~SnapshotRefused([completed |-> tables.completed, live |-> tables.live,
                         owned |-> tables.rows])
    /\ \A note \in restoring :
          LET row == tables.rows[note]
          IN  "ok" = IF row.path = NoPath THEN MarkError(note, row.leaf_index)
                     ELSE AdoptError(note, row.leaf_index, row.path)

\* What is committed after any calls is enough for a restart, and a restart
\* that replays it row by row, in any order, is never refused.
StoredTreesReload == attached => CommitStoresEverything /\ RestartSucceeds

\* Restarting loses nothing that was committed: the restored tree has the
\* committed root and exactly the committed witnesses.
RestartRecovers ==
    [][restoring # {} /\ restoring' = {}
        => /\ owned' = tables.rows
           /\ Root' = RefRoot(Depth, FieldZero, tables.log)]_allVars
=============================================================================
