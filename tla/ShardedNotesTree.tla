-------------------------- MODULE ShardedNotesTree --------------------------
(***************************************************************************)
(* `ShardedNotesTree` of crates/core/src/imt.rs: a notes tree that keeps   *)
(* the leaves of its rightmost shard only, one root per completed shard in *)
(* a cap tree, and for each owned note its index and, once the note's      *)
(* shard is complete, the frozen path inside the shard.                    *)
(*                                                                         *)
(* Every call takes `&mut self`, so a call is one step, except that        *)
(* `append_many` takes one step per shard it touches: `pending` holds what *)
(* is left of its batch, and no other call runs until it is empty.         *)
(***************************************************************************)
EXTENDS MerkleOps, FiniteSets

CONSTANTS
    Notes,        \* note commitments, the field's zero among them
    Mine,         \* those that the wallet may try to mark or adopt
    FieldZero,    \* Fr::ZERO, the leaf-level zero
    Depth,
    ShardHeight,
    MaxBatch      \* bound: notes per append_many call

\* `new` refuses every other geometry.
ASSUME GeometryAssumption ==
    Depth \in Nat /\ ShardHeight \in Nat /\ 0 < ShardHeight /\ ShardHeight < Depth

ASSUME InputAssumption == Mine \subseteq Notes /\ MaxBatch \in Nat

VARIABLES
    completed,    \* completed_roots
    live,         \* the live shard's Imt
    liveLeaves,   \* live_leaves
    cap,          \* the cap Imt over the completed roots and the live root
    owned,        \* owned_notes: note |-> [leaf_index, path]
    ownedLeaves,  \* owned_leaves: leaf index |-> note
    dirty,        \* dirty_owned_notes
    pending,      \* what the running append_many has not absorbed yet
    result,       \* "ok" or the TreeError of the last call
    log           \* ghost: every leaf ever appended and not rewound

treeVars == <<completed, live, liveLeaves, cap, owned, ownedLeaves, dirty>>
vars == <<treeVars, pending, result, log>>

ShardSize == TreeCapacity(ShardHeight)
CapDepth == Depth - ShardHeight
Capacity == TreeCapacity(Depth)
Indices == 0..(Capacity - 1)

\* `leaf_index >> shard_height` and `leaf_index & (shard_size - 1)`
Shard(index) == index \div ShardSize
Within(index) == index % ShardSize

\* `within_shard_siblings: None`; a real path has ShardHeight > 0 nodes.
NoPath == <<>>

\* HashMap and BTreeMap: insert, remove.
Put(map, key, value) ==
    [k \in DOMAIN map \cup {key} |-> IF k = key THEN value ELSE map[k]]
Drop(map, keys) == [k \in DOMAIN map \ keys |-> map[k]]

CapZero == ZeroRootsFrom(Depth, FieldZero)[ShardHeight]

LeafCount == Len(completed) * ShardSize + Len(liveLeaves)
Root == ImtRoot(cap)

\* `tree.leaf(index) == Some(note)`
LeafIs(tree, index, note) ==
    index < ImtLeafCount(tree) /\ At(ImtLeaves(tree), index) = note

\* `get(key).is_some_and(|id| *id != note)` on the reverse index.
LeafTaken(index, note) == index \in DOMAIN ownedLeaves /\ ownedLeaves[index] # note

Batches == UNION {[1..n -> Notes] : n \in 0..MaxBatch}

Init ==
    /\ completed = <<>> /\ liveLeaves = <<>>
    /\ live = ImtNew(ShardHeight, FieldZero)
    /\ cap = ImtNew(CapDepth, CapZero)
    /\ owned = <<>> /\ ownedLeaves = <<>>
    /\ dirty = {}
    /\ pending = <<>> /\ result = "ok"
    /\ log = <<>>

Idle == pending = <<>>

Refuse(error) == result' = error /\ UNCHANGED <<treeVars, pending, log>>
-----------------------------------------------------------------------------
\* `sync_live_root`: the cap with the live root inserted or updated; it
\* cannot place the root when the cap holds any other number of leaves.
CapFits == ImtLeafCount(cap) \in {Len(completed), Len(completed) + 1}
SyncedCap(liveRoot) ==
    IF ImtLeafCount(cap) = Len(completed) THEN ImtInsert(cap, liveRoot)
    ELSE ImtUpdate(cap, Len(completed), liveRoot)

\* The owned notes `roll_over` has to freeze, and those among them that the
\* completed live shard does not hold where they are marked.
Freezing == {n \in DOMAIN owned :
                Shard(owned[n].leaf_index) = Len(completed) /\ owned[n].path = NoPath}
Lost(shard) == {n \in Freezing : ~LeafIs(shard, Within(owned[n].leaf_index), n)}

\* Mutation: the path is taken at the index in the whole tree.
Freeze_GlobalIndex(notes, shard) ==
    [n \in DOMAIN owned |->
        IF n \in notes
        THEN [owned[n] EXCEPT !.path = ImtSiblings(shard, owned[n].leaf_index)]
        ELSE owned[n]]

Freeze(notes, shard) ==
    [n \in DOMAIN owned |->
        IF n \in notes
        THEN [owned[n] EXCEPT !.path = ImtSiblings(shard, Within(owned[n].leaf_index))]
        ELSE owned[n]]

\* Mutation: a note does not become dirty when it is frozen.
FreezeOwned_StaysClean(notes, shard) == owned' = Freeze(notes, shard) /\ UNCHANGED dirty

FreezeOwned(notes, shard) == owned' = Freeze(notes, shard) /\ dirty' = dirty \cup notes

\* `roll_over`.  The map is walked in no particular order, so an error leaves
\* any of the other notes of the shard frozen, and the shard in place.
RollOver(shard, leaves) ==
    \E notes \in IF Lost(shard) = {} THEN {Freezing} ELSE SUBSET (Freezing \ Lost(shard)) :
        /\ FreezeOwned(notes, shard)
        /\ IF Lost(shard) = {}
           THEN /\ completed' = Append(completed, ImtRoot(shard))
                /\ live' = ImtNew(ShardHeight, FieldZero)
                /\ liveLeaves' = <<>>
                /\ result' = "ok"
           ELSE /\ live' = shard /\ liveLeaves' = leaves
                /\ result' = "OwnedLeafMismatch"
                /\ UNCHANGED completed

\* The common tail of `append` and of a turn of `append_many`'s loop, once
\* the live shard holds `leaves` and its tree is `shard`.
Absorb(shard, leaves, added) ==
    /\ log' = log \o added
    /\ IF ~CapFits
       THEN /\ live' = shard /\ liveLeaves' = leaves
            /\ result' = "InvalidSnapshot"
            /\ UNCHANGED <<completed, cap, owned, dirty>>
       ELSE /\ cap' = SyncedCap(ImtRoot(shard))
            /\ IF Len(leaves) = ShardSize
               THEN RollOver(shard, leaves)
               ELSE /\ live' = shard /\ liveLeaves' = leaves
                    /\ result' = "ok"
                    /\ UNCHANGED <<completed, owned, dirty>>
    /\ UNCHANGED ownedLeaves

\* Mutation: an incoming note is not compared with the note owned at its place.
AppendError_UncheckedOwner(notes) ==
    IF Len(notes) > Capacity - LeafCount THEN "TreeFull" ELSE "ok"

\* `ensure_room`, then `validate_incoming_owned_note` for each note.
AppendError(notes) ==
    IF Len(notes) > Capacity - LeafCount THEN "TreeFull"
    ELSE IF \E k \in DOMAIN notes : LeafTaken(LeafCount + k - 1, notes[k])
    THEN "OwnedLeafMismatch" ELSE "ok"

AppendNote(note) ==
    /\ Idle
    /\ \/ /\ AppendError(<<note>>) = "ok"
          /\ Absorb(ImtInsert(live, note), Append(liveLeaves, note), <<note>>)
          /\ UNCHANGED pending
       \/ /\ AppendError(<<note>>) # "ok"
          /\ Refuse(AppendError(<<note>>))

\* `append_many` up to its loop.
AppendMany(notes) ==
    /\ Idle
    /\ \/ /\ AppendError(notes) = "ok"
          /\ pending' = notes /\ result' = "ok"
          /\ UNCHANGED <<treeVars, log>>
       \/ /\ AppendError(notes) # "ok"
          /\ Refuse(AppendError(notes))

\* One turn of the loop: fill the live shard as far as the batch goes, in
\* bulk when that costs fewer hashes than one insertion per note.
AppendSegment ==
    LET room == ShardSize - Len(liveLeaves)
        take == IF room < Len(pending) THEN room ELSE Len(pending)
        segment == SubSeq(pending, 1, take)
        leaves == liveLeaves \o segment
        bulk == Len(leaves) - 1 < take * ShardHeight
        shard == IF bulk THEN ImtFromLeaves(ShardHeight, FieldZero, leaves)
                 ELSE ImtInsertAll(live, segment)
    IN  /\ ~Idle
        /\ Absorb(shard, leaves, segment)
        /\ pending' = IF result' = "ok" THEN SubSeq(pending, take + 1, Len(pending)) ELSE <<>>
-----------------------------------------------------------------------------
\* Mutation: a note of a completed shard may be marked.
MarkError_UncheckedShard(note, index) ==
    IF index >= Capacity THEN "LeafIndexOutOfRange"
    ELSE IF note \in DOMAIN owned
    THEN IF owned[note].leaf_index = index THEN "ok" ELSE "DuplicateOwnedLeaf"
    ELSE IF LeafTaken(index, note) THEN "DuplicateOwnedLeaf"
    ELSE IF index < LeafCount /\ ~LeafIs(live, Within(index), note) THEN "OwnedLeafMismatch"
    ELSE "ok"

MarkError(note, index) ==
    IF index >= Capacity THEN "LeafIndexOutOfRange"
    ELSE IF Shard(index) < Len(completed) THEN "NoteAlreadyCompleted"
    ELSE IF note \in DOMAIN owned
    THEN IF owned[note].leaf_index = index THEN "ok" ELSE "DuplicateOwnedLeaf"
    ELSE IF LeafTaken(index, note) THEN "DuplicateOwnedLeaf"
    ELSE IF index < LeafCount /\ ~LeafIs(live, Within(index), note) THEN "OwnedLeafMismatch"
    ELSE "ok"

\* A note may be marked at an index that is not appended yet.
MarkOwned(note, index) ==
    /\ Idle
    /\ \/ /\ MarkError(note, index) = "ok"
          /\ note \notin DOMAIN owned
          /\ ownedLeaves' = Put(ownedLeaves, index, note)
          /\ owned' = Put(owned, note, [leaf_index |-> index, path |-> NoPath])
          /\ dirty' = dirty \cup {note}
          /\ result' = "ok"
          /\ UNCHANGED <<completed, live, liveLeaves, cap, pending, log>>
       \/ /\ MarkError(note, index) # "ok" \/ note \in DOMAIN owned
          /\ Refuse(MarkError(note, index))

\* Mutation: the note's place stays in owned_leaves.
Unmark_KeepsReverseIndex(notes) ==
    dirty' = dirty \ notes /\ owned' = Drop(owned, notes) /\ UNCHANGED ownedLeaves

\* `unmark_owned` for each note of a set.
Unmark(notes) ==
    /\ dirty' = dirty \ notes
    /\ ownedLeaves' = Drop(ownedLeaves, {owned[n].leaf_index : n \in notes \cap DOMAIN owned})
    /\ owned' = Drop(owned, notes)

UnmarkOwned(note) ==
    /\ Idle
    /\ Unmark({note})
    /\ result' = "ok"
    /\ UNCHANGED <<completed, live, liveLeaves, cap, pending, log>>

\* `verify_frozen_path` against the given completed roots.
FrozenPathHolds(roots, note, index, path) ==
    /\ Len(path) = ShardHeight
    /\ PathRoot(note, Within(index), path) = At(roots, Shard(index))

AdoptError(note, index, path) ==
    IF Shard(index) >= Len(completed) THEN "ShardNotCompleted"
    ELSE IF note \in DOMAIN owned /\ owned[note].leaf_index # index THEN "DuplicateOwnedLeaf"
    ELSE IF LeafTaken(index, note) THEN "DuplicateOwnedLeaf"
    ELSE IF Len(path) # ShardHeight THEN "InvalidSiblingCount"
    ELSE IF ~FrozenPathHolds(completed, note, index, path) THEN "WitnessRootMismatch"
    ELSE "ok"

AdoptFrozenWitness(note, index, path) ==
    /\ Idle
    /\ \/ /\ AdoptError(note, index, path) = "ok"
          /\ ownedLeaves' = Put(ownedLeaves, index, note)
          /\ owned' = Put(owned, note, [leaf_index |-> index, path |-> path])
          /\ dirty' = dirty \cup {note}
          /\ result' = "ok"
          /\ UNCHANGED <<completed, live, liveLeaves, cap, pending, log>>
       \/ /\ AdoptError(note, index, path) # "ok"
          /\ Refuse(AdoptError(note, index, path))

\* Mutation: the cap is rebuilt without the live shard's root.
RebuiltCap_CompletedOnly(roots, shard, leaves) == ImtFromLeaves(CapDepth, CapZero, roots)

\* `rebuild_cap` over the given shard roots and live shard.
RebuiltCap(roots, shard, leaves) ==
    ImtFromLeaves(CapDepth, CapZero,
                  IF leaves = <<>> THEN roots ELSE Append(roots, ImtRoot(shard)))

\* A reorg inside the live shard.  Notes marked at or past the cut are
\* unmarked, whether their leaf was there or not.
RewindLiveTo(count) ==
    LET start == Len(completed) * ShardSize
        leaves == SubSeq(liveLeaves, 1, count - start)
        shard == ImtFromLeaves(ShardHeight, FieldZero, leaves)
        cut == {ownedLeaves[i] : i \in {j \in DOMAIN ownedLeaves : j >= count}}
    IN  /\ Idle
        /\ \/ /\ start <= count /\ count <= LeafCount
              /\ Unmark(cut)
              /\ liveLeaves' = leaves /\ live' = shard
              /\ cap' = RebuiltCap(completed, shard, leaves)
              /\ log' = SubSeq(log, 1, count)
              /\ result' = "ok"
              /\ UNCHANGED <<completed, pending>>
           \/ count < start /\ Refuse("RewindBeforeCompleted")
           \/ count > LeafCount /\ Refuse("LeafIndexOutOfRange")

\* The rows `drain_dirty_owned_notes` returns.
Drained == [n \in dirty \cap DOMAIN owned |-> owned[n]]

DrainDirty ==
    /\ Idle
    /\ dirty' = {}
    /\ result' = "ok"
    /\ UNCHANGED <<completed, live, liveLeaves, cap, owned, ownedLeaves, pending, log>>
-----------------------------------------------------------------------------
Snapshot == [completed |-> completed, live |-> liveLeaves, owned |-> owned]

\* The checks of `from_snapshot` on one owned row, once the public state of
\* the snapshot is loaded and `shard` is its live tree.
RowRefused(s, shard, note) ==
    LET row == s.owned[note]
        count == Len(s.completed) * ShardSize + Len(s.live)
    IN  \/ row.leaf_index >= Capacity
        \/ \E other \in DOMAIN s.owned \ {note} : s.owned[other].leaf_index = row.leaf_index
        \/ IF Shard(row.leaf_index) < Len(s.completed)
           THEN ~FrozenPathHolds(s.completed, note, row.leaf_index, row.path)
           ELSE \/ row.path # NoPath
                \/ /\ row.leaf_index < count
                   /\ ~LeafIs(shard, Within(row.leaf_index), note)

SnapshotRefused(s) ==
    \/ Len(s.completed) > TreeCapacity(CapDepth)
    \/ Len(s.live) >= ShardSize
    \/ Len(s.completed) = TreeCapacity(CapDepth) /\ s.live # <<>>
    \/ \E note \in DOMAIN s.owned :
          RowRefused(s, ImtFromLeaves(ShardHeight, FieldZero, s.live), note)

\* The tree `from_snapshot` builds from a snapshot it accepts.
Load(s) ==
    LET shard == ImtFromLeaves(ShardHeight, FieldZero, s.live)
    IN  /\ completed' = s.completed
        /\ liveLeaves' = s.live /\ live' = shard
        /\ cap' = RebuiltCap(s.completed, shard, s.live)
        /\ owned' = s.owned
        /\ ownedLeaves' = [i \in {s.owned[n].leaf_index : n \in DOMAIN s.owned} |->
                             CHOOSE n \in DOMAIN s.owned : s.owned[n].leaf_index = i]
        /\ dirty' = {}

\* Snapshots as they may be read back: intact, or with one owned row lost,
\* moved to another leaf or stripped of its path.
ReadBack(s) ==
    {s}
        \cup {[s EXCEPT !.owned = Drop(s.owned, {n})] : n \in DOMAIN s.owned}
        \cup {[s EXCEPT !.owned[n].leaf_index = i] : n \in DOMAIN s.owned, i \in 0..Capacity}
        \cup {[s EXCEPT !.owned[n].path = NoPath] : n \in DOMAIN s.owned}

\* The caller replaces its tree by one restored from its snapshot.
Reload(s) ==
    /\ Idle
    /\ \/ ~SnapshotRefused(s) /\ Load(s) /\ result' = "ok" /\ UNCHANGED <<pending, log>>
       \/ SnapshotRefused(s) /\ Refuse("InvalidSnapshot")

\* Paths a recovery service may hand out: those inside the completed shards,
\* one without nodes, and one from a tree of another height.
ShardOf(leaves, shard) ==
    LET end == (shard + 1) * ShardSize
    IN  SubSeq(leaves, shard * ShardSize + 1, IF end < Len(leaves) THEN end ELSE Len(leaves))
Paths ==
    {ImtSiblings(ImtFromLeaves(ShardHeight, FieldZero, ShardOf(log, Shard(i))), Within(i)) :
        i \in 0..(Len(completed) * ShardSize - 1)}
        \cup {NoPath}

Next ==
    \/ \E note \in Notes : AppendNote(note)
    \/ \E notes \in Batches : AppendMany(notes)
    \/ AppendSegment
    \/ \E note \in Mine, index \in 0..Capacity : MarkOwned(note, index)
    \/ \E note \in Mine : UnmarkOwned(note)
    \/ \E note \in Mine, index \in Indices, path \in Paths :
            AdoptFrozenWitness(note, index, path)
    \/ \E count \in 0..Capacity : RewindLiveTo(count)
    \/ DrainDirty
    \/ \E s \in ReadBack(Snapshot) : Reload(s)

Spec == Init /\ [][Next]_vars

\* `witness(note)` for a tracked note: NoPath stands for OwnedLeafMismatch.
Witness(note) ==
    LET index == owned[note].leaf_index
        inside == IF owned[note].path # NoPath THEN owned[note].path
                  ELSE IF Shard(index) # Len(completed) \/ ~LeafIs(live, Within(index), note)
                  THEN NoPath ELSE ImtSiblings(live, Within(index))
    IN  IF inside = NoPath THEN NoPath ELSE inside \o ImtSiblings(cap, Shard(index))
-----------------------------------------------------------------------------
\* The forward and the reverse index of owned notes agree: `owned_leaves`
\* "mirrors `owned_notes` keyed by leaf index", and no two notes share a leaf.
IndexesMirror ==
    /\ \A n \in DOMAIN owned :
          /\ owned[n].leaf_index \in DOMAIN ownedLeaves
          /\ ownedLeaves[owned[n].leaf_index] = n
    /\ \A i \in DOMAIN ownedLeaves :
          ownedLeaves[i] \in DOMAIN owned /\ owned[ownedLeaves[i]].leaf_index = i

\* A path is frozen exactly when the note's shard is completed: `roll_over`
\* misses no note, and `from_snapshot` and `mark_owned` admit no other.
FrozenIffCompleted ==
    \A n \in DOMAIN owned :
        owned[n].path # NoPath <=> Shard(owned[n].leaf_index) < Len(completed)

\* The bookkeeping of owned notes agrees with itself and with the shards.
BookkeepingAgrees == IndexesMirror /\ FrozenIffCompleted

\* The cached live leaves, the live Imt and the cap describe one tree: the
\* root is that of the flat tree over every leaf, and one completed root is
\* kept per full shard.
RootMatchesFlatTree ==
    /\ Root = RefRoot(Depth, FieldZero, log)
    /\ ImtLeaves(live) = liveLeaves
    /\ LeafCount = Len(log)
    /\ \A k \in DOMAIN completed : completed[k] = RefNode(log, FieldZero, ShardHeight, k - 1)

\* Every tracked note whose leaf is in the tree has a witness, the one the
\* flat tree gives; a note marked ahead of its leaf has none.
WitnessesMatchFlatTree ==
    LET flat == ImtFromLeaves(Depth, FieldZero, log)
    IN  \A n \in DOMAIN owned :
            LET index == owned[n].leaf_index
            IN  Witness(n) = IF index < Len(log) THEN ImtSiblings(flat, index) ELSE NoPath

\* A witness glued from a path frozen at a rollover and today's cap path, or
\* read from the live shard, proves its note against the root of the whole
\* flat tree, after any rewind and any reload.
ProvesAgainstFlatTree == RootMatchesFlatTree /\ WitnessesMatchFlatTree

\* `append` and `append_many` are all or nothing: once the checks at their
\* start have passed, neither `sync_live_root` nor `roll_over` reports an
\* error half way; and a call that fails has changed nothing.
FailedCallsChangeNothing == [][result' # "ok" => UNCHANGED <<treeVars, log>>]_vars

\* What the tree itself would write is always accepted by `from_snapshot`.
OwnSnapshotAccepted == ~SnapshotRefused(Snapshot)

\* A tree that is replaced by one restored from its own snapshot is the same
\* tree, both of its levels and both of its indexes, with nothing left to save.
RestoresOwnSnapshot ==
    Reload(Snapshot) =>
        /\ result' = "ok" /\ dirty' = {}
        /\ UNCHANGED <<completed, live, liveLeaves, cap, owned, ownedLeaves, log>>

\* The tree implements the log of leaves with its protocol root.
Log == INSTANCE MerkleLog WITH depth <- Depth, zero <- FieldZero, root <- Root

ImplementsLog == Log!LogSpec
=============================================================================
