------------------------- MODULE PendingCommitments -------------------------
(***************************************************************************)
(* The notes trees an operator appends pending batches to, and the two     *)
(* builders that append a batch and produce the circuit input for it:      *)
(* `build_pending_commitment_input` of bindings/node/src/lib.rs (one path  *)
(* per note) and `build_bound_pending_commitment` of                       *)
(* crates/core/src/witness/bound_pending.rs (the frontier before the       *)
(* batch).  A tree takes one of three forms:                               *)
(*   "indexed"   IndexedMerkleTree: an Imt and the index of each leaf;     *)
(*   "frontier"  NotesFrontier: no leaves, at most one node per level;     *)
(*   "ordered"   OrderedMerkleTree: an Imt whose leaves may repeat.        *)
(* Batches go to the first two.  Calls on one tree are serialised by       *)
(* `&mut self`, so every call is one step; a refused call is a step too.   *)
(***************************************************************************)
EXTENDS MerkleOps

CONSTANTS
    NoteIds,        \* field elements used as leaves and note ids
    ZeroId,     \* Fr::ZERO, the padding of a batch
    TreeDepths,    \* depths given to the constructors of the leaf-holding forms
    Geometries,    \* pairs <<depth, shard height>> of frontiers
    MaxBatchSize,  \* MAX_PENDING_BATCH_SIZE
    MaxIds         \* bound: leaves or note ids in one call

ASSUME PendingAssumption ==
    /\ ZeroId \in NoteIds
    /\ TreeDepths \subseteq Nat
    /\ Geometries \subseteq Nat \X Nat
    /\ MaxBatchSize \in Nat \ {0} /\ MaxIds \in Nat

VARIABLES
    notes,   \* the tree
    history, \* ghost: the leaves a frontier stands for
    stored,   \* a frontier's stored snapshot with its history, or none: <<>>
    reply   \* outcome of the last call

pendingVars == <<notes, history, stored, reply>>

Lists == UNION {[1..n -> NoteIds] : n \in 0..MaxIds}
-----------------------------------------------------------------------------
IndexedTree(tree, indices) == [form |-> "indexed", tree |-> tree, indices |-> indices]
OrderedTree(tree) == [form |-> "ordered", tree |-> tree]
FrontierTree(frontier) == [form |-> "frontier", frontier |-> frontier]

\* The index of each leaf.
IndexOf(leaves) ==
    [leaf \in Range(leaves) |-> (CHOOSE k \in DOMAIN leaves : leaves[k] = leaf) - 1]

\* `from_leaves`; `new` is the case of no leaves.
IndexedFromLeaves(depth, leaves) ==
    IndexedTree(ImtFromLeaves(depth, ZeroId, leaves), IndexOf(leaves))
OrderedFromLeaves(depth, leaves) == OrderedTree(ImtFromLeaves(depth, ZeroId, leaves))

Depth(t) == IF t.form = "frontier" THEN t.frontier.depth ELSE t.tree.depth
Count(t) == IF t.form = "frontier" THEN t.frontier.count ELSE ImtLeafCount(t.tree)
RootOf(t) == IF t.form = "frontier" THEN FrontierRoot(t.frontier, ZeroId) ELSE ImtRoot(t.tree)
Room(t) == TreeCapacity(Depth(t)) - Count(t)

\* `next_leaf_frontier`, for a tree with room.
NextLeafFrontier(t) ==
    IF t.form = "frontier" THEN FrontierNextLeaf(t.frontier, ZeroId)
    ELSE ImtNextLeafFrontier(t.tree, ZeroId)

\* Whether `indices.contains_key(leaf)`.
Holds(t, leaf) == t.form = "indexed" /\ leaf \in DOMAIN t.indices

\* `insert` of the leaf-holding forms, `append_with_siblings` of a frontier.
InsertError(t, leaf) ==
    CASE Holds(t, leaf) -> "DuplicateLeaf"
      [] ~Holds(t, leaf) /\ Room(t) <= 0 -> "TreeFull"
      [] /\ t.form = "frontier" /\ Room(t) > 0
         /\ ~FrontierAppend(t.frontier, leaf).ok -> "InvalidSnapshot"
      [] OTHER -> "ok"

Inserted(t, leaf) ==
    IF t.form = "ordered" THEN OrderedTree(ImtInsert(t.tree, leaf))
    ELSE IndexedTree(ImtInsert(t.tree, leaf),
                     [l \in DOMAIN t.indices \cup {leaf} |->
                          IF l = leaf THEN Count(t) ELSE t.indices[l]])

\* `check_insert_many`, the capacity check of `Imt::insert_many` and the
\* errors of `NotesFrontier::append_many`.
InsertManyError(t, leaves) ==
    CASE Len(leaves) > Room(t) -> "TreeFull"
      [] /\ Len(leaves) <= Room(t) /\ t.form = "indexed"
         /\ (\E leaf \in Range(leaves) : Holds(t, leaf)) \/ ~IsInjective(leaves)
            -> "DuplicateLeaf"
      [] /\ Len(leaves) <= Room(t) /\ t.form = "frontier"
         /\ ~FrontierAppendMany(t.frontier, leaves).ok -> "InvalidSnapshot"
      [] OTHER -> "ok"

\* `insert_many`, and for a frontier `append_many` on a copy swapped in.
InsertedMany(t, leaves) ==
    CASE t.form = "frontier" -> FrontierTree(FrontierAppendMany(t.frontier, leaves).frontier)
      [] t.form = "ordered" -> OrderedTree(ImtInsertMany(t.tree, leaves))
      [] t.form = "indexed" ->
            IndexedTree(ImtInsertMany(t.tree, leaves),
                        [l \in DOMAIN t.indices \cup Range(leaves) |->
                            IF l \in Range(leaves) THEN Count(t) + IndexOf(leaves)[l]
                            ELSE t.indices[l]])

\* `IndexedMerkleTree::truncate`
Truncated(t, count) ==
    LET removed == Range(SubSeq(ImtLeaves(t.tree), count + 1, Count(t)))
    IN  IndexedTree(ImtTruncate(t.tree, count), [l \in DOMAIN t.indices \ removed |-> t.indices[l]])
-----------------------------------------------------------------------------
Padded(ids, batchSize) ==
    [k \in 1..batchSize |-> IF k <= Len(ids) THEN ids[k] ELSE ZeroId]

\* The words a batch is bound to; the SHA-256 input hash and the calldata
\* binding are free constructors over them.
Words(padded, t, after) == padded \o <<RootOf(t), RootOf(after), Count(t), Count(after)>>

\* Mutation: both forms read the siblings after the append.
SiblingsAfter_AfterAppend(t, id) ==
    IF t.form = "frontier"
    THEN AppendSiblings(FrontierAppend(t.frontier, id).frontier, ZeroId)
    ELSE LET after == Inserted(t, id) IN ImtSiblings(after.tree, after.indices[id])

\* `insert_with_siblings` for an id `InsertError` does not refuse.
SiblingsAfter(t, id) ==
    IF t.form = "frontier" THEN AppendSiblings(t.frontier, ZeroId)
    ELSE LET after == Inserted(t, id) IN ImtSiblings(after.tree, after.indices[id])

WithId(t, id) ==
    IF t.form = "frontier" THEN FrontierTree(FrontierAppend(t.frontier, id).frontier)
    ELSE Inserted(t, id)

Working(tree, siblings, error) == [tree |-> tree, siblings |-> siblings, error |-> error]

\* One turn of the loop of `build_pending_commitment_input` on the working
\* copy; a zero is a slot without a note, wherever it stands.
PathTurn(work, id) ==
    IF work.error # "ok" THEN work
    ELSE IF id = ZeroId
    THEN Working(work.tree, Append(work.siblings, [k \in 1..Depth(work.tree) |-> ZeroId]), "ok")
    ELSE IF InsertError(work.tree, id) # "ok"
    THEN Working(work.tree, work.siblings, InsertError(work.tree, id))
    ELSE Working(WithId(work.tree, id), Append(work.siblings, SiblingsAfter(work.tree, id)), "ok")

PathLoop(t, padded) ==
    LET work[k \in 0..Len(padded)] ==
            IF k = 0 THEN Working(t, <<>>, "ok") ELSE PathTurn(work[k - 1], padded[k])
    IN  work[Len(padded)]

\* The ids without the zeroes.
NonZero(ids) ==
    LET kept[k \in 0..Len(ids)] ==
            IF k = 0 THEN <<>>
            ELSE IF ids[k] = ZeroId THEN kept[k - 1] ELSE Append(kept[k - 1], ids[k])
    IN  kept[Len(ids)]

\* The node calls around the loop: batch size, count, a frontier's check for a
\* repeat in the batch, no ids at all, then what the loop reports.
PathError(t, batchSize, ids) ==
    CASE batchSize \notin 1..MaxBatchSize -> "InvalidBatchSize"
      [] batchSize \in 1..MaxBatchSize /\ Len(ids) > batchSize -> "BatchTooLarge"
      [] /\ batchSize \in 1..MaxBatchSize /\ Len(ids) <= batchSize
         /\ t.form = "frontier" /\ ~IsInjective(NonZero(ids)) -> "DuplicateLeaf"
      [] batchSize \in 1..MaxBatchSize /\ ids = <<>> -> "NoNotes"
      [] OTHER -> PathLoop(t, Padded(ids, batchSize)).error

AfterPath(t, batchSize, ids) == PathLoop(t, Padded(ids, batchSize)).tree

PathInput(t, batchSize, ids) ==
    LET padded == Padded(ids, batchSize)
        after == AfterPath(t, batchSize, ids)
    IN  [currentIndex |-> Count(t), currentRoot |-> RootOf(t), ids |-> padded,
         siblings |-> PathLoop(t, padded).siblings, newRoot |-> RootOf(after),
         inputHash |-> Words(padded, t, after)]

\* `build_pending_commitment` of crates/core/src/witness.rs, for arguments its
\* assertions admit: a copy of an Imt, leaves that may repeat.
CoreAccepts(tree, batchSize, ids) ==
    /\ batchSize <= MaxBatchSize /\ Len(ids) <= batchSize
    /\ Len(NonZero(ids)) <= TreeCapacity(tree.depth) - ImtLeafCount(tree)

CoreTurn(work, id) ==
    IF id = ZeroId
    THEN Working(work.tree, Append(work.siblings, [k \in 1..work.tree.depth |-> ZeroId]), "ok")
    ELSE LET after == ImtInsert(work.tree, id)
         IN  Working(after, Append(work.siblings, ImtSiblings(after, ImtLeafCount(after) - 1)), "ok")

CoreLoop(tree, padded) ==
    LET work[k \in 0..Len(padded)] ==
            IF k = 0 THEN Working(tree, <<>>, "ok") ELSE CoreTurn(work[k - 1], padded[k])
    IN  work[Len(padded)]

CoreInput(tree, batchSize, ids) ==
    LET padded == Padded(ids, batchSize)
        done == CoreLoop(tree, padded)
    IN  [currentIndex |-> ImtLeafCount(tree), currentRoot |-> ImtRoot(tree), ids |-> padded,
         siblings |-> done.siblings, newRoot |-> ImtRoot(done.tree),
         inputHash |-> padded \o <<ImtRoot(tree), ImtRoot(done.tree),
                                   ImtLeafCount(tree), ImtLeafCount(done.tree)>>]
-----------------------------------------------------------------------------
\* The checks of `build_bound_pending_commitment`, in order; the first is also
\* made by the bindings, before they parse the ids.
BoundError(t, batchSize, ids) ==
    CASE batchSize \notin 1..MaxBatchSize -> "InvalidBatchSize"
      [] batchSize \in 1..MaxBatchSize /\ ids = <<>> -> "NoNotes"
      [] batchSize \in 1..MaxBatchSize /\ Len(ids) > batchSize -> "BatchTooLarge"
      [] /\ batchSize \in 1..MaxBatchSize /\ Len(ids) \in 1..batchSize
         /\ ZeroId \in Range(ids) -> "ZeroNoteId"
      [] /\ batchSize \in 1..MaxBatchSize /\ Len(ids) \in 1..batchSize
         /\ ZeroId \notin Range(ids) /\ ~IsInjective(ids) -> "DuplicateNoteId"
      [] OTHER -> IF Room(t) <= 0 THEN "TreeFull" ELSE InsertManyError(t, ids)

BoundInput(t, batchSize, ids) ==
    LET padded == Padded(ids, batchSize)
        after == InsertedMany(t, ids)
    IN  [currentIndex |-> Count(t), currentRoot |-> RootOf(t), ids |-> padded,
         frontier |-> NextLeafFrontier(t),
         newRoot |-> RootOf(after), newIndex |-> Count(after),
         binding |-> Words(padded, t, after)]
-----------------------------------------------------------------------------
Admitted(g) == g[2] # 0 /\ g[2] < g[1]

PendingInit ==
    /\ \/ \E depth \in TreeDepths : notes = IndexedFromLeaves(depth, <<>>)
       \/ \E depth \in TreeDepths : notes = OrderedFromLeaves(depth, <<>>)
       \/ \E g \in {h \in Geometries : Admitted(h)} :
             notes = FrontierTree(FrontierNew(g[1], g[2]))
    /\ history = <<>> /\ stored = <<>>
    /\ reply = "ok"

\* A frontier's ghost history follows what the call appended.
Logged(leaves) == history' = IF notes.form = "frontier" THEN history \o leaves ELSE history

Refused(error) == reply' = error /\ UNCHANGED <<notes, history, stored>>

InsertNote(leaf) ==
    /\ notes.form # "frontier"
    /\ LET error == InsertError(notes, leaf)
       IN  \/ error # "ok" /\ Refused(error)
           \/ /\ error = "ok"
              /\ notes' = Inserted(notes, leaf)
              /\ reply' = "ok" /\ UNCHANGED <<history, stored>>

\* `insert_many`; for a frontier the binding's `append`, all or none as well.
InsertNotes(leaves) ==
    LET error == InsertManyError(notes, leaves)
    IN  \/ error # "ok" /\ Refused(error)
        \/ /\ error = "ok"
           /\ notes' = InsertedMany(notes, leaves)
           /\ Logged(leaves)
           /\ reply' = "ok" /\ UNCHANGED stored

\* Take an operator's tree back to an earlier count: a batch did not land.
TruncateNotes(count) ==
    /\ notes.form = "indexed"
    /\ \/ count > Count(notes) /\ Refused("LeafIndexOutOfRange")
       \/ /\ count <= Count(notes)
          /\ notes' = Truncated(notes, count)
          /\ reply' = "ok" /\ UNCHANGED <<history, stored>>

\* The same for a frontier: `snapshot` before a batch, `fromSnapshot` after.
Store ==
    /\ notes.form = "frontier"
    /\ stored' = <<[bytes |-> EncodeSnapshot(notes.frontier), history |-> history]>>
    /\ reply' = "ok" /\ UNCHANGED <<notes, history>>

GoBack ==
    /\ stored # <<>>
    /\ SnapshotAccepted(stored[1].bytes)
    /\ notes' = FrontierTree(DecodeSnapshot(stored[1].bytes))
    /\ history' = stored[1].history
    /\ reply' = "ok" /\ UNCHANGED stored

\* Mutation: the notes are appended to the caller's tree, not to a copy.
BuildPath_InPlace(batchSize, ids) ==
    /\ notes.form # "ordered"
    /\ LET error == PathError(notes, batchSize, ids)
           kept == PathLoop(notes, Padded(ids, batchSize)).tree
       IN  \/ /\ error \in {"DuplicateLeaf", "TreeFull"}
              /\ notes' = kept
              /\ history' = history \o SubSeq(NonZero(ids), 1, Count(kept) - Count(notes))
              /\ reply' = error /\ UNCHANGED stored
           \/ error \notin {"ok", "DuplicateLeaf", "TreeFull"} /\ Refused(error)
           \/ /\ error = "ok"
              /\ notes' = kept
              /\ Logged(NonZero(ids))
              /\ reply' = "ok" /\ UNCHANGED stored

\* `buildPendingCommitment`: the working copy replaces the tree at the end.
BuildPath(batchSize, ids) ==
    /\ notes.form # "ordered"
    /\ LET error == PathError(notes, batchSize, ids)
       IN  \/ error # "ok" /\ Refused(error)
           \/ /\ error = "ok"
              /\ notes' = AfterPath(notes, batchSize, ids)
              /\ Logged(NonZero(ids))
              /\ reply' = "ok" /\ UNCHANGED stored

\* `buildBoundPendingCommitment`
BuildBound(batchSize, ids) ==
    /\ notes.form # "ordered"
    /\ LET error == BoundError(notes, batchSize, ids)
       IN  \/ error # "ok" /\ Refused(error)
           \/ /\ error = "ok"
              /\ notes' = InsertedMany(notes, ids)
              /\ Logged(ids)
              /\ reply' = "ok" /\ UNCHANGED stored

BatchSizes == 0..(MaxBatchSize + 1)

PendingNext ==
    \/ \E leaf \in NoteIds : InsertNote(leaf)
    \/ \E leaves \in Lists : InsertNotes(leaves)
    \/ \E count \in 0..(TreeCapacity(Depth(notes)) + 1) : TruncateNotes(count)
    \/ Store
    \/ GoBack
    \/ \E batchSize \in BatchSizes, ids \in Lists : BuildPath(batchSize, ids)
    \/ \E batchSize \in BatchSizes, ids \in Lists : BuildBound(batchSize, ids)

PendingSpec == PendingInit /\ [][PendingNext]_pendingVars
-----------------------------------------------------------------------------
\* The leaves the tree stands for.
HeldLeaves == IF notes.form = "frontier" THEN history ELSE ImtLeaves(notes.tree)

\* `IndexedMerkleTree::indices` is the inverse of the leaf row through insert,
\* insert_many, truncate and both builders: no leaf occurs twice, and
\* `get_index` finds each leaf where it is and nothing else.
IndexMirrorsLeaves ==
    notes.form = "indexed" =>
        /\ DOMAIN notes.indices = Range(HeldLeaves)
        /\ \A k \in DOMAIN HeldLeaves : notes.indices[HeldLeaves[k]] = k - 1

\* What the path circuit is for: starting from the current root, each note's
\* siblings open an empty leaf at the next index in the root before it and the
\* note in the root after it, and the last root is the new one.
PathProves(input, depth) ==
    LET at[k \in 0..Len(input.ids)] ==
            IF k = 0 THEN [ok |-> TRUE, index |-> input.currentIndex, root |-> input.currentRoot]
            ELSE LET before == at[k - 1]
                     id == input.ids[k]
                     siblings == input.siblings[k]
                 IN  IF id = ZeroId THEN before
                     ELSE [ok |-> before.ok /\ VerifyProofAtDepth(ZeroId, before.index, siblings,
                                                                  before.root, depth),
                           index |-> before.index + 1,
                           root |-> PathRoot(id, before.index, siblings)]
        end == at[Len(input.ids)]
    IN  end.ok /\ end.root = input.newRoot

\* What the bound circuit is for: the frontier before the batch is enough to
\* append the notes to, and ends in the new root at the new index.
FrontierProves(input, depth) ==
    LET before == [depth |-> depth, height |-> 1, count |-> input.currentIndex,
                   slots |-> [level \in {l \in 0..(depth - 1) : Bit(input.currentIndex, l) = 1}
                                 |-> input.frontier[level + 1]]]
        after == FrontierAppendMany(before, NonZero(input.ids)).frontier
    IN  /\ FrontierRoot(before, ZeroId) = input.currentRoot
        /\ FrontierRoot(after, ZeroId) = input.newRoot
        /\ after.count = input.newIndex

\* Whatever either builder accepts, in whatever state calls have left the
\* tree, is an input its circuit can prove, and leads to the root of the
\* flat tree over the old leaves and the new notes.
PathInputProves(batchSize, ids) ==
    LET path == PathInput(notes, batchSize, ids)
    IN  /\ path.newRoot = RefRoot(Depth(notes), ZeroId, HeldLeaves \o NonZero(ids))
        /\ PathProves(path, Depth(notes))
BoundInputProves(batchSize, ids) ==
    LET bound == BoundInput(notes, batchSize, ids)
    IN  /\ bound.newRoot = RefRoot(Depth(notes), ZeroId, HeldLeaves \o NonZero(ids))
        /\ FrontierProves(bound, Depth(notes))
BuiltInputsProve ==
    notes.form # "ordered" =>
        \A ids \in Lists, batchSize \in 1..MaxBatchSize :
            /\ PathError(notes, batchSize, ids) = "ok" => PathInputProves(batchSize, ids)
            /\ BoundError(notes, batchSize, ids) = "ok" => BoundInputProves(batchSize, ids)

\* "One implementation for both tree forms, so they cannot drift": for one
\* history of distinct leaves, both forms and the core builder over a plain
\* Imt produce the same input, and refuse the same batches except those that
\* repeat a leaf the tree already holds, which a frontier cannot see.
FormsBuildTheSameInput ==
    notes.form = "frontier" /\ IsInjective(history) =>
        LET indexed == IndexedFromLeaves(Depth(notes), history)
        IN  \A ids \in Lists, batchSize \in BatchSizes :
                LET repeats == \E id \in Range(ids) \ {ZeroId} : Holds(indexed, id)
                IN  /\ ~repeats =>
                         /\ BoundError(notes, batchSize, ids) = BoundError(indexed, batchSize, ids)
                         /\ (PathError(notes, batchSize, ids) = "ok")
                              <=> (PathError(indexed, batchSize, ids) = "ok")
                    /\ BoundError(indexed, batchSize, ids) = "ok" =>
                         BoundInput(notes, batchSize, ids) = BoundInput(indexed, batchSize, ids)
                    /\ PathError(indexed, batchSize, ids) = "ok" =>
                         /\ CoreAccepts(indexed.tree, batchSize, ids)
                         /\ PathInput(notes, batchSize, ids) = PathInput(indexed, batchSize, ids)
                         /\ PathInput(indexed, batchSize, ids)
                              = CoreInput(indexed.tree, batchSize, ids)

\* A batch that did not land can be taken back: truncating an indexed tree to
\* the batch's current index leaves the rows and the index of before, and the
\* snapshot taken before restores the same frontier.
BatchesCanBeTakenBack ==
    /\ notes.form = "indexed" =>
          \A ids \in Lists, batchSize \in 1..MaxBatchSize :
              /\ PathError(notes, batchSize, ids) = "ok" =>
                    Truncated(AfterPath(notes, batchSize, ids), Count(notes)) = notes
              /\ BoundError(notes, batchSize, ids) = "ok" =>
                    Truncated(InsertedMany(notes, ids), Count(notes)) = notes
    /\ notes.form = "frontier" =>
          /\ SnapshotAccepted(EncodeSnapshot(notes.frontier))
          /\ DecodeSnapshot(EncodeSnapshot(notes.frontier)) = notes.frontier

\* An input built over a tree that holds earlier batches, of which some were
\* taken back, proves the step from the root on chain to the root after the
\* batch, in either form of the builder; the index of leaves follows.
InputsProveTheNewRoot ==
    BuiltInputsProve /\ FormsBuildTheSameInput /\ IndexMirrorsLeaves /\ BatchesCanBeTakenBack

\* A refused call, a batch refused at its last note included, leaves the tree
\* as it was.
RefusedNotesStay == reply' # "ok" => UNCHANGED notes
=============================================================================
