---------------------------- MODULE ForeignTrees ----------------------------
(***************************************************************************)
(* The Merkle and notes-tree calls of the C ABI, bindings/ffi/src/trees.rs:*)
(* which arguments a call checks, in which order, before it changes a      *)
(* tree, creates a handle or writes through an out-pointer.                *)
(*                                                                         *)
(* A tree is the log of its leaves (Imt, NotesFrontier, ShardedNotesTree   *)
(* and PendingCommitments show that each implements MerkleLog); a sharded  *)
(* tree also tracks owned notes.  A proof is the log it was made from and  *)
(* a position.  A packed argument that does not decode is Malformed.       *)
(* Calls on one handle are serialised by its lock and two handles share    *)
(* only the handle counter (Registry), so a call is one step.              *)
(***************************************************************************)
EXTENDS Naturals, Sequences, FiniteSets, Functions, SequencesExt

CONSTANTS
    Values,             \* field elements: leaves and note ids
    Mine,               \* note ids the host marks as its own
    FieldZero,          \* zero, the padding of a batch
    Malformed,          \* a packed argument that does not decode
    LeafCapacity,       \* leaves a tree holds
    ShardSize,          \* leaves of a shard
    MaxTreeHandle,      \* bound: handles created
    MaxTrees,           \* bound: trees alive at once
    MaxBatch            \* bound: leaves in one call

ASSUME ForeignTreesAssumption ==
    /\ FieldZero \in Values /\ Malformed \notin Values
    /\ LeafCapacity \in Nat /\ ShardSize \in Nat \ {0} /\ MaxBatch \in Nat
    /\ MaxTreeHandle \in Nat /\ MaxTrees \in Nat /\ Mine \subseteq Values

VARIABLES
    treeObjects,  \* live handles of MERKLE, ORDERED, SHARDED, FRONTIER and PROOFS
    nextObject,   \* NEXT_HANDLE
    answer,       \* status of the last call
    held,         \* ghost: handles the host was given and has not freed
    copies        \* ghost: for a sharded tree, the witness states the host received

foreignVars == <<treeObjects, nextObject, answer, held, copies>>

Trees == {"merkle", "ordered", "sharded", "frontier"}
TreeHandles == 1..MaxTreeHandle
Lists == UNION {[1..n -> Values] : n \in 0..MaxBatch}
PackedField == Values \cup {Malformed}
PackedFields == Lists \cup {Malformed}
NoNotes == [n \in {} |-> 0]

\* A map with one entry set, and with the entries of a newer one.
Put(map, key, value) == [k \in DOMAIN map \cup {key} |-> IF k = key THEN value ELSE map[k]]
Overlay(newer, map) ==
    [k \in DOMAIN newer \cup DOMAIN map |-> IF k \in DOMAIN newer THEN newer[k] ELSE map[k]]

Tree(kind, leaves) ==
    [kind |-> kind, leaves |-> leaves, owned |-> NoNotes, dirty |-> {}]

Has(handle, kind) == handle \in DOMAIN treeObjects /\ treeObjects[handle].kind = kind

ForeignInit ==
    /\ treeObjects = [h \in {} |-> Tree("merkle", <<>>)] /\ nextObject = 1
    /\ answer = "Ok"
    /\ held = {} /\ copies = [h \in {} |-> NoNotes]

Answer(status) ==
    answer' = status /\ UNCHANGED <<treeObjects, nextObject, held, copies>>

\* `handle_out(registry.insert(value), out)`
HandOut(object, out) ==
    /\ treeObjects' = Put(treeObjects, nextObject, object)
    /\ nextObject' = nextObject + 1
    /\ answer' = (IF out THEN "Ok" ELSE "InvalidArgument")
    /\ held' = IF out THEN held \cup {nextObject} ELSE held
    /\ UNCHANGED copies

\* with_handle, with_handle_mut: a handle of another type is unknown too.
Reach(handle, kind, outcome) ==
    IF Has(handle, kind) THEN outcome ELSE "InvalidHandle"

\* What an out-pointer that `finish` checks turns an accepted call into.
Finish(outcome, out) == IF outcome = "Ok" /\ ~out THEN "InvalidArgument" ELSE outcome

\* The error of a core call on a tree that has to find room for leaves.
Room(tree) == LeafCapacity - Len(tree.leaves)
Shard(index) == index \div ShardSize
Completed(tree) == Shard(Len(tree.leaves))
LeafIs(tree, index, value) ==
    index < Len(tree.leaves) /\ tree.leaves[index + 1] = value
OwnedAt(tree, index) == {n \in DOMAIN tree.owned : tree.owned[n] = index}

CoreAppend(tree, leaves) ==
    IF \/ Len(leaves) > Room(tree)
       \/ tree.kind = "merkle" /\ ~IsInjective(tree.leaves \o leaves)
       \/ /\ tree.kind = "sharded"
          /\ \E k \in DOMAIN leaves :
                ~(OwnedAt(tree, Len(tree.leaves) + k - 1) \subseteq {leaves[k]})
    THEN "Error" ELSE "Ok"

\* A sharded tree freezes and reports the owned notes of the shards it fills.
Appended(tree, leaves) ==
    LET after == [tree EXCEPT !.leaves = @ \o leaves]
        frozen == {n \in DOMAIN tree.owned :
                      Shard(tree.owned[n]) \in Completed(tree)..(Completed(after) - 1)}
    IN  [after EXCEPT !.dirty = @ \cup frozen]

\* What the host knows of a tree's owned notes once it has read them all.
Rows(tree, notes) ==
    [n \in notes \cap DOMAIN tree.owned |->
        [index |-> tree.owned[n], frozen |-> Shard(tree.owned[n]) < Completed(tree)]]
-----------------------------------------------------------------------------
(* Geometry, proofs and the constructors.                                  *)

\* curvy_verify_merkle_proof has no state: only its rejections, of a packed
\* argument that does not decode or of its out-pointer, are told apart.
VerifyMerkleProof(decodes, out) ==
    Answer(IF decodes /\ out THEN "Ok" ELSE "InvalidArgument")

\* construct, for `*_new`, `*_from_leaves`, `*_restore_parts`,
\* `curvy_frontier_production`.
Construct(kind, packed, out) ==
    /\ nextObject <= MaxTreeHandle
    /\ Cardinality({h \in DOMAIN treeObjects : treeObjects[h].kind \in Trees}) < MaxTrees
    /\ IF ~out \/ packed = Malformed THEN Answer("InvalidArgument")
       ELSE IF CoreAppend(Tree(kind, <<>>), packed) # "Ok" THEN Answer("Error")
       ELSE HandOut(Tree(kind, packed), out)

\* The host stores what `curvy_sharded_snapshot` gave it, frees the tree and
\* passes the bytes to `curvy_sharded_restore`; altered bytes are an Error.
RestoreSharded(source, intact, out) ==
    /\ nextObject <= MaxTreeHandle
    /\ Has(source, "sharded")
    /\ IF ~out THEN Answer("InvalidArgument")
       ELSE IF ~intact THEN Answer("Error")
       ELSE LET tree == [treeObjects[source] EXCEPT !.dirty = {}]
                others == DOMAIN treeObjects \ {source}
            IN  /\ treeObjects' = Put(Restrict(treeObjects, others), nextObject, tree)
                /\ nextObject' = nextObject + 1 /\ answer' = "Ok"
                /\ held' = (held \ {source}) \cup {nextObject}
                /\ copies' = Put(Restrict(copies, DOMAIN copies \ {source}),
                                  nextObject, Rows(tree, DOMAIN tree.owned))

Free(kind, handle) ==
    IF ~Has(handle, kind) THEN Answer("InvalidHandle")
    ELSE /\ treeObjects' = Restrict(treeObjects, DOMAIN treeObjects \ {handle})
         /\ held' = held \ {handle}
         /\ copies' = Restrict(copies, DOMAIN copies \ {handle})
         /\ answer' = "Ok" /\ UNCHANGED nextObject

\* A call that only reads: the handle, the body, then the out-pointer.
Read(handle, kind, body, out) == Answer(Finish(Reach(handle, kind, body), out))

\* `curvy_proof_index`, `_leaf`, `_root`, `_siblings`.
ReadProof(handle, out) == Read(handle, "proof", "Ok", out)

\* `curvy_merkle_depth`, `_leaf_count`, `_root`, `_leaves`; `_get_index` of an
\* absent leaf is Ok, `_next_leaf_frontier` of a full tree an Error.
ReadMerkle(handle, out) == Read(handle, "merkle", "Ok", out)
ReadIndex(handle, leaf, out) ==
    Read(handle, "merkle", IF leaf = Malformed THEN "InvalidArgument" ELSE "Ok", out)
ReadNextLeafFrontier(handle, kind, out) ==
    Read(handle, kind, IF Room(treeObjects[handle]) = 0 THEN "Error" ELSE "Ok", out)

ReadOrdered(handle, out) == Read(handle, "ordered", "Ok", out)

\* The counts, roots, leaves and the snapshot of a sharded tree;
\* `curvy_sharded_completed_shard_root` of a live shard is an Error.
ReadSharded(handle, out) == Read(handle, "sharded", "Ok", out)
ReadShardRoot(handle, shard, out) ==
    Read(handle, "sharded",
         IF shard < Completed(treeObjects[handle]) THEN "Ok" ELSE "Error", out)

ReadFrontier(handle, out) == Read(handle, "frontier", "Ok", out)

\* `curvy_sharded_owned_notes`: the same with the packed rows.
OwnedNotes(handle, out) ==
    LET status == Finish(Reach(handle, "sharded", "Ok"), out)
        tree == treeObjects[handle]
    IN  /\ answer' = status
        /\ copies' = IF status = "Ok"
                     THEN Put(copies, handle, Rows(tree, DOMAIN tree.owned))
                     ELSE copies
        /\ UNCHANGED <<treeObjects, nextObject, held>>
-----------------------------------------------------------------------------
(* Calls that create a proof.                                              *)

ProofError(tree, index) == IF index < Len(tree.leaves) THEN "Ok" ELSE "Error"

\* `curvy_merkle_proof_at`, `curvy_ordered_proof_at`, and, with the position of
\* the leaf or of the owned note, `curvy_merkle_proof`, `curvy_sharded_witness`.
MakeProof(handle, kind, index, out) ==
    /\ nextObject <= MaxTreeHandle
    /\ IF ~out THEN Answer("InvalidArgument")
       ELSE LET status == Reach(handle, kind, ProofError(treeObjects[handle], index))
            IN  IF status # "Ok" THEN Answer(status)
                ELSE HandOut([kind |-> "proof", index |-> index,
                              leaves |-> treeObjects[handle].leaves], out)
-----------------------------------------------------------------------------
(* Calls that change a tree.                                               *)

\* The tree under its lock: an error leaves it as it was.
Change(handle, kind, error, tree) ==
    LET status == Reach(handle, kind, error)
    IN  IF status # "Ok" THEN Answer(status)
        ELSE /\ treeObjects' = [treeObjects EXCEPT ![handle] = tree]
             /\ answer' = "Ok" /\ UNCHANGED <<nextObject, held>>

DecodeError(packed, error) == IF packed = Malformed THEN "InvalidArgument" ELSE error

AppendLeaves(handle, kind, packed) ==
    /\ Change(handle, kind, DecodeError(packed, CoreAppend(treeObjects[handle], packed)),
              Appended(treeObjects[handle], packed))
    /\ UNCHANGED copies

\* `curvy_merkle_insert`, `curvy_ordered_insert`, `curvy_frontier_append` and
\* `_append_many` write where the leaves went or which shards they completed.
AppendAndWrite(handle, kind, packed, out) ==
    IF ~out THEN Answer("InvalidArgument") ELSE AppendLeaves(handle, kind, packed)

\* `curvy_merkle_insert_many`, `curvy_ordered_insert_many`,
\* `curvy_sharded_append` and `_append_many` write nothing.
AppendOnly(handle, kind, packed) == AppendLeaves(handle, kind, packed)

Truncate(handle, count) ==
    /\ Change(handle, "merkle",
              IF count > Len(treeObjects[handle].leaves) THEN "Error" ELSE "Ok",
              [treeObjects[handle] EXCEPT !.leaves = SubSeq(@, 1, count)])
    /\ UNCHANGED copies

\* build_bound: what the caller got wrong is an invalid argument, a full tree
\* an error.
BuildBoundError(tree, size, ids) ==
    IF \/ size = 0 \/ Len(ids) \notin 1..size
       \/ FieldZero \in Range(ids) \/ ~IsInjective(ids) THEN "InvalidArgument"
    ELSE IF Len(ids) > Room(tree) THEN "Error"
    ELSE IF CoreAppend(tree, ids) # "Ok" THEN "InvalidArgument" ELSE "Ok"

\* Mutation: the out-pointer is checked after the tree was changed.
BuildBound_LateOut(handle, kind, size, packed, out) ==
    LET status == Reach(handle, kind,
                        DecodeError(packed, BuildBoundError(treeObjects[handle], size, packed)))
    IN  IF status # "Ok" THEN Answer(status)
        ELSE /\ treeObjects' = [treeObjects EXCEPT ![handle] = Appended(@, packed)]
             /\ answer' = (IF out THEN "Ok" ELSE "InvalidArgument")
             /\ UNCHANGED <<nextObject, held, copies>>

BuildBound(handle, kind, size, packed, out) ==
    IF ~out THEN Answer("InvalidArgument")
    ELSE /\ Change(handle, kind,
                   DecodeError(packed, BuildBoundError(treeObjects[handle], size, packed)),
                   Appended(treeObjects[handle], packed))
         /\ UNCHANGED copies

Marked(tree, note, index) ==
    [tree EXCEPT !.owned = Put(@, note, index), !.dirty = @ \cup {note}]

Unmarked(tree, notes) ==
    [tree EXCEPT !.owned = Restrict(@, DOMAIN @ \ notes), !.dirty = @ \ notes]

\* A note or a leaf that another mark already claims.
Claimed(tree, note, index) ==
    \/ note \in DOMAIN tree.owned /\ tree.owned[note] # index
    \/ ~(OwnedAt(tree, index) \subseteq {note})

MarkOwned(handle, packed, index) ==
    LET tree == treeObjects[handle]
        error == IF \/ index >= LeafCapacity \/ Shard(index) < Completed(tree)
                    \/ Claimed(tree, packed, index)
                    \/ index < Len(tree.leaves) /\ ~LeafIs(tree, index, packed)
                 THEN "Error" ELSE "Ok"
    IN  /\ Change(handle, "sharded", DecodeError(packed, error),
                  IF packed \in DOMAIN tree.owned THEN tree ELSE Marked(tree, packed, index))
        /\ UNCHANGED copies

\* The siblings verify only when they lead from the note in its place.
AdoptFrozenWitness(handle, packed, index, honest) ==
    LET tree == treeObjects[handle]
        error == IF \/ Shard(index) >= Completed(tree) \/ Claimed(tree, packed, index)
                    \/ ~honest \/ ~LeafIs(tree, index, packed)
                 THEN "Error" ELSE "Ok"
    IN  /\ Change(handle, "sharded", DecodeError(packed, error), Marked(tree, packed, index))
        /\ UNCHANGED copies

\* Notes the host hears are gone: it drops its copies.
Forget(handle, notes) ==
    copies' = IF answer' = "Ok" /\ handle \in DOMAIN copies
              THEN [copies EXCEPT ![handle] = Restrict(@, DOMAIN @ \ notes)]
              ELSE copies

UnmarkOwned(handle, packed, out) ==
    IF ~out THEN Answer("InvalidArgument")
    ELSE /\ Change(handle, "sharded", DecodeError(packed, "Ok"),
                   Unmarked(treeObjects[handle], {packed}))
         /\ Forget(handle, {packed})

\* The ids of the unmarked notes are what the call writes.
RewindLiveTo(handle, count, out) ==
    IF ~out THEN Answer("InvalidArgument")
    ELSE LET tree == treeObjects[handle]
             cut == {n \in DOMAIN tree.owned : tree.owned[n] >= count}
         IN  /\ Change(handle, "sharded",
                       IF count \in (Completed(tree) * ShardSize)..Len(tree.leaves)
                       THEN "Ok" ELSE "Error",
                       Unmarked([tree EXCEPT !.leaves = SubSeq(@, 1, count)], cut))
             /\ Forget(handle, cut)

\* The host's copies once it has read these rows.
Receive(handle, rows) ==
    Put(copies, handle,
        IF handle \in DOMAIN copies THEN Overlay(rows, copies[handle]) ELSE rows)

\* Mutation: the out-pointer is checked after the notes were drained.
DrainDirty_LateOut(handle, out) ==
    LET tree == treeObjects[handle]
    IN  IF ~Has(handle, "sharded") THEN Answer("InvalidHandle")
        ELSE /\ treeObjects' = [treeObjects EXCEPT ![handle].dirty = {}]
             /\ answer' = (IF out THEN "Ok" ELSE "InvalidArgument")
             /\ copies' = IF out THEN Receive(handle, Rows(tree, tree.dirty)) ELSE copies
             /\ UNCHANGED <<nextObject, held>>

DrainDirty(handle, out) ==
    IF ~out THEN Answer("InvalidArgument")
    ELSE IF ~Has(handle, "sharded") THEN Answer("InvalidHandle")
    ELSE LET tree == treeObjects[handle]
         IN  /\ treeObjects' = [treeObjects EXCEPT ![handle].dirty = {}]
             /\ copies' = Receive(handle, Rows(tree, tree.dirty))
             /\ answer' = "Ok" /\ UNCHANGED <<nextObject, held>>
-----------------------------------------------------------------------------
Index == 0..LeafCapacity

ForeignNext ==
    \/ \E decodes, out \in BOOLEAN : VerifyMerkleProof(decodes, out)
    \/ \E kind \in Trees, packed \in PackedFields, out \in BOOLEAN : Construct(kind, packed, out)
    \/ \E h \in TreeHandles, intact, out \in BOOLEAN : RestoreSharded(h, intact, out)
    \/ \E h \in TreeHandles, kind \in Trees \cup {"proof"} : Free(kind, h)
    \/ \E h \in TreeHandles, out \in BOOLEAN :
            \/ ReadProof(h, out) \/ ReadMerkle(h, out) \/ ReadOrdered(h, out)
            \/ ReadSharded(h, out) \/ ReadFrontier(h, out)
            \/ \E leaf \in PackedField : ReadIndex(h, leaf, out)
            \/ \E kind \in {"merkle", "frontier"} : ReadNextLeafFrontier(h, kind, out)
            \/ \E shard \in Index : ReadShardRoot(h, shard, out)
    \/ \E h \in TreeHandles, out \in BOOLEAN : OwnedNotes(h, out) \/ DrainDirty(h, out)
    \/ \E h \in TreeHandles, index \in Index, out \in BOOLEAN :
            \/ \E kind \in Trees \ {"frontier"} : MakeProof(h, kind, index, out)
            \/ RewindLiveTo(h, index, out)
    \/ \E h \in TreeHandles, packed \in PackedFields :
            \/ \E kind \in Trees \ {"sharded"}, out \in BOOLEAN :
                    AppendAndWrite(h, kind, packed, out)
            \/ \E kind \in Trees \ {"frontier"} : AppendOnly(h, kind, packed)
    \/ \E h \in TreeHandles, index \in Index : Truncate(h, index)
    \/ \E h \in TreeHandles, kind \in {"merkle", "frontier"}, size \in 0..MaxBatch,
          packed \in PackedFields, out \in BOOLEAN : BuildBound(h, kind, size, packed, out)
    \/ \E h \in TreeHandles, packed \in Mine \cup {Malformed}, index \in Index :
            \/ MarkOwned(h, packed, index)
            \/ \E honest \in BOOLEAN : AdoptFrozenWitness(h, packed, index, honest)
    \/ \E h \in TreeHandles, packed \in Mine \cup {Malformed}, out \in BOOLEAN :
            UnmarkOwned(h, packed, out)

ForeignSpec == ForeignInit /\ [][ForeignNext]_foreignVars
-----------------------------------------------------------------------------
\* "Mutating calls validate out-pointers before changing state or creating
\* handles, so callers can safely retry rejected calls": a call that returns
\* anything but Ok has changed no tree and created no handle.
RejectedCallsAreRetriable == answer' # "Ok" => UNCHANGED <<treeObjects, nextObject>>

\* Every live handle is one the host was given: no rejected call and no
\* error after an insertion leaves an object nobody can free.
NoOrphans == DOMAIN treeObjects = held

\* The host's copies hold a note of the tree as it is now.
ReceivedAsItIs(handle, note) ==
    /\ handle \in DOMAIN copies /\ note \in DOMAIN copies[handle]
    /\ copies[handle][note] = Rows(treeObjects[handle], {note})[note]

\* A tree may forget that an owned note is dirty only once the host has
\* received that note's witness as it is now: every clean owned note is in
\* the host's copies, frozen if its shard is complete; and every live handle
\* is one the host was given (trees.rs).
CleanNotesWereReceived ==
    /\ NoOrphans
    /\ \A h \in DOMAIN treeObjects :
            treeObjects[h].kind = "sharded" =>
                \A n \in DOMAIN treeObjects[h].owned \ treeObjects[h].dirty : ReceivedAsItIs(h, n)

=============================================================================
