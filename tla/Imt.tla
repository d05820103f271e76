-------------------------------- MODULE Imt --------------------------------
(***************************************************************************)
(* One `Imt` of crates/core/src/imt.rs under any sequence of its public    *)
(* operations.  Calls on one tree are serialised by `&mut self`, so every  *)
(* operation is one step.                                                  *)
(***************************************************************************)
EXTENDS MerkleOps, SequencesExt

CONSTANTS
    Values,     \* field elements used as leaves
    FieldZero,  \* Fr::ZERO
    CapZero,    \* some other leaf-level zero, as the sharded tree's cap uses
    MaxDepth,   \* bound: trees of depth 0..MaxDepth
    MaxBatch    \* bound: leaves per insert_many call

ASSUME ImtAssumption == MaxDepth \in Nat /\ MaxBatch \in Nat

VARIABLES
    tree,   \* the tree
    result  \* how the last call ended: "ok" or the TreeError / panic

vars == <<tree, result>>

Batches == UNION {[1..n -> Values] : n \in 0..MaxBatch}

Init ==
    /\ \E depth \in 0..MaxDepth, zero \in {FieldZero, CapZero} : tree = ImtNew(depth, zero)
    /\ result = "ok"

Insert(leaf) ==
    \/ /\ ~ImtIsFull(tree)
       /\ tree' = ImtInsert(tree, leaf)
       /\ result' = "ok"
    \/ /\ ImtIsFull(tree)
       /\ result' = "TreeFull"
       /\ UNCHANGED tree

InsertMany(leaves) ==
    LET room == TreeCapacity(tree.depth) - ImtLeafCount(tree)
    IN  \/ /\ Len(leaves) <= room
           /\ tree' = ImtInsertMany(tree, leaves)
           /\ result' = "ok"
        \/ /\ Len(leaves) > room
           /\ result' = "TreeFull"
           /\ UNCHANGED tree

Update(index, leaf) ==
    \/ /\ index < ImtLeafCount(tree)
       /\ tree' = ImtUpdate(tree, index, leaf)
       /\ result' = "ok"
    \/ /\ index >= ImtLeafCount(tree)
       /\ result' = "LeafIndexOutOfRange"
       /\ UNCHANGED tree

Truncate(count) ==
    \/ /\ count <= ImtLeafCount(tree)
       /\ tree' = ImtTruncate(tree, count)
       /\ result' = "ok"
    \/ /\ count > ImtLeafCount(tree)
       /\ result' = "LeafIndexOutOfRange"
       /\ UNCHANGED tree

Indices == 0..TreeCapacity(tree.depth)

Next ==
    \/ \E leaf \in Values : Insert(leaf)
    \/ \E leaves \in Batches : InsertMany(leaves)
    \/ \E index \in Indices, leaf \in Values : Update(index, leaf)
    \/ \E count \in Indices : Truncate(count)

Spec == Init /\ [][Next]_vars
-----------------------------------------------------------------------------
\* The nodes of a row the tree stores are the ones over its stored leaves:
\* ceil(n / 2^level) of them, except that an empty tree keeps its root.
RowLength(level) ==
    LET count == ImtLeafCount(tree)
    IN  IF count = 0 /\ level = tree.depth /\ level # 0 THEN 1
        ELSE (count + 2 ^ level - 1) \div 2 ^ level

\* `Imt::insert`, `insert_many`, `update` and `truncate` leave the same rows
\* a bulk build leaves: every stored node, at every level, is the node the
\* zero-padded tree has there, and no row is longer or shorter than needed.
NodesMatchReference ==
    \A level \in 0..tree.depth :
        /\ Len(tree.nodes[level]) = RowLength(level)
        /\ \A i \in 0..(RowLength(level) - 1) :
              At(tree.nodes[level], i) = RefNode(ImtLeaves(tree), tree.zero, level, i)

\* `create_proof` is complete and binding: the siblings of an index verify at
\* the tree's depth for the leaf stored there, and for no other value or index.
ProofsBind ==
    \A index \in 0..(ImtLeafCount(tree) - 1) :
        LET siblings == ImtSiblings(tree, index)
        IN  \A leaf \in Values, claimed \in Indices :
                VerifyProofAtDepth(leaf, claimed, siblings, ImtRoot(tree), tree.depth)
                    <=> \* equal leaves under equal siblings may sit at two indices
                    /\ claimed < TreeCapacity(tree.depth)
                    /\ leaf = GetOr(ImtLeaves(tree), claimed, tree.zero)
                    /\ siblings = ImtSiblings(tree, claimed)

\* `next_leaf_frontier` is what the calldata-bound circuit needs: for a tree
\* with room, appending any leaf to the frontier alone gives the root that
\* `insert` gives.
FrontierExtendsTree ==
    ~ImtIsFull(tree) =>
        LET index == ImtLeafCount(tree)
            frontier == ImtNextLeafFrontier(tree, FieldZero)
            z == ZeroRootsFrom(tree.depth, tree.zero)
            path == [k \in 1..tree.depth |->
                        IF (index \div 2 ^ (k - 1)) % 2 = 1 THEN frontier[k] ELSE z[k - 1]]
        IN  \A leaf \in Values :
                PathRoot(leaf, index, path) = ImtRoot(ImtInsert(tree, leaf))

\* The tree implements the log of leaves with its protocol root.
Log == INSTANCE MerkleLog WITH
    depth <- tree.depth, zero <- tree.zero,
    log <- ImtLeaves(tree), root <- ImtRoot(tree)

\* Every operation, and every rejected call, is a step (or a stutter) of the
\* abstract leaf log.
ImplementsLog == Log!LogSpec

-----------------------------------------------------------------------------
(***************************************************************************)
(* A `NotesFrontier` in the hands of an indexer: leaves are appended one   *)
(* at a time or in pages, a snapshot is stored with a block, and a reorg   *)
(* restores one and continues with other leaves.  `log`, `roots` and the   *)
(* ghost fields of a checkpoint record what the frontier has forgotten.    *)
(***************************************************************************)

CONSTANTS
    Leaves,            \* field elements used as leaves
    Zero,              \* Fr::ZERO, also a legal leaf
    MaxFrontierDepth,  \* bound: depths and shard heights given to the constructor
    MaxPage,           \* bound: leaves per append_many call
    MaxSaved           \* bound: snapshots kept by the indexer

ASSUME FrontierAssumption ==
    MaxFrontierDepth \in Nat /\ MaxPage \in Nat /\ MaxSaved \in Nat

VARIABLES
    frontier,  \* the NotesFrontier
    log,       \* ghost: every leaf the frontier stands for
    roots,     \* the shard roots its caller collected, by shard index
    saved,     \* stored snapshots, each with the log and roots of its moment
    outcome    \* how the last call ended

frontierVars == <<frontier, log, roots, saved, outcome>>

Pages == UNION {[1..n -> Leaves] : n \in 0..MaxPage}

\* The caller files each emitted root under its shard index.
Collect(collected, completed) ==
    [k \in 1..(Len(collected) + Len(completed)) |->
        IF \E c \in DOMAIN completed : completed[c].shard = k - 1
        THEN completed[CHOOSE c \in DOMAIN completed : completed[c].shard = k - 1].root
        ELSE GetOr(collected, k - 1, Zero)]

\* `NotesFrontier::new` refuses a shard height outside (0, depth).
ValidGeometry(depth, height) == height # 0 /\ height < depth

FrontierInit ==
    /\ \E depth, height \in 0..MaxFrontierDepth :
          ValidGeometry(depth, height) /\ frontier = FrontierNew(depth, height)
    /\ log = <<>> /\ roots = <<>>
    /\ saved = {}
    /\ outcome = "ok"

TreeFull == outcome' = "TreeFull" /\ UNCHANGED <<frontier, log, roots, saved>>

Took(step, leaves) ==
    /\ frontier' = step.frontier
    /\ roots' = Collect(roots, step.completed)
    /\ log' = IF step.ok THEN log \o leaves ELSE log
    /\ outcome' = IF step.ok THEN "ok" ELSE "InvalidSnapshot"
    /\ UNCHANGED saved

\* `append`; `append_with_siblings` does the same to the frontier.
AppendOne(leaf) ==
    \/ FrontierIsFull(frontier) /\ TreeFull
    \/ ~FrontierIsFull(frontier) /\ Took(FrontierAppend(frontier, leaf), <<leaf>>)

AppendMany(leaves) ==
    LET room == TreeCapacity(frontier.depth) - frontier.count
    IN  \/ Len(leaves) > room /\ TreeFull
        \/ Len(leaves) <= room /\ Took(FrontierAppendMany(frontier, leaves), leaves)

\* Store `encode_snapshot()` with the current block.
Save ==
    /\ Cardinality(saved) < MaxSaved
    /\ saved' = saved \cup {[bytes |-> EncodeSnapshot(frontier), log |-> log, roots |-> roots]}
    /\ outcome' = "ok"
    /\ UNCHANGED <<frontier, log, roots>>

\* Snapshots as they may be read back: intact, or with another leaf count, or
\* with the presence of one slot changed.
ReadBack(bytes) ==
    {bytes}
        \cup {[bytes EXCEPT !.count = c] : c \in 0..(TreeCapacity(bytes.depth) + 1)}
        \cup {[bytes EXCEPT !.slots[k] =
                 IF @.present THEN [present |-> FALSE]
                 ELSE [present |-> TRUE, node |-> Zero]] : k \in DOMAIN bytes.slots}

\* A reorg: rebuild the frontier from a stored snapshot.
Restore(checkpoint, bytes) ==
    \/ /\ SnapshotAccepted(bytes)
       /\ frontier' = DecodeSnapshot(bytes)
       /\ log' = checkpoint.log /\ roots' = checkpoint.roots
       /\ outcome' = "ok"
       /\ UNCHANGED saved
    \/ /\ ~SnapshotAccepted(bytes)
       /\ outcome' = "InvalidSnapshot"
       /\ UNCHANGED <<frontier, log, roots, saved>>

FrontierNext ==
    \/ \E leaf \in Leaves : AppendOne(leaf)
    \/ \E leaves \in Pages : AppendMany(leaves)
    \/ Save
    \/ \E checkpoint \in saved : \E bytes \in ReadBack(checkpoint.bytes) :
            Restore(checkpoint, bytes)

FrontierSpec == FrontierInit /\ [][FrontierNext]_frontierVars
-----------------------------------------------------------------------------
\* `root()` of the frontier, across appends, pages and reorgs, is the root of
\* the flat zero-padded tree over the same leaves, the full tree included.
RootMatchesReference ==
    FrontierRoot(frontier, Zero) = RefRoot(frontier.depth, Zero, log)

\* The shard roots handed out by `append` and `append_many` are exactly one
\* per completed shard (`shard_count`), each the root of its shard's leaves.
ShardRootsExact ==
    roots = [k \in 1..ShardCount(frontier) |->
                RefNode(log, Zero, frontier.height, k - 1)]

\* A slot is occupied exactly where the leaf count has a bit set.  It is what
\* keeps `append` from stopping half way with "frontier level is empty".
SlotsFollowCount ==
    DOMAIN frontier.slots = {level \in 0..frontier.depth : Bit(frontier.count, level) = 1}

\* `append` never stops half way: a failure it reports leaves the frontier
\* as it was.
FailedAppendsChangeNothing == outcome' # "ok" => UNCHANGED frontier

\* `append_with_siblings` and `next_leaf_frontier` agree with `Imt` over the
\* same leaves: the siblings prove the leaf in the tree right after the append.
SiblingsMatchImt ==
    ~FrontierIsFull(frontier) =>
        LET imt == ImtFromLeaves(frontier.depth, Zero, log)
        IN  /\ FrontierNextLeaf(frontier, Zero) = ImtNextLeafFrontier(imt, Zero)
            /\ \A leaf \in Leaves :
                  AppendSiblings(frontier, Zero)
                      = ImtSiblings(ImtInsert(imt, leaf), frontier.count)

\* Whatever the geometry, and after a restore to any older snapshot: the root
\* is that of the leaves, every completed shard's root is handed out once, the
\* slots are the set bits of the count, and the siblings an append returns are
\* those the whole tree would give.
FrontierIsExact ==
    RootMatchesReference /\ ShardRootsExact /\ SlotsFollowCount /\ SiblingsMatchImt
=============================================================================
