----------------------------- MODULE MerkleOps -----------------------------
(***************************************************************************)
(* The operators of crates/core/src/imt.rs that are plain functions of     *)
(* their arguments: zero roots, the incremental tree `Imt`, its inclusion  *)
(* proofs and their verification.                                          *)
(*                                                                         *)
(* A tree is a record [depth, zero, nodes]; nodes[level] is the row of     *)
(* that level, as in `Imt::nodes`.  Rows are sequences, so the element the *)
(* code calls nodes[level][i] is nodes[level][i + 1] here; indices of      *)
(* leaves and nodes keep the code's base 0 everywhere else.                *)
(*                                                                         *)
(* Poseidon is a free constructor: two nodes are equal exactly when their  *)
(* children are.  A field element is either such a term or an atom.        *)
(*                                                                         *)
(* Here and in the other modules a definition named X_Y, placed before X,  *)
(* is X with a programming error Y.  No specification uses it; it serves   *)
(* to see that a property notices the error.                               *)
(***************************************************************************)
EXTENDS Integers, Sequences, SequencesExt

Poseidon(left, right) == <<left, right>>

\* `tree_capacity` for depths that fit the index type.
TreeCapacity(depth) == 2 ^ depth

\* `vec[i]` and `vec.get(i).copied().unwrap_or(zero)` for a base-0 index.
At(row, i) == row[i + 1]
GetOr(row, i, zero) == IF i < Len(row) THEN At(row, i) ELSE zero

\* Z[h] = root of an all-empty subtree of height h, for h in 0..depth.
ZeroRootsFrom(depth, zero) ==
    LET z[h \in 0..depth] ==
            IF h = 0 THEN zero
            ELSE LET last == z[h - 1] IN Poseidon(last, last)
    IN  z

BuildParentLevel(row, zero) ==
    [i \in 1..((Len(row) + 1) \div 2) |->
        Poseidon(row[2 * i - 1], GetOr(row, 2 * i - 1, zero))]

ImtLeaves(tree) == tree.nodes[0]
ImtLeafCount(tree) == Len(ImtLeaves(tree))
ImtIsFull(tree) == ImtLeafCount(tree) >= TreeCapacity(tree.depth)

ImtRoot(tree) ==
    IF tree.depth = 0 /\ tree.nodes[0] = <<>> THEN tree.zero
    ELSE At(tree.nodes[tree.depth], 0)

\* `Imt::new_with_zero`: at depth 0 the root row is the leaf row, and empty.
ImtNew(depth, zero) ==
    [depth |-> depth, zero |-> zero,
     nodes |-> [level \in 0..depth |->
                    IF level = depth /\ depth # 0
                    THEN <<ZeroRootsFrom(depth, zero)[depth]>>
                    ELSE <<>>]]

\* All rows of a tree from its leaf row and the rows above it.
WithLeaves(leafRow, depth, rows) ==
    [level \in 0..depth |-> IF level = 0 THEN leafRow ELSE rows[level]]

\* `Imt::from_leaves_with_zero`: bottom-up, one row from the row below.
ImtFromLeaves(depth, zero, leaves) ==
    IF leaves = <<>> THEN ImtNew(depth, zero)
    ELSE LET z == ZeroRootsFrom(depth, zero)
             rows[level \in 0..depth] ==
                 IF level = 0 THEN leaves
                 ELSE BuildParentLevel(rows[level - 1], z[level - 1])
         IN  [depth |-> depth, zero |-> zero, nodes |-> WithLeaves(leaves, depth, rows)]

\* Replace row[i], or pad the row with zeroes up to i and push.
Place(row, i, zero, node) ==
    [k \in 1..(IF i < Len(row) THEN Len(row) ELSE i + 1) |->
        IF k = i + 1 THEN node ELSE GetOr(row, k - 1, zero)]

\* The row at `level` >= 1 after the node on the path of leaf `index` was
\* re-hashed from `below`, the row just changed under it.
RehashedRow(tree, index, level, below) ==
    LET z == ZeroRootsFrom(tree.depth, tree.zero)
        position == index \div 2 ^ level
        node == Poseidon(GetOr(below, 2 * position, z[level - 1]),
                         GetOr(below, 2 * position + 1, z[level - 1]))
    IN  Place(tree.nodes[level], position, z[level], node)

\* The tree after leaf `index` became `leaf` and its path was re-hashed.
RehashPath(tree, index, leaf) ==
    LET leafRow == Place(tree.nodes[0], index, tree.zero, leaf)
        row[level \in 0..tree.depth] ==
            IF level = 0 THEN leafRow ELSE RehashedRow(tree, index, level, row[level - 1])
    IN  [tree EXCEPT !.nodes = WithLeaves(leafRow, tree.depth, row)]

\* `Imt::insert`, for a tree that is not full.
ImtInsert(tree, leaf) == RehashPath(tree, ImtLeafCount(tree), leaf)

\* A loop of `insert`, for leaves that fit: the leaf row grows by the leaves,
\* the rows above are what the last insertion leaves.
ImtInsertAll(tree, leaves) ==
    LET after[k \in 0..Len(leaves)] ==
            IF k = 0 THEN tree ELSE ImtInsert(after[k - 1], leaves[k])
    IN  [tree EXCEPT !.nodes =
            WithLeaves(tree.nodes[0] \o leaves, tree.depth, after[Len(leaves)].nodes)]

\* `Imt::update`, for an index below the leaf count.
ImtUpdate(tree, index, leaf) == RehashPath(tree, index, leaf)

\* Mutation: the pair of the old last node is not hashed again.
ExtendedRow_SkipsPair(tree, level, below) ==
    LET z == ZeroRootsFrom(tree.depth, tree.zero)
        first == Len(tree.nodes[level])
        run == SubSeq(below, 2 * first + 1, Len(below))
    IN  tree.nodes[level] \o BuildParentLevel(run, z[level - 1])

\* The row at `level` >= 1 of `Imt::insert_many`: the nodes left of the first
\* changed one are kept and the run from there is rebuilt from `below`.
ExtendedRow(tree, level, below) ==
    LET z == ZeroRootsFrom(tree.depth, tree.zero)
        first == ImtLeafCount(tree) \div 2 ^ level
        run == SubSeq(below, 2 * first + 1, Len(below))
    IN  SubSeq(tree.nodes[level], 1, first) \o BuildParentLevel(run, z[level - 1])

\* `Imt::insert_many`, for leaves that fit.
ImtInsertMany(tree, leaves) ==
    LET leafRow == tree.nodes[0] \o leaves
        row[level \in 0..tree.depth] ==
            IF level = 0 THEN leafRow ELSE ExtendedRow(tree, level, row[level - 1])
    IN  IF leaves = <<>> THEN tree
        ELSE [tree EXCEPT !.nodes = WithLeaves(leafRow, tree.depth, row)]

\* Mutation: the rows above the leaves are left as they were.
ImtTruncate_LeavesOnly(tree, count) ==
    [tree EXCEPT !.nodes[0] = SubSeq(@, 1, count)]

\* `Imt::truncate`: the remaining leaves are rebuilt in bulk.
ImtTruncate(tree, count) ==
    ImtFromLeaves(tree.depth, tree.zero, SubSeq(ImtLeaves(tree), 1, count))

\* Mutation: a missing sibling is the leaf zero at every level.
ImtSiblings_LeafZero(tree, index) ==
    [k \in 1..tree.depth |->
        LET position == index \div 2 ^ (k - 1)
            sibling == IF position % 2 = 0 THEN position + 1 ELSE position - 1
        IN  GetOr(tree.nodes[k - 1], sibling, tree.zero)]

\* `Imt::create_proof(index).siblings`, bottom to top.
ImtSiblings(tree, index) ==
    LET z == ZeroRootsFrom(tree.depth, tree.zero)
    IN  [k \in 1..tree.depth |->
            LET level == k - 1
                position == index \div 2 ^ level
                sibling == IF position % 2 = 0 THEN position + 1 ELSE position - 1
            IN  GetOr(tree.nodes[level], sibling, z[level])]

\* Mutation: the last stored node of a level, which may be partial.
ImtNextLeafFrontier_LastNode(tree, fieldZero) ==
    [k \in 1..tree.depth |->
        IF (ImtLeafCount(tree) \div 2 ^ (k - 1)) % 2 = 0 THEN fieldZero
        ELSE At(tree.nodes[k - 1], Len(tree.nodes[k - 1]) - 1)]

\* `Imt::next_leaf_frontier`: levels where the path turns left read as the
\* field's zero, whatever the tree's own leaf zero is.
ImtNextLeafFrontier(tree, fieldZero) ==
    LET index == ImtLeafCount(tree)
    IN  [k \in 1..tree.depth |->
            LET position == index \div 2 ^ (k - 1)
            IN  IF position % 2 = 1 THEN At(tree.nodes[k - 1], position - 1)
                ELSE fieldZero]

\* The node a path of siblings hashes to from a leaf at `index`.
PathRoot(leaf, index, siblings) ==
    LET node[k \in 0..Len(siblings)] ==
            IF k = 0 THEN leaf
            ELSE LET below == node[k - 1]
                 IN  IF (index \div 2 ^ (k - 1)) % 2 = 0
                     THEN Poseidon(below, siblings[k])
                     ELSE Poseidon(siblings[k], below)
    IN  node[Len(siblings)]

\* `verify_proof_at_depth`.
VerifyProofAtDepth(leaf, index, siblings, root, depth) ==
    /\ Len(siblings) = depth
    /\ index \div 2 ^ depth = 0
    /\ PathRoot(leaf, index, siblings) = root
-----------------------------------------------------------------------------
(***************************************************************************)
(* Reference definition, not taken from the code: the node at (level,      *)
(* index) of the tree over `leaves`, padded with zero leaves, top-down.    *)
(***************************************************************************)
RefNode(leaves, zero, level, index) ==
    LET row[h \in Nat] ==
            [i \in Nat |->
                IF h = 0 THEN GetOr(leaves, i, zero)
                ELSE Poseidon(row[h - 1][2 * i], row[h - 1][2 * i + 1])]
    IN  row[level][index]

RefRoot(depth, zero, leaves) == RefNode(leaves, zero, depth, 0)

-----------------------------------------------------------------------------
(* `NotesFrontier` of crates/core/src/imt.rs as functions of a frontier    *)
(* [depth, height, count, slots].  `slots` is a function whose domain is   *)
(* the set of levels the code holds `Some(node)` for.  The leaf-level zero *)
(* is the field's zero and is passed as `zero`.                            *)

Bit(n, level) == (n \div 2 ^ level) % 2

FrontierNew(depth, height) ==
    [depth |-> depth, height |-> height, count |-> 0, slots |-> <<>>]

FrontierIsFull(f) == f.count >= TreeCapacity(f.depth)

\* `shard_count`: completed shards only.
ShardCount(f) == f.count \div 2 ^ f.height

\* `frontier[level].unwrap_or(zero)`
SlotOr(f, level, zero) == IF level \in DOMAIN f.slots THEN f.slots[level] ELSE zero

FrontierRoot(f, zero) ==
    LET z == ZeroRootsFrom(f.depth, zero)
        node[level \in 0..f.depth] ==
            IF level = 0 THEN z[0]
            ELSE LET below == node[level - 1]
                 IN  IF Bit(f.count, level - 1) = 1
                     THEN Poseidon(SlotOr(f, level - 1, z[level - 1]), below)
                     ELSE Poseidon(below, z[level - 1])
    IN  IF f.count = TreeCapacity(f.depth) THEN SlotOr(f, f.depth, z[f.depth])
        ELSE node[f.depth]

\* The level where the append loop breaks: the lowest clear bit of the count.
BreakLevel(f) == CHOOSE level \in 0..f.depth :
    /\ Bit(f.count, level) = 0
    /\ \A lower \in 0..(level - 1) : Bit(f.count, lower) = 1

\* The node carried into each level of the append loop.
Carry(f, leaf) ==
    LET node[level \in 0..f.depth] ==
            IF level = 0 THEN leaf
            ELSE Poseidon(f.slots[level - 1], node[level - 1])
    IN  node

\* Mutation: a slot that was carried up stays filled.
NewSlots_KeepsTaken(f, top, node) ==
    [level \in DOMAIN f.slots \cup {top} |-> IF level = top THEN node ELSE f.slots[level]]

\* The slots after the append: those below the break level are taken, the
\* carried node is put there.
NewSlots(f, top, node) ==
    [level \in (DOMAIN f.slots \ 0..(top - 1)) \cup {top} |->
        IF level = top THEN node ELSE f.slots[level]]

\* The shard this leaf completes, if any.
CompletedShard(f, top, node) ==
    IF top >= f.height
    THEN <<[shard |-> f.count \div 2 ^ f.height, root |-> node[f.height]]>> ELSE <<>>

\* `append` for a frontier with room: [frontier, completed, ok], where
\* `completed` lists the shard this leaf completes, if any.  The slots below
\* the break level are taken; a missing one ends the call with the slots
\* below it already taken and the count unchanged.
FrontierAppend(f, leaf) ==
    LET top == BreakLevel(f)
        missing == (0..(top - 1)) \ DOMAIN f.slots
        node == Carry(f, leaf)
        keep(S) == [level \in S |-> f.slots[level]]
    IN  IF missing # {}
        THEN LET first == CHOOSE level \in missing : \A m \in missing : level <= m
             IN  [frontier |-> [f EXCEPT !.slots = keep(DOMAIN f.slots \ 0..first)],
                  completed |-> <<>>, ok |-> FALSE]
        ELSE [frontier |->
                [f EXCEPT !.count = f.count + 1, !.slots = NewSlots(f, top, node[top])],
              completed |-> CompletedShard(f, top, node),
              ok |-> TRUE]

\* The loop of `append_many`, for leaves that fit; it stops at an error.
FrontierAppendMany(f, leaves) ==
    LET after[k \in 0..Len(leaves)] ==
            IF k = 0 THEN [frontier |-> f, completed |-> <<>>, ok |-> TRUE]
            ELSE IF ~after[k - 1].ok THEN after[k - 1]
            ELSE LET step == FrontierAppend(after[k - 1].frontier, leaves[k])
                 IN  [step EXCEPT !.completed = after[k - 1].completed \o @]
    IN  after[Len(leaves)]

\* The siblings `append_with_siblings` returns, read before the append.
AppendSiblings(f, zero) ==
    LET z == ZeroRootsFrom(f.depth, zero)
    IN  [k \in 1..f.depth |-> IF Bit(f.count, k - 1) = 0 THEN z[k - 1] ELSE f.slots[k - 1]]

\* `NotesFrontier::next_leaf_frontier`
FrontierNextLeaf(f, zero) ==
    [k \in 1..f.depth |-> IF Bit(f.count, k - 1) = 0 THEN zero ELSE f.slots[k - 1]]

\* `encode_snapshot`: geometry, count, and one flag with its node per slot.
EncodeSnapshot(f) ==
    [depth |-> f.depth, height |-> f.height, count |-> f.count,
     slots |-> [k \in 1..(f.depth + 1) |->
                    IF (k - 1) \in DOMAIN f.slots
                    THEN [present |-> TRUE, node |-> f.slots[k - 1]]
                    ELSE [present |-> FALSE]]]

\* The checks of `from_snapshot_bytes`, in the code's order but as one.
SnapshotAccepted(s) ==
    /\ s.height # 0 /\ s.height < s.depth
    /\ s.count <= TreeCapacity(s.depth)
    /\ Len(s.slots) = s.depth + 1
    /\ \A k \in DOMAIN s.slots : s.slots[k].present <=> Bit(s.count, k - 1) = 1

DecodeSnapshot(s) ==
    [depth |-> s.depth, height |-> s.height, count |-> s.count,
     slots |-> [level \in {k - 1 : k \in {j \in DOMAIN s.slots : s.slots[j].present}} |->
                    s.slots[level + 1].node]]
=============================================================================
