------------------------- MODULE MerkleTrees_proofs -------------------------
(***************************************************************************)
(* The tree and the frontier of imt.rs for every depth, every set of leaf  *)
(* values and every batch size.  After any sequence of operations the rows *)
(* of an `Imt` are those of the reference tree over its leaves; hence its  *)
(* proofs bind, its frontier extends it, and it implements the log of      *)
(* leaves.  After any appends, snapshots and reorgs a `NotesFrontier` is   *)
(* the frontier of its leaves; hence its root, its shard roots and its     *)
(* siblings are those of the tree.  After any calls and batches a notes    *)
(* tree of PendingCommitments is the tree, or the frontier, of its leaves; *)
(* hence the inputs built for a batch prove the new root.                  *)
(***************************************************************************)
EXTENDS MCMerkleTrees, MerkleOps_proofs

\* The inductive invariant: the whole tree is the reference tree over its
\* leaves, which fit.  Every property below follows from it, and each
\* operation preserves it because its new rows are those of its new leaves.
IsRefTree(depth, zero, leaves) ==
    /\ depth \in 0..MaxDepth
    /\ zero \in {FieldZero, CapZero}
    /\ leaves \in Seq(Values) /\ Len(leaves) <= 2 ^ depth
    /\ tree = RefTree(depth, zero, leaves)

IInv == \E depth, zero, leaves : IsRefTree(depth, zero, leaves)

\* The fields of such a tree.
LEMMA Fields ==
    ASSUME NEW depth, NEW zero, NEW leaves, IsRefTree(depth, zero, leaves)
    PROVE  /\ tree.depth = depth /\ tree.zero = zero /\ ImtLeaves(tree) = leaves
           /\ ImtLeafCount(tree) = Len(leaves) /\ Len(leaves) \in Nat /\ depth \in Nat
           /\ 2 ^ depth \in Nat \ {0}
<1>1. depth \in Nat
    BY ImtAssumption DEF IsRefTree
<1>2. tree.nodes[0] = leaves
    BY <1>1, ReadLeaves DEF IsRefTree
<1>3. tree.depth = depth /\ tree.zero = zero
    BY DEF IsRefTree, RefTree
<1>4. Len(leaves) \in Nat
    BY LenProperties DEF IsRefTree
<1>5. 2 ^ depth \in Nat \ {0}
    BY <1>1, PowerPositive
<1> QED
    BY <1>1, <1>2, <1>3, <1>4, <1>5 DEF ImtLeaves, ImtLeafCount

\* `Imt::new` and `new_with_zero` give the reference tree of no leaves.
LEMMA InitInvariant == Init => IInv
<1> SUFFICES ASSUME Init PROVE IInv
    OBVIOUS
<1>1. PICK depth \in 0..MaxDepth, zero \in {FieldZero, CapZero} : tree = ImtNew(depth, zero)
    BY DEF Init
<1>2. depth \in Nat
    BY ImtAssumption
<1>3. tree = RefTree(depth, zero, <<>>)
    BY <1>1, <1>2, NewIsRef
<1>4. <<>> \in Seq(Values) /\ Len(<<>>) <= 2 ^ depth
  <2>1. <<>> \in Seq(Values) /\ Len(<<>>) = 0
      BY EmptySeq
  <2>2. 2 ^ depth \in Nat
      BY <1>2, PowerPositive
  <2> QED
      BY <2>1, <2>2
<1>5. IsRefTree(depth, zero, <<>>)
    BY <1>3, <1>4 DEF IsRefTree
<1> QED
    BY <1>5 DEF IInv

\* What each operation makes of the leaves; the rows follow.
LEMMA InsertStep ==
    ASSUME NEW depth, NEW zero, NEW leaves, IsRefTree(depth, zero, leaves),
           NEW leaf \in Values, Insert(leaf), ~ImtIsFull(tree)
    PROVE  IsRefTree(depth, zero, Place(leaves, Len(leaves), zero, leaf))'
<1> DEFINE n == Len(leaves)
           new == Place(leaves, n, zero, leaf)
<1>1. /\ ImtLeafCount(tree) = n /\ n \in Nat /\ depth \in Nat /\ tree.depth = depth
      /\ leaves \in Seq(Values) /\ tree = RefTree(depth, zero, leaves) /\ 2 ^ depth \in Nat
    BY Fields DEF IsRefTree
<1>2. tree' = RehashPath(tree, n, leaf) /\ n < 2 ^ depth
    BY <1>1 DEF Insert, ImtInsert, ImtIsFull, TreeCapacity
<1>3. n <= Len(leaves)
    BY <1>1
<1> HIDE DEF n
<1>4. tree' = RefTree(depth, zero, new)
    BY <1>1, <1>2, <1>3, RehashIsRef
<1>5. new \in Seq(Values) /\ Len(new) = IF n < Len(leaves) THEN Len(leaves) ELSE Len(leaves) + 1
    BY <1>1, <1>3, PlaceLeafLength
<1>6. Len(new) <= 2 ^ depth
    BY <1>1, <1>2, <1>5 DEF n
<1> QED
    BY <1>4, <1>5, <1>6 DEF IsRefTree, n

\* insert_many appends its leaves.
LEMMA InsertManyStep ==
    ASSUME NEW depth, NEW zero, NEW leaves, IsRefTree(depth, zero, leaves),
           NEW more \in Batches, InsertMany(more),
           Len(more) <= TreeCapacity(tree.depth) - ImtLeafCount(tree)
    PROVE  IsRefTree(depth, zero, leaves \o more)'
<1>1. /\ ImtLeafCount(tree) = Len(leaves) /\ Len(leaves) \in Nat /\ depth \in Nat
      /\ tree.depth = depth /\ 2 ^ depth \in Nat
      /\ leaves \in Seq(Values) /\ tree = RefTree(depth, zero, leaves)
    BY Fields DEF IsRefTree
<1>2. more \in Seq(Values) /\ Len(more) \in Nat
  <2>1. PICK m \in 0..MaxBatch : more \in [1..m -> Values]
      BY DEF Batches
  <2>2. m \in Nat
      BY ImtAssumption
  <2>3. more \in Seq(Values)
      BY <2>1, <2>2, SeqDef
  <2> QED
      BY <2>3, LenProperties
<1>3. Len(more) <= 2 ^ depth - Len(leaves)
    BY <1>1 DEF TreeCapacity
<1>4. tree' = ImtInsertMany(tree, more)
    BY <1>1, <1>2 DEF InsertMany, TreeCapacity
<1>5. tree' = RefTree(depth, zero, leaves \o more)
    BY <1>1, <1>2, <1>4, InsertManyIsRef
<1>6. leaves \o more \in Seq(Values) /\ Len(leaves \o more) = Len(leaves) + Len(more)
    BY <1>1, <1>2, ConcatProperties
<1> DEFINE new == leaves \o more
<1>7. Len(new) <= 2 ^ depth
  <2> HIDE DEF new
  <2> QED
      BY <1>1, <1>2, <1>3, <1>6 DEF new
<1> QED
    BY <1>5, <1>6, <1>7 DEF IsRefTree

\* update replaces one leaf.
LEMMA UpdateStep ==
    ASSUME NEW depth, NEW zero, NEW leaves, IsRefTree(depth, zero, leaves),
           NEW index \in Indices, NEW leaf \in Values, Update(index, leaf),
           index < ImtLeafCount(tree)
    PROVE  IsRefTree(depth, zero, Place(leaves, index, zero, leaf))'
<1> DEFINE new == Place(leaves, index, zero, leaf)
<1>1. /\ ImtLeafCount(tree) = Len(leaves) /\ Len(leaves) \in Nat /\ depth \in Nat
      /\ Len(leaves) <= 2 ^ depth /\ 2 ^ depth \in Nat /\ tree.depth = depth
      /\ leaves \in Seq(Values) /\ tree = RefTree(depth, zero, leaves)
    BY Fields DEF IsRefTree
<1>2. index \in Nat /\ index < Len(leaves) /\ index <= Len(leaves)
    BY <1>1 DEF Indices, TreeCapacity
<1>3. tree' = RehashPath(tree, index, leaf)
    BY <1>1, <1>2 DEF Update, ImtUpdate
<1>4. tree' = RefTree(depth, zero, new)
    BY <1>1, <1>2, <1>3, RehashIsRef
<1>5. new \in Seq(Values) /\ Len(new) = Len(leaves)
    BY <1>1, <1>2, PlaceLeafLength
<1> QED
    BY <1>1, <1>4, <1>5 DEF IsRefTree

\* truncate keeps the first leaves.
LEMMA TruncateStep ==
    ASSUME NEW depth, NEW zero, NEW leaves, IsRefTree(depth, zero, leaves),
           NEW count \in Indices, Truncate(count), count <= ImtLeafCount(tree)
    PROVE  IsRefTree(depth, zero, SubSeq(leaves, 1, count))'
<1> DEFINE new == SubSeq(leaves, 1, count)
<1>1. /\ ImtLeafCount(tree) = Len(leaves) /\ Len(leaves) \in Nat /\ depth \in Nat
      /\ Len(leaves) <= 2 ^ depth /\ 2 ^ depth \in Nat
      /\ tree.depth = depth /\ tree.zero = zero /\ ImtLeaves(tree) = leaves
      /\ leaves \in Seq(Values)
    BY Fields DEF IsRefTree
<1>2. count \in Nat /\ count <= Len(leaves)
    BY <1>1 DEF Indices, TreeCapacity
<1>3. tree' = ImtFromLeaves(depth, zero, new)
    BY <1>1, <1>2 DEF Truncate, ImtTruncate
<1>4. new \in Seq(Values) /\ Len(new) = count
  <2>1. \A k \in 1..Len(leaves) : leaves[k] \in Values
      BY <1>1, ElementOfSeq
  <2>2. \A k \in 1..count : leaves[k] \in Values
      BY <1>1, <1>2, <2>1
  <2>3. new = [k \in 1..count |-> leaves[k]]
      BY <1>2, FirstPart
  <2> HIDE DEF new
  <2>4. new \in [1..count -> Values]
      BY <2>2, <2>3
  <2>5. new \in Seq(Values)
      BY <1>2, <2>4, SeqDef
  <2> QED
      BY <1>2, <2>3, <2>5
<1> HIDE DEF new
<1>5. tree' = RefTree(depth, zero, new)
    BY <1>1, <1>3, <1>4, BuiltIsRef
<1>6. Len(new) <= 2 ^ depth
    BY <1>1, <1>2, <1>4
<1>7. IsRefTree(depth, zero, new)'
    BY <1>4, <1>5, <1>6 DEF IsRefTree
<1> QED
    BY <1>7 DEF new

\* A step that leaves the tree alone.
LEMMA SameTree ==
    ASSUME NEW depth, NEW zero, NEW leaves, IsRefTree(depth, zero, leaves), tree' = tree
    PROVE  IsRefTree(depth, zero, leaves)'
    BY DEF IsRefTree

\* Every step keeps the depth and the zero and changes the leaves in one of
\* four ways.
Changed(leaves, zero, new) ==
    \/ new = leaves
    \/ \E leaf \in Values : new = Place(leaves, Len(leaves), zero, leaf)
    \/ \E more \in Seq(Values) : new = leaves \o more
    \/ \E index \in 0..(Len(leaves) - 1), leaf \in Values : new = Place(leaves, index, zero, leaf)
    \/ \E count \in 0..Len(leaves) : new = SubSeq(leaves, 1, count)

\* Every call, accepted or refused, leaves the reference tree of new leaves
\* that one of the four changes made.
LEMMA StepInvariant ==
    ASSUME NEW depth, NEW zero, NEW leaves, IsRefTree(depth, zero, leaves), [Next]_vars
    PROVE  \E new : IsRefTree(depth, zero, new)' /\ Changed(leaves, zero, new)
<1>1. /\ ImtLeafCount(tree) = Len(leaves) /\ Len(leaves) \in Nat
      /\ tree.depth = depth /\ 2 ^ depth \in Nat
    BY Fields
<1>2. ASSUME tree' = tree
      PROVE  \E new : IsRefTree(depth, zero, new)' /\ Changed(leaves, zero, new)
  <2>1. IsRefTree(depth, zero, leaves)'
      BY <1>2, SameTree
  <2> QED
      BY <2>1 DEF Changed
<1>3. CASE \E leaf \in Values : Insert(leaf)
  <2>1. PICK leaf \in Values : Insert(leaf)
      BY <1>3
  <2>2. CASE ~ImtIsFull(tree)
    <3>1. IsRefTree(depth, zero, Place(leaves, Len(leaves), zero, leaf))'
        BY <2>1, <2>2, InsertStep
    <3> QED
        BY <3>1 DEF Changed
  <2>3. CASE ImtIsFull(tree)
      BY <1>2, <2>1, <2>3 DEF Insert
  <2> QED
      BY <2>2, <2>3
<1>4. CASE \E more \in Batches : InsertMany(more)
  <2>1. PICK more \in Batches : InsertMany(more)
      BY <1>4
  <2>2. CASE Len(more) <= TreeCapacity(tree.depth) - ImtLeafCount(tree)
    <3>1. IsRefTree(depth, zero, leaves \o more)'
        BY <2>1, <2>2, InsertManyStep
    <3>2. more \in Seq(Values)
      <4>1. PICK m \in 0..MaxBatch : more \in [1..m -> Values]
          BY DEF Batches
      <4>2. m \in Nat
          BY ImtAssumption
      <4> QED
          BY <4>1, <4>2, SeqDef
    <3> QED
        BY <3>1, <3>2 DEF Changed
  <2>3. CASE ~(Len(more) <= TreeCapacity(tree.depth) - ImtLeafCount(tree))
    <3>1. tree' = tree
        BY <2>1, <2>3 DEF InsertMany
    <3> QED
        BY <1>2, <3>1
  <2> QED
      BY <2>2, <2>3
<1>5. CASE \E index \in Indices, leaf \in Values : Update(index, leaf)
  <2>1. PICK index \in Indices, leaf \in Values : Update(index, leaf)
      BY <1>5
  <2>2. CASE index < ImtLeafCount(tree)
    <3>1. IsRefTree(depth, zero, Place(leaves, index, zero, leaf))'
        BY <2>1, <2>2, UpdateStep
    <3>2. index \in 0..(Len(leaves) - 1)
        BY <1>1, <2>2 DEF Indices, TreeCapacity
    <3> QED
        BY <3>1, <3>2 DEF Changed
  <2>3. CASE ~(index < ImtLeafCount(tree))
    <3>1. tree' = tree
        BY <2>1, <2>3 DEF Update
    <3> QED
        BY <1>2, <3>1
  <2> QED
      BY <2>2, <2>3
<1>6. CASE \E count \in Indices : Truncate(count)
  <2>1. PICK count \in Indices : Truncate(count)
      BY <1>6
  <2>2. CASE count <= ImtLeafCount(tree)
    <3>1. IsRefTree(depth, zero, SubSeq(leaves, 1, count))'
        BY <2>1, <2>2, TruncateStep
    <3>2. count \in 0..Len(leaves)
        BY <1>1, <2>2 DEF Indices, TreeCapacity
    <3> QED
        BY <3>1, <3>2 DEF Changed
  <2>3. CASE ~(count <= ImtLeafCount(tree))
    <3>1. tree' = tree
        BY <2>1, <2>3 DEF Truncate
    <3> QED
        BY <1>2, <3>1
  <2> QED
      BY <2>2, <2>3
<1>7. CASE UNCHANGED vars
    BY <1>2, <1>7 DEF vars
<1> QED
    BY <1>3, <1>4, <1>5, <1>6, <1>7 DEF Next

\* After any sequence of insert, insert_many, update and truncate the tree is
\* the reference tree over its leaves.
THEOREM Invariance == Spec => []IInv
<1>1. IInv /\ [Next]_vars => IInv'
  <2> SUFFICES ASSUME IInv, [Next]_vars PROVE IInv'
      OBVIOUS
  <2>1. PICK depth, zero, leaves : IsRefTree(depth, zero, leaves)
      BY DEF IInv
  <2>2. PICK new : IsRefTree(depth, zero, new)'
      BY <2>1, StepInvariant
  <2> QED
      BY <2>2 DEF IInv
<1> QED
    BY <1>1, InitInvariant, PTL DEF Spec
-----------------------------------------------------------------------------
\* The rows of a reference tree hold its nodes and nothing else.
LEMMA ReferenceHolds == IInv => NodesMatchReference
<1> SUFFICES ASSUME IInv, NEW level \in 0..tree.depth
             PROVE  /\ Len(tree.nodes[level]) = RowLength(level)
                    /\ \A i \in 0..(RowLength(level) - 1) :
                          At(tree.nodes[level], i)
                            = RefNode(ImtLeaves(tree), tree.zero, level, i)
    BY DEF NodesMatchReference
<1>1. PICK depth, zero, leaves : IsRefTree(depth, zero, leaves)
    BY DEF IInv
<1>2. /\ tree.depth = depth /\ tree.zero = zero /\ ImtLeaves(tree) = leaves
      /\ ImtLeafCount(tree) = Len(leaves) /\ Len(leaves) \in Nat /\ depth \in Nat
      /\ leaves \in Seq(Values) /\ tree = RefTree(depth, zero, leaves)
    BY <1>1, Fields DEF IsRefTree
<1> DEFINE w == Width(depth, leaves, level)
           row == tree.nodes[level]
<1>3. RowLength(level) = w
  <2>1. leaves = <<>> <=> Len(leaves) = 0
      BY <1>2, EmptySeq
  <2> QED
      BY <1>2, <2>1 DEF RowLength, Width, Ceil
<1>4. /\ Len(row) = w
      /\ \A k \in 1..w : row[k] = RefNode(leaves, zero, level, k - 1)
    BY <1>2, ReadTree
<1>5. w \in Nat
  <2>1. level \in Nat
      BY <1>2
  <2> QED
      BY <1>2, <2>1, CeilNat DEF Width
<1> HIDE DEF w, row
<1>6. ASSUME NEW i \in 0..(w - 1) PROVE At(row, i) = RefNode(leaves, zero, level, i)
  <2>1. i + 1 \in 1..w /\ (i + 1) - 1 = i
      BY <1>5
  <2> QED
      BY <1>4, <2>1 DEF At
<1> QED
    BY <1>2, <1>3, <1>4, <1>6 DEF row

\* No sequence of operations, at any depth and batch size, leaves a stale,
\* missing or surplus node in a row of `Imt::nodes`.
THEOREM Reference == Spec => []NodesMatchReference
    BY Invariance, ReferenceHolds, PTL
-----------------------------------------------------------------------------
\* A proof verifies for the leaf and the index whose siblings it holds, and
\* for nothing else.
LEMMA Verifies ==
    ASSUME NEW depth, NEW zero, NEW leaves, IsRefTree(depth, zero, leaves),
           NEW index \in Nat, NEW claimed \in Nat, NEW leaf
    PROVE  VerifyProofAtDepth(leaf, claimed, ImtSiblings(tree, index), ImtRoot(tree), depth)
             <=> /\ claimed < 2 ^ depth
                 /\ leaf = GetOr(leaves, claimed, zero)
                 /\ ImtSiblings(tree, index) = ImtSiblings(tree, claimed)
<1> DEFINE s == ImtSiblings(tree, index)
           c == ImtSiblings(tree, claimed)
           On(t) == AreSiblings(t, leaves, zero, claimed, depth)
<1>1. /\ depth \in Nat /\ leaves \in Seq(Values) /\ tree = RefTree(depth, zero, leaves)
      /\ tree.depth = depth /\ 2 ^ depth \in Nat \ {0}
    BY Fields DEF IsRefTree
<1>2. Len(s) = depth /\ Len(c) = depth /\ On(c)
    BY <1>1, SiblingsAreRef
<1>3. On(s) <=> s = c
  <2>1. ASSUME On(s) PROVE s = c
    <3>1. ASSUME NEW k \in 1..depth PROVE s[k] = c[k]
      <4>1. PICK h \in Nat : k = h + 1 /\ h + 1 <= depth
        <5>1. k - 1 \in Nat /\ k = (k - 1) + 1
            BY <1>1
        <5> QED
            BY <5>1
      <4> HIDE DEF s, c
      <4> QED
          BY <1>2, <2>1, <4>1 DEF AreSiblings
    <3>2. s = [k \in 1..depth |-> s[k]] /\ c = [k \in 1..depth |-> c[k]]
        BY <1>1 DEF ImtSiblings
    <3> HIDE DEF s, c
    <3> QED
        BY <3>1, <3>2
  <2>2. s = c => On(s)
    <3> HIDE DEF s, c, On
    <3> QED
        BY <1>2
  <2> QED
      BY <2>1, <2>2
<1>4. PICK node : /\ PathRoot(leaf, claimed, s) = node[depth]
                  /\ IsPath(node, leaf, claimed, s, depth)
  <2> HIDE DEF s
  <2> QED
      BY <1>1, <1>2, PathExists
<1>5. ImtRoot(tree) = RefNode(leaves, zero, depth, 0)
    BY <1>1, RootIsRef DEF RefRoot
<1>6. claimed < 2 ^ depth <=> Above(claimed, depth) = 0
    BY <1>1, AboveTop
<1>7. VerifyProofAtDepth(leaf, claimed, s, ImtRoot(tree), depth)
        <=> Above(claimed, depth) = 0 /\ node[depth] = RefNode(leaves, zero, depth, 0)
  <2> HIDE DEF s
  <2> QED
      BY <1>2, <1>4, <1>5 DEF VerifyProofAtDepth, Above
<1> HIDE DEF s, c
<1>8. ASSUME Above(claimed, depth) = 0, node[depth] = RefNode(leaves, zero, depth, 0)
      PROVE  leaf = GetOr(leaves, claimed, zero) /\ On(s)
  <2>1. node[depth] = RefNode(leaves, zero, depth, Above(claimed, depth))
      BY <1>8
  <2> QED
      BY <1>1, <1>4, <2>1, PathDown
<1>9. ASSUME Above(claimed, depth) = 0, leaf = GetOr(leaves, claimed, zero), On(s)
      PROVE  node[depth] = RefNode(leaves, zero, depth, 0)
  <2>1. IsPath(node, GetOr(leaves, claimed, zero), claimed, s, depth)
      BY <1>4, <1>9
  <2>2. node[depth] = RefNode(leaves, zero, depth, Above(claimed, depth))
      BY <1>1, <1>9, <2>1, PathUp
  <2> QED
      BY <1>9, <2>2
<1> HIDE DEF On
<1> QED
    BY <1>3, <1>6, <1>7, <1>8, <1>9 DEF s, c

\* What create_proof answers verifies for the leaf at that index only.
LEMMA BindingHolds == IInv => ProofsBind
<1> SUFFICES ASSUME IInv, NEW index \in 0..(ImtLeafCount(tree) - 1),
                    NEW leaf \in Values, NEW claimed \in Indices
             PROVE  VerifyProofAtDepth(leaf, claimed, ImtSiblings(tree, index),
                                       ImtRoot(tree), tree.depth)
                      <=> /\ claimed < TreeCapacity(tree.depth)
                          /\ leaf = GetOr(ImtLeaves(tree), claimed, tree.zero)
                          /\ ImtSiblings(tree, index) = ImtSiblings(tree, claimed)
    BY DEF ProofsBind
<1>1. PICK depth, zero, leaves : IsRefTree(depth, zero, leaves)
    BY DEF IInv
<1>2. /\ tree.depth = depth /\ tree.zero = zero /\ ImtLeaves(tree) = leaves
      /\ ImtLeafCount(tree) = Len(leaves) /\ Len(leaves) \in Nat /\ 2 ^ depth \in Nat
    BY <1>1, Fields
<1>3. index \in Nat /\ claimed \in Nat
    BY <1>2 DEF Indices, TreeCapacity
<1> QED
    BY <1>1, <1>2, <1>3, Verifies DEF TreeCapacity

\* A proof `Imt::create_proof` makes at any moment verifies against the root of
\* that moment for its own leaf and index, and for no other.
THEOREM Binding == Spec => []ProofsBind
    BY Invariance, BindingHolds, PTL

\* What the calldata-bound circuit is given of a tree with room is enough to
\* append a leaf: next_leaf_frontier holds the siblings left of the path, and
\* right of the path every subtree is empty.
LEMMA FrontierSiblings ==
    ASSUME NEW depth, NEW zero, NEW leaves, IsRefTree(depth, zero, leaves), NEW leaf \in Values,
           NEW path,
           path = [k \in 1..depth |->
                     IF (Len(leaves) \div 2 ^ (k - 1)) % 2 = 1
                     THEN ImtNextLeafFrontier(tree, FieldZero)[k]
                     ELSE ZeroRootsFrom(depth, zero)[k - 1]]
    PROVE  AreSiblings(path, Place(leaves, Len(leaves), zero, leaf), zero, Len(leaves), depth)
<1> DEFINE n == Len(leaves)
           new == Place(leaves, n, zero, leaf)
           z == ZeroRootsFrom(depth, zero)
           inner == ImtNextLeafFrontier(tree, FieldZero)
<1> SUFFICES ASSUME NEW h \in Nat, h + 1 <= depth
             PROVE  path[h + 1] = RefNode(new, zero, h, Sibling(Above(n, h)))
    BY DEF AreSiblings
<1> DEFINE p == Above(n, h)
           row == tree.nodes[h]
<1>1. /\ ImtLeafCount(tree) = n /\ n \in Nat /\ depth \in Nat /\ tree.depth = depth
      /\ leaves \in Seq(Values) /\ tree = RefTree(depth, zero, leaves)
    BY Fields DEF IsRefTree
<1>2. h + 1 \in 1..depth /\ (h + 1) - 1 = h /\ h \in 0..depth
    BY <1>1
<1>3. p \in Nat
    BY <1>1, AboveStep
<1>4. path[h + 1] = IF p % 2 = 1 THEN inner[h + 1] ELSE z[h]
  <2> HIDE DEF z, inner
  <2> QED
      BY <1>2 DEF Above, z, inner
<1>5. CASE p % 2 = 1
  <2>1. inner[h + 1] = At(row, p - 1)
      BY <1>1, <1>2, <1>5 DEF ImtNextLeafFrontier, Above
  <2> DEFINE w == Width(depth, leaves, h)
  <2>2. Ceil(n, h) \in {p, p + 1}
      BY <1>1, CeilAbove
  <2>3. leaves # <<>>
    <3>1. leaves = <<>> => n = 0
        OBVIOUS
    <3>2. n = 0 => p = 0
        BY <1>1, <2>2, CeilBounds, <1>3
    <3> HIDE DEF n, p
    <3> QED
        BY <1>5, <3>1, <3>2
  <2>4. w = Ceil(n, h)
      BY <2>3 DEF Width
  <2>5. \A k \in 1..w : row[k] = RefNode(leaves, zero, h, k - 1)
      BY <1>1, <1>2, ReadTree
  <2>6. Sibling(p) = p - 1
      BY <1>5 DEF Sibling
  <2>7. p - 1 \in Nat /\ p - 1 # p /\ p \in 1..w /\ (p - 1) + 1 = p
    <3> HIDE DEF p, w
    <3> QED
        BY <1>3, <1>5, <2>2, <2>4
  <2>8. RefNode(leaves, zero, h, p - 1) = RefNode(new, zero, h, p - 1)
    <3>1. n <= Len(leaves)
        BY <1>1
    <3> QED
        BY <1>1, <2>7, <3>1, PlaceLocal
  <2> HIDE DEF p, w, row, new, inner
  <2>9. At(row, p - 1) = RefNode(leaves, zero, h, p - 1)
      BY <2>5, <2>7 DEF At
  <2> QED
      BY <1>4, <1>5, <2>1, <2>6, <2>8, <2>9 DEF p
<1>6. CASE p % 2 # 1
  <2>1. Sibling(p) = p + 1
    <3> HIDE DEF p
    <3> QED
        BY <1>3, <1>6 DEF Sibling
  <2>2. z[h] = EmptyNode(zero, h)
      BY <1>1, <1>2, ZeroRoots
  <2>3. Len(new) = n + 1
    <3>1. n <= Len(leaves)
        BY <1>1
    <3>2. Len(new) = IF n < Len(leaves) THEN Len(leaves) ELSE Len(leaves) + 1
        BY <1>1, <3>1, PlaceLeafLength
    <3> HIDE DEF new
    <3> QED
        BY <1>1, <3>2
  <2>4. Ceil(Len(new), h) = p + 1
      BY <1>1, <2>3, CeilAbove
  <2> HIDE DEF p, new, z
  <2>5. RefNode(new, zero, h, p + 1) = EmptyNode(zero, h)
    <3>1. Len(new) \in Nat /\ p + 1 \in Nat /\ p + 1 >= Ceil(Len(new), h)
        BY <1>1, <1>3, <2>3, <2>4
    <3> QED
        BY <3>1, RefNodePadding
  <2> QED
      BY <1>4, <1>6, <2>1, <2>2, <2>5 DEF p
<1> QED
    BY <1>5, <1>6

\* The frontier of a reference tree with room hashes an appended leaf to the
\* root insert computes.
LEMMA FrontierHolds == IInv => FrontierExtendsTree
<1> DEFINE n == ImtLeafCount(tree)
           inner == ImtNextLeafFrontier(tree, FieldZero)
           z == ZeroRootsFrom(tree.depth, tree.zero)
           path == [k \in 1..tree.depth |->
                      IF (n \div 2 ^ (k - 1)) % 2 = 1 THEN inner[k] ELSE z[k - 1]]
<1> SUFFICES ASSUME IInv, ~ImtIsFull(tree), NEW leaf \in Values
             PROVE  PathRoot(leaf, n, path) = ImtRoot(ImtInsert(tree, leaf))
    BY DEF FrontierExtendsTree
<1>1. PICK depth, zero, leaves : IsRefTree(depth, zero, leaves)
    BY DEF IInv
<1> DEFINE new == Place(leaves, n, zero, leaf)
<1>2. /\ tree.depth = depth /\ tree.zero = zero /\ n = Len(leaves) /\ n \in Nat /\ depth \in Nat
      /\ leaves \in Seq(Values) /\ tree = RefTree(depth, zero, leaves)
    BY <1>1, Fields DEF IsRefTree
<1>3. n < 2 ^ depth
    BY <1>1, <1>2, Fields DEF ImtIsFull, TreeCapacity
<1>4. n <= Len(leaves)
    BY <1>2
<1>5. AreSiblings(path, new, zero, n, depth)
    BY <1>1, <1>2, FrontierSiblings
<1>6. Len(path) = depth
    BY <1>2
<1> HIDE DEF path, n
<1>7. PICK node : PathRoot(leaf, n, path) = node[depth] /\ IsPath(node, leaf, n, path, depth)
    BY <1>2, <1>6, PathExists
<1>8. GetOr(new, n, zero) = leaf
    BY <1>2, <1>4, PlaceLeaf
<1>9. new \in Seq(Values)
    BY <1>2, <1>4, PlaceLeafLength
<1>10. ImtInsert(tree, leaf) = RefTree(depth, zero, new)
    BY <1>2, <1>4, RehashIsRef DEF ImtInsert, n
<1> HIDE DEF new
<1>11. node[depth] = RefNode(new, zero, depth, Above(n, depth))
    BY <1>2, <1>5, <1>7, <1>8, PathUp
<1>12. Above(n, depth) = 0
    BY <1>2, <1>3, AboveTop
<1>13. ImtRoot(ImtInsert(tree, leaf)) = RefNode(new, zero, depth, 0)
    BY <1>2, <1>9, <1>10, RootIsRef DEF RefRoot
<1> QED
    BY <1>7, <1>11, <1>12, <1>13

\* `next_leaf_frontier` of a tree with room always suffices to append a leaf.
THEOREM Frontier == Spec => []FrontierExtendsTree
    BY Invariance, FrontierHolds, PTL
-----------------------------------------------------------------------------
\* The abstract log reads its root off the same reference tree.
LEMMA SameReference ==
    ASSUME NEW d, NEW zero, NEW leaves
    PROVE  Log!RefRoot(d, zero, leaves) = RefRoot(d, zero, leaves)
    BY DEF Log!RefRoot, Log!RefNode, Log!GetOr, Log!At, Log!Poseidon,
           RefRoot, RefNode, GetOr, At, Poseidon

\* A reference tree's root is the one the protocol assigns to its leaves, and
\* its leaves fit: what a reader of root() and leaf_count() relies on.
LEMMA CommittedHolds == IInv => Log!Committed
<1> SUFFICES ASSUME IInv PROVE Log!Committed
    OBVIOUS
<1>1. PICK depth, zero, leaves : IsRefTree(depth, zero, leaves)
    BY DEF IInv
<1>2. /\ tree.depth = depth /\ tree.zero = zero /\ ImtLeaves(tree) = leaves
      /\ depth \in Nat /\ leaves \in Seq(Values) /\ Len(leaves) <= 2 ^ depth
      /\ tree = RefTree(depth, zero, leaves)
    BY <1>1, Fields DEF IsRefTree
<1>3. ImtRoot(tree) = RefRoot(depth, zero, leaves)
    BY <1>2, RootIsRef
<1>4. ImtRoot(tree) = Log!RefRoot(tree.depth, tree.zero, ImtLeaves(tree))
    BY <1>2, <1>3, SameReference
<1>5. Len(ImtLeaves(tree)) <= Log!TreeCapacity(tree.depth)
    BY <1>2 DEF Log!TreeCapacity
<1> QED
    BY <1>4, <1>5 DEF Log!Committed

\* A sequence that starts with another one extends it.
LEMMA Prefixed ==
    ASSUME NEW s, NEW t, Len(s) \in Nat, Len(t) \in Nat, Len(s) <= Len(t),
           \A k \in 1..Len(s) : s[k] = t[k]
    PROVE  Log!IsPrefix(s, t)
<1>1. SubSeq(s, 1, Len(s)) = [k \in 1..Len(s) |-> s[k]]
    BY FirstPart
<1>2. SubSeq(t, 1, Len(s)) = [k \in 1..Len(s) |-> t[k]]
    BY FirstPart
<1>3. [k \in 1..Len(s) |-> s[k]] = [k \in 1..Len(s) |-> t[k]]
    OBVIOUS
<1> QED
    BY <1>1, <1>2, <1>3 DEF Log!IsPrefix

\* insert and insert_many extend the log, truncate cuts it, update replaces
\* one leaf of it.
LEMMA ChangedIsLogStep ==
    ASSUME NEW leaves \in Seq(Values), NEW zero, NEW new \in Seq(Values),
           Changed(leaves, zero, new)
    PROVE  \/ Log!IsPrefix(leaves, new)
           \/ Log!IsPrefix(new, leaves)
           \/ /\ Len(new) = Len(leaves)
              /\ \A i, j \in DOMAIN leaves : new[i] # leaves[i] /\ new[j] # leaves[j] => i = j
<1> DEFINE n == Len(leaves)
<1>1. n \in Nat /\ Len(new) \in Nat /\ DOMAIN leaves = 1..n
    BY LenProperties
<1>2. CASE new = leaves
    BY <1>1, <1>2, Prefixed
<1>3. CASE \E leaf \in Values : new = Place(leaves, Len(leaves), zero, leaf)
  <2>1. PICK leaf \in Values : new = Place(leaves, n, zero, leaf)
      BY <1>3
  <2>2. new = [k \in 1..(n + 1) |-> IF k = n + 1 THEN leaf ELSE GetOr(leaves, k - 1, zero)]
      BY <1>1, <2>1 DEF Place
  <2>3. Len(new) = n + 1
      BY <1>1, <2>2
  <2>4. ASSUME NEW k \in 1..n PROVE leaves[k] = new[k]
      BY <1>1, <2>2 DEF GetOr, At
  <2>5. Len(leaves) <= Len(new) /\ \A k \in 1..Len(leaves) : leaves[k] = new[k]
      BY <1>1, <2>3, <2>4
  <2>6. Log!IsPrefix(leaves, new)
    <3> HIDE DEF n
    <3> QED
        BY <1>1, <2>5, Prefixed DEF n
  <2> QED
      BY <2>6
<1>4. CASE \E more \in Seq(Values) : new = leaves \o more
  <2>1. PICK more \in Seq(Values) : new = leaves \o more
      BY <1>4
  <2>2. Len(more) \in Nat /\ Len(new) = n + Len(more) /\ \A k \in 1..n : new[k] = leaves[k]
      BY <2>1, ConcatProperties, LenProperties
  <2>3. Len(leaves) <= Len(new) /\ \A k \in 1..Len(leaves) : leaves[k] = new[k]
      BY <1>1, <2>2
  <2>4. Log!IsPrefix(leaves, new)
      BY <1>1, <2>3, Prefixed
  <2> QED
      BY <2>4
<1>5. CASE \E index \in 0..(n - 1), leaf \in Values : new = Place(leaves, index, zero, leaf)
  <2>1. PICK index \in 0..(n - 1), leaf \in Values : new = Place(leaves, index, zero, leaf)
      BY <1>5
  <2>2. index < n
      BY <1>1, <2>1
  <2>3. new = [k \in 1..n |-> IF k = index + 1 THEN leaf ELSE GetOr(leaves, k - 1, zero)]
      BY <1>1, <2>1, <2>2 DEF Place
  <2>4. Len(new) = n
      BY <1>1, <2>3
  <2>5. ASSUME NEW k \in 1..n, k # index + 1 PROVE new[k] = leaves[k]
      BY <1>1, <2>3, <2>5 DEF GetOr, At
  <2> HIDE DEF n
  <2> QED
      BY <1>1, <2>4, <2>5 DEF n
<1>6. CASE \E count \in 0..n : new = SubSeq(leaves, 1, count)
  <2>1. PICK count \in 0..n : new = SubSeq(leaves, 1, count)
      BY <1>6
  <2>2. new = [k \in 1..count |-> leaves[k]]
      BY <1>1, <2>1, FirstPart
  <2>3. Len(new) = count /\ \A k \in 1..count : new[k] = leaves[k]
      BY <1>1, <2>2
  <2>4. Len(new) <= Len(leaves) /\ \A k \in 1..Len(new) : new[k] = leaves[k]
      BY <1>1, <2>1, <2>3
  <2>5. Log!IsPrefix(new, leaves)
      BY <1>1, <2>4, Prefixed
  <2> QED
      BY <2>5
<1> QED
    BY <1>2, <1>3, <1>4, <1>5, <1>6 DEF Changed

\* The tree starts as the empty log with the empty tree's root.
LEMMA InitRefines == Init => Log!LogInit
<1> SUFFICES ASSUME Init PROVE Log!LogInit
    OBVIOUS
<1>1. ImtLeaves(tree) = <<>>
  <2>1. PICK depth \in 0..MaxDepth, zero \in {FieldZero, CapZero} : tree = ImtNew(depth, zero)
      BY DEF Init
  <2>2. 0 \in 0..depth /\ ~(0 = depth /\ depth # 0)
      BY <2>1, ImtAssumption
  <2> QED
      BY <2>1, <2>2 DEF ImtNew, ImtLeaves
<1>2. Log!Committed
    BY InitInvariant, CommittedHolds
<1> QED
    BY <1>1, <1>2 DEF Log!LogInit

\* Every operation, successful or rejected, is a step of the log.
LEMMA StepRefines == IInv /\ [Next]_vars => [Log!LogNext]_(Log!logVars)
<1> SUFFICES ASSUME IInv, [Next]_vars PROVE Log!LogNext
    OBVIOUS
<1>1. PICK depth, zero, leaves : IsRefTree(depth, zero, leaves)
    BY DEF IInv
<1>2. PICK new : IsRefTree(depth, zero, new)' /\ Changed(leaves, zero, new)
    BY <1>1, StepInvariant
<1>3. /\ tree.depth = depth /\ tree.zero = zero /\ ImtLeaves(tree) = leaves
      /\ leaves \in Seq(Values)
    BY <1>1, Fields DEF IsRefTree
<1>4. /\ tree'.depth = depth /\ tree'.zero = zero /\ ImtLeaves(tree)' = new
      /\ new \in Seq(Values)
  <2>1. depth \in Nat
      BY <1>1, ImtAssumption DEF IsRefTree
  <2>2. tree' = RefTree(depth, zero, new) /\ new \in Seq(Values)
      BY <1>2 DEF IsRefTree
  <2>3. tree'.nodes[0] = new
      BY <2>1, <2>2, ReadLeaves
  <2> QED
      BY <2>2, <2>3 DEF ImtLeaves, RefTree
<1>5. IInv'
    BY <1>2 DEF IInv
<1>6. Log!Committed'
    BY <1>5, CommittedHolds, PTL
<1>7. Log!Extend \/ Log!Cut \/ Log!Replace
    BY <1>2, <1>3, <1>4, ChangedIsLogStep DEF Log!Extend, Log!Cut, Log!Replace
<1> QED
    BY <1>3, <1>4, <1>6, <1>7 DEF Log!LogNext

\* `Imt` implements the log of leaves: no operation changes its root other
\* than by extending, cutting or replacing a leaf of that log.
THEOREM Refinement == Spec => ImplementsLog
<1>1. Init => Log!LogInit
    BY InitRefines
<1>2. IInv /\ [Next]_vars => [Log!LogNext]_(Log!logVars)
    BY StepRefines
<1> QED
    BY <1>1, <1>2, Invariance, PTL DEF Spec, ImplementsLog, Log!LogSpec

-----------------------------------------------------------------------------
\* The bit of a count at a level says on which side the path passes.
LEMMA BitOfPath ==
    ASSUME NEW n \in Nat, NEW level \in Nat
    PROVE  /\ Bit(n, level) \in {0, 1} /\ Bit(n, level) = Above(n, level) % 2
           /\ Above(n, level + 1) \in Nat
           /\ Above(n, level) = 2 * Above(n, level + 1) + Bit(n, level)
<1>1. Above(n, level) \in Nat /\ Above(n, level + 1) = Above(n, level) \div 2
    BY AboveStep
<1> DEFINE a == Above(n, level)
<1>2. Bit(n, level) = a % 2
    BY DEF Bit, Above
<1>3. Above(n, level + 1) \in Nat
    BY AboveStep
<1> HIDE DEF a
<1>4. a \in Nat => a = 2 * (a \div 2) + (a % 2) /\ (a % 2) \in {0, 1}
    OBVIOUS
<1> QED
    BY <1>1, <1>2, <1>3, <1>4 DEF a

\* `append` finds a level to break at whenever the frontier has room.
LEMMA BreakLevelExists ==
    ASSUME NEW c \in Nat, NEW depth \in Nat, c < 2 ^ depth
    PROVE  \E top \in 0..depth : /\ Bit(c, top) = 0
                                 /\ \A lower \in 0..(top - 1) : Bit(c, lower) = 1
<1> SUFFICES ASSUME \A top \in 0..depth :
                        Bit(c, top) # 0 \/ \E lower \in 0..(top - 1) : Bit(c, lower) # 1
             PROVE  FALSE
    OBVIOUS
<1> DEFINE S == {l \in Nat : l <= depth + 1 => \A lower \in 0..(l - 1) : Bit(c, lower) = 1}
<1>1. 0 \in S
    OBVIOUS
<1>2. ASSUME NEW l \in Nat, l \in S PROVE l + 1 \in S
  <2> SUFFICES ASSUME l <= depth PROVE \A lower \in 0..l : Bit(c, lower) = 1
      OBVIOUS
  <2>1. \A lower \in 0..(l - 1) : Bit(c, lower) = 1
      BY <1>2
  <2>2. Bit(c, l) # 0
      BY <2>1
  <2>3. Bit(c, l) = 1
      BY <2>2, BitOfPath
  <2> QED
      BY <2>1, <2>3
<1> HIDE DEF S
<1>3. Nat \subseteq S
    BY <1>1, <1>2, SetInduction
<1>4. depth + 1 \in S
    BY <1>3
<1>5. Bit(c, depth) = 1
    BY <1>4 DEF S
<1>6. Above(c, depth) = 0 /\ Bit(c, depth) = Above(c, depth) % 2
    BY AboveTop, BitOfPath
<1> QED
    BY <1>5, <1>6

\* `top` is the level where the append of leaf `c` breaks off its loop.
IsBreakLevel(c, top) == Bit(c, top) = 0 /\ \A lower \in 0..(top - 1) : Bit(c, lower) = 1

\* The path of the next leaf: up to the break level it is the neighbour of the
\* path of this one, above it the same.
LEMMA PathNext ==
    ASSUME NEW c \in Nat, NEW top \in Nat, IsBreakLevel(c, top)
    PROVE  \A j \in Nat : Above(c + 1, j) = IF j <= top THEN Above(c, j) + 1 ELSE Above(c, j)
<1> DEFINE S == {j \in Nat : Above(c + 1, j) = IF j <= top THEN Above(c, j) + 1 ELSE Above(c, j)}
<1>1. 0 \in S
  <2>1. Above(c, 0) = c /\ Above(c + 1, 0) = c + 1
      BY AboveStep
  <2> QED
      BY <2>1
<1>2. ASSUME NEW j \in Nat, j \in S PROVE j + 1 \in S
  <2> DEFINE a == Above(c, j)
             b == Above(c + 1, j)
  <2>1. /\ a \in Nat /\ b \in Nat /\ Above(c, j + 1) = a \div 2 /\ Above(c + 1, j + 1) = b \div 2
        /\ Bit(c, j) = a % 2
    <3>1. c + 1 \in Nat
        OBVIOUS
    <3>2. a \in Nat /\ b \in Nat
        BY <3>1, AboveStep
    <3>3. Above(c, j + 1) = a \div 2
        BY AboveStep
    <3>4. Above(c + 1, j + 1) = b \div 2
        BY <3>1, AboveStep
    <3>5. Bit(c, j) = a % 2
        BY BitOfPath
    <3> QED
        BY <3>2, <3>3, <3>4, <3>5
  <2>2. b = IF j <= top THEN a + 1 ELSE a
      BY <1>2
  <2> HIDE DEF a, b
  <2>3. CASE j < top
    <3>1. a % 2 = 1
        BY <2>1, <2>3 DEF IsBreakLevel
    <3>2. b \div 2 = a \div 2 + 1
        BY <2>1, <2>2, <2>3, <3>1
    <3> QED
        BY <2>1, <2>3, <3>2
  <2>4. CASE j = top
    <3>1. a % 2 = 0
        BY <2>1, <2>4 DEF IsBreakLevel
    <3>2. b \div 2 = a \div 2
        BY <2>1, <2>2, <2>4, <3>1
    <3> QED
        BY <2>1, <2>4, <3>2
  <2>5. CASE j > top
      BY <2>1, <2>2, <2>5
  <2> QED
      BY <2>3, <2>4, <2>5
<1> HIDE DEF S
<1>3. Nat \subseteq S
    BY <1>1, <1>2, SetInduction
<1> QED
    BY <1>3 DEF S

\* The set bits of the next count: a carry up to the break level.
LEMMA BitsNext ==
    ASSUME NEW c \in Nat, NEW top \in Nat, IsBreakLevel(c, top)
    PROVE  \A j \in Nat : Bit(c + 1, j) = IF j < top THEN 0 ELSE IF j = top THEN 1 ELSE Bit(c, j)
<1> TAKE j \in Nat
<1>1. /\ Bit(c, j) = Above(c, j) % 2 /\ Bit(c + 1, j) = Above(c + 1, j) % 2
      /\ Above(c, j) \in Nat
  <2>1. c + 1 \in Nat
      OBVIOUS
  <2>2. Bit(c + 1, j) = Above(c + 1, j) % 2
      BY <2>1, BitOfPath
  <2>3. Bit(c, j) = Above(c, j) % 2 /\ Above(c, j) \in Nat
      BY AboveStep, BitOfPath
  <2> QED
      BY <2>2, <2>3
<1>2. Above(c + 1, j) = IF j <= top THEN Above(c, j) + 1 ELSE Above(c, j)
    BY PathNext
<1>3. (j < top => Bit(c, j) = 1) /\ (j = top => Bit(c, j) = 0)
    BY DEF IsBreakLevel
<1> DEFINE a == Above(c, j)
<1> HIDE DEF a
<1>4. a \in Nat => (a % 2 = 1 => (a + 1) % 2 = 0) /\ (a % 2 = 0 => (a + 1) % 2 = 1)
    OBVIOUS
<1> QED
    BY <1>1, <1>2, <1>3, <1>4 DEF a

\* Counts up to the capacity are told apart by their bits.
LEMMA EqualBits ==
    ASSUME NEW depth \in Nat, NEW m \in Nat, NEW n \in Nat, m <= 2 ^ depth, n <= 2 ^ depth,
           \A l \in 0..depth : Bit(m, l) = Bit(n, l)
    PROVE  m = n
<1> DEFINE S == {j \in Nat : j <= depth + 1 => Above(m, depth + 1 - j) = Above(n, depth + 1 - j)}
<1>1. 0 \in S
  <2>1. 2 ^ depth \in Nat /\ 2 ^ depth # 0 /\ 2 ^ (depth + 1) = 2 * 2 ^ depth
      BY PowerPositive
  <2>2. m < 2 ^ (depth + 1) /\ n < 2 ^ (depth + 1)
      BY <2>1
  <2>3. Above(m, depth + 1) = 0 /\ Above(n, depth + 1) = 0
      BY <2>2, AboveTop
  <2> QED
      BY <2>3
<1>2. ASSUME NEW j \in Nat, j \in S PROVE j + 1 \in S
  <2> SUFFICES ASSUME j + 1 <= depth + 1
               PROVE  Above(m, depth + 1 - (j + 1)) = Above(n, depth + 1 - (j + 1))
      OBVIOUS
  <2>1. PICK l \in 0..depth : l = depth - j
      OBVIOUS
  <2>2. depth + 1 - j = l + 1 /\ depth + 1 - (j + 1) = l /\ l \in Nat
      BY <2>1
  <2>3. Above(m, l + 1) = Above(n, l + 1)
      BY <1>2, <2>2
  <2>4. /\ Above(m, l) = 2 * Above(m, l + 1) + Bit(m, l)
        /\ Above(n, l) = 2 * Above(n, l + 1) + Bit(n, l)
      BY <2>2, BitOfPath
  <2> QED
      BY <2>2, <2>3, <2>4
<1> HIDE DEF S
<1>3. Nat \subseteq S
    BY <1>1, <1>2, SetInduction
<1>4. depth + 1 \in S
    BY <1>3
<1>5. depth + 1 - (depth + 1) = 0
    OBVIOUS
<1>6. Above(m, 0) = Above(n, 0)
    BY <1>4, <1>5 DEF S
<1> QED
    BY <1>6, AboveStep

-----------------------------------------------------------------------------
\* The levels at which `n` has a bit set.
OccupiedLevels(n, depth) == {level \in 0..depth : Bit(n, level) = 1}

\* The frontier of a sequence of leaves: at each set bit of their number, the
\* node left of the path of the next leaf.
RefFrontier(depth, height, leaves, zero) ==
    [depth |-> depth, height |-> height, count |-> Len(leaves),
     slots |-> [level \in OccupiedLevels(Len(leaves), depth) |->
                    RefNode(leaves, zero, level, Above(Len(leaves), level) - 1)]]

\* The fields of such a frontier.
LEMMA FrontierFields ==
    ASSUME NEW depth, NEW height, NEW leaves, NEW zero
    PROVE  LET f == RefFrontier(depth, height, leaves, zero)
           IN  /\ f.depth = depth /\ f.height = height /\ f.count = Len(leaves)
               /\ DOMAIN f.slots = OccupiedLevels(Len(leaves), depth)
               /\ \A level \in OccupiedLevels(Len(leaves), depth) :
                     f.slots[level] = RefNode(leaves, zero, level, Above(Len(leaves), level) - 1)
    BY DEF RefFrontier

\* `new` with its leaves added after those of `old`.
Continued(old, new, zero) ==
    \A j \in Nat : j < Len(old) => GetOr(new, j, zero) = GetOr(old, j, zero)

\* Whatever is appended, the nodes left of the path of the next leaf stay.
LEMMA ContinuedNodes ==
    ASSUME NEW old, NEW new, NEW zero, Len(old) \in Nat, Continued(old, new, zero),
           NEW h \in Nat, NEW i \in Nat, i < Above(Len(old), h)
    PROVE  RefNode(new, zero, h, i) = RefNode(old, zero, h, i)
<1>1. \A j \in Nat : Above(j, h) = i => GetOr(new, j, zero) = GetOr(old, j, zero)
  <2> TAKE j \in Nat
  <2> HAVE Above(j, h) = i
  <2>1. j < Len(old)
      BY CeilAbove
  <2> QED
      BY <2>1 DEF Continued
<1> QED
    BY <1>1, RefNodeLocal

\* A node at a set bit is the left half of the pair above.
LEMMA SlotIsLeft ==
    ASSUME NEW c \in Nat, NEW level \in Nat, Bit(c, level) = 1
    PROVE  /\ Above(c, level) - 1 \in Nat
           /\ Above(c, level) - 1 = 2 * Above(c, level + 1)
           /\ Above(c, level) = 2 * Above(c, level + 1) + 1
           /\ Above(c, level + 1) \in Nat
<1>1. Above(c, level + 1) \in Nat /\ Above(c, level) = 2 * Above(c, level + 1) + Bit(c, level)
    BY BitOfPath
<1> QED
    BY <1>1

\* The nodes `append` carries up: each hashed with the slot it takes.
LEMMA CarryExists ==
    ASSUME NEW f, f.depth \in Nat, NEW leaf
    PROVE  /\ Carry(f, leaf)[0] = leaf
           /\ \A k \in Nat : k + 1 <= f.depth =>
                 Carry(f, leaf)[k + 1] = Poseidon(f.slots[k], Carry(f, leaf)[k])
<1> DEFINE n == f.depth
           at(g, L) == [k \in 0..L |->
                          IF k = 0 THEN leaf ELSE Poseidon(f.slots[k - 1], g[k - 1])]
           S == {L \in Nat : \E g : g = at(g, L)}
           node == CHOOSE g : g = at(g, n)
<1>1. 0 \in S
  <2> DEFINE g == [k \in 0..0 |-> leaf]
  <2>1. g = at(g, 0)
      OBVIOUS
  <2> QED
      BY <2>1
<1>2. ASSUME NEW L \in Nat, L \in S PROVE L + 1 \in S
  <2>1. PICK g : g = at(g, L)
      BY <1>2
  <2> DEFINE top == Poseidon(f.slots[L], g[L])
             w == [k \in 0..(L + 1) |-> IF k = L + 1 THEN top ELSE g[k]]
  <2>2. \A k \in 0..L : g[k] = at(g, L)[k]
      BY <2>1
  <2>3. ASSUME NEW k \in 0..(L + 1) PROVE w[k] = at(w, L + 1)[k]
    <3>1. CASE k = L + 1
      <4>1. (L + 1) - 1 = L /\ L + 1 # 0 /\ L \in 0..(L + 1) /\ L # L + 1
          OBVIOUS
      <4> QED
          BY <3>1, <4>1
    <3>2. CASE k # L + 1
      <4>1. k \in 0..L /\ (k # 0 => k - 1 \in 0..(L + 1) /\ k - 1 # L + 1)
          BY <3>2
      <4> HIDE DEF top
      <4>2. w[k] = g[k] /\ (k # 0 => w[k - 1] = g[k - 1])
          BY <3>2, <4>1
      <4> HIDE DEF w
      <4> QED
          BY <2>2, <4>1, <4>2
    <3> QED
        BY <3>1, <3>2
  <2>4. w = at(w, L + 1)
    <3>1. w = [k \in 0..(L + 1) |-> w[k]]
        OBVIOUS
    <3> HIDE DEF w
    <3> QED
        BY <2>3, <3>1
  <2> HIDE DEF w
  <2> QED
      BY <2>4
<1>3. n \in S
  <2> HIDE DEF S
  <2> QED
      BY <1>1, <1>2, SetInduction
<1>4. node = at(node, n)
    BY <1>3
<1>5. Carry(f, leaf) = node
    BY DEF Carry
<1> HIDE DEF node
<1>6. node[0] = leaf
    BY <1>4
<1>7. ASSUME NEW k \in Nat, k + 1 <= n PROVE node[k + 1] = Poseidon(f.slots[k], node[k])
  <2>1. k + 1 \in 0..n /\ k + 1 # 0 /\ (k + 1) - 1 = k
      BY <1>7
  <2>2. node[k + 1] = at(node, n)[k + 1]
      BY <1>4
  <2> QED
      BY <2>1, <2>2
<1> QED
    BY <1>5, <1>6, <1>7

\* Up to the break level they are the nodes of the new leaf's path.
LEMMA CarryIsRef ==
    ASSUME NEW depth \in Nat, NEW height, NEW leaves, NEW zero, Len(leaves) \in Nat,
           NEW leaf, NEW new, Continued(leaves, new, zero), GetOr(new, Len(leaves), zero) = leaf,
           NEW top \in 0..depth, IsBreakLevel(Len(leaves), top)
    PROVE  \A h \in Nat : h <= top =>
              Carry(RefFrontier(depth, height, leaves, zero), leaf)[h]
                = RefNode(new, zero, h, Above(Len(leaves), h))
<1> DEFINE f == RefFrontier(depth, height, leaves, zero)
           c == Len(leaves)
           node == Carry(f, leaf)
           S == {h \in Nat : h <= top => node[h] = RefNode(new, zero, h, Above(c, h))}
<1>1. /\ node[0] = leaf
      /\ \A k \in Nat : k + 1 <= depth => node[k + 1] = Poseidon(f.slots[k], node[k])
  <2>1. f.depth = depth
      BY FrontierFields
  <2> HIDE DEF f
  <2> QED
      BY <2>1, CarryExists
<1>2. \A level \in OccupiedLevels(c, depth) :
         f.slots[level] = RefNode(leaves, zero, level, Above(c, level) - 1)
    BY FrontierFields
<1> HIDE DEF f, node
<1>3. 0 \in S
    BY <1>1, RefNodeLeaf, AboveStep
<1>4. ASSUME NEW h \in Nat, h \in S PROVE h + 1 \in S
  <2> SUFFICES ASSUME h + 1 <= top PROVE node[h + 1] = RefNode(new, zero, h + 1, Above(c, h + 1))
      OBVIOUS
  <2>1. Bit(c, h) = 1 /\ h \in OccupiedLevels(c, depth) /\ h + 1 <= depth /\ h <= top
      BY DEF IsBreakLevel, OccupiedLevels
  <2> DEFINE q == Above(c, h + 1)
  <2>2. q \in Nat /\ Above(c, h) - 1 = 2 * q /\ Above(c, h) = 2 * q + 1
      BY <2>1, SlotIsLeft
  <2>3. node[h] = RefNode(new, zero, h, 2 * q + 1)
      BY <1>4, <2>1, <2>2
  <2>4. f.slots[h] = RefNode(leaves, zero, h, 2 * q)
      BY <1>2, <2>1, <2>2
  <2> HIDE DEF q
  <2>5. RefNode(new, zero, h, 2 * q) = RefNode(leaves, zero, h, 2 * q)
    <3>1. 2 * q \in Nat /\ 2 * q < Above(c, h)
        BY <2>2
    <3> QED
        BY <3>1, ContinuedNodes
  <2>6. RefNode(new, zero, h + 1, q)
          = Poseidon(RefNode(new, zero, h, 2 * q), RefNode(new, zero, h, 2 * q + 1))
      BY <2>2, RefNodeParent
  <2> QED
      BY <1>1, <2>1, <2>3, <2>4, <2>5, <2>6 DEF q
<1> HIDE DEF S
<1>5. Nat \subseteq S
    BY <1>3, <1>4, SetInduction
<1> QED
    BY <1>5 DEF S, node, f

-----------------------------------------------------------------------------
\* The shards completed while the count of completed shards went from a to b.
CompletedShards(leaves, zero, height, a, b) ==
    [k \in 1..(b - a) |-> [shard |-> a + k - 1,
                           root |-> RefNode(leaves, zero, height, a + k - 1)]]

\* `append` turns the frontier of its leaves into that of one leaf more, and
\* reports the root of the shard the leaf completes; it never stops half way.
LEMMA AppendIsRef ==
    ASSUME NEW depth \in Nat, NEW height \in Nat, NEW leaves, NEW zero,
           Len(leaves) \in Nat, Len(leaves) < 2 ^ depth,
           NEW leaf, NEW new, Len(new) = Len(leaves) + 1,
           Continued(leaves, new, zero), GetOr(new, Len(leaves), zero) = leaf
    PROVE  FrontierAppend(RefFrontier(depth, height, leaves, zero), leaf)
             = [frontier |-> RefFrontier(depth, height, new, zero),
                completed |-> CompletedShards(new, zero, height, Above(Len(leaves), height),
                                              Above(Len(new), height)),
                ok |-> TRUE]
<1> DEFINE f == RefFrontier(depth, height, leaves, zero)
           c == Len(leaves)
           top == BreakLevel(f)
           node == Carry(f, leaf)
<1>1. /\ f.depth = depth /\ f.height = height /\ f.count = c
      /\ DOMAIN f.slots = OccupiedLevels(c, depth)
      /\ \A level \in OccupiedLevels(c, depth) :
            f.slots[level] = RefNode(leaves, zero, level, Above(c, level) - 1)
    BY FrontierFields
<1>2. top \in 0..depth /\ IsBreakLevel(c, top)
  <2>1. \E t \in 0..depth : Bit(c, t) = 0 /\ \A lower \in 0..(t - 1) : Bit(c, lower) = 1
      BY BreakLevelExists
  <2>2. top = CHOOSE t \in 0..depth :
                  Bit(c, t) = 0 /\ \A lower \in 0..(t - 1) : Bit(c, lower) = 1
      BY <1>1 DEF BreakLevel
  <2> HIDE DEF top
  <2> QED
      BY <2>1, <2>2 DEF IsBreakLevel
<1>3. \A h \in Nat : h <= top => node[h] = RefNode(new, zero, h, Above(c, h))
  <2> HIDE DEF top
  <2>1. \A t \in 0..depth : IsBreakLevel(c, t) =>
           \A h \in Nat : h <= t => node[h] = RefNode(new, zero, h, Above(c, h))
      BY CarryIsRef
  <2> QED
      BY <1>2, <2>1
<1> HIDE DEF top, node
<1>4. (0..(top - 1)) \ DOMAIN f.slots = {}
  <2>1. \A level \in 0..(top - 1) : level \in OccupiedLevels(c, depth)
      BY <1>2 DEF IsBreakLevel, OccupiedLevels
  <2> QED
      BY <1>1, <2>1
<1>5. FrontierAppend(f, leaf)
        = [frontier |-> [f EXCEPT !.count = c + 1, !.slots = NewSlots(f, top, node[top])],
           completed |-> CompletedShard(f, top, node), ok |-> TRUE]
  <2> HIDE DEF f
  <2> QED
      BY <1>1, <1>4 DEF FrontierAppend, top, node
<1>6. \A j \in Nat : /\ Above(c + 1, j) = IF j <= top THEN Above(c, j) + 1 ELSE Above(c, j)
                     /\ Bit(c + 1, j) = IF j < top THEN 0 ELSE IF j = top THEN 1 ELSE Bit(c, j)
                     /\ Above(c, j) \in Nat
  <2>1. top \in Nat
      BY <1>2
  <2> QED
      BY <1>2, <2>1, PathNext, BitsNext, AboveStep
<1>7. (OccupiedLevels(c, depth) \ 0..(top - 1)) \cup {top} = OccupiedLevels(c + 1, depth)
  <2>1. ASSUME NEW j \in 0..depth
        PROVE  j \in (OccupiedLevels(c, depth) \ 0..(top - 1)) \cup {top}
                 <=> j \in OccupiedLevels(c + 1, depth)
    <3>1. j \in OccupiedLevels(c, depth) <=> Bit(c, j) = 1
        BY DEF OccupiedLevels
    <3>2. j \in OccupiedLevels(c + 1, depth) <=> Bit(c + 1, j) = 1
        BY DEF OccupiedLevels
    <3>3. Bit(c + 1, j) = IF j < top THEN 0 ELSE IF j = top THEN 1 ELSE Bit(c, j)
        BY <1>6
    <3> HIDE DEF c
    <3> QED
        BY <1>2, <3>1, <3>2, <3>3
  <2>2. OccupiedLevels(c, depth) \subseteq 0..depth /\ OccupiedLevels(c + 1, depth) \subseteq 0..depth
      BY DEF OccupiedLevels
  <2> HIDE DEF c
  <2> QED
      BY <1>2, <2>1, <2>2
<1>8. ASSUME NEW level \in OccupiedLevels(c + 1, depth)
      PROVE  (IF level = top THEN node[top] ELSE f.slots[level])
               = RefNode(new, zero, level, Above(c + 1, level) - 1)
  <2>1. level \in Nat /\ top \in Nat
      BY <1>2 DEF OccupiedLevels
  <2>2. CASE level = top
    <3>1. Above(c + 1, level) - 1 = Above(c, level)
        BY <1>6, <2>1, <2>2
    <3> QED
        BY <1>3, <2>1, <2>2, <3>1
  <2>3. CASE level # top
    <3>1. level > top /\ Bit(c, level) = 1 /\ Above(c + 1, level) = Above(c, level)
      <4>1. Bit(c + 1, level) = 1
          BY DEF OccupiedLevels
      <4>2. /\ Above(c + 1, level) = IF level <= top THEN Above(c, level) + 1 ELSE Above(c, level)
            /\ Bit(c + 1, level) = IF level < top THEN 0
                                   ELSE IF level = top THEN 1 ELSE Bit(c, level)
          BY <1>6, <2>1
      <4> HIDE DEF c
      <4> QED
          BY <2>1, <2>3, <4>1, <4>2
    <3>2. level \in OccupiedLevels(c, depth)
        BY <3>1 DEF OccupiedLevels
    <3>3. Above(c, level) - 1 \in Nat /\ Above(c, level) - 1 < Above(c, level)
        BY <1>6, <2>1, <3>1, SlotIsLeft
    <3> DEFINE i == Above(c, level) - 1
    <3> HIDE DEF i
    <3>4. \A k \in Nat : k < Above(c, level) => RefNode(new, zero, level, k) = RefNode(leaves, zero, level, k)
        BY <2>1, ContinuedNodes
    <3>5. RefNode(new, zero, level, i) = RefNode(leaves, zero, level, i)
        BY <3>3, <3>4 DEF i
    <3> QED
        BY <1>1, <2>3, <3>1, <3>2, <3>5 DEF i
  <2> QED
      BY <2>2, <2>3
<1>9. NewSlots(f, top, node[top])
        = [level \in OccupiedLevels(c + 1, depth) |->
              RefNode(new, zero, level, Above(c + 1, level) - 1)]
  <2>1. NewSlots(f, top, node[top])
          = [level \in OccupiedLevels(c + 1, depth) |->
                IF level = top THEN node[top] ELSE f.slots[level]]
    <3> HIDE DEF f
    <3> QED
        BY <1>1, <1>7 DEF NewSlots
  <2> HIDE DEF f
  <2> QED
      BY <1>8, <2>1
<1>10. [f EXCEPT !.count = c + 1, !.slots = NewSlots(f, top, node[top])]
         = RefFrontier(depth, height, new, zero)
  <2> DEFINE g == NewSlots(f, top, node[top])
             m == c + 1
             counted == [f EXCEPT !.count = m]
  <2>1. f = [depth |-> depth, height |-> height, count |-> f.count, slots |-> f.slots]
      BY DEF RefFrontier
  <2> HIDE DEF f, g, m
  <2>2. counted = [depth |-> depth, height |-> height, count |-> m, slots |-> f.slots]
      BY <2>1
  <2>3. [f EXCEPT !.count = m, !.slots = g] = [counted EXCEPT !.slots = g]
      OBVIOUS
  <2> HIDE DEF counted
  <2>4. [f EXCEPT !.count = m, !.slots = g]
          = [depth |-> depth, height |-> height, count |-> m, slots |-> g]
      BY <2>2, <2>3
  <2> QED
      BY <1>9, <2>4 DEF RefFrontier, g, m
<1>11. CompletedShard(f, top, node)
         = CompletedShards(new, zero, height, Above(c, height), Above(c + 1, height))
  <2> DEFINE a == Above(c, height)
             b == Above(c + 1, height)
  <2>1. CompletedShard(f, top, node)
          = IF top >= height THEN <<[shard |-> a, root |-> node[height]]>> ELSE <<>>
    <3> HIDE DEF f
    <3> QED
        BY <1>1 DEF CompletedShard, Above
  <2>2. a \in Nat /\ b = IF height <= top THEN a + 1 ELSE a
      BY <1>6
  <2>3. height <= top => node[height] = RefNode(new, zero, height, a)
      BY <1>3
  <2> HIDE DEF a, b
  <2>4. CASE top >= height
    <3>1. b - a = 1 /\ a + 1 - 1 = a /\ height <= top
        BY <1>2, <2>2, <2>4
    <3>2. CompletedShards(new, zero, height, a, b)
            = [k \in 1..1 |-> [shard |-> a + k - 1, root |-> RefNode(new, zero, height, a + k - 1)]]
        BY <3>1 DEF CompletedShards
    <3>3. 1..1 = {1}
        OBVIOUS
    <3> DEFINE e == [shard |-> a, root |-> RefNode(new, zero, height, a)]
    <3>4. CompletedShards(new, zero, height, a, b) = [k \in 1..1 |-> e]
        BY <3>1, <3>2, <3>3
    <3>5. CompletedShard(f, top, node) = <<e>>
        BY <2>1, <2>3, <2>4, <3>1
    <3> HIDE DEF e
    <3>6. <<e>> = [k \in 1..1 |-> e]
        OBVIOUS
    <3> QED
        BY <3>4, <3>5, <3>6 DEF a, b
  <2>5. CASE ~(top >= height)
    <3>1. b - a = 0
        BY <1>2, <2>2, <2>5
    <3>2. CompletedShards(new, zero, height, a, b)
            = [k \in 1..0 |-> [shard |-> a + k - 1, root |-> RefNode(new, zero, height, a + k - 1)]]
        BY <3>1 DEF CompletedShards
    <3>3. CompletedShards(new, zero, height, a, b) = <<>>
        BY <3>2
    <3> QED
        BY <2>1, <2>5, <3>3 DEF a, b
  <2> QED
      BY <2>4, <2>5 DEF a, b
<1> QED
    BY <1>5, <1>10, <1>11

-----------------------------------------------------------------------------
\* Later leaves have later ancestors.
LEMMA AboveMonotone ==
    ASSUME NEW m \in Nat, NEW n \in Nat, m <= n
    PROVE  \A h \in Nat : Above(m, h) <= Above(n, h)
<1> DEFINE S == {h \in Nat : Above(m, h) <= Above(n, h)}
<1>1. 0 \in S
    BY AboveStep
<1>2. ASSUME NEW h \in Nat, h \in S PROVE h + 1 \in S
  <2> DEFINE a == Above(m, h)
             b == Above(n, h)
  <2>1. a \in Nat /\ b \in Nat /\ Above(m, h + 1) = a \div 2 /\ Above(n, h + 1) = b \div 2
      BY AboveStep
  <2>2. a <= b
      BY <1>2
  <2> HIDE DEF a, b
  <2>3. a \div 2 <= b \div 2
      BY <2>1, <2>2
  <2> QED
      BY <2>1, <2>3
<1> HIDE DEF S
<1>3. Nat \subseteq S
    BY <1>1, <1>2, SetInduction
<1> QED
    BY <1>3 DEF S

\* One leaf more.
LEMMA AppendContinues ==
    ASSUME NEW S, NEW leaves \in Seq(S), NEW leaf \in S, NEW zero
    PROVE  /\ Append(leaves, leaf) \in Seq(S) /\ Len(Append(leaves, leaf)) = Len(leaves) + 1
           /\ Continued(leaves, Append(leaves, leaf), zero)
           /\ GetOr(Append(leaves, leaf), Len(leaves), zero) = leaf
<1> DEFINE n == Len(leaves)
           new == Append(leaves, leaf)
<1>1. n \in Nat
    BY LenProperties
<1>2. /\ new \in Seq(S) /\ Len(new) = n + 1 /\ new[n + 1] = leaf
      /\ \A i \in 1..n : new[i] = leaves[i]
    BY AppendProperties
<1> HIDE DEF n, new
<1>3. \A j \in Nat : j < n => GetOr(new, j, zero) = leaves[j + 1]
    BY <1>1, <1>2 DEF GetOr, At
<1>4. \A j \in Nat : j < n => GetOr(leaves, j, zero) = leaves[j + 1]
    BY <1>1 DEF GetOr, At, n
<1>5. GetOr(new, n, zero) = leaf
    BY <1>1, <1>2 DEF GetOr, At
<1> QED
    BY <1>2, <1>3, <1>4, <1>5 DEF n, new, Continued

\* More leaves, one by one and all of them.
LEMMA GrownContinues ==
    ASSUME NEW S, NEW leaves \in Seq(S), NEW more \in Seq(S), NEW zero, NEW k \in Nat, k <= Len(more)
    PROVE  /\ Grown(leaves, more, k) \in Seq(S) /\ Len(Grown(leaves, more, k)) = Len(leaves) + k
           /\ Continued(leaves, Grown(leaves, more, k), zero)
<1> DEFINE n == Len(leaves)
           t == SubSeq(more, 1, k)
           new == leaves \o t
<1>1. n \in Nat /\ Len(more) \in Nat /\ \A i \in 1..Len(more) : more[i] \in S
    BY LenProperties, ElementOfSeq
<1>2. t = [i \in 1..k |-> more[i]]
    BY FirstPart
<1>3. t \in Seq(S) /\ Len(t) = k
  <2> HIDE DEF t
  <2>1. t \in [1..k -> S]
      BY <1>1, <1>2
  <2> QED
      BY <2>1, SeqDef
<1> HIDE DEF t
<1>4. /\ new \in Seq(S) /\ Len(new) = n + k
      /\ \A i \in 1..(n + k) : new[i] = IF i <= n THEN leaves[i] ELSE t[i - n]
    BY <1>3, ConcatProperties
<1>5. new = Grown(leaves, more, k)
    BY DEF Grown, t
<1> HIDE DEF new, n
<1>6. \A j \in Nat : j < n => GetOr(new, j, zero) = leaves[j + 1]
    BY <1>1, <1>4 DEF GetOr, At
<1>7. \A j \in Nat : j < n => GetOr(leaves, j, zero) = leaves[j + 1]
    BY <1>1 DEF GetOr, At, n
<1> QED
    BY <1>4, <1>5, <1>6, <1>7 DEF n, Continued

\* The first nodes of a level are the same for both.
SameNodes(old, new, zero, height, n) ==
    \A i \in Nat : i < n => RefNode(new, zero, height, i) = RefNode(old, zero, height, i)

\* The shards completed in two steps, one list after the other.
LEMMA ShardsJoined ==
    ASSUME NEW old, NEW new, NEW zero, NEW height, NEW a, NEW b, NEW c, NEW f, NEW g, NEW w,
           a \in Nat, b \in Nat, c \in Nat, a <= b, b <= c,
           SameNodes(old, new, zero, height, b),
           f = CompletedShards(old, zero, height, a, b),
           g = CompletedShards(new, zero, height, b, c),
           w = CompletedShards(new, zero, height, a, c)
    PROVE  f \o g = w
<1> DEFINE m == b - a
           n == c - b
           e(i) == [shard |-> i, root |-> RefNode(new, zero, height, i)]
<1>1. m \in Nat /\ n \in Nat /\ m + n = c - a
    OBVIOUS
<1>2. /\ \A k \in 1..m : f[k] = e(a + k - 1)
      /\ \A k \in 1..n : g[k] = e(b + k - 1)
      /\ \A k \in 1..(m + n) : w[k] = e(a + k - 1)
  <2>1. \A k \in 1..m : f[k] = [shard |-> a + k - 1, root |-> RefNode(old, zero, height, a + k - 1)]
      BY DEF CompletedShards
  <2>2. \A k \in 1..m : a + k - 1 \in Nat /\ a + k - 1 < b
      OBVIOUS
  <2>3. \A k \in 1..m : RefNode(new, zero, height, a + k - 1) = RefNode(old, zero, height, a + k - 1)
      BY <2>2 DEF SameNodes
  <2>4. \A k \in 1..n : g[k] = e(b + k - 1)
      BY DEF CompletedShards
  <2>5. \A k \in 1..(m + n) : w[k] = e(a + k - 1)
      BY <1>1 DEF CompletedShards
  <2> QED
      BY <2>1, <2>3, <2>4, <2>5
<1>3. IsRow(f, m) /\ IsRow(g, n) /\ IsRow(w, m + n)
  <2>1. f = [k \in 1..m |-> f[k]]
      BY DEF CompletedShards
  <2>2. g = [k \in 1..n |-> g[k]]
      BY DEF CompletedShards
  <2>3. w = [k \in 1..(m + n) |-> w[k]]
      BY <1>1 DEF CompletedShards
  <2> QED
      BY <2>1, <2>2, <2>3 DEF IsRow
<1> HIDE DEF e
<1>4. \A k \in 1..m : w[k] = f[k]
    BY <1>1, <1>2
<1>5. \A k \in 1..n : w[m + k] = g[k]
  <2> TAKE k \in 1..n
  <2>1. m + k \in 1..(m + n) /\ a + (m + k) - 1 = b + k - 1
      BY <1>1
  <2>2. w[m + k] = e(a + (m + k) - 1)
      BY <1>2, <2>1
  <2> QED
      BY <1>2, <2>1, <2>2
<1> HIDE DEF m, n
<1>6. f \o g = w
    BY <1>1, <1>3, <1>4, <1>5, Joined DEF Continues
<1> QED
    BY <1>6

-----------------------------------------------------------------------------
\* Where the loop of `append_many` is after k of its leaves.
AfterSome(depth, height, leaves, more, zero, k) ==
    [frontier |-> RefFrontier(depth, height, Grown(leaves, more, k), zero),
     completed |-> CompletedShards(Grown(leaves, more, k), zero, height,
                                   Above(Len(leaves), height), Above(Len(leaves) + k, height)),
     ok |-> TRUE]

\* One turn of the loop.
Turn(r, leaf) ==
    IF ~r.ok THEN r
    ELSE LET step == FrontierAppend(r.frontier, leaf)
         IN  [step EXCEPT !.completed = r.completed \o @]

\* Each turn of the loop, from there to one leaf further.
LEMMA AppendTurn ==
    ASSUME NEW depth \in Nat, NEW height \in Nat, NEW S, NEW zero,
           NEW leaves \in Seq(S), NEW more \in Seq(S), NEW k \in Nat, k + 1 <= Len(more),
           Len(leaves) + Len(more) <= 2 ^ depth
    PROVE  Turn(AfterSome(depth, height, leaves, more, zero, k), more[k + 1])
             = AfterSome(depth, height, leaves, more, zero, k + 1)
<1> DEFINE old == Grown(leaves, more, k)
           new == Grown(leaves, more, k + 1)
           at == AfterSome(depth, height, leaves, more, zero, k)
           a == Above(Len(leaves), height)
           b == Above(Len(leaves) + k, height)
           c == Above(Len(leaves) + (k + 1), height)
           step == FrontierAppend(at.frontier, more[k + 1])
<1>1. Len(leaves) \in Nat /\ Len(more) \in Nat /\ more[k + 1] \in S
    BY LenProperties, ElementOfSeq
<1>2. /\ old \in Seq(S) /\ Len(old) = Len(leaves) + k
      /\ Append(old, more[k + 1]) = new
  <2>1. k <= Len(more)
      BY <1>1
  <2>2. Len(Grown(leaves, more, k)) = Len(leaves) + k
      BY <2>1, GrownContinues
  <2> QED
      BY <2>2, NextPrefix
<1>3. Len(new) = Len(old) + 1 /\ Continued(old, new, zero)
      /\ GetOr(new, Len(old), zero) = more[k + 1]
  <2> HIDE DEF old, new
  <2>1. \A row \in Seq(S), leaf \in S :
           /\ Len(Append(row, leaf)) = Len(row) + 1
           /\ Continued(row, Append(row, leaf), zero)
           /\ GetOr(Append(row, leaf), Len(row), zero) = leaf
      BY AppendContinues
  <2> QED
      BY <1>1, <1>2, <2>1
<1>4. Len(old) \in Nat /\ Len(old) < 2 ^ depth /\ Len(new) = Len(leaves) + (k + 1)
  <2>1. 2 ^ depth \in Nat
      BY PowerPositive
  <2> HIDE DEF old, new
  <2> QED
      BY <1>1, <1>2, <1>3, <2>1
<1>5. step = [frontier |-> RefFrontier(depth, height, new, zero),
              completed |-> CompletedShards(new, zero, height, b, c), ok |-> TRUE]
  <2>1. at.frontier = RefFrontier(depth, height, old, zero)
      BY DEF AfterSome
  <2> HIDE DEF at, old, new
  <2>2. FrontierAppend(RefFrontier(depth, height, old, zero), more[k + 1])
          = [frontier |-> RefFrontier(depth, height, new, zero),
             completed |-> CompletedShards(new, zero, height, Above(Len(old), height),
                                           Above(Len(new), height)),
             ok |-> TRUE]
    <3>1. \A l, leaf, w :
             /\ Len(l) \in Nat /\ Len(l) < 2 ^ depth /\ Len(w) = Len(l) + 1
             /\ Continued(l, w, zero) /\ GetOr(w, Len(l), zero) = leaf
             => FrontierAppend(RefFrontier(depth, height, l, zero), leaf)
                  = [frontier |-> RefFrontier(depth, height, w, zero),
                     completed |-> CompletedShards(w, zero, height, Above(Len(l), height),
                                                   Above(Len(w), height)),
                     ok |-> TRUE]
        BY AppendIsRef
    <3> QED
        BY <1>3, <1>4, <3>1
  <2> QED
      BY <1>2, <1>4, <2>1, <2>2
<1>6. /\ a \in Nat /\ b \in Nat /\ c \in Nat /\ a <= b /\ b <= c
      /\ SameNodes(old, new, zero, height, b)
  <2>1. Len(leaves) + k \in Nat /\ Len(leaves) + (k + 1) \in Nat
      BY <1>1
  <2>2. a \in Nat /\ b \in Nat /\ c \in Nat
      BY <1>1, <2>1, AboveStep
  <2>3. a <= b /\ b <= c
    <3>1. Len(leaves) <= Len(leaves) + k /\ Len(leaves) + k <= Len(leaves) + (k + 1)
        BY <1>1
    <3> QED
        BY <1>1, <2>1, <3>1, AboveMonotone
  <2> HIDE DEF old, new
  <2>4. \A i \in Nat : i < Above(Len(old), height)
                          => RefNode(new, zero, height, i) = RefNode(old, zero, height, i)
      BY <1>3, <1>4, ContinuedNodes
  <2> QED
      BY <1>2, <2>2, <2>3, <2>4 DEF SameNodes
<1>7. at.completed \o step.completed = CompletedShards(new, zero, height, a, c)
  <2>1. at.completed = CompletedShards(old, zero, height, a, b)
      BY DEF AfterSome
  <2>2. step.completed = CompletedShards(new, zero, height, b, c)
      BY <1>5
  <2> HIDE DEF at, step, old, new, a, b, c
  <2> QED
    <3> DEFINE f == at.completed
               g == step.completed
               w == CompletedShards(new, zero, height, a, c)
    <3> HIDE DEF f, g
    <3>1. f = CompletedShards(old, zero, height, a, b) /\ g = CompletedShards(new, zero, height, b, c)
        BY <2>1, <2>2 DEF f, g
    <3>2. w = CompletedShards(new, zero, height, a, c)
        OBVIOUS
    <3> HIDE DEF w
    <3>3. f \o g = w
        BY <1>6, <3>1, <3>2, ShardsJoined
    <3> QED
        BY <3>3 DEF f, g, w
<1>8. [step EXCEPT !.completed = at.completed \o step.completed]
        = [frontier |-> RefFrontier(depth, height, new, zero),
           completed |-> CompletedShards(new, zero, height, a, c), ok |-> TRUE]
  <2> DEFINE s == CompletedShards(new, zero, height, a, c)
             r == RefFrontier(depth, height, new, zero)
             o == CompletedShards(new, zero, height, b, c)
             t == TRUE
  <2> HIDE DEF step, at, s, r, o, t
  <2>1. step = [frontier |-> r, completed |-> o, ok |-> t] /\ at.completed \o step.completed = s
      BY <1>5, <1>7 DEF s, r, o, t
  <2>2. [step EXCEPT !.completed = s] = [frontier |-> r, completed |-> s, ok |-> t]
      BY <2>1
  <2> QED
      BY <2>1, <2>2 DEF s, r, t
<1> QED
  <2>1. Turn(at, more[k + 1]) = [step EXCEPT !.completed = at.completed \o step.completed]
    <3>1. at.ok = TRUE
        BY DEF AfterSome
    <3> HIDE DEF at
    <3> QED
        BY <3>1 DEF Turn
  <2>2. AfterSome(depth, height, leaves, more, zero, k + 1)
          = [frontier |-> RefFrontier(depth, height, new, zero),
             completed |-> CompletedShards(new, zero, height, a, c), ok |-> TRUE]
      BY DEF AfterSome
  <2> QED
      BY <1>8, <2>1, <2>2

\* `append_many` appends its leaves and reports every shard they complete.
THEOREM AppendManyIsRef ==
    ASSUME NEW depth \in Nat, NEW height \in Nat, NEW S, NEW zero,
           NEW leaves \in Seq(S), NEW more \in Seq(S), Len(leaves) + Len(more) <= 2 ^ depth
    PROVE  FrontierAppendMany(RefFrontier(depth, height, leaves, zero), more)
             = [frontier |-> RefFrontier(depth, height, leaves \o more, zero),
                completed |-> CompletedShards(leaves \o more, zero, height,
                                 Above(Len(leaves), height), Above(Len(leaves \o more), height)),
                ok |-> TRUE]
<1> DEFINE n == Len(more)
           f == RefFrontier(depth, height, leaves, zero)
           start == [frontier |-> f, completed |-> <<>>, ok |-> TRUE]
           at(g) == [k \in 0..n |-> IF k = 0 THEN start ELSE Turn(g[k - 1], more[k])]
           ref == [k \in 0..n |-> AfterSome(depth, height, leaves, more, zero, k)]
           after == CHOOSE g : g = at(g)
<1>1. n \in Nat /\ Len(leaves) \in Nat
    BY LenProperties
<1>2. Grown(leaves, more, 0) = leaves /\ Grown(leaves, more, n) = leaves \o more
  <2>1. SubSeq(more, 1, 0) = <<>>
    <3>1. SubSeq(more, 1, 0) = [i \in 1..0 |-> more[i]]
        BY FirstPart
    <3> QED
        BY <3>1
  <2>2. leaves \o <<>> = leaves
      BY ConcatEmptySeq
  <2>3. SubSeq(more, 1, n) = [i \in 1..n |-> more[i]]
      BY <1>1, FirstPart
  <2>4. more \in [1..n -> S]
      BY LenProperties
  <2>5. SubSeq(more, 1, n) = more
      BY <2>3, <2>4
  <2> QED
      BY <2>1, <2>2, <2>5 DEF Grown
<1>3. AfterSome(depth, height, leaves, more, zero, 0) = start
  <2>1. Len(leaves) + 0 = Len(leaves)
      BY <1>1
  <2> DEFINE a == Above(Len(leaves), height)
  <2>2. a \in Nat
      BY <1>1, AboveStep
  <2> HIDE DEF a
  <2>3. CompletedShards(leaves, zero, height, a, a)
          = [k \in 1..0 |-> [shard |-> a + k - 1, root |-> RefNode(leaves, zero, height, a + k - 1)]]
    <3>1. a - a = 0
        BY <2>2
    <3> QED
        BY <3>1 DEF CompletedShards
  <2>4. CompletedShards(leaves, zero, height, a, a) = <<>>
      BY <2>3
  <2> QED
      BY <1>2, <2>1, <2>4 DEF AfterSome, a
<1>4. \A k \in Nat : k + 1 <= n =>
         Turn(AfterSome(depth, height, leaves, more, zero, k), more[k + 1])
           = AfterSome(depth, height, leaves, more, zero, k + 1)
  <2> HIDE DEF at, ref, after, f, start
  <2> QED
      BY AppendTurn
<1> HIDE DEF start
<1>5. ref = at(ref)
  <2>1. ASSUME NEW k \in 0..n
        PROVE  AfterSome(depth, height, leaves, more, zero, k)
                 = IF k = 0 THEN start
                   ELSE Turn(AfterSome(depth, height, leaves, more, zero, k - 1), more[k])
    <3>1. CASE k = 0
        BY <1>3, <3>1
    <3>2. CASE k # 0
      <4>1. PICK j \in Nat : k = j + 1
        <5>1. k - 1 \in Nat /\ k = (k - 1) + 1
            BY <1>1, <3>2
        <5> QED
            BY <5>1
      <4>2. j = k - 1 /\ j + 1 <= n
          BY <1>1, <4>1
      <4> HIDE DEF at, ref, after, n
      <4> QED
          BY <1>4, <3>2, <4>1, <4>2
    <3> QED
        BY <3>1, <3>2
  <2>2. \A k \in 0..n : k # 0 => k - 1 \in 0..n
      BY <1>1
  <2> HIDE DEF n
  <2> QED
      BY <2>1, <2>2
<1> HIDE DEF n
<1>6. after = at(after)
    BY <1>5
<1>7. FrontierAppendMany(f, more) = after[n]
    BY DEF FrontierAppendMany, n, start, Turn
<1> HIDE DEF after, f
<1>8. \A k \in 0..n : after[k] = IF k = 0 THEN start ELSE Turn(after[k - 1], more[k])
    BY <1>6
<1> HIDE DEF at, ref
<1>9. \A k \in Nat : k <= n => after[k] = AfterSome(depth, height, leaves, more, zero, k)
  <2> DEFINE T == {k \in Nat : k <= n => after[k] = AfterSome(depth, height, leaves, more, zero, k)}
  <2>1. 0 \in T
    <3>1. 0 \in 0..n /\ 0 \in Nat
        BY <1>1
    <3> QED
        BY <1>3, <1>8, <3>1
  <2>2. ASSUME NEW k \in Nat, k \in T PROVE k + 1 \in T
    <3> SUFFICES ASSUME k + 1 <= n
                 PROVE  after[k + 1] = AfterSome(depth, height, leaves, more, zero, k + 1)
        OBVIOUS
    <3>1. k <= n /\ k + 1 \in 0..n /\ k + 1 # 0 /\ (k + 1) - 1 = k
        BY <1>1
    <3>2. after[k] = AfterSome(depth, height, leaves, more, zero, k)
        BY <2>2, <3>1
    <3> QED
        BY <1>4, <1>8, <3>1, <3>2
  <2> HIDE DEF T
  <2>3. Nat \subseteq T
      BY <2>1, <2>2, SetInduction
  <2> QED
      BY <2>3 DEF T
<1>10. after[n] = AfterSome(depth, height, leaves, more, zero, n)
    BY <1>1, <1>9
<1>11. Len(leaves \o more) = Len(leaves) + n
    BY ConcatProperties DEF n
<1> QED
    BY <1>2, <1>7, <1>10, <1>11 DEF AfterSome, f

-----------------------------------------------------------------------------
\* What is read at a set bit.
LEMMA ReadSlot ==
    ASSUME NEW depth \in Nat, NEW height, NEW leaves, NEW zero,
           NEW level \in 0..depth, Bit(Len(leaves), level) = 1
    PROVE  RefFrontier(depth, height, leaves, zero).slots[level]
             = RefNode(leaves, zero, level, Above(Len(leaves), level) - 1)
<1> level \in OccupiedLevels(Len(leaves), depth)
    BY DEF OccupiedLevels
<1> QED
    BY FrontierFields

\* `frontier[level].unwrap_or(zero)` there reads the same node.
LEMMA ReadSlotOr ==
    ASSUME NEW depth \in Nat, NEW height, NEW leaves, NEW zero, NEW other,
           NEW level \in 0..depth, Bit(Len(leaves), level) = 1
    PROVE  SlotOr(RefFrontier(depth, height, leaves, zero), level, other)
             = RefNode(leaves, zero, level, Above(Len(leaves), level) - 1)
<1> level \in OccupiedLevels(Len(leaves), depth)
    BY DEF OccupiedLevels
<1> QED
    BY FrontierFields DEF SlotOr

\* The nodes `root()` computes on the path of the next leaf: where the path
\* comes from the right it meets the slot, from the left an empty subtree.
LEMMA RootTurnRight ==
    ASSUME NEW depth \in Nat, NEW height, NEW leaves, NEW zero, Len(leaves) \in Nat,
           NEW level \in Nat, level + 1 <= depth, Bit(Len(leaves), level) = 1
    PROVE  RefNode(leaves, zero, level + 1, Above(Len(leaves), level + 1))
             = Poseidon(SlotOr(RefFrontier(depth, height, leaves, zero), level,
                               EmptyNode(zero, level)),
                        RefNode(leaves, zero, level, Above(Len(leaves), level)))
<1> DEFINE f == RefFrontier(depth, height, leaves, zero)
           c == Len(leaves)
           q == Above(c, level + 1)
           e == EmptyNode(zero, level)
<1>1. q \in Nat /\ Above(c, level) - 1 = 2 * q /\ Above(c, level) = 2 * q + 1
    BY SlotIsLeft
<1>2. RefNode(leaves, zero, level + 1, q)
        = Poseidon(RefNode(leaves, zero, level, 2 * q), RefNode(leaves, zero, level, 2 * q + 1))
    BY <1>1, RefNodeParent
<1>3. SlotOr(f, level, e) = RefNode(leaves, zero, level, Above(c, level) - 1)
    BY ReadSlotOr
<1> HIDE DEF q, f
<1> QED
    BY <1>1, <1>2, <1>3 DEF q, f

\* The same where the bit is clear: the path is a left child, nothing right of it.
LEMMA RootTurnLeft ==
    ASSUME NEW leaves, NEW zero, Len(leaves) \in Nat, NEW level \in Nat,
           Bit(Len(leaves), level) # 1
    PROVE  RefNode(leaves, zero, level + 1, Above(Len(leaves), level + 1))
             = Poseidon(RefNode(leaves, zero, level, Above(Len(leaves), level)),
                        EmptyNode(zero, level))
<1> DEFINE c == Len(leaves)
           q == Above(c, level + 1)
           e == EmptyNode(zero, level)
<1>1. q \in Nat /\ Above(c, level) = 2 * q
  <2>1. /\ q \in Nat /\ Bit(c, level) \in {0, 1} /\ Above(c, level) = 2 * q + Bit(c, level)
      BY BitOfPath
  <2> HIDE DEF q
  <2> QED
      BY <2>1
<1>2. RefNode(leaves, zero, level + 1, q)
        = Poseidon(RefNode(leaves, zero, level, 2 * q), RefNode(leaves, zero, level, 2 * q + 1))
    BY <1>1, RefNodeParent
<1>3. Ceil(c, level) \in {Above(c, level), Above(c, level) + 1}
    BY CeilAbove
<1> HIDE DEF q, e
<1>4. 2 * q + 1 >= Ceil(c, level) /\ 2 * q + 1 \in Nat
    BY <1>1, <1>3
<1>5. RefNode(leaves, zero, level, 2 * q + 1) = e
    BY <1>4, RefNodePadding DEF e
<1> QED
    BY <1>1, <1>2, <1>5 DEF q, e

\* `root()` is the root of the flat zero-padded tree, full or not.
LEMMA FrontierRootIsRef ==
    ASSUME NEW depth \in Nat, NEW height, NEW leaves, NEW zero, Len(leaves) \in Nat,
           Len(leaves) <= 2 ^ depth
    PROVE  FrontierRoot(RefFrontier(depth, height, leaves, zero), zero)
             = RefRoot(depth, zero, leaves)
<1> DEFINE f == RefFrontier(depth, height, leaves, zero)
           c == Len(leaves)
           z == ZeroRootsFrom(depth, zero)
           turn(level, below) ==
               IF Bit(c, level - 1) = 1
               THEN Poseidon(SlotOr(f, level - 1, z[level - 1]), below)
               ELSE Poseidon(below, z[level - 1])
           at(g) == [level \in 0..depth |-> IF level = 0 THEN z[0] ELSE turn(level, g[level - 1])]
           ref == [level \in 0..depth |-> RefNode(leaves, zero, level, Above(c, level))]
           node == CHOOSE g : g = at(g)
<1>1. \A h \in 0..depth : z[h] = EmptyNode(zero, h)
    BY ZeroRoots
<1>2. f.depth = depth /\ f.count = c
    BY FrontierFields
<1>3. 2 ^ depth \in Nat \ {0}
    BY PowerPositive
<1>4. FrontierRoot(f, zero) = IF c = 2 ^ depth THEN SlotOr(f, depth, z[depth]) ELSE node[depth]
  <2> HIDE DEF f, z
  <2> QED
      BY <1>2 DEF FrontierRoot, TreeCapacity, z
<1>5. CASE c = 2 ^ depth
  <2>1. Above(c, depth) = 1
    <3> DEFINE p == 2 ^ depth
    <3>1. p * 1 <= p /\ p < p * 1 + p /\ p \in Nat \ {0}
        BY <1>3
    <3> HIDE DEF p
    <3>2. p \div p = 1
        BY <3>1, Quotient
    <3> QED
        BY <1>5, <3>2 DEF Above, p
  <2>2. Bit(c, depth) = 1
    <3>1. Bit(c, depth) = Above(c, depth) % 2
        BY BitOfPath
    <3> QED
        BY <2>1, <3>1
  <2>3. SlotOr(f, depth, z[depth]) = RefNode(leaves, zero, depth, Above(c, depth) - 1)
    <3>1. depth \in 0..depth
        OBVIOUS
    <3> HIDE DEF z
    <3> QED
        BY <2>2, <3>1, ReadSlotOr
  <2>4. SlotOr(f, depth, z[depth]) = RefNode(leaves, zero, depth, 0)
      BY <2>1, <2>3
  <2> HIDE DEF f, c, z
  <2> QED
      BY <1>4, <1>5, <2>4 DEF RefRoot, f
<1>6. CASE c # 2 ^ depth
  <2>1. c < 2 ^ depth
      BY <1>3, <1>6
  <2>2. RefNode(leaves, zero, 0, Above(c, 0)) = z[0]
    <3>1. Above(c, 0) = c /\ GetOr(leaves, c, zero) = zero
      <4> HIDE DEF z
      <4>1. Above(c, 0) = c
          BY AboveStep
      <4>2. ~(c < c)
          OBVIOUS
      <4> QED
          BY <4>1, <4>2 DEF GetOr
    <3>2. EmptyNode(zero, 0) = zero
      <4>1. GetOr(<<>>, 0, zero) = zero
          BY DEF GetOr
      <4> QED
          BY <4>1, RefNodeLeaf DEF EmptyNode
    <3>3. 0 \in 0..depth
        OBVIOUS
    <3>4. RefNode(leaves, zero, 0, c) = GetOr(leaves, c, zero)
        BY RefNodeLeaf
    <3> HIDE DEF z, c
    <3> QED
        BY <1>1, <3>1, <3>2, <3>3, <3>4
  <2>3. \A level \in Nat : level + 1 <= depth =>
           RefNode(leaves, zero, level + 1, Above(c, level + 1))
             = turn(level + 1, RefNode(leaves, zero, level, Above(c, level)))
    <3> TAKE level \in Nat
    <3> HAVE level + 1 <= depth
    <3>1. (level + 1) - 1 = level /\ z[level] = EmptyNode(zero, level)
        BY <1>1
    <3>2. RefNode(leaves, zero, level + 1, Above(c, level + 1))
            = IF Bit(c, level) = 1
              THEN Poseidon(SlotOr(f, level, EmptyNode(zero, level)),
                            RefNode(leaves, zero, level, Above(c, level)))
              ELSE Poseidon(RefNode(leaves, zero, level, Above(c, level)), EmptyNode(zero, level))
      <4>1. Bit(c, level) = 1
                => RefNode(leaves, zero, level + 1, Above(c, level + 1))
                     = Poseidon(SlotOr(f, level, EmptyNode(zero, level)),
                                RefNode(leaves, zero, level, Above(c, level)))
          BY RootTurnRight
      <4>2. Bit(c, level) # 1
                => RefNode(leaves, zero, level + 1, Above(c, level + 1))
                     = Poseidon(RefNode(leaves, zero, level, Above(c, level)),
                                EmptyNode(zero, level))
          BY RootTurnLeft
      <4> QED
          BY <4>1, <4>2
    <3> HIDE DEF z, f, c
    <3> QED
        BY <3>1, <3>2
  <2> HIDE DEF turn
  <2>4. ref = at(ref)
    <3>1. ASSUME NEW level \in 0..depth
          PROVE  RefNode(leaves, zero, level, Above(c, level))
                   = IF level = 0 THEN z[0]
                     ELSE turn(level, RefNode(leaves, zero, level - 1, Above(c, level - 1)))
      <4>1. CASE level = 0
          BY <2>2, <4>1
      <4>2. CASE level # 0
        <5>1. PICK j \in Nat : level = j + 1
          <6>1. level - 1 \in Nat /\ level = (level - 1) + 1
              BY <4>2
          <6> QED
              BY <6>1
        <5>2. j = level - 1 /\ j + 1 <= depth
            BY <5>1
        <5> HIDE DEF c, z, f
        <5> QED
            BY <2>3, <4>2, <5>1, <5>2
      <4> QED
          BY <4>1, <4>2
    <3>2. \A level \in 0..depth : level # 0 => level - 1 \in 0..depth
        OBVIOUS
    <3> HIDE DEF c, z, f
    <3> QED
        BY <3>1, <3>2
  <2> HIDE DEF c, z, f
  <2>5. node = at(node)
      BY <2>4
  <2> HIDE DEF node
  <2>6. \A level \in 0..depth : node[level] = IF level = 0 THEN z[0] ELSE turn(level, node[level - 1])
      BY <2>5
  <2> DEFINE S == {h \in Nat : h <= depth => node[h] = RefNode(leaves, zero, h, Above(c, h))}
  <2>7. 0 \in S
      BY <2>2, <2>6
  <2>8. ASSUME NEW h \in Nat, h \in S PROVE h + 1 \in S
    <3> SUFFICES ASSUME h + 1 <= depth
                 PROVE  node[h + 1] = RefNode(leaves, zero, h + 1, Above(c, h + 1))
        OBVIOUS
    <3>1. h <= depth /\ h + 1 \in 0..depth /\ h + 1 # 0 /\ (h + 1) - 1 = h
        OBVIOUS
    <3>2. node[h] = RefNode(leaves, zero, h, Above(c, h))
        BY <2>8, <3>1
    <3> QED
        BY <2>3, <2>6, <3>1, <3>2
  <2> HIDE DEF S
  <2>9. Nat \subseteq S
      BY <2>7, <2>8, SetInduction
  <2>10. node[depth] = RefNode(leaves, zero, depth, Above(c, depth))
      BY <2>9 DEF S
  <2>11. Above(c, depth) = 0
      BY <2>1, AboveTop DEF c
  <2> QED
      BY <1>4, <1>6, <2>10, <2>11 DEF RefRoot, f
<1> QED
    BY <1>5, <1>6

-----------------------------------------------------------------------------
\* `next_leaf_frontier` of the two forms of tree.
LEMMA NextLeafIsRef ==
    ASSUME NEW depth \in Nat, NEW height, NEW S, NEW leaves \in Seq(S), NEW zero
    PROVE  FrontierNextLeaf(RefFrontier(depth, height, leaves, zero), zero)
             = ImtNextLeafFrontier(RefTree(depth, zero, leaves), zero)
<1> DEFINE f == RefFrontier(depth, height, leaves, zero)
           t == RefTree(depth, zero, leaves)
           c == Len(leaves)
<1>1. f.depth = depth /\ f.count = c /\ t.depth = depth /\ ImtLeafCount(t) = c /\ c \in Nat
  <2>1. t.nodes[0] = leaves
      BY ReadLeaves
  <2> QED
      BY <2>1, LenProperties DEF RefFrontier, RefTree, ImtLeafCount, ImtLeaves
<1>2. ASSUME NEW k \in 1..depth
      PROVE  (IF Bit(c, k - 1) = 0 THEN zero ELSE f.slots[k - 1])
               = IF Above(c, k - 1) % 2 = 1 THEN At(t.nodes[k - 1], Above(c, k - 1) - 1) ELSE zero
  <2>1. PICK h \in 0..depth : h = k - 1
      OBVIOUS
  <2>2. h \in Nat /\ Bit(c, h) \in {0, 1} /\ Bit(c, h) = Above(c, h) % 2 /\ Above(c, h) \in Nat
    <3>1. h \in Nat
        BY <2>1
    <3> QED
        BY <1>1, <3>1, BitOfPath, AboveStep
  <2>3. CASE Bit(c, h) = 0
      BY <2>1, <2>2, <2>3
  <2>4. CASE Bit(c, h) = 1
    <3> DEFINE p == Above(c, h)
    <3>1. f.slots[h] = RefNode(leaves, zero, h, p - 1)
        BY <2>4, ReadSlot
    <3>2. Ceil(c, h) \in {p, p + 1}
        BY <1>1, <2>2, CeilAbove
    <3>3. \A i \in 1..Width(depth, leaves, h) : t.nodes[h][i] = RefNode(leaves, zero, h, i - 1)
        BY ReadTree
    <3>4. p # 0
        BY <2>2, <2>4
    <3>5. leaves # <<>>
      <4> SUFFICES ASSUME leaves = <<>> PROVE FALSE
          OBVIOUS
      <4>1. c = 0
          BY EmptySeq
      <4>2. Ceil(0, h) = 0
        <5>1. 0 \in Nat /\ 0 <= 0
            OBVIOUS
        <5> QED
            BY <2>2, <5>1, CeilBounds
      <4> HIDE DEF p, c
      <4> QED
          BY <2>2, <3>2, <3>4, <4>1, <4>2 DEF p
    <3>6. Width(depth, leaves, h) = Ceil(c, h)
        BY <3>5 DEF Width
    <3> HIDE DEF p, c, f, t
    <3>7. p \in 1..Width(depth, leaves, h) /\ (p - 1) + 1 = p
        BY <2>2, <3>2, <3>4, <3>6 DEF p
    <3>8. At(t.nodes[h], p - 1) = RefNode(leaves, zero, h, p - 1)
        BY <3>3, <3>7 DEF At
    <3> QED
        BY <2>1, <2>2, <2>4, <3>1, <3>8 DEF p
  <2> QED
      BY <2>2, <2>3, <2>4
<1>3. FrontierNextLeaf(f, zero)
        = [k \in 1..depth |-> IF Bit(c, k - 1) = 0 THEN zero ELSE f.slots[k - 1]]
  <2> HIDE DEF f, c
  <2> QED
      BY <1>1 DEF FrontierNextLeaf
<1>4. ImtNextLeafFrontier(t, zero)
        = [k \in 1..depth |-> IF Above(c, k - 1) % 2 = 1
                              THEN At(t.nodes[k - 1], Above(c, k - 1) - 1) ELSE zero]
  <2> HIDE DEF t, c
  <2> QED
      BY <1>1 DEF ImtNextLeafFrontier, Above
<1> HIDE DEF f, t, c
<1>5. FrontierNextLeaf(f, zero) = ImtNextLeafFrontier(t, zero)
    BY <1>2, <1>3, <1>4
<1> QED
    BY <1>5 DEF f, t

\* `append_with_siblings`: the siblings of the new leaf in the tree after it.
LEMMA AppendSiblingsIsRef ==
    ASSUME NEW depth \in Nat, NEW height, NEW S, NEW leaves \in Seq(S), NEW zero, NEW leaf \in S
    PROVE  AppendSiblings(RefFrontier(depth, height, leaves, zero), zero)
             = ImtSiblings(RefTree(depth, zero, Append(leaves, leaf)), Len(leaves))
<1> DEFINE f == RefFrontier(depth, height, leaves, zero)
           new == Append(leaves, leaf)
           t == RefTree(depth, zero, new)
           c == Len(leaves)
           z == ZeroRootsFrom(depth, zero)
           s == ImtSiblings(t, c)
<1>1. f.depth = depth /\ f.count = c /\ c \in Nat
    BY LenProperties DEF RefFrontier
<1>2. new \in Seq(S) /\ Len(new) = c + 1 /\ Continued(leaves, new, zero)
    BY AppendContinues
<1>3. AppendSiblings(f, zero)
        = [k \in 1..depth |-> IF Bit(c, k - 1) = 0 THEN z[k - 1] ELSE f.slots[k - 1]]
  <2> HIDE DEF f, c, z
  <2> QED
      BY <1>1 DEF AppendSiblings, z
<1>4. s = [k \in 1..depth |-> s[k]]
  <2>1. t.depth = depth
      BY DEF RefTree
  <2> HIDE DEF t, c
  <2>2. IsRow(ImtSiblings(t, c), depth)
      BY <2>1, SiblingsAreRow
  <2> QED
      BY <2>2 DEF IsRow
<1>5. \A h \in Nat : h + 1 <= depth => s[h + 1] = RefNode(new, zero, h, Sibling(Above(c, h)))
  <2> HIDE DEF new
  <2>1. AreSiblings(ImtSiblings(RefTree(depth, zero, new), c), new, zero, c, depth)
      BY <1>1, <1>2, SiblingsAreRef
  <2> QED
      BY <2>1 DEF AreSiblings
<1>6. \A h \in 0..depth : z[h] = EmptyNode(zero, h)
    BY ZeroRoots
<1> HIDE DEF s, t, z, new
<1>7. ASSUME NEW k \in 1..depth
      PROVE  (IF Bit(c, k - 1) = 0 THEN z[k - 1] ELSE f.slots[k - 1]) = s[k]
  <2>1. PICK h \in 0..depth : h = k - 1 /\ k = h + 1 /\ h \in Nat
      OBVIOUS
  <2> DEFINE p == Above(c, h)
             q == Above(c, h + 1)
  <2>2. /\ Bit(c, h) \in {0, 1} /\ q \in Nat /\ p = 2 * q + Bit(c, h) /\ p \in Nat
      BY <1>1, <2>1, BitOfPath, AboveStep
  <2>3. s[k] = RefNode(new, zero, h, Sibling(p))
      BY <1>5, <2>1
  <2>4. CASE Bit(c, h) = 0
    <3>1. Ceil(c + 1, h) = p + 1
        BY <1>1, <2>1, CeilAbove
    <3> HIDE DEF p, q
    <3>2. Sibling(p) = p + 1 /\ p + 1 \in Nat
        BY <2>2, <2>4 DEF Sibling
    <3> DEFINE i == p + 1
    <3>3. i \in Nat /\ i >= Ceil(Len(new), h) /\ Len(new) \in Nat
        BY <1>1, <1>2, <3>1, <3>2
    <3> HIDE DEF i
    <3>4. RefNode(new, zero, h, i) = EmptyNode(zero, h)
        BY <2>1, <3>3, RefNodePadding
    <3> QED
        BY <1>6, <2>1, <2>3, <2>4, <3>2, <3>4 DEF i
  <2>5. CASE Bit(c, h) = 1
    <3>1. f.slots[h] = RefNode(leaves, zero, h, p - 1)
        BY <2>1, <2>5, ReadSlot
    <3> HIDE DEF p, q, f
    <3>2. Sibling(p) = p - 1 /\ p - 1 \in Nat /\ p - 1 < p
        BY <2>2, <2>5 DEF Sibling
    <3>3. \A i \in Nat : i < p => RefNode(new, zero, h, i) = RefNode(leaves, zero, h, i)
        BY <1>1, <1>2, <2>1, ContinuedNodes DEF p
    <3>4. RefNode(new, zero, h, p - 1) = RefNode(leaves, zero, h, p - 1)
        BY <3>2, <3>3
    <3>5. f.slots[h] = s[k]
        BY <2>3, <3>1, <3>2, <3>4
    <3> QED
        BY <2>1, <2>5, <3>5
  <2> QED
      BY <2>2, <2>4, <2>5
<1> HIDE DEF f, c
<1>8. AppendSiblings(f, zero) = s
    BY <1>3, <1>4, <1>7
<1> QED
    BY <1>8 DEF f, s, t, new, c

-----------------------------------------------------------------------------
\* A stored snapshot has a node exactly at the set bits.
LEMMA SnapshotFields ==
    ASSUME NEW depth \in Nat, NEW height, NEW leaves, NEW zero
    PROVE  LET s == EncodeSnapshot(RefFrontier(depth, height, leaves, zero))
           IN  /\ s = [depth |-> depth, height |-> height, count |-> Len(leaves), slots |-> s.slots]
               /\ s.slots = [k \in 1..(depth + 1) |-> s.slots[k]]
<1> DEFINE f == RefFrontier(depth, height, leaves, zero)
           s == EncodeSnapshot(f)
           c == Len(leaves)
           slots == [k \in 1..(depth + 1) |->
                       IF (k - 1) \in DOMAIN f.slots
                       THEN [present |-> TRUE, node |-> f.slots[k - 1]]
                       ELSE [present |-> FALSE]]
<1>1. /\ f.depth = depth /\ f.height = height /\ f.count = c
      /\ DOMAIN f.slots = OccupiedLevels(c, depth)
      /\ \A level \in OccupiedLevels(c, depth) :
            f.slots[level] = RefNode(leaves, zero, level, Above(c, level) - 1)
    BY FrontierFields
<1> HIDE DEF f, c
<1>2. s = [depth |-> depth, height |-> height, count |-> c, slots |-> slots]
    BY <1>1 DEF EncodeSnapshot
<1>3. slots = [k \in 1..(depth + 1) |-> slots[k]]
    OBVIOUS
<1> HIDE DEF slots
<1>4. s.slots = slots
    BY <1>2
<1> HIDE DEF s
<1> QED
    BY <1>2, <1>3, <1>4 DEF s, f, c

\* Its flags are the set bits, its nodes those of the slots.
LEMMA SnapshotSlots ==
    ASSUME NEW depth \in Nat, NEW height, NEW leaves, NEW zero
    PROVE  LET s == EncodeSnapshot(RefFrontier(depth, height, leaves, zero))
           IN  \A k \in 1..(depth + 1) :
                  /\ s.slots[k].present <=> Bit(Len(leaves), k - 1) = 1
                  /\ Bit(Len(leaves), k - 1) = 1
                        => s.slots[k].node = RefNode(leaves, zero, k - 1,
                                                     Above(Len(leaves), k - 1) - 1)
<1> DEFINE f == RefFrontier(depth, height, leaves, zero)
           s == EncodeSnapshot(f)
           c == Len(leaves)
           slots == [k \in 1..(depth + 1) |->
                       IF (k - 1) \in DOMAIN f.slots
                       THEN [present |-> TRUE, node |-> f.slots[k - 1]]
                       ELSE [present |-> FALSE]]
<1>1. /\ f.depth = depth /\ DOMAIN f.slots = OccupiedLevels(c, depth)
      /\ \A level \in OccupiedLevels(c, depth) :
            f.slots[level] = RefNode(leaves, zero, level, Above(c, level) - 1)
    BY FrontierFields
<1> HIDE DEF f, c
<1>2. s.slots = slots
    BY <1>1 DEF EncodeSnapshot
<1>3. \A k \in 1..(depth + 1) : (k - 1) \in OccupiedLevels(c, depth) <=> Bit(c, k - 1) = 1
    BY DEF OccupiedLevels
<1> DEFINE node(k) == RefNode(leaves, zero, k - 1, Above(c, k - 1) - 1)
<1>4. ASSUME NEW k \in 1..(depth + 1)
      PROVE  /\ slots[k].present <=> Bit(c, k - 1) = 1
             /\ Bit(c, k - 1) = 1 => slots[k].node = node(k)
  <2>1. CASE Bit(c, k - 1) = 1
    <3>1. (k - 1) \in OccupiedLevels(c, depth)
        BY <1>3, <2>1
    <3>2. f.slots[k - 1] = node(k)
        BY <1>1, <3>1
    <3>3. slots[k] = [present |-> TRUE, node |-> f.slots[k - 1]]
        BY <1>1, <3>1
    <3> HIDE DEF node, slots
    <3>4. slots[k].present = TRUE /\ slots[k].node = node(k)
        BY <3>2, <3>3
    <3> QED
        BY <2>1, <3>4
  <2>2. CASE Bit(c, k - 1) # 1
    <3>1. (k - 1) \notin DOMAIN f.slots
        BY <1>1, <1>3, <2>2
    <3>2. slots[k] = [present |-> FALSE]
        BY <3>1
    <3> HIDE DEF slots
    <3>3. slots[k].present = FALSE
        BY <3>2
    <3> QED
        BY <2>2, <3>3
  <2> QED
      BY <2>1, <2>2
<1> HIDE DEF s, slots
<1> QED
    BY <1>2, <1>4 DEF s, f, c, node

\* Restoring a snapshot gives the frontier it was taken of.
LEMMA DecodeIsRef ==
    ASSUME NEW depth \in Nat, NEW height, NEW leaves, NEW zero
    PROVE  DecodeSnapshot(EncodeSnapshot(RefFrontier(depth, height, leaves, zero)))
             = RefFrontier(depth, height, leaves, zero)
<1> DEFINE s == EncodeSnapshot(RefFrontier(depth, height, leaves, zero))
           c == Len(leaves)
           node(level) == RefNode(leaves, zero, level, Above(c, level) - 1)
<1>1. /\ s = [depth |-> depth, height |-> height, count |-> c, slots |-> s.slots]
      /\ s.slots = [k \in 1..(depth + 1) |-> s.slots[k]]
    BY SnapshotFields
<1> HIDE DEF s, node
<1>2. DOMAIN s.slots = 1..(depth + 1)
    BY <1>1
<1>3. \A k \in 1..(depth + 1) : /\ s.slots[k].present <=> Bit(c, k - 1) = 1
                                /\ Bit(c, k - 1) = 1 => s.slots[k].node = node(k - 1)
    BY SnapshotSlots DEF s, node
<1> DEFINE levels == {k - 1 : k \in {j \in DOMAIN s.slots : s.slots[j].present}}
<1>4. levels = OccupiedLevels(c, depth)
  <2>1. ASSUME NEW level \in levels PROVE level \in OccupiedLevels(c, depth)
    <3>1. PICK k \in 1..(depth + 1) : s.slots[k].present /\ level = k - 1
        BY <1>2, <2>1
    <3>2. Bit(c, level) = 1
        BY <1>3, <3>1
    <3>3. level \in 0..depth
        BY <3>1
    <3> QED
        BY <3>2, <3>3 DEF OccupiedLevels
  <2>2. ASSUME NEW level \in OccupiedLevels(c, depth) PROVE level \in levels
    <3>1. level \in 0..depth /\ Bit(c, level) = 1
        BY DEF OccupiedLevels
    <3>2. level + 1 \in 1..(depth + 1) /\ (level + 1) - 1 = level
        BY <3>1
    <3>3. s.slots[level + 1].present
        BY <1>3, <3>1, <3>2
    <3> QED
        BY <1>2, <3>2, <3>3
  <2> QED
      BY <2>1, <2>2
<1>5. \A level \in OccupiedLevels(c, depth) : s.slots[level + 1].node = node(level)
  <2> TAKE level \in OccupiedLevels(c, depth)
  <2>1. level \in 0..depth /\ Bit(c, level) = 1
      BY DEF OccupiedLevels
  <2>2. level + 1 \in 1..(depth + 1) /\ (level + 1) - 1 = level
      BY <2>1
  <2> QED
      BY <1>3, <2>1, <2>2
<1>6. DecodeSnapshot(s)
        = [depth |-> s.depth, height |-> s.height, count |-> s.count,
           slots |-> [level \in levels |-> s.slots[level + 1].node]]
    BY DEF DecodeSnapshot
<1> HIDE DEF levels
<1>7. [level \in levels |-> s.slots[level + 1].node]
        = [level \in OccupiedLevels(c, depth) |-> node(level)]
    BY <1>4, <1>5
<1>8. s.depth = depth /\ s.height = height /\ s.count = c
  <2> DEFINE slots == s.slots
  <2> HIDE DEF slots, c
  <2>1. s = [depth |-> depth, height |-> height, count |-> c, slots |-> slots]
      BY <1>1 DEF slots
  <2> QED
      BY <2>1
<1> QED
    BY <1>6, <1>7, <1>8 DEF RefFrontier, s, node

\* A snapshot whose leaf count or slots changed in storage is refused.
THEOREM ChangedIsRefused ==
    ASSUME NEW depth \in Nat, NEW height, NEW leaves, NEW zero, Len(leaves) \in Nat,
           Len(leaves) <= 2 ^ depth,
           NEW bytes \in ReadBack(EncodeSnapshot(RefFrontier(depth, height, leaves, zero))),
           SnapshotAccepted(bytes)
    PROVE  bytes = EncodeSnapshot(RefFrontier(depth, height, leaves, zero))
<1> DEFINE s == EncodeSnapshot(RefFrontier(depth, height, leaves, zero))
           c == Len(leaves)
<1>1. /\ s = [depth |-> depth, height |-> height, count |-> c, slots |-> s.slots]
      /\ DOMAIN s.slots = 1..(depth + 1)
      /\ \A k \in 1..(depth + 1) : s.slots[k].present <=> Bit(c, k - 1) = 1
  <2>1. /\ s = [depth |-> depth, height |-> height, count |-> c, slots |-> s.slots]
        /\ s.slots = [k \in 1..(depth + 1) |-> s.slots[k]]
      BY SnapshotFields
  <2> HIDE DEF s
  <2>2. DOMAIN s.slots = 1..(depth + 1)
      BY <2>1
  <2>3. \A k \in 1..(depth + 1) : s.slots[k].present <=> Bit(c, k - 1) = 1
      BY SnapshotSlots DEF s
  <2> QED
      BY <2>1, <2>2, <2>3
<1> HIDE DEF s
<1>2. s.depth = depth /\ s.count = c
  <2> DEFINE slots == s.slots
  <2> HIDE DEF slots, c
  <2>1. s = [depth |-> depth, height |-> height, count |-> c, slots |-> slots]
      BY <1>1 DEF slots
  <2> QED
      BY <2>1
<1>3. /\ bytes.count <= 2 ^ bytes.depth
      /\ \A k \in DOMAIN bytes.slots : bytes.slots[k].present <=> Bit(bytes.count, k - 1) = 1
    BY DEF SnapshotAccepted, TreeCapacity
<1>4. \/ bytes = s
      \/ \E m \in 0..(TreeCapacity(s.depth) + 1) : bytes = [s EXCEPT !.count = m]
      \/ \E k \in DOMAIN s.slots :
            bytes = [s EXCEPT !.slots[k] = IF @.present THEN [present |-> FALSE]
                                           ELSE [present |-> TRUE, node |-> Zero]]
    BY DEF ReadBack, s
<1>5. ASSUME NEW m \in 0..(TreeCapacity(s.depth) + 1), bytes = [s EXCEPT !.count = m]
      PROVE  bytes = s
  <2> DEFINE slots == s.slots
  <2>1. s = [depth |-> depth, height |-> height, count |-> c, slots |-> slots]
      BY <1>1
  <2> HIDE DEF slots, c
  <2>2. bytes = [depth |-> depth, height |-> height, count |-> m, slots |-> slots]
      BY <1>5, <2>1
  <2>3. m \in Nat
      BY <1>5
  <2>4. m <= 2 ^ depth
      BY <1>3, <2>2
  <2>5. \A l \in 0..depth : Bit(m, l) = Bit(c, l)
    <3> TAKE l \in 0..depth
    <3>1. l + 1 \in 1..(depth + 1) /\ (l + 1) - 1 = l /\ l \in Nat
        OBVIOUS
    <3>2. slots[l + 1].present <=> Bit(c, l) = 1
        BY <1>1, <3>1 DEF slots
    <3>3. slots[l + 1].present <=> Bit(m, l) = 1
        BY <1>1, <1>3, <2>2, <3>1 DEF slots
    <3>4. Bit(m, l) \in {0, 1} /\ Bit(c, l) \in {0, 1}
        BY <2>3, <3>1, BitOfPath DEF c
    <3> QED
        BY <3>2, <3>3, <3>4
  <2>6. m = c
      BY <2>3, <2>4, <2>5, EqualBits DEF c
  <2> QED
      BY <2>1, <2>2, <2>6
<1>6. ASSUME NEW k \in DOMAIN s.slots,
             bytes = [s EXCEPT !.slots[k] = IF @.present THEN [present |-> FALSE]
                                            ELSE [present |-> TRUE, node |-> Zero]]
      PROVE  FALSE
  <2> DEFINE slots == s.slots
             new == IF slots[k].present THEN [present |-> FALSE]
                    ELSE [present |-> TRUE, node |-> Zero]
             changed == [slots EXCEPT ![k] = new]
  <2>1. s = [depth |-> depth, height |-> height, count |-> c, slots |-> slots]
      BY <1>1
  <2>2. k \in DOMAIN slots /\ k \in 1..(depth + 1) /\ (slots[k].present <=> Bit(c, k - 1) = 1)
      BY <1>1
  <2>3. bytes = [s EXCEPT !.slots = changed]
      BY <1>6
  <2>4. new.present <=> ~slots[k].present
      OBVIOUS
  <2> HIDE DEF slots, c, new
  <2>5. DOMAIN changed = DOMAIN slots /\ changed[k] = new
      BY <2>2
  <2> HIDE DEF changed
  <2>6. bytes = [depth |-> depth, height |-> height, count |-> c, slots |-> changed]
      BY <2>1, <2>3
  <2>7. changed[k].present <=> Bit(c, k - 1) = 1
      BY <1>3, <2>2, <2>5, <2>6
  <2> QED
      BY <2>2, <2>4, <2>5, <2>7
<1> QED
    BY <1>4, <1>5, <1>6 DEF s

\* The roots of the first `n` shards, as the caller files them.
RefRoots(leaves, zero, height, n) ==
    [k \in 1..n |-> RefNode(leaves, zero, height, k - 1)]

\* The caller's roots stay complete: those it holds are still the roots of
\* their shards, and those just emitted follow without a gap.
LEMMA CollectIsRef ==
    ASSUME NEW old, NEW new, NEW height, NEW a, NEW b, a \in Nat, b \in Nat, a <= b,
           SameNodes(old, new, Zero, height, a)
    PROVE  Collect(RefRoots(old, Zero, height, a), CompletedShards(new, Zero, height, a, b))
             = RefRoots(new, Zero, height, b)
<1> DEFINE held == RefRoots(old, Zero, height, a)
           done == CompletedShards(new, Zero, height, a, b)
           Takes(k, c) == c \in DOMAIN done /\ done[c].shard = k - 1
<1>1. /\ DOMAIN done = 1..(b - a) /\ Len(done) = b - a
      /\ \A c \in 1..(b - a) : /\ done[c].shard = a + c - 1
                               /\ done[c].root = RefNode(new, Zero, height, a + c - 1)
  <2>1. done = [k \in 1..(b - a) |-> [shard |-> a + k - 1,
                                      root |-> RefNode(new, Zero, height, a + k - 1)]]
      BY DEF CompletedShards
  <2> HIDE DEF done
  <2>2. b - a \in Nat
      OBVIOUS
  <2> QED
      BY <2>1, <2>2
<1>2. Len(held) = a /\ \A k \in 1..a : held[k] = RefNode(old, Zero, height, k - 1)
  <2>1. held = [k \in 1..a |-> RefNode(old, Zero, height, k - 1)]
      BY DEF RefRoots
  <2> HIDE DEF held
  <2> QED
      BY <2>1
<1> HIDE DEF held, done
<1>3. ASSUME NEW k \in 1..b
      PROVE  (IF \E c \in DOMAIN done : done[c].shard = k - 1
              THEN done[CHOOSE c \in DOMAIN done : done[c].shard = k - 1].root
              ELSE GetOr(held, k - 1, Zero)) = RefNode(new, Zero, height, k - 1)
  <2>1. CASE k <= a
    <3>1. ~ \E c \in DOMAIN done : done[c].shard = k - 1
        BY <1>1, <2>1
    <3>2. GetOr(held, k - 1, Zero) = RefNode(old, Zero, height, k - 1)
      <4>1. k - 1 < Len(held) /\ (k - 1) + 1 = k /\ k \in 1..a
          BY <1>2, <2>1
      <4> QED
          BY <1>2, <4>1 DEF GetOr, At
    <3>3. k - 1 \in Nat /\ k - 1 < a
        BY <2>1
    <3> QED
        BY <3>1, <3>2, <3>3 DEF SameNodes
  <2>2. CASE k > a
    <3> DEFINE c == CHOOSE c \in DOMAIN done : done[c].shard = k - 1
    <3>1. k - a \in DOMAIN done /\ done[k - a].shard = k - 1
      <4>1. k - a \in 1..(b - a) /\ a + (k - a) - 1 = k - 1
          BY <2>2
      <4> QED
          BY <1>1, <4>1
    <3>2. c \in DOMAIN done /\ done[c].shard = k - 1
        BY <3>1
    <3> HIDE DEF c
    <3>3. c \in 1..(b - a) /\ a + c - 1 = k - 1
        BY <1>1, <3>2
    <3>4. done[c].root = RefNode(new, Zero, height, k - 1)
        BY <1>1, <3>3
    <3> QED
        BY <3>1, <3>4 DEF c
  <2> QED
      BY <2>1, <2>2
<1>4. Len(held) + Len(done) = b
    BY <1>1, <1>2
<1> QED
    BY <1>3, <1>4 DEF Collect, RefRoots, held, done

\* A frontier with the leaves and the shard roots it stands for.
IsExact(f, leaves, collected) ==
    \E depth \in Nat, height \in Nat :
        /\ ValidGeometry(depth, height)
        /\ leaves \in Seq(Leaves) /\ Len(leaves) <= 2 ^ depth
        /\ f = RefFrontier(depth, height, leaves, Zero)
        /\ collected = RefRoots(leaves, Zero, height, Above(Len(leaves), height))

\* The frontier, and the one in each stored snapshot, is that of its leaves.
FrontierInv ==
    /\ IsExact(frontier, log, roots)
    /\ \A checkpoint \in saved :
          \E f : /\ IsExact(f, checkpoint.log, checkpoint.roots)
                 /\ checkpoint.bytes = EncodeSnapshot(f)

\* A new frontier is that of no leaves.
LEMMA NewFrontierIsRef ==
    ASSUME NEW depth \in Nat, NEW height, NEW zero
    PROVE  FrontierNew(depth, height) = RefFrontier(depth, height, <<>>, zero)
<1>1. \A level \in 0..depth : Bit(0, level) = 0
  <2> TAKE level \in 0..depth
  <2>1. Above(0, level) = 0 /\ Bit(0, level) = Above(0, level) % 2
    <3>1. level \in Nat /\ 0 \in Nat
        OBVIOUS
    <3>2. 0 < 2 ^ level
        BY <3>1, PowerPositive
    <3> QED
        BY <3>1, <3>2, AboveTop, BitOfPath
  <2> QED
      BY <2>1
<1>2. OccupiedLevels(0, depth) = {}
    BY <1>1 DEF OccupiedLevels
<1>3. Len(<<>>) = 0
    OBVIOUS
<1>4. [level \in OccupiedLevels(Len(<<>>), depth) |->
           RefNode(<<>>, zero, level, Above(Len(<<>>), level) - 1)] = <<>>
    BY <1>2, <1>3
<1> QED
    BY <1>3, <1>4 DEF FrontierNew, RefFrontier

\* At the start nothing is held and nothing is stored.
LEMMA FrontierInitInv == FrontierInit => FrontierInv
<1> SUFFICES ASSUME FrontierInit PROVE FrontierInv
    OBVIOUS
<1>1. PICK depth \in 0..MaxFrontierDepth, height \in 0..MaxFrontierDepth :
         ValidGeometry(depth, height) /\ frontier = FrontierNew(depth, height)
    BY DEF FrontierInit
<1>2. depth \in Nat /\ height \in Nat /\ log = <<>> /\ roots = <<>> /\ saved = {}
    BY FrontierAssumption DEF FrontierInit
<1>3. log \in Seq(Leaves) /\ Len(log) = 0 /\ 0 <= 2 ^ depth
    BY <1>2, EmptySeq, PowerPositive
<1>4. frontier = RefFrontier(depth, height, log, Zero)
    BY <1>1, <1>2, NewFrontierIsRef
<1>5. Above(0, height) = 0
    BY <1>2, PowerPositive, AboveTop
<1>6. RefRoots(log, Zero, height, 0) = <<>>
    BY DEF RefRoots
<1>7. IsExact(frontier, log, roots)
    BY <1>1, <1>2, <1>3, <1>4, <1>5, <1>6 DEF IsExact
<1> QED
    BY <1>2, <1>7 DEF FrontierInv

\* Leaves appended to those of an exact frontier, one or a page of them, give
\* an exact frontier, and the roots emitted on the way complete the roots.
LEMMA TakenIsExact ==
    ASSUME NEW depth \in Nat, NEW height \in Nat, ValidGeometry(depth, height),
           NEW leaves \in Seq(Leaves), NEW new \in Seq(Leaves),
           Len(leaves) <= Len(new), Len(new) <= 2 ^ depth, Continued(leaves, new, Zero),
           NEW collected,
           collected = RefRoots(leaves, Zero, height, Above(Len(leaves), height)),
           NEW completed,
           completed = CompletedShards(new, Zero, height, Above(Len(leaves), height),
                                       Above(Len(new), height))
    PROVE  IsExact(RefFrontier(depth, height, new, Zero), new, Collect(collected, completed))
<1> DEFINE a == Above(Len(leaves), height)
           b == Above(Len(new), height)
<1>1. Len(leaves) \in Nat /\ Len(new) \in Nat
    BY LenProperties
<1>2. a \in Nat /\ b \in Nat /\ a <= b
    BY <1>1, AboveStep, AboveMonotone
<1>3. SameNodes(leaves, new, Zero, height, a)
    BY <1>1, ContinuedNodes DEF SameNodes
<1> HIDE DEF a, b
<1>4. Collect(RefRoots(leaves, Zero, height, a), CompletedShards(new, Zero, height, a, b))
        = RefRoots(new, Zero, height, b)
    BY <1>2, <1>3, CollectIsRef
<1> QED
    BY <1>4 DEF IsExact, a, b

\* `append` and `append_many` accept leaves that fit and report no failure.
LEMMA TookIsExact ==
    ASSUME NEW depth \in Nat, NEW height \in Nat, ValidGeometry(depth, height),
           log \in Seq(Leaves), Len(log) <= 2 ^ depth,
           roots = RefRoots(log, Zero, height, Above(Len(log), height)),
           NEW more \in Seq(Leaves), Len(log) + Len(more) <= 2 ^ depth,
           NEW step, Took(step, more),
           step = [frontier |-> RefFrontier(depth, height, log \o more, Zero),
                   completed |-> CompletedShards(log \o more, Zero, height,
                                    Above(Len(log), height), Above(Len(log \o more), height)),
                   ok |-> TRUE]
    PROVE  IsExact(frontier, log, roots)' /\ outcome' = "ok"
<1> DEFINE new == log \o more
           done == CompletedShards(new, Zero, height, Above(Len(log), height),
                                   Above(Len(new), height))
<1>1. new \in Seq(Leaves) /\ Len(new) = Len(log) + Len(more) /\ Len(more) \in Nat /\ Len(log) \in Nat
    BY LenProperties, ConcatProperties
<1>2. Continued(log, new, Zero)
  <2>1. Grown(log, more, Len(more)) = new
    <3>1. SubSeq(more, 1, Len(more)) = more
        BY SubSeqFull
    <3> QED
        BY <3>1 DEF Grown
  <2>2. Continued(log, Grown(log, more, Len(more)), Zero)
      BY <1>1, GrownContinues
  <2> QED
      BY <2>1, <2>2
<1>3. step = [frontier |-> RefFrontier(depth, height, new, Zero), completed |-> done, ok |-> TRUE]
    OBVIOUS
<1> HIDE DEF new, done
<1>4. step.frontier = RefFrontier(depth, height, new, Zero) /\ step.completed = done /\ step.ok = TRUE
    BY <1>3
<1>5. /\ frontier' = RefFrontier(depth, height, new, Zero) /\ log' = new
      /\ roots' = Collect(roots, done) /\ outcome' = "ok"
    BY <1>4 DEF Took, new
<1>6. IsExact(RefFrontier(depth, height, new, Zero), new, Collect(roots, done))
    BY <1>1, <1>2, TakenIsExact DEF done
<1>7. IsExact(frontier', log', roots')
    BY <1>5, <1>6
<1> QED
    BY <1>5, <1>7 DEF IsExact

\* A page is a sequence of leaves.
LEMMA PageIsSeq == \A more \in Pages : more \in Seq(Leaves)
<1> TAKE more \in Pages
<1>1. PICK n \in 0..MaxPage : more \in [1..n -> Leaves]
    BY DEF Pages
<1>2. n \in Nat
    BY FrontierAssumption
<1> QED
    BY <1>1, <1>2, SeqDef

\* The calls that append, accepted or refused.
LEMMA AppendsAreExact ==
    ASSUME IsExact(frontier, log, roots),
           \/ \E leaf \in Leaves : AppendOne(leaf)
           \/ \E more \in Pages : AppendMany(more)
    PROVE  /\ IsExact(frontier, log, roots)' /\ saved' = saved
           /\ outcome' # "ok" => frontier' = frontier
<1>1. PICK depth \in Nat, height \in Nat :
        /\ ValidGeometry(depth, height)
        /\ log \in Seq(Leaves) /\ Len(log) <= 2 ^ depth
        /\ frontier = RefFrontier(depth, height, log, Zero)
        /\ roots = RefRoots(log, Zero, height, Above(Len(log), height))
    BY DEF IsExact
<1>2. /\ height < depth /\ Len(log) \in Nat /\ 2 ^ depth \in Nat
      /\ frontier.depth = depth /\ frontier.count = Len(log)
    BY <1>1, LenProperties, PowerPositive, FrontierFields DEF ValidGeometry
<1>3. CASE TreeFull
  <2>1. frontier' = frontier /\ log' = log /\ roots' = roots /\ saved' = saved
      BY <1>3 DEF TreeFull
  <2>2. IsExact(frontier', log', roots')
      BY <2>1
  <2> QED
      BY <2>1, <2>2 DEF IsExact
<1>4. ASSUME NEW more \in Seq(Leaves), Len(log) + Len(more) <= 2 ^ depth, NEW step,
             Took(step, more),
             step = [frontier |-> RefFrontier(depth, height, log \o more, Zero),
                     completed |-> CompletedShards(log \o more, Zero, height,
                                      Above(Len(log), height), Above(Len(log \o more), height)),
                     ok |-> TRUE]
      PROVE  /\ IsExact(frontier, log, roots)' /\ saved' = saved /\ outcome' = "ok"
  <2>1. saved' = saved
      BY <1>4 DEF Took
  <2> QED
      BY <1>1, <1>4, <2>1, TookIsExact
<1>5. ASSUME NEW leaf \in Leaves, ~FrontierIsFull(frontier),
             Took(FrontierAppend(frontier, leaf), <<leaf>>)
      PROVE  /\ IsExact(frontier, log, roots)' /\ saved' = saved /\ outcome' = "ok"
  <2> DEFINE more == <<leaf>>
             new == Append(log, leaf)
  <2>1. Len(log) < 2 ^ depth
      BY <1>2, <1>5 DEF FrontierIsFull, TreeCapacity
  <2>2. more \in Seq(Leaves) /\ Len(more) = 1 /\ log \o more = new
      BY <1>1
  <2>3. /\ new \in Seq(Leaves) /\ Len(new) = Len(log) + 1
        /\ Continued(log, new, Zero) /\ GetOr(new, Len(log), Zero) = leaf
      BY <1>1, AppendContinues
  <2> HIDE DEF more, new
  <2>4. FrontierAppend(RefFrontier(depth, height, log, Zero), leaf)
          = [frontier |-> RefFrontier(depth, height, new, Zero),
             completed |-> CompletedShards(new, Zero, height, Above(Len(log), height),
                                           Above(Len(new), height)),
             ok |-> TRUE]
      BY <1>2, <2>1, <2>3, AppendIsRef
  <2>5. Len(log) + Len(more) <= 2 ^ depth
      BY <1>2, <2>1, <2>2
  <2>6. Took(FrontierAppend(frontier, leaf), more)
      BY <1>5 DEF more
  <2> QED
      BY <1>1, <1>4, <2>2, <2>4, <2>5, <2>6
<1>6. ASSUME NEW more \in Pages, Len(more) <= TreeCapacity(frontier.depth) - frontier.count,
             Took(FrontierAppendMany(frontier, more), more)
      PROVE  /\ IsExact(frontier, log, roots)' /\ saved' = saved /\ outcome' = "ok"
  <2>1. more \in Seq(Leaves) /\ Len(more) \in Nat
      BY PageIsSeq, LenProperties
  <2>2. Len(log) + Len(more) <= 2 ^ depth
      BY <1>2, <1>6, <2>1 DEF TreeCapacity
  <2>3. FrontierAppendMany(RefFrontier(depth, height, log, Zero), more)
          = [frontier |-> RefFrontier(depth, height, log \o more, Zero),
             completed |-> CompletedShards(log \o more, Zero, height,
                              Above(Len(log), height), Above(Len(log \o more), height)),
             ok |-> TRUE]
      BY <1>1, <1>2, <2>1, <2>2, AppendManyIsRef
  <2> QED
      BY <1>1, <1>4, <1>6, <2>1, <2>2, <2>3
<1>7. ASSUME NEW leaf \in Leaves, AppendOne(leaf)
      PROVE  TreeFull \/ (IsExact(frontier, log, roots)' /\ saved' = saved /\ outcome' = "ok")
    BY <1>5, <1>7 DEF AppendOne
<1>8. ASSUME NEW more \in Pages, AppendMany(more)
      PROVE  TreeFull \/ (IsExact(frontier, log, roots)' /\ saved' = saved /\ outcome' = "ok")
    BY <1>6, <1>8 DEF AppendMany
<1>9. TreeFull => outcome' # "ok" /\ frontier' = frontier
    BY DEF TreeFull
<1> QED
    BY <1>3, <1>7, <1>8, <1>9

\* A checkpoint holds the snapshot of an exact frontier.
CheckpointIsExact(checkpoint) ==
    \E f : IsExact(f, checkpoint.log, checkpoint.roots) /\ checkpoint.bytes = EncodeSnapshot(f)

\* A reorg restores the frontier of the checkpoint, or refuses its bytes.
LEMMA RestoreIsExact ==
    ASSUME FrontierInv, NEW checkpoint \in saved, NEW bytes \in ReadBack(checkpoint.bytes),
           Restore(checkpoint, bytes)
    PROVE  IsExact(frontier, log, roots)' /\ (outcome' # "ok" => frontier' = frontier)
<1>1. CASE SnapshotAccepted(bytes)
  <2>1. PICK f : IsExact(f, checkpoint.log, checkpoint.roots)
                 /\ checkpoint.bytes = EncodeSnapshot(f)
      BY DEF FrontierInv
  <2> DEFINE leaves == checkpoint.log
  <2>2. PICK depth \in Nat, height \in Nat :
          leaves \in Seq(Leaves) /\ Len(leaves) <= 2 ^ depth
          /\ f = RefFrontier(depth, height, leaves, Zero)
      BY <2>1 DEF IsExact
  <2>3. Len(leaves) \in Nat
      BY <2>2, LenProperties
  <2>4. bytes \in ReadBack(EncodeSnapshot(RefFrontier(depth, height, leaves, Zero)))
      BY <2>1, <2>2
  <2> HIDE DEF leaves
  <2>5. bytes = EncodeSnapshot(RefFrontier(depth, height, leaves, Zero))
      BY <1>1, <2>2, <2>3, <2>4, ChangedIsRefused
  <2>6. DecodeSnapshot(bytes) = f
      BY <2>2, <2>5, DecodeIsRef
  <2>7. frontier' = f /\ log' = leaves /\ roots' = checkpoint.roots /\ outcome' = "ok"
      BY <1>1, <2>6 DEF Restore, leaves
  <2>8. IsExact(frontier', log', roots')
      BY <2>1, <2>7 DEF leaves
  <2> QED
      BY <2>7, <2>8 DEF IsExact
<1>2. CASE ~SnapshotAccepted(bytes)
  <2>1. frontier' = frontier /\ log' = log /\ roots' = roots
      BY <1>2 DEF Restore
  <2>2. IsExact(frontier', log', roots')
      BY <2>1 DEF FrontierInv
  <2> QED
      BY <2>1, <2>2 DEF IsExact
<1> QED
    BY <1>1, <1>2

\* Every step keeps the frontier, and the one in each snapshot, exact, and a
\* call that fails leaves the frontier alone.
LEMMA FrontierStep ==
    ASSUME FrontierInv, [FrontierNext]_frontierVars
    PROVE  FrontierInv' /\ ((FrontierNext /\ outcome' # "ok") => frontier' = frontier)
<1>1. FrontierInv <=> /\ IsExact(frontier, log, roots)
                      /\ \A checkpoint \in saved : CheckpointIsExact(checkpoint)
    BY DEF FrontierInv, CheckpointIsExact
<1>2. ASSUME IsExact(frontier, log, roots)',
             \A checkpoint \in saved' : CheckpointIsExact(checkpoint)
      PROVE  FrontierInv'
    BY <1>2 DEF FrontierInv, CheckpointIsExact
<1>3. CASE (\E leaf \in Leaves : AppendOne(leaf)) \/ (\E more \in Pages : AppendMany(more))
  <2>1. /\ IsExact(frontier, log, roots)' /\ saved' = saved
        /\ outcome' # "ok" => frontier' = frontier
      BY <1>1, <1>3, AppendsAreExact
  <2> QED
      BY <1>1, <1>2, <2>1
<1>4. CASE Save
  <2> DEFINE kept == [bytes |-> EncodeSnapshot(frontier), log |-> log, roots |-> roots]
  <2>1. saved' = saved \cup {kept} /\ frontier' = frontier /\ log' = log /\ roots' = roots
      BY <1>4 DEF Save
  <2>2. kept.log = log /\ kept.roots = roots /\ kept.bytes = EncodeSnapshot(frontier)
      OBVIOUS
  <2> HIDE DEF kept
  <2>3. CheckpointIsExact(kept)
      BY <1>1, <2>2 DEF CheckpointIsExact
  <2>4. IsExact(frontier', log', roots')
      BY <1>1, <2>1
  <2>5. IsExact(frontier, log, roots)'
      BY <2>4 DEF IsExact
  <2>6. \A checkpoint \in saved' : CheckpointIsExact(checkpoint)
      BY <1>1, <2>1, <2>3
  <2> QED
      BY <1>2, <2>1, <2>5, <2>6
<1>5. ASSUME NEW checkpoint \in saved, NEW bytes \in ReadBack(checkpoint.bytes),
             Restore(checkpoint, bytes)
      PROVE  FrontierInv' /\ (outcome' # "ok" => frontier' = frontier)
  <2>1. IsExact(frontier, log, roots)' /\ (outcome' # "ok" => frontier' = frontier)
      BY <1>5, RestoreIsExact
  <2>2. saved' = saved
      BY <1>5 DEF Restore
  <2> QED
      BY <1>1, <1>2, <2>1, <2>2
<1>6. CASE UNCHANGED frontierVars
  <2>1. frontier' = frontier /\ log' = log /\ roots' = roots /\ saved' = saved
      BY <1>6 DEF frontierVars
  <2>2. IsExact(frontier', log', roots')
      BY <1>1, <2>1
  <2>3. IsExact(frontier, log, roots)'
      BY <2>2 DEF IsExact
  <2> QED
      BY <1>1, <1>2, <2>1, <2>3
<1> QED
    BY <1>3, <1>4, <1>5, <1>6 DEF FrontierNext

\* Whatever pages, snapshots and reorgs an indexer goes through, at any depth
\* and shard height its frontier is the function of its leaves that
\* `RefFrontier` states, and so is every snapshot it stored.
THEOREM FrontierInvariance == FrontierSpec => []FrontierInv
<1>1. FrontierInv /\ [FrontierNext]_frontierVars => FrontierInv'
    BY FrontierStep
<1> QED
    BY FrontierInitInv, <1>1, PTL DEF FrontierSpec

\* Such a frontier gives the root of its leaves, has handed out the roots of
\* its completed shards, and returns the siblings `Imt` would return.
LEMMA ExactHolds == FrontierInv => FrontierIsExact
<1> SUFFICES ASSUME FrontierInv PROVE FrontierIsExact
    OBVIOUS
<1>1. PICK depth \in Nat, height \in Nat :
        /\ ValidGeometry(depth, height)
        /\ log \in Seq(Leaves) /\ Len(log) <= 2 ^ depth
        /\ frontier = RefFrontier(depth, height, log, Zero)
        /\ roots = RefRoots(log, Zero, height, Above(Len(log), height))
    BY DEF FrontierInv, IsExact
<1>2. /\ Len(log) \in Nat
      /\ frontier.depth = depth /\ frontier.height = height /\ frontier.count = Len(log)
      /\ DOMAIN frontier.slots = OccupiedLevels(Len(log), depth)
    BY <1>1, LenProperties, FrontierFields
<1>3. RootMatchesReference
    BY <1>1, <1>2, FrontierRootIsRef DEF RootMatchesReference
<1>4. ShardRootsExact
    BY <1>1, <1>2 DEF ShardRootsExact, ShardCount, RefRoots, Above
<1>5. SlotsFollowCount
    BY <1>2 DEF SlotsFollowCount, OccupiedLevels
<1>6. SiblingsMatchImt
  <2> DEFINE t == RefTree(depth, Zero, log)
  <2>1. ImtFromLeaves(frontier.depth, Zero, log) = t
      BY <1>1, <1>2, BuiltIsRef
  <2>2. FrontierNextLeaf(frontier, Zero) = ImtNextLeafFrontier(t, Zero)
      BY <1>1, NextLeafIsRef
  <2>3. ASSUME NEW leaf \in Leaves
        PROVE  AppendSiblings(frontier, Zero) = ImtSiblings(ImtInsert(t, leaf), frontier.count)
    <3>1. AppendSiblings(frontier, Zero)
            = ImtSiblings(RefTree(depth, Zero, Append(log, leaf)), Len(log))
        BY <1>1, AppendSiblingsIsRef
    <3>2. ImtInsert(t, leaf) = RefTree(depth, Zero, Append(log, leaf))
        BY <1>1, InsertIsRef
    <3> QED
        BY <1>2, <3>1, <3>2
  <2> QED
      BY <2>1, <2>2, <2>3 DEF SiblingsMatchImt
<1> QED
    BY <1>3, <1>4, <1>5, <1>6 DEF FrontierIsExact

\* The notes frontier is exact across appends, pages, snapshots and reorgs:
\* its root, its shard roots, its slots and the siblings it returns are those
\* of the flat tree over the same leaves.
THEOREM FrontierStaysExact == FrontierSpec => []FrontierIsExact
    BY FrontierInvariance, ExactHolds, PTL

\* No call of the frontier stops half way: one that reports `TreeFull` or
\* `InvalidSnapshot` leaves the frontier as it was.
THEOREM FailuresChangeNothing == FrontierSpec => [][FailedAppendsChangeNothing]_frontierVars
<1>1. FrontierInv /\ [FrontierNext]_frontierVars => [FailedAppendsChangeNothing]_frontierVars
    BY FrontierStep DEF FailedAppendsChangeNothing
<1> QED
    BY FrontierInvariance, <1>1, PTL DEF FrontierSpec

(***************************************************************************)
(* The batches appended to a notes tree and the inputs built for them      *)
(* (PendingCommitments): in all three forms the tree is the reference tree *)
(* over a list of leaves, distinct in the indexed form.                    *)
(***************************************************************************)

\* A list with one more element: what holds of each element.
LEMMA ReadAppend ==
    ASSUME NEW S, NEW row \in Seq(S), NEW leaf \in S
    PROVE  /\ Append(row, leaf) \in Seq(S) /\ Len(Append(row, leaf)) = Len(row) + 1
           /\ Append(row, leaf)[Len(row) + 1] = leaf
           /\ \A k \in 1..Len(row) : Append(row, leaf)[k] = row[k]
           /\ DOMAIN Append(row, leaf) = 1..(Len(row) + 1)
           /\ Range(Append(row, leaf)) = Range(row) \cup {leaf}
           /\ IsInjective(Append(row, leaf)) <=> (IsInjective(row) /\ leaf \notin Range(row))
<1> DEFINE n == Len(row)
           new == Append(row, leaf)
<1>1. n \in Nat /\ DOMAIN row = 1..n
    BY LenProperties
<1>2. new \in Seq(S) /\ Len(new) = n + 1
    BY <1>1
<1>3. new[n + 1] = leaf /\ \A k \in 1..n : new[k] = row[k]
    BY <1>1
<1>4. DOMAIN new = 1..(n + 1)
    BY <1>2, LenProperties
<1> HIDE DEF new, n
<1>5. 1..(n + 1) = (1..n) \cup {n + 1} /\ n + 1 \notin 1..n
    BY <1>1
<1>6. Range(new) = Range(row) \cup {leaf}
    BY <1>1, <1>3, <1>4, <1>5 DEF Range
<1>7. IsInjective(new) <=> (IsInjective(row) /\ leaf \notin Range(row))
    BY <1>1, <1>3, <1>4, <1>5 DEF IsInjective, Range
<1> QED
    BY <1>2, <1>3, <1>4, <1>6, <1>7 DEF new, n

\* Two lists joined: what holds of each element.
LEMMA ReadConcat ==
    ASSUME NEW S, NEW row \in Seq(S), NEW more \in Seq(S)
    PROVE  /\ row \o more \in Seq(S) /\ Len(row \o more) = Len(row) + Len(more)
           /\ \A k \in 1..Len(row) : (row \o more)[k] = row[k]
           /\ \A k \in 1..Len(more) : (row \o more)[Len(row) + k] = more[k]
           /\ Range(row \o more) = Range(row) \cup Range(more)
           /\ IsInjective(row \o more) <=>
                 (IsInjective(row) /\ IsInjective(more) /\ Range(row) \cap Range(more) = {})
<1> DEFINE m == Len(row)
           n == Len(more)
           w == row \o more
<1>1. m \in Nat /\ n \in Nat /\ DOMAIN row = 1..m /\ DOMAIN more = 1..n
    BY LenProperties
<1>2. w \in Seq(S) /\ Len(w) = m + n
      /\ \A k \in 1..(m + n) : w[k] = IF k <= m THEN row[k] ELSE more[k - m]
    BY ConcatProperties
<1>3. DOMAIN w = 1..(m + n)
    BY <1>2, LenProperties
<1> HIDE DEF w, m, n
<1>4. \A k \in 1..m : k \in 1..(m + n) /\ w[k] = row[k]
    BY <1>1, <1>2
<1>5. \A k \in 1..n : m + k \in 1..(m + n) /\ w[m + k] = more[k]
    BY <1>1, <1>2
<1>6. \A j \in 1..(m + n) : j \in 1..m \/ \E k \in 1..n : j = m + k
  <2> TAKE j \in 1..(m + n)
  <2>1. j \in 1..m \/ (j - m \in 1..n /\ j = m + (j - m))
      BY <1>1
  <2> QED
      BY <2>1
<1>7. Range(w) = Range(row) \cup Range(more)
  <2>1. Range(w) = {w[j] : j \in 1..(m + n)}
        /\ Range(row) = {row[j] : j \in 1..m} /\ Range(more) = {more[j] : j \in 1..n}
      BY <1>1, <1>3 DEF Range
  <2>2. \A j \in 1..(m + n) : w[j] \in Range(row) \cup Range(more)
    <3> TAKE j \in 1..(m + n)
    <3>1. CASE j \in 1..m
        BY <1>4, <2>1, <3>1
    <3>2. CASE j \notin 1..m
      <4>1. PICK k \in 1..n : j = m + k
          BY <1>6, <3>2
      <4> QED
          BY <1>5, <2>1, <4>1
    <3> QED
        BY <3>1, <3>2
  <2>3. \A j \in 1..m : row[j] \in Range(w)
    <3> TAKE j \in 1..m
    <3>1. j \in 1..(m + n) /\ row[j] = w[j]
        BY <1>4
    <3> QED
        BY <2>1, <3>1
  <2>4. \A j \in 1..n : more[j] \in Range(w)
    <3> TAKE j \in 1..n
    <3>1. m + j \in 1..(m + n) /\ more[j] = w[m + j]
        BY <1>5
    <3> QED
        BY <2>1, <3>1
  <2> QED
      BY <2>1, <2>2, <2>3, <2>4
<1>8. IsInjective(w) => IsInjective(row) /\ IsInjective(more) /\ Range(row) \cap Range(more) = {}
  <2> SUFFICES ASSUME IsInjective(w)
               PROVE  IsInjective(row) /\ IsInjective(more) /\ Range(row) \cap Range(more) = {}
      OBVIOUS
  <2>1. IsInjective(row)
      BY <1>1, <1>3, <1>4 DEF IsInjective
  <2>2. IsInjective(more)
    <3> SUFFICES ASSUME NEW i \in 1..n, NEW j \in 1..n, more[i] = more[j] PROVE i = j
        BY <1>1 DEF IsInjective
    <3>1. m + i = m + j
        BY <1>3, <1>5 DEF IsInjective
    <3> QED
        BY <1>1, <3>1
  <2>3. ASSUME NEW i \in 1..m, NEW j \in 1..n, row[i] = more[j] PROVE FALSE
    <3>1. i = m + j
        BY <1>3, <1>4, <1>5, <2>3 DEF IsInjective
    <3> QED
        BY <1>1, <3>1
  <2> QED
      BY <1>1, <2>1, <2>2, <2>3 DEF Range
<1>9. ASSUME IsInjective(row), IsInjective(more), Range(row) \cap Range(more) = {}
      PROVE  IsInjective(w)
  <2> SUFFICES ASSUME NEW i \in 1..(m + n), NEW j \in 1..(m + n), w[i] = w[j] PROVE i = j
      BY <1>3 DEF IsInjective
  <2>1. \A a \in 1..m, b \in 1..n : row[a] # more[b]
      BY <1>1, <1>9 DEF Range
  <2>2. \A a, b \in 1..m : row[a] = row[b] => a = b
      BY <1>1, <1>9 DEF IsInjective
  <2>3. \A a, b \in 1..n : more[a] = more[b] => a = b
      BY <1>1, <1>9 DEF IsInjective
  <2> QED
      BY <1>4, <1>5, <1>6, <2>1, <2>2, <2>3
<1> QED
    BY <1>2, <1>4, <1>5, <1>7, <1>8, <1>9 DEF w, m, n

\* One more element after two lists joined.  (The two operators have names so
\* that a step can use them without what they are.)
Longer(row, leaf) == Append(row, leaf)
Then(row, more) == row \o more

LEMMA AppendLast ==
    ASSUME NEW S, NEW row \in Seq(S), NEW more \in Seq(S), NEW leaf \in S
    PROVE  Then(row, Longer(more, leaf)) = Longer(Then(row, more), leaf)
<1> DEFINE w == row \o more
           a == Append(w, leaf)
           more1 == Append(more, leaf)
           b == row \o more1
           m == Len(row)
           n == Len(more)
<1>1. m \in Nat /\ n \in Nat
    BY LenProperties
<1>2. w \in Seq(S) /\ Len(w) = m + n
      /\ \A k \in 1..(m + n) : w[k] = IF k <= m THEN row[k] ELSE more[k - m]
    BY ConcatProperties
<1>3. more1 \in Seq(S) /\ Len(more1) = n + 1 /\ more1[n + 1] = leaf
      /\ \A k \in 1..n : more1[k] = more[k]
    BY ReadAppend
<1> HIDE DEF w, more1
<1>4. a \in Seq(S) /\ Len(a) = (m + n) + 1 /\ a[(m + n) + 1] = leaf
      /\ \A k \in 1..(m + n) : a[k] = w[k]
  <2>1. a \in Seq(S) /\ Len(a) = Len(w) + 1 /\ a[Len(w) + 1] = leaf
        /\ \A k \in 1..Len(w) : a[k] = w[k]
    <3>1. \A r \in Seq(S), l \in S :
             /\ Append(r, l) \in Seq(S) /\ Len(Append(r, l)) = Len(r) + 1
             /\ Append(r, l)[Len(r) + 1] = l
             /\ \A k \in 1..Len(r) : Append(r, l)[k] = r[k]
        BY ReadAppend
    <3> QED
        BY <1>2, <3>1, Zenon
  <2> HIDE DEF a
  <2> QED
      BY <1>2, <2>1
<1>5. b \in Seq(S) /\ Len(b) = m + (n + 1)
      /\ \A k \in 1..(m + (n + 1)) : b[k] = IF k <= m THEN row[k] ELSE more1[k - m]
  <2>1. /\ b \in Seq(S) /\ Len(b) = Len(row) + Len(more1)
        /\ \A k \in 1..Len(row) + Len(more1) :
              b[k] = IF k <= Len(row) THEN row[k] ELSE more1[k - Len(row)]
      BY <1>3, ConcatProperties
  <2>2. Len(more1) = n + 1
      BY <1>3
  <2> HIDE DEF n, b
  <2> QED
      BY <2>1, <2>2
<1> HIDE DEF a, b, m, n
<1>6. ASSUME NEW k \in 1..Len(a) PROVE a[k] = b[k]
  <2>1. k \in 1..((m + n) + 1) /\ k \in 1..(m + (n + 1))
      BY <1>1, <1>4
  <2>2. CASE k <= m
      BY <1>1, <1>2, <1>4, <1>5, <2>1, <2>2
  <2>3. CASE k > m /\ k <= m + n
    <3>1. k - m \in 1..n /\ k \in 1..(m + n) /\ ~(k <= m)
        BY <1>1, <2>1, <2>3
    <3>2. a[k] = more[k - m]
        BY <1>2, <1>4, <3>1
    <3>3. b[k] = more[k - m]
        BY <1>3, <1>5, <2>1, <3>1
    <3> QED
        BY <3>2, <3>3
  <2>4. CASE k = (m + n) + 1
    <3>1. k - m = n + 1 /\ ~(k <= m)
        BY <1>1, <2>4
    <3> QED
        BY <1>3, <1>4, <1>5, <2>1, <2>4, <3>1
  <2> QED
      BY <1>1, <2>1, <2>2, <2>3, <2>4
<1>7. Len(a) = Len(b)
    BY <1>1, <1>4, <1>5
<1>8. a = b
    BY <1>4, <1>5, <1>6, <1>7, SeqEqual
<1> QED
    BY <1>8 DEF a, b, w, more1, Then, Longer

\* The index of distinct leaves: each leaf is found where it is, and no other
\* function on the leaves does that.
LEMMA IndexOfLeaves ==
    ASSUME NEW S, NEW leaves \in Seq(S), IsInjective(leaves)
    PROVE  /\ DOMAIN IndexOf(leaves) = Range(leaves)
           /\ \A k \in 1..Len(leaves) : IndexOf(leaves)[leaves[k]] = k - 1
           /\ \A f : /\ f = [leaf \in Range(leaves) |-> f[leaf]]
                     /\ \A k \in 1..Len(leaves) : f[leaves[k]] = k - 1
                     => f = IndexOf(leaves)
<1>1. DOMAIN leaves = 1..Len(leaves)
    BY LenProperties
<1>2. DOMAIN IndexOf(leaves) = Range(leaves)
      /\ IndexOf(leaves) = [leaf \in Range(leaves) |-> IndexOf(leaves)[leaf]]
    BY DEF IndexOf
<1>3. ASSUME NEW k \in 1..Len(leaves) PROVE IndexOf(leaves)[leaves[k]] = k - 1
  <2>1. leaves[k] \in Range(leaves)
      BY <1>1 DEF Range
  <2>2. IndexOf(leaves)[leaves[k]] = (CHOOSE j \in DOMAIN leaves : leaves[j] = leaves[k]) - 1
      BY <2>1 DEF IndexOf
  <2>3. \A j \in DOMAIN leaves : leaves[j] = leaves[k] => j = k
      BY <1>1 DEF IsInjective
  <2>4. (CHOOSE j \in DOMAIN leaves : leaves[j] = leaves[k]) = k
      BY <1>1, <2>3
  <2> QED
      BY <2>2, <2>4
<1>4. ASSUME NEW f, f = [leaf \in Range(leaves) |-> f[leaf]],
             \A k \in 1..Len(leaves) : f[leaves[k]] = k - 1
      PROVE  f = IndexOf(leaves)
  <2>1. ASSUME NEW leaf \in Range(leaves) PROVE f[leaf] = IndexOf(leaves)[leaf]
    <3>1. PICK k \in 1..Len(leaves) : leaf = leaves[k]
        BY <1>1 DEF Range
    <3> QED
        BY <1>3, <1>4, <3>1
  <2> QED
      BY <1>2, <1>4, <2>1
<1> QED
    BY <1>2, <1>3, <1>4

\* The tree of a form over a list of leaves; only a frontier has a height.
TreeForms == {"indexed", "ordered", "frontier"}

TreeOf(form, depth, height, leaves) ==
    CASE form = "indexed" -> IndexedTree(RefTree(depth, ZeroId, leaves), IndexOf(leaves))
      [] form = "ordered" -> OrderedTree(RefTree(depth, ZeroId, leaves))
      [] form = "frontier" -> FrontierTree(RefFrontier(depth, height, leaves, ZeroId))

\* The lists of leaves a form holds.
IsHeld(form, depth, leaves) ==
    /\ leaves \in Seq(NoteIds) /\ Len(leaves) <= 2 ^ depth
    /\ form = "indexed" => IsInjective(leaves)

\* Whether a form takes some more leaves, all of them.
Takes(form, depth, leaves, more) ==
    /\ Len(leaves) + Len(more) <= 2 ^ depth
    /\ form = "indexed" => IsInjective(leaves \o more)

\* The parts of a tree, by its form.
LEMMA TreeParts ==
    ASSUME NEW depth, NEW height, NEW leaves
    PROVE  /\ LET t == TreeOf("indexed", depth, height, leaves)
              IN  /\ t = IndexedTree(RefTree(depth, ZeroId, leaves), IndexOf(leaves))
                  /\ t.form = "indexed" /\ t.tree = RefTree(depth, ZeroId, leaves)
                  /\ t.indices = IndexOf(leaves)
           /\ LET t == TreeOf("ordered", depth, height, leaves)
              IN  /\ t = OrderedTree(RefTree(depth, ZeroId, leaves))
                  /\ t.form = "ordered" /\ t.tree = RefTree(depth, ZeroId, leaves)
           /\ LET t == TreeOf("frontier", depth, height, leaves)
              IN  /\ t = FrontierTree(RefFrontier(depth, height, leaves, ZeroId))
                  /\ t.form = "frontier" /\ t.frontier = RefFrontier(depth, height, leaves, ZeroId)
    BY DEF TreeOf, IndexedTree, OrderedTree, FrontierTree

LEMMA RefTreeFields ==
    ASSUME NEW depth, NEW zero, NEW leaves
    PROVE  RefTree(depth, zero, leaves).depth = depth /\ RefTree(depth, zero, leaves).zero = zero
    BY DEF RefTree

\* What the readers of a tree return, in any form.
LEMMA ReadForm ==
    ASSUME NEW form \in TreeForms, NEW depth \in Nat, NEW height \in Nat, NEW leaves,
           IsHeld(form, depth, leaves), NEW t, t = TreeOf(form, depth, height, leaves)
    PROVE  /\ t.form = form /\ Depth(t) = depth /\ Count(t) = Len(leaves)
           /\ RootOf(t) = RefRoot(depth, ZeroId, leaves)
           /\ Room(t) = 2 ^ depth - Len(leaves)
           /\ NextLeafFrontier(t) = ImtNextLeafFrontier(RefTree(depth, ZeroId, leaves), ZeroId)
<1>1. leaves \in Seq(NoteIds) /\ Len(leaves) \in Nat /\ Len(leaves) <= 2 ^ depth
    BY LenProperties DEF IsHeld
<1> DEFINE imt == RefTree(depth, ZeroId, leaves)
           f == RefFrontier(depth, height, leaves, ZeroId)
<1>2. imt.depth = depth /\ imt.nodes[0] = leaves
      /\ ImtRoot(imt) = RefRoot(depth, ZeroId, leaves)
    BY <1>1, RefTreeFields, ReadLeaves, RootIsRef
<1>3. f.depth = depth /\ f.count = Len(leaves)
      /\ FrontierRoot(f, ZeroId) = RefRoot(depth, ZeroId, leaves)
      /\ FrontierNextLeaf(f, ZeroId) = ImtNextLeafFrontier(imt, ZeroId)
  <2>1. f.depth = depth /\ f.count = Len(leaves)
      BY FrontierFields
  <2>2. FrontierRoot(f, ZeroId) = RefRoot(depth, ZeroId, leaves)
      BY <1>1, FrontierRootIsRef
  <2>3. FrontierNextLeaf(f, ZeroId) = ImtNextLeafFrontier(imt, ZeroId)
      BY <1>1, NextLeafIsRef
  <2> QED
      BY <2>1, <2>2, <2>3
<1> HIDE DEF imt, f
<1>4. CASE form = "indexed"
  <2>1. t.form = "indexed" /\ t.tree = imt
      BY <1>4, TreeParts DEF imt
  <2> QED
      BY <1>2, <1>4, <2>1 DEF imt, Depth, Count, RootOf, Room, NextLeafFrontier, TreeCapacity,
             ImtLeafCount, ImtLeaves
<1>5. CASE form = "ordered"
  <2>1. t.form = "ordered" /\ t.tree = imt
      BY <1>5, TreeParts DEF imt
  <2> QED
      BY <1>2, <1>5, <2>1 DEF imt, Depth, Count, RootOf, Room, NextLeafFrontier, TreeCapacity,
             ImtLeafCount, ImtLeaves
<1>6. CASE form = "frontier"
  <2>1. t.form = "frontier" /\ t.frontier = f
      BY <1>6, TreeParts DEF f
  <2> QED
      BY <1>3, <1>6, <2>1 DEF imt, Depth, Count, RootOf, Room, NextLeafFrontier, TreeCapacity
<1> QED
    BY <1>4, <1>5, <1>6 DEF TreeForms

\* Only an indexed tree knows its leaves.
LEMMA HoldsLeaf ==
    ASSUME NEW form \in TreeForms, NEW depth \in Nat, NEW height \in Nat, NEW leaves,
           IsHeld(form, depth, leaves), NEW leaf
    PROVE  Holds(TreeOf(form, depth, height, leaves), leaf)
             <=> form = "indexed" /\ leaf \in Range(leaves)
<1> DEFINE t == TreeOf(form, depth, height, leaves)
<1>1. t.form = form
    BY ReadForm
<1>2. CASE form = "indexed"
  <2>1. IsInjective(leaves) /\ leaves \in Seq(NoteIds)
      BY <1>2 DEF IsHeld
  <2>2. t.indices = IndexOf(leaves)
      BY <1>2, TreeParts
  <2>3. DOMAIN IndexOf(leaves) = Range(leaves)
      BY <2>1, IndexOfLeaves
  <2> HIDE DEF t
  <2>4. Holds(t, leaf) <=> t.form = "indexed" /\ leaf \in DOMAIN t.indices
      BY DEF Holds
  <2> QED
      BY <1>1, <1>2, <2>2, <2>3, <2>4 DEF t
<1>3. CASE form # "indexed"
    BY <1>1, <1>3 DEF Holds
<1> QED
    BY <1>2, <1>3

\* A form takes one more leaf when there is room and an index has none like it.
LEMMA TakesOne ==
    ASSUME NEW form \in TreeForms, NEW depth \in Nat, NEW leaves, IsHeld(form, depth, leaves),
           NEW leaf \in NoteIds
    PROVE  /\ IsHeld(form, depth, Append(leaves, leaf))
                <=> /\ Len(leaves) < 2 ^ depth
                    /\ ~(form = "indexed" /\ leaf \in Range(leaves))
           /\ Append(leaves, leaf) \in Seq(NoteIds)
           /\ Len(Append(leaves, leaf)) = Len(leaves) + 1
<1>1. leaves \in Seq(NoteIds) /\ Len(leaves) \in Nat /\ Len(leaves) <= 2 ^ depth
      /\ (form = "indexed" => IsInjective(leaves)) /\ 2 ^ depth \in Nat
    BY LenProperties, PowerPositive DEF IsHeld
<1> DEFINE new == Append(leaves, leaf)
<1>2. new \in Seq(NoteIds) /\ Len(new) = Len(leaves) + 1
      /\ (IsInjective(new) <=> (IsInjective(leaves) /\ leaf \notin Range(leaves)))
    BY <1>1, ReadAppend
<1> HIDE DEF new
<1>3. Len(leaves) < 2 ^ depth <=> Len(new) <= 2 ^ depth
    BY <1>1, <1>2
<1>4. IsHeld(form, depth, new)
        <=> Len(new) <= 2 ^ depth /\ (form = "indexed" => IsInjective(new))
    BY <1>2 DEF IsHeld
<1> QED
    BY <1>1, <1>2, <1>3, <1>4 DEF new

\* `insert` refuses a leaf exactly when the form does not take it.
LEMMA InsertErrorIs ==
    ASSUME NEW form \in TreeForms, NEW depth \in Nat, NEW height \in Nat, NEW leaves,
           IsHeld(form, depth, leaves), NEW leaf \in NoteIds
    PROVE  InsertError(TreeOf(form, depth, height, leaves), leaf) = "ok"
             <=> IsHeld(form, depth, Append(leaves, leaf))
<1> DEFINE t == TreeOf(form, depth, height, leaves)
           holds == Holds(t, leaf)
           full == Room(t) <= 0
           broken == /\ t.form = "frontier" /\ Room(t) > 0
                     /\ ~FrontierAppend(t.frontier, leaf).ok
<1>1. leaves \in Seq(NoteIds) /\ Len(leaves) \in Nat /\ 2 ^ depth \in Nat
    BY LenProperties, PowerPositive DEF IsHeld
<1>2. t.form = form /\ Room(t) = 2 ^ depth - Len(leaves)
    BY ReadForm
<1>3. holds <=> form = "indexed" /\ leaf \in Range(leaves)
    BY HoldsLeaf
<1>4. full <=> ~(Len(leaves) < 2 ^ depth)
  <2> HIDE DEF t
  <2> QED
      BY <1>1, <1>2
<1>5. ~broken
  <2> SUFFICES ASSUME form = "frontier", Len(leaves) < 2 ^ depth
               PROVE  FrontierAppend(t.frontier, leaf).ok
    <3> HIDE DEF t
    <3> QED
        BY <1>1, <1>2
  <2>1. t.frontier = RefFrontier(depth, height, leaves, ZeroId)
      BY TreeParts
  <2> DEFINE new == Append(leaves, leaf)
  <2>2. Len(new) = Len(leaves) + 1 /\ Continued(leaves, new, ZeroId)
        /\ GetOr(new, Len(leaves), ZeroId) = leaf
      BY <1>1, AppendContinues
  <2> HIDE DEF new
  <2>3. FrontierAppend(RefFrontier(depth, height, leaves, ZeroId), leaf)
          = [frontier |-> RefFrontier(depth, height, new, ZeroId),
             completed |-> CompletedShards(new, ZeroId, height, Above(Len(leaves), height),
                                           Above(Len(new), height)),
             ok |-> TRUE]
      BY <1>1, <2>2, AppendIsRef
  <2> QED
      BY <2>1, <2>3
<1>6. InsertError(t, leaf)
        = CASE holds -> "DuplicateLeaf" [] ~holds /\ full -> "TreeFull"
            [] broken -> "InvalidSnapshot" [] OTHER -> "ok"
    BY DEF InsertError
<1> HIDE DEF t, holds, full, broken
<1>7. InsertError(t, leaf) = "ok" <=> ~holds /\ ~full
    BY <1>5, <1>6
<1>8. IsHeld(form, depth, Append(leaves, leaf))
        <=> Len(leaves) < 2 ^ depth /\ ~(form = "indexed" /\ leaf \in Range(leaves))
    BY TakesOne
<1> QED
    BY <1>3, <1>4, <1>7, <1>8 DEF t

\* The index after one more leaf.
LEMMA IndexAfterOne ==
    ASSUME NEW leaves \in Seq(NoteIds), NEW leaf \in NoteIds, IsInjective(Append(leaves, leaf))
    PROVE  [l \in DOMAIN IndexOf(leaves) \cup {leaf} |->
                IF l = leaf THEN Len(leaves) ELSE IndexOf(leaves)[l]]
             = IndexOf(Append(leaves, leaf))
<1> DEFINE new == Append(leaves, leaf)
           g == [l \in DOMAIN IndexOf(leaves) \cup {leaf} |->
                    IF l = leaf THEN Len(leaves) ELSE IndexOf(leaves)[l]]
           n == Len(leaves)
<1>1. /\ new \in Seq(NoteIds) /\ Len(new) = n + 1 /\ new[n + 1] = leaf
      /\ \A k \in 1..n : new[k] = leaves[k]
      /\ Range(new) = Range(leaves) \cup {leaf}
      /\ IsInjective(leaves) /\ leaf \notin Range(leaves)
    BY ReadAppend
<1>2. n \in Nat /\ DOMAIN leaves = 1..n
    BY LenProperties
<1>3. DOMAIN IndexOf(leaves) = Range(leaves)
      /\ \A k \in 1..n : IndexOf(leaves)[leaves[k]] = k - 1
    BY <1>1, IndexOfLeaves
<1> HIDE DEF new, n
<1>4. g = [l \in Range(new) |-> g[l]]
    BY <1>1, <1>3
<1>5. g[leaf] = n /\ \A l \in Range(leaves) : g[l] = IndexOf(leaves)[l]
    BY <1>1, <1>3 DEF n
<1> HIDE DEF g
<1>6. ASSUME NEW k \in 1..Len(new) PROVE g[new[k]] = k - 1
  <2>1. CASE k = n + 1
      BY <1>1, <1>2, <1>5, <2>1
  <2>2. CASE k \in 1..n
    <3>1. leaves[k] \in Range(leaves)
        BY <1>2, <2>2 DEF Range
    <3> QED
        BY <1>1, <1>3, <1>5, <2>2, <3>1
  <2> QED
      BY <1>1, <1>2, <2>1, <2>2
<1>7. g = IndexOf(new)
  <2>1. IsInjective(new)
      BY DEF new
  <2> QED
      BY <1>1, <1>4, <1>6, <2>1, IndexOfLeaves
<1> QED
    BY <1>7 DEF g, new, n

\* The index after a batch.
LEMMA IndexAfterMany ==
    ASSUME NEW leaves \in Seq(NoteIds), NEW more \in Seq(NoteIds), IsInjective(leaves \o more)
    PROVE  [l \in DOMAIN IndexOf(leaves) \cup Range(more) |->
                IF l \in Range(more) THEN Len(leaves) + IndexOf(more)[l] ELSE IndexOf(leaves)[l]]
             = IndexOf(leaves \o more)
<1> DEFINE new == leaves \o more
           g == [l \in DOMAIN IndexOf(leaves) \cup Range(more) |->
                    IF l \in Range(more) THEN Len(leaves) + IndexOf(more)[l]
                    ELSE IndexOf(leaves)[l]]
           m == Len(leaves)
           n == Len(more)
<1>1. /\ new \in Seq(NoteIds) /\ Len(new) = m + n
      /\ \A k \in 1..m : new[k] = leaves[k]
      /\ \A k \in 1..n : new[m + k] = more[k]
      /\ Range(new) = Range(leaves) \cup Range(more)
      /\ IsInjective(leaves) /\ IsInjective(more) /\ Range(leaves) \cap Range(more) = {}
    BY ReadConcat
<1>2. m \in Nat /\ DOMAIN leaves = 1..m /\ n \in Nat /\ DOMAIN more = 1..n
    BY LenProperties
<1>3. DOMAIN IndexOf(leaves) = Range(leaves)
      /\ \A k \in 1..m : IndexOf(leaves)[leaves[k]] = k - 1
    BY <1>1, IndexOfLeaves
<1>4. \A k \in 1..n : IndexOf(more)[more[k]] = k - 1
    BY <1>1, IndexOfLeaves
<1> HIDE DEF new, n, m
<1>5. g = [l \in Range(new) |-> g[l]]
    BY <1>1, <1>3
<1>6. \A l \in Range(more) : g[l] = m + IndexOf(more)[l]
    BY DEF m
<1>7. \A l \in Range(leaves) : g[l] = IndexOf(leaves)[l]
    BY <1>1, <1>3
<1> HIDE DEF g
<1>8. ASSUME NEW k \in 1..Len(new) PROVE g[new[k]] = k - 1
  <2>1. CASE k \in 1..m
    <3>1. leaves[k] \in Range(leaves)
        BY <1>2, <2>1 DEF Range
    <3> QED
        BY <1>1, <1>3, <1>7, <2>1, <3>1
  <2>2. CASE k \notin 1..m
    <3>1. k - m \in 1..n /\ m + (k - m) = k /\ m + ((k - m) - 1) = k - 1
        BY <1>1, <1>2, <2>2
    <3> DEFINE j == k - m
    <3>2. j \in 1..n /\ m + j = k /\ m + (j - 1) = k - 1
        BY <3>1
    <3> HIDE DEF j
    <3>3. more[j] \in Range(more) /\ new[m + j] = more[j] /\ IndexOf(more)[more[j]] = j - 1
        BY <1>1, <1>2, <1>4, <3>2 DEF Range
    <3> QED
        BY <1>6, <3>2, <3>3
  <2> QED
      BY <2>1, <2>2
<1>9. g = IndexOf(new)
  <2>1. IsInjective(new)
      BY DEF new
  <2> QED
      BY <1>1, <1>5, <1>8, <2>1, IndexOfLeaves
<1> QED
    BY <1>9 DEF g, new, m

\* A list cut in two.
LEMMA ReadCut ==
    ASSUME NEW S, NEW leaves \in Seq(S), NEW count \in 0..Len(leaves)
    PROVE  /\ SubSeq(leaves, 1, count) \in Seq(S)
           /\ Len(SubSeq(leaves, 1, count)) = count
           /\ \A k \in 1..count : SubSeq(leaves, 1, count)[k] = leaves[k]
           /\ Range(SubSeq(leaves, 1, count)) = {leaves[k] : k \in 1..count}
           /\ Range(SubSeq(leaves, count + 1, Len(leaves)))
                = {leaves[k] : k \in (count + 1)..Len(leaves)}
           /\ IsInjective(leaves) => IsInjective(SubSeq(leaves, 1, count))
<1> DEFINE n == Len(leaves)
           low == SubSeq(leaves, 1, count)
           high == SubSeq(leaves, count + 1, Len(leaves))
<1>1. n \in Nat /\ DOMAIN leaves = 1..n /\ \A k \in 1..n : leaves[k] \in S
    BY LenProperties, ElementOfSeq
<1>2. low = [k \in 1..count |-> leaves[k]]
    BY FirstPart
<1>3. low \in Seq(S) /\ Len(low) = count
  <2>1. /\ \A k \in 1..count : leaves[k] \in S
        /\ 1 \in Int /\ count \in Int
      BY <1>1
  <2> HIDE DEF low
  <2> DEFINE one == 1
  <2>2. one \in Int /\ \A k \in one..count : leaves[k] \in S
      BY <2>1
  <2> HIDE DEF one
  <2>3. /\ SubSeq(leaves, one, count) \in Seq(S)
        /\ Len(SubSeq(leaves, one, count)) = IF one <= count THEN count - one + 1 ELSE 0
      BY <2>1, <2>2, SubSeqProperties
  <2> QED
      BY <2>1, <2>3 DEF one, low
<1>4. /\ high \in Seq(S) /\ Len(high) = n - count
      /\ \A k \in 1..(n - count) : high[k] = leaves[count + k]
  <2> DEFINE first == count + 1
  <2>1. first \in Int /\ n \in Int /\ \A k \in first..n : leaves[k] \in S
      BY <1>1
  <2> HIDE DEF first, n, high
  <2>2. /\ SubSeq(leaves, first, n) \in Seq(S)
        /\ Len(SubSeq(leaves, first, n)) = IF first <= n THEN n - first + 1 ELSE 0
        /\ \A k \in 1..(n - first + 1) : SubSeq(leaves, first, n)[k] = leaves[first + k - 1]
      BY <2>1, SubSeqProperties
  <2>3. n - first + 1 = n - count /\ (IF first <= n THEN n - first + 1 ELSE 0) = n - count
        /\ \A k \in Nat : first + k - 1 = count + k
    <3>1. first = count + 1 /\ count \in Nat /\ count <= n
        BY <1>1 DEF first, n
    <3> QED
        BY <1>1, <3>1
  <2>4. high = SubSeq(leaves, first, n)
      BY DEF high, first, n
  <2>5. high \in Seq(S) /\ Len(high) = n - count
      BY <2>2, <2>3, <2>4
  <2>6. \A k \in 1..(n - count) : high[k] = leaves[first + k - 1]
      BY <2>2, <2>3, <2>4
  <2>7. \A k \in 1..(n - count) : first + k - 1 = count + k
      BY <2>3
  <2> QED
      BY <2>5, <2>6, <2>7
<1>5. Range(low) = {leaves[k] : k \in 1..count}
    BY <1>2 DEF Range
<1>6. Range(high) = {leaves[k] : k \in (count + 1)..n}
  <2>1. DOMAIN high = 1..(n - count)
      BY <1>1, <1>4, LenProperties
  <2> HIDE DEF high
  <2>2. ASSUME NEW k \in 1..(n - count) PROVE high[k] \in {leaves[j] : j \in (count + 1)..n}
    <3>1. count + k \in (count + 1)..n
        BY <1>1
    <3> QED
        BY <1>4, <3>1
  <2>3. ASSUME NEW j \in (count + 1)..n PROVE leaves[j] \in Range(high)
    <3>1. j - count \in 1..(n - count) /\ count + (j - count) = j
        BY <1>1
    <3>2. high[j - count] = leaves[j]
        BY <1>4, <3>1
    <3> QED
        BY <2>1, <3>1, <3>2 DEF Range
  <2> HIDE DEF n
  <2> QED
      BY <2>1, <2>2, <2>3 DEF Range
<1>7. IsInjective(leaves) => IsInjective(low)
  <2>1. 1..count \subseteq 1..n
      BY <1>1
  <2> QED
      BY <1>1, <1>2, <2>1 DEF IsInjective
<1> QED
    BY <1>2, <1>3, <1>5, <1>6, <1>7 DEF low, high, n

\* The index after the leaves from `count` on were taken back.
LEMMA IndexAfterCut ==
    ASSUME NEW leaves \in Seq(NoteIds), IsInjective(leaves), NEW count \in 0..Len(leaves)
    PROVE  [l \in DOMAIN IndexOf(leaves) \ Range(SubSeq(leaves, count + 1, Len(leaves))) |->
                IndexOf(leaves)[l]]
             = IndexOf(SubSeq(leaves, 1, count))
<1> DEFINE n == Len(leaves)
           low == SubSeq(leaves, 1, count)
           removed == Range(SubSeq(leaves, count + 1, Len(leaves)))
           g == [l \in DOMAIN IndexOf(leaves) \ removed |-> IndexOf(leaves)[l]]
<1>1. /\ low \in Seq(NoteIds) /\ Len(low) = count /\ \A k \in 1..count : low[k] = leaves[k]
      /\ Range(low) = {leaves[k] : k \in 1..count}
      /\ removed = {leaves[k] : k \in (count + 1)..n}
      /\ IsInjective(low)
    BY ReadCut
<1>2. n \in Nat /\ DOMAIN leaves = 1..n
    BY LenProperties
<1>3. DOMAIN IndexOf(leaves) = Range(leaves)
      /\ \A k \in 1..n : IndexOf(leaves)[leaves[k]] = k - 1
    BY IndexOfLeaves
<1> HIDE DEF low, removed, n
<1>4. Range(leaves) \ removed = Range(low)
  <2>1. Range(leaves) = {leaves[k] : k \in 1..n}
      BY <1>2 DEF Range
  <2>2. \A j, k \in 1..n : leaves[j] = leaves[k] => j = k
      BY <1>2 DEF IsInjective
  <2>3. 1..n = (1..count) \cup ((count + 1)..n) /\ (1..count) \cap ((count + 1)..n) = {}
      BY <1>2 DEF n
  <2>4. \A k \in 1..count : k \in 1..n /\ leaves[k] \notin removed
      BY <1>1, <2>2, <2>3
  <2> QED
      BY <1>1, <2>1, <2>3, <2>4
<1>5. g = [l \in Range(low) |-> g[l]] /\ \A l \in Range(low) : g[l] = IndexOf(leaves)[l]
    BY <1>3, <1>4
<1> HIDE DEF g
<1>6. ASSUME NEW k \in 1..Len(low) PROVE g[low[k]] = k - 1
  <2>1. k \in 1..count /\ k \in 1..n
      BY <1>1, <1>2 DEF n
  <2> QED
      BY <1>1, <1>3, <1>5, <2>1
<1>7. g = IndexOf(low)
    BY <1>1, <1>5, <1>6, IndexOfLeaves
<1> QED
    BY <1>7 DEF g, low, removed

\* `insert` of the leaf-holding forms.
LEMMA InsertedIs ==
    ASSUME NEW form \in {"indexed", "ordered"}, NEW depth \in Nat, NEW height \in Nat,
           NEW leaves, IsHeld(form, depth, leaves), NEW leaf \in NoteIds,
           IsHeld(form, depth, Append(leaves, leaf))
    PROVE  Inserted(TreeOf(form, depth, height, leaves), leaf)
             = TreeOf(form, depth, height, Append(leaves, leaf))
<1> DEFINE t == TreeOf(form, depth, height, leaves)
           new == Append(leaves, leaf)
<1>1. leaves \in Seq(NoteIds) /\ form \in TreeForms
    BY DEF IsHeld, TreeForms
<1>2. t.form = form /\ Count(t) = Len(leaves)
    BY <1>1, ReadForm
<1>3. ImtInsert(RefTree(depth, ZeroId, leaves), leaf) = RefTree(depth, ZeroId, new)
    BY <1>1, InsertIsRef
<1>4. CASE form = "ordered"
  <2>1. t.tree = RefTree(depth, ZeroId, leaves)
      BY <1>4, TreeParts
  <2>2. TreeOf(form, depth, height, new) = OrderedTree(RefTree(depth, ZeroId, new))
      BY <1>4, TreeParts
  <2> HIDE DEF t, new
  <2> QED
      BY <1>2, <1>3, <1>4, <2>1, <2>2 DEF Inserted, t, new
<1>5. CASE form = "indexed"
  <2>1. t.tree = RefTree(depth, ZeroId, leaves) /\ t.indices = IndexOf(leaves)
      BY <1>5, TreeParts
  <2>2. TreeOf(form, depth, height, new) = IndexedTree(RefTree(depth, ZeroId, new), IndexOf(new))
      BY <1>5, TreeParts
  <2>3. [l \in DOMAIN IndexOf(leaves) \cup {leaf} |->
            IF l = leaf THEN Len(leaves) ELSE IndexOf(leaves)[l]] = IndexOf(new)
    <3>1. IsInjective(new)
        BY <1>5 DEF IsHeld
    <3> QED
        BY <1>1, <3>1, IndexAfterOne
  <2> HIDE DEF t, new
  <2>4. Inserted(t, leaf)
          = IndexedTree(ImtInsert(t.tree, leaf),
                        [l \in DOMAIN t.indices \cup {leaf} |->
                            IF l = leaf THEN Count(t) ELSE t.indices[l]])
      BY <1>2, <1>5 DEF Inserted
  <2> QED
      BY <1>2, <1>3, <2>1, <2>2, <2>3, <2>4 DEF t, new
<1> QED
    BY <1>4, <1>5

\* One note more, in any form.
LEMMA WithIdIs ==
    ASSUME NEW form \in TreeForms, NEW depth \in Nat, NEW height \in Nat,
           NEW leaves, IsHeld(form, depth, leaves), NEW leaf \in NoteIds,
           IsHeld(form, depth, Append(leaves, leaf))
    PROVE  WithId(TreeOf(form, depth, height, leaves), leaf)
             = TreeOf(form, depth, height, Append(leaves, leaf))
<1> DEFINE t == TreeOf(form, depth, height, leaves)
           new == Append(leaves, leaf)
<1>1. t.form = form
    BY ReadForm
<1>2. CASE form # "frontier"
  <2>1. form \in {"indexed", "ordered"}
      BY <1>2 DEF TreeForms
  <2>2. Inserted(t, leaf) = TreeOf(form, depth, height, new)
      BY <2>1, InsertedIs
  <2> HIDE DEF t, new
  <2> QED
      BY <1>1, <1>2, <2>2 DEF WithId, t, new
<1>3. CASE form = "frontier"
  <2>1. leaves \in Seq(NoteIds) /\ Len(leaves) \in Nat /\ 2 ^ depth \in Nat
      BY LenProperties, PowerPositive DEF IsHeld
  <2>2. Len(leaves) < 2 ^ depth
      BY TakesOne
  <2>3. Len(new) = Len(leaves) + 1 /\ Continued(leaves, new, ZeroId)
        /\ GetOr(new, Len(leaves), ZeroId) = leaf
      BY <2>1, AppendContinues
  <2>4. t.frontier = RefFrontier(depth, height, leaves, ZeroId)
      BY <1>3, TreeParts
  <2>5. TreeOf(form, depth, height, new) = FrontierTree(RefFrontier(depth, height, new, ZeroId))
      BY <1>3, TreeParts
  <2> HIDE DEF t, new
  <2>6. FrontierAppend(RefFrontier(depth, height, leaves, ZeroId), leaf)
          = [frontier |-> RefFrontier(depth, height, new, ZeroId),
             completed |-> CompletedShards(new, ZeroId, height, Above(Len(leaves), height),
                                           Above(Len(new), height)),
             ok |-> TRUE]
      BY <2>1, <2>2, <2>3, AppendIsRef
  <2> QED
      BY <1>1, <1>3, <2>4, <2>5, <2>6 DEF WithId, t, new
<1> QED
    BY <1>2, <1>3

\* The siblings both batch forms give a note: those of its place in the tree
\* that holds it.
LEMMA SiblingsAfterIs ==
    ASSUME NEW form \in {"indexed", "frontier"}, NEW depth \in Nat, NEW height \in Nat,
           NEW leaves, IsHeld(form, depth, leaves), NEW leaf \in NoteIds,
           IsHeld(form, depth, Append(leaves, leaf))
    PROVE  SiblingsAfter(TreeOf(form, depth, height, leaves), leaf)
             = ImtSiblings(RefTree(depth, ZeroId, Append(leaves, leaf)), Len(leaves))
<1> DEFINE t == TreeOf(form, depth, height, leaves)
           new == Append(leaves, leaf)
<1>1. leaves \in Seq(NoteIds) /\ form \in TreeForms
    BY DEF IsHeld, TreeForms
<1>2. t.form = form
    BY <1>1, ReadForm
<1>3. CASE form = "frontier"
  <2>1. t.frontier = RefFrontier(depth, height, leaves, ZeroId)
      BY <1>3, TreeParts
  <2>2. AppendSiblings(RefFrontier(depth, height, leaves, ZeroId), ZeroId)
          = ImtSiblings(RefTree(depth, ZeroId, new), Len(leaves))
      BY <1>1, AppendSiblingsIsRef
  <2> HIDE DEF t, new
  <2> QED
      BY <1>2, <1>3, <2>1, <2>2 DEF SiblingsAfter, t, new
<1>4. CASE form = "indexed"
  <2> DEFINE after == TreeOf(form, depth, height, new)
  <2>1. after.tree = RefTree(depth, ZeroId, new) /\ after.indices = IndexOf(new)
      BY <1>4, TreeParts
  <2>2. Inserted(t, leaf) = after
      BY <1>4, InsertedIs
  <2>3. IndexOf(new)[leaf] = Len(leaves)
    <3>1. IsInjective(new)
        BY <1>4 DEF IsHeld
    <3>2. new \in Seq(NoteIds) /\ Len(new) = Len(leaves) + 1 /\ new[Len(leaves) + 1] = leaf
        BY <1>1, ReadAppend
    <3>3. Len(leaves) \in Nat
        BY <1>1, LenProperties
    <3> HIDE DEF new
    <3>4. \A k \in 1..Len(new) : IndexOf(new)[new[k]] = k - 1
        BY <3>1, <3>2, IndexOfLeaves
    <3>5. Len(leaves) + 1 \in 1..Len(new) /\ (Len(leaves) + 1) - 1 = Len(leaves)
        BY <3>2, <3>3
    <3> QED
        BY <3>2, <3>4, <3>5
  <2> HIDE DEF t, new, after
  <2> QED
      BY <1>2, <1>4, <2>1, <2>2, <2>3 DEF SiblingsAfter, t, new
<1> QED
    BY <1>3, <1>4

\* What more leaves mean to each form.
LEMMA TakesMany ==
    ASSUME NEW form \in TreeForms, NEW depth \in Nat, NEW leaves, IsHeld(form, depth, leaves),
           NEW more \in Seq(NoteIds)
    PROVE  /\ Takes(form, depth, leaves, more) <=> IsHeld(form, depth, leaves \o more)
           /\ Takes(form, depth, leaves, more)
                <=> /\ Len(more) <= 2 ^ depth - Len(leaves)
                    /\ form = "indexed" => /\ \A leaf \in Range(more) : leaf \notin Range(leaves)
                                           /\ IsInjective(more)
           /\ leaves \o more \in Seq(NoteIds) /\ Len(leaves \o more) = Len(leaves) + Len(more)
<1>1. leaves \in Seq(NoteIds) /\ Len(leaves) \in Nat /\ Len(more) \in Nat /\ 2 ^ depth \in Nat
      /\ (form = "indexed" => IsInjective(leaves))
    BY LenProperties, PowerPositive DEF IsHeld
<1> DEFINE w == leaves \o more
<1>2. w \in Seq(NoteIds) /\ Len(w) = Len(leaves) + Len(more)
      /\ (IsInjective(w) <=> (IsInjective(leaves) /\ IsInjective(more)
                                /\ Range(leaves) \cap Range(more) = {}))
    BY <1>1, ReadConcat
<1>3. Takes(form, depth, leaves, more)
        <=> Len(leaves) + Len(more) <= 2 ^ depth /\ (form = "indexed" => IsInjective(w))
    BY DEF Takes
<1> HIDE DEF w
<1>4. IsHeld(form, depth, w)
        <=> Len(leaves) + Len(more) <= 2 ^ depth /\ (form = "indexed" => IsInjective(w))
    BY <1>2 DEF IsHeld
<1>5. Len(leaves) + Len(more) <= 2 ^ depth <=> Len(more) <= 2 ^ depth - Len(leaves)
    BY <1>1
<1>6. Range(leaves) \cap Range(more) = {} <=> \A leaf \in Range(more) : leaf \notin Range(leaves)
    OBVIOUS
<1> QED
    BY <1>1, <1>2, <1>3, <1>4, <1>5, <1>6 DEF w

\* `append_many` of a frontier that has room.
LEMMA FrontierTakes ==
    ASSUME NEW depth \in Nat, NEW height \in Nat, NEW leaves \in Seq(NoteIds),
           NEW more \in Seq(NoteIds), Len(leaves) + Len(more) <= 2 ^ depth
    PROVE  /\ FrontierAppendMany(RefFrontier(depth, height, leaves, ZeroId), more).ok
           /\ FrontierAppendMany(RefFrontier(depth, height, leaves, ZeroId), more).frontier
                = RefFrontier(depth, height, leaves \o more, ZeroId)
<1>1. FrontierAppendMany(RefFrontier(depth, height, leaves, ZeroId), more)
        = [frontier |-> RefFrontier(depth, height, leaves \o more, ZeroId),
           completed |-> CompletedShards(leaves \o more, ZeroId, height,
                            Above(Len(leaves), height), Above(Len(leaves \o more), height)),
           ok |-> TRUE]
    BY AppendManyIsRef
<1> QED
    BY <1>1

\* `insert_many` and `append` refuse a batch exactly when it does not fit or
\* an index holds one of its leaves.
LEMMA InsertManyErrorIs ==
    ASSUME NEW form \in TreeForms, NEW depth \in Nat, NEW height \in Nat, NEW leaves,
           IsHeld(form, depth, leaves), NEW more \in Seq(NoteIds)
    PROVE  InsertManyError(TreeOf(form, depth, height, leaves), more)
             = IF Len(more) > 2 ^ depth - Len(leaves) THEN "TreeFull"
               ELSE IF Takes(form, depth, leaves, more) THEN "ok" ELSE "DuplicateLeaf"
<1> DEFINE t == TreeOf(form, depth, height, leaves)
           full == Len(more) > Room(t)
           repeats == /\ t.form = "indexed"
                      /\ (\E leaf \in Range(more) : Holds(t, leaf)) \/ ~IsInjective(more)
           broken == t.form = "frontier" /\ ~FrontierAppendMany(t.frontier, more).ok
<1>1. leaves \in Seq(NoteIds) /\ Len(leaves) \in Nat /\ Len(more) \in Nat /\ 2 ^ depth \in Nat
    BY LenProperties, PowerPositive DEF IsHeld
<1>2. t.form = form /\ Room(t) = 2 ^ depth - Len(leaves)
    BY ReadForm
<1>3. \A leaf : Holds(t, leaf) <=> form = "indexed" /\ leaf \in Range(leaves)
    BY HoldsLeaf
<1>4. full \/ ~broken
  <2> SUFFICES ASSUME form = "frontier", Len(more) <= 2 ^ depth - Len(leaves)
               PROVE  FrontierAppendMany(t.frontier, more).ok
    <3> HIDE DEF t
    <3> QED
        BY <1>1, <1>2
  <2>1. t.frontier = RefFrontier(depth, height, leaves, ZeroId)
      BY TreeParts
  <2>2. Len(leaves) + Len(more) <= 2 ^ depth
      BY <1>1
  <2> HIDE DEF t
  <2> QED
      BY <1>1, <2>1, <2>2, FrontierTakes
<1>5. full <=> Len(more) > 2 ^ depth - Len(leaves)
    BY <1>2
<1>6. Takes(form, depth, leaves, more)
        <=> /\ Len(more) <= 2 ^ depth - Len(leaves)
            /\ form = "indexed" => /\ \A leaf \in Range(more) : leaf \notin Range(leaves)
                                   /\ IsInjective(more)
    BY TakesMany
<1>7. InsertManyError(t, more)
        = CASE full -> "TreeFull" [] ~full /\ repeats -> "DuplicateLeaf"
            [] ~full /\ broken -> "InvalidSnapshot" [] OTHER -> "ok"
  <2>1. Len(more) <= Room(t) <=> ~full
    <3> HIDE DEF t
    <3> QED
        BY <1>1, <1>2
  <2> HIDE DEF t
  <2> QED
      BY <2>1 DEF InsertManyError
<1>8. full \/ (repeats <=> ~Takes(form, depth, leaves, more))
  <2> HIDE DEF t
  <2>1. ~full <=> Len(more) <= 2 ^ depth - Len(leaves)
      BY <1>1, <1>5
  <2> HIDE DEF full
  <2> QED
      BY <1>2, <1>3, <1>6, <2>1
<1> HIDE DEF t, full, repeats, broken
<1>9. InsertManyError(t, more)
        = IF full THEN "TreeFull" ELSE IF ~repeats THEN "ok" ELSE "DuplicateLeaf"
    BY <1>4, <1>7
<1> QED
    BY <1>5, <1>8, <1>9 DEF t

\* `insert_many`, or a frontier's `append_many`, of leaves the form takes.
LEMMA InsertedManyIs ==
    ASSUME NEW form \in TreeForms, NEW depth \in Nat, NEW height \in Nat, NEW leaves,
           IsHeld(form, depth, leaves), NEW more \in Seq(NoteIds),
           Takes(form, depth, leaves, more)
    PROVE  InsertedMany(TreeOf(form, depth, height, leaves), more)
             = TreeOf(form, depth, height, leaves \o more)
<1> DEFINE t == TreeOf(form, depth, height, leaves)
           new == leaves \o more
<1>1. leaves \in Seq(NoteIds) /\ Len(leaves) + Len(more) <= 2 ^ depth
      /\ (form = "indexed" => IsInjective(new))
    BY DEF IsHeld, Takes
<1>2. t.form = form /\ Count(t) = Len(leaves)
    BY ReadForm
<1>3. ImtInsertMany(RefTree(depth, ZeroId, leaves), more) = RefTree(depth, ZeroId, new)
    BY <1>1, InsertManyIsRef
<1>4. FrontierAppendMany(RefFrontier(depth, height, leaves, ZeroId), more).frontier
        = RefFrontier(depth, height, new, ZeroId)
    BY <1>1, FrontierTakes
<1>5. CASE form = "ordered"
  <2>1. t.tree = RefTree(depth, ZeroId, leaves)
      BY <1>5, TreeParts
  <2>2. TreeOf(form, depth, height, new) = OrderedTree(RefTree(depth, ZeroId, new))
      BY <1>5, TreeParts
  <2> HIDE DEF t, new
  <2> QED
      BY <1>2, <1>3, <1>5, <2>1, <2>2 DEF InsertedMany, t, new
<1>6. CASE form = "frontier"
  <2>1. t.frontier = RefFrontier(depth, height, leaves, ZeroId)
      BY <1>6, TreeParts
  <2>2. TreeOf(form, depth, height, new) = FrontierTree(RefFrontier(depth, height, new, ZeroId))
      BY <1>6, TreeParts
  <2> HIDE DEF t, new
  <2> QED
      BY <1>2, <1>4, <1>6, <2>1, <2>2 DEF InsertedMany, t, new
<1>7. CASE form = "indexed"
  <2>1. t.tree = RefTree(depth, ZeroId, leaves) /\ t.indices = IndexOf(leaves)
      BY <1>7, TreeParts
  <2>2. TreeOf(form, depth, height, new) = IndexedTree(RefTree(depth, ZeroId, new), IndexOf(new))
      BY <1>7, TreeParts
  <2>3. [l \in DOMAIN IndexOf(leaves) \cup Range(more) |->
            IF l \in Range(more) THEN Len(leaves) + IndexOf(more)[l] ELSE IndexOf(leaves)[l]]
          = IndexOf(new)
      BY <1>1, <1>7, IndexAfterMany
  <2> HIDE DEF t, new
  <2>4. InsertedMany(t, more)
          = IndexedTree(ImtInsertMany(t.tree, more),
                        [l \in DOMAIN t.indices \cup Range(more) |->
                            IF l \in Range(more) THEN Count(t) + IndexOf(more)[l]
                            ELSE t.indices[l]])
      BY <1>2, <1>7 DEF InsertedMany
  <2> QED
      BY <1>2, <1>3, <2>1, <2>2, <2>3, <2>4 DEF t, new
<1> QED
    BY <1>5, <1>6, <1>7 DEF TreeForms

\* `IndexedMerkleTree::truncate` leaves the tree over the first leaves.
LEMMA TruncatedIs ==
    ASSUME NEW depth \in Nat, NEW height \in Nat, NEW leaves, IsHeld("indexed", depth, leaves),
           NEW count \in 0..Len(leaves)
    PROVE  /\ Truncated(TreeOf("indexed", depth, height, leaves), count)
                = TreeOf("indexed", depth, height, SubSeq(leaves, 1, count))
           /\ IsHeld("indexed", depth, SubSeq(leaves, 1, count))
<1> DEFINE t == TreeOf("indexed", depth, height, leaves)
           imt == RefTree(depth, ZeroId, leaves)
           low == SubSeq(leaves, 1, count)
           removed == Range(SubSeq(leaves, count + 1, Len(leaves)))
<1>1. leaves \in Seq(NoteIds) /\ Len(leaves) \in Nat /\ Len(leaves) <= 2 ^ depth
      /\ IsInjective(leaves) /\ 2 ^ depth \in Nat
    BY LenProperties, PowerPositive DEF IsHeld
<1>2. t.tree = imt /\ t.indices = IndexOf(leaves)
    BY TreeParts
<1>3. Count(t) = Len(leaves)
    BY ReadForm DEF TreeForms
<1>4. imt.depth = depth /\ imt.zero = ZeroId /\ ImtLeaves(imt) = leaves
    BY <1>1, RefTreeFields, ReadLeaves DEF ImtLeaves
<1>5. low \in Seq(NoteIds) /\ Len(low) = count /\ IsInjective(low)
    BY <1>1, ReadCut
<1>6. ImtFromLeaves(depth, ZeroId, low) = RefTree(depth, ZeroId, low)
    BY <1>5, BuiltIsRef
<1>7. [l \in DOMAIN IndexOf(leaves) \ removed |-> IndexOf(leaves)[l]] = IndexOf(low)
    BY <1>1, IndexAfterCut
<1>8. TreeOf("indexed", depth, height, low) = IndexedTree(RefTree(depth, ZeroId, low), IndexOf(low))
    BY TreeParts
<1> HIDE DEF t, imt
<1>9. ImtTruncate(imt, count) = RefTree(depth, ZeroId, low)
    BY <1>4, <1>6 DEF ImtTruncate
<1>10. Truncated(t, count)
         = IndexedTree(ImtTruncate(imt, count),
                       [l \in DOMAIN IndexOf(leaves) \ removed |-> IndexOf(leaves)[l]])
    BY <1>2, <1>3, <1>4 DEF Truncated
<1>11. IsHeld("indexed", depth, low)
  <2>1. count <= 2 ^ depth
      BY <1>1
  <2> HIDE DEF low
  <2> QED
      BY <1>5, <2>1 DEF IsHeld
<1> QED
    BY <1>7, <1>8, <1>9, <1>10, <1>11 DEF t

\* A batch taken back.
LEMMA TakenBack ==
    ASSUME NEW depth \in Nat, NEW height \in Nat, NEW leaves, IsHeld("indexed", depth, leaves),
           NEW more \in Seq(NoteIds), Takes("indexed", depth, leaves, more)
    PROVE  Truncated(TreeOf("indexed", depth, height, leaves \o more), Len(leaves))
             = TreeOf("indexed", depth, height, leaves)
<1> DEFINE w == leaves \o more
           n == Len(leaves)
<1>1. leaves \in Seq(NoteIds) /\ n \in Nat /\ Len(more) \in Nat
    BY LenProperties DEF IsHeld
<1>2. IsHeld("indexed", depth, w)
    BY TakesMany DEF TreeForms
<1>3. w \in Seq(NoteIds) /\ Len(w) = n + Len(more) /\ \A k \in 1..n : w[k] = leaves[k]
    BY <1>1, ReadConcat
<1> HIDE DEF w, n
<1>4. n \in 0..Len(w)
    BY <1>1, <1>3
<1>5. Truncated(TreeOf("indexed", depth, height, w), n)
        = TreeOf("indexed", depth, height, SubSeq(w, 1, n))
    BY <1>2, <1>4, TruncatedIs
<1>6. SubSeq(w, 1, n) = leaves
  <2>1. SubSeq(w, 1, n) \in Seq(NoteIds) /\ Len(SubSeq(w, 1, n)) = n
        /\ \A k \in 1..n : SubSeq(w, 1, n)[k] = w[k]
      BY <1>3, <1>4, ReadCut
  <2> DEFINE s == SubSeq(w, 1, n)
  <2>2. s \in Seq(NoteIds) /\ Len(s) = Len(leaves) /\ \A k \in 1..Len(s) : s[k] = leaves[k]
      BY <1>3, <2>1 DEF n
  <2> HIDE DEF s
  <2>3. s = leaves
      BY <1>1, <2>2, SeqEqual
  <2> QED
      BY <2>3 DEF s
<1> QED
    BY <1>5, <1>6 DEF w, n

\* The ids kept so far, without the zeroes, after each slot of a batch.
KeptTurn(before, id) == IF id = ZeroId THEN before ELSE Append(before, id)

IsKept(kept, ids) ==
    /\ kept[0] = <<>>
    /\ \A k \in Nat : k + 1 <= Len(ids) => kept[k + 1] = KeptTurn(kept[k], ids[k + 1])

LEMMA KeptExists ==
    ASSUME NEW ids \in Seq(NoteIds)
    PROVE  \E kept : IsKept(kept, ids) /\ NonZero(ids) = kept[Len(ids)]
<1> DEFINE n == Len(ids)
           at(f, L) == [k \in 0..L |-> IF k = 0 THEN <<>> ELSE KeptTurn(f[k - 1], ids[k])]
           S == {L \in Nat : \E f : f = at(f, L)}
           node == CHOOSE f : f = at(f, n)
<1>1. n \in Nat
    BY LenProperties
<1>2. 0 \in S
  <2> DEFINE f == [k \in 0..0 |-> <<>>]
  <2>1. f = at(f, 0)
      OBVIOUS
  <2> QED
      BY <2>1
<1>3. ASSUME NEW L \in Nat, L \in S PROVE L + 1 \in S
  <2>1. PICK f : f = at(f, L)
      BY <1>3
  <2> DEFINE top == KeptTurn(f[L], ids[L + 1])
             g == [k \in 0..(L + 1) |-> IF k = L + 1 THEN top ELSE f[k]]
  <2>2. \A k \in 0..L : f[k] = at(f, L)[k]
      BY <2>1
  <2>3. ASSUME NEW k \in 0..(L + 1) PROVE g[k] = at(g, L + 1)[k]
    <3>1. CASE k = L + 1
      <4>1. (L + 1) - 1 = L /\ L + 1 # 0 /\ L \in 0..(L + 1) /\ L # L + 1
          OBVIOUS
      <4> QED
          BY <3>1, <4>1
    <3>2. CASE k # L + 1
      <4>1. k \in 0..L /\ (k # 0 => k - 1 \in 0..(L + 1) /\ k - 1 # L + 1)
          BY <3>2
      <4> HIDE DEF top
      <4>2. g[k] = f[k] /\ (k # 0 => g[k - 1] = f[k - 1])
          BY <3>2, <4>1
      <4> HIDE DEF g
      <4> QED
          BY <2>2, <4>1, <4>2
    <3> QED
        BY <3>1, <3>2
  <2>4. g = at(g, L + 1)
    <3>1. g = [k \in 0..(L + 1) |-> g[k]]
        OBVIOUS
    <3> HIDE DEF g
    <3> QED
        BY <2>3, <3>1
  <2> HIDE DEF g
  <2> QED
      BY <2>4
<1>4. n \in S
  <2> HIDE DEF S
  <2> QED
      BY <1>1, <1>2, <1>3, SetInduction
<1>5. node = at(node, n)
    BY <1>4
<1>6. NonZero(ids) = node[n]
    BY DEF NonZero, KeptTurn
<1> HIDE DEF node
<1>7. node[0] = <<>>
    BY <1>5
<1>8. ASSUME NEW k \in Nat, k + 1 <= n
      PROVE  node[k + 1] = KeptTurn(node[k], ids[k + 1])
  <2>1. k + 1 \in 0..n /\ k + 1 # 0 /\ (k + 1) - 1 = k
      BY <1>1, <1>8
  <2>2. node[k + 1] = at(node, n)[k + 1]
      BY <1>5
  <2> QED
      BY <2>1, <2>2
<1> QED
    BY <1>6, <1>7, <1>8 DEF IsKept

\* The loop of `build_pending_commitment_input` turn by turn.
IsLoop(work, t, padded) ==
    /\ work[0] = Working(t, <<>>, "ok")
    /\ \A k \in Nat : k + 1 <= Len(padded) => work[k + 1] = PathTurn(work[k], padded[k + 1])

LEMMA LoopExists ==
    ASSUME NEW t, NEW padded \in Seq(NoteIds)
    PROVE  \E work : IsLoop(work, t, padded) /\ PathLoop(t, padded) = work[Len(padded)]
<1> DEFINE n == Len(padded)
           at(f, L) == [k \in 0..L |-> IF k = 0 THEN Working(t, <<>>, "ok") ELSE PathTurn(f[k - 1], padded[k])]
           S == {L \in Nat : \E f : f = at(f, L)}
           node == CHOOSE f : f = at(f, n)
<1>1. n \in Nat
    BY LenProperties
<1>2. 0 \in S
  <2> DEFINE f == [k \in 0..0 |-> Working(t, <<>>, "ok")]
  <2>1. f = at(f, 0)
      OBVIOUS
  <2> QED
      BY <2>1
<1>3. ASSUME NEW L \in Nat, L \in S PROVE L + 1 \in S
  <2>1. PICK f : f = at(f, L)
      BY <1>3
  <2> DEFINE top == PathTurn(f[L], padded[L + 1])
             g == [k \in 0..(L + 1) |-> IF k = L + 1 THEN top ELSE f[k]]
  <2>2. \A k \in 0..L : f[k] = at(f, L)[k]
      BY <2>1
  <2>3. ASSUME NEW k \in 0..(L + 1) PROVE g[k] = at(g, L + 1)[k]
    <3>1. CASE k = L + 1
      <4>1. (L + 1) - 1 = L /\ L + 1 # 0 /\ L \in 0..(L + 1) /\ L # L + 1
          OBVIOUS
      <4> QED
          BY <3>1, <4>1
    <3>2. CASE k # L + 1
      <4>1. k \in 0..L /\ (k # 0 => k - 1 \in 0..(L + 1) /\ k - 1 # L + 1)
          BY <3>2
      <4> HIDE DEF top
      <4>2. g[k] = f[k] /\ (k # 0 => g[k - 1] = f[k - 1])
          BY <3>2, <4>1
      <4> HIDE DEF g
      <4> QED
          BY <2>2, <4>1, <4>2
    <3> QED
        BY <3>1, <3>2
  <2>4. g = at(g, L + 1)
    <3>1. g = [k \in 0..(L + 1) |-> g[k]]
        OBVIOUS
    <3> HIDE DEF g
    <3> QED
        BY <2>3, <3>1
  <2> HIDE DEF g
  <2> QED
      BY <2>4
<1>4. n \in S
  <2> HIDE DEF S
  <2> QED
      BY <1>1, <1>2, <1>3, SetInduction
<1>5. node = at(node, n)
    BY <1>4
<1>6. PathLoop(t, padded) = node[n]
    BY DEF PathLoop
<1> HIDE DEF node
<1>7. node[0] = Working(t, <<>>, "ok")
    BY <1>5
<1>8. ASSUME NEW k \in Nat, k + 1 <= n
      PROVE  node[k + 1] = PathTurn(node[k], padded[k + 1])
  <2>1. k + 1 \in 0..n /\ k + 1 # 0 /\ (k + 1) - 1 = k
      BY <1>1, <1>8
  <2>2. node[k + 1] = at(node, n)[k + 1]
      BY <1>5
  <2> QED
      BY <2>1, <2>2
<1> QED
    BY <1>6, <1>7, <1>8 DEF IsLoop

\* The loop of `build_pending_commitment` turn by turn.
IsCoreLoop(work, imt, padded) ==
    /\ work[0] = Working(imt, <<>>, "ok")
    /\ \A k \in Nat : k + 1 <= Len(padded) => work[k + 1] = CoreTurn(work[k], padded[k + 1])

LEMMA CoreLoopExists ==
    ASSUME NEW imt, NEW padded \in Seq(NoteIds)
    PROVE  \E work : IsCoreLoop(work, imt, padded) /\ CoreLoop(imt, padded) = work[Len(padded)]
<1> DEFINE n == Len(padded)
           at(f, L) == [k \in 0..L |-> IF k = 0 THEN Working(imt, <<>>, "ok") ELSE CoreTurn(f[k - 1], padded[k])]
           S == {L \in Nat : \E f : f = at(f, L)}
           node == CHOOSE f : f = at(f, n)
<1>1. n \in Nat
    BY LenProperties
<1>2. 0 \in S
  <2> DEFINE f == [k \in 0..0 |-> Working(imt, <<>>, "ok")]
  <2>1. f = at(f, 0)
      OBVIOUS
  <2> QED
      BY <2>1
<1>3. ASSUME NEW L \in Nat, L \in S PROVE L + 1 \in S
  <2>1. PICK f : f = at(f, L)
      BY <1>3
  <2> DEFINE top == CoreTurn(f[L], padded[L + 1])
             g == [k \in 0..(L + 1) |-> IF k = L + 1 THEN top ELSE f[k]]
  <2>2. \A k \in 0..L : f[k] = at(f, L)[k]
      BY <2>1
  <2>3. ASSUME NEW k \in 0..(L + 1) PROVE g[k] = at(g, L + 1)[k]
    <3>1. CASE k = L + 1
      <4>1. (L + 1) - 1 = L /\ L + 1 # 0 /\ L \in 0..(L + 1) /\ L # L + 1
          OBVIOUS
      <4> QED
          BY <3>1, <4>1
    <3>2. CASE k # L + 1
      <4>1. k \in 0..L /\ (k # 0 => k - 1 \in 0..(L + 1) /\ k - 1 # L + 1)
          BY <3>2
      <4> HIDE DEF top
      <4>2. g[k] = f[k] /\ (k # 0 => g[k - 1] = f[k - 1])
          BY <3>2, <4>1
      <4> HIDE DEF g
      <4> QED
          BY <2>2, <4>1, <4>2
    <3> QED
        BY <3>1, <3>2
  <2>4. g = at(g, L + 1)
    <3>1. g = [k \in 0..(L + 1) |-> g[k]]
        OBVIOUS
    <3> HIDE DEF g
    <3> QED
        BY <2>3, <3>1
  <2> HIDE DEF g
  <2> QED
      BY <2>4
<1>4. n \in S
  <2> HIDE DEF S
  <2> QED
      BY <1>1, <1>2, <1>3, SetInduction
<1>5. node = at(node, n)
    BY <1>4
<1>6. CoreLoop(imt, padded) = node[n]
    BY DEF CoreLoop
<1> HIDE DEF node
<1>7. node[0] = Working(imt, <<>>, "ok")
    BY <1>5
<1>8. ASSUME NEW k \in Nat, k + 1 <= n
      PROVE  node[k + 1] = CoreTurn(node[k], padded[k + 1])
  <2>1. k + 1 \in 0..n /\ k + 1 # 0 /\ (k + 1) - 1 = k
      BY <1>1, <1>8
  <2>2. node[k + 1] = at(node, n)[k + 1]
      BY <1>5
  <2> QED
      BY <2>1, <2>2
<1> QED
    BY <1>6, <1>7, <1>8 DEF IsCoreLoop

\* The steps the path circuit proves, note by note.
Opened(ok, index, root) == [ok |-> ok, index |-> index, root |-> root]

ProofTurn(before, id, siblings, depth) ==
    IF id = ZeroId THEN before
    ELSE Opened(before.ok /\ VerifyProofAtDepth(ZeroId, before.index, siblings, before.root, depth),
                before.index + 1, PathRoot(id, before.index, siblings))

IsProof(at, input, depth) ==
    /\ at[0] = Opened(TRUE, input.currentIndex, input.currentRoot)
    /\ \A k \in Nat : k + 1 <= Len(input.ids)
          => at[k + 1] = ProofTurn(at[k], input.ids[k + 1], input.siblings[k + 1], depth)

LEMMA ProofExists ==
    ASSUME NEW input, input.ids \in Seq(NoteIds), NEW depth
    PROVE  \E at : /\ IsProof(at, input, depth)
                   /\ PathProves(input, depth)
                        <=> /\ at[Len(input.ids)].ok
                            /\ at[Len(input.ids)].root = input.newRoot
<1> DEFINE n == Len(input.ids)
           start == Opened(TRUE, input.currentIndex, input.currentRoot)
           ids == input.ids
           siblings == input.siblings
           at(f, L) == [k \in 0..L |->
                          IF k = 0 THEN start
                          ELSE ProofTurn(f[k - 1], ids[k], siblings[k], depth)]
           S == {L \in Nat : \E f : f = at(f, L)}
           node == CHOOSE f : f = at(f, n)
<1>1. n \in Nat
    BY LenProperties DEF ids
<1> HIDE DEF start, ids, siblings
<1>2. 0 \in S
  <2> DEFINE f == [k \in 0..0 |-> start]
  <2>1. f = at(f, 0)
      OBVIOUS
  <2> QED
      BY <2>1
<1>3. ASSUME NEW L \in Nat, L \in S PROVE L + 1 \in S
  <2>1. PICK f : f = at(f, L)
      BY <1>3
  <2> DEFINE top == ProofTurn(f[L], ids[L + 1], siblings[L + 1], depth)
             g == [k \in 0..(L + 1) |-> IF k = L + 1 THEN top ELSE f[k]]
  <2>2. \A k \in 0..L : f[k] = at(f, L)[k]
      BY <2>1
  <2>3. ASSUME NEW k \in 0..(L + 1) PROVE g[k] = at(g, L + 1)[k]
    <3>1. CASE k = L + 1
      <4>1. (L + 1) - 1 = L /\ L + 1 # 0 /\ L \in 0..(L + 1) /\ L # L + 1
          OBVIOUS
      <4> QED
          BY <3>1, <4>1
    <3>2. CASE k # L + 1
      <4>1. k \in 0..L /\ (k # 0 => k - 1 \in 0..(L + 1) /\ k - 1 # L + 1)
          BY <3>2
      <4> HIDE DEF top
      <4>2. g[k] = f[k] /\ (k # 0 => g[k - 1] = f[k - 1])
          BY <3>2, <4>1
      <4> HIDE DEF g
      <4> QED
          BY <2>2, <4>1, <4>2
    <3> QED
        BY <3>1, <3>2
  <2>4. g = at(g, L + 1)
    <3>1. g = [k \in 0..(L + 1) |-> g[k]]
        OBVIOUS
    <3> HIDE DEF g
    <3> QED
        BY <2>3, <3>1
  <2> HIDE DEF g
  <2> QED
      BY <2>4
<1>4. n \in S
  <2> HIDE DEF S
  <2> QED
      BY <1>1, <1>2, <1>3, SetInduction
<1>5. node = at(node, n)
    BY <1>4
<1>6. PathProves(input, depth) <=> node[n].ok /\ node[n].root = input.newRoot
    BY DEF PathProves, ProofTurn, Opened, start, ids, siblings, n
<1> HIDE DEF node
<1>7. node[0] = start
    BY <1>5
<1>8. ASSUME NEW k \in Nat, k + 1 <= n
      PROVE  node[k + 1] = ProofTurn(node[k], ids[k + 1], siblings[k + 1], depth)
  <2>1. k + 1 \in 0..n /\ k + 1 # 0 /\ (k + 1) - 1 = k
      BY <1>1, <1>8
  <2>2. node[k + 1] = at(node, n)[k + 1]
      BY <1>5
  <2> QED
      BY <2>1, <2>2
<1> QED
    BY <1>6, <1>7, <1>8 DEF IsProof, start, ids, siblings

\* A row of one more column.
LEMMA RowExtended ==
    ASSUME NEW k \in Nat, NEW w, NEW f, IsRow(w, k + 1), IsRow(f, k), \A j \in 1..k : f[j] = w[j]
    PROVE  Append(f, w[k + 1]) = w
<1> DEFINE T == {f[j] : j \in 1..k} \cup {w[j] : j \in 1..(k + 1)}
           m == k + 1
           last == w[k + 1]
           a == Append(f, last)
<1>1. k \in Nat /\ m \in Nat /\ f \in [1..k -> T] /\ w \in [1..m -> T] /\ last \in T
    BY DEF IsRow
<1> HIDE DEF T, m
<1>2. f \in Seq(T) /\ w \in Seq(T)
    BY <1>1, SeqDef
<1>3. Len(f) = k /\ Len(w) = m
    BY <1>1, <1>2, LenProperties
<1>4. a \in Seq(T) /\ Len(a) = m /\ a[m] = last /\ \A j \in 1..k : a[j] = f[j]
  <2>1. a \in Seq(T) /\ Len(a) = Len(f) + 1 /\ a[Len(f) + 1] = last
        /\ \A j \in 1..Len(f) : a[j] = f[j]
      BY <1>1, <1>2, ReadAppend
  <2> HIDE DEF a, last
  <2> QED
      BY <1>3, <2>1 DEF m
<1> HIDE DEF a
<1>5. ASSUME NEW j \in 1..Len(a) PROVE a[j] = w[j]
  <2>1. j \in 1..k \/ j = m
      BY <1>4 DEF m
  <2> QED
      BY <1>4, <2>1 DEF m
<1>6. a = w
    BY <1>2, <1>3, <1>4, <1>5, SeqEqual
<1> QED
    BY <1>6 DEF a

\* The batch padded to its size.
LEMMA PaddedIs ==
    ASSUME NEW ids \in Seq(NoteIds), NEW batchSize \in Nat
    PROVE  /\ Padded(ids, batchSize) \in Seq(NoteIds)
           /\ Len(Padded(ids, batchSize)) = batchSize
           /\ \A k \in 1..batchSize :
                 Padded(ids, batchSize)[k] = IF k <= Len(ids) THEN ids[k] ELSE ZeroId
<1>1. Len(ids) \in Nat /\ \A k \in 1..Len(ids) : ids[k] \in NoteIds
    BY LenProperties, ElementOfSeq
<1>2. \A k \in 1..batchSize : (IF k <= Len(ids) THEN ids[k] ELSE ZeroId) \in NoteIds
    BY <1>1, PendingAssumption
<1>3. Padded(ids, batchSize) \in [1..batchSize -> NoteIds]
    BY <1>2 DEF Padded
<1>4. Padded(ids, batchSize) \in Seq(NoteIds) /\ Len(Padded(ids, batchSize)) = batchSize
    BY <1>3
<1> QED
    BY <1>4 DEF Padded

\* The ids kept are ids of the batch, and none of them is zero.
LEMMA KeptAreIds ==
    ASSUME NEW ids \in Seq(NoteIds), NEW kept, IsKept(kept, ids)
    PROVE  \A k \in Nat : k <= Len(ids) => /\ kept[k] \in Seq(NoteIds)
                                           /\ Range(kept[k]) \subseteq Range(ids) \ {ZeroId}
<1> DEFINE Good(row) == row \in Seq(NoteIds) /\ Range(row) \subseteq Range(ids) \ {ZeroId}
           S == {k \in Nat : k <= Len(ids) => Good(kept[k])}
<1>1. Len(ids) \in Nat /\ DOMAIN ids = 1..Len(ids) /\ \A k \in 1..Len(ids) : ids[k] \in NoteIds
    BY LenProperties, ElementOfSeq
<1>2. 0 \in S
  <2>1. kept[0] = <<>>
      BY DEF IsKept
  <2>2. Range(<<>>) = {} /\ <<>> \in Seq(NoteIds)
      BY DEF Range
  <2> HIDE DEF Good
  <2>3. Good(<<>>)
      BY <2>2 DEF Good
  <2> QED
      BY <2>1, <2>3
<1>3. ASSUME NEW k \in Nat, k \in S PROVE k + 1 \in S
  <2> SUFFICES ASSUME k + 1 <= Len(ids) PROVE Good(kept[k + 1])
      OBVIOUS
  <2> DEFINE id == ids[k + 1]
  <2>1. k <= Len(ids) /\ k + 1 \in 1..Len(ids)
      BY <1>1
  <2>2. Good(kept[k]) /\ id \in NoteIds /\ id \in Range(ids)
      BY <1>1, <1>3, <2>1 DEF Range
  <2>3. kept[k + 1] = KeptTurn(kept[k], id)
      BY DEF IsKept
  <2> HIDE DEF id
  <2>4. Append(kept[k], id) \in Seq(NoteIds)
        /\ Range(Append(kept[k], id)) = Range(kept[k]) \cup {id}
      BY <2>2, ReadAppend
  <2> QED
      BY <2>2, <2>3, <2>4 DEF KeptTurn
<1> HIDE DEF S
<1>4. Nat \subseteq S
    BY <1>2, <1>3, SetInduction
<1> QED
    BY <1>4 DEF S

LEMMA NonZeroIds ==
    ASSUME NEW ids \in Seq(NoteIds)
    PROVE  /\ NonZero(ids) \in Seq(NoteIds)
           /\ Range(NonZero(ids)) \subseteq Range(ids) \ {ZeroId}
<1>1. PICK kept : IsKept(kept, ids) /\ NonZero(ids) = kept[Len(ids)]
    BY KeptExists
<1>2. Len(ids) \in Nat /\ Len(ids) <= Len(ids)
    BY LenProperties
<1> QED
    BY <1>1, <1>2, KeptAreIds

\* The padding adds no id.
LEMMA NonZeroOfPadded ==
    ASSUME NEW ids \in Seq(NoteIds), NEW batchSize \in Nat, Len(ids) <= batchSize
    PROVE  NonZero(Padded(ids, batchSize)) = NonZero(ids)
<1> DEFINE padded == Padded(ids, batchSize)
<1>1. PICK kept : IsKept(kept, ids) /\ NonZero(ids) = kept[Len(ids)]
    BY KeptExists
<1>2. Len(ids) \in Nat
    BY LenProperties
<1>3. padded \in Seq(NoteIds) /\ Len(padded) = batchSize
      /\ \A k \in 1..batchSize : padded[k] = IF k <= Len(ids) THEN ids[k] ELSE ZeroId
    BY PaddedIs
<1>4. PICK all : IsKept(all, padded) /\ NonZero(padded) = all[Len(padded)]
    BY <1>3, KeptExists
<1> HIDE DEF padded
<1> DEFINE upTo(k) == IF k <= Len(ids) THEN kept[k] ELSE kept[Len(ids)]
           S == {k \in Nat : k <= batchSize => all[k] = upTo(k)}
<1>5. 0 \in S
    BY <1>1, <1>2, <1>4 DEF IsKept
<1>6. ASSUME NEW k \in Nat, k \in S PROVE k + 1 \in S
  <2> SUFFICES ASSUME k + 1 <= batchSize PROVE all[k + 1] = upTo(k + 1)
      OBVIOUS
  <2>1. k <= batchSize /\ k + 1 \in 1..batchSize
      OBVIOUS
  <2>2. all[k] = upTo(k)
      BY <1>6, <2>1
  <2>3. all[k + 1] = KeptTurn(all[k], padded[k + 1])
      BY <1>3, <1>4 DEF IsKept
  <2>4. CASE k + 1 <= Len(ids)
    <3>1. padded[k + 1] = ids[k + 1] /\ k <= Len(ids)
        BY <1>2, <1>3, <2>1, <2>4
    <3>2. kept[k + 1] = KeptTurn(kept[k], ids[k + 1])
        BY <1>1, <2>4 DEF IsKept
    <3> QED
        BY <2>2, <2>3, <2>4, <3>1, <3>2
  <2>5. CASE ~(k + 1 <= Len(ids))
    <3>1. padded[k + 1] = ZeroId
        BY <1>3, <2>1, <2>5
    <3>2. all[k + 1] = all[k]
        BY <2>3, <3>1 DEF KeptTurn
    <3>3. k <= Len(ids) => k = Len(ids)
        BY <1>2, <2>5
    <3> QED
        BY <2>2, <2>5, <3>2, <3>3
  <2> QED
      BY <2>4, <2>5
<1> HIDE DEF S
<1>7. Nat \subseteq S
    BY <1>5, <1>6, SetInduction
<1>8. all[batchSize] = upTo(batchSize)
    BY <1>7 DEF S
<1>9. batchSize <= Len(ids) => batchSize = Len(ids)
    BY <1>2
<1> QED
    BY <1>1, <1>3, <1>4, <1>8, <1>9 DEF padded

\* A batch without a zero is kept as it is.
LEMMA NonZeroKeepsAll ==
    ASSUME NEW ids \in Seq(NoteIds), ZeroId \notin Range(ids)
    PROVE  NonZero(ids) = ids
<1>1. PICK kept : IsKept(kept, ids) /\ NonZero(ids) = kept[Len(ids)]
    BY KeptExists
<1>2. Len(ids) \in Nat /\ DOMAIN ids = 1..Len(ids) /\ <<>> \in Seq(NoteIds)
    BY LenProperties
<1> DEFINE none == <<>>
           n == Len(ids)
           S == {k \in Nat : k <= n => kept[k] = Grown(none, ids, k)}
<1>3. none \in Seq(NoteIds) /\ n \in Nat
    BY <1>2
<1>4. Grown(none, ids, 0) = none /\ Grown(none, ids, n) = ids
  <2>1. SubSeq(ids, 1, 0) = <<>>
    <3>1. SubSeq(ids, 1, 0) = [i \in 1..0 |-> ids[i]]
        BY FirstPart
    <3> QED
        BY <3>1
  <2>2. SubSeq(ids, 1, n) = ids
      BY SubSeqFull
  <2>3. none \o <<>> = none
      BY <1>3, ConcatEmptySeq
  <2>4. none \o ids = ids
      BY ConcatEmptySeq
  <2> QED
      BY <2>1, <2>2, <2>3, <2>4 DEF Grown
<1>5. kept[0] = none
    BY <1>1 DEF IsKept
<1> HIDE DEF none
<1>6. 0 \in S
    BY <1>4, <1>5
<1>7. ASSUME NEW k \in Nat, k \in S PROVE k + 1 \in S
  <2> SUFFICES ASSUME k + 1 <= n PROVE kept[k + 1] = Grown(none, ids, k + 1)
      OBVIOUS
  <2>1. k <= n /\ k + 1 \in 1..n
      BY <1>3
  <2>2. kept[k] = Grown(none, ids, k)
      BY <1>7, <2>1
  <2>3. ids[k + 1] # ZeroId
      BY <1>2, <2>1 DEF Range
  <2>4. kept[k + 1] = Append(kept[k], ids[k + 1])
      BY <1>1, <2>3 DEF IsKept, KeptTurn
  <2>5. Append(Grown(none, ids, k), ids[k + 1]) = Grown(none, ids, k + 1)
      BY <1>3, NextPrefix
  <2> QED
      BY <2>2, <2>4, <2>5
<1> HIDE DEF S
<1>8. Nat \subseteq S
    BY <1>6, <1>7, SetInduction
<1>9. kept[n] = Grown(none, ids, n)
    BY <1>3, <1>8 DEF S
<1> QED
    BY <1>1, <1>4, <1>9

\* The siblings given for the slots so far: zeroes for a slot without a note,
\* those of the note's place for the others.
SlotSiblings(depth, leaves, kept, padded, j) ==
    IF padded[j] = ZeroId THEN [k \in 1..depth |-> ZeroId]
    ELSE ImtSiblings(RefTree(depth, ZeroId, leaves \o kept[j]), Len(leaves \o kept[j - 1]))

SlotsSoFar(depth, leaves, kept, padded, n) ==
    [j \in 1..n |-> SlotSiblings(depth, leaves, kept, padded, j)]

LEMMA NextSlot ==
    ASSUME NEW depth, NEW leaves, NEW kept, NEW padded, NEW k \in Nat, NEW siblings,
           siblings = SlotSiblings(depth, leaves, kept, padded, k + 1)
    PROVE  Append(SlotsSoFar(depth, leaves, kept, padded, k), siblings)
             = SlotsSoFar(depth, leaves, kept, padded, k + 1)
<1> DEFINE f == SlotsSoFar(depth, leaves, kept, padded, k)
           w == SlotsSoFar(depth, leaves, kept, padded, k + 1)
<1>1. IsRow(w, k + 1) /\ IsRow(f, k)
    BY DEF IsRow, SlotsSoFar
<1>2. w[k + 1] = siblings
  <2>1. k + 1 \in 1..(k + 1)
      OBVIOUS
  <2> QED
      BY <2>1 DEF SlotsSoFar
<1>3. \A j \in 1..k : f[j] = w[j]
  <2>1. \A j \in 1..k : j \in 1..(k + 1)
      OBVIOUS
  <2> QED
      BY <2>1 DEF SlotsSoFar
<1> HIDE DEF f, w
<1>4. Append(f, w[k + 1]) = w
    BY <1>1, <1>3, RowExtended
<1> QED
    BY <1>2, <1>4 DEF f, w

\* What the list of leaves is after one more slot.
LEMMA KeptNext ==
    ASSUME NEW leaves \in Seq(NoteIds), NEW ids \in Seq(NoteIds), NEW kept, IsKept(kept, ids),
           NEW k \in Nat, NEW n, n = k + 1, n <= Len(ids), NEW id, id = ids[n]
    PROVE  /\ id \in NoteIds /\ Then(leaves, kept[k]) \in Seq(NoteIds)
           /\ Then(leaves, kept[n]) = IF id = ZeroId THEN Then(leaves, kept[k])
                                      ELSE Longer(Then(leaves, kept[k]), id)
<1>1. k <= Len(ids) /\ n \in Nat /\ n \in 1..Len(ids)
    BY LenProperties
<1>2. kept[k] \in Seq(NoteIds) /\ kept[n] \in Seq(NoteIds)
    BY <1>1, KeptAreIds
<1>3. id \in NoteIds
    BY <1>1, ElementOfSeq
<1>4. kept[n] = IF id = ZeroId THEN kept[k] ELSE Longer(kept[k], id)
    BY DEF IsKept, KeptTurn, Longer
<1>5. Then(leaves, kept[k]) \in Seq(NoteIds)
    BY <1>2, ConcatProperties DEF Then
<1>6. Then(leaves, Longer(kept[k], id)) = Longer(Then(leaves, kept[k]), id)
    BY <1>2, <1>3, AppendLast
<1> QED
    BY <1>3, <1>4, <1>5, <1>6

\* A list that is held was held before its last leaf.
LEMMA HeldBefore ==
    ASSUME NEW form, NEW depth \in Nat, NEW leaves \in Seq(NoteIds), NEW leaf \in NoteIds,
           IsHeld(form, depth, Append(leaves, leaf))
    PROVE  IsHeld(form, depth, leaves)
<1>1. Len(leaves) \in Nat /\ 2 ^ depth \in Nat
    BY LenProperties, PowerPositive
<1>2. Len(Append(leaves, leaf)) = Len(leaves) + 1
      /\ (IsInjective(Append(leaves, leaf)) => IsInjective(leaves))
    BY ReadAppend
<1> DEFINE new == Append(leaves, leaf)
<1> HIDE DEF new
<1>3. Len(new) = Len(leaves) + 1 /\ (IsInjective(new) => IsInjective(leaves))
      /\ IsHeld(form, depth, new)
    BY <1>2 DEF new
<1> QED
    BY <1>1, <1>3 DEF IsHeld

\* The working copy after some slots: it stands for the leaves and the notes
\* so far as long as the tree takes them, and reports an error from then on.
Reached(form, depth, height, leaves, kept, padded, k) ==
    Working(TreeOf(form, depth, height, leaves \o kept[k]),
            SlotsSoFar(depth, leaves, kept, padded, k), "ok")

LoopIs(work, form, depth, height, leaves, kept, padded, k) ==
    IF IsHeld(form, depth, leaves \o kept[k])
    THEN work[k] = Reached(form, depth, height, leaves, kept, padded, k)
    ELSE work[k].error # "ok"

LEMMA LoopTurn ==
    ASSUME NEW form \in {"indexed", "frontier"}, NEW depth \in Nat, NEW height \in Nat,
           NEW leaves, IsHeld(form, depth, leaves), NEW padded \in Seq(NoteIds), NEW kept,
           IsKept(kept, padded), NEW work, NEW k \in Nat, k + 1 <= Len(padded),
           LoopIs(work, form, depth, height, leaves, kept, padded, k),
           work[k + 1] = PathTurn(work[k], padded[k + 1])
    PROVE  LoopIs(work, form, depth, height, leaves, kept, padded, k + 1)
<1> DEFINE held == leaves \o kept[k]
           new == leaves \o kept[k + 1]
           id == padded[k + 1]
           rows == SlotsSoFar(depth, leaves, kept, padded, k)
           more == SlotsSoFar(depth, leaves, kept, padded, k + 1)
           t == TreeOf(form, depth, height, held)
           w == work[k]
<1>1. leaves \in Seq(NoteIds) /\ form \in TreeForms
    BY DEF IsHeld, TreeForms
<1>2. held \in Seq(NoteIds) /\ id \in NoteIds
      /\ new = IF id = ZeroId THEN held ELSE Append(held, id)
  <2> DEFINE n == k + 1
  <2>1. n = k + 1 /\ n <= Len(padded) /\ id = padded[n]
        /\ held = Then(leaves, kept[k]) /\ new = Then(leaves, kept[n])
      BY DEF Then
  <2> HIDE DEF held, new, id, n
  <2>2. /\ id \in NoteIds /\ Then(leaves, kept[k]) \in Seq(NoteIds)
        /\ Then(leaves, kept[n]) = IF id = ZeroId THEN Then(leaves, kept[k])
                                   ELSE Longer(Then(leaves, kept[k]), id)
      BY <1>1, <2>1, KeptNext
  <2> QED
      BY <2>1, <2>2 DEF Longer
<1>3. \A s : s = SlotSiblings(depth, leaves, kept, padded, k + 1) => Append(rows, s) = more
    BY NextSlot
<1>4. SlotSiblings(depth, leaves, kept, padded, k + 1)
        = IF id = ZeroId THEN [j \in 1..depth |-> ZeroId]
          ELSE ImtSiblings(RefTree(depth, ZeroId, new), Len(held))
  <2>1. (k + 1) - 1 = k
      OBVIOUS
  <2> QED
      BY <2>1 DEF SlotSiblings
<1>5. IsHeld(form, depth, held) => w = Working(t, rows, "ok")
    BY DEF LoopIs, Reached
<1>6. ~IsHeld(form, depth, held) => w.error # "ok"
    BY DEF LoopIs
<1>7. work[k + 1] = PathTurn(w, id)
    OBVIOUS
<1>8. LoopIs(work, form, depth, height, leaves, kept, padded, k + 1)
        <=> IF IsHeld(form, depth, new)
            THEN work[k + 1] = Working(TreeOf(form, depth, height, new), more, "ok")
            ELSE work[k + 1].error # "ok"
    BY DEF LoopIs, Reached
<1> DEFINE next == work[k + 1]
<1> HIDE DEF held, new, id, rows, more, t, w, next
<1>9. CASE ~IsHeld(form, depth, held)
  <2>1. ~IsHeld(form, depth, new)
      BY <1>2, <1>9, HeldBefore
  <2>2. next = w
      BY <1>6, <1>7, <1>9 DEF PathTurn, next
  <2> QED
      BY <1>6, <1>8, <1>9, <2>1, <2>2 DEF next
<1>10. CASE IsHeld(form, depth, held) /\ id = ZeroId
  <2>1. Depth(t) = depth
      BY <1>1, <1>10, ReadForm DEF t
  <2>2. w.tree = t /\ w.siblings = rows /\ w.error = "ok"
      BY <1>5, <1>10 DEF Working
  <2>3. next = Working(t, Append(rows, [j \in 1..depth |-> ZeroId]), "ok")
      BY <1>7, <1>10, <2>1, <2>2 DEF PathTurn, next
  <2>4. next = Working(t, more, "ok")
      BY <1>3, <1>4, <1>10, <2>3
  <2>5. new = held
      BY <1>2, <1>10
  <2> QED
      BY <1>8, <1>10, <2>4, <2>5 DEF next, t
<1>11. CASE IsHeld(form, depth, held) /\ id # ZeroId
  <2>1. w.tree = t /\ w.siblings = rows /\ w.error = "ok"
      BY <1>5, <1>11 DEF Working
  <2>2. new = Append(held, id)
      BY <1>2, <1>11
  <2>3. InsertError(t, id) = "ok" <=> IsHeld(form, depth, new)
      BY <1>1, <1>2, <1>11, <2>2, InsertErrorIs DEF t
  <2>4. CASE ~IsHeld(form, depth, new)
    <3>1. next = Working(t, rows, InsertError(t, id))
        BY <1>7, <1>11, <2>1, <2>3, <2>4 DEF PathTurn, next
    <3>2. next.error # "ok"
        BY <2>3, <2>4, <3>1 DEF Working
    <3> QED
        BY <1>8, <2>4, <3>2 DEF next
  <2>5. CASE IsHeld(form, depth, new)
    <3>1. WithId(t, id) = TreeOf(form, depth, height, new)
        BY <1>1, <1>2, <1>11, <2>2, <2>5, WithIdIs DEF t
    <3>2. SiblingsAfter(t, id) = ImtSiblings(RefTree(depth, ZeroId, new), Len(held))
        BY <1>1, <1>2, <1>11, <2>2, <2>5, SiblingsAfterIs DEF t
    <3>3. next = Working(WithId(t, id), Append(rows, SiblingsAfter(t, id)), "ok")
        BY <1>7, <1>11, <2>1, <2>3, <2>5 DEF PathTurn, next
    <3>4. Append(rows, SiblingsAfter(t, id)) = more
        BY <1>3, <1>4, <1>11, <3>2
    <3> QED
        BY <1>8, <2>5, <3>1, <3>3, <3>4 DEF next
  <2> QED
      BY <2>4, <2>5
<1> QED
    BY <1>9, <1>10, <1>11

\* An empty list of kept notes adds nothing.
LEMMA NoneKept ==
    ASSUME NEW leaves \in Seq(NoteIds), NEW kept, NEW ids, IsKept(kept, ids)
    PROVE  leaves \o kept[0] = leaves
    BY ConcatEmptySeq DEF IsKept

\* The loop over a batch, for every tree a calls leave behind.
LEMMA LoopEnds ==
    ASSUME NEW form \in {"indexed", "frontier"}, NEW depth \in Nat, NEW height \in Nat,
           NEW leaves, IsHeld(form, depth, leaves), NEW padded \in Seq(NoteIds), NEW kept,
           IsKept(kept, padded), NonZero(padded) = kept[Len(padded)]
    PROVE  IF IsHeld(form, depth, leaves \o NonZero(padded))
           THEN PathLoop(TreeOf(form, depth, height, leaves), padded)
                  = Working(TreeOf(form, depth, height, leaves \o NonZero(padded)),
                            SlotsSoFar(depth, leaves, kept, padded, Len(padded)), "ok")
           ELSE PathLoop(TreeOf(form, depth, height, leaves), padded).error # "ok"
<1> DEFINE t == TreeOf(form, depth, height, leaves)
           n == Len(padded)
<1>1. PICK work : IsLoop(work, t, padded) /\ PathLoop(t, padded) = work[n]
    BY LoopExists
<1>2. n \in Nat /\ leaves \in Seq(NoteIds)
    BY LenProperties DEF IsHeld
<1> DEFINE S == {k \in Nat : k <= n => LoopIs(work, form, depth, height, leaves, kept, padded, k)}
<1>3. 0 \in S
  <2>1. leaves \o kept[0] = leaves
      BY <1>2, NoneKept
  <2>2. work[0] = Working(t, <<>>, "ok")
      BY <1>1 DEF IsLoop
  <2>3. SlotsSoFar(depth, leaves, kept, padded, 0) = <<>>
      BY DEF SlotsSoFar
  <2> QED
      BY <2>1, <2>2, <2>3 DEF LoopIs, Reached
<1>4. ASSUME NEW k \in Nat, k \in S PROVE k + 1 \in S
  <2> SUFFICES ASSUME k + 1 <= n
               PROVE  LoopIs(work, form, depth, height, leaves, kept, padded, k + 1)
      OBVIOUS
  <2>1. LoopIs(work, form, depth, height, leaves, kept, padded, k)
      BY <1>2, <1>4
  <2>2. work[k + 1] = PathTurn(work[k], padded[k + 1])
      BY <1>1 DEF IsLoop
  <2> QED
      BY <2>1, <2>2, LoopTurn
<1> HIDE DEF S
<1>5. Nat \subseteq S
    BY <1>3, <1>4, SetInduction
<1>6. LoopIs(work, form, depth, height, leaves, kept, padded, n)
    BY <1>2, <1>5 DEF S
<1> QED
    BY <1>1, <1>6 DEF LoopIs, Reached

\* The loop over a plain Imt, whose leaves may repeat.
CoreReached(depth, leaves, kept, padded, k) ==
    Working(RefTree(depth, ZeroId, Then(leaves, kept[k])),
            SlotsSoFar(depth, leaves, kept, padded, k), "ok")

LEMMA CoreLoopTurn ==
    ASSUME NEW depth \in Nat, NEW leaves \in Seq(NoteIds), NEW padded \in Seq(NoteIds), NEW kept,
           IsKept(kept, padded), NEW work, NEW k \in Nat, NEW n, n = k + 1, n <= Len(padded),
           work[k] = CoreReached(depth, leaves, kept, padded, k),
           work[n] = CoreTurn(work[k], padded[n])
    PROVE  work[n] = CoreReached(depth, leaves, kept, padded, n)
<1> DEFINE held == Then(leaves, kept[k])
           new == Then(leaves, kept[n])
           id == padded[n]
           rows == SlotsSoFar(depth, leaves, kept, padded, k)
           more == SlotsSoFar(depth, leaves, kept, padded, n)
           imt == RefTree(depth, ZeroId, held)
           after == RefTree(depth, ZeroId, new)
           w == work[k]
<1>1. id \in NoteIds /\ held \in Seq(NoteIds)
      /\ new = IF id = ZeroId THEN held ELSE Longer(held, id)
    BY KeptNext
<1>2. \A s : s = SlotSiblings(depth, leaves, kept, padded, n) => Append(rows, s) = more
    BY NextSlot
<1>3. SlotSiblings(depth, leaves, kept, padded, n)
        = IF id = ZeroId THEN [j \in 1..depth |-> ZeroId] ELSE ImtSiblings(after, Len(held))
  <2>1. n - 1 = k
      OBVIOUS
  <2> QED
      BY <2>1 DEF SlotSiblings, Then
<1>4. w.tree = imt /\ w.siblings = rows
    BY DEF CoreReached, Working
<1>5. work[n] = CoreTurn(w, id)
    OBVIOUS
<1>6. imt.depth = depth
    BY RefTreeFields
<1>7. CoreReached(depth, leaves, kept, padded, n) = Working(after, more, "ok")
    BY DEF CoreReached
<1>8. \A row \in Seq(NoteIds) : ImtLeafCount(RefTree(depth, ZeroId, row)) = Len(row)
    BY ReadLeaves DEF ImtLeafCount, ImtLeaves
<1> HIDE DEF held, new, id, rows, more, w, imt
<1>9. CASE id = ZeroId
  <2>1. work[n] = Working(imt, Append(rows, [j \in 1..depth |-> ZeroId]), "ok")
      BY <1>4, <1>5, <1>6, <1>9 DEF CoreTurn
  <2>2. work[n] = Working(imt, more, "ok")
      BY <1>2, <1>3, <1>9, <2>1
  <2>3. after = imt
      BY <1>1, <1>9 DEF imt
  <2> QED
      BY <1>7, <2>2, <2>3
<1>10. CASE id # ZeroId
  <2>1. ImtInsert(imt, id) = after
    <3>1. new = Append(held, id)
        BY <1>1, <1>10 DEF Longer
    <3>2. ImtInsert(RefTree(depth, ZeroId, held), id) = RefTree(depth, ZeroId, Append(held, id))
        BY <1>1, InsertIsRef
    <3> QED
        BY <3>1, <3>2 DEF imt
  <2>2. ImtLeafCount(after) - 1 = Len(held)
    <3>1. new \in Seq(NoteIds) /\ Len(new) = Len(held) + 1
        BY <1>1, <1>10, ReadAppend DEF Longer
    <3>2. Len(held) \in Nat
        BY <1>1, LenProperties
    <3> QED
        BY <1>8, <3>1, <3>2
  <2> HIDE DEF after
  <2>3. work[n] = Working(after, Append(rows, ImtSiblings(after, Len(held))), "ok")
      BY <1>4, <1>5, <1>10, <2>1, <2>2 DEF CoreTurn
  <2>4. Append(rows, ImtSiblings(after, Len(held))) = more
      BY <1>2, <1>3, <1>10
  <2> QED
      BY <1>7, <2>3, <2>4
<1> QED
    BY <1>9, <1>10

LEMMA CoreLoopEnds ==
    ASSUME NEW depth \in Nat, NEW leaves \in Seq(NoteIds), NEW padded \in Seq(NoteIds), NEW kept,
           IsKept(kept, padded), NonZero(padded) = kept[Len(padded)]
    PROVE  CoreLoop(RefTree(depth, ZeroId, leaves), padded)
             = Working(RefTree(depth, ZeroId, leaves \o NonZero(padded)),
                       SlotsSoFar(depth, leaves, kept, padded, Len(padded)), "ok")
<1> DEFINE imt == RefTree(depth, ZeroId, leaves)
           n == Len(padded)
<1>1. PICK work : IsCoreLoop(work, imt, padded) /\ CoreLoop(imt, padded) = work[n]
    BY CoreLoopExists
<1>2. n \in Nat
    BY LenProperties
<1> DEFINE S == {k \in Nat : k <= n => work[k] = CoreReached(depth, leaves, kept, padded, k)}
<1>3. 0 \in S
  <2>1. Then(leaves, kept[0]) = leaves
      BY NoneKept DEF Then
  <2>2. work[0] = Working(imt, <<>>, "ok")
      BY <1>1 DEF IsCoreLoop
  <2>3. SlotsSoFar(depth, leaves, kept, padded, 0) = <<>>
      BY DEF SlotsSoFar
  <2> QED
      BY <2>1, <2>2, <2>3 DEF CoreReached
<1>4. ASSUME NEW k \in Nat, k \in S PROVE k + 1 \in S
  <2> DEFINE m == k + 1
  <2> SUFFICES ASSUME m <= n PROVE work[m] = CoreReached(depth, leaves, kept, padded, m)
      OBVIOUS
  <2>1. work[k] = CoreReached(depth, leaves, kept, padded, k)
      BY <1>2, <1>4
  <2>2. work[m] = CoreTurn(work[k], padded[m]) /\ m = k + 1 /\ m <= Len(padded)
      BY <1>1 DEF IsCoreLoop
  <2> HIDE DEF m, S
  <2> QED
      BY <2>1, <2>2, CoreLoopTurn
<1> HIDE DEF S
<1>5. Nat \subseteq S
    BY <1>3, <1>4, SetInduction
<1>6. work[n] = CoreReached(depth, leaves, kept, padded, n)
    BY <1>2, <1>5 DEF S
<1> QED
    BY <1>1, <1>6 DEF CoreReached, Then

\* Which batches the path builder takes, and the tree and siblings it ends
\* with.
LEMMA PathIs ==
    ASSUME NEW form \in {"indexed", "frontier"}, NEW depth \in Nat, NEW height \in Nat,
           NEW leaves, IsHeld(form, depth, leaves), NEW batchSize \in Nat,
           NEW ids \in Seq(NoteIds), NEW t, t = TreeOf(form, depth, height, leaves)
    PROVE  /\ PathError(t, batchSize, ids) = "ok"
                <=> /\ batchSize \in 1..MaxBatchSize /\ Len(ids) <= batchSize /\ ids # <<>>
                    /\ form = "frontier" => IsInjective(NonZero(ids))
                    /\ IsHeld(form, depth, leaves \o NonZero(ids))
           /\ PathError(t, batchSize, ids) = "ok"
                => \E kept :
                      LET padded == Padded(ids, batchSize)
                      IN  /\ IsKept(kept, padded) /\ NonZero(padded) = kept[batchSize]
                          /\ PathLoop(t, padded)
                               = Working(TreeOf(form, depth, height, leaves \o NonZero(ids)),
                                         SlotsSoFar(depth, leaves, kept, padded, batchSize), "ok")
<1> DEFINE padded == Padded(ids, batchSize)
           nz == NonZero(ids)
           valid == batchSize \in 1..MaxBatchSize
           fits == Len(ids) <= batchSize
           repeats == t.form = "frontier" /\ ~IsInjective(nz)
           empty == ids = <<>>
           loop == PathLoop(t, padded)
           held == IsHeld(form, depth, leaves \o nz)
<1>1. t.form = form
    BY ReadForm DEF TreeForms
<1>2. PathError(t, batchSize, ids)
        = CASE ~valid -> "InvalidBatchSize"
            [] valid /\ ~fits -> "BatchTooLarge"
            [] valid /\ fits /\ repeats -> "DuplicateLeaf"
            [] valid /\ empty -> "NoNotes"
            [] OTHER -> loop.error
  <2>1. Len(ids) > batchSize <=> ~fits
      BY LenProperties
  <2> HIDE DEF padded, loop
  <2> QED
      BY <2>1 DEF PathError, loop, padded
<1>3. empty => ~repeats /\ fits
  <2> SUFFICES ASSUME ids = <<>> PROVE IsInjective(nz) /\ fits
      OBVIOUS
  <2>1. Len(ids) = 0
      OBVIOUS
  <2>2. nz = <<>>
    <3>1. PICK kept : IsKept(kept, ids) /\ NonZero(ids) = kept[Len(ids)]
        BY KeptExists
    <3> QED
        BY <2>1, <3>1 DEF IsKept
  <2>3. IsInjective(<<>>)
      BY DEF IsInjective
  <2> QED
      BY <2>1, <2>2, <2>3
<1>4. ASSUME fits
      PROVE  \E kept : /\ IsKept(kept, padded) /\ NonZero(padded) = kept[batchSize]
                       /\ IF held
                          THEN loop = Working(TreeOf(form, depth, height, leaves \o nz),
                                              SlotsSoFar(depth, leaves, kept, padded, batchSize),
                                              "ok")
                          ELSE loop.error # "ok"
  <2>1. padded \in Seq(NoteIds) /\ Len(padded) = batchSize
      BY PaddedIs
  <2>2. NonZero(padded) = nz
      BY <1>4, NonZeroOfPadded
  <2> HIDE DEF padded, nz
  <2>3. PICK kept : IsKept(kept, padded) /\ NonZero(padded) = kept[Len(padded)]
      BY <2>1, KeptExists
  <2>4. IF IsHeld(form, depth, leaves \o NonZero(padded))
        THEN PathLoop(t, padded)
               = Working(TreeOf(form, depth, height, leaves \o NonZero(padded)),
                         SlotsSoFar(depth, leaves, kept, padded, Len(padded)), "ok")
        ELSE PathLoop(t, padded).error # "ok"
      BY <2>1, <2>3, LoopEnds
  <2> QED
      BY <2>1, <2>2, <2>3, <2>4
<1>5. fits => (loop.error = "ok" <=> held)
  <2> HIDE DEF padded, nz, loop, held
  <2> QED
      BY <1>4 DEF Working
<1>6. PathError(t, batchSize, ids) = "ok" <=> valid /\ fits /\ ~repeats /\ ~empty /\ held
  <2> HIDE DEF valid, fits, repeats, empty, loop, held
  <2> QED
      BY <1>2, <1>3, <1>5
<1>7. repeats <=> form = "frontier" /\ ~IsInjective(nz)
    BY <1>1
<1> HIDE DEF valid, fits, repeats, empty, loop, held
<1>8. PathError(t, batchSize, ids) = "ok"
        <=> valid /\ fits /\ ~empty /\ (form = "frontier" => IsInjective(nz)) /\ held
    BY <1>6, <1>7
<1>9. PathError(t, batchSize, ids) = "ok"
        => \E kept :
              /\ IsKept(kept, padded) /\ NonZero(padded) = kept[batchSize]
              /\ loop = Working(TreeOf(form, depth, height, leaves \o nz),
                                SlotsSoFar(depth, leaves, kept, padded, batchSize), "ok")
    BY <1>4, <1>6
<1> QED
    BY <1>8, <1>9 DEF valid, fits, empty, loop, held

\* The siblings of the next place: they open an empty leaf in the tree before
\* the note and the note in the tree after it.
LEMMA NoteOpens ==
    ASSUME NEW depth \in Nat, NEW row \in Seq(NoteIds), Len(row) < 2 ^ depth, NEW id \in NoteIds,
           NEW new, new = Longer(row, id), NEW siblings,
           siblings = ImtSiblings(RefTree(depth, ZeroId, new), Len(row))
    PROVE  /\ VerifyProofAtDepth(ZeroId, Len(row), siblings, RefRoot(depth, ZeroId, row), depth)
           /\ PathRoot(id, Len(row), siblings) = RefRoot(depth, ZeroId, new)
<1> DEFINE n == Len(row)
<1>1. n \in Nat /\ Above(n, depth) = 0
  <2>1. n \in Nat
      BY LenProperties
  <2> HIDE DEF n
  <2>2. n < 2 ^ depth
      BY DEF n
  <2> QED
      BY <2>1, <2>2, AboveTop
<1>2. new \in Seq(NoteIds) /\ Len(new) = n + 1 /\ new[n + 1] = id
    BY ReadAppend DEF Longer
<1>3. new = Place(row, n, ZeroId, id)
    BY PlaceIsAppend DEF Longer
<1>4. Len(siblings) = depth /\ AreSiblings(siblings, new, ZeroId, n, depth)
    BY <1>1, <1>2, SiblingsAreRef
<1> HIDE DEF n
<1>5. AreSiblings(siblings, row, ZeroId, n, depth)
  <2> SUFFICES ASSUME NEW h \in Nat, h + 1 <= depth
               PROVE  siblings[h + 1] = RefNode(row, ZeroId, h, Sibling(Above(n, h)))
      BY DEF AreSiblings
  <2> DEFINE i == Sibling(Above(n, h))
  <2>1. siblings[h + 1] = RefNode(new, ZeroId, h, i)
      BY <1>4 DEF AreSiblings
  <2>2. i \in Nat /\ i # Above(n, h)
    <3>1. Above(n, h) \in Nat
        BY <1>1, AboveStep
    <3>2. Sibling(Above(n, h)) \in Nat
        BY <3>1, SiblingPair
    <3> QED
        BY <3>1, <3>2 DEF Sibling
  <2> HIDE DEF i
  <2>3. n <= Len(row)
      BY <1>1 DEF n
  <2>4. RefNode(row, ZeroId, h, i) = RefNode(new, ZeroId, h, i)
      BY <1>1, <1>3, <2>2, <2>3, PlaceLocal
  <2> QED
      BY <2>1, <2>4 DEF i
<1>6. GetOr(row, n, ZeroId) = ZeroId /\ GetOr(new, n, ZeroId) = id
    BY <1>1, <1>2 DEF GetOr, At, n
<1>7. \A leaf : \E node : PathRoot(leaf, n, siblings) = node[depth]
                          /\ IsPath(node, leaf, n, siblings, depth)
    BY <1>4, PathExists
<1>8. PathRoot(ZeroId, n, siblings) = RefNode(row, ZeroId, depth, Above(n, depth))
    BY <1>1, <1>5, <1>6, <1>7, PathUp
<1>9. PathRoot(id, n, siblings) = RefNode(new, ZeroId, depth, Above(n, depth))
    BY <1>1, <1>4, <1>6, <1>7, PathUp
<1> QED
    BY <1>1, <1>4, <1>8, <1>9 DEF VerifyProofAtDepth, RefRoot, Above, n

\* What the path circuit has proved after some slots.
ProvedSoFar(depth, leaves, kept, k) ==
    Opened(TRUE, Len(Then(leaves, kept[k])), RefRoot(depth, ZeroId, Then(leaves, kept[k])))

LEMMA ProofStep ==
    ASSUME NEW depth \in Nat, NEW leaves \in Seq(NoteIds), NEW padded \in Seq(NoteIds), NEW kept,
           IsKept(kept, padded), NEW at, NEW k \in Nat, NEW n, n = k + 1, n <= Len(padded),
           IsHeld("ordered", depth, Then(leaves, kept[k]))
             => at[k] = ProvedSoFar(depth, leaves, kept, k),
           at[n] = ProofTurn(at[k], padded[n], SlotSiblings(depth, leaves, kept, padded, n), depth),
           IsHeld("ordered", depth, Then(leaves, kept[n]))
    PROVE  at[n] = ProvedSoFar(depth, leaves, kept, n)
<1> DEFINE row == Then(leaves, kept[k])
           new == Then(leaves, kept[n])
           id == padded[n]
           siblings == SlotSiblings(depth, leaves, kept, padded, n)
           before == at[k]
<1>1. id \in NoteIds /\ row \in Seq(NoteIds)
      /\ new = IF id = ZeroId THEN row ELSE Longer(row, id)
    BY KeptNext
<1>2. id # ZeroId => siblings = ImtSiblings(RefTree(depth, ZeroId, new), Len(row))
  <2>1. n - 1 = k
      BY DEF IsKept
  <2> QED
      BY <2>1 DEF SlotSiblings, Then
<1>3. /\ IsHeld("ordered", depth, row)
             => before = Opened(TRUE, Len(row), RefRoot(depth, ZeroId, row))
      /\ at[n] = ProofTurn(before, id, siblings, depth)
      /\ IsHeld("ordered", depth, new)
      /\ ProvedSoFar(depth, leaves, kept, n) = Opened(TRUE, Len(new), RefRoot(depth, ZeroId, new))
    BY DEF ProvedSoFar
<1> HIDE DEF row, new, id, siblings, before
<1>4. CASE id = ZeroId
  <2>1. new = row /\ at[n] = before
      BY <1>1, <1>3, <1>4 DEF ProofTurn
  <2> QED
      BY <1>3, <2>1
<1>5. CASE id # ZeroId
  <2>1. new = Longer(row, id)
      BY <1>1, <1>5
  <2>2. IsHeld("ordered", depth, row)
      BY <1>1, <1>3, <2>1, HeldBefore DEF Longer
  <2>3. before = Opened(TRUE, Len(row), RefRoot(depth, ZeroId, row))
      BY <1>3, <2>2
  <2>4. Len(new) = Len(row) + 1 /\ Len(row) \in Nat
      BY <1>1, <2>1, ReadAppend, LenProperties DEF Longer
  <2>5. Len(row) < 2 ^ depth
    <3>1. Len(new) <= 2 ^ depth /\ 2 ^ depth \in Nat
        BY <1>3, PowerPositive DEF IsHeld
    <3> QED
        BY <2>4, <3>1
  <2>6. /\ VerifyProofAtDepth(ZeroId, Len(row), siblings, RefRoot(depth, ZeroId, row), depth)
        /\ PathRoot(id, Len(row), siblings) = RefRoot(depth, ZeroId, new)
      BY <1>1, <1>2, <1>5, <2>1, <2>5, NoteOpens
  <2>7. before.ok = TRUE /\ before.index = Len(row) /\ before.root = RefRoot(depth, ZeroId, row)
      BY <2>3 DEF Opened
  <2>8. at[n] = Opened(TRUE, Len(row) + 1, RefRoot(depth, ZeroId, new))
      BY <1>3, <1>5, <2>6, <2>7 DEF ProofTurn
  <2> QED
      BY <1>3, <2>4, <2>8
<1> QED
    BY <1>4, <1>5

\* An input with these siblings is one the path circuit can prove.
LEMMA PathProvesIs ==
    ASSUME NEW depth \in Nat, NEW leaves \in Seq(NoteIds), NEW padded \in Seq(NoteIds), NEW kept,
           IsKept(kept, padded), IsHeld("ordered", depth, Then(leaves, kept[Len(padded)])),
           NEW input, input.ids = padded, input.currentIndex = Len(leaves),
           input.currentRoot = RefRoot(depth, ZeroId, leaves),
           input.siblings = SlotsSoFar(depth, leaves, kept, padded, Len(padded)),
           input.newRoot = RefRoot(depth, ZeroId, Then(leaves, kept[Len(padded)]))
    PROVE  PathProves(input, depth)
<1> DEFINE n == Len(padded)
           Held(k) == IsHeld("ordered", depth, Then(leaves, kept[k]))
<1>1. PICK at : /\ IsProof(at, input, depth)
                /\ PathProves(input, depth) <=> at[n].ok /\ at[n].root = input.newRoot
    BY ProofExists
<1>2. n \in Nat
    BY LenProperties
<1> DEFINE S == {k \in Nat : k <= n => (Held(k) => at[k] = ProvedSoFar(depth, leaves, kept, k))}
<1>3. 0 \in S
  <2>1. Then(leaves, kept[0]) = leaves
      BY NoneKept DEF Then
  <2>2. at[0] = Opened(TRUE, Len(leaves), RefRoot(depth, ZeroId, leaves))
      BY <1>1 DEF IsProof
  <2> QED
      BY <2>1, <2>2 DEF ProvedSoFar
<1>4. ASSUME NEW k \in Nat, k \in S PROVE k + 1 \in S
  <2> DEFINE m == k + 1
  <2> SUFFICES ASSUME m <= n, Held(m) PROVE at[m] = ProvedSoFar(depth, leaves, kept, m)
      OBVIOUS
  <2>1. Held(k) => at[k] = ProvedSoFar(depth, leaves, kept, k)
      BY <1>2, <1>4
  <2>2. at[m] = ProofTurn(at[k], padded[m], input.siblings[m], depth)
      BY <1>1 DEF IsProof
  <2>3. input.siblings[m] = SlotSiblings(depth, leaves, kept, padded, m)
    <3>1. m \in 1..n
        BY <1>2
    <3> QED
        BY <3>1 DEF SlotsSoFar
  <2>4. m = k + 1 /\ m <= Len(padded)
      OBVIOUS
  <2> HIDE DEF m, S
  <2> QED
      BY <2>1, <2>2, <2>3, <2>4, ProofStep
<1> HIDE DEF S
<1>5. Nat \subseteq S
    BY <1>3, <1>4, SetInduction
<1>6. at[n] = ProvedSoFar(depth, leaves, kept, n)
    BY <1>2, <1>5 DEF S
<1> QED
    BY <1>1, <1>6 DEF ProvedSoFar, Opened

\* The circuit input of a path batch, by the leaves before and after it.
PathRecord(depth, leaves, new, padded, siblings) ==
    [currentIndex |-> Len(leaves), currentRoot |-> RefRoot(depth, ZeroId, leaves), ids |-> padded,
     siblings |-> siblings, newRoot |-> RefRoot(depth, ZeroId, new),
     inputHash |-> padded \o <<RefRoot(depth, ZeroId, leaves), RefRoot(depth, ZeroId, new),
                               Len(leaves), Len(new)>>]

\* What `build_pending_commitment_input` returns for a batch it accepts, and
\* the tree it leaves, whichever of the two forms the tree has.
LEMMA PathInputIs ==
    ASSUME NEW form \in {"indexed", "frontier"}, NEW depth \in Nat, NEW height \in Nat,
           NEW leaves, IsHeld(form, depth, leaves), NEW batchSize \in Nat,
           NEW ids \in Seq(NoteIds), NEW t, t = TreeOf(form, depth, height, leaves),
           PathError(t, batchSize, ids) = "ok",
           NEW padded, padded = Padded(ids, batchSize), NEW new, new = Then(leaves, NonZero(ids)),
           NEW kept, IsKept(kept, padded), NonZero(padded) = kept[Len(padded)]
    PROVE  /\ IsHeld(form, depth, new) /\ Len(padded) = batchSize
           /\ new = Then(leaves, kept[Len(padded)]) /\ padded \in Seq(NoteIds)
           /\ AfterPath(t, batchSize, ids) = TreeOf(form, depth, height, new)
           /\ PathInput(t, batchSize, ids)
                = PathRecord(depth, leaves, new, padded,
                             SlotsSoFar(depth, leaves, kept, padded, batchSize))
<1>1. /\ batchSize \in 1..MaxBatchSize /\ Len(ids) <= batchSize
      /\ IsHeld(form, depth, leaves \o NonZero(ids))
  BY PathIs
<1>2. padded \in Seq(NoteIds) /\ Len(padded) = batchSize
  BY PaddedIs
<1>3. NonZero(padded) = NonZero(ids)
  BY <1>1, NonZeroOfPadded
<1>4. new = leaves \o NonZero(ids) /\ new = Then(leaves, kept[Len(padded)])
  BY <1>3 DEF Then
<1>5. IsHeld(form, depth, new) /\ IsHeld(form, depth, leaves \o NonZero(padded))
  BY <1>1, <1>3, <1>4
<1>6. PathLoop(t, padded) = Working(TreeOf(form, depth, height, leaves \o NonZero(padded)),
                                    SlotsSoFar(depth, leaves, kept, padded, Len(padded)), "ok")
  BY <1>2, <1>5, LoopEnds
<1>7. /\ PathLoop(t, padded).tree = TreeOf(form, depth, height, new)
      /\ PathLoop(t, padded).siblings = SlotsSoFar(depth, leaves, kept, padded, batchSize)
  <2>1. PathLoop(t, padded) = Working(TreeOf(form, depth, height, new),
                                      SlotsSoFar(depth, leaves, kept, padded, batchSize), "ok")
    <3>1. new = leaves \o NonZero(padded)
      BY <1>3, <1>4
    <3> QED BY <1>2, <1>6, <3>1
  <2> QED BY <2>1 DEF Working
<1>8. AfterPath(t, batchSize, ids) = TreeOf(form, depth, height, new)
  BY <1>7 DEF AfterPath
<1>9. form \in TreeForms
  BY DEF TreeForms
<1>10. Count(t) = Len(leaves) /\ RootOf(t) = RefRoot(depth, ZeroId, leaves)
  BY <1>9, ReadForm
<1>11. /\ Count(TreeOf(form, depth, height, new)) = Len(new)
       /\ RootOf(TreeOf(form, depth, height, new)) = RefRoot(depth, ZeroId, new)
  BY <1>5, <1>9, ReadForm
<1>12. PathInput(t, batchSize, ids)
         = PathRecord(depth, leaves, new, padded,
                      SlotsSoFar(depth, leaves, kept, padded, batchSize))
  BY <1>7, <1>8, <1>10, <1>11 DEF PathInput, PathRecord, Words
<1> QED BY <1>2, <1>4, <1>5, <1>8, <1>12

\* Every accepted path batch is an input its circuit can prove.
LEMMA PathInputHolds ==
    ASSUME NEW form \in {"indexed", "frontier"}, NEW depth \in Nat, NEW height \in Nat,
           NEW leaves, IsHeld(form, depth, leaves), NEW batchSize \in Nat,
           NEW ids \in Seq(NoteIds), NEW t, t = TreeOf(form, depth, height, leaves),
           PathError(t, batchSize, ids) = "ok"
    PROVE  /\ PathInput(t, batchSize, ids).newRoot
                = RefRoot(depth, ZeroId, Then(leaves, NonZero(ids)))
           /\ PathProves(PathInput(t, batchSize, ids), depth)
<1> DEFINE padded == Padded(ids, batchSize)
           new == Then(leaves, NonZero(ids))
           input == PathInput(t, batchSize, ids)
<1>1. padded \in Seq(NoteIds)
  BY PaddedIs
<1>2. PICK kept : IsKept(kept, padded) /\ NonZero(padded) = kept[Len(padded)]
  BY <1>1, KeptExists
<1> HIDE DEF padded, new
<1>3. /\ IsHeld(form, depth, new) /\ Len(padded) = batchSize
      /\ new = Then(leaves, kept[Len(padded)])
      /\ input = PathRecord(depth, leaves, new, padded,
                            SlotsSoFar(depth, leaves, kept, padded, batchSize))
  BY <1>2, PathInputIs DEF padded, new
<1> HIDE DEF input
<1>4. /\ input.ids = padded /\ input.currentIndex = Len(leaves)
      /\ input.currentRoot = RefRoot(depth, ZeroId, leaves)
      /\ input.siblings = SlotsSoFar(depth, leaves, kept, padded, Len(padded))
      /\ input.newRoot = RefRoot(depth, ZeroId, new)
  BY <1>3 DEF PathRecord
<1>5. IsHeld("ordered", depth, new) /\ leaves \in Seq(NoteIds)
  BY <1>3 DEF IsHeld
<1>6. PathProves(input, depth)
  BY <1>1, <1>2, <1>3, <1>4, <1>5, PathProvesIs
<1> QED BY <1>4, <1>6 DEF input, new

\* What more leaves mean to each form, in terms of the longer row.
LEMMA TakesThen ==
    ASSUME NEW form \in TreeForms, NEW depth \in Nat, NEW leaves, IsHeld(form, depth, leaves),
           NEW more \in Seq(NoteIds), NEW new, new = Then(leaves, more)
    PROVE  /\ Takes(form, depth, leaves, more) <=> IsHeld(form, depth, new)
           /\ new \in Seq(NoteIds) /\ Len(new) = Len(leaves) + Len(more)
<1>1. leaves \in Seq(NoteIds)
  BY DEF IsHeld
<1>2. new = leaves \o more
  BY DEF Then
<1>3. leaves \o more \in Seq(NoteIds) /\ Len(leaves \o more) = Len(leaves) + Len(more)
  BY <1>1, ReadConcat
<1>4. new \in Seq(NoteIds) /\ Len(new) = Len(leaves) + Len(more)
  BY <1>2, <1>3
<1>5. Takes(form, depth, leaves, more) <=> IsHeld(form, depth, new)
  BY <1>2, <1>4 DEF Takes, IsHeld
<1> QED BY <1>4, <1>5

\* When `build_bound_pending_commitment` accepts a batch, for any form.
LEMMA BoundErrorIs ==
    ASSUME NEW form \in TreeForms, NEW depth \in Nat, NEW height \in Nat, NEW leaves,
           IsHeld(form, depth, leaves), NEW batchSize \in Nat, NEW ids \in Seq(NoteIds),
           NEW t, t = TreeOf(form, depth, height, leaves)
    PROVE  BoundError(t, batchSize, ids) = "ok"
             <=> /\ batchSize \in 1..MaxBatchSize /\ ids # <<>> /\ Len(ids) <= batchSize
                 /\ ZeroId \notin Range(ids) /\ IsInjective(ids)
                 /\ Takes(form, depth, leaves, ids)
<1>1. Len(ids) \in Nat /\ (Len(ids) = 0 <=> ids = <<>>) /\ Len(leaves) \in Nat /\ 2 ^ depth \in Nat
  BY LenProperties, EmptySeq, PowerNat DEF IsHeld
<1>2. Room(t) = 2 ^ depth - Len(leaves)
  BY ReadForm
<1>3. InsertManyError(t, ids) = "ok" <=> Takes(form, depth, leaves, ids)
  <2>1. Takes(form, depth, leaves, ids) => Len(ids) <= 2 ^ depth - Len(leaves)
    BY <1>1 DEF Takes
  <2> QED BY <2>1, InsertManyErrorIs
<1>4. Takes(form, depth, leaves, ids) /\ ids # <<>> => ~(Room(t) <= 0)
  BY <1>1, <1>2 DEF Takes
<1>5. BoundError(t, batchSize, ids) = "ok"
        <=> /\ batchSize \in 1..MaxBatchSize /\ ids # <<>> /\ Len(ids) <= batchSize
            /\ ZeroId \notin Range(ids) /\ IsInjective(ids)
            /\ ~(Room(t) <= 0) /\ InsertManyError(t, ids) = "ok"
  <2>1. CASE batchSize \notin 1..MaxBatchSize \/ ids = <<>> \/ Len(ids) > batchSize
    BY <1>1, <2>1 DEF BoundError
  <2>2. CASE batchSize \in 1..MaxBatchSize /\ ids # <<>> /\ Len(ids) <= batchSize
    BY <1>1, <2>2 DEF BoundError
  <2> QED BY <1>1, <2>1, <2>2
<1> QED BY <1>3, <1>4, <1>5

\* The circuit input of a bound batch, by the leaves before and after it.
BoundRecord(depth, leaves, new, padded) ==
    [currentIndex |-> Len(leaves), currentRoot |-> RefRoot(depth, ZeroId, leaves), ids |-> padded,
     frontier |-> ImtNextLeafFrontier(RefTree(depth, ZeroId, leaves), ZeroId),
     newRoot |-> RefRoot(depth, ZeroId, new), newIndex |-> Len(new),
     binding |-> padded \o <<RefRoot(depth, ZeroId, leaves), RefRoot(depth, ZeroId, new),
                             Len(leaves), Len(new)>>]

\* What `build_bound_pending_commitment` returns for a batch it accepts, and
\* the tree the bindings leave, whatever form the tree has.
LEMMA BoundInputIs ==
    ASSUME NEW form \in TreeForms, NEW depth \in Nat, NEW height \in Nat, NEW leaves,
           IsHeld(form, depth, leaves), NEW batchSize \in Nat, NEW ids \in Seq(NoteIds),
           NEW t, t = TreeOf(form, depth, height, leaves), BoundError(t, batchSize, ids) = "ok",
           NEW padded, padded = Padded(ids, batchSize), NEW new, new = Then(leaves, ids)
    PROVE  /\ IsHeld(form, depth, new) /\ new \in Seq(NoteIds)
           /\ Len(new) = Len(leaves) + Len(ids)
           /\ InsertedMany(t, ids) = TreeOf(form, depth, height, new)
           /\ BoundInput(t, batchSize, ids) = BoundRecord(depth, leaves, new, padded)
<1>1. Takes(form, depth, leaves, ids)
  BY BoundErrorIs
<1>2. new = leaves \o ids
  BY DEF Then
<1>3. IsHeld(form, depth, new) /\ new \in Seq(NoteIds) /\ Len(new) = Len(leaves) + Len(ids)
  BY <1>1, TakesThen
<1>4. InsertedMany(t, ids) = TreeOf(form, depth, height, new)
  BY <1>1, <1>2, InsertedManyIs
<1>5. /\ Count(t) = Len(leaves) /\ RootOf(t) = RefRoot(depth, ZeroId, leaves)
      /\ NextLeafFrontier(t) = ImtNextLeafFrontier(RefTree(depth, ZeroId, leaves), ZeroId)
  BY ReadForm
<1>6. /\ Count(TreeOf(form, depth, height, new)) = Len(new)
      /\ RootOf(TreeOf(form, depth, height, new)) = RefRoot(depth, ZeroId, new)
  <2> DEFINE after == TreeOf(form, depth, height, new)
  <2> HIDE DEF after
  <2>1. IsHeld(form, depth, new)
    BY <1>3
  <2>2. after = TreeOf(form, depth, height, new)
    BY DEF after
  <2>3. Count(after) = Len(new) /\ RootOf(after) = RefRoot(depth, ZeroId, new)
    BY <2>1, <2>2, ReadForm
  <2> QED BY <2>3 DEF after
<1>7. BoundInput(t, batchSize, ids) = BoundRecord(depth, leaves, new, padded)
  BY <1>4, <1>5, <1>6 DEF BoundInput, BoundRecord, Words
<1> QED BY <1>3, <1>4, <1>7

\* The frontier of a bound input is that of a notes frontier with room.
LEMMA SentFrontier ==
    ASSUME NEW depth \in Nat, NEW leaves \in Seq(NoteIds), Len(leaves) < 2 ^ depth, NEW sent,
           sent = ImtNextLeafFrontier(RefTree(depth, ZeroId, leaves), ZeroId)
    PROVE  [depth |-> depth, height |-> 1, count |-> Len(leaves),
            slots |-> [level \in {l \in 0..(depth - 1) : Bit(Len(leaves), l) = 1}
                          |-> sent[level + 1]]]
             = RefFrontier(depth, 1, leaves, ZeroId)
<1> DEFINE c == Len(leaves)
           f == RefFrontier(depth, 1, leaves, ZeroId)
           occupied == {l \in 0..(depth - 1) : Bit(c, l) = 1}
<1>1. c \in Nat
  BY LenProperties
<1>2. Bit(c, depth) = 0
  <2>1. Above(c, depth) = 0
    BY <1>1, AboveTop
  <2>2. Bit(c, depth) = Above(c, depth) % 2
    BY <1>1, BitOfPath
  <2> HIDE DEF c
  <2> QED BY <2>1, <2>2
<1>3. occupied = OccupiedLevels(c, depth)
  <2> HIDE DEF c
  <2>1. ASSUME NEW l \in 0..depth, Bit(c, l) = 1 PROVE l \in 0..(depth - 1)
    <3>1. l # depth
      BY <1>2, <2>1
    <3> QED BY <3>1
  <2> QED BY <2>1 DEF OccupiedLevels
<1>4. ASSUME NEW level \in occupied
      PROVE  sent[level + 1] = RefNode(leaves, ZeroId, level, Above(c, level) - 1)
  <2>1. sent = FrontierNextLeaf(f, ZeroId)
    BY NextLeafIsRef
  <2>2. level + 1 \in 1..depth /\ level \in 0..depth /\ (level + 1) - 1 = level /\ Bit(c, level) = 1
    BY <1>4
  <2>3. f.depth = depth /\ f.count = c
    BY DEF RefFrontier
  <2>4. f.slots[level] = RefNode(leaves, ZeroId, level, Above(c, level) - 1)
    BY <2>2, ReadSlot
  <2> HIDE DEF f, c, occupied
  <2>5. sent[level + 1] = f.slots[level]
    BY <2>1, <2>2, <2>3 DEF FrontierNextLeaf
  <2> QED BY <2>4, <2>5
<1> HIDE DEF occupied, c
<1>5. [level \in occupied |-> sent[level + 1]]
        = [level \in OccupiedLevels(c, depth) |->
              RefNode(leaves, ZeroId, level, Above(c, level) - 1)]
  BY <1>3, <1>4
<1> QED BY <1>5 DEF RefFrontier, occupied, c

\* Every accepted bound batch is an input its circuit can prove.
LEMMA BoundInputHolds ==
    ASSUME NEW form \in TreeForms, NEW depth \in Nat, NEW height \in Nat, NEW leaves,
           IsHeld(form, depth, leaves), NEW batchSize \in Nat, NEW ids \in Seq(NoteIds),
           NEW t, t = TreeOf(form, depth, height, leaves), BoundError(t, batchSize, ids) = "ok"
    PROVE  /\ BoundInput(t, batchSize, ids).newRoot
                = RefRoot(depth, ZeroId, Then(leaves, NonZero(ids)))
           /\ FrontierProves(BoundInput(t, batchSize, ids), depth)
<1> DEFINE padded == Padded(ids, batchSize)
           new == Then(leaves, ids)
           input == BoundInput(t, batchSize, ids)
           one == 1
<1>1. /\ Len(ids) <= batchSize /\ ZeroId \notin Range(ids) /\ ids # <<>>
      /\ Takes(form, depth, leaves, ids) /\ leaves \in Seq(NoteIds)
  BY BoundErrorIs DEF IsHeld
<1>2. NonZero(ids) = ids /\ NonZero(padded) = ids
  BY <1>1, NonZeroKeepsAll, NonZeroOfPadded
<1>3. /\ new \in Seq(NoteIds) /\ Len(new) = Len(leaves) + Len(ids) /\ IsHeld(form, depth, new)
      /\ input = BoundRecord(depth, leaves, new, padded)
  BY BoundInputIs
<1> HIDE DEF padded, input, one
<1>4. /\ input.ids = padded /\ input.currentIndex = Len(leaves) /\ input.newIndex = Len(new)
      /\ input.currentRoot = RefRoot(depth, ZeroId, leaves)
      /\ input.newRoot = RefRoot(depth, ZeroId, new)
      /\ input.frontier = ImtNextLeafFrontier(RefTree(depth, ZeroId, leaves), ZeroId)
  BY <1>3 DEF BoundRecord
<1>5. /\ Len(leaves) \in Nat /\ Len(ids) \in Nat /\ Len(leaves) + Len(ids) <= 2 ^ depth
      /\ 2 ^ depth \in Nat /\ Len(leaves) < 2 ^ depth
  <2>1. Len(leaves) \in Nat /\ Len(ids) \in Nat /\ Len(ids) # 0 /\ 2 ^ depth \in Nat
    BY <1>1, LenProperties, EmptySeq, PowerNat
  <2>2. Len(leaves) + Len(ids) <= 2 ^ depth
    BY <1>1 DEF Takes
  <2> QED BY <2>1, <2>2
<1> DEFINE before == [depth |-> depth, height |-> 1, count |-> input.currentIndex,
                      slots |-> [level \in {l \in 0..(depth - 1) : Bit(input.currentIndex, l) = 1}
                                    |-> input.frontier[level + 1]]]
<1>6. before = RefFrontier(depth, one, leaves, ZeroId)
  <2> DEFINE sent == input.frontier
  <2>1. sent = ImtNextLeafFrontier(RefTree(depth, ZeroId, leaves), ZeroId)
    BY <1>4
  <2> HIDE DEF sent
  <2>2. [depth |-> depth, height |-> 1, count |-> Len(leaves),
         slots |-> [level \in {l \in 0..(depth - 1) : Bit(Len(leaves), l) = 1}
                       |-> sent[level + 1]]]
          = RefFrontier(depth, 1, leaves, ZeroId)
    BY <1>1, <1>5, <2>1, SentFrontier
  <2> QED BY <1>4, <2>2 DEF sent, one
<1>7. one \in Nat
  BY DEF one
<1> DEFINE after == FrontierAppendMany(before, NonZero(input.ids)).frontier
<1> HIDE DEF before
<1>8. after = RefFrontier(depth, one, new, ZeroId)
  <2>1. NonZero(input.ids) = ids
    BY <1>2, <1>4
  <2>2. FrontierAppendMany(RefFrontier(depth, one, leaves, ZeroId), ids).frontier
          = RefFrontier(depth, one, leaves \o ids, ZeroId)
    BY <1>1, <1>5, <1>7, FrontierTakes
  <2> QED BY <1>6, <2>1, <2>2 DEF Then
<1> HIDE DEF after
<1>9. FrontierRoot(before, ZeroId) = input.currentRoot
  <2>1. FrontierRoot(RefFrontier(depth, one, leaves, ZeroId), ZeroId) = RefRoot(depth, ZeroId, leaves)
    <3>1. Len(leaves) <= 2 ^ depth
      BY <1>5
    <3> QED BY <1>5, <3>1, FrontierRootIsRef
  <2> QED BY <1>4, <1>6, <2>1
<1>10. FrontierRoot(after, ZeroId) = input.newRoot
  BY <1>3, <1>4, <1>5, <1>8, FrontierRootIsRef
<1>11. after.count = input.newIndex
  BY <1>4, <1>8 DEF RefFrontier
<1>12. FrontierProves(input, depth)
  BY <1>9, <1>10, <1>11 DEF FrontierProves, before, after
<1> QED BY <1>2, <1>4, <1>12 DEF input

\* Rows with no leaf in common.
LEMMA ThenInjective ==
    ASSUME NEW leaves \in Seq(NoteIds), NEW more \in Seq(NoteIds), NEW new,
           new = Then(leaves, more)
    PROVE  IsInjective(new) <=> /\ IsInjective(leaves) /\ IsInjective(more)
                                /\ Range(leaves) \cap Range(more) = {}
BY ReadConcat DEF Then

\* What a `Imt` of leaves counts and hashes to.
LEMMA CountAndRoot ==
    ASSUME NEW depth \in Nat, NEW leaves \in Seq(NoteIds), Len(leaves) <= 2 ^ depth
    PROVE  /\ ImtLeafCount(RefTree(depth, ZeroId, leaves)) = Len(leaves)
           /\ ImtRoot(RefTree(depth, ZeroId, leaves)) = RefRoot(depth, ZeroId, leaves)
<1> DEFINE t == TreeOf("ordered", depth, 0, leaves)
<1>1. IsHeld("ordered", depth, leaves) /\ "ordered" \in TreeForms
  BY DEF IsHeld, TreeForms
<1>2. t.form = "ordered" /\ t.tree = RefTree(depth, ZeroId, leaves)
  BY TreeParts
<1> HIDE DEF t
<1>3. Count(t) = Len(leaves) /\ RootOf(t) = RefRoot(depth, ZeroId, leaves)
  BY <1>1, ReadForm DEF t
<1> QED BY <1>2, <1>3 DEF Count, RootOf

\* The frontier and the indexed tree of one history of distinct leaves.
Twins(depth, height, leaves, f, x) ==
    /\ leaves \in Seq(NoteIds) /\ Len(leaves) <= 2 ^ depth /\ IsInjective(leaves)
    /\ f = TreeOf("frontier", depth, height, leaves)
    /\ x = TreeOf("indexed", depth, height, leaves)

LEMMA TwinsAreHeld ==
    ASSUME NEW depth \in Nat, NEW height \in Nat, NEW leaves, NEW f, NEW x,
           Twins(depth, height, leaves, f, x)
    PROVE  /\ IsHeld("frontier", depth, leaves) /\ IsHeld("indexed", depth, leaves)
           /\ "frontier" \in TreeForms /\ "indexed" \in TreeForms
           /\ "frontier" \in {"indexed", "frontier"} /\ "indexed" \in {"indexed", "frontier"}
           /\ leaves \in Seq(NoteIds) /\ Len(leaves) \in Nat /\ 2 ^ depth \in Nat
           /\ f = TreeOf("frontier", depth, height, leaves)
           /\ x = TreeOf("indexed", depth, height, leaves)
           /\ IsInjective(leaves)
BY LenProperties, PowerNat DEF Twins, IsHeld, TreeForms

\* Ids the indexed tree does not hold are no leaves of it.
LEMMA NoRepeats ==
    ASSUME NEW depth \in Nat, NEW height \in Nat, NEW leaves, NEW f, NEW x,
           Twins(depth, height, leaves, f, x), NEW ids \in Seq(NoteIds),
           ~\E id \in Range(ids) \ {ZeroId} : Holds(x, id)
    PROVE  /\ Range(leaves) \cap Range(NonZero(ids)) = {}
           /\ ZeroId \notin Range(ids) => Range(leaves) \cap Range(ids) = {}
<1>1. \A id : Holds(x, id) <=> id \in Range(leaves)
  <2>1. /\ IsHeld("indexed", depth, leaves) /\ x = TreeOf("indexed", depth, height, leaves)
        /\ "indexed" \in TreeForms
    BY TwinsAreHeld
  <2> QED BY <2>1, HoldsLeaf
<1>2. Range(NonZero(ids)) \subseteq Range(ids) \ {ZeroId}
  BY NonZeroIds
<1> QED BY <1>1, <1>2

\* Without repeats both forms give a bound batch the same answer.
LEMMA SameBoundError ==
    ASSUME NEW depth \in Nat, NEW height \in Nat, NEW leaves, NEW f, NEW x,
           Twins(depth, height, leaves, f, x), NEW ids \in Seq(NoteIds), NEW batchSize \in Nat,
           ~\E id \in Range(ids) \ {ZeroId} : Holds(x, id)
    PROVE  BoundError(f, batchSize, ids) = BoundError(x, batchSize, ids)
<1>1. /\ IsHeld("frontier", depth, leaves) /\ IsHeld("indexed", depth, leaves)
      /\ "frontier" \in TreeForms /\ "indexed" \in TreeForms
      /\ f = TreeOf("frontier", depth, height, leaves)
      /\ x = TreeOf("indexed", depth, height, leaves) /\ leaves \in Seq(NoteIds)
      /\ IsInjective(leaves)
  BY TwinsAreHeld
<1>2. Room(f) = 2 ^ depth - Len(leaves)
  BY <1>1, ReadForm
<1>3. Room(x) = 2 ^ depth - Len(leaves)
  BY <1>1, ReadForm
<1>4. ASSUME ZeroId \notin Range(ids), IsInjective(ids)
      PROVE  InsertManyError(f, ids) = InsertManyError(x, ids)
  <2>1. IsInjective(leaves \o ids)
    <3> DEFINE new == Then(leaves, ids)
    <3>1. Range(leaves) \cap Range(ids) = {}
      BY <1>4, NoRepeats
    <3>2. new = leaves \o ids
      BY DEF Then
    <3> HIDE DEF new
    <3>3. IsInjective(new)
      BY <1>1, <1>4, <3>1, ThenInjective DEF new
    <3> QED BY <3>2, <3>3
  <2>2. Takes("frontier", depth, leaves, ids) <=> Takes("indexed", depth, leaves, ids)
    BY <2>1 DEF Takes
  <2>3. InsertManyError(f, ids)
          = IF Len(ids) > 2 ^ depth - Len(leaves) THEN "TreeFull"
            ELSE IF Takes("frontier", depth, leaves, ids) THEN "ok" ELSE "DuplicateLeaf"
    BY <1>1, InsertManyErrorIs
  <2>4. InsertManyError(x, ids)
          = IF Len(ids) > 2 ^ depth - Len(leaves) THEN "TreeFull"
            ELSE IF Takes("indexed", depth, leaves, ids) THEN "ok" ELSE "DuplicateLeaf"
    BY <1>1, InsertManyErrorIs
  <2> QED BY <2>2, <2>3, <2>4
<1>5. Len(ids) \in Nat /\ (Len(ids) = 0 <=> ids = <<>>)
  BY LenProperties, EmptySeq
<1>6. CASE batchSize \notin 1..MaxBatchSize \/ ids = <<>> \/ Len(ids) > batchSize
  BY <1>5, <1>6 DEF BoundError
<1>7. CASE /\ batchSize \in 1..MaxBatchSize /\ ids # <<>> /\ Len(ids) <= batchSize
           /\ ZeroId \in Range(ids) \/ ~IsInjective(ids)
  BY <1>5, <1>7 DEF BoundError
<1>8. CASE /\ batchSize \in 1..MaxBatchSize /\ ids # <<>> /\ Len(ids) <= batchSize
           /\ ~(ZeroId \in Range(ids) \/ ~IsInjective(ids))
  <2> DEFINE e(t) == IF Room(t) <= 0 THEN "TreeFull" ELSE InsertManyError(t, ids)
  <2>1. BoundError(f, batchSize, ids) = e(f)
    BY <1>5, <1>8 DEF BoundError
  <2>2. BoundError(x, batchSize, ids) = e(x)
    BY <1>5, <1>8 DEF BoundError
  <2> QED BY <1>2, <1>3, <1>4, <1>8, <2>1, <2>2
<1> QED BY <1>5, <1>6, <1>7, <1>8

\* The notes of a batch both forms can take.
LEMMA SamePathError ==
    ASSUME NEW depth \in Nat, NEW height \in Nat, NEW leaves, NEW f, NEW x,
           Twins(depth, height, leaves, f, x), NEW ids \in Seq(NoteIds), NEW batchSize \in Nat
    PROVE  /\ PathError(x, batchSize, ids) = "ok" => PathError(f, batchSize, ids) = "ok"
           /\ PathError(f, batchSize, ids) = "ok"
              /\ (~\E id \in Range(ids) \ {ZeroId} : Holds(x, id))
                => PathError(x, batchSize, ids) = "ok"
<1> DEFINE new == Then(leaves, NonZero(ids))
           fits == /\ batchSize \in 1..MaxBatchSize /\ Len(ids) <= batchSize /\ ids # <<>>
                   /\ new \in Seq(NoteIds) /\ Len(new) <= 2 ^ depth
<1>1. /\ IsHeld("frontier", depth, leaves) /\ IsHeld("indexed", depth, leaves)
      /\ "frontier" \in {"indexed", "frontier"} /\ "indexed" \in {"indexed", "frontier"}
      /\ f = TreeOf("frontier", depth, height, leaves)
      /\ x = TreeOf("indexed", depth, height, leaves) /\ leaves \in Seq(NoteIds)
      /\ IsInjective(leaves)
  BY TwinsAreHeld
<1>2. PathError(f, batchSize, ids) = "ok"
        <=> /\ batchSize \in 1..MaxBatchSize /\ Len(ids) <= batchSize /\ ids # <<>>
            /\ IsInjective(NonZero(ids)) /\ IsHeld("frontier", depth, leaves \o NonZero(ids))
  BY <1>1, PathIs
<1>3. PathError(x, batchSize, ids) = "ok"
        <=> /\ batchSize \in 1..MaxBatchSize /\ Len(ids) <= batchSize /\ ids # <<>>
            /\ IsHeld("indexed", depth, leaves \o NonZero(ids))
  BY <1>1, PathIs
<1>4. NonZero(ids) \in Seq(NoteIds)
  BY NonZeroIds
<1>5. IsInjective(new) <=> /\ IsInjective(leaves) /\ IsInjective(NonZero(ids))
                           /\ Range(leaves) \cap Range(NonZero(ids)) = {}
  BY <1>1, <1>4, ThenInjective
<1>6. new = leaves \o NonZero(ids)
  BY DEF Then
<1> HIDE DEF new
<1>7. PathError(f, batchSize, ids) = "ok" <=> fits /\ IsInjective(NonZero(ids))
  BY <1>2, <1>6 DEF IsHeld
<1>8. PathError(x, batchSize, ids) = "ok" <=> fits /\ IsInjective(new)
  BY <1>3, <1>6 DEF IsHeld
<1> HIDE DEF fits
<1>9. ASSUME PathError(f, batchSize, ids) = "ok",
             ~\E id \in Range(ids) \ {ZeroId} : Holds(x, id)
      PROVE  PathError(x, batchSize, ids) = "ok"
  <2>1. Range(leaves) \cap Range(NonZero(ids)) = {}
    BY <1>9, NoRepeats
  <2> QED BY <1>1, <1>5, <1>7, <1>8, <1>9, <2>1
<1> QED BY <1>5, <1>7, <1>8, <1>9

\* Both forms build the same input for a bound batch.
LEMMA SameBoundInput ==
    ASSUME NEW depth \in Nat, NEW height \in Nat, NEW leaves, NEW f, NEW x,
           Twins(depth, height, leaves, f, x), NEW ids \in Seq(NoteIds), NEW batchSize \in Nat,
           BoundError(x, batchSize, ids) = "ok"
    PROVE  BoundInput(f, batchSize, ids) = BoundInput(x, batchSize, ids)
<1> DEFINE padded == Padded(ids, batchSize)
           new == Then(leaves, ids)
<1> HIDE DEF padded, new
<1>1. /\ IsHeld("frontier", depth, leaves) /\ IsHeld("indexed", depth, leaves)
      /\ "frontier" \in TreeForms /\ "indexed" \in TreeForms
      /\ f = TreeOf("frontier", depth, height, leaves)
      /\ x = TreeOf("indexed", depth, height, leaves)
  BY TwinsAreHeld
<1>2. /\ batchSize \in 1..MaxBatchSize /\ ids # <<>> /\ Len(ids) <= batchSize
      /\ ZeroId \notin Range(ids) /\ IsInjective(ids) /\ Takes("indexed", depth, leaves, ids)
  BY <1>1, BoundErrorIs
<1>3. Takes("frontier", depth, leaves, ids)
  BY <1>2 DEF Takes
<1>4. BoundError(f, batchSize, ids) = "ok"
  BY <1>1, <1>2, <1>3, BoundErrorIs
<1>5. BoundInput(f, batchSize, ids) = BoundRecord(depth, leaves, new, padded)
  BY <1>1, <1>4, BoundInputIs DEF padded, new
<1>6. BoundInput(x, batchSize, ids) = BoundRecord(depth, leaves, new, padded)
  BY <1>1, BoundInputIs DEF padded, new
<1> QED BY <1>5, <1>6

\* Both forms, and the core builder over the plain tree, build the same input
\* for a path batch the indexed tree accepts.
LEMMA SamePathInput ==
    ASSUME NEW depth \in Nat, NEW height \in Nat, NEW leaves, NEW f, NEW x,
           Twins(depth, height, leaves, f, x), NEW ids \in Seq(NoteIds), NEW batchSize \in Nat,
           PathError(x, batchSize, ids) = "ok"
    PROVE  /\ CoreAccepts(x.tree, batchSize, ids)
           /\ PathInput(f, batchSize, ids) = PathInput(x, batchSize, ids)
           /\ PathInput(x, batchSize, ids) = CoreInput(x.tree, batchSize, ids)
<1> DEFINE padded == Padded(ids, batchSize)
           new == Then(leaves, NonZero(ids))
           imt == RefTree(depth, ZeroId, leaves)
<1>1. /\ IsHeld("frontier", depth, leaves) /\ IsHeld("indexed", depth, leaves)
      /\ "frontier" \in {"indexed", "frontier"} /\ "indexed" \in {"indexed", "frontier"}
      /\ f = TreeOf("frontier", depth, height, leaves)
      /\ x = TreeOf("indexed", depth, height, leaves) /\ leaves \in Seq(NoteIds)
      /\ Len(leaves) \in Nat /\ 2 ^ depth \in Nat
  BY TwinsAreHeld
<1>2. padded \in Seq(NoteIds) /\ Len(padded) = batchSize
  BY PaddedIs
<1>3. PICK kept : IsKept(kept, padded) /\ NonZero(padded) = kept[Len(padded)]
  BY <1>2, KeptExists
<1>4. x.tree = imt
  BY <1>1, TreeParts
<1>5. batchSize \in 1..MaxBatchSize /\ Len(ids) <= batchSize
  BY <1>1, PathIs
<1> HIDE DEF padded, new, imt
<1>6. PathError(f, batchSize, ids) = "ok"
  BY SamePathError
<1> DEFINE record == PathRecord(depth, leaves, new, padded,
                                SlotsSoFar(depth, leaves, kept, padded, batchSize))
<1>7. PathInput(f, batchSize, ids) = record
  BY <1>1, <1>3, <1>6, PathInputIs DEF padded, new
<1>8. /\ PathInput(x, batchSize, ids) = record /\ IsHeld("indexed", depth, new)
      /\ new = Then(leaves, kept[Len(padded)])
  BY <1>1, <1>3, PathInputIs DEF padded, new
<1>9. NonZero(ids) \in Seq(NoteIds) /\ Len(NonZero(ids)) \in Nat
  BY NonZeroIds, LenProperties
<1>10. new \in Seq(NoteIds) /\ Len(new) = Len(leaves) + Len(NonZero(ids)) /\ Len(new) <= 2 ^ depth
  BY <1>1, <1>8, <1>9, ReadConcat DEF new, Then, IsHeld
<1>11. /\ ImtLeafCount(imt) = Len(leaves) /\ ImtRoot(imt) = RefRoot(depth, ZeroId, leaves)
  <2>1. Len(leaves) <= 2 ^ depth
    BY <1>1 DEF IsHeld
  <2> QED BY <1>1, <2>1, CountAndRoot DEF imt
<1>12. CoreAccepts(x.tree, batchSize, ids)
  <2>1. imt.depth = depth
    BY DEF imt, RefTree
  <2>2. MaxBatchSize \in Nat
    BY PendingAssumption
  <2>3. batchSize <= MaxBatchSize
    BY <1>5, <2>2
  <2>4. Len(NonZero(ids)) <= 2 ^ depth - Len(leaves)
    BY <1>1, <1>9, <1>10
  <2> QED BY <1>4, <1>5, <1>11, <2>1, <2>3, <2>4 DEF CoreAccepts, TreeCapacity
<1> DEFINE imtNew == RefTree(depth, ZeroId, new)
           done == CoreLoop(imt, padded)
<1>13. done = Working(imtNew, SlotsSoFar(depth, leaves, kept, padded, batchSize), "ok")
  <2>1. leaves \o NonZero(padded) = new
    BY <1>3, <1>8 DEF Then
  <2>2. CoreLoop(RefTree(depth, ZeroId, leaves), padded)
          = Working(RefTree(depth, ZeroId, leaves \o NonZero(padded)),
                    SlotsSoFar(depth, leaves, kept, padded, Len(padded)), "ok")
    BY <1>1, <1>2, <1>3, CoreLoopEnds
  <2> QED BY <1>2, <2>1, <2>2 DEF imt
<1>14. ImtLeafCount(imtNew) = Len(new) /\ ImtRoot(imtNew) = RefRoot(depth, ZeroId, new)
  BY <1>10, CountAndRoot
<1> HIDE DEF imtNew, done
<1>15. /\ done.tree = imtNew
       /\ done.siblings = SlotsSoFar(depth, leaves, kept, padded, batchSize)
  BY <1>13 DEF Working
<1>16. CoreInput(imt, batchSize, ids) = record
  BY <1>11, <1>14, <1>15 DEF CoreInput, PathRecord, padded, done
<1> QED BY <1>4, <1>7, <1>8, <1>12, <1>16

\* A frontier's snapshot is accepted and gives the frontier back.
LEMMA SnapshotGoesBack ==
    ASSUME NEW depth \in Nat, NEW height \in Nat, height # 0, height < depth,
           NEW leaves \in Seq(NoteIds), Len(leaves) <= 2 ^ depth, NEW f,
           f = RefFrontier(depth, height, leaves, ZeroId)
    PROVE  SnapshotAccepted(EncodeSnapshot(f)) /\ DecodeSnapshot(EncodeSnapshot(f)) = f
<1> DEFINE s == EncodeSnapshot(f)
<1>1. /\ s.depth = depth /\ s.height = height /\ s.count = Len(leaves)
      /\ s.slots = [k \in 1..(depth + 1) |-> s.slots[k]]
  <2>1. s = [depth |-> depth, height |-> height, count |-> Len(leaves), slots |-> s.slots]
        /\ s.slots = [k \in 1..(depth + 1) |-> s.slots[k]]
    BY SnapshotFields
  <2> HIDE DEF s
  <2> QED BY <2>1
<1>2. \A k \in 1..(depth + 1) : s.slots[k].present <=> Bit(Len(leaves), k - 1) = 1
  BY SnapshotSlots
<1> HIDE DEF s
<1>3. DOMAIN s.slots = 1..(depth + 1) /\ Len(s.slots) = depth + 1
  <2>1. DOMAIN s.slots = 1..(depth + 1)
    BY <1>1
  <2> DEFINE slots == s.slots
             n == depth + 1
             T == {slots[k] : k \in 1..n}
  <2>2. slots \in [1..n -> T] /\ n \in Nat
    BY <1>1
  <2>3. DOMAIN slots = 1..n
    BY <2>1
  <2> HIDE DEF slots, n, T
  <2>4. slots \in Seq(T)
    BY <2>2, SeqDef
  <2>5. Len(slots) = n
    BY <2>2, <2>3, <2>4, LenProperties
  <2> QED BY <2>1, <2>5 DEF slots, n
<1>4. SnapshotAccepted(s)
  BY <1>1, <1>2, <1>3 DEF SnapshotAccepted, TreeCapacity
<1>5. DecodeSnapshot(s) = f
  BY DecodeIsRef DEF s
<1> QED BY <1>4, <1>5 DEF s

\* The inductive invariant: whatever form the tree has, it is the one its
\* leaves determine, and the stored snapshot is that of a frontier.
IsNotes(form, depth, height, leaves) ==
    /\ form \in TreeForms /\ depth \in Nat /\ height \in Nat
    /\ IsHeld(form, depth, leaves)
    /\ notes = TreeOf(form, depth, height, leaves)
    /\ form = "frontier" => height # 0 /\ height < depth /\ history = leaves

IsSnapshot(snapshots) ==
    \/ snapshots = <<>>
    \/ \E depth \in Nat, height \in Nat, leaves \in Seq(NoteIds) :
          /\ height # 0 /\ height < depth /\ Len(leaves) <= 2 ^ depth
          /\ snapshots = <<[bytes |-> EncodeSnapshot(RefFrontier(depth, height, leaves, ZeroId)),
                            history |-> leaves]>>

PendingInv ==
    /\ \E form, depth, height, leaves : IsNotes(form, depth, height, leaves)
    /\ IsSnapshot(stored)

\* The tree read through its form.
LEMMA ReadNotes ==
    ASSUME NEW form, NEW depth, NEW height, NEW leaves, IsNotes(form, depth, height, leaves)
    PROVE  /\ form \in TreeForms /\ depth \in Nat /\ height \in Nat /\ IsHeld(form, depth, leaves)
           /\ notes = TreeOf(form, depth, height, leaves) /\ leaves \in Seq(NoteIds)
           /\ notes.form = form /\ Depth(notes) = depth /\ Count(notes) = Len(leaves)
           /\ HeldLeaves = leaves
<1>1. /\ form \in TreeForms /\ depth \in Nat /\ height \in Nat /\ IsHeld(form, depth, leaves)
      /\ notes = TreeOf(form, depth, height, leaves) /\ leaves \in Seq(NoteIds)
      /\ form = "frontier" => history = leaves
  BY DEF IsNotes, IsHeld
<1>2. notes.form = form /\ Depth(notes) = depth /\ Count(notes) = Len(leaves)
  BY <1>1, ReadForm
<1>3. form # "frontier" => notes.tree = RefTree(depth, ZeroId, leaves)
  BY <1>1, TreeParts DEF TreeForms
<1>4. HeldLeaves = leaves
  BY <1>1, <1>2, <1>3, ReadLeaves DEF HeldLeaves, ImtLeaves
<1> QED BY <1>1, <1>2, <1>4

\* The lists the calls are given.
LEMMA ListIsSeq == \A ids \in Lists : ids \in Seq(NoteIds)
<1> SUFFICES ASSUME NEW n \in 0..MaxIds, NEW ids \in [1..n -> NoteIds] PROVE ids \in Seq(NoteIds)
  BY DEF Lists
<1>1. n \in Nat
  BY PendingAssumption
<1> QED BY <1>1, SeqDef

\* An empty tree of each form is the one of no leaves.
LEMMA PendingInitInv == PendingInit => PendingInv
<1> SUFFICES ASSUME PendingInit PROVE \E form, depth, height, leaves :
                                         IsNotes(form, depth, height, leaves)
  BY DEF PendingInit, PendingInv, IsSnapshot
<1> DEFINE none == <<>>
<1>1. none \in Seq(NoteIds) /\ Len(none) = 0 /\ IsInjective(none)
  BY EmptySeq DEF IsInjective
<1>2. ASSUME NEW depth \in Nat PROVE 0 <= 2 ^ depth
  <2> DEFINE p == 2 ^ depth
  <2>1. p \in Nat
    BY PowerNat
  <2> HIDE DEF p
  <2>2. 0 <= p
    BY <2>1
  <2> QED BY <2>2 DEF p
<1>3. history = none
  BY DEF PendingInit
<1>4. ASSUME NEW depth \in TreeDepths, notes = IndexedFromLeaves(depth, <<>>)
      PROVE  IsNotes("indexed", depth, 0, none)
  <2>1. depth \in Nat
    BY PendingAssumption
  <2>2. ImtFromLeaves(depth, ZeroId, none) = RefTree(depth, ZeroId, none)
    BY <1>1, <2>1, BuiltIsRef
  <2>3. notes = TreeOf("indexed", depth, 0, none)
    BY <1>4, <2>2, TreeParts DEF IndexedFromLeaves
  <2> HIDE DEF none
  <2> QED BY <1>1, <1>2, <2>1, <2>3 DEF IsNotes, IsHeld, TreeForms
<1>5. ASSUME NEW depth \in TreeDepths, notes = OrderedFromLeaves(depth, <<>>)
      PROVE  IsNotes("ordered", depth, 0, none)
  <2>1. depth \in Nat
    BY PendingAssumption
  <2>2. ImtFromLeaves(depth, ZeroId, none) = RefTree(depth, ZeroId, none)
    BY <1>1, <2>1, BuiltIsRef
  <2>3. notes = TreeOf("ordered", depth, 0, none)
    BY <1>5, <2>2, TreeParts DEF OrderedFromLeaves
  <2> HIDE DEF none
  <2> QED BY <1>1, <1>2, <2>1, <2>3 DEF IsNotes, IsHeld, TreeForms
<1>6. ASSUME NEW g \in Geometries, Admitted(g), notes = FrontierTree(FrontierNew(g[1], g[2]))
      PROVE  IsNotes("frontier", g[1], g[2], none)
  <2> DEFINE depth == g[1]
             height == g[2]
  <2>1. depth \in Nat /\ height \in Nat /\ height # 0 /\ height < depth
    BY <1>6, PendingAssumption DEF Admitted
  <2>2. FrontierNew(depth, height) = RefFrontier(depth, height, none, ZeroId)
    BY <2>1, NewFrontierIsRef
  <2> HIDE DEF none
  <2>3. notes = TreeOf("frontier", depth, height, none)
    BY <1>6, <2>2, TreeParts
  <2> HIDE DEF depth, height
  <2>4. IsNotes("frontier", depth, height, none)
    BY <1>1, <1>2, <1>3, <2>1, <2>3 DEF IsNotes, IsHeld, TreeForms
  <2> QED BY <2>4 DEF depth, height
<1> QED BY <1>4, <1>5, <1>6 DEF PendingInit

\* A call that leaves the tree of some leaves, of the form and shape it had.
LEMMA NowHolds ==
    ASSUME NEW form, NEW depth, NEW height, NEW leaves, IsNotes(form, depth, height, leaves),
           IsSnapshot(stored), UNCHANGED stored, NEW new, IsHeld(form, depth, new),
           notes' = TreeOf(form, depth, height, new), form = "frontier" => history' = new
    PROVE  PendingInv'
<1>1. IsNotes(form, depth, height, new)'
  BY DEF IsNotes
<1>2. IsSnapshot(stored)'
  BY DEF IsSnapshot
<1> QED BY <1>1, <1>2 DEF PendingInv

\* A refused call leaves the invariant.
LEMMA RefusedHolds ==
    ASSUME PendingInv, UNCHANGED <<notes, history, stored>>
    PROVE  PendingInv'
<1>1. PICK form, depth, height, leaves : IsNotes(form, depth, height, leaves)
  BY DEF PendingInv
<1>2. IsNotes(form, depth, height, leaves)'
  BY <1>1 DEF IsNotes
<1>3. IsSnapshot(stored)'
  BY DEF PendingInv
<1> QED BY <1>2, <1>3 DEF PendingInv

\* Inserting one leaf or many, and taking leaves back.
LEMMA EditStep ==
    ASSUME PendingInv,
           \/ \E leaf \in NoteIds : InsertNote(leaf)
           \/ \E leaves \in Lists : InsertNotes(leaves)
           \/ \E count \in 0..(TreeCapacity(Depth(notes)) + 1) : TruncateNotes(count)
    PROVE  PendingInv'
<1>1. PICK form, depth, height, leaves : IsNotes(form, depth, height, leaves)
  BY DEF PendingInv
<1>2. IsSnapshot(stored)
  BY DEF PendingInv
<1>3. /\ form \in TreeForms /\ depth \in Nat /\ height \in Nat /\ IsHeld(form, depth, leaves)
      /\ notes = TreeOf(form, depth, height, leaves) /\ leaves \in Seq(NoteIds)
      /\ notes.form = form /\ Count(notes) = Len(leaves)
      /\ HeldLeaves = leaves
  BY <1>1, ReadNotes
<1>4. form = "frontier" => history = leaves
  BY <1>1 DEF IsNotes
<1>5. CASE UNCHANGED <<notes, history, stored>>
  BY <1>5, RefusedHolds
<1>6. ASSUME NEW leaf \in NoteIds, InsertNote(leaf), ~UNCHANGED <<notes, history, stored>>
      PROVE  PendingInv'
  <2>1. /\ form # "frontier" /\ InsertError(notes, leaf) = "ok"
        /\ notes' = Inserted(notes, leaf) /\ UNCHANGED <<history, stored>>
    BY <1>3, <1>6 DEF InsertNote, Refused
  <2> DEFINE new == Append(leaves, leaf)
  <2>2. IsHeld(form, depth, new)
    BY <1>3, <2>1, InsertErrorIs
  <2>3. form \in {"indexed", "ordered"}
    BY <1>3, <2>1 DEF TreeForms
  <2>4. notes' = TreeOf(form, depth, height, new)
    BY <1>3, <2>1, <2>2, <2>3, InsertedIs
  <2> HIDE DEF new
  <2> QED BY <1>1, <1>2, <2>1, <2>2, <2>4, NowHolds
<1>7. ASSUME NEW more \in Lists, InsertNotes(more), ~UNCHANGED <<notes, history, stored>>
      PROVE  PendingInv'
  <2>1. more \in Seq(NoteIds)
    BY ListIsSeq
  <2>2. /\ InsertManyError(notes, more) = "ok" /\ notes' = InsertedMany(notes, more)
        /\ Logged(more) /\ UNCHANGED stored
    BY <1>7 DEF InsertNotes, Refused
  <2> DEFINE new == Then(leaves, more)
  <2>3. Takes(form, depth, leaves, more)
    BY <1>3, <2>1, <2>2, InsertManyErrorIs
  <2>4. IsHeld(form, depth, new)
    BY <1>3, <2>1, <2>3, TakesThen
  <2>5. InsertedMany(notes, more) = TreeOf(form, depth, height, leaves \o more)
    BY <1>3, <2>1, <2>3, InsertedManyIs
  <2>6. notes' = TreeOf(form, depth, height, new)
    BY <2>2, <2>5 DEF Then
  <2>7. form = "frontier" => history' = new
    BY <1>3, <1>4, <2>2 DEF Logged, Then
  <2> HIDE DEF new
  <2> QED BY <1>1, <1>2, <2>2, <2>4, <2>6, <2>7, NowHolds
<1>8. ASSUME NEW count \in 0..(TreeCapacity(Depth(notes)) + 1), TruncateNotes(count),
             ~UNCHANGED <<notes, history, stored>>
      PROVE  PendingInv'
  <2>1. /\ form = "indexed" /\ count <= Count(notes) /\ notes' = Truncated(notes, count)
        /\ UNCHANGED <<history, stored>>
    BY <1>3, <1>8 DEF TruncateNotes, Refused
  <2>2. count \in 0..Len(leaves)
    BY <1>3, <2>1, LenProperties
  <2> DEFINE new == SubSeq(leaves, 1, count)
  <2>3. notes' = TreeOf(form, depth, height, new) /\ IsHeld(form, depth, new)
    BY <1>3, <2>1, <2>2, TruncatedIs
  <2> HIDE DEF new
  <2> QED BY <1>1, <1>2, <2>1, <2>3, NowHolds
<1> QED BY <1>5, <1>6, <1>7, <1>8

\* Storing a frontier, and going back to what is stored.
LEMMA StoreStep ==
    ASSUME PendingInv, Store \/ GoBack
    PROVE  PendingInv'
<1>1. PICK form, depth, height, leaves : IsNotes(form, depth, height, leaves)
  BY DEF PendingInv
<1>2. /\ form \in TreeForms /\ depth \in Nat /\ height \in Nat /\ IsHeld(form, depth, leaves)
      /\ notes = TreeOf(form, depth, height, leaves) /\ leaves \in Seq(NoteIds)
      /\ notes.form = form
  BY <1>1, ReadNotes
<1>3. CASE Store
  <2>1. /\ form = "frontier" /\ UNCHANGED <<notes, history>>
        /\ stored' = <<[bytes |-> EncodeSnapshot(notes.frontier), history |-> history]>>
    BY <1>2, <1>3 DEF Store
  <2>2. height # 0 /\ height < depth /\ history = leaves /\ Len(leaves) <= 2 ^ depth
    BY <1>1, <2>1 DEF IsNotes, IsHeld
  <2>3. notes.frontier = RefFrontier(depth, height, leaves, ZeroId)
    BY <1>2, <2>1, TreeParts
  <2>4. IsSnapshot(stored)'
    BY <1>2, <2>1, <2>2, <2>3 DEF IsSnapshot
  <2>5. IsNotes(form, depth, height, leaves)'
    BY <1>1, <2>1 DEF IsNotes
  <2> QED BY <2>4, <2>5 DEF PendingInv
<1>4. CASE GoBack
  <2>1. /\ stored # <<>> /\ notes' = FrontierTree(DecodeSnapshot(stored[1].bytes))
        /\ history' = stored[1].history /\ UNCHANGED stored
    BY <1>4 DEF GoBack
  <2>2. PICK d \in Nat, h \in Nat, row \in Seq(NoteIds) :
           /\ h # 0 /\ h < d /\ Len(row) <= 2 ^ d
           /\ stored = <<[bytes |-> EncodeSnapshot(RefFrontier(d, h, row, ZeroId)),
                          history |-> row]>>
    BY <2>1 DEF PendingInv, IsSnapshot
  <2>3. DecodeSnapshot(stored[1].bytes) = RefFrontier(d, h, row, ZeroId) /\ stored[1].history = row
    BY <2>2, DecodeIsRef
  <2>4. notes' = TreeOf("frontier", d, h, row)
    BY <2>1, <2>3, TreeParts
  <2>5. IsNotes("frontier", d, h, row)'
    BY <2>1, <2>2, <2>3, <2>4 DEF IsNotes, IsHeld, TreeForms
  <2>6. IsSnapshot(stored)'
    BY <2>1 DEF PendingInv, IsSnapshot
  <2> QED BY <2>5, <2>6 DEF PendingInv
<1> QED BY <1>3, <1>4

\* Appending a batch through either builder.
LEMMA BuildStep ==
    ASSUME PendingInv,
           \/ \E batchSize \in BatchSizes, ids \in Lists : BuildPath(batchSize, ids)
           \/ \E batchSize \in BatchSizes, ids \in Lists : BuildBound(batchSize, ids)
    PROVE  PendingInv'
<1>1. PICK form, depth, height, leaves : IsNotes(form, depth, height, leaves)
  BY DEF PendingInv
<1>2. IsSnapshot(stored)
  BY DEF PendingInv
<1>3. /\ form \in TreeForms /\ depth \in Nat /\ height \in Nat /\ IsHeld(form, depth, leaves)
      /\ notes = TreeOf(form, depth, height, leaves) /\ leaves \in Seq(NoteIds)
      /\ notes.form = form
  BY <1>1, ReadNotes
<1>4. form = "frontier" => history = leaves
  BY <1>1 DEF IsNotes
<1>5. CASE UNCHANGED <<notes, history, stored>>
  BY <1>5, RefusedHolds
<1>6. ASSUME NEW batchSize \in BatchSizes, NEW ids \in Lists, BuildPath(batchSize, ids),
             ~UNCHANGED <<notes, history, stored>>
      PROVE  PendingInv'
  <2>1. ids \in Seq(NoteIds) /\ batchSize \in Nat
    BY ListIsSeq, PendingAssumption DEF BatchSizes
  <2>2. /\ form # "ordered" /\ PathError(notes, batchSize, ids) = "ok"
        /\ notes' = AfterPath(notes, batchSize, ids)
        /\ Logged(NonZero(ids)) /\ UNCHANGED stored
    BY <1>3, <1>6 DEF BuildPath, Refused
  <2>3. form \in {"indexed", "frontier"}
    BY <1>3, <2>2 DEF TreeForms
  <2> DEFINE new == Then(leaves, NonZero(ids))
             padded == Padded(ids, batchSize)
  <2>4. padded \in Seq(NoteIds)
    BY <2>1, PaddedIs
  <2>5. PICK kept : IsKept(kept, padded) /\ NonZero(padded) = kept[Len(padded)]
    BY <2>4, KeptExists
  <2>6. IsHeld(form, depth, new) /\ notes' = TreeOf(form, depth, height, new)
    BY <1>3, <2>1, <2>2, <2>3, <2>5, PathInputIs
  <2>7. form = "frontier" => history' = new
    BY <1>3, <1>4, <2>2 DEF Logged, Then
  <2> HIDE DEF new
  <2> QED BY <1>1, <1>2, <2>2, <2>6, <2>7, NowHolds
<1>7. ASSUME NEW batchSize \in BatchSizes, NEW ids \in Lists, BuildBound(batchSize, ids),
             ~UNCHANGED <<notes, history, stored>>
      PROVE  PendingInv'
  <2>1. ids \in Seq(NoteIds) /\ batchSize \in Nat
    BY ListIsSeq, PendingAssumption DEF BatchSizes
  <2>2. /\ BoundError(notes, batchSize, ids) = "ok" /\ notes' = InsertedMany(notes, ids)
        /\ Logged(ids) /\ UNCHANGED stored
    BY <1>3, <1>7 DEF BuildBound, Refused
  <2> DEFINE new == Then(leaves, ids)
             padded == Padded(ids, batchSize)
  <2>3. IsHeld(form, depth, new) /\ notes' = TreeOf(form, depth, height, new)
    BY <1>3, <2>1, <2>2, BoundInputIs
  <2>4. form = "frontier" => history' = new
    BY <1>3, <1>4, <2>2 DEF Logged, Then
  <2> HIDE DEF new
  <2> QED BY <1>1, <1>2, <2>2, <2>3, <2>4, NowHolds
<1> QED BY <1>5, <1>6, <1>7

\* Every step keeps the tree the one its leaves determine.
LEMMA PendingStep ==
    ASSUME PendingInv, [PendingNext]_pendingVars
    PROVE  PendingInv'
<1>1. CASE UNCHANGED pendingVars
  BY <1>1, RefusedHolds DEF pendingVars
<1>2. CASE PendingNext
  BY <1>2, EditStep, StoreStep, BuildStep DEF PendingNext
<1> QED BY <1>1, <1>2

\* For every set of ids, depth, geometry and batch size: after any inserts,
\* truncations, snapshots and batches, refused ones included, the notes tree
\* of either form is the tree, or the frontier, of the leaves it stands for.
THEOREM NotesStayReference == PendingSpec => []PendingInv
<1>1. PendingInit => PendingInv
  BY PendingInitInv
<1>2. PendingInv /\ [PendingNext]_pendingVars => PendingInv'
  BY PendingStep
<1> QED BY <1>1, <1>2, PTL DEF PendingSpec

\* A refused call, a batch refused at its last note included, leaves the tree
\* as it was: by the shape of every call alone.
LEMMA RefusedStep ==
    ASSUME [PendingNext]_pendingVars
    PROVE  [RefusedNotesStay]_pendingVars
<1>1. CASE UNCHANGED pendingVars
  BY <1>1
<1>2. ASSUME NEW leaf \in NoteIds, InsertNote(leaf) PROVE RefusedNotesStay
  BY <1>2 DEF InsertNote, Refused, RefusedNotesStay
<1>3. ASSUME NEW leaves \in Lists, InsertNotes(leaves) PROVE RefusedNotesStay
  BY <1>3 DEF InsertNotes, Refused, RefusedNotesStay
<1>4. ASSUME NEW count \in 0..(TreeCapacity(Depth(notes)) + 1), TruncateNotes(count)
      PROVE  RefusedNotesStay
  BY <1>4 DEF TruncateNotes, Refused, RefusedNotesStay
<1>5. CASE Store \/ GoBack
  BY <1>5 DEF Store, GoBack, RefusedNotesStay
<1>6. ASSUME NEW batchSize \in BatchSizes, NEW ids \in Lists, BuildPath(batchSize, ids)
      PROVE  RefusedNotesStay
  BY <1>6 DEF BuildPath, Refused, RefusedNotesStay
<1>7. ASSUME NEW batchSize \in BatchSizes, NEW ids \in Lists, BuildBound(batchSize, ids)
      PROVE  RefusedNotesStay
  BY <1>7 DEF BuildBound, Refused, RefusedNotesStay
<1> QED BY <1>1, <1>2, <1>3, <1>4, <1>5, <1>6, <1>7 DEF PendingNext

\* `IndexedMerkleTree::indices` is what its leaf row says.
LEMMA IndexHolds == PendingInv => IndexMirrorsLeaves
<1> SUFFICES ASSUME PendingInv, notes.form = "indexed"
             PROVE  /\ DOMAIN notes.indices = Range(HeldLeaves)
                    /\ \A k \in DOMAIN HeldLeaves : notes.indices[HeldLeaves[k]] = k - 1
  BY DEF IndexMirrorsLeaves
<1>1. PICK form, depth, height, leaves : IsNotes(form, depth, height, leaves)
  BY DEF PendingInv
<1>2. /\ form = "indexed" /\ IsHeld(form, depth, leaves) /\ leaves \in Seq(NoteIds)
      /\ notes = TreeOf(form, depth, height, leaves) /\ HeldLeaves = leaves
  BY <1>1, ReadNotes
<1>3. IsInjective(leaves) /\ notes.indices = IndexOf(leaves)
  BY <1>2, TreeParts DEF IsHeld
<1>4. DOMAIN leaves = 1..Len(leaves)
  BY <1>2, LenProperties
<1> QED BY <1>2, <1>3, <1>4, IndexOfLeaves

\* Both builders' inputs are provable.
LEMMA InputsHold == PendingInv => BuiltInputsProve
<1> SUFFICES ASSUME PendingInv, notes.form # "ordered",
                    NEW ids \in Lists, NEW batchSize \in 1..MaxBatchSize
             PROVE  /\ PathError(notes, batchSize, ids) = "ok" => PathInputProves(batchSize, ids)
                    /\ BoundError(notes, batchSize, ids) = "ok" => BoundInputProves(batchSize, ids)
  BY DEF BuiltInputsProve
<1>1. PICK form, depth, height, leaves : IsNotes(form, depth, height, leaves)
  BY DEF PendingInv
<1>2. /\ form \in TreeForms /\ depth \in Nat /\ height \in Nat /\ IsHeld(form, depth, leaves)
      /\ notes = TreeOf(form, depth, height, leaves) /\ notes.form = form
      /\ Depth(notes) = depth /\ HeldLeaves = leaves
  BY <1>1, ReadNotes
<1>3. form \in {"indexed", "frontier"}
  BY <1>2 DEF TreeForms
<1>4. ids \in Seq(NoteIds) /\ batchSize \in Nat
  BY ListIsSeq, PendingAssumption
<1>5. ASSUME PathError(notes, batchSize, ids) = "ok" PROVE PathInputProves(batchSize, ids)
  <2>1. /\ PathInput(notes, batchSize, ids).newRoot
             = RefRoot(depth, ZeroId, Then(leaves, NonZero(ids)))
        /\ PathProves(PathInput(notes, batchSize, ids), depth)
    BY <1>2, <1>3, <1>4, <1>5, PathInputHolds
  <2> QED BY <1>2, <2>1 DEF PathInputProves, Then
<1>6. ASSUME BoundError(notes, batchSize, ids) = "ok" PROVE BoundInputProves(batchSize, ids)
  <2>1. /\ BoundInput(notes, batchSize, ids).newRoot
             = RefRoot(depth, ZeroId, Then(leaves, NonZero(ids)))
        /\ FrontierProves(BoundInput(notes, batchSize, ids), depth)
    BY <1>2, <1>4, <1>6, BoundInputHolds
  <2> QED BY <1>2, <2>1 DEF BoundInputProves, Then
<1> QED BY <1>5, <1>6

\* The two forms and the core builder agree.
LEMMA FormsHold == PendingInv => FormsBuildTheSameInput
<1> DEFINE x == IndexedFromLeaves(Depth(notes), history)
<1> SUFFICES ASSUME PendingInv, notes.form = "frontier", IsInjective(history),
                    NEW ids \in Lists, NEW batchSize \in BatchSizes
             PROVE  LET repeats == \E id \in Range(ids) \ {ZeroId} : Holds(x, id)
                    IN  /\ ~repeats =>
                             /\ BoundError(notes, batchSize, ids) = BoundError(x, batchSize, ids)
                             /\ (PathError(notes, batchSize, ids) = "ok")
                                  <=> (PathError(x, batchSize, ids) = "ok")
                        /\ BoundError(x, batchSize, ids) = "ok" =>
                             BoundInput(notes, batchSize, ids) = BoundInput(x, batchSize, ids)
                        /\ PathError(x, batchSize, ids) = "ok" =>
                             /\ CoreAccepts(x.tree, batchSize, ids)
                             /\ PathInput(notes, batchSize, ids) = PathInput(x, batchSize, ids)
                             /\ PathInput(x, batchSize, ids) = CoreInput(x.tree, batchSize, ids)
  BY DEF FormsBuildTheSameInput
<1>1. PICK form, depth, height, leaves : IsNotes(form, depth, height, leaves)
  BY DEF PendingInv
<1>2. /\ form = "frontier" /\ depth \in Nat /\ height \in Nat /\ IsHeld(form, depth, leaves)
      /\ notes = TreeOf(form, depth, height, leaves) /\ Depth(notes) = depth
  BY <1>1, ReadNotes
<1>3. history = leaves /\ leaves \in Seq(NoteIds) /\ Len(leaves) <= 2 ^ depth
  BY <1>1, <1>2 DEF IsNotes, IsHeld
<1>4. x = TreeOf("indexed", depth, height, leaves)
  <2>1. ImtFromLeaves(depth, ZeroId, leaves) = RefTree(depth, ZeroId, leaves)
    BY <1>2, <1>3, BuiltIsRef
  <2> QED BY <1>2, <1>3, <2>1, TreeParts DEF IndexedFromLeaves
<1>5. Twins(depth, height, leaves, notes, x)
  BY <1>2, <1>3, <1>4 DEF Twins
<1>6. ids \in Seq(NoteIds) /\ batchSize \in Nat
  BY ListIsSeq, PendingAssumption DEF BatchSizes
<1> HIDE DEF x
<1>7. ASSUME ~\E id \in Range(ids) \ {ZeroId} : Holds(x, id)
      PROVE  /\ BoundError(notes, batchSize, ids) = BoundError(x, batchSize, ids)
             /\ (PathError(notes, batchSize, ids) = "ok") <=> (PathError(x, batchSize, ids) = "ok")
  <2>1. BoundError(notes, batchSize, ids) = BoundError(x, batchSize, ids)
    BY <1>2, <1>5, <1>6, <1>7, SameBoundError
  <2>2. (PathError(notes, batchSize, ids) = "ok") <=> (PathError(x, batchSize, ids) = "ok")
    BY <1>2, <1>5, <1>6, <1>7, SamePathError
  <2> QED BY <2>1, <2>2
<1>8. ASSUME BoundError(x, batchSize, ids) = "ok"
      PROVE  BoundInput(notes, batchSize, ids) = BoundInput(x, batchSize, ids)
  BY <1>2, <1>5, <1>6, <1>8, SameBoundInput
<1>9. ASSUME PathError(x, batchSize, ids) = "ok"
      PROVE  /\ CoreAccepts(x.tree, batchSize, ids)
             /\ PathInput(notes, batchSize, ids) = PathInput(x, batchSize, ids)
             /\ PathInput(x, batchSize, ids) = CoreInput(x.tree, batchSize, ids)
  BY <1>2, <1>5, <1>6, <1>9, SamePathInput
<1> QED BY <1>7, <1>8, <1>9

\* A batch can be taken back.
LEMMA BackHolds == PendingInv => BatchesCanBeTakenBack
<1> SUFFICES ASSUME PendingInv PROVE BatchesCanBeTakenBack
  OBVIOUS
<1>1. PICK form, depth, height, leaves : IsNotes(form, depth, height, leaves)
  BY DEF PendingInv
<1>2. /\ form \in TreeForms /\ depth \in Nat /\ height \in Nat /\ IsHeld(form, depth, leaves)
      /\ notes = TreeOf(form, depth, height, leaves) /\ notes.form = form
      /\ Count(notes) = Len(leaves) /\ leaves \in Seq(NoteIds)
  BY <1>1, ReadNotes
<1>3. ASSUME form = "indexed", NEW ids \in Lists, NEW batchSize \in 1..MaxBatchSize,
             PathError(notes, batchSize, ids) = "ok"
      PROVE  Truncated(AfterPath(notes, batchSize, ids), Count(notes)) = notes
  <2>1. ids \in Seq(NoteIds) /\ batchSize \in Nat /\ form \in {"indexed", "frontier"}
    BY <1>3, ListIsSeq, PendingAssumption
  <2> DEFINE new == Then(leaves, NonZero(ids))
             padded == Padded(ids, batchSize)
             more == NonZero(ids)
  <2>2. padded \in Seq(NoteIds) /\ more \in Seq(NoteIds)
    BY <2>1, PaddedIs, NonZeroIds
  <2>3. PICK kept : IsKept(kept, padded) /\ NonZero(padded) = kept[Len(padded)]
    BY <2>2, KeptExists
  <2>4. IsHeld(form, depth, new) /\ AfterPath(notes, batchSize, ids) = TreeOf(form, depth, height, new)
    BY <1>2, <1>3, <2>1, <2>3, PathInputIs
  <2> HIDE DEF more
  <2>5. Takes(form, depth, leaves, more)
    BY <1>2, <2>2, <2>4, TakesThen DEF more
  <2>6. Truncated(TreeOf("indexed", depth, height, leaves \o more), Len(leaves))
          = TreeOf("indexed", depth, height, leaves)
    BY <1>2, <1>3, <2>2, <2>5, TakenBack
  <2> QED BY <1>2, <1>3, <2>4, <2>6 DEF Then, more
<1>4. ASSUME form = "indexed", NEW ids \in Lists, NEW batchSize \in 1..MaxBatchSize,
             BoundError(notes, batchSize, ids) = "ok"
      PROVE  Truncated(InsertedMany(notes, ids), Count(notes)) = notes
  <2>1. ids \in Seq(NoteIds) /\ batchSize \in Nat
    BY ListIsSeq, PendingAssumption
  <2>2. Takes(form, depth, leaves, ids)
    BY <1>2, <1>4, <2>1, BoundErrorIs
  <2>3. InsertedMany(notes, ids) = TreeOf(form, depth, height, leaves \o ids)
    BY <1>2, <2>1, <2>2, InsertedManyIs
  <2>4. Truncated(TreeOf("indexed", depth, height, leaves \o ids), Len(leaves))
          = TreeOf("indexed", depth, height, leaves)
    BY <1>2, <1>4, <2>1, <2>2, TakenBack
  <2> QED BY <1>2, <1>4, <2>3, <2>4
<1>5. ASSUME form = "frontier"
      PROVE  /\ SnapshotAccepted(EncodeSnapshot(notes.frontier))
             /\ DecodeSnapshot(EncodeSnapshot(notes.frontier)) = notes.frontier
  <2>1. height # 0 /\ height < depth /\ Len(leaves) <= 2 ^ depth
    BY <1>1, <1>5 DEF IsNotes, IsHeld
  <2>2. notes.frontier = RefFrontier(depth, height, leaves, ZeroId)
    BY <1>2, <1>5, TreeParts
  <2> QED BY <1>2, <2>1, <2>2, SnapshotGoesBack
<1> QED BY <1>2, <1>3, <1>4, <1>5 DEF BatchesCanBeTakenBack

\* For every set of ids, depth, geometry and batch size: whatever either
\* builder accepts, over a tree that holds earlier batches of which some were
\* taken back, is an input its circuit can prove and leads to the root of the
\* flat tree over the old leaves and the new notes; both forms build the same
\* input; the index of leaves follows; and a batch can be taken back.
THEOREM BuiltInputsProveTheNewRoot == PendingSpec => []InputsProveTheNewRoot
<1>1. PendingInv => InputsProveTheNewRoot
  BY IndexHolds, InputsHold, FormsHold, BackHolds DEF InputsProveTheNewRoot
<1> QED BY <1>1, NotesStayReference, PTL

\* What the suite needs to know of the frontier, when it is the one that runs.
SuiteInv == part = "frontier" => FrontierInv

\* For every value of the constants of the three components: a call that
\* reports an error leaves the frontier, or the notes tree, as it was, though
\* it may fail in the middle of its loop.
THEOREM RefusalsChangeNothing == SuiteSpec => RefusedCallsChangeNothing
<1> DEFINE Kept == /\ part = "frontier" => FailedAppendsChangeNothing
                   /\ part = "pending" => RefusedNotesStay
<1>1. SuiteInit => SuiteInv
  BY FrontierInitInv DEF SuiteInit, SuiteInv
<1>2. SuiteInv /\ [SuiteNext]_suiteVars => SuiteInv'
  <2> SUFFICES ASSUME SuiteInv, [SuiteNext]_suiteVars, part' = "frontier" PROVE FrontierInv'
    BY DEF SuiteInv
  <2>1. part = "frontier" /\ [FrontierNext]_frontierVars
    BY DEF SuiteNext, suiteVars, frontierVars
  <2> QED BY <2>1, FrontierStep DEF SuiteInv
<1>3. SuiteInv /\ [SuiteNext]_suiteVars => [Kept]_suiteVars
  <2> SUFFICES ASSUME SuiteInv, SuiteNext PROVE Kept \/ UNCHANGED suiteVars
    BY DEF suiteVars
  <2>1. CASE part = "imt"
    BY <2>1
  <2>2. CASE part = "frontier" /\ FrontierNext
    BY <2>2, FrontierStep DEF SuiteInv, FailedAppendsChangeNothing
  <2>3. CASE part = "pending" /\ PendingNext
    <3>1. RefusedNotesStay \/ UNCHANGED pendingVars
      BY <2>3, RefusedStep
    <3>2. UNCHANGED pendingVars => RefusedNotesStay
      BY DEF pendingVars, RefusedNotesStay
    <3> QED BY <2>3, <3>1, <3>2
  <2> QED BY <2>1, <2>2, <2>3 DEF SuiteNext
<1> QED BY <1>1, <1>2, <1>3, PTL DEF SuiteSpec, RefusedCallsChangeNothing
=============================================================================
