----------------------- MODULE ShardedNotesTree_proofs -----------------------
(***************************************************************************)
(* Safety of the sharded notes tree, alone and with its storage, for every *)
(* geometry, every set of notes and every batch size.  IInv is about the   *)
(* bookkeeping of owned notes; RefInv adds that the trees and the frozen   *)
(* paths are those of the whole log; StoreInv adds the stored tables.      *)
(***************************************************************************)
EXTENDS NotesStore, MerkleOps_proofs

\* `1 << shard_height` leaves make a shard: at least one.
LEMMA ShardSizePositive == ShardSize \in Nat \ {0}
    BY GeometryAssumption, PowerPositive DEF ShardSize, TreeCapacity

\* `leaf_index >> shard_height` and `leaf_index & (shard_size - 1)` split an
\* index into a shard and a place in it.
LEMMA Split ==
    ASSUME NEW i \in Nat
    PROVE  /\ Shard(i) \in Nat
           /\ Within(i) \in 0..(ShardSize - 1)
           /\ i = ShardSize * Shard(i) + Within(i)
<1> USE ShardSizePositive
<1>1. \A s \in Nat \ {0} : /\ i \div s \in Nat /\ i % s \in 0..(s - 1)
                           /\ i = s * (i \div s) + (i % s)
  <2> SUFFICES ASSUME NEW s \in Nat \ {0}
               PROVE  /\ i \div s \in Nat /\ i % s \in 0..(s - 1)
                      /\ i = s * (i \div s) + (i % s)
      OBVIOUS
  <2>1. i \div s \in Nat
      OBVIOUS
  <2>2. i % s \in 0..(s - 1)
      OBVIOUS
  <2>3. i = s * (i \div s) + (i % s)
      BY SMTT(60)
  <2> QED
      BY <2>1, <2>2, <2>3
<1> QED
    BY <1>1 DEF Shard, Within

\* Indices are ordered by shard, then by place in the shard.
LEMMA Ordered ==
    ASSUME NEW s \in Nat \ {0}, NEW q \in Nat, NEW r \in 0..(s - 1), NEW c \in Nat, NEW l \in 0..s
    PROVE  s * q + r < s * c + l <=> q < c \/ (q = c /\ r < l)
<1>1. CASE q < c
  <2>1. s * q + s <= s * c
      BY <1>1
  <2> QED
      BY <1>1, <2>1
<1>2. CASE q > c
  <2>1. s * c + s <= s * q
      BY <1>2
  <2> QED
      BY <1>2, <2>1
<1>3. CASE q = c
    BY <1>3
<1> QED
    BY <1>1, <1>2, <1>3

\* The leaf at `index` is in the tree if its shard is completed, or if it is
\* among the first `count` of the live shard.
LEMMA Before ==
    ASSUME NEW index \in Nat, NEW c \in Nat, NEW count \in 0..ShardSize
    PROVE  index < c * ShardSize + count
               <=> Shard(index) < c \/ (Shard(index) = c /\ Within(index) < count)
<1> USE ShardSizePositive
<1>1. /\ Shard(index) \in Nat /\ Within(index) \in 0..(ShardSize - 1)
      /\ index = ShardSize * Shard(index) + Within(index)
    BY Split
<1>2. c * ShardSize = ShardSize * c
    OBVIOUS
<1> HIDE DEF ShardSize
<1> QED
    BY <1>1, <1>2, Ordered

-----------------------------------------------------------------------------
\* The inductive invariant.  Its parts about leaves say that the live shard
\* holds what `live_leaves` caches, that the cap has a leaf per shard begun,
\* and that an owned note whose leaf is in the live shard is there.
IsSequence(s) == \E S : s \in Seq(S)

LeavesOK ==
    /\ IsSequence(completed)
    /\ liveLeaves \in Seq(Notes) /\ Len(liveLeaves) < ShardSize

TreesOK ==
    /\ IsTree(live, ShardHeight) /\ ImtLeaves(live) = liveLeaves
    /\ IsTree(cap, CapDepth)
    /\ ImtLeafCount(cap) = Len(completed) + (IF liveLeaves = <<>> THEN 0 ELSE 1)

RowsOK ==
    \A n \in DOMAIN owned :
        /\ owned[n].leaf_index \in Nat
        /\ owned[n] = [leaf_index |-> owned[n].leaf_index, path |-> owned[n].path]

InPlace ==
    \A n \in DOMAIN owned :
        LET index == owned[n].leaf_index
        IN  Shard(index) = Len(completed) /\ Within(index) < Len(liveLeaves)
                => liveLeaves[Within(index) + 1] = n

\* What is left of a batch was checked when the batch arrived.
PendingFree ==
    /\ pending \in Seq(Notes)
    /\ \A k \in 1..Len(pending) : ~LeafTaken(LeafCount + k - 1, pending[k])

TreeInv == LeavesOK /\ TreesOK /\ RowsOK /\ IndexesMirror /\ FrozenIffCompleted /\ InPlace

IInv == TreeInv /\ PendingFree

\* Shards and cap both have levels.
LEMMA Heights == ShardHeight \in Nat \ {0} /\ CapDepth \in Nat \ {0}
    BY GeometryAssumption DEF CapDepth

\* The counts are natural numbers.
LEMMA Counts ==
    ASSUME LeavesOK
    PROVE  /\ Len(completed) \in Nat /\ Len(liveLeaves) \in 0..(ShardSize - 1)
           /\ LeafCount \in Nat
<1>1. Len(completed) \in Nat /\ Len(liveLeaves) \in Nat
    BY DEF LeavesOK, IsSequence
<1>2. \A a \in Nat, b \in Nat, c \in Nat : a * b + c \in Nat
    OBVIOUS
<1> QED
    BY <1>1, <1>2, ShardSizePositive DEF LeavesOK, LeafCount

\* `ShardedNotesTree::new` satisfies the inductive invariant.
LEMMA InitIInv == Init => IInv
<1> SUFFICES ASSUME Init PROVE IInv
    OBVIOUS
<1>1. LeavesOK
    BY ShardSizePositive DEF Init, LeavesOK, IsSequence
<1>2. TreesOK
  <2>1. /\ completed = <<>> /\ liveLeaves = <<>>
        /\ live = ImtNew(ShardHeight, FieldZero) /\ cap = ImtNew(CapDepth, CapZero)
      BY DEF Init
  <2>2. /\ IsTree(live, ShardHeight) /\ ImtLeaves(live) = <<>>
        /\ IsTree(cap, CapDepth) /\ ImtLeaves(cap) = <<>>
      BY <2>1, NewTree, Heights
  <2> QED
      BY <2>1, <2>2 DEF TreesOK, ImtLeafCount
<1>3. RowsOK /\ IndexesMirror /\ FrozenIffCompleted /\ InPlace
    BY DEF Init, RowsOK, IndexesMirror, FrozenIffCompleted, InPlace
<1>4. PendingFree
    BY DEF Init, PendingFree
<1> QED
    BY <1>1, <1>2, <1>3, <1>4 DEF IInv, TreeInv

\* The cap always has a place for the live root.
LEMMA CapAlwaysFits ==
    ASSUME TreeInv, NEW root
    PROVE  /\ CapFits
           /\ IsTree(SyncedCap(root), CapDepth)
           /\ ImtLeafCount(SyncedCap(root)) = Len(completed) + 1
<1>1. /\ IsTree(cap, CapDepth) /\ CapDepth \in Nat /\ Len(completed) \in Nat
      /\ ImtLeafCount(cap) \in {Len(completed), Len(completed) + 1}
    BY Heights, Counts DEF TreeInv, TreesOK
<1>2. CASE ImtLeafCount(cap) = Len(completed)
    BY <1>1, <1>2, InsertedTree DEF SyncedCap, CapFits
<1>3. CASE ImtLeafCount(cap) = Len(completed) + 1
    BY <1>1, <1>3, UpdatedTree DEF SyncedCap, CapFits
<1> QED
    BY <1>1, <1>2, <1>3

\* A note marked at one of the leaves being appended is that leaf.
LEMMA AbsorbedInPlace ==
    ASSUME TreeInv, NEW added \in Seq(Notes), Len(liveLeaves) + Len(added) <= ShardSize,
           \A k \in 1..Len(added) : ~LeafTaken(LeafCount + k - 1, added[k]),
           NEW n \in DOMAIN owned, Shard(owned[n].leaf_index) = Len(completed),
           Within(owned[n].leaf_index) < Len(liveLeaves) + Len(added)
    PROVE  (liveLeaves \o added)[Within(owned[n].leaf_index) + 1] = n
<1> PICK index, w : index = owned[n].leaf_index /\ w = Within(index)
    OBVIOUS
<1>1. index \in Nat /\ w \in Nat /\ index = Len(completed) * ShardSize + w
  <2>1. index \in Nat
      BY DEF TreeInv, RowsOK
  <2>2. Len(completed) \in Nat /\ ShardSize \in Nat
      BY Counts, ShardSizePositive DEF TreeInv
  <2>3. w \in 0..(ShardSize - 1) /\ index = ShardSize * Len(completed) + w
      BY <2>1, Split
  <2>4. ShardSize * Len(completed) = Len(completed) * ShardSize
      BY <2>2
  <2> QED
      BY <2>1, <2>2, <2>3, <2>4
<1>2. /\ liveLeaves \in Seq(Notes) /\ Len(liveLeaves) \in Nat /\ Len(added) \in Nat
      /\ \A i \in 1..(Len(liveLeaves) + Len(added)) :
            (liveLeaves \o added)[i]
              = IF i <= Len(liveLeaves) THEN liveLeaves[i] ELSE added[i - Len(liveLeaves)]
    BY ConcatProperties DEF TreeInv, LeavesOK
<1>3. CASE w < Len(liveLeaves)
  <2>1. liveLeaves[w + 1] = n
      BY <1>3 DEF TreeInv, InPlace
  <2> QED
      BY <1>1, <1>2, <1>3, <2>1
<1>4. CASE ~(w < Len(liveLeaves))
  <2> DEFINE k == w - Len(liveLeaves) + 1
  <2>1. k \in 1..Len(added)
      BY <1>1, <1>2, <1>4
  <2>2. LeafCount + k - 1 = index
    <3>1. Len(completed) * ShardSize \in Nat
        BY Counts, ShardSizePositive DEF TreeInv
    <3> QED
        BY <1>1, <1>2, <3>1 DEF LeafCount
  <2>3. ownedLeaves[index] = n /\ index \in DOMAIN ownedLeaves
      BY DEF TreeInv, IndexesMirror
  <2>4. added[k] = n
      BY <2>1, <2>2, <2>3 DEF LeafTaken
  <2>5. (liveLeaves \o added)[w + 1] = added[k]
      BY <1>1, <1>2, <1>4, <2>1
  <2> QED
      BY <2>4, <2>5
<1> QED
    BY <1>3, <1>4

\* `roll_over` finds every note it has to freeze.
LEMMA NoneLost ==
    ASSUME TreeInv, NEW shard, NEW added \in Seq(Notes),
           IsTree(shard, ShardHeight), ImtLeaves(shard) = liveLeaves \o added,
           Len(liveLeaves) + Len(added) = ShardSize,
           \A k \in 1..Len(added) : ~LeafTaken(LeafCount + k - 1, added[k])
    PROVE  Lost(shard) = {}
<1> SUFFICES ASSUME NEW n \in Freezing PROVE LeafIs(shard, Within(owned[n].leaf_index), n)
    BY DEF Lost
<1>1. /\ n \in DOMAIN owned /\ Shard(owned[n].leaf_index) = Len(completed)
      /\ owned[n].leaf_index \in Nat
    BY DEF Freezing, TreeInv, RowsOK
<1>2. Within(owned[n].leaf_index) \in 0..(ShardSize - 1)
    BY <1>1, Split
<1>3. Len(ImtLeaves(shard)) = ShardSize
  <2>1. liveLeaves \in Seq(Notes)
      BY DEF TreeInv, LeavesOK
  <2>2. Len(liveLeaves \o added) = Len(liveLeaves) + Len(added)
      BY <2>1, ConcatProperties
  <2> QED
      BY <2>2
<1>4. (liveLeaves \o added)[Within(owned[n].leaf_index) + 1] = n
  <2>1. /\ Len(liveLeaves) + Len(added) <= ShardSize
        /\ Within(owned[n].leaf_index) < Len(liveLeaves) + Len(added)
      BY <1>2, ShardSizePositive
  <2> QED
      BY <1>1, <2>1, AbsorbedInPlace
<1> QED
    BY <1>2, <1>3, <1>4, ShardSizePositive DEF LeafIs, ImtLeafCount, At

\* Freezing changes nothing but paths.
LEMMA Frozen ==
    ASSUME RowsOK, NEW notes \in SUBSET Freezing, NEW shard, IsTree(shard, ShardHeight),
           owned' = Freeze(notes, shard)
    PROVE  /\ DOMAIN owned' = DOMAIN owned
           /\ RowsOK'
           /\ \A n \in DOMAIN owned :
                 /\ owned'[n].leaf_index = owned[n].leaf_index
                 /\ n \in notes => owned'[n].path # NoPath
                 /\ n \notin notes => owned'[n].path = owned[n].path
<1>1. DOMAIN owned' = DOMAIN owned
    BY DEF Freeze
<1>2. ASSUME NEW n \in DOMAIN owned
      PROVE  /\ owned'[n].leaf_index = owned[n].leaf_index
             /\ owned'[n] = [leaf_index |-> owned'[n].leaf_index, path |-> owned'[n].path]
             /\ n \in notes => owned'[n].path # NoPath
             /\ n \notin notes => owned'[n].path = owned[n].path
  <2>1. owned[n] = [leaf_index |-> owned[n].leaf_index, path |-> owned[n].path]
      BY DEF RowsOK
  <2>2. CASE n \in notes
    <3> DEFINE path == ImtSiblings(shard, Within(owned[n].leaf_index))
    <3>1. owned'[n] = [owned[n] EXCEPT !.path = path]
        BY <2>2 DEF Freeze
    <3>2. path # NoPath
        BY Heights, SiblingsOfTree DEF NoPath
    <3> HIDE DEF path
    <3>3. owned'[n] = [leaf_index |-> owned[n].leaf_index, path |-> path]
        BY <2>1, <3>1
    <3> QED
        BY <2>2, <3>2, <3>3
  <2>3. CASE n \notin notes
    <3>1. owned'[n] = owned[n]
        BY <2>3 DEF Freeze
    <3> QED
        BY <2>1, <2>3, <3>1
  <2> QED
      BY <2>2, <2>3
<1> QED
    BY <1>1, <1>2 DEF RowsOK

\* `completed_roots.push`.
LEMMA AppendedSequence ==
    ASSUME NEW s, IsSequence(s), NEW e
    PROVE  IsSequence(Append(s, e)) /\ Len(Append(s, e)) = Len(s) + 1
<1>1. PICK S : s \in Seq(S)
    BY DEF IsSequence
<1>2. s \in Seq(S \cup {e}) /\ e \in S \cup {e}
    BY <1>1, SeqMonotonic
<1> QED
    BY <1>2, AppendProperties DEF IsSequence

\* The common tail of `append` and of a turn of `append_many` never fails,
\* and takes all of its leaves.
LEMMA AbsorbKeepsTreeInv ==
    ASSUME TreeInv, NEW shard, NEW leaves, NEW added \in Seq(Notes), added # <<>>,
           leaves = liveLeaves \o added, Len(liveLeaves) + Len(added) <= ShardSize,
           IsTree(shard, ShardHeight), ImtLeaves(shard) = leaves,
           \A k \in 1..Len(added) : ~LeafTaken(LeafCount + k - 1, added[k]),
           Absorb(shard, leaves, added)
    PROVE  /\ TreeInv' /\ result' = "ok"
           /\ LeafCount' = LeafCount + Len(added)
           /\ UNCHANGED ownedLeaves
<1>1. /\ liveLeaves \in Seq(Notes) /\ Len(liveLeaves) \in Nat /\ Len(added) \in Nat \ {0}
      /\ Len(completed) \in Nat /\ ShardSize \in Nat \ {0}
      /\ LeafCount = Len(completed) * ShardSize + Len(liveLeaves)
  <2>1. Len(added) \in Nat \ {0}
      BY DEF TreeInv, LeavesOK
  <2> QED
      BY <2>1, Counts, ShardSizePositive DEF TreeInv, LeavesOK, LeafCount
<1>2. /\ leaves \in Seq(Notes) /\ Len(leaves) = Len(liveLeaves) + Len(added)
      /\ \A i \in 1..Len(liveLeaves) : leaves[i] = liveLeaves[i]
    BY <1>1, ConcatProperties
<1>3. leaves # <<>>
    BY <1>1, <1>2
<1>4. /\ CapFits
      /\ IsTree(SyncedCap(ImtRoot(shard)), CapDepth)
      /\ ImtLeafCount(SyncedCap(ImtRoot(shard))) = Len(completed) + 1
    BY CapAlwaysFits
<1>5. /\ cap' = SyncedCap(ImtRoot(shard)) /\ UNCHANGED ownedLeaves
      /\ IF Len(leaves) = ShardSize
         THEN RollOver(shard, leaves)
         ELSE /\ live' = shard /\ liveLeaves' = leaves
              /\ result' = "ok"
              /\ UNCHANGED <<completed, owned, dirty>>
    BY <1>4 DEF Absorb
<1>6. /\ RowsOK /\ IndexesMirror /\ FrozenIffCompleted /\ InPlace
    BY DEF TreeInv
<1>7. CASE Len(leaves) # ShardSize
  <2>1. /\ live' = shard /\ liveLeaves' = leaves /\ result' = "ok"
        /\ UNCHANGED <<completed, owned, dirty>>
      BY <1>5, <1>7
  <2>2. LeavesOK'
      BY <1>1, <1>2, <1>7, <2>1 DEF TreeInv, LeavesOK
  <2>3. TreesOK'
      BY <1>3, <1>4, <1>5, <2>1 DEF TreesOK
  <2>4. RowsOK' /\ IndexesMirror' /\ FrozenIffCompleted'
      BY <1>5, <1>6, <2>1 DEF RowsOK, IndexesMirror, FrozenIffCompleted
  <2>5. InPlace'
      BY <1>2, <2>1, AbsorbedInPlace DEF InPlace
  <2>6. LeafCount' = LeafCount + Len(added)
    <3>1. Len(completed) * ShardSize \in Nat
        BY <1>1
    <3> QED
        BY <1>1, <1>2, <2>1, <3>1 DEF LeafCount
  <2> QED
      BY <1>5, <2>1, <2>2, <2>3, <2>4, <2>5, <2>6 DEF TreeInv
<1>8. CASE Len(leaves) = ShardSize
  <2>1. Lost(shard) = {}
      BY <1>2, <1>8, NoneLost
  <2>2. /\ owned' = Freeze(Freezing, shard)
        /\ completed' = Append(completed, ImtRoot(shard))
        /\ live' = ImtNew(ShardHeight, FieldZero)
        /\ liveLeaves' = <<>>
        /\ result' = "ok"
      BY <1>5, <1>8, <2>1 DEF RollOver, FreezeOwned
  <2>3. /\ DOMAIN owned' = DOMAIN owned
        /\ RowsOK'
        /\ \A n \in DOMAIN owned :
              /\ owned'[n].leaf_index = owned[n].leaf_index
              /\ n \in Freezing => owned'[n].path # NoPath
              /\ n \notin Freezing => owned'[n].path = owned[n].path
      BY <1>6, <2>2, Frozen
  <2>4. IsSequence(completed)' /\ Len(completed') = Len(completed) + 1
      BY <2>2, AppendedSequence DEF TreeInv, LeavesOK
  <2>5. LeavesOK'
    <3>1. liveLeaves' \in Seq(Notes) /\ Len(liveLeaves') < ShardSize
        BY <1>1, <2>2
    <3> QED
        BY <2>4, <3>1 DEF LeavesOK
  <2>6. TreesOK'
    <3>1. IsTree(live', ShardHeight) /\ ImtLeaves(live') = <<>>
        BY <2>2, NewTree, Heights
    <3> QED
        BY <1>4, <1>5, <2>2, <2>4, <3>1 DEF TreesOK
  <2>7. IndexesMirror'
      BY <1>5, <1>6, <2>3 DEF IndexesMirror
  <2>8. FrozenIffCompleted'
    <3> SUFFICES ASSUME NEW n \in DOMAIN owned
                 PROVE  owned'[n].path # NoPath
                          <=> Shard(owned'[n].leaf_index) < Len(completed) + 1
        BY <2>3, <2>4 DEF FrozenIffCompleted
    <3>1. Shard(owned[n].leaf_index) \in Nat
        BY <1>6, Split DEF RowsOK
    <3>2. owned[n].path # NoPath <=> Shard(owned[n].leaf_index) < Len(completed)
        BY <1>6 DEF FrozenIffCompleted
    <3>3. n \in Freezing
            <=> Shard(owned[n].leaf_index) = Len(completed) /\ owned[n].path = NoPath
        BY DEF Freezing
    <3> QED
        BY <1>1, <2>3, <3>1, <3>2, <3>3
  <2>9. InPlace'
    <3> SUFFICES ASSUME NEW n \in DOMAIN owned
                 PROVE  ~(Within(owned'[n].leaf_index) < 0)
        BY <2>2, <2>3 DEF InPlace
    <3>1. Within(owned[n].leaf_index) \in 0..(ShardSize - 1)
        BY <1>6, Split DEF RowsOK
    <3>2. Within(owned'[n].leaf_index) = Within(owned[n].leaf_index)
        BY <2>3
    <3> QED
        BY <3>1, <3>2
  <2>10. LeafCount' = LeafCount + Len(added)
    <3>1. (Len(completed) + 1) * ShardSize = Len(completed) * ShardSize + ShardSize
        BY <1>1
    <3>2. Len(completed) * ShardSize \in Nat
        BY <1>1
    <3>3. LeafCount' = (Len(completed) + 1) * ShardSize
        BY <2>2, <2>4, <3>1, <3>2, <1>1 DEF LeafCount
    <3>4. LeafCount + Len(added) = Len(completed) * ShardSize + ShardSize
      <4>1. PICK m, l, a : m = Len(completed) * ShardSize /\ l = Len(liveLeaves) /\ a = Len(added)
          OBVIOUS
      <4>2. m \in Nat /\ l \in Nat /\ a \in Nat /\ l + a = ShardSize /\ LeafCount = m + l
          BY <1>1, <1>2, <1>8, <3>2, <4>1
      <4>3. (m + l) + a = m + (l + a)
          BY <4>2
      <4> QED
          BY <4>1, <4>2, <4>3
    <3> QED
        BY <3>1, <3>3, <3>4
  <2> QED
      BY <1>5, <2>2, <2>3, <2>5, <2>6, <2>7, <2>8, <2>9, <2>10 DEF TreeInv
<1> QED
    BY <1>7, <1>8
-----------------------------------------------------------------------------
\* A call that fails changes nothing.
Quiet == result' # "ok" => UNCHANGED <<treeVars, log>>

\* What touches neither the trees nor the indexes keeps the invariant.
LEMMA Unmoved ==
    ASSUME IInv, UNCHANGED <<completed, live, liveLeaves, cap, owned, ownedLeaves, pending>>
    PROVE  IInv'
<1>1. LeavesOK' /\ TreesOK' /\ RowsOK'
    BY DEF IInv, TreeInv, LeavesOK, TreesOK, RowsOK
<1>2. IndexesMirror' /\ FrozenIffCompleted' /\ InPlace'
    BY DEF IInv, TreeInv, IndexesMirror, FrozenIffCompleted, InPlace
<1>3. LeafCount' = LeafCount /\ \A i, n : LeafTaken(i, n)' <=> LeafTaken(i, n)
    BY DEF LeafCount, LeafTaken
<1>4. PendingFree'
    BY <1>3 DEF IInv, PendingFree
<1> QED
    BY <1>1, <1>2, <1>4 DEF IInv, TreeInv

\* A call refused by its checks keeps the invariant and changes nothing.
LEMMA Refused ==
    ASSUME IInv, NEW error, Refuse(error)
    PROVE  IInv' /\ Quiet
<1>1. UNCHANGED <<treeVars, pending, log>>
    BY DEF Refuse
<1> QED
    BY <1>1, Unmoved DEF treeVars, Quiet

\* `append`.
LEMMA AppendNoteKeepsIInv ==
    ASSUME IInv, NEW note \in Notes, AppendNote(note)
    PROVE  IInv' /\ Quiet
<1>1. CASE /\ AppendError(<<note>>) = "ok"
           /\ Absorb(ImtInsert(live, note), Append(liveLeaves, note), <<note>>)
           /\ UNCHANGED pending
  <2>1. /\ TreeInv /\ liveLeaves \in Seq(Notes)
        /\ IsTree(live, ShardHeight) /\ ImtLeaves(live) = liveLeaves
      BY DEF IInv, TreeInv, LeavesOK, TreesOK
  <2>2. /\ <<note>> \in Seq(Notes) /\ <<note>> # <<>> /\ Len(<<note>>) = 1
        /\ Append(liveLeaves, note) = liveLeaves \o <<note>>
      BY <2>1, AppendIsConcat
  <2>3. Len(liveLeaves) + Len(<<note>>) <= ShardSize
      BY <2>1, <2>2, Counts, ShardSizePositive DEF TreeInv
  <2>4. /\ IsTree(ImtInsert(live, note), ShardHeight)
        /\ ImtLeaves(ImtInsert(live, note)) = Append(liveLeaves, note)
      BY <2>1, InsertedTree, Heights
  <2>5. \A k \in 1..Len(<<note>>) : ~LeafTaken(LeafCount + k - 1, <<note>>[k])
      BY <1>1 DEF AppendError
  <2>6. TreeInv' /\ result' = "ok"
      BY <1>1, <2>1, <2>2, <2>3, <2>4, <2>5, AbsorbKeepsTreeInv
  <2>7. PendingFree'
      BY <1>1 DEF AppendNote, Idle, PendingFree
  <2> QED
      BY <2>6, <2>7 DEF IInv, Quiet
<1>2. CASE Refuse(AppendError(<<note>>))
    BY <1>2, Refused
<1> QED
    BY <1>1, <1>2 DEF AppendNote

\* `append_many` up to its loop: the checks cover the whole batch.
LEMMA AppendManyKeepsIInv ==
    ASSUME IInv, NEW notes \in Batches, AppendMany(notes)
    PROVE  IInv' /\ Quiet
<1>1. CASE /\ AppendError(notes) = "ok"
           /\ pending' = notes /\ result' = "ok"
           /\ UNCHANGED <<treeVars, log>>
  <2>1. notes \in Seq(Notes)
    <3>1. PICK n \in 0..MaxBatch : notes \in [1..n -> Notes]
        BY DEF Batches
    <3>2. n \in Nat
        BY InputAssumption
    <3> QED
        BY <3>1, <3>2, SeqDef
  <2>2. \A k \in 1..Len(notes) : ~LeafTaken(LeafCount + k - 1, notes[k])
    <3>1. DOMAIN notes = 1..Len(notes)
        BY <2>1
    <3> QED
        BY <1>1, <3>1 DEF AppendError
  <2>3. LeafCount' = LeafCount /\ \A i, n : LeafTaken(i, n)' <=> LeafTaken(i, n)
      BY <1>1 DEF LeafCount, LeafTaken, treeVars
  <2>4. PendingFree'
      BY <1>1, <2>1, <2>2, <2>3 DEF PendingFree
  <2>5. TreeInv'
    <3>1. LeavesOK' /\ TreesOK' /\ RowsOK'
        BY <1>1 DEF IInv, TreeInv, LeavesOK, TreesOK, RowsOK, treeVars
    <3>2. IndexesMirror' /\ FrozenIffCompleted' /\ InPlace'
        BY <1>1 DEF IInv, TreeInv, IndexesMirror, FrozenIffCompleted, InPlace, treeVars
    <3> QED
        BY <3>1, <3>2 DEF TreeInv
  <2> QED
      BY <1>1, <2>4, <2>5 DEF IInv, Quiet
<1>2. CASE Refuse(AppendError(notes))
    BY <1>2, Refused
<1> QED
    BY <1>1, <1>2 DEF AppendMany

\* What a turn of the loop of `append_many` takes from the batch, and the tree
\* it makes of the live shard, in bulk or leaf by leaf.
IsTurn(take, segment, shard) ==
    /\ take \in 1..Len(pending) /\ Len(pending) \in Nat
    /\ segment \in Seq(Notes) /\ Len(segment) = take /\ segment # <<>>
    /\ \A k \in 1..take : segment[k] = pending[k]
    /\ Len(liveLeaves) + Len(segment) <= ShardSize
    /\ liveLeaves \o segment \in Seq(Notes) /\ Len(liveLeaves \o segment) \in Nat
    /\ \/ shard = ImtFromLeaves(ShardHeight, FieldZero, liveLeaves \o segment)
       \/ shard = ImtInsertAll(live, segment)
    /\ \A k \in 1..Len(segment) : ~LeafTaken(LeafCount + k - 1, segment[k])
    /\ Absorb(shard, liveLeaves \o segment, segment)
    /\ pending' = IF result' = "ok" THEN SubSeq(pending, take + 1, Len(pending)) ELSE <<>>

\* A turn takes at least one note, and no more than the live shard has room for.
LEMMA TurnOfLoop ==
    ASSUME IInv, AppendSegment
    PROVE  \E take, segment, shard : IsTurn(take, segment, shard)
<1>1. PICK take, segment, shard :
        /\ take = IF ShardSize - Len(liveLeaves) < Len(pending)
                  THEN ShardSize - Len(liveLeaves) ELSE Len(pending)
        /\ segment = SubSeq(pending, 1, take)
        /\ \/ shard = ImtFromLeaves(ShardHeight, FieldZero, liveLeaves \o segment)
           \/ shard = ImtInsertAll(live, segment)
        /\ Absorb(shard, liveLeaves \o segment, segment)
        /\ pending' = IF result' = "ok" THEN SubSeq(pending, take + 1, Len(pending)) ELSE <<>>
    BY DEF AppendSegment
<1>2. /\ TreeInv /\ liveLeaves \in Seq(Notes)
      /\ pending \in Seq(Notes) /\ pending # <<>>
    BY DEF IInv, TreeInv, LeavesOK, PendingFree, AppendSegment, Idle
<1>3. take \in 1..Len(pending) /\ take <= ShardSize - Len(liveLeaves) /\ Len(pending) \in Nat
  <2>1. Len(pending) \in Nat \ {0}
      BY <1>2
  <2>2. Len(liveLeaves) \in Nat /\ Len(liveLeaves) < ShardSize /\ ShardSize \in Nat
      BY <1>2, Counts, ShardSizePositive DEF TreeInv
  <2> QED
      BY <1>1, <2>1, <2>2
<1>4. /\ segment \in Seq(Notes) /\ Len(segment) = take
      /\ \A k \in 1..take : segment[k] = pending[k]
    BY <1>1, <1>2, <1>3, SubSeqProperties
<1>5. /\ segment # <<>> /\ Len(liveLeaves) + Len(segment) <= ShardSize
      /\ liveLeaves \o segment \in Seq(Notes) /\ Len(liveLeaves \o segment) \in Nat
  <2>1. Len(liveLeaves) \in Nat /\ ShardSize \in Nat
      BY <1>2, ShardSizePositive
  <2> QED
      BY <1>2, <1>3, <1>4, <2>1, ConcatProperties
<1>6. \A k \in 1..Len(segment) : ~LeafTaken(LeafCount + k - 1, segment[k])
    BY <1>3, <1>4 DEF IInv, PendingFree
<1> QED
    BY <1>1, <1>3, <1>4, <1>5, <1>6 DEF IsTurn

\* What is left of the batch after a turn that does not fail.
LEMMA RestOfBatch ==
    ASSUME IInv, NEW take, NEW segment, NEW shard, IsTurn(take, segment, shard), result' = "ok"
    PROVE  /\ pending' \in Seq(Notes) /\ Len(pending') = Len(pending) - take
           /\ \A k \in 1..(Len(pending) - take) : pending'[k] = pending[take + k]
<1>1. pending' = SubSeq(pending, take + 1, Len(pending)) /\ pending \in Seq(Notes)
    BY DEF IsTurn, IInv, PendingFree
<1>2. take \in 1..Len(pending) /\ Len(pending) \in Nat /\ take + 1 \in 1..(Len(pending) + 1)
    BY DEF IsTurn
<1> QED
    BY <1>1, <1>2, SubSeqProperties

\* A turn of the loop of `append_many`.
LEMMA AppendSegmentKeepsIInv ==
    ASSUME IInv, AppendSegment
    PROVE  IInv' /\ Quiet
<1>1. PICK take, segment, shard : IsTurn(take, segment, shard)
    BY TurnOfLoop
<1>2. /\ TreeInv /\ liveLeaves \in Seq(Notes)
      /\ IsTree(live, ShardHeight) /\ ImtLeaves(live) = liveLeaves
    BY DEF IInv, TreeInv, LeavesOK, TreesOK
<1>3. take \in 1..Len(pending) /\ Len(pending) \in Nat
    BY <1>1 DEF IsTurn
<1>4. IsTree(shard, ShardHeight) /\ ImtLeaves(shard) = liveLeaves \o segment
  <2>1. CASE shard = ImtFromLeaves(ShardHeight, FieldZero, liveLeaves \o segment)
      BY <1>1, <2>1, BuiltTree, Heights DEF IsTurn
  <2>2. CASE shard = ImtInsertAll(live, segment)
    <3>1. Len(ImtLeaves(live) \o segment) \in Nat /\ ShardHeight \in Nat
        BY <1>1, <1>2, Heights DEF IsTurn
    <3>2. /\ IsTree(ImtInsertAll(live, segment), ShardHeight)
          /\ ImtLeaves(ImtInsertAll(live, segment)) = ImtLeaves(live) \o segment
        BY <1>2, <3>1, InsertedAllTree
    <3> QED
        BY <1>2, <2>2, <3>2
  <2> QED
      BY <1>1, <2>1, <2>2 DEF IsTurn
<1>5. /\ TreeInv' /\ result' = "ok" /\ UNCHANGED ownedLeaves
      /\ LeafCount' = LeafCount + take
  <2>1. /\ segment \in Seq(Notes) /\ Len(segment) = take /\ segment # <<>>
        /\ Len(liveLeaves) + Len(segment) <= ShardSize
        /\ \A k \in 1..Len(segment) : ~LeafTaken(LeafCount + k - 1, segment[k])
        /\ Absorb(shard, liveLeaves \o segment, segment)
      BY <1>1 DEF IsTurn
  <2> QED
      BY <1>2, <1>4, <2>1, AbsorbKeepsTreeInv
<1>6. /\ pending' \in Seq(Notes) /\ Len(pending') = Len(pending) - take
      /\ \A k \in 1..(Len(pending) - take) : pending'[k] = pending[take + k]
    BY <1>1, <1>5, RestOfBatch
<1>7. PendingFree'
  <2> SUFFICES ASSUME NEW k \in 1..Len(pending')
               PROVE  ~LeafTaken(LeafCount + k - 1, pending[k])'
      BY <1>6 DEF PendingFree
  <2>1. LeafCount \in Nat
      BY <1>2, Counts DEF TreeInv
  <2>2. take + k \in 1..Len(pending) /\ pending'[k] = pending[take + k]
      BY <1>3, <1>6
  <2>3. ~LeafTaken(LeafCount + (take + k) - 1, pending[take + k])
      BY <2>2 DEF IInv, PendingFree
  <2>4. LeafCount' + k - 1 = LeafCount + (take + k) - 1
      BY <1>3, <1>5, <2>1
  <2> QED
      BY <1>5, <2>2, <2>3, <2>4 DEF LeafTaken
<1> QED
    BY <1>5, <1>7 DEF IInv, Quiet

\* `mark_owned`: a note new to the indexes, at a leaf that is free.
LEMMA MarkOwnedKeepsIInv ==
    ASSUME IInv, NEW note \in Mine, NEW index \in 0..Capacity, MarkOwned(note, index)
    PROVE  IInv' /\ Quiet
<1>1. CASE /\ MarkError(note, index) = "ok" /\ note \notin DOMAIN owned
           /\ ownedLeaves' = Put(ownedLeaves, index, note)
           /\ owned' = Put(owned, note, [leaf_index |-> index, path |-> NoPath])
           /\ result' = "ok"
           /\ UNCHANGED <<completed, live, liveLeaves, cap, pending, log>>
  <2>1. /\ LeavesOK /\ TreesOK /\ RowsOK /\ IndexesMirror /\ FrozenIffCompleted /\ InPlace
        /\ index \in Nat /\ pending = <<>>
      BY DEF IInv, TreeInv, MarkOwned, Idle
  <2>2. /\ ~(Shard(index) < Len(completed)) /\ ~LeafTaken(index, note)
        /\ index < LeafCount => LeafIs(live, Within(index), note)
      BY <1>1 DEF MarkError
  <2>3. index \notin DOMAIN ownedLeaves
      BY <1>1, <2>1, <2>2 DEF LeafTaken, IndexesMirror
  <2>4. /\ DOMAIN owned' = DOMAIN owned \cup {note}
        /\ owned'[note] = [leaf_index |-> index, path |-> NoPath]
        /\ \A n \in DOMAIN owned : owned'[n] = owned[n]
        /\ DOMAIN ownedLeaves' = DOMAIN ownedLeaves \cup {index}
        /\ ownedLeaves'[index] = note
        /\ \A i \in DOMAIN ownedLeaves : ownedLeaves'[i] = ownedLeaves[i]
      BY <1>1, <2>3 DEF Put
  <2>5. LeavesOK' /\ TreesOK'
      BY <1>1, <2>1 DEF LeavesOK, TreesOK
  <2>6. RowsOK'
      BY <2>1, <2>4 DEF RowsOK
  <2>7. IndexesMirror'
      BY <1>1, <2>1, <2>3, <2>4 DEF IndexesMirror
  <2>8. FrozenIffCompleted'
      BY <1>1, <2>1, <2>2, <2>4 DEF FrozenIffCompleted
  <2>9. InPlace'
    <3>1. ASSUME Shard(index) = Len(completed), Within(index) < Len(liveLeaves)
          PROVE  liveLeaves[Within(index) + 1] = note
      <4>1. /\ Len(completed) \in Nat /\ Len(liveLeaves) \in 0..ShardSize
          BY <2>1, Counts, ShardSizePositive
      <4>2. index < LeafCount
          BY <2>1, <3>1, <4>1, Before DEF LeafCount
      <4> QED
          BY <2>1, <2>2, <4>2 DEF LeafIs, At, TreesOK
    <3> QED
        BY <1>1, <2>1, <2>4, <3>1 DEF InPlace
  <2>10. PendingFree'
      BY <1>1, <2>1 DEF PendingFree
  <2> QED
      BY <1>1, <2>5, <2>6, <2>7, <2>8, <2>9, <2>10 DEF IInv, TreeInv, Quiet
<1>2. CASE Refuse(MarkError(note, index))
    BY <1>2, Refused
<1> QED
    BY <1>1, <1>2 DEF MarkOwned

\* Unmarking removes the notes from both indexes.
LEMMA Unmarked ==
    ASSUME RowsOK, IndexesMirror, NEW notes, Unmark(notes)
    PROVE  /\ DOMAIN owned' = DOMAIN owned \ notes
           /\ \A n \in DOMAIN owned' : owned'[n] = owned[n]
           /\ RowsOK' /\ IndexesMirror'
<1>1. /\ DOMAIN owned' = DOMAIN owned \ notes
      /\ \A n \in DOMAIN owned' : owned'[n] = owned[n]
    BY DEF Unmark, Drop
<1>2. /\ DOMAIN ownedLeaves'
            = DOMAIN ownedLeaves \ {owned[n].leaf_index : n \in notes \cap DOMAIN owned}
      /\ \A i \in DOMAIN ownedLeaves' : ownedLeaves'[i] = ownedLeaves[i]
    BY DEF Unmark, Drop
<1>3. ASSUME NEW n \in DOMAIN owned'
      PROVE  /\ owned'[n].leaf_index \in DOMAIN ownedLeaves'
             /\ ownedLeaves'[owned'[n].leaf_index] = n
    BY <1>1, <1>2 DEF IndexesMirror
<1>4. ASSUME NEW i \in DOMAIN ownedLeaves'
      PROVE  ownedLeaves'[i] \in DOMAIN owned' /\ owned'[ownedLeaves'[i]].leaf_index = i
    BY <1>1, <1>2 DEF IndexesMirror
<1> QED
    BY <1>1, <1>3, <1>4 DEF RowsOK, IndexesMirror

\* `unmark_owned`.
LEMMA UnmarkOwnedKeepsIInv ==
    ASSUME IInv, NEW note \in Mine, UnmarkOwned(note)
    PROVE  IInv' /\ Quiet
<1>1. /\ LeavesOK /\ TreesOK /\ RowsOK /\ IndexesMirror /\ FrozenIffCompleted /\ InPlace
      /\ pending' = <<>> /\ result' = "ok"
      /\ UNCHANGED <<completed, live, liveLeaves, cap>>
    BY DEF IInv, TreeInv, UnmarkOwned, Idle
<1>2. /\ DOMAIN owned' = DOMAIN owned \ {note}
      /\ \A n \in DOMAIN owned' : owned'[n] = owned[n]
      /\ RowsOK' /\ IndexesMirror'
    BY <1>1, Unmarked DEF UnmarkOwned
<1>3. LeavesOK' /\ TreesOK'
    BY <1>1 DEF LeavesOK, TreesOK
<1>4. FrozenIffCompleted' /\ InPlace'
    BY <1>1, <1>2 DEF FrozenIffCompleted, InPlace
<1>5. PendingFree'
    BY <1>1 DEF PendingFree
<1> QED
    BY <1>1, <1>2, <1>3, <1>4, <1>5 DEF IInv, TreeInv, Quiet

\* `adopt_frozen_witness`: a row new to the indexes or one for the same leaf.
LEMMA AdoptKeepsIInv ==
    ASSUME IInv, NEW note \in Mine, NEW index \in Indices, NEW path,
           AdoptFrozenWitness(note, index, path)
    PROVE  IInv' /\ Quiet
<1>1. CASE /\ AdoptError(note, index, path) = "ok"
           /\ ownedLeaves' = Put(ownedLeaves, index, note)
           /\ owned' = Put(owned, note, [leaf_index |-> index, path |-> path])
           /\ result' = "ok"
           /\ UNCHANGED <<completed, live, liveLeaves, cap, pending, log>>
  <2>1. /\ LeavesOK /\ TreesOK /\ RowsOK /\ IndexesMirror /\ FrozenIffCompleted /\ InPlace
        /\ index \in Nat /\ pending = <<>>
      BY DEF IInv, TreeInv, AdoptFrozenWitness, Idle, Indices
  <2>2. Shard(index) \in Nat /\ Len(completed) \in Nat
      BY <2>1, Split, Counts
  <2>3. /\ Shard(index) < Len(completed) /\ ~LeafTaken(index, note)
        /\ note \in DOMAIN owned => owned[note].leaf_index = index
        /\ Len(path) = ShardHeight
      BY <1>1, <2>2 DEF AdoptError
  <2>4. path # NoPath
      BY <2>3, Heights DEF NoPath
  <2>5. /\ DOMAIN owned' = DOMAIN owned \cup {note}
        /\ owned'[note] = [leaf_index |-> index, path |-> path]
        /\ \A n \in DOMAIN owned : n # note => owned'[n] = owned[n]
        /\ DOMAIN ownedLeaves' = DOMAIN ownedLeaves \cup {index}
        /\ ownedLeaves'[index] = note
        /\ \A i \in DOMAIN ownedLeaves : i # index => ownedLeaves'[i] = ownedLeaves[i]
      BY <1>1 DEF Put
  <2>6. LeavesOK' /\ TreesOK'
      BY <1>1, <2>1 DEF LeavesOK, TreesOK
  <2>7. RowsOK'
      BY <2>1, <2>5 DEF RowsOK
  <2>8. \A n \in DOMAIN owned : n # note => owned[n].leaf_index # index
      BY <2>1, <2>3 DEF IndexesMirror, LeafTaken
  <2>9. \A i \in DOMAIN ownedLeaves : i # index => ownedLeaves[i] # note
      BY <2>1, <2>3 DEF IndexesMirror
  <2>10. IndexesMirror'
      BY <2>1, <2>5, <2>8, <2>9 DEF IndexesMirror
  <2>11. FrozenIffCompleted'
      BY <1>1, <2>1, <2>3, <2>4, <2>5 DEF FrozenIffCompleted
  <2>12. InPlace'
      BY <1>1, <2>1, <2>2, <2>3, <2>5 DEF InPlace
  <2>13. PendingFree'
      BY <1>1, <2>1 DEF PendingFree
  <2> QED
      BY <1>1, <2>6, <2>7, <2>10, <2>11, <2>12, <2>13 DEF IInv, TreeInv, Quiet
<1>2. CASE Refuse(AdoptError(note, index, path))
    BY <1>2, Refused
<1> QED
    BY <1>1, <1>2 DEF AdoptFrozenWitness

\* `rebuild_cap` over the completed roots gives a leaf per shard begun.
LEMMA RebuiltCapTree ==
    ASSUME NEW roots, IsSequence(roots), NEW shard, NEW leaves
    PROVE  /\ IsTree(RebuiltCap(roots, shard, leaves), CapDepth)
           /\ ImtLeafCount(RebuiltCap(roots, shard, leaves))
                = Len(roots) + (IF leaves = <<>> THEN 0 ELSE 1)
<1>1. PICK row : /\ row = IF leaves = <<>> THEN roots ELSE Append(roots, ImtRoot(shard))
                 /\ RebuiltCap(roots, shard, leaves) = ImtFromLeaves(CapDepth, CapZero, row)
    BY DEF RebuiltCap
<1>2. Len(roots) \in Nat
    BY DEF IsSequence
<1>3. Len(row) = Len(roots) + (IF leaves = <<>> THEN 0 ELSE 1)
    BY <1>1, <1>2, AppendedSequence
<1>4. Len(row) \in Nat
    BY <1>2, <1>3
<1>5. /\ IsTree(ImtFromLeaves(CapDepth, CapZero, row), CapDepth)
      /\ ImtLeaves(ImtFromLeaves(CapDepth, CapZero, row)) = row
    BY <1>4, BuiltTree, Heights
<1> QED
    BY <1>1, <1>3, <1>5 DEF ImtLeafCount

\* `rewind_live_to`: the leaves left are those the other notes are marked at.
LEMMA RewindKeepsIInv ==
    ASSUME IInv, NEW count \in 0..Capacity, RewindLiveTo(count)
    PROVE  IInv' /\ Quiet
<1>1. CASE Refuse("RewindBeforeCompleted") \/ Refuse("LeafIndexOutOfRange")
    BY <1>1, Refused
<1>2. CASE ~(Refuse("RewindBeforeCompleted") \/ Refuse("LeafIndexOutOfRange"))
  <2>1. PICK left, leaves, cut :
          /\ left = count - Len(completed) * ShardSize
          /\ leaves = SubSeq(liveLeaves, 1, left)
          /\ Len(completed) * ShardSize <= count /\ count <= LeafCount
          /\ Unmark(cut)
          /\ liveLeaves' = leaves /\ live' = ImtFromLeaves(ShardHeight, FieldZero, leaves)
          /\ cap' = RebuiltCap(completed, ImtFromLeaves(ShardHeight, FieldZero, leaves), leaves)
          /\ result' = "ok"
          /\ UNCHANGED <<completed, pending>>
      BY <1>2 DEF RewindLiveTo
  <2>2. /\ LeavesOK /\ RowsOK /\ IndexesMirror /\ FrozenIffCompleted /\ InPlace
        /\ count \in Nat /\ pending = <<>>
      BY DEF IInv, TreeInv, RewindLiveTo, Idle
  <2>3. left \in 0..Len(liveLeaves) /\ Len(liveLeaves) \in Nat /\ Len(liveLeaves) < ShardSize
    <3>1. /\ Len(completed) * ShardSize \in Nat
          /\ Len(liveLeaves) \in Nat /\ Len(liveLeaves) < ShardSize
        BY <2>2, Counts, ShardSizePositive
    <3> QED
        BY <2>1, <2>2, <3>1 DEF LeafCount
  <2>4. /\ leaves \in Seq(Notes) /\ Len(leaves) = left
        /\ \A i \in 1..left : leaves[i] = liveLeaves[i]
    <3>1. \A i \in 1..left : liveLeaves[i] \in Notes
        BY <2>2, <2>3 DEF LeavesOK
    <3> QED
        BY <2>1, <2>3, <3>1, SubSeqProperties
  <2>5. LeavesOK'
      BY <2>1, <2>2, <2>3, <2>4, ShardSizePositive DEF LeavesOK
  <2>6. /\ IsTree(live, ShardHeight)' /\ ImtLeaves(live') = leaves
    <3>1. Len(leaves) \in Nat
        BY <2>3, <2>4
    <3>2. /\ IsTree(ImtFromLeaves(ShardHeight, FieldZero, leaves), ShardHeight)
          /\ ImtLeaves(ImtFromLeaves(ShardHeight, FieldZero, leaves)) = leaves
        BY <3>1, BuiltTree, Heights
    <3> QED
        BY <2>1, <3>2
  <2>7. /\ IsTree(cap, CapDepth)'
        /\ ImtLeafCount(cap') = Len(completed) + (IF leaves = <<>> THEN 0 ELSE 1)
      BY <2>1, <2>2, RebuiltCapTree DEF LeavesOK
  <2>8. TreesOK'
      BY <2>1, <2>6, <2>7 DEF TreesOK
  <2>9. /\ DOMAIN owned' = DOMAIN owned \ cut
        /\ \A n \in DOMAIN owned' : owned'[n] = owned[n]
        /\ RowsOK' /\ IndexesMirror'
      BY <2>1, <2>2, Unmarked
  <2>10. FrozenIffCompleted'
      BY <2>1, <2>2, <2>9 DEF FrozenIffCompleted
  <2>11. InPlace'
    <3> SUFFICES ASSUME NEW n \in DOMAIN owned', Shard(owned[n].leaf_index) = Len(completed),
                        Within(owned[n].leaf_index) < left
                 PROVE  leaves[Within(owned[n].leaf_index) + 1] = n
        BY <2>1, <2>4, <2>9 DEF InPlace
    <3>1. n \in DOMAIN owned /\ Within(owned[n].leaf_index) \in 0..(ShardSize - 1)
        BY <2>2, <2>9, Split DEF RowsOK
    <3>2. Within(owned[n].leaf_index) < Len(liveLeaves)
        BY <2>3, <3>1, ShardSizePositive
    <3>3. liveLeaves[Within(owned[n].leaf_index) + 1] = n
        BY <2>2, <3>1, <3>2 DEF InPlace
    <3>4. Within(owned[n].leaf_index) + 1 \in 1..left
        BY <2>3, <3>1, ShardSizePositive
    <3> QED
        BY <2>4, <3>3, <3>4
  <2>12. PendingFree'
      BY <2>1, <2>2 DEF PendingFree
  <2> QED
      BY <2>1, <2>5, <2>8, <2>9, <2>10, <2>11, <2>12 DEF IInv, TreeInv, Quiet
<1> QED
    BY <1>1, <1>2

\* `drain_dirty_owned_notes` leaves trees and indexes alone.
LEMMA DrainKeepsIInv ==
    ASSUME IInv, DrainDirty
    PROVE  IInv' /\ Quiet
    BY Unmoved DEF DrainDirty, Quiet

\* Rows as records.
AreRows(rows) ==
    \A n \in DOMAIN rows :
        /\ rows[n].leaf_index \in Nat
        /\ rows[n] = [leaf_index |-> rows[n].leaf_index, path |-> rows[n].path]

\* Rows of owned notes, each with the path it has or with none.
PathsFrom(rows) ==
    \A n \in DOMAIN rows : n \in DOMAIN owned /\ rows[n].path \in {owned[n].path, NoPath}

\* A snapshot read back differs from the tree's own in its rows only; they have
\* the shape of rows and no path that was not frozen.
LEMMA ReadBackRows ==
    ASSUME RowsOK, NEW s \in ReadBack(Snapshot)
    PROVE  /\ s.completed = completed /\ s.live = liveLeaves
           /\ AreRows(s.owned) /\ PathsFrom(s.owned)
<1>1. CASE s = Snapshot
    BY <1>1 DEF Snapshot, RowsOK, AreRows, PathsFrom
<1>2. ASSUME NEW n \in DOMAIN owned, s = [Snapshot EXCEPT !.owned = Drop(owned, {n})]
      PROVE  /\ s.completed = completed /\ s.live = liveLeaves
             /\ s.owned = Drop(owned, {n})
    BY <1>2 DEF Snapshot
<1>3. ASSUME NEW n \in DOMAIN owned, NEW i \in Nat,
             s = [Snapshot EXCEPT !.owned[n].leaf_index = i]
      PROVE  /\ s.completed = completed /\ s.live = liveLeaves
             /\ s.owned = [owned EXCEPT ![n] = [leaf_index |-> i, path |-> owned[n].path]]
  <2>1. owned[n] = [leaf_index |-> owned[n].leaf_index, path |-> owned[n].path]
      BY DEF RowsOK
  <2>2. [owned[n] EXCEPT !.leaf_index = i] = [leaf_index |-> i, path |-> owned[n].path]
      BY <2>1
  <2> QED
      BY <1>3, <2>2 DEF Snapshot
<1>4. ASSUME NEW n \in DOMAIN owned, s = [Snapshot EXCEPT !.owned[n].path = NoPath]
      PROVE  /\ s.completed = completed /\ s.live = liveLeaves
             /\ s.owned = [owned EXCEPT ![n] = [leaf_index |-> owned[n].leaf_index,
                                                path |-> NoPath]]
  <2>1. owned[n] = [leaf_index |-> owned[n].leaf_index, path |-> owned[n].path]
      BY DEF RowsOK
  <2>2. [owned[n] EXCEPT !.path = NoPath] = [leaf_index |-> owned[n].leaf_index, path |-> NoPath]
      BY <2>1
  <2> QED
      BY <1>4, <2>2 DEF Snapshot
<1>5. \/ s = Snapshot
      \/ \E n \in DOMAIN owned : s = [Snapshot EXCEPT !.owned = Drop(owned, {n})]
      \/ \E n \in DOMAIN owned, i \in Nat : s = [Snapshot EXCEPT !.owned[n].leaf_index = i]
      \/ \E n \in DOMAIN owned : s = [Snapshot EXCEPT !.owned[n].path = NoPath]
  <2>1. Snapshot.owned = owned
      BY DEF Snapshot
  <2>2. \A i \in 0..Capacity : i \in Nat
      OBVIOUS
  <2> QED
      BY <2>1, <2>2 DEF ReadBack
<1>6. ASSUME NEW n \in DOMAIN owned, NEW rows, NEW i \in Nat,
             NEW path \in {owned[n].path, NoPath},
             rows = Drop(owned, {n})
               \/ rows = [owned EXCEPT ![n] = [leaf_index |-> i, path |-> path]]
      PROVE  AreRows(rows) /\ PathsFrom(rows)
  <2>1. AreRows(rows)
      BY <1>6 DEF RowsOK, AreRows, Drop
  <2>2. PathsFrom(rows)
      BY <1>6 DEF PathsFrom, Drop
  <2> QED
      BY <2>1, <2>2
<1>7. \A n \in DOMAIN owned : owned[n].leaf_index \in Nat
    BY DEF RowsOK
<1>8. ASSUME NEW n \in DOMAIN owned, s = [Snapshot EXCEPT !.owned = Drop(owned, {n})]
      PROVE  /\ s.completed = completed /\ s.live = liveLeaves
             /\ AreRows(s.owned) /\ PathsFrom(s.owned)
    BY <1>2, <1>6, <1>7, <1>8
<1>9. ASSUME NEW n \in DOMAIN owned, NEW i \in Nat,
             s = [Snapshot EXCEPT !.owned[n].leaf_index = i]
      PROVE  /\ s.completed = completed /\ s.live = liveLeaves
             /\ AreRows(s.owned) /\ PathsFrom(s.owned)
  <2>1. /\ s.completed = completed /\ s.live = liveLeaves
        /\ s.owned = [owned EXCEPT ![n] = [leaf_index |-> i, path |-> owned[n].path]]
      BY <1>3, <1>9
  <2> HIDE <1>9
  <2> QED
      BY <1>6, <2>1
<1>10. ASSUME NEW n \in DOMAIN owned, s = [Snapshot EXCEPT !.owned[n].path = NoPath]
       PROVE  /\ s.completed = completed /\ s.live = liveLeaves
              /\ AreRows(s.owned) /\ PathsFrom(s.owned)
    BY <1>4, <1>6, <1>7, <1>10
<1> QED
    BY <1>1, <1>5, <1>8, <1>9, <1>10

\* The checks of `from_snapshot` are what the indexes of owned notes need.
LEMMA ReloadKeepsIInv ==
    ASSUME IInv, NEW s \in ReadBack(Snapshot), Reload(s)
    PROVE  IInv' /\ Quiet
<1>1. CASE Refuse("InvalidSnapshot")
    BY <1>1, Refused
<1>2. CASE ~SnapshotRefused(s) /\ Load(s) /\ result' = "ok" /\ UNCHANGED pending
  <2>1. LeavesOK /\ RowsOK /\ pending = <<>>
      BY DEF IInv, TreeInv, Reload, Idle
  <2>2. /\ s.completed = completed /\ s.live = liveLeaves
        /\ \A n \in DOMAIN s.owned :
              /\ s.owned[n].leaf_index \in Nat
              /\ s.owned[n] = [leaf_index |-> s.owned[n].leaf_index, path |-> s.owned[n].path]
      BY <2>1, ReadBackRows DEF AreRows
  <2>3. PICK shard : shard = ImtFromLeaves(ShardHeight, FieldZero, liveLeaves)
      OBVIOUS
  <2>4. /\ completed' = completed /\ liveLeaves' = liveLeaves /\ live' = shard
        /\ cap' = RebuiltCap(completed, shard, liveLeaves)
        /\ owned' = s.owned
        /\ ownedLeaves' = [i \in {s.owned[n].leaf_index : n \in DOMAIN s.owned} |->
                             CHOOSE n \in DOMAIN s.owned : s.owned[n].leaf_index = i]
      BY <1>2, <2>2, <2>3 DEF Load
  <2>5. IsTree(shard, ShardHeight) /\ ImtLeaves(shard) = liveLeaves
    <3>1. Len(liveLeaves) \in Nat
        BY <2>1 DEF LeavesOK
    <3> QED
        BY <2>3, <3>1, BuiltTree, Heights
  <2>6. LeavesOK'
      BY <2>1, <2>4 DEF LeavesOK
  <2>7. TreesOK'
    <3>1. /\ IsTree(cap', CapDepth)
          /\ ImtLeafCount(cap') = Len(completed) + (IF liveLeaves = <<>> THEN 0 ELSE 1)
        BY <2>1, <2>4, RebuiltCapTree DEF LeavesOK
    <3> QED
        BY <2>4, <2>5, <3>1 DEF TreesOK
  <2>8. RowsOK'
      BY <2>2, <2>4 DEF RowsOK
  <2>9. ASSUME NEW n \in DOMAIN s.owned
        PROVE  /\ \A m \in DOMAIN s.owned :
                     s.owned[m].leaf_index = s.owned[n].leaf_index => m = n
               /\ Shard(s.owned[n].leaf_index) < Len(completed)
                     => Len(s.owned[n].path) = ShardHeight
               /\ ~(Shard(s.owned[n].leaf_index) < Len(completed)) => s.owned[n].path = NoPath
               /\ (/\ ~(Shard(s.owned[n].leaf_index) < Len(completed))
                   /\ s.owned[n].leaf_index < LeafCount)
                     => LeafIs(shard, Within(s.owned[n].leaf_index), n)
    <3>1. ~RowRefused(s, shard, n)
        BY <1>2, <2>2, <2>3 DEF SnapshotRefused
    <3> QED
        BY <2>2, <3>1 DEF RowRefused, FrozenPathHolds, LeafCount
  <2>10. IndexesMirror'
    <3>1. ASSUME NEW n \in DOMAIN owned'
          PROVE  /\ owned'[n].leaf_index \in DOMAIN ownedLeaves'
                 /\ ownedLeaves'[owned'[n].leaf_index] = n
        BY <2>4, <2>9
    <3>2. ASSUME NEW i \in DOMAIN ownedLeaves'
          PROVE  ownedLeaves'[i] \in DOMAIN owned' /\ owned'[ownedLeaves'[i]].leaf_index = i
        BY <2>4
    <3> QED
        BY <3>1, <3>2 DEF IndexesMirror
  <2>11. FrozenIffCompleted'
    <3>1. \A path : Len(path) = ShardHeight => path # NoPath
        BY Heights DEF NoPath
    <3> QED
        BY <2>4, <2>9, <3>1 DEF FrozenIffCompleted
  <2>12. InPlace'
    <3> SUFFICES ASSUME NEW n \in DOMAIN s.owned,
                        Shard(s.owned[n].leaf_index) = Len(completed),
                        Within(s.owned[n].leaf_index) < Len(liveLeaves)
                 PROVE  liveLeaves[Within(s.owned[n].leaf_index) + 1] = n
        BY <2>4 DEF InPlace
    <3>1. /\ Len(completed) \in Nat /\ Len(liveLeaves) \in 0..ShardSize
        BY <2>1, Counts, ShardSizePositive
    <3>2. s.owned[n].leaf_index < LeafCount
        BY <2>2, <3>1, Before DEF LeafCount
    <3>3. LeafIs(shard, Within(s.owned[n].leaf_index), n)
        BY <2>9, <3>1, <3>2
    <3> QED
        BY <2>5, <3>3 DEF LeafIs, At
  <2>13. PendingFree'
      BY <1>2, <2>1 DEF PendingFree
  <2> QED
      BY <1>2, <2>6, <2>7, <2>8, <2>10, <2>11, <2>12, <2>13 DEF IInv, TreeInv, Quiet
<1> QED
    BY <1>1, <1>2 DEF Reload
-----------------------------------------------------------------------------
\* Every call keeps the inductive invariant, and changes nothing if it fails.
LEMMA StepKeepsIInv ==
    ASSUME IInv, Next
    PROVE  IInv' /\ Quiet
<1>1. CASE \E note \in Notes : AppendNote(note)
    BY <1>1, AppendNoteKeepsIInv
<1>2. CASE \E notes \in Batches : AppendMany(notes)
    BY <1>2, AppendManyKeepsIInv
<1>3. CASE AppendSegment
    BY <1>3, AppendSegmentKeepsIInv
<1>4. CASE \E note \in Mine, index \in 0..Capacity : MarkOwned(note, index)
    BY <1>4, MarkOwnedKeepsIInv
<1>5. CASE \E note \in Mine : UnmarkOwned(note)
    BY <1>5, UnmarkOwnedKeepsIInv
<1>6. CASE \E note \in Mine, index \in Indices, path \in Paths :
              AdoptFrozenWitness(note, index, path)
    BY <1>6, AdoptKeepsIInv
<1>7. CASE \E count \in 0..Capacity : RewindLiveTo(count)
    BY <1>7, RewindKeepsIInv
<1>8. CASE DrainDirty
    BY <1>8, DrainKeepsIInv
<1>9. CASE \E s \in ReadBack(Snapshot) : Reload(s)
    BY <1>9, ReloadKeepsIInv
<1> QED
    BY <1>1, <1>2, <1>3, <1>4, <1>5, <1>6, <1>7, <1>8, <1>9 DEF Next

\* Every state the tree reaches satisfies the inductive invariant: its trees
\* hold the leaves it caches, a marked leaf is in place, and what is left of
\* a running `append_many` still passes the checks made when it began.
THEOREM Invariance == Spec => []IInv
<1>1. IInv /\ [Next]_vars => IInv'
    BY StepKeepsIInv, Unmoved DEF vars, treeVars
<1> QED
    BY <1>1, InitIInv, PTL DEF Spec

\* `owned_leaves` mirrors `owned_notes` keyed by leaf index, for every
\* geometry and every sequence of calls: marks, adoptions, rewinds and
\* snapshots accepted by `from_snapshot` keep the two in step.
THEOREM IndexesMirrorHolds == Spec => []IndexesMirror
<1>1. IInv => IndexesMirror
    BY DEF IInv, TreeInv
<1> QED
    BY <1>1, Invariance, PTL

\* A path is frozen exactly when the shard of its note is completed, for
\* every geometry: `roll_over` freezes every note of the shard, and no other
\* operation admits or leaves a row of the wrong kind.
THEOREM FrozenIffCompletedHolds == Spec => []FrozenIffCompleted
<1>1. IInv => FrozenIffCompleted
    BY DEF IInv, TreeInv
<1> QED
    BY <1>1, Invariance, PTL

\* No call fails half way: past the checks at the start of `append` and
\* `append_many`, `sync_live_root` always places the root and `roll_over`
\* always finds the notes it freezes.
THEOREM FailedCallsChangeNothingHolds == Spec => FailedCallsChangeNothing
<1>1. IInv /\ [Next]_vars => [result' # "ok" => UNCHANGED <<treeVars, log>>]_vars
    BY StepKeepsIInv DEF Quiet
<1> QED
    BY <1>1, Invariance, PTL DEF Spec, FailedCallsChangeNothing
-----------------------------------------------------------------------------
(* The trees are those of the log. *)

\* The leaves of a shard are the end of the log, after `c` whole shards.
IsTail(leaves, all, c) ==
    /\ leaves \in Seq(Notes) /\ all \in Seq(Notes)
    /\ Len(all) = c * ShardSize + Len(leaves)
    /\ \A i \in 1..Len(leaves) : leaves[i] = all[c * ShardSize + i]

\* One root per whole shard of the log.
AreRoots(roots, all) ==
    \A k \in 1..Len(roots) : roots[k] = RefNode(all, FieldZero, ShardHeight, k - 1)

\* Public state that stands for a log: completed roots and live leaves.
StandsFor(roots, leaves, all) ==
    /\ IsSequence(roots) /\ Len(leaves) < ShardSize
    /\ IsTail(leaves, all, Len(roots))
    /\ AreRoots(roots, all)

\* The leaves of the cap: a root per completed shard, then the live root.
CapRow(roots, leaves) ==
    IF leaves = <<>> THEN roots ELSE Append(roots, RefRoot(ShardHeight, FieldZero, leaves))

\* The zero of the cap is the root of an empty shard.
LEMMA CapZeroIsEmpty == CapZero = EmptyNode(FieldZero, ShardHeight)
    BY GeometryAssumption, ZeroRoots DEF CapZero

\* Sizes as powers of two.
LEMMA SizeOfShard == ShardSize = 2 ^ ShardHeight /\ Capacity = 2 ^ Depth
    BY DEF ShardSize, Capacity, TreeCapacity

\* The shard of an index is the node above it at the height of shards.
LEMMA ShardAbove == \A i : Shard(i) = Above(i, ShardHeight)
    BY SizeOfShard DEF Shard, Above

\* What is read in the live leaves is what the log has there.
LEMMA ReadTail ==
    ASSUME NEW leaves, NEW all, NEW c \in Nat, IsTail(leaves, all, c)
    PROVE  \A j \in Nat :
              GetOr(leaves, j, FieldZero) = GetOr(all, c * ShardSize + j, FieldZero)
<1>1. PICK m \in Nat : m = c * ShardSize
    BY ShardSizePositive
<1>2. Len(leaves) \in Nat /\ Len(all) = m + Len(leaves)
    BY <1>1, LenProperties DEF IsTail
<1>3. \A i \in 1..Len(leaves) : leaves[i] = all[m + i]
    BY <1>1 DEF IsTail
<1> SUFFICES ASSUME NEW j \in Nat
             PROVE  GetOr(leaves, j, FieldZero) = GetOr(all, m + j, FieldZero)
    BY <1>1
<1>4. CASE j < Len(leaves)
  <2>1. j + 1 \in 1..Len(leaves) /\ m + (j + 1) = (m + j) + 1 /\ m + j < Len(all)
      BY <1>2, <1>4
  <2>2. leaves[j + 1] = all[(m + j) + 1]
      BY <1>3, <2>1
  <2> QED
      BY <1>4, <2>1, <2>2 DEF GetOr, At
<1>5. CASE ~(j < Len(leaves))
  <2>1. ~(m + j < Len(all))
      BY <1>2, <1>5
  <2> QED
      BY <1>5, <2>1 DEF GetOr
<1> QED
    BY <1>4, <1>5

\* The root of the live shard is the node of the log above its leaves.
LEMMA RootOfTail ==
    ASSUME NEW leaves, NEW all, NEW c \in Nat, IsTail(leaves, all, c)
    PROVE  RefRoot(ShardHeight, FieldZero, leaves) = RefNode(all, FieldZero, ShardHeight, c)
<1>1. ShardHeight \in Nat /\ ShardHeight \in 0..ShardHeight /\ ShardHeight - ShardHeight = 0
    BY Heights
<1>2. \A j \in Nat : j < 2 ^ ShardHeight =>
         GetOr(leaves, j, FieldZero) = GetOr(all, c * 2 ^ ShardHeight + j, FieldZero)
    BY ReadTail, SizeOfShard
<1>3. 2 ^ 0 = 1 /\ 0 < 1 /\ c * 1 + 0 = c
    OBVIOUS
<1>4. \A h \in 0..ShardHeight, i \in Nat :
         i < 2 ^ (ShardHeight - h)
           => RefNode(leaves, FieldZero, h, i)
                = RefNode(all, FieldZero, h, c * 2 ^ (ShardHeight - h) + i)
    BY <1>1, <1>2, Subtree
<1>5. RefNode(leaves, FieldZero, ShardHeight, 0)
        = RefNode(all, FieldZero, ShardHeight, c * 2 ^ 0 + 0)
  <2>1. 0 \in Nat /\ 0 < 2 ^ (ShardHeight - ShardHeight)
      BY <1>1, <1>3
  <2>2. RefNode(leaves, FieldZero, ShardHeight, 0)
          = RefNode(all, FieldZero, ShardHeight, c * 2 ^ (ShardHeight - ShardHeight) + 0)
      BY <1>1, <1>4, <2>1
  <2> QED
      BY <1>1, <2>2
<1> QED
    BY <1>3, <1>5 DEF RefRoot

\* Roots depend on the whole shards of the log only.
LEMMA RootsStay ==
    ASSUME NEW roots, IsSequence(roots), NEW all \in Seq(Notes), NEW new \in Seq(Notes),
           Len(roots) * ShardSize <= Len(all), Len(roots) * ShardSize <= Len(new),
           \A i \in 1..(Len(roots) * ShardSize) : all[i] = new[i],
           AreRoots(roots, all)
    PROVE  AreRoots(roots, new)
<1>1. Len(roots) \in Nat /\ ShardHeight \in Nat
    BY Heights DEF IsSequence
<1>2. PICK m \in Nat : m = Len(roots) * ShardSize
    BY <1>1, ShardSizePositive
<1> SUFFICES ASSUME NEW k \in 1..Len(roots)
             PROVE  RefNode(all, FieldZero, ShardHeight, k - 1)
                      = RefNode(new, FieldZero, ShardHeight, k - 1)
    BY DEF AreRoots
<1>3. k - 1 \in Nat /\ k - 1 < Len(roots)
    BY <1>1
<1>4. ASSUME NEW j \in Nat, Above(j, ShardHeight) = k - 1
      PROVE  GetOr(all, j, FieldZero) = GetOr(new, j, FieldZero)
  <2>1. j < m
    <3>1. 0 \in 0..ShardSize /\ m + 0 = m
        BY ShardSizePositive
    <3>2. j < Len(roots) * ShardSize + 0
        BY <1>1, <1>3, <1>4, <3>1, Before, ShardAbove
    <3> QED
        BY <1>2, <3>1, <3>2
  <2>2. j + 1 \in 1..m /\ j < Len(all) /\ j < Len(new)
      BY <1>2, <2>1, LenProperties
  <2> QED
      BY <1>2, <2>2 DEF GetOr, At
<1> QED
    BY <1>1, <1>3, <1>4, RefNodeLocal

\* The cap of the public state is the top of the tree over the log.
LEMMA ReadCapRow ==
    ASSUME NEW roots, NEW leaves, NEW all, StandsFor(roots, leaves, all)
    PROVE  /\ \E T : CapRow(roots, leaves) \in Seq(T)
           /\ Len(CapRow(roots, leaves)) = Len(roots) + (IF leaves = <<>> THEN 0 ELSE 1)
           /\ \A j \in Nat : GetOr(CapRow(roots, leaves), j, CapZero)
                               = RefNode(all, FieldZero, ShardHeight, j)
<1> DEFINE row == CapRow(roots, leaves)
           root == RefRoot(ShardHeight, FieldZero, leaves)
           c == Len(roots)
<1>1. PICK S : roots \in Seq(S)
    BY DEF StandsFor, IsSequence
<1>2. /\ c \in Nat /\ leaves \in Seq(Notes) /\ Len(leaves) \in 0..(ShardSize - 1)
      /\ all \in Seq(Notes) /\ Len(all) = c * ShardSize + Len(leaves)
      /\ ShardSize \in Nat /\ ShardHeight \in Nat
      /\ (leaves = <<>> <=> Len(leaves) = 0)
    BY <1>1, LenProperties, EmptySeq, ShardSizePositive, Heights DEF StandsFor, IsTail
<1>3. /\ row \in Seq(S \cup {root}) /\ Len(row) = c + (IF leaves = <<>> THEN 0 ELSE 1)
      /\ \A k \in 1..c : row[k] = roots[k]
      /\ leaves # <<>> => row[c + 1] = root
  <2>1. roots \in Seq(S \cup {root}) /\ root \in S \cup {root}
      BY <1>1, SeqMonotonic
  <2> HIDE DEF root
  <2>2. /\ Append(roots, root) \in Seq(S \cup {root}) /\ Len(Append(roots, root)) = c + 1
        /\ \A k \in 1..c : Append(roots, root)[k] = roots[k]
        /\ Append(roots, root)[c + 1] = root
      BY <2>1, AppendProperties
  <2>3. row = IF leaves = <<>> THEN roots ELSE Append(roots, root)
      BY DEF CapRow, root
  <2> HIDE DEF row
  <2> QED
      BY <1>2, <2>1, <2>2, <2>3
<1> HIDE DEF row
<1>4. ASSUME NEW j \in Nat
      PROVE  GetOr(row, j, CapZero) = RefNode(all, FieldZero, ShardHeight, j)
  <2>1. CASE j < c
    <3>1. j + 1 \in 1..c /\ (j + 1) - 1 = j /\ j < Len(row)
        BY <1>2, <1>3, <2>1
    <3>2. roots[j + 1] = RefNode(all, FieldZero, ShardHeight, (j + 1) - 1)
        BY <3>1 DEF StandsFor, AreRoots
    <3> QED
        BY <1>3, <3>1, <3>2 DEF GetOr, At
  <2>2. CASE j = c /\ leaves # <<>>
    <3>1. root = RefNode(all, FieldZero, ShardHeight, c)
        BY <1>2, RootOfTail DEF StandsFor
    <3>2. j < Len(row)
        BY <1>2, <1>3, <2>2
    <3> QED
        BY <1>3, <2>2, <3>1, <3>2 DEF GetOr, At
  <2>3. CASE j >= Len(row)
    <3>1. Len(all) \in Nat /\ Ceil(Len(all), ShardHeight) <= Len(row)
      <4>1. PICK a \in Nat \ {0} : a = ShardSize
          BY ShardSizePositive
      <4>2. PICK l \in 0..(a - 1) : l = Len(leaves)
          BY <1>2, <4>1
      <4>3. PICK m \in Nat : m = c * a /\ a * c = m /\ a * (c + 1) = m + a
        <5>1. c * a \in Nat /\ a * c = c * a /\ a * (c + 1) = c * a + a
            BY <1>2, <4>1
        <5> QED
            BY <5>1
      <4>4. Len(all) = m + l
          BY <1>2, <4>1, <4>2, <4>3
      <4>5. (m + l + a - 1) \div a = IF l = 0 THEN c ELSE c + 1
        <5>1. CASE l = 0
          <6>1. a * c <= m + l + a - 1 /\ m + l + a - 1 < a * c + a
              BY <4>3, <5>1
          <6>2. m + l + a - 1 \in Int /\ c \in Int
              BY <1>2
          <6>3. (m + l + a - 1) \div a = c
              BY <6>1, <6>2, Quotient
          <6> QED
              BY <5>1, <6>3
        <5>2. CASE l # 0
          <6>1. /\ a * (c + 1) <= m + l + a - 1 /\ m + l + a - 1 < a * (c + 1) + a
                /\ m + l + a - 1 \in Int /\ c + 1 \in Int
              BY <1>2, <4>3, <5>2
          <6> QED
              BY <5>2, <6>1, Quotient
        <5> QED
            BY <5>1, <5>2
      <4>6. Ceil(Len(all), ShardHeight) = IF l = 0 THEN c ELSE c + 1
          BY <4>1, <4>4, <4>5, SizeOfShard DEF Ceil
      <4> QED
          BY <1>2, <1>3, <4>2, <4>4, <4>6
    <3>2. Ceil(Len(all), ShardHeight) \in Nat
        BY <1>2, <3>1, CeilNat
    <3>3. j >= Ceil(Len(all), ShardHeight)
        BY <1>2, <1>3, <2>3, <3>1, <3>2
    <3>4. RefNode(all, FieldZero, ShardHeight, j) = EmptyNode(FieldZero, ShardHeight)
        BY <1>2, <3>1, <3>3, RefNodePadding
    <3>5. ~(j < Len(row))
        BY <1>2, <1>3, <2>3
    <3> QED
        BY <3>4, <3>5, CapZeroIsEmpty DEF GetOr
  <2>4. j < c \/ (j = c /\ leaves # <<>>) \/ j >= Len(row)
      BY <1>2, <1>3
  <2> QED
      BY <2>1, <2>2, <2>3, <2>4
<1> QED
    BY <1>3, <1>4 DEF row

\* The root of the cap is the root of the flat tree over the log.
LEMMA RootOfCap ==
    ASSUME NEW roots, NEW leaves, NEW all, StandsFor(roots, leaves, all)
    PROVE  ImtRoot(RefTree(CapDepth, CapZero, CapRow(roots, leaves)))
             = RefRoot(Depth, FieldZero, all)
<1> DEFINE row == CapRow(roots, leaves)
<1>1. PICK T : row \in Seq(T)
    BY ReadCapRow
<1>2. \A j \in Nat : GetOr(row, j, CapZero) = RefNode(all, FieldZero, ShardHeight, j)
    BY ReadCapRow
<1> HIDE DEF row
<1>3. CapDepth \in Nat /\ ShardHeight \in Nat /\ ShardHeight + CapDepth = Depth
    BY GeometryAssumption DEF CapDepth
<1>4. RefNode(row, CapZero, CapDepth, 0) = RefNode(all, FieldZero, ShardHeight + CapDepth, 0)
    BY <1>2, <1>3, TopOfTree
<1>5. ImtRoot(RefTree(CapDepth, CapZero, row)) = RefRoot(CapDepth, CapZero, row)
    BY <1>1, <1>3, RootIsRef
<1> QED
    BY <1>3, <1>4, <1>5 DEF RefRoot, row

\* Both trees are what the public state makes them.
Ref ==
    /\ StandsFor(completed, liveLeaves, log)
    /\ live = RefTree(ShardHeight, FieldZero, liveLeaves)
    /\ cap = RefTree(CapDepth, CapZero, CapRow(completed, liveLeaves))

\* Every frozen path leads from its note to the root of its shard.
PathsOK(rows, roots) ==
    \A n \in DOMAIN rows :
        rows[n].path # NoPath =>
            /\ IsRow(rows[n].path, Len(rows[n].path))
            /\ FrozenPathHolds(roots, n, rows[n].leaf_index, rows[n].path)

\* The path taken at a rollover leads to the root of the shard.
LEMMA FreshPath ==
    ASSUME NEW leaves \in Seq(Notes), Len(leaves) = ShardSize, NEW w \in 0..(ShardSize - 1)
    PROVE  LET path == ImtSiblings(RefTree(ShardHeight, FieldZero, leaves), w)
           IN  /\ IsRow(path, Len(path)) /\ Len(path) = ShardHeight
               /\ PathRoot(leaves[w + 1], w, path) = RefRoot(ShardHeight, FieldZero, leaves)
<1> DEFINE tree == RefTree(ShardHeight, FieldZero, leaves)
           path == ImtSiblings(tree, w)
           leaf == GetOr(leaves, w, FieldZero)
<1>1. /\ w \in Nat /\ w < 2 ^ ShardHeight /\ leaf = leaves[w + 1]
      /\ ShardHeight \in Nat
    BY ShardSizePositive, SizeOfShard, Heights DEF GetOr, At
<1>2. tree.depth = ShardHeight
    BY DEF RefTree
<1>3. /\ Len(path) = ShardHeight
      /\ AreSiblings(path, leaves, FieldZero, w, ShardHeight)
    BY <1>1, SiblingsAreRef
<1> HIDE DEF tree
<1>4. IsRow(path, ShardHeight)
    BY <1>1, <1>2, SiblingsAreRow
<1> HIDE DEF path, leaf
<1>5. PICK node : /\ PathRoot(leaf, w, path) = node[ShardHeight]
                  /\ IsPath(node, leaf, w, path, ShardHeight)
    BY <1>1, <1>3, PathExists
<1>6. node[ShardHeight] = RefNode(leaves, FieldZero, ShardHeight, Above(w, ShardHeight))
    BY <1>1, <1>3, <1>5, PathUp DEF leaf
<1>7. Above(w, ShardHeight) = 0
    BY <1>1, AboveTop
<1> QED
    BY <1>1, <1>3, <1>4, <1>5, <1>6, <1>7 DEF RefRoot, tree, path

\* A path that leads to the root of a completed shard is the one in the tree
\* over the log, and its note is the leaf there.
LEMMA FrozenMeans ==
    ASSUME NEW roots, NEW leaves, NEW all, StandsFor(roots, leaves, all),
           NEW index \in Nat, Shard(index) < Len(roots), NEW note, NEW path,
           FrozenPathHolds(roots, note, index, path)
    PROVE  /\ note = GetOr(all, index, FieldZero)
           /\ AreSiblings(path, all, FieldZero, index, ShardHeight)
<1>1. PICK q, w : q = Shard(index) /\ w = Within(index)
    OBVIOUS
<1>2. /\ q \in Nat /\ w \in Nat /\ w < ShardSize /\ index = q * ShardSize + w
      /\ ShardHeight \in Nat
  <2>1. q \in Nat /\ w \in 0..(ShardSize - 1) /\ index = ShardSize * q + w
      BY <1>1, Split
  <2>2. ShardSize \in Nat /\ ShardHeight \in Nat
      BY ShardSizePositive, Heights
  <2>3. ShardSize * q = q * ShardSize
      BY <2>1, <2>2
  <2> QED
      BY <2>1, <2>2, <2>3
<1>3. q + 1 \in 1..Len(roots) /\ (q + 1) - 1 = q
  <2>1. Len(roots) \in Nat
      BY DEF StandsFor, IsSequence
  <2> QED
      BY <1>1, <1>2, <2>1
<1>4. /\ Len(path) = ShardHeight
      /\ PathRoot(note, w, path) = RefNode(all, FieldZero, ShardHeight, q)
  <2>1. roots[q + 1] = RefNode(all, FieldZero, ShardHeight, (q + 1) - 1)
      BY <1>3 DEF StandsFor, AreRoots
  <2> QED
      BY <1>1, <1>3, <2>1 DEF FrozenPathHolds, At
<1>5. PICK node : /\ PathRoot(note, w, path) = node[ShardHeight]
                  /\ IsPath(node, note, w, path, ShardHeight)
    BY <1>2, <1>4, PathExists
<1>6. IsPath(node, note, index, path, ShardHeight)
    BY <1>2, <1>5, ShardPath, SizeOfShard
<1>7. node[ShardHeight] = RefNode(all, FieldZero, ShardHeight, Above(index, ShardHeight))
    BY <1>1, <1>4, <1>5, ShardAbove
<1> QED
    BY <1>2, <1>6, <1>7, PathDown

\* The last element of a sequence, replaced.
LEMMA ReplacedLast ==
    ASSUME NEW S, NEW row \in Seq(S), NEW a \in S, NEW b \in S
    PROVE  [Append(row, a) EXCEPT ![Len(row) + 1] = b] = Append(row, b)
<1> DEFINE s == Append(row, a)
           t == Append(row, b)
<1>1. /\ s \in Seq(S) /\ Len(s) = Len(row) + 1 /\ Len(row) \in Nat
      /\ \A k \in 1..Len(row) : s[k] = row[k]
    BY AppendProperties, LenProperties
<1>2. /\ t \in Seq(S) /\ Len(t) = Len(row) + 1
      /\ \A k \in 1..Len(row) : t[k] = row[k]
      /\ t[Len(row) + 1] = b
    BY AppendProperties
<1> HIDE DEF s, t
<1>3. s \in [1..(Len(row) + 1) -> S] /\ t \in [1..(Len(row) + 1) -> S]
    BY <1>1, <1>2, LenProperties
<1>4. [s EXCEPT ![Len(row) + 1] = b] \in [1..(Len(row) + 1) -> S]
    BY <1>3
<1>5. ASSUME NEW k \in 1..(Len(row) + 1) PROVE [s EXCEPT ![Len(row) + 1] = b][k] = t[k]
  <2>1. CASE k = Len(row) + 1
      BY <1>2, <1>3, <2>1
  <2>2. CASE k # Len(row) + 1
    <3>1. k \in 1..Len(row)
        BY <1>1, <2>2
    <3> QED
        BY <1>1, <1>2, <1>3, <2>2, <3>1
  <2> QED
      BY <2>1, <2>2
<1>6. [s EXCEPT ![Len(row) + 1] = b] = t
    BY <1>3, <1>4, <1>5
<1> QED
    BY <1>6 DEF s, t

\* `sync_live_root` puts the live root behind the completed ones.
LEMMA SyncedCapIsRef ==
    ASSUME Ref, NEW root
    PROVE  SyncedCap(root) = RefTree(CapDepth, CapZero, Append(completed, root))
<1>1. PICK S : completed \in Seq(S)
    BY DEF Ref, StandsFor, IsSequence
<1>2. PICK old : old = RefRoot(ShardHeight, FieldZero, liveLeaves)
    OBVIOUS
<1> DEFINE T == S \cup {old, root}
<1>3. completed \in Seq(T) /\ old \in T /\ root \in T /\ Len(completed) \in Nat
    BY <1>1, SeqMonotonic, LenProperties
<1> HIDE DEF T
<1>4. CapDepth \in Nat
    BY Heights
<1>5. CASE liveLeaves = <<>>
  <2>1. cap = RefTree(CapDepth, CapZero, completed)
      BY <1>5 DEF Ref, CapRow
  <2>2. ImtLeafCount(cap) = Len(completed)
      BY <1>3, <1>4, <2>1, ReadLeaves DEF ImtLeafCount, ImtLeaves
  <2>3. ImtInsert(RefTree(CapDepth, CapZero, completed), root)
          = RefTree(CapDepth, CapZero, Append(completed, root))
      BY <1>3, <1>4, InsertIsRef
  <2> QED
      BY <2>1, <2>2, <2>3 DEF SyncedCap
<1>6. CASE liveLeaves # <<>>
  <2> DEFINE row == Append(completed, old)
             next == Append(completed, root)
  <2>1. cap = RefTree(CapDepth, CapZero, row)
      BY <1>2, <1>6 DEF Ref, CapRow
  <2>2. row \in Seq(T) /\ Len(row) = Len(completed) + 1 /\ Len(completed) < Len(row)
      BY <1>3, AppendProperties
  <2>3. [row EXCEPT ![Len(completed) + 1] = root] = next
      BY <1>3, ReplacedLast
  <2> HIDE DEF row, next
  <2>4. ImtLeafCount(cap) = Len(completed) + 1
      BY <1>4, <2>1, <2>2, ReadLeaves DEF ImtLeafCount, ImtLeaves
  <2>5. ImtUpdate(RefTree(CapDepth, CapZero, row), Len(completed), root)
          = RefTree(CapDepth, CapZero, next)
      BY <1>3, <1>4, <2>2, <2>3, UpdateIsRef
  <2>6. SyncedCap(root) = ImtUpdate(cap, Len(completed), root)
      BY <1>3, <2>4 DEF SyncedCap
  <2> QED
      BY <2>1, <2>5, <2>6 DEF next
<1> QED
    BY <1>5, <1>6

\* Leaves appended to the live shard are appended to the log.
LEMMA Grow ==
    ASSUME StandsFor(completed, liveLeaves, log), NEW added \in Seq(Notes), added # <<>>,
           Len(liveLeaves) + Len(added) <= ShardSize
    PROVE  /\ IsTail(liveLeaves \o added, log \o added, Len(completed))
           /\ AreRoots(completed, log \o added)
           /\ Len(liveLeaves \o added) = Len(liveLeaves) + Len(added)
           /\ liveLeaves \o added # <<>>
<1> DEFINE leaves == liveLeaves \o added
           all == log \o added
<1>1. /\ liveLeaves \in Seq(Notes) /\ log \in Seq(Notes)
      /\ Len(liveLeaves) \in Nat /\ Len(added) \in Nat /\ Len(added) # 0 /\ Len(log) \in Nat
      /\ Len(completed) \in Nat
      /\ IsSequence(completed)
  <2>1. Len(completed) \in Nat
      BY DEF StandsFor, IsSequence
  <2> QED
      BY <2>1, LenProperties, EmptySeq DEF StandsFor, IsTail
<1>2. PICK m \in Nat : m = Len(completed) * ShardSize
    BY <1>1, ShardSizePositive
<1>3. Len(log) = m + Len(liveLeaves) /\ \A i \in 1..Len(liveLeaves) : liveLeaves[i] = log[m + i]
    BY <1>2 DEF StandsFor, IsTail
<1>4. /\ leaves \in Seq(Notes) /\ Len(leaves) = Len(liveLeaves) + Len(added)
      /\ \A i \in 1..(Len(liveLeaves) + Len(added)) :
            leaves[i] = IF i <= Len(liveLeaves) THEN liveLeaves[i] ELSE added[i - Len(liveLeaves)]
    BY <1>1, ConcatProperties
<1>5. /\ all \in Seq(Notes) /\ Len(all) = Len(log) + Len(added)
      /\ \A i \in 1..(Len(log) + Len(added)) :
            all[i] = IF i <= Len(log) THEN log[i] ELSE added[i - Len(log)]
    BY <1>1, ConcatProperties
<1> HIDE DEF leaves, all
<1>6. IsTail(leaves, all, Len(completed))
  <2>1. Len(all) = m + Len(leaves)
      BY <1>1, <1>3, <1>4, <1>5
  <2>2. ASSUME NEW i \in 1..Len(leaves) PROVE leaves[i] = all[m + i]
    <3>1. CASE i <= Len(liveLeaves)
      <4>1. /\ i \in 1..Len(liveLeaves) /\ m + i \in 1..(Len(log) + Len(added))
            /\ m + i <= Len(log)
          BY <1>1, <1>3, <3>1
      <4> QED
          BY <1>3, <1>4, <1>5, <3>1, <4>1
    <3>2. CASE ~(i <= Len(liveLeaves))
      <4>1. /\ m + i \in 1..(Len(log) + Len(added)) /\ ~(m + i <= Len(log))
            /\ (m + i) - Len(log) = i - Len(liveLeaves)
          BY <1>1, <1>3, <1>4, <3>2
      <4> QED
          BY <1>4, <1>5, <3>2, <4>1
    <3> QED
        BY <3>1, <3>2
  <2> QED
      BY <1>2, <1>4, <1>5, <2>1, <2>2 DEF IsTail
<1>7. AreRoots(completed, all)
  <2>1. /\ Len(completed) * ShardSize <= Len(log) /\ Len(completed) * ShardSize <= Len(all)
        /\ \A i \in 1..(Len(completed) * ShardSize) : log[i] = all[i]
      BY <1>1, <1>2, <1>3, <1>5
  <2>2. AreRoots(completed, log)
      BY DEF StandsFor
  <2> QED
      BY <1>1, <1>5, <2>1, <2>2, RootsStay
<1>8. leaves # <<>>
    BY <1>1, <1>4
<1> QED
    BY <1>4, <1>6, <1>7, <1>8 DEF leaves, all

\* The live shard, once it holds more leaves, is absorbed into the trees that
\* the longer log has.
LEMMA AbsorbKeepsRef ==
    ASSUME TreeInv, Ref, PathsOK(owned, completed),
           NEW shard, NEW leaves, NEW added \in Seq(Notes), added # <<>>,
           leaves = liveLeaves \o added, Len(liveLeaves) + Len(added) <= ShardSize,
           shard = RefTree(ShardHeight, FieldZero, leaves),
           \A k \in 1..Len(added) : ~LeafTaken(LeafCount + k - 1, added[k]),
           Absorb(shard, leaves, added)
    PROVE  Ref' /\ PathsOK(owned, completed)'
<1> DEFINE all == log \o added
           root == ImtRoot(shard)
<1>1. /\ IsTail(leaves, all, Len(completed)) /\ AreRoots(completed, all)
      /\ Len(leaves) = Len(liveLeaves) + Len(added) /\ leaves # <<>>
    BY Grow DEF Ref
<1>2. leaves \in Seq(Notes) /\ all \in Seq(Notes)
    BY <1>1 DEF IsTail
<1>3. ShardHeight \in Nat \ {0} /\ CapDepth \in Nat
    BY Heights
<1>4. IsTree(shard, ShardHeight) /\ ImtLeaves(shard) = leaves
  <2>1. /\ shard.nodes[0] = leaves /\ shard.depth = ShardHeight
        /\ shard = [depth |-> ShardHeight, zero |-> shard.zero, nodes |-> shard.nodes]
    <3>1. shard.nodes[0] = leaves
        BY <1>2, <1>3, ReadLeaves
    <3> QED
        BY <3>1 DEF RefTree
  <2> QED
      BY <1>2, <2>1, LenProperties DEF IsTree, ImtLeafCount, ImtLeaves
<1>5. root = RefRoot(ShardHeight, FieldZero, leaves)
    BY <1>2, <1>3, RootIsRef
<1>6. CapFits /\ SyncedCap(root) = RefTree(CapDepth, CapZero, Append(completed, root))
    BY CapAlwaysFits, SyncedCapIsRef
<1>7. /\ log' = all /\ cap' = RefTree(CapDepth, CapZero, Append(completed, root))
      /\ IF Len(leaves) = ShardSize
         THEN RollOver(shard, leaves)
         ELSE /\ live' = shard /\ liveLeaves' = leaves
              /\ UNCHANGED <<completed, owned>>
    BY <1>6 DEF Absorb
<1>8. IsSequence(completed) /\ Len(completed) \in Nat
    BY DEF Ref, StandsFor, IsSequence
<1> HIDE DEF all, root
<1>9. CASE Len(leaves) # ShardSize
  <2>1. /\ live' = shard /\ liveLeaves' = leaves
        /\ UNCHANGED <<completed, owned>>
      BY <1>7, <1>9
  <2>2. Len(leaves) < ShardSize
    <3>1. Len(leaves) \in Nat /\ ShardSize \in Nat /\ Len(leaves) <= ShardSize
        BY <1>1, <1>2, LenProperties, ShardSizePositive
    <3> QED
        BY <1>9, <3>1
  <2>3. StandsFor(completed, leaves, all)
      BY <1>1, <1>8, <2>2 DEF StandsFor
  <2>4. CapRow(completed, leaves) = Append(completed, root)
      BY <1>1, <1>5 DEF CapRow
  <2>5. Ref'
      BY <1>7, <2>1, <2>3, <2>4 DEF Ref
  <2>6. PathsOK(owned, completed)'
      BY <2>1 DEF PathsOK, FrozenPathHolds
  <2> QED
      BY <2>5, <2>6
<1>10. CASE Len(leaves) = ShardSize
  <2>1. Lost(shard) = {}
      BY <1>1, <1>4, <1>10, NoneLost
  <2>2. /\ owned' = Freeze(Freezing, shard)
        /\ completed' = Append(completed, root)
        /\ live' = ImtNew(ShardHeight, FieldZero)
        /\ liveLeaves' = <<>>
      BY <1>7, <1>10, <2>1 DEF RollOver, FreezeOwned, root
  <2>3. /\ IsSequence(completed') /\ Len(completed') = Len(completed) + 1
        /\ \A k \in 1..Len(completed) : completed'[k] = completed[k]
        /\ completed'[Len(completed) + 1] = root
    <3>1. PICK S : completed \in Seq(S)
        BY <1>8 DEF IsSequence
    <3>2. completed \in Seq(S \cup {root}) /\ root \in S \cup {root}
        BY <3>1, SeqMonotonic
    <3> QED
        BY <2>2, <3>2, AppendProperties DEF IsSequence
  <2>4. root = RefNode(all, FieldZero, ShardHeight, Len(completed))
      BY <1>1, <1>5, <1>8, RootOfTail
  <2>5. AreRoots(completed', all)
    <3> SUFFICES ASSUME NEW k \in 1..(Len(completed) + 1)
                 PROVE  completed'[k] = RefNode(all, FieldZero, ShardHeight, k - 1)
        BY <2>3 DEF AreRoots
    <3>1. CASE k \in 1..Len(completed)
        BY <1>1, <2>3, <3>1 DEF AreRoots
    <3>2. CASE k = Len(completed) + 1
      <4>1. k - 1 = Len(completed)
          BY <1>8, <3>2
      <4> QED
          BY <2>3, <2>4, <3>2, <4>1
    <3> QED
        BY <1>8, <3>1, <3>2
  <2>6. IsTail(<<>>, all, Len(completed) + 1)
    <3>1. Len(all) = Len(completed) * ShardSize + ShardSize
        BY <1>1, <1>10 DEF IsTail
    <3>2. (Len(completed) + 1) * ShardSize = Len(completed) * ShardSize + ShardSize
        BY <1>8, ShardSizePositive
    <3>3. Len(all) \in Nat
        BY <1>2, LenProperties
    <3> QED
        BY <1>2, <3>1, <3>2, <3>3 DEF IsTail
  <2>7. StandsFor(completed', <<>>, all)
      BY <2>3, <2>5, <2>6, ShardSizePositive DEF StandsFor
  <2>8. CapRow(completed', <<>>) = Append(completed, root)
      BY <2>2 DEF CapRow
  <2>9. ImtNew(ShardHeight, FieldZero) = RefTree(ShardHeight, FieldZero, <<>>)
      BY <1>3, NewIsRef
  <2>10. Ref'
      BY <1>7, <2>2, <2>7, <2>8, <2>9 DEF Ref
  <2>11. PathsOK(owned', completed')
    <3> SUFFICES ASSUME NEW n \in DOMAIN owned, owned'[n].path # NoPath
                 PROVE  /\ IsRow(owned'[n].path, Len(owned'[n].path))
                        /\ FrozenPathHolds(completed', n, owned'[n].leaf_index, owned'[n].path)
        BY <2>2 DEF Freeze, PathsOK
    <3>1. PICK index, q, w : index = owned[n].leaf_index /\ q = Shard(index) /\ w = Within(index)
        OBVIOUS
    <3>2. /\ index \in Nat /\ q \in Nat /\ w \in 0..(ShardSize - 1)
          /\ owned[n] = [leaf_index |-> index, path |-> owned[n].path]
        BY <3>1, Split DEF TreeInv, RowsOK
    <3>3. CASE n \in Freezing
      <4> DEFINE path == ImtSiblings(shard, w)
      <4>1. owned'[n] = [owned[n] EXCEPT !.path = path]
          BY <2>2, <3>1, <3>3 DEF Freeze
      <4>2. owned'[n].leaf_index = index /\ owned'[n].path = path
        <5> HIDE DEF path
        <5> QED
            BY <3>2, <4>1
      <4>3. q = Len(completed)
          BY <3>1, <3>3 DEF Freezing
      <4>4. leaves[w + 1] = n
        <5>1. /\ w < Len(liveLeaves) + Len(added)
              /\ Shard(owned[n].leaf_index) = Len(completed)
            BY <1>1, <1>10, <3>1, <3>2, <4>3, ShardSizePositive
        <5> QED
            BY <3>1, <5>1, AbsorbedInPlace
      <4>5. /\ IsRow(path, Len(path)) /\ Len(path) = ShardHeight
            /\ PathRoot(leaves[w + 1], w, path) = RefRoot(ShardHeight, FieldZero, leaves)
          BY <1>2, <1>10, <3>2, FreshPath
      <4> HIDE DEF path
      <4>6. At(completed', Shard(index)) = root
          BY <2>3, <3>1, <4>3 DEF At
      <4> QED
          BY <1>5, <3>1, <4>2, <4>4, <4>5, <4>6 DEF FrozenPathHolds
    <3>4. CASE n \notin Freezing
      <4>1. owned'[n] = owned[n]
          BY <2>2, <3>4 DEF Freeze
      <4>2. q < Len(completed) /\ q + 1 \in 1..Len(completed)
        <5>1. q < Len(completed)
            BY <3>1, <4>1 DEF TreeInv, FrozenIffCompleted
        <5> QED
            BY <1>8, <3>2, <5>1
      <4>3. At(completed', Shard(index)) = At(completed, Shard(index))
          BY <2>3, <3>1, <4>2 DEF At
      <4>4. /\ IsRow(owned[n].path, Len(owned[n].path))
            /\ FrozenPathHolds(completed, n, index, owned[n].path)
          BY <3>1, <4>1 DEF PathsOK
      <4> QED
          BY <3>1, <4>1, <4>3, <4>4 DEF FrozenPathHolds
    <3> QED
        BY <3>3, <3>4
  <2> QED
      BY <2>10, <2>11
<1> QED
    BY <1>9, <1>10

\* The tree never holds, or is about to hold, more than its capacity.
RoomLeft == Len(log) + Len(pending) <= Capacity

\* No note is owned past the end of the tree.
InRange == \A n \in DOMAIN owned : owned[n].leaf_index < Capacity

\* The inductive invariant: that of the bookkeeping, and that the trees and
\* the frozen paths are those of the log.
RefInv == IInv /\ Ref /\ PathsOK(owned, completed) /\ RoomLeft /\ InRange

\* The log has as many leaves as the tree.
LEMMA LogLength ==
    ASSUME Ref
    PROVE  Len(log) = LeafCount /\ Len(log) \in Nat /\ Capacity \in Nat
<1>1. Len(log) = LeafCount /\ Len(log) \in Nat
    BY LenProperties DEF Ref, StandsFor, IsTail, LeafCount
<1>2. Capacity \in Nat
    BY GeometryAssumption, PowerPositive, SizeOfShard
<1> QED
    BY <1>1, <1>2

\* What touches neither the trees nor the rows keeps the trees exact.
LEMMA RefUnmoved ==
    ASSUME Ref, UNCHANGED <<completed, live, liveLeaves, cap, log>>
    PROVE  Ref'
    BY DEF Ref

\* `new`: two empty trees over an empty log.
LEMMA InitRefInv == Init => RefInv
<1> SUFFICES ASSUME Init PROVE RefInv
    OBVIOUS
<1>1. IInv
    BY InitIInv
<1>2. /\ completed = <<>> /\ liveLeaves = <<>> /\ log = <<>> /\ pending = <<>>
      /\ live = ImtNew(ShardHeight, FieldZero) /\ cap = ImtNew(CapDepth, CapZero)
      /\ DOMAIN owned = {}
    BY DEF Init
<1>3. StandsFor(completed, liveLeaves, log)
  <2>1. IsSequence(completed)
      BY <1>1 DEF IInv, TreeInv, LeavesOK
  <2>2. 0 * ShardSize = 0
      BY ShardSizePositive
  <2> QED
      BY <1>2, <2>1, <2>2, ShardSizePositive DEF StandsFor, IsTail, AreRoots
<1>4. Ref
  <2>1. /\ ImtNew(ShardHeight, FieldZero) = RefTree(ShardHeight, FieldZero, <<>>)
        /\ ImtNew(CapDepth, CapZero) = RefTree(CapDepth, CapZero, <<>>)
      BY Heights, NewIsRef
  <2> QED
      BY <1>2, <1>3, <2>1 DEF Ref, CapRow
<1>5. PathsOK(owned, completed) /\ InRange
    BY <1>2 DEF PathsOK, InRange
<1>6. RoomLeft
    BY <1>2, <1>4, LogLength DEF RoomLeft
<1> QED
    BY <1>1, <1>4, <1>5, <1>6 DEF RefInv

\* Absorbing leaves moves no owned note.
LEMMA AbsorbKeepsRange ==
    ASSUME RowsOK, InRange, NEW shard, IsTree(shard, ShardHeight), NEW leaves, NEW added,
           Absorb(shard, leaves, added)
    PROVE  InRange'
<1>1. owned' = owned \/ \E notes \in SUBSET Freezing : owned' = Freeze(notes, shard)
    BY DEF Absorb, RollOver, FreezeOwned
<1>2. Capacity' = Capacity
    BY DEF Capacity
<1>3. CASE owned' = owned
    BY <1>2, <1>3 DEF InRange
<1>4. CASE \E notes \in SUBSET Freezing : owned' = Freeze(notes, shard)
    BY <1>2, <1>4, Frozen DEF InRange
<1> QED
    BY <1>1, <1>3, <1>4

\* A tree over leaves, as the earlier lemmas look at it.
LEMMA RefIsTree ==
    ASSUME NEW leaves \in Seq(Notes), NEW zero, NEW depth \in Nat
    PROVE  /\ IsTree(RefTree(depth, zero, leaves), depth)
           /\ ImtLeaves(RefTree(depth, zero, leaves)) = leaves
<1>1. RefTree(depth, zero, leaves).nodes[0] = leaves
    BY ReadLeaves
<1> QED
    BY <1>1, LenProperties DEF RefTree, IsTree, ImtLeafCount, ImtLeaves

\* `append`.
LEMMA AppendNoteKeepsRef ==
    ASSUME RefInv, NEW note \in Notes, AppendNote(note)
    PROVE  RefInv'
<1>1. IInv'
    BY AppendNoteKeepsIInv DEF RefInv
<1>2. CASE /\ AppendError(<<note>>) = "ok"
           /\ Absorb(ImtInsert(live, note), Append(liveLeaves, note), <<note>>)
           /\ UNCHANGED pending
  <2>1. /\ TreeInv /\ Ref /\ PathsOK(owned, completed) /\ InRange /\ RoomLeft /\ RowsOK
        /\ liveLeaves \in Seq(Notes) /\ live = RefTree(ShardHeight, FieldZero, liveLeaves)
      BY DEF RefInv, IInv, TreeInv, Ref, StandsFor, IsTail
  <2> DEFINE leaves == liveLeaves \o <<note>>
  <2>2. /\ <<note>> \in Seq(Notes) /\ <<note>> # <<>> /\ Len(<<note>>) = 1
        /\ Append(liveLeaves, note) = leaves
      BY <2>1, AppendIsConcat
  <2>3. Len(liveLeaves) + Len(<<note>>) <= ShardSize
      BY <2>1, <2>2, Counts, ShardSizePositive DEF TreeInv
  <2>4. ImtInsert(live, note) = RefTree(ShardHeight, FieldZero, leaves)
    <3>1. \A row \in Seq(Notes), leaf \in Notes :
             ImtInsert(RefTree(ShardHeight, FieldZero, row), leaf)
               = RefTree(ShardHeight, FieldZero, Append(row, leaf))
        BY InsertIsRef, Heights
    <3> HIDE DEF leaves
    <3> QED
        BY <2>1, <2>2, <3>1
  <2>5. \A k \in 1..Len(<<note>>) : ~LeafTaken(LeafCount + k - 1, <<note>>[k])
      BY <1>2 DEF AppendError
  <2>6. Absorb(RefTree(ShardHeight, FieldZero, leaves), leaves, <<note>>)
      BY <1>2, <2>2, <2>4
  <2>7. leaves \in Seq(Notes)
      BY <2>1, <2>2, ConcatProperties
  <2> HIDE DEF leaves
  <2>8. Ref' /\ PathsOK(owned, completed)'
      BY <2>1, <2>2, <2>3, <2>5, <2>6, AbsorbKeepsRef DEF leaves
  <2>9. IsTree(RefTree(ShardHeight, FieldZero, leaves), ShardHeight)
      BY <2>7, RefIsTree, Heights
  <2>10. InRange'
      BY <2>1, <2>6, <2>9, AbsorbKeepsRange
  <2>11. RoomLeft'
    <3>1. pending' = <<>> /\ Capacity' = Capacity
        BY <1>2 DEF AppendNote, Idle, Capacity
    <3>2. log' = log \o <<note>>
        BY <2>6 DEF Absorb
    <3>3. Len(log') = Len(log) + 1
      <4>1. log \in Seq(Notes)
          BY <2>1 DEF Ref, StandsFor, IsTail
      <4> QED
          BY <2>2, <3>2, <4>1, ConcatProperties
    <3>4. ~(1 > Capacity - LeafCount)
        BY <1>2, <2>2 DEF AppendError
    <3> QED
        BY <2>1, <3>1, <3>3, <3>4, LogLength DEF RoomLeft
  <2> QED
      BY <1>1, <2>8, <2>10, <2>11 DEF RefInv
<1>3. CASE Refuse(AppendError(<<note>>))
    BY <1>1, <1>3, RefUnmoved DEF RefInv, Refuse, treeVars, PathsOK, FrozenPathHolds,
                                  RoomLeft, InRange
<1> QED
    BY <1>2, <1>3 DEF AppendNote

\* `append_many` up to its loop.
LEMMA AppendManyKeepsRef ==
    ASSUME RefInv, NEW notes \in Batches, AppendMany(notes)
    PROVE  RefInv'
<1>1. IInv'
    BY AppendManyKeepsIInv DEF RefInv
<1>2. UNCHANGED <<treeVars, log>>
    BY DEF AppendMany, Refuse
<1>3. Ref' /\ PathsOK(owned, completed)' /\ InRange'
    BY <1>2, RefUnmoved DEF RefInv, treeVars, PathsOK, FrozenPathHolds, InRange
<1>4. RoomLeft'
  <2>1. CASE pending' = notes /\ AppendError(notes) = "ok"
    <3>1. ~(Len(notes) > Capacity - LeafCount)
        BY <2>1 DEF AppendError
    <3>2. Len(notes) \in Nat
      <4>1. pending' \in Seq(Notes)
          BY <1>1 DEF IInv, PendingFree
      <4> QED
          BY <2>1, <4>1, LenProperties
    <3> QED
        BY <1>2, <2>1, <3>1, <3>2, LogLength DEF RefInv, RoomLeft
  <2>2. CASE UNCHANGED pending
      BY <1>2, <2>2 DEF RefInv, RoomLeft
  <2> QED
      BY <2>1, <2>2 DEF AppendMany, Refuse
<1> QED
    BY <1>1, <1>3, <1>4 DEF RefInv

\* A turn of the loop of `append_many`.
LEMMA AppendSegmentKeepsRef ==
    ASSUME RefInv, AppendSegment
    PROVE  RefInv'
<1>1. IInv' /\ IInv
    BY AppendSegmentKeepsIInv DEF RefInv
<1>2. PICK take, segment, shard : IsTurn(take, segment, shard)
    BY <1>1, TurnOfLoop
<1>3. /\ TreeInv /\ Ref /\ PathsOK(owned, completed) /\ InRange /\ RoomLeft /\ RowsOK
      /\ liveLeaves \in Seq(Notes) /\ live = RefTree(ShardHeight, FieldZero, liveLeaves)
      /\ log \in Seq(Notes)
    BY DEF RefInv, IInv, TreeInv, Ref, StandsFor, IsTail
<1> DEFINE leaves == liveLeaves \o segment
<1>4. /\ segment \in Seq(Notes) /\ Len(segment) = take /\ segment # <<>>
      /\ take \in 1..Len(pending) /\ Len(pending) \in Nat
      /\ leaves \in Seq(Notes)
      /\ Len(liveLeaves) + Len(segment) <= ShardSize
      /\ \A k \in 1..Len(segment) : ~LeafTaken(LeafCount + k - 1, segment[k])
      /\ Absorb(shard, leaves, segment)
    BY <1>2 DEF IsTurn
<1>5. shard = RefTree(ShardHeight, FieldZero, leaves)
  <2>1. CASE shard = ImtFromLeaves(ShardHeight, FieldZero, leaves)
      BY <1>4, <2>1, BuiltIsRef, Heights
  <2>2. CASE shard = ImtInsertAll(live, segment)
      BY <1>3, <1>4, <2>2, InsertAllIsRef, Heights
  <2> QED
      BY <1>2, <2>1, <2>2 DEF IsTurn
<1> HIDE DEF leaves
<1>6. Ref' /\ PathsOK(owned, completed)'
    BY <1>3, <1>4, <1>5, AbsorbKeepsRef DEF leaves
<1>7. IsTree(shard, ShardHeight) /\ ImtLeaves(shard) = leaves
    BY <1>4, <1>5, RefIsTree, Heights
<1>8. InRange'
    BY <1>3, <1>4, <1>7, AbsorbKeepsRange
<1>9. RoomLeft'
  <2>1. result' = "ok"
      BY <1>3, <1>4, <1>7, AbsorbKeepsTreeInv DEF leaves
  <2>2. Len(pending') = Len(pending) - take
      BY <1>1, <1>2, <2>1, RestOfBatch
  <2>3. log' = log \o segment
      BY <1>4 DEF Absorb
  <2>4. Len(log') = Len(log) + take
      BY <1>3, <1>4, <2>3, ConcatProperties
  <2> QED
      BY <1>3, <1>4, <2>2, <2>4, LogLength DEF RoomLeft, Capacity
<1> QED
    BY <1>1, <1>6, <1>8, <1>9 DEF RefInv

\* `mark_owned` freezes nothing.
LEMMA MarkOwnedKeepsRef ==
    ASSUME RefInv, NEW note \in Mine, NEW index \in 0..Capacity, MarkOwned(note, index)
    PROVE  RefInv'
<1>1. IInv'
    BY MarkOwnedKeepsIInv DEF RefInv
<1>2. /\ UNCHANGED <<completed, live, liveLeaves, cap, pending, log>>
      /\ \/ UNCHANGED owned
         \/ /\ owned' = Put(owned, note, [leaf_index |-> index, path |-> NoPath])
            /\ ~(index >= Capacity)
    BY DEF MarkOwned, Refuse, treeVars, MarkError
<1>3. Ref' /\ RoomLeft'
    BY <1>2, RefUnmoved DEF RefInv, RoomLeft
<1>4. CASE UNCHANGED owned
    BY <1>1, <1>2, <1>3, <1>4 DEF RefInv, PathsOK, FrozenPathHolds, InRange
<1>5. CASE /\ owned' = Put(owned, note, [leaf_index |-> index, path |-> NoPath])
           /\ ~(index >= Capacity)
  <2>1. /\ DOMAIN owned' = DOMAIN owned \cup {note}
        /\ owned'[note] = [leaf_index |-> index, path |-> NoPath]
        /\ \A n \in DOMAIN owned : n # note => owned'[n] = owned[n]
      BY <1>5 DEF Put
  <2>2. PathsOK(owned, completed)'
      BY <1>2, <2>1 DEF RefInv, PathsOK, FrozenPathHolds
  <2>3. InRange'
    <3>1. index < Capacity /\ Capacity' = Capacity
        BY <1>5, LogLength DEF RefInv, Capacity
    <3> QED
        BY <2>1, <3>1 DEF RefInv, InRange
  <2> QED
      BY <1>1, <1>3, <2>2, <2>3 DEF RefInv
<1> QED
    BY <1>2, <1>4, <1>5

\* `unmark_owned`.
LEMMA UnmarkOwnedKeepsRef ==
    ASSUME RefInv, NEW note \in Mine, UnmarkOwned(note)
    PROVE  RefInv'
<1>1. IInv'
    BY UnmarkOwnedKeepsIInv DEF RefInv
<1>2. /\ UNCHANGED <<completed, live, liveLeaves, cap, pending, log>>
      /\ \A n \in DOMAIN owned' : n \in DOMAIN owned /\ owned'[n] = owned[n]
    BY DEF UnmarkOwned, Unmark, Drop
<1>3. Ref' /\ RoomLeft'
    BY <1>2, RefUnmoved DEF RefInv, RoomLeft
<1>4. PathsOK(owned, completed)' /\ InRange'
    BY <1>2 DEF RefInv, PathsOK, FrozenPathHolds, InRange, Capacity
<1> QED
    BY <1>1, <1>3, <1>4 DEF RefInv

\* `adopt_frozen_witness` checks the path it is given.
LEMMA AdoptKeepsRef ==
    ASSUME RefInv, NEW note \in Mine, NEW index \in Indices, NEW path, IsRow(path, Len(path)),
           AdoptFrozenWitness(note, index, path)
    PROVE  RefInv'
<1>1. IInv'
    BY AdoptKeepsIInv DEF RefInv
<1>2. /\ UNCHANGED <<completed, live, liveLeaves, cap, pending, log>>
      /\ \/ UNCHANGED owned
         \/ /\ owned' = Put(owned, note, [leaf_index |-> index, path |-> path])
            /\ FrozenPathHolds(completed, note, index, path)
    BY DEF AdoptFrozenWitness, Refuse, treeVars, AdoptError
<1>3. Ref' /\ RoomLeft'
    BY <1>2, RefUnmoved DEF RefInv, RoomLeft
<1>4. CASE UNCHANGED owned
    BY <1>1, <1>2, <1>3, <1>4 DEF RefInv, PathsOK, FrozenPathHolds, InRange
<1>5. CASE /\ owned' = Put(owned, note, [leaf_index |-> index, path |-> path])
           /\ FrozenPathHolds(completed, note, index, path)
  <2>1. /\ DOMAIN owned' = DOMAIN owned \cup {note}
        /\ owned'[note] = [leaf_index |-> index, path |-> path]
        /\ \A n \in DOMAIN owned : n # note => owned'[n] = owned[n]
      BY <1>5 DEF Put
  <2>2. PathsOK(owned', completed)
      BY <1>5, <2>1 DEF RefInv, PathsOK
  <2>3. PathsOK(owned, completed)'
      BY <1>2, <2>2 DEF PathsOK, FrozenPathHolds
  <2>4. InRange'
    <3>1. index < Capacity /\ Capacity' = Capacity
        BY LogLength DEF RefInv, Capacity, Indices
    <3> QED
        BY <2>1, <3>1 DEF RefInv, InRange
  <2> QED
      BY <1>1, <1>3, <2>3, <2>4 DEF RefInv
<1> QED
    BY <1>2, <1>4, <1>5

\* `rebuild_cap` puts the live root behind the completed ones.
LEMMA RebuiltCapIsRef ==
    ASSUME NEW roots, NEW leaves, NEW all, StandsFor(roots, leaves, all)
    PROVE  RebuiltCap(roots, RefTree(ShardHeight, FieldZero, leaves), leaves)
             = RefTree(CapDepth, CapZero, CapRow(roots, leaves))
<1> DEFINE row == CapRow(roots, leaves)
<1>1. PICK T : row \in Seq(T)
    BY ReadCapRow
<1>2. leaves \in Seq(Notes) /\ ShardHeight \in Nat /\ CapDepth \in Nat
    BY Heights DEF StandsFor, IsTail
<1>3. ImtRoot(RefTree(ShardHeight, FieldZero, leaves)) = RefRoot(ShardHeight, FieldZero, leaves)
    BY <1>2, RootIsRef
<1>4. RebuiltCap(roots, RefTree(ShardHeight, FieldZero, leaves), leaves)
        = ImtFromLeaves(CapDepth, CapZero, row)
    BY <1>3 DEF RebuiltCap, CapRow
<1> HIDE DEF row
<1>5. ImtFromLeaves(CapDepth, CapZero, row) = RefTree(CapDepth, CapZero, row)
    BY <1>1, <1>2, BuiltIsRef
<1> QED
    BY <1>4, <1>5 DEF row

\* `rewind_live_to` cuts the log.
LEMMA RewindKeepsRef ==
    ASSUME RefInv, NEW count \in 0..Capacity, RewindLiveTo(count)
    PROVE  RefInv'
<1>1. IInv'
    BY RewindKeepsIInv DEF RefInv
<1>2. CASE Refuse("RewindBeforeCompleted") \/ Refuse("LeafIndexOutOfRange")
    BY <1>1, <1>2, RefUnmoved DEF RefInv, Refuse, treeVars, PathsOK, FrozenPathHolds,
                                  RoomLeft, InRange
<1>3. CASE ~(Refuse("RewindBeforeCompleted") \/ Refuse("LeafIndexOutOfRange"))
  <2>1. PICK left, leaves, cut :
          /\ left = count - Len(completed) * ShardSize
          /\ leaves = SubSeq(liveLeaves, 1, left)
          /\ Len(completed) * ShardSize <= count /\ count <= LeafCount
          /\ Unmark(cut)
          /\ liveLeaves' = leaves /\ live' = ImtFromLeaves(ShardHeight, FieldZero, leaves)
          /\ cap' = RebuiltCap(completed, ImtFromLeaves(ShardHeight, FieldZero, leaves), leaves)
          /\ log' = SubSeq(log, 1, count)
          /\ UNCHANGED <<completed, pending>>
      BY <1>3 DEF RewindLiveTo
  <2>2. /\ Ref /\ StandsFor(completed, liveLeaves, log) /\ IsSequence(completed)
        /\ liveLeaves \in Seq(Notes) /\ log \in Seq(Notes) /\ AreRoots(completed, log)
        /\ Len(completed) \in Nat /\ count \in Nat
      BY DEF RefInv, Ref, StandsFor, IsTail, IsSequence
  <2>3. PICK m \in Nat : m = Len(completed) * ShardSize
      BY <2>2, ShardSizePositive
  <2>4. /\ Len(log) = m + Len(liveLeaves) /\ LeafCount = m + Len(liveLeaves)
        /\ \A i \in 1..Len(liveLeaves) : liveLeaves[i] = log[m + i]
        /\ Len(liveLeaves) < ShardSize /\ Len(liveLeaves) \in Nat
      BY <2>2, <2>3, LenProperties DEF StandsFor, IsTail, LeafCount
  <2>5. left \in 0..Len(liveLeaves) /\ count = m + left /\ count \in 0..Len(log)
      BY <2>1, <2>2, <2>3, <2>4
  <2>6. /\ leaves \in Seq(Notes) /\ Len(leaves) = left
        /\ \A i \in 1..left : leaves[i] = liveLeaves[i]
    <3>1. \A i \in 1..left : liveLeaves[i] \in Notes
        BY <2>2, <2>4, <2>5, ElementOfSeq
    <3> QED
        BY <2>1, <2>5, <3>1, SubSeqProperties
  <2>7. /\ log' \in Seq(Notes) /\ Len(log') = count
        /\ \A i \in 1..count : log'[i] = log[i]
    <3>1. \A i \in 1..count : log[i] \in Notes
        BY <2>2, <2>5, ElementOfSeq
    <3> QED
        BY <2>1, <2>2, <3>1, SubSeqProperties
  <2>8. IsTail(leaves, log', Len(completed))
    <3>1. ASSUME NEW i \in 1..left PROVE leaves[i] = log'[m + i]
      <4>1. i \in 1..Len(liveLeaves) /\ m + i \in 1..count
          BY <2>3, <2>4, <2>5
      <4> QED
          BY <2>4, <2>6, <2>7, <4>1
    <3> QED
        BY <2>3, <2>5, <2>6, <2>7, <3>1 DEF IsTail
  <2>9. AreRoots(completed, log')
    <3>1. /\ m <= Len(log) /\ m <= Len(log')
          /\ \A i \in 1..m : log[i] = log'[i]
        BY <2>3, <2>4, <2>5, <2>7
    <3> QED
        BY <2>2, <2>3, <2>7, <3>1, RootsStay
  <2>10. StandsFor(completed, leaves, log')
    <3>1. Len(leaves) < ShardSize
        BY <2>4, <2>5, <2>6, ShardSizePositive
    <3> QED
        BY <2>2, <2>8, <2>9, <3>1 DEF StandsFor
  <2>11. ImtFromLeaves(ShardHeight, FieldZero, leaves) = RefTree(ShardHeight, FieldZero, leaves)
      BY <2>6, BuiltIsRef, Heights
  <2>12. Ref'
      BY <2>1, <2>10, <2>11, RebuiltCapIsRef DEF Ref
  <2>13. \A n \in DOMAIN owned' : n \in DOMAIN owned /\ owned'[n] = owned[n]
      BY <2>1 DEF Unmark, Drop
  <2>14. PathsOK(owned, completed)' /\ InRange'
      BY <2>1, <2>13 DEF RefInv, PathsOK, FrozenPathHolds, InRange, Capacity
  <2>15. RoomLeft'
    <3>1. pending' = <<>> /\ Len(pending') = 0
        BY <2>1 DEF RewindLiveTo, Idle
    <3> QED
        BY <2>2, <2>5, <2>7, <3>1, LogLength DEF RoomLeft, Capacity
  <2> QED
      BY <1>1, <2>12, <2>14, <2>15 DEF RefInv
<1> QED
    BY <1>2, <1>3

\* `from_snapshot` rebuilds both trees and checks the paths.
LEMMA ReloadKeepsRef ==
    ASSUME RefInv, NEW s \in ReadBack(Snapshot), Reload(s)
    PROVE  RefInv'
<1>1. IInv'
    BY ReloadKeepsIInv DEF RefInv
<1>2. CASE Refuse("InvalidSnapshot")
    BY <1>1, <1>2, RefUnmoved DEF RefInv, Refuse, treeVars, PathsOK, FrozenPathHolds,
                                  RoomLeft, InRange
<1>3. CASE ~SnapshotRefused(s) /\ Load(s) /\ UNCHANGED <<pending, log>>
  <2>1. RowsOK /\ StandsFor(completed, liveLeaves, log) /\ liveLeaves \in Seq(Notes)
      BY DEF RefInv, IInv, TreeInv, Ref, StandsFor, IsTail
  <2>2. s.completed = completed /\ s.live = liveLeaves /\ AreRows(s.owned) /\ PathsFrom(s.owned)
      BY <2>1, ReadBackRows
  <2>3. /\ completed' = completed /\ liveLeaves' = liveLeaves /\ owned' = s.owned
        /\ live' = ImtFromLeaves(ShardHeight, FieldZero, liveLeaves)
        /\ cap' = RebuiltCap(completed, ImtFromLeaves(ShardHeight, FieldZero, liveLeaves),
                             liveLeaves)
      BY <1>3, <2>2 DEF Load
  <2>4. ImtFromLeaves(ShardHeight, FieldZero, liveLeaves)
          = RefTree(ShardHeight, FieldZero, liveLeaves)
      BY <2>1, BuiltIsRef, Heights
  <2>5. Ref'
      BY <1>3, <2>1, <2>3, <2>4, RebuiltCapIsRef DEF Ref
  <2>6. RoomLeft'
      BY <1>3 DEF RefInv, RoomLeft, Capacity
  <2>7. ASSUME NEW n \in DOMAIN s.owned
        PROVE  /\ s.owned[n].leaf_index < Capacity
               /\ s.owned[n].path # NoPath
                    => /\ IsRow(s.owned[n].path, Len(s.owned[n].path))
                       /\ FrozenPathHolds(completed, n, s.owned[n].leaf_index, s.owned[n].path)
    <3>1. ~RowRefused(s, ImtFromLeaves(ShardHeight, FieldZero, s.live), n)
        BY <1>3 DEF SnapshotRefused
    <3>2. /\ ~(s.owned[n].leaf_index >= Capacity)
          /\ s.owned[n].path # NoPath
                => FrozenPathHolds(completed, n, s.owned[n].leaf_index, s.owned[n].path)
        BY <2>2, <3>1 DEF RowRefused
    <3>3. s.owned[n].leaf_index < Capacity
      <4>1. s.owned[n].leaf_index \in Nat
          BY <2>2 DEF AreRows
      <4>2. Ref
          BY DEF RefInv
      <4>3. Capacity \in Nat
          BY <4>2, LogLength
      <4> QED
          BY <3>2, <4>1, <4>3
    <3>4. s.owned[n].path # NoPath => IsRow(s.owned[n].path, Len(s.owned[n].path))
        BY <2>2 DEF PathsFrom, RefInv, PathsOK
    <3> QED
        BY <3>2, <3>3, <3>4
  <2>8. PathsOK(owned, completed)'
      BY <2>3, <2>7 DEF PathsOK, FrozenPathHolds
  <2>9. InRange'
      BY <2>3, <2>7 DEF InRange, Capacity
  <2> QED
      BY <1>1, <2>5, <2>6, <2>8, <2>9 DEF RefInv
<1> QED
    BY <1>2, <1>3 DEF Reload

\* The paths a caller may hand in are sequences.
LEMMA PathsAreRows == \A path \in Paths : IsRow(path, Len(path))
<1> SUFFICES ASSUME NEW path \in Paths PROVE IsRow(path, Len(path))
    OBVIOUS
<1>1. CASE path = NoPath
    BY <1>1 DEF NoPath, IsRow
<1>2. ASSUME NEW leaves, NEW index,
             path = ImtSiblings(ImtFromLeaves(ShardHeight, FieldZero, leaves), index)
      PROVE  IsRow(path, Len(path))
  <2>1. ImtFromLeaves(ShardHeight, FieldZero, leaves).depth = ShardHeight
      BY DEF ImtFromLeaves, ImtNew
  <2> QED
      BY <1>2, <2>1, SiblingsAreRow, Heights
<1> QED
    BY <1>1, <1>2 DEF Paths

\* Every call keeps the trees and the frozen paths exact.
LEMMA StepKeepsRefInv == RefInv /\ [Next]_vars => RefInv'
<1> SUFFICES ASSUME RefInv, [Next]_vars PROVE RefInv'
    OBVIOUS
<1>1. CASE \E note \in Notes : AppendNote(note)
    BY <1>1, AppendNoteKeepsRef
<1>2. CASE \E notes \in Batches : AppendMany(notes)
    BY <1>2, AppendManyKeepsRef
<1>3. CASE AppendSegment
    BY <1>3, AppendSegmentKeepsRef
<1>4. CASE \E note \in Mine, index \in 0..Capacity : MarkOwned(note, index)
    BY <1>4, MarkOwnedKeepsRef
<1>5. CASE \E note \in Mine : UnmarkOwned(note)
    BY <1>5, UnmarkOwnedKeepsRef
<1>6. CASE \E note \in Mine, index \in Indices, path \in Paths :
              AdoptFrozenWitness(note, index, path)
    BY <1>6, AdoptKeepsRef, PathsAreRows
<1>7. CASE \E count \in 0..Capacity : RewindLiveTo(count)
    BY <1>7, RewindKeepsRef
<1>8. CASE DrainDirty
  <2>1. IInv'
      BY <1>8, DrainKeepsIInv DEF RefInv
  <2> QED
      BY <1>8, <2>1, RefUnmoved DEF RefInv, DrainDirty, PathsOK, FrozenPathHolds,
                                    RoomLeft, InRange
<1>9. CASE \E s \in ReadBack(Snapshot) : Reload(s)
    BY <1>9, ReloadKeepsRef
<1>10. CASE UNCHANGED vars
  <2>1. IInv'
      BY <1>10, Unmoved DEF RefInv, vars, treeVars
  <2> QED
      BY <1>10, <2>1, RefUnmoved DEF RefInv, vars, treeVars, PathsOK, FrozenPathHolds,
                                     RoomLeft, InRange
<1> QED
    BY <1>1, <1>2, <1>3, <1>4, <1>5, <1>6, <1>7, <1>8, <1>9, <1>10 DEF Next

\* Every state of the tree is exact.
THEOREM Exactness == Spec => []RefInv
    BY InitRefInv, StepKeepsRefInv, PTL DEF Spec
-----------------------------------------------------------------------------
(* What the tree shows and what its snapshots carry. *)

\* A path inside a shard and the cap's path above it are the path in the flat
\* tree over the log.
LEMMA WitnessIsGlued ==
    ASSUME Ref, NEW index \in Nat, NEW low, IsRow(low, ShardHeight),
           AreSiblings(low, log, FieldZero, index, ShardHeight)
    PROVE  low \o ImtSiblings(cap, Shard(index))
             = ImtSiblings(ImtFromLeaves(Depth, FieldZero, log), index)
<1>1. /\ StandsFor(completed, liveLeaves, log)
      /\ cap = RefTree(CapDepth, CapZero, CapRow(completed, liveLeaves))
      /\ log \in Seq(Notes)
    BY DEF Ref, StandsFor, IsTail
<1>2. PICK row : row = CapRow(completed, liveLeaves)
    OBVIOUS
<1>3. PICK T : row \in Seq(T)
    BY <1>1, <1>2, ReadCapRow
<1>4. \A j \in Nat : GetOr(row, j, CapZero) = RefNode(log, FieldZero, ShardHeight, j)
    BY <1>1, <1>2, ReadCapRow
<1>5. /\ ShardHeight \in Nat /\ CapDepth \in Nat /\ Depth \in Nat
      /\ ShardHeight + CapDepth = Depth
    BY GeometryAssumption DEF CapDepth
<1>6. PICK q : q = Shard(index) /\ q = Above(index, ShardHeight) /\ q \in Nat
    BY ShardAbove, Split
<1>7. PICK flat : flat = ImtFromLeaves(Depth, FieldZero, log)
                  /\ flat = RefTree(Depth, FieldZero, log)
    BY <1>1, <1>5, BuiltIsRef
<1>8. PICK high : high = ImtSiblings(cap, q)
    OBVIOUS
<1>9. PICK whole : whole = ImtSiblings(flat, index)
    OBVIOUS
<1>10. IsRow(high, CapDepth) /\ AreSiblings(high, row, CapZero, q, CapDepth)
  <2>1. cap = RefTree(CapDepth, CapZero, row) /\ cap.depth = CapDepth
      BY <1>1, <1>2 DEF RefTree
  <2>2. IsRow(high, CapDepth)
      BY <1>5, <1>8, <2>1, SiblingsAreRow
  <2>3. AreSiblings(ImtSiblings(RefTree(CapDepth, CapZero, row), q), row, CapZero, q, CapDepth)
      BY <1>3, <1>5, <1>6, SiblingsAreRef
  <2> QED
      BY <1>8, <2>1, <2>2, <2>3
<1>11. IsRow(whole, Depth) /\ AreSiblings(whole, log, FieldZero, index, Depth)
  <2>1. flat.depth = Depth
      BY <1>7 DEF RefTree
  <2>2. IsRow(whole, Depth)
      BY <1>5, <1>9, <2>1, SiblingsAreRow
  <2>3. AreSiblings(ImtSiblings(RefTree(Depth, FieldZero, log), index),
                    log, FieldZero, index, Depth)
      BY <1>1, <1>5, SiblingsAreRef
  <2> QED
      BY <1>7, <1>9, <2>2, <2>3
<1>12. low \o high = whole
    BY <1>4, <1>5, <1>6, <1>10, <1>11, GluedPath
<1> QED
    BY <1>6, <1>7, <1>8, <1>9, <1>12

\* A leaf of the live shard: its path there is the lower part of its path.
LEMMA PathInLive ==
    ASSUME Ref, NEW index \in Nat, Shard(index) = Len(completed)
    PROVE  LET low == ImtSiblings(live, Within(index))
           IN  /\ IsRow(low, ShardHeight) /\ low # NoPath
               /\ AreSiblings(low, log, FieldZero, index, ShardHeight)
<1>1. /\ IsTail(liveLeaves, log, Len(completed)) /\ liveLeaves \in Seq(Notes)
      /\ live = RefTree(ShardHeight, FieldZero, liveLeaves)
      /\ Len(completed) \in Nat /\ ShardHeight \in Nat
    BY Heights DEF Ref, StandsFor, IsTail, IsSequence
<1>2. PICK c \in Nat : c = Len(completed)
    BY <1>1
<1>3. PICK w : w = Within(index)
    OBVIOUS
<1>4. w \in Nat /\ w < ShardSize /\ index = c * ShardSize + w
  <2>1. w \in 0..(ShardSize - 1) /\ index = ShardSize * c + w
      BY <1>2, <1>3, Split
  <2>2. ShardSize \in Nat
      BY ShardSizePositive
  <2>3. ShardSize * c = c * ShardSize
      BY <1>2, <2>2
  <2> QED
      BY <2>1, <2>2, <2>3
<1>5. PICK low : low = ImtSiblings(live, w)
    OBVIOUS
<1>6. IsRow(low, ShardHeight) /\ Len(low) = ShardHeight
  <2>1. live.depth = ShardHeight
      BY <1>1 DEF RefTree
  <2> QED
      BY <1>1, <1>5, <2>1, SiblingsAreRow
<1>7. AreSiblings(low, liveLeaves, FieldZero, w, ShardHeight)
  <2>1. AreSiblings(ImtSiblings(RefTree(ShardHeight, FieldZero, liveLeaves), w),
                    liveLeaves, FieldZero, w, ShardHeight)
      BY <1>1, <1>4, SiblingsAreRef
  <2> QED
      BY <1>1, <1>5, <2>1
<1>8. \A j \in Nat : j < 2 ^ ShardHeight =>
         GetOr(liveLeaves, j, FieldZero) = GetOr(log, c * 2 ^ ShardHeight + j, FieldZero)
    BY <1>1, <1>2, ReadTail, SizeOfShard
<1>9. w < 2 ^ ShardHeight /\ index = c * 2 ^ ShardHeight + w
    BY <1>4, SizeOfShard
<1>10. AreSiblings(low, log, FieldZero, c * 2 ^ ShardHeight + w, ShardHeight)
    BY <1>1, <1>2, <1>4, <1>7, <1>8, <1>9, ShardSiblings
<1>11. low # NoPath
    BY <1>6, Heights DEF NoPath
<1> QED
    BY <1>3, <1>5, <1>6, <1>9, <1>10, <1>11

\* Where the leaf of an owned note is.
LEMMA OwnedLeaf ==
    ASSUME RefInv, NEW n \in DOMAIN owned
    PROVE  LET index == owned[n].leaf_index
           IN  /\ index \in Nat
               /\ index < Len(log) => Shard(index) <= Len(completed)
               /\ Shard(index) < Len(completed) => index < Len(log)
               /\ Shard(index) = Len(completed)
                    => (index < Len(log) <=> LeafIs(live, Within(index), n))
<1>1. PICK index \in Nat : index = owned[n].leaf_index
    BY DEF RefInv, IInv, TreeInv, RowsOK
<1>2. LeavesOK /\ TreesOK /\ InPlace /\ Ref
    BY DEF RefInv, IInv, TreeInv
<1>3. PICK c \in Nat, l \in 0..(ShardSize - 1) : c = Len(completed) /\ l = Len(liveLeaves)
    BY <1>2, Counts
<1>4. Len(log) = c * ShardSize + l
    BY <1>2, <1>3, LogLength DEF LeafCount
<1>5. l \in 0..ShardSize
    BY <1>3, ShardSizePositive
<1>6. index < Len(log) <=> Shard(index) < c \/ (Shard(index) = c /\ Within(index) < l)
    BY <1>3, <1>4, <1>5, Before
<1>7. Shard(index) = c => (LeafIs(live, Within(index), n) <=> Within(index) < l)
  <2>1. ImtLeaves(live) = liveLeaves
      BY <1>2 DEF TreesOK
  <2> QED
      BY <1>1, <1>2, <1>3, <2>1 DEF LeafIs, ImtLeafCount, At, InPlace
<1>8. Shard(index) \in Nat
    BY Split
<1> QED
    BY <1>1, <1>3, <1>6, <1>7, <1>8

\* A tracked note has the witness the flat tree gives it.
LEMMA WitnessIsExact ==
    ASSUME RefInv, NEW n \in DOMAIN owned
    PROVE  Witness(n) = IF owned[n].leaf_index < Len(log)
                        THEN ImtSiblings(ImtFromLeaves(Depth, FieldZero, log), owned[n].leaf_index)
                        ELSE NoPath
<1>1. /\ Ref /\ PathsOK(owned, completed) /\ FrozenIffCompleted
      /\ StandsFor(completed, liveLeaves, log) /\ Len(completed) \in Nat
    BY DEF RefInv, IInv, TreeInv, Ref, StandsFor, IsSequence
<1>2. PICK index \in Nat : index = owned[n].leaf_index
    BY OwnedLeaf
<1>3. /\ index < Len(log) => Shard(index) <= Len(completed)
      /\ Shard(index) < Len(completed) => index < Len(log)
      /\ Shard(index) = Len(completed)
           => (index < Len(log) <=> LeafIs(live, Within(index), n))
      /\ Shard(index) \in Nat
    BY <1>2, OwnedLeaf, Split
<1>4. PICK path : path = owned[n].path
    OBVIOUS
<1>5. path # NoPath <=> Shard(index) < Len(completed)
    BY <1>1, <1>2, <1>4 DEF FrozenIffCompleted
<1>6. CASE path # NoPath
  <2>1. /\ IsRow(path, Len(path)) /\ FrozenPathHolds(completed, n, index, path)
      BY <1>1, <1>2, <1>4, <1>6 DEF PathsOK
  <2>2. IsRow(path, ShardHeight)
      BY <2>1 DEF FrozenPathHolds
  <2>3. AreSiblings(path, log, FieldZero, index, ShardHeight)
      BY <1>1, <1>5, <1>6, <2>1, FrozenMeans
  <2>4. path \o ImtSiblings(cap, Shard(index))
          = ImtSiblings(ImtFromLeaves(Depth, FieldZero, log), index)
      BY <1>1, <2>2, <2>3, WitnessIsGlued
  <2> QED
      BY <1>2, <1>3, <1>4, <1>5, <1>6, <2>4 DEF Witness
<1>7. CASE path = NoPath /\ index < Len(log)
  <2>1. Shard(index) = Len(completed) /\ LeafIs(live, Within(index), n)
      BY <1>1, <1>3, <1>5, <1>7
  <2>2. PICK low : low = ImtSiblings(live, Within(index))
      OBVIOUS
  <2>3. IsRow(low, ShardHeight) /\ low # NoPath
        /\ AreSiblings(low, log, FieldZero, index, ShardHeight)
      BY <1>1, <2>1, <2>2, PathInLive
  <2>4. low \o ImtSiblings(cap, Shard(index))
          = ImtSiblings(ImtFromLeaves(Depth, FieldZero, log), index)
      BY <1>1, <2>3, WitnessIsGlued
  <2> QED
      BY <1>2, <1>4, <1>7, <2>1, <2>2, <2>3, <2>4 DEF Witness
<1>8. CASE path = NoPath /\ ~(index < Len(log))
  <2>1. Shard(index) # Len(completed) \/ ~LeafIs(live, Within(index), n)
      BY <1>3, <1>8
  <2> QED
      BY <1>2, <1>4, <1>8, <2>1 DEF Witness
<1> QED
    BY <1>6, <1>7, <1>8

\* What the tree shows is what the flat tree over the log shows.
LEMMA RefInvProves == RefInv => ProvesAgainstFlatTree
<1> SUFFICES ASSUME RefInv PROVE ProvesAgainstFlatTree
    OBVIOUS
<1>1. Ref /\ TreesOK /\ StandsFor(completed, liveLeaves, log) /\ IsSequence(completed)
    BY DEF RefInv, IInv, TreeInv, Ref, StandsFor
<1>2. Root = RefRoot(Depth, FieldZero, log)
    BY <1>1, RootOfCap DEF Ref, Root
<1>3. LeafCount = Len(log)
    BY <1>1, LogLength
<1>4. DOMAIN completed = 1..Len(completed)
    BY <1>1 DEF IsSequence
<1>5. RootMatchesFlatTree
    BY <1>1, <1>2, <1>3, <1>4 DEF RootMatchesFlatTree, TreesOK, StandsFor, AreRoots
<1>6. WitnessesMatchFlatTree
    BY WitnessIsExact DEF WitnessesMatchFlatTree
<1> QED
    BY <1>5, <1>6 DEF ProvesAgainstFlatTree

\* The root is that of the flat tree over every leaf ever appended and not
\* rewound, and `witness` gives each tracked note the siblings of that tree,
\* glued from a path frozen long ago and today's cap or read from the live
\* shard, for every geometry and after any rewinds and reloads.
THEOREM ProvesAgainstFlatTreeHolds == Spec => []ProvesAgainstFlatTree
    BY Exactness, RefInvProves, PTL

\* The two indexes of owned notes and the frozen paths agree with each other
\* and with the shards, whatever calls led here.
THEOREM BookkeepingAgreesHolds == Spec => []BookkeepingAgrees
<1>1. RefInv => BookkeepingAgrees
    BY DEF RefInv, IInv, TreeInv, BookkeepingAgrees
<1> QED
    BY Exactness, <1>1, PTL

\* The shards and the leaves of a tree with room fit the cap.
LEMMA ShardsFit ==
    ASSUME NEW c \in Nat, NEW l \in 0..(ShardSize - 1), c * ShardSize + l <= Capacity
    PROVE  /\ c <= TreeCapacity(CapDepth)
           /\ c = TreeCapacity(CapDepth) => l = 0
<1>1. PICK s \in Nat \ {0} : s = ShardSize
    BY ShardSizePositive
<1>2. PICK k \in Nat : k = TreeCapacity(CapDepth) /\ k = 2 ^ CapDepth
    BY Heights, PowerPositive DEF TreeCapacity
<1>3. Capacity = s * k
  <2>1. ShardHeight + CapDepth = Depth
      BY GeometryAssumption DEF CapDepth
  <2>2. 2 ^ (ShardHeight + CapDepth) = 2 ^ ShardHeight * 2 ^ CapDepth
      BY PowerSum, Heights
  <2> QED
      BY <1>1, <1>2, <2>1, <2>2, SizeOfShard
<1>4. c * s + l <= s * k /\ l \in Nat
    BY <1>1, <1>3
<1>5. ~(k < c)
  <2> SUFFICES ASSUME k < c PROVE FALSE
      OBVIOUS
  <2>1. s * k + s <= c * s
      OBVIOUS
  <2> QED
      BY <1>4, <2>1
<1>6. c = k => l = 0
    BY <1>4
<1> QED
    BY <1>2, <1>5, <1>6

\* Public state and owned rows that belong to one log: what `snapshot` hands
\* out, and what a storage adapter keeps.
Stored(roots, leaves, all, rows) ==
    /\ StandsFor(roots, leaves, all) /\ Len(all) <= Capacity
    /\ PathsOK(rows, roots)
    /\ \A n \in DOMAIN rows :
          /\ rows[n].leaf_index \in Nat /\ rows[n].leaf_index < Capacity
          /\ rows[n] = [leaf_index |-> rows[n].leaf_index, path |-> rows[n].path]
          /\ rows[n].path # NoPath <=> Shard(rows[n].leaf_index) < Len(roots)
          /\ Shard(rows[n].leaf_index) = Len(roots) /\ Within(rows[n].leaf_index) < Len(leaves)
               => leaves[Within(rows[n].leaf_index) + 1] = n
          /\ \A m \in DOMAIN rows : rows[m].leaf_index = rows[n].leaf_index => m = n

\* A row without a path, marked before the end of the live shard, is in it.
LEMMA StoredLeaf ==
    ASSUME NEW roots, NEW leaves, NEW all, NEW rows, Stored(roots, leaves, all, rows),
           NEW n \in DOMAIN rows, ~(Shard(rows[n].leaf_index) < Len(roots)),
           rows[n].leaf_index < Len(roots) * ShardSize + Len(leaves),
           NEW tree, ImtLeaves(tree) = leaves
    PROVE  LeafIs(tree, Within(rows[n].leaf_index), n)
<1>1. PICK index \in Nat : index = rows[n].leaf_index
    BY DEF Stored
<1>2. PICK c \in Nat, l \in 0..ShardSize : c = Len(roots) /\ l = Len(leaves)
  <2>1. Len(roots) \in Nat /\ Len(leaves) \in Nat /\ Len(leaves) < ShardSize
      BY LenProperties DEF Stored, StandsFor, IsTail, IsSequence
  <2> QED
      BY <2>1, ShardSizePositive
<1>3. Shard(index) = c /\ Within(index) < l
    BY <1>1, <1>2, Before
<1> QED
    BY <1>1, <1>2, <1>3 DEF Stored, LeafIs, ImtLeafCount, At

\* `from_snapshot` accepts it.
LEMMA StoredIsAccepted ==
    ASSUME NEW roots, NEW leaves, NEW all, NEW rows, Stored(roots, leaves, all, rows)
    PROVE  ~SnapshotRefused([completed |-> roots, live |-> leaves, owned |-> rows])
<1> DEFINE s == [completed |-> roots, live |-> leaves, owned |-> rows]
<1>1. /\ StandsFor(roots, leaves, all) /\ leaves \in Seq(Notes) /\ all \in Seq(Notes)
      /\ Len(all) = Len(roots) * ShardSize + Len(leaves)
      /\ PathsOK(rows, roots)
    BY DEF Stored, StandsFor, IsTail
<1>2. PICK c \in Nat, l \in 0..(ShardSize - 1) : c = Len(roots) /\ l = Len(leaves)
  <2>1. Len(roots) \in Nat /\ Len(leaves) \in Nat /\ Len(leaves) < ShardSize
      BY <1>1, LenProperties DEF StandsFor, IsSequence
  <2> QED
      BY <2>1, ShardSizePositive
<1>3. c <= TreeCapacity(CapDepth) /\ (c = TreeCapacity(CapDepth) => l = 0)
  <2>1. c * ShardSize + l <= Capacity
      BY <1>1, <1>2 DEF Stored
  <2> QED
      BY <1>2, <2>1, ShardsFit
<1>4. /\ ~(c > TreeCapacity(CapDepth)) /\ ~(l >= ShardSize)
      /\ ~(c = TreeCapacity(CapDepth) /\ leaves # <<>>)
  <2>1. TreeCapacity(CapDepth) \in Nat
      BY Heights, PowerPositive DEF TreeCapacity
  <2>2. l = 0 => leaves = <<>>
      BY <1>1, <1>2, EmptySeq
  <2> QED
      BY <1>2, <1>3, <2>1, <2>2, ShardSizePositive
<1>5. ASSUME NEW n \in DOMAIN rows
      PROVE  ~RowRefused(s, ImtFromLeaves(ShardHeight, FieldZero, leaves), n)
  <2>1. PICK tree : tree = ImtFromLeaves(ShardHeight, FieldZero, leaves)
      OBVIOUS
  <2>2. ImtLeaves(tree) = leaves
      BY <1>2, <2>1, BuiltTree, Heights
  <2>3. PICK index \in Nat : index = rows[n].leaf_index
      BY DEF Stored
  <2>4. /\ ~(index >= Capacity)
        /\ \A other \in DOMAIN rows \ {n} : rows[other].leaf_index # index
    <3>1. Capacity \in Nat
        BY SizeOfShard, PowerPositive, GeometryAssumption
    <3>2. index < Capacity
        BY <2>3 DEF Stored
    <3>3. \A other \in DOMAIN rows \ {n} : rows[other].leaf_index # index
        BY <2>3 DEF Stored
    <3> QED
        BY <3>1, <3>2, <3>3
  <2>5. CASE Shard(index) < Len(roots)
    <3>1. FrozenPathHolds(roots, n, index, rows[n].path)
        BY <1>1, <2>3, <2>5 DEF Stored, PathsOK
    <3> QED
        BY <2>1, <2>3, <2>4, <2>5, <3>1 DEF RowRefused
  <2>6. CASE ~(Shard(index) < Len(roots))
    <3>1. rows[n].path = NoPath
        BY <2>3, <2>6 DEF Stored
    <3>2. index < Len(roots) * ShardSize + Len(leaves) => LeafIs(tree, Within(index), n)
        BY <2>2, <2>3, <2>6, StoredLeaf
    <3> QED
        BY <2>1, <2>3, <2>4, <2>6, <3>1, <3>2 DEF RowRefused
  <2> QED
      BY <2>5, <2>6
<1> QED
    BY <1>2, <1>4, <1>5 DEF SnapshotRefused

\* The tree's own public state and rows belong to its log.
LEMMA OwnIsStored == RefInv => Stored(completed, liveLeaves, log, owned)
<1> SUFFICES ASSUME RefInv PROVE Stored(completed, liveLeaves, log, owned)
    OBVIOUS
<1>1. /\ RowsOK /\ IndexesMirror /\ FrozenIffCompleted /\ InPlace /\ InRange
      /\ PathsOK(owned, completed) /\ StandsFor(completed, liveLeaves, log)
    BY DEF RefInv, IInv, TreeInv, Ref
<1>2. Len(log) <= Capacity
  <2>1. Len(log) \in Nat /\ Capacity \in Nat
      BY LogLength DEF RefInv
  <2>2. Len(pending) \in Nat /\ Len(log) + Len(pending) <= Capacity
      BY LenProperties DEF RefInv, IInv, PendingFree, RoomLeft
  <2> QED
      BY <2>1, <2>2
<1>3. \A m, n \in DOMAIN owned : owned[m].leaf_index = owned[n].leaf_index => m = n
    BY <1>1 DEF IndexesMirror
<1>4. ASSUME NEW n \in DOMAIN owned
      PROVE  /\ owned[n].leaf_index \in Nat /\ owned[n].leaf_index < Capacity
             /\ owned[n] = [leaf_index |-> owned[n].leaf_index, path |-> owned[n].path]
             /\ owned[n].path # NoPath <=> Shard(owned[n].leaf_index) < Len(completed)
             /\ (/\ Shard(owned[n].leaf_index) = Len(completed)
                 /\ Within(owned[n].leaf_index) < Len(liveLeaves))
                  => liveLeaves[Within(owned[n].leaf_index) + 1] = n
  <2>1. owned[n].path # NoPath <=> Shard(owned[n].leaf_index) < Len(completed)
      BY <1>1 DEF FrozenIffCompleted
  <2>2. /\ owned[n].leaf_index \in Nat /\ owned[n].leaf_index < Capacity
        /\ owned[n] = [leaf_index |-> owned[n].leaf_index, path |-> owned[n].path]
      BY <1>1 DEF RowsOK, InRange
  <2> QED
      BY <1>1, <2>1, <2>2 DEF InPlace
<1> QED
    BY <1>1, <1>2, <1>3, <1>4 DEF Stored

\* The reverse index is a map.
OwnersAreMap == ownedLeaves = [i \in DOMAIN ownedLeaves |-> ownedLeaves[i]]

\* A map with a pair more or with keys less is a map.
LEMMA MapsStayMaps ==
    ASSUME NEW map
    PROVE  /\ \A key, value :
                LET put == Put(map, key, value) IN put = [k \in DOMAIN put |-> put[k]]
           /\ \A keys : LET rest == Drop(map, keys) IN rest = [k \in DOMAIN rest |-> rest[k]]
    BY DEF Put, Drop

\* No call makes it anything else.
LEMMA OwnersStayMap == OwnersAreMap /\ [Next]_vars => OwnersAreMap'
<1> SUFFICES ASSUME OwnersAreMap, [Next]_vars PROVE OwnersAreMap'
    OBVIOUS
<1>1. \/ ownedLeaves' = ownedLeaves
      \/ \E key, value : ownedLeaves' = Put(ownedLeaves, key, value)
      \/ \E keys : ownedLeaves' = Drop(ownedLeaves, keys)
      \/ \E s : Load(s)
  <2>1. ASSUME NEW e, Refuse(e) PROVE ownedLeaves' = ownedLeaves
      BY <2>1 DEF Refuse, treeVars
  <2>2. ASSUME NEW notes, Unmark(notes)
        PROVE  \E keys : ownedLeaves' = Drop(ownedLeaves, keys)
      BY <2>2 DEF Unmark
  <2>3. ASSUME NEW shard, NEW leaves, NEW added, Absorb(shard, leaves, added)
        PROVE  ownedLeaves' = ownedLeaves
      BY <2>3 DEF Absorb
  <2>4. CASE \E note \in Notes : AppendNote(note)
      BY <2>1, <2>3, <2>4 DEF AppendNote
  <2>5. CASE \E notes \in Batches : AppendMany(notes)
      BY <2>1, <2>5 DEF AppendMany, treeVars
  <2>6. CASE AppendSegment
      BY <2>3, <2>6 DEF AppendSegment
  <2>7. CASE \E note \in Mine, index \in 0..Capacity : MarkOwned(note, index)
      BY <2>1, <2>7 DEF MarkOwned
  <2>8. CASE \E note \in Mine : UnmarkOwned(note)
      BY <2>2, <2>8 DEF UnmarkOwned
  <2>9. CASE \E note \in Mine, index \in Indices, path \in Paths :
                AdoptFrozenWitness(note, index, path)
      BY <2>1, <2>9 DEF AdoptFrozenWitness
  <2>10. CASE \E count \in 0..Capacity : RewindLiveTo(count)
      BY <2>1, <2>2, <2>10 DEF RewindLiveTo
  <2>11. CASE DrainDirty
      BY <2>11 DEF DrainDirty
  <2>12. CASE \E s \in ReadBack(Snapshot) : Reload(s)
      BY <2>1, <2>12 DEF Reload
  <2>13. CASE UNCHANGED vars
      BY <2>13 DEF vars, treeVars
  <2> QED
      BY <2>4, <2>5, <2>6, <2>7, <2>8, <2>9, <2>10, <2>11, <2>12, <2>13 DEF Next
<1>2. ASSUME NEW s, Load(s) PROVE OwnersAreMap'
    BY <1>2 DEF Load, OwnersAreMap
<1> QED
    BY <1>1, <1>2, MapsStayMaps DEF OwnersAreMap

\* The trees and the reverse index that a tree's own snapshot is loaded into are
\* the ones it has.
LEMMA OwnLoadIsIdentity ==
    ASSUME RefInv, OwnersAreMap, Load(Snapshot)
    PROVE  UNCHANGED <<completed, live, liveLeaves, cap, owned, ownedLeaves>>
<1>1. PICK s : /\ s.completed = completed /\ s.live = liveLeaves /\ s.owned = owned
               /\ Load(s)
  <2>1. /\ Snapshot.completed = completed /\ Snapshot.live = liveLeaves
        /\ Snapshot.owned = owned
      BY DEF Snapshot
  <2> QED
      BY <2>1
<1>2. /\ completed' = completed /\ liveLeaves' = liveLeaves /\ owned' = owned
      /\ live' = ImtFromLeaves(ShardHeight, FieldZero, liveLeaves)
      /\ cap' = RebuiltCap(completed, ImtFromLeaves(ShardHeight, FieldZero, liveLeaves),
                           liveLeaves)
      /\ ownedLeaves' = [i \in {owned[n].leaf_index : n \in DOMAIN owned} |->
                            CHOOSE n \in DOMAIN owned : owned[n].leaf_index = i]
    BY <1>1 DEF Load
<1>3. StandsFor(completed, liveLeaves, log) /\ liveLeaves \in Seq(Notes)
    BY DEF RefInv, Ref, StandsFor, IsTail
<1>4. ImtFromLeaves(ShardHeight, FieldZero, liveLeaves)
        = RefTree(ShardHeight, FieldZero, liveLeaves)
    BY <1>3, BuiltIsRef, Heights
<1>5. live' = live /\ cap' = cap
    BY <1>2, <1>3, <1>4, RebuiltCapIsRef DEF RefInv, Ref
<1>6. IndexesMirror /\ ownedLeaves = [i \in DOMAIN ownedLeaves |-> ownedLeaves[i]]
    BY DEF RefInv, IInv, TreeInv, OwnersAreMap
<1>7. DOMAIN ownedLeaves = {owned[n].leaf_index : n \in DOMAIN owned}
    BY <1>6 DEF IndexesMirror
<1>8. \A i \in DOMAIN ownedLeaves :
          ownedLeaves[i] = CHOOSE n \in DOMAIN owned : owned[n].leaf_index = i
  <2> SUFFICES ASSUME NEW i \in DOMAIN ownedLeaves
               PROVE  ownedLeaves[i] = CHOOSE n \in DOMAIN owned : owned[n].leaf_index = i
      OBVIOUS
  <2>1. /\ ownedLeaves[i] \in DOMAIN owned /\ owned[ownedLeaves[i]].leaf_index = i
        /\ \A n \in DOMAIN owned : owned[n].leaf_index = i => n = ownedLeaves[i]
      BY <1>6 DEF IndexesMirror
  <2> QED
      BY <2>1
<1>9. ownedLeaves' = ownedLeaves
    BY <1>2, <1>6, <1>7, <1>8
<1> QED
    BY <1>2, <1>5, <1>9

\* The tree accepts its own snapshot, whatever calls led to it, and what
\* `from_snapshot` makes of it is the tree itself.
THEOREM OwnSnapshotAcceptedHolds ==
    Spec => []OwnSnapshotAccepted /\ [][RestoresOwnSnapshot]_vars
<1>1. RefInv => OwnSnapshotAccepted
    BY OwnIsStored, StoredIsAccepted DEF OwnSnapshotAccepted, Snapshot
<1>2. RefInv /\ OwnersAreMap => RestoresOwnSnapshot
  <2> SUFFICES ASSUME RefInv, OwnersAreMap, Reload(Snapshot)
               PROVE  /\ result' = "ok" /\ dirty' = {}
                      /\ UNCHANGED <<completed, live, liveLeaves, cap, owned, ownedLeaves, log>>
      BY DEF RestoresOwnSnapshot
  <2>1. ~SnapshotRefused(Snapshot)
      BY <1>1 DEF OwnSnapshotAccepted
  <2>2. Load(Snapshot) /\ result' = "ok" /\ log' = log
      BY <2>1 DEF Reload
  <2>3. dirty' = {}
      BY <2>2 DEF Load
  <2> QED
      BY <2>2, <2>3, OwnLoadIsIdentity
<1>3. Init => OwnersAreMap
    BY DEF Init, OwnersAreMap
<1>4. Spec => []OwnersAreMap
    BY <1>3, OwnersStayMap, PTL DEF Spec
<1> QED
    BY Exactness, <1>1, <1>2, <1>4, PTL

\* A sequence that starts with another one extends it.
LEMMA Prefixed ==
    ASSUME NEW s, NEW t, Len(s) \in Nat, Len(t) \in Nat, Len(s) <= Len(t),
           \A k \in 1..Len(s) : s[k] = t[k]
    PROVE  Log!IsPrefix(s, t)
<1>1. SubSeq(s, 1, Len(s)) = [k \in 1..Len(s) |-> s[k]]
    BY FirstPart
<1>2. SubSeq(t, 1, Len(s)) = [k \in 1..Len(s) |-> t[k]]
    BY FirstPart
<1>3. [k \in 1..Len(s) |-> s[k]] = [k \in 1..Len(s) |-> t[k]]
    OBVIOUS
<1> QED
    BY <1>1, <1>2, <1>3 DEF Log!IsPrefix

\* Absorbing leaves extends the log, a rewind cuts it.
LEMMA LogMoves ==
    ASSUME NEW all \in Seq(Notes)
    PROVE  /\ \A added \in Seq(Notes) : Log!IsPrefix(all, all \o added)
           /\ \A count \in 0..Len(all) : Log!IsPrefix(SubSeq(all, 1, count), all)
<1>1. Len(all) \in Nat
    BY LenProperties
<1>2. ASSUME NEW added \in Seq(Notes) PROVE Log!IsPrefix(all, all \o added)
  <2>1. PICK new : new = all \o added
      OBVIOUS
  <2>2. /\ Len(new) = Len(all) + Len(added) /\ Len(added) \in Nat
        /\ \A k \in 1..Len(all) : new[k] = all[k]
      BY <1>1, <2>1, ConcatProperties, LenProperties
  <2>3. Len(new) \in Nat /\ Len(all) <= Len(new) /\ \A k \in 1..Len(all) : all[k] = new[k]
      BY <1>1, <2>2
  <2> QED
      BY <1>1, <2>1, <2>3, Prefixed
<1>3. ASSUME NEW count \in 0..Len(all) PROVE Log!IsPrefix(SubSeq(all, 1, count), all)
  <2>1. PICK new : new = SubSeq(all, 1, count)
      OBVIOUS
  <2>2. new = [k \in 1..count |-> all[k]]
      BY <1>1, <1>3, <2>1, FirstPart
  <2>3. Len(new) = count /\ \A k \in 1..Len(new) : new[k] = all[k]
      BY <1>1, <2>2
  <2>4. Len(new) \in Nat /\ Len(new) <= Len(all)
      BY <1>1, <1>3, <2>3
  <2> QED
      BY <1>1, <2>1, <2>3, <2>4, Prefixed
<1> QED
    BY <1>2, <1>3

\* Every call extends the log, cuts it or leaves it.
LEMMA StepMovesLog ==
    ASSUME RefInv, [Next]_vars
    PROVE  Log!IsPrefix(log, log') \/ Log!IsPrefix(log', log)
<1>1. log \in Seq(Notes) /\ Len(log) \in Nat /\ IInv /\ LeafCount = Len(log)
    BY LenProperties, LogLength DEF RefInv, Ref, StandsFor, IsTail
<1>2. CASE \E added \in Seq(Notes) : log' = log \o added
    BY <1>1, <1>2, LogMoves
<1>3. CASE \E count \in 0..Len(log) : log' = SubSeq(log, 1, count)
    BY <1>1, <1>3, LogMoves
<1>4. CASE log' = log
  <2>1. Log!IsPrefix(log, log)
      BY <1>1, Prefixed
  <2> QED
      BY <1>4, <2>1
<1>5. ASSUME NEW note \in Notes, AppendNote(note)
      PROVE  log' = log \/ \E added \in Seq(Notes) : log' = log \o added
  <2>1. <<note>> \in Seq(Notes)
      OBVIOUS
  <2> QED
      BY <1>5, <2>1 DEF AppendNote, Absorb, Refuse
<1>6. ASSUME AppendSegment
      PROVE  \E added \in Seq(Notes) : log' = log \o added
  <2>1. PICK take, segment, shard : IsTurn(take, segment, shard)
      BY <1>1, <1>6, TurnOfLoop
  <2> QED
      BY <2>1 DEF IsTurn, Absorb
<1>7. ASSUME NEW count \in 0..Capacity, RewindLiveTo(count)
      PROVE  log' = log \/ \E k \in 0..Len(log) : log' = SubSeq(log, 1, k)
  <2>1. CASE Refuse("RewindBeforeCompleted") \/ Refuse("LeafIndexOutOfRange")
      BY <2>1 DEF Refuse
  <2>2. CASE count <= LeafCount /\ log' = SubSeq(log, 1, count)
    <3>1. count \in 0..Len(log)
        BY <1>1, <2>2
    <3> QED
        BY <2>2, <3>1
  <2> QED
      BY <1>7, <2>1, <2>2 DEF RewindLiveTo
<1>8. ASSUME \/ \E notes \in Batches : AppendMany(notes)
             \/ \E note \in Mine, index \in 0..Capacity : MarkOwned(note, index)
             \/ \E note \in Mine : UnmarkOwned(note)
             \/ \E note \in Mine, index \in Indices, path \in Paths :
                    AdoptFrozenWitness(note, index, path)
             \/ DrainDirty
             \/ \E s \in ReadBack(Snapshot) : Reload(s)
             \/ UNCHANGED vars
      PROVE  log' = log
    BY <1>8 DEF AppendMany, MarkOwned, UnmarkOwned, AdoptFrozenWitness, DrainDirty, Reload,
                Refuse, vars
<1> QED
    BY <1>2, <1>3, <1>4, <1>5, <1>6, <1>7, <1>8 DEF Next

\* Every reachable tree commits to its log, which fits the tree.
LEMMA RefInvCommits == RefInv => Log!Committed
<1> SUFFICES ASSUME RefInv PROVE Log!Committed
    OBVIOUS
<1>1. Root = RefRoot(Depth, FieldZero, log)
    BY RefInvProves DEF ProvesAgainstFlatTree, RootMatchesFlatTree
<1>2. Len(log) <= Capacity
  <2>1. Len(log) \in Nat /\ Capacity \in Nat
      BY LogLength DEF RefInv
  <2>2. Len(pending) \in Nat /\ Len(log) + Len(pending) <= Capacity
      BY LenProperties DEF RefInv, IInv, PendingFree, RoomLeft
  <2> QED
      BY <2>1, <2>2
<1> QED
    BY <1>1, <1>2 DEF Log!Committed, Log!RefRoot, Log!RefNode, Log!TreeCapacity, Log!GetOr,
                      Log!At, Log!Poseidon, RefRoot, RefNode, Capacity, TreeCapacity,
                      GetOr, At, Poseidon

\* Every call, accepted or refused, is a step of the log or a stutter.
LEMMA StepRefines == RefInv /\ [Next]_vars => [Log!LogNext]_(Log!logVars)
<1> SUFFICES ASSUME RefInv, [Next]_vars PROVE Log!LogNext
    OBVIOUS
<1>1. RefInv'
    BY StepKeepsRefInv
<1>2. Log!Committed'
    BY <1>1, RefInvCommits, PTL
<1>3. Log!Extend \/ Log!Cut
    BY StepMovesLog DEF Log!Extend, Log!Cut
<1> QED
    BY <1>2, <1>3 DEF Log!LogNext

\* `ShardedNotesTree` implements the log of leaves with its protocol root,
\* though it forgets every leaf of a completed shard.
THEOREM Refinement == Spec => ImplementsLog
<1>1. Init => Log!LogInit
  <2> SUFFICES ASSUME Init PROVE Log!LogInit
      OBVIOUS
  <2>1. Log!Committed
      BY InitRefInv, RefInvCommits
  <2> QED
      BY <2>1 DEF Log!LogInit, Init
<1>2. RefInv /\ [Next]_vars => [Log!LogNext]_(Log!logVars)
    BY StepRefines
<1> QED
    BY <1>1, <1>2, Exactness, PTL DEF Spec, ImplementsLog, Log!LogSpec
-----------------------------------------------------------------------------
(* The tree with its storage. *)

\* While rows are being restored, the tree is the stored one with the rows
\* restored so far.
Restoring ==
    /\ completed = tables.completed /\ liveLeaves = tables.live /\ log = tables.log
    /\ gone = {} /\ pending = <<>>
    /\ restoring \subseteq DOMAIN tables.rows
    /\ DOMAIN owned = DOMAIN tables.rows \ restoring
    /\ \A n \in DOMAIN owned : owned[n] = tables.rows[n]

\* The inductive invariant: the tree is exact, so is what is stored, and the
\* dirty set accounts for the difference of the two.
StoreInv ==
    /\ RefInv
    /\ Stored(tables.completed, tables.live, tables.log, tables.rows)
    /\ tables.rows = [n \in DOMAIN tables.rows |-> tables.rows[n]]
    /\ attached => IF Running THEN RowsAfterCommit = owned ELSE Restoring

\* What touches neither rows nor the dirty set.
LEMMA CommitUnmoved ==
    ASSUME RowsAfterCommit = owned, UNCHANGED <<tables, gone, owned, dirty>>
    PROVE  RowsAfterCommit' = owned'
    BY DEF RowsAfterCommit, Drained

\* Rows written or changed become dirty.
LEMMA CommitAfterChange ==
    ASSUME RowsAfterCommit = owned, UNCHANGED <<tables, gone>>, NEW changed,
           DOMAIN owned' = DOMAIN owned \cup changed,
           owned' = [n \in DOMAIN owned' |-> owned'[n]],
           \A n \in DOMAIN owned \ changed : owned'[n] = owned[n],
           dirty' = dirty \cup changed
    PROVE  RowsAfterCommit' = owned'
<1> DEFINE D == DOMAIN tables.rows
           C == dirty \cap DOMAIN owned
           N == dirty' \cap DOMAIN owned'
<1>1. DOMAIN Drained = C /\ \A n \in C : Drained[n] = owned[n]
    BY DEF Drained
<1>2. DOMAIN Drained' = N /\ \A n \in N : Drained'[n] = owned'[n]
    BY DEF Drained
<1>3. /\ DOMAIN owned = (D \ gone) \cup C
      /\ \A n \in DOMAIN owned : n \notin C => owned[n] = tables.rows[n]
    BY <1>1 DEF RowsAfterCommit
<1>4. RowsAfterCommit' = [n \in (D \ gone) \cup N |->
                             IF n \in N THEN Drained'[n] ELSE tables.rows[n]]
    BY <1>2 DEF RowsAfterCommit
<1>5. (D \ gone) \cup N = DOMAIN owned'
    BY <1>3
<1>6. ASSUME NEW n \in DOMAIN owned'
      PROVE  (IF n \in N THEN Drained'[n] ELSE tables.rows[n]) = owned'[n]
    BY <1>2, <1>3
<1> HIDE DEF N, D, C
<1> QED
    BY <1>4, <1>5, <1>6

\* Rows unmarked are reported gone.
LEMMA CommitAfterUnmark ==
    ASSUME RowsAfterCommit = owned, UNCHANGED tables, NEW notes, NEW more,
           notes \cap DOMAIN owned \subseteq more, more \subseteq notes,
           gone' = gone \cup more, owned' = Drop(owned, notes), dirty' = dirty \ notes
    PROVE  RowsAfterCommit' = owned'
<1> DEFINE D == DOMAIN tables.rows
           C == dirty \cap DOMAIN owned
           N == dirty' \cap DOMAIN owned'
<1>1. DOMAIN Drained = C /\ \A n \in C : Drained[n] = owned[n]
    BY DEF Drained
<1>2. DOMAIN Drained' = N /\ \A n \in N : Drained'[n] = owned'[n]
    BY DEF Drained
<1>3. /\ DOMAIN owned = (D \ gone) \cup C
      /\ \A n \in DOMAIN owned : n \notin C => owned[n] = tables.rows[n]
    BY <1>1 DEF RowsAfterCommit
<1>4. RowsAfterCommit' = [n \in (D \ gone') \cup N |->
                             IF n \in N THEN Drained'[n] ELSE tables.rows[n]]
    BY <1>2 DEF RowsAfterCommit
<1>5. /\ DOMAIN owned' = DOMAIN owned \ notes
      /\ owned' = [n \in DOMAIN owned' |-> owned'[n]]
      /\ \A n \in DOMAIN owned' : owned'[n] = owned[n]
    BY DEF Drop
<1>6. (D \ gone') \cup N = DOMAIN owned'
    BY <1>3, <1>5
<1>7. ASSUME NEW n \in DOMAIN owned'
      PROVE  (IF n \in N THEN Drained'[n] ELSE tables.rows[n]) = owned'[n]
    BY <1>2, <1>3, <1>5
<1> HIDE DEF N, D, C
<1> QED
    BY <1>4, <1>5, <1>6, <1>7

\* What an absorbed leaf freezes becomes dirty.
LEMMA CommitAfterAbsorb ==
    ASSUME RowsAfterCommit = owned, UNCHANGED <<tables, gone>>,
           NEW shard, NEW leaves, NEW added, Absorb(shard, leaves, added)
    PROVE  RowsAfterCommit' = owned'
<1>1. CASE UNCHANGED <<owned, dirty>>
    BY <1>1, CommitUnmoved
<1>2. CASE \E notes \in SUBSET Freezing : owned' = Freeze(notes, shard) /\ dirty' = dirty \cup notes
  <2>1. PICK notes \in SUBSET Freezing :
            owned' = Freeze(notes, shard) /\ dirty' = dirty \cup notes
      BY <1>2
  <2>2. notes \subseteq DOMAIN owned
      BY <2>1 DEF Freezing
  <2>3. /\ DOMAIN owned' = DOMAIN owned \cup notes
        /\ owned' = [n \in DOMAIN owned' |-> owned'[n]]
        /\ \A n \in DOMAIN owned \ notes : owned'[n] = owned[n]
      BY <2>1, <2>2 DEF Freeze
  <2> QED
      BY <2>1, <2>3, CommitAfterChange
<1> QED
    BY <1>1, <1>2 DEF Absorb, RollOver, FreezeOwned

\* Calls of the attached tree that report no note gone.
LEMMA TreeCallKeepsStore ==
    ASSUME StoreInv, attached, TreeCall
    PROVE  RefInv' /\ RowsAfterCommit' = owned'
<1>1. /\ RefInv /\ RowsAfterCommit = owned /\ UNCHANGED <<tables, gone>>
    BY DEF StoreInv, TreeCall, storeVars
<1>2. CASE \E note \in Notes : AppendNote(note)
  <2>1. PICK note \in Notes : AppendNote(note)
      BY <1>2
  <2>2. RefInv'
      BY <1>1, <2>1, AppendNoteKeepsRef
  <2>3. CASE UNCHANGED <<owned, dirty>>
      BY <1>1, <2>2, <2>3, CommitUnmoved
  <2>4. CASE Absorb(ImtInsert(live, note), Append(liveLeaves, note), <<note>>)
      BY <1>1, <2>2, <2>4, CommitAfterAbsorb
  <2> QED
      BY <2>1, <2>3, <2>4 DEF AppendNote, Refuse, treeVars
<1>3. CASE \E notes \in Batches : AppendMany(notes)
  <2>1. UNCHANGED <<owned, dirty>>
      BY <1>3 DEF AppendMany, Refuse, treeVars
  <2>2. RefInv'
      BY <1>1, <1>3, AppendManyKeepsRef
  <2> QED
      BY <1>1, <2>1, <2>2, CommitUnmoved
<1>4. CASE AppendSegment
  <2>1. PICK take, segment, shard : IsTurn(take, segment, shard)
      BY <1>1, <1>4, TurnOfLoop DEF RefInv
  <2>2. RefInv'
      BY <1>1, <1>4, AppendSegmentKeepsRef
  <2> QED
      BY <1>1, <2>1, <2>2, CommitAfterAbsorb DEF IsTurn
<1>5. ASSUME NEW note, NEW row,
             \/ UNCHANGED <<owned, dirty>>
             \/ owned' = Put(owned, note, row) /\ dirty' = dirty \cup {note}
      PROVE  RowsAfterCommit' = owned'
  <2>1. CASE UNCHANGED <<owned, dirty>>
      BY <1>1, <2>1, CommitUnmoved
  <2>2. CASE owned' = Put(owned, note, row) /\ dirty' = dirty \cup {note}
    <3>1. /\ DOMAIN owned' = DOMAIN owned \cup {note}
          /\ owned' = [n \in DOMAIN owned' |-> owned'[n]]
          /\ \A n \in DOMAIN owned \ {note} : owned'[n] = owned[n]
        BY <2>2 DEF Put
    <3> QED
        BY <1>1, <2>2, <3>1, CommitAfterChange
  <2> QED
      BY <1>5, <2>1, <2>2
<1>6. CASE \E note \in Mine, index \in Indices : MarkOwned(note, index)
  <2>1. PICK note \in Mine, index \in Indices : MarkOwned(note, index)
      BY <1>6
  <2>2. index \in 0..Capacity
    <3>1. Capacity \in Nat
        BY <1>1, LogLength DEF RefInv
    <3> QED
        BY <3>1 DEF Indices
  <2>3. RefInv'
      BY <1>1, <2>1, <2>2, MarkOwnedKeepsRef
  <2>4. \/ UNCHANGED <<owned, dirty>>
        \/ /\ owned' = Put(owned, note, [leaf_index |-> index, path |-> NoPath])
           /\ dirty' = dirty \cup {note}
      BY <2>1 DEF MarkOwned, Refuse, treeVars
  <2> QED
      BY <1>5, <2>3, <2>4
<1>7. CASE \E note \in Mine, index \in Indices, path \in Paths :
              AdoptFrozenWitness(note, index, path)
  <2>1. PICK note \in Mine, index \in Indices, path \in Paths :
            AdoptFrozenWitness(note, index, path)
      BY <1>7
  <2>2. RefInv'
      BY <1>1, <2>1, AdoptKeepsRef, PathsAreRows
  <2>3. \/ UNCHANGED <<owned, dirty>>
        \/ /\ owned' = Put(owned, note, [leaf_index |-> index, path |-> path])
           /\ dirty' = dirty \cup {note}
      BY <2>1 DEF AdoptFrozenWitness, Refuse, treeVars
  <2> QED
      BY <1>5, <2>2, <2>3
<1> QED
    BY <1>2, <1>3, <1>4, <1>6, <1>7 DEF TreeCall

\* Notes that are unmarked, alone or by a rewind, are reported gone.
LEMMA ForgetKeepsStore ==
    ASSUME StoreInv, attached, NEW note \in Mine, Forget(note)
    PROVE  RefInv' /\ RowsAfterCommit' = owned'
<1>1. /\ RefInv /\ RowsAfterCommit = owned /\ UNCHANGED tables /\ UnmarkOwned(note)
      /\ gone' = gone \cup {note}
    BY DEF StoreInv, Forget
<1>2. RefInv'
    BY <1>1, UnmarkOwnedKeepsRef
<1>3. owned' = Drop(owned, {note}) /\ dirty' = dirty \ {note}
    BY <1>1 DEF UnmarkOwned, Unmark
<1>4. RowsAfterCommit' = owned'
    BY <1>1, <1>3, CommitAfterUnmark
<1> QED
    BY <1>2, <1>4

\* The same for the notes a rewind reports.
LEMMA RewindKeepsStore ==
    ASSUME StoreInv, attached, NEW count \in 0..Capacity, Rewind(count)
    PROVE  RefInv' /\ RowsAfterCommit' = owned'
<1>1. /\ RefInv /\ RowsAfterCommit = owned /\ UNCHANGED tables /\ RewindLiveTo(count)
      /\ gone' = gone \cup (DOMAIN owned \ DOMAIN owned') /\ IndexesMirror
    BY DEF StoreInv, Rewind, RefInv, IInv, TreeInv
<1>2. RefInv'
    BY <1>1, RewindKeepsRef
<1>3. CASE UNCHANGED <<owned, dirty>>
  <2>1. gone' = gone
      BY <1>1, <1>3
  <2> QED
      BY <1>1, <1>2, <1>3, <2>1, CommitUnmoved
<1>4. CASE \E cut : Unmark(cut) /\ cut \subseteq DOMAIN owned
  <2>1. PICK cut : Unmark(cut) /\ cut \subseteq DOMAIN owned
      BY <1>4
  <2>2. owned' = Drop(owned, cut) /\ dirty' = dirty \ cut /\ DOMAIN owned \ DOMAIN owned' = cut
      BY <2>1 DEF Unmark, Drop
  <2>3. gone' = gone \cup cut
      BY <1>1, <2>2
  <2>4. RowsAfterCommit' = owned'
      BY <1>1, <2>2, <2>3, CommitAfterUnmark
  <2> QED
      BY <1>2, <2>4
<1>5. {ownedLeaves[i] : i \in {j \in DOMAIN ownedLeaves : j >= count}} \subseteq DOMAIN owned
    BY <1>1 DEF IndexesMirror
<1> QED
    BY <1>1, <1>3, <1>4, <1>5 DEF RewindLiveTo, Refuse, treeVars

\* A commit stores the tree as it is.
LEMMA CommitKeepsStore ==
    ASSUME StoreInv, attached, Commit
    PROVE  StoreInv'
<1>1. /\ RefInv /\ RowsAfterCommit = owned /\ DrainDirty /\ restoring = {}
      /\ tables' = [completed |-> completed, live |-> liveLeaves,
                    rows |-> RowsAfterCommit, log |-> log]
      /\ gone' = {} /\ restoring' = {}
    BY DEF StoreInv, Commit, Running
<1>2. RefInv'
    BY <1>1, StepKeepsRefInv DEF Next
<1>3. /\ tables'.completed = completed' /\ tables'.live = liveLeaves' /\ tables'.log = log'
      /\ tables'.rows = owned' /\ dirty' = {}
    BY <1>1 DEF DrainDirty
<1>4. Stored(completed, liveLeaves, log, owned)'
    BY <1>2, OwnIsStored, PTL
<1>5. owned = [n \in DOMAIN owned |-> owned[n]] /\ owned' = owned
    BY <1>1 DEF RowsAfterCommit, DrainDirty
<1>6. RowsAfterCommit' = owned'
  <2>1. DOMAIN Drained' = {}
      BY <1>3 DEF Drained
  <2>2. RowsAfterCommit' = [n \in DOMAIN owned' |-> owned'[n]]
      BY <1>1, <1>3, <2>1 DEF RowsAfterCommit
  <2> QED
      BY <1>5, <2>2
<1> QED
    BY <1>1, <1>2, <1>3, <1>4, <1>5, <1>6 DEF StoreInv, Running

\* `from_parts` on stored public state builds the tree over the stored log.
LEMMA LoadIsExact ==
    ASSUME NEW roots, NEW leaves, NEW all, StandsFor(roots, leaves, all), Len(all) <= Capacity,
           Load([completed |-> roots, live |-> leaves, owned |-> <<>>]),
           log' = all, pending' = <<>>
    PROVE  RefInv'
<1>1. /\ leaves \in Seq(Notes) /\ all \in Seq(Notes) /\ IsSequence(roots)
      /\ Len(leaves) < ShardSize
    BY DEF StandsFor, IsTail
<1>2. PICK tree : tree = ImtFromLeaves(ShardHeight, FieldZero, leaves)
                  /\ tree = RefTree(ShardHeight, FieldZero, leaves)
    BY <1>1, BuiltIsRef, Heights
<1>3. /\ completed' = roots /\ liveLeaves' = leaves /\ live' = tree
      /\ cap' = RebuiltCap(roots, tree, leaves)
      /\ DOMAIN owned' = {} /\ DOMAIN ownedLeaves' = {}
  <2>1. PICK s : /\ s.completed = roots /\ s.live = leaves /\ s.owned = <<>>
                 /\ Load(s)
    <3>1. LET s == [completed |-> roots, live |-> leaves, owned |-> <<>>]
          IN  s.completed = roots /\ s.live = leaves /\ s.owned = <<>>
        OBVIOUS
    <3> QED
        BY <3>1
  <2>2. /\ completed' = roots /\ liveLeaves' = leaves /\ live' = tree
        /\ cap' = RebuiltCap(roots, tree, leaves) /\ owned' = s.owned
        /\ DOMAIN ownedLeaves' = {s.owned[n].leaf_index : n \in DOMAIN s.owned}
      BY <1>2, <2>1 DEF Load
  <2>3. DOMAIN s.owned = {}
      BY <2>1
  <2> QED
      BY <2>2, <2>3
<1>4. Ref'
    BY <1>2, <1>3, RebuiltCapIsRef DEF Ref
<1>5. LeavesOK'
    BY <1>1, <1>3 DEF LeavesOK
<1>6. TreesOK'
  <2>1. IsTree(tree, ShardHeight) /\ ImtLeaves(tree) = leaves
      BY <1>1, <1>2, RefIsTree, Heights
  <2>2. /\ IsTree(RebuiltCap(roots, tree, leaves), CapDepth)
        /\ ImtLeafCount(RebuiltCap(roots, tree, leaves))
             = Len(roots) + (IF leaves = <<>> THEN 0 ELSE 1)
      BY <1>1, RebuiltCapTree
  <2> QED
      BY <1>3, <2>1, <2>2 DEF TreesOK
<1>7. RowsOK' /\ IndexesMirror' /\ FrozenIffCompleted' /\ InPlace'
    BY <1>3 DEF RowsOK, IndexesMirror, FrozenIffCompleted, InPlace
<1>8. PendingFree'
    BY DEF PendingFree
<1>9. PathsOK(owned, completed)' /\ InRange'
    BY <1>3 DEF PathsOK, InRange
<1>10. RoomLeft'
  <2>1. Len(all) \in Nat /\ Len(pending') = 0 /\ Len(all) + 0 = Len(all)
      BY <1>1, LenProperties
  <2> QED
      BY <2>1 DEF RoomLeft, Capacity
<1> QED
    BY <1>4, <1>5, <1>6, <1>7, <1>8, <1>9, <1>10 DEF RefInv, IInv, TreeInv

\* A restart leaves the stored tree, with every row to restore.
LEMMA RestartKeepsStore ==
    ASSUME StoreInv, attached, attached' = attached, Restart
    PROVE  StoreInv'
<1>1. /\ Stored(tables.completed, tables.live, tables.log, tables.rows)
      /\ tables.rows = [n \in DOMAIN tables.rows |-> tables.rows[n]]
      /\ tables' = tables /\ gone' = {} /\ restoring' = DOMAIN tables.rows
      /\ log' = tables.log /\ pending' = <<>>
    BY DEF StoreInv, Restart
<1>2. RefInv'
    BY <1>1, LoadIsExact DEF Stored, Restart
<1>3. /\ completed' = tables.completed /\ liveLeaves' = tables.live
      /\ owned' = <<>> /\ DOMAIN owned' = {} /\ dirty' = {}
    BY DEF Restart, Load
<1>4. CASE Running'
  <2>1. DOMAIN tables.rows = {}
      BY <1>1, <1>4 DEF Running
  <2>2. DOMAIN Drained' = {}
      BY <1>3 DEF Drained
  <2>3. RowsAfterCommit' = [n \in {} |-> tables'.rows[n]]
      BY <1>1, <2>1, <2>2 DEF RowsAfterCommit
  <2>4. <<>> = [n \in {} |-> tables'.rows[n]]
      OBVIOUS
  <2>5. RowsAfterCommit' = owned'
      BY <1>3, <2>3, <2>4
  <2> QED
      BY <1>1, <1>2, <1>4, <2>5 DEF StoreInv
<1>5. CASE ~Running'
  <2>1. Restoring'
      BY <1>1, <1>3 DEF Restoring
  <2> QED
      BY <1>1, <1>2, <1>5, <2>1 DEF StoreInv
<1> QED
    BY <1>4, <1>5

\* A stored row that is not restored yet passes the checks of its call.
LEMMA RowIsAccepted ==
    ASSUME StoreInv, attached, NEW note \in restoring
    PROVE  /\ note \notin DOMAIN owned
           /\ tables.rows[note].path = NoPath => MarkError(note, tables.rows[note].leaf_index) = "ok"
           /\ tables.rows[note].path # NoPath
                => AdoptError(note, tables.rows[note].leaf_index, tables.rows[note].path) = "ok"
<1>1. /\ RefInv /\ Restoring
      /\ Stored(tables.completed, tables.live, tables.log, tables.rows)
    BY DEF StoreInv, Running
<1>2. /\ note \in DOMAIN tables.rows /\ note \notin DOMAIN owned
      /\ Stored(completed, liveLeaves, log, tables.rows)
    BY <1>1 DEF Restoring
<1>3. PICK index \in Nat : index = tables.rows[note].leaf_index /\ index < Capacity
    BY <1>2 DEF Stored
<1>4. PICK path : path = tables.rows[note].path
    OBVIOUS
<1>5. path # NoPath <=> Shard(index) < Len(completed)
    BY <1>2, <1>3, <1>4 DEF Stored
<1>6. ~LeafTaken(index, note)
  <2>1. \A m \in DOMAIN owned : owned[m].leaf_index = index => m = note
      BY <1>1, <1>2, <1>3 DEF Restoring, Stored
  <2>2. IndexesMirror
      BY <1>1 DEF RefInv, IInv, TreeInv
  <2> QED
      BY <2>1, <2>2 DEF LeafTaken, IndexesMirror
<1>7. ~(index >= Capacity) /\ Capacity \in Nat
    BY <1>1, <1>3, LogLength DEF RefInv
<1>8. /\ Shard(index) \in Nat /\ Len(completed) \in Nat
      /\ Shard(index) < Len(completed) => ~(Shard(index) >= Len(completed))
  <2>1. Len(completed) \in Nat
      BY <1>1, Counts DEF RefInv, IInv, TreeInv
  <2>2. Shard(index) \in Nat
      BY Split
  <2> QED
      BY <2>1, <2>2
<1>9. CASE path = NoPath
  <2>1. index < LeafCount => LeafIs(live, Within(index), note)
    <3>1. ImtLeaves(live) = liveLeaves
        BY <1>1 DEF RefInv, IInv, TreeInv, TreesOK
    <3> QED
        BY <1>2, <1>3, <1>5, <1>9, <3>1, StoredLeaf DEF LeafCount
  <2>2. MarkError(note, index) = "ok"
      BY <1>2, <1>5, <1>6, <1>7, <1>9, <2>1 DEF MarkError
  <2> QED
      BY <1>2, <1>3, <1>4, <1>9, <2>2
<1>10. CASE path # NoPath
  <2>1. FrozenPathHolds(completed, note, index, path)
      BY <1>2, <1>3, <1>4, <1>10 DEF Stored, PathsOK
  <2>2. Len(path) = ShardHeight
      BY <2>1 DEF FrozenPathHolds
  <2>3. AdoptError(note, index, path) = "ok"
      BY <1>2, <1>5, <1>6, <1>8, <1>10, <2>1, <2>2 DEF AdoptError
  <2> QED
      BY <1>2, <1>3, <1>4, <1>10, <2>3
<1> QED
    BY <1>9, <1>10

\* Restoring a row marks or adopts it; after the last one the tree's rows are
\* the stored ones.
LEMMA RestoreRowKeepsStore ==
    ASSUME StoreInv, attached, attached' = attached, NEW note \in Mine, RestoreRow(note)
    PROVE  /\ StoreInv'
           /\ UNCHANGED <<tables, log>>
           /\ Running' => owned' = tables.rows
<1>1. /\ RefInv /\ Restoring /\ note \in restoring /\ restoring' = restoring \ {note}
      /\ UNCHANGED <<tables, gone>>
      /\ Stored(tables.completed, tables.live, tables.log, tables.rows)
      /\ tables.rows = [n \in DOMAIN tables.rows |-> tables.rows[n]]
    BY DEF StoreInv, RestoreRow, Running
<1>2. PICK row : /\ row = tables.rows[note] /\ note \in DOMAIN tables.rows
                 /\ row = [leaf_index |-> row.leaf_index, path |-> row.path]
                 /\ row.leaf_index \in Nat /\ row.leaf_index < Capacity
                 /\ row.path # NoPath => IsRow(row.path, Len(row.path))
    BY <1>1 DEF Restoring, Stored, PathsOK
<1>3. /\ note \notin DOMAIN owned
      /\ row.path = NoPath => MarkError(note, row.leaf_index) = "ok"
      /\ row.path # NoPath => AdoptError(note, row.leaf_index, row.path) = "ok"
    BY <1>1, <1>2, RowIsAccepted
<1>4. row.leaf_index \in 0..Capacity /\ row.leaf_index \in Indices
  <2>1. Capacity \in Nat
      BY <1>1, LogLength DEF RefInv
  <2> QED
      BY <1>2, <2>1 DEF Indices
<1>5. /\ RefInv' /\ owned' = Put(owned, note, row)
      /\ UNCHANGED <<completed, liveLeaves, pending, log>>
  <2>1. CASE row.path = NoPath
    <3>1. MarkOwned(note, row.leaf_index)
        BY <1>2, <2>1 DEF RestoreRow
    <3>2. RefInv'
        BY <1>1, <1>4, <3>1, MarkOwnedKeepsRef
    <3>3. owned' = Put(owned, note, [leaf_index |-> row.leaf_index, path |-> NoPath])
          /\ UNCHANGED <<completed, liveLeaves, pending, log>>
        BY <1>3, <2>1, <3>1 DEF MarkOwned
    <3>4. [leaf_index |-> row.leaf_index, path |-> NoPath] = row
        BY <1>2, <2>1
    <3> QED
        BY <3>2, <3>3, <3>4
  <2>2. CASE row.path # NoPath
    <3>1. AdoptFrozenWitness(note, row.leaf_index, row.path)
        BY <1>2, <2>2 DEF RestoreRow
    <3>2. RefInv'
        BY <1>1, <1>2, <1>4, <2>2, <3>1, AdoptKeepsRef
    <3>3. owned' = Put(owned, note, [leaf_index |-> row.leaf_index, path |-> row.path])
          /\ UNCHANGED <<completed, liveLeaves, pending, log>>
        BY <1>3, <2>2, <3>1 DEF AdoptFrozenWitness
    <3> QED
        BY <1>2, <3>2, <3>3
  <2> QED
      BY <2>1, <2>2
<1>6. /\ DOMAIN owned' = DOMAIN tables.rows \ restoring'
      /\ \A n \in DOMAIN owned' : owned'[n] = tables.rows[n]
      /\ owned' = [n \in DOMAIN owned' |-> owned'[n]]
      /\ restoring' \subseteq DOMAIN tables.rows
  <2>1. /\ DOMAIN owned' = DOMAIN owned \cup {note} /\ owned'[note] = row
        /\ \A n \in DOMAIN owned : n # note => owned'[n] = owned[n]
        /\ owned' = [n \in DOMAIN owned' |-> owned'[n]]
      BY <1>5 DEF Put
  <2> QED
      BY <1>1, <1>2, <1>3, <2>1 DEF Restoring
<1>7. CASE Running'
  <2>1. owned' = tables.rows
    <3>1. DOMAIN owned' = DOMAIN tables.rows
        BY <1>6, <1>7 DEF Running
    <3> QED
        BY <1>1, <1>6, <3>1
  <2>2. gone' = {}
      BY <1>1 DEF Restoring
  <2>3. RowsAfterCommit' = owned'
    <3>1. DOMAIN Drained' \subseteq DOMAIN owned' /\ \A n \in DOMAIN Drained' : Drained'[n] = owned'[n]
        BY DEF Drained
    <3>2. RowsAfterCommit' = [n \in DOMAIN owned' \cup DOMAIN Drained' |->
                                 IF n \in DOMAIN Drained' THEN Drained'[n] ELSE owned'[n]]
        BY <1>1, <2>1, <2>2 DEF RowsAfterCommit
    <3> QED
        BY <1>6, <3>1, <3>2
  <2> QED
      BY <1>1, <1>5, <1>7, <2>1, <2>3 DEF StoreInv
<1>8. CASE ~Running'
  <2>1. Restoring'
      BY <1>1, <1>5, <1>6 DEF Restoring
  <2> QED
      BY <1>1, <1>5, <1>8, <2>1 DEF StoreInv
<1> QED
    BY <1>7, <1>8

\* Every call, commit and restart keeps the invariant.
LEMMA StepKeepsStoreInv == StoreInv /\ [StoreNext]_allVars => StoreInv'
<1> SUFFICES ASSUME StoreInv, [StoreNext]_allVars PROVE StoreInv'
    OBVIOUS
<1>1. /\ RefInv
      /\ Stored(tables.completed, tables.live, tables.log, tables.rows)
      /\ tables.rows = [n \in DOMAIN tables.rows |-> tables.rows[n]]
      /\ attached => IF Running THEN RowsAfterCommit = owned ELSE Restoring
    BY DEF StoreInv
<1>2. CASE UNCHANGED allVars
  <2>1. UNCHANGED vars /\ UNCHANGED storeVars /\ attached' = attached
      BY <1>2 DEF allVars
  <2>2. RefInv'
      BY <1>1, <2>1, StepKeepsRefInv
  <2>3. UNCHANGED <<completed, liveLeaves, owned, dirty, pending, log, tables, gone, restoring>>
      BY <2>1 DEF vars, treeVars, storeVars
  <2> QED
      BY <1>1, <2>1, <2>2, <2>3 DEF StoreInv, Running, RowsAfterCommit, Drained, Restoring
<1>3. CASE ~attached /\ attached' = attached /\ Next /\ UNCHANGED storeVars
  <2>1. RefInv'
      BY <1>1, <1>3, StepKeepsRefInv
  <2> QED
      BY <1>1, <1>3, <2>1 DEF StoreInv, storeVars
<1>4. ASSUME attached, attached' = attached, UNCHANGED <<tables, restoring>>, Running,
             RefInv' /\ RowsAfterCommit' = owned'
      PROVE  StoreInv'
    BY <1>1, <1>4 DEF StoreInv, Running
<1>5. CASE attached /\ attached' = attached /\ StoreStep
  <2>1. CASE TreeCall
      BY <1>4, <1>5, <2>1, TreeCallKeepsStore DEF TreeCall, storeVars
  <2>2. CASE \E note \in Mine : Forget(note)
      BY <1>4, <1>5, <2>2, ForgetKeepsStore DEF Forget
  <2>3. CASE \E count \in 0..Capacity : Rewind(count)
      BY <1>4, <1>5, <2>3, RewindKeepsStore DEF Rewind
  <2>4. CASE Commit
      BY <1>5, <2>4, CommitKeepsStore
  <2>5. CASE Restart
      BY <1>5, <2>5, RestartKeepsStore
  <2>6. CASE \E note \in Mine : RestoreRow(note)
      BY <1>5, <2>6, RestoreRowKeepsStore
  <2> QED
      BY <1>5, <2>1, <2>2, <2>3, <2>4, <2>5, <2>6 DEF StoreStep
<1> QED
    BY <1>2, <1>3, <1>5 DEF StoreNext

\* A new tree and empty tables.
LEMMA InitStoreInv == StoreInit => StoreInv
<1> SUFFICES ASSUME StoreInit PROVE StoreInv
    OBVIOUS
<1>1. /\ Init /\ gone = {} /\ restoring = {}
      /\ tables.completed = <<>> /\ tables.live = <<>> /\ tables.log = <<>> /\ tables.rows = <<>>
      /\ completed = <<>> /\ liveLeaves = <<>> /\ log = <<>> /\ owned = <<>> /\ dirty = {}
    BY DEF StoreInit, Init
<1>2. RefInv
    BY <1>1, InitRefInv
<1>3. Stored(completed, liveLeaves, log, owned)
    BY <1>2, OwnIsStored
<1>4. DOMAIN owned = {} /\ <<>> = [n \in {} |-> owned[n]]
    BY <1>1
<1>5. RowsAfterCommit = owned
  <2>1. DOMAIN Drained = {}
      BY <1>1 DEF Drained
  <2>2. RowsAfterCommit = [n \in {} |-> owned[n]]
      BY <1>1, <1>4, <2>1 DEF RowsAfterCommit
  <2> QED
      BY <1>1, <1>4, <2>2
<1> QED
    BY <1>1, <1>2, <1>3, <1>4, <1>5 DEF StoreInv, Running

\* Every state of a tree with its storage is exact, between any two calls of
\* `append_many`'s loop, commits and restarts.
THEOREM StoreInvariance == StoreSpec => []StoreInv
    BY InitStoreInv, StepKeepsStoreInv, PTL DEF StoreSpec

\* What `drain_dirty_owned_notes` hands out is exactly what the witness table
\* lacks, and a restart restores every committed row, in any order, through
\* `mark_owned` and `adopt_frozen_witness` without a refusal.
THEOREM StoredTreesReloadHolds == StoreSpec => []StoredTreesReload
<1>1. StoreInv => StoredTreesReload
  <2> SUFFICES ASSUME StoreInv, attached PROVE CommitStoresEverything /\ RestartSucceeds
      BY DEF StoredTreesReload
  <2>1. CommitStoresEverything
      BY DEF StoreInv, CommitStoresEverything
  <2>2. ~SnapshotRefused([completed |-> tables.completed, live |-> tables.live,
                          owned |-> tables.rows])
      BY StoredIsAccepted DEF StoreInv
  <2> QED
      BY <2>1, <2>2, RowIsAccepted DEF RestartSucceeds
<1> QED
    BY StoreInvariance, <1>1, PTL

\* A restart that has restored its rows has the committed witnesses and the
\* root of the committed log.
THEOREM RestartRecoversHolds == StoreSpec => RestartRecovers
<1>1. StoreInv /\ [StoreNext]_allVars
        => [restoring # {} /\ restoring' = {}
              => /\ owned' = tables.rows
                 /\ Root' = RefRoot(Depth, FieldZero, tables.log)]_allVars
  <2> SUFFICES ASSUME StoreInv, StoreNext, restoring # {}, restoring' = {}
               PROVE  owned' = tables.rows /\ Root' = RefRoot(Depth, FieldZero, tables.log)
      OBVIOUS
  <2>1. attached /\ attached' = attached /\ StoreStep
      BY DEF StoreNext, storeVars
  <2>2. Restoring /\ RefInv
      BY <2>1 DEF StoreInv, Running
  <2>3. ~Restart
      BY <2>2 DEF Restart, Restoring
  <2>4. PICK note \in Mine : RestoreRow(note)
      BY <2>1, <2>3 DEF StoreStep, TreeCall, Forget, Rewind, Commit, Running
  <2>5. /\ StoreInv' /\ owned' = tables.rows /\ log' = log
      BY <2>1, <2>4, RestoreRowKeepsStore DEF Running
  <2>6. log' = tables.log
      BY <2>2, <2>5 DEF Restoring
  <2>7. RefInv'
      BY <2>5 DEF StoreInv
  <2>8. ProvesAgainstFlatTree'
      BY <2>7, RefInvProves, PTL
  <2>9. Root' = RefRoot(Depth, FieldZero, log')
      BY <2>8 DEF ProvesAgainstFlatTree, RootMatchesFlatTree
  <2> QED
      BY <2>5, <2>6, <2>9
<1> QED
    BY StoreInvariance, <1>1, PTL DEF StoreSpec, RestartRecovers

\* Restarts included, the bookkeeping agrees, every witness is the flat
\* tree's and the tree accepts its own snapshot.
THEOREM ThroughRestarts ==
    StoreSpec => [](BookkeepingAgrees /\ ProvesAgainstFlatTree /\ OwnSnapshotAccepted)
<1>1. StoreInv => BookkeepingAgrees
    BY DEF StoreInv, RefInv, IInv, TreeInv, BookkeepingAgrees
<1>2. StoreInv => ProvesAgainstFlatTree
    BY RefInvProves DEF StoreInv
<1>3. StoreInv => OwnSnapshotAccepted
    BY OwnIsStored, StoredIsAccepted DEF StoreInv, OwnSnapshotAccepted, Snapshot
<1> QED
    BY <1>1, <1>2, <1>3, StoreInvariance, PTL
=============================================================================
