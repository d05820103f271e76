-------------------------- MODULE MerkleOps_proofs --------------------------
(***************************************************************************)
(* What the tree operators of MerkleOps compute, for every depth and every *)
(* sequence of leaves: each stored row is the row of the reference tree,   *)
(* and a path of siblings leads to the root for the tree's own leaves and  *)
(* for nothing else.                                                       *)
(*                                                                         *)
(* Induction is over a set of natural numbers (SetInduction), which needs  *)
(* no operator parameter; it rests on the pigeonhole principle.            *)
(***************************************************************************)
EXTENDS MerkleOps, FiniteSetTheorems, FunctionTheorems, SequenceTheorems, TLAPS

\* Induction over the natural numbers, for a set instead of a predicate.
LEMMA SetInduction ==
    ASSUME NEW S, 0 \in S, \A k \in Nat : k \in S => k + 1 \in S
    PROVE  Nat \subseteq S
<1> SUFFICES ASSUME NEW n \in Nat, n \notin S PROVE FALSE
    OBVIOUS
<1> DEFINE Outside == (0..n) \ S
           pred == [k \in Outside |-> k - 1]
<1>1. IsFiniteSet(Outside)
  <2>1. IsFiniteSet(0..n)
      BY FS_Interval
  <2> QED
      BY <2>1, FS_Subset
<1>2. /\ IsFiniteSet(Outside \ {n})
      /\ Cardinality(Outside \ {n}) < Cardinality(Outside)
  <2>1. n \in Outside
      OBVIOUS
  <2>2. Cardinality(Outside) \in Nat
      BY <1>1, FS_CardinalityType
  <2> HIDE DEF Outside
  <2>3. /\ IsFiniteSet(Outside \ {n})
        /\ Cardinality(Outside \ {n})
             = IF n \in Outside THEN Cardinality(Outside) - 1 ELSE Cardinality(Outside)
      BY <1>1, FS_RemoveElement, Zenon
  <2> QED
      BY <2>1, <2>2, <2>3
<1>3. pred \in [Outside -> Outside \ {n}]
  <2>1. \A k \in Outside : k - 1 \in Outside \ {n}
      OBVIOUS
  <2> QED
      BY <2>1
<1>4. \E x, y \in Outside : x # y /\ pred[x] = pred[y]
  <2> HIDE DEF Outside, pred
  <2> QED
      BY <1>1, <1>2, <1>3, FS_PigeonHole
<1> QED
    BY <1>4

\* A power of two is a number: that of the subsets of a set.
LEMMA PowerNat ==
    ASSUME NEW n \in Nat
    PROVE  2 ^ n \in Nat /\ 2 ^ n = Cardinality(SUBSET (1..n))
<1>1. IsFiniteSet(1..n) /\ Cardinality(1..n) = n
    BY FS_Interval
<1>2. IsFiniteSet(SUBSET (1..n)) /\ Cardinality(SUBSET (1..n)) = 2 ^ n
    BY <1>1, FS_SUBSET
<1> QED
    BY <1>2, FS_CardinalityType

\* A power of two doubles with its exponent.
LEMMA PowerStep ==
    ASSUME NEW n \in Nat
    PROVE  2 ^ (n + 1) = 2 * 2 ^ n
<1> DEFINE Old == SUBSET (1..n)
           New == {T \in SUBSET (1..(n + 1)) : n + 1 \in T}
           add == [T \in Old |-> T \cup {n + 1}]
<1>1. SUBSET (1..(n + 1)) = Old \cup New /\ Old \cap New = {}
    OBVIOUS
<1>2. IsFiniteSet(Old)
  <2>1. IsFiniteSet(1..n)
      BY FS_Interval
  <2> QED
      BY <2>1, FS_SUBSET
<1>3. add \in Bijection(Old, New)
  <2>1. add \in [Old -> New]
      OBVIOUS
  <2>2. \A S, T \in Old : add[S] = add[T] => S = T
      OBVIOUS
  <2>3. \A T \in New : \E S \in Old : add[S] = T
    <3> TAKE T \in New
    <3>1. T \ {n + 1} \in Old /\ add[T \ {n + 1}] = T
        OBVIOUS
    <3> QED
        BY <3>1
  <2> QED
      BY <2>1, <2>2, <2>3, Fun_IsBij
<1>4. IsFiniteSet(New) /\ Cardinality(New) = Cardinality(Old)
    BY <1>2, <1>3, FS_Bijection DEF ExistsBijection
<1> HIDE DEF Old, New
<1>5. Cardinality(Old \cup New) = Cardinality(Old) + Cardinality(New)
  <2>1. Cardinality(Old \cup New)
          = Cardinality(Old) + Cardinality(New) - Cardinality(Old \cap New)
      BY <1>2, <1>4, FS_Union, Zenon
  <2>2. Cardinality(Old \cap New) = 0
      BY <1>1, FS_EmptySet
  <2>3. Cardinality(Old) \in Nat /\ Cardinality(New) \in Nat
      BY <1>2, <1>4, FS_CardinalityType
  <2> QED
      BY <2>1, <2>2, <2>3
<1>6. 2 ^ n = Cardinality(Old) /\ 2 ^ (n + 1) = Cardinality(Old \cup New) /\ 2 ^ n \in Nat
    BY <1>1, PowerNat DEF Old
<1> QED
    BY <1>4, <1>5, <1>6
-----------------------------------------------------------------------------
\* f has the nodes of the reference tree up to level L.
IsNodes(f, leaves, zero, L) ==
    \A h \in 0..L, i \in Nat :
        f[h][i] = IF h = 0 THEN GetOr(leaves, i, zero)
                  ELSE Poseidon(f[h - 1][2 * i], f[h - 1][2 * i + 1])

\* There is such a function for every level: each is extended by a level.
LEMMA NodesExist ==
    ASSUME NEW leaves, NEW zero
    PROVE  \A L \in Nat : \E f : IsNodes(f, leaves, zero, L)
<1> DEFINE S == {L \in Nat : \E f : IsNodes(f, leaves, zero, L)}
<1>1. 0 \in S
  <2> DEFINE f == [h \in {0} |-> [i \in Nat |-> GetOr(leaves, i, zero)]]
  <2>1. \A i \in Nat : f[0][i] = GetOr(leaves, i, zero)
      OBVIOUS
  <2>2. IsNodes(f, leaves, zero, 0)
      BY <2>1 DEF IsNodes
  <2> HIDE DEF f
  <2> QED
      BY <2>2
<1>2. ASSUME NEW L \in Nat, L \in S PROVE L + 1 \in S
  <2>1. PICK f : IsNodes(f, leaves, zero, L)
      BY <1>2
  <2> DEFINE g == [h \in 0..(L + 1) |-> [i \in Nat |->
                    IF h <= L THEN f[h][i] ELSE Poseidon(f[L][2 * i], f[L][2 * i + 1])]]
  <2>2. \A h \in 0..L, i \in Nat : g[h][i] = f[h][i]
      OBVIOUS
  <2>3. \A i \in Nat : g[L + 1][i] = Poseidon(f[L][2 * i], f[L][2 * i + 1])
      OBVIOUS
  <2> HIDE DEF g
  <2>4. ASSUME NEW h \in 0..(L + 1), NEW i \in Nat
        PROVE  g[h][i] = IF h = 0 THEN GetOr(leaves, i, zero)
                         ELSE Poseidon(g[h - 1][2 * i], g[h - 1][2 * i + 1])
    <3>1. CASE h = 0
        BY <2>1, <2>2, <3>1 DEF IsNodes
    <3>2. CASE h \in 1..L
      <4>1. h - 1 \in 0..L /\ h \in 0..L /\ h # 0 /\ 2 * i \in Nat /\ 2 * i + 1 \in Nat
          BY <3>2
      <4> QED
          BY <2>1, <2>2, <4>1 DEF IsNodes
    <3>3. CASE h = L + 1
      <4>1. h # 0 /\ h - 1 = L /\ L \in 0..L /\ 2 * i \in Nat /\ 2 * i + 1 \in Nat
          BY <3>3
      <4> QED
          BY <2>2, <2>3, <3>3, <4>1
    <3> QED
        BY <3>1, <3>2, <3>3
  <2>5. IsNodes(g, leaves, zero, L + 1)
      BY <2>4 DEF IsNodes
  <2> QED
      BY <2>5
<1> HIDE DEF S
<1>3. Nat \subseteq S
    BY <1>1, <1>2, SetInduction
<1> QED
    BY <1>3 DEF S

\* Two such functions agree on the levels they have in common.
LEMMA NodesUnique ==
    ASSUME NEW leaves, NEW zero, NEW L \in Nat, NEW M \in Nat, NEW f, NEW g,
           IsNodes(f, leaves, zero, L), IsNodes(g, leaves, zero, M)
    PROVE  \A h \in Nat : h <= L /\ h <= M => \A i \in Nat : f[h][i] = g[h][i]
<1> DEFINE S == {h \in Nat : h <= L /\ h <= M => \A i \in Nat : f[h][i] = g[h][i]}
<1>1. 0 \in S
    BY DEF IsNodes
<1>2. ASSUME NEW h \in Nat, h \in S PROVE h + 1 \in S
  <2> SUFFICES ASSUME h + 1 <= L, h + 1 <= M, NEW i \in Nat
               PROVE  f[h + 1][i] = g[h + 1][i]
      OBVIOUS
  <2>1. /\ h + 1 \in 0..L /\ h + 1 \in 0..M /\ h + 1 # 0 /\ (h + 1) - 1 = h
        /\ 2 * i \in Nat /\ 2 * i + 1 \in Nat
      OBVIOUS
  <2>2. /\ f[h + 1][i] = Poseidon(f[h][2 * i], f[h][2 * i + 1])
        /\ g[h + 1][i] = Poseidon(g[h][2 * i], g[h][2 * i + 1])
      BY <2>1 DEF IsNodes
  <2>3. f[h][2 * i] = g[h][2 * i] /\ f[h][2 * i + 1] = g[h][2 * i + 1]
      BY <1>2, <2>1
  <2> QED
      BY <2>2, <2>3
<1> HIDE DEF S
<1>3. Nat \subseteq S
    BY <1>1, <1>2, SetInduction
<1> QED
    BY <1>3 DEF S

\* The reference definition defines the node at every level and index.
LEMMA RefNodeDef ==
    ASSUME NEW leaves, NEW zero
    PROVE  \A h \in Nat, i \in Nat :
              RefNode(leaves, zero, h, i)
                = IF h = 0 THEN GetOr(leaves, i, zero)
                  ELSE Poseidon(RefNode(leaves, zero, h - 1, 2 * i),
                                RefNode(leaves, zero, h - 1, 2 * i + 1))
<1> DEFINE at(f) == [h \in Nat |-> [i \in Nat |->
                       IF h = 0 THEN GetOr(leaves, i, zero)
                       ELSE Poseidon(f[h - 1][2 * i], f[h - 1][2 * i + 1])]]
           pick(h) == CHOOSE f : IsNodes(f, leaves, zero, h)
           g == [h \in Nat |-> [i \in Nat |-> pick(h)[h][i]]]
<1>1. \A h \in Nat : IsNodes(pick(h), leaves, zero, h)
    BY NodesExist
<1>2. \A h, i \in Nat : g[h][i] = pick(h)[h][i]
    OBVIOUS
<1> HIDE DEF g, pick
<1>3. ASSUME NEW h \in Nat, NEW i \in Nat
      PROVE  g[h][i] = IF h = 0 THEN GetOr(leaves, i, zero)
                       ELSE Poseidon(g[h - 1][2 * i], g[h - 1][2 * i + 1])
  <2>1. pick(h)[h][i] = IF h = 0 THEN GetOr(leaves, i, zero)
                        ELSE Poseidon(pick(h)[h - 1][2 * i], pick(h)[h - 1][2 * i + 1])
      BY <1>1 DEF IsNodes
  <2>2. CASE h = 0
      BY <1>2, <2>1, <2>2
  <2>3. CASE h # 0
    <3>1. /\ h - 1 \in Nat /\ h - 1 <= h /\ h - 1 <= h - 1
          /\ 2 * i \in Nat /\ 2 * i + 1 \in Nat
        BY <2>3
    <3>2. \A j \in Nat : pick(h)[h - 1][j] = pick(h - 1)[h - 1][j]
      <4>1. /\ IsNodes(pick(h), leaves, zero, h)
            /\ IsNodes(pick(h - 1), leaves, zero, h - 1)
          BY <1>1, <3>1
      <4>2. \A k \in Nat : k <= h /\ k <= h - 1
                => \A j \in Nat : pick(h)[k][j] = pick(h - 1)[k][j]
          BY <3>1, <4>1, NodesUnique
      <4> QED
          BY <3>1, <4>2
    <3> QED
        BY <1>2, <2>1, <2>3, <3>1, <3>2
  <2> QED
      BY <2>2, <2>3
<1>4. g = at(g)
  <2>1. g = [h \in Nat |-> [i \in Nat |-> pick(h)[h][i]]]
      BY DEF g
  <2>2. g = [h \in Nat |-> [i \in Nat |-> g[h][i]]]
      BY <1>2, <2>1
  <2> QED
      BY <1>3, <2>2
<1> DEFINE node == CHOOSE f : f = at(f)
<1>5. node = at(node)
    BY <1>4
<1>6. \A h, i \in Nat : RefNode(leaves, zero, h, i) = node[h][i]
    BY DEF RefNode
<1>7. \A h, i \in Nat : node[h][i] = at(node)[h][i]
    BY <1>5
<1> HIDE DEF node
<1> TAKE h \in Nat, i \in Nat
<1>8. node[h][i] = IF h = 0 THEN GetOr(leaves, i, zero)
                   ELSE Poseidon(node[h - 1][2 * i], node[h - 1][2 * i + 1])
    BY <1>7
<1>9. h # 0 => h - 1 \in Nat /\ 2 * i \in Nat /\ 2 * i + 1 \in Nat
    OBVIOUS
<1> QED
    BY <1>6, <1>8, <1>9

\* Powers of two are positive.
LEMMA PowerPositive ==
    \A n \in Nat : 2 ^ n \in Nat \ {0} /\ 2 ^ (n + 1) = 2 * 2 ^ n
<1> DEFINE S == {n \in Nat : 2 ^ n # 0}
<1>1. 0 \in S
    OBVIOUS
<1>2. ASSUME NEW n \in Nat, n \in S PROVE n + 1 \in S
    BY <1>2, PowerNat, PowerStep
<1> HIDE DEF S
<1>3. Nat \subseteq S
    BY <1>1, <1>2, SetInduction
<1> QED
    BY <1>3, PowerNat, PowerStep DEF S

\* Division with remainder.
LEMMA Division ==
    ASSUME NEW n \in Int, NEW a \in Nat \ {0}
    PROVE  n \div a \in Int /\ a * (n \div a) <= n /\ n < a * (n \div a) + a
<1>1. n \div a \in Int
    OBVIOUS
<1>2. n = a * (n \div a) + (n % a) /\ n % a \in 0..(a - 1)
    BY SMTT(60)
<1> QED
    BY <1>1, <1>2

\* The quotient is the only integer with these bounds.
LEMMA Quotient ==
    ASSUME NEW n \in Int, NEW a \in Nat \ {0}, NEW q \in Int,
           a * q <= n, n < a * q + a
    PROVE  n \div a = q
<1> DEFINE p == n \div a
<1>1. p \in Int /\ a * p <= n /\ n < a * p + a
    BY Division
<1> HIDE DEF p
<1>2. CASE p < q
  <2>1. a * p + a <= a * q
      BY <1>1, <1>2
  <2> QED
      BY <1>1, <2>1
<1>3. CASE p > q
  <2>1. a * q + a <= a * p
      BY <1>1, <1>3
  <2> QED
      BY <1>1, <2>1
<1> QED
    BY <1>1, <1>2, <1>3 DEF p

\* The node above `index` at `level`.
Above(index, level) == index \div 2 ^ level

\* The number of nodes at `level` over `count` leaves.
Ceil(count, level) == (count + 2 ^ level - 1) \div 2 ^ level

\* The path from a leaf to the root, one level at a time (`index >>= 1`).
LEMMA AboveStep ==
    ASSUME NEW index \in Nat
    PROVE  /\ Above(index, 0) = index
           /\ \A h \in Nat : /\ Above(index, h) \in Nat
                             /\ Above(index, h + 1) = Above(index, h) \div 2
<1>1. Above(index, 0) = index
  <2>1. 2 ^ 0 = 1
      OBVIOUS
  <2>2. index \div 1 = index
      OBVIOUS
  <2> QED
      BY <2>1, <2>2 DEF Above
<1>2. ASSUME NEW h \in Nat
      PROVE  Above(index, h) \in Nat /\ Above(index, h + 1) = Above(index, h) \div 2
  <2> DEFINE a == 2 ^ h
  <2>1. a \in Nat \ {0} /\ 2 ^ (h + 1) = 2 * a
      BY PowerPositive
  <2> HIDE DEF a
  <2>2. index \div a \in Nat
      BY <2>1
  <2>3. (index \div a) \div 2 = index \div (2 * a)
      BY <2>1, SMTT(60)
  <2> QED
      BY <2>1, <2>2, <2>3 DEF Above, a
<1> QED
    BY <1>1, <1>2

\* The path from a leaf ends at the root exactly when the leaf is in the tree.
LEMMA AboveTop ==
    ASSUME NEW index \in Nat, NEW depth \in Nat
    PROVE  index < 2 ^ depth <=> Above(index, depth) = 0
<1> DEFINE a == 2 ^ depth
<1>1. a \in Nat \ {0}
    BY PowerPositive
<1> HIDE DEF a
<1>2. a * (index \div a) <= index /\ index < a * (index \div a) + a
    BY <1>1, Division
<1>3. a * 0 = 0 /\ 0 \in Int
    BY <1>1
<1>4. index < a => index \div a = 0
    BY <1>1, <1>3, Quotient
<1>5. index \div a = 0 => index < a
    BY <1>1, <1>2, <1>3
<1> QED
    BY <1>4, <1>5 DEF Above, a

\* A row has half the nodes of the row under it, rounded up.
LEMMA CeilStep ==
    ASSUME NEW n \in Nat
    PROVE  /\ Ceil(n, 0) = n
           /\ \A h \in Nat : /\ Ceil(n, h) \in Nat
                             /\ Ceil(n, h + 1) = (Ceil(n, h) + 1) \div 2
<1>1. Ceil(n, 0) = n
  <2>1. 2 ^ 0 = 1
      OBVIOUS
  <2>2. (n + 1 - 1) \div 1 = n
      OBVIOUS
  <2> QED
      BY <2>1, <2>2 DEF Ceil
<1>2. ASSUME NEW h \in Nat
      PROVE  Ceil(n, h) \in Nat /\ Ceil(n, h + 1) = (Ceil(n, h) + 1) \div 2
  <2> DEFINE a == 2 ^ h
             m == n + 2 * a - 1
  <2>1. a \in Nat \ {0} /\ 2 ^ (h + 1) = 2 * a /\ m \in Nat
      BY PowerPositive
  <2> HIDE DEF a
  <2>2. (m \div a) \div 2 = m \div (2 * a)
      BY <2>1, SMTT(60)
  <2>3. m \div a = ((n + a - 1) \div a) + 1
    <3> DEFINE q == (n + a - 1) \div a
    <3>1. q \in Int /\ a * q <= n + a - 1 /\ n + a - 1 < a * q + a
        BY <2>1, Division
    <3> HIDE DEF q
    <3>2. a * (q + 1) = a * q + a
        BY <2>1, <3>1
    <3>3. m \in Int /\ q + 1 \in Int /\ a * (q + 1) <= m /\ m < a * (q + 1) + a
        BY <2>1, <3>1, <3>2
    <3> HIDE DEF m
    <3>4. m \div a = q + 1
        BY <2>1, <3>3, Quotient
    <3> QED
        BY <3>4 DEF q
  <2>4. (n + a - 1) \div a \in Nat
      BY <2>1
  <2> QED
      BY <2>1, <2>2, <2>3, <2>4 DEF Ceil, a
<1> QED
    BY <1>1, <1>2

\* The type of a number of nodes.
LEMMA CeilNat ==
    ASSUME NEW n \in Nat, NEW h \in Nat
    PROVE  Ceil(n, h) \in Nat
    BY CeilStep

\* The nodes over n leaves are those left of, and above, leaf n; over n + 1
\* leaves, those up to the node above leaf n.
LEMMA CeilAbove ==
    ASSUME NEW n \in Nat, NEW h \in Nat
    PROVE  /\ Ceil(n, h) \in {Above(n, h), Above(n, h) + 1}
           /\ Ceil(n + 1, h) = Above(n, h) + 1
           /\ \A i \in Nat : i < n => Above(i, h) < Ceil(n, h)
           /\ \A i \in Nat : Above(i, h) < Above(n, h) => i < n
<1> DEFINE a == 2 ^ h
           q == n \div a
           c == (n + a - 1) \div a
<1>1. a \in Nat \ {0}
    BY PowerPositive
<1> HIDE DEF a
<1>2. q \in Int /\ a * q <= n /\ n < a * q + a
    BY <1>1, Division
<1>3. c \in Int /\ a * c <= n + a - 1 /\ n + a - 1 < a * c + a
    BY <1>1, Division
<1> HIDE DEF q, c
<1>4. c \in {q, q + 1}
  <2>1. c >= q
    <3>1. ASSUME c + 1 <= q PROVE FALSE
      <4>1. a * (c + 1) <= a * q /\ a * (c + 1) = a * c + a
          BY <1>1, <1>2, <1>3, <3>1
      <4> QED
          BY <1>1, <1>2, <1>3, <4>1
    <3> QED
        BY <1>2, <1>3, <3>1
  <2>2. c <= q + 1
    <3>1. ASSUME c >= q + 2 PROVE FALSE
      <4>1. a * (q + 2) <= a * c /\ a * (q + 2) = a * q + 2 * a
          BY <1>1, <1>2, <1>3, <3>1
      <4> QED
          BY <1>1, <1>2, <1>3, <4>1
    <3> QED
        BY <1>2, <1>3, <3>1
  <2> QED
      BY <1>2, <1>3, <2>1, <2>2
<1>5. (n + 1 + a - 1) \div a = q + 1
  <2>1. a * (q + 1) = a * q + a
      BY <1>1, <1>2
  <2> QED
      BY <1>1, <1>2, <2>1, Quotient
<1>6. ASSUME NEW i \in Nat, i < n PROVE i \div a < c
  <2> DEFINE r == i \div a
  <2>1. r \in Int /\ a * r <= i
      BY <1>1, Division
  <2> HIDE DEF r
  <2>2. ASSUME c <= r PROVE FALSE
    <3>1. a * c <= a * r
        BY <1>1, <1>3, <2>1, <2>2
    <3> QED
        BY <1>1, <1>3, <1>6, <2>1, <3>1
  <2> QED
      BY <1>3, <2>1, <2>2 DEF r
<1>7. ASSUME NEW i \in Nat, i \div a < q PROVE i < n
  <2> DEFINE r == i \div a
  <2>1. r \in Int /\ i < a * r + a
      BY <1>1, Division
  <2>0. r < q
      BY <1>7
  <2> HIDE DEF r
  <2>2. a * (r + 1) <= a * q /\ a * (r + 1) = a * r + a
      BY <1>1, <1>2, <2>0, <2>1
  <2> QED
      BY <1>1, <1>2, <2>1, <2>2
<1> QED
    BY <1>4, <1>5, <1>6, <1>7 DEF Ceil, Above, a, q, c

\* A level has as many nodes as needed, and no more with fewer leaves.
LEMMA CeilBounds ==
    ASSUME NEW n \in Nat, NEW m \in Nat, n <= m
    PROVE  \A h \in Nat : /\ Ceil(n, h) <= Ceil(m, h)
                          /\ (n > 0 => Ceil(n, h) > 0) /\ (n = 0 => Ceil(n, h) = 0)
<1> DEFINE S == {h \in Nat : /\ Ceil(n, h) <= Ceil(m, h)
                             /\ (n > 0 => Ceil(n, h) > 0) /\ (n = 0 => Ceil(n, h) = 0)}
<1>1. 0 \in S
    BY CeilStep
<1>2. ASSUME NEW h \in Nat, h \in S PROVE h + 1 \in S
  <2>1. /\ Ceil(n, h) \in Nat /\ Ceil(n, h + 1) = (Ceil(n, h) + 1) \div 2
        /\ Ceil(m, h) \in Nat /\ Ceil(m, h + 1) = (Ceil(m, h) + 1) \div 2
      BY CeilStep
  <2> QED
      BY <1>2, <2>1
<1> HIDE DEF S
<1>3. Nat \subseteq S
    BY <1>1, <1>2, SetInduction
<1> QED
    BY <1>3 DEF S

\* The reference definition at level 0.
LEMMA RefNodeLeaf ==
    ASSUME NEW leaves, NEW zero, NEW i \in Nat
    PROVE  RefNode(leaves, zero, 0, i) = GetOr(leaves, i, zero)
    BY RefNodeDef

\* A node is the hash of its two children.
LEMMA RefNodeParent ==
    ASSUME NEW leaves, NEW zero, NEW h \in Nat, NEW i \in Nat
    PROVE  RefNode(leaves, zero, h + 1, i)
             = Poseidon(RefNode(leaves, zero, h, 2 * i), RefNode(leaves, zero, h, 2 * i + 1))
<1>1. h + 1 \in Nat /\ h + 1 # 0 /\ (h + 1) - 1 = h
    OBVIOUS
<1>2. RefNode(leaves, zero, h + 1, i)
        = IF h + 1 = 0 THEN GetOr(leaves, i, zero)
          ELSE Poseidon(RefNode(leaves, zero, (h + 1) - 1, 2 * i),
                        RefNode(leaves, zero, (h + 1) - 1, 2 * i + 1))
    BY <1>1, RefNodeDef
<1> QED
    BY <1>1, <1>2

\* A node depends on the leaves below it only.
LEMMA RefNodeLocal ==
    ASSUME NEW l1, NEW l2, NEW zero
    PROVE  \A h \in Nat, i \in Nat :
              (\A j \in Nat : Above(j, h) = i => GetOr(l1, j, zero) = GetOr(l2, j, zero))
                => RefNode(l1, zero, h, i) = RefNode(l2, zero, h, i)
<1> DEFINE Same(h, i) == \A j \in Nat : Above(j, h) = i => GetOr(l1, j, zero) = GetOr(l2, j, zero)
           S == {h \in Nat : \A i \in Nat : Same(h, i)
                                => RefNode(l1, zero, h, i) = RefNode(l2, zero, h, i)}
<1>1. 0 \in S
    BY RefNodeLeaf, AboveStep
<1>2. ASSUME NEW h \in Nat, h \in S PROVE h + 1 \in S
  <2> SUFFICES ASSUME NEW i \in Nat, Same(h + 1, i)
               PROVE  RefNode(l1, zero, h + 1, i) = RefNode(l2, zero, h + 1, i)
      OBVIOUS
  <2>1. h + 1 \in Nat /\ h + 1 # 0 /\ (h + 1) - 1 = h /\ 2 * i \in Nat /\ 2 * i + 1 \in Nat
      OBVIOUS
  <2>2. ASSUME NEW c \in {2 * i, 2 * i + 1} PROVE Same(h, c)
    <3> SUFFICES ASSUME NEW j \in Nat, Above(j, h) = c
                 PROVE  GetOr(l1, j, zero) = GetOr(l2, j, zero)
        OBVIOUS
    <3>1. Above(j, h + 1) = Above(j, h) \div 2
        BY AboveStep
    <3>2. Above(j, h + 1) = i
        BY <3>1
    <3> QED
        BY <3>2
  <2>3. /\ RefNode(l1, zero, h, 2 * i) = RefNode(l2, zero, h, 2 * i)
        /\ RefNode(l1, zero, h, 2 * i + 1) = RefNode(l2, zero, h, 2 * i + 1)
      BY <1>2, <2>1, <2>2
  <2>4. /\ RefNode(l1, zero, h + 1, i)
             = Poseidon(RefNode(l1, zero, h, 2 * i), RefNode(l1, zero, h, 2 * i + 1))
        /\ RefNode(l2, zero, h + 1, i)
             = Poseidon(RefNode(l2, zero, h, 2 * i), RefNode(l2, zero, h, 2 * i + 1))
      BY <2>1, RefNodeParent
  <2> QED
      BY <2>3, <2>4
<1> HIDE DEF S
<1>3. Nat \subseteq S
    BY <1>1, <1>2, SetInduction
<1> QED
    BY <1>3 DEF S

\* The root of an all-empty subtree.
EmptyNode(zero, level) == RefNode(<<>>, zero, level, 0)

\* A node right of every leaf is the root of an all-empty subtree.
LEMMA RefNodePadding ==
    ASSUME NEW leaves, NEW zero, Len(leaves) \in Nat
    PROVE  \A h \in Nat, i \in Nat :
              i >= Ceil(Len(leaves), h) => RefNode(leaves, zero, h, i) = EmptyNode(zero, h)
<1> DEFINE n == Len(leaves)
           S == {h \in Nat : \A i \in Nat :
                    /\ RefNode(<<>>, zero, h, i) = EmptyNode(zero, h)
                    /\ i >= Ceil(n, h) => RefNode(leaves, zero, h, i) = EmptyNode(zero, h)}
<1>1. 0 \in S
  <2>1. \A i \in Nat : /\ GetOr(<<>>, i, zero) = zero
                       /\ i >= n => GetOr(leaves, i, zero) = zero
      BY DEF GetOr
  <2>2. Ceil(n, 0) = n
      BY CeilStep
  <2> QED
      BY <2>1, <2>2, RefNodeLeaf DEF EmptyNode
<1>2. ASSUME NEW h \in Nat, h \in S PROVE h + 1 \in S
  <2> SUFFICES ASSUME NEW i \in Nat
               PROVE  /\ RefNode(<<>>, zero, h + 1, i) = EmptyNode(zero, h + 1)
                      /\ i >= Ceil(n, h + 1)
                           => RefNode(leaves, zero, h + 1, i) = EmptyNode(zero, h + 1)
      OBVIOUS
  <2>1. /\ h + 1 \in Nat /\ h + 1 # 0 /\ (h + 1) - 1 = h /\ 2 * i \in Nat /\ 2 * i + 1 \in Nat
        /\ 2 * 0 \in Nat /\ 2 * 0 + 1 \in Nat
      OBVIOUS
  <2>2. \A l, k : k \in Nat => RefNode(l, zero, h + 1, k)
             = Poseidon(RefNode(l, zero, h, 2 * k), RefNode(l, zero, h, 2 * k + 1))
      BY <2>1, RefNodeParent
  <2>3. i >= Ceil(n, h + 1) => 2 * i >= Ceil(n, h) /\ 2 * i + 1 >= Ceil(n, h)
    <3>1. Ceil(n, h) \in Nat /\ Ceil(n, h + 1) = (Ceil(n, h) + 1) \div 2
        BY CeilStep
    <3> QED
        BY <3>1
  <2>4. EmptyNode(zero, h + 1) = Poseidon(EmptyNode(zero, h), EmptyNode(zero, h))
      BY <1>2, <2>1, <2>2 DEF EmptyNode
  <2>5. \A k \in Nat : RefNode(<<>>, zero, h, k) = EmptyNode(zero, h)
      BY <1>2
  <2>6. \A k \in Nat : k >= Ceil(n, h) => RefNode(leaves, zero, h, k) = EmptyNode(zero, h)
      BY <1>2
  <2> QED
      BY <2>1, <2>2, <2>3, <2>4, <2>5, <2>6
<1> HIDE DEF S
<1>3. Nat \subseteq S
    BY <1>1, <1>2, SetInduction
<1> QED
    BY <1>3 DEF S

\* `Z[h]` is the root of an all-empty subtree of height h.
LEMMA ZeroRoots ==
    ASSUME NEW depth \in Nat, NEW zero
    PROVE  \A h \in 0..depth : ZeroRootsFrom(depth, zero)[h] = EmptyNode(zero, h)
<1> DEFINE at(f) == [h \in 0..depth |->
                       IF h = 0 THEN zero ELSE LET last == f[h - 1] IN Poseidon(last, last)]
           e == [h \in 0..depth |-> EmptyNode(zero, h)]
           z == CHOOSE f : f = at(f)
<1>1. \A h \in Nat : EmptyNode(zero, h) = IF h = 0 THEN zero
                     ELSE Poseidon(EmptyNode(zero, h - 1), EmptyNode(zero, h - 1))
  <2> TAKE h \in Nat
  <2>1. CASE h = 0
    <3>1. GetOr(<<>>, 0, zero) = zero
        BY DEF GetOr
    <3> QED
        BY <2>1, <3>1, RefNodeLeaf DEF EmptyNode
  <2>2. CASE h # 0
    <3>1. PICK k \in Nat : h = k + 1
      <4>1. h - 1 \in Nat /\ h = (h - 1) + 1
          BY <2>2
      <4> QED
          BY <4>1
    <3>2. k = h - 1 /\ 2 * 0 \in Nat /\ 2 * 0 + 1 \in Nat /\ 0 \in Nat /\ Len(<<>>) = 0
        BY <3>1
    <3>3. Ceil(0, k) = 0
        BY CeilBounds
    <3>4. /\ RefNode(<<>>, zero, k, 2 * 0) = EmptyNode(zero, k)
          /\ RefNode(<<>>, zero, k, 2 * 0 + 1) = EmptyNode(zero, k)
        BY <3>2, <3>3, RefNodePadding
    <3>5. RefNode(<<>>, zero, k + 1, 0)
            = Poseidon(RefNode(<<>>, zero, k, 2 * 0), RefNode(<<>>, zero, k, 2 * 0 + 1))
        BY RefNodeParent
    <3> QED
        BY <2>2, <3>1, <3>2, <3>4, <3>5 DEF EmptyNode
  <2> QED
      BY <2>1, <2>2
<1>2. e = at(e)
  <2>1. \A h \in 0..depth : h # 0 => h - 1 \in 0..depth
      OBVIOUS
  <2> QED
      BY <1>1, <2>1
<1>3. z = at(z)
    BY <1>2
<1>4. ZeroRootsFrom(depth, zero) = z
    BY DEF ZeroRootsFrom
<1>5. \A h \in 0..depth : z[h] = IF h = 0 THEN zero ELSE Poseidon(z[h - 1], z[h - 1])
    BY <1>3
<1> HIDE DEF z, e
<1> DEFINE S == {h \in Nat : h <= depth => z[h] = EmptyNode(zero, h)}
<1>6. 0 \in S
    BY <1>1, <1>5
<1>7. ASSUME NEW h \in Nat, h \in S PROVE h + 1 \in S
  <2> SUFFICES ASSUME h + 1 <= depth PROVE z[h + 1] = EmptyNode(zero, h + 1)
      OBVIOUS
  <2>1. h + 1 \in 0..depth /\ h + 1 \in Nat /\ h + 1 # 0 /\ (h + 1) - 1 = h /\ h <= depth
      OBVIOUS
  <2> QED
      BY <1>1, <1>5, <1>7, <2>1
<1> HIDE DEF S
<1>8. Nat \subseteq S
    BY <1>6, <1>7, SetInduction
<1> QED
    BY <1>4, <1>8 DEF S
-----------------------------------------------------------------------------
\* The row of the reference tree at `level`, as far as leaves reach.
RefRow(leaves, zero, level) ==
    [k \in 1..Ceil(Len(leaves), level) |-> RefNode(leaves, zero, level, k - 1)]

\* The row at level 0 is the row of leaves.
LEMMA RowOfLeaves ==
    ASSUME NEW S, NEW leaves \in Seq(S), NEW zero
    PROVE  RefRow(leaves, zero, 0) = leaves
<1>1. Len(leaves) \in Nat /\ leaves = [k \in 1..Len(leaves) |-> leaves[k]]
    BY LenProperties
<1>2. Ceil(Len(leaves), 0) = Len(leaves)
    BY <1>1, CeilStep
<1>3. \A k \in 1..Len(leaves) : RefNode(leaves, zero, 0, k - 1) = leaves[k]
  <2> TAKE k \in 1..Len(leaves)
  <2>1. k - 1 \in Nat /\ k - 1 < Len(leaves) /\ (k - 1) + 1 = k
      BY <1>1
  <2>2. GetOr(leaves, k - 1, zero) = leaves[k]
      BY <2>1 DEF GetOr, At
  <2> QED
      BY <2>1, <2>2, RefNodeLeaf
<1> QED
    BY <1>1, <1>2, <1>3 DEF RefRow

\* Reading a row of the reference tree, padded.
LEMMA ReadRow ==
    ASSUME NEW leaves, NEW zero, Len(leaves) \in Nat, NEW h \in Nat
    PROVE  /\ Len(RefRow(leaves, zero, h)) = Ceil(Len(leaves), h)
           /\ \A k \in 1..Ceil(Len(leaves), h) :
                 RefRow(leaves, zero, h)[k] = RefNode(leaves, zero, h, k - 1)
           /\ \A i \in Nat : GetOr(RefRow(leaves, zero, h), i, EmptyNode(zero, h))
                               = RefNode(leaves, zero, h, i)
<1>1. Ceil(Len(leaves), h) \in Nat
    BY CeilStep
<1>2. Len(RefRow(leaves, zero, h)) = Ceil(Len(leaves), h)
    BY <1>1 DEF RefRow
<1>3. \A k \in 1..Ceil(Len(leaves), h) :
         RefRow(leaves, zero, h)[k] = RefNode(leaves, zero, h, k - 1)
    BY DEF RefRow
<1>4. ASSUME NEW i \in Nat
      PROVE GetOr(RefRow(leaves, zero, h), i, EmptyNode(zero, h)) = RefNode(leaves, zero, h, i)
  <2>1. CASE i < Ceil(Len(leaves), h)
    <3>1. i + 1 \in 1..Ceil(Len(leaves), h) /\ (i + 1) - 1 = i
        BY <1>1, <2>1
    <3>2. RefRow(leaves, zero, h)[i + 1] = RefNode(leaves, zero, h, i)
        BY <1>3, <3>1
    <3> QED
        BY <1>2, <2>1, <3>2 DEF GetOr, At
  <2>2. CASE i >= Ceil(Len(leaves), h)
    <3>1. RefNode(leaves, zero, h, i) = EmptyNode(zero, h)
        BY <2>2, RefNodePadding
    <3> QED
        BY <1>1, <1>2, <2>2, <3>1 DEF GetOr
  <2> QED
      BY <1>1, <2>1, <2>2
<1> QED
    BY <1>2, <1>3, <1>4

\* run is the part of a row from a pair on, also when read padded.
RunFrom(run, row, first, e) ==
    /\ Len(run) = Len(row) - 2 * first
    /\ \A i \in Nat : GetOr(run, i, e) = GetOr(row, 2 * first + i, e)

\* The part of a row that `insert_many` rebuilds its parent row from.
LEMMA ReadRun ==
    ASSUME NEW S, NEW row \in Seq(S), NEW e, NEW first \in Nat, 2 * first <= Len(row)
    PROVE  RunFrom(SubSeq(row, 2 * first + 1, Len(row)), row, first, e)
<1> DEFINE run == SubSeq(row, 2 * first + 1, Len(row))
<1>1. Len(row) \in Nat /\ \A i \in 1..Len(row) : row[i] \in S
    BY LenProperties, ElementOfSeq
<1>2. /\ Len(run) = Len(row) - 2 * first
      /\ \A i \in 1..(Len(row) - 2 * first) : run[i] = row[2 * first + i]
  <2>1. /\ 2 * first + 1 \in Int /\ Len(row) \in Int
        /\ \A i \in (2 * first + 1)..Len(row) : row[i] \in S
      BY <1>1
  <2>2. /\ Len(run) = IF 2 * first + 1 <= Len(row)
                      THEN Len(row) - (2 * first + 1) + 1 ELSE 0
        /\ \A i \in 1..(Len(row) - (2 * first + 1) + 1) : run[i] = row[(2 * first + 1) + i - 1]
      BY <2>1, SubSeqProperties
  <2> HIDE DEF run
  <2>3. Len(run) = Len(row) - 2 * first
    <3>1. Len(run) = IF 2 * first + 1 <= Len(row) THEN Len(row) - (2 * first + 1) + 1 ELSE 0
        BY <2>2
    <3>2. Len(row) - (2 * first + 1) + 1 = Len(row) - 2 * first
        BY <1>1
    <3>3. ~(2 * first + 1 <= Len(row)) => Len(row) - 2 * first = 0
        BY <1>1
    <3> QED
        BY <3>1, <3>2, <3>3
  <2>4. ASSUME NEW i \in 1..(Len(row) - 2 * first) PROVE run[i] = row[2 * first + i]
    <3>1. (2 * first + 1) + i - 1 = 2 * first + i /\ i \in 1..(Len(row) - (2 * first + 1) + 1)
        BY <1>1
    <3> QED
        BY <2>2, <3>1
  <2> QED
      BY <2>3, <2>4
<1> HIDE DEF run
<1>3. ASSUME NEW i \in Nat
      PROVE  GetOr(run, i, e) = GetOr(row, 2 * first + i, e)
  <2>1. 2 * first + i < Len(row) <=> i < Len(run)
      BY <1>1, <1>2
  <2>2. i < Len(run) => run[i + 1] = row[(2 * first + i) + 1]
    <3> SUFFICES ASSUME i < Len(run) PROVE run[i + 1] = row[(2 * first + i) + 1]
        OBVIOUS
    <3>1. i + 1 \in 1..(Len(row) - 2 * first) /\ 2 * first + (i + 1) = (2 * first + i) + 1
        BY <1>1, <1>2
    <3>2. run[i + 1] = row[2 * first + (i + 1)]
        BY <1>2, <3>1
    <3> QED
        BY <3>1, <3>2
  <2> QED
      BY <2>1, <2>2 DEF GetOr, At
<1> QED
    BY <1>2, <1>3 DEF run, RunFrom

RefRowFrom(leaves, zero, level, first) ==
    [k \in 1..(Ceil(Len(leaves), level) - first) |->
        RefNode(leaves, zero, level, first + k - 1)]

\* `build_parent_level` of a row of the reference tree is the row above it,
\* whole or from a pair on.
LEMMA ParentRow ==
    ASSUME NEW leaves, NEW zero, Len(leaves) \in Nat, NEW h \in Nat,
           NEW first \in Nat, 2 * first <= Ceil(Len(leaves), h), NEW run,
           RunFrom(run, RefRow(leaves, zero, h), first, EmptyNode(zero, h))
    PROVE  BuildParentLevel(run, EmptyNode(zero, h)) = RefRowFrom(leaves, zero, h + 1, first)
<1> DEFINE c == Ceil(Len(leaves), h)
           d == Ceil(Len(leaves), h + 1)
           row == RefRow(leaves, zero, h)
           e == EmptyNode(zero, h)
<1>1. c \in Nat /\ d = (c + 1) \div 2 /\ 2 * first <= c
    BY CeilStep
<1>2. Len(row) = c /\ \A i \in Nat : GetOr(row, i, e) = RefNode(leaves, zero, h, i)
    BY ReadRow
<1> HIDE DEF c, d, row, e
<1>3. \A i \in Nat : GetOr(run, i, e) = GetOr(row, 2 * first + i, e)
    BY DEF RunFrom, row, e
<1>4. Len(run) = c - 2 * first
    BY <1>2 DEF RunFrom, row, e
<1>5. \A i \in Nat : GetOr(run, i, e) = RefNode(leaves, zero, h, 2 * first + i)
  <2> TAKE i \in Nat
  <2>1. 2 * first + i \in Nat
      OBVIOUS
  <2> QED
      BY <1>2, <1>3, <2>1
<1>6. (Len(run) + 1) \div 2 = d - first
    BY <1>1, <1>4
<1>7. ASSUME NEW k \in 1..(d - first)
      PROVE  Poseidon(run[2 * k - 1], GetOr(run, 2 * k - 1, e))
               = RefNode(leaves, zero, h + 1, first + k - 1)
  <2>1. /\ k \in Nat /\ k >= 1 /\ d \in Nat /\ 2 * k - 2 < Len(run)
        /\ 2 * k - 2 \in Nat /\ 2 * k - 1 \in Nat /\ (2 * k - 2) + 1 = 2 * k - 1
        /\ first + k - 1 \in Nat
        /\ 2 * first + (2 * k - 2) = 2 * (first + k - 1)
        /\ 2 * first + (2 * k - 1) = 2 * (first + k - 1) + 1
      BY <1>1, <1>4
  <2>2. run[2 * k - 1] = GetOr(run, 2 * k - 2, e)
      BY <2>1 DEF GetOr, At
  <2>3. RefNode(leaves, zero, h + 1, first + k - 1)
          = Poseidon(RefNode(leaves, zero, h, 2 * (first + k - 1)),
                     RefNode(leaves, zero, h, 2 * (first + k - 1) + 1))
      BY <2>1, RefNodeParent
  <2>4. /\ GetOr(run, 2 * k - 2, e) = RefNode(leaves, zero, h, 2 * (first + k - 1))
        /\ GetOr(run, 2 * k - 1, e) = RefNode(leaves, zero, h, 2 * (first + k - 1) + 1)
      BY <1>5, <2>1
  <2> QED
      BY <2>2, <2>3, <2>4
<1>8. BuildParentLevel(run, e)
        = [k \in 1..(d - first) |-> Poseidon(run[2 * k - 1], GetOr(run, 2 * k - 1, e))]
    BY <1>6 DEF BuildParentLevel
<1> QED
    BY <1>7, <1>8 DEF d, e, RefRowFrom

\* The tree the rows of which are those of the reference tree; an empty tree
\* keeps its root.
RefTree(depth, zero, leaves) ==
    [depth |-> depth, zero |-> zero,
     nodes |-> [level \in 0..depth |->
                    IF leaves = <<>> /\ level = depth /\ depth # 0
                    THEN <<EmptyNode(zero, depth)>>
                    ELSE RefRow(leaves, zero, level)]]

Width(depth, leaves, level) ==
    IF leaves = <<>> /\ level = depth /\ depth # 0 THEN 1 ELSE Ceil(Len(leaves), level)

\* The leaves of a tree.
LEMMA ReadLeaves ==
    ASSUME NEW S, NEW leaves \in Seq(S), NEW zero, NEW depth \in Nat
    PROVE  RefTree(depth, zero, leaves).nodes[0] = leaves
<1>1. RefTree(depth, zero, leaves).nodes[0] = RefRow(leaves, zero, 0)
    BY DEF RefTree
<1> QED
    BY <1>1, RowOfLeaves

\* What is read in a tree, padded or not, is what the reference tree has there.
LEMMA ReadTree ==
    ASSUME NEW S, NEW leaves \in Seq(S), NEW zero, NEW depth \in Nat, NEW h \in 0..depth
    PROVE  /\ Len(RefTree(depth, zero, leaves).nodes[h]) = Width(depth, leaves, h)
           /\ \A k \in 1..Width(depth, leaves, h) :
                 RefTree(depth, zero, leaves).nodes[h][k] = RefNode(leaves, zero, h, k - 1)
           /\ \A i \in Nat : GetOr(RefTree(depth, zero, leaves).nodes[h], i, EmptyNode(zero, h))
                               = RefNode(leaves, zero, h, i)
<1> DEFINE row == RefTree(depth, zero, leaves).nodes[h]
           w == Width(depth, leaves, h)
           e == EmptyNode(zero, h)
<1>1. Len(leaves) \in Nat /\ Len(<<>>) = 0 /\ h \in Nat
    BY LenProperties
<1>2. row = IF leaves = <<>> /\ h = depth /\ depth # 0 THEN <<e>> ELSE RefRow(leaves, zero, h)
    BY DEF RefTree
<1>3. CASE leaves = <<>> /\ h = depth /\ depth # 0
  <2>1. row = <<e>> /\ w = 1
      BY <1>2, <1>3 DEF Width
  <2>2. Ceil(0, h) = 0
      BY CeilBounds
  <2>3. \A i \in Nat : RefNode(leaves, zero, h, i) = e
      BY <1>1, <1>3, <2>2, RefNodePadding
  <2> HIDE DEF row, w, e
  <2>4. Len(row) = 1 /\ row[1] = e
      BY <2>1
  <2>5. \A i \in Nat : GetOr(row, i, e) = e
      BY <2>4 DEF GetOr, At
  <2> QED
      BY <2>1, <2>3, <2>4, <2>5 DEF row, w, e
<1>4. CASE ~(leaves = <<>> /\ h = depth /\ depth # 0)
  <2>1. row = RefRow(leaves, zero, h) /\ w = Ceil(Len(leaves), h)
      BY <1>2, <1>4 DEF Width
  <2>2. /\ Len(RefRow(leaves, zero, h)) = Ceil(Len(leaves), h)
        /\ \A k \in 1..Ceil(Len(leaves), h) :
              RefRow(leaves, zero, h)[k] = RefNode(leaves, zero, h, k - 1)
        /\ \A i \in Nat : GetOr(RefRow(leaves, zero, h), i, e) = RefNode(leaves, zero, h, i)
      BY <1>1, ReadRow
  <2> HIDE DEF row, w, e
  <2> QED
      BY <2>1, <2>2 DEF row, w, e
<1> QED
    BY <1>3, <1>4

\* A tree is determined by its rows.
LEMMA TreeIsRef ==
    ASSUME NEW S, NEW leaves \in Seq(S), leaves # <<>>, NEW zero, NEW depth \in Nat, NEW rows,
           \A h \in 0..depth : rows[h] = RefRow(leaves, zero, h)
    PROVE  [depth |-> depth, zero |-> zero, nodes |-> WithLeaves(leaves, depth, rows)]
             = RefTree(depth, zero, leaves)
<1>1. RefRow(leaves, zero, 0) = leaves
    BY RowOfLeaves
<1>2. WithLeaves(leaves, depth, rows) = [level \in 0..depth |-> RefRow(leaves, zero, level)]
    BY <1>1 DEF WithLeaves
<1> QED
    BY <1>2 DEF RefTree

\* `Imt::new`.
LEMMA NewIsRef ==
    ASSUME NEW zero, NEW depth \in Nat
    PROVE  ImtNew(depth, zero) = RefTree(depth, zero, <<>>)
<1>1. ASSUME NEW h \in 0..depth PROVE RefRow(<<>>, zero, h) = <<>>
  <2>1. Ceil(0, h) = 0
      BY CeilBounds
  <2>2. Len(<<>>) = 0 /\ 1..0 = {}
      OBVIOUS
  <2>3. RefRow(<<>>, zero, h) = [k \in {} |-> RefNode(<<>>, zero, h, k - 1)]
      BY <2>1, <2>2 DEF RefRow
  <2> QED
      BY <2>3
<1>2. ZeroRootsFrom(depth, zero)[depth] = EmptyNode(zero, depth)
    BY ZeroRoots
<1> QED
    BY <1>1, <1>2 DEF ImtNew, RefTree

\* `build_parent_level` of a whole row.
LEMMA RowAbove ==
    ASSUME NEW leaves, NEW zero, Len(leaves) \in Nat, NEW h \in Nat
    PROVE  BuildParentLevel(RefRow(leaves, zero, h), EmptyNode(zero, h))
             = RefRow(leaves, zero, h + 1)
<1> DEFINE row == RefRow(leaves, zero, h)
           e == EmptyNode(zero, h)
           c == Ceil(Len(leaves), h)
           d == Ceil(Len(leaves), h + 1)
<1>1. Len(row) = c
    BY ReadRow
<1>2. c \in Nat /\ d \in Nat
  <2>1. h + 1 \in Nat
      OBVIOUS
  <2> QED
      BY <2>1, CeilNat
<1>3. ASSUME NEW first \in Nat, first = 0
      PROVE  BuildParentLevel(row, e) = RefRowFrom(leaves, zero, h + 1, first)
  <2>1. RunFrom(row, row, first, e)
    <3> HIDE DEF row, e, c
    <3> QED
        BY <1>1, <1>2, <1>3 DEF RunFrom
  <2>2. 2 * first <= c
    <3> HIDE DEF c
    <3> QED
        BY <1>2, <1>3
  <2> QED
      BY <2>1, <2>2, ParentRow
<1>4. RefRow(leaves, zero, h + 1) = [k \in 1..d |-> RefNode(leaves, zero, h + 1, k - 1)]
    BY DEF RefRow
<1> HIDE DEF row, e, d
<1>5. BuildParentLevel(row, e) = [k \in 1..d |-> RefNode(leaves, zero, h + 1, k - 1)]
  <2>1. 0 \in Nat /\ d - 0 = d /\ \A k \in 1..d : 0 + k - 1 = k - 1
      BY <1>2
  <2>2. BuildParentLevel(row, e) = RefRowFrom(leaves, zero, h + 1, 0)
      BY <1>3, <2>1
  <2> QED
      BY <2>1, <2>2 DEF RefRowFrom, d
<1> QED
    BY <1>4, <1>5 DEF row, e, d

\* The rows are those of the reference tree if the first one is, and each is
\* when the one under it is.
LEMMA RowInduction ==
    ASSUME NEW leaves, NEW zero, NEW depth \in Nat, NEW rows,
           rows[0] = RefRow(leaves, zero, 0),
           \A h \in Nat : h + 1 <= depth /\ rows[h] = RefRow(leaves, zero, h)
                => rows[h + 1] = RefRow(leaves, zero, h + 1)
    PROVE  \A h \in 0..depth : rows[h] = RefRow(leaves, zero, h)
<1> DEFINE S == {h \in Nat : h <= depth => rows[h] = RefRow(leaves, zero, h)}
<1>1. 0 \in S
    OBVIOUS
<1>2. ASSUME NEW h \in Nat, h \in S PROVE h + 1 \in S
  <2>1. h + 1 <= depth => h <= depth
      OBVIOUS
  <2> QED
      BY <1>2, <2>1
<1> HIDE DEF S
<1>3. Nat \subseteq S
    BY <1>1, <1>2, SetInduction
<1> QED
    BY <1>3 DEF S

\* `Imt::from_leaves`.
LEMMA BuiltIsRef ==
    ASSUME NEW S, NEW leaves \in Seq(S), NEW zero, NEW depth \in Nat
    PROVE  ImtFromLeaves(depth, zero, leaves) = RefTree(depth, zero, leaves)
<1>1. CASE leaves = <<>>
    BY <1>1, NewIsRef DEF ImtFromLeaves
<1>2. CASE leaves # <<>>
  <2> DEFINE z == ZeroRootsFrom(depth, zero)
             at(f) == [level \in 0..depth |->
                          IF level = 0 THEN leaves
                          ELSE BuildParentLevel(f[level - 1], z[level - 1])]
             ref == [level \in 0..depth |-> RefRow(leaves, zero, level)]
             rows == CHOOSE f : f = at(f)
  <2>1. ImtFromLeaves(depth, zero, leaves)
          = [depth |-> depth, zero |-> zero, nodes |-> WithLeaves(leaves, depth, rows)]
      BY <1>2 DEF ImtFromLeaves
  <2> HIDE DEF z
  <2>2. RefRow(leaves, zero, 0) = leaves
      BY RowOfLeaves
  <2>3. ASSUME NEW h \in Nat, h + 1 <= depth
        PROVE  BuildParentLevel(RefRow(leaves, zero, h), z[h]) = RefRow(leaves, zero, h + 1)
    <3>1. z[h] = EmptyNode(zero, h)
        BY <2>3, ZeroRoots DEF z
    <3>2. Len(leaves) \in Nat
        BY LenProperties
    <3> HIDE DEF at, ref, rows
    <3> QED
        BY <3>1, <3>2, RowAbove
  <2>4. ref = at(ref)
    <3>1. ASSUME NEW h \in 0..depth
          PROVE  RefRow(leaves, zero, h)
                   = IF h = 0 THEN leaves
                     ELSE BuildParentLevel(RefRow(leaves, zero, h - 1), z[h - 1])
      <4>1. CASE h = 0
          BY <2>2, <4>1
      <4>2. CASE h # 0
        <5>1. PICK k \in Nat : h = k + 1
          <6>1. h - 1 \in Nat /\ h = (h - 1) + 1
              BY <4>2
          <6> QED
              BY <6>1
        <5>2. k = h - 1 /\ k + 1 <= depth
            BY <5>1
        <5> HIDE DEF at, ref, rows
        <5> QED
            BY <2>3, <4>2, <5>1, <5>2
      <4> QED
          BY <4>1, <4>2
    <3>2. \A h \in 0..depth : h # 0 => h - 1 \in 0..depth
        OBVIOUS
    <3> QED
        BY <3>1, <3>2
  <2>5. rows = at(rows)
      BY <2>4
  <2>6. \A h \in 0..depth : rows[h] = IF h = 0 THEN leaves
                                      ELSE BuildParentLevel(rows[h - 1], z[h - 1])
    <3> HIDE DEF rows
    <3> QED
        BY <2>5
  <2> HIDE DEF rows
  <2> HIDE DEF at, ref
  <2>7. rows[0] = RefRow(leaves, zero, 0)
      BY <2>2, <2>6
  <2>8. ASSUME NEW h \in Nat, h + 1 <= depth, rows[h] = RefRow(leaves, zero, h)
        PROVE  rows[h + 1] = RefRow(leaves, zero, h + 1)
    <3>1. h + 1 \in 0..depth /\ h + 1 # 0 /\ (h + 1) - 1 = h
        BY <2>8
    <3> QED
        BY <2>3, <2>6, <2>8, <3>1
  <2>9. \A h \in 0..depth : rows[h] = RefRow(leaves, zero, h)
      BY <2>7, <2>8, RowInduction
  <2> QED
      BY <1>2, <2>1, <2>9, TreeIsRef
<1> QED
    BY <1>1, <1>2

\* Replacing a leaf, or placing one after the last.
LEMMA PlaceLeaf ==
    ASSUME NEW S, NEW leaves \in Seq(S), NEW zero, NEW leaf \in S,
           NEW index \in Nat, index <= Len(leaves)
    PROVE  LET new == Place(leaves, index, zero, leaf)
               n == Len(leaves)
           IN  /\ new \in Seq(S)
               /\ Len(new) = IF index < n THEN n ELSE n + 1
               /\ \A j \in Nat : GetOr(new, j, zero) = IF j = index THEN leaf
                                                       ELSE GetOr(leaves, j, zero)
<1> DEFINE n == Len(leaves)
           m == IF index < n THEN n ELSE index + 1
           new == Place(leaves, index, zero, leaf)
<1>1. n \in Nat /\ \A i \in 1..n : leaves[i] \in S
    BY LenProperties, ElementOfSeq
<1>2. m \in Nat /\ n <= m /\ index < m /\ m = (IF index < n THEN n ELSE n + 1)
    BY <1>1
<1>3. \A k \in 1..m : k # index + 1 => k <= n /\ GetOr(leaves, k - 1, zero) = leaves[k]
    BY <1>1 DEF GetOr, At
<1>4. new = [k \in 1..m |-> IF k = index + 1 THEN leaf ELSE GetOr(leaves, k - 1, zero)]
    BY DEF Place
<1> HIDE DEF m, new
<1>5. \A k \in 1..m : new[k] \in S
    BY <1>1, <1>3, <1>4
<1>6. new \in Seq(S) /\ Len(new) = m
  <2>1. new \in [1..m -> S]
      BY <1>4, <1>5
  <2>2. new \in Seq(S)
      BY <1>2, <2>1, SeqDef
  <2> QED
      BY <1>2, <1>4, <2>2
<1>7. ASSUME NEW j \in Nat
      PROVE GetOr(new, j, zero) = IF j = index THEN leaf ELSE GetOr(leaves, j, zero)
  <2>1. CASE j < m
    <3>1. j + 1 \in 1..m /\ (j + 1 = index + 1 <=> j = index) /\ (j + 1) - 1 = j
        BY <1>2, <2>1
    <3>2. new[j + 1] = IF j = index THEN leaf ELSE GetOr(leaves, j, zero)
        BY <1>4, <3>1
    <3> QED
        BY <1>6, <2>1, <3>2 DEF GetOr, At
  <2>2. CASE j >= m
    <3>1. j # index /\ ~(j < n) /\ ~(j < m)
        BY <1>1, <1>2, <2>2
    <3> QED
        BY <1>6, <3>1 DEF GetOr
  <2> QED
      BY <1>2, <2>1, <2>2
<1> QED
    BY <1>2, <1>6, <1>7 DEF new

\* The same, without the leaves.
LEMMA PlaceLeafLength ==
    ASSUME NEW S, NEW leaves \in Seq(S), NEW zero, NEW leaf \in S,
           NEW index \in Nat, index <= Len(leaves)
    PROVE  /\ Place(leaves, index, zero, leaf) \in Seq(S)
           /\ Len(Place(leaves, index, zero, leaf))
                = IF index < Len(leaves) THEN Len(leaves) ELSE Len(leaves) + 1
    BY PlaceLeaf

\* A changed leaf changes no node beside its path.
LEMMA PlaceLocal ==
    ASSUME NEW S, NEW leaves \in Seq(S), NEW zero, NEW leaf \in S,
           NEW index \in Nat, index <= Len(leaves), NEW h \in Nat,
           NEW i \in Nat, i # Above(index, h)
    PROVE  RefNode(leaves, zero, h, i) = RefNode(Place(leaves, index, zero, leaf), zero, h, i)
<1> DEFINE new == Place(leaves, index, zero, leaf)
<1>1. \A j \in Nat : j # index => GetOr(new, j, zero) = GetOr(leaves, j, zero)
    BY PlaceLeaf
<1> HIDE DEF new
<1>2. \A j \in Nat : Above(j, h) = i => GetOr(leaves, j, zero) = GetOr(new, j, zero)
    BY <1>1
<1>3. RefNode(leaves, zero, h, i) = RefNode(new, zero, h, i)
    BY <1>2, RefNodeLocal
<1> QED
    BY <1>3 DEF new

\* Re-hashing the node above a changed leaf from the changed row under it
\* gives the changed row.
LEMMA RehashedRowIsRef ==
    ASSUME NEW S, NEW leaves \in Seq(S), NEW zero, NEW depth \in Nat, NEW leaf \in S,
           NEW index \in Nat, index <= Len(leaves), NEW h \in Nat, h + 1 <= depth
    PROVE  LET new == Place(leaves, index, zero, leaf)
           IN  RehashedRow(RefTree(depth, zero, leaves), index, h + 1, RefRow(new, zero, h))
                 = RefRow(new, zero, h + 1)
<1> DEFINE n == Len(leaves)
           new == Place(leaves, index, zero, leaf)
           tree == RefTree(depth, zero, leaves)
           z == ZeroRootsFrom(depth, zero)
           below == RefRow(new, zero, h)
           p == Above(index, h + 1)
           row == tree.nodes[h + 1]
           w == Width(depth, leaves, h + 1)
           node == Poseidon(GetOr(below, 2 * p, z[h]), GetOr(below, 2 * p + 1, z[h]))
<1>1. n \in Nat /\ h + 1 \in Nat /\ h + 1 \in 0..depth /\ h \in 0..depth /\ (h + 1) - 1 = h
    BY LenProperties
<1>2. /\ new \in Seq(S) /\ Len(new) \in Nat
      /\ Len(new) = IF index < n THEN n ELSE n + 1
      /\ \A j \in Nat : j # index => GetOr(new, j, zero) = GetOr(leaves, j, zero)
    BY PlaceLeaf, LenProperties
<1>3. z[h] = EmptyNode(zero, h) /\ z[h + 1] = EmptyNode(zero, h + 1)
    BY <1>1, ZeroRoots
<1>4. p \in Nat
    BY <1>1, AboveStep
<1>5. node = RefNode(new, zero, h + 1, p)
  <2> DEFINE e == EmptyNode(zero, h)
  <2>1. /\ GetOr(below, 2 * p, e) = RefNode(new, zero, h, 2 * p)
        /\ GetOr(below, 2 * p + 1, e) = RefNode(new, zero, h, 2 * p + 1)
    <3>1. \A i \in Nat : GetOr(below, i, e) = RefNode(new, zero, h, i)
        BY <1>2, ReadRow
    <3> HIDE DEF below, e, p
    <3>2. 2 * p \in Nat /\ 2 * p + 1 \in Nat
        BY <1>4
    <3> QED
        BY <3>1, <3>2
  <2>2. RefNode(new, zero, h + 1, p)
          = Poseidon(RefNode(new, zero, h, 2 * p), RefNode(new, zero, h, 2 * p + 1))
    <3> HIDE DEF p, new
    <3> QED
        BY <1>4, RefNodeParent
  <2>3. z[h] = e
      BY <1>3
  <2> HIDE DEF below, e, p, new, z
  <2> QED
      BY <2>1, <2>2, <2>3
<1>6. /\ Len(row) = w
      /\ \A i \in Nat : GetOr(row, i, z[h + 1]) = RefNode(leaves, zero, h + 1, i)
  <2> DEFINE e == EmptyNode(zero, h + 1)
  <2>1. Len(row) = w /\ \A i \in Nat : GetOr(row, i, e) = RefNode(leaves, zero, h + 1, i)
      BY <1>1, ReadTree
  <2>2. z[h + 1] = e
      BY <1>3
  <2> HIDE DEF row, w, e, z
  <2> QED
      BY <2>1, <2>2
<1>7. \A i \in Nat : i # p => RefNode(leaves, zero, h + 1, i) = RefNode(new, zero, h + 1, i)
    BY <1>1, PlaceLocal
<1>8. Ceil(Len(new), h + 1) = IF p < w THEN w ELSE p + 1
  <2> DEFINE c == Ceil(n, h + 1)
  <2>1. CASE index < n
    <3>1. p < c
        BY <1>1, <2>1, CeilAbove
    <3>2. w = c
      <4>1. leaves # <<>>
          BY <2>1
      <4> QED
          BY <4>1 DEF Width
    <3>3. Len(new) = n
        BY <1>2, <2>1
    <3> HIDE DEF new, p, w
    <3> QED
        BY <3>1, <3>2, <3>3
  <2>2. CASE index = n
    <3>1. c \in {p, p + 1} /\ Ceil(n + 1, h + 1) = p + 1
        BY <1>1, <2>2, CeilAbove
    <3>2. Len(new) = n + 1
        BY <1>1, <1>2, <2>2
    <3>3. CASE w = c
      <4> HIDE DEF new, p, w, c
      <4> QED
          BY <1>4, <3>1, <3>2, <3>3
    <3>4. CASE w # c
      <4>1. leaves = <<>> /\ w = 1
          BY <3>4 DEF Width
      <4>2. n = 0
          BY <4>1
      <4>3. c = 0
          BY <1>1, <4>2, CeilBounds
      <4> HIDE DEF new, p, w, c
      <4> QED
          BY <1>4, <3>1, <3>2, <4>1, <4>3
    <3> QED
        BY <3>3, <3>4
  <2> QED
      BY <1>1, <2>1, <2>2
<1>9. RehashedRow(tree, index, h + 1, below) = Place(row, p, z[h + 1], node)
  <2>1. tree.depth = depth /\ tree.zero = zero
      BY DEF RefTree
  <2> QED
      BY <1>1, <2>1 DEF RehashedRow, Above
<1> HIDE DEF new, tree, z, below, p, row, w, node
<1>10. Place(row, p, z[h + 1], node)
         = [k \in 1..Ceil(Len(new), h + 1) |-> RefNode(new, zero, h + 1, k - 1)]
  <2> DEFINE c == Ceil(Len(new), h + 1)
  <2>1. Place(row, p, z[h + 1], node)
          = [k \in 1..c |-> IF k = p + 1 THEN node ELSE GetOr(row, k - 1, z[h + 1])]
      BY <1>6, <1>8 DEF Place
  <2> HIDE DEF c
  <2>2. ASSUME NEW k \in 1..c
        PROVE  (IF k = p + 1 THEN node ELSE GetOr(row, k - 1, z[h + 1]))
                 = RefNode(new, zero, h + 1, k - 1)
    <3>1. CASE k = p + 1
      <4>1. k - 1 = p
          BY <1>4, <3>1
      <4> QED
          BY <1>5, <3>1, <4>1
    <3>2. CASE k # p + 1
      <4>1. k - 1 \in Nat /\ k - 1 # p
          BY <1>4, <3>2
      <4> QED
          BY <1>6, <1>7, <3>2, <4>1
    <3> QED
        BY <3>1, <3>2
  <2> QED
      BY <2>1, <2>2 DEF c
<1> QED
    BY <1>9, <1>10 DEF RefRow, new, tree, below

\* `Imt::insert` and `Imt::update`: the re-hashed path leaves the tree of the
\* changed leaves.
LEMMA RehashIsRef ==
    ASSUME NEW S, NEW leaves \in Seq(S), NEW zero, NEW depth \in Nat, NEW leaf \in S,
           NEW index \in Nat, index <= Len(leaves)
    PROVE  RehashPath(RefTree(depth, zero, leaves), index, leaf)
             = RefTree(depth, zero, Place(leaves, index, zero, leaf))
<1> DEFINE new == Place(leaves, index, zero, leaf)
           tree == RefTree(depth, zero, leaves)
           at(f) == [level \in 0..depth |->
                        IF level = 0 THEN new
                        ELSE RehashedRow(tree, index, level, f[level - 1])]
           ref == [level \in 0..depth |-> RefRow(new, zero, level)]
           rows == CHOOSE f : f = at(f)
<1>1. RehashPath(tree, index, leaf)
        = [depth |-> depth, zero |-> zero, nodes |-> WithLeaves(new, depth, rows)]
  <2>1. /\ tree.depth = depth /\ tree.zero = zero /\ tree.nodes[0] = leaves
        /\ tree = [depth |-> depth, zero |-> zero, nodes |-> tree.nodes]
    <3>1. tree.nodes[0] = leaves
        BY ReadLeaves
    <3> QED
        BY <3>1 DEF RefTree
  <2> HIDE DEF tree
  <2>2. RehashPath(tree, index, leaf) = [tree EXCEPT !.nodes = WithLeaves(new, depth, rows)]
      BY <2>1 DEF RehashPath
  <2> QED
      BY <2>1, <2>2
<1>2. new \in Seq(S) /\ new # <<>>
  <2>1. new \in Seq(S) /\ Len(new) = IF index < Len(leaves) THEN Len(leaves) ELSE Len(leaves) + 1
      BY PlaceLeafLength
  <2>2. Len(leaves) \in Nat
      BY LenProperties
  <2>3. Len(new) # 0
      BY <2>1, <2>2
  <2> QED
      BY <2>1, <2>3
<1>3. RefRow(new, zero, 0) = new
    BY <1>2, RowOfLeaves
<1>4. ASSUME NEW h \in Nat, h + 1 <= depth
      PROVE  RehashedRow(tree, index, h + 1, RefRow(new, zero, h)) = RefRow(new, zero, h + 1)
    BY <1>4, RehashedRowIsRef
<1> HIDE DEF tree, new
<1>5. ref = at(ref)
  <2>1. ASSUME NEW h \in 0..depth
        PROVE  RefRow(new, zero, h)
                 = IF h = 0 THEN new
                   ELSE RehashedRow(tree, index, h, RefRow(new, zero, h - 1))
    <3>1. CASE h = 0
        BY <1>3, <3>1
    <3>2. CASE h # 0
      <4>1. PICK k \in Nat : h = k + 1
        <5>1. h - 1 \in Nat /\ h = (h - 1) + 1
            BY <3>2
        <5> QED
            BY <5>1
      <4>2. k = h - 1 /\ k + 1 <= depth
          BY <4>1
      <4> HIDE DEF at, ref, rows
      <4> QED
          BY <1>4, <3>2, <4>1, <4>2
    <3> QED
        BY <3>1, <3>2
  <2>2. \A h \in 0..depth : h # 0 => h - 1 \in 0..depth
      OBVIOUS
  <2> QED
      BY <2>1, <2>2
<1>6. rows = at(rows)
    BY <1>5
<1> HIDE DEF rows
<1>7. \A h \in 0..depth : rows[h] = IF h = 0 THEN new
                                    ELSE RehashedRow(tree, index, h, rows[h - 1])
    BY <1>6
<1> HIDE DEF at, ref
<1>8. rows[0] = RefRow(new, zero, 0)
    BY <1>3, <1>7
<1>9. ASSUME NEW h \in Nat, h + 1 <= depth, rows[h] = RefRow(new, zero, h)
      PROVE  rows[h + 1] = RefRow(new, zero, h + 1)
  <2>1. h + 1 \in 0..depth /\ h + 1 # 0 /\ (h + 1) - 1 = h
      BY <1>9
  <2> QED
      BY <1>4, <1>7, <1>9, <2>1
<1>10. \A h \in 0..depth : rows[h] = RefRow(new, zero, h)
    BY <1>8, <1>9, RowInduction
<1>11. RehashPath(tree, index, leaf) = RefTree(depth, zero, new)
    BY <1>1, <1>2, <1>10, TreeIsRef
<1> QED
    BY <1>11 DEF tree, new

\* Two rows one after the other.
IsRow(f, m) == f = [k \in 1..m |-> f[k]]
Continues(w, m, n, g) == \A k \in 1..n : w[m + k] = g[k]

\* Two rows, one after the other, are a row that has the elements of both.
LEMMA Joined ==
    ASSUME NEW m \in Nat, NEW n \in Nat, NEW f, NEW g, NEW w,
           IsRow(f, m), IsRow(g, n), IsRow(w, m + n),
           \A k \in 1..m : w[k] = f[k], Continues(w, m, n, g)
    PROVE  f \o g = w
<1> DEFINE S == {f[k] : k \in 1..m} \cup {g[k] : k \in 1..n}
<1>1. f \in [1..m -> S] /\ g \in [1..n -> S]
    BY DEF IsRow
<1> HIDE DEF S
<1>2. f \in Seq(S) /\ g \in Seq(S)
    BY <1>1, SeqDef
<1>3. Len(f) = m /\ Len(g) = n
    BY <1>1, <1>2, LenProperties
<1> DEFINE s == f \o g
<1>4. /\ s \in Seq(S) /\ Len(s) = m + n
      /\ \A i \in 1..(m + n) : s[i] = IF i <= m THEN f[i] ELSE g[i - m]
    BY <1>2, <1>3, ConcatProperties
<1> HIDE DEF s
<1>5. s \in [1..(m + n) -> S]
    BY <1>4, LenProperties
<1>6. ASSUME NEW k \in 1..(m + n) PROVE s[k] = w[k]
  <2>1. CASE k <= m
      BY <1>4, <2>1
  <2>2. CASE k > m
    <3>1. k - m \in 1..n /\ m + (k - m) = k /\ ~(k <= m)
        BY <2>2
    <3>2. w[m + (k - m)] = g[k - m]
        BY <3>1 DEF Continues
    <3> QED
        BY <1>4, <3>1, <3>2
  <2> QED
      BY <2>1, <2>2
<1>7. s = w
    BY <1>5, <1>6 DEF IsRow
<1> QED
    BY <1>7 DEF s

\* The first part of a row.
LEMMA FirstPart ==
    ASSUME NEW row, NEW m \in Nat
    PROVE  SubSeq(row, 1, m) = [k \in 1..m |-> row[k]]
<1> DEFINE T == {row[k] : k \in 1..m}
           s == SubSeq(row, 1, m)
<1>1. 1 \in Int /\ m \in Int /\ \A k \in 1..m : row[k] \in T
    OBVIOUS
<1> HIDE DEF T
<1>2. /\ s \in Seq(T)
      /\ Len(s) = IF 1 <= m THEN m - 1 + 1 ELSE 0
      /\ \A k \in 1..(m - 1 + 1) : s[k] = row[1 + k - 1]
    BY <1>1, SubSeqProperties
<1> HIDE DEF s
<1>3. Len(s) = m /\ \A k \in 1..m : s[k] = row[k]
  <2>1. Len(s) = m
      BY <1>2
  <2>2. ASSUME NEW k \in 1..m PROVE s[k] = row[k]
    <3>1. k \in 1..(m - 1 + 1) /\ 1 + k - 1 = k
        OBVIOUS
    <3> QED
        BY <1>2, <3>1
  <2> QED
      BY <2>1, <2>2
<1>4. s \in [1..m -> T]
    BY <1>2, <1>3, LenProperties
<1> QED
    BY <1>3, <1>4 DEF s

\* The row of a tree as a sequence.
LEMMA RowIsSequence ==
    ASSUME NEW leaves, NEW zero, Len(leaves) \in Nat, NEW h \in Nat
    PROVE  \E T : RefRow(leaves, zero, h) \in Seq(T)
<1> DEFINE c == Ceil(Len(leaves), h)
           row == RefRow(leaves, zero, h)
           T == {row[k] : k \in 1..c}
<1>1. c \in Nat
    BY CeilNat
<1>2. row \in [1..c -> T]
    BY DEF RefRow
<1> HIDE DEF c, row, T
<1>3. row \in Seq(T)
    BY <1>1, <1>2, SeqDef
<1> QED
    BY <1>3 DEF row

\* `Imt::insert_many` keeps the nodes left of the first changed one and
\* rebuilds the run from there.
LEMMA ExtendedRowIsRef ==
    ASSUME NEW S, NEW leaves \in Seq(S), NEW zero, NEW depth \in Nat,
           NEW more \in Seq(S), more # <<>>, NEW h \in Nat, h + 1 <= depth
    PROVE  ExtendedRow(RefTree(depth, zero, leaves), h + 1, RefRow(leaves \o more, zero, h))
             = RefRow(leaves \o more, zero, h + 1)
<1> DEFINE n == Len(leaves)
           new == leaves \o more
           tree == RefTree(depth, zero, leaves)
           z == ZeroRootsFrom(depth, zero)
           e == EmptyNode(zero, h)
           below == RefRow(new, zero, h)
           first == Above(n, h + 1)
           row == tree.nodes[h + 1]
           w == Width(depth, leaves, h + 1)
           run == SubSeq(below, 2 * first + 1, Len(below))
           b == Ceil(Len(new), h)
           c == Ceil(Len(new), h + 1)
<1>1. /\ n \in Nat /\ Len(new) \in Nat /\ n + 1 <= Len(new)
      /\ h + 1 \in Nat /\ h + 1 \in 0..depth /\ h \in 0..depth /\ (h + 1) - 1 = h
  <2>1. Len(more) \in Nat \ {0} /\ n \in Nat
      BY EmptySeq, LenProperties
  <2>2. Len(new) = n + Len(more)
      BY ConcatProperties
  <2> HIDE DEF new, n
  <2> QED
      BY <2>1, <2>2
<1>2. z[h] = e
    BY <1>1, ZeroRoots
<1>3. ExtendedRow(tree, h + 1, below) = SubSeq(row, 1, first) \o BuildParentLevel(run, e)
  <2>1. /\ tree.depth = depth /\ tree.zero = zero
        /\ ImtLeafCount(tree) = n
    <3>1. tree.nodes[0] = leaves
        BY ReadLeaves
    <3> QED
        BY <3>1 DEF RefTree, ImtLeafCount, ImtLeaves
  <2> HIDE DEF tree, below, e
  <2> QED
      BY <1>1, <1>2, <2>1 DEF ExtendedRow, Above
<1>4. /\ first \in Nat /\ w \in Nat /\ first <= w
      /\ \A j \in Nat : Above(j, h + 1) < first => j < n
  <2>1. first \in Nat
      BY <1>1, AboveStep
  <2>2. Ceil(n, h + 1) \in {first, first + 1}
      BY <1>1, CeilAbove
  <2>3. w = Ceil(n, h + 1) \/ (w = 1 /\ n = 0 /\ Ceil(n, h + 1) = 0)
    <3>1. leaves = <<>> => n = 0
        OBVIOUS
    <3>2. n = 0 => Ceil(n, h + 1) = 0
        BY <1>1, CeilBounds
    <3> QED
        BY <3>1, <3>2 DEF Width
  <2>4. \A j \in Nat : Above(j, h + 1) < first => j < n
      BY <1>1, CeilAbove
  <2> HIDE DEF first, w
  <2> QED
      BY <2>1, <2>2, <2>3, <2>4
<1>5. b \in Nat /\ c = (b + 1) \div 2 /\ 2 * first <= b
  <2>1. b \in Nat /\ c = (b + 1) \div 2
      BY <1>1, CeilStep
  <2>2. Ceil(n + 1, h) = Above(n, h) + 1
      BY <1>1, CeilAbove
  <2>3. first = Above(n, h) \div 2 /\ Above(n, h) \in Nat
      BY <1>1, AboveStep
  <2>4. Ceil(n + 1, h) <= b
    <3>1. n + 1 \in Nat
        BY <1>1
    <3> HIDE DEF new
    <3> QED
        BY <1>1, <3>1, CeilBounds
  <2> HIDE DEF first, b, c
  <2> QED
      BY <2>1, <2>2, <2>3, <2>4
<1>6. SubSeq(row, 1, first) = [k \in 1..first |-> RefNode(new, zero, h + 1, k - 1)]
  <2>1. \A k \in 1..w : row[k] = RefNode(leaves, zero, h + 1, k - 1)
      BY <1>1, ReadTree
  <2> HIDE DEF row, w, first
  <2>2. ASSUME NEW k \in 1..first
        PROVE  row[k] = RefNode(new, zero, h + 1, k - 1)
    <3> DEFINE i == k - 1
    <3>1. i \in Nat /\ i < first /\ k \in 1..w
        BY <1>4
    <3>2. row[k] = RefNode(leaves, zero, h + 1, i)
        BY <2>1, <3>1
    <3> HIDE DEF i
    <3>3. ASSUME NEW j \in Nat, Above(j, h + 1) = i
          PROVE  GetOr(leaves, j, zero) = GetOr(new, j, zero)
      <4>1. j < n
          BY <1>4, <3>1, <3>3
      <4>2. j + 1 \in 1..n /\ j < Len(new)
          BY <1>1, <4>1
      <4>3. new[j + 1] = leaves[j + 1]
        <5>1. /\ Len(new) = n + Len(more) /\ Len(more) \in Nat
              /\ \A q \in 1..(Len(leaves) + Len(more)) :
                    new[q] = IF q <= Len(leaves) THEN leaves[q] ELSE more[q - Len(leaves)]
            BY ConcatProperties, LenProperties
        <5> HIDE DEF new
        <5> QED
            BY <1>1, <4>2, <5>1
      <4> HIDE DEF new
      <4> QED
          BY <4>1, <4>2, <4>3 DEF GetOr, At
    <3> HIDE DEF new
    <3>4. RefNode(leaves, zero, h + 1, i) = RefNode(new, zero, h + 1, i)
        BY <1>1, <3>1, <3>3, RefNodeLocal
    <3> QED
        BY <3>2, <3>4 DEF i
  <2>3. SubSeq(row, 1, first) = [k \in 1..first |-> row[k]]
      BY <1>4, FirstPart
  <2> HIDE DEF first, new
  <2> QED
      BY <2>2, <2>3
<1>7. BuildParentLevel(run, e) = RefRowFrom(new, zero, h + 1, first)
  <2>1. PICK T : below \in Seq(T)
      BY <1>1, RowIsSequence
  <2>2. Len(below) = b
      BY <1>1, ReadRow
  <2>3. RunFrom(run, below, first, e)
    <3> HIDE DEF below, first, b
    <3> QED
        BY <1>4, <1>5, <2>1, <2>2, ReadRun
  <2>4. 2 * first <= Ceil(Len(new), h)
      BY <1>5
  <2> HIDE DEF first, run, new
  <2> QED
      BY <1>1, <1>4, <2>3, <2>4, ParentRow DEF below, e
<1> HIDE DEF tree, below, e, row, run, w
<1>8. SubSeq(row, 1, first) \o RefRowFrom(new, zero, h + 1, first) = RefRow(new, zero, h + 1)
  <2> DEFINE f == SubSeq(row, 1, first)
             g == RefRowFrom(new, zero, h + 1, first)
             m == c - first
  <2>1. m \in Nat /\ first + m = c
    <3> HIDE DEF first, c, b
    <3> QED
        BY <1>4, <1>5
  <2>2. f = [k \in 1..first |-> RefNode(new, zero, h + 1, k - 1)]
      BY <1>6
  <2>3. g = [k \in 1..m |-> RefNode(new, zero, h + 1, first + k - 1)]
      BY DEF RefRowFrom
  <2>4. RefRow(new, zero, h + 1) = [k \in 1..(first + m) |-> RefNode(new, zero, h + 1, k - 1)]
      BY <2>1 DEF RefRow
  <2> HIDE DEF f, g, m, first, new
  <2> DEFINE v == RefRow(new, zero, h + 1)
             at(k) == RefNode(new, zero, h + 1, k - 1)
  <2>9. v = [k \in 1..(first + m) |-> at(k)]
      BY <2>4
  <2>10. ASSUME NEW k \in 1..m PROVE g[k] = at(first + k)
    <3>1. first + k - 1 = (first + k) - 1 /\ first + k \in Nat
        BY <1>4, <2>1
    <3> QED
        BY <2>3, <3>1
  <2> HIDE DEF v
  <2>5. IsRow(f, first) /\ IsRow(g, m) /\ IsRow(v, first + m)
      BY <2>2, <2>3, <2>9 DEF IsRow
  <2>6. \A k \in 1..first : v[k] = f[k]
      BY <1>4, <2>1, <2>2, <2>9
  <2> HIDE DEF at
  <2>7. ASSUME NEW k \in 1..m PROVE v[first + k] = g[k]
    <3>1. first + k \in 1..(first + m)
        BY <1>4, <2>1
    <3> QED
        BY <2>9, <2>10, <3>1
  <2>8. f \o g = v
      BY <1>4, <2>1, <2>5, <2>6, <2>7, Joined DEF Continues
  <2> QED
      BY <2>8 DEF f, g, v
<1> QED
    BY <1>3, <1>7, <1>8 DEF tree, below

\* `Imt::insert_many`.
LEMMA InsertManyIsRef ==
    ASSUME NEW S, NEW leaves \in Seq(S), NEW zero, NEW depth \in Nat, NEW more \in Seq(S)
    PROVE  ImtInsertMany(RefTree(depth, zero, leaves), more)
             = RefTree(depth, zero, leaves \o more)
<1>1. CASE more = <<>>
  <2>1. leaves \o more = leaves
      BY <1>1, ConcatEmptySeq
  <2> QED
      BY <1>1, <2>1 DEF ImtInsertMany
<1>2. CASE more # <<>>
  <2> DEFINE new == leaves \o more
             tree == RefTree(depth, zero, leaves)
             at(f) == [level \in 0..depth |->
                          IF level = 0 THEN new ELSE ExtendedRow(tree, level, f[level - 1])]
             ref == [level \in 0..depth |-> RefRow(new, zero, level)]
             rows == CHOOSE f : f = at(f)
  <2>1. ImtInsertMany(tree, more)
          = [depth |-> depth, zero |-> zero, nodes |-> WithLeaves(new, depth, rows)]
    <3>1. /\ tree.depth = depth /\ tree.zero = zero /\ tree.nodes[0] = leaves
          /\ tree = [depth |-> depth, zero |-> zero, nodes |-> tree.nodes]
      <4>1. tree.nodes[0] = leaves
          BY ReadLeaves
      <4> QED
          BY <4>1 DEF RefTree
    <3> HIDE DEF tree
    <3>2. ImtInsertMany(tree, more) = [tree EXCEPT !.nodes = WithLeaves(new, depth, rows)]
        BY <1>2, <3>1 DEF ImtInsertMany
    <3> QED
        BY <3>1, <3>2
  <2>2. new \in Seq(S) /\ new # <<>>
      BY <1>2, ConcatProperties, ConcatEqualIffEmpty
  <2>3. RefRow(new, zero, 0) = new
      BY <2>2, RowOfLeaves
  <2>4. ASSUME NEW h \in Nat, h + 1 <= depth
        PROVE  ExtendedRow(tree, h + 1, RefRow(new, zero, h)) = RefRow(new, zero, h + 1)
      BY <1>2, <2>4, ExtendedRowIsRef
  <2> HIDE DEF tree, new
  <2>5. ref = at(ref)
    <3>1. ASSUME NEW h \in 0..depth
          PROVE  RefRow(new, zero, h)
                   = IF h = 0 THEN new
                     ELSE ExtendedRow(tree, h, RefRow(new, zero, h - 1))
      <4>1. CASE h = 0
          BY <2>3, <4>1
      <4>2. CASE h # 0
        <5>1. PICK k \in Nat : h = k + 1
          <6>1. h - 1 \in Nat /\ h = (h - 1) + 1
              BY <4>2
          <6> QED
              BY <6>1
        <5>2. k = h - 1 /\ k + 1 <= depth
            BY <5>1
        <5> HIDE DEF at, ref, rows
        <5> QED
            BY <2>4, <4>2, <5>1, <5>2
      <4> QED
          BY <4>1, <4>2
    <3>2. \A h \in 0..depth : h # 0 => h - 1 \in 0..depth
        OBVIOUS
    <3> QED
        BY <3>1, <3>2
  <2>6. rows = at(rows)
      BY <2>5
  <2> HIDE DEF rows
  <2>7. \A h \in 0..depth : rows[h] = IF h = 0 THEN new
                                      ELSE ExtendedRow(tree, h, rows[h - 1])
      BY <2>6
  <2> HIDE DEF at, ref
  <2>8. rows[0] = RefRow(new, zero, 0)
      BY <2>3, <2>7
  <2>9. ASSUME NEW h \in Nat, h + 1 <= depth, rows[h] = RefRow(new, zero, h)
        PROVE  rows[h + 1] = RefRow(new, zero, h + 1)
    <3>1. h + 1 \in 0..depth /\ h + 1 # 0 /\ (h + 1) - 1 = h
        BY <2>9
    <3> QED
        BY <2>4, <2>7, <2>9, <3>1
  <2>10. \A h \in 0..depth : rows[h] = RefRow(new, zero, h)
      BY <2>8, <2>9, RowInduction
  <2>11. ImtInsertMany(tree, more) = RefTree(depth, zero, new)
      BY <2>1, <2>2, <2>10, TreeIsRef
  <2> QED
      BY <2>11 DEF tree, new
<1> QED
    BY <1>1, <1>2

\* The root of a tree is the node at the top of the reference tree.
LEMMA RootIsRef ==
    ASSUME NEW S, NEW leaves \in Seq(S), NEW zero, NEW depth \in Nat
    PROVE  ImtRoot(RefTree(depth, zero, leaves)) = RefRoot(depth, zero, leaves)
<1> DEFINE tree == RefTree(depth, zero, leaves)
           row == tree.nodes[depth]
<1> SUFFICES ImtRoot(tree) = RefRoot(depth, zero, leaves)
    OBVIOUS
<1>1. tree.depth = depth /\ tree.zero = zero /\ tree.nodes[0] = leaves
  <2>1. tree.nodes[0] = leaves
      BY ReadLeaves
  <2> QED
      BY <2>1 DEF RefTree
<1>2. CASE depth = 0 /\ leaves = <<>>
  <2>1. GetOr(leaves, 0, zero) = zero
      BY <1>2 DEF GetOr
  <2>2. RefNode(leaves, zero, 0, 0) = zero
      BY <2>1, RefNodeLeaf
  <2> HIDE DEF tree
  <2> QED
      BY <1>1, <1>2, <2>2 DEF ImtRoot, RefRoot
<1>3. CASE ~(depth = 0 /\ leaves = <<>>)
  <2>1. depth \in 0..depth
      OBVIOUS
  <2>2. Width(depth, leaves, depth) \in Nat /\ Width(depth, leaves, depth) >= 1
    <3>1. CASE leaves = <<>>
        BY <1>3, <3>1 DEF Width
    <3>2. CASE leaves # <<>>
      <4>1. Len(leaves) \in Nat /\ Len(leaves) > 0
          BY <3>2, EmptySeq
      <4>2. Ceil(Len(leaves), depth) \in Nat /\ Ceil(Len(leaves), depth) > 0
        <5> DEFINE n == Len(leaves)
        <5>1. n \in Nat /\ n > 0 /\ n <= n
            BY <4>1
        <5> HIDE DEF n
        <5>2. Ceil(n, depth) \in Nat /\ Ceil(n, depth) > 0
            BY <5>1, CeilNat, CeilBounds
        <5> QED
            BY <5>2 DEF n
      <4> QED
          BY <3>2, <4>2 DEF Width
    <3> QED
        BY <3>1, <3>2
  <2>3. \A k \in 1..Width(depth, leaves, depth) : row[k] = RefNode(leaves, zero, depth, k - 1)
      BY <2>1, ReadTree
  <2>4. row[0 + 1] = RefNode(leaves, zero, depth, 0)
      BY <2>2, <2>3
  <2> HIDE DEF tree
  <2> QED
      BY <1>1, <1>3, <2>4 DEF ImtRoot, RefRoot, At
<1> QED
    BY <1>2, <1>3
-----------------------------------------------------------------------------
\* The other child of the parent of node i.
Sibling(i) == IF i % 2 = 0 THEN i + 1 ELSE i - 1

\* A node and its sibling hash to the node above.
LEMMA SiblingPair ==
    ASSUME NEW leaves, NEW zero, NEW h \in Nat, NEW i \in Nat
    PROVE  /\ Sibling(i) \in Nat
           /\ RefNode(leaves, zero, h + 1, i \div 2)
                = IF i % 2 = 0
                  THEN Poseidon(RefNode(leaves, zero, h, i), RefNode(leaves, zero, h, Sibling(i)))
                  ELSE Poseidon(RefNode(leaves, zero, h, Sibling(i)), RefNode(leaves, zero, h, i))
<1> DEFINE p == i \div 2
<1>1. p \in Nat
    OBVIOUS
<1>2. RefNode(leaves, zero, h + 1, p)
        = Poseidon(RefNode(leaves, zero, h, 2 * p), RefNode(leaves, zero, h, 2 * p + 1))
    BY <1>1, RefNodeParent
<1>3. CASE i % 2 = 0
  <2>1. i = 2 * p /\ Sibling(i) = 2 * p + 1
      BY <1>3 DEF Sibling
  <2> HIDE DEF p
  <2> QED
      BY <1>1, <1>2, <1>3, <2>1 DEF p
<1>4. CASE i % 2 # 0
  <2>1. i = 2 * p + 1 /\ Sibling(i) = 2 * p
      BY <1>4 DEF Sibling
  <2> HIDE DEF p
  <2> QED
      BY <1>1, <1>2, <1>4, <2>1 DEF p
<1> QED
    BY <1>3, <1>4

\* The siblings of the nodes on the path from leaf `index` up to `depth`.
AreSiblings(siblings, leaves, zero, index, depth) ==
    \A h \in Nat : h + 1 <= depth =>
        siblings[h + 1] = RefNode(leaves, zero, h, Sibling(Above(index, h)))

\* `create_proof` reads the siblings in the reference tree.
LEMMA SiblingsAreRef ==
    ASSUME NEW S, NEW leaves \in Seq(S), NEW zero, NEW depth \in Nat, NEW index \in Nat
    PROVE  /\ Len(ImtSiblings(RefTree(depth, zero, leaves), index)) = depth
           /\ AreSiblings(ImtSiblings(RefTree(depth, zero, leaves), index),
                          leaves, zero, index, depth)
<1> DEFINE tree == RefTree(depth, zero, leaves)
           s == ImtSiblings(tree, index)
           z == ZeroRootsFrom(depth, zero)
<1>1. tree.depth = depth /\ tree.zero = zero
    BY DEF RefTree
<1> HIDE DEF tree
<1>2. s = [k \in 1..depth |-> GetOr(tree.nodes[k - 1], Sibling(Above(index, k - 1)), z[k - 1])]
    BY <1>1 DEF ImtSiblings, Sibling, Above
<1> HIDE DEF s, z
<1>3. Len(s) = depth
    BY <1>2
<1>4. ASSUME NEW h \in Nat, h + 1 <= depth
      PROVE  s[h + 1] = RefNode(leaves, zero, h, Sibling(Above(index, h)))
  <2> DEFINE i == Sibling(Above(index, h))
  <2>1. s[h + 1] = GetOr(tree.nodes[h], i, z[h])
    <3>1. h + 1 \in 1..depth /\ (h + 1) - 1 = h
        BY <1>4
    <3> QED
        BY <1>2, <3>1
  <2>2. h \in 0..depth
      BY <1>4
  <2>3. z[h] = EmptyNode(zero, h)
      BY <2>2, ZeroRoots DEF z
  <2>4. i \in Nat
      BY AboveStep, SiblingPair
  <2> HIDE DEF i
  <2>5. GetOr(tree.nodes[h], i, EmptyNode(zero, h)) = RefNode(leaves, zero, h, i)
      BY <2>2, <2>4, ReadTree DEF tree
  <2> QED
      BY <2>1, <2>3, <2>5 DEF i
<1> QED
    BY <1>3, <1>4 DEF s, tree, AreSiblings

\* The steps of a path: the node of a path of siblings at each level.
PathStep(below, sibling, position) ==
    IF position % 2 = 0 THEN Poseidon(below, sibling) ELSE Poseidon(sibling, below)

IsPath(node, leaf, index, siblings, L) ==
    /\ node[0] = leaf
    /\ \A k \in Nat : k + 1 <= L =>
          node[k + 1] = PathStep(node[k], siblings[k + 1], Above(index, k))

\* `verify_proof_at_depth` computes such a path, to any claimed root.
LEMMA PathExists ==
    ASSUME NEW leaf, NEW index, NEW siblings, Len(siblings) \in Nat
    PROVE  \E node : /\ PathRoot(leaf, index, siblings) = node[Len(siblings)]
                     /\ IsPath(node, leaf, index, siblings, Len(siblings))
<1> DEFINE n == Len(siblings)
           at(f, L) == [k \in 0..L |->
                          IF k = 0 THEN leaf
                          ELSE LET below == f[k - 1]
                               IN  IF (index \div 2 ^ (k - 1)) % 2 = 0
                                   THEN Poseidon(below, siblings[k])
                                   ELSE Poseidon(siblings[k], below)]
           S == {L \in Nat : \E f : f = at(f, L)}
           node == CHOOSE f : f = at(f, n)
<1>1. 0 \in S
  <2> DEFINE f == [k \in 0..0 |-> leaf]
  <2>1. f = at(f, 0)
      OBVIOUS
  <2> QED
      BY <2>1
<1>2. ASSUME NEW L \in Nat, L \in S PROVE L + 1 \in S
  <2>1. PICK f : f = at(f, L)
      BY <1>2
  <2> DEFINE top == IF (index \div 2 ^ L) % 2 = 0 THEN Poseidon(f[L], siblings[L + 1])
                    ELSE Poseidon(siblings[L + 1], f[L])
             g == [k \in 0..(L + 1) |-> IF k = L + 1 THEN top ELSE f[k]]
  <2>2. \A k \in 0..L : f[k] = at(f, L)[k]
      BY <2>1
  <2>3. ASSUME NEW k \in 0..(L + 1) PROVE g[k] = at(g, L + 1)[k]
    <3>1. CASE k = L + 1
      <4>1. (L + 1) - 1 = L /\ L + 1 # 0 /\ L \in 0..(L + 1) /\ L # L + 1
          OBVIOUS
      <4> QED
          BY <3>1, <4>1
    <3>2. CASE k # L + 1
      <4>1. k \in 0..L /\ (k # 0 => k - 1 \in 0..(L + 1) /\ k - 1 # L + 1)
          BY <3>2
      <4> HIDE DEF top
      <4>2. g[k] = f[k] /\ (k # 0 => g[k - 1] = f[k - 1])
          BY <3>2, <4>1
      <4> HIDE DEF g
      <4> QED
          BY <2>2, <4>1, <4>2
    <3> QED
        BY <3>1, <3>2
  <2>4. g = at(g, L + 1)
    <3>1. g = [k \in 0..(L + 1) |-> g[k]]
        OBVIOUS
    <3> HIDE DEF g
    <3> QED
        BY <2>3, <3>1
  <2> HIDE DEF g
  <2> QED
      BY <2>4
<1>3. n \in S
  <2> HIDE DEF S
  <2> QED
      BY <1>1, <1>2, SetInduction
<1>4. node = at(node, n)
    BY <1>3
<1>5. PathRoot(leaf, index, siblings) = node[n]
    BY DEF PathRoot
<1> HIDE DEF node
<1>6. node[0] = leaf
    BY <1>4
<1>7. ASSUME NEW k \in Nat, k + 1 <= n
      PROVE  node[k + 1] = PathStep(node[k], siblings[k + 1], Above(index, k))
  <2>1. k + 1 \in 0..n /\ k + 1 # 0 /\ (k + 1) - 1 = k
      BY <1>7
  <2>2. node[k + 1] = at(node, n)[k + 1]
      BY <1>4
  <2> QED
      BY <2>1, <2>2 DEF PathStep, Above
<1> QED
    BY <1>5, <1>6, <1>7 DEF IsPath

\* The path of a leaf's siblings leads to the root.
LEMMA PathUp ==
    ASSUME NEW leaves, NEW zero, NEW depth \in Nat, NEW index \in Nat, NEW siblings, NEW node,
           IsPath(node, GetOr(leaves, index, zero), index, siblings, depth),
           AreSiblings(siblings, leaves, zero, index, depth)
    PROVE  node[depth] = RefNode(leaves, zero, depth, Above(index, depth))
<1> DEFINE S == {h \in Nat : h <= depth => node[h] = RefNode(leaves, zero, h, Above(index, h))}
<1>1. 0 \in S
    BY AboveStep, RefNodeLeaf DEF IsPath
<1>2. ASSUME NEW h \in Nat, h \in S PROVE h + 1 \in S
  <2> SUFFICES ASSUME h + 1 <= depth
               PROVE  node[h + 1] = RefNode(leaves, zero, h + 1, Above(index, h + 1))
      OBVIOUS
  <2>1. h <= depth
      OBVIOUS
  <2> DEFINE i == Above(index, h)
  <2>2. i \in Nat /\ Above(index, h + 1) = i \div 2
      BY AboveStep
  <2>3. /\ node[h] = RefNode(leaves, zero, h, i)
        /\ siblings[h + 1] = RefNode(leaves, zero, h, Sibling(i))
      BY <1>2, <2>1 DEF AreSiblings
  <2>4. node[h + 1] = PathStep(node[h], siblings[h + 1], i)
      BY DEF IsPath
  <2> HIDE DEF i
  <2>5. RefNode(leaves, zero, h + 1, i \div 2)
          = IF i % 2 = 0
            THEN Poseidon(RefNode(leaves, zero, h, i), RefNode(leaves, zero, h, Sibling(i)))
            ELSE Poseidon(RefNode(leaves, zero, h, Sibling(i)), RefNode(leaves, zero, h, i))
      BY <2>2, SiblingPair
  <2> QED
      BY <2>2, <2>3, <2>4, <2>5 DEF PathStep
<1> HIDE DEF S
<1>3. Nat \subseteq S
    BY <1>1, <1>2, SetInduction
<1> QED
    BY <1>3 DEF S

\* Conversely, a path that leads to the root is one of nodes of the tree: from
\* the root down, each pair of children is determined by its parent.
LEMMA PathDown ==
    ASSUME NEW leaves, NEW zero, NEW depth \in Nat, NEW index \in Nat, NEW siblings, NEW node,
           NEW leaf, IsPath(node, leaf, index, siblings, depth),
           node[depth] = RefNode(leaves, zero, depth, Above(index, depth))
    PROVE  /\ leaf = GetOr(leaves, index, zero)
           /\ AreSiblings(siblings, leaves, zero, index, depth)
<1> DEFINE On(h) == node[h] = RefNode(leaves, zero, h, Above(index, h))
           S == {j \in Nat : j <= depth => On(depth - j)}
<1>1. ASSUME NEW h \in Nat, h + 1 <= depth, On(h + 1)
      PROVE  On(h) /\ siblings[h + 1] = RefNode(leaves, zero, h, Sibling(Above(index, h)))
  <2> DEFINE i == Above(index, h)
  <2>1. i \in Nat /\ Above(index, h + 1) = i \div 2
      BY AboveStep
  <2>2. node[h + 1] = PathStep(node[h], siblings[h + 1], i)
      BY <1>1 DEF IsPath
  <2>3. node[h + 1] = RefNode(leaves, zero, h + 1, i \div 2)
      BY <1>1, <2>1
  <2> HIDE DEF i
  <2>4. RefNode(leaves, zero, h + 1, i \div 2)
          = IF i % 2 = 0
            THEN Poseidon(RefNode(leaves, zero, h, i), RefNode(leaves, zero, h, Sibling(i)))
            ELSE Poseidon(RefNode(leaves, zero, h, Sibling(i)), RefNode(leaves, zero, h, i))
      BY <2>1, SiblingPair
  <2>5. \A a, b, c, d : Poseidon(a, b) = Poseidon(c, d) => a = c /\ b = d
      BY DEF Poseidon
  <2>6. /\ node[h] = RefNode(leaves, zero, h, i)
        /\ siblings[h + 1] = RefNode(leaves, zero, h, Sibling(i))
    <3>1. CASE i % 2 = 0
      <4>1. Poseidon(node[h], siblings[h + 1])
              = Poseidon(RefNode(leaves, zero, h, i), RefNode(leaves, zero, h, Sibling(i)))
          BY <2>2, <2>3, <2>4, <3>1 DEF PathStep
      <4> QED
          BY <2>5, <4>1
    <3>2. CASE i % 2 # 0
      <4>1. Poseidon(siblings[h + 1], node[h])
              = Poseidon(RefNode(leaves, zero, h, Sibling(i)), RefNode(leaves, zero, h, i))
          BY <2>2, <2>3, <2>4, <3>2 DEF PathStep
      <4> QED
          BY <2>5, <4>1
    <3> QED
        BY <3>1, <3>2
  <2> QED
      BY <2>6 DEF i
<1>2. 0 \in S
    OBVIOUS
<1>3. ASSUME NEW j \in Nat, j \in S PROVE j + 1 \in S
  <2> SUFFICES ASSUME j + 1 <= depth PROVE On(depth - (j + 1))
      OBVIOUS
  <2> DEFINE h == depth - (j + 1)
  <2>1. h \in Nat /\ h + 1 = depth - j /\ h + 1 <= depth /\ j <= depth
      OBVIOUS
  <2> HIDE DEF h
  <2>2. On(h + 1)
      BY <1>3, <2>1
  <2>3. On(h)
    <3> HIDE DEF On
    <3> QED
        BY <1>1, <2>1, <2>2
  <2> QED
      BY <2>3 DEF h
<1> HIDE DEF S
<1>4. Nat \subseteq S
    BY <1>2, <1>3, SetInduction
<1> HIDE DEF On
<1>5. ASSUME NEW h \in 0..depth PROVE On(h)
  <2>1. depth - h \in Nat /\ depth - h <= depth /\ depth - (depth - h) = h
      OBVIOUS
  <2> QED
      BY <1>4, <2>1 DEF S
<1>6. leaf = GetOr(leaves, index, zero)
  <2>1. On(0)
      BY <1>5
  <2> QED
      BY <2>1, AboveStep, RefNodeLeaf DEF On, IsPath
<1>7. ASSUME NEW h \in Nat, h + 1 <= depth
      PROVE  siblings[h + 1] = RefNode(leaves, zero, h, Sibling(Above(index, h)))
  <2>1. On(h + 1)
      BY <1>5, <1>7
  <2> QED
      BY <1>1, <1>7, <2>1
<1> QED
    BY <1>6, <1>7 DEF AreSiblings
-----------------------------------------------------------------------------
\* What the operations on an Imt do to its leaves.
IsTree(tree, depth) ==
    /\ tree = [depth |-> depth, zero |-> tree.zero, nodes |-> tree.nodes]
    /\ ImtLeafCount(tree) \in Nat

\* `Imt::new` has no leaves.
LEMMA NewTree ==
    ASSUME NEW depth \in Nat \ {0}, NEW zero
    PROVE  IsTree(ImtNew(depth, zero), depth) /\ ImtLeaves(ImtNew(depth, zero)) = <<>>
    BY DEF IsTree, ImtNew, ImtLeafCount, ImtLeaves

\* `Imt::from_leaves` has the leaves it is given.
LEMMA BuiltTree ==
    ASSUME NEW depth \in Nat \ {0}, NEW zero, NEW leaves, Len(leaves) \in Nat
    PROVE  /\ IsTree(ImtFromLeaves(depth, zero, leaves), depth)
           /\ ImtLeaves(ImtFromLeaves(depth, zero, leaves)) = leaves
<1>1. CASE leaves = <<>>
    BY <1>1, NewTree DEF ImtFromLeaves
<1>2. CASE leaves # <<>>
  <2>1. \A rows : WithLeaves(leaves, depth, rows)[0] = leaves
      BY DEF WithLeaves
  <2>2. PICK rows : ImtFromLeaves(depth, zero, leaves)
                      = [depth |-> depth, zero |-> zero, nodes |-> WithLeaves(leaves, depth, rows)]
      BY <1>2 DEF ImtFromLeaves
  <2> QED
      BY <2>1, <2>2 DEF IsTree, ImtLeafCount, ImtLeaves
<1> QED
    BY <1>1, <1>2

\* Re-hashing a path changes one leaf and no depth.
LEMMA RehashedTree ==
    ASSUME NEW depth \in Nat, NEW tree, IsTree(tree, depth), NEW index, NEW leaf
    PROVE  /\ RehashPath(tree, index, leaf)
                = [depth |-> depth, zero |-> tree.zero,
                   nodes |-> RehashPath(tree, index, leaf).nodes]
           /\ ImtLeaves(RehashPath(tree, index, leaf))
                = Place(ImtLeaves(tree), index, tree.zero, leaf)
<1> DEFINE leafRow == Place(tree.nodes[0], index, tree.zero, leaf)
<1>1. \A rows : WithLeaves(leafRow, depth, rows)[0] = leafRow
    BY DEF WithLeaves
<1>2. tree.depth = depth
    BY DEF IsTree
<1>3. PICK rows : RehashPath(tree, index, leaf)
                    = [tree EXCEPT !.nodes = WithLeaves(leafRow, depth, rows)]
    BY <1>2 DEF RehashPath
<1>4. RehashPath(tree, index, leaf)
        = [depth |-> depth, zero |-> tree.zero, nodes |-> WithLeaves(leafRow, depth, rows)]
    BY <1>3 DEF IsTree
<1> HIDE DEF leafRow
<1> QED
    BY <1>1, <1>4 DEF ImtLeaves, leafRow

\* `Imt::insert` appends a leaf.
LEMMA InsertedTree ==
    ASSUME NEW depth \in Nat, NEW tree, IsTree(tree, depth), NEW leaf
    PROVE  /\ IsTree(ImtInsert(tree, leaf), depth)
           /\ ImtLeafCount(ImtInsert(tree, leaf)) = ImtLeafCount(tree) + 1
           /\ \A S : ImtLeaves(tree) \in Seq(S) /\ leaf \in S
                  => ImtLeaves(ImtInsert(tree, leaf)) = Append(ImtLeaves(tree), leaf)
<1> DEFINE row == ImtLeaves(tree)
           new == Place(row, Len(row), tree.zero, leaf)
<1>1. Len(row) \in Nat
    BY DEF IsTree, ImtLeafCount
<1>2. /\ Len(new) = Len(row) + 1
      /\ new = [k \in 1..(Len(row) + 1) |->
                  IF k = Len(row) + 1 THEN leaf ELSE GetOr(row, k - 1, tree.zero)]
    BY <1>1 DEF Place
<1>3. ASSUME NEW S, row \in Seq(S), leaf \in S PROVE new = Append(row, leaf)
  <2>1. \A k \in 1..Len(row) : GetOr(row, k - 1, tree.zero) = row[k]
      BY <1>1 DEF GetOr, At
  <2>2. /\ Append(row, leaf) \in Seq(S) /\ Len(Append(row, leaf)) = Len(row) + 1
        /\ \A k \in 1..Len(row) : Append(row, leaf)[k] = row[k]
        /\ Append(row, leaf)[Len(row) + 1] = leaf
      BY <1>3, AppendProperties
  <2>3. \A k \in 1..(Len(row) + 1) : new[k] = Append(row, leaf)[k]
      BY <1>1, <1>2, <2>1, <2>2
  <2>4. new \in [1..(Len(row) + 1) -> S]
      BY <1>1, <1>2, <1>3, <2>1
  <2>5. new \in Seq(S)
      BY <1>1, <2>4, SeqDef
  <2> HIDE DEF new, row
  <2> QED
      BY <1>2, <2>2, <2>3, <2>5, SeqEqual
<1>4. ImtInsert(tree, leaf)
        = [depth |-> depth, zero |-> tree.zero, nodes |-> ImtInsert(tree, leaf).nodes]
      /\ ImtLeaves(ImtInsert(tree, leaf)) = new
    BY RehashedTree DEF ImtInsert, ImtLeafCount
<1> QED
    BY <1>1, <1>2, <1>3, <1>4 DEF IsTree, ImtLeafCount

\* `Imt::update` keeps the number of leaves.
LEMMA UpdatedTree ==
    ASSUME NEW depth \in Nat, NEW tree, IsTree(tree, depth), NEW leaf,
           NEW index \in Nat, index < ImtLeafCount(tree)
    PROVE  /\ IsTree(ImtUpdate(tree, index, leaf), depth)
           /\ ImtLeafCount(ImtUpdate(tree, index, leaf)) = ImtLeafCount(tree)
<1>1. Len(Place(ImtLeaves(tree), index, tree.zero, leaf)) = Len(ImtLeaves(tree))
    BY DEF Place, IsTree, ImtLeafCount
<1> QED
    BY <1>1, RehashedTree DEF ImtUpdate, IsTree, ImtLeafCount

\* A loop of `Imt::insert` appends the leaves.
LEMMA InsertedAllTree ==
    ASSUME NEW depth \in Nat, NEW tree, IsTree(tree, depth), NEW leaves,
           Len(ImtLeaves(tree) \o leaves) \in Nat
    PROVE  /\ IsTree(ImtInsertAll(tree, leaves), depth)
           /\ ImtLeaves(ImtInsertAll(tree, leaves)) = ImtLeaves(tree) \o leaves
<1> DEFINE leafRow == tree.nodes[0] \o leaves
<1>1. \A rows : WithLeaves(leafRow, depth, rows)[0] = leafRow
    BY DEF WithLeaves
<1>2. tree.depth = depth
    BY DEF IsTree
<1>3. PICK rows : ImtInsertAll(tree, leaves)
                    = [tree EXCEPT !.nodes = WithLeaves(leafRow, depth, rows)]
    BY <1>2 DEF ImtInsertAll
<1>4. ImtInsertAll(tree, leaves)
        = [depth |-> depth, zero |-> tree.zero, nodes |-> WithLeaves(leafRow, depth, rows)]
    BY <1>3 DEF IsTree
<1> HIDE DEF leafRow
<1> QED
    BY <1>1, <1>4 DEF IsTree, ImtLeafCount, ImtLeaves, leafRow

\* A path inside a tree of positive height is not empty, hence not NoPath.
LEMMA SiblingsOfTree ==
    ASSUME NEW depth \in Nat \ {0}, NEW tree, IsTree(tree, depth), NEW index
    PROVE  ImtSiblings(tree, index) # <<>>
<1>1. tree.depth = depth
    BY DEF IsTree
<1>2. 1 \in DOMAIN ImtSiblings(tree, index)
    BY <1>1 DEF ImtSiblings
<1> QED
    BY <1>2
-----------------------------------------------------------------------------
(* Subtrees: a shard inside the whole tree, and the tree above the shards. *)

\* A tree of height a + b is 2^a trees of height b.
LEMMA PowerSum ==
    ASSUME NEW a \in Nat
    PROVE  \A b \in Nat : 2 ^ (a + b) = 2 ^ a * 2 ^ b
<1> DEFINE S == {b \in Nat : 2 ^ (a + b) = 2 ^ a * 2 ^ b}
<1>1. 0 \in S
  <2>1. 2 ^ 0 = 1 /\ a + 0 = a /\ 2 ^ a \in Nat
      BY PowerPositive
  <2>2. \A n \in Nat : n * 1 = n
      OBVIOUS
  <2> QED
      BY <2>1, <2>2
<1>2. ASSUME NEW b \in Nat, b \in S PROVE b + 1 \in S
  <2>1. PICK m \in Nat : m = 2 ^ a
      BY PowerPositive
  <2>2. PICK n \in Nat : n = 2 ^ b
      BY PowerPositive
  <2>3. 2 ^ (b + 1) = 2 * n
      BY <2>2, PowerPositive
  <2>4. a + (b + 1) = (a + b) + 1 /\ a + b \in Nat
      OBVIOUS
  <2>5. 2 ^ ((a + b) + 1) = 2 * 2 ^ (a + b)
      BY <2>4, PowerPositive
  <2>6. 2 ^ (a + b) = m * n
      BY <1>2, <2>1, <2>2
  <2>7. 2 * (m * n) = m * (2 * n)
      OBVIOUS
  <2> QED
      BY <2>1, <2>3, <2>4, <2>5, <2>6, <2>7
<1> HIDE DEF S
<1>3. Nat \subseteq S
    BY <1>1, <1>2, SetInduction
<1> QED
    BY <1>3 DEF S

\* The path above a leaf's shard is the rest of the leaf's own path.
LEMMA AboveShard ==
    ASSUME NEW index \in Nat, NEW H \in Nat
    PROVE  \A h \in Nat : Above(Above(index, H), h) = Above(index, H + h)
<1> DEFINE S == {h \in Nat : Above(Above(index, H), h) = Above(index, H + h)}
<1>1. Above(index, H) \in Nat
    BY AboveStep
<1>2. 0 \in S
  <2>1. H + 0 = H
      OBVIOUS
  <2> QED
      BY <1>1, <2>1, AboveStep
<1>3. ASSUME NEW h \in Nat, h \in S PROVE h + 1 \in S
  <2>1. H + h \in Nat /\ H + (h + 1) = (H + h) + 1
      OBVIOUS
  <2>2. Above(Above(index, H), h + 1) = Above(Above(index, H), h) \div 2
      BY <1>1, AboveStep
  <2>3. Above(index, (H + h) + 1) = Above(index, H + h) \div 2
      BY <2>1, AboveStep
  <2> QED
      BY <1>3, <2>1, <2>2, <2>3
<1> HIDE DEF S
<1>4. Nat \subseteq S
    BY <1>2, <1>3, SetInduction
<1> QED
    BY <1>4 DEF S

\* The path of a leaf inside its shard, shifted by the shards to its left.
LEMMA AboveOffset ==
    ASSUME NEW c \in Nat, NEW i \in Nat, NEW H \in Nat
    PROVE  \A h \in 0..H : /\ c * 2 ^ (H - h) \in Nat
                           /\ Above(c * 2 ^ H + i, h) = c * 2 ^ (H - h) + Above(i, h)
<1> DEFINE n == c * 2 ^ H + i
           S == {h \in Nat : h <= H => Above(n, h) = c * 2 ^ (H - h) + Above(i, h)}
<1>1. \A h \in 0..H : H - h \in Nat /\ 2 ^ (H - h) \in Nat /\ c * 2 ^ (H - h) \in Nat
  <2> SUFFICES ASSUME NEW h \in 0..H
               PROVE  H - h \in Nat /\ 2 ^ (H - h) \in Nat /\ c * 2 ^ (H - h) \in Nat
      OBVIOUS
  <2>1. H - h \in Nat
      OBVIOUS
  <2>2. PICK a \in Nat : a = 2 ^ (H - h)
      BY <2>1, PowerPositive
  <2>3. c * a \in Nat
      BY <2>2
  <2> QED
      BY <2>1, <2>2, <2>3
<1>2. n \in Nat /\ H - 0 = H
  <2>1. 2 ^ H \in Nat
      BY PowerPositive
  <2>2. PICK a \in Nat : a = 2 ^ H
      BY <2>1
  <2>3. c * a + i \in Nat
      BY <2>2
  <2> QED
      BY <2>2, <2>3
<1> HIDE DEF n
<1>3. 0 \in S
  <2>1. Above(n, 0) = n /\ Above(i, 0) = i
      BY <1>2, AboveStep
  <2> QED
      BY <1>2, <2>1 DEF n
<1>4. ASSUME NEW h \in Nat, h \in S PROVE h + 1 \in S
  <2> SUFFICES ASSUME h + 1 <= H
               PROVE  Above(n, h + 1) = c * 2 ^ (H - (h + 1)) + Above(i, h + 1)
      OBVIOUS
  <2>1. PICK a \in Nat : a = 2 ^ (H - (h + 1)) /\ 2 ^ (H - h) = 2 * a
    <3>1. H - (h + 1) \in Nat /\ H - h = (H - (h + 1)) + 1
        OBVIOUS
    <3> QED
        BY <3>1, PowerPositive
  <2>2. PICK m \in Nat : m = c * a /\ c * (2 * a) = 2 * m
    <3>1. c * a \in Nat /\ c * (2 * a) = 2 * (c * a)
        BY <2>1
    <3> QED
        BY <3>1
  <2>3. PICK r \in Nat : r = Above(i, h) /\ Above(i, h + 1) = r \div 2
      BY AboveStep
  <2>4. Above(n, h) = 2 * m + r /\ Above(n, h + 1) = (2 * m + r) \div 2
    <3>1. Above(n, h) = 2 * m + r
        BY <1>4, <2>1, <2>2, <2>3
    <3>2. Above(n, h + 1) = Above(n, h) \div 2
        BY <1>2, AboveStep
    <3> QED
        BY <3>1, <3>2
  <2>5. (2 * m + r) \div 2 = m + (r \div 2)
      OBVIOUS
  <2> QED
      BY <2>1, <2>2, <2>3, <2>4, <2>5
<1> HIDE DEF S
<1>5. Nat \subseteq S
    BY <1>3, <1>4, SetInduction
<1> QED
    BY <1>1, <1>5 DEF S, n

\* The tree over a shard's leaves is a subtree of the whole tree.
LEMMA Subtree ==
    ASSUME NEW leaves, NEW log, NEW zero, NEW c \in Nat, NEW H \in Nat,
           \A j \in Nat : j < 2 ^ H => GetOr(leaves, j, zero) = GetOr(log, c * 2 ^ H + j, zero)
    PROVE  \A h \in 0..H, i \in Nat :
              i < 2 ^ (H - h)
                => RefNode(leaves, zero, h, i) = RefNode(log, zero, h, c * 2 ^ (H - h) + i)
<1> DEFINE S == {h \in Nat : h <= H =>
                    \A i \in Nat : i < 2 ^ (H - h)
                        => RefNode(leaves, zero, h, i)
                             = RefNode(log, zero, h, c * 2 ^ (H - h) + i)}
<1>1. 0 \in S
  <2> SUFFICES ASSUME NEW i \in Nat, i < 2 ^ (H - 0)
               PROVE  RefNode(leaves, zero, 0, i) = RefNode(log, zero, 0, c * 2 ^ (H - 0) + i)
      OBVIOUS
  <2>1. H - 0 = H
      OBVIOUS
  <2>2. c * 2 ^ H + i \in Nat
    <3>1. PICK a \in Nat : a = 2 ^ H
        BY PowerPositive
    <3>2. c * a + i \in Nat
        BY <3>1
    <3> QED
        BY <3>1, <3>2
  <2> QED
      BY <2>1, <2>2, RefNodeLeaf
<1>2. ASSUME NEW h \in Nat, h \in S PROVE h + 1 \in S
  <2> SUFFICES ASSUME NEW i \in Nat, h + 1 <= H, i < 2 ^ (H - (h + 1))
               PROVE  RefNode(leaves, zero, h + 1, i)
                        = RefNode(log, zero, h + 1, c * 2 ^ (H - (h + 1)) + i)
      OBVIOUS
  <2>1. PICK a \in Nat : a = 2 ^ (H - (h + 1)) /\ 2 ^ (H - h) = 2 * a
    <3>1. H - (h + 1) \in Nat /\ H - h = (H - (h + 1)) + 1
        OBVIOUS
    <3> QED
        BY <3>1, PowerPositive
  <2>2. PICK m \in Nat : m = c * a /\ c * (2 * a) = 2 * m
    <3>1. c * a \in Nat /\ c * (2 * a) = 2 * (c * a)
        BY <2>1
    <3> QED
        BY <3>1
  <2>3. /\ RefNode(leaves, zero, h, 2 * i) = RefNode(log, zero, h, 2 * m + 2 * i)
        /\ RefNode(leaves, zero, h, 2 * i + 1) = RefNode(log, zero, h, 2 * m + (2 * i + 1))
    <3>1. h <= H /\ 2 * i \in Nat /\ 2 * i + 1 \in Nat /\ 2 * i + 1 < 2 * a /\ 2 * i < 2 * a
        BY <2>1
    <3> QED
        BY <1>2, <2>1, <2>2, <3>1
  <2>4. RefNode(leaves, zero, h + 1, i)
          = Poseidon(RefNode(leaves, zero, h, 2 * i), RefNode(leaves, zero, h, 2 * i + 1))
      BY RefNodeParent
  <2>5. RefNode(log, zero, h + 1, m + i)
          = Poseidon(RefNode(log, zero, h, 2 * (m + i)), RefNode(log, zero, h, 2 * (m + i) + 1))
    <3>1. m + i \in Nat
        OBVIOUS
    <3> QED
        BY <3>1, RefNodeParent
  <2>6. 2 * (m + i) = 2 * m + 2 * i /\ 2 * (m + i) + 1 = 2 * m + (2 * i + 1)
      OBVIOUS
  <2> QED
      BY <2>1, <2>2, <2>3, <2>4, <2>5, <2>6
<1> HIDE DEF S
<1>3. Nat \subseteq S
    BY <1>1, <1>2, SetInduction
<1> QED
    BY <1>3 DEF S

\* A tree over the roots of the nodes at height H is the top of the whole tree.
LEMMA TopOfTree ==
    ASSUME NEW row, NEW rowZero, NEW log, NEW zero, NEW H \in Nat,
           \A j \in Nat : GetOr(row, j, rowZero) = RefNode(log, zero, H, j)
    PROVE  \A h \in Nat, i \in Nat :
              RefNode(row, rowZero, h, i) = RefNode(log, zero, H + h, i)
<1> DEFINE S == {h \in Nat : \A i \in Nat :
                    RefNode(row, rowZero, h, i) = RefNode(log, zero, H + h, i)}
<1>1. 0 \in S
  <2>1. H + 0 = H
      OBVIOUS
  <2> QED
      BY <2>1, RefNodeLeaf
<1>2. ASSUME NEW h \in Nat, h \in S PROVE h + 1 \in S
  <2> SUFFICES ASSUME NEW i \in Nat
               PROVE  RefNode(row, rowZero, h + 1, i) = RefNode(log, zero, H + (h + 1), i)
      OBVIOUS
  <2>1. /\ H + h \in Nat /\ H + (h + 1) = (H + h) + 1
        /\ 2 * i \in Nat /\ 2 * i + 1 \in Nat
      OBVIOUS
  <2>2. RefNode(row, rowZero, h + 1, i)
          = Poseidon(RefNode(row, rowZero, h, 2 * i), RefNode(row, rowZero, h, 2 * i + 1))
      BY RefNodeParent
  <2>3. RefNode(log, zero, (H + h) + 1, i)
          = Poseidon(RefNode(log, zero, H + h, 2 * i), RefNode(log, zero, H + h, 2 * i + 1))
      BY <2>1, RefNodeParent
  <2> QED
      BY <1>2, <2>1, <2>2, <2>3
<1> HIDE DEF S
<1>3. Nat \subseteq S
    BY <1>1, <1>2, SetInduction
<1> QED
    BY <1>3 DEF S

\* A row with one element more.
LEMMA PlaceIsAppend ==
    ASSUME NEW S, NEW row \in Seq(S), NEW zero, NEW leaf \in S
    PROVE  Place(row, Len(row), zero, leaf) = Append(row, leaf)
<1> DEFINE new == Place(row, Len(row), zero, leaf)
<1>1. Len(row) \in Nat
    BY LenProperties
<1>2. new = [k \in 1..(Len(row) + 1) |->
                IF k = Len(row) + 1 THEN leaf ELSE GetOr(row, k - 1, zero)]
    BY <1>1 DEF Place
<1>3. \A k \in 1..Len(row) : GetOr(row, k - 1, zero) = row[k]
    BY <1>1 DEF GetOr, At
<1>4. /\ Append(row, leaf) \in Seq(S) /\ Len(Append(row, leaf)) = Len(row) + 1
      /\ \A k \in 1..Len(row) : Append(row, leaf)[k] = row[k]
      /\ Append(row, leaf)[Len(row) + 1] = leaf
    BY AppendProperties
<1>5. \A k \in 1..(Len(row) + 1) : new[k] = Append(row, leaf)[k]
    BY <1>1, <1>2, <1>3, <1>4
<1>6. new \in [1..(Len(row) + 1) -> S]
    BY <1>1, <1>2, <1>3, ElementOfSeq
<1>7. new \in Seq(S) /\ Len(new) = Len(row) + 1
    BY <1>1, <1>6, SeqDef
<1> HIDE DEF new
<1>8. new = Append(row, leaf)
    BY <1>4, <1>5, <1>7, SeqEqual
<1> QED
    BY <1>8 DEF new

\* `Imt::insert`.
LEMMA InsertIsRef ==
    ASSUME NEW S, NEW leaves \in Seq(S), NEW zero, NEW depth \in Nat, NEW leaf \in S
    PROVE  ImtInsert(RefTree(depth, zero, leaves), leaf)
             = RefTree(depth, zero, Append(leaves, leaf))
<1>1. ImtLeafCount(RefTree(depth, zero, leaves)) = Len(leaves)
    BY ReadLeaves DEF ImtLeafCount, ImtLeaves
<1>2. Len(leaves) \in Nat /\ Len(leaves) <= Len(leaves)
    BY LenProperties
<1>3. RehashPath(RefTree(depth, zero, leaves), Len(leaves), leaf)
        = RefTree(depth, zero, Place(leaves, Len(leaves), zero, leaf))
    BY <1>2, RehashIsRef
<1> QED
    BY <1>1, <1>3, PlaceIsAppend DEF ImtInsert

\* `Imt::update`.
LEMMA UpdateIsRef ==
    ASSUME NEW S, NEW leaves \in Seq(S), NEW zero, NEW depth \in Nat, NEW leaf \in S,
           NEW index \in Nat, index < Len(leaves),
           NEW changed, changed = [leaves EXCEPT ![index + 1] = leaf]
    PROVE  ImtUpdate(RefTree(depth, zero, leaves), index, leaf) = RefTree(depth, zero, changed)
<1> DEFINE new == Place(leaves, index, zero, leaf)
<1>1. Len(leaves) \in Nat /\ leaves \in [1..Len(leaves) -> S]
    BY LenProperties
<1>2. new = [k \in 1..Len(leaves) |->
                IF k = index + 1 THEN leaf ELSE GetOr(leaves, k - 1, zero)]
    BY <1>1 DEF Place
<1>3. \A k \in 1..Len(leaves) : GetOr(leaves, k - 1, zero) = leaves[k]
    BY <1>1 DEF GetOr, At
<1>4. new = changed
    BY <1>1, <1>2, <1>3
<1>5. RehashPath(RefTree(depth, zero, leaves), index, leaf) = RefTree(depth, zero, new)
    BY <1>1, RehashIsRef
<1> QED
    BY <1>4, <1>5 DEF ImtUpdate

\* The leaves of a tree after k turns of a loop that inserts more.
Grown(leaves, more, k) == leaves \o SubSeq(more, 1, k)

\* Each turn of the loop appends the next leaf.
LEMMA NextPrefix ==
    ASSUME NEW S, NEW leaves \in Seq(S), NEW more \in Seq(S), NEW k \in Nat, k + 1 <= Len(more)
    PROVE  /\ Grown(leaves, more, k) \in Seq(S)
           /\ Append(Grown(leaves, more, k), more[k + 1]) = Grown(leaves, more, k + 1)
<1> DEFINE s == SubSeq(more, 1, k)
           t == SubSeq(more, 1, k + 1)
<1>1. Len(leaves) \in Nat /\ Len(more) \in Nat /\ \A i \in 1..Len(more) : more[i] \in S
    BY LenProperties, ElementOfSeq
<1>2. s = [i \in 1..k |-> more[i]] /\ t = [i \in 1..(k + 1) |-> more[i]]
    BY FirstPart
<1>3. s \in Seq(S) /\ Len(s) = k /\ t \in Seq(S) /\ Len(t) = k + 1
  <2> HIDE DEF s, t
  <2>1. s \in [1..k -> S] /\ t \in [1..(k + 1) -> S]
      BY <1>1, <1>2
  <2> QED
      BY <2>1, SeqDef
<1> HIDE DEF s, t
<1>4. ASSUME NEW w \in Seq(S)
      PROVE  /\ leaves \o w \in Seq(S) /\ Len(leaves \o w) = Len(leaves) + Len(w)
             /\ \A i \in 1..(Len(leaves) + Len(w)) :
                   (leaves \o w)[i] = IF i <= Len(leaves) THEN leaves[i] ELSE w[i - Len(leaves)]
    BY ConcatProperties
<1>5. /\ leaves \o s \in Seq(S) /\ Len(leaves \o s) = Len(leaves) + k
       /\ \A i \in 1..(Len(leaves) + k) :
             (leaves \o s)[i] = IF i <= Len(leaves) THEN leaves[i] ELSE s[i - Len(leaves)]
    BY <1>3, <1>4
<1>6. /\ leaves \o t \in Seq(S) /\ Len(leaves \o t) = Len(leaves) + (k + 1)
       /\ \A i \in 1..(Len(leaves) + (k + 1)) :
             (leaves \o t)[i] = IF i <= Len(leaves) THEN leaves[i] ELSE t[i - Len(leaves)]
    BY <1>3, <1>4
<1> DEFINE u == Append(leaves \o s, more[k + 1])
<1>7. more[k + 1] \in S
    BY <1>1
<1>8. /\ u \in Seq(S) /\ Len(u) = Len(leaves) + (k + 1)
      /\ \A i \in 1..(Len(leaves) + k) : u[i] = (leaves \o s)[i]
      /\ u[Len(leaves) + (k + 1)] = more[k + 1]
  <2>1. /\ u \in Seq(S) /\ Len(u) = Len(leaves \o s) + 1
        /\ \A i \in 1..Len(leaves \o s) : u[i] = (leaves \o s)[i]
        /\ u[Len(leaves \o s) + 1] = more[k + 1]
      BY <1>5, <1>7, AppendProperties
  <2>2. (Len(leaves) + k) + 1 = Len(leaves) + (k + 1)
      BY <1>1
  <2> HIDE DEF u
  <2> QED
      BY <1>5, <2>1, <2>2
<1> HIDE DEF u
<1>9. \A i \in 1..(Len(leaves) + (k + 1)) : u[i] = (leaves \o t)[i]
  <2> SUFFICES ASSUME NEW i \in 1..(Len(leaves) + (k + 1)) PROVE u[i] = (leaves \o t)[i]
      OBVIOUS
  <2>1. CASE i <= Len(leaves)
    <3>1. i \in 1..(Len(leaves) + k)
        BY <1>1, <2>1
    <3> QED
        BY <1>5, <1>6, <1>8, <2>1, <3>1
  <2>2. CASE i > Len(leaves) /\ i <= Len(leaves) + k
    <3>1. i - Len(leaves) \in 1..k
        BY <1>1, <2>2
    <3>2. s[i - Len(leaves)] = more[i - Len(leaves)] /\ t[i - Len(leaves)] = more[i - Len(leaves)]
        BY <1>2, <3>1
    <3>3. i \in 1..(Len(leaves) + k) /\ ~(i <= Len(leaves))
        BY <1>1, <2>2
    <3> QED
        BY <1>5, <1>6, <1>8, <3>2, <3>3
  <2>3. CASE i = Len(leaves) + (k + 1)
    <3>1. i - Len(leaves) = k + 1
        BY <1>1, <2>3
    <3>2. t[k + 1] = more[k + 1]
        BY <1>2
    <3>3. ~(i <= Len(leaves))
        BY <1>1, <2>3
    <3> QED
        BY <1>6, <1>8, <2>3, <3>1, <3>2, <3>3
  <2>4. i <= Len(leaves) \/ (i > Len(leaves) /\ i <= Len(leaves) + k) \/ i = Len(leaves) + (k + 1)
      BY <1>1
  <2> QED
      BY <2>1, <2>2, <2>3, <2>4
<1>10. u = leaves \o t
    BY <1>6, <1>8, <1>9, SeqEqual
<1> QED
    BY <1>5, <1>10 DEF s, t, u, Grown

\* A loop of `Imt::insert`.
LEMMA InsertAllIsRef ==
    ASSUME NEW S, NEW leaves \in Seq(S), NEW zero, NEW depth \in Nat,
           NEW more \in Seq(S), more # <<>>
    PROVE  ImtInsertAll(RefTree(depth, zero, leaves), more) = RefTree(depth, zero, leaves \o more)
<1> DEFINE n == Len(more)
           tree == RefTree(depth, zero, leaves)
           at(f) == [k \in 0..n |-> IF k = 0 THEN tree ELSE ImtInsert(f[k - 1], more[k])]
           ref == [k \in 0..n |-> RefTree(depth, zero, Grown(leaves, more, k))]
           after == CHOOSE f : f = at(f)
<1>1. ImtInsertAll(tree, more)
        = [depth |-> depth, zero |-> zero,
           nodes |-> WithLeaves(leaves \o more, depth, after[n].nodes)]
  <2>1. /\ tree.depth = depth /\ tree.zero = zero /\ tree.nodes[0] = leaves
        /\ tree = [depth |-> depth, zero |-> zero, nodes |-> tree.nodes]
    <3>1. tree.nodes[0] = leaves
        BY ReadLeaves
    <3> QED
        BY <3>1 DEF RefTree
  <2> HIDE DEF tree
  <2>2. ImtInsertAll(tree, more)
          = [tree EXCEPT !.nodes = WithLeaves(leaves \o more, depth, after[n].nodes)]
      BY <2>1 DEF ImtInsertAll
  <2> HIDE DEF after, n
  <2> QED
      BY <2>1, <2>2
<1>2. n \in Nat /\ n # 0
    BY LenProperties
<1>3. Grown(leaves, more, 0) = leaves /\ Grown(leaves, more, n) = leaves \o more
  <2>1. SubSeq(more, 1, 0) = <<>>
    <3>1. SubSeq(more, 1, 0) = [i \in 1..0 |-> more[i]]
        BY FirstPart
    <3> QED
        BY <3>1
  <2>2. leaves \o <<>> = leaves
      BY ConcatEmptySeq
  <2>3. SubSeq(more, 1, n) = [i \in 1..n |-> more[i]]
      BY <1>2, FirstPart
  <2>4. more \in [1..n -> S]
      BY LenProperties
  <2>5. SubSeq(more, 1, n) = more
      BY <2>3, <2>4
  <2> QED
      BY <2>1, <2>2, <2>5 DEF Grown
<1>4. ASSUME NEW k \in Nat, k + 1 <= n
      PROVE  ImtInsert(RefTree(depth, zero, Grown(leaves, more, k)), more[k + 1])
               = RefTree(depth, zero, Grown(leaves, more, k + 1))
  <2>1. more[k + 1] \in S
      BY <1>2, <1>4, ElementOfSeq
  <2>3. k + 1 <= Len(more)
      BY <1>4
  <2> HIDE DEF at, ref, after, tree, n
  <2>2. /\ Grown(leaves, more, k) \in Seq(S)
        /\ Append(Grown(leaves, more, k), more[k + 1]) = Grown(leaves, more, k + 1)
      BY <2>3, NextPrefix
  <2>4. ImtInsert(RefTree(depth, zero, Grown(leaves, more, k)), more[k + 1])
          = RefTree(depth, zero, Append(Grown(leaves, more, k), more[k + 1]))
    <3>1. \A row \in Seq(S), leaf \in S :
            ImtInsert(RefTree(depth, zero, row), leaf) = RefTree(depth, zero, Append(row, leaf))
        BY InsertIsRef
    <3> QED
        BY <2>1, <2>2, <3>1
  <2> QED
      BY <2>2, <2>4
<1>5. ref = at(ref)
  <2>1. ASSUME NEW k \in 0..n
        PROVE  RefTree(depth, zero, Grown(leaves, more, k))
                 = IF k = 0 THEN tree
                   ELSE ImtInsert(RefTree(depth, zero, Grown(leaves, more, k - 1)), more[k])
    <3>1. CASE k = 0
        BY <1>3, <3>1
    <3>2. CASE k # 0
      <4>1. PICK j \in Nat : k = j + 1
        <5>1. k - 1 \in Nat /\ k = (k - 1) + 1
            BY <1>2, <3>2
        <5> QED
            BY <5>1
      <4>2. j = k - 1 /\ j + 1 <= n
          BY <1>2, <4>1
      <4> HIDE DEF at, ref, after, tree, n
      <4> QED
          BY <1>4, <3>2, <4>1, <4>2
    <3> QED
        BY <3>1, <3>2
  <2>2. \A k \in 0..n : k # 0 => k - 1 \in 0..n
      BY <1>2
  <2> HIDE DEF n, tree
  <2> QED
      BY <2>1, <2>2
<1> HIDE DEF tree, n
<1>6. after = at(after)
    BY <1>5
<1> HIDE DEF after
<1>7. \A k \in 0..n : after[k] = IF k = 0 THEN tree ELSE ImtInsert(after[k - 1], more[k])
    BY <1>6
<1> HIDE DEF at, ref
<1>8. \A k \in Nat : k <= n => after[k] = RefTree(depth, zero, Grown(leaves, more, k))
  <2> DEFINE T == {k \in Nat : k <= n =>
                      after[k] = RefTree(depth, zero, Grown(leaves, more, k))}
  <2>1. 0 \in T
    <3>1. 0 \in 0..n /\ 0 \in Nat
        BY <1>2
    <3>2. after[0] = tree
        BY <1>7, <3>1
    <3>3. after[0] = RefTree(depth, zero, Grown(leaves, more, 0))
        BY <1>3, <3>2 DEF tree
    <3> QED
        BY <3>3
  <2>2. ASSUME NEW k \in Nat, k \in T PROVE k + 1 \in T
    <3> SUFFICES ASSUME k + 1 <= n
                 PROVE  after[k + 1] = RefTree(depth, zero, Grown(leaves, more, k + 1))
        OBVIOUS
    <3>1. k <= n /\ k + 1 \in 0..n /\ k + 1 # 0 /\ (k + 1) - 1 = k
        BY <1>2
    <3>2. after[k] = RefTree(depth, zero, Grown(leaves, more, k))
        BY <2>2, <3>1
    <3> QED
        BY <1>4, <1>7, <3>1, <3>2
  <2> HIDE DEF T
  <2>3. Nat \subseteq T
      BY <2>1, <2>2, SetInduction
  <2> QED
      BY <2>3 DEF T
<1>9. after[n] = RefTree(depth, zero, leaves \o more)
  <2>1. after[n] = RefTree(depth, zero, Grown(leaves, more, n))
      BY <1>2, <1>8
  <2> QED
      BY <1>3, <2>1
<1>10. leaves \o more \in Seq(S) /\ leaves \o more # <<>>
  <2>1. leaves \o more \in Seq(S) /\ Len(leaves \o more) = Len(leaves) + Len(more)
      BY ConcatProperties
  <2>2. Len(leaves) \in Nat /\ Len(more) \in Nat /\ Len(more) # 0
      BY <1>2, LenProperties DEF n
  <2> QED
      BY <2>1, <2>2
<1>11. \A h \in 0..depth : after[n].nodes[h] = RefRow(leaves \o more, zero, h)
    BY <1>9, <1>10 DEF RefTree
<1>12. [depth |-> depth, zero |-> zero,
        nodes |-> WithLeaves(leaves \o more, depth, after[n].nodes)]
         = RefTree(depth, zero, leaves \o more)
    BY <1>10, <1>11, TreeIsRef
<1> QED
    BY <1>1, <1>12 DEF tree
-----------------------------------------------------------------------------
\* A place in a shard, its path inside the shard and its path in the tree.
LEMMA InsideShard ==
    ASSUME NEW c \in Nat, NEW H \in Nat, NEW i \in Nat, i < 2 ^ H
    PROVE  \A h \in Nat : h + 1 <= H =>
              /\ Sibling(Above(i, h)) \in Nat /\ Sibling(Above(i, h)) < 2 ^ (H - h)
              /\ Above(c * 2 ^ H + i, h) % 2 = Above(i, h) % 2
              /\ Sibling(Above(c * 2 ^ H + i, h)) = c * 2 ^ (H - h) + Sibling(Above(i, h))
<1> SUFFICES ASSUME NEW h \in Nat, h + 1 <= H
             PROVE  /\ Sibling(Above(i, h)) \in Nat /\ Sibling(Above(i, h)) < 2 ^ (H - h)
                    /\ Above(c * 2 ^ H + i, h) % 2 = Above(i, h) % 2
                    /\ Sibling(Above(c * 2 ^ H + i, h)) = c * 2 ^ (H - h) + Sibling(Above(i, h))
    OBVIOUS
<1>1. PICK a \in Nat : 2 ^ (H - h) = 2 * a
  <2>1. H - (h + 1) \in Nat /\ H - h = (H - (h + 1)) + 1
      OBVIOUS
  <2> QED
      BY <2>1, PowerPositive
<1>2. PICK m \in Nat : c * (2 * a) = 2 * m
  <2>1. c * a \in Nat /\ c * (2 * a) = 2 * (c * a)
      OBVIOUS
  <2> QED
      BY <2>1
<1>3. PICK r \in Nat : r = Above(i, h) /\ r < 2 * a
  <2>1. H - h \in Nat /\ h + (H - h) = H
      OBVIOUS
  <2>2. Above(i, h) \in Nat
      BY AboveStep
  <2>3. Above(Above(i, h), H - h) = Above(i, H)
      BY <2>1, AboveShard
  <2>4. Above(i, H) = 0
      BY AboveTop
  <2>5. Above(i, h) < 2 ^ (H - h)
      BY <2>1, <2>2, <2>3, <2>4, AboveTop
  <2> QED
      BY <1>1, <2>2, <2>5
<1>4. Above(c * 2 ^ H + i, h) = 2 * m + r
  <2>1. h \in 0..H
      OBVIOUS
  <2>2. Above(c * 2 ^ H + i, h) = c * 2 ^ (H - h) + Above(i, h)
      BY <2>1, AboveOffset
  <2> QED
      BY <1>1, <1>2, <1>3, <2>2
<1>5. (2 * m + r) % 2 = r % 2
    OBVIOUS
<1>6. /\ Sibling(r) \in Nat /\ Sibling(r) < 2 * a
      /\ Sibling(2 * m + r) = 2 * m + Sibling(r)
    BY <1>3, <1>5 DEF Sibling
<1> QED
    BY <1>1, <1>2, <1>3, <1>4, <1>5, <1>6

\* The same path of siblings proves the same leaf inside its shard and, as
\* far up as the shard goes, in the whole tree.
LEMMA ShardPath ==
    ASSUME NEW c \in Nat, NEW H \in Nat, NEW i \in Nat, i < 2 ^ H,
           NEW node, NEW leaf, NEW siblings, IsPath(node, leaf, i, siblings, H)
    PROVE  IsPath(node, leaf, c * 2 ^ H + i, siblings, H)
<1> SUFFICES ASSUME NEW k \in Nat, k + 1 <= H
             PROVE  node[k + 1] = PathStep(node[k], siblings[k + 1], Above(c * 2 ^ H + i, k))
    BY DEF IsPath
<1>1. node[k + 1] = PathStep(node[k], siblings[k + 1], Above(i, k))
    BY DEF IsPath
<1>2. Above(c * 2 ^ H + i, k) % 2 = Above(i, k) % 2
  <2>1. \A h \in Nat : h + 1 <= H =>
          /\ Sibling(Above(i, h)) \in Nat /\ Sibling(Above(i, h)) < 2 ^ (H - h)
          /\ Above(c * 2 ^ H + i, h) % 2 = Above(i, h) % 2
          /\ Sibling(Above(c * 2 ^ H + i, h)) = c * 2 ^ (H - h) + Sibling(Above(i, h))
      BY InsideShard
  <2> QED
      BY <2>1
<1> QED
    BY <1>1, <1>2 DEF PathStep

\* A path inside a shard is the lower part of the path in the whole tree.
LEMMA ShardSiblings ==
    ASSUME NEW leaves, NEW log, NEW zero, NEW c \in Nat, NEW H \in Nat,
           \A j \in Nat : j < 2 ^ H => GetOr(leaves, j, zero) = GetOr(log, c * 2 ^ H + j, zero),
           NEW i \in Nat, i < 2 ^ H, NEW siblings, AreSiblings(siblings, leaves, zero, i, H)
    PROVE  AreSiblings(siblings, log, zero, c * 2 ^ H + i, H)
<1> SUFFICES ASSUME NEW h \in Nat, h + 1 <= H
             PROVE  siblings[h + 1] = RefNode(log, zero, h, Sibling(Above(c * 2 ^ H + i, h)))
    BY DEF AreSiblings
<1>1. siblings[h + 1] = RefNode(leaves, zero, h, Sibling(Above(i, h)))
    BY DEF AreSiblings
<1>2. /\ Sibling(Above(i, h)) \in Nat /\ Sibling(Above(i, h)) < 2 ^ (H - h)
      /\ Sibling(Above(c * 2 ^ H + i, h)) = c * 2 ^ (H - h) + Sibling(Above(i, h))
    BY InsideShard
<1>3. h \in 0..H
    OBVIOUS
<1>4. RefNode(leaves, zero, h, Sibling(Above(i, h)))
        = RefNode(log, zero, h, c * 2 ^ (H - h) + Sibling(Above(i, h)))
  <2>1. \A g \in 0..H, j \in Nat :
          j < 2 ^ (H - g) => RefNode(leaves, zero, g, j) = RefNode(log, zero, g, c * 2 ^ (H - g) + j)
      BY Subtree
  <2> QED
      BY <1>2, <1>3, <2>1
<1> QED
    BY <1>1, <1>2, <1>4

\* Below a shard root the path of the shard, above it that of the cap: glued,
\* they are the path in the whole tree.
LEMMA GluedPath ==
    ASSUME NEW row, NEW rowZero, NEW log, NEW zero, NEW H \in Nat, NEW D \in Nat,
           \A j \in Nat : GetOr(row, j, rowZero) = RefNode(log, zero, H, j),
           NEW index \in Nat, NEW low, NEW high, NEW whole,
           IsRow(low, H), IsRow(high, D), IsRow(whole, H + D),
           AreSiblings(low, log, zero, index, H),
           AreSiblings(high, row, rowZero, Above(index, H), D),
           AreSiblings(whole, log, zero, index, H + D)
    PROVE  low \o high = whole
<1>1. ASSUME NEW k \in 1..H PROVE whole[k] = low[k]
  <2>1. PICK h \in Nat : k = h + 1
    <3>1. k - 1 \in Nat /\ k = (k - 1) + 1
        OBVIOUS
    <3> QED
        BY <3>1
  <2>2. h + 1 <= H /\ h + 1 <= H + D
      BY <2>1
  <2> QED
      BY <2>1, <2>2 DEF AreSiblings
<1>2. ASSUME NEW k \in 1..D PROVE whole[H + k] = high[k]
  <2>1. PICK h \in Nat : k = h + 1
    <3>1. k - 1 \in Nat /\ k = (k - 1) + 1
        OBVIOUS
    <3> QED
        BY <3>1
  <2>2. H + h \in Nat /\ H + k = (H + h) + 1 /\ (H + h) + 1 <= H + D /\ h + 1 <= D
      BY <2>1
  <2>3. whole[H + k] = RefNode(log, zero, H + h, Sibling(Above(index, H + h)))
      BY <2>2 DEF AreSiblings
  <2>4. high[k] = RefNode(row, rowZero, h, Sibling(Above(Above(index, H), h)))
      BY <2>1, <2>2 DEF AreSiblings
  <2>5. Above(Above(index, H), h) = Above(index, H + h) /\ Above(index, H + h) \in Nat
    <3>1. Above(Above(index, H), h) = Above(index, H + h)
        BY AboveShard
    <3>2. Above(index, H + h) \in Nat
        BY <2>2, AboveStep
    <3> QED
        BY <3>1, <3>2
  <2>6. Sibling(Above(index, H + h)) \in Nat
      BY <2>5, SiblingPair
  <2>7. RefNode(row, rowZero, h, Sibling(Above(index, H + h)))
          = RefNode(log, zero, H + h, Sibling(Above(index, H + h)))
      BY <2>6, TopOfTree
  <2> QED
      BY <2>3, <2>4, <2>5, <2>7
<1> QED
    BY <1>1, <1>2, Joined DEF Continues

\* `create_proof` returns one sibling per level.
LEMMA SiblingsAreRow ==
    ASSUME NEW depth \in Nat, NEW tree, tree.depth = depth, NEW index
    PROVE  IsRow(ImtSiblings(tree, index), depth) /\ Len(ImtSiblings(tree, index)) = depth
<1>1. PICK f : ImtSiblings(tree, index) = [k \in 1..depth |-> f[k]]
  <2> DEFINE f == [k \in 1..depth |->
                      LET level == k - 1
                          position == index \div 2 ^ level
                          sibling == IF position % 2 = 0 THEN position + 1 ELSE position - 1
                      IN  GetOr(tree.nodes[level], sibling,
                                ZeroRootsFrom(tree.depth, tree.zero)[level])]
  <2>1. ImtSiblings(tree, index) = f
      BY DEF ImtSiblings
  <2>2. f = [k \in 1..depth |-> f[k]]
      OBVIOUS
  <2> HIDE DEF f
  <2> QED
      BY <2>1, <2>2
<1> QED
    BY <1>1 DEF IsRow
=============================================================================
