-------------------------------- MODULE Ntt --------------------------------
(***************************************************************************)
(* The SIMD transform of the witness map (simd_fft): an inverse DFT, the   *)
(* coset scaling and a forward DFT fused into one depth-first pass over    *)
(* vectors of four lanes, in which no bit reversal is ever materialized.   *)
(*                                                                         *)
(* Elements are field elements kept below twice the modulus.  Vector k of  *)
(* n/4 holds elements k, k+n/4, k+n/2 and k+3n/4 of the input.             *)
(***************************************************************************)
EXTENDS Naturals, Sequences, SequencesExt

CONSTANTS
    P,          \* the field's modulus
    Generator,  \* a generator of its multiplicative group
    Sizes,      \* domain sizes
    Leaves,     \* leaf block sizes
    Shifts      \* coset shifts

NttAssumption ==
    /\ P \in Nat \ {0, 1} /\ Generator \in 1..(P - 1)
    /\ \A n \in Sizes : n \in Nat /\ n >= 8 /\ n % 4 = 0 /\ (P - 1) % n = 0
    /\ \A leaf \in Leaves : leaf \in Nat /\ leaf >= 2
    /\ Shifts \subseteq 1..(P - 1)

VARIABLES
    job,        \* the domain, its leaf size, its shift and the input
    buf,        \* the packed vectors
    split,      \* the blocks whose stage down has run
    joined,     \* the blocks that are done
    stage,      \* "pack", "recurse" or "done"
    output

vars == <<job, buf, split, joined, stage, output>>

-----------------------------------------------------------------------------
(* The field *)

RECURSIVE Pow(_, _)
Pow(x, k) ==
    IF k = 0 THEN 1
    ELSE LET half == Pow((x * x) % P, k \div 2)
         IN  IF k % 2 = 0 THEN half ELSE (half * x) % P
InverseOf(x) == Pow(x, P - 2)
Root(n) == Pow(Generator, (P - 1) \div n)

\* add4, sub4: one conditional correction by twice the modulus.
Add(x, y) == IF x + y >= 2 * P THEN (x + y) - 2 * P ELSE x + y
Sub(x, y) == IF x < y THEN (x + 2 * P) - y ELSE x - y
Mul(x, y) == (x * y) % P
Reduce(x) == IF x >= P THEN x - P ELSE x

-----------------------------------------------------------------------------
(* The schedule *)

\* omega^k for k below n/2.
Plan(n, omega) == [k \in 0..((n \div 2) - 1) |-> Pow(omega, k)]

\* k with its bits reversed, of `size` = 2^bits values.
RECURSIVE Rev(_, _)
Rev(k, size) ==
    IF size = 1 THEN 0
    ELSE (k % 2) * (size \div 2) + Rev(k \div 2, size \div 2)

\* Everything `with_leaf` prepares for one domain.
StepOf(n, leafSize, g) ==
    LET q == n \div 4
        leaf == IF leafSize < q THEN leafSize ELSE q
        blocks == q \div leaf
        lane == <<1, Mul(g, g), g, Mul(Mul(g, g), g)>>
    IN  [n |-> n, leaf |-> leaf,
         inv |-> Plan(n, InverseOf(Root(n))), fwd |-> Plan(n, Root(n)),
         scaleLeaf |-> [r \in 0..(leaf - 1) |->
             [l \in 1..4 |-> Mul(Mul(InverseOf(n % P), Pow(g, 4 * blocks * Rev(r, leaf))), lane[l])]],
         scaleBlock |-> [b \in 0..(blocks - 1) |-> Pow(g, 4 * Rev(b, blocks))]]

\* One lane-wise butterfly of two vectors: decimation in frequency and in time.
Dif(x, y, w) == <<[l \in 1..4 |-> Add(x[l], y[l])], [l \in 1..4 |-> Mul(Sub(x[l], y[l]), w)]>>
Dit(x, y, w) ==
    LET t == [l \in 1..4 |-> Mul(y[l], w)]
    IN  <<[l \in 1..4 |-> Add(x[l], t[l])], [l \in 1..4 |-> Sub(x[l], t[l])]>>

\* The two stages that pair lanes of one vector, and their transpose.
DifLanes(v, tw, k, q) ==
    LET s == <<Add(v[1], v[3]), Add(v[2], v[4]),
               Mul(Sub(v[1], v[3]), tw[k]), Mul(Sub(v[2], v[4]), tw[k + q])>>
    IN  <<Add(s[1], s[2]), Mul(Sub(s[1], s[2]), tw[2 * k]),
          Add(s[3], s[4]), Mul(Sub(s[3], s[4]), tw[2 * k])>>
DitLanes(v, tw, k, q) ==
    LET t2 == Mul(v[2], tw[2 * k])
        t4 == Mul(v[4], tw[2 * k])
        s == <<Add(v[1], t2), Sub(v[1], t2), Add(v[3], t4), Sub(v[3], t4)>>
        u3 == Mul(s[3], tw[k])
        u4 == Mul(s[4], tw[k + q])
    IN  <<Add(s[1], u3), Add(s[2], u4), Sub(s[1], u3), Sub(s[2], u4)>>

\* Vectors from..from+2m-1 after one stage of half-size m.
Stage(vectors, from, m, stride, tw, butterfly(_, _, _)) ==
    [i \in DOMAIN vectors |->
        IF i < from \/ i >= from + 2 * m THEN vectors[i]
        ELSE LET j == (i - from) % m
             IN  butterfly(vectors[from + j], vectors[from + j + m], tw[j * stride])
                     [1 + ((i - from) \div m)]]

\* All blocks of 2m vectors of a leaf.
RECURSIVE Blocks(_, _, _, _, _, _)
Blocks(vectors, from, len, m, step, down) ==
    IF len = 0 THEN vectors
    ELSE LET stride == step.n \div (2 * m)
             one == IF down THEN Stage(vectors, from, m, stride, step.inv, Dif)
                    ELSE Stage(vectors, from, m, stride, step.fwd, Dit)
         IN  Blocks(one, from + 2 * m, len - 2 * m, m, step, down)

RECURSIVE Descend(_, _, _, _)
Descend(vectors, from, m, step) ==
    IF m = 0 THEN vectors
    ELSE Descend(Blocks(vectors, from, step.leaf, m, step, TRUE), from, m \div 2, step)
RECURSIVE Ascend(_, _, _, _)
Ascend(vectors, from, m, step) ==
    IF m >= step.leaf THEN vectors
    ELSE Ascend(Blocks(vectors, from, step.leaf, m, step, FALSE), from, 2 * m, step)

\* n^-1 g^c for the coefficient c each lane of vector i holds.
ScaleOf(step, i) ==
    [l \in 1..4 |-> Mul(step.scaleLeaf[i % step.leaf][l], step.scaleBlock[i \div step.leaf])]

\* leaf_block: every remaining stage down, the scaling, and the stages up.
LeafBlock(vectors, from, step) ==
    LET down == Descend(vectors, from, step.leaf \div 2, step)
        scaled == [i \in DOMAIN down |->
                      IF i \in from..(from + step.leaf - 1)
                      THEN [l \in 1..4 |-> Mul(down[i][l], ScaleOf(step, i)[l])]
                      ELSE down[i]]
    IN  Ascend(scaled, from, 1, step)

-----------------------------------------------------------------------------
(* One application of the step *)

\* The transforms are linear, so the unit vectors stand for every input.
Unit(n, i) == [k \in 0..(n - 1) |-> IF k = i THEN 1 ELSE 0]

Init ==
    /\ \E n \in Sizes, leaf \in Leaves, g \in Shifts :
           \E i \in 0..(n - 1) : job = [n |-> n, leaf |-> leaf, g |-> g, input |-> i]
    /\ buf = <<>> /\ split = {} /\ joined = {} /\ stage = "pack" /\ output = <<>>

TheStep == StepOf(job.n, job.leaf, job.g)
WholeBlock == [from |-> 0, len |-> job.n \div 4]

Pack ==
    /\ stage = "pack"
    /\ LET q == job.n \div 4
           x == Unit(job.n, job.input)
           tw == Plan(job.n, InverseOf(Root(job.n)))
       IN  buf' = [k \in 0..(q - 1) |->
                      DifLanes(<<x[k], x[k + q], x[k + 2 * q], x[k + 3 * q]>>, tw, k, q)]
    /\ stage' = "recurse"
    /\ UNCHANGED <<job, split, joined, output>>

Halves(b) == {[from |-> b.from, len |-> b.len \div 2],
              [from |-> b.from + b.len \div 2, len |-> b.len \div 2]}

\* The halves of a split block recurse in any order (rayon::join), each on its
\* own part of the buffer.
Visited == ({WholeBlock} \cup UNION {Halves(b) : b \in split}) \ (split \cup joined)

\* recurse: the block's stage down, then both halves,
Split(b) ==
    /\ stage = "recurse" /\ b.len > TheStep.leaf
    /\ LET m == b.len \div 2
       IN  buf' = Stage(buf, b.from, m, job.n \div (2 * m), TheStep.inv, Dif)
    /\ split' = split \cup {b}
    /\ UNCHANGED <<job, joined, stage, output>>

Leaf(b) ==
    /\ stage = "recurse" /\ b.len <= TheStep.leaf
    /\ buf' = LeafBlock(buf, b.from, TheStep)
    /\ joined' = joined \cup {b}
    /\ UNCHANGED <<job, split, stage, output>>

HalvesDone(b) == Halves(b) \subseteq joined

\* then its stage up.
Join(b) ==
    /\ stage = "recurse" /\ HalvesDone(b)
    /\ LET m == b.len \div 2
       IN  buf' = Stage(buf, b.from, m, job.n \div (2 * m), TheStep.fwd, Dit)
    /\ joined' = joined \cup {b}
    /\ UNCHANGED <<job, split, stage, output>>

\* The packed copy is wiped when its values have been handed back.
Unpack ==
    /\ stage = "recurse" /\ WholeBlock \in joined
    /\ LET q == job.n \div 4
           v == [k \in 0..(q - 1) |-> DitLanes(buf[k], TheStep.fwd, k, q)]
       IN  output' = [i \in 0..(job.n - 1) |-> Reduce(v[i % q][1 + (i \div q)])]
    /\ buf' = [k \in DOMAIN buf |-> <<0, 0, 0, 0>>]
    /\ stage' = "done"
    /\ UNCHANGED <<job, split, joined>>

Next ==
    \/ Pack \/ Unpack
    \/ \E b \in Visited : Split(b) \/ Leaf(b)
    \/ \E b \in split \ joined : Join(b)
Spec == Init /\ [][Next]_vars

-----------------------------------------------------------------------------
(* Properties *)

\* Every lane stays below twice the modulus, which the corrections rely on.
TypeOK ==
    /\ stage \in {"pack", "recurse", "done"}
    /\ \A k \in DOMAIN buf : \A l \in 1..4 : buf[k][l] \in 0..(2 * P - 1)
    /\ \A i \in DOMAIN output : output[i] \in 0..(P - 1)

\* The fused step is ark-poly's ifft, distribute_powers and fft, value for
\* value: output i is the input's polynomial at g times the i-th root.
StepIsTheWitnessMap ==
    stage = "done" =>
        LET n == job.n
            w == Root(n)
            coefficient == [j \in 0..(n - 1) |->
                (InverseOf(n % P) * Pow(InverseOf(w), (j * job.input) % n)) % P]
            value(i) ==
                LET term[j \in 0..n] ==
                        IF j = 0 THEN 0
                        ELSE (term[j - 1] + coefficient[j - 1] *
                              ((Pow(job.g, j - 1) * Pow(w, (i * (j - 1)) % n)) % P)) % P
                IN  term[n]
        IN  \A i \in 0..(n - 1) : output[i] = value(i)

\* No bit reversal is materialized: the scaling a lane receives is n^-1 g^c
\* for c = 4 rev(k) + [0, 2, 1, 3][l], the coefficient the lane holds.
ScalingFollowsTheLayout ==
    stage = "recurse" /\ split \cup joined = {} =>
        \A k \in DOMAIN buf : \A l \in 1..4 :
            ScaleOf(TheStep, k)[l] =
                Mul(InverseOf(job.n % P), Pow(job.g, 4 * Rev(k, job.n \div 4) + <<0, 2, 1, 3>>[l]))
=============================================================================
