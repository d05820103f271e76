----------------------------- MODULE LaneKernel -----------------------------
(***************************************************************************)
(* The SIMD kernel under AffineBuckets (msm_simd): a batch is applied in   *)
(* groups of Lanes additions, each lane with a prefix chain of its own and *)
(* one inversion for all of them, and a window's buckets are reduced in    *)
(* one segment per lane with XYZZ formulas that leave their exceptional    *)
(* cases to scalar code.                                                   *)
(***************************************************************************)
EXTENDS CurveOps, SequencesExt

CONSTANTS
    Lanes,      \* 4 in the code
    Windows     \* records [buckets, overflow, batch] a window may be in

LaneSet == 0..(Lanes - 1)

LaneAssumption ==
    /\ Lanes \in Nat \ {0}
    /\ \A w \in Windows : Len(w.buckets) >= Lanes => Len(w.buckets) % Lanes = 0

VARIABLES
    given,      \* the window as the scheduler left it
    buckets, steps,
    prefix, dens, product, inverse,     \* by group, and by lane
    running, sum,                       \* the reduction's accumulators
    at, index, result

batchVars == <<buckets, steps, prefix, dens, product, inverse>>
reduceVars == <<running, sum>>
vars == <<given, batchVars, reduceVars, at, index, result>>

-----------------------------------------------------------------------------
(* Points in XYZZ form *)

XyzzZero == <<1, 1, 0, 0>>
IsZero(r) == r[3] = 0 /\ r[4] = 0
Seeded(a) == <<a[1], a[2], 1, 1>>
ToPoint(r) == IF IsZero(r) THEN Identity ELSE <<FMul(r[1], FInv(r[3])), FMul(r[2], FInv(r[4]))>>

Sq(a) == FMul(a, a)
\* mdbl-2008-s-1, dbl-2008-s-1, with a = 0.
DoubleXyzz(r) ==
    LET u == FAdd(r[2], r[2])
        v == Sq(u)
        w == FMul(u, v)
        s == FMul(r[1], v)
        m == FMul(3, Sq(r[1]))
        x == FSub(Sq(m), FAdd(s, s))
    IN  <<x, FSub(FMul(m, FSub(s, x)), FMul(w, r[2])), FMul(r[3], v), FMul(r[4], w)>>

\* add-2008-s; madd-2008-s is its case ZZ2 = ZZZ2 = 1.  It is not defined when
\* the x coordinates agree.
GeneralAdd(s, r) ==
    LET u1 == FMul(s[1], r[3])
        p == FSub(FMul(r[1], s[3]), u1)
        s1 == FMul(s[2], r[4])
        rr == FSub(FMul(r[2], s[4]), s1)
        ppp == FMul(Sq(p), p)
        q == FMul(u1, Sq(p))
        x == FSub(FSub(Sq(rr), ppp), FAdd(q, q))
    IN  <<x, FSub(FMul(rr, FSub(q, x)), FMul(s1, ppp)),
          FMul(FMul(s[3], r[3]), Sq(p)), FMul(FMul(s[4], r[4]), ppp)>>
SameX(s, r) == FMul(s[1], r[3]) = FMul(r[1], s[3])
SameY(s, r) == FMul(s[2], r[4]) = FMul(r[2], s[4])

AddXyzz(s, r) ==
    IF IsZero(s) THEN r
    ELSE IF IsZero(r) THEN s
    ELSE IF SameX(s, r) THEN (IF SameY(s, r) THEN DoubleXyzz(s) ELSE XyzzZero)
    ELSE GeneralAdd(s, r)

-----------------------------------------------------------------------------
(* A batch in lanes *)

Count == Len(buckets)
Batch == given.batch
Groups == (Len(Batch) + Lanes - 1) \div Lanes
\* The addition lane l makes in group g, 0 past the end of the batch.
Member(g, l) == IF g * Lanes + l < Len(Batch) THEN g * Lanes + l + 1 ELSE 0

StepOf(p, q) ==
    IF p[1] # q[1] THEN "Add"
    ELSE IF p[2] = q[2] /\ p[2] # 0 THEN "Double"
    ELSE "Cancel"
\* An absent or cancelling addition has denominator 1: its chain is unaffected.
Denominator(k) ==
    IF k = 0 THEN 1
    ELSE LET p == buckets[Batch[k].slot]
             q == Batch[k].point
         IN  CASE StepOf(p, q) = "Add" -> FSub(q[1], p[1])
               [] StepOf(p, q) = "Double" -> FAdd(p[2], p[2])
               [] OTHER -> 1

Ones == [l \in LaneSet |-> 1]

Init ==
    /\ given \in Windows
    /\ buckets = given.buckets
    /\ steps = <<>> /\ prefix = <<>> /\ dens = <<>>
    /\ product = Ones /\ inverse = Ones
    /\ running = [l \in LaneSet |-> XyzzZero] /\ sum = [l \in LaneSet |-> XyzzZero]
    /\ at = "forward" /\ index = 0 /\ result = Identity

\* One group of the forward pass: classify, chain the denominators by lane.
Forward ==
    LET den == [l \in LaneSet |-> Denominator(Member(index, l))]
    IN  /\ at = "forward" /\ index < Groups
        /\ steps' = steps \o [l \in 1..Lanes |->
                LET k == Member(index, l - 1)
                IN  IF k = 0 THEN "none" ELSE StepOf(buckets[Batch[k].slot], Batch[k].point)]
        /\ prefix' = Append(prefix, product)
        /\ dens' = Append(dens, den)
        /\ product' = [l \in LaneSet |-> FMul(product[l], den[l])]
        /\ index' = index + 1
        /\ UNCHANGED <<given, buckets, inverse, reduceVars, at, result>>

OthersProduct(lanes, l) ==
    LET from[m \in 0..Lanes] ==
            IF m = Lanes THEN 1 ELSE FMul(IF m = l THEN 1 ELSE lanes[m], from[m + 1])
    IN  from[0]

\* One inversion for the products of all lanes, split between them.
Split(lanes) ==
    LET all == FMul(lanes[0], OthersProduct(lanes, 0))
    IN  [l \in LaneSet |-> FMul(FInv(all), OthersProduct(lanes, l))]

Invert ==
    /\ at = "forward" /\ index = Groups
    /\ inverse' = Split(product)
    /\ at' = "backward"
    /\ UNCHANGED <<given, buckets, steps, prefix, dens, product, reduceVars, index, result>>

NumeratorOf(k) ==
    LET p == buckets[Batch[k].slot]
        q == Batch[k].point
    IN  IF steps[k] = "Double" THEN FMul(3, Sq(p[1])) ELSE FSub(q[2], p[2])

\* Mutation: a cancelling lane is not patched.
SumAt_Unpatched(g, l) ==
    LET k == Member(g, l)
        p == buckets[Batch[k].slot]
        lambda == FMul(NumeratorOf(k), FMul(inverse[l], prefix[g + 1][l]))
    IN  IF steps[k] = "Cancel" THEN p ELSE OnLine(lambda, p, Batch[k].point)

\* The sum of the k-th addition, from its lane's inverse.
SumAt(g, l) ==
    LET k == Member(g, l)
        p == buckets[Batch[k].slot]
        lambda == FMul(NumeratorOf(k), FMul(inverse[l], prefix[g + 1][l]))
    IN  IF steps[k] = "Cancel" THEN Identity ELSE OnLine(lambda, p, Batch[k].point)

\* A lane's inverse without the denominator it has used.
PeeledBy(g) == [l \in LaneSet |-> FMul(inverse[l], dens[g + 1][l])]

\* One group of the backward pass.
Backward ==
    LET g == index - 1
        LanesOf(slot) == {l \in LaneSet : Member(g, l) # 0 /\ Batch[Member(g, l)].slot = slot}
    IN  /\ at = "backward" /\ index > 0
        /\ buckets' = [slot \in 1..Count |->
                IF LanesOf(slot) = {} THEN buckets[slot]
                ELSE SumAt(g, CHOOSE l \in LanesOf(slot) : TRUE)]
        /\ inverse' = PeeledBy(g)
        /\ index' = g
        /\ UNCHANGED <<given, steps, prefix, dens, product, reduceVars, at, result>>

-----------------------------------------------------------------------------
(* The reduction of a window *)

\* Fewer buckets than lanes are reduced by scalar code.
Scalar == Count < Lanes
Segment == IF Scalar THEN Count ELSE Count \div Lanes
LanesUsed == IF Scalar THEN {0} ELSE LaneSet

StartReduction ==
    /\ at = "backward" /\ index = 0
    /\ at' = "reduce" /\ index' = Segment
    /\ UNCHANGED <<given, batchVars, reduceVars, result>>

OverflowAt(k) == IF given.overflow = <<>> THEN XyzzZero ELSE given.overflow[k]

\* A lane whose accumulator is zero is seeded; one whose x agrees is redone
\* with scalar code; the general formula is kept in the others.
Accumulated(acc, wasZero, term, termZero) ==
    IF termZero THEN acc
    ELSE IF wasZero THEN term
    ELSE IF SameX(acc, term) THEN AddXyzz(acc, term)
    ELSE GeneralAdd(acc, term)

\* One step of every lane: running += bucket + overflow, sum += running.
ReduceStep ==
    LET k(l) == l * Segment + index
        grown == [l \in LaneSet |->
            IF l \notin LanesUsed THEN running[l]
            ELSE AddXyzz(Accumulated(running[l], IsZero(running[l]),
                                     Seeded(buckets[k(l)]), buckets[k(l)] = Identity),
                         OverflowAt(k(l)))]
    IN  /\ at = "reduce" /\ index > 0
        /\ running' = grown
        /\ sum' = [l \in LaneSet |->
                Accumulated(sum[l], IsZero(sum[l]), grown[l], IsZero(grown[l]))]
        /\ index' = index - 1
        /\ UNCHANGED <<given, batchVars, at, result>>

\* A lane's first bucket weighs l * Segment more than in its own segment.
LaneTotal(l) == ToPoint(sum[l]) ++ Times(l * Segment, ToPoint(running[l]))

Combine ==
    /\ at = "reduce" /\ index = 0
    /\ result' = SumOf([l \in LanesUsed |-> LaneTotal(l)])
    /\ at' = "done"
    /\ UNCHANGED <<given, batchVars, reduceVars, index>>

Next == Forward \/ Invert \/ Backward \/ StartReduction \/ ReduceStep \/ Combine

Spec == Init /\ [][Next]_vars

-----------------------------------------------------------------------------
(* Properties *)

\* Field elements are reduced, buckets are on the curve whatever exceptional
\* case made them, and no chain is multiplied by zero.
TypeOK ==
    /\ buckets \in Seq(Points) /\ result \in Points
    /\ product \in [LaneSet -> F \ {0}] /\ inverse \in [LaneSet -> F \ {0}]
    /\ running \in [LaneSet -> F \X F \X F \X F] /\ sum \in [LaneSet -> F \X F \X F \X F]

\* In the backward pass each lane holds the inverse of the product of its own
\* denominators that are still to be used, whatever the other lanes hold.
LanesKeepTheirInverse ==
    at = "backward" =>
        \A l \in LaneSet :
            LET left[g \in 0..Groups] == IF g = 0 THEN 1 ELSE FMul(left[g - 1], dens[g][l])
            IN  FMul(inverse[l], left[index]) = 1

\* A batch in lanes is the batch of AffineBuckets: each bucket gains its point.
BatchAddsItsPoints ==
    at \in {"reduce", "done"} =>
        \A slot \in 1..Count :
            buckets[slot] = given.buckets[slot]
                ++ FoldLeft(LAMBDA p, a : IF a.slot = slot THEN p ++ a.point ELSE p, Identity, Batch)

BucketTotal(k) == buckets[k] ++ ToPoint(OverflowAt(k))

\* Each lane's accumulators are the sums of its own segment so far, through
\* empty buckets, doublings, cancellations to zero and overflow.
LanesSumTheirSegment ==
    at = "reduce" =>
        \A l \in LanesUsed :
            /\ ToPoint(running[l]) =
                SumOf([k \in (l * Segment + index + 1)..((l + 1) * Segment) |-> BucketTotal(k)])
            /\ ToPoint(sum[l]) =
                SumOf([k \in (l * Segment + index + 1)..((l + 1) * Segment) |->
                        Times(k - l * Segment - index, BucketTotal(k))])

\* The lanes together weigh bucket k by its digit, as one running sum does.
WindowSumIsWeighted ==
    at = "done" => result = SumOf([k \in 1..Count |-> Times(k, BucketTotal(k))])
=============================================================================
