---------------------------- MODULE AffineBuckets ---------------------------
(***************************************************************************)
(* The affine buckets of one signed window of an MSM (AffineBuckets):      *)
(* additions to pairwise distinct buckets wait in a batch that shares one  *)
(* inversion, points whose bucket is taken are deferred, and buckets whose *)
(* deferred points pile up turn hot and overflow into XYZZ form.  The      *)
(* loops of add and finish are steps; buckets persist across chunks.       *)
(***************************************************************************)
EXTENDS CurveOps, SequencesExt

CONSTANTS
    Buckets,        \* 2^(width - 1)
    BatchSize,      \* batch_size
    MinRetryBatch,  \* MIN_RETRY_BATCH
    Bases,          \* the points of a query
    MaxPoints       \* points folded into the window over the run

BucketsAssumption ==
    /\ Buckets \in Nat \ {0} /\ BatchSize \in Nat \ {0} /\ MinRetryBatch \in Nat
    /\ Bases \subseteq Points /\ MaxPoints \in Nat

Slots == 0..(Buckets - 1)

VARIABLES
    buckets, overflow,  \* overflow is <<>> until it is allocated
    batch,              \* PendingAdd: a bucket and a point
    deferred,
    state,              \* FREE, SCHEDULED or HOT
    at,                 \* open, the loops of add and finish, finished
    folded, total       \* ghost: points folded, and the sum of each bucket's

window == <<buckets, overflow, batch, deferred, state>>
vars == <<window, at, folded, total>>

EmptyBuckets == [slot \in Slots |-> Identity]

Init ==
    /\ buckets = EmptyBuckets /\ overflow = <<>>
    /\ batch = <<>> /\ deferred = <<>>
    /\ state = [slot \in Slots |-> "FREE"]
    /\ at = "open" /\ folded = 0 /\ total = EmptyBuckets

Of(slot, point) == [slot |-> slot, point |-> point]

\* The window as a value, for the loops that run over it.
Window == [buckets |-> buckets, overflow |-> overflow, batch |-> batch,
           deferred |-> deferred, state |-> state]
Becomes(w) ==
    /\ buckets' = w.buckets /\ overflow' = w.overflow /\ batch' = w.batch
    /\ deferred' = w.deferred /\ state' = w.state

-----------------------------------------------------------------------------
(* Scheduling *)

Scheduled(w, slot, point) ==
    [w EXCEPT !.state[slot] = "SCHEDULED", !.batch = Append(@, Of(slot, point))]

Overflowed(w, slot, point) == [w EXCEPT !.overflow[slot] = @ ++ point]

\* Every deferred point goes to the overflow of its bucket, which turns hot.
Spilled(w) ==
    IF w.deferred = <<>> THEN w
    ELSE FoldLeft(LAMBDA v, d : [Overflowed(v, d.slot, d.point) EXCEPT !.state[d.slot] = "HOT"],
                  [w EXCEPT !.overflow = IF @ = <<>> THEN EmptyBuckets ELSE @, !.deferred = <<>>],
                  w.deferred)

Deferred(w, slot, point) ==
    LET v == IF Len(w.deferred) = BatchSize THEN Spilled(w) ELSE w
    IN  [v EXCEPT !.deferred = Append(@, Of(slot, point))]

Placed(w, slot, point) ==
    IF w.buckets[slot] = Identity THEN [w EXCEPT !.buckets[slot] = point]
    ELSE Scheduled(w, slot, point)

Added(w, slot, point) ==
    IF point = Identity THEN w
    ELSE CASE w.state[slot] = "FREE" -> Placed(w, slot, point)
           [] w.state[slot] = "SCHEDULED" -> Deferred(w, slot, point)
           [] OTHER -> Overflowed(w, slot, point)

\* Deferred points, oldest first, whose bucket is now free.
Retried(w) ==
    FoldLeft(LAMBDA v, d :
                CASE v.state[d.slot] = "FREE" /\ Len(v.batch) < BatchSize
                        -> Placed(v, d.slot, d.point)
                  [] v.state[d.slot] = "HOT" -> Overflowed(v, d.slot, d.point)
                  [] OTHER -> [v EXCEPT !.deferred = Append(@, d)],
             [w EXCEPT !.deferred = <<>>], w.deferred)

-----------------------------------------------------------------------------
(* A batch *)

StepOf(p, q) ==
    IF p[1] # q[1] THEN "Add"
    ELSE IF p[2] = q[2] /\ p[2] # 0 THEN "Double"
    ELSE "Cancel"

Denominator(p, q) ==
    CASE StepOf(p, q) = "Add" -> FSub(q[1], p[1])
      [] StepOf(p, q) = "Double" -> FAdd(p[2], p[2])
      [] OTHER -> 1
Numerator(p, q) ==
    IF StepOf(p, q) = "Add" THEN FSub(q[2], p[2]) ELSE FMul(3 * p[1] * p[1], 1)

\* What the forward pass multiplies before the i-th addition.
Prefix(w, i) ==
    FoldLeft(LAMBDA product, a : FMul(product, Denominator(w.buckets[a.slot], a.point)),
             1, SubSeq(w.batch, 1, i - 1))
Product(w) == Prefix(w, Len(w.batch) + 1)

\* The backward pass peels each inverse off the running product.
Peeled(w, i, inverse) ==
    LET a == w.batch[i]
        p == w.buckets[a.slot]
        lambda == FMul(Numerator(p, a.point), FMul(inverse, Prefix(w, i)))
    IN  IF StepOf(p, a.point) = "Cancel" THEN Identity ELSE OnLine(lambda, p, a.point)

\* A bucket is free again unless it turned hot while its addition waited.
StateAfter(s) == IF s = "SCHEDULED" THEN "FREE" ELSE s

Applied(w) ==
    IF w.batch = <<>> THEN w
    ELSE LET n == Len(w.batch)
             inverse[i \in 1..n] ==
                IF i = n THEN FInv(Product(w))
                ELSE FMul(inverse[i + 1], Denominator(w.buckets[w.batch[i + 1].slot], w.batch[i + 1].point))
         IN  [FoldLeftDomain(LAMBDA v, i :
                 LET slot == w.batch[i].slot
                 IN  [v EXCEPT !.buckets[slot] = Peeled(w, i, inverse[i]),
                               !.state[slot] = StateAfter(@)],
                 w, w.batch) EXCEPT !.batch = <<>>]

-----------------------------------------------------------------------------
(* The calls *)

\* add_digit: a balanced digit picks the bucket and the sign.
SlotOf(digit) == IF digit > 0 THEN digit - 1 ELSE -digit - 1

\* The loop of add is entered while the batch is full.
LoopAfter(w) == IF Len(w.batch) = BatchSize THEN "full" ELSE "open"

AddDigit(digit, base) ==
    LET point == IF digit > 0 THEN base ELSE Neg(base)
        w == IF digit = 0 THEN Window ELSE Added(Window, SlotOf(digit), point)
    IN  /\ at = "open" /\ folded < MaxPoints
        /\ folded' = folded + 1
        /\ Becomes(w)
        /\ at' = LoopAfter(w)
        /\ total' = IF digit = 0 THEN total
                    ELSE [total EXCEPT ![SlotOf(digit)] = @ ++ point]

\* One turn of the loop of add: apply_batch, retry_deferred.
ApplyFull ==
    LET w == Retried(Applied(Window))
    IN  /\ at = "full"
        /\ Becomes(w)
        /\ at' = LoopAfter(w)
        /\ UNCHANGED <<folded, total>>

\* The last retry: too few deferred points found a free bucket.
Concentrated(w) == Len(w.batch) < MinRetryBatch

\* One turn of the loop of finish.
FinishTurn ==
    LET applied == Applied(Window)
        retried == Retried(applied)
        done == applied.deferred = <<>>
    IN  /\ at \in {"open", "finishing"}
        /\ \/ done /\ Becomes(applied) /\ at' = "finished"
           \/ /\ ~done /\ Concentrated(retried)
              /\ Becomes(Spilled(Applied(retried))) /\ at' = "finished"
           \/ ~done /\ ~Concentrated(retried) /\ Becomes(retried) /\ at' = "finishing"
        /\ UNCHANGED <<folded, total>>

\* release_scratch between the chunks of a query: the buckets stay.
ReleaseScratch ==
    /\ at = "finished" /\ folded < MaxPoints
    /\ batch' = <<>> /\ deferred' = <<>>
    /\ at' = "open"
    /\ UNCHANGED <<buckets, overflow, state, folded, total>>

Digits == (-Buckets)..Buckets
Next ==
    \/ \E digit \in Digits, base \in Bases : AddDigit(digit, base)
    \/ ApplyFull \/ FinishTurn \/ ReleaseScratch

Spec == Init /\ [][Next]_vars

\* window_sum: the running sum over the buckets and their overflow.
WindowSum ==
    LET running[slot \in 0..Buckets] ==
            IF slot = Buckets THEN Identity
            ELSE running[slot + 1] ++ buckets[slot]
                 ++ (IF overflow = <<>> THEN Identity ELSE overflow[slot])
    IN  SumOf([slot \in Slots |-> running[slot]])

-----------------------------------------------------------------------------
(* Properties *)

Pending(slot, points) ==
    FoldLeft(LAMBDA sum, a : IF a.slot = slot THEN sum ++ a.point ELSE sum, Identity, points)

\* Buckets hold points of the curve, and neither list outgrows the scratch it
\* was given.
TypeOK ==
    /\ buckets \in [Slots -> Points]
    /\ overflow = <<>> \/ overflow \in [Slots -> Points]
    /\ state \in [Slots -> {"FREE", "SCHEDULED", "HOT"}]
    /\ \A list \in {batch, deferred} :
        /\ Len(list) <= BatchSize
        /\ \A i \in 1..Len(list) : list[i].slot \in Slots /\ list[i].point \in Points \ {Identity}

\* No two additions of a batch depend on each other, a bucket is taken exactly
\* while one waits for it or since it turned hot, and an addition never waits
\* for an empty bucket, whose coordinates mean nothing.
BatchIsIndependent ==
    /\ \A i, j \in 1..Len(batch) : batch[i].slot = batch[j].slot => i = j
    /\ \A slot \in Slots :
        LET waits == \E i \in 1..Len(batch) : batch[i].slot = slot
        IN  /\ state[slot] = "SCHEDULED" => waits
            /\ waits => state[slot] # "FREE" /\ buckets[slot] # Identity

\* The batch's shared inversion exists: "batch-affine denominators are
\* non-zero" (apply_batch's expect).
InversionExists == Product(Window) # 0

\* Whatever was scheduled, deferred, retried or spilled, the points of a bucket
\* still add up to what was folded into it.
NoPointIsLost ==
    \A slot \in Slots :
        total[slot] = buckets[slot]
                      ++ (IF overflow = <<>> THEN Identity ELSE overflow[slot])
                      ++ Pending(slot, batch) ++ Pending(slot, deferred)

\* A finished window holds nothing back, and its running sum weights each
\* bucket's points by its digit (window_sum's debug_assert).
FinishedWindowIsWhole ==
    at = "finished" =>
        /\ batch = <<>> /\ deferred = <<>>
        /\ \A slot \in Slots : state[slot] # "SCHEDULED"
        /\ WindowSum = SumOf([slot \in Slots |-> Times(slot + 1, total[slot])])
=============================================================================
