------------------------------ MODULE CurveOps ------------------------------
(***************************************************************************)
(* The group of a short Weierstrass curve y^2 = x^3 + B over a prime field *)
(* Q, as the multi-scalar multiplication uses it: the group is external    *)
(* (ark-ec); only what a sum is matters here.                              *)
(***************************************************************************)
EXTENDS Integers, Sequences, Functions, FiniteSets

CONSTANTS Q, B, Identity

F == 0..(Q - 1)
Points == {Identity} \cup {p \in F \X F : (p[2] * p[2]) % Q = (p[1] * p[1] * p[1] + B) % Q}

FAdd(a, b) == (a + b) % Q
FSub(a, b) == (a - b + Q) % Q
FMul(a, b) == (a * b) % Q
Inverses == [a \in F \ {0} |-> CHOOSE b \in F : FMul(a, b) = 1]
FInv(a) == Inverses[a]

Neg(p) == IF p = Identity THEN Identity ELSE <<p[1], FSub(0, p[2])>>

\* The third point of the line of slope `lambda` through p and q, reflected.
OnLine(lambda, p, q) ==
    LET x == FSub(FSub(FMul(lambda, lambda), p[1]), q[1])
    IN  <<x, FSub(FMul(lambda, FSub(p[1], x)), p[2])>>

PointSum(p, q) ==
    IF p = Identity THEN q
    ELSE IF q = Identity THEN p
    ELSE IF p[1] # q[1] THEN OnLine(FMul(FSub(q[2], p[2]), FInv(FSub(q[1], p[1]))), p, q)
    ELSE IF p = q /\ p[2] # 0 THEN OnLine(FMul(3 * p[1] * p[1], FInv(FAdd(p[2], p[2]))), p, p)
    ELSE Identity
Sums == [p \in Points, q \in Points |-> PointSum(p, q)]
p ++ q == Sums[p, q]

\* k times p, for k in Nat.
Times(k, p) ==
    LET times[n \in Nat] ==
            IF n = 0 THEN Identity
            ELSE LET half == times[n \div 2]
                 IN  IF n % 2 = 0 THEN half ++ half ELSE half ++ half ++ p
    IN  times[k]
SumOf(points) == FoldFunction(LAMBDA q, sum : sum ++ q, Identity, points)
=============================================================================
