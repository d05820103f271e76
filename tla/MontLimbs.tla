----------------------------- MODULE MontLimbs ------------------------------
(***************************************************************************)
(* Field elements in unsaturated limbs with lazy carries (msm_simd::u29x9, *)
(* simd_fft::fr29 and the generated kernels): a register holds a weakly    *)
(* reduced value in Montgomery form, products are accumulated in columns   *)
(* of a fixed width that are never carried inside the loop, and a product  *)
(* may be given operands whose limbs are not normalized.  The four lanes   *)
(* of mul4 and sqr4 do this independently.                                 *)
(***************************************************************************)
EXTENDS Integers, Sequences, Functions, SequencesExt

CONSTANTS
    LimbBits, Limbs,    \* 29 and 9 in the code
    ColumnBits,         \* 64 in the code
    WordBits, Words,    \* 64 and 4 in the code: arkworks' own limbs
    Modulus,
    Samples,            \* the weakly reduced values two registers start from
    MaxOps              \* operations of one behaviour

Base == 2 ^ LimbBits
Column == 2 ^ ColumnBits
Word == 2 ^ WordBits
R == 2 ^ (LimbBits * Limbs)
ArkR == 2 ^ (WordBits * Words)
LimbSet == 0..(Limbs - 1)

\* A column takes the products of two operands with limbs of one bit more, and
\* R is wide enough for the sums that may be multiplied unreduced.
LimbAssumption ==
    /\ Limbs >= 2 /\ R > 16 * Modulus /\ ArkR \in (2 * Modulus)..R
    /\ Modulus % 2 = 1 /\ WordBits > LimbBits
    /\ Limbs * (2 * Base - 1) ^ 2 + Limbs * Base ^ 2 < Column
    /\ Samples \subseteq 0..(2 * Modulus - 1)

-----------------------------------------------------------------------------
(* Limbs *)

ValueOf(limbs) == FoldFunction(LAMBDA v, sum : sum + v, 0, [i \in LimbSet |-> limbs[i] * Base ^ i])
LimbsOf(value) == [i \in LimbSet |-> (value \div Base ^ i) % Base]
P == LimbsOf(Modulus)
P2 == LimbsOf(2 * Modulus)
Mu == CHOOSE mu \in 0..(Base - 1) : (mu * Modulus + 1) % Base = 0
To == LimbsOf(2 ^ (2 * LimbBits * Limbs - WordBits * Words) % Modulus)
From == LimbsOf(ArkR % Modulus)

\* One carry pass; a negative limb borrows.  What leaves the top limb is `out`.
Carried(values) ==
    LET carry[i \in 0..Limbs] ==
            IF i = 0 THEN 0 ELSE (values[i - 1] + carry[i - 1]) \div Base
    IN  [limbs |-> [i \in LimbSet |-> (values[i] + carry[i]) % Base], out |-> carry[Limbs]]

SubIfGeq(a, m) ==
    LET d == Carried([i \in LimbSet |-> a[i] - m[i]])
    IN  IF d.out < 0 THEN a ELSE d.limbs
Canonical(a) == SubIfGeq(a, P)

LimbSum(a, b) == [i \in LimbSet |-> a[i] + b[i]]

AddLimbs(a, b) == SubIfGeq(Carried(LimbSum(a, b)).limbs, P2)

\* A borrow adds 2p modulo R.
SubLimbs(a, b) ==
    LET d == Carried([i \in LimbSet |-> a[i] - b[i]])
    IN  IF d.out < 0 THEN Carried(LimbSum(d.limbs, P2)).limbs ELSE d.limbs

Zero == [i \in LimbSet |-> 0]

IsZero(a) == Canonical(a) = Zero
Equals(a, b) == Canonical(a) = Canonical(b)
\* zero_lanes_base: the two weakly reduced values of zero.
IsZeroLane(a) == a \in {Zero, P}

\* Repacking between words and limbs: a limb may straddle two words.
BitOf(i) == LimbBits * i
Straddles(i) ==
    BitOf(i) % WordBits > WordBits - LimbBits /\ BitOf(i) \div WordBits + 1 < Words

FromWords(words) ==
    [i \in LimbSet |->
        LET w == BitOf(i) \div WordBits
            shift == BitOf(i) % WordBits
            low == words[w] \div 2 ^ shift
        IN  (IF Straddles(i) THEN low + words[w + 1] * 2 ^ (WordBits - shift) ELSE low) % Base]

ToWords(limbs) ==
    LET low(i, w) == IF BitOf(i) \div WordBits = w
                     THEN (limbs[i] * 2 ^ (BitOf(i) % WordBits)) % Word ELSE 0
        high(i, w) == IF Straddles(i) /\ BitOf(i) \div WordBits + 1 = w
                      THEN limbs[i] \div 2 ^ (WordBits - (BitOf(i) % WordBits)) ELSE 0
    IN  [w \in 0..(Words - 1) |->
            FoldFunction(LAMBDA v, sum : sum + v, 0, [i \in LimbSet |-> low(i, w) + high(i, w)])]

-----------------------------------------------------------------------------
(* Elements *)

\* The element a register stands for, and arkworks' integer of an element.
Elements == 0..(Modulus - 1)
RInverse == CHOOSE v \in Elements : (v * R) % Modulus = 1
ElementOf(limbs) == ((ValueOf(limbs) % Modulus) * RInverse) % Modulus
ArkWords(f) == [w \in 0..(Words - 1) |-> (((f * ArkR) % Modulus) \div Word ^ w) % Word]

VARIABLES
    x, y,           \* two registers
    fx, fy,         \* the elements they should hold
    job,            \* the product being computed, or Idle
    columns, round, \* its columns, its next round
    exported,       \* the words last handed to arkworks, and of which element
    ops

vars == <<x, y, fx, fy, job, columns, round, exported, ops>>
registers == <<x, y, fx, fy>>

Idle == [kind |-> "none", a |-> Zero, b |-> Zero, f |-> 0]
Columns == 0..(2 * Limbs - 2)
NoColumns == [k \in Columns |-> 0]

Init ==
    /\ \E v, w \in Samples :
        /\ x = LimbsOf(v) /\ y = LimbsOf(w)
        /\ fx = ElementOf(x) /\ fy = ElementOf(y)
    /\ job = Idle /\ columns = NoColumns /\ round = 0
    /\ exported = [words |-> ArkWords(0), f |-> 0] /\ ops = 0

Operation == job = Idle /\ ops < MaxOps /\ ops' = ops + 1

Computes(limbs, f) ==
    /\ Operation
    /\ x' = limbs /\ fx' = f % Modulus
    /\ UNCHANGED <<y, fy, job, columns, round, exported>>

Add == Computes(AddLimbs(x, y), fx + fy)
Double == Computes(AddLimbs(x, x), fx + fx)
Sub == Computes(SubLimbs(x, y), fx - fy)
Negate == Computes(SubLimbs(Zero, x), -fx)

-----------------------------------------------------------------------------
(* Products *)

\* A row of the operand scan.
MulRow(of, i, c) ==
    [k \in Columns |-> IF k - i \in LimbSet THEN (c[k] + of.a[i] * of.b[k - i]) % Column ELSE c[k]]

\* The squares are added after the cross products are doubled.
CrossProducts(a) ==
    [k \in Columns |->
        FoldFunction(LAMBDA v, sum : (sum + v) % Column, 0,
            [i \in LimbSet |-> IF k - i \in LimbSet /\ 2 * i < k THEN a[i] * a[k - i] ELSE 0])]
SqrColumns(a) ==
    [k \in Columns |->
        (2 * CrossProducts(a)[k]
            + (IF k % 2 = 0 THEN a[k \div 2] * a[k \div 2] ELSE 0)) % Column]

\* The lowest column is made a multiple of the base and carried.
Retired(c, i) ==
    LET q == ((c[i] % Base) * Mu) % Base
        reduced == [k \in Columns |->
            IF k - i \in LimbSet THEN (c[k] + q * P[k - i]) % Column ELSE c[k]]
    IN  [reduced EXCEPT ![i + 1] = (@ + reduced[i] \div Base) % Column]

Begin(kind, a, b, f, c) ==
    /\ Operation
    /\ job' = [kind |-> kind, a |-> a, b |-> b, f |-> f % Modulus]
    /\ columns' = c /\ round' = 0
    /\ UNCHANGED <<registers, exported>>

\* mont_mul, of registers or of limb-wise sums.
BeginMul ==
    \/ Begin("mul", x, y, fx * fy, NoColumns)
    \/ Begin("mul", LimbSum(x, y), y, (fx + fy) * fy, NoColumns)
    \/ Begin("mul", LimbSum(x, y), LimbSum(x, x), (fx + fy) * 2 * fx, NoColumns)

\* mont_sqr.
BeginSqr ==
    \/ Begin("sqr", x, x, fx * fx, SqrColumns(x))
    \/ Begin("sqr", LimbSum(x, y), LimbSum(x, y), (fx + fy) * (fx + fy), SqrColumns(LimbSum(x, y)))

\* from_ark and to_ark: products by constants.
BeginFromArk == Begin("mul", FromWords(ArkWords(fy)), To, fy, NoColumns)
BeginToArk == Begin("ark", x, From, fx, NoColumns)

\* A round: the row of a product's limb and the column it completes.
Rounded(of, i, c) == Retired(IF of.kind = "sqr" THEN c ELSE MulRow(of, i, c), i)

Round ==
    /\ job # Idle /\ round < Limbs
    /\ columns' = Rounded(job, round, columns)
    /\ round' = round + 1
    /\ UNCHANGED <<registers, job, exported, ops>>

\* The final carry pass over the columns that are left.
Normalised(c) == Carried([i \in LimbSet |-> IF i < Limbs - 1 THEN c[Limbs + i] ELSE 0]).limbs

Finish ==
    LET product == Normalised(columns)
    IN  /\ job # Idle /\ round = Limbs
        /\ IF job.kind = "ark"
           THEN /\ exported' = [words |-> ToWords(Canonical(product)), f |-> job.f]
                /\ UNCHANGED <<x, fx>>
           ELSE x' = product /\ fx' = job.f /\ UNCHANGED exported
        /\ job' = Idle /\ columns' = NoColumns /\ round' = 0
        /\ UNCHANGED <<y, fy, ops>>

Next ==
    \/ Add \/ Double \/ Sub \/ Negate
    \/ BeginMul \/ BeginSqr \/ BeginFromArk \/ BeginToArk
    \/ Round \/ Finish

Spec == Init /\ [][Next]_vars

-----------------------------------------------------------------------------
(* Properties *)

\* Between operations both registers are weakly reduced: below 2p, in limbs
\* of the base ("Stored values are weakly reduced", u29x9.rs).
RegistersAreWeaklyReduced ==
    \A r \in {x, y} : r \in [LimbSet -> 0..(Base - 1)] /\ ValueOf(r) < 2 * Modulus

\* ... and hold their elements, whatever operations made them.
RegistersHoldTheirElements == ElementOf(x) = fx /\ ElementOf(y) = fy

\* A register may hold either of two values of an element; the tests see one.
TestsSeeTheElement ==
    /\ IsZero(x) <=> fx = 0
    /\ IsZeroLane(x) <=> fx = 0
    /\ Equals(x, y) <=> fx = fy

\* After i rounds the live columns times Base^i are the part of the product
\* taken so far, modulo p: no column has overflowed, no carry was dropped.
LiveValue == FoldFunction(LAMBDA v, sum : (sum + v) % Modulus, 0,
                [k \in Columns |-> IF k < round THEN 0 ELSE (columns[k] % Modulus) * (Base ^ k % Modulus)])
TakenOf(a) == IF job.kind = "sqr" THEN ValueOf(a)
              ELSE ValueOf([i \in LimbSet |-> IF i < round THEN a[i] ELSE 0])
LiveColumnsHoldTheProduct ==
    job # Idle =>
        LiveValue = ((TakenOf(job.a) % Modulus) * (ValueOf(job.b) % Modulus)) % Modulus

\* What arkworks is given is the canonical integer of the element: it is
\* below p (ark_from_mont_limbs' debug_assert).
ArkworksGetsTheElement == exported.words = ArkWords(exported.f)
=============================================================================
