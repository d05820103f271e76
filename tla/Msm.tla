-------------------------------- MODULE Msm ---------------------------------
(***************************************************************************)
(* The scheduling of a multi-scalar multiplication (msm): scalars are cut  *)
(* into balanced signed digits, each window folds its digits into buckets  *)
(* on any worker in any order, and the windows' sums are combined.  Zeros  *)
(* and ones may be split off first.  The buckets of one window are         *)
(* AffineBuckets; here a window's sum is what they give.                   *)
(***************************************************************************)
EXTENDS CurveOps, SequencesExt

CONSTANTS
    Width,          \* bits of a window
    Modulus,        \* scalars are canonical: below it
    Inputs,         \* sequences of pairs <<scalar, base>>
    TrivialShare    \* an MSM is split when one scalar in TrivialShare is 0 or 1

Bits == CHOOSE b \in 1..31 : Modulus < 2 ^ b /\ Modulus >= 2 ^ (b - 1)
Radix == 2 ^ Width
Midpoint == Radix \div 2

\* The allowed widths: the padded top window takes the last carry.
MsmAssumption ==
    /\ Width \in 3..16 /\ Modulus \in Nat \ {0, 1} /\ Bits % Width # 0
    /\ \A input \in Inputs : \A i \in 1..Len(input) :
        input[i][1] \in 0..(Modulus - 1) /\ input[i][2] \in Points

Windows == (Bits + Width - 1) \div Width
WindowSet == 0..(Windows - 1)

-----------------------------------------------------------------------------
(* Recoding *)

ScalarWindow(scalar, window) == (scalar \div 2 ^ (window * Width)) % Radix

Balanced(unsigned) == IF unsigned >= Midpoint THEN unsigned - Radix ELSE unsigned

\* The carry into a window, found by walking back across the digits that only
\* pass a carry on.
CarryInto(scalar, window) ==
    LET carry[k \in 0..window] ==
            IF k = 0 THEN 0
            ELSE LET digit == ScalarWindow(scalar, k - 1)
                 IN  IF digit # Midpoint - 1 THEN (IF digit >= Midpoint THEN 1 ELSE 0)
                     ELSE carry[k - 1]
    IN  carry[window]

SignedWindowDigit(scalar, window) ==
    Balanced(ScalarWindow(scalar, window) + CarryInto(scalar, window))

\* for_each_signed_window: the carries in order, and the one that is left.
CarryOut(unsigned) == IF unsigned >= Midpoint THEN 1 ELSE 0
SignedWindows(scalar) ==
    LET carry[k \in 0..Windows] ==
            IF k = 0 THEN 0 ELSE CarryOut(ScalarWindow(scalar, k - 1) + carry[k - 1])
    IN  [digits |-> [k \in WindowSet |-> Balanced(ScalarWindow(scalar, k) + carry[k])],
         carry |-> carry[Windows]]

Digits == [scalar \in 0..(Modulus - 1) |->
            [k \in WindowSet |-> SignedWindowDigit(scalar, k)]]

-----------------------------------------------------------------------------
(* One MSM *)

VARIABLES
    input,      \* the pairs given
    pairs,      \* the pairs that go through the windows
    ones,       \* the sum of the bases of ones, split off; or Identity
    sums,       \* the window sums computed so far: a function on windows
    result,     \* the MSM's value; <<>> until it is combined
    at

vars == <<input, pairs, ones, sums, result, at>>

Init ==
    /\ input \in Inputs
    /\ pairs = input /\ ones = Identity /\ sums = <<>> /\ result = <<>>
    /\ at = "start"

IsTrivial(scalar) == scalar \in {0, 1}
Enough(trivial, size) == trivial * TrivialShare >= size

SumOfOnes(list) ==
    FoldLeft(LAMBDA sum, pair : IF pair[1] = 1 THEN sum ++ pair[2] ELSE sum, Identity, list)

\* split_trivial_scalars, of the builds that do.
SplitTrivialScalars ==
    /\ at = "start"
    /\ Enough(Len(SelectSeq(input, LAMBDA pair : IsTrivial(pair[1]))), Len(input))
    /\ pairs' = SelectSeq(input, LAMBDA pair : ~IsTrivial(pair[1]))
    /\ ones' = SumOfOnes(input)
    /\ at' = "windows"
    /\ UNCHANGED <<input, sums, result>>

\* msm_bigint_with_window without a split; an empty MSM is zero.
StartWindows ==
    /\ at = "start"
    /\ at' = "windows"
    /\ UNCHANGED <<input, pairs, ones, sums, result>>

Scaled(digit, base) == IF digit >= 0 THEN Times(digit, base) ELSE Times(-digit, Neg(base))

\* The window's buckets, weighted: signed_window_sum.
WindowSum(list, window) ==
    FoldLeft(LAMBDA sum, pair : sum ++ Scaled(Digits[pair[1]][window], pair[2]), Identity, list)

\* A worker ends one window.
SumWindow(window) ==
    /\ at = "windows" /\ window \notin DOMAIN sums
    /\ sums' = [k \in (DOMAIN sums) \cup {window} |->
                    IF k = window THEN WindowSum(pairs, window) ELSE sums[k]]
    /\ UNCHANGED <<input, pairs, ones, result, at>>

\* Width doublings between a window and the one below it.
Shifted(total) == Times(Radix, total)
ReduceWindowSums(of) ==
    LET total[k \in 0..Windows] ==
            IF k = Windows THEN Identity ELSE Shifted(total[k + 1]) ++ of[k]
    IN  total[0]

Combine ==
    /\ at = "windows" /\ DOMAIN sums = WindowSet
    /\ result' = ReduceWindowSums(sums) ++ ones
    /\ at' = "done"
    /\ UNCHANGED <<input, pairs, ones, sums>>

Next ==
    \/ SplitTrivialScalars \/ StartWindows \/ Combine
    \/ \E window \in WindowSet : SumWindow(window)

Spec == Init /\ [][Next]_vars

-----------------------------------------------------------------------------
(* Properties *)

\* Window sums and results are points, only done MSMs have a result, and every
\* digit names one of a window's Midpoint buckets.
TypeOK ==
    /\ \A i \in 1..Len(pairs), k \in WindowSet :
        Digits[pairs[i][1]][k] \in (-Midpoint)..(Midpoint - 1)
    /\ DOMAIN sums \subseteq WindowSet
    /\ \A k \in DOMAIN sums : sums[k] \in Points
    /\ ones \in Points
    /\ at = "done" <=> result # <<>>
    /\ at = "done" => result \in Points

Value(digits) ==
    LET value[k \in 0..Windows] ==
            IF k = Windows THEN 0 ELSE Radix * value[k + 1] + digits[k]
    IN  value[0]

\* Each digit, computed by its own worker from the scalar alone, is the one the
\* serial recoding emits; the digits stand for the scalar, and the top window
\* takes the last carry (for_each_signed_window's debug_assert).
DigitsRecodeScalars ==
    \A i \in 1..Len(input) :
        LET scalar == input[i][1]
        IN  /\ SignedWindows(scalar).digits = Digits[scalar]
            /\ SignedWindows(scalar).carry = 0
            /\ Value(Digits[scalar]) = scalar

\* In whatever order the windows end, split or not, an MSM is the sum of its
\* scaled bases.
ResultIsTheSum ==
    at = "done" =>
        result = FoldLeft(LAMBDA sum, pair : sum ++ Times(pair[1], pair[2]), Identity, input)

\* Splitting zeros and ones off leaves none of them to the windows, where every
\* one would land in the same bucket, and an input is either split or whole.
SplitIsComplete ==
    pairs = input \/ \A i \in 1..Len(pairs) : ~IsTrivial(pairs[i][1])
=============================================================================
