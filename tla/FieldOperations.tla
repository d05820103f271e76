-------------------------- MODULE FieldOperations ---------------------------
(***************************************************************************)
(* The operations of a witness graph over canonical field elements         *)
(* (curvy-witness, Operation): what each computes, which operands it       *)
(* refuses, and what it costs.  A register has Limbs limbs of LimbBits;    *)
(* the field has FieldBits bits, fewer than the register.                  *)
(***************************************************************************)
EXTENDS Integers, Sequences, FiniteSets, Folds

CONSTANTS
    Modulus, FieldBits,     \* 254 bits in the code
    LimbBits, Limbs         \* four limbs of 64 bits in the code

RegisterBits == LimbBits * Limbs
Field == 0..(Modulus - 1)
Half == Modulus \div 2

RegisterAssumption ==
    /\ Modulus \in 3..(2 ^ FieldBits - 1)
    /\ FieldBits \in (LimbBits * (Limbs - 1) + 1)..(RegisterBits - 1)
    /\ 2 ^ LimbBits > RegisterBits

OperationNames ==
    {"Mul", "MontgomeryMul", "Add", "Sub", "Eq", "Neq", "Lt", "Gt", "Leq", "Geq", "LogicalOr", "Shl",
     "Shr", "BitAnd", "Neg", "Inv", "Div", "Mod", "Pow", "LogicalAnd", "IntegerDiv", "BitXor", "BitOr"}

Fails(error) == [error |-> error]
Gives(value) == [value |-> value]

Truth(p) == IF p THEN 1 ELSE 0
Negated(x) == (Modulus - x) % Modulus
FieldInverse(x) == CHOOSE y \in Field : (x * y) % Modulus = 1
InverseOrZero(x) == IF x = 0 THEN 0 ELSE FieldInverse(x)
Power(x, e) == LET power[n \in 0..e] == IF n = 0 THEN 1 ELSE (x * power[n - 1]) % Modulus IN power[e]

\* Elements above half the modulus stand for negative numbers.  Two of them
\* are compared by the negations, the other way round.
CompareBalanced(x, y) ==
    CASE x <= Half /\ y > Half -> 1
      [] x > Half /\ y <= Half -> -1
      [] x > Half /\ y > Half -> Negated(y) - Negated(x)
      [] OTHER -> x - y

BitAt(x, i) == (x \div 2 ^ i) % 2

Reduced(integer) == integer % Modulus

BitPositions == 0..(RegisterBits - 1)
BitByBit(x, y, Bit(_, _)) ==
    Reduced(MapThenFoldSet(LAMBDA a, b : a + b, 0, LAMBDA i : Bit(BitAt(x, i), BitAt(y, i)) * 2 ^ i,
                           LAMBDA S : CHOOSE i \in S : TRUE, BitPositions))

\* What leaves the register is lost, and the top limb is masked to the field's.
ShiftLeft(x, by) ==
    LET register == (x * 2 ^ by) % 2 ^ RegisterBits
        top == register \div 2 ^ (LimbBits * (Limbs - 1))
        low == register % 2 ^ (LimbBits * (Limbs - 1))
        kept == top % 2 ^ (FieldBits - LimbBits * (Limbs - 1))
    IN  Reduced(kept * 2 ^ (LimbBits * (Limbs - 1)) + low)

\* No limb above the first, and less than the register.
ShiftAmountIsValid(y) == y \div 2 ^ LimbBits = 0 /\ y % 2 ^ LimbBits < RegisterBits

IntegerQuotient(x, y) == x \div y

Evaluated(operation, x, y) ==
    CASE operation \in {"Mul", "MontgomeryMul"} -> Gives((x * y) % Modulus)
      [] operation = "Add" -> Gives((x + y) % Modulus)
      [] operation = "Sub" -> Gives((x - y) % Modulus)
      [] operation = "Eq" -> Gives(Truth(x = y))
      [] operation = "Neq" -> Gives(Truth(x # y))
      [] operation = "Lt" -> Gives(Truth(CompareBalanced(x, y) < 0))
      [] operation = "Gt" -> Gives(Truth(CompareBalanced(x, y) > 0))
      [] operation = "Leq" -> Gives(Truth(CompareBalanced(x, y) <= 0))
      [] operation = "Geq" -> Gives(Truth(CompareBalanced(x, y) >= 0))
      [] operation = "LogicalOr" -> Gives(Truth(x # 0 \/ y # 0))
      [] operation = "LogicalAnd" -> Gives(Truth(x # 0 /\ y # 0))
      [] operation = "Neg" -> Gives(Negated(x))
      [] operation = "Inv" -> IF x = 0 THEN Fails("DivisionByZero") ELSE Gives(FieldInverse(x))
      [] operation = "Div" ->
            IF y = 0 THEN Fails("DivisionByZero") ELSE Gives((x * FieldInverse(y)) % Modulus)
      [] operation = "Pow" -> Gives(Power(x, y))
      [] operation \in {"Shl", "Shr"} ->
            IF ~ShiftAmountIsValid(y) THEN Fails("InvalidShift")
            ELSE Gives(IF operation = "Shl" THEN ShiftLeft(x, y) ELSE x \div 2 ^ y)
      [] operation = "BitAnd" -> Gives(BitByBit(x, y, LAMBDA a, b : a * b))
      [] operation = "BitXor" -> Gives(BitByBit(x, y, LAMBDA a, b : (a + b) % 2))
      [] operation = "BitOr" -> Gives(BitByBit(x, y, LAMBDA a, b : Truth(a + b > 0)))
      [] operation \in {"Mod", "IntegerDiv"} ->
            IF y = 0 THEN Fails("DivisionByZero")
            ELSE Gives(IF operation = "Mod" THEN x % y ELSE IntegerQuotient(x, y))

=============================================================================
