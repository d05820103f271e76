---------------------------- MODULE Groth16Ops -----------------------------
(***************************************************************************)
(* The witness map of the Groth16 prover (qap) over a small prime field:   *)
(* evaluation domains, matrix rows in nested and in compressed form, and   *)
(* the evaluations of AB - C on the coset.  Vectors are functions on       *)
(* 0..n-1; an operator that fails returns NoVector.                        *)
(*                                                                         *)
(* On top of it Groth16 proofs.  A group element is its discrete           *)
(* logarithm, so the proof equations and the pairing check are arithmetic  *)
(* in the field; a key is made from a trapdoor the way a ceremony makes it.*)
(***************************************************************************)
EXTENDS Integers, Sequences, FiniteSets, SequencesExt

CONSTANTS
    P,          \* the scalar field's modulus
    Generator   \* a generator of its multiplicative group

QapAssumption == P \in Nat \ {0, 1, 2} /\ Generator \in 1..(P - 1)

NoVector == <<>>

RECURSIVE Pow(_, _)
Pow(x, k) ==
    IF k = 0 THEN 1
    ELSE LET half == Pow((x * x) % P, k \div 2)
         IN  IF k % 2 = 0 THEN half ELSE (half * x) % P
Invert(x) == Pow(x % P, P - 2)
SumOf(f, n) ==
    LET sum[i \in 0..n] == IF i = 0 THEN 0 ELSE (sum[i - 1] + f[i - 1]) % P IN sum[n]

\* The smallest power of two not below n.
NextPowerOfTwo(n) == Min({k \in {2 ^ i : i \in 0..8} : k >= n})
\* Whether the field has roots of unity of this order.
HasDomain(size) == (P - 1) % size = 0
Root(size) == Pow(Generator, (P - 1) \div size)

Ifft(v, n) ==
    LET w == Invert(Root(n))
    IN  [j \in 0..(n - 1) |->
            (Invert(n) * SumOf([i \in 0..(n - 1) |-> (v[i] * Pow(w, (i * j) % n)) % P], n)) % P]
Fft(v, n) ==
    [j \in 0..(n - 1) |->
        SumOf([i \in 0..(n - 1) |-> (v[i] * Pow(Root(n), (i * j) % n)) % P], n)]
DistributePowers(v, n, g) == [i \in 0..(n - 1) |-> (v[i] * Pow(g, i)) % P]

\* witness_domain: the domain's size, or 0.
WitnessDomain(numInputs, numConstraints, variables) ==
    LET size == NextPowerOfTwo(numConstraints + numInputs)
    IN  IF numInputs = 0 \/ numInputs > variables \/ ~HasDomain(2 * size) THEN 0 ELSE size

\* A row of a nested matrix.
EvaluateChecked(row, assignment) ==
    SumOf([k \in 0..(Len(row) - 1) |->
        (row[k + 1].coefficient * assignment[row[k + 1].signal]) % P], Len(row))

\* The same rows in compressed form, and a row of it.
CompactMatrix(rows) ==
    LET terms == FlattenSeq(rows)
    IN  [offsets |-> [r \in 0..Len(rows) |-> Len(FlattenSeq(SubSeq(rows, 1, r)))],
         coefficients |-> [k \in 1..Len(terms) |-> terms[k].coefficient],
         signals |-> [k \in 1..Len(terms) |-> terms[k].signal]]
EvaluateRow(matrix, row, assignment) ==
    LET from == matrix.offsets[row]
        count == matrix.offsets[row + 1] - from
    IN  SumOf([k \in 0..(count - 1) |->
            (matrix.coefficients[from + k + 1] * assignment[matrix.signals[from + k + 1]]) % P],
            count)

\* finish_evaluations: C is the product of the evaluations, and all three move
\* to the coset of the next root.
CosetOf(v, n) == Fft(DistributePowers(Ifft(v, n), n, Root(2 * n)), n)

FinishEvaluations(a, b, n, numConstraints) ==
    LET c == [i \in 0..(n - 1) |-> IF i < numConstraints THEN (a[i] * b[i]) % P ELSE 0]
        ca == CosetOf(a, n)
        cb == CosetOf(b, n)
        cc == CosetOf(c, n)
    IN  [i \in 0..(n - 1) |-> ((ca[i] * cb[i]) - cc[i]) % P]

\* finish_witness_map: the public inputs follow the constraints of A.
PadInputs(a, numConstraints, numInputs, assignment) ==
    [i \in DOMAIN a |-> IF i \in numConstraints..(numConstraints + numInputs - 1)
                        THEN assignment[i - numConstraints] ELSE a[i]]

\* witness_map_from_matrices, from rows in either form.
WitnessMap(rowsA, rowsB, numInputs, assignment, variables) ==
    LET numConstraints == Len(rowsA)
        n == WitnessDomain(numInputs, numConstraints, variables)
        a == [i \in 0..(n - 1) |->
                 IF i < numConstraints THEN EvaluateChecked(rowsA[i + 1], assignment) ELSE 0]
        b == [i \in 0..(n - 1) |->
                 IF i < numConstraints THEN EvaluateChecked(rowsB[i + 1], assignment) ELSE 0]
    IN  IF n = 0 THEN NoVector
        ELSE FinishEvaluations(PadInputs(a, numConstraints, numInputs, assignment), b, n, numConstraints)

\* h_query_scalars: the odd Lagrange coefficients of the double domain at t.
HQueryScalars(maxPower, t, deltaInverse) ==
    LET count == 2 * maxPower + 1
        size == NextPowerOfTwo(IF count > 2 THEN count ELSE 2)
        powers == [i \in 0..(size - 1) |-> IF i < count THEN (deltaInverse * Pow(t, i)) % P ELSE 0]
        lagrange == Ifft(powers, size)
    IN  [k \in 0..((size \div 2) - 1) |-> lagrange[2 * k + 1]]

CONSTANTS
    Circuits,   \* rows of A, B and C, the number of inputs and of variables
    Trapdoor    \* alpha, beta, gamma, delta, t

-----------------------------------------------------------------------------
(* Keys *)

\* The i-th variable's polynomial at t, over rows and the rows of the inputs.
PolynomialAt(rows, i, n, inputRow) ==
    LET t == Trapdoor.t
        lagrange(j) == ((((Pow(t, n) - 1) * Pow(Root(n), j)) % P) *
                        Invert(n * (t - Pow(Root(n), j)))) % P
        own(j) == LET terms == SelectSeq(rows[j + 1], LAMBDA e : e.signal = i)
                  IN  SumOf([k \in 0..(Len(terms) - 1) |-> terms[k + 1].coefficient], Len(terms))
        count == Len(rows)
    IN  (SumOf([j \in 0..(count - 1) |-> (own(j) * lagrange(j)) % P], count) +
            (IF inputRow THEN lagrange(count + i) ELSE 0)) % P

KeyOf(c) ==
    LET n == WitnessDomain(c.inputs, Len(c.a), c.variables)
        td == Trapdoor
        A == [i \in 0..(c.variables - 1) |-> PolynomialAt(c.a, i, n, i < c.inputs)]
        B == [i \in 0..(c.variables - 1) |-> PolynomialAt(c.b, i, n, FALSE)]
        C == [i \in 0..(c.variables - 1) |-> PolynomialAt(c.c, i, n, FALSE)]
        mix(i) == (td.beta * A[i] + td.alpha * B[i] + C[i]) % P
    IN  [a |-> A, b |-> B,
         ic |-> [i \in 0..(c.inputs - 1) |-> (mix(i) * Invert(td.gamma)) % P],
         l |-> [k \in 0..(c.variables - c.inputs - 1) |-> (mix(k + c.inputs) * Invert(td.delta)) % P],
         h |-> HQueryScalars(n - 1, td.t, Invert(td.delta))]
Keys == [c \in Circuits |-> KeyOf(c)]

-----------------------------------------------------------------------------
(* Proofs *)

\* msm over the shorter of the two.
Msm(query, scalars, from) ==
    LET bases == Cardinality(DOMAIN query)
        size == Min({bases, Cardinality(DOMAIN scalars) - from})
    IN  SumOf([i \in 0..(size - 1) |-> (query[i] * scalars[i + from]) % P], size)

\* A query without its constant coefficient.
Linear(query) == [i \in 0..(Cardinality(DOMAIN query) - 2) |-> query[i + 1]]
CalculateCoeff(initial, query, anchor, scalars) ==
    (initial + query[0] + Msm(Linear(query), scalars, 0) + anchor) % P

\* assemble_proof: `scalars` are the assignment without its constant one.
AssembleProof(key, r, s, h, scalars, numInputs) ==
    LET td == Trapdoor
        a == CalculateCoeff(r * td.delta, key.a, td.alpha, scalars)
        b1 == IF r = 0 THEN 0 ELSE CalculateCoeff(s * td.delta, key.b, td.beta, scalars)
        b2 == CalculateCoeff(s * td.delta, key.b, td.beta, scalars)
    IN  [a |-> a, b |-> b2,
         c |-> (a * s + b1 * r - ((r * s) % P) * td.delta + Msm(key.l, scalars, numInputs - 1)
                + Msm(key.h, h, 0)) % P]

WithoutOne(w) == [i \in 0..(Len(w) - 2) |-> w[i + 2]]
AsVector(w) == [i \in 0..(Len(w) - 1) |-> w[i + 1]]

\* create_proof_with_matrices.
CreateProof(c, w, r, s) ==
    AssembleProof(Keys[c], r, s, WitnessMap(c.a, c.b, c.inputs, AsVector(w), c.variables),
                  WithoutOne(w), c.inputs)

\* StreamingProofBuilder::finish: whole queries, with the constant one.
StreamedProof(c, w, r, s, h) ==
    LET td == Trapdoor
        key == Keys[c]
        full == AsVector(w)
        a == (Msm(key.a, full, 0) + td.alpha + td.delta * r) % P
        b == (Msm(key.b, full, 0) + td.beta + td.delta * s) % P
    IN  [a |-> a, b |-> b,
         c |-> (a * s + b * r - td.delta * ((r * s) % P) + Msm(key.l, full, c.inputs)
                + Msm(key.h, h, 0)) % P]

\* The pairing equation.
Verify(c, proof, w) ==
    LET td == Trapdoor
        publics == SumOf([i \in 0..(c.inputs - 1) |-> (Keys[c].ic[i] * w[i + 1]) % P], c.inputs)
    IN  (proof.a * proof.b) % P = (td.alpha * td.beta + publics * td.gamma + proof.c * td.delta) % P

\* validate_assignment.
Refusal(c, w) ==
    IF Len(w) # c.variables THEN "length" ELSE IF w[1] # 1 THEN "constant" ELSE "none"
=============================================================================
