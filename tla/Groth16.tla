------------------------------ MODULE Groth16 ------------------------------
(***************************************************************************)
(* The resident Groth16 prover and its reusable workspace.                 *)
(*                                                                         *)
(* A workspace lends its buffers to one proof at a time.  A proof may      *)
(* fail or unwind between any two of its steps.                            *)
(***************************************************************************)
EXTENDS Groth16Ops

CONSTANTS
    Witnesses,  \* the assignments tried for each circuit
    Blinding,   \* the pairs <<r, s>>
    Limit,      \* elements a workspace may keep between proofs
    NoLease

VARIABLES
    workspace,  \* the buffers: allocated cells, and how many are in use
    lease,      \* the proof that has the workspace
    last,       \* what the last call returned
    leaked      \* ghost: whether an allocation was freed with a value in it

vars == <<workspace, lease, last, leaked>>

Nothing == [call |-> "none", refusal |-> "none"]
Returned(call, c, w, r, s, proof) ==
    [call |-> call, circuit |-> c, w |-> w, r |-> r, s |-> s, proof |-> proof,
     refusal |-> IF Verify(c, proof, w) THEN "none" ELSE "unverified"]

-----------------------------------------------------------------------------
(* The workspace *)

Buffers == {"a", "b", "c", "h", "assignment"}
Zeros(n) == [i \in 1..n |-> 0]
Empty == [used |-> <<>>, spare |-> <<>>]
Allocated(v) == v.used \o v.spare
Dirty(v) == Range(Allocated(v)) \ {0} # {}
Retained(space) ==
    Len(FlattenSeq([k \in 1..5 |-> Allocated(space[<<"a", "b", "c", "h", "assignment">>[k]])]))

\* Vec::resize.  A larger buffer is a new allocation; the old one is freed as
\* it is.
Resize(v, n) ==
    IF n <= Len(v.used)
    THEN [used |-> SubSeq(v.used, 1, n), spare |-> SubSeq(v.used, n + 1, Len(v.used)) \o v.spare]
    ELSE LET grow == n - Len(v.used)
             capacity == Len(Allocated(v))
         IN  [used |-> v.used \o Zeros(grow),
              spare |-> IF n <= capacity THEN SubSeq(v.spare, grow + 1, Len(v.spare))
                        ELSE Zeros(Max({n, 2 * capacity}) - n)]
Frees(v, n) == n > Len(Allocated(v)) /\ Dirty(v)

\* zeroize wipes the whole allocation and empties it; over the limit the
\* allocations themselves are let go.
Wiped(v) == [used |-> <<>>, spare |-> Zeros(Len(Allocated(v)))]

\* Mutation: the buffers are zeroed and keep their length.
Cleared_NotEmptied(space) ==
    IF Retained(space) > Limit THEN [k \in Buffers |-> Empty]
    ELSE [k \in Buffers |-> [space[k] EXCEPT !.used = Zeros(Len(@))]]
Cleared(space) ==
    IF Retained(space) > Limit THEN [k \in Buffers |-> Empty]
    ELSE [k \in Buffers |-> Wiped(space[k])]

-----------------------------------------------------------------------------
(* Actions *)

Init ==
    /\ workspace = [k \in Buffers |-> Empty]
    /\ lease = NoLease /\ last = Nothing /\ leaked = FALSE

\* prove_assignment: prove, then verify before anything is returned.
ProveAssignment(c, w, r, s) ==
    /\ lease = NoLease
    /\ last' = IF Refusal(c, w) # "none" THEN [call |-> "none", refusal |-> Refusal(c, w)]
               ELSE Returned("resident", c, w, r, s, CreateProof(c, w, r, s))
    /\ UNCHANGED <<workspace, lease, leaked>>

\* prove_with_workspace takes the lease before it looks at the assignment.
TakeLease(c, w, r, s) ==
    /\ lease = NoLease
    /\ IF Refusal(c, w) # "none"
       THEN /\ last' = [call |-> "none", refusal |-> Refusal(c, w)]
            /\ workspace' = Cleared(workspace)
            /\ UNCHANGED lease
       ELSE /\ lease' = [circuit |-> c, w |-> w, r |-> r, s |-> s, stage |-> "evaluate"]
            /\ last' = Nothing
            /\ UNCHANGED workspace
    /\ UNCHANGED leaked

To(stage) == lease' = [lease EXCEPT !.stage = stage]
At(stage) == lease # NoLease /\ lease.stage = stage

Filled(v, f(_), count) == [v EXCEPT !.used = [i \in DOMAIN @ |-> IF i <= count THEN f(i) ELSE @[i]]]

\* witness_map_with_workspace: the rows of the constraints are written, and
\* the public inputs after those of A; the rest is what `resize` left.
EvaluateRows ==
    /\ At("evaluate")
    /\ LET c == lease.circuit
           count == Len(c.a)
           n == WitnessDomain(c.inputs, count, c.variables)
           w == AsVector(lease.w)
           row(rows, i) == EvaluateRow(CompactMatrix(rows), i - 1, w)
           a == Filled(Resize(workspace.a, n), LAMBDA i : row(c.a, i), count)
       IN  /\ workspace' = [workspace EXCEPT
                  !.a = [a EXCEPT !.used = [i \in DOMAIN @ |->
                            IF i \in (count + 1)..(count + c.inputs) THEN lease.w[i - count] ELSE @[i]]],
                  !.b = Filled(Resize(@, n), LAMBDA i : row(c.b, i), count)]
           /\ leaked' = (leaked \/ Frees(workspace.a, n) \/ Frees(workspace.b, n))
    /\ To("transform")
    /\ UNCHANGED last

\* finish_evaluations leaves H in the buffer of A.
Transform ==
    /\ At("transform")
    /\ LET n == Len(workspace.a.used)
           count == Len(lease.circuit.a)
           a == AsVector(workspace.a.used)
           b == AsVector(workspace.b.used)
           c == [i \in 0..(n - 1) |-> IF i < count THEN (a[i] * b[i]) % P ELSE 0]
           h == FinishEvaluations(a, b, n, count)
       IN  /\ workspace' = [workspace EXCEPT
                  !.a.used = [i \in 1..n |-> h[i - 1]],
                  !.b.used = [i \in 1..n |-> CosetOf(b, n)[i - 1]],
                  !.c = Filled(Resize(@, n), LAMBDA i : CosetOf(c, n)[i - 1], n)]
           /\ leaked' = (leaked \/ Frees(workspace.c, n))
    /\ To("scalars")
    /\ UNCHANGED last

\* The scalars of H and of the assignment without its leading one.
ConvertScalars ==
    /\ At("scalars")
    /\ LET n == Len(workspace.a.used)
           m == Len(lease.w) - 1
       IN  /\ workspace' = [workspace EXCEPT
                  !.h = Filled(Resize(@, n), LAMBDA i : workspace.a.used[i], n),
                  !.assignment = Filled(Resize(@, m), LAMBDA i : lease.w[i + 1], m)]
           /\ leaked' = (leaked \/ Frees(workspace.h, n) \/ Frees(workspace.assignment, m))
    /\ To("assemble")
    /\ UNCHANGED last

\* The lease ends with the call: its drop clears the workspace.
Assemble ==
    /\ At("assemble")
    /\ last' = Returned("workspace", lease.circuit, lease.w, lease.r, lease.s,
                   AssembleProof(Keys[lease.circuit], lease.r, lease.s, AsVector(workspace.h.used),
                                 AsVector(workspace.assignment.used), lease.circuit.inputs))
    /\ workspace' = Cleared(workspace)
    /\ lease' = NoLease
    /\ UNCHANGED leaked

\* What Drop for Lease does while a panic unwinds through it.
DropLease(space) == Cleared(space)

Unwind ==
    /\ lease # NoLease
    /\ workspace' = DropLease(workspace)
    /\ lease' = NoLease /\ last' = Nothing
    /\ UNCHANGED leaked

Next ==
    \/ \E c \in Circuits, blinding \in Blinding : \E w \in Witnesses[c] :
           \/ ProveAssignment(c, w, blinding[1], blinding[2])
           \/ TakeLease(c, w, blinding[1], blinding[2])
    \/ EvaluateRows \/ Transform \/ ConvertScalars \/ Assemble \/ Unwind

Spec == Init /\ [][Next]_vars

-----------------------------------------------------------------------------
(* Properties *)

\* A buffer holds field elements, and only a proof has any in use.
TypeOK ==
    /\ \A k \in Buffers : Range(Allocated(workspace[k])) \subseteq 0..(P - 1)
    /\ lease = NoLease => \A k \in Buffers : workspace[k].used = <<>>
    /\ last.refusal \in {"none", "length", "constant", "unverified"}

Satisfies(c, w) ==
    \A j \in DOMAIN c.a :
        (EvaluateChecked(c.a[j], AsVector(w)) * EvaluateChecked(c.b[j], AsVector(w))) % P
            = EvaluateChecked(c.c[j], AsVector(w))

\* A satisfying assignment always proves: the coset evaluations, the odd
\* Lagrange coefficients of the H query and the split of the public inputs
\* between IC and L fit together, for every blinding (r = 0 skips B1).
SatisfiedAssignmentsProve ==
    last.call # "none" /\ Satisfies(last.circuit, last.w) => last.refusal = "none"

\* No bundle for an assignment that does not satisfy the constraints.
OnlySatisfiedAreReturned ==
    last.call # "none" /\ last.refusal = "none" => Satisfies(last.circuit, last.w)

\* After any history of proofs, failures and panics, a proof made in the
\* workspace is the one a fresh prover makes: no row of an earlier circuit is
\* left beyond the rows that are written.
WorkspaceProofIsFresh ==
    last.call = "workspace" =>
        last.proof = CreateProof(last.circuit, last.w, last.r, last.s)

\* Between proofs a workspace holds no value of a witness and no more memory
\* than its limit; and no buffer outgrows its allocation while it holds
\* values, so none is left in freed memory either.
IdleIsWipedAndBounded ==
    /\ lease = NoLease =>
         /\ \A k \in Buffers : ~Dirty(workspace[k])
         /\ Retained(workspace) <= Limit
    /\ ~leaked
=============================================================================
