---------------------------- MODULE ProofService ----------------------------
(***************************************************************************)
(* What a resident prover of bindings/node promises its JavaScript caller: *)
(* a bounded first-in first-out service.  A request it accepts settles     *)
(* exactly once and in order; a close is answered once nothing accepted is *)
(* outstanding; nothing is accepted after a close.                         *)
(***************************************************************************)
EXTENDS Naturals

CONSTANT MaxUnsettled   \* promises of accepted requests pending at a time

VARIABLES
    accepted,   \* how many requests were accepted
    settled,    \* how many of them settled; they settle in order
    closing,    \* a close was requested
    owed        \* the close calls not answered yet

serviceVars == <<accepted, settled, closing, owed>>

ServiceInit == accepted = 0 /\ settled = 0 /\ closing = FALSE /\ owed = {}

Accept ==
    /\ ~closing
    /\ accepted - settled < MaxUnsettled
    /\ accepted' = accepted + 1
    /\ UNCHANGED <<settled, closing, owed>>

Settle ==
    /\ settled < accepted
    /\ settled' = settled + 1
    /\ UNCHANGED <<accepted, closing, owed>>

RequestClose ==
    /\ \E c \in owed' \ owed : owed' = owed \cup {c}
    /\ closing' = TRUE
    /\ UNCHANGED <<accepted, settled>>

AnswerClose ==
    /\ settled = accepted
    /\ \E c \in owed : owed' = owed \ {c}
    /\ UNCHANGED <<accepted, settled, closing>>

ServiceNext == Accept \/ Settle \/ RequestClose \/ AnswerClose

ServiceSpec ==
    /\ ServiceInit /\ [][ServiceNext]_serviceVars
    /\ WF_serviceVars(Settle) /\ WF_serviceVars(AnswerClose)
=============================================================================
