----------------------------- MODULE MerkleLog -----------------------------
(***************************************************************************)
(* What every notes tree of crates/core/src/imt.rs promises: it is a log   *)
(* of leaves together with the one root the protocol assigns to that log,  *)
(* the zero-padded tree of the given depth.  The log is extended at its    *)
(* end, cut at its end or changed in one place; the root never disagrees   *)
(* with it, and it never holds more than 2^depth leaves.                   *)
(***************************************************************************)
EXTENDS MerkleOps, SequencesExt

VARIABLES depth, zero, log, root

logVars == <<depth, zero, log, root>>

Committed == Len(log) <= TreeCapacity(depth) /\ root = RefRoot(depth, zero, log)

LogInit == log = <<>> /\ Committed

Extend == IsPrefix(log, log')

Cut == IsPrefix(log', log)

Replace ==
    /\ Len(log') = Len(log)
    /\ \A i, j \in DOMAIN log : log'[i] # log[i] /\ log'[j] # log[j] => i = j

LogNext ==
    /\ Extend \/ Cut \/ Replace
    /\ Committed'
    /\ UNCHANGED <<depth, zero>>

LogSpec == LogInit /\ [][LogNext]_logVars
=============================================================================
