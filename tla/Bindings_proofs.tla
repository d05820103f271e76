------------------------- MODULE Bindings_proofs -------------------------
(***************************************************************************)
(* Safety of the bindings' shared state.  The proof queue, for every capacity *)
(* and any number of calls: the place count, the order of settlement and the *)
(* answer of close.  The handle registry, for any number of threads: handles *)
(* are not reused, and a freed object is freed once and not used again.  The *)
(* call guard, for any number of threads: messages and panics.  The trees of *)
(* the C ABI, for any number of them: the host's copies of owned notes, and *)
(* rejected calls.  The streaming session, passes that overlap included,   *)
(* and the artifact cache, for any number of loads.  Last, that a refused  *)
(* call of any of them disturbs no other.                                  *)
(***************************************************************************)
EXTENDS MCBindings, SequenceTheorems, TLAPS

Draining == {"fetch", "run", "computed", "complete"}
Idle == {"none", "drop_pool", "release"}

FlagsOK == active \in BOOLEAN /\ closed \in BOOLEAN

DataOK ==
    /\ prover \in {"open", "closed", "finalized"}
    /\ closes \in Nat /\ js \in Nat
    /\ pool \in {"owned", "close", "drain", "released"}
    /\ outstanding \in Nat
    /\ waiting \in Seq(Nat) /\ onRelease \in Seq(Nat)
    /\ worker \in Draining \cup Idle
    /\ running \in Nat /\ releasing \in Seq(Nat)
    /\ submitted \in Nat
    /\ refused \in {"none", "full", "closed"}
    /\ settled \in Seq(Nat) /\ answered \in Seq(Nat)

TypeOK == FlagsOK /\ DataOK

\* Jobs whose promise has not settled but that left `waiting`.
InHand == IF worker \in {"run", "computed", "complete"} THEN 1 ELSE 0

\* Numbers settled, in hand and waiting follow each other without a gap.
NextInHand == InHand = 1 => running = Len(settled) + 1
NoneMissing == Len(settled) + InHand + Len(waiting) = submitted
WaitingInOrder == \A i \in 1..Len(waiting) : waiting[i] = Len(settled) + InHand + i
SettledSoFar == \A i \in 1..Len(settled) : settled[i] = i
Numbering == NextInHand /\ NoneMissing /\ WaitingInOrder /\ SettledSoFar

\* Jobs wait only while a drain will look at them.
Watched == worker \in Idle => waiting = <<>>

\* From the moment a close found the queue idle, or drain found it closed and
\* empty, the queue stays closed and empty.
Shut ==
    /\ closed => prover # "open"
    /\ (answered # <<>> \/ js # 0 \/ worker \in {"drop_pool", "release"})
         => closed /\ waiting = <<>> /\ InHand = 0

IInv == TypeOK /\ Accounting /\ Numbering /\ Watched /\ Shut
-----------------------------------------------------------------------------
\* What `push_back` and `pop_front` do to a queue of numbers.
LEMMA Pushed ==
    ASSUME NEW s \in Seq(Nat), NEW e \in Nat
    PROVE  /\ Append(s, e) \in Seq(Nat)
           /\ Len(Append(s, e)) = Len(s) + 1
           /\ \A i \in 1..Len(s) : Append(s, e)[i] = s[i]
           /\ Append(s, e)[Len(s) + 1] = e
    OBVIOUS

\* What `pop_front` does to a queue that is not empty.
LEMMA Popped ==
    ASSUME NEW s \in Seq(Nat), s # <<>>
    PROVE  /\ Head(s) \in Nat /\ Head(s) = s[1]
           /\ Tail(s) \in Seq(Nat)
           /\ Len(Tail(s)) = Len(s) - 1
           /\ \A i \in 1..Len(Tail(s)) : Tail(s)[i] = s[i + 1]
    OBVIOUS

\* A queue just made satisfies the inductive invariant.
LEMMA InitIInv == Init => IInv
<1> SUFFICES ASSUME Init PROVE IInv
    OBVIOUS
<1> USE CapacityAssumption DEF Init
<1>1. TypeOK
  <2>1. FlagsOK
      BY Zenon DEF FlagsOK
  <2>2. DataOK
      BY DEF DataOK, Draining, Idle
  <2> QED
      BY <2>1, <2>2 DEF TypeOK
<1>2. Accounting
    BY DEF Accounting
<1>3. Numbering /\ Watched /\ Shut
    BY DEF Numbering, NextInHand, NoneMissing, WaitingInOrder, SettledSoFar, Watched, Shut,
       InHand, Idle
<1> QED
    BY <1>1, <1>2, <1>3 DEF IInv

\* The steps of the JavaScript thread.
LEMMA CallsKeepIInv == IInv /\ (Prove \/ Close \/ CloseIdle \/ Finalize) => IInv'
<1> SUFFICES ASSUME IInv, Prove \/ Close \/ CloseIdle \/ Finalize PROVE IInv'
    OBVIOUS
<1> USE CapacityAssumption
<1>1. FlagsOK'
    BY Zenon DEF Prove, Close, CloseIdle, Finalize, state, thread, IInv, TypeOK, FlagsOK
<1>2. CASE Prove
  <2>1. CASE UNCHANGED waiting
    <3>1. UNCHANGED <<prover, closes, js, pool, state, thread, submitted, settled, answered>>
        BY <1>2, <2>1 DEF Prove, state, thread, IInv, TypeOK, DataOK
    <3>2. DataOK'
        BY <1>2, <3>1 DEF Prove, state, thread, IInv, TypeOK, DataOK
    <3>3. Accounting' /\ Numbering' /\ Watched' /\ Shut'
        BY <3>1 DEF state, thread, IInv, Accounting, Numbering, NextInHand, NoneMissing,
           WaitingInOrder, SettledSoFar, InHand, Watched, Shut
    <3> QED
        BY <1>1, <3>2, <3>3 DEF IInv, TypeOK
  <2>2. CASE waiting' # waiting
    <3>1. /\ prover = "open" /\ ~closed /\ outstanding < Capacity
          /\ submitted' = submitted + 1
          /\ waiting' = Append(waiting, submitted + 1)
          /\ outstanding' = outstanding + 1
          /\ UNCHANGED <<prover, closes, js, pool, closed, onRelease, running, releasing,
                         settled, answered>>
        BY <1>2, <2>2 DEF Prove, state, IInv, TypeOK, DataOK
    <3>2. worker' = IF active THEN worker ELSE "fetch"
        BY <1>2, <2>2 DEF Prove, state
    <3>3. active' = TRUE
        BY <1>2, <2>2 DEF Prove, state
    <3>4. worker' \in Draining /\ (worker' # worker => worker = "none" /\ worker' = "fetch")
        BY <3>1, <3>2 DEF IInv, TypeOK, FlagsOK, DataOK, Accounting, Watched, Shut,
           Draining, Idle
    <3>5. DataOK'
      <4>1. waiting \in Seq(Nat) /\ submitted + 1 \in Nat
          BY DEF IInv, TypeOK, DataOK
      <4>2. waiting' \in Seq(Nat)
          BY <3>1, <4>1, Pushed
      <4>3. refused' = "none"
          BY <1>2, <2>2 DEF Prove, state
      <4> QED
          BY <3>1, <3>4, <4>2, <4>3 DEF IInv, TypeOK, DataOK
    <3>6. Accounting'
      <4>1. Len(waiting') = Len(waiting) + 1
          BY <3>1, Pushed DEF IInv, TypeOK, DataOK
      <4>2. worker \in {"run", "computed"} <=> worker' \in {"run", "computed"}
          BY <3>4
      <4>3. worker' \in {"fetch", "run", "computed", "complete"}
          BY <3>4 DEF Draining
      <4>4. (outstanding = Len(waiting) + (IF worker \in {"run", "computed"} THEN 1 ELSE 0))'
          BY <3>1, <4>1, <4>2 DEF IInv, TypeOK, DataOK, Accounting
      <4>5. outstanding' <= Capacity
          BY <3>1 DEF IInv, TypeOK, DataOK
      <4>6. active' <=> worker' \in {"fetch", "run", "computed", "complete"}
          BY <3>3, <4>3, Zenon
      <4> QED
          BY <4>4, <4>5, <4>6 DEF Accounting
    <3>7. InHand' = InHand
        BY <3>4 DEF InHand, Draining
    <3>8. Numbering'
      <4>1. NextInHand' /\ SettledSoFar'
          BY <3>1, <3>7 DEF IInv, Numbering, NextInHand, SettledSoFar
      <4>2. InHand \in Nat /\ Len(settled) \in Nat /\ Len(waiting) \in Nat
          BY DEF IInv, TypeOK, DataOK, InHand
      <4>3. /\ Len(waiting') = Len(waiting) + 1
            /\ \A i \in 1..Len(waiting) : waiting'[i] = waiting[i]
            /\ waiting'[Len(waiting) + 1] = submitted + 1
          BY <3>1, Pushed DEF IInv, TypeOK, DataOK
      <4>4. NoneMissing'
          BY <3>1, <3>7, <4>2, <4>3 DEF IInv, Numbering, NoneMissing
      <4>5. WaitingInOrder'
        <5>1. Len(settled) + InHand + Len(waiting) + 1 = submitted + 1
            BY <4>2 DEF IInv, Numbering, NoneMissing
        <5>2. ASSUME NEW i \in 1..(Len(waiting) + 1)
              PROVE  waiting'[i] = Len(settled) + InHand + i
            BY <4>2, <4>3, <5>1 DEF IInv, Numbering, WaitingInOrder
        <5> QED
            BY <3>1, <3>7, <4>3, <5>2 DEF WaitingInOrder
      <4> QED
          BY <4>1, <4>4, <4>5 DEF Numbering
    <3>9. Watched' /\ Shut'
        BY <3>1, <3>4 DEF IInv, TypeOK, DataOK, Watched, Shut, Draining, Idle
    <3> QED
        BY <1>1, <3>5, <3>6, <3>8, <3>9 DEF IInv, TypeOK
  <2> QED
      BY <2>1, <2>2
<1>3. CASE Close
  <2>1. DataOK'
    <3>1. closes + 1 \in Nat /\ Append(onRelease, closes + 1) \in Seq(Nat)
        BY Pushed DEF IInv, TypeOK, DataOK
    <3>2. closes' \in Nat /\ js' \in Nat
        BY <1>3, <3>1 DEF Close, IInv, TypeOK, DataOK
    <3>3. onRelease' \in {onRelease, Append(onRelease, closes + 1)}
        BY <1>3 DEF Close
    <3>4. prover' = "closed" /\ pool' \in {pool, "close"}
        BY <1>3 DEF Close
    <3> QED
        BY <1>3, <3>1, <3>2, <3>3, <3>4 DEF Close, thread, IInv, TypeOK, DataOK
  <2>2. Accounting'
      BY <1>3 DEF Close, state, thread, IInv, TypeOK, FlagsOK, DataOK, Accounting, Shut
  <2>3. InHand' = InHand /\ UNCHANGED <<running, settled, waiting, submitted>>
      BY <1>3 DEF Close, state, thread, InHand
  <2>4. Numbering'
      BY <2>3 DEF IInv, Numbering, NextInHand, NoneMissing, WaitingInOrder, SettledSoFar
  <2>5. Watched'
      BY <1>3 DEF Close, state, thread, IInv, Watched, Idle
  <2>6. Shut'
      BY <1>3, <2>3 DEF Close, state, thread, IInv, TypeOK, DataOK, Accounting, Watched,
         Shut, Idle, Draining, InHand
  <2> QED
      BY <1>1, <2>1, <2>2, <2>4, <2>5, <2>6 DEF IInv, TypeOK
<1>4. CASE CloseIdle
  <2>1. DataOK'
      BY <1>4 DEF CloseIdle, state, thread, IInv, TypeOK, DataOK, Draining, Idle
  <2>2. Accounting'
      BY <1>4 DEF CloseIdle, state, thread, IInv, TypeOK, FlagsOK, DataOK, Accounting, Shut
  <2>3. InHand' = InHand /\ UNCHANGED <<running, settled, waiting, submitted>>
      BY <1>4 DEF CloseIdle, state, thread, InHand
  <2>4. Numbering'
      BY <2>3 DEF IInv, Numbering, NextInHand, NoneMissing, WaitingInOrder, SettledSoFar
  <2>5. Watched' /\ Shut'
      BY <1>4, <2>3 DEF CloseIdle, state, thread, IInv, TypeOK, FlagsOK, DataOK, Accounting,
         Watched, Shut, Idle, Draining
  <2> QED
      BY <1>1, <2>1, <2>2, <2>4, <2>5 DEF IInv, TypeOK
<1>5. CASE Finalize
  <2>1. DataOK'
      BY <1>5 DEF Finalize, state, thread, IInv, TypeOK, DataOK, Draining, Idle
  <2>2. Accounting'
      BY <1>5 DEF Finalize, state, thread, IInv, TypeOK, FlagsOK, DataOK, Accounting, Shut
  <2>3. InHand' = InHand /\ UNCHANGED <<running, settled, waiting, submitted>>
      BY <1>5 DEF Finalize, state, thread, InHand
  <2>4. Numbering'
      BY <2>3 DEF IInv, Numbering, NextInHand, NoneMissing, WaitingInOrder, SettledSoFar
  <2>5. Watched' /\ Shut'
      BY <1>5, <2>3 DEF Finalize, state, thread, IInv, TypeOK, FlagsOK, DataOK, Accounting,
         Watched, Shut, Idle, Draining
  <2> QED
      BY <1>1, <2>1, <2>2, <2>4, <2>5 DEF IInv, TypeOK
<1> QED
    BY <1>2, <1>3, <1>4, <1>5

\* The steps of the worker.
LEMMA DrainKeepsIInv == IInv /\ Drain => IInv'
<1> SUFFICES ASSUME IInv, Drain PROVE IInv'
    OBVIOUS
<1>1. FlagsOK'
    BY Zenon DEF Drain, Fetch, GoIdle, Run, GiveBack, Complete, DropPool, Release, state,
       thread, IInv, TypeOK, FlagsOK
<1>2. CASE Fetch
  <2>1. DataOK'
      BY <1>2 DEF Fetch, state, thread, IInv, TypeOK, DataOK, Draining, Idle
  <2>2. Accounting'
      BY <1>2 DEF Fetch, state, thread, IInv, TypeOK, FlagsOK, DataOK, Accounting, Shut
  <2>3. InHand = 0 /\ InHand' = 1
      BY <1>2 DEF Fetch, state, thread, InHand
  <2>4. Numbering'
    <3>1. NextInHand'
      <4>1. running' = waiting[1] /\ Len(waiting) \in Nat \ {0} /\ settled' = settled
          BY <1>2, Popped DEF Fetch, IInv, TypeOK, DataOK
      <4> QED
          BY <2>3, <4>1 DEF IInv, TypeOK, DataOK, Numbering, WaitingInOrder, NextInHand
    <3>2. NoneMissing'
      <4>1. Len(waiting') = Len(waiting) - 1 /\ UNCHANGED <<settled, submitted>>
          BY <1>2, Popped DEF Fetch, IInv, TypeOK, DataOK
      <4>2. Len(settled) \in Nat /\ Len(waiting) \in Nat
          BY DEF IInv, TypeOK, DataOK
      <4> QED
          BY <2>3, <4>1, <4>2 DEF IInv, Numbering, NoneMissing
    <3>3. WaitingInOrder'
        BY <1>2, <2>3 DEF Fetch, state, thread, IInv, TypeOK, DataOK, Numbering, NextInHand,
           NoneMissing, WaitingInOrder
    <3>4. SettledSoFar'
        BY <1>2, <2>3 DEF Fetch, state, thread, IInv, TypeOK, DataOK, Numbering, NextInHand,
           NoneMissing, SettledSoFar
    <3> QED
        BY <3>1, <3>2, <3>3, <3>4 DEF Numbering
  <2>5. Watched' /\ Shut'
      BY <1>2, <2>3 DEF Fetch, state, thread, IInv, TypeOK, FlagsOK, DataOK, Accounting,
         Watched, Shut, Idle, Draining
  <2> QED
      BY <1>1, <2>1, <2>2, <2>4, <2>5 DEF IInv, TypeOK
<1>3. CASE GoIdle
  <2>1. DataOK'
      BY <1>3 DEF GoIdle, state, thread, IInv, TypeOK, DataOK, Draining, Idle
  <2>2. Accounting'
      BY <1>3 DEF GoIdle, state, thread, IInv, TypeOK, FlagsOK, DataOK, Accounting, Shut
  <2>3. InHand' = InHand /\ UNCHANGED <<running, settled, waiting, submitted>>
      BY <1>3 DEF GoIdle, state, thread, InHand
  <2>4. Numbering'
      BY <2>3 DEF IInv, Numbering, NextInHand, NoneMissing, WaitingInOrder, SettledSoFar
  <2>5. Watched'
      BY <1>3 DEF GoIdle, state, thread, IInv, Watched, Idle
  <2>6. Shut'
      BY <1>3, <2>3 DEF GoIdle, state, thread, IInv, TypeOK, DataOK, Accounting, Watched,
         Shut, Idle, InHand
  <2> QED
      BY <1>1, <2>1, <2>2, <2>4, <2>5, <2>6 DEF IInv, TypeOK
<1>4. CASE Run
  <2>1. DataOK'
      BY <1>4 DEF Run, state, thread, IInv, TypeOK, DataOK, Draining, Idle
  <2>2. Accounting'
      BY <1>4 DEF Run, state, thread, IInv, TypeOK, FlagsOK, DataOK, Accounting, Shut
  <2>3. InHand' = InHand /\ UNCHANGED <<running, settled, waiting, submitted>>
      BY <1>4 DEF Run, state, thread, InHand
  <2>4. Numbering'
      BY <2>3 DEF IInv, Numbering, NextInHand, NoneMissing, WaitingInOrder, SettledSoFar
  <2>5. Watched' /\ Shut'
      BY <1>4, <2>3 DEF Run, state, thread, IInv, TypeOK, FlagsOK, DataOK, Accounting,
         Watched, Shut, Idle, Draining
  <2> QED
      BY <1>1, <2>1, <2>2, <2>4, <2>5 DEF IInv, TypeOK
<1>5. CASE GiveBack
  <2>1. DataOK'
    <3>1. outstanding = Len(waiting) + 1 /\ Len(waiting) \in Nat
        BY <1>5 DEF GiveBack, IInv, TypeOK, DataOK, Accounting
    <3> QED
        BY <1>5, <3>1 DEF GiveBack, state, thread, IInv, TypeOK, DataOK, Draining, Idle
  <2>2. Accounting'
    <3>1. (outstanding = Len(waiting) + (IF worker \in {"run", "computed"} THEN 1 ELSE 0))'
        BY <1>5 DEF GiveBack, IInv, TypeOK, DataOK, Accounting
    <3>2. outstanding' <= Capacity
        BY <1>5, CapacityAssumption DEF GiveBack, IInv, TypeOK, DataOK, Accounting
    <3>3. active' <=> worker' \in {"fetch", "run", "computed", "complete"}
        BY <1>5 DEF GiveBack, IInv, TypeOK, FlagsOK, Accounting
    <3> QED
        BY <3>1, <3>2, <3>3 DEF Accounting
  <2>3. InHand' = InHand /\ UNCHANGED <<running, settled, waiting, submitted>>
      BY <1>5 DEF GiveBack, state, thread, InHand
  <2>4. Numbering'
      BY <2>3 DEF IInv, Numbering, NextInHand, NoneMissing, WaitingInOrder, SettledSoFar
  <2>5. Watched' /\ Shut'
      BY <1>5, <2>3 DEF GiveBack, state, thread, IInv, TypeOK, FlagsOK, DataOK, Accounting,
         Watched, Shut, Idle, Draining
  <2> QED
      BY <1>1, <2>1, <2>2, <2>4, <2>5 DEF IInv, TypeOK
<1>6. CASE Complete
  <2>1. DataOK'
      BY <1>6 DEF Complete, state, thread, IInv, TypeOK, DataOK, Draining, Idle
  <2>2. Accounting'
      BY <1>6 DEF Complete, state, thread, IInv, TypeOK, FlagsOK, DataOK, Accounting, Shut
  <2>3. InHand = 1 /\ InHand' = 0
      BY <1>6 DEF Complete, state, thread, InHand
  <2>4. Numbering'
    <3>1. NextInHand'
        BY <1>6, <2>3 DEF Complete, state, thread, IInv, TypeOK, DataOK, Numbering,
           NextInHand, NoneMissing
    <3>2. NoneMissing'
        BY <1>6, <2>3 DEF Complete, state, thread, IInv, TypeOK, DataOK, Numbering,
           NextInHand, NoneMissing
    <3>3. WaitingInOrder'
        BY <1>6, <2>3 DEF Complete, state, thread, IInv, TypeOK, DataOK, Numbering,
           NextInHand, NoneMissing, WaitingInOrder
    <3>4. SettledSoFar'
        BY <1>6, <2>3 DEF Complete, state, thread, IInv, TypeOK, DataOK, Numbering,
           NextInHand, NoneMissing, SettledSoFar
    <3> QED
        BY <3>1, <3>2, <3>3, <3>4 DEF Numbering
  <2>5. Watched' /\ Shut'
      BY <1>6, <2>3 DEF Complete, state, thread, IInv, TypeOK, FlagsOK, DataOK, Accounting,
         Watched, Shut, Idle, Draining
  <2> QED
      BY <1>1, <2>1, <2>2, <2>4, <2>5 DEF IInv, TypeOK
<1>7. CASE DropPool
  <2>1. DataOK'
      BY <1>7 DEF DropPool, state, thread, IInv, TypeOK, DataOK, Draining, Idle
  <2>2. Accounting'
      BY <1>7 DEF DropPool, state, thread, IInv, TypeOK, FlagsOK, DataOK, Accounting, Shut
  <2>3. InHand' = InHand /\ UNCHANGED <<running, settled, waiting, submitted>>
      BY <1>7 DEF DropPool, state, thread, InHand
  <2>4. Numbering'
      BY <2>3 DEF IInv, Numbering, NextInHand, NoneMissing, WaitingInOrder, SettledSoFar
  <2>5. Watched' /\ Shut'
      BY <1>7, <2>3 DEF DropPool, state, thread, IInv, TypeOK, FlagsOK, DataOK, Accounting,
         Watched, Shut, Idle, Draining
  <2> QED
      BY <1>1, <2>1, <2>2, <2>4, <2>5 DEF IInv, TypeOK
<1>8. CASE Release
  <2>1. DataOK'
    <3>1. releasing # <<>> => /\ Tail(releasing) \in Seq(Nat)
                              /\ Append(answered, Head(releasing)) \in Seq(Nat)
        BY Pushed, Popped DEF IInv, TypeOK, DataOK
    <3> QED
        BY <1>8, <3>1 DEF Release, state, thread, IInv, TypeOK, DataOK, Draining, Idle
  <2>2. Accounting'
      BY <1>8 DEF Release, state, thread, IInv, TypeOK, FlagsOK, DataOK, Accounting, Shut
  <2>3. InHand' = InHand /\ UNCHANGED <<running, settled, waiting, submitted>>
      BY <1>8 DEF Release, state, thread, InHand
  <2>4. Numbering'
      BY <2>3 DEF IInv, Numbering, NextInHand, NoneMissing, WaitingInOrder, SettledSoFar
  <2>5. Watched' /\ Shut'
      BY <1>8, <2>3 DEF Release, state, thread, IInv, TypeOK, FlagsOK, DataOK, Accounting,
         Watched, Shut, Idle, Draining
  <2> QED
      BY <1>1, <2>1, <2>2, <2>4, <2>5 DEF IInv, TypeOK
<1> QED
    BY <1>2, <1>3, <1>4, <1>5, <1>6, <1>7, <1>8 DEF Drain

\* Every call and every step of the drain worker keeps the inductive invariant.
LEMMA StepKeepsIInv == IInv /\ [Next]_vars => IInv'
<1> SUFFICES ASSUME IInv, [Next]_vars PROVE IInv'
    OBVIOUS
<1>1. CASE Prove \/ Close \/ CloseIdle \/ Finalize
    BY <1>1, CallsKeepIInv
<1>2. CASE Drain
    BY <1>2, DrainKeepsIInv
<1>3. CASE UNCHANGED vars
    BY <1>3 DEF vars, state, thread, IInv, TypeOK, FlagsOK, DataOK, Accounting, Numbering,
       NextInHand, NoneMissing, WaitingInOrder, SettledSoFar, InHand, Watched, Shut
<1> QED
    BY <1>1, <1>2, <1>3 DEF Next, Quiet

\* The inductive invariant holds in every reachable state, with it the types.
THEOREM Invariance == Spec => []IInv
    BY InitIInv, StepKeepsIInv, PTL DEF Spec

\* `submit` counts exactly the jobs that wait or run, never more than the
\* capacity, and `active` is set exactly while a drain will look again.
THEOREM AccountingHolds == Spec => []Accounting
<1>1. IInv => Accounting
    BY DEF IInv
<1> QED
    BY <1>1, Invariance, PTL

\* `drain` settles the accepted jobs in order, each once.
THEOREM SettledInOrderHolds == Spec => []SettledInOrder
<1>1. IInv => SettledInOrder
  <2> SUFFICES ASSUME IInv PROVE SettledInOrder
      OBVIOUS
  <2> USE DEF IInv, TypeOK, DataOK, Numbering, NoneMissing, SettledSoFar, InHand
  <2>1. settled = [i \in 1..Len(settled) |-> settled[i]]
      OBVIOUS
  <2>2. settled = [i \in 1..Len(settled) |-> i]
      BY <2>1
  <2>3. Len(settled) <= submitted
      OBVIOUS
  <2> QED
      BY <2>2, <2>3 DEF SettledInOrder
<1> QED
    BY <1>1, Invariance, PTL

\* `close` is answered, by drain or by itself, after every accepted proof has
\* settled and the last reference to the key is gone.
THEOREM ClosesAnsweredLastHolds == Spec => []ClosesAnsweredLast
<1>1. IInv => ClosesAnsweredLast
    BY DEF IInv, TypeOK, DataOK, Numbering, NoneMissing, InHand, Shut, ClosesAnsweredLast,
       KeyHeld
<1> QED
    BY <1>1, Invariance, PTL

\* "Release its capacity before exposing completion": `prove` refuses a call as
\* full only while as many accepted promises as the capacity are pending.
THEOREM FullOnlyWhenFullHolds == Spec => FullOnlyWhenFull
<1>1. IInv /\ [Next]_vars
        => [refused' = "full" /\ refused' # refused
              => submitted - Len(settled) >= Capacity]_vars
  <2> SUFFICES ASSUME IInv, Next, refused' = "full", refused' # refused
               PROVE  submitted - Len(settled) >= Capacity
      OBVIOUS
  <2>1. Prove
      BY DEF Next, Close, CloseIdle, Finalize, Drain, Fetch, GoIdle, Run, GiveBack, Complete,
             DropPool, Release, Quiet, vars
  <2>2. outstanding >= Capacity
      BY <2>1 DEF Prove
  <2>3. outstanding <= Len(waiting) + InHand
      BY DEF IInv, TypeOK, DataOK, Accounting, InHand
  <2> QED
      BY <2>2, <2>3, CapacityAssumption
         DEF IInv, TypeOK, DataOK, Numbering, NoneMissing, InHand
<1> QED
    BY <1>1, Invariance, PTL DEF Spec, FullOnlyWhenFull
-----------------------------------------------------------------------------
(* The queue as the service its callers see *)

Distinct(s) == \A i, j \in DOMAIN s : s[i] = s[j] => i = j

\* Each close call is in one place: being answered by itself, waiting for
\* drain, in the hands of drain, or answered.
ClosesApart ==
    /\ Distinct(onRelease) /\ Distinct(releasing)
    /\ Elements(onRelease) \cap Elements(releasing) = {}
    /\ Elements(answered) \cap (Elements(onRelease) \cup Elements(releasing)) = {}
    /\ js \notin Elements(answered) \cup Elements(onRelease) \cup Elements(releasing)
    /\ Elements(answered) \cup Elements(onRelease) \cup Elements(releasing) \subseteq 1..closes
    /\ js <= closes

ServiceInv == IInv /\ ClosesApart

\* What `push` does to the members of a queue.
LEMMA PushedElements ==
    ASSUME NEW s \in Seq(Nat), NEW e \in Nat
    PROVE  /\ Elements(Append(s, e)) = Elements(s) \cup {e}
           /\ Distinct(s) /\ e \notin Elements(s) => Distinct(Append(s, e))
<1>1. /\ Append(s, e) \in Seq(Nat) /\ Len(Append(s, e)) = Len(s) + 1
      /\ \A i \in 1..Len(s) : Append(s, e)[i] = s[i]
      /\ Append(s, e)[Len(s) + 1] = e
    BY Pushed
<1>2. DOMAIN s = 1..Len(s) /\ DOMAIN Append(s, e) = 1..(Len(s) + 1) /\ Len(s) \in Nat
    BY <1>1
<1>3. Elements(Append(s, e)) = {Append(s, e)[i] : i \in 1..(Len(s) + 1)}
    BY <1>2 DEF Elements
<1>4. Elements(s) = {s[i] : i \in 1..Len(s)}
    BY <1>2 DEF Elements
<1>5. 1..(Len(s) + 1) = (1..Len(s)) \cup {Len(s) + 1}
    BY <1>2
<1>6. Elements(Append(s, e)) = Elements(s) \cup {e}
    BY <1>1, <1>3, <1>4, <1>5
<1>7. ASSUME Distinct(s), e \notin Elements(s)
      PROVE  Distinct(Append(s, e))
    BY <1>1, <1>2, <1>4, <1>5, <1>7 DEF Distinct
<1> QED
    BY <1>6, <1>7

\* What `pop` does to the members of a queue of distinct numbers.
LEMMA PoppedElements ==
    ASSUME NEW s \in Seq(Nat), s # <<>>, Distinct(s)
    PROVE  /\ Elements(Tail(s)) = Elements(s) \ {Head(s)}
           /\ Head(s) \in Elements(s)
           /\ Distinct(Tail(s))
<1>1. /\ Head(s) = s[1] /\ Tail(s) \in Seq(Nat) /\ Len(Tail(s)) = Len(s) - 1
      /\ \A i \in 1..Len(Tail(s)) : Tail(s)[i] = s[i + 1]
    BY Popped
<1>2. /\ DOMAIN s = 1..Len(s) /\ DOMAIN Tail(s) = 1..(Len(s) - 1)
      /\ Len(s) \in Nat /\ Len(s) >= 1
    BY <1>1
<1>3. \A i \in 1..Len(s) : s[i] = Head(s) <=> i = 1
    BY <1>1, <1>2 DEF Distinct
<1>4. \A i \in 2..Len(s) : i - 1 \in DOMAIN Tail(s) /\ Tail(s)[i - 1] = s[i]
    BY <1>1, <1>2
<1>5. \A i \in DOMAIN Tail(s) : i + 1 \in 2..Len(s) /\ Tail(s)[i] = s[i + 1]
    BY <1>1, <1>2
<1>6. Elements(Tail(s)) \subseteq Elements(s) \ {Head(s)}
    BY <1>2, <1>3, <1>5 DEF Elements
<1>7. Elements(s) \ {Head(s)} \subseteq Elements(Tail(s))
  <2> SUFFICES ASSUME NEW e \in Elements(s), e # Head(s) PROVE e \in Elements(Tail(s))
      OBVIOUS
  <2>1. PICK i \in 1..Len(s) : s[i] = e
      BY <1>2 DEF Elements
  <2>2. i \in 2..Len(s)
      BY <1>2, <1>3, <2>1
  <2> QED
      BY <1>4, <2>1, <2>2 DEF Elements
<1>8. Distinct(Tail(s))
    BY <1>2, <1>5 DEF Distinct
<1>9. Head(s) \in Elements(s)
    BY <1>1, <1>2 DEF Elements
<1> QED
    BY <1>6, <1>7, <1>8, <1>9

\* A queue just made has no close calls.
LEMMA InitServiceInv == Init => ServiceInv
<1> SUFFICES ASSUME Init PROVE ClosesApart
    BY InitIInv DEF ServiceInv
<1>1. /\ onRelease = <<>> /\ releasing = <<>> /\ answered = <<>> /\ js = 0 /\ closes = 0
    BY DEF Init
<1> QED
    BY <1>1 DEF ClosesApart, Distinct, Elements

\* How a step of the queue changes what its callers see: it accepts a request,
\* settles one, takes a close or answers one, or shows them nothing.
LEMMA StepIsService ==
    ServiceInv /\ [Next]_vars => ClosesApart' /\ [Service!ServiceNext]_(Service!serviceVars)
<1> SUFFICES ASSUME ServiceInv, [Next]_vars
             PROVE  ClosesApart' /\ [Service!ServiceNext]_(Service!serviceVars)
    OBVIOUS
<1>1. /\ closes \in Nat /\ js \in Nat /\ submitted \in Nat
      /\ onRelease \in Seq(Nat) /\ releasing \in Seq(Nat) /\ answered \in Seq(Nat)
      /\ settled \in Seq(Nat)
    BY DEF ServiceInv, IInv, TypeOK, DataOK
<1>2. ASSUME UNCHANGED <<closes, js, onRelease, releasing, answered>>
      PROVE  ClosesApart' /\ UNCHANGED ((1..closes) \ Elements(answered))
    BY <1>2 DEF ClosesApart, ServiceInv
<1>3. ASSUME UNCHANGED <<submitted, Len(settled), closed, (1..closes) \ Elements(answered)>>
      PROVE  [Service!ServiceNext]_(Service!serviceVars)
    BY <1>3 DEF Service!serviceVars
<1>4. CASE Prove
  <2>1. UNCHANGED <<closes, js, onRelease, releasing, answered, settled, closed>>
      BY <1>4 DEF Prove, state
  <2>2. CASE UNCHANGED submitted
      BY <1>2, <1>3, <2>1, <2>2
  <2>3. CASE submitted' # submitted
    <3>1. /\ prover # "closed" /\ ~closed /\ outstanding < Capacity
          /\ submitted' = submitted + 1
        BY <1>4, <2>3, CapacityAssumption DEF Prove, ServiceInv, IInv, TypeOK, DataOK
    <3>2. submitted - Len(settled) <= outstanding + 1
        BY DEF ServiceInv, IInv, TypeOK, DataOK, Accounting, Numbering, NoneMissing, InHand
    <3>3. submitted - Len(settled) < Capacity + 1
        BY <1>1, <3>1, <3>2, CapacityAssumption DEF ServiceInv, IInv, TypeOK, DataOK
    <3>4. Service!Accept
        BY <1>2, <2>1, <3>1, <3>3 DEF Service!Accept
    <3> QED
        BY <1>2, <2>1, <3>4 DEF Service!ServiceNext
  <2> QED
      BY <2>2, <2>3
<1>5. CASE Close
  <2>1. /\ js = 0 /\ closes' = closes + 1 /\ closed' = TRUE
        /\ UNCHANGED <<releasing, answered, submitted, settled>>
      BY <1>5 DEF Close, thread
  <2>2. \/ onRelease' = Append(onRelease, closes + 1) /\ js' = js
        \/ onRelease' = onRelease /\ js' = closes + 1
      BY <1>5 DEF Close
  <2>3. \A s \in {onRelease, releasing, answered} : Elements(s) \subseteq 1..closes
      BY DEF ServiceInv, ClosesApart
  <2>4. ClosesApart'
    <3>1. CASE onRelease' = Append(onRelease, closes + 1) /\ js' = js
      <4>1. /\ Elements(onRelease') = Elements(onRelease) \cup {closes + 1}
            /\ Distinct(onRelease) /\ closes + 1 \notin Elements(onRelease)
                  => Distinct(onRelease')
          BY <1>1, <3>1, PushedElements
      <4> QED
          BY <1>1, <2>1, <2>3, <3>1, <4>1 DEF ServiceInv, ClosesApart
    <3>2. CASE onRelease' = onRelease /\ js' = closes + 1
        BY <1>1, <2>1, <2>3, <3>2 DEF ServiceInv, ClosesApart
    <3> QED
        BY <2>2, <3>1, <3>2
  <2>5. Service!RequestClose
    <3>1. /\ 1..(closes + 1) = (1..closes) \cup {closes + 1}
          /\ closes + 1 \notin 1..closes /\ closes + 1 \notin Elements(answered)
        BY <1>1, <2>3
    <3>2. ((1..closes) \ Elements(answered))'
             = ((1..closes) \ Elements(answered)) \cup {closes + 1}
        BY <2>1, <3>1
    <3>3. closes + 1 \in ((1..closes) \ Elements(answered))' \ ((1..closes) \ Elements(answered))
        BY <3>1, <3>2
    <3> QED
        BY <2>1, <3>2, <3>3 DEF Service!RequestClose
  <2> QED
      BY <2>4, <2>5 DEF Service!ServiceNext
<1>6. ASSUME NEW c \in Nat, c \in 1..closes, c \notin Elements(answered),
             answered' = Append(answered, c),
             waiting = <<>>, InHand = 0,
             UNCHANGED <<closes, submitted, settled, closed>>
      PROVE  /\ Elements(answered') = Elements(answered) \cup {c}
             /\ [Service!ServiceNext]_(Service!serviceVars)
  <2>1. Elements(answered') = Elements(answered) \cup {c}
      BY <1>1, <1>6, PushedElements
  <2>2. Len(settled) = submitted
      BY <1>1, <1>6 DEF ServiceInv, IInv, Numbering, NoneMissing
  <2>3. ((1..closes) \ Elements(answered))' = ((1..closes) \ Elements(answered)) \ {c}
      BY <1>6, <2>1
  <2>4. Service!AnswerClose
      BY <1>6, <2>2, <2>3 DEF Service!AnswerClose
  <2> QED
      BY <2>1, <2>4 DEF Service!ServiceNext
<1>7. CASE CloseIdle
  <2>1. /\ js # 0 /\ js' = 0 /\ answered' = Append(answered, js)
        /\ UNCHANGED <<closes, closed, waiting, onRelease, releasing, submitted, settled>>
      BY <1>7 DEF CloseIdle, state, thread
  <2>2. closed /\ waiting = <<>> /\ InHand = 0
      BY <2>1 DEF ServiceInv, IInv, Shut
  <2>3. js \in 1..closes /\ js \notin Elements(answered)
      BY <1>1, <2>1 DEF ServiceInv, ClosesApart
  <2>4. /\ Elements(answered') = Elements(answered) \cup {js}
        /\ [Service!ServiceNext]_(Service!serviceVars)
      BY <1>1, <1>6, <2>1, <2>2, <2>3
  <2>5. 0 \notin 1..closes
      BY <1>1
  <2> QED
      BY <1>1, <2>1, <2>3, <2>4, <2>5 DEF ServiceInv, ClosesApart
<1>8. CASE Finalize
    BY <1>2, <1>3, <1>8 DEF Finalize, state, thread
<1>9. CASE Fetch \/ Run \/ GiveBack \/ DropPool \/ Quiet \/ UNCHANGED vars
    BY <1>2, <1>3, <1>9 DEF Fetch, Run, GiveBack, DropPool, Quiet, vars, state, thread
<1>10. CASE GoIdle
  <2>1. UNCHANGED <<closes, js, answered, submitted, settled, closed>>
      BY <1>10 DEF GoIdle
  <2>2. \/ releasing' = onRelease /\ onRelease' = <<>>
        \/ UNCHANGED <<releasing, onRelease>>
      BY <1>10 DEF GoIdle
  <2>3. Distinct(<<>>) /\ Elements(<<>>) = {}
      BY DEF Distinct, Elements
  <2>4. ClosesApart'
      BY <2>1, <2>2, <2>3 DEF ServiceInv, ClosesApart
  <2> QED
      BY <1>3, <2>1, <2>4
<1>11. CASE Complete
  <2>1. /\ settled' = Append(settled, running)
        /\ UNCHANGED <<closes, js, onRelease, releasing, answered, submitted, closed>>
      BY <1>11 DEF Complete, state
  <2>2. Len(settled') = Len(settled) + 1 /\ Len(settled) < submitted
      BY <1>1, <1>11, <2>1
         DEF Complete, ServiceInv, IInv, TypeOK, DataOK, Numbering, NoneMissing, InHand
  <2>3. Service!Settle
      BY <1>2, <2>1, <2>2 DEF Service!Settle
  <2> QED
      BY <1>2, <2>1, <2>3 DEF Service!ServiceNext
<1>12. CASE Release
  <2>1. /\ worker = "release"
        /\ UNCHANGED <<closes, js, onRelease, submitted, settled, closed, waiting>>
      BY <1>12 DEF Release, state
  <2>2. CASE releasing = <<>>
      BY <1>2, <1>3, <1>12, <2>1, <2>2 DEF Release
  <2>3. CASE releasing # <<>>
    <3>1. answered' = Append(answered, Head(releasing)) /\ releasing' = Tail(releasing)
        BY <1>12, <2>3 DEF Release
    <3>2. /\ Elements(releasing') = Elements(releasing) \ {Head(releasing)}
          /\ Head(releasing) \in Elements(releasing) /\ Distinct(releasing')
        BY <1>1, <2>3, <3>1, PoppedElements DEF ServiceInv, ClosesApart
    <3>3. /\ Head(releasing) \in 1..closes /\ Head(releasing) \notin Elements(answered)
          /\ Head(releasing) \in Nat
        BY <1>1, <3>2 DEF ServiceInv, ClosesApart
    <3>4. closed /\ waiting = <<>> /\ InHand = 0
        BY <2>1 DEF ServiceInv, IInv, Shut
    <3>5. /\ Elements(answered') = Elements(answered) \cup {Head(releasing)}
          /\ [Service!ServiceNext]_(Service!serviceVars)
        BY <1>6, <2>1, <3>1, <3>3, <3>4
    <3>6. ClosesApart'
        BY <2>1, <3>2, <3>3, <3>5 DEF ServiceInv, ClosesApart
    <3> QED
        BY <3>5, <3>6
  <2> QED
      BY <2>2, <2>3
<1> QED
    BY <1>4, <1>5, <1>7, <1>8, <1>9, <1>10, <1>11, <1>12 DEF Next, Drain

\* The safety of the service: every step of the queue, however the critical
\* sections of JavaScript and the worker interleave, is a step of a bounded
\* first-in first-out service or invisible to its callers.
THEOREM QueueIsService == Spec => Service!ServiceInit /\ [][Service!ServiceNext]_(Service!serviceVars)
<1>1. Init => Service!ServiceInit
  <2> SUFFICES ASSUME Init PROVE Service!ServiceInit
      OBVIOUS
  <2>1. submitted = 0 /\ settled = <<>> /\ closed = FALSE /\ closes = 0 /\ answered = <<>>
      BY DEF Init
  <2> QED
      BY <2>1 DEF Service!ServiceInit
<1>2. ServiceInv /\ [Next]_vars => ServiceInv' /\ [Service!ServiceNext]_(Service!serviceVars)
    BY StepIsService, StepKeepsIInv DEF ServiceInv
<1> QED
    BY <1>1, <1>2, InitServiceInv, PTL DEF Spec

-----------------------------------------------------------------------------
(* The handle registry *)

Object == [type : Types, handle : 1..MaxHandle, key : BOOLEAN, holder : Threads \cup {NoThread}]

Calls == {Returned}
            \cup [at : {"insert"}, type : Types, handle : 1..MaxHandle]
            \cup [at : {"operate", "body", "free", "clear"}, object : Objects]

RegistryTypeOK ==
    /\ nextHandle \in 1..MaxHandle
    /\ objects \in Seq(Object)
    /\ call \in [Threads -> Calls]
    /\ freed \in Seq(Objects)

\* A handle below nextHandle went to one insertion: an object that has it,
\* or a thread between the two halves of `insert`.
Inserting(t) == call[t].at = "insert"
BelowNext == \A x \in Objects : objects[x].handle < nextHandle
NoneShared == \A x, y \in Objects : objects[x].handle = objects[y].handle => x = y
Reserved ==
    \A t \in Threads : Inserting(t) =>
        /\ call[t].handle < nextHandle
        /\ \A x \in Objects : objects[x].handle # call[t].handle
ReservedApart ==
    \A t, u \in Threads :
        Inserting(t) /\ Inserting(u) /\ call[t].handle = call[u].handle => t = u
Issued == BelowNext /\ NoneShared /\ Reserved /\ ReservedApart

\* The maps hold objects under their own type and handle.
Filed ==
    /\ entries = [type \in Types |-> entries[type]]
    /\ \A type \in Types : \A h \in DOMAIN entries[type] :
          /\ entries[type][h] \in Objects
          /\ objects[entries[type][h]].handle = h
          /\ objects[entries[type][h]].type = type

RegistryIInv == RegistryTypeOK /\ Issued /\ Filed
-----------------------------------------------------------------------------
\* What `Vec::push`, here the allocation of an object, does to a sequence.
LEMMA ObjectPushed ==
    ASSUME NEW S, NEW s \in Seq(S), NEW e \in S
    PROVE  /\ Append(s, e) \in Seq(S)
           /\ DOMAIN Append(s, e) = DOMAIN s \cup {Len(s) + 1}
           /\ DOMAIN s = 1..Len(s) /\ Len(s) \in Nat
           /\ Len(Append(s, e)) = Len(s) + 1
           /\ \A i \in DOMAIN s : Append(s, e)[i] = s[i]
           /\ Append(s, e)[Len(s) + 1] = e
    OBVIOUS

\* Before the first `insert` the registries satisfy the inductive invariant.
LEMMA RegistryInitIInv == RegistryInit => RegistryIInv
<1> SUFFICES ASSUME RegistryInit PROVE RegistryIInv
    OBVIOUS
<1>1. RegistryTypeOK
    BY RegistryAssumption DEF RegistryInit, RegistryTypeOK, Calls, Returned
<1>2. Issued
    BY DEF RegistryInit, Issued, BelowNext, NoneShared, Reserved, ReservedApart, Inserting,
       Returned, Objects
<1>3. Filed
    BY DEF RegistryInit, Filed
<1> QED
    BY <1>1, <1>2, <1>3 DEF RegistryIInv

\* An object read back from `objects` has the fields it was made with.
LEMMA ObjectTypes ==
    ASSUME RegistryTypeOK, NEW x \in Objects
    PROVE  objects[x] \in Object /\ objects[x].handle \in Nat /\ objects[x].type \in Types
<1>1. objects[x] \in Object
    BY DEF RegistryTypeOK, Objects
<1> QED
    BY <1>1 DEF Object

\* The record of one thread changes.
LEMMA Gone ==
    ASSUME RegistryTypeOK, NEW t \in Threads, NEW where, Goes(t, where)
    PROVE  /\ call'[t] = where
           /\ \A u \in Threads : u # t => call'[u] = call[u]
           /\ where \in Calls => call' \in [Threads -> Calls]
    BY DEF RegistryTypeOK, Goes

\* The first half of `insert`: taking the next handle, or failing at the last.
LEMMA ReserveKeepsIInv ==
    ASSUME RegistryIInv, NEW t \in Threads, NEW type \in Types, Reserve(t, type)
    PROVE  RegistryIInv'
<1> USE DEF RegistryIInv
<1>1. CASE nextHandle < MaxHandle
  <2> DEFINE place == [at |-> "insert", type |-> type, handle |-> nextHandle]
  <2>1. /\ nextHandle' = nextHandle + 1 /\ Goes(t, place)
        /\ UNCHANGED <<entries, objects, freed, signed>>
      BY <1>1 DEF Reserve
  <2>2. place \in Calls /\ nextHandle \in 1..MaxHandle
      BY DEF Calls, RegistryTypeOK
  <2> HIDE DEF place
  <2>3. Calls' = Calls /\ Objects' = Objects
      BY <2>1 DEF Calls, Objects
  <2>4. /\ call' \in [Threads -> Calls] /\ call'[t] = place
        /\ \A u \in Threads : u # t => call'[u] = call[u]
      BY <2>1, <2>2, Gone
  <2>5. RegistryTypeOK'
      BY <1>1, <2>1, <2>2, <2>3, <2>4, RegistryAssumption DEF RegistryTypeOK
  <2>6. place.at = "insert" /\ place.handle = nextHandle
      BY DEF place
  <2>7. \A x \in Objects : objects[x].handle \in Nat
      BY ObjectTypes
  <2>8. BelowNext' /\ NoneShared'
      BY <2>1, <2>2, <2>3, <2>7 DEF Issued, BelowNext, NoneShared
  <2>9. \A u \in Threads : Inserting(u) => call[u].handle \in Nat
      BY DEF RegistryTypeOK, Calls, Inserting, Returned
  <2>10. Reserved'
      BY <2>1, <2>2, <2>3, <2>4, <2>6, <2>7, <2>9 DEF Issued, Reserved, BelowNext, Inserting
  <2>11. ReservedApart'
      BY <2>1, <2>2, <2>4, <2>6, <2>9 DEF Issued, Reserved, ReservedApart, Inserting
  <2>12. Filed'
      BY <2>1, <2>3 DEF Filed
  <2> QED
      BY <2>5, <2>8, <2>10, <2>11, <2>12 DEF Issued
<1>2. CASE ~(nextHandle < MaxHandle)
  <2>1. UNCHANGED registryVars
      BY <1>2 DEF Reserve, registryVars
  <2> QED
      BY <2>1 DEF registryVars, RegistryTypeOK, Calls, Objects, Issued, BelowNext, NoneShared, Reserved,
                  ReservedApart, Inserting, Filed
<1> QED
    BY <1>1, <1>2

\* The second half of `insert`: the object goes into the map of its type.
LEMMA InsertKeepsIInv ==
    ASSUME RegistryIInv, NEW t \in Threads, Insert(t)
    PROVE  RegistryIInv'
<1> USE DEF RegistryIInv
<1> DEFINE c == call[t]
           object == Len(objects) + 1
           new == [type |-> c.type, handle |-> c.handle, key |-> TRUE, holder |-> NoThread]
<1>1. Inserting(t) /\ c.type \in Types /\ c.handle \in 1..MaxHandle /\ c.handle < nextHandle
    <2>1. Inserting(t) BY DEF Insert, Inserting
    <2>2. c \in Calls BY DEF RegistryTypeOK
    <2>3. c.type \in Types /\ c.handle \in 1..MaxHandle
        BY <2>1, <2>2 DEF Inserting, Calls, Returned
    <2>4. c.handle < nextHandle BY <2>1 DEF Issued, Reserved
    <2> QED BY <2>1, <2>3, <2>4
<1>2. new \in Object
    BY <1>1 DEF Object
<1>3. /\ objects' = Append(objects, new)
      /\ Goes(t, Returned)
      /\ UNCHANGED <<nextHandle, freed, signed>>
      /\ entries' = [entries EXCEPT ![c.type] =
                        [h \in DOMAIN @ \cup {c.handle} |-> IF h = c.handle THEN object ELSE @[h]]]
    BY DEF Insert
<1>4. new.type = c.type /\ new.handle = c.handle
    OBVIOUS
<1> HIDE DEF new
<1>5. /\ objects' \in Seq(Object)
      /\ Objects' = Objects \cup {object} /\ object \notin Objects
      /\ \A x \in Objects : objects'[x] = objects[x]
      /\ objects'[object] = new
    BY <1>2, <1>3, ObjectPushed DEF RegistryTypeOK, Objects
<1>6. /\ call'[t] = Returned
      /\ \A u \in Threads : u # t => call'[u] = call[u]
      /\ call' \in [Threads -> Calls]
    BY <1>3, Gone DEF Calls
<1> HIDE DEF object, c
<1>7. Calls \subseteq Calls'
    BY <1>5 DEF Calls
<1>8. RegistryTypeOK'
  <2>1. freed' \in Seq(Objects')
      BY <1>3, <1>5 DEF RegistryTypeOK
  <2>2. call' \in [Threads -> Calls']
      BY <1>6, <1>7
  <2> QED
      BY <1>3, <1>5, <2>1, <2>2 DEF RegistryTypeOK
<1>9. \A u \in Threads : Inserting(u)' => u # t /\ Inserting(u) /\ call'[u] = call[u]
    BY <1>6 DEF Inserting, Returned
<1>10. \A x \in Objects : objects[x].handle # c.handle
    BY <1>1 DEF Issued, Reserved, c
<1>11. BelowNext'
    BY <1>1, <1>3, <1>4, <1>5 DEF Issued, BelowNext
<1>12. NoneShared'
    BY <1>4, <1>5, <1>10 DEF Issued, NoneShared
<1>13. Reserved'
  <2> SUFFICES ASSUME NEW u \in Threads, Inserting(u)'
               PROVE  /\ call'[u].handle < nextHandle'
                      /\ \A x \in Objects' : objects'[x].handle # call'[u].handle
      BY DEF Reserved
  <2>1. u # t /\ Inserting(u) /\ call'[u] = call[u]
      BY <1>9
  <2>2. call[u].handle # c.handle
      BY <1>1, <2>1 DEF Issued, ReservedApart, c
  <2> QED
      BY <1>3, <1>4, <1>5, <2>1, <2>2 DEF Issued, Reserved
<1>14. ReservedApart'
    BY <1>9 DEF Issued, ReservedApart
<1>15. Filed'
  <2>1. entries' = [entries EXCEPT ![c.type] =
                      [h \in DOMAIN entries[c.type] \cup {c.handle} |->
                          IF h = c.handle THEN object ELSE entries[c.type][h]]]
      BY <1>1, <1>3 DEF Filed
  <2>2. entries' = [type \in Types |-> entries'[type]]
      BY <2>1 DEF Filed
  <2>3. ASSUME NEW type \in Types, NEW h \in DOMAIN entries'[type]
        PROVE  /\ entries'[type][h] \in Objects'
               /\ objects'[entries'[type][h]].handle = h
               /\ objects'[entries'[type][h]].type = type
    <3>1. CASE type = c.type /\ h = c.handle
        BY <1>1, <1>4, <1>5, <2>1, <3>1 DEF Filed
    <3>2. CASE ~(type = c.type /\ h = c.handle)
      <4>1. h \in DOMAIN entries[type] /\ entries'[type][h] = entries[type][h]
          BY <1>1, <2>1, <3>2 DEF Filed
      <4> QED
          BY <1>5, <4>1 DEF Filed
    <3> QED
        BY <3>1, <3>2
  <2> QED
      BY <2>2, <2>3 DEF Filed
<1> QED
    BY <1>8, <1>11, <1>12, <1>13, <1>14, <1>15 DEF Issued

\* Steps that allocate nothing and reserve nothing keep what is issued.
LEMMA IssuedKept ==
    ASSUME Issued, UNCHANGED nextHandle, Objects' = Objects,
           \A x \in Objects : objects'[x].handle = objects[x].handle,
           \A u \in Threads : Inserting(u)' => Inserting(u) /\ call'[u] = call[u]
    PROVE  Issued'
    BY DEF Issued, BelowNext, NoneShared, Reserved, ReservedApart

\* The holder or the key of one object changes.
LEMMA ObjectChanged ==
    ASSUME RegistryTypeOK, NEW x \in Objects, NEW new \in Object,
           new.handle = objects[x].handle, new.type = objects[x].type,
           objects' = [objects EXCEPT ![x] = new]
    PROVE  /\ objects' \in Seq(Object) /\ Objects' = Objects /\ Calls' = Calls
           /\ objects'[x] = new
           /\ \A y \in Objects \ {x} : objects'[y] = objects[y]
           /\ \A y \in Objects : /\ objects'[y].handle = objects[y].handle
                                /\ objects'[y].type = objects[y].type
<1>1. /\ objects' \in [1..Len(objects) -> Object] /\ Len(objects) \in Nat
      /\ DOMAIN objects' = 1..Len(objects) /\ DOMAIN objects = 1..Len(objects)
    BY DEF RegistryTypeOK, Objects
<1>2. objects' \in Seq(Object)
    BY <1>1, SeqDef
<1>3. Objects' = Objects /\ Calls' = Calls
    BY <1>1 DEF Objects, Calls
<1>4. objects'[x] = new /\ \A y \in Objects \ {x} : objects'[y] = objects[y]
    BY DEF RegistryTypeOK, Objects
<1> QED
    BY <1>2, <1>3, <1>4

\* Steps that leave the maps and the identity of the objects alone.
LEMMA EnteredKept ==
    ASSUME Filed, UNCHANGED entries, Objects' = Objects,
           \A x \in Objects : /\ objects'[x].handle = objects[x].handle
                              /\ objects'[x].type = objects[x].type
    PROVE  Filed'
    BY DEF Filed

\* `with`, `with_mut` and `remove_with` under the map lock.
LEMMA MapReadKeepsIInv ==
    ASSUME RegistryIInv, NEW t \in Threads, NEW type \in Types, NEW handle \in Handles,
           Lookup(t, type, handle) \/ RemoveEntry(t, type, handle)
    PROVE  RegistryIInv'
<1> USE DEF RegistryIInv
<1> PICK kind \in {"operate", "free"} : Goes(t, [at |-> kind, object |-> entries[type][handle]])
    BY DEF Lookup, RemoveEntry
<1> DEFINE place == [at |-> kind, object |-> entries[type][handle]]
<1>1. UNCHANGED <<nextHandle, objects, freed, signed>> /\ handle \in DOMAIN entries[type]
    BY DEF Lookup, RemoveEntry
<1>2. place \in Calls /\ place.at # "insert"
    BY <1>1 DEF Calls, Filed
<1> HIDE DEF place
<1>3. /\ call' \in [Threads -> Calls] /\ call'[t] = place
      /\ \A u \in Threads : u # t => call'[u] = call[u]
    BY <1>2, Gone DEF place
<1>4. Calls' = Calls /\ Objects' = Objects
    BY <1>1 DEF Calls, Objects
<1>5. RegistryTypeOK'
    BY <1>1, <1>3, <1>4 DEF RegistryTypeOK
<1>6. Issued'
    BY <1>1, <1>2, <1>3, <1>4, IssuedKept DEF Inserting
<1>7. Filed'
  <2>1. CASE UNCHANGED entries
      BY <1>1, <1>4, <2>1, EnteredKept
  <2>2. CASE entries' = [entries EXCEPT ![type] = [h \in DOMAIN @ \ {handle} |-> @[h]]]
      BY <1>1, <1>4, <2>2 DEF Filed
  <2> QED
      BY <2>1, <2>2 DEF Lookup, RemoveEntry
<1> QED
    BY <1>5, <1>6, <1>7

\* The steps of a call on an object it has looked up.
LEMMA ObjectStepKeepsIInv ==
    ASSUME RegistryIInv, NEW t \in Threads, Acquire(t) \/ Body(t) \/ Clear(t)
    PROVE  RegistryIInv'
<1> USE DEF RegistryIInv
<1> DEFINE c == call[t]
<1>1. c.object \in Objects /\ c.at \in {"operate", "body", "free", "clear"}
    BY DEF Acquire, Body, Clear, RegistryTypeOK, Calls, Returned
<1>2. PICK new \in Object : /\ objects' = [objects EXCEPT ![c.object] = new]
                             /\ new.handle = objects[c.object].handle
                             /\ new.type = objects[c.object].type
  <2> DEFINE old == objects[c.object]
             occupied == [old EXCEPT !.holder = t]
             let_go == [old EXCEPT !.holder = NoThread]
             cleared == [old EXCEPT !.holder = NoThread, !.key = @ /\ old.type \notin KeyTypes]
  <2>1. old \in Object
      BY <1>1, ObjectTypes
  <2>2. \A new \in {occupied, let_go, cleared} :
            new \in Object /\ new.handle = old.handle /\ new.type = old.type
      BY <2>1 DEF Object
  <2>3. \E new \in {occupied, let_go, cleared} : objects' = [objects EXCEPT ![c.object] = new]
      BY <1>1 DEF Acquire, Body, Clear, RegistryTypeOK, Objects
  <2> QED
      BY <2>2, <2>3
<1>3. PICK where : /\ Goes(t, where)
                   /\ where = Returned
                        \/ \E at \in {"body", "clear"} : where = [c EXCEPT !.at = at]
    BY DEF Acquire, Body, Clear
<1>4. where \in Calls /\ where.at # "insert"
    BY <1>1, <1>3 DEF RegistryTypeOK, Calls, Returned
<1>5. /\ objects' \in Seq(Object) /\ Objects' = Objects /\ Calls' = Calls
      /\ \A y \in Objects : /\ objects'[y].handle = objects[y].handle
                           /\ objects'[y].type = objects[y].type
    BY <1>1, <1>2, ObjectChanged
<1>6. /\ call' \in [Threads -> Calls] /\ call'[t] = where
      /\ \A u \in Threads : u # t => call'[u] = call[u]
    BY <1>3, <1>4, Gone
<1>7. UNCHANGED <<nextHandle, entries>> /\ freed' \in Seq(Objects)
  <2>1. freed' \in {freed, Append(freed, c.object)}
      BY DEF Acquire, Body, Clear
  <2>2. Append(freed, c.object) \in Seq(Objects)
      BY <1>1, AppendProperties DEF RegistryTypeOK
  <2>3. UNCHANGED <<nextHandle, entries>>
      BY DEF Acquire, Body, Clear
  <2> QED
      BY <2>1, <2>2, <2>3 DEF RegistryTypeOK
<1>8. RegistryTypeOK'
    BY <1>5, <1>6, <1>7 DEF RegistryTypeOK
<1>9. Issued'
    BY <1>4, <1>5, <1>6, <1>7, IssuedKept DEF Inserting
<1>10. Filed'
    BY <1>5, <1>7, EnteredKept
<1> QED
    BY <1>8, <1>9, <1>10

\* Every step of every thread keeps the inductive invariant.
LEMMA RegistryStepKeepsIInv == RegistryIInv /\ [RegistryNext]_registryVars => RegistryIInv'
<1> SUFFICES ASSUME RegistryIInv, [RegistryNext]_registryVars PROVE RegistryIInv'
    OBVIOUS
<1>1. CASE UNCHANGED registryVars
    BY <1>1 DEF registryVars, RegistryIInv, RegistryTypeOK, Calls, Objects, Issued, BelowNext, NoneShared, Reserved,
                ReservedApart, Inserting, Filed
<1>2. CASE \E t \in Threads : Step(t) \/ Call(t)
    BY <1>1, <1>2, InsertKeepsIInv, ObjectStepKeepsIInv, ReserveKeepsIInv, MapReadKeepsIInv
       DEF Step, Call, Unknown
<1> QED
    BY <1>1, <1>2 DEF RegistryNext

\* Handles taken, objects made and entries of the maps stay consistent,
\* whatever threads insert, look up and free at the same time.
THEOREM RegistryInvariance == RegistrySpec => []RegistryIInv
    BY RegistryInitIInv, RegistryStepKeepsIInv, PTL DEF RegistrySpec

\* `insert` never gives two objects one handle, whatever threads insert at
\* the same time and however close the counter is to u64::MAX.
THEOREM HandlesNeverReusedHolds == RegistrySpec => []HandlesNeverReused
<1>1. RegistryIInv => HandlesNeverReused
  <2> SUFFICES ASSUME RegistryIInv PROVE HandlesNeverReused
      OBVIOUS
  <2>1. \A x \in Objects : objects[x].handle \in 1..(MaxHandle - 1)
    <3> SUFFICES ASSUME NEW x \in Objects PROVE objects[x].handle \in 1..(MaxHandle - 1)
        OBVIOUS
    <3>1. objects[x].handle \in 1..MaxHandle
        BY ObjectTypes DEF RegistryIInv, Object
    <3> QED
        BY <3>1, RegistryAssumption DEF RegistryIInv, RegistryTypeOK, Issued, BelowNext
  <2> QED
      BY <2>1 DEF RegistryIInv, Issued, NoneShared, Filed, HandlesNeverReused
<1> QED
    BY <1>1, RegistryInvariance, PTL
-----------------------------------------------------------------------------
\* The life of an object after its insertion: in its map, then in the hands
\* of the one thread that removed its entry, then freed, its key gone.
Freeing(t) == call[t].at \in {"free", "clear"}
Entry(x) == objects[x].handle \in DOMAIN entries[objects[x].type]
OneFreer ==
    \A t, u \in Threads : Freeing(t) /\ Freeing(u) /\ call[t].object = call[u].object => t = u
FreerRemoved == \A t \in Threads : Freeing(t) => ~Entry(call[t].object)
FreedGone ==
    \A i \in DOMAIN freed :
        /\ ~Entry(freed[i])
        /\ \A t \in Threads : Freeing(t) => call[t].object # freed[i]
        /\ objects[freed[i]].type \in KeyTypes => ~objects[freed[i]].key

LifeInv == OneFreer /\ FreerRemoved /\ FreedGone /\ FreedOnce

\* Before the first call nothing is freed nor being freed.
LEMMA InitLifeInv == RegistryInit => LifeInv
    BY DEF RegistryInit, LifeInv, OneFreer, FreerRemoved, FreedGone, FreedOnce, Freeing, Returned

\* What an entry of a map leads to.
LEMMA EntryObject ==
    ASSUME RegistryIInv, NEW type \in Types, NEW h \in DOMAIN entries[type]
    PROVE  /\ entries[type][h] \in Objects /\ Entry(entries[type][h])
           /\ objects[entries[type][h]].type = type /\ objects[entries[type][h]].handle = h
    BY DEF RegistryIInv, Filed, Entry

\* A thread that frees, and the list of freed objects, name real objects.
LEMMA References ==
    ASSUME RegistryTypeOK
    PROVE  /\ \A t \in Threads : Freeing(t) => call[t].object \in Objects
           /\ \A i \in DOMAIN freed : freed[i] \in Objects
    BY DEF RegistryTypeOK, Calls, Returned, Freeing

\* Steps that neither remove an entry nor end a free.
LEMMA LifeKept ==
    ASSUME RegistryTypeOK, LifeInv, UNCHANGED freed,
           \A x \in Objects : /\ Entry(x)' => Entry(x)
                              /\ objects'[x].type = objects[x].type
                              /\ objects'[x].key => objects[x].key,
           \A u \in Threads : Freeing(u)' => Freeing(u) /\ call'[u].object = call[u].object
    PROVE  LifeInv'
<1>1. OneFreer'
    BY DEF LifeInv, OneFreer
<1>2. FreerRemoved'
    BY References DEF LifeInv, FreerRemoved
<1>3. FreedGone'
    BY References DEF LifeInv, FreedGone
<1>4. FreedOnce'
    BY DEF LifeInv, FreedOnce
<1> QED
    BY <1>1, <1>2, <1>3, <1>4 DEF LifeInv

\* A new object has no entry elsewhere, no freer, and is not freed.
LEMMA InsertKeepsLife ==
    ASSUME RegistryIInv, LifeInv, NEW t \in Threads, Insert(t)
    PROVE  LifeInv'
<1> DEFINE c == call[t]
           new == [type |-> c.type, handle |-> c.handle, key |-> TRUE, holder |-> NoThread]
<1>0. Inserting(t)
    BY DEF Insert, Inserting
<1>1. /\ c.type \in Types /\ c.handle \in 1..MaxHandle
      /\ \A x \in Objects : objects[x].handle # c.handle
  <2>1. c.type \in Types /\ c.handle \in 1..MaxHandle
      BY <1>0 DEF Inserting, RegistryIInv, RegistryTypeOK, Calls, Returned
  <2>2. \A x \in Objects : objects[x].handle # c.handle
      BY <1>0 DEF RegistryIInv, Issued, Reserved
  <2> QED
      BY <2>1, <2>2
<1>2. \A x \in Objects : objects'[x] = objects[x]
  <2>1. objects' = Append(objects, new) /\ new \in Object
      BY <1>1 DEF Insert, Object
  <2> HIDE DEF new
  <2> QED
      BY <2>1, ObjectPushed DEF RegistryIInv, RegistryTypeOK, Objects
<1>3. \A x \in Objects : Entry(x)' => Entry(x)
  <2> SUFFICES ASSUME NEW x \in Objects, Entry(x)' PROVE Entry(x)
      OBVIOUS
  <2>1. objects[x].type \in Types /\ objects[x].handle # c.handle
      BY <1>1, ObjectTypes DEF RegistryIInv
  <2>2. DOMAIN entries'[objects[x].type] \subseteq DOMAIN entries[objects[x].type] \cup {c.handle}
      BY <1>1, <2>1 DEF Insert, RegistryIInv, Filed
  <2> QED
      BY <1>2, <2>1, <2>2 DEF Entry
<1>4. \A u \in Threads : Freeing(u)' => Freeing(u) /\ call'[u].object = call[u].object
    BY DEF Insert, Goes, Freeing, Returned, RegistryIInv, RegistryTypeOK
<1>5. UNCHANGED freed /\ RegistryTypeOK
    BY DEF Insert, RegistryIInv
<1> QED
    BY <1>2, <1>3, <1>4, <1>5, LifeKept

\* `remove_with` under the map lock: the thread that removes the entry is
\* the only one to free the object.
LEMMA RemoveEntryKeepsLife ==
    ASSUME RegistryIInv, LifeInv, NEW t \in Threads, NEW type \in Types, NEW h \in Handles,
           RemoveEntry(t, type, h)
    PROVE  LifeInv'
<1> PICK o : o = entries[type][h]
    OBVIOUS
<1>1. h \in DOMAIN entries[type] /\ UNCHANGED <<objects, freed>>
    BY DEF RemoveEntry
<1>2. o \in Objects /\ Entry(o) /\ objects[o].type = type /\ objects[o].handle = h
    BY <1>1, EntryObject
<1>3. entries' = [entries EXCEPT ![type] = [k \in DOMAIN entries[type] \ {h} |-> entries[type][k]]]
    BY DEF RemoveEntry, RegistryIInv, Filed
<1>4. ~Entry(o)' /\ \A x \in Objects : Entry(x)' => Entry(x)
  <2>1. /\ DOMAIN entries'[type] = DOMAIN entries[type] \ {h}
        /\ \A other \in Types : DOMAIN entries'[other] \subseteq DOMAIN entries[other]
      BY <1>3 DEF RegistryIInv, Filed
  <2>2. ~Entry(o)'
      BY <1>1, <1>2, <2>1 DEF Entry
  <2>3. ASSUME NEW x \in Objects, Entry(x)' PROVE Entry(x)
      BY <1>1, <2>1, <2>3, ObjectTypes DEF Entry, RegistryIInv
  <2> QED
      BY <2>2, <2>3
<1>5. call'[t].object = o /\ (\A u \in Threads : u # t => call'[u] = call[u])
    BY DEF RemoveEntry, Goes, RegistryIInv, RegistryTypeOK
<1>6. \A i \in DOMAIN freed : freed[i] # o
    BY <1>2 DEF LifeInv, FreedGone
<1>7. \A u \in Threads : Freeing(u) => call[u].object # o
    BY <1>2 DEF LifeInv, FreerRemoved
<1>8. OneFreer'
    BY <1>5, <1>7 DEF LifeInv, OneFreer, Freeing
<1>9. FreerRemoved'
  <2> SUFFICES ASSUME NEW u \in Threads, Freeing(u)' PROVE ~Entry(call[u].object)'
      BY DEF FreerRemoved
  <2>1. CASE u = t
      BY <1>4, <1>5, <2>1
  <2>2. CASE u # t
    <3>1. Freeing(u) /\ call'[u].object = call[u].object
        BY <1>5, <2>2 DEF Freeing
    <3>2. call[u].object \in Objects /\ ~Entry(call[u].object)
        BY <3>1, References DEF LifeInv, FreerRemoved, RegistryIInv
    <3> QED
        BY <1>4, <3>1, <3>2
  <2> QED
      BY <2>1, <2>2
<1>10. FreedGone'
    BY <1>1, <1>4, <1>5, <1>6, References DEF LifeInv, FreedGone, Freeing, RegistryIInv
<1>11. FreedOnce'
    BY <1>1 DEF LifeInv, FreedOnce
<1> QED
    BY <1>8, <1>9, <1>10, <1>11 DEF LifeInv

\* The end of a free: the key is cleared under the lock of the object.
LEMMA ClearKeepsLife ==
    ASSUME RegistryIInv, LifeInv, NEW t \in Threads, Clear(t)
    PROVE  LifeInv'
<1> PICK o : o = call[t].object
    OBVIOUS
<1>1. Freeing(t) /\ o \in Objects /\ UNCHANGED entries
    BY References DEF Clear, Freeing, RegistryIInv
<1>2. /\ \A x \in Objects : objects'[x].type = objects[x].type
      /\ \A x \in Objects : objects'[x].handle = objects[x].handle
      /\ \A x \in Objects \ {o} : objects'[x] = objects[x]
      /\ objects[o].type \in KeyTypes => ~objects'[o].key
  <2> DEFINE new == [objects[o] EXCEPT !.holder = NoThread,
                                       !.key = @ /\ objects[o].type \notin KeyTypes]
  <2>1. objects[o] \in Object
      BY <1>1, ObjectTypes DEF RegistryIInv
  <2>2. /\ new.type = objects[o].type /\ new.handle = objects[o].handle
        /\ objects[o].type \in KeyTypes => ~new.key
      BY <2>1 DEF Object
  <2>3. objects' = [objects EXCEPT ![o] = new]
      BY <1>1 DEF Clear, RegistryIInv, RegistryTypeOK, Objects
  <2> HIDE DEF new
  <2>4. objects'[o] = new /\ \A x \in Objects \ {o} : objects'[x] = objects[x]
      BY <1>1, <2>3 DEF RegistryIInv, RegistryTypeOK, Objects
  <2> QED
      BY <2>2, <2>4
<1>3. ASSUME NEW x \in Objects PROVE Entry(x)' <=> Entry(x)
  <2>1. objects'[x].type = objects[x].type /\ objects'[x].handle = objects[x].handle
      BY <1>2
  <2> QED
      BY <1>1, <2>1 DEF Entry
<1>4. call'[t] = Returned /\ \A u \in Threads : u # t => call'[u] = call[u]
    BY DEF Clear, Goes, RegistryIInv, RegistryTypeOK
<1>5. \A u \in Threads : Freeing(u)' => u # t /\ Freeing(u) /\ call'[u] = call[u]
    BY <1>4 DEF Freeing, Returned
<1>6. \A u \in Threads : u # t /\ Freeing(u) => call[u].object # o
    BY <1>1 DEF LifeInv, OneFreer
<1>7. /\ DOMAIN freed' = DOMAIN freed \cup {Len(freed) + 1}
      /\ \A i \in DOMAIN freed : freed'[i] = freed[i]
      /\ freed'[Len(freed) + 1] = o
      /\ Len(freed) + 1 \notin DOMAIN freed
    BY <1>1, ObjectPushed DEF Clear, RegistryIInv, RegistryTypeOK
<1>8. \A i \in DOMAIN freed : freed[i] # o /\ freed[i] \in Objects
    BY <1>1, References DEF LifeInv, FreedGone, RegistryIInv
<1>9. OneFreer'
    BY <1>5 DEF LifeInv, OneFreer
<1>10. FreerRemoved'
    BY <1>3, <1>5, References DEF LifeInv, FreerRemoved, RegistryIInv
<1>11. FreedGone'
  <2>1. ASSUME NEW x \in Objects, x = o \/ \E i \in DOMAIN freed : x = freed[i]
        PROVE  /\ ~Entry(x)'
               /\ \A u \in Threads : Freeing(u)' => call'[u].object # x
               /\ objects'[x].type \in KeyTypes => ~objects'[x].key
    <3>1. CASE x = o
      <4>1. ~Entry(x)
          BY <1>1, <3>1 DEF LifeInv, FreerRemoved
      <4>2. \A u \in Threads : Freeing(u)' => call'[u].object # x
          BY <1>5, <1>6, <3>1
      <4> QED
          BY <1>2, <1>3, <3>1, <4>1, <4>2
    <3>2. CASE \E i \in DOMAIN freed : x = freed[i]
      <4>1. /\ ~Entry(x)
            /\ \A u \in Threads : Freeing(u) => call[u].object # x
            /\ objects[x].type \in KeyTypes => ~objects[x].key
          BY <3>2 DEF LifeInv, FreedGone
      <4>2. \A u \in Threads : Freeing(u)' => call'[u].object # x
          BY <1>5, <4>1
      <4>3. x # o
          BY <1>8, <3>2
      <4>4. objects'[x].type \in KeyTypes => ~objects'[x].key
          BY <1>2, <4>1, <4>3
      <4> QED
          BY <1>3, <4>1, <4>2, <4>4
    <3> QED
        BY <2>1, <3>1, <3>2
  <2> QED
      BY <1>1, <1>7, <1>8, <2>1 DEF FreedGone
<1>12. FreedOnce'
    BY <1>7, <1>8 DEF LifeInv, FreedOnce
<1> QED
    BY <1>9, <1>10, <1>11, <1>12 DEF LifeInv

\* `insert` up to the map lock, a lookup, and a call waiting for an object or
\* using it: the lives of objects do not change.
LEMMA OtherStepsKeepLife ==
    ASSUME RegistryIInv, LifeInv, NEW t \in Threads,
           \/ Acquire(t) \/ Body(t)
           \/ \E type \in Types : \/ Reserve(t, type)
                                 \/ \E h \in Handles : Lookup(t, type, h)
    PROVE  LifeInv'
<1>1. UNCHANGED <<entries, freed>>
    BY DEF Acquire, Body, Reserve, Lookup
<1>2. ASSUME NEW x \in Objects
      PROVE  /\ objects'[x].type = objects[x].type
             /\ objects'[x].handle = objects[x].handle
             /\ objects'[x].key = objects[x].key
  <2>1. objects[x] \in Object
      BY ObjectTypes DEF RegistryIInv
  <2>2. \/ objects' = objects
        \/ \E holder \in Threads \cup {NoThread} :
              objects' = [objects EXCEPT ![call[t].object].holder = holder]
      BY DEF Acquire, Body, Reserve, Lookup
  <2>3. objects'[x] = objects[x]
          \/ \E holder \in Threads \cup {NoThread} :
                objects'[x] = [objects[x] EXCEPT !.holder = holder]
      BY <2>2 DEF RegistryIInv, RegistryTypeOK, Objects
  <2> QED
      BY <2>1, <2>3 DEF Object
<1>3. ASSUME NEW x \in Objects, Entry(x)' PROVE Entry(x)
    BY <1>1, <1>2, <1>3 DEF Entry
<1>4. ASSUME NEW u \in Threads, Freeing(u)'
      PROVE  Freeing(u) /\ call'[u].object = call[u].object
  <2>1. \A v \in Threads : v # t => call'[v] = call[v]
      BY DEF Acquire, Body, Reserve, Lookup, Goes, RegistryIInv, RegistryTypeOK
  <2>2. CASE u # t
      BY <1>4, <2>1, <2>2 DEF Freeing
  <2>3. CASE u = t /\ Acquire(t)
    <3> DEFINE c == call[t]
    <3>1. c \in [at : {"operate", "body", "free", "clear"}, object : Objects]
        BY <2>3 DEF Acquire, RegistryIInv, RegistryTypeOK, Calls, Returned
    <3>2. call'[t] = [c EXCEPT !.at = IF c.at = "free" THEN "clear" ELSE "body"]
        BY <2>3 DEF Acquire, Goes, RegistryIInv, RegistryTypeOK
    <3>3. call'[t].object = c.object
          /\ call'[t].at = IF c.at = "free" THEN "clear" ELSE "body"
        BY <3>1, <3>2
    <3> QED
        BY <1>4, <2>3, <3>3 DEF Freeing
  <2>4. CASE u = t /\ ~Acquire(t)
    <3>1. call'[t].at \in {"returned", "insert", "operate"} \/ call' = call
        BY <2>4 DEF Body, Reserve, Lookup, Goes, Returned, RegistryIInv, RegistryTypeOK
    <3> QED
        BY <1>4, <2>4, <3>1 DEF Freeing
  <2> QED
      BY <2>2, <2>3, <2>4
<1>5. RegistryTypeOK
    BY DEF RegistryIInv
<1> QED
    BY <1>1, <1>2, <1>3, <1>4, <1>5, LifeKept

\* Every step of every thread keeps the life cycle of an object.
LEMMA StepKeepsLife == RegistryIInv /\ LifeInv /\ [RegistryNext]_registryVars => LifeInv'
<1> SUFFICES ASSUME RegistryIInv, LifeInv, [RegistryNext]_registryVars PROVE LifeInv'
    OBVIOUS
<1>1. CASE UNCHANGED registryVars
    BY <1>1 DEF registryVars, LifeInv, OneFreer, FreerRemoved, FreedGone, FreedOnce, Freeing, Entry
<1>2. CASE \E t \in Threads : Step(t) \/ Call(t)
    BY <1>1, <1>2, InsertKeepsLife, RemoveEntryKeepsLife, ClearKeepsLife, OtherStepsKeepLife
       DEF Step, Call, Unknown
<1> QED
    BY <1>1, <1>2 DEF RegistryNext

\* An object is freed by the one thread that removed its entry, and its key
\* is gone by the time the free returns.
THEOREM LifeInvariance == RegistrySpec => []LifeInv
    BY RegistryInitIInv, RegistryStepKeepsIInv, InitLifeInv, StepKeepsLife, PTL DEF RegistrySpec

\* Of the calls that free one handle, one at most returns Ok.
THEOREM FreedOnceHolds == RegistrySpec => []FreedOnce
<1>1. LifeInv => FreedOnce
    BY DEF LifeInv
<1> QED
    BY <1>1, LifeInvariance, PTL

\* Once the free of a key has returned, no operation that `with` let past
\* the map lock earlier uses the key.
THEOREM NoUseAfterFreeHolds == RegistrySpec => NoUseAfterFree
<1> DEFINE A == signed' # signed => \A i \in DOMAIN freed : freed[i] # signed'
<1>1. LifeInv /\ [RegistryNext]_registryVars => [A]_registryVars
  <2> SUFFICES ASSUME LifeInv, RegistryNext, signed' # signed
               PROVE  \A i \in DOMAIN freed : freed[i] # signed'
      OBVIOUS
  <2>1. PICK t \in Threads : Body(t)
      BY DEF RegistryNext, Step, Call, Insert, Acquire, Clear, Reserve, Lookup, RemoveEntry,
         Unknown, registryVars
  <2>2. /\ signed' = call[t].object
        /\ objects[signed'].type \in KeyTypes /\ objects[signed'].key
      BY <2>1 DEF Body
  <2> QED
      BY <2>2 DEF LifeInv, FreedGone
<1> QED
    BY <1>1, LifeInvariance, PTL DEF RegistrySpec, NoUseAfterFree
-----------------------------------------------------------------------------
(* The call guard *)

Texts == {"null", "reported", "location"}
Messages == [of : Nat, text : Texts]
Locals == [depth : Nat, depthLives : BOOLEAN, errorLives : BOOLEAN, error : Messages]
Currents == [id : 0..MaxCalls, at : {"host", "body"}, status : Statuses, unwinding : BOOLEAN]

\* A thread outside every call has its last call's message and no depth.
AtHost(t) ==
    current[t].at = "host" =>
        /\ local[t].depthLives => local[t].depth = 0
        /\ local[t].errorLives => LastError(t) \in Promised(t)

\* A thread inside a call is counted once, has no message yet, and found the
\* hook installed unless it entered while unwinding.
InBody(t) ==
    current[t].at = "body" =>
        /\ local[t].depthLives => local[t].depth = 1
        /\ local[t].errorLives => local[t].error = Null
        /\ hooked \/ current[t].unwinding

\* The depth is destroyed with the error slot or after it, and only a thread
\* without one lost a panic of its own.
SlotsGo(t) ==
    /\ local[t].errorLives => local[t].depthLives
    /\ host[t].missed => ~local[t].depthLives

ThreadOK(t) == AtHost(t) /\ InBody(t) /\ SlotsGo(t)

GuardInv == GuardTypeOK /\ PayloadsStayRedacted /\ \A t \in Callers : ThreadOK(t)
-----------------------------------------------------------------------------
\* What a thread knows of itself no other thread disturbs.
LEMMA OtherThreads ==
    ASSUME NEW t \in Callers, \A u \in Callers : ThreadOK(u), hooked => hooked', ThreadOK(t)',
           \A u \in Callers : u # t => /\ local'[u] = local[u] /\ current'[u] = current[u]
                                       /\ host'[u] = host[u]
    PROVE  \A u \in Callers : ThreadOK(u)'
<1> SUFFICES ASSUME NEW u \in Callers, u # t PROVE ThreadOK(u)'
    OBVIOUS
<1>1. local'[u] = local[u] /\ current'[u] = current[u] /\ host'[u] = host[u]
    OBVIOUS
<1>2. LastError(u)' = LastError(u)
    BY <1>1 DEF LastError
<1>3. \A text : Message(u, text)' = Message(u, text)
    BY <1>1 DEF Message
<1>4. Promised(u)' = Promised(u)
    BY <1>1, <1>3 DEF Promised
<1>5. ThreadOK(u)
    OBVIOUS
<1> QED
    BY <1>1, <1>2, <1>4, <1>5 DEF ThreadOK, AtHost, InBody, SlotsGo

\* The operations on the thread locals keep their shapes.
LEMMA LocalOperations ==
    ASSUME NEW l \in Locals, NEW m \in Messages
    PROVE  /\ Replaced(l, m) \in Locals /\ Entered(l) \in Locals /\ Left(l) \in Locals
           /\ Replaced(l, m) = [l EXCEPT !.error = IF l.errorLives THEN m ELSE @]
           /\ Entered(l) = [l EXCEPT !.depth = IF l.depthLives THEN @ + 1 ELSE @]
           /\ Left(l) = [l EXCEPT !.depth = IF l.depthLives /\ l.depth > 0 THEN @ - 1 ELSE @]
<1>1. /\ l = [depth |-> l.depth, depthLives |-> l.depthLives, errorLives |-> l.errorLives,
              error |-> l.error]
      /\ l.depth \in Nat /\ l.error \in Messages
      /\ l.depthLives \in BOOLEAN /\ l.errorLives \in BOOLEAN
    BY DEF Locals
<1> QED
    BY <1>1 DEF Locals, Replaced, Entered, Left

\* A call's record is its four fields.
LEMMA CurrentFields ==
    ASSUME NEW c \in Currents
    PROVE  /\ c = [id |-> c.id, at |-> c.at, status |-> c.status, unwinding |-> c.unwinding]
           /\ c.id \in 0..MaxCalls /\ c.at \in {"host", "body"}
           /\ c.status \in Statuses /\ c.unwinding \in BOOLEAN
    BY DEF Currents

\* The state before the first call.
LEMMA GuardInitInv == GuardInit => GuardInv
<1> SUFFICES ASSUME GuardInit PROVE GuardInv
    OBVIOUS
<1>1. GuardTypeOK
  <2>1. Null \in Messages /\ 0 \in 0..MaxCalls
      BY CallGuardAssumption DEF Null, Messages, Texts
  <2> QED
      BY <2>1 DEF GuardInit, GuardTypeOK, Messages, Texts, Statuses
<1>2. ASSUME NEW t \in Callers PROVE ThreadOK(t)
  <2>1. /\ current[t] = [id |-> 0, at |-> "host", status |-> "Ok", unwinding |-> FALSE]
        /\ local[t] = [depth |-> 0, error |-> Null, depthLives |-> TRUE, errorLives |-> TRUE]
        /\ host[t] = [unwinding |-> FALSE, missed |-> FALSE]
      BY <1>2 DEF GuardInit
  <2>2. LastError(t) \in Promised(t)
      BY <2>1 DEF LastError, Promised
  <2> QED
      BY <2>1, <2>2 DEF ThreadOK, AtHost, InBody, SlotsGo
<1> QED
    BY <1>1, <1>2 DEF GuardInv, PayloadsStayRedacted, GuardInit

\* Messages of a call, now and after a step, are messages.
LEMMA MessageTypes ==
    ASSUME GuardTypeOK, NEW t \in Callers, NEW text \in Texts
    PROVE  Null \in Messages /\ Message(t, text) \in Messages
    BY CallGuardAssumption DEF GuardTypeOK, Message, Messages, Null, Texts

\* The types of one thread's records.
LEMMA ThreadTypes ==
    ASSUME GuardTypeOK, NEW t \in Callers
    PROVE  /\ local[t] \in Locals /\ current[t] \in Currents
           /\ host[t] \in [unwinding : BOOLEAN, missed : BOOLEAN]
           /\ local \in [Callers -> Locals] /\ current \in [Callers -> Currents]
    BY DEF GuardTypeOK, Locals, Currents, Messages, Texts

\* A step of one thread that keeps its records' types keeps all.
LEMMA TypesKept ==
    ASSUME GuardTypeOK, NEW t \in Callers, hooked' \in BOOLEAN,
           local' = [local EXCEPT ![t] = local'[t]], local'[t] \in Locals,
           current' = [current EXCEPT ![t] = current'[t]], current'[t] \in Currents,
           host' = [host EXCEPT ![t] = host'[t]],
           host'[t] \in [unwinding : BOOLEAN, missed : BOOLEAN],
           leaks' \subseteq [thread : Callers, unwinding : BOOLEAN]
    PROVE  GuardTypeOK'
    BY DEF GuardTypeOK, Locals, Currents, Messages, Texts

\* A call that returns: `guard` takes the depth back, and the message its body
\* or the hook left is the one its status promises.
LEMMA ReturnKeeps ==
    ASSUME GuardInv, NEW t \in Callers, NEW m \in Messages, NEW status \in Statuses,
           current[t].at = "body", UNCHANGED <<hooked, host>>,
           Return(t, Replaced(local[t], m), status),
           local[t].errorLives => m \in Promised(t)',
           leaks' \subseteq [thread : Callers, unwinding : BOOLEAN], PayloadsStayRedacted'
    PROVE  GuardInv'
<1> DEFINE l == Replaced(local[t], m)
<1>1. /\ GuardTypeOK /\ ThreadOK(t)
      /\ local[t] \in Locals /\ current[t] \in Currents
      /\ host[t] \in [unwinding : BOOLEAN, missed : BOOLEAN]
      /\ local \in [Callers -> Locals] /\ current \in [Callers -> Currents]
    BY ThreadTypes DEF GuardInv
<1>2. /\ l \in Locals /\ Left(l) \in Locals
      /\ l = [local[t] EXCEPT !.error = IF local[t].errorLives THEN m ELSE @]
      /\ Left(l) = [l EXCEPT !.depth = IF l.depthLives /\ l.depth > 0 THEN @ - 1 ELSE @]
    BY <1>1, LocalOperations
<1>3. /\ local' = [local EXCEPT ![t] = Left(l)]
      /\ current' = [current EXCEPT ![t].at = "host", ![t].status = status]
    BY DEF Return
<1>4. local'[t] = Left(l) /\ current'[t] = [current[t] EXCEPT !.at = "host", !.status = status]
    BY <1>1, <1>3
<1> HIDE DEF l
<1>5. /\ local'[t].depthLives = local[t].depthLives
      /\ local'[t].errorLives = local[t].errorLives
      /\ local'[t].error = IF local[t].errorLives THEN m ELSE local[t].error
      /\ local[t].depthLives /\ local[t].depth = 1 => local'[t].depth = 0
    BY <1>1, <1>2, <1>4 DEF Locals
<1>6. current'[t] \in Currents /\ current'[t].at = "host"
    BY <1>1, <1>4 DEF Currents
<1>7. GuardTypeOK'
  <2>1. hooked' \in BOOLEAN
      BY <1>1 DEF GuardTypeOK
  <2>2. local'[t] \in Locals
      BY <1>2, <1>4
  <2>3. local' = [local EXCEPT ![t] = local'[t]]
      BY <1>3, <1>4
  <2>4. current' = [current EXCEPT ![t] = current'[t]]
      BY <1>1, <1>3, <1>4
  <2>5. host' = [host EXCEPT ![t] = host'[t]] /\ host'[t] \in [unwinding : BOOLEAN, missed : BOOLEAN]
      BY <1>1 DEF GuardTypeOK
  <2> QED
      BY <1>1, <1>6, <2>1, <2>2, <2>3, <2>4, <2>5, TypesKept
<1>8. ThreadOK(t)'
  <2>1. /\ local[t].depthLives => local[t].depth = 1
        /\ SlotsGo(t)
      BY <1>1 DEF ThreadOK, InBody
  <2>2. (local[t].errorLives => LastError(t) \in Promised(t))'
      BY <1>5 DEF LastError
  <2> QED
      BY <1>5, <1>6, <2>1, <2>2 DEF ThreadOK, AtHost, InBody, SlotsGo
<1>9. \A u \in Callers : ThreadOK(u)'
  <2>1. \A u \in Callers : u # t => /\ local'[u] = local[u] /\ current'[u] = current[u]
                                    /\ host'[u] = host[u]
      BY <1>1, <1>3
  <2>2. \A u \in Callers : ThreadOK(u)
      BY DEF GuardInv
  <2> QED
      BY <1>8, <2>1, <2>2, OtherThreads
<1> QED
    BY <1>7, <1>9 DEF GuardInv

\* Every step of a thread keeps the invariant.
LEMMA GuardStepKeepsInv == GuardInv /\ [GuardNext]_guardVars => GuardInv'
<1>1. CASE UNCHANGED guardVars
  <2>1. \A t \in Callers : ThreadOK(t)' <=> ThreadOK(t)
      BY <1>1 DEF guardVars, ThreadOK, AtHost, InBody, SlotsGo, LastError, Promised, Message
  <2> QED
      BY <1>1, <2>1 DEF guardVars, GuardInv, GuardTypeOK, PayloadsStayRedacted
<1>2. SUFFICES ASSUME GuardInv, NEW t \in Callers,
                      \/ Enter(t) \/ Succeed(t) \/ Report(t) \/ Panic(t) \/ RejectNullOutput(t)
                      \/ HostPanic(t) \/ HostCatch(t)
                      \/ \E depthGoes \in BOOLEAN : Teardown(t, depthGoes)
               PROVE  GuardInv'
    BY <1>1 DEF GuardNext
<1>3. /\ GuardTypeOK /\ ThreadOK(t) /\ PayloadsStayRedacted
      /\ local[t] \in Locals /\ current[t] \in Currents
      /\ host[t] \in [unwinding : BOOLEAN, missed : BOOLEAN]
      /\ local \in [Callers -> Locals] /\ current \in [Callers -> Currents]
      /\ leaks \subseteq [thread : Callers, unwinding : BOOLEAN]
    BY <1>2, ThreadTypes DEF GuardInv, GuardTypeOK
<1>4. Null \in Messages /\ \A text \in Texts : Message(t, text) \in Messages
    BY <1>3, MessageTypes DEF Texts
<1>5. CASE Succeed(t)
  <2>1. current[t].at = "body" /\ Return(t, local[t], "Ok") /\ UNCHANGED <<hooked, host, leaks>>
      BY <1>5 DEF Succeed
  <2>2. local[t].errorLives => local[t].error = Null
      BY <1>3, <2>1 DEF ThreadOK, InBody
  <2>3. Replaced(local[t], Null) = local[t]
      BY <1>3, <2>2 DEF Replaced, Locals
  <2>4. Null \in Promised(t)'
    <3>1. current'[t].status = "Ok"
        BY <1>3, <2>1 DEF Return, Currents
    <3> QED
        BY <3>1 DEF Promised
  <2> QED
      BY <1>2, <1>3, <1>4, <2>1, <2>3, <2>4, ReturnKeeps DEF PayloadsStayRedacted, Statuses
<1>6. CASE Report(t)
  <2>1. /\ current[t].at = "body" /\ UNCHANGED <<hooked, host, leaks>>
        /\ Return(t, Replaced(local[t], Message(t, "reported")), "Failed")
      BY <1>6 DEF Report
  <2>2. current'[t].status = "Failed" /\ current'[t].id = current[t].id
      BY <1>3, <2>1 DEF Return, Currents
  <2>3. Message(t, "reported") \in Promised(t)'
      BY <2>2 DEF Promised, Message
  <2>4. Message(t, "reported") \in Messages
      BY <1>4 DEF Texts
  <2> QED
      BY <1>2, <1>3, <2>1, <2>3, <2>4, ReturnKeeps DEF PayloadsStayRedacted, Statuses
<1>7. CASE Panic(t)
  <2>1. Guarded(local[t])
      BY <1>3, <1>7 DEF Panic, ThreadOK, InBody, Guarded
  <2>2. /\ current[t].at = "body" /\ UNCHANGED <<hooked, host>>
        /\ hooked => leaks' = leaks
                     /\ Return(t, Replaced(local[t], Message(t, "location")), "Panic")
        /\ ~hooked => leaks' = leaks \cup {[thread |-> t, unwinding |-> current[t].unwinding]}
                      /\ Return(t, local[t], "Panic")
      BY <1>7, <2>1 DEF Panic
  <2>3. /\ current'[t].status = "Panic" /\ current'[t].id = current[t].id
        /\ current'[t].unwinding = current[t].unwinding
      BY <1>3, <2>2 DEF Return, Currents
  <2>4. CASE hooked
    <3>1. Message(t, "location") \in Promised(t)'
        BY <2>3 DEF Promised, Message
    <3>2. Message(t, "location") \in Messages
        BY <1>4 DEF Texts
    <3> QED
        BY <1>2, <1>3, <2>2, <2>4, <3>1, <3>2, ReturnKeeps DEF PayloadsStayRedacted, Statuses
  <2>5. CASE ~hooked
    <3>1. /\ current[t].unwinding
          /\ local[t].errorLives => local[t].error = Null
        BY <1>3, <2>2, <2>5 DEF ThreadOK, InBody
    <3>2. Replaced(local[t], Null) = local[t]
        BY <1>3, <3>1 DEF Replaced, Locals
    <3>3. Null \in Promised(t)'
        BY <2>3, <3>1 DEF Promised
    <3>4. [thread |-> t, unwinding |-> current[t].unwinding]
              \in [thread : Callers, unwinding : BOOLEAN]
        BY <1>3 DEF Currents
    <3>5. PayloadsStayRedacted' /\ leaks' \subseteq [thread : Callers, unwinding : BOOLEAN]
        BY <1>3, <2>2, <2>5, <3>1, <3>4 DEF PayloadsStayRedacted
    <3> QED
        BY <1>2, <1>4, <2>2, <2>5, <3>2, <3>3, <3>5, ReturnKeeps DEF Statuses
  <2> QED
      BY <2>4, <2>5
<1>8. ASSUME hooked' \in BOOLEAN, hooked => hooked',
             local' = [local EXCEPT ![t] = local'[t]], local'[t] \in Locals,
             current' = [current EXCEPT ![t] = current'[t]], current'[t] \in Currents,
             host' = [host EXCEPT ![t] = host'[t]],
             host'[t] \in [unwinding : BOOLEAN, missed : BOOLEAN],
             leaks' = leaks, ThreadOK(t)'
      PROVE  GuardInv'
  <2>1. GuardTypeOK'
      BY <1>3, <1>8, TypesKept
  <2>2. \A u \in Callers : u # t => /\ local'[u] = local[u] /\ current'[u] = current[u]
                                    /\ host'[u] = host[u]
      BY <1>3, <1>8 DEF GuardTypeOK
  <2>3. \A u \in Callers : ThreadOK(u)'
      BY <1>2, <1>8, <2>2, OtherThreads DEF GuardInv
  <2> QED
      BY <1>3, <1>8, <2>1, <2>3 DEF GuardInv, PayloadsStayRedacted
<1>9. CASE Enter(t)
  <2> DEFINE l == Replaced(Entered(local[t]), Null)
             c == [current[t] EXCEPT !.id = @ + 1, !.at = "body", !.unwinding = host[t].unwinding]
  <2>1. /\ current[t].at = "host" /\ current[t].id < MaxCalls
        /\ hooked' = (hooked \/ ~host[t].unwinding)
        /\ local' = [local EXCEPT ![t] = l]
        /\ current' = [current EXCEPT ![t] = c]
        /\ UNCHANGED <<host, leaks>>
      BY <1>3, <1>9 DEF Enter
  <2>2. /\ Entered(local[t]) \in Locals
        /\ Entered(local[t]) = [local[t] EXCEPT !.depth = IF local[t].depthLives THEN @ + 1
                                                          ELSE @]
      BY <1>3, <1>4, LocalOperations
  <2>3. /\ l \in Locals
        /\ l = [Entered(local[t]) EXCEPT !.error = IF Entered(local[t]).errorLives THEN Null
                                                   ELSE @]
      BY <1>4, <2>2, LocalOperations
  <2> HIDE DEF l
  <2>4. /\ l.depthLives = local[t].depthLives /\ l.errorLives = local[t].errorLives
        /\ local[t].depthLives => l.depth = local[t].depth + 1
        /\ l.errorLives => l.error = Null
      BY <1>3, <2>2, <2>3 DEF Locals
  <2>5. local'[t] = l /\ current'[t] = c
    <3> HIDE DEF c
    <3> QED
        BY <1>3, <2>1
  <2>6. /\ current'[t] \in Currents /\ current'[t].at = "body"
        /\ current'[t].unwinding = host[t].unwinding
    <3>1. current'[t] = [id |-> current[t].id + 1, at |-> "body", status |-> current[t].status,
                         unwinding |-> host[t].unwinding]
      <4>1. current'[t] = c
          BY <2>5
      <4> QED
          BY <1>3, <4>1, CurrentFields
    <3>2. current[t].id + 1 \in 0..MaxCalls /\ current[t].status \in Statuses
        BY <1>3, <2>1, CallGuardAssumption, CurrentFields
    <3> QED
        BY <1>3, <3>1, <3>2 DEF Currents
  <2>7. ThreadOK(t)'
    <3>1. local[t].depthLives => local[t].depth = 0
        BY <1>3, <2>1 DEF ThreadOK, AtHost
    <3>2. hooked' \/ current'[t].unwinding
      <4>1. CASE host[t].unwinding
          BY <2>6, <4>1
      <4>2. CASE ~host[t].unwinding
          BY <2>1, <4>2
      <4> QED
          BY <4>1, <4>2
    <3>3. InBody(t)'
        BY <2>4, <2>5, <3>1, <3>2 DEF InBody
    <3>4. SlotsGo(t)'
        BY <1>3, <2>1, <2>4, <2>5 DEF ThreadOK, SlotsGo
    <3> QED
        BY <2>6, <3>3, <3>4 DEF ThreadOK, AtHost
  <2>8. hooked' \in BOOLEAN /\ (hooked => hooked')
      BY <1>3, <2>1 DEF GuardTypeOK
  <2>9. /\ local' = [local EXCEPT ![t] = local'[t]] /\ current' = [current EXCEPT ![t] = current'[t]]
        /\ host' = [host EXCEPT ![t] = host'[t]] /\ host'[t] = host[t]
      BY <1>3, <2>1, <2>5 DEF GuardTypeOK
  <2> QED
      BY <1>3, <1>8, <2>1, <2>3, <2>5, <2>6, <2>7, <2>8, <2>9
<1>10. CASE RejectNullOutput(t)
  <2> DEFINE m == [of |-> current[t].id + 1, text |-> "reported"]
  <2>1. /\ current[t].at = "host" /\ current[t].id < MaxCalls
        /\ current' = [current EXCEPT ![t].id = current[t].id + 1, ![t].status = "Failed"]
        /\ local' = [local EXCEPT ![t] = Replaced(@, m)]
        /\ UNCHANGED <<hooked, host, leaks>>
      BY <1>10 DEF RejectNullOutput
  <2>2. m \in Messages
      BY <1>3 DEF Currents, Messages, Texts
  <2>3. /\ Replaced(local[t], m) \in Locals
        /\ Replaced(local[t], m) = [local[t] EXCEPT !.error = IF local[t].errorLives THEN m ELSE @]
      BY <1>3, <2>2, LocalOperations
  <2>4. /\ local'[t] = Replaced(local[t], m)
        /\ current'[t] = [current[t] EXCEPT !.id = current[t].id + 1, !.status = "Failed"]
      BY <1>3, <2>1
  <2>5. /\ current'[t] \in Currents /\ current'[t].at = "host"
        /\ current'[t].status = "Failed" /\ current'[t].id = current[t].id + 1
    <3>1. current'[t] = [id |-> current[t].id + 1, at |-> "host", status |-> "Failed",
                         unwinding |-> current[t].unwinding]
        BY <1>3, <2>1, <2>4, CurrentFields
    <3>2. current[t].id + 1 \in 0..MaxCalls /\ current[t].unwinding \in BOOLEAN
        BY <1>3, <2>1, CallGuardAssumption, CurrentFields
    <3> QED
        BY <3>1, <3>2 DEF Currents, Statuses
  <2>6. /\ local'[t].depthLives = local[t].depthLives /\ local'[t].errorLives = local[t].errorLives
        /\ local'[t].depth = local[t].depth
        /\ local'[t].errorLives => local'[t].error = m
      BY <1>3, <2>3, <2>4 DEF Locals
  <2>7. m \in Promised(t)'
      BY <2>5 DEF Promised, Message
  <2>8. ThreadOK(t)'
    <3>1. local[t].depthLives => local[t].depth = 0
        BY <1>3, <2>1 DEF ThreadOK, AtHost
    <3>2. (local[t].errorLives => LastError(t) \in Promised(t))'
        BY <2>6, <2>7 DEF LastError
    <3>3. SlotsGo(t)'
        BY <1>3, <2>1, <2>6 DEF ThreadOK, SlotsGo
    <3> QED
        BY <2>5, <2>6, <3>1, <3>2, <3>3 DEF ThreadOK, AtHost, InBody
  <2>9. /\ local' = [local EXCEPT ![t] = local'[t]] /\ current' = [current EXCEPT ![t] = current'[t]]
        /\ host' = [host EXCEPT ![t] = host'[t]] /\ host'[t] = host[t] /\ hooked' \in BOOLEAN
      BY <1>3, <2>1, <2>4 DEF GuardTypeOK
  <2> QED
      BY <1>3, <1>8, <2>1, <2>3, <2>4, <2>5, <2>8, <2>9
<1>11. CASE HostPanic(t)
  <2>1. /\ current[t].at = "host" /\ UNCHANGED <<hooked, current, leaks>>
        /\ hooked /\ Guarded(local[t])
              => local' = [local EXCEPT ![t] = Replaced(@, Message(t, "location"))]
        /\ ~(hooked /\ Guarded(local[t])) => local' = local
        /\ host' = [host EXCEPT ![t] = [unwinding |-> TRUE,
                                        missed |-> @.missed \/ (hooked /\ Guarded(local[t]))]]
      BY <1>11 DEF HostPanic
  <2>2. Guarded(local[t]) => ~local[t].depthLives /\ ~local[t].errorLives
      BY <1>3, <2>1 DEF ThreadOK, AtHost, SlotsGo, Guarded
  <2>3. ~local[t].errorLives => Replaced(local[t], Message(t, "location")) = local[t]
      BY DEF Replaced
  <2>4. local' = local
      BY <1>3, <2>1, <2>2, <2>3
  <2>5. host'[t] = [unwinding |-> TRUE, missed |-> host[t].missed \/ (hooked /\ Guarded(local[t]))]
      BY <1>3, <2>1 DEF GuardTypeOK
  <2>6. host'[t].missed => host[t].missed \/ Guarded(local[t])
    <3> DEFINE lost == host[t].missed \/ (hooked /\ Guarded(local[t]))
    <3>1. host'[t] = [unwinding |-> TRUE, missed |-> lost]
        BY <2>5
    <3>2. host'[t].missed = lost
      <4> HIDE DEF lost
      <4> QED
          BY <3>1
    <3> QED
        BY <3>2
  <2>7. ThreadOK(t)'
    <3>1. LastError(t)' = LastError(t) /\ Promised(t)' = Promised(t)
        BY <2>1, <2>4 DEF LastError, Promised, Message
    <3> QED
        BY <1>3, <2>1, <2>2, <2>4, <2>6, <3>1 DEF ThreadOK, AtHost, InBody, SlotsGo
  <2>8. host'[t] \in [unwinding : BOOLEAN, missed : BOOLEAN] /\ hooked' \in BOOLEAN
      BY <1>3, <2>1, <2>5 DEF GuardTypeOK, Guarded
  <2>9. /\ local' = [local EXCEPT ![t] = local'[t]] /\ current' = [current EXCEPT ![t] = current'[t]]
        /\ host' = [host EXCEPT ![t] = host'[t]]
      BY <1>3, <2>1, <2>4, <2>5
  <2> QED
      BY <1>3, <1>8, <2>1, <2>4, <2>7, <2>8, <2>9
<1>12. CASE HostCatch(t)
  <2>1. /\ host' = [host EXCEPT ![t].unwinding = FALSE]
        /\ UNCHANGED <<hooked, local, current, leaks>>
      BY <1>12 DEF HostCatch
  <2>2. host'[t] = [host[t] EXCEPT !.unwinding = FALSE]
      BY <1>3, <2>1 DEF GuardTypeOK
  <2>3. host'[t] \in [unwinding : BOOLEAN, missed : BOOLEAN] /\ host'[t].missed = host[t].missed
      BY <1>3, <2>2
  <2>4. LastError(t)' = LastError(t) /\ Promised(t)' = Promised(t)
      BY <2>1 DEF LastError, Promised, Message
  <2>5. ThreadOK(t)'
      BY <1>3, <2>1, <2>3, <2>4 DEF ThreadOK, AtHost, InBody, SlotsGo
  <2>6. /\ local' = [local EXCEPT ![t] = local'[t]] /\ current' = [current EXCEPT ![t] = current'[t]]
        /\ host' = [host EXCEPT ![t] = host'[t]] /\ hooked' \in BOOLEAN
      BY <1>3, <2>1, <2>2 DEF GuardTypeOK
  <2> QED
      BY <1>3, <1>8, <2>1, <2>3, <2>5, <2>6
<1>13. ASSUME NEW depthGoes \in BOOLEAN, Teardown(t, depthGoes) PROVE GuardInv'
  <2> DEFINE l == [local[t] EXCEPT !.errorLives = FALSE, !.error = Null,
                                   !.depthLives = ~depthGoes,
                                   !.depth = IF depthGoes THEN 0 ELSE @]
  <2>1. /\ current[t].at = "host" /\ local[t].errorLives
        /\ local' = [local EXCEPT ![t] = l]
        /\ UNCHANGED <<hooked, host, current, leaks>>
      BY <1>3, <1>13 DEF Teardown
  <2>2. local'[t] = l
    <3> HIDE DEF l
    <3> QED
        BY <1>3, <2>1
  <2>3. /\ local'[t] \in Locals /\ ~local'[t].errorLives
        /\ local'[t].depth = IF depthGoes THEN 0 ELSE local[t].depth
    <3>1. local[t].depth \in Nat
        BY <1>3 DEF Locals
    <3>2. l = [depth |-> IF depthGoes THEN 0 ELSE local[t].depth,
               depthLives |-> ~depthGoes, errorLives |-> FALSE, error |-> Null]
      <4> DEFINE kept == IF depthGoes THEN 0 ELSE local[t].depth
                 lives == ~depthGoes
      <4>1. l = [local[t] EXCEPT !.errorLives = FALSE, !.error = Null, !.depthLives = lives,
                                 !.depth = kept]
          OBVIOUS
      <4>2. local[t] = [depth |-> local[t].depth, depthLives |-> local[t].depthLives,
                        errorLives |-> local[t].errorLives, error |-> local[t].error]
          BY <1>3 DEF Locals
      <4> HIDE DEF kept, lives, l
      <4>3. l = [depth |-> kept, depthLives |-> lives, errorLives |-> FALSE, error |-> Null]
          BY <4>1, <4>2
      <4> QED
          BY <4>3 DEF kept, lives
    <3> HIDE DEF l
    <3> QED
        BY <1>4, <1>13, <2>2, <3>1, <3>2 DEF Locals
  <2>4. ThreadOK(t)'
    <3>1. local[t].depthLives /\ ~host[t].missed /\ local[t].depth = 0
        BY <1>3, <2>1 DEF ThreadOK, AtHost, SlotsGo
    <3>2. local'[t].depth = 0
        BY <2>3, <3>1
    <3> QED
        BY <2>1, <2>3, <3>1, <3>2 DEF ThreadOK, AtHost, InBody, SlotsGo
  <2>5. /\ local' = [local EXCEPT ![t] = local'[t]] /\ current' = [current EXCEPT ![t] = current'[t]]
        /\ host' = [host EXCEPT ![t] = host'[t]] /\ hooked' \in BOOLEAN
      BY <1>3, <2>1, <2>2 DEF GuardTypeOK
  <2> QED
      BY <1>3, <1>8, <2>1, <2>3, <2>4, <2>5
<1> QED
    BY <1>2, <1>5, <1>6, <1>7, <1>9, <1>10, <1>11, <1>12, <1>13

\* Any number of threads make any number of calls, panic inside and outside of
\* them and lose their slots: between calls each reads its own last call's
\* message, no payload reaches the host's hook, the host sees its own panics.
THEOREM MessagesStayWithTheirThreadHolds == GuardSpec => []MessagesStayWithTheirThread
<1>1. GuardInv => MessagesStayWithTheirThread
    BY DEF GuardInv, ThreadOK, AtHost, SlotsGo, MessagesStayWithTheirThread,
           LastErrorIsTheLastCalls, HostSeesItsOwnPanics
<1> QED
    BY <1>1, GuardInitInv, GuardStepKeepsInv, PTL DEF GuardSpec
-----------------------------------------------------------------------------
(* The trees of the C ABI                                                  *)

\* Which owned notes a tree may have, and where.
Marks == UNION {[S -> Nat] : S \in SUBSET Mine}
TreeRecord == [kind : Trees, leaves : Seq(Values), owned : Marks, dirty : SUBSET Mine]

\* Every handle of a tree leads to a tree.
TreesOK == \A h \in DOMAIN treeObjects :
    treeObjects[h].kind \in Trees => treeObjects[h] \in TreeRecord

\* What the host has to know of an owned note, and that it does know it of
\* every clean one.
RowOf(tree, note) ==
    [index |-> tree.owned[note], frozen |-> Shard(tree.owned[note]) < Completed(tree)]
KnownAt(tree, received, handle) ==
    \A n \in DOMAIN tree.owned \ tree.dirty :
        /\ handle \in DOMAIN received /\ n \in DOMAIN received[handle]
        /\ received[handle][n] = RowOf(tree, n)

CleanKnown == \A h \in DOMAIN treeObjects :
    treeObjects[h].kind = "sharded" => KnownAt(treeObjects[h], copies, h)

ForeignInv == TreesOK /\ NoOrphans /\ CleanKnown
-----------------------------------------------------------------------------
\* A row of the packed output is what is known of its note.
LEMMA RowsAreRows ==
    ASSUME NEW tree, NEW S, NEW n \in S \cap DOMAIN tree.owned
    PROVE  Rows(tree, S)[n] = RowOf(tree, n)
    BY DEF Rows, RowOf

\* The invariant is the checked property and the type of the trees.
LEMMA InvariantIsProperty == ForeignInv <=> TreesOK /\ CleanNotesWereReceived
<1>1. ASSUME NEW h \in DOMAIN treeObjects
      PROVE  KnownAt(treeObjects[h], copies, h) <=>
               \A n \in DOMAIN treeObjects[h].owned \ treeObjects[h].dirty : ReceivedAsItIs(h, n)
    <2>1. \A n \in DOMAIN treeObjects[h].owned :
              Rows(treeObjects[h], {n})[n] = RowOf(treeObjects[h], n)
        BY RowsAreRows
    <2> QED BY <2>1 DEF KnownAt, ReceivedAsItIs
<1> QED BY <1>1 DEF ForeignInv, CleanKnown, CleanNotesWereReceived

\* What is known of a tree stays known while the host keeps its copy.
LEMMA StaysKnown ==
    ASSUME NEW tree, NEW received, NEW received2, NEW h,
           h \in DOMAIN received => h \in DOMAIN received2 /\ received2[h] = received[h],
           KnownAt(tree, received, h)
    PROVE  KnownAt(tree, received2, h)
    BY DEF KnownAt

\* The shard of a position, and of a later one.
LEMMA ShardBounds ==
    ASSUME NEW n \in Nat
    PROVE  Shard(n) \in Nat /\ ShardSize * Shard(n) <= n /\ n < ShardSize * Shard(n) + ShardSize
<1> DEFINE a == ShardSize
<1>1. a \in Nat \ {0} BY ForeignTreesAssumption
<1> HIDE DEF a
<1>2. n \div a \in Nat
    <2>1. n \div a \in Int BY <1>1
    <2>2. n = a * (n \div a) + (n % a) /\ n % a \in 0..(a - 1) BY <1>1, SMTT(60)
    <2> DEFINE q == n \div a
    <2>3. q < 0 => a * q <= a * (0 - 1)
        <3> HIDE DEF q
        <3> QED BY <2>1, <1>1 DEF q
    <2>4. a * (0 - 1) = 0 - a BY <1>1
    <2> QED BY <2>1, <2>2, <2>3, <2>4, <1>1
<1>3. n = a * (n \div a) + (n % a) /\ n % a \in 0..(a - 1)
    BY <1>1, SMTT(60)
<1> QED BY <1>1, <1>2, <1>3 DEF Shard, a

\* A later leaf is in no earlier shard.
LEMMA ShardsAreOrdered ==
    ASSUME NEW m \in Nat, NEW n \in Nat, m <= n
    PROVE  Shard(m) <= Shard(n)
<1> DEFINE a == ShardSize  p == Shard(m)  q == Shard(n)
<1>1. a \in Nat \ {0} BY ForeignTreesAssumption
<1>2. p \in Nat /\ q \in Nat /\ a * p <= m /\ n < a * q + a BY ShardBounds
<1> HIDE DEF a, p, q
<1>3. CASE q < p
    <2>1. a * q + a <= a * p BY <1>1, <1>2, <1>3
    <2> QED BY <1>1, <1>2, <2>1
<1> QED BY <1>2, <1>3 DEF p, q

\* Notes of the shards that an append fills.
Filled(tree, leaves) ==
    {n \in DOMAIN tree.owned :
        Shard(tree.owned[n]) \in Completed(tree)..(Shard(Len(tree.leaves \o leaves)) - 1)}

\* What an append makes of a tree.
LEMMA AppendedIsTree ==
    ASSUME NEW tree \in TreeRecord, NEW leaves \in Seq(Values)
    PROVE  /\ Appended(tree, leaves) \in TreeRecord
           /\ Appended(tree, leaves).kind = tree.kind
           /\ Appended(tree, leaves).owned = tree.owned
           /\ Appended(tree, leaves).leaves = tree.leaves \o leaves
           /\ Appended(tree, leaves).dirty = tree.dirty \cup Filled(tree, leaves)
<1> DEFINE after == [tree EXCEPT !.leaves = @ \o leaves]
           frozen == {n \in DOMAIN tree.owned :
                         Shard(tree.owned[n]) \in Completed(tree)..(Completed(after) - 1)}
           new == Appended(tree, leaves)
<1>1. /\ tree.kind \in Trees /\ tree.leaves \in Seq(Values) /\ tree.owned \in Marks
      /\ tree.dirty \subseteq Mine
    BY DEF TreeRecord
<1>2. /\ after \in TreeRecord /\ after.kind = tree.kind
      /\ after.owned = tree.owned /\ after.dirty = tree.dirty
      /\ after.leaves = tree.leaves \o leaves
    <2>1. tree.leaves \o leaves \in Seq(Values) BY <1>1
    <2> QED BY <2>1, <1>1 DEF TreeRecord
<1>3. \A n \in DOMAIN tree.owned : n \in Mine /\ tree.owned[n] \in Nat
    BY <1>1 DEF Marks
<1>4. new = [after EXCEPT !.dirty = @ \cup frozen]
    BY DEF Appended
<1>6. frozen = Filled(tree, leaves) BY <1>2 DEF Filled, Completed
<1>5. /\ new \in TreeRecord /\ new.kind = tree.kind /\ new.owned = tree.owned
      /\ new.leaves = tree.leaves \o leaves /\ new.dirty = tree.dirty \cup frozen
    <2> HIDE DEF after, frozen
    <2>1. frozen \subseteq Mine BY <1>3 DEF frozen
    <2> HIDE DEF new
    <2> QED BY <1>1, <1>2, <1>4, <2>1 DEF TreeRecord
<1> HIDE DEF new, frozen
<1> QED BY <1>5, <1>6 DEF new

\* The notes of a shard that is filled are dirty: what is known of the others
\* stays true.
LEMMA AppendedStaysKnown ==
    ASSUME NEW tree \in TreeRecord, NEW leaves \in Seq(Values), NEW received, NEW h,
           KnownAt(tree, received, h)
    PROVE  KnownAt(Appended(tree, leaves), received, h)
<1> DEFINE new == Appended(tree, leaves)
<1>1. tree.leaves \in Seq(Values) /\ \A n \in DOMAIN tree.owned : tree.owned[n] \in Nat
    BY DEF TreeRecord, Marks
<1>2. /\ new.owned = tree.owned /\ new.leaves = tree.leaves \o leaves
      /\ new.dirty = tree.dirty \cup Filled(tree, leaves)
    BY AppendedIsTree
<1> HIDE DEF new
<1> DEFINE before == Completed(tree)  after == Completed(new)
<1>3. before \in Nat /\ after \in Nat /\ before <= after
    <2>1. /\ Len(tree.leaves) \in Nat /\ Len(new.leaves) \in Nat
          /\ Len(tree.leaves) <= Len(new.leaves)
        BY <1>1, <1>2
    <2> QED BY <2>1, ShardBounds, ShardsAreOrdered DEF Completed
<1>4. ASSUME NEW n \in DOMAIN new.owned \ new.dirty
      PROVE  RowOf(new, n) = RowOf(tree, n) /\ n \in DOMAIN tree.owned \ tree.dirty
    <2>1. n \in DOMAIN tree.owned \ tree.dirty /\ n \notin Filled(tree, leaves) BY <1>2
    <2>2. Shard(tree.owned[n]) \in Nat BY <1>1, <2>1, ShardBounds
    <2>3. Shard(tree.owned[n]) \notin before..(after - 1)
        BY <1>2, <2>1 DEF Filled, Completed
    <2>4. (Shard(tree.owned[n]) < before) = (Shard(tree.owned[n]) < after)
        <3> HIDE DEF before, after
        <3> QED BY <2>2, <2>3, <1>3
    <2> QED BY <2>1, <2>4, <1>2 DEF RowOf
<1> HIDE DEF before, after
<1> QED BY <1>4 DEF KnownAt, new

\* Marking a note makes it dirty: nothing new has to be known.
LEMMA MarkedStaysKnown ==
    ASSUME NEW tree \in TreeRecord, NEW note \in Mine, NEW index \in Nat, NEW received, NEW h,
           KnownAt(tree, received, h)
    PROVE  /\ Marked(tree, note, index) \in TreeRecord
           /\ Marked(tree, note, index).kind = tree.kind
           /\ KnownAt(Marked(tree, note, index), received, h)
<1> DEFINE owned2 == Put(tree.owned, note, index)
           new == Marked(tree, note, index)
<1>1. /\ tree.kind \in Trees /\ tree.leaves \in Seq(Values) /\ tree.owned \in Marks
      /\ tree.dirty \subseteq Mine
    BY DEF TreeRecord
<1>2. /\ owned2 \in Marks /\ DOMAIN owned2 = {note} \cup DOMAIN tree.owned
      /\ \A n \in DOMAIN tree.owned \ {note} : owned2[n] = tree.owned[n]
    <2>1. PICK S \in SUBSET Mine : tree.owned \in [S -> Nat] BY <1>1 DEF Marks
    <2>2. owned2 \in [S \cup {note} -> Nat] BY <2>1 DEF Put
    <2> QED BY <2>1, <2>2 DEF Marks, Put
<1>3. /\ new \in TreeRecord /\ new.kind = tree.kind /\ new.owned = owned2
      /\ new.leaves = tree.leaves /\ new.dirty = tree.dirty \cup {note}
    <2>1. new = [tree EXCEPT !.owned = owned2, !.dirty = tree.dirty \cup {note}] BY DEF Marked
    <2> HIDE DEF new, owned2
    <2>2. tree = [kind |-> tree.kind, leaves |-> tree.leaves, owned |-> tree.owned,
                  dirty |-> tree.dirty]
        BY DEF TreeRecord
    <2>3. new = [kind |-> tree.kind, leaves |-> tree.leaves, owned |-> owned2,
                 dirty |-> tree.dirty \cup {note}]
        BY <2>1, <2>2
    <2> QED BY <1>1, <1>2, <2>3 DEF TreeRecord
<1>4. ASSUME NEW n \in DOMAIN new.owned \ new.dirty
      PROVE  RowOf(new, n) = RowOf(tree, n) /\ n \in DOMAIN tree.owned \ tree.dirty
    <2> HIDE DEF new, owned2
    <2>1. n \in DOMAIN tree.owned \ {note} /\ n \notin tree.dirty BY <1>2, <1>3
    <2>2. Completed(new) = Completed(tree) BY <1>3 DEF Completed
    <2> QED BY <1>2, <1>3, <2>1, <2>2 DEF RowOf
<1> HIDE DEF new, owned2
<1> QED BY <1>3, <1>4 DEF KnownAt, new

\* A note that is gone need not be known, and a tree cut within its live shard
\* has completed the same shards.
LEMMA CutStaysKnown ==
    ASSUME NEW tree \in TreeRecord, NEW leaves \in Seq(Values), NEW notes,
           NEW received, NEW received2, NEW h,
           Shard(Len(leaves)) = Completed(tree),
           KnownAt(tree, received, h),
           h \in DOMAIN received =>
               /\ h \in DOMAIN received2
               /\ \A n \in DOMAIN received[h] \ notes :
                     n \in DOMAIN received2[h] /\ received2[h][n] = received[h][n]
    PROVE  /\ Unmarked([tree EXCEPT !.leaves = leaves], notes) \in TreeRecord
           /\ Unmarked([tree EXCEPT !.leaves = leaves], notes).kind = tree.kind
           /\ KnownAt(Unmarked([tree EXCEPT !.leaves = leaves], notes), received2, h)
<1> DEFINE cut == [tree EXCEPT !.leaves = leaves]
           owned2 == Restrict(tree.owned, DOMAIN tree.owned \ notes)
           new == Unmarked(cut, notes)
<1>1. /\ tree.kind \in Trees /\ tree.leaves \in Seq(Values) /\ tree.owned \in Marks
      /\ tree.dirty \subseteq Mine
    BY DEF TreeRecord
<1>2. /\ owned2 \in Marks /\ DOMAIN owned2 = DOMAIN tree.owned \ notes
      /\ \A n \in DOMAIN owned2 : owned2[n] = tree.owned[n]
    <2>1. PICK S \in SUBSET Mine : tree.owned \in [S -> Nat] BY <1>1 DEF Marks
    <2>2. owned2 \in [S \ notes -> Nat] BY <2>1 DEF Restrict
    <2>3. S \ notes \in SUBSET Mine OBVIOUS
    <2> QED BY <2>1, <2>2, <2>3 DEF Marks, Restrict
<1>3. /\ new \in TreeRecord /\ new.kind = tree.kind /\ new.owned = owned2
      /\ new.leaves = leaves /\ new.dirty = tree.dirty \ notes
    <2>1. tree = [kind |-> tree.kind, leaves |-> tree.leaves, owned |-> tree.owned,
                  dirty |-> tree.dirty]
        BY DEF TreeRecord
    <2>2. cut = [kind |-> tree.kind, leaves |-> leaves, owned |-> tree.owned,
                 dirty |-> tree.dirty]
        BY <2>1
    <2> HIDE DEF cut
    <2>3. new = [cut EXCEPT !.owned = Restrict(cut.owned, DOMAIN cut.owned \ notes),
                            !.dirty = cut.dirty \ notes]
        BY DEF Unmarked
    <2>4. Restrict(cut.owned, DOMAIN cut.owned \ notes) = owned2 /\ cut.dirty = tree.dirty
        BY <2>2
    <2> HIDE DEF new, owned2
    <2>5. new = [kind |-> tree.kind, leaves |-> leaves, owned |-> owned2,
                 dirty |-> tree.dirty \ notes]
        BY <2>2, <2>3, <2>4
    <2> QED BY <1>1, <1>2, <2>5 DEF TreeRecord
<1>4. ASSUME NEW n \in DOMAIN new.owned \ new.dirty
      PROVE  RowOf(new, n) = RowOf(tree, n) /\ n \in (DOMAIN tree.owned \ tree.dirty) \ notes
    <2> HIDE DEF new, owned2
    <2>1. n \in DOMAIN tree.owned \ notes /\ n \notin tree.dirty BY <1>2, <1>3
    <2>2. Completed(new) = Completed(tree) BY <1>3 DEF Completed
    <2>3. n \in DOMAIN owned2 BY <1>2, <2>1
    <2> QED BY <1>2, <1>3, <2>1, <2>2, <2>3 DEF RowOf
<1> HIDE DEF new, owned2
<1> QED BY <1>3, <1>4 DEF KnownAt, new

\* Once the rows of the dirty notes were received, every note is known.
LEMMA DrainedIsKnown ==
    ASSUME NEW tree \in TreeRecord, NEW received, NEW received2, NEW h, NEW rows,
           KnownAt(tree, received, h),
           rows = Rows(tree, tree.dirty),
           h \in DOMAIN received2,
           received2[h] = IF h \in DOMAIN received THEN Overlay(rows, received[h]) ELSE rows
    PROVE  /\ [tree EXCEPT !.dirty = {}] \in TreeRecord
           /\ [tree EXCEPT !.dirty = {}].kind = tree.kind
           /\ KnownAt([tree EXCEPT !.dirty = {}], received2, h)
<1> DEFINE new == [tree EXCEPT !.dirty = {}]
<1>1. /\ new \in TreeRecord /\ new.kind = tree.kind /\ new.owned = tree.owned
      /\ new.leaves = tree.leaves /\ new.dirty = {}
    BY DEF TreeRecord
<1>2. /\ DOMAIN rows = tree.dirty \cap DOMAIN tree.owned
      /\ \A n \in tree.dirty \cap DOMAIN tree.owned : rows[n] = RowOf(tree, n)
    BY RowsAreRows DEF Rows
<1>3. ASSUME NEW n \in DOMAIN new.owned
      PROVE  RowOf(new, n) = RowOf(tree, n)
    <2> HIDE DEF new
    <2>1. Completed(new) = Completed(tree) BY <1>1 DEF Completed
    <2> QED BY <1>1, <2>1 DEF RowOf
<1>4. ASSUME NEW n \in DOMAIN tree.owned
      PROVE  n \in DOMAIN received2[h] /\ received2[h][n] = RowOf(tree, n)
    <2>1. CASE n \in tree.dirty
        <3>1. n \in DOMAIN rows /\ rows[n] = RowOf(tree, n) BY <1>2, <2>1
        <3> QED BY <3>1 DEF Overlay
    <2>2. CASE n \notin tree.dirty
        <3>1. /\ h \in DOMAIN received /\ n \in DOMAIN received[h]
              /\ received[h][n] = RowOf(tree, n)
            BY <2>2 DEF KnownAt
        <3>2. n \notin DOMAIN rows BY <1>2, <2>2
        <3> QED BY <3>1, <3>2 DEF Overlay
    <2> QED BY <2>1, <2>2
<1> HIDE DEF new
<1> QED BY <1>1, <1>3, <1>4 DEF KnownAt, new
-----------------------------------------------------------------------------
\* A call that only answers keeps the invariant.
LEMMA AnswerKeeps ==
    ASSUME ForeignInv, UNCHANGED <<treeObjects, held, copies>>
    PROVE  ForeignInv'
    BY DEF ForeignInv, TreesOK, NoOrphans, CleanKnown

\* A packed argument that decodes is a list of field elements.
LEMMA DecodedIsList ==
    ASSUME NEW packed \in PackedFields, packed # Malformed
    PROVE  packed \in Seq(Values)
<1>1. PICK n \in 0..MaxBatch : packed \in [1..n -> Values] BY DEF PackedFields, Lists
<1>2. n \in Nat BY ForeignTreesAssumption
<1> QED BY <1>1, <1>2

\* A new tree owns nothing, and an object that is no tree has nothing to know.
LEMMA HandOutKeeps ==
    ASSUME ForeignInv, NEW object, HandOut(object, TRUE),
           \/ object.kind = "proof"
           \/ object.kind \in Trees /\ object \in TreeRecord /\ DOMAIN object.owned = {}
    PROVE  ForeignInv'
<1>1. /\ treeObjects' = Put(treeObjects, nextObject, object)
      /\ held' = held \cup {nextObject} /\ copies' = copies
    BY DEF HandOut
<1>2. /\ DOMAIN treeObjects' = DOMAIN treeObjects \cup {nextObject}
      /\ treeObjects'[nextObject] = object
      /\ \A h \in DOMAIN treeObjects \ {nextObject} : treeObjects'[h] = treeObjects[h]
    BY <1>1 DEF Put
<1>3. TreesOK'
    BY <1>2 DEF ForeignInv, TreesOK, Trees
<1>4. NoOrphans'
    BY <1>1, <1>2 DEF ForeignInv, NoOrphans
<1>5. ASSUME NEW h \in DOMAIN treeObjects', treeObjects'[h].kind = "sharded"
      PROVE  KnownAt(treeObjects'[h], copies', h)
    <2>1. CASE h = nextObject
        BY <1>2, <1>5, <2>1 DEF KnownAt
    <2>2. CASE h # nextObject
        <3>1. h \in DOMAIN treeObjects /\ treeObjects'[h] = treeObjects[h] BY <1>2, <2>2
        <3> QED BY <1>1, <1>5, <3>1 DEF ForeignInv, CleanKnown
    <2> QED BY <2>1, <2>2
<1>6. CleanKnown'
    BY <1>5 DEF CleanKnown
<1> QED BY <1>3, <1>4, <1>6 DEF ForeignInv

\* A change of one tree keeps the invariant when the new tree is one, and known.
LEMMA ChangeKeeps ==
    ASSUME ForeignInv, NEW h, NEW kind \in Trees, NEW error, NEW tree,
           Change(h, kind, error, tree),
           answer' # "Ok" => copies' = copies,
           \A g \in DOMAIN copies \ {h} : g \in DOMAIN copies' /\ copies'[g] = copies[g],
           Has(h, kind) /\ error = "Ok" /\ answer' = "Ok" =>
               /\ tree \in TreeRecord /\ tree.kind = kind
               /\ kind = "sharded" => KnownAt(tree, copies', h)
    PROVE  ForeignInv'
<1>1. CASE ~Has(h, kind) \/ error # "Ok"
    <2>1. Reach(h, kind, error) # "Ok" BY <1>1 DEF Reach
    <2>2. /\ answer' # "Ok" /\ UNCHANGED <<treeObjects, held>>
        BY <2>1 DEF Change, Answer
    <2> QED BY <2>2, AnswerKeeps
<1>2. CASE Has(h, kind) /\ error = "Ok"
    <2>1. Reach(h, kind, error) = "Ok" BY <1>2 DEF Reach
    <2>2. /\ treeObjects' = [treeObjects EXCEPT ![h] = tree] /\ answer' = "Ok" /\ held' = held
        BY <2>1 DEF Change
    <2>3. h \in DOMAIN treeObjects BY <1>2 DEF Has
    <2>4. /\ DOMAIN treeObjects' = DOMAIN treeObjects
          /\ treeObjects'[h] = tree
          /\ \A g \in DOMAIN treeObjects \ {h} : treeObjects'[g] = treeObjects[g]
        BY <2>2, <2>3
    <2>5. /\ tree \in TreeRecord /\ tree.kind = kind
          /\ kind = "sharded" => KnownAt(tree, copies', h)
        BY <1>2, <2>2
    <2>6. TreesOK' /\ NoOrphans'
        BY <2>2, <2>4, <2>5 DEF ForeignInv, TreesOK, NoOrphans
    <2>7. ASSUME NEW g \in DOMAIN treeObjects', treeObjects'[g].kind = "sharded"
          PROVE  KnownAt(treeObjects'[g], copies', g)
        <3>1. CASE g = h
            BY <2>4, <2>5, <2>7, <3>1
        <3>2. CASE g # h
            <4>1. KnownAt(treeObjects[g], copies, g)
                BY <2>4, <2>7, <3>2 DEF ForeignInv, CleanKnown
            <4>2. g \in DOMAIN copies => g \in DOMAIN copies' /\ copies'[g] = copies[g]
                BY <3>2
            <4>3. KnownAt(treeObjects[g], copies', g)
                BY <4>1, <4>2, StaysKnown
            <4> QED BY <2>4, <2>7, <3>2, <4>3
        <3> QED BY <3>1, <3>2
    <2>8. CleanKnown' BY <2>7 DEF CleanKnown
    <2> QED BY <2>6, <2>8 DEF ForeignInv
<1> QED BY <1>1, <1>2

\* A tree that was reached is a tree.
LEMMA ReachedIsTree ==
    ASSUME ForeignInv, NEW h, NEW kind \in Trees, Has(h, kind)
    PROVE  /\ h \in DOMAIN treeObjects /\ treeObjects[h].kind = kind
           /\ treeObjects[h] \in TreeRecord
           /\ kind = "sharded" => KnownAt(treeObjects[h], copies, h)
    BY DEF ForeignInv, TreesOK, CleanKnown, Has

\* Appending to a tree keeps the invariant, whatever refuses it.
LEMMA AppendKeeps ==
    ASSUME ForeignInv, NEW h, NEW kind \in Trees, NEW packed \in PackedFields, NEW error,
           Change(h, kind, DecodeError(packed, error), Appended(treeObjects[h], packed)),
           UNCHANGED copies
    PROVE  ForeignInv'
<1> DEFINE tree == Appended(treeObjects[h], packed)
<1>1. ASSUME Has(h, kind), DecodeError(packed, error) = "Ok"
      PROVE  /\ tree \in TreeRecord /\ tree.kind = kind
             /\ kind = "sharded" => KnownAt(tree, copies, h)
    <2>1. packed \in Seq(Values) BY <1>1, DecodedIsList DEF DecodeError
    <2>2. /\ treeObjects[h] \in TreeRecord /\ treeObjects[h].kind = kind
          /\ kind = "sharded" => KnownAt(treeObjects[h], copies, h)
        BY <1>1, ReachedIsTree
    <2>4. tree \in TreeRecord /\ tree.kind = kind
        BY <2>1, <2>2, AppendedIsTree
    <2>5. CASE kind = "sharded"
        BY <2>1, <2>2, <2>4, <2>5, AppendedStaysKnown
    <2> QED BY <2>4, <2>5
<1> HIDE DEF tree
<1>2. Change(h, kind, DecodeError(packed, error), tree) BY DEF tree
<1> QED BY <1>1, <1>2, ChangeKeeps

\* Forgetting notes of a tree leaves every other note in the host's copies.
LEMMA ForgetKeepsTheRest ==
    ASSUME NEW h, NEW notes, Forget(h, notes)
    PROVE  /\ answer' # "Ok" => copies' = copies
           /\ \A g \in DOMAIN copies \ {h} : g \in DOMAIN copies' /\ copies'[g] = copies[g]
           /\ h \in DOMAIN copies =>
                /\ h \in DOMAIN copies'
                /\ \A n \in DOMAIN copies[h] \ notes :
                      n \in DOMAIN copies'[h] /\ copies'[h][n] = copies[h][n]
<1>1. CASE answer' = "Ok" /\ h \in DOMAIN copies
    <2> DEFINE rest == Restrict(copies[h], DOMAIN copies[h] \ notes)
    <2>1. copies' = [copies EXCEPT ![h] = rest] BY <1>1 DEF Forget
    <2>2. DOMAIN rest = DOMAIN copies[h] \ notes
          /\ \A n \in DOMAIN rest : rest[n] = copies[h][n]
        BY DEF Restrict
    <2> HIDE DEF rest
    <2> QED BY <1>1, <2>1, <2>2
<1>2. CASE ~(answer' = "Ok" /\ h \in DOMAIN copies)
    BY <1>2 DEF Forget
<1> QED BY <1>1, <1>2

\* Unmarking a note, and rewinding the live shard, keep the invariant.
LEMMA UnmarkKeeps ==
    ASSUME ForeignInv, NEW h, NEW notes, NEW leaves, NEW error,
           Change(h, "sharded", error, Unmarked([treeObjects[h] EXCEPT !.leaves = leaves], notes)),
           Forget(h, notes),
           Has(h, "sharded") /\ error = "Ok" =>
               leaves \in Seq(Values) /\ Shard(Len(leaves)) = Completed(treeObjects[h])
    PROVE  ForeignInv'
<1> DEFINE tree == Unmarked([treeObjects[h] EXCEPT !.leaves = leaves], notes)
<1>1. "sharded" \in Trees BY DEF Trees
<1>2. ASSUME Has(h, "sharded"), error = "Ok"
      PROVE  tree \in TreeRecord /\ tree.kind = "sharded" /\ KnownAt(tree, copies', h)
    <2>1. /\ treeObjects[h] \in TreeRecord /\ treeObjects[h].kind = "sharded"
          /\ KnownAt(treeObjects[h], copies, h)
        BY <1>1, <1>2, ReachedIsTree
    <2>2. leaves \in Seq(Values) /\ Shard(Len(leaves)) = Completed(treeObjects[h]) BY <1>2
    <2>3. h \in DOMAIN copies =>
                /\ h \in DOMAIN copies'
                /\ \A n \in DOMAIN copies[h] \ notes :
                      n \in DOMAIN copies'[h] /\ copies'[h][n] = copies[h][n]
        BY ForgetKeepsTheRest
    <2> QED BY <2>1, <2>2, <2>3, CutStaysKnown
<1>3. Change(h, "sharded", error, tree) OBVIOUS
<1> HIDE DEF tree
<1>4. /\ answer' # "Ok" => copies' = copies
      /\ \A g \in DOMAIN copies \ {h} : g \in DOMAIN copies' /\ copies'[g] = copies[g]
    BY ForgetKeepsTheRest
<1> QED BY <1>1, <1>2, <1>3, <1>4, ChangeKeeps

\* A position at or past the completed shards of a tree lies in its live shard.
LEMMA RewindStaysInShard ==
    ASSUME NEW leaves \in Seq(Values), NEW count \in Nat,
           Shard(Len(leaves)) * ShardSize <= count, count <= Len(leaves)
    PROVE  /\ SubSeq(leaves, 1, count) \in Seq(Values)
           /\ Shard(Len(SubSeq(leaves, 1, count))) = Shard(Len(leaves))
<1> DEFINE a == ShardSize  p == Shard(count)  q == Shard(Len(leaves))
<1>1. SubSeq(leaves, 1, count) \in Seq(Values) /\ Len(SubSeq(leaves, 1, count)) = count
    OBVIOUS
<1>2. a \in Nat \ {0} BY ForeignTreesAssumption
<1>3. p \in Nat /\ count < a * p + a BY ShardBounds
<1>4. q \in Nat /\ p <= q BY ShardBounds, ShardsAreOrdered
<1>5. q * a <= count OBVIOUS
<1> HIDE DEF a, p, q
<1>6. ASSUME p < q PROVE FALSE
    <2>1. a * p + a <= a * q BY <1>2, <1>3, <1>4, <1>6
    <2>2. a * q = q * a BY <1>2, <1>4
    <2> QED BY <1>2, <1>3, <1>4, <1>5, <2>1, <2>2
<1>7. p = q BY <1>3, <1>4, <1>6
<1> QED BY <1>1, <1>7 DEF p, q

\* The invariant holds after every call.
LEMMA ForeignStep ==
    ASSUME ForeignInv, [ForeignNext]_foreignVars
    PROVE  ForeignInv'
<1> USE DEF Has
<1>1. ASSUME NEW status, Answer(status) PROVE ForeignInv'
    BY <1>1, AnswerKeeps DEF Answer
<1>2. ASSUME NEW kind \in Trees, NEW packed \in PackedFields, NEW out \in BOOLEAN,
             Construct(kind, packed, out)
      PROVE  ForeignInv'
    <2>1. CASE out /\ packed # Malformed /\ CoreAppend(Tree(kind, <<>>), packed) = "Ok"
        <3>1. HandOut(Tree(kind, packed), TRUE) BY <1>2, <2>1 DEF Construct
        <3>2. packed \in Seq(Values) BY <2>1, DecodedIsList
        <3>3. NoNotes \in Marks /\ DOMAIN NoNotes = {}
            <4>1. NoNotes \in [{} -> Nat] BY DEF NoNotes
            <4> QED BY <4>1 DEF Marks
        <3>4. /\ Tree(kind, packed) \in TreeRecord /\ Tree(kind, packed).kind \in Trees
              /\ DOMAIN Tree(kind, packed).owned = {}
            BY <3>2, <3>3 DEF Tree, TreeRecord
        <3> QED BY <3>1, <3>4, HandOutKeeps
    <2>2. CASE ~(out /\ packed # Malformed /\ CoreAppend(Tree(kind, <<>>), packed) = "Ok")
        BY <1>1, <1>2, <2>2 DEF Construct
    <2> QED BY <2>1, <2>2
<1>3. ASSUME NEW h, NEW intact \in BOOLEAN, NEW out \in BOOLEAN, RestoreSharded(h, intact, out)
      PROVE  ForeignInv'
    <2>1. CASE ~out \/ ~intact BY <1>1, <1>3, <2>1 DEF RestoreSharded
    <2>2. CASE out /\ intact
        <3> DEFINE tree == [treeObjects[h] EXCEPT !.dirty = {}]
                   others == DOMAIN treeObjects \ {h}
                   rows == Rows(tree, DOMAIN tree.owned)
        <3>1. /\ treeObjects' = Put(Restrict(treeObjects, others), nextObject, tree)
              /\ held' = (held \ {h}) \cup {nextObject}
              /\ copies' = Put(Restrict(copies, DOMAIN copies \ {h}), nextObject, rows)
            BY <1>3, <2>2 DEF RestoreSharded
        <3>2. treeObjects[h] \in TreeRecord /\ treeObjects[h].kind = "sharded"
            BY <1>3, ReachedIsTree DEF RestoreSharded, Trees
        <3>3. tree \in TreeRecord /\ tree.kind = "sharded" BY <3>2 DEF TreeRecord
        <3>4. \A n \in DOMAIN tree.owned : n \in DOMAIN rows /\ rows[n] = RowOf(tree, n)
            BY RowsAreRows DEF Rows
        <3> HIDE DEF tree, rows
        <3>5. /\ DOMAIN treeObjects' = others \cup {nextObject}
              /\ treeObjects'[nextObject] = tree
              /\ \A g \in others \ {nextObject} : treeObjects'[g] = treeObjects[g]
            BY <3>1 DEF Put, Restrict
        <3>6. /\ nextObject \in DOMAIN copies' /\ copies'[nextObject] = rows
              /\ \A g \in DOMAIN copies \ {h, nextObject} :
                    g \in DOMAIN copies' /\ copies'[g] = copies[g]
            BY <3>1 DEF Put, Restrict
        <3>7. TreesOK' BY <3>3, <3>5 DEF ForeignInv, TreesOK
        <3>8. NoOrphans' BY <3>1, <3>5 DEF ForeignInv, NoOrphans
        <3>9. ASSUME NEW g \in DOMAIN treeObjects', treeObjects'[g].kind = "sharded"
              PROVE  KnownAt(treeObjects'[g], copies', g)
            <4>1. CASE g = nextObject BY <3>4, <3>5, <3>6, <4>1 DEF KnownAt
            <4>2. CASE g # nextObject
                <5>1. KnownAt(treeObjects[g], copies, g)
                    BY <3>5, <3>9, <4>2 DEF ForeignInv, CleanKnown
                <5>2. g \in DOMAIN copies => g \in DOMAIN copies' /\ copies'[g] = copies[g]
                    BY <3>5, <3>6, <4>2
                <5>3. KnownAt(treeObjects[g], copies', g) BY <5>1, <5>2, StaysKnown
                <5> QED BY <3>5, <4>2, <5>3
            <4> QED BY <4>1, <4>2
        <3>10. CleanKnown' BY <3>9 DEF CleanKnown
        <3> QED BY <3>7, <3>8, <3>10 DEF ForeignInv
    <2> QED BY <2>1, <2>2
<1>4. ASSUME NEW kind, NEW h, Free(kind, h)
      PROVE  ForeignInv'
    <2>1. CASE ~Has(h, kind) BY <1>1, <1>4, <2>1 DEF Free
    <2>2. CASE Has(h, kind)
        <3>1. /\ DOMAIN treeObjects' = DOMAIN treeObjects \ {h}
              /\ \A g \in DOMAIN treeObjects' : treeObjects'[g] = treeObjects[g]
              /\ held' = held \ {h}
              /\ \A g \in DOMAIN copies \ {h} : g \in DOMAIN copies' /\ copies'[g] = copies[g]
            BY <1>4, <2>2 DEF Free, Restrict
        <3>2. TreesOK' /\ NoOrphans' BY <3>1 DEF ForeignInv, TreesOK, NoOrphans
        <3>3. ASSUME NEW g \in DOMAIN treeObjects', treeObjects'[g].kind = "sharded"
              PROVE  KnownAt(treeObjects'[g], copies', g)
            <4>1. KnownAt(treeObjects[g], copies, g)
                BY <3>1, <3>3 DEF ForeignInv, CleanKnown
            <4>2. g \in DOMAIN copies => g \in DOMAIN copies' /\ copies'[g] = copies[g]
                BY <3>1
            <4>3. KnownAt(treeObjects[g], copies', g) BY <4>1, <4>2, StaysKnown
            <4> QED BY <3>1, <4>3
        <3> QED BY <3>2, <3>3 DEF ForeignInv, CleanKnown
    <2> QED BY <2>1, <2>2
<1>5. ASSUME NEW h, NEW out \in BOOLEAN, OwnedNotes(h, out)
      PROVE  ForeignInv'
    <2>1. CASE Finish(Reach(h, "sharded", "Ok"), out) # "Ok"
        BY <1>5, <2>1, AnswerKeeps DEF OwnedNotes
    <2>2. CASE Finish(Reach(h, "sharded", "Ok"), out) = "Ok"
        <3> DEFINE tree == treeObjects[h]
                   rows == Rows(tree, DOMAIN tree.owned)
        <3>1. /\ UNCHANGED <<treeObjects, held>> /\ copies' = Put(copies, h, rows)
            BY <1>5, <2>2 DEF OwnedNotes
        <3>2. \A n \in DOMAIN tree.owned : n \in DOMAIN rows /\ rows[n] = RowOf(tree, n)
            BY RowsAreRows DEF Rows
        <3> HIDE DEF rows
        <3>3. /\ h \in DOMAIN copies' /\ copies'[h] = rows
              /\ \A g \in DOMAIN copies \ {h} : g \in DOMAIN copies' /\ copies'[g] = copies[g]
            BY <3>1 DEF Put
        <3>4. ASSUME NEW g \in DOMAIN treeObjects, treeObjects[g].kind = "sharded"
              PROVE  KnownAt(treeObjects[g], copies', g)
            <4>1. CASE g = h BY <3>2, <3>3, <4>1 DEF KnownAt
            <4>2. CASE g # h
                <5>1. KnownAt(treeObjects[g], copies, g) BY <3>4 DEF ForeignInv, CleanKnown
                <5> QED BY <3>3, <4>2, <5>1, StaysKnown
            <4> QED BY <4>1, <4>2
        <3> QED BY <3>1, <3>4 DEF ForeignInv, TreesOK, NoOrphans, CleanKnown
    <2> QED BY <2>1, <2>2
<1>6. ASSUME NEW h, NEW kind, NEW index, NEW out \in BOOLEAN, MakeProof(h, kind, index, out)
      PROVE  ForeignInv'
    <2>1. \/ \E status : Answer(status)
          \/ \E object : object.kind = "proof" /\ HandOut(object, TRUE)
        BY <1>6 DEF MakeProof
    <2> QED BY <1>1, <2>1, HandOutKeeps
<1>7. ASSUME NEW h, NEW kind \in Trees, NEW packed \in PackedFields, AppendLeaves(h, kind, packed)
      PROVE  ForeignInv'
    BY <1>7, AppendKeeps DEF AppendLeaves
<1>8. ASSUME NEW h, NEW kind \in Trees, NEW size, NEW packed \in PackedFields, NEW out \in BOOLEAN,
             BuildBound(h, kind, size, packed, out)
      PROVE  ForeignInv'
    <2>1. CASE ~out BY <1>1, <1>8, <2>1 DEF BuildBound
    <2>2. CASE out BY <1>8, <2>2, AppendKeeps DEF BuildBound
    <2> QED BY <2>1, <2>2
<1>9. ASSUME NEW h, NEW count \in Index, Truncate(h, count)
      PROVE  ForeignInv'
    <2> DEFINE error == IF count > Len(treeObjects[h].leaves) THEN "Error" ELSE "Ok"
               tree == [treeObjects[h] EXCEPT !.leaves = SubSeq(@, 1, count)]
    <2>1. Change(h, "merkle", error, tree) /\ copies' = copies BY <1>9 DEF Truncate
    <2>2. ASSUME Has(h, "merkle"), error = "Ok"
          PROVE  tree \in TreeRecord /\ tree.kind = "merkle"
        <3>1. treeObjects[h] \in TreeRecord /\ treeObjects[h].kind = "merkle"
            BY <2>2, ReachedIsTree DEF Trees
        <3>2. treeObjects[h].leaves \in Seq(Values) BY <3>1 DEF TreeRecord
        <3>3. count \in Nat BY ForeignTreesAssumption DEF Index
        <3>4. count <= Len(treeObjects[h].leaves) BY <2>2, <3>2, <3>3
        <3>5. SubSeq(treeObjects[h].leaves, 1, count) \in Seq(Values) BY <3>2, <3>3, <3>4
        <3> QED BY <3>1, <3>5 DEF TreeRecord
    <2> HIDE DEF error, tree
    <2> QED BY <2>1, <2>2, ChangeKeeps DEF Trees
<1>10. ASSUME NEW h, NEW packed \in Mine \cup {Malformed}, NEW index \in Index,
              \/ MarkOwned(h, packed, index)
              \/ \E honest \in BOOLEAN : AdoptFrozenWitness(h, packed, index, honest)
       PROVE  ForeignInv'
    <2> DEFINE tree == treeObjects[h]
               marked == Marked(tree, packed, index)
    <2>1. ASSUME Has(h, "sharded"), packed # Malformed
          PROVE  /\ tree \in TreeRecord /\ tree.kind = "sharded" /\ KnownAt(tree, copies, h)
                 /\ marked \in TreeRecord /\ marked.kind = "sharded"
                 /\ KnownAt(marked, copies, h)
        <3>1. /\ tree \in TreeRecord /\ tree.kind = "sharded" /\ KnownAt(tree, copies, h)
            BY <2>1, ReachedIsTree DEF Trees
        <3>2. packed \in Mine /\ index \in Nat BY <2>1, ForeignTreesAssumption DEF Index
        <3> HIDE DEF tree
        <3> QED BY <3>1, <3>2, MarkedStaysKnown
    <2>2. \E error, new :
              /\ Change(h, "sharded", DecodeError(packed, error), new) /\ copies' = copies
              /\ new = tree \/ new = marked
        BY <1>10 DEF MarkOwned, AdoptFrozenWitness
    <2> HIDE DEF tree, marked
    <2>3. PICK error, new :
              /\ Change(h, "sharded", DecodeError(packed, error), new) /\ copies' = copies
              /\ new = tree \/ new = marked
        BY <2>2
    <2>4. ASSUME Has(h, "sharded"), DecodeError(packed, error) = "Ok"
          PROVE  new \in TreeRecord /\ new.kind = "sharded" /\ KnownAt(new, copies, h)
        <3>1. packed # Malformed BY <2>4 DEF DecodeError
        <3> QED BY <2>1, <2>3, <2>4, <3>1
    <2> QED BY <2>3, <2>4, ChangeKeeps DEF Trees
<1>11. ASSUME NEW h, NEW packed, NEW out \in BOOLEAN, UnmarkOwned(h, packed, out)
       PROVE  ForeignInv'
    <2>1. CASE ~out BY <1>1, <1>11, <2>1 DEF UnmarkOwned
    <2>2. CASE out
        <3> DEFINE tree == treeObjects[h]
        <3>1. /\ Change(h, "sharded", DecodeError(packed, "Ok"), Unmarked(tree, {packed}))
              /\ Forget(h, {packed})
            BY <1>11, <2>2 DEF UnmarkOwned
        <3>2. CASE ~Has(h, "sharded")
            <4>1. Reach(h, "sharded", DecodeError(packed, "Ok")) # "Ok" BY <3>2 DEF Reach
            <4>2. answer' # "Ok" /\ UNCHANGED <<treeObjects, held>>
                BY <3>1, <4>1 DEF Change, Answer
            <4> QED BY <3>1, <4>2, AnswerKeeps, ForgetKeepsTheRest
        <3>3. CASE Has(h, "sharded")
            <4>1. tree \in TreeRecord BY <3>3, ReachedIsTree DEF Trees
            <4>2. /\ [tree EXCEPT !.leaves = tree.leaves] = tree
                  /\ tree.leaves \in Seq(Values) /\ Shard(Len(tree.leaves)) = Completed(tree)
                BY <4>1 DEF TreeRecord, Completed
            <4>3. Change(h, "sharded", DecodeError(packed, "Ok"),
                         Unmarked([tree EXCEPT !.leaves = tree.leaves], {packed}))
                BY <3>1, <4>2
            <4> QED BY <3>1, <4>2, <4>3, UnmarkKeeps
        <3> QED BY <3>2, <3>3
    <2> QED BY <2>1, <2>2
<1>12. ASSUME NEW h, NEW count \in Index, NEW out \in BOOLEAN, RewindLiveTo(h, count, out)
       PROVE  ForeignInv'
    <2>1. CASE ~out BY <1>1, <1>12, <2>1 DEF RewindLiveTo
    <2>2. CASE out
        <3> DEFINE tree == treeObjects[h]
                   cut == {n \in DOMAIN tree.owned : tree.owned[n] >= count}
                   leaves == SubSeq(tree.leaves, 1, count)
                   error == IF count \in (Completed(tree) * ShardSize)..Len(tree.leaves)
                            THEN "Ok" ELSE "Error"
        <3>1. /\ Change(h, "sharded", error, Unmarked([tree EXCEPT !.leaves = leaves], cut))
              /\ Forget(h, cut)
            BY <1>12, <2>2 DEF RewindLiveTo
        <3>2. ASSUME Has(h, "sharded"), error = "Ok"
              PROVE  leaves \in Seq(Values) /\ Shard(Len(leaves)) = Completed(tree)
            <4>1. tree.leaves \in Seq(Values) BY <3>2, ReachedIsTree DEF Trees, TreeRecord
            <4>2. count \in Nat BY ForeignTreesAssumption DEF Index
            <4>3. /\ Shard(Len(tree.leaves)) * ShardSize <= count
                  /\ count <= Len(tree.leaves)
                <5>1. Shard(Len(tree.leaves)) \in Nat /\ Len(tree.leaves) \in Nat
                    BY <4>1, ShardBounds
                <5>2. count \in (Completed(tree) * ShardSize)..Len(tree.leaves) BY <3>2
                <5>3. ShardSize \in Nat BY ForeignTreesAssumption
                <5>4. Shard(Len(tree.leaves)) * ShardSize \in Int BY <5>1, <5>3
                <5> QED BY <5>1, <5>2, <5>4 DEF Completed
            <4> HIDE DEF tree
            <4> QED BY <4>1, <4>2, <4>3, RewindStaysInShard DEF Completed
        <3> HIDE DEF cut, leaves, error
        <3> QED BY <3>1, <3>2, UnmarkKeeps
    <2> QED BY <2>1, <2>2
<1>13. ASSUME NEW h, NEW out \in BOOLEAN, DrainDirty(h, out)
       PROVE  ForeignInv'
    <2>1. CASE ~out \/ ~Has(h, "sharded") BY <1>1, <1>13, <2>1 DEF DrainDirty
    <2>2. CASE out /\ Has(h, "sharded")
        <3> DEFINE tree == treeObjects[h]
                   new == [tree EXCEPT !.dirty = {}]
                   rows == Rows(tree, tree.dirty)
        <3>1. /\ treeObjects' = [treeObjects EXCEPT ![h] = new] /\ answer' = "Ok"
              /\ copies' = Receive(h, rows) /\ UNCHANGED <<nextObject, held>>
            BY <1>13, <2>2 DEF DrainDirty
        <3>2. /\ tree \in TreeRecord /\ tree.kind = "sharded" /\ KnownAt(tree, copies, h)
            BY <2>2, ReachedIsTree DEF Trees
        <3>3. /\ h \in DOMAIN copies'
              /\ copies'[h] = IF h \in DOMAIN copies THEN Overlay(rows, copies[h]) ELSE rows
              /\ \A g \in DOMAIN copies \ {h} : g \in DOMAIN copies' /\ copies'[g] = copies[g]
            BY <3>1 DEF Receive, Put
        <3>4. new \in TreeRecord /\ new.kind = "sharded" /\ KnownAt(new, copies', h)
            BY <3>2, <3>3, DrainedIsKnown
        <3> HIDE DEF new, rows
        <3>5. Change(h, "sharded", "Ok", new)
            BY <2>2, <3>1 DEF Change, Reach
        <3> QED BY <3>1, <3>3, <3>4, <3>5, ChangeKeeps DEF Trees
    <2> QED BY <2>1, <2>2
<1>14. CASE UNCHANGED foreignVars
    BY <1>14, AnswerKeeps DEF foreignVars
<1>15. ASSUME NEW h, NEW out \in BOOLEAN,
              \/ ReadProof(h, out) \/ ReadMerkle(h, out) \/ ReadOrdered(h, out)
              \/ ReadSharded(h, out) \/ ReadFrontier(h, out)
              \/ \E leaf \in PackedField : ReadIndex(h, leaf, out)
              \/ \E kind \in {"merkle", "frontier"} : ReadNextLeafFrontier(h, kind, out)
              \/ \E shard \in Index : ReadShardRoot(h, shard, out)
       PROVE  ForeignInv'
    <2>1. \E status : Answer(status)
        BY <1>15 DEF ReadProof, ReadMerkle, ReadOrdered, ReadSharded, ReadFrontier, ReadIndex,
                     ReadNextLeafFrontier, ReadShardRoot, Read
    <2> QED BY <1>1, <2>1
<1>16. ASSUME NEW h, NEW packed \in PackedFields,
              \/ \E kind \in Trees, out \in BOOLEAN : AppendAndWrite(h, kind, packed, out)
              \/ \E kind \in Trees : AppendOnly(h, kind, packed)
       PROVE  ForeignInv'
    <2>1. \/ \E status : Answer(status)
          \/ \E kind \in Trees : AppendLeaves(h, kind, packed)
        BY <1>16 DEF AppendAndWrite, AppendOnly
    <2> QED BY <1>1, <1>7, <2>1
<1>17. ASSUME NEW decodes, NEW out, VerifyMerkleProof(decodes, out) PROVE ForeignInv'
    BY <1>1, <1>17 DEF VerifyMerkleProof
<1>18. {"merkle", "frontier"} \subseteq Trees BY DEF Trees
<1> QED
    BY <1>2, <1>3, <1>4, <1>5, <1>6, <1>8, <1>9, <1>10, <1>11, <1>12, <1>13, <1>14, <1>15, <1>16,
       <1>17, <1>18 DEF ForeignNext

\* Every step of a call: a rejection leaves the trees and the counter alone.
LEMMA RejectedStep ==
    ASSUME [ForeignNext]_foreignVars
    PROVE  [RejectedCallsAreRetriable]_foreignVars
<1>1. ASSUME NEW status, Answer(status) PROVE RejectedCallsAreRetriable
    BY <1>1 DEF Answer, RejectedCallsAreRetriable
<1>2. ASSUME NEW object, HandOut(object, TRUE) PROVE RejectedCallsAreRetriable
    BY <1>2 DEF HandOut, RejectedCallsAreRetriable
<1>3. ASSUME NEW h, NEW kind, NEW error, NEW tree, Change(h, kind, error, tree)
      PROVE  RejectedCallsAreRetriable
    BY <1>3 DEF Change, Answer, RejectedCallsAreRetriable
<1>4. ASSUME UNCHANGED <<treeObjects, nextObject>> PROVE RejectedCallsAreRetriable
    BY <1>4 DEF RejectedCallsAreRetriable
<1>5. ASSUME answer' = "Ok" PROVE RejectedCallsAreRetriable
    BY <1>5 DEF RejectedCallsAreRetriable
<1>6. ASSUME NEW decodes, NEW out, VerifyMerkleProof(decodes, out)
      PROVE  RejectedCallsAreRetriable
    BY <1>1, <1>6 DEF VerifyMerkleProof
<1>7. ASSUME NEW kind, NEW packed, NEW out \in BOOLEAN, Construct(kind, packed, out)
      PROVE  RejectedCallsAreRetriable
    BY <1>1, <1>2, <1>7 DEF Construct
<1>8. ASSUME NEW h, NEW intact, NEW out, RestoreSharded(h, intact, out)
      PROVE  RejectedCallsAreRetriable
    BY <1>1, <1>5, <1>8 DEF RestoreSharded
<1>9. ASSUME NEW kind, NEW h, Free(kind, h) PROVE RejectedCallsAreRetriable
    BY <1>1, <1>5, <1>9 DEF Free
<1>10. ASSUME NEW h, NEW kind, NEW body, NEW out, Read(h, kind, body, out)
       PROVE  RejectedCallsAreRetriable
    BY <1>1, <1>10 DEF Read
<1>11. ASSUME NEW h, NEW out,
              \/ ReadProof(h, out) \/ ReadMerkle(h, out) \/ ReadOrdered(h, out)
              \/ ReadSharded(h, out) \/ ReadFrontier(h, out)
              \/ \E leaf \in PackedField : ReadIndex(h, leaf, out)
              \/ \E kind \in {"merkle", "frontier"} : ReadNextLeafFrontier(h, kind, out)
              \/ \E shard \in Index : ReadShardRoot(h, shard, out)
       PROVE  RejectedCallsAreRetriable
    BY <1>10, <1>11 DEF ReadProof, ReadMerkle, ReadOrdered, ReadSharded, ReadFrontier, ReadIndex,
                        ReadNextLeafFrontier, ReadShardRoot
<1>12. ASSUME NEW h, NEW out, OwnedNotes(h, out) \/ DrainDirty(h, out)
       PROVE  RejectedCallsAreRetriable
    BY <1>1, <1>4, <1>5, <1>12 DEF OwnedNotes, DrainDirty
<1>13. ASSUME NEW h, NEW kind, NEW index, NEW out \in BOOLEAN, MakeProof(h, kind, index, out)
       PROVE  RejectedCallsAreRetriable
    BY <1>1, <1>2, <1>13 DEF MakeProof
<1>14. ASSUME NEW h, NEW count, NEW out, RewindLiveTo(h, count, out)
       PROVE  RejectedCallsAreRetriable
    BY <1>1, <1>3, <1>14 DEF RewindLiveTo
<1>15. ASSUME NEW h, NEW packed,
              \/ \E kind \in Trees, out \in BOOLEAN : AppendAndWrite(h, kind, packed, out)
              \/ \E kind \in Trees : AppendOnly(h, kind, packed)
       PROVE  RejectedCallsAreRetriable
    BY <1>1, <1>3, <1>15 DEF AppendAndWrite, AppendOnly, AppendLeaves
<1>16. ASSUME NEW h, NEW count, Truncate(h, count) PROVE RejectedCallsAreRetriable
    BY <1>3, <1>16 DEF Truncate
<1>17. ASSUME NEW h, NEW kind, NEW size, NEW packed, NEW out,
              BuildBound(h, kind, size, packed, out)
       PROVE  RejectedCallsAreRetriable
    BY <1>1, <1>3, <1>17 DEF BuildBound
<1>18. ASSUME NEW h, NEW packed, NEW index,
              \/ MarkOwned(h, packed, index)
              \/ \E honest \in BOOLEAN : AdoptFrozenWitness(h, packed, index, honest)
       PROVE  RejectedCallsAreRetriable
    BY <1>3, <1>18 DEF MarkOwned, AdoptFrozenWitness
<1>19. ASSUME NEW h, NEW packed, NEW out, UnmarkOwned(h, packed, out)
       PROVE  RejectedCallsAreRetriable
    BY <1>1, <1>3, <1>19 DEF UnmarkOwned
<1>20. CASE UNCHANGED foreignVars
    BY <1>4, <1>20 DEF foreignVars
<1>21. CASE ForeignNext
    BY <1>6, <1>7, <1>8, <1>9, <1>11, <1>12, <1>13, <1>14, <1>15, <1>16, <1>17, <1>18, <1>19,
       <1>21 DEF ForeignNext
<1> QED
    BY <1>20, <1>21

\* Every clean note of every tree was received as it is, and every live handle
\* is one the host was given, after any sequence of calls on any number of
\* trees (trees.rs: curvy_sharded_drain_dirty, the out-pointer checks).
THEOREM CleanNotesWereReceivedHolds == ForeignSpec => []CleanNotesWereReceived
<1>1. ForeignInit => ForeignInv
    BY DEF ForeignInit, ForeignInv, TreesOK, NoOrphans, CleanKnown
<1>2. ForeignInv /\ [ForeignNext]_foreignVars => ForeignInv'
    BY ForeignStep
<1>3. ForeignInv => CleanNotesWereReceived
    BY InvariantIsProperty
<1> QED
    BY <1>1, <1>2, <1>3, PTL DEF ForeignSpec

\* A call that returns anything but Ok changed no tree and created no handle, so
\* it can be retried (trees.rs: "callers can safely retry rejected calls").
THEOREM RejectedCallsAreRetriableHolds ==
    ForeignSpec => [][RejectedCallsAreRetriable]_foreignVars
<1>1. [ForeignNext]_foreignVars => [RejectedCallsAreRetriable]_foreignVars
    BY RejectedStep
<1> QED
    BY <1>1, PTL DEF ForeignSpec
-----------------------------------------------------------------------------
(* The streaming session                                                   *)

ChunkValues == 0..Chunks
CallRecord ==
    [at : {"idle", "matching", "hashing", "reopening", "proving"},
     kind : {"framed", "one-shot", "manifest"}, valid : BOOLEAN,
     file : Seq(ChunkValues), next : Nat \ {0}, hashes : Seq(ChunkValues)]
ProofRecord == [of : Requests, manifest : BOOLEAN, parsed : Seq(ChunkValues)]

\* The type of each variable; a call reads no further than its file.
FlagsTyped == released \in BOOLEAN /\ authenticated \in BOOLEAN /\ overlapped \in BOOLEAN
DataTyped ==
    /\ authenticator \in Seq(ChunkValues) \cup {None}
    /\ recorded \in Seq(ChunkValues) \cup {None}
    /\ proof \in ProofRecord \cup {None}
    /\ cached \in Files
    /\ session \in [Requests -> CallRecord]
    /\ hostActs \in Nat
    /\ \A c \in Requests : session[c].next <= Len(session[c].file) + 1
SessionTyped == FlagsTyped /\ DataTyped

\* One pass at a time hashes, and it has hashed what it has read.
OnePass ==
    /\ \A c, d \in Requests : session[c].at = "hashing" /\ session[d].at = "hashing" => c = d
    /\ \A c \in Requests : session[c].at = "hashing" =>
            /\ authenticator = SubSeq(session[c].file, 1, session[c].next - 1)
            /\ session[c].hashes = authenticator

\* A call reads nothing before its pass.
NothingReadYet ==
    \A c \in Requests :
        session[c].at = "matching" => session[c].next = 1 /\ session[c].hashes = <<>>

\* A framed proof checks its chunks against the hashes of the pinned zkey.
CheckedByPins ==
    \A c \in Requests :
        session[c].at = "proving" /\ session[c].kind # "manifest" => session[c].hashes = Pinned

\* Until the page aborts a proof, whoever feeds one owns it.
FedByItsOwner ==
    hostActs = 0 => \A c \in Requests :
        session[c].at = "proving" => proof # None /\ proof.of = c

\* What the hashes are worth as long as no pass was restarted under another.
Undisturbed ==
    /\ OnePass /\ CheckedByPins
    /\ RecordedHashesAreAuthentic /\ ParsedChunksAreAuthentic

SessionInv ==
    /\ SessionTyped /\ NothingReadYet /\ FedByItsOwner
    /\ ManifestChunksAreTheZkeys /\ NeverWedged
    /\ ~overlapped => Undisturbed
-----------------------------------------------------------------------------
\* The invariant is stronger than the checked property.
LEMMA SessionInvIsProperty == SessionInv => OnlyAuthenticChunksAreParsed
<1> SUFFICES ASSUME SessionInv PROVE OnlyAuthenticChunksAreParsed OBVIOUS
<1>1. SessionTypeOK
    <2>1. \A c \in Requests : session[c].next \in 1..(Len(session[c].file) + 1)
        <3> SUFFICES ASSUME NEW c \in Requests
                     PROVE  session[c].next \in 1..(Len(session[c].file) + 1)
            OBVIOUS
        <3>1. session[c] \in CallRecord BY DEF SessionInv, SessionTyped, FlagsTyped, DataTyped
        <3>2. session[c].next \in Nat \ {0} /\ session[c].file \in Seq(ChunkValues)
            BY <3>1 DEF CallRecord
        <3>3. session[c].next <= Len(session[c].file) + 1 BY DEF SessionInv, SessionTyped, FlagsTyped, DataTyped
        <3> QED BY <3>2, <3>3
    <2>2. \A c \in Requests : session[c].at \in {"idle", "matching", "hashing", "reopening", "proving"}
        BY DEF SessionInv, SessionTyped, FlagsTyped, DataTyped, CallRecord
    <2>3. proof # None => proof.of \in Requests /\ proof.manifest \in BOOLEAN
        BY DEF SessionInv, SessionTyped, FlagsTyped, DataTyped, ProofRecord
    <2> QED BY <2>1, <2>2, <2>3 DEF SessionInv, SessionTyped, FlagsTyped, DataTyped, SessionTypeOK, ChunkValues
<1>2. ~overlapped => PassStartsFromByteZero
    BY DEF SessionInv, Undisturbed, OnePass, PassStartsFromByteZero
<1> QED BY <1>1, <1>2 DEF SessionInv, Undisturbed, OnlyAuthenticChunksAreParsed

\* None is neither a hash list nor a proof, and the pins are chunks.
LEMMA SessionConstants ==
    /\ None \notin Seq(ChunkValues) /\ None \notin ProofRecord
    /\ Pinned \in Seq(ChunkValues) /\ Len(Pinned) = Chunks
    /\ \A i \in 1..Chunks : Pinned[i] = i
    /\ Chunks \in Nat \ {0} /\ Files \subseteq Seq(ChunkValues)
<1>1. Chunks \in Nat \ {0} BY SessionAssumption
<1>2. Pinned \in [1..Chunks -> ChunkValues] BY <1>1 DEF Pinned, ChunkValues
<1>3. Pinned \in Seq(ChunkValues) /\ Len(Pinned) = Chunks BY <1>1, <1>2
<1> QED BY <1>1, <1>3, SessionAssumption DEF Pinned, ChunkValues, ProofRecord

\* A call that goes where nothing is read has nothing to account for.
LEMMA QuietKeeps ==
    ASSUME SessionInv, NEW c \in Requests, NEW job \in CallRecord, Becomes(c, job),
           job.at \in {"idle", "matching", "reopening"},
           job.next <= Len(job.file) + 1,
           job.at = "matching" => job.next = 1 /\ job.hashes = <<>>,
           UNCHANGED <<released, authenticated, recorded, cached, hostActs, overlapped>>,
           \/ session[c].at = "proving" /\ proof' = None
           \/ session[c].at # "proving" /\ proof' = proof,
           \/ authenticator' = authenticator
           \/ session[c].at = "hashing" /\ authenticator' = <<>> /\ ~authenticated
    PROVE  SessionInv'
<1>a. /\ FlagsTyped /\ DataTyped /\ NothingReadYet /\ FedByItsOwner
      /\ ManifestChunksAreTheZkeys /\ NeverWedged
    BY DEF SessionInv, SessionTyped
<1>u. ~overlapped => /\ OnePass /\ CheckedByPins
                     /\ RecordedHashesAreAuthentic /\ ParsedChunksAreAuthentic
    BY DEF SessionInv, Undisturbed
<1>b. /\ session' \in [Requests -> CallRecord] /\ session'[c] = job
      /\ \A d \in Requests \ {c} : session'[d] = session[d]
    BY <1>a DEF Becomes, DataTyped
<1>3. authenticator' \in Seq(ChunkValues) \cup {None}
    <2>1. <<>> \in Seq(ChunkValues) OBVIOUS
    <2>2. authenticator \in Seq(ChunkValues) \cup {None} BY <1>a DEF DataTyped
    <2> QED BY <2>1, <2>2
<1>4. proof' \in ProofRecord \cup {None}
    BY <1>a DEF DataTyped
<1>5. SessionTyped'
    <2>1. \A d \in Requests : session'[d].next <= Len(session'[d].file) + 1
        BY <1>a, <1>b DEF DataTyped
    <2>2. FlagsTyped' BY <1>a DEF FlagsTyped
    <2>3. recorded' \in Seq(ChunkValues) \cup {None} /\ cached' \in Files /\ hostActs' \in Nat
        BY <1>a DEF DataTyped
    <2> QED BY <1>b, <1>3, <1>4, <2>1, <2>2, <2>3 DEF SessionTyped, DataTyped
<1>6. NothingReadYet' BY <1>a, <1>b DEF NothingReadYet
<1>7. ~overlapped => OnePass' /\ CheckedByPins'
    BY <1>b, <1>u DEF OnePass, CheckedByPins
<1>8. /\ ManifestChunksAreTheZkeys'
      /\ ~overlapped => RecordedHashesAreAuthentic' /\ ParsedChunksAreAuthentic'
    BY <1>a, <1>u DEF ManifestChunksAreTheZkeys, RecordedHashesAreAuthentic, ParsedChunksAreAuthentic
<1>9. FedByItsOwner'
    <2> SUFFICES ASSUME hostActs = 0, NEW d \in Requests, session'[d].at = "proving"
                 PROVE  proof' # None /\ proof'.of = d
        BY DEF FedByItsOwner
    <2>1. d # c /\ session[d].at = "proving" BY <1>b
    <2>2. proof # None /\ proof.of = d BY <1>a, <2>1 DEF FedByItsOwner
    <2>3. session[c].at # "proving" BY <1>a, <2>1, <2>2 DEF FedByItsOwner
    <2> QED BY <2>2, <2>3
<1>10. NeverWedged'
    <2>1. proof' # None => session'[proof'.of].at = "proving"
        BY <1>a, <1>b DEF NeverWedged, DataTyped, ProofRecord
    <2>2. authenticator' = None <=> authenticated'
        <3>1. <<>> \in Seq(ChunkValues) OBVIOUS
        <3> QED BY <1>a, <3>1, SessionConstants DEF NeverWedged
    <2> QED BY <2>1, <2>2 DEF NeverWedged
<1> QED BY <1>5, <1>6, <1>7, <1>8, <1>9, <1>10 DEF SessionInv, Undisturbed

\* A call that gives up.
LEMMA RejectKeeps ==
    ASSUME SessionInv, NEW c \in Requests, Rejects(c),
           UNCHANGED <<released, authenticated, recorded, cached, hostActs, overlapped>>,
           \/ session[c].at = "proving" /\ proof' = None
           \/ session[c].at # "proving" /\ proof' = proof,
           \/ authenticator' = authenticator
           \/ session[c].at = "hashing" /\ authenticator' = <<>> /\ ~authenticated
    PROVE  SessionInv'
<1>1. /\ NoCall \in CallRecord /\ NoCall.at = "idle"
      /\ NoCall.next = 1 /\ NoCall.file = <<>>
    BY DEF NoCall, FreshCall, CallAtStart, CallRecord
<1>2. NoCall.next <= Len(NoCall.file) + 1 BY <1>1
<1>3. Becomes(c, NoCall) BY DEF Rejects
<1> QED BY <1>1, <1>2, <1>3, QuietKeeps

\* A call that only moves on, to where nothing is read.
LEMMA ReachKeeps ==
    ASSUME SessionInv, NEW c \in Requests, Reaches(c, "reopening"), session[c].at = "matching",
           UNCHANGED <<streamingProver, recorded, cached, hostActs, overlapped>>
    PROVE  SessionInv'
<1> DEFINE job == [session[c] EXCEPT !.at = "reopening"]
<1>1. session[c] \in CallRecord /\ session[c].next <= Len(session[c].file) + 1
    BY DEF SessionInv, SessionTyped, DataTyped
<1>2. /\ job \in CallRecord /\ job.at = "reopening" /\ job.next = session[c].next
      /\ job.file = session[c].file
    BY <1>1 DEF CallRecord
<1>3. Becomes(c, job) BY DEF Reaches
<1> HIDE DEF job
<1> QED BY <1>1, <1>2, <1>3, QuietKeeps DEF streamingProver

\* A call that starts.
LEMMA StartKeeps ==
    ASSUME SessionInv, NEW c \in Requests, NEW kind \in {"framed", "one-shot", "manifest"},
           NEW valid \in BOOLEAN, StartProof(c, kind, valid)
    PROVE  SessionInv'
<1> DEFINE at == IF kind = "manifest" \/ HashesAreKept THEN "reopening" ELSE "matching"
           job == FreshCall(at, kind, valid)
<1>1. /\ job \in CallRecord /\ job.at = at /\ job.next = 1 /\ job.file = <<>>
      /\ job.hashes = <<>> /\ at \in {"matching", "reopening"}
    <2>1. at \in {"matching", "reopening"} OBVIOUS
    <2> HIDE DEF at
    <2>2. <<>> \in Seq(ChunkValues) OBVIOUS
    <2> QED BY <2>1, <2>2 DEF CallRecord, FreshCall, CallAtStart
<1>2. Becomes(c, job) /\ session[c].at = "idle" BY DEF StartProof
<1>3. UNCHANGED <<streamingProver, recorded, cached, hostActs, overlapped>> BY DEF StartProof
<1> HIDE DEF job, at
<1>4. job.next <= Len(job.file) + 1 BY <1>1
<1> QED BY <1>1, <1>2, <1>3, <1>4, QuietKeeps DEF streamingProver

\* The pass begins: nothing was hashed, and nobody else hashes.
LEMMA PassBegins ==
    ASSUME SessionInv, NEW c \in Requests, AuthenticateResponse(c)
    PROVE  SessionInv'
<1>a. /\ FlagsTyped /\ DataTyped /\ NothingReadYet /\ FedByItsOwner
      /\ ManifestChunksAreTheZkeys /\ NeverWedged
    BY DEF SessionInv, SessionTyped
<1>u. ~overlapped => /\ OnePass /\ CheckedByPins
                     /\ RecordedHashesAreAuthentic /\ ParsedChunksAreAuthentic
    BY DEF SessionInv, Undisturbed
<1>1. session[c].at = "matching" BY DEF AuthenticateResponse
<1>2. CASE HashesAreKept /\ Reaches(c, "reopening") /\ UNCHANGED <<streamingProver, overlapped>>
    BY <1>1, <1>2, ReachKeeps DEF AuthenticateResponse
<1>3. CASE Rejects(c) /\ UNCHANGED <<streamingProver, overlapped>>
    BY <1>1, <1>3, RejectKeeps DEF AuthenticateResponse, streamingProver
<1>4. CASE CanReset /\ Reset /\ Becomes(c, [session[c] EXCEPT !.at = "hashing", !.file = cached])
    <2> DEFINE job == [session[c] EXCEPT !.at = "hashing", !.file = cached]
    <2>1. cached \in Seq(ChunkValues) /\ session[c] \in CallRecord
        BY <1>a, SessionConstants DEF DataTyped
    <2>2. session[c].next = 1 /\ session[c].hashes = <<>> BY <1>a, <1>1 DEF NothingReadYet
    <2>3. /\ job \in CallRecord /\ job.at = "hashing" /\ job.next = 1 /\ job.file = cached
          /\ job.hashes = <<>>
        BY <2>1, <2>2 DEF CallRecord
    <2>4. Becomes(c, job) BY <1>4
    <2> HIDE DEF job
    <2>5. /\ session' \in [Requests -> CallRecord] /\ session'[c] = job
          /\ \A d \in Requests \ {c} : session'[d] = session[d]
        BY <1>a, <2>3, <2>4 DEF Becomes, DataTyped
    <2>6. /\ proof = None /\ proof' = None /\ authenticator' = <<>> /\ authenticated' = FALSE
          /\ released' = released /\ recorded' = recorded /\ cached' = cached
          /\ hostActs' = hostActs /\ overlapped' = (overlapped \/ PassUnderWay)
        BY <1>4 DEF CanReset, Reset, AuthenticateResponse
    <2>e. ~overlapped' => ~overlapped /\ \A d \in Requests : session[d].at # "hashing"
        BY <2>6 DEF PassUnderWay
    <2>7. FlagsTyped' BY <1>a, <2>6 DEF FlagsTyped, PassUnderWay
    <2>8. \A d \in Requests : session'[d].next <= Len(session'[d].file) + 1
        <3>1. 1 <= Len(job.file) + 1 BY <2>1, <2>3
        <3> QED BY <1>a, <2>3, <2>5, <3>1 DEF DataTyped
    <2>9. DataTyped'
        <3>1. <<>> \in Seq(ChunkValues) OBVIOUS
        <3> QED BY <1>a, <2>5, <2>6, <2>8, <3>1 DEF DataTyped
    <2>10. ~overlapped' => OnePass'
        <3>1. SubSeq(cached, 1, 1 - 1) = <<>> BY <2>1
        <3> QED BY <2>e, <2>3, <2>5, <2>6, <3>1 DEF OnePass
    <2>11. NothingReadYet' BY <1>a, <2>3, <2>5 DEF NothingReadYet
    <2>12. FedByItsOwner'
        BY <1>a, <2>3, <2>5, <2>6 DEF FedByItsOwner
    <2>13. /\ ManifestChunksAreTheZkeys'
           /\ ~overlapped' => CheckedByPins' /\ RecordedHashesAreAuthentic' /\ ParsedChunksAreAuthentic'
        BY <1>u, <2>e, <2>3, <2>5, <2>6
           DEF ManifestChunksAreTheZkeys, CheckedByPins, RecordedHashesAreAuthentic, ParsedChunksAreAuthentic
    <2>14. NeverWedged'
        <3>1. <<>> \in Seq(ChunkValues) OBVIOUS
        <3> QED BY <2>6, <3>1, SessionConstants DEF NeverWedged
    <2> QED BY <2>7, <2>9, <2>10, <2>11, <2>12, <2>13, <2>14 DEF SessionInv, Undisturbed, SessionTyped
<1> QED BY <1>2, <1>3, <1>4 DEF AuthenticateResponse

\* What was read of a file grows by its next element.
LEMMA ReadOn ==
    ASSUME NEW file \in Seq(ChunkValues), NEW next \in Nat \ {0}, next <= Len(file)
    PROVE  /\ file[next] \in ChunkValues /\ SubSeq(file, 1, next) \in Seq(ChunkValues)
           /\ SubSeq(file, 1, next) = Append(SubSeq(file, 1, next - 1), file[next])
<1>1. file[next] \in ChunkValues OBVIOUS
<1> DEFINE s == SubSeq(file, 1, next - 1)  t == SubSeq(file, 1, next)  e == file[next]
<1>2. /\ s \in Seq(ChunkValues) /\ Len(s) = next - 1
      /\ \A i \in 1..(next - 1) : s[i] = file[i]
    OBVIOUS
<1>3. /\ t \in Seq(ChunkValues) /\ Len(t) = next /\ \A i \in 1..next : t[i] = file[i]
    OBVIOUS
<1> HIDE DEF s, t
<1>4. /\ Append(s, e) \in Seq(ChunkValues) /\ Len(Append(s, e)) = next
      /\ \A i \in 1..next : Append(s, e)[i] = file[i]
    BY <1>1, <1>2
<1>5. t = Append(s, e) BY <1>3, <1>4, SeqEqual
<1> QED BY <1>1, <1>3, <1>5 DEF s, t

\* The hasher and the call take the same chunk.
LEMMA ChunkKeeps ==
    ASSUME SessionInv, NEW c \in Requests, AuthenticateChunk(c)
    PROVE  SessionInv'
<1>a. /\ FlagsTyped /\ DataTyped /\ NothingReadYet /\ FedByItsOwner
      /\ ManifestChunksAreTheZkeys /\ NeverWedged
    BY DEF SessionInv, SessionTyped
<1>u. ~overlapped => /\ OnePass /\ CheckedByPins
                     /\ RecordedHashesAreAuthentic /\ ParsedChunksAreAuthentic
    BY DEF SessionInv, Undisturbed
<1> DEFINE file == session[c].file  next == session[c].next  chunk == file[next]
<1>1. /\ session[c] \in CallRecord /\ file \in Seq(ChunkValues) /\ next \in Nat \ {0}
      /\ session[c].hashes \in Seq(ChunkValues)
    BY <1>a DEF DataTyped, CallRecord
<1>2. session[c].at = "hashing" /\ next <= Len(file) BY DEF AuthenticateChunk
<1>3. ~overlapped => authenticator = SubSeq(file, 1, next - 1) /\ session[c].hashes = authenticator
    BY <1>u, <1>2 DEF OnePass
<1>n. CASE authenticator = None
    BY <1>2, <1>n, RejectKeeps DEF AuthenticateChunk
<1>s. SUFFICES ASSUME authenticator # None PROVE SessionInv'
    BY <1>n
<1>4. authenticator \in Seq(ChunkValues) BY <1>a, <1>s DEF DataTyped
<1> DEFINE job == [session[c] EXCEPT !.hashes = Append(@, chunk), !.next = @ + 1]
<1>5. /\ authenticator' = Append(authenticator, chunk) /\ Becomes(c, job)
      /\ UNCHANGED <<released, authenticated, proof, recorded, cached, hostActs, overlapped>>
    BY <1>s DEF AuthenticateChunk
<1>6. /\ chunk \in ChunkValues /\ SubSeq(file, 1, next) \in Seq(ChunkValues)
      /\ SubSeq(file, 1, next) = Append(SubSeq(file, 1, next - 1), chunk)
    <2> HIDE DEF file, next
    <2> QED BY <1>1, <1>2, ReadOn DEF chunk
<1>7. /\ job \in CallRecord /\ job.at = "hashing" /\ job.file = file /\ job.next = next + 1
      /\ job.hashes = Append(session[c].hashes, chunk) /\ job.kind = session[c].kind
    <2> DEFINE longer == Append(session[c].hashes, chunk)  n == next + 1
    <2>1. longer \in Seq(ChunkValues) /\ n \in Nat \ {0}
        <3> DEFINE hashes == session[c].hashes
        <3>1. hashes \in Seq(ChunkValues) BY <1>1
        <3> HIDE DEF file, next, chunk, hashes
        <3>2. Append(hashes, chunk) \in Seq(ChunkValues) BY <1>6, <3>1
        <3> QED BY <1>1, <3>2 DEF hashes
    <2>2. job = [session[c] EXCEPT !.hashes = longer, !.next = n] OBVIOUS
    <2> HIDE DEF job, longer, n
    <2>3. /\ job \in CallRecord /\ job.at = "hashing" /\ job.file = file /\ job.next = n
          /\ job.hashes = longer /\ job.kind = session[c].kind
        BY <1>1, <1>2, <2>1, <2>2 DEF CallRecord
    <2> QED BY <2>3 DEF longer, n
<1> HIDE DEF job
<1>8. /\ session' \in [Requests -> CallRecord] /\ session'[c] = job
      /\ \A d \in Requests \ {c} : session'[d] = session[d]
    BY <1>a, <1>5, <1>7 DEF Becomes, DataTyped
<1>9. /\ authenticator' \in Seq(ChunkValues)
      /\ ~overlapped => authenticator' = SubSeq(file, 1, next)
    <2> HIDE DEF file, next, chunk
    <2> QED BY <1>3, <1>4, <1>5, <1>6
<1>10. FlagsTyped' BY <1>a, <1>5 DEF FlagsTyped
<1>11. \A d \in Requests : session'[d].next <= Len(session'[d].file) + 1
    <2>1. next + 1 <= Len(file) + 1 BY <1>1, <1>2
    <2> HIDE DEF file, next
    <2> QED BY <1>a, <1>7, <1>8, <2>1 DEF DataTyped
<1>12. DataTyped' BY <1>a, <1>5, <1>8, <1>9, <1>11 DEF DataTyped
<1>13. ASSUME ~overlapped PROVE OnePass'
    <2>1. SubSeq(job.file, 1, job.next - 1) = authenticator'
        <3>1. (next + 1) - 1 = next BY <1>1
        <3> HIDE DEF file, next
        <3> QED BY <1>7, <1>9, <1>13, <3>1
    <2>2. \A d \in Requests \ {c} : session[d].at # "hashing" BY <1>u, <1>2, <1>13 DEF OnePass
    <2>3. job.hashes = authenticator' BY <1>3, <1>5, <1>7, <1>13
    <2> QED BY <1>7, <1>8, <2>1, <2>2, <2>3 DEF OnePass
<1>14. NothingReadYet' /\ FedByItsOwner' /\ ManifestChunksAreTheZkeys'
    BY <1>a, <1>2, <1>5, <1>7, <1>8 DEF NothingReadYet, FedByItsOwner, ManifestChunksAreTheZkeys
<1>15. ~overlapped => CheckedByPins' /\ RecordedHashesAreAuthentic' /\ ParsedChunksAreAuthentic'
    BY <1>u, <1>2, <1>5, <1>7, <1>8
       DEF CheckedByPins, RecordedHashesAreAuthentic, ParsedChunksAreAuthentic
<1>16. NeverWedged'
    <2>1. proof' # None => session'[proof'.of].at = "proving"
        BY <1>a, <1>2, <1>5, <1>7, <1>8 DEF NeverWedged, DataTyped, ProofRecord
    <2>2. authenticator' = None <=> authenticated'
        BY <1>a, <1>s, <1>5, <1>9, SessionConstants DEF NeverWedged
    <2> QED BY <2>1, <2>2 DEF NeverWedged
<1> QED BY <1>5, <1>10, <1>12, <1>13, <1>14, <1>15, <1>16 DEF SessionInv, Undisturbed, SessionTyped

\* A pass that hashed the whole pinned zkey records its hashes.
LEMMA FinishKeeps ==
    ASSUME SessionInv, NEW c \in Requests, FinishAuthentication(c)
    PROVE  SessionInv'
<1>a. /\ FlagsTyped /\ DataTyped /\ NothingReadYet /\ FedByItsOwner
      /\ ManifestChunksAreTheZkeys /\ NeverWedged
    BY DEF SessionInv, SessionTyped
<1>u. ~overlapped => /\ OnePass /\ CheckedByPins
                     /\ RecordedHashesAreAuthentic /\ ParsedChunksAreAuthentic
    BY DEF SessionInv, Undisturbed
<1> DEFINE file == session[c].file  next == session[c].next
<1>1. /\ session[c] \in CallRecord /\ file \in Seq(ChunkValues) /\ next \in Nat \ {0}
      /\ next <= Len(file) + 1 /\ session[c].hashes \in Seq(ChunkValues)
    BY <1>a DEF DataTyped, CallRecord
<1>2. session[c].at = "hashing" /\ next > Len(file)
      /\ UNCHANGED <<released, proof, cached, hostActs, overlapped>>
    BY DEF FinishAuthentication
<1>3. ~overlapped => session[c].hashes = authenticator
    BY <1>u, <1>2 DEF OnePass
<1>n. CASE authenticator = None
    <2>1. Rejects(c) /\ UNCHANGED <<authenticated, recorded, authenticator>>
        BY <1>n DEF FinishAuthentication
    <2> QED BY <1>2, <2>1, RejectKeeps
<1>4. SUFFICES ASSUME authenticator # None PROVE SessionInv'
    BY <1>n
<1>5. ~authenticated BY <1>a, <1>4 DEF NeverWedged
<1>6. CASE authenticator # Pinned
    <2>1. /\ Rejects(c) /\ UNCHANGED <<authenticated, recorded>> /\ authenticator' = <<>>
        BY <1>4, <1>6 DEF FinishAuthentication, AfterFinish
    <2> QED BY <1>2, <1>5, <2>1, RejectKeeps
<1>7. CASE authenticator = Pinned
    <2> DEFINE job == [session[c] EXCEPT !.at = "reopening"]
    <2>1. /\ authenticated' = TRUE /\ recorded' = session[c].hashes /\ Becomes(c, job)
          /\ authenticator' = None
        BY <1>4, <1>7 DEF FinishAuthentication, AfterFinish, Reaches
    <2>2. job \in CallRecord /\ job.at = "reopening" /\ job.next = next /\ job.file = file
        BY <1>1 DEF CallRecord
    <2> HIDE DEF job
    <2>3. /\ session' \in [Requests -> CallRecord] /\ session'[c] = job
          /\ \A d \in Requests \ {c} : session'[d] = session[d]
        BY <1>a, <2>1, <2>2 DEF Becomes, DataTyped
    <2>4. \A d \in Requests : session'[d].next <= Len(session'[d].file) + 1
        BY <1>a, <1>1, <2>2, <2>3 DEF DataTyped
    <2>5. FlagsTyped' BY <1>a, <1>2, <2>1 DEF FlagsTyped
    <2>6. DataTyped' BY <1>a, <1>1, <1>2, <2>1, <2>3, <2>4, SessionConstants DEF DataTyped
    <2>7. ~overlapped => \A d \in Requests : session'[d].at # "hashing"
        BY <1>u, <1>2, <2>2, <2>3 DEF OnePass
    <2>8. ~overlapped => OnePass' /\ CheckedByPins'
        BY <1>u, <1>2, <2>2, <2>3, <2>7 DEF OnePass, CheckedByPins
    <2>9. NothingReadYet' /\ FedByItsOwner' /\ ManifestChunksAreTheZkeys'
        BY <1>a, <1>2, <2>2, <2>3 DEF NothingReadYet, FedByItsOwner, ManifestChunksAreTheZkeys
    <2>10. ~overlapped => RecordedHashesAreAuthentic' /\ ParsedChunksAreAuthentic'
        BY <1>u, <1>2, <1>3, <1>7, <2>1 DEF RecordedHashesAreAuthentic, ParsedChunksAreAuthentic
    <2>11. NeverWedged'
        <3>1. proof' # None => session'[proof'.of].at = "proving"
            BY <1>a, <1>2, <2>2, <2>3 DEF NeverWedged, DataTyped, ProofRecord
        <3> QED BY <2>1, <3>1 DEF NeverWedged
    <2> QED BY <2>5, <2>6, <2>8, <2>9, <2>10, <2>11, <1>2 DEF SessionInv, Undisturbed, SessionTyped
<1> QED BY <1>6, <1>7

\* A proof that begins checks its chunks against the recorded hashes.
LEMMA BeginKeeps ==
    ASSUME SessionInv, NEW c \in Requests, Begin(c)
    PROVE  SessionInv'
<1>a. /\ FlagsTyped /\ DataTyped /\ NothingReadYet /\ FedByItsOwner
      /\ ManifestChunksAreTheZkeys /\ NeverWedged
    BY DEF SessionInv, SessionTyped
<1>u. ~overlapped => /\ OnePass /\ CheckedByPins
                     /\ RecordedHashesAreAuthentic /\ ParsedChunksAreAuthentic
    BY DEF SessionInv, Undisturbed
<1> DEFINE kind == session[c].kind
           framed == kind # "manifest"
           ready == (framed => HashesAreKept) /\ CheckCanBegin(framed)
<1>1. session[c].at = "reopening" /\ session[c] \in CallRecord
      /\ UNCHANGED <<authenticator, authenticated, recorded, cached, hostActs, overlapped>>
    BY <1>a DEF Begin, DataTyped
<1>2. CASE ~(ready /\ session[c].valid)
    <2>1. Rejects(c) /\ UNCHANGED <<released, proof>> BY <1>2 DEF Begin, AfterFailedBegin
    <2> QED BY <1>1, <2>1, RejectKeeps
<1>3. CASE ready /\ session[c].valid
    <2> DEFINE hashes == IF framed THEN recorded ELSE <<>>
               job == CallAtStart("proving", kind, TRUE, cached, hashes)
               new == [of |-> c, manifest |-> ~framed, parsed |-> <<>>]
    <2>1. proof' = new /\ Becomes(c, job) /\ proof = None /\ released' = (kind # "framed")
        BY <1>3 DEF Begin, CheckCanBegin
    <2>2. framed => recorded \in Seq(ChunkValues) /\ (~overlapped => recorded = Pinned)
        BY <1>a, <1>u, <1>3 DEF HashesAreKept, DataTyped, RecordedHashesAreAuthentic
    <2>3. hashes \in Seq(ChunkValues) /\ (framed /\ ~overlapped => hashes = Pinned)
        <3>1. <<>> \in Seq(ChunkValues) OBVIOUS
        <3> QED BY <2>2, <3>1
    <2>4. cached \in Seq(ChunkValues) BY <1>a, SessionConstants DEF DataTyped
    <2> HIDE DEF hashes
    <2>5. /\ job \in CallRecord /\ job.at = "proving" /\ job.file = cached /\ job.next = 1
          /\ job.hashes = hashes /\ job.kind = kind
        <3>1. kind \in {"framed", "one-shot", "manifest"} BY <1>1 DEF CallRecord
        <3> HIDE DEF kind
        <3> QED BY <2>3, <2>4, <3>1 DEF CallRecord, CallAtStart
    <2> HIDE DEF job
    <2>6. /\ session' \in [Requests -> CallRecord] /\ session'[c] = job
          /\ \A d \in Requests \ {c} : session'[d] = session[d]
        BY <1>a, <2>1, <2>5 DEF Becomes, DataTyped
    <2>7. new \in ProofRecord /\ new.of = c /\ new.parsed = <<>>
        <3>1. <<>> \in Seq(ChunkValues) /\ (~framed) \in BOOLEAN OBVIOUS
        <3> HIDE DEF framed
        <3> QED BY <3>1 DEF ProofRecord
    <2> HIDE DEF new
    <2>8. \A d \in Requests : session'[d].next <= Len(session'[d].file) + 1
        <3>1. 1 <= Len(cached) + 1 BY <2>4
        <3> QED BY <1>a, <2>5, <2>6, <3>1 DEF DataTyped
    <2>9. released' \in BOOLEAN BY <2>1
    <2>10. FlagsTyped' BY <1>a, <1>1, <2>9 DEF FlagsTyped
    <2>11. DataTyped' BY <1>a, <1>1, <2>1, <2>6, <2>7, <2>8 DEF DataTyped
    <2>12. ~overlapped => OnePass' BY <1>u, <1>1, <2>5, <2>6 DEF OnePass
    <2>13. NothingReadYet' BY <1>a, <2>5, <2>6 DEF NothingReadYet
    <2>14. ~overlapped => CheckedByPins' BY <1>u, <2>3, <2>5, <2>6 DEF CheckedByPins
    <2>15. FedByItsOwner'
        <3> SUFFICES ASSUME hostActs = 0, NEW d \in Requests, session'[d].at = "proving"
                     PROVE  proof' # None /\ proof'.of = d
            BY <1>1 DEF FedByItsOwner
        <3>1. d = c BY <1>a, <2>1, <2>6 DEF FedByItsOwner
        <3> QED BY <2>1, <2>7, <3>1, SessionConstants
    <2>16. ~overlapped => RecordedHashesAreAuthentic' BY <1>u, <1>1 DEF RecordedHashesAreAuthentic
    <2>17. ParsedChunksAreAuthentic' /\ ManifestChunksAreTheZkeys'
        BY <2>1, <2>7 DEF ParsedChunksAreAuthentic, ManifestChunksAreTheZkeys
    <2>18. NeverWedged'
        BY <1>a, <1>1, <2>1, <2>5, <2>6, <2>7 DEF NeverWedged
    <2> QED BY <2>10, <2>11, <2>12, <2>13, <2>14, <2>15, <2>16, <2>17, <2>18, <1>1
            DEF SessionInv, Undisturbed, SessionTyped
<1> QED BY <1>2, <1>3

\* A parsed sequence grows by a chunk.
LEMMA ParsedOn ==
    ASSUME NEW s \in Seq(ChunkValues), NEW e \in ChunkValues
    PROVE  /\ Append(s, e) \in Seq(ChunkValues)
           /\ \A i \in 1..Len(Append(s, e)) :
                Append(s, e)[i] = e \/ (i \in 1..Len(s) /\ Append(s, e)[i] = s[i])
<1>1. Append(s, e) \in Seq(ChunkValues) /\ Len(Append(s, e)) = Len(s) + 1 BY DEF ChunkValues
<1>2. Append(s, e)[Len(s) + 1] = e OBVIOUS
<1>3. \A i \in 1..Len(s) : Append(s, e)[i] = s[i] OBVIOUS
<1>4. Len(s) \in Nat OBVIOUS
<1> DEFINE t == Append(s, e)
<1> HIDE DEF t
<1>5. \A i \in 1..Len(t) : t[i] = e \/ (i \in 1..Len(s) /\ t[i] = s[i])
    BY <1>1, <1>2, <1>3, <1>4 DEF t
<1> QED BY <1>1, <1>5 DEF t

\* A chunk that is passed on is one of the zkey.
LEMMA PushKeeps ==
    ASSUME SessionInv, NEW c \in Requests, PushChunk(c)
    PROVE  SessionInv'
<1>a. /\ FlagsTyped /\ DataTyped /\ NothingReadYet /\ FedByItsOwner
      /\ ManifestChunksAreTheZkeys /\ NeverWedged
    BY DEF SessionInv, SessionTyped
<1>u. ~overlapped => /\ OnePass /\ CheckedByPins
                     /\ RecordedHashesAreAuthentic /\ ParsedChunksAreAuthentic
    BY DEF SessionInv, Undisturbed
<1> DEFINE file == session[c].file  index == session[c].next  chunk == file[index]
           manifest == session[c].kind = "manifest"
           fed == proof # None /\ proof.manifest = manifest
           due == fed /\ chunk = Len(proof.parsed) + 1
           checked == IF manifest THEN due ELSE ChunkIsChecked(session[c].hashes, index, chunk)
           job == [session[c] EXCEPT !.next = @ + 1]
           longer == Append(proof.parsed, chunk)
<1>1. /\ session[c] \in CallRecord /\ file \in Seq(ChunkValues) /\ index \in Nat \ {0}
    BY <1>a DEF DataTyped, CallRecord
<1>2. /\ session[c].at = "proving" /\ index <= Len(file)
      /\ UNCHANGED <<released, authenticator, authenticated, recorded, cached, hostActs, overlapped>>
    BY DEF PushChunk
<1>3. CASE EndsProving(c)
    BY <1>2, <1>3, RejectKeeps DEF EndsProving
<1>4. CASE /\ checked /\ fed
           /\ proof' = [proof EXCEPT !.parsed = longer] /\ Becomes(c, job)
    <2>1. proof # None /\ proof \in ProofRecord BY <1>a, <1>4 DEF DataTyped
    <2>2. proof.parsed \in Seq(ChunkValues) BY <2>1 DEF ProofRecord
    <2>3. chunk \in ChunkValues
        <3> HIDE DEF file, index
        <3> QED BY <1>1, <1>2, ReadOn DEF chunk
    <2>4. ~overlapped => chunk # 0
        <3>1. CASE manifest
            <4>1. chunk = Len(proof.parsed) + 1 BY <1>4, <3>1
            <4> HIDE DEF chunk
            <4> QED BY <2>2, <4>1
        <3>2. CASE ~manifest
            <4> SUFFICES ASSUME ~overlapped PROVE chunk # 0 OBVIOUS
            <4>1. session[c].hashes = Pinned BY <1>u, <1>2, <3>2 DEF CheckedByPins
            <4>2. index <= Len(Pinned) /\ Pinned[index] = chunk
                BY <1>4, <3>2, <4>1 DEF ChunkIsChecked
            <4>3. index \in 1..Chunks
                <5> HIDE DEF index
                <5> QED BY <1>1, <4>2, SessionConstants
            <4>4. Pinned[index] = index BY <4>3, SessionConstants
            <4> HIDE DEF index, chunk
            <4> QED BY <4>2, <4>3, <4>4
        <3> QED BY <3>1, <3>2
    <2>5. /\ longer \in Seq(ChunkValues)
          /\ \A i \in 1..Len(longer) :
                \/ longer[i] = chunk
                \/ i \in 1..Len(proof.parsed) /\ longer[i] = proof.parsed[i]
        <3> DEFINE parsed == proof.parsed
        <3>1. parsed \in Seq(ChunkValues) BY <2>2
        <3> HIDE DEF chunk, parsed
        <3>2. /\ Append(parsed, chunk) \in Seq(ChunkValues)
              /\ \A i \in 1..Len(Append(parsed, chunk)) :
                    \/ Append(parsed, chunk)[i] = chunk
                    \/ i \in 1..Len(parsed) /\ Append(parsed, chunk)[i] = parsed[i]
            BY <2>3, <3>1, ParsedOn
        <3> QED BY <3>2 DEF parsed
    <2> HIDE DEF longer
    <2>6. proof' \in ProofRecord /\ proof'.of = proof.of /\ proof'.parsed = longer
          /\ proof'.manifest = proof.manifest
        BY <1>4, <2>1, <2>5 DEF ProofRecord
    <2>7. /\ job \in CallRecord /\ job.at = "proving" /\ job.next = index + 1
          /\ job.file = file /\ job.hashes = session[c].hashes /\ job.kind = session[c].kind
        <3> DEFINE n == index + 1
        <3>1. n \in Nat \ {0} BY <1>1
        <3> HIDE DEF n
        <3>2. job = [session[c] EXCEPT !.next = n] BY DEF n
        <3> HIDE DEF job
        <3>3. /\ job \in CallRecord /\ job.at = "proving" /\ job.next = n
              /\ job.file = file /\ job.hashes = session[c].hashes
              /\ job.kind = session[c].kind
            BY <1>1, <1>2, <3>1, <3>2 DEF CallRecord
        <3> QED BY <3>3 DEF n
    <2>8. /\ session' \in [Requests -> CallRecord] /\ session'[c] = job
          /\ \A d \in Requests \ {c} : session'[d] = session[d]
        <3> HIDE DEF job
        <3> QED BY <1>a, <1>4, <2>7 DEF Becomes, DataTyped
    <2> HIDE DEF job
    <2>9. FlagsTyped' BY <1>a, <1>2 DEF FlagsTyped
    <2>10. \A d \in Requests : session'[d].next <= Len(session'[d].file) + 1
        <3>1. index + 1 <= Len(file) + 1
            <4> HIDE DEF index, file
            <4> QED BY <1>1, <1>2
        <3> HIDE DEF index, file
        <3> QED BY <1>a, <2>7, <2>8, <3>1 DEF DataTyped
    <2>11. DataTyped' BY <1>a, <1>2, <2>6, <2>8, <2>10 DEF DataTyped
    <2>12. ~overlapped => OnePass' /\ CheckedByPins'
        BY <1>u, <1>2, <2>7, <2>8 DEF OnePass, CheckedByPins
    <2>13. NothingReadYet' BY <1>a, <1>2, <2>7, <2>8 DEF NothingReadYet
    <2>14. FedByItsOwner'
        <3> SUFFICES ASSUME hostActs = 0, NEW d \in Requests, session'[d].at = "proving"
                     PROVE  proof' # None /\ proof'.of = d
            BY <1>2 DEF FedByItsOwner
        <3>1. session[d].at = "proving" BY <1>2, <2>8
        <3> QED BY <1>a, <2>6, <3>1, SessionConstants DEF FedByItsOwner
    <2>15. ~overlapped => RecordedHashesAreAuthentic' BY <1>u, <1>2 DEF RecordedHashesAreAuthentic
    <2>16. ASSUME ~overlapped PROVE ParsedChunksAreAuthentic'
        <3>1. \A i \in 1..Len(proof.parsed) : proof.parsed[i] # 0
            BY <1>u, <2>1, <2>16 DEF ParsedChunksAreAuthentic
        <3> HIDE DEF chunk
        <3>2. \A i \in 1..Len(longer) : longer[i] # 0 BY <2>4, <2>5, <2>16, <3>1
        <3> QED BY <2>6, <3>2 DEF ParsedChunksAreAuthentic
    <2>m. ManifestChunksAreTheZkeys'
        <3> SUFFICES ASSUME proof.manifest PROVE \A i \in 1..Len(longer) : longer[i] = i
            BY <2>6 DEF ManifestChunksAreTheZkeys
        <3> DEFINE parsed == proof.parsed
        <3>1. chunk = Len(parsed) + 1 BY <1>4
        <3>2. \A i \in 1..Len(parsed) : parsed[i] = i
            BY <1>a, <2>1 DEF ManifestChunksAreTheZkeys
        <3>3. longer = Append(parsed, chunk) BY DEF longer
        <3>4. parsed \in Seq(ChunkValues) BY <2>2
        <3> HIDE DEF chunk, parsed
        <3>5. /\ Len(Append(parsed, chunk)) = Len(parsed) + 1
              /\ Append(parsed, chunk)[Len(parsed) + 1] = chunk
              /\ \A i \in 1..Len(parsed) : Append(parsed, chunk)[i] = parsed[i]
            BY <3>4
        <3>6. Len(parsed) \in Nat BY <3>4
        <3> QED BY <3>1, <3>2, <3>3, <3>5, <3>6
    <2>17. NeverWedged'
        BY <1>a, <1>2, <2>1, <2>6, <2>7, <2>8 DEF NeverWedged, ProofRecord
    <2> QED BY <2>9, <2>11, <2>12, <2>13, <2>14, <2>15, <2>16, <2>m, <2>17, <1>2
            DEF SessionInv, Undisturbed, SessionTyped
<1>5. \/ EndsProving(c)
      \/ checked /\ fed /\ proof' = [proof EXCEPT !.parsed = longer] /\ Becomes(c, job)
    BY DEF PushChunk
<1> HIDE DEF checked, fed, longer, job
<1> QED BY <1>3, <1>4, <1>5

\* The page aborts a proof, resets the authentication; the entry is replaced.
LEMMA PageKeeps ==
    ASSUME SessionInv, AbortProof \/ ResetZkeyAuthentication \/ ReplaceCached
    PROVE  SessionInv'
<1>a. /\ FlagsTyped /\ DataTyped /\ NothingReadYet /\ FedByItsOwner
      /\ ManifestChunksAreTheZkeys /\ NeverWedged
    BY DEF SessionInv, SessionTyped
<1>u. ~overlapped => /\ OnePass /\ CheckedByPins
                     /\ RecordedHashesAreAuthentic /\ ParsedChunksAreAuthentic
    BY DEF SessionInv, Undisturbed
<1>1. CASE AbortProof
    <2>1. /\ proof' = None /\ hostActs' = hostActs + 1
          /\ UNCHANGED <<released, authenticator, authenticated, recorded, cached, session, overlapped>>
        BY <1>1 DEF AbortProof
    <2>2. hostActs' \in Nat /\ hostActs' # 0 BY <1>a, <2>1 DEF DataTyped
    <2>3. FlagsTyped' BY <1>a, <2>1 DEF FlagsTyped
    <2>4. DataTyped' BY <1>a, <2>1, <2>2 DEF DataTyped
    <2>5. NothingReadYet' /\ ManifestChunksAreTheZkeys' /\ NeverWedged'
        BY <1>a, <2>1 DEF NothingReadYet, ManifestChunksAreTheZkeys, NeverWedged
    <2>6. FedByItsOwner' BY <2>2 DEF FedByItsOwner
    <2>7. ~overlapped => Undisturbed'
        BY <1>u, <2>1 DEF Undisturbed, OnePass, CheckedByPins, RecordedHashesAreAuthentic,
                          ParsedChunksAreAuthentic
    <2> QED BY <2>1, <2>3, <2>4, <2>5, <2>6, <2>7 DEF SessionInv, SessionTyped
<1>2. CASE ResetZkeyAuthentication
    <2>1. /\ proof = None /\ proof' = None /\ hostActs' = hostActs + 1
          /\ authenticator' = <<>> /\ authenticated' = FALSE
          /\ overlapped' = (overlapped \/ PassUnderWay)
          /\ UNCHANGED <<released, recorded, cached, session>>
        BY <1>2 DEF ResetZkeyAuthentication, CanReset, Reset
    <2>2. hostActs' \in Nat /\ hostActs' # 0 BY <1>a, <2>1 DEF DataTyped
    <2>e. ~overlapped' => ~overlapped /\ \A d \in Requests : session[d].at # "hashing"
        BY <2>1 DEF PassUnderWay
    <2>3. FlagsTyped' BY <1>a, <2>1 DEF FlagsTyped, PassUnderWay
    <2>4. <<>> \in Seq(ChunkValues) OBVIOUS
    <2>5. DataTyped' BY <1>a, <2>1, <2>2, <2>4 DEF DataTyped
    <2>6. ~overlapped' => Undisturbed'
        BY <1>u, <2>1, <2>e DEF Undisturbed, OnePass, CheckedByPins, RecordedHashesAreAuthentic,
                                ParsedChunksAreAuthentic
    <2>7. FedByItsOwner' BY <2>2 DEF FedByItsOwner
    <2>8. NothingReadYet' /\ ManifestChunksAreTheZkeys' /\ NeverWedged'
        BY <1>a, <2>1, <2>4, SessionConstants DEF NothingReadYet, ManifestChunksAreTheZkeys, NeverWedged
    <2> QED BY <2>3, <2>5, <2>6, <2>7, <2>8 DEF SessionInv, SessionTyped
<1>3. CASE ReplaceCached
    <2>1. /\ cached' \in Files
          /\ UNCHANGED <<released, authenticator, authenticated, proof, recorded, session, hostActs, overlapped>>
        BY <1>3 DEF ReplaceCached, streamingProver
    <2>2. FlagsTyped' BY <1>a, <2>1 DEF FlagsTyped
    <2>3. DataTyped' BY <1>a, <2>1 DEF DataTyped
    <2>4. NothingReadYet' /\ FedByItsOwner' /\ ManifestChunksAreTheZkeys' /\ NeverWedged'
        BY <1>a, <2>1 DEF NothingReadYet, FedByItsOwner, ManifestChunksAreTheZkeys, NeverWedged
    <2>5. ~overlapped => Undisturbed'
        BY <1>u, <2>1 DEF Undisturbed, OnePass, CheckedByPins, RecordedHashesAreAuthentic,
                          ParsedChunksAreAuthentic
    <2> QED BY <2>1, <2>2, <2>3, <2>4, <2>5 DEF SessionInv, SessionTyped
<1> QED BY <1>1, <1>2, <1>3

\* The invariant holds after every step between two awaits.
LEMMA SessionStep ==
    ASSUME SessionInv, [SessionNext]_sessionVars
    PROVE  SessionInv'
<1>1. CASE UNCHANGED sessionVars
    BY <1>1 DEF sessionVars, streamingProver, SessionInv, SessionTyped, FlagsTyped, DataTyped,
                NothingReadYet, FedByItsOwner, ManifestChunksAreTheZkeys, NeverWedged,
                Undisturbed, OnePass, CheckedByPins, RecordedHashesAreAuthentic,
                ParsedChunksAreAuthentic
<1>2. ASSUME NEW c \in Requests, FinishProof(c) PROVE SessionInv'
    BY <1>2, RejectKeeps DEF FinishProof, EndsProving
<1>3. ASSUME NEW c \in Requests, ReadFails(c) PROVE SessionInv'
    BY <1>3, RejectKeeps DEF ReadFails, EndsProving
<1>4. CASE SessionNext
    BY <1>2, <1>3, <1>4, StartKeeps, PassBegins, ChunkKeeps, FinishKeeps, BeginKeeps, PushKeeps,
       PageKeeps DEF SessionNext
<1> QED BY <1>1, <1>4

\* A fresh prover and idle calls.
LEMMA SessionInvAtStart == SessionInit => SessionInv
<1> SUFFICES ASSUME SessionInit PROVE SessionInv OBVIOUS
<1>1. /\ NoCall \in CallRecord /\ NoCall.at = "idle" /\ NoCall.next = 1
      /\ NoCall.file = <<>>
    BY DEF NoCall, FreshCall, CallAtStart, CallRecord
<1>2. <<>> \in Seq(ChunkValues) OBVIOUS
<1>3. session \in [Requests -> CallRecord] /\ \A c \in Requests : session[c] = NoCall
    BY <1>1 DEF SessionInit
<1>4. FlagsTyped BY DEF SessionInit, FlagsTyped
<1>5. DataTyped BY <1>1, <1>2, <1>3 DEF SessionInit, DataTyped
<1>6. OnePass /\ NothingReadYet /\ CheckedByPins /\ FedByItsOwner
    BY <1>1, <1>3 DEF OnePass, NothingReadYet, CheckedByPins, FedByItsOwner
<1>7. /\ RecordedHashesAreAuthentic /\ ParsedChunksAreAuthentic
      /\ ManifestChunksAreTheZkeys /\ NeverWedged
    BY <1>2, SessionConstants
       DEF SessionInit, RecordedHashesAreAuthentic, ParsedChunksAreAuthentic,
           ManifestChunksAreTheZkeys, NeverWedged
<1> QED BY <1>4, <1>5, <1>6, <1>7 DEF SessionInv, Undisturbed, SessionTyped

\* Whatever the cache serves and however many calls interleave at their awaits,
\* overlapping authentication passes included: the prover is never wedged and a
\* manifest proof parses the zkey's chunks in order.  As long as no pass was
\* restarted under another call, every proof parses pinned chunks only and a
\* pass starts from byte zero (wasm_api.rs: authenticate_zkey_chunk;
\* sparrow-cache-api.mjs: authenticateResponse, checkedResponse).
THEOREM OnlyAuthenticChunksAreParsedHolds ==
    SessionSpec => []OnlyAuthenticChunksAreParsed
<1>1. SessionInit => SessionInv BY SessionInvAtStart
<1>2. SessionInv /\ [SessionNext]_sessionVars => SessionInv'
    BY SessionStep
<1> QED
    BY <1>1, <1>2, SessionInvIsProperty, PTL DEF SessionSpec

\* A proof ends by its own call or by the page, and a begin that fails leaves
\* the graph where it was (wasm_api.rs: begin_proof, build_then_release).
THEOREM ProofsEndByTheirCallHolds ==
    SessionSpec => [][OnlyItsCallEndsAProof /\ GraphIsReleasedForAProof]_sessionVars
<1>1. SessionInit => SessionInv BY SessionInvAtStart
<1>2. SessionInv /\ [SessionNext]_sessionVars => SessionInv'
    BY SessionStep
<1>3. SessionInv /\ [SessionNext]_sessionVars
        => [OnlyItsCallEndsAProof /\ GraphIsReleasedForAProof]_sessionVars
    <2> SUFFICES ASSUME SessionInv, SessionNext
                 PROVE  OnlyItsCallEndsAProof /\ GraphIsReleasedForAProof
        OBVIOUS
    <2>a. DataTyped /\ FedByItsOwner BY DEF SessionInv, SessionTyped
    <2>b. NoCall.at = "idle" BY DEF NoCall, FreshCall, CallAtStart
    <2>1. ASSUME NEW c \in Requests, EndsProving(c), session[c].at = "proving",
                 UNCHANGED <<released, hostActs>>
          PROVE  OnlyItsCallEndsAProof /\ GraphIsReleasedForAProof
        <3>1. session'[c].at = "idle"
            BY <2>a, <2>b, <2>1 DEF EndsProving, Rejects, Becomes, DataTyped
        <3>2. hostActs' = 0 => proof # None /\ proof.of = c BY <2>a, <2>1 DEF FedByItsOwner
        <3> QED BY <2>1, <3>1, <3>2 DEF OnlyItsCallEndsAProof, GraphIsReleasedForAProof
    <2>2. ASSUME UNCHANGED <<released, proof>>
          PROVE  OnlyItsCallEndsAProof /\ GraphIsReleasedForAProof
        BY <2>2 DEF OnlyItsCallEndsAProof, GraphIsReleasedForAProof
    <2>3. ASSUME NEW c \in Requests, Begin(c)
          PROVE  OnlyItsCallEndsAProof /\ GraphIsReleasedForAProof
        <3>1. CASE proof = None /\ proof' # None
            BY <3>1 DEF OnlyItsCallEndsAProof, GraphIsReleasedForAProof
        <3>2. (proof = None /\ proof' # None) \/ UNCHANGED <<released, proof>>
            <4> DEFINE new(f) == [of |-> c, manifest |-> ~f, parsed |-> <<>>]
            <4>1. \A f \in BOOLEAN : new(f) # None
                <5> SUFFICES ASSUME NEW f \in BOOLEAN PROVE new(f) # None OBVIOUS
                <5>1. <<>> \in Seq(ChunkValues) /\ (~f) \in BOOLEAN OBVIOUS
                <5>2. new(f) \in ProofRecord BY <5>1 DEF ProofRecord
                <5> QED BY <5>2, SessionConstants
            <4>2. \A f : f \in BOOLEAN => [of |-> c, manifest |-> ~f, parsed |-> <<>>] # None
                BY <4>1
            <4> HIDE DEF new
            <4>3. (session[c].kind # "manifest") \in BOOLEAN OBVIOUS
            <4>4. [of |-> c, manifest |-> ~(session[c].kind # "manifest"), parsed |-> <<>>] # None
                BY <4>2, <4>3
            <4> QED BY <2>3, <4>4 DEF Begin, CheckCanBegin, AfterFailedBegin
        <3> QED BY <2>2, <3>1, <3>2
    <2>4. ASSUME AbortProof
          PROVE  OnlyItsCallEndsAProof /\ GraphIsReleasedForAProof
        <3>1. hostActs' # 0 /\ released' = released BY <2>a, <2>4 DEF AbortProof, DataTyped
        <3> QED BY <3>1 DEF OnlyItsCallEndsAProof, GraphIsReleasedForAProof
    <2>5. ASSUME NEW c \in Requests, PushChunk(c)
          PROVE  OnlyItsCallEndsAProof /\ GraphIsReleasedForAProof
        <3>1. CASE EndsProving(c) BY <2>1, <2>5, <3>1 DEF PushChunk
        <3> DEFINE chunk == session[c].file[session[c].next]
        <3>2. CASE proof # None /\ proof' = [proof EXCEPT !.parsed = Append(proof.parsed, chunk)]
            <4>1. proof \in ProofRecord /\ proof.parsed \in Seq(ChunkValues)
                BY <2>a, <3>2 DEF DataTyped, ProofRecord
            <4>2. chunk \in ChunkValues
                <5>1. /\ session[c].file \in Seq(ChunkValues) /\ session[c].next \in Nat \ {0}
                      /\ session[c].next <= Len(session[c].file)
                    BY <2>a, <2>5 DEF PushChunk, DataTyped, CallRecord
                <5> QED BY <5>1, ReadOn DEF chunk
            <4> HIDE DEF chunk
            <4>3. Append(proof.parsed, chunk) \in Seq(ChunkValues) BY <4>1, <4>2, ParsedOn
            <4>4. proof' \in ProofRecord /\ proof'.of = proof.of
                BY <3>2, <4>1, <4>3 DEF ProofRecord
            <4>5. proof' # None BY <4>4, SessionConstants
            <4>6. released' = released BY <2>5 DEF PushChunk
            <4> QED BY <4>4, <4>5, <4>6 DEF OnlyItsCallEndsAProof, GraphIsReleasedForAProof
        <3>3. \/ EndsProving(c)
              \/ proof # None /\ proof' = [proof EXCEPT !.parsed = Append(proof.parsed, chunk)]
            BY <2>5 DEF PushChunk
        <3> QED BY <3>1, <3>2, <3>3
    <2>6. ASSUME NEW c \in Requests, FinishProof(c) \/ ReadFails(c)
          PROVE  OnlyItsCallEndsAProof /\ GraphIsReleasedForAProof
        BY <2>1, <2>2, <2>6 DEF FinishProof, ReadFails
    <2>7. ASSUME NEW c \in Requests,
                 \/ \E kind \in {"framed", "one-shot", "manifest"}, valid \in BOOLEAN :
                        StartProof(c, kind, valid)
                 \/ AuthenticateResponse(c) \/ AuthenticateChunk(c) \/ FinishAuthentication(c)
          PROVE  OnlyItsCallEndsAProof /\ GraphIsReleasedForAProof
        <3>1. UNCHANGED <<released, proof>>
            BY <2>7 DEF StartProof, AuthenticateResponse, AuthenticateChunk, FinishAuthentication,
                        Reset, streamingProver
        <3> QED BY <2>2, <3>1
    <2>8. ASSUME ResetZkeyAuthentication \/ ReplaceCached
          PROVE  OnlyItsCallEndsAProof /\ GraphIsReleasedForAProof
        <3>1. UNCHANGED <<released, proof>>
            BY <2>8 DEF ResetZkeyAuthentication, ReplaceCached, Reset, streamingProver
        <3> QED BY <2>2, <3>1
    <2> QED BY <2>3, <2>4, <2>5, <2>6, <2>7, <2>8 DEF SessionNext
<1> QED
    BY <1>1, <1>2, <1>3, PTL DEF SessionSpec
-----------------------------------------------------------------------------
(* The artifact cache                                                      *)

Pinless == {"idle", "graph", "fetch", "evict graph", "store graph", "compiled"}
PinnedPlaces == {"sage", "entry", "evict", "keys", "purge"}
TabRecord ==
    [at : Pinless \cup PinnedPlaces, pin : Programs \cup {Nothing},
     seen : Entries \cup {Nothing}, keys : SUBSET Versions, live : 0..1]

\* A pin comes from the caller; the derived cache is read and written under
\* one only; what is judged is an entry that was read.
TabOK(t) ==
    /\ tab[t] \in TabRecord
    /\ tab[t].pin \in Pins[t] \cup {Nothing}
    /\ tab[t].at \in PinnedPlaces => tab[t].pin # Nothing
    /\ tab[t].at = "entry" => tab[t].seen # Nothing
    /\ tab[t].at \in {"keys", "purge"} => tab[t].pin = CompilerOf[t]

CacheTyped ==
    /\ graph \in {Nothing, "good", "bad"}
    /\ sage \in [Versions -> Entries \cup {Nothing}]
    /\ loaded \in [Tabs -> Programs \cup {Nothing}]
    /\ DOMAIN tab = Tabs

Trusted(t, program) == program \in {CompilerOf[t]} \cup (Pins[t] \ {Nothing})

CacheInv ==
    /\ CacheTyped
    /\ tab \in [Tabs -> TabRecord]
    /\ \A t \in Tabs : TabOK(t)
    /\ \A t \in Tabs : loaded[t] # Nothing => Trusted(t, loaded[t])
-----------------------------------------------------------------------------
\* What Nothing is not, and what the compilers make.
LEMMA CacheConstants ==
    /\ Nothing \notin Programs /\ Nothing \notin Entries
    /\ \A t \in Tabs : CompilerOf[t] \in Versions /\ CompilerOf[t] \in Programs
                       /\ Pins[t] \subseteq Programs \cup {Nothing}
    /\ Versions \subseteq Programs
BY CacheAssumption DEF Programs, Versions, Entries

\* The invariant is stronger than the checked property.
LEMMA CacheInvIsProperty == CacheInv => OnlyTrustedProgramsRun
BY DEF CacheInv, CacheTyped, TabOK, TabRecord, Trusted, OnlyTrustedProgramsRun, CacheTypeOK

\* One tab's call goes on, and what it returns is trusted.
LEMMA TabGoesOn ==
    ASSUME CacheInv, NEW t \in Tabs, NEW load \in TabRecord, TabBecomes(t, load),
           load.pin \in Pins[t] \cup {Nothing},
           load.at \in PinnedPlaces => load.pin # Nothing,
           load.at = "entry" => load.seen # Nothing,
           load.at \in {"keys", "purge"} => load.pin = CompilerOf[t],
           graph' \in {Nothing, "good", "bad"},
           sage' \in [Versions -> Entries \cup {Nothing}],
           \/ loaded' = loaded
           \/ \E program \in Programs \cup {Nothing} :
                /\ loaded' = [loaded EXCEPT ![t] = program]
                /\ program # Nothing => Trusted(t, program)
    PROVE  CacheInv'
<1>1. /\ tab' \in [Tabs -> TabRecord] /\ tab'[t] = load
      /\ \A u \in Tabs \ {t} : tab'[u] = tab[u]
    BY DEF CacheInv, TabBecomes
<1>2. /\ loaded' \in [Tabs -> Programs \cup {Nothing}]
      /\ \A u \in Tabs : loaded'[u] # Nothing => Trusted(u, loaded'[u])
    BY DEF CacheInv, CacheTyped
<1>3. \A u \in Tabs : TabOK(u)'
    BY <1>1 DEF CacheInv, TabOK
<1>4. CacheTyped' BY <1>1, <1>2 DEF CacheTyped
<1>5. \A u \in Tabs : (loaded[u] # Nothing => Trusted(u, loaded[u]))' BY <1>2 DEF Trusted
<1> QED BY <1>1, <1>3, <1>4, <1>5 DEF CacheInv

\* A call that throws, or returns a trusted prover.
LEMMA TabEnds ==
    ASSUME CacheInv, NEW t \in Tabs,
           \/ Throws(t)
           \/ \E program \in Programs : Returns(t, program) /\ Trusted(t, program),
           graph' \in {Nothing, "good", "bad"},
           sage' \in [Versions -> Entries \cup {Nothing}]
    PROVE  CacheInv'
<1>1. /\ IdleTab \in TabRecord /\ IdleTab.at = "idle" /\ IdleTab.pin = Nothing
    BY DEF IdleTab, NewLoad, TabRecord, Pinless
<1>2. IdleTab.at \notin PinnedPlaces BY <1>1 DEF PinnedPlaces
<1>3. /\ TabBecomes(t, IdleTab)
      /\ \/ loaded' = loaded
         \/ \E program \in Programs \cup {Nothing} :
                /\ loaded' = [loaded EXCEPT ![t] = program]
                /\ program # Nothing => Trusted(t, program)
    BY DEF Throws, Returns
<1> QED BY <1>1, <1>2, <1>3, TabGoesOn

\* A call that only moves on.
LEMMA TabMoves ==
    ASSUME CacheInv, NEW t \in Tabs, NEW place \in Pinless \cup PinnedPlaces, TabAt(t, place),
           place \notin {"entry", "keys", "purge"},
           place \in PinnedPlaces => tab[t].at \in PinnedPlaces,
           loaded' = loaded,
           graph' \in {Nothing, "good", "bad"},
           sage' \in [Versions -> Entries \cup {Nothing}]
    PROVE  CacheInv'
<1> DEFINE load == [tab[t] EXCEPT !.at = place]
<1>1. tab[t] \in TabRecord BY DEF CacheInv
<1>2. load \in TabRecord /\ load.at = place /\ load.pin = tab[t].pin
    BY <1>1 DEF TabRecord
<1>3. TabBecomes(t, load) BY DEF TabAt
<1>4. /\ tab[t].pin \in Pins[t] \cup {Nothing}
      /\ tab[t].at \in PinnedPlaces => tab[t].pin # Nothing
    BY DEF CacheInv, TabOK
<1> HIDE DEF load
<1> QED BY <1>2, <1>3, <1>4, TabGoesOn

\* A load starts, and reads the derived cache under a pin only.
LEMMA StartsTrusted ==
    ASSUME CacheInv, NEW t \in Tabs, NEW pin \in Pins[t], StartLoad(t, pin)
    PROVE  CacheInv'
<1> DEFINE place == IF pin = Nothing THEN "graph" ELSE "sage"
           load == NewLoad(place, pin)
<1>1. /\ load = [at |-> place, pin |-> pin, seen |-> Nothing, keys |-> {}, live |-> 0]
      /\ place \in Pinless \cup PinnedPlaces /\ place \notin {"entry", "keys", "purge"}
      /\ place \in PinnedPlaces => pin # Nothing
    BY DEF NewLoad, Pinless, PinnedPlaces
<1>2. TabBecomes(t, load) /\ UNCHANGED <<graph, sage>> BY DEF StartLoad
<1>3. pin \in Programs \cup {Nothing} BY CacheConstants
<1> HIDE DEF load, place
<1>4. load \in TabRecord /\ load.at = place /\ load.pin = pin
    BY <1>1, <1>3 DEF TabRecord
<1>5. loaded' = [loaded EXCEPT ![t] = Nothing] BY DEF StartLoad
<1>6. \/ loaded' = loaded
      \/ \E program \in Programs \cup {Nothing} :
            /\ loaded' = [loaded EXCEPT ![t] = program]
            /\ program # Nothing => Trusted(t, program)
    BY <1>5
<1>7. graph' \in {Nothing, "good", "bad"} /\ sage' \in [Versions -> Entries \cup {Nothing}]
    BY <1>2 DEF CacheInv, CacheTyped
<1> QED BY <1>1, <1>2, <1>4, <1>6, <1>7, TabGoesOn

\* The derived entry of the tab's compiler is read.
LEMMA MatchTrusted ==
    ASSUME CacheInv, NEW t \in Tabs, MatchSage(t)
    PROVE  CacheInv'
<1> DEFINE entry == sage[CompilerOf[t]]
           place == IF entry = Nothing THEN "graph" ELSE "entry"
           load == [tab[t] EXCEPT !.at = place, !.seen = entry]
<1>1. tab[t] \in TabRecord /\ tab[t].pin \in Pins[t] \cup {Nothing} BY DEF CacheInv, TabOK
<1>2. tab[t].pin # Nothing BY DEF CacheInv, TabOK, MatchSage, At, PinnedPlaces
<1>3. entry \in Entries \cup {Nothing} BY CacheConstants DEF CacheInv, CacheTyped
<1>4. TabBecomes(t, load) /\ UNCHANGED <<graph, sage, loaded>> BY DEF MatchSage
<1> HIDE DEF entry
<1>5. /\ load \in TabRecord /\ load.pin = tab[t].pin /\ load.at = place
      /\ load.seen = entry
      /\ place \notin {"keys", "purge"} /\ (place = "entry" => entry # Nothing)
    BY <1>1, <1>3 DEF TabRecord, Pinless, PinnedPlaces
<1>6. graph' \in {Nothing, "good", "bad"} /\ sage' \in [Versions -> Entries \cup {Nothing}]
    BY <1>4 DEF CacheInv, CacheTyped
<1> HIDE DEF load, place
<1> QED BY <1>1, <1>2, <1>4, <1>5, <1>6, TabGoesOn

\* An entry is run only under the pin it was found to match.
LEMMA UseTrusted ==
    ASSUME CacheInv, NEW t \in Tabs, UseEntry(t)
    PROVE  CacheInv'
<1> DEFINE entry == tab[t].seen
<1>1. /\ At(t, "entry") /\ UNCHANGED <<graph, sage>>
      /\ \/ /\ EntryIsTrusted(entry, CompilerOf[t], tab[t].pin)
            /\ Returns(t, entry.program)
         \/ TabAt(t, "evict") /\ UNCHANGED loaded
    BY DEF UseEntry
<1>2. /\ tab[t].pin \in Pins[t] \cup {Nothing} /\ tab[t].pin # Nothing
      /\ tab[t].at \in PinnedPlaces /\ entry \in Entries
    BY <1>1 DEF CacheInv, TabOK, TabRecord, At, PinnedPlaces
<1>3. graph' \in {Nothing, "good", "bad"} /\ sage' \in [Versions -> Entries \cup {Nothing}]
    BY <1>1 DEF CacheInv, CacheTyped
<1>4. CASE EntryIsTrusted(entry, CompilerOf[t], tab[t].pin) /\ Returns(t, entry.program)
    <2>1. entry.program \in Programs /\ Trusted(t, entry.program)
        BY <1>2, <1>4 DEF Entries, EntryIsTrusted, Trusted
    <2> HIDE DEF entry
    <2> QED BY <1>3, <1>4, <2>1, TabEnds
<1>5. CASE TabAt(t, "evict") /\ UNCHANGED loaded
    <2>1. "evict" \in PinnedPlaces BY DEF PinnedPlaces
    <2> QED BY <1>2, <1>3, <1>5, <2>1, TabMoves
<1> QED BY <1>1, <1>4, <1>5

\* A cold load moves on, or ends with nothing.
LEMMA ColdTrusted ==
    ASSUME CacheInv, NEW t \in Tabs,
           EvictSage(t) \/ MatchGraph(t) \/ EvictGraph(t) \/ FetchGraph(t) \/ StoreGraph(t)
    PROVE  CacheInv'
<1>b. 1 \in 0..1 OBVIOUS
<1>1. graph' \in {Nothing, "good", "bad"} /\ sage' \in [Versions -> Entries \cup {Nothing}]
    <2>1. CASE EvictSage(t)
        BY <2>1, CacheConstants DEF EvictSage, CacheInv, CacheTyped
    <2>2. CASE MatchGraph(t) \/ EvictGraph(t) \/ FetchGraph(t) \/ StoreGraph(t)
        BY <2>2 DEF MatchGraph, EvictGraph, FetchGraph, AfterFetch, StoreGraph, CacheInv, CacheTyped
    <2> QED BY <2>1, <2>2
<1>2. \A place \in {"graph", "fetch", "evict graph", "compiled", "store graph"} :
            place \in Pinless /\ place \notin PinnedPlaces
    BY DEF Pinless, PinnedPlaces
<1>3. ASSUME NEW place \in {"graph", "fetch", "evict graph", "compiled", "store graph"},
             TabAt(t, place), loaded' = loaded
      PROVE  CacheInv'
    BY <1>1, <1>2, <1>3, TabMoves
<1>4. ASSUME NEW place \in {"graph", "fetch", "evict graph", "compiled", "store graph"},
             Authenticated(t, place), loaded' = loaded
      PROVE  CacheInv'
    <2> DEFINE one == 1
               load == [tab[t] EXCEPT !.at = place, !.live = one]
    <2>a. one \in 0..1 BY <1>b
    <2> HIDE DEF one
    <2>1. tab[t] \in TabRecord /\ tab[t].pin \in Pins[t] \cup {Nothing} BY DEF CacheInv, TabOK
    <2>2. place \in Pinless /\ place \notin PinnedPlaces BY <1>2
    <2>3. load \in TabRecord /\ load.at = place /\ load.pin = tab[t].pin
        BY <2>1, <2>2, <2>a DEF TabRecord
    <2>4. TabBecomes(t, load) BY <1>4 DEF Authenticated, one
    <2>5. place \notin {"entry", "keys", "purge"} OBVIOUS
    <2> HIDE DEF load
    <2> QED BY <1>1, <1>4, <2>1, <2>2, <2>3, <2>4, <2>5, TabGoesOn
<1>5. CASE Throws(t) BY <1>1, <1>5, TabEnds
<1>6. CASE EvictSage(t) BY <1>3, <1>6 DEF EvictSage
<1>7. CASE MatchGraph(t) BY <1>3, <1>4, <1>7 DEF MatchGraph
<1>8. CASE EvictGraph(t) BY <1>3, <1>8 DEF EvictGraph
<1>9. CASE FetchGraph(t) BY <1>4, <1>5, <1>9 DEF FetchGraph, AfterFetch
<1>10. CASE StoreGraph(t) BY <1>3, <1>10 DEF StoreGraph
<1> QED BY <1>6, <1>7, <1>8, <1>9, <1>10

\* A compiled program is returned under no pin, or goes on under its own.
LEMMA CompileTrusted ==
    ASSUME CacheInv, NEW t \in Tabs, Compile(t)
    PROVE  CacheInv'
<1> DEFINE program == CompilerOf[t]
           pin == tab[t].pin
           load == [tab[t] EXCEPT !.at = "keys", !.live = LiveAfterDecode(tab[t].live)]
<1>1. /\ At(t, "compiled") /\ UNCHANGED <<graph, sage>>
      /\ \/ Throws(t)
         \/ Returns(t, program)
         \/ /\ ~PinRefuses(pin, program) /\ Caches(pin)
            /\ TabBecomes(t, load) /\ loaded' = loaded
    BY DEF Compile
<1>2. graph' \in {Nothing, "good", "bad"} /\ sage' \in [Versions -> Entries \cup {Nothing}]
    BY <1>1 DEF CacheInv, CacheTyped
<1>3. CASE Throws(t) BY <1>2, <1>3, TabEnds
<1>4. CASE Returns(t, program)
    <2>1. program \in Programs /\ Trusted(t, program) BY CacheConstants DEF Trusted
    <2> QED BY <1>2, <1>4, <2>1, TabEnds
<1>5. CASE /\ ~PinRefuses(pin, program) /\ Caches(pin)
           /\ TabBecomes(t, load) /\ loaded' = loaded
    <2>1. tab[t] \in TabRecord /\ pin \in Pins[t] \cup {Nothing} BY DEF CacheInv, TabOK
    <2>2. pin # Nothing /\ pin = program BY <1>5 DEF PinRefuses, Caches
    <2> DEFINE one == 1
    <2>3. load = [tab[t] EXCEPT !.at = "keys", !.live = one] BY DEF LiveAfterDecode
    <2>a. one \in 0..1 OBVIOUS
    <2> HIDE DEF one
    <2>4. "keys" \in PinnedPlaces BY DEF PinnedPlaces
    <2> HIDE DEF load
    <2>5. load \in TabRecord /\ load.at = "keys" /\ load.pin = pin
        BY <2>1, <2>3, <2>4, <2>a DEF TabRecord
    <2> QED BY <1>2, <1>5, <2>1, <2>2, <2>4, <2>5, TabGoesOn
<1> QED BY <1>1, <1>3, <1>4, <1>5

\* The derived cache is purged and written under the compiler's own pin.
LEMMA PurgeTrusted ==
    ASSUME CacheInv, NEW t \in Tabs,
           ListKeys(t) \/ StoreSage(t) \/ \E v \in Versions : DeleteKey(t, v)
    PROVE  CacheInv'
<1>1. /\ tab[t] \in TabRecord /\ tab[t].pin \in Pins[t] \cup {Nothing}
      /\ tab[t].pin # Nothing /\ tab[t].pin = CompilerOf[t]
    BY DEF CacheInv, TabOK, At, PinnedPlaces, ListKeys, StoreSage, DeleteKey
<1>a. graph' = graph /\ graph' \in {Nothing, "good", "bad"}
    BY DEF CacheInv, CacheTyped, ListKeys, StoreSage, DeleteKey
<1>2. CASE ListKeys(t)
    <2> DEFINE keys == {v \in Versions : sage[v] # Nothing}
               load == [tab[t] EXCEPT !.at = "purge", !.keys = keys]
    <2>1. TabBecomes(t, load) /\ loaded' = loaded /\ sage' = sage BY <1>2 DEF ListKeys
    <2>2. keys \in SUBSET Versions OBVIOUS
    <2>3. "purge" \in PinnedPlaces BY DEF PinnedPlaces
    <2> HIDE DEF keys
    <2>4. load \in TabRecord /\ load.at = "purge" /\ load.pin = tab[t].pin
        BY <1>1, <2>2, <2>3 DEF TabRecord
    <2>5. sage' \in [Versions -> Entries \cup {Nothing}] BY <2>1 DEF CacheInv, CacheTyped
    <2> HIDE DEF load
    <2> QED BY <1>1, <1>a, <2>1, <2>3, <2>4, <2>5, TabGoesOn
<1>3. CASE StoreSage(t)
    <2>1. CompilerOf[t] \in Programs /\ Trusted(t, CompilerOf[t]) /\ CompilerOf[t] \in Versions
        BY CacheConstants DEF Trusted
    <2>2. StoredEntry(t) \in Entries BY <2>1 DEF StoredEntry, CacheEntry, Entries
    <2>3. sage' \in [Versions -> Entries \cup {Nothing}]
        BY <1>3, <2>2 DEF StoreSage, CacheInv, CacheTyped
    <2> QED BY <1>3, <1>a, <2>1, <2>3, TabEnds DEF StoreSage
<1>4. ASSUME NEW v \in Versions, DeleteKey(t, v) PROVE CacheInv'
    <2> DEFINE keys == tab[t].keys \ {v}
               load == [tab[t] EXCEPT !.keys = keys]
    <2>1. /\ TabBecomes(t, load) /\ loaded' = loaded /\ tab[t].at = "purge"
          /\ sage' = [sage EXCEPT ![v] = Nothing]
        BY <1>4 DEF DeleteKey, At
    <2>2. keys \in SUBSET Versions BY <1>1 DEF TabRecord
    <2>3. "purge" \in PinnedPlaces BY DEF PinnedPlaces
    <2> HIDE DEF keys
    <2>4. load \in TabRecord /\ load.at = "purge" /\ load.pin = tab[t].pin
        BY <1>1, <2>1, <2>2 DEF TabRecord
    <2>5. sage' \in [Versions -> Entries \cup {Nothing}] BY <2>1 DEF CacheInv, CacheTyped
    <2> HIDE DEF load
    <2> QED BY <1>1, <1>a, <2>1, <2>3, <2>4, <2>5, TabGoesOn
<1> QED BY <1>2, <1>3, <1>4

\* The invariant holds initially.
LEMMA CacheInvAtStart == CacheInit => CacheInv
<1> SUFFICES ASSUME CacheInit PROVE CacheInv OBVIOUS
<1>1. /\ IdleTab \in TabRecord /\ IdleTab.at = "idle" /\ IdleTab.pin = Nothing
      /\ "idle" \notin PinnedPlaces
    BY DEF IdleTab, NewLoad, TabRecord, Pinless, PinnedPlaces
<1>2. tab \in [Tabs -> TabRecord] /\ \A t \in Tabs : tab[t] = IdleTab BY <1>1 DEF CacheInit
<1>3. \A t \in Tabs : TabOK(t) BY <1>1, <1>2 DEF TabOK
<1>4. CacheTyped BY <1>2 DEF CacheInit, CacheTyped
<1>5. \A t \in Tabs : loaded[t] = Nothing BY DEF CacheInit
<1> QED BY <1>2, <1>3, <1>4, <1>5 DEF CacheInv

\* The invariant holds after every step of a tab and of the storage.
LEMMA CacheInvKept == CacheInv /\ [CacheNext]_cacheVars => CacheInv'
<1> SUFFICES ASSUME CacheInv, [CacheNext]_cacheVars PROVE CacheInv' OBVIOUS
<1>1. CASE UNCHANGED cacheVars
    BY <1>1 DEF cacheVars, CacheInv, CacheTyped, TabOK, Trusted
<1>2. ASSUME NEW t \in Tabs, CacheStep(t) PROVE CacheInv'
    BY <1>2, MatchTrusted, UseTrusted, ColdTrusted, CompileTrusted, PurgeTrusted DEF CacheStep
<1>3. CASE Tamper
    <2>1. graph' \in {Nothing, "good", "bad"} /\ sage' \in [Versions -> Entries \cup {Nothing}]
        BY <1>3 DEF Tamper, CacheInv, CacheTyped
    <2>2. UNCHANGED <<tab, loaded>> BY <1>3 DEF Tamper
    <2> QED BY <2>1, <2>2 DEF CacheInv, CacheTyped, TabOK, Trusted
<1> QED BY <1>1, <1>2, <1>3, StartsTrusted DEF CacheNext

\* Whatever the storage and the network serve, and however tabs interleave at
\* their awaits, the prover a call returns runs its compiler's own program or
\* the pinned one (sparrow-cache-api.mjs: loadOrCompileStreamingProver).
THEOREM OnlyTrustedProgramsRunHolds == CacheSpec => []OnlyTrustedProgramsRun
BY CacheInvAtStart, CacheInvKept, CacheInvIsProperty, PTL DEF CacheSpec

\* The count of damaged entries is a number.
Counted == tampers \in Nat

\* It starts as one and grows by one.
LEMMA StaysCounted == Counted /\ [CacheNext]_cacheVars => Counted'
<1> SUFFICES ASSUME Counted, [CacheNext]_cacheVars PROVE Counted' OBVIOUS
<1>1. tampers' = tampers \/ tampers' = tampers + 1
    BY DEF CacheNext, CacheStep, StartLoad, MatchSage, UseEntry, EvictSage, MatchGraph,
       EvictGraph, FetchGraph, StoreGraph, Compile, ListKeys, DeleteKey, StoreSage, Tamper,
       cacheVars
<1> QED BY <1>1 DEF Counted

\* A step of a call changes the derived cache under a pin, and to what its
\* compiler made.
LEMMA StepStores ==
    ASSUME CacheInv, NEW t \in Tabs, CacheStep(t) \/ \E pin \in Pins[t] : StartLoad(t, pin)
    PROVE  UnpinnedLeavesTheCache /\ StoredIsAuthenticated
<1>1. ASSUME sage' = sage, graph' # graph => graph' \in {Nothing, "good"}
      PROVE  UnpinnedLeavesTheCache /\ StoredIsAuthenticated
    BY <1>1 DEF UnpinnedLeavesTheCache, StoredIsAuthenticated
<1>2. tab[t] \in TabRecord /\ (tab[t].at \in PinnedPlaces => tab[t].pin # Nothing)
    BY DEF CacheInv, TabOK
<1>3. CASE StartLoad(t, tab[t].pin) \/ \E pin \in Pins[t] : StartLoad(t, pin)
    BY <1>1, <1>3 DEF StartLoad
<1>4. CASE MatchSage(t) \/ UseEntry(t) \/ Compile(t) \/ ListKeys(t)
    BY <1>1, <1>4 DEF MatchSage, UseEntry, Compile, ListKeys
<1>5. CASE MatchGraph(t) \/ EvictGraph(t) \/ FetchGraph(t) \/ StoreGraph(t)
    BY <1>1, <1>5 DEF MatchGraph, EvictGraph, FetchGraph, AfterFetch, StoreGraph
<1>6. ASSUME NEW v \in Versions, NEW entry, sage' = [sage EXCEPT ![v] = entry],
             entry \in {Nothing, CacheEntry(v, v, v)}, graph' = graph,
             tab[t].at \in PinnedPlaces, tab'[t] # tab[t]
      PROVE  UnpinnedLeavesTheCache /\ StoredIsAuthenticated
    <2>1. sage \in [Versions -> Entries \cup {Nothing}] BY DEF CacheInv, CacheTyped
    <2>2. \A u \in Versions : sage'[u] # sage[u] => sage'[u] \in {Nothing, CacheEntry(u, u, u)}
        BY <1>6, <2>1
    <2> QED BY <1>2, <1>6, <2>2 DEF UnpinnedLeavesTheCache, StoredIsAuthenticated
<1>7. tab \in [Tabs -> TabRecord] /\ CompilerOf[t] \in Versions BY CacheConstants DEF CacheInv
<1>8. "evict" \in PinnedPlaces /\ "purge" \in PinnedPlaces BY DEF PinnedPlaces
<1>9. CASE EvictSage(t)
    <2>1. tab'[t].at = "graph" /\ tab[t].at = "evict"
        BY <1>2, <1>7, <1>9 DEF EvictSage, At, TabAt, TabBecomes, TabRecord
    <2>2. sage' = [sage EXCEPT ![CompilerOf[t]] = Nothing] /\ graph' = graph
        BY <1>9 DEF EvictSage
    <2> QED BY <1>6, <1>7, <1>8, <2>1, <2>2
<1>10. ASSUME NEW v \in Versions, DeleteKey(t, v)
       PROVE  UnpinnedLeavesTheCache /\ StoredIsAuthenticated
    <2>1. tab[t].at = "purge" /\ v \in tab[t].keys /\ v \notin tab'[t].keys
        BY <1>2, <1>7, <1>10 DEF DeleteKey, At, TabBecomes, TabRecord
    <2>2. sage' = [sage EXCEPT ![v] = Nothing] /\ graph' = graph BY <1>10 DEF DeleteKey
    <2> QED BY <1>6, <1>8, <2>1, <2>2
<1>11. CASE StoreSage(t)
    <2>1. tab'[t].at = "idle" /\ tab[t].at = "purge" /\ graph' = graph
        BY <1>7, <1>11 DEF StoreSage, At, Returns, TabBecomes, IdleTab, NewLoad
    <2>2. sage' = sage \/ sage' = [sage EXCEPT ![CompilerOf[t]] = StoredEntry(t)]
        BY <1>11 DEF StoreSage
    <2>3. StoredEntry(t) = CacheEntry(CompilerOf[t], CompilerOf[t], CompilerOf[t])
        BY DEF StoredEntry
    <2> QED BY <1>1, <1>6, <1>7, <1>8, <2>1, <2>2, <2>3
<1> QED BY <1>3, <1>4, <1>5, <1>9, <1>10, <1>11 DEF CacheStep

\* What the tab's own compiler stored passes every check of a warm load.
LEMMA StoredIsUsed ==
    ASSUME CacheInv, NEW u \in Tabs, CacheStep(u) \/ \E pin \in Pins[u] : StartLoad(u, pin)
    PROVE  StoredProgramsAreUsed
<1> SUFFICES ASSUME NEW t \in Tabs, At(t, "entry"), tab[t].seen = StoredEntry(t),
                    tab[t].pin = CompilerOf[t]
             PROVE  tab'[t].at # "evict"
    BY DEF StoredProgramsAreUsed
<1>1. tab \in [Tabs -> TabRecord] BY DEF CacheInv
<1>2. CASE u = t
    <2>1. UseEntry(t)
        BY <1>2 DEF At, CacheStep, StartLoad, MatchSage, EvictSage, MatchGraph, EvictGraph,
           FetchGraph, StoreGraph, Compile, ListKeys, DeleteKey, StoreSage
    <2>2. /\ tab[t].seen.program = CompilerOf[t] /\ tab[t].seen.meta = CompilerOf[t]
          /\ tab[t].seen.hash = CompilerOf[t]
        BY DEF StoredEntry, CacheEntry
    <2>3. EntryIsTrusted(tab[t].seen, CompilerOf[t], tab[t].pin) BY <2>2 DEF EntryIsTrusted
    <2>4. Decodes(t, tab[t].seen.program) = {TRUE} BY <2>2 DEF Decodes
    <2>5. TabBecomes(t, IdleTab) BY <2>1, <2>3, <2>4 DEF UseEntry, Returns
    <2> QED BY <1>1, <2>5 DEF TabBecomes, IdleTab, NewLoad
<1>3. CASE u # t
    <2>1. \E load : TabBecomes(u, load)
        BY DEF CacheStep, StartLoad, MatchSage, UseEntry, EvictSage, MatchGraph, EvictGraph,
           FetchGraph, AfterFetch, StoreGraph, Compile, ListKeys, DeleteKey, StoreSage,
           Authenticated, Returns, Throws, TabAt
    <2>2. tab'[t] = tab[t] BY <1>1, <1>3, <2>1 DEF TabBecomes
    <2> QED BY <2>2 DEF At
<1> QED BY <1>2, <1>3

\* A step of the cache's callers stores only what a pinned call authenticated.
LEMMA CacheChange ==
    CacheInv /\ Counted /\ [CacheNext]_cacheVars
        => [UnpinnedLeavesTheCache /\ StoredIsAuthenticated /\ StoredProgramsAreUsed]_cacheVars
<1> SUFFICES ASSUME CacheInv, Counted, CacheNext
             PROVE  UnpinnedLeavesTheCache /\ StoredIsAuthenticated /\ StoredProgramsAreUsed
    OBVIOUS
<1>1. CASE Tamper
    <2>1. tampers' # tampers /\ tab' = tab BY <1>1 DEF Tamper, Counted
    <2> QED BY <2>1 DEF UnpinnedLeavesTheCache, StoredIsAuthenticated, StoredProgramsAreUsed, At
<1> QED BY <1>1, StepStores, StoredIsUsed DEF CacheNext

\* The count of damaged entries starts as a number.
LEMMA CountedAtStart == CacheInit => Counted
BY DEF CacheInit, Counted

\* An unpinned load leaves the derived cache as it is, a call stores only what
\* it authenticated, and what one call stored another does not compile again
\* (sparrow-cache-api.mjs: deleteCachedSagePrograms and its callers).
THEOREM CacheChangesAreAuthenticated ==
    CacheSpec =>
        [][UnpinnedLeavesTheCache /\ StoredIsAuthenticated /\ StoredProgramsAreUsed]_cacheVars
BY CacheChange, CountedAtStart, CacheInvAtStart, CacheInvKept, StaysCounted, PTL DEF CacheSpec
-----------------------------------------------------------------------------
(* The suite: one component runs, the others stand still *)

\* What starts the suite starts each component.
LEMMA SuiteStarts ==
    SuiteInit => Init /\ ForeignInit /\ SessionInit /\ CacheInit
BY DEF SuiteInit

\* A step of the suite is a step, or none, of each component.
LEMMA SuiteSteps ==
    [SuiteNext]_suiteVars =>
        /\ [Next]_vars /\ [ForeignNext]_foreignVars
        /\ [SessionNext]_sessionVars /\ [CacheNext]_cacheVars
<1>1. ASSUME UNCHANGED queueVars PROVE UNCHANGED vars
    BY <1>1 DEF queueVars, vars, state, thread
<1> QED BY <1>1 DEF SuiteNext, suiteVars

\* For any queue, pool of threads, trees, cache entries and calls, overlapping
\* authentication passes included: a call that is refused, or that fails, leaves
\* every other alone.
THEOREM RefusedCallsDisturbNoOtherHolds ==
    SuiteSpec => RefusedCallsDisturbNoOther
<1>1. SuiteSpec => FullOnlyWhenFull
    <2>1. SuiteSpec => Spec
        BY SuiteStarts, SuiteSteps, PTL DEF SuiteSpec, Spec
    <2> QED BY <2>1, FullOnlyWhenFullHolds, PTL
<1>2. SuiteSpec => [][RejectedCallsAreRetriable]_foreignVars
    <2>1. SuiteSpec => ForeignSpec
        BY SuiteStarts, SuiteSteps, PTL DEF SuiteSpec, ForeignSpec
    <2> QED BY <2>1, RejectedCallsAreRetriableHolds, PTL
<1>3. SuiteSpec => [][OnlyItsCallEndsAProof /\ GraphIsReleasedForAProof]_sessionVars
    <2>1. SuiteSpec => SessionSpec
        BY SuiteStarts, SuiteSteps, PTL DEF SuiteSpec, SessionSpec
    <2> QED BY <2>1, ProofsEndByTheirCallHolds, PTL
<1>4. SuiteSpec =>
        [][UnpinnedLeavesTheCache /\ StoredIsAuthenticated /\ StoredProgramsAreUsed]_cacheVars
    BY SuiteStarts, SuiteSteps, CacheChange, CountedAtStart, CacheInvAtStart, CacheInvKept,
       StaysCounted, PTL DEF SuiteSpec
<1> QED BY <1>1, <1>2, <1>3, <1>4, PTL DEF RefusedCallsDisturbNoOther
=============================================================================
