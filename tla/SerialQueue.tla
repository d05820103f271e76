---------------------------- MODULE SerialQueue ----------------------------
(***************************************************************************)
(* The proof queue of one `ResidentProver`: bindings/node/src/queue.rs and *)
(* the calls of bindings/node/src/lib.rs that use it.                      *)
(*                                                                         *)
(* Two actors share the queue's mutex.  The JavaScript thread runs prove,  *)
(* close and finalize, one at a time.  A worker of the Rayon pool runs     *)
(* `drain`.  A step is a critical section, or the work between two of      *)
(* them: a job runs, completes its promise, the pool is dropped and close  *)
(* callbacks are called without the lock.                                  *)
(***************************************************************************)
EXTENDS Naturals, Sequences

CONSTANTS
    Capacity,   \* max_pending_proofs
    MaxJobs,    \* bound: prove calls that reach the queue
    MaxCloses   \* bound: close calls

ASSUME CapacityAssumption == Capacity \in Nat \ {0}
ASSUME CallBoundAssumption == MaxJobs \in Nat /\ MaxCloses \in Nat

VARIABLES
    prover,       \* "open": ResidentProver holds the key; "closed"; "finalized"
    closes,       \* close calls made, numbered from 1
    js,           \* the close call whose critical section is over, or 0
    pool,         \* "owned" by the queue, taken by "close" or "drain", "released"
    active, closed, outstanding, waiting, onRelease,   \* State<T>
    worker,       \* where drain is
    running,      \* the job drain took, or 0
    releasing,    \* close callbacks drain took
    submitted,    \* ghost: jobs accepted, numbered from 1
    refused,      \* ghost: "full" or "closed" if the last prove call was refused
    settled,      \* promises of jobs settled, in order
    answered      \* promises of close calls resolved, in order

state == <<active, closed, outstanding, waiting, onRelease>>
thread == <<worker, running, releasing>>
vars == <<prover, closes, js, pool, state, thread, submitted, refused, settled, answered>>

Elements(s) == {s[i] : i \in DOMAIN s}

\* Some `Arc<RustResidentProver>` is left: the object, a waiting job or the
\* running one, until `ProofJob::run` drops its own, refers to the key.
KeyHeld == prover = "open" \/ waiting # <<>> \/ worker = "run"

Init ==
    /\ prover = "open" /\ closes = 0 /\ js = 0 /\ pool = "owned"
    /\ active = FALSE /\ closed = FALSE /\ outstanding = 0
    /\ waiting = <<>> /\ onRelease = <<>>
    /\ worker = "none" /\ running = 0 /\ releasing = <<>>
    /\ submitted = 0 /\ refused = "none" /\ settled = <<>> /\ answered = <<>>
-----------------------------------------------------------------------------
\* `prove`, with `submit` under the lock.  An idle queue gets a new drain.
Prove ==
    /\ js = 0 /\ prover # "finalized"
    /\ IF prover = "closed" \/ closed
       THEN refused' = "closed" /\ UNCHANGED <<state, worker, submitted>>
       ELSE IF outstanding >= Capacity
       THEN refused' = "full" /\ UNCHANGED <<state, worker, submitted>>
       ELSE /\ submitted < MaxJobs
            /\ submitted' = submitted + 1
            /\ waiting' = Append(waiting, submitted + 1)
            /\ outstanding' = outstanding + 1
            /\ active' = TRUE
            /\ worker' = IF active THEN worker ELSE "fetch"
            /\ refused' = "none"
            /\ UNCHANGED <<closed, onRelease>>
    /\ UNCHANGED <<prover, closes, js, pool, running, releasing, settled, answered>>

\* Mutation: close answers at once, with work in progress.
Close_IgnoresWork ==
    LET call == closes + 1
    IN  /\ js = 0 /\ prover # "finalized" /\ call <= MaxCloses
        /\ closes' = call
        /\ prover' = "closed" /\ closed' = TRUE
        /\ js' = call
        /\ pool' = IF pool = "owned" THEN "close" ELSE pool
        /\ UNCHANGED <<active, outstanding, waiting, onRelease, thread, submitted, refused,
                       settled, answered>>

\* `close` up to the end of its critical section.  A busy queue leaves the
\* callback to drain; an idle one gives up its pool, if it still has it.
Close ==
    LET call == closes + 1
    IN  /\ js = 0 /\ prover # "finalized" /\ call <= MaxCloses
        /\ closes' = call
        /\ prover' = "closed"
        /\ closed' = TRUE
        /\ IF active
           THEN onRelease' = Append(onRelease, call) /\ UNCHANGED <<js, pool>>
           ELSE /\ js' = call
                /\ pool' = IF pool = "owned" THEN "close" ELSE pool
                /\ UNCHANGED onRelease
        /\ UNCHANGED <<active, outstanding, waiting, thread, submitted, refused, settled, answered>>

\* The rest of an idle close: drop the pool it took, resolve its promise.
CloseIdle ==
    /\ js # 0
    /\ js' = 0
    /\ pool' = IF pool = "close" THEN "released" ELSE pool
    /\ answered' = Append(answered, js)
    /\ UNCHANGED <<prover, closes, state, thread, submitted, refused, settled>>

\* The object is collected.  A drain in progress keeps the queue alive.
Finalize ==
    /\ js = 0 /\ prover # "finalized"
    /\ prover' = "finalized"
    /\ pool' = IF pool = "owned" /\ worker = "none" THEN "released" ELSE pool
    /\ UNCHANGED <<closes, js, state, thread, submitted, refused, settled, answered>>
-----------------------------------------------------------------------------
\* Mutation: the newest job is run first.
Fetch_Newest ==
    /\ worker = "fetch" /\ waiting # <<>>
    /\ running' = waiting[Len(waiting)] /\ waiting' = SubSeq(waiting, 1, Len(waiting) - 1)
    /\ worker' = "run"
    /\ UNCHANGED <<prover, closes, js, pool, active, closed, outstanding, onRelease, releasing,
                   submitted, refused, settled, answered>>

\* `drain` takes the next job.
Fetch ==
    /\ worker = "fetch" /\ waiting # <<>>
    /\ running' = Head(waiting) /\ waiting' = Tail(waiting)
    /\ worker' = "run"
    /\ UNCHANGED <<prover, closes, js, pool, active, closed, outstanding, onRelease, releasing,
                   submitted, refused, settled, answered>>

\* Mutation: the drain stops without clearing `active`.
GoIdle_StaysActive ==
    /\ worker = "fetch" /\ waiting = <<>> /\ ~closed
    /\ worker' = "none"
    /\ UNCHANGED <<prover, closes, js, pool, state, running, releasing, submitted, refused, settled,
                   answered>>

\* `drain` finds nothing to do: it stops, or takes the pool and callbacks of
\* a closed queue.  The last reference to a finalized prover's queue dies here.
GoIdle ==
    /\ worker = "fetch" /\ waiting = <<>>
    /\ active' = FALSE
    /\ IF closed
       THEN /\ worker' = "drop_pool"
            /\ pool' = "drain"
            /\ releasing' = onRelease /\ onRelease' = <<>>
       ELSE /\ worker' = "none"
            /\ pool' = IF prover = "finalized" THEN "released" ELSE pool
            /\ UNCHANGED <<releasing, onRelease>>
    /\ UNCHANGED <<prover, closes, js, closed, outstanding, waiting, running, submitted, refused,
                   settled, answered>>

\* Mutation: a panicking job unwinds through the drain.
Run_MayUnwind ==
    /\ worker = "run"
    /\ worker' \in {"computed", "none"}
    /\ UNCHANGED <<prover, closes, js, pool, state, running, releasing, submitted, refused,
                   settled, answered>>

\* `ProofJob::run`: whatever the outcome, a panic included, the job's key
\* reference is dropped and the completion that settles its promise returned.
Run ==
    /\ worker = "run"
    /\ worker' = "computed"
    /\ UNCHANGED <<prover, closes, js, pool, state, running, releasing, submitted, refused,
                   settled, answered>>

\* The job's place in the queue is given back.
GiveBack ==
    /\ worker = "computed"
    /\ outstanding' = outstanding - 1
    /\ worker' = "complete"
    /\ UNCHANGED <<prover, closes, js, pool, active, closed, waiting, onRelease, running, releasing,
                   submitted, refused, settled, answered>>

\* `complete()`: the promise settles.
Complete ==
    /\ worker = "complete"
    /\ settled' = Append(settled, running)
    /\ running' = 0
    /\ worker' = "fetch"
    /\ UNCHANGED <<prover, closes, js, pool, state, releasing, submitted, refused, answered>>

DropPool ==
    /\ worker = "drop_pool"
    /\ pool' = "released"
    /\ worker' = "release"
    /\ UNCHANGED <<prover, closes, js, state, running, releasing,
                   submitted, refused, settled, answered>>

\* One callback of `for release in on_release`, or the end of the drain.
Release ==
    /\ worker = "release"
    /\ IF releasing = <<>>
       THEN worker' = "none" /\ UNCHANGED <<releasing, answered>>
       ELSE /\ answered' = Append(answered, Head(releasing))
            /\ releasing' = Tail(releasing)
            /\ UNCHANGED worker
    /\ UNCHANGED <<prover, closes, js, pool, state, running, submitted, refused, settled>>

Drain == Fetch \/ GoIdle \/ Run \/ GiveBack \/ Complete \/ DropPool \/ Release

\* JavaScript makes no more calls and the worker has stopped.
Quiet == js = 0 /\ worker = "none" /\ UNCHANGED vars

Next == Prove \/ Close \/ CloseIdle \/ Finalize \/ Drain \/ Quiet

\* A pool thread runs a spawned drain to its end and a close call returns;
\* JavaScript may stop calling at any time.
Fairness == WF_vars(Drain) /\ WF_vars(CloseIdle)

Spec == Init /\ [][Next]_vars /\ Fairness
-----------------------------------------------------------------------------
\* The bound of `submit` counts exactly the jobs that wait or run, and the
\* flag is set exactly while a drain will still look at the queue, so a job
\* is never left in a queue nobody drains.
Accounting ==
    /\ outstanding = Len(waiting) + (IF worker \in {"run", "computed"} THEN 1 ELSE 0)
    /\ outstanding <= Capacity
    /\ active <=> worker \in {"fetch", "run", "computed", "complete"}

\* "Release its capacity before exposing completion to JavaScript": a prove
\* call is refused as full only when Capacity accepted promises are pending.
FullOnlyWhenFull ==
    [][refused' = "full" /\ refused' # refused
        => submitted - Len(settled) >= Capacity]_vars

\* Accepted jobs settle in the order they were accepted, each once.
SettledInOrder == settled = [i \in 1..Len(settled) |-> i] /\ Len(settled) <= submitted

\* No close is answered before every accepted proof has settled and the key
\* is free, whether the drain answers it or the close call itself.
ClosesAnsweredLast == answered # <<>> => Len(settled) = submitted /\ ~KeyHeld

\* "The promise resolves once the last of them has finished and both are
\* freed", and repeated calls "resolve at the same point".
CloseAnsweredAfterRelease == answered # <<>> => pool = "released"

\* A closed or collected prover gives its pool and its key back.
Released == (prover # "open") ~> (pool = "released" /\ ~KeyHeld)

\* The queue implements the bounded service its callers rely on.  The place
\* of a job is given back before its promise settles, so one more promise than
\* the capacity may be pending.
Service == INSTANCE ProofService WITH
    MaxUnsettled <- Capacity + 1, accepted <- submitted, settled <- Len(settled), closing <- closed,
    owed <- (1..closes) \ Elements(answered)

ImplementsService == Service!ServiceSpec
=============================================================================
