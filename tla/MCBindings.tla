----------------------------- MODULE MCBindings -----------------------------
(***************************************************************************)
(* What callers in other languages hold: the queue of the node binding, the *)
(* handles, calls and trees of the C ABI, and the prover and the cache of the *)
(* browser package.                                                        *)
(***************************************************************************)
EXTENDS SerialQueue, Registry, ForeignTrees, StreamingSession, SageCache

CONSTANT Parts                        \* the components that run
VARIABLE part                         \* which component runs

MCMine == Values \ {FieldZero}

\* The cache entry is whole, altered, truncated or extended.
MCFiles == {<<1, 2>>, <<1, 0>>, <<1>>, <<1, 2, 0>>}

\* Each tab has its own compiler; one may be given the pin of the other, and
\* one no pin.
MCCompilerOf == [t \in Tabs |-> t]
MCPins == [t \in Tabs |-> {t, IF t = 1 THEN 2 ELSE Nothing}]

-----------------------------------------------------------------------------
(* One of them runs; the others stand still. *)

queueVars == <<prover, closes, js, pool, state, worker, running, releasing, submitted,
               refused, settled, answered>>

suiteVars == <<part, queueVars, registryVars, guardVars, foreignVars, sessionVars, cacheVars>>

SuiteInit ==
    /\ part \in Parts
    /\ Init /\ RegistryInit /\ GuardInit /\ ForeignInit
    /\ SessionInit /\ (part # "session" => cached = Pinned)
    /\ CacheInit /\ (part # "cache" => graph = Nothing)

SuiteNext ==
    \/ /\ part = "queue" /\ Next
       /\ UNCHANGED <<part, registryVars, guardVars, foreignVars, sessionVars, cacheVars>>
    \/ /\ part = "registry" /\ RegistryNext
       /\ UNCHANGED <<part, queueVars, guardVars, foreignVars, sessionVars, cacheVars>>
    \/ /\ part = "guard" /\ GuardNext
       /\ UNCHANGED <<part, queueVars, registryVars, foreignVars, sessionVars, cacheVars>>
    \/ /\ part = "foreign" /\ ForeignNext
       /\ UNCHANGED <<part, queueVars, registryVars, guardVars, sessionVars, cacheVars>>
    \/ /\ part = "session" /\ SessionNext
       /\ UNCHANGED <<part, queueVars, registryVars, guardVars, foreignVars, cacheVars>>
    \/ /\ part = "cache" /\ CacheNext
       /\ UNCHANGED <<part, queueVars, registryVars, guardVars, foreignVars, sessionVars>>

SuiteSpec ==
    /\ SuiteInit /\ [][SuiteNext]_suiteVars
    /\ Fairness
    /\ \A t \in Threads : WF_registryVars(Step(t))
    /\ \A t \in Tabs : WF_cacheVars(part = "cache" /\ CacheStep(t))

-----------------------------------------------------------------------------
(* Properties *)

\* A call that is refused, or that fails, leaves every other alone: a prove
\* call is refused only when the queue is full, a rejected call on a tree can
\* be retried, a proof ends by its own call, a graph is released in the step
\* that installs a proof, and the derived cache changes only to what a pinned
\* call authenticated.
RefusedCallsDisturbNoOther ==
    /\ FullOnlyWhenFull
    /\ [][RejectedCallsAreRetriable]_foreignVars
    /\ [][OnlyItsCallEndsAProof /\ GraphIsReleasedForAProof]_sessionVars
    /\ [][UnpinnedLeavesTheCache /\ StoredIsAuthenticated /\ StoredProgramsAreUsed]_cacheVars

\* A closed or collected prover gives its pool and its key back, a free
\* returns, and a load of a program returns or throws, whatever the other tabs
\* evict meanwhile.
CallsSettle == Released /\ FreeReturns /\ LoadsSettle
=============================================================================
