----------------------------- MODULE SageCache ------------------------------
(***************************************************************************)
(* The browser cache adapter (loadOrCompileStreamingProver,                *)
(* authenticatedCachedArtifact, deleteCachedSagePrograms).  Tabs share one *)
(* CacheStorage; each runs a compiler version and holds a trusted program  *)
(* pin or none.  A step runs from one await to the next, so tabs interleave*)
(* between a match, a delete and a put; storage and network may serve      *)
(* anything.                                                               *)
(*                                                                         *)
(* The program compiled from the pinned graph by compiler v is v; any      *)
(* other program is 0.  A digest is what it was taken of.                  *)
(***************************************************************************)
EXTENDS Integers, FiniteSets

CONSTANTS
    Tabs,
    CompilerOf,     \* sageCacheVersion() of each tab's WASM module
    Pins,           \* the trusted program digests each tab may be given; Nothing
    MaxLoads,       \* calls over the run
    MaxTampers,     \* entries storage damages over the run
    Nothing

Versions == {CompilerOf[t] : t \in Tabs}
Programs == Versions \cup {0}

ASSUME CacheAssumption ==
    /\ \A t \in Tabs : CompilerOf[t] \in Nat \ {0} /\ Pins[t] \subseteq Programs \cup {Nothing}
    /\ MaxLoads \in Nat /\ MaxTampers \in Nat
    /\ Nothing \notin Programs \cup [meta : Versions, hash : Programs, program : Programs]

VARIABLES
    graph,      \* the entry of graphUrl: Nothing, "good" or "bad"
    sage,       \* the derived entry of each compiler version
    tab,        \* each tab's running call
    loaded,     \* the program of the prover a tab's last call returned
    loads, tampers

cacheVars == <<graph, sage, tab, loaded, loads, tampers>>

CacheEntry(meta, hash, program) == [meta |-> meta, hash |-> hash, program |-> program]
Entries == [meta : Versions, hash : Programs, program : Programs]

\* A call that has read nothing yet.
NewLoad(place, pin) == [at |-> place, pin |-> pin, seen |-> Nothing, keys |-> {}, live |-> 0]
IdleTab == NewLoad("idle", Nothing)

CacheInit ==
    /\ graph \in {Nothing, "good", "bad"}
    /\ sage = [v \in Versions |-> Nothing]
    /\ tab = [t \in Tabs |-> IdleTab]
    /\ loaded = [t \in Tabs |-> Nothing]
    /\ loads = 0 /\ tampers = 0

At(t, place) == tab[t].at = place
TabBecomes(t, running) == tab' = [tab EXCEPT ![t] = running]
TabAt(t, place) == TabBecomes(t, [tab[t] EXCEPT !.at = place])

\* The call throws, or returns a prover of `program`.
Throws(t) == TabBecomes(t, IdleTab) /\ UNCHANGED loaded
Returns(t, program) ==
    /\ TabBecomes(t, IdleTab)
    /\ loaded' = [loaded EXCEPT ![t] = program]

-----------------------------------------------------------------------------
(* A warm load *)

\* The call up to its first await: the derived cache is read under a pin only.
StartLoad(t, pin) ==
    /\ At(t, "idle") /\ loads < MaxLoads
    /\ loads' = loads + 1
    /\ TabBecomes(t, NewLoad(IF pin = Nothing THEN "graph" ELSE "sage", pin))
    /\ loaded' = [loaded EXCEPT ![t] = Nothing]
    /\ UNCHANGED <<graph, sage, tampers>>

\* cache.match(request)
MatchSage(t) ==
    LET entry == sage[CompilerOf[t]]
    IN  /\ At(t, "sage")
        /\ TabBecomes(t, [tab[t] EXCEPT !.at = IF entry = Nothing THEN "graph" ELSE "entry",
                                        !.seen = entry])
        /\ UNCHANGED <<graph, sage, loaded, loads, tampers>>

\* Mutation: a digest stored next to the program vouches for it.
EntryIsTrusted_SelfVouched(entry, compiler, pin) ==
    entry.meta = compiler /\ entry.hash = entry.program

\* Metadata of this compiler, a stored digest that holds, and the trusted pin.
EntryIsTrusted(entry, compiler, pin) ==
    entry.meta = compiler /\ entry.hash = entry.program /\ entry.program = pin

\* fromCompiledSageWithConfig: whether a program that is not this compiler's
\* decodes is the program's affair.
Decodes(t, program) == IF program = CompilerOf[t] THEN {TRUE} ELSE BOOLEAN

\* The body read and hashed; the prover constructed.
UseEntry(t) ==
    LET entry == tab[t].seen
    IN  /\ At(t, "entry")
        /\ \E decodes \in Decodes(t, entry.program) :
            IF EntryIsTrusted(entry, CompilerOf[t], tab[t].pin) /\ decodes
            THEN Returns(t, entry.program)
            ELSE TabAt(t, "evict") /\ UNCHANGED loaded
        /\ UNCHANGED <<graph, sage, loads, tampers>>

\* cache.delete(request): whatever is there now.
EvictSage(t) ==
    /\ At(t, "evict")
    /\ sage' = [sage EXCEPT ![CompilerOf[t]] = Nothing]
    /\ TabAt(t, "graph")
    /\ UNCHANGED <<graph, loaded, loads, tampers>>

-----------------------------------------------------------------------------
(* A cold load *)

\* `authenticate` is fromSignetWithConfig: it holds a prover once it accepts.
Authenticated(t, place) == TabBecomes(t, [tab[t] EXCEPT !.at = place, !.live = 1])

\* cache.match(graphUrl), the bounded body, and its authentication.
MatchGraph(t) ==
    /\ At(t, "graph")
    /\ \/ graph = Nothing /\ TabAt(t, "fetch")
       \/ graph = "good" /\ Authenticated(t, "compiled")
       \/ graph = "bad" /\ TabAt(t, "evict graph")
    /\ UNCHANGED <<graph, sage, loaded, loads, tampers>>

EvictGraph(t) ==
    /\ At(t, "evict graph")
    /\ graph' = Nothing
    /\ TabAt(t, "fetch")
    /\ UNCHANGED <<sage, loaded, loads, tampers>>

\* Bad or oversized network bytes are not stored and not fetched again.
AfterFetch(t, good) ==
    /\ IF good THEN Authenticated(t, "store graph") /\ UNCHANGED loaded ELSE Throws(t)
    /\ UNCHANGED graph

\* fetch, the bounded body and its authentication; or the network fails.
FetchGraph(t) ==
    /\ At(t, "fetch")
    /\ \/ Throws(t) /\ UNCHANGED graph
       \/ \E good \in BOOLEAN : AfterFetch(t, good)
    /\ UNCHANGED <<sage, loads, tampers>>

\* cache.put(graphUrl), which the quota may refuse.
StoreGraph(t) ==
    /\ At(t, "store graph")
    /\ graph' \in {graph, "good"}
    /\ TabAt(t, "compiled")
    /\ UNCHANGED <<sage, loaded, loads, tampers>>

\* A program that does not match the pin is refused after it is compiled.
PinRefuses(pin, program) == pin # Nothing /\ program # pin

\* The compiler's prover is freed before its program is decoded again.
LiveAfterDecode(live) == 1

\* Only a pinned load writes the derived cache.
Caches(pin) == pin # Nothing

\* compiledSageProgram, its digest and pin, and the decoded prover.
Compile(t) ==
    LET program == CompilerOf[t]
    IN  /\ At(t, "compiled")
        /\ \/ PinRefuses(tab[t].pin, program) /\ Throws(t)
           \/ /\ ~PinRefuses(tab[t].pin, program)
              /\ IF Caches(tab[t].pin)
                 THEN /\ TabBecomes(t, [tab[t] EXCEPT !.at = "keys", !.live = LiveAfterDecode(@)])
                      /\ UNCHANGED loaded
                 ELSE Returns(t, program)
        /\ UNCHANGED <<graph, sage, loads, tampers>>

\* deleteCachedSagePrograms: cache.keys(), then every delete at once.
ListKeys(t) ==
    /\ At(t, "keys")
    /\ TabBecomes(t, [tab[t] EXCEPT !.at = "purge",
                                    !.keys = {v \in Versions : sage[v] # Nothing}])
    /\ UNCHANGED <<graph, sage, loaded, loads, tampers>>

DeleteKey(t, v) ==
    /\ At(t, "purge") /\ v \in tab[t].keys
    /\ sage' = [sage EXCEPT ![v] = Nothing]
    /\ TabBecomes(t, [tab[t] EXCEPT !.keys = @ \ {v}])
    /\ UNCHANGED <<graph, loaded, loads, tampers>>

\* cache.put(request) of the decoded program, which the quota may refuse.
StoredEntry(t) == CacheEntry(CompilerOf[t], CompilerOf[t], CompilerOf[t])

StoreSage(t) ==
    /\ At(t, "purge") /\ tab[t].keys = {}
    /\ \/ sage' = [sage EXCEPT ![CompilerOf[t]] = StoredEntry(t)]
       \/ UNCHANGED sage
    /\ Returns(t, CompilerOf[t])
    /\ UNCHANGED <<graph, loads, tampers>>

-----------------------------------------------------------------------------
(* The storage *)

Tamper ==
    /\ tampers < MaxTampers /\ tampers' = tampers + 1
    /\ \/ /\ \E v \in Versions, entry \in Entries \cup {Nothing} :
                sage' = [sage EXCEPT ![v] = entry]
          /\ UNCHANGED graph
       \/ graph' \in {Nothing, "bad"} /\ UNCHANGED sage
    /\ UNCHANGED <<tab, loaded, loads>>

\* One step of a call: a promise the browser owes is settled in time.
CacheStep(t) ==
    \/ MatchSage(t) \/ UseEntry(t) \/ EvictSage(t)
    \/ MatchGraph(t) \/ EvictGraph(t) \/ FetchGraph(t) \/ StoreGraph(t) \/ Compile(t)
    \/ ListKeys(t) \/ StoreSage(t)
    \/ \E v \in Versions : DeleteKey(t, v)

CacheNext ==
    \/ \E t \in Tabs : CacheStep(t) \/ \E pin \in Pins[t] : StartLoad(t, pin)
    \/ Tamper

CacheSpec == CacheInit /\ [][CacheNext]_cacheVars /\ \A t \in Tabs : WF_cacheVars(CacheStep(t))

-----------------------------------------------------------------------------
(* Properties *)

\* Every variable keeps its type, and a call never holds two SAGE graphs: the
\* compiler's prover is freed before its program is decoded.
CacheTypeOK ==
    /\ graph \in {Nothing, "good", "bad"}
    /\ sage \in [Versions -> Entries \cup {Nothing}]
    /\ loaded \in [Tabs -> Programs \cup {Nothing}]
    /\ \A t \in Tabs :
        /\ tab[t].pin \in Pins[t] \cup {Nothing}
        /\ tab[t].seen \in Entries \cup {Nothing}
        /\ tab[t].keys \subseteq Versions
        /\ tab[t].live \in 0..1

\* Whatever storage and network served, the prover a call returns runs the
\* program its compiler makes of the pinned graph, or the pinned program
\* (sparrow-cache-api.mjs: loadOrCompileStreamingProver).
OnlyTrustedProgramsRun ==
    /\ CacheTypeOK
    /\ \A t \in Tabs :
        loaded[t] # Nothing => loaded[t] \in {CompilerOf[t]} \cup (Pins[t] \ {Nothing})

\* A load without a pin leaves the derived cache as it is, neither read nor
\* written (loadOrCompileStreamingProver).
UnpinnedLeavesTheCache ==
    sage' # sage =>
        \/ tampers' # tampers
        \/ \E t \in Tabs : tab[t].pin # Nothing /\ tab'[t] # tab[t]

\* A call stores only what it authenticated: an entry that changes to another
\* one in a tab's step becomes the good graph or the compiler's own program,
\* with metadata a warm load accepts.
StoredIsAuthenticated ==
    tampers' = tampers =>
        /\ graph' # graph => graph' \in {Nothing, "good"}
        /\ \A v \in Versions :
            sage'[v] # sage[v] => sage'[v] \in {Nothing, CacheEntry(v, v, v)}

\* What one call stored is a warm load to every other: a call pinned to its
\* compiler's program that reads a stored entry does not compile again.
StoredProgramsAreUsed ==
    \A t \in Tabs :
        (At(t, "entry") /\ tab[t].seen = StoredEntry(t) /\ tab[t].pin = CompilerOf[t])
            => tab'[t].at # "evict"

\* Every call returns or throws, whatever the other tabs evict meanwhile.
LoadsSettle == \A t \in Tabs : ~At(t, "idle") ~> At(t, "idle")
=============================================================================
