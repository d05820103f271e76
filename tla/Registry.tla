------------------------------ MODULE Registry ------------------------------
(***************************************************************************)
(* The handle registries of bindings/ffi/src/registry.rs, one per object   *)
(* type, and the calls of the C ABI on them: construct, operate, free.     *)
(*                                                                         *)
(* A step of a thread is one critical section of the map lock, the wait    *)
(* for an object's lock, or the body that runs under it.  Each type that   *)
(* holds a key is freed with `remove_with(handle, |key| drop(key.take()))` *)
(* and checks `key.as_ref()` in its operations; the others use `remove`.   *)
(***************************************************************************)
EXTENDS Integers, Sequences

CONSTANTS
    Threads,
    Types, KeyTypes,   \* object types, and those that hold a key
    NoThread,
    MaxHandle          \* u64::MAX

ASSUME RegistryAssumption ==
    KeyTypes \subseteq Types /\ NoThread \notin Threads /\ MaxHandle \in Nat \ {0}

VARIABLES
    nextHandle,   \* NEXT_HANDLE, shared by every registry
    entries,      \* entries[type]: handle |-> object
    objects,      \* each object ever inserted: [type, handle, key, holder]
    call,         \* what each thread is doing
    freed,        \* ghost: objects whose free has returned Ok, in that order
    signed        \* ghost: the last object whose key an operation used, or 0

registryVars == <<nextHandle, entries, objects, call, freed, signed>>

\* An object is its position in `objects`: no two allocations are the same.
Objects == DOMAIN objects
Handles == 0..MaxHandle

Returned == [at |-> "returned"]

RegistryInit ==
    /\ nextHandle = 1
    /\ entries = [type \in Types |-> <<>>]
    /\ objects = <<>>
    /\ call = [t \in Threads |-> Returned]
    /\ freed = <<>> /\ signed = 0

Goes(t, where) == call' = [call EXCEPT ![t] = where]

\* Mutation: the counter wraps.
Reserve_Wraps(t, type) ==
    /\ call[t] = Returned
    /\ Len(objects) <= MaxHandle  \* any bound past the wrap
    /\ nextHandle' = (nextHandle + 1) % (MaxHandle + 1)
    /\ Goes(t, [at |-> "insert", type |-> type, handle |-> nextHandle])
    /\ UNCHANGED <<entries, objects, freed, signed>>

\* `insert` up to its atomic update; past the last handle it panics, which
\* `guard` turns into a status.
Reserve(t, type) ==
    /\ call[t] = Returned
    /\ IF nextHandle < MaxHandle
       THEN /\ nextHandle' = nextHandle + 1
            /\ Goes(t, [at |-> "insert", type |-> type, handle |-> nextHandle])
       ELSE UNCHANGED <<nextHandle, call>>
    /\ UNCHANGED <<entries, objects, freed, signed>>

\* The rest of `insert`, under the map lock.
Insert(t) ==
    LET c == call[t]
        object == Len(objects) + 1
    IN  /\ c.at = "insert"
        /\ objects' = Append(objects, [type |-> c.type, handle |-> c.handle,
                                       key |-> TRUE, holder |-> NoThread])
        /\ entries' = [entries EXCEPT ![c.type] =
                          [h \in DOMAIN @ \cup {c.handle} |->
                              IF h = c.handle THEN object ELSE @[h]]]
        /\ Goes(t, Returned)
        /\ UNCHANGED <<nextHandle, freed, signed>>

\* `with` and `with_mut` under the map lock; an unknown handle returns.
Lookup(t, type, handle) ==
    /\ call[t] = Returned
    /\ handle \in DOMAIN entries[type]
    /\ Goes(t, [at |-> "operate", object |-> entries[type][handle]])
    /\ UNCHANGED <<nextHandle, entries, objects, freed, signed>>

\* Mutation: the entry stays in its map while the free waits for the object.
RemoveEntry_AfterWait(t, type, handle) ==
    /\ call[t] = Returned
    /\ handle \in DOMAIN entries[type]
    /\ Goes(t, [at |-> "free", object |-> entries[type][handle]])
    /\ UNCHANGED <<nextHandle, entries, objects, freed, signed>>

\* `remove_with` under the map lock: the entry goes first.
RemoveEntry(t, type, handle) ==
    /\ call[t] = Returned
    /\ handle \in DOMAIN entries[type]
    /\ Goes(t, [at |-> "free", object |-> entries[type][handle]])
    /\ entries' = [entries EXCEPT ![type] = [h \in DOMAIN @ \ {handle} |-> @[h]]]
    /\ UNCHANGED <<nextHandle, objects, freed, signed>>

\* A call on a handle its registry does not know: InvalidHandle.
Unknown(t, type, handle) ==
    /\ call[t] = Returned
    /\ handle \notin DOMAIN entries[type]
    /\ UNCHANGED registryVars

\* The object's lock.  A poisoned one is taken like any other.
Acquire(t) ==
    LET c == call[t]
    IN  /\ c.at \in {"operate", "free"}
        /\ objects[c.object].holder = NoThread
        /\ objects' = [objects EXCEPT ![c.object].holder = t]
        /\ Goes(t, [c EXCEPT !.at = IF c.at = "free" THEN "clear" ELSE "body"])
        /\ UNCHANGED <<nextHandle, entries, freed, signed>>

\* The body of an operation, to its return or its panic.
Body(t) ==
    LET c == call[t]
    IN  /\ c.at = "body"
        /\ objects' = [objects EXCEPT ![c.object].holder = NoThread]
        /\ signed' = IF objects[c.object].type \in KeyTypes /\ objects[c.object].key
                     THEN c.object ELSE signed
        /\ Goes(t, Returned)
        /\ UNCHANGED <<nextHandle, entries, freed>>

\* Mutation: a free does not clear the key.
Clear_KeepsKey(t) ==
    LET c == call[t]
    IN  /\ c.at = "clear"
        /\ objects' = [objects EXCEPT ![c.object].holder = NoThread]
        /\ freed' = Append(freed, c.object)
        /\ Goes(t, Returned)
        /\ UNCHANGED <<nextHandle, entries, signed>>

\* `clear` under the object's lock, and the return of the free call.
Clear(t) ==
    LET c == call[t]
    IN  /\ c.at = "clear"
        /\ objects' = [objects EXCEPT ![c.object].holder = NoThread,
                                      ![c.object].key = @ /\ objects[c.object].type \notin KeyTypes]
        /\ freed' = Append(freed, c.object)
        /\ Goes(t, Returned)
        /\ UNCHANGED <<nextHandle, entries, signed>>

Step(t) == Insert(t) \/ Acquire(t) \/ Body(t) \/ Clear(t)

Call(t) ==
    \E type \in Types :
        \/ Reserve(t, type)
        \/ \E handle \in Handles :
              Lookup(t, type, handle) \/ RemoveEntry(t, type, handle) \/ Unknown(t, type, handle)

RegistryNext == \E t \in Threads : Step(t) \/ Call(t)

\* A thread inside a call keeps running, and takes a lock that stays free.
\* Nothing forces a thread to make a call, and no lock is fair.
RegistrySpec == RegistryInit /\ [][RegistryNext]_registryVars /\ \A t \in Threads : WF_registryVars(Step(t))
-----------------------------------------------------------------------------
\* "Handles are monotonic and never reused, so stale handles cannot resolve
\* to a different object": even with the counter at its limit, two objects of
\* any types never get one handle, and 0 is nobody's.
HandlesNeverReused ==
    /\ \A x, y \in Objects : objects[x].handle = objects[y].handle => x = y
    /\ \A x \in Objects : objects[x].handle \in 1..(MaxHandle - 1)
    /\ \A type \in Types : \A h \in DOMAIN entries[type] :
          objects[entries[type][h]].handle = h /\ objects[entries[type][h]].type = type

\* However many threads free one handle, one call of them returns Ok.
FreedOnce == \A i, j \in DOMAIN freed : freed[i] = freed[j] => i = j

\* "Queued operations may retain an Arc but can only observe the cleared
\* value": once a free of a key has returned, no operation that was already
\* past its lookup uses the key.
NoUseAfterFree == [][signed' # signed => \A i \in DOMAIN freed : freed[i] # signed']_registryVars

\* A free that removed its entry returns, whatever calls other threads keep
\* making: only operations that had already looked the object up are ahead.
FreeReturns ==
    \A t \in Threads : call[t].at = "free" ~> call[t] = Returned

-----------------------------------------------------------------------------
(***************************************************************************)
(* `guard` of bindings/ffi/src/abi.rs and the per-thread error slot that   *)
(* curvy_last_error reads, on threads the host owns.                       *)
(*                                                                         *)
(* A fallible call enters the guard, runs its body and leaves; the process *)
(* panic hook runs between the body's panic and the catch.  Around the     *)
(* calls the host panics and unwinds, calls in from destructors while it   *)
(* does, and calls in again from thread-local destructors, when the slots  *)
(* of this file may be gone.                                               *)
(***************************************************************************)

CONSTANTS
    Callers,   \* threads of the host that call in
    MaxCalls   \* bound: calls a thread makes

ASSUME CallGuardAssumption == MaxCalls \in Nat

VARIABLES
    hooked,   \* whether install_panic_hook has run
    host,     \* each thread of the host: [unwinding, missed]: a hook that
              \* did not chain cost it a panic of its own
    local,    \* its thread locals: GUARD_DEPTH, LAST_ERROR, which of them live
    current,  \* its current or last fallible call
    leaks     \* ghost: guarded calls whose panic payload reached the host's hook

guardVars == <<hooked, host, local, current, leaks>>

Null == [of |-> 0, text |-> "null"]
\* "Failed" stands for Error, InvalidArgument and InvalidHandle.
Statuses == {"Ok", "Failed", "Panic"}

\* A message and the call that wrote it.
Message(t, text) == [of |-> current[t].id, text |-> text]

GuardInit ==
    /\ hooked = FALSE
    /\ host = [t \in Callers |-> [unwinding |-> FALSE, missed |-> FALSE]]
    /\ local = [t \in Callers |-> [depth |-> 0, error |-> Null,
                                   depthLives |-> TRUE, errorLives |-> TRUE]]
    /\ current = [t \in Callers |-> [id |-> 0, at |-> "host", status |-> "Ok",
                                     unwinding |-> FALSE]]
    /\ leaks = {}

\* replace_last_error: a destroyed slot drops the message.
Replaced(l, message) == IF l.errorLives THEN [l EXCEPT !.error = message] ELSE l

\* GUARD_DEPTH.try_with: a destroyed slot is left alone.
Entered(l) == IF l.depthLives THEN [l EXCEPT !.depth = @ + 1] ELSE l
Left(l) == IF l.depthLives /\ l.depth > 0 THEN [l EXCEPT !.depth = @ - 1] ELSE l

\* The hook's test: no depth to read means thread teardown.
Guarded(l) == l.depthLives => l.depth # 0

\* The status `guard` returns, with the message its body or the hook left.
Return(t, l, status) ==
    /\ local' = [local EXCEPT ![t] = Left(l)]
    /\ current' = [current EXCEPT ![t].at = "host", ![t].status = status]

\* enter_guard and the clearing of the previous message.
Enter(t) ==
    /\ current[t].at = "host" /\ current[t].id < MaxCalls
    /\ hooked' = (hooked \/ ~host[t].unwinding)
    /\ local' = [local EXCEPT ![t] = Replaced(Entered(@), Null)]
    /\ current' = [current EXCEPT ![t].id = @ + 1, ![t].at = "body",
                                  ![t].unwinding = host[t].unwinding]
    /\ UNCHANGED <<host, leaks>>

Succeed(t) ==
    /\ current[t].at = "body"
    /\ Return(t, local[t], "Ok")
    /\ UNCHANGED <<hooked, host, leaks>>

\* Failure::report, null_output and free_status.
Report(t) ==
    /\ current[t].at = "body"
    /\ Return(t, Replaced(local[t], Message(t, "reported")), "Failed")
    /\ UNCHANGED <<hooked, host, leaks>>

\* The depth taken back by the body instead of by a drop.
Panic_KeepsDepth(t) ==
    /\ current[t].at = "body"
    /\ local' = [local EXCEPT ![t] = Replaced(@, Message(t, "location"))]
    /\ current' = [current EXCEPT ![t].at = "host", ![t].status = "Panic"]
    /\ UNCHANGED <<hooked, host, leaks>>

\* The body panics: the process hook, the drop of ActiveGuard, the catch.
Panic(t) ==
    LET redacted == hooked /\ Guarded(local[t])
    IN  /\ current[t].at = "body"
        /\ Return(t, IF redacted THEN Replaced(local[t], Message(t, "location"))
                                 ELSE local[t], "Panic")
        /\ leaks' = IF redacted THEN leaks ELSE leaks \cup {[thread |-> t, unwinding |-> current[t].unwinding]}
        /\ UNCHANGED <<hooked, host>>

\* null_output before any guard.
RejectNullOutput(t) ==
    /\ current[t].at = "host" /\ current[t].id < MaxCalls
    /\ LET id == current[t].id + 1
       IN  /\ current' = [current EXCEPT ![t].id = id, ![t].status = "Failed"]
           /\ local' = [local EXCEPT ![t] =
                           Replaced(@, [of |-> id, text |-> "reported"])]
    /\ UNCHANGED <<hooked, host, leaks>>

\* curvy_last_error
LastError(t) == IF local[t].errorLives THEN local[t].error ELSE Null

(***************************************************************************)
(* The host.                                                               *)
(***************************************************************************)

\* Host code outside every call panics: the installed hook redacts or chains.
HostPanic(t) ==
    /\ current[t].at = "host" /\ ~host[t].unwinding
    /\ LET redacted == hooked /\ Guarded(local[t])
       IN  /\ local' = IF redacted
                       THEN [local EXCEPT ![t] = Replaced(@, Message(t, "location"))]
                       ELSE local
           /\ host' = [host EXCEPT ![t] = [unwinding |-> TRUE,
                                           missed |-> @.missed \/ redacted]]
    /\ UNCHANGED <<hooked, current, leaks>>

HostCatch(t) ==
    /\ current[t].at = "host" /\ host[t].unwinding
    /\ host' = [host EXCEPT ![t].unwinding = FALSE]
    /\ UNCHANGED <<hooked, local, current, leaks>>

\* A thread-local destructor of the host runs after those of this file.  The
\* depth needs no destructor: whether it goes too depends on the platform.
Teardown(t, depthGoes) ==
    /\ current[t].at = "host" /\ local[t].errorLives
    /\ local' = [local EXCEPT ![t].errorLives = FALSE, ![t].error = Null,
                              ![t].depthLives = ~depthGoes,
                              ![t].depth = IF depthGoes THEN 0 ELSE @]
    /\ UNCHANGED <<hooked, host, current, leaks>>

GuardNext ==
    \E t \in Callers :
        \/ Enter(t) \/ Succeed(t) \/ Report(t) \/ Panic(t) \/ RejectNullOutput(t)
        \/ HostPanic(t) \/ HostCatch(t)
        \/ \E depthGoes \in BOOLEAN : Teardown(t, depthGoes)

GuardSpec == GuardInit /\ [][GuardNext]_guardVars

(***************************************************************************)
(* Properties                                                              *)
(***************************************************************************)

\* The shapes of the hook, the thread locals and the calls of abi.rs.
GuardTypeOK ==
    /\ hooked \in BOOLEAN
    /\ host \in [Callers -> [unwinding : BOOLEAN, missed : BOOLEAN]]
    /\ local \in [Callers ->
           [depth : Nat, depthLives : BOOLEAN, errorLives : BOOLEAN,
            error : [of : Nat, text : {"null", "reported", "location"}]]]
    /\ current \in [Callers ->
           [id : 0..MaxCalls, at : {"host", "body"}, status : Statuses,
            unwinding : BOOLEAN]]
    /\ leaks \subseteq [thread : Callers, unwinding : BOOLEAN]

\* The messages a returned call may leave the caller of curvy_last_error.
Promised(t) ==
    CASE current[t].status = "Ok" -> {Null}
      [] current[t].status = "Panic" ->
             {Message(t, "location")} \cup IF current[t].unwinding THEN {Null} ELSE {}
      [] OTHER -> {Message(t, "reported")}

\* "Successful calls clear it, and rejected calls replace it": between calls a
\* thread with a live slot reads its last call's own message, whatever other
\* threads, host panics and panicked calls came before (abi.rs `guard`).
LastErrorIsTheLastCalls ==
    \A t \in Callers :
        current[t].at = "host" /\ local[t].errorLives => LastError(t) \in Promised(t)

\* No payload of a guarded body reaches the host's hook, not even during thread
\* teardown or from a thread that found the hook installed by another: only a
\* call that entered while its thread was unwinding may leak (enter_guard).
PayloadsStayRedacted ==
    \A leak \in leaks : leak.unwinding

\* The host's own panics still reach the host's hook after any mix of failed
\* and panicked calls, as long as the thread's depth can be read.
HostSeesItsOwnPanics ==
    \A t \in Callers : host[t].missed => ~local[t].depthLives

\* Whatever the threads of a host do, between calls each reads its own last
\* call's message; no payload of a guarded body reaches the host's hook and
\* no panic of the host is kept from it (abi.rs: guard, the panic hook).
MessagesStayWithTheirThread ==
    /\ GuardTypeOK
    /\ LastErrorIsTheLastCalls
    /\ PayloadsStayRedacted
    /\ HostSeesItsOwnPanics
=============================================================================
