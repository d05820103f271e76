-------------------------- MODULE StreamingSession --------------------------
(***************************************************************************)
(* One WasmStreamingProver and the JavaScript calls that drive it          *)
(* (proveCachedZkey, proveCachedZkeyOnePass): hash the cached zkey, keep   *)
(* its chunk hashes, reopen it, frame it into a proof.  A step of a call   *)
(* runs from one await to the next; calls on one prover interleave there,  *)
(* and the cache entry may be replaced between two matches.                *)
(*                                                                         *)
(* Chunk i of the pinned zkey is i and any other chunk is 0; a digest is   *)
(* what it was taken of.                                                   *)
(***************************************************************************)
EXTENDS Integers, Sequences

CONSTANTS
    Requests,       \* concurrent JavaScript calls on the prover
    Chunks,         \* chunks of the pinned zkey
    Files,          \* what the cache may hold under the zkey's request
    MaxStarts,      \* calls started over the run
    MaxHostActs,    \* abortProof, resetZkeyAuthentication by the page itself
    None

ASSUME SessionAssumption ==
    /\ Chunks \in Nat \ {0} /\ MaxStarts \in Nat /\ MaxHostActs \in Nat
    /\ Files \subseteq Seq(0..Chunks)
    /\ None \notin Seq(0..Chunks) \cup [of : Requests, manifest : BOOLEAN, parsed : Seq(0..Chunks)]

Pinned == [i \in 1..Chunks |-> i]

VARIABLES
    released,       \* prover is None: a one-shot begin took the graph
    authenticator,  \* the bytes hashed by this pass; None once it is complete
    authenticated,
    proof,          \* None, or whose it is, its kind and the chunks it parsed
    recorded,       \* authenticatedResponses.get(prover): chunk hashes or None
    cached,         \* the cache entry
    session,        \* each JavaScript call
    starts, hostActs,
    overlapped      \* ghost: the hasher was reset under a pass of another call

streamingProver == <<released, authenticator, authenticated, proof>>
sessionVars == <<streamingProver, recorded, cached, session, starts, hostActs, overlapped>>

\* A call at the start of a file, or with no file yet.
CallAtStart(place, kind, valid, file, hashes) ==
    [at |-> place, kind |-> kind, valid |-> valid, file |-> file, next |-> 1, hashes |-> hashes]
FreshCall(place, kind, valid) == CallAtStart(place, kind, valid, <<>>, <<>>)
NoCall == FreshCall("idle", "framed", TRUE)

SessionInit ==
    /\ released = FALSE /\ authenticator = <<>> /\ authenticated = FALSE
    /\ proof = None /\ recorded = None
    /\ cached \in Files
    /\ session = [c \in Requests |-> NoCall]
    /\ starts = 0 /\ hostActs = 0 /\ overlapped = FALSE

Becomes(c, call) == session' = [session EXCEPT ![c] = call]
Reaches(c, place) == Becomes(c, [session[c] EXCEPT !.at = place])
Rejects(c) == Becomes(c, NoCall)

\* authenticatedResponses.has(prover) and prover.zkeyAuthenticated
HashesAreKept == recorded # None /\ authenticated

-----------------------------------------------------------------------------
(* The authentication pass *)

\* proveCachedZkey or proveCachedZkeyOnePass up to its first await.
StartProof(c, kind, valid) ==
    /\ session[c].at = "idle" /\ starts < MaxStarts
    /\ starts' = starts + 1
    /\ LET place == IF kind = "manifest" \/ HashesAreKept THEN "reopening" ELSE "matching"
       IN  Becomes(c, FreshCall(place, kind, valid))
    /\ UNCHANGED <<streamingProver, recorded, cached, hostActs, overlapped>>

CanReset == proof = None

\* Nothing asks for this before a reset: the hasher has no owner.
PassUnderWay == \E d \in Requests : session[d].at = "hashing"

\* Mutation: the flag is cleared, the hasher is not.
Reset_KeepsHasher ==
    /\ authenticator' = (IF authenticator = None THEN <<>> ELSE authenticator)
    /\ authenticated' = FALSE
    /\ overlapped' = (overlapped \/ PassUnderWay)
    /\ UNCHANGED <<released, proof>>

Reset ==
    /\ authenticator' = <<>> /\ authenticated' = FALSE
    /\ overlapped' = (overlapped \/ PassUnderWay)
    /\ UNCHANGED <<released, proof>>

\* cache.match answered; authenticateResponse up to its first await.
AuthenticateResponse(c) ==
    /\ session[c].at = "matching"
    /\ \/ HashesAreKept /\ Reaches(c, "reopening") /\ UNCHANGED <<streamingProver, overlapped>>
       \/ ~HashesAreKept /\ ~CanReset /\ Rejects(c) /\ UNCHANGED <<streamingProver, overlapped>>
       \/ /\ ~HashesAreKept /\ CanReset
          /\ Reset
          /\ Becomes(c, [session[c] EXCEPT !.at = "hashing", !.file = cached])
    /\ UNCHANGED <<recorded, cached, starts, hostActs>>

\* One chunk read and hashed; authenticateZkeyChunk.
AuthenticateChunk(c) ==
    LET chunk == session[c].file[session[c].next]
    IN  /\ session[c].at = "hashing" /\ session[c].next <= Len(session[c].file)
        /\ IF authenticator = None THEN Rejects(c) /\ UNCHANGED authenticator
           ELSE /\ authenticator' = Append(authenticator, chunk)
                /\ Becomes(c, [session[c] EXCEPT !.hashes = Append(@, chunk), !.next = @ + 1])
        /\ UNCHANGED <<released, authenticated, proof, recorded, cached, starts, hostActs, overlapped>>

\* The authenticator after a finish that matched, or did not.
AfterFinish(matches) == IF matches THEN None ELSE <<>>

\* finishZkeyAuthentication, and the hashes kept after it.
FinishAuthentication(c) ==
    LET matches == authenticator = Pinned
    IN  /\ session[c].at = "hashing" /\ session[c].next > Len(session[c].file)
        /\ IF authenticator # None /\ matches
           THEN authenticated' = TRUE /\ recorded' = session[c].hashes /\ Reaches(c, "reopening")
           ELSE Rejects(c) /\ UNCHANGED <<authenticated, recorded>>
        /\ authenticator' = IF authenticator = None THEN None ELSE AfterFinish(matches)
        /\ UNCHANGED <<released, proof, cached, starts, hostActs, overlapped>>

-----------------------------------------------------------------------------
(* A proof *)

CheckCanBegin(requiresAuthentication) ==
    /\ proof = None
    /\ ~released
    /\ requiresAuthentication => authenticated

\* A begin that fails aborts nothing (it is called before the `try`) and keeps
\* the graph: build_then_release takes it only after the build.
AfterFailedBegin(ready, kind) == UNCHANGED <<released, proof>>

\* cache.match answered again; proveResponse or proveManifestResponse up to
\* its first await.  An invalid input fails the witness evaluation.
Begin(c) ==
    LET kind == session[c].kind
        framed == kind # "manifest"
        ready == (framed => HashesAreKept) /\ CheckCanBegin(framed)
    IN  /\ session[c].at = "reopening"
        /\ IF ready /\ session[c].valid
           THEN /\ proof' = [of |-> c, manifest |-> ~framed, parsed |-> <<>>]
                /\ released' = (kind # "framed")
                /\ Becomes(c, CallAtStart("proving", kind, TRUE, cached,
                                          IF framed THEN recorded ELSE <<>>))
           ELSE Rejects(c) /\ AfterFailedBegin(ready, kind)
        /\ UNCHANGED <<authenticator, authenticated, recorded, cached, starts, hostActs, overlapped>>

\* finishProof, or the catch that aborts quietly and passes the error on.
EndsProving(c) == proof' = None /\ Rejects(c)

\* checkedResponse passes a chunk on only under its recorded hash.
ChunkIsChecked(hashes, index, chunk) == index <= Len(hashes) /\ hashes[index] = chunk

\* The push is of the proof that is active, whoever began it.  Bytes that are
\* not the next of the zkey may or may not be refused by the framing; a
\* manifest stream refuses them all.
PushChunk(c) ==
    LET index == session[c].next
        chunk == session[c].file[index]
        manifest == session[c].kind = "manifest"
        active == proof # None /\ proof.manifest = manifest
        due == active /\ chunk = Len(proof.parsed) + 1
        checked == IF manifest THEN due ELSE ChunkIsChecked(session[c].hashes, index, chunk)
        taken == /\ proof' = [proof EXCEPT !.parsed = Append(@, chunk)]
                 /\ Becomes(c, [session[c] EXCEPT !.next = @ + 1])
    IN  /\ session[c].at = "proving" /\ index <= Len(session[c].file)
        /\ \/ checked /\ active /\ taken
           \/ ~(checked /\ due) /\ EndsProving(c)
        /\ UNCHANGED <<released, authenticator, authenticated, recorded, cached, starts, hostActs, overlapped>>

\* The stream ended: finishProof takes the proof, or the stream was truncated
\* or the proof does not verify and the call aborts it.  It is gone either way.
FinishProof(c) ==
    /\ session[c].at = "proving" /\ session[c].next > Len(session[c].file)
    /\ EndsProving(c)
    /\ UNCHANGED <<released, authenticator, authenticated, recorded, cached, starts, hostActs, overlapped>>

\* The body of either pass fails to read.
ReadFails(c) ==
    /\ \/ session[c].at = "hashing" /\ Rejects(c) /\ UNCHANGED proof
       \/ session[c].at = "proving" /\ EndsProving(c)
    /\ UNCHANGED <<released, authenticator, authenticated, recorded, cached, starts, hostActs, overlapped>>

-----------------------------------------------------------------------------
(* The page and the cache *)

AbortProof ==
    /\ hostActs < MaxHostActs /\ hostActs' = hostActs + 1
    /\ proof # None /\ proof' = None
    /\ UNCHANGED <<released, authenticator, authenticated, recorded, cached, session, starts, overlapped>>

ResetZkeyAuthentication ==
    /\ hostActs < MaxHostActs /\ hostActs' = hostActs + 1
    /\ CanReset
    /\ Reset
    /\ UNCHANGED <<recorded, cached, session, starts>>

ReplaceCached ==
    /\ cached' \in Files \ {cached}
    /\ UNCHANGED <<streamingProver, recorded, session, starts, hostActs, overlapped>>

SessionNext ==
    \/ \E c \in Requests :
        \/ \E kind \in {"framed", "one-shot", "manifest"}, valid \in BOOLEAN :
                StartProof(c, kind, valid)
        \/ AuthenticateResponse(c) \/ AuthenticateChunk(c) \/ FinishAuthentication(c)
        \/ Begin(c) \/ PushChunk(c) \/ FinishProof(c) \/ ReadFails(c)
    \/ AbortProof \/ ResetZkeyAuthentication \/ ReplaceCached

SessionSpec == SessionInit /\ [][SessionNext]_sessionVars

-----------------------------------------------------------------------------
(* Properties *)

\* Every variable keeps its type across the awaits of every call.
SessionTypeOK ==
    /\ released \in BOOLEAN /\ authenticated \in BOOLEAN /\ overlapped \in BOOLEAN
    /\ authenticator = None \/ authenticator \in Seq(0..Chunks)
    /\ recorded = None \/ recorded \in Seq(0..Chunks)
    /\ proof # None => proof.of \in Requests /\ proof.manifest \in BOOLEAN
    /\ cached \in Files
    /\ \A c \in Requests :
        /\ session[c].at \in {"idle", "matching", "hashing", "reopening", "proving"}
        /\ session[c].next \in 1..(Len(session[c].file) + 1)

\* "only a successful whole-file authentication authorizes these fixed-size
\* chunk hashes for the following parse pass" (sparrow-cache-api.mjs:427-428):
\* the hashes kept for a parse are those of the pinned zkey.  It holds of passes
\* that do not overlap; a pass that another call's reset restarts in the middle
\* keeps the hashes of what it read before (run overlapping_passes).
RecordedHashesAreAuthentic == recorded # None => recorded = Pinned

\* Whatever the cache serves on the second pass, the parser meets only
\* chunks of the pinned zkey.
ParsedChunksAreAuthentic ==
    proof # None => \A i \in 1..Len(proof.parsed) : proof.parsed[i] # 0

\* A manifest proof does not rest on the kept hashes: each of its chunks is
\* checked against the manifest, whatever passes overlap beside it.
ManifestChunksAreTheZkeys ==
    proof # None /\ proof.manifest => \A i \in 1..Len(proof.parsed) : proof.parsed[i] = i

\* While a pass runs, the prover has hashed exactly what its call has read:
\* a failed or abandoned earlier pass leaves nothing behind.
PassStartsFromByteZero ==
    \A c \in Requests :
        session[c].at = "hashing" =>
            authenticator = SubSeq(session[c].file, 1, session[c].next - 1)

\* The prover is never wedged: a proof is active only while the call that
\* began it is still feeding it, and an authenticator is missing only after a
\* pass that succeeded.
NeverWedged ==
    /\ proof # None => session[proof.of].at = "proving"
    /\ authenticator = None <=> authenticated

\* However calls interleave at their awaits, the prover is never wedged and a
\* manifest proof parses the zkey only.  As long as no pass was restarted under
\* another call (~overlapped), nothing but pinned chunks is parsed by any proof
\* either, and a failed or abandoned pass leaves nothing behind
\* (wasm_api.rs:597-640, sparrow-cache-api.mjs:468-485).
OnlyAuthenticChunksAreParsed ==
    /\ SessionTypeOK
    /\ NeverWedged
    /\ ManifestChunksAreTheZkeys
    /\ ~overlapped =>
        /\ RecordedHashesAreAuthentic
        /\ ParsedChunksAreAuthentic
        /\ PassStartsFromByteZero

\* A proof ends by its own call, or by the page: the failure of another call
\* on the prover does not take it away.
OnlyItsCallEndsAProof ==
    \A c \in Requests :
        (/\ hostActs' = 0
         /\ proof # None /\ proof.of = c
         /\ (proof' = None \/ proof'.of # c)) => session'[c].at = "idle"

\* The graph is released in the step that installs a proof and in no other: a
\* begin that fails leaves the prover retryable.
GraphIsReleasedForAProof ==
    released' # released => proof = None /\ proof' # None
=============================================================================
