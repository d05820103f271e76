# Specifications of curvy rs-core

TLA+ models of the stateful and the intricate parts of this repository, the TLC configurations that
check them on small instances, and theorems about them that TLAPS proves for every value of the
constants.

`tlc -config X.cfg M` runs a model, `tlapm M_proofs.tla` checks the proofs of a module.
`PROJECT.json` maps each definition to the source lines it models, and lists the runs, the
hazards of the code with the properties that cover them, and, for each property, a plausible
programming error that it notices (the operators named `X_Y`, placed before `X`: `X` with the
error `Y`; no specification uses them).

## 1. The system

rs-core is a Rust library behind a shielded-notes wallet. `crates/core` keeps the trees of note
commitments and the cryptography of notes, `crates/prover`, `crates/witness` and `crates/signet`
prove Groth16 statements about them and prepare the artifacts for that, and `crates/wasm`,
`bindings/node` and `bindings/ffi` carry all this to JavaScript and to C.

| component | state | operations | what makes it correct | modules |
|---|---|---|---|---|
| `Imt` (core/imt.rs) | rows of nodes by level | insert, insert_many, update, truncate, create_proof, next_leaf_frontier | the nodes of the flat zero-padded tree after any sequence of operations; proofs verify and bind | `MerkleOps`, `Imt`, `MerkleLog` |
| `NotesFrontier` (core/imt.rs) | count, one slot per level | append, append_many, append_with_siblings, root, snapshots | roots and siblings of the tree whose leaves it forgot; never stops half way; altered snapshots refused | `MerkleOps`, `Imt` |
| `ShardedNotesTree` (core/imt.rs) | completed roots, live shard, cap, two indexes of owned notes, dirty set | append, append_many, mark_owned, unmark_owned, adopt_frozen_witness, rewind_live_to, drain, snapshots, witness | every tracked note has the witness of the flat tree; indexes agree; calls are all or nothing | `ShardedNotesTree` |
| storage of that tree | tables of an adapter outside the repository | commit, restart, per-row restore | a stop at any point loses nothing committed | `NotesStore` |
| indexed and ordered trees, pending-commitment builders (bindings/node, core/witness) | tree and index of leaves, or a frontier | insert, insert_many, truncate, snapshots, path builder, calldata-bound builder | batches all or nothing; every input built proves the new root, the same from every form of tree | `PendingCommitments` |
| proof queue, `ResidentProver` (bindings/node) | jobs, capacity count, pool, key, close callbacks | prove, close, finalize, drain | bounded FIFO; close answered after the work; key and pool released | `SerialQueue`, `ProofService` |
| handle registries (bindings/ffi) | counter, a map per type, a lock per object | construct, operate, free | handles never reused, one free succeeds, no use of a freed key, a free returns | `Registry` |
| call guard (bindings/ffi/abi.rs) | error slot and guard depth of each thread, panic hook | guard, last_error, panics, thread teardown | a message belongs to the last call of its thread; no payload leaks; the host sees its own panics | `Registry` |
| tree calls of the C ABI (bindings/ffi/trees.rs) | objects behind handles, undelivered witnesses | every exported call on trees and proofs | a rejected call can be retried, whatever rejected it; no handle is lost; a witness is clean only once received | `ForeignTrees` |
| streaming prover (prover/sparrow.rs, sparrow/manifest.rs) | framing, section in progress, hasher, accumulators, assignment | push, begin, end, finish | only authenticated bytes are parsed; any cut of the stream gives the resident prover's proof; nothing is released early | `ManifestStream`, `ZkeyBuilder`, `QueryStream`, `CoefficientStream` |
| streaming prover for browsers (prover/wasm_api.rs, js) | authenticator, proof, recorded hashes | authenticate, begin, push, abort, finish | calls interleave at their awaits and a proof still parses pinned bytes only, as long as no pass is restarted under another call | `StreamingSession` |
| browser cache (js/sparrow-cache-api.mjs) | graph and compiled program in a cache shared by tabs | load, compile, store, evict | only trusted programs run, every load settles | `SageCache` |
| artifact authentication (prover) | recorded hashes, current chunk, cursor | hash, read, seek, refill; manifests | bytes handed out are those that were pinned | `AuthenticatedReader`, `ZkeyManifests` |
| zkeys and compact zkeys (prover) | sections, offsets, columns | two readers, matrices in two passes, encoder, decoder, square roots | one key from either reader, one body per key, bounded reservations | `ZkeyMatrices`, `ZkeyFile`, `CompactZkey` |
| Groth16, QAP, workspace (prover) | a workspace between proofs | prove, prove_with_workspace | a reused workspace leaves no trace, in the next proof or after it | `Groth16Ops`, `Groth16` |
| FFT and MSM kernels (prover) | buffers, buckets, lanes, limbs | transform, window, batch, reduction, limb arithmetic | equal to the definition in a small field or on a small curve | `Ntt`, `CurveOps`, `AffineBuckets`, `LaneKernel`, `Msm`, `MontLimbs` |
| witness evaluation (witness) | slots, workspaces, input buffer | evaluate, compile, store, load, decode inputs | SAGE gives the direct evaluator's witness; a stored program reads only what it wrote | `FieldOperations`, `Sage`, `SageProgram`, `InputDecoding` |
| signet (signet, witness) | bodies in two versions, frames, a child process, files | export, transcode, reseal, inspect, compress | one body per graph and version, one whole frame, outputs come from pinned sources | `SignetBodies`, `GraphExport`, `ArtifactFrame`, `SystemZstd`, `SignetTool` |
| Poseidon, curves, signatures, ciphers, notes, stealth addresses | none | - | stateless cryptography over 254-bit fields | not modelled; Poseidon is a free constructor |
| wasm bindings of core, benchmarks, harnesses, fuzzing, scripts | - | - | conversions and tooling | not modelled |

**How they interact.** The node and C bindings own the trees and provers. A C caller reaches an
object through a guard, a registry, one lock for the map and one for the object. A JavaScript caller
of `bindings/node` shares a mutex with a worker of the prover's thread pool; results and closes come
back as callbacks. In a browser, calls interleave at every await, and two tabs share one cache. A
sharded tree has a cap `Imt`, a live `Imt` and the log its adapter stores; its witnesses glue a path
frozen in the past to the cap of today. A streamed zkey passes from the manifest's chunks to framing, to
sections, to query sums and matrices; a graph from a builder's file to a body, a frame, a compiled
program and its stored form.

**What is hard to test.** Interleavings of the drain with prove, close and collection of the
object; frees racing operations that hold a reference already; panics during unwinding or thread
teardown; two calls on one prover between their awaits; files replaced between hashing and reading;
batches cut at shard boundaries, streams cut inside a record; notes marked before their leaf exists;
a restart between any two writes; the zero denominators, absent lanes and full carries of the
kernels; a slot handed out again in the instruction that reads it; stored programs and tables that
no compiler or encoder wrote.

## 2. Modules

**Trees.** `MerkleOps` has pure operators: the algorithms of `imt.rs` row by row, those of `Imt` and
those of `NotesFrontier`. A node is either an atom or a pair, `Poseidon(l, r) == <<l, r>>`: two nodes
are equal exactly when their subtrees are, which is what collision resistance gives the code.
`RefNode` is the reference: the node of the zero-padded tree, top-down, taken from no code. Indices
keep the code's base 0 (`At`). `MerkleLog` is what any of these trees promises: an append-only,
updatable and truncatable log of leaves, and a root that is a function of it.

- `Imt` drives one tree. Each call is one step (`&mut self`); a rejected call is a disjunct with its
  error. `CapZero` is a second leaf-level zero, as the cap of a sharded tree uses. It also drives a
  `NotesFrontier`, the way an indexer does: appends, pages, a stored snapshot, a reorg that restores it,
  perhaps altered. A frontier forgets its leaves; the ghost `log` remembers.
- `ShardedNotesTree` follows the struct field by field. `append_many` takes one step per shard, with
  `pending` for what is left; the other calls wait for it. `roll_over` walks a `HashMap`, so an error
  inside it would leave any part of the notes frozen: `RollOver` chooses which. `Absorb` keeps the
  code's error paths although they turn out unreachable, which is what `FailedCallsChangeNothing`
  says. `ReadBack` gives the tree's own snapshot, and some altered ones.
- `NotesStore` EXTENDS it with the adapter the interface asks for: `Commit` writes what
  `drain_dirty_owned_notes` hands out and deletes what unmark and rewind reported; `Restart` forgets
  the memory and restores row by row in any order. The adapter is external: one transaction per
  commit is the most its interface gives it, and stops between any two calls are allowed. `attached` says
  whether there is one: without it the tree runs alone, refused calls included.
- `PendingCommitments` has the trees an operator appends batches to, in the three forms the code
  offers, and the two builders that append a batch and produce the circuit input for it. What a
  builder does on its working copy is a fold over the padded batch (`PathLoop`). The error of a call
  is an operator of the arguments, its CASE in the order of the code's checks. Input hash and calldata
  binding are free constructors. `InputsProveTheNewRoot` replays an input the way its circuit does. A form is
  a record that says which it is (`IndexedTree`, `FrontierTree`, `OrderedTree`), an action an operation of any of
  them (`InsertNote`, `InsertNotes`, `TruncateNotes`, `Store`, `GoBack`) or a batch, and the ghost `history` is
  what a frontier forgot.

**Bindings.** `SerialQueue` has a step per critical section of the queue's mutex and per piece of
work between two: fetching a job, running it, giving back its place, completing its promise, dropping
the pool, calling each close callback. JavaScript is one thread: `js # 0` while a close is between its
critical section and its return. `ProofService` is the service callers see; `ImplementsService` maps
the queue to it.

- `Registry` has a step per critical section too: the counter, the map, the wait for an object's lock,
  the body under it. The lock is not fair. A poisoned lock is entered like any other. An operation past
  its lookup when a plain `remove` frees the object still runs on it: the `Arc` keeps it, and the
  property is only about objects that hold a key. The module has the call guard too: a guarded call enters,
  runs and reports, or panics; the host panics and catches on its own between calls; at thread teardown
  either thread-local may already be gone, in either order.
- `ForeignTrees`: each exported call with the rejections of its out-pointer, handle, arguments and
  tree in the order of the code. Trees are logs of leaves here, as the core's own modules cover the rest.
- `StreamingSession`: JavaScript calls on one prover, each a sequence of steps between awaits, with
  aborts and resets by the page and a cache entry that may be replaced between its two reads. Nothing in
  the code keeps two authentication passes apart, so a call may reset the one hasher while another call
  awaits its next chunk; the ghost `overlapped` remembers that it happened.
- `SageCache`: tabs of different compiler versions load, compile, store and delete in one cache that
  anyone may alter.

**Provers.** `ManifestStream` authenticates chunks, also one call ahead under `parallel`, and frames
them. `ZkeyBuilder` takes the ten sections and what each needs. A push that fails has moved its processor on
without its bytes being counted or hashed: the section is `spoiled`, and what a caller achieves that goes on
after it is a choice of the processor that only a query's leaves open (`Takings`, `Closings`; the ghost `resumed`
has the kinds of section ended so). `QueryStream` decodes a query's records
on the pool or one by one and sums them in chunks; what a failed push leaves there is computed: the carry is
gone, the records before the bad one are summed, and with `CarryOn` the caller goes on. `CoefficientStream` builds the matrices and the QAP
from records cut anywhere. `Groth16Ops` is the algebra (QAP, key, proof, verification) over a small
field, `Groth16` the steps of a proof in a leased workspace, with unwinding between any two. `Ntt` is the
fused transform: plan, stages, fork-join with blocks in any order of completion, layout of the scaling.
`CurveOps` is the group law with its special cases; `AffineBuckets` one window's buckets with batches,
deferred points, overflow and hot buckets; `LaneKernel` the batch of lanes with a shared inversion and
the reduction by segments; `Msm` recoding, windows and the split of trivial scalars; `MontLimbs` the
weakly reduced limb arithmetic, its columns and the conversion of limbs to words.

**Artifacts.** `AuthenticatedReader` and `ZkeyManifests` read files that change between any two reads.
`ZkeyMatrices` is the two-pass construction of matrices from a source that may answer each pass
differently; `ZkeyFile` the seeking and the forward reader over sections in any order; `CompactZkey`
encoder, decoder and square roots. `SystemZstd` is the child process, its two pipes and the writing thread.

**Witness.** `FieldOperations` evaluates one node. `Sage` compiles a graph (last uses, slots, outputs)
and evaluates it beside the direct evaluator in workspaces that are used again; its `StoredProgram` is
what `encode_program` writes, and `SageProgram` loads and runs stored programs, also altered ones.
`ArtifactFrame` opens compressed graphs and programs in the evaluator and in the tool: `OpenFrame` takes the
pin, the sizes and the header, `ReadFrame` the next words, `CloseFrame` the end of the frame.
`SignetBodies` reads, writes and transcodes bodies symbol by symbol (varints, back references, tags);
`InputDecoding` decodes an input object into its buffer, token by token, a number as serde_json hands it on: an
integer that fits a machine word, or a double (`Float`), which is zero for a zero, for a negative zero and for
what is below its range; `GraphExport` decodes a builder's graph under
a schema, encodes and reloads it; `SignetTool` runs two invocations of the commands on one output path, with
what export, reseal and transcode make of the bytes as operators of their own (`Exported`, `Resealed`, `Transcoded`).
Whether the two sides of `transcode` have one witness is a choice (`EvaluatesAlike`), and `inspect` reads its file
a second time, which may have been replaced by then.

**The MC modules.** The components of one layer share one configuration and run side by side:
`part` chooses a component in the initial state and everything else stands still. So a run is the
disjoint union of its components' state spaces, and a property of a run is what its components have to say on
one subject. A component with theorems is EXTENDED, so that a theorem is about the very definition the run
checks, and has variables of its own: `MCMerkleTrees` and `MCBindings` extend all their
components, `MCProver` `ZkeyBuilder`, `MCArtifacts` `AuthenticatedReader`, `MCWitness` `Sage` with
`SageProgram` and `SignetTool` with `ArtifactFrame`; `MCNotesTree` extends `NotesStore` and has an INSTANCE for each further geometry. Where two such components meet, initial predicate,
next-state relation and specification carry the component's name (`FrontierNext`, `SessionSpec`, `toolVars`). The
others are instances over a pool of variables `v1`, `v2`, ..., the value of each constant beside the INSTANCE, and
their properties join under their part: `part = "query" => Query!FinishedQueryIsExact`, for instance.

## 3. Runs

| run | what it shows |
|---|---|
| `merkle_trees` | `NodesMatchReference`, `ProofsBind`, `FrontierExtendsTree`, `ImplementsLog`: insert, insert_many, update and truncate in any order leave the rows of the flat tree, proofs that verify exactly the right leaf and index, and the frontier the calldata-bound circuit needs. `FrontierIsExact`: root, shard roots, slots and siblings of a frontier, also after a restore. `InputsProveTheNewRoot`: every input of either builder proves the new root, the forms build the same one, batches can be taken back. `RefusedCallsChangeNothing`: for frontiers and pending batches |
| `notes_tree` | `BookkeepingAgrees`, `FailedCallsChangeNothing`: the bookkeeping of a sharded tree with two notes that compete for leaves, and no call that fails half way. `ProvesAgainstFlatTree`, `OtherGeometriesAgree`: root and witnesses are the flat tree's, in three geometries, and in the two further ones the tree's own snapshot restores it as it is. `StoredTreesReload`, `RestartRecovers`: what an adapter commits is enough for a restart at any point, and a finished restart has the rows and the root of the store |
| `bindings` | `SettledInOrder`, `ClosesAnsweredLast`, `ImplementsService`: the queue is a bounded FIFO service. `HandlesNeverReused`, `NoUseAfterFree`: registries under races. `MessagesStayWithTheirThread`: the call guard. `CleanNotesWereReceived`: no witness is lost between a drain and its host. `OnlyAuthenticChunksAreParsed`: a browser proof parses pinned bytes: the chunks of a manifest whatever overlaps, hashes recorded by the prover as long as no pass was restarted under another call. `OnlyTrustedProgramsRun`: so does its cache. `RefusedCallsDisturbNoOther`: a refused or failed call of any binding changes nothing for others. `CallsSettle`: closes, frees and cache loads come to an end |
| `repeated_close` | the first finding below |
| `overlapping_passes` | the third finding below |
| `prover` | `OnlyAuthenticatedIsParsed`: chunks and framing. `StreamedKeyIsResident`: query sums, QAP and proof of a stream cut anywhere are the resident prover's; after a failed push the chunks still come one after the other. `NothingNeededWasReleased`: section order, sections that are dropped and sent again, early releases, and the digest of what was proved from. `WorkspaceProofIsFresh`: reused workspaces, failures and panics. `KernelsAreExact`: transform, buckets, lanes, windows and limbs against their definitions |
| `artifacts` | `PinnedBytesOnly`: files that change. `KeysMatchTheirFiles`: manifests, both readers and both passes agree with the file. `OneBodyPerZkey`: compact bodies, square roots. `CompressReturns`: no pipe deadlock, and what the child wrote is returned whole |
| `compact_zkey_empty_section` | the second finding below |
| `witness` | `EvaluationIsExact`: operations and SAGE against the direct evaluator. `LoadedProgramsReadWhatTheyWrote`: stored programs, altered ones included. `OnlyOneWholeFrameIsOpened`: frames, opened by the evaluator and by the tool. `BufferHoldsWhatWasGiven`: the buffer has the values the JSON reader handed on, by name and in order, and everything else is refused. `TranscodedBodyIsTheSameGraph`: bodies. `GraphsKeepTheirMeaning`: single operations, what the compiler stores, and schemas. `OutputsComeFromPinnedSources`: the tool, its files and its reports |
| `underflowing_input` | the fourth finding below |

**Bounds.** A tree refuses when it is full, so its run explores everything the depth allows: depths 0 to
3 for `Imt`, up to `MaxFrontierDepth` 3 with every shard height for the frontier (pages of `MaxPage` 3, `MaxSaved` 1
snapshot), 0 to 2 for pending batches of up to
three ids; sharded trees of two shards of two (two notes, one of them the zero; with and without the
store), four shards under a cap of depth 2, and two shards of four, on both sides of the cost rule of
`append_many`. Two leaf values suffice to tell any two positions apart, since properties compare whole
terms; the zero is one of them because code that pads with it must not mistake a zero leaf for a missing
one. The ids of pending batches are interchangeable and taken as symmetric; that run has no liveness.

Where the code has a size that a small instance cannot have, the instance keeps what the size is for:

- `SerialQueue`: capacity 2, `MaxJobs` 4, `MaxCloses` 3: full, refilled after a settlement, closed idle,
  busy and twice. `Registry`: two threads, two types, last handle 3, reached in the run; for the call guard two
  `Callers` of `MaxCalls` 2. `ForeignTrees`: one tree at a time, `LeafCapacity` 3 in shards of two, batches
  up to 2, `MaxTreeHandle` 2.
- `StreamingSession`: two `Requests`, two chunks, `MaxStarts` 2, `MaxHostActs` 1, enough for two
  passes to overlap at every await. `SageCache`: two tabs of two compiler
  versions, `MaxLoads` 2, `MaxTampers` 1.
- `ManifestStream`: ten bytes in chunks of four with an empty section, `MaxFaults` 1. `QueryStream`: four
  records of two bytes, chunks of two points, a zero scalar; and two records for a caller that goes
  on after a failed push. `CoefficientStream`, `Groth16`: the field of
  193 with three circuits on domains of 2, 4 and 8, satisfied or not, blinding factors with a zero.
  `ZkeyBuilder`: ten sections of one or two units, snarkjs's order as the honest one.
- `Ntt`: sizes 8 to 32 with leaves of 2 and 4, so that the recursion forks at two levels, over every
  unit vector (the transform is linear). `AffineBuckets`, `LaneKernel`: all of y^2 = x^3 + 1 over the
  field of 7, twelve points with three of order two, so every case of an addition occurs. `Msm`: order 193 and
  windows of 3 bits, shaped like the top windows of BN254; shares of 2 where the code has 8; two lanes
  where it has four. `MontLimbs`: three limbs of 5 bits in columns of 14, words of 7, R > 16p as in the
  code.
- `AuthenticatedReader`: five bytes in chunks of two, `MaxWrites` 2. `ZkeyManifests`: files of 3 to 5 bytes.
  `ZkeyFile`: up to five sections, two query sections standing for six. `CompactZkey`: fields of 7 and 49,
  batches of two, every pair of words as a point; its roots over 83 and 83^2, whose exponent has windows with
  zeros in every position. `ArtifactFrame`: contents up to one word past every limit. `SystemZstd`: 7 blocks
  through pipes of 2.
- `FieldOperations`: modulus 29 in two limbs of three bits, every pair of operands. `Sage`: modulus 5, every graph of up
  to four nodes and two signals with divisions, which do not commute and may fail, two calculations in workspaces
  that may keep five elements. `SageProgram`: three
  instructions with any index in every field. `SignetBodies`: words of 5 bits in groups of 2, so that the
  last byte of a varint is partly used, as in 64 bits in groups of 7. `InputDecoding`: two rows over a
  buffer of four, chunks of two digits in base 3, objects of seven tokens;
  literals with a negative zero, an empty one, and numbers on both sides of the modulus; doubles of each kind. `GraphExport`: two nodes at the
  limits of the index widths. `SignetTool`: two invocations, one replacement of the source.

**Fairness.** `SerialQueue`: a Rayon worker that runs a spawned `drain` runs it to its end, and a close
past its critical section returns (`WF` of `Drain` and of `CloseIdle`); JavaScript need not call anything.
`Registry`: a thread inside a call goes on (`WF` of `Step(t)`), which means it takes a lock that stays free; no
lock is fair, no thread has to make a call. `FreeReturns` needs no more, since once the entry is gone only finitely
many operations can be ahead of the free. `SageCache`: promises settle, so a tab inside a call takes its next
step (`WF` of `CacheStep(tab)`). `SystemZstd`: the writer, the child and the caller run (`WF` of each); the child may
fail at any time instead. `ProofService` has the fairness its refinement proves. All other components are
sequential and state no liveness. Deadlock is checked in the runs of the trees, where some call is always
possible; elsewhere components come to rest: a finished file, a closed queue, a spent bound.

**Findings.**

- `repeated_close`: `drain` clears `active` and takes the pool in one critical section, then drops the
  pool and calls the close callbacks without the lock. A `close()` that arrives in between finds an idle
  queue without a pool and resolves at once, before the pool is dropped and before the earlier close is
  answered; the documentation says that repeated calls resolve at the same point, when both key and pool
  are freed. What does hold, and is proved, is `ClosesAnsweredLast`: whoever is answered, all accepted
  proofs have settled and nothing holds the key.
- `compact_zkey_empty_section`: a table entry with the coefficient encoding and a region shorter than its
  4-byte count passes `read_body_header`; `decode_coefficients` then slices past the region and panics,
  where the tests say "errors, never panics".
- `overlapping_passes`: `authenticateResponse` resets the prover's one hasher, also while another call awaits
  a chunk. The first call goes on, its stream ends, and it finishes the pass with the bytes the second call has fed: if
  these were the pinned file, the hashes of the chunks the first call read are kept, which need not be the
  zkey's. The comments say that only a successful whole-file authentication authorizes the chunk hashes, and that
  they are replaced only after the new pass succeeds (sparrow-cache-api.mjs:427 and 465). What is lost is the check of every
  chunk before it is parsed; what remains is the verification of the finished proof, by a key that is part of the same
  stream. It needs a page that authenticates twice at once and a cached file that changes
  between the two reads.
- `underflowing_input`: an input such as `1e-400` is read as 0. serde_json has rounded it to a double before
  `visit_f64` compares it with zero, while the README of the crate says that non-zero fractional or exponent
  numbers are rejected, and the comment above `visit_f64` that zero is exact in any representation and every
  other float a fraction, an exponent or an integer that lost precision.

Other places where text and code differ, noticed while modelling and not kept as runs: a call entered on a
thread that is unwinding before the panic hook was installed reports `Panic` without a message (abi.rs:334);
a framing caller that sends a query's bytes again after a failed push may finish it with an endpoint that
was not checked (sparrow.rs:1272, against the comment at 1508): `NothingNeededWasReleased` says that this can happen to
a query only, and the check of the finished proof is then what is left; `BoundedReader` read on after "file grew"
continues past its limit (artifacts/mod.rs:41); a patched graph under the
wrong schema may fail rather than "silently remap" (postcard.rs:116); `inspect` reads its file twice, so that
"exceeded" may speak of a file put in place of the pinned one, but "ok" may not (main.rs:523).

## 4. Proofs

All theorems are about the specification of a module (`Spec`, or the name with the component's prefix:
`FrontierSpec`, `PendingSpec`, `RegistrySpec`, `GuardSpec`, `ForeignSpec`, `SessionSpec`, `CacheSpec`, `ToolSpec`,
`ProgramSpec`, `FrameSpec`; `SuiteSpec`, where a run joins several) for every value of the constants that the
module's ASSUME allows. The bounds of the models are among those constants: what holds
for every `MaxJobs`, `MaxWrites`, `MaxLoads`, ... holds without a bound. 27 of the 40 properties of the passing runs
have a theorem, the safety half of another one (`ImplementsService`) too.

`MerkleOps_proofs` - the operators of `MerkleOps`, any depth and any leaves.
- `SetInduction`: a set of naturals with 0 and closed under successor is `Nat`. The library's
  induction theorems take an operator and no installed prover instantiates it; a set is a plain
  constant. It follows from the pigeonhole fact about finite sets: a natural outside the set would
  give an injection of a larger interval into a smaller one.
- From it the facts about powers of two, halving and rounding up that row lengths need, and what
  the recursive definitions over levels compute (`RefNodeLeaf`, `RefNodeParent`, `ZeroRoots`).
- `RefNodeLocal`, `RefNodePadding`, `PlaceLocal`: a node depends only on the leaves under it, is the
  empty node beyond the last leaf, and is not changed by a leaf outside its subtree.
- `BuiltIsRef`, `RehashIsRef`, `InsertManyIsRef`: a bulk build, the re-hash of a path and the
  partial rebuild of `insert_many` all give `RefTree`, the tree whose rows are the reference's.
- `InsertIsRef`, `UpdateIsRef`, `InsertAllIsRef`: so do single calls and `insert_many` on a tree that is one.
- `AboveShard`, `ShardPath`, `GluedPath`: a flat tree is a tree over the roots of its shards, and a path in it
  a path in the shard followed by one above.
- `SiblingsAreRef`, `PathUp`, `PathDown`: the siblings of a tree are the reference's, they hash to
  its root, and nothing else at that index does: `Poseidon` is injective.

`MerkleTrees_proofs` - `Imt`, any depth, leaf values and batch size.
- `Reference`, `Binding`, `Frontier`: three of the invariants of run `merkle_trees`.
- `Refinement`: `Imt` implements `MerkleLog`.

  The inductive invariant `IInv` says that the whole tree is `RefTree` of its leaves, which fit.
  `NodesMatchReference` is nearly the same but is a statement row by row; the record as a whole is
  what the operators rewrite. Each operation preserves it by one lemma above (`InsertStep`, ...),
  `StepInvariant` adds which of four ways the leaves changed (`Changed`), and the four are the
  steps of the log.

and the frontier of `Imt`, any depth, shard height, leaf values, page size and number of snapshots:
- `FrontierStaysExact`: the root, the shard roots emitted on the way, the slots and the siblings returned by
  `append_with_siblings` are those of the flat tree over the leaves that the frontier forgot, also after a
  reorg that restored a snapshot.
- `FailuresChangeNothing`: an append that is refused changes nothing; there is no half-done append.
- `AppendManyIsRef`: a page is its appends one after the other, and emits the roots of exactly the shards it
  completes. `ChangedIsRefused`: a snapshot with another count or other slot flags is refused.

  `FrontierInv` says that the frontier is `RefFrontier(depth, height, leaves)`: a slot is occupied where the
  count has a bit (`Bit`), and holds the reference node left of the path of the next leaf. The lemmas are about a
  counter in binary: an append carries up to the lowest zero bit, the *break level*; the slots below are
  merged into one, whose node is the reference node by `RefNodeParent`, and the ones above stay because a
  node depends only on the leaves under it. The same invariant is stated of every stored snapshot, hence a
  reorg needs no argument of its own.

and `PendingCommitments`, any set of ids, depths, geometries, batch size and number of ids in a call:
- `NotesStayReference`: after any inserts, truncations, snapshots and batches, refused ones included, the notes
  tree is the reference tree of its leaves, or the frontier of the leaves that it forgot.
- `BuiltInputsProveTheNewRoot`: every input a builder gives satisfies its circuit and leads to the root of the flat
  tree over the old leaves and the new notes; an indexed tree and a frontier build the same input; the index
  follows the leaves; a batch can be taken back by a truncation or by restoring the snapshot.
- `RefusalsChangeNothing`: a call that reports an error leaves the frontier, or the notes tree, as it was, though
  it may fail at its last leaf. The theorem is about `SuiteSpec`, since the property speaks of two components.

  `PendingInv` says that the notes tree is `TreeOf(form, depth, height, leaves)`, the form's record over `RefTree` or
  `RefFrontier`, and that a stored snapshot is the frontier of its own history (`IsSnapshot`). It is enough
  because every builder is a function of the tree: an input's root before is `RefNode` at the top, each path
  proves the next id from the root before it (`PathUp`) and leads to the root after it, so a batch is an induction
  over its places with the fold's accumulator named (`PathIs`, `PathProvesIs`); the padding of a batch does not
  move the root, because an empty leaf of the reference is the zero that pads it. Both forms then build the same input
  as they build one function of depth and leaves. What remains is that the two forms refuse the same batches
  (`SamePathError`) and that a loop that fails half way works on a copy.

`ShardedNotesTree_proofs` - any depth and shard height, any notes, any batch.
- `FailedCallsChangeNothingHolds`: no call fails half way.
- `BookkeepingAgreesHolds`: `owned_notes` and `owned_leaves` mirror each other, and a path is frozen
  exactly in a completed shard.
- `ProvesAgainstFlatTreeHolds`: the root is that of one flat tree over the log, though all leaves of a
  completed shard are forgotten, and `witness` gives every note the siblings of that tree.
- `Refinement`: the sharded tree implements `MerkleLog`.
- `OwnSnapshotAcceptedHolds`: the tree accepts its own snapshot, and the step that replaces it by what it reads back
  changes neither level, no row and no index, and leaves nothing dirty. The reverse index of the
  restored tree is built from the rows; that it is the one the tree had takes `BookkeepingAgrees` and the
  fact that both indexes are maps (`OwnersAreMap`).
- `StoredTreesReloadHolds`, `RestartRecoversHolds`: a commit stores every witness, a restart replays the
  rows in any order without a refusal and ends with the committed witnesses and root. `ThroughRestarts`
  carries the theorems above over to trees that restart at any point.

  The argument has three layers.

  `IInv` is about indexes and leaves only. Freezing needs the leaf of the note to be in the live shard,
  which is the part `InPlace` (a note marked at a live leaf is that leaf); for a note marked ahead of its
  leaf that depends on the check of each incoming leaf, which `append_many` makes once for the whole
  batch, hence `PendingFree` (what is left of a batch still passes the checks). That the cap has a
  place for the live root is `TreesOK` (one cap leaf per shard begun). The split of an index into
  shard and place (`Split`, `Ordered`, `Before`) ties positions to counts.

  `RefInv` adds the hashes. The log is cut into shards whose roots are `completed` and a tail that is
  `liveLeaves`; the live shard and the cap are `RefTree` of their leaves, the cap's last leaf being the
  live root (`Ref`); a frozen path is the path in the shard of its leaf (`PathsOK`), which is a claim about
  leaves that are no longer stored, so it speaks of the ghost `log`. The rest of a running batch fits
  (`RoomLeft`) and every stored index is in range (`InRange`). A witness is then a path in a shard
  and a path in the cap above it, and `GluedPath` of `MerkleOps_proofs` says that the two are the path in
  the flat tree: the reference node at a level above the shards is the reference node over their roots
  (`AboveShard`). A rewind inside the live shard and a frozen path agree because the latter only depends on
  leaves below the live shard's first index.

  `StoreInv` is about the tables. They always hold a tree that `from_snapshot` would accept (`Stored`: what
  `RefInv` says, of the stored rows). While the tree runs, the table after the next commit is `owned`
  (`RowsAfterCommit = owned`), which is what the dirty set has to keep up with; during a restart the rows
  restored so far are rows of the table and the rest still pass the checks of `mark_owned` and
  `adopt_frozen_witness` (`Restoring`), which is why the order does not matter.

`Bindings_proofs` - the queue, for any capacity and any number of calls:
- `AccountingHolds`: the place count is right, and `active` means a worker will look at the queue.
- `SettledInOrderHolds`: accepted jobs settle once, in order.
- `ClosesAnsweredLastHolds`: no close is answered before the work is done and the key free.
- `FullOnlyWhenFullHolds`: a call is refused as full only while `Capacity` accepted proofs are pending.
- `QueueIsService`: under the mapping of `ImplementsService`, initial states map to initial states and every
  step to a step of `ProofService` or a stutter: the safety half of the refinement.

  `Numbering` says that the jobs settled, in hand and waiting are 1, 2, 3, ... without a gap;
  `Watched` that nothing waits without a worker; `Shut` that an answered close, a close in its last step
  and a drain past its last critical section all imply a queue closed and empty for good. The service's set of
  closes not yet answered is the queue's in three places, which have nothing in common (`ClosesApart`).

the registry, for any number of threads, any types, any last handle:
- `HandlesNeverReusedHolds`: no two objects share a handle, also for a thread between the two
  halves of `insert` (`Reserved`, `ReservedApart`).
- `FreedOnceHolds`: at most one free of an object succeeds.
- `NoUseAfterFreeHolds`: after a free returned, no operation uses the key.

  The last two rest on `LifeInv`: an object has at most one thread freeing it, that thread removed
  its entry, and a freed object of a key type has lost its key.

the call guard, for any number of threads and calls:
- `MessagesStayWithTheirThreadHolds`: between calls a thread reads the message of its own last call, no
  payload of a guarded panic reaches the host, and the host's own panics do.

  `GuardInv` is one statement about each thread (`ThreadOK`), so that a step of another thread is one lemma
  (`OtherThreads`). It ties the depth of the guard to the place the call is at, which is what the panic hook
  reads, and follows the slot through the teardown of the two thread-locals in either order.

the trees of the C ABI, for any number of trees, capacity and batches:
- `CleanNotesWereReceivedHolds`: a note that is not dirty was received by the host with the witness it has
  now, and every live handle was given to the host.
- `RejectedCallsAreRetriableHolds`: a call that is not answered Ok changes no tree and creates no handle.

  `ForeignInv`: trees are well formed (`TreesOK`), no tree is without a handle the host knows
  (`NoOrphans`), and the host's copy agrees on every clean note (`CleanKnown`). Each exported call is one
  lemma about one tree; the others do not move.

the streaming session, for any number of calls and chunks, passes that overlap included:
- `OnlyAuthenticChunksAreParsedHolds`: whatever the cache serves and however the passes overlap, a proof checked by a
  manifest parses the zkey's chunks in their order, and the prover is never wedged; and as long as no
  pass was reset under another call, what any proof parses has the pinned bytes.
- `ProofsEndByTheirCallHolds`: until the page acts on the prover itself, a proof ends in a step that ends its own call;
  the graph is released only by the step that installs a proof. Neither depends on how passes overlap.

  The second half of the first theorem is false without `~overlapped`: that is the third finding above.
  `SessionInv` says what each call knows at each await of its own about a prover that the others change. What
  holds always: nothing is read before a pass began (`NothingReadYet`) and, until the page aborts it, a
  proof is fed by the call that began it (`FedByItsOwner`). What holds until a pass is disturbed (`Undisturbed`): that the
  one pass has hashed what it has read (`OnePass`) and whose hashes a proof is checked against (`CheckedByPins`).

the artifact cache, for any number of tabs, versions, loads and damaged entries:
- `OnlyTrustedProgramsRunHolds`: a loaded prover runs its own compiler's program of the trusted graph, or the
  pinned one.
- `CacheChangesAreAuthenticated`: an unpinned load leaves the cache alone, a call stores what it
  authenticated, and what it stored it does not compile again.

  `CacheInv` says what a call may rely on at each step, given that the entry may be replaced between any two:
  only on what it holds itself.

and all of them together:
- `RefusedCallsDisturbNoOtherHolds`: a refused or failed call of any binding changes nothing for others. The
  suite's specification implies that of each component, whose theorems above (`FullOnlyWhenFullHolds`,
  `RejectedCallsAreRetriableHolds`, `ProofsEndByTheirCallHolds`, `CacheChangesAreAuthenticated`) then say it.

`ZkeyBuilder` - any file order, section lengths and order of arrival:
- `NothingNeededWasReleasedHolds`: when a section may begin, what its processor needs is still there; `finish`
  misses no part; a builder that hashes finishes only with the digest of the pinned file; and the only
  sections that can have ended after a failed push are queries (`resumed`): coefficients never do.

  `BuilderInv`: the assignment and the quotient are held exactly as long as a section that
  uses them is to come (`Kept`), the section in progress has taken as many units as it says
  (`InProgress`), and as long as the digest is that of the file's first bytes, nothing but the file's sections came,
  in its order (`DigestFollows`).

`AuthenticatedReader` - any length, chunk size and number of writes:
- `PinnedBytesOnlyHolds`: whatever other processes write between any two reads, the bytes given out are the
  pinned ones, the cached chunk is authentic, and an unchanged file is never refused.

  `ReaderInv` follows the two passes: how far the file is hashed (`Hashing`), which hashes are recorded and of
  what (`Hashed`), what part of a chunk was refilled (`Refilling`) and what may be cached (`Cached`); `Unwritten` is
  the honest case. A chunk's hash fixes its bytes: a digest is the bytes themselves.

`Sage` - any field, graph size, operations, inputs and number of calculations:
- `EvaluationIsExactHolds`: compiled evaluation gives the assignment or the refusal of the direct evaluator,
  the compiler never refuses a graph that loads, and idle workspaces are wiped and bounded.

  `CompilerInv` ties slots to nodes: each slot has an owner, the slot of a node that is still to be read is
  owned by it (`Live`), a free slot's owner is read no more (`Free`), and no node between another and its last
  use was given the same slot (`Unharmed`), which is the statement that survives compilation. `Compiled` and
  `Tabled` say that instructions and output table are the nodes and signals under that renaming. In
  `EvaluationInv` both evaluators are at the same node (`InStep`), the slot of every node still to be read
  holds the direct evaluator's value, and the outputs so far agree; one node's step then reads equal operands.
  The operations themselves stay closed: they are the same function on both sides.

and `SageProgram`, any records, limits and costs:
- `LoadedProgramsReadWhatTheyWroteHolds`: whatever was stored, a program that loads runs into no index out of
  bounds, reads no slot that the same calculation has not written, stays in the budget and writes every signal once.

  `ProgramInv` says of what was read that each instruction passed its checks against the slots that the earlier ones
  write (`InstructionsAreValid`), that the rows of the table are ordered by node (`RowsAreOrdered`), and what the
  meter showed after each instruction (`CostsAreMetered`: the sums are a function that exists, as a sum over
  data cannot be unfolded). Of the run it says that it is that far into all three (`RunHasCome`): it has written
  what the instructions behind it write, assigned the first rows of the table, and no row left names a node behind
  it. The rows due at a node are therefore a prefix of what is left (`DueFacts`), and at the end none is left.

`SignetTool` - any number of invocations, files, arguments and replacements:
- `OutputsComeFromPinnedSourcesHolds`: what is rewritten is the graph of the pin, a success stays whole at its
  path, nothing truncated does, and the report is true of it; an inspection answers ok only if a client loads the
  pin, though it reads the file twice.

  `ToolInv`: an invocation past its read holds the bytes of its pin (`WasIdentified`), past its rewrite that graph
  (`WasRewritten`), past the gate something that loads (`WasChecked`); the file at the output path belongs to the
  one invocation that created it (`OwnedByOne`), which is what `create_new` is for.

and `ArtifactFrame`, any artifacts and limits with a first reservation below the limit of a graph and a tool whose
own bound is no smaller than the evaluator's:
- `OnlyOneWholeFrameIsOpenedHolds`: an artifact is opened exactly if it is pinned, within its limits and one whole
  frame of the size it declares, the tool unwraps what the evaluator takes, and no more than a step beyond
  what was read is reserved.

  `FrameInv`: past its header a frame was taken (`HeaderWasTaken`) and its words so far lie within the content, the
  first break and every bound (`WordsAreWithinBounds`). So the end is reached only by a frame that is whole,
  and a whole frame is never refused on the way.

**Only model-checked.** Liveness (`CallsSettle`, `CompressReturns`, the fairness of `ImplementsService`) and
`ENABLED` are out of the prover's reach. So is what recursive functions and folds over data compute for every
input, beyond the inductions over levels and counts that `SetInduction` gives: the kernels
(`KernelsAreExact`), the algebra of `WorkspaceProofIsFresh` and `StreamedKeyIsResident`, decoders and square roots
(`OneBodyPerZkey`, `BufferHoldsWhatWasGiven`, `TranscodedBodyIsTheSameGraph`, `GraphsKeepTheirMeaning`) and
the framing of `OnlyAuthenticatedIsParsed` stay with TLC. `KeysMatchTheirFiles` has no theorem yet (section 6);
`OtherGeometriesAgree` checks two more instances of what `ShardedNotesTree_proofs` proves for all. That Poseidon and
digests behave as free constructors is the assumption that all these theorems share.

## 5. Not modelled

- Field and curve arithmetic at full width, Poseidon, signatures, ciphers, notes and stealth addresses:
  stateless cryptography. The extension field of G2 is a field in the MSM models.
- `BoundedReader` and the capped copy of artifacts/mod.rs; opening artifacts by path.
- `validate_proving_key`: its curve and CRS checks, and the key's own fields in the header section.
- The byte encodings of snapshots and of packed arguments; in `SignetBodies` the input table's fixed rows,
  on both sides of the preflight; what the parity check of `transcode` compares (its two
  outcomes are a choice of `Check`), and `validate` against a reference witness; a tool that is killed between creating and removing its output; a removal that fails.
- The contents of a proof in `SerialQueue`: a job is a step that ends, whether it succeeds, fails or panics.
  A crash of the process leaves no state in the bindings.
- In `StreamingSession` a page may abort under a running call, but `OnlyItsCallEndsAProof` is stated for pages
  that do not: the prover object has no notion of a call, and the documents promise nothing for it.
- The wasm bindings of curvy-core (conversions around the trees of `ShardedNotesTree` and `Imt`),
  benchmarks, harnesses, fuzz targets, scripts and release tools.

## 6. Plan

Proofs that would come next: the two passes of `ZkeyMatrices` and the manifests of `ZkeyManifests`
(`KeysMatchTheirFiles`); the chunks of `ManifestStream` (the framer is given a prefix of the pinned file), with its
loops as recursive functions; `SlotsAreThePeakOfLiveNodes` of the compiler, whose slots `CompilerInv` already ties to
nodes; `SystemZstd` for any number of blocks, safety only.
