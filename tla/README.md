# Camelid Enterprise: TLA+ models, checks and proofs

This directory holds the TLA+ development kept beside the Rust workspace in
`src/`: modules that model the parts of the system whose correctness depends on
interleaving, failure or bounds, TLC configurations that check them on small
instances, and TLAPS proofs of their most important invariants for every value
of their constants. Source references are relative to `src/crates/`.

Contents: [the system](#the-system), [hard behaviours](#what-is-hard),
[modules](#the-modules), [runs](#the-runs), [fairness](#fairness),
[proofs](#the-proofs), [disagreements](#where-the-code-and-its-words-disagree),
[not modelled](#what-is-not-modelled), [plan](#plan).

## The system

Camelid Enterprise serves a language model to the organizations of a deployment.
A request takes this path:

```
client ── gateway (one or more pods) ──────────────── replica ─────────────────────────
          identity → selector → quota → admission     surface → handler → pool → decode
             │          │         │         │                    │        │
          SQLite     semaphores  process    semaphore          bounded    threads
          store                  or Postgres                   channel
             └── audit log, usage log ──► evidence ingestion (Postgres)
```

Every component, the state it keeps, what changes it, and what makes it correct:

| Component | Source | State | Operations | Correct when |
|---|---|---|---|---|
| Generation pool | `server/src/in_tree/worker.rs` | a mutex-protected queue and `open` flag, a condition variable, the atomics `depth` and the handle count | `spawn`, `post`, `run`, the slot loop, `Clone`/`Drop` of a handle | depth exact, admission bounded, no lost wake-up, callers told the truth, threads exit with the last handle |
| Generation streaming | `server/src/in_tree/stream.rs`, `engine-core/src/runtime.rs` | a bounded event channel per stream, the decode loop's position, the body's phase | post, forward pass, token callback, blocking send, poll, client departure | the client sees a prefix of one well-formed stream; a departed or slow client does not leave compute running |
| In-tree handlers | `server/src/in_tree.rs` | none between requests | parse, render, call the pool | 503 with Retry-After exactly when the pool refuses |
| Gateway request path | `gateway/src/lib.rs` | in-flight semaphore, per-request audit and usage records, connection marker | authenticate, select, charge, admit, forward, body ends, drop, expire | permits conserved; every response audited once; usage says what happened |
| Selector capacity | `gateway/src/lib.rs` 861-919, 1689-1782 | a global semaphore and one per organization in a swept map | acquire both under one deadline, read the body, release | one tenant cannot take the others' share |
| In-process quota | `gateway/src/lib.rs` 846-989 | a map of windows | `admit` | bounded bursts, earned refusals |
| Shared quota | `platform-store/src/lib.rs` | `quota_config`, `quota_windows` | configure, admit, sweep | one limit for the deployment; fail closed |
| Evidence log | `gateway/src/lib.rs` 150-480 | bounded channel, writer thread, three counters | `write`, `flush_and_stop` | no silent loss; flush reports are true |
| Model catalog | `gateway/src/lib.rs` | routes fixed at start-up | parse and verify routes, read the selector, choose an upstream | a verified route answers; the selector and the replica read the same name |
| Identity store | `identity/src/lib.rs` | SQLite tables of users, organizations, principals, tokens | create, issue, rotate, revoke, resolve, remove | rotation has no instant with both or neither token |
| Evidence ingestion | `platform-store/src/lib.rs` 762-905 | Postgres tables | batch insert with line-by-line fallback | repeatable; one bad line loses only itself |
| Schema migrations | `identity/src/lib.rs` 819-1025, `platform-store/src/lib.rs` 600-631 | schema version | step by step in transactions | resumable; a newer store is refused |
| Replica surface | `server/src/surface.rs`, `replica-contract/src/lib.rs` | served model | path, method and model filter | only the contract's surface and the served model |
| Attribution | `server/src/attribution.rs` | fingerprint of the model file, the published record | hash, verify, stamp every response | receipts name the file that was loaded; equal records mean equal tokens |
| Lane admission | `server/src/lane.rs`, `contract.rs` | none | refuse unpermitted settings, hash configuration | unknown settings never pass |
| Process start-up | `server/src/main.rs`, `gateway/src/main.rs` | phase | serve, drain, flush | evidence flushed after the last response |
| GGUF and tensors | `engine-core/src/gguf.rs`, `tensor/`, `model/` | descriptors, retained blocks | parse, check, bind, load, decode | what loads has its own bytes and the shapes the pass takes |
| Forward pass | `engine-core/src/forward/` | the key/value cache | forward a token, sample | a head reads what its own past wrote |
| Tokenizer | `engine-core/src/tokenizer.rs` | tables of a vocabulary, an incremental decoder | encode, decode, push | the ids are the text; the pieces add up |
| SIMD kernels, host probes | `engine-linux`, `engine-macos`, `engine-windows` | none | vector arithmetic | equal to the scalar reference |

Interactions that matter: the pool and the stream share a slot's thread (a
blocking send holds the slot); the gateway's permit, its usage record and the
replica's exchange travel together in nested response bodies; the selector's
permits are given back before quota is charged; quota is charged before
admission is tried; the logs are flushed only after `serve` has returned; every
gateway pod shares rows with every other one through Postgres.

## What is hard

`PROJECT.json` lists each hazard at its line. They are of these kinds:

- *Lock-free counters beside locks*: `depth` and `Arc::strong_count` are read or
  written outside the queue's lock (`worker.rs:102`, `:160`), `queued_records`
  inside the channel's lock and `written_records` outside it.
- *Cancellation at every await*: a handler's future may be dropped wherever it
  waits, by the client or by the wall-clock cap on the connection; permits,
  queue places, usage records and quota charges must come out right.
- *Bounded buffers with blocking or dropping senders*: the event channel blocks,
  the log channel drops and counts.
- *Two clocks or one clock read early*: the in-process quota reads the clock
  before its lock; the shared quota uses the database's clock and statement
  snapshots that can be older than the row they charge.
- *Partial failure of a store*: a statement's answer is lost after it ran; one
  line of a batch cannot be stored; a process dies inside a migration.
- *Something is replaced under the code's feet*: a model file while it is hashed
  and loaded, a membership while a token is looked up, a schema while it is read.
- *One contract read by three programs*: gateway, surface filter and handler each
  read the path and the model's name out of the same request.
- *Bits and boundaries*: sixteen block layouts, offsets and sizes declared by a
  file, characters that arrive in pieces, a cache that grows between steps.
- *Shutdown*: a flush with a deadline racing writes, and a writer that may hang.

## The modules

Each module models one component, one action per critical section, atomic
access, statement or await; a pure algorithm is a set of operators used by the
module that runs it. `MC*` modules only add constant values and symmetry. A
definition named `X_Something` or `Something_X` beside `X` is a *mutant*: `X` with a plausible bug,
unused by the specification, kept to show that a property distinguishes it.

### Replica: the pool and its streams

**GenerationPool** (`worker.rs`). Slots are threads with a program counter
(`ready`, `waiting`, `running`, `returned`, `exited`); handles are holders that
call `post` or `run`, clone or drop. `Take`, `Exit` and `Wait` are the three
outcomes of one pass through the slot loop under the lock; `Finish` is the end of
the job body, panic included; `Release` the `fetch_sub` after it. `PostAccepted`
and `PostRefused` are the critical section of `post`, `NotifyOne` the
notification after the lock. `ReadCount`, `Close`, `NotifyAll` and
`ReleaseHandle` are the steps of `Drop`. Spurious wake-ups and abandoned callers
are actions.

**JobServer** is what the pool promises: a line of bounded length, served in the
order of arrival by workers that never leave, one answer per caller. It has no
lock, no handle and no shutdown. `GenerationPool!PoolServes` is the refinement
mapping: the queue is the line, a running slot is a serving worker, and
everything else stutters.

**StreamGeneration** (`stream.rs` with `generate_incremental` and
`generate_until_with_callback`). The job decodes (`Choose`), runs the callback
(`OnToken`), sends (`SendDelta`, `SendDeltaFails`) and terminates
(`SendTerminal`); the body is polled (`PollRole`, `PollEvent`, `PollClosed`,
`PollDone`) or dropped (`Leave`). Whether a token has text, and whether it ends
the generation, is nondeterministic. The pool is represented by what
GenerationPool guarantees of it: a queued job runs when a slot is free.

### Gateway

**Gateway** (`proxy_request`, `audited`, `PermitBody`, `UsageBody`, `serve`, the
shutdown order in `main.rs`). A request's program counter names the await it is
at. `ClientLeaves` and `Expire` may happen at each of them; `DropConnection` is
the drop of the handler or of the response that follows. The quota store charges
on its own (`StoreCharges`), so an answer may be lost. One request per
connection; selection is one outcome.

**SelectorCapacity** (`OrgSelectionAdmission`, `acquire_selection_capacity`, the
body read in `select_catalog_upstream`). Semaphores are first-in-first-out queues
with a set of holders, as tokio's are; the organization map holds a semaphore as
long as someone beside the map owns its `Arc`. Timers tick, and no timer runs
past its deadline unpolled. `SelectionPermits` is dropped in two steps, the
organization's permit (`ReleaseOrg`) and then the global one (`Release`), and a
request that stops waiting leaves its queue (`LeaveQueue`) before it gives back
what it holds; every other request may act in between. So an organization can
have one global permit more than its share for a moment, and the share is stated
of the bodies it reads and the places it has in line (`ClaimsOf`), which is what a
stalled body holds up.

**GatewayLog** (`GatewayLog`, `write_jsonl_records`, `flush_and_stop`). The mutex
is modelled because `write` keeps it from `try_send` to the count. Failed writes
and a writer stuck for ever are behaviours. The two loads of a timed-out flush
are one step; the module says why that loses nothing.

**OrgQuota** is the enum of that name as `open_org_quota` opens it: either of two
modules, chosen once. **PlatformQuota** (`configure_quota`, `ADMIT_SQL`,
`SWEEP_SQL`, `admit`): a statement takes its snapshot (`StatementBegins`) and
later its row (`StatementCharges`, `StatementFindsFull`); a configuration is a
transaction under the advisory lock with its deletions pending until it commits.
Pods crash, statements are aborted by `statement_timeout`, answers are lost, the
configuration row goes missing. A sweep may come at any time, though the real
sweeper waits a window or a minute, whichever is longer. **InProcessQuota**
(`InProcessQuota::admit`): `ReadClock` is a step of its own, before the critical
section `Admit` or `Refuse`.

### Stores

**IdentityStore** (`identity/src/lib.rs`). Processes open one SQLite file of any
schema age, refuse a newer or foreign one, upgrade it transaction by transaction,
and create users and organizations, add and remove members, issue, rotate and
revoke tokens. A write transaction takes the write lock before its first read and
is therefore one step, except a rotation, which reads the clock more than once
(`RotateToken`, `RotationLifetime`, `RotateCommits`) with the clock moving in
between. `Exit` is a death at any point; what was not committed is gone. What a
secret resolves to is `Seen`, whichever schema the row is in.

**TokenWorth** is what the store promises: each secret is worth something or
nothing, a rotation moves the worth from one secret to the next in one step, a
removal ends every secret of the membership in one step, nothing else changes any
worth. `IdentityStore!WorthIsKept` is the refinement.

**EvidenceIngest** (`platform-store/src/lib.rs`). `BuildPool`, `TakeLock`,
`Migrate`, `RefuseNewer` and `DieMigrating` are `connect` and `migrate` under the
advisory lock; `StartPass`, `Scan`, `InsertBatch`, `BatchRefused`,
`InsertEvidence`, `PassFails` and `FinishPass` are `ingest_evidence` with its
line-by-line fallback. The file's writer goes on (`WriteRest`, `WriteHalf`) and
may be killed in the middle of a line (`TearThenAppend`). A line is known by its
digest, so rows are a set.

### The request's meaning: surface, lane, catalog, attribution

**LaneAdmission** (`lane.rs`): which variables are refused, what the lane writes
itself, the preimages of the published digests. **ReplicaSurface** (`surface.rs`,
`replica-contract`, `in_tree.rs`): the contract's routes, the filter that pins
the model, the handlers' checks in their order. **ModelCatalog** (gateway): the
command line, the catalog, the selector. All three are operators on requests,
environments and configurations; the name of a variable is a sequence of words, a
body is a record of what the readers tell apart, and the readers differ in the
model as they do in the code: `serde_json::Value` keeps the last of several
members, a derived reader takes the first and rejects a second, the gateway wants
one whole object.

**Serving** composes them. A replica goes through `Start` (lane, worker pool),
`Identify` (fingerprint and digest from one open handle), `Read` (the metadata
and the tensors, each opening the path again), `Serve` (`verify_unchanged`, the
served model), `Die`. At any moment a file moves to a path, from where the one that
was there may come back (`Move`), or is written over in place (`Rewrite`), unless
the path is on a read-only mount (`WritablePaths`). Either lets a process load
something else than it hashed when the path has the fingerprint again by the time
of the re-check; `disturbed` has the processes to which that came, from the open
of the file that is hashed to the end of the load, and `SameIdentitySameTokens`
excepts those and no others. Without the exception TLC refutes it. The gateway goes
through `StartGateway`, `VerifyOrigin`, `Listen`, `StopGateway`. `Ask` and
`AskGateway` send one request of the set and record everything that was read and
answered; a request changes nothing else, so one at a time is enough. Steps that
cannot meet are not interleaved: clients ask while no replica is on its way
(`Settled`), and a replica directly while the gateway is down; and the process
that others are compared with (`witness`) is picked while the gateway is down,
after which gateway and clients rest.

### Engine

**QuantBlocks** (`tensor/blocks.rs`): the block formats. A decoder is described
by which bits of the block make each value, its scale and its minimum; the
integers are computed where they could overflow. **ModelFile** (`gguf.rs`,
`model/config.rs`, `model/binding.rs`, `model/weights.rs`, `tensor/store.rs`): the
parser's checks, the typed accessors, the configuration, binding by name and
shape, and the seven ways to load a tensor. **ForwardPass** (`forward/compute.rs`,
`kv_cache.rs`, `rope.rs`, `tensor/mod.rs`): the widths every kernel asks for, the
cache as cells that remember who wrote them. **TokenText** (`tokenizer.rs`): UTF-8,
the special tokens, pre-tokenization, both merge algorithms, decoding and the
incremental decoder. **Engine** (`runtime.rs`) runs them: `LoadModel`,
`EncodePrompt`, `Generate`, `Forward`, `Emit` are the steps of a generation whose
argmax is any id; `NotFinite` the errors numbers can cause; `ReadTensor` and
`ReadHalf` read one tensor alone.

**GenerationProofs, StreamGenerationProofs, SelectorCapacityProofs,
GatewayProofs, OrgQuotaProofs, IdentityStoreProofs, EvidenceIngestProofs** and
**ServingProofs** hold the theorems; each extends the modules it is about.
GenerationProofs is about GenerationPool and Engine, whose specification is
`EngineSpec`, GatewayProofs about Gateway and GatewayLog.

## The runs

Deadlock checking is off in the runs of bounded processes: each instance has a
bounded number of requests, jobs or starts and a shutdown, after which the system
really stops. What must not get stuck is stated as a liveness property. It is on
in `serving` and in the `engine` runs.

| Run | Bounds | What it shows |
|---|---|---|
| `pool` | 2 slots, 2 handles, 3 jobs, queue of 2 | admission bounded, wake-ups kept; the pool implements `JobServer`; accepted jobs complete, staying callers are answered, closed pools exit |
| `stream` | 2 streams on 1 slot, buffer 1, budgets 3 and 0 or 1 | a terminal event means the whole text, departure costs at most one token and frees the slot though nobody reads, compute stays near the reader, readers reach `[DONE]` |
| `log` | 2 tasks of 2 records, 2 flushers, channel of 1 | flush reports are true, totals final; writes and flushes return though the writer hangs; a writer that does not hang drains |
| `selector` | 3 organizations, one with 2 requests, 2 slots | shares kept, nobody shed for another, one deadline, every request ends by deadlines alone and holds nothing then, while others act between its two releases |
| `gateway` | 2 requests, 1 permit | replicas work under a permit and a charge, audit and usage are complete and true at every await; evidence before flush; permits return by the connection cap alone |
| `quota` | 2 pods, 2 starts, limits 1 and 2, windows 1 and 4, 2 requests, clock to 4; in one process 2 calls, 2 tenants, limit 2, window 3, lag 1, clock to 5 | one limit for the deployment for windows the sweeps leave in place, true answers, across contention, sweeps and crashes; bursts bounded, refusals earned |
| `identity` | 2 processes, 2 principals, 1 organization beside the personal ones, 2 secrets, spans 1 or none, clock to 1, stores of every age | every commit, upgrade and crash is a step of `TokenWorth` or none; no rotation buys more than was held |
| `evidence` | 2 processes, one line of each kind, files of 3 lines, batches of 2, 2 passes, schema versions 0 to 3 | finished passes are complete, no row is claimed twice, upgrades are serial |
| `serving` | 2 replicas, 2 paths, one of them writable, 3 files, 2 changes of the disk, 7 configurations, 4 gateway command lines, 34 requests | equal published identities mean equal tokens, but for what the re-check lets pass; the three readers of a request agree; every answer is attributed; a verified route answers |
| `engine` | 678 small files, whole or with one or more things changed; tensors of 1, 2 and 12 blocks of every type; 6 vocabularies; 517 and 870 texts to 4 characters over letters, contractions, digits, blanks, marks, specials; budgets 0, 2, 4, 5 | what loads runs, attention reads its own past, pieces add up, encodings are the text, every bit is read once and a half of any exponent is the nearest |
| `pool_last_drop`, `engine_layout` | 1 job, 2 handles; the files of `engine` | the disagreements below |

Why the bounds are enough to be interesting. `pool`: three jobs on two slots and
a queue of two let a post race busy slots and let two jobs be in line, which is
what order means; two handles are what a clone made during a drop needs. `stream`: one
slot and one place in the buffer are what makes a blocked send hold back another
stream; three tokens fill the buffer, block a send and leave one more to compute,
or give text, no text and text again. `log`: a channel of one with four records
overflows while one is in the writer's hands, and the second flusher meets the
first at every step. `selector`: two requests of one organization contend for its
share, and three organizations with a share of one contend for two slots, so both
refusals happen, and the second of the two can take both permits between the
releases of the first. `gateway`: the second request meets an exhausted semaphore
wherever the first one is; the permit invariants are proved for any number.
`quota`: at the last tick of the clock a pod with windows of 1 sweeps a counter that
a statement of the pod with windows of 4 is still to charge; two starts give two
pods that disagree or one that restarts; the in-process bound is tight, a span
one tick longer is violated at the same size. `identity`: two secrets are one
rotation, and one secret of another credential beside it; a clock of one is what
makes a token of span one expire in the middle of a rotation. `evidence`: a batch
of two with three lines has a full batch and a rest, and two processes overlap in
every way. `serving`: two replicas are what "equal identities" compares; two
changes (`MaxChanges`) are a file moved away and back or written over and restored
during one load, two of the contents have one length and the third another. `engine`: two layers, grouped heads, a
growing cache (`GrowChunk` of 2 for 256), and characters of one to three bytes cut
between tokens at each place; twelve blocks are where the parser's 22 bytes of a
Q5_1 block and the decoder's 24 meet again. The names of the artificial bounds are `Budgets`
with `MaxBudget`, `MaxRecords`, `MaxClock`, `MaxBoots`, `MaxChanges`, `MaxInstant`, `MaxLag`,
`MaxLines`, `MaxPasses`, `MaxSpan`, `MaxU64` and `MaxU32` (small integers stand for the ends of
the machine's), and the finite sets in `MCServing` and `MCEngine`; all other
constants are the program's own parameters.

Every property of a passing run has a mutant in `PROJECT.json` that TLC refutes
it with.

## Fairness

Only what the code's scheduling gives is assumed.

- GenerationPool: weak fairness of each slot's and each holder's own next step.
  Threads are scheduled by the operating system and a job body returns, because a
  generation has a token budget. Nobody has to post, clone, drop or leave, and
  spurious wake-ups are never relied upon. `post` holds the lock for one step, so
  no strong fairness is needed.
- StreamGeneration: `SlotFairSpec` makes the job step when it can, and nothing
  else. `EveryStreamEnds` has two parts: a departed client's slot is freed with
  no more than that, and clients that stay are served to the end under the
  premise, stated inside the property, that they keep reading.
- GatewayLog: `CallerFairSpec` makes tasks and flushers run, and the flush's
  deadline pass; the writer may hang. `WriterDrains`, the second half of
  `LogKeepsMoving`, carries the premise that writes return.
- SelectorCapacity: tasks are polled and the clock runs; bodies may never arrive.
- Gateway: the connection cap fires and dropped tasks are dropped; clients,
  replicas and stores may stall for ever.
- The quotas, the stores, Serving and Engine have safety and step properties only:
  a call that is not answered by the database is answered by its timeout, which
  the model has as an action; a start-up has no promise to end.

## The proofs

TLAPS proves the following for every value of the constants allowed by the named
assumptions. Most say that the sets of actors are finite, the capacities positive
and the model values distinct (`PoolAssumption`, `StreamAssumption`,
`LogAssumption`, `SelectorAssumption`, `GatewayAssumption`, `QuotaAssumption`,
`InProcessAssumption`, `IdentityAssumption`, `IngestAssumption`,
`ServingAssumption`, `RecordAssumption`); finiteness is what makes the counted
sets have a size. The others say something of the world. `MarksAreMarks`: a
secret's worth is not mistaken for the absence of one. `DiskAssumption`:
contents with one digest are one. `ConfigurationAssumption`: a
replica's path is a place on the disk, and a build permits names of its own
namespace only where the engine reads none (`lane.rs:245-250`; that an operator
may not set what the lane writes is then a consequence). `RequestAssumption`:
what clients ask is an HTTP request. TLC evaluates all of them on the runs.

Each proof module has the same layout: the invariant, one lemma per action that
disturbs it, the step, the theorems. Every invariant named below was checked by
TLC on the component's run before it was proved.

*GenerationProofs, the pool.* `TypeCorrect`, `DepthIsExact`, `AdmissionBounded` rest on
`CountInv`: that `depth` is a natural number when a slot decrements it is not a
matter of types, it needs that the slot is counted. `ClosedHasNoCaller` needs
`ClosingIsAlone`: the holder whose `Drop` read a count of one is alone from that
read on, before it closes anything. `WakeupsAreNotLost` counts awake slots and
pending notifications against queued jobs, action by action. `JobsAreHeldOnce`
relates the queue's positions, the slots and the state of each job, and
`CallersAreToldTheTruth` uses it. `PoolIsAJobServer` is the refinement, step by
step: `ServerInit` maps the initial states, `ServerStep` maps each of the pool's
actions to one of `JobServer` or to none. It needs `CallInv`, that a call under
way is about a job of its own which was accepted and not yet answered: otherwise
an answer could be given twice.

*GenerationProofs, the engine.* The assumptions are `FileAssumption` (what can be
read from a file: integers where the format has integers, and as many entries of
the tokenizer as texts), `BudgetAssumption`, `WidthAssumption` and
`GrowAssumption`; nothing is assumed of how many tensors a file has, of their
dimensions, types, names or offsets, nor of layers, heads, texts or samples.

The first half follows a load from the parser to the kernels. `ParsedAreApart`: the
tensors a parsed file declares have no byte in common, since each starts where the
aligned end of the one before it is (the least tensor that did not would follow
one that does). `EveryValueIsDecoded`: a tensor whose size the parser accepts
consists of whole blocks, and its decoder makes of them as many values as its shape
says. `MatrixHas`, `RowIs`, `NormIs`: then a weight that was bound to a shape makes
a row of the other width, whichever way round the file declares it. `LayerRuns`
puts a layer together, kernel by kernel, `EmbeddingIs` and `OutputIs` the two ends,
and `ServedRuns` is the pass of any token of the vocabulary. What it excepts is
what the load does not look at and the code leaves to the request: a file is
`Served` when it was loaded, `LeftToTheRequest` holds (dimensions that are zero, a
rotation wider than the head, widths that are not whole blocks) and parser and
decoder agree on its block types (`BlocksAgree`; they differ on Q5_1). Each
exception is a file of the run.

The second half is `EngineInv`, which is inductive and has four parts.
`ModelIsLoaded`: what a generation works on is a file that loads, with its own
tokenizer, and a prompt of that tokenizer's ids. `PassesAreCounted`: position,
passes, tokens, pieces, budget and context, phase by phase; that a position is
always free is this and `check_request`. `CacheIsWritten`: for every position
so far, layer, head and place, the cell at `PlaceOf` holds the key of the token
that stands there. It needs that two rows of the cache have no place in common
(`PlacesAreApart`: a place is a number with the digits position, layer, head and
dimension, and `Digits` says numbers with equal digits only are equal), that a pass
writes its own rows and no others (`RowsHave`), and that growing keeps what was
written (`RoomIs`). `RotationIsSound`: a pass that was made turned heads of the
declared width; here the row that `linear_row` makes may be wider than that, when
the decoder read less than the shape says, and `PassRotates` shows it is not.
From `EngineInv`: `AcceptedModelsRun` (with `ServedRuns`) and `AttentionIsSound`
(with `KvHeadIs`, that a group's heads read the group's key/value head, and
`TurnedOnce`, that both pairings turn each of the first `ropeDim` places once).
TLC checked the four parts on the files of the run that are continued.

*StreamGenerationProofs.* `StreamInv` says that what a reader received, what the
channel holds and the token in the job's hands are consecutive parts of one text,
of any length, whatever the order in which they move (`Shape`, with `ReadsAs` for
the order of role, text, terminal event and `[DONE]`). `LoopInv` keeps the loop
within its budget, `LateInv` says where a token decoded after a departure finds
the job. From them `StreamsAreWhole`,
`DepartureIsNoticed` and `SlowReadersHoldCompute`, for any buffer, any number of
slots and streams, and any budgets up to `MaxBudget`.

*SelectorCapacityProofs.* `SelectorInv` adds to the types that a permit belongs
to a request past its acquisition and that no semaphore gives out more than it
has. `OneSemaphorePerOrg` is the soundness of the sweep: dropping what only the
map owns never separates an organization from a semaphore in use. `SharesHold`
follows because whoever reads, or is in line for the process's slot, holds a permit
of its organization's semaphore, the one the map has for it. A request between its
two releases (`Returning`) does not: it holds the global permit alone.
`WaitInv` says that the timer is the time waited, over both waits, until a request
has both permits (`OneDeadline`). `QueueInv` says that those waiting for a global
slot stand in its queue once each, and nobody else does; the action property
`NobodyShedForAnother` needs it, since a permit given back goes to the head, and
it counts the permits in `Returning` beside the claimants' shares.

*GatewayProofs* is about two modules. For Gateway, `GatewayInv` consists of the
types of the work variables, `PermitsAddUp`, `OpenInv` (an exchange is open only
under a permit, and only from forwarding to the end of the body) and `ChargeInv`
(a request past its quota is charged, and stays so). The actions are grouped by
what they do to permits and exchanges. From it: `PermitsAreConserved`,
`ReplicasAreProtected` and `NothingIsServedFree`. `EvidenceInv` adds, for each
request, what its place says of its records in both logs (`Evidence`), and that
nobody handles a request once the logs are flushed (`FlushInv`): from it
`EvidenceOfEveryRequest` and the action property `FlushIsLast`. For GatewayLog
(whose specification is `LogSpec`), `LogInv` says who may hold the lock
(`LockInv`), where every accepted record is, as numbers (`CountInv`), and that
the sender is dropped before the writer stops, by the one flusher that took it
(`StopInv`). From it: `LogTypeCorrect`, `CountsAgree`, `DrainedIsComplete`,
`PendingIsAnUpperBound` and the action property `TotalsAreFinal`.

*OrgQuotaProofs.* For the shared quota, `SnapshotInv` says that a running
statement's limit is the recorded one for as long as the configuration it read
stands. `AnswersHold` follows. `LimitHolds` is an action property and needs
`CountInv`, that a row which a statement may still charge counts every charge that
was made to it. A sweep is what could break that, so both speak of statements
whose window w has `RetentionCovers(w)`: three windows of any pod that sweeps are
no shorter than w and the statement timeout. One window for the deployment, of at
least half the timeout, has it; see the observations
for what happens without it. For the quota in a process,
`BurstHolds` needs `WindowsInv`: the history of a tenant's charges, `charged`, a
sequence of clock ticks, is cut into windows of no more than the limit each, the
last of which is the standing one (`Windowed`, `Standing`); a span that is short
enough meets two of them at most. `RefusalHolds` is the action property.

*IdentityStoreProofs.* `StoreInv` consists of types, `LockInv` (a call in the
middle of a write is the only one, in a store of the current schema), `EmptyInv`
(a store without tables has no rows), `RowInv` (every row is of a secret that was
drawn, lasts no longer than a lifetime, and is scoped to a membership that is
there) and `CallInv` (what a call under the write lock has read still holds:
`ReadsStillHold`). From it `RotationKeepsLifetimes`, an action property,
and `StoreKeepsWorth`, the refinement of `TokenWorth` step by step: every commit
maps to one step of `TokenWorth`, every upgrade, crash and read to none.
`OneSecretResolves` carries `TokenWorth`'s own invariants over to the store: at no
instant do two secrets of one credential resolve, and nobody resolves to an
organization they have left. `ResolvingInv` adds that only a secret that was
drawn names a credential; a new issuance could collide with an old one otherwise.

*EvidenceIngestProofs.* `IngestInv` has three parts: the schema (`SchemaInv`,
giving `SerialUpgrades`), the progress of each pass (`Progress`: every storable
line before the cursor is in the table or in the batch in hand, and the summary
has counted each line once), and `ClaimInv`, the equality `OneClaimPerRow` states.
A sum over processes would need induction over data; the amounts claimed are a
set of pairs (`Claims`) instead, and its size moves with the table's by the
theorems on finite sets. `CompletePasses` follows from `Progress` at the end of
the file.

*ServingProofs.* `ServingInv` says of each replica that it was launched with an
admitted configuration (`Launched`), that while it loads undisturbed, and its path
has the fingerprint of the hashed file, the path has the hashed contents and
everything read so far is of them (`Kept`), and that when it serves undisturbed all
of it is of one content (`Whole`). The argument: a change of the path during the
load either brings another fingerprint, and then nothing is claimed, or brings the
hashed one, and then the process is disturbed (`PutKeeps`); so where neither is the
case, the path has held the hashed contents ever since. Nothing is assumed of
inodes: one may come to have any contents, any number of times. Then
- `EqualRecordsEqualTokens`: the digest gives the contents, and equal admission
  digests mean equal admission, because no row of one kind can stand for a row of
  another (`AdmissionSeparates`), so that any two builds refuse alike;
- `ForwardedIsServed`: an analysis of the contract, route by route and method by
  method (`RouteCases`, `RegisteredMatches`, `UnknownIsNotServed`), and of the
  checks before it;
- `TokensAreOfTheNamedModel`: an analysis of the handlers' checks in their order
  (`FirstFailureIs`, `LaneMakes`), and, for a catalog, that a body the gateway
  forwards has one model member, which all three readers take (`NamedOnce`);
- `VerifiedRoutesHold`, from `VerifiedInv`: a replica that was asked and lives
  still serves the one model it answered with;
- `ResponsesAreAttributed` and `EnvironmentHolds`.

Only model-checked:
- all liveness properties: fairness and ENABLED are outside what the prover
  handles here;
- `PiecesAddUp`, `EncodingIsTheText` and `DecodingIsExact` of Engine. The first two
  compare what folds over a text or over tokens compute: an induction over data,
  which the prover cannot do here, so TLC compares them with reference definitions
  on all inputs of the bounds. The third is about finite tables, one block of
  each type and the halves of every exponent, which TLC's run goes through; what of
  it depends on the size of a tensor is `EveryValueIsDecoded`.

## Where the code and its words disagree

| Run | What is said | What the code does |
|---|---|---|
| `pool_last_drop` | `open` is cleared when the last handle drops (`server/src/in_tree/worker.rs:34-36`) | two handles dropped together both read a count of two, and nobody closes the queue |
| `engine_layout` | each block struct mirrors the wire layout byte for byte (`engine-core/src/tensor/blocks.rs:3`), and Q5_1 is among the types supported (`tensor/store.rs:279`) | the parser takes a Q5_1 block for 22 bytes (`gguf.rs:131`), the decoder for 24 (`blocks.rs:134`): a tensor both accept has a multiple of twelve blocks, and is silently decoded to 11/12 of its values, because `load_cpu_f32` (`store.rs:232-296`) does not compare their number with the shape's |

Observations without a run of their own, met while reading or modelling:

- A replica is said to admit `slots + QUEUE_DEPTH` before it refuses
  (`worker.rs:19-20`); a burst is refused after `QUEUE_DEPTH` posts while the
  slots are still waking up (`worker.rs:135`). `JobServer` promises the latter.
- A gateway is said to write one audit line per handled request
  (`deploy/README.md:318-320`); a handler dropped at an await writes none, though
  a replica saw the request and it was charged (`gateway/src/lib.rs:1437`).
  `EvidenceIsTrue` speaks of responses.
- Swept windows are said to have ended (`platform-store/src/lib.rs:714-715`), and
  admission never to read an elapsed one, so that sweeping is "hygiene, not
  correctness" (`:75-77`). A window is elapsed by the sweeping pod's own length
  (`:728`): after the window was reconfigured, a pod that still runs with one a
  third as long or shorter sweeps counters that are being charged, and a tenant is
  charged beyond the limit. What is documented of such a mixture is a split
  counter (`:920-925`). The run has it happen, with windows of 1 and 4;
  `LimitIsTheDeployments` excepts just those charges (`RetentionCovers`), and fails
  without the exception.
- `deploy/README.md:295-297` says that no tenant takes more than half of the
  selector budget however it is configured. `default_max_org_selections`
  (`gateway/src/lib.rs:574`) returns at least one, so with a budget of one selector
  one tenant may hold all of it.
- The comment on `InProcessQuota::admit` (`gateway/src/lib.rs:944-947`) says under
  `2 * limit` in a short span. With calls that wait for the lock the model shows
  how short: shorter than the window by twice the wait, because another
  organization's sweep can remove a window just ended, and a late call then
  reopens it at an earlier time. Without waits the span is a whole window.
- A rotation that keeps the lifetime reads the clock for the new expiry before the
  transaction and for the new creation inside it (`identity/src/lib.rs:723-733`,
  `795`): when a second passes in between the span shrinks by it, and repeated
  rotation does walk a credential down, by seconds. `RotationNeverExtends` is the
  direction that matters for safety.
- `verify_unchanged` is said to close the window between hashing and loading
  (`server/src/attribution.rs:225-228`), for all but a rewrite in place at the same
  length (`:234-239`). It compares the file that is at the path afterwards: a file
  moved away and back within the load is not seen either, because the loader opens
  the path by name for the metadata and for each tensor (`tensor/store.rs`). The
  model has both happen; they are what `SameIdentitySameTokens` excepts.
- The same comment says that the file is a live input for as long as the process
  serves (`:241-251`), as at the pinned engine. The engine of this tree reads every
  tensor during the load and nothing after it, so a later change of the file
  changes no token; `Evidence` is of what was loaded.
- Without `general.name` the id of a model is the stem of its file, and the
  renderer of chat prompts is chosen by id: two replicas of one file under two
  names may render differently. That is why `SameIdentitySameTokens` asks for
  equal ids beside equal records.
- Raw text is said not to become control tokens (`tokenizer.rs:566`, `640`); the
  greedy fallback for pieces without a token (`tokenizer.rs:1038`) looks texts up
  in the whole vocabulary, control tokens included.
- Every delta concatenated is said to be the text (`runtime.rs:41`). It is, also
  in the model; but a byte-level token that begins no character mutes what follows
  until the stream ends, in the deltas as in the text.
- `binding.rs:8-10` says that orientation is detected by the pass at run time.
  `linear_row` takes the rows of a weight to be as wide as its input whatever the
  shape says; a turned matrix is taken as it lies.
- The bound in `q8_dot.rs:137` counts 127 as the largest magnitude; a block read
  from a file may hold -128. Both fit.

## What is not modelled

- Floating-point arithmetic, SIMD kernels and host probes: TLA+ has no account of
  them, and the repository's fixtures compare them with a scalar reference.
  ForwardPass has the shapes, the rows and where they come from, and leaves the
  numbers open; the values of the RoPE frequencies, and the products and sums of
  the block decoders, are therefore not modelled either.
- Of TokenText: Unicode classes are those of the characters in use, and no text is
  spelled like the name of a byte token.
- In Gateway: the mode without identity, several requests on a connection, header
  rewriting; in SelectorCapacity: the mode without identity, in which only the
  global semaphore is used; in the quotas: the Retry-After value.
- In Serving: the background write of receipts to a file, which is best effort; two
  names of one file by hard links, of which a rewrite would change both; the details of CORS; TLS.
- In IdentityStore: a clock that is moved backwards, and the listings, which
  change nothing.
- HTTP parsing, serialization, logging and wording; the deployment's manifests.

## Plan

Done: GenerationPool with JobServer and the proof of the refinement,
StreamGeneration, GatewayLog, SelectorCapacity, Gateway and their proofs, the two
quotas and OrgQuota, IdentityStore and TokenWorth, EvidenceIngest with the schema
migrations, Serving with its three operator modules, Engine with its four.

Proved besides: every safety and action property of every component, but for the
three of Engine that are inductions or finite tables.

Next, most important first:

1. Compositions: Gateway with SelectorCapacity and GatewayLog, so that selection
   is no longer one outcome and records travel to the file; JobServer in place of
   StreamGeneration's slots, where a blocked send holds a worker.
2. Gateway: several requests on one connection, and the mode without identity.
