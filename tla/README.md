# WaveMind: TLA+ models, checks and proofs

WaveMind is a memory service for agents: texts are remembered in namespaces,
recalled by similarity, boosted and suppressed, and forgotten. This directory
models the parts of it in which several actors share state (threads, processes,
nodes, regions, databases that do not commit together), checks them on small
instances with TLC and proves what matters most with TLAPS. All definitions are
translated from the sources under `src/wavemind/`; `PROJECT.json` names the lines
behind each of them, the properties each run checks, a mutant of the code for
each property, and the hazards the properties are for.

## 1. Inventory

### Parts modelled

| Part (source) | State | Operations | Talks to | What is hard | Correct when |
|---|---|---|---|---|---|
| Memory node (`core.py`, `storage.py`, cache of `jobs.py`, `api.py`) | the memories table, the records a process keeps in memory, a cache of results (its own or in Redis), the recovery journal | `remember` with and without an idempotency key, `forget`, `query` through the cache, `purge_expired`, refresh from a shared store, restore from the journal | its store, Redis, other processes on the same store | a query between a commit and its invalidation, crashes between commit, append and invalidation, swallowed errors, rows that expire between two statements | it keeps the promise of `MemoryService`; the journal gives the store back; a repeated request makes nothing twice |
| Replicated namespace (`replication.py`, `ReplicatedWaveMind`) | one durable store per replica (rows, row ids, audit log); in memory: availability, field state, one re-entrant lock | `remember`, `query`, `forget` by text or id, `repair_namespace`, `set_node_available`, restart | its own stores; the sync below | store errors half way through a quorum, replicas that missed a write or a delete, field states lost at restart, repair from a stale replica | acknowledged memories stay readable, forgotten ones stay forgotten, repair converges |
| Distributed shard client (`sharding.py`) | rows and tombstone events of each API node; client: pending requests of a thread pool, no lock | `remember`, `forget` by text or id, their batches, `query`, `repair_namespace` | memory nodes over HTTP; `DistributedRepairWorker` calls the repair | requests that fail and are served later, repair from snapshots, calls that overlap, expiry | it keeps the promise of `MemoryService`; repair converges |
| Field-state CRDT (`field_crdt.py`) | counters and tombstones per key and actor, watermarks per actor; memory only | `boost`, `suppress`, `tombstone`, `delta`, `merge`, `audit_field_state_watermarks` | other regions, by deltas | deltas lost, repeated, reordered, cut to some keys; a restart as the same actor | no signal counted twice, audit means agreement, convergence |
| Active-active sync (`replication.py`, `jobs.py`) | two such namespaces, a cursor per ordered pair of regions, the page on its way | `export_namespace_delta`, `import_namespace_delta`, `ActiveActiveSyncWorker.run_once` | reads one region, writes another | calls between export and import, lost pages and answers, worker restarts, outages, pages that are full | the cursor never passes what has not arrived; deletes are final; convergence |
| Memory OS single flight (`jobs.py`, `api.py`) | Redis: a lease per namespace, a receipt per job; per run: where it stands, a heartbeat thread | `acquire`, `start_heartbeat`, `refresh`, `release`; `claim`, `complete`, `fail`; `run_once` around the work | Redis, other API servers and workers | late heartbeats, Redis errors before or after their effect, crashes, retries | one run at a time per namespace, work done once, leases given back |
| Kubernetes operator (`k8s_operator.py`) | one Lease object, specs, objects and statuses in the API server; per replica: what it listed and how far it came | election by compare-and-swap, then list, apply, patch status, object by object | the API server; users who edit specs | passes that outlive the lease, clocks apart, requests that raise after their effect, pods that end mid-pass | a term is respected, no pass alone goes back to an older spec, valid specs are reconciled |
| Control-plane consensus (`consensus.py`) | voters and their availability, lease, term, revision, log | `acquire_leader_lease`, `commit_config_change`, `set_node_available` | cluster tools and operators, all calling one object | expiry between check and commit, membership changed under a running lease, a payload refused after it was logged | the log explains every commit, one leader per term, no lost update |
| Brain outcomes (`brain/experience_bridge.py` and what feeds it: `brain/sources.py`, `reconcile.py`, `auth.py`) | Brain database: outcomes, packets, sources, claims, mappings, outbox; private experience database: runs by scope | report, verify, change of a source or claim, removal of a verifier, the gate, `drain_outbox` | two SQLite files; the maintenance thread | a drain commits the private side at once and the Brain side at its end: crashes and errors keep the first and undo the second; readers in between | no private data outlive a finished deletion; what is served rests on acknowledged outcomes; deletions finish |
| Safe upgrade (`upgrade.py`) | lock file, journal file, backup, staged copies; package or container, two databases, environment file | `run_upgrade` in both modes, rollback, `_recover_interrupted` | pip, docker, the running service | crashes and errors at any step, also of the rollback; two commands; a dead owner's lock | one upgrade at a time; what the journal calls finished is whole; recovery ends |

### Parts not modelled

`PROJECT.json` lists each with its reason; in short:

- **Brain access, tokens and sessions** (`brain/auth.py`): credentials and
  memberships in two databases. Of it, `BrainOutcomes` has the removal of a
  member who verified; issuing and revoking are not modelled.
- **Brain store, sources and reconciliation**: each operation is one transaction;
  what a changed source or a reviewed claim means for outcomes is in
  `BrainOutcomes`; entity resolution and ordering of claims are functions of
  stored records.
- **Experience store and runtime** (`experience*.py`): the life cycle of learned
  procedures over evidence scores. `BrainOutcomes` has the private database as
  the runs of a scope and whether they are whole.
- **Cluster repair and Memory OS policy jobs**: `DistributedRepairWorker` is the
  caller that the fairness of repair stands for; what a maintenance run does
  inside its lease scores and ranks memories.
- **Schema migrations and upgrade admission**: one transaction per database and a
  verdict over reports; a migration is a step that keeps all rows or raises.
- **Backup, disaster recovery, object store**: archives, PITR commands, S3 I/O.
- **Vector indexes, encoders, wave field**: numerical. Which memories exist does
  not depend on them.
- **Capacity planning, firewall, evolution and policy bundles**: functions of
  their input, one pass.
- **Brain service, HTTP API, CLI, MCP, UI, framework integrations**: transport
  around the operations modelled elsewhere.
- **Evidence, admission, benchmarks, labs, drills, observability**: offline
  measurement and scripts, by far the largest part of the repository by lines.

Left out of the parts that are modelled: rendering of manifests and statuses by the
operator, deleted clusters, objects a changed spec no longer has (the code never
deletes them), a loop without election; Brain replays and incomplete outcomes,
verifier callbacks that fail, overflow of dependencies, promotion and review, several
Brains; of the upgrade, resolution and download of artifacts, disk space, object
manifests and configuration files other than the environment file; of Memory OS,
the check-then-set fallbacks for Redis clients without `NX` or `EVAL`; of the cache,
`QueryVectorCache` (vectors of texts never change) and `CachePrewarmWorker` (it asks
queries it has seen).

## 2. Modules

| Module | Models | MC module | Proofs |
|---|---|---|---|
| `MemoryService` | abstract: what remember, forget and query promise | | |
| `MemoryNode` | processes on one store, with cache and journal | | `MemoryOS_proofs` |
| `DistributedShards` | the shard client and its nodes | `MCDistributedShards` | `DistributedShards_proofs` |
| `ReplicatedNamespace` | replicas of one namespace | `MCReplicatedNamespace` | `ReplicatedNamespace_proofs` |
| `FieldStateCRDT` | the CRDT and its deltas in flight | | `FieldStateCRDT_proofs` |
| `ActiveActiveSync` | two or more regions and the worker between them | `MCActiveActiveSync` | `ActiveActiveSync_proofs` |
| `MemoryOSLease` | runs around one Redis | `MCMemoryOSLease` | `MemoryOS_proofs` |
| `OperatorLease` | operator replicas around one Lease | | `ControlPlane_proofs` |
| `ControlPlaneConsensus` | the control-plane guard | `MCControlPlaneConsensus` | `ControlPlane_proofs` |
| `BrainOutcomes` | outcomes, outbox and private database | `MCBrainOutcomes` | `BrainOutcomes_proofs` |
| `UpgradeJournal` | the upgrade command | | `UpgradeJournal_proofs` |

Where no MC module is named, the configurations give all constants themselves.
`MemoryOS_proofs` and `ControlPlane_proofs` each extend two modules, which share
no variable: a Memory OS run takes the lease of the one to purge the store of the
other, and the two leases of the control plane elect a leader each. The
definitions of `MemoryOSLease` and `OperatorLease` are named for it (`LeaseSpec`,
`OperatorSpec`).

`MemoryService` is implemented by `MemoryNode` and by `DistributedShards`: both
hold `Promise == INSTANCE MemoryService WITH ...`, which maps `kept`, `named`, `gone`
and the question under way, and check `KeepsPromise == Promise!Spec`. The promise is
the client's: a query has every memory kept before it was asked and not named by a
forget since, and none that was gone when it was asked; a call that raises
promises nothing. With `MayMiss` a query may be excused from the second half
(`Excuse`): a query of the shard client swallows an error of a node's tombstones, goes
on deaf to them, and may show what was gone, though it still owes what was kept.
`MemoryNode` instantiates the promise with `MayMiss <- FALSE`, and the mapping
keeps only memories without `ttl_seconds` (see `node_stale` below).

`ActiveActiveSync` composes: a region is what `ReplicatedNamespace` models without
store errors, restarts and repair, and its field state is the set of signals
heard, which is what `FieldStateCRDT` shows counters and merge to keep as long
as no region restarts (`CountedOnce`, theorem `SignalsCountedOnce`). A node of
`DistributedShards` is what `MemoryNode` promises: one request, one step.

Definitions introduced by a comment "Mistake:" are not part of any
specification: each is a plausible bug in one operation, and `PROJECT.json`
pairs it with the property it must break.

### MemoryNode

Handlers of one process run one at a time, under `operation_lock`; a step ends
where another process can look or a crash leaves something behind: at a commit
of the store, an append to the journal, a call to the cache.

| TLA+ | Code |
|---|---|
| `memories`, `rows`, `expired` | what was inserted, by row id; the ids in the table; those past `expires_at` |
| `cache[p]` | `_records_by_id` of a process; `hot[h]` the cached answer, per process or in Redis |
| `journal` | the recovery journal's lines, written after the store has committed |
| `StartRemember`, `CheckKey`, `Insert` | `POST /remember`; with a key, the record that carries it is the answer |
| `StartForget`, `Delete` | `forget`; the index may raise (`"index"`) after the commit |
| `AppendJournal`, `Invalidate` | what follows the commit; an error of the invalidation is swallowed |
| `StartQuery`, `Lookup`, `Search`, `PutAnswer` | `query_with_cache`: the search may refresh from the shared store, the put comes after it |
| `StartPurge`, `ListExpired`, `Purge` | `purge_expired`: two statements |
| `Expire`, `HotExpires`, `Crash` | time and restarts |

`call[p]` holds where a process is, and what it owed when it started.

### DistributedShards

A step is one HTTP request as its node serves it; the client's thread pool sends
in any order, a batch, a query and a repair go in placement order.

| TLA+ | Code |
|---|---|
| `rows`, `stored`, `tombs` | the rows a node has, each with an id, a text and a `life` (without `expires_at`, with one, past it); how many ids it has given; the texts its tombstone events name |
| `Numbering` | the ids a node gives the rows of the namespace: every node counts for itself and shares its table with other namespaces, so one memory has different ids, and one id names different memories |
| `late` | requests the client gave up on and which may still be served (`Deliver`) |
| `StartRemember`, `WriteReplica` | `remember`, `remember_many` |
| `StartForget`, `StartForgetId`, `Resolve`, `ResolveMisses` | `forget`, `forget_many`; by id, the available nodes export one by one what they have under the id, and the tombstone will name those texts |
| `DeleteReplica`, `LogTombstone` | the requests of a forget: by id, the delete takes whatever row the node has under the id when it is served; the tombstone is a request of its own |
| `RequestFails`, `Onward` | counting the quorum |
| `Ask`, `HearTombstones`, `MissTombstones`, `ReadResults`, `MissResults`, `Reply` | `query` and its fan-out |
| `StartRepair`, `RepairExport`, `RepairMisses`, `RepairDelete`, `RepairCopy`, `RepairFails` | `repair_namespace`: exports first, then deletes and copies decided from them |
| `Expire` | a row's time is over on one node |

`life` is there because a repair copies a row without its `expires_at`. The history
`named` has the texts a forget set out to delete and those of which a delete by id
took the last lasting row of a node: the code promises nothing of a memory that
came under the id after it was resolved (`TakesOnlyNamed`, section 4), and keeps what
it promises of all the others. Left out are the limits of an export (1,000 rows for
a repair, 10,000 to resolve an id, the 10,000 newest tombstones; `api.py:1038`).

### ReplicatedNamespace

Every public method takes `_operation_lock`, so an operation is one step;
outages, restarts and store errors interleave.

| TLA+ | Code |
|---|---|
| `store`, `nextId`, `log` | memories table, AUTOINCREMENT and audit log of each replica's SQLite file |
| `hidden` | tombstones in `_field_states`, lost by `Restart` |
| `Remember(k, kept, ok)` | `remember`: `kept` inserted, `ok` returned; the quorum is counted at the end and nothing is undone |
| `Forget`, `ForgetText`, `ForgetId` | `forget` after `_resolve_forget_targets`; by id, every replica resolves the id in its own table |
| `Tombstoned`, `AuditLimit` | `_tombstone_state`, which reads the newest 10 000 events of each available replica |
| `Answer(S)` | `query` answered by the replicas S |
| `RepairNamespace(failed, most)` | `repair_namespace`: tombstoned rows deleted, missing keys copied in listing order with fresh ids, except to the replica counted as source |

`acked`, `asked`, `named`, `forgotten` are history variables for the properties.
Texts and keys are model values; ranking, `top_k`, TTL and priority are left out.

### FieldStateCRDT

`state[r].cells` is the nested dictionaries of positive, negative and tombstone
counters, an absent entry being 0. `now` gives every signal an instant of its
own; watermarks and tombstones hold instants. A delta in `sent` may be imported
anywhere, any number of times, or lost. `Restart` empties a region and keeps its
name, because `field_actor` is a hash of the root path. A delta of some keys carries
the whole watermark of every actor in them (`Delta`, as `export_namespace_delta`
sends them). `heard`, `cut` and `restarted` are history: the signals a counter
stands for, the actors whose newest watermark only came with deltas that left out
some of their cells, and the regions that restarted. Amounts are 1, activation
weights are left out, and the audit compares exactly where the code first
rounds the lag to a millionth of a second (`field_crdt.py:413`).

### ActiveActiveSync

Export and import are two steps, `page` is what is between them, `cursors` is
the worker's dictionary. `Export` pages records and tombstones but not field
keys, as the code does, and takes the cursor over all of them; without a further
page it also takes the present time. `LosePage` is an import that failed or was
refused, after which the cursor stays, `Import(FALSE)` one whose answer was lost,
`WorkerRestart` a worker without its cursors. `HTTPActiveActiveSyncWorker` runs the same loop over HTTP.

### MemoryOSLease

`pc[r]` is where `run_once` stands; a run has an owner id of its own. Each call
to Redis is one step, and its `...Raises` form raises before or after the effect
(a connection error does not tell). Time is not counted: `LockExpires` may drop
any lease of a run in `Late`, otherwise only one whose heartbeat has stopped; calls
raise for runs in `Faulty`. Only
`claim`...`complete`/`fail` after the lease are inside the `try` block of the
code, so `ClaimRaises` and `FailRaises` leave the heartbeat running. The
check-then-set fallbacks for clients without `NX` or `EVAL` are left out.

### OperatorLease

Every request is one step, and `...After` the request that raises with its effect.
Time is counted in ages: `kubeLease.age` since the `renewTime` by an exact clock,
`op[o].age` since the timestamp an election takes before its GET, so that
`Expired` compares the two as read from the clocks of holder and reader (`Offset`).

| TLA+ | Code |
|---|---|
| `kubeLease`, `op[o].fresh` | the Lease; whether its resourceVersion is still the one `o` read |
| `Begin`, `Get`, `WriteLease`, `Conflict` | `acquire_or_renew_operator_lease`: timestamp, GET, PUT or POST, 409 |
| `ListClusters`, `Reach` | `list_wavemind_clusters`; the loop goes to the next cluster, where `operator_reconcile` may raise |
| `Apply`, `Refused` | `apply`: PATCH, after a 404 POST, after a 409 the process ends |
| `PatchStatus` | `patch_wavemind_cluster_status` |
| `Raise`, `RaiseAfter`, `Restart`, `Lose` | nothing is caught in the loop: the process ends, the kubelet restarts it under the same name; a deleted pod does not come back |

`spec`, `objects` and `status` hold versions of a spec: what was rendered from which.

### ControlPlaneConsensus

Callers pass `now`, so time is a variable that `Tick` moves. A change refused
before its first assignment is a disabled action; the one refused after the log
was appended (membership payload without a usable node list) is the action
`CommitBadMembership`.

### BrainOutcomes

Brain and private data are two SQLite files. `drain_outbox` works off a batch
inside one write transaction of the Brain, while each call to the private
database commits at once.

| TLA+ | Code |
|---|---|
| `source`, `ground`, `packet`, `status`, `attested`, `barred`, `gated` | Brain tables: sources, claims of a basis, context packets, outcomes, their verifications, verifiers removed since, the gate of context verification |
| `era` | the time against the validity of the claims of each basis: still to come, current, over; `Tick` moves it at any moment, also in the middle of a drain |
| `db`, `draft` | integration states, scope mappings and outbox, as committed and as the open transaction of the drain has them |
| `private` | how much of each outcome's run the private database holds |
| `BeginAction`, `RecordOutcome`, `VerifyOutcome` | packet, report, verification with its queue entry |
| `ChangeSource`, `RejectClaim`, `ApproveClaim`, `BarVerifier`, `CloseGate`, `LiftGate` | what invalidates outcomes: `Invalidate` marks packets and outcomes and queues the event |
| `StartDrain`, `SkipRetired`, `Judge`, `PurgePrivate`, `FinishPurge`, `Integrate`, `Acknowledge`, `Commit` | the drain, in the order of the queue; purge and integration are two steps, private side first |
| `verdict` | what `Judge` found: whether the outcome to integrate is eligible, read once, at `time.time()` (`live_basis`), and used afterwards |
| `torn` | history: outcomes whose run a drain has purged and whose retirement it has not committed, until the run is whole again |
| `Raise`, `Crash` | an operation that raises is rolled back to its savepoint; a crash rolls back the drain; neither touches `private` |

`Write` guards every other writer with `~draining`: SQLite has one. Readers see `db`
and `private` at any time, which is what `Served` asks of.

### UpgradeJournal

| TLA+ | Code |
|---|---|
| `mode`, `package`, `service`, `files`, `pin` | the installation: pip's version (0 while pip has removed the old one), the container's, both databases and the image line of the environment file, the rollback image |
| `lock`, `journal` | the two files under the state directory |
| `op[r]` | a process of the command: where it stands, the journal it holds in memory, its locals |
| `OpenLock`, `ReadLock`, `UnlinkLock`, `CreateLock`, `NotePid` | `upgrade_lock`, system call by system call; commands may come at any moment |
| `raced` | history: a command took the lock (`Takes`) while another was about to unlink it, or read the file of a live owner that had not noted its pid yet (`Unnoted`) |
| `LoadJournal`, `Restore`, `Revert`, `Reinstall`, `Unpin`, `Parity`, `Settle` | `_recover_interrupted` and the rollback branch; which of them a process goes through depends on what its journal records |
| `Begin`, `Preflight`, `DryRun`, `Stop`, `CreateBackup`, `NoteBackup`, `Stage`, `Install`, `Installed`, `Activate`, `StartContainer`, `RollBack`, `Check`, `Complete`, `Discard` | `run_upgrade` in order |
| `StepRaises`, `StopTimesOut`, `UndoRaises`, `Crash` | any command or write may raise before or after its effect; any process may die |
| `ReinstallByHand`, `Write` | the user repairs a package pip has lost, so that the command can be run at all; clients write |

A database is the set of writes it holds, so a restore that loses one is seen. The
parameter `Quiet` says whether clients write only while no command is inside the
lock and no operation that a crash cut short is unfinished.

## 3. Runs

| Run | Instance | Shows |
|---|---|---|
| `replicas` | 3 replicas, quorums 2, 2 memories, 2 calls, any stores raising in any operation | `AckedReadable`, `NoResurrection`; `RepairConvergesOnce` under fair repair |
| `shards` | 2 nodes, write quorum 2, read quorum 1, 1 text with or without a time to live, forgets by text and by id with ids that differ between the nodes, 2 calls, outages, 1 failed request (a tombstone read among them) | `KeepsPromise` (implements `MemoryService`); `RepairConverges` |
| `node` | 1 process with its journal, 1 text, 1 key, 2 memories, 2 forgets, 1 crash | `RestoreExact`, `OncePerKey`, `KeepsPromise` |
| `node_fleet` | 2 processes on one store and one Redis, refreshing, index errors and lost invalidations, 1 memory, 2 forgets, 1 crash | `ForgottenFades` |
| `field` | 2 regions, 2 keys, deltas of one of them, 3 signals, 1 delta in flight, 1 restart | `CountedOnce`, `HealthyMeansAgreed`; `Convergence` |
| `sync` | 2 regions of 2 replicas, write quorum 2, one replica may be down, all losses, 2 calls | `CursorCovers`, `DeletesFinal`; `Convergence` |
| `sync_paged` | pages of 1, 2 keys, 3 calls | counterexample to `CursorCovers` (finding, section 4) |
| `lease` | 4 runs on one namespace: a run, a late retry, another job, a retry that is late and whose calls to Redis may raise; crashes | `OneMutator`, `OneRunOfJob`, `DoneOnce`, `LeaseKept`; `LockFreed` |
| `operator` | 2 operators, one clock ahead, 2 clusters of 1 resource, 1 edit each, 1 fault | `TermRespected`, `NoRollback`; `ReconciledForGood` |
| `consensus` | 3 voters and a possible fourth, TTL 1, 2 terms, 2 revisions, time to 2 | `LogExplainsCommits`, `OneLeaderPerTerm`, `NoLostUpdate`, `LeaseExclusion` |
| `brain` | 2 outcomes of 1 scope on 2 sources, a basis whose validity begins and ends at any moment, drains of 1 or 2 operations, 2 changes, 2 faults | `ErasureHonest`, `ServedBacked`, `IntegrationTrue`; `ErasureCompletes` |
| `upgrade` | 2 processes that start whenever they like, up to a race for the lock, both modes, 2 versions up and down, 2 writes, 3 faults | `OneUpgrade`, `Whole`; `Settles` |

The type invariants of `MemoryNode`, `FieldStateCRDT`, `ActiveActiveSync`,
`ControlPlaneConsensus` and `OperatorLease` are checked in a run of theirs as well; those
of the other modules are only proved.

**Bounds.** `MaxOps`, `MaxCalls`, `MaxRows`, `MaxMemories`, `MaxForgets`, `MaxSignals`,
`MaxDeltas`, `MaxRestarts`, `MaxCrashes`, `MaxFaults`, `MaxEdits`, `MaxChanges`, `MaxWrites`, `MaxTerm`,
`MaxRevision`, `MaxTime` cap what would grow without end; they stand in guards, so
what a bounded system may do forever is still explored.

- Replicas: three with quorum 2 are the least in which a write quorum misses a
  replica that then belongs to a read quorum; two calls are a write and its delete,
  or two writes that store errors leave on different replicas.
- Shards: with two nodes, a request that fails or arrives late always matters,
  since a write needs both; a remember and its forget, with a query and a repair
  between and across them, is every order the promise tells apart. The first row of
  one node has the id of the second of the other, so a delete by id that is served
  late meets another row than the one that was resolved.
- Node: two memories let a text or key come back after a forget, an expiry or a
  crash; two processes and one memory let one's cache outlive the other's forget.
- Field: three signals let each region signal and one signal twice, so that a
  stale delta meets a newer counter; two keys let a delta of one of them bring a
  watermark that covers the other too.
- Sync: a cursor needs something before it and something after it.
- Lease: two sound runs of different jobs contend for the lease, three of one job for
  its receipt; a faulty run leaves behind whatever can be left.
- Operator: a lease of two ticks may be over by one clock and not by the other; an
  edit lets a pass be outrun; two clusters let the first keep the second waiting.
- Consensus: two terms and two revisions give an expiry or a membership change
  between any two commits.
- Brain: two outcomes share a scope but not all sources, so that the purge of one
  takes the other's run; two faults are a crash and an error in its recovery. The
  validity of the basis has three phases, which is all the time `live_basis` tells
  apart.
- Upgrade: three faults are a failed step, a failed rollback and a crash of the
  recovery; two versions give an upgrade and the way back; two writes lie before and
  after a backup.

The proofs lift most safety results from these instances to all values.

**Deadlock** checking is off where calls are bounded and the system may really
stop (all calls made, all runs ended). **Symmetry** is used where no liveness is
checked (`consensus`, over the initial voters; `shards_batch` and `shards_overlap`,
over the writers). The state spaces are finite without state constraints; `upgrade` has
one to be smaller, `Unraced`: `raced` never becomes false again, and once it is true
none of the run's properties asks anything, so nothing they say is cut off.

**Fairness.**
- `replicas`: `RepairNamespace` without store error happens again and again.
  Nothing inside `replication.py` schedules repair; this is whoever operates the
  replicas.
- `shards`: repair with all nodes reachable begins again and again
  (`DistributedRepairWorker`, a scheduled job); a call or a repair under way goes
  on, since every request ends; rows run out. Failed requests are bounded.
- `node_fleet`: handlers that have begun end, cached answers run out (their TTL),
  and a query now and then finds the refresh interval passed.
- `field`: every pair of regions syncs again and again, as a scheduled worker does.
- `sync`: strong fairness of export and of an import that arrives, for each pair:
  `run_once` visits every pair, and a failed one again in the next pass.
  Nothing is assumed of calls or losses.
- `lease`: a thread that can go on does (crashes and raising work are not
  forced), and Redis drops a lease nobody renews. A lease whose holder beats is
  never forced to expire.
- `operator`: a process goes on, since every request ends or times out; a container
  that ended is restarted by its Deployment; time passes. Faults are bounded, passes
  that raise at an invalid spec are not.
- `brain`: the maintenance thread drains every second, and a drain that has begun
  goes on. Errors are bounded, crashes too.
- `upgrade`: a process goes on, the command is run again after a crash, and the user
  reinstalls a package that pip removed and did not replace.

## 4. Findings

`sync_paged`: with a page limit, the returned cursor is taken from all changed field
keys too, which are not paged; records beyond the page but older than the
newest field change are never exported.

Other limits met while modelling have a configuration to reproduce them
(`tlc -config <name>.cfg <module>.tla`, with the MC module where there is one); each fails its one property:

| Configuration | Property | What happens |
|---|---|---|
| `replicas_source` | `RepairConverges` | `repair_namespace` skips the replica that last contributed a newest copy; one that holds the newest copy of a memory remembered twice is skipped by every repair, and what it missed never reaches it. `RepairConvergesOnce` shows this is the only obstacle at this size |
| `replicas_byid` | `ForgetsOnlyAsked` | after an outage one row id names two memories; forget by id deletes both |
| `shards_batch` | `KeepsPromise` | `forget_many` counts a delete before its tombstone is logged (`sharding.py:1229`): the forget returns, and the rows come back |
| `shards_ttl` | `MortalsFade` | repair copies a row without its `expires_at`, so a memory with a time to live becomes lasting (`docs/CHROMA_MIGRATION.md:50` tells of ttl as a property of the memory) |
| `node_stale` | `NoStaleRecall` | a memory with a ttl that a purge has taken, and that is then forgotten, is still answered from the cache: a row that runs out between the two statements of the purge is not invalidated, and the forget finds nothing and invalidates nothing either (`docs/SCALE_AND_PRODUCTION.md:188`) |
| `node_recovery` | `RestoreKeepsPromise` | a crash between commit and append: the client's retry finds the work done and acknowledges it, and the restored store lacks the memory (or still has the forgotten one) (`docs/MULTIMODAL_AND_STORAGE.md:385`, `docs/MCP.md:38`) |
| `node_redis` | `KeepsPromise` | with the cache in Redis, a crash between a forget's delete and its invalidation leaves the cached answer; the repeated forget deletes nothing and so invalidates nothing (`api.py:2844`), returns, and the memory is answered until the TTL of the cache |
| `field_partial` | `AuditMeansAgreed` | a delta of some keys carries the whole watermark, so an audit finds nothing while keys are missing (`docs/BENCHMARKS.md:591`). `HealthyMeansAgreed` is what the audit does give |
| `sync_outage` | `CursorCovers` | export asks for no quorum: what only an unavailable replica holds falls behind the cursor |
| `sync_skew` | `CursorCovers` | changes of a region whose clock is ahead come back through its neighbour and move the neighbour's cursor past its own later changes |
| `lease_stuck` | `AlwaysFreed` | an error of Redis in `claim`, or in `fail`, skips `release`; the daemon heartbeat renews the lease as long as the process lives |
| `operator_slow` | `OneReconciler` | the lease is renewed between passes only and not looked at in one: an operator whose pass outlives it goes on applying beside its successor (`deploy/operator/README.md:34`: "two operator replicas cannot reconcile the cluster concurrently"). What the code gives is `TermRespected`, a shorter pass is never overlapped, and `ReconciledForGood`, what an overlap took back is repaired |
| `lease_all` | `OneMutator` | a run over all namespaces uses a lock key of its own and overlaps with runs on one namespace |
| `brain_stuck` | `DirtyCleaned` | a claim rejected and approved again revokes outcomes without an operation in the outbox: their scope stays dirty, and later verifications are refused `cleanup_pending` for ever (`docs/brain/limitations.md:71`, `docs/brain/personal.md:88`) |
| `brain_gate` | `CompletedIsThere` | a drain finds an outcome ineligible and purges its scope, a crash undoes the ledger and not the purge; when the next drain finds the outcomes eligible again (the gate is lifted, the validity of the basis has begun), it integrates its own outcome and leaves a sibling `completed` without a run |
| `brain_poison` | `Settled` | operations that are refused stay at the head of the queue; with a full batch of them integrations behind never run |
| `upgrade_race` | `AlwaysOne` | two commands that find a dead owner's lock at the same moment: the second unlinks the lock the first has just created (`docs/UPGRADE.md:13`) |
| `upgrade_busy` | `Whole` | the restore of the backup undoes what clients wrote since it was made: between a crash and its recovery, while a failed step is rolled back, and in Compose between `up --wait` (`upgrade.py:1514`) and the comparison (`upgrade.py:1526`), where the write is what makes the check fail, without any crash |
| `upgrade_stranded` | `AlwaysSettles` | a docker recovery that removed the rollback image and died before recording its outcome fails in `docker tag` ever after (`docs/UPGRADE.md:126`) |

Two configurations are there to be larger rather than to fail: `operator_terms`, the
safety properties of `operator` with two resources, two edits and two faults, and
`shards_overlap`, `KeepsPromise` with two writers whose calls overlap (1.3 million
states).

Also seen, without a configuration of their own:
- A delete by id of the shard client takes whatever row a node has under the id when
  it is served; a row stored after the id was resolved, or at a node whose export failed
  (`ResolveMisses`), is deleted though no tombstone names it. `TakesOnlyNamed`, put in the place
  of `KeepsPromise` in `shards.cfg`, fails within seven states.
- A store of a replicated namespace that deletes and then raises in its audit log
  counts as written (`replication.py:395`) and no tombstone is left of it. The fault
  `"unlogged"` of `ReplicatedNamespace` stands for this; with it a forgotten memory may be
  repaired back, so `NoResurrection` is checked and proved without it.
- The check and the insert of an idempotency key race between two processes on one
  store.
- A late report on a revoked packet, when blocked, purges the run its siblings in the
  scope rely on.
- Docker parity after a rollback fails when the recreated container already accepts
  writes.

## 5. Proofs

`tlapm <module>_proofs.tla` checks every obligation with Z3, Zenon and LS4. The
only assumptions are the named `ASSUME`s on constants (also evaluated by TLC in
every run) and the conditions written into a theorem.

- **MemoryNode.** `NodeTypeCorrect` and `SharedStoreKeeps` hold for any number of processes
  on one store, any faults and crashes. `SharedStoreKeeps` (`[]StoreKeeps`) is what the
  table itself keeps: a memory without a ttl that a remember acknowledged and no forget
  named is a row, and no row is one that a returned forget ended. A step may only add new
  ids and only take away rows that a forget names or that may expire (`Gentle`), so what a
  call knows of its rows when it commits (`Shared`) outlives whatever the others do until
  it returns; `FleetInv` says so of all calls. The rest needs a process that has the
  store to itself (`Alone`; between two the check and the insert of a key race, and a
  query puts back what another has just invalidated), and what it says is of any
  number of texts, keys, memories, forgets, crashes. `OneMemoryPerKey` (`[]OncePerKey`)
  and `RestoresExactly` (`[]RestoreExact`) allow index errors and either cache. Their invariant,
  `AloneInv`, says what a call that has committed but not ended knows: a remember's
  rows are in the table as it wants them, a forget's are not, a purge's have
  expired (`Committed`); a key found free is still free (`KeyFree`); and an entry
  appended to the journal changes what it restores by exactly the rows the call
  holds (`RestoredAppend`), so that journal and table only differ in what has expired,
  was cut off, or is still to be appended (`Settled`). `NodeKeepsPromise`: the node
  implements `MemoryService`, initial state and every step, if also nothing raises
  and no crash leaves a cached answer behind (`Reliable`: no `Faults`, and no crash
  with the cache in Redis; `node_redis` shows why). `PromiseInv` says that the
  records in memory are those of the store (`CacheExact`), that what is promised is in
  the store and what is gone is not (`StoreKeeps`), that a cached answer lags behind the
  store by no more than the forget under way (`HotFresh`, `ForgetPending`), and that
  nothing has changed since a query was asked (`QueryFresh`).
- **DistributedShards.** `TypeCorrect`; `PromiseKept`: the shard client implements
  `MemoryService`, initial state and every step, when `ReadQuorum + WriteQuorum >
  ReplicationFactor` and forgets do not come in batches (`Setting`); for any number of
  writers at a time, any ids and failures, queries that miss tombstones included.
  The inductive invariant: what is deleted by text, or has a tombstone, was named
  (`NamedOnly`), and a delete by id, whenever it is served, names what it takes; a kept
  memory no forget named is on a write quorum in a row that lasts (`Lasts`, `Counted`,
  `Kept`), and a gone one is in the tombstones of a write quorum (`Buried`), where a late
  request or a stale export can no longer undo it; while an id is being resolved nothing
  is counted (`Resolving`); what a query has gathered already covers what it owes from
  the nodes it has read (`Reading`, `Bound`). The reply then follows because a read
  quorum meets every write quorum.
- **ReplicatedNamespace.** `TypeCorrect`. `AckedStayReadable`: if
  `ReadQuorum + WriteQuorum > ReplicationFactor`, `[]AckedReadable`, with every
  store error allowed. The property alone is not inductive: it says nothing of
  replicas that are down. The invariant is that an acknowledged memory whose text
  no forget named is held by a write quorum of stores; remember establishes it,
  only a forget that names the text or a repair that sees its tombstone removes
  rows, and two quorums intersect. `ForgottenStayForgotten`: if no store deletes without
  logging (`"unlogged" \notin Faults`), with overlapping quorums and no more calls than
  events read back (`MaxOps <= AuditLimit`), `[]NoResurrection`: what a forget returned for
  is in the logs of a write quorum (`ForgetLogged`), and any read set meets a replica
  that has the tombstone within the window it reads.
- **FieldStateCRDT.** `TypeCorrect`. `MergeIsJoin`: merge is commutative,
  associative and idempotent. `SignalsCountedOnce`: `[]CountedOnce`; the invariant
  relates a counter to the history of increments behind it: heard sets are
  initial segments of what the actor issued, which makes the maximum of two
  counters the size of the union (for an actor that restarted, and so counts from
  nothing again, no more than that). `HealthyAgree`: `[]HealthyMeansAgreed`, for deltas
  of any keys and any restarts: where an audit finds nothing about an actor that never
  restarted, and no region owes its watermark of that actor to deltas of some keys, the
  regions hold the same of that actor. The invariant says that a state, or a delta, whose watermark
  for an actor reaches another's also has at least its cells, unless it was cut
  (`Behind`), and that an actor leads on its own signals (`OwnerLeads`).
- **ActiveActiveSync.** `TypeCorrect`: a cursor is the greatest of a set of instants,
  which exists because an invariant bounds every instant and the naturals are well
  ordered (`MaxOf`). `CursorsCover`: `[]CursorCovers`, if clocks are equal, a
  page has room for everything and fewer than `WriteQuorum` replicas of a region are
  down (`Setting`; `sync_skew`, `sync_paged` and `sync_outage` show why). The property
  is not inductive, because copies travel: the invariant says that a copy of a row is
  still on a write quorum of the region it comes from, or deleted there (`AtHome`), so
  that what comes back to its origin was covered before; that nothing is newer than the
  present (`Past`), so that what is new lies ahead of every cursor; and that the page
  on its way has what its own cursor passes (`Covered`). `DeletesStayFinal`:
  `[]DeletesFinal`, for any page size, clock offset, outage or loss. The invariant is that an event some replica of a
  region logged is logged by a write quorum of that region's replicas (forget and
  import both fail below one), so the event an import applied meets every set of
  replicas that overlaps the write quorums.
- **MemoryOSLease.** `LeaseTypeCorrect`. `JobsExclusive`: `[]OneRunOfJob` with no
  assumption at all, since a run at work owns its receipt (`ReceiptOwned`) and a
  receipt in use is never claimed, failed or expired for another. `LeasesKept`:
  `LeaseKept`, unconditionally. `LeaseExcludes`: `[]OneMutator`, if no run covers all
  namespaces (`lease_all` shows why): sound runs exclude each other whatever late
  and faulty runs do, because a sound run between acquire and release holds a lease
  that beats (`LeaseOwned`). `WorkDoneOnce`: `[]DoneOnce`, for the runs Redis
  answers, however late they beat (`WorkReceipted`).
- **ControlPlaneConsensus.** `TypeCorrect` (the availability map covers exactly
  the voters), `LeadersOrdered` (`OneLeaderPerTerm`: the log never runs ahead of
  the term, and an entry of the lease's term has the lease's leader),
  `UpdatesKept` (`NoLostUpdate`: no expectation in the log reaches the present
  revision), `LeadershipExclusive` (`LeaseExclusion`). `LogExplains`
  (`LogExplainsCommits`): the entries that name voters, as far as the log is read,
  have a last one, and the voters it names were in force until the next (`ExplainedInv`).
- **OperatorLease.** `OperatorTypeCorrect`, `TermsRespected` (`[]TermRespected`) and
  `NothingRolledBack` (`NoRollback`), for any number of operators, clusters, resources,
  edits and faults, any `Duration` and any clock offsets the module assumes.
  `TermRespected` is not inductive: it
  speaks of the moment the lease has passed on, and the proof needs the election
  before it. `TermInv` says that an operator in an election took its timestamp no later
  than its GET, so that a lease it may take is as old as it read (`ElectionInTime`),
  that a leader's own age counts from the lease it wrote until another has it, whose
  timestamp is then a whole `Duration` later (`TermCounted`), and that no lease is
  stamped ahead of its holder's clock (`NotFromFuture`). A write of the lease only
  succeeds on the version that was read (`op[o].fresh`), which carries `MayLead` from
  the GET to the PUT. `WriteInv` adds that nothing is newer than its spec
  (`SpecsNewest`), that a pass nobody overlapped is the only one (`AloneLeads`) and
  that what it listed is at least as new as anything there (`ListNewest`).
- **BrainOutcomes.** `TypeCorrect`. `ServedIsBacked`, `ErasureIsHonest`: with no
  condition at all. Neither property is inductive, since a crash brings back the
  committed ledger beside newer private data. The invariants say that a drain only
  takes away mappings and operations (`Ahead`), that private data always have a
  mapping even in the transaction about to forget it (`Mapped`), and that a mapped,
  erased outcome has its deletion in the queue (`EraseQueued`), of both ledgers.
  `IntegrationIsTrue` (`[]IntegrationTrue`) needs no condition either: a completed,
  verified outcome has its run, unless it is `torn` (`Credited`; `brain_gate` shows that the
  exception is needed). It adds that ledger and mappings agree (`Recorded`), and that an
  outcome judged eligible is still mapped when its run is written, although time may
  have ended its eligibility in between (`Judged`).
- **UpgradeJournal.** `TypeCorrect`. `UpgradesExclusive`: `[]OneUpgrade`, for any number of
  commands started at any moment: there is one command inside, or the lock was raced
  for (`raced`; `upgrade_race` shows that the exception is needed). The invariant says
  whose file the lock is at each step of taking it (`Held`, `Noting`, `Taking`); every way
  to lose it is one of the two moments `raced` records. `FinishedIsWhole`: `[]Whole` with
  `Quiet` (`upgrade_busy`), again up to a race. The invariant, `WholeInv`, is that an
  unfinished operation can be undone from its journal alone: as long as the files may differ from what was
  written, the journal names a backup that has every write, and a source version or
  a rollback image to go back to (`Recoverable`); and that each process at each step
  holds in its locals what the next steps put back (`Doing`). The proof has one step
  per action of the command and one per fault.

**Model-checked only.** All liveness (`RepairConvergesOnce`, `RepairConverges`, both
`Convergence`, `ForgottenFades`, `LockFreed`, `ReconciledForGood`, `ErasureCompletes`, `Settles`):
the prover handles neither fairness nor ENABLED. Every invariant and action property
of a passing run is a theorem.
