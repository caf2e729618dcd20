# TLA+ models of self

`self` is a local-first knowledge workspace: a command line program (Bun,
TypeScript) over one SQLite database and one directory tree per workspace. It
archives sources (files and directories), keeps external directories connected
to them, parses and publishes their content as knowledge (chunks, full text,
vectors, a graph), and builds topics and artifacts from it. This directory
holds TLA+ models of the parts of it where order, failure and concurrency
matter, the TLC configurations that check them, and TLAPS proofs about them.

The program has no server. Concurrency comes from separate operating-system
processes: commands a user runs side by side, detached job workers, and a
connection daemon. They share the database (SQLite in WAL mode) and the files,
and any of them can be killed between two statements. Three rules are common to
all models:

- a `SELECT` outside a transaction is one atomic step, and so is a whole
  transaction; between two of them every other process may run, so what a
  process has read lives in a variable of the process (`seen`, `abandoned`,
  `listed`, `inv`, ...) until it is used;
- a system call that creates, renames or removes a file is one atomic step;
  `atomicWrite` (write to a temporary name, rename) is one replacement;
- a kill may come between any two steps. What a process had in memory is gone,
  what it wrote stays.

All paths below are relative to the repository root.

## 1. Inventory

| Component | State | Operations | What is hard | What makes it correct |
|---|---|---|---|---|
| Job queue (`src/application/automation/job-workflows.ts`, `src/infrastructure/automation/job-repository.ts`) | `automation_jobs`, `automation_job_events` | enqueue, list, cancel, retry, execute, recover, renew | several processes per job, stale reads, leases, killed workers | one attempt per enqueue/retry/recovery; keys unique; a lost job says why; every job settles |
| Plans and operations (`src/application/automation/*`) | `automation_plans`, `automation_operations` | plan, apply, cancel, expire, undo, restore, move a note | reads before transactions, unguarded updates | a plan is applied at most once and against the state it described; undo restores it |
| Source purge (`source-purge-*.ts`) | files staged in `runtime/tmp`, rows of the source | plan, apply, restore files | files chosen before the transaction, kill between steps | no shared byte is lost |
| Maintenance lock (`src/infrastructure/operations/maintenance-lock.ts`) | lock file, `operation_maintenance_lease` | acquire, recover a stale lock, release, checkpoint | two-step create and write, compare and then unlink, expiry | mutual exclusion; a dead holder does not block for ever |
| Garbage collection (`src/application/operations/gc.ts`) | plan rows, staging directories, receipts | plan, apply, roll back, recover | kill anywhere, rollback of half-moved files | what is referenced keeps its bytes, or a receipt names it |
| Backup, restore, migration, verify (`src/application/operations/*`) | archives, copies of the database, plans | create, inspect, plan and apply a restore, migrate | not covered by the lock of other commands; swap of whole files | a backup is self-consistent; a migration loses no commit |
| Connection (`src/application/connection/*`, `src/infrastructure/connection/*`) | `data_connections`, observations, scan runs, change batches | add, scan, dry run, pause, resume, detach, rebind, daemon | the directory changes during a scan; events are lost; kills; two daemons | every change of the directory reaches the archive |
| Source (`src/application/source/*`, `src/infrastructure/source/*`) | sources, snapshots, entries, blobs, manifests, batch receipts | add, sync, accept a change batch, delete, restore | two archives of one source, kill between file and row | the current snapshot is complete and its blobs exist |
| Ingestion and knowledge (`src/application/ingestion`, `src/infrastructure/knowledge`) | ingestion runs, documents, chunks, FTS, notes | ingest, publish, withdraw, note create/update | projections follow publication in steps of their own | the current chunks are those of the current snapshot, in all projections |
| Vector spaces (`vector-space-*.ts`) | spaces, runs, vectors, activation plans | build, refresh, plan, activate | watermark reuse, checks before the transaction | an active space covers the current chunks |
| Graph (`src/application/graph`, `src/infrastructure/graph`) | generations, nodes, claims, merge and split plans | build, activate, carry forward, moderate | build runs while users moderate | one active generation; confirmations survive a rebuild |
| Retrieval (`src/application/retrieval`) | answers, evidence | search, ask, read evidence | answers go stale with their evidence | fused ranking is well defined; a stale answer is marked |
| Topic (`src/application/topic`, `src/infrastructure/topic`) | topics, snapshots | synthesize, refresh, pin, retire, invalidate | invalidated while synthesized | an active snapshot rests on current evidence |
| Artifact (`src/application/artifact`) | builds, archives, pointer files | build, export | files and rows published in separate steps | the pointer names a ready build |
| Workspace (`src/application/workspace`) | configuration and its versions, journal, directory layout | init, resume, roll back, set and unset a setting, setup, doctor | kill in any step, partial rollback, two writers of one file | resume or rollback ends in a clean state; the file is the latest version |
| Model providers, parsers, renderer, CLI | none shared | HTTP, pure functions, I/O | – | – |

How they interact. A **connection** scan calls the **source** to accept a change
batch; the source archives the directory, publishes a snapshot, and starts
**ingestion**, which publishes **knowledge** and then refreshes or invalidates
what derives from it (full text, answers, topics, vectors, graph). **Jobs** run
long operations (backup, graph build, vector build, ...) in a detached process.
**Purge** and **gc** remove files the source wrote; **gc**, backup, restore and
checkpoint take the **maintenance lock**, archive, publish and purge do not.

The hazards found on the way, with their lines and the properties that cover
them, are listed in `PROJECT.json`.

## 2. Modules

| Module | Models | Role |
|---|---|---|
| `JobQueue` | job repository and workflows | detailed specification |
| `JobGrants` | what the queue promises | abstract specification |
| `MCJobQueue` | – | symmetry set and refinement instance for TLC |
| `JobQueueProofs` | – | theorems about `JobQueue` and `JobGrants` |
| `MaintenanceLock` | lock file and lease row | specification, also a component of `StorageReclaim` |
| `StorageReclaim` | archive, purge, gc plan, gc apply, checkpoint | composition: EXTENDS `MaintenanceLock` |
| `MCStorageReclaim` | – | symmetry set for TLC |
| `StorageReclaimProofs` | – | theorems about `StorageReclaim` and its lock |
| `ConnectionScan` | one connection, its scans, the daemon and the source archive behind it | specification |
| `ConnectionScanProofs` | – | theorems about `ConnectionScan` |
| `KnowledgePublisher` | what the publish transaction computes: alignment, lineage, tombstones | constant-level operators |
| `SourceArchive` | add, sync, retry and batch acceptance of one source | component, EXTENDS `KnowledgePublisher` |
| `Ingestion` | ingestion runs, text index, ask | composition, EXTENDS `SourceArchive` |
| `MCIngestion` | – | chunk tables and bounds for TLC |
| `IngestionProofs` | – | theorems about `Ingestion` and `SourceArchive` |
| `Workload` | processes that run commands step by step, with bounds | frame of the modules below |
| `Commands` | the knowledge that derived data is built from | component, EXTENDS `Workload` |
| `VectorSpace` | vector spaces, the provider's circuit and sentinel | component, EXTENDS `Commands` |
| `GraphEvidence` | what the statements of a graph build compute | constant-level operators |
| `GraphGeneration` | graph build, extraction, alignment, activation | component, EXTENDS `GraphEvidence`, `VectorSpace` |
| `GraphPlans` | merge, create and activation plans, moderation | component, EXTENDS `GraphGeneration` |
| `ArtifactBuild` | artifact builds, archive directories, pointer file | component, EXTENDS `Commands` |
| `TopicSynthesis` | snapshots of a topic, invalidation, refresh | component, EXTENDS `GraphPlans`, `ArtifactBuild` |
| `Derived`, `MCDerived` | – | composition of the derived data; bounds for TLC |
| `DerivedProofs` | – | theorems about the vector spaces and the graph in `Derived` |
| `TopicProofs` | – | theorems about the topic and its artifact, and `TypeOK`; EXTENDS `DerivedProofs` |
| `MutationPlan` | plan, apply, cancel, expire, undo, restore | component, EXTENDS `Workload` |
| `NoteFiles` | move, update and deletion of note files | component, EXTENDS `MutationPlan` |
| `DaemonLease` | lock file and lease of the connection daemon | component, EXTENDS `Workload` |
| `DatabaseMigration` | copy, backup, swap and the write-ahead log | component, EXTENDS `Workload` |
| `BackupRestore` | backups, verification, restores to a new root | component, EXTENDS `Workload` |
| `WorkspaceInit` | init with its journal, resume, rollback | component, EXTENDS `Workload` |
| `WorkspaceConfig` | `config set` and `config unset` | component, EXTENDS `Workload` |
| `Operations`, `MCOperations` | – | composition of the seven above; rows and bounds for TLC |
| `OperationsProofs` | – | theorems about configuration, daemons, migrations, backups and init in `Operations` |
| `PlanProofs` | – | theorems about plans, undo and notes in `Operations`, and `TypeOK`; EXTENDS `OperationsProofs` |

### JobQueue

`job` is the table of job rows, `events` the append-only history of each job.
Every element of `Procs` is a process that runs one command; `pc` names its next
statement, the other per-process variables hold what it has read. The actions
follow the statements: `RecoverScan`/`RecoverWrite` (`recoverAbandonedJobs`),
`LookupKey`/`InsertJob` (`insertJob`), `ClaimRead`/`ClaimWrite` (`claimJob`),
`Dispatch`, `ReportRead`/`ReportWrite` (`updateJobProgress`),
`OperationReturns`/`OperationThrows` (the operation the job runs),
`CancelCheck`, `CompleteWrite` (`completeJob`), `FailRead`/`FailWrite`
(`failJob`), `StartCancel`/`CancelWrite` and `StartRetry`/`RetryWrite`. The
`--wait` and the detached mode differ only in which process goes on with
`executeJob`, so one element of `Procs` stands for the parent and its worker.
`Crash` and `LeaseExpires` are the environment. `since` is a history variable:
the place of a worker's own `started` event. A recycled pid is not modelled, nor
is the content of inputs, results and progress.

`JobGrants` is the promise: every start of an attempt uses up one grant, and
only an accepted enqueue, an explicit retry or the recovery of an abandoned
worker gives a grant. The refinement mapping reads both counters off the event
history.

### MaintenanceLock and StorageReclaim

`MaintenanceLock` has one step per system call and SQL statement of
`acquireMaintenanceLock` and `release`. A lock file exists as an inode before it
has a body, and a reader cannot tell a file without a body from no file.
`StorageReclaim` extends it with the commands that create, move and delete the
bytes of blobs: `disk` and `staging` are the directory tree, `blobRows`,
`entry`, `source`, `plan` and `receipts` the tables, `cmd` what each process is
doing. gc apply and checkpoint run the lock's steps inside their own, the other
commands do not take it. `width`, chosen at the start, is the number of commands
that may overlap: at 1 the run is a sequence of commands of which any may have
been killed (`Serial`), at 2 two of them interleave. `Die` of the lock and the
crash of a command are one action; `Throw` is an exception that leaves the lock
behind. Not represented: rows of stale embeddings (gc deletes them in the same
transaction; they own no file), the age threshold of temporary files (every file
in `runtime/tmp` counts as old enough), the blockers that refuse a purge (taken
as absent).

### ConnectionScan

`file` is the external directory: content and inode of each path; the user
saves, reverts, removes and renames at any time. A scan reads it file by file
(`InventoryFile`), classifies the difference to the observations
(`ClassifyInventory`, with rename detection by inode, then by hash), persists
the changes as batches keyed by a hash of their content (`PersistBatch`), has
the source archive the directory, which reads every file a second time
(`AcceptBatch`, `ArchiveFile`, `PublishSnapshot`), records the receipt of the
batch (`RecordReceipt`) and only then advances the observations
(`CompleteScan`). `Throw` leads to `FailScan`; `Crash` kills the process.
`DaemonTick`, `EventHint` and `IntervalElapses` are the daemon's schedule. Scans
of the connection do not overlap here, the target is external (no managed write
receipt applies to it), an inventory entry is the state of the file at one
instant (a failed settle check is a `Throw`), reuse of a quick hash is taken to
be correct, and detach, delete and rebind are absent. A source archive reads
again without a settle check, as in the code. The states of a batch row are
reduced to its key and whether it has succeeded.

### KnowledgePublisher, SourceArchive and Ingestion

`KnowledgePublisher` has the content of the publish transaction as functions of
the tables (`kb`: documents, revisions, chunks, lineage): the alignment of new
chunk drafts with the previous revision (exact text, then anchor and similarity
with its threshold and margin), which chunks become tombstones, which documents
are activated, renamed or deleted. What the chunker makes of a content under
some settings (`ChunksOf`) and how similar two texts are (`Similarity`) are
constants: both are pure functions of the code.

`SourceArchive` is `addSource`, `syncSource`, `retrySource` and
`acceptSourceChangeBatch`. `proc` is the command of each process with its local
variables; its `pc` names the next statement. A command lists the directory,
hashes each file, copies each file (a second reading), reads the current
snapshot twice (to compare and to number the next one), writes the manifest file
and publishes in one transaction. The unconditional updates
(`markSourceArchiving`, `markSourceFailed`) are kept as such; the unique index
on the sequence is the guard of `PublishSnapshot`
(`FreeSequence`).

`Ingestion` goes on where the archive ends: the run row per snapshot and
settings with its stages, the publish transaction, the new generation of the
text index, the invalidation of answers, completion, failure, `knowledge build`,
`knowledge rebuild` and `ingestion retry`; `ask` searches the index, hydrates
the rows, records its context and saves its answer in separate steps while all
this goes on. `top`, `inOrder`, `quiet` and `lone` are history variables.

### Workload

The modules of the last two groups share a frame: `proc` holds for each process
the record of the command it runs, `Launch`/`Start` begins a command if the
behaviour has one of its kind left, `Fall` kills it. `limit`, chosen in `Init`
from `Limits`, says how many commands may run at once (`busy`) and how many of
each kind there may be (`count`). One run therefore checks many *families* of
behaviours side by side: long sequences of a few commands, and short ones in
which two or three processes interleave step by step.

### VectorSpace, GraphGeneration, GraphPlans, TopicSynthesis, ArtifactBuild

`Commands` has the chunks; `Publish` stands for everything up to the publish
transaction, which `Ingestion` has in detail, and is followed, step by step, by
the refreshes that `ingestSnapshot` ends with. A vector is the version of the
model weights that made it, so that two spaces, two models and a provider that
drifts, for good or for some calls, can be told apart (`Drift` goes to any of the
`Models`). The graph is its claims, relations, evidence, conflicts, extraction runs
and generations; what a model extracts from a text (`ClaimsIn`), the relations that
a chunk states (`RelationsIn`: that of a claim, `ClaimOf`, or the mention of an
entity, `Mentioned`) and the explicit links of a chunk (`LinksIn`) are constants, a
call of the model is grounded, refused or fails. Of the level of confidence only
`disputed` is kept apart. Users moderate claims, relations and entities. `CarryForward`, `Finalize` and the rest of
`GraphEvidence` are the SQL statements as set operations. A topic's snapshot
records what it was made from (knowledge, generation, claims shown, conflicts
shown). An artifact build is a row and a directory; `pointer` is `latest.json`.

### MutationPlan and NoteFiles

A row is a function from its columns to values; `Rows`, `KindOf` and `Links` are
constants, and `SourceDelete`, `ClaimDelete` and their like give for each kind the rows and columns a
delete plan changes, with the images before and after. `Verify` and `Commit` assert the images before in its
transaction and record the changes of the operation; `PlanUndo` reverses them;
`Restore` does so without a plan. Other commands' writes to the same rows are
`Touch`; `Moderate` is an operation that cannot be taken back. Three history variables follow the statements of `Touch`: `base` has
the changes alone that they made to the rows; `without` is the rows as they would have made
them without any operation, since the `WHERE` of each is evaluated on `without` too; `swayed`
are the rows that a statement changed in one of the two only. `NoteFiles` adds the file of a
note and the two-phase protocols around it (rename, transaction, rename back;
write file, archive, compare version).

### DaemonLease, DatabaseMigration, BackupRestore, WorkspaceInit, WorkspaceConfig

Each has one step per system call or SQL transaction of the command it models.
A daemon is the number of its run; its lease lapses when the environment says
so. A database is its schema version and the commits in its file, with the
commits of the write-ahead log apart; commits of other processes come at any
time. A backup is a directory with a manifest and the files it copied, next to
the files and names of the running workspace, which archives and purges change
without the lock. The initialization writes five steps' worth of files with a
journal saved after each; a file is named by what wrote it. The configuration is
the content of `self.toml`, its versions in the database, and one file per
version. `Operations` composes these modules and owns `Kill` and the history
variable `spoiled`; they share the processes and touch no common state otherwise.

## 3. Runs

| Run | Module, configuration | Question |
|---|---|---|
| `job_faults` | `MCJobQueue`, `JobQueueFaults.cfg` | Do takeovers stay explained, attempts paid for and running jobs recoverable under crashes and expired leases, and does the queue implement `JobGrants`? Yes. |
| `job_keys` | `MCJobQueue`, `JobQueueKeys.cfg` | Are idempotency keys unique although lookup and insert race, and does every accepted job settle? Yes. |
| `job_restart` | `MCJobQueue`, `JobQueueRestart.cfg` | Does a failed job need an explicit retry to run again? **No.** |
| `lock_race` | `MaintenanceLock`, `MaintenanceLockRace.cfg` | Is the lock exclusive without expiry or crash? **No.** |
| `storage_reclaim` | `MCStorageReclaim`, `StorageReclaim.cfg` | Is what commands remove one after the other, with kills, always accounted for, and does the lock ever refuse a lone command? It is; never. |
| `purge_shared` | `MCStorageReclaim`, `StorageReclaimShared.cfg` | Does a purge leave files that another source shares? **No.** |
| `connection_scan` | `ConnectionScan`, `ConnectionScan.cfg` | Does the daemon find every change in the end, and is a difference always visible to the next scan? Yes, under the stated premises. |
| `connection_missed` | `ConnectionScan`, `ConnectionScanMissed.cfg` | Also when a file returns to an earlier content? **No.** |
| `ingestion` | `MCIngestion`, `Ingestion.cfg` | Are snapshots one chain, and is a source that counts as ready published, searchable and cited correctly? Yes, under the stated premises. |
| `restore_lost` | `MCIngestion`, `IngestionRebuild.cfg` | Does the incremental path end with the content of a full build? **No.** |
| `derived` | `MCDerived`, `Derived.cfg` | Do the graph, vector spaces, a topic and its artifact agree with each other and with the knowledge, while they are built, activated, moderated and killed? Yes, under the stated premises. |
| `operations` | `MCOperations`, `Operations.cfg` | Do undo, note files, daemons, migrations, backups, initialization and configuration keep what they promise under overlap, failures and kills? Yes, under the stated premises. |

### What the passing runs establish

- `OwnershipLossIsLogged`: if a worker in the middle of its job no longer owns
  the running row, the history holds, after its own start, an event that is not
  of a running job. The unguarded updates of the repository do take rows away
  from live workers, but never silently.
- `EveryAttemptIsPaidFor` and `StartsAreGranted`: `attempt` counts starts, and
  there are never more starts than grants, although claim and recovery race.
- `RunningIsRecoverable`: a running row is worked on by the live process it names
  as its owner, under a lease that can run out, or the next recovery selects it.
  No mix of takeovers, late outcomes and cancellations leaves a running row whose
  owner is busy elsewhere.
- `OneJobPerKey`: the lookup before the insert is a race, the unique index is
  what decides it. `EveryJobSettles` holds without faults; with an expired lease
  a job may stay `waiting` until some command runs the recovery and a retry
  starts a worker, because nothing polls the queue.
- `EveryLossIsReceipted` and `RecoveryLeavesNothing`: without overlap, whichever
  command was killed at whichever step, the bytes of a referenced blob are in
  the workspace (at home, in a staging directory or in `runtime/tmp`) or a gc
  receipt names them. The last case is real: a purge killed after staging leaves
  its files in `runtime/tmp`, and gc collects them as temporary files.
- `LoneCommandIsNotRefused`: a stale lock file of any shape is broken.
- `NothingUnarchived`: when no scan is running and a scan would report nothing,
  the archive equals the directory, whatever happened in between.
  `ScanRunsAreClosed` covers the rows of scans that a kill could leave open (that
  a batch only succeeds with a receipt is a conjunct of `TypeOK`).
  `DaemonConverges` is the liveness half: while the daemon runs, the archive ends
  up equal to the directory.
- `SnapshotsAreAChain`: the unique index turns the race of two archives for a
  sequence number into one publication and one failure, so the line of snapshots
  has neither gap nor fork. For commands in sequence the manifest file and the
  stored changes are those of the snapshot, after any throw or kill.
- `NoOrphanChunks`: as long as snapshots are published in order, alignment, lineage
  and tombstones never leave an active chunk outside the current revision of an
  active document; and never a replaced chunk beside the one it became.
- `BuiltIsCurrent`: an accepted batch has a ready run of its snapshot, whoever
  shared the run; and as long as snapshots are published in order, the documents of
  an ingested snapshot are its files, however the commands overlap.
- `ReadyIsSearchable`, `ReadyAnswersAreCurrent`: the index and the answers, which
  are updated in steps of their own after the publication, have caught up when
  the source says `ready`.
- `UserFactsSurvive`, `BuildsVerify`, `ContradictionsAreOpen`, `RedirectsEnd`: what
  a user confirmed, rejected or asserted (claims and relations) is carried into the
  next generation, as long as it has a status that a build keeps;
  builds, failures and kills alone do not produce a generation that blocks the
  graph (a moderated claim or relation without evidence does, text that comes back,
  and a claim that came with two predicates);
  contradicting claims of different builds meet in an open conflict, are disputed in
  their level of confidence and in reports; merges from plans made before each
  other form no cycle.
- `ActiveSpaceCovers`, `VerifiedOnOneModel`: commands one after another never
  retire the active space, and without failures each ends with a vector for every
  chunk; verification lets no vector pass that is of other weights than the sentinel's,
  whatever was killed in between, but for weights that the provider served in between
  and has left again for those of the sentinel.
- `RejectedClaimsLeave`, `ActiveTopicsAreCurrent`, `ArtifactsAgree`: the version a
  report was started under keeps one with a claim or relation that was rejected
  meanwhile from being saved as active;
  an active topic is of what is served, and has its evidence unless a generation
  built later, and not served, has marked it stale;
  a ready build has its directory, and row and pointer file name ready builds.
- `UndoneLeavesNoTrace`: whatever is deleted, undone, restored, moderated and
  touched in whatever order, a row that no standing operation has changed is what
  the changes alone of the other commands have left of it (`base`). It is also what they
  would have left without any operation (`without`), unless an operation made one of
  their statements change the row, or pass it by, that would not have otherwise.
- `NotesAreWhereTheySay`: the two-phase protocol of moves, with two or three
  movers and undo at once, ends with one file, where row and locator say.
- `OneDaemon`: two daemons lead only when the lease of one lapsed under it.
- `CommitsSurvive`: a migration compares what it serializes with what it planned
  for and loses no commit; after a kill the commits are in the backup file.
- `BackupsAreWhole`: a ready backup has its directory and passes the deep check,
  and a restored workspace is the backup its plan saw.
- `InitIsAllOrNothing`: a workspace that is published is complete, after any
  chain of kills and resumptions, unless a rollback took files of it, before it
  was resumed or after; runs that were rolled back without a kill leave none of
  their files.
- `ConfigIsRecorded`: racing writers of one configuration keep a file for every
  version; failed commands take their files back.

### What the violated runs show

- `job_restart`, `RestartNeedsRetry`: `recoverAbandonedJobs` selects outside its
  transaction and updates by `job_id`. A worker whose lease has expired fails
  the job in between; the recovery puts it back to `waiting` and the next worker
  claims it. `docs/domains/automation/README.md:58` promises an explicit retry.
- `lock_race`, `MutualExclusion`: between `open("wx")` and `writeFile` the lock
  file is empty; a competitor reads "no lock", unlinks it and creates its own.
  `docs/domains/operations/README.md:29` promises exclusion across processes.
- `purge_shared`, `SharedBlobSurvivesPurge`: the purge stages files it chose
  before its transaction; a source archived meanwhile shares the blob and keeps
  its row, but the file is unlinked. `docs/domains/source/workflows.md:32`
  promises that a shared blob survives. With overlapping commands the model
  loses referenced bytes in other ways as well (gc plan recovers a live staging
  directory without the lock); `EveryLossIsReceipted` is therefore stated for
  commands that do not overlap.
- `connection_missed`, `ReconciliationMissesNothing`: the key of a change batch
  is a hash of the changes alone. When a file goes A, B, A, B, the scan after
  the last change finds the receipt of the first change to B, archives nothing
  and advances the observations: the archive stays at A and no later scan sees a
  difference (`docs/domains/connection/README.md:200`).
- `restore_lost`, `IncrementalEqualsFull`: a file that was deleted and comes back
  with its old content only gets its document activated; its chunks stay
  tombstoned. `docs/domains/knowledge/workflows.md:13` promises the content of a
  full build. Nothing but a change of the file or the settings repairs it.

### Bounds, and why they are enough

- Jobs: three processes cover every race the code can have on one row: a worker,
  a second worker or a recovery that takes over, and a cancel, retry or third
  claimant. Two expired leases and a crash let a job be lost twice. One job is
  enough for the row properties, because no statement relates two jobs; keys
  relate two, hence the run with two jobs and one key (no symmetry there, since
  it checks liveness). `job_faults` has 144 thousand states and uses symmetry of
  processes, `job_keys` 328 thousand.
- Storage: one blob and two sources make the blob shared or exclusive; paths of
  different blobs never meet. Three processes are three commands (say purge, gc
  plan, gc apply), with one crash anywhere and one lapse of the lock; a further
  crash only repeats one of the covered remains. About 940 thousand states.
- Connections: two paths allow every rename, one batch per change or one for
  all (`BatchSizes`), one edit that changes content, one return to an earlier
  content and one fault. 294 thousand states. Two edits without returns
  (915 thousand states) give the same answers and take three times as long.
- Ingestion: two paths, two contents whose chunks overlap in one text, two chunker
  settings of which the second merges all chunks: enough for an exact match, a
  modification, a split, a rename and a tombstone. Three families: two commands
  at once (of which one may fall), three commands in sequence with two edits, and
  two settings with a concurrent ask. 1.5 million states.
- Derived: four chunks, two of them with one text (extraction runs are keyed by
  text), three claims (two contradict each other), five relations (one is of a claim
  that both chunks with one text state), one link, two spaces, two models behind
  one endpoint, three entities and one to be born. 29 families, each with the two or three kinds of
  commands whose steps can meet; two processes interleave in seven of them. 923
  thousand states.
- Operations: one row of each of the 15 kinds, linked as the code links them, so
  that every cascade of a delete plan occurs; two directories and three contents
  of the note; one blob, one restore root, three settings. 22 families, with one
  to three processes. A second row of a kind only repeats a cascade, since plans
  compare images row by row. Two faults let a rollback be killed before the run
  is resumed; one archive and two purges beside a backup let a file be dropped
  under a name that another archive has just given. 276 thousand states.
- A family that leaves a kind out loses only interleavings of commands that share
  no row with it. The components of `Operations` share none at all, and in
  `Derived` the kinds that share rows (publication with each build; build with
  plan and moderation; topic with everything it shows) meet in at least one family.

### Fairness and deadlock

`FairSpec` of `JobQueue` is weak fairness of each process that has begun a
command: the operating system schedules it. Nothing makes a user start a
command, and no command is fair to start. `FairSpec` of `ConnectionScan` is weak
fairness of the steps of a running command or daemon, and of time (`next_scan_at`
and the delete grace period pass); events, edits, pauses, commands and kills are
never forced. `DaemonConverges` supposes that from some time on the daemon is the
one that runs, and that the connection is `active` or `degraded`.
`CHECK_DEADLOCK FALSE` is set everywhere because commands end: a system in which
every process has finished is a legitimate end.

### Premises that exclude known behaviour

`NothingUnarchived` and `DaemonConverges` have two premises. `reverts = 0`: the
receipt of an earlier batch answers for a later equal one (see
`connection_missed`), and a file that changes and changes back while the
archive reads it is seen by neither reading. `OneBatch`: with several batches
per scan the receipt of the first slice can stand for a snapshot taken before
the others. A file that only the archive has read, and that disappears before an
inventory meets it, is not reported either; `Archived` does not speak about
such a file. A connection killed in its initial scan stays `initializing`, which
the daemon never selects.

`UndoneLeavesNoTrace` takes timestamps of two transactions as different (`clock`): an
answer and a context have nothing but the date of their change to tell two of them apart.

The other premises are history variables, each set by the one thing it names:

| Premise | Where | Set when | Without it |
|---|---|---|---|
| `lone` | ingestion, derived | two commands overlap (or a file changes under one) | builds, refreshes and publications apply to what another has replaced |
| `inOrder` | ingestion | an older snapshot or older settings are published after newer ones | `ingestion retry` publishes the old files over the new ones |
| `quiet` | ingestion | an ingestion takes a step while an ask runs | an answer made from replaced rows is saved as valid |
| `back`, `emptied` | `ActiveSpaceCovers` | a chunk returns, or none is left | a chunk that returns is never covered again by a space |
| `back` | `BuildsVerify` | a chunk returns | evidence that its absence made stale stays stale, and what rests on it is built without evidence when its extraction fails |
| `moderated` | `BuildsVerify` | a claim or relation is confirmed or rejected | it is carried without evidence and blocks later builds |
| `Uneven` (a constant) | `BuildsVerify` | one text states a claim with a relation that another text with the claim does not state | a build that reuses the extraction has the relation without evidence |
| `followed` | `VerifiedOnOneModel` | the provider changes its weights | vectors of a drift that has come back pass |
| `withdrawn` | topic | a rejection raises the version of the topic | a second rejection with the same reason does not raise it |
| `swayed` | `UndoneLeavesNoTrace`, for `without` | a statement of another command changes a row with the operations, and would not without, or the other way round | an answer that a plan holds stale is not invalidated by a change of the knowledge, and active again after the undo |
| `spoiled` | notes | an update meets another command on the note, or fails late, or a move is killed halfway, or another command takes the file that a move has renamed and not settled | file and row differ |
| `slept`, `adopted` | daemon | the lease lapses under a daemon; a heartbeat reads back the lease of another | two daemons lead |
| `overlap` | migration | two migrations are applied at once | commits between them are lost |
| `unsettled`, `remade` | backups | a purge has a file out of its place while a backup is made, or a file is missing that the database names or an archive is about to name; a ready backup's job runs again | the backup lacks a blob; its directory is gone for a while |
| `undone` | init | a rollback removes a file of a published workspace or of an earlier run; a run is resumed after a rollback has removed files of it | the published workspace lacks files |
| `twins`, `mixed` | configuration | two commands write the same version and content; two commands overlap | the loser removes the winner's file or restores its old content |

### What the premises leave out: observations

Each of these was met as a counterexample before its premise was stated. But for
the first, they are consequences of the code that no document of the repository
rules out, so they are not runs.

- Init, against a document: `init rollback` removes the files one by one and the
  journal last (`init-rollback.ts:87-104`). When it is killed in between, or stops
  at a file that has changed, the journal still has its completed steps, and
  `init resume` skips them (`init-steps.ts:20`): it checks the database and
  publishes `self.toml` over a root whose release files, or file of the
  configuration history, are gone. `docs/distribution.md:361` says that
  `self.toml` is only published once every core file has been verified. The
  attempt to prove `InitIsAllOrNothing` is what showed it: no invariant could be
  found for the resumption. TLC reproduces it in 20 steps when the disjunct
  `~ AsMade(LatestJournal)` is taken out of `ResumeInit` with two faults; with
  it, such a run counts as `undone`.

- Plans: undo of a restore leaves the resource deleted with nothing left to
  restore it. Evidence and chunk rows have no version: an image comparison cannot
  see that a row changed and changed back. A graph activation rewrites `stale` on
  a claim that a deletion made stale; the later restore makes it active. A topic
  or context rebuilt after a deletion makes that deletion's restore a
  `plan_conflict` for ever, and overlapping deletions restore only in reverse
  order. A cancel that races an apply leaves an applied plan `cancelled`.
  What an operation holds stale, other commands pass by: they invalidate what is
  `active` (`evidence-repository.ts:200-209`, `topic-invalidation.ts:28-30`,
  `graph-generation-repository.ts:79-100`). Delete A, sync B, restore A, and the
  answers, contexts and topics that the deletion made stale are active
  again, although the sync of B would have made them stale.
- Notes: a move renames the file, opens the database, and only then enters the `try`
  that would bring the file back (`apply-mutation.ts:116`, `:158`): when the database
  cannot be opened the file stays where the row does not say. The models have a kill at
  this point, which leaves the same, but not this throw. `updateNote` writes the file before it compares the version, so a refused
  update still replaces the content; an update between the rename and the
  verification of a move is overwritten when the move goes back. A move and the
  undo of a move rename without a lock (`apply-mutation.ts:117`, `:154`): when two
  commands have read the same move plan as `ready`, and an undo of it brings the
  file back before it meets a conflict, the second command takes the file before
  the undo can return it, and the note's row is left at a place where no file is.
- Backups: a purge stages its files before its transaction and takes no lock. A
  backup made meanwhile is `ready` and lacks a blob that its database names, which
  only the deep check of the restore finds. A throw before the `try` of
  `applyBackupRestorePlan` leaks the maintenance lock. A restore killed between
  rename and commit leaves its plan unusable.
- Migration: it takes no lock; two that overlap lose the commits made between
  them; a kill between the removal of the log and the swap leaves the last
  commits only in the backup file.
- Daemon: its `finally` removes the lock file whoever made it; an empty lock file
  counts as stale.
- Init: a kill between `self.toml` and the last save of the journal leaves an
  active workspace that `init rollback` still takes apart. A copy cut short makes
  every resume and every later init a conflict. An init plan over an unfinished
  run bypasses `init_incomplete`.
- Configuration: of two overlapping `config set` the loser puts its old content
  over the winner's.
- Graph: evidence that became stale is never active again; a re-extracted stale
  claim stays stale; a build marks evidence stale for all generations when it
  starts (`graph-generation-repository.ts:79-101`), so that one that is not
  activated leaves an active topic with claims of the served generation that have
  none; when text comes back and its extraction fails, claims and links that are
  built on it block the build; two concurrent activations leave two generations `active`;
  moderation during a build is lost when it is activated; moderation takes a
  redirected entity out of its final state; a graph plan can be applied again.
  A relation that a user has accepted goes stale with its evidence, like one that a model
  proposed, and is not carried into the next generation
  (`graph-generation-repository.ts:66-76`, `94-100`), where `docs/domains/graph/testing.md:131`
  wants a user's correction to outlive the next build. A rejected one is
  carried without evidence, and verification then refuses the generation (`:263-267`).
  A relation keeps the claim it was first stated for. When a claim is stated with two
  predicates, one per text, a build that reuses the extraction of one text has
  the other relation without evidence and is refused, without any moderation.
- Vector spaces: verification of the active space can set it `failed`, after which
  every ingestion throws: one degraded refresh, which leaves it `ready` without all
  its vectors, and a verification are enough (`vector-space-workflows.ts:240-262`,
  `383-458`); a deleted definition cannot be created again; a build in
  flight revives a deleted space. A refresh embeds without a sentinel
  (`vector-space-workflows.ts:395-426`), and the test of a model closes the circuit without a
  comparison: a model that changes for some calls and comes back leaves a mixture that
  every later verification passes; one that changes for good leaves the active space `ready` with
  a mixture until it is verified.
- Topics and artifacts: invalidation of a topic never marks its artifact stale; a
  refreshed topic whose artifact build failed is never rendered again;
  two builds that end in the other order leave `latest.json` at the older one.
- Ingestion: a retry of an old run sets `ingestion_status` to `ready` while the
  current snapshot is not ingested; renames are only known after the scan has
  completed, that is after its ingestion.

## 4. Proofs

Every theorem holds for every set of processes and data, every choice of the
bounds, and from the ASSUMEs of the modules alone: the null value is none of the
others, bounds are natural numbers, sets of paths or blobs are what they are said
to be (paths and texts are numbers, there are finitely many paths, a similarity is a
percentage, the settings that the run may choose are among `Configs`), what
`Operations` counts is among `Kinds`, rows are of the kinds of `Columns` and
linked to rows, what a command is for is a row (`MutationAssumption`), and every note
has a Source of its own (`NoteAssumption`: a note is created with a file of its own name and the Source
of that file, `note-workflows.ts:34-64`, and its row needs a `source_id`; the content it
starts with, 1, is one of `Bodies`).

| Module | Theorem | Statement |
|---|---|---|
| `JobQueueProofs` | `TypeCorrect` | `Spec => []TypeOK` |
| | `OwnershipLossLogged` | `Spec => []OwnershipLossIsLogged` |
| | `AttemptsPaidFor` | `Spec => []EveryAttemptIsPaidFor` |
| | `RunningJobsRecoverable` | `Spec => []RunningIsRecoverable` |
| | `KeysAreUnique` | `Spec => []OneJobPerKey` |
| | `QueueRefinesGrants` | every behaviour of `JobQueue` is one of `JobGrants` under the mapping |
| `StorageReclaimProofs` | `TypeCorrect` | `Spec => []TypeOK` |
| | `LoneCommandGetsTheLock` | `Spec => []LoneCommandIsNotRefused` |
| | `RecoveryIsComplete` | `Spec => []RecoveryLeavesNothing` |
| | `LossesAreReceipted` | `Spec => []EveryLossIsReceipted` |
| `ConnectionScanProofs` | `TypeCorrect` | `Spec => []TypeOK` |
| | `ScansEnd` | `Spec => []ScanRunsAreClosed` |
| | `DifferencesStayVisible` | `Spec => []NothingUnarchived` |
| `IngestionProofs` | `WellFormed` | `Spec => []TypeOK` |
| | `OneChain` | `Spec => []SnapshotsAreAChain` |
| | `ChunksAreCurrent` | `Spec => []NoOrphanChunks` |
| | `BuildsAreCurrent` | `Spec => []BuiltIsCurrent` |
| | `ReadyMeansSearchable` | `Spec => []ReadyIsSearchable` |
| | `ValidAnswersAreCurrent` | `Spec => []ReadyAnswersAreCurrent` |
| `OperationsProofs` | `ConfigStaysRecorded` | `Spec => []ConfigIsRecorded` |
| | `OneDaemonLeads` | `Spec => []OneDaemon` |
| | `NoCommitIsLost` | `Spec => []CommitsSurvive` |
| | `BackupsStayWhole` | `Spec => []BackupsAreWhole` |
| | `InitIsWhole` | `Spec => []InitIsAllOrNothing` |
| `PlanProofs` | `UndoneIsGone` | `Spec => []UndoneLeavesNoTrace` |
| | `NotesStayInPlace` | `Spec => []NotesAreWhereTheySay` |
| | `OperationsTypeCorrect` | `Spec => []TypeOK` |
| | `LocatorsFollow` | `Spec => []RowAndLocatorAgree`: the path of a note and the locator of its Source agree in every state |
| `DerivedProofs` | `RedirectsAreAcyclic` | `Spec => []RedirectsEnd` |
| | `ActiveSpaceStaysCovered` | `Spec => []ActiveSpaceCovers` |
| | `SpacesPassOnOneModel` | `Spec => VerifiedOnOneModel`, an action property |
| | `WhatTheUserSaidStays` | `Spec => []UserFactsSurvive` |
| | `OnlyModerationBlocksBuilds` | `Spec => []BuildsVerify` |
| `TopicProofs` | `ArtifactAndFilesAgree` | `Spec => []ArtifactsAgree` |
| | `RejectedClaimsDoLeave` | `Spec => []RejectedClaimsLeave` |
| | `ContradictionsStayOpen` | `Spec => []ContradictionsAreOpen` |
| | `ActiveTopicsStayCurrent` | `Spec => []ActiveTopicsAreCurrent` |
| | `DerivedTypeCorrect` | `Spec => []TypeOK` |

### JobQueue

One invariant on top of the other:

1. `TypeInv` is `TypeOK` and `ArgTyped`: a process past the choice of its job has
   a job, not null, in `arg`. Without it the updates indexed by `arg[p]` could
   not be typed.
2. `OwnInv` adds `SinceBound` (the place of a worker's start lies inside the
   history of its job) to `OwnershipLossIsLogged`. A step that takes a row away
   appends at the end, hence after `since`.
3. `GrantInv` is `EveryAttemptIsPaidFor` and `Unstarted`, which says that a row not yet
   inserted has no attempt. A claimable row has a grant that no start has used:
   the claim's compare-and-set uses it up; enqueue, recovery and retry add one.
4. `OneJobPerKey` is inductive together with `TypeInv`: the index refuses the
   only step that could break it.
5. `RunInv`: the owner of a running row works on that row or has ended. Every
   statement but the claim keeps the owner of a row that stays running
   (`KeptRunning`), every process goes on with its job or ends (`GoesOn`), and a
   claim sets owner, lease and program counter together. With it
   `RunningIsRecoverable` follows, because an ended owner is what recovery looks
   for.
6. The refinement: each action maps to a grant, a start or a stutter, by
   `GrantInv`. Counting lemmas about `Append` and the events of a type carry it.

### StorageReclaim

The theorems beyond `TypeCorrect` are about commands one after another, and their invariant is
`Serial => SerialInv` with four parts: `Alone` (only one command is past its
start), `LockOwned` (the lock file belongs to it, or to a dead process),
`StagedIsFound` (a staged file lies in a directory whose receipt the recovery at
the start of the next collection will find) and `BytesAreKept` (a referenced
blob is at home, in what is staged, in a temporary directory or on a receipt).
Every step is one of a few kinds (it touches the stores, the lock or only its own
record) and each part has one lemma per kind.

### ConnectionScan

`TypeInv` has besides the types that `past` holds every content a path has had,
and that a scan completes only with all its receipts. `RunInv` says at which
steps a scan run is open. On them rests `ArchInv`: while no path returns to an
earlier content and a scan fits one batch, what the database knows of a path that
is still there is in the archive, what a scan has read was once there, and a
change that is written down is one of what was read. A receipt then answers only
for content that the archive has. `Renames` is a recursive function; that its
recursion has a solution (`RenamesEquation`) is an argument about the least path
that would lack one, for which `LeastNatural` gives a least counterexample: the
induction theorems of the library cannot be used, an argument about a least
counterexample can.

### Ingestion

Every property of the run `ingestion` has a theorem. The proof has four parts.

1. `ChainInv`: the numbers of snapshots are taken by the unique index, so that a
   process that has numbered one is the only one with this number (`Counted`), the
   predecessor it has computed against is its own (`Alone`), and its manifest is the
   one of the number when commands do not overlap (`LoneChain`).
2. `IndexInv` follows the rows that an ingestion holds from publication to the
   index; `AskInv` follows the rows that an ask has read until they are cited. Both
   hold for any `Publish` and any `ActiveRows`.
3. What the publish transaction computes, for any files, chunker and similarity. Its
   loops (over drafts, renames, files) are recursive functions. `RecursionSolved`
   gives such a function its equation and `StepByStep` carries a fact through its
   steps; both follow from the least number for which they would fail, as in
   `ConnectionScan`. On them rest `ExactTakes` (a chunk is taken once), `ReplacedReplaces` (what a
   draft replaces is nobody's exact match and is replaced once), and `NewIds`, that
   new chunks are numbered without gap or double. `Sound` is what every publication
   keeps of the rows: their types (`Tables`), no two documents have one path and the current revision of a
   document is one of its own (`Documented`), a revision has chunks of its document,
   none twice (`Chunked`), and a lineage leads from an older chunk to a newer one,
   never inside one revision (`Descended`). `Mapped`, that active chunks are in current revisions of
   active documents, is kept by a publication that is not an older one than the
   last (`Until`): this is where the premise `inOrder` is needed, because an older
   one finds its revision and only makes it current again, its chunks still tombstoned.
   `PublishDoes` adds what the documents are afterwards (`Holds`).
4. `ContentInv` puts this together with what commands hold (`ArchiveTypes`,
   `CommandOk`), with the fact that every snapshot was published by a command of its own (`Numbering`), with the
   runs (`RunInv`: a ready run has published, and a receipt has its run), and
   with what was published last (`top`). `BuiltIsCurrent` was stated of commands one
   after another before: the proof did not need it, and the run confirms the
   stronger form.

### Operations

The components share processes and one program counter. `Shapes` says which
fields a process has at which step, and with it the steps of one component are
shown to leave another alone (`...Acts`, `StepGroups`, `...Frame`). Each component has
its own invariant:

- `ConfigInv`: versions are numbered without gap or double; the file of a version,
  or of a command that has written it, is there unless two have written it; what a
  command that runs alone has done so far (`OneRun`).
- `DaemonInv`: a daemon that leads remembers a lease with the number of its run,
  and holds the lease of the workspace unless its own has lapsed.
- `MigrationsInv`: what a migration has in hand or in a file has the commits its
  plan saw; a migration that runs alone has saved them before it takes the log away.
- `BackupsInv`: whoever saves or restores has the lock; while a backup is settled no
  file is gone that the database names or will name; a restore fills its target
  from the backup that its plan saw. The proof changed the model: `unsettled` had
  not covered an archive between its file and its row.
- `InitsInv`: the journal of a run names at least what the saved one names; what it
  names is there as the run has made it; after the third step the database is
  there with its file of the configuration history (`MakeOK`). A rollback has
  removed what its plan named and does not name any more (`UnmakeOK`). Without a
  kill every file is named by a journal (`OwnedInv`). The case of `ResumeInit` has
  no proof without `AsMade`, see the first observation above.
- `NotePlanInv`: `PlansInv` says what a plan, an operation and a command may change:
  no path, or the path of a note and the locator of its Source together, from one
  directory to another (`Takes`); a reversal of what changes no path changes none
  (`ReversedAre`), and only a move or the undo of one gets a file to rename. On it
  rests `PathsInv`, that row and locator agree in every state, and on both `NotesInv`:
  a note that is not spoiled has one file, where its row says, or where the one
  command has put it that still has to commit or to take it back (`Lifts`), with the
  content of its last update or of the one that is under way (`Updating`). The proof
  changed the model: a plan applied by two commands at once, or an undo of it, can
  take the file that another has renamed and not settled, a behaviour that the
  families of the run did not reach. `spoiled` names it now, and a family has it.
- `TraceInv`: `OpsInv` says what is recorded: an operation of its own, or one that
  takes back an earlier one (`BackOp`), each at most once, because the images no
  longer fit a second time; an undo can be taken back by a restore, a restore by
  nothing (`StandingIs`). For each row `Stand` is the set of operations on it that
  were not taken back, and `Trace` what they say of its value `x` and of the value
  `b` that the changes alone of the other commands would leave. If none stands, `x` and `b` agree.
  If some do, it depends on what an image comparison can see of the kind of row:
  a row with a version is back at `b` when the only operation that stands is taken
  back and finds its image (`Returns`), because a later write or operation has moved the
  version (`Past`); claims and relations that a graph activation makes stale without
  a new version stay stale (`Fades`); evidence and chunks have one operation at
  most (`Switched`); answers and contexts have the date of their change, and the
  operations on one form a stack by that date (`Stacked`). `MeantInv` says that
  what a plan or a command carries is of one of the two forms. The dates are
  distinct because every transaction has its own time, which `clock` models. `SwayInv`
  adds that `without` and `base` differ on `swayed` rows only.
- `OperationsTypeCorrect` takes each conjunct of `TypeOK` from the invariant of the
  component that owns it: rows, plans and operations from `TraceInv` (an undo changes
  the rows of what it takes back, `OpsOfRows`), the lease, the databases, the backups,
  the disk and the settings from the invariants of their components. Three parts are
  its own: the states of plans and the contents of files with what an update has in
  hand (`KindInv`), that one command at most has the maintenance lock (`HoldInv`), and
  that versions numbered without a gap are as many as their numbers (`VersionsCount`).

### Derived

Every property of the run `derived` has a theorem. `WorkInv` has the shapes of the
commands, and that one process at a time works as long as commands come one after
another (`lone`); `VectorActs`, `GraphActs` and the like say what each step does to
the record of its process. A step of one component leaves the invariants of the
others alone, so that each is proved over its own actions:

- `RedirectInv`: a merge is refused when it would close a circle, whatever was
  planned before; the argument is about sets that no redirect leads out of.
- `VectorInv` has an invariant for each degree of disorder. Always, what is used
  or written has passed a sentinel, and while the provider serves the weights of a
  sentinel, the active vectors of its space are of them (`BasedInv`). One after another, what a command has
  found out is so when it acts on it (`FoundInv`); a command that was killed leaves
  nothing that the next one would take for more than it is. Without failures too, a
  vector that is missing in the active space is owed by the refresh that is running
  (`SmoothInv`), and when nobody is running nothing is owed.
- `GraphInv`: a process alone writes the generation that it builds (`OneOwner`),
  and contradictions inside a generation that can be activated are in a conflict
  (`GraphRows`, `GenAt`). One after another, what the user said is in the generation
  that is served and in the one that is built, and every claim and link of the
  latter has evidence or an excuse (`LoneRows`, `LoneAt`): this is where
  moderation, text that came back, and uneven relations had to be named. `Grows` is what every
  transaction does to the tables; a generation that no build writes any more lasts
  (`Settled`), with its claims.
- `ArtifactInv`: an artifact build belongs to the process that makes it
  (`OneMaker`), ready ones have been published (`ReadyRows`); without failures, row
  and file follow the report that is made (`FollowInv`).
- `LeaveInv`, `OpenInv`, `CurrentInv` follow what a synthesis has read until it
  saves: claims that are not rejected unless the version of the topic has moved on;
  contradictions of a settled generation; the knowledge and the generation served.

Their proofs changed the model. `ActiveSpaceCovers` had been stated of the state of
the space alone, `BuildsVerify` of moderated claims only, and `ActiveTopicsAreCurrent`
without the later generation: in each case the invariant could not be found because a
behaviour, now among the observations and in three families of the run, refutes it.
The assumptions on constants that they use say what ids are (a space and an entity
are not the null id, a link is not a claim); none is about a bound.

### What is only model-checked

Only liveness under fairness, which the prover does not handle: `EveryJobSettles` and
`DaemonConverges`. Every invariant and every other property of a passing run has a
theorem; the properties of the runs that end in a violation have none.

Some definitions were rewritten so that they can be reasoned about, with the same
meaning: `CollectFiles` has a disjunct per outcome; `ActiveRows`, `Renames` and the
paths of `ConnectionScan` are sets and functions without CASE or nested recursion;
the loops of `KnowledgePublisher` are recursive functions, with an operator for what
one round does (`ExactMatch`, `Replacement`, `PublishRevision`, `MoveDocument`);
`Operations` names what it counts (`Counted`), `WorkspaceInit` which processes are at
work in a root (`Running`), so that one run at a time is a guard and not a bound.
None of the modules with theorems declares a RECURSIVE operator.

## 5. Not modelled, and the plan

Left out of modelled components:

- Connection: rebind, managed write receipts, the observations that two
  overlapping scans of one connection write. `ScanRunsAreClosed` covers their runs
  only as far as a kill leaves one behind.
- Retrieval: ranks, their fusion and the vector route. No property depends on the
  order of results. The model of `ask` hydrates and cites what the text route finds.
- Topic candidates and the layout of reports; templates, diffs and export of
  artifacts (they read a ready build).
- Idempotency keys of operations; directories in init and rollback; a failure to
  hash a file that init has just made; the blockers of a purge; the ages of
  temporary files and of stale embeddings.
- The lock in `BackupRestore` is taken as exclusive; `MaintenanceLock` shows when it
  is not.
- Vector spaces: the chunks of `Commands` are of one Source. After an ingestion a refresh
  embeds what is missing of its Source only (`vector-space-workflows.ts:383`).
- Graph: the evidence of an explicit link is the chunk at its line, active or not
  (`graph-projection.ts:288-303`); here it is active. The two differ where the current
  revision of a document has a tombstoned chunk (see `restore_lost`), which `Commands` does not
  have: there the next build marks the evidence stale, `addRelationEvidence` finds its row and
  leaves it (`:315-320`), and verification refuses the build for want of evidence.
- Notes: a throw when the database is opened between the rename of a move and its
  `try` (see the observations).
- The migration is one step from one schema version to the next: the statements of
  the migrations are data.

Not modelled at all: setup, status and doctor (one command after the other, or
reads only), the checks of `verify` other than the deep one of backups (they are
what the invariants here state), model providers' requests, parsers, renderer and
command line (pure input and output).

The abstract specifications still worth stating: "a plan is decided once" over
`MutationPlan` and "at most one generation is served" over `GraphGeneration` and
`VectorSpace`.
