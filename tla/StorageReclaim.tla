--------------------------- MODULE StorageReclaim ---------------------------
(***************************************************************************)
(* The commands that create, move and delete the archived bytes of a       *)
(* workspace, each run by a process of its own:                            *)
(*   archive     writes a Blob file and publishes a Snapshot entry         *)
(*   purge       stages the files of a deleted Source and drops its rows   *)
(*   gc plan     lists rows without references and files in runtime/tmp    *)
(*   gc apply    stages, commits with a receipt, deletes; or rolls back    *)
(*   checkpoint  recovers the staging directories of dead gc applies       *)
(* They share the SQLite tables and the directory tree.  A SELECT outside  *)
(* a transaction, a transaction and a system call that renames, removes or *)
(* creates are the steps.  gc apply and checkpoint take MaintenanceLock;   *)
(* archive, purge and gc plan do not.                                      *)
(*                                                                         *)
(* gc apply deletes the rows of stale embeddings in the same transaction;  *)
(* they own no file and are not represented.                               *)
(***************************************************************************)
EXTENDS MaintenanceLock, FiniteSets

CONSTANTS Sources, Blobs

VARIABLES
    disk,       \* files under content/sources/blobs and runtime/tmp
    staging,    \* the directory runtime/tmp/gc_<operation> of each gc plan
    blobRows,   \* source_blobs
    entry,      \* source_snapshot_entries: the blobs of each source
    source,     \* sources.state, or "purged" once the row is gone
    plan,       \* gc rows of automation_plans; a plan is named by its planner
    receipts,   \* rows of operation_gc_receipts for each plan
    cmd,        \* the command a process runs and its local variables
    width       \* how many commands may run at the same time

stores == <<disk, staging, blobRows, entry, source, plan, receipts>>
vars == <<stores, cmd, width, lockVars>>

\* content/sources/blobs/<blob>, and runtime/tmp/<purge of p>/<blob>.
Home(b)   == [under |-> Null, blob |-> b]
Tmp(p, b) == [under |-> p, blob |-> b]
Paths     == [under : Procs \cup {Null}, blob : Blobs]

NoStaging == [dir |-> FALSE, receipt |-> FALSE, files |-> {}]
NoPlan    == [state |-> "none", items |-> {}]

\* listed: paths still to handle; moved: paths staged so far.
NoCmd == [kind |-> "none", pc |-> "idle", source |-> Null, blob |-> Null,
          plan |-> Null, dir |-> Null, dirs |-> {}, listed |-> {}, moved |-> {},
          rows |-> {}]

Kinds == {"none", "archive", "purge", "gc plan", "gc apply", "checkpoint"}
CmdPC == {"idle", "persist", "writeBlob", "publish",
          "stage", "purge", "unlink", "restore",
          "locking", "recoverList", "recover", "recoverMove", "recoverDrop",
          "collectRows", "collectFiles", "checkPlan", "makeDir", "writeReceipt",
          "gcStage", "gcCommit", "gcDrop", "rollback", "rollbackDrop", "release", "done"}

ASSUME NamesAssumption == Null \notin Sources \cup Blobs

Referenced(b)  == \E s \in Sources : b \in entry[s]
\* Mutant: the query without its NOT EXISTS on other sources.
SharedToo(s) == entry[s]
\* Blobs no other source shares: what one purge may delete.
Exclusive(s) == {b \in entry[s] : \A t \in Sources \ {s} : b \notin entry[t]}

\* Sources archived earlier, some of them soft-deleted since, and blob rows
\* that lost their last reference (the Phase 10 harness injects one).
Init ==
    /\ LockInit
    /\ source \in [Sources -> {"active", "deleted"}]
    /\ entry \in [Sources -> SUBSET Blobs]
    /\ \E orphans \in SUBSET Blobs : blobRows = orphans \cup UNION {entry[s] : s \in Sources}
    /\ disk = {Home(b) : b \in blobRows}
    /\ staging = [p \in Procs |-> NoStaging]
    /\ plan = [p \in Procs |-> NoPlan]
    /\ receipts = [p \in Procs |-> 0]
    /\ cmd = [p \in Procs |-> NoCmd]
    /\ width \in {1, 2}

-----------------------------------------------------------------------------

Goto(p, l) == cmd' = [cmd EXCEPT ![p].pc = l]
AtPC(p, l) == cmd[p].pc = l /\ PidAlive(p)

Running(p) == /\ PidAlive(p)
              /\ cmd[p].pc \notin {"idle", "done"} \/ at[p] \notin {"out", "released"}

\* A process starts command c.
Start(p, c) ==
    /\ cmd[p].pc = "idle" /\ PidAlive(p)
    /\ Cardinality({q \in Procs : Running(q)}) < width
    /\ cmd' = [cmd EXCEPT ![p] = c]
    /\ UNCHANGED <<stores, width>>

\* The command throws where nothing releases the lock: the process exits.
Throw(p) == Goto(p, "done") /\ MoveTo(p, "gone") /\ UNCHANGED <<lockFile, lease, crashes, lapses>>

-----------------------------------------------------------------------------
(* source add and sync: archiveEntries with one entry                      *)

StartArchive(p, s, b) ==
    /\ source[s] = "active"
    /\ Start(p, [NoCmd EXCEPT !.kind = "archive", !.pc = "persist", !.source = s, !.blob = b])
    /\ UNCHANGED lockVars

\* persistEntry: a file that is already there is verified and reused.
Persist(p) ==
    /\ AtPC(p, "persist")
    /\ Goto(p, IF Home(cmd[p].blob) \in disk THEN "publish" ELSE "writeBlob")
    /\ UNCHANGED <<stores, width, lockVars>>

\* persistEntry: atomicWrite or atomicCopy ends with a rename onto the path.
WriteBlob(p) ==
    /\ AtPC(p, "writeBlob")
    /\ disk' = disk \cup {Home(cmd[p].blob)}
    /\ Goto(p, "publish")
    /\ UNCHANGED <<staging, blobRows, entry, source, plan, receipts, width, lockVars>>

\* publishSnapshot: blob row and entry in one transaction; the foreign key
\* refuses the snapshot of a source that was purged meanwhile.
Publish(p) ==
    /\ AtPC(p, "publish")
    /\ LET s == cmd[p].source
           b == cmd[p].blob
       IN IF source[s] = "purged"
          THEN UNCHANGED <<blobRows, entry, source>>
          ELSE /\ blobRows' = blobRows \cup {b}
               /\ entry' = [entry EXCEPT ![s] = @ \cup {b}]
               /\ source' = [source EXCEPT ![s] = "active"]
    /\ Goto(p, "done")
    /\ UNCHANGED <<disk, staging, plan, receipts, width, lockVars>>

-----------------------------------------------------------------------------
(* source purge: applySourcePurge                                          *)

\* describeSourcePurge: the files are chosen before the transaction.
StartPurge(p, s) ==
    /\ source[s] = "deleted"
    /\ Start(p, [NoCmd EXCEPT !.kind = "purge", !.pc = "stage", !.source = s,
                              !.listed = {Home(b) : b \in Exclusive(s)}])
    /\ UNCHANGED lockVars

\* stageFiles: one rename at a time; a missing file throws.
StageFile(p) ==
    /\ AtPC(p, "stage")
    /\ \/ /\ cmd[p].listed = {}
          /\ Goto(p, "purge")
          /\ UNCHANGED disk
       \/ \E f \in cmd[p].listed :
            IF f \in disk
            THEN /\ disk' = (disk \ {f}) \cup {Tmp(p, f.blob)}
                 /\ cmd' = [cmd EXCEPT ![p].listed = @ \ {f}, ![p].moved = @ \cup {f}]
            ELSE Goto(p, "restore") /\ UNCHANGED disk
    /\ UNCHANGED <<staging, blobRows, entry, source, plan, receipts, width, lockVars>>

\* The transaction: it computes again which blobs are exclusive, but the
\* files stay those of the earlier read.
Purge(p) ==
    /\ AtPC(p, "purge")
    /\ LET s == cmd[p].source IN
       /\ source[s] # "purged"
       /\ blobRows' = blobRows \ Exclusive(s)
       /\ entry' = [entry EXCEPT ![s] = {}]
       /\ source' = [source EXCEPT ![s] = "purged"]
    /\ Goto(p, "unlink")
    /\ UNCHANGED <<disk, staging, plan, receipts, width, lockVars>>

\* The transaction throws: the source is gone or the database stays busy.
PurgeFails(p) ==
    /\ AtPC(p, "purge")
    /\ Goto(p, "restore")
    /\ UNCHANGED <<stores, width, lockVars>>

\* A staged file that something else removed makes unlink throw.
UnlinkFile(p) ==
    /\ AtPC(p, "unlink")
    /\ \/ /\ cmd[p].moved = {}
          /\ Goto(p, "done")
          /\ UNCHANGED disk
       \/ \E f \in cmd[p].moved :
            IF Tmp(p, f.blob) \in disk
            THEN /\ disk' = disk \ {Tmp(p, f.blob)}
                 /\ cmd' = [cmd EXCEPT ![p].moved = @ \ {f}]
            ELSE Goto(p, "restore") /\ UNCHANGED disk
    /\ UNCHANGED <<staging, blobRows, entry, source, plan, receipts, width, lockVars>>

\* restoreFiles: a rename that fails is ignored.
RestoreFile(p) ==
    /\ AtPC(p, "restore")
    /\ \/ /\ cmd[p].moved = {}
          /\ Goto(p, "done")
          /\ UNCHANGED disk
       \/ \E f \in cmd[p].moved :
            /\ disk' = IF Tmp(p, f.blob) \in disk
                       THEN (disk \ {Tmp(p, f.blob)}) \cup {f} ELSE disk
            /\ cmd' = [cmd EXCEPT ![p].moved = @ \ {f}]
    /\ UNCHANGED <<staging, blobRows, entry, source, plan, receipts, width, lockVars>>

-----------------------------------------------------------------------------
(* recoverGcStaging                                                        *)

AfterRecovery(p) == CASE cmd[p].kind = "gc plan"  -> "collectRows"
                      [] cmd[p].kind = "gc apply" -> "checkPlan"
                      [] OTHER                    -> "release"

\* Mutant: a recovery that looks at no directory.
NothingStaged == {}
StagedDirs == {g \in Procs : staging[g].dir}

RecoverList(p) ==
    /\ AtPC(p, "recoverList")
    /\ cmd' = [cmd EXCEPT ![p].pc = "recover", ![p].dirs = StagedDirs]
    /\ UNCHANGED <<stores, width, lockVars>>

\* A directory without a readable receipt is kept.  A committed one is
\* dropped, any other gets its files moved back first.
RecoverDir(p) ==
    /\ AtPC(p, "recover")
    /\ \/ /\ cmd[p].dirs = {}
          /\ Goto(p, AfterRecovery(p))
       \/ \E g \in cmd[p].dirs :
            cmd' = IF staging[g].receipt
                   THEN [cmd EXCEPT ![p].pc = IF receipts[g] > 0 THEN "recoverDrop" ELSE "recoverMove",
                                    ![p].dir = g, ![p].listed = plan[g].items]
                   ELSE [cmd EXCEPT ![p].dirs = @ \ {g}]
    /\ UNCHANGED <<stores, width, lockVars>>

\* Mutant: recovery forgets to move anything back.
NeverMovesBack(g, f) == FALSE
\* The staged file is there and its place has not been taken.
MovesBack(g, f) == f \in staging[g].files /\ f \notin disk

MoveBack(g, f) ==
    IF MovesBack(g, f)
    THEN /\ disk' = disk \cup {f}
         /\ staging' = [staging EXCEPT ![g].files = @ \ {f}]
    ELSE UNCHANGED <<disk, staging>>

RecoverMove(p) ==
    /\ AtPC(p, "recoverMove")
    /\ \/ /\ cmd[p].listed = {}
          /\ Goto(p, "recoverDrop")
          /\ UNCHANGED <<disk, staging>>
       \/ \E f \in cmd[p].listed :
            /\ MoveBack(cmd[p].dir, f)
            /\ cmd' = [cmd EXCEPT ![p].listed = @ \ {f}]
    /\ UNCHANGED <<blobRows, entry, source, plan, receipts, width, lockVars>>

\* rm -r of the directory, whatever has been moved into it meanwhile.
RecoverDrop(p) ==
    /\ AtPC(p, "recoverDrop")
    /\ staging' = [staging EXCEPT ![cmd[p].dir] = NoStaging]
    /\ cmd' = [cmd EXCEPT ![p].pc = "recover", ![p].dirs = @ \ {cmd[p].dir},
                          ![p].dir = Null, ![p].listed = {}]
    /\ UNCHANGED <<disk, blobRows, entry, source, plan, receipts, width, lockVars>>

-----------------------------------------------------------------------------
(* createGcPlan and applyGcPlan                                            *)

StartGcPlan(p) ==
    /\ Start(p, [NoCmd EXCEPT !.kind = "gc plan", !.pc = "recoverList"])
    /\ UNCHANGED lockVars

StartGcApply(p, g) ==
    /\ plan[g].state # "none"
    /\ Start(p, [NoCmd EXCEPT !.kind = "gc apply", !.pc = "locking", !.plan = g])
    /\ Acquire(p)

StartCheckpoint(p) ==
    /\ Start(p, [NoCmd EXCEPT !.kind = "checkpoint", !.pc = "locking"])
    /\ Acquire(p)

Locked(p) ==
    /\ AtPC(p, "locking")
    /\ at[p] = "held"
    /\ Goto(p, "recoverList")
    /\ UNCHANGED <<stores, width, lockVars>>

\* A plan that is not ready, or whose fifteen minutes are over, throws.
CheckPlan(p) ==
    /\ AtPC(p, "checkPlan")
    /\ \/ /\ plan[cmd[p].plan].state = "ready"
          /\ Goto(p, "collectRows")
          /\ UNCHANGED lockVars
       \/ Throw(p)
    /\ UNCHANGED <<stores, width>>

\* collectCandidates: first the rows that nothing references,
CollectRows(p) ==
    /\ AtPC(p, "collectRows")
    /\ cmd' = [cmd EXCEPT ![p].pc = "collectFiles",
                          ![p].rows = {b \in blobRows : ~Referenced(b)}]
    /\ UNCHANGED <<stores, width, lockVars>>

\* then those of them that have a file, and every file left in runtime/tmp.
Candidates(p) ==
    {f \in disk : f.under # Null \/ f.blob \in cmd[p].rows}

\* createGcPlan inserts a ready plan; applyGcPlan compares with the stored one.
CollectFiles(p) ==
    /\ AtPC(p, "collectFiles")
    /\ \/ /\ cmd[p].kind = "gc plan"
          /\ plan' = [plan EXCEPT ![p] = [state |-> "ready", items |-> Candidates(p)]]
          /\ Goto(p, "done")
          /\ UNCHANGED lockVars
       \/ /\ cmd[p].kind # "gc plan"
          /\ IF Candidates(p) = plan[cmd[p].plan].items
             THEN Goto(p, "makeDir") /\ UNCHANGED lockVars
             ELSE Throw(p)
          /\ UNCHANGED plan
    /\ UNCHANGED <<disk, staging, blobRows, entry, source, receipts, width>>

\* mkdir of a directory that exists throws into the rollback.
MakeDir(p) ==
    /\ AtPC(p, "makeDir")
    /\ LET g == cmd[p].plan IN
       IF staging[g].dir
       THEN Goto(p, "rollback") /\ UNCHANGED staging
       ELSE staging' = [staging EXCEPT ![g].dir = TRUE] /\ Goto(p, "writeReceipt")
    /\ UNCHANGED <<disk, blobRows, entry, source, plan, receipts, width, lockVars>>

\* atomicWrite of receipt.json creates the directory again if it is gone.
WriteReceipt(p) ==
    /\ AtPC(p, "writeReceipt")
    /\ LET g == cmd[p].plan IN
       /\ staging' = [staging EXCEPT ![g].dir = TRUE, ![g].receipt = TRUE]
       /\ cmd' = [cmd EXCEPT ![p].pc = "gcStage", ![p].listed = plan[g].items]
    /\ UNCHANGED <<disk, blobRows, entry, source, plan, receipts, width, lockVars>>

\* mkdir -p of the target's directory, then one rename at a time.
GcStage(p) ==
    /\ AtPC(p, "gcStage")
    /\ \/ /\ cmd[p].listed = {}
          /\ Goto(p, "gcCommit")
          /\ UNCHANGED <<disk, staging>>
       \/ \E f \in cmd[p].listed :
            IF f \in disk
            THEN /\ disk' = disk \ {f}
                 /\ staging' = [staging EXCEPT ![cmd[p].plan].dir = TRUE,
                                               ![cmd[p].plan].files = @ \cup {f}]
                 /\ cmd' = [cmd EXCEPT ![p].listed = @ \ {f}, ![p].moved = @ \cup {f}]
            ELSE /\ staging' = [staging EXCEPT ![cmd[p].plan].dir = TRUE]
                 /\ Goto(p, "rollback")
                 /\ UNCHANGED disk
    /\ UNCHANGED <<blobRows, entry, source, plan, receipts, width, lockVars>>

OperationRecorded(g) == receipts[g] > 0

\* The transaction: rows, operation, receipt.  A foreign key or the primary
\* key of the operation refuses it as a whole.
GcCommit(p) ==
    /\ AtPC(p, "gcCommit")
    /\ LET g == cmd[p].plan
           rows == {b \in Blobs : Home(b) \in plan[g].items}
       IN /\ ~OperationRecorded(g)
          /\ \A b \in rows : ~Referenced(b)
          /\ blobRows' = blobRows \ rows
          /\ plan' = [plan EXCEPT ![g].state = "applied"]
          /\ receipts' = [receipts EXCEPT ![g] = @ + 1]
    /\ Goto(p, "gcDrop")
    /\ UNCHANGED <<disk, staging, entry, source, width, lockVars>>

\* The transaction throws, or the removal of the directory after it does.
GcFails(p) ==
    /\ AtPC(p, "gcCommit") \/ AtPC(p, "gcDrop")
    /\ Goto(p, "rollback")
    /\ UNCHANGED <<stores, width, lockVars>>

GcDrop(p) ==
    /\ AtPC(p, "gcDrop") \/ AtPC(p, "rollbackDrop")
    /\ staging' = [staging EXCEPT ![cmd[p].plan] = NoStaging]
    /\ Goto(p, "release")
    /\ UNCHANGED <<disk, blobRows, entry, source, plan, receipts, width, lockVars>>

Rollback(p) ==
    /\ AtPC(p, "rollback")
    /\ \/ /\ cmd[p].moved = {}
          /\ Goto(p, "rollbackDrop")
          /\ UNCHANGED <<disk, staging>>
       \/ \E f \in cmd[p].moved :
            /\ MoveBack(cmd[p].plan, f)
            /\ cmd' = [cmd EXCEPT ![p].moved = @ \ {f}]
    /\ UNCHANGED <<blobRows, entry, source, plan, receipts, width, lockVars>>

\* The finally block; the statements of release are MaintenanceLock's.
ReleaseLock(p) ==
    /\ AtPC(p, "release")
    /\ Release(p)
    /\ Goto(p, "done")
    /\ UNCHANGED <<stores, width>>

-----------------------------------------------------------------------------

Lock(p) == LockStep(p) /\ UNCHANGED <<stores, cmd, width>>

\* The process is killed, or a statement throws where nothing is undone.
Crash(p) ==
    /\ crashes < MaxCrashes
    /\ Running(p)
    /\ crashes' = crashes + 1
    /\ MoveTo(p, "gone")
    /\ UNCHANGED <<stores, cmd, width, lockFile, lease, lapses>>

Archive(p) == Persist(p) \/ WriteBlob(p) \/ Publish(p)
PurgeSource(p) ==
    StageFile(p) \/ Purge(p) \/ PurgeFails(p) \/ UnlinkFile(p) \/ RestoreFile(p)
Recover(p) == RecoverList(p) \/ RecoverDir(p) \/ RecoverMove(p) \/ RecoverDrop(p)
CollectGarbage(p) ==
    \/ Locked(p) \/ CheckPlan(p) \/ CollectRows(p) \/ CollectFiles(p) \/ MakeDir(p)
    \/ WriteReceipt(p) \/ GcStage(p) \/ GcCommit(p) \/ GcFails(p) \/ GcDrop(p)
    \/ Rollback(p) \/ ReleaseLock(p)

StartCommand(p) ==
    \/ \E s \in Sources, b \in Blobs : StartArchive(p, s, b)
    \/ \E s \in Sources : StartPurge(p, s)
    \/ StartGcPlan(p)
    \/ \E g \in Procs : StartGcApply(p, g)
    \/ StartCheckpoint(p)

Next ==
    \/ \E p \in Procs : \/ StartCommand(p) \/ Archive(p) \/ PurgeSource(p) \/ Recover(p)
                        \/ CollectGarbage(p) \/ Lock(p) \/ Crash(p)
    \/ Lapse /\ UNCHANGED <<stores, cmd, width>>

Spec == Init /\ [][Next]_vars

-----------------------------------------------------------------------------
(* Properties                                                              *)

\* Type invariant.
TypeOK ==
    /\ LockTypeOK
    /\ disk \subseteq Paths
    /\ staging \in [Procs -> [dir : BOOLEAN, receipt : BOOLEAN, files : SUBSET Paths]]
    /\ blobRows \subseteq Blobs
    /\ entry \in [Sources -> SUBSET blobRows]
    /\ source \in [Sources -> {"active", "deleted", "purged"}]
    /\ plan \in [Procs -> [state : {"none", "ready", "applied"}, items : SUBSET Paths]]
    /\ receipts \in [Procs -> Nat]
    /\ width \in {1, 2}
    /\ cmd \in [Procs -> [kind : Kinds, pc : CmdPC, source : Sources \cup {Null},
                          blob : Blobs \cup {Null}, plan : Procs \cup {Null},
                          dir : Procs \cup {Null}, dirs : SUBSET Procs,
                          listed : SUBSET Paths, moved : SUBSET Paths, rows : SUBSET Blobs]]

\* One command at a time, crashed ones included.
Serial == width = 1

Bytes(b) ==
    \/ \E f \in disk : f.blob = b
    \/ \E g \in Procs : \E f \in staging[g].files : f.blob = b
Receipted(b) == \E g \in Procs : receipts[g] > 0 /\ \E f \in plan[g].items : f.blob = b

\* When commands do not overlap, wherever the earlier ones were killed, the
\* bytes of every referenced blob are still somewhere in the workspace, or a
\* gc receipt lists the file they were in: purge, staging, rollback and
\* recovery lose nothing by themselves.
EveryLossIsReceipted ==
    Serial => \A b \in Blobs : Referenced(b) => Bytes(b) \/ Receipted(b)

\* When commands do not overlap, no command that has recovered finds a file in
\* the staging directory of a dead gc apply, and a file in any staging
\* directory is covered by a receipt.json that the next recovery can read.
RecoveryLeavesNothing ==
    Serial => /\ \A g \in Procs : staging[g].files # {} => staging[g].receipt
              /\ \A p \in Procs :
                    AtPC(p, "collectRows") \/ AtPC(p, "collectFiles") \/ AtPC(p, "makeDir")
                      => \A g \in Procs : staging[g].files = {}

\* When commands do not overlap, the lock never refuses one: a lock file left
\* by a crash, by an apply that threw before its try, or half written, is
\* always recognised as stale.
LoneCommandIsNotRefused == Serial => \A p \in Procs : at[p] # "refused"

\* docs/domains/source/workflows.md:32 says that a shared blob is never deleted
\* with one source's purge: the file a purge unlinks belongs to no other source.
SharedBlobSurvivesPurge ==
    [][\A p \in Procs, b \in Blobs :
         cmd[p].pc = "unlink" /\ Tmp(p, b) \in disk \ disk' /\ cmd'[p] # cmd[p]
           => \A s \in Sources \ {cmd[p].source} : b \notin entry[s]]_vars

=============================================================================
