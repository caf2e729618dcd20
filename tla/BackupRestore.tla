---------------------------- MODULE BackupRestore ----------------------------
(***************************************************************************)
(* Backups and their restoration: under the maintenance lock a backup      *)
(* serializes the database and copies the files, and a restore copies a    *)
(* verified backup to a new root.  Archives and purges, which do not take  *)
(* the lock, go on meanwhile.                                              *)
(*                                                                         *)
(* The lock is its holder; MaintenanceLock has how it is acquired and how  *)
(* that of a dead or a late owner is taken over.  The files of a workspace *)
(* are its Blobs, the database the names of them in source_blobs.  A       *)
(* manifest is the number of the attempt that wrote it.                    *)
(***************************************************************************)
EXTENDS Workload, Sequences

CONSTANTS
    Blobs,       \* archived files
    Roots        \* target roots of restores

VARIABLES
    stored, named,  \* the files that are there and those that source_blobs names
    holder,      \* the process that holds the maintenance lock
    backups,     \* operation_backups with the directory of each
    restores,    \* restore plans with the staging directory of each
    targets,     \* the workspaces that were restored
    unsettled,   \* attempts while a purge had taken a file that is, or will be, named
    remade       \* ready backups whose job runs again

backupVars == <<stored, named, holder, backups, restores, targets, unsettled, remade>>

Nothing == [manifest |-> 0, named |-> {}, stored |-> {}]

BackupInit ==
    /\ stored = {} /\ named = {} /\ holder = {} /\ backups = <<>> /\ restores = <<>>
    /\ targets = [t \in Roots |-> Nothing] /\ unsettled = {} /\ remade = {}

\* Mutant: the lock of another command is not respected.
LockedAnyway(p, kind, r) == Launch(p, kind, r) /\ holder' = holder \cup {p}
\* acquireMaintenanceLock refuses while another command holds the lock.
Locked(p, kind, r) ==
    /\ Launch(p, kind, IF holder = {} THEN r ELSE Idle)
    /\ holder' = IF holder = {} THEN {p} ELSE holder
Unlocked(p) == Finish(p) /\ holder' = holder \ {p}

-----------------------------------------------------------------------------
(* createWorkspaceBackup *)

Saving == {p \in Busy : "backup" \in DOMAIN proc[p]}
Purging == {p \in Busy : "victim" \in DOMAIN proc[p]}
Naming == {proc[p].blob : p \in {q \in Busy : "blob" \in DOMAIN proc[q]}}

\* The row of an earlier attempt of the job is used again, whatever its state.
CreateBackup(p) ==
    \E kind \in {"backup", "again"}, b \in 1 .. Len(backups) + 1 :
        /\ kind = "backup" <=> b > Len(backups)
        /\ LET manifest == used["backup"] + used["again"] + 1
           IN /\ Locked(p, kind, [pc |-> "b:serialize", backup |-> b, image |-> [Nothing EXCEPT !.manifest = manifest]])
              /\ unsettled' = IF Purging # {} \/ ~ named \cup Naming \subseteq stored
                               THEN unsettled \cup {manifest} ELSE unsettled
        /\ backups' = IF holder = {} /\ kind = "backup"
                      THEN Append(backups, [state |-> "creating", manifest |-> 0, dir |-> Nothing]) ELSE backups
        /\ remade' = IF kind = "again" /\ holder = {} /\ backups[b].state = "ready" THEN remade \cup {b} ELSE remade
        /\ UNCHANGED <<stored, named, restores, targets>>

Image(p, pc, image) ==
    /\ Become(p, [proc[p] EXCEPT !.pc = pc, !.image = image])
    /\ UNCHANGED backupVars
Serialize(p) == At(p, "b:serialize") /\ Image(p, "b:copy", [proc[p].image EXCEPT !.named = named])
CopyFiles(p) == At(p, "b:copy") /\ Image(p, "b:remove", [proc[p].image EXCEPT !.stored = stored])

Directory(p, content) ==
    /\ backups' = [backups EXCEPT ![proc[p].backup].dir = content]
    /\ UNCHANGED <<stored, named, holder, restores, targets, unsettled, remade>>
RemoveFinal(p) == At(p, "b:remove") /\ Move(p, "b:place") /\ Directory(p, Nothing)
PlaceFinal(p) == At(p, "b:place") /\ Move(p, "b:ready") /\ Directory(p, proc[p].image)
CommitBackup(p) ==
    /\ At(p, "b:ready") /\ Unlocked(p)
    /\ backups' = [backups EXCEPT ![proc[p].backup].state = "ready",
                                  ![proc[p].backup].manifest = proc[p].image.manifest]
    /\ remade' = remade \ {proc[p].backup}
    /\ UNCHANGED <<stored, named, restores, targets, unsettled>>
\* A step throws; the catch block and the finally block.
FailBackup(p) ==
    /\ p \in Saving /\ Spend("throw") /\ Set(p, Idle) /\ UNCHANGED limit
    /\ holder' = holder \ {p}
    /\ backups' = [backups EXCEPT ![proc[p].backup].state = "failed"]
    /\ UNCHANGED <<stored, named, restores, targets, unsettled, remade>>

-----------------------------------------------------------------------------
(* createBackupRestorePlan and applyBackupRestorePlan *)

\* verifyWorkspaceBackup: the row is ready, the manifest has its hash and every
\* file of it is there.
Verified(b) == backups[b].state = "ready" /\ backups[b].dir.manifest = backups[b].manifest

PlanRestore ==
    \E b \in DOMAIN backups, t \in Roots :
        /\ Verified(b) /\ targets[t] = Nothing /\ Elsewhere("rplan")
        /\ restores' = Append(restores, [backup |-> b, target |-> t, manifest |-> backups[b].manifest,
                                         applied |-> FALSE, staging |-> FALSE])
        /\ UNCHANGED <<stored, named, holder, backups, targets, unsettled, remade>>

\* A plan that was applied throws before the try block, with the lock; its owner exits.
ApplyRestore(p) ==
    /\ \E r \in DOMAIN restores :
         IF restores[r].applied THEN Launch(p, "bapply", Idle) /\ UNCHANGED holder
         ELSE Locked(p, "bapply", [pc |-> "b:check", restore |-> r, image |-> Nothing])
    /\ UNCHANGED <<stored, named, backups, restores, targets, unsettled, remade>>

PlanOf(p) == restores[proc[p].restore]
Staging(p, there) == restores' = [restores EXCEPT ![proc[p].restore].staging = there]

\* Mutant: the hash of the manifest is not compared.
AsVerified(p) == Verified(PlanOf(p).backup)
AsPlanned(p) == Verified(PlanOf(p).backup) /\ backups[PlanOf(p).backup].manifest = PlanOf(p).manifest

CheckRestore(p) ==
    /\ At(p, "b:check")
    /\ IF targets[PlanOf(p).target] = Nothing /\ ~ PlanOf(p).staging /\ AsPlanned(p)
       THEN Staging(p, TRUE) /\ Move(p, "b:fill") /\ UNCHANGED holder
       ELSE Staging(p, FALSE) /\ Unlocked(p)
    /\ UNCHANGED <<stored, named, backups, targets, unsettled, remade>>

\* verifyWorkspaceDeep: the files that the database names are there.
DeepPass(image) == image.named \subseteq image.stored

\* Copy and validate; the deep verification of the copy, which the catch block removes.
FillStaging(p) ==
    /\ At(p, "b:fill")
    /\ LET image == backups[PlanOf(p).backup].dir
       IN IF DeepPass(image)
          THEN /\ Become(p, [proc[p] EXCEPT !.pc = "b:install", !.image = image])
               /\ UNCHANGED <<holder, restores>>
          ELSE Staging(p, FALSE) /\ Unlocked(p)
    /\ UNCHANGED <<stored, named, backups, targets, unsettled, remade>>
InstallTarget(p) ==
    /\ At(p, "b:install") /\ Move(p, "b:restored") /\ Staging(p, FALSE)
    /\ targets' = [targets EXCEPT ![PlanOf(p).target] = proc[p].image]
    /\ UNCHANGED <<stored, named, holder, backups, unsettled, remade>>
CommitRestore(p) ==
    /\ At(p, "b:restored") /\ Unlocked(p)
    /\ restores' = [restores EXCEPT ![proc[p].restore].applied = TRUE]
    /\ UNCHANGED <<stored, named, backups, targets, unsettled, remade>>
FailRestore(p) ==
    /\ p \in Busy /\ proc[p].pc \in {"b:fill", "b:install", "b:restored"}
    /\ Spend("throw") /\ Set(p, Idle) /\ UNCHANGED limit
    /\ holder' = holder \ {p} /\ Staging(p, FALSE)
    /\ UNCHANGED <<stored, named, backups, targets, unsettled, remade>>

-----------------------------------------------------------------------------
(* Archives and purges, in the order of their files and rows *)

Stored(files, names) ==
    /\ stored' = files /\ named' = names
    /\ UNCHANGED <<holder, backups, restores, targets, remade>>
StoreBlob(p) ==
    \E b \in Blobs \ stored :
        /\ \A q \in Purging : proc[q].victim # b
        /\ Launch(p, "archive", [pc |-> "b:name", blob |-> b])
        /\ Stored(stored \cup {b}, named) /\ UNCHANGED unsettled
NameBlob(p) ==
    /\ At(p, "b:name") /\ Finish(p)
    /\ Stored(stored, named \cup {proc[p].blob}) /\ UNCHANGED unsettled
\* purgeSource stages the file, deletes the rows and unlinks, or moves it back.
StageVictim(p) ==
    \E b \in named \cap stored :
        /\ Launch(p, "purge", [pc |-> "b:drop", victim |-> b])
        /\ Stored(stored \ {b}, named)
        /\ unsettled' = unsettled \cup {proc[q].image.manifest : q \in Saving}
DropRow(p) ==
    /\ At(p, "b:drop") /\ Finish(p)
    /\ \/ Stored(stored, named \ {proc[p].victim})
       \/ Stored(stored \cup {proc[p].victim}, named)
    /\ UNCHANGED unsettled

BackupStep(p) ==
    \/ CreateBackup(p) \/ Serialize(p) \/ CopyFiles(p) \/ RemoveFinal(p) \/ PlaceFinal(p)
    \/ CommitBackup(p) \/ FailBackup(p) \/ ApplyRestore(p) \/ CheckRestore(p) \/ FillStaging(p)
    \/ InstallTarget(p) \/ CommitRestore(p) \/ FailRestore(p)
    \/ StoreBlob(p) \/ NameBlob(p) \/ StageVictim(p) \/ DropRow(p)
=============================================================================
