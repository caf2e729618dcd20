------------------------------ MODULE Operations ------------------------------
(***************************************************************************)
(* The commands that change, save, restore and set up a workspace: plans,  *)
(* undo and restore over the rows and the files of the notes; backups;     *)
(* the migration of the database; the daemon's lease; initialization and    *)
(* configuration.                                                          *)
(* Each behaviour has the commands its bounds give it, step by step, with  *)
(* failures and kills.                                                     *)
(***************************************************************************)
EXTENDS NoteFiles, DaemonLease, DatabaseMigration, BackupRestore, WorkspaceInit, WorkspaceConfig

\* What the commands count: themselves, what happens elsewhere, and faults.
Counted == {"plan", "undo", "expire", "apply", "cancel", "restore", "moderate", "touch", "update",
            "fault", "throw", "daemon", "beat", "stop", "lapse", "migration", "migrate", "commit",
            "backup", "again", "rplan", "bapply", "archive", "purge",
            "init", "resume", "use", "rollback", "unmake", "config"}
ASSUME CountedAssumption == Counted \subseteq Kinds

VARIABLE
    spoiled      \* notes with a file that no property speaks of

otherVars == <<daemonVars, migrationVars, backupVars, initVars, configVars>>
vars == <<workVars, planVars, noteVars, otherVars, spoiled>>

Init ==
    /\ WorkInit /\ MutationInit /\ NoteInit
    /\ DaemonInit /\ MigrationInit /\ BackupInit /\ WorkspaceInitial /\ ConfigInit
    /\ spoiled = {}

NoteAndPlanStep ==
    /\ \/ /\ \/ PlanDelete
             \/ PlanUndo
             \/ Expire
             \/ Touch
             \/ \E p \in Procs : PlanStep(p)
          /\ UNCHANGED noteVars
       \/ PlanMove
       \/ \E p \in Procs : NoteStep(p)
    /\ UNCHANGED otherVars

DaemonsStep ==
    /\ \/ StopDaemon
       \/ Lapse
       \/ \E p \in Procs : DaemonStep(p)
    /\ UNCHANGED <<planVars, noteVars, migrationVars, backupVars, initVars, configVars>>

MigrationsStep ==
    /\ \/ PlanMigration
       \/ CommitElsewhere
       \/ CheckpointLog
       \/ \E p \in Procs : MigrationStep(p)
    /\ UNCHANGED <<planVars, noteVars, daemonVars, backupVars, initVars, configVars>>

BackupsStep ==
    /\ \/ PlanRestore
       \/ \E p \in Procs : BackupStep(p)
    /\ UNCHANGED <<planVars, noteVars, daemonVars, migrationVars, initVars, configVars>>

InitsStep ==
    /\ \/ UseWorkspace
       \/ PlanRollback
       \/ \E p \in Procs : InitStep(p)
    /\ UNCHANGED <<planVars, noteVars, daemonVars, migrationVars, backupVars, configVars>>

ConfigsStep ==
    /\ \E p \in Procs : ConfigStep(p)
    /\ UNCHANGED <<planVars, noteVars, daemonVars, migrationVars, backupVars, initVars>>

\* A copy of a file may be cut short; the lock of a dead owner is free.
Kill(p) ==
    /\ Fall(p) /\ disk' \in Torn(p) /\ holder' = holder \ {p}
    /\ UNCHANGED <<planVars, noteVars, daemonVars, migrationVars, history, journals, rollback, stamp, undone>>
    /\ UNCHANGED <<stored, named, backups, restores, targets, unsettled, remade, configVars>>

Step ==
    \/ NoteAndPlanStep
    \/ DaemonsStep
    \/ MigrationsStep
    \/ BackupsStep
    \/ InitsStep
    \/ ConfigsStep
    \/ \E p \in Procs : Kill(p)

(* history for the properties *)

Updates(o) == {p \in Busy : proc[p].pc \in {"write", "sync", "record"} /\ proc[p].target = o}
CommandsAt(o) ==
    {p \in Busy : "changes" \in DOMAIN proc[p] /\ {o, NoteSource(o)} \cap DOMAIN proc[p].changes # {}}
\* A note is spoiled once an update of it meets another command, once an update
\* has written its file and does not succeed, once a move is killed halfway, and
\* once another command takes the file that a move has renamed and not settled.
Spoils(o) ==
    \/ \E u \in Updates(o), p \in Updates(o) \cup CommandsAt(o) : u # p
    \/ \E p \in Updates(o) : ~ At(p, "write") /\ proc'[p] = Idle /\ body'[o] # proc[p].body
    \/ \E p \in CommandsAt(o) : /\ proc[p].back /\ proc'[p] = Idle
                                /\ used'["fault"] # used["fault"]
    \/ \E p \in CommandsAt(o) : proc[p].back /\ proc'[p] = proc[p] /\ files'[o] # files[o]

Next == Step /\ spoiled' = spoiled \cup {o \in Notes : Spoils(o)}

Spec == Init /\ [][Next]_vars

(* properties *)

AtRest == Busy = {}

TypeOK ==
    /\ \A r \in Rows : DOMAIN row[r] = Columns[KindOf[r]] /\ DOMAIN base[r] = Columns[KindOf[r]]
    /\ \A i \in DOMAIN plans : /\ plans[i].state \in {"ready", "applied", "expired", "cancelled"}
                               /\ DOMAIN plans[i].changes \subseteq Rows
    /\ \A o \in DOMAIN ops : ops[o].undoOf \in 0 .. o - 1
    /\ files \in [Notes -> [Dirs -> Bodies \cup {0}]]
    /\ lease.live => lease.instance # 0
    /\ main.version \in {1, 2} /\ main.commits \cup wal \subseteq made
    /\ Cardinality(holder) <= 1
    /\ \A b \in DOMAIN backups : backups[b].state \in {"creating", "ready", "failed"}
    /\ \A path \in Paths : disk[path] \in {Absent, Release, Partial, Changed} \cup 1 .. used["init"]
    /\ toml \in Settings /\ {v[1] : v \in versions} = 1 .. Cardinality(versions)

\* An operation stands unless an operation that stands has taken it back.
Standing ==
    LET Stands[o \in DOMAIN ops] == \A u \in UndoneBy(o) : ~ Stands[u]
    IN {o \in DOMAIN ops : Stands[o]}

\* A row that no standing operation has changed is, in every column but its
\* version, what the changes alone that the other commands made to it have left,
\* whatever was deleted and taken back in which order, restored, moderated and
\* changed by others meanwhile.  It is also what those commands would have left
\* without any operation, unless an operation made a statement of theirs change
\* the row, or pass it by, that would not have otherwise: an answer that a plan
\* holds stale is passed by, and comes back active.
UndoneLeavesNoTrace ==
    LET changed == UNION {DOMAIN ops[o].changes : o \in {x \in Standing : ops[x].undoOf = 0}}
    IN \A r \in Rows \ changed : \A c \in Columns[KindOf[r]] \ {"version"} :
            /\ row[r][c] = base[r][c]
            /\ r \notin swayed => row[r][c] = without[r][c]

\* At rest an active note has one file, where its row and the locator of its
\* Source say, with the content of its last update, which is archived: after
\* moves that conflict or are undone, by any number of commands at once.
NotesAreWhereTheySay ==
    AtRest =>
        \A o \in Notes \ spoiled : row[o].state = "active" =>
            /\ row[NoteSource(o)].path = row[o].path
            /\ files[o] = [d \in Dirs |-> IF d = row[o].path THEN body[o] ELSE 0]
            /\ archived[o] = body[o]

\* Daemons do not lead together unless the lease of one has lapsed under it.
Leading == {p \in Daemons : proc[p].pc \in {"d:recover", "d:scan", "d:beat", "d:read"}}
OneDaemon ==
    \A p, q \in Leading : p # q => adopted \/ {proc[p].daemon, proc[q].daemon} \cap slept # {}

\* Migrations that come one after another lose no commit: what is not in the
\* database is in a backup of a migration, and that only after a kill.
CommitsSurvive ==
    ~ overlap =>
        /\ made \subseteq main.commits \cup wal \cup UNION {migrations[m].backup.commits : m \in DOMAIN migrations}
        /\ AtRest /\ used["fault"] = 0 => made = main.commits \cup wal

\* A backup that is ready has its directory, with every file that its database
\* names unless a purge ran meanwhile; a restored workspace is the backup that
\* its plan has seen, and lacks no file.
BackupsAreWhole ==
    /\ \A b \in DOMAIN backups \ remade : backups[b].state = "ready" =>
         /\ Verified(b)
         /\ backups[b].manifest \notin unsettled => DeepPass(backups[b].dir)
    /\ \A t \in Roots : targets[t] # Nothing =>
         /\ DeepPass(targets[t])
         /\ \E r \in DOMAIN restores : restores[r].target = t /\ restores[r].manifest = targets[t].manifest

\* A workspace that is published is complete after any kills and resumptions,
\* unless a rollback removed files of it, before it was resumed or after, or of a
\* run that an init plan started over an earlier one; and runs that were all rolled
\* back, without a kill, leave none of their files.
InitIsAllOrNothing ==
    AtRest =>
        /\ Published /\ ~ undone =>
             /\ disk["db"] \in {disk["config"], Changed} /\ disk["config"] \in history
             /\ \A path \in Copied : disk[path] = Release
        /\ journals = <<>> /\ used["fault"] = 0 =>
             history = {} /\ \A path \in Paths : disk[path] \in {Absent, Partial}

\* Every version of the configuration keeps its file, also when commands race for
\* the next number, unless two of them wrote the same content; and after commands
\* that came one after another, some of which failed, self.toml is the latest
\* version and only versions have files.
ConfigIsRecorded ==
    /\ versions \ twins \subseteq saved
    /\ AtRest /\ ~ mixed /\ used["fault"] = 0 => toml = Newest[2] /\ saved = versions
=============================================================================
