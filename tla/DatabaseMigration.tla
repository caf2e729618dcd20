-------------------------- MODULE DatabaseMigration --------------------------
(***************************************************************************)
(* The migration of the database: a plan with the digest of what the       *)
(* database serializes to, a backup file, a migrated copy, and the swap of *)
(* the copy for the database file after its log is removed.                *)
(*                                                                         *)
(* A database is its schema version and its commits; what is committed is  *)
(* in the -wal file until a connection closes and checkpoints it.          *)
(***************************************************************************)
EXTENDS Workload, Sequences

VARIABLES
    main,        \* data/self.sqlite3: its schema version and commits
    wal,         \* commits that are only in its -wal file
    migrations,  \* migration plans: the commits they have seen, their backup file
                 \* and their temporary database
    made,        \* every commit there was
    overlap      \* two migrations were applied at the same time

migrationVars == <<main, wal, migrations, made, overlap>>

Missing == [version |-> 0, commits |-> {}]
Serialized == [main EXCEPT !.commits = @ \cup wal]

\* A database of an earlier program, which may have been killed before it closed.
MigrationInit ==
    /\ main = [version |-> 1, commits |-> {1}] /\ wal \in (IF limit.count["migration"] = 0 THEN {{}} ELSE {{}, {2}})
    /\ migrations = <<>> /\ made = main.commits \cup wal /\ overlap = FALSE

\* createDatabaseMigrationPlan
PlanMigration ==
    /\ main.version = 1 /\ Elsewhere("migration")
    /\ migrations' = Append(migrations, [seen |-> Serialized.commits, backup |-> Missing, temporary |-> Missing])
    /\ UNCHANGED <<main, wal, made, overlap>>

Migrating == {p \in Busy : "migration" \in DOMAIN proc[p]}

\* applyDatabaseMigrationPlan serializes the database and compares; there is no
\* lock and no record that a plan was applied.
ApplyMigration(p) ==
    \E m \in DOMAIN migrations :
        /\ Launch(p, "migrate", IF main.version = 1 /\ migrations[m].seen = Serialized.commits
                                THEN [pc |-> "m:backup", migration |-> m, image |-> Serialized] ELSE Idle)
        /\ overlap' = (overlap \/ Migrating # {})
        /\ UNCHANGED <<main, wal, migrations, made>>

Temporary(p, database) == migrations' = [migrations EXCEPT ![proc[p].migration].temporary = database]

\* Mutant: the backup is a copy of the database file without its log.
CopyMain(p) ==
    /\ At(p, "m:backup") /\ Move(p, "m:copy")
    /\ migrations' = [migrations EXCEPT ![proc[p].migration].backup = main] /\ UNCHANGED <<main, wal, made, overlap>>
WriteBackup(p) ==
    /\ At(p, "m:backup") /\ Move(p, "m:copy")
    /\ migrations' = [migrations EXCEPT ![proc[p].migration].backup = proc[p].image]
    /\ UNCHANGED <<main, wal, made, overlap>>
WriteTemporary(p) ==
    /\ At(p, "m:copy") /\ Move(p, "m:migrate")
    /\ Temporary(p, proc[p].image) /\ UNCHANGED <<main, wal, made, overlap>>
\* migrateDatabase and the operation, whose id is in the plan: a copy that has it
\* already is refused, as one that is gone.
Migrate(p) ==
    /\ At(p, "m:migrate")
    /\ IF migrations[proc[p].migration].temporary.version = 1
       THEN Move(p, "m:load") /\ Temporary(p, [proc[p].image EXCEPT !.version = 2])
       ELSE Finish(p) /\ UNCHANGED migrations
    /\ UNCHANGED <<main, wal, made, overlap>>
Load(p) ==
    /\ At(p, "m:load")
    /\ LET copy == migrations[proc[p].migration].temporary
       IN IF copy = Missing THEN Finish(p)
          ELSE Become(p, [proc[p] EXCEPT !.pc = "m:log", !.image = copy])
    /\ UNCHANGED migrationVars
RemoveLog(p) ==
    /\ At(p, "m:log") /\ Move(p, "m:swap")
    /\ wal' = {} /\ UNCHANGED <<main, migrations, made, overlap>>
Swap(p) ==
    /\ At(p, "m:swap") /\ Move(p, "m:clean")
    /\ main' = proc[p].image /\ UNCHANGED <<wal, migrations, made, overlap>>
RemoveTemporary(p) ==
    /\ At(p, "m:clean") /\ Finish(p)
    /\ Temporary(p, Missing) /\ UNCHANGED <<main, wal, made, overlap>>

\* A command of this program: openWorkspaceDatabase writes to a current schema only.
CommitElsewhere ==
    /\ main.version = 2 /\ Elsewhere("commit")
    /\ wal' = wal \cup {used["commit"] + 3} /\ made' = made \cup wal'
    /\ UNCHANGED <<main, migrations, overlap>>
\* The last connection that can write closes.
CheckpointLog ==
    /\ main.version = 2 /\ wal # {}
    /\ main' = Serialized /\ wal' = {} /\ UNCHANGED <<workVars, migrations, made, overlap>>

MigrationStep(p) ==
    \/ ApplyMigration(p) \/ WriteBackup(p) \/ WriteTemporary(p) \/ Migrate(p) \/ Load(p)
    \/ RemoveLog(p) \/ Swap(p) \/ RemoveTemporary(p)
=============================================================================
