--------------------------- MODULE OperationsProofs ---------------------------
(***************************************************************************)
(* Proofs about Operations, whatever the processes, the bounds and the     *)
(* kinds of commands: the configuration, the daemon's lease, the migration *)
(* of the database, the backups and the initialization.                    *)
(*                                                                         *)
(* The processes share one program counter, so that a proof has two parts. *)
(* Shapes says which fields a process has at which step and, with it, each *)
(* component's steps are a frame for the others (the ...Acts lemmas,       *)
(* StepGroups, ...Frame).  Then each component has an inductive invariant  *)
(* (ConfigInv, DaemonInv, MigrationsInv, BackupsInv, InitsInv) that its    *)
(* own steps keep, one lemma to a step or to steps that are alike.         *)
(***************************************************************************)
EXTENDS Operations, FiniteSetTheorems, TLAPS

-----------------------------------------------------------------------------
(* The steps of each component, the fields of its commands, and what the   *)
(* steps of the others leave alone.                                        *)

MovePC      == {"describe", "hash", "check", "rename", "back", "verify", "commit", "cancel"}
UpdatePC    == {"write", "sync", "record"}
PlanPC      == MovePC \cup UpdatePC
DaemonPC    == {"d:open", "d:reopen", "d:pid", "d:inspect", "d:remove", "d:acquire", "d:recover",
                "d:scan", "d:beat", "d:read", "d:release", "d:unlock"}
MigrationPC == {"m:backup", "m:copy", "m:migrate", "m:load", "m:log", "m:swap", "m:clean"}
SavePC      == {"b:serialize", "b:copy", "b:remove", "b:place", "b:ready"}
RestorePC   == {"b:check", "b:fill", "b:install", "b:restored"}
BackupPC    == SavePC \cup RestorePC \cup {"b:name", "b:drop"}
InitPC      == {"i:make", "i:complete", "i:unmake"}
ConfigPC    == {"c:latest", "c:save", "c:write", "c:commit", "c:back", "c:remove"}

Has(c, PC, fields) == c.pc \in PC /\ DOMAIN c = fields

PlanShape(c) ==
    \/ Has(c, MovePC, {"pc", "plan", "changes", "undoOf", "reversible", "action", "target", "move", "back"})
    \/ Has(c, UpdatePC, {"pc", "target", "body", "version", "path"})
DaemonShape(c) == Has(c, DaemonPC, {"pc", "daemon", "mine", "once", "stop"})
MigrationShape(c) == Has(c, MigrationPC, {"pc", "migration", "image"})
BackupShape(c) ==
    \/ Has(c, SavePC, {"pc", "backup", "image"})
    \/ Has(c, RestorePC, {"pc", "restore", "image"})
    \/ Has(c, {"b:name"}, {"pc", "blob"})
    \/ Has(c, {"b:drop"}, {"pc", "victim"})
InitShape(c) ==
    \/ Has(c, {"i:make", "i:complete"}, {"pc", "journal", "todo"})
    \/ Has(c, {"i:unmake"}, {"pc", "todo"})
ConfigShape(c) == Has(c, ConfigPC, {"pc", "old", "new", "version"})

Shape(c) ==
    \/ c = Idle
    \/ PlanShape(c) \/ DaemonShape(c) \/ MigrationShape(c) \/ BackupShape(c)
    \/ InitShape(c) \/ ConfigShape(c)

\* Every process is at a step of one component, or idle.
Shapes ==
    /\ DOMAIN proc = Procs /\ \A p \in Procs : Shape(proc[p])
    /\ used \in [Kinds -> Nat] /\ limit \in Limits

\* A process takes a step of a component, or none does.
PlanSlot(c) == c = Idle \/ PlanShape(c)
DaemonSlot(c) == c = Idle \/ DaemonShape(c)
MigrationSlot(c) == c = Idle \/ MigrationShape(c)
BackupSlot(c) == c = Idle \/ BackupShape(c)
InitSlot(c) == c = Idle \/ InitShape(c)
ConfigSlot(c) == c = Idle \/ ConfigShape(c)

PlanMoves == \A q \in Procs : proc'[q] = proc[q] \/ (PlanSlot(proc[q]) /\ PlanSlot(proc'[q]))
DaemonMoves == \A q \in Procs : proc'[q] = proc[q] \/ (DaemonSlot(proc[q]) /\ DaemonSlot(proc'[q]))
MigrationMoves ==
    \A q \in Procs : proc'[q] = proc[q] \/ (MigrationSlot(proc[q]) /\ MigrationSlot(proc'[q]))
BackupMoves == \A q \in Procs : proc'[q] = proc[q] \/ (BackupSlot(proc[q]) /\ BackupSlot(proc'[q]))
InitMoves == \A q \in Procs : proc'[q] = proc[q] \/ (InitSlot(proc[q]) /\ InitSlot(proc'[q]))
ConfigMoves == \A q \in Procs : proc'[q] = proc[q] \/ (ConfigSlot(proc[q]) /\ ConfigSlot(proc'[q]))

\* Nothing is counted but what K names.
Counts(K) == \A k \in Kinds : IF k \in K THEN used[k] <= used'[k] ELSE used'[k] = used[k]

AllPC == {"idle"} \cup PlanPC \cup DaemonPC \cup MigrationPC \cup BackupPC \cup InitPC \cup ConfigPC

\* The step tells the component.
LEMMA ShapeOf ==
    ASSUME NEW c, Shape(c)
    PROVE  /\ c.pc = "idle" => c = Idle
           /\ c.pc \in PlanPC => PlanShape(c)
           /\ c.pc \in DaemonPC => DaemonShape(c)
           /\ c.pc \in MigrationPC => MigrationShape(c)
           /\ c.pc \in BackupPC => BackupShape(c)
           /\ c.pc \in InitPC => InitShape(c)
           /\ c.pc \in ConfigPC => ConfigShape(c)
           /\ c.pc \in AllPC
BY DEF Shape, Idle, PlanShape, DaemonShape, MigrationShape, BackupShape, InitShape, ConfigShape,
       Has, AllPC, PlanPC, MovePC, UpdatePC, DaemonPC, MigrationPC, BackupPC, SavePC, RestorePC,
       InitPC, ConfigPC

\* So do the fields.
LEMMA FieldsTell ==
    ASSUME NEW c, Shape(c)
    PROVE  /\ "daemon" \in DOMAIN c => DaemonShape(c)
           /\ "migration" \in DOMAIN c => MigrationShape(c)
           /\ "backup" \in DOMAIN c => c.pc \in SavePC /\ BackupShape(c)
           /\ "victim" \in DOMAIN c => c.pc = "b:drop" /\ BackupShape(c)
           /\ "changes" \in DOMAIN c => c.pc \in MovePC /\ PlanShape(c)
BY DEF Shape, Idle, PlanShape, DaemonShape, MigrationShape, BackupShape, InitShape, ConfigShape, Has

\* One process gets a new command or step.
LEMMA SetDoes ==
    ASSUME Shapes, NEW p \in Procs, NEW r, Set(p, r)
    PROVE  /\ DOMAIN proc' = Procs /\ proc'[p] = r
           /\ \A q \in Procs : q # p => proc'[q] = proc[q]
BY DEF Set, Shapes

LEMMA SpendDoes ==
    ASSUME Shapes, NEW k \in Counted, Spend(k)
    PROVE  /\ used' \in [Kinds -> Nat] /\ used'[k] = used[k] + 1
           /\ \A j \in Kinds : j # k => used'[j] = used[j]
BY CountedAssumption DEF Spend, Shapes

LEMMA CountsFrom ==
    ASSUME Shapes, NEW K \in SUBSET Counted, UNCHANGED used \/ \E k \in K : Spend(k)
    PROVE  used' \in [Kinds -> Nat] /\ Counts(K)
<1>1. CASE UNCHANGED used
  BY <1>1 DEF Shapes, Counts
<1>2. ASSUME NEW k \in K, Spend(k) PROVE used' \in [Kinds -> Nat] /\ Counts(K)
  BY <1>2, SpendDoes, CountedAssumption DEF Counts, Shapes
<1> QED
  BY <1>1, <1>2

DaemonKinds == {"daemon", "beat", "stop", "lapse"}

LEMMA DaemonGoes ==
    ASSUME NEW c, DaemonShape(c), NEW pc \in DaemonPC
    PROVE  /\ DaemonShape([c EXCEPT !.pc = pc])
           /\ \A m : DaemonShape([c EXCEPT !.pc = pc, !.mine = m])
           /\ DaemonShape([c EXCEPT !.stop = TRUE])
BY DEF DaemonShape, Has

LEMMA DaemonSets ==
    ASSUME Shapes, NEW p \in Procs, NEW r, DaemonSlot(proc[p]), DaemonSlot(r), Set(p, r)
    PROVE  DOMAIN proc' = Procs /\ DaemonMoves
BY SetDoes DEF DaemonMoves

LEMMA DaemonActs ==
    ASSUME Shapes, DaemonsStep
    PROVE  /\ limit' = limit /\ DOMAIN proc' = Procs /\ DaemonMoves
           /\ UNCHANGED used \/ \E k \in DaemonKinds : Spend(k)
<1> DEFINE Goal == /\ limit' = limit /\ DOMAIN proc' = Procs /\ DaemonMoves
                   /\ UNCHANGED used \/ \E k \in DaemonKinds : Spend(k)
<1>1. CASE StopDaemon
  <2> DEFINE r(p) == IF proc[p].once \/ At(p, "d:recover") THEN Idle
                     ELSE [proc[p] EXCEPT !.stop = TRUE]
  <2>1. PICK p \in Daemons : Set(p, r(p))
    BY <1>1 DEF StopDaemon
  <2>2. p \in Procs /\ DaemonShape(proc[p])
    BY <2>1, FieldsTell DEF Daemons, Busy, Shapes
  <2>3. DaemonSlot(r(p))
    BY <2>2, DaemonGoes DEF DaemonSlot, DaemonPC
  <2>4. limit' = limit /\ Spend("stop")
    BY <1>1 DEF StopDaemon
  <2> HIDE DEF r
  <2>5. DOMAIN proc' = Procs /\ DaemonMoves
    BY <2>1, <2>2, <2>3, DaemonSets DEF DaemonSlot
  <2> QED
    BY <2>4, <2>5 DEF DaemonKinds
<1>2. CASE Lapse
  BY <1>2 DEF Lapse, Elsewhere, DaemonKinds, DaemonMoves, Shapes
<1>3. ASSUME NEW p \in Procs, DaemonStep(p) PROVE Goal
  <2>0. Shape(proc[p])
    BY DEF Shapes
  <2>1. CASE RunDaemon(p)
    <3>1. PICK once \in BOOLEAN :
             Launch(p, "daemon", [pc |-> "d:open", daemon |-> used["daemon"] + 1, mine |-> NoLease,
                                  once |-> once, stop |-> FALSE])
      BY <2>1 DEF RunDaemon
    <3> DEFINE r == [pc |-> "d:open", daemon |-> used["daemon"] + 1, mine |-> NoLease,
                     once |-> once, stop |-> FALSE]
    <3>2. DaemonShape(r)
      BY DEF DaemonShape, Has, DaemonPC
    <3>3. proc[p] = Idle /\ Spend("daemon") /\ Set(p, r) /\ limit' = limit
      BY <2>0, <3>1, ShapeOf DEF Launch, At
    <3> HIDE DEF r
    <3> QED
      BY <3>2, <3>3, DaemonSets DEF DaemonKinds, DaemonSlot
  <2>2. CASE ~ RunDaemon(p)
    <3>1. proc[p].pc \in DaemonPC
      BY <1>3, <2>2 DEF DaemonStep, OpenLock, WritePid, InspectLock, RemoveLock, AcquireLease,
         RecoverScans, ScanRound, Heartbeat, ReadLease, ReleaseLease, Unlock, At, DaemonPC
    <3>2. DaemonShape(proc[p])
      BY <2>0, <3>1, ShapeOf
    <3>3. /\ UNCHANGED limit
          /\ UNCHANGED used \/ Spend("beat")
          /\ \/ Set(p, Idle)
             \/ \E pc \in DaemonPC : Set(p, [proc[p] EXCEPT !.pc = pc])
             \/ \E pc \in DaemonPC : \E m : Set(p, [proc[p] EXCEPT !.pc = pc, !.mine = m])
      <4>1. CASE OpenLock(p) \/ WritePid(p) \/ InspectLock(p) \/ RemoveLock(p)
        BY <4>1 DEF OpenLock, WritePid, InspectLock, RemoveLock, Move, Goto, Finish, Become, DaemonPC
      <4>2. CASE AcquireLease(p) \/ ReadLease(p)
        BY <4>2 DEF AcquireLease, ReadLease, Move, Goto, Become, DaemonPC
      <4>3. CASE RecoverScans(p) \/ ScanRound(p) \/ Heartbeat(p) \/ ReleaseLease(p) \/ Unlock(p)
        BY <4>3 DEF RecoverScans, ScanRound, Heartbeat, ReleaseLease, Unlock, Move, Goto, Finish,
                    Become, DaemonPC
      <4> QED
        BY <1>3, <2>2, <4>1, <4>2, <4>3 DEF DaemonStep
    <3>4. \E r : DaemonSlot(r) /\ Set(p, r)
      BY <3>2, <3>3, DaemonGoes DEF DaemonSlot
    <3>5. DOMAIN proc' = Procs /\ DaemonMoves
      BY <3>2, <3>4, DaemonSets DEF DaemonSlot
    <3> QED
      BY <3>3, <3>5 DEF DaemonKinds
  <2> QED
    BY <2>1, <2>2
<1> QED
  BY <1>1, <1>2, <1>3 DEF DaemonsStep

-----------------------------------------------------------------------------
ConfigKinds == {"config", "throw"}

LEMMA ConfigSets ==
    ASSUME Shapes, NEW p \in Procs, NEW r, ConfigSlot(proc[p]), ConfigSlot(r), Set(p, r)
    PROVE  DOMAIN proc' = Procs /\ ConfigMoves
BY SetDoes DEF ConfigMoves

LEMMA ConfigActs ==
    ASSUME Shapes, ConfigsStep
    PROVE  /\ limit' = limit /\ DOMAIN proc' = Procs /\ ConfigMoves
           /\ UNCHANGED used \/ \E k \in ConfigKinds : Spend(k)
<1>1. PICK p \in Procs : ConfigStep(p)
  BY DEF ConfigsStep
<1>2. Shape(proc[p])
  BY DEF Shapes
<1>3. CASE ReadConfig(p)
  <2>1. PICK new \in Settings :
           Launch(p, "config", [pc |-> "c:latest", old |-> toml, new |-> new, version |-> 0])
    BY <1>3 DEF ReadConfig
  <2> DEFINE r == [pc |-> "c:latest", old |-> toml, new |-> new, version |-> 0]
  <2>2. ConfigShape(r)
    BY DEF ConfigShape, Has, ConfigPC
  <2>3. proc[p] = Idle /\ Spend("config") /\ Set(p, r) /\ limit' = limit
    BY <1>2, <2>1, ShapeOf DEF Launch, At
  <2> HIDE DEF r
  <2> QED
    BY <2>2, <2>3, ConfigSets DEF ConfigKinds, ConfigSlot
<1>4. CASE ~ ReadConfig(p)
  <2>1. proc[p].pc \in ConfigPC
    BY <1>1, <1>4 DEF ConfigStep, ReadLatest, SaveHistory, WriteConfig, CommitConfig, WriteBack,
       RemoveHistory, ConfigThrows, At, ConfigPC
  <2>2. ConfigShape(proc[p])
    BY <1>2, <2>1, ShapeOf
  <2>3. /\ UNCHANGED limit
        /\ UNCHANGED used \/ Spend("throw")
        /\ \/ Set(p, Idle)
           \/ \E pc \in ConfigPC : Set(p, [proc[p] EXCEPT !.pc = pc])
           \/ \E pc \in ConfigPC : \E v : Set(p, [proc[p] EXCEPT !.pc = pc, !.version = v])
    BY <1>1, <1>4 DEF ConfigStep, ReadLatest, SaveHistory, WriteConfig, CommitConfig, WriteBack,
       RemoveHistory, ConfigThrows, Move, Goto, Finish, Become, ConfigPC
  <2>4. \E r : ConfigSlot(r) /\ Set(p, r)
    BY <2>2, <2>3 DEF ConfigSlot, ConfigShape, Has
  <2>5. DOMAIN proc' = Procs /\ ConfigMoves
    BY <2>2, <2>4, ConfigSets DEF ConfigSlot
  <2> QED
    BY <2>3, <2>5 DEF ConfigKinds
<1> QED
  BY <1>3, <1>4

MigrationKinds == {"migration", "migrate", "commit"}

LEMMA MigrationSets ==
    ASSUME Shapes, NEW p \in Procs, NEW r, MigrationSlot(proc[p]), MigrationSlot(r), Set(p, r)
    PROVE  DOMAIN proc' = Procs /\ MigrationMoves
BY SetDoes DEF MigrationMoves

LEMMA MigrationActs ==
    ASSUME Shapes, MigrationsStep
    PROVE  /\ limit' = limit /\ DOMAIN proc' = Procs /\ MigrationMoves
           /\ UNCHANGED used \/ \E k \in MigrationKinds : Spend(k)
<1> DEFINE Goal == /\ limit' = limit /\ DOMAIN proc' = Procs /\ MigrationMoves
                   /\ UNCHANGED used \/ \E k \in MigrationKinds : Spend(k)
<1>1. CASE PlanMigration \/ CommitElsewhere \/ CheckpointLog
  BY <1>1 DEF PlanMigration, CommitElsewhere, CheckpointLog, Elsewhere, workVars, MigrationKinds,
              MigrationMoves, Shapes
<1>2. ASSUME NEW p \in Procs, MigrationStep(p) PROVE Goal
  <2>0. Shape(proc[p])
    BY DEF Shapes
  <2>1. CASE ApplyMigration(p)
    <3>1. PICK m \in DOMAIN migrations :
             Launch(p, "migrate", IF main.version = 1 /\ migrations[m].seen = Serialized.commits
                                  THEN [pc |-> "m:backup", migration |-> m, image |-> Serialized]
                                  ELSE Idle)
      BY <2>1 DEF ApplyMigration
    <3> DEFINE r == IF main.version = 1 /\ migrations[m].seen = Serialized.commits
                    THEN [pc |-> "m:backup", migration |-> m, image |-> Serialized] ELSE Idle
    <3>2. MigrationSlot(r)
      BY DEF MigrationSlot, MigrationShape, Has, MigrationPC
    <3>3. proc[p] = Idle /\ Spend("migrate") /\ Set(p, r) /\ limit' = limit
      BY <2>0, <3>1, ShapeOf DEF Launch, At
    <3> HIDE DEF r
    <3> QED
      BY <3>2, <3>3, MigrationSets DEF MigrationKinds, MigrationSlot
  <2>2. CASE ~ ApplyMigration(p)
    <3>1. proc[p].pc \in MigrationPC
      BY <1>2, <2>2 DEF MigrationStep, WriteBackup, WriteTemporary, Migrate, Load, RemoveLog, Swap,
         RemoveTemporary, At, MigrationPC
    <3>2. MigrationShape(proc[p])
      BY <2>0, <3>1, ShapeOf
    <3>3. /\ UNCHANGED <<limit, used>>
          /\ \/ Set(p, Idle)
             \/ \E pc \in MigrationPC : Set(p, [proc[p] EXCEPT !.pc = pc])
             \/ \E pc \in MigrationPC : \E x : Set(p, [proc[p] EXCEPT !.pc = pc, !.image = x])
      BY <1>2, <2>2 DEF MigrationStep, WriteBackup, WriteTemporary, Migrate, Load, RemoveLog, Swap,
         RemoveTemporary, Move, Goto, Finish, Become, MigrationPC
    <3>4. \E r : MigrationSlot(r) /\ Set(p, r)
      BY <3>2, <3>3 DEF MigrationSlot, MigrationShape, Has
    <3>5. DOMAIN proc' = Procs /\ MigrationMoves
      BY <3>2, <3>4, MigrationSets DEF MigrationSlot
    <3> QED
      BY <3>3, <3>5
  <2> QED
    BY <2>1, <2>2
<1> QED
  BY <1>1, <1>2 DEF MigrationsStep

BackupKinds == {"backup", "again", "throw", "rplan", "bapply", "archive", "purge"}

LEMMA BackupSets ==
    ASSUME Shapes, NEW p \in Procs, NEW r, BackupSlot(proc[p]), BackupSlot(r), Set(p, r)
    PROVE  DOMAIN proc' = Procs /\ BackupMoves
BY SetDoes DEF BackupMoves

LEMMA BackupStarts ==
    ASSUME Shapes, NEW p \in Procs, NEW k \in BackupKinds, NEW r, BackupShape(r),
           Launch(p, k, r) \/ Launch(p, k, Idle) \/ Locked(p, k, r)
    PROVE  /\ limit' = limit /\ DOMAIN proc' = Procs /\ BackupMoves
           /\ \E j \in BackupKinds : Spend(j)
<1>1. \E x : (x = r \/ x = Idle) /\ Launch(p, k, x)
  BY DEF Locked
<1>2. PICK x : (x = r \/ x = Idle) /\ Launch(p, k, x)
  BY <1>1
<1>3. Shape(proc[p])
  BY DEF Shapes
<1>4. proc[p] = Idle /\ Set(p, x) /\ Spend(k) /\ limit' = limit
  BY <1>2, <1>3, ShapeOf DEF Launch, At
<1>5. BackupSlot(x) /\ BackupSlot(proc[p])
  BY <1>2, <1>4 DEF BackupSlot
<1>6. DOMAIN proc' = Procs /\ BackupMoves
  BY <1>4, <1>5, BackupSets
<1> QED
  BY <1>4, <1>6

LEMMA BackupGoes ==
    ASSUME NEW c, BackupShape(c)
    PROVE  /\ c.pc \in SavePC => \A pc \in SavePC : \A x : BackupShape([c EXCEPT !.pc = pc, !.image = x])
           /\ c.pc \in SavePC => \A pc \in SavePC : BackupShape([c EXCEPT !.pc = pc])
           /\ c.pc \in RestorePC =>
                \A pc \in RestorePC : \A x : BackupShape([c EXCEPT !.pc = pc, !.image = x])
           /\ c.pc \in RestorePC => \A pc \in RestorePC : BackupShape([c EXCEPT !.pc = pc])
BY DEF BackupShape, Has, SavePC, RestorePC

BackupLaunch(p) == CreateBackup(p) \/ ApplyRestore(p) \/ StoreBlob(p) \/ StageVictim(p)

LEMMA BackupActs ==
    ASSUME Shapes, BackupsStep
    PROVE  /\ limit' = limit /\ DOMAIN proc' = Procs /\ BackupMoves
           /\ UNCHANGED used \/ \E k \in BackupKinds : Spend(k)
<1> DEFINE Goal == /\ limit' = limit /\ DOMAIN proc' = Procs /\ BackupMoves
                   /\ UNCHANGED used \/ \E k \in BackupKinds : Spend(k)
<1>1. CASE PlanRestore
  BY <1>1 DEF PlanRestore, Elsewhere, BackupKinds, BackupMoves, Shapes
<1>2. ASSUME NEW p \in Procs, BackupStep(p) PROVE Goal
  <2>0. Shape(proc[p])
    BY DEF Shapes
  <2>1. CASE CreateBackup(p)
    <3>1. PICK kind \in {"backup", "again"}, b \in 1 .. Len(backups) + 1 :
             Locked(p, kind, [pc |-> "b:serialize", backup |-> b,
                              image |-> [Nothing EXCEPT !.manifest = used["backup"] + used["again"] + 1]])
      BY <2>1 DEF CreateBackup
    <3> DEFINE r == [pc |-> "b:serialize", backup |-> b,
                     image |-> [Nothing EXCEPT !.manifest = used["backup"] + used["again"] + 1]]
    <3>2. BackupShape(r)
      BY DEF BackupShape, Has, SavePC
    <3> HIDE DEF r
    <3>3. Locked(p, kind, r)
      BY <3>1 DEF r
    <3> QED
      BY <3>2, <3>3, BackupStarts DEF BackupKinds
  <2>2. CASE ApplyRestore(p)
    <3>1. PICK j \in DOMAIN restores :
             \/ Launch(p, "bapply", Idle)
             \/ Locked(p, "bapply", [pc |-> "b:check", restore |-> j, image |-> Nothing])
      BY <2>2 DEF ApplyRestore
    <3> DEFINE r == [pc |-> "b:check", restore |-> j, image |-> Nothing]
    <3>2. BackupShape(r)
      BY DEF BackupShape, Has, RestorePC
    <3> HIDE DEF r
    <3>3. Launch(p, "bapply", Idle) \/ Locked(p, "bapply", r)
      BY <3>1 DEF r
    <3> QED
      BY <3>2, <3>3, BackupStarts DEF BackupKinds
  <2>3. CASE StoreBlob(p)
    <3>1. PICK b \in Blobs : Launch(p, "archive", [pc |-> "b:name", blob |-> b])
      BY <2>3 DEF StoreBlob
    <3>2. BackupShape([pc |-> "b:name", blob |-> b])
      BY DEF BackupShape, Has
    <3> QED
      BY <3>1, <3>2, BackupStarts DEF BackupKinds
  <2>4. CASE StageVictim(p)
    <3>1. PICK b \in named \cap stored : Launch(p, "purge", [pc |-> "b:drop", victim |-> b])
      BY <2>4 DEF StageVictim
    <3>2. BackupShape([pc |-> "b:drop", victim |-> b])
      BY DEF BackupShape, Has
    <3> QED
      BY <3>1, <3>2, BackupStarts DEF BackupKinds
  <2>5. CASE ~ BackupLaunch(p)
    <3>1. proc[p].pc \in BackupPC /\ proc[p] # Idle
      <4>1. ASSUME p \in Saving PROVE proc[p].pc \in BackupPC
        BY <2>0, <4>1, FieldsTell DEF Saving, BackupPC
      <4>2. proc[p].pc \in BackupPC
        BY <1>2, <2>5, <4>1 DEF BackupLaunch, BackupStep, Serialize, CopyFiles, RemoveFinal, PlaceFinal,
           CommitBackup, FailBackup, CheckRestore, FillStaging, InstallTarget, CommitRestore, FailRestore,
           NameBlob, DropRow, At, BackupPC, SavePC, RestorePC
      <4> QED
        BY <4>2 DEF Idle, BackupPC, SavePC, RestorePC
    <3>2. BackupShape(proc[p])
      BY <2>0, <3>1, ShapeOf
    <3>3. /\ UNCHANGED limit
          /\ UNCHANGED used \/ Spend("throw")
          /\ \E r : BackupSlot(r) /\ Set(p, r)
      <4>1. CASE Serialize(p) \/ CopyFiles(p)
        BY <3>2, <4>1, BackupGoes DEF Serialize, CopyFiles, Image, Become, At, SavePC, BackupSlot
      <4>2. CASE RemoveFinal(p) \/ PlaceFinal(p)
        BY <3>2, <4>2, BackupGoes DEF RemoveFinal, PlaceFinal, Move, Goto, At, SavePC, BackupSlot
      <4>3. CASE CommitBackup(p) \/ FailBackup(p)
        BY <4>3 DEF CommitBackup, FailBackup, Unlocked, Finish, Become, BackupSlot
      <4>4. CASE CheckRestore(p)
        BY <3>2, <4>4, BackupGoes DEF CheckRestore, Unlocked, Finish, Become, Move, Goto, At, RestorePC,
           BackupSlot
      <4>5. CASE FillStaging(p)
        BY <3>2, <4>5, BackupGoes DEF FillStaging, Unlocked, Finish, Become, At, RestorePC, BackupSlot
      <4>6. CASE InstallTarget(p)
        BY <3>2, <4>6, BackupGoes DEF InstallTarget, Move, Goto, At, RestorePC, BackupSlot
      <4>7. CASE CommitRestore(p) \/ FailRestore(p) \/ NameBlob(p) \/ DropRow(p)
        BY <4>7 DEF CommitRestore, FailRestore, NameBlob, DropRow, Unlocked, Finish, Become, BackupSlot
      <4> QED
        BY <1>2, <2>5, <4>1, <4>2, <4>3, <4>4, <4>5, <4>6, <4>7 DEF BackupLaunch, BackupStep
    <3>5. DOMAIN proc' = Procs /\ BackupMoves
      BY <3>2, <3>3, BackupSets DEF BackupSlot
    <3> QED
      BY <3>3, <3>5 DEF BackupKinds
  <2> QED
    BY <2>1, <2>2, <2>3, <2>4, <2>5 DEF BackupLaunch
<1> QED
  BY <1>1, <1>2 DEF BackupsStep

-----------------------------------------------------------------------------
InitKinds == {"init", "resume", "throw", "use", "rollback", "unmake"}

LEMMA InitSets ==
    ASSUME Shapes, NEW p \in Procs, NEW r, InitSlot(proc[p]), InitSlot(r), Set(p, r)
    PROVE  DOMAIN proc' = Procs /\ InitMoves
BY SetDoes DEF InitMoves

LEMMA InitStarts ==
    ASSUME Shapes, NEW p \in Procs, NEW k \in InitKinds, NEW r, InitSlot(r), Launch(p, k, r)
    PROVE  /\ limit' = limit /\ DOMAIN proc' = Procs /\ InitMoves
           /\ \E j \in InitKinds : Spend(j)
<1>1. Shape(proc[p])
  BY DEF Shapes
<1>2. proc[p] = Idle /\ Set(p, r) /\ Spend(k) /\ limit' = limit
  BY <1>1, ShapeOf DEF Launch, At
<1>3. DOMAIN proc' = Procs /\ InitMoves
  BY <1>2, InitSets DEF InitSlot
<1> QED
  BY <1>2, <1>3

InitLaunch(p) == StartInit(p) \/ ResumeInit(p) \/ ApplyRollback(p)

LEMMA InitGoes ==
    ASSUME NEW c, InitShape(c)
    PROVE  /\ c.pc # "i:unmake" => \A j, todo : InitShape([c EXCEPT !.todo = todo, !.journal = j])
           /\ \A todo : InitShape([c EXCEPT !.todo = todo])
           /\ \A j : InitShape(Run(j))
           /\ \A j, todo : InitShape([pc |-> "i:complete", journal |-> j, todo |-> todo])
           /\ \A todo : InitShape([pc |-> "i:unmake", todo |-> todo])
BY DEF InitShape, Has, Run

LEMMA InitRecords ==
    /\ \A j : InitSlot(Run(j))
    /\ \A j, todo : InitSlot([pc |-> "i:complete", journal |-> j, todo |-> todo])
    /\ \A todo : InitSlot([pc |-> "i:unmake", todo |-> todo])
    /\ InitSlot(Idle)
BY DEF InitShape, Has, Run, InitSlot

LEMMA InitActs ==
    ASSUME Shapes, InitsStep
    PROVE  /\ limit' = limit /\ DOMAIN proc' = Procs /\ InitMoves
           /\ UNCHANGED used \/ \E k \in InitKinds : Spend(k)
<1> DEFINE Goal == /\ limit' = limit /\ DOMAIN proc' = Procs /\ InitMoves
                   /\ UNCHANGED used \/ \E k \in InitKinds : Spend(k)
<1>1. CASE UseWorkspace \/ PlanRollback
  BY <1>1 DEF UseWorkspace, PlanRollback, Elsewhere, InitKinds, InitMoves, Shapes
<1>2. ASSUME NEW p \in Procs, InitStep(p) PROVE Goal
  <2>0. Shape(proc[p])
    BY DEF Shapes
  <2>1. CASE InitLaunch(p)
    <3>1. \E k \in InitKinds : \E r : InitSlot(r) /\ Launch(p, k, r)
      <4>1. CASE StartInit(p)
        BY <4>1, InitRecords DEF StartInit, InitKinds
      <4>2. CASE ResumeInit(p)
        BY <4>2, InitRecords DEF ResumeInit, InitKinds
      <4>3. CASE ApplyRollback(p)
        BY <4>3, InitRecords DEF ApplyRollback, InitKinds
      <4> QED
        BY <2>1, <4>1, <4>2, <4>3 DEF InitLaunch
    <3> QED
      BY <3>1, InitStarts
  <2>2. CASE ~ InitLaunch(p)
    <3>1. proc[p].pc \in InitPC
      BY <1>2, <2>2 DEF InitLaunch, InitStep, CopyRelease, CheckDraft, WriteHistory, PlaceDatabase,
         PublishConfig, Checkpoint, CompleteInit, ThrowInit, UnmakeFile, UnmakeHistory, FinishRollback,
         Making, Unmaking, At, InitPC
    <3>2. InitShape(proc[p])
      BY <2>0, <3>1, ShapeOf
    <3>3. /\ UNCHANGED limit
          /\ UNCHANGED used \/ Spend("throw")
          /\ \E r : InitSlot(r) /\ Set(p, r)
      <4>1. CASE CopyRelease(p)
        BY <3>2, <4>1, InitGoes, InitRecords DEF CopyRelease, CatchInit, Proceed, Finish, Become, Making,
           At, InitSlot
      <4>2. CASE CheckDraft(p)
        BY <3>2, <4>2, InitGoes, InitRecords DEF CheckDraft, CatchInit, Proceed, Finish, Become, Making,
           At, InitSlot
      <4>3. CASE WriteHistory(p) \/ PlaceDatabase(p) \/ PublishConfig(p)
        BY <3>2, <4>3, InitGoes DEF WriteHistory, PlaceDatabase, PublishConfig, Place, Proceed, Become,
           Making, At, InitSlot
      <4>4. CASE Checkpoint(p)
        BY <4>4, InitRecords DEF Checkpoint, Become
      <4>5. CASE CompleteInit(p) \/ ThrowInit(p) \/ FinishRollback(p)
        BY <4>5, InitRecords DEF CompleteInit, ThrowInit, FinishRollback, Finish, Become
      <4>6. CASE UnmakeFile(p) \/ UnmakeHistory(p)
        BY <3>2, <4>6, InitGoes, InitRecords DEF UnmakeFile, UnmakeHistory, Removed, Finish, Become,
           InitSlot
      <4> QED
        BY <1>2, <2>2, <4>1, <4>2, <4>3, <4>4, <4>5, <4>6 DEF InitLaunch, InitStep
    <3>5. DOMAIN proc' = Procs /\ InitMoves
      BY <3>2, <3>3, InitSets DEF InitSlot
    <3> QED
      BY <3>3, <3>5 DEF InitKinds
  <2> QED
    BY <2>1, <2>2
<1> QED
  BY <1>1, <1>2 DEF InitsStep

-----------------------------------------------------------------------------
PlanKinds == {"plan", "undo", "expire", "apply", "cancel", "restore", "moderate", "touch", "update"}

LEMMA PlanSets ==
    ASSUME Shapes, NEW p \in Procs, NEW r, PlanSlot(proc[p]), PlanSlot(r), Set(p, r)
    PROVE  DOMAIN proc' = Procs /\ PlanMoves
BY SetDoes DEF PlanMoves

LEMMA PlanStarts ==
    ASSUME Shapes, NEW p \in Procs, NEW k \in PlanKinds, NEW r, PlanSlot(r), Launch(p, k, r)
    PROVE  /\ limit' = limit /\ DOMAIN proc' = Procs /\ PlanMoves
           /\ \E j \in PlanKinds : Spend(j)
<1>1. Shape(proc[p])
  BY DEF Shapes
<1>2. proc[p] = Idle /\ Set(p, r) /\ Spend(k) /\ limit' = limit
  BY <1>1, ShapeOf DEF Launch, At
<1>3. DOMAIN proc' = Procs /\ PlanMoves
  BY <1>2, PlanSets DEF PlanSlot
<1> QED
  BY <1>2, <1>3

LEMMA PlanGoes ==
    ASSUME NEW c, PlanShape(c)
    PROVE  /\ c.pc \in MovePC => \A pc \in MovePC : \A x : PlanShape([c EXCEPT !.pc = pc, !.back = x])
           /\ c.pc \in MovePC => \A pc \in MovePC : PlanShape([c EXCEPT !.pc = pc])
           /\ c.pc \in UpdatePC => \A pc \in UpdatePC : PlanShape([c EXCEPT !.pc = pc])
BY DEF PlanShape, Has, MovePC, UpdatePC

LEMMA PlanRecords ==
    /\ \A pc \in MovePC : \A i : PlanSlot(Command(pc, i))
    /\ \A pc \in MovePC : \A pl, ch, u, rev, act, x, m, b :
         PlanSlot([pc |-> pc, plan |-> pl, changes |-> ch, undoOf |-> u, reversible |-> rev,
                   action |-> act, target |-> x, move |-> m, back |-> b])
    /\ \A x, b, v, d :
         PlanSlot([pc |-> "write", target |-> x, body |-> b, version |-> v, path |-> d])
    /\ PlanSlot(Idle)
BY DEF PlanShape, Has, MovePC, UpdatePC, Command, PlanSlot

PlanLaunch(p) == Apply(p) \/ Cancel(p) \/ Restore(p) \/ Moderate(p) \/ Update(p)

LEMMA PlanActs ==
    ASSUME Shapes, NoteAndPlanStep
    PROVE  /\ limit' = limit /\ DOMAIN proc' = Procs /\ PlanMoves
           /\ UNCHANGED used \/ \E k \in PlanKinds : Spend(k)
<1> DEFINE Goal == /\ limit' = limit /\ DOMAIN proc' = Procs /\ PlanMoves
                   /\ UNCHANGED used \/ \E k \in PlanKinds : Spend(k)
<1>1. CASE PlanDelete \/ PlanUndo \/ Expire \/ Touch \/ PlanMove
  <2>1. \E k \in PlanKinds : Elsewhere(k)
    BY <1>1 DEF PlanDelete, PlanUndo, Expire, Touch, PlanMove, PlanKinds
  <2> QED
    BY <2>1 DEF Elsewhere, PlanMoves, Shapes
<1>2. ASSUME NEW p \in Procs, PlanStep(p) \/ NoteStep(p) PROVE Goal
  <2>0. Shape(proc[p])
    BY DEF Shapes
  <2>1. CASE PlanLaunch(p)
    <3>1. \E k \in PlanKinds : \E r : PlanSlot(r) /\ Launch(p, k, r)
      <4>1. CASE Apply(p)
        <5>1. PICK i \in DOMAIN plans :
                 Launch(p, "apply", IF plans[i].expired THEN Idle
                              ELSE Command(IF plans[i].move = NoMove THEN "verify"
                                           ELSE IF plans[i].action = "move" THEN "describe" ELSE "check", i))
          BY <4>1 DEF Apply
        <5>2. \A pc \in MovePC : PlanSlot(Command(pc, i))
          BY PlanRecords
        <5> QED
          BY <5>1, <5>2, PlanRecords DEF PlanKinds, MovePC
      <4>2. CASE Cancel(p)
        BY <4>2, PlanRecords DEF Cancel, PlanKinds, MovePC
      <4>3. CASE Restore(p)
        BY <4>3, PlanRecords DEF Restore, PlanKinds, MovePC
      <4>4. CASE Moderate(p)
        BY <4>4, PlanRecords DEF Moderate, PlanKinds, MovePC
      <4>5. CASE Update(p)
        BY <4>5, PlanRecords DEF Update, PlanKinds, MovePC
      <4> QED
        BY <2>1, <4>1, <4>2, <4>3, <4>4, <4>5 DEF PlanLaunch
    <3> QED
      BY <3>1, PlanStarts
  <2>2. CASE ~ PlanLaunch(p)
    <3>1. proc[p].pc \in PlanPC
      BY <1>2, <2>2 DEF PlanLaunch, PlanStep, NoteStep, Verify, Commit, CancelWrite, Describe,
         HashSource, CheckUndo, Rename, MoveBack, WriteNote, SyncNote, RecordNote, At, PlanPC, MovePC,
         UpdatePC
    <3>2. PlanShape(proc[p])
      BY <2>0, <3>1, ShapeOf
    <3>3. UNCHANGED <<limit, used>> /\ \E r : PlanSlot(r) /\ Set(p, r)
      <4>1. CASE Verify(p)
        BY <3>2, <4>1, PlanGoes DEF Verify, Conflict, Move, Goto, Finish, Become, At, MovePC, PlanSlot
      <4>2. CASE Commit(p)
        BY <3>2, <4>2, PlanGoes DEF Commit, Conflict, Move, Goto, Finish, Become, At, MovePC, PlanSlot
      <4>3. CASE CancelWrite(p) \/ MoveBack(p) \/ RecordNote(p)
        BY <4>3 DEF CancelWrite, MoveBack, RecordNote, Finish, Become, PlanSlot
      <4>4. CASE Describe(p) \/ HashSource(p) \/ CheckUndo(p)
        BY <3>2, <4>4, PlanGoes DEF Describe, HashSource, CheckUndo, Move, Goto, Finish, Become, At,
           MovePC, PlanSlot
      <4>5. CASE Rename(p)
        BY <3>2, <4>5, PlanGoes DEF Rename, Finish, Become, At, MovePC, PlanSlot
      <4>6. CASE WriteNote(p) \/ SyncNote(p)
        BY <3>2, <4>6, PlanGoes DEF WriteNote, SyncNote, Move, Goto, Finish, Become, At, UpdatePC,
           PlanSlot
      <4> QED
        BY <1>2, <2>2, <4>1, <4>2, <4>3, <4>4, <4>5, <4>6 DEF PlanLaunch, PlanStep, NoteStep
    <3>5. DOMAIN proc' = Procs /\ PlanMoves
      BY <3>2, <3>3, PlanSets DEF PlanSlot
    <3> QED
      BY <3>3, <3>5
  <2> QED
    BY <2>1, <2>2
<1> QED
  BY <1>1, <1>2 DEF NoteAndPlanStep

-----------------------------------------------------------------------------
(* All of the steps *)

\* A process is killed.
KillMoves == \A q \in Procs : proc'[q] = proc[q] \/ proc'[q] = Idle
Killed == \E p \in Procs : Kill(p)

LEMMA KillActs ==
    ASSUME Shapes, NEW p \in Procs, Kill(p)
    PROVE  /\ limit' = limit /\ DOMAIN proc' = Procs /\ Spend("fault")
           /\ proc'[p] = Idle /\ \A q \in Procs : q # p => proc'[q] = proc[q]
BY SetDoes DEF Kill, Fall

LEMMA ShapesStep ==
    ASSUME Shapes, Step
    PROVE  Shapes'
<1>1. CASE NoteAndPlanStep
  <2>1. \A q \in Procs : Shape(proc'[q])
    BY <1>1, PlanActs DEF PlanMoves, PlanSlot, Shape, Shapes
  <2> QED
    BY <1>1, <2>1, PlanActs, CountsFrom DEF Shapes, PlanKinds, Counted
<1>2. CASE DaemonsStep
  <2>1. \A q \in Procs : Shape(proc'[q])
    BY <1>2, DaemonActs DEF DaemonMoves, DaemonSlot, Shape, Shapes
  <2> QED
    BY <1>2, <2>1, DaemonActs, CountsFrom DEF Shapes, DaemonKinds, Counted
<1>3. CASE MigrationsStep
  <2>1. \A q \in Procs : Shape(proc'[q])
    BY <1>3, MigrationActs DEF MigrationMoves, MigrationSlot, Shape, Shapes
  <2> QED
    BY <1>3, <2>1, MigrationActs, CountsFrom DEF Shapes, MigrationKinds, Counted
<1>4. CASE BackupsStep
  <2>1. \A q \in Procs : Shape(proc'[q])
    BY <1>4, BackupActs DEF BackupMoves, BackupSlot, Shape, Shapes
  <2> QED
    BY <1>4, <2>1, BackupActs, CountsFrom DEF Shapes, BackupKinds, Counted
<1>5. CASE InitsStep
  <2>1. \A q \in Procs : Shape(proc'[q])
    BY <1>5, InitActs DEF InitMoves, InitSlot, Shape, Shapes
  <2> QED
    BY <1>5, <2>1, InitActs, CountsFrom DEF Shapes, InitKinds, Counted
<1>6. CASE ConfigsStep
  <2>1. \A q \in Procs : Shape(proc'[q])
    BY <1>6, ConfigActs DEF ConfigMoves, ConfigSlot, Shape, Shapes
  <2> QED
    BY <1>6, <2>1, ConfigActs, CountsFrom DEF Shapes, ConfigKinds, Counted
<1>7. ASSUME NEW p \in Procs, Kill(p) PROVE Shapes'
  <2>1. \A q \in Procs : Shape(proc'[q])
    BY <1>7, KillActs DEF Shape, Shapes
  <2> QED
    BY <1>7, <2>1, KillActs, SpendDoes DEF Shapes, Counted
<1> QED
  BY <1>1, <1>2, <1>3, <1>4, <1>5, <1>6, <1>7 DEF Step

LEMMA ShapesInit ==
    ASSUME Init
    PROVE  Shapes
BY DEF Init, WorkInit, Shapes, Shape

LEMMA ShapesHold == Spec => []Shapes
<1>1. Shapes /\ [Next]_vars => Shapes'
  <2>1. Shapes /\ UNCHANGED vars => Shapes'
    BY DEF Shapes, vars, workVars
  <2> QED
    BY <2>1, ShapesStep DEF Next
<1> QED
  BY <1>1, ShapesInit, PTL DEF Spec

\* Which component a step belongs to.
LEMMA StepGroups ==
    ASSUME Shapes, Step
    PROVE  /\ \/ NoteAndPlanStep /\ PlanMoves
              \/ DaemonsStep /\ DaemonMoves
              \/ MigrationsStep /\ MigrationMoves
              \/ BackupsStep /\ BackupMoves
              \/ InitsStep /\ InitMoves
              \/ ConfigsStep /\ ConfigMoves
              \/ (\E p \in Procs : Kill(p)) /\ KillMoves
           /\ \/ used'["fault"] = used["fault"]
              \/ (\E p \in Procs : Kill(p)) /\ used'["fault"] = used["fault"] + 1
<1> "fault" \in Kinds /\ "fault" \in Counted
  BY CountedAssumption DEF Counted
<1>1. CASE NoteAndPlanStep
  <2>1. PlanMoves /\ (UNCHANGED used \/ \E k \in PlanKinds : Spend(k))
    BY <1>1, PlanActs
  <2>2. PlanKinds \subseteq Counted /\ "fault" \notin PlanKinds
    BY DEF PlanKinds, Counted
  <2>3. Counts(PlanKinds)
    BY <2>1, <2>2, CountsFrom
  <2> QED
    BY <1>1, <2>1, <2>2, <2>3 DEF Counts
<1>2. CASE DaemonsStep
  <2>1. DaemonMoves /\ (UNCHANGED used \/ \E k \in DaemonKinds : Spend(k))
    BY <1>2, DaemonActs
  <2>2. DaemonKinds \subseteq Counted /\ "fault" \notin DaemonKinds
    BY DEF DaemonKinds, Counted
  <2>3. Counts(DaemonKinds)
    BY <2>1, <2>2, CountsFrom
  <2> QED
    BY <1>2, <2>1, <2>2, <2>3 DEF Counts
<1>3. CASE MigrationsStep
  <2>1. MigrationMoves /\ (UNCHANGED used \/ \E k \in MigrationKinds : Spend(k))
    BY <1>3, MigrationActs
  <2>2. MigrationKinds \subseteq Counted /\ "fault" \notin MigrationKinds
    BY DEF MigrationKinds, Counted
  <2>3. Counts(MigrationKinds)
    BY <2>1, <2>2, CountsFrom
  <2> QED
    BY <1>3, <2>1, <2>2, <2>3 DEF Counts
<1>4. CASE BackupsStep
  <2>1. BackupMoves /\ (UNCHANGED used \/ \E k \in BackupKinds : Spend(k))
    BY <1>4, BackupActs
  <2>2. BackupKinds \subseteq Counted /\ "fault" \notin BackupKinds
    BY DEF BackupKinds, Counted
  <2>3. Counts(BackupKinds)
    BY <2>1, <2>2, CountsFrom
  <2> QED
    BY <1>4, <2>1, <2>2, <2>3 DEF Counts
<1>5. CASE InitsStep
  <2>1. InitMoves /\ (UNCHANGED used \/ \E k \in InitKinds : Spend(k))
    BY <1>5, InitActs
  <2>2. InitKinds \subseteq Counted /\ "fault" \notin InitKinds
    BY DEF InitKinds, Counted
  <2>3. Counts(InitKinds)
    BY <2>1, <2>2, CountsFrom
  <2> QED
    BY <1>5, <2>1, <2>2, <2>3 DEF Counts
<1>6. CASE ConfigsStep
  BY <1>6, ConfigActs, CountsFrom DEF Counts, ConfigKinds, Counted
<1>7. ASSUME NEW p \in Procs, Kill(p)
      PROVE  KillMoves /\ used'["fault"] = used["fault"] + 1
  BY <1>7, KillActs, SpendDoes DEF KillMoves
<1> QED
  BY <1>1, <1>2, <1>3, <1>4, <1>5, <1>6, <1>7 DEF Step

\* A command is of one component.
LEMMA Disjoint ==
    ASSUME NEW c
    PROVE  /\ DaemonShape(c) => c # Idle /\ ~ (PlanShape(c) \/ MigrationShape(c) \/ BackupShape(c)
                                               \/ InitShape(c) \/ ConfigShape(c))
           /\ MigrationShape(c) => c # Idle /\ ~ (PlanShape(c) \/ BackupShape(c) \/ InitShape(c)
                                                  \/ ConfigShape(c))
           /\ BackupShape(c) => c # Idle /\ ~ (PlanShape(c) \/ InitShape(c) \/ ConfigShape(c))
           /\ InitShape(c) => c # Idle /\ ~ (PlanShape(c) \/ ConfigShape(c))
           /\ ConfigShape(c) => c # Idle /\ ~ PlanShape(c)
           /\ PlanShape(c) => c # Idle
BY DEF Idle, PlanShape, DaemonShape, MigrationShape, BackupShape, InitShape, ConfigShape, Has,
       MovePC, UpdatePC, DaemonPC, MigrationPC, SavePC, RestorePC, ConfigPC

-----------------------------------------------------------------------------
(* The configuration *)

\* Versions are numbered without a gap and without a double.
NumberedTo(n) ==
    /\ versions \subseteq (1 .. n) \X Settings
    /\ \A k \in 1 .. n : \E v \in versions : v[1] = k
    /\ \A v, w \in versions : v[1] = w[1] => v = w

\* The command has written the file of the version it wants.
Filed(c) == c.pc \in {"c:write", "c:commit", "c:back", "c:remove"}

ConfigTypes ==
    /\ \E n \in Nat \ {0} : NumberedTo(n)
    /\ toml \in Settings
    /\ \A p \in Setting : /\ proc[p].old \in Settings /\ proc[p].new \in Settings
                          /\ proc[p].pc # "c:latest" => proc[p].version \in 1 .. Newest[1] + 1

\* The file of a version, or of a command that has written it, is there, unless two
\* have written it; and only then do two of these share one.
FilesInv ==
    /\ versions \subseteq saved \cup twins
    /\ \A p \in Setting : Filed(proc[p]) =>
         /\ HistoryFile(proc[p]) \in saved \cup twins
         /\ HistoryFile(proc[p]) \in versions => HistoryFile(proc[p]) \in twins
         /\ \A q \in Setting : (q # p /\ Filed(proc[q]) /\ HistoryFile(proc[q]) = HistoryFile(proc[p]))
              => HistoryFile(proc[p]) \in twins

\* What a command that runs alone has done so far.
OneRun(c) ==
    /\ c.old = Newest[2]
    /\ c.pc # "c:latest" => c.version = Newest[1] + 1
    /\ c.pc \in {"c:latest", "c:save"} => saved = versions
    /\ Filed(c) => saved = versions \cup {HistoryFile(c)}
    /\ c.pc \in {"c:latest", "c:save", "c:write", "c:remove"} => toml = Newest[2]
    /\ c.pc = "c:commit" => toml = c.new

SerialInv ==
    ~ mixed =>
        /\ \A p, q \in Setting : p = q
        /\ used["fault"] = 0 =>
             /\ Setting = {} => toml = Newest[2] /\ saved = versions
             /\ \A p \in Setting : OneRun(proc[p])

ConfigInv == ConfigTypes /\ FilesInv /\ SerialInv

LEMMA SettingIs ==
    ASSUME Shapes
    PROVE  \A p : p \in Setting <=> p \in Procs /\ ConfigShape(proc[p])
BY Disjoint, ShapeOf DEF Setting, Busy, Shapes, ConfigShape, ConfigPC, Has

LEMMA SettingNext ==
    ASSUME Shapes'
    PROVE  \A p : p \in Setting' <=> p \in Procs /\ ConfigShape(proc'[p])
<1>1. \A p \in Procs : Shape(proc'[p])
  BY DEF Shapes
<1> QED
  BY <1>1, Disjoint, ShapeOf DEF Setting, Busy, ConfigShape, ConfigPC, Has

\* Other commands leave the configuration alone, and only a kill ends a command of it.
LEMMA ConfigFrame ==
    ASSUME Shapes, Step, ~ ConfigsStep
    PROVE  /\ configVars' = configVars
           /\ \A q \in Procs : ConfigShape(proc'[q]) => proc'[q] = proc[q]
           /\ used'["fault"] = 0 => /\ used["fault"] = 0
                                    /\ \A q \in Procs : ConfigShape(proc[q]) => proc'[q] = proc[q]
<1>0. used["fault"] \in Nat
  BY CountedAssumption DEF Shapes, Counted
<1>1. CASE \E p \in Procs : Kill(p)
  <2>1. configVars' = configVars
    BY <1>1 DEF Kill, configVars
  <2>2. used'["fault"] = used["fault"] + 1
    BY <1>1, KillActs, SpendDoes DEF Counted
  <2> QED
    BY <1>0, <1>1, <2>1, <2>2, KillActs, Disjoint DEF Shapes
<1>2. CASE ~ \E p \in Procs : Kill(p)
  <2>1. configVars' = configVars
    BY <1>2 DEF Step, NoteAndPlanStep, DaemonsStep, MigrationsStep, BackupsStep, InitsStep, otherVars
  <2>2. used'["fault"] = used["fault"]
    BY <1>2, StepGroups
  <2>3. \A q \in Procs : (ConfigShape(proc'[q]) \/ ConfigShape(proc[q])) => proc'[q] = proc[q]
    BY <1>2, StepGroups, Disjoint DEF PlanMoves, PlanSlot, DaemonMoves, DaemonSlot, MigrationMoves,
       MigrationSlot, BackupMoves, BackupSlot, InitMoves, InitSlot
  <2> QED
    BY <2>1, <2>2, <2>3
<1> QED
  BY <1>1, <1>2

LEMMA NewestIs ==
    ASSUME NEW n \in Nat \ {0}, NumberedTo(n)
    PROVE  /\ Newest \in versions /\ Newest[1] = n /\ Newest[2] \in Settings
           /\ \A v \in versions : v = <<v[1], v[2]>> /\ v[1] \in 1 .. n /\ v[2] \in Settings
<1>1. \A v \in versions : v = <<v[1], v[2]>> /\ v[1] \in 1 .. n /\ v[2] \in Settings
  BY DEF NumberedTo
<1>2. PICK v \in versions : v[1] = n
  BY DEF NumberedTo
<1>3. \A w \in versions : w[1] <= v[1]
  BY <1>1, <1>2
<1>4. Newest \in versions /\ \A w \in versions : w[1] <= Newest[1]
  BY <1>2, <1>3 DEF Newest
<1> QED
  BY <1>1, <1>2, <1>4

\* What is left of the invariant when nothing but the commands changes.
LEMMA ConfigKept ==
    ASSUME Shapes, Shapes', ConfigInv, configVars' = configVars,
           \A q \in Procs : ConfigShape(proc'[q]) => proc'[q] = proc[q],
           used'["fault"] = 0 => /\ used["fault"] = 0
                                 /\ \A q \in Procs : ConfigShape(proc[q]) => proc'[q] = proc[q]
    PROVE  ConfigInv'
<1>1. /\ toml' = toml /\ versions' = versions /\ saved' = saved /\ twins' = twins /\ mixed' = mixed
      /\ Newest' = Newest
  BY DEF configVars, Newest
<1>2. \A q \in Setting' : q \in Setting /\ proc'[q] = proc[q]
  BY SettingIs, SettingNext
<1>3. used'["fault"] = 0 => used["fault"] = 0 /\ Setting' = Setting
  BY SettingIs, SettingNext
<1>4. ConfigTypes'
  BY <1>1, <1>2 DEF ConfigInv, ConfigTypes, NumberedTo
<1>5. FilesInv'
  BY <1>1, <1>2 DEF ConfigInv, FilesInv, Filed, HistoryFile
<1>6. SerialInv'
  <2>1. ASSUME NEW q \in Setting', OneRun(proc[q]) PROVE OneRun(proc[q])'
    BY <1>1, <1>2, <2>1 DEF OneRun, Filed, HistoryFile
  <2> QED
    BY <1>1, <1>2, <1>3, <2>1 DEF ConfigInv, SerialInv
<1> QED
  BY <1>4, <1>5, <1>6 DEF ConfigInv

\* A command that takes a step: the others and the faults stay.
LEMMA ConfigMover ==
    ASSUME Shapes, Shapes', ConfigsStep, NEW p \in Procs, ConfigStep(p)
    PROVE  /\ \A q : q # p => /\ q \in Setting' <=> q \in Setting
                              /\ q \in Setting => proc'[q] = proc[q]
           /\ used'["fault"] = used["fault"] /\ used["fault"] \in Nat
           /\ p \in Setting' <=> ConfigShape(proc'[p])
           /\ p \in Setting <=> ConfigShape(proc[p])
<1>1. \E r : Set(p, r)
  BY DEF ConfigStep, ReadConfig, ReadLatest, SaveHistory, WriteConfig, CommitConfig, WriteBack,
     RemoveHistory, ConfigThrows, Launch, Move, Goto, Finish, Become
<1>2. \A q \in Procs : q # p => proc'[q] = proc[q]
  BY <1>1, SetDoes
<1>3. used'["fault"] = used["fault"] /\ used["fault"] \in Nat
  <2>1. ConfigKinds \subseteq Counted /\ "fault" \notin ConfigKinds
    BY DEF ConfigKinds, Counted
  <2>2. Counts(ConfigKinds)
    BY <2>1, ConfigActs, CountsFrom
  <2> QED
    BY <2>1, <2>2, CountedAssumption DEF Counts, Counted, Shapes
<1> QED
  BY <1>2, <1>3, SettingIs, SettingNext

\* A command goes on, and what it is about stays.
LEMMA ConfigGoes ==
    ASSUME Shapes, Shapes', ConfigsStep, NEW p \in Procs, ConfigStep(p), NEW pc \in ConfigPC,
           ConfigShape(proc[p]), Goto(p, pc)
    PROVE  /\ p \in Setting /\ p \in Setting' /\ proc'[p].pc = pc
           /\ proc'[p].old = proc[p].old /\ proc'[p].new = proc[p].new
           /\ proc'[p].version = proc[p].version
           /\ HistoryFile(proc[p])' = HistoryFile(proc[p])
           /\ Setting' = Setting
<1>1. proc'[p] = [proc[p] EXCEPT !.pc = pc]
  BY SetDoes DEF Goto
<1>2. ConfigShape(proc'[p])
  BY <1>1 DEF ConfigShape, Has
<1>3. /\ proc'[p].pc = pc /\ proc'[p].old = proc[p].old /\ proc'[p].new = proc[p].new
      /\ proc'[p].version = proc[p].version
  BY <1>1 DEF ConfigShape, Has
<1>4. HistoryFile(proc[p])' = HistoryFile(proc[p])
  BY <1>3 DEF HistoryFile
<1>5. p \in Setting /\ p \in Setting' /\ \A q : q # p => (q \in Setting' <=> q \in Setting)
  BY <1>2, ConfigMover
<1> QED
  BY <1>3, <1>4, <1>5

LEMMA ConfigEnds ==
    ASSUME Shapes, Shapes', ConfigsStep, NEW p \in Procs, ConfigStep(p), ConfigShape(proc[p]), Finish(p)
    PROVE  p \in Setting /\ p \notin Setting' /\ Setting' = Setting \ {p}
<1>1. proc'[p] = Idle
  BY SetDoes DEF Finish, Become
<1>2. p \in Setting /\ p \notin Setting' /\ \A q : q # p => (q \in Setting' <=> q \in Setting)
  BY <1>1, ConfigMover, Disjoint
<1> QED
  BY <1>2

LEMMA ConfigAt ==
    ASSUME Shapes, NEW p \in Procs, proc[p].pc \in ConfigPC
    PROVE  ConfigShape(proc[p])
BY ShapeOf DEF Shapes

LEMMA ReadConfigKeeps ==
    ASSUME Shapes, Shapes', ConfigInv, ConfigsStep, NEW p \in Procs, ReadConfig(p)
    PROVE  ConfigInv'
<1>1. PICK new \in Settings :
         Launch(p, "config", [pc |-> "c:latest", old |-> toml, new |-> new, version |-> 0])
  BY DEF ReadConfig
<1> DEFINE r == [pc |-> "c:latest", old |-> toml, new |-> new, version |-> 0]
<1>2. proc[p].pc = "idle" /\ proc'[p] = r
  BY <1>1, SetDoes DEF Launch, At
<1>3. /\ ConfigShape(proc'[p]) /\ proc'[p].pc = "c:latest" /\ proc'[p].old = toml
      /\ proc'[p].new = new
  BY <1>2 DEF ConfigShape, Has, ConfigPC
<1> HIDE DEF r
<1>4. ~ ConfigShape(proc[p])
  BY <1>2 DEF ConfigShape, Has, ConfigPC
<1>5. ConfigStep(p)
  BY DEF ConfigStep
<1>6. /\ toml' = toml /\ versions' = versions /\ saved' = saved /\ twins' = twins /\ Newest' = Newest
      /\ mixed' = (mixed \/ Setting # {})
  BY DEF ReadConfig, Newest
<1>7. /\ p \notin Setting /\ p \in Setting'
      /\ \A q : q # p => /\ q \in Setting' <=> q \in Setting
                         /\ q \in Setting => proc'[q] = proc[q]
      /\ used'["fault"] = used["fault"]
  BY <1>3, <1>4, <1>5, ConfigMover
<1>8. ConfigTypes'
  BY <1>3, <1>6, <1>7 DEF ConfigInv, ConfigTypes, NumberedTo
<1>9. FilesInv'
  BY <1>3, <1>6, <1>7 DEF ConfigInv, FilesInv, Filed, HistoryFile
<1>10. SerialInv'
  <2>1. ASSUME ~ mixed' PROVE Setting = {} /\ Setting' = {p} /\ ~ mixed
    BY <1>6, <1>7, <2>1
  <2>2. ASSUME ~ mixed', used["fault"] = 0 PROVE OneRun(proc[p])'
    <3>1. toml = Newest[2] /\ saved = versions
      BY <2>1, <2>2 DEF ConfigInv, SerialInv
    <3> QED
      BY <1>3, <1>6, <3>1 DEF OneRun, Filed
  <2> QED
    BY <1>7, <2>1, <2>2 DEF SerialInv
<1> QED
  BY <1>8, <1>9, <1>10 DEF ConfigInv

LEMMA ReadLatestKeeps ==
    ASSUME Shapes, Shapes', ConfigInv, ConfigsStep, NEW p \in Procs, ReadLatest(p)
    PROVE  ConfigInv'
<1>1. ConfigStep(p) /\ ConfigShape(proc[p])
  BY ConfigAt DEF ConfigStep, ReadLatest, At, ConfigPC
<1>2. proc'[p] = [proc[p] EXCEPT !.pc = "c:save", !.version = Newest[1] + 1]
  BY SetDoes DEF ReadLatest, Become
<1>3. /\ ConfigShape(proc'[p]) /\ proc'[p].pc = "c:save" /\ proc'[p].old = proc[p].old
      /\ proc'[p].new = proc[p].new /\ proc'[p].version = Newest[1] + 1
  BY <1>1, <1>2 DEF ConfigShape, Has, ConfigPC
<1>6. /\ toml' = toml /\ versions' = versions /\ saved' = saved /\ twins' = twins /\ Newest' = Newest
      /\ mixed' = mixed
  BY DEF ReadLatest, configVars, Newest
<1>7. /\ p \in Setting /\ p \in Setting'
      /\ \A q : q # p => /\ q \in Setting' <=> q \in Setting
                         /\ q \in Setting => proc'[q] = proc[q]
      /\ used'["fault"] = used["fault"]
  BY <1>1, <1>3, ConfigMover
<1>70. Setting' = Setting
  BY <1>7
<1>71. Newest[1] \in Nat
  BY NewestIs DEF ConfigInv, ConfigTypes
<1>8. ConfigTypes'
  BY <1>3, <1>6, <1>7, <1>71 DEF ConfigInv, ConfigTypes, NumberedTo
<1>9. FilesInv'
  BY <1>3, <1>6, <1>7 DEF ConfigInv, FilesInv, Filed, HistoryFile
<1>10. SerialInv'
  <2>1. ASSUME ~ mixed', used["fault"] = 0 PROVE OneRun(proc[p])' /\ Setting = {p}
    <3>1. OneRun(proc[p]) /\ proc[p].pc = "c:latest" /\ Setting = {p}
      BY <1>6, <1>7, <2>1 DEF ConfigInv, SerialInv, ReadLatest, At
    <3> QED
      BY <1>3, <1>6, <3>1 DEF OneRun, Filed
  <2> QED
    BY <1>6, <1>7, <1>70, <2>1 DEF SerialInv, ConfigInv
<1> QED
  BY <1>8, <1>9, <1>10 DEF ConfigInv

LEMMA SaveHistoryKeeps ==
    ASSUME Shapes, Shapes', ConfigInv, ConfigsStep, NEW p \in Procs, SaveHistory(p)
    PROVE  ConfigInv'
<1>1. ConfigStep(p) /\ ConfigShape(proc[p]) /\ Goto(p, "c:write") /\ proc[p].pc = "c:save"
  BY ConfigAt DEF ConfigStep, SaveHistory, At, ConfigPC, Move
<1> DEFINE F == HistoryFile(proc[p])
<1>3. /\ p \in Setting /\ Setting' = Setting /\ proc'[p].pc = "c:write"
      /\ proc'[p].old = proc[p].old /\ proc'[p].new = proc[p].new
      /\ proc'[p].version = proc[p].version /\ HistoryFile(proc[p])' = F
  BY <1>1, ConfigGoes DEF ConfigPC
<1>6. /\ toml' = toml /\ versions' = versions /\ Newest' = Newest /\ mixed' = mixed
      /\ saved' = saved \cup {F} /\ twins' = twins \cup ({F} \cap saved)
  BY DEF SaveHistory, Newest
<1>7. /\ \A q \in Setting : q # p => proc'[q] = proc[q] /\ HistoryFile(proc[q])' = HistoryFile(proc[q])
      /\ used'["fault"] = used["fault"]
  BY <1>1, ConfigMover DEF HistoryFile
<1> HIDE DEF F
<1>8. ConfigTypes'
  BY <1>1, <1>3, <1>6, <1>7 DEF ConfigInv, ConfigTypes, NumberedTo
<1>9. FilesInv'
  <2>1. versions \subseteq saved \cup twins
    BY DEF ConfigInv, FilesInv
  <2>2. ASSUME NEW q \in Setting, q # p, Filed(proc[q])
        PROVE  /\ HistoryFile(proc[q]) \in saved \cup twins
               /\ HistoryFile(proc[q]) \in versions => HistoryFile(proc[q]) \in twins
               /\ HistoryFile(proc[q]) = F => F \in twins'
               /\ \A s \in Setting : (s # q /\ s # p /\ Filed(proc[s]) /\ HistoryFile(proc[s]) = HistoryFile(proc[q]))
                    => HistoryFile(proc[q]) \in twins
    BY <1>6, <2>2 DEF ConfigInv, FilesInv
  <2>3. \A q \in Setting : q # p => (Filed(proc[q])' <=> Filed(proc[q]))
    BY <1>7 DEF Filed
  <2>4. F \in versions => F \in twins'
    BY <1>6, <2>1
  <2> QED
    BY <1>3, <1>6, <1>7, <2>1, <2>2, <2>3, <2>4 DEF FilesInv
<1>10. SerialInv'
  <2>1. ASSUME ~ mixed', used["fault"] = 0 PROVE OneRun(proc[p])' /\ Setting = {p}
    <3>1. OneRun(proc[p]) /\ Setting = {p}
      BY <1>3, <1>6, <2>1 DEF ConfigInv, SerialInv
    <3> QED
      BY <1>1, <1>3, <1>6, <3>1 DEF OneRun, Filed
  <2> QED
    BY <1>3, <1>6, <1>7, <2>1 DEF SerialInv, ConfigInv
<1> QED
  BY <1>8, <1>9, <1>10 DEF ConfigInv

\* Steps that write self.toml, or none: a command with its file goes on.
LEMMA TomlKeeps ==
    ASSUME Shapes, Shapes', ConfigInv, ConfigsStep, NEW p \in Procs,
           WriteConfig(p) \/ WriteBack(p) \/ ConfigThrows(p)
    PROVE  ConfigInv'
<1>1. ConfigStep(p) /\ ConfigShape(proc[p]) /\ Filed(proc[p])
  BY ConfigAt DEF ConfigStep, WriteConfig, WriteBack, ConfigThrows, At, ConfigPC, Filed
<1>2. PICK pc \in {"c:commit", "c:back", "c:remove"} : Goto(p, pc)
  BY DEF WriteConfig, WriteBack, ConfigThrows, Move
<1>3. /\ p \in Setting /\ Setting' = Setting /\ proc'[p].pc = pc
      /\ proc'[p].old = proc[p].old /\ proc'[p].new = proc[p].new
      /\ proc'[p].version = proc[p].version /\ HistoryFile(proc[p])' = HistoryFile(proc[p])
  BY <1>1, <1>2, ConfigGoes DEF ConfigPC
<1>6. /\ versions' = versions /\ Newest' = Newest /\ mixed' = mixed
      /\ saved' = saved /\ twins' = twins
  BY DEF WriteConfig, WriteBack, ConfigThrows, Newest, configVars
<1>60. toml' \in Settings
  BY <1>3 DEF WriteConfig, WriteBack, ConfigThrows, OldContent, configVars, ConfigInv, ConfigTypes
<1>7. /\ \A q \in Setting : q # p => proc'[q] = proc[q] /\ HistoryFile(proc[q])' = HistoryFile(proc[q])
      /\ used'["fault"] = used["fault"]
  BY <1>1, ConfigMover DEF HistoryFile
<1>8. ConfigTypes'
  BY <1>1, <1>3, <1>6, <1>60, <1>7 DEF ConfigInv, ConfigTypes, NumberedTo, Filed
<1>9. FilesInv'
  <2>1. \A q \in Setting : (Filed(proc[q])' <=> Filed(proc[q])) /\ HistoryFile(proc[q])' = HistoryFile(proc[q])
    BY <1>1, <1>2, <1>3, <1>7 DEF Filed
  <2> QED
    BY <1>3, <1>6, <2>1 DEF ConfigInv, FilesInv
<1>10. SerialInv'
  <2>1. ASSUME ~ mixed', used["fault"] = 0 PROVE OneRun(proc[p])' /\ Setting = {p}
    <3>1. OneRun(proc[p]) /\ Setting = {p}
      BY <1>3, <1>6, <2>1 DEF ConfigInv, SerialInv
    <3>2. CASE WriteConfig(p)
      <4>1. toml' = proc[p].new /\ proc'[p].pc = "c:commit" /\ proc[p].pc = "c:write"
        <5>1. proc'[p] = [proc[p] EXCEPT !.pc = "c:commit"]
          BY <3>2, SetDoes DEF WriteConfig, Move, Goto
        <5> QED
          BY <1>1, <3>2, <5>1 DEF WriteConfig, At, ConfigShape, Has
      <4> QED
        BY <1>1, <1>3, <1>6, <3>1, <4>1 DEF OneRun, Filed
    <3>3. CASE WriteBack(p)
      <4>1. toml' = proc[p].old /\ proc'[p].pc = "c:remove" /\ proc[p].pc = "c:back"
        <5>1. proc'[p] = [proc[p] EXCEPT !.pc = "c:remove"]
          BY <3>3, SetDoes DEF WriteBack, Move, Goto
        <5> QED
          BY <1>1, <3>3, <5>1 DEF WriteBack, At, ConfigShape, Has, OldContent
      <4> QED
        BY <1>1, <1>3, <1>6, <3>1, <4>1 DEF OneRun, Filed
    <3>4. CASE ConfigThrows(p)
      <4>1. proc'[p].pc = "c:back"
        <5>1. proc'[p] = [proc[p] EXCEPT !.pc = "c:back"]
          BY <3>4, SetDoes DEF ConfigThrows, Goto
        <5> QED
          BY <1>1, <5>1 DEF ConfigShape, Has
      <4> QED
        BY <1>1, <1>3, <1>6, <3>1, <4>1 DEF OneRun, Filed
    <3> QED
      BY <3>1, <3>2, <3>3, <3>4
  <2> QED
    BY <1>3, <1>6, <1>7, <2>1 DEF SerialInv, ConfigInv
<1> QED
  BY <1>8, <1>9, <1>10 DEF ConfigInv

LEMMA CommitConfigKeeps ==
    ASSUME Shapes, Shapes', ConfigInv, ConfigsStep, NEW p \in Procs, CommitConfig(p)
    PROVE  ConfigInv'
<1>1. ConfigStep(p) /\ ConfigShape(proc[p]) /\ Filed(proc[p]) /\ proc[p].pc = "c:commit"
  BY ConfigAt DEF ConfigStep, CommitConfig, At, ConfigPC, Filed
<1>2. p \in Setting
  BY <1>1, ConfigMover
<1> DEFINE F == HistoryFile(proc[p])
<1>3. F = <<proc[p].version, proc[p].new>>
  BY DEF HistoryFile
<1>4. PICK n \in Nat \ {0} : NumberedTo(n)
  BY DEF ConfigInv, ConfigTypes
<1>5. Newest \in versions /\ Newest[1] = n
  BY <1>4, NewestIs
<1>6. proc[p].version \in 1 .. n + 1 /\ proc[p].new \in Settings
  BY <1>1, <1>2, <1>5 DEF ConfigInv, ConfigTypes
<1>7. /\ \A q \in Setting : q # p => proc'[q] = proc[q] /\ HistoryFile(proc[q])' = HistoryFile(proc[q])
      /\ used'["fault"] = used["fault"]
  BY <1>1, ConfigMover DEF HistoryFile
<1>8. toml' = toml /\ saved' = saved /\ twins' = twins /\ mixed' = mixed
  BY DEF CommitConfig
<1>9. F \in saved \cup twins
  BY <1>1, <1>2 DEF ConfigInv, FilesInv
<1>10. CASE \A v \in versions : v[1] # proc[p].version
  <2>1. versions' = versions \cup {F} /\ Finish(p)
    BY <1>3, <1>10 DEF CommitConfig
  <2>2. Setting' = Setting \ {p}
    BY <1>1, <2>1, ConfigEnds
  <2>3. proc[p].version = n + 1
    <3>1. \A k \in 1 .. n : k # proc[p].version
      BY <1>4, <1>10 DEF NumberedTo
    <3> QED
      BY <1>6, <3>1
  <2>4. NumberedTo(n + 1)'
    <3>1. versions' \subseteq (1 .. n + 1) \X Settings
      BY <1>3, <1>4, <1>6, <2>1, <2>3 DEF NumberedTo
    <3>2. \A k \in 1 .. n + 1 : \E v \in versions' : v[1] = k
      <4> SUFFICES ASSUME NEW k \in 1 .. n + 1 PROVE \E v \in versions' : v[1] = k
        OBVIOUS
      <4>1. CASE k = n + 1
        BY <1>3, <2>1, <2>3, <4>1
      <4>2. CASE k # n + 1
        BY <1>4, <2>1, <4>2 DEF NumberedTo
      <4> QED
        BY <4>1, <4>2
    <3>3. \A v, w \in versions' : v[1] = w[1] => v = w
      BY <1>3, <1>4, <1>10, <2>1 DEF NumberedTo
    <3> QED
      BY <3>1, <3>2, <3>3 DEF NumberedTo
  <2>5. Newest' \in versions' /\ Newest'[1] = n + 1
    <3>1. \A v \in versions' : v[1] \in Int /\ v[1] <= n + 1
      BY <2>4 DEF NumberedTo
    <3>2. F \in versions' /\ F[1] = n + 1
      BY <1>3, <2>1, <2>3
    <3>3. Newest' \in versions' /\ \A w \in versions' : w[1] <= Newest'[1]
      <4>1. Newest' = CHOOSE v \in versions' : \A w \in versions' : w[1] <= v[1]
        BY DEF Newest
      <4>2. \E v \in versions' : \A w \in versions' : w[1] <= v[1]
        BY <3>1, <3>2
      <4> QED
        BY <4>1, <4>2
    <3> QED
      BY <3>1, <3>2, <3>3
  <2>6. Newest' = F
    BY <1>3, <2>1, <2>3, <2>4, <2>5 DEF NumberedTo
  <2> HIDE DEF F
  <2>7. ConfigTypes'
    <3>1. toml' \in Settings
      BY <1>8 DEF ConfigInv, ConfigTypes
    <3>2. \A q \in Setting' : /\ proc'[q].old \in Settings /\ proc'[q].new \in Settings
                              /\ proc'[q].pc # "c:latest" => proc'[q].version \in 1 .. Newest'[1] + 1
      BY <1>5, <1>7, <2>2, <2>5 DEF ConfigInv, ConfigTypes
    <3>3. n + 1 \in Nat \ {0}
      OBVIOUS
    <3> QED
      BY <2>4, <3>1, <3>2, <3>3 DEF ConfigTypes
  <2>8. FilesInv'
    <3>1. versions' \subseteq saved' \cup twins'
      BY <1>8, <1>9, <2>1 DEF ConfigInv, FilesInv
    <3>2. ASSUME NEW q \in Setting', Filed(proc[q])
          PROVE  /\ HistoryFile(proc[q]) \in saved \cup twins
                 /\ HistoryFile(proc[q]) \in versions' => HistoryFile(proc[q]) \in twins
                 /\ \A s \in Setting' : (s # q /\ Filed(proc[s]) /\ HistoryFile(proc[s]) = HistoryFile(proc[q]))
                      => HistoryFile(proc[q]) \in twins
      BY <1>1, <1>2, <2>1, <2>2, <3>2 DEF ConfigInv, FilesInv, F
    <3>3. \A q \in Setting' : (Filed(proc[q])' <=> Filed(proc[q])) /\ HistoryFile(proc[q])' = HistoryFile(proc[q])
      BY <1>7, <2>2 DEF Filed
    <3> QED
      BY <1>8, <3>1, <3>2, <3>3 DEF FilesInv
  <2>9. SerialInv'
    <3>1. ASSUME ~ mixed', used["fault"] = 0
          PROVE  Setting' = {} /\ toml' = Newest'[2] /\ saved' = versions'
      <4>1. OneRun(proc[p]) /\ Setting = {p}
        BY <1>2, <1>8, <3>1 DEF ConfigInv, SerialInv
      <4>2. toml = proc[p].new /\ saved = versions \cup {F}
        BY <1>1, <4>1 DEF OneRun, F
      <4>3. F[2] = proc[p].new
        BY <1>3
      <4> QED
        BY <1>8, <2>1, <2>2, <2>6, <4>1, <4>2, <4>3
    <3> QED
      BY <1>7, <1>8, <2>2, <3>1 DEF SerialInv, ConfigInv
  <2> QED
    BY <2>7, <2>8, <2>9 DEF ConfigInv
<1>11. CASE ~ \A v \in versions : v[1] # proc[p].version
  <2>1. versions' = versions /\ Goto(p, "c:back")
    BY <1>11 DEF CommitConfig, Move
  <2>2. Newest' = Newest
    BY <2>1 DEF Newest
  <2>3. /\ Setting' = Setting /\ proc'[p].pc = "c:back"
        /\ proc'[p].old = proc[p].old /\ proc'[p].new = proc[p].new
        /\ proc'[p].version = proc[p].version /\ HistoryFile(proc[p])' = HistoryFile(proc[p])
    BY <1>1, <2>1, ConfigGoes DEF ConfigPC
  <2>4. ConfigTypes'
    BY <1>1, <1>7, <1>8, <2>1, <2>2, <2>3 DEF ConfigInv, ConfigTypes, NumberedTo
  <2>5. FilesInv'
    <3>1. \A q \in Setting : (Filed(proc[q])' <=> Filed(proc[q])) /\ HistoryFile(proc[q])' = HistoryFile(proc[q])
      BY <1>1, <1>7, <2>3 DEF Filed
    <3> QED
      BY <1>8, <2>1, <2>3, <3>1 DEF ConfigInv, FilesInv
  <2>6. SerialInv'
    <3>1. ~ mixed => used["fault"] # 0
      <4>1. proc[p].version <= n
        BY <1>4, <1>11 DEF NumberedTo
      <4>2. ASSUME ~ mixed, used["fault"] = 0 PROVE proc[p].version = n + 1
        BY <1>1, <1>2, <1>5, <4>2 DEF ConfigInv, SerialInv, OneRun
      <4> QED
        BY <4>1, <4>2
    <3> QED
      BY <1>7, <1>8, <2>3, <3>1 DEF SerialInv, ConfigInv
  <2> QED
    BY <2>4, <2>5, <2>6 DEF ConfigInv
<1> QED
  BY <1>10, <1>11

LEMMA RemoveHistoryKeeps ==
    ASSUME Shapes, Shapes', ConfigInv, ConfigsStep, NEW p \in Procs, RemoveHistory(p)
    PROVE  ConfigInv'
<1>1. ConfigStep(p) /\ ConfigShape(proc[p]) /\ Filed(proc[p]) /\ proc[p].pc = "c:remove" /\ Finish(p)
  BY ConfigAt DEF ConfigStep, RemoveHistory, At, ConfigPC, Filed
<1>2. p \in Setting /\ Setting' = Setting \ {p}
  BY <1>1, ConfigEnds
<1> DEFINE F == HistoryFile(proc[p])
<1>7. /\ \A q \in Setting : q # p => proc'[q] = proc[q] /\ HistoryFile(proc[q])' = HistoryFile(proc[q])
      /\ used'["fault"] = used["fault"]
  BY <1>1, ConfigMover DEF HistoryFile
<1>8. /\ toml' = toml /\ versions' = versions /\ twins' = twins /\ mixed' = mixed /\ Newest' = Newest
      /\ saved' = saved \ {F}
  BY DEF RemoveHistory, Newest
<1>9. SerialInv'
  <2>1. ASSUME ~ mixed', used["fault"] = 0
        PROVE  Setting' = {} /\ toml' = Newest'[2] /\ saved' = versions'
    <3>1. OneRun(proc[p]) /\ Setting = {p}
      BY <1>2, <1>8, <2>1 DEF ConfigInv, SerialInv
    <3>2. toml = Newest[2] /\ saved = versions \cup {F} /\ proc[p].version = Newest[1] + 1
      BY <1>1, <3>1 DEF OneRun
    <3>3. F \notin versions
      BY <3>2, NewestIs DEF ConfigInv, ConfigTypes, HistoryFile
    <3> QED
      BY <1>2, <1>8, <3>1, <3>2, <3>3
  <2> QED
    BY <1>2, <1>7, <1>8, <2>1 DEF SerialInv, ConfigInv
<1> HIDE DEF F
<1>10. ConfigTypes'
  BY <1>2, <1>7, <1>8 DEF ConfigInv, ConfigTypes, NumberedTo
<1>11. FilesInv'
  <2>1. versions' \subseteq saved' \cup twins'
    BY <1>1, <1>2, <1>8 DEF ConfigInv, FilesInv, F
  <2>2. ASSUME NEW q \in Setting', Filed(proc[q])
        PROVE  /\ HistoryFile(proc[q]) \in saved' \cup twins
               /\ HistoryFile(proc[q]) \in versions => HistoryFile(proc[q]) \in twins
               /\ \A s \in Setting' : (s # q /\ Filed(proc[s]) /\ HistoryFile(proc[s]) = HistoryFile(proc[q]))
                    => HistoryFile(proc[q]) \in twins
    BY <1>1, <1>2, <1>8, <2>2 DEF ConfigInv, FilesInv, F
  <2>3. \A q \in Setting' : (Filed(proc[q])' <=> Filed(proc[q])) /\ HistoryFile(proc[q])' = HistoryFile(proc[q])
    BY <1>2, <1>7 DEF Filed
  <2> QED
    BY <1>8, <2>1, <2>2, <2>3 DEF FilesInv
<1> QED
  BY <1>9, <1>10, <1>11 DEF ConfigInv

LEMMA ConfigStepKeeps ==
    ASSUME Shapes, Shapes', ConfigInv, Step
    PROVE  ConfigInv'
<1>1. CASE ConfigsStep
  <2>1. PICK p \in Procs : ConfigStep(p)
    BY <1>1 DEF ConfigsStep
  <2> QED
    BY <1>1, <2>1, ReadConfigKeeps, ReadLatestKeeps, SaveHistoryKeeps, TomlKeeps, CommitConfigKeeps,
       RemoveHistoryKeeps DEF ConfigStep
<1>2. CASE ~ ConfigsStep
  BY <1>2, ConfigFrame, ConfigKept
<1> QED
  BY <1>1, <1>2

LEMMA ConfigStarts ==
    ASSUME Init
    PROVE  ConfigInv
<1>1. Setting = {}
  BY DEF Init, WorkInit, Setting, Busy
<1>2. toml = 1 /\ versions = {<<1, 1>>} /\ saved = versions
  BY DEF Init, ConfigInit
<1>3. NumberedTo(1)
  BY <1>2, SettingsAssumption DEF NumberedTo
<1>4. Newest = <<1, 1>>
  BY <1>2, <1>3, NewestIs
<1> QED
  BY <1>1, <1>2, <1>3, <1>4, SettingsAssumption DEF ConfigInv, ConfigTypes, FilesInv, SerialInv

LEMMA ConfigHolds == Spec => []ConfigInv
<1>1. Shapes /\ Shapes' /\ ConfigInv /\ [Next]_vars => ConfigInv'
  <2>1. ASSUME Shapes, Shapes', ConfigInv, UNCHANGED vars PROVE ConfigInv'
    BY <2>1, ConfigKept DEF vars, workVars, otherVars
  <2> QED
    BY <2>1, ConfigStepKeeps DEF Next
<1> QED
  BY <1>1, ConfigStarts, ShapesHold, PTL DEF Spec

\* Every version of the configuration keeps its file whichever commands race for
\* its number, unless two of them wrote the same content; and after commands that
\* came one after another, self.toml is the latest version and only versions have
\* files: config set and config unset of any number of processes (mutateConfig).
THEOREM ConfigStaysRecorded == Spec => []ConfigIsRecorded
<1>1. Shapes /\ ConfigInv => ConfigIsRecorded
  BY DEF ConfigInv, FilesInv, SerialInv, ConfigIsRecorded, AtRest, Setting
<1> QED
  BY <1>1, ConfigHolds, ShapesHold, PTL

-----------------------------------------------------------------------------
(* The daemons *)

\* A daemon that leads has the number of its run in the lease it remembers, unless
\* a heartbeat has read another one; and it has the lease of the workspace, unless
\* its lease has lapsed.
DaemonInv ==
    /\ lease \in [instance : Nat, version : Nat, live : BOOLEAN]
    /\ lease = NoLease \/ lease.instance # 0
    /\ \A p \in Leading : proc[p].mine.instance # 0
    /\ \A p \in Daemons : proc[p].daemon \in 1 .. used["daemon"]
    /\ \A p, q \in Daemons : proc[p].daemon = proc[q].daemon => p = q
    /\ adopted \/ \A p \in Daemons : (p \in Leading \/ proc[p].pc = "d:release")
         => proc[p].mine.instance = proc[p].daemon
    /\ adopted \/ \A p \in Leading :
         proc[p].daemon \in slept \/ (lease.live /\ lease.instance = proc[p].daemon)

LEMMA DaemonsAre ==
    ASSUME Shapes
    PROVE  \A p : p \in Daemons <=> p \in Procs /\ DaemonShape(proc[p])
BY Disjoint, FieldsTell DEF Daemons, Busy, Shapes, DaemonShape, Has

LEMMA DaemonsNext ==
    ASSUME Shapes'
    PROVE  \A p : p \in Daemons' <=> p \in Procs /\ DaemonShape(proc'[p])
<1>1. \A p \in Procs : Shape(proc'[p])
  BY DEF Shapes
<1> QED
  BY <1>1, Disjoint, FieldsTell DEF Daemons, Busy, DaemonShape, Has

LEMMA DaemonFrame ==
    ASSUME Shapes, Step, ~ DaemonsStep
    PROVE  /\ daemonVars' = daemonVars
           /\ \A q \in Procs : DaemonShape(proc'[q]) => proc'[q] = proc[q]
           /\ used'["daemon"] = used["daemon"]
<1>0. "daemon" \in Kinds /\ "daemon" \in Counted
  BY CountedAssumption DEF Counted
<1>1. CASE \E p \in Procs : Kill(p)
  <2>1. daemonVars' = daemonVars
    BY <1>1 DEF Kill, daemonVars
  <2> QED
    BY <1>0, <1>1, <2>1, KillActs, SpendDoes, Disjoint DEF Counted
<1>2. CASE ~ \E p \in Procs : Kill(p)
  <2>1. daemonVars' = daemonVars
    BY <1>2 DEF Step, NoteAndPlanStep, MigrationsStep, BackupsStep, InitsStep, ConfigsStep, otherVars
  <2>2. \A q \in Procs : DaemonShape(proc'[q]) => proc'[q] = proc[q]
    BY <1>2, StepGroups, Disjoint DEF PlanMoves, PlanSlot, MigrationMoves, MigrationSlot, BackupMoves,
       BackupSlot, InitMoves, InitSlot, ConfigMoves, ConfigSlot
  <2>3. used'["daemon"] = used["daemon"]
    <3>1. CASE NoteAndPlanStep
      BY <1>0, <3>1, PlanActs, SpendDoes DEF PlanKinds, Counted
    <3>2. CASE MigrationsStep
      BY <1>0, <3>2, MigrationActs, SpendDoes DEF MigrationKinds, Counted
    <3>3. CASE BackupsStep
      BY <1>0, <3>3, BackupActs, SpendDoes DEF BackupKinds, Counted
    <3>4. CASE InitsStep
      BY <1>0, <3>4, InitActs, SpendDoes DEF InitKinds, Counted
    <3>5. CASE ConfigsStep
      BY <1>0, <3>5, ConfigActs, SpendDoes DEF ConfigKinds, Counted
    <3> QED
      BY <1>2, <3>1, <3>2, <3>3, <3>4, <3>5 DEF Step
  <2> QED
    BY <2>1, <2>2, <2>3
<1> QED
  BY <1>1, <1>2

LEMMA DaemonKept ==
    ASSUME Shapes, Shapes', DaemonInv, daemonVars' = daemonVars,
           \A q \in Procs : DaemonShape(proc'[q]) => proc'[q] = proc[q],
           used'["daemon"] = used["daemon"]
    PROVE  DaemonInv'
<1>1. \A q \in Daemons' : q \in Daemons /\ proc'[q] = proc[q]
  BY DaemonsAre, DaemonsNext
<1>2. \A q \in Leading' : q \in Leading
  BY <1>1 DEF Leading
<1> QED
  BY <1>1, <1>2 DEF DaemonInv, daemonVars, Leading

\* A daemon that takes a step: the others stay.
LEMMA DaemonMover ==
    ASSUME Shapes, Shapes', NEW p \in Procs, NEW r, Set(p, r)
    PROVE  /\ \A q : q # p => /\ q \in Daemons' <=> q \in Daemons
                              /\ q \in Daemons => proc'[q] = proc[q]
                              /\ q \in Leading' <=> q \in Leading
           /\ proc'[p] = r
           /\ p \in Daemons' <=> DaemonShape(r)
           /\ p \in Daemons <=> DaemonShape(proc[p])
<1>1. \A q \in Procs : q # p => proc'[q] = proc[q]
  BY SetDoes
<1>2. proc'[p] = r
  BY SetDoes
<1>3. \A q : q # p => /\ q \in Daemons' <=> q \in Daemons
                      /\ q \in Daemons => proc'[q] = proc[q]
  BY <1>1, DaemonsAre, DaemonsNext
<1> QED
  BY <1>2, <1>3, DaemonsAre, DaemonsNext DEF Leading

\* A daemon ends, or goes on with the lease it remembers and does not start to lead.
LEMMA DaemonGoesOn ==
    ASSUME Shapes, Shapes', DaemonInv, NEW p \in Procs, NEW r, Set(p, r), DaemonShape(proc[p]),
           \/ r = Idle
           \/ /\ DaemonShape(r) /\ r.daemon = proc[p].daemon /\ r.mine = proc[p].mine
              /\ r.pc \in {"d:recover", "d:scan", "d:beat", "d:read"}
                   => proc[p].pc \in {"d:recover", "d:scan", "d:beat", "d:read"}
              /\ r.pc = "d:release"
                   => proc[p].pc \in {"d:recover", "d:scan", "d:beat", "d:read", "d:release"},
           used'["daemon"] = used["daemon"], lease' = lease, slept' = slept, adopted' = adopted
    PROVE  DaemonInv'
<1>1. /\ \A q : q # p => /\ q \in Daemons' <=> q \in Daemons
                         /\ q \in Daemons => proc'[q] = proc[q]
                         /\ q \in Leading' <=> q \in Leading
      /\ proc'[p] = r /\ p \in Daemons
      /\ p \in Daemons' <=> DaemonShape(r)
  BY DaemonMover
<1>2. p \in Leading' => p \in Leading
  BY <1>1, Disjoint DEF Leading
<1>3. p \in Daemons' => /\ proc'[p].daemon = proc[p].daemon /\ proc'[p].mine = proc[p].mine
                        /\ (p \in Leading' \/ r.pc = "d:release") => (p \in Leading \/ proc[p].pc = "d:release")
  BY <1>1, <1>2, Disjoint DEF Leading
<1>4. \A q \in Daemons' : q \in Daemons /\ proc'[q].daemon = proc[q].daemon /\ proc'[q].mine = proc[q].mine
  BY <1>1, <1>3
<1>5. \A q \in Leading' : q \in Leading
  BY <1>1, <1>2
<1>6. \A q \in Daemons' : (q \in Leading' \/ proc'[q].pc = "d:release")
                            => (q \in Leading \/ proc[q].pc = "d:release")
  BY <1>1, <1>3, <1>5
<1>7. Leading' \subseteq Daemons'
  BY DEF Leading
<1> QED
  BY <1>4, <1>5, <1>6, <1>7 DEF DaemonInv

LEMMA DaemonAt ==
    ASSUME Shapes, NEW p \in Procs, proc[p].pc \in DaemonPC
    PROVE  DaemonShape(proc[p])
BY ShapeOf DEF Shapes

\* A daemon goes to another step.
LEMMA DaemonTurns ==
    ASSUME Shapes, NEW p \in Procs, DaemonShape(proc[p]), NEW pc \in DaemonPC
    PROVE  LET r == [proc[p] EXCEPT !.pc = pc]
           IN DaemonShape(r) /\ r.pc = pc /\ r.daemon = proc[p].daemon /\ r.mine = proc[p].mine
BY DEF DaemonShape, Has

\* The number of a daemon is that of its run.
LEMMA RunDaemonKeeps ==
    ASSUME Shapes, Shapes', DaemonInv, NEW p \in Procs, RunDaemon(p)
    PROVE  DaemonInv'
<1>1. PICK once \in BOOLEAN :
         Launch(p, "daemon", [pc |-> "d:open", daemon |-> used["daemon"] + 1, mine |-> NoLease,
                              once |-> once, stop |-> FALSE])
  BY DEF RunDaemon
<1> DEFINE r == [pc |-> "d:open", daemon |-> used["daemon"] + 1, mine |-> NoLease,
                 once |-> once, stop |-> FALSE]
<1>2. r.pc = "d:open" /\ r.daemon = used["daemon"] + 1
  OBVIOUS
<1> HIDE DEF r
<1>3. Set(p, r) /\ Spend("daemon") /\ proc[p].pc = "idle"
  BY <1>1 DEF Launch, At, r
<1>4. used'["daemon"] = used["daemon"] + 1 /\ used["daemon"] \in Nat
  BY <1>3, SpendDoes, CountedAssumption DEF Shapes, Counted
<1>5. lease' = lease /\ slept' = slept /\ adopted' = adopted
  BY DEF RunDaemon, daemonVars
<1>6. /\ \A q : q # p => /\ q \in Daemons' <=> q \in Daemons
                         /\ q \in Daemons => proc'[q] = proc[q]
                         /\ q \in Leading' <=> q \in Leading
      /\ proc'[p] = r
  BY <1>3, DaemonMover
<1>7. p \notin Daemons
  BY <1>3, DaemonsAre DEF DaemonShape, Has, DaemonPC
<1>8. p \notin Leading'
  BY <1>2, <1>6 DEF Leading
<1>9. Leading' \subseteq Daemons'
  BY DEF Leading
<1>10. \A q \in Daemons' : q # p => proc'[q].daemon \in 1 .. used["daemon"]
  BY <1>6 DEF DaemonInv
<1>11. \A q \in Daemons' : proc'[q].daemon \in 1 .. used'["daemon"]
  BY <1>2, <1>4, <1>6, <1>10
<1>12. \A q, s \in Daemons' : proc'[q].daemon = proc'[s].daemon => q = s
  <2>1. \A q \in Daemons' : q # p => proc'[q].daemon # proc'[p].daemon
    BY <1>2, <1>4, <1>6, <1>10
  <2> QED
    BY <1>6, <2>1 DEF DaemonInv
<1>13. adopted' \/ \A q \in Daemons' : (q \in Leading' \/ proc'[q].pc = "d:release")
         => proc'[q].mine.instance = proc'[q].daemon
  BY <1>2, <1>5, <1>6, <1>8 DEF DaemonInv
<1>14. adopted' \/ \A q \in Leading' :
         proc'[q].daemon \in slept' \/ (lease'.live /\ lease'.instance = proc'[q].daemon)
  BY <1>5, <1>6, <1>8, <1>9 DEF DaemonInv
<1>15. \A q \in Leading' : proc'[q].mine.instance # 0
  BY <1>6, <1>8, <1>9 DEF DaemonInv
<1>16. lease' \in [instance : Nat, version : Nat, live : BOOLEAN] /\ (lease' = NoLease \/ lease'.instance # 0)
  BY <1>5 DEF DaemonInv, NoLease
<1> QED
  BY <1>11, <1>12, <1>13, <1>14, <1>15, <1>16 DEF DaemonInv

LEMMA UsedDaemons ==
    ASSUME Shapes, UNCHANGED used \/ Spend("beat") \/ Spend("stop") \/ Spend("lapse")
    PROVE  used'["daemon"] = used["daemon"]
<1>1. "daemon" \in Kinds /\ {"beat", "stop", "lapse"} \subseteq Counted
  BY CountedAssumption DEF Counted
<1> QED
  BY <1>1, SpendDoes

\* A daemon that takes the lease, beats or reads.
LEMMA LeaseKeeps ==
    ASSUME Shapes, Shapes', DaemonInv, NEW p \in Procs, DaemonShape(proc[p]), NEW r, Set(p, r),
           DaemonShape(r), r.daemon = proc[p].daemon,
           used'["daemon"] = used["daemon"], slept' = slept,
           adopted => adopted', lease' \in [instance : Nat, version : Nat, live : BOOLEAN],
           lease' = NoLease \/ lease'.instance # 0,
           r.pc \in {"d:recover", "d:scan", "d:beat", "d:read"} => r.mine.instance # 0,
           \* the lease stays with whom it was or has lapsed
           ~ adopted' => \/ lease'.instance = lease.instance /\ (lease.live => lease'.live)
                         \/ ~ lease.live,
           ~ adopted' /\ r.pc \in {"d:recover", "d:scan", "d:beat", "d:read"} =>
              \/ lease'.live /\ lease'.instance = r.daemon
              \/ p \in Leading,
           ~ adopted' /\ r.pc \in {"d:recover", "d:scan", "d:beat", "d:read"} => r.mine.instance = r.daemon,
           r.pc # "d:release"
    PROVE  DaemonInv'
<1>1. /\ \A q : q # p => /\ q \in Daemons' <=> q \in Daemons
                         /\ q \in Daemons => proc'[q] = proc[q]
                         /\ q \in Leading' <=> q \in Leading
      /\ proc'[p] = r /\ p \in Daemons
  BY DaemonMover
<1>2. \A q \in Daemons' : q \in Daemons /\ proc'[q].daemon = proc[q].daemon
  BY <1>1
<1>3. Leading \subseteq Daemons /\ Leading' \subseteq Daemons'
  BY DEF Leading
<1>4. p \in Leading' => r.pc \in {"d:recover", "d:scan", "d:beat", "d:read"}
  BY <1>1 DEF Leading
<1>5. adopted' \/ \A q \in Daemons' : (q \in Leading' \/ proc'[q].pc = "d:release")
         => proc'[q].mine.instance = proc'[q].daemon
  BY <1>1, <1>4 DEF DaemonInv
<1>6. ASSUME ~ adopted', NEW q \in Leading', q \in Leading
      PROVE  proc'[q].daemon \in slept' \/ (lease'.live /\ lease'.instance = proc'[q].daemon)
  BY <1>2, <1>3, <1>6 DEF DaemonInv
<1>7. adopted' \/ \A q \in Leading' :
         proc'[q].daemon \in slept' \/ (lease'.live /\ lease'.instance = proc'[q].daemon)
  BY <1>1, <1>4, <1>6
<1>8. \A q, s \in Daemons' : proc'[q].daemon = proc'[s].daemon => q = s
  BY <1>2 DEF DaemonInv
<1>9. \A q \in Daemons' : proc'[q].daemon \in 1 .. used'["daemon"]
  BY <1>2 DEF DaemonInv
<1>10. \A q \in Leading' : proc'[q].mine.instance # 0
  BY <1>1, <1>3, <1>4 DEF DaemonInv
<1> QED
  BY <1>5, <1>7, <1>8, <1>9, <1>10 DEF DaemonInv

LEMMA AcquireLeaseKeeps ==
    ASSUME Shapes, Shapes', DaemonInv, NEW p \in Procs, AcquireLease(p), DaemonShape(proc[p])
    PROVE  DaemonInv'
<1>1. used' = used /\ slept' = slept /\ adopted' = adopted
  BY DEF AcquireLease, Move, Become
<1>2. CASE lease.live
  <2>1. Set(p, [proc[p] EXCEPT !.pc = "d:unlock"]) /\ lease' = lease
    BY <1>2 DEF AcquireLease, Move, Goto
  <2> DEFINE r == [proc[p] EXCEPT !.pc = "d:unlock"]
  <2>2. DaemonShape(r) /\ r.pc = "d:unlock" /\ r.daemon = proc[p].daemon /\ r.mine = proc[p].mine
    BY DaemonTurns DEF DaemonPC
  <2> HIDE DEF r
  <2> QED
    BY <1>1, <2>1, <2>2, DaemonGoesOn DEF r
<1>3. CASE ~ lease.live
  <2>1. /\ lease' = [instance |-> proc[p].daemon, version |-> lease.version + 1, live |-> TRUE]
        /\ Set(p, [proc[p] EXCEPT !.pc = "d:recover", !.mine = lease'])
    BY <1>3 DEF AcquireLease, Become
  <2>2. PICK m : m = lease'
    OBVIOUS
  <2> DEFINE r == [proc[p] EXCEPT !.pc = "d:recover", !.mine = m]
  <2>3. DaemonShape(r) /\ r.pc = "d:recover" /\ r.daemon = proc[p].daemon /\ r.mine = m
    BY DEF DaemonShape, Has, DaemonPC
  <2>4. Set(p, r)
    BY <2>1, <2>2
  <2> HIDE DEF r
  <2>5. lease'.live /\ lease'.instance = r.daemon /\ r.mine.instance = r.daemon
    BY <2>1, <2>2, <2>3
  <2>6. r.daemon \in Nat \ {0}
    <3>1. used["daemon"] \in Nat
      BY CountedAssumption DEF Shapes, Counted
    <3> QED
      BY <2>3, <3>1, DaemonsAre DEF DaemonInv
  <2>7. lease' \in [instance : Nat, version : Nat, live : BOOLEAN] /\ lease'.instance # 0
    BY <2>1, <2>3, <2>6 DEF DaemonInv
  <2>8. r.mine.instance # 0
    BY <2>5, <2>6
  <2> QED
    BY <1>1, <1>3, <2>3, <2>4, <2>5, <2>7, <2>8, LeaseKeeps
<1> QED
  BY <1>2, <1>3

LEMMA HeartbeatKeeps ==
    ASSUME Shapes, Shapes', DaemonInv, NEW p \in Procs, Heartbeat(p), DaemonShape(proc[p])
    PROVE  DaemonInv'
<1>1. slept' = slept /\ adopted' = adopted /\ proc[p].pc = "d:beat"
  BY DEF Heartbeat, At
<1>2. p \in Leading /\ p \in Daemons
  BY <1>1, DaemonsAre DEF Leading
<1>3. CASE lease.instance = proc[p].mine.instance /\ lease.version = proc[p].mine.version
  <2>1. /\ lease' = [lease EXCEPT !.version = @ + 1, !.live = TRUE]
        /\ Set(p, [proc[p] EXCEPT !.pc = "d:read"]) /\ Spend("beat")
    BY <1>3 DEF Heartbeat, Goto
  <2>2. used'["daemon"] = used["daemon"]
    BY <2>1, UsedDaemons
  <2> DEFINE r == [proc[p] EXCEPT !.pc = "d:read"]
  <2>3. DaemonShape(r) /\ r.pc = "d:read" /\ r.daemon = proc[p].daemon /\ r.mine = proc[p].mine
    BY DaemonTurns DEF DaemonPC
  <2> HIDE DEF r
  <2>4. Set(p, r)
    BY <2>1 DEF r
  <2> QED
    <3>1. /\ lease' \in [instance : Nat, version : Nat, live : BOOLEAN]
          /\ lease'.live /\ lease'.instance = lease.instance /\ lease.instance = proc[p].mine.instance
      <4>1. lease \in [instance : Nat, version : Nat, live : BOOLEAN] /\ lease.version + 1 \in Nat
        BY DEF DaemonInv
      <4>2. lease' = [lease EXCEPT !.version = lease.version + 1, !.live = TRUE]
        BY <2>1
      <4> QED
        BY <1>3, <4>1, <4>2
    <3>2. proc[p].mine.instance # 0 /\ (adopted \/ proc[p].mine.instance = proc[p].daemon)
      BY <1>2 DEF DaemonInv
    <3> QED
      BY <1>1, <1>2, <2>2, <2>3, <2>4, <3>1, <3>2, LeaseKeeps
<1>4. CASE ~ (lease.instance = proc[p].mine.instance /\ lease.version = proc[p].mine.version)
  <2>1. Set(p, [proc[p] EXCEPT !.pc = "d:release"]) /\ lease' = lease /\ used' = used
    BY <1>4 DEF Heartbeat, Move, Goto
  <2> DEFINE r == [proc[p] EXCEPT !.pc = "d:release"]
  <2>2. DaemonShape(r) /\ r.pc = "d:release" /\ r.daemon = proc[p].daemon /\ r.mine = proc[p].mine
    BY DaemonTurns DEF DaemonPC
  <2> HIDE DEF r
  <2> QED
    BY <1>1, <2>1, <2>2, DaemonGoesOn DEF r
<1> QED
  BY <1>3, <1>4

LEMMA ReadLeaseKeeps ==
    ASSUME Shapes, Shapes', DaemonInv, NEW p \in Procs, ReadLease(p), DaemonShape(proc[p])
    PROVE  DaemonInv'
<1>1. used' = used /\ slept' = slept /\ lease' = lease /\ proc[p].pc = "d:read"
  BY DEF ReadLease, Move, Become, At
<1>2. p \in Leading /\ p \in Daemons
  BY <1>1, DaemonsAre DEF Leading
<1>3. CASE lease # NoLease
  <2>1. /\ Set(p, [proc[p] EXCEPT !.pc = "d:scan", !.mine = lease])
        /\ adopted' = (adopted \/ lease.instance # proc[p].daemon)
    BY <1>3 DEF ReadLease, Become
  <2> DEFINE r == [proc[p] EXCEPT !.pc = "d:scan", !.mine = lease]
  <2>3. DaemonShape(r) /\ r.pc = "d:scan" /\ r.daemon = proc[p].daemon /\ r.mine = lease
    BY DEF DaemonShape, Has, DaemonPC
  <2> HIDE DEF r
  <2>4. Set(p, r)
    BY <2>1 DEF r
  <2>5. lease \in [instance : Nat, version : Nat, live : BOOLEAN] /\ lease.instance # 0
    BY <1>3 DEF DaemonInv
  <2> QED
    BY <1>1, <1>2, <2>1, <2>3, <2>4, <2>5, LeaseKeeps
<1>4. CASE lease = NoLease
  <2>1. Set(p, [proc[p] EXCEPT !.pc = "d:release"]) /\ adopted' = adopted
    BY <1>4 DEF ReadLease, Move, Goto
  <2> DEFINE r == [proc[p] EXCEPT !.pc = "d:release"]
  <2>2. DaemonShape(r) /\ r.pc = "d:release" /\ r.daemon = proc[p].daemon /\ r.mine = proc[p].mine
    BY DaemonTurns DEF DaemonPC
  <2> HIDE DEF r
  <2> QED
    BY <1>1, <2>1, <2>2, DaemonGoesOn DEF r
<1> QED
  BY <1>3, <1>4

LEMMA ReleaseLeaseKeeps ==
    ASSUME Shapes, Shapes', DaemonInv, NEW p \in Procs, ReleaseLease(p), DaemonShape(proc[p])
    PROVE  DaemonInv'
<1>1. /\ used' = used /\ slept' = slept /\ adopted' = adopted /\ proc[p].pc = "d:release"
      /\ lease' = IF lease.instance = proc[p].mine.instance THEN NoLease ELSE lease
  BY DEF ReleaseLease, Move, At
<1> DEFINE r == [proc[p] EXCEPT !.pc = "d:unlock"]
<1>2. DaemonShape(r) /\ r.pc = "d:unlock" /\ r.daemon = proc[p].daemon
  BY DaemonTurns DEF DaemonPC
<1>3. Set(p, r)
  BY DEF ReleaseLease, Move, Goto
<1> HIDE DEF r
<1>4. /\ \A q : q # p => /\ q \in Daemons' <=> q \in Daemons
                         /\ q \in Daemons => proc'[q] = proc[q]
                         /\ q \in Leading' <=> q \in Leading
      /\ proc'[p] = r /\ p \in Daemons
  BY <1>3, DaemonMover
<1>5. p \notin Leading'
  BY <1>2, <1>4 DEF Leading
<1>6. Leading \subseteq Daemons /\ Leading' \subseteq Daemons'
  BY DEF Leading
<1>7. \A q \in Daemons' : q \in Daemons /\ proc'[q].daemon = proc[q].daemon
  BY <1>2, <1>4
<1>8. lease' \in [instance : Nat, version : Nat, live : BOOLEAN] /\ (lease' = NoLease \/ lease'.instance # 0)
  BY <1>1 DEF DaemonInv, NoLease
<1>9. adopted' \/ \A q \in Leading' :
         proc'[q].daemon \in slept' \/ (lease'.live /\ lease'.instance = proc'[q].daemon)
  <2> SUFFICES ASSUME ~ adopted, NEW q \in Leading', proc[q].daemon \notin slept
               PROVE  lease' = lease /\ lease.live /\ lease.instance = proc'[q].daemon
    BY <1>1, <1>4, <1>5, <1>6, <1>7
  <2>1. q # p /\ q \in Leading /\ q \in Daemons
    BY <1>4, <1>5, <1>6
  <2>2. lease.live /\ lease.instance = proc[q].daemon
    BY <2>1 DEF DaemonInv
  <2>3. proc[p].mine.instance = proc[p].daemon
    BY <1>1, <1>4 DEF DaemonInv
  <2>4. proc[p].daemon # proc[q].daemon
    BY <1>4, <2>1 DEF DaemonInv
  <2> QED
    BY <1>1, <1>4, <2>1, <2>2, <2>3, <2>4
<1>10. adopted' \/ \A q \in Daemons' : (q \in Leading' \/ proc'[q].pc = "d:release")
         => proc'[q].mine.instance = proc'[q].daemon
  BY <1>1, <1>2, <1>4, <1>5 DEF DaemonInv
<1>11. \A q \in Leading' : proc'[q].mine.instance # 0
  BY <1>4, <1>5, <1>6 DEF DaemonInv
<1> QED
  BY <1>1, <1>7, <1>8, <1>9, <1>10, <1>11 DEF DaemonInv

LEMMA LapseKeeps ==
    ASSUME Shapes, Shapes', DaemonInv, Lapse
    PROVE  DaemonInv'
<1>1. /\ proc' = proc /\ lease' = [lease EXCEPT !.live = FALSE] /\ adopted' = adopted
      /\ slept' = slept \cup {lease.instance} /\ lease.live
      /\ Spend("lapse")
  BY DEF Lapse, Elsewhere
<1>2. used'["daemon"] = used["daemon"]
  BY <1>1, UsedDaemons
<1>3. lease' \in [instance : Nat, version : Nat, live : BOOLEAN] /\ lease'.instance = lease.instance
  BY <1>1 DEF DaemonInv
<1>4. lease.instance # 0
  BY <1>1 DEF DaemonInv, NoLease
<1>5. Daemons' = Daemons /\ Leading' = Leading
  BY <1>1 DEF Daemons, Busy, Leading
<1> QED
  BY <1>1, <1>2, <1>3, <1>4, <1>5 DEF DaemonInv

LEMMA StopDaemonKeeps ==
    ASSUME Shapes, Shapes', DaemonInv, StopDaemon
    PROVE  DaemonInv'
<1> DEFINE r(p) == IF proc[p].once \/ At(p, "d:recover") THEN Idle ELSE [proc[p] EXCEPT !.stop = TRUE]
<1>1. PICK p \in Daemons : Set(p, r(p))
  BY DEF StopDaemon
<1>2. p \in Procs /\ DaemonShape(proc[p])
  BY <1>1, DaemonsAre
<1>3. PICK x : x = r(p)
  OBVIOUS
<1>4. \/ x = Idle
      \/ DaemonShape(x) /\ x.daemon = proc[p].daemon /\ x.mine = proc[p].mine /\ x.pc = proc[p].pc
  BY <1>2, <1>3 DEF DaemonShape, Has
<1>5. Set(p, x)
  BY <1>1, <1>3
<1>6. lease' = lease /\ slept' = slept /\ adopted' = adopted /\ Spend("stop")
  BY DEF StopDaemon, daemonVars
<1>7. used'["daemon"] = used["daemon"]
  BY <1>6, UsedDaemons
<1> HIDE DEF r
<1> QED
  BY <1>2, <1>4, <1>5, <1>6, <1>7, DaemonGoesOn

LEMMA OtherDaemonStepsKeep ==
    ASSUME Shapes, Shapes', DaemonInv, NEW p \in Procs, DaemonShape(proc[p]),
           \/ OpenLock(p) \/ WritePid(p) \/ InspectLock(p) \/ RemoveLock(p)
           \/ RecoverScans(p) \/ ScanRound(p) \/ Unlock(p)
    PROVE  DaemonInv'
<1>1. used' = used /\ lease' = lease /\ slept' = slept /\ adopted' = adopted
  BY DEF OpenLock, WritePid, InspectLock, RemoveLock, RecoverScans, ScanRound, Unlock, daemonVars,
         Move, Finish, Become
<1>2. \/ Set(p, Idle)
      \/ \E pc \in DaemonPC :
           /\ Set(p, [proc[p] EXCEPT !.pc = pc])
           /\ pc \in {"d:recover", "d:scan", "d:beat", "d:read", "d:release"}
                => proc[p].pc \in {"d:recover", "d:scan", "d:beat", "d:read"}
  BY DEF OpenLock, WritePid, InspectLock, RemoveLock, RecoverScans, ScanRound, Unlock, At,
         Move, Goto, Finish, Become, DaemonPC
<1>3. CASE Set(p, Idle)
  BY <1>1, <1>3, DaemonGoesOn
<1>4. ASSUME NEW pc \in DaemonPC, Set(p, [proc[p] EXCEPT !.pc = pc]),
             pc \in {"d:recover", "d:scan", "d:beat", "d:read", "d:release"}
                => proc[p].pc \in {"d:recover", "d:scan", "d:beat", "d:read"}
      PROVE  DaemonInv'
  <2> DEFINE r == [proc[p] EXCEPT !.pc = pc]
  <2>1. DaemonShape(r) /\ r.pc = pc /\ r.daemon = proc[p].daemon /\ r.mine = proc[p].mine
    BY DaemonTurns
  <2> HIDE DEF r
  <2>2. Set(p, r)
    BY <1>4 DEF r
  <2> QED
    BY <1>1, <1>4, <2>1, <2>2, DaemonGoesOn
<1> QED
  BY <1>2, <1>3, <1>4

LEMMA DaemonStepKeeps ==
    ASSUME Shapes, Shapes', DaemonInv, Step
    PROVE  DaemonInv'
<1>1. ASSUME NEW p \in Procs, DaemonStep(p) PROVE DaemonInv'
  <2>1. CASE RunDaemon(p)
    BY <2>1, RunDaemonKeeps
  <2>2. CASE ~ RunDaemon(p)
    <3>1. proc[p].pc \in DaemonPC
      BY <1>1, <2>2 DEF DaemonStep, OpenLock, WritePid, InspectLock, RemoveLock, AcquireLease,
         RecoverScans, ScanRound, Heartbeat, ReadLease, ReleaseLease, Unlock, At, DaemonPC
    <3> QED
      BY <1>1, <2>2, <3>1, DaemonAt, OtherDaemonStepsKeep, AcquireLeaseKeeps, HeartbeatKeeps,
         ReadLeaseKeeps, ReleaseLeaseKeeps DEF DaemonStep
  <2> QED
    BY <2>1, <2>2
<1>2. CASE DaemonsStep
  BY <1>1, <1>2, StopDaemonKeeps, LapseKeeps DEF DaemonsStep
<1>3. CASE ~ DaemonsStep
  BY <1>3, DaemonFrame, DaemonKept
<1> QED
  BY <1>2, <1>3

LEMMA DaemonHolds == Spec => []DaemonInv
<1>1. Init => DaemonInv
  <2> SUFFICES ASSUME Init PROVE DaemonInv
    OBVIOUS
  <2>1. Daemons = {} /\ lease = NoLease
    BY DEF Init, WorkInit, Daemons, Busy, DaemonInit
  <2>2. Leading = {}
    BY <2>1 DEF Leading
  <2>3. NoLease \in [instance : Nat, version : Nat, live : BOOLEAN]
    BY DEF NoLease
  <2> QED
    BY <2>1, <2>2, <2>3 DEF DaemonInv
<1>2. Shapes /\ Shapes' /\ DaemonInv /\ [Next]_vars => DaemonInv'
  <2>1. ASSUME Shapes, Shapes', DaemonInv, UNCHANGED vars PROVE DaemonInv'
    BY <2>1, DaemonKept DEF vars, workVars, otherVars
  <2> QED
    BY <2>1, DaemonStepKeeps DEF Next
<1> QED
  BY <1>1, <1>2, ShapesHold, PTL DEF Spec

\* Two daemons do not lead together unless the lease of one of them has lapsed
\* under it, whatever the order of the lock file, the lease row, signals and kills
\* (daemon run, acquireDaemonLease and heartbeatDaemonLease); unless a heartbeat has
\* read back the lease of another daemon.
THEOREM OneDaemonLeads == Spec => []OneDaemon
<1>1. DaemonInv => OneDaemon
  <2>1. Leading \subseteq Daemons
    BY DEF Leading
  <2> QED
    BY <2>1 DEF DaemonInv, OneDaemon
<1> QED
  BY <1>1, DaemonHolds, PTL

-----------------------------------------------------------------------------
(* The migrations *)

Database(D) == [version : {1, 2}, commits : SUBSET D]
Plan(D) ==
    [seen : SUBSET D, backup : Database(D) \cup {Missing}, temporary : Database(D) \cup {Missing}]
Kept == UNION {migrations[m].backup.commits : m \in DOMAIN migrations}

\* Whatever a migration has in hand or in a file has the commits that its plan saw.
MigrationTypes ==
    /\ main \in Database(made) /\ wal \subseteq made
    /\ migrations \in Seq(Plan(made))
    /\ \A m \in DOMAIN migrations :
         /\ migrations[m].backup = Missing \/ migrations[m].backup.commits = migrations[m].seen
         /\ migrations[m].temporary = Missing \/ migrations[m].temporary.commits = migrations[m].seen
    /\ \A p \in Migrating :
         /\ proc[p].migration \in DOMAIN migrations /\ proc[p].image \in Database(made)
         /\ proc[p].image.commits = migrations[proc[p].migration].seen

Seen(p) == migrations[proc[p].migration].seen
Saved(p) == migrations[proc[p].migration].backup.commits
BeforeLog(c) == c.pc \in {"m:backup", "m:copy", "m:migrate", "m:load", "m:log"}

\* A migration that runs alone has an old database until it swaps it, whose
\* commits are those it has saved.
Alone(p) ==
    /\ proc[p].pc # "m:clean" => main.version = 1
    /\ BeforeLog(proc[p]) => Seen(p) = main.commits \cup wal
    /\ proc[p].pc = "m:swap" => wal = {} /\ main.commits \subseteq Seen(p)
    /\ proc[p].pc # "m:backup" => Saved(p) = Seen(p)
Unhurt(p) == made = IF proc[p].pc = "m:swap" THEN Seen(p) ELSE main.commits \cup wal

OneByOne ==
    ~ overlap =>
        /\ \A p, q \in Migrating : p = q
        /\ made \subseteq main.commits \cup wal \cup Kept
        /\ \A p \in Migrating : Alone(p)
        /\ used["fault"] = 0 => /\ Migrating = {} => made = main.commits \cup wal
                                /\ \A p \in Migrating : Unhurt(p)

MigrationsInv == MigrationTypes /\ OneByOne

LEMMA MigratingIs ==
    ASSUME Shapes
    PROVE  \A p : p \in Migrating <=> p \in Procs /\ MigrationShape(proc[p])
BY Disjoint, FieldsTell DEF Migrating, Busy, Shapes, MigrationShape, Has

LEMMA MigratingNext ==
    ASSUME Shapes'
    PROVE  \A p : p \in Migrating' <=> p \in Procs /\ MigrationShape(proc'[p])
<1>1. \A p \in Procs : Shape(proc'[p])
  BY DEF Shapes
<1> QED
  BY <1>1, Disjoint, FieldsTell DEF Migrating, Busy, MigrationShape, Has

LEMMA MigrationFrame ==
    ASSUME Shapes, Step, ~ MigrationsStep
    PROVE  /\ migrationVars' = migrationVars
           /\ \A q \in Procs : MigrationShape(proc'[q]) => proc'[q] = proc[q]
           /\ used'["fault"] = 0 => /\ used["fault"] = 0
                                    /\ \A q \in Procs : MigrationShape(proc[q]) => proc'[q] = proc[q]
<1>0. used["fault"] \in Nat
  BY CountedAssumption DEF Shapes, Counted
<1>1. CASE \E p \in Procs : Kill(p)
  <2>1. migrationVars' = migrationVars
    BY <1>1 DEF Kill, migrationVars
  <2>2. used'["fault"] = used["fault"] + 1
    BY <1>1, KillActs, SpendDoes DEF Counted
  <2> QED
    BY <1>0, <1>1, <2>1, <2>2, KillActs, Disjoint DEF Shapes
<1>2. CASE ~ \E p \in Procs : Kill(p)
  <2>1. migrationVars' = migrationVars
    BY <1>2 DEF Step, NoteAndPlanStep, DaemonsStep, BackupsStep, InitsStep, ConfigsStep, otherVars
  <2>2. used'["fault"] = used["fault"]
    BY <1>2, StepGroups
  <2>3. \A q \in Procs : (MigrationShape(proc'[q]) \/ MigrationShape(proc[q])) => proc'[q] = proc[q]
    BY <1>2, StepGroups, Disjoint DEF PlanMoves, PlanSlot, DaemonMoves, DaemonSlot, ConfigMoves,
       ConfigSlot, BackupMoves, BackupSlot, InitMoves, InitSlot
  <2> QED
    BY <2>1, <2>2, <2>3
<1> QED
  BY <1>1, <1>2

LEMMA MigrationKept ==
    ASSUME Shapes, Shapes', MigrationsInv, migrationVars' = migrationVars,
           \A q \in Procs : MigrationShape(proc'[q]) => proc'[q] = proc[q],
           used'["fault"] = 0 => /\ used["fault"] = 0
                                 /\ \A q \in Procs : MigrationShape(proc[q]) => proc'[q] = proc[q]
    PROVE  MigrationsInv'
<1>1. /\ main' = main /\ wal' = wal /\ migrations' = migrations /\ made' = made /\ overlap' = overlap
      /\ Kept' = Kept
  BY DEF migrationVars, Kept
<1>2. \A q \in Migrating' : q \in Migrating /\ proc'[q] = proc[q]
  BY MigratingIs, MigratingNext
<1>3. used'["fault"] = 0 => used["fault"] = 0 /\ Migrating' = Migrating
  BY MigratingIs, MigratingNext
<1>4. MigrationTypes'
  BY <1>1, <1>2 DEF MigrationsInv, MigrationTypes
<1>5. \A q \in Migrating' : (Alone(q)' <=> Alone(q)) /\ (Unhurt(q)' <=> Unhurt(q))
  BY <1>1, <1>2 DEF Alone, Unhurt, BeforeLog, Seen, Saved
<1> QED
  BY <1>1, <1>2, <1>3, <1>4, <1>5 DEF MigrationsInv, OneByOne

\* A migration that takes a step: the others stay.
LEMMA MigrationMover ==
    ASSUME Shapes, Shapes', NEW p \in Procs, NEW r, Set(p, r)
    PROVE  /\ \A q : q # p => /\ q \in Migrating' <=> q \in Migrating
                              /\ q \in Migrating => proc'[q] = proc[q]
           /\ proc'[p] = r
           /\ p \in Migrating' <=> MigrationShape(r)
           /\ p \in Migrating <=> MigrationShape(proc[p])
<1>1. \A q \in Procs : q # p => proc'[q] = proc[q]
  BY SetDoes
<1>2. proc'[p] = r
  BY SetDoes
<1> QED
  BY <1>1, <1>2, MigratingIs, MigratingNext

\* A file of a plan gets what the plan saw, or is removed.
LEMMA PlanFile ==
    ASSUME MigrationsInv, NEW m \in DOMAIN migrations, NEW x \in Database(made) \cup {Missing},
           x = Missing \/ x.commits = migrations[m].seen,
           \/ migrations' = [migrations EXCEPT ![m].temporary = x]
           \/ migrations' = [migrations EXCEPT ![m].backup = x] /\ x # Missing
    PROVE  /\ migrations' \in Seq(Plan(made)) /\ DOMAIN migrations' = DOMAIN migrations
           /\ \A k \in DOMAIN migrations :
                /\ migrations'[k].seen = migrations[k].seen
                /\ \/ migrations'[k].backup = migrations[k].backup
                   \/ migrations'[k].backup.commits = migrations[k].seen
                /\ \/ migrations'[k].temporary = Missing
                   \/ migrations'[k].temporary.commits = migrations[k].seen
<1>1. migrations \in Seq(Plan(made)) /\ migrations[m] \in Plan(made)
  BY DEF MigrationsInv, MigrationTypes
<1>2. CASE migrations' = [migrations EXCEPT ![m].temporary = x]
  <2> DEFINE y == [migrations[m] EXCEPT !.temporary = x]
  <2>1. /\ y \in Plan(made) /\ y.seen = migrations[m].seen /\ y.backup = migrations[m].backup
        /\ y.temporary = x
    BY <1>1 DEF Plan
  <2>2. migrations' = [migrations EXCEPT ![m] = y]
    BY <1>2
  <2> HIDE DEF y
  <2> QED
    BY <1>1, <2>1, <2>2 DEF MigrationsInv, MigrationTypes
<1>3. CASE migrations' = [migrations EXCEPT ![m].backup = x] /\ x # Missing
  <2> DEFINE y == [migrations[m] EXCEPT !.backup = x]
  <2>1. /\ y \in Plan(made) /\ y.seen = migrations[m].seen /\ y.temporary = migrations[m].temporary
        /\ y.backup = x
    BY <1>1 DEF Plan
  <2>2. migrations' = [migrations EXCEPT ![m] = y]
    BY <1>3
  <2> HIDE DEF y
  <2> QED
    BY <1>1, <1>3, <2>1, <2>2 DEF MigrationsInv, MigrationTypes
<1> QED
  BY <1>2, <1>3

LEMMA KeptGrows ==
    ASSUME MigrationTypes, DOMAIN migrations \subseteq DOMAIN migrations',
           \A m \in DOMAIN migrations :
              \/ migrations'[m].backup = migrations[m].backup
              \/ migrations'[m].backup.commits = migrations[m].seen
    PROVE  Kept \subseteq Kept'
<1> SUFFICES ASSUME NEW m \in DOMAIN migrations, NEW d \in migrations[m].backup.commits
             PROVE  d \in migrations'[m].backup.commits
  BY DEF Kept
<1>1. migrations[m].backup = Missing \/ migrations[m].backup.commits = migrations[m].seen
  BY DEF MigrationTypes
<1> QED
  BY <1>1 DEF Missing

\* Steps before the log is removed: only the files of the plan and the image change.
LEMMA MigrationGoesOn ==
    ASSUME Shapes, Shapes', MigrationsInv, NEW p \in Procs, MigrationShape(proc[p]), NEW r, Set(p, r),
           used'["fault"] = used["fault"],
           main' = main, wal' = wal, made' = made, overlap' = overlap,
           migrations' \in Seq(Plan(made)), DOMAIN migrations' = DOMAIN migrations,
           \A k \in DOMAIN migrations :
                /\ migrations'[k].seen = migrations[k].seen
                /\ \/ migrations'[k].backup = migrations[k].backup
                   \/ migrations'[k].backup.commits = migrations[k].seen
                /\ \/ migrations'[k].temporary = Missing
                   \/ migrations'[k].temporary.commits = migrations[k].seen,
           \/ r = Idle /\ proc[p].pc # "m:swap"
           \/ /\ MigrationShape(r) /\ r.migration = proc[p].migration
              /\ r.image \in Database(made) /\ r.image.commits = Seen(p)
              /\ BeforeLog(proc[p]) /\ r.pc \in {"m:copy", "m:migrate", "m:load", "m:log"}
              /\ migrations'[r.migration].backup.commits = Seen(p) \/ proc[p].pc # "m:backup"
    PROVE  MigrationsInv'
<1>1. /\ \A q : q # p => /\ q \in Migrating' <=> q \in Migrating
                         /\ q \in Migrating => proc'[q] = proc[q]
      /\ proc'[p] = r /\ p \in Migrating
      /\ p \in Migrating' <=> MigrationShape(r)
  BY MigrationMover
<1>2. proc[p].migration \in DOMAIN migrations
  BY <1>1 DEF MigrationsInv, MigrationTypes
<1>3. MigrationTypes'
  <2>1. \A q \in Migrating' : /\ proc'[q].migration \in DOMAIN migrations /\ proc'[q].image \in Database(made)
                              /\ proc'[q].image.commits = migrations[proc'[q].migration].seen
    BY <1>1, Disjoint DEF MigrationsInv, MigrationTypes, Seen
  <2>2. \A m \in DOMAIN migrations :
          migrations'[m].backup = Missing \/ migrations'[m].backup.commits = migrations'[m].seen
    BY DEF MigrationsInv, MigrationTypes
  <2> QED
    BY <2>1, <2>2 DEF MigrationsInv, MigrationTypes
<1>4. Kept \subseteq Kept'
  BY KeptGrows DEF MigrationsInv
<1>5. ASSUME ~ overlap, MigrationShape(r) PROVE Alone(p)'
  <2>1. Alone(p)
    BY <1>1, <1>5 DEF MigrationsInv, OneByOne
  <2>2. r # Idle /\ proc'[p] = r
    BY <1>1, <1>5, Disjoint
  <2>3. Seen(p)' = Seen(p)
    BY <1>2, <2>2 DEF Seen
  <2>4. main.version = 1 /\ Seen(p) = main.commits \cup wal
    BY <2>1, <2>2 DEF Alone, BeforeLog
  <2>5. Saved(p)' = Seen(p)
    BY <1>2, <2>1, <2>2 DEF Alone, Saved, Seen
  <2> QED
    BY <2>2, <2>3, <2>4, <2>5 DEF Alone, BeforeLog
<1>6. OneByOne'
  <2> SUFFICES ASSUME ~ overlap PROVE OneByOne'
    BY DEF OneByOne
  <2>1. Migrating = {p} /\ Migrating' \subseteq {p}
    BY <1>1 DEF MigrationsInv, OneByOne
  <2>2. made \subseteq main.commits \cup wal \cup Kept'
    BY <1>4 DEF MigrationsInv, OneByOne
  <2>3. \A q \in Migrating' : Alone(q)'
    BY <1>1, <1>5, <2>1
  <2>4. used["fault"] = 0 => made = main.commits \cup wal
    <3>1. proc[p].pc # "m:swap"
      BY DEF BeforeLog
    <3> QED
      BY <1>1, <3>1 DEF MigrationsInv, OneByOne, Unhurt
  <2>5. used["fault"] = 0 => \A q \in Migrating' : Unhurt(q)'
    <3>1. \A q \in Migrating' : proc'[q].pc # "m:swap"
      BY <1>1, <2>1, Disjoint
    <3> QED
      BY <2>4, <3>1 DEF Unhurt
  <2> QED
    BY <2>1, <2>2, <2>3, <2>4, <2>5 DEF OneByOne
<1> QED
  BY <1>3, <1>6 DEF MigrationsInv

LEMMA MigrationAt ==
    ASSUME Shapes, MigrationsInv, NEW p \in Procs, proc[p].pc \in MigrationPC
    PROVE  /\ MigrationShape(proc[p]) /\ p \in Migrating
           /\ proc[p].migration \in DOMAIN migrations
           /\ proc[p].image \in Database(made) /\ proc[p].image.commits = Seen(p)
           /\ migrations[proc[p].migration] \in Plan(made)
<1>1. MigrationShape(proc[p])
  BY ShapeOf DEF Shapes
<1>2. p \in Migrating
  BY <1>1, MigratingIs
<1> QED
  BY <1>1, <1>2 DEF MigrationsInv, MigrationTypes, Seen

\* A step that only names the next one.
LEMMA MigrationTurns ==
    ASSUME Shapes, NEW p \in Procs, MigrationShape(proc[p]), NEW pc \in MigrationPC
    PROVE  LET r == [proc[p] EXCEPT !.pc = pc]
           IN /\ MigrationShape(r) /\ r.pc = pc /\ r.migration = proc[p].migration
              /\ r.image = proc[p].image
BY DEF MigrationShape, Has

LEMMA PlanMigrationKeeps ==
    ASSUME Shapes, Shapes', MigrationsInv, PlanMigration
    PROVE  MigrationsInv'
<1> DEFINE x == [seen |-> Serialized.commits, backup |-> Missing, temporary |-> Missing]
<1>1. /\ migrations' = Append(migrations, x) /\ main' = main /\ wal' = wal /\ made' = made
      /\ overlap' = overlap /\ proc' = proc /\ Spend("migration")
  BY DEF PlanMigration, Elsewhere
<1>2. used'["fault"] = used["fault"]
  BY <1>1, SpendDoes, CountedAssumption DEF Counted
<1>3. migrations \in Seq(Plan(made))
  BY DEF MigrationsInv, MigrationTypes
<1>4. Serialized.commits = main.commits \cup wal
  BY DEF Serialized, MigrationsInv, MigrationTypes, Database
<1>5. x \in Plan(made)
  BY <1>4 DEF Plan, MigrationsInv, MigrationTypes, Database
<1>6. x.backup = Missing /\ x.temporary = Missing
  OBVIOUS
<1> HIDE DEF x
<1>7. /\ migrations' \in Seq(Plan(made)) /\ Len(migrations') = Len(migrations) + 1
      /\ migrations'[Len(migrations) + 1] = x
      /\ \A k \in DOMAIN migrations : k \in DOMAIN migrations' /\ migrations'[k] = migrations[k]
      /\ \A k \in DOMAIN migrations' : k \in DOMAIN migrations \/ migrations'[k] = x
  BY <1>1, <1>3, <1>5
<1>8. Migrating' = Migrating
  BY <1>1 DEF Migrating, Busy
<1>9. MigrationTypes'
  BY <1>1, <1>6, <1>7, <1>8 DEF MigrationsInv, MigrationTypes
<1>10. Kept \subseteq Kept'
  BY <1>7, KeptGrows DEF MigrationsInv
<1>11. \A p \in Migrating : Alone(p)' = Alone(p) /\ Unhurt(p)' = Unhurt(p)
  <2> SUFFICES ASSUME NEW p \in Migrating PROVE Alone(p)' = Alone(p) /\ Unhurt(p)' = Unhurt(p)
    OBVIOUS
  <2>1. migrations'[proc[p].migration] = migrations[proc[p].migration]
    BY <1>7 DEF MigrationsInv, MigrationTypes
  <2> QED
    BY <1>1, <2>1 DEF Alone, Unhurt, BeforeLog, Seen, Saved
<1>12. OneByOne'
  BY <1>1, <1>2, <1>8, <1>10, <1>11 DEF MigrationsInv, OneByOne
<1> QED
  BY <1>9, <1>12 DEF MigrationsInv

LEMMA ElsewhereKeeps ==
    ASSUME Shapes, Shapes', MigrationsInv, CommitElsewhere \/ CheckpointLog
    PROVE  MigrationsInv'
<1>1. /\ migrations' = migrations /\ overlap' = overlap /\ proc' = proc /\ main.version = 2
      /\ UNCHANGED used \/ Spend("commit")
  BY DEF CommitElsewhere, CheckpointLog, Elsewhere, workVars
<1>2. used'["fault"] = used["fault"]
  BY <1>1, SpendDoes, CountedAssumption DEF Counted
<1>3. PICK D : /\ made' = made \cup D /\ main'.commits \cup wal' = main.commits \cup wal \cup D
               /\ main' \in [version : {1, 2}, commits : SUBSET made'] /\ main'.version = 2
               /\ wal' \subseteq made'
  <2>1. CASE CommitElsewhere
    <3>1. wal' = wal \cup {used["commit"] + 3} /\ made' = made \cup wal' /\ main' = main
      BY <2>1 DEF CommitElsewhere
    <3>2. wal \subseteq made /\ main \in [version : {1, 2}, commits : SUBSET made]
      BY DEF MigrationsInv, MigrationTypes, Database
    <3>3. main \in [version : {1, 2}, commits : SUBSET made']
      BY <3>1, <3>2
    <3>4. made' = made \cup {used["commit"] + 3}
      BY <3>1, <3>2
    <3> QED
      BY <1>1, <3>1, <3>3, <3>4
  <2>2. CASE CheckpointLog
    <3>1. main' = [main EXCEPT !.commits = main.commits \cup wal] /\ wal' = {} /\ made' = made
      BY <2>2 DEF CheckpointLog, Serialized
    <3>2. wal \subseteq made /\ main \in [version : {1, 2}, commits : SUBSET made]
      BY DEF MigrationsInv, MigrationTypes, Database
    <3>3. main' \in [version : {1, 2}, commits : SUBSET made] /\ main'.commits = main.commits \cup wal
          /\ main'.version = 2
      BY <1>1, <3>1, <3>2
    <3>4. made' = made \cup {} /\ main'.commits \cup wal' = main.commits \cup wal \cup {}
      BY <3>1, <3>3
    <3> QED
      BY <3>1, <3>3, <3>4
  <2> QED
    BY <2>1, <2>2
<1>4. Migrating' = Migrating /\ Kept' = Kept
  BY <1>1 DEF Migrating, Busy, Kept
<1>5. MigrationTypes'
  <2>1. Plan(made) \subseteq Plan(made') /\ Database(made) \subseteq Database(made')
    BY <1>3 DEF Plan, Database
  <2>2. migrations \in Seq(Plan(made'))
    <3>1. migrations \in Seq(Plan(made))
      BY DEF MigrationsInv, MigrationTypes
    <3> QED
      BY <2>1, <3>1
  <2> QED
    BY <1>1, <1>3, <1>4, <2>1, <2>2 DEF MigrationsInv, MigrationTypes, Database
<1>6. OneByOne'
  <2> SUFFICES ASSUME ~ overlap PROVE OneByOne'
    BY <1>1 DEF OneByOne
  <2>1. ASSUME NEW p \in Migrating PROVE proc[p].pc = "m:clean" /\ Alone(p)'
    <3>1. Alone(p)
      BY DEF MigrationsInv, OneByOne
    <3>2. proc[p].pc = "m:clean"
      BY <1>1, <3>1 DEF Alone
    <3> QED
      BY <1>1, <3>1, <3>2 DEF Alone, BeforeLog, Saved, Seen
  <2>2. made' \subseteq main'.commits \cup wal' \cup Kept'
    BY <1>3, <1>4 DEF MigrationsInv, OneByOne
  <2>3. ASSUME used["fault"] = 0 PROVE made' = main'.commits \cup wal' /\ \A p \in Migrating : Unhurt(p)'
    <3>1. made = main.commits \cup wal
      BY <2>1, <2>3 DEF MigrationsInv, OneByOne, Unhurt
    <3> QED
      BY <1>1, <1>3, <2>1, <3>1 DEF Unhurt
  <2> QED
    BY <1>2, <1>4, <1>1, <2>1, <2>2, <2>3 DEF MigrationsInv, OneByOne
<1> QED
  BY <1>5, <1>6 DEF MigrationsInv

LEMMA UsedMigrations ==
    ASSUME Shapes, UNCHANGED used \/ Spend("migrate")
    PROVE  used'["fault"] = used["fault"]
BY SpendDoes, CountedAssumption DEF Counted

LEMMA ApplyMigrationKeeps ==
    ASSUME Shapes, Shapes', MigrationsInv, NEW p \in Procs, ApplyMigration(p)
    PROVE  MigrationsInv'
<1>1. PICK m \in DOMAIN migrations :
         Launch(p, "migrate", IF main.version = 1 /\ migrations[m].seen = Serialized.commits
                              THEN [pc |-> "m:backup", migration |-> m, image |-> Serialized]
                              ELSE Idle)
  BY DEF ApplyMigration
<1>2. /\ main' = main /\ wal' = wal /\ migrations' = migrations /\ made' = made
      /\ overlap' = (overlap \/ Migrating # {}) /\ Kept' = Kept
  BY DEF ApplyMigration, Kept
<1>3. PICK r : r = IF main.version = 1 /\ migrations[m].seen = Serialized.commits
                   THEN [pc |-> "m:backup", migration |-> m, image |-> Serialized] ELSE Idle
  OBVIOUS
<1>4. Set(p, r) /\ Spend("migrate") /\ proc[p].pc = "idle"
  BY <1>1, <1>3 DEF Launch, At
<1>5. used'["fault"] = used["fault"]
  BY <1>4, UsedMigrations
<1>6. Serialized.commits = main.commits \cup wal /\ Serialized \in Database(made)
  BY DEF Serialized, MigrationsInv, MigrationTypes, Database
<1>7. /\ \A q : q # p => /\ q \in Migrating' <=> q \in Migrating
                         /\ q \in Migrating => proc'[q] = proc[q]
      /\ proc'[p] = r /\ p \notin Migrating
      /\ p \in Migrating' <=> MigrationShape(r)
  BY <1>4, MigrationMover DEF MigrationShape, Has, MigrationPC
<1>8. MigrationShape(r) => /\ r.pc = "m:backup" /\ r.migration = m /\ r.image = Serialized
                           /\ main.version = 1 /\ migrations[m].seen = Serialized.commits
  BY <1>3, Disjoint
<1>9. MigrationTypes'
  BY <1>2, <1>6, <1>7, <1>8 DEF MigrationsInv, MigrationTypes
<1>10. OneByOne'
  <2> SUFFICES ASSUME ~ overlap, Migrating = {} PROVE OneByOne'
    BY <1>2 DEF OneByOne
  <2>1. Migrating' \subseteq {p} /\ \A q \in Migrating' : q = p /\ MigrationShape(r)
    BY <1>7
  <2>2. \A q \in Migrating' : Alone(q)'
    BY <1>2, <1>6, <1>7, <1>8, <2>1 DEF Alone, BeforeLog, Seen, Saved
  <2>3. used["fault"] = 0 => made = main.commits \cup wal
    BY DEF MigrationsInv, OneByOne
  <2>4. used["fault"] = 0 => \A q \in Migrating' : Unhurt(q)'
    BY <1>2, <1>7, <1>8, <2>1, <2>3 DEF Unhurt
  <2>5. made \subseteq main.commits \cup wal \cup Kept
    BY DEF MigrationsInv, OneByOne
  <2> QED
    BY <1>2, <1>5, <2>1, <2>2, <2>3, <2>4, <2>5 DEF OneByOne
<1> QED
  BY <1>9, <1>10 DEF MigrationsInv

LEMMA WriteBackupKeeps ==
    ASSUME Shapes, Shapes', MigrationsInv, NEW p \in Procs, WriteBackup(p)
    PROVE  MigrationsInv'
<1>1. /\ proc[p].pc = "m:backup" /\ used' = used
      /\ main' = main /\ wal' = wal /\ made' = made /\ overlap' = overlap
      /\ migrations' = [migrations EXCEPT ![proc[p].migration].backup = proc[p].image]
  BY DEF WriteBackup, At, Move
<1>2. /\ MigrationShape(proc[p]) /\ proc[p].migration \in DOMAIN migrations
      /\ proc[p].image \in Database(made) /\ proc[p].image.commits = Seen(p)
      /\ migrations[proc[p].migration] \in Plan(made)
  BY <1>1, MigrationAt DEF MigrationPC
<1>3. proc[p].image # Missing
  BY <1>2 DEF Database, Missing
<1>4. /\ migrations' \in Seq(Plan(made)) /\ DOMAIN migrations' = DOMAIN migrations
      /\ \A k \in DOMAIN migrations :
                /\ migrations'[k].seen = migrations[k].seen
                /\ \/ migrations'[k].backup = migrations[k].backup
                   \/ migrations'[k].backup.commits = migrations[k].seen
                /\ \/ migrations'[k].temporary = Missing
                   \/ migrations'[k].temporary.commits = migrations[k].seen
  BY <1>1, <1>2, <1>3, PlanFile DEF Seen
<1> DEFINE r == [proc[p] EXCEPT !.pc = "m:copy"]
<1>5. MigrationShape(r) /\ r.pc = "m:copy" /\ r.migration = proc[p].migration /\ r.image = proc[p].image
  BY <1>2, MigrationTurns DEF MigrationPC
<1> HIDE DEF r
<1>6. Set(p, r)
  BY DEF WriteBackup, Move, Goto, r
<1>7. migrations'[proc[p].migration].backup.commits = Seen(p)
  <2>1. migrations[proc[p].migration].backup \in Database(made) \cup {Missing}
    BY <1>2 DEF Plan
  <2>2. migrations'[proc[p].migration].backup = proc[p].image
    <3>1. migrations'[proc[p].migration] = [migrations[proc[p].migration] EXCEPT !.backup = proc[p].image]
      BY <1>1, <1>2 DEF MigrationsInv, MigrationTypes
    <3> QED
      BY <1>2, <3>1 DEF Plan
  <2> QED
    BY <1>2, <2>2
<1>8. BeforeLog(proc[p])
  BY <1>1 DEF BeforeLog
<1> QED
  BY <1>1, <1>2, <1>4, <1>5, <1>6, <1>7, <1>8, MigrationGoesOn

\* Steps that put the temporary database, or read it.
LEMMA TemporaryKeeps ==
    ASSUME Shapes, Shapes', MigrationsInv, NEW p \in Procs,
           WriteTemporary(p) \/ Migrate(p) \/ Load(p) \/ RemoveTemporary(p)
    PROVE  MigrationsInv'
<1>1. /\ proc[p].pc \in {"m:copy", "m:migrate", "m:load", "m:clean"} /\ used' = used
      /\ main' = main /\ wal' = wal /\ made' = made /\ overlap' = overlap
  BY DEF WriteTemporary, Migrate, Load, RemoveTemporary, At, Move, Finish, Become, migrationVars
<1>2. /\ MigrationShape(proc[p]) /\ proc[p].migration \in DOMAIN migrations
      /\ proc[p].image \in Database(made) /\ proc[p].image.commits = Seen(p)
      /\ migrations[proc[p].migration] \in Plan(made)
  BY <1>1, MigrationAt DEF MigrationPC
<1> DEFINE m == proc[p].migration
           Files == /\ migrations' \in Seq(Plan(made)) /\ DOMAIN migrations' = DOMAIN migrations
                    /\ \A k \in DOMAIN migrations :
                          /\ migrations'[k].seen = migrations[k].seen
                          /\ \/ migrations'[k].backup = migrations[k].backup
                             \/ migrations'[k].backup.commits = migrations[k].seen
                          /\ \/ migrations'[k].temporary = Missing
                             \/ migrations'[k].temporary.commits = migrations[k].seen
<1>3. ASSUME NEW x \in Database(made) \cup {Missing}, x = Missing \/ x.commits = Seen(p), Temporary(p, x)
      PROVE  Files
  BY <1>2, <1>3, PlanFile DEF Temporary, Seen
<1>4. UNCHANGED migrations => Files
  BY DEF MigrationsInv, MigrationTypes
<1> HIDE DEF Files
<1>5. CASE WriteTemporary(p)
  <2>1. Files
    BY <1>2, <1>3, <1>5 DEF WriteTemporary
  <2> DEFINE r == [proc[p] EXCEPT !.pc = "m:migrate"]
  <2>2. MigrationShape(r) /\ r.pc = "m:migrate" /\ r.migration = m /\ r.image = proc[p].image
    BY <1>2, MigrationTurns DEF MigrationPC
  <2> HIDE DEF r
  <2>3. Set(p, r) /\ proc[p].pc = "m:copy"
    BY <1>5 DEF WriteTemporary, Move, Goto, At, r
  <2> QED
    BY <1>1, <1>2, <2>1, <2>2, <2>3, MigrationGoesOn DEF Files, BeforeLog
<1>6. CASE Migrate(p)
  <2>1. CASE migrations[m].temporary.version = 1
    <3>1. [proc[p].image EXCEPT !.version = 2] \in Database(made)
          /\ [proc[p].image EXCEPT !.version = 2].commits = Seen(p)
      BY <1>2 DEF Database
    <3>2. Files
      BY <1>3, <1>6, <2>1, <3>1 DEF Migrate
    <3> DEFINE r == [proc[p] EXCEPT !.pc = "m:load"]
    <3>3. MigrationShape(r) /\ r.pc = "m:load" /\ r.migration = m /\ r.image = proc[p].image
      BY <1>2, MigrationTurns DEF MigrationPC
    <3> HIDE DEF r
    <3>4. Set(p, r) /\ proc[p].pc = "m:migrate"
      BY <1>6, <2>1 DEF Migrate, Move, Goto, At, r
    <3> QED
      BY <1>1, <1>2, <3>2, <3>3, <3>4, MigrationGoesOn DEF Files, BeforeLog
  <2>2. CASE migrations[m].temporary.version # 1
    <3>1. Set(p, Idle) /\ Files
      BY <1>4, <1>6, <2>2 DEF Migrate, Finish, Become
    <3> QED
      BY <1>1, <1>2, <3>1, MigrationGoesOn DEF Files
  <2> QED
    BY <2>1, <2>2
<1>7. CASE Load(p)
  <2>0. Files
    BY <1>4, <1>7 DEF Load, migrationVars
  <2>1. CASE migrations[m].temporary = Missing
    <3>1. Set(p, Idle)
      BY <1>7, <2>1 DEF Load, Finish, Become
    <3> QED
      BY <1>1, <1>2, <2>0, <3>1, MigrationGoesOn DEF Files
  <2>2. CASE migrations[m].temporary # Missing
    <3> DEFINE x == migrations[m].temporary
               r == [proc[p] EXCEPT !.pc = "m:log", !.image = x]
    <3>1. Set(p, r) /\ proc[p].pc = "m:load"
      BY <1>7, <2>2 DEF Load, Become, At
    <3>2. x \in Database(made) /\ x.commits = Seen(p)
      BY <1>2, <2>2 DEF Plan, MigrationsInv, MigrationTypes, Seen
    <3>3. MigrationShape(r) /\ r.pc = "m:log" /\ r.migration = m /\ r.image = x
      BY <1>2 DEF MigrationShape, Has, MigrationPC
    <3> HIDE DEF r
    <3> QED
      BY <1>1, <1>2, <2>0, <3>1, <3>2, <3>3, MigrationGoesOn DEF Files, BeforeLog
  <2> QED
    BY <2>1, <2>2
<1>8. CASE RemoveTemporary(p)
  <2>1. Set(p, Idle) /\ Files
    BY <1>3, <1>8 DEF RemoveTemporary, Finish, Become
  <2> QED
    BY <1>1, <1>2, <2>1, MigrationGoesOn DEF Files
<1> QED
  BY <1>5, <1>6, <1>7, <1>8

\* The log is removed, then the database replaced.
LEMMA ReplaceKeeps ==
    ASSUME Shapes, Shapes', MigrationsInv, NEW p \in Procs, RemoveLog(p) \/ Swap(p)
    PROVE  MigrationsInv'
<1>1. /\ proc[p].pc \in {"m:log", "m:swap"} /\ used' = used
      /\ migrations' = migrations /\ made' = made /\ overlap' = overlap /\ Kept' = Kept
  BY DEF RemoveLog, Swap, At, Move, Kept
<1>2. /\ MigrationShape(proc[p]) /\ proc[p].migration \in DOMAIN migrations
      /\ proc[p].image \in Database(made) /\ proc[p].image.commits = Seen(p)
      /\ migrations[proc[p].migration] \in Plan(made)
  BY <1>1, MigrationAt DEF MigrationPC
<1>3. PICK pc \in {"m:swap", "m:clean"} : Set(p, [proc[p] EXCEPT !.pc = pc])
  BY DEF RemoveLog, Swap, Move, Goto
<1> DEFINE r == [proc[p] EXCEPT !.pc = pc]
<1>4. MigrationShape(r) /\ r.pc = pc /\ r.migration = proc[p].migration /\ r.image = proc[p].image
  <2>1. pc \in MigrationPC
    BY DEF MigrationPC
  <2> QED
    BY <1>2, <2>1, MigrationTurns
<1> HIDE DEF r
<1>5. /\ \A q : q # p => /\ q \in Migrating' <=> q \in Migrating
                         /\ q \in Migrating => proc'[q] = proc[q]
      /\ proc'[p] = r /\ p \in Migrating /\ p \in Migrating'
  BY <1>2, <1>3, <1>4, MigrationMover DEF r
<1>6. main' \in Database(made) /\ wal' \subseteq made
  BY <1>2 DEF RemoveLog, Swap, MigrationsInv, MigrationTypes
<1>7. MigrationTypes'
  <2>1. \A q \in Migrating' : /\ proc'[q].migration \in DOMAIN migrations /\ proc'[q].image \in Database(made)
                              /\ proc'[q].image.commits = migrations[proc'[q].migration].seen
    BY <1>2, <1>4, <1>5 DEF MigrationsInv, MigrationTypes, Seen
  <2> QED
    BY <1>1, <1>6, <2>1 DEF MigrationsInv, MigrationTypes
<1>8. Seen(p)' = Seen(p) /\ Saved(p)' = Saved(p)
  BY <1>1, <1>4, <1>5 DEF Seen, Saved
<1>9. Seen(p) \subseteq made
  BY <1>2 DEF Database
<1>10. OneByOne'
  <2> SUFFICES ASSUME ~ overlap PROVE OneByOne'
    BY <1>1 DEF OneByOne
  <2>1. Migrating = {p} /\ Migrating' = {p} /\ Alone(p) /\ made \subseteq main.commits \cup wal \cup Kept
    BY <1>5 DEF MigrationsInv, OneByOne
  <2>2. Saved(p) = Seen(p)
    BY <1>1, <2>1 DEF Alone
  <2>3. Saved(p) \subseteq Kept
    BY <1>2 DEF Saved, Kept
  <2>4. used["fault"] = 0 => Unhurt(p)
    BY <2>1 DEF MigrationsInv, OneByOne
  <2>5. CASE RemoveLog(p)
    <3>1. proc[p].pc = "m:log" /\ wal' = {} /\ main' = main
      BY <2>5 DEF RemoveLog, At
    <3>2. proc'[p].pc = "m:swap"
      <4>1. proc'[p] = [proc[p] EXCEPT !.pc = "m:swap"]
        BY <2>5, SetDoes DEF RemoveLog, Move, Goto
      <4> QED
        BY <1>2, <4>1 DEF MigrationShape, Has
    <3>3. main.version = 1 /\ Seen(p) = main.commits \cup wal
      BY <2>1, <3>1 DEF Alone, BeforeLog
    <3>4. Alone(p)'
      BY <1>8, <2>2, <3>1, <3>2, <3>3 DEF Alone, BeforeLog
    <3>5. used["fault"] = 0 => Unhurt(p)'
      BY <1>1, <1>8, <2>4, <3>1, <3>2, <3>3 DEF Unhurt
    <3> QED
      BY <1>1, <2>1, <2>2, <2>3, <3>1, <3>3, <3>4, <3>5 DEF OneByOne
  <2>6. CASE Swap(p)
    <3>1. proc[p].pc = "m:swap" /\ wal' = wal /\ main' = proc[p].image
      BY <2>6 DEF Swap, At
    <3>2. proc'[p].pc = "m:clean"
      <4>1. proc'[p] = [proc[p] EXCEPT !.pc = "m:clean"]
        BY <2>6, SetDoes DEF Swap, Move, Goto
      <4> QED
        BY <1>2, <4>1 DEF MigrationShape, Has
    <3>3. wal = {} /\ main.commits \subseteq Seen(p)
      BY <2>1, <3>1 DEF Alone
    <3>4. Alone(p)'
      BY <1>8, <2>2, <3>1, <3>2, <3>3 DEF Alone, BeforeLog
    <3>5. used["fault"] = 0 => Unhurt(p)'
      BY <1>1, <1>2, <1>8, <2>4, <3>1, <3>2, <3>3 DEF Unhurt
    <3>6. made \subseteq main'.commits \cup wal' \cup Kept
      BY <1>2, <2>1, <3>1, <3>3
    <3> QED
      BY <1>1, <2>1, <3>1, <3>4, <3>5, <3>6 DEF OneByOne
  <2> QED
    BY <2>5, <2>6
<1> QED
  BY <1>7, <1>10 DEF MigrationsInv

LEMMA MigrationStepKeeps ==
    ASSUME Shapes, Shapes', MigrationsInv, Step
    PROVE  MigrationsInv'
<1>1. ASSUME NEW p \in Procs, MigrationStep(p) PROVE MigrationsInv'
  BY <1>1, ApplyMigrationKeeps, WriteBackupKeeps, TemporaryKeeps, ReplaceKeeps DEF MigrationStep
<1>2. CASE MigrationsStep
  BY <1>1, <1>2, PlanMigrationKeeps, ElsewhereKeeps DEF MigrationsStep
<1>3. CASE ~ MigrationsStep
  BY <1>3, MigrationFrame, MigrationKept
<1> QED
  BY <1>2, <1>3

LEMMA MigrationsHold == Spec => []MigrationsInv
<1>1. Init => MigrationsInv
  <2> SUFFICES ASSUME Init PROVE MigrationsInv
    OBVIOUS
  <2>1. /\ Migrating = {} /\ main = [version |-> 1, commits |-> {1}] /\ migrations = <<>>
        /\ made = main.commits \cup wal
    BY DEF Init, WorkInit, Migrating, Busy, MigrationInit
  <2>2. main \in Database(made)
    BY <2>1 DEF Database
  <2>3. DOMAIN migrations = {} /\ migrations \in Seq(Plan(made))
    BY <2>1
  <2> QED
    BY <2>1, <2>2, <2>3 DEF MigrationsInv, MigrationTypes, OneByOne
<1>2. Shapes /\ Shapes' /\ MigrationsInv /\ [Next]_vars => MigrationsInv'
  <2>1. ASSUME Shapes, Shapes', MigrationsInv, UNCHANGED vars PROVE MigrationsInv'
    BY <2>1, MigrationKept DEF vars, workVars, otherVars
  <2> QED
    BY <2>1, MigrationStepKeeps DEF Next
<1> QED
  BY <1>1, <1>2, ShapesHold, PTL DEF Spec

\* Migrations that come one after another lose no commit: whatever step of them a
\* kill cuts short, what is not in the database or its log is in the backup file of
\* a migration plan; and without a kill it is in the database
\* (applyDatabaseMigrationPlan, with commits before and after it).
THEOREM NoCommitIsLost == Spec => []CommitsSurvive
<1>1. MigrationsInv => CommitsSurvive
  BY DEF MigrationsInv, OneByOne, CommitsSurvive, AtRest, Kept, Migrating
<1> QED
  BY <1>1, MigrationsHold, PTL

-----------------------------------------------------------------------------
(* The backups *)

Content == [manifest : Nat, named : SUBSET Blobs, stored : SUBSET Blobs]
BackupRow == [state : {"creating", "ready", "failed"}, manifest : Nat, dir : Content]
RestorePlan == [backup : Nat, target : Roots, manifest : Nat, applied : BOOLEAN, staging : BOOLEAN]
Restoring == {p \in Procs : proc[p].pc \in RestorePC}

\* An archive and a purge are about a file.
OfFile(c) ==
    /\ c.pc = "b:name" => c.blob \in Blobs
    /\ c.pc = "b:drop" => c.victim \in Blobs

BackupTypes ==
    /\ stored \subseteq Blobs /\ named \subseteq Blobs
    /\ backups \in Seq(BackupRow) /\ restores \in Seq(RestorePlan) /\ targets \in [Roots -> Content]
    /\ \A r \in DOMAIN restores : restores[r].backup \in DOMAIN backups
    /\ \A p \in Saving : proc[p].backup \in DOMAIN backups /\ proc[p].image \in Content
    /\ \A p \in Restoring : proc[p].restore \in DOMAIN restores /\ proc[p].image \in Content
    /\ \A p \in Procs : OfFile(proc[p])

\* Whoever saves or restores has the lock.
LockInv == \A p \in Saving \cup Restoring : holder = {p}

\* While a backup is settled, no file is gone that the database names or will name.
Settled(p) == proc[p].image.manifest \notin unsettled
SaveInv ==
    \A p \in Saving :
        /\ backups[proc[p].backup].state = "ready" => proc[p].backup \in remade
        /\ proc[p].pc = "b:ready" => backups[proc[p].backup].dir = proc[p].image
        /\ Settled(p) =>
             /\ Purging = {} /\ named \cup Naming \subseteq stored
             /\ proc[p].pc = "b:copy" => proc[p].image.named \subseteq stored
             /\ proc[p].pc \in {"b:remove", "b:place", "b:ready"} => DeepPass(proc[p].image)

ReadyInv ==
    \A b \in DOMAIN backups \ remade : backups[b].state = "ready" =>
        /\ backups[b].dir.manifest = backups[b].manifest
        /\ backups[b].manifest \notin unsettled => DeepPass(backups[b].dir)

\* A restore has checked the backup that its plan saw, and fills its target from it.
RestoreInv ==
    \A p \in Restoring :
        /\ proc[p].pc = "b:fill" => backups[PlanOf(p).backup].dir.manifest = PlanOf(p).manifest
        /\ proc[p].pc = "b:install" =>
             DeepPass(proc[p].image) /\ proc[p].image.manifest = PlanOf(p).manifest

TargetInv ==
    \A t \in Roots : targets[t] # Nothing =>
        /\ DeepPass(targets[t])
        /\ \E r \in DOMAIN restores : restores[r].target = t /\ restores[r].manifest = targets[t].manifest

BackupsInv == BackupTypes /\ LockInv /\ SaveInv /\ ReadyInv /\ RestoreInv /\ TargetInv

\* Which command a process of the backups is in.
LEMMA BackupRoles ==
    ASSUME NEW P, DOMAIN P = Procs, \A p \in Procs : Shape(P[p])
    PROVE  \A p \in Procs :
             /\ (P[p] # Idle /\ "backup" \in DOMAIN P[p]) <=> P[p].pc \in SavePC
             /\ (P[p] # Idle /\ "victim" \in DOMAIN P[p]) <=> P[p].pc = "b:drop"
             /\ (P[p] # Idle /\ "blob" \in DOMAIN P[p]) <=> P[p].pc = "b:name"
             /\ P[p].pc \in BackupPC => BackupShape(P[p])
<1> SUFFICES ASSUME NEW p \in Procs
             PROVE  /\ (P[p] # Idle /\ "backup" \in DOMAIN P[p]) <=> P[p].pc \in SavePC
                    /\ (P[p] # Idle /\ "victim" \in DOMAIN P[p]) <=> P[p].pc = "b:drop"
                    /\ (P[p] # Idle /\ "blob" \in DOMAIN P[p]) <=> P[p].pc = "b:name"
                    /\ P[p].pc \in BackupPC => BackupShape(P[p])
  OBVIOUS
<1>1. Shape(P[p])
  OBVIOUS
<1>2. P[p].pc \in BackupPC => BackupShape(P[p])
  BY <1>1, ShapeOf
<1>3. CASE BackupShape(P[p])
  BY <1>2, <1>3, Disjoint DEF BackupShape, Has, SavePC, RestorePC
<1>4. CASE ~ BackupShape(P[p])
  <2>1. P[p].pc \notin BackupPC
    BY <1>2, <1>4
  <2>2. {"backup", "victim", "blob"} \cap DOMAIN P[p] = {}
    BY <1>1, <1>4 DEF Shape, Idle, PlanShape, DaemonShape, MigrationShape, InitShape, ConfigShape, Has
  <2> QED
    BY <1>4, <2>1, <2>2 DEF BackupPC, SavePC
<1> QED
  BY <1>3, <1>4

LEMMA RolesAre ==
    ASSUME Shapes
    PROVE  /\ \A p : p \in Saving <=> p \in Procs /\ proc[p].pc \in SavePC
           /\ \A p : p \in Purging <=> p \in Procs /\ proc[p].pc = "b:drop"
           /\ \A b : b \in Naming <=> \E p \in Procs : proc[p].pc = "b:name" /\ proc[p].blob = b
           /\ \A p \in Procs : proc[p].pc \in BackupPC => BackupShape(proc[p])
<1>1. \A p \in Procs :
             /\ (proc[p] # Idle /\ "backup" \in DOMAIN proc[p]) <=> proc[p].pc \in SavePC
             /\ (proc[p] # Idle /\ "victim" \in DOMAIN proc[p]) <=> proc[p].pc = "b:drop"
             /\ (proc[p] # Idle /\ "blob" \in DOMAIN proc[p]) <=> proc[p].pc = "b:name"
             /\ proc[p].pc \in BackupPC => BackupShape(proc[p])
  BY BackupRoles DEF Shapes
<1> QED
  BY <1>1 DEF Saving, Purging, Naming, Busy

LEMMA RolesNext ==
    ASSUME Shapes'
    PROVE  /\ \A p : p \in Saving' <=> p \in Procs /\ proc'[p].pc \in SavePC
           /\ \A p : p \in Purging' <=> p \in Procs /\ proc'[p].pc = "b:drop"
           /\ \A b : b \in Naming' <=> \E p \in Procs : proc'[p].pc = "b:name" /\ proc'[p].blob = b
           /\ \A p \in Procs : proc'[p].pc \in BackupPC => BackupShape(proc'[p])
<1>1. DOMAIN proc' = Procs /\ \A p \in Procs : Shape(proc'[p])
  BY DEF Shapes
<1>2. \A p \in Procs :
             /\ (proc'[p] # Idle /\ "backup" \in DOMAIN proc'[p]) <=> proc'[p].pc \in SavePC
             /\ (proc'[p] # Idle /\ "victim" \in DOMAIN proc'[p]) <=> proc'[p].pc = "b:drop"
             /\ (proc'[p] # Idle /\ "blob" \in DOMAIN proc'[p]) <=> proc'[p].pc = "b:name"
             /\ proc'[p].pc \in BackupPC => BackupShape(proc'[p])
  BY <1>1, BackupRoles
<1> QED
  BY <1>2 DEF Saving, Purging, Naming, Busy

\* Other commands leave the backups alone; a kill frees the lock of its process.
LEMMA BackupFrame ==
    ASSUME Shapes, Shapes', Step, ~ BackupsStep
    PROVE  /\ UNCHANGED <<stored, named, backups, restores, targets, unsettled, remade>>
           /\ \A q \in Procs : proc'[q].pc \in BackupPC
                 => proc'[q] = proc[q] /\ (q \in holder => q \in holder')
           /\ holder' \subseteq holder
<1>1. ASSUME NEW p \in Procs, Kill(p)
      PROVE  /\ UNCHANGED <<stored, named, backups, restores, targets, unsettled, remade>>
             /\ \A q \in Procs : proc'[q].pc \in BackupPC
                   => proc'[q] = proc[q] /\ (q \in holder => q \in holder')
             /\ holder' \subseteq holder
  <2>1. UNCHANGED <<stored, named, backups, restores, targets, unsettled, remade>> /\ holder' = holder \ {p}
    BY <1>1 DEF Kill
  <2>2. proc'[p] = Idle /\ \A q \in Procs : q # p => proc'[q] = proc[q]
    BY <1>1, KillActs
  <2>3. Idle.pc \notin BackupPC
    BY DEF Idle, BackupPC, SavePC, RestorePC
  <2> QED
    BY <2>1, <2>2, <2>3
<1>2. CASE ~ \E p \in Procs : Kill(p)
  <2>1. backupVars' = backupVars
    BY <1>2 DEF Step, NoteAndPlanStep, DaemonsStep, MigrationsStep, InitsStep, ConfigsStep, otherVars
  <2>2. \A q \in Procs : BackupShape(proc'[q]) => proc'[q] = proc[q]
    BY <1>2, StepGroups, Disjoint DEF PlanMoves, PlanSlot, DaemonMoves, DaemonSlot, ConfigMoves,
       ConfigSlot, MigrationMoves, MigrationSlot, InitMoves, InitSlot
  <2>3. \A q \in Procs : proc'[q].pc \in BackupPC => BackupShape(proc'[q])
    BY RolesNext
  <2> QED
    BY <2>1, <2>2, <2>3 DEF backupVars
<1> QED
  BY <1>1, <1>2

LEMMA BackupKept ==
    ASSUME Shapes, Shapes', BackupsInv,
           UNCHANGED <<stored, named, backups, restores, targets, unsettled, remade>>,
           \A q \in Procs : proc'[q].pc \in BackupPC
              => proc'[q] = proc[q] /\ (q \in holder => q \in holder'),
           holder' \subseteq holder
    PROVE  BackupsInv'
<1>1. /\ stored' = stored /\ named' = named /\ backups' = backups /\ restores' = restores
      /\ targets' = targets /\ unsettled' = unsettled /\ remade' = remade
  OBVIOUS
<1>2. \A q \in Saving' : q \in Saving /\ proc'[q] = proc[q] /\ (q \in holder => q \in holder')
  BY RolesAre, RolesNext DEF BackupPC
<1>3. \A q \in Restoring' : q \in Restoring /\ proc'[q] = proc[q] /\ (q \in holder => q \in holder')
  BY DEF Restoring, BackupPC
<1>4. Purging' \subseteq Purging /\ Naming' \subseteq Naming
  BY RolesAre, RolesNext DEF BackupPC
<1>5. BackupTypes'
  <2>1. \A p \in Procs : OfFile(proc'[p])
    BY DEF BackupPC, BackupsInv, BackupTypes, OfFile
  <2> QED
    BY <1>1, <1>2, <1>3, <2>1 DEF BackupsInv, BackupTypes
<1>6. LockInv'
  BY <1>2, <1>3 DEF BackupsInv, LockInv
<1>7. SaveInv'
  BY <1>1, <1>2, <1>4 DEF BackupsInv, SaveInv, Settled, DeepPass
<1>8. ReadyInv' /\ TargetInv'
  BY <1>1 DEF BackupsInv, ReadyInv, TargetInv, DeepPass
<1>9. RestoreInv'
  BY <1>1, <1>3 DEF BackupsInv, RestoreInv, PlanOf, DeepPass
<1> QED
  BY <1>5, <1>6, <1>7, <1>8, <1>9 DEF BackupsInv

\* A process takes a step: what the others are in stays.
LEMMA BackupMover ==
    ASSUME Shapes, Shapes', NEW p \in Procs, NEW r, Set(p, r)
    PROVE  /\ proc'[p] = r
           /\ \A q \in Procs : q # p => proc'[q] = proc[q]
           /\ \A q : q # p => /\ q \in Saving' <=> q \in Saving
                              /\ q \in Restoring' <=> q \in Restoring
                              /\ q \in Purging' <=> q \in Purging
           /\ p \in Saving' <=> r.pc \in SavePC
           /\ p \in Restoring' <=> r.pc \in RestorePC
           /\ p \in Purging' <=> r.pc = "b:drop"
           /\ \A b \in Naming' : b \in Naming \/ (r.pc = "b:name" /\ r.blob = b)
<1>1. proc'[p] = r /\ \A q \in Procs : q # p => proc'[q] = proc[q]
  BY SetDoes
<1> QED
  BY <1>1, RolesAre, RolesNext DEF Restoring

\* Nobody else saves or restores.
LEMMA Exclusive ==
    ASSUME Shapes, BackupsInv, NEW p \in Saving \cup Restoring
    PROVE  holder = {p} /\ \A q \in Saving \cup Restoring : q = p
BY DEF BackupsInv, LockInv

\* A change of one row of the backups.
LEMMA BackupRowDoes ==
    ASSUME BackupsInv, NEW b \in DOMAIN backups, NEW y \in BackupRow, backups' = [backups EXCEPT ![b] = y]
    PROVE  /\ backups' \in Seq(BackupRow) /\ DOMAIN backups' = DOMAIN backups /\ backups'[b] = y
           /\ \A k \in DOMAIN backups : k # b => backups'[k] = backups[k]
BY DEF BackupsInv, BackupTypes

\* A backup goes on: its image, its directory.
LEMMA SaverGoesOn ==
    ASSUME Shapes, Shapes', BackupsInv, NEW p \in Procs, proc[p].pc \in SavePC, NEW r, Set(p, r),
           r.pc \in SavePC, r.backup = proc[p].backup, r.image \in Content,
           r.image.manifest = proc[p].image.manifest,
           UNCHANGED <<stored, named, holder, restores, targets, unsettled, remade>>,
           NEW d \in Content, backups' = [backups EXCEPT ![r.backup].dir = d],
           r.pc = "b:ready" => d = r.image,
           Settled(p) /\ r.pc = "b:copy" => r.image.named \subseteq stored,
           Settled(p) /\ r.pc \in {"b:remove", "b:place", "b:ready"} => DeepPass(r.image)
    PROVE  BackupsInv'
<1>1. p \in Saving /\ r.backup \in DOMAIN backups /\ backups[r.backup] \in BackupRow
  BY RolesAre DEF BackupsInv, BackupTypes
<1>2. holder = {p} /\ \A q \in Saving \cup Restoring : q = p
  BY <1>1, Exclusive
<1>3. proc'[p] = r /\ Saving' = {p} /\ Restoring' = {} /\ Purging' = Purging /\ Naming' \subseteq Naming
  <2>1. r.pc \notin RestorePC /\ r.pc # "b:drop" /\ r.pc # "b:name" /\ proc[p].pc # "b:drop"
    BY DEF SavePC, RestorePC
  <2>2. /\ proc'[p] = r
        /\ \A q : q # p => /\ q \in Saving' <=> q \in Saving
                           /\ q \in Restoring' <=> q \in Restoring
                           /\ q \in Purging' <=> q \in Purging
        /\ p \in Saving' <=> r.pc \in SavePC
        /\ p \in Restoring' <=> r.pc \in RestorePC
        /\ p \in Purging' <=> r.pc = "b:drop"
        /\ \A b \in Naming' : b \in Naming \/ (r.pc = "b:name" /\ r.blob = b)
    BY BackupMover
  <2>3. p \notin Purging
    BY <2>1, RolesAre
  <2> QED
    BY <1>1, <1>2, <2>1, <2>2, <2>3
<1> DEFINE y == [backups[r.backup] EXCEPT !.dir = d]
<1>4. /\ y \in BackupRow /\ y.dir = d /\ y.state = backups[r.backup].state
      /\ y.manifest = backups[r.backup].manifest
  BY <1>1 DEF BackupRow
<1>5. backups' = [backups EXCEPT ![r.backup] = y]
  OBVIOUS
<1> HIDE DEF y
<1>6. /\ backups' \in Seq(BackupRow) /\ DOMAIN backups' = DOMAIN backups /\ backups'[r.backup] = y
      /\ \A k \in DOMAIN backups : k # r.backup => backups'[k] = backups[k]
  BY <1>1, <1>4, <1>5, BackupRowDoes
<1>7. BackupTypes'
  <2>1. \A q \in Procs : OfFile(proc'[q])
    <3>1. r.pc # "b:name" /\ r.pc # "b:drop"
      BY DEF SavePC
    <3> QED
      BY <3>1, BackupMover DEF BackupsInv, BackupTypes, OfFile
  <2> QED
    BY <1>1, <1>3, <1>6, <2>1 DEF BackupsInv, BackupTypes
<1>8. LockInv'
  BY <1>2, <1>3 DEF LockInv
<1>9. SaveInv'
  <2>1. Settled(p)' <=> Settled(p)
    BY <1>3 DEF Settled
  <2>2. backups[r.backup].state = "ready" => r.backup \in remade
    BY <1>1 DEF BackupsInv, SaveInv
  <2>3. Settled(p) => Purging' = {} /\ named \cup Naming' \subseteq stored
    BY <1>1, <1>3 DEF BackupsInv, SaveInv
  <2> QED
    BY <1>3, <1>4, <1>6, <2>1, <2>2, <2>3 DEF SaveInv, DeepPass
<1>10. ReadyInv'
  <2>1. backups[r.backup].state = "ready" => r.backup \in remade
    BY <1>1 DEF BackupsInv, SaveInv
  <2>2. ASSUME NEW b \in DOMAIN backups \ remade, backups'[b].state = "ready"
        PROVE  backups'[b] = backups[b]
    BY <1>4, <1>6, <2>1, <2>2
  <2>3. DOMAIN backups' \ remade' = DOMAIN backups \ remade /\ unsettled' = unsettled
    BY <1>6
  <2>4. ASSUME NEW b \in DOMAIN backups \ remade, backups'[b].state = "ready"
        PROVE  /\ backups'[b].dir.manifest = backups'[b].manifest
               /\ backups'[b].manifest \notin unsettled => DeepPass(backups'[b].dir)
    BY <2>2, <2>4 DEF BackupsInv, ReadyInv
  <2> QED
    BY <2>3, <2>4 DEF ReadyInv, DeepPass
<1>11. RestoreInv' /\ TargetInv'
  BY <1>3 DEF RestoreInv, BackupsInv, TargetInv, DeepPass
<1> QED
  BY <1>7, <1>8, <1>9, <1>10, <1>11 DEF BackupsInv

LEMMA SaverAt ==
    ASSUME Shapes, BackupsInv, NEW p \in Procs, proc[p].pc \in SavePC
    PROVE  /\ p \in Saving /\ DOMAIN proc[p] = {"pc", "backup", "image"}
           /\ proc[p].backup \in DOMAIN backups /\ backups[proc[p].backup] \in BackupRow
           /\ proc[p].image \in Content
<1>1. p \in Saving
  BY RolesAre
<1>2. BackupShape(proc[p])
  BY RolesAre DEF BackupPC
<1>3. DOMAIN proc[p] = {"pc", "backup", "image"}
  BY <1>2 DEF BackupShape, Has, SavePC, RestorePC
<1> QED
  BY <1>1, <1>3 DEF BackupsInv, BackupTypes

LEMMA SavingKeeps ==
    ASSUME Shapes, Shapes', BackupsInv, NEW p \in Procs,
           Serialize(p) \/ CopyFiles(p) \/ RemoveFinal(p) \/ PlaceFinal(p)
    PROVE  BackupsInv'
<1>1. proc[p].pc \in {"b:serialize", "b:copy", "b:remove", "b:place"}
  BY DEF Serialize, CopyFiles, RemoveFinal, PlaceFinal, At
<1>2. /\ p \in Saving /\ DOMAIN proc[p] = {"pc", "backup", "image"}
      /\ proc[p].backup \in DOMAIN backups /\ backups[proc[p].backup] \in BackupRow
      /\ proc[p].image \in Content /\ proc[p].pc \in SavePC
  BY <1>1, SaverAt DEF SavePC
<1>3. UNCHANGED <<stored, named, holder, restores, targets, unsettled, remade>>
  BY DEF Serialize, CopyFiles, RemoveFinal, PlaceFinal, Image, Directory, backupVars
<1>4. stored \subseteq Blobs /\ named \subseteq Blobs
  BY DEF BackupsInv, BackupTypes
<1>5. Settled(p) =>
             /\ named \cup Naming \subseteq stored
             /\ proc[p].pc = "b:copy" => proc[p].image.named \subseteq stored
             /\ proc[p].pc \in {"b:remove", "b:place", "b:ready"} => DeepPass(proc[p].image)
  BY <1>2 DEF BackupsInv, SaveInv
<1> DEFINE own == backups[proc[p].backup].dir
<1>6. own \in Content /\ backups = [backups EXCEPT ![proc[p].backup].dir = own]
  <2>1. own \in Content
    BY <1>2 DEF BackupRow
  <2>2. backups \in Seq(BackupRow)
    BY DEF BackupsInv, BackupTypes
  <2>3. backups[proc[p].backup] = [backups[proc[p].backup] EXCEPT !.dir = own]
    BY <1>2 DEF BackupRow
  <2> QED
    BY <1>2, <2>1, <2>2, <2>3
<1>7. Nothing \in Content
  BY DEF Nothing, Content
<1> HIDE DEF own
<1>8. CASE Serialize(p)
  <2> DEFINE x == [proc[p].image EXCEPT !.named = named]
             r == [proc[p] EXCEPT !.pc = "b:copy", !.image = x]
  <2>1. x \in Content /\ x.named = named /\ x.manifest = proc[p].image.manifest
    BY <1>2, <1>4 DEF Content
  <2>2. Set(p, r) /\ backups' = backups
    BY <1>8 DEF Serialize, Image, Become, backupVars
  <2>3. r.pc = "b:copy" /\ r.backup = proc[p].backup /\ r.image = x
    BY <1>2
  <2> HIDE DEF r, x
  <2> QED
    BY <1>2, <1>3, <1>5, <1>6, <2>1, <2>2, <2>3, SaverGoesOn DEF SavePC
<1>9. CASE CopyFiles(p)
  <2> DEFINE x == [proc[p].image EXCEPT !.stored = stored]
             r == [proc[p] EXCEPT !.pc = "b:remove", !.image = x]
  <2>1. /\ x \in Content /\ x.named = proc[p].image.named /\ x.stored = stored
        /\ x.manifest = proc[p].image.manifest
    BY <1>2, <1>4 DEF Content
  <2>2. Set(p, r) /\ backups' = backups /\ proc[p].pc = "b:copy"
    BY <1>9 DEF CopyFiles, Image, Become, backupVars, At
  <2>3. r.pc = "b:remove" /\ r.backup = proc[p].backup /\ r.image = x
    BY <1>2
  <2> HIDE DEF r, x
  <2>4. Settled(p) => DeepPass(x)
    BY <1>5, <2>1, <2>2 DEF DeepPass
  <2> QED
    BY <1>2, <1>3, <1>6, <2>1, <2>2, <2>3, <2>4, SaverGoesOn DEF SavePC
<1>10. CASE RemoveFinal(p) \/ PlaceFinal(p)
  <2>1. PICK pc \in {"b:place", "b:ready"}, d \in {Nothing, proc[p].image} :
           /\ Set(p, [proc[p] EXCEPT !.pc = pc]) /\ backups' = [backups EXCEPT ![proc[p].backup].dir = d]
           /\ pc = "b:ready" => d = proc[p].image
           /\ proc[p].pc \in {"b:remove", "b:place", "b:ready"}
    BY <1>10 DEF RemoveFinal, PlaceFinal, Directory, Move, Goto, At
  <2> DEFINE r == [proc[p] EXCEPT !.pc = pc]
  <2>2. r.pc = pc /\ r.backup = proc[p].backup /\ r.image = proc[p].image
    BY <1>2
  <2> HIDE DEF r
  <2>3. Set(p, r) /\ backups' = [backups EXCEPT ![r.backup].dir = d]
    BY <2>1, <2>2 DEF r
  <2>4. d \in Content
    BY <1>2, <1>7
  <2>5. r.pc \in SavePC /\ r.pc # "b:copy" /\ (r.pc = "b:ready" => d = r.image)
    BY <2>1, <2>2 DEF SavePC
  <2>6. Settled(p) => DeepPass(r.image)
    BY <1>5, <2>1, <2>2
  <2> QED
    BY <1>2, <1>3, <2>2, <2>3, <2>4, <2>5, <2>6, SaverGoesOn
<1> QED
  BY <1>8, <1>9, <1>10

\* A backup ends: what it leaves in its row, if it is ready, has its directory.
LEMMA SaverEnds ==
    ASSUME Shapes, Shapes', BackupsInv, NEW p \in Procs, CommitBackup(p) \/ FailBackup(p)
    PROVE  BackupsInv'
<1>1. proc[p].pc \in SavePC
  BY RolesAre DEF CommitBackup, FailBackup, At, SavePC
<1>2. /\ p \in Saving /\ proc[p].backup \in DOMAIN backups /\ backups[proc[p].backup] \in BackupRow
      /\ proc[p].image \in Content
  BY <1>1, SaverAt
<1>3. /\ Set(p, Idle) /\ stored' = stored /\ named' = named /\ restores' = restores /\ targets' = targets
      /\ unsettled' = unsettled
  BY DEF CommitBackup, FailBackup, Unlocked, Finish, Become
<1>4. holder = {p} /\ \A q \in Saving \cup Restoring : q = p
  BY <1>2, Exclusive
<1>5. Idle.pc \notin BackupPC
  BY DEF Idle, BackupPC, SavePC, RestorePC
<1>6. /\ proc'[p] = Idle /\ Saving' = {} /\ Restoring' = {}
      /\ \A q \in Procs : q # p => proc'[q] = proc[q]
  BY <1>3, <1>4, <1>5, BackupMover DEF BackupPC
<1> DEFINE b == proc[p].backup
<1>7. PICK y \in BackupRow :
         /\ backups' = [backups EXCEPT ![b] = y]
         /\ remade' \subseteq remade /\ remade \ {b} \subseteq remade'
         /\ \/ y.state = "failed"
            \/ /\ y.manifest = proc[p].image.manifest /\ y.dir = backups[b].dir
               /\ proc[p].pc = "b:ready"
  <2>1. CASE CommitBackup(p)
    <3> DEFINE y == [backups[b] EXCEPT !.state = "ready", !.manifest = proc[p].image.manifest]
    <3>1. y \in BackupRow /\ y.manifest = proc[p].image.manifest /\ y.dir = backups[b].dir
      BY <1>2 DEF BackupRow, Content
    <3>2. backups' = [backups EXCEPT ![b] = y] /\ remade' = remade \ {b}
      BY <1>2, <2>1 DEF CommitBackup, BackupsInv, BackupTypes
    <3>3. proc[p].pc = "b:ready"
      BY <2>1 DEF CommitBackup, At
    <3> QED
      BY <3>1, <3>2, <3>3
  <2>2. CASE FailBackup(p)
    <3> DEFINE y == [backups[b] EXCEPT !.state = "failed"]
    <3>1. y \in BackupRow /\ y.state = "failed"
      BY <1>2 DEF BackupRow
    <3>2. backups' = [backups EXCEPT ![b] = y] /\ remade' = remade
      BY <1>2, <2>2 DEF FailBackup, BackupsInv, BackupTypes
    <3> QED
      BY <3>1, <3>2
  <2> QED
    BY <2>1, <2>2
<1>8. /\ backups' \in Seq(BackupRow) /\ DOMAIN backups' = DOMAIN backups /\ backups'[b] = y
      /\ \A k \in DOMAIN backups : k # b => backups'[k] = backups[k]
  BY <1>2, <1>7, BackupRowDoes
<1>9. BackupTypes'
  <2>1. \A q \in Procs : OfFile(proc'[q])
    BY <1>5, <1>6 DEF BackupsInv, BackupTypes, BackupPC, OfFile
  <2> QED
    BY <1>3, <1>6, <1>8, <2>1 DEF BackupsInv, BackupTypes
<1>10. ReadyInv'
  <2>1. ASSUME y.state # "failed"
        PROVE  /\ y.dir.manifest = y.manifest
               /\ y.manifest \notin unsettled => DeepPass(y.dir)
    BY <1>2, <1>7, <2>1 DEF BackupsInv, SaveInv, Settled
  <2>2. ASSUME NEW k \in DOMAIN backups \ remade', k # b
        PROVE  k \notin remade /\ backups'[k] = backups[k]
    BY <1>7, <1>8, <2>2
  <2> QED
    BY <1>3, <1>8, <2>1, <2>2 DEF BackupsInv, ReadyInv, DeepPass
<1>11. LockInv' /\ SaveInv' /\ RestoreInv' /\ TargetInv'
  BY <1>3, <1>6 DEF LockInv, SaveInv, RestoreInv, BackupsInv, TargetInv, DeepPass
<1> QED
  BY <1>9, <1>10, <1>11 DEF BackupsInv

\* A command that is refused.
LEMMA RefusedKeeps ==
    ASSUME Shapes, Shapes', BackupsInv, NEW p \in Procs, proc[p].pc = "idle", Set(p, Idle),
           UNCHANGED <<stored, named, holder, backups, restores, targets, remade>>,
           unsettled \subseteq unsettled'
    PROVE  BackupsInv'
<1>1. Idle.pc \notin BackupPC /\ Idle.pc = "idle" /\ "idle" \notin BackupPC
  BY DEF Idle, BackupPC, SavePC, RestorePC
<1>2. \A q \in Procs : proc'[q].pc = proc[q].pc /\ (proc[q].pc \in BackupPC => proc'[q] = proc[q])
  BY <1>1, SetDoes
<1>3. /\ Saving' = Saving /\ Restoring' = Restoring /\ Purging' = Purging /\ Naming' \subseteq Naming
      /\ \A q \in Saving \cup Restoring : proc'[q] = proc[q]
  <2>1. \A q : q \in Saving' <=> q \in Saving
    BY <1>2, RolesAre, RolesNext
  <2>2. \A q : q \in Purging' <=> q \in Purging
    BY <1>2, RolesAre, RolesNext
  <2>3. \A b \in Naming' : b \in Naming
    BY <1>2, RolesAre, RolesNext DEF BackupPC
  <2>4. Restoring' = Restoring
    BY <1>2 DEF Restoring
  <2>5. \A q \in Saving \cup Restoring : proc'[q] = proc[q]
    BY <1>2, RolesAre DEF Restoring, BackupPC
  <2> QED
    BY <2>1, <2>2, <2>3, <2>4, <2>5
<1>4. BackupTypes'
  <2>1. \A q \in Procs : OfFile(proc'[q])
    BY <1>2 DEF BackupsInv, BackupTypes, BackupPC, OfFile
  <2> QED
    BY <1>3, <2>1 DEF BackupsInv, BackupTypes
<1>5. LockInv' /\ RestoreInv' /\ TargetInv'
  BY <1>3 DEF BackupsInv, LockInv, RestoreInv, TargetInv, DeepPass, PlanOf
<1>6. SaveInv'
  BY <1>3 DEF BackupsInv, SaveInv, Settled, DeepPass
<1>7. ReadyInv'
  BY DEF BackupsInv, ReadyInv, DeepPass
<1> QED
  BY <1>4, <1>5, <1>6, <1>7 DEF BackupsInv

LEMMA CreateBackupKeeps ==
    ASSUME Shapes, Shapes', BackupsInv, NEW p \in Procs, CreateBackup(p)
    PROVE  BackupsInv'
<1> DEFINE m == used["backup"] + used["again"] + 1
<1>1. PICK kind \in {"backup", "again"}, b \in 1 .. Len(backups) + 1 :
        /\ kind = "backup" <=> b > Len(backups)
        /\ Locked(p, kind, [pc |-> "b:serialize", backup |-> b, image |-> [Nothing EXCEPT !.manifest = m]])
        /\ unsettled' = IF Purging # {} \/ ~ named \cup Naming \subseteq stored
                        THEN unsettled \cup {m} ELSE unsettled
        /\ backups' = IF holder = {} /\ kind = "backup"
                      THEN Append(backups, [state |-> "creating", manifest |-> 0, dir |-> Nothing]) ELSE backups
        /\ remade' = IF kind = "again" /\ holder = {} /\ backups[b].state = "ready" THEN remade \cup {b} ELSE remade
        /\ UNCHANGED <<stored, named, restores, targets>>
  BY DEF CreateBackup
<1>2. m \in Nat
  <2>1. used["backup"] \in Nat /\ used["again"] \in Nat
    BY CountedAssumption DEF Shapes, Counted
  <2> QED
    BY <2>1
<1> HIDE DEF m
<1>3. backups \in Seq(BackupRow) /\ Len(backups) \in Nat
  BY DEF BackupsInv, BackupTypes
<1>4. CASE holder # {}
  <2>1. proc[p].pc = "idle" /\ Set(p, Idle) /\ holder' = holder
    BY <1>1, <1>4 DEF Locked, Launch, At
  <2> QED
    BY <1>1, <1>4, <2>1, RefusedKeeps
<1>5. CASE holder = {}
  <2> DEFINE x == [Nothing EXCEPT !.manifest = m]
             r == [pc |-> "b:serialize", backup |-> b, image |-> x]
             new == [state |-> "creating", manifest |-> 0, dir |-> Nothing]
  <2>1. Set(p, r) /\ holder' = {p} /\ proc[p].pc = "idle"
    BY <1>1, <1>5 DEF Locked, Launch, At
  <2>2. x \in Content /\ x.manifest = m
    BY <1>2 DEF Nothing, Content
  <2>3. r.pc = "b:serialize" /\ r.backup = b /\ r.image = x
    OBVIOUS
  <2>4. new \in BackupRow /\ new.state = "creating"
    BY DEF BackupRow, Nothing, Content
  <2> HIDE DEF r, x, new
  <2>5. Saving = {} /\ Restoring = {}
    BY <1>5 DEF BackupsInv, LockInv
  <2>6. /\ proc'[p] = r /\ Saving' = {p} /\ Restoring' = {} /\ Purging' = Purging /\ Naming' \subseteq Naming
        /\ \A q \in Procs : q # p => proc'[q] = proc[q]
    <3>1. /\ proc'[p] = r /\ \A q \in Procs : q # p => proc'[q] = proc[q]
          /\ \A q : q # p => /\ q \in Saving' <=> q \in Saving
                             /\ q \in Restoring' <=> q \in Restoring
                             /\ q \in Purging' <=> q \in Purging
          /\ p \in Saving' <=> r.pc \in SavePC
          /\ p \in Restoring' <=> r.pc \in RestorePC
          /\ p \in Purging' <=> r.pc = "b:drop"
          /\ \A c \in Naming' : c \in Naming \/ (r.pc = "b:name" /\ r.blob = c)
      BY <2>1, BackupMover
    <3>2. p \notin Purging
      BY <2>1, RolesAre
    <3>3. /\ r.pc \in SavePC /\ r.pc \notin RestorePC
          /\ r.pc # "b:drop" /\ r.pc # "b:name"
      BY <2>3 DEF SavePC, RestorePC
    <3>5. \A c \in Naming' : c \in Naming
      BY <3>1, <3>3
    <3>6. Saving' = {p} /\ Restoring' = {}
      BY <2>5, <3>1, <3>3
    <3>7. Purging' = Purging
      <4>1. \A q : q \in Purging' <=> q \in Purging
        BY <3>1, <3>2, <3>3
      <4> QED
        BY <4>1
    <3>8. Naming' \subseteq Naming
      BY <3>5
    <3> QED
      BY <3>1, <3>6, <3>7, <3>8
  <2>7. /\ backups' \in Seq(BackupRow) /\ DOMAIN backups \subseteq DOMAIN backups' /\ b \in DOMAIN backups'
        /\ \A k \in DOMAIN backups : backups'[k] = backups[k]
        /\ \A k \in DOMAIN backups' : k \in DOMAIN backups \/ backups'[k].state # "ready"
        /\ backups'[b].state = "ready" => b \in remade'
        /\ remade \subseteq remade'
    <3>1. CASE kind = "backup"
      <4>1. backups' = Append(backups, new) /\ b = Len(backups) + 1
        BY <1>1, <1>3, <1>5, <3>1 DEF new
      <4> QED
        BY <1>1, <1>3, <2>4, <3>1, <4>1
    <3>2. CASE kind = "again"
      <4>1. backups' = backups /\ b \in 1 .. Len(backups)
        BY <1>1, <1>3, <1>5, <3>2
      <4> QED
        BY <1>1, <1>3, <1>5, <3>2, <4>1
    <3> QED
      BY <3>1, <3>2
  <2>8. BackupTypes'
    <3>1. \A q \in Procs : OfFile(proc'[q])
      BY <2>3, <2>6 DEF BackupsInv, BackupTypes, OfFile
    <3>2. \A k \in DOMAIN restores : restores[k].backup \in DOMAIN backups'
      BY <2>7 DEF BackupsInv, BackupTypes
    <3>3. /\ stored \subseteq Blobs /\ named \subseteq Blobs /\ restores \in Seq(RestorePlan)
          /\ targets \in [Roots -> Content]
      BY DEF BackupsInv, BackupTypes
    <3> QED
      BY <1>1, <2>2, <2>3, <2>6, <2>7, <3>1, <3>2, <3>3 DEF BackupTypes
  <2>9. LockInv' /\ RestoreInv'
    BY <2>1, <2>6 DEF LockInv, RestoreInv
  <2>10. SaveInv'
    <3>1. m \notin unsettled' => Purging = {} /\ named \cup Naming \subseteq stored
      BY <1>1
    <3> QED
      BY <1>1, <2>2, <2>3, <2>6, <2>7, <3>1 DEF SaveInv, Settled
  <2>11. ReadyInv'
    <3>1. unsettled \subseteq unsettled'
      BY <1>1
    <3>2. ASSUME NEW k \in DOMAIN backups' \ remade', backups'[k].state = "ready"
          PROVE  k \in DOMAIN backups \ remade /\ backups'[k] = backups[k]
      BY <2>7, <3>2
    <3> QED
      BY <3>1, <3>2 DEF BackupsInv, ReadyInv, DeepPass
  <2>12. TargetInv'
    BY <1>1 DEF BackupsInv, TargetInv, DeepPass
  <2> QED
    BY <2>8, <2>9, <2>10, <2>11, <2>12 DEF BackupsInv
<1> QED
  BY <1>4, <1>5

LEMMA PlanRestoreKeeps ==
    ASSUME Shapes, Shapes', BackupsInv, PlanRestore
    PROVE  BackupsInv'
<1>1. PICK b \in DOMAIN backups, t \in Roots :
         /\ Verified(b) /\ proc' = proc
         /\ restores' = Append(restores, [backup |-> b, target |-> t, manifest |-> backups[b].manifest,
                                          applied |-> FALSE, staging |-> FALSE])
         /\ UNCHANGED <<stored, named, holder, backups, targets, unsettled, remade>>
  BY DEF PlanRestore, Elsewhere
<1> DEFINE x == [backup |-> b, target |-> t, manifest |-> backups[b].manifest,
                 applied |-> FALSE, staging |-> FALSE]
<1>2. /\ backups \in Seq(BackupRow) /\ restores \in Seq(RestorePlan)
      /\ \A r \in DOMAIN restores : restores[r].backup \in DOMAIN backups
  BY DEF BackupsInv, BackupTypes
<1>3. x \in RestorePlan /\ x.backup \in DOMAIN backups
  <2>1. backups[b] \in BackupRow /\ b \in Nat
    BY <1>2
  <2> QED
    BY <2>1 DEF BackupRow, RestorePlan
<1>4. restores' = Append(restores, x)
  BY <1>1
<1> HIDE DEF x
<1>5. /\ restores' \in Seq(RestorePlan) /\ DOMAIN restores \subseteq DOMAIN restores'
      /\ \A r \in DOMAIN restores : restores'[r] = restores[r]
      /\ \A r \in DOMAIN restores' : restores'[r].backup \in DOMAIN backups
  BY <1>2, <1>3, <1>4
<1>6. /\ Saving' = Saving /\ Restoring' = Restoring /\ Purging' = Purging /\ Naming' = Naming
  BY <1>1 DEF Saving, Restoring, Purging, Naming, Busy
<1>7. BackupTypes'
  BY <1>1, <1>5, <1>6 DEF BackupsInv, BackupTypes
<1>8. LockInv' /\ SaveInv' /\ ReadyInv'
  BY <1>1, <1>6 DEF BackupsInv, LockInv, SaveInv, Settled, ReadyInv, DeepPass
<1>9. RestoreInv'
  <2>1. \A p \in Restoring : PlanOf(p)' = PlanOf(p)
    BY <1>1, <1>5 DEF BackupsInv, BackupTypes, PlanOf
  <2> QED
    BY <1>1, <1>6, <2>1 DEF BackupsInv, RestoreInv, DeepPass
<1>10. TargetInv'
  BY <1>1, <1>5 DEF BackupsInv, TargetInv, DeepPass
<1> QED
  BY <1>7, <1>8, <1>9, <1>10 DEF BackupsInv

LEMMA ApplyRestoreKeeps ==
    ASSUME Shapes, Shapes', BackupsInv, NEW p \in Procs, ApplyRestore(p)
    PROVE  BackupsInv'
<1>1. PICK k \in DOMAIN restores :
         IF restores[k].applied THEN Launch(p, "bapply", Idle) /\ UNCHANGED holder
         ELSE Locked(p, "bapply", [pc |-> "b:check", restore |-> k, image |-> Nothing])
  BY DEF ApplyRestore
<1>2. UNCHANGED <<stored, named, backups, restores, targets, unsettled, remade>>
  BY DEF ApplyRestore
<1>3. CASE Launch(p, "bapply", Idle) /\ UNCHANGED holder
  BY <1>2, <1>3, RefusedKeeps DEF Launch, At
<1>4. CASE /\ holder = {} /\ holder' = {p}
           /\ Launch(p, "bapply", [pc |-> "b:check", restore |-> k, image |-> Nothing])
  <2> DEFINE r == [pc |-> "b:check", restore |-> k, image |-> Nothing]
  <2>1. Set(p, r) /\ proc[p].pc = "idle"
    BY <1>4 DEF Launch, At
  <2>2. r.pc = "b:check" /\ r.restore = k /\ r.image \in Content
    BY DEF Nothing, Content
  <2> HIDE DEF r
  <2>3. Saving = {} /\ Restoring = {}
    BY <1>4 DEF BackupsInv, LockInv
  <2>4. /\ proc'[p] = r /\ Saving' = {} /\ Restoring' = {p}
        /\ \A q \in Procs : q # p => proc'[q] = proc[q]
    <3>1. /\ proc'[p] = r /\ \A q \in Procs : q # p => proc'[q] = proc[q]
          /\ \A q : q # p => /\ q \in Saving' <=> q \in Saving
                             /\ q \in Restoring' <=> q \in Restoring
          /\ p \in Saving' <=> r.pc \in SavePC
          /\ p \in Restoring' <=> r.pc \in RestorePC
      BY <2>1, BackupMover
    <3> QED
      BY <2>2, <2>3, <3>1 DEF SavePC, RestorePC
  <2>5. BackupTypes'
    <3>1. \A q \in Procs : OfFile(proc'[q])
      BY <2>2, <2>4 DEF BackupsInv, BackupTypes, OfFile
    <3> QED
      BY <1>2, <2>2, <2>4, <3>1 DEF BackupsInv, BackupTypes
  <2>6. LockInv' /\ SaveInv' /\ RestoreInv'
    BY <1>4, <2>2, <2>4 DEF LockInv, SaveInv, RestoreInv
  <2>7. ReadyInv' /\ TargetInv'
    BY <1>2 DEF BackupsInv, ReadyInv, TargetInv, DeepPass
  <2> QED
    BY <2>5, <2>6, <2>7 DEF BackupsInv
<1> QED
  BY <1>1, <1>3, <1>4 DEF Locked

\* The plans of restores keep what they were made for.
PlansAlike ==
    /\ restores' \in Seq(RestorePlan) /\ DOMAIN restores' = DOMAIN restores
    /\ \A k \in DOMAIN restores : /\ restores'[k].backup = restores[k].backup
                                  /\ restores'[k].target = restores[k].target
                                  /\ restores'[k].manifest = restores[k].manifest

LEMMA RestorePlanDoes ==
    ASSUME BackupsInv, NEW k \in DOMAIN restores, NEW s \in BOOLEAN,
           \/ restores' = [restores EXCEPT ![k].staging = s]
           \/ restores' = [restores EXCEPT ![k].applied = s]
    PROVE  PlansAlike
<1>1. restores \in Seq(RestorePlan) /\ restores[k] \in RestorePlan
  BY DEF BackupsInv, BackupTypes
<1>2. PICK y \in RestorePlan :
         /\ restores' = [restores EXCEPT ![k] = y]
         /\ y.backup = restores[k].backup /\ y.target = restores[k].target
         /\ y.manifest = restores[k].manifest
  <2>1. CASE restores' = [restores EXCEPT ![k].staging = s]
    <3> DEFINE y == [restores[k] EXCEPT !.staging = s]
    <3>1. /\ y \in RestorePlan /\ y.backup = restores[k].backup /\ y.target = restores[k].target
          /\ y.manifest = restores[k].manifest
      BY <1>1 DEF RestorePlan
    <3>2. restores' = [restores EXCEPT ![k] = y]
      BY <2>1
    <3> QED
      BY <3>1, <3>2
  <2>2. CASE restores' = [restores EXCEPT ![k].applied = s]
    <3> DEFINE y == [restores[k] EXCEPT !.applied = s]
    <3>1. /\ y \in RestorePlan /\ y.backup = restores[k].backup /\ y.target = restores[k].target
          /\ y.manifest = restores[k].manifest
      BY <1>1 DEF RestorePlan
    <3>2. restores' = [restores EXCEPT ![k] = y]
      BY <2>2
    <3> QED
      BY <3>1, <3>2
  <2> QED
    BY <2>1, <2>2
<1>3. /\ restores' \in Seq(RestorePlan) /\ DOMAIN restores' = DOMAIN restores /\ restores'[k] = y
      /\ \A j \in DOMAIN restores : j # k => restores'[j] = restores[j]
  BY <1>1, <1>2
<1> QED
  BY <1>2, <1>3 DEF PlansAlike

\* A restore goes on, or ends.
LEMMA RestorerMoves ==
    ASSUME Shapes, Shapes', BackupsInv, NEW p \in Procs, proc[p].pc \in RestorePC, NEW r, Set(p, r),
           r.pc \in RestorePC \cup {"idle"}, PlansAlike,
           UNCHANGED <<stored, named, backups, unsettled, remade>>,
           r.pc \in RestorePC => holder' = holder /\ r.restore = proc[p].restore /\ r.image \in Content,
           targets' \in [Roots -> Content],
           \A t \in Roots : \/ targets'[t] = targets[t]
                            \/ /\ DeepPass(targets'[t]) /\ t = PlanOf(p).target
                               /\ targets'[t].manifest = PlanOf(p).manifest,
           r.pc = "b:fill" => backups[PlanOf(p).backup].dir.manifest = PlanOf(p).manifest,
           r.pc = "b:install" => DeepPass(r.image) /\ r.image.manifest = PlanOf(p).manifest
    PROVE  BackupsInv'
<1>1. p \in Restoring /\ proc[p].restore \in DOMAIN restores
  BY DEF Restoring, BackupsInv, BackupTypes
<1>2. holder = {p} /\ \A q \in Saving \cup Restoring : q = p
  BY <1>1, Exclusive
<1>3. r.pc \notin SavePC /\ r.pc # "b:drop" /\ r.pc # "b:name" /\ proc[p].pc \notin SavePC
  BY DEF SavePC, RestorePC
<1>4. /\ proc'[p] = r /\ Saving' = {} /\ Restoring' \subseteq {p}
      /\ p \in Restoring' <=> r.pc \in RestorePC
      /\ \A q \in Procs : q # p => proc'[q] = proc[q]
  <2>1. /\ proc'[p] = r /\ \A q \in Procs : q # p => proc'[q] = proc[q]
        /\ \A q : q # p => /\ q \in Saving' <=> q \in Saving
                           /\ q \in Restoring' <=> q \in Restoring
        /\ p \in Saving' <=> r.pc \in SavePC
        /\ p \in Restoring' <=> r.pc \in RestorePC
    BY BackupMover
  <2> QED
    BY <1>2, <1>3, <2>1
<1>5. PlanOf(p) = restores[proc[p].restore]
  BY DEF PlanOf
<1>6. r.pc \in RestorePC => /\ PlanOf(p)'.backup = PlanOf(p).backup
                            /\ PlanOf(p)'.manifest = PlanOf(p).manifest
  BY <1>1, <1>4 DEF PlanOf, PlansAlike
<1>7. BackupTypes'
  <2>1. \A q \in Procs : OfFile(proc'[q])
    BY <1>3, <1>4 DEF BackupsInv, BackupTypes, OfFile
  <2>2. /\ stored \subseteq Blobs /\ named \subseteq Blobs /\ backups \in Seq(BackupRow)
        /\ \A k \in DOMAIN restores : restores[k].backup \in DOMAIN backups
    BY DEF BackupsInv, BackupTypes
  <2>3. \A q \in Restoring' : proc'[q].restore \in DOMAIN restores' /\ proc'[q].image \in Content
    BY <1>1, <1>4 DEF PlansAlike
  <2> QED
    BY <1>4, <2>1, <2>2, <2>3 DEF BackupTypes, PlansAlike
<1>8. LockInv' /\ SaveInv'
  BY <1>2, <1>4 DEF LockInv, SaveInv
<1>9. ReadyInv'
  BY DEF BackupsInv, ReadyInv, DeepPass
<1>10. RestoreInv'
  BY <1>4, <1>6 DEF RestoreInv, DeepPass
<1>11. TargetInv'
  <2> SUFFICES ASSUME NEW t \in Roots, targets'[t] # Nothing
               PROVE  /\ DeepPass(targets'[t])
                      /\ \E k \in DOMAIN restores : restores[k].target = t /\ restores[k].manifest = targets'[t].manifest
    BY DEF TargetInv, PlansAlike, DeepPass, Nothing
  <2>1. CASE targets'[t] = targets[t]
    BY <2>1 DEF BackupsInv, TargetInv
  <2>2. CASE /\ DeepPass(targets'[t]) /\ t = PlanOf(p).target
             /\ targets'[t].manifest = PlanOf(p).manifest
    BY <1>1, <1>5, <2>2
  <2> QED
    BY <2>1, <2>2
<1> QED
  BY <1>7, <1>8, <1>9, <1>10, <1>11 DEF BackupsInv

LEMMA RestorerAt ==
    ASSUME Shapes, BackupsInv, NEW p \in Procs, proc[p].pc \in RestorePC
    PROVE  /\ DOMAIN proc[p] = {"pc", "restore", "image"} /\ proc[p].image \in Content
           /\ proc[p].restore \in DOMAIN restores /\ PlanOf(p) \in RestorePlan
           /\ PlanOf(p).backup \in DOMAIN backups /\ backups[PlanOf(p).backup] \in BackupRow
<1>1. BackupShape(proc[p])
  BY RolesAre DEF BackupPC
<1>2. DOMAIN proc[p] = {"pc", "restore", "image"}
  BY <1>1 DEF BackupShape, Has, SavePC, RestorePC
<1>3. proc[p].restore \in DOMAIN restores /\ proc[p].image \in Content
  BY DEF Restoring, BackupsInv, BackupTypes
<1>4. restores[proc[p].restore] \in RestorePlan /\ restores[proc[p].restore].backup \in DOMAIN backups
  BY <1>3 DEF BackupsInv, BackupTypes
<1>5. backups[restores[proc[p].restore].backup] \in BackupRow
  BY <1>4 DEF BackupsInv, BackupTypes
<1> QED
  BY <1>2, <1>3, <1>4, <1>5 DEF PlanOf

LEMMA RestoringKeeps ==
    ASSUME Shapes, Shapes', BackupsInv, NEW p \in Procs,
           CheckRestore(p) \/ FillStaging(p) \/ InstallTarget(p) \/ CommitRestore(p) \/ FailRestore(p)
    PROVE  BackupsInv'
<1>1. proc[p].pc \in RestorePC
  BY DEF CheckRestore, FillStaging, InstallTarget, CommitRestore, FailRestore, At, RestorePC
<1>2. /\ DOMAIN proc[p] = {"pc", "restore", "image"} /\ proc[p].image \in Content
      /\ proc[p].restore \in DOMAIN restores /\ PlanOf(p) \in RestorePlan
      /\ PlanOf(p).backup \in DOMAIN backups /\ backups[PlanOf(p).backup] \in BackupRow
  BY <1>1, RestorerAt
<1>3. UNCHANGED <<stored, named, backups, unsettled, remade>>
  BY DEF CheckRestore, FillStaging, InstallTarget, CommitRestore, FailRestore
<1>4. targets \in [Roots -> Content]
  BY DEF BackupsInv, BackupTypes
<1>5. Idle.pc = "idle" /\ "idle" \notin RestorePC
  BY DEF Idle, RestorePC
<1>6. PlansAlike
  <2>1. CASE restores' = restores
    BY <2>1 DEF PlansAlike, BackupsInv, BackupTypes
  <2>2. CASE \E s \in BOOLEAN : Staging(p, s)
    BY <1>2, <2>2, RestorePlanDoes DEF Staging
  <2>3. CASE restores' = [restores EXCEPT ![proc[p].restore].applied = TRUE]
    BY <1>2, <2>3, RestorePlanDoes
  <2> QED
    BY <2>1, <2>2, <2>3 DEF CheckRestore, FillStaging, InstallTarget, CommitRestore, FailRestore
<1>7. CASE Set(p, Idle) /\ targets' = targets
  BY <1>1, <1>3, <1>4, <1>5, <1>6, <1>7, RestorerMoves
<1>8. ASSUME CheckRestore(p), Move(p, "b:fill"), UNCHANGED holder, AsPlanned(p)
      PROVE  BackupsInv'
  <2> DEFINE r == [proc[p] EXCEPT !.pc = "b:fill"]
  <2>1. Set(p, r) /\ targets' = targets /\ holder' = holder
    BY <1>8 DEF CheckRestore, Move, Goto
  <2>2. r.pc = "b:fill" /\ r.restore = proc[p].restore /\ r.image = proc[p].image
    BY <1>2
  <2>3. backups[PlanOf(p).backup].dir.manifest = PlanOf(p).manifest
    BY <1>8 DEF AsPlanned, Verified
  <2> HIDE DEF r
  <2>4. r.pc \in RestorePC /\ r.pc # "b:install"
    BY <2>2 DEF RestorePC
  <2> QED
    BY <1>1, <1>2, <1>3, <1>4, <1>6, <2>1, <2>2, <2>3, <2>4, RestorerMoves
<1>9. ASSUME FillStaging(p), DeepPass(backups[PlanOf(p).backup].dir)
      PROVE  BackupsInv'
  <2> DEFINE x == backups[PlanOf(p).backup].dir
             r == [proc[p] EXCEPT !.pc = "b:install", !.image = x]
  <2>1. Set(p, r) /\ targets' = targets /\ holder' = holder
    BY <1>9 DEF FillStaging, Become
  <2>2. r.pc = "b:install" /\ r.restore = proc[p].restore /\ r.image = x
    BY <1>2
  <2>3. x \in Content
    BY <1>2 DEF BackupRow
  <2>4. x.manifest = PlanOf(p).manifest /\ DeepPass(x)
    BY <1>1, <1>9 DEF FillStaging, At, BackupsInv, RestoreInv, Restoring
  <2> HIDE DEF r, x
  <2>5. r.pc \in RestorePC /\ r.pc # "b:fill"
    BY <2>2 DEF RestorePC
  <2> QED
    BY <1>1, <1>3, <1>4, <1>6, <2>1, <2>2, <2>3, <2>4, <2>5, RestorerMoves
<1>10. CASE InstallTarget(p)
  <2> DEFINE r == [proc[p] EXCEPT !.pc = "b:restored"]
  <2>1. /\ Set(p, r) /\ targets' = [targets EXCEPT ![PlanOf(p).target] = proc[p].image] /\ holder' = holder
        /\ proc[p].pc = "b:install"
    BY <1>10 DEF InstallTarget, Move, Goto, At
  <2>2. r.pc = "b:restored" /\ r.restore = proc[p].restore /\ r.image = proc[p].image
    BY <1>2
  <2>3. DeepPass(proc[p].image) /\ proc[p].image.manifest = PlanOf(p).manifest
    BY <1>1, <2>1 DEF BackupsInv, RestoreInv, Restoring
  <2>4. PlanOf(p).target \in Roots
    BY <1>2 DEF RestorePlan
  <2> HIDE DEF r
  <2>5. r.pc \in RestorePC /\ r.pc # "b:install" /\ r.pc # "b:fill"
    BY <2>2 DEF RestorePC
  <2>6. /\ targets' \in [Roots -> Content]
        /\ \A t \in Roots : \/ targets'[t] = targets[t]
                            \/ /\ DeepPass(targets'[t]) /\ t = PlanOf(p).target
                               /\ targets'[t].manifest = PlanOf(p).manifest
    BY <1>2, <1>4, <2>1, <2>3, <2>4
  <2> QED
    BY <1>1, <1>2, <1>3, <1>6, <2>1, <2>2, <2>5, <2>6, RestorerMoves
<1> QED
  <2>1. CASE CheckRestore(p)
    BY <1>7, <1>8, <2>1 DEF CheckRestore, Unlocked, Finish, Become
  <2>2. CASE FillStaging(p)
    BY <1>7, <1>9, <2>2 DEF FillStaging, Unlocked, Finish, Become
  <2>3. CASE CommitRestore(p) \/ FailRestore(p)
    BY <1>7, <2>3 DEF CommitRestore, FailRestore, Unlocked, Finish, Become
  <2> QED
    BY <1>10, <2>1, <2>2, <2>3

\* Archives and purges: the files and their names change, and what is settled.
LEMMA FilesMove ==
    ASSUME Shapes, Shapes', BackupsInv, NEW p \in Procs,
           proc[p].pc \in {"idle", "b:name", "b:drop"},
           NEW r, Set(p, r), r.pc \in {"idle", "b:name", "b:drop"},
           OfFile(r),
           UNCHANGED <<holder, backups, restores, targets, remade>>,
           stored' \subseteq Blobs, named' \subseteq Blobs, unsettled \subseteq unsettled',
           \A q \in Saving : proc[q].image.manifest \notin unsettled' =>
              Purging' = {} /\ stored \subseteq stored' /\ named' \cup Naming' \subseteq stored'
    PROVE  BackupsInv'
<1>1. r.pc \notin SavePC \cup RestorePC /\ proc[p].pc \notin SavePC \cup RestorePC
  BY DEF SavePC, RestorePC
<1>2. /\ proc'[p] = r /\ \A q \in Procs : q # p => proc'[q] = proc[q]
      /\ \A q : q # p => /\ q \in Saving' <=> q \in Saving
                         /\ q \in Restoring' <=> q \in Restoring
      /\ p \in Saving' <=> r.pc \in SavePC
      /\ p \in Restoring' <=> r.pc \in RestorePC
  BY BackupMover
<1>3. p \notin Saving /\ p \notin Restoring
  BY <1>1, RolesAre DEF Restoring
<1>4. Saving' = Saving /\ Restoring' = Restoring
  <2>1. \A q : q \in Saving' <=> q \in Saving
    BY <1>1, <1>2, <1>3
  <2>2. \A q : q \in Restoring' <=> q \in Restoring
    BY <1>1, <1>2, <1>3
  <2>3. Saving' = Saving
    BY <2>1
  <2>4. Restoring' = Restoring
    BY <2>2
  <2> QED
    BY <2>3, <2>4
<1>5. \A q \in Saving \cup Restoring : proc'[q] = proc[q]
  BY <1>2, <1>3, RolesAre DEF Restoring
<1>6. BackupTypes'
  <2>1. \A q \in Procs : OfFile(proc'[q])
    BY <1>2 DEF BackupsInv, BackupTypes, OfFile
  <2> QED
    BY <1>4, <1>5, <2>1 DEF BackupsInv, BackupTypes
<1>7. LockInv' /\ RestoreInv' /\ TargetInv'
  BY <1>4, <1>5 DEF BackupsInv, LockInv, RestoreInv, TargetInv, DeepPass, PlanOf
<1>8. SaveInv'
  <2> SUFFICES ASSUME NEW q \in Saving
               PROVE  /\ backups[proc[q].backup].state = "ready" => proc[q].backup \in remade
                      /\ proc[q].pc = "b:ready" => backups[proc[q].backup].dir = proc[q].image
                      /\ proc[q].image.manifest \notin unsettled' =>
                           /\ Purging' = {} /\ named' \cup Naming' \subseteq stored'
                           /\ proc[q].pc = "b:copy" => proc[q].image.named \subseteq stored'
                           /\ proc[q].pc \in {"b:remove", "b:place", "b:ready"} => DeepPass(proc[q].image)
    BY <1>4, <1>5 DEF SaveInv, Settled, DeepPass
  <2> QED
    BY DEF BackupsInv, SaveInv, Settled
<1>9. ReadyInv'
  BY DEF BackupsInv, ReadyInv, DeepPass
<1> QED
  BY <1>6, <1>7, <1>8, <1>9 DEF BackupsInv

LEMMA FilesKeep ==
    ASSUME Shapes, Shapes', BackupsInv, NEW p \in Procs,
           StoreBlob(p) \/ NameBlob(p) \/ StageVictim(p) \/ DropRow(p)
    PROVE  BackupsInv'
<1>1. stored \subseteq Blobs /\ named \subseteq Blobs
  BY DEF BackupsInv, BackupTypes
<1>2. UNCHANGED <<holder, backups, restores, targets, remade>>
  BY DEF StoreBlob, NameBlob, StageVictim, DropRow, Stored
<1>3. \A q \in Saving : proc[q].image.manifest \notin unsettled =>
         Purging = {} /\ named \cup Naming \subseteq stored
  BY DEF BackupsInv, SaveInv, Settled
<1>4. Idle.pc = "idle" /\ OfFile(Idle)
  BY DEF Idle, OfFile
<1>5. CASE StoreBlob(p)
  <2>1. PICK b \in Blobs : /\ proc[p].pc = "idle" /\ Set(p, [pc |-> "b:name", blob |-> b])
                           /\ stored' = stored \cup {b} /\ named' = named /\ unsettled' = unsettled
    BY <1>5 DEF StoreBlob, Launch, At, Stored
  <2> DEFINE r == [pc |-> "b:name", blob |-> b]
  <2>2. r.pc = "b:name" /\ r.blob = b /\ Set(p, r) /\ OfFile(r)
    BY <2>1 DEF OfFile
  <2> HIDE DEF r
  <2>3. /\ \A q : q # p => q \in Purging' <=> q \in Purging
        /\ p \in Purging' <=> r.pc = "b:drop"
        /\ \A c \in Naming' : c \in Naming \/ (r.pc = "b:name" /\ r.blob = c)
    BY <2>2, BackupMover
  <2>4. Purging' \subseteq Purging /\ Naming' \subseteq Naming \cup {b}
    BY <2>2, <2>3
  <2>5. stored' \subseteq Blobs /\ named' \subseteq Blobs /\ unsettled \subseteq unsettled'
    BY <1>1, <2>1
  <2>6. \A q \in Saving : proc[q].image.manifest \notin unsettled' =>
           Purging' = {} /\ stored \subseteq stored' /\ named' \cup Naming' \subseteq stored'
    BY <1>3, <2>1, <2>4
  <2> QED
    BY <1>2, <2>1, <2>2, <2>5, <2>6, FilesMove
<1>6. CASE NameBlob(p)
  <2>1. /\ proc[p].pc = "b:name" /\ Set(p, Idle)
        /\ stored' = stored /\ named' = named \cup {proc[p].blob} /\ unsettled' = unsettled
    BY <1>6 DEF NameBlob, At, Finish, Become, Stored
  <2>2. proc[p].blob \in Blobs /\ proc[p].blob \in Naming
    BY <2>1, RolesAre DEF BackupsInv, BackupTypes, OfFile
  <2>3. /\ \A q : q # p => q \in Purging' <=> q \in Purging
        /\ p \in Purging' <=> Idle.pc = "b:drop"
        /\ \A c \in Naming' : c \in Naming \/ (Idle.pc = "b:name" /\ Idle.blob = c)
    BY <2>1, BackupMover
  <2>4. Purging' \subseteq Purging /\ Naming' \subseteq Naming
    BY <1>4, <2>3
  <2>5. stored' \subseteq Blobs /\ named' \subseteq Blobs /\ unsettled \subseteq unsettled'
    BY <1>1, <2>1, <2>2
  <2>6. \A q \in Saving : proc[q].image.manifest \notin unsettled' =>
           Purging' = {} /\ stored \subseteq stored' /\ named' \cup Naming' \subseteq stored'
    BY <1>3, <2>1, <2>2, <2>4
  <2> QED
    BY <1>2, <1>4, <2>1, <2>5, <2>6, FilesMove
<1>7. CASE StageVictim(p)
  <2>1. PICK b \in named \cap stored :
           /\ b \in Blobs /\ proc[p].pc = "idle" /\ Set(p, [pc |-> "b:drop", victim |-> b])
           /\ stored' = stored \ {b} /\ named' = named
           /\ unsettled' = unsettled \cup {proc[q].image.manifest : q \in Saving}
    BY <1>1, <1>7 DEF StageVictim, Launch, At, Stored
  <2> DEFINE r == [pc |-> "b:drop", victim |-> b]
  <2>2. r.pc = "b:drop" /\ Set(p, r) /\ OfFile(r)
    BY <2>1 DEF OfFile
  <2> HIDE DEF r
  <2>3. stored' \subseteq Blobs /\ named' \subseteq Blobs /\ unsettled \subseteq unsettled'
    BY <1>1, <2>1
  <2>4. \A q \in Saving : proc[q].image.manifest \in unsettled'
    BY <2>1
  <2> QED
    BY <1>2, <2>1, <2>2, <2>3, <2>4, FilesMove
<1>8. CASE DropRow(p)
  <2>1. proc[p].pc = "b:drop" /\ Set(p, Idle) /\ unsettled' = unsettled
    BY <1>8 DEF DropRow, At, Finish, Become
  <2>2. p \in Purging
    BY <2>1, RolesAre
  <2>3. proc[p].victim \in Blobs
    BY <2>1 DEF BackupsInv, BackupTypes, OfFile
  <2>4. stored' \subseteq Blobs /\ named' \subseteq Blobs
    BY <1>1, <1>8, <2>3 DEF DropRow, Stored
  <2>5. \A q \in Saving : proc[q].image.manifest \in unsettled'
    BY <1>3, <2>1, <2>2
  <2> QED
    BY <1>2, <1>4, <2>1, <2>4, <2>5, FilesMove
<1> QED
  BY <1>5, <1>6, <1>7, <1>8

LEMMA BackupStepKeeps ==
    ASSUME Shapes, Shapes', BackupsInv, Step
    PROVE  BackupsInv'
<1>1. CASE BackupsStep
  <2>1. CASE PlanRestore
    BY <2>1, PlanRestoreKeeps
  <2>2. ASSUME NEW p \in Procs, BackupStep(p)
        PROVE  BackupsInv'
    BY <2>2, CreateBackupKeeps, SavingKeeps, SaverEnds, ApplyRestoreKeeps, RestoringKeeps, FilesKeep
       DEF BackupStep
  <2> QED
    BY <1>1, <2>1, <2>2 DEF BackupsStep
<1>2. CASE ~ BackupsStep
  BY <1>2, BackupFrame, BackupKept
<1> QED
  BY <1>1, <1>2

LEMMA BackupsHold == Spec => []BackupsInv
<1>1. Init => BackupsInv
  <2> SUFFICES ASSUME Init
               PROVE  BackupsInv
    OBVIOUS
  <2>1. /\ stored = {} /\ named = {} /\ holder = {} /\ backups = <<>> /\ restores = <<>>
        /\ targets = [t \in Roots |-> Nothing] /\ unsettled = {} /\ remade = {}
    BY DEF Init, BackupInit
  <2>2. \A p \in Procs : proc[p] = Idle
    BY DEF Init, WorkInit
  <2>3. Nothing \in Content /\ Idle.pc = "idle"
    BY DEF Nothing, Content, Idle
  <2>4. Saving = {} /\ Restoring = {} /\ \A p \in Procs : OfFile(proc[p])
    BY <2>2, <2>3 DEF Saving, Busy, Restoring, RestorePC, OfFile
  <2>5. BackupTypes
    BY <2>1, <2>3, <2>4 DEF BackupTypes
  <2>6. LockInv /\ SaveInv /\ RestoreInv
    BY <2>4 DEF LockInv, SaveInv, RestoreInv
  <2>7. ReadyInv /\ TargetInv
    BY <2>1 DEF ReadyInv, TargetInv
  <2> QED
    BY <2>5, <2>6, <2>7 DEF BackupsInv
<1>2. Shapes /\ Shapes' /\ BackupsInv /\ [Next]_vars => BackupsInv'
  <2>1. ASSUME Shapes, Shapes', BackupsInv, UNCHANGED vars PROVE BackupsInv'
    BY <2>1, BackupKept DEF vars, workVars, otherVars, backupVars
  <2> QED
    BY <2>1, BackupStepKeeps DEF Next
<1> QED
  BY <1>1, <1>2, ShapesHold, PTL DEF Spec

\* A backup that is ready has its own directory, whatever crashed, failed or was
\* tried again, and it has every file that its database names unless a purge ran
\* while it was made (createWorkspaceBackup); a restored workspace is the backup
\* that its plan had seen and lacks no file (applyBackupRestorePlan).  The files
\* of archives and purges, which do not take the maintenance lock, come and go
\* during every step.
THEOREM BackupsStayWhole == Spec => []BackupsAreWhole
<1>1. BackupsInv => BackupsAreWhole
  BY DEF BackupsInv, ReadyInv, TargetInv, BackupsAreWhole, Verified
<1> QED
  BY <1>1, BackupsHold, PTL

-----------------------------------------------------------------------------
(* The initialization of a workspace: that one that is published is      *)
(* complete, and that what was rolled back is gone.  InitsInv says of a run *)
(* what its journal names and what is there, which the steps of other      *)
(* components leave alone (InitFrame).                                     *)

Item == Paths \cup {"history"}
Journal == [workspace : Nat \ {0}, state : {"running", "failed", "completed"}, done : 0 .. 5,
            created : Seq(Item), stamp : Nat \ {0}]
Named(j, x) == \E i \in DOMAIN j.created : j.created[i] = x
CopiesNamed(j) == Named(j, "assets") /\ Named(j, "templates")
There(j, x) == IF x = "history" THEN j.workspace \in history
               ELSE disk[x] = IF x \in Copied THEN Release ELSE j.workspace
Gone(j, x) == IF x = "history" THEN j.workspace \notin history ELSE disk[x] = Absent

DiskTypes ==
    /\ disk \in [Paths -> Int]
    /\ \A path \in Copied : disk[path] \in {Absent, Release, Partial}
    /\ disk["db"] \in {Absent, Changed} \cup 1 .. used["init"] /\ disk["config"] \in 0 .. used["init"]

JournalTypes ==
    /\ history \subseteq Nat \ {0} /\ journals \in Seq(Journal) /\ stamp \in Nat /\ undone \in BOOLEAN
    /\ rollback \in [stamp : Nat, created : Seq(Item), workspace : Nat] /\ rollback.stamp <= stamp
    /\ \A i \in DOMAIN journals :
         /\ journals[i].stamp <= stamp /\ journals[i].workspace <= used["init"]
         /\ journals[i].done >= 2 => CopiesNamed(journals[i])
         /\ journals[i].stamp = rollback.stamp =>
              journals[i].created = rollback.created /\ journals[i].workspace = rollback.workspace
    /\ \A i, k \in DOMAIN journals : journals[i].workspace = journals[k].workspace => i = k

\* What is left of each step.
StageOf(done, todo) ==
    \/ done \in 0 .. 4 /\ todo = <<>>
    \/ done = 1 /\ todo \in {<<"assets", "templates">>, <<"templates">>}
    \/ done = 2 /\ todo \in {<<"draft", "history", "db">>, <<"history", "db">>, <<"db">>}
    \/ done = 3 /\ todo = <<"check">>
    \/ done = 4 /\ todo = <<"config">>

\* A run knows what the saved journal names and more; what its own names is there,
\* and after the third step the database with its file of config-history.
MakeOK(c) ==
    LET j == c.journal
    IN /\ j \in Journal /\ journals # <<>> /\ LatestJournal.workspace = j.workspace
       /\ \A x \in Item : Named(LatestJournal, x) => Named(j, x)
       /\ IF c.pc = "i:make" THEN StageOf(j.done, c.todo) ELSE c.todo = <<>> /\ j.done = 5
       /\ c.todo # <<>> \/ j.done < 4 => ~ Published
       /\ c.todo = <<"templates">> => Named(j, "assets")
       /\ j.done >= 2 \/ (j.done = 1 /\ c.todo = <<>>) => CopiesNamed(j)
       /\ ~ undone /\ ~ Published =>
            /\ \A x \in Item : Named(j, x) => There(j, x)
            /\ c.todo \in {<<"history", "db">>, <<"db">>} => disk["db"] = Absent
            /\ c.todo = <<"db">> => j.workspace \in history
            /\ j.done >= 3 \/ (j.done = 2 /\ c.todo = <<>>) =>
                 disk["db"] = j.workspace /\ j.workspace \in history

\* A rollback has removed what its plan named and does not name any more.
UnmakeOK(c) ==
    /\ journals # <<>> /\ c.todo \in Seq(Item) /\ LatestJournal.stamp = rollback.stamp
    /\ \A i \in DOMAIN c.todo : Named(LatestJournal, c.todo[i])
    /\ \A x \in Item : Named(LatestJournal, x) =>
         Gone(LatestJournal, x) \/ \E i \in DOMAIN c.todo : c.todo[i] = x

Initing == {p \in Procs : proc[p].pc \in InitPC}
RunInv ==
    /\ \A p, q \in Initing : p = q
    /\ \A p \in Initing : IF proc[p].pc = "i:unmake" THEN UnmakeOK(proc[p]) ELSE MakeOK(proc[p])

\* A workspace that is published is complete; before that, a saved journal that has
\* the third step has its database, unless it names it for a rollback.
WholeInv ==
    ~ undone =>
        IF Published
        THEN /\ disk["db"] \in {disk["config"], Changed} /\ disk["config"] \in history
             /\ \A path \in Copied : disk[path] = Release
        ELSE /\ disk["db"] # Changed
             /\ \A i \in DOMAIN journals :
                  LET j == journals[i]
                  IN /\ j.done >= 3 => disk["db"] = j.workspace \/ Named(j, "db")
                     /\ disk["db"] = j.workspace => j.workspace \in history \/ Named(j, "history")

\* Without a kill every file is named, by a saved journal or by that of the run.
Journals ==
    {journals[i] : i \in DOMAIN journals} \cup {proc[p].journal : p \in {q \in Initing : proc[q].pc # "i:unmake"}}
OwnedInv ==
    used["fault"] = 0 =>
        /\ \A path \in Paths : disk[path] \notin {Absent, Partial} => \E j \in Journals : Named(j, path)
        /\ \A w \in history : \E j \in Journals : j.workspace = w /\ Named(j, "history")

InitsInv == DiskTypes /\ JournalTypes /\ RunInv /\ WholeInv /\ OwnedInv

LEMMA Items ==
    /\ {"assets", "templates", "db", "config", "history"} \subseteq Item
    /\ Copied \subseteq Paths /\ Paths \subseteq Item
BY DEF Item, Paths, Copied

\* The heads and the rests of what is left to do.
LEMMA Todos ==
    /\ Head(<<"assets", "templates">>) = "assets" /\ Tail(<<"assets", "templates">>) = <<"templates">>
    /\ Head(<<"templates">>) = "templates" /\ Tail(<<"templates">>) = <<>>
    /\ Head(<<"draft", "history", "db">>) = "draft" /\ Tail(<<"draft", "history", "db">>) = <<"history", "db">>
    /\ Head(<<"history", "db">>) = "history" /\ Tail(<<"history", "db">>) = <<"db">>
    /\ Head(<<"db">>) = "db" /\ Tail(<<"db">>) = <<>>
    /\ Head(<<"check">>) = "check" /\ Tail(<<"check">>) = <<>>
    /\ Head(<<"config">>) = "config" /\ Tail(<<"config">>) = <<>>
OBVIOUS

\* What a step starts with.
LEMMA StepsAre ==
    ASSUME NEW n \in 0 .. 4
    PROVE  /\ StageOf(n, InitSteps[n + 1]) /\ InitSteps[n + 1] # <<"templates">>
           /\ InitSteps[n + 1] \notin {<<"history", "db">>, <<"db">>}
           /\ InitSteps[n + 1] = <<>> => n = 0
<1>1. /\ InitSteps[1] = <<>> /\ InitSteps[2] = <<"assets", "templates">>
      /\ InitSteps[3] = <<"draft", "history", "db">> /\ InitSteps[4] = <<"check">>
      /\ InitSteps[5] = <<"config">>
  BY DEF InitSteps
<1>2. n = 0 \/ n = 1 \/ n = 2 \/ n = 3 \/ n = 4
  OBVIOUS
<1>3. CASE n = 0
  BY <1>1, <1>3 DEF StageOf
<1>4. CASE n = 1
  BY <1>1, <1>4, Todos DEF StageOf
<1>5. CASE n = 2
  <2>1. /\ InitSteps[n + 1] = <<"draft", "history", "db">> /\ Head(InitSteps[n + 1]) = "draft"
        /\ InitSteps[n + 1] # <<>>
    BY <1>1, <1>5
  <2>2. StageOf(n, InitSteps[n + 1])
    BY <1>5, <2>1 DEF StageOf
  <2> QED
    BY <2>1, <2>2, Todos
<1>6. CASE n = 3
  BY <1>1, <1>6 DEF StageOf
<1>7. CASE n = 4
  BY <1>1, <1>7 DEF StageOf
<1> QED
  BY <1>2, <1>3, <1>4, <1>5, <1>6, <1>7

\* What is left tells the step.
LEMMA MakingDoes ==
    ASSUME NEW c, StageOf(c.journal.done, c.todo), c.todo # <<>>
    PROVE  /\ Head(c.todo) = "assets" => c.journal.done = 1 /\ Tail(c.todo) = <<"templates">>
           /\ Head(c.todo) = "templates" => c.journal.done = 1 /\ c.todo = <<"templates">> /\ Tail(c.todo) = <<>>
           /\ Head(c.todo) = "draft" => c.journal.done = 2 /\ Tail(c.todo) = <<"history", "db">>
           /\ Head(c.todo) = "history" => /\ c.journal.done = 2 /\ c.todo = <<"history", "db">>
                                          /\ Tail(c.todo) = <<"db">>
           /\ Head(c.todo) = "db" => c.journal.done = 2 /\ c.todo = <<"db">> /\ Tail(c.todo) = <<>>
           /\ Head(c.todo) = "check" => c.journal.done = 3
           /\ Head(c.todo) = "config" => c.journal.done = 4 /\ Tail(c.todo) = <<>>
           /\ Head(c.todo) \in {"assets", "templates", "draft", "history", "db", "check", "config"}
BY Todos DEF StageOf

LEMMA LatestIs ==
    ASSUME JournalTypes, journals # <<>>
    PROVE  /\ Len(journals) \in DOMAIN journals /\ Len(journals) \in Nat \ {0}
           /\ DOMAIN journals = 1 .. Len(journals) /\ LatestJournal \in Journal
           /\ LatestJournal = journals[Len(journals)]
BY DEF JournalTypes, LatestJournal

\* saveInitJournal: the last journal is the one that is saved.
LEMMA SaveDoes ==
    ASSUME JournalTypes, journals # <<>>, NEW j \in Journal, Save(j)
    PROVE  /\ stamp' = stamp + 1 /\ journals' \in Seq(Journal) /\ journals' # <<>>
           /\ Len(journals') = Len(journals) /\ DOMAIN journals' = DOMAIN journals
           /\ LatestJournal' = journals'[Len(journals)]
           /\ LatestJournal'.workspace = j.workspace /\ LatestJournal'.created = j.created
           /\ LatestJournal'.done = j.done /\ LatestJournal'.stamp = stamp + 1
           /\ LatestJournal'.state = j.state
           /\ \A i \in DOMAIN journals : i # Len(journals) => journals'[i] = journals[i]
<1> DEFINE y == [j EXCEPT !.stamp = stamp + 1]
<1>1. /\ y \in Journal /\ y.workspace = j.workspace /\ y.created = j.created /\ y.done = j.done
      /\ y.stamp = stamp + 1 /\ y.state = j.state
  <2>1. stamp + 1 \in Nat \ {0}
    BY DEF JournalTypes
  <2> QED
    BY <2>1 DEF Journal
<1>2. journals' = [journals EXCEPT ![Len(journals)] = y] /\ stamp' = stamp + 1
  BY DEF Save
<1> HIDE DEF y
<1>3. /\ Len(journals) \in DOMAIN journals /\ journals \in Seq(Journal)
  BY LatestIs DEF JournalTypes
<1>4. /\ journals' \in Seq(Journal) /\ Len(journals') = Len(journals) /\ DOMAIN journals' = DOMAIN journals
      /\ journals'[Len(journals)] = y
      /\ \A i \in DOMAIN journals : i # Len(journals) => journals'[i] = journals[i]
  BY <1>1, <1>2, <1>3
<1>5. LatestJournal' = journals'[Len(journals)] /\ journals' # <<>>
  BY <1>3, <1>4 DEF LatestJournal
<1> QED
  BY <1>1, <1>2, <1>4, <1>5

\* The types after a save, of a run or of a new rollback plan.
LEMMA SaveTypes ==
    ASSUME Shapes, Shapes', JournalTypes, journals # <<>>, NEW j \in Journal, Save(j),
           j.workspace = LatestJournal.workspace, j.done >= 2 => CopiesNamed(j),
           history' \subseteq Nat \ {0}, undone' \in BOOLEAN, used'["init"] = used["init"],
           \/ rollback' = rollback
           \/ rollback' = [stamp |-> stamp + 1, created |-> j.created, workspace |-> j.workspace]
    PROVE  JournalTypes'
<1>1. /\ stamp' = stamp + 1 /\ journals' \in Seq(Journal)
      /\ DOMAIN journals' = DOMAIN journals
      /\ LatestJournal' = journals'[Len(journals)]
      /\ LatestJournal'.workspace = j.workspace /\ LatestJournal'.created = j.created
      /\ LatestJournal'.done = j.done /\ LatestJournal'.stamp = stamp + 1
      /\ \A i \in DOMAIN journals : i # Len(journals) => journals'[i] = journals[i]
  BY SaveDoes
<1>2. Len(journals) \in DOMAIN journals /\ LatestJournal = journals[Len(journals)]
  BY LatestIs
<1>3. stamp \in Nat
  BY DEF JournalTypes
<1>4. /\ rollback' \in [stamp : Nat, created : Seq(Item), workspace : Nat]
      /\ rollback'.stamp <= stamp + 1
      /\ \/ rollback' = rollback /\ rollback'.stamp <= stamp
         \/ rollback'.stamp = stamp + 1 /\ rollback'.created = j.created /\ rollback'.workspace = j.workspace
  BY <1>3 DEF JournalTypes, Journal
<1>5. ASSUME NEW i \in DOMAIN journals
      PROVE  /\ journals'[i].stamp <= stamp' /\ journals'[i].workspace <= used["init"]
             /\ journals'[i].done >= 2 => CopiesNamed(journals'[i])
             /\ journals'[i].stamp = rollback'.stamp =>
                  journals'[i].created = rollback'.created /\ journals'[i].workspace = rollback'.workspace
             /\ journals'[i].workspace = journals[i].workspace
  <2>1. CASE i = Len(journals)
    <3>1. journals'[i].workspace = j.workspace /\ journals[i].workspace = j.workspace
      BY <1>1, <1>2, <2>1
    <3>2. journals'[i].done >= 2 => CopiesNamed(journals'[i])
      BY <1>1, <2>1 DEF CopiesNamed, Named
    <3>3. journals[i].workspace <= used["init"]
      BY DEF JournalTypes
    <3>4. journals'[i].stamp = stamp + 1 /\ journals'[i].created = j.created
      BY <1>1, <2>1
    <3> QED
      BY <1>1, <1>3, <1>4, <3>1, <3>2, <3>3, <3>4 DEF JournalTypes
  <2>2. CASE i # Len(journals)
    <3>1. journals'[i] = journals[i]
      BY <1>1, <2>2
    <3>2. /\ journals[i].stamp <= stamp /\ journals[i].workspace <= used["init"]
          /\ journals[i].done >= 2 => CopiesNamed(journals[i])
          /\ journals[i].stamp = rollback.stamp =>
               journals[i].created = rollback.created /\ journals[i].workspace = rollback.workspace
      BY DEF JournalTypes
    <3>3. CopiesNamed(journals'[i]) <=> CopiesNamed(journals[i])
      BY <3>1
    <3>4. journals[i] \in Journal
      BY DEF JournalTypes
    <3>5. journals[i].stamp \in Nat
      BY <3>4 DEF Journal
    <3> QED
      BY <1>1, <1>3, <1>4, <3>1, <3>2, <3>3, <3>5 DEF JournalTypes
  <2> QED
    BY <2>1, <2>2
<1>6. \A i, k \in DOMAIN journals : journals'[i].workspace = journals'[k].workspace => i = k
  BY <1>5 DEF JournalTypes
<1> QED
  BY <1>1, <1>3, <1>4, <1>5, <1>6 DEF JournalTypes, CopiesNamed, Named

\* One run at a time.
LEMMA InitingIs ==
    ASSUME Shapes
    PROVE  /\ Running = Initing
           /\ \A p \in Initing : InitShape(proc[p])
<1>1. \A p \in Procs : proc[p].pc \in InitPC => InitShape(proc[p])
  BY ShapeOf DEF Shapes
<1>2. Idle.pc \notin InitPC
  BY DEF Idle, InitPC
<1> QED
  BY <1>1, <1>2 DEF Running, Initing, Busy, InitPC

LEMMA RunTurns ==
    ASSUME Shapes, Shapes', NEW p \in Procs, NEW r, Set(p, r), Initing \subseteq {p}
    PROVE  /\ proc'[p] = r /\ Initing' \subseteq {p} /\ (p \in Initing' <=> r.pc \in InitPC)
           /\ (r.pc = "i:unmake" => UnmakeOK(r)') /\ (r.pc \in {"i:make", "i:complete"} => MakeOK(r)')
                 => RunInv'
           /\ Journals' = {journals'[i] : i \in DOMAIN journals'}
                          \cup (IF r.pc \in {"i:make", "i:complete"} THEN {r.journal} ELSE {})
<1>1. proc'[p] = r /\ \A q \in Procs : q # p => proc'[q] = proc[q]
  BY SetDoes
<1>2. Initing' \subseteq {p} /\ (p \in Initing' <=> r.pc \in InitPC)
  BY <1>1 DEF Initing
<1>3. ASSUME r.pc = "i:unmake" => UnmakeOK(r)', r.pc \in {"i:make", "i:complete"} => MakeOK(r)'
      PROVE  RunInv'
  BY <1>1, <1>2, <1>3 DEF RunInv, UnmakeOK, MakeOK, InitPC
<1>4. {q \in Initing' : proc'[q].pc # "i:unmake"} = IF r.pc \in {"i:make", "i:complete"} THEN {p} ELSE {}
  BY <1>1, <1>2 DEF InitPC
<1>5. Journals' = {journals'[i] : i \in DOMAIN journals'}
                  \cup (IF r.pc \in {"i:make", "i:complete"} THEN {r.journal} ELSE {})
  BY <1>1, <1>4 DEF Journals
<1> QED
  BY <1>1, <1>2, <1>3, <1>5

-----------------------------------------------------------------------------
(* What the other components leave alone, and a kill                       *)

LEMMA TornDoes ==
    ASSUME Shapes, DiskTypes, RunInv, NEW p \in Procs, disk' \in Torn(p)
    PROVE  \/ disk' = disk
           \/ /\ Initing = {p} /\ ~ Published
              /\ \E x \in Copied : disk[x] = Absent /\ disk' = [disk EXCEPT ![x] = Partial]
<1>1. CASE disk' # disk
  <2>1. PICK x \in Copied : /\ At(p, "i:make") /\ proc[p].todo # <<>>
                            /\ disk[x] = Absent /\ disk' = [disk EXCEPT ![x] = Partial]
    BY <1>1 DEF Torn, Making
  <2>2. p \in Initing /\ proc[p].pc # "i:unmake"
    BY <2>1 DEF At, Initing, InitPC
  <2>3. Initing = {p} /\ MakeOK(proc[p])
    BY <2>2 DEF RunInv
  <2> QED
    BY <2>1, <2>3 DEF MakeOK
<1> QED
  BY <1>1

LEMMA InitFrame ==
    ASSUME Shapes, Shapes', Step, ~ InitsStep
    PROVE  /\ UNCHANGED <<history, journals, rollback, stamp, undone>> /\ used'["init"] = used["init"]
           /\ \A q \in Procs : proc'[q].pc \in InitPC => proc'[q] = proc[q]
           /\ \/ /\ disk' = disk /\ used'["fault"] = used["fault"]
                 /\ \A q \in Procs : proc[q].pc \in InitPC => proc'[q] = proc[q]
              \/ /\ used'["fault"] # 0
                 /\ \E p \in Procs : disk' \in Torn(p) /\ proc'[p] = Idle
<1> "init" \in Kinds /\ "init" \in Counted /\ "fault" \in Counted /\ "fault" \in Kinds
  BY CountedAssumption DEF Counted
<1>0. \A c : c.pc \in InitPC /\ Shape(c) => InitShape(c)
  BY ShapeOf
<1>1. ASSUME NEW p \in Procs, Kill(p)
      PROVE  /\ UNCHANGED <<history, journals, rollback, stamp, undone>> /\ used'["init"] = used["init"]
             /\ \A q \in Procs : proc'[q].pc \in InitPC => proc'[q] = proc[q]
             /\ used'["fault"] # 0 /\ disk' \in Torn(p) /\ proc'[p] = Idle
  <2>1. /\ UNCHANGED <<history, journals, rollback, stamp, undone>> /\ disk' \in Torn(p)
    BY <1>1 DEF Kill
  <2>2. /\ proc'[p] = Idle /\ \A q \in Procs : q # p => proc'[q] = proc[q]
        /\ Spend("fault")
    BY <1>1, KillActs
  <2>3. used'["init"] = used["init"] /\ used'["fault"] = used["fault"] + 1 /\ used["fault"] \in Nat
    BY <2>2, SpendDoes DEF Shapes
  <2>4. Idle.pc \notin InitPC
    BY DEF Idle, InitPC
  <2> QED
    BY <2>1, <2>2, <2>3, <2>4
<1>2. CASE ~ \E p \in Procs : Kill(p)
  <2>1. initVars' = initVars
    BY <1>2 DEF Step, NoteAndPlanStep, DaemonsStep, MigrationsStep, BackupsStep, ConfigsStep, otherVars
  <2>2. \A q \in Procs : InitShape(proc[q]) \/ InitShape(proc'[q]) => proc'[q] = proc[q]
    BY <1>2, StepGroups, Disjoint DEF PlanMoves, PlanSlot, DaemonMoves, DaemonSlot, ConfigMoves,
       ConfigSlot, MigrationMoves, MigrationSlot, BackupMoves, BackupSlot
  <2>3. \A q \in Procs : (proc[q].pc \in InitPC => InitShape(proc[q]))
                         /\ (proc'[q].pc \in InitPC => InitShape(proc'[q]))
    BY <1>0 DEF Shapes
  <2>4. used'["fault"] = used["fault"]
    BY <1>2, StepGroups
  <2>5. used'["init"] = used["init"]
    <3>1. CASE NoteAndPlanStep
      <4>1. UNCHANGED used \/ \E k \in PlanKinds : Spend(k)
        BY <3>1, PlanActs
      <4>2. PlanKinds \subseteq Counted /\ "init" \notin PlanKinds
        BY DEF PlanKinds, Counted
      <4> QED
        BY <4>1, <4>2, CountsFrom DEF Counts
    <3>2. CASE DaemonsStep
      <4>1. UNCHANGED used \/ \E k \in DaemonKinds : Spend(k)
        BY <3>2, DaemonActs
      <4>2. DaemonKinds \subseteq Counted /\ "init" \notin DaemonKinds
        BY DEF DaemonKinds, Counted
      <4> QED
        BY <4>1, <4>2, CountsFrom DEF Counts
    <3>3. CASE MigrationsStep
      <4>1. UNCHANGED used \/ \E k \in MigrationKinds : Spend(k)
        BY <3>3, MigrationActs
      <4>2. MigrationKinds \subseteq Counted /\ "init" \notin MigrationKinds
        BY DEF MigrationKinds, Counted
      <4> QED
        BY <4>1, <4>2, CountsFrom DEF Counts
    <3>4. CASE BackupsStep
      <4>1. UNCHANGED used \/ \E k \in BackupKinds : Spend(k)
        BY <3>4, BackupActs
      <4>2. BackupKinds \subseteq Counted /\ "init" \notin BackupKinds
        BY DEF BackupKinds, Counted
      <4> QED
        BY <4>1, <4>2, CountsFrom DEF Counts
    <3>5. CASE ConfigsStep
      <4>1. UNCHANGED used \/ \E k \in ConfigKinds : Spend(k)
        BY <3>5, ConfigActs
      <4>2. ConfigKinds \subseteq Counted /\ "init" \notin ConfigKinds
        BY DEF ConfigKinds, Counted
      <4> QED
        BY <4>1, <4>2, CountsFrom DEF Counts
    <3> QED
      BY <1>2, <3>1, <3>2, <3>3, <3>4, <3>5 DEF Step
  <2> QED
    BY <2>1, <2>2, <2>3, <2>4, <2>5 DEF initVars
<1> QED
  BY <1>1, <1>2

\* What a run has made stays, and its file of the release may be cut short when it ends.
LEMMA InitKept ==
    ASSUME Shapes, Shapes', InitsInv,
           UNCHANGED <<history, journals, rollback, stamp, undone>>, used'["init"] = used["init"],
           \A q \in Procs : proc'[q].pc \in InitPC => proc'[q] = proc[q],
           \/ /\ disk' = disk /\ used'["fault"] = used["fault"]
              /\ \A q \in Procs : proc[q].pc \in InitPC => proc'[q] = proc[q]
           \/ /\ used'["fault"] # 0
              /\ \E p \in Procs : disk' \in Torn(p) /\ proc'[p] = Idle
    PROVE  InitsInv'
<1>1. /\ history' = history /\ journals' = journals /\ rollback' = rollback /\ stamp' = stamp
      /\ undone' = undone /\ LatestJournal' = LatestJournal
  BY DEF LatestJournal
<1>2. /\ Initing' \subseteq Initing /\ \A q \in Initing' : proc'[q] = proc[q]
  BY DEF Initing
<1>3. JournalTypes'
  BY <1>1 DEF InitsInv, JournalTypes, CopiesNamed, Named
<1>4. CASE disk' = disk
  <2>1. DiskTypes'
    BY <1>4 DEF InitsInv, DiskTypes
  <2>2. ASSUME NEW q \in Initing'
        PROVE  /\ UnmakeOK(proc[q]) => UnmakeOK(proc[q])'
               /\ MakeOK(proc[q]) => MakeOK(proc[q])'
    <3>1. proc'[q] = proc[q]
      BY <1>2
    <3>2. UnmakeOK(proc[q]) => UnmakeOK(proc[q])'
      BY <1>1, <1>4, <3>1 DEF UnmakeOK, Gone, Named
    <3>3. MakeOK(proc[q]) => MakeOK(proc[q])'
      BY <1>1, <1>4, <3>1 DEF MakeOK, There, Named, CopiesNamed, Published
    <3> QED
      BY <3>2, <3>3
  <2>3. RunInv'
    BY <1>2, <2>2 DEF InitsInv, RunInv
  <2>4. WholeInv'
    BY <1>1, <1>4 DEF InitsInv, WholeInv, Published, Named
  <2>5. OwnedInv'
    <3>1. CASE used'["fault"] # 0
      BY <3>1 DEF OwnedInv
    <3>2. CASE used'["fault"] = 0
      <4>1. used["fault"] = 0 /\ \A q \in Procs : proc[q].pc \in InitPC => proc'[q] = proc[q]
        BY <3>2
      <4>2. {q \in Initing' : proc'[q].pc # "i:unmake"} = {q \in Initing : proc[q].pc # "i:unmake"}
        BY <1>2, <4>1 DEF Initing
      <4>3. \A q \in Initing : proc'[q].journal = proc[q].journal
        BY <4>1 DEF Initing
      <4>4. Journals' = Journals
        BY <1>1, <4>2, <4>3 DEF Journals
      <4> QED
        BY <1>1, <1>4, <4>1, <4>4 DEF InitsInv, OwnedInv, Named
    <3> QED
      BY <3>1, <3>2
  <2> QED
    BY <1>3, <2>1, <2>3, <2>4, <2>5 DEF InitsInv
<1>5. CASE disk' # disk
  <2>1. PICK p \in Procs : disk' \in Torn(p) /\ proc'[p] = Idle
    BY <1>5
  <2>2. Initing = {p} /\ ~ Published
    BY <1>5, <2>1, TornDoes DEF InitsInv
  <2>3. PICK x \in Copied : disk[x] = Absent /\ disk' = [disk EXCEPT ![x] = Partial]
    BY <1>5, <2>1, TornDoes DEF InitsInv
  <2>4. disk' \in [Paths -> Int] /\ \A path \in Paths : disk'[path] = IF path = x THEN Partial ELSE disk[path]
    BY <2>3 DEF InitsInv, DiskTypes, Partial, Copied, Paths
  <2>5. DiskTypes'
    BY <2>3, <2>4 DEF InitsInv, DiskTypes, Copied, Paths
  <2>6. Initing' = {}
    BY <1>2, <2>1, <2>2 DEF Initing, Idle, InitPC
  <2>7. disk'["db"] = disk["db"] /\ disk'["config"] = disk["config"] /\ ~ Published'
    BY <2>2, <2>4 DEF Paths, Copied, Published
  <2>8. WholeInv'
    BY <1>1, <2>2, <2>7 DEF InitsInv, WholeInv, Named
  <2>9. OwnedInv' /\ RunInv'
    BY <1>5, <2>6 DEF OwnedInv, RunInv
  <2> QED
    BY <1>3, <2>5, <2>8, <2>9 DEF InitsInv
<1> QED
  BY <1>4, <1>5

-----------------------------------------------------------------------------
(* The steps of a run *)

\* The run, and what its journal is.
LEMMA MakerIs ==
    ASSUME Shapes, InitsInv, NEW p \in Procs, proc[p].pc \in {"i:make", "i:complete"}
    PROVE  /\ Initing = {p} /\ MakeOK(proc[p]) /\ DOMAIN proc[p] = {"pc", "journal", "todo"}
           /\ proc[p].journal \in Journal /\ journals # <<>>
           /\ proc[p].journal.workspace = LatestJournal.workspace
           /\ proc[p].journal.workspace \in 1 .. used["init"]
           /\ Journals = {journals[i] : i \in DOMAIN journals} \cup {proc[p].journal}
<1>1. p \in Initing /\ InitShape(proc[p])
  BY InitingIs DEF Initing, InitPC
<1>2. Initing = {p} /\ MakeOK(proc[p])
  BY <1>1 DEF InitsInv, RunInv
<1>3. DOMAIN proc[p] = {"pc", "journal", "todo"}
  BY <1>1 DEF InitShape, Has
<1>4. /\ proc[p].journal \in Journal /\ journals # <<>>
      /\ proc[p].journal.workspace = LatestJournal.workspace
  BY <1>2 DEF MakeOK
<1>5. LatestJournal.workspace <= used["init"]
  BY <1>4, LatestIs DEF InitsInv, JournalTypes
<1>6. proc[p].journal.workspace \in Nat \ {0} /\ used["init"] \in Nat
  BY <1>4, CountedAssumption DEF Journal, Shapes, Counted
<1>7. {q \in Initing : proc[q].pc # "i:unmake"} = {p}
  BY <1>2
<1> QED
  BY <1>2, <1>3, <1>4, <1>5, <1>6, <1>7 DEF Journals

\* A path is recorded once.
LEMMA RecordDoes ==
    ASSUME NEW j \in Journal, NEW path \in Item
    PROVE  /\ Record(j, path) \in Journal
           /\ Record(j, path).workspace = j.workspace /\ Record(j, path).done = j.done
           /\ \A x \in Item : Named(Record(j, path), x) <=> (Named(j, x) \/ x = path)
<1>1. CASE \E i \in DOMAIN j.created : j.created[i] = path
  BY <1>1 DEF Record, Named
<1>2. CASE ~ \E i \in DOMAIN j.created : j.created[i] = path
  <2> DEFINE s == Append(j.created, path)
             k == [j EXCEPT !.created = s]
  <2>1. Record(j, path) = k
    BY <1>2 DEF Record
  <2>2. j.created \in Seq(Item)
    BY DEF Journal
  <2>3. /\ s \in Seq(Item) /\ DOMAIN s = 1 .. Len(j.created) + 1 /\ s[Len(j.created) + 1] = path
        /\ \A i \in DOMAIN j.created : s[i] = j.created[i]
        /\ DOMAIN j.created = 1 .. Len(j.created) /\ Len(j.created) \in Nat
    BY <2>2
  <2> HIDE DEF s
  <2>4. k \in Journal /\ k.workspace = j.workspace /\ k.done = j.done /\ k.created = s
    BY <2>3 DEF Journal
  <2> HIDE DEF k
  <2>5. \A x \in Item : (\E i \in DOMAIN s : s[i] = x) <=> (\E i \in DOMAIN j.created : j.created[i] = x) \/ x = path
    BY <2>3
  <2> QED
    BY <2>1, <2>4, <2>5 DEF Named
<1> QED
  BY <1>1, <1>2

\* A run goes on: what it has done is named and there.
LEMMA Proceeds ==
    ASSUME Shapes, Shapes', InitsInv, NEW p \in Procs, At(p, "i:make"), NEW t, NEW k \in Journal,
           Become(p, [proc[p] EXCEPT !.todo = t, !.journal = k]),
           UNCHANGED <<journals, stamp, rollback, undone>>,
           used'["fault"] = used["fault"], used'["init"] = used["init"],
           k.workspace = proc[p].journal.workspace, k.done = proc[p].journal.done,
           \A x \in Item : Named(proc[p].journal, x) => Named(k, x),
           StageOf(k.done, t), t = <<"templates">> => Named(k, "assets"),
           t # <<>> \/ k.done < 4 => ~ Published',
           k.done = 1 /\ t = <<>> => CopiesNamed(k),
           ~ undone /\ ~ Published' =>
              /\ \A x \in Item : Named(k, x) => There(k, x)'
              /\ t \in {<<"history", "db">>, <<"db">>} => disk'["db"] = Absent
              /\ t = <<"db">> => k.workspace \in history'
              /\ k.done >= 3 \/ (k.done = 2 /\ t = <<>>) =>
                    disk'["db"] = k.workspace /\ k.workspace \in history',
           DiskTypes', history' \subseteq Nat \ {0}, WholeInv',
           \A path \in Paths : disk'[path] \notin {Absent, Partial} =>
              disk[path] \notin {Absent, Partial} \/ Named(k, path),
           \A w \in history' : w \in history \/ (w = k.workspace /\ Named(k, "history"))
    PROVE  InitsInv'
<1>01. PICK r : r = [proc[p] EXCEPT !.todo = t, !.journal = k]
  OBVIOUS
<1>02. PICK j : j = proc[p].journal
  OBVIOUS
<1>1. /\ Initing = {p} /\ MakeOK(proc[p]) /\ DOMAIN proc[p] = {"pc", "journal", "todo"}
      /\ j \in Journal /\ journals # <<>> /\ j.workspace = LatestJournal.workspace
      /\ Journals = {journals[i] : i \in DOMAIN journals} \cup {j}
  BY <1>02, MakerIs DEF At
<1>2. r.pc = "i:make" /\ r.todo = t /\ r.journal = k
  BY <1>01, <1>1 DEF At
<1>3. Set(p, r)
  BY <1>01 DEF Become
<1>4. journals' = journals /\ LatestJournal' = LatestJournal /\ undone' = undone
  BY DEF LatestJournal
<1>5. JournalTypes'
  BY <1>4 DEF InitsInv, JournalTypes, CopiesNamed, Named
<1>6. CopiesNamed(j) => CopiesNamed(k)
  BY <1>02 DEF CopiesNamed, Item, Paths
<1>7. MakeOK(r)'
  <2>1. \A x \in Item : Named(LatestJournal, x) => Named(k, x)
    BY <1>02, <1>1 DEF MakeOK
  <2>2. k.done >= 2 => CopiesNamed(k)
    BY <1>02, <1>1, <1>6 DEF MakeOK
  <2> QED
    BY <1>02, <1>1, <1>2, <1>4, <2>1, <2>2 DEF MakeOK, Named, CopiesNamed, There
<1>8. RunInv' /\ Journals' = {journals'[i] : i \in DOMAIN journals'} \cup {k}
  BY <1>1, <1>2, <1>3, <1>7, RunTurns
<1>9. OwnedInv'
  <2> SUFFICES ASSUME used'["fault"] = 0
               PROVE  /\ \A path \in Paths : disk'[path] \notin {Absent, Partial} =>
                            \E x \in Journals' : Named(x, path)
                      /\ \A w \in history' : \E x \in Journals' : x.workspace = w /\ Named(x, "history")
    BY DEF OwnedInv, Named
  <2>1. /\ \A path \in Paths : disk[path] \notin {Absent, Partial} => \E x \in Journals : Named(x, path)
        /\ \A w \in history : \E x \in Journals : x.workspace = w /\ Named(x, "history")
    BY DEF InitsInv, OwnedInv
  <2>2. \A x \in Journals : x \in Journals' \/ x = j
    BY <1>1, <1>4, <1>8
  <2>3. k \in Journals' /\ \A path \in Paths : path \in Item
    BY <1>8 DEF Item
  <2>4. "history" \in Item
    BY DEF Item
  <2> QED
    BY <1>02, <2>1, <2>2, <2>3, <2>4
<1> QED
  BY <1>5, <1>8, <1>9 DEF InitsInv

\* One file of the root is written.
LEMMA DiskDoes ==
    ASSUME DiskTypes, NEW path \in Paths, NEW v, disk' = [disk EXCEPT ![path] = v]
    PROVE  \A x \in Paths : disk'[x] = IF x = path THEN v ELSE disk[x]
BY DEF DiskTypes

\* What the step of a run is, and that nothing is published before its last step.
LEMMA MakingIs ==
    ASSUME Shapes, InitsInv, NEW p \in Procs, NEW work, Making(p, work)
    PROVE  /\ At(p, "i:make") /\ proc[p].todo # <<>> /\ Head(proc[p].todo) \in work /\ ~ Published
           /\ StageOf(proc[p].journal.done, proc[p].todo)
<1>1. At(p, "i:make") /\ proc[p].todo # <<>> /\ Head(proc[p].todo) \in work
  BY DEF Making
<1>2. MakeOK(proc[p])
  BY <1>1, MakerIs DEF At
<1> QED
  BY <1>1, <1>2 DEF MakeOK, At

\* copyAsset and copyTemplateDirectory
LEMMA CopyKeeps ==
    ASSUME Shapes, Shapes', InitsInv, NEW p \in Procs, CopyRelease(p),
           disk[Head(proc[p].todo)] \in {Absent, Release}, used'["fault"] = used["fault"],
           used'["init"] = used["init"]
    PROVE  InitsInv'
<1>01. PICK path : path = Head(proc[p].todo)
  OBVIOUS
<1>02. PICK c : c = proc[p]
  OBVIOUS
<1>03. PICK j : j = c.journal
  OBVIOUS
<1>04. PICK k : k = Record(j, path)
  OBVIOUS
<1>05. PICK t : t = Tail(c.todo)
  OBVIOUS
<1>1. /\ At(p, "i:make") /\ path \in Copied /\ ~ Published /\ StageOf(j.done, c.todo) /\ c.todo # <<>>
  BY <1>01, <1>02, <1>03, MakingIs DEF CopyRelease
<1>2. /\ MakeOK(c) /\ j \in Journal
  BY <1>02, <1>03, <1>1, MakerIs DEF At
<1>3. /\ disk' = [disk EXCEPT ![path] = Release] /\ Proceed(p, t, k)
      /\ UNCHANGED <<history, rollback, undone>>
  BY <1>01, <1>02, <1>03, <1>04, <1>05 DEF CopyRelease, Rest
<1>4. path \in Paths /\ path \in Item /\ path # "db" /\ path # "config" /\ path # "history"
  BY <1>1 DEF Copied, Paths, Item
<1>5. \A x \in Paths : disk'[x] = IF x = path THEN Release ELSE disk[x]
  BY <1>3, <1>4, DiskDoes DEF InitsInv
<1>6. /\ k \in Journal /\ k.workspace = j.workspace /\ k.done = j.done
      /\ \A x \in Item : Named(k, x) <=> (Named(j, x) \/ x = path)
  BY <1>2, <1>4, <1>04, RecordDoes
<1>7. /\ j.done = 1
      /\ \/ path = "assets" /\ t = <<"templates">>
         \/ path = "templates" /\ c.todo = <<"templates">> /\ t = <<>>
  BY <1>01, <1>02, <1>05, <1>1, MakingDoes, <1>03 DEF Copied
<1>8. t = <<"templates">> => Named(k, "assets")
  BY <1>4, <1>6, <1>7, Todos
<1>9. CopiesNamed(k) \/ t # <<>>
  <2>1. c.todo = <<"templates">> => Named(j, "assets")
    BY <1>2, <1>03 DEF MakeOK
  <2> QED
    BY <1>6, <1>7, <2>1, Items, Todos DEF CopiesNamed
<1>10. DiskTypes'
  BY <1>3, <1>5, <1>4 DEF InitsInv, DiskTypes, Copied, Paths, Release
<1>11. disk'["db"] = disk["db"] /\ disk'["config"] = disk["config"] /\ ~ Published'
  BY <1>1, <1>4, <1>5 DEF Paths, Published
<1>12. WholeInv'
  BY <1>1, <1>3, <1>11 DEF InitsInv, WholeInv, Proceed, Named
<1>13. ASSUME ~ undone PROVE \A x \in Item : Named(k, x) => There(k, x)'
  <2>1. \A x \in Item : Named(j, x) => There(j, x)
    BY <1>1, <1>2, <1>13, <1>03 DEF MakeOK
  <2> QED
    BY <1>3, <1>4, <1>5, <1>6, <2>1, <1>1 DEF There, Item
<1>14. StageOf(k.done, t) /\ t \notin {<<"history", "db">>, <<"db">>}
  BY <1>6, <1>7 DEF StageOf
<1>15. /\ Become(p, [proc[p] EXCEPT !.todo = t, !.journal = k])
       /\ UNCHANGED <<journals, stamp, rollback, undone>>
  BY <1>3 DEF Proceed
<1>16. k.workspace = proc[p].journal.workspace /\ k.done = proc[p].journal.done
  BY <1>02, <1>03, <1>6
<1>17. \A x \in Item : Named(proc[p].journal, x) => Named(k, x)
  BY <1>02, <1>03, <1>6
<1>18. ~ undone /\ ~ Published' =>
         /\ \A x \in Item : Named(k, x) => There(k, x)'
         /\ t \in {<<"history", "db">>, <<"db">>} => disk'["db"] = Absent
         /\ t = <<"db">> => k.workspace \in history'
         /\ k.done >= 3 \/ (k.done = 2 /\ t = <<>>) => disk'["db"] = k.workspace /\ k.workspace \in history'
  BY <1>6, <1>7, <1>13, <1>14
<1>19. \A x \in Paths : disk'[x] \notin {Absent, Partial} => disk[x] \notin {Absent, Partial} \/ Named(k, x)
  BY <1>4, <1>5, <1>6
<1>20. history' \subseteq Nat \ {0} /\ \A w \in history' : w \in history
  BY <1>3 DEF InitsInv, JournalTypes
<1>21. k.done = 1 /\ t = <<>> => CopiesNamed(k)
  BY <1>9
<1> QED
  BY <1>1, <1>6, <1>8, <1>10, <1>11, <1>12, <1>14, <1>15, <1>16, <1>17, <1>18, <1>19, <1>20, <1>21, Proceeds

\* createWorkspaceDatabase and verifyDraft over the release and the database that are there.
LEMMA DraftKeeps ==
    ASSUME Shapes, Shapes', InitsInv, NEW p \in Procs, Making(p, {"draft", "check"}),
           disk["assets"] \in {Absent, Release}, disk' = [disk EXCEPT !["assets"] = Release],
           UNCHANGED <<history, rollback, undone>>,
           used'["fault"] = used["fault"], used'["init"] = used["init"],
           \/ disk["db"] \in {proc[p].journal.workspace, Changed} /\ Proceed(p, <<>>, proc[p].journal)
           \/ disk["db"] = Absent /\ Making(p, {"draft"}) /\ Proceed(p, Rest(p), proc[p].journal)
    PROVE  InitsInv'
<1>01. PICK t : \/ t = <<>> /\ disk["db"] \in {proc[p].journal.workspace, Changed}
                \/ t = Rest(p) /\ disk["db"] = Absent /\ Making(p, {"draft"})
       /\ Proceed(p, t, proc[p].journal)
  OBVIOUS
<1>02. PICK c : c = proc[p]
  OBVIOUS
<1>03. PICK k : k = c.journal
  OBVIOUS
<1>1. /\ At(p, "i:make") /\ ~ Published /\ StageOf(k.done, c.todo) /\ c.todo # <<>>
      /\ Head(c.todo) \in {"draft", "check"}
  BY <1>02, <1>03, MakingIs
<1>2. /\ MakeOK(c) /\ k \in Journal /\ k.workspace = LatestJournal.workspace /\ journals # <<>>
      /\ k.workspace \in 1 .. used["init"]
  BY <1>02, <1>03, <1>1, MakerIs DEF At
<1>3. k.done \in {2, 3} /\ (Head(c.todo) = "draft" => k.done = 2 /\ Tail(c.todo) = <<"history", "db">>)
  BY <1>03, <1>1, MakingDoes
<1>4. \/ t = <<>> /\ disk["db"] \in {k.workspace, Changed}
      \/ t = <<"history", "db">> /\ k.done = 2 /\ disk["db"] = Absent
  <2>1. CASE t = <<>> /\ disk["db"] \in {proc[p].journal.workspace, Changed}
    BY <1>02, <1>03, <2>1
  <2>2. CASE t = Rest(p) /\ disk["db"] = Absent /\ Making(p, {"draft"})
    BY <1>02, <1>3, <2>2 DEF Making, Rest
  <2> QED
    BY <1>01, <2>1, <2>2
<1>5. \A x \in Paths : disk'[x] = IF x = "assets" THEN Release ELSE disk[x]
  BY DiskDoes DEF InitsInv, Paths
<1>6. CopiesNamed(k) /\ Named(k, "assets")
  BY <1>03, <1>2, <1>3 DEF MakeOK, CopiesNamed
<1>7. disk'["db"] = disk["db"] /\ disk'["config"] = disk["config"] /\ ~ Published'
  BY <1>1, <1>5 DEF Paths, Published
<1>8. DiskTypes'
  <2>0. Release \in Int
    BY DEF Release
  <2>1. disk' \in [Paths -> Int]
    BY <2>0 DEF InitsInv, DiskTypes
  <2>2. \A path \in Copied : disk'[path] \in {Absent, Release, Partial}
    BY <1>5, Items DEF InitsInv, DiskTypes
  <2> QED
    BY <1>7, <2>1, <2>2 DEF InitsInv, DiskTypes
<1>9. history' = history /\ journals' = journals /\ undone' = undone
  BY <1>01 DEF Proceed
<1>10. WholeInv'
  BY <1>1, <1>7, <1>9 DEF InitsInv, WholeInv, Named
<1>11. ASSUME ~ undone PROVE \A x \in Item : Named(k, x) => There(k, x) /\ There(k, x)'
  <2>1. \A x \in Item : Named(k, x) => There(k, x)
    BY <1>03, <1>1, <1>2, <1>11 DEF MakeOK
  <2>2. ASSUME NEW x \in Item, There(k, x) PROVE There(k, x)'
    <3>1. CASE x = "assets"
      BY <1>5, <3>1 DEF There, Copied, Paths
    <3>2. CASE x = "history"
      BY <1>9, <2>2, <3>2 DEF There
    <3>3. CASE x \in Paths /\ x # "assets"
      BY <1>5, <2>2, <3>3 DEF There, Paths
    <3> QED
      BY <3>1, <3>2, <3>3 DEF Item
  <2> QED
    BY <2>1, <2>2
<1>12. ASSUME ~ undone, t = <<>> PROVE disk["db"] = k.workspace /\ k.workspace \in history
  <2>1. disk["db"] # Changed
    BY <1>1, <1>12 DEF InitsInv, WholeInv
  <2>2. disk["db"] = k.workspace
    BY <1>4, <1>12, <2>1, Todos
  <2>3. LatestJournal = journals[Len(journals)] /\ Len(journals) \in DOMAIN journals
    BY <1>2, LatestIs DEF InitsInv
  <2>4. k.workspace \in history \/ Named(LatestJournal, "history")
    BY <1>1, <1>12, <1>2, <2>2, <2>3 DEF InitsInv, WholeInv
  <2>5. Named(LatestJournal, "history") => Named(k, "history")
    BY <1>03, <1>2, Items DEF MakeOK
  <2>6. Named(k, "history") => k.workspace \in history
    BY <1>11, <1>12, Items DEF There
  <2> QED
    BY <2>2, <2>4, <2>5, <2>6
<1>13. t # <<"db">> /\ t # <<"templates">> /\ StageOf(k.done, t) /\ (t = <<"history", "db">> => disk["db"] = Absent)
  <2>1. <<>> # <<"db">> /\ <<>> # <<"templates">> /\ <<>> # <<"history", "db">>
    BY Todos
  <2>2. <<"history", "db">> # <<"db">> /\ <<"history", "db">> # <<"templates">> /\ <<"history", "db">> # <<>>
    BY Todos
  <2>3. t # <<"db">> /\ t # <<"templates">> /\ (t = <<"history", "db">> => disk["db"] = Absent)
    BY <1>4, <2>1, <2>2
  <2>4. CASE t = <<>>
    BY <1>3, <2>4 DEF StageOf
  <2>5. CASE t = <<"history", "db">> /\ k.done = 2
    BY <2>3, <2>5 DEF StageOf
  <2> QED
    BY <1>4, <2>3, <2>4, <2>5
<1>14. ASSUME ~ undone, k.done >= 3
       PROVE  disk["db"] = k.workspace /\ k.workspace \in history
  BY <1>03, <1>1, <1>2, <1>14 DEF MakeOK
<1>15. ~ undone /\ ~ Published' =>
         /\ \A x \in Item : Named(k, x) => There(k, x)'
         /\ t \in {<<"history", "db">>, <<"db">>} => disk'["db"] = Absent
         /\ t = <<"db">> => k.workspace \in history'
         /\ k.done >= 3 \/ (k.done = 2 /\ t = <<>>) => disk'["db"] = k.workspace /\ k.workspace \in history'
  BY <1>7, <1>9, <1>11, <1>12, <1>13, <1>14
<1>16. /\ Become(p, [proc[p] EXCEPT !.todo = t, !.journal = k])
       /\ UNCHANGED <<journals, stamp, rollback, undone>>
  BY <1>01, <1>02, <1>03 DEF Proceed
<1>17. k.workspace = proc[p].journal.workspace /\ k.done = proc[p].journal.done
  BY <1>02, <1>03
<1>18. \A x \in Item : Named(proc[p].journal, x) => Named(k, x)
  BY <1>02, <1>03
<1>19. \A x \in Paths : disk'[x] \notin {Absent, Partial} => disk[x] \notin {Absent, Partial} \/ Named(k, x)
  BY <1>5, <1>6
<1>20. history' \subseteq Nat \ {0} /\ \A w \in history' : w \in history
  BY <1>9 DEF InitsInv, JournalTypes
<1>21. k.done # 1
  BY <1>3
<1> QED
  BY <1>1, <1>2, <1>7, <1>8, <1>10, <1>13, <1>15, <1>16, <1>17, <1>18, <1>19, <1>20, <1>21, Proceeds

LEMMA WriteHistoryKeeps ==
    ASSUME Shapes, Shapes', InitsInv, NEW p \in Procs, WriteHistory(p),
           used'["fault"] = used["fault"], used'["init"] = used["init"]
    PROVE  InitsInv'
<1>01. PICK c : c = proc[p]
  OBVIOUS
<1>02. PICK j : j = c.journal
  OBVIOUS
<1>03. PICK k : k = Record(j, "history")
  OBVIOUS
<1>1. /\ At(p, "i:make") /\ ~ Published /\ StageOf(j.done, c.todo) /\ c.todo # <<>>
      /\ Head(c.todo) = "history"
  BY <1>01, <1>02, MakingIs DEF WriteHistory
<1>2. /\ MakeOK(c) /\ j \in Journal
  BY <1>01, <1>02, <1>1, MakerIs DEF At
<1>3. j.done = 2 /\ c.todo = <<"history", "db">> /\ Tail(c.todo) = <<"db">>
  BY <1>02, <1>1, MakingDoes
<1>4. /\ Proceed(p, <<"db">>, k) /\ disk' = disk /\ rollback' = rollback /\ undone' = undone
      /\ history' = history \cup {j.workspace}
  BY <1>01, <1>02, <1>03, <1>3 DEF WriteHistory, Rest
<1>5. /\ k \in Journal /\ k.workspace = j.workspace /\ k.done = j.done
      /\ \A x \in Item : Named(k, x) <=> (Named(j, x) \/ x = "history")
  BY <1>2, <1>03, RecordDoes, Items
<1>6. j.workspace \in Nat \ {0}
  BY <1>2 DEF Journal
<1>7. DiskTypes' /\ ~ Published' /\ journals' = journals
  BY <1>1, <1>4 DEF InitsInv, DiskTypes, Published, Proceed
<1>8. WholeInv'
  BY <1>1, <1>4, <1>7 DEF InitsInv, WholeInv, Named
<1>9. ASSUME ~ undone
      PROVE  /\ \A x \in Item : Named(k, x) => There(k, x)'
             /\ disk["db"] = Absent
  <2>1. \A x \in Item : Named(j, x) => There(j, x)
    BY <1>1, <1>2, <1>9, <1>02 DEF MakeOK
  <2>2. disk["db"] = Absent
    BY <1>1, <1>2, <1>3, <1>9 DEF MakeOK
  <2> QED
    BY <1>4, <1>5, <2>1, <2>2 DEF There
<1>10. StageOf(2, <<"db">>) /\ <<"db">> # <<"templates">> /\ <<"db">> # <<>>
  BY Todos DEF StageOf
<1>11. ~ undone /\ ~ Published' =>
         /\ \A x \in Item : Named(k, x) => There(k, x)'
         /\ <<"db">> \in {<<"history", "db">>, <<"db">>} => disk'["db"] = Absent
         /\ <<"db">> = <<"db">> => k.workspace \in history'
         /\ k.done >= 3 \/ (k.done = 2 /\ <<"db">> = <<>>) => disk'["db"] = k.workspace /\ k.workspace \in history'
  BY <1>3, <1>4, <1>5, <1>9, <1>10
<1>12. /\ Become(p, [proc[p] EXCEPT !.todo = <<"db">>, !.journal = k])
       /\ UNCHANGED <<journals, stamp, rollback, undone>>
  BY <1>4 DEF Proceed
<1>13. /\ k.workspace = proc[p].journal.workspace /\ k.done = proc[p].journal.done
       /\ \A x \in Item : Named(proc[p].journal, x) => Named(k, x)
  BY <1>01, <1>02, <1>5
<1>14. history' \subseteq Nat \ {0}
  BY <1>4, <1>6 DEF InitsInv, JournalTypes
<1>15. \A w \in history' : w \in history \/ (w = k.workspace /\ Named(k, "history"))
  BY <1>4, <1>5, Items
<1>16. k.done = 2 /\ StageOf(k.done, <<"db">>)
  BY <1>3, <1>5, <1>10
<1> QED
  BY <1>1, <1>4, <1>5, <1>7, <1>8, <1>10, <1>11, <1>12, <1>13, <1>14, <1>15, <1>16, Proceeds

\* createWorkspaceDatabase renames the database into place.
LEMMA PlaceDatabaseKeeps ==
    ASSUME Shapes, Shapes', InitsInv, NEW p \in Procs, PlaceDatabase(p),
           used'["fault"] = used["fault"], used'["init"] = used["init"]
    PROVE  InitsInv'
<1>01. PICK c : c = proc[p]
  OBVIOUS
<1>02. PICK j : j = c.journal
  OBVIOUS
<1>03. PICK k : k = Record(j, "db")
  OBVIOUS
<1>04. PICK t : t = <<>>
  OBVIOUS
<1>1. /\ At(p, "i:make") /\ ~ Published /\ StageOf(j.done, c.todo) /\ c.todo # <<>> /\ Head(c.todo) = "db"
  BY <1>01, <1>02, MakingIs DEF PlaceDatabase
<1>2. /\ MakeOK(c) /\ j \in Journal /\ j.workspace \in 1 .. used["init"]
  BY <1>01, <1>02, <1>1, MakerIs DEF At
<1>3. j.done = 2 /\ c.todo = <<"db">> /\ Tail(c.todo) = t
  BY <1>02, <1>04, <1>1, MakingDoes
<1>4. /\ Proceed(p, t, k) /\ disk' = [disk EXCEPT !["db"] = j.workspace]
      /\ rollback' = rollback /\ undone' = undone /\ history' = history
  BY <1>01, <1>02, <1>03, <1>3 DEF PlaceDatabase, Place, Rest
<1>5. /\ k \in Journal /\ k.workspace = j.workspace /\ k.done = j.done
      /\ \A x \in Item : Named(k, x) <=> (Named(j, x) \/ x = "db")
  BY <1>2, <1>03, RecordDoes, Items
<1>6. \A x \in Paths : disk'[x] = IF x = "db" THEN j.workspace ELSE disk[x]
  BY <1>4, DiskDoes DEF InitsInv, Paths
<1>7. disk'["db"] = j.workspace /\ disk'["config"] = disk["config"] /\ ~ Published'
  BY <1>1, <1>6 DEF Paths, Published
<1>8. DiskTypes'
  <2>0. j.workspace \in Int /\ j.workspace \in 1 .. used'["init"]
    BY <1>2
  <2>1. disk' \in [Paths -> Int] /\ j.workspace \in 1 .. used'["init"]
    BY <1>4, <2>0 DEF InitsInv, DiskTypes
  <2>2. \A path \in Copied : disk'[path] \in {Absent, Release, Partial}
    BY <1>6 DEF InitsInv, DiskTypes, Copied, Paths
  <2> QED
    BY <1>7, <2>1, <2>2 DEF InitsInv, DiskTypes
<1>9. journals' = journals /\ used'["init"] \in Nat /\ j.workspace \in Nat \ {0}
  BY <1>2, <1>4, CountedAssumption DEF Proceed, Shapes, Counted
<1>10. ASSUME ~ undone
       PROVE  disk["db"] = Absent /\ j.workspace \in history
  BY <1>1, <1>2, <1>02, <1>3, <1>10 DEF MakeOK
<1>11. WholeInv'
  <2> SUFFICES ASSUME ~ undone
               PROVE  /\ disk'["db"] # Changed
                      /\ \A i \in DOMAIN journals :
                           /\ journals[i].done >= 3 => disk'["db"] = journals[i].workspace \/ Named(journals[i], "db")
                           /\ disk'["db"] = journals[i].workspace =>
                                journals[i].workspace \in history \/ Named(journals[i], "history")
    BY <1>4, <1>7, <1>9 DEF WholeInv, Named
  <2>1. disk'["db"] # Changed
    BY <1>7, <1>9 DEF Changed
  <2>2. ASSUME NEW i \in DOMAIN journals, journals[i].done >= 3
        PROVE  Named(journals[i], "db")
    <3>1. disk["db"] = journals[i].workspace \/ Named(journals[i], "db")
      BY <1>1, <2>2 DEF InitsInv, WholeInv
    <3>2. journals[i] \in Journal
      BY DEF InitsInv, JournalTypes
    <3> QED
      BY <1>10, <3>1, <3>2 DEF Journal, Absent
  <2> QED
    BY <1>7, <1>10, <2>1, <2>2
<1>12. ASSUME ~ undone PROVE \A x \in Item : Named(k, x) => There(k, x)'
  <2>1. \A x \in Item : Named(j, x) => There(j, x)
    BY <1>1, <1>2, <1>12, <1>02 DEF MakeOK
  <2>2. ASSUME NEW x \in Item, Named(k, x) PROVE There(k, x)'
    <3>1. CASE x = "db"
      BY <1>5, <1>7, <3>1 DEF There, Copied
    <3>2. CASE x = "history"
      BY <1>4, <1>5, <2>1, <2>2, <3>2 DEF There
    <3>3. CASE x \in Paths /\ x # "db"
      BY <1>5, <1>6, <2>1, <2>2, <3>3 DEF There, Paths
    <3> QED
      BY <3>1, <3>2, <3>3 DEF Item
  <2> QED
    BY <2>2
<1>13. StageOf(2, t) /\ t # <<"templates">> /\ t # <<"history", "db">> /\ t # <<"db">>
  BY <1>04, Todos DEF StageOf
<1>14. ~ undone /\ ~ Published' =>
         /\ \A x \in Item : Named(k, x) => There(k, x)'
         /\ t \in {<<"history", "db">>, <<"db">>} => disk'["db"] = Absent
         /\ t = <<"db">> => k.workspace \in history'
         /\ k.done >= 3 \/ (k.done = 2 /\ t = <<>>) => disk'["db"] = k.workspace /\ k.workspace \in history'
  BY <1>3, <1>4, <1>5, <1>7, <1>10, <1>12, <1>13
<1>15. /\ Become(p, [proc[p] EXCEPT !.todo = t, !.journal = k])
       /\ UNCHANGED <<journals, stamp, rollback, undone>>
  BY <1>4 DEF Proceed
<1>16. /\ k.workspace = proc[p].journal.workspace /\ k.done = proc[p].journal.done
       /\ \A x \in Item : Named(proc[p].journal, x) => Named(k, x)
  BY <1>01, <1>02, <1>5
<1>17. history' \subseteq Nat \ {0} /\ \A w \in history' : w \in history
  BY <1>4 DEF InitsInv, JournalTypes
<1>18. k.done = 2 /\ StageOf(k.done, t)
  BY <1>3, <1>5, <1>13
<1>19. \A x \in Paths : disk'[x] \notin {Absent, Partial} => disk[x] \notin {Absent, Partial} \/ Named(k, x)
  BY <1>5, <1>6, Items
<1>20. /\ k.done = 1 /\ t = <<>> => CopiesNamed(k)
       /\ t # <<>> \/ k.done < 4 => ~ Published'
       /\ t = <<"templates">> => Named(k, "assets")
  BY <1>7, <1>13, <1>18
<1> QED
  BY <1>1, <1>5, <1>8, <1>11, <1>14, <1>15, <1>16, <1>17, <1>18, <1>19, <1>20, Proceeds

\* publishConfig: the workspace is complete when self.toml is there.
LEMMA PublishConfigKeeps ==
    ASSUME Shapes, Shapes', InitsInv, NEW p \in Procs, PublishConfig(p),
           used'["fault"] = used["fault"], used'["init"] = used["init"]
    PROVE  InitsInv'
<1>01. PICK c : c = proc[p]
  OBVIOUS
<1>02. PICK j : j = c.journal
  OBVIOUS
<1>03. PICK k : k = Record(j, "config")
  OBVIOUS
<1>04. PICK t : t = <<>>
  OBVIOUS
<1>1. /\ At(p, "i:make") /\ ~ Published /\ StageOf(j.done, c.todo) /\ c.todo # <<>>
      /\ Head(c.todo) = "config"
  BY <1>01, <1>02, MakingIs DEF PublishConfig
<1>2. /\ MakeOK(c) /\ j \in Journal /\ j.workspace \in 1 .. used["init"]
  BY <1>01, <1>02, <1>1, MakerIs DEF At
<1>3. j.done = 4 /\ Tail(c.todo) = t
  BY <1>02, <1>04, <1>1, MakingDoes
<1>4. /\ Proceed(p, t, k) /\ disk' = [disk EXCEPT !["config"] = j.workspace]
      /\ rollback' = rollback /\ undone' = undone /\ history' = history
  BY <1>01, <1>02, <1>03, <1>3 DEF PublishConfig, Place, Rest
<1>5. /\ k \in Journal /\ k.workspace = j.workspace /\ k.done = j.done
      /\ \A x \in Item : Named(k, x) <=> (Named(j, x) \/ x = "config")
  BY <1>2, <1>03, RecordDoes, Items
<1>6. \A x \in Paths : disk'[x] = IF x = "config" THEN j.workspace ELSE disk[x]
  BY <1>4, DiskDoes DEF InitsInv, Paths
<1>7. /\ disk'["config"] = j.workspace /\ disk'["db"] = disk["db"]
      /\ \A x \in Copied : disk'[x] = disk[x]
  BY <1>6 DEF Paths, Copied
<1>8. Published' /\ used'["init"] \in Nat
  BY <1>2, <1>7, CountedAssumption DEF Published, Absent, Shapes, Counted
<1>9. DiskTypes'
  <2>0. j.workspace \in Int /\ j.workspace \in 1 .. used'["init"]
    BY <1>2
  <2>1. disk' \in [Paths -> Int] /\ j.workspace \in 1 .. used'["init"]
    BY <1>4, <2>0 DEF InitsInv, DiskTypes
  <2> QED
    BY <1>7, <1>8, <2>1 DEF InitsInv, DiskTypes
<1>10. WholeInv'
  <2> SUFFICES ASSUME ~ undone
               PROVE  /\ disk'["db"] = j.workspace /\ j.workspace \in history
                      /\ \A path \in Copied : disk'[path] = Release
    BY <1>4, <1>7, <1>8 DEF WholeInv
  <2>1. disk["db"] = j.workspace /\ j.workspace \in history
    BY <1>1, <1>2, <1>02, <1>3 DEF MakeOK
  <2>2. \A path \in Copied : Named(j, path) /\ path \in Item
    BY <1>2, <1>02, <1>3 DEF MakeOK, CopiesNamed, Copied, Item, Paths
  <2>3. \A path \in Copied : There(j, path)
    BY <1>1, <1>2, <1>02, <2>2 DEF MakeOK
  <2>4. \A path \in Copied : disk[path] = Release
    BY <2>3 DEF There, Copied
  <2> QED
    BY <1>7, <2>1, <2>4
<1>11. StageOf(4, t) /\ t # <<"templates">>
  BY <1>04, Todos DEF StageOf
<1>12. /\ Become(p, [proc[p] EXCEPT !.todo = t, !.journal = k])
       /\ UNCHANGED <<journals, stamp, rollback, undone>>
  BY <1>4 DEF Proceed
<1>13. /\ k.workspace = proc[p].journal.workspace /\ k.done = proc[p].journal.done
       /\ \A x \in Item : Named(proc[p].journal, x) => Named(k, x)
  BY <1>01, <1>02, <1>5
<1>14. history' \subseteq Nat \ {0} /\ \A w \in history' : w \in history
  BY <1>4 DEF InitsInv, JournalTypes
<1>15. k.done = 4 /\ StageOf(k.done, t) /\ t = <<>>
  BY <1>04, <1>3, <1>5, <1>11
<1>16. \A x \in Paths : disk'[x] \notin {Absent, Partial} => disk[x] \notin {Absent, Partial} \/ Named(k, x)
  BY <1>5, <1>6, Items
<1>17. /\ k.done = 1 /\ t = <<>> => CopiesNamed(k)
       /\ t # <<>> \/ k.done < 4 => ~ Published'
       /\ t = <<"templates">> => Named(k, "assets")
  BY <1>11, <1>15
<1>18. ~ undone /\ ~ Published' =>
         /\ \A x \in Item : Named(k, x) => There(k, x)'
         /\ t \in {<<"history", "db">>, <<"db">>} => disk'["db"] = Absent
         /\ t = <<"db">> => k.workspace \in history'
         /\ k.done >= 3 \/ (k.done = 2 /\ t = <<>>) => disk'["db"] = k.workspace /\ k.workspace \in history'
  BY <1>8
<1> QED
  BY <1>1, <1>5, <1>9, <1>10, <1>12, <1>13, <1>14, <1>15, <1>16, <1>17, <1>18, Proceeds

\* A run saves its journal: what it has named and done is what the last one says.
LEMMA SaveKeeps ==
    ASSUME Shapes, Shapes', InitsInv, NEW p \in Procs, proc[p].pc \in {"i:make", "i:complete"},
           NEW y \in Journal, y.workspace = proc[p].journal.workspace,
           y.created = proc[p].journal.created, y.done >= 2 => CopiesNamed(y),
           ~ undone /\ ~ Published /\ y.done >= 3 => disk["db"] = y.workspace,
           Save(y), UNCHANGED <<history, rollback, undone>>,
           used'["fault"] = used["fault"], used'["init"] = used["init"],
           DiskTypes',
           \A x \in Paths : \/ disk'[x] = disk[x]
                            \/ /\ x \in Copied /\ ~ Published
                               /\ disk'[x] = Partial \/ Named(y, x),
           NEW r, Set(p, r), r = Idle \/ (r.pc \in {"i:make", "i:complete"} /\ r.journal = y),
           r # Idle => MakeOK(r)'
    PROVE  InitsInv'
<1>01. PICK c : c = proc[p]
  OBVIOUS
<1>02. PICK j : j = c.journal
  OBVIOUS
<1>1. /\ Initing = {p} /\ MakeOK(c) /\ j \in Journal /\ journals # <<>>
      /\ j.workspace = LatestJournal.workspace
      /\ Journals = {journals[i] : i \in DOMAIN journals} \cup {j}
  BY <1>01, <1>02, MakerIs
<1>2. y.workspace = j.workspace /\ y.created = j.created /\ \A x : Named(y, x) <=> Named(j, x)
  BY <1>01, <1>02 DEF Named
<1>3. PICK n \in DOMAIN journals : n = Len(journals) /\ LatestJournal = journals[n]
  BY <1>1, LatestIs DEF InitsInv
<1>4. JournalTypes
  BY DEF InitsInv
<1>5. /\ stamp' = stamp + 1 /\ DOMAIN journals' = DOMAIN journals /\ journals' # <<>>
      /\ LatestJournal' = journals'[n]
      /\ LatestJournal'.workspace = y.workspace /\ LatestJournal'.created = y.created
      /\ LatestJournal'.done = y.done
      /\ \A i \in DOMAIN journals : i # n => journals'[i] = journals[i]
  BY <1>1, <1>3, <1>4, SaveDoes
<1>6. PICK z : z = LatestJournal'
  OBVIOUS
<1>7. /\ z.workspace = y.workspace /\ z.done = y.done /\ \A x : Named(z, x) <=> Named(y, x)
  BY <1>5, <1>6 DEF Named
<1>8. JournalTypes'
  <2>1. history' \subseteq Nat \ {0} /\ undone' \in BOOLEAN /\ rollback' = rollback
    BY <1>4 DEF JournalTypes
  <2>2. y.workspace = LatestJournal.workspace
    BY <1>1, <1>2
  <2> QED
    BY <1>1, <1>4, <2>1, <2>2, SaveTypes
<1>9. RunInv'
  <2>1. Idle.pc \notin {"i:unmake", "i:make", "i:complete"}
    BY DEF Idle
  <2> QED
    BY <1>1, <2>1, RunTurns
<1>10. \A x \in Item : Named(journals[n], x) => Named(z, x)
  BY <1>01, <1>02, <1>1, <1>2, <1>3, <1>7 DEF MakeOK
<1>11. journals[n].workspace = z.workspace
  BY <1>1, <1>2, <1>3, <1>7
<1>12. /\ disk'["db"] = disk["db"] /\ disk'["config"] = disk["config"] /\ Published' = Published
       /\ Published => \A x \in Copied : disk'[x] = disk[x]
  <2>1. disk'["db"] = disk["db"] /\ disk'["config"] = disk["config"]
    BY DEF Paths, Copied
  <2> QED
    BY <2>1, Items DEF Published
<1>13. WholeInv'
  <2>1. history' = history /\ undone' = undone
    OBVIOUS
  <2>2. CASE undone \/ Published
    BY <1>12, <2>1, <2>2 DEF InitsInv, WholeInv
  <2>3. CASE ~ undone /\ ~ Published
    <3>1. ASSUME NEW i \in DOMAIN journals'
          PROVE  /\ journals'[i].done >= 3 => disk'["db"] = journals'[i].workspace \/ Named(journals'[i], "db")
                 /\ disk'["db"] = journals'[i].workspace =>
                      journals'[i].workspace \in history \/ Named(journals'[i], "history")
      <4>1. /\ journals[i].done >= 3 => disk["db"] = journals[i].workspace \/ Named(journals[i], "db")
            /\ disk["db"] = journals[i].workspace =>
                 journals[i].workspace \in history \/ Named(journals[i], "history")
        BY <1>5, <2>3 DEF InitsInv, WholeInv
      <4>2. CASE i # n
        BY <1>5, <1>12, <4>1, <4>2
      <4>3. CASE i = n
        <5>1. journals'[i] = z
          BY <1>5, <1>6, <4>3
        <5>2. z.done >= 3 => disk["db"] = z.workspace
          BY <1>7, <2>3
        <5>3. disk["db"] = z.workspace => z.workspace \in history \/ Named(z, "history")
          BY <1>10, <1>11, <4>1, <4>3, Items
        <5> QED
          BY <1>12, <5>1, <5>2, <5>3
      <4> QED
        BY <4>2, <4>3
    <3>2. disk'["db"] # Changed
      BY <1>12, <2>3 DEF InitsInv, WholeInv
    <3> QED
      BY <1>12, <2>1, <2>3, <3>1, <3>2 DEF WholeInv, Named
  <2> QED
    BY <2>2, <2>3
<1>14. OwnedInv'
  <2> SUFFICES ASSUME used'["fault"] = 0
               PROVE  /\ \A path \in Paths : disk'[path] \notin {Absent, Partial} =>
                            \E x \in Journals' : Named(x, path)
                      /\ \A w \in history' : \E x \in Journals' : x.workspace = w /\ Named(x, "history")
    BY DEF OwnedInv, Named
  <2>1. /\ \A path \in Paths : disk[path] \notin {Absent, Partial} => \E x \in Journals : Named(x, path)
        /\ \A w \in history : \E x \in Journals : x.workspace = w /\ Named(x, "history")
    BY DEF InitsInv, OwnedInv
  <2>2. \A i \in DOMAIN journals' : journals'[i] \in Journals'
    BY DEF Journals
  <2>3. z \in Journals'
    BY <1>5, <1>6, <2>2
  <2>4. ASSUME NEW x \in Journals
        PROVE  \E v \in Journals' : v.workspace = x.workspace /\ \A a \in Item : Named(x, a) => Named(v, a)
    <3>1. CASE x = j \/ x = journals[n]
      BY <1>2, <1>7, <1>10, <1>11, <2>3, <3>1
    <3>2. CASE x \notin {j, journals[n]}
      <4>1. PICK i \in DOMAIN journals : x = journals[i] /\ i # n
        BY <1>1, <3>2
      <4>2. x = journals'[i] /\ i \in DOMAIN journals'
        BY <1>5, <4>1
      <4> QED
        BY <2>2, <4>2
    <3> QED
      BY <3>1, <3>2
  <2>5. ASSUME NEW path \in Paths, disk'[path] \notin {Absent, Partial}
        PROVE  \E x \in Journals' : Named(x, path)
    <3>1. disk'[path] = disk[path] \/ Named(z, path)
      BY <1>7, <2>5
    <3> QED
      BY <2>1, <2>3, <2>4, <2>5, <3>1, Items
  <2>6. \A w \in history : \E x \in Journals' : x.workspace = w /\ Named(x, "history")
    BY <2>1, <2>4, Items
  <2> QED
    BY <2>5, <2>6
<1> QED
  BY <1>8, <1>9, <1>13, <1>14 DEF InitsInv

\* The run ends: its journal is saved as failed or completed.
LEMMA RunEnds ==
    ASSUME Shapes, Shapes', InitsInv, NEW p \in Procs, proc[p].pc \in {"i:make", "i:complete"},
           NEW s \in {"failed", "completed"}, Save([proc[p].journal EXCEPT !.state = s]), Set(p, Idle),
           UNCHANGED <<history, rollback, undone>>,
           used'["fault"] = used["fault"], used'["init"] = used["init"],
           DiskTypes',
           \A x \in Paths : \/ disk'[x] = disk[x]
                            \/ /\ x \in Copied /\ ~ Published
                               /\ disk'[x] = Partial \/ Named(proc[p].journal, x)
    PROVE  InitsInv'
<1>1. PICK j : j = proc[p].journal
  OBVIOUS
<1>2. PICK y : y = [j EXCEPT !.state = s]
  OBVIOUS
<1>3. MakeOK(proc[p]) /\ j \in Journal
  BY <1>1, MakerIs
<1>4. /\ y \in Journal /\ y.workspace = j.workspace /\ y.created = j.created /\ y.done = j.done
  BY <1>2, <1>3 DEF Journal
<1>5. \A x : Named(y, x) <=> Named(j, x)
  BY <1>4 DEF Named
<1>6. y.done >= 2 => CopiesNamed(y)
  BY <1>1, <1>3, <1>4, <1>5 DEF MakeOK, CopiesNamed
<1>7. ~ undone /\ ~ Published /\ y.done >= 3 => disk["db"] = y.workspace
  BY <1>1, <1>3, <1>4 DEF MakeOK
<1>8. Save(y)
  BY <1>1, <1>2
<1>9. \A x \in Paths : \/ disk'[x] = disk[x]
                       \/ /\ x \in Copied /\ ~ Published
                          /\ disk'[x] = Partial \/ Named(y, x)
  BY <1>1, <1>5
<1> QED
  BY <1>1, <1>4, <1>6, <1>7, <1>8, <1>9, SaveKeeps

LEMMA CopyReleaseKeeps ==
    ASSUME Shapes, Shapes', InitsInv, NEW p \in Procs, CopyRelease(p), used'["fault"] = used["fault"],
           used'["init"] = used["init"]
    PROVE  InitsInv'
<1>1. CASE disk[Head(proc[p].todo)] \in {Absent, Release}
  BY <1>1, CopyKeeps
<1>2. CASE disk[Head(proc[p].todo)] \notin {Absent, Release}
  <2>1. CatchInit(p) /\ disk' = disk /\ UNCHANGED <<history, rollback, undone>> /\ At(p, "i:make")
    BY <1>2 DEF CopyRelease, Making
  <2>2. DiskTypes'
    BY <2>1 DEF InitsInv, DiskTypes
  <2> QED
    BY <2>1, <2>2, RunEnds DEF CatchInit, Finish, Become, At
<1> QED
  BY <1>1, <1>2

LEMMA CheckDraftKeeps ==
    ASSUME Shapes, Shapes', InitsInv, NEW p \in Procs, CheckDraft(p), used'["fault"] = used["fault"],
           used'["init"] = used["init"]
    PROVE  InitsInv'
<1>1. Making(p, {"draft", "check"}) /\ UNCHANGED <<history, rollback, undone>> /\ At(p, "i:make")
  BY DEF CheckDraft, Making
<1>2. CASE disk["assets"] \notin {Absent, Release}
  <2>1. CatchInit(p) /\ disk' = disk
    BY <1>2 DEF CheckDraft
  <2>2. DiskTypes'
    BY <2>1 DEF InitsInv, DiskTypes
  <2> QED
    BY <1>1, <2>1, <2>2, RunEnds DEF CatchInit, Finish, Become, At
<1>3. CASE disk["assets"] \in {Absent, Release}
  <2>1. /\ disk' = [disk EXCEPT !["assets"] = Release]
        /\ \/ disk["db"] \in {proc[p].journal.workspace, Changed} /\ Proceed(p, <<>>, proc[p].journal)
           \/ disk["db"] = Absent /\ Making(p, {"draft"}) /\ Proceed(p, Rest(p), proc[p].journal)
           \/ CatchInit(p)
    BY <1>3 DEF CheckDraft
  <2>2. CASE CatchInit(p)
    <3>1. \A x \in Paths : disk'[x] = IF x = "assets" THEN Release ELSE disk[x]
      BY <2>1, DiskDoes DEF InitsInv, Paths
    <3>2. DiskTypes'
      <4>0. Release \in Int
        BY DEF Release
      <4>1. disk' \in [Paths -> Int]
        BY <2>1, <4>0 DEF InitsInv, DiskTypes
      <4>2. \A path \in Copied : disk'[path] \in {Absent, Release, Partial}
        BY <3>1, Items DEF InitsInv, DiskTypes
      <4>3. disk'["db"] = disk["db"] /\ disk'["config"] = disk["config"]
        BY <3>1 DEF Paths
      <4> QED
        BY <4>1, <4>2, <4>3 DEF InitsInv, DiskTypes
    <3>3. ~ Published /\ Named(proc[p].journal, "assets") /\ "assets" \in Copied
      <4>1. /\ ~ Published /\ Head(proc[p].todo) \in {"draft", "check"} /\ proc[p].todo # <<>>
            /\ StageOf(proc[p].journal.done, proc[p].todo)
        BY <1>1, MakingIs
      <4>2. proc[p].journal.done \in {2, 3}
        BY <4>1, MakingDoes
      <4>3. MakeOK(proc[p])
        BY <1>1, MakerIs DEF At
      <4> QED
        BY <4>1, <4>2, <4>3 DEF MakeOK, CopiesNamed, Copied
    <3> QED
      BY <1>1, <2>2, <3>1, <3>2, <3>3, RunEnds DEF CatchInit, Finish, Become, At
  <2> QED
    BY <1>1, <1>3, <2>1, <2>2, DraftKeeps
<1> QED
  BY <1>2, <1>3

LEMMA CompleteInitKeeps ==
    ASSUME Shapes, Shapes', InitsInv, NEW p \in Procs, CompleteInit(p), used'["fault"] = used["fault"],
           used'["init"] = used["init"]
    PROVE  InitsInv'
<1>1. DiskTypes'
  BY DEF InitsInv, DiskTypes, CompleteInit
<1> QED
  BY <1>1, RunEnds DEF CompleteInit, Finish, Become, At

LEMMA ThrowInitKeeps ==
    ASSUME Shapes, Shapes', InitsInv, NEW p \in Procs, ThrowInit(p), used'["fault"] = used["fault"],
           used'["init"] = used["init"]
    PROVE  InitsInv'
<1>1. /\ proc[p].pc \in {"i:make", "i:complete"} /\ Set(p, Idle) /\ disk' \in Torn(p)
      /\ Save([proc[p].journal EXCEPT !.state = "failed"]) /\ UNCHANGED <<history, rollback, undone>>
  BY DEF ThrowInit
<1>2. CASE disk' = disk
  <2>1. DiskTypes'
    BY <1>2 DEF InitsInv, DiskTypes
  <2> QED
    BY <1>1, <1>2, <2>1, RunEnds
<1>3. CASE disk' # disk
  <2>1. ~ Published /\ \E x \in Copied : disk[x] = Absent /\ disk' = [disk EXCEPT ![x] = Partial]
    BY <1>1, <1>3, TornDoes DEF InitsInv
  <2>2. PICK x \in Copied : disk' = [disk EXCEPT ![x] = Partial]
    BY <2>1
  <2>3. \A path \in Paths : disk'[path] = IF path = x THEN Partial ELSE disk[path]
    <3>1. x \in Paths
      BY Items
    <3> QED
      BY <2>2, <3>1, DiskDoes DEF InitsInv
  <2>4. DiskTypes'
    <3>1. Partial \in Int
      BY DEF Partial
    <3>2. disk' \in [Paths -> Int]
      BY <2>2, <3>1 DEF InitsInv, DiskTypes
    <3>3. disk'["db"] = disk["db"] /\ disk'["config"] = disk["config"]
      BY <2>3 DEF Paths, Copied
    <3>4. \A path \in Copied : disk'[path] \in {Absent, Release, Partial}
      BY <2>3, Items DEF InitsInv, DiskTypes
    <3> QED
      BY <3>2, <3>3, <3>4 DEF InitsInv, DiskTypes
  <2> QED
    BY <1>1, <2>1, <2>3, <2>4, RunEnds
<1> QED
  BY <1>2, <1>3

LEMMA CheckpointKeeps ==
    ASSUME Shapes, Shapes', InitsInv, NEW p \in Procs, Checkpoint(p), used'["fault"] = used["fault"],
           used'["init"] = used["init"]
    PROVE  InitsInv'
<1>01. PICK c : c = proc[p]
  OBVIOUS
<1>02. PICK j : j = c.journal
  OBVIOUS
<1>03. PICK y : y = [j EXCEPT !.done = @ + 1]
  OBVIOUS
<1>04. PICK r : r = IF y.done < 5 THEN Run(y) ELSE [pc |-> "i:complete", journal |-> y, todo |-> <<>>]
  OBVIOUS
<1>1. /\ At(p, "i:make") /\ c.todo = <<>> /\ Save(y) /\ Set(p, r)
      /\ UNCHANGED <<disk, history, rollback, undone>>
  BY <1>01, <1>02, <1>03, <1>04 DEF Checkpoint, Become
<1>2. MakeOK(c) /\ j \in Journal /\ journals # <<>> /\ c.pc = "i:make"
  BY <1>01, <1>02, <1>1, MakerIs DEF At
<1>3. j.done \in 0 .. 4
  BY <1>1, <1>2, <1>02, Todos DEF MakeOK, StageOf
<1>4. y \in Journal /\ y.workspace = j.workspace /\ y.created = j.created /\ y.done = j.done + 1
  BY <1>2, <1>3, <1>03 DEF Journal
<1>5. \A x : Named(y, x) <=> Named(j, x)
  BY <1>4 DEF Named
<1>6. y.done >= 2 => CopiesNamed(y)
  BY <1>1, <1>2, <1>3, <1>4, <1>5, <1>02 DEF MakeOK, CopiesNamed
<1>7. ~ undone /\ ~ Published /\ y.done >= 3 => disk["db"] = y.workspace /\ y.workspace \in history
  BY <1>1, <1>2, <1>3, <1>4, <1>02 DEF MakeOK
<1>8. DiskTypes'
  BY <1>1 DEF InitsInv, DiskTypes
<1>9. /\ r.journal = y /\ r.pc \in {"i:make", "i:complete"}
      /\ r.pc = "i:make" => y.done \in 0 .. 4 /\ r.todo = InitSteps[y.done + 1]
      /\ r.pc = "i:complete" => y.done = 5 /\ r.todo = <<>>
  BY <1>3, <1>4, <1>04 DEF Run
<1>10. r.pc = "i:make" => /\ StageOf(y.done, r.todo) /\ r.todo # <<"templates">>
                          /\ r.todo \notin {<<"history", "db">>, <<"db">>}
                          /\ y.done \in 1 .. 4 /\ r.todo # <<>>
  BY <1>3, <1>4, <1>9, StepsAre
<1>11. ~ Published \/ y.done = 5
  BY <1>1, <1>2, <1>3, <1>4, <1>02 DEF MakeOK
<1>12. /\ LatestJournal'.workspace = y.workspace /\ LatestJournal'.created = y.created /\ journals' # <<>>
  BY <1>1, <1>2, <1>4, SaveDoes DEF InitsInv
<1>13. \A x \in Item : Named(LatestJournal, x)' => Named(y, x)
  BY <1>12 DEF Named
<1>14. ~ undone /\ ~ Published => \A x \in Item : Named(y, x) => There(y, x)
  BY <1>2, <1>4, <1>5, <1>02 DEF MakeOK, There
<1>15. MakeOK(r)'
  <2>1. IF r.pc = "i:make" THEN StageOf(y.done, r.todo) ELSE r.todo = <<>> /\ y.done = 5
    BY <1>9, <1>10
  <2>2. r.todo # <<>> \/ y.done < 4 => ~ Published'
    BY <1>1, <1>9, <1>10, <1>11 DEF Published
  <2>3. r.todo # <<"templates">> /\ r.todo \notin {<<"history", "db">>, <<"db">>}
    BY <1>9, <1>10, Todos
  <2>4. y.done = 1 /\ r.todo = <<>> => CopiesNamed(y)
    BY <1>9, <1>10
  <2>5. ~ undone' /\ ~ Published' =>
          /\ \A x \in Item : Named(y, x) => There(y, x)'
          /\ y.done >= 3 => disk'["db"] = y.workspace /\ y.workspace \in history'
    BY <1>1, <1>7, <1>14 DEF Published, There
  <2>6. y.done = 2 => r.todo # <<>>
    BY <1>9, <1>10
  <2> QED
    BY <1>4, <1>6, <1>9, <1>12, <1>13, <2>1, <2>2, <2>3, <2>4, <2>5, <2>6 DEF MakeOK, Named, CopiesNamed
<1>16. r # Idle
  BY <1>9 DEF Idle
<1>17. \A x \in Paths : disk'[x] = disk[x]
  BY <1>1
<1> QED
  BY <1>01, <1>02, <1>1, <1>2, <1>4, <1>6, <1>7, <1>8, <1>9, <1>15, <1>16, <1>17, SaveKeeps

-----------------------------------------------------------------------------
(* A run starts, is resumed or rolled back *)

\* Nobody makes or unmakes a workspace.
LEMMA NobodyMakes ==
    ASSUME Shapes, Running = {} \/ Busy = {}
    PROVE  Initing = {} /\ Journals = {journals[i] : i \in DOMAIN journals}
<1>1. Initing = {}
  <2>1. Running \subseteq Busy
    BY DEF Running
  <2> QED
    BY <2>1, InitingIs
<1> QED
  BY <1>1 DEF Journals

LEMMA LaunchDoes ==
    ASSUME Shapes, NEW p \in Procs, NEW k \in Counted, NEW r, Launch(p, k, r)
    PROVE  /\ Set(p, r) /\ used'[k] = used[k] + 1
           /\ \A x \in Counted : x # k => used'[x] = used[x]
BY SpendDoes, CountedAssumption DEF Launch

LEMMA StartInitKeeps ==
    ASSUME Shapes, Shapes', InitsInv, NEW p \in Procs, StartInit(p)
    PROVE  InitsInv'
<1>01. PICK j : j = [workspace |-> used["init"] + 1, state |-> "running", done |-> 0, created |-> <<>>,
                     stamp |-> stamp + 1]
  OBVIOUS
<1>02. PICK r : r = Run(j)
  OBVIOUS
<1>1. /\ ~ Published /\ Initing = {} /\ Journals = {journals[i] : i \in DOMAIN journals}
      /\ Launch(p, "init", r) /\ journals' = Append(journals, j) /\ stamp' = stamp + 1
      /\ UNCHANGED <<disk, history, rollback, undone>>
  BY <1>01, <1>02, NobodyMakes DEF StartInit
<1>2. /\ Set(p, r) /\ used'["init"] = used["init"] + 1 /\ used'["fault"] = used["fault"]
      /\ used["init"] \in Nat
  BY <1>1, LaunchDoes, CountedAssumption DEF Counted, Shapes
<1>3. /\ stamp \in Nat /\ journals \in Seq(Journal) /\ rollback.stamp \in Nat /\ rollback.stamp <= stamp
  BY DEF InitsInv, JournalTypes
<1>4. /\ j \in Journal /\ j.workspace = used["init"] + 1 /\ j.done = 0 /\ j.stamp = stamp + 1
      /\ j.created = <<>>
  BY <1>01, <1>2, <1>3 DEF Journal
<1>5. PICK n \in Nat \ {0} : n = Len(journals) + 1
  BY <1>3
<1>6. /\ journals' \in Seq(Journal) /\ DOMAIN journals' = DOMAIN journals \cup {n} /\ n \notin DOMAIN journals
      /\ journals'[n] = j /\ \A i \in DOMAIN journals : journals'[i] = journals[i]
      /\ journals' # <<>> /\ Len(journals') = n
  BY <1>1, <1>3, <1>4, <1>5
<1>7. LatestJournal' = j
  BY <1>6 DEF LatestJournal
<1>8. \A x : ~ Named(j, x)
  BY <1>4 DEF Named
<1>9. DiskTypes'
  <2>1. disk["config"] \in 0 .. used'["init"] /\ disk["db"] \in {Absent, Changed} \cup 1 .. used'["init"]
    BY <1>2 DEF InitsInv, DiskTypes
  <2> QED
    BY <1>1, <2>1 DEF InitsInv, DiskTypes
<1>10. ASSUME NEW i \in DOMAIN journals
       PROVE  /\ journals[i].stamp <= stamp' /\ journals[i].workspace <= used["init"]
              /\ journals[i].workspace \in Nat
  <2>1. journals[i] \in Journal /\ journals[i].stamp <= stamp /\ journals[i].workspace <= used["init"]
    BY DEF InitsInv, JournalTypes
  <2>2. journals[i].stamp \in Nat /\ journals[i].workspace \in Nat
    BY <2>1 DEF Journal
  <2> QED
    BY <1>1, <1>3, <2>1, <2>2
<1>11. JournalTypes'
  <2>1. ASSUME NEW i \in DOMAIN journals'
        PROVE  /\ journals'[i].stamp <= stamp' /\ journals'[i].workspace <= used'["init"]
               /\ journals'[i].done >= 2 => CopiesNamed(journals'[i])
               /\ journals'[i].stamp = rollback.stamp =>
                    journals'[i].created = rollback.created /\ journals'[i].workspace = rollback.workspace
    <3>1. CASE i = n
      BY <1>1, <1>2, <1>3, <1>4, <1>6, <3>1
    <3>2. CASE i \in DOMAIN journals
      <4>1. journals'[i] = journals[i]
        BY <1>6, <3>2
      <4>2. /\ journals[i].done >= 2 => CopiesNamed(journals[i])
            /\ journals[i].stamp = rollback.stamp =>
                 journals[i].created = rollback.created /\ journals[i].workspace = rollback.workspace
        BY <3>2 DEF InitsInv, JournalTypes
      <4>3. CopiesNamed(journals'[i]) <=> CopiesNamed(journals[i])
        BY <4>1
      <4> QED
        BY <1>2, <1>10, <3>2, <4>1, <4>2, <4>3
    <3> QED
      BY <1>6, <3>1, <3>2
  <2>2. ASSUME NEW i \in DOMAIN journals', NEW k \in DOMAIN journals',
               journals'[i].workspace = journals'[k].workspace
        PROVE  i = k
    <3>1. CASE i \in DOMAIN journals /\ k \in DOMAIN journals
      BY <1>6, <2>2, <3>1 DEF InitsInv, JournalTypes
    <3>2. CASE i = n /\ k \in DOMAIN journals
      BY <1>2, <1>4, <1>6, <1>10, <2>2, <3>2
    <3>3. CASE k = n /\ i \in DOMAIN journals
      BY <1>2, <1>4, <1>6, <1>10, <2>2, <3>3
    <3> QED
      BY <1>6, <3>1, <3>2, <3>3
  <2>3. /\ history' \subseteq Nat \ {0} /\ undone' \in BOOLEAN /\ stamp' \in Nat
        /\ rollback' \in [stamp : Nat, created : Seq(Item), workspace : Nat] /\ rollback'.stamp <= stamp'
    BY <1>1, <1>3 DEF InitsInv, JournalTypes
  <2> QED
    BY <1>1, <1>6, <2>1, <2>2, <2>3 DEF JournalTypes, CopiesNamed, Named
<1>12. r.pc = "i:make" /\ r.journal = j /\ r.todo = <<>>
  BY <1>02, <1>4 DEF Run, InitSteps
<1>13. MakeOK(r)'
  <2>1. StageOf(0, <<>>)
    BY DEF StageOf
  <2>2. <<>> # <<"templates">> /\ <<>> \notin {<<"history", "db">>, <<"db">>} /\ <<>> # <<"db">>
    BY Todos
  <2>3. ~ Published'
    BY <1>1 DEF Published
  <2> QED
    BY <1>4, <1>6, <1>7, <1>8, <1>12, <2>1, <2>2, <2>3 DEF MakeOK, Named, CopiesNamed
<1>14. RunInv' /\ Journals' = {journals'[i] : i \in DOMAIN journals'} \cup {j}
  <2>1. Initing \subseteq {p} /\ r.pc # "i:unmake"
    BY <1>1, <1>12
  <2> QED
    BY <1>2, <1>12, <1>13, <2>1, RunTurns
<1>15. WholeInv'
  <2> SUFFICES ASSUME ~ undone
               PROVE  /\ disk["db"] # Changed
                      /\ \A i \in DOMAIN journals' :
                           /\ journals'[i].done >= 3 =>
                                disk["db"] = journals'[i].workspace \/ Named(journals'[i], "db")
                           /\ disk["db"] = journals'[i].workspace =>
                                journals'[i].workspace \in history \/ Named(journals'[i], "history")
    BY <1>1 DEF WholeInv, Named, Published
  <2>1. /\ disk["db"] # Changed
        /\ \A i \in DOMAIN journals :
             /\ journals[i].done >= 3 => disk["db"] = journals[i].workspace \/ Named(journals[i], "db")
             /\ disk["db"] = journals[i].workspace =>
                  journals[i].workspace \in history \/ Named(journals[i], "history")
    BY <1>1 DEF InitsInv, WholeInv
  <2>2. disk["db"] # j.workspace
    <3>1. disk["db"] \in {Absent, Changed} \cup 1 .. used["init"]
      BY DEF InitsInv, DiskTypes
    <3> QED
      BY <1>2, <1>4, <3>1 DEF Absent, Changed
  <2> QED
    BY <1>4, <1>6, <2>1, <2>2
<1>16. OwnedInv'
  <2> SUFFICES ASSUME used["fault"] = 0
               PROVE  /\ \A path \in Paths : disk[path] \notin {Absent, Partial} =>
                            \E x \in Journals' : Named(x, path)
                      /\ \A w \in history : \E x \in Journals' : x.workspace = w /\ Named(x, "history")
    BY <1>1, <1>2 DEF OwnedInv, Named
  <2>1. /\ \A path \in Paths : disk[path] \notin {Absent, Partial} => \E x \in Journals : Named(x, path)
        /\ \A w \in history : \E x \in Journals : x.workspace = w /\ Named(x, "history")
    BY DEF InitsInv, OwnedInv
  <2>2. Journals \subseteq Journals'
    BY <1>1, <1>6, <1>14
  <2> QED
    BY <2>1, <2>2
<1> QED
  BY <1>9, <1>11, <1>14, <1>15, <1>16 DEF InitsInv

LEMMA ResumeInitKeeps ==
    ASSUME Shapes, Shapes', InitsInv, NEW p \in Procs, ResumeInit(p)
    PROVE  InitsInv'
<1>01. PICK j : j = LatestJournal
  OBVIOUS
<1>02. PICK r : r = IF j.done < 5 THEN Run(j) ELSE [pc |-> "i:complete", journal |-> j, todo |-> <<>>]
  OBVIOUS
<1>1. /\ ~ Published /\ Initing = {} /\ Journals = {journals[i] : i \in DOMAIN journals}
      /\ journals # <<>> /\ Launch(p, "resume", r) /\ undone' = (undone \/ ~ AsMade(j))
      /\ UNCHANGED <<disk, history, journals, rollback, stamp>>
  BY <1>01, <1>02, NobodyMakes DEF ResumeInit
<1>2. /\ Set(p, r) /\ used'["init"] = used["init"] /\ used'["fault"] = used["fault"]
  BY <1>1, LaunchDoes DEF Counted
<1>3. PICK n \in DOMAIN journals : j = journals[n] /\ j \in Journal
  BY <1>01, <1>1, LatestIs DEF InitsInv
<1>4. j.done \in 0 .. 5 /\ (j.done >= 2 => CopiesNamed(j)) /\ LatestJournal' = j
  BY <1>01, <1>1, <1>3 DEF InitsInv, JournalTypes, Journal, LatestJournal
<1>5. DiskTypes' /\ ~ Published'
  BY <1>1, <1>2 DEF InitsInv, DiskTypes, Published
<1>6. undone' \in BOOLEAN
  BY <1>1
<1>7. JournalTypes'
  BY <1>1, <1>2, <1>6 DEF InitsInv, JournalTypes, CopiesNamed, Named
<1>8. /\ r.journal = j /\ r.pc \in {"i:make", "i:complete"}
      /\ r.pc = "i:make" => j.done \in 0 .. 4 /\ r.todo = InitSteps[j.done + 1]
      /\ r.pc = "i:complete" => j.done = 5 /\ r.todo = <<>>
  BY <1>02, <1>4 DEF Run
<1>9. /\ r.pc = "i:make" => StageOf(j.done, r.todo)
      /\ r.todo # <<"templates">> /\ r.todo \notin {<<"history", "db">>, <<"db">>}
      /\ j.done \in {1, 2} => r.todo # <<>>
  BY <1>8, StepsAre, Todos
<1>10. ASSUME ~ undone'
       PROVE  /\ \A x \in Item : Named(j, x) => There(j, x)
              /\ j.done >= 3 => disk["db"] = j.workspace /\ j.workspace \in history
  <2>1. ~ undone /\ AsMade(j)
    BY <1>1, <1>10
  <2>2. \A x \in Item : Named(j, x) => There(j, x)
    BY <2>1 DEF AsMade, Named, There
  <2>3. ASSUME j.done >= 3 PROVE disk["db"] = j.workspace /\ j.workspace \in history
    <3>1. /\ disk["db"] = j.workspace \/ Named(j, "db")
          /\ disk["db"] = j.workspace => j.workspace \in history \/ Named(j, "history")
      BY <1>1, <1>3, <2>1, <2>3 DEF InitsInv, WholeInv
    <3>2. Named(j, "db") => disk["db"] = j.workspace
      BY <2>2, Items DEF There, Copied
    <3>3. Named(j, "history") => j.workspace \in history
      BY <2>2, Items DEF There
    <3> QED
      BY <3>1, <3>2, <3>3
  <2> QED
    BY <2>2, <2>3
<1>11. MakeOK(r)'
  BY <1>1, <1>3, <1>4, <1>5, <1>8, <1>9, <1>10 DEF MakeOK, Named, CopiesNamed, There
<1>12. RunInv' /\ Journals' = {journals'[i] : i \in DOMAIN journals'} \cup {j}
  <2>1. Initing \subseteq {p} /\ r.pc # "i:unmake"
    BY <1>1, <1>8
  <2> QED
    BY <1>2, <1>8, <1>11, <2>1, RunTurns
<1>13. WholeInv'
  BY <1>1, <1>5 DEF InitsInv, WholeInv, Named
<1>14. OwnedInv'
  BY <1>1, <1>2, <1>12 DEF InitsInv, OwnedInv, Named
<1> QED
  BY <1>5, <1>7, <1>12, <1>13, <1>14 DEF InitsInv

\* applyInitRollbackPlan: the journal that the plan has seen is the last one.
LEMMA ApplyRollbackKeeps ==
    ASSUME Shapes, Shapes', InitsInv, NEW p \in Procs, ApplyRollback(p)
    PROVE  InitsInv'
<1>01. PICK r : r = IF journals # <<>> /\ LatestJournal.stamp = rollback.stamp
                    THEN [pc |-> "i:unmake", todo |-> rollback.created] ELSE Idle
  OBVIOUS
<1>1. /\ Initing = {} /\ Journals = {journals[i] : i \in DOMAIN journals}
      /\ Launch(p, "unmake", r) /\ UNCHANGED <<disk, history, journals, rollback, stamp, undone>>
  BY <1>01, NobodyMakes DEF ApplyRollback, initVars
<1>2. /\ Set(p, r) /\ used'["init"] = used["init"] /\ used'["fault"] = used["fault"]
  BY <1>1, LaunchDoes DEF Counted
<1>3. DiskTypes'
  BY <1>1, <1>2 DEF InitsInv, DiskTypes
<1>4. JournalTypes'
  BY <1>1, <1>2 DEF InitsInv, JournalTypes, CopiesNamed, Named
<1>5. r.pc \notin {"i:make", "i:complete"}
  BY <1>01 DEF Idle
<1>6. ASSUME r.pc = "i:unmake" PROVE UnmakeOK(r)'
  <2>1. /\ journals # <<>> /\ LatestJournal.stamp = rollback.stamp /\ r.todo = rollback.created
    BY <1>01, <1>6 DEF Idle
  <2>2. PICK n \in DOMAIN journals : LatestJournal = journals[n]
    BY <2>1, LatestIs DEF InitsInv
  <2>3. LatestJournal.created = rollback.created /\ rollback.created \in Seq(Item)
    BY <2>1, <2>2 DEF InitsInv, JournalTypes
  <2>4. LatestJournal' = LatestJournal
    BY <1>1 DEF LatestJournal
  <2>5. /\ \A i \in DOMAIN r.todo : Named(LatestJournal, r.todo[i])
        /\ \A x \in Item : Named(LatestJournal, x) => \E i \in DOMAIN r.todo : r.todo[i] = x
    BY <2>1, <2>3 DEF Named
  <2> QED
    BY <1>1, <2>1, <2>3, <2>4, <2>5 DEF UnmakeOK, Named
<1>7. RunInv' /\ Journals' = {journals'[i] : i \in DOMAIN journals'}
  <2>1. Initing \subseteq {p}
    BY <1>1
  <2> QED
    BY <1>2, <1>5, <1>6, <2>1, RunTurns
<1>8. WholeInv'
  BY <1>1 DEF InitsInv, WholeInv, Named, Published
<1>9. OwnedInv'
  BY <1>1, <1>2, <1>7 DEF InitsInv, OwnedInv, Named
<1> QED
  BY <1>3, <1>4, <1>7, <1>8, <1>9 DEF InitsInv

\* A rollback in progress.
LEMMA UnmakerIs ==
    ASSUME Shapes, InitsInv, NEW p \in Procs, At(p, "i:unmake")
    PROVE  /\ Initing = {p} /\ UnmakeOK(proc[p]) /\ DOMAIN proc[p] = {"pc", "todo"}
           /\ Journals = {journals[i] : i \in DOMAIN journals} /\ journals # <<>>
           /\ \E n \in DOMAIN journals : n = Len(journals) /\ LatestJournal = journals[n]
           /\ rollback.workspace = LatestJournal.workspace /\ proc[p].todo \in Seq(Item)
<1>1. p \in Initing /\ InitShape(proc[p])
  BY InitingIs DEF Initing, InitPC, At
<1>2. Initing = {p} /\ UnmakeOK(proc[p])
  BY <1>1 DEF InitsInv, RunInv, At
<1>3. DOMAIN proc[p] = {"pc", "todo"}
  BY <1>1 DEF InitShape, Has, At
<1>4. journals # <<>> /\ LatestJournal.stamp = rollback.stamp /\ proc[p].todo \in Seq(Item)
  BY <1>2 DEF UnmakeOK
<1>5. Len(journals) \in DOMAIN journals /\ LatestJournal = journals[Len(journals)]
  BY <1>4, LatestIs DEF InitsInv
<1>6. rollback.workspace = LatestJournal.workspace
  BY <1>4, <1>5 DEF InitsInv, JournalTypes
<1>7. {q \in Initing : proc[q].pc # "i:unmake"} = {}
  BY <1>2 DEF At
<1> QED
  BY <1>2, <1>3, <1>4, <1>5, <1>6, <1>7 DEF Journals

\* A file is removed, and the rollback goes on with the rest of its plan.
LEMMA RemovedKeeps ==
    ASSUME Shapes, Shapes', InitsInv, NEW p \in Procs, NEW x \in Item, Unmaking(p, x), Removed(p),
           UNCHANGED <<journals, rollback, stamp>>,
           used'["fault"] = used["fault"], used'["init"] = used["init"],
           \A path \in Paths : disk'[path] = IF path = x THEN Absent ELSE disk[path],
           disk' \in [Paths -> Int],
           history' = IF x = "history" THEN history \ {rollback.workspace} ELSE history
    PROVE  InitsInv'
<1>01. PICK c : c = proc[p]
  OBVIOUS
<1>02. PICK r : r = [c EXCEPT !.todo = Tail(@)]
  OBVIOUS
<1>03. PICK l : l = LatestJournal
  OBVIOUS
<1>1. /\ c.pc = "i:unmake" /\ At(p, "i:unmake") /\ c.todo # <<>> /\ Head(c.todo) = x /\ Set(p, r)
      /\ undone' = (undone \/ Published \/ Len(journals) > 1)
  BY <1>01, <1>02 DEF Unmaking, Removed, Become, At
<1>2. /\ Initing = {p} /\ UnmakeOK(c) /\ DOMAIN c = {"pc", "todo"} /\ c.todo \in Seq(Item)
      /\ Journals = {journals[i] : i \in DOMAIN journals} /\ journals # <<>>
      /\ rollback.workspace = l.workspace
  BY <1>01, <1>03, <1>1, UnmakerIs
<1>3. PICK n \in DOMAIN journals : n = Len(journals) /\ l = journals[n]
  BY <1>01, <1>03, <1>1, UnmakerIs
<1>4. LatestJournal' = l /\ journals' = journals
  BY <1>03 DEF LatestJournal
<1>5. r.pc = "i:unmake" /\ r.todo = Tail(c.todo)
  BY <1>02, <1>1, <1>2
<1>6. /\ Tail(c.todo) \in Seq(Item)
      /\ \A i \in DOMAIN Tail(c.todo) : i + 1 \in DOMAIN c.todo /\ Tail(c.todo)[i] = c.todo[i + 1]
      /\ 1 \in DOMAIN c.todo /\ c.todo[1] = x
      /\ \A i \in DOMAIN c.todo : i = 1 \/ (i - 1 \in DOMAIN Tail(c.todo) /\ Tail(c.todo)[i - 1] = c.todo[i])
  <2> USE <1>1, <1>2
  <2>1. Tail(c.todo) \in Seq(Item) /\ Len(Tail(c.todo)) = Len(c.todo) - 1 /\ Len(c.todo) \in Nat \ {0}
    OBVIOUS
  <2>2. \A i \in 1 .. Len(c.todo) - 1 : Tail(c.todo)[i] = c.todo[i + 1]
    OBVIOUS
  <2>3. DOMAIN c.todo = 1 .. Len(c.todo) /\ DOMAIN Tail(c.todo) = 1 .. Len(c.todo) - 1
    BY <2>1
  <2>4. c.todo[1] = x
    OBVIOUS
  <2>5. ASSUME NEW i \in DOMAIN c.todo, i # 1
        PROVE  i - 1 \in DOMAIN Tail(c.todo) /\ Tail(c.todo)[i - 1] = c.todo[i]
    <3>1. i - 1 \in 1 .. Len(c.todo) - 1 /\ (i - 1) + 1 = i
      BY <2>1, <2>3, <2>5
    <3> QED
      BY <2>2, <2>3, <3>1
  <2>6. \A i \in DOMAIN Tail(c.todo) : i + 1 \in DOMAIN c.todo /\ Tail(c.todo)[i] = c.todo[i + 1]
    BY <2>1, <2>2, <2>3
  <2> QED
    BY <2>1, <2>3, <2>4, <2>5, <2>6
<1>7. Named(l, x)
  BY <1>2, <1>6, <1>03 DEF UnmakeOK
<1>8. Gone(l, x)'
  BY <1>2, <1>4 DEF Gone, Item
<1>9. \A a \in Item : Gone(l, a) => Gone(l, a)'
  BY DEF Gone, Item
<1>10. UnmakeOK(r)'
  <2>1. \A i \in DOMAIN r.todo : Named(l, r.todo[i])
    BY <1>2, <1>5, <1>6, <1>03 DEF UnmakeOK
  <2>2. ASSUME NEW a \in Item, Named(l, a)
        PROVE  Gone(l, a)' \/ \E i \in DOMAIN r.todo : r.todo[i] = a
    <3>1. Gone(l, a) \/ \E i \in DOMAIN c.todo : c.todo[i] = a
      BY <1>2, <2>2, <1>03 DEF UnmakeOK
    <3>2. CASE Gone(l, a) \/ a = x
      BY <1>8, <1>9, <3>2
    <3>3. CASE a # x /\ \E i \in DOMAIN c.todo : c.todo[i] = a
      <4>1. PICK i \in DOMAIN c.todo : c.todo[i] = a
        BY <3>3
      <4>2. i # 1
        BY <1>6, <3>3, <4>1
      <4>3. i - 1 \in DOMAIN Tail(c.todo) /\ Tail(c.todo)[i - 1] = c.todo[i]
        BY <1>6, <4>2
      <4> QED
        BY <1>5, <4>1, <4>3
    <3> QED
      BY <3>1, <3>2, <3>3
  <2>3. LatestJournal.stamp = rollback.stamp
    BY <1>2 DEF UnmakeOK
  <2>4. journals' # <<>> /\ LatestJournal'.stamp = rollback'.stamp /\ r.todo \in Seq(Item)
    BY <1>2, <1>4, <1>03, <1>5, <1>6, <2>3
  <2> QED
    BY <1>4, <2>1, <2>2, <2>4 DEF UnmakeOK, Named, Gone
<1>11. RunInv' /\ Journals' = {journals'[i] : i \in DOMAIN journals'}
  <2>1. Initing \subseteq {p} /\ r.pc \notin {"i:make", "i:complete"}
    BY <1>2, <1>5
  <2> QED
    BY <1>1, <1>10, <2>1, RunTurns
<1>12. DiskTypes'
  <2>1. "db" \in Paths /\ "config" \in Paths
    BY Items DEF Paths
  <2>2. disk'["db"] \in {Absent, disk["db"]} /\ disk'["config"] \in {Absent, disk["config"]}
    BY <2>1
  <2>3. \A path \in Copied : disk'[path] \in {Absent, Release, Partial}
    BY Items DEF InitsInv, DiskTypes
  <2>4. used["init"] \in Nat
    BY CountedAssumption DEF Counted, Shapes
  <2> QED
    BY <2>2, <2>3, <2>4 DEF InitsInv, DiskTypes, Absent
<1>13. JournalTypes'
  <2>1. history' \subseteq Nat \ {0} /\ undone' \in BOOLEAN
    BY <1>1 DEF InitsInv, JournalTypes
  <2> QED
    BY <1>4, <2>1 DEF InitsInv, JournalTypes, CopiesNamed, Named
<1>14. WholeInv'
  <2> SUFFICES ASSUME ~ undone' PROVE WholeInv'
    BY DEF WholeInv
  <2>1. ~ undone /\ ~ Published /\ Len(journals) = 1
    <3>1. PICK m \in Nat \ {0} : m = Len(journals)
      BY <1>2, LatestIs DEF InitsInv
    <3>2. ~ undone /\ ~ Published /\ ~ (m > 1)
      BY <1>1, <3>1
    <3>3. m = 1
      BY <3>1, <3>2
    <3> QED
      BY <3>1, <3>2, <3>3
  <2>2. ~ Published' /\ disk'["db"] \in {Absent, disk["db"]} /\ (x # "db" => disk'["db"] = disk["db"])
    BY <2>1 DEF Published, Paths
  <2>3. DOMAIN journals' = {n}
    BY <1>2, <1>3, <1>4, <2>1, LatestIs DEF InitsInv
  <2>4. /\ l.done >= 3 => disk["db"] = l.workspace \/ Named(l, "db")
        /\ disk["db"] = l.workspace => l.workspace \in history \/ Named(l, "history")
        /\ disk["db"] # Changed
    BY <1>3, <2>1 DEF InitsInv, WholeInv
  <2>5. l.workspace \in Nat \ {0}
    <3>1. l \in Journal
      BY <1>2, <1>03, LatestIs DEF InitsInv
    <3> QED
      BY <3>1 DEF Journal
  <2>6. disk'["db"] # Changed
    BY <2>2, <2>4 DEF Absent, Changed
  <2>7. l.done >= 3 => disk'["db"] = l.workspace \/ Named(l, "db")
    BY <1>7, <2>2, <2>4
  <2>8. disk'["db"] = l.workspace => l.workspace \in history' \/ Named(l, "history")
    <3>1. disk'["db"] = l.workspace => disk["db"] = l.workspace
      BY <2>2, <2>5 DEF Absent
    <3> QED
      BY <1>7, <2>4, <3>1
  <2> QED
    BY <1>3, <1>4, <2>2, <2>3, <2>6, <2>7, <2>8 DEF WholeInv, Named
<1>15. OwnedInv'
  <2>1. Journals' = Journals
    BY <1>2, <1>4, <1>11
  <2>2. history' \subseteq history /\ \A path \in Paths : disk'[path] \in {Absent, disk[path]}
    OBVIOUS
  <2> QED
    BY <2>1, <2>2 DEF InitsInv, OwnedInv, Named
<1> QED
  BY <1>11, <1>12, <1>13, <1>14, <1>15 DEF InitsInv

LEMMA UnmakeFileKeeps ==
    ASSUME Shapes, Shapes', InitsInv, NEW p \in Procs, UnmakeFile(p), used'["fault"] = used["fault"],
           used'["init"] = used["init"]
    PROVE  InitsInv'
<1>1. PICK path \in Paths :
         /\ Unmaking(p, path)
         /\ IF disk[path] \in {Absent, IF path \in Copied THEN Release ELSE rollback.workspace}
            THEN Removed(p) /\ disk' = [disk EXCEPT ![path] = Absent]
            ELSE Finish(p) /\ UNCHANGED <<disk, undone>>
  BY DEF UnmakeFile
<1>2. UNCHANGED <<history, journals, rollback, stamp>>
  BY DEF UnmakeFile
<1>3. CASE Removed(p) /\ disk' = [disk EXCEPT ![path] = Absent]
  <2>1. \A x \in Paths : disk'[x] = IF x = path THEN Absent ELSE disk[x]
    BY <1>3, DiskDoes DEF InitsInv
  <2>2. disk' \in [Paths -> Int]
    <3>1. Absent \in Int
      BY DEF Absent
    <3> QED
      BY <1>3, <3>1 DEF InitsInv, DiskTypes
  <2>3. path \in Item /\ path # "history"
    BY Items DEF Paths
  <2> QED
    BY <1>1, <1>2, <1>3, <2>1, <2>2, <2>3, RemovedKeeps
<1>4. CASE Finish(p) /\ UNCHANGED <<disk, undone>>
  <2>1. At(p, "i:unmake")
    BY <1>1 DEF Unmaking
  <2>2. Initing = {p} /\ Journals = {journals[i] : i \in DOMAIN journals}
    BY <2>1, UnmakerIs
  <2>3. Set(p, Idle) /\ Idle.pc \notin InitPC
    BY <1>4 DEF Finish, Become, Idle, InitPC
  <2>4. RunInv' /\ Journals' = {journals'[i] : i \in DOMAIN journals'}
    BY <2>2, <2>3, RunTurns DEF InitPC
  <2>5. DiskTypes'
    BY <1>4 DEF InitsInv, DiskTypes
  <2>6. JournalTypes'
    BY <1>2, <1>4 DEF InitsInv, JournalTypes, CopiesNamed, Named
  <2>7. WholeInv'
    BY <1>2, <1>4 DEF InitsInv, WholeInv, Named, Published
  <2>8. OwnedInv'
    BY <1>2, <1>4, <2>2, <2>4 DEF InitsInv, OwnedInv, Named
  <2> QED
    BY <2>4, <2>5, <2>6, <2>7, <2>8 DEF InitsInv
<1> QED
  BY <1>1, <1>3, <1>4

LEMMA UnmakeHistoryKeeps ==
    ASSUME Shapes, Shapes', InitsInv, NEW p \in Procs, UnmakeHistory(p), used'["fault"] = used["fault"],
           used'["init"] = used["init"]
    PROVE  InitsInv'
<1>1. /\ Unmaking(p, "history") /\ Removed(p) /\ history' = history \ {rollback.workspace}
      /\ UNCHANGED <<disk, journals, rollback, stamp>>
  BY DEF UnmakeHistory
<1>2. "history" \in Item /\ \A path \in Paths : path # "history"
  BY Items DEF Paths
<1>3. disk' \in [Paths -> Int]
  BY <1>1 DEF InitsInv, DiskTypes
<1> QED
  BY <1>1, <1>2, <1>3, RemovedKeeps

\* The journal goes when its files have gone.
LEMMA FinishRollbackKeeps ==
    ASSUME Shapes, Shapes', InitsInv, NEW p \in Procs, FinishRollback(p), used'["fault"] = used["fault"],
           used'["init"] = used["init"]
    PROVE  InitsInv'
<1>01. PICK l : l = LatestJournal
  OBVIOUS
<1>1. /\ At(p, "i:unmake") /\ proc[p].todo = <<>> /\ Set(p, Idle)
      /\ journals' = SubSeq(journals, 1, Len(journals) - 1) /\ rollback' = NoRollback
      /\ UNCHANGED <<disk, history, stamp, undone>>
  BY DEF FinishRollback, Finish, Become
<1>2. /\ Initing = {p} /\ UnmakeOK(proc[p]) /\ journals # <<>>
      /\ Journals = {journals[i] : i \in DOMAIN journals}
  BY <1>1, UnmakerIs
<1>3. PICK n \in DOMAIN journals : n = Len(journals) /\ l = journals[n]
  BY <1>01, <1>1, UnmakerIs
<1>4. \A x \in Item : Named(l, x) => Gone(l, x)
  BY <1>01, <1>1, <1>2 DEF UnmakeOK
<1>5. /\ journals' \in Seq(Journal) /\ DOMAIN journals' = DOMAIN journals \ {n}
      /\ \A i \in DOMAIN journals' : journals'[i] = journals[i]
  <2>1. journals \in Seq(Journal)
    BY DEF InitsInv, JournalTypes
  <2>2. n \in Nat \ {0} /\ DOMAIN journals = 1 .. n /\ Len(journals) = n
    BY <1>3, <2>1
  <2>3. Len(journals') = n - 1 /\ \A i \in 1 .. n - 1 : journals'[i] = journals[i]
    BY <1>1, <2>1, <2>2
  <2>4. journals' \in Seq(Journal)
    BY <1>1, <2>1, <2>2
  <2>5. DOMAIN journals' = 1 .. n - 1
    BY <2>3, <2>4
  <2> QED
    BY <2>2, <2>3, <2>4, <2>5
<1>6. DiskTypes'
  BY <1>1 DEF InitsInv, DiskTypes
<1>7. JournalTypes'
  <2>1. /\ history' \subseteq Nat \ {0} /\ undone' \in BOOLEAN /\ stamp' \in Nat /\ stamp' = stamp
    BY <1>1 DEF InitsInv, JournalTypes
  <2>2. /\ rollback' \in [stamp : Nat, created : Seq(Item), workspace : Nat] /\ rollback'.stamp = 0
        /\ rollback'.stamp <= stamp'
    <3>1. <<>> \in Seq(Item)
      OBVIOUS
    <3> QED
      BY <1>1, <2>1, <3>1 DEF NoRollback
  <2>3. ASSUME NEW i \in DOMAIN journals'
        PROVE  /\ journals'[i].stamp <= stamp' /\ journals'[i].workspace <= used'["init"]
               /\ journals'[i].done >= 2 => CopiesNamed(journals'[i])
               /\ journals'[i].stamp # rollback'.stamp
    <3>1. journals'[i] = journals[i] /\ i \in DOMAIN journals
      BY <1>5
    <3>2. /\ journals[i].stamp <= stamp /\ journals[i].workspace <= used["init"]
          /\ journals[i].done >= 2 => CopiesNamed(journals[i])
          /\ journals[i] \in Journal
      BY <3>1 DEF InitsInv, JournalTypes
    <3>3. journals[i].stamp # 0
      BY <3>2 DEF Journal
    <3>4. CopiesNamed(journals'[i]) <=> CopiesNamed(journals[i])
      BY <3>1
    <3> QED
      BY <2>1, <2>2, <3>1, <3>2, <3>3, <3>4
  <2>4. \A i, k \in DOMAIN journals' : journals'[i].workspace = journals'[k].workspace => i = k
    BY <1>5 DEF InitsInv, JournalTypes
  <2> QED
    BY <1>5, <2>1, <2>2, <2>3, <2>4 DEF JournalTypes, CopiesNamed, Named
<1>8. RunInv' /\ Journals' = {journals'[i] : i \in DOMAIN journals'}
  <2>1. Idle.pc \notin InitPC
    BY DEF Idle, InitPC
  <2> QED
    BY <1>1, <1>2, <2>1, RunTurns DEF InitPC
<1>9. WholeInv'
  BY <1>1, <1>5 DEF InitsInv, WholeInv, Named, Published
<1>10. OwnedInv'
  <2> SUFFICES ASSUME used["fault"] = 0
               PROVE  /\ \A path \in Paths : disk[path] \notin {Absent, Partial} =>
                            \E x \in Journals' : Named(x, path)
                      /\ \A w \in history : \E x \in Journals' : x.workspace = w /\ Named(x, "history")
    BY <1>1 DEF OwnedInv, Named
  <2>1. /\ \A path \in Paths : disk[path] \notin {Absent, Partial} => \E x \in Journals : Named(x, path)
        /\ \A w \in history : \E x \in Journals : x.workspace = w /\ Named(x, "history")
    BY DEF InitsInv, OwnedInv
  <2>2. \A x \in Journals : x = l \/ x \in Journals'
    BY <1>2, <1>3, <1>5, <1>8
  <2>3. \A path \in Paths : Named(l, path) => disk[path] = Absent
    BY <1>4, Items DEF Gone, Paths
  <2>4. Named(l, "history") => l.workspace \notin history
    BY <1>4, Items DEF Gone
  <2> QED
    BY <2>1, <2>2, <2>3, <2>4
<1> QED
  BY <1>6, <1>7, <1>8, <1>9, <1>10 DEF InitsInv

LEMMA ElsewhereDoes ==
    ASSUME Shapes, NEW k \in Counted, k # "init", Elsewhere(k)
    PROVE  used'["init"] = used["init"] /\ proc' = proc
BY SpendDoes, CountedAssumption DEF Elsewhere, Counted

LEMMA UseWorkspaceKeeps ==
    ASSUME Shapes, Shapes', InitsInv, UseWorkspace, used'["fault"] = used["fault"]
    PROVE  InitsInv'
<1>1. /\ Published /\ disk["db"] \notin {Absent, Changed} /\ Busy = {} /\ Elsewhere("use")
      /\ disk' = [disk EXCEPT !["db"] = Changed]
      /\ UNCHANGED <<history, journals, rollback, stamp, undone>>
  BY DEF UseWorkspace
<1>2. used'["init"] = used["init"] /\ proc' = proc
  BY <1>1, ElsewhereDoes DEF Counted
<1>3. Initing = {} /\ Initing' = {} /\ Journals' = Journals
  BY <1>1, <1>2, NobodyMakes DEF Initing, Journals
<1>4. \A x \in Paths : disk'[x] = IF x = "db" THEN Changed ELSE disk[x]
  BY <1>1, DiskDoes DEF InitsInv, Paths
<1>5. /\ disk'["db"] = Changed /\ disk'["config"] = disk["config"] /\ Published'
      /\ \A x \in Copied : disk'[x] = disk[x]
  BY <1>1, <1>4 DEF Paths, Copied, Published
<1>6. DiskTypes'
  <2>1. Changed \in Int
    BY DEF Changed
  <2>2. disk' \in [Paths -> Int]
    BY <1>1, <2>1 DEF InitsInv, DiskTypes
  <2> QED
    BY <1>2, <1>5, <2>2 DEF InitsInv, DiskTypes
<1>7. JournalTypes'
  BY <1>1, <1>2 DEF InitsInv, JournalTypes, CopiesNamed, Named
<1>8. RunInv'
  BY <1>3 DEF RunInv
<1>9. WholeInv'
  BY <1>1, <1>5 DEF InitsInv, WholeInv
<1>10. OwnedInv'
  <2>1. disk["db"] \notin {Absent, Partial}
    BY <1>1, CountedAssumption DEF InitsInv, DiskTypes, Absent, Partial, Changed, Counted, Shapes
  <2> QED
    BY <1>1, <1>3, <1>4, <2>1 DEF InitsInv, OwnedInv, Named
<1> QED
  BY <1>6, <1>7, <1>8, <1>9, <1>10 DEF InitsInv

LEMMA PlanRollbackKeeps ==
    ASSUME Shapes, Shapes', InitsInv, PlanRollback, used'["fault"] = used["fault"]
    PROVE  InitsInv'
<1>01. PICK l : l = LatestJournal
  OBVIOUS
<1>1. /\ journals # <<>> /\ Busy = {} /\ Elsewhere("rollback") /\ Save(l)
      /\ rollback' = [stamp |-> stamp + 1, created |-> l.created, workspace |-> l.workspace]
      /\ UNCHANGED <<disk, history, undone>>
  BY <1>01 DEF PlanRollback
<1>2. used'["init"] = used["init"] /\ proc' = proc
  BY <1>1, ElsewhereDoes DEF Counted
<1>3. PICK n \in DOMAIN journals : n = Len(journals) /\ l = journals[n] /\ l \in Journal
  BY <1>01, <1>1, LatestIs DEF InitsInv
<1>4. /\ DOMAIN journals' = DOMAIN journals
      /\ \A i \in DOMAIN journals : i # n => journals'[i] = journals[i]
      /\ journals'[n].workspace = l.workspace /\ journals'[n].created = l.created
      /\ journals'[n].done = l.done
  BY <1>1, <1>3, SaveDoes DEF InitsInv
<1>5. ASSUME NEW i \in DOMAIN journals
      PROVE  /\ journals'[i].workspace = journals[i].workspace /\ journals'[i].done = journals[i].done
             /\ journals'[i].created = journals[i].created
  BY <1>3, <1>4
<1>6. \A i \in DOMAIN journals : \A x : Named(journals'[i], x) <=> Named(journals[i], x)
  BY <1>5 DEF Named
<1>7. Initing = {} /\ Initing' = {} /\ Journals = {journals[i] : i \in DOMAIN journals}
      /\ Journals' = {journals'[i] : i \in DOMAIN journals'}
  BY <1>1, <1>2, NobodyMakes DEF Initing, Journals
<1>8. DiskTypes'
  BY <1>1, <1>2 DEF InitsInv, DiskTypes
<1>9. JournalTypes'
  <2>1. l.done >= 2 => CopiesNamed(l)
    BY <1>3 DEF InitsInv, JournalTypes
  <2>2. history' \subseteq Nat \ {0} /\ undone' \in BOOLEAN
    BY <1>1 DEF InitsInv, JournalTypes
  <2> QED
    BY <1>01, <1>1, <1>2, <1>3, <2>1, <2>2, SaveTypes DEF InitsInv
<1>10. RunInv'
  BY <1>7 DEF RunInv
<1>11. WholeInv'
  <2>1. Published' = Published
    BY <1>1 DEF Published
  <2> QED
    BY <1>1, <1>4, <1>5, <1>6, <2>1 DEF InitsInv, WholeInv, Named
<1>12. OwnedInv'
  <2> SUFFICES ASSUME used["fault"] = 0
               PROVE  /\ \A path \in Paths : disk[path] \notin {Absent, Partial} =>
                            \E x \in Journals' : Named(x, path)
                      /\ \A w \in history : \E x \in Journals' : x.workspace = w /\ Named(x, "history")
    BY <1>1 DEF OwnedInv, Named
  <2>1. /\ \A path \in Paths : disk[path] \notin {Absent, Partial} => \E x \in Journals : Named(x, path)
        /\ \A w \in history : \E x \in Journals : x.workspace = w /\ Named(x, "history")
    BY DEF InitsInv, OwnedInv
  <2>2. \A x \in Journals : \E v \in Journals' : v.workspace = x.workspace /\ \A a : Named(v, a) <=> Named(x, a)
    BY <1>4, <1>5, <1>6, <1>7
  <2> QED
    BY <2>1, <2>2
<1> QED
  BY <1>8, <1>9, <1>10, <1>11, <1>12 DEF InitsInv

LEMMA InitStepKeeps ==
    ASSUME Shapes, Shapes', InitsInv, Step
    PROVE  InitsInv'
<1>1. CASE InitsStep
  <2>1. used'["fault"] = used["fault"]
    <3>1. UNCHANGED used \/ \E k \in InitKinds : Spend(k)
      BY <1>1, InitActs
    <3>2. InitKinds \subseteq Counted /\ "fault" \notin InitKinds
      BY DEF InitKinds, Counted
    <3> QED
      BY <3>1, <3>2, CountsFrom, CountedAssumption DEF Counts, Counted
  <2>2. CASE UseWorkspace \/ PlanRollback
    BY <2>1, <2>2, UseWorkspaceKeeps, PlanRollbackKeeps
  <2>3. ASSUME NEW p \in Procs, InitStep(p)
        PROVE  InitsInv'
    <3>1. CASE InitLaunch(p)
      BY <3>1, StartInitKeeps, ResumeInitKeeps, ApplyRollbackKeeps DEF InitLaunch
    <3>2. CASE ~ InitLaunch(p)
      <4>1. UNCHANGED used \/ Spend("throw")
        BY <2>3, <3>2 DEF InitLaunch, InitStep, CopyRelease, CheckDraft, CatchInit, WriteHistory,
           PlaceDatabase, PublishConfig, Place, Proceed, Checkpoint, CompleteInit, ThrowInit, UnmakeFile,
           UnmakeHistory, Removed, FinishRollback, Finish, Become
      <4>2. used'["init"] = used["init"]
        BY <4>1, SpendDoes, CountedAssumption DEF Counted
      <4> QED
        BY <2>1, <2>3, <3>2, <4>2, CopyReleaseKeeps, CheckDraftKeeps, WriteHistoryKeeps, PlaceDatabaseKeeps,
           PublishConfigKeeps, CheckpointKeeps, CompleteInitKeeps, ThrowInitKeeps, UnmakeFileKeeps,
           UnmakeHistoryKeeps, FinishRollbackKeeps DEF InitStep, InitLaunch
    <3> QED
      BY <3>1, <3>2
  <2> QED
    BY <1>1, <2>2, <2>3 DEF InitsStep
<1>2. CASE ~ InitsStep
  BY <1>2, InitFrame, InitKept
<1> QED
  BY <1>1, <1>2

LEMMA InitsHold == Spec => []InitsInv
<1>1. Init => InitsInv
  <2> SUFFICES ASSUME Init
               PROVE  InitsInv
    OBVIOUS
  <2>1. /\ disk = [path \in Paths |-> Absent] /\ history = {} /\ journals = <<>>
        /\ rollback = NoRollback /\ stamp = 0 /\ undone = FALSE
    BY DEF Init, WorkspaceInitial
  <2>2. \A p \in Procs : proc[p] = Idle
    BY DEF Init, WorkInit
  <2>3. Initing = {}
    BY <2>2 DEF Initing, Idle, InitPC
  <2>4. used["init"] = 0
    BY CountedAssumption DEF Init, WorkInit, Counted
  <2>5. DiskTypes
    BY <2>1, <2>4 DEF DiskTypes, Paths, Copied, Absent
  <2>6. JournalTypes
    <3>1. NoRollback \in [stamp : Nat, created : Seq(Item), workspace : Nat] /\ NoRollback.stamp = 0
      BY DEF NoRollback
    <3>2. journals \in Seq(Journal) /\ DOMAIN journals = {}
      BY <2>1
    <3>3. /\ history \subseteq Nat \ {0} /\ stamp \in Nat /\ undone \in BOOLEAN
          /\ rollback \in [stamp : Nat, created : Seq(Item), workspace : Nat] /\ rollback.stamp <= stamp
      <4>1. 0 <= 0 /\ {} \subseteq Nat \ {0} /\ 0 \in Nat
        OBVIOUS
      <4>2. rollback.stamp = 0 /\ stamp = 0 /\ history = {} /\ undone = FALSE
        BY <2>1, <3>1
      <4>3. rollback \in [stamp : Nat, created : Seq(Item), workspace : Nat]
        BY <2>1, <3>1
      <4> QED
        BY <4>1, <4>2, <4>3
    <3> QED
      BY <3>2, <3>3 DEF JournalTypes
  <2>7. RunInv
    BY <2>3 DEF RunInv
  <2>8. WholeInv
    BY <2>1 DEF WholeInv, Published, Paths, Absent, Changed
  <2>9. OwnedInv
    BY <2>1 DEF OwnedInv
  <2> QED
    BY <2>5, <2>6, <2>7, <2>8, <2>9 DEF InitsInv
<1>2. Shapes /\ Shapes' /\ InitsInv /\ [Next]_vars => InitsInv'
  <2>1. ASSUME Shapes, Shapes', InitsInv, UNCHANGED vars PROVE InitsInv'
    BY <2>1, InitKept DEF vars, workVars, otherVars, initVars
  <2> QED
    BY <2>1, InitStepKeeps DEF Next
<1> QED
  BY <1>1, <1>2, ShapesHold, PTL DEF Spec

\* A workspace that is published (publishConfig, INIT_STEPS) has its release, its
\* database and its file of config-history, whatever was killed, thrown, resumed or
\* planned again before, unless a rollback removed files of it, before it was
\* resumed or after, or of a run that was started over an earlier one; and when
\* every run was rolled back (applyInitRollbackPlan), without a kill, no file of
\* them is left.
THEOREM InitIsWhole == Spec => []InitIsAllOrNothing
<1>1. Shapes /\ InitsInv => InitIsAllOrNothing
  <2> SUFFICES ASSUME Shapes, InitsInv, AtRest
               PROVE  /\ Published /\ ~ undone =>
                           /\ disk["db"] \in {disk["config"], Changed} /\ disk["config"] \in history
                           /\ \A path \in Copied : disk[path] = Release
                      /\ journals = <<>> /\ used["fault"] = 0 =>
                           history = {} /\ \A path \in Paths : disk[path] \in {Absent, Partial}
    BY DEF InitIsAllOrNothing
  <2>1. Journals = {journals[i] : i \in DOMAIN journals}
    BY NobodyMakes DEF AtRest
  <2>2. journals = <<>> => Journals = {}
    BY <2>1
  <2> QED
    BY <2>2 DEF InitsInv, WholeInv, OwnedInv
<1> QED
  BY <1>1, InitsHold, ShapesHold, PTL
=============================================================================
