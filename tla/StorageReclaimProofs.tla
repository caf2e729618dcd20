------------------------ MODULE StorageReclaimProofs ------------------------
(* Theorems about StorageReclaim, for any number of processes, sources and *)
(* blobs and any bound on crashes and lapsed locks.                        *)
EXTENDS StorageReclaim, TLAPS, FiniteSetTheorems

Archiving  == {"persist", "writeBlob", "publish"}
Purging    == {"stage", "purge", "unlink", "restore"}
Staging    == {"gcStage", "gcCommit", "gcDrop", "rollback", "rollbackDrop"}
Preparing  == {"checkPlan", "makeDir", "writeReceipt"}
Collecting == {"collectRows", "collectFiles"}
Applying   == Preparing \cup Staging

Command ==
    [kind : Kinds, pc : CmdPC, source : Sources \cup {Null}, blob : Blobs \cup {Null},
     plan : Procs \cup {Null}, dir : Procs \cup {Null}, dirs : SUBSET Procs,
     listed : SUBSET Paths, moved : SUBSET Paths, rows : SUBSET Blobs]

\* The operands of a command, at the steps that use them.
Operands(c) ==
    /\ c.pc \in Archiving => c.source \in Sources /\ c.blob \in Blobs
    /\ c.pc \in Purging => c.source \in Sources
    /\ c.pc \in Applying => c.kind = "gc apply"
    /\ c.pc \in Collecting => c.kind \in {"gc plan", "gc apply"}
    /\ c.pc \in {"recoverMove", "recoverDrop"} => c.dir \in Procs
    /\ c.kind = "gc apply" => c.plan \in Procs

StoresOK ==
    /\ disk \subseteq Paths
    /\ staging \in [Procs -> [dir : BOOLEAN, receipt : BOOLEAN, files : SUBSET Paths]]
    /\ blobRows \subseteq Blobs
    /\ entry \in [Sources -> SUBSET blobRows]
    /\ source \in [Sources -> {"active", "deleted", "purged"}]
    /\ plan \in [Procs -> [state : {"none", "ready", "applied"}, items : SUBSET Paths]]
    /\ receipts \in [Procs -> Nat]

CmdOK == cmd \in [Procs -> Command] /\ \A p \in Procs : Operands(cmd[p])

TypeInv == LockTypeOK /\ StoresOK /\ width \in {1, 2} /\ CmdOK

LEMMA TypeInvType == TypeInv => TypeOK
  BY DEF TypeInv, TypeOK, StoresOK, CmdOK, Command

LEMMA HomesArePaths ==
  /\ \A b \in Blobs : Home(b) \in Paths
  /\ \A p \in Procs, b \in Blobs : Tmp(p, b) \in Paths
  /\ \A f \in Paths : f.blob \in Blobs
  BY DEF Home, Tmp, Paths

LEMMA NoCmdTyped == NoCmd \in Command /\ Operands(NoCmd)
  BY DEF NoCmd, Command, Operands, Kinds, CmdPC, Archiving, Purging, Applying, Collecting, Preparing, Staging

LEMMA InitType == Init => TypeInv
<1> SUFFICES ASSUME Init
             PROVE  TypeInv
  OBVIOUS
<1>1. LockTypeOK
  BY LockAssumption DEF Init, LockInit, LockTypeOK, LockPC, NoFile
<1>2. StoresOK
  <2>1. disk \subseteq Paths /\ blobRows \subseteq Blobs /\ entry \in [Sources -> SUBSET blobRows]
    <3>1. PICK orphans \in SUBSET Blobs : blobRows = orphans \cup UNION {entry[s] : s \in Sources}
      BY DEF Init
    <3>2. entry \in [Sources -> SUBSET Blobs]
      BY DEF Init
    <3>3. blobRows \subseteq Blobs
      BY <3>1, <3>2
    <3>4. \A s \in Sources : entry[s] \subseteq blobRows
      BY <3>1
    <3>5. disk \subseteq Paths
      BY <3>3, HomesArePaths DEF Init
    <3>6. QED  BY <3>2, <3>3, <3>4, <3>5
  <2>2. QED  BY <2>1 DEF Init, StoresOK, NoStaging, NoPlan
<1>3. CmdOK
  BY NoCmdTyped DEF Init, CmdOK
<1>4. QED  BY <1>1, <1>2, <1>3 DEF Init, TypeInv

\* A step that changes the command of one process into a typed one.
LEMMA CommandChanges ==
  ASSUME CmdOK, NEW p \in Procs, NEW c, c \in Command, Operands(c),
         cmd' = [cmd EXCEPT ![p] = c]
  PROVE  CmdOK'
  BY DEF CmdOK

\* Moving to a step that needs no operands beyond those it has.
LEMMA Moves ==
  ASSUME CmdOK, NEW p \in Procs, NEW l \in CmdPC,
         l \in Archiving => cmd[p].pc \in Archiving,
         l \in Purging => cmd[p].pc \in Purging,
         l \in Applying => cmd[p].kind = "gc apply",
         l \in Collecting => cmd[p].kind \in {"gc plan", "gc apply"},
         l \notin {"recoverMove", "recoverDrop"} \/ cmd[p].pc \in {"recoverMove", "recoverDrop"},
         Goto(p, l)
  PROVE  CmdOK'
<1>1. cmd[p] \in Command /\ Operands(cmd[p])
  BY DEF CmdOK
<1>2. [cmd[p] EXCEPT !.pc = l] \in Command /\ Operands([cmd[p] EXCEPT !.pc = l])
  BY <1>1 DEF Command, Operands
<1>3. cmd' = [cmd EXCEPT ![p] = [cmd[p] EXCEPT !.pc = l]]
  BY DEF Goto, CmdOK
<1>4. QED  BY <1>2, <1>3, CommandChanges

\* The commands of StorageReclaim leave the counters and the lock file alone.
LEMMA ArchiveType ==
  ASSUME TypeInv, NEW p \in Procs, Archive(p)
  PROVE  TypeInv'
<1> USE DEF TypeInv
<1>1. cmd[p].source \in Sources /\ cmd[p].blob \in Blobs
  BY DEF Archive, Persist, WriteBlob, Publish, AtPC, CmdOK, Operands, Archiving
<1>2. PICK l \in CmdPC : /\ Goto(p, l)
                         /\ l \in Archiving \/ l = "done"
                         /\ cmd[p].pc \in Archiving
  BY DEF Archive, Persist, WriteBlob, Publish, AtPC, Archiving, CmdPC
<1>3. CmdOK'
  BY <1>2, Moves DEF Archiving, Purging, Applying, Collecting, Preparing, Staging
<1>4. LockTypeOK' /\ width' = width
  BY DEF Archive, Persist, WriteBlob, Publish, lockVars, LockTypeOK
<1>5. StoresOK'
  <2>1. CASE Persist(p)
    BY <2>1 DEF Persist, stores, StoresOK
  <2>2. CASE WriteBlob(p)
    BY <2>2, <1>1, HomesArePaths DEF WriteBlob, StoresOK
  <2>3. CASE Publish(p)
    <3>1. CASE source[cmd[p].source] = "purged"
      BY <2>3, <3>1 DEF Publish, StoresOK
    <3>2. CASE source[cmd[p].source] # "purged"
      <4>1. /\ blobRows' = blobRows \cup {cmd[p].blob}
            /\ entry' = [entry EXCEPT ![cmd[p].source] = @ \cup {cmd[p].blob}]
            /\ source' = [source EXCEPT ![cmd[p].source] = "active"]
            /\ UNCHANGED <<disk, staging, plan, receipts>>
        BY <2>3, <3>2 DEF Publish
      <4>2. QED  BY <4>1, <1>1 DEF StoresOK
    <3>3. QED  BY <3>1, <3>2
  <2>4. QED  BY <2>1, <2>2, <2>3 DEF Archive
<1>6. QED  BY <1>3, <1>4, <1>5

\* One path has been handled: it leaves listed and may enter moved.
LEMMA Handles ==
  ASSUME CmdOK, NEW p \in Procs, NEW L \in SUBSET Paths, NEW M \in SUBSET Paths,
         cmd' = [cmd EXCEPT ![p] = [cmd[p] EXCEPT !.listed = L, !.moved = M]]
  PROVE  CmdOK'
<1>1. cmd[p] \in Command /\ Operands(cmd[p])
  BY DEF CmdOK
<1>2. LET c == [cmd[p] EXCEPT !.listed = L, !.moved = M] IN c \in Command /\ Operands(c)
  BY <1>1 DEF Command, Operands
<1>3. QED  BY <1>2, CommandChanges

LEMMA PurgeType ==
  ASSUME TypeInv, NEW p \in Procs, PurgeSource(p)
  PROVE  TypeInv'
<1> USE DEF TypeInv
<1>1. /\ cmd[p] \in Command /\ cmd[p].pc \in Purging /\ cmd[p].source \in Sources
      /\ cmd[p].listed \in SUBSET Paths /\ cmd[p].moved \in SUBSET Paths
  BY DEF PurgeSource, StageFile, Purge, PurgeFails, UnlinkFile, RestoreFile, AtPC, CmdOK, Command,
         Operands, Purging
<1>2. CmdOK'
  <2>1. ASSUME NEW l \in Purging \cup {"done"}, Goto(p, l)
        PROVE  CmdOK'
    BY <1>1, <2>1, Moves DEF Archiving, Purging, Applying, Collecting, Preparing, Staging, CmdPC
  <2>2. ASSUME NEW f \in cmd[p].listed,
               cmd' = [cmd EXCEPT ![p].listed = @ \ {f}, ![p].moved = @ \cup {f}]
        PROVE  CmdOK'
    <3>1. cmd' = [cmd EXCEPT ![p] = [cmd[p] EXCEPT !.listed = cmd[p].listed \ {f},
                                                   !.moved = cmd[p].moved \cup {f}]]
      BY <1>1, <2>2 DEF CmdOK, Command
    <3>2. cmd[p].listed \ {f} \in SUBSET Paths /\ cmd[p].moved \cup {f} \in SUBSET Paths
      BY <1>1
    <3>3. QED  BY <3>1, <3>2, Handles
  <2>3. ASSUME NEW f \in cmd[p].moved, cmd' = [cmd EXCEPT ![p].moved = @ \ {f}]
        PROVE  CmdOK'
    <3>1. cmd' = [cmd EXCEPT ![p] = [cmd[p] EXCEPT !.listed = cmd[p].listed,
                                                   !.moved = cmd[p].moved \ {f}]]
      BY <1>1, <2>3 DEF CmdOK, Command
    <3>2. cmd[p].moved \ {f} \in SUBSET Paths
      BY <1>1
    <3>3. QED  BY <1>1, <3>1, <3>2, Handles
  <2>4. QED  BY <2>1, <2>2, <2>3
             DEF PurgeSource, StageFile, Purge, PurgeFails, UnlinkFile, RestoreFile, Purging
<1>3. LockTypeOK' /\ width' = width
  BY DEF PurgeSource, StageFile, Purge, PurgeFails, UnlinkFile, RestoreFile, lockVars, LockTypeOK
<1>4. StoresOK'
  <2>1. CASE StageFile(p) \/ UnlinkFile(p) \/ RestoreFile(p)
    <3>1. disk' \subseteq Paths
      <4>1. disk \subseteq Paths
        BY DEF StoresOK
      <4>2. CASE StageFile(p)
        <5>1. \/ disk' = disk
              \/ \E f \in cmd[p].listed : disk' = (disk \ {f}) \cup {Tmp(p, f.blob)}
          BY <4>2 DEF StageFile
        <5>2. \A f \in cmd[p].listed : Tmp(p, f.blob) \in Paths
          BY <1>1, HomesArePaths
        <5>3. QED  BY <4>1, <5>1, <5>2
      <4>3. CASE UnlinkFile(p)
        BY <4>1, <4>3 DEF UnlinkFile
      <4>4. CASE RestoreFile(p)
        <5>1. disk' = disk \/ \E f \in cmd[p].moved : disk' = (disk \ {Tmp(p, f.blob)}) \cup {f}
          BY <4>4 DEF RestoreFile
        <5>2. QED  BY <1>1, <4>1, <5>1
      <4>5. QED  BY <2>1, <4>2, <4>3, <4>4
    <3>2. QED  BY <2>1, <3>1 DEF StageFile, UnlinkFile, RestoreFile, StoresOK
  <2>2. CASE Purge(p)
    <3>1. /\ blobRows' = blobRows \ Exclusive(cmd[p].source)
          /\ entry' = [entry EXCEPT ![cmd[p].source] = {}]
          /\ source' = [source EXCEPT ![cmd[p].source] = "purged"]
          /\ UNCHANGED <<disk, staging, plan, receipts>>
      BY <2>2 DEF Purge
    <3>2. \A t \in Sources : entry'[t] \in SUBSET blobRows'
      BY <1>1, <3>1 DEF StoresOK, Exclusive
    <3>3. QED  BY <1>1, <3>1, <3>2 DEF StoresOK
  <2>3. CASE PurgeFails(p)
    BY <2>3 DEF PurgeFails, stores, StoresOK
  <2>4. QED  BY <2>1, <2>2, <2>3 DEF PurgeSource
<1>5. QED  BY <1>2, <1>3, <1>4

StagingType == [dir : BOOLEAN, receipt : BOOLEAN, files : SUBSET Paths]

LEMMA StagingTypes ==
  ASSUME staging \in [Procs -> StagingType], NEW g \in Procs
  PROVE  /\ [staging EXCEPT ![g].dir = TRUE] \in [Procs -> StagingType]
         /\ [staging EXCEPT ![g].dir = TRUE, ![g].receipt = TRUE] \in [Procs -> StagingType]
         /\ \A f \in Paths :
              [staging EXCEPT ![g].dir = TRUE, ![g].files = @ \cup {f}] \in [Procs -> StagingType]
<1>1. \A r \in StagingType :
         /\ [r EXCEPT !.dir = TRUE] \in StagingType
         /\ [r EXCEPT !.dir = TRUE, !.receipt = TRUE] \in StagingType
         /\ \A f \in Paths : [r EXCEPT !.dir = TRUE, !.files = @ \cup {f}] \in StagingType
  BY DEF StagingType
<1>2. QED  BY <1>1

LEMMA MoveBackType ==
  ASSUME disk \subseteq Paths, staging \in [Procs -> StagingType],
         NEW g \in Procs, NEW f \in Paths, MoveBack(g, f)
  PROVE  disk' \subseteq Paths /\ staging' \in [Procs -> StagingType]
  BY DEF MoveBack, StagingType

LEMMA RecoverType ==
  ASSUME TypeInv, NEW p \in Procs, Recover(p)
  PROVE  TypeInv'
<1> USE DEF TypeInv
<1>1. cmd[p] \in Command /\ Operands(cmd[p])
  BY DEF CmdOK
<1>2. LockTypeOK' /\ width' = width
  BY DEF Recover, RecoverList, RecoverDir, RecoverMove, RecoverDrop, lockVars, LockTypeOK
<1>3. CASE RecoverList(p)
  <2> DEFINE c == [cmd[p] EXCEPT !.pc = "recover", !.dirs = StagedDirs]
  <2>1. cmd' = [cmd EXCEPT ![p] = c] /\ UNCHANGED stores
    BY <1>3 DEF RecoverList, CmdOK
  <2>2. c \in Command /\ Operands(c)
    <3>1. StagedDirs \in SUBSET Procs
      BY DEF StagedDirs
    <3>2. c \in Command
      BY <1>1, <3>1 DEF Command, CmdPC
    <3>3. QED  BY <1>1, <3>2 DEF Command, Operands, Archiving, Purging, Applying, Collecting, Preparing, Staging
  <2>3. CmdOK'
    BY <2>1, <2>2, CommandChanges
  <2>4. QED  BY <1>2, <2>1, <2>3 DEF stores, StoresOK
<1>4. CASE RecoverDir(p)
  <2>1. CASE cmd[p].dirs = {} /\ Goto(p, AfterRecovery(p))
    BY <1>1, <1>2, <1>4, <2>1, Moves
       DEF RecoverDir, AfterRecovery, stores, StoresOK, CmdPC, Archiving, Purging, Applying, Collecting, Preparing, Staging
  <2>2. ASSUME NEW g \in cmd[p].dirs,
               cmd' = IF staging[g].receipt
                      THEN [cmd EXCEPT ![p].pc = IF receipts[g] > 0 THEN "recoverDrop" ELSE "recoverMove",
                                       ![p].dir = g, ![p].listed = plan[g].items]
                      ELSE [cmd EXCEPT ![p].dirs = @ \ {g}]
        PROVE  CmdOK'
    <3>1. g \in Procs /\ plan[g].items \in SUBSET Paths
      BY <1>1 DEF Command, StoresOK
    <3>2. ASSUME NEW l \in {"recoverDrop", "recoverMove"}
          PROVE  LET c == [cmd[p] EXCEPT !.pc = l, !.dir = g, !.listed = plan[g].items]
                 IN  c \in Command /\ Operands(c)
      BY <1>1, <3>1, <3>2 DEF Command, Operands, CmdPC, Archiving, Purging, Applying, Collecting, Preparing, Staging
    <3>3. LET c == [cmd[p] EXCEPT !.dirs = cmd[p].dirs \ {g}] IN c \in Command /\ Operands(c)
      BY <1>1 DEF Command, Operands
    <3>4. CASE staging[g].receipt
      <4> DEFINE l == IF receipts[g] > 0 THEN "recoverDrop" ELSE "recoverMove"
      <4>1. cmd' = [cmd EXCEPT ![p] = [cmd[p] EXCEPT !.pc = l, !.dir = g, !.listed = plan[g].items]]
        BY <2>2, <3>4 DEF CmdOK
      <4>2. l \in {"recoverDrop", "recoverMove"}
        OBVIOUS
      <4> HIDE DEF l
      <4>3. QED  BY <3>2, <4>1, <4>2, CommandChanges
    <3>5. CASE ~staging[g].receipt
      <4>1. cmd' = [cmd EXCEPT ![p] = [cmd[p] EXCEPT !.dirs = cmd[p].dirs \ {g}]]
        BY <2>2, <3>5 DEF CmdOK
      <4>2. QED  BY <3>3, <4>1, CommandChanges
    <3>6. QED  BY <3>4, <3>5
  <2>3. QED  BY <1>2, <1>4, <2>1, <2>2 DEF RecoverDir, stores, StoresOK
<1>5. CASE RecoverMove(p)
  <2>1. cmd[p].dir \in Procs /\ cmd[p].listed \in SUBSET Paths
    BY <1>1, <1>5 DEF RecoverMove, AtPC, Operands, Command
  <2>2. StoresOK'
    BY <1>5, <2>1, MoveBackType DEF RecoverMove, StoresOK, StagingType
  <2>3. CmdOK'
    <3>1. CASE Goto(p, "recoverDrop")
      BY <1>5, <3>1, Moves DEF RecoverMove, AtPC, CmdPC, Archiving, Purging, Applying, Collecting, Preparing, Staging
    <3>2. ASSUME NEW f \in cmd[p].listed, cmd' = [cmd EXCEPT ![p].listed = @ \ {f}]
          PROVE  CmdOK'
      <4>1. cmd' = [cmd EXCEPT ![p] = [cmd[p] EXCEPT !.listed = cmd[p].listed \ {f},
                                                     !.moved = cmd[p].moved]]
        BY <1>1, <3>2 DEF CmdOK, Command
      <4>2. QED  BY <1>1, <4>1, Handles DEF Command
    <3>3. QED  BY <1>5, <3>1, <3>2 DEF RecoverMove
  <2>4. QED  BY <1>2, <2>2, <2>3
<1>6. CASE RecoverDrop(p)
  <2>1. cmd[p].dir \in Procs
    BY <1>1, <1>6 DEF RecoverDrop, AtPC, Operands
  <2>2. StoresOK'
    BY <1>6, <2>1 DEF RecoverDrop, NoStaging, StoresOK
  <2> DEFINE c == [cmd[p] EXCEPT !.pc = "recover", !.dirs = cmd[p].dirs \ {cmd[p].dir},
                                 !.dir = Null, !.listed = {}]
  <2>3. c \in Command /\ Operands(c)
    <3>1. c \in Command
      BY <1>1 DEF Command, CmdPC
    <3>2. QED  BY <1>1, <3>1 DEF Command, Operands, Archiving, Purging, Applying, Collecting, Preparing, Staging
  <2>4. cmd' = [cmd EXCEPT ![p] = c]
    BY <1>6 DEF RecoverDrop, CmdOK
  <2>5. CmdOK'
    BY <2>3, <2>4, CommandChanges
  <2>6. QED  BY <1>2, <2>2, <2>5
<1>7. QED  BY <1>3, <1>4, <1>5, <1>6 DEF Recover

LEMMA CollectType ==
  ASSUME TypeInv, NEW p \in Procs, CollectGarbage(p)
  PROVE  TypeInv'
<1> USE DEF TypeInv
<1> DEFINE g == cmd[p].plan
<1>1. /\ cmd[p] \in Command /\ Operands(cmd[p])
      /\ cmd[p].listed \in SUBSET Paths /\ cmd[p].moved \in SUBSET Paths
  BY DEF CmdOK, Command
<1>2. ASSUME NEW l \in {"done", "release", "recoverList"}, Goto(p, l)
      PROVE  CmdOK'
  BY <1>2, Moves DEF CmdPC, Archiving, Purging, Applying, Collecting, Preparing, Staging
<1>3. ASSUME NEW l \in Applying \cup {"collectRows"}, cmd[p].kind = "gc apply", Goto(p, l)
      PROVE  CmdOK'
  BY <1>3, Moves DEF CmdPC, Archiving, Purging, Applying, Collecting, Preparing, Staging
<1>4. cmd[p].pc \in Applying => cmd[p].kind = "gc apply" /\ g \in Procs
  BY <1>1 DEF Operands
<1>5. ASSUME Throw(p)
      PROVE  LockTypeOK' /\ CmdOK'
  BY <1>2, <1>5 DEF Throw, MoveTo, LockTypeOK, LockPC
<1>6. ASSUME UNCHANGED lockVars
      PROVE  LockTypeOK'
  BY <1>6 DEF lockVars, LockTypeOK
<1>7. ASSUME UNCHANGED stores
      PROVE  StoresOK'
  BY <1>7 DEF stores, StoresOK
<1>8. CASE Locked(p)
  BY <1>2, <1>6, <1>7, <1>8 DEF Locked
<1>9. CASE CheckPlan(p)
  <2>1. cmd[p].kind = "gc apply"
    BY <1>1, <1>9 DEF CheckPlan, AtPC, Operands, Applying, Preparing
  <2>2. QED  BY <1>3, <1>5, <1>6, <1>7, <1>9, <2>1 DEF CheckPlan
<1>10. CASE CollectRows(p)
  <2> DEFINE c == [cmd[p] EXCEPT !.pc = "collectFiles", !.rows = {b \in blobRows : ~Referenced(b)}]
  <2>1. {b \in blobRows : ~Referenced(b)} \in SUBSET Blobs
    BY DEF StoresOK
  <2>2. c \in Command
    BY <1>1, <2>1 DEF Command, CmdPC
  <2>3. Operands(c)
    <3>1. cmd[p].kind \in {"gc plan", "gc apply"}
      BY <1>1, <1>10 DEF CollectRows, AtPC, Operands, Collecting
    <3>2. QED  BY <1>1, <2>2, <3>1
               DEF Command, Operands, Archiving, Purging, Applying, Collecting, Preparing, Staging
  <2>4. cmd' = [cmd EXCEPT ![p] = c]
    BY <1>10 DEF CollectRows, CmdOK
  <2>5. CmdOK'
    BY <2>2, <2>3, <2>4, CommandChanges
  <2>6. QED  BY <1>6, <1>7, <1>10, <2>5 DEF CollectRows
<1>11. CASE CollectFiles(p)
  <2>1. UNCHANGED <<disk, staging, blobRows, entry, source, receipts, width>>
    BY <1>11 DEF CollectFiles
  <2>2. CASE cmd[p].kind = "gc plan"
    <3>1. /\ plan' = [plan EXCEPT ![p] = [state |-> "ready", items |-> Candidates(p)]]
          /\ Goto(p, "done")
          /\ UNCHANGED lockVars
      BY <1>11, <2>2 DEF CollectFiles
    <3>2. Candidates(p) \in SUBSET Paths
      BY DEF Candidates, StoresOK
    <3>3. StoresOK'
      BY <2>1, <3>1, <3>2 DEF StoresOK
    <3>4. QED  BY <1>2, <1>6, <2>1, <3>1, <3>3
  <2>3. CASE cmd[p].kind # "gc plan"
    <3>1. \/ cmd[p].kind = "gc apply" /\ Goto(p, "makeDir") /\ UNCHANGED <<plan, lockVars>>
          \/ Throw(p) /\ UNCHANGED plan
      <4> cmd[p].kind = "gc apply"
        BY <1>1, <1>11, <2>3 DEF CollectFiles, AtPC, Operands, Collecting
      <4>1. CASE Candidates(p) = plan[cmd[p].plan].items
        BY <1>11, <2>3, <4>1 DEF CollectFiles
      <4>2. CASE Candidates(p) # plan[cmd[p].plan].items
        BY <1>11, <2>3, <4>2 DEF CollectFiles
      <4>3. QED  BY <4>1, <4>2
    <3>2. QED  BY <1>3, <1>5, <1>6, <1>7, <2>1, <3>1 DEF stores, Applying, Preparing
  <2>4. QED  BY <2>2, <2>3
<1>12. CASE MakeDir(p)
  <2>1. CmdOK' /\ UNCHANGED lockVars /\ width' = width
    BY <1>3, <1>4, <1>12 DEF MakeDir, AtPC, Applying, Collecting, Preparing, Staging
  <2>2. StoresOK'
    <3>1. staging' = staging \/ staging' = [staging EXCEPT ![g].dir = TRUE]
      BY <1>12 DEF MakeDir
    <3>2. g \in Procs
      BY <1>4, <1>12 DEF MakeDir, AtPC, Applying, Preparing
    <3>3. staging' \in [Procs -> StagingType]
      <4>1. staging \in [Procs -> StagingType]
        BY DEF StoresOK, StagingType
      <4>2. CASE staging' = staging
        BY <4>1, <4>2
      <4>3. CASE staging' = [staging EXCEPT ![g].dir = TRUE]
        BY <3>2, <4>1, <4>3, StagingTypes
      <4>4. QED  BY <3>1, <4>2, <4>3
    <3>4. QED  BY <1>12, <3>3 DEF MakeDir, StoresOK, StagingType
  <2>3. QED  BY <1>6, <2>1, <2>2
<1>13. CASE WriteReceipt(p)
  <2>1. g \in Procs /\ cmd[p].kind = "gc apply" /\ plan[g].items \in SUBSET Paths
    BY <1>4, <1>13 DEF WriteReceipt, AtPC, StoresOK, Applying, Preparing
  <2> DEFINE c == [cmd[p] EXCEPT !.pc = "gcStage", !.listed = plan[g].items]
  <2>2. c \in Command
    BY <1>1, <2>1 DEF Command, CmdPC
  <2>3. Operands(c)
    BY <1>1, <2>1, <2>2 DEF Command, Operands, Archiving, Purging, Applying, Collecting, Preparing, Staging
  <2>4. cmd' = [cmd EXCEPT ![p] = c]
    BY <1>13 DEF WriteReceipt, CmdOK
  <2>5. CmdOK'
    BY <2>2, <2>3, <2>4, CommandChanges
  <2>6. StoresOK'
    <3>1. staging' = [staging EXCEPT ![g].dir = TRUE, ![g].receipt = TRUE]
      BY <1>13 DEF WriteReceipt
    <3>2. staging' \in [Procs -> StagingType]
      BY <2>1, <3>1, StagingTypes DEF StoresOK, StagingType
    <3>3. QED  BY <1>13, <3>2 DEF WriteReceipt, StoresOK, StagingType
  <2>7. QED  BY <1>6, <1>13, <2>5, <2>6 DEF WriteReceipt
<1>14. CASE GcStage(p)
  <2>1. g \in Procs /\ cmd[p].kind = "gc apply"
    BY <1>4, <1>14 DEF GcStage, AtPC, Applying, Staging
  <2>2. UNCHANGED <<lockVars, blobRows, entry, source, plan, receipts, width>>
    BY <1>14 DEF GcStage
  <2>3. CASE Goto(p, "gcCommit") /\ UNCHANGED <<disk, staging>>
    BY <1>3, <1>6, <1>7, <2>1, <2>2, <2>3 DEF stores, Applying, Staging
  <2>4. ASSUME NEW f \in cmd[p].listed,
               disk' = disk \ {f},
               staging' = [staging EXCEPT ![g].dir = TRUE, ![g].files = @ \cup {f}],
               cmd' = [cmd EXCEPT ![p].listed = @ \ {f}, ![p].moved = @ \cup {f}]
        PROVE  StoresOK' /\ CmdOK'
    <3>1. StoresOK'
      <4>1. f \in Paths
        BY <1>1
      <4>2. staging' \in [Procs -> StagingType]
        BY <2>1, <2>4, <4>1, StagingTypes DEF StoresOK, StagingType
      <4>3. QED  BY <2>2, <2>4, <4>2 DEF StoresOK, StagingType
    <3>2. cmd' = [cmd EXCEPT ![p] = [cmd[p] EXCEPT !.listed = cmd[p].listed \ {f},
                                                   !.moved = cmd[p].moved \cup {f}]]
      BY <1>1, <2>4 DEF CmdOK, Command
    <3>3. cmd[p].listed \ {f} \in SUBSET Paths /\ cmd[p].moved \cup {f} \in SUBSET Paths
      BY <1>1
    <3>4. QED  BY <3>1, <3>2, <3>3, Handles
  <2>5. ASSUME staging' = [staging EXCEPT ![g].dir = TRUE], Goto(p, "rollback"), UNCHANGED disk
        PROVE  StoresOK' /\ CmdOK'
    <3>1. StoresOK'
      BY <2>1, <2>2, <2>5 DEF StoresOK
    <3>2. QED  BY <1>3, <2>1, <2>5, <3>1 DEF Applying, Staging
  <2>6. QED  BY <1>6, <1>14, <2>2, <2>3, <2>4, <2>5 DEF GcStage
<1>15. CASE GcCommit(p)
  <2>1. g \in Procs /\ cmd[p].kind = "gc apply"
    BY <1>4, <1>15 DEF GcCommit, AtPC, Applying, Staging
  <2> DEFINE rows == {b \in Blobs : Home(b) \in plan[g].items}
  <2>2. /\ \A b \in rows : ~Referenced(b)
        /\ blobRows' = blobRows \ rows
        /\ plan' = [plan EXCEPT ![g].state = "applied"]
        /\ receipts' = [receipts EXCEPT ![g] = @ + 1]
        /\ Goto(p, "gcDrop")
        /\ UNCHANGED <<disk, staging, entry, source, width, lockVars>>
    BY <1>15 DEF GcCommit
  <2> HIDE DEF rows
  <2>3. entry' \in [Sources -> SUBSET blobRows']
    BY <2>2 DEF StoresOK, Referenced
  <2>4. receipts' \in [Procs -> Nat]
    <3>1. receipts[g] + 1 \in Nat
      <4>1. receipts[g] \in Nat
        BY <2>1 DEF StoresOK
      <4>2. QED  BY <4>1
    <3>2. QED  BY <2>1, <2>2, <3>1 DEF StoresOK
  <2>5. StoresOK'
    BY <2>1, <2>2, <2>3, <2>4 DEF StoresOK
  <2>6. QED  BY <1>3, <1>6, <2>1, <2>2, <2>5 DEF Applying, Staging
<1>16. CASE GcFails(p)
  BY <1>3, <1>4, <1>6, <1>7, <1>16 DEF GcFails, AtPC, Applying, Staging
<1>17. CASE GcDrop(p)
  <2>1. g \in Procs
    BY <1>4, <1>17 DEF GcDrop, AtPC, Applying, Staging
  <2>2. StoresOK'
    BY <1>17, <2>1 DEF GcDrop, NoStaging, StoresOK
  <2>3. QED  BY <1>2, <1>6, <1>17, <2>2 DEF GcDrop
<1>18. CASE Rollback(p)
  <2>1. g \in Procs /\ cmd[p].kind = "gc apply"
    BY <1>4, <1>18 DEF Rollback, AtPC, Applying, Staging
  <2>2. UNCHANGED <<blobRows, entry, source, plan, receipts, width, lockVars>>
    BY <1>18 DEF Rollback
  <2>3. CASE Goto(p, "rollbackDrop") /\ UNCHANGED <<disk, staging>>
    BY <1>3, <1>6, <1>7, <2>1, <2>2, <2>3 DEF stores, Applying, Staging
  <2>4. ASSUME NEW f \in cmd[p].moved, MoveBack(g, f),
               cmd' = [cmd EXCEPT ![p].moved = @ \ {f}]
        PROVE  StoresOK' /\ CmdOK'
    <3>1. StoresOK'
      BY <1>1, <2>1, <2>2, <2>4, MoveBackType DEF StoresOK, StagingType
    <3>2. cmd' = [cmd EXCEPT ![p] = [cmd[p] EXCEPT !.listed = cmd[p].listed,
                                                   !.moved = cmd[p].moved \ {f}]]
      BY <1>1, <2>4 DEF CmdOK, Command
    <3>3. cmd[p].moved \ {f} \in SUBSET Paths
      BY <1>1
    <3>4. QED  BY <1>1, <3>1, <3>2, <3>3, Handles
  <2>5. QED  BY <1>6, <1>18, <2>2, <2>3, <2>4 DEF Rollback
<1>19. CASE ReleaseLock(p)
  <2>1. LockTypeOK'
    BY <1>19 DEF ReleaseLock, Release, MoveTo, LockTypeOK, LockPC
  <2>2. QED  BY <1>2, <1>7, <1>19, <2>1 DEF ReleaseLock
<1>20. QED  BY <1>8, <1>9, <1>10, <1>11, <1>12, <1>13, <1>14, <1>15, <1>16, <1>17, <1>18, <1>19
            DEF CollectGarbage

LEMMA LockType ==
  ASSUME LockTypeOK, NEW p \in Procs,
         LockStep(p) \/ Acquire(p) \/ (MoveTo(p, "gone") /\ crashes < MaxCrashes
           /\ crashes' = crashes + 1 /\ UNCHANGED <<lockFile, lease, lapses>>)
  PROVE  LockTypeOK'
<1> DEFINE FileType == [by : Procs \cup {Null}, written : BOOLEAN, expired : BOOLEAN]
<1>1. NoFile \in FileType /\ File(p) \in FileType
  BY DEF NoFile, File
<1>2. lockFile \in FileType /\ at \in [Procs -> LockPC]
  BY DEF LockTypeOK
<1>3. [lockFile EXCEPT !.written = TRUE] \in FileType /\ [lockFile EXCEPT !.expired = TRUE] \in FileType
  BY <1>2
<1>4. CASE LockStep(p) \/ Acquire(p)
  <2>1. lockFile' \in FileType
    BY <1>1, <1>2, <1>3, <1>4
       DEF LockStep, Open, Inspect, Break, Reopen, Write, Record, Check, Unlink, Unrecord, Acquire
  <2>2. at' \in [Procs -> LockPC]
    BY <1>2, <1>4 DEF LockStep, Open, Inspect, Break, Reopen, Write, Record, Check, Unlink, Unrecord,
                      Acquire, MoveTo, LockPC
  <2>3. lease' \in Procs \cup {Null} /\ UNCHANGED <<crashes, lapses>>
    BY <1>4 DEF LockStep, Open, Inspect, Break, Reopen, Write, Record, Check, Unlink, Unrecord,
                Acquire, LockTypeOK
  <2>4. QED  BY <2>1, <2>2, <2>3 DEF LockTypeOK
<1>5. CASE MoveTo(p, "gone") /\ crashes < MaxCrashes /\ crashes' = crashes + 1
             /\ UNCHANGED <<lockFile, lease, lapses>>
  <2>1. crashes' \in 0 .. MaxCrashes
    BY <1>5, LockAssumption DEF LockTypeOK
  <2>2. at' \in [Procs -> LockPC]
    BY <1>2, <1>5 DEF MoveTo, LockPC
  <2>3. QED  BY <1>5, <2>1, <2>2 DEF LockTypeOK
<1>6. QED  BY <1>4, <1>5

LEMMA LapseType ==
  ASSUME LockTypeOK, Lapse
  PROVE  LockTypeOK'
<1>1. lapses' \in 0 .. MaxLapses
  BY LockAssumption DEF Lapse, LockTypeOK
<1>2. [lockFile EXCEPT !.expired = TRUE]
        \in [by : Procs \cup {Null}, written : BOOLEAN, expired : BOOLEAN]
  BY DEF LockTypeOK
<1>3. QED  BY <1>1, <1>2 DEF Lapse, LockTypeOK

LEMMA StartType ==
  ASSUME TypeInv, NEW p \in Procs, StartCommand(p)
  PROVE  TypeInv'
<1> USE DEF TypeInv
<1>1. ASSUME NEW c \in Command, Operands(c), Start(p, c)
      PROVE  CmdOK' /\ StoresOK' /\ width' \in {1, 2}
  BY <1>1, CommandChanges DEF Start, stores, StoresOK
<1>2. LockTypeOK'
  BY LockType DEF StartCommand, StartArchive, StartPurge, StartGcPlan, StartGcApply, StartCheckpoint,
         lockVars, LockTypeOK
<1> USE DEF Operands, Archiving, Purging, Applying, Collecting, Preparing, Staging, NoCmd
<1>3. ASSUME NEW s \in Sources, NEW b \in Blobs, StartArchive(p, s, b)
      PROVE  TypeInv'
  <2> DEFINE c == [NoCmd EXCEPT !.kind = "archive", !.pc = "persist", !.source = s, !.blob = b]
  <2>1. c \in Command /\ Operands(c)
    BY DEF Command, Kinds, CmdPC
  <2>2. QED  BY <1>1, <1>2, <1>3, <2>1 DEF StartArchive
<1>4. ASSUME NEW s \in Sources, StartPurge(p, s)
      PROVE  TypeInv'
  <2> DEFINE L == {Home(b) : b \in Exclusive(s)}
             c == [NoCmd EXCEPT !.kind = "purge", !.pc = "stage", !.source = s, !.listed = L]
  <2>1. L \in SUBSET Paths
    BY HomesArePaths DEF Exclusive, StoresOK
  <2>2. Start(p, c)
    BY <1>4 DEF StartPurge
  <2> HIDE DEF L
  <2>3. c \in Command /\ Operands(c)
    BY <2>1 DEF Command, Kinds, CmdPC
  <2>4. QED  BY <1>1, <1>2, <2>2, <2>3
<1>5. CASE StartGcPlan(p)
  <2> DEFINE c == [NoCmd EXCEPT !.kind = "gc plan", !.pc = "recoverList"]
  <2>1. c \in Command /\ Operands(c)
    BY DEF Command, Kinds, CmdPC
  <2>2. QED  BY <1>1, <1>2, <1>5, <2>1 DEF StartGcPlan
<1>6. ASSUME NEW g \in Procs, StartGcApply(p, g)
      PROVE  TypeInv'
  <2> DEFINE c == [NoCmd EXCEPT !.kind = "gc apply", !.pc = "locking", !.plan = g]
  <2>1. c \in Command /\ Operands(c)
    BY DEF Command, Kinds, CmdPC
  <2>2. QED  BY <1>1, <1>2, <1>6, <2>1 DEF StartGcApply
<1>7. CASE StartCheckpoint(p)
  <2> DEFINE c == [NoCmd EXCEPT !.kind = "checkpoint", !.pc = "locking"]
  <2>1. c \in Command /\ Operands(c)
    BY DEF Command, Kinds, CmdPC
  <2>2. QED  BY <1>1, <1>2, <1>7, <2>1 DEF StartCheckpoint
<1>8. QED  BY <1>3, <1>4, <1>5, <1>6, <1>7 DEF StartCommand

LEMMA TypeStep == TypeInv /\ [Next]_vars => TypeInv'
<1> SUFFICES ASSUME TypeInv, [Next]_vars
             PROVE  TypeInv'
  OBVIOUS
<1> USE DEF TypeInv
<1>1. ASSUME NEW p \in Procs,
             StartCommand(p) \/ Archive(p) \/ PurgeSource(p) \/ Recover(p) \/ CollectGarbage(p)
      PROVE  TypeInv'
  BY <1>1, StartType, ArchiveType, PurgeType, RecoverType, CollectType
<1>2. ASSUME NEW p \in Procs, Lock(p)
      PROVE  TypeInv'
  BY <1>2, LockType DEF Lock, stores, StoresOK, CmdOK
<1>3. ASSUME NEW p \in Procs, Crash(p)
      PROVE  TypeInv'
  BY <1>3, LockType DEF Crash, stores, StoresOK, CmdOK
<1>4. CASE Lapse /\ UNCHANGED <<stores, cmd, width>>
  <2>1. LockTypeOK'
    BY <1>4, LapseType
  <2>2. QED  BY <1>4, <2>1 DEF stores, StoresOK, CmdOK
<1>5. CASE UNCHANGED vars
  BY <1>5 DEF vars, stores, lockVars, LockTypeOK, StoresOK, CmdOK
<1>6. QED  BY <1>1, <1>2, <1>3, <1>4, <1>5 DEF Next

\* Every variable of the lock, the stores and the commands has its type.
THEOREM TypeCorrect == Spec => []TypeOK
<1>1. Spec => []TypeInv
  BY InitType, TypeStep, PTL DEF Spec
<1>2. QED  BY <1>1, TypeInvType, PTL

LEMMA TypeAlways == Spec => []TypeInv
  BY InitType, TypeStep, PTL DEF Spec
-----------------------------------------------------------------------------
(* The inductive invariant of commands that do not overlap.                *)

\* At most one process is inside a command.
Alone == \A p, q \in Procs : Running(p) /\ Running(q) => p = q

\* The lock file belongs to a process that holds it, or to one that is gone.
LockOwned ==
    /\ \A p \in Procs :
          /\ at[p] # "refused"
          /\ at[p] \in {"out", "open", "inspect", "break", "reopen", "unrecord", "released"}
               => lockFile.by # p
          /\ at[p] = "reopen" => lockFile = NoFile
          /\ at[p] \in {"write", "record", "held", "check", "unlink"} => lockFile.by = p
          /\ at[p] \in {"record", "held", "check", "unlink"} => lockFile.written

\* A staged file can be found again, and a command that recovers has not yet
\* passed the directory it is in.
FindsStaged(p) ==
    /\ AtPC(p, "recover") \/ AtPC(p, "recoverMove") \/ AtPC(p, "recoverDrop")
         => \A g \in Procs : staging[g].files # {} => g \in cmd[p].dirs
    /\ (\E l \in Collecting \cup Preparing : AtPC(p, l)) => \A g \in Procs : staging[g].files = {}
    /\ AtPC(p, "gcStage") => staging[cmd[p].plan].receipt

StagedIsFound ==
    /\ \A g \in Procs : staging[g].files # {} => staging[g].receipt /\ staging[g].dir
    /\ \A p \in Procs : FindsStaged(p)

\* A plan is made once, before anything applies it.
PlansAreMadeOnce ==
    /\ \A g \in Procs : receipts[g] > 0 => plan[g].state # "none"
    /\ \A p \in Procs :
          /\ cmd[p].pc = "idle" \/ (cmd[p].kind = "gc plan" /\ cmd[p].pc # "done")
               => plan[p].state = "none"
          /\ cmd[p].kind = "gc apply" => plan[cmd[p].plan].state # "none"

\* Files staged for plan g that no path of the tree has and no receipt lists.
OnlyStaged(g) == IF receipts[g] > 0 THEN {} ELSE staging[g].files \ disk

\* Wherever a command stands, what it is about to delete is somewhere else, is
\* listed in a receipt, or is referenced no more.
DeletesSpare(p) ==
    /\ AtPC(p, "publish") => Home(cmd[p].blob) \in disk
    /\ AtPC(p, "stage") \/ AtPC(p, "purge")
         => \A f \in cmd[p].listed \cup cmd[p].moved : f.blob \in Exclusive(cmd[p].source)
    /\ AtPC(p, "unlink") => \A f \in cmd[p].moved : ~Referenced(f.blob)
    /\ AtPC(p, "recoverMove") => OnlyStaged(cmd[p].dir) \subseteq cmd[p].listed
    /\ AtPC(p, "recoverDrop") => OnlyStaged(cmd[p].dir) = {}
    /\ AtPC(p, "gcStage") => cmd[p].listed \subseteq plan[cmd[p].plan].items
    /\ (\E l \in Staging : AtPC(p, l)) => OnlyStaged(cmd[p].plan) \subseteq cmd[p].moved
    /\ AtPC(p, "gcDrop") => receipts[cmd[p].plan] > 0
    /\ AtPC(p, "rollbackDrop") => cmd[p].moved = {}

BytesAreKept ==
    /\ \A b \in Blobs : Referenced(b) => Bytes(b) \/ Receipted(b)
    /\ \A g \in Procs : staging[g].files \subseteq plan[g].items
    /\ \A p \in Procs : DeletesSpare(p)

SerialInv == Alone /\ LockOwned /\ StagedIsFound /\ BytesAreKept

Inv == TypeInv /\ PlansAreMadeOnce /\ (Serial => SerialInv)
Work(p) == Archive(p) \/ PurgeSource(p) \/ Recover(p) \/ CollectGarbage(p)

Thrown(p) == MoveTo(p, "gone") /\ UNCHANGED <<lockFile, lease, crashes, lapses>>

\* No step of a command changes what it was started for.
Keeps(p) == cmd'[p].pc # "idle" /\ cmd'[p].kind = cmd[p].kind /\ cmd'[p].plan = cmd[p].plan

LEMMA FieldsKept ==
  ASSUME cmd \in [Procs -> Command], NEW p \in Procs, Work(p)
  PROVE  Keeps(p)
<1>1. ASSUME NEW l \in CmdPC \ {"idle"}, Goto(p, l)
      PROVE  Keeps(p)
  BY <1>1 DEF Goto, Command, Keeps
<1>2. ASSUME NEW f, cmd[p].pc # "idle",
             \/ cmd' = [cmd EXCEPT ![p].listed = @ \ {f}, ![p].moved = @ \cup {f}]
             \/ cmd' = [cmd EXCEPT ![p].listed = @ \ {f}]
             \/ cmd' = [cmd EXCEPT ![p].moved = @ \ {f}]
             \/ cmd' = [cmd EXCEPT ![p].dirs = @ \ {f}]
      PROVE  Keeps(p)
  <2>1. CASE cmd' = [cmd EXCEPT ![p].listed = @ \ {f}, ![p].moved = @ \cup {f}]
    BY <1>2, <2>1 DEF Command, Keeps
  <2>2. CASE cmd' = [cmd EXCEPT ![p].listed = @ \ {f}]
    BY <1>2, <2>2 DEF Command, Keeps
  <2>3. CASE cmd' = [cmd EXCEPT ![p].moved = @ \ {f}]
    BY <1>2, <2>3 DEF Command, Keeps
  <2>4. CASE cmd' = [cmd EXCEPT ![p].dirs = @ \ {f}]
    BY <1>2, <2>4 DEF Command, Keeps
  <2>5. QED  BY <1>2, <2>1, <2>2, <2>3, <2>4
<1>3. CASE Archive(p)
  BY <1>1, <1>3 DEF Archive, Persist, WriteBlob, Publish, CmdPC
<1>4. CASE PurgeSource(p)
  BY <1>1, <1>2, <1>4
     DEF PurgeSource, StageFile, Purge, PurgeFails, UnlinkFile, RestoreFile, AtPC, CmdPC
<1>5. CASE Recover(p)
  <2>1. CASE RecoverList(p)
    BY <2>1 DEF RecoverList, Command, Keeps
  <2>2. CASE RecoverDir(p)
    <3>1. AfterRecovery(p) \in CmdPC \ {"idle"}
      BY DEF AfterRecovery, CmdPC
    <3>2. ASSUME NEW g, NEW l \in {"recoverDrop", "recoverMove"},
                 cmd' = [cmd EXCEPT ![p].pc = l, ![p].dir = g, ![p].listed = plan[g].items]
          PROVE  Keeps(p)
      BY <3>2 DEF Command, Keeps
    <3>3. QED  BY <1>1, <1>2, <2>2, <3>1, <3>2 DEF RecoverDir, AtPC
  <2>3. CASE RecoverMove(p)
    BY <1>1, <1>2, <2>3 DEF RecoverMove, AtPC, CmdPC
  <2>4. CASE RecoverDrop(p)
    BY <2>4 DEF RecoverDrop, Command, Keeps
  <2>5. QED  BY <1>5, <2>1, <2>2, <2>3, <2>4 DEF Recover
<1>6. CASE CollectGarbage(p)
  <2>1. CASE CollectRows(p) \/ WriteReceipt(p)
    BY <2>1 DEF CollectRows, WriteReceipt, Command, Keeps
  <2>2. CASE GcStage(p) \/ Rollback(p)
    BY <1>1, <1>2, <2>2 DEF GcStage, Rollback, AtPC, CmdPC
  <2>3. QED  BY <1>1, <1>6, <2>1, <2>2
             DEF CollectGarbage, Locked, CheckPlan, CollectFiles, MakeDir, GcCommit, GcFails, GcDrop,
                 ReleaseLock, Throw, CmdPC
<1>7. QED  BY <1>3, <1>4, <1>5, <1>6 DEF Work

\* What the steps have in common.  A command moves only the process that runs
\* it and leaves the lock alone, gives up or asks for its release.
LEMMA WorkFrame ==
  ASSUME TypeInv, NEW p \in Procs, Work(p)
  PROVE  /\ PidAlive(p) /\ cmd[p].pc \notin {"idle", "done"}
         /\ cmd'[p].pc # "idle" /\ cmd'[p].kind = cmd[p].kind /\ cmd'[p].plan = cmd[p].plan
         /\ \A q \in Procs \ {p} : cmd'[q] = cmd[q]
         /\ UNCHANGED lockVars \/ Thrown(p) \/ Release(p)
         /\ UNCHANGED width
<1>1. cmd \in [Procs -> Command]
  BY DEF TypeInv, CmdOK
<1>2. cmd'[p].pc # "idle" /\ cmd'[p].kind = cmd[p].kind /\ cmd'[p].plan = cmd[p].plan
  BY <1>1, FieldsKept DEF Keeps
<1> USE DEF AtPC, Goto, stores
<1>3. CASE Archive(p) \/ PurgeSource(p)
  <2> USE <1>1, <1>3 DEF Archive, Persist, WriteBlob, Publish, PurgeSource, StageFile, Purge, PurgeFails,
                         UnlinkFile, RestoreFile
  <2>1. PidAlive(p) /\ cmd[p].pc \notin {"idle", "done"} /\ UNCHANGED <<lockVars, width>>
    OBVIOUS
  <2>2. \A q \in Procs \ {p} : cmd'[q] = cmd[q]
    OBVIOUS
  <2>3. QED  BY <1>2, <2>1, <2>2
<1>4. CASE Recover(p)
  <2> USE <1>1, <1>4 DEF Recover, RecoverList, RecoverDir, RecoverMove, RecoverDrop
  <2>1. PidAlive(p) /\ cmd[p].pc \notin {"idle", "done"} /\ UNCHANGED <<lockVars, width>>
    OBVIOUS
  <2>2. \A q \in Procs \ {p} : cmd'[q] = cmd[q]
    OBVIOUS
  <2>3. QED  BY <1>2, <2>1, <2>2
<1>5. CASE CollectGarbage(p)
  <2> USE <1>1, <1>5 DEF CollectGarbage, Locked, CheckPlan, CollectRows, CollectFiles, MakeDir, WriteReceipt,
                         GcStage, GcCommit, GcFails, GcDrop, Rollback, ReleaseLock, Throw, Thrown
  <2>1. PidAlive(p) /\ cmd[p].pc \notin {"idle", "done"} /\ UNCHANGED width
    OBVIOUS
  <2>2. UNCHANGED lockVars \/ Thrown(p) \/ Release(p)
    OBVIOUS
  <2>3. \A q \in Procs \ {p} : cmd'[q] = cmd[q]
    OBVIOUS
  <2>4. QED  BY <1>2, <2>1, <2>2, <2>3
<1>6. QED  BY <1>3, <1>4, <1>5 DEF Work

\* The steps of the lock, of a crash and of the clock.
Aside == \/ \E p \in Procs : Lock(p) \/ Crash(p)
         \/ Lapse /\ UNCHANGED <<stores, cmd, width>>
         \/ UNCHANGED vars

LEMMA NextSplits ==
  [Next]_vars <=> Aside \/ \E p \in Procs : StartCommand(p) \/ Work(p)
  BY DEF Next, Aside, Work

LEMMA AsideFrame ==
  ASSUME TypeInv, Aside
  PROVE  /\ UNCHANGED <<stores, cmd, width>>
         /\ \A p \in Procs : PidAlive(p)' => PidAlive(p)
<1> USE DEF PidAlive, TypeInv, LockTypeOK, MoveTo
<1>1. ASSUME NEW p \in Procs, Lock(p)
      PROVE  UNCHANGED <<stores, cmd, width>> /\ \A q \in Procs : PidAlive(q)' => PidAlive(q)
  BY <1>1 DEF Lock, LockStep, Open, Inspect, Break, Reopen, Write, Record, Check, Unlink, Unrecord
<1>2. QED  BY <1>1 DEF Aside, Crash, Lapse, vars, lockVars

\* A new command, and where its process stands in the lock protocol.
LEMMA StartFrame ==
  ASSUME TypeInv, NEW p \in Procs, StartCommand(p)
  PROVE  /\ PidAlive(p) /\ cmd[p].pc = "idle"
         /\ UNCHANGED <<stores, width>>
         /\ cmd'[p].pc \in {"persist", "stage", "recoverList", "locking"}
         /\ \A q \in Procs \ {p} : cmd'[q] = cmd[q]
         /\ UNCHANGED lockVars \/ Acquire(p)
         /\ Cardinality({q \in Procs : Running(q)}) < width
<1>1. PICK c : Start(p, c) /\ c.pc \in {"persist", "stage", "recoverList", "locking"}
  <2>1. ASSUME NEW s \in Sources, NEW b \in Blobs, StartArchive(p, s, b)
        PROVE  \E c : Start(p, c) /\ c.pc = "persist"
    <3> DEFINE c == [NoCmd EXCEPT !.kind = "archive", !.pc = "persist", !.source = s, !.blob = b]
    <3>1. Start(p, c) /\ c.pc = "persist"
      BY <2>1 DEF StartArchive, NoCmd
    <3>2. QED  BY <3>1
  <2>2. ASSUME NEW s \in Sources, StartPurge(p, s)
        PROVE  \E c : Start(p, c) /\ c.pc = "stage"
    <3> DEFINE c == [NoCmd EXCEPT !.kind = "purge", !.pc = "stage", !.source = s,
                                !.listed = {Home(b) : b \in Exclusive(s)}]
    <3>1. Start(p, c) /\ c.pc = "stage"
      BY <2>2 DEF StartPurge, NoCmd
    <3>2. QED  BY <3>1
  <2>3. ASSUME StartGcPlan(p)
        PROVE  \E c : Start(p, c) /\ c.pc = "recoverList"
    <3> DEFINE c == [NoCmd EXCEPT !.kind = "gc plan", !.pc = "recoverList"]
    <3>1. Start(p, c) /\ c.pc = "recoverList"
      BY <2>3 DEF StartGcPlan, NoCmd
    <3>2. QED  BY <3>1
  <2>4. ASSUME NEW g \in Procs, StartGcApply(p, g)
        PROVE  \E c : Start(p, c) /\ c.pc = "locking"
    <3> DEFINE c == [NoCmd EXCEPT !.kind = "gc apply", !.pc = "locking", !.plan = g]
    <3>1. Start(p, c) /\ c.pc = "locking"
      BY <2>4 DEF StartGcApply, NoCmd
    <3>2. QED  BY <3>1
  <2>5. ASSUME StartCheckpoint(p)
        PROVE  \E c : Start(p, c) /\ c.pc = "locking"
    <3> DEFINE c == [NoCmd EXCEPT !.kind = "checkpoint", !.pc = "locking"]
    <3>1. Start(p, c) /\ c.pc = "locking"
      BY <2>5 DEF StartCheckpoint, NoCmd
    <3>2. QED  BY <3>1
  <2>6. QED  BY <2>1, <2>2, <2>3, <2>4, <2>5 DEF StartCommand
<1>2. cmd' = [cmd EXCEPT ![p] = c] /\ cmd \in [Procs -> Command]
  BY <1>1 DEF TypeInv, CmdOK, Start
<1>3. UNCHANGED lockVars \/ Acquire(p)
  BY DEF StartCommand, StartArchive, StartPurge, StartGcPlan, StartGcApply, StartCheckpoint
<1>4. QED  BY <1>1, <1>2, <1>3 DEF Start

\* A command starts only when the set of running processes is empty.
LEMMA NobodyRuns ==
  ASSUME Serial, Alone, Cardinality({q \in Procs : Running(q)}) < width
  PROVE  \A q \in Procs : ~Running(q)
<1> SUFFICES ASSUME NEW q \in Procs, Running(q)
             PROVE  FALSE
  OBVIOUS
<1>1. {r \in Procs : Running(r)} = {q}
  BY DEF Alone
<1>2. Cardinality({q}) = 1
  BY FS_Singleton
<1>3. QED  BY <1>1, <1>2 DEF Serial

LEMMA WorkRuns ==
  ASSUME TypeInv, NEW p \in Procs, Work(p)
  PROVE  /\ Running(p)
         /\ \A q \in Procs \ {p} : at'[q] = at[q] /\ cmd'[q] = cmd[q]
         /\ \A q \in Procs : PidAlive(q)' => PidAlive(q)
  BY WorkFrame DEF Running, lockVars, Thrown, Release, MoveTo, TypeInv, LockTypeOK, PidAlive

LEMMA AloneStep ==
  ASSUME TypeInv, Serial, Alone, [Next]_vars
  PROVE  Alone'
<1>1. ASSUME NEW p \in Procs, StartCommand(p)
      PROVE  Alone'
  <2>1. \A q \in Procs : ~Running(q)
    BY <1>1, StartFrame, NobodyRuns
  <2>2. \A q \in Procs \ {p} : at'[q] = at[q] /\ cmd'[q] = cmd[q]
    BY <1>1, StartFrame DEF lockVars, Acquire, MoveTo, TypeInv, LockTypeOK
  <2>3. \A q \in Procs \ {p} : ~Running(q)'
    BY <2>1, <2>2 DEF Running, PidAlive
  <2>4. QED  BY <2>3 DEF Alone
<1>2. ASSUME NEW p \in Procs, Work(p)
      PROVE  Alone'
  BY <1>2, WorkRuns DEF Alone, Running, PidAlive
<1>3. CASE Aside
  <2>1. \A q \in Procs : Running(q)' => Running(q)
    <3>1. ASSUME NEW p \in Procs, Lock(p)
          PROVE  Running(p) /\ \A q \in Procs \ {p} : at'[q] = at[q] /\ cmd'[q] = cmd[q]
      BY <3>1 DEF Lock, LockStep, Open, Inspect, Break, Reopen, Write, Record, Check, Unlink, Unrecord,
                  Running, PidAlive, MoveTo, TypeInv, LockTypeOK
    <3>2. ASSUME NEW p \in Procs, Crash(p)
          PROVE  ~Running(p)' /\ \A q \in Procs \ {p} : at'[q] = at[q] /\ cmd'[q] = cmd[q]
      BY <3>2 DEF Crash, Running, PidAlive, MoveTo, TypeInv, LockTypeOK
    <3>3. QED  BY <1>3, <3>1, <3>2 DEF Aside, Running, PidAlive, Lapse, vars, lockVars
  <2>2. QED  BY <2>1 DEF Alone
<1>4. QED  BY <1>1, <1>2, <1>3, NextSplits

LEMMA LockOwnedStep ==
  ASSUME TypeInv, Serial, Alone, LockOwned, [Next]_vars
  PROVE  LockOwned'
<1> USE DEF LockOwned, MoveTo, TypeInv, LockTypeOK
<1>1. ASSUME NEW p \in Procs, StartCommand(p)
      PROVE  LockOwned'
  <2>1. CASE UNCHANGED lockVars
    BY <2>1 DEF lockVars
  <2>2. CASE Acquire(p)
    BY <2>2 DEF Acquire
  <2>3. QED  BY <1>1, <2>1, <2>2, StartFrame
<1>2. ASSUME NEW p \in Procs, Work(p)
      PROVE  LockOwned'
  BY <1>2, WorkFrame DEF lockVars, Thrown, Release
<1>3. ASSUME NEW p \in Procs, Lock(p)
      PROVE  LockOwned'
  <2> DEFINE Busy == {"open", "inspect", "break", "reopen", "write", "record", "check", "unlink", "unrecord"}
  <2>1. at[p] \in Busy
    BY <1>3 DEF Lock, LockStep, Open, Inspect, Break, Reopen, Write, Record, Check, Unlink, Unrecord
  <2>2. \A q \in Procs \ {p} : at[q] \in {"out", "released", "gone"} /\ at'[q] = at[q]
    <3>1. \A q \in Procs \ {p} : at'[q] = at[q]
      BY <1>3 DEF Lock, LockStep, Open, Inspect, Break, Reopen, Write, Record, Check, Unlink, Unrecord
    <3>2. Running(p)
      BY <2>1 DEF Running, PidAlive
    <3>3. QED  BY <3>1, <3>2 DEF Alone, Running, PidAlive
  <2>3. Null \notin Procs
    BY LockAssumption
  <2>4. CASE Inspect(p)
    <3>1. Exists => ~PidAlive(lockFile.by)
      BY <2>2, <2>4 DEF Inspect, Exists, PidAlive
    <3>2. at' = [at EXCEPT ![p] = "break"] /\ lockFile' = lockFile
      BY <2>4, <3>1 DEF Inspect, Stale
    <3>3. QED  BY <2>2, <2>4, <3>2 DEF Inspect
  <2>5. CASE Open(p) \/ Break(p) \/ Reopen(p)
    BY <2>2, <2>3, <2>5 DEF Open, Break, Reopen, NoFile, File
  <2>6. CASE Write(p) \/ Record(p)
    BY <2>2, <2>3, <2>6 DEF Write, Record
  <2>7. CASE Check(p) \/ Unlink(p) \/ Unrecord(p)
    BY <2>2, <2>3, <2>7 DEF Check, Unlink, Unrecord, Exists, NoFile
  <2>8. QED  BY <1>3, <2>4, <2>5, <2>6, <2>7 DEF Lock, LockStep
<1>4. ASSUME NEW p \in Procs, Crash(p)
      PROVE  LockOwned'
  BY <1>4 DEF Crash
<1>5. CASE Lapse
  BY <1>5 DEF Lapse, Exists, NoFile
<1>6. CASE UNCHANGED vars
  BY <1>6 DEF vars, lockVars
<1>7. QED  BY <1>1, <1>2, <1>3, <1>4, <1>5, <1>6, NextSplits DEF Aside

-----------------------------------------------------------------------------

LEMMA PlansChange ==
  ASSUME NEW p \in Procs, Work(p)
  PROVE  \/ UNCHANGED <<plan, receipts>>
         \/ CollectFiles(p) /\ cmd[p].kind = "gc plan"
         \/ GcCommit(p)
<1> USE DEF stores
<1>1. CASE Archive(p) \/ PurgeSource(p) \/ Recover(p)
  BY <1>1 DEF Archive, Persist, WriteBlob, Publish, PurgeSource, StageFile, Purge, PurgeFails, UnlinkFile,
              RestoreFile, Recover, RecoverList, RecoverDir, RecoverMove, RecoverDrop
<1>2. CASE CollectGarbage(p)
  BY <1>2 DEF CollectGarbage, Locked, CheckPlan, CollectRows, CollectFiles, MakeDir, WriteReceipt, GcStage,
              GcFails, GcDrop, Rollback, ReleaseLock
<1>3. QED  BY <1>1, <1>2 DEF Work

LEMMA PlansStart ==
  ASSUME TypeInv, NEW p \in Procs, StartCommand(p), cmd'[p].kind = "gc apply"
  PROVE  plan[cmd'[p].plan].state # "none"
<1> USE DEF TypeInv, CmdOK, NoCmd, Start
<1>1. ASSUME NEW s \in Sources, NEW b \in Blobs, StartArchive(p, s, b)
      PROVE  FALSE
  BY <1>1 DEF StartArchive
<1>2. ASSUME NEW s \in Sources, StartPurge(p, s)
      PROVE  FALSE
  BY <1>2 DEF StartPurge
<1>3. ASSUME NEW g \in Procs, StartGcApply(p, g)
      PROVE  plan[cmd'[p].plan].state # "none"
  BY <1>3 DEF StartGcApply
<1>4. ASSUME StartGcPlan(p) \/ StartCheckpoint(p)
      PROVE  FALSE
  BY <1>4 DEF StartGcPlan, StartCheckpoint
<1>5. QED  BY <1>1, <1>2, <1>3, <1>4 DEF StartCommand

\* PlansAreMadeOnce after a step of p that leaves the operands of p alone.
LEMMA PlansForEach ==
  ASSUME PlansAreMadeOnce, NEW p \in Procs,
         \A q \in Procs \ {p} : cmd'[q] = cmd[q],
         cmd[p].pc \notin {"idle", "done"}, cmd'[p].pc # "idle",
         cmd'[p].kind = cmd[p].kind, cmd'[p].plan = cmd[p].plan,
         \A g \in Procs : receipts'[g] > 0 => plan'[g].state # "none",
         \A q \in Procs : cmd[q].kind = "gc apply" => plan'[cmd[q].plan].state # "none",
         \A q \in Procs \ {p} : plan[q].state = "none" => plan'[q].state = "none",
         cmd'[p].pc = "done" \/ (plan[p].state = "none" => plan'[p].state = "none")
  PROVE  PlansAreMadeOnce'
<1>1. ASSUME NEW q \in Procs
      PROVE  /\ cmd'[q].pc = "idle" \/ (cmd'[q].kind = "gc plan" /\ cmd'[q].pc # "done")
                  => plan'[q].state = "none"
             /\ cmd'[q].kind = "gc apply" => plan'[cmd'[q].plan].state # "none"
  <2>1. CASE q = p
    BY <2>1 DEF PlansAreMadeOnce
  <2>2. CASE q # p
    BY <2>2 DEF PlansAreMadeOnce
  <2>3. QED  BY <2>1, <2>2
<1>2. QED  BY <1>1 DEF PlansAreMadeOnce

LEMMA PlansStep ==
  ASSUME TypeInv, PlansAreMadeOnce, [Next]_vars
  PROVE  PlansAreMadeOnce'
<1>1. ASSUME NEW p \in Procs, StartCommand(p)
      PROVE  PlansAreMadeOnce'
  <2>1. \A q \in Procs \ {p} : cmd'[q] = cmd[q]
    BY <1>1, StartFrame
  <2>2. /\ cmd[p].pc = "idle" /\ cmd'[p].pc # "idle" /\ UNCHANGED <<plan, receipts>>
        /\ cmd'[p].kind = "gc apply" => plan[cmd'[p].plan].state # "none"
    BY <1>1, StartFrame, PlansStart DEF stores
  <2>3. QED  BY <2>1, <2>2 DEF PlansAreMadeOnce
<1>2. CASE Aside
  BY <1>2, AsideFrame DEF stores, PlansAreMadeOnce
<1>3. ASSUME NEW p \in Procs, Work(p)
      PROVE  PlansAreMadeOnce'
  <2>1. \A q \in Procs \ {p} : cmd'[q] = cmd[q]
    BY <1>3, WorkFrame
  <2>2. /\ cmd[p].pc \notin {"idle", "done"} /\ cmd'[p].pc # "idle"
        /\ cmd'[p].kind = cmd[p].kind /\ cmd'[p].plan = cmd[p].plan
    BY <1>3, WorkFrame
  <2>3. CASE UNCHANGED <<plan, receipts>>
    BY <2>1, <2>2, <2>3 DEF PlansAreMadeOnce
  <2>4. CASE CollectFiles(p) /\ cmd[p].kind = "gc plan"
    <3>1. /\ plan' = [plan EXCEPT ![p] = [state |-> "ready", items |-> Candidates(p)]]
          /\ receipts' = receipts
          /\ cmd'[p].pc = "done"
      BY <2>4 DEF CollectFiles, Goto, TypeInv, CmdOK, Command
    <3>2. \A g \in Procs : plan'[g].state = IF g = p THEN "ready" ELSE plan[g].state
      BY <3>1 DEF TypeInv, StoresOK
    <3>3. \A q \in Procs : cmd[q].kind = "gc apply" => cmd[q].plan \in Procs
      BY DEF TypeInv, CmdOK, Operands
    <3>4. \A g \in Procs : receipts'[g] > 0 => plan'[g].state # "none"
      <4>1. receipts' = receipts
        BY <3>1
      <4>2. QED  BY <4>1, <3>2 DEF PlansAreMadeOnce
    <3>5. \A q \in Procs \ {p} : plan'[q].state = plan[q].state
      BY <3>2
    <3>6. \A q \in Procs : cmd[q].kind = "gc apply" => plan'[cmd[q].plan].state # "none"
      BY <3>2, <3>3 DEF PlansAreMadeOnce
    <3>7. cmd'[p].pc = "done"
      BY <3>1
    <3>8. QED  BY <2>1, <2>2, <3>4, <3>5, <3>6, <3>7, PlansForEach
  <2>5. CASE GcCommit(p)
    <3> DEFINE g == cmd[p].plan
    <3>1. cmd[p].kind = "gc apply" /\ g \in Procs
      BY <2>5 DEF GcCommit, AtPC, TypeInv, CmdOK, Operands, Applying, Staging
    <3>2. plan' = [plan EXCEPT ![g].state = "applied"] /\ receipts' = [receipts EXCEPT ![g] = @ + 1]
      BY <2>5 DEF GcCommit
    <3>3. plan[g].state # "none"
      BY <3>1 DEF PlansAreMadeOnce
    <3> HIDE DEF g
    <3>4. \A h \in Procs : plan'[h].state = IF h = g THEN "applied" ELSE plan[h].state
      BY <3>1, <3>2 DEF TypeInv, StoresOK
    <3>5. \A h \in Procs : h # g => receipts'[h] = receipts[h]
      BY <3>1, <3>2 DEF TypeInv, StoresOK
    <3>6. \A q \in Procs : cmd[q].kind = "gc apply" => cmd[q].plan \in Procs
      BY DEF TypeInv, CmdOK, Operands
    <3>7. \A h \in Procs : receipts'[h] > 0 => plan'[h].state # "none"
      BY <3>4, <3>5 DEF PlansAreMadeOnce
    <3>8. \A q \in Procs : cmd[q].kind = "gc apply" => plan'[cmd[q].plan].state # "none"
      BY <3>4, <3>6 DEF PlansAreMadeOnce
    <3>9. \A q \in Procs : plan[q].state = "none" => plan'[q].state = "none"
      BY <3>3, <3>4
    <3>10. QED  BY <2>1, <2>2, <3>7, <3>8, <3>9, PlansForEach
  <2>6. QED  BY <1>3, <2>3, <2>4, <2>5, PlansChange
<1>4. QED  BY <1>1, <1>2, <1>3, NextSplits

-----------------------------------------------------------------------------

LEMMA StagingShrinks ==
  ASSUME staging \in [Procs -> StagingType], NEW h \in Procs, NEW F,
         \/ staging' = staging
         \/ \E f \in F : staging' = [staging EXCEPT ![h].files = @ \ {f}]
  PROVE  \A g \in Procs : /\ staging'[g].files \subseteq staging[g].files
                          /\ staging'[g].receipt = staging[g].receipt
                          /\ staging'[g].dir = staging[g].dir
  BY DEF StagingType

\* Nothing is asked of a process that runs no command.
LEMMA RestingProcess ==
  ASSUME NEW q \in Procs, ~Running(q)'
  PROVE  FindsStaged(q)' /\ DeletesSpare(q)'
<1>1. \A l \in CmdPC \ {"idle", "done"} : ~AtPC(q, l)'
  BY DEF Running, AtPC
<1>2. Collecting \cup Preparing \cup Staging \subseteq CmdPC \ {"idle", "done"}
  BY DEF CmdPC, Collecting, Preparing, Staging
<1>3. FindsStaged(q)'
  BY <1>1, <1>2 DEF FindsStaged, CmdPC
<1>4. DeletesSpare(q)'
  BY <1>1, <1>2 DEF DeletesSpare, CmdPC
<1>5. QED  BY <1>3, <1>4

LEMMA OthersRest ==
  ASSUME TypeInv, Serial, Alone, NEW p \in Procs, Work(p) \/ StartCommand(p)
  PROVE  \A q \in Procs \ {p} : FindsStaged(q)' /\ DeletesSpare(q)'
<1>1. \A q \in Procs \ {p} : ~Running(q) /\ cmd'[q] = cmd[q] /\ at'[q] = at[q]
  <2>1. CASE Work(p)
    BY <2>1, WorkRuns DEF Alone
  <2>2. CASE StartCommand(p)
    BY <2>2, StartFrame, NobodyRuns DEF lockVars, Acquire, MoveTo, TypeInv, LockTypeOK
  <2>3. QED  BY <2>1, <2>2
<1>2. \A q \in Procs \ {p} : ~Running(q)'
  BY <1>1 DEF Running, PidAlive
<1>3. QED  BY <1>2, RestingProcess

\* A process at one of the first steps of a command has staged nothing.
LEMMA StartFinds ==
  ASSUME TypeInv, NEW p \in Procs, StartCommand(p)
  PROVE  FindsStaged(p)'
<1>1. cmd'[p].pc \in {"persist", "stage", "recoverList", "locking"}
  BY StartFrame
<1>2. QED  BY <1>1 DEF FindsStaged, AtPC, Collecting, Preparing

LEMMA AsideFinds ==
  ASSUME TypeInv, StagedIsFound, Aside
  PROVE  StagedIsFound'
<1>1. UNCHANGED <<staging, cmd>>
  BY AsideFrame DEF stores
<1>2. \A p \in Procs, l \in CmdPC : AtPC(p, l)' => AtPC(p, l)
  BY <1>1, AsideFrame DEF AtPC
<1>3. Collecting \cup Preparing \subseteq CmdPC
  BY DEF CmdPC, Collecting, Preparing
<1>4. QED  BY <1>1, <1>2, <1>3 DEF StagedIsFound, FindsStaged, CmdPC

LEMMA RecoverFinds ==
  ASSUME TypeInv, StagedIsFound, NEW p \in Procs, Recover(p)
  PROVE  FindsStaged(p)' /\ \A g \in Procs : staging'[g].files # {} => staging'[g].receipt /\ staging'[g].dir
<1> USE DEF TypeInv, CmdOK, StoresOK, StagedIsFound
<1>1. cmd[p] \in Command /\ PidAlive(p)
  BY DEF Recover, RecoverList, RecoverDir, RecoverMove, RecoverDrop, AtPC
<1>2. CASE RecoverList(p)
  <2>1. cmd'[p].pc = "recover" /\ cmd'[p].dirs = StagedDirs /\ UNCHANGED staging
    BY <1>1, <1>2 DEF RecoverList, Command, stores
  <2>2. QED  BY <2>1 DEF FindsStaged, AtPC, StagedDirs, Collecting, Preparing
<1>3. CASE RecoverDir(p)
  <2>1. UNCHANGED staging /\ AtPC(p, "recover")
    BY <1>3 DEF RecoverDir, stores
  <2>2. \A g \in Procs : staging[g].files # {} => g \in cmd[p].dirs
    BY <2>1 DEF FindsStaged
  <2>3. CASE cmd[p].dirs = {} /\ Goto(p, AfterRecovery(p))
    <3>1. \A g \in Procs : staging[g].files = {}
      BY <2>2, <2>3
    <3>2. cmd'[p].pc \in {"collectRows", "checkPlan", "release"}
      <4>1. cmd'[p].pc = AfterRecovery(p)
        BY <2>3 DEF Goto
      <4>2. AfterRecovery(p) \in {"collectRows", "checkPlan", "release"}
        BY DEF AfterRecovery
      <4>3. QED  BY <4>1, <4>2
    <3>3. QED  BY <2>1, <3>1, <3>2 DEF FindsStaged, AtPC
  <2>4. ASSUME NEW g \in cmd[p].dirs, staging[g].receipt, NEW l \in {"recoverDrop", "recoverMove"},
               cmd' = [cmd EXCEPT ![p].pc = l, ![p].dir = g, ![p].listed = plan[g].items]
        PROVE  FindsStaged(p)'
    <3>1. cmd'[p].pc = l /\ cmd'[p].dirs = cmd[p].dirs
      BY <1>1, <2>4 DEF Command
    <3>2. QED  BY <2>1, <2>2, <3>1 DEF FindsStaged, AtPC, Collecting, Preparing
  <2>5. ASSUME NEW g \in cmd[p].dirs, ~staging[g].receipt, cmd' = [cmd EXCEPT ![p].dirs = @ \ {g}]
        PROVE  FindsStaged(p)'
    <3>1. cmd'[p].pc = "recover" /\ cmd'[p].dirs = cmd[p].dirs \ {g}
      BY <1>1, <2>1, <2>5 DEF Command, AtPC
    <3>2. \A h \in Procs : staging[h].files # {} => h # g
      BY <2>5
    <3>3. QED  BY <2>1, <2>2, <3>1, <3>2 DEF FindsStaged, AtPC, Collecting, Preparing
  <2>6. FindsStaged(p)'
    BY <1>3, <2>3, <2>4, <2>5 DEF RecoverDir
  <2>7. QED  BY <2>1, <2>6
<1>4. CASE RecoverMove(p)
  <2>1. /\ \A g \in Procs : /\ staging'[g].files \subseteq staging[g].files
                            /\ staging'[g].receipt = staging[g].receipt
                            /\ staging'[g].dir = staging[g].dir
        /\ AtPC(p, "recoverMove")
    <3>1. AtPC(p, "recoverMove") /\ cmd[p].dir \in Procs
      BY <1>4 DEF RecoverMove, AtPC, Operands
    <3>2. \/ staging' = staging
          \/ \E f \in cmd[p].listed : staging' = [staging EXCEPT ![cmd[p].dir].files = @ \ {f}]
      BY <1>4 DEF RecoverMove, MoveBack
    <3>3. staging \in [Procs -> StagingType]
      BY DEF StagingType
    <3>4. QED  BY <3>1, <3>2, <3>3, StagingShrinks
  <2>2. cmd'[p].pc \in {"recoverDrop", "recoverMove"} /\ cmd'[p].dirs = cmd[p].dirs
    BY <1>1, <1>4 DEF RecoverMove, Goto, Command, AtPC
  <2>3. QED  BY <2>1, <2>2 DEF FindsStaged, AtPC, Collecting, Preparing
<1>5. CASE RecoverDrop(p)
  <2>1. /\ staging' = [staging EXCEPT ![cmd[p].dir] = NoStaging]
        /\ AtPC(p, "recoverDrop")
        /\ cmd[p].dir \in Procs
    BY <1>5 DEF RecoverDrop, AtPC, Operands
  <2>2. cmd'[p].pc = "recover" /\ cmd'[p].dirs = cmd[p].dirs \ {cmd[p].dir}
    BY <1>1, <1>5 DEF RecoverDrop, Command
  <2>3. \A g \in Procs : g # cmd[p].dir => staging'[g] = staging[g]
    BY <2>1
  <2>4. staging'[cmd[p].dir].files = {}
    BY <2>1 DEF NoStaging
  <2>5. QED  BY <2>1, <2>2, <2>3, <2>4 DEF FindsStaged, AtPC, Collecting, Preparing
<1>6. QED  BY <1>2, <1>3, <1>4, <1>5 DEF Recover

LEMMA ArchivePurgeSteps ==
  ASSUME cmd \in [Procs -> Command], NEW p \in Procs, Archive(p) \/ PurgeSource(p)
  PROVE  cmd'[p].pc \in Archiving \cup Purging \cup {"done"} /\ UNCHANGED <<staging, plan, receipts>>
<1>1. UNCHANGED <<staging, plan, receipts>>
  BY DEF Archive, Persist, WriteBlob, Publish, PurgeSource, StageFile, Purge, PurgeFails, UnlinkFile,
         RestoreFile, stores
<1>2. ASSUME NEW l \in Archiving \cup Purging \cup {"done"}, Goto(p, l)
      PROVE  cmd'[p].pc \in Archiving \cup Purging \cup {"done"}
  BY <1>2 DEF Goto, Command
<1>3. ASSUME cmd[p].pc \in Purging, NEW f,
             \/ cmd' = [cmd EXCEPT ![p].listed = @ \ {f}, ![p].moved = @ \cup {f}]
             \/ cmd' = [cmd EXCEPT ![p].moved = @ \ {f}]
      PROVE  cmd'[p].pc \in Archiving \cup Purging \cup {"done"}
  <2>1. CASE cmd' = [cmd EXCEPT ![p].listed = @ \ {f}, ![p].moved = @ \cup {f}]
    BY <1>3, <2>1 DEF Command
  <2>2. CASE cmd' = [cmd EXCEPT ![p].moved = @ \ {f}]
    BY <1>3, <2>2 DEF Command
  <2>3. QED  BY <1>3, <2>1, <2>2
<1>4. CASE Archive(p)
  BY <1>1, <1>2, <1>4 DEF Archive, Persist, WriteBlob, Publish, Archiving
<1>5. CASE PurgeSource(p)
  BY <1>1, <1>2, <1>3, <1>5
     DEF PurgeSource, StageFile, Purge, PurgeFails, UnlinkFile, RestoreFile, AtPC, Purging
<1>6. QED  BY <1>4, <1>5

LEMMA CollectFinds ==
  ASSUME TypeInv, StagedIsFound, NEW p \in Procs, CollectGarbage(p)
  PROVE  FindsStaged(p)' /\ \A g \in Procs : staging'[g].files # {} => staging'[g].receipt /\ staging'[g].dir
<1> DEFINE g == cmd[p].plan
           Found == \A h \in Procs : staging'[h].files # {} => staging'[h].receipt /\ staging'[h].dir
<1>1. cmd[p] \in Command /\ cmd \in [Procs -> Command] /\ staging \in [Procs -> StagingType]
  BY DEF TypeInv, CmdOK, StoresOK, StagingType
<1>2. cmd[p].pc \in Applying => g \in Procs
  BY DEF TypeInv, CmdOK, Operands
<1>3. ASSUME NEW l \in CmdPC \ Collecting, l \notin Preparing \cup {"recover", "recoverMove", "recoverDrop", "gcStage"},
             Goto(p, l)
      PROVE  FindsStaged(p)'
  BY <1>1, <1>3 DEF Goto, FindsStaged, AtPC, Command
<1>4. UNCHANGED staging => Found
  BY DEF StagedIsFound
<1>5. CASE Locked(p) \/ GcCommit(p) \/ GcFails(p) \/ ReleaseLock(p)
  BY <1>3, <1>4, <1>5 DEF Locked, GcCommit, GcFails, ReleaseLock, stores, CmdPC, Collecting, Preparing
<1>6. ASSUME Throw(p)
      PROVE  FindsStaged(p)'
  BY <1>3, <1>6 DEF Throw, CmdPC, Collecting, Preparing
<1>7. ASSUME \E l \in Collecting \cup Preparing : AtPC(p, l)
      PROVE  \A h \in Procs : staging[h].files = {}
  BY <1>7 DEF StagedIsFound, FindsStaged
<1>8. CASE CheckPlan(p) \/ CollectRows(p)
  <2>1. \A h \in Procs : staging'[h].files = {}
    BY <1>7, <1>8 DEF CheckPlan, CollectRows, stores, Collecting, Preparing
  <2>2. Throw(p) \/ cmd'[p].pc \in Collecting
    BY <1>1, <1>8 DEF CheckPlan, CollectRows, Goto, Collecting, Command
  <2>3. cmd'[p].pc \in Collecting => FindsStaged(p)'
    BY <2>1 DEF FindsStaged, AtPC, Collecting
  <2>4. QED  BY <1>6, <2>1, <2>2, <2>3
<1>9. CASE CollectFiles(p) \/ MakeDir(p)
  <2>1. \A h \in Procs : staging[h].files = {}
    BY <1>7, <1>9 DEF CollectFiles, MakeDir, Collecting, Preparing
  <2>2. staging' = staging \/ (g \in Procs /\ staging' = [staging EXCEPT ![g].dir = TRUE])
    BY <1>2, <1>9 DEF CollectFiles, MakeDir, AtPC, Applying, Preparing
  <2>3. \A h \in Procs : staging'[h].files = {}
    BY <1>1, <2>1, <2>2 DEF StagingType
  <2>4. \E l \in {"done", "makeDir", "writeReceipt", "rollback"} : Goto(p, l)
    BY <1>9 DEF CollectFiles, MakeDir, Throw
  <2>5. FindsStaged(p)'
    BY <1>1, <2>3, <2>4 DEF FindsStaged, Goto, AtPC, Command
  <2>6. QED  BY <2>3, <2>5
<1>10. CASE WriteReceipt(p)
  <2>1. g \in Procs /\ \A h \in Procs : staging[h].files = {}
    BY <1>2, <1>7, <1>10 DEF WriteReceipt, AtPC, Applying, Preparing
  <2>2. staging' = [staging EXCEPT ![g].dir = TRUE, ![g].receipt = TRUE]
    BY <1>10 DEF WriteReceipt
  <2>3. staging'[g].receipt /\ \A h \in Procs : staging'[h].files = {}
    BY <1>1, <2>1, <2>2 DEF StagingType
  <2>4. cmd'[p].pc = "gcStage" /\ cmd'[p].plan = g
    BY <1>1, <1>10 DEF WriteReceipt, Command
  <2>5. QED  BY <2>3, <2>4 DEF FindsStaged, AtPC
<1>11. CASE GcStage(p)
  <2>1. g \in Procs /\ staging[g].receipt /\ AtPC(p, "gcStage")
    BY <1>2, <1>11 DEF GcStage, AtPC, Applying, Staging, StagedIsFound, FindsStaged
  <2>2. CASE UNCHANGED staging /\ Goto(p, "gcCommit")
    BY <1>3, <1>4, <2>2 DEF CmdPC, Collecting, Preparing
  <2>3. ASSUME NEW f \in cmd[p].listed,
               staging' = [staging EXCEPT ![g].dir = TRUE, ![g].files = @ \cup {f}],
               cmd' = [cmd EXCEPT ![p].listed = @ \ {f}, ![p].moved = @ \cup {f}]
        PROVE  FindsStaged(p)' /\ Found
    <3>1. staging'[g].receipt /\ staging'[g].dir /\ \A h \in Procs \ {g} : staging'[h] = staging[h]
      BY <1>1, <2>1, <2>3 DEF StagingType
    <3>2. cmd'[p].pc = "gcStage" /\ cmd'[p].plan = g
      BY <1>1, <2>1, <2>3 DEF Command, AtPC
    <3>3. Found
      BY <3>1 DEF StagedIsFound
    <3>4. FindsStaged(p)'
      BY <3>1, <3>2 DEF FindsStaged, AtPC, Collecting, Preparing
    <3>5. QED  BY <3>3, <3>4
  <2>4. CASE staging' = [staging EXCEPT ![g].dir = TRUE] /\ Goto(p, "rollback")
    <3>1. Found
      BY <1>1, <2>1, <2>4 DEF StagingType, StagedIsFound
    <3>2. QED  BY <1>3, <2>4, <3>1 DEF CmdPC, Collecting, Preparing
  <2>5. QED  BY <1>11, <2>2, <2>3, <2>4 DEF GcStage
<1>12. CASE GcDrop(p)
  <2>1. g \in Procs /\ staging' = [staging EXCEPT ![g] = NoStaging] /\ Goto(p, "release")
    BY <1>2, <1>12 DEF GcDrop, AtPC, Applying, Staging
  <2>2. Found
    BY <1>1, <2>1 DEF NoStaging, StagedIsFound
  <2>3. QED  BY <1>3, <2>1, <2>2 DEF CmdPC, Collecting, Preparing
<1>13. CASE Rollback(p)
  <2>1. g \in Procs /\ AtPC(p, "rollback")
    BY <1>2, <1>13 DEF Rollback, AtPC, Applying, Staging
  <2>2. staging' = staging \/ \E f \in cmd[p].moved : staging' = [staging EXCEPT ![g].files = @ \ {f}]
    BY <1>13 DEF Rollback, MoveBack
  <2>3. Found
    <3>1. \A h \in Procs : /\ staging'[h].files \subseteq staging[h].files
                           /\ staging'[h].receipt = staging[h].receipt
                           /\ staging'[h].dir = staging[h].dir
      BY <1>1, <2>1, <2>2, StagingShrinks
    <3>2. QED  BY <3>1 DEF StagedIsFound
  <2>4. cmd'[p].pc \in {"rollback", "rollbackDrop"}
    BY <1>1, <1>13, <2>1 DEF Rollback, Goto, Command, AtPC
  <2>5. FindsStaged(p)'
    BY <2>4 DEF FindsStaged, AtPC, Collecting, Preparing
  <2>6. QED  BY <2>3, <2>5
<1>14. QED  BY <1>5, <1>8, <1>9, <1>10, <1>11, <1>12, <1>13 DEF CollectGarbage

LEMMA StagedStep ==
  ASSUME TypeInv, Serial, Alone, StagedIsFound, [Next]_vars
  PROVE  StagedIsFound'
<1>1. ASSUME NEW p \in Procs, StartCommand(p)
      PROVE  StagedIsFound'
  <2>1. UNCHANGED staging
    BY <1>1, StartFrame DEF stores
  <2>2. QED  BY <1>1, <2>1, StartFinds, OthersRest DEF StagedIsFound
<1>2. ASSUME NEW p \in Procs, Work(p)
      PROVE  StagedIsFound'
  <2>1. CASE Archive(p) \/ PurgeSource(p)
    <3>1. cmd'[p].pc \in Archiving \cup Purging \cup {"done"} /\ UNCHANGED staging
      BY <2>1, ArchivePurgeSteps DEF TypeInv, CmdOK
    <3>2. FindsStaged(p)'
      BY <3>1 DEF FindsStaged, AtPC, Archiving, Purging, Collecting, Preparing
    <3>3. QED  BY <1>2, <3>1, <3>2, OthersRest DEF StagedIsFound
  <2>2. CASE Recover(p)
    BY <1>2, <2>2, RecoverFinds, OthersRest DEF StagedIsFound
  <2>3. CASE CollectGarbage(p)
    BY <1>2, <2>3, CollectFinds, OthersRest DEF StagedIsFound
  <2>4. QED  BY <1>2, <2>1, <2>2, <2>3 DEF Work
<1>3. CASE Aside
  BY <1>3, AsideFinds
<1>4. QED  BY <1>1, <1>2, <1>3, NextSplits

-----------------------------------------------------------------------------

Kept == \A b \in Blobs : Referenced(b) => Bytes(b) \/ Receipted(b)
StagedAsPlanned == \A g \in Procs : staging[g].files \subseteq plan[g].items

\* A step that removes bytes only where another copy or a receipt is left.
LEMMA KeptIf ==
  ASSUME Kept, UNCHANGED <<plan, receipts>>,
         \A b \in Blobs : Referenced(b)' => Referenced(b),
         \A b \in Blobs : Referenced(b)' /\ Bytes(b) => Bytes(b)' \/ Receipted(b)
  PROVE  Kept'
<1>1. \A b \in Blobs : Receipted(b)' <=> Receipted(b)
  BY DEF Receipted
<1>2. QED  BY <1>1 DEF Kept

LEMMA AsideKeeps ==
  ASSUME TypeInv, BytesAreKept, Aside
  PROVE  BytesAreKept'
<1>1. UNCHANGED <<stores, cmd>>
  BY AsideFrame
<1>2. \A p \in Procs, l \in CmdPC : AtPC(p, l)' => AtPC(p, l)
  BY <1>1, AsideFrame DEF AtPC
<1>3. Staging \subseteq CmdPC
  BY DEF CmdPC, Staging
<1>4. Kept' /\ StagedAsPlanned'
  BY <1>1 DEF stores, Kept, StagedAsPlanned, BytesAreKept, Referenced, Bytes, Receipted
<1>5. ASSUME NEW p \in Procs
      PROVE  DeletesSpare(p)'
  <2>1. DeletesSpare(p)
    BY DEF BytesAreKept
  <2>2. QED  BY <1>1, <1>2, <1>3, <2>1 DEF stores, DeletesSpare, OnlyStaged, Exclusive, Referenced, CmdPC
<1>6. QED  BY <1>4, <1>5 DEF BytesAreKept, Kept, StagedAsPlanned

LEMMA StartKeeps ==
  ASSUME TypeInv, NEW p \in Procs, StartCommand(p)
  PROVE  DeletesSpare(p)'
<1>1. cmd'[p].pc \in {"persist", "stage", "recoverList", "locking"} /\ UNCHANGED entry
  BY StartFrame DEF stores
<1>2. cmd'[p].pc = "stage" =>
        \A f \in cmd'[p].listed \cup cmd'[p].moved : f.blob \in Exclusive(cmd'[p].source)
  <2> USE DEF TypeInv, CmdOK, NoCmd, Start
  <2>1. ASSUME NEW s \in Sources, StartPurge(p, s)
        PROVE  \A f \in cmd'[p].listed \cup cmd'[p].moved : f.blob \in Exclusive(cmd'[p].source)
    <3>1. cmd'[p].listed = {Home(b) : b \in Exclusive(s)} /\ cmd'[p].moved = {} /\ cmd'[p].source = s
      BY <2>1 DEF StartPurge
    <3>2. QED  BY <3>1 DEF Home
  <2>2. ASSUME NEW s \in Sources, NEW b \in Blobs, StartArchive(p, s, b)
        PROVE  cmd'[p].pc = "persist"
    BY <2>2 DEF StartArchive
  <2>3. ASSUME NEW g \in Procs, StartGcPlan(p) \/ StartGcApply(p, g) \/ StartCheckpoint(p)
        PROVE  cmd'[p].pc \in {"recoverList", "locking"}
    BY <2>3 DEF StartGcPlan, StartGcApply, StartCheckpoint
  <2>4. QED  BY <2>1, <2>2, <2>3 DEF StartCommand
<1>3. QED  BY <1>1, <1>2 DEF DeletesSpare, AtPC, Exclusive, Staging

LEMMA ArchiveKeeps ==
  ASSUME TypeInv, BytesAreKept, NEW p \in Procs, Archive(p)
  PROVE  Kept' /\ StagedAsPlanned' /\ DeletesSpare(p)'
<1>1. cmd \in [Procs -> Command] /\ cmd[p].source \in Sources /\ cmd[p].blob \in Blobs
  BY DEF TypeInv, CmdOK, Operands, Archiving, Archive, Persist, WriteBlob, Publish, AtPC
<1>2. Kept /\ StagedAsPlanned /\ DeletesSpare(p)
  BY DEF BytesAreKept, Kept, StagedAsPlanned
<1>3. UNCHANGED <<staging, plan, receipts>>
  BY <1>1, ArchivePurgeSteps
<1>4. StagedAsPlanned'
  BY <1>2, <1>3 DEF StagedAsPlanned
<1>5. CASE Persist(p) \/ WriteBlob(p)
  <2>1. disk \subseteq disk' /\ UNCHANGED entry
    BY <1>5 DEF Persist, WriteBlob, stores
  <2>2. Kept'
    BY <1>2, <1>3, <2>1 DEF Kept, Referenced, Bytes, Receipted
  <2>3. /\ cmd'[p].pc \in {"publish", "writeBlob"} /\ cmd'[p].blob = cmd[p].blob
        /\ cmd'[p].pc = "publish" => Home(cmd[p].blob) \in disk'
    BY <1>1, <1>5 DEF Persist, WriteBlob, Goto, Command, stores
  <2>4. DeletesSpare(p)'
    BY <2>3 DEF DeletesSpare, AtPC, Staging
  <2>5. QED  BY <1>4, <2>2, <2>4
<1>6. CASE Publish(p)
  <2>1. UNCHANGED disk /\ cmd'[p].pc = "done" /\ Home(cmd[p].blob) \in disk
    BY <1>1, <1>2, <1>6 DEF Publish, Goto, Command, DeletesSpare
  <2>2. \A b \in Blobs : (Bytes(b) <=> Bytes(b)') /\ (Receipted(b) <=> Receipted(b)')
    BY <1>3, <2>1 DEF Bytes, Receipted
  <2>3. Bytes(cmd[p].blob)
    BY <2>1 DEF Bytes, Home
  <2>4. entry' = entry \/ entry' = [entry EXCEPT ![cmd[p].source] = @ \cup {cmd[p].blob}]
    BY <1>6 DEF Publish
  <2>5. \A b \in Blobs : Referenced(b)' => Referenced(b) \/ b = cmd[p].blob
    BY <1>1, <2>4 DEF Referenced, TypeInv, StoresOK
  <2>6. Kept'
    BY <1>2, <2>2, <2>3, <2>5 DEF Kept
  <2>7. DeletesSpare(p)'
    BY <2>1 DEF DeletesSpare, AtPC, Staging
  <2>8. QED  BY <1>4, <2>6, <2>7
<1>7. QED  BY <1>5, <1>6 DEF Archive

LEMMA PurgeKeeps ==
  ASSUME TypeInv, BytesAreKept, NEW p \in Procs, PurgeSource(p)
  PROVE  Kept' /\ StagedAsPlanned' /\ DeletesSpare(p)'
<1>1. /\ cmd \in [Procs -> Command] /\ cmd[p].source \in Sources
      /\ cmd[p].listed \subseteq Paths /\ cmd[p].moved \subseteq Paths
  BY DEF TypeInv, CmdOK, Command, Operands, Purging, PurgeSource, StageFile, Purge, PurgeFails, UnlinkFile,
         RestoreFile, AtPC
<1>2. Kept /\ StagedAsPlanned /\ DeletesSpare(p)
  BY DEF BytesAreKept, Kept, StagedAsPlanned
<1>3. UNCHANGED <<staging, plan, receipts>>
  BY <1>1, ArchivePurgeSteps
<1>4. StagedAsPlanned'
  BY <1>2, <1>3 DEF StagedAsPlanned
<1>5. ASSUME cmd'[p].pc \in {"restore", "done"}
      PROVE  DeletesSpare(p)'
  BY <1>5 DEF DeletesSpare, AtPC, Staging
<1>6. ASSUME UNCHANGED <<disk, entry>>
      PROVE  Kept'
  BY <1>2, <1>3, <1>6 DEF Kept, Referenced, Bytes, Receipted
<1>7. ASSUME NEW f \in Paths, UNCHANGED entry,
             \A x \in disk : x.blob # f.blob => x \in disk',
             (\E x \in disk' : x.blob = f.blob) \/ ~Referenced(f.blob)
      PROVE  Kept'
  <2>1. \A b \in Blobs : Referenced(b)' <=> Referenced(b)
    BY <1>7 DEF Referenced
  <2>2. \A b \in Blobs : b # f.blob /\ Bytes(b) => Bytes(b)'
    BY <1>3, <1>7 DEF Bytes
  <2>3. Bytes(f.blob)' \/ ~Referenced(f.blob)
    BY <1>7 DEF Bytes
  <2>4. QED  BY <1>2, <1>3, <2>1, <2>2, <2>3, KeptIf
<1>8. CASE StageFile(p)
  <2>1. /\ AtPC(p, "stage") /\ UNCHANGED entry
        /\ \A f \in cmd[p].listed \cup cmd[p].moved : f.blob \in Exclusive(cmd[p].source)
    BY <1>2, <1>8 DEF StageFile, DeletesSpare
  <2>2. CASE cmd[p].listed = {} /\ Goto(p, "purge") /\ UNCHANGED disk
    <3>1. cmd'[p].pc = "purge" /\ \A x \in {"listed", "moved", "source"} : cmd'[p][x] = cmd[p][x]
      BY <1>1, <2>2 DEF Goto, Command
    <3>2. DeletesSpare(p)'
      BY <2>1, <3>1 DEF DeletesSpare, AtPC, Exclusive, Staging
    <3>3. QED  BY <1>4, <1>6, <2>1, <2>2, <3>2
  <2>3. ASSUME NEW f \in cmd[p].listed, disk' = (disk \ {f}) \cup {Tmp(p, f.blob)},
               cmd' = [cmd EXCEPT ![p].listed = @ \ {f}, ![p].moved = @ \cup {f}]
        PROVE  Kept' /\ DeletesSpare(p)'
    <3>1. Kept'
      <4>1. f \in Paths /\ Tmp(p, f.blob).blob = f.blob /\ UNCHANGED entry
        BY <1>1, <2>1 DEF Tmp
      <4>2. \A x \in disk : x.blob # f.blob => x \in disk'
        BY <2>3
      <4>3. \E x \in disk' : x.blob = f.blob
        BY <2>3, <4>1
      <4>4. QED  BY <1>7, <4>1, <4>2, <4>3
    <3>2. /\ cmd'[p].pc = "stage" /\ cmd'[p].source = cmd[p].source
          /\ cmd'[p].listed = cmd[p].listed \ {f} /\ cmd'[p].moved = cmd[p].moved \cup {f}
      BY <1>1, <2>1, <2>3 DEF Command, AtPC
    <3>3. DeletesSpare(p)'
      BY <2>1, <3>2 DEF DeletesSpare, AtPC, Exclusive, Staging
    <3>4. QED  BY <3>1, <3>3
  <2>4. CASE Goto(p, "restore") /\ UNCHANGED disk
    BY <1>1, <1>4, <1>5, <1>6, <2>1, <2>4 DEF Goto, Command
  <2>5. QED  BY <1>4, <1>8, <2>2, <2>3, <2>4 DEF StageFile
<1>9. CASE Purge(p)
  <2>1. /\ entry' = [entry EXCEPT ![cmd[p].source] = {}] /\ UNCHANGED disk
        /\ \A f \in cmd[p].moved : f.blob \in Exclusive(cmd[p].source)
    BY <1>2, <1>9 DEF Purge, DeletesSpare
  <2>2. \A b \in Blobs : Referenced(b)' => Referenced(b)
    BY <1>1, <2>1 DEF Referenced, TypeInv, StoresOK
  <2>3. Kept'
    BY <1>2, <1>3, <2>1, <2>2 DEF Kept, Bytes, Receipted
  <2>4. \A f \in cmd[p].moved : ~Referenced(f.blob)'
    BY <1>1, <2>1 DEF Referenced, Exclusive, TypeInv, StoresOK
  <2>5. cmd'[p].pc = "unlink" /\ cmd'[p].moved = cmd[p].moved
    BY <1>1, <1>9 DEF Purge, Goto, Command
  <2>6. DeletesSpare(p)'
    BY <2>4, <2>5 DEF DeletesSpare, AtPC, Staging
  <2>7. QED  BY <1>4, <2>3, <2>6
<1>10. CASE PurgeFails(p)
  BY <1>1, <1>4, <1>5, <1>6, <1>10 DEF PurgeFails, stores, Goto, Command
<1>11. CASE UnlinkFile(p)
  <2>1. AtPC(p, "unlink") /\ UNCHANGED entry /\ \A f \in cmd[p].moved : ~Referenced(f.blob)
    BY <1>2, <1>11 DEF UnlinkFile, DeletesSpare
  <2>2. CASE UNCHANGED disk /\ (Goto(p, "done") \/ Goto(p, "restore"))
    BY <1>1, <1>4, <1>5, <1>6, <2>1, <2>2 DEF Goto, Command
  <2>3. ASSUME NEW f \in cmd[p].moved, disk' = disk \ {Tmp(p, f.blob)},
               cmd' = [cmd EXCEPT ![p].moved = @ \ {f}]
        PROVE  Kept' /\ DeletesSpare(p)'
    <3>1. Kept'
      BY <1>1, <1>7, <2>1, <2>3 DEF Tmp
    <3>2. cmd'[p].pc = "unlink" /\ cmd'[p].moved \subseteq cmd[p].moved
      BY <1>1, <2>1, <2>3 DEF Command, AtPC
    <3>3. DeletesSpare(p)'
      BY <2>1, <3>2 DEF DeletesSpare, AtPC, Referenced, Staging
    <3>4. QED  BY <3>1, <3>3
  <2>4. QED  BY <1>4, <1>11, <2>2, <2>3 DEF UnlinkFile
<1>12. CASE RestoreFile(p)
  <2>1. AtPC(p, "restore") /\ UNCHANGED entry
    BY <1>12 DEF RestoreFile
  <2>2. cmd'[p].pc \in {"restore", "done"}
    BY <1>1, <1>12, <2>1 DEF RestoreFile, Goto, Command, AtPC
  <2>3. Kept'
    <3>1. UNCHANGED disk \/ \E f \in cmd[p].moved : disk' = (disk \ {Tmp(p, f.blob)}) \cup {f}
      BY <1>12 DEF RestoreFile
    <3>2. QED  BY <1>1, <1>6, <1>7, <2>1, <3>1 DEF Tmp
  <2>4. QED  BY <1>4, <1>5, <2>2, <2>3
<1>13. QED  BY <1>8, <1>9, <1>10, <1>11, <1>12 DEF PurgeSource

\* Recovery and rollback never remove bytes that are nowhere else.
LEMMA MovesBackKeep ==
  ASSUME Kept, StagedAsPlanned, staging \in [Procs -> StagingType],
         UNCHANGED <<entry, plan, receipts>>, NEW g \in Procs, NEW f \in Paths, MoveBack(g, f)
  PROVE  /\ Kept' /\ StagedAsPlanned'
         /\ OnlyStaged(g)' \subseteq OnlyStaged(g) \ {f}
<1>1. CASE UNCHANGED <<disk, staging>> /\ ~(f \in staging[g].files /\ f \notin disk)
  BY <1>1 DEF Kept, StagedAsPlanned, Referenced, Bytes, Receipted, OnlyStaged
<1>2. CASE disk' = disk \cup {f} /\ staging' = [staging EXCEPT ![g].files = @ \ {f}]
  <2>1. /\ staging'[g].files = staging[g].files \ {f}
        /\ \A h \in Procs \ {g} : staging'[h] = staging[h]
    BY <1>2 DEF StagingType
  <2>2. \A b \in Blobs : Bytes(b) => Bytes(b)'
    BY <1>2, <2>1 DEF Bytes
  <2>3. Kept'
    BY <2>2, KeptIf DEF Referenced
  <2>4. StagedAsPlanned'
    BY <2>1 DEF StagedAsPlanned
  <2>5. OnlyStaged(g)' \subseteq OnlyStaged(g) \ {f}
    BY <1>2, <2>1 DEF OnlyStaged
  <2>6. QED  BY <2>3, <2>4, <2>5
<1>3. QED  BY <1>1, <1>2 DEF MoveBack, MovesBack

\* Dropping a staging directory whose files are in the tree or in a receipt.
LEMMA DropKeeps ==
  ASSUME Kept, StagedAsPlanned, UNCHANGED <<disk, entry, plan, receipts>>, NEW g \in Procs,
         staging \in [Procs -> StagingType], staging' = [staging EXCEPT ![g] = NoStaging],
         OnlyStaged(g) = {}
  PROVE  Kept' /\ StagedAsPlanned'
<1>1. staging'[g].files = {} /\ \A h \in Procs \ {g} : staging'[h] = staging[h]
  BY DEF NoStaging
<1>2. StagedAsPlanned'
  BY <1>1 DEF StagedAsPlanned
<1>3. \A f \in staging[g].files : f \in disk \/ (receipts[g] > 0 /\ f \in plan[g].items)
  BY DEF OnlyStaged, StagedAsPlanned
<1>4. \A b \in Blobs : Bytes(b) => Bytes(b)' \/ Receipted(b)
  BY <1>1, <1>3 DEF Bytes, Receipted
<1>5. Kept'
  BY <1>4, KeptIf DEF Referenced
<1>6. QED  BY <1>2, <1>5

LEMMA RecoverKeeps ==
  ASSUME TypeInv, BytesAreKept, NEW p \in Procs, Recover(p)
  PROVE  Kept' /\ StagedAsPlanned' /\ DeletesSpare(p)'
<1>1. /\ cmd \in [Procs -> Command] /\ Operands(cmd[p]) /\ cmd[p].listed \subseteq Paths
      /\ staging \in [Procs -> StagingType]
  BY DEF TypeInv, CmdOK, Command, StoresOK, StagingType
<1>2. Kept /\ StagedAsPlanned /\ DeletesSpare(p)
  BY DEF BytesAreKept, Kept, StagedAsPlanned
<1>3. UNCHANGED stores => Kept' /\ StagedAsPlanned'
  BY <1>2 DEF stores, Kept, StagedAsPlanned, Referenced, Bytes, Receipted
<1>4. ASSUME cmd'[p].pc \in {"recover", "collectRows", "checkPlan", "release"}
      PROVE  DeletesSpare(p)'
  BY <1>4 DEF DeletesSpare, AtPC, Staging
<1>5. CASE RecoverList(p)
  BY <1>1, <1>3, <1>4, <1>5 DEF RecoverList, Command
<1>6. CASE RecoverDir(p)
  <2>1. UNCHANGED stores /\ AtPC(p, "recover") /\ cmd[p].dirs \subseteq Procs
    BY <1>1, <1>6 DEF RecoverDir, Command
  <2>2. CASE Goto(p, AfterRecovery(p))
    <3>1. cmd'[p].pc = AfterRecovery(p)
      BY <1>1, <2>2 DEF Goto, Command
    <3>2. AfterRecovery(p) \in {"collectRows", "checkPlan", "release"}
      BY DEF AfterRecovery
    <3>3. QED  BY <1>3, <1>4, <2>1, <3>1, <3>2
  <2>3. ASSUME NEW g \in cmd[p].dirs,
               NEW l \in {"recoverDrop", "recoverMove"}, l = "recoverDrop" <=> receipts[g] > 0,
               cmd' = [cmd EXCEPT ![p].pc = l, ![p].dir = g, ![p].listed = plan[g].items]
        PROVE  DeletesSpare(p)'
    <3>1. cmd'[p].pc = l /\ cmd'[p].dir = g /\ cmd'[p].listed = plan[g].items
      BY <1>1, <2>3 DEF Command
    <3>2. OnlyStaged(g) \subseteq plan[g].items /\ (receipts[g] > 0 => OnlyStaged(g) = {})
      BY <1>2, <2>1 DEF OnlyStaged, StagedAsPlanned
    <3>3. OnlyStaged(g)' = OnlyStaged(g)
      BY <2>1 DEF OnlyStaged, stores
    <3>4. QED  BY <2>3, <3>1, <3>2, <3>3 DEF DeletesSpare, AtPC, Staging
  <2>4. ASSUME NEW g \in cmd[p].dirs, cmd' = [cmd EXCEPT ![p].dirs = @ \ {g}]
        PROVE  cmd'[p].pc = "recover"
    BY <1>1, <2>1, <2>4 DEF Command, AtPC
  <2>5. DeletesSpare(p)'
    <3>1. CASE cmd[p].dirs = {} /\ Goto(p, AfterRecovery(p))
      BY <2>2, <3>1
    <3>2. ASSUME NEW g \in cmd[p].dirs, staging[g].receipt,
                 cmd' = [cmd EXCEPT ![p].pc = IF receipts[g] > 0 THEN "recoverDrop" ELSE "recoverMove",
                                    ![p].dir = g, ![p].listed = plan[g].items]
          PROVE  DeletesSpare(p)'
      <4> DEFINE l == IF receipts[g] > 0 THEN "recoverDrop" ELSE "recoverMove"
      <4>1. l \in {"recoverDrop", "recoverMove"} /\ (l = "recoverDrop" <=> receipts[g] > 0)
        OBVIOUS
      <4>2. cmd' = [cmd EXCEPT ![p].pc = l, ![p].dir = g, ![p].listed = plan[g].items]
        BY <3>2
      <4> HIDE DEF l
      <4>3. QED  BY <2>3, <4>1, <4>2
    <3>3. ASSUME NEW g \in cmd[p].dirs, cmd' = [cmd EXCEPT ![p].dirs = @ \ {g}]
          PROVE  DeletesSpare(p)'
      BY <1>4, <2>4, <3>3
    <3>4. QED  BY <1>6, <3>1, <3>2, <3>3 DEF RecoverDir
  <2>6. QED  BY <1>3, <2>1, <2>5
<1>7. CASE RecoverMove(p)
  <2>1. /\ AtPC(p, "recoverMove") /\ UNCHANGED <<entry, plan, receipts>> /\ cmd[p].dir \in Procs
        /\ OnlyStaged(cmd[p].dir) \subseteq cmd[p].listed
    BY <1>1, <1>2, <1>7 DEF RecoverMove, DeletesSpare, Operands, AtPC
  <2>2. CASE cmd[p].listed = {} /\ Goto(p, "recoverDrop") /\ UNCHANGED <<disk, staging>>
    <3>1. cmd'[p].pc = "recoverDrop" /\ cmd'[p].dir = cmd[p].dir
      BY <1>1, <2>2 DEF Goto, Command
    <3>2. OnlyStaged(cmd[p].dir)' = {}
      BY <1>1, <2>1, <2>2, <3>1 DEF OnlyStaged
    <3>3. DeletesSpare(p)'
      BY <3>1, <3>2 DEF DeletesSpare, AtPC, Staging
    <3>4. UNCHANGED <<disk, staging, entry, plan, receipts>>
      BY <2>1, <2>2
    <3>5. Kept' /\ StagedAsPlanned'
      BY <1>2, <3>4 DEF Kept, StagedAsPlanned, Referenced, Bytes, Receipted
    <3>6. QED  BY <3>3, <3>5
  <2>3. ASSUME NEW f \in cmd[p].listed, MoveBack(cmd[p].dir, f), cmd' = [cmd EXCEPT ![p].listed = @ \ {f}]
        PROVE  Kept' /\ StagedAsPlanned' /\ DeletesSpare(p)'
    <3>1. Kept' /\ StagedAsPlanned' /\ OnlyStaged(cmd[p].dir)' \subseteq cmd[p].listed \ {f}
      <4>1. PICK g \in Procs : g = cmd[p].dir
        BY <2>1
      <4>2. MoveBack(g, f) /\ f \in Paths
        BY <1>1, <2>3, <4>1
      <4>3. OnlyStaged(g)' \subseteq OnlyStaged(g) \ {f} /\ Kept' /\ StagedAsPlanned'
        BY <1>1, <1>2, <2>1, <4>2, MovesBackKeep
      <4>4. cmd'[p].dir = g
        BY <1>1, <2>3, <4>1 DEF Command
      <4>5. QED  BY <2>1, <4>1, <4>3, <4>4
    <3>2. cmd'[p].pc = "recoverMove" /\ cmd'[p].dir = cmd[p].dir /\ cmd'[p].listed = cmd[p].listed \ {f}
      BY <1>1, <2>1, <2>3 DEF Command, AtPC
    <3>3. DeletesSpare(p)'
      BY <3>1, <3>2 DEF DeletesSpare, AtPC, Staging
    <3>4. QED  BY <3>1, <3>3
  <2>4. QED  BY <1>7, <2>2, <2>3 DEF RecoverMove
<1>8. CASE RecoverDrop(p)
  <2>1. /\ UNCHANGED <<disk, entry, plan, receipts>> /\ cmd[p].dir \in Procs
        /\ staging' = [staging EXCEPT ![cmd[p].dir] = NoStaging] /\ OnlyStaged(cmd[p].dir) = {}
    BY <1>1, <1>2, <1>8 DEF RecoverDrop, DeletesSpare, Operands, AtPC
  <2>2. Kept' /\ StagedAsPlanned'
    BY <1>1, <1>2, <2>1, DropKeeps
  <2>3. cmd'[p].pc = "recover"
    BY <1>1, <1>8 DEF RecoverDrop, Command
  <2>4. QED  BY <1>4, <2>2, <2>3
<1>9. QED  BY <1>5, <1>6, <1>7, <1>8 DEF Recover

LEMMA CollectKeeps ==
  ASSUME TypeInv, BytesAreKept, StagedIsFound, PlansAreMadeOnce, NEW p \in Procs, CollectGarbage(p)
  PROVE  Kept' /\ StagedAsPlanned' /\ DeletesSpare(p)'
<1>1. /\ cmd \in [Procs -> Command] /\ Operands(cmd[p])
      /\ cmd[p].listed \subseteq Paths /\ cmd[p].moved \subseteq Paths
      /\ staging \in [Procs -> StagingType] /\ receipts \in [Procs -> Nat]
  BY DEF TypeInv, CmdOK, Command, StoresOK, StagingType
<1>2. Kept /\ StagedAsPlanned /\ DeletesSpare(p)
  BY DEF BytesAreKept, Kept, StagedAsPlanned
<1>3. ASSUME UNCHANGED <<disk, entry, plan, receipts>>,
             \A h \in Procs : staging'[h].files = staging[h].files
      PROVE  Kept' /\ StagedAsPlanned'
  BY <1>2, <1>3 DEF Kept, StagedAsPlanned, Referenced, Bytes, Receipted
<1>4. ASSUME cmd'[p].pc \in {"done", "release", "recoverList", "makeDir", "writeReceipt"} \cup Collecting
      PROVE  DeletesSpare(p)'
  BY <1>4 DEF DeletesSpare, AtPC, Staging, Collecting
<1>5. PICK g : g = cmd[p].plan
  OBVIOUS
<1>6. cmd[p].pc \in Applying => g \in Procs
  BY <1>1, <1>5 DEF Operands
<1>7. ASSUME \E l \in Collecting \cup Preparing : AtPC(p, l)
      PROVE  \A h \in Procs : staging[h].files = {}
  BY <1>7 DEF StagedIsFound, FindsStaged
<1>8. CASE Locked(p) \/ CheckPlan(p) \/ CollectRows(p) \/ ReleaseLock(p)
  <2>1. UNCHANGED stores
    BY <1>8 DEF Locked, CheckPlan, CollectRows, ReleaseLock
  <2>2. cmd'[p].pc \in {"done", "release", "recoverList"} \cup Collecting
    BY <1>1, <1>8 DEF Locked, CheckPlan, CollectRows, ReleaseLock, Throw, Goto, Command, Collecting
  <2>3. QED  BY <1>3, <1>4, <2>1, <2>2 DEF stores
<1>9. CASE CollectFiles(p)
  <2>1. UNCHANGED <<disk, staging, entry, receipts>> /\ AtPC(p, "collectFiles")
    BY <1>9 DEF CollectFiles
  <2>2. cmd'[p].pc \in {"done", "makeDir"}
    <3>1. \E l \in {"done", "makeDir"} : Goto(p, l)
      BY <1>9 DEF CollectFiles, Throw
    <3>2. QED  BY <1>1, <3>1 DEF Goto, Command
  <2>3. CASE UNCHANGED plan
    BY <1>3, <1>4, <2>1, <2>2, <2>3
  <2>4. CASE cmd[p].kind = "gc plan" /\ plan' = [plan EXCEPT ![p] = [state |-> "ready", items |-> Candidates(p)]]
    <3>1. receipts[p] = 0
      <4>1. plan[p].state = "none"
        BY <2>1, <2>4 DEF PlansAreMadeOnce, AtPC
      <4>2. ~(receipts[p] > 0) /\ receipts[p] \in Nat
        BY <1>1, <4>1 DEF PlansAreMadeOnce
      <4>3. QED  BY <4>2
    <3>2. \A h \in Procs \ {p} : plan'[h] = plan[h]
      BY <2>4 DEF TypeInv, StoresOK
    <3>3. \A b \in Blobs : Receipted(b) => Receipted(b)'
      BY <2>1, <3>1, <3>2 DEF Receipted
    <3>4. Kept'
      BY <1>2, <2>1, <3>3 DEF Kept, Referenced, Bytes
    <3>5. \A h \in Procs : staging[h].files = {}
      BY <1>7, <2>1 DEF Collecting
    <3>6. StagedAsPlanned'
      BY <2>1, <3>5 DEF StagedAsPlanned
    <3>7. QED  BY <1>4, <2>2, <3>4, <3>6
  <2>5. QED  BY <1>9, <2>3, <2>4 DEF CollectFiles
<1>10. CASE MakeDir(p)
  <2>1. /\ \A h \in Procs : staging[h].files = {}
        /\ g \in Procs /\ UNCHANGED <<disk, entry, plan, receipts>>
        /\ staging' = staging \/ staging' = [staging EXCEPT ![g].dir = TRUE]
    BY <1>5, <1>6, <1>7, <1>10 DEF MakeDir, AtPC, Applying, Preparing
  <2>2. \A h \in Procs : staging'[h].files = {}
    BY <1>1, <2>1 DEF StagingType
  <2>3. cmd'[p].pc \in {"rollback", "writeReceipt"} /\ cmd'[p].plan = cmd[p].plan
    BY <1>1, <1>10 DEF MakeDir, Goto, Command
  <2>4. OnlyStaged(cmd[p].plan)' = {}
    BY <1>5, <2>1, <2>2, <2>3 DEF OnlyStaged
  <2>5. DeletesSpare(p)'
    BY <2>3, <2>4 DEF DeletesSpare, AtPC
  <2>6. QED  BY <1>3, <2>1, <2>2, <2>5
<1>11. CASE WriteReceipt(p)
  <2>1. /\ \A h \in Procs : staging[h].files = {}
        /\ g \in Procs /\ UNCHANGED <<disk, entry, plan, receipts>>
        /\ staging' = [staging EXCEPT ![g].dir = TRUE, ![g].receipt = TRUE]
    BY <1>5, <1>6, <1>7, <1>11 DEF WriteReceipt, AtPC, Applying, Preparing
  <2>2. \A h \in Procs : staging'[h].files = {}
    BY <1>1, <2>1 DEF StagingType
  <2>3. cmd'[p].pc = "gcStage" /\ cmd'[p].plan = g /\ cmd'[p].listed = plan[g].items
    BY <1>1, <1>5, <1>11 DEF WriteReceipt, Command
  <2>4. OnlyStaged(cmd[p].plan)' = {}
    BY <2>1, <2>2, <2>3 DEF OnlyStaged
  <2>5. DeletesSpare(p)'
    BY <2>1, <2>3, <2>4 DEF DeletesSpare, AtPC
  <2>6. QED  BY <1>3, <2>1, <2>2, <2>5
<1>12. CASE GcStage(p)
  <2>1. /\ AtPC(p, "gcStage") /\ g \in Procs /\ UNCHANGED <<entry, plan, receipts>>
        /\ cmd[p].listed \subseteq plan[g].items /\ OnlyStaged(g) \subseteq cmd[p].moved
    BY <1>2, <1>5, <1>6, <1>12 DEF GcStage, AtPC, DeletesSpare, Applying, Staging
  <2>2. CASE /\ UNCHANGED disk /\ \E l \in {"gcCommit", "rollback"} : Goto(p, l)
             /\ staging' = staging \/ staging' = [staging EXCEPT ![g].dir = TRUE]
    <3>1. /\ cmd'[p].pc \in {"gcCommit", "rollback"} /\ cmd'[p].plan = g
          /\ cmd'[p].moved = cmd[p].moved
      BY <1>1, <1>5, <2>2 DEF Goto, Command
    <3>2. \A h \in Procs : staging'[h].files = staging[h].files
      BY <1>1, <2>1, <2>2 DEF StagingType
    <3>3. OnlyStaged(g)' \subseteq cmd[p].moved
      BY <2>1, <2>2, <3>2 DEF OnlyStaged
    <3>4. DeletesSpare(p)'
      BY <3>1, <3>3 DEF DeletesSpare, AtPC
    <3>5. QED  BY <1>3, <2>1, <2>2, <3>2, <3>4
  <2>3. ASSUME NEW f \in cmd[p].listed, f \in disk, disk' = disk \ {f},
               staging' = [staging EXCEPT ![g].dir = TRUE, ![g].files = @ \cup {f}],
               cmd' = [cmd EXCEPT ![p].listed = @ \ {f}, ![p].moved = @ \cup {f}]
        PROVE  Kept' /\ StagedAsPlanned' /\ DeletesSpare(p)'
    <3>1. staging'[g].files = staging[g].files \cup {f} /\ \A h \in Procs \ {g} : staging'[h] = staging[h]
      BY <1>1, <2>1, <2>3 DEF StagingType
    <3>2. /\ cmd'[p].pc = "gcStage" /\ cmd'[p].plan = g
          /\ cmd'[p].listed = cmd[p].listed \ {f} /\ cmd'[p].moved = cmd[p].moved \cup {f}
      BY <1>1, <1>5, <2>1, <2>3 DEF Command, AtPC
    <3>3. \A b \in Blobs : Bytes(b) => Bytes(b)'
      BY <2>1, <2>3, <3>1 DEF Bytes
    <3>4. Kept'
      BY <1>2, <2>1, <3>3, KeptIf DEF Referenced
    <3>5. StagedAsPlanned'
      BY <1>2, <2>1, <2>3, <3>1 DEF StagedAsPlanned
    <3>6. OnlyStaged(g)' \subseteq cmd[p].moved \cup {f}
      BY <2>1, <2>3, <3>1 DEF OnlyStaged
    <3>7. DeletesSpare(p)'
      BY <2>1, <3>2, <3>6 DEF DeletesSpare, AtPC
    <3>8. QED  BY <3>4, <3>5, <3>7
  <2>4. QED  BY <1>5, <1>12, <2>2, <2>3 DEF GcStage
<1>13. CASE GcCommit(p)
  <2>1. /\ AtPC(p, "gcCommit") /\ g \in Procs /\ UNCHANGED <<disk, staging, entry>>
        /\ plan' = [plan EXCEPT ![g].state = "applied"] /\ receipts' = [receipts EXCEPT ![g] = @ + 1]
    BY <1>5, <1>6, <1>13 DEF GcCommit, AtPC, Applying, Staging
  <2>2. \A h \in Procs : plan'[h].items = plan[h].items
    BY <2>1 DEF TypeInv, StoresOK
  <2>3. receipts'[g] > 0 /\ \A h \in Procs : receipts[h] > 0 => receipts'[h] > 0
    BY <1>1, <2>1
  <2>4. Kept' /\ StagedAsPlanned'
    BY <1>2, <2>1, <2>2, <2>3 DEF Kept, StagedAsPlanned, Referenced, Bytes, Receipted
  <2>5. cmd'[p].pc = "gcDrop" /\ cmd'[p].plan = g
    BY <1>1, <1>5, <1>13 DEF GcCommit, Goto, Command
  <2>6. DeletesSpare(p)'
    BY <2>3, <2>5 DEF DeletesSpare, AtPC, OnlyStaged
  <2>7. QED  BY <2>4, <2>6
<1>14. CASE GcFails(p)
  <2>1. UNCHANGED stores /\ OnlyStaged(g) \subseteq cmd[p].moved
    BY <1>2, <1>5, <1>14 DEF GcFails, DeletesSpare, Staging
  <2>2. cmd'[p].pc = "rollback" /\ cmd'[p].plan = g /\ cmd'[p].moved = cmd[p].moved
    BY <1>1, <1>5, <1>14 DEF GcFails, Goto, Command
  <2>3. DeletesSpare(p)'
    BY <2>1, <2>2 DEF DeletesSpare, AtPC, OnlyStaged, stores
  <2>4. QED  BY <1>3, <2>1, <2>3 DEF stores
<1>15. CASE GcDrop(p)
  <2>1. /\ g \in Procs /\ UNCHANGED <<disk, entry, plan, receipts>>
        /\ staging' = [staging EXCEPT ![g] = NoStaging]
    BY <1>5, <1>6, <1>15 DEF GcDrop, AtPC, Applying, Staging
  <2>2. OnlyStaged(g) = {}
    <3>1. CASE AtPC(p, "gcDrop")
      BY <1>2, <1>5, <3>1 DEF DeletesSpare, OnlyStaged
    <3>2. CASE AtPC(p, "rollbackDrop")
      BY <1>2, <1>5, <3>2 DEF DeletesSpare, Staging
    <3>3. QED  BY <1>15, <3>1, <3>2 DEF GcDrop
  <2>3. Kept' /\ StagedAsPlanned'
    BY <1>1, <1>2, <2>1, <2>2, DropKeeps
  <2>4. cmd'[p].pc = "release"
    BY <1>1, <1>15 DEF GcDrop, Goto, Command
  <2>5. QED  BY <1>4, <2>3, <2>4
<1>16. CASE Rollback(p)
  <2>1. /\ AtPC(p, "rollback") /\ g \in Procs /\ UNCHANGED <<entry, plan, receipts>>
        /\ OnlyStaged(g) \subseteq cmd[p].moved
    BY <1>2, <1>5, <1>6, <1>16 DEF Rollback, AtPC, DeletesSpare, Applying, Staging
  <2>2. CASE cmd[p].moved = {} /\ Goto(p, "rollbackDrop") /\ UNCHANGED <<disk, staging>>
    <3>1. cmd'[p].pc = "rollbackDrop" /\ cmd'[p].plan = g /\ cmd'[p].moved = {}
      BY <1>1, <1>5, <2>2 DEF Goto, Command
    <3>2. OnlyStaged(g)' = {}
      BY <2>1, <2>2 DEF OnlyStaged
    <3>3. DeletesSpare(p)'
      BY <3>1, <3>2 DEF DeletesSpare, AtPC
    <3>4. QED  BY <1>3, <2>1, <2>2, <3>3
  <2>3. ASSUME NEW f \in cmd[p].moved, MoveBack(g, f), cmd' = [cmd EXCEPT ![p].moved = @ \ {f}]
        PROVE  Kept' /\ StagedAsPlanned' /\ DeletesSpare(p)'
    <3>1. /\ Kept' /\ StagedAsPlanned'
          /\ OnlyStaged(g)' \subseteq OnlyStaged(g) \ {f}
      BY <1>1, <1>2, <2>1, <2>3, MovesBackKeep
    <3>2. cmd'[p].pc = "rollback" /\ cmd'[p].plan = g /\ cmd'[p].moved = cmd[p].moved \ {f}
      BY <1>1, <1>5, <2>1, <2>3 DEF Command, AtPC
    <3>3. DeletesSpare(p)'
      BY <2>1, <3>1, <3>2 DEF DeletesSpare, AtPC
    <3>4. QED  BY <3>1, <3>3
  <2>4. QED  BY <1>5, <1>16, <2>2, <2>3 DEF Rollback
<1>17. QED  BY <1>8, <1>9, <1>10, <1>11, <1>12, <1>13, <1>14, <1>15, <1>16 DEF CollectGarbage

LEMMA BytesStep ==
  ASSUME TypeInv, Serial, Alone, StagedIsFound, PlansAreMadeOnce, BytesAreKept, [Next]_vars
  PROVE  BytesAreKept'
<1>1. ASSUME NEW p \in Procs, StartCommand(p)
      PROVE  BytesAreKept'
  <2>1. UNCHANGED stores
    BY <1>1, StartFrame
  <2>2. Kept' /\ StagedAsPlanned'
    BY <2>1 DEF stores, BytesAreKept, Kept, StagedAsPlanned, Referenced, Bytes, Receipted
  <2>3. QED  BY <1>1, <2>2, StartKeeps, OthersRest DEF BytesAreKept, Kept, StagedAsPlanned
<1>2. ASSUME NEW p \in Procs, Work(p)
      PROVE  BytesAreKept'
  <2>1. Kept' /\ StagedAsPlanned' /\ DeletesSpare(p)'
    BY <1>2, ArchiveKeeps, PurgeKeeps, RecoverKeeps, CollectKeeps DEF Work
  <2>2. QED  BY <1>2, <2>1, OthersRest DEF BytesAreKept, Kept, StagedAsPlanned
<1>3. QED  BY <1>1, <1>2, AsideKeeps, NextSplits

-----------------------------------------------------------------------------

LEMMA InitInv == Init => Inv
<1> SUFFICES ASSUME Init
             PROVE  Inv
  OBVIOUS
<1>1. /\ \A p \in Procs : at[p] = "out" /\ cmd[p].pc = "idle" /\ cmd[p].kind = "none"
      /\ \A p \in Procs : plan[p].state = "none" /\ receipts[p] = 0 /\ staging[p].files = {}
      /\ lockFile.by = Null
  BY DEF Init, LockInit, NoCmd, NoPlan, NoStaging, NoFile
<1>2. PlansAreMadeOnce
  <2>1. \A g \in Procs : ~(receipts[g] > 0)
    BY <1>1
  <2>2. QED  BY <1>1, <2>1 DEF PlansAreMadeOnce
<1>3. Alone /\ LockOwned
  BY <1>1, LockAssumption DEF Alone, Running, LockOwned
<1>4. StagedIsFound
  BY <1>1 DEF StagedIsFound, FindsStaged, AtPC, Collecting, Preparing
<1>5. BytesAreKept
  <2>1. \A b \in Blobs : Referenced(b) => Home(b) \in disk
    <3>1. PICK orphans \in SUBSET Blobs : blobRows = orphans \cup UNION {entry[s] : s \in Sources}
      BY DEF Init
    <3>2. \A b \in Blobs : Referenced(b) => b \in blobRows
      BY <3>1 DEF Referenced
    <3>3. QED  BY <3>2 DEF Init
  <2>2. \A b \in Blobs : Referenced(b) => Bytes(b)
    BY <2>1 DEF Bytes, Home
  <2>3. \A p \in Procs : DeletesSpare(p)
    BY <1>1 DEF DeletesSpare, AtPC, Staging
  <2>4. QED  BY <1>1, <2>2, <2>3 DEF BytesAreKept
<1>6. QED  BY <1>2, <1>3, <1>4, <1>5, InitType DEF Inv, SerialInv

LEMMA NextInv == Inv /\ [Next]_vars => Inv'
<1> SUFFICES ASSUME Inv, [Next]_vars
             PROVE  Inv'
  OBVIOUS
<1>1. TypeInv' /\ PlansAreMadeOnce'
  BY TypeStep, PlansStep DEF Inv
<1>2. UNCHANGED width
  BY StartFrame, WorkFrame, AsideFrame, NextSplits DEF Inv
<1>3. ASSUME Serial
      PROVE  SerialInv'
  BY <1>3, AloneStep, LockOwnedStep, StagedStep, BytesStep DEF Inv, SerialInv
<1>4. QED  BY <1>1, <1>2, <1>3 DEF Inv, Serial

LEMMA Invariant == Spec => []Inv
  BY InitInv, NextInv, PTL DEF Spec

\* However a command that ran alone was cut short, the next one takes the
\* maintenance lock: a lock file that is there belongs to a dead process.
THEOREM LoneCommandGetsTheLock == Spec => []LoneCommandIsNotRefused
<1>1. Inv => LoneCommandIsNotRefused
  BY DEF Inv, SerialInv, LockOwned, LoneCommandIsNotRefused
<1>2. QED  BY <1>1, Invariant, PTL

\* No command that has recovered finds a file in a staging directory, and a
\* staged file is covered by a receipt.json the next recovery can read.
THEOREM RecoveryIsComplete == Spec => []RecoveryLeavesNothing
<1>1. Inv => RecoveryLeavesNothing
  BY DEF Inv, SerialInv, StagedIsFound, FindsStaged, RecoveryLeavesNothing, Collecting, Preparing
<1>2. QED  BY <1>1, Invariant, PTL

\* Archive, purge, gc, recovery and checkpoint, each killed wherever it may be,
\* never lose the last bytes of a referenced blob without a receipt for it.
THEOREM LossesAreReceipted == Spec => []EveryLossIsReceipted
<1>1. Inv => EveryLossIsReceipted
  BY DEF Inv, SerialInv, BytesAreKept, EveryLossIsReceipted
<1>2. QED  BY <1>1, Invariant, PTL

=============================================================================
