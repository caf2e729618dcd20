--------------------------- MODULE IngestionProofs ---------------------------
(***************************************************************************)
(* Proofs about Ingestion and the archive it extends, for any number of    *)
(* processes, any files, settings, chunker and bounds.                     *)
(*                                                                         *)
(* The first part is about the chain of snapshots: a step begins a command *)
(* (Begun), moves one on without touching snapshots (Moved), numbers a     *)
(* snapshot (Numbers), or belongs to nobody (Aside).  The second part is   *)
(* about the text index and what asks cite; it holds for any ActiveRows    *)
(* and any Publish.                                                        *)
(*                                                                         *)
(* The third part unfolds the publish transaction: the alignment of chunks *)
(* (ExactTakes, ReplacedReplaces), a new revision, a file, the renames,    *)
(* the files that are gone, and the whole (PublishDoes).  Its loops are    *)
(* recursive functions; RecursionSolved gives each its values, StepByStep  *)
(* what they keep, and both rest on the well-foundedness of the naturals.  *)
(* The fourth part is about what commands hold, the runs and the receipts, *)
(* and puts it all together (ContentInv).                                  *)
(***************************************************************************)
EXTENDS Ingestion, FiniteSetTheorems, FunctionTheorems, SequenceTheorems,
        WellFoundedInduction, TLAPS

ProcFields == {"pc", "no", "build", "batch", "todo", "hash", "copy", "base", "prev",
               "snap", "config", "rows"}
SrcFields == {"state", "archive", "snap", "ingestion", "run"}

\* The fields of the records, and the bounds of the counters.
Shape ==
    /\ DOMAIN proc = Procs
    /\ \A p \in Procs : DOMAIN proc[p] = ProcFields /\ proc[p].prev \in 0 .. Len(snaps)
    /\ \E S : snaps \in Seq(S)
    /\ DOMAIN src = SrcFields
    /\ DOMAIN manifests = 1 .. MaxCommands
    /\ limit \in Limits /\ commands \in 0 .. limit.commands

\* The n-th snapshot has sequence n and follows the one before; the last is current.
Chain ==
    /\ \A s \in 1 .. Len(snaps) : snaps[s].seq = s /\ snaps[s].prev = s - 1
    /\ src.snap = Len(snaps)

\* Where a command may yet publish a snapshot, and where it has numbered one.
Unpublished == {"find", "register", "mark", "list", "hash", "copy", "compare", "number",
                "manifest", "publish"}
Numbered == {"unchanged", "manifest", "publish"}

Alone == lone => \A p, q \in Procs : ~ At(p, "idle") /\ ~ At(q, "idle") => p = q

\* A lone command that may yet publish was counted and no snapshot is its.
Counted ==
    lone => /\ Len(snaps) <= commands
            /\ \A p \in Procs : proc[p].pc \in Unpublished => Len(snaps) + 1 <= commands

\* A lone command compares with the current snapshot and numbers after it, and from
\* the manifest on the file of its sequence is its own.
LoneArchive(p) ==
    /\ At(p, "number") => proc[p].base = Entries(Len(snaps))
    /\ proc[p].pc \in Numbered =>
         proc[p].prev = Len(snaps) /\ proc[p].base = Entries(Len(snaps))
    /\ At(p, "publish") => manifests[Len(snaps) + 1] = proc[p].no

LoneChain ==
    lone => /\ \A p \in Procs : LoneArchive(p)
            /\ \A s \in 1 .. Len(snaps) : /\ manifests[s] = snaps[s].by
                                          /\ snaps[s].base = Entries(s - 1)

ChainInv == Shape /\ Chain /\ Alone /\ Counted /\ LoneChain

-----------------------------------------------------------------------------
\* What Append does to a sequence.
LEMMA SeqGrows ==
    ASSUME NEW S, NEW s \in Seq(S), NEW x
    PROVE  /\ Append(s, x) \in Seq(S \cup {x})
           /\ Len(s) \in Nat /\ DOMAIN s = 1 .. Len(s)
           /\ Len(Append(s, x)) = Len(s) + 1
           /\ \A i \in 1 .. Len(s) : Append(s, x)[i] = s[i]
           /\ Append(s, x)[Len(s) + 1] = x
<1> DEFINE T == S \cup {x}
<1>1. s \in Seq(T) /\ x \in T
  <2>1. Len(s) \in Nat /\ s \in [1 .. Len(s) -> S]
    OBVIOUS
  <2>2. s \in [1 .. Len(s) -> T]
    BY <2>1
  <2> QED
    BY <2>1, <2>2
<1> HIDE DEF T
<1>2. Append(s, x) \in Seq(T)
  BY <1>1
<1>3. /\ Len(s) \in Nat /\ DOMAIN s = 1 .. Len(s)
      /\ Len(Append(s, x)) = Len(s) + 1
      /\ \A i \in 1 .. Len(s) : Append(s, x)[i] = s[i]
      /\ Append(s, x)[Len(s) + 1] = x
  BY <1>1
<1> QED
  BY <1>2, <1>3 DEF T

LEMMA SnapsLength ==
    ASSUME Shape
    PROVE  Len(snaps) \in Nat /\ DOMAIN snaps = 1 .. Len(snaps)
BY SeqGrows DEF Shape

OthersRest(p) == \A q \in Procs : q # p => proc'[q] = proc[q]

LEMMA SetDoes ==
    ASSUME Shape, NEW p \in Procs, NEW r, Set(p, r)
    PROVE  DOMAIN proc' = Procs /\ proc'[p] = r /\ OthersRest(p)
BY DEF Shape, Set, OthersRest

\* What an update leaves as it was.
SameButPc(p, r) ==
    /\ DOMAIN r = ProcFields
    /\ r.no = proc[p].no /\ r.build = proc[p].build /\ r.batch = proc[p].batch
    /\ r.todo = proc[p].todo /\ r.hash = proc[p].hash /\ r.copy = proc[p].copy
    /\ r.base = proc[p].base /\ r.prev = proc[p].prev /\ r.snap = proc[p].snap
    /\ r.config = proc[p].config /\ r.rows = proc[p].rows

LEMMA GotoDoes ==
    ASSUME Shape, NEW p \in Procs, NEW pc, Goto(p, pc)
    PROVE  /\ DOMAIN proc' = Procs /\ OthersRest(p)
           /\ proc'[p].pc = pc /\ SameButPc(p, proc'[p])
<1>1. DOMAIN proc' = Procs /\ OthersRest(p) /\ proc'[p] = [proc[p] EXCEPT !.pc = pc]
  BY SetDoes DEF Goto
<1>2. DOMAIN proc[p] = ProcFields
  BY DEF Shape
<1> QED
  BY <1>1, <1>2 DEF SameButPc, ProcFields

LEMMA IdleShape ==
    /\ DOMAIN Idle = ProcFields /\ Idle.pc = "idle" /\ Idle.prev = 0
    /\ Idle.batch = NoBatch /\ Idle.snap = 0 /\ Idle.config = 0
BY DEF Idle, ProcFields

\* A step of p that leaves the snapshots, the manifests and the counts alone and
\* does not number a snapshot.
Moved(p) ==
    /\ UNCHANGED <<snaps, manifests, commands, limit, lone>>
    /\ src'.snap = src.snap /\ DOMAIN src' = SrcFields
    /\ DOMAIN proc' = Procs /\ OthersRest(p)
    /\ DOMAIN proc'[p] = ProcFields /\ proc'[p].prev \in {0, proc[p].prev}
    /\ ~ At(p, "idle")
    /\ proc'[p].pc \notin {"number"} \cup Numbered
    /\ proc'[p].pc \in Unpublished => proc[p].pc \in Unpublished

LEMMA EarlyArchiveMoves ==
    ASSUME Shape, NEW p \in Procs,
           FindSource(p) \/ RegisterSource(p) \/ ListFiles(p) \/ MarkArchiving(p)
    PROVE  Moved(p)
<1> DOMAIN src = SrcFields /\ DOMAIN proc[p] = ProcFields
  BY DEF Shape
<1>1. CASE FindSource(p)
  BY <1>1, GotoDoes DEF FindSource, Moved, tree, At, SameButPc, Numbered, Unpublished
<1>2. CASE RegisterSource(p)
  BY <1>2, GotoDoes DEF RegisterSource, Moved, tree, At, SameButPc, Numbered, Unpublished,
                        SrcFields
<1>3. CASE ListFiles(p)
  <2>1. proc'[p] = [proc[p] EXCEPT !.pc = "mark", !.todo = Listed]
    BY <1>3, SetDoes DEF ListFiles
  <2>2. DOMAIN proc' = Procs /\ OthersRest(p)
    BY <1>3, SetDoes DEF ListFiles
  <2> QED
    BY <1>3, <2>1, <2>2 DEF ListFiles, Moved, tree, At, Numbered, Unpublished, ProcFields
<1>4. CASE MarkArchiving(p)
  BY <1>4, GotoDoes DEF MarkArchiving, Moved, tree, At, SameButPc, Numbered, Unpublished,
                        SrcFields
<1> QED
  BY <1>1, <1>2, <1>3, <1>4

LEMMA FileMoves ==
    ASSUME Shape, NEW p \in Procs, HashFile(p) \/ CopyFile(p)
    PROVE  Moved(p)
<1> DOMAIN src = SrcFields /\ DOMAIN proc[p] = ProcFields
  BY DEF Shape
<1>1. CASE HashFile(p)
  <2> DEFINE f == Min2(proc[p].todo)
  <2>1. CASE file[f] = 0
    <3>1. Goto(p, "archiveFailed")
      BY <1>1, <2>1 DEF HashFile, Goto
    <3> QED
      BY <1>1, <3>1, GotoDoes DEF HashFile, Moved, tree, At, SameButPc, Numbered, Unpublished
  <2>2. CASE file[f] # 0
    <3>1. Set(p, [proc[p] EXCEPT !.pc = "copy", !.hash = file[f]])
      BY <1>1, <2>2 DEF HashFile
    <3> HIDE DEF f
    <3>2. proc'[p] = [proc[p] EXCEPT !.pc = "copy", !.hash = file[f]]
      BY <3>1, SetDoes
    <3>3. DOMAIN proc' = Procs /\ OthersRest(p)
      BY <3>1, SetDoes
    <3> QED
      BY <1>1, <3>2, <3>3 DEF HashFile, Moved, tree, At, Numbered, Unpublished, ProcFields
  <2> QED
    BY <2>1, <2>2
<1>2. CASE CopyFile(p)
  <2>0. At(p, "copy") /\ UNCHANGED <<tree, snaps, manifests, src, commands, lone>>
    BY <1>2 DEF CopyFile
  <2>1. CASE Goto(p, "archiveFailed")
    BY <2>0, <2>1, GotoDoes DEF Moved, tree, At, SameButPc, Numbered, Unpublished
  <2>2. CASE ~ Goto(p, "archiveFailed")
    <3>0. PICK pc \in {"compare", "hash"} :
             \E left, f, h :
                Set(p, [proc[p] EXCEPT !.pc = pc, !.todo = left, !.hash = 0, !.copy[f] = h])
      BY <1>2, <2>2 DEF CopyFile
    <3>1. PICK left, f, h :
             Set(p, [proc[p] EXCEPT !.pc = pc, !.todo = left, !.hash = 0, !.copy[f] = h])
      BY <3>0
    <3>2. proc'[p] = [proc[p] EXCEPT !.pc = pc, !.todo = left, !.hash = 0, !.copy[f] = h]
      BY <3>1, SetDoes
    <3>3. DOMAIN proc' = Procs /\ OthersRest(p)
      BY <3>1, SetDoes
    <3> QED
      BY <2>0, <3>2, <3>3 DEF Moved, tree, At, Numbered, Unpublished, ProcFields
  <2> QED
    BY <2>1, <2>2
<1> QED
  BY <1>1, <1>2

LEMMA LateArchiveMoves ==
    ASSUME Shape, NEW p \in Procs,
           FinishUnchanged(p) \/ MarkFailed(p) \/ ArchiveThrows(p) \/ Kill(p)
    PROVE  Moved(p)
<1> DOMAIN src = SrcFields /\ DOMAIN proc[p] = ProcFields
  BY DEF Shape
<1>1. CASE FinishUnchanged(p)
  <2>1. DOMAIN proc' = Procs /\ OthersRest(p)
    BY <1>1, SetDoes DEF FinishUnchanged, Archived
  <2>2. proc'[p] = IF proc[p].build
           THEN [Idle EXCEPT !.pc = "ingest", !.batch = proc[p].batch, !.snap = proc[p].prev]
           ELSE Idle
    BY <1>1, SetDoes DEF FinishUnchanged, Archived
  <2>3. DOMAIN proc'[p] = ProcFields /\ proc'[p].pc \in {"ingest", "idle"}
        /\ proc'[p].prev = 0
    BY <2>2, IdleShape DEF ProcFields
  <2> QED
    BY <1>1, <2>1, <2>3 DEF FinishUnchanged, Moved, tree, At, Numbered, Unpublished, SrcFields
<1>2. CASE MarkFailed(p)
  BY <1>2, SetDoes, IdleShape
     DEF MarkFailed, Moved, tree, At, Numbered, Unpublished, SrcFields
<1>3. CASE ArchiveThrows(p)
  BY <1>3, GotoDoes
     DEF ArchiveThrows, Moved, tree, At, Numbered, Unpublished, SameButPc, Archiving
<1>4. CASE Kill(p)
  BY <1>4, SetDoes, IdleShape DEF Kill, Moved, tree, At, Numbered, Unpublished
<1> QED
  BY <1>1, <1>2, <1>3, <1>4

LEMMA RunMoves ==
    ASSUME Shape, NEW p \in Procs,
           BeginRun(p) \/ MarkStage(p) \/ ParseEntries(p) \/ CommitPublication(p)
    PROVE  Moved(p)
<1> DOMAIN src = SrcFields /\ DOMAIN proc[p] = ProcFields
  BY DEF Shape
<1>1. CASE BeginRun(p)
  <2>1. DOMAIN proc' = Procs /\ OthersRest(p)
    BY <1>1, SetDoes DEF BeginRun
  <2>2. PICK pc \in {"reindex", "parsing"} :
           proc'[p] = [proc[p] EXCEPT !.config = config, !.pc = pc]
    BY <1>1, SetDoes DEF BeginRun
  <2>3. DOMAIN proc'[p] = ProcFields /\ proc'[p].prev = proc[p].prev /\ proc'[p].pc = pc
    BY <2>2 DEF ProcFields
  <2>4. src'.snap = src.snap /\ DOMAIN src' = SrcFields
    BY <1>1 DEF BeginRun, SrcFields
  <2> QED
    BY <1>1, <2>1, <2>3, <2>4 DEF BeginRun, Moved, rest, tree, At, Numbered, Unpublished
<1>2. CASE MarkStage(p)
  <2>1. PICK pc \in {"ingestFailed", "parse", "chunked", "publishing", "commit"} :
           Goto(p, pc)
    BY <1>2 DEF MarkStage, Stages, StageAfter
  <2>2. src'.snap = src.snap /\ DOMAIN src' = SrcFields
    BY <1>2 DEF MarkStage, SrcFields
  <2>3. proc[p].pc # "idle"
    BY <1>2 DEF MarkStage, Stages
  <2> QED
    BY <1>2, <2>1, <2>2, <2>3, GotoDoes
       DEF MarkStage, Moved, rest, tree, At, Numbered, Unpublished, SameButPc
<1>3. CASE ParseEntries(p)
  BY <1>3, GotoDoes
     DEF ParseEntries, Moved, tree, At, Numbered, Unpublished, SameButPc
<1>4. CASE CommitPublication(p)
  BY <1>4, GotoDoes
     DEF CommitPublication, Moved, rest, tree, At, Numbered, Unpublished, SameButPc
<1> QED
  BY <1>1, <1>2, <1>3, <1>4

LEMMA IngestedDoes ==
    ASSUME Shape, NEW p \in Procs, Ingested(p)
    PROVE  /\ DOMAIN proc' = Procs /\ OthersRest(p)
           /\ DOMAIN proc'[p] = ProcFields /\ proc'[p].prev \in {0, proc[p].prev}
           /\ \/ proc'[p].pc = "idle"
              \/ /\ proc'[p].pc = "receipt" /\ proc[p].batch # NoBatch
                 /\ proc'[p].batch = proc[p].batch /\ proc'[p].snap = proc[p].snap
                 /\ proc'[p].config = proc[p].config
<1>1. DOMAIN proc' = Procs /\ OthersRest(p)
  BY SetDoes DEF Ingested
<1>2. DOMAIN proc[p] = ProcFields
  BY DEF Shape
<1>3. CASE proc[p].batch # NoBatch
  <2>1. proc'[p] = [proc[p] EXCEPT !.rows = {}, !.hash = 0, !.pc = "receipt"]
    BY <1>3, SetDoes DEF Ingested
  <2> QED
    BY <1>1, <1>2, <1>3, <2>1 DEF ProcFields
<1>4. CASE proc[p].batch = NoBatch
  <2>1. proc'[p] = Idle
    BY <1>4, SetDoes DEF Ingested
  <2> QED
    BY <1>1, <2>1, IdleShape
<1> QED
  BY <1>3, <1>4

LEMMA IndexMoves ==
    ASSUME Shape, NEW p \in Procs,
           ReadIndexRows(p) \/ WriteIndexRows(p) \/ CompleteRun(p) \/ FailRun(p)
    PROVE  Moved(p)
<1> DOMAIN src = SrcFields /\ DOMAIN proc[p] = ProcFields
  BY DEF Shape
<1>1. CASE ReadIndexRows(p)
  <2>1. DOMAIN proc' = Procs /\ OthersRest(p)
    BY <1>1, SetDoes DEF ReadIndexRows
  <2>2. PICK pc \in {"write", "rewrite", "swap"} :
           proc'[p] = [proc[p] EXCEPT !.rows = IndexRows(p), !.hash = index.no, !.pc = pc]
    BY <1>1, SetDoes DEF ReadIndexRows, ProcFields
  <2>3. DOMAIN proc'[p] = ProcFields /\ proc'[p].prev = proc[p].prev /\ proc'[p].pc = pc
    BY <2>2 DEF ProcFields
  <2> QED
    BY <1>1, <2>1, <2>3 DEF ReadIndexRows, Moved, rest, tree, At, Numbered, Unpublished
<1>2. CASE WriteIndexRows(p)
  <2>0. proc[p].pc # "idle" /\ UNCHANGED <<rest, src>>
    BY <1>2 DEF WriteIndexRows
  <2>1. CASE At(p, "write")
    <3>1. Set(p, [proc[p] EXCEPT !.rows = {}, !.hash = 0, !.pc = "invalidate"])
      BY <1>2, <2>1 DEF WriteIndexRows
    <3>2. DOMAIN proc' = Procs /\ OthersRest(p)
          /\ proc'[p] = [proc[p] EXCEPT !.rows = {}, !.hash = 0, !.pc = "invalidate"]
      BY <3>1, SetDoes
    <3>3. DOMAIN proc'[p] = ProcFields /\ proc'[p].prev = proc[p].prev
          /\ proc'[p].pc = "invalidate"
      BY <3>2 DEF ProcFields
    <3> QED
      BY <2>0, <3>2, <3>3 DEF Moved, rest, tree, At, Numbered, Unpublished
  <2>2. CASE ~ At(p, "write")
    BY <1>2, <2>0, <2>2, IngestedDoes
       DEF WriteIndexRows, Moved, rest, tree, At, Numbered, Unpublished
  <2> QED
    BY <2>1, <2>2
<1>3. CASE CompleteRun(p)
  <2>0. At(p, "complete") /\ UNCHANGED rest
    BY <1>3 DEF CompleteRun
  <2>1. src'.snap = src.snap /\ DOMAIN src' = SrcFields
    BY <1>3 DEF CompleteRun, SrcFields
  <2>2. Ingested(p) \/ Goto(p, "ingestFailed")
    BY <1>3 DEF CompleteRun
  <2>3. CASE Ingested(p)
    BY <2>0, <2>1, <2>3, IngestedDoes DEF Moved, rest, tree, At, Numbered, Unpublished
  <2>4. CASE Goto(p, "ingestFailed")
    BY <2>0, <2>1, <2>4, GotoDoes
       DEF Moved, rest, tree, At, Numbered, Unpublished, SameButPc
  <2> QED
    BY <2>2, <2>3, <2>4
<1>4. CASE FailRun(p)
  BY <1>4, SetDoes, IdleShape
     DEF FailRun, Moved, rest, tree, At, Numbered, Unpublished, SrcFields
<1> QED
  BY <1>1, <1>2, <1>3, <1>4

LEMMA LateIngestMoves ==
    ASSUME Shape, NEW p \in Procs,
           RecordReceipt(p) \/ RecordRenames(p) \/ IngestThrows(p) \/ Invalidate(p)
    PROVE  Moved(p)
<1> DOMAIN src = SrcFields /\ DOMAIN proc[p] = ProcFields
  BY DEF Shape
<1>1. CASE RecordReceipt(p)
  BY <1>1, GotoDoes
     DEF RecordReceipt, Moved, tree, At, Numbered, Unpublished, SameButPc
<1>2. CASE RecordRenames(p)
  BY <1>2, SetDoes, IdleShape
     DEF RecordRenames, Moved, rest, tree, At, Numbered, Unpublished
<1>3. CASE IngestThrows(p)
  <2>1. DOMAIN proc' = Procs /\ OthersRest(p)
        /\ proc'[p] = [proc[p] EXCEPT !.pc = "ingestFailed", !.rows = {}, !.hash = 0]
    BY <1>3, SetDoes DEF IngestThrows
  <2>2. DOMAIN proc'[p] = ProcFields /\ proc'[p].prev = proc[p].prev
        /\ proc'[p].pc = "ingestFailed"
    BY <2>1 DEF ProcFields
  <2>3. proc[p].pc # "idle"
    BY <1>3 DEF IngestThrows, Stages
  <2> QED
    BY <1>3, <2>1, <2>2, <2>3 DEF IngestThrows, Moved, tree, At, Numbered, Unpublished
<1>4. CASE Invalidate(p)
  BY <1>4, GotoDoes
     DEF Invalidate, Moved, rest, tree, At, Numbered, Unpublished, SameButPc
<1> QED
  BY <1>1, <1>2, <1>3, <1>4

\* A step that starts a command on p.
Begun(p) ==
    /\ UNCHANGED <<snaps, manifests, src, limit>>
    /\ At(p, "idle") /\ commands < limit.commands /\ commands' = commands + 1
    /\ lone' = (lone /\ Busy = {})
    /\ DOMAIN proc' = Procs /\ OthersRest(p)
    /\ DOMAIN proc'[p] = ProcFields /\ proc'[p].prev = 0
    /\ proc'[p].pc \in {"find", "list", "ingest", "rebuild"}
    /\ proc'[p].config = 0

LEMMA StartedDoes ==
    ASSUME Shape, NEW p \in Procs, NEW r, Started(p, r),
           DOMAIN r = ProcFields, r.prev = 0, r.config = 0,
           r.pc \in {"find", "list", "ingest", "rebuild"},
           UNCHANGED <<tree, snaps, manifests, src>>
    PROVE  Begun(p) /\ proc'[p].snap = r.snap /\ proc'[p].batch = r.batch
                    /\ proc'[p].pc = r.pc
<1>1. DOMAIN proc' = Procs /\ OthersRest(p) /\ proc'[p] = [r EXCEPT !.no = commands + 1]
  BY SetDoes DEF Started
<1> QED
  BY <1>1 DEF Started, Begun, tree, ProcFields

LEMMA StartsBegin ==
    ASSUME Shape, NEW p \in Procs,
           StartAdd(p) \/ StartSync(p) \/ StartAccept(p) \/ StartBuild(p) \/ StartRebuild(p)
    PROVE  Begun(p)
<1> USE IdleShape
<1>1. CASE StartAdd(p)
  <2>1. PICK build \in BOOLEAN :
           Started(p, [Idle EXCEPT !.build = build, !.todo = Listed, !.pc = "find"])
    BY <1>1 DEF StartAdd
  <2> DEFINE r == [Idle EXCEPT !.build = build, !.todo = Listed, !.pc = "find"]
  <2>2. DOMAIN r = ProcFields /\ r.prev = 0 /\ r.config = 0 /\ r.pc = "find"
    BY DEF ProcFields
  <2> HIDE DEF r
  <2> QED
    BY <1>1, <2>1, <2>2, StartedDoes DEF StartAdd, r
<1>2. CASE StartSync(p)
  <2> DEFINE r == [Idle EXCEPT !.build = TRUE, !.pc = "list"]
  <2>2. DOMAIN r = ProcFields /\ r.prev = 0 /\ r.config = 0 /\ r.pc = "list"
    BY DEF ProcFields
  <2> QED
    BY <1>2, <2>2, StartedDoes DEF StartSync
<1>3. CASE StartAccept(p)
  <2>1. PICK b \in Batches :
           LET s == receipts[b]
               r == [Idle EXCEPT !.build = TRUE, !.batch = b]
           IN Started(p, IF s # 0 THEN [r EXCEPT !.pc = "ingest", !.snap = s]
                         ELSE [r EXCEPT !.pc = "list"])
    BY <1>3 DEF StartAccept
  <2> DEFINE r == [Idle EXCEPT !.build = TRUE, !.batch = b]
             r1 == [r EXCEPT !.pc = "ingest", !.snap = receipts[b]]
             r2 == [r EXCEPT !.pc = "list"]
  <2>2. DOMAIN r1 = ProcFields /\ r1.prev = 0 /\ r1.config = 0 /\ r1.pc = "ingest"
    BY DEF ProcFields
  <2>3. DOMAIN r2 = ProcFields /\ r2.prev = 0 /\ r2.config = 0 /\ r2.pc = "list"
    BY DEF ProcFields
  <2>4. Started(p, r1) \/ Started(p, r2)
    BY <2>1
  <2> HIDE DEF r1, r2
  <2> QED
    BY <1>3, <2>2, <2>3, <2>4, StartedDoes DEF StartAccept
<1>4. CASE StartBuild(p)
  <2>1. PICK s \in DOMAIN snaps : Started(p, [Idle EXCEPT !.pc = "ingest", !.snap = s])
    BY <1>4 DEF StartBuild
  <2> DEFINE r == [Idle EXCEPT !.pc = "ingest", !.snap = s]
  <2>2. DOMAIN r = ProcFields /\ r.prev = 0 /\ r.config = 0 /\ r.pc = "ingest"
    BY DEF ProcFields
  <2> QED
    BY <1>4, <2>1, <2>2, StartedDoes DEF StartBuild
<1>5. CASE StartRebuild(p)
  <2> DEFINE r == [Idle EXCEPT !.pc = "rebuild"]
  <2>2. DOMAIN r = ProcFields /\ r.prev = 0 /\ r.config = 0 /\ r.pc = "rebuild"
    BY DEF ProcFields
  <2> QED
    BY <1>5, <2>2, StartedDoes DEF StartRebuild
<1> QED
  BY <1>1, <1>2, <1>3, <1>4, <1>5

LEMMA BeginKeepsChain ==
    ASSUME ChainInv, NEW p \in Procs, Begun(p)
    PROVE  ChainInv'
<1> USE DEF ChainInv
<1>0. Len(snaps) \in Nat /\ DOMAIN snaps = 1 .. Len(snaps)
  BY SnapsLength
<1>c. commands \in Nat /\ commands < limit.commands /\ commands' = commands + 1
      /\ limit' = limit /\ limit.commands \in Nat
  BY ArchiveBounds DEF Begun, Shape
<1>1. Shape'
  BY <1>0, <1>c DEF Begun, Shape, OthersRest
<1>2. Chain'
  BY DEF Begun, Chain
<1>3. Alone'
  BY DEF Begun, Alone, OthersRest, Busy, At
<1>4. Counted'
  <2>1. ASSUME lone' PROVE lone /\ Len(snaps) <= commands
    BY <2>1 DEF Begun, Counted
  <2> QED
    BY <2>1, <1>0, <1>c DEF Begun, Counted
<1>5. LoneChain'
  <2>1. ASSUME lone', NEW q \in Procs PROVE LoneArchive(q)'
    <3>1. CASE q = p
      BY <3>1 DEF Begun, LoneArchive, At, Numbered
    <3>2. CASE q # p
      BY <2>1, <3>2 DEF Begun, OthersRest, LoneChain, LoneArchive, At, Entries
    <3> QED
      BY <3>1, <3>2
  <2> QED
    BY <2>1 DEF Begun, LoneChain, Entries
<1> QED
  BY <1>1, <1>2, <1>3, <1>4, <1>5

LEMMA MoveKeepsChain ==
    ASSUME ChainInv, NEW p \in Procs, Moved(p)
    PROVE  ChainInv'
<1> USE DEF ChainInv
<1>0. Len(snaps) \in Nat /\ DOMAIN snaps = 1 .. Len(snaps)
  BY SnapsLength
<1>1. Shape'
  BY <1>0 DEF Moved, Shape, OthersRest
<1>2. Chain'
  BY DEF Moved, Chain
<1>3. Alone'
  BY DEF Moved, Alone, OthersRest, At
<1>4. Counted'
  BY DEF Moved, Counted, OthersRest
<1>5. LoneChain'
  <2>1. ASSUME lone', NEW q \in Procs PROVE LoneArchive(q)'
    <3>1. CASE q = p
      BY <3>1 DEF Moved, LoneArchive, At, Numbered
    <3>2. CASE q # p
      BY <2>1, <3>2 DEF Moved, OthersRest, LoneChain, LoneArchive, At, Entries
    <3> QED
      BY <3>1, <3>2
  <2> QED
    BY <2>1 DEF Moved, LoneChain, Entries
<1> QED
  BY <1>1, <1>2, <1>3, <1>4, <1>5

LEMMA CompareKeepsChain ==
    ASSUME ChainInv, NEW p \in Procs, Compare(p)
    PROVE  ChainInv'
<1> USE DEF ChainInv
<1>0. Len(snaps) \in Nat /\ DOMAIN snaps = 1 .. Len(snaps)
  BY SnapsLength
<1>a. DOMAIN proc' = Procs /\ OthersRest(p)
      /\ proc'[p] = [proc[p] EXCEPT !.pc = "number", !.base = Entries(src.snap)]
  BY SetDoes DEF Compare
<1>b. /\ DOMAIN proc'[p] = ProcFields /\ proc'[p].prev = proc[p].prev
      /\ proc'[p].pc = "number" /\ proc'[p].base = Entries(src.snap)
  <2> DOMAIN proc[p] = ProcFields
    BY DEF Shape
  <2> QED
    BY <1>a DEF ProcFields
<1>c. UNCHANGED <<snaps, manifests, src, commands, limit, lone>> /\ At(p, "compare")
  BY DEF Compare, tree
<1>1. Shape'
  BY <1>0, <1>a, <1>b, <1>c DEF Shape, OthersRest
<1>2. Chain'
  BY <1>c DEF Chain
<1>3. Alone'
  BY <1>a, <1>b, <1>c DEF Alone, OthersRest, At
<1>4. Counted'
  BY <1>a, <1>b, <1>c DEF Counted, OthersRest, At, Unpublished
<1>5. LoneChain'
  <2>1. ASSUME lone', NEW q \in Procs PROVE LoneArchive(q)'
    <3>1. CASE q = p
      BY <3>1, <1>b, <1>c DEF LoneArchive, At, Numbered, Chain, Entries
    <3>2. CASE q # p
      BY <2>1, <3>2, <1>a, <1>c DEF OthersRest, LoneChain, LoneArchive, At, Entries
    <3> QED
      BY <3>1, <3>2
  <2> QED
    BY <2>1, <1>c DEF LoneChain, Entries
<1> QED
  BY <1>1, <1>2, <1>3, <1>4, <1>5

LEMMA NumberKeepsChain ==
    ASSUME ChainInv, NEW p \in Procs, Number(p)
    PROVE  ChainInv'
<1> USE DEF ChainInv
<1>0. Len(snaps) \in Nat /\ DOMAIN snaps = 1 .. Len(snaps) /\ src.snap = Len(snaps)
  BY SnapsLength DEF Chain
<1>a. DOMAIN proc' = Procs /\ OthersRest(p)
  BY SetDoes DEF Number
<1>b. PICK pc \in {"unchanged", "manifest"} :
        proc'[p] = [proc[p] EXCEPT !.pc = pc, !.prev = src.snap]
  BY SetDoes DEF Number
<1>c. /\ DOMAIN proc'[p] = ProcFields /\ proc'[p].prev = src.snap
      /\ proc'[p].pc = pc /\ proc'[p].base = proc[p].base
  <2> DOMAIN proc[p] = ProcFields
    BY DEF Shape
  <2> QED
    BY <1>b DEF ProcFields
<1>d. UNCHANGED <<snaps, manifests, src, commands, limit, lone>> /\ At(p, "number")
  BY DEF Number, tree
<1>1. Shape'
  BY <1>0, <1>a, <1>c, <1>d DEF Shape, OthersRest
<1>2. Chain'
  BY <1>d DEF Chain
<1>3. Alone'
  BY <1>a, <1>c, <1>d DEF Alone, OthersRest, At
<1>4. Counted'
  BY <1>a, <1>c, <1>d DEF Counted, OthersRest, At, Unpublished
<1>5. LoneChain'
  <2>1. ASSUME lone', NEW q \in Procs PROVE LoneArchive(q)'
    <3>1. CASE q = p
      <4>1. proc[p].base = Entries(Len(snaps))
        BY <2>1, <1>d DEF LoneChain, LoneArchive
      <4> QED
        BY <3>1, <4>1, <1>0, <1>c, <1>d DEF LoneArchive, At, Numbered, Entries
    <3>2. CASE q # p
      BY <2>1, <3>2, <1>a, <1>d DEF OthersRest, LoneChain, LoneArchive, At, Entries
    <3> QED
      BY <3>1, <3>2
  <2> QED
    BY <2>1, <1>d DEF LoneChain, Entries
<1> QED
  BY <1>1, <1>2, <1>3, <1>4, <1>5

\* The number that a command in hand gives is the one after its predecessor.
LEMMA NextIsAfterPrevious ==
    ASSUME Shape, Chain, NEW p \in Procs
    PROVE  NextSequence(p) = proc[p].prev + 1
<1>1. proc[p].prev \in 0 .. Len(snaps) /\ Len(snaps) \in Nat
  BY SnapsLength DEF Shape
<1>2. CASE proc[p].prev = 0
  BY <1>2 DEF NextSequence, Sequence
<1>3. CASE proc[p].prev # 0
  <2>1. snaps[proc[p].prev].seq = proc[p].prev
    BY <1>1, <1>3 DEF Chain
  <2> QED
    BY <1>1, <1>3, <2>1 DEF NextSequence, Sequence
<1> QED
  BY <1>2, <1>3

LEMMA ManifestKeepsChain ==
    ASSUME ChainInv, NEW p \in Procs, WriteManifest(p)
    PROVE  ChainInv'
<1> USE DEF ChainInv
<1>0. Len(snaps) \in Nat /\ DOMAIN snaps = 1 .. Len(snaps)
  BY SnapsLength
<1>a. DOMAIN proc' = Procs /\ OthersRest(p) /\ proc'[p].pc = "publish"
      /\ SameButPc(p, proc'[p])
  BY GotoDoes DEF WriteManifest
<1>b. UNCHANGED <<snaps, src, commands, limit, lone>> /\ At(p, "manifest")
  BY DEF WriteManifest, tree
<1>n. proc[p].prev \in 0 .. Len(snaps)
  BY DEF Shape
<1>m. manifests' = [manifests EXCEPT ![proc[p].prev + 1] = proc[p].no]
  BY NextIsAfterPrevious DEF WriteManifest
<1>1. Shape'
  BY <1>0, <1>a, <1>b, <1>m DEF Shape, OthersRest, SameButPc
<1>2. Chain'
  BY <1>b DEF Chain
<1>3. Alone'
  BY <1>a, <1>b DEF Alone, OthersRest, At
<1>4. Counted'
  BY <1>a, <1>b DEF Counted, OthersRest, At, Unpublished
<1>5. ASSUME lone' PROVE LoneChain'
  <2>1. /\ proc[p].prev = Len(snaps) /\ proc[p].base = Entries(Len(snaps))
        /\ \A s \in 1 .. Len(snaps) : /\ manifests[s] = snaps[s].by
                                      /\ snaps[s].base = Entries(s - 1)
    BY <1>5, <1>b DEF LoneChain, LoneArchive, At, Numbered
  <2>2. Len(snaps) + 1 \in 1 .. MaxCommands
    <3>1. Len(snaps) + 1 <= commands
      BY <1>5, <1>b DEF Counted, At, Unpublished
    <3>2. commands \in Nat /\ commands <= limit.commands
          /\ limit.commands \in 0 .. MaxCommands /\ MaxCommands \in Nat
      BY ArchiveBounds DEF Shape
    <3> QED
      BY <1>0, <3>1, <3>2
  <2>3. /\ manifests'[Len(snaps) + 1] = proc[p].no
        /\ \A s \in 1 .. Len(snaps) : manifests'[s] = manifests[s]
    BY <2>1, <2>2, <1>0, <1>m DEF Shape
  <2>4. ASSUME NEW q \in Procs PROVE LoneArchive(q)'
    <3>1. CASE q = p
      BY <3>1, <2>1, <2>3, <1>a, <1>b DEF LoneArchive, At, Numbered, Entries, SameButPc
    <3>2. CASE q # p
      <4>1. At(q, "idle")
        BY <3>2, <1>5, <1>b DEF Alone, At
      <4> QED
        BY <3>2, <4>1, <1>a DEF OthersRest, LoneArchive, At, Numbered
    <3> QED
      BY <3>1, <3>2
  <2> QED
    BY <2>1, <2>3, <2>4, <1>b DEF LoneChain, Entries
<1> QED
  BY <1>1, <1>2, <1>3, <1>4, <1>5 DEF LoneChain

LEMMA ArchivedDoes ==
    ASSUME Shape, NEW p \in Procs, NEW s, Archived(p, s)
    PROVE  /\ DOMAIN proc' = Procs /\ OthersRest(p)
           /\ DOMAIN proc'[p] = ProcFields /\ proc'[p].prev = 0
           /\ proc'[p].pc \in {"ingest", "idle"} /\ proc'[p].config = 0
           /\ proc'[p].pc = "ingest" => proc'[p].snap = s
<1>1. DOMAIN proc' = Procs /\ OthersRest(p)
  BY SetDoes DEF Archived
<1>2. proc'[p] = IF proc[p].build
         THEN [Idle EXCEPT !.pc = "ingest", !.batch = proc[p].batch, !.snap = s] ELSE Idle
  BY SetDoes DEF Archived
<1> QED
  BY <1>1, <1>2, IdleShape DEF ProcFields

\* Publication: the constraint on sequences lets a snapshot in only behind the last.
LEMMA PublishKeepsChain ==
    ASSUME ChainInv, NEW p \in Procs, PublishSnapshot(p), FreeSequence(NextSequence(p))
    PROVE  ChainInv'
<1> USE DEF ChainInv
<1> DEFINE new == [seq |-> NextSequence(p), prev |-> proc[p].prev, entries |-> proc[p].copy,
                   base |-> proc[p].base, by |-> proc[p].no]
<1>0. /\ Len(snaps) \in Nat /\ DOMAIN snaps = 1 .. Len(snaps)
      /\ proc[p].prev \in 0 .. Len(snaps) /\ NextSequence(p) = proc[p].prev + 1
  BY SnapsLength, NextIsAfterPrevious DEF Shape
<1>1. proc[p].prev = Len(snaps)
  <2>1. SUFFICES ASSUME proc[p].prev # Len(snaps) PROVE FALSE
    OBVIOUS
  <2>2. proc[p].prev + 1 \in 1 .. Len(snaps)
    BY <2>1, <1>0
  <2>3. snaps[proc[p].prev + 1].seq = proc[p].prev + 1
    BY <2>2 DEF Chain
  <2> QED
    BY <2>2, <2>3, <1>0 DEF FreeSequence
<1>2. /\ new.seq = Len(snaps) + 1 /\ new.prev = Len(snaps)
      /\ new.base = proc[p].base /\ new.by = proc[p].no
  BY <1>0, <1>1
<1>3. snaps' = Append(snaps, new)
  BY DEF PublishSnapshot
<1> HIDE DEF new
<1>4. /\ \E S : snaps' \in Seq(S)
      /\ Len(snaps') = Len(snaps) + 1
      /\ \A i \in 1 .. Len(snaps) : snaps'[i] = snaps[i]
      /\ snaps'[Len(snaps) + 1] = new
  <2>1. PICK S : snaps \in Seq(S)
    BY DEF Shape
  <2>2. snaps' \in Seq(S \cup {new})
    BY <1>3, <2>1, SeqGrows
  <2>3. Len(snaps') = Len(snaps) + 1
    BY <1>3, <2>1, SeqGrows
  <2>4. /\ \A i \in 1 .. Len(snaps) : snaps'[i] = snaps[i]
        /\ snaps'[Len(snaps) + 1] = new
    BY <1>3, <2>1, SeqGrows
  <2> QED
    BY <2>2, <2>3, <2>4
<1>5. /\ UNCHANGED <<manifests, commands, limit, lone>> /\ At(p, "publish")
      /\ src'.snap = Len(snaps) + 1 /\ DOMAIN src' = SrcFields
  BY DEF PublishSnapshot, tree, Shape, SrcFields
<1>6. /\ DOMAIN proc' = Procs /\ OthersRest(p)
      /\ DOMAIN proc'[p] = ProcFields /\ proc'[p].prev = 0
      /\ proc'[p].pc \in {"ingest", "idle"}
  BY ArchivedDoes DEF PublishSnapshot
<1>7. Shape'
  BY <1>0, <1>4, <1>5, <1>6 DEF Shape, OthersRest
<1>8. Chain'
  <2>1. ASSUME NEW s \in 1 .. Len(snaps') PROVE snaps'[s].seq = s /\ snaps'[s].prev = s - 1
    <3>1. CASE s = Len(snaps) + 1
      BY <3>1, <1>0, <1>2, <1>4
    <3>2. CASE s # Len(snaps) + 1
      <4>1. s \in 1 .. Len(snaps)
        BY <3>2, <1>0, <1>4
      <4> QED
        BY <4>1, <1>4 DEF Chain
    <3> QED
      BY <3>1, <3>2
  <2> QED
    BY <2>1, <1>4, <1>5 DEF Chain
<1>9. Alone'
  BY <1>5, <1>6 DEF Alone, OthersRest, At
<1>o. ASSUME lone', NEW q \in Procs, q # p PROVE proc'[q].pc = "idle"
  BY <1>o, <1>5, <1>6 DEF Alone, OthersRest, At
<1>10. Counted'
  <2>1. ASSUME lone' PROVE Len(snaps') <= commands'
    BY <2>1, <1>4, <1>5 DEF Counted, At, Unpublished
  <2>2. ASSUME lone', NEW q \in Procs PROVE proc'[q].pc \notin Unpublished
    BY <2>2, <1>o, <1>6 DEF Unpublished
  <2> QED
    BY <2>1, <2>2 DEF Counted
<1>11. LoneChain'
  <2>1. ASSUME lone', NEW q \in Procs PROVE LoneArchive(q)'
    BY <2>1, <1>o, <1>6 DEF LoneArchive, At, Numbered
  <2>2. ASSUME lone', NEW s \in 1 .. Len(snaps')
        PROVE  manifests'[s] = snaps'[s].by /\ snaps'[s].base = Entries(s - 1)'
    <3>0. LoneArchive(p) /\ lone
          /\ \A i \in 1 .. Len(snaps) : manifests[i] = snaps[i].by
                                        /\ snaps[i].base = Entries(i - 1)
      BY <2>2, <1>5 DEF LoneChain
    <3>1. ASSUME NEW i \in 0 .. Len(snaps) PROVE Entries(i)' = Entries(i)
      BY <3>1, <1>0, <1>4 DEF Entries
    <3>2. CASE s = Len(snaps) + 1
      <4>1. proc[p].base = Entries(Len(snaps)) /\ manifests[Len(snaps) + 1] = proc[p].no
        BY <3>0, <1>5 DEF LoneArchive, At, Numbered
      <4>2. s - 1 = Len(snaps) /\ Len(snaps) \in 0 .. Len(snaps)
        BY <1>0, <3>2
      <4>3. Entries(s - 1)' = Entries(Len(snaps))
        BY <4>2, <3>1
      <4> QED
        BY <4>1, <4>3, <3>2, <1>2, <1>4, <1>5
    <3>3. CASE s # Len(snaps) + 1
      <4>1. s \in 1 .. Len(snaps) /\ s - 1 \in 0 .. Len(snaps)
        BY <3>3, <1>0, <1>4
      <4>2. Entries(s - 1)' = Entries(s - 1)
        BY <4>1, <3>1
      <4> QED
        BY <4>1, <4>2, <3>0, <1>4, <1>5
    <3> QED
      BY <3>2, <3>3
  <2> QED
    BY <2>1, <2>2 DEF LoneChain
<1> QED
  BY <1>7, <1>8, <1>9, <1>10, <1>11

LEMMA RefusedMoves ==
    ASSUME Shape, NEW p \in Procs, PublishSnapshot(p), ~ FreeSequence(NextSequence(p))
    PROVE  Moved(p)
<1> DOMAIN src = SrcFields /\ DOMAIN proc[p] = ProcFields
  BY DEF Shape
<1> QED
  BY GotoDoes DEF PublishSnapshot, Moved, tree, At, Numbered, Unpublished, SameButPc

\* A step of a user, of ask or of nobody.
Aside ==
    /\ UNCHANGED <<proc, snaps, manifests, src, limit, commands>>
    /\ lone' => lone

LEMMA AsideKeepsChain ==
    ASSUME ChainInv, Aside
    PROVE  ChainInv'
<1> USE DEF ChainInv, Aside
<1>1. Shape' /\ Chain' /\ Alone' /\ Counted'
  BY DEF Shape, Chain, Alone, Counted, At
<1>2. LoneChain'
  <2>1. ASSUME lone', NEW q \in Procs PROVE LoneArchive(q)'
    BY <2>1 DEF LoneChain, LoneArchive, At, Entries
  <2> QED
    BY <2>1 DEF LoneChain, Entries
<1> QED
  BY <1>1, <1>2

\* The steps of Next, sorted by what they do to the archive.
Numbers(p) == Compare(p) \/ Number(p) \/ WriteManifest(p)
              \/ (PublishSnapshot(p) /\ FreeSequence(NextSequence(p)))

LEMMA NextSplits ==
    ASSUME Shape, [Next]_vars
    PROVE  \/ Aside
           \/ \E p \in Procs : Begun(p) \/ Moved(p) \/ Numbers(p)
<1>1. CASE Edit \/ ChangeConfig \/ (AskStep /\ UNCHANGED archiveVars) \/ UNCHANGED vars
  BY <1>1 DEF Edit, ChangeConfig, archiveVars, Aside, vars
<1>2. ASSUME NEW p \in Procs,
             ArchiveStep(p) \/ StartBuild(p) \/ StartRebuild(p) \/ IngestStep(p) \/ Invalidate(p)
      PROVE  Begun(p) \/ Moved(p) \/ Numbers(p)
  <2>1. CASE StartAdd(p) \/ StartSync(p) \/ StartAccept(p) \/ StartBuild(p) \/ StartRebuild(p)
    BY <2>1, StartsBegin
  <2>2. CASE FindSource(p) \/ RegisterSource(p) \/ ListFiles(p) \/ MarkArchiving(p)
    BY <2>2, EarlyArchiveMoves
  <2>3. CASE HashFile(p) \/ CopyFile(p)
    BY <2>3, FileMoves
  <2>4. CASE FinishUnchanged(p) \/ MarkFailed(p) \/ ArchiveThrows(p) \/ Kill(p)
    BY <2>4, LateArchiveMoves
  <2>5. CASE Compare(p) \/ Number(p) \/ WriteManifest(p)
    BY <2>5 DEF Numbers
  <2>6. CASE PublishSnapshot(p)
    BY <2>6, RefusedMoves DEF Numbers
  <2>7. CASE BeginRun(p) \/ MarkStage(p) \/ ParseEntries(p) \/ CommitPublication(p)
    BY <2>7, RunMoves
  <2>8. CASE ReadIndexRows(p) \/ WriteIndexRows(p) \/ CompleteRun(p) \/ FailRun(p)
    BY <2>8, IndexMoves
  <2>9. CASE RecordReceipt(p) \/ RecordRenames(p) \/ IngestThrows(p) \/ Invalidate(p)
    BY <2>9, LateIngestMoves
  <2> QED
    BY <1>2, <2>1, <2>2, <2>3, <2>4, <2>5, <2>6, <2>7, <2>8, <2>9 DEF ArchiveStep, IngestStep
<1>3. CASE UNCHANGED vars
  BY <1>1, <1>3
<1>4. CASE Next
  <2>1. CASE Edit \/ ChangeConfig \/ (AskStep /\ UNCHANGED archiveVars)
    BY <1>1, <2>1
  <2>2. CASE \E p \in Procs : ArchiveStep(p) \/ StartBuild(p) \/ StartRebuild(p)
                              \/ IngestStep(p) \/ Invalidate(p)
    BY <1>2, <2>2
  <2> QED
    BY <1>4, <2>1, <2>2 DEF Next
<1> QED
  BY <1>3, <1>4

LEMMA ChainInit ==
    ASSUME Init
    PROVE  ChainInv
<1>1. /\ proc = [p \in Procs |-> Idle] /\ snaps = <<>> /\ src = NewSource
      /\ manifests = [n \in 1 .. MaxCommands |-> 0] /\ commands = 0 /\ limit \in Limits
  BY DEF Init, ArchiveInit
<1>2. Len(snaps) = 0 /\ \E S : snaps \in Seq(S)
  BY <1>1
<1>3. \A p \in Procs : proc[p] = Idle
  BY <1>1
<1>4. limit.commands \in 0 .. MaxCommands
  BY <1>1, ArchiveBounds
<1>5. Shape
  BY <1>1, <1>2, <1>3, <1>4, IdleShape, ArchiveBounds DEF Shape, NewSource, SrcFields
<1>6. Chain /\ Alone /\ Counted /\ LoneChain
  BY <1>1, <1>2, <1>3, IdleShape
     DEF Chain, NewSource, Alone, Counted, LoneChain, LoneArchive, At, Numbered, Unpublished
<1> QED
  BY <1>5, <1>6 DEF ChainInv

LEMMA ChainStep ==
    ASSUME ChainInv, [Next]_vars
    PROVE  ChainInv'
<1>1. Aside \/ \E p \in Procs : Begun(p) \/ Moved(p) \/ Numbers(p)
  BY NextSplits DEF ChainInv
<1>2. ASSUME NEW p \in Procs, Begun(p) PROVE ChainInv'
  BY <1>2, BeginKeepsChain
<1>3. ASSUME NEW p \in Procs, Moved(p) PROVE ChainInv'
  BY <1>3, MoveKeepsChain
<1>4. ASSUME NEW p \in Procs, Numbers(p) PROVE ChainInv'
  BY <1>4, CompareKeepsChain, NumberKeepsChain, ManifestKeepsChain, PublishKeepsChain
     DEF Numbers
<1> QED
  BY <1>1, <1>2, <1>3, <1>4, AsideKeepsChain

\* However archives overlap, fail and are killed, the snapshots of a Source are one
\* chain without gaps or forks that ends in the current one; and when commands run
\* one after another, the manifest file of each sequence is the one its snapshot was
\* published with, and its changes were computed against the snapshot before it.
THEOREM OneChain == Spec => []SnapshotsAreAChain
<1>1. ChainInv => SnapshotsAreAChain
  <2> SUFFICES ASSUME ChainInv PROVE SnapshotsAreAChain
    OBVIOUS
  <2> USE DEF ChainInv
  <2>1. DOMAIN snaps = 1 .. Len(snaps)
    BY SnapsLength
  <2> QED
    BY <2>1 DEF Chain, LoneChain, SnapshotsAreAChain
<1> QED
  BY <1>1, ChainInit, ChainStep, PTL DEF Spec

-----------------------------------------------------------------------------
IndexShape ==
    /\ DOMAIN index = {"no", "rows"} /\ DOMAIN context = {"state", "rows"}
    /\ DOMAIN ask = {"pc", "found", "rows"}

\* Where a command is ingesting, and where it holds rows for the index.
Ingesting == Stages \cup {"parse", "commit", "index", "write", "invalidate", "complete",
                          "ingestFailed"}
Holding == {"write", "rewrite", "swap"}

\* A lone command writes the rows that are active, to the generation it read, and
\* the Source is not ready until it completes.
Indexing(p) ==
    /\ proc[p].pc \in Holding => proc[p].rows = ActiveRows(kb) /\ proc[p].hash = index.no
    /\ proc[p].pc \in {"invalidate", "complete"} => index.rows = ActiveRows(kb)
    /\ proc[p].pc \in Ingesting => src.ingestion # "ready"

IndexInv ==
    lone => /\ \A p \in Procs : Indexing(p)
            /\ src.ingestion = "ready" => index.rows = ActiveRows(kb)

SearchInv == ChainInv /\ IndexShape /\ IndexInv

\* A step of p that neither publishes nor holds rows for the index.
Apart(p) ==
    /\ UNCHANGED <<kb, index, ask, context, answer>>
    /\ quiet' => quiet
    /\ lone' => lone
    /\ OthersRest(p)
    /\ proc'[p].pc \notin Holding \cup {"invalidate", "complete"}
    /\ src'.ingestion = "ready" => src.ingestion = "ready"
    /\ proc'[p].pc \in Ingesting => proc[p].pc \in Ingesting \/ src'.ingestion # "ready"

Elsewhere == UNCHANGED <<index, knowledge, retrieval, quiet>>

LEMMA StartsAreApart ==
    ASSUME Shape, NEW p \in Procs, Elsewhere,
           StartAdd(p) \/ StartSync(p) \/ StartAccept(p) \/ StartBuild(p) \/ StartRebuild(p)
    PROVE  Apart(p)
<1>1. Begun(p)
  BY StartsBegin
<1> QED
  BY <1>1 DEF Begun, Apart, Elsewhere, knowledge, retrieval, Holding, Ingesting, Stages

LEMMA ArchivingIsApart ==
    ASSUME Shape, NEW p \in Procs, Elsewhere,
           \/ FindSource(p) \/ RegisterSource(p) \/ ListFiles(p) \/ MarkArchiving(p)
           \/ HashFile(p) \/ CopyFile(p) \/ Compare(p) \/ Number(p)
           \/ FinishUnchanged(p) \/ WriteManifest(p) \/ PublishSnapshot(p)
           \/ MarkFailed(p) \/ ArchiveThrows(p) \/ Kill(p)
    PROVE  Apart(p)
<1> DOMAIN src = SrcFields /\ DOMAIN proc[p] = ProcFields
  BY DEF Shape
<1>0. UNCHANGED <<kb, index, ask, context, answer>> /\ (quiet' => quiet)
  BY DEF Elsewhere, knowledge, retrieval
<1>l. lone' = lone
  BY DEF FindSource, RegisterSource, ListFiles, MarkArchiving, HashFile, CopyFile, Compare,
         Number, FinishUnchanged, WriteManifest, PublishSnapshot, MarkFailed, ArchiveThrows, Kill
<1>s. src'.ingestion \in {src.ingestion, "not_started"}
  <2>1. CASE RegisterSource(p) \/ MarkArchiving(p) \/ FinishUnchanged(p) \/ MarkFailed(p)
    BY <2>1 DEF RegisterSource, MarkArchiving, FinishUnchanged, MarkFailed, SrcFields
  <2>2. CASE PublishSnapshot(p)
    BY <2>2 DEF PublishSnapshot, SrcFields
  <2>3. CASE \/ FindSource(p) \/ ListFiles(p) \/ HashFile(p) \/ CopyFile(p) \/ Compare(p)
             \/ Number(p) \/ WriteManifest(p) \/ ArchiveThrows(p) \/ Kill(p)
    BY <2>3 DEF FindSource, ListFiles, HashFile, CopyFile, Compare, Number, WriteManifest,
                ArchiveThrows, Kill
  <2> QED
    BY <2>1, <2>2, <2>3
<1>p. OthersRest(p) /\ proc'[p].pc \in {"idle", "ingest", "archiveFailed", "publish"}
                                        \cup Unpublished \cup Numbered
  <2>1. CASE \E pc \in {"archiveFailed", "publish"} \cup Unpublished : Goto(p, pc)
    BY <2>1, GotoDoes DEF Unpublished
  <2>2. CASE \E s : Archived(p, s)
    BY <2>2, ArchivedDoes
  <2>3. CASE Set(p, Idle)
    BY <2>3, SetDoes, IdleShape
  <2>4. CASE ListFiles(p) \/ Compare(p) \/ Number(p)
    <3>1. CASE ListFiles(p)
      <4>1. OthersRest(p) /\ proc'[p] = [proc[p] EXCEPT !.pc = "mark", !.todo = Listed]
        BY <3>1, SetDoes DEF ListFiles
      <4> QED
        BY <4>1 DEF Unpublished, ProcFields
    <3>2. CASE Compare(p)
      <4>1. /\ OthersRest(p)
            /\ proc'[p] = [proc[p] EXCEPT !.pc = "number", !.base = Entries(src.snap)]
        BY <3>2, SetDoes DEF Compare
      <4> QED
        BY <4>1 DEF Unpublished, ProcFields
    <3>3. CASE Number(p)
      <4>1. PICK pc \in {"unchanged", "manifest"} :
               Set(p, [proc[p] EXCEPT !.pc = pc, !.prev = src.snap])
        BY <3>3 DEF Number
      <4>2. OthersRest(p) /\ proc'[p] = [proc[p] EXCEPT !.pc = pc, !.prev = src.snap]
        BY <4>1, SetDoes
      <4> QED
        BY <4>2 DEF Numbered, ProcFields
    <3> QED
      BY <2>4, <3>1, <3>2, <3>3
  <2>5. CASE HashFile(p) \/ CopyFile(p)
    <3>1. CASE Goto(p, "archiveFailed")
      BY <3>1, <2>1
    <3>2. CASE HashFile(p) /\ ~ Goto(p, "archiveFailed")
      <4> DEFINE f == Min2(proc[p].todo)
      <4>1. Set(p, [proc[p] EXCEPT !.pc = "copy", !.hash = file[f]])
        BY <3>2 DEF HashFile, Goto
      <4> HIDE DEF f
      <4>2. OthersRest(p) /\ proc'[p] = [proc[p] EXCEPT !.pc = "copy", !.hash = file[f]]
        BY <4>1, SetDoes
      <4> QED
        BY <4>2 DEF Unpublished, ProcFields
    <3>3. CASE CopyFile(p) /\ ~ Goto(p, "archiveFailed")
      <4>0. PICK pc \in {"compare", "hash"} :
               \E left, f, h :
                  Set(p, [proc[p] EXCEPT !.pc = pc, !.todo = left, !.hash = 0, !.copy[f] = h])
        BY <3>3 DEF CopyFile
      <4>1. PICK left, f, h :
               Set(p, [proc[p] EXCEPT !.pc = pc, !.todo = left, !.hash = 0, !.copy[f] = h])
        BY <4>0
      <4>2. OthersRest(p) /\ proc'[p] = [proc[p] EXCEPT !.pc = pc, !.todo = left, !.hash = 0,
                                                       !.copy[f] = h]
        BY <4>1, SetDoes
      <4> QED
        BY <4>2 DEF Unpublished, ProcFields
    <3> QED
      BY <2>5, <3>1, <3>2, <3>3
  <2>6. CASE FindSource(p) \/ RegisterSource(p) \/ MarkArchiving(p) \/ WriteManifest(p)
             \/ ArchiveThrows(p)
    BY <2>6, <2>1
       DEF FindSource, RegisterSource, MarkArchiving, WriteManifest, ArchiveThrows, Unpublished
  <2>7. CASE FinishUnchanged(p) \/ PublishSnapshot(p)
    BY <2>7, <2>1, <2>2 DEF FinishUnchanged, PublishSnapshot
  <2>8. CASE MarkFailed(p) \/ Kill(p)
    BY <2>8, <2>3 DEF MarkFailed, Kill
  <2> QED
    BY <2>4, <2>5, <2>6, <2>7, <2>8
<1> QED
  BY <1>0, <1>l, <1>s, <1>p DEF Apart, Holding, Ingesting, Stages, Unpublished, Numbered

\* What IngestStep and Invalidate come with in Next.
Heard == quiet' = (quiet /\ ask.pc = "idle")

LEMMA StagesAreApart ==
    ASSUME Shape, NEW p \in Procs, UNCHANGED retrieval, Heard,
           \/ BeginRun(p) \/ MarkStage(p) \/ ParseEntries(p) \/ FailRun(p)
           \/ RecordReceipt(p) \/ RecordRenames(p) \/ IngestThrows(p)
    PROVE  Apart(p)
<1> DOMAIN src = SrcFields /\ DOMAIN proc[p] = ProcFields
  BY DEF Shape
<1>0. UNCHANGED <<ask, context, answer>> /\ (quiet' => quiet)
  BY DEF retrieval, Heard
<1> USE DEF Apart, Holding, Ingesting, Stages
<1>1. CASE BeginRun(p)
  <2>1. CASE Reusable(<<proc[p].snap, config>>)
    <3>1. OthersRest(p) /\ proc'[p] = [proc[p] EXCEPT !.config = config, !.pc = "reindex"]
      BY <1>1, <2>1, SetDoes DEF BeginRun
    <3>2. proc'[p].pc = "reindex"
      BY <3>1 DEF ProcFields
    <3> QED
      BY <1>0, <1>1, <2>1, <3>1, <3>2 DEF BeginRun, rest
  <2>2. CASE ~ Reusable(<<proc[p].snap, config>>)
    <3>1. OthersRest(p) /\ proc'[p] = [proc[p] EXCEPT !.config = config, !.pc = "parsing"]
      BY <1>1, <2>2, SetDoes DEF BeginRun
    <3>2. proc'[p].pc = "parsing"
      BY <3>1 DEF ProcFields
    <3>3. src'.ingestion = "queued"
      BY <1>1, <2>2 DEF BeginRun, SrcFields
    <3> QED
      BY <1>0, <1>1, <3>1, <3>2, <3>3 DEF BeginRun, rest
  <2> QED
    BY <2>1, <2>2
<1>2. CASE MarkStage(p)
  <2>1. PICK pc \in {"ingestFailed", "parse", "chunked", "publishing", "commit"} :
           Goto(p, pc)
    BY <1>2 DEF MarkStage, StageAfter
  <2>2. src'.ingestion \in {src.ingestion, "running"} /\ proc[p].pc \in Ingesting
    BY <1>2 DEF MarkStage, SrcFields
  <2> QED
    BY <1>0, <1>2, <2>1, <2>2, GotoDoes DEF MarkStage, rest
<1>3. CASE ParseEntries(p)
  BY <1>0, <1>3, GotoDoes DEF ParseEntries, knowledge, At
<1>4. CASE FailRun(p)
  <2>1. src'.ingestion \in {src.ingestion, "failed"}
    BY <1>4 DEF FailRun, SrcFields
  <2> QED
    BY <1>0, <1>4, <2>1, SetDoes, IdleShape DEF FailRun, rest
<1>5. CASE RecordReceipt(p)
  BY <1>0, <1>5, GotoDoes DEF RecordReceipt, knowledge
<1>6. CASE RecordRenames(p)
  BY <1>0, <1>6, SetDoes, IdleShape DEF RecordRenames, rest
<1>7. CASE IngestThrows(p)
  <2>1. OthersRest(p)
        /\ proc'[p] = [proc[p] EXCEPT !.pc = "ingestFailed", !.rows = {}, !.hash = 0]
    BY <1>7, SetDoes DEF IngestThrows
  <2>2. proc'[p].pc = "ingestFailed"
    BY <2>1 DEF ProcFields
  <2> QED
    BY <1>0, <1>7, <2>1, <2>2 DEF IngestThrows, knowledge
<1> QED
  BY <1>1, <1>2, <1>3, <1>4, <1>5, <1>6, <1>7

\* A lone command has no other beside it, before or after its step.
LEMMA LoneStep ==
    ASSUME Alone, NEW p \in Procs, ~ At(p, "idle"), OthersRest(p), lone
    PROVE  \A q \in Procs \ {p} : proc[q].pc = "idle" /\ proc'[q].pc = "idle"
BY DEF Alone, OthersRest, At

LEMMA ApartKeepsIndex ==
    ASSUME SearchInv, NEW p \in Procs, Apart(p)
    PROVE  IndexShape' /\ IndexInv'
<1>1. IndexShape'
  BY DEF SearchInv, IndexShape, Apart
<1>2. ASSUME lone', NEW q \in Procs PROVE Indexing(q)'
  <2>1. Indexing(q)
    BY <1>2 DEF SearchInv, IndexInv, Apart
  <2>2. CASE q = p
    BY <2>1, <2>2 DEF Indexing, Apart, Holding
  <2>3. CASE q # p
    BY <2>1, <2>3 DEF Indexing, Apart, OthersRest
  <2> QED
    BY <2>2, <2>3
<1>3. ASSUME lone', src'.ingestion = "ready" PROVE index'.rows = ActiveRows(kb)'
  BY <1>3 DEF SearchInv, IndexInv, Apart
<1> QED
  BY <1>1, <1>2, <1>3 DEF IndexInv

LEMMA AloneIndexing ==
    ASSUME SearchInv, NEW p \in Procs, ~ At(p, "idle"), OthersRest(p), lone' => lone,
           lone' => Indexing(p)'
    PROVE  lone' => \A q \in Procs : Indexing(q)'
<1> SUFFICES ASSUME lone', NEW q \in Procs PROVE Indexing(q)'
  OBVIOUS
<1>1. CASE q = p
  BY <1>1
<1>2. CASE q # p
  <2>1. proc'[q].pc = "idle"
    BY <1>2, LoneStep DEF SearchInv, ChainInv
  <2> QED
    BY <2>1 DEF Indexing, Holding, Ingesting, Stages
<1> QED
  BY <1>1, <1>2

LEMMA CommitKeepsIndex ==
    ASSUME SearchInv, NEW p \in Procs, CommitPublication(p), UNCHANGED retrieval
    PROVE  IndexShape' /\ IndexInv'
<1>0. At(p, "commit") /\ UNCHANGED <<src, index, lone, ask, context>>
  BY DEF CommitPublication, rest, retrieval
<1>1. IndexShape'
  BY <1>0 DEF SearchInv, IndexShape
<1>2. OthersRest(p) /\ proc'[p].pc = "index"
  BY GotoDoes DEF CommitPublication, SearchInv, ChainInv
<1>3. lone => src.ingestion # "ready"
  BY <1>0 DEF SearchInv, IndexInv, Indexing, Ingesting, At
<1>4. lone' => Indexing(p)'
  BY <1>0, <1>2, <1>3 DEF Indexing, Holding
<1>5. lone' => \A q \in Procs : Indexing(q)'
  BY <1>0, <1>2, <1>4, AloneIndexing DEF At
<1> QED
  BY <1>0, <1>1, <1>3, <1>5 DEF IndexInv

LEMMA ReadKeepsIndex ==
    ASSUME SearchInv, NEW p \in Procs, ReadIndexRows(p), UNCHANGED retrieval
    PROVE  IndexShape' /\ IndexInv'
<1>0. proc[p].pc \in {"index", "reindex", "rebuild"}
      /\ UNCHANGED <<src, index, kb, lone, ask, context>>
  BY DEF ReadIndexRows, rest, retrieval, knowledge
<1>1. IndexShape'
  BY <1>0 DEF SearchInv, IndexShape
<1> DOMAIN proc[p] = ProcFields /\ Shape
  BY DEF SearchInv, ChainInv, Shape
<1>2. OthersRest(p) /\ proc'[p] = [proc[p] EXCEPT !.rows = IndexRows(p), !.hash = index.no,
           !.pc = CASE @ = "index" -> "write" [] @ = "reindex" -> "rewrite"
                    [] @ = "rebuild" -> "swap"]
  BY SetDoes DEF ReadIndexRows
<1>3. /\ proc'[p].rows = ActiveRows(kb) /\ proc'[p].hash = index.no
      /\ proc'[p].pc \in Holding /\ (proc'[p].pc = "write" => proc[p].pc = "index")
  BY <1>0, <1>2 DEF ProcFields, IndexRows, Holding
<1>4. lone => Indexing(p)
  BY DEF SearchInv, IndexInv
<1>5. lone' => Indexing(p)'
  BY <1>0, <1>3, <1>4 DEF Indexing, Holding, Ingesting, Stages
<1>6. lone' => \A q \in Procs : Indexing(q)'
  BY <1>0, <1>2, <1>5, AloneIndexing DEF At
<1>7. lone' /\ src'.ingestion = "ready" => index'.rows = ActiveRows(kb)'
  BY <1>0 DEF SearchInv, IndexInv
<1> QED
  BY <1>1, <1>6, <1>7 DEF IndexInv

LEMMA WriteKeepsIndex ==
    ASSUME SearchInv, NEW p \in Procs, WriteIndexRows(p), UNCHANGED retrieval
    PROVE  IndexShape' /\ IndexInv'
<1>0. proc[p].pc \in Holding /\ UNCHANGED <<src, kb, lone, ask, context>>
  BY DEF WriteIndexRows, rest, retrieval, knowledge, Holding
<1> DOMAIN proc[p] = ProcFields /\ Shape /\ DOMAIN index = {"no", "rows"}
  BY DEF SearchInv, ChainInv, Shape, IndexShape
<1>1. IndexShape'
  BY <1>0 DEF SearchInv, IndexShape, WriteIndexRows
<1>2. ASSUME lone PROVE index'.rows = ActiveRows(kb)
  <2>1. proc[p].rows = ActiveRows(kb) /\ proc[p].hash = index.no
    BY <1>0, <1>2 DEF SearchInv, IndexInv, Indexing
  <2> QED
    BY <2>1 DEF WriteIndexRows
<1>3. OthersRest(p) /\ proc'[p].pc \in {"invalidate", "receipt", "idle"}
      /\ (proc'[p].pc = "invalidate" => proc[p].pc = "write")
  <2>1. CASE At(p, "write")
    <3>1. OthersRest(p)
          /\ proc'[p] = [proc[p] EXCEPT !.rows = {}, !.hash = 0, !.pc = "invalidate"]
      BY <2>1, SetDoes DEF WriteIndexRows
    <3> QED
      BY <2>1, <3>1 DEF ProcFields, At
  <2>2. CASE ~ At(p, "write")
    BY <2>2, IngestedDoes DEF WriteIndexRows
  <2> QED
    BY <2>1, <2>2
<1>4. lone => Indexing(p)
  BY DEF SearchInv, IndexInv
<1>5. lone' => Indexing(p)'
  BY <1>0, <1>2, <1>3, <1>4 DEF Indexing, Holding, Ingesting, Stages
<1>6. lone' => \A q \in Procs : Indexing(q)'
  BY <1>0, <1>3, <1>5, AloneIndexing DEF At, Holding
<1> QED
  BY <1>0, <1>1, <1>2, <1>6 DEF IndexInv

LEMMA InvalidateKeepsIndex ==
    ASSUME SearchInv, NEW p \in Procs, Invalidate(p)
    PROVE  IndexShape' /\ IndexInv'
<1>0. At(p, "invalidate") /\ UNCHANGED <<src, index, kb, lone, ask>>
  BY DEF Invalidate, rest, knowledge
<1>1. IndexShape'
  BY <1>0 DEF SearchInv, IndexShape, Invalidate, StaleContext
<1>2. OthersRest(p) /\ proc'[p].pc = "complete"
  BY GotoDoes DEF Invalidate, SearchInv, ChainInv
<1>3. lone => Indexing(p) /\ (src.ingestion = "ready" => index.rows = ActiveRows(kb))
  BY DEF SearchInv, IndexInv
<1>4. lone' => Indexing(p)'
  BY <1>0, <1>2, <1>3 DEF Indexing, Holding, Ingesting, Stages, At
<1>5. lone' => \A q \in Procs : Indexing(q)'
  BY <1>0, <1>2, <1>4, AloneIndexing DEF At
<1> QED
  BY <1>0, <1>1, <1>3, <1>5 DEF IndexInv

LEMMA CompleteKeepsIndex ==
    ASSUME SearchInv, NEW p \in Procs, CompleteRun(p), UNCHANGED retrieval
    PROVE  IndexShape' /\ IndexInv'
<1>0. At(p, "complete") /\ UNCHANGED <<index, kb, lone, ask, context>>
  BY DEF CompleteRun, rest, retrieval
<1>1. IndexShape'
  BY <1>0 DEF SearchInv, IndexShape
<1>2. /\ OthersRest(p) /\ proc'[p].pc \in {"idle", "receipt", "ingestFailed"}
      /\ proc'[p].pc = "ingestFailed" => src' = src
  <2>1. Shape
    BY DEF SearchInv, ChainInv
  <2>2. CASE runs[Run(p)].state = "publishing"
    BY <2>1, <2>2, IngestedDoes DEF CompleteRun
  <2>3. CASE runs[Run(p)].state # "publishing"
    BY <2>1, <2>3, GotoDoes DEF CompleteRun
  <2> QED
    BY <2>2, <2>3
<1>3. lone => Indexing(p)
  BY DEF SearchInv, IndexInv
<1>4. lone' => Indexing(p)'
  BY <1>0, <1>2, <1>3 DEF Indexing, Holding, Ingesting, Stages, At
<1>5. lone' => \A q \in Procs : Indexing(q)'
  BY <1>0, <1>2, <1>4, AloneIndexing DEF At
<1> QED
  BY <1>0, <1>1, <1>3, <1>5 DEF IndexInv, Indexing, At

-----------------------------------------------------------------------------
Cited == context.state = "active" \/ answer = "active"
\* Answers are valid, or will be with the next step of a command.
ReadyOrCompleting == src.ingestion = "ready" \/ \E p \in Procs : At(p, "complete")

\* With no ingestion beside it, an ask has active rows; and so has what it left, when
\* the Source is ready.
AskInv ==
    quiet => /\ ask.pc \in {"record", "answer"} => ask.rows \subseteq ActiveRows(kb)
             /\ ask.pc = "answer" => context.rows \subseteq ActiveRows(kb)
             /\ lone /\ Cited /\ ReadyOrCompleting => context.rows \subseteq ActiveRows(kb)

IngestionInv == SearchInv /\ AskInv

\* A step that leaves the knowledge and the ask alone and completes nothing.
LEMMA NothingAsked ==
    ASSUME AskInv, UNCHANGED <<kb, ask, context, answer>>, quiet' => quiet, lone' => lone,
           lone /\ ReadyOrCompleting' => ReadyOrCompleting
    PROVE  AskInv'
BY DEF AskInv, Cited

LEMMA ApartKeepsAsk ==
    ASSUME IngestionInv, NEW p \in Procs, Apart(p)
    PROVE  AskInv'
<1>1. ReadyOrCompleting' => ReadyOrCompleting
  BY DEF Apart, ReadyOrCompleting, OthersRest, At
<1> QED
  BY <1>1, NothingAsked DEF IngestionInv, Apart

LEMMA ReadKeepsAsk ==
    ASSUME IngestionInv, NEW p \in Procs, UNCHANGED retrieval, Heard,
           ReadIndexRows(p) \/ WriteIndexRows(p) \/ CompleteRun(p)
    PROVE  AskInv'
<1> Shape
  BY DEF IngestionInv, SearchInv, ChainInv
<1>1. UNCHANGED <<kb, ask, context, answer, lone>> /\ (quiet' => quiet)
  BY DEF retrieval, Heard, ReadIndexRows, WriteIndexRows, CompleteRun, knowledge, rest
<1>2. ReadyOrCompleting' => ReadyOrCompleting
  <2>1. CASE ReadIndexRows(p)
    <3>1. Moved(p) /\ src' = src
      BY <2>1, IndexMoves DEF ReadIndexRows
    <3>2. PICK pc \in {"write", "rewrite", "swap"} :
             proc'[p] = [proc[p] EXCEPT !.rows = IndexRows(p), !.hash = index.no, !.pc = pc]
      BY <2>1, SetDoes DEF ReadIndexRows, Shape, ProcFields
    <3>3. proc'[p].pc # "complete"
      BY <3>2 DEF Shape, ProcFields
    <3> QED
      BY <3>1, <3>3 DEF ReadyOrCompleting, Moved, OthersRest, At
  <2>2. CASE WriteIndexRows(p)
    <3>1. Moved(p) /\ src' = src
      BY <2>2, IndexMoves DEF WriteIndexRows
    <3>2. proc'[p].pc # "complete"
      <4>1. CASE At(p, "write")
        <5>1. proc'[p] = [proc[p] EXCEPT !.rows = {}, !.hash = 0, !.pc = "invalidate"]
          BY <2>2, <4>1, SetDoes DEF WriteIndexRows
        <5> QED
          BY <5>1 DEF Shape, ProcFields
      <4>2. CASE ~ At(p, "write")
        BY <2>2, <4>2, IngestedDoes DEF WriteIndexRows
      <4> QED
        BY <4>1, <4>2
    <3> QED
      BY <3>1, <3>2 DEF ReadyOrCompleting, Moved, OthersRest, At
  <2>3. CASE CompleteRun(p)
    BY <2>3 DEF ReadyOrCompleting, CompleteRun
  <2> QED
    BY <2>1, <2>2, <2>3
<1> QED
  BY <1>1, <1>2, NothingAsked DEF IngestionInv

LEMMA CommitKeepsAsk ==
    ASSUME IngestionInv, NEW p \in Procs, CommitPublication(p), UNCHANGED retrieval, Heard
    PROVE  AskInv'
<1>1. UNCHANGED <<ask, context, answer, lone, src>> /\ At(p, "commit")
  BY DEF retrieval, CommitPublication, rest
<1>2. OthersRest(p) /\ proc'[p].pc = "index"
  BY GotoDoes DEF CommitPublication, IngestionInv, SearchInv, ChainInv
<1>3. lone => src.ingestion # "ready"
  BY <1>1 DEF IngestionInv, SearchInv, IndexInv, Indexing, Ingesting, At
<1>4. lone => \A q \in Procs : ~ At(q, "complete")'
  <2> SUFFICES ASSUME lone, NEW q \in Procs PROVE proc'[q].pc # "complete"
    BY DEF At
  <2>1. CASE q = p
    BY <2>1, <1>2
  <2>2. CASE q # p
    BY <2>2, <1>1, <1>2, LoneStep DEF At, IngestionInv, SearchInv, ChainInv
  <2> QED
    BY <2>1, <2>2
<1>5. ~ (lone' /\ ReadyOrCompleting')
  BY <1>1, <1>3, <1>4 DEF ReadyOrCompleting
<1>6. quiet' => ask'.pc = "idle"
  BY <1>1 DEF Heard
<1> QED
  BY <1>5, <1>6 DEF AskInv

LEMMA InvalidateKeepsAsk ==
    ASSUME IngestionInv, NEW p \in Procs, Invalidate(p), Heard
    PROVE  AskInv'
<1> DOMAIN context = {"state", "rows"}
  BY DEF IngestionInv, SearchInv, IndexShape
<1>1. ~ Cited'
  BY DEF Cited, Invalidate, StaleContext
<1>2. quiet' => ask'.pc = "idle"
  BY DEF Heard, Invalidate
<1> QED
  BY <1>1, <1>2 DEF AskInv

LEMMA AskKeepsAll ==
    ASSUME IngestionInv, AskStep, UNCHANGED <<archiveVars, config, index, knowledge, quiet>>
    PROVE  IndexShape' /\ IndexInv' /\ AskInv'
<1> DOMAIN context = {"state", "rows"} /\ DOMAIN ask = {"pc", "found", "rows"} /\ AskInv
  BY DEF IngestionInv, SearchInv, IndexShape
<1>0. UNCHANGED <<proc, src, kb, index, quiet, lone>>
  BY DEF archiveVars, knowledge
<1>1. IndexInv'
  BY <1>0 DEF IngestionInv, SearchInv, IndexInv, Indexing
<1>2. IndexShape'
  BY <1>0 DEF IngestionInv, SearchInv, IndexShape, AskStep, Search, Hydrate, RecordContext,
              SaveAnswer, NoAsk
<1>r. ReadyOrCompleting' = ReadyOrCompleting
  BY <1>0 DEF ReadyOrCompleting, At
<1>3. AskInv'
  <2>1. CASE Search
    BY <1>0, <1>r, <2>1 DEF Search, AskInv, Cited
  <2>2. CASE Hydrate
    BY <1>0, <1>r, <2>2 DEF Hydrate, AskInv, Cited
  <2>3. CASE RecordContext
    BY <1>0, <1>r, <2>3 DEF RecordContext, AskInv, Cited
  <2>4. CASE SaveAnswer
    BY <1>0, <1>r, <2>4 DEF SaveAnswer, AskInv, Cited, NoAsk
  <2> QED
    BY <2>1, <2>2, <2>3, <2>4 DEF AskStep
<1> QED
  BY <1>1, <1>2, <1>3

\* Edits, other settings, and steps that change nothing.
LEMMA UserKeepsAll ==
    ASSUME IngestionInv, UNCHANGED <<proc, src, kb, index, ask, context, answer, quiet>>,
           lone' => lone
    PROVE  IndexShape' /\ IndexInv' /\ AskInv'
BY DEF IngestionInv, SearchInv, IndexShape, IndexInv, Indexing, AskInv, Cited,
       ReadyOrCompleting, At

LEMMA IngestionInit ==
    ASSUME Init
    PROVE  IngestionInv
<1>1. ChainInv
  BY ChainInit
<1>2. /\ \A p \in Procs : proc[p].pc = "idle"
      /\ src.ingestion = "not_started"
      /\ ask.pc = "idle" /\ context.state = "none" /\ answer = "none"
      /\ IndexShape
  BY IdleShape DEF Init, ArchiveInit, NewSource, NoAsk, IndexShape
<1> QED
  BY <1>1, <1>2 DEF IngestionInv, SearchInv, IndexInv, Indexing, AskInv, Cited, Holding,
                    Ingesting, Stages

LEMMA IngestionStep ==
    ASSUME IngestionInv, [Next]_vars
    PROVE  IngestionInv'
<1>0. ChainInv' /\ Shape /\ SearchInv
  BY ChainStep DEF IngestionInv, SearchInv, ChainInv
<1> DEFINE Rest == IndexShape' /\ IndexInv' /\ AskInv'
<1> SUFFICES Rest
  BY <1>0 DEF IngestionInv, SearchInv
<1>1. CASE (Edit /\ Elsewhere) \/ ChangeConfig \/ UNCHANGED vars
  <2>1. /\ UNCHANGED <<proc, src, kb, index, ask, context, answer, quiet>>
        /\ lone' => lone
    <3>1. CASE Edit /\ Elsewhere
      BY <3>1 DEF Edit, Elsewhere, knowledge, retrieval
    <3>2. CASE ChangeConfig
      BY <3>2 DEF ChangeConfig, archiveVars, knowledge, retrieval
    <3>3. CASE UNCHANGED vars
      BY <3>3 DEF vars, archiveVars, knowledge, retrieval
    <3> QED
      BY <1>1, <3>1, <3>2, <3>3
  <2> QED
    BY <2>1, <1>0, UserKeepsAll
<1>2. CASE AskStep /\ UNCHANGED <<archiveVars, config, index, knowledge, quiet>>
  BY <1>2, AskKeepsAll
<1>3. ASSUME NEW p \in Procs, Elsewhere, ArchiveStep(p) \/ StartBuild(p) \/ StartRebuild(p)
      PROVE  Apart(p)
  BY <1>0, <1>3, StartsAreApart, ArchivingIsApart DEF ArchiveStep
<1>4. ASSUME NEW p \in Procs, Apart(p) PROVE Rest
  BY <1>4, <1>0, ApartKeepsIndex, ApartKeepsAsk
<1>5. ASSUME NEW p \in Procs, UNCHANGED retrieval, Heard, IngestStep(p) PROVE Rest
  <2>1. CASE CommitPublication(p)
    BY <1>0, <1>5, <2>1, CommitKeepsIndex, CommitKeepsAsk
  <2>2. CASE ReadIndexRows(p)
    BY <1>0, <1>5, <2>2, ReadKeepsIndex, ReadKeepsAsk
  <2>3. CASE WriteIndexRows(p)
    BY <1>0, <1>5, <2>3, WriteKeepsIndex, ReadKeepsAsk
  <2>4. CASE CompleteRun(p)
    BY <1>0, <1>5, <2>4, CompleteKeepsIndex, ReadKeepsAsk
  <2>5. CASE \/ BeginRun(p) \/ MarkStage(p) \/ ParseEntries(p) \/ FailRun(p)
             \/ RecordReceipt(p) \/ RecordRenames(p) \/ IngestThrows(p)
    <3>1. Apart(p)
      BY <1>0, <1>5, <2>5, StagesAreApart
    <3> QED
      BY <3>1, <1>4
  <2> QED
    BY <1>5, <2>1, <2>2, <2>3, <2>4, <2>5 DEF IngestStep
<1>6. ASSUME NEW p \in Procs, Heard, Invalidate(p) PROVE Rest
  BY <1>0, <1>6, InvalidateKeepsIndex, InvalidateKeepsAsk
<1>7. CASE UNCHANGED vars
  BY <1>1, <1>7
<1>8. CASE Next
  <2>1. CASE \E p \in Procs :
               /\ ArchiveStep(p) \/ StartBuild(p) \/ StartRebuild(p)
               /\ UNCHANGED <<config, index, knowledge, retrieval, quiet>>
    BY <2>1, <1>3, <1>4 DEF Elsewhere
  <2>2. CASE \E p \in Procs : /\ IngestStep(p) /\ UNCHANGED <<config, retrieval>>
                              /\ quiet' = (quiet /\ ask.pc = "idle")
    BY <2>2, <1>5 DEF Heard
  <2>3. CASE \E p \in Procs : /\ Invalidate(p) /\ UNCHANGED config
                              /\ quiet' = (quiet /\ ask.pc = "idle")
    BY <2>3, <1>6 DEF Heard
  <2>4. CASE Edit /\ UNCHANGED <<config, index, knowledge, retrieval, quiet>>
    BY <2>4, <1>1 DEF Elsewhere
  <2>5. CASE ChangeConfig
    BY <2>5, <1>1
  <2> HIDE DEF Rest
  <2> QED
    BY <1>8, <2>1, <2>2, <2>3, <2>4, <2>5, <1>2 DEF Next
<1> QED
  BY <1>7, <1>8

LEMMA IngestionAlways == Spec => []IngestionInv
BY IngestionInit, IngestionStep, PTL DEF Spec

\* When commands run one after another and ingestion says it is ready, the active
\* generation of the text index has exactly the rows that a search may return,
\* whatever was thrown, killed, retried or rebuilt before.
THEOREM ReadyMeansSearchable == Spec => []ReadyIsSearchable
<1>1. IngestionInv => ReadyIsSearchable
  BY DEF IngestionInv, SearchInv, IndexInv, ReadyIsSearchable
<1> QED
  BY <1>1, IngestionAlways, PTL

\* When commands run one after another, no ingestion overlaps an ask and ingestion is
\* ready, an answer that counts as valid and the context it was made from cite
\* active rows only.
THEOREM ValidAnswersAreCurrent == Spec => []ReadyAnswersAreCurrent
<1>1. IngestionInv => ReadyAnswersAreCurrent
  BY DEF IngestionInv, AskInv, Cited, ReadyOrCompleting, ReadyAnswersAreCurrent
<1> QED
  BY <1>1, IngestionAlways, PTL
-----------------------------------------------------------------------------
(* What the publish transaction computes                                   *)

\* Every nonempty set of naturals has a least element; the inductions below are
\* arguments about a least counterexample.
LEMMA LeastNatural ==
    ASSUME NEW S, S \subseteq Nat, S # {}
    PROVE  \E m \in S : \A k \in S : m <= k
<1> DEFINE R == OpToRel(<, Nat)
<1>1. IsWellFoundedOn(R, Nat)
  BY NatLessThanWellFounded
<1>2. \A i, j \in Nat : <<i, j>> \in R <=> i < j
  BY DEF OpToRel
<1> HIDE DEF R
<1>3. PICK m \in S : \A k \in S : ~ (<<k, m>> \in R)
  BY <1>1, WFMin
<1>4. ASSUME NEW k \in S PROVE m <= k
  <2>1. ~ (k < m) /\ k \in Nat /\ m \in Nat
    BY <1>2, <1>3
  <2> QED
    BY <2>1
<1> QED
  BY <1>4

LEMMA LeastIsOne ==
    ASSUME NEW S, S \subseteq Nat, S # {}
    PROVE  Min2(S) \in S /\ \A k \in S : Min2(S) <= k
BY LeastNatural DEF Min2

\* What the first value has, and every step keeps, the last value has.
LEMMA StepByStep ==
    ASSUME NEW N \in Nat, NEW G, NEW h, h[0] \in G[0],
           \A n \in 1 .. N : h[n - 1] \in G[n - 1] => h[n] \in G[n]
    PROVE  \A n \in 0 .. N : h[n] \in G[n]
<1> DEFINE Bad == {n \in 0 .. N : h[n] \notin G[n]}
<1>1. SUFFICES ASSUME Bad # {} PROVE FALSE
  OBVIOUS
<1>2. Bad \subseteq Nat
  OBVIOUS
<1>3. PICK n \in Bad : \A m \in Bad : n <= m
  <2> HIDE DEF Bad
  <2> QED
    BY <1>1, <1>2, LeastNatural
<1>4. n # 0
  OBVIOUS
<1>5. n \in 1 .. N /\ n - 1 \in 0 .. N /\ n - 1 \notin Bad
  BY <1>3, <1>4
<1> QED
  BY <1>5

\* A recursion on 0 .. N whose steps stay in the sets G has a solution.
Recurs(h, N, base, F) == h = [n \in 0 .. N |-> IF n = 0 THEN base ELSE F[n][h[n - 1]]]

LEMMA RecursionSolved ==
    ASSUME NEW N \in Nat, NEW G, NEW base \in G[0], NEW F,
           \A n \in 1 .. N : \A v \in G[n - 1] : F[n][v] \in G[n]
    PROVE  \E h : Recurs(h, N, base, F) /\ \A n \in 0 .. N : h[n] \in G[n]
<1> DEFINE Good(h, m) == /\ DOMAIN h = 0 .. m /\ h = [n \in 0 .. m |-> h[n]]
                         /\ h[0] = base
                         /\ \A n \in 1 .. m : h[n] = F[n][h[n - 1]]
           Bad == {m \in 0 .. N : ~ \E h : Good(h, m)}
<1>1. Bad = {}
  <2>1. SUFFICES ASSUME Bad # {} PROVE FALSE
    OBVIOUS
  <2>a. Bad \subseteq Nat
    OBVIOUS
  <2>2. PICK m \in Bad : \A k \in Bad : m <= k
    <3> HIDE DEF Bad
    <3> QED
      BY <2>1, <2>a, LeastNatural
  <2>3. m # 0
    <3>1. Good([n \in 0 .. 0 |-> base], 0)
      OBVIOUS
    <3> QED
      BY <3>1
  <2>4. m \in 1 .. N /\ m - 1 \in 0 .. N /\ m - 1 \notin Bad
    BY <2>2, <2>3
  <2>5. PICK h : Good(h, m - 1)
    BY <2>4
  <2> DEFINE k == [n \in 0 .. m |-> IF n = m THEN F[m][h[m - 1]] ELSE h[n]]
  <2>6. DOMAIN k = 0 .. m /\ k = [n \in 0 .. m |-> k[n]] /\ k[0] = base
    BY <2>4, <2>5
  <2>7. ASSUME NEW n \in 1 .. m PROVE k[n] = F[n][k[n - 1]]
    <3>1. CASE n = m
      <4>1. m - 1 \in 0 .. m /\ m - 1 # m
        BY <2>4
      <4> QED
        BY <2>7, <3>1, <4>1
    <3>2. CASE n # m
      <4>1. n \in 1 .. m - 1 /\ n - 1 \in 0 .. m /\ n - 1 # m
        BY <2>4, <2>7, <3>2
      <4>2. h[n] = F[n][h[n - 1]]
        BY <2>5, <4>1
      <4> QED
        BY <2>7, <3>2, <4>1, <4>2
    <3> QED
      BY <3>1, <3>2
  <2> HIDE DEF k
  <2>8. Good(k, m)
    BY <2>6, <2>7
  <2> QED
    BY <2>8, <2>2
<1>2. PICK h : Good(h, N)
  BY <1>1
<1>3. Recurs(h, N, base, F)
  <2> DEFINE k == [n \in 0 .. N |-> IF n = 0 THEN base ELSE F[n][h[n - 1]]]
  <2>1. ASSUME NEW n \in 0 .. N PROVE h[n] = k[n]
    <3>1. CASE n = 0
      BY <1>2, <3>1
    <3>2. CASE n # 0
      <4>1. n \in 1 .. N
        BY <3>2
      <4> QED
        BY <1>2, <4>1
    <3> QED
      BY <3>1, <3>2
  <2>2. h = [n \in 0 .. N |-> h[n]]
    BY <1>2
  <2>3. h = k
    BY <2>1, <2>2
  <2> QED
    BY <2>3 DEF Recurs
<1>4. h[0] \in G[0] /\ \A n \in 1 .. N : h[n - 1] \in G[n - 1] => h[n] \in G[n]
  BY <1>2
<1> QED
  BY <1>3, <1>4, StepByStep
-----------------------------------------------------------------------------
(* The alignment of a file's drafts with the chunks it had                 *)

\* One choice out of 1 .. L for each of n drafts, 0 for none, nothing twice.
Takes(L, n) ==
    {t \in Seq(0 .. L) : /\ Len(t) = n
                         /\ \A i, j \in 1 .. n : t[i] = t[j] /\ t[i] # 0 => i = j}

LEMMA TakesNothing ==
    ASSUME NEW L \in Nat
    PROVE  <<>> \in Takes(L, 0)
BY DEF Takes

LEMMA TakesOneMore ==
    ASSUME NEW L \in Nat, NEW n \in Nat, NEW t \in Takes(L, n), NEW m \in 0 .. L,
           m # 0 => \A i \in DOMAIN t : t[i] # m
    PROVE  /\ Append(t, m) \in Takes(L, n + 1)
           /\ \A i \in 1 .. n : Append(t, m)[i] = t[i]
           /\ Append(t, m)[n + 1] = m
<1>0. t \in Seq(0 .. L) /\ Len(t) = n /\ DOMAIN t = 1 .. n
      /\ \A i, j \in 1 .. n : t[i] = t[j] /\ t[i] # 0 => i = j
  BY DEF Takes
<1> DEFINE u == Append(t, m)
<1>1. u \in Seq(0 .. L) /\ Len(u) = n + 1 /\ u[n + 1] = m /\ \A i \in 1 .. n : u[i] = t[i]
  BY <1>0
<1> HIDE DEF u
<1>2. ASSUME NEW i \in 1 .. n + 1, NEW j \in 1 .. n + 1, u[i] = u[j], u[i] # 0 PROVE i = j
  <2>1. CASE i \in 1 .. n /\ j \in 1 .. n
    BY <1>0, <1>1, <1>2, <2>1
  <2>2. CASE i = n + 1 /\ j \in 1 .. n
    BY <1>0, <1>1, <1>2, <2>2
  <2>3. CASE j = n + 1 /\ i \in 1 .. n
    BY <1>0, <1>1, <1>2, <2>3
  <2>4. CASE i = n + 1 /\ j = n + 1
    BY <2>4
  <2>5. i \in 1 .. n \/ i = n + 1
    OBVIOUS
  <2>6. j \in 1 .. n \/ j = n + 1
    OBVIOUS
  <2> QED
    BY <2>1, <2>2, <2>3, <2>4, <2>5, <2>6
<1>3. u \in Takes(L, n + 1)
  BY <1>1, <1>2 DEF Takes
<1> QED
  BY <1>1, <1>3 DEF u

LEMMA ExactMatchIsFree ==
    ASSUME NEW previous, NEW L \in Nat, DOMAIN previous = 1 .. L, NEW taken, NEW draft
    PROVE  /\ ExactMatch(previous, taken, draft) \in 0 .. L
           /\ ExactMatch(previous, taken, draft) # 0 =>
                \A k \in DOMAIN taken : taken[k] # ExactMatch(previous, taken, draft)
<1> DEFINE free == {i \in DOMAIN previous : /\ previous[i].text = draft.text
                                            /\ \A k \in DOMAIN taken : taken[k] # i}
<1>1. ExactMatch(previous, taken, draft) = IF free = {} THEN 0 ELSE Min2(free)
  BY DEF ExactMatch
<1>2. free \subseteq 1 .. L /\ \A i \in free : \A k \in DOMAIN taken : taken[k] # i
  OBVIOUS
<1> HIDE DEF free
<1>3. CASE free = {}
  BY <1>1, <1>3
<1>4. CASE free # {}
  <2>1. free \subseteq Nat
    BY <1>2
  <2>2. Min2(free) \in free
    BY <1>4, <2>1, LeastIsOne
  <2>3. ExactMatch(previous, taken, draft) = Min2(free)
    BY <1>1, <1>4
  <2>4. Min2(free) \in 1 .. L /\ \A k \in DOMAIN taken : taken[k] # Min2(free)
    BY <1>2, <2>2
  <2> QED
    BY <2>3, <2>4
<1> QED
  BY <1>3, <1>4

LEMMA ExactTakes ==
    ASSUME NEW previous, NEW L \in Nat, DOMAIN previous = 1 .. L,
           NEW D, NEW drafts \in Seq(D)
    PROVE  Exact(previous, drafts) \in Takes(L, Len(drafts))
<1> DEFINE N == Len(drafts)
           Next1(v, n) == Append(v, ExactMatch(previous, v, drafts[n]))
           G == [n \in 0 .. N |-> Takes(L, n)]
           F == [n \in 1 .. N |-> [v \in G[n - 1] |-> Next1(v, n)]]
           Sol(h) == h = [n \in 0 .. N |-> IF n = 0 THEN <<>> ELSE Next1(h[n - 1], n)]
<1>0. N \in Nat
  OBVIOUS
<1>1. ASSUME NEW n \in 1 .. N, NEW v \in G[n - 1] PROVE Next1(v, n) \in G[n]
  <2>1. n - 1 \in Nat /\ n - 1 \in 0 .. N /\ n \in 0 .. N /\ (n - 1) + 1 = n
    BY <1>0
  <2>2. v \in Takes(L, n - 1)
    BY <2>1
  <2>3. Next1(v, n) \in Takes(L, (n - 1) + 1)
    BY <2>1, <2>2, ExactMatchIsFree, TakesOneMore
  <2> QED
    BY <2>1, <2>3
<1>2. ASSUME NEW n \in 1 .. N, NEW v \in G[n - 1] PROVE F[n][v] = Next1(v, n)
  OBVIOUS
<1>3. <<>> \in G[0]
  BY <1>0, TakesNothing
<1>4. PICK h : Recurs(h, N, <<>>, F) /\ \A n \in 0 .. N : h[n] \in G[n]
  <2> HIDE DEF G, F, Next1, N
  <2>1. \A n \in 1 .. N : \A v \in G[n - 1] : F[n][v] \in G[n]
    BY <1>1, <1>2
  <2> QED
    BY ONLY <1>0, <1>3, <2>1, RecursionSolved
<1>5. Sol(h)
  <2>1. ASSUME NEW n \in 0 .. N
        PROVE (IF n = 0 THEN <<>> ELSE F[n][h[n - 1]])
              = (IF n = 0 THEN <<>> ELSE Next1(h[n - 1], n))
    <3>1. CASE n = 0
      BY <3>1
    <3>2. CASE n # 0
      <4>1. n \in 1 .. N /\ n - 1 \in 0 .. N
        BY <1>0, <3>2
      <4>2. h[n - 1] \in G[n - 1]
        BY <1>4, <4>1
      <4>3. F[n][h[n - 1]] = Next1(h[n - 1], n)
        BY <1>2, <4>1, <4>2
      <4> QED
        BY <3>2, <4>3
    <3> QED
      BY <3>1, <3>2
  <2> HIDE DEF F, G, Next1, N
  <2> QED
    BY <1>4, <2>1 DEF Recurs
<1> DEFINE taken == CHOOSE f : Sol(f)
<1>6. Sol(taken)
  <2> HIDE DEF Sol
  <2> QED
    BY <1>5
<1>7. Exact(previous, drafts) = taken[N]
  BY DEF Exact
<1> HIDE DEF taken
<1>8. taken[0] \in G[0]
  <2>1. taken[0] = <<>>
    BY <1>0, <1>6
  <2> QED
    BY <1>3, <2>1
<1>9. ASSUME NEW n \in 1 .. N, taken[n - 1] \in G[n - 1] PROVE taken[n] \in G[n]
  <2>1. taken[n] = Next1(taken[n - 1], n)
    <3> HIDE DEF Next1
    <3>1. n \in 0 .. N /\ n # 0
      BY <1>0
    <3> QED
      BY <1>6, <3>1
  <2> HIDE DEF G, Next1
  <2> QED
    BY <1>1, <1>9, <2>1
<1>10. taken[N] \in G[N]
  <2> HIDE DEF G, N
  <2>1. \A n \in 1 .. N : taken[n - 1] \in G[n - 1] => taken[n] \in G[n]
    BY <1>9
  <2>2. \A n \in 0 .. N : taken[n] \in G[n]
    BY ONLY <1>0, <1>8, <2>1, StepByStep
  <2> QED
    BY <1>0, <2>2
<1> QED
  BY <1>0, <1>7, <1>10

LEMMA Percents ==
    /\ \A x \in 0 .. 100 : 100 - x \in Nat
    /\ \A x, y \in 0 .. 100 : 100 - x <= 100 - y => y <= x
OBVIOUS

\* The nearest of the available chunks is one of them.
LEMMA NearestIsAvailable ==
    ASSUME NEW previous, NEW L \in Nat, DOMAIN previous = 1 .. L,
           \A i \in 1 .. L : previous[i].text \in Texts,
           NEW available, available \subseteq 1 .. L, available # {},
           NEW text \in Texts, NEW ordinal \in Nat
    PROVE  Nearest(previous, available, text, ordinal) \in available
<1> DEFINE score(i) == Similarity[previous[i].text, text]
           similar == {i \in available : \A j \in available : score(j) <= score(i)}
           near == {i \in similar : \A j \in similar :
                       Distance(i, ordinal) <= Distance(j, ordinal)}
           Far == {100 - score(i) : i \in available}
           Away == {Distance(i, ordinal) : i \in similar}
<1>1. ASSUME NEW i \in available
      PROVE  i \in Nat /\ score(i) \in 0 .. 100 /\ 100 - score(i) \in Nat
  <2>1. i \in 1 .. L /\ previous[i].text \in Texts
    OBVIOUS
  <2>2. score(i) \in 0 .. 100
    BY <2>1, ContentAssumption
  <2>3. 100 - score(i) \in Nat
    <3> HIDE DEF score
    <3> QED
      BY ONLY <2>2, Percents
  <2> HIDE DEF score
  <2> QED
    BY ONLY L \in Nat, <2>1, <2>2, <2>3
<1>2. similar # {}
  <2>1. Far \subseteq Nat /\ Far # {}
    <3> HIDE DEF score
    <3>1. ASSUME NEW m \in Far PROVE m \in Nat
      <4>1. PICK i \in available : m = 100 - score(i)
        OBVIOUS
      <4> QED
        BY <1>1, <4>1
    <3> QED
      BY <3>1
  <2>2. PICK m \in Far : \A k \in Far : m <= k
    <3> HIDE DEF Far
    <3> QED
      BY <2>1, LeastNatural
  <2>3. PICK i \in available : m = 100 - score(i)
    BY <2>2
  <2>4. ASSUME NEW j \in available PROVE score(j) <= score(i)
    <3>1. m <= 100 - score(j)
      BY <2>2
    <3>2. score(i) \in 0 .. 100 /\ score(j) \in 0 .. 100
      BY <1>1
    <3> HIDE DEF score, Far, similar, near, Away
    <3> QED
      BY <2>3, <3>1, <3>2, Percents
  <2> QED
    BY <2>4
<1>3. near # {}
  <2>1. \A i \in similar : Distance(i, ordinal) \in Nat
    <3> HIDE DEF score
    <3> QED
      BY <1>1 DEF Distance
  <2>2. Away \subseteq Nat /\ Away # {}
    <3> HIDE DEF similar
    <3> QED
      BY <1>2, <2>1
  <2>3. PICK m \in Away : \A k \in Away : m <= k
    <3> HIDE DEF Away
    <3> QED
      BY <2>2, LeastNatural
  <2>4. PICK i \in similar : m = Distance(i, ordinal)
    BY <2>3
  <2>5. \A j \in similar : Distance(i, ordinal) <= Distance(j, ordinal)
    <3> HIDE DEF similar
    <3> QED
      BY <2>3, <2>4
  <2> HIDE DEF similar
  <2> QED
    BY <2>4, <2>5
<1>4. near \subseteq Nat /\ near \subseteq available
  <2> HIDE DEF score
  <2> QED
    BY <1>1
<1>5. Nearest(previous, available, text, ordinal) = Min2(near)
  BY DEF Nearest
<1> HIDE DEF near
<1>6. Min2(near) \in near
  BY <1>3, <1>4, LeastIsOne
<1> QED
  BY <1>4, <1>5, <1>6

LEMMA ReplacementIsFree ==
    ASSUME NEW previous, NEW L \in Nat, DOMAIN previous = 1 .. L,
           \A i \in 1 .. L : previous[i].text \in Texts,
           NEW exact, NEW taken, NEW draft, draft.text \in Texts, NEW k \in Nat,
           NEW m, m = Replacement(previous, exact, taken, draft, k)
    PROVE  /\ m \in 0 .. L
           /\ m # 0 => /\ \A j \in DOMAIN taken : taken[j] # m
                       /\ exact[k] = 0 /\ m \notin Range(exact)
<1> DEFINE available == {i \in DOMAIN previous :
                         i \notin Range(exact) /\ \A j \in DOMAIN taken : taken[j] # i}
           anchored == {i \in available : previous[i].anchor = draft.anchor}
           nearest == Nearest(previous, available, draft.text, k)
<1>1. m = IF exact[k] # 0 \/ available = {} THEN 0
          ELSE IF anchored # {} THEN Min2(anchored)
          ELSE IF Similarity[previous[nearest].text, draft.text] >= 15 THEN nearest ELSE 0
  BY DEF Replacement
<1>2. /\ available \subseteq 1 .. L /\ anchored \subseteq available
      /\ \A i \in available : i \notin Range(exact) /\ \A j \in DOMAIN taken : taken[j] # i
  OBVIOUS
<1>3. anchored \subseteq Nat
  <2> HIDE DEF available
  <2>1. available \subseteq Nat
    BY <1>2
  <2> QED
    BY <1>2, <2>1
<1> HIDE DEF available, anchored
<1>4. anchored # {} => Min2(anchored) \in available
  BY <1>2, <1>3, LeastIsOne
<1>5. available # {} => nearest \in available
  BY <1>2, NearestIsAvailable
<1>6. m = 0 \/ (exact[k] = 0 /\ m \in available)
  <2> HIDE DEF nearest
  <2> QED
    BY <1>1, <1>4, <1>5
<1>7. CASE m = 0
  BY <1>7
<1>8. CASE exact[k] = 0 /\ m \in available
  BY <1>2, <1>8
<1> QED
  BY <1>6, <1>7, <1>8

\* What replaces nothing exact: 0, or a chunk that no draft has the text of.
Replaces(L, exact, n) ==
    {t \in Takes(L, n) : \A k \in 1 .. n : t[k] # 0 => exact[k] = 0 /\ t[k] \notin Range(exact)}

LEMMA ReplacesOneMore ==
    ASSUME NEW L \in Nat, NEW n \in Nat, NEW exact, NEW t \in Replaces(L, exact, n),
           NEW m \in 0 .. L,
           m # 0 => /\ \A j \in DOMAIN t : t[j] # m
                    /\ exact[n + 1] = 0 /\ m \notin Range(exact)
    PROVE  Append(t, m) \in Replaces(L, exact, n + 1)
<1> DEFINE u == Append(t, m)
<1>1. /\ u \in Takes(L, n + 1) /\ u[n + 1] = m /\ \A i \in 1 .. n : u[i] = t[i]
  <2>1. t \in Takes(L, n) /\ (m # 0 => \A i \in DOMAIN t : t[i] # m)
    BY DEF Replaces
  <2> QED
    BY ONLY L \in Nat, n \in Nat, m \in 0 .. L, <2>1, TakesOneMore
<1>2. \A k \in 1 .. n : t[k] # 0 => exact[k] = 0 /\ t[k] \notin Range(exact)
  BY DEF Replaces
<1> HIDE DEF u
<1>3. ASSUME NEW k \in 1 .. n + 1, u[k] # 0 PROVE exact[k] = 0 /\ u[k] \notin Range(exact)
  <2>1. CASE k = n + 1
    BY <1>1, <1>3, <2>1
  <2>2. CASE k # n + 1
    <3>1. k \in 1 .. n
      BY <2>2
    <3> QED
      BY <1>1, <1>2, <1>3, <3>1
  <2> QED
    BY <2>1, <2>2
<1>4. u \in Replaces(L, exact, n + 1)
  BY <1>1, <1>3 DEF Replaces
<1> QED
  BY <1>4 DEF u

LEMMA ReplacedReplaces ==
    ASSUME NEW previous, NEW L \in Nat, DOMAIN previous = 1 .. L,
           \A i \in 1 .. L : previous[i].text \in Texts,
           NEW exact, NEW D, NEW drafts \in Seq(D),
           \A k \in 1 .. Len(drafts) : drafts[k].text \in Texts
    PROVE  Replaced(previous, drafts, exact) \in Replaces(L, exact, Len(drafts))
<1> DEFINE N == Len(drafts)
           Next1(v, n) == Append(v, Replacement(previous, exact, v, drafts[n], n))
           G == [n \in 0 .. N |-> Replaces(L, exact, n)]
           F == [n \in 1 .. N |-> [v \in G[n - 1] |-> Next1(v, n)]]
           Sol(h) == h = [n \in 0 .. N |-> IF n = 0 THEN <<>> ELSE Next1(h[n - 1], n)]
<1>0. N \in Nat
  OBVIOUS
<1>1. ASSUME NEW n \in 1 .. N, NEW v \in G[n - 1] PROVE Next1(v, n) \in G[n]
  <2>1. n - 1 \in Nat /\ n - 1 \in 0 .. N /\ n \in 0 .. N /\ (n - 1) + 1 = n /\ n \in Nat
    BY <1>0
  <2>2. v \in Replaces(L, exact, n - 1)
    BY <2>1
  <2>3. drafts[n].text \in Texts
    BY <1>1
  <2> DEFINE m == Replacement(previous, exact, v, drafts[n], n)
  <2>4. /\ m \in 0 .. L
        /\ m # 0 => /\ \A j \in DOMAIN v : v[j] # m
                    /\ exact[n] = 0 /\ m \notin Range(exact)
    BY <2>1, <2>3, ReplacementIsFree
  <2> HIDE DEF m
  <2>5. Append(v, m) \in Replaces(L, exact, (n - 1) + 1)
    BY <2>1, <2>2, <2>4, ReplacesOneMore
  <2> QED
    BY <2>1, <2>5 DEF m
<1>2. ASSUME NEW n \in 1 .. N, NEW v \in G[n - 1] PROVE F[n][v] = Next1(v, n)
  OBVIOUS
<1>3. <<>> \in G[0]
  BY <1>0, TakesNothing DEF Replaces
<1>4. PICK h : Recurs(h, N, <<>>, F) /\ \A n \in 0 .. N : h[n] \in G[n]
  <2> HIDE DEF G, F, Next1, N
  <2>1. \A n \in 1 .. N : \A v \in G[n - 1] : F[n][v] \in G[n]
    BY <1>1, <1>2
  <2> QED
    BY ONLY <1>0, <1>3, <2>1, RecursionSolved
<1>5. Sol(h)
  <2>1. ASSUME NEW n \in 0 .. N
        PROVE (IF n = 0 THEN <<>> ELSE F[n][h[n - 1]])
              = (IF n = 0 THEN <<>> ELSE Next1(h[n - 1], n))
    <3>1. CASE n = 0
      BY <3>1
    <3>2. CASE n # 0
      <4>1. n \in 1 .. N /\ n - 1 \in 0 .. N
        BY <1>0, <3>2
      <4>2. h[n - 1] \in G[n - 1]
        BY <1>4, <4>1
      <4>3. F[n][h[n - 1]] = Next1(h[n - 1], n)
        BY <1>2, <4>1, <4>2
      <4> QED
        BY <3>2, <4>3
    <3> QED
      BY <3>1, <3>2
  <2> HIDE DEF F, G, Next1, N
  <2> QED
    BY <1>4, <2>1 DEF Recurs
<1> DEFINE taken == CHOOSE f : Sol(f)
<1>6. Sol(taken)
  <2> HIDE DEF Sol
  <2> QED
    BY <1>5
<1>7. Replaced(previous, drafts, exact) = taken[N]
  BY DEF Replaced
<1> HIDE DEF taken
<1>8. taken[0] \in G[0]
  <2>1. taken[0] = <<>>
    BY <1>0, <1>6
  <2> QED
    BY <1>3, <2>1
<1>9. ASSUME NEW n \in 1 .. N, taken[n - 1] \in G[n - 1] PROVE taken[n] \in G[n]
  <2>1. taken[n] = Next1(taken[n - 1], n)
    <3> HIDE DEF Next1
    <3>1. n \in 0 .. N /\ n # 0
      BY <1>0
    <3> QED
      BY <1>6, <3>1
  <2> HIDE DEF G, Next1
  <2> QED
    BY <1>1, <1>9, <2>1
<1>10. taken[N] \in G[N]
  <2> HIDE DEF G, N
  <2>1. \A n \in 1 .. N : taken[n - 1] \in G[n - 1] => taken[n] \in G[n]
    BY <1>9
  <2>2. \A n \in 0 .. N : taken[n] \in G[n]
    BY ONLY <1>0, <1>8, <2>1, StepByStep
  <2> QED
    BY <1>0, <2>2
<1> QED
  BY <1>0, <1>7, <1>10
-----------------------------------------------------------------------------
(* The rows of a Source: documents, revisions, chunks and their lineage    *)

DocumentRows == [path : Paths, rev : Nat, state : {"active", "deleted"}]
RevisionRows == [doc : Nat, snap : Nat, config : Configs, blob : Contents,
                 chunks : Seq([id : Nat, anchor : Nat])]
ChunkRows == [doc : Nat, text : Texts, state : {"active", "tombstoned"}]
Tables == [docs : Seq(DocumentRows), revs : Seq(RevisionRows), chunks : Seq(ChunkRows),
           lineage : SUBSET (Nat \X Nat)]

\* A current revision is one of its document, and no two documents have one path.
Documented(k) ==
    /\ \A d \in DOMAIN k.docs : k.docs[d].rev # 0 =>
         k.docs[d].rev \in DOMAIN k.revs /\ k.revs[k.docs[d].rev].doc = d
    /\ \A d, e \in DOMAIN k.docs : k.docs[d].path = k.docs[e].path => d = e

\* A revision has chunks of its document, none twice.
Chunked(k) ==
    /\ \A r \in DOMAIN k.revs :
         /\ k.revs[r].doc \in DOMAIN k.docs
         /\ \A i \in DOMAIN k.revs[r].chunks :
              /\ k.revs[r].chunks[i].id \in DOMAIN k.chunks
              /\ k.chunks[k.revs[r].chunks[i].id].doc = k.revs[r].doc
         /\ \A i, j \in DOMAIN k.revs[r].chunks :
              k.revs[r].chunks[i].id = k.revs[r].chunks[j].id => i = j
    /\ \A c \in DOMAIN k.chunks : k.chunks[c].doc \in DOMAIN k.docs

\* A chunk is a modification of an older one, and no revision has both.
Descended(k) ==
    \A l \in k.lineage :
        /\ l[1] \in DOMAIN k.chunks /\ l[2] \in DOMAIN k.chunks /\ l[1] < l[2]
        /\ \A r \in DOMAIN k.revs : ~ (l[1] \in ChunkIds(k, r) /\ l[2] \in ChunkIds(k, r))

Sound(k) == k \in Tables /\ Documented(k) /\ Chunked(k) /\ Descended(k)

\* The chunks that a document's current revision has.
Has(k, d) == IF k.docs[d].rev = 0 THEN {} ELSE ChunkIds(k, k.docs[d].rev)

LEMMA TablesAre ==
    ASSUME NEW k \in Tables
    PROVE  /\ DOMAIN k = {"docs", "revs", "chunks", "lineage"}
           /\ Len(k.docs) \in Nat /\ DOMAIN k.docs = 1 .. Len(k.docs)
           /\ Len(k.revs) \in Nat /\ DOMAIN k.revs = 1 .. Len(k.revs)
           /\ Len(k.chunks) \in Nat /\ DOMAIN k.chunks = 1 .. Len(k.chunks)
           /\ k.docs \in Seq(DocumentRows) /\ k.revs \in Seq(RevisionRows)
           /\ k.chunks \in Seq(ChunkRows) /\ k.lineage \subseteq Nat \X Nat
           /\ \A d \in 1 .. Len(k.docs) : k.docs[d] \in DocumentRows
           /\ \A r \in 1 .. Len(k.revs) : k.revs[r] \in RevisionRows
           /\ \A c \in 1 .. Len(k.chunks) : k.chunks[c] \in ChunkRows
<1>1. /\ DOMAIN k = {"docs", "revs", "chunks", "lineage"}
      /\ k.docs \in Seq(DocumentRows) /\ k.revs \in Seq(RevisionRows)
      /\ k.chunks \in Seq(ChunkRows) /\ k.lineage \subseteq Nat \X Nat
  BY DEF Tables
<1>2. ASSUME NEW S, NEW s \in Seq(S)
      PROVE  Len(s) \in Nat /\ DOMAIN s = 1 .. Len(s) /\ \A i \in 1 .. Len(s) : s[i] \in S
  OBVIOUS
<1> QED
  BY <1>1, <1>2

\* The chunks of the revision a document had, as the alignment sees them.
LEMMA PreviousAre ==
    ASSUME NEW k, Sound(k), NEW d \in DOMAIN k.docs,
           NEW previous, previous = PreviousChunks(k, k.docs[d].rev)
    PROVE  \E L \in Nat :
             /\ DOMAIN previous = 1 .. L
             /\ \A i \in 1 .. L : /\ previous[i].text \in Texts
                                  /\ previous[i].id \in Has(k, d)
             /\ \A i, j \in 1 .. L : previous[i].id = previous[j].id => i = j
             /\ \A c \in Has(k, d) : \E i \in 1 .. L : previous[i].id = c
<1>0. k \in Tables /\ Documented(k) /\ Chunked(k)
  BY DEF Sound
<1> DEFINE r == k.docs[d].rev
<1>1. CASE r = 0
  <2>1. previous = <<>> /\ Has(k, d) = {}
    BY <1>1 DEF PreviousChunks, Has
  <2>2. DOMAIN previous = 1 .. 0 /\ \A i \in 1 .. 0 : FALSE
    BY <2>1
  <2> QED
    BY <2>1, <2>2
<1>2. CASE r # 0
  <2>1. r \in 1 .. Len(k.revs) /\ k.revs[r] \in RevisionRows /\ DOMAIN k.revs = 1 .. Len(k.revs)
    BY <1>0, <1>2, TablesAre DEF Documented
  <2> DEFINE ch == k.revs[r].chunks
  <2>2. ch \in Seq([id : Nat, anchor : Nat])
    BY <2>1 DEF RevisionRows
  <2>3. Len(ch) \in Nat /\ DOMAIN ch = 1 .. Len(ch)
    BY ONLY <2>2
  <2>4. previous = [i \in DOMAIN ch |-> [id |-> ch[i].id, anchor |-> ch[i].anchor,
                                         text |-> k.chunks[ch[i].id].text]]
    BY <1>2 DEF PreviousChunks
  <2>5. Has(k, d) = {ch[i].id : i \in DOMAIN ch}
    BY <1>2 DEF Has, ChunkIds
  <2>6. \A i \in DOMAIN ch : ch[i].id \in DOMAIN k.chunks
    BY <1>0, <2>1 DEF Chunked
  <2>7. \A i, j \in DOMAIN ch : ch[i].id = ch[j].id => i = j
    BY <1>0, <2>1 DEF Chunked
  <2>8. \A c \in DOMAIN k.chunks : k.chunks[c].text \in Texts
    BY <1>0, TablesAre DEF ChunkRows
  <2> HIDE DEF ch
  <2>9. DOMAIN previous = 1 .. Len(ch)
    BY <2>3, <2>4
  <2>10. \A i \in 1 .. Len(ch) : previous[i].id = ch[i].id
                                 /\ previous[i].text = k.chunks[ch[i].id].text
    BY <2>3, <2>4
  <2>11. \A c \in Has(k, d) : \E i \in 1 .. Len(ch) : previous[i].id = c
    BY <2>3, <2>5, <2>10
  <2>12. \A i \in 1 .. Len(ch) : previous[i].text \in Texts /\ previous[i].id \in Has(k, d)
    BY <2>3, <2>5, <2>6, <2>8, <2>10
  <2>13. \A i, j \in 1 .. Len(ch) : previous[i].id = previous[j].id => i = j
    BY <2>3, <2>7, <2>10
  <2> QED
    BY <2>3, <2>9, <2>11, <2>12, <2>13
<1> QED
  BY <1>1, <1>2

\* The members of a set of naturals, counted upwards.
Nth(new, n) == Cardinality({j \in new : j <= n})

LEMMA CountsUp ==
    ASSUME NEW N \in Nat, NEW new, new \subseteq 1 .. N
    PROVE  /\ Cardinality(new) \in Nat
           /\ \A n \in new : Nth(new, n) \in 1 .. Cardinality(new)
           /\ \A m, n \in new : Nth(new, m) = Nth(new, n) => m = n
           /\ \A i \in 1 .. Cardinality(new) : \E n \in new : Nth(new, n) = i
<1> DEFINE upto(n) == {j \in new : j <= n}
<1>1. IsFiniteSet(new) /\ Cardinality(new) \in Nat
  <2>1. IsFiniteSet(1 .. N)
    BY FS_Interval
  <2> QED
    BY <2>1, FS_Subset, FS_CardinalityType
<1>2. ASSUME NEW n \in new
      PROVE  /\ IsFiniteSet(upto(n)) /\ Cardinality(upto(n)) \in 1 .. Cardinality(new)
  <2>1. upto(n) \in SUBSET new /\ n \in upto(n)
    OBVIOUS
  <2>2. IsFiniteSet(upto(n)) /\ Cardinality(upto(n)) <= Cardinality(new)
    BY <1>1, <2>1, FS_Subset
  <2>3. Cardinality(upto(n)) \in Nat /\ Cardinality(upto(n)) # 0
    BY <2>1, <2>2, FS_CardinalityType, FS_EmptySet
  <2> QED
    BY <1>1, <2>2, <2>3
<1>3. ASSUME NEW m \in new, NEW n \in new, m < n
      PROVE  Cardinality(upto(m)) < Cardinality(upto(n))
  <2>0. \A j \in new : j \in Nat
    OBVIOUS
  <2>1. upto(m) \in SUBSET upto(n) /\ n \in upto(n) /\ n \notin upto(m)
    <3>1. \A j \in new : j <= m => j <= n
      BY <1>3, <2>0
    <3>2. n <= n /\ ~ (n <= m)
      BY <1>3, <2>0
    <3> QED
      BY <3>1, <3>2
  <2>2. Cardinality(upto(m)) <= Cardinality(upto(n))
        /\ Cardinality(upto(m)) # Cardinality(upto(n))
    <3> HIDE DEF upto
    <3> QED
      BY <1>2, <2>1, FS_Subset
  <2>3. Cardinality(upto(m)) \in Nat /\ Cardinality(upto(n)) \in Nat
    BY <1>1, <1>2
  <2> HIDE DEF upto
  <2> QED
    BY <2>2, <2>3
<1>4. ASSUME NEW m \in new, NEW n \in new, Nth(new, m) = Nth(new, n) PROVE m = n
  <2>1. m \in Nat /\ n \in Nat
    OBVIOUS
  <2>2. ~ (m < n)
    <3>1. SUFFICES ASSUME m < n PROVE FALSE
      OBVIOUS
    <3>2. Cardinality(upto(m)) < Cardinality(upto(n))
      BY <1>3, <3>1
    <3>3. Cardinality(upto(m)) = Cardinality(upto(n)) /\ Cardinality(upto(m)) \in Nat
      BY <1>1, <1>2, <1>4 DEF Nth
    <3> HIDE DEF upto
    <3> QED
      BY <3>2, <3>3
  <2>3. ~ (n < m)
    <3>1. SUFFICES ASSUME n < m PROVE FALSE
      OBVIOUS
    <3>2. Cardinality(upto(n)) < Cardinality(upto(m))
      BY <1>3, <3>1
    <3>3. Cardinality(upto(m)) = Cardinality(upto(n)) /\ Cardinality(upto(m)) \in Nat
      BY <1>1, <1>2, <1>4 DEF Nth
    <3> HIDE DEF upto
    <3> QED
      BY <3>2, <3>3
  <2> QED
    BY <2>1, <2>2, <2>3
<1>5. \A n \in new : Nth(new, n) \in 1 .. Cardinality(new)
  BY <1>2 DEF Nth
<1>6. ASSUME NEW i \in 1 .. Cardinality(new) PROVE \E n \in new : Nth(new, n) = i
  <2> DEFINE C == Cardinality(new)
             f == [n \in new |-> Nth(new, n)]
  <2>1. f \in Injection(new, 1 .. C)
    <3>1. f \in [new -> 1 .. C]
      BY <1>5
    <3>2. IsInjective(f)
      BY <1>4 DEF IsInjective
    <3> QED
      BY <3>1, <3>2 DEF Injection
  <2>2. IsFiniteSet(1 .. C) /\ Cardinality(1 .. C) = C
    BY <1>1, FS_Interval
  <2> HIDE DEF f
  <2>3. f \in Surjection(new, 1 .. C)
    BY <2>1, <2>2, FS_Injection
  <2>4. \E n \in new : f[n] = i
    BY <2>3 DEF Surjection
  <2> QED
    BY <2>4 DEF f
<1> QED
  BY <1>1, <1>4, <1>5, <1>6
-----------------------------------------------------------------------------
(* A new revision of a document                                            *)

\* Document d is active with revision r.
Activates(docs, new, d, r) ==
    new = [docs EXCEPT ![d] = [@ EXCEPT !.state = "active", !.rev = r]]

\* What NewRevision does to the tables k of document d: was, the chunks it had;
\* C and R, the rows there were; kept, the chunks that the new revision has.
Revised(k, m, d, s, g, b) ==
    LET C == Len(k.chunks)
        R == Len(k.revs)
        kept == ChunkIds(m, R + 1)
    IN /\ m \in Tables
       /\ Activates(k.docs, m.docs, d, R + 1)
       /\ Len(m.revs) = R + 1 /\ \A r \in 1 .. R : m.revs[r] = k.revs[r]
       /\ m.revs[R + 1].doc = d /\ m.revs[R + 1].snap = s
       /\ m.revs[R + 1].config = g /\ m.revs[R + 1].blob = b
       /\ \A i, j \in DOMAIN m.revs[R + 1].chunks :
            m.revs[R + 1].chunks[i].id = m.revs[R + 1].chunks[j].id => i = j
       /\ C <= Len(m.chunks)
       /\ \A c \in 1 .. C :
            /\ m.chunks[c].doc = k.chunks[c].doc
            /\ m.chunks[c].state = IF c \in kept THEN "active"
                                   ELSE IF c \in Has(k, d) THEN "tombstoned"
                                   ELSE k.chunks[c].state
       /\ \A c \in C + 1 .. Len(m.chunks) : m.chunks[c].doc = d /\ c \in kept
       /\ kept \subseteq Has(k, d) \cup (C + 1 .. Len(m.chunks))
       /\ \A l \in m.lineage :
            \/ l \in k.lineage
            \/ l[1] \in Has(k, d) \ kept /\ l[2] \in C + 1 .. Len(m.chunks)

LEMMA DraftsAre ==
    ASSUME NEW c \in Contents, NEW g \in Configs
    PROVE  /\ ChunksOf[c, g] \in Seq([text : Nat, anchor : Nat])
           /\ Len(ChunksOf[c, g]) \in Nat /\ DOMAIN ChunksOf[c, g] = 1 .. Len(ChunksOf[c, g])
           /\ \A i \in 1 .. Len(ChunksOf[c, g]) : /\ ChunksOf[c, g][i].text \in Texts
                                                  /\ ChunksOf[c, g][i].anchor \in Nat
<1> DEFINE drafts == ChunksOf[c, g]
<1>1. drafts \in Seq([text : Nat, anchor : Nat])
  BY ContentAssumption
<1>2. \A i \in DOMAIN drafts : drafts[i].text \in Texts
  <2> DEFINE of(a, h) == {ChunksOf[a, h][i].text : i \in DOMAIN ChunksOf[a, h]}
  <2>1. \A i \in DOMAIN drafts : drafts[i].text \in of(c, g)
    OBVIOUS
  <2>2. Texts = UNION {of(a, h) : a \in Contents, h \in Configs}
    BY DEF Texts
  <2>3. of(c, g) \subseteq Texts
    <3> HIDE DEF of
    <3> QED
      BY <2>2
  <2> QED
    BY <2>1, <2>3
<1> HIDE DEF drafts
<1>3. Len(drafts) \in Nat /\ DOMAIN drafts = 1 .. Len(drafts)
      /\ \A i \in 1 .. Len(drafts) : drafts[i] \in [text : Nat, anchor : Nat]
  <2>1. ASSUME NEW S, NEW t \in Seq(S)
        PROVE  Len(t) \in Nat /\ DOMAIN t = 1 .. Len(t) /\ \A i \in 1 .. Len(t) : t[i] \in S
    OBVIOUS
  <2> QED
    BY <1>1, <2>1
<1>4. \A i \in 1 .. Len(drafts) : drafts[i].text \in Texts /\ drafts[i].anchor \in Nat
  BY <1>2, <1>3
<1> QED
  BY <1>1, <1>3, <1>4 DEF drafts

\* The chunk ids of the new revision: those of the drafts with an exact match are
\* the matches', the others follow the chunks there are.
IdsMade(L, N, C, E, was, old, exact, new, id) ==
    /\ was \subseteq 1 .. C
    /\ \A i \in 1 .. L : old[i] \in was
    /\ \A i, j \in 1 .. L : old[i] = old[j] => i = j
    /\ exact \in Takes(L, N)
    /\ new = {n \in 1 .. N : exact[n] = 0}
    /\ id = [n \in 1 .. N |-> IF n \in new THEN C + Nth(new, n) ELSE old[exact[n]]]
    /\ E = C + Cardinality(new)
IdsFit(L, N, C, E, was, old, exact, new, id) ==
    /\ E \in Nat /\ C <= E
    /\ \A n \in 1 .. N : id[n] \in was \cup (C + 1 .. E)
    /\ \A m, n \in 1 .. N : id[m] = id[n] => m = n
    /\ \A c \in C + 1 .. E : \E n \in 1 .. N : id[n] = c
    /\ \A n \in new : id[n] \in C + 1 .. E
    /\ \A i \in 1 .. L : i \notin Range(exact) => \A n \in 1 .. N : id[n] # old[i]
LEMMA NewIds ==
    ASSUME NEW L \in Nat, NEW N \in Nat, NEW C \in Nat, NEW E, NEW was, NEW old, NEW exact,
           NEW new, NEW id, IdsMade(L, N, C, E, was, old, exact, new, id)
    PROVE  IdsFit(L, N, C, E, was, old, exact, new, id)
<1>m. /\ was \subseteq 1 .. C
      /\ \A i \in 1 .. L : old[i] \in was
      /\ \A i, j \in 1 .. L : old[i] = old[j] => i = j
      /\ exact \in Takes(L, N)
      /\ new = {n \in 1 .. N : exact[n] = 0}
      /\ id = [n \in 1 .. N |-> IF n \in new THEN C + Nth(new, n) ELSE old[exact[n]]]
      /\ E = C + Cardinality(new)
  BY DEF IdsMade
<1> USE <1>m
<1>0. /\ Cardinality(new) \in Nat
      /\ \A n \in new : Nth(new, n) \in 1 .. Cardinality(new)
      /\ \A m, n \in new : Nth(new, m) = Nth(new, n) => m = n
      /\ \A i \in 1 .. Cardinality(new) : \E n \in new : Nth(new, n) = i
  <2>1. new \subseteq 1 .. N
    OBVIOUS
  <2> QED
    BY ONLY N \in Nat, <2>1, CountsUp
<1>1. E \in Nat /\ C <= E
  BY <1>0
<1>2. /\ exact \in Seq(0 .. L) /\ Len(exact) = N /\ DOMAIN exact = 1 .. N
      /\ \A i, j \in 1 .. N : exact[i] = exact[j] /\ exact[i] # 0 => i = j
  BY DEF Takes
<1>3. ASSUME NEW n \in 1 .. N, n \notin new
      PROVE  exact[n] \in 1 .. L /\ id[n] = old[exact[n]] /\ id[n] \in was /\ id[n] \in 1 .. C
  <2>1. exact[n] \in 0 .. L /\ exact[n] # 0
    BY <1>2, <1>3
  <2>2. exact[n] \in 1 .. L
    BY <2>1
  <2> QED
    BY <1>3, <2>2
<1>4. ASSUME NEW n \in new PROVE n \in 1 .. N /\ id[n] = C + Nth(new, n) /\ id[n] \in C + 1 .. E
  <2>1. n \in 1 .. N /\ id[n] = C + Nth(new, n)
    OBVIOUS
  <2>2. Nth(new, n) \in 1 .. Cardinality(new)
    BY <1>0
  <2> QED
    BY <1>0, <2>1, <2>2
<1>5. \A n \in 1 .. N : id[n] \in was \cup (C + 1 .. E)
  BY <1>3, <1>4
<1>6. ASSUME NEW m \in 1 .. N, NEW n \in 1 .. N, id[m] = id[n] PROVE m = n
  <2>1. CASE m \in new /\ n \in new
    <3>1. C + Nth(new, m) = C + Nth(new, n)
      BY <1>4, <1>6, <2>1
    <3>2. Nth(new, m) \in Nat /\ Nth(new, n) \in Nat
      BY <1>0, <2>1
    <3>3. Nth(new, m) = Nth(new, n)
      BY <3>1, <3>2
    <3> QED
      BY <1>0, <2>1, <3>3
  <2>2. CASE m \notin new /\ n \notin new
    <3>1. old[exact[m]] = old[exact[n]] /\ exact[m] \in 1 .. L /\ exact[n] \in 1 .. L
      BY <1>3, <1>6, <2>2
    <3>2. exact[m] = exact[n] /\ exact[m] # 0
      BY <3>1
    <3> QED
      BY <1>2, <3>2
  <2>3. CASE m \in new /\ n \notin new
    <3>1. id[m] \in C + 1 .. E /\ id[n] \in 1 .. C
      BY <1>3, <1>4, <2>3
    <3> QED
      BY <1>1, <1>6, <3>1
  <2>4. CASE m \notin new /\ n \in new
    <3>1. id[n] \in C + 1 .. E /\ id[m] \in 1 .. C
      BY <1>3, <1>4, <2>4
    <3> QED
      BY <1>1, <1>6, <3>1
  <2> QED
    BY <2>1, <2>2, <2>3, <2>4
<1>7. ASSUME NEW c \in C + 1 .. E PROVE \E n \in 1 .. N : id[n] = c
  <2>1. c - C \in 1 .. Cardinality(new)
    BY <1>0
  <2>2. PICK n \in new : Nth(new, n) = c - C
    BY <1>0, <2>1
  <2>3. n \in 1 .. N /\ id[n] = C + (c - C)
    BY <1>4, <2>2
  <2>4. C + (c - C) = c
    BY <1>1
  <2> QED
    BY <2>3, <2>4
<1>8. ASSUME NEW i \in 1 .. L, i \notin Range(exact), NEW n \in 1 .. N PROVE id[n] # old[i]
  <2>1. CASE n \in new
    <3>1. id[n] \in C + 1 .. E /\ old[i] \in 1 .. C
      BY <1>4, <2>1
    <3> QED
      BY <1>1, <3>1
  <2>2. CASE n \notin new
    <3>1. id[n] = old[exact[n]] /\ exact[n] \in 1 .. L
      BY <1>3, <2>2
    <3>2. exact[n] \in Range(exact)
      BY <1>2 DEF Range
    <3> QED
      BY <1>8, <3>1, <3>2
  <2> QED
    BY <2>1, <2>2
<1> QED
  BY <1>1, <1>4, <1>5, <1>6, <1>7, <1>8 DEF IdsFit

LEMMA ActivateDoes ==
    ASSUME NEW k, DOMAIN k = {"docs", "revs", "chunks", "lineage"}, NEW d \in DOMAIN k.docs, NEW r,
           NEW m, m = ActivateDocument(k, d, r)
    PROVE  /\ DOMAIN m = {"docs", "revs", "chunks", "lineage"}
           /\ Activates(k.docs, m.docs, d, r)
           /\ m.revs = k.revs /\ m.chunks = k.chunks /\ m.lineage = k.lineage
<1>1. m = [k EXCEPT !.docs = [[@ EXCEPT ![d].state = "active"] EXCEPT ![d].rev = r]]
  BY DEF ActivateDocument
<1>2. m.docs = [[k.docs EXCEPT ![d].state = "active"] EXCEPT ![d].rev = r]
  BY <1>1
<1>3. Activates(k.docs, m.docs, d, r)
  BY <1>2 DEF Activates
<1> QED
  BY <1>1, <1>3

LEMMA DocumentActivated ==
    ASSUME NEW docs \in Seq(DocumentRows), NEW d \in DOMAIN docs, NEW r \in Nat, NEW m,
           Activates(docs, m, d, r)
    PROVE  /\ m \in Seq(DocumentRows) /\ Len(m) = Len(docs) /\ DOMAIN m = DOMAIN docs
           /\ m[d].state = "active" /\ m[d].rev = r /\ m[d].path = docs[d].path
           /\ \A e \in DOMAIN docs : e # d => m[e] = docs[e]
<1>1. docs[d] \in DocumentRows /\ Len(docs) \in Nat /\ DOMAIN docs = 1 .. Len(docs)
      /\ docs \in [1 .. Len(docs) -> DocumentRows]
  OBVIOUS
<1> DEFINE row == [docs[d] EXCEPT !.state = "active", !.rev = r]
<1>2. row \in DocumentRows /\ row.state = "active" /\ row.rev = r /\ row.path = docs[d].path
  BY <1>1 DEF DocumentRows
<1>3. m = [docs EXCEPT ![d] = row]
  BY DEF Activates
<1> HIDE DEF row
<1>4. m \in [1 .. Len(docs) -> DocumentRows]
  BY <1>1, <1>2, <1>3
<1>5. m \in Seq(DocumentRows) /\ Len(m) = Len(docs)
  BY <1>1, <1>4
<1> QED
  BY <1>1, <1>2, <1>3, <1>4, <1>5

LEMMA SeqJoins ==
    ASSUME NEW S, NEW s \in Seq(S), NEW t \in Seq(S)
    PROVE  /\ s \o t \in Seq(S) /\ Len(s \o t) = Len(s) + Len(t)
           /\ \A i \in 1 .. Len(s) : (s \o t)[i] = s[i]
           /\ \A i \in Len(s) + 1 .. Len(s) + Len(t) : (s \o t)[i] = t[i - Len(s)]
OBVIOUS

LEMMA FunctionIsSeq ==
    ASSUME NEW S, NEW n \in Nat, NEW f, f \in [1 .. n -> S]
    PROVE  f \in Seq(S) /\ Len(f) = n
OBVIOUS

LEMMA RevisionIsNew ==
    ASSUME NEW k, Sound(k), NEW d \in DOMAIN k.docs, NEW s \in Nat, NEW g \in Configs,
           NEW b \in Contents, NEW c \in Contents,
           NEW m, m = NewRevision(k, d, s, g, b, ChunksOf[c, g])
    PROVE  Revised(k, m, d, s, g, b)
<1> DEFINE drafts == ChunksOf[c, g]
           previous == PreviousChunks(k, k.docs[d].rev)
           exact == Exact(previous, drafts)
           replaced == Replaced(previous, drafts, exact)
           new == {n \in DOMAIN drafts : exact[n] = 0}
           id == [n \in DOMAIN drafts |-> IF n \in new THEN Len(k.chunks) + Nth(new, n)
                                           ELSE previous[exact[n]].id]
           N == Len(drafts)
           C == Len(k.chunks)
           R == Len(k.revs)
           E == C + Cardinality(new)
           was == Has(k, d)
           kept == Range(id)
           refs == [n \in DOMAIN drafts |-> [id |-> id[n], anchor |-> drafts[n].anchor]]
           row == [doc |-> d, snap |-> s, config |-> g, blob |-> b, chunks |-> refs]
           unused == {previous[i].id : i \in DOMAIN previous} \ kept
           old == [x \in DOMAIN k.chunks |-> [k.chunks[x] EXCEPT !.state =
                     IF x \in kept THEN "active"
                     ELSE IF x \in unused THEN "tombstoned" ELSE @]]
           news == [n \in 1 .. Cardinality(new) |->
                     [doc |-> d, text |-> drafts[CHOOSE j \in new : Nth(new, j) = n].text,
                      state |-> "active"]]
           lines == {<<previous[replaced[n]].id, id[n]>> :
                       n \in {j \in DOMAIN drafts : replaced[j] # 0}}
           k1 == [k EXCEPT !.revs = Append(@, row), !.chunks = old \o news,
                           !.lineage = @ \cup lines]
<1>d0. m = ActivateDocument(k1, d, R + 1)
  BY ONLY m = NewRevision(k, d, s, g, b, ChunksOf[c, g]) DEF NewRevision, NewChunkId, Nth
<1>k1. k1 = [k EXCEPT !.revs = Append(@, row), !.chunks = old \o news, !.lineage = @ \cup lines]
  OBVIOUS
<1>d1. drafts = ChunksOf[c, g]
  OBVIOUS
<1>d2. previous = PreviousChunks(k, k.docs[d].rev)
  OBVIOUS
<1>d3. exact = Exact(previous, drafts)
  OBVIOUS
<1>d4. replaced = Replaced(previous, drafts, exact)
  OBVIOUS
<1>d5. new = {n \in DOMAIN drafts : exact[n] = 0}
  OBVIOUS
<1>d6. id = [n \in DOMAIN drafts |-> IF n \in new THEN Len(k.chunks) + Nth(new, n)
                                      ELSE previous[exact[n]].id]
  OBVIOUS
<1>d7. N = Len(drafts) /\ C = Len(k.chunks) /\ R = Len(k.revs) /\ E = C + Cardinality(new)
       /\ was = Has(k, d) /\ kept = Range(id)
  OBVIOUS
<1>d8. refs = [n \in DOMAIN drafts |-> [id |-> id[n], anchor |-> drafts[n].anchor]]
  OBVIOUS
<1>d9. row = [doc |-> d, snap |-> s, config |-> g, blob |-> b, chunks |-> refs]
  OBVIOUS
<1>d10. unused = {previous[i].id : i \in DOMAIN previous} \ kept
  OBVIOUS
<1>d11. old = [x \in DOMAIN k.chunks |-> [k.chunks[x] EXCEPT !.state =
                 IF x \in kept THEN "active"
                 ELSE IF x \in unused THEN "tombstoned" ELSE @]]
  OBVIOUS
<1>d12. news = [n \in 1 .. Cardinality(new) |->
                 [doc |-> d, text |-> drafts[CHOOSE j \in new : Nth(new, j) = n].text,
                  state |-> "active"]]
  OBVIOUS
<1>d13. lines = {<<previous[replaced[n]].id, id[n]>> :
                   n \in {j \in DOMAIN drafts : replaced[j] # 0}}
  OBVIOUS
<1> HIDE DEF drafts, previous, exact, replaced, new, id, N, C, R, E, was, kept, refs, row, unused,
             old, news, lines, k1
<1>1. k \in Tables /\ Documented(k) /\ Chunked(k)
  BY DEF Sound
<1>2. /\ DOMAIN k = {"docs", "revs", "chunks", "lineage"}
      /\ Len(k.docs) \in Nat /\ DOMAIN k.docs = 1 .. Len(k.docs)
      /\ R \in Nat /\ DOMAIN k.revs = 1 .. R
      /\ C \in Nat /\ DOMAIN k.chunks = 1 .. C
      /\ k.docs \in Seq(DocumentRows) /\ k.revs \in Seq(RevisionRows)
      /\ k.chunks \in Seq(ChunkRows) /\ k.lineage \subseteq Nat \X Nat
      /\ \A x \in 1 .. C : k.chunks[x] \in ChunkRows
  BY <1>1, <1>d7, TablesAre
<1>3. /\ drafts \in Seq([text : Nat, anchor : Nat]) /\ N \in Nat /\ DOMAIN drafts = 1 .. N
      /\ \A n \in 1 .. N : drafts[n].text \in Texts /\ drafts[n].anchor \in Nat
  BY <1>d1, <1>d7, DraftsAre
<1>4. /\ DOMAIN m = {"docs", "revs", "chunks", "lineage"}
      /\ Activates(k.docs, m.docs, d, R + 1)
      /\ m.revs = Append(k.revs, row)
      /\ m.chunks = old \o news
      /\ m.lineage = k.lineage \cup lines
  <2>3. /\ DOMAIN k1 = {"docs", "revs", "chunks", "lineage"} /\ k1.docs = k.docs
        /\ k1.revs = Append(k.revs, row) /\ k1.chunks = old \o news
        /\ k1.lineage = k.lineage \cup lines
    <3>1. DOMAIN k = {"docs", "revs", "chunks", "lineage"}
      BY <1>2
    <3> QED
      BY ONLY <1>k1, <3>1
  <2>4. /\ DOMAIN m = {"docs", "revs", "chunks", "lineage"}
        /\ Activates(k1.docs, m.docs, d, R + 1)
        /\ m.revs = k1.revs /\ m.chunks = k1.chunks /\ m.lineage = k1.lineage
    <3>1. d \in DOMAIN k1.docs /\ DOMAIN k1 = {"docs", "revs", "chunks", "lineage"}
      BY <2>3
    <3> QED
      BY ONLY <1>d0, <3>1, ActivateDoes
  <2> QED
    BY ONLY <2>3, <2>4
<1>5. PICK L \in Nat : /\ DOMAIN previous = 1 .. L
                       /\ \A i \in 1 .. L : /\ previous[i].text \in Texts
                                            /\ previous[i].id \in was
                       /\ \A i, j \in 1 .. L : previous[i].id = previous[j].id => i = j
                       /\ \A x \in was : \E i \in 1 .. L : previous[i].id = x
  <2>1. \E L \in Nat : /\ DOMAIN previous = 1 .. L
                       /\ \A i \in 1 .. L : /\ previous[i].text \in Texts
                                            /\ previous[i].id \in Has(k, d)
                       /\ \A i, j \in 1 .. L : previous[i].id = previous[j].id => i = j
                       /\ \A x \in Has(k, d) : \E i \in 1 .. L : previous[i].id = x
    BY ONLY Sound(k), d \in DOMAIN k.docs, <1>d2, PreviousAre
  <2>2. was = Has(k, d)
    BY <1>d7
  <2> QED
    BY ONLY <2>1, <2>2
<1>6. was \subseteq 1 .. C /\ \A x \in was : k.chunks[x].doc = d
  <2>1. CASE k.docs[d].rev = 0
    BY <2>1, <1>d7 DEF Has
  <2>2. CASE k.docs[d].rev # 0
    <3>1. k.docs[d].rev \in DOMAIN k.revs /\ k.revs[k.docs[d].rev].doc = d
      BY <1>1, <2>2 DEF Documented
    <3>2. \A x \in ChunkIds(k, k.docs[d].rev) : x \in DOMAIN k.chunks /\ k.chunks[x].doc = d
      BY <1>1, <3>1 DEF Chunked, ChunkIds
    <3> QED
      BY <1>2, <2>2, <3>2, <1>d7 DEF Has
  <2> QED
    BY <2>1, <2>2
<1>7. exact \in Takes(L, N)
  BY <1>3, <1>5, <1>d3, <1>d7, ExactTakes
<1>7a. \A n \in 1 .. N : exact[n] \in 0 .. L
  <2>1. exact \in Seq(0 .. L) /\ Len(exact) = N
    BY ONLY <1>7 DEF Takes
  <2> QED
    BY ONLY <2>1, <1>3
<1>8. replaced \in Replaces(L, exact, N)
  <2>1. \A i \in 1 .. L : previous[i].text \in Texts
    BY <1>5
  <2>2. N = Len(drafts) /\ \A n \in 1 .. Len(drafts) : drafts[n].text \in Texts
    BY <1>3, <1>d7
  <2>3. DOMAIN previous = 1 .. L
    BY <1>5
  <2> QED
    BY ONLY <1>3, L \in Nat, <2>1, <2>2, <2>3, <1>d4, ReplacedReplaces
<1>9. /\ E \in Nat /\ C <= E
      /\ \A n \in 1 .. N : id[n] \in was \cup (C + 1 .. E)
      /\ \A j, n \in 1 .. N : id[j] = id[n] => j = n
      /\ \A x \in C + 1 .. E : \E n \in 1 .. N : id[n] = x
      /\ \A n \in new : id[n] \in C + 1 .. E
      /\ \A i \in 1 .. L : i \notin Range(exact) => \A n \in 1 .. N : id[n] # previous[i].id
  <2>1. PICK ids : ids = [i \in 1 .. L |-> previous[i].id]
    OBVIOUS
  <2>2. /\ \A i \in 1 .. L : ids[i] \in was /\ ids[i] = previous[i].id
        /\ \A i, j \in 1 .. L : ids[i] = ids[j] => i = j
    BY <2>1, <1>5
  <2>3. new = {n \in 1 .. N : exact[n] = 0}
    BY <1>3, <1>d5
  <2>4. id = [n \in 1 .. N |-> IF n \in new THEN C + Nth(new, n) ELSE ids[exact[n]]]
    <3>1. ASSUME NEW n \in 1 .. N, n \notin new PROVE ids[exact[n]] = previous[exact[n]].id
      <4>1. exact[n] \in 0 .. L /\ exact[n] # 0
        BY ONLY <1>7a, <2>3, <3>1
      <4>2. exact[n] \in 1 .. L
        BY ONLY <4>1, L \in Nat
      <4> QED
        BY <4>2, <2>2
    <3> QED
      BY ONLY <1>3, <1>d6, <1>d7, <3>1
  <2>6. IdsMade(L, N, C, E, was, ids, exact, new, id)
    BY <1>2, <1>3, <1>6, <1>7, <1>d7, <2>2, <2>3, <2>4 DEF IdsMade
  <2>7. IdsFit(L, N, C, E, was, ids, exact, new, id)
    BY <1>2, <1>3, <2>6, NewIds
  <2> QED
    BY ONLY <2>2, <2>7 DEF IdsFit
<1>a. /\ Cardinality(new) \in Nat
      /\ \A n \in 1 .. Cardinality(new) : \E j \in new : Nth(new, j) = n
  <2>1. new \subseteq 1 .. N
    BY <1>3, <1>d5
  <2> QED
    BY ONLY <1>3, <2>1, CountsUp
<1>b. \A n \in 1 .. N : id[n] \in Nat
  <2>1. was \subseteq Nat /\ (C + 1 .. E) \subseteq Nat
    <3>1. C \in Nat /\ E \in Nat /\ was \subseteq 1 .. C
      BY ONLY <1>2, <1>6, <1>9
    <3> QED
      BY ONLY <3>1
  <2> QED
    BY ONLY <1>9, <2>1
<1>c. kept = {id[n] : n \in 1 .. N} /\ DOMAIN id = 1 .. N
  BY <1>3, <1>d6, <1>d7 DEF Range
<1>d. unused = was \ kept
  <2>1. {previous[i].id : i \in DOMAIN previous} = was
    BY ONLY <1>5
  <2> QED
    BY ONLY <2>1, <1>d10
(* its revision row *)
<1>10. refs \in Seq([id : Nat, anchor : Nat]) /\ Len(refs) = N /\ DOMAIN refs = 1 .. N
       /\ \A n \in 1 .. N : refs[n].id = id[n]
  <2>1. refs \in [1 .. N -> [id : Nat, anchor : Nat]]
    BY ONLY <1>3, <1>b, <1>d8
  <2>2. DOMAIN refs = 1 .. N /\ \A n \in 1 .. N : refs[n].id = id[n]
    BY ONLY <1>3, <1>d8
  <2> QED
    BY ONLY <1>3, <2>1, <2>2, FunctionIsSeq
<1>11. d \in Nat /\ row \in RevisionRows /\ row.doc = d /\ row.snap = s /\ row.config = g
       /\ row.blob = b /\ row.chunks = refs
  <2>1. d \in Nat
    BY ONLY <1>2, d \in DOMAIN k.docs
  <2> QED
    BY ONLY <2>1, <1>10, <1>d9, s \in Nat, g \in Configs, b \in Contents DEF RevisionRows
<1>12. /\ m.revs \in Seq(RevisionRows) /\ Len(m.revs) = R + 1 /\ m.revs[R + 1] = row
       /\ DOMAIN m.revs = 1 .. R + 1
       /\ \A r \in 1 .. R : m.revs[r] = k.revs[r]
  <2>1. k.revs \in Seq(RevisionRows) /\ row \in RevisionRows /\ Len(k.revs) = R
        /\ m.revs = Append(k.revs, row)
    BY <1>2, <1>4, <1>11, <1>d7
  <2> QED
    BY ONLY <2>1
<1>13. ChunkIds(m, R + 1) = kept
  <2>1. ChunkIds(m, R + 1) = {refs[n].id : n \in DOMAIN refs}
    BY ONLY <1>11, <1>12 DEF ChunkIds
  <2> QED
    BY ONLY <2>1, <1>10, <1>c
(* its chunk rows *)
<1>14. old \in Seq(ChunkRows) /\ Len(old) = C
       /\ \A x \in 1 .. C : /\ old[x].doc = k.chunks[x].doc
                            /\ old[x].state = IF x \in kept THEN "active"
                                              ELSE IF x \in was THEN "tombstoned"
                                              ELSE k.chunks[x].state
  <2>1. ASSUME NEW x \in 1 .. C
        PROVE  /\ old[x] \in ChunkRows /\ old[x].doc = k.chunks[x].doc
               /\ old[x].state = IF x \in kept THEN "active"
                                 ELSE IF x \in unused THEN "tombstoned" ELSE k.chunks[x].state
    <3>1. k.chunks[x] \in ChunkRows
      BY <1>2
    <3>2. old[x] = [k.chunks[x] EXCEPT !.state = IF x \in kept THEN "active"
                            ELSE IF x \in unused THEN "tombstoned" ELSE k.chunks[x].state]
      BY ONLY <1>2, <1>d11, x \in 1 .. C
    <3> QED
      BY ONLY <3>1, <3>2 DEF ChunkRows
  <2>2. old \in [1 .. C -> ChunkRows]
    <3>1. old = [x \in 1 .. C |-> old[x]]
      BY ONLY <1>2, <1>d11
    <3> QED
      BY ONLY <2>1, <3>1
  <2>3. old \in Seq(ChunkRows) /\ Len(old) = C
    BY <1>2, <2>2, FunctionIsSeq
  <2> QED
    BY ONLY <2>1, <2>3, <1>d
<1>15. news \in Seq(ChunkRows) /\ Len(news) = Cardinality(new)
       /\ \A n \in 1 .. Cardinality(new) : news[n].doc = d
  <2>1. ASSUME NEW n \in 1 .. Cardinality(new) PROVE news[n] \in ChunkRows /\ news[n].doc = d
    <3>0. PICK i : i = CHOOSE j \in new : Nth(new, j) = n
      OBVIOUS
    <3>1. i \in new
      BY <1>a, <3>0
    <3>2. i \in 1 .. N
      BY <1>3, <3>1, <1>d5
    <3>3. news[n] = [doc |-> d, text |-> drafts[i].text, state |-> "active"]
      BY <3>0, <1>d12
    <3>4. drafts[i].text \in Texts
      BY <1>3, <3>2
    <3> QED
      BY ONLY <1>11, <3>3, <3>4 DEF ChunkRows
  <2>2. news \in [1 .. Cardinality(new) -> ChunkRows]
    <3>1. news = [n \in 1 .. Cardinality(new) |-> news[n]]
      BY ONLY <1>d12
    <3> QED
      BY ONLY <2>1, <3>1
  <2>3. news \in Seq(ChunkRows) /\ Len(news) = Cardinality(new)
    BY <1>a, <2>2, FunctionIsSeq
  <2> QED
    BY ONLY <2>1, <2>3
<1>16. /\ m.chunks \in Seq(ChunkRows) /\ Len(m.chunks) = E
       /\ \A x \in 1 .. C : m.chunks[x] = old[x]
       /\ \A x \in C + 1 .. E : m.chunks[x].doc = d
  <2>0. E = C + Cardinality(new)
    BY <1>d7
  <2>1. /\ m.chunks \in Seq(ChunkRows) /\ Len(m.chunks) = C + Cardinality(new)
        /\ \A x \in 1 .. C : m.chunks[x] = old[x]
        /\ \A x \in C + 1 .. C + Cardinality(new) : m.chunks[x] = news[x - C]
    BY ONLY <1>4, <1>14, <1>15, SeqJoins
  <2>2. \A x \in C + 1 .. E : x - C \in 1 .. Cardinality(new)
    BY ONLY <1>2, <1>a, <2>0
  <2> QED
    BY ONLY <1>15, <2>0, <2>1, <2>2
(* its lineage *)
<1>17. ASSUME NEW l \in lines
       PROVE  /\ l \in Nat \X Nat /\ l[1] \in was \ kept /\ l[2] \in C + 1 .. E
  <2>1. PICK n \in {j \in DOMAIN drafts : replaced[j] # 0} :
           l = <<previous[replaced[n]].id, id[n]>>
    BY <1>d13
  <2>2. n \in 1 .. N /\ replaced[n] # 0
    BY <1>3
  <2>3. replaced[n] \in 0 .. L /\ exact[n] = 0 /\ replaced[n] \notin Range(exact)
    BY ONLY <1>8, <2>2, <1>3, L \in Nat DEF Replaces, Takes
  <2>4. replaced[n] \in 1 .. L
    BY ONLY <2>2, <2>3, L \in Nat
  <2>5. n \in new
    BY <1>3, <2>2, <2>3, <1>d5
  <2>6. l[1] = previous[replaced[n]].id /\ l[2] = id[n]
    BY <2>1
  <2>7. l[2] \in C + 1 .. E
    BY <1>9, <2>5, <2>6
  <2>8. l[1] \in was
    BY <1>5, <2>4, <2>6
  <2>9. l[1] \notin kept
    BY ONLY <1>9, <1>c, <2>3, <2>4, <2>6
  <2>10. l[1] \in Nat /\ l[2] \in Nat
    <3>1. was \subseteq Nat /\ (C + 1 .. E) \subseteq Nat
      BY ONLY <1>2, <1>6, <1>9
    <3> QED
      BY ONLY <2>7, <2>8, <3>1
  <2> QED
    BY ONLY <2>1, <2>6, <2>7, <2>8, <2>9, <2>10
<1>18. m \in Tables
  <2>1. m.docs \in Seq(DocumentRows)
    <3>1. R + 1 \in Nat
      BY ONLY <1>2
    <3>2. k.docs \in Seq(DocumentRows) /\ Activates(k.docs, m.docs, d, R + 1)
      BY ONLY <1>2, <1>4
    <3> QED
      BY ONLY <3>1, <3>2, d \in DOMAIN k.docs, DocumentActivated
  <2>2. m.lineage \in SUBSET (Nat \X Nat)
    BY <1>2, <1>4, <1>17
  <2>3. m = [docs |-> m.docs, revs |-> m.revs, chunks |-> m.chunks, lineage |-> m.lineage]
    <3>1. DOMAIN m = {"docs", "revs", "chunks", "lineage"}
      BY <1>4
    <3>2. m = [x \in DOMAIN m |-> m[x]]
      BY DEF NewRevision, ActivateDocument
    <3> QED
      BY ONLY <3>1, <3>2
  <2> QED
    BY ONLY <1>12, <1>16, <2>1, <2>2, <2>3 DEF Tables
<1>19. /\ \A x \in 1 .. C :
            /\ m.chunks[x].doc = k.chunks[x].doc
            /\ m.chunks[x].state = IF x \in kept THEN "active"
                                   ELSE IF x \in was THEN "tombstoned" ELSE k.chunks[x].state
       /\ \A x \in C + 1 .. E : m.chunks[x].doc = d /\ x \in kept
       /\ kept \subseteq was \cup (C + 1 .. E)
  <2>1. \A x \in C + 1 .. E : x \in kept
    BY ONLY <1>9, <1>c
  <2>2. kept \subseteq was \cup (C + 1 .. E)
    BY ONLY <1>9, <1>c
  <2> QED
    BY ONLY <1>14, <1>16, <2>1, <2>2
<1>20. \A l \in m.lineage : l \in k.lineage \/ (l[1] \in was \ kept /\ l[2] \in C + 1 .. E)
  BY ONLY <1>4, <1>17
<1>21. \A i, j \in DOMAIN m.revs[R + 1].chunks :
            m.revs[R + 1].chunks[i].id = m.revs[R + 1].chunks[j].id => i = j
  <2>1. m.revs[R + 1].chunks = refs
    BY ONLY <1>11, <1>12
  <2> QED
    BY ONLY <1>9, <1>10, <2>1
<1>22. m.revs[R + 1].doc = d /\ m.revs[R + 1].snap = s /\ m.revs[R + 1].config = g
       /\ m.revs[R + 1].blob = b
  BY ONLY <1>11, <1>12
<1>23. Len(k.chunks) = C /\ Len(k.revs) = R /\ Len(m.chunks) = E /\ Has(k, d) = was
  BY ONLY <1>d7, <1>16
<1> QED
  BY ONLY <1>4, <1>9, <1>12, <1>13, <1>18, <1>19, <1>20, <1>21, <1>22, <1>23 DEF Revised
-----------------------------------------------------------------------------
(* What publication keeps of the rows                                      *)

\* An active chunk is in the current revision of a document that is not deleted.
Mapped(k) ==
    \A c \in DOMAIN k.chunks : k.chunks[c].state = "active" =>
        LET d == k.chunks[c].doc
        IN k.docs[d].state = "active" /\ k.docs[d].rev # 0 /\ c \in ChunkIds(k, k.docs[d].rev)

LEMMA TablesMade ==
    ASSUME NEW m, DOMAIN m = {"docs", "revs", "chunks", "lineage"}, m = [x \in DOMAIN m |-> m[x]],
           m.docs \in Seq(DocumentRows), m.revs \in Seq(RevisionRows),
           m.chunks \in Seq(ChunkRows), m.lineage \subseteq Nat \X Nat
    PROVE  m \in Tables
<1>1. m = [docs |-> m.docs, revs |-> m.revs, chunks |-> m.chunks, lineage |-> m.lineage]
  OBVIOUS
<1>2. m.lineage \in SUBSET (Nat \X Nat)
  OBVIOUS
<1> QED
  BY ONLY <1>1, <1>2, m.docs \in Seq(DocumentRows), m.revs \in Seq(RevisionRows),
          m.chunks \in Seq(ChunkRows) DEF Tables

\* The ids of a revision's chunks are those of rows of its document.
LEMMA IdsAreRows ==
    ASSUME NEW k, Sound(k), NEW r \in DOMAIN k.revs
    PROVE  \A c \in ChunkIds(k, r) : c \in DOMAIN k.chunks /\ k.chunks[c].doc = k.revs[r].doc
BY DEF Sound, Chunked, ChunkIds

LEMMA HadAreRows ==
    ASSUME NEW k, Sound(k), NEW d \in DOMAIN k.docs
    PROVE  \A c \in Has(k, d) : c \in DOMAIN k.chunks /\ k.chunks[c].doc = d
<1>1. CASE k.docs[d].rev = 0
  BY <1>1 DEF Has
<1>2. CASE k.docs[d].rev # 0
  <2>1. k.docs[d].rev \in DOMAIN k.revs /\ k.revs[k.docs[d].rev].doc = d
    BY <1>2 DEF Sound, Documented
  <2>2. Has(k, d) = ChunkIds(k, k.docs[d].rev)
    BY <1>2 DEF Has
  <2> QED
    BY <2>1, <2>2, IdsAreRows
<1> QED
  BY <1>1, <1>2

\* A revision that is made current.
LEMMA ActivatedIsSound ==
    ASSUME NEW k, Sound(k), NEW d \in DOMAIN k.docs, NEW r \in DOMAIN k.revs, k.revs[r].doc = d,
           NEW m, m = ActivateDocument(k, d, r)
    PROVE  /\ Sound(m) /\ Activates(k.docs, m.docs, d, r)
           /\ m.revs = k.revs /\ m.chunks = k.chunks
           /\ (Mapped(k) /\ r = k.docs[d].rev) => Mapped(m)
<1>1. k \in Tables /\ Documented(k) /\ Chunked(k) /\ Descended(k)
  BY DEF Sound
<1>2. /\ DOMAIN k = {"docs", "revs", "chunks", "lineage"}
      /\ Len(k.docs) \in Nat /\ DOMAIN k.docs = 1 .. Len(k.docs)
      /\ Len(k.revs) \in Nat /\ DOMAIN k.revs = 1 .. Len(k.revs)
      /\ k.docs \in Seq(DocumentRows) /\ k.revs \in Seq(RevisionRows)
      /\ k.chunks \in Seq(ChunkRows) /\ k.lineage \subseteq Nat \X Nat
  BY <1>1, TablesAre
<1>3. /\ DOMAIN m = {"docs", "revs", "chunks", "lineage"}
      /\ Activates(k.docs, m.docs, d, r)
      /\ m.revs = k.revs /\ m.chunks = k.chunks /\ m.lineage = k.lineage
  <2>1. DOMAIN k = {"docs", "revs", "chunks", "lineage"}
    BY <1>2
  <2> QED
    BY ONLY <2>1, d \in DOMAIN k.docs, m = ActivateDocument(k, d, r), ActivateDoes
<1>4. r \in Nat /\ r # 0
  BY <1>2
<1>5. /\ m.docs \in Seq(DocumentRows) /\ Len(m.docs) = Len(k.docs) /\ DOMAIN m.docs = DOMAIN k.docs
      /\ m.docs[d].state = "active" /\ m.docs[d].rev = r /\ m.docs[d].path = k.docs[d].path
      /\ \A e \in DOMAIN k.docs : e # d => m.docs[e] = k.docs[e]
  BY ONLY <1>2, <1>3, <1>4, d \in DOMAIN k.docs, DocumentActivated
<1>6. m \in Tables
  <2>1. m = [x \in DOMAIN m |-> m[x]]
    BY DEF ActivateDocument
  <2> QED
    BY ONLY <1>2, <1>3, <1>5, <2>1, TablesMade
<1>7. Documented(m)
  <2>1. \A e \in DOMAIN m.docs : m.docs[e].rev # 0 =>
           m.docs[e].rev \in DOMAIN m.revs /\ m.revs[m.docs[e].rev].doc = e
    BY <1>1, <1>3, <1>5 DEF Documented
  <2>2. \A e \in DOMAIN m.docs : m.docs[e].path = k.docs[e].path
    BY <1>5
  <2> QED
    BY ONLY <1>1, <1>5, <2>1, <2>2 DEF Documented
<1>8. Chunked(m)
  BY ONLY <1>1, <1>3, <1>5 DEF Chunked
<1>9. \A x : ChunkIds(m, x) = ChunkIds(k, x)
  BY ONLY <1>3 DEF ChunkIds
<1>10. Descended(m)
  BY ONLY <1>1, <1>3, <1>9 DEF Descended
<1>11. ASSUME Mapped(k), r = k.docs[d].rev PROVE Mapped(m)
  <2>1. \A e \in DOMAIN k.docs : /\ m.docs[e].rev = k.docs[e].rev
                                 /\ k.docs[e].state = "active" => m.docs[e].state = "active"
    BY <1>5, <1>11
  <2>2. \A c \in DOMAIN k.chunks : k.chunks[c].doc \in DOMAIN k.docs
    BY <1>1 DEF Chunked
  <2> QED
    BY ONLY <1>3, <1>9, <1>11, <2>1, <2>2 DEF Mapped
<1> QED
  BY <1>3, <1>6, <1>7, <1>8, <1>10, <1>11 DEF Sound

\* A new revision keeps the rows sound and the active chunks mapped.
LEMMA RevisedIsSound ==
    ASSUME NEW k, Sound(k), NEW d \in DOMAIN k.docs, NEW s, NEW g, NEW b, NEW m,
           Revised(k, m, d, s, g, b)
    PROVE  Sound(m) /\ (Mapped(k) => Mapped(m))
<1>1. k \in Tables /\ Documented(k) /\ Chunked(k) /\ Descended(k)
  BY DEF Sound
<1>d. PICK C, R, E, kept : /\ C = Len(k.chunks) /\ R = Len(k.revs) /\ E = Len(m.chunks)
                           /\ kept = ChunkIds(m, R + 1)
  OBVIOUS
<1>2. /\ k.docs \in Seq(DocumentRows) /\ R \in Nat /\ DOMAIN k.revs = 1 .. R
      /\ C \in Nat /\ DOMAIN k.chunks = 1 .. C /\ DOMAIN k.docs = 1 .. Len(k.docs)
  BY <1>1, <1>d, TablesAre
<1>3. /\ m \in Tables
      /\ Activates(k.docs, m.docs, d, R + 1)
      /\ Len(m.revs) = R + 1 /\ \A r \in 1 .. R : m.revs[r] = k.revs[r]
      /\ m.revs[R + 1].doc = d
      /\ \A i, j \in DOMAIN m.revs[R + 1].chunks :
           m.revs[R + 1].chunks[i].id = m.revs[R + 1].chunks[j].id => i = j
      /\ C <= E
      /\ \A c \in 1 .. C :
           /\ m.chunks[c].doc = k.chunks[c].doc
           /\ m.chunks[c].state = IF c \in kept THEN "active"
                                  ELSE IF c \in Has(k, d) THEN "tombstoned"
                                  ELSE k.chunks[c].state
      /\ \A c \in C + 1 .. E : m.chunks[c].doc = d /\ c \in kept
      /\ kept \subseteq Has(k, d) \cup (C + 1 .. E)
      /\ \A l \in m.lineage :
           l \in k.lineage \/ (l[1] \in Has(k, d) \ kept /\ l[2] \in C + 1 .. E)
  BY ONLY <1>d, Revised(k, m, d, s, g, b) DEF Revised
<1>4. E \in Nat /\ DOMAIN m.chunks = 1 .. E /\ DOMAIN m.revs = 1 .. R + 1
  BY <1>3, <1>d, TablesAre
<1>5. /\ DOMAIN m.docs = DOMAIN k.docs /\ m.docs[d].state = "active" /\ m.docs[d].rev = R + 1
      /\ m.docs[d].path = k.docs[d].path
      /\ \A e \in DOMAIN k.docs : e # d => m.docs[e] = k.docs[e]
  <2>1. R + 1 \in Nat
    BY <1>2
  <2> QED
    BY ONLY <1>2, <1>3, <2>1, d \in DOMAIN k.docs, DocumentActivated
<1>6. \A c \in Has(k, d) : c \in 1 .. C /\ k.chunks[c].doc = d
  BY <1>2, HadAreRows
<1>7. /\ \A r \in 1 .. R : r \in 1 .. R + 1 /\ r # R + 1 /\ r # 0
      /\ \A r \in 1 .. R + 1 : r \in 1 .. R \/ r = R + 1
      /\ R + 1 \in 1 .. R + 1 /\ R + 1 # 0
      /\ \A c \in 1 .. C : c \in 1 .. E /\ c \notin C + 1 .. E
      /\ \A c \in 1 .. E : c \in 1 .. C \/ c \in C + 1 .. E
      /\ \A c \in C + 1 .. E : c \in 1 .. E
  BY ONLY <1>2, <1>3, <1>4
<1>8. \A c \in kept : c \in 1 .. E /\ m.chunks[c].doc = d
  BY <1>3, <1>6, <1>7
<1>9. \A r \in 1 .. R : ChunkIds(m, r) = ChunkIds(k, r)
  BY ONLY <1>3 DEF ChunkIds
<1>10. \A r \in 1 .. R : \A c \in ChunkIds(k, r) : c \in 1 .. C
  BY <1>2, IdsAreRows
<1>11. Documented(m)
  <2>1. \A e \in DOMAIN m.docs : m.docs[e].rev # 0 =>
           m.docs[e].rev \in DOMAIN m.revs /\ m.revs[m.docs[e].rev].doc = e
    <3>1. TAKE e \in DOMAIN m.docs
    <3>2. CASE e = d
      BY <1>3, <1>4, <1>5, <1>7, <3>2
    <3>3. CASE e # d
      <4>1. m.docs[e] = k.docs[e] /\ e \in DOMAIN k.docs
        BY <1>5, <3>3
      <4>2. k.docs[e].rev # 0 => k.docs[e].rev \in 1 .. R /\ k.revs[k.docs[e].rev].doc = e
        BY <1>1, <1>2, <4>1 DEF Documented
      <4> QED
        BY <1>3, <1>4, <1>7, <4>1, <4>2
    <3> QED
      BY <3>2, <3>3
  <2>2. \A e \in DOMAIN m.docs : m.docs[e].path = k.docs[e].path
    BY <1>5
  <2> QED
    BY ONLY <1>1, <1>5, <2>1, <2>2 DEF Documented
<1>12. Chunked(m)
  <2>1. ASSUME NEW r \in DOMAIN m.revs
        PROVE  /\ m.revs[r].doc \in DOMAIN m.docs
               /\ \A i \in DOMAIN m.revs[r].chunks :
                    /\ m.revs[r].chunks[i].id \in DOMAIN m.chunks
                    /\ m.chunks[m.revs[r].chunks[i].id].doc = m.revs[r].doc
               /\ \A i, j \in DOMAIN m.revs[r].chunks :
                    m.revs[r].chunks[i].id = m.revs[r].chunks[j].id => i = j
    <3>1. CASE r = R + 1
      <4>1. \A i \in DOMAIN m.revs[r].chunks : m.revs[r].chunks[i].id \in kept
        BY <1>d, <3>1 DEF ChunkIds
      <4> QED
        BY ONLY <1>3, <1>4, <1>5, <1>8, <3>1, <4>1, d \in DOMAIN k.docs
    <3>2. CASE r # R + 1
      <4>1. r \in 1 .. R /\ r \in DOMAIN k.revs /\ m.revs[r] = k.revs[r]
        BY <1>2, <1>3, <1>4, <1>7, <3>2
      <4>2. /\ k.revs[r].doc \in DOMAIN k.docs
            /\ \A i \in DOMAIN k.revs[r].chunks :
                 /\ k.revs[r].chunks[i].id \in 1 .. C
                 /\ k.chunks[k.revs[r].chunks[i].id].doc = k.revs[r].doc
            /\ \A i, j \in DOMAIN k.revs[r].chunks :
                 k.revs[r].chunks[i].id = k.revs[r].chunks[j].id => i = j
        BY ONLY <1>1, <1>2, <4>1 DEF Chunked
      <4> QED
        BY ONLY <1>3, <1>4, <1>5, <1>7, <4>1, <4>2
    <3> QED
      BY <3>1, <3>2
  <2>2. \A c \in DOMAIN m.chunks : m.chunks[c].doc \in DOMAIN m.docs
    <3>1. \A c \in 1 .. C : k.chunks[c].doc \in DOMAIN k.docs
      BY <1>1, <1>2 DEF Chunked
    <3> QED
      BY ONLY <1>3, <1>4, <1>5, <1>7, <3>1, d \in DOMAIN k.docs
  <2> QED
    BY ONLY <2>1, <2>2 DEF Chunked
<1>13. Descended(m)
  <2>1. ASSUME NEW l \in m.lineage
        PROVE  /\ l[1] \in DOMAIN m.chunks /\ l[2] \in DOMAIN m.chunks /\ l[1] < l[2]
               /\ \A r \in DOMAIN m.revs : ~ (l[1] \in ChunkIds(m, r) /\ l[2] \in ChunkIds(m, r))
    <3>1. CASE l \in k.lineage
      <4>1. /\ l[1] \in 1 .. C /\ l[2] \in 1 .. C /\ l[1] < l[2]
            /\ \A r \in 1 .. R : ~ (l[1] \in ChunkIds(k, r) /\ l[2] \in ChunkIds(k, r))
        BY ONLY <1>1, <1>2, <3>1 DEF Descended
      <4>2. ~ (l[1] \in kept /\ l[2] \in kept)
        <5>1. SUFFICES ASSUME l[1] \in kept, l[2] \in kept PROVE FALSE
          OBVIOUS
        <5>2. l[1] \in Has(k, d) /\ l[2] \in Has(k, d)
          BY <1>3, <1>7, <4>1, <5>1
        <5>3. k.docs[d].rev # 0 /\ Has(k, d) = ChunkIds(k, k.docs[d].rev)
          BY <5>2 DEF Has
        <5>4. k.docs[d].rev \in 1 .. R
          BY <1>1, <1>2, <5>3 DEF Documented
        <5> QED
          BY <4>1, <5>2, <5>3, <5>4
      <4> QED
        BY ONLY <1>d, <1>4, <1>7, <1>9, <4>1, <4>2
    <3>2. CASE l \notin k.lineage
      <4>1. l[1] \in Has(k, d) /\ l[1] \notin kept /\ l[2] \in C + 1 .. E
        BY <1>3, <3>2
      <4>2. l[1] \in 1 .. C
        BY <1>6, <4>1
      <4>3. l[1] < l[2]
        BY ONLY <1>2, <1>4, <4>1, <4>2
      <4>4. \A r \in 1 .. R : l[2] \notin ChunkIds(m, r)
        BY <1>7, <1>9, <1>10, <4>1
      <4> QED
        BY ONLY <1>d, <1>4, <1>7, <4>1, <4>2, <4>3, <4>4
    <3> QED
      BY <3>1, <3>2
  <2> QED
    BY ONLY <2>1 DEF Descended
<1>14. ASSUME Mapped(k) PROVE Mapped(m)
  <2>1. ASSUME NEW c \in 1 .. E, m.chunks[c].state = "active"
        PROVE  /\ m.docs[m.chunks[c].doc].state = "active" /\ m.docs[m.chunks[c].doc].rev # 0
               /\ c \in ChunkIds(m, m.docs[m.chunks[c].doc].rev)
    <3>1. CASE c \in kept
      <4>1. m.chunks[c].doc = d
        BY <1>8, <3>1
      <4> QED
        BY ONLY <1>d, <1>5, <1>7, <3>1, <4>1
    <3>2. CASE c \notin kept
      <4>1. c \in 1 .. C
        BY <1>3, <1>7, <3>2
      <4>2. c \notin Has(k, d) /\ k.chunks[c].state = "active" /\ m.chunks[c].doc = k.chunks[c].doc
        BY <1>3, <2>1, <3>2, <4>1
      <4>3. PICK e : e = k.chunks[c].doc
        OBVIOUS
      <4>4. k.docs[e].state = "active" /\ k.docs[e].rev # 0 /\ c \in ChunkIds(k, k.docs[e].rev)
        BY ONLY <1>2, <1>14, <4>1, <4>2, <4>3 DEF Mapped
      <4>5. e # d
        BY <4>2, <4>4 DEF Has
      <4>6. e \in DOMAIN k.docs
        BY <1>1, <1>2, <4>1, <4>3 DEF Chunked
      <4>7. m.docs[e] = k.docs[e] /\ k.docs[e].rev \in 1 .. R
        BY <1>1, <1>2, <1>5, <4>4, <4>5, <4>6 DEF Documented
      <4> QED
        BY ONLY <1>9, <4>2, <4>3, <4>4, <4>7
    <3> QED
      BY <3>1, <3>2
  <2> QED
    BY ONLY <1>4, <2>1 DEF Mapped
<1> QED
  BY <1>3, <1>11, <1>12, <1>13, <1>14 DEF Sound
-----------------------------------------------------------------------------
(* Publication of one file                                                 *)

\* No revision of document d was made for snapshot s with settings g.
Undone(k, d, s, g) ==
    \A r \in DOMAIN k.revs :
        ~ (k.revs[r].doc = d /\ k.revs[r].snap = s /\ k.revs[r].config = g)

\* A file that was published for the snapshot already is as the snapshot has it.
Fresh(k, f, b, s, g) ==
    \A d \in DocumentsAt(k, f) : Unchanged(k, d, g, b) \/ Undone(k, d, s, g)
Shown(k, f, b, g) ==
    \E d \in DocumentsAt(k, f) : k.docs[d].state = "active" /\ Unchanged(k, d, g, b)

\* What the publication of blob b at path f does to the tables.
Publishes(k, m, f, b, s, g) ==
    /\ Sound(m)
    /\ \A e \in DOMAIN k.docs : /\ e \in DOMAIN m.docs /\ m.docs[e].path = k.docs[e].path
                                /\ k.docs[e].path # f => m.docs[e] = k.docs[e]
    /\ \A e \in DOMAIN m.docs : e \in DOMAIN k.docs \/ m.docs[e].path = f
    /\ \A r \in DOMAIN k.revs : r \in DOMAIN m.revs /\ m.revs[r] = k.revs[r]
    /\ \A r \in DOMAIN m.revs :
         \/ r \in DOMAIN k.revs
         \/ m.revs[r].snap = s /\ m.revs[r].config = g /\ m.docs[m.revs[r].doc].path = f
    /\ Fresh(k, f, b, s, g) => (Mapped(k) => Mapped(m)) /\ Shown(m, f, b, g)

LEMMA FoundIs ==
    ASSUME NEW k, Sound(k), NEW f \in Paths, NEW m, m = FindOrCreateDocument(k, f)
    PROVE  /\ Sound(m) /\ DocumentsAt(m, f) # {}
           /\ \A e \in DOMAIN k.docs : e \in DOMAIN m.docs /\ m.docs[e] = k.docs[e]
           /\ \A e \in DOMAIN m.docs : e \in DOMAIN k.docs \/ m.docs[e].path = f
           /\ m.revs = k.revs /\ m.chunks = k.chunks
           /\ Mapped(k) => Mapped(m)
<1>1. CASE DocumentsAt(k, f) # {}
  <2>1. m = k
    BY <1>1 DEF FindOrCreateDocument
  <2> QED
    BY <1>1, <2>1
<1>2. CASE DocumentsAt(k, f) = {}
  <2>0. PICK row : row = [path |-> f, rev |-> 0, state |-> "active"]
    OBVIOUS
  <2>1. m = [k EXCEPT !.docs = Append(@, row)]
    BY <1>2, <2>0 DEF FindOrCreateDocument
  <2>2. k \in Tables /\ Documented(k) /\ Chunked(k) /\ Descended(k)
    BY DEF Sound
  <2>3. /\ DOMAIN k = {"docs", "revs", "chunks", "lineage"}
        /\ Len(k.docs) \in Nat /\ DOMAIN k.docs = 1 .. Len(k.docs)
        /\ k.docs \in Seq(DocumentRows) /\ k.revs \in Seq(RevisionRows)
        /\ k.chunks \in Seq(ChunkRows) /\ k.lineage \subseteq Nat \X Nat
    BY <2>2, TablesAre
  <2>4. /\ DOMAIN m = {"docs", "revs", "chunks", "lineage"} /\ m = [x \in DOMAIN m |-> m[x]]
        /\ m.docs = Append(k.docs, row)
        /\ m.revs = k.revs /\ m.chunks = k.chunks /\ m.lineage = k.lineage
    BY ONLY <2>1, <2>3
  <2>5. row \in DocumentRows /\ row.path = f /\ row.rev = 0
    BY ONLY <2>0, f \in Paths DEF DocumentRows
  <2>n. PICK n : n = Len(k.docs) + 1
    OBVIOUS
  <2>6. /\ m.docs \in Seq(DocumentRows) /\ DOMAIN m.docs = 1 .. n /\ m.docs[n] = row
        /\ \A e \in 1 .. n : e \in DOMAIN k.docs \/ e = n
        /\ n \in 1 .. n /\ n \notin DOMAIN k.docs
        /\ \A e \in DOMAIN k.docs : e \in 1 .. n /\ m.docs[e] = k.docs[e]
    <3>1. Len(Append(k.docs, row)) = n
      BY ONLY <2>3, <2>5, <2>n
    <3> QED
      BY ONLY <2>3, <2>4, <2>5, <2>n, <3>1
  <2>7. m \in Tables
    BY ONLY <2>3, <2>4, <2>6, TablesMade
  <2>8. Documented(m)
    <3>1. \A e \in DOMAIN m.docs : m.docs[e].rev # 0 =>
             m.docs[e].rev \in DOMAIN m.revs /\ m.revs[m.docs[e].rev].doc = e
      BY ONLY <2>2, <2>4, <2>5, <2>6 DEF Documented
    <3>2. \A e \in DOMAIN k.docs : k.docs[e].path # f
      BY <1>2 DEF DocumentsAt, PathKey
    <3>3. \A d, e \in DOMAIN m.docs : m.docs[d].path = m.docs[e].path => d = e
      BY ONLY <2>2, <2>5, <2>6, <3>2 DEF Documented
    <3> QED
      BY ONLY <3>1, <3>3 DEF Documented
  <2>9. Chunked(m)
    BY ONLY <2>2, <2>4, <2>6 DEF Chunked
  <2>10. \A x : ChunkIds(m, x) = ChunkIds(k, x)
    BY ONLY <2>4 DEF ChunkIds
  <2>11. Descended(m)
    BY ONLY <2>2, <2>4, <2>10 DEF Descended
  <2>12. Mapped(k) => Mapped(m)
    <3>1. \A c \in DOMAIN k.chunks : k.chunks[c].doc \in DOMAIN k.docs
      BY <2>2 DEF Chunked
    <3> QED
      BY ONLY <2>4, <2>6, <2>10, <3>1 DEF Mapped
  <2>13. n \in DocumentsAt(m, f)
    BY ONLY <2>5, <2>6 DEF DocumentsAt, PathKey
  <2> QED
    BY <2>2, <2>4, <2>5, <2>6, <2>7, <2>8, <2>9, <2>11, <2>12, <2>13 DEF Sound
<1> QED
  BY <1>1, <1>2

\* The three ways PublishDocument ends, from the tables k with the document d.
LEMMA FileIsPublished ==
    ASSUME NEW k, Sound(k), NEW f \in Paths, NEW s \in Nat, NEW g \in Configs,
           NEW b \in Contents, NEW c \in Contents,
           NEW d \in DocumentsAt(k, f),
           NEW m, m = PublishRevision(k, d, b, c, s, g)
    PROVE  Publishes(k, m, f, b, s, g)
<1> DEFINE old == {r \in DOMAIN k.revs : /\ k.revs[r].doc = d /\ k.revs[r].snap = s
                                         /\ k.revs[r].config = g}
<1>m. m = IF Unchanged(k, d, g, b) THEN ActivateDocument(k, d, k.docs[d].rev)
          ELSE IF old # {} THEN ActivateDocument(k, d, One(old))
          ELSE NewRevision(k, d, s, g, b, ChunksOf[c, g])
  BY DEF PublishRevision
<1>1. d \in DOMAIN k.docs /\ k.docs[d].path = f
  BY DEF DocumentsAt, PathKey
<1>2. k \in Tables /\ Documented(k) /\ Chunked(k) /\ DOMAIN k.docs = 1 .. Len(k.docs)
      /\ k.docs \in Seq(DocumentRows) /\ DOMAIN k.revs = 1 .. Len(k.revs) /\ Len(k.revs) \in Nat
  BY TablesAre DEF Sound
<1>3. \A e \in DOMAIN k.docs : k.docs[e].path = f => e = d
  BY <1>1, <1>2 DEF Documented
<1>4. ASSUME NEW r \in DOMAIN k.revs, k.revs[r].doc = d, m = ActivateDocument(k, d, r)
      PROVE  /\ Sound(m) /\ m.revs = k.revs /\ DOMAIN m.docs = DOMAIN k.docs
             /\ m.docs[d].state = "active" /\ m.docs[d].rev = r /\ m.docs[d].path = f
             /\ \A e \in DOMAIN k.docs : e # d => m.docs[e] = k.docs[e]
             /\ (Mapped(k) /\ r = k.docs[d].rev) => Mapped(m)
  <2>1. /\ Sound(m) /\ Activates(k.docs, m.docs, d, r)
        /\ m.revs = k.revs /\ m.chunks = k.chunks
        /\ (Mapped(k) /\ r = k.docs[d].rev) => Mapped(m)
    BY ONLY Sound(k), <1>1, <1>4, ActivatedIsSound
  <2>2. r \in Nat
    <3>1. r \in 1 .. Len(k.revs) /\ Len(k.revs) \in Nat
      BY ONLY <1>2, <1>4
    <3> QED
      BY ONLY <3>1
  <2>3. /\ DOMAIN m.docs = DOMAIN k.docs
        /\ m.docs[d].state = "active" /\ m.docs[d].rev = r /\ m.docs[d].path = k.docs[d].path
        /\ \A e \in DOMAIN k.docs : e # d => m.docs[e] = k.docs[e]
    BY ONLY <1>1, <1>2, <2>1, <2>2, DocumentActivated
  <2> QED
    BY ONLY <1>1, <2>1, <2>3
<1>5. ASSUME NEW r \in DOMAIN k.revs, k.revs[r].doc = d, m = ActivateDocument(k, d, r)
      PROVE  /\ Sound(m)
             /\ \A e \in DOMAIN k.docs : /\ e \in DOMAIN m.docs /\ m.docs[e].path = k.docs[e].path
                                         /\ k.docs[e].path # f => m.docs[e] = k.docs[e]
             /\ \A e \in DOMAIN m.docs : e \in DOMAIN k.docs
             /\ m.revs = k.revs /\ d \in DocumentsAt(m, f)
             /\ m.docs[d].state = "active" /\ m.docs[d].rev = r
             /\ (Mapped(k) /\ r = k.docs[d].rev) => Mapped(m)
  BY ONLY <1>1, <1>4, <1>5 DEF DocumentsAt, PathKey
<1>6. CASE Unchanged(k, d, g, b)
  <2>1. PICK r : r = k.docs[d].rev
    OBVIOUS
  <2>2. r # 0 /\ k.revs[r].blob = b /\ k.revs[r].config = g
    BY <1>6, <2>1 DEF Unchanged
  <2>3. r \in DOMAIN k.revs /\ k.revs[r].doc = d
    BY <1>1, <1>2, <2>1, <2>2 DEF Documented
  <2>4. m = ActivateDocument(k, d, r)
    BY <1>m, <1>6, <2>1
  <2>5. /\ Sound(m)
        /\ \A e \in DOMAIN k.docs : /\ e \in DOMAIN m.docs /\ m.docs[e].path = k.docs[e].path
                                    /\ k.docs[e].path # f => m.docs[e] = k.docs[e]
        /\ \A e \in DOMAIN m.docs : e \in DOMAIN k.docs
        /\ m.revs = k.revs /\ d \in DocumentsAt(m, f)
        /\ m.docs[d].state = "active" /\ m.docs[d].rev = r
        /\ (Mapped(k) /\ r = k.docs[d].rev) => Mapped(m)
    BY ONLY <2>3, <2>4, <1>5
  <2>6. Shown(m, f, b, g)
    BY ONLY <2>2, <2>5 DEF Shown, Unchanged
  <2> QED
    BY ONLY <2>1, <2>5, <2>6 DEF Publishes
<1>7. CASE ~ Unchanged(k, d, g, b) /\ old # {}
  <2>1. PICK r : r = One(old)
    OBVIOUS
  <2>2. r \in old
    BY <1>7, <2>1 DEF One
  <2>3. r \in DOMAIN k.revs /\ k.revs[r].doc = d /\ k.revs[r].snap = s /\ k.revs[r].config = g
    BY <2>2
  <2>4. m = ActivateDocument(k, d, r)
    BY <1>m, <1>7, <2>1
  <2>5. /\ Sound(m)
        /\ \A e \in DOMAIN k.docs : /\ e \in DOMAIN m.docs /\ m.docs[e].path = k.docs[e].path
                                    /\ k.docs[e].path # f => m.docs[e] = k.docs[e]
        /\ \A e \in DOMAIN m.docs : e \in DOMAIN k.docs
        /\ m.revs = k.revs
    BY ONLY <2>3, <2>4, <1>5
  <2>6. ~ Fresh(k, f, b, s, g)
    BY ONLY <1>7, <2>3, d \in DocumentsAt(k, f) DEF Fresh, Undone
  <2> QED
    BY ONLY <2>5, <2>6 DEF Publishes
<1>8. CASE ~ Unchanged(k, d, g, b) /\ old = {}
  <2>1. m = NewRevision(k, d, s, g, b, ChunksOf[c, g])
    BY <1>m, <1>8
  <2>2. Revised(k, m, d, s, g, b)
    BY ONLY Sound(k), <1>1, s \in Nat, g \in Configs, b \in Contents, c \in Contents, <2>1,
            RevisionIsNew
  <2>3. Sound(m) /\ (Mapped(k) => Mapped(m))
    BY ONLY Sound(k), <1>1, <2>2, RevisedIsSound
  <2>r. PICK R : R = Len(k.revs)
    OBVIOUS
  <2>4. /\ Activates(k.docs, m.docs, d, R + 1)
        /\ Len(m.revs) = R + 1 /\ \A r \in 1 .. R : m.revs[r] = k.revs[r]
        /\ m.revs[R + 1].doc = d /\ m.revs[R + 1].snap = s
        /\ m.revs[R + 1].config = g /\ m.revs[R + 1].blob = b
    BY ONLY <2>2, <2>r DEF Revised
  <2>5. R \in Nat /\ DOMAIN k.revs = 1 .. R
    BY <1>2, <2>r
  <2>6. m \in Tables
    BY <2>3 DEF Sound
  <2>7. DOMAIN m.revs = 1 .. R + 1
    BY ONLY <2>4, <2>6, TablesAre
  <2>8. /\ \A r \in 1 .. R : r \in 1 .. R + 1
        /\ \A r \in 1 .. R + 1 : r \in 1 .. R \/ r = R + 1
        /\ R + 1 # 0 /\ R + 1 \in Nat
    BY ONLY <2>5
  <2>9. /\ DOMAIN m.docs = DOMAIN k.docs
        /\ m.docs[d].state = "active" /\ m.docs[d].rev = R + 1 /\ m.docs[d].path = k.docs[d].path
        /\ \A e \in DOMAIN k.docs : e # d => m.docs[e] = k.docs[e]
    BY ONLY <1>1, <1>2, <2>4, <2>8, DocumentActivated
  <2>10. d \in DocumentsAt(m, f)
    BY ONLY <1>1, <2>9 DEF DocumentsAt, PathKey
  <2>11. Shown(m, f, b, g)
    BY ONLY <2>4, <2>8, <2>9, <2>10 DEF Shown, Unchanged
  <2>12. /\ \A e \in DOMAIN k.docs : /\ e \in DOMAIN m.docs /\ m.docs[e].path = k.docs[e].path
                                     /\ k.docs[e].path # f => m.docs[e] = k.docs[e]
         /\ \A e \in DOMAIN m.docs : e \in DOMAIN k.docs
    BY ONLY <1>1, <2>9
  <2>13. /\ \A r \in DOMAIN k.revs : r \in DOMAIN m.revs /\ m.revs[r] = k.revs[r]
         /\ \A r \in DOMAIN m.revs :
              \/ r \in DOMAIN k.revs
              \/ m.revs[r].snap = s /\ m.revs[r].config = g /\ m.docs[m.revs[r].doc].path = f
    BY ONLY <1>1, <2>4, <2>5, <2>7, <2>8, <2>9
  <2> QED
    BY ONLY <2>3, <2>11, <2>12, <2>13 DEF Publishes
<1> QED
  BY <1>6, <1>7, <1>8

LEMMA DocumentIsPublished ==
    ASSUME NEW k, Sound(k), NEW f \in Paths, NEW s \in Nat, NEW g \in Configs,
           NEW b \in Contents, NEW c \in Contents, NEW m, m = PublishDocument(k, f, b, c, s, g)
    PROVE  Publishes(k, m, f, b, s, g)
<1>1. PICK k1 : k1 = FindOrCreateDocument(k, f)
  OBVIOUS
<1>2. PICK d : d = One(DocumentsAt(k1, f))
  OBVIOUS
<1>4. m = PublishRevision(k1, d, b, c, s, g)
  BY <1>1, <1>2 DEF PublishDocument
<1>5. /\ Sound(k1) /\ DocumentsAt(k1, f) # {}
      /\ \A e \in DOMAIN k.docs : e \in DOMAIN k1.docs /\ k1.docs[e] = k.docs[e]
      /\ \A e \in DOMAIN k1.docs : e \in DOMAIN k.docs \/ k1.docs[e].path = f
      /\ k1.revs = k.revs /\ k1.chunks = k.chunks
      /\ Mapped(k) => Mapped(k1)
  BY ONLY Sound(k), f \in Paths, <1>1, FoundIs
<1>6. d \in DocumentsAt(k1, f)
  BY <1>2, <1>5 DEF One
<1>7. Publishes(k1, m, f, b, s, g)
  BY ONLY f \in Paths, s \in Nat, g \in Configs, b \in Contents, c \in Contents,
          <1>4, <1>5, <1>6, FileIsPublished
<1>8. Fresh(k, f, b, s, g) => Fresh(k1, f, b, s, g)
  <2>1. SUFFICES ASSUME Fresh(k, f, b, s, g), NEW e \in DocumentsAt(k1, f)
                 PROVE  Unchanged(k1, e, g, b) \/ Undone(k1, e, s, g)
    BY DEF Fresh
  <2>2. CASE e \in DOMAIN k.docs
    <3>1. e \in DocumentsAt(k, f) /\ k1.docs[e] = k.docs[e]
      BY <1>5, <2>2 DEF DocumentsAt
    <3>2. Unchanged(k, e, g, b) \/ Undone(k, e, s, g)
      BY <2>1, <3>1 DEF Fresh
    <3> QED
      BY <1>5, <3>1, <3>2 DEF Unchanged, Undone
  <2>3. CASE e \notin DOMAIN k.docs
    <3>1. \A r \in DOMAIN k.revs : k.revs[r].doc # e
      BY <2>3 DEF Sound, Chunked
    <3> QED
      BY <1>5, <3>1 DEF Undone
  <2> QED
    BY <2>2, <2>3
<1>9. /\ Sound(m)
      /\ \A e \in DOMAIN k1.docs : /\ e \in DOMAIN m.docs /\ m.docs[e].path = k1.docs[e].path
                                   /\ k1.docs[e].path # f => m.docs[e] = k1.docs[e]
      /\ \A e \in DOMAIN m.docs : e \in DOMAIN k1.docs \/ m.docs[e].path = f
      /\ \A r \in DOMAIN k1.revs : r \in DOMAIN m.revs /\ m.revs[r] = k1.revs[r]
      /\ \A r \in DOMAIN m.revs :
           \/ r \in DOMAIN k1.revs
           \/ m.revs[r].snap = s /\ m.revs[r].config = g /\ m.docs[m.revs[r].doc].path = f
      /\ Fresh(k1, f, b, s, g) => (Mapped(k1) => Mapped(m)) /\ Shown(m, f, b, g)
  BY ONLY <1>7 DEF Publishes
<1>10. \A e \in DOMAIN m.docs : e \in DOMAIN k.docs \/ m.docs[e].path = f
  BY ONLY <1>5, <1>9
<1>11. \A e \in DOMAIN k.docs : /\ e \in DOMAIN m.docs /\ m.docs[e].path = k.docs[e].path
                                /\ k.docs[e].path # f => m.docs[e] = k.docs[e]
  BY ONLY <1>5, <1>9
<1>12. /\ \A r \in DOMAIN k.revs : r \in DOMAIN m.revs /\ m.revs[r] = k.revs[r]
       /\ \A r \in DOMAIN m.revs :
            \/ r \in DOMAIN k.revs
            \/ m.revs[r].snap = s /\ m.revs[r].config = g /\ m.docs[m.revs[r].doc].path = f
  BY ONLY <1>5, <1>9
<1> QED
  BY ONLY <1>5, <1>8, <1>9, <1>10, <1>11, <1>12 DEF Publishes
-----------------------------------------------------------------------------
(* Renames, files that are gone, and the whole publication                 *)

NoLater(a, b) == a[1] < b[1] \/ (a[1] = b[1] /\ a[2] <= b[2])
Key(k, r) == <<k.revs[r].snap, k.revs[r].config>>

\* No revision is for a later snapshot or settings than b.
Until(k, b) == \A r \in DOMAIN k.revs : NoLater(Key(k, r), b)

\* The documents that are not deleted are those of the files, with their Blobs.
Holds(k, entries, g) ==
    \A f \in Paths : IF entries[f] = 0
                     THEN \A d \in DocumentsAt(k, f) : k.docs[d].state # "active"
                     ELSE Shown(k, f, entries[f], g)

\* Nothing but the paths of documents has changed.
Relocates(k, m) ==
    /\ Sound(m) /\ DOMAIN m.docs = DOMAIN k.docs
    /\ \A d \in DOMAIN k.docs : /\ m.docs[d].rev = k.docs[d].rev
                                /\ m.docs[d].state = k.docs[d].state
    /\ m.revs = k.revs /\ m.chunks = k.chunks

LEMMA MoveRelocates ==
    ASSUME NEW k, Sound(k), NEW r \in Paths \X Paths, NEW m, m = MoveDocument(k, r)
    PROVE  Relocates(k, m) /\ (DocumentsAt(k, r[2]) # {} => m = k)
<1>1. CASE DocumentsAt(k, r[2]) # {}
  <2>1. m = k
    BY <1>1 DEF MoveDocument
  <2> QED
    BY <2>1 DEF Relocates
<1>2. CASE DocumentsAt(k, r[2]) = {}
  <2>0. PICK docs : docs = [d \in DOMAIN k.docs |->
            IF d \in DocumentsAt(k, r[1]) THEN [k.docs[d] EXCEPT !.path = r[2]] ELSE k.docs[d]]
    OBVIOUS
  <2>1. m = [k EXCEPT !.docs = docs]
    BY <1>2, <2>0 DEF MoveDocument
  <2>2. k \in Tables /\ Documented(k) /\ Chunked(k) /\ Descended(k)
    BY DEF Sound
  <2>3. /\ DOMAIN k = {"docs", "revs", "chunks", "lineage"}
        /\ Len(k.docs) \in Nat /\ DOMAIN k.docs = 1 .. Len(k.docs)
        /\ k.docs \in Seq(DocumentRows) /\ k.revs \in Seq(RevisionRows)
        /\ k.chunks \in Seq(ChunkRows) /\ k.lineage \subseteq Nat \X Nat
        /\ \A d \in 1 .. Len(k.docs) : k.docs[d] \in DocumentRows
    BY <2>2, TablesAre
  <2>4. /\ DOMAIN m = {"docs", "revs", "chunks", "lineage"} /\ m = [x \in DOMAIN m |-> m[x]]
        /\ m.docs = docs
        /\ m.revs = k.revs /\ m.chunks = k.chunks /\ m.lineage = k.lineage
    BY ONLY <2>1, <2>3
  <2>5. ASSUME NEW d \in DOMAIN k.docs
        PROVE  /\ docs[d] \in DocumentRows
               /\ docs[d].rev = k.docs[d].rev /\ docs[d].state = k.docs[d].state
               /\ docs[d].path = IF d \in DocumentsAt(k, r[1]) THEN r[2] ELSE k.docs[d].path
    <3>1. k.docs[d] \in DocumentRows /\ r[2] \in Paths
      BY <2>3
    <3>2. docs[d] = IF d \in DocumentsAt(k, r[1]) THEN [k.docs[d] EXCEPT !.path = r[2]]
                    ELSE k.docs[d]
      BY ONLY <2>0, <2>5
    <3> QED
      BY ONLY <3>1, <3>2 DEF DocumentRows
  <2>6. docs \in Seq(DocumentRows) /\ DOMAIN docs = DOMAIN k.docs
    <3>1. docs = [d \in DOMAIN k.docs |-> docs[d]]
      BY ONLY <2>0
    <3>2. docs \in [1 .. Len(k.docs) -> DocumentRows]
      BY ONLY <2>3, <2>5, <3>1
    <3> QED
      BY ONLY <2>3, <3>1, <3>2, FunctionIsSeq
  <2>7. m \in Tables
    BY ONLY <2>3, <2>4, <2>6, TablesMade
  <2>8. Documented(m)
    <3>1. \A e \in DOMAIN m.docs : m.docs[e].rev # 0 =>
             m.docs[e].rev \in DOMAIN m.revs /\ m.revs[m.docs[e].rev].doc = e
      BY ONLY <2>2, <2>4, <2>5, <2>6 DEF Documented
    <3>2. \A e \in DOMAIN k.docs : k.docs[e].path # r[2]
      BY <1>2 DEF DocumentsAt, PathKey
    <3>3. \A e \in DOMAIN k.docs : e \in DocumentsAt(k, r[1]) <=> k.docs[e].path = r[1]
      BY DEF DocumentsAt, PathKey
    <3>4. \A d, e \in DOMAIN m.docs : m.docs[d].path = m.docs[e].path => d = e
      BY ONLY <2>2, <2>4, <2>5, <2>6, <3>2, <3>3 DEF Documented
    <3> QED
      BY ONLY <3>1, <3>4 DEF Documented
  <2>9. Chunked(m)
    BY ONLY <2>2, <2>4, <2>6 DEF Chunked
  <2>10. \A x : ChunkIds(m, x) = ChunkIds(k, x)
    BY ONLY <2>4 DEF ChunkIds
  <2>11. Descended(m)
    BY ONLY <2>2, <2>4, <2>10 DEF Descended
  <2> QED
    BY ONLY <1>2, <2>4, <2>5, <2>6, <2>7, <2>8, <2>9, <2>11 DEF Sound, Relocates
<1> QED
  BY <1>1, <1>2

LEMMA RelocatesOnce ==
    ASSUME NEW k, NEW m, NEW n, Relocates(k, m), Relocates(m, n)
    PROVE  Relocates(k, n)
BY DEF Relocates

LEMMA OrderOfRenames ==
    ASSUME NEW S, IsFiniteSet(S)
    PROVE  Cardinality(S) \in Nat /\ \A n \in 1 .. Cardinality(S) : SetToSeq(S)[n] \in S
<1>1. Cardinality(S) \in Nat /\ ExistsBijection(1 .. Cardinality(S), S)
  BY FS_CardinalityType
<1>2. PICK f : f \in Bijection(1 .. Cardinality(S), S)
  BY <1>1 DEF ExistsBijection
<1>3. f \in [1 .. Cardinality(S) -> S] /\ IsInjective(f)
  BY <1>2 DEF Bijection, Injection
<1>4. SetToSeq(S) \in [1 .. Cardinality(S) -> S]
  BY <1>3 DEF SetToSeq
<1> QED
  BY <1>1, <1>4

LEMMA RenamesRelocate ==
    ASSUME NEW k, Sound(k), NEW renames, renames \subseteq Paths \X Paths, IsFiniteSet(renames)
    PROVE  /\ Relocates(k, ApplyRenames(k, renames))
           /\ (\A r \in renames : DocumentsAt(k, r[2]) # {}) => ApplyRenames(k, renames) = k
<1> DEFINE N == Cardinality(renames)
           order == SetToSeq(renames)
           Next1(v, n) == MoveDocument(v, order[n])
           Still == \A r \in renames : DocumentsAt(k, r[2]) # {}
           G == [n \in 0 .. N |-> {v \in Tables : Relocates(k, v) /\ (Still => v = k)}]
           F == [n \in 1 .. N |-> [v \in G[n - 1] |-> Next1(v, n)]]
           Sol(h) == h = [n \in 0 .. N |-> IF n = 0 THEN k ELSE Next1(h[n - 1], n)]
<1>0. N \in Nat /\ \A n \in 1 .. N : order[n] \in renames
  BY OrderOfRenames
<1>1. ASSUME NEW n \in 1 .. N, NEW v \in G[n - 1] PROVE Next1(v, n) \in G[n]
  <2>1. n - 1 \in 0 .. N /\ n \in 0 .. N
    BY <1>0
  <2>2. Relocates(k, v) /\ (Still => v = k)
    BY <2>1
  <2>3. order[n] \in Paths \X Paths /\ order[n] \in renames
    BY <1>0
  <2> DEFINE w == MoveDocument(v, order[n])
  <2>4. Sound(v)
    BY <2>2 DEF Relocates
  <2>5. Relocates(v, w) /\ (DocumentsAt(v, order[n][2]) # {} => w = v)
    BY ONLY <2>3, <2>4, MoveRelocates
  <2> HIDE DEF w
  <2>6. Relocates(k, w)
    BY ONLY <2>2, <2>5, RelocatesOnce
  <2>7. w \in Tables
    BY <2>6 DEF Relocates, Sound
  <2>8. Still => w = k
    BY <2>2, <2>3, <2>5
  <2>9. w \in G[n]
    <3> HIDE DEF Still
    <3> QED
      BY <2>1, <2>6, <2>7, <2>8
  <2> QED
    BY <2>9 DEF w
<1>2. ASSUME NEW n \in 1 .. N, NEW v \in G[n - 1] PROVE F[n][v] = Next1(v, n)
  OBVIOUS
<1>3. k \in G[0]
  <2>1. Relocates(k, k) /\ k \in Tables /\ 0 \in 0 .. N
    BY <1>0 DEF Relocates, Sound
  <2> QED
    BY <2>1
<1>4. PICK h : Recurs(h, N, k, F) /\ \A n \in 0 .. N : h[n] \in G[n]
  <2> HIDE DEF G, F, Next1, N
  <2>1. \A n \in 1 .. N : \A v \in G[n - 1] : F[n][v] \in G[n]
    BY <1>1, <1>2
  <2> QED
    BY ONLY <1>0, <1>3, <2>1, RecursionSolved
<1>5. Sol(h)
  <2>1. ASSUME NEW n \in 0 .. N
        PROVE (IF n = 0 THEN k ELSE F[n][h[n - 1]])
              = (IF n = 0 THEN k ELSE Next1(h[n - 1], n))
    <3>1. CASE n = 0
      BY <3>1
    <3>2. CASE n # 0
      <4>1. n \in 1 .. N /\ n - 1 \in 0 .. N
        BY <1>0, <3>2
      <4>2. h[n - 1] \in G[n - 1]
        BY <1>4, <4>1
      <4>3. F[n][h[n - 1]] = Next1(h[n - 1], n)
        <5> HIDE DEF F, G, Next1, N
        <5> QED
          BY <1>2, <4>1, <4>2
      <4> QED
        BY <3>2, <4>3
    <3> QED
      BY <3>1, <3>2
  <2> HIDE DEF F, G, Next1, N
  <2> QED
    BY <1>4, <2>1 DEF Recurs
<1> DEFINE after == CHOOSE f : Sol(f)
<1>6. Sol(after)
  <2> HIDE DEF Sol
  <2> QED
    BY <1>5
<1>7. ApplyRenames(k, renames) = after[N]
  BY DEF ApplyRenames
<1> HIDE DEF after
<1>8. after[0] \in G[0]
  <2>1. after[0] = k
    BY <1>0, <1>6
  <2> QED
    BY <1>3, <2>1
<1>9. ASSUME NEW n \in 1 .. N, after[n - 1] \in G[n - 1] PROVE after[n] \in G[n]
  <2>1. after[n] = Next1(after[n - 1], n)
    <3> HIDE DEF Next1
    <3>1. n \in 0 .. N /\ n # 0
      BY <1>0
    <3> QED
      BY <1>6, <3>1
  <2> HIDE DEF G, Next1
  <2> QED
    BY <1>1, <1>9, <2>1
<1>10. after[N] \in G[N]
  <2> HIDE DEF G, N
  <2>1. \A n \in 1 .. N : after[n - 1] \in G[n - 1] => after[n] \in G[n]
    BY <1>9
  <2>2. \A n \in 0 .. N : after[n] \in G[n]
    BY ONLY <1>0, <1>8, <2>1, StepByStep
  <2> QED
    BY <1>0, <2>2
<1>11. Relocates(k, after[N]) /\ (Still => after[N] = k)
  <2>1. N \in 0 .. N
    BY <1>0
  <2> HIDE DEF N
  <2> QED
    BY <1>10, <2>1
<1> QED
  BY <1>7, <1>11

LEMMA TombstonesAre ==
    ASSUME NEW k, Sound(k), NEW present, NEW m, m = TombstoneMissing(k, present)
    PROVE  /\ Sound(m) /\ m.revs = k.revs
           /\ Mapped(k) => Mapped(m)
           /\ DOMAIN m.docs = DOMAIN k.docs
           /\ \A d \in DOMAIN k.docs :
                /\ m.docs[d].path = k.docs[d].path /\ m.docs[d].rev = k.docs[d].rev
                /\ IF k.docs[d].path \in present THEN m.docs[d].state = k.docs[d].state
                   ELSE m.docs[d].state # "active"
<1>1. PICK gone : gone = {d \in DOMAIN k.docs : k.docs[d].state = "active"
                    /\ PathKey(k.docs[d].path) \notin {PathKey(f) : f \in present}}
  OBVIOUS
<1>2. PICK docs : docs = [d \in DOMAIN k.docs |->
            IF d \in gone THEN [k.docs[d] EXCEPT !.state = "deleted"] ELSE k.docs[d]]
  OBVIOUS
<1>3. PICK chunks : chunks = [c \in DOMAIN k.chunks |->
            IF k.chunks[c].doc \in gone THEN [k.chunks[c] EXCEPT !.state = "tombstoned"]
            ELSE k.chunks[c]]
  OBVIOUS
<1>4. m = [k EXCEPT !.docs = docs, !.chunks = chunks]
  BY <1>1, <1>2, <1>3 DEF TombstoneMissing
<1>5. k \in Tables /\ Documented(k) /\ Chunked(k) /\ Descended(k)
  BY DEF Sound
<1>6. /\ DOMAIN k = {"docs", "revs", "chunks", "lineage"}
      /\ Len(k.docs) \in Nat /\ DOMAIN k.docs = 1 .. Len(k.docs)
      /\ Len(k.chunks) \in Nat /\ DOMAIN k.chunks = 1 .. Len(k.chunks)
      /\ k.revs \in Seq(RevisionRows) /\ k.lineage \subseteq Nat \X Nat
      /\ \A d \in 1 .. Len(k.docs) : k.docs[d] \in DocumentRows
      /\ \A c \in 1 .. Len(k.chunks) : k.chunks[c] \in ChunkRows
  BY <1>5, TablesAre
<1>7. /\ DOMAIN m = {"docs", "revs", "chunks", "lineage"} /\ m = [x \in DOMAIN m |-> m[x]]
      /\ m.docs = docs /\ m.chunks = chunks
      /\ m.revs = k.revs /\ m.lineage = k.lineage
  BY ONLY <1>4, <1>6
<1>8. \A d : d \in gone <=> d \in DOMAIN k.docs /\ k.docs[d].state = "active"
                            /\ k.docs[d].path \notin present
  BY <1>1 DEF PathKey
<1>9. ASSUME NEW d \in DOMAIN k.docs
      PROVE  /\ docs[d] \in DocumentRows
             /\ docs[d].path = k.docs[d].path /\ docs[d].rev = k.docs[d].rev
             /\ docs[d].state = IF d \in gone THEN "deleted" ELSE k.docs[d].state
  <2>1. k.docs[d] \in DocumentRows
    BY <1>6
  <2>2. docs[d] = IF d \in gone THEN [k.docs[d] EXCEPT !.state = "deleted"] ELSE k.docs[d]
    BY ONLY <1>2, <1>9
  <2> QED
    BY ONLY <2>1, <2>2 DEF DocumentRows
<1>10. docs \in Seq(DocumentRows) /\ DOMAIN docs = DOMAIN k.docs
  <2>1. docs = [d \in DOMAIN k.docs |-> docs[d]]
    BY ONLY <1>2
  <2>2. docs \in [1 .. Len(k.docs) -> DocumentRows]
    BY ONLY <1>6, <1>9, <2>1
  <2> QED
    BY ONLY <1>6, <2>1, <2>2, FunctionIsSeq
<1>11. ASSUME NEW c \in DOMAIN k.chunks
       PROVE  /\ chunks[c] \in ChunkRows /\ chunks[c].doc = k.chunks[c].doc
              /\ chunks[c].state = IF k.chunks[c].doc \in gone THEN "tombstoned"
                                   ELSE k.chunks[c].state
  <2>1. k.chunks[c] \in ChunkRows
    BY <1>6
  <2>2. chunks[c] = IF k.chunks[c].doc \in gone THEN [k.chunks[c] EXCEPT !.state = "tombstoned"]
                    ELSE k.chunks[c]
    BY ONLY <1>3, <1>11
  <2> QED
    BY ONLY <2>1, <2>2 DEF ChunkRows
<1>12. chunks \in Seq(ChunkRows) /\ DOMAIN chunks = DOMAIN k.chunks
  <2>1. chunks = [c \in DOMAIN k.chunks |-> chunks[c]]
    BY ONLY <1>3
  <2>2. chunks \in [1 .. Len(k.chunks) -> ChunkRows]
    BY ONLY <1>6, <1>11, <2>1
  <2> QED
    BY ONLY <1>6, <2>1, <2>2, FunctionIsSeq
<1>13. m \in Tables
  BY ONLY <1>6, <1>7, <1>10, <1>12, TablesMade
<1>14. Documented(m)
  <2>1. \A d \in DOMAIN m.docs : m.docs[d].rev # 0 =>
           m.docs[d].rev \in DOMAIN m.revs /\ m.revs[m.docs[d].rev].doc = d
    BY ONLY <1>5, <1>7, <1>9, <1>10 DEF Documented
  <2>2. \A d, e \in DOMAIN m.docs : m.docs[d].path = m.docs[e].path => d = e
    BY ONLY <1>5, <1>7, <1>9, <1>10 DEF Documented
  <2> QED
    BY ONLY <2>1, <2>2 DEF Documented
<1>15. Chunked(m)
  <2>1. /\ \A r \in DOMAIN k.revs :
              /\ k.revs[r].doc \in DOMAIN k.docs
              /\ \A i \in DOMAIN k.revs[r].chunks :
                   /\ k.revs[r].chunks[i].id \in DOMAIN k.chunks
                   /\ k.chunks[k.revs[r].chunks[i].id].doc = k.revs[r].doc
              /\ \A i, j \in DOMAIN k.revs[r].chunks :
                   k.revs[r].chunks[i].id = k.revs[r].chunks[j].id => i = j
        /\ \A c \in DOMAIN k.chunks : k.chunks[c].doc \in DOMAIN k.docs
    BY ONLY <1>5 DEF Chunked
  <2>2. /\ DOMAIN m.docs = DOMAIN k.docs /\ m.revs = k.revs /\ DOMAIN m.chunks = DOMAIN k.chunks
        /\ \A c \in DOMAIN k.chunks : m.chunks[c].doc = k.chunks[c].doc
    BY ONLY <1>7, <1>10, <1>11, <1>12
  <2> QED
    BY ONLY <2>1, <2>2 DEF Chunked
<1>16. \A x : ChunkIds(m, x) = ChunkIds(k, x)
  BY ONLY <1>7 DEF ChunkIds
<1>17. Descended(m)
  BY ONLY <1>5, <1>7, <1>12, <1>16 DEF Descended
<1>18. ASSUME Mapped(k) PROVE Mapped(m)
  <2>1. \A c \in DOMAIN k.chunks : k.chunks[c].doc \in DOMAIN k.docs
    BY <1>5 DEF Chunked
  <2> QED
    BY ONLY <1>7, <1>9, <1>11, <1>12, <1>16, <1>18, <2>1 DEF Mapped
<1>19. \A d \in DOMAIN k.docs :
         /\ m.docs[d].path = k.docs[d].path /\ m.docs[d].rev = k.docs[d].rev
         /\ IF k.docs[d].path \in present THEN m.docs[d].state = k.docs[d].state
            ELSE m.docs[d].state # "active"
  BY ONLY <1>7, <1>8, <1>9
<1> QED
  BY ONLY <1>7, <1>10, <1>13, <1>14, <1>15, <1>17, <1>18, <1>19 DEF Sound

\* The files up to n are published, the others can be.
Going(k, n, entries, s, g) ==
    /\ Mapped(k) /\ Until(k, <<s, g>>)
    /\ \A f \in Paths : entries[f] # 0 =>
         IF f <= n THEN Shown(k, f, entries[f], g) ELSE Fresh(k, f, entries[f], s, g)

LEMMA NoLaterThanItself ==
    ASSUME NEW s \in Nat, NEW g \in Nat
    PROVE  NoLater(<<s, g>>, <<s, g>>)
BY DEF NoLater

LEMMA FileGoes ==
    ASSUME NEW k, Sound(k), NEW entries, NEW s \in Nat, NEW g \in Nat,
           NEW f \in Paths, NEW b, b = entries[f], b # 0, NEW n \in Nat, n + 1 = f,
           NEW m, Publishes(k, m, f, b, s, g), Going(k, n, entries, s, g)
    PROVE  Going(m, f, entries, s, g)
<1>1. /\ Mapped(k) /\ Until(k, <<s, g>>)
      /\ \A h \in Paths : entries[h] # 0 =>
           IF h <= n THEN Shown(k, h, entries[h], g) ELSE Fresh(k, h, entries[h], s, g)
  BY DEF Going
<1>2. /\ Sound(m)
      /\ \A e \in DOMAIN k.docs : /\ e \in DOMAIN m.docs /\ m.docs[e].path = k.docs[e].path
                                  /\ k.docs[e].path # f => m.docs[e] = k.docs[e]
      /\ \A e \in DOMAIN m.docs : e \in DOMAIN k.docs \/ m.docs[e].path = f
      /\ \A r \in DOMAIN k.revs : r \in DOMAIN m.revs /\ m.revs[r] = k.revs[r]
      /\ \A r \in DOMAIN m.revs :
           \/ r \in DOMAIN k.revs
           \/ m.revs[r].snap = s /\ m.revs[r].config = g /\ m.docs[m.revs[r].doc].path = f
      /\ Fresh(k, f, b, s, g) => (Mapped(k) => Mapped(m)) /\ Shown(m, f, b, g)
  BY ONLY Publishes(k, m, f, b, s, g) DEF Publishes
<1>3. \A h \in Paths : h \in Nat
  BY ContentAssumption
<1>4. ~ (f <= n)
  BY ONLY <1>3, f \in Paths, n \in Nat, n + 1 = f
<1>5. Mapped(m) /\ Shown(m, f, b, g)
  BY <1>1, <1>2, <1>4
<1>6. Until(m, <<s, g>>)
  <2>1. SUFFICES ASSUME NEW r \in DOMAIN m.revs PROVE NoLater(Key(m, r), <<s, g>>)
    BY DEF Until
  <2>2. CASE r \in DOMAIN k.revs
    <3>1. Key(m, r) = Key(k, r)
      BY <1>2, <2>2 DEF Key
    <3> QED
      BY <1>1, <2>2, <3>1 DEF Until
  <2>3. CASE r \notin DOMAIN k.revs
    <3>1. Key(m, r) = <<s, g>>
      BY <1>2, <2>3 DEF Key
    <3> QED
      BY ONLY <3>1, s \in Nat, g \in Nat, NoLaterThanItself
  <2> QED
    BY <2>2, <2>3
<1>7. ASSUME NEW h \in Paths, h # f, NEW d \in DocumentsAt(m, h)
      PROVE  d \in DocumentsAt(k, h) /\ m.docs[d] = k.docs[d]
  BY ONLY <1>2, <1>7 DEF DocumentsAt, PathKey
<1>8. ASSUME NEW h \in Paths, h # f, NEW d \in DocumentsAt(k, h)
      PROVE  d \in DocumentsAt(m, h) /\ m.docs[d] = k.docs[d]
  BY ONLY <1>2, <1>8 DEF DocumentsAt, PathKey
<1>9. ASSUME NEW d \in DOMAIN k.docs, m.docs[d] = k.docs[d], NEW x, Unchanged(k, d, g, x)
      PROVE  Unchanged(m, d, g, x)
  <2>1. k.docs[d].rev # 0 => k.docs[d].rev \in DOMAIN k.revs
    BY DEF Sound, Documented
  <2> QED
    BY ONLY <1>2, <1>9, <2>1 DEF Unchanged
<1>10. ASSUME NEW h \in Paths, entries[h] # 0, h # f, NEW x, x = entries[h]
       PROVE  /\ Shown(k, h, x, g) => Shown(m, h, x, g)
              /\ Fresh(k, h, x, s, g) => Fresh(m, h, x, s, g)
  <2>1. ASSUME Shown(k, h, x, g) PROVE Shown(m, h, x, g)
    <3>1. PICK d \in DocumentsAt(k, h) : k.docs[d].state = "active" /\ Unchanged(k, d, g, x)
      BY ONLY <2>1 DEF Shown
    <3>2. d \in DocumentsAt(m, h) /\ m.docs[d] = k.docs[d]
      BY ONLY <1>8, <1>10, <3>1
    <3>3. d \in DOMAIN k.docs
      BY <3>1 DEF DocumentsAt
    <3>4. Unchanged(m, d, g, x)
      BY ONLY <1>9, <3>1, <3>2, <3>3
    <3> QED
      BY ONLY <3>1, <3>2, <3>4 DEF Shown
  <2>2. ASSUME Fresh(k, h, x, s, g) PROVE Fresh(m, h, x, s, g)
    <3>1. SUFFICES ASSUME NEW d \in DocumentsAt(m, h)
                   PROVE  Unchanged(m, d, g, x) \/ Undone(m, d, s, g)
      BY DEF Fresh
    <3>2. d \in DocumentsAt(k, h) /\ m.docs[d] = k.docs[d]
      BY ONLY <1>7, <1>10, <3>1
    <3>3. d \in DOMAIN k.docs /\ m.docs[d].path = h
      BY <3>2 DEF DocumentsAt, PathKey
    <3>4. Unchanged(k, d, g, x) \/ Undone(k, d, s, g)
      BY ONLY <2>2, <3>2 DEF Fresh
    <3>5. CASE Unchanged(k, d, g, x)
      BY ONLY <1>9, <3>2, <3>3, <3>5
    <3>6. CASE Undone(k, d, s, g)
      <4>1. Undone(m, d, s, g)
        BY ONLY <1>2, <1>10, <3>3, <3>6 DEF Undone
      <4> QED
        BY <4>1
    <3> QED
      BY <3>4, <3>5, <3>6
  <2> QED
    BY <2>1, <2>2
<1>11. ASSUME NEW h \in Paths, entries[h] # 0
       PROVE  IF h <= f THEN Shown(m, h, entries[h], g) ELSE Fresh(m, h, entries[h], s, g)
  <2>1. CASE h = f
    <3>1. h <= f
      BY <1>3, <2>1
    <3> QED
      BY <1>5, <2>1, <3>1
  <2>2. CASE h # f
    <3>1. h <= f <=> h <= n
      BY ONLY <1>3, <2>2, h \in Paths, n \in Nat, n + 1 = f
    <3> QED
      BY ONLY <1>1, <1>10, <1>11, <2>2, <3>1
  <2> QED
    BY <2>1, <2>2
<1> QED
  BY ONLY <1>5, <1>6, <1>11 DEF Going

LEMMA LastOfPaths == LastPath \in Nat /\ \A f \in Paths : f \in 1 .. LastPath
<1>1. \E n \in Paths \cup {0} : \A f \in Paths : f <= n
  <2>1. CASE Paths = {}
    BY <2>1
  <2>2. CASE Paths # {}
    <3>1. IsFiniteSet(Paths) /\ \A f \in Paths : f \in Nat
      BY ContentAssumption
    <3>2. PICK N : N = Cardinality(Paths)
      OBVIOUS
    <3>3. PICK h : h \in Bijection(1 .. N, Paths)
      BY <3>1, <3>2, FS_CardinalityType DEF ExistsBijection
    <3>4. N \in Nat
      BY <3>1, <3>2, FS_CardinalityType
    <3>5. h \in [1 .. N -> Paths] /\ \A f \in Paths : \E i \in 1 .. N : h[i] = f
      BY <3>3 DEF Bijection, Injection, Surjection
    <3> DEFINE G == [n \in 0 .. N |-> {v \in Nat : v \in Paths \cup {0} /\ \A i \in 1 .. n : h[i] <= v}]
               F == [n \in 1 .. N |-> [v \in G[n - 1] |-> IF h[n] <= v THEN v ELSE h[n]]]
    <3>6. ASSUME NEW n \in 1 .. N, NEW v \in G[n - 1] PROVE F[n][v] \in G[n]
      <4>1. n - 1 \in 0 .. N /\ n \in 0 .. N
        BY <3>4
      <4>2. v \in Nat /\ v \in Paths \cup {0} /\ \A i \in 1 .. n - 1 : h[i] <= v
        BY <4>1
      <4>3. h[n] \in Paths /\ h[n] \in Nat
        BY <3>1, <3>5
      <4>4. PICK w : w = IF h[n] <= v THEN v ELSE h[n]
        OBVIOUS
      <4>5. w \in Nat /\ w \in Paths \cup {0} /\ v <= w /\ h[n] <= w
        BY ONLY <4>2, <4>3, <4>4
      <4>6. ASSUME NEW i \in 1 .. n PROVE h[i] <= w
        <5>1. CASE i = n
          BY <4>5, <5>1
        <5>2. CASE i # n
          <6>1. i \in 1 .. n - 1 /\ i \in 1 .. N
            BY <3>4, <5>2
          <6>2. h[i] <= v /\ h[i] \in Nat
            BY <3>1, <3>5, <4>2, <6>1
          <6> QED
            BY ONLY <4>2, <4>5, <6>2
        <5> QED
          BY <5>1, <5>2
      <4> QED
        BY <4>1, <4>4, <4>5, <4>6
    <3>7. 0 \in G[0]
      BY <3>4
    <3> HIDE DEF F, G
    <3>8. PICK t : \A n \in 0 .. N : t[n] \in G[n]
      <4>1. \E t : Recurs(t, N, 0, F) /\ \A n \in 0 .. N : t[n] \in G[n]
        <5>1. \A n \in 1 .. N : \A v \in G[n - 1] : F[n][v] \in G[n]
          BY <3>6
        <5> QED
          BY ONLY <3>4, <3>7, <5>1, RecursionSolved
      <4> QED
        BY <4>1
    <3>9. t[N] \in G[N]
      BY <3>4, <3>8
    <3>10. t[N] \in Paths \cup {0} /\ \A i \in 1 .. N : h[i] <= t[N]
      BY <3>4, <3>9 DEF G
    <3> QED
      BY <3>5, <3>10
  <2> QED
    BY <2>1, <2>2
<1>2. LastPath \in Paths \cup {0} /\ \A f \in Paths : f <= LastPath
  BY <1>1 DEF LastPath
<1>3. \A f \in Paths : f \in Nat /\ f # 0
  BY ContentAssumption
<1> QED
  BY <1>2, <1>3

\* What publication takes, and when it is in turn: nothing was made for a later
\* snapshot or settings, and for these either nothing yet or all of it.
Publishable(k, s, g, entries, text, renames) ==
    /\ Sound(k) /\ s \in Nat /\ g \in Configs
    /\ entries \in [Paths -> 0 .. MaxContent] /\ text \in [Paths -> 0 .. MaxContent]
    /\ \A f \in Paths : entries[f] # 0 => text[f] # 0
    /\ renames \subseteq Paths \X Paths
Unmade(k, s, g) == \A r \in DOMAIN k.revs : ~ (k.revs[r].snap = s /\ k.revs[r].config = g)
InTurn(k, s, g, entries, renames) ==
    /\ Mapped(k) /\ Until(k, <<s, g>>)
    /\ Unmade(k, s, g) \/ (Holds(k, entries, g) /\ \A r \in renames : entries[r[2]] # 0)

LEMMA RenamesGo ==
    ASSUME NEW k, NEW s, NEW g, NEW entries, NEW text, NEW renames,
           Publishable(k, s, g, entries, text, renames),
           NEW m, m = ApplyRenames(k, renames)
    PROVE  Sound(m) /\ (InTurn(k, s, g, entries, renames) => Going(m, 0, entries, s, g))
<1>1. Sound(k) /\ renames \subseteq Paths \X Paths
  BY DEF Publishable
<1>2. IsFiniteSet(renames)
  <2>1. IsFiniteSet(Paths \X Paths)
    BY ContentAssumption, FS_Product
  <2> QED
    BY <1>1, <2>1, FS_Subset
<1>3. Relocates(k, m) /\ ((\A r \in renames : DocumentsAt(k, r[2]) # {}) => m = k)
  BY <1>1, <1>2, RenamesRelocate
<1>4. /\ Sound(m) /\ DOMAIN m.docs = DOMAIN k.docs
      /\ \A d \in DOMAIN k.docs : /\ m.docs[d].rev = k.docs[d].rev
                                  /\ m.docs[d].state = k.docs[d].state
      /\ m.revs = k.revs /\ m.chunks = k.chunks
  BY <1>3 DEF Relocates
<1>5. ASSUME InTurn(k, s, g, entries, renames) PROVE Going(m, 0, entries, s, g)
  <2>1. /\ Mapped(k) /\ Until(k, <<s, g>>)
        /\ Unmade(k, s, g) \/ (Holds(k, entries, g) /\ \A r \in renames : entries[r[2]] # 0)
    BY <1>5 DEF InTurn
  <2>2. Mapped(m)
    <3>1. \A c \in DOMAIN k.chunks : k.chunks[c].doc \in DOMAIN k.docs
      BY <1>1 DEF Sound, Chunked
    <3>2. \A x : ChunkIds(m, x) = ChunkIds(k, x)
      BY ONLY <1>4 DEF ChunkIds
    <3> QED
      BY ONLY <1>4, <2>1, <3>1, <3>2 DEF Mapped
  <2>3. Until(m, <<s, g>>)
    BY ONLY <1>4, <2>1 DEF Until, Key
  <2>4. ASSUME NEW f \in Paths, entries[f] # 0 PROVE Fresh(m, f, entries[f], s, g)
    <3>1. CASE Unmade(k, s, g)
      BY <1>4, <3>1 DEF Unmade, Fresh, Undone
    <3>2. CASE Holds(k, entries, g) /\ \A r \in renames : entries[r[2]] # 0
      <4>1. \A h \in Paths : entries[h] # 0 => Shown(k, h, entries[h], g)
        BY <3>2 DEF Holds
      <4>2. \A r \in renames : DocumentsAt(k, r[2]) # {}
        <5>1. TAKE r \in renames
        <5>2. r[2] \in Paths
          BY <1>1
        <5>3. Shown(k, r[2], entries[r[2]], g)
          BY <3>2, <4>1, <5>2
        <5> QED
          BY <5>3 DEF Shown
      <4>3. m = k
        BY <1>3, <4>2
      <4>4. PICK d \in DocumentsAt(k, f) : Unchanged(k, d, g, entries[f])
        BY <2>4, <4>1 DEF Shown
      <4>5. \A e \in DocumentsAt(k, f) : e = d
        BY <1>1, <4>4 DEF Sound, Documented, DocumentsAt, PathKey
      <4> QED
        BY <4>3, <4>4, <4>5 DEF Fresh
    <3> QED
      BY <2>1, <3>1, <3>2
  <2>5. \A f \in Paths : ~ (f <= 0)
    <3>1. LastPath \in Nat /\ \A f \in Paths : f \in 1 .. LastPath
      BY ONLY LastOfPaths
    <3> QED
      BY ONLY <3>1
  <2> QED
    BY ONLY <2>2, <2>3, <2>4, <2>5 DEF Going
<1> QED
  BY <1>4, <1>5

LEMMA PublishDoes ==
    ASSUME NEW k, NEW s, NEW g, NEW entries, NEW text, NEW renames,
           Publishable(k, s, g, entries, text, renames)
    PROVE  LET m == Publish(k, s, g, entries, text, renames)
           IN /\ Sound(m)
              /\ InTurn(k, s, g, entries, renames) =>
                   Mapped(m) /\ Until(m, <<s, g>>) /\ Holds(m, entries, g)
<1> DEFINE N == LastPath
           present == {f \in Paths : entries[f] # 0}
           turn == InTurn(k, s, g, entries, renames)
           base == ApplyRenames(k, renames)
           Next1(v, n) == IF n \notin present THEN v
                          ELSE PublishDocument(v, n, entries[n], text[n], s, g)
           G == [n \in 0 .. N |-> {v \in Tables : Sound(v) /\ (turn => Going(v, n, entries, s, g))}]
           F == [n \in 1 .. N |-> [v \in G[n - 1] |-> Next1(v, n)]]
           Sol(h) == h = [n \in 0 .. N |-> IF n = 0 THEN base
                                           ELSE IF n \notin present THEN h[n - 1]
                                           ELSE PublishDocument(h[n - 1], n, entries[n], text[n], s, g)]
<1>0. N \in Nat /\ \A f \in Paths : f \in 1 .. N
  BY LastOfPaths
<1>p. /\ Sound(k) /\ s \in Nat /\ g \in Configs
      /\ entries \in [Paths -> 0 .. MaxContent] /\ text \in [Paths -> 0 .. MaxContent]
      /\ \A f \in Paths : entries[f] # 0 => text[f] # 0
      /\ renames \subseteq Paths \X Paths
  BY DEF Publishable
<1>c. g \in Nat
  BY <1>p, SettingsAssumption
<1>1. ASSUME NEW n \in 1 .. N, NEW v \in G[n - 1] PROVE Next1(v, n) \in G[n]
  <2>1. n - 1 \in 0 .. N /\ n \in 0 .. N /\ n - 1 \in Nat /\ (n - 1) + 1 = n /\ n \in Nat
    BY <1>0
  <2>2. Sound(v) /\ (turn => Going(v, n - 1, entries, s, g)) /\ v \in Tables
    <3> HIDE DEF turn
    <3> QED
      BY <2>1
  <2>3. CASE n \notin present
    <3>1. ASSUME Going(v, n - 1, entries, s, g) PROVE Going(v, n, entries, s, g)
      <4>1. \A f \in Paths : entries[f] # 0 => (f <= n <=> f <= n - 1)
        <5>1. TAKE f \in Paths
        <5>2. HAVE entries[f] # 0
        <5>3. f # n /\ f \in Nat
          BY <1>0, <2>3, <5>2
        <5> QED
          BY ONLY <2>1, <5>3
      <4> QED
        BY ONLY <3>1, <4>1 DEF Going
    <3>2. Next1(v, n) = v
      BY <2>3
    <3> HIDE DEF Next1, turn
    <3>3. v \in G[n]
      BY <2>1, <2>2, <3>1
    <3> QED
      BY <3>2, <3>3
  <2>4. CASE n \in present
    <3>1. n \in Paths /\ entries[n] # 0
      BY <2>4
    <3>2. entries[n] \in Contents /\ text[n] \in Contents
      <4>1. entries[n] \in 0 .. MaxContent /\ text[n] \in 0 .. MaxContent /\ text[n] # 0
        BY <1>p, <3>1
      <4>2. MaxContent \in Nat
        BY ContentAssumption
      <4> QED
        BY ONLY <3>1, <4>1, <4>2 DEF Contents
    <3>3. PICK w : w = PublishDocument(v, n, entries[n], text[n], s, g)
      OBVIOUS
    <3>4. Publishes(v, w, n, entries[n], s, g)
      BY ONLY <1>p, <2>2, <3>1, <3>2, <3>3, DocumentIsPublished
    <3>5. Sound(w)
      BY <3>4 DEF Publishes
    <3>6. turn => Going(w, n, entries, s, g)
      <4>1. SUFFICES ASSUME turn PROVE Going(w, n, entries, s, g)
        OBVIOUS
      <4>2. Going(v, n - 1, entries, s, g)
        BY <2>2, <4>1
      <4>3. PICK b, i : b = entries[n] /\ i = n - 1
        OBVIOUS
      <4>4. Publishes(v, w, n, b, s, g) /\ Going(v, i, entries, s, g) /\ b # 0 /\ i \in Nat /\ i + 1 = n
        BY ONLY <2>1, <3>1, <3>4, <4>2, <4>3
      <4> QED
        BY ONLY <1>p, <1>c, <2>2, <3>1, <4>3, <4>4, FileGoes
    <3>7. Next1(v, n) = w
      BY <2>4, <3>3
    <3>8. w \in Tables
      BY <3>5 DEF Sound
    <3> HIDE DEF Next1, turn
    <3>9. w \in G[n]
      BY <2>1, <3>5, <3>6, <3>8
    <3> QED
      BY <3>7, <3>9
  <2> QED
    BY <2>3, <2>4
<1>2. ASSUME NEW n \in 1 .. N, NEW v \in G[n - 1] PROVE F[n][v] = Next1(v, n)
  <2> HIDE DEF Next1, G
  <2> QED
    OBVIOUS
<1>3. base \in G[0]
  <2>1. Sound(base) /\ (turn => Going(base, 0, entries, s, g))
    BY RenamesGo
  <2>2. base \in Tables /\ 0 \in 0 .. N
    BY <1>0, <2>1 DEF Sound
  <2> HIDE DEF base, turn
  <2> QED
    BY <2>1, <2>2
<1>4. PICK h : Recurs(h, N, base, F) /\ \A n \in 0 .. N : h[n] \in G[n]
  <2> HIDE DEF G, F, Next1, N, base
  <2>1. \A n \in 1 .. N : \A v \in G[n - 1] : F[n][v] \in G[n]
    BY <1>1, <1>2
  <2> QED
    BY ONLY <1>0, <1>3, <2>1, RecursionSolved
<1>5. Sol(h)
  <2>1. ASSUME NEW n \in 0 .. N
        PROVE (IF n = 0 THEN base ELSE F[n][h[n - 1]])
              = (IF n = 0 THEN base ELSE IF n \notin present THEN h[n - 1]
                 ELSE PublishDocument(h[n - 1], n, entries[n], text[n], s, g))
    <3>1. CASE n = 0
      BY <3>1
    <3>2. CASE n # 0
      <4>1. n \in 1 .. N /\ n - 1 \in 0 .. N
        BY <1>0, <3>2
      <4>2. h[n - 1] \in G[n - 1]
        BY <1>4, <4>1
      <4>3. F[n][h[n - 1]] = Next1(h[n - 1], n)
        <5> HIDE DEF F, G, Next1, N
        <5> QED
          BY <1>2, <4>1, <4>2
      <4> HIDE DEF F, G, N, present
      <4> QED
        BY <3>2, <4>3
    <3> QED
      BY <3>1, <3>2
  <2> HIDE DEF F, G, Next1, N, present, base
  <2> QED
    BY <1>4, <2>1 DEF Recurs
<1> DEFINE after == CHOOSE f : Sol(f)
<1>6. Sol(after)
  <2> HIDE DEF Sol
  <2> QED
    BY <1>5
<1>7. Publish(k, s, g, entries, text, renames) = TombstoneMissing(after[N], present)
  BY DEF Publish
<1> HIDE DEF after
<1>8. after[0] \in G[0]
  <2>1. after[0] = base
    <3> HIDE DEF present, base
    <3> QED
      BY <1>0, <1>6
  <2> QED
    BY <1>3, <2>1
<1>9. ASSUME NEW n \in 1 .. N, after[n - 1] \in G[n - 1] PROVE after[n] \in G[n]
  <2>1. after[n] = Next1(after[n - 1], n)
    <3> HIDE DEF present, base
    <3>1. n \in 0 .. N /\ n # 0
      BY <1>0
    <3> QED
      BY <1>6, <3>1
  <2> HIDE DEF G, Next1
  <2> QED
    BY <1>1, <1>9, <2>1
<1>10. after[N] \in G[N]
  <2> HIDE DEF G, N
  <2>1. \A n \in 1 .. N : after[n - 1] \in G[n - 1] => after[n] \in G[n]
    BY <1>9
  <2>2. \A n \in 0 .. N : after[n] \in G[n]
    BY ONLY <1>0, <1>8, <2>1, StepByStep
  <2> QED
    BY <1>0, <2>2
<1>11. PICK w : w = after[N]
  OBVIOUS
<1>12. Sound(w) /\ (turn => Going(w, N, entries, s, g))
  <2>1. N \in 0 .. N
    BY <1>0
  <2> HIDE DEF N, turn
  <2> QED
    BY <1>10, <1>11, <2>1
<1>13. PICK m : m = TombstoneMissing(w, present)
  OBVIOUS
<1>14. Publish(k, s, g, entries, text, renames) = m
  BY ONLY <1>7, <1>11, <1>13
<1>15. /\ Sound(m) /\ m.revs = w.revs
       /\ Mapped(w) => Mapped(m)
       /\ DOMAIN m.docs = DOMAIN w.docs
       /\ \A d \in DOMAIN w.docs :
            /\ m.docs[d].path = w.docs[d].path /\ m.docs[d].rev = w.docs[d].rev
            /\ IF w.docs[d].path \in present THEN m.docs[d].state = w.docs[d].state
               ELSE m.docs[d].state # "active"
  BY ONLY <1>12, <1>13, TombstonesAre
<1>16. ASSUME turn PROVE Mapped(m) /\ Until(m, <<s, g>>) /\ Holds(m, entries, g)
  <2>1. /\ Mapped(w) /\ Until(w, <<s, g>>)
        /\ \A f \in Paths : entries[f] # 0 =>
             IF f <= N THEN Shown(w, f, entries[f], g) ELSE Fresh(w, f, entries[f], s, g)
    BY ONLY <1>12, <1>16 DEF Going
  <2>2. Mapped(m)
    BY <1>15, <2>1
  <2>3. Until(m, <<s, g>>)
    BY ONLY <1>15, <2>1 DEF Until, Key
  <2>4. ASSUME NEW f \in Paths, NEW d \in DocumentsAt(w, f)
        PROVE  /\ d \in DocumentsAt(m, f) /\ m.docs[d].rev = w.docs[d].rev
               /\ IF f \in present THEN m.docs[d].state = w.docs[d].state
                  ELSE m.docs[d].state # "active"
    BY ONLY <1>15, <2>4 DEF DocumentsAt, PathKey
  <2>5. ASSUME NEW f \in Paths, NEW d \in DocumentsAt(m, f) PROVE d \in DocumentsAt(w, f)
    BY ONLY <1>15, <2>5 DEF DocumentsAt, PathKey
  <2>6. ASSUME NEW f \in Paths, entries[f] = 0
        PROVE  \A d \in DocumentsAt(m, f) : m.docs[d].state # "active"
    BY <2>4, <2>5, <2>6
  <2>7. ASSUME NEW f \in Paths, entries[f] # 0 PROVE Shown(m, f, entries[f], g)
    <3>1. f <= N
      BY ONLY <1>0, <2>7
    <3>2. Shown(w, f, entries[f], g)
      BY ONLY <2>1, <2>7, <3>1
    <3>3. PICK d \in DocumentsAt(w, f) : w.docs[d].state = "active" /\ Unchanged(w, d, g, entries[f])
      BY ONLY <3>2 DEF Shown
    <3>4. f \in present
      BY <2>7
    <3>5. d \in DocumentsAt(m, f) /\ m.docs[d].rev = w.docs[d].rev /\ m.docs[d].state = w.docs[d].state
      BY ONLY <2>4, <2>7, <3>3, <3>4
    <3>6. Unchanged(m, d, g, entries[f])
      BY ONLY <1>15, <3>3, <3>5 DEF Unchanged
    <3> QED
      BY ONLY <3>3, <3>5, <3>6 DEF Shown
  <2>8. Holds(m, entries, g)
    BY ONLY <2>6, <2>7 DEF Holds
  <2> QED
    BY <2>2, <2>3, <2>8
<1> HIDE DEF N, present, base
<1> QED
  BY ONLY <1>14, <1>15, <1>16
-----------------------------------------------------------------------------
(* The files and fields that a command holds                               *)

\* Entries that name Blobs that are there.
HeldIn(bl, e) == e \in [Paths -> 0 .. MaxContent] /\ \A f \in Paths : e[f] # 0 => bl[e[f]] # 0

\* Where a command has a snapshot, and where it has the settings of a run.
RunPcs == Ingesting \cup {"reindex", "rewrite", "receipt"}
ArchivedPcs == RunPcs \cup {"ingest", "scanned"}

\* A command's local variables, when there are n snapshots and the Blobs bl.
CommandOk(r, n, bl) ==
    /\ r.pc \in PCs
    /\ HeldIn(bl, r.copy) /\ r.todo \subseteq Paths
    /\ r.pc \in {"hash", "copy"} => r.todo # {}
    /\ r.pc = "copy" => r.hash \in Contents
    /\ r.snap \in 0 .. n
    /\ r.pc \in ArchivedPcs => r.snap # 0
    /\ r.pc \in RunPcs => r.config \in Configs
    /\ r.pc = "unchanged" => r.prev # 0
    /\ r.pc \in {"rebuild", "swap"} => r.batch = NoBatch

BlobRows == [Contents -> 0 .. MaxContent]
SrcStates ==
    /\ src.state \in {"none", "active", "failed"}
    /\ src.archive \in {"registered", "archiving", "published", "failed"}
    /\ src.ingestion \in {"not_started", "queued", "running", "ready", "failed"}

ArchiveTypes ==
    /\ file \in [Paths -> 0 .. MaxContent] /\ blobs \in BlobRows /\ SrcStates
    /\ \A s \in 1 .. Len(snaps) : HeldIn(blobs, snaps[s].entries)
    /\ DOMAIN receipts = Batches /\ \A b \in Batches : receipts[b] \in 0 .. Len(snaps)
    /\ \A p \in Procs : CommandOk(proc[p], Len(snaps), blobs)

\* Every snapshot was published by a command of its own, and those that may yet
\* publish have numbers of their own too.
Numbering ==
    /\ \A s \in 1 .. Len(snaps) : snaps[s].by \in 1 .. commands
    /\ \A s, t \in 1 .. Len(snaps) : snaps[s].by = snaps[t].by => s = t
    /\ \A p \in Procs : proc[p].pc \in Unpublished =>
         /\ proc[p].no \in 1 .. commands
         /\ \A s \in 1 .. Len(snaps) : snaps[s].by # proc[p].no
         /\ \A q \in Procs : q # p /\ proc[q].pc \in Unpublished => proc[q].no # proc[p].no

BlobsKept(bl, bm) == \A c \in Contents : bl[c] # 0 => bm[c] # 0

LEMMA HeldLonger ==
    ASSUME NEW bl, NEW bm, BlobsKept(bl, bm), NEW e, HeldIn(bl, e)
    PROVE  HeldIn(bm, e)
<1>1. MaxContent \in Nat /\ e \in [Paths -> 0 .. MaxContent]
  BY ContentAssumption DEF HeldIn
<1>2. ASSUME NEW f \in Paths, e[f] # 0 PROVE e[f] \in Contents
  <2>1. e[f] \in 0 .. MaxContent
    BY <1>1
  <2> QED
    BY ONLY <1>1, <1>2, <2>1 DEF Contents
<1> QED
  BY <1>1, <1>2 DEF HeldIn, BlobsKept

LEMMA CommandLonger ==
    ASSUME NEW r, NEW n \in Nat, NEW bl, NEW bm, NEW m \in Nat, n <= m, BlobsKept(bl, bm),
           CommandOk(r, n, bl)
    PROVE  CommandOk(r, m, bm)
<1>1. HeldIn(bm, r.copy)
  BY HeldLonger DEF CommandOk
<1>2. r.snap \in 0 .. m
  BY DEF CommandOk
<1> QED
  BY <1>1, <1>2 DEF CommandOk

\* The step from r to x leaves what the command holds alone.
Follows(r, x) ==
    /\ x.no = r.no /\ x.todo = r.todo /\ x.copy = r.copy /\ x.snap = r.snap
    /\ x.config = r.config /\ x.batch = r.batch
    /\ x.pc \in PCs \ {"copy", "rebuild"}
    /\ x.pc = "hash" => r.todo # {}
    /\ x.pc = "unchanged" => x.prev # 0
    /\ x.pc \in ArchivedPcs => r.pc \in ArchivedPcs
    /\ x.pc \in RunPcs => r.pc \in RunPcs
    /\ x.pc = "swap" => r.pc = "rebuild"
    /\ x.pc \in Unpublished => r.pc \in Unpublished

LEMMA FollowsIsOk ==
    ASSUME NEW r, NEW x, NEW n, NEW bl, CommandOk(r, n, bl), Follows(r, x)
    PROVE  CommandOk(x, n, bl)
BY DEF CommandOk, Follows

LEMMA IdleIsOk ==
    ASSUME NEW n \in Nat, NEW bl
    PROVE  CommandOk(Idle, n, bl)
<1>1. NoFiles \in [Paths -> 0 .. MaxContent] /\ \A f \in Paths : NoFiles[f] = 0
  <2>0. MaxContent \in Nat
    BY ContentAssumption
  <2>1. 0 \in 0 .. MaxContent
    BY ONLY <2>0
  <2> QED
    BY <2>1 DEF NoFiles
<1>2. /\ Idle.pc = "idle" /\ Idle.copy = NoFiles /\ Idle.todo = {} /\ Idle.snap = 0
  BY DEF Idle
<1> QED
  BY <1>1, <1>2 DEF CommandOk, HeldIn, PCs, ArchivedPcs, RunPcs, Ingesting, Stages

\* A command that starts, with a snapshot s of the n there are.
LEMMA StartIsOk ==
    ASSUME NEW n \in Nat, NEW bl, NEW x, NEW pc, NEW s, s \in 0 .. n, NEW todo, todo \subseteq Paths,
           x.pc = pc, x.copy = NoFiles, x.todo = todo, x.snap = s, x.batch = NoBatch \/ pc # "rebuild",
           pc \in {"find", "list", "rebuild"} \/ (pc = "ingest" /\ s # 0)
    PROVE  CommandOk(x, n, bl)
<1>1. NoFiles \in [Paths -> 0 .. MaxContent] /\ \A f \in Paths : NoFiles[f] = 0
  <2>0. MaxContent \in Nat
    BY ContentAssumption
  <2>1. 0 \in 0 .. MaxContent
    BY ONLY <2>0
  <2> QED
    BY <2>1 DEF NoFiles
<1>2. HeldIn(bl, x.copy)
  BY <1>1 DEF HeldIn
<1>3. pc \in PCs /\ pc \notin {"hash", "copy", "unchanged", "swap"} /\ pc \notin RunPcs
      /\ (pc \in ArchivedPcs => pc = "ingest")
  BY DEF PCs, ArchivedPcs, RunPcs, Ingesting, Stages
<1> QED
  BY <1>2, <1>3 DEF CommandOk

\* A step of p that publishes no snapshot.
Calm(p) ==
    /\ DOMAIN proc' = Procs /\ OthersRest(p)
    /\ UNCHANGED <<snaps, file>>
    /\ blobs' \in BlobRows /\ BlobsKept(blobs, blobs')
    /\ SrcStates'
    /\ CommandOk(proc'[p], Len(snaps), blobs')
    /\ \/ /\ commands' = commands
          /\ proc'[p].pc \in Unpublished => proc[p].pc \in Unpublished /\ proc'[p].no = proc[p].no
       \/ /\ commands' = commands + 1 /\ proc'[p].no = commands + 1

LEMMA CalmKeepsTypes ==
    ASSUME ArchiveTypes, Shape, NEW p \in Procs, Calm(p),
           DOMAIN receipts' = Batches, \A b \in Batches : receipts'[b] \in 0 .. Len(snaps)
    PROVE  ArchiveTypes'
<1>0. Len(snaps) \in Nat /\ snaps' = snaps /\ file' = file
  BY SnapsLength DEF Calm
<1>1. ASSUME NEW q \in Procs PROVE CommandOk(proc'[q], Len(snaps), blobs')
  <2>1. CASE q = p
    BY <2>1 DEF Calm
  <2>2. CASE q # p
    <3>1. proc'[q] = proc[q]
      BY <2>2 DEF Calm, OthersRest
    <3>2. CommandOk(proc[q], Len(snaps), blobs) /\ BlobsKept(blobs, blobs')
      BY DEF ArchiveTypes, Calm
    <3>3. PICK r, bl, bm, n : r = proc[q] /\ bl = blobs /\ bm = blobs' /\ n = Len(snaps)
      OBVIOUS
    <3>4. CommandOk(r, n, bl) /\ BlobsKept(bl, bm) /\ n \in Nat /\ n <= n
      BY <1>0, <3>2, <3>3
    <3>5. CommandOk(r, n, bm)
      BY ONLY <3>4, CommandLonger
    <3> QED
      BY ONLY <3>1, <3>3, <3>5
  <2> QED
    BY <2>1, <2>2
<1>2. ASSUME NEW s \in 1 .. Len(snaps) PROVE HeldIn(blobs', snaps[s].entries)
  <2>1. HeldIn(blobs, snaps[s].entries) /\ BlobsKept(blobs, blobs')
    BY DEF ArchiveTypes, Calm
  <2>2. PICK e, bl, bm : e = snaps[s].entries /\ bl = blobs /\ bm = blobs'
    OBVIOUS
  <2>3. HeldIn(bl, e) /\ BlobsKept(bl, bm)
    BY ONLY <2>1, <2>2
  <2>4. HeldIn(bm, e)
    BY ONLY <2>3, HeldLonger
  <2> QED
    BY ONLY <2>2, <2>4
<1>3. file' \in [Paths -> 0 .. MaxContent] /\ blobs' \in BlobRows /\ SrcStates'
  BY <1>0 DEF ArchiveTypes, Calm
<1> QED
  BY <1>0, <1>1, <1>2, <1>3 DEF ArchiveTypes

LEMMA CalmKeepsNumbers ==
    ASSUME Numbering, Shape, NEW p \in Procs, Calm(p)
    PROVE  Numbering'
<1>0. snaps' = snaps /\ OthersRest(p) /\ commands \in Nat
  <2>1. commands \in 0 .. limit.commands /\ limit.commands \in Nat
    BY ArchiveBounds DEF Shape
  <2> QED
    BY <2>1 DEF Calm
<1>1. CASE /\ commands' = commands
           /\ proc'[p].pc \in Unpublished => proc[p].pc \in Unpublished /\ proc'[p].no = proc[p].no
  <2>1. ASSUME NEW q \in Procs, proc'[q].pc \in Unpublished
        PROVE  proc[q].pc \in Unpublished /\ proc'[q].no = proc[q].no
    BY <1>0, <1>1, <2>1 DEF OthersRest
  <2>2. ASSUME NEW q \in Procs, proc'[q].pc \in Unpublished
        PROVE  /\ proc'[q].no \in 1 .. commands
               /\ \A s \in 1 .. Len(snaps) : snaps[s].by # proc'[q].no
               /\ \A o \in Procs : o # q /\ proc'[o].pc \in Unpublished => proc'[o].no # proc'[q].no
    BY <2>1, <2>2 DEF Numbering
  <2> QED
    BY <1>0, <1>1, <2>2 DEF Numbering
<1>2. CASE commands' = commands + 1 /\ proc'[p].no = commands + 1
  <2>1. \A i \in 1 .. commands : i \in 1 .. commands + 1 /\ i # commands + 1
    BY ONLY <1>0
  <2>2. commands + 1 \in 1 .. commands + 1
    BY ONLY <1>0
  <2>3. ASSUME NEW q \in Procs, q # p, proc'[q].pc \in Unpublished
        PROVE  /\ proc'[q].no \in 1 .. commands
               /\ \A s \in 1 .. Len(snaps) : snaps[s].by # proc'[q].no
               /\ \A o \in Procs : o # q /\ o # p /\ proc'[o].pc \in Unpublished =>
                    proc'[o].no # proc'[q].no
    BY <1>0, <2>3 DEF Numbering, OthersRest
  <2>4. ASSUME NEW q \in Procs, proc'[q].pc \in Unpublished
        PROVE  /\ proc'[q].no \in 1 .. commands + 1
               /\ \A s \in 1 .. Len(snaps) : snaps[s].by # proc'[q].no
               /\ \A o \in Procs : o # q /\ proc'[o].pc \in Unpublished => proc'[o].no # proc'[q].no
    <3>1. \A s \in 1 .. Len(snaps) : snaps[s].by \in 1 .. commands
      BY DEF Numbering
    <3>2. CASE q = p
      BY ONLY <1>2, <2>1, <2>2, <2>3, <3>1, <3>2
    <3>3. CASE q # p
      BY ONLY <1>2, <2>1, <2>3, <2>4, <3>3
    <3> QED
      BY <3>2, <3>3
  <2> QED
    BY <1>0, <1>2, <2>1, <2>4 DEF Numbering
<1> QED
  BY <1>1, <1>2 DEF Calm

LEMMA NumberedCommands ==
    ASSUME Numbering, Shape
    PROVE  Len(snaps) <= MaxCommands /\ Len(snaps) \in Nat
<1>1. commands \in Nat /\ commands <= MaxCommands /\ MaxCommands \in Nat
  BY ArchiveBounds DEF Shape
<1>2. Len(snaps) \in Nat
  BY SnapsLength
<1>3. PICK n, c : n = Len(snaps) /\ c = commands
  OBVIOUS
<1>4. PICK by : by = [s \in 1 .. n |-> snaps[s].by]
  OBVIOUS
<1>5. by \in Injection(1 .. n, 1 .. c)
  <2>1. \A s \in 1 .. n : snaps[s].by \in 1 .. c
    BY <1>3 DEF Numbering
  <2>2. \A s, t \in 1 .. n : snaps[s].by = snaps[t].by => s = t
    BY <1>3 DEF Numbering
  <2>3. by \in [1 .. n -> 1 .. c]
    BY ONLY <1>4, <2>1
  <2>4. IsInjective(by)
    BY ONLY <1>4, <2>2 DEF IsInjective
  <2> QED
    BY ONLY <2>3, <2>4 DEF Injection
<1>6. /\ IsFiniteSet(1 .. n) /\ Cardinality(1 .. n) = n
      /\ IsFiniteSet(1 .. c) /\ Cardinality(1 .. c) = c
  <2>1. n \in Nat /\ c \in Nat
    BY ONLY <1>1, <1>2, <1>3
  <2>2. ASSUME NEW i \in Nat PROVE IsFiniteSet(1 .. i) /\ Cardinality(1 .. i) = i
    BY FS_Interval
  <2> QED
    BY ONLY <2>1, <2>2
<1>7. n <= c
  <2>1. Cardinality(1 .. n) <= Cardinality(1 .. c)
    BY ONLY <1>5, <1>6, FS_Injection
  <2> QED
    BY ONLY <1>6, <2>1
<1> QED
  BY ONLY <1>1, <1>2, <1>3, <1>7
-----------------------------------------------------------------------------
(* What the steps of an archive leave                                      *)

\* Where a run has published, or is ready.
RunIsOut == {"index", "write", "invalidate", "complete", "reindex", "rewrite", "receipt"}

\* A step of p that neither publishes for a run nor completes one.
Settled(p) ==
    /\ proc'[p].pc \notin RunIsOut
    /\ src'.ingestion = "ready" => src.ingestion = "ready" /\ src'.run = src.run
    /\ receipts' = receipts

ArchivePcs == {"idle", "register", "mark", "hash", "compare", "number", "unchanged", "manifest",
               "publish", "archiveFailed"}

LEMMA ArchivePcsAre ==
    /\ ArchivePcs \subseteq PCs \ {"copy", "rebuild", "swap"}
    /\ ArchivePcs \cap ArchivedPcs = {} /\ ArchivePcs \cap RunPcs = {}
    /\ ArchivePcs \cap RunIsOut = {}
BY DEF ArchivePcs, PCs, ArchivedPcs, RunPcs, Ingesting, Stages, RunIsOut

\* A step of p among the archive's states that changes neither what p holds nor a Blob.
LEMMA PcStepIsCalm ==
    ASSUME ArchiveTypes, Shape, NEW p \in Procs, NEW pc \in ArchivePcs,
           DOMAIN proc' = Procs, OthersRest(p), UNCHANGED <<snaps, file, blobs, commands>>, SrcStates',
           proc'[p].pc = pc, proc'[p].no = proc[p].no, proc'[p].todo = proc[p].todo,
           proc'[p].copy = proc[p].copy, proc'[p].snap = proc[p].snap,
           proc'[p].config = proc[p].config, proc'[p].batch = proc[p].batch,
           pc = "hash" => proc[p].todo # {}, pc = "unchanged" => proc'[p].prev # 0,
           pc \in Unpublished => proc[p].pc \in Unpublished
    PROVE  Calm(p) /\ proc'[p].pc \notin RunIsOut
<1>1. PICK r, x, n, bl : r = proc[p] /\ x = proc'[p] /\ n = Len(snaps) /\ bl = blobs
  OBVIOUS
<1>2. Follows(r, x)
  BY <1>1, ArchivePcsAre DEF Follows
<1>3. CommandOk(r, n, bl)
  BY <1>1 DEF ArchiveTypes
<1>4. CommandOk(x, n, bl)
  BY ONLY <1>2, <1>3, FollowsIsOk
<1>5. BlobsKept(bl, bl) /\ bl \in BlobRows
  BY <1>1 DEF BlobsKept, ArchiveTypes
<1> QED
  BY <1>1, <1>4, <1>5, ArchivePcsAre DEF Calm

LEMMA IdleStepIsCalm ==
    ASSUME ArchiveTypes, Shape, NEW p \in Procs, Set(p, Idle),
           UNCHANGED <<snaps, file, blobs, commands>>, SrcStates'
    PROVE  Calm(p) /\ proc'[p].pc \notin RunIsOut
<1>1. DOMAIN proc' = Procs /\ OthersRest(p) /\ proc'[p] = Idle
  BY SetDoes
<1>2. Idle.pc = "idle" /\ "idle" \notin Unpublished /\ "idle" \notin RunIsOut
  BY IdleShape DEF Unpublished, RunIsOut
<1>3. Len(snaps) \in Nat
  BY SnapsLength
<1>4. PICK n, bl : n = Len(snaps) /\ bl = blobs
  OBVIOUS
<1>5. CommandOk(Idle, n, bl)
  BY ONLY <1>3, <1>4, IdleIsOk
<1>6. BlobsKept(bl, bl) /\ bl \in BlobRows
  BY <1>4 DEF BlobsKept, ArchiveTypes
<1> QED
  BY <1>1, <1>2, <1>4, <1>5, <1>6 DEF Calm

LEMMA SameSource ==
    ASSUME ArchiveTypes, src' = src
    PROVE  SrcStates' /\ (src'.ingestion = "ready" => src.ingestion = "ready" /\ src'.run = src.run)
BY DEF ArchiveTypes, SrcStates

\* Updates of the Source that leave its ingestion alone.
LEMMA SourceMarked ==
    ASSUME ArchiveTypes, Shape, NEW a \in {"active", "failed"},
           NEW b \in {"archiving", "published", "failed"},
           src' = [src EXCEPT !.state = a, !.archive = b] \/ src' = [src EXCEPT !.state = a]
    PROVE  SrcStates' /\ (src'.ingestion = "ready" => src.ingestion = "ready" /\ src'.run = src.run)
<1>1. PICK r, x : r = src /\ x = src'
  OBVIOUS
<1>2. /\ DOMAIN r = SrcFields
      /\ x = [r EXCEPT !.state = a, !.archive = b] \/ x = [r EXCEPT !.state = a]
  BY <1>1 DEF Shape
<1>3. /\ x.state = a /\ x.archive \in {b, r.archive} /\ x.ingestion = r.ingestion /\ x.run = r.run
  BY ONLY <1>2 DEF SrcFields
<1>4. /\ r.archive \in {"registered", "archiving", "published", "failed"}
      /\ r.ingestion \in {"not_started", "queued", "running", "ready", "failed"}
  BY <1>1 DEF ArchiveTypes, SrcStates
<1> QED
  BY <1>1, <1>3, <1>4 DEF SrcStates

LEMMA EarlyArchiveIsCalm ==
    ASSUME ArchiveTypes, Shape, NEW p \in Procs,
           FindSource(p) \/ RegisterSource(p) \/ MarkArchiving(p)
    PROVE  Calm(p) /\ Settled(p)
<1>1. CASE FindSource(p)
  <2>1. PICK pc \in {"register", "mark"} : Goto(p, pc)
    BY <1>1 DEF FindSource
  <2>2. /\ DOMAIN proc' = Procs /\ OthersRest(p) /\ proc'[p].pc = pc /\ SameButPc(p, proc'[p])
    BY <2>1, GotoDoes
  <2>3. UNCHANGED <<snaps, file, blobs, commands, src, receipts>> /\ proc[p].pc = "find"
    BY <1>1 DEF FindSource, tree, At
  <2>4. pc \in ArchivePcs /\ pc # "hash" /\ proc[p].pc \in Unpublished
    BY <2>3 DEF ArchivePcs, Unpublished
  <2> QED
    BY <2>2, <2>3, <2>4, SameSource, PcStepIsCalm DEF SameButPc, Settled
<1>2. CASE RegisterSource(p)
  <2>2. /\ DOMAIN proc' = Procs /\ OthersRest(p) /\ proc'[p].pc = "mark" /\ SameButPc(p, proc'[p])
    BY <1>2, GotoDoes DEF RegisterSource
  <2>3. UNCHANGED <<snaps, file, blobs, commands, receipts>> /\ proc[p].pc = "register"
    BY <1>2 DEF RegisterSource, tree, At
  <2>4. "mark" \in ArchivePcs /\ "mark" # "hash" /\ proc[p].pc \in Unpublished
    BY <2>3 DEF ArchivePcs, Unpublished
  <2>5. src' = src \/ src' = [src EXCEPT !.state = "active"]
    BY <1>2 DEF RegisterSource
  <2>6. SrcStates' /\ (src'.ingestion = "ready" => src.ingestion = "ready" /\ src'.run = src.run)
    BY <2>5, SameSource, SourceMarked
  <2> QED
    BY <2>2, <2>3, <2>4, <2>6, PcStepIsCalm DEF SameButPc, Settled
<1>3. CASE MarkArchiving(p)
  <2>1. PICK pc \in {"compare", "hash"} : Goto(p, pc) /\ (pc = "hash" => proc[p].todo # {})
    BY <1>3 DEF MarkArchiving
  <2>2. /\ DOMAIN proc' = Procs /\ OthersRest(p) /\ proc'[p].pc = pc /\ SameButPc(p, proc'[p])
    BY <2>1, GotoDoes
  <2>3. UNCHANGED <<snaps, file, blobs, commands, receipts>> /\ proc[p].pc = "mark"
        /\ src' = [src EXCEPT !.state = "active", !.archive = "archiving"]
    BY <1>3 DEF MarkArchiving, tree, At
  <2>4. pc \in ArchivePcs /\ proc[p].pc \in Unpublished
    BY <2>3 DEF ArchivePcs, Unpublished
  <2>6. SrcStates' /\ (src'.ingestion = "ready" => src.ingestion = "ready" /\ src'.run = src.run)
    BY <2>3, SourceMarked
  <2> QED
    BY <2>1, <2>2, <2>3, <2>4, <2>6, PcStepIsCalm DEF SameButPc, Settled
<1> QED
  BY <1>1, <1>2, <1>3

LEMMA NumberingIsCalm ==
    ASSUME ArchiveTypes, Shape, NEW p \in Procs,
           \/ Compare(p) \/ Number(p) \/ WriteManifest(p) \/ ArchiveThrows(p)
           \/ (PublishSnapshot(p) /\ ~ FreeSequence(NextSequence(p)))
    PROVE  Calm(p) /\ Settled(p)
<1>0. DOMAIN proc[p] = ProcFields
  BY DEF Shape
<1>1. CASE Compare(p)
  <2>1. DOMAIN proc' = Procs /\ OthersRest(p)
        /\ proc'[p] = [proc[p] EXCEPT !.pc = "number", !.base = Entries(src.snap)]
    BY <1>1, SetDoes DEF Compare
  <2>2. /\ proc'[p].pc = "number" /\ proc'[p].no = proc[p].no /\ proc'[p].todo = proc[p].todo
        /\ proc'[p].copy = proc[p].copy /\ proc'[p].snap = proc[p].snap
        /\ proc'[p].config = proc[p].config /\ proc'[p].batch = proc[p].batch
    BY <1>0, <2>1 DEF ProcFields
  <2>3. UNCHANGED <<snaps, file, blobs, commands, src, receipts>> /\ proc[p].pc = "compare"
    BY <1>1 DEF Compare, tree, At
  <2>4. "number" \in ArchivePcs /\ "number" # "hash" /\ proc[p].pc \in Unpublished
    BY <2>3 DEF ArchivePcs, Unpublished
  <2> QED
    BY <2>1, <2>2, <2>3, <2>4, SameSource, PcStepIsCalm DEF Settled
<1>2. CASE Number(p)
  <2>1. PICK pc \in {"unchanged", "manifest"} :
           DOMAIN proc' = Procs /\ OthersRest(p)
           /\ proc'[p] = [proc[p] EXCEPT !.pc = pc, !.prev = src.snap]
           /\ (pc = "unchanged" => src.snap # 0)
    BY <1>2, SetDoes DEF Number
  <2>2. /\ proc'[p].pc = pc /\ proc'[p].prev = src.snap
        /\ proc'[p].no = proc[p].no /\ proc'[p].todo = proc[p].todo
        /\ proc'[p].copy = proc[p].copy /\ proc'[p].snap = proc[p].snap
        /\ proc'[p].config = proc[p].config /\ proc'[p].batch = proc[p].batch
    BY <1>0, <2>1 DEF ProcFields
  <2>3. UNCHANGED <<snaps, file, blobs, commands, src, receipts>> /\ proc[p].pc = "number"
    BY <1>2 DEF Number, tree, At
  <2>4. pc \in ArchivePcs /\ pc # "hash" /\ proc[p].pc \in Unpublished
    BY <2>3 DEF ArchivePcs, Unpublished
  <2> QED
    BY <2>1, <2>2, <2>3, <2>4, SameSource, PcStepIsCalm DEF Settled
<1>3. CASE WriteManifest(p)
  <2>2. /\ DOMAIN proc' = Procs /\ OthersRest(p) /\ proc'[p].pc = "publish" /\ SameButPc(p, proc'[p])
    BY <1>3, GotoDoes DEF WriteManifest
  <2>3. UNCHANGED <<snaps, file, blobs, commands, src, receipts>> /\ proc[p].pc = "manifest"
    BY <1>3 DEF WriteManifest, tree, At
  <2>4. "publish" \in ArchivePcs /\ "publish" # "hash" /\ proc[p].pc \in Unpublished
    BY <2>3 DEF ArchivePcs, Unpublished
  <2> QED
    BY <2>2, <2>3, <2>4, SameSource, PcStepIsCalm DEF SameButPc, Settled
<1>4. CASE ArchiveThrows(p) \/ (PublishSnapshot(p) /\ ~ FreeSequence(NextSequence(p)))
  <2>1. Goto(p, "archiveFailed") /\ UNCHANGED <<snaps, file, blobs, commands, src, receipts>>
    BY <1>4 DEF ArchiveThrows, PublishSnapshot, tree
  <2>2. /\ DOMAIN proc' = Procs /\ OthersRest(p) /\ proc'[p].pc = "archiveFailed"
        /\ SameButPc(p, proc'[p])
    BY <2>1, GotoDoes
  <2>4. "archiveFailed" \in ArchivePcs /\ "archiveFailed" # "hash" /\ "archiveFailed" \notin Unpublished
    BY DEF ArchivePcs, Unpublished
  <2> QED
    BY <2>1, <2>2, <2>4, SameSource, PcStepIsCalm DEF SameButPc, Settled
<1> QED
  BY <1>1, <1>2, <1>3, <1>4

LEMMA FailingIsCalm ==
    ASSUME ArchiveTypes, Shape, NEW p \in Procs, MarkFailed(p) \/ Kill(p)
    PROVE  Calm(p) /\ Settled(p)
<1>1. CASE MarkFailed(p)
  <2>1. /\ Set(p, Idle) /\ UNCHANGED <<snaps, file, blobs, commands, receipts>>
        /\ src' = [src EXCEPT !.state = "failed", !.archive = "failed"]
    BY <1>1 DEF MarkFailed, tree
  <2>2. SrcStates' /\ (src'.ingestion = "ready" => src.ingestion = "ready" /\ src'.run = src.run)
    BY <2>1, SourceMarked
  <2> QED
    BY <2>1, <2>2, IdleStepIsCalm DEF Settled
<1>2. CASE Kill(p)
  <2>1. Set(p, Idle) /\ UNCHANGED <<snaps, file, blobs, commands, receipts, src>>
    BY <1>2 DEF Kill, tree
  <2>2. SrcStates' /\ (src'.ingestion = "ready" => src.ingestion = "ready" /\ src'.run = src.run)
    BY <2>1, SameSource
  <2> QED
    BY <2>1, <2>2, IdleStepIsCalm DEF Settled
<1> QED
  BY <1>1, <1>2

LEMMA ListingIsCalm ==
    ASSUME ArchiveTypes, Shape, NEW p \in Procs, ListFiles(p)
    PROVE  Calm(p) /\ Settled(p)
<1>1. DOMAIN proc' = Procs /\ OthersRest(p)
      /\ proc'[p] = [proc[p] EXCEPT !.pc = "mark", !.todo = Listed]
  BY SetDoes DEF ListFiles
<1>2. DOMAIN proc[p] = ProcFields
  BY DEF Shape
<1>3. PICK r, x, n, bl, todo : /\ r = proc[p] /\ x = proc'[p] /\ n = Len(snaps) /\ bl = blobs
                               /\ todo = Listed
  OBVIOUS
<1>4. /\ x.pc = "mark" /\ x.todo = todo /\ x.no = r.no /\ x.copy = r.copy /\ x.snap = r.snap
  BY ONLY <1>1, <1>2, <1>3 DEF ProcFields
<1>5. todo \subseteq Paths
  BY <1>3 DEF Listed
<1>6. CommandOk(r, n, bl)
  BY <1>3 DEF ArchiveTypes
<1>7. CommandOk(x, n, bl)
  <2>1. /\ "mark" \in PCs /\ "mark" \notin {"hash", "copy", "unchanged", "rebuild", "swap"}
        /\ "mark" \notin ArchivedPcs /\ "mark" \notin RunPcs
    BY DEF PCs, ArchivedPcs, RunPcs, Ingesting, Stages
  <2> QED
    BY ONLY <1>4, <1>5, <1>6, <2>1 DEF CommandOk
<1>8. UNCHANGED <<snaps, file, blobs, commands, src, receipts>> /\ proc[p].pc = "list"
  BY DEF ListFiles, tree, At
<1>9. BlobsKept(bl, bl) /\ bl \in BlobRows
  BY <1>3 DEF BlobsKept, ArchiveTypes
<1>10. proc[p].pc \in Unpublished /\ "mark" \notin RunIsOut
  BY <1>8 DEF Unpublished, RunIsOut
<1> QED
  BY <1>1, <1>3, <1>4, <1>7, <1>8, <1>9, <1>10, SameSource DEF Calm, Settled

LEMMA FirstTodo ==
    ASSUME ArchiveTypes, NEW p \in Procs, proc[p].pc \in {"hash", "copy"}
    PROVE  Min2(proc[p].todo) \in Paths /\ Min2(proc[p].todo) \in proc[p].todo
<1>1. PICK r, n, bl : r = proc[p] /\ n = Len(snaps) /\ bl = blobs
  OBVIOUS
<1>2. CommandOk(r, n, bl) /\ r.pc \in {"hash", "copy"}
  BY <1>1 DEF ArchiveTypes
<1>3. r.todo \subseteq Paths /\ r.todo # {}
  BY ONLY <1>2 DEF CommandOk
<1>4. \A f \in r.todo : f \in Nat
  BY <1>3, ContentAssumption
<1>5. Min2(r.todo) \in r.todo
  BY ONLY <1>3, <1>4, LeastIsOne
<1> QED
  BY <1>1, <1>3, <1>5

LEMMA HashingIsCalm ==
    ASSUME ArchiveTypes, Shape, NEW p \in Procs, HashFile(p)
    PROVE  Calm(p) /\ Settled(p)
<1>1. PICK f : f = Min2(proc[p].todo)
  OBVIOUS
<1>2. UNCHANGED <<snaps, file, blobs, commands, src, receipts>> /\ proc[p].pc = "hash"
  BY DEF HashFile, tree, At
<1>3. f \in Paths
  BY <1>1, <1>2, FirstTodo
<1>4. Set(p, IF file[f] = 0 THEN [proc[p] EXCEPT !.pc = "archiveFailed"]
             ELSE [proc[p] EXCEPT !.pc = "copy", !.hash = file[f]])
  BY <1>1 DEF HashFile
<1>5. DOMAIN proc[p] = ProcFields
  BY DEF Shape
<1>6. CASE file[f] = 0
  <2>1. Goto(p, "archiveFailed")
    BY <1>4, <1>6 DEF Goto
  <2>2. /\ DOMAIN proc' = Procs /\ OthersRest(p) /\ proc'[p].pc = "archiveFailed"
        /\ SameButPc(p, proc'[p])
    BY <2>1, GotoDoes
  <2>4. "archiveFailed" \in ArchivePcs /\ "archiveFailed" # "hash" /\ "archiveFailed" \notin Unpublished
        /\ "archiveFailed" # "unchanged"
    BY DEF ArchivePcs, Unpublished
  <2> QED
    BY <1>2, <2>2, <2>4, SameSource, PcStepIsCalm DEF SameButPc, Settled
<1>7. CASE file[f] # 0
  <2>1. DOMAIN proc' = Procs /\ OthersRest(p)
        /\ proc'[p] = [proc[p] EXCEPT !.pc = "copy", !.hash = file[f]]
    BY <1>4, <1>7, SetDoes
  <2>2. PICK r, x, n, bl, h : r = proc[p] /\ x = proc'[p] /\ n = Len(snaps) /\ bl = blobs /\ h = file[f]
    OBVIOUS
  <2>3. /\ x.pc = "copy" /\ x.hash = h /\ x.todo = r.todo /\ x.no = r.no /\ x.copy = r.copy
        /\ x.snap = r.snap
    BY ONLY <1>5, <2>1, <2>2 DEF ProcFields
  <2>4. h \in Contents
    <3>1. h \in 0 .. MaxContent /\ MaxContent \in Nat
      BY <1>3, <2>2, ContentAssumption DEF ArchiveTypes
    <3> QED
      BY ONLY <1>7, <2>2, <3>1 DEF Contents
  <2>5. CommandOk(r, n, bl) /\ r.pc = "hash"
    BY <1>2, <2>2 DEF ArchiveTypes
  <2>6. CommandOk(x, n, bl)
    <3>1. /\ "copy" \in PCs /\ "copy" \notin {"unchanged", "rebuild", "swap"}
          /\ "copy" \notin ArchivedPcs /\ "copy" \notin RunPcs
      BY DEF PCs, ArchivedPcs, RunPcs, Ingesting, Stages
    <3> QED
      BY ONLY <2>3, <2>4, <2>5, <3>1 DEF CommandOk
  <2>7. BlobsKept(bl, bl) /\ bl \in BlobRows
    BY <2>2 DEF BlobsKept, ArchiveTypes
  <2>8. proc[p].pc \in Unpublished /\ "copy" \notin RunIsOut
    BY <1>2 DEF Unpublished, RunIsOut
  <2> QED
    BY <1>2, <2>1, <2>2, <2>3, <2>6, <2>7, <2>8, SameSource DEF Calm, Settled
<1> QED
  BY <1>6, <1>7

LEMMA CopyingIsCalm ==
    ASSUME ArchiveTypes, Shape, NEW p \in Procs, CopyFile(p)
    PROVE  Calm(p) /\ Settled(p)
<1>1. PICK f, h, left : f = Min2(proc[p].todo) /\ h = proc[p].hash /\ left = proc[p].todo \ {f}
  OBVIOUS
<1>2. UNCHANGED <<snaps, file, commands, src, receipts>> /\ proc[p].pc = "copy"
  BY DEF CopyFile, tree, At
<1>3. f \in Paths /\ left \subseteq Paths
  <2>1. proc[p].todo \subseteq Paths
    BY DEF ArchiveTypes, CommandOk
  <2> QED
    BY <1>1, <1>2, <2>1, FirstTodo
<1>4. \/ Goto(p, "archiveFailed") /\ UNCHANGED blobs
      \/ /\ blobs[h] = 0 => file[f] # 0
         /\ blobs' = IF blobs[h] = 0 THEN [blobs EXCEPT ![h] = file[f]] ELSE blobs
         /\ Set(p, [proc[p] EXCEPT !.pc = IF left = {} THEN "compare" ELSE "hash",
                                   !.todo = left, !.hash = 0, !.copy[f] = h])
  BY <1>1 DEF CopyFile
<1>5. DOMAIN proc[p] = ProcFields
  BY DEF Shape
<1>6. CASE Goto(p, "archiveFailed") /\ UNCHANGED blobs
  <2>2. /\ DOMAIN proc' = Procs /\ OthersRest(p) /\ proc'[p].pc = "archiveFailed"
        /\ SameButPc(p, proc'[p])
    BY <1>6, GotoDoes
  <2>4. "archiveFailed" \in ArchivePcs /\ "archiveFailed" # "hash" /\ "archiveFailed" \notin Unpublished
        /\ "archiveFailed" # "unchanged"
    BY DEF ArchivePcs, Unpublished
  <2> QED
    BY <1>2, <1>6, <2>2, <2>4, SameSource, PcStepIsCalm DEF SameButPc, Settled
<1>7. CASE /\ blobs[h] = 0 => file[f] # 0
           /\ blobs' = IF blobs[h] = 0 THEN [blobs EXCEPT ![h] = file[f]] ELSE blobs
           /\ Set(p, [proc[p] EXCEPT !.pc = IF left = {} THEN "compare" ELSE "hash",
                                     !.todo = left, !.hash = 0, !.copy[f] = h])
  <2>0. PICK pc : pc = IF left = {} THEN "compare" ELSE "hash"
    OBVIOUS
  <2>1. DOMAIN proc' = Procs /\ OthersRest(p)
        /\ proc'[p] = [proc[p] EXCEPT !.pc = pc, !.todo = left, !.hash = 0, !.copy[f] = h]
    BY <1>7, <2>0, SetDoes
  <2>2. PICK r, x, n, bl, bm : r = proc[p] /\ x = proc'[p] /\ n = Len(snaps) /\ bl = blobs /\ bm = blobs'
    OBVIOUS
  <2>3. /\ x.pc = pc /\ x.todo = left /\ x.no = r.no /\ x.snap = r.snap
        /\ x.copy = [r.copy EXCEPT ![f] = h]
    BY ONLY <1>5, <2>1, <2>2 DEF ProcFields
  <2>4. CommandOk(r, n, bl) /\ r.pc = "copy" /\ h = r.hash
    BY <1>1, <1>2, <2>2 DEF ArchiveTypes
  <2>5. h \in Contents /\ HeldIn(bl, r.copy) /\ r.snap \in 0 .. n
    BY ONLY <2>4 DEF CommandOk
  <2>6. bl \in BlobRows /\ file[f] \in 0 .. MaxContent /\ MaxContent \in Nat
    BY <1>3, <2>2, ContentAssumption DEF ArchiveTypes
  <2>7. /\ bl[h] = 0 => file[f] # 0
        /\ bm = IF bl[h] = 0 THEN [bl EXCEPT ![h] = file[f]] ELSE bl
    BY ONLY <1>7, <2>2
  <2>8. bm \in BlobRows /\ BlobsKept(bl, bm) /\ bm[h] # 0
    BY ONLY <2>5, <2>6, <2>7 DEF BlobRows, BlobsKept
  <2>9. HeldIn(bm, r.copy)
    BY ONLY <2>5, <2>8, HeldLonger
  <2>10. HeldIn(bm, x.copy)
    <3>1. h \in 0 .. MaxContent
      BY ONLY <2>5, <2>6 DEF Contents
    <3> QED
      BY ONLY <1>3, <2>3, <2>8, <2>9, <3>1 DEF HeldIn
  <2>11. CommandOk(x, n, bm)
    <3>1. /\ {"compare", "hash"} \subseteq PCs
          /\ {"compare", "hash"} \cap ({"copy", "unchanged", "rebuild", "swap"}
                                         \cup ArchivedPcs \cup RunPcs) = {}
      BY DEF PCs, ArchivedPcs, RunPcs, Ingesting, Stages
    <3>2. pc \in {"compare", "hash"} /\ (pc = "hash" => left # {})
      BY ONLY <2>0
    <3> QED
      BY ONLY <1>3, <2>3, <2>5, <2>10, <3>1, <3>2 DEF CommandOk
  <2>12. proc[p].pc \in Unpublished /\ pc \notin RunIsOut
    BY <1>2, <2>0 DEF Unpublished, RunIsOut
  <2> QED
    BY <1>2, <2>1, <2>2, <2>3, <2>8, <2>11, <2>12, SameSource DEF Calm, Settled
<1> QED
  BY <1>4, <1>6, <1>7

LEMMA ArchivedIsOk ==
    ASSUME Shape, NEW p \in Procs, NEW s, Archived(p, s), NEW n \in Nat, s \in 1 .. n, NEW bl
    PROVE  CommandOk(proc'[p], n, bl) /\ proc'[p].pc \in {"ingest", "idle"}
<1>1. proc'[p] = IF proc[p].build
         THEN [Idle EXCEPT !.pc = "ingest", !.batch = proc[p].batch, !.snap = s] ELSE Idle
  BY SetDoes DEF Archived
<1>2. CASE proc[p].build
  <2>1. PICK x, b : x = proc'[p] /\ b = proc[p].batch
    OBVIOUS
  <2>2. x = [Idle EXCEPT !.pc = "ingest", !.batch = b, !.snap = s]
    BY <1>1, <1>2, <2>1
  <2>3. x.pc = "ingest" /\ x.copy = NoFiles /\ x.todo = {} /\ x.snap = s
    BY ONLY <2>2 DEF Idle
  <2>4. s \in 0 .. n /\ s # 0 /\ {} \subseteq Paths
    OBVIOUS
  <2>5. CommandOk(x, n, bl)
    BY ONLY n \in Nat, <2>3, <2>4, StartIsOk
  <2> QED
    BY <2>1, <2>3, <2>5
<1>3. CASE ~ proc[p].build
  <2>1. proc'[p] = Idle
    BY <1>1, <1>3
  <2> QED
    BY <2>1, IdleIsOk, IdleShape
<1> QED
  BY <1>2, <1>3

LEMMA FinishingIsCalm ==
    ASSUME ArchiveTypes, Shape, NEW p \in Procs, FinishUnchanged(p)
    PROVE  Calm(p) /\ Settled(p)
<1>1. UNCHANGED <<snaps, file, blobs, commands, receipts>> /\ proc[p].pc = "unchanged"
      /\ src' = [src EXCEPT !.state = "active", !.archive = "published"]
      /\ Archived(p, proc[p].prev)
  BY DEF FinishUnchanged, tree, At
<1>2. Len(snaps) \in Nat /\ proc[p].prev \in 0 .. Len(snaps)
  BY SnapsLength DEF Shape
<1>3. proc[p].prev # 0
  BY <1>1 DEF ArchiveTypes, CommandOk
<1>4. PICK n, bl, s : n = Len(snaps) /\ bl = blobs /\ s = proc[p].prev
  OBVIOUS
<1>5. n \in Nat /\ s \in 1 .. n
  BY ONLY <1>2, <1>3, <1>4
<1>6. CommandOk(proc'[p], n, bl) /\ proc'[p].pc \in {"ingest", "idle"}
  BY <1>1, <1>4, <1>5, ArchivedIsOk
<1>7. DOMAIN proc' = Procs /\ OthersRest(p)
  BY <1>1, ArchivedDoes
<1>8. SrcStates' /\ (src'.ingestion = "ready" => src.ingestion = "ready" /\ src'.run = src.run)
  BY <1>1, SourceMarked
<1>9. BlobsKept(bl, bl) /\ bl \in BlobRows
  BY <1>4 DEF BlobsKept, ArchiveTypes
<1>10. proc'[p].pc \notin Unpublished /\ proc'[p].pc \notin RunIsOut
  BY <1>6 DEF Unpublished, RunIsOut
<1> QED
  BY <1>1, <1>4, <1>6, <1>7, <1>8, <1>9, <1>10 DEF Calm, Settled

LEMMA StartedIsCalm ==
    ASSUME ArchiveTypes, Shape, NEW p \in Procs, NEW r, Started(p, r),
           DOMAIN r = ProcFields, r.copy = NoFiles, r.todo \subseteq Paths,
           r.snap \in 0 .. Len(snaps), r.pc \in {"find", "list", "ingest", "rebuild"},
           r.pc = "ingest" => r.snap # 0, r.batch = NoBatch \/ r.pc # "rebuild",
           UNCHANGED <<tree, blobs, snaps, src, receipts>>
    PROVE  Calm(p) /\ Settled(p)
<1>1. /\ DOMAIN proc' = Procs /\ OthersRest(p) /\ proc'[p] = [r EXCEPT !.no = commands + 1]
      /\ commands' = commands + 1
  BY SetDoes DEF Started
<1>2. PICK x, n, bl, no : x = proc'[p] /\ n = Len(snaps) /\ bl = blobs /\ no = commands + 1
  OBVIOUS
<1>3. /\ x.pc = r.pc /\ x.copy = NoFiles /\ x.todo = r.todo /\ x.snap = r.snap
      /\ x.batch = r.batch /\ x.no = no
  BY ONLY <1>1, <1>2, DOMAIN r = ProcFields, r.copy = NoFiles DEF ProcFields
<1>4. n \in Nat /\ r.snap \in 0 .. n
  BY <1>2, SnapsLength
<1>5. CommandOk(x, n, bl)
  <2>1. PICK pc, s, todo : pc = r.pc /\ s = r.snap /\ todo = r.todo
    OBVIOUS
  <2>2. /\ s \in 0 .. n /\ todo \subseteq Paths
        /\ x.pc = pc /\ x.copy = NoFiles /\ x.todo = todo /\ x.snap = s
        /\ x.batch = NoBatch \/ pc # "rebuild"
        /\ pc \in {"find", "list", "rebuild"} \/ (pc = "ingest" /\ s # 0)
    BY <1>3, <1>4, <2>1
  <2> QED
    BY ONLY <1>4, <2>2, StartIsOk
<1>6. BlobsKept(bl, bl) /\ bl \in BlobRows
  BY <1>2 DEF BlobsKept, ArchiveTypes
<1>7. proc'[p].pc \notin RunIsOut
  BY <1>2, <1>3 DEF RunIsOut
<1>8. UNCHANGED <<file, blobs, snaps, src, receipts>>
  BY DEF tree
<1> QED
  BY <1>1, <1>2, <1>3, <1>5, <1>6, <1>7, <1>8, SameSource DEF Calm, Settled

LEMMA StartingIsCalm ==
    ASSUME ArchiveTypes, Shape, NEW p \in Procs,
           StartAdd(p) \/ StartSync(p) \/ StartAccept(p) \/ StartBuild(p) \/ StartRebuild(p)
    PROVE  Calm(p) /\ Settled(p)
<1>0. Len(snaps) \in Nat /\ 0 \in 0 .. Len(snaps) /\ {} \subseteq Paths
  BY SnapsLength
<1>i. /\ DOMAIN Idle = ProcFields /\ Idle.copy = NoFiles /\ Idle.todo = {} /\ Idle.snap = 0
      /\ Idle.batch = NoBatch
  BY DEF Idle, ProcFields
<1>1. CASE StartAdd(p)
  <2>1. PICK build \in BOOLEAN :
           Started(p, [Idle EXCEPT !.build = build, !.todo = Listed, !.pc = "find"])
    BY <1>1 DEF StartAdd
  <2>2. PICK r : r = [Idle EXCEPT !.build = build, !.todo = Listed, !.pc = "find"]
    OBVIOUS
  <2>3. DOMAIN r = ProcFields /\ r.copy = NoFiles /\ r.todo = Listed /\ r.snap = 0 /\ r.pc = "find"
    BY ONLY <1>i, <2>2 DEF ProcFields
  <2>4. Listed \subseteq Paths
    BY DEF Listed
  <2>5. UNCHANGED <<tree, blobs, snaps, src, receipts>>
    BY <1>1 DEF StartAdd
  <2> QED
    BY <1>0, <2>1, <2>2, <2>3, <2>4, <2>5, StartedIsCalm
<1>2. CASE StartSync(p)
  <2>2. PICK r : r = [Idle EXCEPT !.build = TRUE, !.pc = "list"]
    OBVIOUS
  <2>3. DOMAIN r = ProcFields /\ r.copy = NoFiles /\ r.todo = {} /\ r.snap = 0 /\ r.pc = "list"
    BY ONLY <1>i, <2>2 DEF ProcFields
  <2>5. UNCHANGED <<tree, blobs, snaps, src, receipts>> /\ Started(p, r)
    BY <1>2, <2>2 DEF StartSync
  <2> QED
    BY <1>0, <2>3, <2>5, StartedIsCalm
<1>3. CASE StartAccept(p)
  <2>1. PICK b \in Batches :
           LET s == receipts[b]
               r == [Idle EXCEPT !.build = TRUE, !.batch = b]
           IN Started(p, IF s # 0 THEN [r EXCEPT !.pc = "ingest", !.snap = s]
                         ELSE [r EXCEPT !.pc = "list"])
    BY <1>3 DEF StartAccept
  <2>2. PICK s : s = receipts[b]
    OBVIOUS
  <2>3. PICK o, r : /\ o = [Idle EXCEPT !.build = TRUE, !.batch = b]
                    /\ r = IF s # 0 THEN [o EXCEPT !.pc = "ingest", !.snap = s]
                           ELSE [o EXCEPT !.pc = "list"]
    OBVIOUS
  <2>4. DOMAIN o = ProcFields /\ o.copy = NoFiles /\ o.todo = {} /\ o.snap = 0
    BY ONLY <1>i, <2>3 DEF ProcFields
  <2>5. /\ DOMAIN r = ProcFields /\ r.copy = NoFiles /\ r.todo = {}
        /\ (r.pc = "ingest" /\ r.snap = s /\ s # 0) \/ (r.pc = "list" /\ r.snap = 0)
    BY ONLY <2>3, <2>4 DEF ProcFields
  <2>6. s \in 0 .. Len(snaps)
    BY <2>2 DEF ArchiveTypes
  <2>7. UNCHANGED <<tree, blobs, snaps, src, receipts>> /\ Started(p, r)
    BY <1>3, <2>1, <2>2, <2>3 DEF StartAccept
  <2> QED
    BY <1>0, <2>5, <2>6, <2>7, StartedIsCalm
<1>4. CASE StartBuild(p)
  <2>1. PICK s \in DOMAIN snaps : Started(p, [Idle EXCEPT !.pc = "ingest", !.snap = s])
    BY <1>4 DEF StartBuild
  <2>2. PICK r : r = [Idle EXCEPT !.pc = "ingest", !.snap = s]
    OBVIOUS
  <2>3. DOMAIN r = ProcFields /\ r.copy = NoFiles /\ r.todo = {} /\ r.snap = s /\ r.pc = "ingest"
    BY ONLY <1>i, <2>2 DEF ProcFields
  <2>4. s \in 0 .. Len(snaps) /\ s # 0
    BY SnapsLength
  <2>5. UNCHANGED <<tree, blobs, snaps, src, receipts>>
    BY <1>4 DEF StartBuild
  <2> QED
    BY <1>0, <2>1, <2>2, <2>3, <2>4, <2>5, StartedIsCalm
<1>5. CASE StartRebuild(p)
  <2>2. PICK r : r = [Idle EXCEPT !.pc = "rebuild"]
    OBVIOUS
  <2>3. DOMAIN r = ProcFields /\ r.copy = NoFiles /\ r.todo = {} /\ r.snap = 0 /\ r.pc = "rebuild"
        /\ r.batch = NoBatch
    BY ONLY <1>i, <2>2 DEF ProcFields
  <2>5. UNCHANGED <<tree, blobs, snaps, src, receipts>> /\ Started(p, r)
    BY <1>5, <2>2 DEF StartRebuild
  <2> QED
    BY <1>0, <2>3, <2>5, StartedIsCalm
<1> QED
  BY <1>1, <1>2, <1>3, <1>4, <1>5

\* A snapshot is published: what is archived so far stays, and it is the last.
Publication(p) ==
    /\ DOMAIN proc' = Procs /\ OthersRest(p)
    /\ UNCHANGED <<file, blobs, commands, receipts>>
    /\ DOMAIN snaps' = 1 .. Len(snaps) + 1 /\ Len(snaps') = Len(snaps) + 1
    /\ \A s \in 1 .. Len(snaps) : snaps'[s] = snaps[s]
    /\ snaps'[Len(snaps) + 1].entries = proc[p].copy /\ snaps'[Len(snaps) + 1].by = proc[p].no
    /\ SrcStates' /\ src'.ingestion = "not_started"
    /\ proc[p].pc = "publish" /\ proc'[p].pc \in {"ingest", "idle"}
    /\ CommandOk(proc'[p], Len(snaps) + 1, blobs)

LEMMA PublicationIs ==
    ASSUME ArchiveTypes, Shape, NEW p \in Procs, PublishSnapshot(p), FreeSequence(NextSequence(p))
    PROVE  Publication(p)
<1>1. PICK e : e = [seq |-> NextSequence(p), prev |-> proc[p].prev,
                    entries |-> proc[p].copy, base |-> proc[p].base, by |-> proc[p].no]
  OBVIOUS
<1>2. /\ snaps' = Append(snaps, e)
      /\ src' = [src EXCEPT !.snap = Len(snaps) + 1, !.state = "active", !.archive = "published",
                            !.ingestion = "not_started", !.run = <<0, 0>>]
      /\ Archived(p, Len(snaps) + 1)
      /\ UNCHANGED <<file, blobs, commands, receipts>> /\ proc[p].pc = "publish"
  BY <1>1 DEF PublishSnapshot, tree, At
<1>3. e.entries = proc[p].copy /\ e.by = proc[p].no
  BY ONLY <1>1
<1>4. PICK S : snaps \in Seq(S)
  BY DEF Shape
<1>5. /\ Len(snaps) \in Nat /\ Len(snaps') = Len(snaps) + 1 /\ snaps' \in Seq(S \cup {e})
      /\ \A s \in 1 .. Len(snaps) : snaps'[s] = snaps[s]
      /\ snaps'[Len(snaps) + 1] = e
  BY ONLY <1>2, <1>4, SeqGrows
<1>6. DOMAIN snaps' = 1 .. Len(snaps) + 1
  BY ONLY <1>5, SeqGrows
<1>7. SrcStates' /\ src'.ingestion = "not_started"
  <2>1. PICK r, x, n : r = src /\ x = src' /\ n = Len(snaps) + 1
    OBVIOUS
  <2>2. DOMAIN r = SrcFields
    BY <2>1 DEF Shape
  <2>3. x = [r EXCEPT !.snap = n, !.state = "active", !.archive = "published",
                      !.ingestion = "not_started", !.run = <<0, 0>>]
    BY ONLY <1>2, <2>1
  <2>4. x.state = "active" /\ x.archive = "published" /\ x.ingestion = "not_started"
    BY ONLY <2>2, <2>3 DEF SrcFields
  <2> QED
    BY <2>1, <2>4 DEF SrcStates
<1>8. CommandOk(proc'[p], Len(snaps) + 1, blobs) /\ proc'[p].pc \in {"ingest", "idle"}
  <2>1. PICK n, bl : n = Len(snaps) + 1 /\ bl = blobs
    OBVIOUS
  <2>2. n \in Nat /\ n \in 1 .. n
    BY ONLY <1>5, <2>1
  <2>3. Archived(p, n)
    BY ONLY <1>2, <2>1
  <2>4. CommandOk(proc'[p], n, bl) /\ proc'[p].pc \in {"ingest", "idle"}
    BY <2>2, <2>3, ArchivedIsOk
  <2> QED
    BY ONLY <2>1, <2>4
<1>9. DOMAIN proc' = Procs /\ OthersRest(p)
  BY <1>2, SetDoes DEF Archived
<1> QED
  BY <1>2, <1>3, <1>5, <1>6, <1>7, <1>8, <1>9 DEF Publication

LEMMA PublicationKeepsTypes ==
    ASSUME ArchiveTypes, Shape, NEW p \in Procs, Publication(p)
    PROVE  ArchiveTypes'
<1>1. PICK n, m, bl : n = Len(snaps) /\ m = Len(snaps) + 1 /\ bl = blobs
  OBVIOUS
<1>2. n \in Nat /\ m \in Nat /\ n <= m /\ 0 .. n \subseteq 0 .. m /\ 1 .. m = (1 .. n) \cup {m}
  <2>1. n \in Nat /\ m = n + 1
    BY <1>1, SnapsLength
  <2> QED
    BY ONLY <2>1
<1>3. BlobsKept(bl, bl) /\ blobs' = bl /\ file' = file /\ receipts' = receipts
  BY <1>1 DEF BlobsKept, Publication
<1>4. ASSUME NEW q \in Procs PROVE CommandOk(proc'[q], m, bl)
  <2>1. CASE q = p
    BY <1>1, <2>1 DEF Publication
  <2>2. CASE q # p
    <3>1. PICK r : r = proc[q]
      OBVIOUS
    <3>2. CommandOk(r, n, bl)
      BY <1>1, <3>1 DEF ArchiveTypes
    <3>3. CommandOk(r, m, bl)
      BY ONLY <1>2, <1>3, <3>2, CommandLonger
    <3> QED
      BY <2>2, <3>1, <3>3 DEF Publication, OthersRest
  <2> QED
    BY <2>1, <2>2
<1>5. ASSUME NEW s \in 1 .. m PROVE HeldIn(bl, snaps'[s].entries)
  <2>1. CASE s \in 1 .. n
    BY <1>1, <2>1 DEF ArchiveTypes, Publication
  <2>2. CASE s = m
    BY <1>1, <2>2 DEF ArchiveTypes, CommandOk, Publication
  <2> QED
    BY <1>2, <2>1, <2>2
<1>6. Len(snaps') = m
  BY <1>1 DEF Publication
<1>7. file' \in [Paths -> 0 .. MaxContent] /\ blobs' \in BlobRows /\ SrcStates'
  BY <1>3 DEF ArchiveTypes, Publication
<1>8. DOMAIN receipts' = Batches /\ \A b \in Batches : receipts'[b] \in 0 .. m
  BY <1>1, <1>2, <1>3 DEF ArchiveTypes
<1> QED
  BY <1>3, <1>4, <1>5, <1>6, <1>7, <1>8 DEF ArchiveTypes

LEMMA PublicationKeepsNumbers ==
    ASSUME Numbering, Shape, NEW p \in Procs, Publication(p)
    PROVE  Numbering'
<1>1. PICK n, m, no : n = Len(snaps) /\ m = Len(snaps) + 1 /\ no = proc[p].no
  OBVIOUS
<1>2. n \in Nat /\ m \in Nat /\ 1 .. m = (1 .. n) \cup {m} /\ m \notin 1 .. n
  <2>1. n \in Nat /\ m = n + 1
    BY <1>1, SnapsLength
  <2> QED
    BY ONLY <2>1
<1>3. /\ Len(snaps') = m /\ commands' = commands
      /\ \A s \in 1 .. n : snaps'[s].by = snaps[s].by
      /\ snaps'[m].by = no
      /\ p \in Procs /\ \A q \in Procs : proc'[q].pc \in Unpublished => q # p /\ proc'[q] = proc[q]
  BY <1>1 DEF Publication, OthersRest, Unpublished
<1>4. /\ no \in 1 .. commands /\ \A s \in 1 .. n : snaps[s].by # no
      /\ \A q \in Procs : q # p /\ proc[q].pc \in Unpublished => proc[q].no # no
  <2>1. proc[p].pc \in Unpublished
    BY DEF Publication, Unpublished
  <2>2. /\ proc[p].no \in 1 .. commands /\ \A s \in 1 .. Len(snaps) : snaps[s].by # proc[p].no
        /\ \A q \in Procs : q # p /\ proc[q].pc \in Unpublished => proc[q].no # proc[p].no
    BY <2>1 DEF Numbering
  <2> QED
    BY ONLY <1>1, <2>2
<1>5. \A s \in 1 .. m : snaps'[s].by \in 1 .. commands
  BY <1>1, <1>2, <1>3, <1>4 DEF Numbering
<1>6. \A s, t \in 1 .. m : snaps'[s].by = snaps'[t].by => s = t
  <2>1. \A s, t \in 1 .. n : snaps[s].by = snaps[t].by => s = t
    BY <1>1 DEF Numbering
  <2> QED
    BY ONLY <1>2, <1>3, <1>4, <2>1
<1>7. ASSUME NEW q \in Procs, proc'[q].pc \in Unpublished
      PROVE  /\ proc'[q].no \in 1 .. commands
             /\ \A s \in 1 .. m : snaps'[s].by # proc'[q].no
             /\ \A o \in Procs : o # q /\ proc'[o].pc \in Unpublished => proc'[o].no # proc'[q].no
  <2>1. q # p /\ proc'[q] = proc[q] /\ proc[q].pc \in Unpublished
    BY <1>3, <1>7
  <2>2. /\ proc[q].no \in 1 .. commands
        /\ \A s \in 1 .. n : snaps[s].by # proc[q].no
        /\ \A o \in Procs : o # q /\ proc[o].pc \in Unpublished => proc[o].no # proc[q].no
    BY <1>1, <2>1 DEF Numbering
  <2> QED
    BY ONLY q \in Procs, <1>2, <1>3, <1>4, <2>1, <2>2
<1> QED
  BY <1>3, <1>5, <1>6, <1>7 DEF Numbering
-----------------------------------------------------------------------------
(* What the steps of an ingestion leave                                    *)

IngestionStates == {"not_started", "queued", "running", "ready", "failed"}

\* Updates of the Source's ingestion.
LEMMA IngestionMarked ==
    ASSUME ArchiveTypes, Shape, NEW a \in IngestionStates, NEW r,
           \/ src' = src \/ src' = [src EXCEPT !.ingestion = a]
           \/ src' = [src EXCEPT !.ingestion = a, !.run = r]
    PROVE  SrcStates'
<1>1. PICK o, x : o = src /\ x = src'
  OBVIOUS
<1>2. /\ DOMAIN o = SrcFields
      /\ \/ x = o \/ x = [o EXCEPT !.ingestion = a]
         \/ x = [o EXCEPT !.ingestion = a, !.run = r]
  BY <1>1 DEF Shape
<1>3. x.state = o.state /\ x.archive = o.archive /\ x.ingestion \in {a, o.ingestion}
  BY ONLY <1>2 DEF SrcFields
<1>4. /\ o.state \in {"none", "active", "failed"} /\ o.ingestion \in IngestionStates
      /\ o.archive \in {"registered", "archiving", "published", "failed"}
  BY <1>1 DEF ArchiveTypes, SrcStates, IngestionStates
<1>5. x.ingestion \in IngestionStates
  BY <1>3, <1>4
<1> QED
  BY <1>1, <1>3, <1>4, <1>5 DEF SrcStates, IngestionStates

LEMMA FollowingIsCalm ==
    ASSUME ArchiveTypes, Shape, NEW p \in Procs, DOMAIN proc' = Procs, OthersRest(p),
           UNCHANGED <<snaps, file, blobs, commands>>, SrcStates', Follows(proc[p], proc'[p])
    PROVE  Calm(p)
<1>1. PICK r, x, n, bl : r = proc[p] /\ x = proc'[p] /\ n = Len(snaps) /\ bl = blobs
  OBVIOUS
<1>2. Follows(r, x) /\ CommandOk(r, n, bl)
  BY <1>1 DEF ArchiveTypes
<1>3. CommandOk(x, n, bl)
  BY ONLY <1>2, FollowsIsOk
<1>4. BlobsKept(bl, bl) /\ bl \in BlobRows
  BY <1>1 DEF BlobsKept, ArchiveTypes
<1>5. x.pc \in Unpublished => r.pc \in Unpublished /\ x.no = r.no
  BY ONLY <1>2 DEF Follows
<1> QED
  BY <1>1, <1>3, <1>4, <1>5 DEF Calm

\* The states of a run that a Goto may lead to, and from where.
LEMMA RunGotoIsCalm ==
    ASSUME ArchiveTypes, Shape, NEW p \in Procs, NEW pc, Goto(p, pc),
           \/ pc \in RunPcs /\ proc[p].pc \in RunPcs
           \/ pc = "scanned" /\ proc[p].pc \in ArchivedPcs,
           UNCHANGED <<snaps, file, blobs, commands>>, SrcStates'
    PROVE  Calm(p) /\ proc'[p].pc = pc
<1>1. DOMAIN proc' = Procs /\ OthersRest(p) /\ proc'[p].pc = pc /\ SameButPc(p, proc'[p])
  BY GotoDoes
<1>2. /\ RunPcs \cup {"scanned"} \subseteq PCs \ {"copy", "rebuild", "hash", "unchanged", "swap"}
      /\ (RunPcs \cup {"scanned"}) \cap Unpublished = {} /\ RunPcs \subseteq ArchivedPcs
      /\ "scanned" \notin RunPcs
  BY DEF PCs, RunPcs, ArchivedPcs, Ingesting, Stages, Unpublished
<1>3. Follows(proc[p], proc'[p])
  BY <1>1, <1>2 DEF Follows, SameButPc
<1> QED
  BY <1>1, <1>3, FollowingIsCalm

LEMMA ReceiptsStay ==
    ASSUME ArchiveTypes, receipts' = receipts
    PROVE  DOMAIN receipts' = Batches /\ \A b \in Batches : receipts'[b] \in 0 .. Len(snaps)
BY DEF ArchiveTypes

LEMMA BeginIsCalm ==
    ASSUME ArchiveTypes, Shape, config \in Configs, NEW p \in Procs, BeginRun(p)
    PROVE  Calm(p)
<1>1. UNCHANGED <<snaps, file, blobs, commands, receipts>> /\ proc[p].pc = "ingest"
  BY DEF BeginRun, rest, tree, At
<1>2. PICK pc \in {"reindex", "parsing"} : Set(p, [proc[p] EXCEPT !.config = config, !.pc = pc])
  BY DEF BeginRun
<1>3. DOMAIN proc' = Procs /\ OthersRest(p) /\ proc'[p] = [proc[p] EXCEPT !.config = config, !.pc = pc]
  BY <1>2, SetDoes
<1>4. PICK r, x, n, bl, g : r = proc[p] /\ x = proc'[p] /\ n = Len(snaps) /\ bl = blobs /\ g = config
  OBVIOUS
<1>5. DOMAIN r = ProcFields
  BY <1>4 DEF Shape
<1>6. /\ x.pc = pc /\ x.config = g /\ x.todo = r.todo /\ x.no = r.no /\ x.copy = r.copy
      /\ x.snap = r.snap /\ x.batch = r.batch
  BY ONLY <1>3, <1>4, <1>5 DEF ProcFields
<1>7. CommandOk(r, n, bl) /\ r.pc = "ingest" /\ g \in Configs
  BY <1>1, <1>4 DEF ArchiveTypes
<1>8. CommandOk(x, n, bl)
  <2>1. /\ {"reindex", "parsing"} \subseteq PCs /\ "ingest" \in ArchivedPcs
        /\ {"reindex", "parsing"} \cap {"hash", "copy", "unchanged", "rebuild", "swap"} = {}
    BY DEF PCs, ArchivedPcs, Stages
  <2> QED
    BY ONLY <1>6, <1>7, <2>1, pc \in {"reindex", "parsing"} DEF CommandOk
<1>9. SrcStates'
  <2>1. src' = src \/ \E r1 : src' = [src EXCEPT !.ingestion = "queued", !.run = r1]
    BY DEF BeginRun
  <2>2. "queued" \in IngestionStates
    BY DEF IngestionStates
  <2> QED
    BY <2>1, <2>2, IngestionMarked
<1>10. BlobsKept(bl, bl) /\ bl \in BlobRows
  BY <1>4 DEF BlobsKept, ArchiveTypes
<1>11. pc \notin Unpublished
  BY DEF Unpublished
<1> QED
  BY <1>1, <1>3, <1>4, <1>6, <1>8, <1>9, <1>10, <1>11 DEF Calm

\* A command that is through with its ingestion.
LEMMA IngestedIsCalm ==
    ASSUME ArchiveTypes, Shape, NEW p \in Procs, Ingested(p),
           proc[p].pc \in {"rewrite", "swap", "complete"},
           UNCHANGED <<snaps, file, blobs, commands>>, SrcStates'
    PROVE  /\ Calm(p)
           /\ \/ proc'[p].pc = "idle"
              \/ /\ proc'[p].pc = "receipt" /\ proc[p].pc \in {"rewrite", "complete"}
                 /\ proc'[p].snap = proc[p].snap /\ proc'[p].config = proc[p].config
<1>1. CASE proc[p].batch = NoBatch
  <2>1. Set(p, Idle)
    BY <1>1 DEF Ingested
  <2>2. proc'[p].pc = "idle"
    BY <2>1, SetDoes, IdleShape
  <2> QED
    BY <2>1, <2>2, IdleStepIsCalm
<1>2. CASE proc[p].batch # NoBatch
  <2>1. DOMAIN proc' = Procs /\ OthersRest(p)
        /\ proc'[p] = [proc[p] EXCEPT !.rows = {}, !.hash = 0, !.pc = "receipt"]
    BY <1>2, SetDoes DEF Ingested
  <2>2. proc[p].pc # "swap"
    <3>1. CommandOk(proc[p], Len(snaps), blobs)
      BY DEF ArchiveTypes
    <3> QED
      BY <1>2, <3>1 DEF CommandOk
  <2>3. PICK r, x : r = proc[p] /\ x = proc'[p]
    OBVIOUS
  <2>4. DOMAIN r = ProcFields
    BY <2>3 DEF Shape
  <2>5. /\ x.pc = "receipt" /\ x.no = r.no /\ x.todo = r.todo /\ x.copy = r.copy /\ x.snap = r.snap
        /\ x.config = r.config /\ x.batch = r.batch
    BY ONLY <2>1, <2>3, <2>4 DEF ProcFields
  <2>6. /\ "receipt" \in PCs \ {"copy", "rebuild", "hash", "unchanged", "swap"}
        /\ "receipt" \notin Unpublished /\ {"rewrite", "complete"} \subseteq RunPcs
        /\ RunPcs \subseteq ArchivedPcs
    BY DEF PCs, RunPcs, ArchivedPcs, Ingesting, Unpublished
  <2>7. r.pc \in {"rewrite", "complete"}
    BY <2>2, <2>3
  <2>8. Follows(r, x)
    BY ONLY <2>5, <2>6, <2>7 DEF Follows
  <2> QED
    BY <2>1, <2>3, <2>5, <2>7, <2>8, FollowingIsCalm
<1> QED
  BY <1>1, <1>2

LEMMA RowsAreCalm ==
    ASSUME ArchiveTypes, Shape, NEW p \in Procs, ReadIndexRows(p) \/ WriteIndexRows(p)
    PROVE  /\ Calm(p)
           /\ \/ /\ proc[p].pc \in {"index", "write"} /\ proc'[p].pc \in {"write", "invalidate"}
                 /\ proc'[p].snap = proc[p].snap /\ proc'[p].config = proc[p].config
              \/ /\ proc[p].pc \in {"reindex", "rewrite"} /\ proc'[p].pc \in {"rewrite", "receipt"}
                 /\ proc'[p].snap = proc[p].snap /\ proc'[p].config = proc[p].config
              \/ proc'[p].pc \in {"swap", "idle"}
<1>1. UNCHANGED <<snaps, file, blobs, commands, receipts, src>> /\ SrcStates'
  <2>1. UNCHANGED <<snaps, file, blobs, commands, receipts, src>>
    BY DEF ReadIndexRows, WriteIndexRows, rest, tree
  <2> QED
    BY <2>1, SameSource
<1>2. DOMAIN proc[p] = ProcFields
  BY DEF Shape
<1>3. ASSUME NEW rows, NEW h, NEW pc, Set(p, [proc[p] EXCEPT !.rows = rows, !.hash = h, !.pc = pc]),
             \/ (proc[p].pc = "index" /\ pc = "write")
             \/ (proc[p].pc = "reindex" /\ pc = "rewrite")
             \/ (proc[p].pc = "rebuild" /\ pc = "swap")
             \/ (proc[p].pc = "write" /\ pc = "invalidate")
      PROVE  /\ Calm(p) /\ proc'[p].pc = pc
             /\ proc'[p].snap = proc[p].snap /\ proc'[p].config = proc[p].config
  <2>1. DOMAIN proc' = Procs /\ OthersRest(p)
        /\ proc'[p] = [proc[p] EXCEPT !.rows = rows, !.hash = h, !.pc = pc]
    BY <1>3, SetDoes
  <2>2. PICK r, x : r = proc[p] /\ x = proc'[p]
    OBVIOUS
  <2>3. /\ x.pc = pc /\ x.no = r.no /\ x.todo = r.todo /\ x.copy = r.copy /\ x.snap = r.snap
        /\ x.config = r.config /\ x.batch = r.batch
    BY ONLY <1>2, <2>1, <2>2 DEF ProcFields
  <2>4. /\ {"write", "rewrite", "swap", "invalidate"} \subseteq PCs
        /\ {"write", "rewrite", "swap", "invalidate"}
             \cap ({"copy", "rebuild", "hash", "unchanged"} \cup Unpublished) = {}
        /\ {"index", "reindex", "write"} \subseteq RunPcs /\ RunPcs \subseteq ArchivedPcs
        /\ "swap" \notin ArchivedPcs /\ "swap" \notin RunPcs
    BY DEF PCs, RunPcs, ArchivedPcs, Ingesting, Unpublished, Stages
  <2>5. \/ (r.pc = "index" /\ pc = "write") \/ (r.pc = "reindex" /\ pc = "rewrite")
        \/ (r.pc = "rebuild" /\ pc = "swap") \/ (r.pc = "write" /\ pc = "invalidate")
    BY <1>3, <2>2
  <2>6. Follows(r, x)
    BY ONLY <2>3, <2>4, <2>5 DEF Follows
  <2> QED
    BY <1>1, <2>1, <2>2, <2>3, <2>6, FollowingIsCalm
<1>4. CASE ReadIndexRows(p)
  <2>1. /\ proc[p].pc \in {"index", "reindex", "rebuild"}
        /\ Set(p, [proc[p] EXCEPT
             !.rows = IndexRows(p), !.hash = index.no,
             !.pc = CASE proc[p].pc = "index" -> "write" [] proc[p].pc = "reindex" -> "rewrite"
                      [] proc[p].pc = "rebuild" -> "swap"])
    BY <1>2, <1>4 DEF ReadIndexRows, ProcFields
  <2>2. PICK pc : /\ Set(p, [proc[p] EXCEPT !.rows = IndexRows(p), !.hash = index.no, !.pc = pc])
                  /\ \/ (proc[p].pc = "index" /\ pc = "write")
                     \/ (proc[p].pc = "reindex" /\ pc = "rewrite")
                     \/ (proc[p].pc = "rebuild" /\ pc = "swap")
    <3>1. CASE proc[p].pc = "index"
      BY <2>1, <3>1
    <3>2. CASE proc[p].pc = "reindex"
      BY <2>1, <3>2
    <3>3. CASE proc[p].pc = "rebuild"
      BY <2>1, <3>3
    <3> QED
      BY <2>1, <3>1, <3>2, <3>3
  <2>4. /\ Calm(p) /\ proc'[p].pc = pc
        /\ proc'[p].snap = proc[p].snap /\ proc'[p].config = proc[p].config
    BY <1>3, <2>2
  <2> QED
    BY ONLY <2>2, <2>4
<1>5. CASE WriteIndexRows(p)
  <2>1. CASE At(p, "write")
    <3>1. Set(p, [proc[p] EXCEPT !.rows = {}, !.hash = 0, !.pc = "invalidate"]) /\ proc[p].pc = "write"
      BY <1>5, <2>1 DEF WriteIndexRows, At
    <3>2. /\ Calm(p) /\ proc'[p].pc = "invalidate"
          /\ proc'[p].snap = proc[p].snap /\ proc'[p].config = proc[p].config
      BY <1>3, <3>1
    <3> QED
      BY ONLY <3>1, <3>2
  <2>2. CASE ~ At(p, "write")
    <3>1. Ingested(p) /\ proc[p].pc \in {"rewrite", "swap"}
      BY <1>5, <2>2 DEF WriteIndexRows, At
    <3>2. /\ Calm(p)
          /\ \/ proc'[p].pc = "idle"
             \/ /\ proc'[p].pc = "receipt" /\ proc[p].pc \in {"rewrite", "complete"}
                /\ proc'[p].snap = proc[p].snap /\ proc'[p].config = proc[p].config
      BY <1>1, <3>1, IngestedIsCalm
    <3> QED
      BY ONLY <3>1, <3>2
  <2> QED
    BY <2>1, <2>2
<1> QED
  BY <1>4, <1>5

LEMMA StageIsCalm ==
    ASSUME ArchiveTypes, Shape, NEW p \in Procs, MarkStage(p)
    PROVE  Calm(p) /\ proc'[p].pc \in {"ingestFailed", "parse", "chunked", "publishing", "commit"}
<1>1. PICK pc \in {"ingestFailed", "parse", "chunked", "publishing", "commit"} : Goto(p, pc)
  BY DEF MarkStage, Stages, StageAfter
<1>2. UNCHANGED <<snaps, file, blobs, commands>> /\ proc[p].pc \in Stages
  BY DEF MarkStage, rest, tree
<1>3. "running" \in IngestionStates /\ (src' = src \/ src' = [src EXCEPT !.ingestion = "running"])
  BY DEF MarkStage, IngestionStates
<1>4. SrcStates'
  BY <1>3, IngestionMarked
<1>5. pc \in RunPcs /\ proc[p].pc \in RunPcs
  BY <1>2 DEF RunPcs, Ingesting, Stages
<1> QED
  BY <1>1, <1>2, <1>4, <1>5, RunGotoIsCalm

LEMMA PlainIngestIsCalm ==
    ASSUME ArchiveTypes, Shape, NEW p \in Procs,
           ParseEntries(p) \/ CommitPublication(p) \/ Invalidate(p) \/ IngestThrows(p)
    PROVE  Calm(p) /\ src' = src /\ receipts' = receipts
<1>1. UNCHANGED <<snaps, file, blobs, commands, src, receipts>>
  BY DEF ParseEntries, CommitPublication, Invalidate, IngestThrows, rest, tree
<1>2. SrcStates'
  BY <1>1, SameSource
<1>3. CASE ParseEntries(p) \/ CommitPublication(p) \/ Invalidate(p)
  <2>1. PICK pc \in {"normalized", "ingestFailed", "index", "complete"} : Goto(p, pc)
    BY <1>3 DEF ParseEntries, CommitPublication, Invalidate
  <2>2. proc[p].pc \in {"parse", "commit", "invalidate"}
    BY <1>3 DEF ParseEntries, CommitPublication, Invalidate, At
  <2>3. pc \in RunPcs /\ proc[p].pc \in RunPcs
    BY <2>2 DEF RunPcs, Ingesting, Stages
  <2> QED
    BY <1>1, <1>2, <2>1, <2>3, RunGotoIsCalm
<1>4. CASE IngestThrows(p)
  <2>1. /\ Set(p, [proc[p] EXCEPT !.pc = "ingestFailed", !.rows = {}, !.hash = 0])
        /\ proc[p].pc \in Stages \cup {"commit", "index", "write", "invalidate", "complete"}
    BY <1>4 DEF IngestThrows
  <2>2. DOMAIN proc' = Procs /\ OthersRest(p)
        /\ proc'[p] = [proc[p] EXCEPT !.pc = "ingestFailed", !.rows = {}, !.hash = 0]
    BY <2>1, SetDoes
  <2>3. PICK r, x : r = proc[p] /\ x = proc'[p]
    OBVIOUS
  <2>4. DOMAIN r = ProcFields
    BY <2>3 DEF Shape
  <2>5. /\ x.pc = "ingestFailed" /\ x.no = r.no /\ x.todo = r.todo /\ x.copy = r.copy
        /\ x.snap = r.snap /\ x.config = r.config /\ x.batch = r.batch
    BY ONLY <2>2, <2>3, <2>4 DEF ProcFields
  <2>6. /\ "ingestFailed" \in PCs \ ({"copy", "rebuild", "hash", "unchanged", "swap"} \cup Unpublished)
        /\ Stages \cup {"commit", "index", "write", "invalidate", "complete"} \subseteq RunPcs
        /\ RunPcs \subseteq ArchivedPcs
    BY DEF PCs, RunPcs, ArchivedPcs, Ingesting, Unpublished
  <2>7. r.pc \in RunPcs
    BY <2>1, <2>3, <2>6
  <2>8. Follows(r, x)
    BY ONLY <2>5, <2>6, <2>7 DEF Follows
  <2> QED
    BY <1>1, <1>2, <2>2, <2>3, <2>8, FollowingIsCalm
<1> QED
  BY <1>1, <1>3, <1>4

LEMMA EndingIsCalm ==
    ASSUME ArchiveTypes, Shape, NEW p \in Procs,
           CompleteRun(p) \/ FailRun(p) \/ RecordReceipt(p) \/ RecordRenames(p)
    PROVE  /\ Calm(p) /\ DOMAIN receipts' = Batches
           /\ \A b \in Batches : receipts'[b] \in 0 .. Len(snaps)
<1>1. CASE CompleteRun(p)
  <2>1. UNCHANGED <<snaps, file, blobs, commands, receipts>> /\ proc[p].pc = "complete"
    BY <1>1 DEF CompleteRun, rest, tree, At
  <2>2. /\ "ready" \in IngestionStates
        /\ src' = src \/ src' = [src EXCEPT !.ingestion = "ready", !.run = Run(p)]
    BY <1>1 DEF CompleteRun, IngestionStates
  <2>3. SrcStates'
    BY <2>2, IngestionMarked
  <2>4. CASE Ingested(p)
    BY <2>1, <2>3, <2>4, IngestedIsCalm, ReceiptsStay
  <2>5. CASE Goto(p, "ingestFailed")
    <3>1. "ingestFailed" \in RunPcs /\ proc[p].pc \in RunPcs
      BY <2>1 DEF RunPcs, Ingesting
    <3> QED
      BY <2>1, <2>3, <2>5, <3>1, RunGotoIsCalm, ReceiptsStay
  <2> QED
    BY <1>1, <2>4, <2>5 DEF CompleteRun
<1>2. CASE FailRun(p)
  <2>1. UNCHANGED <<snaps, file, blobs, commands, receipts>> /\ Set(p, Idle)
    BY <1>2 DEF FailRun, rest, tree
  <2>2. /\ "failed" \in IngestionStates
        /\ src' = src \/ src' = [src EXCEPT !.ingestion = "failed", !.run = Run(p)]
    BY <1>2 DEF FailRun, IngestionStates
  <2>3. SrcStates'
    BY <2>2, IngestionMarked
  <2> QED
    BY <2>1, <2>3, IdleStepIsCalm, ReceiptsStay
<1>3. CASE RecordReceipt(p)
  <2>1. /\ UNCHANGED <<snaps, file, blobs, commands, src>> /\ proc[p].pc = "receipt"
        /\ receipts' = [receipts EXCEPT ![proc[p].batch] = IF @ = 0 THEN proc[p].snap ELSE @]
        /\ Goto(p, "scanned")
    BY <1>3 DEF RecordReceipt, tree, At
  <2>2. "receipt" \in ArchivedPcs
    BY DEF ArchivedPcs, RunPcs
  <2>3. Calm(p)
    BY <2>1, <2>2, SameSource, RunGotoIsCalm
  <2>4. proc[p].snap \in 0 .. Len(snaps)
    BY DEF ArchiveTypes, CommandOk
  <2>5. DOMAIN receipts = Batches /\ \A b \in Batches : receipts[b] \in 0 .. Len(snaps)
    BY DEF ArchiveTypes
  <2>6. PICK n, rc, b, s : n = Len(snaps) /\ rc = receipts /\ b = proc[p].batch /\ s = proc[p].snap
    OBVIOUS
  <2>7. receipts' = [rc EXCEPT ![b] = IF @ = 0 THEN s ELSE @]
    BY <2>1, <2>6
  <2>8. DOMAIN receipts' = Batches /\ \A c \in Batches : receipts'[c] \in 0 .. n
    BY ONLY <2>4, <2>5, <2>6, <2>7
  <2> QED
    BY <2>3, <2>6, <2>8
<1>4. CASE RecordRenames(p)
  <2>1. UNCHANGED <<snaps, file, blobs, commands, receipts, src>> /\ Set(p, Idle)
    BY <1>4 DEF RecordRenames, rest, tree
  <2> QED
    BY <2>1, SameSource, IdleStepIsCalm, ReceiptsStay
<1> QED
  BY <1>1, <1>2, <1>3, <1>4
-----------------------------------------------------------------------------
(* Runs, receipts and renames                                              *)

RunStates == {"none", "queued", "retrying", "ready", "failed"} \cup Stages
RunTables == [RunIds -> [state : RunStates, published : BOOLEAN]]
ReadyOnes(rs) == \A r \in RunIds : rs[r].state = "ready" => rs[r].published

\* A command behind the commit has a run that published, one behind its completion,
\* or that reuses a run, one that is ready.
Proven(r, rs) ==
    /\ r.pc \in {"index", "write", "invalidate", "complete"} => rs[<<r.snap, r.config>>].published
    /\ r.pc \in {"reindex", "rewrite", "receipt"} => rs[<<r.snap, r.config>>].state = "ready"
ReceiptsProven(rc, rs) ==
    \A b \in Batches : rc[b] # 0 => \E g \in Configs : rs[<<rc[b], g>>].state = "ready"
SourceProven(rs) ==
    src.ingestion = "ready" => src.run \in RunIds /\ rs[src.run].state = "ready"
TopOk(t, n) == t = <<0, 0>> \/ t \in (1 .. n) \X Configs
PublishedUntil(rs, t) == \A r \in RunIds : rs[r].published => NoLater(r, t)
\* The renames recorded for a snapshot lead to files that it has.
Renameable(rn) ==
    /\ rn \in [1 .. MaxCommands -> SUBSET (Paths \X Paths)]
    /\ \A s \in 1 .. MaxCommands : \A r \in rn[s] :
         s \in 1 .. Len(snaps) /\ snaps[s].entries[r[2]] # 0

RunInv ==
    /\ config \in Configs
    /\ runs \in RunTables /\ ReadyOnes(runs)
    /\ \A p \in Procs : Proven(proc[p], runs)
    /\ ReceiptsProven(receipts, runs) /\ SourceProven(runs)
    /\ TopOk(top, Len(snaps)) /\ inOrder \in BOOLEAN
    /\ inOrder => PublishedUntil(runs, top)
    /\ Renameable(renamed)

\* Runs that were published or ready stay so.
Advances(rs, rt) ==
    /\ rt \in RunTables /\ ReadyOnes(rt)
    /\ \A r \in RunIds : /\ rs[r].state = "ready" => rt[r].state = "ready"
                         /\ rs[r].published => rt[r].published

LEMMA RunIdsAre ==
    ASSUME ArchiveTypes, Numbering, Shape
    PROVE  /\ \A q \in Procs : proc[q].pc \in RunPcs => Run(q) \in RunIds
           /\ \A q \in Procs : proc[q].pc \in ArchivedPcs =>
                proc[q].snap \in 1 .. MaxCommands /\ proc[q].snap \in 1 .. Len(snaps)
           /\ \A b \in Batches : receipts[b] # 0 => \A g \in Configs : <<receipts[b], g>> \in RunIds
<1>1. PICK n : n = Len(snaps)
  OBVIOUS
<1>2. n \in Nat /\ n <= MaxCommands /\ MaxCommands \in Nat
  BY <1>1, NumberedCommands, ArchiveBounds
<1>3. \A s \in 0 .. n : s # 0 => s \in 1 .. n /\ s \in 1 .. MaxCommands
  BY ONLY <1>2
<1>4. \A q \in Procs : CommandOk(proc[q], n, blobs)
  BY <1>1 DEF ArchiveTypes
<1>5. RunPcs \subseteq ArchivedPcs
  BY DEF ArchivedPcs
<1>6. \A b \in Batches : receipts[b] \in 0 .. n
  BY <1>1 DEF ArchiveTypes
<1>7. ASSUME NEW q \in Procs, proc[q].pc \in ArchivedPcs
      PROVE  proc[q].snap \in 1 .. MaxCommands /\ proc[q].snap \in 1 .. n
  <2>1. proc[q].snap \in 0 .. n /\ proc[q].snap # 0
    BY ONLY q \in Procs, <1>4, <1>7 DEF CommandOk
  <2> QED
    BY ONLY <1>3, <2>1
<1>8. ASSUME NEW q \in Procs, proc[q].pc \in RunPcs PROVE Run(q) \in RunIds
  <2>1. proc[q].config \in Configs
    BY ONLY q \in Procs, <1>4, <1>8 DEF CommandOk
  <2> QED
    BY <1>5, <1>7, <1>8, <2>1 DEF Run, RunIds
<1>9. ASSUME NEW b \in Batches, receipts[b] # 0, NEW g \in Configs PROVE <<receipts[b], g>> \in RunIds
  BY ONLY b \in Batches, g \in Configs, <1>3, <1>6, <1>9 DEF RunIds
<1> QED
  BY <1>1, <1>7, <1>8, <1>9

LEMMA ProvenLonger ==
    ASSUME NEW r, NEW rs, NEW rt, Advances(rs, rt), Proven(r, rs),
           r.pc \in RunPcs => <<r.snap, r.config>> \in RunIds
    PROVE  Proven(r, rt)
<1>1. {"index", "write", "invalidate", "complete", "reindex", "rewrite", "receipt"} \subseteq RunPcs
  BY DEF RunPcs, Ingesting
<1> QED
  BY <1>1 DEF Advances, Proven

\* What other commands and the receipts know of the runs stays true.
LEMMA RunsAdvance ==
    ASSUME ArchiveTypes, Numbering, Shape, RunInv, NEW p \in Procs, Calm(p) \/ Publication(p),
           NEW rt, Advances(runs, rt)
    PROVE  /\ \A q \in Procs : q # p => Proven(proc'[q], rt)
           /\ ReceiptsProven(receipts, rt) /\ SourceProven(rt)
<1>1. OthersRest(p)
  BY DEF Calm, Publication
<1>2. ASSUME NEW q \in Procs, q # p PROVE Proven(proc'[q], rt)
  <2>1. PICK r, rs : r = proc[q] /\ rs = runs
    OBVIOUS
  <2>2. Proven(r, rs) /\ Advances(rs, rt)
    BY <2>1 DEF RunInv
  <2>3. r.pc \in RunPcs => <<r.snap, r.config>> \in RunIds
    BY <2>1, RunIdsAre DEF Run
  <2>4. Proven(r, rt)
    BY ONLY <2>2, <2>3, ProvenLonger
  <2> QED
    BY <1>1, <1>2, <2>1, <2>4 DEF OthersRest
<1>3. ReceiptsProven(receipts, rt)
  <2>1. SUFFICES ASSUME NEW b \in Batches, receipts[b] # 0
                 PROVE  \E g \in Configs : rt[<<receipts[b], g>>].state = "ready"
    BY DEF ReceiptsProven
  <2>2. PICK g \in Configs : runs[<<receipts[b], g>>].state = "ready"
    BY <2>1 DEF RunInv, ReceiptsProven
  <2>3. <<receipts[b], g>> \in RunIds
    BY <2>1, RunIdsAre
  <2> QED
    BY <2>2, <2>3 DEF Advances
<1>4. SourceProven(rt)
  BY DEF RunInv, SourceProven, Advances
<1> QED
  BY <1>2, <1>3, <1>4

LEMMA RunsStay ==
    ASSUME RunInv
    PROVE  Advances(runs, runs)
BY DEF RunInv, Advances

\* The renames of a snapshot stay within it when snapshots are added.
LEMMA RenamesStay ==
    ASSUME Renameable(renamed), renamed' = renamed, Len(snaps) \in Nat,
           Len(snaps') \in Nat, Len(snaps) <= Len(snaps'),
           \A s \in 1 .. Len(snaps) : snaps'[s] = snaps[s]
    PROVE  Renameable(renamed)'
<1>1. PICK n, m : n = Len(snaps) /\ m = Len(snaps')
  OBVIOUS
<1>2. 1 .. n \subseteq 1 .. m
  BY <1>1
<1> QED
  BY <1>1, <1>2 DEF Renameable

\* Steps of p that neither publish a run nor complete one, and the publication of a
\* snapshot.
LEMMA SettledKeepsRuns ==
    ASSUME ArchiveTypes, Numbering, Shape, RunInv, NEW p \in Procs,
           (Calm(p) /\ Settled(p)) \/ Publication(p), UNCHANGED <<config, knowledge>>
    PROVE  RunInv'
<1>0. /\ UNCHANGED <<config, runs, renamed, top, inOrder>> /\ receipts' = receipts
      /\ proc'[p].pc \notin RunIsOut
      /\ src'.ingestion = "ready" => src.ingestion = "ready" /\ src'.run = src.run
  BY DEF knowledge, Settled, Publication, RunIsOut
<1>1. PICK rs : rs = runs
  OBVIOUS
<1>2. Advances(runs, rs)
  BY <1>1, RunsStay
<1>3. /\ \A q \in Procs : q # p => Proven(proc'[q], rs)
      /\ ReceiptsProven(receipts, rs) /\ SourceProven(rs)
  BY <1>2, RunsAdvance
<1>4. Proven(proc'[p], rs)
  BY <1>0 DEF Proven, RunIsOut
<1>5. SourceProven(rs)'
  BY <1>0, <1>3 DEF SourceProven
<1>6. /\ Len(snaps) \in Nat /\ Len(snaps') \in Nat /\ Len(snaps) <= Len(snaps')
      /\ \A s \in 1 .. Len(snaps) : snaps'[s] = snaps[s]
  <2>1. PICK n : n = Len(snaps)
    OBVIOUS
  <2>2. n \in Nat
    BY <2>1, SnapsLength
  <2>3. CASE Calm(p)
    BY <2>1, <2>2, <2>3 DEF Calm
  <2>4. CASE Publication(p)
    BY <2>1, <2>2, <2>4 DEF Publication
  <2> QED
    BY <2>3, <2>4
<1>7. Renameable(renamed)'
  BY <1>0, <1>6, RenamesStay DEF RunInv
<1>8. TopOk(top, Len(snaps))'
  <2>1. PICK n, m : n = Len(snaps) /\ m = Len(snaps')
    OBVIOUS
  <2>2. 1 .. n \subseteq 1 .. m
    BY ONLY <1>6, <2>1
  <2>3. TopOk(top, n)
    BY <2>1 DEF RunInv
  <2>4. TopOk(top, m)
    BY ONLY <2>2, <2>3 DEF TopOk
  <2> QED
    BY <1>0, <2>1, <2>4
<1>9. \A q \in Procs : Proven(proc'[q], rs)
  BY <1>3, <1>4
<1> QED
  BY <1>0, <1>1, <1>3, <1>5, <1>7, <1>8, <1>9 DEF RunInv

\* A step of a run.
LEMMA RunStepKeepsRuns ==
    ASSUME ArchiveTypes, Numbering, Shape, RunInv, NEW p \in Procs, Calm(p),
           UNCHANGED <<config, renamed>>, NEW rt, runs' = rt, Advances(runs, rt),
           Proven(proc'[p], rt), SourceProven(rt)', ReceiptsProven(receipts', rt),
           TopOk(top', Len(snaps)), inOrder' \in BOOLEAN, inOrder' => PublishedUntil(rt, top')
    PROVE  RunInv'
<1>0. snaps' = snaps
  BY DEF Calm
<1>1. \A q \in Procs : Proven(proc'[q], rt)
  BY RunsAdvance
<1>2. rt \in RunTables /\ ReadyOnes(rt)
  BY DEF Advances
<1>3. Renameable(renamed)'
  BY <1>0 DEF RunInv, Renameable
<1> QED
  BY <1>0, <1>1, <1>2, <1>3 DEF RunInv

\* Another state of a run that is not ready.
Restated(rs, r, a) == [rs EXCEPT ![r].state = a]
LEMMA StateAdvances ==
    ASSUME RunInv, NEW r \in RunIds, NEW a \in RunStates, a = "ready" => runs[r].published,
           runs[r].state # "ready" \/ a = "ready", NEW rt, rt = Restated(runs, r, a)
    PROVE  /\ Advances(runs, rt) /\ rt[r].state = a
           /\ \A x \in RunIds : rt[x].published = runs[x].published
<1>1. PICK rs : rs = runs
  OBVIOUS
<1>2. rs \in RunTables /\ ReadyOnes(rs)
  BY <1>1 DEF RunInv
<1>3. rt = [rs EXCEPT ![r].state = a]
  BY <1>1 DEF Restated
<1>4. /\ rt \in RunTables /\ rt[r].state = a
      /\ \A x \in RunIds : rt[x].published = rs[x].published
      /\ \A x \in RunIds : x # r => rt[x] = rs[x]
  BY ONLY <1>2, <1>3, r \in RunIds, a \in RunStates DEF RunTables
<1>5. a = "ready" => rs[r].published
  BY <1>1
<1>6. rs[r].state # "ready" \/ a = "ready"
  BY <1>1
<1>7. ReadyOnes(rt)
  BY ONLY <1>2, <1>4, <1>5 DEF ReadyOnes
<1>8. Advances(rs, rt)
  BY ONLY <1>4, <1>6, <1>7 DEF Advances
<1> QED
  BY <1>1, <1>4, <1>8

\* A step of a run that leaves the runs alone.
LEMMA QuietStepKeepsRuns ==
    ASSUME ArchiveTypes, Numbering, Shape, RunInv, NEW p \in Procs, Calm(p),
           UNCHANGED <<config, runs, renamed, top, inOrder, receipts>>,
           Proven(proc'[p], runs),
           src'.ingestion = "ready" => src.ingestion = "ready" /\ src'.run = src.run
    PROVE  RunInv'
<1>1. PICK rs : rs = runs
  OBVIOUS
<1>2. Advances(runs, rs)
  BY <1>1, RunsStay
<1>3. SourceProven(rs)'
  BY <1>1 DEF RunInv, SourceProven
<1>4. ReceiptsProven(receipts', rs)
  BY <1>1 DEF RunInv
<1>5. TopOk(top', Len(snaps)) /\ inOrder' \in BOOLEAN /\ (inOrder' => PublishedUntil(rs, top'))
  BY <1>1 DEF RunInv
<1> QED
  BY <1>1, <1>2, <1>3, <1>4, <1>5, RunStepKeepsRuns

LEMMA BeginKeepsRuns ==
    ASSUME ArchiveTypes, Numbering, Shape, RunInv, NEW p \in Procs, BeginRun(p), config' = config
    PROVE  RunInv'
<1>1. PICK r : r = <<proc[p].snap, config>>
  OBVIOUS
<1>2. config \in Configs /\ proc[p].pc = "ingest"
  BY DEF RunInv, BeginRun, At
<1>3. r \in RunIds
  <2>1. proc[p].snap \in 1 .. MaxCommands
    BY <1>2, RunIdsAre DEF ArchivedPcs
  <2> QED
    BY <1>1, <1>2, <2>1 DEF RunIds
<1>4. Calm(p) /\ UNCHANGED <<renamed, top, inOrder, receipts>>
  BY <1>2, BeginIsCalm DEF BeginRun, rest
<1>5. DOMAIN proc[p] = ProcFields
  BY DEF Shape
<1>6. CASE runs[r].state = "ready"
  <2>1. Set(p, [proc[p] EXCEPT !.config = config, !.pc = "reindex"]) /\ UNCHANGED <<runs, src>>
    BY <1>1, <1>6 DEF BeginRun, Reusable
  <2>2. proc'[p] = [proc[p] EXCEPT !.config = config, !.pc = "reindex"]
    BY <2>1, SetDoes
  <2>3. proc'[p].pc = "reindex" /\ proc'[p].snap = proc[p].snap /\ proc'[p].config = config
    BY <1>5, <2>2 DEF ProcFields
  <2>4. Proven(proc'[p], runs)
    BY <1>1, <1>6, <2>3 DEF Proven
  <2> QED
    BY <1>4, <2>1, <2>4, QuietStepKeepsRuns
<1>7. CASE runs[r].state # "ready"
  <2>1. PICK a \in {"queued", "retrying"} :
           /\ Set(p, [proc[p] EXCEPT !.config = config, !.pc = "parsing"])
           /\ runs' = [runs EXCEPT ![r].state = a]
           /\ src' = [src EXCEPT !.ingestion = "queued", !.run = r]
    <3>1. PICK o \in {"none", "other"} : (o = "none") <=> (runs[r].state = "none")
      OBVIOUS
    <3>2. runs \in [RunIds -> [state : RunStates, published : BOOLEAN]]
      BY DEF RunInv, RunTables
    <3>3. runs' = [runs EXCEPT ![r].state = IF runs[r].state = "none" THEN "queued" ELSE "retrying"]
      BY <1>1, <1>3, <1>7, <3>2 DEF BeginRun, Reusable
    <3>4. /\ Set(p, [proc[p] EXCEPT !.config = config, !.pc = "parsing"])
          /\ src' = [src EXCEPT !.ingestion = "queued", !.run = r]
      BY <1>1, <1>7 DEF BeginRun, Reusable
    <3> QED
      BY <3>3, <3>4
  <2>2. proc'[p] = [proc[p] EXCEPT !.config = config, !.pc = "parsing"]
    BY <2>1, SetDoes
  <2>3. proc'[p].pc = "parsing"
    BY <1>5, <2>2 DEF ProcFields
  <2>4. src'.ingestion = "queued"
    BY <2>1 DEF Shape, SrcFields
  <2>5. a \in RunStates /\ a # "ready"
    BY DEF RunStates
  <2>6. PICK rt : rt = Restated(runs, r, a)
    OBVIOUS
  <2>7. Advances(runs, rt) /\ \A x \in RunIds : rt[x].published = runs[x].published
    <3>1. (a = "ready" => runs[r].published) /\ (runs[r].state # "ready" \/ a = "ready")
      BY <1>7, <2>5
    <3> QED
      BY ONLY RunInv, <1>3, <2>5, <2>6, <3>1, StateAdvances
  <2>8. Proven(proc'[p], rt) /\ SourceProven(rt)'
    BY <2>3, <2>4 DEF Proven, SourceProven
  <2>9. ReceiptsProven(receipts', rt)
    BY <1>4, <2>7, RunsAdvance
  <2>10. TopOk(top', Len(snaps)) /\ inOrder' \in BOOLEAN /\ (inOrder' => PublishedUntil(rt, top'))
    BY <1>4, <2>7 DEF RunInv, PublishedUntil
  <2>11. runs' = rt
    BY <2>1, <2>6 DEF Restated
  <2> QED
    BY <1>4, <2>7, <2>8, <2>9, <2>10, <2>11, RunStepKeepsRuns
<1> QED
  BY <1>6, <1>7

LEMMA StageKeepsRuns ==
    ASSUME ArchiveTypes, Numbering, Shape, RunInv, NEW p \in Procs, MarkStage(p), config' = config
    PROVE  RunInv'
<1>1. Calm(p) /\ proc'[p].pc \in {"ingestFailed", "parse", "chunked", "publishing", "commit"}
  BY StageIsCalm
<1>2. UNCHANGED <<renamed, top, inOrder, receipts>> /\ proc[p].pc \in Stages
  BY DEF MarkStage, rest
<1>3. PICK r, a : r = Run(p) /\ a = proc[p].pc
  OBVIOUS
<1>4. r \in RunIds /\ a \in RunStates
  BY <1>2, <1>3, RunIdsAre DEF RunPcs, Ingesting, RunStates
<1>5. \A rs : Proven(proc'[p], rs)
  BY <1>1 DEF Proven
<1>6. CASE runs[r].state = "ready"
  <2>1. UNCHANGED <<runs, src>>
    BY <1>3, <1>6 DEF MarkStage
  <2> QED
    BY <1>1, <1>2, <1>5, <2>1, QuietStepKeepsRuns
<1>7. CASE runs[r].state # "ready"
  <2>1. runs' = [runs EXCEPT ![r].state = a] /\ (src' = src \/ src' = [src EXCEPT !.ingestion = "running"])
    BY <1>3, <1>7 DEF MarkStage
  <2>2. PICK rt : rt = Restated(runs, r, a)
    OBVIOUS
  <2>3. a # "ready"
    BY <1>2, <1>3 DEF Stages
  <2>4. Advances(runs, rt) /\ \A x \in RunIds : rt[x].published = runs[x].published
    <3>1. (a = "ready" => runs[r].published) /\ (runs[r].state # "ready" \/ a = "ready")
      BY <1>7, <2>3
    <3> QED
      BY ONLY RunInv, <1>4, <2>2, <3>1, StateAdvances
  <2>5. ReceiptsProven(receipts', rt) /\ SourceProven(rt)
    BY <1>1, <1>2, <2>4, RunsAdvance
  <2>6. src'.ingestion = "ready" => src' = src
    BY <2>1 DEF Shape, SrcFields
  <2>7. SourceProven(rt)'
    BY <2>5, <2>6 DEF SourceProven
  <2>8. TopOk(top', Len(snaps)) /\ inOrder' \in BOOLEAN /\ (inOrder' => PublishedUntil(rt, top'))
    BY <1>2, <2>4 DEF RunInv, PublishedUntil
  <2>9. runs' = rt
    BY <2>1, <2>2 DEF Restated
  <2> QED
    BY <1>1, <1>2, <1>5, <2>4, <2>5, <2>7, <2>8, <2>9, RunStepKeepsRuns
<1> QED
  BY <1>6, <1>7

LEMMA NoLaterIs ==
    ASSUME NEW a \in Nat \X Nat, NEW b \in Nat \X Nat
    PROVE  /\ NoLater(a, a)
           /\ \A c \in Nat \X Nat : NoLater(a, b) /\ NoLater(b, c) => NoLater(a, c)
           /\ NoLater(a, b) /\ NoLater(b, a) => a = b
BY DEF NoLater

LEMMA RunIdsAreNumbers ==
    ASSUME Shape, RunInv
    PROVE  RunIds \subseteq Nat \X Nat /\ top \in Nat \X Nat
<1>1. Configs \subseteq Nat
  BY SettingsAssumption
<1>2. Len(snaps) \in Nat
  BY SnapsLength
<1>3. PICK t, n : t = top /\ n = Len(snaps)
  OBVIOUS
<1>4. t = <<0, 0>> \/ t \in (1 .. n) \X Configs
  BY <1>3 DEF RunInv, TopOk
<1>5. n \in Nat /\ 1 .. n \subseteq Nat
  BY ONLY <1>2, <1>3
<1>6. t \in Nat \X Nat
  <2>1. <<0, 0>> \in Nat \X Nat
    BY ONLY 0 \in Nat
  <2>2. (1 .. n) \X Configs \subseteq Nat \X Nat
    BY ONLY <1>1, <1>5
  <2> QED
    BY ONLY <1>4, <2>1, <2>2
<1>7. 1 .. MaxCommands \subseteq Nat
  BY ArchiveBounds
<1>8. RunIds \subseteq Nat \X Nat
  BY ONLY <1>1, <1>7 DEF RunIds
<1> QED
  BY <1>3, <1>6, <1>8

LEMMA CommitKeepsRuns ==
    ASSUME ArchiveTypes, Numbering, Shape, RunInv, NEW p \in Procs, CommitPublication(p), config' = config
    PROVE  RunInv'
<1>1. Calm(p) /\ src' = src /\ receipts' = receipts
  BY PlainIngestIsCalm
<1>2. PICK r, rt : r = Run(p) /\ rt = [runs EXCEPT ![r].published = TRUE]
  OBVIOUS
<1>3. /\ renamed' = renamed /\ runs' = rt /\ top' = r /\ proc[p].pc = "commit" /\ Goto(p, "index")
      /\ inOrder' = (inOrder /\ ((proc[p].snap > top[1])
                                  \/ (proc[p].snap = top[1] /\ proc[p].config >= top[2])))
  BY <1>2 DEF CommitPublication, At
<1>4. r \in RunIds /\ r = <<proc[p].snap, proc[p].config>> /\ proc[p].snap \in 1 .. Len(snaps)
  <2>1. "commit" \in RunPcs /\ "commit" \in ArchivedPcs
    BY DEF RunPcs, ArchivedPcs, Ingesting
  <2> QED
    BY <1>2, <1>3, <2>1, RunIdsAre DEF Run
<1>5. /\ rt \in RunTables /\ rt[r].published
      /\ \A x \in RunIds : rt[x].state = runs[x].state /\ (x # r => rt[x].published = runs[x].published)
  <2>1. PICK rs : rs = runs
    OBVIOUS
  <2>2. rs \in RunTables /\ rt = [rs EXCEPT ![r].published = TRUE]
    BY <1>2, <2>1 DEF RunInv
  <2>3. /\ rt \in RunTables /\ rt[r].published
        /\ \A x \in RunIds : rt[x].state = rs[x].state /\ (x # r => rt[x].published = rs[x].published)
    BY ONLY <1>4, <2>2 DEF RunTables
  <2> QED
    BY <2>1, <2>3
<1>6. Advances(runs, rt)
  BY <1>5 DEF RunInv, Advances, ReadyOnes
<1>7. ReceiptsProven(receipts', rt) /\ SourceProven(rt)
  BY <1>1, <1>6, RunsAdvance
<1>8. SourceProven(rt)'
  BY <1>1, <1>7 DEF SourceProven
<1>9. Proven(proc'[p], rt)
  <2>1. proc'[p].pc = "index" /\ proc'[p].snap = proc[p].snap /\ proc'[p].config = proc[p].config
    BY <1>3, GotoDoes DEF SameButPc
  <2> QED
    BY <1>4, <1>5, <2>1 DEF Proven
<1>10. inOrder' \in BOOLEAN
  BY <1>3
<1>11. inOrder' => PublishedUntil(rt, top')
  <2>1. SUFFICES ASSUME inOrder', NEW x \in RunIds, rt[x].published PROVE NoLater(x, r)
    BY <1>3 DEF PublishedUntil
  <2>2. RunIds \subseteq Nat \X Nat /\ top \in Nat \X Nat
    BY RunIdsAreNumbers
  <2>3. inOrder /\ NoLater(top, r)
    <3>1. /\ inOrder /\ ((r[1] > top[1]) \/ (r[1] = top[1] /\ r[2] >= top[2]))
      BY <1>3, <1>4, <2>1
    <3> QED
      BY ONLY <1>4, <2>2, <3>1 DEF NoLater
  <2>4. CASE x = r
    BY ONLY <1>4, <2>2, <2>4, NoLaterIs
  <2>5. CASE x # r
    <3>1. runs[x].published
      BY <1>5, <2>1, <2>5
    <3>2. NoLater(x, top)
      BY <2>3, <3>1 DEF RunInv, PublishedUntil
    <3> QED
      BY ONLY <1>4, <2>2, <2>3, <3>2, x \in RunIds, NoLaterIs
  <2> QED
    BY <2>4, <2>5
<1>12. TopOk(top', Len(snaps))
  BY <1>3, <1>4 DEF TopOk, RunIds
<1> QED
  BY <1>1, <1>3, <1>6, <1>7, <1>8, <1>9, <1>10, <1>11, <1>12, RunStepKeepsRuns

LEMMA RowsKeepRuns ==
    ASSUME ArchiveTypes, Numbering, Shape, RunInv, NEW p \in Procs, config' = config,
           ReadIndexRows(p) \/ WriteIndexRows(p) \/ Invalidate(p) \/ ParseEntries(p) \/ IngestThrows(p)
    PROVE  RunInv'
<1>1. UNCHANGED <<runs, renamed, top, inOrder, receipts, src>>
  BY DEF ReadIndexRows, WriteIndexRows, Invalidate, ParseEntries, IngestThrows, rest, knowledge
<1>2. Calm(p)
  BY RowsAreCalm, PlainIngestIsCalm
<1>3. PICK r, x, rs : r = proc[p] /\ x = proc'[p] /\ rs = runs
  OBVIOUS
<1>4. Proven(r, rs)
  BY <1>3 DEF RunInv
<1>5. Proven(x, rs)
  <2>1. CASE ReadIndexRows(p) \/ WriteIndexRows(p)
    <3>1. \/ /\ r.pc \in {"index", "write"} /\ x.pc \in {"write", "invalidate"}
             /\ x.snap = r.snap /\ x.config = r.config
          \/ /\ r.pc \in {"reindex", "rewrite"} /\ x.pc \in {"rewrite", "receipt"}
             /\ x.snap = r.snap /\ x.config = r.config
          \/ x.pc \in {"swap", "idle"}
      BY <1>3, <2>1, RowsAreCalm
    <3> QED
      BY ONLY <1>4, <3>1 DEF Proven
  <2>2. CASE Invalidate(p)
    <3>1. Goto(p, "complete") /\ r.pc = "invalidate"
      BY <1>3, <2>2 DEF Invalidate, At
    <3>2. x.pc = "complete" /\ x.snap = r.snap /\ x.config = r.config
      BY <1>3, <3>1, GotoDoes DEF SameButPc
    <3> QED
      BY ONLY <1>4, <3>1, <3>2 DEF Proven
  <2>3. CASE ParseEntries(p)
    <3>1. PICK pc \in {"normalized", "ingestFailed"} : Goto(p, pc)
      BY <2>3 DEF ParseEntries
    <3>2. x.pc = pc
      BY <1>3, <3>1, GotoDoes
    <3> QED
      BY ONLY <3>2, pc \in {"normalized", "ingestFailed"} DEF Proven
  <2>4. CASE IngestThrows(p)
    <3>1. x = [r EXCEPT !.pc = "ingestFailed", !.rows = {}, !.hash = 0] /\ DOMAIN r = ProcFields
      BY <1>3, <2>4, SetDoes DEF IngestThrows, Shape
    <3>2. x.pc = "ingestFailed"
      BY ONLY <3>1 DEF ProcFields
    <3> QED
      BY ONLY <3>2 DEF Proven
  <2> QED
    BY <2>1, <2>2, <2>3, <2>4
<1> QED
  BY <1>1, <1>2, <1>3, <1>5, QuietStepKeepsRuns

LEMMA CompleteKeepsRuns ==
    ASSUME ArchiveTypes, Numbering, Shape, RunInv, NEW p \in Procs, CompleteRun(p), config' = config
    PROVE  RunInv'
<1>1. Calm(p) /\ UNCHANGED <<renamed, top, inOrder, receipts>> /\ proc[p].pc = "complete"
  BY EndingIsCalm DEF CompleteRun, rest, At
<1>2. PICK r : r = Run(p)
  OBVIOUS
<1>3. r \in RunIds
  BY <1>1, <1>2, RunIdsAre DEF RunPcs, Ingesting
<1>4. runs[r].published
  BY <1>1, <1>2 DEF RunInv, Proven, Run
<1>5. CASE runs[r].state = "publishing"
  <2>1. /\ runs' = [runs EXCEPT ![r].state = "ready"] /\ Ingested(p)
        /\ src' = [src EXCEPT !.ingestion = "ready", !.run = r]
    BY <1>2, <1>5 DEF CompleteRun
  <2>2. PICK rt : rt = Restated(runs, r, "ready")
    OBVIOUS
  <2>3. /\ Advances(runs, rt) /\ rt[r].state = "ready"
        /\ \A x \in RunIds : rt[x].published = runs[x].published
    <3>1. "ready" \in RunStates
      BY DEF RunStates
    <3> QED
      BY ONLY RunInv, <1>3, <1>4, <2>2, <3>1, StateAdvances
  <2>4. SourceProven(rt)'
    <3>1. src'.run = r
      BY <2>1 DEF Shape, SrcFields
    <3> QED
      BY <1>3, <2>3, <3>1 DEF SourceProven
  <2>5. Proven(proc'[p], rt)
    <3>1. \/ proc'[p].pc = "idle"
          \/ /\ proc'[p].pc = "receipt"
             /\ proc'[p].snap = proc[p].snap /\ proc'[p].config = proc[p].config
      BY <2>1, IngestedDoes
    <3> QED
      BY <1>2, <2>3, <3>1 DEF Proven, Run
  <2>6. ReceiptsProven(receipts', rt)
    BY <1>1, <2>3, RunsAdvance
  <2>7. TopOk(top', Len(snaps)) /\ inOrder' \in BOOLEAN /\ (inOrder' => PublishedUntil(rt, top'))
    BY <1>1, <2>3 DEF RunInv, PublishedUntil
  <2>8. runs' = rt
    BY <2>1, <2>2 DEF Restated
  <2> QED
    BY <1>1, <2>3, <2>4, <2>5, <2>6, <2>7, <2>8, RunStepKeepsRuns
<1>6. CASE runs[r].state # "publishing"
  <2>1. UNCHANGED <<runs, src>> /\ Goto(p, "ingestFailed")
    BY <1>2, <1>6 DEF CompleteRun
  <2>2. Proven(proc'[p], runs)
    BY <2>1, GotoDoes DEF Proven
  <2> QED
    BY <1>1, <2>1, <2>2, QuietStepKeepsRuns
<1> QED
  BY <1>5, <1>6

LEMMA FailKeepsRuns ==
    ASSUME ArchiveTypes, Numbering, Shape, RunInv, NEW p \in Procs, FailRun(p), config' = config
    PROVE  RunInv'
<1>1. Calm(p) /\ UNCHANGED <<renamed, top, inOrder, receipts>> /\ proc[p].pc = "ingestFailed"
  BY EndingIsCalm DEF FailRun, rest, At
<1>2. PICK r : r = Run(p)
  OBVIOUS
<1>3. r \in RunIds
  BY <1>1, <1>2, RunIdsAre DEF RunPcs, Ingesting
<1>4. \A rs : Proven(proc'[p], rs)
  BY SetDoes, IdleShape DEF FailRun, Proven
<1>5. CASE runs[r].state = "ready"
  <2>1. UNCHANGED <<runs, src>>
    BY <1>2, <1>5 DEF FailRun
  <2> QED
    BY <1>1, <1>4, <2>1, QuietStepKeepsRuns
<1>6. CASE runs[r].state # "ready"
  <2>1. /\ runs' = [runs EXCEPT ![r].state = "failed"]
        /\ src' = [src EXCEPT !.ingestion = "failed", !.run = r]
    BY <1>2, <1>6 DEF FailRun
  <2>2. PICK rt : rt = Restated(runs, r, "failed")
    OBVIOUS
  <2>3. Advances(runs, rt) /\ \A x \in RunIds : rt[x].published = runs[x].published
    <3>1. "failed" \in RunStates
      BY DEF RunStates
    <3> QED
      BY ONLY RunInv, <1>3, <1>6, <2>2, <3>1, StateAdvances
  <2>4. SourceProven(rt)'
    <3>1. src'.ingestion = "failed"
      BY <2>1 DEF Shape, SrcFields
    <3> QED
      BY <3>1 DEF SourceProven
  <2>6. ReceiptsProven(receipts', rt)
    BY <1>1, <2>3, RunsAdvance
  <2>7. TopOk(top', Len(snaps)) /\ inOrder' \in BOOLEAN /\ (inOrder' => PublishedUntil(rt, top'))
    BY <1>1, <2>3 DEF RunInv, PublishedUntil
  <2>8. runs' = rt
    BY <2>1, <2>2 DEF Restated
  <2> QED
    BY <1>1, <1>4, <2>3, <2>4, <2>6, <2>7, <2>8, RunStepKeepsRuns
<1> QED
  BY <1>5, <1>6

LEMMA ReceiptKeepsRuns ==
    ASSUME ArchiveTypes, Numbering, Shape, RunInv, NEW p \in Procs, RecordReceipt(p), config' = config
    PROVE  RunInv'
<1>1. /\ Calm(p) /\ UNCHANGED <<runs, renamed, top, inOrder, src>> /\ proc[p].pc = "receipt"
      /\ Goto(p, "scanned")
      /\ receipts' = [receipts EXCEPT ![proc[p].batch] = IF @ = 0 THEN proc[p].snap ELSE @]
  BY EndingIsCalm DEF RecordReceipt, knowledge, At
<1>2. PICK rs : rs = runs
  OBVIOUS
<1>3. Advances(runs, rs) /\ runs' = rs
  BY <1>1, <1>2, RunsStay
<1>4. Proven(proc'[p], rs)
  BY <1>1, GotoDoes DEF Proven
<1>5. SourceProven(rs)'
  BY <1>1, <1>2 DEF RunInv, SourceProven
<1>6. ReceiptsProven(receipts', rs)
  <2>1. PICK rc, b, s, g : rc = receipts /\ b = proc[p].batch /\ s = proc[p].snap /\ g = proc[p].config
    OBVIOUS
  <2>2. ReceiptsProven(rc, rs) /\ DOMAIN rc = Batches
    BY <1>2, <2>1 DEF RunInv, ArchiveTypes
  <2>3. rs[<<s, g>>].state = "ready"
    BY <1>1, <1>2, <2>1 DEF RunInv, Proven
  <2>4. g \in Configs
    <3>1. "receipt" \in RunPcs
      BY DEF RunPcs
    <3> QED
      BY <1>1, <2>1, <3>1 DEF ArchiveTypes, CommandOk
  <2>5. receipts' = [rc EXCEPT ![b] = IF @ = 0 THEN s ELSE @]
    BY <1>1, <2>1
  <2>6. \A c \in Batches : receipts'[c] # 0 => receipts'[c] = rc[c] \/ receipts'[c] = s
    BY ONLY <2>2, <2>5
  <2> QED
    BY ONLY <2>2, <2>3, <2>4, <2>6 DEF ReceiptsProven
<1>7. TopOk(top', Len(snaps)) /\ inOrder' \in BOOLEAN /\ (inOrder' => PublishedUntil(rs, top'))
  BY <1>1, <1>2 DEF RunInv
<1> QED
  BY <1>1, <1>3, <1>4, <1>5, <1>6, <1>7, RunStepKeepsRuns

LEMMA RenamesAreKept ==
    ASSUME ArchiveTypes, Numbering, Shape, RunInv, NEW p \in Procs, RecordRenames(p), config' = config
    PROVE  RunInv'
<1>1. /\ Calm(p) /\ UNCHANGED <<config, runs, top, inOrder, src, receipts, snaps>> /\ proc[p].pc = "scanned"
      /\ renamed' = [renamed EXCEPT ![proc[p].snap] = Renames(proc[p].snap)] /\ Set(p, Idle)
  BY EndingIsCalm DEF RecordRenames, rest, At
<1>2. PICK s, R, rn : s = proc[p].snap /\ R = Renames(s) /\ rn = renamed
  OBVIOUS
<1>3. s \in 1 .. MaxCommands /\ s \in 1 .. Len(snaps)
  BY <1>1, <1>2, RunIdsAre DEF ArchivedPcs
<1>4. R \subseteq Paths \X Paths /\ \A r \in R : snaps[s].entries[r[2]] # 0
  BY <1>2 DEF Renames
<1>5. Renameable(rn)
  BY <1>2 DEF RunInv
<1>6. Renameable(renamed')
  <2>1. renamed' = [rn EXCEPT ![s] = R]
    BY <1>1, <1>2
  <2>2. PICK rm : rm = renamed'
    OBVIOUS
  <2>3. rn \in [1 .. MaxCommands -> SUBSET (Paths \X Paths)]
    BY <1>5 DEF Renameable
  <2>4. /\ rm \in [1 .. MaxCommands -> SUBSET (Paths \X Paths)] /\ rm[s] = R
        /\ \A t \in 1 .. MaxCommands : t # s => rm[t] = rn[t]
    BY ONLY <1>3, <1>4, <2>1, <2>2, <2>3
  <2>5. Renameable(rm)
    BY <1>3, <1>4, <1>5, <2>4 DEF Renameable
  <2> QED
    BY <2>2, <2>5
<1>7. Renameable(renamed)'
  BY <1>1, <1>6 DEF Renameable
<1>8. \A q \in Procs : Proven(proc'[q], runs)
  <2>1. proc'[p] = Idle /\ OthersRest(p)
    BY <1>1, SetDoes
  <2> QED
    BY <2>1, IdleShape DEF RunInv, OthersRest, Proven
<1>9. SourceProven(runs)'
  BY <1>1 DEF RunInv, SourceProven
<1> QED
  BY <1>1, <1>7, <1>8, <1>9 DEF RunInv
-----------------------------------------------------------------------------
(* The documents, revisions and chunks                                     *)

\* Always sound; and as long as snapshots are published in order, every active chunk
\* is in the current revision of its document, nothing was made for a snapshot or
\* settings behind the latest that was published, and its files are the documents.
KnowledgeInv ==
    /\ Sound(kb)
    /\ inOrder => /\ Mapped(kb) /\ Until(kb, top)
                  /\ top # <<0, 0>> => Holds(kb, Entries(top[1]), top[2])

LEMMA KnowledgeStays ==
    ASSUME ArchiveTypes, Shape, RunInv, KnowledgeInv, UNCHANGED <<kb, top, inOrder>>,
           \A s \in 1 .. Len(snaps) : snaps'[s] = snaps[s]
    PROVE  KnowledgeInv'
<1>1. ASSUME top # <<0, 0>> PROVE Entries(top[1])' = Entries(top[1])
  <2>1. PICK n : n = Len(snaps)
    OBVIOUS
  <2>2. TopOk(top, n) /\ n \in Nat
    BY <2>1, SnapsLength DEF RunInv
  <2>3. top[1] \in 1 .. n
    BY <1>1, <2>2 DEF TopOk
  <2>4. top'[1] = top[1] /\ snaps'[top[1]] = snaps[top[1]]
    BY <2>1, <2>3
  <2> QED
    BY <2>3, <2>4 DEF Entries
<1> QED
  BY <1>1 DEF KnowledgeInv

LEMMA CommitKeepsKnowledge ==
    ASSUME ArchiveTypes, Numbering, Shape, RunInv, KnowledgeInv, NEW p \in Procs, CommitPublication(p)
    PROVE  KnowledgeInv'
<1>1. PICK s, g, e, text, R : /\ s = proc[p].snap /\ g = proc[p].config /\ e = snaps[s].entries
                              /\ text = [f \in Paths |-> IF e[f] = 0 THEN 0 ELSE blobs[e[f]]]
                              /\ R = renamed[s]
  OBVIOUS
<1>2. proc[p].pc = "commit" /\ UNCHANGED snaps /\ top' = <<s, g>>
      /\ inOrder' = (inOrder /\ ((s > top[1]) \/ (s = top[1] /\ g >= top[2])))
  BY <1>1 DEF CommitPublication, Run, rest, At
<1>3. /\ s \in 1 .. MaxCommands /\ s \in 1 .. Len(snaps) /\ g \in Configs /\ s \in Nat /\ s # 0
      /\ <<s, g>> \in RunIds
  <2>1. "commit" \in RunPcs /\ "commit" \in ArchivedPcs
    BY DEF RunPcs, ArchivedPcs, Ingesting
  <2>2. s \in 1 .. MaxCommands /\ s \in 1 .. Len(snaps) /\ <<s, g>> \in RunIds
    BY <1>1, <1>2, <2>1, RunIdsAre DEF Run
  <2>3. MaxCommands \in Nat
    BY ArchiveBounds
  <2>4. s \in Nat /\ s # 0
    BY ONLY <2>2, <2>3
  <2> QED
    BY ONLY <2>2, <2>4 DEF RunIds
<1>4. Entries(s) = e /\ Entries(s)' = e
  BY <1>1, <1>2, <1>3 DEF Entries
<1>5. kb' = Publish(kb, s, g, e, text, R)
  <2>1. Entries(proc[p].snap) = e
    BY <1>1, <1>4
  <2> QED
    BY ONLY CommitPublication(p), <1>1, <2>1 DEF CommitPublication
<1>6. HeldIn(blobs, e) /\ blobs \in BlobRows
  BY <1>1, <1>3 DEF ArchiveTypes
<1>7. /\ e \in [Paths -> 0 .. MaxContent] /\ text \in [Paths -> 0 .. MaxContent]
      /\ \A f \in Paths : e[f] # 0 => text[f] # 0
  <2>1. MaxContent \in Nat
    BY ContentAssumption
  <2>2. e \in [Paths -> 0 .. MaxContent] /\ \A f \in Paths : e[f] # 0 => blobs[e[f]] # 0
    BY <1>6 DEF HeldIn
  <2>3. blobs \in [Contents -> 0 .. MaxContent]
    BY <1>6 DEF BlobRows
  <2>4. text = [f \in Paths |-> IF e[f] = 0 THEN 0 ELSE blobs[e[f]]]
    BY <1>1
  <2>5. 0 \in 0 .. MaxContent /\ \A c \in 0 .. MaxContent : c # 0 => c \in Contents
    BY ONLY <2>1 DEF Contents
  <2> QED
    BY ONLY <2>2, <2>3, <2>4, <2>5
<1>8. R \subseteq Paths \X Paths /\ \A r \in R : e[r[2]] # 0
  BY <1>1, <1>3 DEF RunInv, Renameable
<1>9. PICK k, m, t : k = kb /\ m = Publish(kb, s, g, e, text, R) /\ t = top
  OBVIOUS
<1>10. Sound(k)
  BY <1>9 DEF KnowledgeInv
<1>11. Publishable(k, s, g, e, text, R)
  BY ONLY <1>3, <1>7, <1>8, <1>10 DEF Publishable
<1>12. /\ Sound(m)
       /\ InTurn(k, s, g, e, R) => Mapped(m) /\ Until(m, <<s, g>>) /\ Holds(m, e, g)
  <2>1. m = Publish(k, s, g, e, text, R)
    BY ONLY <1>9
  <2> QED
    BY ONLY <1>11, <2>1, PublishDoes
<1>13. ASSUME inOrder' PROVE InTurn(k, s, g, e, R)
  <2>1. RunIds \subseteq Nat \X Nat /\ t \in Nat \X Nat
    BY <1>9, RunIdsAreNumbers
  <2>2. inOrder /\ NoLater(t, <<s, g>>)
    <3>1. inOrder /\ ((s > t[1]) \/ (s = t[1] /\ g >= t[2]))
      BY <1>2, <1>9, <1>13
    <3> QED
      BY ONLY <1>3, <2>1, <3>1 DEF NoLater
  <2>3. /\ Mapped(k) /\ Until(k, t)
        /\ t # <<0, 0>> => Holds(k, Entries(t[1]), t[2])
    BY <1>9, <2>2 DEF KnowledgeInv
  <2>4. \A r \in DOMAIN k.revs : Key(k, r) \in Nat \X Nat
    <3>1. Configs \subseteq Nat
      BY SettingsAssumption
    <3>2. k.revs \in Seq(RevisionRows)
      BY ONLY <1>10 DEF Sound, Tables
    <3>3. ASSUME NEW r \in DOMAIN k.revs PROVE k.revs[r].snap \in Nat /\ k.revs[r].config \in Configs
      <4>1. k.revs[r] \in RevisionRows
        BY ONLY <3>2, r \in DOMAIN k.revs
      <4> QED
        BY ONLY <4>1 DEF RevisionRows
    <3> QED
      BY ONLY <3>1, <3>3 DEF Key
  <2>5. \A r \in DOMAIN k.revs : NoLater(Key(k, r), t)
    BY ONLY <2>3 DEF Until
  <2>6. Until(k, <<s, g>>)
    BY ONLY <1>3, <2>1, <2>2, <2>4, <2>5, NoLaterIs DEF Until
  <2>7. Unmade(k, s, g) \/ (Holds(k, e, g) /\ \A r \in R : e[r[2]] # 0)
    <3>1. CASE t = <<s, g>>
      <4>1. t # <<0, 0>> /\ t[1] = s /\ t[2] = g
        BY ONLY <1>3, <3>1
      <4>2. Holds(k, Entries(s), g)
        BY ONLY <2>3, <4>1
      <4> QED
        BY ONLY <1>4, <1>8, <4>2
    <3>2. CASE t # <<s, g>>
      <4>1. SUFFICES ASSUME NEW r \in DOMAIN k.revs, k.revs[r].snap = s, k.revs[r].config = g
                     PROVE  FALSE
        BY DEF Unmade
      <4>2. Key(k, r) = <<s, g>>
        BY ONLY <4>1 DEF Key
      <4>3. NoLater(<<s, g>>, t)
        BY ONLY <2>5, <4>1, <4>2
      <4> QED
        BY ONLY <1>3, <2>1, <2>2, <3>2, <4>3, NoLaterIs
    <3> QED
      BY <3>1, <3>2
  <2> QED
    BY ONLY <2>3, <2>6, <2>7 DEF InTurn
<1>14. kb' = m
  BY ONLY <1>5, <1>9
<1>15. ASSUME inOrder'
       PROVE  Mapped(kb') /\ Until(kb', top') /\ Holds(kb', Entries(top[1])', top'[2])
  <2>1. Mapped(m) /\ Until(m, <<s, g>>) /\ Holds(m, e, g)
    BY ONLY <1>12, <1>13, <1>15
  <2>2. Entries(top[1])' = e /\ top'[2] = g
    <3>1. top'[1] = s /\ top'[2] = g
      BY ONLY <1>2
    <3> QED
      BY <1>4, <3>1 DEF Entries
  <2> QED
    BY ONLY <1>2, <1>14, <2>1, <2>2
<1> QED
  BY <1>12, <1>14, <1>15 DEF KnowledgeInv
-----------------------------------------------------------------------------
(* All of it                                                               *)

IndexTypes ==
    /\ index.no \in Nat /\ context.state \in {"none", "active", "stale"}
    /\ answer \in {"none", "active", "stale"}

ContentInv == /\ IngestionInv /\ ArchiveTypes /\ Numbering
              /\ RunInv /\ KnowledgeInv /\ IndexTypes

LEMMA EmptyIsSound == Sound(EmptyKnowledge) /\ Mapped(EmptyKnowledge) /\ \A b : Until(EmptyKnowledge, b)
<1>1. PICK k : k = EmptyKnowledge
  OBVIOUS
<1>2. /\ k.docs = <<>> /\ k.revs = <<>> /\ k.chunks = <<>> /\ k.lineage = {}
      /\ k = [docs |-> <<>>, revs |-> <<>>, chunks |-> <<>>, lineage |-> {}]
  BY <1>1 DEF EmptyKnowledge
<1>3. k \in Tables
  <2>1. \A S : <<>> \in Seq(S)
    OBVIOUS
  <2>2. {} \in SUBSET (Nat \X Nat)
    OBVIOUS
  <2>3. <<>> \in Seq(DocumentRows) /\ <<>> \in Seq(RevisionRows) /\ <<>> \in Seq(ChunkRows)
    BY ONLY <2>1
  <2> QED
    BY ONLY <1>2, <2>2, <2>3 DEF Tables
<1>4. DOMAIN k.docs = {} /\ DOMAIN k.revs = {} /\ DOMAIN k.chunks = {}
  BY ONLY <1>2
<1>5. Documented(k) /\ Chunked(k) /\ Descended(k) /\ Mapped(k) /\ \A b : Until(k, b)
  BY ONLY <1>2, <1>4 DEF Documented, Chunked, Descended, Mapped, Until
<1> QED
  BY <1>1, <1>3, <1>5 DEF Sound

LEMMA ContentInit ==
    ASSUME Init
    PROVE  ContentInv
<1>1. IngestionInv
  BY IngestionInit
<1>2. /\ file = [f \in Paths |-> IF f \in InitialFiles THEN 1 ELSE 0]
      /\ blobs = [c \in Contents |-> 0] /\ Len(snaps) = 0
      /\ src = NewSource /\ receipts = [b \in Batches |-> 0] /\ proc = [p \in Procs |-> Idle]
      /\ config = 1 /\ runs = [r \in RunIds |-> [state |-> "none", published |-> FALSE]]
      /\ kb = EmptyKnowledge /\ index = [no |-> 0, rows |-> {}]
      /\ renamed = [s \in 1 .. MaxCommands |-> {}]
      /\ context = [state |-> "none", rows |-> {}] /\ answer = "none"
      /\ top = <<0, 0>> /\ inOrder = TRUE
  BY DEF Init, ArchiveInit
<1>3. ArchiveTypes
  <2>1. MaxContent \in Nat \ {0}
    BY ContentAssumption
  <2>2. 0 \in 0 .. MaxContent /\ 1 \in 0 .. MaxContent
    BY ONLY <2>1
  <2>3. file \in [Paths -> 0 .. MaxContent] /\ blobs \in BlobRows
    BY ONLY <1>2, <2>2 DEF BlobRows
  <2>4. SrcStates
    BY <1>2 DEF NewSource, SrcStates
  <2>5. ASSUME NEW p \in Procs PROVE CommandOk(proc[p], Len(snaps), blobs)
    <3>1. proc[p] = Idle /\ Len(snaps) = 0 /\ 0 \in Nat
      BY <1>2
    <3>2. PICK n, bl : n = Len(snaps) /\ bl = blobs
      OBVIOUS
    <3>3. CommandOk(Idle, n, bl)
      BY ONLY <3>1, <3>2, IdleIsOk
    <3> QED
      BY ONLY <3>1, <3>2, <3>3
  <2>6. DOMAIN receipts = Batches /\ \A b \in Batches : receipts[b] \in 0 .. Len(snaps)
    BY <1>2
  <2>7. 1 .. Len(snaps) = {}
    BY <1>2
  <2> QED
    BY <2>3, <2>4, <2>5, <2>6, <2>7 DEF ArchiveTypes
<1>4. Numbering
  BY <1>2, IdleShape DEF Numbering, Unpublished
<1>5. RunInv
  <2>1. runs \in RunTables /\ ReadyOnes(runs) /\ PublishedUntil(runs, top)
    BY <1>2 DEF RunTables, RunStates, ReadyOnes, PublishedUntil
  <2>2. \A p \in Procs : Proven(proc[p], runs)
    BY <1>2, IdleShape DEF Proven
  <2>3. ReceiptsProven(receipts, runs) /\ SourceProven(runs)
    BY <1>2 DEF ReceiptsProven, SourceProven, NewSource
  <2>4. Renameable(renamed)
    BY <1>2 DEF Renameable
  <2>5. config \in Configs /\ TopOk(top, Len(snaps)) /\ inOrder \in BOOLEAN
    BY <1>2, SettingsAssumption DEF TopOk
  <2> QED
    BY <2>1, <2>2, <2>3, <2>4, <2>5 DEF RunInv
<1>6. KnowledgeInv
  BY <1>2, EmptyIsSound DEF KnowledgeInv
<1>7. IndexTypes
  BY <1>2 DEF IndexTypes
<1> QED
  BY <1>1, <1>3, <1>4, <1>5, <1>6, <1>7 DEF ContentInv

\* What a step of p that leaves the knowledge alone leaves.
LEMMA SettledKeepsContent ==
    ASSUME ArchiveTypes, Numbering, Shape, RunInv, KnowledgeInv, NEW p \in Procs,
           (Calm(p) /\ Settled(p)) \/ Publication(p), UNCHANGED <<config, knowledge>>
    PROVE  ArchiveTypes' /\ Numbering' /\ RunInv' /\ KnowledgeInv'
<1>1. RunInv'
  BY SettledKeepsRuns
<1>2. KnowledgeInv'
  <2>1. \A s \in 1 .. Len(snaps) : snaps'[s] = snaps[s]
    BY DEF Calm, Publication
  <2> QED
    BY <2>1, KnowledgeStays DEF knowledge
<1>3. CASE Publication(p)
  BY <1>1, <1>2, <1>3, PublicationKeepsTypes, PublicationKeepsNumbers
<1>4. CASE Calm(p) /\ Settled(p)
  <2>1. DOMAIN receipts' = Batches /\ \A b \in Batches : receipts'[b] \in 0 .. Len(snaps)
    BY <1>4, ReceiptsStay DEF Settled
  <2> QED
    BY <1>1, <1>2, <1>4, <2>1, CalmKeepsTypes, CalmKeepsNumbers
<1> QED
  BY <1>3, <1>4

LEMMA ArchivingKeepsContent ==
    ASSUME ArchiveTypes, Numbering, Shape, RunInv, KnowledgeInv, NEW p \in Procs,
           ArchiveStep(p) \/ StartBuild(p) \/ StartRebuild(p), UNCHANGED <<config, knowledge>>
    PROVE  ArchiveTypes' /\ Numbering' /\ RunInv' /\ KnowledgeInv'
<1>1. CASE StartAdd(p) \/ StartSync(p) \/ StartAccept(p) \/ StartBuild(p) \/ StartRebuild(p)
  BY <1>1, StartingIsCalm, SettledKeepsContent
<1>2. CASE FindSource(p) \/ RegisterSource(p) \/ MarkArchiving(p)
  BY <1>2, EarlyArchiveIsCalm, SettledKeepsContent
<1>3. CASE ListFiles(p) \/ HashFile(p) \/ CopyFile(p) \/ FinishUnchanged(p)
  BY <1>3, ListingIsCalm, HashingIsCalm, CopyingIsCalm, FinishingIsCalm, SettledKeepsContent
<1>4. CASE \/ Compare(p) \/ Number(p) \/ WriteManifest(p) \/ ArchiveThrows(p)
           \/ (PublishSnapshot(p) /\ ~ FreeSequence(NextSequence(p)))
  BY <1>4, NumberingIsCalm, SettledKeepsContent
<1>5. CASE PublishSnapshot(p) /\ FreeSequence(NextSequence(p))
  BY <1>5, PublicationIs, SettledKeepsContent
<1>6. CASE MarkFailed(p) \/ Kill(p)
  BY <1>6, FailingIsCalm, SettledKeepsContent
<1> QED
  BY <1>1, <1>2, <1>3, <1>4, <1>5, <1>6 DEF ArchiveStep

LEMMA IngestingKeepsContent ==
    ASSUME ArchiveTypes, Numbering, Shape, RunInv, KnowledgeInv, NEW p \in Procs,
           IngestStep(p) \/ Invalidate(p), config' = config
    PROVE  ArchiveTypes' /\ Numbering' /\ RunInv' /\ KnowledgeInv'
<1>1. /\ Calm(p) /\ DOMAIN receipts' = Batches
      /\ \A b \in Batches : receipts'[b] \in 0 .. Len(snaps)
  <2>1. config \in Configs
    BY DEF RunInv
  <2>2. CASE BeginRun(p)
    BY <2>1, <2>2, BeginIsCalm, ReceiptsStay DEF BeginRun, rest
  <2>3. CASE MarkStage(p)
    BY <2>3, StageIsCalm, ReceiptsStay DEF MarkStage, rest
  <2>4. CASE ParseEntries(p) \/ CommitPublication(p) \/ Invalidate(p) \/ IngestThrows(p)
    BY <2>4, PlainIngestIsCalm, ReceiptsStay
  <2>5. CASE ReadIndexRows(p) \/ WriteIndexRows(p)
    BY <2>5, RowsAreCalm, ReceiptsStay DEF ReadIndexRows, WriteIndexRows, rest
  <2>6. CASE CompleteRun(p) \/ FailRun(p) \/ RecordReceipt(p) \/ RecordRenames(p)
    BY <2>6, EndingIsCalm
  <2> QED
    BY <2>2, <2>3, <2>4, <2>5, <2>6 DEF IngestStep
<1>2. ArchiveTypes' /\ Numbering'
  BY <1>1, CalmKeepsTypes, CalmKeepsNumbers
<1>3. RunInv'
  BY BeginKeepsRuns, StageKeepsRuns, CommitKeepsRuns, RowsKeepRuns, CompleteKeepsRuns, FailKeepsRuns,
     ReceiptKeepsRuns, RenamesAreKept DEF IngestStep
<1>4. KnowledgeInv'
  <2>1. CASE CommitPublication(p)
    BY <2>1, CommitKeepsKnowledge
  <2>2. CASE ~ CommitPublication(p)
    <3>1. UNCHANGED <<kb, top, inOrder>>
      BY <2>2 DEF IngestStep, BeginRun, MarkStage, ParseEntries, ReadIndexRows, WriteIndexRows,
                  CompleteRun, FailRun, RecordReceipt, RecordRenames, IngestThrows, Invalidate, knowledge
    <3>2. snaps' = snaps
      BY <1>1 DEF Calm
    <3> QED
      BY <3>1, <3>2, KnowledgeStays
  <2> QED
    BY <2>1, <2>2
<1> QED
  BY <1>2, <1>3, <1>4

\* Steps of users, of asks, and those that change nothing.
LEMMA OutsideKeepsContent ==
    ASSUME ArchiveTypes, Numbering, Shape, RunInv, KnowledgeInv,
           UNCHANGED <<blobs, snaps, src, receipts, proc, commands, limit, knowledge>>,
           file' \in [Paths -> 0 .. MaxContent], config' \in Configs
    PROVE  ArchiveTypes' /\ Numbering' /\ RunInv' /\ KnowledgeInv'
<1>1. ArchiveTypes' /\ Numbering'
  BY DEF ArchiveTypes, Numbering, SrcStates
<1>2. RunInv'
  BY DEF RunInv, SourceProven, Renameable, knowledge
<1>3. KnowledgeInv'
  BY KnowledgeStays DEF knowledge
<1> QED
  BY <1>1, <1>2, <1>3

LEMMA EditKeepsFiles ==
    ASSUME ArchiveTypes, Edit
    PROVE  file' \in [Paths -> 0 .. MaxContent]
<1>1. file \in [Paths -> 0 .. MaxContent]
  BY DEF ArchiveTypes
<1>2. 0 \in 0 .. MaxContent
  <2>1. MaxContent \in Nat
    BY ContentAssumption
  <2> QED
    BY ONLY <2>1
<1>3. \/ \E f \in Paths, c \in 0 .. MaxContent : file' = [file EXCEPT ![f] = c]
      \/ \E f, t \in Paths : file' = [file EXCEPT ![f] = 0, ![t] = file[f]]
  BY DEF Edit
<1>4. CASE \E f \in Paths, c \in 0 .. MaxContent : file' = [file EXCEPT ![f] = c]
  BY ONLY <1>1, <1>4
<1>5. CASE \E f, t \in Paths : file' = [file EXCEPT ![f] = 0, ![t] = file[f]]
  <2>1. PICK f, t \in Paths : file' = [file EXCEPT ![f] = 0, ![t] = file[f]]
    BY <1>5
  <2> QED
    BY ONLY <1>1, <1>2, <2>1, f \in Paths, t \in Paths
<1> QED
  BY <1>3, <1>4, <1>5

LEMMA SettingsStay ==
    ASSUME RunInv, Shape, ChangeConfig
    PROVE  config' \in Configs
<1>1. limit \in Limits /\ config \in Nat /\ config < limit.configs /\ config' = config + 1
  BY SettingsAssumption DEF RunInv, Shape, ChangeConfig
<1>2. limit.configs \in Nat /\ 1 .. limit.configs \subseteq Configs
  BY <1>1, SettingsAssumption
<1>3. PICK n, l : n = config /\ l = limit.configs
  OBVIOUS
<1>4. n + 1 \in 1 .. l
  BY ONLY <1>1, <1>2, <1>3
<1> QED
  BY ONLY <1>1, <1>2, <1>3, <1>4

LEMMA IndexTypesStay ==
    ASSUME IndexShape, IndexTypes, [Next]_vars
    PROVE  IndexTypes'
<1>1. CASE UNCHANGED <<index, context, answer>>
  BY <1>1 DEF IndexTypes
<1>2. ASSUME NEW p \in Procs, IngestStep(p), UNCHANGED retrieval
      PROVE  IndexTypes'
  <2>1. CASE WriteIndexRows(p)
    <3>1. index'.no \in {index.no, index.no + 1}
      BY <2>1 DEF WriteIndexRows, IndexShape
    <3>2. index'.no \in Nat
      BY <3>1 DEF IndexTypes
    <3> QED
      BY <1>2, <3>2 DEF IndexTypes, retrieval
  <2>2. CASE ~ WriteIndexRows(p)
    <3>1. index' = index
      BY <1>2, <2>2 DEF IngestStep, BeginRun, MarkStage, ParseEntries, CommitPublication, ReadIndexRows,
                        CompleteRun, FailRun, RecordReceipt, RecordRenames, IngestThrows
    <3> QED
      BY <1>1, <1>2, <3>1 DEF retrieval
  <2> QED
    BY <2>1, <2>2
<1>3. ASSUME NEW p \in Procs, Invalidate(p)
      PROVE  IndexTypes'
  <2>1. /\ index' = index /\ context' = StaleContext(context)
        /\ answer' = IF answer = "active" THEN "stale" ELSE answer
    BY <1>3 DEF Invalidate
  <2>2. context'.state \in {"stale", context.state}
    BY <2>1 DEF StaleContext, IndexShape
  <2> QED
    BY <2>1, <2>2 DEF IndexTypes
<1>4. CASE AskStep /\ UNCHANGED index
  <2>1. CASE Search \/ Hydrate
    BY <1>1, <1>4, <2>1 DEF Search, Hydrate
  <2>2. CASE RecordContext
    BY <1>4, <2>2 DEF RecordContext, IndexTypes
  <2>3. CASE SaveAnswer
    BY <1>4, <2>3 DEF SaveAnswer, IndexTypes
  <2> QED
    BY <1>4, <2>1, <2>2, <2>3 DEF AskStep
<1>5. CASE UNCHANGED vars
  BY <1>1, <1>5 DEF vars, retrieval
<1>6. CASE Next
  <2>1. CASE Edit /\ UNCHANGED <<config, index, knowledge, retrieval, quiet>>
    BY <1>1, <2>1 DEF retrieval
  <2>2. CASE ChangeConfig
    BY <1>1, <2>2 DEF ChangeConfig, retrieval
  <2>3. CASE \E p \in Procs :
               /\ ArchiveStep(p) \/ StartBuild(p) \/ StartRebuild(p)
               /\ UNCHANGED <<config, index, knowledge, retrieval, quiet>>
    BY <1>1, <2>3 DEF retrieval
  <2>4. CASE \E p \in Procs : IngestStep(p) /\ UNCHANGED <<config, retrieval>>
    BY <1>2, <2>4
  <2>5. CASE \E p \in Procs : Invalidate(p)
    BY <1>3, <2>5
  <2>6. CASE AskStep /\ UNCHANGED <<archiveVars, config, index, knowledge, quiet>>
    BY <1>4, <2>6
  <2> QED
    BY <1>6, <2>1, <2>2, <2>3, <2>4, <2>5, <2>6 DEF Next
<1> QED
  BY <1>5, <1>6

LEMMA ContentStep ==
    ASSUME ContentInv, [Next]_vars
    PROVE  ContentInv'
<1>0. /\ IngestionInv /\ ArchiveTypes /\ Numbering /\ RunInv /\ KnowledgeInv /\ IndexTypes
      /\ Shape /\ IndexShape
  BY DEF ContentInv, IngestionInv, SearchInv, ChainInv
<1>1. IngestionInv' /\ IndexTypes'
  BY <1>0, IngestionStep, IndexTypesStay
<1> DEFINE Kept == ArchiveTypes' /\ Numbering' /\ RunInv' /\ KnowledgeInv'
<1> SUFFICES Kept
  BY <1>1 DEF ContentInv
<1>2. ASSUME NEW p \in Procs, ArchiveStep(p) \/ StartBuild(p) \/ StartRebuild(p),
             UNCHANGED <<config, knowledge>>
      PROVE  Kept
  BY <1>0, <1>2, ArchivingKeepsContent
<1>3. ASSUME NEW p \in Procs, IngestStep(p) \/ Invalidate(p), config' = config
      PROVE  Kept
  BY <1>0, <1>3, IngestingKeepsContent
<1>4. CASE Edit /\ UNCHANGED <<config, index, knowledge, retrieval, quiet>>
  <2>1. /\ UNCHANGED <<blobs, snaps, src, receipts, proc, commands, limit, knowledge>>
        /\ config' \in Configs
    BY <1>0, <1>4 DEF Edit, RunInv
  <2> QED
    BY <1>0, <1>4, <2>1, EditKeepsFiles, OutsideKeepsContent
<1>5. CASE ChangeConfig
  <2>1. /\ UNCHANGED <<blobs, snaps, src, receipts, proc, commands, limit, knowledge>>
        /\ file' \in [Paths -> 0 .. MaxContent]
    BY <1>0, <1>5 DEF ChangeConfig, archiveVars, ArchiveTypes
  <2> QED
    BY <1>0, <1>5, <2>1, SettingsStay, OutsideKeepsContent
<1>6. CASE UNCHANGED <<archiveVars, config, knowledge>>
  <2>1. /\ UNCHANGED <<blobs, snaps, src, receipts, proc, commands, limit, knowledge>>
        /\ file' \in [Paths -> 0 .. MaxContent] /\ config' \in Configs
    BY <1>0, <1>6 DEF archiveVars, ArchiveTypes, RunInv
  <2> QED
    BY <1>0, <2>1, OutsideKeepsContent
<1>7. CASE UNCHANGED vars
  BY <1>6, <1>7 DEF vars
<1>8. CASE Next
  <2>1. CASE \E p \in Procs :
               /\ ArchiveStep(p) \/ StartBuild(p) \/ StartRebuild(p)
               /\ UNCHANGED <<config, index, knowledge, retrieval, quiet>>
    BY <1>2, <2>1
  <2>2. CASE \E p \in Procs : (IngestStep(p) \/ Invalidate(p)) /\ config' = config
    BY <1>3, <2>2
  <2>3. CASE AskStep /\ UNCHANGED <<archiveVars, config, index, knowledge, quiet>>
    BY <1>6, <2>3
  <2> HIDE DEF Kept
  <2> QED
    BY <1>8, <2>1, <2>2, <2>3, <1>4, <1>5 DEF Next
<1> QED
  BY <1>7, <1>8

LEMMA ContentAlways == Spec => []ContentInv
BY ContentInit, ContentStep, PTL DEF Spec

\* The fields have their types: in particular the chunks that a revision names and
\* those that a lineage joins are all there.
THEOREM WellFormed == Spec => []TypeOK
<1>1. ContentInv => TypeOK
  <2> SUFFICES ASSUME ContentInv PROVE TypeOK
    OBVIOUS
  <2>0. ArchiveTypes /\ RunInv /\ KnowledgeInv /\ IndexTypes /\ Chain /\ Shape
    BY DEF ContentInv, IngestionInv, SearchInv, ChainInv
  <2>1. /\ file \in [Paths -> 0 .. MaxContent] /\ blobs \in [Contents -> 0 .. MaxContent]
        /\ src.state \in {"none", "active", "failed"}
        /\ src.archive \in {"registered", "archiving", "published", "failed"}
        /\ src.ingestion \in {"not_started", "queued", "running", "ready", "failed"}
    BY <2>0 DEF ArchiveTypes, SrcStates, BlobRows
  <2>2. src.snap \in 0 .. Len(snaps)
    <3>1. src.snap = Len(snaps) /\ Len(snaps) \in Nat
      BY <2>0, SnapsLength DEF Chain
    <3> QED
      BY ONLY <3>1
  <2>3. \A p \in Procs : proc[p].pc \in PCs
    BY <2>0 DEF ArchiveTypes, CommandOk
  <2>4. \A r \in RunIds : runs[r].state \in {"none", "queued", "retrying", "ready", "failed"} \cup Stages
    BY <2>0 DEF RunInv, RunTables, RunStates
  <2>5. PICK k : k = kb
    OBVIOUS
  <2>6. Sound(k)
    BY <2>0, <2>5 DEF KnowledgeInv
  <2>7. \A r \in DOMAIN k.revs : ChunkIds(k, r) \subseteq DOMAIN k.chunks
    BY ONLY <2>6 DEF Sound, Chunked, ChunkIds
  <2>8. k.lineage \subseteq (DOMAIN k.chunks) \X (DOMAIN k.chunks)
    <3>1. k.lineage \subseteq Nat \X Nat
      BY ONLY <2>6 DEF Sound, Tables
    <3>2. \A l \in k.lineage : l[1] \in DOMAIN k.chunks /\ l[2] \in DOMAIN k.chunks
      BY ONLY <2>6 DEF Sound, Descended
    <3> QED
      BY ONLY <3>1, <3>2
  <2> QED
    BY <2>0, <2>1, <2>2, <2>3, <2>4, <2>5, <2>7, <2>8 DEF TypeOK, IndexTypes
<1> QED
  BY <1>1, ContentAlways, PTL

\* As long as snapshots are published in order, every active chunk is in the current
\* revision of its document, and that is not deleted, whatever files were written,
\* moved, removed or published again with other settings; and no revision has a chunk
\* beside the one that it was modified into.
THEOREM ChunksAreCurrent == Spec => []NoOrphanChunks
<1>1. ContentInv => NoOrphanChunks
  <2> SUFFICES ASSUME ContentInv PROVE NoOrphanChunks
    OBVIOUS
  <2>1. PICK k : k = kb
    OBVIOUS
  <2>2. Sound(k) /\ (inOrder => Mapped(k))
    BY <2>1 DEF ContentInv, KnowledgeInv
  <2>3. ASSUME Mapped(k)
        PROVE  /\ Unmapped(k) = {}
               /\ \A c \in DOMAIN k.chunks : k.chunks[c].state = "active" =>
                    k.docs[k.chunks[c].doc].state = "active"
    BY ONLY <2>3 DEF Mapped, Unmapped
  <2>4. \A r \in DOMAIN k.revs : \A l \in k.lineage :
          ~ (l[1] \in ChunkIds(k, r) /\ l[2] \in ChunkIds(k, r))
    BY ONLY <2>2 DEF Sound, Descended
  <2> QED
    BY <2>1, <2>2, <2>3, <2>4 DEF NoOrphanChunks
<1> QED
  BY <1>1, ContentAlways, PTL

\* A run that is ready has published, a batch that has its receipt has a run of its
\* snapshot that is ready, and when the current snapshot is ingested the current
\* revisions are exactly its files, after any throw, kill, retry, rename or rebuild.
THEOREM BuildsAreCurrent == Spec => []BuiltIsCurrent
<1>1. ContentInv => BuiltIsCurrent
  <2> SUFFICES ASSUME ContentInv PROVE BuiltIsCurrent
    OBVIOUS
  <2>0. RunInv /\ KnowledgeInv /\ Chain /\ Shape
    BY DEF ContentInv, IngestionInv, SearchInv, ChainInv
  <2>1. /\ \A r \in RunIds : runs[r].state = "ready" => runs[r].published
        /\ \A b \in Batches : receipts[b] # 0 => \E g \in Configs : runs[<<receipts[b], g>>].state = "ready"
    BY <2>0 DEF RunInv, ReadyOnes, ReceiptsProven
  <2>2. ASSUME inOrder, Built PROVE DocumentsMatch(src.snap)
    <3>1. PICK n, t, r, k, s : n = Len(snaps) /\ t = top /\ r = src.run /\ k = kb /\ s = src.snap
      OBVIOUS
    <3>2. n \in Nat /\ s = n /\ r[1] = s
      BY <2>0, <2>2, <3>1, SnapsLength DEF Chain, Built
    <3>3. r \in RunIds /\ NoLater(r, t)
      <4>1. src.run \in RunIds /\ runs[src.run].state = "ready"
        BY <2>0, <2>2 DEF Built, RunInv, SourceProven
      <4>2. runs[src.run].published
        BY <2>1, <4>1
      <4>3. NoLater(src.run, top)
        BY <2>0, <2>2, <4>1, <4>2 DEF RunInv, PublishedUntil
      <4> QED
        BY ONLY <3>1, <4>1, <4>3
    <3>4. t \in Nat \X Nat /\ r \in Nat \X Nat
      BY <2>0, <3>1, <3>3, RunIdsAreNumbers
    <3>5. r[1] >= 1
      BY <3>3, ArchiveBounds DEF RunIds
    <3>6. TopOk(t, n)
      BY <2>0, <3>1 DEF RunInv
    <3>7. t # <<0, 0>> /\ t[1] = s
      <4>1. r[1] <= t[1]
        BY ONLY <3>3, <3>4 DEF NoLater
      <4>2. t[1] <= n
        BY ONLY <3>2, <3>6 DEF TopOk
      <4> QED
        BY ONLY <3>2, <3>4, <3>5, <4>1, <4>2
    <3>8. PICK e, g : e = Entries(s) /\ g = t[2]
      OBVIOUS
    <3>9. Holds(k, e, g)
      BY <2>0, <2>2, <3>1, <3>7, <3>8 DEF KnowledgeInv
    <3>10. \A f \in Paths :
             LET live == {d \in DocumentsAt(k, f) : k.docs[d].state = "active"}
             IN IF e[f] = 0 THEN live = {}
                ELSE \E d \in live : k.revs[k.docs[d].rev].blob = e[f]
      <4>1. SUFFICES ASSUME NEW f \in Paths
                     PROVE  LET live == {d \in DocumentsAt(k, f) : k.docs[d].state = "active"}
                            IN IF e[f] = 0 THEN live = {}
                               ELSE \E d \in live : k.revs[k.docs[d].rev].blob = e[f]
        OBVIOUS
      <4> DEFINE live == {d \in DocumentsAt(k, f) : k.docs[d].state = "active"}
      <4>2. CASE e[f] = 0
        <5>1. \A d \in DocumentsAt(k, f) : k.docs[d].state # "active"
          BY ONLY <3>9, <4>2, f \in Paths DEF Holds
        <5>2. live = {}
          BY ONLY <5>1
        <5> QED
          BY <4>2, <5>2
      <4>3. CASE e[f] # 0
        <5>1. \E d \in DocumentsAt(k, f) : k.docs[d].state = "active" /\ Unchanged(k, d, g, e[f])
          BY ONLY <3>9, <4>3, f \in Paths DEF Holds, Shown
        <5>2. \E d \in live : k.revs[k.docs[d].rev].blob = e[f]
          BY ONLY <5>1 DEF Unchanged
        <5> QED
          BY <4>3, <5>2
      <4> QED
        BY <4>2, <4>3
    <3> QED
      BY <3>1, <3>8, <3>10 DEF DocumentsMatch
  <2> QED
    BY <2>1, <2>2 DEF BuiltIsCurrent
<1> QED
  BY <1>1, ContentAlways, PTL
=============================================================================
