---------------------------- MODULE SourceArchive ----------------------------
(***************************************************************************)
(* One Source: a directory that users edit, the Blob files, the numbered   *)
(* Snapshots with their manifest files, and the row of the Source.         *)
(*                                                                         *)
(* Every process runs one command at a time: source add, source sync or    *)
(* retry, or the acceptance of a batch of Connection changes.  A command   *)
(* reads each file twice, to hash it and to copy it, reads the current     *)
(* Snapshot twice, to compare and to number the next one, and writes the   *)
(* manifest file before the transaction.  Any step may throw or be killed. *)
(***************************************************************************)
EXTENDS KnowledgePublisher

CONSTANTS
    Procs,         \* processes, each with a command of its own
    Batches,       \* connection_change_batches that may be accepted
    InitialFiles,  \* the paths present at first, with content 1
    MaxCommands,   \* bound: commands that are started
    Limits         \* bounds of a behaviour, one of: the commands at a time, the
                   \* edits, the commands, the commands that throw or are killed,
                   \* the chunker settings, the asks

ASSUME ArchiveBounds ==
    /\ MaxCommands \in Nat \ {0}
    /\ \A l \in Limits : l.busy \in Nat /\ l.commands \in 0 .. MaxCommands

VARIABLES
    file,       \* the directory: the content of each path, 0 if absent
    blobs,      \* content/sources/blobs: what the file named by each hash holds
    snaps,      \* source_snapshots by id, with their entries
    manifests,  \* the command that wrote the manifest file of each sequence
    src,        \* the row of sources
    receipts,   \* source_batch_receipts: the snapshot of each batch, 0 if none
    proc,       \* the command of each process and its local variables
    edits, commands, faults, limit,
    lone        \* no two commands have overlapped, and no file changed under one

tree == <<file, edits, limit>>
archiveVars == <<file, blobs, snaps, manifests, src, receipts, proc, edits, commands,
                 faults, limit, lone>>

NoFiles == [f \in Paths |-> 0]
NoBatch == 0

\* todo: paths to archive yet; hash: the hash of the file in hand; copy: what is
\* archived; base: the entries compared with; prev: the snapshot numbered after.
Idle == [pc |-> "idle", no |-> 0, build |-> FALSE, batch |-> NoBatch,
         todo |-> {}, hash |-> 0, copy |-> NoFiles, base |-> NoFiles, prev |-> 0,
         snap |-> 0, config |-> 0, rows |-> {}]

NewSource == [state |-> "none", archive |-> "registered", snap |-> 0,
              ingestion |-> "not_started", run |-> <<0, 0>>]

ArchiveInit ==
    /\ file = [f \in Paths |-> IF f \in InitialFiles THEN 1 ELSE 0]
    /\ blobs = [c \in Contents |-> 0]
    /\ snaps = <<>> /\ manifests = [n \in 1 .. MaxCommands |-> 0]
    /\ src = NewSource
    /\ receipts = [b \in Batches |-> 0]
    /\ proc = [p \in Procs |-> Idle]
    /\ edits = 0 /\ commands = 0 /\ faults = 0 /\ lone = TRUE
    /\ limit \in Limits

Busy == {p \in Procs : proc[p].pc # "idle"}
Entries(s) == IF s = 0 THEN NoFiles ELSE snaps[s].entries
Sequence(s) == IF s = 0 THEN 0 ELSE snaps[s].seq
Listed == {f \in Paths : file[f] # 0}

At(p, pc) == proc[p].pc = pc
Set(p, r) == proc' = [proc EXCEPT ![p] = r]
Goto(p, pc) == Set(p, [proc[p] EXCEPT !.pc = pc])

\* A user writes, removes or moves a file.
Edit ==
    /\ edits < limit.edits
    /\ \/ \E f \in Paths, c \in 0 .. MaxContent :
            file[f] # c /\ file' = [file EXCEPT ![f] = c]
       \/ \E f, t \in Paths :
            /\ file[f] # 0 /\ file[t] = 0
            /\ file' = [file EXCEPT ![f] = 0, ![t] = file[f]]
    /\ edits' = edits + 1
    /\ lone' = (lone /\ Busy = {})
    /\ UNCHANGED <<blobs, snaps, manifests, src, receipts, proc, commands, faults, limit>>

\* A command begins on an idle process.
Started(p, r) ==
    /\ At(p, "idle") /\ Cardinality(Busy) < limit.busy /\ commands < limit.commands
    /\ Set(p, [r EXCEPT !.no = commands + 1])
    /\ commands' = commands + 1
    /\ lone' = (lone /\ Busy = {})

\* source add: the files are listed before the Source is looked up.
StartAdd(p) ==
    /\ \E build \in BOOLEAN :
         Started(p, [Idle EXCEPT !.build = build, !.todo = Listed, !.pc = "find"])
    /\ UNCHANGED <<tree, blobs, snaps, manifests, src, receipts, faults>>

\* findSourceByIdentity and registerSource; a concurrent add with the same
\* identity may have registered the Source first.
FindSource(p) ==
    /\ At(p, "find")
    /\ Goto(p, IF src.state = "none" THEN "register" ELSE "mark")
    /\ UNCHANGED <<tree, blobs, snaps, manifests, src, receipts, commands, faults, lone>>

RegisterSource(p) ==
    /\ At(p, "register")
    /\ src' = IF src.state = "none" THEN [src EXCEPT !.state = "active"] ELSE src
    /\ Goto(p, "mark")
    /\ UNCHANGED <<tree, blobs, snaps, manifests, receipts, commands, faults, lone>>

\* source sync, and source retry, which adds that the Source failed.  getSource.
StartSync(p) ==
    /\ src.state # "none"
    /\ Started(p, [Idle EXCEPT !.build = TRUE, !.pc = "list"])
    /\ UNCHANGED <<tree, blobs, snaps, manifests, src, receipts, faults>>

\* acceptSourceChangeBatch: a batch that has its receipt is not archived again.
StartAccept(p) ==
    /\ src.state # "none"
    /\ \E b \in Batches :
         LET s == receipts[b]
             r == [Idle EXCEPT !.build = TRUE, !.batch = b]
         IN Started(p, IF s # 0 THEN [r EXCEPT !.pc = "ingest", !.snap = s]
                       ELSE [r EXCEPT !.pc = "list"])
    /\ UNCHANGED <<tree, blobs, snaps, manifests, src, receipts, faults>>

\* readSourceSpec lists the files; their contents are read later.
ListFiles(p) ==
    /\ At(p, "list")
    /\ Set(p, [proc[p] EXCEPT !.pc = "mark", !.todo = Listed])
    /\ UNCHANGED <<tree, blobs, snaps, manifests, src, receipts, commands, faults, lone>>

MarkArchiving(p) ==
    /\ At(p, "mark")
    /\ src' = [src EXCEPT !.state = "active", !.archive = "archiving"]
    /\ Goto(p, IF proc[p].todo = {} THEN "compare" ELSE "hash")
    /\ UNCHANGED <<tree, blobs, snaps, manifests, receipts, commands, faults, lone>>

\* persistEntry, first read: the hash names the Blob.  The file may be gone.
HashFile(p) ==
    /\ At(p, "hash")
    /\ LET f == Min2(proc[p].todo)
       IN Set(p, IF file[f] = 0 THEN [proc[p] EXCEPT !.pc = "archiveFailed"]
                 ELSE [proc[p] EXCEPT !.pc = "copy", !.hash = file[f]])
    /\ UNCHANGED <<tree, blobs, snaps, manifests, src, receipts, commands, faults, lone>>

\* Second read: a Blob that is there must have its hash, another is copied from
\* the file, whatever it holds now.
CopyFile(p) ==
    /\ At(p, "copy")
    /\ LET f == Min2(proc[p].todo)
           h == proc[p].hash
           left == proc[p].todo \ {f}
           missing == blobs[h] = 0
       IN IF IF missing THEN file[f] = 0 ELSE blobs[h] # h
          THEN Goto(p, "archiveFailed") /\ UNCHANGED blobs
          ELSE /\ blobs' = IF missing THEN [blobs EXCEPT ![h] = file[f]] ELSE blobs
               /\ Set(p, [proc[p] EXCEPT !.pc = IF left = {} THEN "compare" ELSE "hash",
                                         !.todo = left, !.hash = 0, !.copy[f] = h])
    /\ UNCHANGED <<tree, snaps, manifests, src, receipts, commands, faults, lone>>

\* getSnapshotEntries of the current snapshot.
Compare(p) ==
    /\ At(p, "compare")
    /\ Set(p, [proc[p] EXCEPT !.pc = "number", !.base = Entries(src.snap)])
    /\ UNCHANGED <<tree, blobs, snaps, manifests, src, receipts, commands, faults, lone>>

\* getSourceSnapshotSummary: another read, of what is current now.
Number(p) ==
    /\ At(p, "number")
    /\ LET same == src.snap # 0 /\ proc[p].base = proc[p].copy
       IN Set(p, [proc[p] EXCEPT !.pc = IF same THEN "unchanged" ELSE "manifest",
                                 !.prev = src.snap])
    /\ UNCHANGED <<tree, blobs, snaps, manifests, src, receipts, commands, faults, lone>>

\* The snapshot of a finished archive goes to ingestion unless --no-build.
Archived(p, s) ==
    Set(p, IF proc[p].build
           THEN [Idle EXCEPT !.pc = "ingest", !.batch = proc[p].batch, !.snap = s]
           ELSE Idle)

FinishUnchanged(p) ==
    /\ At(p, "unchanged")
    /\ src' = [src EXCEPT !.state = "active", !.archive = "published"]
    /\ Archived(p, proc[p].prev)
    /\ UNCHANGED <<tree, blobs, snaps, manifests, receipts, commands, faults, lone>>

NextSequence(p) == Sequence(proc[p].prev) + 1

\* The manifest file of the next sequence is replaced if it is there.
WriteManifest(p) ==
    /\ At(p, "manifest")
    /\ manifests' = [manifests EXCEPT ![NextSequence(p)] = proc[p].no]
    /\ Goto(p, "publish")
    /\ UNCHANGED <<tree, blobs, snaps, src, receipts, commands, faults, lone>>

\* UNIQUE(source_id, sequence) of source_snapshots.
\* Mutant: the constraint is missing.
AnySequence(n) == TRUE
FreeSequence(n) == \A s \in DOMAIN snaps : snaps[s].seq # n

PublishSnapshot(p) ==
    /\ At(p, "publish")
    /\ IF FreeSequence(NextSequence(p))
       THEN /\ snaps' = Append(snaps, [seq |-> NextSequence(p), prev |-> proc[p].prev,
                                       entries |-> proc[p].copy, base |-> proc[p].base,
                                       by |-> proc[p].no])
            /\ src' = [src EXCEPT !.snap = Len(snaps) + 1, !.state = "active",
                                  !.archive = "published", !.ingestion = "not_started",
                                  !.run = <<0, 0>>]
            /\ Archived(p, Len(snaps) + 1)
       ELSE Goto(p, "archiveFailed") /\ UNCHANGED <<snaps, src>>
    /\ UNCHANGED <<tree, blobs, manifests, receipts, commands, faults, lone>>

\* markSourceFailed, whatever the state has become meanwhile.
MarkFailed(p) ==
    /\ At(p, "archiveFailed")
    /\ src' = [src EXCEPT !.state = "failed", !.archive = "failed"]
    /\ Set(p, Idle)
    /\ UNCHANGED <<tree, blobs, snaps, manifests, receipts, commands, faults, lone>>

Archiving == {"list", "hash", "copy", "compare", "number", "unchanged", "manifest", "publish"}

\* A step throws (the disk, the database), or the process is killed.
ArchiveThrows(p) ==
    /\ proc[p].pc \in Archiving /\ faults < limit.faults
    /\ faults' = faults + 1
    /\ Goto(p, "archiveFailed")
    /\ UNCHANGED <<tree, blobs, snaps, manifests, src, receipts, commands, lone>>

Kill(p) ==
    /\ ~ At(p, "idle") /\ faults < limit.faults
    /\ faults' = faults + 1
    /\ Set(p, Idle)
    /\ UNCHANGED <<tree, blobs, snaps, manifests, src, receipts, commands, lone>>

ArchiveStep(p) ==
    \/ StartAdd(p) \/ FindSource(p) \/ RegisterSource(p) \/ StartSync(p)
    \/ StartAccept(p) \/ ListFiles(p) \/ MarkArchiving(p) \/ HashFile(p)
    \/ CopyFile(p) \/ Compare(p) \/ Number(p) \/ FinishUnchanged(p)
    \/ WriteManifest(p) \/ PublishSnapshot(p) \/ MarkFailed(p)
    \/ ArchiveThrows(p) \/ Kill(p)
=============================================================================
