------------------------------ MODULE Ingestion ------------------------------
(***************************************************************************)
(* From archived Snapshots to what searches and answers use.  A command    *)
(* that archived a Snapshot, `knowledge build` and `ingestion retry` run   *)
(* ingestSnapshot: stages of an IngestionRun, the publish transaction, the *)
(* text index, the invalidation of answers, and the completion of the run, *)
(* each a transaction of its own.  `ask` reads the index and the documents *)
(* in separate reads, calls a model, and saves its answer.                 *)
(*                                                                         *)
(* The refreshes of the vector space and of the graph that ingestSnapshot  *)
(* ends with are in VectorSpace and GraphGeneration.                       *)
(***************************************************************************)
EXTENDS SourceArchive

ASSUME SettingsAssumption ==
    /\ 1 \in Configs /\ Configs \subseteq Nat
    /\ \A l \in Limits : l.configs \in Nat /\ 1 .. l.configs \subseteq Configs

VARIABLES
    config,     \* the chunker settings in self.yaml
    runs,       \* ingestion_runs by snapshot and settings, their idempotency key
    kb,         \* documents, revisions and chunks
    index,      \* the active generation of the text index: number, rows
    renamed,    \* renames in connection_change_items, by snapshot
    ask,        \* a running ask
    context,    \* evidence_contexts: the latest one, and its rows
    answer,     \* answer_runs: the cache state of the latest one
    asks,
    top,        \* the latest snapshot and settings that were published
    inOrder,    \* no older snapshot or settings were published after them
    quiet       \* no ingestion has taken a step while an ask was running

knowledge == <<runs, kb, renamed, top, inOrder>>
retrieval == <<ask, context, answer, asks>>
vars == <<archiveVars, config, index, knowledge, retrieval, quiet>>

RunIds == (1 .. MaxCommands) \X Configs
NoAsk == [pc |-> "idle", found |-> {}, rows |-> {}]

Init ==
    /\ ArchiveInit
    /\ config = 1
    /\ runs = [r \in RunIds |-> [state |-> "none", published |-> FALSE]]
    /\ kb = EmptyKnowledge
    /\ index = [no |-> 0, rows |-> {}]
    /\ renamed = [s \in 1 .. MaxCommands |-> {}]
    /\ ask = NoAsk /\ asks = 0
    /\ context = [state |-> "none", rows |-> {}] /\ answer = "none"
    /\ top = <<0, 0>> /\ inOrder = TRUE /\ quiet = TRUE

Run(p) == <<proc[p].snap, proc[p].config>>
rest == <<tree, blobs, snaps, manifests, receipts, commands, faults, lone>>

\* self.yaml gets other chunker settings.
ChangeConfig ==
    /\ config < limit.configs /\ config' = config + 1
    /\ UNCHANGED <<archiveVars, index, knowledge, retrieval, quiet>>

(* commands that ingest without archiving *)

\* knowledge build of the candidates, of a Source, or of any Snapshot, and the
\* retry of a run that failed or was interrupted.
StartBuild(p) ==
    /\ \E s \in DOMAIN snaps : Started(p, [Idle EXCEPT !.pc = "ingest", !.snap = s])
    /\ UNCHANGED <<tree, blobs, snaps, manifests, src, receipts, faults>>

\* knowledge rebuild --layer fts.
StartRebuild(p) ==
    /\ index.no # 0
    /\ Started(p, [Idle EXCEPT !.pc = "rebuild"])
    /\ UNCHANGED <<tree, blobs, snaps, manifests, src, receipts, faults>>

(* ingestSnapshot *)

Reusable(r) == runs[r].state = "ready"

\* beginIngestionRun: a ready run is reused, any other starts over.
BeginRun(p) ==
    /\ At(p, "ingest")
    /\ LET r == <<proc[p].snap, config>>
           ready == Reusable(r)
       IN /\ Set(p, [proc[p] EXCEPT !.config = config,
                                    !.pc = IF ready THEN "reindex" ELSE "parsing"])
          /\ IF ready THEN UNCHANGED <<runs, src>>
             ELSE /\ runs' = [runs EXCEPT ![r].state =
                                IF @ = "none" THEN "queued" ELSE "retrying"]
                  /\ src' = [src EXCEPT !.ingestion = "queued", !.run = r]
    /\ UNCHANGED <<rest, index, kb, renamed, top, inOrder>>

\* markIngestionStage refuses a run that is ready.
Stages == {"parsing", "normalized", "chunked", "publishing"}
StageAfter == [s \in Stages |-> CASE s = "parsing" -> "parse"
                                  [] s = "normalized" -> "chunked"
                                  [] s = "chunked" -> "publishing"
                                  [] s = "publishing" -> "commit"]
MarkStage(p) ==
    /\ proc[p].pc \in Stages
    /\ IF runs[Run(p)].state = "ready"
       THEN Goto(p, "ingestFailed") /\ UNCHANGED <<runs, src>>
       ELSE /\ runs' = [runs EXCEPT ![Run(p)].state = proc[p].pc]
            /\ src' = IF src.run = Run(p) THEN [src EXCEPT !.ingestion = "running"] ELSE src
            /\ Goto(p, StageAfter[proc[p].pc])
    /\ UNCHANGED <<rest, index, kb, renamed, top, inOrder>>

\* getSnapshotEntries and parseSnapshotEntry: a file that cannot be parsed
\* fails the run.
ParseEntries(p) ==
    /\ At(p, "parse")
    /\ \/ Goto(p, "normalized") /\ UNCHANGED faults
       \/ /\ faults < limit.faults /\ faults' = faults + 1
          /\ Entries(proc[p].snap) # NoFiles
          /\ Goto(p, "ingestFailed")
    /\ UNCHANGED <<tree, blobs, snaps, manifests, src, receipts, commands, lone,
                   index, knowledge>>

\* publishKnowledgeSnapshot, with the renames that are recorded so far.
CommitPublication(p) ==
    /\ At(p, "commit")
    /\ LET s == proc[p].snap
           text == [f \in Paths |-> IF Entries(s)[f] = 0 THEN 0 ELSE blobs[Entries(s)[f]]]
       IN kb' = Publish(kb, s, proc[p].config, Entries(s), text, renamed[s])
    /\ runs' = [runs EXCEPT ![Run(p)].published = TRUE]
    /\ top' = Run(p)
    /\ inOrder' = (inOrder /\ \/ proc[p].snap > top[1]
                              \/ proc[p].snap = top[1] /\ proc[p].config >= top[2])
    /\ Goto(p, "index")
    /\ UNCHANGED <<rest, src, index, renamed>>

\* ingestSnapshot returns: a batch gets its receipt, other commands end.
Ingested(p) ==
    Set(p, IF proc[p].batch # NoBatch
           THEN [proc[p] EXCEPT !.rows = {}, !.hash = 0, !.pc = "receipt"] ELSE Idle)

\* Mutant: only the rows of revisions that the snapshot made.
RowsOfSnapshot(p) == {row \in ActiveRows(kb) : kb.revs[row[2]].snap = proc[p].snap}
IndexRows(p) == ActiveRows(kb)

\* syncFtsForSource reads the rows before its transaction; without an active
\* generation, and on request, rebuildFtsIndex builds another one.
ReadIndexRows(p) ==
    /\ proc[p].pc \in {"index", "reindex", "rebuild"}
    /\ Set(p, [proc[p] EXCEPT
         !.rows = IndexRows(p), !.hash = index.no,
         !.pc = CASE @ = "index" -> "write" [] @ = "reindex" -> "rewrite"
                  [] @ = "rebuild" -> "swap"])
    /\ UNCHANGED <<rest, src, index, knowledge>>

\* The rows go to the generation that was active when they were read.
WriteIndexRows(p) ==
    /\ proc[p].pc \in {"write", "rewrite", "swap"}
    /\ index' = IF At(p, "swap") \/ proc[p].hash = 0
                THEN [no |-> index.no + 1, rows |-> proc[p].rows]
                ELSE IF proc[p].hash = index.no THEN [index EXCEPT !.rows = proc[p].rows]
                ELSE index
    /\ IF At(p, "write")
       THEN Set(p, [proc[p] EXCEPT !.rows = {}, !.hash = 0, !.pc = "invalidate"])
       ELSE Ingested(p)
    /\ UNCHANGED <<rest, src, knowledge>>

\* Mutant: only the answers are marked, not the contexts they cite.
KeptContext(c) == c
StaleContext(c) == [c EXCEPT !.state = IF @ = "active" THEN "stale" ELSE @]

\* invalidateActiveAnswers.
Invalidate(p) ==
    /\ At(p, "invalidate")
    /\ context' = StaleContext(context)
    /\ answer' = IF answer = "active" THEN "stale" ELSE answer
    /\ Goto(p, "complete")
    /\ UNCHANGED <<rest, src, index, knowledge, ask, asks>>

\* completeIngestionRun: only a publishing run becomes ready.
CompleteRun(p) ==
    /\ At(p, "complete")
    /\ IF runs[Run(p)].state = "publishing"
       THEN /\ runs' = [runs EXCEPT ![Run(p)].state = "ready"]
            /\ src' = [src EXCEPT !.ingestion = "ready", !.run = Run(p)]
            /\ Ingested(p)
       ELSE Goto(p, "ingestFailed") /\ UNCHANGED <<runs, src>>
    /\ UNCHANGED <<rest, index, kb, renamed, top, inOrder>>

\* failIngestionRun leaves a ready run alone.
FailRun(p) ==
    /\ At(p, "ingestFailed")
    /\ IF runs[Run(p)].state = "ready" THEN UNCHANGED <<runs, src>>
       ELSE /\ runs' = [runs EXCEPT ![Run(p)].state = "failed"]
            /\ src' = [src EXCEPT !.ingestion = "failed", !.run = Run(p)]
    /\ Set(p, Idle)
    /\ UNCHANGED <<rest, index, kb, renamed, top, inOrder>>

\* recordSourceBatchReceipt, ON CONFLICT DO NOTHING.
RecordReceipt(p) ==
    /\ At(p, "receipt")
    /\ receipts' = [receipts EXCEPT ![proc[p].batch] = IF @ = 0 THEN proc[p].snap ELSE @]
    /\ Goto(p, "scanned")
    /\ UNCHANGED <<tree, blobs, snaps, manifests, src, commands, faults, lone,
                   index, knowledge>>

\* The renames a scan reports between two snapshots.
Renames(s) ==
    LET old == Entries(snaps[s].prev)  new == snaps[s].entries
    IN {r \in Paths \X Paths : /\ old[r[1]] # 0 /\ new[r[1]] = 0
                               /\ old[r[2]] = 0 /\ new[r[2]] = old[r[1]]}

\* completeScan stores the snapshot of the change items of the batch.
RecordRenames(p) ==
    /\ At(p, "scanned")
    /\ renamed' = [renamed EXCEPT ![proc[p].snap] = Renames(proc[p].snap)]
    /\ Set(p, Idle)
    /\ UNCHANGED <<rest, src, index, runs, kb, top, inOrder>>

IngestThrows(p) ==
    /\ proc[p].pc \in Stages \cup {"commit", "index", "write", "invalidate", "complete"}
    /\ faults < limit.faults /\ faults' = faults + 1
    /\ Set(p, [proc[p] EXCEPT !.pc = "ingestFailed", !.rows = {}, !.hash = 0])
    /\ UNCHANGED <<tree, blobs, snaps, manifests, src, receipts, commands, lone,
                   index, knowledge>>

IngestStep(p) ==
    \/ BeginRun(p) \/ MarkStage(p) \/ ParseEntries(p) \/ CommitPublication(p)
    \/ ReadIndexRows(p) \/ WriteIndexRows(p) \/ CompleteRun(p) \/ FailRun(p)
    \/ RecordReceipt(p) \/ RecordRenames(p) \/ IngestThrows(p)

(* ask *)

\* searchFts of the active generation.
Search ==
    /\ ask.pc = "idle" /\ asks < limit.asks /\ index.no # 0
    /\ asks' = asks + 1
    /\ ask' = [pc |-> "hydrate", found |-> {row[1] : row \in index.rows}, rows |-> {}]
    /\ UNCHANGED <<context, answer>>

\* hydrateCandidates drops what is not current any more.
Hydrate ==
    /\ ask.pc = "hydrate"
    /\ ask' = [pc |-> "record", found |-> {},
               rows |-> {row \in ActiveRows(kb) : row[1] \in ask.found}]
    /\ UNCHANGED <<context, answer, asks>>

\* createRetrievalRecords, and without evidence a standard answer at once.
RecordContext ==
    /\ ask.pc = "record"
    /\ context' = [state |-> "active", rows |-> ask.rows]
    /\ ask' = [ask EXCEPT !.pc = "answer"]
    /\ answer' = "none"
    /\ UNCHANGED asks

\* saveAnswer, or a model that is missing, fails or is not grounded.
SaveAnswer ==
    /\ ask.pc = "answer"
    /\ answer' \in {"active"} \cup (IF ask.rows = {} THEN {} ELSE {"none"})
    /\ ask' = NoAsk
    /\ UNCHANGED <<context, asks>>

AskStep == Search \/ Hydrate \/ RecordContext \/ SaveAnswer

Next ==
    \/ Edit /\ UNCHANGED <<config, index, knowledge, retrieval, quiet>>
    \/ ChangeConfig
    \/ \E p \in Procs :
         \/ ArchiveStep(p) /\ UNCHANGED <<config, index, knowledge, retrieval, quiet>>
         \/ StartBuild(p) /\ UNCHANGED <<config, index, knowledge, retrieval, quiet>>
         \/ StartRebuild(p) /\ UNCHANGED <<config, index, knowledge, retrieval, quiet>>
         \/ /\ IngestStep(p) /\ UNCHANGED <<config, retrieval>>
            /\ quiet' = (quiet /\ ask.pc = "idle")
         \/ /\ Invalidate(p) /\ UNCHANGED config
            /\ quiet' = (quiet /\ ask.pc = "idle")
    \/ AskStep /\ UNCHANGED <<archiveVars, config, index, knowledge, quiet>>

Spec == Init /\ [][Next]_vars

(* properties *)

PCs == {"idle", "find", "register", "mark", "list", "hash", "copy", "compare", "number",
        "unchanged", "manifest", "publish", "archiveFailed", "ingest", "reindex",
        "rewrite", "rebuild", "swap", "parse", "commit", "index", "write", "invalidate",
        "complete", "ingestFailed", "receipt", "scanned"} \cup Stages
TypeOK ==
    /\ file \in [Paths -> 0 .. MaxContent] /\ blobs \in [Contents -> 0 .. MaxContent]
    /\ src.state \in {"none", "active", "failed"}
    /\ src.archive \in {"registered", "archiving", "published", "failed"}
    /\ src.ingestion \in {"not_started", "queued", "running", "ready", "failed"}
    /\ src.snap \in 0 .. Len(snaps)
    /\ \A p \in Procs : proc[p].pc \in PCs
    /\ \A r \in RunIds : runs[r].state \in
         {"none", "queued", "retrying", "ready", "failed"} \cup Stages
    /\ \A r \in DOMAIN kb.revs : ChunkIds(kb, r) \subseteq DOMAIN kb.chunks
    /\ kb.lineage \subseteq (DOMAIN kb.chunks) \X (DOMAIN kb.chunks)
    /\ index.no \in Nat /\ context.state \in {"none", "active", "stale"}
    /\ answer \in {"none", "active", "stale"}

\* However archives overlap, fail and are killed, the snapshots of a Source are
\* one chain without gaps or forks, and the current one is its last.  When
\* commands run one after another, the manifest file of a sequence is the one
\* its snapshot was published with, and the changes stored with a snapshot were
\* computed against the snapshot it follows.
SnapshotsAreAChain ==
    /\ \A s \in DOMAIN snaps : snaps[s].seq = s /\ snaps[s].prev = s - 1
    /\ src.snap = Len(snaps)
    /\ lone => \A s \in DOMAIN snaps :
         /\ manifests[snaps[s].seq] # snaps[s].by => \E p \in Procs : proc[p].pc = "publish"
         /\ snaps[s].base = Entries(snaps[s].prev)

\* verifyKnowledge: as long as snapshots are published in order, every active
\* chunk is in the current revision of its document, and that is not deleted.
\* And a chunk that was modified into another is not kept beside it: no revision
\* has both.
NoOrphanChunks ==
    /\ inOrder => /\ Unmapped(kb) = {}
                  /\ \A c \in DOMAIN kb.chunks : kb.chunks[c].state = "active" =>
                         kb.docs[kb.chunks[c].doc].state = "active"
    /\ \A r \in DOMAIN kb.revs : \A l \in kb.lineage :
         ~ (l[1] \in ChunkIds(kb, r) /\ l[2] \in ChunkIds(kb, r))

AtRest == Busy = {}
DocumentsMatch(s) ==
    \A f \in Paths :
        LET live == {d \in DocumentsAt(kb, f) : kb.docs[d].state = "active"}
        IN IF Entries(s)[f] = 0 THEN live = {}
           ELSE \E d \in live : kb.revs[kb.docs[d].rev].blob = Entries(s)[f]

Built == src.ingestion = "ready" /\ src.run[1] = src.snap

\* A run that is ready has published, and a batch whose receipt says it was
\* accepted has a run of its snapshot that is ready, whoever shared the run.
\* As long as snapshots are published in order, once the current snapshot is
\* ingested, the current revisions are its files, after any throw, kill, retry,
\* rename or rebuild, and however commands overlap.
BuiltIsCurrent ==
    /\ \A r \in RunIds : runs[r].state = "ready" => runs[r].published
    /\ \A b \in Batches : receipts[b] # 0 => \E g \in Configs : runs[<<receipts[b], g>>].state = "ready"
    /\ inOrder /\ Built => DocumentsMatch(src.snap)

\* Once ingestion is ready, the text index has the rows a search may return.
ReadyIsSearchable ==
    lone /\ AtRest /\ src.ingestion = "ready" => index.rows = ActiveRows(kb)

\* Once ingestion is ready, an answer that counts as valid, or a context a new
\* one could be built from, cites nothing that has been replaced since.
ReadyAnswersAreCurrent ==
    /\ lone /\ quiet /\ AtRest /\ src.ingestion = "ready" /\ ask.pc = "idle"
    /\ context.state = "active" \/ answer = "active"
    => context.rows \subseteq ActiveRows(kb)

\* The texts of the active chunks at a path, and those that a build from nothing
\* of the file gives.
ActiveTexts(f) == {kb.chunks[row[1]].text : row \in
                     {w \in ActiveRows(kb) : kb.docs[kb.chunks[w[1]].doc].path = f}}
FreshTexts(f) == LET e == Entries(src.snap)[f]
                 IN IF e = 0 THEN {} ELSE {x.text : x \in Range(ChunksOf[e, src.run[2]])}

\* docs/domains/knowledge/workflows.md: the incremental path has the content
\* that a full build from the final files has.
IncrementalEqualsFull ==
    lone /\ inOrder /\ AtRest /\ Built =>
        \A f \in Paths : ActiveTexts(f) = FreshTexts(f)
=============================================================================
