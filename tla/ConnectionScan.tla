---------------------------- MODULE ConnectionScan ----------------------------
(***************************************************************************)
(* One Connection: an external directory, the observations the database    *)
(* keeps of it, and the Source that archives it.                           *)
(*                                                                         *)
(* A scan reads the directory file by file, classifies the difference to   *)
(* the observations, persists it as change batches, has the Source archive *)
(* the directory (which reads every file AGAIN) and ingest the snapshot,   *)
(* and then advances the observations.  Users edit the files at any time,  *)
(* any step may throw or be killed, and the connection may be paused while *)
(* a scan runs.                                                            *)
(*                                                                         *)
(* Scans do not overlap: one command or one daemon works at a time.  The   *)
(* target is external, so no managed write receipt applies to it and       *)
(* consumeManagedWriteReceipts changes nothing.                            *)
(***************************************************************************)
EXTENDS Naturals, Sequences, FiniteSets

CONSTANTS
    Files,         \* relative paths, numbered in the order the code sorts them
    InitialFiles,  \* the paths present when the connection is added
    BatchSizes,    \* possible values of resource_policy.max_batch_size
    MaxEdits,      \* bound: edits that give every path they touch a new content
    MaxReverts,    \* bound: edits that give a path a content it had before
    MaxFaults      \* bound: scans that throw or are killed

ASSUME FilesAssumption ==
    /\ IsFiniteSet(Files) /\ Files = 1 .. Cardinality(Files)
    /\ InitialFiles \subseteq Files
ASSUME BatchSizeAssumption == BatchSizes \subseteq Nat \ {0} /\ BatchSizes # {}
ASSUME BoundAssumption ==
    MaxEdits \in Nat /\ MaxReverts \in Nat /\ MaxFaults \in Nat

VARIABLES
    file,       \* the directory: content and inode of each path
    past,       \* the contents each path has had (0 once it was removed)
    obs,        \* connection_observations, by path
    succeeded,  \* the batches in state succeeded
    receipts,   \* the batches with a row in source_batch_receipts
    archived,   \* the entries of the Source's current snapshot
    conn,       \* the columns of data_connections that scheduling reads
    openScan,   \* a scan run is in an unfinished state
    interrupted,\* a scan run bears connection_scan_interrupted
    pc, cmd,    \* the next step, and the command it belongs to
    left,       \* the files the running step has still to read
    inv,        \* the inventory of the running scan
    copy,       \* the entries the Source has read for a new snapshot
    changes, pending,   \* the classification of the running scan
    keys,       \* the batches of the running scan, in order
    queue,      \* the slices of changes that are not persisted yet
    batchSize,  \* max_batch_size of this connection
    edits, reverts, crashes, failures   \* how often each of these has happened

tree  == <<file, past, edits, reverts>>
work  == <<left, inv, copy, changes, pending, keys, queue>>
store == <<obs, succeeded, receipts, archived, conn, openScan, interrupted>>
fixed == <<batchSize, crashes, failures>>
vars  == <<tree, store, pc, cmd, work, fixed>>

Contents == 0 .. MaxEdits + 1      \* 0: there is no such file
Absent   == [c |-> 0, i |-> 0]
Entry    == [c : Contents, i : 0 .. Cardinality(Files)]
NoRow    == [state |-> "none", hash |-> 0, ino |-> 0]
Row      == [state : {"none", "active", "missing", "overdue", "deleted"},
             hash : Contents, ino : 0 .. Cardinality(Files)]
Change   == [kind : {"created", "modified", "deleted", "renamed", "restored"},
             path : Files, from : Files \cup {0}, hash : Contents]

Uncopied == [f \in Files |-> 0]
Unread == [f \in Files |-> Absent]
Present(tr) == {f \in Files : tr[f].c # 0}

\* connection add: the Source has its first snapshot before the connection
\* row exists; then the initial scan starts, unless --paused was given.
Init ==
    /\ file = [f \in Files |-> IF f \in InitialFiles THEN [c |-> 1, i |-> f] ELSE Absent]
    /\ past = [f \in Files |-> {file[f].c} \ {0}]
    /\ obs = [f \in Files |-> NoRow]
    /\ succeeded = {} /\ receipts = {}
    /\ archived = [f \in Files |-> file[f].c]
    /\ \/ /\ conn = [state |-> "initializing", due |-> TRUE]
          /\ pc = "start" /\ cmd = "initial"
       \/ /\ conn = [state |-> "paused", due |-> FALSE]
          /\ pc = "idle" /\ cmd = "manual"
    /\ openScan = FALSE /\ interrupted = FALSE
    /\ left = {} /\ inv = Unread /\ copy = Uncopied
    /\ changes = {} /\ pending = {} /\ keys = <<>> /\ queue = <<>>
    /\ batchSize \in BatchSizes
    /\ edits = 0 /\ reverts = 0 /\ crashes = 0 /\ failures = 0

-----------------------------------------------------------------------------
(* classifyChanges and the slicing into batches                            *)

Matched(tr) == {f \in Present(tr) : obs[f].state # "none"}
Vanished(tr) == {f \in Files \ Present(tr) : obs[f].state \notin {"none", "deleted"}}

\* uniqueRename: the same inode if exactly one candidate has it, otherwise
\* the same content if exactly one candidate has it.
RenameSource(tr, g, candidates) ==
    LET sameInode == {f \in candidates : obs[f].ino = tr[g].i}
        sameHash  == {f \in candidates : obs[f].hash = tr[g].c}
    IN IF Cardinality(sameInode) = 1 THEN sameInode
       ELSE IF Cardinality(sameHash) = 1 THEN sameHash ELSE {}

NewPaths(tr) == {g \in Present(tr) : obs[g].state = "none"}

\* New paths are looked at in order; a vanished row is matched at most once.
\* from: what the paths before g have taken.
Taken(tr, from, g) ==
    LET earlier == {h \in NewPaths(tr) : h < g}
    IN IF g \in NewPaths(tr)
       THEN RenameSource(tr, g, Vanished(tr) \ UNION {from[h] : h \in earlier}) ELSE {}

Renames(tr) ==
    LET from[g \in Files] == Taken(tr, from, g) IN [g \in NewPaths(tr) |-> from[g]]

Classify(tr) ==
    LET ren == Renames(tr)
        moved == UNION {ren[g] : g \in DOMAIN ren}
        item(kind, f, from, hash) == [kind |-> kind, path |-> f, from |-> from, hash |-> hash]
        gone == Vanished(tr) \ moved
    IN [changes |->
            {item("restored", f, 0, tr[f].c) :
                f \in {f \in Matched(tr) : obs[f].state = "deleted"}}
            \cup {item("modified", f, 0, tr[f].c) :
                f \in {f \in Matched(tr) : obs[f].state # "deleted" /\ obs[f].hash # tr[f].c}}
            \cup (UNION {{item("renamed", g, f, tr[g].c) : f \in ren[g]} : g \in DOMAIN ren})
            \cup {item("created", g, 0, tr[g].c) : g \in {g \in DOMAIN ren : ren[g] = {}}}
            \cup {item("deleted", f, 0, 0) : f \in {f \in gone : obs[f].state = "overdue"}},
        pending |-> {f \in gone : obs[f].state # "overdue"}]

\* The changes sorted by path, cut after every batchSize of them.
Rank(ch, cs) == Cardinality({d \in cs : d.path < ch.path})
Slices(cs) ==
    LET count == (Cardinality(cs) + batchSize - 1) \div batchSize
    IN [n \in 1 .. count |-> {ch \in cs : Rank(ch, cs) \div batchSize = n - 1}]

-----------------------------------------------------------------------------
(* Starting and leaving commands                                           *)

Goto(l) == pc' = l

\* A command returns or throws: its variables go out of scope.
Finish(l) ==
    /\ Goto(l)
    /\ left' = {} /\ inv' = Unread /\ copy' = Uncopied
    /\ changes' = {} /\ pending' = {} /\ keys' = <<>> /\ queue' = <<>>

Return == Finish(IF cmd = "schedule" THEN "daemon" ELSE "idle")

\* connection scan, with or without --dry-run.
StartManual(c) ==
    /\ pc = "idle"
    /\ cmd' = c
    /\ Goto("start")
    /\ UNCHANGED <<tree, store, work, fixed>>

\* setConnectionState
SetState(s) == conn' = [state |-> s, due |-> s = "active"]

\* connection pause: one transaction, at any time.
Pause ==
    /\ SetState("paused")
    /\ UNCHANGED <<tree, obs, succeeded, receipts, archived, openScan,
                   interrupted, pc, cmd, work, fixed>>

\* connection resume, and connection retry of a degraded connection.
StartResume ==
    /\ pc = "idle"
    /\ \/ cmd' = "manual"
       \/ conn.state = "degraded" /\ cmd' = "recovery"
    /\ SetState("active")
    /\ Goto("start")
    /\ UNCHANGED <<tree, obs, succeeded, receipts, archived, openScan,
                   interrupted, work, fixed>>

\* runConnectionDaemon, once it is the leader: recoverInterruptedConnections.
StartDaemon ==
    /\ pc = "idle"
    /\ cmd' = "schedule"
    /\ openScan' = FALSE
    /\ interrupted' = (interrupted \/ openScan)
    /\ conn' = [conn EXCEPT !.due = @ \/ interrupted']
    /\ Goto("daemon")
    /\ UNCHANGED <<tree, obs, succeeded, receipts, archived, work, fixed>>

StopDaemon ==
    /\ pc = "daemon"
    /\ cmd' = "manual"
    /\ Goto("idle")
    /\ UNCHANGED <<tree, store, work, fixed>>

\* Mutant: a degraded connection is not scheduled.
DueIfActive == conn.state = "active" /\ conn.due
\* listDueConnectionIds: conn.due says that reconcile_required is set or that
\* next_scan_at has passed.
Due == conn.state \in {"active", "degraded"} /\ conn.due

\* scanDue, in the daemon's loop.
DaemonTick ==
    /\ pc = "daemon"
    /\ Due
    /\ Goto("start")
    /\ UNCHANGED <<tree, store, cmd, work, fixed>>

-----------------------------------------------------------------------------
(* scanConnection                                                          *)

\* getConnection and startScan, before the try: a refusal records nothing.
\* From here on the three triggers of a foreground scan make no difference.
Begin ==
    /\ pc = "start"
    /\ IF (conn.state = "paused" /\ cmd \notin {"manual", "dry"}) \/ openScan
       THEN Return /\ UNCHANGED openScan
       ELSE /\ openScan' = TRUE
            /\ left' = Files
            /\ Goto("inventory")
            /\ UNCHANGED <<inv, copy, changes, pending, keys, queue>>
    /\ cmd' = IF cmd \in {"dry", "schedule"} THEN cmd ELSE "manual"
    /\ UNCHANGED <<tree, obs, succeeded, receipts, archived, conn,
                   interrupted, fixed>>

\* The next file of a directory listing.
First(f) == f \in left /\ \A g \in left : f <= g

\* buildInventory: a file enters with the state it has when it is hashed.
InventoryFile(f) ==
    /\ pc = "inventory"
    /\ First(f)
    /\ inv' = [inv EXCEPT ![f] = file[f]]
    /\ left' = left \ {f}
    /\ UNCHANGED <<tree, store, pc, cmd, copy, changes, pending, keys, queue, fixed>>

\* classifyChanges, then the loop over the slices, or finishDryRun.
ClassifyInventory ==
    /\ pc = "inventory" /\ left = {}
    /\ LET result == Classify(inv) IN
       /\ changes' = result.changes
       /\ pending' = result.pending
       /\ queue' = Slices(result.changes)
       /\ Goto(CASE cmd = "dry" -> "dryEnd"
                 [] cmd # "dry" /\ result.changes = {} -> "complete"
                 [] OTHER -> "persist")
    /\ UNCHANGED <<tree, store, cmd, left, inv, copy, keys, fixed>>

\* Mutant: finishDryRun leaves the scan run as startScan has inserted it.
DryRunStaysOpen == openScan
DryRunClosed == FALSE

FinishDryRun ==
    /\ pc = "dryEnd"
    /\ openScan' = DryRunClosed
    /\ Return
    /\ UNCHANGED <<tree, obs, succeeded, receipts, archived, conn,
                   interrupted, cmd, fixed>>

\* persistDetectedBatch: the key is a hash of the changes, so a batch with
\* the same changes is the same batch, whichever scan persisted it.  The row
\* is looked up by its key only, so the key stands for it.
PersistBatch ==
    /\ pc = "persist"
    /\ keys' = Append(keys, Head(queue))
    /\ queue' = Tail(queue)
    /\ Goto(IF Len(queue) = 1 THEN "accept" ELSE "persist")
    /\ UNCHANGED <<tree, store, cmd, left, inv, copy, changes, pending, fixed>>

\* Mutant: the receipt is recorded before the directory is archived.
AcceptBatchEarlyReceipt ==
    /\ pc = "accept"
    /\ IF keys[1] \in receipts
       THEN Goto("receipt") /\ UNCHANGED <<left, receipts>>
       ELSE Goto("archive") /\ left' = Files /\ receipts' = receipts \cup {keys[1]}
    /\ UNCHANGED <<tree, obs, succeeded, archived, conn, openScan, interrupted,
                   cmd, inv, copy, changes, pending, keys, queue, fixed>>

\* acceptSourceChangeBatch: a batch with a receipt is not archived again.
AcceptBatch ==
    /\ pc = "accept"
    /\ IF keys[1] \in receipts
       THEN Goto("receipt") /\ UNCHANGED left
       ELSE Goto("archive") /\ left' = Files
    /\ UNCHANGED <<tree, store, cmd, inv, copy, changes, pending, keys, queue, fixed>>

\* readSourceSpec and persistEntries: the directory is read a second time.
ArchiveFile(f) ==
    /\ pc = "archive"
    /\ First(f)
    /\ copy' = [copy EXCEPT ![f] = file[f].c]
    /\ left' = left \ {f}
    /\ UNCHANGED <<tree, store, pc, cmd, inv, changes, pending, keys, queue, fixed>>

\* archiveEntries: a snapshot with these entries becomes the current one, or
\* the current one has them already.  ingestArchived changes nothing kept here.
PublishSnapshot ==
    /\ pc = "archive" /\ left = {}
    /\ archived' = copy
    /\ Goto("receipt")
    /\ UNCHANGED <<tree, obs, succeeded, receipts, conn, openScan,
                   interrupted, cmd, work, fixed>>

\* Mutant: only the first batch of a scan is recorded.
FirstUnrecorded(ks) == {n \in DOMAIN ks : n = 1 /\ ks[n] \notin receipts}
Unrecorded(ks) == {n \in DOMAIN ks : ks[n] \notin receipts}

\* recordSourceBatchReceipt: for the accepted batch, then for all the others.
RecordReceipt ==
    /\ pc = "receipt"
    /\ IF Unrecorded(keys) = {}
       THEN Goto("complete") /\ UNCHANGED receipts
       ELSE /\ \E n \in Unrecorded(keys) :
                 /\ \A m \in Unrecorded(keys) : n <= m
                 /\ receipts' = receipts \cup {keys[n]}
            /\ Goto("receipt")
    /\ UNCHANGED <<tree, obs, succeeded, archived, conn, openScan,
                   interrupted, cmd, work, fixed>>

\* writeObservations: one row per inventoried file; a renamed file takes its
\* row along; missing and deleted rows are marked.
NewRow(f) ==
    LET has(kind) == \E ch \in changes : ch.kind = kind /\ ch.path = f
        left_(g)  == \E ch \in changes : ch.kind = "renamed" /\ ch.from = g
    IN IF inv[f].c # 0 THEN [state |-> "active", hash |-> inv[f].c, ino |-> inv[f].i]
       ELSE IF left_(f) THEN NoRow
       ELSE IF has("deleted") THEN [obs[f] EXCEPT !.state = "deleted"]
       ELSE IF f \in pending /\ obs[f].state = "active"
            THEN [obs[f] EXCEPT !.state = "missing"]
       ELSE obs[f]

\* completeScan: one transaction, whatever has become of the connection.
CompleteScan ==
    /\ pc = "complete"
    /\ obs' = [f \in Files |-> NewRow(f)]
    /\ succeeded' = succeeded \cup {keys[n] : n \in DOMAIN keys}
    /\ openScan' = FALSE
    /\ conn' = [state |-> "active", due |-> FALSE]
    /\ Return
    /\ UNCHANGED <<tree, receipts, archived, interrupted, cmd, fixed>>

\* Inside scanConnection's try.
Trying == {"inventory", "dryEnd", "persist", "accept", "archive", "receipt",
           "complete"}

\* The target is unavailable, a file does not settle, ingestion fails, ...
Throw ==
    /\ pc \in Trying
    /\ crashes + failures < MaxFaults
    /\ failures' = failures + 1
    /\ Finish("fail")
    /\ UNCHANGED <<tree, store, cmd, batchSize, crashes>>

\* failScan: the connection is degraded and asks for a reconciliation.
FailScan ==
    /\ pc = "fail"
    /\ openScan' = FALSE
    /\ conn' = [state |-> "degraded", due |-> TRUE]
    /\ Return
    /\ UNCHANGED <<tree, obs, succeeded, receipts, archived, interrupted,
                   cmd, fixed>>

-----------------------------------------------------------------------------
(* The environment                                                         *)

\* A path gets a content; it counts as a revert if the path had it before.
Edit(tr) ==
    LET back == {f \in Files : tr[f].c # file[f].c /\ tr[f].c \in past[f]} IN
    /\ IF back = {} THEN edits < MaxEdits /\ edits' = edits + 1 /\ UNCHANGED reverts
                    ELSE reverts < MaxReverts /\ reverts' = reverts + 1 /\ UNCHANGED edits
    /\ file' = tr
    /\ past' = [f \in Files |-> past[f] \cup ({tr[f].c} \ (IF tr[f].c = file[f].c THEN {0} ELSE {}))]
    /\ UNCHANGED <<store, pc, cmd, work, fixed>>

\* A saved file keeps its inode, or is a new one; freed inodes are reused.
Write(f, c) ==
    \E i \in 1 .. Cardinality(Files) :
        /\ \A g \in Present(file) \ {f} : file[g].i # i
        /\ Edit([file EXCEPT ![f] = [c |-> c, i |-> i]])

SaveFile(f)   == Write(f, edits + 2)
RevertFile(f) == \E c \in past[f] \ {0, file[f].c} : Write(f, c)
RemoveFile(f) == file[f].c # 0 /\ Edit([file EXCEPT ![f] = Absent])
MoveFile(f, g) ==
    /\ f # g /\ file[f].c # 0
    /\ Edit([file EXCEPT ![g] = file[f], ![f] = Absent])

\* A watcher of the running daemon reports something about the connection.
EventHint ==
    /\ cmd = "schedule"
    /\ conn' = [conn EXCEPT !.due = TRUE]
    /\ UNCHANGED <<tree, obs, succeeded, receipts, archived, openScan,
                   interrupted, pc, cmd, work, fixed>>

\* next_scan_at passes.
IntervalElapses ==
    /\ conn.state \in {"active", "degraded"} /\ ~conn.due
    /\ conn' = [conn EXCEPT !.due = TRUE]
    /\ UNCHANGED <<tree, obs, succeeded, receipts, archived, openScan,
                   interrupted, pc, cmd, work, fixed>>

\* A file has been missing for the delete grace period.
GraceElapses(f) ==
    /\ obs[f].state = "missing"
    /\ obs' = [obs EXCEPT ![f].state = "overdue"]
    /\ UNCHANGED <<tree, succeeded, receipts, archived, conn, openScan,
                   interrupted, pc, cmd, work, fixed>>

\* The command or the daemon is killed.
Crash ==
    /\ pc # "idle"
    /\ crashes + failures < MaxFaults
    /\ crashes' = crashes + 1
    /\ Finish("idle")
    /\ cmd' = "manual"
    /\ UNCHANGED <<tree, store, batchSize, failures>>

Step ==
    \/ DaemonTick \/ Begin \/ ClassifyInventory \/ FinishDryRun \/ PersistBatch
    \/ AcceptBatch \/ PublishSnapshot \/ RecordReceipt
    \/ CompleteScan \/ FailScan
    \/ \E f \in Files : InventoryFile(f) \/ ArchiveFile(f)

Command ==
    \/ \E c \in {"manual", "dry"} : StartManual(c)
    \/ StartResume \/ StartDaemon \/ StopDaemon \/ Pause

User ==
    \E f \in Files :
        \/ SaveFile(f) \/ RevertFile(f) \/ RemoveFile(f)
        \/ \E g \in Files : MoveFile(f, g)

Time == IntervalElapses \/ \E f \in Files : GraceElapses(f)

Next == Step \/ Command \/ User \/ Time \/ Throw \/ EventHint \/ Crash

Spec == Init /\ [][Next]_vars

\* A running command or daemon is scheduled, and time passes.
FairSpec ==
    /\ Spec
    /\ WF_vars(Step)
    /\ WF_vars(IntervalElapses)
    /\ \A f \in Files : WF_vars(GraceElapses(f))

-----------------------------------------------------------------------------
(* Properties                                                              *)

PC == Trying \cup {"idle", "daemon", "start", "fail"}

\* Type invariant; a batch that succeeded has a receipt of the Source.
TypeOK ==
    /\ file \in [Files -> Entry] /\ inv \in [Files -> Entry] /\ copy \in [Files -> Contents]
    /\ past \in [Files -> SUBSET Contents]
    /\ obs \in [Files -> Row]
    /\ succeeded \subseteq receipts /\ receipts \subseteq SUBSET Change
    /\ archived \in [Files -> Contents]
    /\ conn \in [state : {"initializing", "active", "paused", "degraded"}, due : BOOLEAN]
    /\ openScan \in BOOLEAN /\ interrupted \in BOOLEAN
    /\ pc \in PC
    /\ cmd \in {"initial", "manual", "dry", "recovery", "schedule"}
    /\ left \subseteq Files /\ pending \subseteq Files
    /\ changes \subseteq Change
    /\ keys \in Seq(SUBSET Change) /\ queue \in Seq(SUBSET Change)
    /\ pc = "persist" => queue # <<>>
    /\ batchSize \in BatchSizes
    /\ edits \in 0 .. MaxEdits /\ reverts \in 0 .. MaxReverts
    /\ crashes \in 0 .. MaxFaults /\ failures \in 0 .. MaxFaults

AtRest == pc \in {"idle", "daemon"}
OneBatch == batchSize >= Cardinality(Files)

\* A scan of the directory as it is now would report nothing.
NothingToReport == Classify(file) = [changes |-> {}, pending |-> {}]
\* Of the files that exist or were observed.  A file that only the archive has
\* read, and that is removed before an inventory meets it, is not reported.
Archived ==
    \A f \in Files : file[f].c # 0 \/ obs[f].state # "none" => archived[f] = file[f].c

\* A difference between the directory and the Source's current snapshot stays
\* visible to the next scan, although files change between the inventory and
\* the archive, and scans fail or are killed between any two of their steps.
\* It holds as long as no path returns to an earlier content and the changes
\* of a scan fit one batch; ReconciliationMissesNothing drops the first premise.
NothingUnarchived == AtRest /\ reverts = 0 /\ OneBatch /\ NothingToReport => Archived

\* docs/domains/connection/README.md:200: the periodic reconciliation must find
\* every change in the end.  So when a scan would report nothing, the archive
\* has to be what the directory is.
ReconciliationMissesNothing == AtRest /\ OneBatch /\ NothingToReport => Archived

\* Only a killed command leaves a scan run unfinished, which would refuse every
\* later scan of the connection, and a daemon that starts repairs even that.
ScanRunsAreClosed ==
    AtRest => (openScan => crashes > 0) /\ (pc = "daemon" => ~openScan)

\* While a daemon runs and the connection is neither paused nor initializing,
\* the archive ends up equal to the directory: lost or late events, failing
\* scans, edits during a scan and the remains of killed scans only delay it.
DaemonConverges ==
    /\ <>[](cmd = "schedule" /\ conn.state \in {"active", "degraded"})
    /\ <>[](reverts = 0 /\ OneBatch)
    => <>[](Archived /\ NothingToReport)

=============================================================================
