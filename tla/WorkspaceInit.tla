---------------------------- MODULE WorkspaceInit ----------------------------
(***************************************************************************)
(* The initialization of a workspace: five steps with a journal that is    *)
(* saved after each, which a killed run is resumed from, and a rollback    *)
(* that removes the files that the journal names if they are unchanged.    *)
(*                                                                         *)
(* A file is what wrote it: the release, or the initialization with a      *)
(* workspace_id, which is also in the name of its config-history file.     *)
(* Directories, which are only removed when they are empty, and the        *)
(* identity of the root are left out.  One run at a time: initialization   *)
(* takes no lock, and what two at once do is left out.                     *)
(***************************************************************************)
EXTENDS Workload, Sequences, TLC

VARIABLES
    disk,        \* the content of each file of the root
    history,     \* the workspaces with a file in runtime/config-history
    journals,    \* runtime/init in the order of their operation ids
    rollback,    \* the plan of init rollback
    stamp,       \* saves of a journal, for its hash
    undone       \* a rollback removed files of a published workspace, of an earlier run
                 \* or of a run that was resumed afterwards

initVars == <<disk, history, journals, rollback, stamp, undone>>

\* What a file holds, apart from a workspace_id from 1.
Absent == 0
Release == -1
Partial == -2
Changed == -3

Paths == {"assets", "templates", "db", "config"}
Copied == {"assets", "templates"}

\* Mutant: the configuration is published before the database.
ConfigFirst == <<<<>>, <<"assets", "templates">>, <<"config">>, <<"check">>, <<"draft", "history", "db">>>>
\* INIT_STEPS with the work of each: directories, runtime_assets, database,
\* verification, config_publish.
InitSteps == <<<<>>, <<"assets", "templates">>, <<"draft", "history", "db">>, <<"check">>, <<"config">>>>

NoRollback == [stamp |-> 0, created |-> <<>>, workspace |-> 0]

WorkspaceInitial ==
    /\ disk = [path \in Paths |-> Absent] /\ history = {} /\ journals = <<>> /\ rollback = NoRollback
    /\ stamp = 0 /\ undone = FALSE

LatestJournal == journals[Len(journals)]
Published == disk["config"] # Absent

\* saveInitJournal
Save(j) ==
    /\ journals' = [journals EXCEPT ![Len(journals)] = [j EXCEPT !.stamp = stamp + 1]]
    /\ stamp' = stamp + 1

Run(j) == [pc |-> "i:make", journal |-> j, todo |-> InitSteps[j.done + 1]]
Running == {p \in Busy : proc[p].pc \in {"i:make", "i:complete", "i:unmake"}}
\* What a journal names is there as its run has made it.
AsMade(j) ==
    \A i \in DOMAIN j.created :
        IF j.created[i] = "history" THEN j.workspace \in history
        ELSE disk[j.created[i]] = IF j.created[i] \in Copied THEN Release ELSE j.workspace

\* prepareJournal: an empty root, or one that an init plan has listed.
StartInit(p) ==
    /\ ~ Published /\ Running = {}
    /\ LET j == [workspace |-> used["init"] + 1, state |-> "running", done |-> 0, created |-> <<>>,
                 stamp |-> stamp + 1]
       IN Launch(p, "init", Run(j)) /\ journals' = Append(journals, j)
    /\ stamp' = stamp + 1 /\ UNCHANGED <<disk, history, rollback, undone>>
\* init resume: a workspace with self.toml is reported as it is.
ResumeInit(p) ==
    /\ journals # <<>> /\ ~ Published /\ Running = {}
    /\ Launch(p, "resume", IF LatestJournal.done < 5 THEN Run(LatestJournal)
                           ELSE [pc |-> "i:complete", journal |-> LatestJournal, todo |-> <<>>])
    /\ undone' = (undone \/ ~ AsMade(LatestJournal))
    /\ UNCHANGED <<disk, history, journals, rollback, stamp>>

Record(j, path) ==
    IF \E i \in DOMAIN j.created : j.created[i] = path THEN j ELSE [j EXCEPT !.created = Append(@, path)]

\* The catch block of initWorkspace.
CatchInit(p) ==
    /\ Finish(p) /\ Save([proc[p].journal EXCEPT !.state = "failed"])

Making(p, work) == At(p, "i:make") /\ proc[p].todo # <<>> /\ Head(proc[p].todo) \in work
Proceed(p, todo, j) ==
    Become(p, [proc[p] EXCEPT !.todo = todo, !.journal = j]) /\ UNCHANGED <<journals, stamp>>
Rest(p) == Tail(proc[p].todo)

\* copyAsset and copyTemplateDirectory: a file that is there must be equal.
CopyRelease(p) ==
    /\ Making(p, Copied)
    /\ LET path == Head(proc[p].todo)
       IN IF disk[path] \in {Absent, Release}
          THEN disk' = [disk EXCEPT ![path] = Release] /\ Proceed(p, Rest(p), Record(proc[p].journal, path))
          ELSE CatchInit(p) /\ UNCHANGED disk
    /\ UNCHANGED <<history, rollback, undone>>
\* createWorkspaceDatabase and verifyDraft install the assets again, unrecorded,
\* and verify the row of a database that is there.
CheckDraft(p) ==
    /\ Making(p, {"draft", "check"})
    /\ LET j == proc[p].journal
       IN IF disk["assets"] \notin {Absent, Release} THEN CatchInit(p) /\ UNCHANGED disk
          ELSE /\ disk' = [disk EXCEPT !["assets"] = Release]
               /\ IF disk["db"] \in {j.workspace, Changed} THEN Proceed(p, <<>>, j)
                  ELSE IF disk["db"] = Absent /\ Making(p, {"draft"}) THEN Proceed(p, Rest(p), j)
                  ELSE CatchInit(p)
    /\ UNCHANGED <<history, rollback, undone>>
WriteHistory(p) ==
    /\ Making(p, {"history"}) /\ Proceed(p, Rest(p), Record(proc[p].journal, "history"))
    /\ history' = history \cup {proc[p].journal.workspace}
    /\ UNCHANGED <<disk, rollback, undone>>
\* The database, with the row of the workspace, and self.toml are renamed into
\* place in one step.
Place(p, path) ==
    LET j == proc[p].journal
    IN disk' = [disk EXCEPT ![path] = j.workspace] /\ Proceed(p, Rest(p), Record(j, path))
PlaceDatabase(p) == Making(p, {"db"}) /\ Place(p, "db") /\ UNCHANGED <<history, rollback, undone>>
PublishConfig(p) == Making(p, {"config"}) /\ Place(p, "config") /\ UNCHANGED <<history, rollback, undone>>

\* The step is done and the journal saved.
Checkpoint(p) ==
    /\ At(p, "i:make") /\ proc[p].todo = <<>>
    /\ LET j == [proc[p].journal EXCEPT !.done = @ + 1]
       IN /\ Save(j)
          /\ Become(p, IF j.done < 5 THEN Run(j) ELSE [pc |-> "i:complete", journal |-> j, todo |-> <<>>])
    /\ UNCHANGED <<disk, history, rollback, undone>>
CompleteInit(p) ==
    /\ At(p, "i:complete") /\ Finish(p) /\ Save([proc[p].journal EXCEPT !.state = "completed"])
    /\ UNCHANGED <<disk, history, rollback, undone>>
\* A step throws, a copy possibly with part of the file written.
Torn(p) ==
    {disk} \cup {[disk EXCEPT ![path] = Partial] :
        path \in {x \in Copied : /\ Making(p, {x} \cup IF x = "assets" THEN {"draft", "check"} ELSE {})
                                 /\ disk[x] = Absent}}
ThrowInit(p) ==
    /\ p \in Busy /\ proc[p].pc \in {"i:make", "i:complete"}
    /\ Spend("throw") /\ Set(p, Idle) /\ UNCHANGED limit
    /\ Save([proc[p].journal EXCEPT !.state = "failed"])
    /\ disk' \in Torn(p) /\ UNCHANGED <<history, rollback, undone>>

\* A command of the workspace writes to its database.
UseWorkspace ==
    /\ Published /\ disk["db"] \notin {Absent, Changed} /\ Busy = {} /\ Elsewhere("use")
    /\ disk' = [disk EXCEPT !["db"] = Changed]
    /\ UNCHANGED <<history, journals, rollback, stamp, undone>>

-----------------------------------------------------------------------------
(* Rollback *)

\* createInitRollbackPlan saves the journal again before it hashes it.
PlanRollback ==
    /\ journals # <<>> /\ LatestJournal.state # "completed" /\ Busy = {} /\ Elsewhere("rollback")
    /\ Save(LatestJournal)
    /\ rollback' = [stamp |-> stamp + 1, created |-> LatestJournal.created, workspace |-> LatestJournal.workspace]
    /\ UNCHANGED <<disk, history, undone>>

ApplyRollback(p) ==
    /\ rollback # NoRollback /\ Running = {}
    /\ Launch(p, "unmake", IF journals # <<>> /\ LatestJournal.stamp = rollback.stamp
                         THEN [pc |-> "i:unmake", todo |-> rollback.created] ELSE Idle)
    /\ UNCHANGED initVars
\* Files in the order they were recorded; the first that changed is a conflict.
Unmaking(p, path) == At(p, "i:unmake") /\ proc[p].todo # <<>> /\ Head(proc[p].todo) = path
Removed(p) ==
    /\ Become(p, [proc[p] EXCEPT !.todo = Tail(@)])
    /\ undone' = (undone \/ Published \/ Len(journals) > 1)
UnmakeFile(p) ==
    /\ \E path \in Paths :
         /\ Unmaking(p, path)
         /\ IF disk[path] \in {Absent, IF path \in Copied THEN Release ELSE rollback.workspace}
            THEN Removed(p) /\ disk' = [disk EXCEPT ![path] = Absent]
            ELSE Finish(p) /\ UNCHANGED <<disk, undone>>
    /\ UNCHANGED <<history, journals, rollback, stamp>>
UnmakeHistory(p) ==
    /\ Unmaking(p, "history") /\ Removed(p)
    /\ history' = history \ {rollback.workspace} /\ UNCHANGED <<disk, journals, rollback, stamp>>
FinishRollback(p) ==
    /\ At(p, "i:unmake") /\ proc[p].todo = <<>> /\ Finish(p)
    /\ journals' = SubSeq(journals, 1, Len(journals) - 1) /\ rollback' = NoRollback
    /\ UNCHANGED <<disk, history, stamp, undone>>

InitStep(p) ==
    \/ StartInit(p) \/ ResumeInit(p) \/ CopyRelease(p) \/ CheckDraft(p) \/ WriteHistory(p)
    \/ PlaceDatabase(p) \/ PublishConfig(p)
    \/ Checkpoint(p) \/ CompleteInit(p) \/ ThrowInit(p)
    \/ ApplyRollback(p) \/ UnmakeFile(p) \/ UnmakeHistory(p) \/ FinishRollback(p)
=============================================================================
