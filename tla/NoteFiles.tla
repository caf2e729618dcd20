------------------------------ MODULE NoteFiles ------------------------------
(***************************************************************************)
(* The managed notes: a file under content/notes, the path of it in the    *)
(* note's row and in the locator of its Source.  A move renames the file   *)
(* before the transaction and renames it back when that fails; an update   *)
(* writes the file, archives it and then compares the note's version.      *)
(***************************************************************************)
EXTENDS MutationPlan

CONSTANTS
    Dirs,        \* directories of content/notes
    Bodies       \* contents of a note, numbers from 1

\* Every note has a Source, which was added for its file alone.
ASSUME NoteAssumption ==
    /\ Home \in Dirs /\ 1 \in Bodies /\ Bodies \subseteq Nat \ {0}
    /\ \A o \in Rows : KindOf[o] = "note" => \E s \in Links[o] : KindOf[s] = "source"
    /\ \A o, q \in Rows : KindOf[o] = "note" /\ KindOf[q] = "note" /\ NoteSource(o) = NoteSource(q) => o = q

VARIABLES
    files,       \* note -> directory -> the content of its file there, 0 if none
    body,        \* note -> the content of its last successful update
    archived     \* note -> the content of the current snapshot of its Source

noteVars == <<files, body, archived>>

Notes == {r \in Rows : KindOf[r] = "note"}

NoteInit ==
    /\ files = [o \in Notes |-> [d \in Dirs |-> IF d = Home THEN 1 ELSE 0]]
    /\ body = [o \in Notes |-> 1] /\ archived = [o \in Notes |-> 1]

-----------------------------------------------------------------------------
(* Moving *)

\* describeNoteMove: the rows it changes, with the locator of the Source.
MoveChanges(o, d) ==
    [r \in {o, NoteSource(o)} |->
       [kind |-> "moved",
        before |-> [path |-> row[r].path, version |-> row[r].version],
        after |-> [path |-> d, version |-> row[r].version + 1]]]
MayMove(o, d) ==
    /\ row[o].state = "active" /\ row[NoteSource(o)].state = "active"
    /\ row[o].path # d /\ files[o][d] = 0 /\ files[o][row[o].path] # 0

PlanMove ==
    \E o \in Notes \cap limit.targets, d \in Dirs :
        /\ MayMove(o, d) /\ Elsewhere("plan")
        /\ Planned(NewPlan("move", o, MoveChanges(o, d), TRUE, 0,
                           [from |-> row[o].path, to |-> d, hash |-> files[o][row[o].path]]))
        /\ UNCHANGED noteVars

HashIs(o, d, hash) == files[o][d] = hash

\* applyNoteMove describes the move again; the digest has the same changes and hash.
Describe(p) ==
    /\ At(p, "describe")
    /\ LET c == proc[p]  o == c.target
       IN IF MayMove(o, c.move.to) /\ MoveChanges(o, c.move.to) = c.changes /\ HashIs(o, row[o].path, c.move.hash)
          THEN Move(p, "hash") ELSE Finish(p)
    /\ UNCHANGED <<planVars, noteVars>>
HashSource(p) ==
    /\ At(p, "hash")
    /\ IF HashIs(proc[p].target, proc[p].move.from, proc[p].move.hash) THEN Move(p, "rename") ELSE Finish(p)
    /\ UNCHANGED <<planVars, noteVars>>

\* applyNoteMoveUndo
CheckUndo(p) ==
    /\ At(p, "check")
    /\ LET c == proc[p]
       IN IF HashIs(c.target, c.move.from, c.move.hash) /\ files[c.target][c.move.to] = 0
          THEN Move(p, "rename") ELSE Finish(p)
    /\ UNCHANGED <<planVars, noteVars>>

\* rename(2) fails without a source and overwrites its destination.
Renamed(o, from, to) == files' = [files EXCEPT ![o] = [@ EXCEPT ![to] = files[o][from], ![from] = 0]]

Rename(p) ==
    /\ At(p, "rename")
    /\ LET c == proc[p]
       IN IF files[c.target][c.move.from] = 0 THEN Finish(p) /\ UNCHANGED files
          ELSE /\ Renamed(c.target, c.move.from, c.move.to)
               /\ Set(p, [c EXCEPT !.pc = "verify", !.back = TRUE]) /\ UNCHANGED <<limit, used>>
    /\ UNCHANGED <<planVars, body, archived>>

\* Mutant: the file stays where it was moved to.
LeaveMoved(p) == UNCHANGED files
\* The catch block of both.
RenameBack(p) ==
    LET c == proc[p]
    IN IF files[c.target][c.move.to] = 0 THEN UNCHANGED files ELSE Renamed(c.target, c.move.to, c.move.from)
MoveBack(p) ==
    /\ At(p, "back") /\ Finish(p) /\ RenameBack(p)
    /\ UNCHANGED <<planVars, body, archived>>

-----------------------------------------------------------------------------
(* Updating *)

\* updateNote with the version its caller has seen, whatever the note's state.
Update(p) ==
    /\ \E o \in Notes \cap limit.targets, b \in Bodies :
         /\ Launch(p, "update", [pc |-> "write", target |-> o, body |-> b, version |-> row[o].version,
                                 path |-> row[o].path])
    /\ UNCHANGED <<planVars, noteVars>>
WriteNote(p) ==
    /\ At(p, "write") /\ Move(p, "sync")
    /\ files' = [files EXCEPT ![proc[p].target][proc[p].path] = proc[p].body]
    /\ UNCHANGED <<planVars, body, archived>>
\* syncSource archives what the locator names; Ingestion has its steps.  Without
\* operations the file would be there and the Source active.
SyncNote(p) ==
    /\ At(p, "sync")
    /\ LET o == proc[p].target  s == NoteSource(o)  at == files[o][row[s].path]
       IN IF row[s].state = "deleted"
          THEN Finish(p) /\ UNCHANGED <<planVars, archived>>
          ELSE IF at = 0
          THEN Finish(p) /\ PutAll({s}, {}, Bumped(s, [state |-> "failed"])) /\ UNCHANGED archived
          ELSE /\ Move(p, "record") /\ archived' = [archived EXCEPT ![o] = at]
               /\ Put(s, Bumped(s, [state |-> "active"]))
    /\ UNCHANGED <<files, body>>
\* updateNoteRecord; its operation is not reversible.
RecordNote(p) ==
    /\ At(p, "record") /\ Finish(p)
    /\ LET c == proc[p]  o == c.target
       IN IF row[o].version = c.version /\ row[o].state = "active"
          THEN /\ row' = [row EXCEPT ![o].version = @ + 1] /\ body' = [body EXCEPT ![o] = c.body]
          ELSE UNCHANGED <<row, body>>
    /\ UNCHANGED <<base, without, swayed, plans, ops, clock, files, archived>>

NoteStep(p) ==
    \/ Describe(p) \/ HashSource(p) \/ CheckUndo(p) \/ Rename(p) \/ MoveBack(p)
    \/ Update(p) \/ WriteNote(p) \/ SyncNote(p) \/ RecordNote(p)
=============================================================================
