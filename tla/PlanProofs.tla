------------------------------- MODULE PlanProofs -------------------------------
(***************************************************************************)
(* Proofs about the plans, the operations and the notes of Operations,     *)
(* whatever the rows and their links, the bounds and the processes.        *)
(*                                                                         *)
(* PlansInv says what a plan, an operation and a command may change: the   *)
(* path of a note and of its Source together, or no path at all.  With it  *)
(* row and locator agree in every state (PathsInv), and a note that is not *)
(* spoiled has one file, where its row says or where the one command that  *)
(* has renamed it has put it (NotesInv).                                   *)
(*                                                                         *)
(* TraceInv relates a row to its value without any operation: which        *)
(* operations stand on it (Stand), and what the kind of the row lets them  *)
(* be taken back by.  With it a row on which none stands is what it would  *)
(* be without any.                                                         *)
(*                                                                         *)
(* KindInv and HoldInv are what TypeOK needs besides the invariants of the *)
(* components.                                                             *)
(***************************************************************************)
EXTENDS OperationsProofs

-----------------------------------------------------------------------------
(* What plans change *)

\* The images of a change; PathFree changes leave every path alone, a move takes
\* a note and the locator of its Source from one directory to another.
IsChange(g) == DOMAIN g = {"kind", "before", "after"}
PathFree(ch) ==
    \A r \in DOMAIN ch :
        IsChange(ch[r]) /\ "path" \notin DOMAIN ch[r].before /\ "path" \notin DOMAIN ch[r].after
Takes(ch, m, o) ==
    /\ o \in Notes /\ DOMAIN ch = {o, NoteSource(o)}
    /\ m.from \in Dirs /\ m.to \in Dirs /\ m.from # m.to
    /\ \A r \in {o, NoteSource(o)} :
         /\ IsChange(ch[r])
         /\ "path" \in DOMAIN ch[r].before /\ ch[r].before.path = m.from
         /\ "path" \in DOMAIN ch[r].after /\ ch[r].after.path = m.to
Moves(ch, m, o) == Takes(ch, m, o) /\ \A r \in DOMAIN ch : ch[r].kind = "moved"

LEMMA NotesAre ==
    ASSUME NEW o \in Notes
    PROVE  /\ o \in Rows /\ NoteSource(o) \in Rows /\ KindOf[o] = "note"
           /\ KindOf[NoteSource(o)] = "source" /\ NoteSource(o) \notin Notes
           /\ \A q \in Notes : NoteSource(q) = NoteSource(o) => q = o
<1>1. o \in Rows /\ KindOf[o] = "note"
  BY DEF Notes
<1>2. NoteSource(o) \in Links[o] /\ KindOf[NoteSource(o)] = "source"
  BY <1>1, NoteAssumption DEF NoteSource
<1>3. NoteSource(o) \in Rows
  BY <1>1, <1>2, MutationAssumption
<1>4. \A q \in Notes : NoteSource(q) = NoteSource(o) => q = o
  BY <1>1, NoteAssumption DEF Notes
<1> QED
  BY <1>1, <1>2, <1>3, <1>4 DEF Notes

\* A set of wanted changes that names no path.
Plain(W) == \A w \in W : "path" \notin DOMAIN w.extra

LEMMA ChangesAre ==
    ASSUME NEW W, Plain(W)
    PROVE  PathFree(Changes(W))
<1> DEFINE A == {w \in W : ~ Holds(w)}
           ch == Changes(W)
<1> SUFFICES ASSUME NEW r \in DOMAIN ch
             PROVE  /\ IsChange(ch[r]) /\ "path" \notin DOMAIN ch[r].before
                    /\ "path" \notin DOMAIN ch[r].after
  BY DEF PathFree
<1> DEFINE w == CHOOSE x \in A : x.row = r
<1>1. DOMAIN ch = {x.row : x \in A}
  BY DEF Changes
<1>2. w \in A
  BY <1>1
<1>3. ch[r] = [kind |-> w.kind, before |-> Before(w), after |-> After(w)]
  BY <1>1 DEF Changes
<1>4. "path" \notin DOMAIN w.extra
  BY <1>2 DEF Plain
<1> HIDE DEF w, ch
<1>5. "path" \notin DOMAIN Before(w)
  BY <1>4 DEF Before
<1>6. DOMAIN After(w) = DOMAIN Before(w)
  BY DEF After
<1> QED
  BY <1>3, <1>5, <1>6 DEF IsChange

LEMMA PlainSets ==
    /\ \A A, B : Plain(A) /\ Plain(B) => Plain(A \cup B)
    /\ \A R, state, kind, extra : "path" \notin DOMAIN extra => Plain(WantAll(R, state, kind, extra))
    /\ \A r, state, kind, extra : "path" \notin DOMAIN extra => Plain({Want(r, state, kind, extra)})
    /\ \A r : Plain({Deleted(r)})
    /\ \A R : Plain(Stale(R)) /\ Plain({Deleted(r) : r \in R})
    /\ "path" \notin DOMAIN <<>>
<1>1. "path" \notin DOMAIN <<>>
  OBVIOUS
<1> QED
  BY <1>1 DEF Plain, WantAll, Want, Deleted, Stale

LEMMA TopicsPlain ==
    ASSUME NEW T, NEW why, NEW desired
    PROVE  Plain(TopicsAndArtifacts(T, why, desired))
BY PlainSets DEF TopicsAndArtifacts

LEMMA SourceDeletePlain ==
    ASSUME NEW s
    PROVE  Plain(SourceDelete(s))
<1>1. Plain(SourceContent(s))
  BY PlainSets DEF SourceContent
<1>2. Plain(SourceGraph(s))
  BY PlainSets DEF SourceGraph
<1> QED
  BY <1>1, <1>2, PlainSets, TopicsPlain DEF SourceDelete

LEMMA WantedPlain ==
    ASSUME NEW x, KindOf[x] \in Deletable
    PROVE  Plain(Wanted(x))
<1>1. Plain(EntityDelete(x))
  BY PlainSets, TopicsPlain DEF EntityDelete
<1>2. Plain(ClaimDelete(x)) /\ Plain(RelationDelete(x)) /\ Plain(TopicDelete(x))
  BY PlainSets, TopicsPlain DEF ClaimDelete, RelationDelete, TopicDelete
<1>3. Plain({Deleted(x)} \cup SourceDelete(NoteSource(x))) /\ Plain(SourceDelete(x))
  BY PlainSets, SourceDeletePlain
<1>4. Plain({Want(x, "detached", "detached", <<>>)}) /\ Plain({Deleted(x)})
  BY PlainSets
<1> QED
  BY <1>1, <1>2, <1>3, <1>4 DEF Wanted, Deletable

\* What is recorded and what takes it back.
LEMMA MaterializedAre ==
    ASSUME NEW ch
    PROVE  /\ PathFree(ch) => PathFree(Materialized(ch))
           /\ \A m, o : Moves(ch, m, o) => Moves(Materialized(ch), m, o)
           /\ \A m, o : Takes(ch, m, o) => Takes(Materialized(ch), m, o)
<1>1. DOMAIN Materialized(ch) = DOMAIN ch
  BY DEF Materialized
<1>2. ASSUME NEW r \in DOMAIN ch, IsChange(ch[r])
      PROVE  /\ IsChange(Materialized(ch)[r]) /\ Materialized(ch)[r].kind = ch[r].kind
             /\ Materialized(ch)[r].before = ch[r].before
             /\ Materialized(ch)[r].after = Materialize(ch[r].after)
  BY <1>2 DEF Materialized, IsChange
<1>3. \A image : /\ DOMAIN Materialize(image) = DOMAIN image
                 /\ "path" \in DOMAIN image => Materialize(image).path = image.path
  BY DEF Materialize, Times
<1>4. PathFree(ch) => PathFree(Materialized(ch))
  BY <1>1, <1>2, <1>3 DEF PathFree
<1>5. \A m, o : Moves(ch, m, o) => Moves(Materialized(ch), m, o)
  BY <1>1, <1>2, <1>3 DEF Moves, Takes
<1>6. \A m, o : Takes(ch, m, o) => Takes(Materialized(ch), m, o)
  BY <1>1, <1>2, <1>3 DEF Takes
<1> QED
  BY <1>4, <1>5, <1>6

LEMMA ReversedAre ==
    ASSUME NEW ch
    PROVE  /\ PathFree(ch) => PathFree(Reverse(ch))
           /\ \A m, o : Moves(ch, m, o) =>
                Takes(Reverse(ch), [from |-> m.to, to |-> m.from, hash |-> m.hash], o)
<1>1. DOMAIN Reverse(ch) = DOMAIN ch
  BY DEF Reverse
<1>2. ASSUME NEW r \in DOMAIN ch
      PROVE  /\ IsChange(Reverse(ch)[r]) /\ Reverse(ch)[r].before = ch[r].after
             /\ DOMAIN Reverse(ch)[r].after = DOMAIN ch[r].before
             /\ "path" \in DOMAIN ch[r].before => Reverse(ch)[r].after.path = ch[r].before.path
  BY DEF Reverse, IsChange
<1>3. PathFree(ch) => PathFree(Reverse(ch))
  BY <1>1, <1>2 DEF PathFree
<1>4. \A m, o : Moves(ch, m, o) =>
        Takes(Reverse(ch), [from |-> m.to, to |-> m.from, hash |-> m.hash], o)
  BY <1>1, <1>2 DEF Moves, Takes
<1> QED
  BY <1>3, <1>4

-----------------------------------------------------------------------------
(* Plans, operations and commands *)

Opposite(m) == [from |-> m.to, to |-> m.from, hash |-> m.hash]

PlanIs(i) ==
    /\ DOMAIN i = {"action", "target", "changes", "reversible", "undoOf", "move", "state", "expired"}
    /\ \/ i.action # "move" /\ i.move = NoMove /\ PathFree(i.changes)
       \/ i.action = "move" /\ Moves(i.changes, i.move, i.target)
       \/ i.action = "undo" /\ Takes(i.changes, i.move, i.target) /\ ~ i.reversible
\* What a plan is for does not change.
SamePlan(i, j) ==
    /\ i.action = j.action /\ i.target = j.target /\ i.changes = j.changes
    /\ i.reversible = j.reversible /\ i.move = j.move
\* An operation that can be taken back changes no path, or is the move of its plan.
OpIs(o, ps) ==
    \/ o.action # "move" /\ (o.reversible => PathFree(o.changes))
    \/ /\ o.action = "move" /\ o.plan \in DOMAIN ps
       /\ o.target = ps[o.plan].target /\ Moves(o.changes, ps[o.plan].move, o.target)
\* A command that changes a path has the plan of a move or of the undo of one, and
\* has renamed the file once it is at its transaction.
CommandIs(c, ps) ==
    \/ /\ c.action # "move" /\ c.move = NoMove /\ PathFree(c.changes)
       /\ c.back = FALSE /\ c.pc \in {"verify", "commit", "cancel"}
    \/ /\ c.plan \in DOMAIN ps /\ SamePlan(c, ps[c.plan])
       /\ \/ c.action = "move" /\ Moves(c.changes, c.move, c.target)
          \/ c.action = "undo" /\ Takes(c.changes, c.move, c.target) /\ ~ c.reversible
       /\ c.back = IF c.pc \in {"verify", "commit", "back"} THEN TRUE ELSE FALSE

PlansInv ==
    /\ \E S : plans \in Seq(S)
    /\ \E S : ops \in Seq(S)
    /\ \A i \in DOMAIN plans : PlanIs(plans[i])
    /\ \A o \in DOMAIN ops : OpIs(ops[o], plans)
    /\ \A p \in Procs : proc[p].pc \in MovePC => CommandIs(proc[p], plans)

\* The plans stay what they are for, and more may come.
Keeps(ps, qs) == \A i \in DOMAIN ps : i \in DOMAIN qs /\ SamePlan(ps[i], qs[i])

LEMMA KeptPlans ==
    ASSUME NEW ps, NEW qs, Keeps(ps, qs)
    PROVE  /\ \A c : CommandIs(c, ps) => CommandIs(c, qs)
           /\ \A o : OpIs(o, ps) => OpIs(o, qs)
<1>1. ASSUME NEW c, CommandIs(c, ps) PROVE CommandIs(c, qs)
  <2>1. c.plan \in DOMAIN ps /\ SamePlan(c, ps[c.plan]) => c.plan \in DOMAIN qs /\ SamePlan(c, qs[c.plan])
    BY DEF Keeps, SamePlan
  <2> QED
    BY <1>1, <2>1 DEF CommandIs
<1>2. ASSUME NEW o, OpIs(o, ps) PROVE OpIs(o, qs)
  <2>1. o.plan \in DOMAIN ps => /\ o.plan \in DOMAIN qs /\ qs[o.plan].target = ps[o.plan].target
                                /\ qs[o.plan].move = ps[o.plan].move
    BY DEF Keeps, SamePlan
  <2> QED
    BY <1>2, <2>1 DEF OpIs
<1> QED
  BY <1>1, <1>2

LEMMA KeepsSelf == \A ps : Keeps(ps, ps)
BY DEF Keeps, SamePlan

LEMMA Appended ==
    ASSUME NEW S, NEW s \in Seq(S), NEW x, NEW t, t = Append(s, x)
    PROVE  /\ t \in Seq(S \cup {x})
           /\ DOMAIN t = DOMAIN s \cup {Len(s) + 1} /\ t[Len(s) + 1] = x
           /\ \A i \in DOMAIN s : i # Len(s) + 1 /\ t[i] = s[i]
<1> DEFINE T == S \cup {x}
<1>2. s \in Seq(T) /\ x \in T
  <2>1. /\ Len(s) \in Nat /\ DOMAIN s = 1 .. Len(s) /\ \A i \in 1 .. Len(s) : s[i] \in T
        /\ s = [i \in 1 .. Len(s) |-> s[i]]
    OBVIOUS
  <2>2. s \in [1 .. Len(s) -> T]
    BY <2>1
  <2> QED
    BY <2>1, <2>2 DEF Seq
<1>3. t \in Seq(T)
  BY <1>2
<1> QED
  BY <1>2, <1>3

\* One process goes on, plans keep their meaning and at most one operation comes.
LEMMA PlansStep ==
    ASSUME Shapes, PlansInv,
           \E S : plans' \in Seq(S), Keeps(plans, plans'), \A i \in DOMAIN plans' : PlanIs(plans'[i]),
           ops' = ops \/ \E x : ops' = Append(ops, x) /\ OpIs(x, plans'),
           NEW p \in Procs, \A q \in Procs \ {p} : proc'[q] = proc[q],
           proc'[p].pc \in MovePC => CommandIs(proc'[p], plans')
    PROVE  PlansInv'
<1>1. (\E S : ops' \in Seq(S)) /\ \A o \in DOMAIN ops' : OpIs(ops'[o], plans')
  <2>0. \A o : OpIs(o, plans) => OpIs(o, plans')
    BY KeptPlans
  <2>1. \A o \in DOMAIN ops : OpIs(ops[o], plans')
    BY <2>0 DEF PlansInv
  <2>2. CASE ops' = ops
    BY <2>1, <2>2 DEF PlansInv
  <2>3. ASSUME NEW x, ops' = Append(ops, x), OpIs(x, plans')
        PROVE  (\E S : ops' \in Seq(S)) /\ \A o \in DOMAIN ops' : OpIs(ops'[o], plans')
    <3>1. PICK S : ops \in Seq(S)
      BY DEF PlansInv
    <3>2. /\ ops' \in Seq(S \cup {x})
          /\ DOMAIN ops' = DOMAIN ops \cup {Len(ops) + 1} /\ ops'[Len(ops) + 1] = x
          /\ \A i \in DOMAIN ops : i # Len(ops) + 1 /\ ops'[i] = ops[i]
      BY <2>3, <3>1, Appended
    <3> QED
      BY <2>1, <2>3, <3>2
  <2> QED
    BY <2>2, <2>3
<1>2. \A q \in Procs : proc'[q].pc \in MovePC => CommandIs(proc'[q], plans')
  <2>0. \A c : CommandIs(c, plans) => CommandIs(c, plans')
    BY KeptPlans
  <2>1. \A q \in Procs \ {p} : proc[q].pc \in MovePC => CommandIs(proc[q], plans')
    BY <2>0 DEF PlansInv
  <2> QED
    BY <2>1
<1> QED
  BY <1>1, <1>2 DEF PlansInv

\* A command launched or taken on, with the plans as they are.
LEMMA CommandStep ==
    ASSUME Shapes, PlansInv, NEW p \in Procs, NEW r, Set(p, r), plans' = plans,
           r.pc \in MovePC => CommandIs(r, plans),
           ops' = ops \/ \E x : ops' = Append(ops, x) /\ OpIs(x, plans)
    PROVE  PlansInv'
<1>1. /\ \E S : plans' \in Seq(S)
      /\ Keeps(plans, plans')
      /\ \A i \in DOMAIN plans' : PlanIs(plans'[i])
  BY KeepsSelf DEF PlansInv
<1>2. /\ \A q \in Procs \ {p} : proc'[q] = proc[q]
      /\ proc'[p] = r
  BY SetDoes
<1> QED
  BY <1>1, <1>2, PlansStep

\* A plan is made.
LEMMA PlannedKeeps ==
    ASSUME Shapes, PlansInv, NEW new, PlanIs(new), Planned(new), proc' = proc
    PROVE  PlansInv'
<1>1. PICK S : plans \in Seq(S)
  BY DEF PlansInv
<1>2. plans' = Append(plans, new) /\ ops' = ops
  BY DEF Planned
<1>3. /\ plans' \in Seq(S \cup {new})
      /\ DOMAIN plans' = DOMAIN plans \cup {Len(plans) + 1} /\ plans'[Len(plans) + 1] = new
      /\ \A i \in DOMAIN plans : i # Len(plans) + 1 /\ plans'[i] = plans[i]
  BY <1>1, <1>2, Appended
<1>4. Keeps(plans, plans')
  BY <1>3 DEF Keeps, SamePlan
<1>5. \A i \in DOMAIN plans' : PlanIs(plans'[i])
  BY <1>3 DEF PlansInv
<1>6. (\A o : OpIs(o, plans) => OpIs(o, plans')) /\ \A c : CommandIs(c, plans) => CommandIs(c, plans')
  BY <1>4, KeptPlans
<1>7. /\ \A o \in DOMAIN ops : OpIs(ops[o], plans')
      /\ \A q \in Procs : proc[q].pc \in MovePC => CommandIs(proc[q], plans')
  BY <1>6 DEF PlansInv
<1> QED
  BY <1>2, <1>3, <1>5, <1>7 DEF PlansInv

\* The state of a plan changes, or its time passes.
LEMMA PlanTurns ==
    ASSUME PlansInv, NEW i \in DOMAIN plans, NEW x,
           \/ plans' = [plans EXCEPT ![i].state = x]
           \/ plans' = [plans EXCEPT ![i].expired = x]
    PROVE  /\ \E S : plans' \in Seq(S)
           /\ Keeps(plans, plans') /\ \A j \in DOMAIN plans' : PlanIs(plans'[j])
<1>1. PICK y : /\ plans' = [plans EXCEPT ![i] = y]
               /\ y = [plans[i] EXCEPT !.state = x] \/ y = [plans[i] EXCEPT !.expired = x]
  OBVIOUS
<1>2. PlanIs(plans[i])
  BY DEF PlansInv
<1>3. /\ DOMAIN y = DOMAIN plans[i] /\ y.action = plans[i].action /\ y.target = plans[i].target
      /\ y.changes = plans[i].changes /\ y.reversible = plans[i].reversible /\ y.move = plans[i].move
  BY <1>1, <1>2 DEF PlanIs
<1>4. PlanIs(y) /\ SamePlan(plans[i], y)
  BY <1>2, <1>3 DEF PlanIs, SamePlan
<1>5. PICK S : plans \in Seq(S)
  BY DEF PlansInv
<1>6. plans' \in Seq(S \cup {y})
  <2>1. /\ Len(plans) \in Nat /\ DOMAIN plans = 1 .. Len(plans)
        /\ \A j \in 1 .. Len(plans) : plans[j] \in S
    BY <1>5
  <2>2. plans' \in [1 .. Len(plans) -> S \cup {y}]
    BY <1>1, <2>1
  <2> QED
    BY <2>1, <2>2 DEF Seq
<1>7. DOMAIN plans' = DOMAIN plans /\ plans'[i] = y /\ \A j \in DOMAIN plans : j # i => plans'[j] = plans[j]
  BY <1>1
<1>8. Keeps(plans, plans')
  BY <1>4, <1>7 DEF Keeps, SamePlan
<1>9. \A j \in DOMAIN plans' : PlanIs(plans'[j])
  BY <1>4, <1>7 DEF PlansInv
<1> QED
  BY <1>6, <1>8, <1>9

LEMMA PlanMarked ==
    ASSUME PlansInv, NEW i, NEW x, plans' = [plans EXCEPT ![i].state = x]
    PROVE  /\ \E S : plans' \in Seq(S)
           /\ Keeps(plans, plans') /\ \A j \in DOMAIN plans' : PlanIs(plans'[j])
<1>1. CASE i \in DOMAIN plans
  BY <1>1, PlanTurns
<1>2. CASE i \notin DOMAIN plans
  <2>1. PICK S : plans \in Seq(S)
    BY DEF PlansInv
  <2>2. plans = [j \in DOMAIN plans |-> plans[j]]
    BY <2>1
  <2>3. plans' = plans
    BY <1>2, <2>2
  <2> QED
    BY <2>3, KeepsSelf DEF PlansInv
<1> QED
  BY <1>1, <1>2

-----------------------------------------------------------------------------
(* The steps keep PlansInv *)

\* The path of a note is that of its Source.
PathsInv ==
    /\ DOMAIN row = Rows
    /\ \A r \in Rows : KindOf[r] \in {"note", "source"} => "path" \in DOMAIN row[r]
    /\ \A o \in Notes : row[o].path \in Dirs /\ row[NoteSource(o)].path = row[o].path

LEMMA PlanDeleteKeeps ==
    ASSUME Shapes, PlansInv, PlanDelete
    PROVE  PlansInv'
<1>1. PICK x \in limit.targets :
         /\ MayDelete(x) /\ Elsewhere("plan")
         /\ Planned(NewPlan("delete", x, Changes(Wanted(x)), TRUE, 0, NoMove))
  BY DEF PlanDelete
<1>2. PathFree(Changes(Wanted(x)))
  BY <1>1, WantedPlain, ChangesAre DEF MayDelete
<1>3. PlanIs(NewPlan("delete", x, Changes(Wanted(x)), TRUE, 0, NoMove))
  BY <1>2 DEF PlanIs, NewPlan
<1>4. proc' = proc
  BY <1>1 DEF Elsewhere
<1> QED
  BY <1>1, <1>3, <1>4, PlannedKeeps

LEMMA PlanUndoKeeps ==
    ASSUME Shapes, PlansInv, PlanUndo
    PROVE  PlansInv'
<1>1. PICK o \in DOMAIN ops :
         /\ ~ NotReversible(o) /\ Elsewhere("undo")
         /\ Planned(NewPlan("undo", ops[o].target, Reverse(ops[o].changes), FALSE, o, MoveOf(o)))
  BY DEF PlanUndo
<1> DEFINE ch == ops[o].changes
           new == NewPlan("undo", ops[o].target, Reverse(ch), FALSE, o, MoveOf(o))
<1>2. OpIs(ops[o], plans) /\ ops[o].reversible
  BY <1>1 DEF PlansInv, NotReversible
<1>3. ASSUME ops[o].action # "move" /\ PathFree(ch) PROVE PlanIs(new)
  <2>1. MoveOf(o) = NoMove
    BY <1>3 DEF MoveOf
  <2>2. PathFree(Reverse(ch))
    BY <1>3, ReversedAre
  <2> QED
    BY <2>1, <2>2 DEF PlanIs, NewPlan
<1>4. ASSUME ops[o].action = "move", ops[o].plan \in DOMAIN plans,
             ops[o].target = plans[ops[o].plan].target,
             Moves(ch, plans[ops[o].plan].move, ops[o].target)
      PROVE  PlanIs(new)
  <2>1. ops[o].plan # 0
    <3>1. PICK S : plans \in Seq(S)
      BY DEF PlansInv
    <3>2. DOMAIN plans = 1 .. Len(plans) /\ Len(plans) \in Nat
      BY <3>1
    <3> QED
      BY <1>4, <3>2
  <2>2. MoveOf(o) = Opposite(plans[ops[o].plan].move)
    BY <1>4, <2>1 DEF MoveOf, Opposite
  <2>3. Takes(Reverse(ch), Opposite(plans[ops[o].plan].move), ops[o].target)
    BY <1>4, ReversedAre DEF Opposite
  <2> QED
    BY <2>2, <2>3 DEF PlanIs, NewPlan
<1>5. PlanIs(new)
  BY <1>2, <1>3, <1>4 DEF OpIs
<1>6. proc' = proc
  BY <1>1 DEF Elsewhere
<1> QED
  BY <1>1, <1>5, <1>6, PlannedKeeps

LEMMA PlanMoveKeeps ==
    ASSUME Shapes, PlansInv, PathsInv, PlanMove
    PROVE  PlansInv'
<1>1. PICK o \in Notes \cap limit.targets, d \in Dirs :
        /\ MayMove(o, d) /\ Elsewhere("plan")
        /\ Planned(NewPlan("move", o, MoveChanges(o, d), TRUE, 0,
                           [from |-> row[o].path, to |-> d, hash |-> files[o][row[o].path]]))
  BY DEF PlanMove
<1> DEFINE m == [from |-> row[o].path, to |-> d, hash |-> files[o][row[o].path]]
<1>2. /\ row[o].path \in Dirs /\ row[NoteSource(o)].path = row[o].path /\ row[o].path # d
  BY <1>1 DEF PathsInv, MayMove
<1>3. Moves(MoveChanges(o, d), m, o)
  BY <1>2 DEF Moves, Takes, MoveChanges, IsChange
<1>4. PlanIs(NewPlan("move", o, MoveChanges(o, d), TRUE, 0, m))
  BY <1>3 DEF PlanIs, NewPlan
<1>5. proc' = proc
  BY <1>1 DEF Elsewhere
<1> QED
  BY <1>1, <1>4, <1>5, PlannedKeeps

LEMMA ExpireKeeps ==
    ASSUME Shapes, PlansInv, Expire
    PROVE  PlansInv'
<1>1. PICK i \in DOMAIN plans :
         plans' = [plans EXCEPT ![i].expired = TRUE] /\ ops' = ops /\ proc' = proc
  BY DEF Expire, Elsewhere
<1>2. /\ \E S : plans' \in Seq(S)
      /\ Keeps(plans, plans') /\ \A j \in DOMAIN plans' : PlanIs(plans'[j])
  BY <1>1, PlanTurns
<1>3. (\A o : OpIs(o, plans) => OpIs(o, plans')) /\ \A c : CommandIs(c, plans) => CommandIs(c, plans')
  BY <1>2, KeptPlans
<1>4. /\ \A o \in DOMAIN ops : OpIs(ops[o], plans')
      /\ \A q \in Procs : proc[q].pc \in MovePC => CommandIs(proc[q], plans')
  BY <1>3 DEF PlansInv
<1>5. \E S : ops \in Seq(S)
  BY DEF PlansInv
<1> QED
  BY <1>1, <1>2, <1>4, <1>5 DEF PlansInv

LEMMA CancelWriteKeeps ==
    ASSUME Shapes, PlansInv, NEW p \in Procs, CancelWrite(p)
    PROVE  PlansInv'
<1>1. /\ plans' = [plans EXCEPT ![proc[p].plan].state = "cancelled"] /\ ops' = ops /\ Set(p, Idle)
  BY DEF CancelWrite, Finish, Become
<1>2. /\ \E S : plans' \in Seq(S)
      /\ Keeps(plans, plans') /\ \A j \in DOMAIN plans' : PlanIs(plans'[j])
  BY <1>1, PlanMarked
<1>3. proc'[p] = Idle /\ \A q \in Procs \ {p} : proc'[q] = proc[q]
  BY <1>1, SetDoes
<1> QED
  BY <1>1, <1>2, <1>3, PlansStep DEF Idle, MovePC

\* The command of a plan.
LEMMA CommandOf ==
    ASSUME PlansInv, NEW i \in DOMAIN plans
    PROVE  /\ plans[i].move = NoMove => \A pc \in {"verify", "cancel"} : CommandIs(Command(pc, i), plans)
           /\ plans[i].move # NoMove =>
                \A pc \in {"describe", "check", "cancel"} : CommandIs(Command(pc, i), plans)
<1>1. PlanIs(plans[i])
  BY DEF PlansInv
<1>2. \A pc : /\ Command(pc, i).plan = i /\ SamePlan(Command(pc, i), plans[i]) /\ Command(pc, i).pc = pc
              /\ Command(pc, i).back = FALSE
  BY DEF Command, SamePlan
<1>3. CASE plans[i].action # "move" /\ plans[i].move = NoMove /\ PathFree(plans[i].changes)
  <2>1. ASSUME NEW pc \in {"verify", "cancel"} PROVE CommandIs(Command(pc, i), plans)
    <3> DEFINE c == Command(pc, i)
    <3>1. /\ c.action = plans[i].action /\ c.move = plans[i].move /\ c.changes = plans[i].changes
          /\ c.back = FALSE /\ c.pc = pc
      BY <1>2 DEF SamePlan
    <3> HIDE DEF c
    <3>2. CommandIs(c, plans)
      BY <1>3, <3>1 DEF CommandIs
    <3> QED
      BY <3>2 DEF c
  <2> QED
    BY <1>3, <2>1
<1>4. CASE \/ plans[i].action = "move" /\ Moves(plans[i].changes, plans[i].move, plans[i].target)
           \/ /\ plans[i].action = "undo" /\ Takes(plans[i].changes, plans[i].move, plans[i].target)
              /\ ~ plans[i].reversible
  <2>1. plans[i].move # NoMove
    BY <1>4 DEF NoMove, Moves, Takes
  <2> QED
    BY <1>2, <1>4, <2>1 DEF CommandIs, SamePlan
<1> QED
  BY <1>1, <1>3, <1>4 DEF PlanIs

LEMMA ApplyKeeps ==
    ASSUME Shapes, PlansInv, NEW p \in Procs, Apply(p)
    PROVE  PlansInv'
<1>1. PICK i \in DOMAIN plans :
        /\ Launch(p, "apply", IF plans[i].expired THEN Idle
                              ELSE Command(IF plans[i].move = NoMove THEN "verify"
                                           ELSE IF plans[i].action = "move" THEN "describe" ELSE "check", i))
        /\ plans' = IF plans[i].expired THEN [plans EXCEPT ![i].state = "expired"] ELSE plans
        /\ ops' = ops
  BY DEF Apply
<1>2. CASE plans[i].expired
  <2>1. /\ \E S : plans' \in Seq(S)
        /\ Keeps(plans, plans') /\ \A j \in DOMAIN plans' : PlanIs(plans'[j])
    BY <1>1, <1>2, PlanTurns
  <2>2. Set(p, Idle)
    BY <1>1, <1>2 DEF Launch
  <2>3. proc'[p] = Idle /\ \A q \in Procs \ {p} : proc'[q] = proc[q]
    BY <2>2, SetDoes
  <2>4. proc'[p].pc \notin MovePC
    BY <2>3 DEF Idle, MovePC
  <2> QED
    BY <1>1, <2>1, <2>3, <2>4, PlansStep
<1>3. CASE ~ plans[i].expired
  <2>1. \E pc : CommandIs(Command(pc, i), plans) /\ Set(p, Command(pc, i))
    BY <1>1, <1>3, CommandOf DEF Launch
  <2> QED
    BY <1>1, <1>3, <2>1, CommandStep
<1> QED
  BY <1>2, <1>3

LEMMA CancelKeeps ==
    ASSUME Shapes, PlansInv, NEW p \in Procs, Cancel(p)
    PROVE  PlansInv'
<1>1. PICK i \in DOMAIN plans : Set(p, Command("cancel", i)) /\ plans' = plans /\ ops' = ops
  BY DEF Cancel, Launch, planVars
<1>2. CommandIs(Command("cancel", i), plans)
  BY CommandOf
<1> QED
  BY <1>1, <1>2, CommandStep

\* Every nonempty set of naturals has a least element, and one of operations a latest.
LEMMA LeastNatural ==
    ASSUME NEW S, S \subseteq Nat, S # {}
    PROVE  \E m \in S : \A k \in S : m <= k
<1> DEFINE R == OpToRel(<, Nat)
<1>1. IsWellFoundedOn(R, Nat)
  BY NatLessThanWellFounded
<1>2. \A i, j \in Nat : <<i, j>> \in R <=> i < j
  BY DEF OpToRel
<1> HIDE DEF R
<1>3. PICK m \in S : \A k \in S : ~ (<<k, m>> \in R)
  BY <1>1, WFMin
<1>4. ASSUME NEW k \in S PROVE m <= k
  <2>1. ~ (k < m) /\ k \in Nat /\ m \in Nat
    BY <1>2, <1>3
  <2> QED
    BY <2>1
<1> QED
  BY <1>4

LEMMA LatestOf ==
    ASSUME \E S : ops \in Seq(S), NEW O, O # {}, O \subseteq DOMAIN ops
    PROVE  Latest(O) \in O /\ \A u \in O : u <= Latest(O)
<1>1. DOMAIN ops = 1 .. Len(ops) /\ Len(ops) \in Nat
  OBVIOUS
<1> DEFINE U == {n \in Nat : \A u \in O : u <= n}
<1>2. PICK n \in U : \A k \in U : n <= k
  <2>1. U \subseteq Nat /\ U # {}
    BY <1>1
  <2> HIDE DEF U
  <2> QED
    BY <2>1, LeastNatural
<1>3. n \in O
  <2>1. SUFFICES ASSUME n \notin O PROVE FALSE
    OBVIOUS
  <2>2. n - 1 \in U
    BY <1>1, <1>2, <2>1
  <2> QED
    BY <1>2, <2>2
<1> QED
  BY <1>2, <1>3 DEF Latest

LEMMA RestoreKeeps ==
    ASSUME Shapes, PlansInv, NEW p \in Procs, Restore(p)
    PROVE  PlansInv'
<1>1. PICK x \in limit.targets :
         /\ KindOf[x] \in Deletable /\ DeletesOf(x) # {}
         /\ LET o == Latest(DeletesOf(x))
            IN /\ ~ NotReversible(o)
               /\ Launch(p, "restore",
                    IF Matches(Reverse(ops[o].changes))
                    THEN [pc |-> "commit", plan |-> 0, changes |-> Reverse(ops[o].changes), undoOf |-> o,
                          reversible |-> TRUE, action |-> "restore", target |-> x, move |-> NoMove, back |-> FALSE]
                    ELSE Idle)
  BY DEF Restore
<1> DEFINE o == Latest(DeletesOf(x))
           r == [pc |-> "commit", plan |-> 0, changes |-> Reverse(ops[o].changes), undoOf |-> o,
                 reversible |-> TRUE, action |-> "restore", target |-> x, move |-> NoMove, back |-> FALSE]
<1>2. plans' = plans /\ ops' = ops /\ (Set(p, r) \/ Set(p, Idle)) /\ ~ NotReversible(o)
  BY <1>1 DEF Restore, planVars, Launch
<1>3. o \in DOMAIN ops /\ x \in DOMAIN ops[o].changes /\ ops[o].changes[x].kind \in {"deleted", "detached"}
  <2>1. /\ DeletesOf(x) \subseteq DOMAIN ops
        /\ \A u \in DeletesOf(x) : /\ x \in DOMAIN ops[u].changes
                                   /\ ops[u].changes[x].kind \in {"deleted", "detached"}
    BY DEF DeletesOf
  <2>2. o \in DeletesOf(x)
    BY <1>1, <2>1, LatestOf DEF PlansInv
  <2> QED
    BY <2>1, <2>2
<1>5. CASE Set(p, r)
  <2>1. OpIs(ops[o], plans) /\ ops[o].reversible
    BY <1>2, <1>3 DEF PlansInv, NotReversible
  <2>2. PathFree(ops[o].changes)
    BY <1>3, <2>1 DEF OpIs, Moves
  <2>3. PathFree(Reverse(ops[o].changes))
    BY <2>2, ReversedAre
  <2>4. CommandIs(r, plans)
    BY <2>3 DEF CommandIs
  <2>5. Idle.pc \notin MovePC
    BY DEF Idle, MovePC
  <2> HIDE DEF r, o
  <2> QED
    BY <1>2, <2>4, <2>5, CommandStep
<1>4. CASE Set(p, Idle)
  BY <1>2, <1>4, CommandStep DEF Idle, MovePC
<1> QED
  BY <1>2, <1>4, <1>5

LEMMA ModerateKeeps ==
    ASSUME Shapes, PlansInv, NEW p \in Procs, Moderate(p)
    PROVE  PlansInv'
<1>1. \E x \in limit.targets : \E W :
        /\ Plain(W)
        /\ Set(p, [pc |-> "commit", plan |-> 0, changes |-> Changes(W), undoOf |-> 0, reversible |-> FALSE,
                   action |-> "moderate", target |-> x, move |-> NoMove, back |-> FALSE])
  <2>1. PICK x \in limit.targets :
          /\ KindOf[x] \in DOMAIN Verdicts
          /\ \E v \in Verdicts[KindOf[x]] :
              LET why == x \o v
                  desired == IF KindOf[x] = "claim" THEN "needs_review" ELSE "stale"
                  W == {Want(x, v, "moderated", <<>>)} \cup TopicsAndArtifacts(AffectedTopics(x), why, desired)
                       \cup WantAll(In("answer", {"active"}), "stale", "invalidated",
                                    [stale_at |-> Now, stale_reason |-> why])
              IN Launch(p, "moderate",
                   [pc |-> "commit", plan |-> 0, changes |-> Changes(W), undoOf |-> 0, reversible |-> FALSE,
                    action |-> "moderate", target |-> x, move |-> NoMove, back |-> FALSE])
    BY DEF Moderate
  <2>2. PICK v \in Verdicts[KindOf[x]] :
              LET why == x \o v
                  desired == IF KindOf[x] = "claim" THEN "needs_review" ELSE "stale"
                  W == {Want(x, v, "moderated", <<>>)} \cup TopicsAndArtifacts(AffectedTopics(x), why, desired)
                       \cup WantAll(In("answer", {"active"}), "stale", "invalidated",
                                    [stale_at |-> Now, stale_reason |-> why])
              IN Launch(p, "moderate",
                   [pc |-> "commit", plan |-> 0, changes |-> Changes(W), undoOf |-> 0, reversible |-> FALSE,
                    action |-> "moderate", target |-> x, move |-> NoMove, back |-> FALSE])
    BY <2>1
  <2> DEFINE why == x \o v
             desired == IF KindOf[x] = "claim" THEN "needs_review" ELSE "stale"
             W == {Want(x, v, "moderated", <<>>)} \cup TopicsAndArtifacts(AffectedTopics(x), why, desired)
                  \cup WantAll(In("answer", {"active"}), "stale", "invalidated",
                               [stale_at |-> Now, stale_reason |-> why])
  <2>3. Plain(W)
    BY PlainSets, TopicsPlain
  <2> HIDE DEF why, desired
  <2>4. Launch(p, "moderate",
              [pc |-> "commit", plan |-> 0, changes |-> Changes(W), undoOf |-> 0, reversible |-> FALSE,
               action |-> "moderate", target |-> x, move |-> NoMove, back |-> FALSE])
    BY <2>2 DEF why, desired
  <2> QED
    BY <2>3, <2>4 DEF Launch
<1>2. PICK x \in limit.targets :
        \E W :
          /\ Plain(W)
          /\ Set(p, [pc |-> "commit", plan |-> 0, changes |-> Changes(W), undoOf |-> 0, reversible |-> FALSE,
                     action |-> "moderate", target |-> x, move |-> NoMove, back |-> FALSE])
  BY <1>1
<1>3. PICK W :
        /\ Plain(W)
        /\ Set(p, [pc |-> "commit", plan |-> 0, changes |-> Changes(W), undoOf |-> 0, reversible |-> FALSE,
                   action |-> "moderate", target |-> x, move |-> NoMove, back |-> FALSE])
  BY <1>2
<1> DEFINE r == [pc |-> "commit", plan |-> 0, changes |-> Changes(W), undoOf |-> 0, reversible |-> FALSE,
                 action |-> "moderate", target |-> x, move |-> NoMove, back |-> FALSE]
<1>4. CommandIs(r, plans)
  BY <1>3, ChangesAre DEF CommandIs
<1>5. plans' = plans /\ ops' = ops
  BY DEF Moderate, planVars
<1> QED
  BY <1>3, <1>4, <1>5, CommandStep

\* A command goes on to the next step of its plan.
LEMMA CommandGoes ==
    ASSUME NEW c, NEW ps, CommandIs(c, ps), PlanShape(c), c.pc \in MovePC
    PROVE  /\ c.pc = "verify" => CommandIs([c EXCEPT !.pc = "commit"], ps)
           /\ c.pc \in {"verify", "commit"} /\ c.back => CommandIs([c EXCEPT !.pc = "back"], ps)
           /\ c.pc = "describe" => CommandIs([c EXCEPT !.pc = "hash"], ps)
           /\ c.pc \in {"hash", "check"} => CommandIs([c EXCEPT !.pc = "rename"], ps)
           /\ c.pc = "rename" => CommandIs([c EXCEPT !.pc = "verify", !.back = TRUE], ps)
<1>1. DOMAIN c = {"pc", "plan", "changes", "undoOf", "reversible", "action", "target", "move", "back"}
  BY DEF PlanShape, Has, MovePC, UpdatePC
<1>2. ASSUME NEW pc, NEW b
      PROVE  LET d == [c EXCEPT !.pc = pc, !.back = b]
             IN /\ d.pc = pc /\ d.back = b /\ d.plan = c.plan /\ d.changes = c.changes
                /\ d.action = c.action /\ d.target = c.target /\ d.move = c.move
                /\ d.reversible = c.reversible
  BY <1>1
<1>3. ASSUME NEW pc
      PROVE  LET d == [c EXCEPT !.pc = pc]
             IN /\ d.pc = pc /\ d.back = c.back /\ d.plan = c.plan /\ d.changes = c.changes
                /\ d.action = c.action /\ d.target = c.target /\ d.move = c.move
                /\ d.reversible = c.reversible
  BY <1>1
<1>4. CASE c.action # "move" /\ c.move = NoMove /\ PathFree(c.changes) /\ c.back = FALSE
           /\ c.pc \in {"verify", "commit", "cancel"}
  <2> DEFINE d == [c EXCEPT !.pc = "commit"]
  <2>1. d.pc = "commit" /\ d.back = c.back /\ d.changes = c.changes /\ d.action = c.action /\ d.move = c.move
    BY <1>3
  <2> HIDE DEF d
  <2>2. CommandIs(d, ps)
    BY <1>4, <2>1 DEF CommandIs
  <2> QED
    BY <1>4, <2>2 DEF d
<1>5. CASE /\ c.plan \in DOMAIN ps /\ SamePlan(c, ps[c.plan])
           /\ \/ c.action = "move" /\ Moves(c.changes, c.move, c.target)
              \/ c.action = "undo" /\ Takes(c.changes, c.move, c.target) /\ ~ c.reversible
           /\ c.back = IF c.pc \in {"verify", "commit", "back"} THEN TRUE ELSE FALSE
  <2>1. ASSUME NEW d, d.plan = c.plan, d.changes = c.changes, d.action = c.action, d.target = c.target,
               d.move = c.move, d.reversible = c.reversible,
               d.back = IF d.pc \in {"verify", "commit", "back"} THEN TRUE ELSE FALSE
        PROVE  CommandIs(d, ps)
    BY <1>5, <2>1 DEF CommandIs, SamePlan
  <2>2. ASSUME NEW pc, c.back = IF pc \in {"verify", "commit", "back"} THEN TRUE ELSE FALSE
        PROVE  CommandIs([c EXCEPT !.pc = pc], ps)
    BY <1>3, <2>1, <2>2
  <2>3. CommandIs([c EXCEPT !.pc = "verify", !.back = TRUE], ps)
    <3> DEFINE d == [c EXCEPT !.pc = "verify", !.back = TRUE]
    <3>1. /\ d.pc = "verify" /\ d.back = TRUE /\ d.plan = c.plan /\ d.changes = c.changes
          /\ d.action = c.action /\ d.target = c.target /\ d.move = c.move
          /\ d.reversible = c.reversible
      BY <1>2
    <3> HIDE DEF d
    <3>2. CommandIs(d, ps)
      BY <2>1, <3>1
    <3> QED
      BY <3>2 DEF d
  <2> QED
    BY <1>5, <2>2, <2>3
<1> QED
  BY <1>4, <1>5 DEF CommandIs

LEMMA VerifyKeeps ==
    ASSUME Shapes, PlansInv, NEW p \in Procs, \/ Verify(p) \/ Describe(p) \/ HashSource(p)
                                              \/ CheckUndo(p) \/ Rename(p) \/ MoveBack(p)
    PROVE  PlansInv'
<1> DEFINE c == proc[p]
<1>1. c.pc \in {"verify", "describe", "hash", "check", "rename", "back"}
  BY DEF Verify, Describe, HashSource, CheckUndo, Rename, MoveBack, At
<1>2. c.pc \in MovePC /\ c.pc \in PlanPC
  BY <1>1 DEF MovePC, PlanPC
<1>3. PlanShape(c) /\ CommandIs(c, plans)
  BY <1>2, ShapeOf DEF Shapes, PlansInv
<1>4. plans' = plans /\ ops' = ops
  BY DEF Verify, Describe, HashSource, CheckUndo, Rename, MoveBack, planVars
<1>5. \/ Set(p, Idle)
      \/ \E d : CommandIs(d, plans) /\ Set(p, d)
  <2>1. CASE Verify(p)
    BY <1>2, <1>3, <2>1, CommandGoes DEF Verify, Move, Goto, Conflict, Finish, Become, At
  <2>2. CASE Describe(p) \/ HashSource(p) \/ CheckUndo(p)
    BY <1>2, <1>3, <2>2, CommandGoes DEF Describe, HashSource, CheckUndo, Move, Goto, Finish, Become, At
  <2>3. CASE Rename(p)
    BY <1>2, <1>3, <2>3, CommandGoes DEF Rename, Finish, Become, At
  <2>4. CASE MoveBack(p)
    BY <2>4 DEF MoveBack, Finish, Become
  <2> QED
    BY <2>1, <2>2, <2>3, <2>4
<1>6. Idle.pc \notin MovePC
  BY DEF Idle, MovePC
<1> QED
  BY <1>4, <1>5, <1>6, CommandStep

LEMMA UpdatesKeep ==
    ASSUME Shapes, PlansInv, NEW p \in Procs, Update(p) \/ WriteNote(p) \/ SyncNote(p) \/ RecordNote(p)
    PROVE  PlansInv'
<1>1. plans' = plans /\ ops' = ops
  BY DEF Update, WriteNote, SyncNote, RecordNote, planVars, Put, PutAll
<1>2. \E r : Set(p, r) /\ r.pc \notin MovePC
  <2>1. CASE Update(p)
    BY <2>1 DEF Update, Launch, MovePC
  <2>2. ASSUME ~ Update(p) PROVE PlanShape(proc[p]) /\ proc[p].pc \in UpdatePC
    <3>1. proc[p].pc \in UpdatePC
      BY <2>2 DEF WriteNote, SyncNote, RecordNote, At, UpdatePC
    <3> QED
      BY <3>1, ShapeOf DEF Shapes, PlanPC
  <2>3. CASE ~ Update(p)
    <3>1. \A pc \in UpdatePC : [proc[p] EXCEPT !.pc = pc].pc = pc
      BY <2>2, <2>3 DEF PlanShape, Has, UpdatePC, MovePC
    <3>2. Set(p, Idle) \/ \E pc \in UpdatePC : Set(p, [proc[p] EXCEPT !.pc = pc])
      BY <2>3 DEF WriteNote, SyncNote, RecordNote, Move, Goto, Finish, Become, UpdatePC
    <3>3. UpdatePC \cap MovePC = {} /\ Idle.pc \notin MovePC
      BY DEF UpdatePC, MovePC, Idle
    <3> QED
      BY <3>1, <3>2, <3>3
  <2> QED
    BY <2>1, <2>3
<1> QED
  BY <1>1, <1>2, CommandStep

LEMMA CommitKeeps ==
    ASSUME Shapes, PlansInv, NEW p \in Procs, Commit(p)
    PROVE  PlansInv'
<1> DEFINE c == proc[p]
           ch == Materialized(c.changes)
           x == [plan |-> c.plan, action |-> c.action, target |-> c.target,
                 changes |-> ch, undoOf |-> c.undoOf, reversible |-> c.reversible]
<1>1. c.pc = "commit" /\ c.pc \in MovePC /\ c.pc \in PlanPC
  BY DEF Commit, At, MovePC, PlanPC
<1>2. PlanShape(c) /\ CommandIs(c, plans)
  BY <1>1, ShapeOf DEF Shapes, PlansInv
<1>3. CASE Recorded(c, ch) /\ Finish(p)
  <2>1. /\ ops' = Append(ops, x)
        /\ plans' = plans \/ plans' = [plans EXCEPT ![c.plan].state = "applied"]
    BY <1>3 DEF Recorded
  <2>2. /\ \E S : plans' \in Seq(S)
        /\ Keeps(plans, plans') /\ \A j \in DOMAIN plans' : PlanIs(plans'[j])
    BY <2>1, PlanMarked, KeepsSelf DEF PlansInv
  <2>3. OpIs(x, plans)
    BY <1>2, MaterializedAre DEF CommandIs, OpIs, SamePlan
  <2>4. OpIs(x, plans')
    BY <2>2, <2>3, KeptPlans
  <2>5. proc'[p] = Idle /\ \A q \in Procs \ {p} : proc'[q] = proc[q]
    BY <1>3, SetDoes DEF Finish, Become
  <2>6. proc'[p].pc \notin MovePC
    BY <2>5 DEF Idle, MovePC
  <2> HIDE DEF x
  <2> QED
    BY <2>1, <2>2, <2>4, <2>5, <2>6, PlansStep
<1>4. CASE Conflict(p) /\ ops' = ops /\ plans' = plans
  <2>1. Set(p, Idle) \/ (c.back /\ Set(p, [c EXCEPT !.pc = "back"]))
    BY <1>4 DEF Conflict, Finish, Become, Move, Goto
  <2>2. c.back => CommandIs([c EXCEPT !.pc = "back"], plans)
    BY <1>1, <1>2, CommandGoes
  <2>3. Idle.pc \notin MovePC
    BY DEF Idle, MovePC
  <2> QED
    BY <1>4, <2>1, <2>2, <2>3, CommandStep
<1> QED
  BY <1>3, <1>4 DEF Commit

\* Other components leave the plans, the rows and their commands alone.
LEMMA PlanFrame ==
    ASSUME Shapes, Step, ~ NoteAndPlanStep
    PROVE  /\ planVars' = planVars /\ noteVars' = noteVars
           /\ \A q \in Procs : PlanShape(proc'[q]) => proc'[q] = proc[q]
           /\ \A q \in Procs : PlanShape(proc[q]) =>
                \/ proc'[q] = proc[q]
                \/ proc'[q] = Idle /\ used'["fault"] # used["fault"]
<1>0. used["fault"] \in Nat
  BY CountedAssumption DEF Shapes, Counted
<1>1. CASE \E p \in Procs : Kill(p)
  <2>1. PICK p \in Procs : Kill(p)
    BY <1>1
  <2>2. planVars' = planVars /\ noteVars' = noteVars
    BY <2>1 DEF Kill
  <2>3. used'["fault"] = used["fault"] + 1
    BY <2>1, KillActs, SpendDoes DEF Counted
  <2>4. proc'[p] = Idle /\ \A q \in Procs : q # p => proc'[q] = proc[q]
    BY <2>1, KillActs
  <2>5. ~ PlanShape(Idle)
    BY DEF PlanShape, Has, Idle
  <2> QED
    BY <1>0, <2>2, <2>3, <2>4, <2>5
<1>2. CASE ~ \E p \in Procs : Kill(p)
  <2>1. planVars' = planVars /\ noteVars' = noteVars
    BY <1>2 DEF Step, DaemonsStep, MigrationsStep, BackupsStep, InitsStep, ConfigsStep
  <2>2. \A q \in Procs : (PlanShape(proc'[q]) \/ PlanShape(proc[q])) => proc'[q] = proc[q]
    BY <1>2, StepGroups, Disjoint DEF DaemonMoves, DaemonSlot, MigrationMoves,
       MigrationSlot, BackupMoves, BackupSlot, InitMoves, InitSlot, ConfigMoves, ConfigSlot
  <2> QED
    BY <2>1, <2>2
<1> QED
  BY <1>1, <1>2

\* What the other commands do is one statement each.
LEMMA TouchPuts ==
    ASSUME Touch
    PROVE  \E R, S, image : PutAll(R, S, image)
BY DEF Touch, ActivateGraph, TouchContent, TouchTopic, Put, PutIf, PutUnless

LEMMA PlansInvStep ==
    ASSUME Shapes, Shapes', PlansInv, PathsInv, Step
    PROVE  PlansInv'
<1>1. CASE ~ NoteAndPlanStep
  <2>1. plans' = plans /\ ops' = ops /\ \A q \in Procs : PlanShape(proc'[q]) => proc'[q] = proc[q]
    BY <1>1, PlanFrame DEF planVars
  <2>2. \A q \in Procs : proc'[q].pc \in MovePC => proc'[q] = proc[q]
    BY <2>1, ShapeOf DEF Shapes, PlanPC
  <2> QED
    BY <2>1, <2>2 DEF PlansInv
<1>2. CASE Touch
  BY <1>2, TouchPuts DEF Touch, Elsewhere, PlansInv, PutAll
<1>3. CASE PlanDelete \/ PlanUndo \/ Expire \/ PlanMove
  BY <1>3, PlanDeleteKeeps, PlanUndoKeeps, ExpireKeeps, PlanMoveKeeps
<1>4. ASSUME NEW p \in Procs, PlanStep(p) PROVE PlansInv'
  BY <1>4, ApplyKeeps, VerifyKeeps, CommitKeeps, CancelKeeps, CancelWriteKeeps, RestoreKeeps,
     ModerateKeeps DEF PlanStep
<1>5. ASSUME NEW p \in Procs, NoteStep(p) PROVE PlansInv'
  BY <1>5, VerifyKeeps, UpdatesKeep DEF NoteStep
<1> QED
  BY <1>1, <1>2, <1>3, <1>4, <1>5 DEF NoteAndPlanStep

-----------------------------------------------------------------------------
(* The paths *)

SamePaths ==
    /\ DOMAIN row' = Rows
    /\ \A r \in Rows : KindOf[r] \in {"note", "source"} =>
         "path" \in DOMAIN row'[r] /\ row'[r].path = row[r].path

\* The note o and its Source go to d.
Carried(o, d) ==
    /\ DOMAIN row' = Rows
    /\ \A r \in Rows : KindOf[r] \in {"note", "source"} =>
         "path" \in DOMAIN row'[r] /\ row'[r].path = IF r \in {o, NoteSource(o)} THEN d ELSE row[r].path

LEMMA OverlayIs ==
    ASSUME NEW image, NEW old
    PROVE  /\ "path" \in DOMAIN old => "path" \in DOMAIN Overlay(image, old)
           /\ "path" \in DOMAIN old /\ "path" \notin DOMAIN image => Overlay(image, old).path = old.path
           /\ "path" \in DOMAIN image =>
                "path" \in DOMAIN Overlay(image, old) /\ Overlay(image, old).path = image.path
BY DEF Overlay

LEMMA PutPaths ==
    ASSUME PathsInv, NEW R, NEW S, NEW image, "path" \notin DOMAIN image, PutAll(R, S, image)
    PROVE  SamePaths
<1>1. row' = [r \in Rows |-> IF r \in R THEN Overlay(image, row[r]) ELSE row[r]]
  BY DEF PutAll
<1> QED
  BY <1>1, OverlayIs DEF PathsInv, SamePaths

LEMMA BumpedIs ==
    ASSUME NEW r, NEW image, "path" \notin DOMAIN image
    PROVE  "path" \notin DOMAIN Bumped(r, image)
BY DEF Bumped, Overlay

LEMMA TouchPaths ==
    ASSUME PathsInv, Touch
    PROVE  SamePaths
<1>1. \E R, S, image : "path" \notin DOMAIN image /\ PutAll(R, S, image)
  <2>1. CASE ActivateGraph
    BY <2>1 DEF ActivateGraph
  <2>2. ASSUME NEW r \in Rows, TouchContent(r)
        PROVE  \E R, S, image : "path" \notin DOMAIN image /\ PutAll(R, S, image)
    <3>1. /\ "path" \notin DOMAIN Bumped(r, [state |-> "active"])
          /\ "path" \notin DOMAIN Bumped(r, [state |-> "paused"])
      BY BumpedIs
    <3> QED
      BY <2>2, <3>1 DEF TouchContent, Put, PutIf, PutUnless
  <2>3. ASSUME NEW r \in Rows, TouchTopic(r)
        PROVE  \E R, S, image : "path" \notin DOMAIN image /\ PutAll(R, S, image)
    <3>1. "path" \notin DOMAIN Bumped(r, [state |-> "active", stale_reason |-> "none"])
      BY BumpedIs
    <3> QED
      BY <2>3, <3>1 DEF TouchTopic, PutIf, PutUnless
  <2> QED
    BY <2>1, <2>2, <2>3 DEF Touch
<1> QED
  BY <1>1, PutPaths

LEMMA SyncPaths ==
    ASSUME PathsInv, NEW p \in Procs, SyncNote(p)
    PROVE  SamePaths
<1> DEFINE s == NoteSource(proc[p].target)
<1>1. CASE UNCHANGED planVars
  BY <1>1 DEF planVars, PathsInv, SamePaths
<1>2. CASE PutAll({s}, {}, Bumped(s, [state |-> "failed"])) \/ Put(s, Bumped(s, [state |-> "active"]))
  <2>1. /\ "path" \notin DOMAIN Bumped(s, [state |-> "failed"])
        /\ "path" \notin DOMAIN Bumped(s, [state |-> "active"])
    BY BumpedIs
  <2> QED
    BY <1>2, <2>1, PutPaths DEF Put
<1> QED
  BY <1>1, <1>2 DEF SyncNote

LEMMA RecordPaths ==
    ASSUME PathsInv, NEW p \in Procs, RecordNote(p)
    PROVE  SamePaths
<1> DEFINE o == proc[p].target
<1>1. row' = row \/ row' = [row EXCEPT ![o].version = @ + 1]
  BY DEF RecordNote
<1>2. CASE row' = row
  BY <1>2 DEF PathsInv, SamePaths
<1>3. CASE row' = [row EXCEPT ![o].version = @ + 1]
  <2>1. DOMAIN row' = Rows /\ \A r \in Rows : r # o => row'[r] = row[r]
    BY <1>3 DEF PathsInv
  <2>2. o \in Rows => row'[o] = [row[o] EXCEPT !.version = @ + 1]
    BY <1>3 DEF PathsInv
  <2>3. o \in Rows /\ "path" \in DOMAIN row[o] => "path" \in DOMAIN row'[o] /\ row'[o].path = row[o].path
    BY <2>2
  <2> QED
    BY <2>1, <2>3 DEF PathsInv, SamePaths
<1> QED
  BY <1>1, <1>2, <1>3

\* A transaction changes no path, or that of the note it is for.
LEMMA CommitPaths ==
    ASSUME Shapes, PlansInv, PathsInv, NEW p \in Procs, Commit(p)
    PROVE  \/ SamePaths /\ proc[p].back /\ proc'[p] = [proc[p] EXCEPT !.pc = "back"]
           \/ SamePaths /\ ~ proc[p].back /\ proc'[p] = Idle
           \/ /\ Carried(proc[p].target, proc[p].move.to) /\ proc'[p] = Idle /\ proc[p].back
              /\ Takes(proc[p].changes, proc[p].move, proc[p].target)
<1> DEFINE c == proc[p]
           ch == Materialized(c.changes)
<1>1. c.pc = "commit" /\ c.pc \in MovePC /\ c.pc \in PlanPC
  BY DEF Commit, At, MovePC, PlanPC
<1>2. CommandIs(c, plans)
  BY <1>1 DEF PlansInv
<1>3. CASE row' = Applied(ch) /\ Finish(p)
  <2>1. row' = [r \in Rows |-> IF r \in DOMAIN ch THEN Overlay(ch[r].after, row[r]) ELSE row[r]]
    BY <1>3 DEF Applied
  <2>2. proc'[p] = Idle
    BY <1>3, SetDoes DEF Finish, Become
  <2>3. CASE PathFree(c.changes) /\ c.back = FALSE
    <3>1. PathFree(ch)
      BY <2>3, MaterializedAre
    <3> HIDE DEF ch
    <3>2. SamePaths
      BY <2>1, <3>1, OverlayIs DEF PathFree, PathsInv, SamePaths
    <3> QED
      BY <2>2, <2>3, <3>2
  <2>4. CASE Takes(c.changes, c.move, c.target) /\ c.back = TRUE
    <3>1. Takes(ch, c.move, c.target)
      BY <2>4, MaterializedAre
    <3> HIDE DEF ch
    <3>2. Carried(c.target, c.move.to)
      BY <2>1, <3>1, OverlayIs DEF Takes, PathsInv, Carried
    <3> QED
      BY <2>2, <2>4, <3>2
  <2> QED
    BY <1>1, <1>2, <2>3, <2>4 DEF CommandIs, Moves
<1>4. CASE Conflict(p) /\ row' = row
  <2>1. SamePaths
    BY <1>4 DEF PathsInv, SamePaths
  <2>2. IF c.back THEN proc'[p] = [c EXCEPT !.pc = "back"] ELSE proc'[p] = Idle
    BY <1>4, SetDoes DEF Conflict, Finish, Become, Move, Goto
  <2> QED
    BY <2>1, <2>2
<1> QED
  BY <1>3, <1>4 DEF Commit

LEMMA OtherPaths ==
    ASSUME PathsInv, NEW p \in Procs,
           \/ PlanStep(p) /\ ~ Commit(p)
           \/ NoteStep(p) /\ ~ SyncNote(p) /\ ~ RecordNote(p)
    PROVE  row' = row
BY DEF PlanStep, NoteStep, Apply, Verify, Cancel, CancelWrite, Restore, Moderate, Describe, HashSource,
       CheckUndo, Rename, MoveBack, Update, WriteNote, planVars

LEMMA PathsHold ==
    ASSUME Shapes, PlansInv, PathsInv, Step
    PROVE  PathsInv'
<1>1. ASSUME SamePaths PROVE PathsInv'
  BY <1>1, NotesAre DEF SamePaths, PathsInv
<1>2. ASSUME NEW o \in Notes, NEW d \in Dirs, Carried(o, d) PROVE PathsInv'
  BY <1>2, NotesAre DEF Carried, PathsInv
<1>3. ASSUME row' = row PROVE PathsInv'
  BY <1>3 DEF PathsInv
<1>4. CASE ~ NoteAndPlanStep
  BY <1>3, <1>4, PlanFrame DEF planVars
<1>5. CASE Touch
  BY <1>1, <1>5, TouchPaths
<1>6. CASE PlanDelete \/ PlanUndo \/ Expire \/ PlanMove
  BY <1>3, <1>6 DEF PlanDelete, PlanUndo, Expire, PlanMove, Planned
<1>7. ASSUME NEW p \in Procs, Commit(p) PROVE PathsInv'
  BY <1>1, <1>2, <1>7, CommitPaths DEF Takes
<1>8. ASSUME NEW p \in Procs, SyncNote(p) \/ RecordNote(p) PROVE PathsInv'
  BY <1>1, <1>8, SyncPaths, RecordPaths
<1>9. ASSUME NEW p \in Procs, PlanStep(p) \/ NoteStep(p) PROVE PathsInv'
  BY <1>3, <1>7, <1>8, <1>9, OtherPaths
<1> QED
  BY <1>4, <1>5, <1>6, <1>9 DEF NoteAndPlanStep

-----------------------------------------------------------------------------
(* The files of the notes *)

\* A command that has renamed the file of o and not settled, and an update of o.
Lifts(c, o) == c.pc \in MovePC /\ c.target = o /\ c.back = TRUE
Updating(c, o) == c.pc \in UpdatePC /\ c.target = o
\* One file with this content, in this directory.
Single(f, d, b) == f = [x \in Dirs |-> IF x = d THEN b ELSE 0]

\* A note that is not spoiled has one file: where its row says, or where the one
\* command has renamed it that still has to settle; with the content of its last
\* update, or of the one under way, which has met no other command.
InPlace(o) ==
    /\ body[o] \in Nat \ {0}
    /\ \A p, q \in Procs : Lifts(proc[p], o) /\ Lifts(proc[q], o) => p = q
    /\ \A p \in Procs : Lifts(proc[p], o) =>
         proc[p].move.from = row[o].path /\ Single(files[o], proc[p].move.to, body[o])
    /\ \A u \in Procs : Updating(proc[u], o) =>
         /\ proc[u].path = row[o].path /\ proc[u].body \in Bodies
         /\ proc[u].pc # "write" => Single(files[o], row[o].path, proc[u].body)
         /\ proc[u].pc = "record" => archived[o] = proc[u].body
    /\ (\A p \in Procs : ~ Lifts(proc[p], o) /\ (Updating(proc[p], o) => proc[p].pc = "write")) =>
         Single(files[o], row[o].path, body[o])
    /\ (\A u \in Procs : Updating(proc[u], o) => proc[u].pc # "record") => archived[o] = body[o]

NotesInv ==
    /\ DOMAIN files = Notes /\ DOMAIN body = Notes /\ DOMAIN archived = Notes
    /\ \A o \in Notes \ spoiled : InPlace(o)

SameRole(c, d, o) ==
    \/ d = c
    \/ ~ Lifts(c, o) /\ ~ Lifts(d, o) /\ ~ Updating(c, o) /\ ~ Updating(d, o)
    \/ Lifts(c, o) /\ Lifts(d, o) /\ d.move = c.move

LEMMA PCsApart == MovePC \cap UpdatePC = {} /\ Idle.pc \notin MovePC \cup UpdatePC
BY DEF MovePC, UpdatePC, Idle

LEMMA Undisturbed ==
    ASSUME NEW o \in Notes, InPlace(o), files'[o] = files[o], body'[o] = body[o],
           archived'[o] = archived[o], row'[o].path = row[o].path,
           \A q \in Procs : SameRole(proc[q], proc'[q], o)
    PROVE  InPlace(o)'
<1>1. \A q \in Procs :
        /\ Lifts(proc'[q], o) <=> Lifts(proc[q], o)
        /\ Lifts(proc[q], o) => proc'[q].move = proc[q].move
        /\ Updating(proc'[q], o) <=> Updating(proc[q], o)
        /\ Updating(proc[q], o) => proc'[q] = proc[q]
  BY PCsApart DEF SameRole, Lifts, Updating
<1>2. ASSUME NEW p \in Procs, NEW q \in Procs, Lifts(proc'[p], o), Lifts(proc'[q], o) PROVE p = q
  BY <1>1, <1>2 DEF InPlace
<1>3. ASSUME NEW p \in Procs, Lifts(proc'[p], o)
      PROVE  proc'[p].move.from = row'[o].path /\ Single(files'[o], proc'[p].move.to, body'[o])
  BY <1>1, <1>3 DEF InPlace
<1>4. ASSUME NEW u \in Procs, Updating(proc'[u], o)
      PROVE  /\ proc'[u].path = row'[o].path /\ proc'[u].body \in Bodies
             /\ proc'[u].pc # "write" => Single(files'[o], row'[o].path, proc'[u].body)
             /\ proc'[u].pc = "record" => archived'[o] = proc'[u].body
  BY <1>1, <1>4 DEF InPlace
<1>5. ASSUME \A p \in Procs : ~ Lifts(proc'[p], o) /\ (Updating(proc'[p], o) => proc'[p].pc = "write")
      PROVE  Single(files'[o], row'[o].path, body'[o])
  <2>1. \A p \in Procs : ~ Lifts(proc[p], o) /\ (Updating(proc[p], o) => proc[p].pc = "write")
    BY <1>1, <1>5
  <2> QED
    BY <2>1 DEF InPlace
<1>6. ASSUME \A u \in Procs : Updating(proc'[u], o) => proc'[u].pc # "record"
      PROVE  archived'[o] = body'[o]
  <2>1. \A u \in Procs : Updating(proc[u], o) => proc[u].pc # "record"
    BY <1>1, <1>6
  <2> QED
    BY <2>1 DEF InPlace
<1>7. body'[o] \in Nat \ {0}
  BY DEF InPlace
<1> QED
  BY <1>2, <1>3, <1>4, <1>5, <1>6, <1>7 DEF InPlace

\* What a step that does not spoil the note cannot do.
LEMMA NotSpoiled ==
    ASSUME Shapes, PlansInv, NEW o \in Notes, ~ Spoils(o)
    PROVE  /\ \A u \in Procs : Updating(proc[u], o) =>
                \A q \in Procs :
                   \/ Updating(proc[q], o)
                   \/ Lifts(proc[q], o)
                   \/ proc[q].pc \in MovePC /\ Takes(proc[q].changes, proc[q].move, o)
                   => q = u
           /\ \A u \in Procs : Updating(proc[u], o) /\ proc[u].pc # "write" /\ proc'[u] = Idle =>
                body'[o] = proc[u].body
           /\ \A p \in Procs : Lifts(proc[p], o) /\ proc'[p] = Idle => used'["fault"] = used["fault"]
           /\ \A p \in Procs : Lifts(proc[p], o) /\ proc'[p] = proc[p] => files'[o] = files[o]
<1>1. \A u \in Procs : Updating(proc[u], o) => u \in Updates(o)
  BY DEF Updating, Updates, Busy, UpdatePC, Idle
<1>2. ASSUME NEW q \in Procs, proc[q].pc \in MovePC, Takes(proc[q].changes, proc[q].move, o)
      PROVE  q \in CommandsAt(o)
  <2>1. PlanShape(proc[q]) /\ proc[q] # Idle
    BY <1>2, ShapeOf, PCsApart DEF Shapes, PlanPC
  <2>2. "changes" \in DOMAIN proc[q]
    BY <1>2, <2>1, PCsApart DEF PlanShape, Has
  <2> QED
    BY <1>2, <2>1, <2>2 DEF CommandsAt, Busy, Takes
<1>3. ASSUME NEW q \in Procs, Lifts(proc[q], o)
      PROVE  q \in CommandsAt(o) /\ proc[q].back
  <2>1. Takes(proc[q].changes, proc[q].move, o) /\ proc[q].pc \in MovePC
    BY <1>3 DEF Lifts, PlansInv, CommandIs, Moves
  <2> QED
    BY <1>2, <1>3, <2>1 DEF Lifts
<1>4. ASSUME NEW u \in Procs, Updating(proc[u], o), NEW q \in Procs,
             \/ Updating(proc[q], o)
             \/ Lifts(proc[q], o)
             \/ proc[q].pc \in MovePC /\ Takes(proc[q].changes, proc[q].move, o)
      PROVE  q = u
  BY <1>1, <1>2, <1>3, <1>4 DEF Spoils
<1>5. ASSUME NEW u \in Procs, Updating(proc[u], o), proc[u].pc # "write", proc'[u] = Idle
      PROVE  body'[o] = proc[u].body
  BY <1>1, <1>5 DEF Spoils, At
<1>6. ASSUME NEW p \in Procs, Lifts(proc[p], o), proc'[p] = Idle
      PROVE  used'["fault"] = used["fault"]
  BY <1>3, <1>6 DEF Spoils
<1>7. ASSUME NEW p \in Procs, Lifts(proc[p], o), proc'[p] = proc[p]
      PROVE  files'[o] = files[o]
  BY <1>3, <1>7 DEF Spoils
<1> QED
  BY <1>4, <1>5, <1>6, <1>7

\* An update that ends and has not changed the note, or has not succeeded with
\* content that the note had before.
LEMMA UpdateGone ==
    ASSUME Shapes, PlansInv, NEW o \in Notes, ~ Spoils(o), InPlace(o),
           NEW u \in Procs, Updating(proc[u], o), ~ Updating(proc'[u], o), ~ Lifts(proc'[u], o),
           \A q \in Procs : q = u \/ SameRole(proc[q], proc'[q], o),
           files'[o] = files[o], archived'[o] = archived[o], body'[o] = body[o],
           row'[o].path = row[o].path,
           proc[u].pc = "write" \/ body[o] = proc[u].body
    PROVE  InPlace(o)'
<1>1. \A q \in Procs : Updating(proc[q], o) \/ Lifts(proc[q], o) => q = u
  BY NotSpoiled
<1>2. ~ Lifts(proc[u], o)
  BY PCsApart DEF Lifts, Updating
<1>3. \A q \in Procs : ~ Updating(proc'[q], o) /\ ~ Lifts(proc'[q], o)
  BY <1>1, <1>2, PCsApart DEF SameRole
<1>4. Single(files[o], row[o].path, body[o])
  <2>1. CASE proc[u].pc = "write"
    BY <1>1, <1>2, <2>1 DEF InPlace
  <2>2. CASE proc[u].pc # "write"
    BY <2>2 DEF InPlace
  <2> QED
    BY <2>1, <2>2
<1>5. archived[o] = body[o]
  <2>1. CASE proc[u].pc = "record"
    BY <2>1 DEF InPlace
  <2>2. CASE proc[u].pc # "record"
    BY <1>1, <2>2 DEF InPlace
  <2> QED
    BY <2>1, <2>2
<1>6. body[o] \in Nat \ {0}
  BY DEF InPlace
<1> QED
  BY <1>3, <1>4, <1>5, <1>6 DEF InPlace

LEMMA OthersKeepFiles ==
    ASSUME Shapes, Shapes', PlansInv, Step, ~ NoteAndPlanStep, NEW o \in Notes, ~ Spoils(o), InPlace(o)
    PROVE  InPlace(o)'
<1>1. /\ row' = row /\ files' = files /\ body' = body /\ archived' = archived
      /\ \A q \in Procs : PlanShape(proc'[q]) => proc'[q] = proc[q]
      /\ \A q \in Procs : PlanShape(proc[q]) =>
           \/ proc'[q] = proc[q]
           \/ proc'[q] = Idle /\ used'["fault"] # used["fault"]
  BY PlanFrame DEF planVars, noteVars
<1>2. \A q \in Procs : /\ Lifts(proc[q], o) \/ Updating(proc[q], o) => PlanShape(proc[q])
                       /\ Lifts(proc'[q], o) \/ Updating(proc'[q], o) => PlanShape(proc'[q])
  BY ShapeOf DEF Shapes, Lifts, Updating, PlanPC
<1>3. \A q \in Procs : Lifts(proc[q], o) => proc'[q] = proc[q]
  BY <1>1, <1>2, NotSpoiled
<1>4. \A q \in Procs : Updating(proc[q], o) \/ SameRole(proc[q], proc'[q], o)
  BY <1>1, <1>2, <1>3 DEF SameRole
<1>5. CASE \E u \in Procs : Updating(proc[u], o) /\ proc'[u] # proc[u]
  <2>1. PICK u \in Procs : Updating(proc[u], o) /\ proc'[u] # proc[u]
    BY <1>5
  <2>2. proc'[u] = Idle
    BY <1>1, <1>2, <2>1
  <2>3. \A q \in Procs : Updating(proc[q], o) => q = u
    BY <2>1, NotSpoiled
  <2>4. \A q \in Procs : q = u \/ SameRole(proc[q], proc'[q], o)
    BY <1>4, <2>3
  <2>5. proc[u].pc = "write" \/ body[o] = proc[u].body
    BY <1>1, <2>1, <2>2, NotSpoiled
  <2>6. ~ Updating(proc'[u], o) /\ ~ Lifts(proc'[u], o)
    BY <2>2, PCsApart DEF Updating, Lifts
  <2> QED
    BY <1>1, <2>1, <2>4, <2>5, <2>6, UpdateGone
<1>6. CASE \A u \in Procs : Updating(proc[u], o) => proc'[u] = proc[u]
  <2>1. \A q \in Procs : SameRole(proc[q], proc'[q], o)
    BY <1>4, <1>6 DEF SameRole
  <2> QED
    BY <1>1, <2>1, Undisturbed
<1> QED
  BY <1>5, <1>6

\* A step of p that moves no file, as seen from o.
LEMMA QuietKeeps ==
    ASSUME Shapes, NEW p \in Procs, NEW r, Set(p, r), UNCHANGED noteVars, row' = row \/ SamePaths,
           NEW o \in Notes, InPlace(o), SameRole(proc[p], r, o)
    PROVE  InPlace(o)'
<1>1. proc'[p] = r /\ \A q \in Procs : q # p => proc'[q] = proc[q]
  BY SetDoes
<1>2. \A q \in Procs : SameRole(proc[q], proc'[q], o)
  BY <1>1 DEF SameRole
<1>3. row'[o].path = row[o].path
  BY NotesAre DEF SamePaths
<1>4. files' = files /\ body' = body /\ archived' = archived
  BY DEF noteVars
<1> QED
  BY <1>2, <1>3, <1>4, Undisturbed

\* A command that has not renamed anything has no role yet.
LEMMA NoRole ==
    ASSUME PlansInv, NEW p \in Procs,
           proc[p].pc \in {"describe", "hash", "check", "rename", "cancel", "idle"}
    PROVE  \A o : ~ Lifts(proc[p], o) /\ ~ Updating(proc[p], o)
<1>1. proc[p].pc \in MovePC => proc[p].back # TRUE
  BY DEF PlansInv, CommandIs
<1> QED
  BY <1>1 DEF Lifts, Updating, UpdatePC

LEMMA LaunchKeepsFiles ==
    ASSUME Shapes, PlansInv, NEW p \in Procs, Apply(p) \/ Cancel(p) \/ Restore(p) \/ Moderate(p),
           UNCHANGED noteVars, NEW o \in Notes, InPlace(o)
    PROVE  InPlace(o)'
<1>1. proc[p].pc = "idle" /\ row' = row
  BY DEF Apply, Cancel, Restore, Moderate, Launch, At, planVars
<1>2. ~ Lifts(proc[p], o) /\ ~ Updating(proc[p], o)
  BY <1>1, NoRole
<1>3. \A r : r = Idle \/ (r.pc \in MovePC /\ r.back = FALSE) => ~ Lifts(r, o) /\ ~ Updating(r, o)
  BY PCsApart DEF Lifts, Updating
<1>4. \E r : Set(p, r) /\ (r = Idle \/ (r.pc \in MovePC /\ r.back = FALSE))
  <2>1. \A i : \A pc \in MovePC : Command(pc, i).pc \in MovePC /\ Command(pc, i).back = FALSE
    BY DEF Command
  <2>2. CASE Apply(p)
    BY <2>1, <2>2 DEF Apply, Launch, MovePC
  <2>3. CASE Cancel(p)
    BY <2>1, <2>3 DEF Cancel, Launch, MovePC
  <2>4. CASE Restore(p)
    BY <2>4 DEF Restore, Launch, MovePC
  <2>5. CASE Moderate(p)
    BY <2>5 DEF Moderate, Launch, MovePC
  <2> QED
    BY <2>2, <2>3, <2>4, <2>5
<1> QED
  BY <1>1, <1>2, <1>3, <1>4, QuietKeeps DEF SameRole

LEMMA BeforeRenameKeepsFiles ==
    ASSUME Shapes, PlansInv, NEW p \in Procs,
           Describe(p) \/ HashSource(p) \/ CheckUndo(p) \/ (CancelWrite(p) /\ UNCHANGED noteVars),
           NEW o \in Notes, InPlace(o)
    PROVE  InPlace(o)'
<1> DEFINE c == proc[p]
<1>1. c.pc \in {"describe", "hash", "check", "cancel"} /\ row' = row /\ UNCHANGED noteVars
  BY DEF Describe, HashSource, CheckUndo, CancelWrite, At, planVars
<1>2. ~ Lifts(c, o) /\ ~ Updating(c, o) /\ c.back # TRUE
  <2>1. c.pc \in MovePC
    BY <1>1 DEF MovePC
  <2> QED
    BY <1>1, <2>1, NoRole DEF PlansInv, CommandIs
<1>3. PlanShape(c)
  BY <1>1, ShapeOf DEF Shapes, PlanPC, MovePC
<1>4. \A pc \in MovePC : [c EXCEPT !.pc = pc].pc = pc /\ [c EXCEPT !.pc = pc].back = c.back
  BY <1>1, <1>3 DEF PlanShape, Has, UpdatePC
<1>5. Set(p, Idle) \/ \E pc \in MovePC : Set(p, [c EXCEPT !.pc = pc])
  BY DEF Describe, HashSource, CheckUndo, CancelWrite, Move, Goto, Finish, Become, MovePC
<1>6. \A r : r = Idle \/ (r.pc \in MovePC /\ r.back # TRUE) => ~ Lifts(r, o) /\ ~ Updating(r, o)
  BY PCsApart DEF Lifts, Updating
<1>7. \E r : Set(p, r) /\ ~ Lifts(r, o) /\ ~ Updating(r, o)
  BY <1>2, <1>4, <1>5, <1>6
<1> QED
  BY <1>1, <1>2, <1>7, QuietKeeps DEF SameRole

\* A command with a step of its transaction behind it keeps its role.
LEMMA RoleGoesOn ==
    ASSUME NEW c, PlanShape(c), c.pc \in MovePC, NEW pc \in MovePC, NEW o
    PROVE  SameRole(c, [c EXCEPT !.pc = pc], o)
<1> DEFINE d == [c EXCEPT !.pc = pc]
<1>1. d.pc = pc /\ d.back = c.back /\ d.target = c.target /\ d.move = c.move
  BY PCsApart DEF PlanShape, Has
<1> HIDE DEF d
<1>2. SameRole(c, d, o)
  BY <1>1, PCsApart DEF SameRole, Lifts, Updating
<1> QED
  BY <1>2 DEF d

LEMMA VerifyKeepsFiles ==
    ASSUME Shapes, PlansInv, NEW p \in Procs, Verify(p), UNCHANGED noteVars, NEW o \in Notes, InPlace(o)
    PROVE  InPlace(o)'
<1> DEFINE c == proc[p]
<1>1. c.pc = "verify" /\ c.pc \in MovePC /\ c.pc \in PlanPC /\ row' = row
  BY DEF Verify, At, planVars, MovePC, PlanPC
<1>2. PlanShape(c) /\ CommandIs(c, plans)
  BY <1>1, ShapeOf DEF Shapes, PlansInv
<1>3. \/ \E pc \in MovePC : Set(p, [c EXCEPT !.pc = pc])
      \/ Set(p, Idle) /\ c.back # TRUE
  BY <1>2 DEF Verify, Conflict, Move, Goto, Finish, Become, MovePC, CommandIs
<1>4. \E r : Set(p, r) /\ SameRole(c, r, o)
  <2>1. \A pc \in MovePC : SameRole(c, [c EXCEPT !.pc = pc], o)
    BY <1>1, <1>2, RoleGoesOn
  <2>2. c.back # TRUE => SameRole(c, Idle, o)
    BY <1>1, PCsApart DEF SameRole, Lifts, Updating
  <2> QED
    BY <1>3, <2>1, <2>2
<1> QED
  BY <1>1, <1>4, QuietKeeps

LEMMA ElsewhereKeepsFiles ==
    ASSUME PlansInv, PathsInv, \/ PlanDelete /\ UNCHANGED noteVars
                               \/ PlanUndo /\ UNCHANGED noteVars
                               \/ Expire /\ UNCHANGED noteVars
                               \/ Touch /\ UNCHANGED noteVars
                               \/ PlanMove,
           NEW o \in Notes, InPlace(o)
    PROVE  InPlace(o)'
<1>1. row' = row \/ SamePaths
  BY TouchPaths DEF PlanDelete, PlanUndo, Expire, PlanMove, Planned
<1>2. proc' = proc /\ UNCHANGED noteVars
  BY DEF PlanDelete, PlanUndo, Expire, PlanMove, Touch, Elsewhere
<1>3. row'[o].path = row[o].path
  BY <1>1, NotesAre DEF SamePaths
<1>4. \A q \in Procs : SameRole(proc[q], proc'[q], o)
  BY <1>2 DEF SameRole
<1> QED
  BY <1>2, <1>3, <1>4, Undisturbed DEF noteVars

\* The file of a note with a command on its way has no update, and no other command.
LEMMA LoneLifter ==
    ASSUME Shapes, PlansInv, NEW o \in Notes, ~ Spoils(o), InPlace(o),
           NEW p \in Procs, Lifts(proc[p], o)
    PROVE  /\ \A q \in Procs : ~ Updating(proc[q], o) /\ (Lifts(proc[q], o) => q = p)
           /\ proc[p].move.from = row[o].path /\ Single(files[o], proc[p].move.to, body[o])
           /\ archived[o] = body[o]
           /\ o = proc[p].target /\ Takes(proc[p].changes, proc[p].move, o)
<1>1. \A q \in Procs : Updating(proc[q], o) => q = p
  BY NotSpoiled
<1>2. ~ Updating(proc[p], o)
  BY PCsApart DEF Lifts, Updating
<1>3. Takes(proc[p].changes, proc[p].move, o)
  BY DEF Lifts, PlansInv, CommandIs, Moves
<1> QED
  BY <1>1, <1>2, <1>3 DEF InPlace, Lifts

\* What InPlace asks of a note that no command and no update has a role for.
LEMMA NoteSettled ==
    ASSUME NEW o \in Notes, \A q \in Procs : ~ Lifts(proc'[q], o) /\ ~ Updating(proc'[q], o),
           body'[o] \in Nat \ {0}, archived'[o] = body'[o], Single(files'[o], row'[o].path, body'[o])
    PROVE  InPlace(o)'
BY DEF InPlace

LEMMA CommitKeepsFiles ==
    ASSUME Shapes, PlansInv, PathsInv, NEW p \in Procs, Commit(p), UNCHANGED noteVars,
           NEW o \in Notes, ~ Spoils(o), InPlace(o)
    PROVE  InPlace(o)'
<1> DEFINE c == proc[p]
<1>1. c.pc = "commit" /\ c.pc \in MovePC /\ c.pc \in PlanPC
  BY DEF Commit, At, MovePC, PlanPC
<1>2. PlanShape(c) /\ CommandIs(c, plans)
  BY <1>1, ShapeOf DEF Shapes, PlansInv
<1>3. files' = files /\ body' = body /\ archived' = archived
  BY DEF noteVars
<1>4. \A q \in Procs : q # p => proc'[q] = proc[q]
  BY SetDoes DEF Commit, Conflict, Finish, Become, Move, Goto
<1>5. CASE SamePaths /\ SameRole(c, proc'[p], o)
  <2>1. row'[o].path = row[o].path
    BY <1>5, NotesAre DEF SamePaths
  <2>2. \A q \in Procs : SameRole(proc[q], proc'[q], o)
    BY <1>4, <1>5 DEF SameRole
  <2> QED
    BY <1>3, <2>1, <2>2, Undisturbed
<1>6. CASE SamePaths /\ c.back /\ proc'[p] = [c EXCEPT !.pc = "back"]
  <2>1. "back" \in MovePC
    BY DEF MovePC
  <2> QED
    BY <1>1, <1>2, <1>5, <1>6, <2>1, RoleGoesOn
<1>7. CASE SamePaths /\ ~ c.back /\ proc'[p] = Idle
  <2>1. ~ Lifts(c, o) /\ ~ Updating(c, o) /\ ~ Lifts(Idle, o) /\ ~ Updating(Idle, o)
    BY <1>1, <1>7, PCsApart DEF Lifts, Updating
  <2> QED
    BY <1>5, <1>7, <2>1 DEF SameRole
<1>8. CASE /\ Carried(c.target, c.move.to) /\ proc'[p] = Idle /\ c.back
           /\ Takes(c.changes, c.move, c.target)
  <2>1. ~ Lifts(Idle, o) /\ ~ Updating(Idle, o)
    BY PCsApart DEF Lifts, Updating
  <2>2. c.target \in Notes
    BY <1>8 DEF Takes
  <2>3. CASE c.target = o
    <3>1. Lifts(c, o)
      BY <1>1, <1>2, <1>8, <2>3 DEF Lifts, CommandIs
    <3>2. /\ \A q \in Procs : ~ Updating(proc[q], o) /\ (Lifts(proc[q], o) => q = p)
          /\ Single(files[o], c.move.to, body[o]) /\ archived[o] = body[o]
      BY <3>1, LoneLifter
    <3>3. row'[o].path = c.move.to
      BY <1>8, <2>3, NotesAre DEF Carried
    <3>4. \A q \in Procs : ~ Lifts(proc'[q], o) /\ ~ Updating(proc'[q], o)
      BY <1>4, <1>8, <2>1, <3>2
    <3>5. body[o] \in Nat \ {0}
      BY DEF InPlace
    <3> QED
      BY <1>3, <3>2, <3>3, <3>4, <3>5, NoteSettled
  <2>4. CASE c.target # o
    <3>1. row'[o].path = row[o].path
      BY <1>8, <2>2, <2>4, NotesAre DEF Carried
    <3>2. SameRole(c, Idle, o)
      BY <1>1, <2>1, <2>4 DEF SameRole, Lifts, Updating
    <3>3. \A q \in Procs : SameRole(proc[q], proc'[q], o)
      BY <1>4, <1>8, <3>2 DEF SameRole
    <3> QED
      BY <1>3, <3>1, <3>3, Undisturbed
  <2> QED
    BY <2>3, <2>4
<1>9. \/ SamePaths /\ c.back /\ proc'[p] = [c EXCEPT !.pc = "back"]
      \/ SamePaths /\ ~ c.back /\ proc'[p] = Idle
      \/ /\ Carried(c.target, c.move.to) /\ proc'[p] = Idle /\ c.back
         /\ Takes(c.changes, c.move, c.target)
  BY CommitPaths
<1> HIDE DEF c
<1> QED
  BY <1>6, <1>7, <1>8, <1>9
\* rename(2) of the one file of a note.
LEMMA RenamedIs ==
    ASSUME DOMAIN files = Notes, NEW o \in Notes, NEW from \in Dirs, NEW to \in Dirs, from # to,
           NEW b, Single(files[o], from, b), Renamed(o, from, to)
    PROVE  Single(files'[o], to, b)
<1>1. files'[o] = [files[o] EXCEPT ![to] = files[o][from], ![from] = 0]
  BY DEF Renamed
<1>2. DOMAIN files[o] = Dirs /\ files[o][from] = b /\ \A x \in Dirs : x # from => files[o][x] = 0
  BY DEF Single
<1>3. files'[o] = [x \in Dirs |-> IF x = from THEN 0 ELSE IF x = to THEN b ELSE files[o][x]]
  BY <1>1, <1>2
<1> QED
  BY <1>2, <1>3 DEF Single

LEMMA RenamedElse ==
    ASSUME DOMAIN files = Notes, NEW t, NEW from, NEW to, Renamed(t, from, to)
    PROVE  DOMAIN files' = Notes /\ \A o \in Notes : o # t => files'[o] = files[o]
BY DEF Renamed

\* A step of p for another note, as seen from o.
LEMMA ElsewhereStep ==
    ASSUME NEW p \in Procs, \A q \in Procs : q # p => proc'[q] = proc[q],
           NEW o \in Notes, InPlace(o), files'[o] = files[o], body'[o] = body[o],
           archived'[o] = archived[o], row'[o].path = row[o].path,
           ~ Lifts(proc[p], o), ~ Updating(proc[p], o), ~ Lifts(proc'[p], o), ~ Updating(proc'[p], o)
    PROVE  InPlace(o)'
<1>1. \A q \in Procs : SameRole(proc[q], proc'[q], o)
  BY DEF SameRole
<1> QED
  BY <1>1, Undisturbed

LEMMA RenameKeepsFiles ==
    ASSUME Shapes, PlansInv, PathsInv, DOMAIN files = Notes, NEW p \in Procs, Rename(p),
           NEW o \in Notes, ~ Spoils(o), InPlace(o)
    PROVE  InPlace(o)'
<1> DEFINE c == proc[p]
           d == [c EXCEPT !.pc = "verify", !.back = TRUE]
<1>1. c.pc = "rename" /\ c.pc \in MovePC /\ c.pc \in PlanPC
  BY DEF Rename, At, MovePC, PlanPC
<1>2. PlanShape(c) /\ CommandIs(c, plans)
  BY <1>1, ShapeOf DEF Shapes, PlansInv
<1>3. Takes(c.changes, c.move, c.target) /\ c.target \in Notes /\ c.back # TRUE
  BY <1>1, <1>2 DEF CommandIs, Moves, Takes
<1>4. row' = row /\ body' = body /\ archived' = archived
  BY DEF Rename, planVars
<1>5. ~ Lifts(c, o) /\ ~ Updating(c, o)
  BY <1>1, NoRole
<1>6. d.pc = "verify" /\ d.back = TRUE /\ d.target = c.target /\ d.move = c.move
  BY <1>1, <1>2, PCsApart DEF PlanShape, Has
<1>7. ~ Updating(d, o)
  BY <1>6 DEF Updating, UpdatePC
<1>8. ~ Lifts(Idle, o) /\ ~ Updating(Idle, o)
  BY PCsApart DEF Lifts, Updating
<1>9. CASE Finish(p) /\ files' = files
  <2>1. proc'[p] = Idle /\ \A q \in Procs : q # p => proc'[q] = proc[q]
    BY <1>9, SetDoes DEF Finish, Become
  <2> QED
    BY <1>4, <1>5, <1>8, <1>9, <2>1, ElsewhereStep
<1>10. CASE /\ files[c.target][c.move.from] # 0
            /\ Renamed(c.target, c.move.from, c.move.to) /\ Set(p, d)
  <2>1. proc'[p] = d /\ \A q \in Procs : q # p => proc'[q] = proc[q]
    BY <1>10, SetDoes
  <2> HIDE DEF d
  <2>2. CASE c.target # o
    <3>1. files'[o] = files[o]
      BY <1>10, <2>2, RenamedElse
    <3>2. ~ Lifts(d, o)
      BY <1>6, <2>2 DEF Lifts
    <3> QED
      BY <1>4, <1>5, <1>7, <2>1, <3>1, <3>2, ElsewhereStep
  <2>3. CASE c.target = o
    <3>1. \A q \in Procs : ~ Updating(proc[q], o)
      BY <1>1, <1>3, <1>5, <2>3, NotSpoiled
    <3>2. c.move.from \in Dirs /\ c.move.to \in Dirs /\ c.move.from # c.move.to
      BY <1>3 DEF Takes
    <3>3. body[o] \in Nat \ {0} /\ archived[o] = body[o]
      BY <3>1 DEF InPlace
    <3>4. \A q \in Procs : ~ Lifts(proc[q], o)
      <4> SUFFICES ASSUME NEW q \in Procs, Lifts(proc[q], o) PROVE FALSE
        OBVIOUS
      <4>1. proc'[q] = proc[q]
        BY <1>5, <2>1
      <4>2. files'[o] = files[o]
        BY <4>1, NotSpoiled
      <4>3. Single(files[o], proc[q].move.to, body[o])
        BY DEF InPlace
      <4>4. files[o][c.move.from] # 0
        BY <1>10, <2>3
      <4>5. c.move.from = proc[q].move.to
        BY <3>2, <4>3, <4>4 DEF Single
      <4>6. Single(files'[o], c.move.to, body[o])
        BY <1>10, <2>3, <3>2, <4>3, <4>5, RenamedIs
      <4> QED
        BY <3>2, <3>3, <4>2, <4>4, <4>6 DEF Single
    <3>5. Single(files[o], row[o].path, body[o])
      BY <3>1, <3>4 DEF InPlace
    <3>6. c.move.from = row[o].path
      BY <1>10, <2>3, <3>2, <3>5 DEF Single
    <3>7. Single(files'[o], c.move.to, body[o])
      BY <1>10, <2>3, <3>2, <3>5, <3>6, RenamedIs
    <3>8. \A q \in Procs : ~ Updating(proc'[q], o) /\ (Lifts(proc'[q], o) => q = p)
      BY <1>7, <2>1, <3>1, <3>4
    <3>9. Lifts(d, o)
      BY <1>6, <2>3 DEF Lifts, MovePC
    <3>10. Lifts(proc'[p], o) /\ proc'[p].move.from = row'[o].path
           /\ Single(files'[o], proc'[p].move.to, body'[o])
      BY <1>4, <1>6, <2>1, <3>6, <3>7, <3>9
    <3> QED
      BY <1>4, <3>3, <3>8, <3>10 DEF InPlace
  <2> QED
    BY <2>2, <2>3
<1> QED
  BY <1>9, <1>10 DEF Rename

LEMMA MoveBackKeepsFiles ==
    ASSUME Shapes, PlansInv, PathsInv, DOMAIN files = Notes, NEW p \in Procs, MoveBack(p),
           NEW o \in Notes, ~ Spoils(o), InPlace(o)
    PROVE  InPlace(o)'
<1> DEFINE c == proc[p]
<1>1. c.pc = "back" /\ c.pc \in MovePC /\ c.pc \in PlanPC
  BY DEF MoveBack, At, MovePC, PlanPC
<1>2. CommandIs(c, plans)
  BY <1>1 DEF PlansInv
<1>3. c.back = TRUE /\ Takes(c.changes, c.move, c.target)
  BY <1>1, <1>2 DEF CommandIs, Moves
<1>4. row' = row /\ body' = body /\ archived' = archived
  BY DEF MoveBack, planVars
<1>5. proc'[p] = Idle /\ \A q \in Procs : q # p => proc'[q] = proc[q]
  BY SetDoes DEF MoveBack, Finish, Become
<1>6. ~ Lifts(Idle, o) /\ ~ Updating(Idle, o)
  BY PCsApart DEF Lifts, Updating
<1>7. CASE c.target # o
  <2>1. ~ Lifts(c, o) /\ ~ Updating(c, o)
    BY <1>7 DEF Lifts, Updating
  <2>2. files'[o] = files[o]
    BY <1>7, RenamedElse DEF MoveBack, RenameBack
  <2> QED
    BY <1>4, <1>5, <1>6, <2>1, <2>2, ElsewhereStep
<1>8. CASE c.target = o
  <2>1. Lifts(c, o)
    BY <1>1, <1>3, <1>8 DEF Lifts
  <2>2. /\ \A q \in Procs : ~ Updating(proc[q], o) /\ (Lifts(proc[q], o) => q = p)
        /\ c.move.from = row[o].path /\ Single(files[o], c.move.to, body[o]) /\ archived[o] = body[o]
    BY <2>1, LoneLifter
  <2>3. body[o] \in Nat \ {0}
    BY DEF InPlace
  <2>4. c.move.from \in Dirs /\ c.move.to \in Dirs /\ c.move.from # c.move.to
    BY <1>3 DEF Takes
  <2>5. files[o][c.move.to] # 0
    BY <2>2, <2>3, <2>4 DEF Single
  <2>6. Renamed(o, c.move.to, c.move.from)
    BY <1>8, <2>5 DEF MoveBack, RenameBack
  <2>7. Single(files'[o], c.move.from, body[o])
    BY <2>2, <2>4, <2>6, RenamedIs
  <2>8. \A q \in Procs : ~ Lifts(proc'[q], o) /\ ~ Updating(proc'[q], o)
    BY <1>5, <1>6, <2>2
  <2> QED
    BY <1>4, <2>2, <2>3, <2>7, <2>8, NoteSettled
<1> QED
  BY <1>7, <1>8
LEMMA UpdateKeepsFiles ==
    ASSUME Shapes, PlansInv, PathsInv, NEW p \in Procs, Update(p),
           NEW o \in Notes, InPlace(o)
    PROVE  InPlace(o)'
<1>1. proc[p].pc = "idle" /\ row' = row /\ files' = files /\ body' = body /\ archived' = archived
  BY DEF Update, Launch, At, planVars, noteVars
<1>2. ~ Lifts(proc[p], o) /\ ~ Updating(proc[p], o)
  BY <1>1, NoRole
<1>3. PICK t \in Notes, b \in Bodies :
        Set(p, [pc |-> "write", target |-> t, body |-> b, version |-> row[t].version, path |-> row[t].path])
  BY DEF Update, Launch
<1> DEFINE d == [pc |-> "write", target |-> t, body |-> b, version |-> row[t].version, path |-> row[t].path]
<1>4. proc'[p] = d /\ \A q \in Procs : q # p => proc'[q] = proc[q]
  BY <1>3, SetDoes
<1>5. d.pc = "write" /\ d.target = t /\ d.body = b /\ d.path = row[t].path
  OBVIOUS
<1> HIDE DEF d
<1>6. ~ Lifts(d, o)
  BY <1>5, PCsApart DEF Lifts, UpdatePC
<1>7. CASE t # o
  <2>1. ~ Updating(d, o)
    BY <1>5, <1>7 DEF Updating
  <2> QED
    BY <1>1, <1>2, <1>4, <1>6, <2>1, ElsewhereStep
<1>8. CASE t = o
  <2>1. \A q \in Procs : Lifts(proc'[q], o) => q # p /\ proc'[q] = proc[q] /\ Lifts(proc[q], o)
    BY <1>4, <1>6
  <2>2. \A q \in Procs : Lifts(proc[q], o) => Lifts(proc'[q], o)
    BY <1>2, <1>4
  <2>3. \A q \in Procs : Updating(proc[q], o) => Updating(proc'[q], o) /\ proc'[q] = proc[q]
    BY <1>2, <1>4
  <2>4. ASSUME NEW u \in Procs, Updating(proc'[u], o)
        PROVE  /\ proc'[u].path = row'[o].path /\ proc'[u].body \in Bodies
               /\ proc'[u].pc # "write" => Single(files'[o], row'[o].path, proc'[u].body)
               /\ proc'[u].pc = "record" => archived'[o] = proc'[u].body
    <3>1. CASE u = p
      BY <1>1, <1>4, <1>5, <1>8, <3>1
    <3>2. CASE u # p
      BY <1>1, <1>4, <2>4, <3>2 DEF InPlace
    <3> QED
      BY <3>1, <3>2
  <2>5. \A q, r \in Procs : Lifts(proc'[q], o) /\ Lifts(proc'[r], o) => q = r
    BY <2>1 DEF InPlace
  <2>6. \A q \in Procs : Lifts(proc'[q], o) =>
          proc'[q].move.from = row'[o].path /\ Single(files'[o], proc'[q].move.to, body'[o])
    BY <1>1, <2>1 DEF InPlace
  <2>7. ASSUME \A q \in Procs : ~ Lifts(proc'[q], o) /\ (Updating(proc'[q], o) => proc'[q].pc = "write")
        PROVE  Single(files'[o], row'[o].path, body'[o])
    <3>1. \A q \in Procs : ~ Lifts(proc[q], o) /\ (Updating(proc[q], o) => proc[q].pc = "write")
      BY <2>2, <2>3, <2>7
    <3> QED
      BY <1>1, <3>1 DEF InPlace
  <2>8. ASSUME \A u \in Procs : Updating(proc'[u], o) => proc'[u].pc # "record"
        PROVE  archived'[o] = body'[o]
    <3>1. \A u \in Procs : Updating(proc[u], o) => proc[u].pc # "record"
      BY <2>3, <2>8
    <3> QED
      BY <1>1, <3>1 DEF InPlace
  <2>9. body'[o] \in Nat \ {0}
    BY <1>1 DEF InPlace
  <2> QED
    BY <2>4, <2>5, <2>6, <2>7, <2>8, <2>9 DEF InPlace
<1> QED
  BY <1>7, <1>8

\* An update of o and its next step.
LEMMA LoneUpdate ==
    ASSUME Shapes, PlansInv, NEW o \in Notes, ~ Spoils(o), InPlace(o),
           NEW p \in Procs, Updating(proc[p], o)
    PROVE  /\ \A q \in Procs : ~ Lifts(proc[q], o) /\ (Updating(proc[q], o) => q = p)
           /\ proc[p].path = row[o].path /\ proc[p].body \in Bodies
           /\ IF proc[p].pc = "write" THEN Single(files[o], row[o].path, body[o])
              ELSE Single(files[o], row[o].path, proc[p].body)
           /\ proc[p].pc # "record" => archived[o] = body[o]
<1>1. \A q \in Procs : (Lifts(proc[q], o) => q = p) /\ (Updating(proc[q], o) => q = p)
  BY NotSpoiled
<1>2. ~ Lifts(proc[p], o)
  BY PCsApart DEF Lifts, Updating
<1> QED
  BY <1>1, <1>2 DEF InPlace

LEMMA UpdateMoves ==
    ASSUME NEW c, PlanShape(c), c.pc \in UpdatePC, NEW pc \in UpdatePC, NEW d, d = [c EXCEPT !.pc = pc]
    PROVE  /\ d.pc = pc /\ d.target = c.target /\ d.body = c.body /\ d.path = c.path
           /\ \A o : ~ Lifts(d, o) /\ (Updating(d, o) <=> c.target = o)
<1>1. d.pc = pc /\ d.target = c.target /\ d.body = c.body /\ d.path = c.path
  BY PCsApart DEF PlanShape, Has
<1> QED
  BY <1>1, PCsApart DEF Lifts, Updating

LEMMA WriteNoteKeepsFiles ==
    ASSUME Shapes, PlansInv, PathsInv, DOMAIN files = Notes, NEW p \in Procs, WriteNote(p),
           NEW o \in Notes, ~ Spoils(o), InPlace(o)
    PROVE  InPlace(o)'
<1> DEFINE c == proc[p]
           d == [c EXCEPT !.pc = "sync"]
<1>1. c.pc = "write" /\ c.pc \in UpdatePC /\ c.pc \in PlanPC /\ "sync" \in UpdatePC
  BY DEF WriteNote, At, UpdatePC, PlanPC
<1>2. PlanShape(c)
  BY <1>1, ShapeOf DEF Shapes
<1>3. row' = row /\ body' = body /\ archived' = archived
  BY DEF WriteNote, planVars
<1>4. files' = [files EXCEPT ![c.target][c.path] = c.body]
  BY DEF WriteNote
<1>5. proc'[p] = d /\ \A q \in Procs : q # p => proc'[q] = proc[q]
  BY SetDoes DEF WriteNote, Move, Goto
<1>6. d.pc = "sync" /\ d.body = c.body /\ d.path = c.path /\ ~ Lifts(d, o) /\ (Updating(d, o) <=> c.target = o)
  BY <1>1, <1>2, UpdateMoves
<1> HIDE DEF d
<1>7. ~ Lifts(c, o)
  BY <1>1, PCsApart DEF Lifts
<1>8. CASE c.target # o
  <2>1. ~ Updating(c, o)
    BY <1>8 DEF Updating
  <2>2. files'[o] = files[o]
    BY <1>4, <1>8
  <2> QED
    BY <1>3, <1>5, <1>6, <1>7, <1>8, <2>1, <2>2, ElsewhereStep
<1>9. CASE c.target = o
  <2>1. Updating(c, o)
    BY <1>1, <1>9 DEF Updating
  <2>2. /\ \A q \in Procs : ~ Lifts(proc[q], o) /\ (Updating(proc[q], o) => q = p)
        /\ c.path = row[o].path /\ c.body \in Bodies /\ Single(files[o], row[o].path, body[o])
        /\ archived[o] = body[o]
    BY <1>1, <2>1, LoneUpdate
  <2>3. row[o].path \in Dirs
    BY DEF PathsInv
  <2>4. Single(files'[o], row[o].path, c.body)
    <3>1. files'[o] = [files[o] EXCEPT ![c.path] = c.body]
      BY <1>4, <1>9
    <3>2. files'[o] = [x \in Dirs |-> IF x = c.path THEN c.body ELSE files[o][x]]
      BY <2>2, <3>1 DEF Single
    <3> QED
      BY <2>2, <3>2 DEF Single
  <2>5. \A q \in Procs : ~ Lifts(proc'[q], o) /\ (Updating(proc'[q], o) => q = p)
    BY <1>5, <1>6, <2>2
  <2>6. Updating(proc'[p], o) /\ proc'[p].pc = "sync" /\ proc'[p].body = c.body /\ proc'[p].path = c.path
    BY <1>5, <1>6, <1>9
  <2>7. body[o] \in Nat \ {0}
    BY DEF InPlace
  <2> QED
    BY <1>3, <2>2, <2>4, <2>5, <2>6, <2>7 DEF InPlace
<1> QED
  BY <1>8, <1>9

\* An update of o that ends.
LEMMA UpdateFinished ==
    ASSUME Shapes, PlansInv, NEW o \in Notes, ~ Spoils(o), InPlace(o), NEW p \in Procs,
           Updating(proc[p], o), proc[p].pc # "write",
           proc'[p] = Idle, \A q \in Procs : q # p => proc'[q] = proc[q],
           files'[o] = files[o], archived'[o] = archived[o], row'[o].path = row[o].path
    PROVE  body'[o] = proc[p].body /\ (body'[o] = body[o] => InPlace(o)')
<1>1. body'[o] = proc[p].body
  BY NotSpoiled
<1>2. ~ Updating(proc'[p], o) /\ ~ Lifts(proc'[p], o)
  BY PCsApart DEF Updating, Lifts
<1>3. \A q \in Procs : q = p \/ SameRole(proc[q], proc'[q], o)
  BY DEF SameRole
<1>4. ASSUME body'[o] = body[o] PROVE InPlace(o)'
  BY <1>1, <1>2, <1>3, <1>4, UpdateGone
<1> QED
  BY <1>1, <1>4
LEMMA SyncNoteKeepsFiles ==
    ASSUME Shapes, PlansInv, PathsInv, DOMAIN archived = Notes, NEW p \in Procs, SyncNote(p),
           NEW o \in Notes, ~ Spoils(o), InPlace(o)
    PROVE  InPlace(o)'
<1> DEFINE c == proc[p]
           d == [c EXCEPT !.pc = "record"]
           at == files[c.target][row[NoteSource(c.target)].path]
<1>1. c.pc = "sync" /\ c.pc \in UpdatePC /\ c.pc \in PlanPC /\ "record" \in UpdatePC
  BY DEF SyncNote, At, UpdatePC, PlanPC
<1>2. PlanShape(c)
  BY <1>1, ShapeOf DEF Shapes
<1>3. files' = files /\ body' = body
  BY DEF SyncNote
<1>4. row'[o].path = row[o].path
  BY SyncPaths, NotesAre DEF SamePaths
<1>5. \A q \in Procs : q # p => proc'[q] = proc[q]
  BY SetDoes DEF SyncNote, Finish, Become, Move, Goto
<1>6. \/ proc'[p] = Idle /\ archived' = archived
      \/ proc'[p] = d /\ archived' = [archived EXCEPT ![c.target] = at]
  BY SetDoes DEF SyncNote, Finish, Become, Move, Goto
<1>7. d.pc = "record" /\ d.body = c.body /\ d.path = c.path /\ ~ Lifts(d, o) /\ (Updating(d, o) <=> c.target = o)
  BY <1>1, <1>2, UpdateMoves
<1> HIDE DEF d
<1>8. ~ Lifts(c, o) /\ ~ Lifts(Idle, o) /\ ~ Updating(Idle, o)
  BY <1>1, PCsApart DEF Lifts, Updating
<1>9. CASE c.target # o
  <2>1. ~ Updating(c, o)
    BY <1>9 DEF Updating
  <2>2. archived'[o] = archived[o]
    BY <1>6, <1>9
  <2>3. ~ Lifts(proc'[p], o) /\ ~ Updating(proc'[p], o)
    BY <1>6, <1>7, <1>8, <1>9
  <2> QED
    BY <1>3, <1>4, <1>5, <1>8, <2>1, <2>2, <2>3, ElsewhereStep
<1>10. CASE c.target = o
  <2>1. Updating(c, o)
    BY <1>1, <1>10 DEF Updating
  <2>2. CASE proc'[p] = Idle /\ archived' = archived
    <3>1. c.pc # "write"
      BY <1>1
    <3>2. files'[o] = files[o] /\ archived'[o] = archived[o] /\ body'[o] = body[o]
      BY <1>3, <2>2
    <3> QED
      BY <1>4, <1>5, <2>1, <2>2, <3>1, <3>2, UpdateFinished
  <2>3. CASE proc'[p] = d /\ archived' = [archived EXCEPT ![c.target] = at]
    <3>1. /\ \A q \in Procs : ~ Lifts(proc[q], o) /\ (Updating(proc[q], o) => q = p)
          /\ c.path = row[o].path /\ c.body \in Bodies /\ Single(files[o], row[o].path, c.body)
      BY <1>1, <2>1, LoneUpdate
    <3>2. at = c.body
      BY <1>10, <3>1 DEF PathsInv, Single
    <3>3. archived'[o] = c.body
      BY <1>10, <2>3, <3>2
    <3>4. \A q \in Procs : ~ Lifts(proc'[q], o) /\ (Updating(proc'[q], o) => q = p)
      BY <1>5, <1>7, <2>3, <3>1
    <3>5. Updating(proc'[p], o) /\ proc'[p].pc = "record" /\ proc'[p].body = c.body /\ proc'[p].path = c.path
      BY <1>7, <1>10, <2>3
    <3>6. body[o] \in Nat \ {0}
      BY DEF InPlace
    <3>7. Single(files'[o], row'[o].path, c.body) /\ proc'[p].path = row'[o].path /\ body'[o] \in Nat \ {0}
      BY <1>3, <1>4, <3>1, <3>5, <3>6
    <3> QED
      BY <3>1, <3>3, <3>4, <3>5, <3>7 DEF InPlace
  <2> QED
    BY <1>6, <2>2, <2>3
<1> QED
  BY <1>9, <1>10

LEMMA RecordNoteKeepsFiles ==
    ASSUME Shapes, PlansInv, PathsInv, DOMAIN body = Notes, NEW p \in Procs, RecordNote(p),
           NEW o \in Notes, ~ Spoils(o), InPlace(o)
    PROVE  InPlace(o)'
<1> DEFINE c == proc[p]
<1>1. c.pc = "record" /\ c.pc \in UpdatePC
  BY DEF RecordNote, At, UpdatePC
<1>2. files' = files /\ archived' = archived
  BY DEF RecordNote
<1>3. row'[o].path = row[o].path
  BY RecordPaths, NotesAre DEF SamePaths
<1>4. proc'[p] = Idle /\ \A q \in Procs : q # p => proc'[q] = proc[q]
  BY SetDoes DEF RecordNote, Finish, Become
<1>5. body' = body \/ body' = [body EXCEPT ![c.target] = c.body]
  BY DEF RecordNote
<1>6. ~ Lifts(c, o) /\ ~ Lifts(Idle, o) /\ ~ Updating(Idle, o)
  BY <1>1, PCsApart DEF Lifts, Updating
<1>7. CASE c.target # o
  <2>1. ~ Updating(c, o)
    BY <1>7 DEF Updating
  <2>2. body'[o] = body[o]
    BY <1>5, <1>7
  <2> QED
    BY <1>2, <1>3, <1>4, <1>6, <2>1, <2>2, ElsewhereStep
<1>8. CASE c.target = o
  <2>1. Updating(c, o)
    BY <1>1, <1>8 DEF Updating
  <2>2. /\ \A q \in Procs : ~ Lifts(proc[q], o) /\ (Updating(proc[q], o) => q = p)
        /\ c.body \in Bodies /\ Single(files[o], row[o].path, c.body)
    BY <1>1, <2>1, LoneUpdate
  <2>3. archived[o] = c.body
    BY <1>1, <2>1 DEF InPlace
  <2>4. body'[o] = c.body
    BY <1>1, <1>2, <1>3, <1>4, <2>1, UpdateFinished
  <2>5. \A q \in Procs : ~ Lifts(proc'[q], o) /\ ~ Updating(proc'[q], o)
    BY <1>4, <1>6, <2>2
  <2>6. c.body \in Nat \ {0}
    BY <2>2, NoteAssumption
  <2> QED
    BY <1>2, <1>3, <2>2, <2>3, <2>4, <2>5, <2>6, NoteSettled
<1> QED
  BY <1>7, <1>8

-----------------------------------------------------------------------------
(* The invariant of the notes *)

\* The functions of the notes keep their domains.
LEMMA NoteDomains ==
    ASSUME DOMAIN files = Notes, DOMAIN body = Notes, DOMAIN archived = Notes, Step
    PROVE  DOMAIN files' = Notes /\ DOMAIN body' = Notes /\ DOMAIN archived' = Notes
<1>1. CASE UNCHANGED noteVars
  BY <1>1 DEF noteVars
<1>2. CASE PlanMove
  BY <1>1, <1>2 DEF PlanMove
<1>3. ASSUME NEW p \in Procs, NoteStep(p)
      PROVE  DOMAIN files' = Notes /\ DOMAIN body' = Notes /\ DOMAIN archived' = Notes
  <2>1. CASE Describe(p) \/ HashSource(p) \/ CheckUndo(p) \/ Update(p)
    BY <1>1, <2>1 DEF Describe, HashSource, CheckUndo, Update
  <2>2. CASE Rename(p)
    BY <2>2 DEF Rename, Renamed
  <2>3. CASE MoveBack(p)
    BY <2>3 DEF MoveBack, RenameBack, Renamed
  <2>4. CASE WriteNote(p)
    BY <2>4 DEF WriteNote
  <2>5. CASE SyncNote(p)
    BY <2>5 DEF SyncNote
  <2>6. CASE RecordNote(p)
    BY <2>6 DEF RecordNote
  <2> QED
    BY <1>3, <2>1, <2>2, <2>3, <2>4, <2>5, <2>6 DEF NoteStep
<1>4. CASE ~ NoteAndPlanStep
  BY <1>1, <1>4 DEF Step, DaemonsStep, MigrationsStep, BackupsStep, InitsStep, ConfigsStep, Kill
<1> QED
  BY <1>1, <1>2, <1>3, <1>4 DEF NoteAndPlanStep

LEMMA InPlaceKeeps ==
    ASSUME Shapes, Shapes', PlansInv, PathsInv,
           DOMAIN files = Notes, DOMAIN body = Notes, DOMAIN archived = Notes,
           Step, NEW o \in Notes, ~ Spoils(o), InPlace(o)
    PROVE  InPlace(o)'
<1>1. CASE ~ NoteAndPlanStep
  BY <1>1, OthersKeepFiles
<1>2. CASE (PlanDelete \/ PlanUndo \/ Expire \/ Touch) /\ UNCHANGED noteVars
  BY <1>2, ElsewhereKeepsFiles
<1>3. CASE PlanMove
  BY <1>3, ElsewhereKeepsFiles
<1>4. ASSUME NEW p \in Procs, PlanStep(p), UNCHANGED noteVars PROVE InPlace(o)'
  <2>1. CASE Apply(p) \/ Cancel(p) \/ Restore(p) \/ Moderate(p)
    BY <1>4, <2>1, LaunchKeepsFiles
  <2>2. CASE Verify(p)
    BY <1>4, <2>2, VerifyKeepsFiles
  <2>3. CASE Commit(p)
    BY <1>4, <2>3, CommitKeepsFiles
  <2>4. CASE CancelWrite(p)
    BY <1>4, <2>4, BeforeRenameKeepsFiles
  <2> QED
    BY <1>4, <2>1, <2>2, <2>3, <2>4 DEF PlanStep
<1>5. ASSUME NEW p \in Procs, NoteStep(p) PROVE InPlace(o)'
  <2>1. CASE Describe(p) \/ HashSource(p) \/ CheckUndo(p)
    BY <2>1, BeforeRenameKeepsFiles
  <2>2. CASE Rename(p)
    BY <2>2, RenameKeepsFiles
  <2>3. CASE MoveBack(p)
    BY <2>3, MoveBackKeepsFiles
  <2>4. CASE Update(p)
    BY <2>4, UpdateKeepsFiles
  <2>5. CASE WriteNote(p)
    BY <2>5, WriteNoteKeepsFiles
  <2>6. CASE SyncNote(p)
    BY <2>6, SyncNoteKeepsFiles
  <2>7. CASE RecordNote(p)
    BY <2>7, RecordNoteKeepsFiles
  <2> QED
    BY <1>5, <2>1, <2>2, <2>3, <2>4, <2>5, <2>6, <2>7 DEF NoteStep
<1> QED
  BY <1>1, <1>2, <1>3, <1>4, <1>5 DEF NoteAndPlanStep

LEMMA NotesInvStep ==
    ASSUME Shapes, Shapes', PlansInv, PathsInv, NotesInv, Next
    PROVE  NotesInv'
<1>1. DOMAIN files' = Notes /\ DOMAIN body' = Notes /\ DOMAIN archived' = Notes
  BY NoteDomains DEF NotesInv, Next
<1>2. ASSUME NEW o \in Notes, o \notin spoiled' PROVE InPlace(o)'
  <2>1. o \notin spoiled /\ ~ Spoils(o)
    BY <1>2 DEF Next
  <2>2. InPlace(o) /\ Step
    BY <2>1 DEF NotesInv, Next
  <2> QED
    BY <2>1, <2>2, InPlaceKeeps DEF NotesInv
<1> QED
  BY <1>1, <1>2 DEF NotesInv

NotePlanInv == Shapes /\ PlansInv /\ PathsInv /\ NotesInv

LEMMA NotePlanInit ==
    ASSUME Init
    PROVE  NotePlanInv
<1>1. Shapes
  BY ShapesInit
<1>2. \A p \in Procs : proc[p] = Idle
  BY DEF Init, WorkInit
<1>3. row = [r \in Rows |-> [c \in Columns[KindOf[r]] |->
               CASE c = "state" -> "active" [] c = "version" -> 1 [] c \in Times -> 0
                 [] c = "stale_reason" -> "none" [] c = "path" -> Home]]
  BY DEF Init, MutationInit
<1>4. plans = <<>> /\ ops = <<>>
  BY DEF Init, MutationInit
<1>5. PlansInv
  <2>1. <<>> \in Seq({}) /\ DOMAIN <<>> = {}
    OBVIOUS
  <2>2. \A p \in Procs : proc[p].pc \notin MovePC
    BY <1>2, PCsApart
  <2> QED
    BY <1>4, <2>1, <2>2 DEF PlansInv
<1>6. ASSUME NEW r \in Rows, KindOf[r] \in {"note", "source"}
      PROVE  "path" \in DOMAIN row[r] /\ row[r].path = Home
  <2>1. "path" \in Columns[KindOf[r]]
    BY <1>6 DEF Columns
  <2> QED
    BY <1>3, <2>1 DEF Times
<1>7. PathsInv
  BY <1>3, <1>6, NotesAre, NoteAssumption DEF PathsInv
<1>8. ASSUME NEW o \in Notes PROVE InPlace(o)
  <2>1. \A p \in Procs : ~ Lifts(proc[p], o) /\ ~ Updating(proc[p], o)
    BY <1>2, PCsApart DEF Lifts, Updating
  <2>2. body[o] = 1 /\ archived[o] = 1 /\ files[o] = [d \in Dirs |-> IF d = Home THEN 1 ELSE 0]
    BY DEF Init, NoteInit
  <2>3. row[o].path = Home
    BY <1>6, NotesAre
  <2> QED
    BY <2>1, <2>2, <2>3 DEF InPlace, Single
<1>9. NotesInv
  BY <1>8 DEF NotesInv, Init, NoteInit
<1> QED
  BY <1>1, <1>5, <1>7, <1>9 DEF NotePlanInv

LEMMA NotePlanHolds == Spec => []NotePlanInv
<1>1. NotePlanInv /\ [Next]_vars => NotePlanInv'
  <2>1. ASSUME NotePlanInv, UNCHANGED vars PROVE NotePlanInv'
    <3>1. Shapes'
      BY <2>1 DEF NotePlanInv, Shapes, vars, workVars
    <3>2. PlansInv'
      BY <2>1 DEF NotePlanInv, PlansInv, vars, workVars, planVars
    <3>3. PathsInv'
      BY <2>1 DEF NotePlanInv, PathsInv, vars, planVars
    <3>4. NotesInv'
      BY <2>1 DEF NotePlanInv, NotesInv, InPlace, vars, workVars, planVars, noteVars
    <3> QED
      BY <3>1, <3>2, <3>3, <3>4 DEF NotePlanInv
  <2>2. ASSUME NotePlanInv, Next PROVE NotePlanInv'
    <3>1. Shapes /\ PlansInv /\ PathsInv /\ NotesInv /\ Step
      BY <2>2 DEF NotePlanInv, Next
    <3>2. Shapes'
      BY <3>1, ShapesStep
    <3>3. PlansInv'
      BY <3>1, <3>2, PlansInvStep
    <3>4. PathsInv'
      BY <3>1, PathsHold
    <3>5. NotesInv'
      BY <2>2, <3>1, <3>2, NotesInvStep
    <3> QED
      BY <3>2, <3>3, <3>4, <3>5 DEF NotePlanInv
  <2> QED
    BY <2>1, <2>2
<1> QED
  BY <1>1, NotePlanInit, PTL DEF Spec

\* The path of a note and the locator of its Source agree in every state, spoiled or
\* not: a transaction that changes one of them changes both (describeNoteMove), and no
\* other command writes either.
RowAndLocatorAgree == \A o \in Notes : row[NoteSource(o)].path = row[o].path

THEOREM LocatorsFollow == Spec => []RowAndLocatorAgree
<1>1. NotePlanInv => RowAndLocatorAgree
  BY DEF NotePlanInv, PathsInv, RowAndLocatorAgree
<1> QED
  BY <1>1, NotePlanHolds, PTL

\* At rest a note that is not spoiled has one file, where its row and the locator of
\* its Source say, with the content of its last update, which is archived: whatever
\* moves, undos, updates and other plans ran at once, conflicted, were killed before
\* they renamed anything or took their file back (applyNoteMove, applyNoteMoveUndo,
\* updateNote).
THEOREM NotesStayInPlace == Spec => []NotesAreWhereTheySay
<1>1. ASSUME NotePlanInv PROVE NotesAreWhereTheySay
  <2> SUFFICES ASSUME AtRest, NEW o \in Notes \ spoiled
               PROVE  /\ row[NoteSource(o)].path = row[o].path
                      /\ files[o] = [d \in Dirs |-> IF d = row[o].path THEN body[o] ELSE 0]
                      /\ archived[o] = body[o]
    BY DEF NotesAreWhereTheySay
  <2>1. InPlace(o) /\ row[NoteSource(o)].path = row[o].path
    BY <1>1 DEF NotePlanInv, NotesInv, PathsInv
  <2>2. \A p \in Procs : ~ Lifts(proc[p], o) /\ ~ Updating(proc[p], o)
    BY PCsApart DEF AtRest, Busy, Lifts, Updating
  <2> QED
    BY <2>1, <2>2 DEF InPlace, Single
<1> QED
  BY <1>1, NotePlanHolds, PTL

-----------------------------------------------------------------------------
(* The images of a change                                                  *)

Versioned(r) == "version" \in Columns[KindOf[r]]
\* Rows without a version: those that have nothing but a state to tell when they were
\* changed, or a time that nobody sets back, and those with the date of their change.
Brief == {"chunk", "claim_evidence", "relation_evidence"}
Dated == {"evidence_context", "answer"}
Off(r) == IF KindOf[r] = "chunk" THEN "tombstoned" ELSE "stale"

\* A change of a row that takes back no other, made at time t, or planned (Now).
ImageAt(r, g, t) ==
    /\ IsChange(g)
    /\ DOMAIN g.after = DOMAIN g.before /\ DOMAIN g.before \subseteq Columns[KindOf[r]]
    /\ \A c \in Times \cap DOMAIN g.before : g.before[c] \in Nat /\ g.after[c] = t
    /\ Versioned(r) => /\ "version" \in DOMAIN g.before
                       /\ g.before.version \in Nat /\ g.after.version = g.before.version + 1
    /\ KindOf[r] \in Brief \cup Dated =>
         DOMAIN g.before = Columns[KindOf[r]] /\ g.after.state = Off(r)
    /\ KindOf[r] \in Brief => g.before.state = "active"
    /\ KindOf[r] \in {"claim", "relation", "topic"} => "state" \in DOMAIN g.before
    /\ KindOf[r] = "topic" => g.after.state = "deleted" \/ "stale_at" \in DOMAIN g.before
PlannedAre(ch) == \A r \in DOMAIN ch : r \in Rows /\ ImageAt(r, ch[r], Now)
DoneAt(r, g, t) == ImageAt(r, g, t) /\ \A c \in Times \cap DOMAIN g.before : g.before[c] < t

\* What a plan or a command is for: changes of its own, or taking back an operation.
\* What can be taken back has a row with a version, and a restore is not restored.
Meant(c, q) ==
    \/ /\ c.undoOf = 0 /\ PlannedAre(c.changes)
       /\ c.reversible => \E x \in DOMAIN c.changes : Versioned(x)
    \/ /\ c.undoOf \in DOMAIN q /\ q[c.undoOf].reversible
       /\ c.changes = Reverse(q[c.undoOf].changes)
       /\ c.reversible => q[c.undoOf].undoOf = 0

-----------------------------------------------------------------------------
(* Operations that stand                                                   *)

TakenBack(q, o) == {u \in DOMAIN q : q[u].undoOf = o}
Stays(q, o) == \A u \in TakenBack(q, o) : TakenBack(q, u) # {}
Stand(q, r) == {o \in DOMAIN q : q[o].undoOf = 0 /\ r \in DOMAIN q[o].changes /\ Stays(q, o)}
Was(q, o, r) == q[o].changes[r].before
Became(q, o, r) == q[o].changes[r].after

\* The operations up to time k: those that take back nothing, and those that do.
OwnOp(q, o, k) ==
    /\ \A r \in DOMAIN q[o].changes : r \in Rows /\ \E t \in 1 .. k - 1 : DoneAt(r, q[o].changes[r], t)
    /\ q[o].reversible => \E x \in DOMAIN q[o].changes : Versioned(x)
BackOp(q, o) ==
    /\ q[o].undoOf \in 1 .. o - 1 /\ q[q[o].undoOf].reversible
    /\ q[o].changes = Reverse(q[q[o].undoOf].changes)
    /\ q[o].reversible => q[q[o].undoOf].undoOf = 0
OpsInv(q, k) ==
    /\ k \in Nat \ {0} /\ \E S : q \in Seq(S)
    /\ \A o \in DOMAIN q : IF q[o].undoOf = 0 THEN OwnOp(q, o, k) ELSE BackOp(q, o)
    /\ \A u, v \in DOMAIN q : q[u].undoOf = q[v].undoOf /\ q[u].undoOf # 0 => u = v
    /\ \A r \in Rows : KindOf[r] \in Dated =>
         \A o, u \in DOMAIN q : /\ q[o].undoOf = 0 /\ r \in DOMAIN q[o].changes
                                /\ q[u].undoOf = 0 /\ r \in DOMAIN q[u].changes /\ o < u
                                => Became(q, o, r).stale_at < Became(q, u, r).stale_at

-----------------------------------------------------------------------------
(* What a row has been through: its value x, and b without any operation    *)

Agree(r, x, b) == \A c \in Columns[KindOf[r]] \ {"version"} : x[c] = b[c]
Fits(image, x) == \A c \in DOMAIN image : x[c] = image[c]

RowIs(r, x, k) ==
    /\ DOMAIN x = Columns[KindOf[r]]
    /\ Versioned(r) => x.version \in Nat
    /\ \A c \in Times \cap Columns[KindOf[r]] : x[c] \in 0 .. k - 1
    /\ KindOf[r] \in Brief => x.state \in {"active", Off(r)}
    /\ KindOf[r] = "chunk" => x.state = "active" \/ x.deleted_at # 0

\* The last operation that stands has the latest date, and each found what the one
\* before it has made.
Date(q, o, r) == Became(q, o, r).stale_at
Stacked(q, r, x, b) ==
    /\ Stand(q, r) # {} => \E o \in Stand(q, r) :
         Agree(r, x, Became(q, o, r)) /\ \A u \in Stand(q, r) : Date(q, u, r) <= Date(q, o, r)
    /\ \A o \in Stand(q, r) :
         \/ Agree(r, Was(q, o, r), b) /\ \A u \in Stand(q, r) : Date(q, o, r) <= Date(q, u, r)
         \/ \E d \in Stand(q, r) :
              /\ Date(q, d, r) < Date(q, o, r) /\ Agree(r, Was(q, o, r), Became(q, d, r))
              /\ \A u \in Stand(q, r) : Date(q, u, r) < Date(q, o, r) => Date(q, u, r) <= Date(q, d, r)

\* Taking back the only operation that stands gives what there would be without it,
\* as long as nothing has been written since.
Returns(q, r, x, b) ==
    \A o \in Stand(q, r) :
        TakenBack(q, o) = {} /\ Stand(q, r) = {o} /\ Fits(Became(q, o, r), x)
        => Agree(r, Overlay(Was(q, o, r), x), b)
\* What has become stale stays so until the next operation.
Fades(q, r, x) ==
    \A o \in Stand(q, r) :
        Became(q, o, r).version = x.version /\ Became(q, o, r).state = "stale" => x.state = "stale"
Switched(q, r, x, b) ==
    \A o \in Stand(q, r) : Stand(q, r) = {o} /\ x.state # "active" /\ Agree(r, Was(q, o, r), b)

Trace(q, r, x, b) ==
    /\ Stand(q, r) = {} => Agree(r, x, b)
    /\ Versioned(r) => Returns(q, r, x, b)
    /\ KindOf[r] \in {"claim", "relation"} => Fades(q, r, x)
    /\ KindOf[r] \in Brief => Switched(q, r, x, b)
    /\ KindOf[r] \in Dated => Stacked(q, r, x, b)

\* No operation is ahead of the version of its row.
Past(q, r, x) ==
    Versioned(r) => \A o \in DOMAIN q : r \in DOMAIN q[o].changes =>
        /\ "version" \in DOMAIN q[o].changes[r].after
        /\ q[o].changes[r].after.version \in Nat /\ q[o].changes[r].after.version <= x.version

RowsInv ==
    /\ OpsInv(ops, clock) /\ DOMAIN row = Rows /\ DOMAIN base = Rows
    /\ \A r \in Rows : /\ RowIs(r, row[r], clock) /\ DOMAIN base[r] = Columns[KindOf[r]]
                       /\ Past(ops, r, row[r]) /\ Trace(ops, r, row[r], base[r])
MeantInv ==
    /\ \A i \in DOMAIN plans : Meant(plans[i], ops)
    /\ \A p \in Procs : /\ proc[p].pc \in MovePC => Meant(proc[p], ops)
                        /\ proc[p].pc \in UpdatePC => proc[p].target \in Notes
TraceInv == RowsInv /\ MeantInv

-----------------------------------------------------------------------------
(* What plans want is of this kind                                         *)

WantOk(w) ==
    /\ w.row \in Rows /\ DOMAIN w.extra \cup {"state"} \subseteq Columns[KindOf[w.row]]
    /\ DOMAIN w.extra \cap {"version", "state"} = {}
    /\ \A c \in Times \cap DOMAIN w.extra : w.extra[c] = Now
    /\ KindOf[w.row] \in Brief \cup Dated =>
         w.value = Off(w.row) /\ DOMAIN w.extra \cup {"state"} = Columns[KindOf[w.row]]
    /\ KindOf[w.row] = "topic" => w.value = "deleted" \/ "stale_at" \in DOMAIN w.extra
WantsOk(W) == \A w \in W : WantOk(w)

LEMMA WantImage ==
    ASSUME NEW w, WantOk(w), ~ Holds(w), NEW k \in Nat, RowIs(w.row, row[w.row], k)
    PROVE  ImageAt(w.row, [kind |-> w.kind, before |-> Before(w), after |-> After(w)], Now)
<1> DEFINE r == w.row
           x == row[r]
           B == Before(w)
           A == After(w)
           g == [kind |-> w.kind, before |-> B, after |-> A]
<1>0. r \in Rows /\ DOMAIN x = Columns[KindOf[r]]
  BY DEF WantOk, RowIs
<1>1. /\ DOMAIN B = {"state"} \cup DOMAIN w.extra \cup (Columns[KindOf[r]] \cap {"version"})
      /\ \A c \in DOMAIN B : B[c] = Read(r, c)
  BY <1>0 DEF Before
<1>2. /\ DOMAIN A = DOMAIN B
      /\ \A c \in DOMAIN B : A[c] = CASE c = "state" -> w.value [] c = "version" -> x.version + 1
                                      [] OTHER -> w.extra[c]
  BY DEF After
<1>3. IsChange(g) /\ g.before = B /\ g.after = A
  BY DEF IsChange
<1>4. \A c \in Times \cap DOMAIN B : B[c] \in Nat /\ A[c] = Now
  <2> SUFFICES ASSUME NEW c \in Times, c \in DOMAIN B PROVE B[c] \in Nat /\ A[c] = Now
    OBVIOUS
  <2>1. c # "state" /\ c # "version"
    BY DEF Times
  <2>2. c \in DOMAIN w.extra /\ w.extra[c] = Now /\ c \in Columns[KindOf[r]]
    BY <1>1, <2>1 DEF WantOk
  <2>3. x[c] \in 0 .. k - 1
    BY <2>2 DEF RowIs
  <2>4. Read(r, c) \in Nat
    BY <2>3 DEF Read
  <2>5. A[c] = w.extra[c]
    BY <1>2, <2>1
  <2> QED
    BY <1>1, <2>2, <2>4, <2>5
<1>5. Versioned(r) => "version" \in DOMAIN B /\ B.version \in Nat /\ A.version = B.version + 1
  <2> SUFFICES ASSUME Versioned(r) PROVE "version" \in DOMAIN B /\ B.version \in Nat /\ A.version = B.version + 1
    OBVIOUS
  <2>1. "version" \in DOMAIN B /\ x.version \in Nat
    BY <1>1 DEF Versioned, RowIs
  <2>2. B["version"] = Read(r, "version") /\ A["version"] = x.version + 1
    BY <1>1, <1>2, <2>1
  <2>3. Read(r, "version") = x.version
    BY DEF Read
  <2> QED
    BY <2>1, <2>2, <2>3
<1>6. "state" \in DOMAIN B /\ A.state = w.value /\ B.state = x.state
  <2>1. "state" \in DOMAIN B
    BY <1>1
  <2>2. B["state"] = Read(r, "state") /\ A["state"] = w.value
    BY <1>1, <1>2, <2>1
  <2> QED
    BY <2>1, <2>2 DEF Read
<1>7. KindOf[r] \in Brief \cup Dated => DOMAIN B = Columns[KindOf[r]] /\ A.state = Off(r)
  <2> SUFFICES ASSUME KindOf[r] \in Brief \cup Dated PROVE DOMAIN B = Columns[KindOf[r]] /\ A.state = Off(r)
    OBVIOUS
  <2>1. w.value = Off(r) /\ DOMAIN w.extra \cup {"state"} = Columns[KindOf[r]]
    BY DEF WantOk
  <2> QED
    BY <1>1, <1>6, <2>1
<1>8. KindOf[r] \in Brief => B.state = "active"
  <2> SUFFICES ASSUME KindOf[r] \in Brief PROVE x.state = "active"
    BY <1>6
  <2>1. w.value = Off(r) /\ DOMAIN w.extra \cup {"state"} = Columns[KindOf[r]]
        /\ DOMAIN w.extra \cap {"version", "state"} = {}
    BY DEF WantOk
  <2>2. x.state \in {"active", Off(r)}
    BY DEF RowIs
  <2>3. CASE KindOf[r] = "chunk"
    <3>1. DOMAIN w.extra = {"deleted_at"}
      BY <2>1, <2>3 DEF Columns
    <3>2. Read(r, "deleted_at") = x.deleted_at
      BY <2>3 DEF Read, Unselected
    <3>3. x.state = "active" \/ x.deleted_at # 0
      BY <2>3 DEF RowIs
    <3> QED
      BY <2>1, <2>2, <3>1, <3>2, <3>3 DEF Holds, Times
  <2>4. CASE KindOf[r] # "chunk"
    <3>1. DOMAIN w.extra = {}
      BY <2>1, <2>4 DEF Columns, Brief
    <3> QED
      BY <2>1, <2>2, <3>1 DEF Holds
  <2> QED
    BY <2>3, <2>4
<1>9. KindOf[r] = "topic" => A.state = "deleted" \/ "stale_at" \in DOMAIN B
  BY <1>1, <1>6 DEF WantOk
<1>10. DOMAIN B \subseteq Columns[KindOf[r]]
  BY <1>1 DEF WantOk
<1>11. DOMAIN A = DOMAIN B
  BY <1>2
<1> HIDE DEF A, B, r, g, x
<1>12. ImageAt(r, g, Now)
  BY ONLY <1>3, <1>4, <1>5, <1>6, <1>7, <1>8, <1>9, <1>10, <1>11 DEF ImageAt
<1> QED
  BY <1>12 DEF A, B, r, g

LEMMA ChangesMade ==
    ASSUME NEW W, WantsOk(W), NEW k \in Nat, \A r \in Rows : RowIs(r, row[r], k)
    PROVE  /\ PlannedAre(Changes(W))
           /\ \A w \in W : ~ Holds(w) => w.row \in DOMAIN Changes(W)
<1> DEFINE A == {w \in W : ~ Holds(w)}
           ch == Changes(W)
<1>1. DOMAIN ch = {x.row : x \in A}
  BY DEF Changes
<1>2. ASSUME NEW r \in DOMAIN ch PROVE r \in Rows /\ ImageAt(r, ch[r], Now)
  <2> DEFINE w == CHOOSE x \in A : x.row = r
  <2>1. w \in A /\ w.row = r
    BY <1>1, <1>2
  <2>2. ch[r] = [kind |-> w.kind, before |-> Before(w), after |-> After(w)]
    BY <1>1, <1>2 DEF Changes
  <2> HIDE DEF w, ch
  <2>3. WantOk(w) /\ ~ Holds(w) /\ w.row \in Rows
    BY <2>1 DEF WantsOk, WantOk
  <2> QED
    BY <2>1, <2>2, <2>3, WantImage
<1> HIDE DEF ch
<1> QED
  BY <1>1, <1>2 DEF PlannedAre, ch

LEMMA WantSets ==
    /\ \A A, B : WantsOk(A) /\ WantsOk(B) => WantsOk(A \cup B)
    /\ \A kind, x, R : R \subseteq Of(kind, x) => R \subseteq Rows /\ \A r \in R : KindOf[r] = kind
    /\ \A r \in Rows : KindOf[r] \in {"source", "document", "note", "graph_node", "relation", "claim", "topic", "artifact"}
         => WantsOk({Deleted(r)})
    /\ \A R \in SUBSET Rows :
         (\A r \in R : KindOf[r] \in {"graph_node", "claim", "relation", "claim_evidence", "relation_evidence"})
         => WantsOk(Stale(R))
<1>1. \A A, B : WantsOk(A) /\ WantsOk(B) => WantsOk(A \cup B)
  BY DEF WantsOk
<1>2. \A kind, x, R : R \subseteq Of(kind, x) => R \subseteq Rows /\ \A r \in R : KindOf[r] = kind
  BY DEF Of
<1>3. ASSUME NEW r \in Rows,
             KindOf[r] \in {"source", "document", "note", "graph_node", "relation", "claim", "topic", "artifact"}
      PROVE  WantsOk({Deleted(r)})
  <2>1. "deleted_at" \in Columns[KindOf[r]] /\ "state" \in Columns[KindOf[r]]
    BY <1>3 DEF Columns
  <2>2. KindOf[r] \notin Brief \cup Dated
    BY <1>3 DEF Brief, Dated
  <2> QED
    BY <2>1, <2>2 DEF WantsOk, WantOk, Deleted, Want, Times
<1>4. ASSUME NEW R \in SUBSET Rows,
             \A r \in R : KindOf[r] \in {"graph_node", "claim", "relation", "claim_evidence", "relation_evidence"}
      PROVE  WantsOk(Stale(R))
  <2> SUFFICES ASSUME NEW r \in R PROVE WantOk(Want(r, "stale", "invalidated", <<>>))
    BY DEF WantsOk, Stale, WantAll
  <2>1. "state" \in Columns[KindOf[r]] /\ (KindOf[r] \in Brief \cup Dated => Columns[KindOf[r]] = {"state"})
        /\ KindOf[r] # "topic" /\ KindOf[r] # "chunk"
    BY <1>4 DEF Columns, Brief, Dated
  <2>2. DOMAIN <<>> = {}
    OBVIOUS
  <2> QED
    BY <2>1, <2>2 DEF WantOk, Want, Off
<1> QED
  BY <1>1, <1>2, <1>3, <1>4

LEMMA TopicWants ==
    ASSUME NEW T \in SUBSET Rows, \A t \in T : KindOf[t] = "topic", NEW why, NEW desired
    PROVE  WantsOk(TopicsAndArtifacts(T, why, desired))
<1>1. ASSUME NEW t \in T PROVE WantOk(Want(t, desired, "invalidated", [stale_at |-> Now, stale_reason |-> why]))
  BY DEF WantOk, Want, Columns, Brief, Dated, Times
<1>2. ASSUME NEW U, NEW a \in ArtifactsOf(U)
      PROVE  WantOk(Want(a, "stale", "invalidated", [stale_reason |-> why]))
  <2>1. a \in Rows /\ KindOf[a] = "artifact"
    BY DEF ArtifactsOf, Of
  <2> QED
    BY <2>1 DEF WantOk, Want, Columns, Brief, Dated, Times
<1> QED
  BY <1>1, <1>2 DEF TopicsAndArtifacts, WantAll, WantsOk

LEMMA TopicsAre ==
    /\ \A x : TopicsOf(x) \in SUBSET Rows /\ \A t \in TopicsOf(x) : KindOf[t] = "topic"
    /\ \A S : LET T == UNION {TopicsOf(c) : c \in S}
              IN T \in SUBSET Rows /\ \A t \in T : KindOf[t] = "topic"
BY DEF TopicsOf, Of

LEMMA SourceWants ==
    ASSUME NEW s \in Rows, KindOf[s] = "source"
    PROVE  WantsOk(SourceDelete(s))
<1>1. WantsOk(SourceContent(s))
  <2>1. WantsOk({Deleted(s)})
    BY WantSets
  <2>2. ASSUME NEW r \in Of("connection", s) PROVE WantOk(Want(r, "detached", "detached", <<>>))
    <3>1. DOMAIN <<>> = {}
      OBVIOUS
    <3> QED
      BY <3>1 DEF Of, WantOk, Want, Columns, Brief, Dated, Times
  <2>3. ASSUME NEW r \in Of("document", s)
        PROVE  WantOk(Want(r, "deleted", "tombstoned", [deleted_at |-> Now]))
    BY DEF Of, WantOk, Want, Columns, Brief, Dated, Times
  <2>4. ASSUME NEW r \in Of("chunk", s)
        PROVE  WantOk(Want(r, "tombstoned", "tombstoned", [deleted_at |-> Now]))
    BY DEF Of, WantOk, Want, Columns, Brief, Dated, Times, Off
  <2> QED
    BY <2>1, <2>2, <2>3, <2>4 DEF SourceContent, WantAll, WantsOk
<1>2. WantsOk(SourceGraph(s))
  <2>1. WantsOk(Stale(Of("graph_node", s) \ Over("graph_node")))
    BY WantSets DEF Of
  <2>2. WantsOk(Stale(Of("claim_evidence", s) \cup Of("relation_evidence", s)))
    BY WantSets DEF Of
  <2>3. WantsOk(Stale((Shown("claim_evidence", s) \ Over("claim")) \cup (Shown("relation_evidence", s) \ Over("relation"))))
    BY WantSets DEF Shown
  <2> QED
    BY <2>1, <2>2, <2>3, WantSets DEF SourceGraph
<1>3. WantsOk(WantAll(Of("evidence_context", s) \cup Of("answer", s), "stale", "invalidated",
                      [stale_at |-> Now, stale_reason |-> s]))
  <2> SUFFICES ASSUME NEW r \in Of("evidence_context", s) \cup Of("answer", s)
               PROVE  WantOk(Want(r, "stale", "invalidated", [stale_at |-> Now, stale_reason |-> s]))
    BY DEF WantAll, WantsOk
  <2> QED
    BY DEF Of, WantOk, Want, Columns, Brief, Dated, Times, Off
<1>4. WantsOk(TopicsAndArtifacts(TopicsOf(s) \cup UNION {TopicsOf(c) : c \in Shown("claim_evidence", s)}, s, "needs_review"))
  <2> DEFINE T == TopicsOf(s) \cup UNION {TopicsOf(c) : c \in Shown("claim_evidence", s)}
  <2>1. T \in SUBSET Rows /\ \A t \in T : KindOf[t] = "topic"
    BY TopicsAre
  <2> HIDE DEF T
  <2> QED
    BY <2>1, TopicWants DEF T
<1> QED
  BY <1>1, <1>2, <1>3, <1>4, WantSets DEF SourceDelete

LEMMA DeleteWants ==
    ASSUME NEW x \in Rows, KindOf[x] \in Deletable
    PROVE  /\ WantsOk(Wanted(x))
           /\ MayDelete(x) => \E w \in Wanted(x) : w.row = x /\ ~ Holds(w)
<1>1. CASE KindOf[x] = "source"
  <2>1. Wanted(x) = SourceDelete(x) /\ Deleted(x) \in SourceDelete(x)
    BY <1>1 DEF Wanted, SourceDelete, SourceContent
  <2> QED
    BY <1>1, <2>1, SourceWants DEF MayDelete, Refused, Deletable, Deleted, Want, Holds
<1>2. CASE KindOf[x] = "note"
  <2>1. Wanted(x) = {Deleted(x)} \cup SourceDelete(NoteSource(x))
    BY <1>2 DEF Wanted
  <2>2. WantsOk({Deleted(x)}) /\ WantsOk(SourceDelete(NoteSource(x)))
    BY <1>2, WantSets, SourceWants, NotesAre DEF Notes
  <2>3. WantsOk(Wanted(x))
    BY ONLY <2>1, <2>2, WantSets
  <2>4. Deleted(x) \in Wanted(x) /\ Deleted(x).row = x /\ Deleted(x).value = "deleted"
    BY <2>1 DEF Deleted, Want
  <2>5. MayDelete(x) => row[x].state # "deleted"
    BY <1>2 DEF MayDelete, Refused, Deletable
  <2> QED
    BY ONLY <2>3, <2>4, <2>5 DEF Holds
<1>3. CASE KindOf[x] = "connection"
  <2>1. Wanted(x) = {Want(x, "detached", "detached", <<>>)}
    BY <1>3 DEF Wanted
  <2>2. DOMAIN <<>> = {}
    OBVIOUS
  <2>3. WantsOk(Wanted(x))
    BY <1>3, <2>1, <2>2 DEF WantsOk, WantOk, Want, Columns, Brief, Dated, Times
  <2> QED
    BY <1>3, <2>1, <2>3 DEF MayDelete, Refused, Deletable, Want, Holds
<1>4. CASE KindOf[x] = "entity"
  <2>1. Wanted(x) = EntityDelete(x)
    BY <1>4 DEF Wanted
  <2>2. DOMAIN <<>> = {}
    OBVIOUS
  <2>3. WantsOk({Want(x, "deleted", "deleted", <<>>)})
    BY <1>4, <2>2 DEF WantsOk, WantOk, Want, Columns, Brief, Dated, Times
  <2>4. WantsOk({Deleted(n) : n \in Of("graph_node", x)})
    BY WantSets DEF Of, WantsOk
  <2>5. WantsOk(Stale((Of("claim", x) \ Over("claim")) \cup (Of("relation", x) \ Over("relation"))))
    BY WantSets DEF Of
  <2>6. WantsOk(TopicsAndArtifacts(UNION {TopicsOf(c) : c \in Of("claim", x)}, x, "needs_review"))
    <3> DEFINE T == UNION {TopicsOf(c) : c \in Of("claim", x)}
    <3>1. T \in SUBSET Rows /\ \A t \in T : KindOf[t] = "topic"
      BY TopicsAre
    <3> HIDE DEF T
    <3> QED
      BY <3>1, TopicWants DEF T
  <2>7. WantsOk(Wanted(x))
    <3> DEFINE A == {Want(x, "deleted", "deleted", <<>>)}
               B == {Deleted(n) : n \in Of("graph_node", x)}
               C == Stale((Of("claim", x) \ Over("claim")) \cup (Of("relation", x) \ Over("relation")))
               D == TopicsAndArtifacts(UNION {TopicsOf(c) : c \in Of("claim", x)}, x, "needs_review")
    <3>1. Wanted(x) = A \cup B \cup C \cup D
      BY <2>1 DEF EntityDelete
    <3>2. WantsOk(A) /\ WantsOk(B) /\ WantsOk(C) /\ WantsOk(D)
      BY <2>3, <2>4, <2>5, <2>6
    <3> HIDE DEF A, B, C, D
    <3> QED
      BY ONLY <3>1, <3>2 DEF WantsOk
  <2>8. Want(x, "deleted", "deleted", <<>>) \in Wanted(x)
    BY <2>1 DEF EntityDelete
  <2>9. MayDelete(x) => row[x].state # "deleted"
    BY <1>4 DEF MayDelete, Refused, Deletable
  <2>10. \A w : w = Want(x, "deleted", "deleted", <<>>) => w.row = x /\ w.value = "deleted"
    BY DEF Want
  <2> QED
    BY ONLY <2>7, <2>8, <2>9, <2>10 DEF Holds
<1>5. CASE KindOf[x] \in {"relation", "claim", "topic", "artifact"}
  <2>1. WantsOk({Deleted(x)})
    BY <1>5, WantSets
  <2>2. \A d : WantsOk(TopicsAndArtifacts(TopicsOf(x), x, d))
    BY TopicsAre, TopicWants
  <2>3. WantsOk({Deleted(n) : n \in Of("graph_node", x)})
    BY WantSets DEF Of, WantsOk
  <2>4. WantsOk({Deleted(a) : a \in ArtifactsOf({x})})
    BY WantSets DEF ArtifactsOf, Of, WantsOk
  <2>5. WantsOk(ClaimDelete(x)) /\ WantsOk(RelationDelete(x)) /\ WantsOk(TopicDelete(x))
    BY <2>1, <2>2, <2>3, <2>4, WantSets DEF ClaimDelete, RelationDelete, TopicDelete
  <2>6. /\ Wanted(x) \in {ClaimDelete(x), RelationDelete(x), TopicDelete(x), {Deleted(x)}}
        /\ Deleted(x) \in Wanted(x)
    BY <1>5 DEF Wanted, ClaimDelete, RelationDelete, TopicDelete
  <2> QED
    BY <1>5, <2>1, <2>5, <2>6 DEF MayDelete, Refused, Deletable, Deleted, Want, Holds
<1> QED
  BY <1>1, <1>2, <1>3, <1>4, <1>5 DEF Deletable

-----------------------------------------------------------------------------
(* One operation more, and the operations that stand then                  *)

Grows(q, m, n, N) ==
    /\ N \in Nat \ {0} /\ DOMAIN q = 1 .. N - 1 /\ DOMAIN m = 1 .. N
    /\ m[N] = n /\ \A o \in DOMAIN q : m[o] = q[o]

LEMMA AppendGrows ==
    ASSUME NEW q, \E S : q \in Seq(S), NEW n
    PROVE  (\E S : Append(q, n) \in Seq(S)) /\ Grows(q, Append(q, n), n, Len(q) + 1)
<1>1. PICK S : q \in Seq(S)
  OBVIOUS
<1>2. /\ Append(q, n) \in Seq(S \cup {n})
      /\ DOMAIN Append(q, n) = DOMAIN q \cup {Len(q) + 1} /\ Append(q, n)[Len(q) + 1] = n
      /\ \A i \in DOMAIN q : i # Len(q) + 1 /\ Append(q, n)[i] = q[i]
  BY <1>1, Appended
<1>3. DOMAIN q = 1 .. Len(q) /\ Len(q) \in Nat
  BY <1>1
<1> QED
  BY <1>2, <1>3 DEF Grows

\* What the operations are, apart from the time.
LEMMA OpsAre ==
    ASSUME NEW q, NEW k, OpsInv(q, k), NEW o \in DOMAIN q
    PROVE  /\ k \in Nat \ {0} /\ o \in Nat \ {0} /\ q[o].undoOf \in 0 .. o - 1
           /\ q[o].undoOf = 0 => OwnOp(q, o, k)
           /\ q[o].undoOf # 0 => BackOp(q, o) /\ q[o].undoOf \in DOMAIN q
<1>1. k \in Nat \ {0}
  BY DEF OpsInv
<1>2. PICK S : q \in Seq(S)
  BY DEF OpsInv
<1>3. DOMAIN q = 1 .. Len(q) /\ Len(q) \in Nat
  BY <1>2
<1>4. IF q[o].undoOf = 0 THEN OwnOp(q, o, k) ELSE BackOp(q, o)
  BY DEF OpsInv
<1>5. q[o].undoOf # 0 => q[o].undoOf \in 1 .. o - 1
  BY <1>4 DEF BackOp
<1> QED
  BY <1>1, <1>3, <1>4, <1>5

LEMMA TakenBackThen ==
    ASSUME NEW q, NEW m, NEW n, NEW N, Grows(q, m, n, N), n.undoOf \in 0 .. N - 1
    PROVE  /\ \A o \in DOMAIN q : TakenBack(m, o) = TakenBack(q, o) \cup IF n.undoOf = o THEN {N} ELSE {}
           /\ (\A o \in DOMAIN q : q[o].undoOf \in 0 .. o - 1) => TakenBack(m, N) = {}
BY DEF Grows, TakenBack

LEMMA StandOwn ==
    ASSUME NEW q, NEW m, NEW n, NEW N, Grows(q, m, n, N), n.undoOf = 0,
           \A o \in DOMAIN q : q[o].undoOf \in 0 .. o - 1, NEW r
    PROVE  /\ Stand(m, r) = Stand(q, r) \cup IF r \in DOMAIN n.changes THEN {N} ELSE {}
           /\ \A o \in DOMAIN q : TakenBack(m, o) = TakenBack(q, o)
<1>1. N \in Nat /\ DOMAIN q = 1 .. N - 1 /\ DOMAIN m = DOMAIN q \cup {N} /\ N \notin DOMAIN q
  BY DEF Grows
<1>2. m[N] = n /\ \A o \in DOMAIN q : m[o] = q[o]
  BY DEF Grows
<1>3. (\A o \in DOMAIN q : TakenBack(m, o) = TakenBack(q, o)) /\ TakenBack(m, N) = {}
  <2>1. n.undoOf \in 0 .. N - 1
    BY <1>1 DEF Grows
  <2>2. /\ \A o \in DOMAIN q : TakenBack(m, o) = TakenBack(q, o) \cup IF n.undoOf = o THEN {N} ELSE {}
        /\ TakenBack(m, N) = {}
    BY <2>1, TakenBackThen
  <2>3. \A o \in DOMAIN q : n.undoOf # o
    BY <1>1
  <2> QED
    BY ONLY <2>2, <2>3
<1>4. \A o \in DOMAIN q : Stays(m, o) <=> Stays(q, o)
  <2>1. \A o \in DOMAIN q : TakenBack(q, o) \subseteq DOMAIN q
    BY DEF TakenBack
  <2> QED
    BY <1>3, <2>1 DEF Stays
<1>5. Stays(m, N)
  BY <1>3 DEF Stays
<1> QED
  BY <1>1, <1>2, <1>3, <1>4, <1>5 DEF Stand

LEMMA StandUndo ==
    ASSUME NEW q, NEW m, NEW n, NEW N, Grows(q, m, n, N), NEW o \in DOMAIN q, n.undoOf = o,
           q[o].undoOf = 0, TakenBack(q, o) = {},
           \A v \in DOMAIN q : q[v].undoOf \in 0 .. v - 1, NEW r
    PROVE  /\ Stand(m, r) = Stand(q, r) \ {o}
           /\ r \in DOMAIN q[o].changes => o \in Stand(q, r)
           /\ r \notin DOMAIN q[o].changes => o \notin Stand(q, r)
           /\ \A v \in DOMAIN q \ {o} : TakenBack(m, v) = TakenBack(q, v)
<1>1. N \in Nat /\ DOMAIN q = 1 .. N - 1 /\ DOMAIN m = DOMAIN q \cup {N} /\ N \notin DOMAIN q
  BY DEF Grows
<1>2. m[N] = n /\ \A v \in DOMAIN q : m[v] = q[v]
  BY DEF Grows
<1>3. /\ \A v \in DOMAIN q : TakenBack(m, v) = TakenBack(q, v) \cup IF n.undoOf = v THEN {N} ELSE {}
      /\ TakenBack(m, N) = {}
  <2>1. n.undoOf \in 0 .. N - 1
    BY <1>1
  <2> QED
    BY <2>1, TakenBackThen
<1>4. \A v \in DOMAIN q \ {o} : TakenBack(m, v) = TakenBack(q, v)
  BY <1>3
<1>5. \A v \in DOMAIN q \ {o} : q[v].undoOf = 0 => (Stays(m, v) <=> Stays(q, v))
  <2> SUFFICES ASSUME NEW v \in DOMAIN q, v # o, q[v].undoOf = 0 PROVE Stays(m, v) <=> Stays(q, v)
    OBVIOUS
  <2>1. \A u \in TakenBack(q, v) : u \in DOMAIN q /\ u # o
    BY <1>1 DEF TakenBack
  <2> QED
    BY <1>4, <2>1 DEF Stays
<1>6. ~ Stays(m, o)
  BY <1>3 DEF Stays
<1>7. Stays(q, o)
  BY DEF Stays
<1>8. n.undoOf # 0
  BY <1>1
<1>9. ASSUME NEW v PROVE v \in Stand(m, r) <=> v \in Stand(q, r) \ {o}
  BY <1>1, <1>2, <1>5, <1>6, <1>8 DEF Stand
<1> QED
  BY <1>4, <1>7, <1>9 DEF Stand

LEMMA StandRedo ==
    ASSUME NEW q, NEW m, NEW n, NEW N, Grows(q, m, n, N), NEW u \in DOMAIN q, n.undoOf = u,
           NEW o \in DOMAIN q, q[u].undoOf = o, q[o].undoOf = 0, TakenBack(q, u) = {},
           \A v \in DOMAIN q : q[v].undoOf \in 0 .. v - 1,
           \A v, w \in DOMAIN q : q[v].undoOf = q[w].undoOf /\ q[v].undoOf # 0 => v = w, NEW r
    PROVE  /\ Stand(m, r) = Stand(q, r) \cup IF r \in DOMAIN q[o].changes THEN {o} ELSE {}
           /\ TakenBack(m, o) # {}
<1>1. N \in Nat /\ DOMAIN q = 1 .. N - 1 /\ DOMAIN m = DOMAIN q \cup {N} /\ N \notin DOMAIN q
  BY DEF Grows
<1>2. m[N] = n /\ \A v \in DOMAIN q : m[v] = q[v]
  BY DEF Grows
<1>3. /\ \A v \in DOMAIN q : TakenBack(m, v) = TakenBack(q, v) \cup IF n.undoOf = v THEN {N} ELSE {}
      /\ TakenBack(m, N) = {}
  <2>1. n.undoOf \in 0 .. N - 1
    BY <1>1
  <2> QED
    BY <2>1, TakenBackThen
<1>4. \A v \in DOMAIN q \ {u} : TakenBack(m, v) = TakenBack(q, v)
  BY ONLY <1>3, n.undoOf = u
<1>5. o # 0 /\ u # 0 /\ o # u
  BY <1>1
<1>6. \A v \in DOMAIN q \ {o} : q[v].undoOf = 0 => (Stays(m, v) <=> Stays(q, v))
  <2> SUFFICES ASSUME NEW v \in DOMAIN q, v # o, q[v].undoOf = 0 PROVE Stays(m, v) <=> Stays(q, v)
    OBVIOUS
  <2>1. v # u
    BY <1>5
  <2>2. \A w \in TakenBack(q, v) : w \in DOMAIN q /\ w # u
    BY DEF TakenBack
  <2> QED
    BY <1>4, <2>1, <2>2 DEF Stays
<1>7. TakenBack(q, o) = {u} /\ TakenBack(m, o) = {u}
  BY <1>4, <1>5 DEF TakenBack
<1>8. Stays(m, o)
  BY <1>3, <1>7 DEF Stays
<1>9. ASSUME NEW v
      PROVE  v \in Stand(m, r) <=> v \in Stand(q, r) \cup IF r \in DOMAIN q[o].changes THEN {o} ELSE {}
  BY <1>1, <1>2, <1>5, <1>6, <1>8 DEF Stand
<1> QED
  BY <1>7, <1>9

-----------------------------------------------------------------------------
(* A row that a transaction changes                                        *)

\* What takes back a change.
Back(g) ==
    [kind |-> "undo", before |-> g.after,
     after |-> [c \in DOMAIN g.before |-> IF c = "version" THEN g.after.version + 1 ELSE g.before[c]]]

LEMMA ReverseIs ==
    ASSUME NEW ch
    PROVE  DOMAIN Reverse(ch) = DOMAIN ch /\ \A r \in DOMAIN ch : Reverse(ch)[r] = Back(ch[r])
BY DEF Reverse, Back

LEMMA BackIs ==
    ASSUME NEW g
    PROVE  /\ IsChange(Back(g)) /\ Back(g).before = g.after /\ DOMAIN Back(g).after = DOMAIN g.before
           /\ "version" \in DOMAIN g.before => Back(g).after.version = g.after.version + 1
           /\ \A c \in DOMAIN g.before : c # "version" => Back(g).after[c] = g.before[c]
BY DEF Back, IsChange

LEMMA OverlayAt ==
    ASSUME NEW image, NEW old
    PROVE  /\ DOMAIN Overlay(image, old) = DOMAIN image \cup DOMAIN old
           /\ \A c \in DOMAIN image : Overlay(image, old)[c] = image[c]
           /\ \A c \in DOMAIN old \ DOMAIN image : Overlay(image, old)[c] = old[c]
BY DEF Overlay

LEMMA KindsAre ==
    ASSUME NEW r \in Rows
    PROVE  /\ KindOf[r] \in DOMAIN Columns
           /\ Versioned(r) \/ KindOf[r] \in Brief \/ KindOf[r] \in Dated
           /\ KindOf[r] \in Brief \cup Dated => ~ Versioned(r) /\ "version" \notin Columns[KindOf[r]]
           /\ KindOf[r] \in Brief => KindOf[r] \notin Dated
           /\ KindOf[r] \in {"claim", "relation", "topic"} => Versioned(r)
           /\ KindOf[r] \in Dated => Columns[KindOf[r]] = {"state", "stale_at", "stale_reason"}
           /\ "state" \in Columns[KindOf[r]]
           /\ Off(r) # "active"
<1>1. KindOf[r] \in DOMAIN Columns
  BY MutationAssumption
<1> QED
  BY <1>1 DEF Columns, Versioned, Brief, Dated, Off

\* What every change that is recorded is, also one that takes back another.
Sound(r, g, k) ==
    /\ DOMAIN g.after = DOMAIN g.before /\ DOMAIN g.before \subseteq Columns[KindOf[r]]
    /\ \A c \in Times \cap DOMAIN g.after : g.after[c] \in 0 .. k
    /\ Versioned(r) => /\ "version" \in DOMAIN g.before
                       /\ g.before.version \in Nat /\ g.after.version = g.before.version + 1
    /\ KindOf[r] \in Brief =>
         /\ DOMAIN g.before = Columns[KindOf[r]] /\ g.after.state \in {"active", Off(r)}
         /\ KindOf[r] = "chunk" => g.after.state = "active" \/ g.after.deleted_at # 0

LEMMA SoundOwn ==
    ASSUME NEW r \in Rows, NEW g, NEW k \in Nat, NEW t \in 1 .. k, DoneAt(r, g, t)
    PROVE  Sound(r, g, k)
<1>1. \A c \in Times \cap DOMAIN g.before : g.after[c] = t
  BY DEF DoneAt, ImageAt
<1>2. KindOf[r] = "chunk" => "deleted_at" \in Times \cap Columns[KindOf[r]]
  BY DEF Columns, Times
<1>3. KindOf[r] = "chunk" => KindOf[r] \in Brief
  BY DEF Brief
<1> QED
  BY <1>1, <1>2, <1>3 DEF DoneAt, ImageAt, Sound

LEMMA SoundBack ==
    ASSUME NEW r \in Rows, NEW g, NEW k \in Nat, NEW t \in 1 .. k, DoneAt(r, g, t)
    PROVE  Sound(r, Back(g), k)
<1>1. /\ Back(g).before = g.after /\ DOMAIN Back(g).after = DOMAIN g.before
      /\ "version" \in DOMAIN g.before => Back(g).after.version = g.after.version + 1
      /\ \A c \in DOMAIN g.before : c # "version" => Back(g).after[c] = g.before[c]
  BY BackIs
<1>2. \A c \in Times \cap DOMAIN g.before : g.before[c] \in 0 .. k
  BY DEF DoneAt, ImageAt
<1>3. \A c \in Times : c # "version" /\ c # "state"
  BY DEF Times
<1>4. "state" \in Columns[KindOf[r]]
  BY KindsAre
<1>5. Versioned(r) => "version" \in DOMAIN g.before /\ g.after.version \in Nat
  BY DEF DoneAt, ImageAt
<1>6. KindOf[r] \in Brief => DOMAIN g.before = Columns[KindOf[r]] /\ g.before.state = "active"
  BY DEF DoneAt, ImageAt
<1>7. DOMAIN g.after = DOMAIN g.before /\ DOMAIN g.before \subseteq Columns[KindOf[r]]
  BY DEF DoneAt, ImageAt
<1> QED
  BY ONLY <1>1, <1>2, <1>3, <1>4, <1>5, <1>6, <1>7 DEF Sound

LEMMA SoundAgain ==
    ASSUME NEW r \in Rows, NEW g, NEW k \in Nat, NEW t \in 1 .. k, DoneAt(r, g, t)
    PROVE  Sound(r, Back(Back(g)), k)
<1> DEFINE h == Back(g)
           z == Back(h)
<1>1. /\ h.before = g.after /\ DOMAIN h.after = DOMAIN g.before
      /\ "version" \in DOMAIN g.before => h.after.version = g.after.version + 1
  BY BackIs
<1>2. /\ z.before = h.after /\ DOMAIN z.after = DOMAIN h.before
      /\ "version" \in DOMAIN h.before => z.after.version = h.after.version + 1
      /\ \A c \in DOMAIN h.before : c # "version" => z.after[c] = h.before[c]
  BY BackIs
<1>3. Sound(r, g, k)
  BY SoundOwn
<1>4. \A c \in Times : c # "version"
  BY DEF Times
<1>5. KindOf[r] \in Brief => "state" \in Columns[KindOf[r]]
  BY KindsAre
<1>6. KindOf[r] = "chunk" => "deleted_at" \in Columns[KindOf[r]]
  BY DEF Columns
<1> HIDE DEF h, z
<1>7. Sound(r, z, k)
  BY ONLY <1>1, <1>2, <1>3, <1>4, <1>5, <1>6 DEF Sound
<1> QED
  BY <1>7 DEF z, h

LEMMA RowApplied ==
    ASSUME NEW r \in Rows, NEW x, NEW k \in Nat, RowIs(r, x, k), NEW g, Sound(r, g, k),
           Fits(g.before, x), NEW y, y = Overlay(g.after, x)
    PROVE  /\ RowIs(r, y, k + 1)
           /\ Versioned(r) => /\ y.version = x.version + 1
                              /\ "version" \in DOMAIN g.after /\ g.after.version = y.version
<1>1. /\ DOMAIN y = Columns[KindOf[r]]
      /\ \A c \in DOMAIN g.after : y[c] = g.after[c]
      /\ \A c \in Columns[KindOf[r]] \ DOMAIN g.after : y[c] = x[c]
  <2>1. DOMAIN x = Columns[KindOf[r]] /\ DOMAIN g.after \subseteq Columns[KindOf[r]]
    BY DEF RowIs, Sound
  <2> QED
    BY ONLY <2>1, y = Overlay(g.after, x) DEF Overlay
<1>2. Versioned(r) => /\ y.version = x.version + 1 /\ x.version \in Nat
                      /\ "version" \in DOMAIN g.after /\ g.after.version = y.version
  BY <1>1 DEF Sound, Fits, RowIs
<1>3. \A c \in Times \cap Columns[KindOf[r]] : y[c] \in 0 .. k
  <2> SUFFICES ASSUME NEW c \in Times, c \in Columns[KindOf[r]] PROVE y[c] \in 0 .. k
    OBVIOUS
  <2>1. x[c] \in 0 .. k - 1
    BY DEF RowIs
  <2> QED
    BY <1>1, <2>1 DEF Sound
<1>4. KindOf[r] \in Brief => y.state \in {"active", Off(r)}
  BY <1>1, KindsAre DEF Sound
<1>5. KindOf[r] = "chunk" => y.state = "active" \/ y.deleted_at # 0
  <2> SUFFICES ASSUME KindOf[r] = "chunk" PROVE y.state = "active" \/ y.deleted_at # 0
    OBVIOUS
  <2>1. KindOf[r] \in Brief /\ "state" \in Columns[KindOf[r]] /\ "deleted_at" \in Columns[KindOf[r]]
    BY DEF Brief, Columns
  <2> QED
    BY <1>1, <2>1 DEF Sound
<1>6. \A c \in Times \cap Columns[KindOf[r]] : y[c] \in 0 .. k + 1 - 1
  BY <1>3
<1> QED
  BY <1>1, <1>2, <1>4, <1>5, <1>6 DEF RowIs

LEMMA PastGrows ==
    ASSUME NEW q, NEW m, NEW n, NEW N, Grows(q, m, n, N), NEW r \in Rows, NEW x, NEW y, Past(q, r, x),
           Versioned(r) => x.version \in Nat /\ y.version \in Nat /\ x.version <= y.version,
           Versioned(r) /\ r \in DOMAIN n.changes =>
             /\ "version" \in DOMAIN n.changes[r].after
             /\ n.changes[r].after.version \in Nat /\ n.changes[r].after.version <= y.version
    PROVE  Past(m, r, y)
<1> SUFFICES ASSUME Versioned(r), NEW o \in DOMAIN m, r \in DOMAIN m[o].changes
             PROVE  /\ "version" \in DOMAIN m[o].changes[r].after
                    /\ m[o].changes[r].after.version \in Nat /\ m[o].changes[r].after.version <= y.version
  BY DEF Past
<1>1. CASE o = N
  BY <1>1 DEF Grows
<1>2. CASE o # N
  <2>1. o \in DOMAIN q /\ m[o] = q[o]
    BY <1>2 DEF Grows
  <2>2. /\ "version" \in DOMAIN q[o].changes[r].after
        /\ q[o].changes[r].after.version \in Nat /\ q[o].changes[r].after.version <= x.version
    BY <2>1 DEF Past
  <2> QED
    BY <2>1, <2>2
<1> QED
  BY <1>1, <1>2

-----------------------------------------------------------------------------
(* The dates of the operations that stand                                  *)

LEMMA DatesAre ==
    ASSUME NEW q, NEW k, OpsInv(q, k), NEW r \in Rows, KindOf[r] \in Dated,
           NEW o \in DOMAIN q, q[o].undoOf = 0, r \in DOMAIN q[o].changes
    PROVE  /\ Date(q, o, r) \in 1 .. k - 1 /\ Was(q, o, r).stale_at \in Nat
           /\ Was(q, o, r).stale_at < Date(q, o, r)
           /\ DOMAIN Was(q, o, r) = Columns[KindOf[r]] /\ DOMAIN Became(q, o, r) = Columns[KindOf[r]]
           /\ Became(q, o, r).state = "stale"
           /\ \A u \in DOMAIN q : q[u].undoOf = 0 /\ r \in DOMAIN q[u].changes /\ Date(q, u, r) = Date(q, o, r)
                => u = o
<1>1. OwnOp(q, o, k) /\ k \in Nat /\ o \in Nat
  BY OpsAre
<1>2. PICK t \in 1 .. k - 1 : DoneAt(r, q[o].changes[r], t)
  BY <1>1 DEF OwnOp
<1>3. "stale_at" \in Times /\ "stale_at" \in Columns[KindOf[r]] /\ Off(r) = "stale"
  BY DEF Times, Columns, Dated, Off
<1> DEFINE g == q[o].changes[r]
<1>4. /\ DOMAIN g.before = Columns[KindOf[r]] /\ DOMAIN g.after = Columns[KindOf[r]]
      /\ g.after.state = "stale" /\ g.after.stale_at = t /\ g.before.stale_at \in Nat /\ g.before.stale_at < t
  BY <1>2, <1>3 DEF DoneAt, ImageAt
<1>5. ASSUME NEW u \in DOMAIN q, q[u].undoOf = 0, r \in DOMAIN q[u].changes, Date(q, u, r) = Date(q, o, r)
      PROVE  u = o
  <2>1. u \in Nat /\ OwnOp(q, u, k)
    BY <1>5, OpsAre
  <2>2. PICK tt \in 1 .. k - 1 : DoneAt(r, q[u].changes[r], tt)
    BY <1>5, <2>1 DEF OwnOp
  <2>3. q[u].changes[r].after.stale_at = tt
    BY <1>3, <2>2 DEF DoneAt, ImageAt
  <2>4. o < u => Became(q, o, r).stale_at < Became(q, u, r).stale_at
    BY <1>5 DEF OpsInv
  <2>5. u < o => Became(q, u, r).stale_at < Became(q, o, r).stale_at
    BY <1>5 DEF OpsInv
  <2> QED
    BY <1>1, <1>4, <1>5, <2>1, <2>3, <2>4, <2>5 DEF Date, Became
<1> QED
  BY <1>1, <1>4, <1>5 DEF Date, Was, Became

LEMMA StackPush ==
    ASSUME NEW q, NEW m, NEW r, NEW x, NEW y, NEW b, NEW o,
           Stacked(q, r, x, b), Stand(q, r) = {} => Agree(r, x, b),
           Stand(m, r) = Stand(q, r) \cup {o}, o \notin Stand(q, r),
           \A u \in Stand(q, r) : Was(m, u, r) = Was(q, u, r) /\ Became(m, u, r) = Became(q, u, r),
           \A u \in Stand(m, r) : Date(m, u, r) \in Nat,
           \A u \in Stand(q, r) : Date(m, u, r) < Date(m, o, r),
           Agree(r, x, Was(m, o, r)), Agree(r, y, Became(m, o, r))
    PROVE  Stacked(m, r, y, b)
<1>0. \A u \in Stand(q, r) : Date(m, u, r) = Date(q, u, r)
  BY DEF Date
<1>1. \A u \in Stand(m, r) : Date(m, u, r) <= Date(m, o, r)
  OBVIOUS
<1>2. ASSUME NEW v \in Stand(m, r)
      PROVE  \/ Agree(r, Was(m, v, r), b) /\ \A u \in Stand(m, r) : Date(m, v, r) <= Date(m, u, r)
             \/ \E d \in Stand(m, r) :
                  /\ Date(m, d, r) < Date(m, v, r) /\ Agree(r, Was(m, v, r), Became(m, d, r))
                  /\ \A u \in Stand(m, r) : Date(m, u, r) < Date(m, v, r) => Date(m, u, r) <= Date(m, d, r)
  <2>1. CASE v = o /\ Stand(q, r) = {}
    <3>1. Agree(r, Was(m, v, r), b)
      BY <2>1 DEF Agree
    <3>2. Stand(m, r) = {v}
      BY <2>1
    <3> QED
      BY <3>1, <3>2
  <2>2. CASE v = o /\ Stand(q, r) # {}
    <3>1. PICK d \in Stand(q, r) :
            Agree(r, x, Became(q, d, r)) /\ \A u \in Stand(q, r) : Date(q, u, r) <= Date(q, d, r)
      BY <2>2 DEF Stacked
    <3>2. Agree(r, Was(m, v, r), Became(m, d, r))
      BY <2>2, <3>1 DEF Agree
    <3>3. \A u \in Stand(m, r) : Date(m, u, r) < Date(m, v, r) => Date(m, u, r) <= Date(m, d, r)
      BY <1>0, <2>2, <3>1
    <3> QED
      BY <2>2, <3>2, <3>3
  <2>3. CASE v # o
    <3>0. v \in Stand(q, r)
      BY <2>3
    <3>1. CASE Agree(r, Was(q, v, r), b) /\ \A u \in Stand(q, r) : Date(q, v, r) <= Date(q, u, r)
      <4>1. Agree(r, Was(m, v, r), b)
        BY <3>0, <3>1
      <4>2. \A u \in Stand(q, r) : Date(m, v, r) <= Date(m, u, r)
        BY <1>0, <3>0, <3>1
      <4>3. Date(m, v, r) <= Date(m, o, r)
        BY <1>1
      <4> QED
        BY <4>1, <4>2, <4>3
    <3>2. CASE \E d \in Stand(q, r) :
              /\ Date(q, d, r) < Date(q, v, r) /\ Agree(r, Was(q, v, r), Became(q, d, r))
              /\ \A u \in Stand(q, r) : Date(q, u, r) < Date(q, v, r) => Date(q, u, r) <= Date(q, d, r)
      <4>1. PICK d \in Stand(q, r) :
              /\ Date(q, d, r) < Date(q, v, r) /\ Agree(r, Was(q, v, r), Became(q, d, r))
              /\ \A u \in Stand(q, r) : Date(q, u, r) < Date(q, v, r) => Date(q, u, r) <= Date(q, d, r)
        BY <3>2
      <4>2. Date(m, d, r) < Date(m, v, r) /\ Agree(r, Was(m, v, r), Became(m, d, r))
        BY <1>0, <3>0, <4>1
      <4>3. \A u \in Stand(q, r) : Date(m, u, r) < Date(m, v, r) => Date(m, u, r) <= Date(m, d, r)
        BY <1>0, <3>0, <4>1
      <4>4. ~ (Date(m, o, r) < Date(m, v, r))
        BY <3>0
      <4> QED
        BY <4>2, <4>3, <4>4
    <3> QED
      BY <3>0, <3>1, <3>2 DEF Stacked
  <2> QED
    BY <2>1, <2>2, <2>3
<1>3. \E v \in Stand(m, r) : Agree(r, y, Became(m, v, r)) /\ \A u \in Stand(m, r) : Date(m, u, r) <= Date(m, v, r)
  BY <1>1
<1> QED
  BY ONLY <1>2, <1>3 DEF Stacked

LEMMA StackPop ==
    ASSUME NEW q, NEW m, NEW r, NEW x, NEW y, NEW b, NEW o,
           Stacked(q, r, x, b), "stale_at" \in Columns[KindOf[r]],
           o \in Stand(q, r), Stand(m, r) = Stand(q, r) \ {o},
           \A u \in Stand(q, r) : Was(m, u, r) = Was(q, u, r) /\ Became(m, u, r) = Became(q, u, r),
           \A u \in Stand(q, r) : Date(q, u, r) \in Nat,
           \A u, v \in Stand(q, r) : Date(q, u, r) = Date(q, v, r) => u = v,
           x.stale_at = Date(q, o, r), Agree(r, y, Was(q, o, r))
    PROVE  /\ Stacked(m, r, y, b)
           /\ Stand(m, r) = {} => Agree(r, y, b)
<1>0. \A u \in Stand(q, r) : Date(m, u, r) = Date(q, u, r)
  BY DEF Date
<1>1. \A u \in Stand(q, r) : Date(q, u, r) <= Date(q, o, r)
  <2>1. PICK v \in Stand(q, r) :
          Agree(r, x, Became(q, v, r)) /\ \A u \in Stand(q, r) : Date(q, u, r) <= Date(q, v, r)
    BY DEF Stacked
  <2>2. Date(q, v, r) = Date(q, o, r)
    BY <2>1 DEF Agree, Date
  <2> QED
    BY <2>1, <2>2
<1>2. \A u \in Stand(m, r) : u \in Stand(q, r) /\ Date(q, u, r) < Date(q, o, r)
  BY <1>1
<1>3. ASSUME NEW v \in Stand(m, r)
      PROVE  \/ Agree(r, Was(m, v, r), b) /\ \A u \in Stand(m, r) : Date(m, v, r) <= Date(m, u, r)
             \/ \E d \in Stand(m, r) :
                  /\ Date(m, d, r) < Date(m, v, r) /\ Agree(r, Was(m, v, r), Became(m, d, r))
                  /\ \A u \in Stand(m, r) : Date(m, u, r) < Date(m, v, r) => Date(m, u, r) <= Date(m, d, r)
  <2>0. v \in Stand(q, r)
    BY <1>2
  <2>1. CASE Agree(r, Was(q, v, r), b) /\ \A u \in Stand(q, r) : Date(q, v, r) <= Date(q, u, r)
    <3>1. \A u \in Stand(m, r) : Date(m, v, r) <= Date(m, u, r)
      BY <1>0, <1>2, <2>0, <2>1
    <3> QED
      BY <2>0, <2>1, <3>1
  <2>2. CASE \E d \in Stand(q, r) :
              /\ Date(q, d, r) < Date(q, v, r) /\ Agree(r, Was(q, v, r), Became(q, d, r))
              /\ \A u \in Stand(q, r) : Date(q, u, r) < Date(q, v, r) => Date(q, u, r) <= Date(q, d, r)
    <3>1. PICK d \in Stand(q, r) :
              /\ Date(q, d, r) < Date(q, v, r) /\ Agree(r, Was(q, v, r), Became(q, d, r))
              /\ \A u \in Stand(q, r) : Date(q, u, r) < Date(q, v, r) => Date(q, u, r) <= Date(q, d, r)
      BY <2>2
    <3>2. d # o
      BY <1>1, <2>0, <3>1
    <3>3. d \in Stand(m, r) /\ Date(m, d, r) < Date(m, v, r) /\ Agree(r, Was(m, v, r), Became(m, d, r))
      BY <1>0, <2>0, <3>1, <3>2
    <3>4. \A u \in Stand(m, r) : Date(m, u, r) < Date(m, v, r) => Date(m, u, r) <= Date(m, d, r)
      BY <1>0, <1>2, <2>0, <3>1
    <3> QED
      BY <3>3, <3>4
  <2> QED
    BY <2>0, <2>1, <2>2 DEF Stacked
<1>4. \/ Agree(r, Was(q, o, r), b) /\ \A u \in Stand(q, r) : Date(q, o, r) <= Date(q, u, r)
      \/ \E d \in Stand(q, r) :
           /\ Date(q, d, r) < Date(q, o, r) /\ Agree(r, Was(q, o, r), Became(q, d, r))
           /\ \A u \in Stand(q, r) : Date(q, u, r) < Date(q, o, r) => Date(q, u, r) <= Date(q, d, r)
  BY DEF Stacked
<1>5. CASE Agree(r, Was(q, o, r), b) /\ \A u \in Stand(q, r) : Date(q, o, r) <= Date(q, u, r)
  <2>1. Stand(m, r) = {}
    BY <1>2, <1>5
  <2>2. Agree(r, y, b)
    BY <1>5 DEF Agree
  <2> QED
    BY <2>1, <2>2 DEF Stacked
<1>6. CASE \E d \in Stand(q, r) :
           /\ Date(q, d, r) < Date(q, o, r) /\ Agree(r, Was(q, o, r), Became(q, d, r))
           /\ \A u \in Stand(q, r) : Date(q, u, r) < Date(q, o, r) => Date(q, u, r) <= Date(q, d, r)
  <2>1. PICK d \in Stand(q, r) :
           /\ Date(q, d, r) < Date(q, o, r) /\ Agree(r, Was(q, o, r), Became(q, d, r))
           /\ \A u \in Stand(q, r) : Date(q, u, r) < Date(q, o, r) => Date(q, u, r) <= Date(q, d, r)
    BY <1>6
  <2>2. d \in Stand(m, r) /\ Stand(m, r) # {}
    BY <2>1
  <2>3. Agree(r, y, Became(m, d, r))
    BY <2>1 DEF Agree
  <2>4. \A u \in Stand(m, r) : Date(m, u, r) <= Date(m, d, r)
    BY <1>0, <1>2, <2>1
  <2> QED
    BY ONLY <1>3, <2>2, <2>3, <2>4 DEF Stacked
<1> QED
  BY <1>4, <1>5, <1>6

-----------------------------------------------------------------------------
(* The transaction and what a row has been through                         *)

LEMMA StandsAre ==
    ASSUME NEW q, NEW k, OpsInv(q, k), NEW r, NEW o \in Stand(q, r)
    PROVE  /\ o \in DOMAIN q /\ q[o].undoOf = 0 /\ r \in DOMAIN q[o].changes /\ r \in Rows
           /\ \E t \in 1 .. k - 1 : DoneAt(r, q[o].changes[r], t)
<1>1. o \in DOMAIN q /\ q[o].undoOf = 0 /\ r \in DOMAIN q[o].changes
  BY DEF Stand
<1>2. OwnOp(q, o, k)
  BY <1>1, OpsAre
<1> QED
  BY <1>1, <1>2 DEF OwnOp

\* A row that the transaction leaves alone.
LEMMA TraceLeft ==
    ASSUME NEW q, NEW k, OpsInv(q, k), NEW m, NEW n, NEW N, Grows(q, m, n, N), NEW r \in Rows,
           NEW x, NEW b, Stand(m, r) = Stand(q, r), Trace(q, r, x, b)
    PROVE  Trace(m, r, x, b)
<1>1. \A o \in Stand(q, r) : o \in DOMAIN q
  BY DEF Stand
<1>2. \A o \in Stand(q, r) : Was(m, o, r) = Was(q, o, r) /\ Became(m, o, r) = Became(q, o, r)
                             /\ Date(m, o, r) = Date(q, o, r)
  BY <1>1 DEF Grows, Was, Became, Date
<1>3. \A o \in Stand(q, r) : TakenBack(m, o) = {} => TakenBack(q, o) = {}
  BY DEF TakenBack, Grows
<1>4. Returns(q, r, x, b) => Returns(m, r, x, b)
  BY <1>2, <1>3 DEF Returns
<1>5. Fades(q, r, x) => Fades(m, r, x)
  BY <1>2 DEF Fades
<1>6. Switched(q, r, x, b) => Switched(m, r, x, b)
  BY <1>2 DEF Switched
<1>7. Stacked(q, r, x, b) => Stacked(m, r, x, b)
  BY <1>2 DEF Stacked
<1> QED
  BY <1>4, <1>5, <1>6, <1>7 DEF Trace

\* No operation up to now can be taken back from, or has made, a newer version.
LEMMA NewVersion ==
    ASSUME NEW q, NEW k, OpsInv(q, k), NEW m, NEW n, NEW N, Grows(q, m, n, N), NEW r \in Rows,
           Versioned(r), NEW x, NEW y, Past(q, r, x), x.version \in Nat, y.version = x.version + 1
    PROVE  \A o \in DOMAIN q : r \in DOMAIN q[o].changes =>
             ~ Fits(Became(m, o, r), y) /\ Became(m, o, r).version # y.version
<1> SUFFICES ASSUME NEW o \in DOMAIN q, r \in DOMAIN q[o].changes
             PROVE  ~ Fits(Became(m, o, r), y) /\ Became(m, o, r).version # y.version
  OBVIOUS
<1>1. Became(m, o, r) = q[o].changes[r].after
  BY DEF Grows, Became
<1>2. /\ "version" \in DOMAIN q[o].changes[r].after
      /\ q[o].changes[r].after.version \in Nat /\ q[o].changes[r].after.version <= x.version
  BY DEF Past
<1> QED
  BY <1>1, <1>2 DEF Fits

LEMMA TraceOwn ==
    ASSUME NEW q, NEW k, OpsInv(q, k), NEW m, NEW n, NEW N, Grows(q, m, n, N), n.undoOf = 0,
           NEW r \in Rows, r \in DOMAIN n.changes, DoneAt(r, n.changes[r], k),
           NEW x, RowIs(r, x, k), Fits(n.changes[r].before, x), Past(q, r, x),
           NEW b, Trace(q, r, x, b), NEW y, y = Overlay(n.changes[r].after, x)
    PROVE  Trace(m, r, y, b)
<1> DEFINE g == n.changes[r]
           C == Columns[KindOf[r]]
<1>1. /\ k \in Nat \ {0} /\ \A v \in DOMAIN q : q[v].undoOf \in 0 .. v - 1
  BY OpsAre DEF OpsInv
<1>2. /\ N \in Nat \ {0} /\ DOMAIN q = 1 .. N - 1 /\ N \notin DOMAIN q
      /\ m[N] = n /\ \A v \in DOMAIN q : m[v] = q[v]
  BY DEF Grows
<1>3. Stand(m, r) = Stand(q, r) \cup {N} /\ \A v \in DOMAIN q : TakenBack(m, v) = TakenBack(q, v)
  BY <1>1, StandOwn
<1>4. \A v \in Stand(q, r) : v \in DOMAIN q /\ v # N /\ r \in DOMAIN q[v].changes
  BY <1>2 DEF Stand
<1>5. Was(m, N, r) = g.before /\ Became(m, N, r) = g.after
  BY <1>2 DEF Was, Became
<1>6. \A v \in Stand(q, r) : Was(m, v, r) = Was(q, v, r) /\ Became(m, v, r) = Became(q, v, r)
  BY <1>2, <1>4 DEF Was, Became
<1>7. /\ DOMAIN x = C /\ DOMAIN g.after = DOMAIN g.before /\ DOMAIN g.before \subseteq C
      /\ \A c \in DOMAIN g.before : x[c] = g.before[c]
  BY DEF RowIs, DoneAt, ImageAt, Fits
<1>8. /\ DOMAIN y = C
      /\ \A c \in DOMAIN g.before : y[c] = g.after[c]
      /\ \A c \in C \ DOMAIN g.before : y[c] = x[c]
  BY ONLY <1>7, y = Overlay(n.changes[r].after, x) DEF Overlay
<1>9. Sound(r, g, k)
  BY <1>1, SoundOwn
<1>10. Versioned(r) => y.version = x.version + 1 /\ x.version \in Nat
  BY <1>1, <1>9, RowApplied DEF RowIs
<1>11. Versioned(r) => \A v \in Stand(q, r) : ~ Fits(Became(m, v, r), y) /\ Became(m, v, r).version # y.version
  BY <1>4, <1>10, NewVersion
<1>12. Versioned(r) => Returns(m, r, y, b)
  <2> SUFFICES ASSUME Versioned(r), NEW o \in Stand(m, r), Stand(m, r) = {o}, Fits(Became(m, o, r), y)
               PROVE  Agree(r, Overlay(Was(m, o, r), y), b)
    BY DEF Returns
  <2>1. o = N /\ Stand(q, r) = {}
    BY <1>3, <1>4
  <2>2. Agree(r, x, b)
    BY <2>1 DEF Trace
  <2>3. /\ \A c \in DOMAIN g.before : Overlay(g.before, y)[c] = g.before[c]
        /\ \A c \in C \ DOMAIN g.before : Overlay(g.before, y)[c] = y[c]
    BY ONLY <1>8 DEF Overlay
  <2>4. \A c \in C : Overlay(g.before, y)[c] = x[c]
    BY <1>7, <1>8, <2>3
  <2> QED
    BY <1>5, <2>1, <2>2, <2>4 DEF Agree
<1>13. KindOf[r] \in {"claim", "relation"} => Fades(m, r, y)
  <2> SUFFICES ASSUME KindOf[r] \in {"claim", "relation"}, NEW o \in Stand(m, r),
                      Became(m, o, r).version = y.version, Became(m, o, r).state = "stale"
               PROVE  y.state = "stale"
    BY DEF Fades
  <2>1. Versioned(r)
    BY KindsAre
  <2>2. o = N
    BY <1>3, <1>11, <2>1
  <2>3. "state" \in DOMAIN g.before
    BY DEF DoneAt, ImageAt
  <2> QED
    BY <1>5, <1>8, <2>2, <2>3
<1>14. KindOf[r] \in Brief => Switched(m, r, y, b)
  <2> SUFFICES ASSUME KindOf[r] \in Brief PROVE Switched(m, r, y, b)
    OBVIOUS
  <2>1. /\ DOMAIN g.before = C /\ g.before.state = "active" /\ g.after.state = Off(r)
    BY DEF DoneAt, ImageAt
  <2>2. "state" \in C /\ Off(r) # "active"
    BY KindsAre
  <2>3. x.state = "active" /\ y.state # "active"
    BY <1>7, <1>8, <2>1, <2>2
  <2>4. Stand(q, r) = {}
    BY <2>3 DEF Trace, Switched
  <2>5. Agree(r, Was(m, N, r), b)
    BY <1>5, <1>7, <2>1, <2>4 DEF Trace, Agree
  <2> QED
    BY <1>3, <2>3, <2>4, <2>5 DEF Switched
<1>15. KindOf[r] \in Dated => Stacked(m, r, y, b)
  <2> SUFFICES ASSUME KindOf[r] \in Dated PROVE Stacked(m, r, y, b)
    OBVIOUS
  <2>1. C = {"state", "stale_at", "stale_reason"} /\ "stale_at" \in Times
    BY KindsAre DEF Times
  <2>2. DOMAIN g.before = C /\ g.after.stale_at = k
    BY <2>1 DEF DoneAt, ImageAt
  <2>3. Date(m, N, r) = k
    BY <1>5, <2>2 DEF Date
  <2>4. \A v \in Stand(q, r) : Date(m, v, r) \in 1 .. k - 1
    <3> SUFFICES ASSUME NEW v \in Stand(q, r) PROVE Date(m, v, r) \in 1 .. k - 1
      OBVIOUS
    <3>1. Date(q, v, r) \in 1 .. k - 1
      BY DatesAre DEF Stand
    <3> QED
      BY <1>6, <3>1 DEF Date
  <2>5. Agree(r, x, Was(m, N, r)) /\ Agree(r, y, Became(m, N, r))
    BY <1>5, <1>7, <1>8, <2>2 DEF Agree
  <2>6. Stacked(q, r, x, b) /\ (Stand(q, r) = {} => Agree(r, x, b))
    BY DEF Trace
  <2>7. (\A u \in Stand(m, r) : Date(m, u, r) \in Nat) /\ \A u \in Stand(q, r) : Date(m, u, r) < Date(m, N, r)
    BY <1>1, <1>3, <2>3, <2>4
  <2>8. N \notin Stand(q, r)
    BY <1>4
  <2> QED
    BY ONLY <1>3, <1>6, <2>5, <2>6, <2>7, <2>8, StackPush
<1>16. Stand(m, r) # {}
  BY <1>3
<1> QED
  BY ONLY <1>12, <1>13, <1>14, <1>15, <1>16 DEF Trace

LEMMA TraceUndo ==
    ASSUME NEW q, NEW k, OpsInv(q, k), NEW m, NEW n, NEW N, Grows(q, m, n, N),
           NEW o \in DOMAIN q, n.undoOf = o, q[o].undoOf = 0, TakenBack(q, o) = {},
           NEW r \in Rows, r \in DOMAIN q[o].changes,
           NEW x, RowIs(r, x, k), Fits(q[o].changes[r].after, x), Past(q, r, x),
           NEW b, Trace(q, r, x, b), NEW y, y = Overlay(Back(q[o].changes[r]).after, x)
    PROVE  Trace(m, r, y, b)
<1> DEFINE g == q[o].changes[r]
           C == Columns[KindOf[r]]
<1>1. /\ k \in Nat \ {0} /\ \A v \in DOMAIN q : q[v].undoOf \in 0 .. v - 1
  BY OpsAre DEF OpsInv
<1>2. \A v \in DOMAIN q : m[v] = q[v]
  BY DEF Grows
<1>3. Stand(m, r) = Stand(q, r) \ {o} /\ o \in Stand(q, r)
  BY <1>1, StandUndo
<1>4. \A v \in Stand(q, r) : v \in DOMAIN q /\ r \in DOMAIN q[v].changes /\ q[v].undoOf = 0
  BY DEF Stand
<1>5. Was(q, o, r) = g.before /\ Became(q, o, r) = g.after
  BY DEF Was, Became
<1>6. \A v \in Stand(q, r) : Was(m, v, r) = Was(q, v, r) /\ Became(m, v, r) = Became(q, v, r)
  BY <1>2, <1>4 DEF Was, Became
<1>7. PICK t \in 1 .. k - 1 : DoneAt(r, g, t)
  BY <1>3, StandsAre
<1>8. /\ DOMAIN x = C /\ DOMAIN g.after = DOMAIN g.before /\ DOMAIN g.before \subseteq C
      /\ \A c \in DOMAIN g.before : x[c] = g.after[c]
  BY <1>7 DEF RowIs, DoneAt, ImageAt, Fits
<1>9. /\ DOMAIN Back(g).after = DOMAIN g.before /\ Back(g).before = g.after
      /\ \A c \in DOMAIN g.before : c # "version" => Back(g).after[c] = g.before[c]
  BY BackIs
<1>10. /\ DOMAIN y = C
       /\ \A c \in DOMAIN g.before : c # "version" => y[c] = g.before[c]
       /\ \A c \in C \ DOMAIN g.before : y[c] = x[c]
  BY ONLY <1>8, <1>9, y = Overlay(Back(q[o].changes[r]).after, x) DEF Overlay
<1>11. Versioned(r) => y.version = x.version + 1 /\ x.version \in Nat
  <2>1. Sound(r, Back(g), k)
    BY <1>1, <1>7, SoundBack
  <2> QED
    BY <1>1, <1>9, <2>1, RowApplied DEF RowIs
<1>12. Versioned(r) => \A v \in Stand(q, r) : ~ Fits(Became(m, v, r), y) /\ Became(m, v, r).version # y.version
  BY <1>4, <1>11, NewVersion
<1>13. Versioned(r) => Returns(m, r, y, b)
  BY <1>3, <1>12 DEF Returns
<1>14. KindOf[r] \in {"claim", "relation"} => Fades(m, r, y)
  BY <1>3, <1>12, KindsAre DEF Fades
<1>15. KindOf[r] \in Brief => Stand(q, r) = {o} /\ Agree(r, g.before, b) /\ DOMAIN g.before = C
  BY <1>3, <1>5, <1>7 DEF Trace, Switched, DoneAt, ImageAt
<1>16. KindOf[r] \in Brief => Switched(m, r, y, b)
  BY <1>3, <1>15 DEF Switched
<1>17. ASSUME KindOf[r] \in Dated PROVE Stacked(m, r, y, b) /\ (Stand(m, r) = {} => Agree(r, y, b))
  <2>1. "stale_at" \in C /\ "version" \notin C
    BY <1>17, KindsAre
  <2>2. DOMAIN g.before = C
    BY <1>7, <1>17 DEF DoneAt, ImageAt
  <2>3. x.stale_at = Date(q, o, r) /\ Agree(r, y, Was(q, o, r))
    BY <1>5, <1>8, <1>10, <2>1, <2>2 DEF Date, Agree
  <2>4. \A u \in Stand(q, r) : Date(q, u, r) \in Nat
    <3> SUFFICES ASSUME NEW u \in Stand(q, r) PROVE Date(q, u, r) \in Nat
      OBVIOUS
    <3>1. Date(q, u, r) \in 1 .. k - 1
      BY <1>4, <1>17, DatesAre
    <3> QED
      BY <3>1
  <2>5. \A u, v \in Stand(q, r) : Date(q, u, r) = Date(q, v, r) => u = v
    BY <1>4, <1>17, DatesAre
  <2>6. Stacked(q, r, x, b)
    BY <1>17 DEF Trace
  <2> QED
    BY ONLY <1>3, <1>6, <2>1, <2>3, <2>4, <2>5, <2>6, StackPop
<1>18. ASSUME Versioned(r), Stand(m, r) = {} PROVE Agree(r, y, b)
  <2>1. Stand(q, r) = {o}
    BY <1>3, <1>18
  <2>2. Agree(r, Overlay(g.before, x), b)
    BY <1>5, <1>18, <2>1 DEF Trace, Returns
  <2>3. /\ \A c \in DOMAIN g.before : Overlay(g.before, x)[c] = g.before[c]
        /\ \A c \in C \ DOMAIN g.before : Overlay(g.before, x)[c] = x[c]
    BY ONLY <1>8 DEF Overlay
  <2> QED
    BY <1>10, <2>2, <2>3 DEF Agree
<1>19. ASSUME KindOf[r] \in Brief PROVE Agree(r, y, b)
  BY <1>10, <1>15, <1>19 DEF Agree
<1>20. Stand(m, r) = {} => Agree(r, y, b)
  BY <1>17, <1>18, <1>19, KindsAre
<1> QED
  BY ONLY <1>13, <1>14, <1>16, <1>17, <1>20 DEF Trace

LEMMA TraceRedo ==
    ASSUME NEW q, NEW k, OpsInv(q, k), NEW m, NEW n, NEW N, Grows(q, m, n, N),
           NEW u \in DOMAIN q, n.undoOf = u, NEW o \in DOMAIN q, q[u].undoOf = o, q[o].undoOf = 0,
           TakenBack(q, u) = {}, NEW r \in Rows, r \in DOMAIN q[o].changes,
           NEW x, RowIs(r, x, k), Fits(Back(q[o].changes[r]).after, x), Past(q, r, x),
           NEW b, Trace(q, r, x, b), NEW y, y = Overlay(Back(Back(q[o].changes[r])).after, x)
    PROVE  Trace(m, r, y, b)
<1> DEFINE g == q[o].changes[r]
           h == Back(g)
           z == Back(h)
           C == Columns[KindOf[r]]
<1>1. /\ k \in Nat \ {0} /\ \A v \in DOMAIN q : q[v].undoOf \in 0 .. v - 1
  BY OpsAre DEF OpsInv
<1>2. \A v \in DOMAIN q : m[v] = q[v]
  BY DEF Grows
<1>3. Stand(m, r) = Stand(q, r) \cup {o} /\ TakenBack(m, o) # {}
  <2>1. \A v, w \in DOMAIN q : q[v].undoOf = q[w].undoOf /\ q[v].undoOf # 0 => v = w
    BY DEF OpsInv
  <2> QED
    BY <1>1, <2>1, StandRedo
<1>4. \A v \in Stand(m, r) : v \in DOMAIN q /\ r \in DOMAIN q[v].changes /\ q[v].undoOf = 0
  BY <1>3 DEF Stand
<1>5. Was(q, o, r) = g.before /\ Became(q, o, r) = g.after
  BY DEF Was, Became
<1>6. \A v \in Stand(m, r) : Was(m, v, r) = Was(q, v, r) /\ Became(m, v, r) = Became(q, v, r)
  BY <1>2, <1>4 DEF Was, Became
<1>7. PICK t \in 1 .. k - 1 : DoneAt(r, g, t)
  <2>1. OwnOp(q, o, k)
    BY OpsAre
  <2> QED
    BY <2>1 DEF OwnOp
<1>8. /\ h.before = g.after /\ DOMAIN h.after = DOMAIN g.before
      /\ \A c \in DOMAIN g.before : c # "version" => h.after[c] = g.before[c]
  BY BackIs
<1>9. /\ z.before = h.after /\ DOMAIN z.after = DOMAIN g.after
      /\ \A c \in DOMAIN g.after : c # "version" => z.after[c] = g.after[c]
  BY <1>8, BackIs
<1>10. /\ DOMAIN x = C /\ DOMAIN g.after = DOMAIN g.before /\ DOMAIN g.before \subseteq C
       /\ \A c \in DOMAIN g.before : c # "version" => x[c] = g.before[c]
  BY <1>7, <1>8 DEF RowIs, DoneAt, ImageAt, Fits
<1>11. Sound(r, z, k) /\ Fits(z.before, x)
  BY <1>1, <1>7, <1>9, SoundAgain
<1> HIDE DEF h, z
<1>12. /\ DOMAIN y = C
       /\ \A c \in DOMAIN g.before : c # "version" => y[c] = g.after[c]
       /\ \A c \in C \ DOMAIN g.before : y[c] = x[c]
  <2>1. y = Overlay(z.after, x)
    BY DEF z, h
  <2> QED
    BY ONLY <1>9, <1>10, <2>1 DEF Overlay
<1>13. Versioned(r) => y.version = x.version + 1 /\ x.version \in Nat
  <2>1. y = Overlay(z.after, x)
    BY DEF z, h
  <2> QED
    BY <1>1, <1>11, <2>1, RowApplied DEF RowIs
<1>14. Versioned(r) => \A v \in Stand(m, r) : ~ Fits(Became(m, v, r), y) /\ Became(m, v, r).version # y.version
  BY <1>4, <1>13, NewVersion
<1>15. Versioned(r) => Returns(m, r, y, b)
  BY <1>14 DEF Returns
<1>16. KindOf[r] \in {"claim", "relation"} => Fades(m, r, y)
  BY <1>14, KindsAre DEF Fades
<1>17. KindOf[r] \in Brief => Switched(m, r, y, b)
  <2> SUFFICES ASSUME KindOf[r] \in Brief PROVE Switched(m, r, y, b)
    OBVIOUS
  <2>1. DOMAIN g.before = C /\ g.before.state = "active" /\ g.after.state = Off(r)
    BY <1>7 DEF DoneAt, ImageAt
  <2>2. "state" \in C /\ "version" \notin C /\ Off(r) # "active"
    BY KindsAre
  <2>3. x.state = "active" /\ y.state # "active"
    BY <1>10, <1>12, <2>1, <2>2
  <2>4. Stand(q, r) = {}
    BY <2>3 DEF Trace, Switched
  <2>5. Agree(r, Was(m, o, r), b)
    BY <1>3, <1>5, <1>6, <1>10, <2>1, <2>2, <2>4 DEF Trace, Agree
  <2> QED
    BY <1>3, <2>3, <2>4, <2>5 DEF Switched
<1>18. KindOf[r] \in Dated => Stacked(m, r, y, b)
  <2> SUFFICES ASSUME KindOf[r] \in Dated PROVE Stacked(m, r, y, b)
    OBVIOUS
  <2>1. "stale_at" \in C /\ "version" \notin C
    BY KindsAre
  <2>2. /\ DOMAIN g.before = C /\ g.before.stale_at < Date(q, o, r)
    BY <1>5, DatesAre
  <2>3. \A v \in Stand(m, r) : Date(m, v, r) = Date(q, v, r) /\ Date(q, v, r) \in Nat
    <3> SUFFICES ASSUME NEW v \in Stand(m, r) PROVE Date(m, v, r) = Date(q, v, r) /\ Date(q, v, r) \in Nat
      OBVIOUS
    <3>1. Date(q, v, r) \in 1 .. k - 1
      BY <1>4, DatesAre
    <3> QED
      BY <1>6, <3>1 DEF Date
  <2>4. Stacked(q, r, x, b) /\ (Stand(q, r) = {} => Agree(r, x, b))
    BY DEF Trace
  <2>5. \A v \in Stand(q, r) : Date(q, v, r) < Date(q, o, r)
    <3> SUFFICES ASSUME NEW w \in Stand(q, r) PROVE Date(q, w, r) < Date(q, o, r)
      OBVIOUS
    <3>1. PICK v \in Stand(q, r) :
            Agree(r, x, Became(q, v, r)) /\ \A d \in Stand(q, r) : Date(q, d, r) <= Date(q, v, r)
      BY <2>4 DEF Stacked
    <3>2. x.stale_at = Date(q, v, r) /\ x.stale_at = g.before.stale_at
      BY <1>10, <2>1, <2>2, <3>1 DEF Agree, Date
    <3>3. Date(q, w, r) <= Date(q, v, r) /\ Date(q, w, r) \in Nat /\ Date(q, v, r) \in Nat /\ Date(q, o, r) \in Nat
      BY <1>3, <2>3, <3>1
    <3> QED
      BY <2>2, <3>2, <3>3
  <2>6. Agree(r, x, Was(m, o, r)) /\ Agree(r, y, Became(m, o, r))
    BY <1>3, <1>5, <1>6, <1>10, <1>12, <2>1, <2>2 DEF Agree
  <2>7. /\ \A v \in Stand(m, r) : Date(m, v, r) \in Nat
        /\ \A v \in Stand(q, r) : Date(m, v, r) < Date(m, o, r)
        /\ \A v \in Stand(q, r) : Was(m, v, r) = Was(q, v, r) /\ Became(m, v, r) = Became(q, v, r)
    BY <1>3, <1>6, <2>3, <2>5
  <2>8. o \notin Stand(q, r)
    <3>1. SUFFICES ASSUME o \in Stand(q, r) PROVE FALSE
      OBVIOUS
    <3>2. Date(q, o, r) < Date(q, o, r) /\ Date(q, o, r) \in Nat
      BY <1>3, <2>3, <2>5, <3>1
    <3> QED
      BY <3>2
  <2> QED
    BY ONLY <1>3, <2>4, <2>6, <2>7, <2>8, StackPush
<1>19. Stand(m, r) # {}
  BY <1>3
<1> QED
  BY ONLY <1>15, <1>16, <1>17, <1>18, <1>19 DEF Trace

-----------------------------------------------------------------------------
(* What the other commands write                                           *)

LEMMA LaterIs ==
    /\ \A q, k : OpsInv(q, k) => OpsInv(q, k + 1)
    /\ \A r, x : \A k \in Nat : RowIs(r, x, k) => RowIs(r, x, k + 1)
<1>1. ASSUME NEW q, NEW k, OpsInv(q, k) PROVE OpsInv(q, k + 1)
  <2>1. k \in Nat \ {0} /\ k + 1 \in Nat \ {0} /\ 1 .. k - 1 \subseteq 1 .. k + 1 - 1
    BY <1>1 DEF OpsInv
  <2>2. \A o \in DOMAIN q : OwnOp(q, o, k) => OwnOp(q, o, k + 1)
    BY <2>1 DEF OwnOp
  <2>3. \A o \in DOMAIN q : IF q[o].undoOf = 0 THEN OwnOp(q, o, k + 1) ELSE BackOp(q, o)
    BY <1>1, <2>2 DEF OpsInv
  <2> QED
    BY <1>1, <2>1, <2>3 DEF OpsInv
<1>2. ASSUME NEW r, NEW x, NEW k \in Nat, RowIs(r, x, k) PROVE RowIs(r, x, k + 1)
  <2>1. 0 .. k - 1 \subseteq 0 .. k + 1 - 1
    OBVIOUS
  <2> QED
    BY <1>2, <2>1 DEF RowIs
<1> QED
  BY <1>1, <1>2

\* What may be written to a row x at time k besides: a new version, or what no
\* operation that stands can be taken for.
Written(r, x, k, image) ==
    /\ DOMAIN image \subseteq Columns[KindOf[r]]
    /\ \A c \in Times \cap DOMAIN image : image[c] \in 0 .. k
    /\ \/ Versioned(r) /\ "version" \in DOMAIN image /\ image.version = x.version + 1
       \/ KindOf[r] \in {"claim", "relation"} /\ image = [state |-> "stale"] /\ x.state # "stale"
       \/ /\ KindOf[r] = "topic" /\ DOMAIN image = {"state", "stale_at", "stale_reason"}
          /\ image.state # "deleted" /\ image.stale_at \in {0, k}
       \/ /\ KindOf[r] \in Brief \cup Dated /\ x.state = "active"
          /\ "state" \in DOMAIN image /\ image.state = Off(r)
          /\ KindOf[r] = "chunk" => "deleted_at" \in DOMAIN image /\ image.deleted_at # 0

LEMMA NoneStands ==
    ASSUME NEW q, NEW k, OpsInv(q, k), NEW r \in Rows, NEW x, NEW b, Trace(q, r, x, b),
           KindOf[r] \in Brief \cup Dated, x.state = "active"
    PROVE  Stand(q, r) = {}
<1>1. CASE KindOf[r] \in Brief
  BY <1>1 DEF Trace, Switched
<1>2. CASE KindOf[r] \in Dated
  <2>1. SUFFICES ASSUME Stand(q, r) # {} PROVE FALSE
    OBVIOUS
  <2>2. PICK o \in Stand(q, r) : Agree(r, x, Became(q, o, r))
    BY <1>2, <2>1 DEF Trace, Stacked
  <2>3. Became(q, o, r).state = "stale"
    BY <1>2, DatesAre DEF Stand
  <2>4. "state" \in Columns[KindOf[r]]
    BY KindsAre
  <2> QED
    BY <2>2, <2>3, <2>4 DEF Agree
<1> QED
  BY <1>1, <1>2

LEMMA WrittenRow ==
    ASSUME NEW q, NEW k, OpsInv(q, k), NEW r \in Rows, NEW x, RowIs(r, x, k), Past(q, r, x),
           NEW b, DOMAIN b = Columns[KindOf[r]], Trace(q, r, x, b),
           NEW image, Written(r, x, k, image), NEW y, y = Overlay(image, x), NEW a, a = Overlay(image, b)
    PROVE  RowIs(r, y, k + 1) /\ Past(q, r, y) /\ Trace(q, r, y, a) /\ DOMAIN a = Columns[KindOf[r]]
<1> DEFINE C == Columns[KindOf[r]]
<1>0. k \in Nat \ {0}
  BY DEF OpsInv
<1>1. DOMAIN x = C /\ DOMAIN b = C /\ DOMAIN image \subseteq C
  BY DEF RowIs, Written
<1>2. /\ DOMAIN y = C /\ \A c \in DOMAIN image : y[c] = image[c]
      /\ \A c \in C \ DOMAIN image : y[c] = x[c]
  BY ONLY <1>1, y = Overlay(image, x) DEF Overlay
<1>3. /\ DOMAIN a = C /\ \A c \in DOMAIN image : a[c] = image[c]
      /\ \A c \in C \ DOMAIN image : a[c] = b[c]
  BY ONLY <1>1, a = Overlay(image, b) DEF Overlay
<1>4. Versioned(r) => /\ x.version \in Nat /\ y.version \in Nat /\ x.version <= y.version
                      /\ "version" \in DOMAIN image \/ y.version = x.version
  <2> SUFFICES ASSUME Versioned(r)
               PROVE  /\ x.version \in Nat /\ y.version \in Nat /\ x.version <= y.version
                      /\ "version" \in DOMAIN image \/ y.version = x.version
    OBVIOUS
  <2>1. x.version \in Nat /\ "version" \in C
    BY DEF RowIs, Versioned
  <2>2. CASE "version" \notin DOMAIN image
    BY <1>2, <2>1, <2>2
  <2>3. CASE "version" \in DOMAIN image
    <3>1. image.version = x.version + 1
      BY <2>3, KindsAre DEF Written
    <3> QED
      BY <1>2, <2>1, <2>3, <3>1
  <2> QED
    BY <2>2, <2>3
<1>5. Past(q, r, y)
  <2> SUFFICES ASSUME Versioned(r), NEW o \in DOMAIN q, r \in DOMAIN q[o].changes
               PROVE  /\ "version" \in DOMAIN q[o].changes[r].after
                      /\ q[o].changes[r].after.version \in Nat /\ q[o].changes[r].after.version <= y.version
    BY DEF Past
  <2>1. /\ "version" \in DOMAIN q[o].changes[r].after
        /\ q[o].changes[r].after.version \in Nat /\ q[o].changes[r].after.version <= x.version
    BY DEF Past
  <2> QED
    BY <1>4, <2>1
<1>6. RowIs(r, y, k + 1)
  <2>1. \A c \in Times \cap C : y[c] \in 0 .. k + 1 - 1
    <3> SUFFICES ASSUME NEW c \in Times, c \in C PROVE y[c] \in 0 .. k + 1 - 1
      OBVIOUS
    <3>1. x[c] \in 0 .. k - 1
      BY DEF RowIs
    <3>2. c \in DOMAIN image => image[c] \in 0 .. k
      BY DEF Written
    <3> QED
      BY <1>0, <1>2, <3>1, <3>2
  <2>2. KindOf[r] \in Brief => "state" \in DOMAIN image /\ image.state = Off(r)
    BY KindsAre DEF Written, Brief
  <2>3. KindOf[r] = "chunk" => "deleted_at" \in DOMAIN image /\ image.deleted_at # 0
    BY KindsAre DEF Written, Brief
  <2>4. KindOf[r] \in Brief => y.state \in {"active", Off(r)}
    BY <1>2, <2>2
  <2>5. KindOf[r] = "chunk" => y.state = "active" \/ y.deleted_at # 0
    BY <1>2, <2>3
  <2>6. DOMAIN y = Columns[KindOf[r]] /\ (Versioned(r) => y.version \in Nat)
    BY <1>2, <1>4
  <2> QED
    BY <1>0, <2>1, <2>4, <2>5, <2>6 DEF RowIs
<1>7. Stand(q, r) = {} => Agree(r, y, a)
  BY <1>2, <1>3 DEF Trace, Agree
<1>8. KindOf[r] \in Brief \cup Dated => Stand(q, r) = {}
  <2>1. KindOf[r] \in Brief \cup Dated => x.state = "active"
    BY KindsAre DEF Written, Brief, Dated
  <2> QED
    BY <2>1, NoneStands
<1>9. KindOf[r] \in {"claim", "relation"} => Fades(q, r, y)
  <2> SUFFICES ASSUME KindOf[r] \in {"claim", "relation"}, NEW o \in Stand(q, r),
                      Became(q, o, r).version = y.version, Became(q, o, r).state = "stale"
               PROVE  y.state = "stale"
    BY DEF Fades
  <2>1. Versioned(r) /\ KindOf[r] \notin Brief \cup Dated /\ KindOf[r] # "topic"
    BY KindsAre
  <2>2. CASE image = [state |-> "stale"]
    BY <1>2, <2>2
  <2>3. CASE "version" \in DOMAIN image /\ image.version = x.version + 1
    <3>1. y.version = x.version + 1 /\ x.version \in Nat
      BY <1>2, <1>4, <2>1, <2>3
    <3>2. Became(q, o, r).version \in Nat /\ Became(q, o, r).version <= x.version
      BY <2>1 DEF Past, Stand, Became
    <3> QED
      BY <3>1, <3>2
  <2> QED
    BY <2>1, <2>2, <2>3 DEF Written
<1>10. Versioned(r) => Returns(q, r, y, a)
  <2> SUFFICES ASSUME Versioned(r), NEW o \in Stand(q, r), Fits(Became(q, o, r), y)
               PROVE  FALSE
    BY DEF Returns
  <2>0. KindOf[r] \notin Brief \cup Dated
    BY KindsAre
  <2>1. /\ "version" \in DOMAIN Became(q, o, r) /\ Became(q, o, r).version \in Nat
        /\ Became(q, o, r).version <= x.version /\ y.version = Became(q, o, r).version
    BY DEF Past, Stand, Became, Fits
  <2>2. PICK t \in 1 .. k - 1 : DoneAt(r, q[o].changes[r], t)
    BY StandsAre
  <2>3. CASE "version" \in DOMAIN image /\ image.version = x.version + 1
    <3>1. y.version = x.version + 1 /\ x.version \in Nat
      BY <1>2, <1>4, <2>3
    <3> QED
      BY <2>1, <3>1
  <2>4. CASE KindOf[r] \in {"claim", "relation"} /\ image = [state |-> "stale"] /\ x.state # "stale"
    <3>1. "state" \in DOMAIN Became(q, o, r)
      BY <2>2, <2>4 DEF DoneAt, ImageAt, Became
    <3>2. Became(q, o, r).state = "stale"
      BY <1>2, <2>4, <3>1 DEF Fits
    <3>3. Became(q, o, r).version = x.version
      BY <1>4, <2>1, <2>4
    <3> QED
      BY <2>4, <3>2, <3>3 DEF Trace, Fades
  <2>5. CASE /\ KindOf[r] = "topic" /\ DOMAIN image = {"state", "stale_at", "stale_reason"}
             /\ image.state # "deleted" /\ image.stale_at \in {0, k}
    <3>1. "state" \in DOMAIN Became(q, o, r)
      BY <2>2, <2>5 DEF DoneAt, ImageAt, Became
    <3>2. Became(q, o, r).state # "deleted"
      BY <1>2, <2>5, <3>1 DEF Fits
    <3>3. "stale_at" \in DOMAIN Became(q, o, r) /\ Became(q, o, r).stale_at = t
      BY <2>2, <2>5, <3>2 DEF DoneAt, ImageAt, Became, Times
    <3>4. y.stale_at = image.stale_at
      BY <1>2, <2>5
    <3> QED
      BY <1>0, <2>5, <3>3, <3>4 DEF Fits
  <2> QED
    BY <2>0, <2>3, <2>4, <2>5 DEF Written
<1>11. KindOf[r] \in Brief => Switched(q, r, y, a)
  BY <1>8 DEF Switched
<1>12. KindOf[r] \in Dated => Stacked(q, r, y, a)
  BY <1>8 DEF Stacked
<1>13. Trace(q, r, y, a)
  BY ONLY <1>7, <1>9, <1>10, <1>11, <1>12 DEF Trace
<1> QED
  BY <1>3, <1>5, <1>6, <1>13

\* A version that goes up hides nothing.
LEMMA VersionedRow ==
    ASSUME NEW q, NEW k, OpsInv(q, k), NEW r \in Rows, Versioned(r), NEW x, RowIs(r, x, k), Past(q, r, x),
           NEW b, Trace(q, r, x, b), NEW y, y = [x EXCEPT !.version = @ + 1]
    PROVE  RowIs(r, y, k) /\ Past(q, r, y) /\ Trace(q, r, y, b)
<1> DEFINE C == Columns[KindOf[r]]
<1>1. /\ DOMAIN x = C /\ "version" \in C /\ x.version \in Nat
  BY DEF RowIs, Versioned
<1>2. /\ DOMAIN y = C /\ y.version = x.version + 1 /\ \A c \in C : c # "version" => y[c] = x[c]
  BY <1>1
<1>3. KindOf[r] \notin Brief \cup Dated /\ KindOf[r] # "chunk"
  BY KindsAre DEF Brief
<1>4. RowIs(r, y, k)
  BY <1>1, <1>2, <1>3 DEF RowIs, Times
<1>5. \A o \in DOMAIN q : r \in DOMAIN q[o].changes =>
        /\ "version" \in DOMAIN q[o].changes[r].after
        /\ q[o].changes[r].after.version \in Nat /\ q[o].changes[r].after.version <= x.version
  BY DEF Past
<1>6. Past(q, r, y)
  BY <1>1, <1>2, <1>5 DEF Past
<1>7. \A o \in Stand(q, r) : ~ Fits(Became(q, o, r), y) /\ Became(q, o, r).version # y.version
  BY <1>1, <1>2, <1>5 DEF Stand, Became, Fits
<1>8. Stand(q, r) = {} => Agree(r, y, b)
  BY <1>2 DEF Trace, Agree
<1>9. Returns(q, r, y, b) /\ Fades(q, r, y)
  BY <1>7 DEF Returns, Fades
<1>10. Trace(q, r, y, b)
  BY ONLY <1>3, <1>8, <1>9 DEF Trace
<1> QED
  BY <1>4, <1>6, <1>10

-----------------------------------------------------------------------------
(* The steps that write rows                                               *)

LEMMA PutsKeep ==
    ASSUME RowsInv, NEW R, NEW S, NEW image, PutAll(R, S, image),
           \A r \in R \cap Rows : Written(r, row[r], clock, image)
    PROVE  RowsInv'
<1>1. /\ row' = [r \in Rows |-> IF r \in R THEN Overlay(image, row[r]) ELSE row[r]]
      /\ base' = [r \in Rows |-> IF r \in R THEN Overlay(image, base[r]) ELSE base[r]]
      /\ clock' = clock + 1 /\ ops' = ops
  BY DEF PutAll
<1>2. OpsInv(ops, clock) /\ OpsInv(ops, clock + 1) /\ clock \in Nat
  BY LaterIs DEF RowsInv, OpsInv
<1>3. ASSUME NEW r \in Rows
      PROVE  /\ RowIs(r, row'[r], clock + 1) /\ DOMAIN base'[r] = Columns[KindOf[r]]
             /\ Past(ops, r, row'[r]) /\ Trace(ops, r, row'[r], base'[r])
  <2>1. /\ RowIs(r, row[r], clock) /\ DOMAIN base[r] = Columns[KindOf[r]]
        /\ Past(ops, r, row[r]) /\ Trace(ops, r, row[r], base[r])
    BY DEF RowsInv
  <2>2. CASE r \in R
    <3>1. row'[r] = Overlay(image, row[r]) /\ base'[r] = Overlay(image, base[r])
      BY <1>1, <2>2
    <3>2. Written(r, row[r], clock, image)
      BY <2>2
    <3> QED
      BY ONLY <1>2, <2>1, <3>1, <3>2, r \in Rows, WrittenRow
  <2>3. CASE r \notin R
    <3>1. row'[r] = row[r] /\ base'[r] = base[r]
      BY <1>1, <2>3
    <3>2. RowIs(r, row[r], clock + 1)
      BY <1>2, <2>1, LaterIs
    <3> QED
      BY <2>1, <3>1, <3>2
  <2> QED
    BY <2>2, <2>3
<1> QED
  BY <1>1, <1>2, <1>3 DEF RowsInv

LEMMA BumpWritten ==
    ASSUME RowsInv, NEW r \in Rows, Versioned(r), NEW extra, DOMAIN extra \subseteq Columns[KindOf[r]],
           "version" \notin DOMAIN extra, Times \cap DOMAIN extra = {}
    PROVE  Written(r, row[r], clock, Bumped(r, extra))
<1>1. /\ DOMAIN Bumped(r, extra) = DOMAIN extra \cup {"version"}
      /\ Bumped(r, extra).version = row[r].version + 1
  BY DEF Bumped, Overlay
<1>2. "version" \in Columns[KindOf[r]] /\ "version" \notin Times
  BY DEF Versioned, Times
<1> HIDE DEF Bumped
<1> QED
  BY ONLY <1>1, <1>2, Versioned(r), DOMAIN extra \subseteq Columns[KindOf[r]], Times \cap DOMAIN extra = {} DEF Written

LEMMA TouchKeepsRows ==
    ASSUME RowsInv, Touch
    PROVE  RowsInv'
<1>0. clock \in Nat \ {0}
  BY DEF RowsInv, OpsInv
<1>1. CASE ActivateGraph
  <2>1. PICK lost, R, S :
          /\ lost = Lost(row) /\ R = Faded(row) /\ PutAll(lost \cup R, S, [state |-> "stale"])
    BY <1>1 DEF ActivateGraph
  <2>2. ASSUME NEW r \in lost PROVE Written(r, row[r], clock, [state |-> "stale"])
    <3>1. KindOf[r] \in {"claim_evidence", "relation_evidence"} /\ row[r].state = "active"
      BY <2>1 DEF Lost
    <3> QED
      BY <3>1 DEF Written, Columns, Brief, Off, Times
  <2>3. ASSUME NEW r \in R PROVE Written(r, row[r], clock, [state |-> "stale"])
    <3>1. KindOf[r] \in {"claim", "relation"} /\ row[r].state # "stale"
      BY <2>1 DEF Faded, Evidence
    <3> QED
      BY <3>1 DEF Written, Columns, Times
  <2>4. \A r \in (lost \cup R) \cap Rows : Written(r, row[r], clock, [state |-> "stale"])
    BY <2>2, <2>3
  <2> QED
    BY <2>1, <2>4, PutsKeep
<1>2. ASSUME NEW r \in Rows, NEW R \in SUBSET {r}, NEW S, NEW image, PutAll(R, S, image),
             r \in R => Written(r, row[r], clock, image)
      PROVE  RowsInv'
  BY <1>2, PutsKeep
<1>3. ASSUME NEW r \in Rows, TouchContent(r) PROVE RowsInv'
  <2>1. ASSUME KindOf[r] \in {"source", "connection"}, NEW s, NEW R \in SUBSET {r}, NEW S,
               PutAll(R, S, Bumped(r, [state |-> s]))
        PROVE  RowsInv'
    <3>1. Written(r, row[r], clock, Bumped(r, [state |-> s]))
      BY <2>1, BumpWritten DEF Versioned, Columns, Times
    <3> QED
      BY <1>2, <2>1, <3>1
  <2>2. CASE KindOf[r] = "chunk" /\ PutIf(r, {"active"}, [state |-> "tombstoned", deleted_at |-> clock])
    <3>1. ASSUME row[r].state = "active"
          PROVE  Written(r, row[r], clock, [state |-> "tombstoned", deleted_at |-> clock])
      BY <1>0, <2>2, <3>1 DEF Written, Columns, Brief, Off, Times
    <3> QED
      BY <1>2, <2>2, <3>1 DEF PutIf, Hit
  <2>3. CASE /\ KindOf[r] \in {"evidence_context", "answer"}
             /\ PutIf(r, {"active"}, [state |-> "stale", stale_at |-> clock, stale_reason |-> "change"])
    <3>1. ASSUME row[r].state = "active"
          PROVE  Written(r, row[r], clock, [state |-> "stale", stale_at |-> clock, stale_reason |-> "change"])
      BY <1>0, <2>3, <3>1 DEF Written, Columns, Dated, Off, Times
    <3> QED
      BY <1>2, <2>3, <3>1 DEF PutIf, Hit
  <2>4. {r} \in SUBSET {r} /\ \A Q : {r} \ Q \in SUBSET {r}
    OBVIOUS
  <2> QED
    BY <1>3, <2>1, <2>2, <2>3, <2>4 DEF TouchContent, Put, PutUnless
<1>4. ASSUME NEW r \in Rows, TouchTopic(r) PROVE RowsInv'
  <2>1. CASE /\ KindOf[r] = "topic"
             /\ PutIf(r, {"active"}, [state |-> "stale", stale_at |-> clock, stale_reason |-> "change"])
    <3>1. Written(r, row[r], clock, [state |-> "stale", stale_at |-> clock, stale_reason |-> "change"])
      BY <1>0, <2>1 DEF Written, Columns, Times
    <3> QED
      BY <1>2, <2>1, <3>1 DEF PutIf, Hit
  <2>2. CASE /\ KindOf[r] = "topic"
             /\ PutUnless(r, {"deleted"}, [state |-> "active", stale_at |-> 0, stale_reason |-> "none"])
    <3>1. Written(r, row[r], clock, [state |-> "active", stale_at |-> 0, stale_reason |-> "none"])
      BY <1>0, <2>2 DEF Written, Columns, Times
    <3> QED
      BY <1>2, <2>2, <3>1 DEF PutUnless
  <2>3. CASE /\ KindOf[r] = "artifact"
             /\ PutUnless(r, {"deleted"}, Bumped(r, [state |-> "active", stale_reason |-> "none"]))
    <3>1. Written(r, row[r], clock, Bumped(r, [state |-> "active", stale_reason |-> "none"]))
      BY <2>3, BumpWritten DEF Versioned, Columns, Times
    <3> QED
      BY <1>2, <2>3, <3>1 DEF PutUnless
  <2> QED
    BY <1>4, <2>1, <2>2, <2>3 DEF TouchTopic
<1> QED
  BY <1>1, <1>3, <1>4 DEF Touch

LEMMA SyncKeepsRows ==
    ASSUME RowsInv, NEW p \in Procs, SyncNote(p), proc[p].target \in Notes
    PROVE  RowsInv'
<1> DEFINE s == NoteSource(proc[p].target)
<1>1. s \in Rows /\ KindOf[s] = "source"
  BY NotesAre
<1> HIDE DEF s
<1>2. CASE UNCHANGED planVars
  BY <1>2 DEF planVars, RowsInv
<1>3. ASSUME NEW z, NEW S, PutAll({s}, S, Bumped(s, [state |-> z])) PROVE RowsInv'
  <2>1. Written(s, row[s], clock, Bumped(s, [state |-> z]))
    BY <1>1, BumpWritten DEF Versioned, Columns, Times
  <2> QED
    BY <1>1, <1>3, <2>1, PutsKeep
<1> QED
  BY <1>2, <1>3 DEF SyncNote, Put, s

LEMMA RecordKeepsRows ==
    ASSUME RowsInv, NEW p \in Procs, RecordNote(p), proc[p].target \in Notes
    PROVE  RowsInv'
<1> DEFINE o == proc[p].target
<1>1. o \in Rows /\ Versioned(o)
  BY NotesAre DEF Versioned, Columns
<1>2. base' = base /\ ops' = ops /\ clock' = clock /\ (row' = row \/ row' = [row EXCEPT ![o].version = @ + 1])
  BY DEF RecordNote
<1> HIDE DEF o
<1>3. CASE row' = row
  BY <1>2, <1>3 DEF RowsInv
<1>4. CASE row' = [row EXCEPT ![o].version = @ + 1]
  <2>1. DOMAIN row' = Rows /\ row'[o] = [row[o] EXCEPT !.version = @ + 1]
        /\ \A r \in Rows \ {o} : row'[r] = row[r]
    BY <1>1, <1>4 DEF RowsInv
  <2>2. RowIs(o, row'[o], clock) /\ Past(ops, o, row'[o]) /\ Trace(ops, o, row'[o], base[o])
    <3>1. OpsInv(ops, clock) /\ RowIs(o, row[o], clock) /\ Past(ops, o, row[o]) /\ Trace(ops, o, row[o], base[o])
      BY <1>1 DEF RowsInv
    <3> QED
      BY ONLY <1>1, <2>1, <3>1, VersionedRow
  <2>3. \A r \in Rows : RowIs(r, row'[r], clock) /\ Past(ops, r, row'[r]) /\ Trace(ops, r, row'[r], base[r])
    BY <2>1, <2>2 DEF RowsInv
  <2> QED
    BY <1>2, <2>1, <2>3 DEF RowsInv
<1> QED
  BY <1>2, <1>3, <1>4

-----------------------------------------------------------------------------
(* The transaction of a plan, an undo and a restore                        *)

LEMMA OpsGrow ==
    ASSUME NEW q, NEW k, OpsInv(q, k), NEW m, NEW n, NEW N, Grows(q, m, n, N), \E S : m \in Seq(S),
           IF n.undoOf = 0 THEN OwnOp(m, N, k + 1) ELSE BackOp(m, N),
           n.undoOf # 0 => TakenBack(q, n.undoOf) = {},
           \A r \in DOMAIN n.changes : n.undoOf = 0 /\ r \in Rows /\ KindOf[r] \in Dated =>
             n.changes[r].after.stale_at = k
    PROVE  OpsInv(m, k + 1)
<1>1. /\ N \in Nat \ {0} /\ DOMAIN q = 1 .. N - 1 /\ DOMAIN m = DOMAIN q \cup {N} /\ N \notin DOMAIN q
      /\ m[N] = n /\ \A v \in DOMAIN q : m[v] = q[v]
  BY DEF Grows
<1>2. k \in Nat \ {0} /\ k + 1 \in Nat \ {0} /\ 1 .. k - 1 \subseteq 1 .. k + 1 - 1
  BY DEF OpsInv
<1>3. ASSUME NEW o \in DOMAIN q PROVE IF m[o].undoOf = 0 THEN OwnOp(m, o, k + 1) ELSE BackOp(m, o)
  <2>1. m[o] = q[o] /\ o \in Nat
    BY <1>1
  <2>2. IF q[o].undoOf = 0 THEN OwnOp(q, o, k) ELSE BackOp(q, o)
    BY DEF OpsInv
  <2>3. q[o].undoOf # 0 => q[o].undoOf \in DOMAIN q
    BY OpsAre
  <2>4. OwnOp(q, o, k) => OwnOp(m, o, k + 1)
    BY <1>2, <2>1 DEF OwnOp
  <2>5. q[o].undoOf # 0 /\ BackOp(q, o) => BackOp(m, o)
    BY <1>1, <2>1, <2>3 DEF BackOp
  <2> QED
    BY <2>1, <2>2, <2>4, <2>5
<1>4. \A o \in DOMAIN m : IF m[o].undoOf = 0 THEN OwnOp(m, o, k + 1) ELSE BackOp(m, o)
  BY <1>1, <1>3
<1>5. ASSUME NEW u \in DOMAIN m, NEW v \in DOMAIN m, m[u].undoOf = m[v].undoOf, m[u].undoOf # 0
      PROVE  u = v
  <2>1. \A w \in DOMAIN q : q[w].undoOf # n.undoOf \/ n.undoOf = 0
    BY DEF TakenBack
  <2>2. CASE u \in DOMAIN q /\ v \in DOMAIN q
    BY <1>1, <1>5, <2>2 DEF OpsInv
  <2> QED
    BY <1>1, <1>5, <2>1, <2>2
<1>6. \A r \in Rows : KindOf[r] \in Dated =>
         \A o, u \in DOMAIN m : /\ m[o].undoOf = 0 /\ r \in DOMAIN m[o].changes
                                /\ m[u].undoOf = 0 /\ r \in DOMAIN m[u].changes /\ o < u
                                => Became(m, o, r).stale_at < Became(m, u, r).stale_at
  <2> SUFFICES ASSUME NEW r \in Rows, KindOf[r] \in Dated, NEW o \in DOMAIN m, NEW u \in DOMAIN m,
                      m[o].undoOf = 0, r \in DOMAIN m[o].changes,
                      m[u].undoOf = 0, r \in DOMAIN m[u].changes, o < u
               PROVE  Became(m, o, r).stale_at < Became(m, u, r).stale_at
    OBVIOUS
  <2>1. o \in DOMAIN q /\ m[o] = q[o] /\ o \in Nat /\ u \in Nat
    BY <1>1
  <2>2. CASE u \in DOMAIN q
    <3>1. Became(q, o, r).stale_at < Became(q, u, r).stale_at
      BY <1>1, <2>1, <2>2 DEF OpsInv
    <3> QED
      BY <1>1, <2>1, <2>2, <3>1 DEF Became
  <2>3. CASE u = N
    <3>1. Date(q, o, r) \in 1 .. k - 1
      BY <2>1, DatesAre
    <3>2. Became(m, o, r).stale_at \in 1 .. k - 1
      BY <2>1, <3>1 DEF Date, Became
    <3>3. Became(m, u, r).stale_at = k
      BY <1>1, <2>3 DEF Became
    <3> QED
      BY <1>2, <3>2, <3>3
  <2> QED
    BY <1>1, <2>2, <2>3
<1> QED
  BY <1>2, <1>4, <1>5, <1>6 DEF OpsInv

\* What a plan writes at the time of its transaction.
LEMMA MaterializedDone ==
    ASSUME RowsInv, NEW r \in Rows, NEW g, ImageAt(r, g, Now), Fits(g.before, row[r]),
           NEW h, h = [g EXCEPT !.after = Materialize(@)]
    PROVE  DoneAt(r, h, clock) /\ h.before = g.before
<1> DEFINE A == Materialize(g.after)
<1>0. clock \in Nat \ {0}
  BY DEF RowsInv, OpsInv
<1>2. IsChange(h) /\ h.before = g.before /\ h.after = A
  BY DEF ImageAt, IsChange
<1>3. /\ DOMAIN g.after = DOMAIN g.before /\ DOMAIN g.before \subseteq Columns[KindOf[r]]
      /\ \A c \in Times \cap DOMAIN g.before : g.before[c] \in Nat /\ g.after[c] = Now
  BY DEF ImageAt
<1>4. /\ DOMAIN A = DOMAIN g.before
      /\ \A c \in DOMAIN g.before : c \in Times => A[c] = clock
      /\ \A c \in DOMAIN g.before : c \notin Times => A[c] = g.after[c]
  BY <1>3 DEF Materialize
<1>5. \A c \in Times \cap DOMAIN g.before : g.before[c] < clock
  <2> SUFFICES ASSUME NEW c \in Times, c \in DOMAIN g.before PROVE g.before[c] < clock
    OBVIOUS
  <2>1. row[r][c] \in 0 .. clock - 1
    BY <1>3 DEF RowsInv, RowIs
  <2> QED
    BY <1>0, <2>1 DEF Fits
<1>6. "version" \notin Times /\ "state" \notin Times
  BY DEF Times
<1> HIDE DEF A
<1>7. Versioned(r) => /\ "version" \in DOMAIN h.before
                      /\ h.before.version \in Nat /\ h.after.version = h.before.version + 1
  BY <1>2, <1>4, <1>6 DEF ImageAt
<1>8. KindOf[r] \in Brief \cup Dated => DOMAIN h.before = Columns[KindOf[r]] /\ h.after.state = Off(r)
  <2> SUFFICES ASSUME KindOf[r] \in Brief \cup Dated
               PROVE  DOMAIN h.before = Columns[KindOf[r]] /\ h.after.state = Off(r)
    OBVIOUS
  <2>1. DOMAIN g.before = Columns[KindOf[r]] /\ g.after.state = Off(r)
    BY DEF ImageAt
  <2>2. "state" \in DOMAIN g.before
    BY <2>1, KindsAre
  <2> QED
    BY <1>2, <1>4, <1>6, <2>1, <2>2
<1>9. KindOf[r] \in Brief => h.before.state = "active"
  BY <1>2 DEF ImageAt
<1>10. KindOf[r] \in {"claim", "relation", "topic"} => "state" \in DOMAIN h.before
  BY <1>2 DEF ImageAt
<1>11. KindOf[r] = "topic" => h.after.state = "deleted" \/ "stale_at" \in DOMAIN h.before
  BY <1>2, <1>4, <1>6, <1>10 DEF ImageAt
<1>12. /\ DOMAIN h.after = DOMAIN h.before /\ DOMAIN h.before \subseteq Columns[KindOf[r]]
       /\ \A c \in Times \cap DOMAIN h.before : h.before[c] \in Nat /\ h.after[c] = clock /\ h.before[c] < clock
  BY <1>2, <1>3, <1>4, <1>5
<1> QED
  BY <1>2, <1>7, <1>8, <1>9, <1>10, <1>11, <1>12 DEF DoneAt, ImageAt

LEMMA MatchesFit ==
    ASSUME NEW ch, Matches(ch), NEW r \in DOMAIN ch
    PROVE  Fits(ch[r].before, row[r])
BY DEF Matches, Fits

LEMMA CommitOwn ==
    ASSUME RowsInv, NEW ch, PlannedAre(ch), Matches(ch), NEW n, n.undoOf = 0, n.changes = Materialized(ch),
           n.reversible => \E x \in DOMAIN ch : Versioned(x), NEW m, m = Append(ops, n)
    PROVE  /\ OpsInv(m, clock + 1)
           /\ \A r \in Rows : /\ RowIs(r, Applied(n.changes)[r], clock + 1)
                              /\ Past(m, r, Applied(n.changes)[r])
                              /\ Trace(m, r, Applied(n.changes)[r], base[r])
<1> DEFINE N == Len(ops) + 1
           q == ops
           k == clock
<1>1. OpsInv(q, k) /\ k \in Nat \ {0} /\ \E S : q \in Seq(S)
  BY DEF RowsInv, OpsInv
<1>2. (\E S : m \in Seq(S)) /\ Grows(q, m, n, N)
  BY <1>1, AppendGrows
<1> HIDE DEF N, q, k
<1>3. /\ DOMAIN n.changes = DOMAIN ch
      /\ \A r \in DOMAIN ch : n.changes[r] = [ch[r] EXCEPT !.after = Materialize(@)]
  BY DEF Materialized
<1>4. \A r \in DOMAIN ch : /\ r \in Rows /\ DoneAt(r, n.changes[r], k)
                           /\ n.changes[r].before = ch[r].before /\ Fits(ch[r].before, row[r])
  BY <1>3, MaterializedDone, MatchesFit DEF PlannedAre, k
<1>5. N \in DOMAIN m /\ m[N] = n
  BY <1>2 DEF Grows
<1>6. OwnOp(m, N, k + 1)
  <2>1. k \in 1 .. k + 1 - 1
    BY <1>1
  <2>2. \A r \in DOMAIN n.changes : r \in Rows /\ \E t \in 1 .. k + 1 - 1 : DoneAt(r, n.changes[r], t)
    BY <1>3, <1>4, <2>1
  <2>3. n.reversible => \E x \in DOMAIN n.changes : Versioned(x)
    BY <1>3
  <2>4. k \in Nat
    BY <1>1
  <2> QED
    BY ONLY <1>5, <2>2, <2>3, <2>4 DEF OwnOp
<1>7. OpsInv(m, k + 1)
  <2>1. ASSUME NEW r \in DOMAIN n.changes, r \in Rows, KindOf[r] \in Dated
        PROVE  n.changes[r].after.stale_at = k
    <3>1. "stale_at" \in Times /\ "stale_at" \in Columns[KindOf[r]]
      BY <2>1, KindsAre DEF Times
    <3> QED
      BY <1>3, <1>4, <2>1, <3>1 DEF DoneAt, ImageAt
  <2> QED
    BY ONLY <1>1, <1>2, <1>6, <2>1, n.undoOf = 0, OpsGrow
<1>8. ASSUME NEW r \in Rows
      PROVE  /\ RowIs(r, Applied(n.changes)[r], k + 1)
             /\ Past(m, r, Applied(n.changes)[r])
             /\ Trace(m, r, Applied(n.changes)[r], base[r])
  <2>1. PICK x, b, y : x = row[r] /\ b = base[r] /\ y = Applied(n.changes)[r]
    OBVIOUS
  <2>2. y = IF r \in DOMAIN ch THEN Overlay(n.changes[r].after, x) ELSE x
    BY <1>3, <2>1 DEF Applied
  <2>3. RowIs(r, x, k) /\ Past(q, r, x) /\ Trace(q, r, x, b)
    BY <2>1 DEF RowsInv, q, k
  <2>4. Versioned(r) => x.version \in Nat
    BY <2>3 DEF RowIs
  <2>5. CASE r \in DOMAIN ch
    <3>1. DoneAt(r, n.changes[r], k) /\ Fits(n.changes[r].before, x) /\ r \in DOMAIN n.changes
      BY <1>3, <1>4, <2>1, <2>5
    <3>2. y = Overlay(n.changes[r].after, x)
      BY <2>2, <2>5
    <3>3. Trace(m, r, y, b)
      BY ONLY <1>1, <1>2, <2>3, <3>1, <3>2, n.undoOf = 0, r \in Rows, TraceOwn
    <3>4. Sound(r, n.changes[r], k)
      BY <1>1, <3>1, SoundOwn
    <3>5. /\ RowIs(r, y, k + 1)
          /\ Versioned(r) => /\ y.version = x.version + 1
                             /\ "version" \in DOMAIN n.changes[r].after /\ n.changes[r].after.version = y.version
      BY ONLY <1>1, <2>3, <3>1, <3>2, <3>4, r \in Rows, RowApplied
    <3>6. Versioned(r) => /\ x.version \in Nat /\ y.version \in Nat /\ x.version <= y.version
                          /\ "version" \in DOMAIN n.changes[r].after
                          /\ n.changes[r].after.version \in Nat /\ n.changes[r].after.version <= y.version
      BY <2>4, <3>5
    <3>7. Past(m, r, y)
      BY ONLY <1>2, <2>3, <3>6, r \in Rows, PastGrows
    <3> QED
      BY <2>1, <3>3, <3>5, <3>7
  <2>6. CASE r \notin DOMAIN ch
    <3>1. y = x
      BY <2>2, <2>6
    <3>2. RowIs(r, x, k + 1)
      BY <1>1, <2>3, LaterIs
    <3>3. Past(m, r, x)
      BY ONLY <1>2, <1>3, <2>3, <2>4, <2>6, r \in Rows, PastGrows
    <3>4. Stand(m, r) = Stand(q, r)
      <4>1. \A v \in DOMAIN q : q[v].undoOf \in 0 .. v - 1
        BY <1>1, OpsAre
      <4>2. Stand(m, r) = Stand(q, r) \cup IF r \in DOMAIN n.changes THEN {N} ELSE {}
        BY ONLY <1>2, <4>1, n.undoOf = 0, StandOwn
      <4> QED
        BY <1>3, <2>6, <4>2
    <3>5. Trace(m, r, x, b)
      BY ONLY <1>1, <1>2, <2>3, <3>4, r \in Rows, TraceLeft
    <3> QED
      BY <2>1, <3>1, <3>2, <3>3, <3>5
  <2> QED
    BY <2>5, <2>6
<1> QED
  BY <1>7, <1>8 DEF k

\* What is taken back: an operation of its own, or the undo of one.
LEMMA TakenIs ==
    ASSUME NEW q, NEW k, OpsInv(q, k), NEW o \in DOMAIN q, q[o].reversible
    PROVE  \E w \in DOMAIN q :
             /\ q[w].undoOf = 0 /\ DOMAIN q[o].changes = DOMAIN q[w].changes
             /\ \E x \in DOMAIN q[w].changes : Versioned(x)
             /\ \A r \in DOMAIN q[w].changes : r \in Rows /\ \E t \in 1 .. k - 1 : DoneAt(r, q[w].changes[r], t)
             /\ \/ w = o
                \/ /\ q[o].undoOf = w
                   /\ \A r \in DOMAIN q[w].changes : q[o].changes[r] = Back(q[w].changes[r])
<1>1. CASE q[o].undoOf = 0
  BY <1>1, OpsAre DEF OwnOp
<1>2. CASE q[o].undoOf # 0
  <2> DEFINE w == q[o].undoOf
  <2>1. BackOp(q, o) /\ w \in DOMAIN q
    BY <1>2, OpsAre
  <2>2. q[w].reversible /\ q[o].changes = Reverse(q[w].changes) /\ q[w].undoOf = 0
    BY <2>1 DEF BackOp
  <2>3. OwnOp(q, w, k)
    BY <2>1, <2>2, OpsAre
  <2>4. DOMAIN q[o].changes = DOMAIN q[w].changes
        /\ \A r \in DOMAIN q[w].changes : q[o].changes[r] = Back(q[w].changes[r])
    BY <2>2, ReverseIs
  <2> QED
    BY <2>1, <2>2, <2>3, <2>4 DEF OwnOp
<1> QED
  BY <1>1, <1>2

\* Nothing of it is planned, and it is taken back once.
LEMMA TakenOnce ==
    ASSUME RowsInv, NEW o \in DOMAIN ops, ops[o].reversible, Matches(Reverse(ops[o].changes))
    PROVE  TakenBack(ops, o) = {}
<1> DEFINE q == ops
           k == clock
           ch == q[o].changes
<1>1. OpsInv(q, k) /\ k \in Nat
  BY DEF RowsInv, OpsInv
<1>2. PICK w \in DOMAIN q :
        /\ q[w].undoOf = 0 /\ DOMAIN ch = DOMAIN q[w].changes
        /\ \E x \in DOMAIN q[w].changes : Versioned(x)
        /\ \A r \in DOMAIN q[w].changes : r \in Rows /\ \E t \in 1 .. k - 1 : DoneAt(r, q[w].changes[r], t)
        /\ \/ w = o
           \/ /\ q[o].undoOf = w
              /\ \A r \in DOMAIN q[w].changes : ch[r] = Back(q[w].changes[r])
  <2>1. o \in DOMAIN q /\ q[o].reversible
    OBVIOUS
  <2> HIDE DEF q, k
  <2>2. \E w \in DOMAIN q :
             /\ q[w].undoOf = 0 /\ DOMAIN q[o].changes = DOMAIN q[w].changes
             /\ \E x \in DOMAIN q[w].changes : Versioned(x)
             /\ \A r \in DOMAIN q[w].changes : r \in Rows /\ \E t \in 1 .. k - 1 : DoneAt(r, q[w].changes[r], t)
             /\ \/ w = o
                \/ /\ q[o].undoOf = w
                   /\ \A r \in DOMAIN q[w].changes : q[o].changes[r] = Back(q[w].changes[r])
    BY ONLY <1>1, <2>1, TakenIs
  <2> QED
    BY <2>2
<1>3. PICK r \in DOMAIN ch : Versioned(r) /\ r \in Rows
  BY <1>2
<1>4. "version" \in DOMAIN ch[r].before /\ "version" \in DOMAIN ch[r].after
  <2>1. PICK t \in 1 .. k - 1 : DoneAt(r, q[w].changes[r], t)
    BY <1>2, <1>3
  <2>2. "version" \in DOMAIN q[w].changes[r].before /\ "version" \in DOMAIN q[w].changes[r].after
    BY <1>3, <2>1 DEF DoneAt, ImageAt
  <2> QED
    BY <1>2, <1>3, <2>2, BackIs
<1>5. Fits(ch[r].after, row[r])
  <2>1. r \in DOMAIN Reverse(ch) /\ Reverse(ch)[r] = Back(ch[r])
    BY <1>3, ReverseIs
  <2> QED
    BY <2>1, MatchesFit, BackIs
<1>6. row[r].version = ch[r].after.version
  BY <1>4, <1>5 DEF Fits
<1>7. Past(q, r, row[r])
  BY <1>3 DEF RowsInv
<1> SUFFICES ASSUME NEW v \in TakenBack(q, o) PROVE FALSE
  OBVIOUS
<1>8. v \in DOMAIN q /\ q[v].undoOf = o /\ o # 0
  BY <1>1, OpsAre DEF TakenBack
<1>9. q[v].changes = Reverse(ch)
  BY <1>1, <1>8, OpsAre DEF BackOp
<1>10. r \in DOMAIN q[v].changes /\ q[v].changes[r] = Back(ch[r])
  BY <1>3, <1>9, ReverseIs
<1>11. q[v].changes[r].after.version = ch[r].after.version + 1
  BY <1>4, <1>10, BackIs
<1>12. q[v].changes[r].after.version <= row[r].version /\ q[o].changes[r].after.version \in Nat
  BY <1>3, <1>7, <1>8, <1>10 DEF Past
<1> QED
  BY <1>6, <1>11, <1>12

LEMMA TakenAsIs ==
    ASSUME RowsInv, NEW o \in DOMAIN ops, ops[o].reversible
    PROVE  Materialized(Reverse(ops[o].changes)) = Reverse(ops[o].changes)
<1> DEFINE q == ops
           k == clock
           ch == q[o].changes
<1>1. OpsInv(q, k) /\ k \in Nat
  BY DEF RowsInv, OpsInv
<1>2. PICK w \in DOMAIN q :
        /\ DOMAIN ch = DOMAIN q[w].changes
        /\ \A r \in DOMAIN q[w].changes : r \in Rows /\ \E t \in 1 .. k - 1 : DoneAt(r, q[w].changes[r], t)
        /\ \/ w = o
           \/ \A r \in DOMAIN q[w].changes : ch[r] = Back(q[w].changes[r])
  BY <1>1, TakenIs
<1>3. ASSUME NEW r \in DOMAIN ch PROVE \A c \in Times \cap DOMAIN ch[r].before : ch[r].before[c] \in Nat
  <2>1. PICK t \in 1 .. k - 1 : DoneAt(r, q[w].changes[r], t)
    BY <1>2, <1>3
  <2> DEFINE g == q[w].changes[r]
  <2>2. DOMAIN g.after = DOMAIN g.before
        /\ \A c \in Times \cap DOMAIN g.before : g.before[c] \in Nat /\ g.after[c] \in Nat
    BY <2>1 DEF DoneAt, ImageAt
  <2>3. ch[r].before = g.before \/ ch[r].before = g.after
    BY <1>2, <1>3, BackIs
  <2> HIDE DEF g
  <2> QED
    BY <2>2, <2>3
<1>4. ASSUME NEW r \in DOMAIN ch PROVE [Back(ch[r]) EXCEPT !.after = Materialize(@)] = Back(ch[r])
  <2> DEFINE h == Back(ch[r])
             A == h.after
  <2>1. A = [c \in DOMAIN ch[r].before |-> IF c = "version" THEN ch[r].after.version + 1 ELSE ch[r].before[c]]
    BY DEF Back
  <2>2. DOMAIN A = DOMAIN ch[r].before /\ A = [c \in DOMAIN A |-> A[c]]
    BY <2>1
  <2>3. \A c \in Times \cap DOMAIN A : A[c] # Now
    <3> SUFFICES ASSUME NEW c \in Times, c \in DOMAIN A PROVE A[c] # Now
      OBVIOUS
    <3>1. c # "version"
      BY DEF Times
    <3>2. A[c] = ch[r].before[c]
      BY <2>1, <2>2, <3>1
    <3>3. ch[r].before[c] \in Nat
      BY <1>3, <2>2
    <3> QED
      BY <3>2, <3>3 DEF Now
  <2>4. Materialize(A) = A
    <3> HIDE DEF A
    <3>1. Materialize(A) = [c \in DOMAIN A |-> IF c \in Times /\ A[c] = Now THEN clock ELSE A[c]]
      BY DEF Materialize
    <3>2. \A c \in DOMAIN A : (IF c \in Times /\ A[c] = Now THEN clock ELSE A[c]) = A[c]
      BY <2>3
    <3> QED
      BY <2>2, <3>1, <3>2
  <2>5. h = [kind |-> "undo", before |-> ch[r].after, after |-> A]
    BY DEF Back
  <2> HIDE DEF A
  <2>6. [h EXCEPT !.after = Materialize(@)] = [kind |-> "undo", before |-> ch[r].after, after |-> Materialize(A)]
    BY <2>5
  <2> QED
    BY <2>4, <2>5, <2>6
<1>5. Reverse(ch) = [r \in DOMAIN ch |-> Back(ch[r])]
  BY DEF Reverse, Back
<1>6. Materialized(Reverse(ch)) = [r \in DOMAIN ch |-> [Back(ch[r]) EXCEPT !.after = Materialize(@)]]
  BY <1>5 DEF Materialized
<1> QED
  BY <1>4, <1>5, <1>6

LEMMA CommitBack ==
    ASSUME RowsInv, NEW o \in DOMAIN ops, ops[o].reversible, NEW ch, ch = Reverse(ops[o].changes), Matches(ch),
           NEW n, n.undoOf = o, n.changes = Materialized(ch), n.reversible => ops[o].undoOf = 0,
           NEW m, m = Append(ops, n)
    PROVE  /\ OpsInv(m, clock + 1)
           /\ \A r \in Rows : /\ RowIs(r, Applied(n.changes)[r], clock + 1)
                              /\ Past(m, r, Applied(n.changes)[r])
                              /\ Trace(m, r, Applied(n.changes)[r], base[r])
<1> DEFINE N == Len(ops) + 1
           q == ops
           k == clock
<1>1. OpsInv(q, k) /\ k \in Nat \ {0} /\ \E S : q \in Seq(S)
  BY DEF RowsInv, OpsInv
<1>2. (\E S : m \in Seq(S)) /\ Grows(q, m, n, N)
  BY <1>1, AppendGrows
<1>3. n.changes = ch /\ TakenBack(q, o) = {}
  BY TakenAsIs, TakenOnce
<1> HIDE DEF N, q, k
<1>4. o \in DOMAIN q /\ q[o].reversible /\ ch = Reverse(q[o].changes) /\ (n.reversible => q[o].undoOf = 0)
  BY DEF q
<1>5. /\ N \in DOMAIN m /\ m[N] = n /\ o \in 1 .. N - 1 /\ o # 0 /\ m[o] = q[o]
  BY <1>1, <1>2, <1>4 DEF Grows
<1>6. BackOp(m, N)
  BY ONLY <1>3, <1>4, <1>5, n.undoOf = o DEF BackOp
<1>7. OpsInv(m, k + 1)
  BY ONLY <1>1, <1>2, <1>3, <1>5, <1>6, n.undoOf = o, OpsGrow
<1>8. PICK w \in DOMAIN q :
        /\ q[w].undoOf = 0 /\ DOMAIN q[o].changes = DOMAIN q[w].changes
        /\ \A r \in DOMAIN q[w].changes : r \in Rows /\ \E t \in 1 .. k - 1 : DoneAt(r, q[w].changes[r], t)
        /\ \/ w = o
           \/ /\ q[o].undoOf = w
              /\ \A r \in DOMAIN q[w].changes : q[o].changes[r] = Back(q[w].changes[r])
  <2>1. \E w \in DOMAIN q :
             /\ q[w].undoOf = 0 /\ DOMAIN q[o].changes = DOMAIN q[w].changes
             /\ \E x \in DOMAIN q[w].changes : Versioned(x)
             /\ \A r \in DOMAIN q[w].changes : r \in Rows /\ \E t \in 1 .. k - 1 : DoneAt(r, q[w].changes[r], t)
             /\ \/ w = o
                \/ /\ q[o].undoOf = w
                   /\ \A r \in DOMAIN q[w].changes : q[o].changes[r] = Back(q[w].changes[r])
    BY ONLY <1>1, <1>4, TakenIs
  <2> QED
    BY <2>1
<1>9. DOMAIN ch = DOMAIN q[w].changes /\ \A r \in DOMAIN ch : ch[r] = Back(q[o].changes[r])
  BY <1>4, <1>8, ReverseIs
<1>10. \A v \in DOMAIN q : q[v].undoOf \in 0 .. v - 1
  BY <1>1, OpsAre
<1>11. \A u, v \in DOMAIN q : q[u].undoOf = q[v].undoOf /\ q[u].undoOf # 0 => u = v
  BY <1>1 DEF OpsInv
<1>12. ASSUME NEW r \in Rows
       PROVE  /\ RowIs(r, Applied(n.changes)[r], k + 1)
              /\ Past(m, r, Applied(n.changes)[r])
              /\ Trace(m, r, Applied(n.changes)[r], base[r])
  <2>1. PICK x, b, y : x = row[r] /\ b = base[r] /\ y = Applied(n.changes)[r]
    OBVIOUS
  <2>2. y = IF r \in DOMAIN ch THEN Overlay(ch[r].after, x) ELSE x
    BY <1>3, <2>1 DEF Applied
  <2>3. RowIs(r, x, k) /\ Past(q, r, x) /\ Trace(q, r, x, b)
    BY <2>1 DEF RowsInv, q, k
  <2>4. Versioned(r) => x.version \in Nat
    BY <2>3 DEF RowIs
  <2>5. CASE r \in DOMAIN ch
    <3>1. PICK t \in 1 .. k - 1 : DoneAt(r, q[w].changes[r], t)
      BY <1>8, <1>9, <2>5
    <3>2. y = Overlay(ch[r].after, x) /\ Fits(ch[r].before, x)
      BY <2>1, <2>2, <2>5, MatchesFit
    <3>3. t \in 1 .. k /\ k \in Nat /\ r \in DOMAIN q[w].changes
      BY <1>1, <1>9, <2>5, <3>1
    <3>4. ASSUME w = o PROVE Sound(r, ch[r], k) /\ Trace(m, r, y, b)
      <4>1. ch[r] = Back(q[o].changes[r]) /\ ch[r].before = q[o].changes[r].after
        BY <1>9, <2>5, BackIs
      <4>2. Sound(r, ch[r], k)
        BY <3>1, <3>3, <3>4, <4>1, SoundBack
      <4>3. /\ q[o].undoOf = 0 /\ r \in DOMAIN q[o].changes
            /\ Fits(q[o].changes[r].after, x) /\ y = Overlay(Back(q[o].changes[r]).after, x)
        BY <1>8, <3>2, <3>3, <3>4, <4>1
      <4>4. Trace(m, r, y, b)
        BY ONLY <1>1, <1>2, <1>3, <1>4, <2>3, <4>3, n.undoOf = o, r \in Rows, TraceUndo
      <4> QED
        BY <4>2, <4>4
    <3>5. ASSUME w # o PROVE Sound(r, ch[r], k) /\ Trace(m, r, y, b)
      <4>1. /\ q[o].undoOf = w /\ q[o].changes[r] = Back(q[w].changes[r])
            /\ ch[r] = Back(Back(q[w].changes[r])) /\ ch[r].before = Back(q[w].changes[r]).after
        BY <1>8, <1>9, <2>5, <3>3, <3>5, BackIs
      <4>2. Sound(r, ch[r], k)
        BY <3>1, <3>3, <4>1, SoundAgain
      <4>3. /\ q[w].undoOf = 0 /\ r \in DOMAIN q[w].changes /\ w \in DOMAIN q
            /\ Fits(Back(q[w].changes[r]).after, x) /\ y = Overlay(Back(Back(q[w].changes[r])).after, x)
        BY <1>8, <3>2, <3>3, <4>1
      <4>4. Trace(m, r, y, b)
        BY ONLY <1>1, <1>2, <1>3, <1>4, <2>3, <4>1, <4>3, n.undoOf = o, r \in Rows, TraceRedo
      <4> QED
        BY <4>2, <4>4
    <3>6. Sound(r, ch[r], k) /\ Trace(m, r, y, b)
      BY <3>4, <3>5
    <3>7. /\ RowIs(r, y, k + 1)
          /\ Versioned(r) => /\ y.version = x.version + 1
                             /\ "version" \in DOMAIN ch[r].after /\ ch[r].after.version = y.version
      BY ONLY <2>3, <3>2, <3>3, <3>6, r \in Rows, RowApplied
    <3>8. Versioned(r) => /\ x.version \in Nat /\ y.version \in Nat /\ x.version <= y.version
                          /\ "version" \in DOMAIN n.changes[r].after
                          /\ n.changes[r].after.version \in Nat /\ n.changes[r].after.version <= y.version
      BY <1>3, <2>4, <3>7
    <3>9. Past(m, r, y)
      BY ONLY <1>2, <2>3, <3>8, r \in Rows, PastGrows
    <3> QED
      BY <2>1, <3>6, <3>7, <3>9
  <2>6. CASE r \notin DOMAIN ch
    <3>1. y = x
      BY <2>2, <2>6
    <3>2. RowIs(r, x, k + 1)
      BY <1>1, <2>3, LaterIs
    <3>3. Past(m, r, x)
      <4>1. /\ Versioned(r) => x.version \in Nat /\ x.version \in Nat /\ x.version <= x.version
            /\ Versioned(r) /\ r \in DOMAIN n.changes =>
                 /\ "version" \in DOMAIN n.changes[r].after
                 /\ n.changes[r].after.version \in Nat /\ n.changes[r].after.version <= x.version
        BY <1>3, <2>4, <2>6
      <4> QED
        BY ONLY <1>2, <2>3, <4>1, r \in Rows, PastGrows
    <3>4. Stand(m, r) = Stand(q, r)
      <4>0. r \notin DOMAIN q[o].changes /\ r \notin DOMAIN q[w].changes
        BY <1>8, <1>9, <2>6
      <4>1. CASE w = o
        <5>1. q[o].undoOf = 0
          BY <1>8, <4>1
        <5>2. Stand(m, r) = Stand(q, r) \ {o} /\ o \notin Stand(q, r)
          BY ONLY <1>2, <1>3, <1>4, <1>10, <4>0, <5>1, n.undoOf = o, StandUndo
        <5> QED
          BY <5>2
      <4>2. CASE w # o
        <5>1. q[o].undoOf = w /\ q[w].undoOf = 0 /\ w \in DOMAIN q
          BY <1>8, <4>2
        <5>2. Stand(m, r) = Stand(q, r) \cup IF r \in DOMAIN q[w].changes THEN {w} ELSE {}
          BY ONLY <1>2, <1>3, <1>4, <1>10, <1>11, <5>1, n.undoOf = o, StandRedo
        <5> QED
          BY <4>0, <5>2
      <4> QED
        BY <4>1, <4>2
    <3>5. Trace(m, r, x, b)
      BY ONLY <1>1, <1>2, <2>3, <3>4, r \in Rows, TraceLeft
    <3> QED
      BY <2>1, <3>1, <3>2, <3>3, <3>5
  <2> QED
    BY <2>5, <2>6
<1> QED
  BY <1>7, <1>12 DEF k

-----------------------------------------------------------------------------
(* The steps keep TraceInv *)

\* What a plan or a command is for stays, and so does what is recorded.
SameAim(i, j) == i.undoOf = j.undoOf /\ i.changes = j.changes /\ i.reversible = j.reversible
Stay(q, m) == \A o \in DOMAIN q : o \in DOMAIN m /\ m[o] = q[o]

LEMMA MeantStays ==
    /\ \A q, m, c : Stay(q, m) /\ Meant(c, q) => Meant(c, m)
    /\ \A q, i, j : SameAim(i, j) /\ Meant(i, q) => Meant(j, q)
BY DEF Stay, Meant, SameAim

LEMMA MeantGoesOn ==
    ASSUME Shapes, MeantInv, Stay(ops, ops'),
           \A j \in DOMAIN plans' : (j \in DOMAIN plans /\ SameAim(plans[j], plans'[j])) \/ Meant(plans'[j], ops),
           NEW p \in Procs, \A q \in Procs \ {p} : proc'[q] = proc[q],
           proc'[p].pc \in MovePC => Meant(proc'[p], ops),
           proc'[p].pc \in UpdatePC => proc'[p].target \in Notes
    PROVE  MeantInv'
<1>1. \A c : Meant(c, ops) => Meant(c, ops')
  BY MeantStays
<1>2. \A i \in DOMAIN plans' : Meant(plans'[i], ops')
  <2>1. \A i \in DOMAIN plans' : Meant(plans'[i], ops)
    BY MeantStays DEF MeantInv
  <2> QED
    BY <1>1, <2>1
<1>3. ASSUME NEW q \in Procs
      PROVE  /\ proc'[q].pc \in MovePC => Meant(proc'[q], ops')
             /\ proc'[q].pc \in UpdatePC => proc'[q].target \in Notes
  <2>1. /\ proc'[q].pc \in MovePC => Meant(proc'[q], ops)
        /\ proc'[q].pc \in UpdatePC => proc'[q].target \in Notes
    BY DEF MeantInv
  <2> QED
    BY <1>1, <2>1
<1> QED
  BY <1>2, <1>3 DEF MeantInv

LEMMA StaysSelf == \A q : Stay(q, q)
BY DEF Stay

\* A process goes on or starts, while the plans stay.
LEMMA MeantNext ==
    ASSUME Shapes, MeantInv, plans' = plans, ops' = ops, NEW p \in Procs, NEW c, Set(p, c),
           c.pc \in MovePC => Meant(c, ops), c.pc \in UpdatePC => c.target \in Notes
    PROVE  MeantInv'
<1>1. proc'[p] = c /\ \A q \in Procs \ {p} : proc'[q] = proc[q]
  BY SetDoes
<1>2. Stay(ops, ops') /\ \A j \in DOMAIN plans' : j \in DOMAIN plans /\ SameAim(plans[j], plans'[j])
  BY StaysSelf DEF SameAim
<1> QED
  BY <1>1, <1>2, MeantGoesOn

\* A plan is made.
LEMMA MeantPlanned ==
    ASSUME PlansInv, MeantInv, NEW new, Meant(new, ops), Planned(new), proc' = proc
    PROVE  MeantInv'
<1>1. PICK S : plans \in Seq(S)
  BY DEF PlansInv
<1>2. plans' = Append(plans, new) /\ ops' = ops
  BY DEF Planned
<1>3. /\ DOMAIN plans' = DOMAIN plans \cup {Len(plans) + 1} /\ plans'[Len(plans) + 1] = new
      /\ \A i \in DOMAIN plans : plans'[i] = plans[i]
  BY <1>1, <1>2, Appended
<1>4. \A i \in DOMAIN plans' : Meant(plans'[i], ops)
  BY <1>3 DEF MeantInv
<1> QED
  BY <1>2, <1>4 DEF MeantInv

\* The state of a plan changes, or its time passes.
LEMMA AimsStay ==
    ASSUME PlansInv, NEW i, NEW x,
           \/ plans' = [plans EXCEPT ![i].state = x]
           \/ plans' = [plans EXCEPT ![i].expired = x]
    PROVE  \A j \in DOMAIN plans' : j \in DOMAIN plans /\ SameAim(plans[j], plans'[j])
<1>1. DOMAIN plans' = DOMAIN plans
  OBVIOUS
<1> SUFFICES ASSUME NEW j \in DOMAIN plans PROVE SameAim(plans[j], plans'[j])
  BY <1>1
<1>2. DOMAIN plans[j] = {"action", "target", "changes", "reversible", "undoOf", "move", "state", "expired"}
  BY DEF PlansInv, PlanIs
<1>3. \/ plans'[j] = plans[j] \/ plans'[j] = [plans[j] EXCEPT !.state = x]
      \/ plans'[j] = [plans[j] EXCEPT !.expired = x]
  OBVIOUS
<1> QED
  BY <1>2, <1>3 DEF SameAim

LEMMA PlanDeleteMeant ==
    ASSUME Shapes, PlansInv, RowsInv, MeantInv, PlanDelete
    PROVE  MeantInv'
<1>1. PICK x \in limit.targets :
         /\ MayDelete(x) /\ Elsewhere("plan")
         /\ Planned(NewPlan("delete", x, Changes(Wanted(x)), TRUE, 0, NoMove))
  BY DEF PlanDelete
<1> DEFINE ch == Changes(Wanted(x))
           new == NewPlan("delete", x, ch, TRUE, 0, NoMove)
<1>2. x \in Rows /\ KindOf[x] \in Deletable
  BY <1>1, MutationAssumption DEF Shapes, MayDelete
<1>3. clock \in Nat /\ \A r \in Rows : RowIs(r, row[r], clock)
  BY DEF RowsInv, OpsInv
<1>4. WantsOk(Wanted(x)) /\ \E w \in Wanted(x) : w.row = x /\ ~ Holds(w)
  BY <1>1, <1>2, DeleteWants
<1>5. PlannedAre(ch) /\ x \in DOMAIN ch
  BY <1>3, <1>4, ChangesMade
<1>6. Versioned(x)
  BY <1>2 DEF Versioned, Deletable, Columns
<1>7. new.undoOf = 0 /\ new.changes = ch
  BY DEF NewPlan
<1> HIDE DEF ch
<1>8. Meant(new, ops)
  BY <1>5, <1>6, <1>7 DEF Meant
<1>9. proc' = proc
  BY <1>1 DEF Elsewhere
<1> QED
  BY <1>1, <1>8, <1>9, MeantPlanned DEF ch

LEMMA PlanUndoMeant ==
    ASSUME PlansInv, MeantInv, PlanUndo
    PROVE  MeantInv'
<1>1. PICK o \in DOMAIN ops :
         /\ ~ NotReversible(o) /\ Elsewhere("undo")
         /\ Planned(NewPlan("undo", ops[o].target, Reverse(ops[o].changes), FALSE, o, MoveOf(o)))
  BY DEF PlanUndo
<1> DEFINE new == NewPlan("undo", ops[o].target, Reverse(ops[o].changes), FALSE, o, MoveOf(o))
<1>2. new.undoOf = o /\ new.changes = Reverse(ops[o].changes) /\ new.reversible = FALSE
  BY DEF NewPlan
<1>3. Meant(new, ops)
  BY <1>1, <1>2 DEF Meant, NotReversible
<1>4. proc' = proc
  BY <1>1 DEF Elsewhere
<1> QED
  BY <1>1, <1>3, <1>4, MeantPlanned

LEMMA PlanMoveMeant ==
    ASSUME PlansInv, RowsInv, MeantInv, PlanMove
    PROVE  MeantInv'
<1>1. PICK o \in Notes \cap limit.targets, d \in Dirs :
        /\ MayMove(o, d) /\ Elsewhere("plan")
        /\ Planned(NewPlan("move", o, MoveChanges(o, d), TRUE, 0,
                           [from |-> row[o].path, to |-> d, hash |-> files[o][row[o].path]]))
  BY DEF PlanMove
<1> DEFINE m == [from |-> row[o].path, to |-> d, hash |-> files[o][row[o].path]]
           ch == MoveChanges(o, d)
           new == NewPlan("move", o, ch, TRUE, 0, m)
<1>2. o \in Rows /\ NoteSource(o) \in Rows /\ KindOf[o] = "note" /\ KindOf[NoteSource(o)] = "source"
  BY NotesAre
<1>3. DOMAIN ch = {o, NoteSource(o)}
  BY DEF MoveChanges
<1>4. ASSUME NEW r \in DOMAIN ch PROVE r \in Rows /\ ImageAt(r, ch[r], Now) /\ Versioned(r)
  <2>1. r \in Rows /\ KindOf[r] \in {"note", "source"}
    BY <1>2, <1>3
  <2>2. {"path", "version"} \subseteq Columns[KindOf[r]] /\ Versioned(r)
    BY <2>1 DEF Columns, Versioned
  <2>3. row[r].version \in Nat
    BY <2>1, <2>2 DEF RowsInv, RowIs
  <2>4. ch[r] = [kind |-> "moved", before |-> [path |-> row[r].path, version |-> row[r].version],
                 after |-> [path |-> d, version |-> row[r].version + 1]]
    BY <1>3 DEF MoveChanges
  <2> QED
    BY <2>1, <2>2, <2>3, <2>4 DEF ImageAt, IsChange, Times, Brief, Dated
<1>5. new.undoOf = 0 /\ new.changes = ch
  BY DEF NewPlan
<1>6. Meant(new, ops)
  BY <1>3, <1>4, <1>5 DEF Meant, PlannedAre
<1>7. proc' = proc
  BY <1>1 DEF Elsewhere
<1> QED
  BY <1>1, <1>6, <1>7, MeantPlanned

LEMMA ApplyMeant ==
    ASSUME Shapes, PlansInv, MeantInv, NEW p \in Procs, Apply(p)
    PROVE  MeantInv'
<1>1. PICK i \in DOMAIN plans :
        /\ Launch(p, "apply", IF plans[i].expired THEN Idle
                              ELSE Command(IF plans[i].move = NoMove THEN "verify"
                                           ELSE IF plans[i].action = "move" THEN "describe" ELSE "check", i))
        /\ plans' = IF plans[i].expired THEN [plans EXCEPT ![i].state = "expired"] ELSE plans
        /\ ops' = ops
  BY DEF Apply
<1>2. PICK c : Set(p, c) /\ (c = Idle \/ \E pc \in MovePC : c = Command(pc, i))
  BY <1>1 DEF Launch, MovePC
<1>3. (c.pc \in MovePC => Meant(c, ops)) /\ c.pc \notin UpdatePC
  <2>1. CASE c = Idle
    BY <2>1, PCsApart
  <2>2. ASSUME NEW pc \in MovePC, c = Command(pc, i) PROVE Meant(c, ops) /\ c.pc \notin UpdatePC
    <3>1. SameAim(plans[i], c) /\ c.pc = pc
      BY <2>2 DEF SameAim, Command
    <3> QED
      BY <3>1, MeantStays, PCsApart DEF MeantInv
  <2> QED
    BY <1>2, <2>1, <2>2
<1>4. proc'[p] = c /\ \A q \in Procs \ {p} : proc'[q] = proc[q]
  BY <1>2, SetDoes
<1>5. \A j \in DOMAIN plans' : j \in DOMAIN plans /\ SameAim(plans[j], plans'[j])
  <2>1. CASE plans[i].expired
    BY <1>1, <2>1, AimsStay
  <2>2. CASE ~ plans[i].expired
    BY <1>1, <2>2 DEF SameAim
  <2> QED
    BY <2>1, <2>2
<1>6. Stay(ops, ops')
  BY <1>1, StaysSelf
<1> QED
  BY <1>3, <1>4, <1>5, <1>6, MeantGoesOn

LEMMA CancelMeant ==
    ASSUME Shapes, PlansInv, MeantInv, NEW p \in Procs, Cancel(p)
    PROVE  MeantInv'
<1>1. PICK i \in DOMAIN plans : Set(p, Command("cancel", i)) /\ plans' = plans /\ ops' = ops
  BY DEF Cancel, Launch, planVars
<1>2. SameAim(plans[i], Command("cancel", i)) /\ Command("cancel", i).pc = "cancel"
  BY DEF SameAim, Command
<1>3. Meant(Command("cancel", i), ops) /\ Command("cancel", i).pc \notin UpdatePC
  BY <1>2, MeantStays DEF MeantInv, UpdatePC
<1> QED
  BY <1>1, <1>3, MeantNext

LEMMA RestoreMeant ==
    ASSUME Shapes, PlansInv, RowsInv, MeantInv, NEW p \in Procs, Restore(p)
    PROVE  MeantInv'
<1>1. PICK x \in limit.targets :
         /\ KindOf[x] \in Deletable /\ DeletesOf(x) # {}
         /\ LET o == Latest(DeletesOf(x))
            IN /\ ~ NotReversible(o)
               /\ Launch(p, "restore",
                    IF Matches(Reverse(ops[o].changes))
                    THEN [pc |-> "commit", plan |-> 0, changes |-> Reverse(ops[o].changes), undoOf |-> o,
                          reversible |-> TRUE, action |-> "restore", target |-> x, move |-> NoMove, back |-> FALSE]
                    ELSE Idle)
  BY DEF Restore
<1> DEFINE o == Latest(DeletesOf(x))
           r == [pc |-> "commit", plan |-> 0, changes |-> Reverse(ops[o].changes), undoOf |-> o,
                 reversible |-> TRUE, action |-> "restore", target |-> x, move |-> NoMove, back |-> FALSE]
<1>2. plans' = plans /\ ops' = ops /\ (Set(p, r) \/ Set(p, Idle)) /\ ~ NotReversible(o)
  BY <1>1 DEF Restore, planVars, Launch
<1>3. o \in DOMAIN ops /\ x \in DOMAIN ops[o].changes /\ ops[o].changes[x].kind \in {"deleted", "detached"}
  <2>1. /\ DeletesOf(x) \subseteq DOMAIN ops
        /\ \A u \in DeletesOf(x) : /\ x \in DOMAIN ops[u].changes
                                   /\ ops[u].changes[x].kind \in {"deleted", "detached"}
    BY DEF DeletesOf
  <2>2. o \in DeletesOf(x)
    BY <1>1, <2>1, LatestOf DEF PlansInv
  <2> QED
    BY <2>1, <2>2
<1>4. ops[o].reversible
  BY <1>2 DEF NotReversible
<1>5. r.undoOf = o /\ r.changes = Reverse(ops[o].changes) /\ r.pc = "commit"
  OBVIOUS
<1> HIDE DEF o, r
<1>6. ops[o].undoOf = 0
  <2> SUFFICES ASSUME ops[o].undoOf # 0 PROVE FALSE
    OBVIOUS
  <2>1. BackOp(ops, o)
    BY <1>3 DEF RowsInv, OpsInv
  <2>2. ops[o].changes = Reverse(ops[ops[o].undoOf].changes)
    BY <2>1 DEF BackOp
  <2>3. \A ch : \A y \in DOMAIN Reverse(ch) : Reverse(ch)[y].kind = "undo"
    BY DEF Reverse
  <2> QED
    BY <1>3, <2>2, <2>3
<1>7. Meant(r, ops) /\ r.pc \notin UpdatePC
  BY <1>3, <1>4, <1>5, <1>6 DEF Meant, UpdatePC
<1>8. Idle.pc \notin MovePC /\ Idle.pc \notin UpdatePC
  BY PCsApart
<1> QED
  BY <1>2, <1>7, <1>8, MeantNext

LEMMA ModerateMeant ==
    ASSUME Shapes, RowsInv, MeantInv, NEW p \in Procs, Moderate(p)
    PROVE  MeantInv'
<1>1. PICK x \in limit.targets :
          /\ KindOf[x] \in DOMAIN Verdicts
          /\ \E v \in Verdicts[KindOf[x]] :
              LET why == x \o v
                  desired == IF KindOf[x] = "claim" THEN "needs_review" ELSE "stale"
                  W == {Want(x, v, "moderated", <<>>)} \cup TopicsAndArtifacts(AffectedTopics(x), why, desired)
                       \cup WantAll(In("answer", {"active"}), "stale", "invalidated",
                                    [stale_at |-> Now, stale_reason |-> why])
              IN Launch(p, "moderate",
                   [pc |-> "commit", plan |-> 0, changes |-> Changes(W), undoOf |-> 0, reversible |-> FALSE,
                    action |-> "moderate", target |-> x, move |-> NoMove, back |-> FALSE])
  BY DEF Moderate
<1>2. PICK v \in Verdicts[KindOf[x]] :
              LET why == x \o v
                  desired == IF KindOf[x] = "claim" THEN "needs_review" ELSE "stale"
                  W == {Want(x, v, "moderated", <<>>)} \cup TopicsAndArtifacts(AffectedTopics(x), why, desired)
                       \cup WantAll(In("answer", {"active"}), "stale", "invalidated",
                                    [stale_at |-> Now, stale_reason |-> why])
              IN Launch(p, "moderate",
                   [pc |-> "commit", plan |-> 0, changes |-> Changes(W), undoOf |-> 0, reversible |-> FALSE,
                    action |-> "moderate", target |-> x, move |-> NoMove, back |-> FALSE])
  BY <1>1
<1> DEFINE why == x \o v
           desired == IF KindOf[x] = "claim" THEN "needs_review" ELSE "stale"
           A == {Want(x, v, "moderated", <<>>)}
           B == TopicsAndArtifacts(AffectedTopics(x), why, desired)
           C == WantAll(In("answer", {"active"}), "stale", "invalidated", [stale_at |-> Now, stale_reason |-> why])
           W == A \cup B \cup C
           r == [pc |-> "commit", plan |-> 0, changes |-> Changes(W), undoOf |-> 0, reversible |-> FALSE,
                 action |-> "moderate", target |-> x, move |-> NoMove, back |-> FALSE]
<1>3. x \in Rows /\ KindOf[x] \in {"claim", "relation", "entity"}
  BY <1>1, MutationAssumption DEF Shapes, Verdicts
<1>4. WantsOk(A)
  BY <1>3 DEF WantsOk, WantOk, Want, Columns, Brief, Dated, Times
<1>5. WantsOk(B)
  <2>1. AffectedTopics(x) \in SUBSET Rows /\ \A t \in AffectedTopics(x) : KindOf[t] = "topic"
    BY TopicsAre DEF AffectedTopics
  <2> QED
    BY <2>1, TopicWants
<1>6. WantsOk(C)
  <2> SUFFICES ASSUME NEW a \in In("answer", {"active"})
               PROVE  WantOk(Want(a, "stale", "invalidated", [stale_at |-> Now, stale_reason |-> why]))
    BY DEF WantAll, WantsOk
  <2>1. a \in Rows /\ KindOf[a] = "answer"
    BY DEF In
  <2> QED
    BY <2>1 DEF WantOk, Want, Columns, Brief, Dated, Times, Off
<1>7. Launch(p, "moderate", r)
  BY <1>2
<1> HIDE DEF A, B, C
<1>8. WantsOk(W)
  BY <1>4, <1>5, <1>6 DEF WantsOk
<1>9. PlannedAre(Changes(W))
  <2>1. clock \in Nat /\ \A y \in Rows : RowIs(y, row[y], clock)
    BY DEF RowsInv, OpsInv
  <2> QED
    BY <1>8, <2>1, ChangesMade
<1>10. r.undoOf = 0 /\ r.changes = Changes(W) /\ r.reversible = FALSE /\ r.pc = "commit"
  OBVIOUS
<1> HIDE DEF r, W
<1>11. Meant(r, ops) /\ r.pc \notin UpdatePC
  BY <1>9, <1>10 DEF Meant, UpdatePC
<1>12. plans' = plans /\ ops' = ops /\ Set(p, r)
  BY <1>7 DEF Moderate, planVars, Launch
<1> QED
  BY <1>11, <1>12, MeantNext

LEMMA GoesOnMeant ==
    ASSUME Shapes, MeantInv, NEW p \in Procs, \/ Verify(p) \/ Describe(p) \/ HashSource(p)
                                              \/ CheckUndo(p) \/ Rename(p) \/ MoveBack(p)
    PROVE  MeantInv'
<1> DEFINE c == proc[p]
<1>1. c.pc \in MovePC /\ c.pc \in PlanPC /\ c.pc \notin UpdatePC
  BY DEF Verify, Describe, HashSource, CheckUndo, Rename, MoveBack, At, MovePC, PlanPC, UpdatePC
<1>2. DOMAIN c = {"pc", "plan", "changes", "undoOf", "reversible", "action", "target", "move", "back"}
  BY <1>1, ShapeOf DEF Shapes, PlanShape, Has
<1>3. plans' = plans /\ ops' = ops
  BY DEF Verify, Describe, HashSource, CheckUndo, Rename, MoveBack, planVars
<1>4. PICK d : Set(p, d) /\ \/ d = Idle
                            \/ \E pc \in MovePC : d = [c EXCEPT !.pc = pc]
                            \/ \E pc \in MovePC : d = [c EXCEPT !.pc = pc, !.back = TRUE]
  BY DEF Verify, Describe, HashSource, CheckUndo, Rename, MoveBack, Move, Goto, Conflict, Finish, Become, MovePC
<1>5. d = Idle \/ (SameAim(c, d) /\ d.pc \in MovePC)
  BY <1>2, <1>4 DEF SameAim
<1>6. (d.pc \in MovePC => Meant(d, ops)) /\ d.pc \notin UpdatePC
  BY <1>1, <1>5, PCsApart, MeantStays DEF MeantInv
<1> QED
  BY <1>3, <1>4, <1>6, MeantNext

LEMMA UpdatesMeant ==
    ASSUME Shapes, MeantInv, NEW p \in Procs, Update(p) \/ WriteNote(p) \/ SyncNote(p) \/ RecordNote(p)
    PROVE  MeantInv'
<1>1. plans' = plans /\ ops' = ops
  BY DEF Update, WriteNote, SyncNote, RecordNote, planVars, Put, PutAll
<1>2. \E r : Set(p, r) /\ r.pc \notin MovePC /\ (r.pc \in UpdatePC => r.target \in Notes)
  <2>1. CASE Update(p)
    BY <2>1 DEF Update, Launch, MovePC
  <2>2. CASE ~ Update(p)
    <3>1. proc[p].pc \in UpdatePC
      BY <2>2 DEF WriteNote, SyncNote, RecordNote, At, UpdatePC
    <3>2. PlanShape(proc[p]) /\ proc[p].target \in Notes
      BY <3>1, ShapeOf DEF Shapes, PlanPC, MeantInv
    <3>3. \A pc \in UpdatePC : /\ [proc[p] EXCEPT !.pc = pc].pc = pc
                               /\ [proc[p] EXCEPT !.pc = pc].target = proc[p].target
      BY <3>1, <3>2 DEF PlanShape, Has, UpdatePC, MovePC
    <3>4. Set(p, Idle) \/ \E pc \in UpdatePC : Set(p, [proc[p] EXCEPT !.pc = pc])
      BY <2>2 DEF WriteNote, SyncNote, RecordNote, Move, Goto, Finish, Become, UpdatePC
    <3>5. CASE Set(p, Idle)
      <4>1. Idle.pc \notin MovePC /\ Idle.pc \notin UpdatePC
        BY PCsApart
      <4> QED
        BY <3>5, <4>1
    <3>6. ASSUME NEW pc \in UpdatePC, NEW r, r = [proc[p] EXCEPT !.pc = pc], Set(p, r)
          PROVE  Set(p, r) /\ r.pc \notin MovePC /\ (r.pc \in UpdatePC => r.target \in Notes)
      BY <3>2, <3>3, <3>6, PCsApart
    <3> QED
      BY <3>4, <3>5, <3>6
  <2> QED
    BY <2>1, <2>2
<1> QED
  BY <1>1, <1>2, MeantNext

LEMMA ExpireMeant ==
    ASSUME PlansInv, MeantInv, Expire
    PROVE  MeantInv'
<1>1. PICK i \in DOMAIN plans :
         plans' = [plans EXCEPT ![i].expired = TRUE] /\ ops' = ops /\ proc' = proc
  BY DEF Expire, Elsewhere
<1>2. \A j \in DOMAIN plans' : Meant(plans'[j], ops)
  BY <1>1, AimsStay, MeantStays DEF MeantInv
<1> QED
  BY <1>1, <1>2 DEF MeantInv

LEMMA CancelWriteMeant ==
    ASSUME Shapes, PlansInv, MeantInv, NEW p \in Procs, CancelWrite(p)
    PROVE  MeantInv'
<1>1. /\ plans' = [plans EXCEPT ![proc[p].plan].state = "cancelled"] /\ ops' = ops /\ Set(p, Idle)
  BY DEF CancelWrite, Finish, Become
<1>2. proc'[p] = Idle /\ \A q \in Procs \ {p} : proc'[q] = proc[q]
  BY <1>1, SetDoes
<1>3. \A j \in DOMAIN plans' : j \in DOMAIN plans /\ SameAim(plans[j], plans'[j])
  BY <1>1, AimsStay
<1> QED
  BY <1>1, <1>2, <1>3, PCsApart, StaysSelf, MeantGoesOn

\* The transaction: the rows and the operation, or a conflict.
LEMMA CommitKeepsTrace ==
    ASSUME Shapes, PlansInv, RowsInv, MeantInv, NEW p \in Procs, Commit(p)
    PROVE  RowsInv' /\ MeantInv'
<1>1. PICK c : c = proc[p]
  OBVIOUS
<1> DEFINE ch == Materialized(c.changes)
           n == [plan |-> c.plan, action |-> c.action, target |-> c.target,
                 changes |-> ch, undoOf |-> c.undoOf, reversible |-> c.reversible]
<1>2. c.pc = "commit" /\ c.pc \in MovePC /\ c.pc \in PlanPC
  BY <1>1 DEF Commit, At, MovePC, PlanPC
<1>3. Meant(c, ops)
  BY <1>1, <1>2 DEF MeantInv
<1>4. base' = base
  BY DEF Commit
<1>5. CASE /\ Matches(c.changes) /\ row' = Applied(ch) /\ Recorded(c, ch)
           /\ clock' = clock + 1 /\ Finish(p)
  <2>1. /\ ops' = Append(ops, n)
        /\ plans' = plans \/ plans' = [plans EXCEPT ![c.plan].state = "applied"]
    BY <1>5 DEF Recorded
  <2>2. n.undoOf = c.undoOf /\ n.changes = ch /\ n.reversible = c.reversible
    OBVIOUS
  <2> HIDE DEF n, ch
  <2>3. /\ OpsInv(ops', clock + 1)
        /\ \A r \in Rows : /\ RowIs(r, Applied(ch)[r], clock + 1)
                           /\ Past(ops', r, Applied(ch)[r])
                           /\ Trace(ops', r, Applied(ch)[r], base[r])
    <3>1. CASE /\ c.undoOf = 0 /\ PlannedAre(c.changes)
               /\ c.reversible => \E x \in DOMAIN c.changes : Versioned(x)
      <4>1. n.undoOf = 0 /\ n.changes = Materialized(c.changes)
            /\ (n.reversible => \E x \in DOMAIN c.changes : Versioned(x))
        BY <2>2, <3>1 DEF ch
      <4>2. /\ OpsInv(ops', clock + 1)
            /\ \A r \in Rows : /\ RowIs(r, Applied(n.changes)[r], clock + 1)
                               /\ Past(ops', r, Applied(n.changes)[r])
                               /\ Trace(ops', r, Applied(n.changes)[r], base[r])
        BY <1>5, <2>1, <3>1, <4>1, CommitOwn
      <4> QED
        BY <2>2, <4>2
    <3>2. CASE /\ c.undoOf \in DOMAIN ops /\ ops[c.undoOf].reversible
               /\ c.changes = Reverse(ops[c.undoOf].changes)
               /\ c.reversible => ops[c.undoOf].undoOf = 0
      <4>1. n.undoOf = c.undoOf /\ n.changes = Materialized(c.changes)
            /\ (n.reversible => ops[c.undoOf].undoOf = 0)
        BY <2>2, <3>2 DEF ch
      <4>2. /\ OpsInv(ops', clock + 1)
            /\ \A r \in Rows : /\ RowIs(r, Applied(n.changes)[r], clock + 1)
                               /\ Past(ops', r, Applied(n.changes)[r])
                               /\ Trace(ops', r, Applied(n.changes)[r], base[r])
        BY <1>5, <2>1, <3>2, <4>1, CommitBack
      <4> QED
        BY <2>2, <4>2
    <3> QED
      BY <1>3, <3>1, <3>2 DEF Meant
  <2>4. RowsInv'
    <3>1. DOMAIN row' = Rows
      BY <1>5 DEF Applied
    <3> QED
      BY <1>4, <1>5, <2>3, <3>1 DEF RowsInv
  <2>5. Stay(ops, ops')
    <3>1. PICK S : ops \in Seq(S)
      BY DEF PlansInv
    <3> QED
      BY <2>1, <3>1, Appended DEF Stay
  <2>6. \A j \in DOMAIN plans' : j \in DOMAIN plans /\ SameAim(plans[j], plans'[j])
    BY <2>1, AimsStay DEF SameAim
  <2>7. proc'[p] = Idle /\ \A q \in Procs \ {p} : proc'[q] = proc[q]
    BY <1>5, SetDoes DEF Finish, Become
  <2>8. MeantInv'
    BY <2>5, <2>6, <2>7, PCsApart, MeantGoesOn
  <2> QED
    BY <2>4, <2>8
<1>6. CASE Conflict(p) /\ UNCHANGED <<row, ops, plans, clock>>
  <2>1. RowsInv'
    BY <1>4, <1>6 DEF RowsInv
  <2>2. DOMAIN c = {"pc", "plan", "changes", "undoOf", "reversible", "action", "target", "move", "back"}
        /\ c.pc \notin UpdatePC
    BY <1>1, <1>2, ShapeOf, PCsApart DEF Shapes, PlanShape, Has
  <2>3. PICK d : Set(p, d) /\ (d = Idle \/ d = [c EXCEPT !.pc = "back"])
    BY <1>1, <1>6 DEF Conflict, Finish, Become, Move, Goto
  <2>4. d = Idle \/ (SameAim(c, d) /\ d.pc = "back")
    BY <2>2, <2>3 DEF SameAim
  <2>5. (d.pc \in MovePC => Meant(d, ops)) /\ d.pc \notin UpdatePC
    BY <1>3, <2>4, PCsApart, MeantStays DEF UpdatePC
  <2>6. MeantInv'
    BY <1>6, <2>3, <2>5, MeantNext
  <2> QED
    BY <2>1, <2>6
<1> QED
  BY <1>1, <1>5, <1>6 DEF Commit

LEMMA TraceStep ==
    ASSUME Shapes, PlansInv, TraceInv, Step
    PROVE  TraceInv'
<1>1. RowsInv /\ MeantInv
  BY DEF TraceInv
<1>2. ASSUME row' = row, base' = base, ops' = ops, clock' = clock PROVE RowsInv'
  BY <1>1, <1>2 DEF RowsInv
<1>3. CASE ~ NoteAndPlanStep
  <2>1. planVars' = planVars /\ \A q \in Procs : PlanShape(proc'[q]) => proc'[q] = proc[q]
    BY <1>3, PlanFrame
  <2>2. \A q \in Procs : proc'[q].pc \in PlanPC => proc'[q] = proc[q]
    <3>1. Shapes'
      BY ShapesStep
    <3> QED
      BY <2>1, <3>1, ShapeOf DEF Shapes
  <2>3. RowsInv'
    BY <1>2, <2>1 DEF planVars
  <2>4. MeantInv'
    BY <1>1, <2>1, <2>2 DEF MeantInv, planVars, PlanPC
  <2> QED
    BY <2>3, <2>4 DEF TraceInv
<1>4. CASE Touch
  <2>1. plans' = plans /\ ops' = ops /\ proc' = proc
    BY <1>4, TouchPuts DEF Touch, Elsewhere, PutAll
  <2>2. MeantInv'
    BY <1>1, <2>1 DEF MeantInv
  <2> QED
    BY <1>1, <1>4, <2>2, TouchKeepsRows DEF TraceInv
<1>5. CASE PlanDelete \/ PlanUndo \/ Expire \/ PlanMove
  <2>1. row' = row /\ base' = base /\ ops' = ops /\ clock' = clock
    BY <1>5 DEF PlanDelete, PlanUndo, Expire, PlanMove, Planned
  <2>2. MeantInv'
    BY <1>1, <1>5, PlanDeleteMeant, PlanUndoMeant, PlanMoveMeant, ExpireMeant
  <2> QED
    BY <1>2, <2>1, <2>2 DEF TraceInv
<1>6. ASSUME NEW p \in Procs, Commit(p) PROVE TraceInv'
  BY <1>1, <1>6, CommitKeepsTrace DEF TraceInv
<1>7. ASSUME NEW p \in Procs, SyncNote(p) \/ RecordNote(p) PROVE TraceInv'
  <2>1. proc[p].target \in Notes
    BY <1>1, <1>7 DEF MeantInv, SyncNote, RecordNote, At, UpdatePC
  <2>2. RowsInv'
    BY <1>1, <1>7, <2>1, SyncKeepsRows, RecordKeepsRows
  <2>3. MeantInv'
    BY <1>1, <1>7, UpdatesMeant
  <2> QED
    BY <2>2, <2>3 DEF TraceInv
<1>8. ASSUME NEW p \in Procs,
             \/ Apply(p) \/ Cancel(p) \/ CancelWrite(p) \/ Restore(p) \/ Moderate(p)
             \/ Verify(p) \/ Describe(p) \/ HashSource(p) \/ CheckUndo(p) \/ Rename(p) \/ MoveBack(p)
             \/ Update(p) \/ WriteNote(p)
      PROVE  TraceInv'
  <2>1. row' = row /\ base' = base /\ ops' = ops /\ clock' = clock
    BY <1>8 DEF Apply, Verify, Cancel, CancelWrite, Restore, Moderate, Describe, HashSource,
       CheckUndo, Rename, MoveBack, Update, WriteNote, planVars
  <2>2. MeantInv'
    BY <1>1, <1>8, ApplyMeant, CancelMeant, CancelWriteMeant, RestoreMeant, ModerateMeant, GoesOnMeant,
       UpdatesMeant
  <2> QED
    BY <1>2, <2>1, <2>2 DEF TraceInv
<1>9. ASSUME NEW p \in Procs, PlanStep(p) \/ NoteStep(p) PROVE TraceInv'
  BY <1>6, <1>7, <1>8, <1>9 DEF PlanStep, NoteStep
<1> QED
  BY <1>3, <1>4, <1>5, <1>9 DEF NoteAndPlanStep

LEMMA TraceInit ==
    ASSUME Init
    PROVE  TraceInv
<1>1. /\ row = [r \in Rows |-> [c \in Columns[KindOf[r]] |->
               CASE c = "state" -> "active" [] c = "version" -> 1 [] c \in Times -> 0
                 [] c = "stale_reason" -> "none" [] c = "path" -> Home]]
      /\ base = row /\ plans = <<>> /\ ops = <<>> /\ clock = 1
  BY DEF Init, MutationInit
<1>2. DOMAIN ops = {} /\ DOMAIN plans = {} /\ ops \in Seq({})
  BY <1>1
<1>3. OpsInv(ops, clock)
  BY <1>1, <1>2 DEF OpsInv
<1>4. ASSUME NEW r \in Rows
      PROVE  /\ RowIs(r, row[r], clock) /\ DOMAIN base[r] = Columns[KindOf[r]]
             /\ Past(ops, r, row[r]) /\ Trace(ops, r, row[r], base[r])
  <2>1. PICK x : x = row[r]
    OBVIOUS
  <2>2. base[r] = x /\ DOMAIN x = Columns[KindOf[r]]
    BY <1>1, <2>1
  <2>3. /\ "state" \in DOMAIN x => x.state = "active"
        /\ "version" \in DOMAIN x => x.version = 1
        /\ \A c \in Times \cap DOMAIN x : x[c] = 0
    BY <1>1, <2>1 DEF Times
  <2>4. KindOf[r] \in Brief => "state" \in Columns[KindOf[r]]
    BY DEF Brief, Columns
  <2>5. RowIs(r, x, 1)
    BY <2>2, <2>3, <2>4 DEF RowIs, Versioned, Brief
  <2>6. Past(ops, r, x)
    BY <1>2 DEF Past
  <2>7. Stand(ops, r) = {}
    BY <1>2 DEF Stand
  <2>8. Trace(ops, r, x, x)
    BY <2>7 DEF Trace, Agree, Returns, Fades, Switched, Stacked
  <2> QED
    BY <1>1, <2>1, <2>2, <2>5, <2>6, <2>8
<1>5. RowsInv
  BY <1>1, <1>3, <1>4 DEF RowsInv
<1>6. MeantInv
  <2>1. \A p \in Procs : proc[p] = Idle
    BY DEF Init, WorkInit
  <2> QED
    BY <1>2, <2>1, PCsApart DEF MeantInv
<1> QED
  BY <1>5, <1>6 DEF TraceInv

LEMMA TraceHolds == Spec => []TraceInv
<1>1. TraceInv /\ NotePlanInv /\ [Next]_vars => TraceInv'
  <2>1. ASSUME TraceInv, UNCHANGED vars PROVE TraceInv'
    BY <2>1 DEF TraceInv, RowsInv, MeantInv, vars, workVars, planVars
  <2>2. ASSUME TraceInv, NotePlanInv, Next PROVE TraceInv'
    BY <2>2, TraceStep DEF NotePlanInv, Next
  <2> QED
    BY <2>1, <2>2
<1> QED
  BY <1>1, TraceInit, NotePlanHolds, PTL DEF Spec

\* A row that every statement of the other commands treated alike is the same with
\* the changes they made and with those they would have made.
SwayInv == \A r \in Rows : r \notin swayed => without[r] = base[r]

LEMMA PutsSway ==
    ASSUME SwayInv, NEW R, NEW S, NEW image, PutAll(R, S, image)
    PROVE  SwayInv'
<1>1. /\ base' = [r \in Rows |-> IF r \in R THEN Overlay(image, base[r]) ELSE base[r]]
      /\ without' = [r \in Rows |-> IF r \in S THEN Overlay(image, without[r]) ELSE without[r]]
      /\ swayed' = swayed \cup (R \ S) \cup (S \ R)
  BY DEF PutAll
<1>2. ASSUME NEW r \in Rows, r \notin swayed' PROVE without'[r] = base'[r]
  <2>1. without[r] = base[r] /\ (r \in R <=> r \in S)
    BY <1>1, <1>2 DEF SwayInv
  <2> QED
    BY <1>1, <2>1
<1> QED
  BY <1>2 DEF SwayInv

LEMMA SwayStep ==
    ASSUME Shapes, SwayInv, Step
    PROVE  SwayInv'
<1>1. ASSUME base' = base, without' = without, swayed' = swayed PROVE SwayInv'
  BY <1>1 DEF SwayInv
<1>2. CASE ~ NoteAndPlanStep
  BY <1>1, <1>2, PlanFrame DEF planVars
<1>3. CASE Touch
  BY <1>3, TouchPuts, PutsSway
<1>4. CASE PlanDelete \/ PlanUndo \/ Expire \/ PlanMove
  BY <1>1, <1>4 DEF PlanDelete, PlanUndo, Expire, PlanMove, Planned
<1>5. ASSUME NEW p \in Procs, SyncNote(p) PROVE SwayInv'
  <2>1. UNCHANGED planVars \/ \E R, S, image : PutAll(R, S, image)
    BY <1>5 DEF SyncNote, Put
  <2> QED
    BY <1>1, <2>1, PutsSway DEF planVars
<1>6. ASSUME NEW p \in Procs, PlanStep(p) \/ NoteStep(p), ~ SyncNote(p) PROVE SwayInv'
  <2>1. base' = base /\ without' = without /\ swayed' = swayed
    BY <1>6 DEF PlanStep, NoteStep, Apply, Commit, Verify, Cancel, CancelWrite, Restore, Moderate,
       Describe, HashSource, CheckUndo, Rename, MoveBack, Update, WriteNote, RecordNote, planVars
  <2> QED
    BY <1>1, <2>1
<1> QED
  BY <1>2, <1>3, <1>4, <1>5, <1>6 DEF NoteAndPlanStep

LEMMA SwayHolds == Spec => []SwayInv
<1>1. Init => SwayInv
  BY DEF Init, MutationInit, SwayInv
<1>2. SwayInv /\ NotePlanInv /\ [Next]_vars => SwayInv'
  <2>1. ASSUME SwayInv, UNCHANGED vars PROVE SwayInv'
    BY <2>1 DEF SwayInv, vars, planVars
  <2>2. ASSUME SwayInv, NotePlanInv, Next PROVE SwayInv'
    BY <2>2, SwayStep DEF NotePlanInv, Next
  <2> QED
    BY <2>1, <2>2
<1> QED
  BY <1>1, <1>2, NotePlanHolds, PTL DEF Spec

\* What stands: taken back by nothing, or by an undo that is taken back; what takes
\* back an undo is not taken back.
LEMMA StandingIs ==
    ASSUME RowsInv
    PROVE  {o \in Standing : ops[o].undoOf = 0} = {o \in DOMAIN ops : ops[o].undoOf = 0 /\ Stays(ops, o)}
<1> DEFINE Fixed(f) == f = [o \in DOMAIN ops |-> \A u \in UndoneBy(o) : ~ f[u]]
           g == [o \in DOMAIN ops |-> Stays(ops, o)]
           f == CHOOSE h : Fixed(h)
<1>1. \A o \in DOMAIN ops : IF ops[o].undoOf = 0 THEN TRUE ELSE BackOp(ops, o)
  BY DEF RowsInv, OpsInv
<1>2. \A o : UndoneBy(o) = TakenBack(ops, o)
  BY DEF UndoneBy, TakenBack
<1>3. ASSUME NEW o \in DOMAIN ops, NEW u \in UndoneBy(o)
      PROVE  /\ u \in DOMAIN ops /\ ops[u].undoOf = o /\ ops[u].undoOf # 0
             /\ \A v \in UndoneBy(u) : UndoneBy(v) = {}
  <2>0. \E S : ops \in Seq(S)
    BY DEF RowsInv, OpsInv
  <2>1. u \in DOMAIN ops /\ ops[u].undoOf = o /\ o # 0
    BY <2>0 DEF UndoneBy
  <2> SUFFICES ASSUME NEW v \in UndoneBy(u), NEW w \in UndoneBy(v) PROVE FALSE
    BY <2>1
  <2>2. v \in DOMAIN ops /\ ops[v].undoOf = u /\ w \in DOMAIN ops /\ ops[w].undoOf = v /\ u # 0 /\ v # 0
    BY <2>0, <2>1 DEF UndoneBy
  <2>3. BackOp(ops, v) /\ BackOp(ops, w)
    BY <1>1, <2>2
  <2>4. ops[v].reversible
    BY <2>2, <2>3 DEF BackOp
  <2>5. ops[u].undoOf = 0
    BY <2>2, <2>3, <2>4 DEF BackOp
  <2> QED
    BY <2>1, <2>5
<1>4. ASSUME NEW o \in DOMAIN ops PROVE Stays(ops, o) <=> \A u \in UndoneBy(o) : ~ Stays(ops, u)
  <2>1. Stays(ops, o) <=> \A u \in UndoneBy(o) : UndoneBy(u) # {}
    BY <1>2 DEF Stays
  <2>2. ASSUME NEW u \in UndoneBy(o) PROVE UndoneBy(u) # {} <=> ~ Stays(ops, u)
    BY <1>2, <1>3 DEF Stays
  <2> QED
    BY <2>1, <2>2
<1>5. Fixed(g)
  <2>1. \A o : UndoneBy(o) \subseteq DOMAIN ops
    BY DEF UndoneBy
  <2>2. \A o \in DOMAIN ops : g[o] = \A u \in UndoneBy(o) : ~ g[u]
    <3> SUFFICES ASSUME NEW o \in DOMAIN ops PROVE g[o] = \A u \in UndoneBy(o) : ~ g[u]
      OBVIOUS
    <3>1. \A u \in DOMAIN ops : g[u] = Stays(ops, u)
      OBVIOUS
    <3>2. (\A u \in UndoneBy(o) : ~ Stays(ops, u)) <=> (\A u \in UndoneBy(o) : ~ g[u])
      BY <2>1, <3>1
    <3> HIDE DEF g
    <3> QED
      BY <1>4, <3>1, <3>2 DEF Stays
  <2> QED
    BY <2>2
<1>6. Fixed(f)
  <2> HIDE DEF Fixed
  <2> QED
    BY <1>5
<1>7. Standing = {o \in DOMAIN ops : f[o]}
  BY DEF Standing
<1>8. ASSUME NEW o \in DOMAIN ops PROVE f[o] <=> \A u \in UndoneBy(o) : ~ f[u]
  BY <1>6
<1> HIDE DEF f, Fixed
<1>9. ASSUME NEW o \in DOMAIN ops PROVE f[o] <=> Stays(ops, o)
  <2>1. ASSUME NEW u \in UndoneBy(o) PROVE f[u] <=> UndoneBy(u) = {}
    <3>1. u \in DOMAIN ops /\ \A v \in UndoneBy(u) : v \in DOMAIN ops /\ UndoneBy(v) = {}
      BY <1>3 DEF UndoneBy
    <3>2. \A v \in UndoneBy(u) : f[v]
      BY <1>8, <3>1
    <3> QED
      BY <1>8, <3>1, <3>2
  <2>2. f[o] <=> \A u \in UndoneBy(o) : UndoneBy(u) # {}
    BY <1>8, <2>1
  <2> QED
    BY <1>2, <2>2 DEF Stays
<1> QED
  BY <1>7, <1>9

\* A row that no standing operation has changed is what the changes alone that other
\* commands made to it have left, every column but its version: whatever was deleted,
\* moved, undone and restored in which order, with plans that were made before and
\* applied after, moderations and the writes of all other commands in between
\* (applyChanges, restoreDeletedResource).  It is also what those commands would have
\* left without any operation, unless a statement of theirs changed it, or passed it
\* by, on account of one (invalidateAnswers passes by what a plan holds stale).
THEOREM UndoneIsGone == Spec => []UndoneLeavesNoTrace
<1>1. ASSUME TraceInv, SwayInv PROVE UndoneLeavesNoTrace
  <2> DEFINE S == {x \in Standing : ops[x].undoOf = 0}
             changed == UNION {DOMAIN ops[o].changes : o \in S}
  <2>1. RowsInv
    BY <1>1 DEF TraceInv
  <2>2. S = {o \in DOMAIN ops : ops[o].undoOf = 0 /\ Stays(ops, o)}
    BY <2>1, StandingIs
  <2> HIDE DEF S
  <2> SUFFICES ASSUME NEW r \in Rows, r \notin changed
               PROVE  \A c \in Columns[KindOf[r]] \ {"version"} :
                          row[r][c] = base[r][c] /\ (r \notin swayed => row[r][c] = without[r][c])
    BY DEF UndoneLeavesNoTrace, S
  <2>3. Stand(ops, r) = {}
    BY <2>2 DEF Stand
  <2>4. Agree(r, row[r], base[r])
    BY <2>1, <2>3 DEF RowsInv, Trace
  <2>5. r \notin swayed => without[r] = base[r]
    BY <1>1 DEF SwayInv
  <2> QED
    BY <2>4, <2>5 DEF Agree
<1> QED
  BY <1>1, TraceHolds, SwayHolds, PTL

-----------------------------------------------------------------------------
(* The types of Operations                                                *)

\* A plan is in one of its states, a file has a content, an update has one in hand,
\* and one command has the maintenance lock or none has it.
States == {"ready", "applied", "expired", "cancelled"}
FilesAre == files \in [Notes -> [Dirs -> Bodies \cup {0}]]
HandsInv == \A p \in Procs : proc[p].pc \in UpdatePC => proc[p].body \in Bodies
KindInv == (\A i \in DOMAIN plans : plans[i].state \in States) /\ FilesAre /\ HandsInv
HoldInv == holder = {} \/ \E p \in Procs : holder = {p}

LEMMA StateMarked ==
    ASSUME PlansInv, NEW i, NEW s \in States, \A j \in DOMAIN plans : plans[j].state \in States
    PROVE  LET m == [plans EXCEPT ![i].state = s]
               e == [plans EXCEPT ![i].expired = TRUE]
           IN /\ \A j \in DOMAIN m : m[j].state \in States
              /\ \A j \in DOMAIN e : e[j].state \in States
<1> DEFINE m == [plans EXCEPT ![i].state = s]
           e == [plans EXCEPT ![i].expired = TRUE]
<1>1. \A j \in DOMAIN plans : DOMAIN plans[j] =
        {"action", "target", "changes", "reversible", "undoOf", "move", "state", "expired"}
  BY DEF PlansInv, PlanIs
<1>2. DOMAIN m = DOMAIN plans /\ DOMAIN e = DOMAIN plans
  OBVIOUS
<1>3. ASSUME NEW j \in DOMAIN plans PROVE m[j].state \in States /\ e[j].state \in States
  <2>1. CASE j # i
    BY <2>1, <1>3
  <2>2. CASE j = i
    <3>1. m[i] = [plans[i] EXCEPT !.state = s] /\ e[i] = [plans[i] EXCEPT !.expired = TRUE]
      BY <2>2, <1>3
    <3>2. m[i].state = s /\ e[i].state = plans[i].state
      BY <1>1, <1>3, <2>2, <3>1
    <3> QED
      BY <2>2, <3>2, <1>3
  <2> QED
    BY <2>1, <2>2
<1> QED
  BY <1>2, <1>3

LEMMA StateAdded ==
    ASSUME PlansInv, NEW new, new.state = "ready", plans' = Append(plans, new),
           \A j \in DOMAIN plans : plans[j].state \in States
    PROVE  \A j \in DOMAIN plans' : plans'[j].state \in States
<1>1. PICK S : plans \in Seq(S)
  BY DEF PlansInv
<1>2. /\ DOMAIN plans' = DOMAIN plans \cup {Len(plans) + 1} /\ plans'[Len(plans) + 1] = new
      /\ \A i \in DOMAIN plans : plans'[i] = plans[i]
  BY <1>1, Appended
<1> QED
  BY <1>2 DEF States

LEMMA StatesStay ==
    ASSUME Shapes, PlansInv, Step, \A j \in DOMAIN plans : plans[j].state \in States
    PROVE  \A j \in DOMAIN plans' : plans'[j].state \in States
<1>0. {"applied", "expired", "cancelled"} \subseteq States
  BY DEF States
<1>1. CASE plans' = plans
  BY <1>1
<1>2. CASE PlanDelete \/ PlanUndo \/ PlanMove
  <2>1. \E new : new.state = "ready" /\ plans' = Append(plans, new)
    BY <1>2 DEF PlanDelete, PlanUndo, PlanMove, Planned, NewPlan
  <2> QED
    BY <2>1, StateAdded
<1>3. CASE Expire \/ \E p \in Procs : Apply(p) \/ Commit(p) \/ CancelWrite(p)
  <2>1. \/ plans' = plans
        \/ \E i, s : s \in States /\ plans' = [plans EXCEPT ![i].state = s]
        \/ \E i : plans' = [plans EXCEPT ![i].expired = TRUE]
    BY <1>0, <1>3 DEF Expire, Apply, Commit, CancelWrite, Recorded
  <2>2. ASSUME NEW i, NEW s \in States, plans' = [plans EXCEPT ![i].state = s]
        PROVE  \A j \in DOMAIN plans' : plans'[j].state \in States
    BY <2>2, StateMarked
  <2>3. ASSUME NEW i, plans' = [plans EXCEPT ![i].expired = TRUE]
        PROVE  \A j \in DOMAIN plans' : plans'[j].state \in States
    BY <2>3, <1>0, StateMarked
  <2> QED
    BY <2>1, <2>2, <2>3
<1>4. CASE Touch
  BY <1>4, <1>1, TouchPuts DEF PutAll
<1>5. ASSUME NEW p \in Procs, PlanStep(p) \/ NoteStep(p), ~ (Apply(p) \/ Commit(p) \/ CancelWrite(p))
      PROVE  plans' = plans
  BY <1>5 DEF PlanStep, NoteStep, Verify, Cancel, Restore, Moderate, Describe, HashSource, CheckUndo,
              Rename, MoveBack, Update, WriteNote, SyncNote, RecordNote, Put, PutAll, planVars
<1>6. CASE ~ NoteAndPlanStep
  BY <1>1, <1>6, PlanFrame DEF planVars
<1> QED
  BY <1>1, <1>2, <1>3, <1>4, <1>5, <1>6 DEF NoteAndPlanStep

\* Every operation on the files of a note puts a content of it there.
LEMMA FileWritten ==
    ASSUME FilesAre, NEW o, NEW d, NEW b \in Bodies \cup {0}
    PROVE  [files EXCEPT ![o][d] = b] \in [Notes -> [Dirs -> Bodies \cup {0}]]
BY DEF FilesAre

LEMMA FileRenamed ==
    ASSUME FilesAre, NEW o \in Notes, NEW from \in Dirs, NEW to, Renamed(o, from, to), NoteAssumption
    PROVE  FilesAre'
<1> DEFINE b == files[o][from]
           f == [files[o] EXCEPT ![to] = b, ![from] = 0]
<1>1. files[o] \in [Dirs -> Bodies \cup {0}] /\ b \in Bodies \cup {0}
  BY DEF FilesAre
<1>2. f \in [Dirs -> Bodies \cup {0}]
  BY <1>1
<1>3. files' = [files EXCEPT ![o] = f]
  BY DEF Renamed
<1> HIDE DEF f
<1> QED
  BY <1>2, <1>3 DEF FilesAre

LEMMA FilesStay ==
    ASSUME Shapes, PlansInv, FilesAre, HandsInv, Step
    PROVE  FilesAre'
<1>1. CASE files' = files
  BY <1>1 DEF FilesAre
<1>2. ASSUME NEW p \in Procs, Rename(p) \/ MoveBack(p) PROVE FilesAre'
  <2>1. proc[p].pc \in {"rename", "back"} /\ proc[p].pc \in MovePC
    BY <1>2 DEF Rename, MoveBack, At, MovePC
  <2>2. Takes(proc[p].changes, proc[p].move, proc[p].target)
    BY <2>1 DEF PlansInv, CommandIs, Moves
  <2>3. proc[p].target \in Notes /\ proc[p].move.from \in Dirs /\ proc[p].move.to \in Dirs
    BY <2>2 DEF Takes
  <2>4. \/ files' = files
        \/ Renamed(proc[p].target, proc[p].move.from, proc[p].move.to)
        \/ Renamed(proc[p].target, proc[p].move.to, proc[p].move.from)
    BY <1>2 DEF Rename, MoveBack, RenameBack
  <2> QED
    BY <1>1, <2>3, <2>4, FileRenamed, NoteAssumption
<1>3. ASSUME NEW p \in Procs, WriteNote(p) PROVE FilesAre'
  <2>1. proc[p].body \in Bodies
    BY <1>3 DEF HandsInv, WriteNote, At, UpdatePC
  <2>2. files' = [files EXCEPT ![proc[p].target][proc[p].path] = proc[p].body]
    BY <1>3 DEF WriteNote
  <2>3. files' \in [Notes -> [Dirs -> Bodies \cup {0}]]
    BY <2>1, <2>2, FileWritten
  <2> QED
    BY <2>3 DEF FilesAre
<1>4. ASSUME NEW p \in Procs, NoteStep(p), ~ (Rename(p) \/ MoveBack(p) \/ WriteNote(p))
      PROVE  files' = files
  BY <1>4 DEF NoteStep, Describe, HashSource, CheckUndo, Update, SyncNote, RecordNote, noteVars
<1>5. CASE ~ NoteAndPlanStep
  BY <1>1, <1>5, PlanFrame DEF noteVars
<1>6. CASE UNCHANGED noteVars
  BY <1>1, <1>6 DEF noteVars
<1>7. CASE PlanMove
  BY <1>1, <1>7 DEF PlanMove, noteVars
<1> QED
  BY <1>1, <1>2, <1>3, <1>4, <1>5, <1>6, <1>7 DEF NoteAndPlanStep

\* An update starts with a content, and keeps it to its end.
LEMMA HandsNext ==
    ASSUME Shapes, HandsInv, NEW p \in Procs, NEW c, Set(p, c), c.pc \in UpdatePC => c.body \in Bodies
    PROVE  HandsInv'
<1>1. proc'[p] = c /\ \A q \in Procs \ {p} : proc'[q] = proc[q]
  BY SetDoes
<1> QED
  BY <1>1 DEF HandsInv

LEMMA UpdatesHands ==
    ASSUME Shapes, HandsInv, NEW p \in Procs, Update(p) \/ WriteNote(p) \/ SyncNote(p) \/ RecordNote(p)
    PROVE  HandsInv'
<1>1. CASE Update(p)
  BY <1>1, HandsNext DEF Update, Launch
<1>2. CASE ~ Update(p)
  <2>1. proc[p].pc \in UpdatePC
    BY <1>2 DEF WriteNote, SyncNote, RecordNote, At, UpdatePC
  <2>2. PlanShape(proc[p]) /\ proc[p].body \in Bodies
    BY <2>1, ShapeOf DEF Shapes, PlanPC, HandsInv
  <2>3. \A pc \in UpdatePC : [proc[p] EXCEPT !.pc = pc].body = proc[p].body
    BY <2>1, <2>2 DEF PlanShape, Has, UpdatePC, MovePC
  <2>4. Set(p, Idle) \/ \E pc \in UpdatePC : Set(p, [proc[p] EXCEPT !.pc = pc])
    BY <1>2 DEF WriteNote, SyncNote, RecordNote, Move, Goto, Finish, Become, UpdatePC
  <2>5. CASE Set(p, Idle)
    BY <2>5, HandsNext, PCsApart
  <2>6. ASSUME NEW pc \in UpdatePC, NEW r, r = [proc[p] EXCEPT !.pc = pc], Set(p, r) PROVE HandsInv'
    BY <2>2, <2>3, <2>6, HandsNext
  <2> QED
    BY <2>4, <2>5, <2>6
<1> QED
  BY <1>1, <1>2

\* No other step sets a process to a step of an update.
LEMMA HandsStay ==
    ASSUME Shapes, Shapes', PlansInv, PlansInv', HandsInv, Step
    PROVE  HandsInv'
<1>1. CASE ~ NoteAndPlanStep
  <2>1. ASSUME NEW q \in Procs, proc'[q].pc \in UpdatePC PROVE proc'[q] = proc[q]
    <3>1. PlanShape(proc'[q])
      BY <2>1, ShapeOf DEF Shapes, PlanPC
    <3> QED
      BY <1>1, <3>1, PlanFrame
  <2> QED
    BY <2>1 DEF HandsInv
<1>2. CASE PlanDelete \/ PlanUndo \/ Expire \/ Touch \/ PlanMove
  <2>1. proc' = proc
    BY <1>2 DEF PlanDelete, PlanUndo, Expire, Touch, PlanMove, Elsewhere
  <2> QED
    BY <2>1 DEF HandsInv
<1>3. ASSUME NEW p \in Procs, Apply(p) \/ Cancel(p) \/ Restore(p) \/ Moderate(p) PROVE HandsInv'
  <2>1. \A i : \A pc \in MovePC : Command(pc, i).pc \notin UpdatePC
    BY PCsApart DEF Command
  <2>2. {"verify", "describe", "check", "cancel"} \subseteq MovePC
    BY DEF MovePC
  <2>3. Idle.pc \notin UpdatePC
    BY PCsApart
  <2>4. ASSUME Apply(p) PROVE \E c : Set(p, c) /\ c.pc \notin UpdatePC
    <3>1. PICK i \in DOMAIN plans :
             Launch(p, "apply", IF plans[i].expired THEN Idle
                                ELSE Command(IF plans[i].move = NoMove THEN "verify"
                                             ELSE IF plans[i].action = "move" THEN "describe" ELSE "check", i))
      BY <2>4 DEF Apply
    <3>2. Set(p, Idle) \/ \E pc \in MovePC : Set(p, Command(pc, i))
      BY <2>2, <3>1 DEF Launch
    <3> QED
      BY <2>1, <2>3, <3>2
  <2>5. ASSUME Cancel(p) PROVE \E c : Set(p, c) /\ c.pc \notin UpdatePC
    BY <2>1, <2>2, <2>5 DEF Cancel, Launch
  <2>6. ASSUME Restore(p) PROVE \E c : Set(p, c) /\ c.pc \notin UpdatePC
    <3>1. PICK x : \E o : Launch(p, "restore",
             IF Matches(Reverse(ops[o].changes))
             THEN [pc |-> "commit", plan |-> 0, changes |-> Reverse(ops[o].changes), undoOf |-> o,
                   reversible |-> TRUE, action |-> "restore", target |-> x, move |-> NoMove, back |-> FALSE]
             ELSE Idle)
      BY <2>6 DEF Restore
    <3>2. \E c : Set(p, c) /\ (c = Idle \/ c.pc = "commit")
      BY <3>1 DEF Launch
    <3> QED
      BY <2>3, <3>2 DEF UpdatePC
  <2>7. ASSUME Moderate(p) PROVE \E c : Set(p, c) /\ c.pc \notin UpdatePC
    <3>1. \E x, W : Launch(p, "moderate",
             [pc |-> "commit", plan |-> 0, changes |-> Changes(W), undoOf |-> 0, reversible |-> FALSE,
              action |-> "moderate", target |-> x, move |-> NoMove, back |-> FALSE])
      BY <2>7 DEF Moderate
    <3>2. \E c : Set(p, c) /\ c.pc = "commit"
      BY <3>1 DEF Launch
    <3> QED
      BY <3>2 DEF UpdatePC
  <2> QED
    BY <1>3, <2>4, <2>5, <2>6, <2>7, HandsNext
<1>4. ASSUME NEW p \in Procs, \/ Verify(p) \/ Commit(p) \/ CancelWrite(p) \/ Describe(p)
                              \/ HashSource(p) \/ CheckUndo(p) \/ Rename(p) \/ MoveBack(p)
      PROVE  HandsInv'
  <2>1. proc[p].pc \in MovePC
    BY <1>4 DEF Verify, Commit, CancelWrite, Describe, HashSource, CheckUndo, Rename, MoveBack, At, MovePC
  <2>2. PlanShape(proc[p])
    BY <2>1, ShapeOf DEF Shapes, PlanPC
  <2>3. /\ \A pc \in MovePC : [proc[p] EXCEPT !.pc = pc].pc = pc
        /\ [proc[p] EXCEPT !.pc = "verify", !.back = TRUE].pc = "verify"
    BY <2>1, <2>2 DEF PlanShape, Has, UpdatePC, MovePC
  <2>4. \/ Set(p, Idle) \/ \E pc \in MovePC : Set(p, [proc[p] EXCEPT !.pc = pc])
        \/ Set(p, [proc[p] EXCEPT !.pc = "verify", !.back = TRUE])
    BY <1>4 DEF Verify, Commit, CancelWrite, Describe, HashSource, CheckUndo, Rename, MoveBack, Conflict,
                Move, Goto, Finish, Become, MovePC
  <2>5. \E c : Set(p, c) /\ c.pc \notin UpdatePC
    BY <2>3, <2>4, PCsApart DEF UpdatePC
  <2> QED
    BY <2>5, HandsNext
<1>5. ASSUME NEW p \in Procs, PlanStep(p) \/ NoteStep(p) PROVE HandsInv'
  BY <1>3, <1>4, <1>5, UpdatesHands DEF PlanStep, NoteStep
<1> QED
  BY <1>1, <1>2, <1>5 DEF NoteAndPlanStep

LEMMA KindHolds == Spec => []KindInv
<1>1. Init => KindInv
  <2> SUFFICES ASSUME Init PROVE KindInv
    OBVIOUS
  <2>1. plans = <<>> /\ files = [o \in Notes |-> [d \in Dirs |-> IF d = Home THEN 1 ELSE 0]]
    BY DEF Init, MutationInit, NoteInit
  <2>2. \A p \in Procs : proc[p].pc \notin UpdatePC
    BY PCsApart DEF Init, WorkInit
  <2>3. FilesAre
    BY <2>1, NoteAssumption DEF FilesAre
  <2> QED
    BY <2>1, <2>2, <2>3 DEF KindInv, HandsInv
<1>2. NotePlanInv /\ NotePlanInv' /\ KindInv /\ [Next]_vars => KindInv'
  <2>1. ASSUME KindInv, UNCHANGED vars PROVE KindInv'
    BY <2>1 DEF KindInv, FilesAre, HandsInv, vars, workVars, planVars, noteVars
  <2>2. ASSUME NotePlanInv, NotePlanInv', KindInv, Next PROVE KindInv'
    BY <2>2, StatesStay, FilesStay, HandsStay DEF KindInv, NotePlanInv, Next
  <2> QED
    BY <2>1, <2>2
<1> QED
  BY <1>1, <1>2, NotePlanHolds, PTL DEF Spec

\* The lock is taken when no command has it, and only its holder leaves it.
LEMMA HoldGoesOn ==
    ASSUME HoldInv, NEW p \in Procs, holder' \subseteq holder \/ (holder = {} /\ holder' = {p})
    PROVE  HoldInv'
<1>1. CASE holder' \subseteq holder
  BY <1>1 DEF HoldInv
<1>2. CASE holder' = {p}
  BY <1>2 DEF HoldInv
<1> QED
  BY <1>1, <1>2

LEMMA HoldHolds == Spec => []HoldInv
<1>1. Init => HoldInv
  BY DEF Init, BackupInit, HoldInv
<1>2. HoldInv /\ [Next]_vars => HoldInv'
  <2>1. ASSUME HoldInv, holder' = holder PROVE HoldInv'
    BY <2>1 DEF HoldInv
  <2>2. ASSUME HoldInv, NEW p \in Procs, Kill(p) PROVE HoldInv'
    BY <2>2, HoldGoesOn DEF Kill
  <2>3. ASSUME HoldInv, NEW p \in Procs, CreateBackup(p) \/ ApplyRestore(p) PROVE HoldInv'
    <3>1. holder' = holder \/ holder' = IF holder = {} THEN {p} ELSE holder
      BY <2>3 DEF CreateBackup, ApplyRestore, Locked
    <3>2. holder' \subseteq holder \/ (holder = {} /\ holder' = {p})
      BY <3>1
    <3> QED
      BY <2>3, <3>2, HoldGoesOn
  <2>4. ASSUME HoldInv, NEW p \in Procs, BackupStep(p), ~ (CreateBackup(p) \/ ApplyRestore(p)) PROVE HoldInv'
    <3>1. holder' = holder \/ holder' = holder \ {p}
      <4>1. CASE Serialize(p) \/ CopyFiles(p) \/ RemoveFinal(p) \/ PlaceFinal(p) \/ CommitBackup(p) \/ FailBackup(p)
        BY <4>1 DEF Serialize, CopyFiles, RemoveFinal, PlaceFinal, CommitBackup, FailBackup, Image, Directory,
                    Unlocked, backupVars
      <4>2. CASE CheckRestore(p) \/ FillStaging(p) \/ InstallTarget(p) \/ CommitRestore(p) \/ FailRestore(p)
        BY <4>2 DEF CheckRestore, FillStaging, InstallTarget, CommitRestore, FailRestore, Unlocked
      <4>3. CASE StoreBlob(p) \/ NameBlob(p) \/ StageVictim(p) \/ DropRow(p)
        BY <4>3 DEF StoreBlob, NameBlob, StageVictim, DropRow, Stored
      <4> QED
        BY <2>4, <4>1, <4>2, <4>3 DEF BackupStep
    <3>2. holder' \subseteq holder
      BY <3>1
    <3> QED
      BY <2>4, <3>2, HoldGoesOn
  <2>5. ASSUME HoldInv, BackupsStep PROVE HoldInv'
    <3>1. CASE PlanRestore
      BY <2>1, <2>5, <3>1 DEF PlanRestore
    <3> QED
      BY <2>3, <2>4, <2>5, <3>1 DEF BackupsStep
  <2>6. ASSUME HoldInv, Step PROVE HoldInv'
    <3>1. CASE NoteAndPlanStep \/ DaemonsStep \/ MigrationsStep \/ InitsStep \/ ConfigsStep
      <4>1. holder' = holder
        BY <3>1 DEF NoteAndPlanStep, DaemonsStep, MigrationsStep, InitsStep, ConfigsStep, otherVars, backupVars
      <4> QED
        BY <2>1, <2>6, <4>1
    <3> QED
      BY <2>2, <2>5, <2>6, <3>1 DEF Step
  <2>7. ASSUME HoldInv, UNCHANGED vars PROVE HoldInv'
    BY <2>1, <2>7 DEF vars, otherVars, backupVars
  <2> QED
    BY <2>6, <2>7 DEF Next
<1> QED
  BY <1>1, <1>2, PTL DEF Spec

LEMMA OneHolder ==
    ASSUME HoldInv
    PROVE  Cardinality(holder) <= 1
<1>1. Cardinality({}) = 0
  BY FS_EmptySet
<1>2. \A p : Cardinality({p}) = 1
  BY FS_Singleton
<1> QED
  BY <1>1, <1>2 DEF HoldInv

\* As many versions as numbers.
LEMMA VersionsCount ==
    ASSUME NEW n \in Nat \ {0}, NumberedTo(n)
    PROVE  {v[1] : v \in versions} = 1 .. n /\ Cardinality(versions) = n
<1> DEFINE g == [k \in 1 .. n |-> CHOOSE v \in versions : v[1] = k]
<1>1. \A v \in versions : v[1] \in 1 .. n
  BY DEF NumberedTo
<1>2. \A k \in 1 .. n : g[k] \in versions /\ g[k][1] = k
  BY DEF NumberedTo
<1>3. g \in [1 .. n -> versions]
  BY <1>2
<1>4. \A v \in versions : g[v[1]] = v
  BY <1>1, <1>2 DEF NumberedTo
<1> HIDE DEF g
<1>5. g \in Injection(1 .. n, versions)
  BY <1>2, <1>3 DEF Injection, IsInjective
<1>6. g \in Surjection(1 .. n, versions)
  BY <1>1, <1>3, <1>4 DEF Surjection
<1>7. Cardinality(versions) = n
  BY <1>5, <1>6, FS_CountingElements DEF ExistsBijection, Bijection
<1>8. {v[1] : v \in versions} = 1 .. n
  BY <1>1, <1>2
<1> QED
  BY <1>7, <1>8

\* What is taken back has rows.
LEMMA OpsOfRows ==
    ASSUME RowsInv, NEW o \in DOMAIN ops
    PROVE  DOMAIN ops[o].changes \subseteq Rows /\ ops[o].undoOf \in 0 .. o - 1
<1>1. PICK S : ops \in Seq(S)
  BY DEF RowsInv, OpsInv
<1>2. \A i \in DOMAIN ops : IF ops[i].undoOf = 0 THEN OwnOp(ops, i, clock) ELSE BackOp(ops, i)
  BY DEF RowsInv, OpsInv
<1>3. DOMAIN ops = 1 .. Len(ops) /\ Len(ops) \in Nat
  BY <1>1
<1>4. \A i \in DOMAIN ops : ops[i].undoOf = 0 => DOMAIN ops[i].changes \subseteq Rows
  BY <1>2 DEF OwnOp
<1>5. \A i \in DOMAIN ops : ops[i].undoOf # 0 =>
         /\ ops[i].undoOf \in 1 .. i - 1 /\ ops[i].undoOf \in DOMAIN ops
         /\ ops[ops[i].undoOf].reversible
         /\ DOMAIN ops[i].changes = DOMAIN ops[ops[i].undoOf].changes
         /\ ops[i].reversible => ops[ops[i].undoOf].undoOf = 0
  <2>1. \A ch : DOMAIN Reverse(ch) = DOMAIN ch
    BY DEF Reverse
  <2> SUFFICES ASSUME NEW i \in DOMAIN ops, ops[i].undoOf # 0
               PROVE  /\ ops[i].undoOf \in 1 .. i - 1 /\ ops[i].undoOf \in DOMAIN ops
                      /\ ops[ops[i].undoOf].reversible
                      /\ DOMAIN ops[i].changes = DOMAIN ops[ops[i].undoOf].changes
                      /\ ops[i].reversible => ops[ops[i].undoOf].undoOf = 0
    OBVIOUS
  <2>2. BackOp(ops, i)
    BY <1>2
  <2>3. ops[i].undoOf \in 1 .. i - 1 /\ ops[i].undoOf \in DOMAIN ops
    BY <1>3, <2>2 DEF BackOp
  <2> QED
    BY <2>1, <2>2, <2>3 DEF BackOp
<1>6. \A i \in DOMAIN ops : ops[i].reversible => DOMAIN ops[i].changes \subseteq Rows
  BY <1>4, <1>5
<1>7. DOMAIN ops[o].changes \subseteq Rows
  BY <1>4, <1>5, <1>6
<1>8. o \in Nat \ {0}
  BY <1>3
<1> QED
  BY <1>5, <1>7, <1>8

LEMMA PlansOfRows ==
    ASSUME RowsInv, MeantInv, NEW i \in DOMAIN plans
    PROVE  DOMAIN plans[i].changes \subseteq Rows
<1>1. Meant(plans[i], ops)
  BY DEF MeantInv
<1>2. CASE PlannedAre(plans[i].changes)
  BY <1>2 DEF PlannedAre
<1>3. CASE /\ plans[i].undoOf \in DOMAIN ops
           /\ plans[i].changes = Reverse(ops[plans[i].undoOf].changes)
  BY <1>3, OpsOfRows DEF Reverse
<1> QED
  BY <1>1, <1>2, <1>3 DEF Meant

\* Rows have the columns of their kind and plans and operations change rows; what
\* is undone came before; a live lease has its daemon; nothing is in the database
\* that was not committed; one command at most has the maintenance lock; and the
\* versions of the configuration are numbered without a gap: the tables and files
\* that the commands of a workspace share (automation_plans, operations,
\* operation_backups, runtime_leases, config_versions, content/notes).
THEOREM OperationsTypeCorrect == Spec => []TypeOK
<1>1. ASSUME TraceInv, KindInv, HoldInv, ConfigInv, DaemonInv, MigrationsInv, BackupsInv, InitsInv
      PROVE  TypeOK
  <2>1. RowsInv /\ MeantInv
    BY <1>1 DEF TraceInv
  <2>2. \A r \in Rows : DOMAIN row[r] = Columns[KindOf[r]] /\ DOMAIN base[r] = Columns[KindOf[r]]
    BY <2>1 DEF RowsInv, RowIs
  <2>3. \A i \in DOMAIN plans : /\ plans[i].state \in {"ready", "applied", "expired", "cancelled"}
                                /\ DOMAIN plans[i].changes \subseteq Rows
    BY <1>1, <2>1, PlansOfRows DEF KindInv, States
  <2>4. \A o \in DOMAIN ops : ops[o].undoOf \in 0 .. o - 1
    BY <2>1, OpsOfRows
  <2>5. files \in [Notes -> [Dirs -> Bodies \cup {0}]]
    BY <1>1 DEF KindInv, FilesAre
  <2>6. lease.live => lease.instance # 0
    BY <1>1 DEF DaemonInv, NoLease
  <2>7. main.version \in {1, 2} /\ main.commits \cup wal \subseteq made
    BY <1>1 DEF MigrationsInv, MigrationTypes, Database
  <2>8. Cardinality(holder) <= 1
    BY <1>1, OneHolder
  <2>9. \A b \in DOMAIN backups : backups[b].state \in {"creating", "ready", "failed"}
    <3>1. backups \in Seq(BackupRow)
      BY <1>1 DEF BackupsInv, BackupTypes
    <3>2. \A x \in BackupRow : x.state \in {"creating", "ready", "failed"}
      BY DEF BackupRow
    <3>3. \A b \in DOMAIN backups : backups[b] \in BackupRow
      BY <3>1
    <3> QED
      BY <3>2, <3>3
  <2>10. \A path \in Paths : disk[path] \in {Absent, Release, Partial, Changed} \cup 1 .. used["init"]
    BY <1>1 DEF InitsInv, DiskTypes, Paths, Copied, Absent, Release, Partial, Changed
  <2>11. toml \in Settings
    BY <1>1 DEF ConfigInv, ConfigTypes
  <2>12. {v[1] : v \in versions} = 1 .. Cardinality(versions)
    <3>1. PICK n \in Nat \ {0} : NumberedTo(n)
      BY <1>1 DEF ConfigInv, ConfigTypes
    <3> QED
      BY <3>1, VersionsCount
  <2> QED
    BY <2>2, <2>3, <2>4, <2>5, <2>6, <2>7, <2>8, <2>9, <2>10, <2>11, <2>12 DEF TypeOK
<1> QED
  BY <1>1, TraceHolds, KindHolds, HoldHolds, ConfigHolds, DaemonHolds, MigrationsHold, BackupsHold, InitsHold, PTL
=============================================================================
