----------------------------- MODULE DerivedProofs -----------------------------
(***************************************************************************)
(* Proofs about Derived, whatever the processes, the knowledge and the     *)
(* bounds: the vector spaces and the graph.  The Topic and its Artifact    *)
(* have a module of their own that builds on this one.                     *)
(*                                                                         *)
(* The components share processes and one program counter.  WorkInv says   *)
(* which fields a process has at which step, and that one process at a     *)
(* time works as long as commands come one after another; the ...Acts      *)
(* lemmas say which steps a component takes.  Each property then has an    *)
(* invariant that its component's steps keep, and that no other step       *)
(* touches.                                                                *)
(***************************************************************************)
EXTENDS Derived, WellFoundedInduction, TLAPS

-----------------------------------------------------------------------------
(* The steps and the fields of the commands. *)

BuildPC    == {"v:sentinel", "v:next", "v:save", "v:failed"}
RefreshPC  == {"v:more", "v:save", "v:degraded", "g:refresh"}
CheckPC    == {"v:check", "v:verdict", "v:abort"}
VectorPC   == BuildPC \cup CheckPC \cup
              {"v:refresh", "v:more", "v:degraded", "v:activate", "v:delete", "v:test", "v:open"}
GraphPC    == {"g:mark", "g:project", "g:chunks", "g:extract", "g:model", "g:succeed",
               "g:align", "g:neighbors", "g:verify", "g:previous", "g:switch", "g:failed"}
TopicPC    == {"t:search", "t:graph", "t:claims", "t:save"}
ArchivePC  == {"a:write", "a:publish", "a:finish", "a:pointer", "a:failed"}
ArtifactPC == {"a:start"} \cup ArchivePC
SynthPC    == TopicPC \cup ArtifactPC

Has(c, PC, fields) == c.pc \in PC /\ DOMAIN c = fields

\* An ingestion after its publication, a refresh of vectors, and a graph plan.
AfterShape(c) ==
    \/ Has(c, {"topics", "v:refresh", "g:refresh"}, {"pc", "then"}) /\ c.then = "v:refresh"
    \/ Has(c, {"v:refresh"}, {"pc", "then"}) /\ c.then = "idle"
    \/ Has(c, {"topics"}, {"pc", "gen", "then"}) /\ c.then = "idle" /\ c.gen = 0
VectorBuildShape(c) ==
    Has(c, BuildPC, {"pc", "space", "todo", "mark", "chunk", "weights", "loop"}) /\ c.loop = "v:next"
VectorRefreshShape(c) ==
    /\ Has(c, RefreshPC, {"pc", "space", "todo", "chunk", "weights", "loop", "then"})
    /\ c.loop = "v:more" /\ c.then \in {"idle", "v:refresh"}
    /\ c.pc = "g:refresh" => c.then = "v:refresh"
VectorShape(c) ==
    \/ VectorBuildShape(c) \/ VectorRefreshShape(c)
    \/ Has(c, CheckPC \cup {"v:activate", "v:delete"}, {"pc", "space"})
    \/ Has(c, {"v:test", "v:open"}, {"pc"})
GraphShape(c) ==
    /\ Has(c, GraphPC \cup {"topics"},
           {"pc", "gen", "model", "space", "activate", "todo", "chunk", "prev", "then"})
    /\ c.then = "idle"
TopicShape(c) ==
    Has(c, TopicPC, {"pc", "version", "found", "claims", "disputed", "relations", "gen", "at"})
ArtifactShape(c) ==
    \/ Has(c, {"a:start"}, {"pc", "snap"})
    \/ Has(c, ArchivePC, {"pc", "build"})

Shape(c) ==
    \/ c = Idle
    \/ AfterShape(c) \/ VectorShape(c) \/ GraphShape(c) \/ TopicShape(c) \/ ArtifactShape(c)

\* As long as commands come one after another only one process has one.
WorkInv ==
    /\ DOMAIN proc = Procs /\ \A p \in Procs : Shape(proc[p])
    /\ used \in [Kinds -> Nat]
    /\ lone => \A p, q \in Procs : proc[p] # Idle /\ proc[q] # Idle => p = q

\* What is counted is not counted back.
Counts == used' \in [Kinds -> Nat] /\ \A k \in Kinds : used[k] <= used'[k]

Alone(p) == \A q \in Procs : q # p => proc[q] = Idle

\* A process takes a step of its command, or starts one.
Acts(p) ==
    /\ DOMAIN proc' = Procs /\ \A q \in Procs : q # p => proc'[q] = proc[q]
    /\ Shape(proc'[p]) /\ Counts
    /\ \/ proc[p] # Idle /\ UNCHANGED lone
       \/ proc[p] = Idle /\ lone' = (lone /\ Busy = {})

\* A step that no process takes.
Outside ==
    /\ UNCHANGED proc /\ Counts
    /\ UNCHANGED lone \/ lone' = (lone /\ Busy = {})

LEMMA ActsKeep ==
    ASSUME WorkInv, NEW p \in Procs, Acts(p)
    PROVE  /\ WorkInv'
           /\ lone' => lone /\ Alone(p) /\ Alone(p)'
<1>1. lone' => lone /\ Alone(p)
  BY DEF WorkInv, Acts, Alone, Busy
<1>2. lone' => Alone(p)'
  BY <1>1 DEF Acts, Alone
<1> QED
  BY <1>1, <1>2 DEF WorkInv, Acts, Alone, Counts

LEMMA OutsideKeeps ==
    ASSUME WorkInv, Outside
    PROVE  WorkInv' /\ (lone' => lone)
<1>1. lone' => lone
  BY DEF Outside
<1>2. UNCHANGED proc /\ Counts
  BY DEF Outside
<1> QED
  BY <1>1, <1>2 DEF WorkInv, Counts

\* What is spent is a number.
LEMMA SpendDoes ==
    ASSUME WorkInv, NEW k \in Counted, Spend(k)
    PROVE  /\ Counts /\ used'[k] # 0
           /\ \A j \in Kinds : j # k => used'[j] = used[j]
<1>1. k \in Kinds /\ used \in [Kinds -> Nat] /\ used' = [used EXCEPT ![k] = @ + 1]
  BY CountedAssumption DEF Spend, WorkInv
<1> QED
  BY <1>1 DEF Counts

LEMMA SpendNothing == ASSUME WorkInv, UNCHANGED used PROVE Counts
<1>1. \A k \in Kinds : used[k] \in Nat
  BY DEF WorkInv
<1> QED
  BY <1>1 DEF Counts, WorkInv

\* The step of a process tells its command.
LEMMA ShapeOf ==
    ASSUME NEW c, Shape(c)
    PROVE  /\ c.pc \in {"topics", "g:refresh", "v:refresh"} =>
                AfterShape(c) \/ VectorRefreshShape(c) \/ GraphShape(c)
           /\ c.pc \in VectorPC \ {"v:refresh"} => VectorShape(c)
           /\ c.pc \in GraphPC => GraphShape(c)
           /\ c.pc \in TopicPC => TopicShape(c)
           /\ c.pc \in ArtifactPC => ArtifactShape(c)
           /\ c.pc = "idle" => c = Idle
           /\ c.pc \in {"idle", "topics", "g:refresh"} \cup VectorPC \cup GraphPC \cup SynthPC
BY DEF Shape, Idle, AfterShape, VectorShape, VectorBuildShape, VectorRefreshShape, GraphShape,
       TopicShape, ArtifactShape, Has, BuildPC, RefreshPC, CheckPC, VectorPC, GraphPC, TopicPC,
       ArchivePC, ArtifactPC, SynthPC

\* A command goes on, or is done.
LEMMA SetActs ==
    ASSUME WorkInv, NEW p \in Procs, NEW r, Shape(r), Set(p, r), proc[p].pc # "idle",
           Counts, UNCHANGED lone
    PROVE  Acts(p) /\ proc'[p] = r
BY DEF WorkInv, Set, Acts, Idle

LEMMA StartActs ==
    ASSUME WorkInv, NEW p \in Procs, NEW r, Shape(r), NEW k \in Counted, Begin(p, k, r)
    PROVE  /\ Acts(p) /\ proc[p] = Idle /\ proc'[p] = r
           /\ UNCHANGED limit /\ Spend(k)
<1>1. Spend(k) /\ Set(p, r) /\ UNCHANGED limit /\ proc[p].pc = "idle" /\ lone' = (lone /\ Busy = {})
  BY DEF Begin, Launch, At
<1>2. Counts
  BY <1>1, SpendDoes
<1>3. proc[p] = Idle
  BY <1>1, ShapeOf DEF WorkInv
<1>4. DOMAIN proc' = Procs /\ proc'[p] = r /\ \A q \in Procs : q # p => proc'[q] = proc[q]
  BY <1>1 DEF Set, WorkInv
<1> QED
  BY <1>1, <1>2, <1>3, <1>4 DEF Acts

\* A step that starts no command and spends nothing.
LEMMA StepActs ==
    ASSUME WorkInv, NEW p \in Procs, NEW r, Shape(r), Set(p, r), proc[p].pc # "idle", Step
    PROVE  Acts(p) /\ proc'[p] = r /\ UNCHANGED <<used, limit, chunkVars>>
<1>1. Counts /\ UNCHANGED lone
  BY SpendNothing DEF Step
<1> QED
  BY <1>1, SetActs DEF Step

\* A step that throws spends a fault.
LEMMA FaultActs ==
    ASSUME WorkInv, NEW p \in Procs, NEW r, Shape(r), Set(p, r), proc[p].pc # "idle",
           Spend("fault"), UNCHANGED lone
    PROVE  Acts(p) /\ proc'[p] = r /\ used'["fault"] # 0
<1>1. Counts /\ used'["fault"] # 0
  BY SpendDoes DEF Counted
<1> QED
  BY <1>1, SetActs
-----------------------------------------------------------------------------
(* The steps of each component. *)

VectorMoves(p) ==
    /\ Acts(p)
    /\ proc[p].pc \in VectorPC \cup {"idle"}
    /\ proc'[p].pc \in VectorPC \cup {"idle", "g:refresh"}
    /\ UNCHANGED chunkVars

LEMMA IdleShape == Shape(Idle) /\ Idle.pc = "idle"
BY DEF Shape, Idle

\* A vector command goes on with another step.
LEMMA VectorGoto ==
    ASSUME WorkInv, NEW p \in Procs, NEW x \in VectorPC, Goto(p, x),
           Counts, UNCHANGED <<lone, chunkVars>>,
           \/ proc[p].pc \in BuildPC /\ x \in BuildPC /\ proc[p].pc # "v:save"
           \/ proc[p].pc \in {"v:more", "v:degraded"} /\ x \in RefreshPC
           \/ proc[p].pc \in CheckPC /\ x \in CheckPC
           \/ proc[p].pc \in {"v:test", "v:open"} /\ x \in {"v:test", "v:open"}
    PROVE  VectorMoves(p)
<1>1. Shape(proc[p])
  BY DEF WorkInv
<1>2. VectorShape(proc[p]) /\ proc[p].pc \in VectorPC /\ proc[p].pc # "idle"
  BY <1>1, ShapeOf DEF VectorPC, BuildPC, CheckPC
<1>3. PICK r : r = [proc[p] EXCEPT !.pc = x]
  OBVIOUS
<1>4. Shape(r) /\ r.pc = x
  BY <1>2, <1>3 DEF Shape, VectorShape, VectorBuildShape, VectorRefreshShape, Has, BuildPC, CheckPC,
       RefreshPC, VectorPC
<1>5. Acts(p) /\ proc'[p] = r
  BY <1>2, <1>3, <1>4, SetActs DEF Goto
<1> QED
  BY <1>2, <1>4, <1>5 DEF VectorMoves

\* A vector command takes a step of its own, or starts, or ends.
LEMMA VectorSet ==
    ASSUME WorkInv, NEW p \in Procs, NEW r, Set(p, r), Step, proc[p].pc \in VectorPC,
           r.pc \in VectorPC \cup {"idle", "g:refresh"}, Shape(r)
    PROVE  VectorMoves(p) /\ proc'[p] = r
<1>1. proc[p].pc # "idle"
  BY DEF VectorPC, BuildPC, CheckPC
<1> QED
  BY <1>1, StepActs DEF VectorMoves

LEMMA VectorStart ==
    ASSUME WorkInv, NEW p \in Procs, NEW r, NEW k \in Counted, Start(p, k, r),
           r.pc \in VectorPC, Shape(r)
    PROVE  VectorMoves(p) /\ proc'[p] = r /\ proc[p] = Idle
<1>1. Begin(p, k, r) /\ UNCHANGED chunkVars
  BY DEF Start
<1> QED
  BY <1>1, StartActs, IdleShape DEF VectorMoves

LEMMA StepDoes == ASSUME WorkInv, Step PROVE Counts /\ UNCHANGED <<lone, chunkVars>>
BY SpendNothing DEF Step

LEMMA RefreshedDoes ==
    ASSUME WorkInv, NEW p \in Procs, Refreshed(p), Step,
           proc[p].pc \in {"v:refresh", "v:more", "v:degraded"}
    PROVE  /\ VectorMoves(p)
           /\ IF proc[p].then = "idle" THEN proc'[p] = Idle
              ELSE proc'[p] = [proc[p] EXCEPT !.pc = "g:refresh"]
<1>1. Shape(proc[p])
  BY DEF WorkInv
<1>2. proc[p].pc \in VectorPC /\ (AfterShape(proc[p]) \/ VectorRefreshShape(proc[p]))
  BY <1>1, ShapeOf DEF VectorPC, BuildPC, CheckPC, AfterShape, VectorRefreshShape, GraphShape, Has,
     GraphPC, RefreshPC, VectorShape, VectorBuildShape
<1>3. CASE proc[p].then = "idle"
  BY <1>2, <1>3, VectorSet, IdleShape DEF Refreshed
<1>4. CASE proc[p].then # "idle"
  <2>1. PICK r : r = [proc[p] EXCEPT !.pc = "g:refresh"]
    OBVIOUS
  <2>2. Shape(r) /\ r.pc = "g:refresh"
    BY <1>2, <1>4, <2>1 DEF Shape, AfterShape, VectorShape, VectorRefreshShape, Has, RefreshPC
  <2>3. Set(p, r)
    BY <1>4, <2>1 DEF Refreshed, Goto
  <2> QED
    BY <1>2, <1>4, <2>1, <2>2, <2>3, VectorSet
<1> QED
  BY <1>3, <1>4

LEMMA VectorActs ==
    ASSUME WorkInv, NEW p \in Procs, VectorStep(p)
    PROVE  VectorMoves(p)
<1> USE IdleShape
<1>1. CASE StartVectorBuild(p)
  <2>1. PICK r : /\ Start(p, "vbuild", r)
                 /\ \E s, t, m : r = [pc |-> "v:sentinel", space |-> s, todo |-> t, mark |-> m,
                                      chunk |-> 0, weights |-> 0, loop |-> "v:next"]
    BY <1>1 DEF StartVectorBuild
  <2>2. Shape(r) /\ r.pc \in VectorPC
    BY <2>1 DEF Shape, VectorShape, VectorBuildShape, Has, BuildPC, VectorPC
  <2> QED
    BY <2>1, <2>2, VectorStart DEF Counted
<1>2. CASE CallFails(p)
  <2>1. PICK x : x = Failure[proc[p].pc]
    OBVIOUS
  <2>2. Goto(p, x) /\ proc[p].pc \in {"v:sentinel", "v:next", "v:check", "v:more", "v:test"}
    BY <1>2, <2>1 DEF CallFails, Calls, Failure
  <2>3. x \in VectorPC
        /\ \/ proc[p].pc \in BuildPC /\ x \in BuildPC /\ proc[p].pc # "v:save"
           \/ proc[p].pc \in {"v:more", "v:degraded"} /\ x \in RefreshPC
           \/ proc[p].pc \in CheckPC /\ x \in CheckPC
           \/ proc[p].pc \in {"v:test", "v:open"} /\ x \in {"v:test", "v:open"}
    BY <2>1, <2>2 DEF Failure, VectorPC, BuildPC, RefreshPC, CheckPC
  <2>4. Counts /\ UNCHANGED <<lone, chunkVars>>
    BY <1>2, StepDoes, SpendDoes DEF CallFails, Counted
  <2> QED
    BY <2>2, <2>3, <2>4, VectorGoto
<1>3. CASE CheckSentinel(p)
  <2>1. /\ Step /\ proc[p].pc \in {"v:sentinel", "v:check"}
        /\ \/ Goto(p, Failure[proc[p].pc])
           \/ proc[p].pc = "v:check" /\ Goto(p, "v:verdict")
           \/ proc[p].pc # "v:check" /\ Goto(p, "v:next")
    BY <1>3 DEF CheckSentinel, At
  <2>2. PICK x : /\ Goto(p, x)
                 /\ \/ proc[p].pc = "v:check" /\ x \in {"v:abort", "v:verdict"}
                    \/ proc[p].pc = "v:sentinel" /\ x \in {"v:failed", "v:next"}
    BY <2>1 DEF Failure
  <2>3. CASE proc[p].pc = "v:check" /\ x \in {"v:abort", "v:verdict"}
    <3>1. x \in VectorPC /\ x \in CheckPC /\ proc[p].pc \in CheckPC
      BY <2>3 DEF VectorPC, CheckPC
    <3> QED
      BY <2>1, <2>2, <3>1, StepDoes, VectorGoto
  <2>4. CASE proc[p].pc = "v:sentinel" /\ x \in {"v:failed", "v:next"}
    <3>1. x \in VectorPC /\ x \in BuildPC /\ proc[p].pc \in BuildPC /\ proc[p].pc # "v:save"
      BY <2>4 DEF VectorPC, BuildPC
    <3> QED
      BY <2>1, <2>2, <3>1, StepDoes, VectorGoto
  <2> QED
    BY <2>2, <2>3, <2>4
<1>4. CASE EmbedNext(p)
  <2>1. /\ Step /\ proc[p].pc \in {"v:next", "v:more"}
        /\ \E t, k : \/ Set(p, [proc[p] EXCEPT !.todo = t])
                     \/ Set(p, [proc[p] EXCEPT !.todo = t, !.chunk = k, !.weights = weights,
                                               !.pc = "v:save"])
    BY <1>4 DEF EmbedNext
  <2>2. VectorBuildShape(proc[p]) \/ VectorRefreshShape(proc[p])
    BY <2>1, ShapeOf DEF WorkInv, VectorPC, BuildPC, VectorShape, Has, CheckPC
  <2> DEFINE skips(t) == [proc[p] EXCEPT !.todo = t]
             embeds(t, k) == [proc[p] EXCEPT !.todo = t, !.chunk = k, !.weights = weights,
                                             !.pc = "v:save"]
  <2>5. PICK t, k : Set(p, skips(t)) \/ Set(p, embeds(t, k))
    BY <2>1
  <2>3. PICK r : Set(p, r) /\ (r = skips(t) \/ r = embeds(t, k))
    BY <2>5
  <2>4. Shape(r) /\ r.pc \in VectorPC
    BY <2>1, <2>2, <2>3 DEF Shape, VectorShape, VectorBuildShape, VectorRefreshShape, Has, BuildPC,
       RefreshPC, VectorPC
  <2> QED
    BY <2>1, <2>3, <2>4, VectorSet DEF VectorPC, BuildPC
<1>5. CASE SaveEmbedding(p)
  <2>1. /\ Step /\ proc[p].pc = "v:save"
        /\ Set(p, [proc[p] EXCEPT !.pc = proc[p].loop, !.chunk = 0, !.weights = 0])
    BY <1>5 DEF SaveEmbedding, At
  <2>2. VectorBuildShape(proc[p]) \/ VectorRefreshShape(proc[p])
    BY <2>1, ShapeOf DEF WorkInv, VectorPC, BuildPC, VectorShape, Has, CheckPC
  <2>3. PICK r : r = [proc[p] EXCEPT !.pc = proc[p].loop, !.chunk = 0, !.weights = 0]
    OBVIOUS
  <2>4. Shape(r) /\ r.pc \in VectorPC
    BY <2>1, <2>2, <2>3 DEF Shape, VectorShape, VectorBuildShape, VectorRefreshShape, Has, BuildPC,
       RefreshPC, VectorPC
  <2> QED
    BY <2>1, <2>3, <2>4, VectorSet DEF VectorPC, BuildPC
<1>6. CASE FinishVectorBuild(p) \/ Verdict(p) \/ VerifyAborts(p) \/ ActivateSpace(p) \/ DeleteSpace(p)
           \/ EndTest(p)
  <2>1. Set(p, Idle) /\ Step /\ proc[p].pc \in VectorPC
    BY <1>6 DEF FinishVectorBuild, Verdict, VerifyAborts, ActivateSpace, DeleteSpace, EndTest, At,
       VectorPC, BuildPC, CheckPC
  <2> QED
    BY <2>1, VectorSet
<1>7. CASE StartVerify(p) \/ StartVectorRefresh(p) \/ ApplyVectorPlan(p) \/ StartTest(p)
  <2>1. PICK k, r :    /\ k \in Counted /\ Start(p, k, r)
                 /\ \/ \E s, x : /\ r = [pc |-> x, space |-> s]
                                 /\ x \in {"v:check", "v:activate", "v:delete"}
                    \/ r = [pc |-> "v:refresh", then |-> "idle"]
                    \/ r = [pc |-> "v:test"]
    <3>1. CASE StartVerify(p)
      BY <3>1 DEF StartVerify, Counted
    <3>2. CASE StartVectorRefresh(p) \/ StartTest(p)
      BY <3>2 DEF StartVectorRefresh, StartTest, Counted
    <3>3. CASE ApplyVectorPlan(p)
      <4>1. PICK s, do : Start(p, "vapply", [pc |-> IF do = "activate" THEN "v:activate" ELSE "v:delete",
                                             space |-> s])
        BY <3>3 DEF ApplyVectorPlan
      <4> QED
        BY <4>1 DEF Counted
    <3> QED
      BY <1>7, <3>1, <3>2, <3>3
  <2>2. Shape(r) /\ r.pc \in VectorPC
    BY <2>1 DEF Shape, AfterShape, VectorShape, Has, CheckPC, VectorPC
  <2> QED
    BY <2>1, <2>2, VectorStart
<1>8. CASE RefreshVectors(p)
  <2>1. Step /\ proc[p].pc = "v:refresh"
    BY <1>8 DEF RefreshVectors, At
  <2>2. AfterShape(proc[p])
    BY <2>1, ShapeOf DEF WorkInv, VectorRefreshShape, GraphShape, Has, RefreshPC, GraphPC
  <2>3. CASE Refreshed(p)
    BY <2>1, <2>3, RefreshedDoes
  <2>4. CASE Set(p, Idle)
    BY <2>1, <2>4, VectorSet DEF VectorPC
  <2>5. CASE \E s, t : Set(p, [pc |-> "v:more", space |-> s, todo |-> t, chunk |-> 0,
                               weights |-> 0, loop |-> "v:more", then |-> proc[p].then])
    <3>1. PICK r : /\ Set(p, r)
                   /\ \E s, t : r = [pc |-> "v:more", space |-> s, todo |-> t, chunk |-> 0,
                                     weights |-> 0, loop |-> "v:more", then |-> proc[p].then]
      BY <2>5
    <3>2. Shape(r) /\ r.pc \in VectorPC
      BY <2>1, <2>2, <3>1 DEF Shape, AfterShape, VectorShape, VectorRefreshShape, Has, RefreshPC, VectorPC
    <3> QED
      BY <2>1, <3>1, <3>2, VectorSet DEF VectorPC
  <2> QED
    BY <1>8, <2>3, <2>4, <2>5 DEF RefreshVectors
<1>9. CASE FinishRefresh(p)
  <2>1. Step /\ Refreshed(p) /\ proc[p].pc \in {"v:more", "v:degraded"}
    BY <1>9 DEF FinishRefresh, At
  <2> QED
    BY <2>1, RefreshedDoes
<1> QED
  BY <1>1, <1>2, <1>3, <1>4, <1>5, <1>6, <1>7, <1>8, <1>9 DEF VectorStep

GraphMoves(p) ==
    /\ Acts(p)
    /\ proc[p].pc \in GraphPC \cup {"topics", "g:refresh", "idle"}
    /\ proc'[p].pc \in GraphPC \cup {"topics", "idle"}
    /\ UNCHANGED chunkVars

LEMMA GraphSet ==
    ASSUME WorkInv, NEW p \in Procs, NEW r, Set(p, r), Shape(r),
           proc[p].pc \in GraphPC \cup {"topics", "g:refresh"}, r.pc \in GraphPC \cup {"topics", "idle"},
           Counts, UNCHANGED <<lone, chunkVars>>
    PROVE  GraphMoves(p) /\ proc'[p] = r
<1>1. proc[p].pc # "idle"
  BY DEF GraphPC
<1> QED
  BY <1>1, SetActs DEF GraphMoves

\* A build goes on with another step, or is done.
LEMMA GraphGoto ==
    ASSUME WorkInv, NEW p \in Procs, NEW x \in GraphPC \cup {"topics"}, Goto(p, x),
           GraphShape(proc[p]), Counts, UNCHANGED <<lone, chunkVars>>
    PROVE  GraphMoves(p) /\ proc'[p] = [proc[p] EXCEPT !.pc = x]
<1>1. PICK r : r = [proc[p] EXCEPT !.pc = x]
  OBVIOUS
<1>2. Shape(r) /\ r.pc = x /\ proc[p].pc \in GraphPC \cup {"topics"}
  BY <1>1 DEF Shape, GraphShape, Has, GraphPC
<1> QED
  BY <1>1, <1>2, GraphSet DEF Goto

LEMMA NewBuildShape ==
    ASSUME NEW model, NEW space, NEW activate
    PROVE  /\ Shape(NewBuild(model, space, activate)) /\ GraphShape(NewBuild(model, space, activate))
           /\ NewBuild(model, space, activate).pc \in GraphPC
BY DEF NewBuild, Shape, GraphShape, Has, GraphPC

LEMMA GraphActs ==
    ASSUME WorkInv, NEW p \in Procs, GraphStep(p)
    PROVE  GraphMoves(p)
<1> USE IdleShape
<1>1. CASE StartGraphBuild(p)
  <2>1. PICK m, s, a : Start(p, "build", NewBuild(m, s, a))
    BY <1>1 DEF StartGraphBuild
  <2>2. PICK r : r = NewBuild(m, s, a)
    OBVIOUS
  <2>3. Begin(p, "build", r) /\ UNCHANGED chunkVars /\ Shape(r) /\ r.pc \in GraphPC
    BY <2>1, <2>2, NewBuildShape DEF Start
  <2> QED
    BY <2>3, StartActs DEF GraphMoves, Counted
<1>2. CASE RefreshGraph(p)
  <2>1. Step /\ proc[p].pc = "g:refresh"
    BY <1>2 DEF RefreshGraph, At
  <2>2. PICK r : Set(p, r) /\ (r = Idle \/ r = NewBuild(FALSE, 0, "yes"))
    BY <1>2 DEF RefreshGraph
  <2>3. Shape(r) /\ r.pc \in GraphPC \cup {"idle"}
    BY <2>2, NewBuildShape
  <2> QED
    BY <2>1, <2>2, <2>3, GraphSet, StepDoes
<1>3. CASE MarkStaleEvidence(p) \/ Project(p) \/ ModelAnswers(p) \/ Align(p) \/ BuildNeighbors(p)
           \/ SwitchPointer(p)
  <2>1. Step /\ proc[p].pc \in GraphPC /\ \E x \in GraphPC \cup {"topics"} : Goto(p, x)
    BY <1>3 DEF MarkStaleEvidence, Project, ModelAnswers, Align, BuildNeighbors, SwitchPointer, At, GraphPC
  <2>2. GraphShape(proc[p])
    BY <2>1, ShapeOf DEF WorkInv
  <2> QED
    BY <2>1, <2>2, GraphGoto, StepDoes
<1>4. CASE ListChunks(p) \/ NextChunk(p) \/ MarkSucceeded(p) \/ ExtractionFails(p)
  <2>1. /\ proc[p].pc \in GraphPC
        /\ Step \/ (Spend("fault") /\ UNCHANGED <<lone, chunkVars>>)
    BY <1>4 DEF ListChunks, NextChunk, MarkSucceeded, ExtractionFails, At, GraphPC
  <2>2. GraphShape(proc[p])
    BY <2>1, ShapeOf DEF WorkInv
  <2>3. \E r : /\ Set(p, r) /\ DOMAIN r = DOMAIN proc[p] /\ r.then = "idle" /\ r.pc \in GraphPC
    <3>1. CASE ListChunks(p)
      <4>1. PICK r : r = [proc[p] EXCEPT !.pc = "g:extract", !.todo = ActiveChunks]
        OBVIOUS
      <4>3. Set(p, r) /\ DOMAIN r = DOMAIN proc[p] /\ r.then = "idle" /\ r.pc \in GraphPC
        BY <2>2, <3>1, <4>1 DEF ListChunks, GraphShape, Has, GraphPC
      <4> QED
        BY <4>3
    <3>2. CASE NextChunk(p)
      <4>1. PICK k : \/ Set(p, [proc[p] EXCEPT !.todo = @ \ {k}])
                     \/ Set(p, [proc[p] EXCEPT !.todo = @ \ {k}, !.chunk = k, !.pc = "g:model"])
        BY <3>2 DEF NextChunk
      <4>2. PICK r : /\ Set(p, r)
                     /\ \/ r = [proc[p] EXCEPT !.todo = @ \ {k}]
                        \/ r = [proc[p] EXCEPT !.todo = @ \ {k}, !.chunk = k, !.pc = "g:model"]
        BY <4>1
      <4>3. r.pc \in {"g:extract", "g:model"} /\ r.then = "idle" /\ DOMAIN r = DOMAIN proc[p]
        BY <2>2, <3>2, <4>2 DEF NextChunk, At, GraphShape, Has
      <4> QED
        BY <4>2, <4>3 DEF GraphPC
    <3>3. CASE MarkSucceeded(p)
      <4>1. PICK r : r = [proc[p] EXCEPT !.chunk = 0, !.pc = "g:extract"]
        OBVIOUS
      <4>3. Set(p, r) /\ DOMAIN r = DOMAIN proc[p] /\ r.then = "idle" /\ r.pc \in GraphPC
        BY <2>2, <3>3, <4>1 DEF MarkSucceeded, GraphShape, Has, GraphPC
      <4> QED
        BY <4>3
    <3>4. CASE ExtractionFails(p)
      <4>1. PICK x \in {"g:failed", "g:extract"} : Set(p, [proc[p] EXCEPT !.chunk = 0, !.pc = x])
        BY <3>4 DEF ExtractionFails
      <4>2. PICK r : r = [proc[p] EXCEPT !.chunk = 0, !.pc = x]
        OBVIOUS
      <4>3. Set(p, r) /\ DOMAIN r = DOMAIN proc[p] /\ r.then = "idle" /\ r.pc \in GraphPC
        BY <2>2, <4>1, <4>2 DEF GraphShape, Has, GraphPC
      <4> QED
        BY <4>3
    <3> QED
      BY <1>4, <3>1, <3>2, <3>3, <3>4
  <2>4. PICK r : Set(p, r) /\ DOMAIN r = DOMAIN proc[p] /\ r.then = "idle" /\ r.pc \in GraphPC
    BY <2>3
  <2>5. Shape(r)
    BY <2>2, <2>4 DEF Shape, GraphShape, Has
  <2>6. Counts /\ UNCHANGED <<lone, chunkVars>>
    BY <2>1, StepDoes, SpendDoes DEF Counted
  <2> QED
    BY <2>1, <2>4, <2>5, <2>6, GraphSet
<1>5. CASE Finalize(p) \/ ReadPrevious(p) \/ BuildFails(p)
  <2>1. Step /\ proc[p].pc \in GraphPC
    BY <1>5 DEF Finalize, ReadPrevious, BuildFails, At, GraphPC
  <2>2. GraphShape(proc[p])
    BY <2>1, ShapeOf DEF WorkInv
  <2>3. CASE \E x \in GraphPC : Goto(p, x)
    BY <2>1, <2>2, <2>3, GraphGoto, StepDoes
  <2>4. CASE Set(p, Idle)
    BY <2>1, <2>4, GraphSet, StepDoes
  <2>5. CASE Set(p, [proc[p] EXCEPT !.pc = "g:switch", !.prev = served])
    <3>1. PICK r : r = [proc[p] EXCEPT !.pc = "g:switch", !.prev = served]
      OBVIOUS
    <3>2. Shape(r) /\ r.pc \in GraphPC
      BY <2>2, <3>1 DEF Shape, GraphShape, Has, GraphPC
    <3> QED
      BY <2>1, <2>5, <3>1, <3>2, GraphSet, StepDoes
  <2> QED
    BY <1>5, <2>3, <2>4, <2>5 DEF Finalize, ReadPrevious, BuildFails, GraphPC
<1>6. CASE BuildThrows(p)
  <2>1. /\ Goto(p, "g:failed") /\ Spend("fault") /\ UNCHANGED <<lone, chunkVars>>
        /\ proc[p].pc \in GraphPC \cup {"topics"}
        /\ proc[p].pc = "topics" => proc[p].then = "idle" /\ proc[p].gen # 0
    BY <1>6 DEF BuildThrows, Throw, GraphPCs, GraphPC, At
  <2>2. GraphShape(proc[p])
    BY <2>1, ShapeOf DEF WorkInv, AfterShape, VectorRefreshShape, Has, RefreshPC
  <2>3. Counts
    BY <2>1, SpendDoes DEF Counted
  <2> QED
    BY <2>1, <2>2, <2>3, GraphGoto DEF GraphPC
<1> QED
  BY <1>1, <1>2, <1>3, <1>4, <1>5, <1>6 DEF GraphStep

SynthMoves(p) ==
    /\ Acts(p)
    /\ proc[p].pc \in SynthPC \cup {"idle"} /\ proc'[p].pc \in SynthPC \cup {"idle"}
    /\ UNCHANGED chunkVars

LEMMA SynthSet ==
    ASSUME WorkInv, NEW p \in Procs, NEW r, Set(p, r), Shape(r), proc[p].pc \in SynthPC,
           r.pc \in SynthPC \cup {"idle"}, Counts, UNCHANGED <<lone, chunkVars>>
    PROVE  SynthMoves(p) /\ proc'[p] = r
<1>1. proc[p].pc # "idle"
  BY DEF SynthPC, TopicPC, ArtifactPC, ArchivePC
<1> QED
  BY <1>1, SetActs DEF SynthMoves

LEMMA SynthStart ==
    ASSUME WorkInv, NEW p \in Procs, NEW r, NEW k \in Counted, Start(p, k, r), Shape(r),
           r.pc \in SynthPC
    PROVE  SynthMoves(p) /\ proc'[p] = r /\ proc[p] = Idle
<1>1. Begin(p, k, r) /\ UNCHANGED chunkVars
  BY DEF Start
<1> QED
  BY <1>1, StartActs, IdleShape DEF SynthMoves

\* An archive goes on with another step.
LEMMA ArchiveGoto ==
    ASSUME WorkInv, NEW p \in Procs, NEW x \in ArchivePC, Goto(p, x), proc[p].pc \in ArchivePC,
           Counts, UNCHANGED <<lone, chunkVars>>
    PROVE  SynthMoves(p) /\ proc'[p] = [proc[p] EXCEPT !.pc = x]
<1>1. PICK r : r = [proc[p] EXCEPT !.pc = x]
  OBVIOUS
<1>2. ArtifactShape(proc[p])
  BY ShapeOf DEF WorkInv, ArtifactPC
<1>3. Shape(r) /\ r.pc = x /\ x \in SynthPC /\ proc[p].pc \in SynthPC
  BY <1>1, <1>2 DEF Shape, ArtifactShape, Has, ArchivePC, ArtifactPC, SynthPC
<1> QED
  BY <1>1, <1>3, SynthSet DEF Goto

LEMMA ArtifactActs ==
    ASSUME WorkInv, NEW p \in Procs, ArtifactStep(p)
    PROVE  SynthMoves(p)
<1> USE IdleShape
<1>1. CASE StartArtifact(p)
  <2>1. PICK r : Set(p, r) /\ r = [pc |-> "a:write", build |-> Len(builds) + 1]
    BY <1>1 DEF StartArtifact
  <2>2. Step /\ proc[p].pc \in SynthPC /\ r.pc \in SynthPC /\ Shape(r)
    BY <1>1, <2>1 DEF StartArtifact, At, SynthPC, ArtifactPC, ArchivePC, Shape, ArtifactShape, Has
  <2> QED
    BY <2>1, <2>2, SynthSet, StepDoes
<1>2. CASE WriteArchive(p) \/ FinishArtifact(p)
  <2>1. Step /\ proc[p].pc \in ArchivePC /\ \E x \in ArchivePC : Goto(p, x)
    BY <1>2 DEF WriteArchive, FinishArtifact, At, ArchivePC
  <2> QED
    BY <2>1, ArchiveGoto, StepDoes
<1>3. CASE UpdatePointers(p) \/ FailArtifact(p)
  <2>1. Step /\ proc[p].pc \in SynthPC /\ Set(p, Idle)
    BY <1>3 DEF UpdatePointers, FailArtifact, At, ArchivePC, ArtifactPC, SynthPC
  <2> QED
    BY <2>1, SynthSet, StepDoes
<1>4. CASE ArtifactThrows(p)
  <2>1. proc[p].pc \in ArchivePC /\ Goto(p, "a:failed") /\ Spend("fault") /\ UNCHANGED <<lone, chunkVars>>
    BY <1>4 DEF ArtifactThrows, Throw, ArchivePC
  <2>2. Counts /\ "a:failed" \in ArchivePC
    BY <2>1, SpendDoes DEF Counted, ArchivePC
  <2> QED
    BY <2>1, <2>2, ArchiveGoto
<1> QED
  BY <1>1, <1>2, <1>3, <1>4 DEF ArtifactStep

LEMMA TopicActs ==
    ASSUME WorkInv, NEW p \in Procs, TopicStep(p)
    PROVE  SynthMoves(p)
<1> USE IdleShape
<1>1. CASE StartTopicBuild(p) \/ StartRender(p)
  <2>1. PICK k, r :
          /\ k \in Counted /\ Start(p, k, r)
          /\ \/ r = [pc |-> "a:start", snap |-> topic.latest]
             \/ r = [pc |-> "t:search", version |-> topic.version, found |-> {},
                     claims |-> {}, disputed |-> {}, relations |-> {}, gen |-> 0, at |-> 0]
    BY <1>1 DEF StartTopicBuild, StartRender, Counted
  <2>2. Shape(r) /\ r.pc \in SynthPC
    BY <2>1 DEF Shape, TopicShape, ArtifactShape, Has, TopicPC, ArtifactPC, SynthPC
  <2> QED
    BY <2>1, <2>2, SynthStart
<1>2. CASE SearchTopic(p) \/ FollowGraph(p) \/ LoadClaims(p)
  <2>1. Step /\ proc[p].pc \in TopicPC
    BY <1>2 DEF SearchTopic, FollowGraph, LoadClaims, At, TopicPC
  <2>2. TopicShape(proc[p])
    BY <2>1, ShapeOf DEF WorkInv
  <2> DEFINE read(x, at) == [proc[p] EXCEPT !.pc = "t:graph", !.found = x, !.at = at]
             follow(x, g) == [proc[p] EXCEPT !.pc = "t:claims", !.found = {}, !.gen = g, !.claims = x]
             load(x, y, d) == [proc[p] EXCEPT !.pc = "t:save", !.claims = x, !.relations = y, !.disputed = d]
  <2>3. \E x, y, d : Set(p, read(x, y)) \/ Set(p, follow(x, y)) \/ Set(p, load(x, y, d))
    <3>1. CASE SearchTopic(p)
      <4>1. Set(p, read(ActiveChunks, used["change"]))
        BY <3>1 DEF SearchTopic
      <4> QED
        BY <4>1
    <3>2. CASE FollowGraph(p)
      <4>1. Set(p, follow(EvidenceForSeeds(proc[p].found), served))
        BY <3>2 DEF FollowGraph
      <4> QED
        BY <4>1
    <3>3. CASE LoadClaims(p)
      <4>1. PICK x, y, d : Set(p, load(x, y, d))
        BY <3>3 DEF LoadClaims
      <4> QED
        BY <4>1
    <3> QED
      BY <1>2, <3>1, <3>2, <3>3
  <2>4. PICK x, y, d : Set(p, read(x, y)) \/ Set(p, follow(x, y)) \/ Set(p, load(x, y, d))
    BY <2>3
  <2>5. PICK r : Set(p, r) /\ (r = read(x, y) \/ r = follow(x, y) \/ r = load(x, y, d))
    BY <2>4
  <2>6. Shape(r) /\ r.pc \in SynthPC /\ proc[p].pc \in SynthPC
    BY <2>1, <2>2, <2>5 DEF Shape, TopicShape, Has, TopicPC, SynthPC
  <2> QED
    BY <2>1, <2>5, <2>6, SynthSet, StepDoes
<1>3. CASE SaveReport(p)
  <2>1. Step /\ proc[p].pc \in SynthPC
    BY <1>3 DEF SaveReport, At, TopicPC, SynthPC
  <2>2. PICK r : Set(p, r) /\ (r = Idle \/ r = [pc |-> "a:start", snap |-> Len(reports) + 1])
    BY <1>3 DEF SaveReport
  <2>3. Shape(r) /\ r.pc \in SynthPC \cup {"idle"}
    BY <2>2 DEF Shape, ArtifactShape, Has, ArtifactPC, SynthPC
  <2> QED
    BY <2>1, <2>2, <2>3, SynthSet, StepDoes
<1> QED
  BY <1>1, <1>2, <1>3 DEF TopicStep

\* The topics are marked, and the command goes on or is done.
LEMMA InvalidateActs ==
    ASSUME WorkInv, NEW p \in Procs, InvalidateTopics(p)
    PROVE  /\ Acts(p) /\ proc[p].pc = "topics" /\ UNCHANGED <<used, chunkVars>>
           /\ \/ proc'[p] = Idle /\ proc[p].then = "idle"
              \/ /\ AfterShape(proc[p]) /\ proc[p].then = "v:refresh"
                 /\ proc'[p] = [proc[p] EXCEPT !.pc = "v:refresh"]
<1>1. Step /\ proc[p].pc = "topics" /\ proc[p].pc # "idle" /\ Continue(p)
  BY DEF InvalidateTopics, At
<1>2. AfterShape(proc[p]) \/ GraphShape(proc[p])
  BY <1>1, ShapeOf DEF WorkInv, VectorRefreshShape, Has, RefreshPC
<1>3. CASE proc[p].then = "idle"
  BY <1>1, <1>3, IdleShape, StepActs DEF Continue
<1>4. CASE proc[p].then # "idle"
  <2>1. AfterShape(proc[p]) /\ proc[p].then = "v:refresh" /\ DOMAIN proc[p] = {"pc", "then"}
    BY <1>2, <1>4 DEF AfterShape, GraphShape, Has
  <2>2. PICK r : r = [proc[p] EXCEPT !.pc = "v:refresh"]
    OBVIOUS
  <2>3. Set(p, r) /\ Shape(r)
    BY <1>1, <1>4, <2>1, <2>2 DEF Continue, Goto, Shape, AfterShape, Has
  <2> QED
    BY <1>1, <2>1, <2>2, <2>3, StepActs
<1> QED
  BY <1>3, <1>4

LEMMA PublishActs ==
    ASSUME WorkInv, NEW p \in Procs, Publish(p)
    PROVE  /\ Acts(p) /\ proc[p] = Idle /\ Spend("change")
           /\ proc'[p] = [pc |-> "topics", then |-> "v:refresh"]
<1>1. PICK r : Begin(p, "change", r) /\ r = [pc |-> "topics", then |-> "v:refresh"]
  BY DEF Publish
<1>2. Shape(r)
  BY <1>1 DEF Shape, AfterShape, Has
<1> QED
  BY <1>1, <1>2, StartActs DEF Counted

LEMMA PlanActs ==
    ASSUME WorkInv, NEW p \in Procs, ApplyPlan(p)
    PROVE  /\ Acts(p) /\ proc[p] = Idle /\ UNCHANGED chunkVars
           /\ proc'[p] = [pc |-> "topics", gen |-> 0, then |-> "idle"]
<1>1. PICK r : Begin(p, "apply", r) /\ UNCHANGED chunkVars /\ r = [pc |-> "topics", gen |-> 0, then |-> "idle"]
  BY DEF ApplyPlan, Start
<1>2. Shape(r)
  BY <1>1 DEF Shape, AfterShape, Has
<1> QED
  BY <1>1, <1>2, StartActs DEF Counted

LEMMA KillActs ==
    ASSUME WorkInv, NEW p \in Procs, Kill(p)
    PROVE  Acts(p) /\ proc'[p] = Idle /\ used'["fault"] # 0 /\ UNCHANGED <<chunkVars, lone>>
<1>1. p \in Busy /\ Spend("fault") /\ Set(p, Idle) /\ UNCHANGED <<chunkVars, lone>>
  BY DEF Kill, Fall
<1>2. proc[p].pc # "idle"
  BY <1>1, ShapeOf DEF Busy, WorkInv
<1> QED
  BY <1>1, <1>2, IdleShape, FaultActs

LEMMA AtomicDoes ==
    ASSUME WorkInv, NEW k \in Counted, Atomic(k)
    PROVE  /\ Outside /\ UNCHANGED <<limit, chunkVars>> /\ Spend(k)
           /\ lone' => lone /\ Busy = {}
<1>1. Spend(k) /\ lone' = (lone /\ Busy = {}) /\ UNCHANGED <<limit, proc, chunkVars>>
  BY DEF Atomic
<1>2. Counts
  BY <1>1, SpendDoes
<1> QED
  BY <1>1, <1>2 DEF Outside

LEMMA DriftDoes ==
    ASSUME WorkInv, Drift
    PROVE  Outside /\ UNCHANGED <<limit, chunkVars, lone>> /\ used'["drift"] # 0
<1>1. Spend("drift") /\ UNCHANGED <<limit, proc, chunkVars, lone>>
  BY DEF Drift
<1> QED
  BY <1>1, SpendDoes DEF Outside, Counted

\* What a user and a plan do is one transaction.
LEMMA AtomicActs ==
    ASSUME WorkInv,
           CreateSpace \/ CreateVectorPlan \/ CreatePlan \/ Moderate \/ CreateTopic \/ UpdateTopic
    PROVE  /\ Outside /\ UNCHANGED <<limit, chunkVars>>
           /\ lone' => lone /\ Busy = {}
           /\ \A k \in {"change", "fault", "drift"} : used'[k] = used[k]
<1>1. PICK k \in Counted \ {"change", "fault", "drift"} : Atomic(k)
  BY DEF CreateSpace, CreateVectorPlan, CreatePlan, Moderate, ModerateClaim, ModerateRelation,
         ModerateEntity, CreateTopic, UpdateTopic, Counted
<1>2. {"change", "fault", "drift"} \subseteq Kinds
  BY CountedAssumption DEF Counted
<1> QED
  BY <1>1, <1>2, AtomicDoes, SpendDoes

LEMMA WorkStarts == Init => WorkInv
BY DEF Init, CommandsInit, WorkInit, WorkInv, Shape, Idle

LEMMA WorkSteps == WorkInv /\ [Next]_vars => WorkInv' /\ (lone' => lone)
<1> SUFFICES ASSUME WorkInv, [Next]_vars PROVE WorkInv' /\ (lone' => lone)
  OBVIOUS
<1>1. CASE UNCHANGED vars
  BY <1>1 DEF vars, commandVars, workVars, WorkInv
<1>2. CASE CreateSpace \/ CreateVectorPlan \/ CreatePlan \/ Moderate \/ CreateTopic \/ UpdateTopic
  BY <1>2, AtomicActs, OutsideKeeps
<1>3. CASE Drift
  BY <1>3, DriftDoes, OutsideKeeps
<1>4. ASSUME NEW p \in Procs,
             \/ VectorStep(p) \/ GraphStep(p) \/ ApplyPlan(p) \/ InvalidateTopics(p) \/ TopicStep(p)
             \/ ArtifactStep(p) \/ Publish(p) \/ Kill(p)
      PROVE  WorkInv' /\ (lone' => lone)
  <2>1. Acts(p)
    BY <1>4, VectorActs, GraphActs, PlanActs, InvalidateActs, TopicActs, ArtifactActs, PublishActs,
       KillActs DEF VectorMoves, GraphMoves, SynthMoves
  <2> QED
    BY <2>1, ActsKeep
<1> QED
  BY <1>1, <1>2, <1>3, <1>4 DEF Next

-----------------------------------------------------------------------------
(* Merged entities. *)

\* A plan for a merge names entities.
PlansTyped ==
    \A x \in plans :
        /\ x.do.action \in {"merge", "entity", "relation", "activate"}
        /\ x.do.action = "merge" => x.do.source \in Entities /\ x.do.target \in Entities
RedirectInv ==
    PlansTyped /\ redirect \in [Entities -> Entities \cup {0}] /\ RedirectsEnd

\* A merge closes no cycle.
LEMMA MergeEnds ==
    ASSUME RedirectInv, NEW s \in Entities, NEW t \in Entities, ~ RedirectWouldCycle(s, t),
           redirect' = [redirect EXCEPT ![s] = t]
    PROVE  redirect' \in [Entities -> Entities \cup {0}] /\ RedirectsEnd'
<1>1. PICK C \in SUBSET Entities :
        t \in C /\ s \notin C /\ \A e \in C : redirect[e] # 0 => redirect[e] \in C
  BY DEF RedirectWouldCycle
<1>2. 0 \notin Entities
  BY EntitiesAssumption
<1>3. ASSUME NEW S \in SUBSET Entities, S # {}
      PROVE  \E e \in S : redirect'[e] \notin S
  <2> SUFFICES ASSUME \A e \in S : redirect'[e] \in S PROVE FALSE
    OBVIOUS
  <2>1. \A e \in S : e # s => redirect[e] \in S
    BY DEF RedirectInv
  <2>2. CASE S \cap C # {}
    <3>1. \A e \in S \cap C : redirect[e] \in S \cap C
      BY <1>1, <1>2, <2>1
    <3> QED
      BY <2>2, <3>1 DEF RedirectInv, RedirectsEnd
  <2>3. CASE S \cap C = {}
    <3>1. s \notin S
      BY <1>1, <2>3 DEF RedirectInv
    <3>2. \A e \in S : redirect[e] \in S
      BY <2>1, <3>1
    <3> QED
      BY <1>3, <3>2 DEF RedirectInv, RedirectsEnd
  <2> QED
    BY <2>2, <2>3
<1> QED
  BY <1>3 DEF RedirectInv, RedirectsEnd

LEMMA RedirectSteps == RedirectInv /\ [Next]_vars => RedirectInv'
<1> SUFFICES ASSUME RedirectInv, [Next]_vars PROVE RedirectInv'
  OBVIOUS
<1>1. CASE UNCHANGED <<plans, redirect>>
  BY <1>1 DEF RedirectInv, PlansTyped, RedirectsEnd
<1>2. CASE CreatePlan
  <2>1. UNCHANGED redirect
    BY <1>2 DEF CreatePlan
  <2>2. PICK plan, before : /\ plans' = plans \cup {[do |-> plan, before |-> before]}
                            /\ plan.action \in {"merge", "entity", "relation", "activate"}
                            /\ plan.action = "merge" =>
                                 plan.source \in Entities /\ plan.target \in Entities
    BY <1>2 DEF CreatePlan
  <2> QED
    BY <2>1, <2>2 DEF RedirectInv, PlansTyped, RedirectsEnd
<1>3. ASSUME NEW p \in Procs, ApplyPlan(p) PROVE RedirectInv'
  <2>1. UNCHANGED plans
    BY <1>3 DEF ApplyPlan
  <2>2. PICK x \in plans :
          CASE x.do.action = "merge"    -> ApplyMerge(x.do, x.before)
            [] x.do.action = "entity"   -> ApplyEntity(x.do)
            [] x.do.action = "relation" -> ApplyRelation(x.do, x.before)
            [] x.do.action = "activate" -> ApplyActivation(x.do, x.before)
    BY <1>3 DEF ApplyPlan
  <2>3. CASE x.do.action = "merge"
    <3>1. PICK s \in Entities, t \in Entities :
            ~ RedirectWouldCycle(s, t) /\ redirect' = [redirect EXCEPT ![s] = t]
      BY <2>2, <2>3 DEF ApplyMerge, RedirectInv, PlansTyped
    <3> QED
      BY <2>1, <3>1, MergeEnds DEF RedirectInv, PlansTyped
  <2>4. CASE x.do.action \in {"entity", "relation", "activate"}
    BY <2>1, <2>2, <2>4 DEF ApplyEntity, ApplyRelation, ApplyActivation, RedirectInv, PlansTyped,
       RedirectsEnd
  <2>5. x.do.action \in {"merge", "entity", "relation", "activate"}
    BY DEF RedirectInv, PlansTyped
  <2> QED
    BY <2>3, <2>4, <2>5
<1> QED
  BY <1>1, <1>2, <1>3 DEF Next, vars, planVars, Moderate, ModerateClaim, ModerateRelation, Moderated,
     ModerateEntity, PlansTyped

\* Whatever is merged from plans made before each other: every set of merged
\* entities has one that leads out of it, so that redirects never go in circles.
THEOREM RedirectsAreAcyclic == Spec => []RedirectsEnd
<1>1. Init => RedirectInv
  <2> SUFFICES ASSUME Init PROVE RedirectInv
    OBVIOUS
  <2>1. plans = {} /\ redirect = [e \in Entities |-> 0] /\ 0 \notin Entities
    BY EntitiesAssumption DEF Init, PlansInit
  <2>2. ASSUME NEW S \in SUBSET Entities, NEW e \in S PROVE redirect[e] \notin S
    BY <2>1
  <2> QED
    BY <2>1, <2>2 DEF RedirectInv, PlansTyped, RedirectsEnd
<1> QED
  BY <1>1, RedirectSteps, PTL DEF Spec, RedirectInv

-----------------------------------------------------------------------------
(* The vector spaces. *)

ChunkStates == {"absent", "active", "tombstoned"}
Known == {k \in Chunks : chunk[k] # "absent"}
KnowledgeInv ==
    /\ chunk \in [Chunks -> ChunkStates] /\ back \subseteq Known
    /\ ~ emptied => ActiveChunks # {}

SpaceStates == {"none", "building", "verifying", "ready", "failed", "deprecated", "deleted"}
Vector == [state : {"none", "active", "stale"}, weights : Nat]
SpacePC == VectorPC \ {"v:refresh", "v:test", "v:open"}
TodoPC == BuildPC \cup {"v:more", "v:degraded"}

TypedAt(c) ==
    /\ c.pc \in SpacePC => c.space \in Spaces
    /\ c.pc \in TodoPC => c.todo \subseteq Known
    /\ c.pc = "v:save" => c.chunk \in Known /\ c.weights \in Nat

\* Vectors are of chunks that were there.
TypedRows ==
    /\ DOMAIN spaces = Spaces
    /\ \A s \in Spaces : /\ DOMAIN spaces[s] = {"state", "base", "runs"}
                         /\ spaces[s].state \in SpaceStates /\ spaces[s].base \in Nat
    /\ vec \in [Spaces -> [Chunks -> Vector]]
    /\ \A s \in Spaces, k \in Chunks :
         /\ vec[s][k].state = "none" => vec[s][k] = NoVector
         /\ vec[s][k].state # "none" => k \in Known
    /\ current \in {0} \cup Spaces /\ weights \in Models /\ weights \in Nat \ {0}
    /\ followed \subseteq Models \X Models
    /\ circuit \in {"closed", "open", "half_open"}
    /\ \A x \in vplans : x.space \in Spaces /\ x.do \in {"activate", "delete"}
VectorTyped == TypedRows /\ \A p \in Procs : TypedAt(proc[p])

BasedAt(c) ==
    /\ c.pc \in {"v:next", "v:save", "v:more", "v:verdict", "v:activate"} =>
         spaces[c.space].base # 0
    /\ c.pc = "v:save" => Before(spaces[c.space].base, c.weights) /\ Before(c.weights, weights)

\* Whatever is used or written has passed a sentinel once, and a vector is of
\* what the provider has served since.
BasedRows ==
    /\ \A s \in Spaces : /\ spaces[s].base # 0 => Before(spaces[s].base, weights)
                         /\ spaces[s].state \in {"verifying", "ready", "deprecated"} => spaces[s].base # 0
    /\ current # 0 => spaces[current].base # 0
    /\ \A s \in Spaces, k \in Chunks : vec[s][k].state = "active" =>
         /\ spaces[s].base # 0
         /\ Before(spaces[s].base, vec[s][k].weights) /\ Before(vec[s][k].weights, weights)
BasedInv == BasedRows /\ \A p \in Procs : BasedAt(proc[p])

FoundAt(c) ==
    /\ c.pc = "v:verdict" =>
         \A k \in Chunks : vec[c.space][k].state = "active" =>
             /\ Before(spaces[c.space].base, vec[c.space][k].weights)
             /\ Before(vec[c.space][k].weights, spaces[c.space].base)
    /\ c.pc = "v:activate" => spaces[c.space].state \in {"ready", "deprecated"}
    /\ c.pc = "v:delete" => c.space # current

\* One after another: what a command has found out is so when it acts on it.
FoundRows == current # 0 => spaces[current].state \notin {"none", "deprecated", "deleted"}
FoundInv == lone => FoundRows /\ \A p \in Procs : FoundAt(proc[p])

\* Nothing has failed, and no chunk has come back or left none.
Smooth ==
    lone /\ used["fault"] = 0 /\ used["drift"] = 0 /\ back = {} /\ ~ emptied

\* The refresh after an ingestion will come to the chunk.
Owed(c, k) ==
    \/ c.pc \in {"topics", "v:refresh"} /\ "then" \in DOMAIN c /\ (c.pc = "topics" => c.then = "v:refresh")
    \/ c.pc = "v:more" /\ k \in c.todo
    \/ c.pc = "v:save" /\ c.loop = "v:more" /\ k \in c.todo \cup {c.chunk}

SmoothAt(c) ==
    /\ c.pc \notin {"v:failed", "v:degraded", "v:open", "v:abort"}
    /\ c.pc \in BuildPC /\ c.loop = "v:next" => c.space # current
    /\ c.pc = "v:more" \/ (c.pc = "v:save" /\ c.loop = "v:more") => c.space = current
    /\ c.pc = "v:activate" => Missing(c.space) = {}

SmoothRows ==
    /\ weights = 1 /\ followed = {} /\ circuit # "open"
    /\ \A s \in Spaces, k \in Chunks : vec[s][k].state = "stale" => chunk[k] = "tombstoned"
    /\ current # 0 => spaces[current].state = "ready"
SmoothInv ==
    Smooth =>
        /\ SmoothRows
        /\ current # 0 => \A k \in Missing(current) : \E p \in Procs : Owed(proc[p], k)
        /\ \A p \in Procs : SmoothAt(proc[p])

VectorInv == WorkInv /\ KnowledgeInv /\ VectorTyped /\ BasedInv /\ FoundInv /\ SmoothInv

LEMMA ActsDo ==
    ASSUME WorkInv, NEW p \in Procs, Acts(p)
    PROVE  /\ Smooth' /\ UNCHANGED chunkVars => Smooth
           /\ \A q \in Procs : q # p => proc'[q] = proc[q]
           /\ lone' => lone /\ \A q \in Procs : q # p => proc[q] = Idle /\ proc'[q] = Idle
<1>1. lone' => lone /\ Alone(p) /\ Alone(p)'
  BY ActsKeep
<1>2. {"fault", "drift"} \subseteq Kinds /\ used["fault"] \in Nat /\ used["drift"] \in Nat
      /\ used["fault"] <= used'["fault"] /\ used["drift"] <= used'["drift"]
  BY CountedAssumption DEF Acts, Counts, WorkInv, Counted
<1>3. Smooth' /\ UNCHANGED chunkVars => Smooth
  BY <1>1, <1>2 DEF Smooth, chunkVars
<1> QED
  BY <1>1, <1>3 DEF Acts, Alone

\* Idle processes are at no step of a vector command.
LEMMA IdleIsElsewhere ==
    /\ Idle.pc \notin VectorPC /\ \A k : ~ Owed(Idle, k)
BY DEF Idle, VectorPC, BuildPC, CheckPC, Owed

LEMMA VectorPCs ==
    /\ SpacePC \subseteq VectorPC /\ TodoPC \subseteq VectorPC /\ BuildPC \subseteq VectorPC
    /\ {"v:next", "v:save", "v:more", "v:verdict", "v:activate", "v:delete", "v:failed", "v:degraded",
        "v:open", "v:abort", "v:check", "v:test", "v:refresh", "v:sentinel"} \subseteq VectorPC
BY DEF SpacePC, TodoPC, VectorPC, BuildPC, CheckPC

\* A process goes on and leaves the spaces and the vectors alone.
LEMMA VectorsStay ==
    ASSUME VectorInv, NEW p \in Procs, Acts(p),
           UNCHANGED <<chunkVars, spaces, vec, current, weights, followed>>,
           circuit' \in {"closed", "open", "half_open"}, Smooth' => circuit' # "open",
           \A x \in vplans' : x.space \in Spaces /\ x.do \in {"activate", "delete"},
           TypedAt(proc'[p]), BasedAt(proc'[p]),
           lone' => FoundAt(proc'[p]),
           Smooth' => SmoothAt(proc'[p]),
           Smooth' /\ current # 0 => \A k \in Missing(current) : Owed(proc[p], k) => Owed(proc'[p], k)
    PROVE  VectorInv'
<1>1. WorkInv'
  BY ActsKeep DEF VectorInv
<1>2. /\ \A q \in Procs : q # p => proc'[q] = proc[q]
      /\ lone' => lone
      /\ Smooth' => Smooth
  BY ActsDo DEF VectorInv
<1>4. UNCHANGED <<chunk, back, emptied, spaces, vec, current, weights, followed>>
  BY DEF chunkVars
<1>5. KnowledgeInv'
  BY <1>4 DEF VectorInv, KnowledgeInv, Known, ActiveChunks
<1>6. VectorTyped'
  <2>1. \A q \in Procs : TypedAt(proc'[q])
    BY <1>2 DEF VectorInv, VectorTyped, TypedRows
  <2>2. \A q \in Procs : TypedAt(proc[q])'
    BY <1>4, <2>1 DEF TypedAt, Known
  <2> QED
    BY <1>4, <2>2 DEF VectorInv, VectorTyped, TypedRows, Known
<1>7. BasedInv'
  <2>1. \A q \in Procs : BasedAt(proc'[q])
    BY <1>2 DEF VectorInv, BasedInv, BasedRows
  <2>2. \A q \in Procs : BasedAt(proc[q])'
    BY <1>4, <2>1 DEF BasedAt, Before
  <2> QED
    BY <1>4, <2>2 DEF VectorInv, BasedInv, BasedRows, Before
<1>8. FoundInv'
  <2>1. lone' => \A q \in Procs : FoundAt(proc'[q])
    BY <1>2 DEF VectorInv, FoundInv, FoundRows
  <2>2. lone' => \A q \in Procs : FoundAt(proc[q])'
    BY <1>4, <2>1 DEF FoundAt, Before
  <2> QED
    BY <1>2, <1>4, <2>2 DEF VectorInv, FoundInv, FoundRows
<1>9. SmoothInv'
  <2> SUFFICES ASSUME Smooth' PROVE SmoothInv'
    BY DEF SmoothInv, SmoothRows
  <2>1. Smooth
    BY <1>2
  <2>2. \A s : Missing(s)' = Missing(s)
    BY <1>4 DEF Missing, ActiveChunks
  <2>3. ASSUME NEW k \in Missing(current), current # 0 PROVE \E q \in Procs : Owed(proc'[q], k)
    <3>1. PICK q \in Procs : Owed(proc[q], k)
      BY <2>1, <2>3 DEF VectorInv, SmoothInv, SmoothRows
    <3> QED
      BY <1>2, <2>3, <3>1
  <2>4. current # 0 => /\ spaces'[current].state = "ready"
                       /\ \A k \in Missing(current)' : \E q \in Procs : Owed(proc'[q], k)
    BY <1>4, <2>1, <2>2, <2>3 DEF VectorInv, SmoothInv, SmoothRows
  <2>5. \A q \in Procs : SmoothAt(proc'[q])
    BY <1>2, <2>1 DEF VectorInv, SmoothInv, SmoothRows
  <2>6. \A q \in Procs : SmoothAt(proc[q])'
    BY <1>4, <2>2, <2>5 DEF SmoothAt
  <2> QED
    BY <1>4, <2>1, <2>2, <2>4, <2>6 DEF VectorInv, SmoothInv, SmoothRows, Owed
<1> QED
  BY <1>1, <1>5, <1>6, <1>7, <1>8, <1>9 DEF VectorInv

\* A step that is none of a vector command.
LEMMA VectorFrame ==
    ASSUME VectorInv, NEW p \in Procs, Acts(p), UNCHANGED <<vectorVars, chunkVars>>,
           proc'[p].pc \notin VectorPC, \A k : ~ Owed(proc[p], k)
    PROVE  VectorInv'
<1>1. UNCHANGED <<chunkVars, spaces, vec, current, weights, followed, circuit, vplans>>
  BY DEF vectorVars
<1>2. TypedAt(proc'[p]) /\ BasedAt(proc'[p]) /\ FoundAt(proc'[p]) /\ SmoothAt(proc'[p])
  BY VectorPCs DEF TypedAt, BasedAt, FoundAt, SmoothAt
<1>3. Smooth' => Smooth
  BY <1>1, ActsDo DEF VectorInv
<1>4. circuit' \in {"closed", "open", "half_open"} /\ (Smooth' => circuit' # "open")
      /\ \A x \in vplans' : x.space \in Spaces /\ x.do \in {"activate", "delete"}
  BY <1>1, <1>3 DEF VectorInv, VectorTyped, TypedRows, SmoothInv, SmoothRows
<1> QED
  BY <1>1, <1>2, <1>4, VectorsStay

LEMMA OutsideDoes ==
    ASSUME WorkInv, Outside
    PROVE  /\ lone' => lone
           /\ Smooth' /\ UNCHANGED chunkVars => Smooth
<1>1. {"fault", "drift"} \subseteq Kinds /\ used["fault"] \in Nat /\ used["drift"] \in Nat
      /\ used["fault"] <= used'["fault"] /\ used["drift"] <= used'["drift"]
  BY CountedAssumption DEF Outside, Counts, WorkInv, Counted
<1>2. lone' => lone
  BY OutsideKeeps
<1> QED
  BY <1>1, <1>2 DEF Smooth, chunkVars

\* A step of no process that leaves the vectors alone.
LEMMA VectorOutside ==
    ASSUME VectorInv, Outside, UNCHANGED <<chunkVars, spaces, vec, current, weights, followed, circuit>>,
           \A x \in vplans' : x.space \in Spaces /\ x.do \in {"activate", "delete"}
    PROVE  VectorInv'
<1>1. WorkInv' /\ (lone' => lone) /\ (Smooth' => Smooth) /\ UNCHANGED proc
  BY OutsideKeeps, OutsideDoes DEF VectorInv, Outside
<1>2. UNCHANGED <<chunk, back, emptied, spaces, vec, current, weights, followed, circuit>>
  BY DEF chunkVars
<1>3. KnowledgeInv' /\ VectorTyped'
  BY <1>1, <1>2 DEF VectorInv, KnowledgeInv, Known, ActiveChunks, VectorTyped, TypedRows, TypedAt
<1>4. BasedInv' /\ FoundInv'
  BY <1>1, <1>2 DEF VectorInv, BasedInv, BasedRows, BasedAt, FoundInv, FoundRows, FoundAt, Before
<1>5. SmoothInv'
  BY <1>1, <1>2 DEF VectorInv, SmoothInv, SmoothRows, SmoothAt, Missing, ActiveChunks, Owed
<1> QED
  BY <1>1, <1>3, <1>4, <1>5 DEF VectorInv

LEMMA VectorInvOf ==
    ASSUME VectorInv, NEW p \in Procs
    PROVE  /\ TypedAt(proc[p]) /\ BasedAt(proc[p]) /\ (lone => FoundAt(proc[p]))
           /\ (Smooth => SmoothAt(proc[p]))
           /\ circuit \in {"closed", "open", "half_open"} /\ (Smooth => circuit # "open")
           /\ \A x \in vplans : x.space \in Spaces /\ x.do \in {"activate", "delete"}
           /\ WorkInv /\ Shape(proc[p])
BY DEF VectorInv, VectorTyped, TypedRows, BasedInv, BasedRows, FoundInv, FoundRows, SmoothInv, SmoothRows, WorkInv

LEMMA StartVerifyKeeps ==
    ASSUME VectorInv, NEW p \in Procs, StartVerify(p) \/ StartVectorRefresh(p) \/ ApplyVectorPlan(p)
    PROVE  VectorInv'
<1>1. UNCHANGED <<spaces, vec, current, weights, followed, circuit, vplans>>
  BY DEF StartVerify, StartVectorRefresh, ApplyVectorPlan, vectorVars
<1>2. PICK k, r :
        /\ k \in Counted /\ Start(p, k, r)
        /\ \/ r = [pc |-> "v:refresh", then |-> "idle"]
           \/ \E s \in Spaces : r = [pc |-> "v:check", space |-> s]
           \/ \E s \in Spaces : /\ r = [pc |-> "v:activate", space |-> s]
                                /\ spaces[s].state \in {"ready", "deprecated"} /\ Missing(s) = {}
           \/ \E s \in Spaces : r = [pc |-> "v:delete", space |-> s] /\ s # current
  <2>1. CASE StartVerify(p) \/ StartVectorRefresh(p)
    BY <2>1 DEF StartVerify, StartVectorRefresh, Counted
  <2>2. CASE ApplyVectorPlan(p)
    <3>1. PICK x \in vplans :
            /\ IF x.do = "activate"
               THEN spaces[x.space].state \in {"ready", "deprecated"} /\ Covered(x.space)
               ELSE current # x.space
            /\ Start(p, "vapply", [pc |-> IF x.do = "activate" THEN "v:activate" ELSE "v:delete",
                                   space |-> x.space])
      BY <2>2 DEF ApplyVectorPlan
    <3>2. x.space \in Spaces /\ "vapply" \in Counted
      BY VectorInvOf DEF Counted
    <3>3. CASE x.do = "activate"
      <4>1. PICK r : Start(p, "vapply", r) /\ r = [pc |-> "v:activate", space |-> x.space]
        BY <3>1, <3>3
      <4> QED
        BY <3>1, <3>2, <3>3, <4>1 DEF Covered
    <3>4. CASE x.do # "activate"
      <4>1. PICK r : Start(p, "vapply", r) /\ r = [pc |-> "v:delete", space |-> x.space]
        BY <3>1, <3>4
      <4> QED
        BY <3>1, <3>2, <3>4, <4>1
    <3> QED
      BY <3>3, <3>4
  <2> QED
    BY <2>1, <2>2
<1>3. Shape(r) /\ r.pc \in VectorPC
  BY <1>2 DEF Shape, AfterShape, VectorShape, Has, CheckPC, VectorPC
<1>4. VectorMoves(p) /\ proc'[p] = r /\ proc[p] = Idle
  BY <1>2, <1>3, VectorStart DEF VectorInv
<1>5. Acts(p) /\ UNCHANGED chunkVars
  BY <1>4 DEF VectorMoves
<1>6. TypedAt(r)
  BY <1>2 DEF TypedAt, TodoPC, BuildPC, SpacePC, VectorPC
<1>7. BasedAt(r)
  BY <1>2 DEF BasedAt, VectorInv, BasedInv, BasedRows
<1>8. FoundAt(r) /\ SmoothAt(r)
  BY <1>2 DEF FoundAt, SmoothAt, BuildPC
<1>9. Smooth' => Smooth
  BY <1>5, ActsDo DEF VectorInv
<1> QED
  BY <1>1, <1>4, <1>5, <1>6, <1>7, <1>8, <1>9, IdleIsElsewhere, VectorInvOf, VectorsStay

\* A command that ends, or whose test of the model starts or ends.
LEMMA VectorEnds ==
    ASSUME VectorInv, NEW p \in Procs, VerifyAborts(p) \/ StartTest(p) \/ EndTest(p)
    PROVE  VectorInv'
<1>1. UNCHANGED <<spaces, vec, current, weights, followed, vplans>>
  BY DEF VerifyAborts, StartTest, EndTest, vectorVars
<1>2. VectorMoves(p)
  BY VectorActs DEF VectorInv, VectorStep
<1>3. Acts(p) /\ UNCHANGED chunkVars
  BY <1>2 DEF VectorMoves
<1>4. Smooth' => Smooth
  BY <1>3, ActsDo DEF VectorInv
<1>5. PICK r : Set(p, r) /\ (r = Idle \/ r = [pc |-> "v:test"])
  BY DEF VerifyAborts, StartTest, EndTest, Start, Begin, Launch
<1>6. proc'[p] = r
  BY <1>5 DEF Set, VectorInv, WorkInv
<1>7. circuit' \in {"closed", "open", "half_open"} /\ (Smooth' => circuit' # "open")
  <2>1. CASE VerifyAborts(p) \/ StartTest(p)
    BY <1>4, <2>1, VectorInvOf DEF VerifyAborts, StartTest, vectorVars
  <2>2. CASE EndTest(p)
    BY <1>4, <2>2, VectorInvOf DEF EndTest, At, SmoothAt
  <2> QED
    BY <2>1, <2>2
<1>8. TypedAt(r) /\ BasedAt(r) /\ FoundAt(r) /\ SmoothAt(r)
  BY <1>5 DEF TypedAt, BasedAt, FoundAt, SmoothAt, SpacePC, TodoPC, BuildPC, VectorPC, CheckPC, Idle
<1>9. \A k : ~ Owed(proc[p], k)
  <2>1. proc[p].pc \in {"v:abort", "v:test", "v:open", "idle"}
    BY DEF VerifyAborts, StartTest, EndTest, Start, Begin, Launch, At
  <2> QED
    BY <2>1 DEF Owed
<1> QED
  BY <1>1, <1>3, <1>6, <1>7, <1>8, <1>9, VectorInvOf, VectorsStay

\* Every nonempty set of naturals has a least element.
LEMMA LeastNatural ==
    ASSUME NEW S, S \subseteq Nat, S # {}
    PROVE  \E m \in S : \A k \in S : m <= k
<1> DEFINE R == OpToRel(<, Nat)
<1>1. IsWellFoundedOn(R, Nat)
  BY NatLessThanWellFounded
<1>2. \A i, j \in Nat : <<i, j>> \in R <=> i < j
  BY DEF OpToRel
<1> HIDE DEF R
<1>3. PICK m \in S : \A k \in S : ~ (<<k, m>> \in R)
  BY <1>1, WFMin
<1>4. ASSUME NEW k \in S PROVE m <= k
  <2>1. ~ (k < m) /\ k \in Nat /\ m \in Nat
    BY <1>2, <1>3
  <2> QED
    BY <2>1
<1> QED
  BY <1>4

\* The least chunk of those that are left is one of them.
LEMMA LeastIn ==
    ASSUME NEW S, S \subseteq Nat, S # {}
    PROVE  Min(S) \in S
<1>1. \E m \in S : \A k \in S : m <= k
  BY LeastNatural
<1> QED
  BY <1>1 DEF Min

LEMMA EmbedNextKeeps ==
    ASSUME VectorInv, NEW p \in Procs, EmbedNext(p)
    PROVE  VectorInv'
<1> USE VectorInvOf
<1>1. UNCHANGED <<spaces, vec, current, weights, followed, circuit, vplans>>
  BY DEF EmbedNext, vectorVars
<1>2. VectorMoves(p)
  BY VectorActs DEF VectorInv, VectorStep
<1>3. Acts(p) /\ UNCHANGED chunkVars
  BY <1>2 DEF VectorMoves
<1>4. (Smooth' => Smooth) /\ (lone' => lone)
  BY <1>3, ActsDo DEF VectorInv
<1>5. PICK c : c = proc[p]
  OBVIOUS
<1>6. c.pc \in {"v:next", "v:more"} /\ c.todo # {}
  BY <1>5 DEF EmbedNext
<1>7. (VectorBuildShape(c) /\ c.pc = "v:next") \/ (VectorRefreshShape(c) /\ c.pc = "v:more")
  BY <1>5, <1>6, ShapeOf DEF VectorPC, BuildPC, VectorShape, Has, CheckPC, VectorBuildShape,
     VectorRefreshShape, RefreshPC
<1>8. c.space \in Spaces /\ c.todo \subseteq Known
  BY <1>5, <1>6, VectorPCs DEF TypedAt, SpacePC, TodoPC, BuildPC
<1>9. PICK k : k = Min(c.todo)
  OBVIOUS
<1>10. k \in c.todo /\ k \in Known
  <2>1. c.todo \subseteq Nat
    BY <1>8, CommandsAssumption DEF Known
  <2> QED
    BY <1>6, <1>8, <1>9, <2>1, LeastIn
<1>11. PICK r :
         /\ Set(p, r)
         /\ \/ /\ r = [c EXCEPT !.todo = c.todo \ {k}] /\ c.pc = "v:next"
            \/ r = [c EXCEPT !.todo = c.todo \ {k}, !.chunk = k, !.weights = weights, !.pc = "v:save"]
  <2> DEFINE skip == At(p, "v:next") /\ vec[proc[p].space][Min(proc[p].todo)].state = "active"
  <2>1. Set(p, IF skip THEN [proc[p] EXCEPT !.todo = @ \ {Min(proc[p].todo)}]
               ELSE [proc[p] EXCEPT !.todo = @ \ {Min(proc[p].todo)}, !.chunk = Min(proc[p].todo),
                                    !.weights = weights, !.pc = "v:save"])
    BY DEF EmbedNext
  <2>2. CASE skip
    BY <1>5, <1>9, <2>1, <2>2 DEF At
  <2>3. CASE ~ skip
    BY <1>5, <1>9, <2>1, <2>3
  <2> QED
    BY <2>2, <2>3
<1>12. proc'[p] = r
  BY <1>11 DEF Set, VectorInv, WorkInv
<1>13. /\ r.space = c.space /\ r.todo = c.todo \ {k} /\ r.loop = c.loop
       /\ \/ r.pc = "v:next" /\ c.pc = "v:next"
          \/ r.pc = "v:save" /\ r.chunk = k /\ r.weights = weights
  BY <1>7, <1>11 DEF VectorBuildShape, VectorRefreshShape, Has
<1>14. c.loop = IF c.pc = "v:next" THEN "v:next" ELSE "v:more"
  BY <1>7 DEF VectorBuildShape, VectorRefreshShape
<1>15. TypedAt(r)
  BY <1>8, <1>10, <1>13 DEF TypedAt, VectorInv, VectorTyped, TypedRows
<1>16. BasedAt(r)
  <2>1. spaces[c.space].base # 0 /\ Before(spaces[c.space].base, weights)
    BY <1>5, <1>6, <1>8 DEF BasedAt, BasedRows, VectorInv, BasedInv
  <2> QED
    BY <1>13, <2>1 DEF BasedAt, Before
<1>17. FoundAt(r)
  BY <1>13 DEF FoundAt
<1>18. Smooth' => SmoothAt(r)
  BY <1>4, <1>5, <1>6, <1>13, <1>14 DEF SmoothAt, BuildPC
<1>19. \A j : Owed(c, j) => Owed(r, j)
  BY <1>6, <1>13, <1>14 DEF Owed
<1> QED
  BY <1>1, <1>3, <1>4, <1>5, <1>12, <1>15, <1>16, <1>17, <1>18, <1>19, VectorsStay

LEMMA CallFailsKeeps ==
    ASSUME VectorInv, NEW p \in Procs, CallFails(p)
    PROVE  VectorInv'
<1> USE VectorInvOf
<1>1. UNCHANGED <<spaces, vec, current, weights, followed, vplans>>
  BY DEF CallFails
<1>2. VectorMoves(p)
  BY VectorActs DEF VectorInv, VectorStep
<1>3. Acts(p) /\ UNCHANGED chunkVars
  BY <1>2 DEF VectorMoves
<1>4. (Smooth' => Smooth) /\ (lone' => lone)
  BY <1>3, ActsDo DEF VectorInv
<1>5. PICK c : c = proc[p]
  OBVIOUS
<1>6. PICK x : x = Failure[c.pc]
  OBVIOUS
<1>7. c.pc \in {"v:sentinel", "v:next", "v:check", "v:more", "v:test"} /\ Goto(p, x)
  BY <1>5, <1>6 DEF CallFails, Calls, Failure
<1>8. \/ c.pc \in {"v:sentinel", "v:next"} /\ x = "v:failed"
      \/ c.pc = "v:check" /\ x = "v:abort"
      \/ c.pc = "v:more" /\ x = "v:degraded"
      \/ c.pc = "v:test" /\ x = "v:open"
  BY <1>6, <1>7 DEF Failure
<1>9. PICK r : r = [c EXCEPT !.pc = x]
  OBVIOUS
<1>10. proc'[p] = r
  BY <1>5, <1>7, <1>9 DEF Goto, Set, VectorInv, WorkInv
<1>11. VectorShape(c)
  BY <1>5, <1>7, ShapeOf DEF VectorPC, BuildPC, CheckPC
<1>12. /\ r.pc = x
       /\ c.pc # "v:test" => r.space = c.space
       /\ c.pc \in {"v:sentinel", "v:next", "v:more"} => r.todo = c.todo
  BY <1>7, <1>9, <1>11 DEF VectorShape, VectorBuildShape, VectorRefreshShape, Has, BuildPC, CheckPC, RefreshPC
<1>13. ~ Smooth'
  <2>1. CASE circuit = "open"
    BY <1>4, <2>1
  <2>2. CASE circuit # "open"
    BY <2>2, SpendDoes DEF CallFails, VectorInv, Counted, Smooth
  <2> QED
    BY <2>1, <2>2
<1>14. circuit' \in {"closed", "open", "half_open"}
  BY DEF CallFails
<1>15. TypedAt(r)
  BY <1>5, <1>8, <1>12 DEF TypedAt, SpacePC, TodoPC, BuildPC, VectorPC, CheckPC
<1>16. BasedAt(r) /\ FoundAt(r)
  BY <1>8, <1>12 DEF BasedAt, FoundAt
<1> QED
  BY <1>1, <1>3, <1>10, <1>13, <1>14, <1>15, <1>16, VectorsStay

LEMMA FinishRefreshKeeps ==
    ASSUME VectorInv, NEW p \in Procs, FinishRefresh(p)
    PROVE  VectorInv'
<1> USE VectorInvOf
<1>1. UNCHANGED <<spaces, vec, current, weights, followed, circuit>> /\ vplans' \subseteq vplans
  BY DEF FinishRefresh, Bump
<1>2. Step /\ Refreshed(p) /\ ((proc[p].pc = "v:more" /\ proc[p].todo = {}) \/ proc[p].pc = "v:degraded")
  BY DEF FinishRefresh, At
<1>3. /\ VectorMoves(p)
      /\ IF proc[p].then = "idle" THEN proc'[p] = Idle
         ELSE proc'[p] = [proc[p] EXCEPT !.pc = "g:refresh"]
  BY <1>2, RefreshedDoes
<1>4. Acts(p) /\ UNCHANGED chunkVars
  BY <1>3 DEF VectorMoves
<1>5. (Smooth' => Smooth) /\ (lone' => lone)
  BY <1>4, ActsDo DEF VectorInv
<1>6. VectorShape(proc[p])
  BY <1>2, ShapeOf DEF VectorPC, BuildPC, CheckPC
<1>7. proc'[p].pc \in {"idle", "g:refresh"}
  BY <1>2, <1>3, <1>6, IdleShape DEF VectorShape, VectorBuildShape, VectorRefreshShape, Has, BuildPC, CheckPC, RefreshPC
<1>8. TypedAt(proc'[p]) /\ BasedAt(proc'[p]) /\ FoundAt(proc'[p]) /\ SmoothAt(proc'[p])
  BY <1>7 DEF TypedAt, BasedAt, FoundAt, SmoothAt, SpacePC, TodoPC, BuildPC, VectorPC, CheckPC
<1>9. \A k : ~ Owed(proc[p], k)
  BY <1>2 DEF Owed
<1> QED
  BY <1>1, <1>4, <1>5, <1>8, <1>9, VectorsStay

LEMMA InvalidateKeepsVectors ==
    ASSUME VectorInv, NEW p \in Procs, InvalidateTopics(p), UNCHANGED vectorVars
    PROVE  VectorInv'
<1> USE VectorInvOf
<1>1. UNCHANGED <<spaces, vec, current, weights, followed, circuit, vplans>>
  BY DEF vectorVars
<1>2. /\ Acts(p) /\ proc[p].pc = "topics" /\ UNCHANGED chunkVars
      /\ \/ proc'[p] = Idle /\ proc[p].then = "idle"
         \/ /\ AfterShape(proc[p]) /\ proc[p].then = "v:refresh"
            /\ proc'[p] = [proc[p] EXCEPT !.pc = "v:refresh"]
  BY InvalidateActs
<1>3. (Smooth' => Smooth) /\ (lone' => lone)
  BY <1>2, ActsDo DEF VectorInv
<1>4. \/ proc'[p] = Idle /\ proc[p].then = "idle"
      \/ proc'[p].pc = "v:refresh" /\ "then" \in DOMAIN proc'[p] /\ proc[p].then = "v:refresh"
  BY <1>2 DEF AfterShape, Has
<1>5. TypedAt(proc'[p]) /\ BasedAt(proc'[p]) /\ FoundAt(proc'[p]) /\ SmoothAt(proc'[p])
  BY <1>4, IdleShape DEF TypedAt, BasedAt, FoundAt, SmoothAt, SpacePC, TodoPC, BuildPC, VectorPC, CheckPC
<1>6. \A k : Owed(proc[p], k) => Owed(proc'[p], k)
  BY <1>2, <1>4 DEF Owed
<1> QED
  BY <1>1, <1>2, <1>3, <1>5, <1>6, VectorsStay

\* One after another, what is missing is owed by the process that moves.
LEMMA OwedByIt ==
    ASSUME VectorInv, NEW p \in Procs, Acts(p), UNCHANGED chunkVars, Smooth', current # 0
    PROVE  \A k \in Missing(current) : Owed(proc[p], k)
<1>1. Smooth /\ \A q \in Procs : q # p => proc[q] = Idle
  BY ActsDo DEF VectorInv, Smooth
<1> QED
  BY <1>1, IdleIsElsewhere DEF VectorInv, SmoothInv

\* A process goes on and writes a space or vectors.
LEMMA VectorsMove ==
    ASSUME VectorInv, NEW p \in Procs, NEW r, Acts(p), proc'[p] = r,
           UNCHANGED <<chunkVars, weights, followed>>,
           TypedRows', BasedRows', TypedAt(r), BasedAt(r)',
           \A s \in Spaces : spaces[s].base # 0 => spaces'[s].base = spaces[s].base,
           lone' => FoundRows' /\ FoundAt(r)',
           Smooth' => SmoothRows' /\ SmoothAt(r)',
           Smooth' /\ current' # 0 => \A k \in Missing(current)' : Owed(r, k)
    PROVE  VectorInv'
<1>1. WorkInv'
  BY ActsKeep DEF VectorInv
<1>2. /\ \A q \in Procs : q # p => proc'[q] = proc[q]
      /\ lone' => \A q \in Procs : q # p => proc'[q] = Idle
  BY ActsDo DEF VectorInv
<1>3. UNCHANGED <<chunk, back, emptied, weights, followed>>
  BY DEF chunkVars
<1>4. KnowledgeInv' /\ Known' = Known
  BY <1>3 DEF VectorInv, KnowledgeInv, Known, ActiveChunks
<1>5. \A q \in Procs : TypedAt(proc[q])'
  <2>1. \A q \in Procs : TypedAt(proc'[q])
    BY <1>2 DEF VectorInv, VectorTyped
  <2> QED
    BY <1>4, <2>1 DEF TypedAt
<1>6. \A q \in Procs : BasedAt(proc[q])'
  <2>1. ASSUME NEW q \in Procs, q # p PROVE BasedAt(proc[q])'
    <3>1. PICK c : c = proc[q]
      OBVIOUS
    <3>2. proc'[q] = c /\ TypedAt(c) /\ BasedAt(c)
      BY <1>2, <2>1, <3>1 DEF VectorInv, VectorTyped, BasedInv
    <3>3. c.pc \in {"v:next", "v:save", "v:more", "v:verdict", "v:activate"} =>
            spaces'[c.space].base = spaces[c.space].base
      BY <3>2 DEF BasedAt, TypedAt, SpacePC, VectorPC, BuildPC, CheckPC
    <3>4. BasedAt(c)'
      BY <1>3, <3>2, <3>3 DEF BasedAt, Before
    <3> QED
      BY <3>2, <3>4 DEF BasedAt
  <2>2. BasedAt(proc[p])'
    BY DEF BasedAt
  <2> QED
    BY <2>1, <2>2
<1>7. lone' => \A q \in Procs : FoundAt(proc[q])'
  <2>1. lone' => FoundAt(proc[p])'
    BY DEF FoundAt
  <2>2. lone' => \A q \in Procs : q # p => FoundAt(proc[q])'
    BY <1>2 DEF FoundAt, Idle
  <2> QED
    BY <2>1, <2>2
<1>8. Smooth' => \A q \in Procs : SmoothAt(proc[q])'
  <2>1. Smooth' => SmoothAt(proc[p])'
    BY DEF SmoothAt
  <2>2. Smooth' => \A q \in Procs : q # p => SmoothAt(proc[q])'
    BY <1>2 DEF SmoothAt, Idle, BuildPC, Smooth
  <2> QED
    BY <2>1, <2>2
<1>9. Smooth' /\ current' # 0 => \A k \in Missing(current)' : \E q \in Procs : Owed(proc'[q], k)
  OBVIOUS
<1>10. VectorTyped' /\ BasedInv' /\ FoundInv'
  BY <1>5, <1>6, <1>7 DEF VectorTyped, BasedInv, FoundInv
<1>11. SmoothInv'
  BY <1>8, <1>9 DEF SmoothInv, Owed
<1> QED
  BY <1>1, <1>4, <1>10, <1>11 DEF VectorInv

\* What the provider has served before, or serves.
Reached == {b \in Nat : Before(b, weights)}

\* The row of a space changes, the rest of the rows do not.
LEMMA SpaceRows ==
    ASSUME VectorInv, UNCHANGED <<chunkVars, weights, followed, vec>>,
           NEW s \in Spaces, NEW x \in SpaceStates, NEW b \in Nat, NEW u,
           spaces' = [spaces EXCEPT ![s].state = x, ![s].base = b, ![s].runs = u],
           b \in {0} \cup Reached, spaces[s].base # 0 => b = spaces[s].base,
           b # 0 \/ x \notin {"verifying", "ready", "deprecated"},
           current' \in {current, s}, current' = s => b # 0 \/ current = s,
           circuit' \in {"closed", "open", "half_open"}, vplans' \subseteq vplans
    PROVE  /\ TypedRows' /\ BasedRows'
           /\ \A y \in Spaces : spaces[y].base # 0 => spaces'[y].base = spaces[y].base
           /\ spaces'[s].state = x /\ spaces'[s].base = b
           /\ \A y \in Spaces : y # s => spaces'[y] = spaces[y]
           /\ \A y \in Spaces : Missing(y)' = Missing(y)
<1>1. /\ TypedRows /\ BasedRows /\ UNCHANGED <<chunk, weights, followed, vec>>
  BY DEF VectorInv, VectorTyped, BasedInv, chunkVars
<1>2. /\ DOMAIN spaces' = Spaces
      /\ spaces'[s].state = x /\ spaces'[s].base = b
      /\ DOMAIN spaces'[s] = {"state", "base", "runs"}
      /\ \A y \in Spaces : y # s => spaces'[y] = spaces[y]
  BY <1>1 DEF TypedRows
<1>3. \A y \in Spaces : Missing(y)' = Missing(y)
  BY <1>1 DEF Missing, ActiveChunks
<1>4. /\ \A y \in Spaces : /\ DOMAIN spaces'[y] = {"state", "base", "runs"}
                           /\ spaces'[y].state \in SpaceStates /\ spaces'[y].base \in Nat
      /\ \A y \in Spaces : spaces[y].base # 0 => spaces'[y].base = spaces[y].base
  <2>1. ASSUME NEW y \in Spaces
        PROVE  /\ DOMAIN spaces'[y] = {"state", "base", "runs"}
               /\ spaces'[y].state \in SpaceStates /\ spaces'[y].base \in Nat
               /\ spaces[y].base # 0 => spaces'[y].base = spaces[y].base
    BY <1>1, <1>2 DEF TypedRows
  <2> QED
    BY <2>1
<1>5. TypedRows'
  <2>1. current' \in {0} \cup Spaces
    BY <1>1 DEF TypedRows
  <2> QED
    BY <1>1, <1>2, <1>4, <2>1 DEF TypedRows, Known
<1>6. BasedRows'
  <2>1. \A y \in Spaces :
          /\ spaces'[y].base # 0 => Before(spaces[y].base, weights)'
          /\ spaces'[y].state \in {"verifying", "ready", "deprecated"} => spaces'[y].base # 0
    BY <1>1, <1>2 DEF BasedRows, Before, Reached
  <2>2. current' # 0 => spaces'[current'].base # 0
    BY <1>1, <1>2, <1>4 DEF BasedRows, TypedRows
  <2>3. \A y \in Spaces, k \in Chunks : vec'[y][k].state = "active" =>
          spaces'[y].base # 0 /\ Before(spaces[y].base, vec[y][k].weights)' /\ Before(vec[y][k].weights, weights)'
    <3> SUFFICES ASSUME NEW y \in Spaces, NEW k \in Chunks, vec'[y][k].state = "active"
                 PROVE  spaces'[y].base # 0 /\ Before(spaces[y].base, vec[y][k].weights)' /\ Before(vec[y][k].weights, weights)'
      OBVIOUS
    <3>1. vec[y][k].state = "active" /\ weights' = weights /\ followed' = followed /\ vec' = vec
      BY <1>1
    <3>2. spaces[y].base # 0 /\ Before(spaces[y].base, vec[y][k].weights) /\ Before(vec[y][k].weights, weights)
      BY <1>1, <3>1 DEF BasedRows
    <3>3. spaces'[y].base = spaces[y].base
      BY <1>4, <3>2
    <3> QED
      BY <3>1, <3>2, <3>3 DEF Before
  <2> QED
    BY <2>1, <2>2, <2>3 DEF BasedRows
<1> QED
  BY <1>2, <1>3, <1>4, <1>5, <1>6

LEMMA SentinelKeeps ==
    ASSUME VectorInv, NEW p \in Procs, CheckSentinel(p)
    PROVE  VectorInv'
<1> USE VectorInvOf
<1>1. VectorMoves(p)
  BY VectorActs DEF VectorInv, VectorStep
<1>2. Acts(p) /\ UNCHANGED <<chunkVars, weights, followed, vec, current, vplans>>
  BY <1>1 DEF VectorMoves, CheckSentinel
<1>3. (Smooth' => Smooth) /\ (lone' => lone)
  BY <1>2, ActsDo DEF VectorInv
<1>4. PICK c : c = proc[p]
  OBVIOUS
<1>5. c.pc \in {"v:sentinel", "v:check"} /\ c.space \in Spaces
  BY <1>4, VectorPCs DEF CheckSentinel, TypedAt, SpacePC, VectorPC, BuildPC, CheckPC
<1>6. PICK b : b = Baseline(spaces[c.space].base)
  OBVIOUS
<1>7. /\ TypedRows /\ BasedRows /\ DOMAIN spaces[c.space] = {"state", "base", "runs"}
      /\ spaces[c.space].state \in SpaceStates /\ spaces[c.space].base \in Nat
      /\ weights \in Nat \ {0} /\ (spaces[c.space].base # 0 => Before(spaces[c.space].base, weights))
  BY <1>5 DEF VectorInv, VectorTyped, BasedInv, TypedRows, BasedRows
<1>8. /\ b \in Nat /\ b # 0 /\ Before(b, weights)
      /\ spaces[c.space].base # 0 => b = spaces[c.space].base
      /\ spaces[c.space].base = 0 => b = weights
  BY <1>6, <1>7 DEF Baseline, Before
<1>9. PICK x : /\ Goto(p, x)
               /\ \/ b # weights /\ c.pc = "v:sentinel" /\ x = "v:failed"
                  \/ b # weights /\ c.pc = "v:check" /\ x = "v:abort"
                  \/ b = weights /\ c.pc = "v:sentinel" /\ x = "v:next"
                  \/ b = weights /\ c.pc = "v:check" /\ x = "v:verdict"
  <2>1. Goto(p, IF b # weights THEN Failure[c.pc] ELSE IF c.pc = "v:check" THEN "v:verdict" ELSE "v:next")
    BY <1>4, <1>6 DEF CheckSentinel, At
  <2>2. Failure["v:sentinel"] = "v:failed" /\ Failure["v:check"] = "v:abort"
    BY DEF Failure
  <2>3. CASE b # weights
    BY <1>5, <2>1, <2>2, <2>3
  <2>4. CASE b = weights
    BY <1>5, <2>1, <2>4
  <2> QED
    BY <2>3, <2>4
<1>10. PICK r : r = [c EXCEPT !.pc = x]
  OBVIOUS
<1>11. proc'[p] = r
  BY <1>4, <1>9, <1>10 DEF Goto, Set, VectorInv, WorkInv
<1>12. VectorShape(c)
  BY <1>4, <1>5, ShapeOf DEF VectorPC, BuildPC, CheckPC
<1>13. /\ r.pc = x /\ r.space = c.space
       /\ c.pc = "v:sentinel" => r.todo = c.todo /\ r.loop = "v:next" /\ c.loop = "v:next"
  BY <1>5, <1>10, <1>12 DEF VectorShape, VectorBuildShape, VectorRefreshShape, Has, BuildPC, CheckPC, RefreshPC
<1>14. spaces' = [spaces EXCEPT ![c.space].state = spaces[c.space].state, ![c.space].base = b,
                                ![c.space].runs = spaces[c.space].runs]
  <2>1. spaces' = [spaces EXCEPT ![c.space].base = b]
    BY <1>4, <1>6 DEF CheckSentinel
  <2> QED
    BY <1>5, <1>7, <2>1 DEF TypedRows
<1>15. circuit' \in {"closed", "open", "half_open"} /\ (b = weights => circuit' = circuit)
  BY <1>4, <1>6 DEF CheckSentinel
<1>16. /\ TypedRows' /\ BasedRows'
       /\ \A y \in Spaces : spaces[y].base # 0 => spaces'[y].base = spaces[y].base
       /\ spaces'[c.space].state = spaces[c.space].state /\ spaces'[c.space].base = b
       /\ \A y \in Spaces : y # c.space => spaces'[y] = spaces[y]
       /\ \A y \in Spaces : Missing(y)' = Missing(y)
  <2>1. b # 0 \/ spaces[c.space].state \notin {"verifying", "ready", "deprecated"}
    BY <1>8
  <2>2. current' \in {current, c.space} /\ (current' = c.space => b # 0 \/ current = c.space)
    BY <1>2
  <2>3. /\ b \in Nat /\ b \in {0} \cup Reached
        /\ spaces[c.space].base # 0 => b = spaces[c.space].base
        /\ vplans' \subseteq vplans
    BY <1>2, <1>8 DEF Reached
  <2>4. PICK y, u : y = spaces[c.space].state /\ u = spaces[c.space].runs
    OBVIOUS
  <2>5. /\ y \in SpaceStates /\ (b # 0 \/ y \notin {"verifying", "ready", "deprecated"})
        /\ spaces' = [spaces EXCEPT ![c.space].state = y, ![c.space].base = b, ![c.space].runs = u]
    BY <1>7, <1>14, <2>1, <2>4
  <2>6. circuit' \in {"closed", "open", "half_open"}
    BY <1>15
  <2>7. /\ TypedRows' /\ BasedRows'
        /\ \A z \in Spaces : spaces[z].base # 0 => spaces'[z].base = spaces[z].base
        /\ spaces'[c.space].state = y /\ spaces'[c.space].base = b
        /\ \A z \in Spaces : z # c.space => spaces'[z] = spaces[z]
        /\ \A z \in Spaces : Missing(z)' = Missing(z)
    BY <1>2, <1>5, <2>2, <2>3, <2>5, <2>6, SpaceRows
  <2> QED
    BY <2>4, <2>7
<1>17. TypedAt(r)
  BY <1>4, <1>5, <1>9, <1>13 DEF TypedAt, SpacePC, TodoPC, BuildPC, VectorPC, CheckPC
<1>18. BasedAt(r)'
  BY <1>8, <1>9, <1>13, <1>16 DEF BasedAt
<1>19. FoundAt(r)'
  <2> SUFFICES ASSUME x = "v:verdict", NEW k \in Chunks, vec'[c.space][k].state = "active"
               PROVE  /\ Before(spaces[c.space].base, vec[c.space][k].weights)'
                      /\ Before(vec[c.space][k].weights, spaces[c.space].base)'
    BY <1>9, <1>13 DEF FoundAt
  <2>1. b = weights /\ vec' = vec /\ followed' = followed
    BY <1>2, <1>9
  <2>2. /\ spaces[c.space].base # 0
        /\ Before(spaces[c.space].base, vec[c.space][k].weights) /\ Before(vec[c.space][k].weights, weights)
    BY <1>5, <1>7, <2>1 DEF BasedRows
  <2>3. spaces'[c.space].base = weights /\ spaces[c.space].base = weights
    BY <1>8, <1>16, <2>1, <2>2
  <2> QED
    BY <2>1, <2>2, <2>3 DEF Before
<1>20. lone' => FoundRows'
  <2>1. lone' => FoundRows
    BY <1>3 DEF VectorInv, FoundInv
  <2>2. current' = current /\ (current # 0 => current \in Spaces /\ spaces'[current].state = spaces[current].state)
    BY <1>2, <1>7, <1>16 DEF TypedRows
  <2> QED
    BY <2>1, <2>2 DEF FoundRows
<1>21. ASSUME Smooth'
       PROVE  /\ SmoothRows' /\ SmoothAt(r)'
              /\ current' # 0 => \A k \in Missing(current)' : Owed(r, k)
  <2>1. /\ SmoothRows /\ SmoothAt(c) /\ UNCHANGED <<chunk, vec, current, weights, followed>>
    BY <1>2, <1>3, <1>4, <1>21 DEF VectorInv, SmoothInv, chunkVars
  <2>2. b = weights
    BY <1>7, <1>8, <2>1 DEF SmoothRows, Before
  <2>3. current # 0 => current \in Spaces /\ spaces'[current].state = spaces[current].state
    BY <1>7, <1>16 DEF TypedRows
  <2>4. SmoothRows'
    BY <1>15, <2>1, <2>2, <2>3 DEF SmoothRows
  <2>5. SmoothAt(r)'
    BY <1>5, <1>9, <1>13, <2>1, <2>2 DEF SmoothAt, BuildPC
  <2>6. current # 0 => \A k \in Missing(current) : Owed(c, k)
    BY <1>2, <1>4, <1>21, OwedByIt
  <2>7. \A k : ~ Owed(c, k)
    BY <1>5 DEF Owed
  <2>8. current # 0 => Missing(current)' = Missing(current)
    BY <1>7, <1>16, <2>1 DEF TypedRows
  <2> QED
    BY <2>1, <2>4, <2>5, <2>6, <2>7, <2>8
<1> QED
  BY <1>2, <1>11, <1>16, <1>17, <1>18, <1>19, <1>20, <1>21, VectorsMove

LEMMA FinishBuildKeeps ==
    ASSUME VectorInv, NEW p \in Procs, FinishVectorBuild(p)
    PROVE  VectorInv'
<1> USE VectorInvOf
<1>1. VectorMoves(p)
  BY VectorActs DEF VectorInv, VectorStep
<1>2. Acts(p) /\ UNCHANGED <<chunkVars, weights, followed, vec, current, circuit>> /\ vplans' \subseteq vplans
  BY <1>1 DEF VectorMoves, FinishVectorBuild, Bump
<1>3. (Smooth' => Smooth) /\ (lone' => lone)
  BY <1>2, ActsDo DEF VectorInv
<1>4. PICK c : c = proc[p]
  OBVIOUS
<1>5. c.pc \in {"v:next", "v:failed"} /\ c.space \in Spaces /\ proc'[p] = Idle
  BY <1>4, VectorPCs DEF FinishVectorBuild, TypedAt, SpacePC, VectorPC, BuildPC, CheckPC, At, Set, VectorInv, WorkInv
<1>6. PICK x, u : /\ x = IF c.pc = "v:failed" THEN "failed" ELSE "verifying"
                  /\ spaces' = [spaces EXCEPT ![c.space].state = x, ![c.space].runs = u]
  BY <1>4 DEF FinishVectorBuild, At
<1>7. /\ TypedRows /\ BasedRows /\ DOMAIN spaces[c.space] = {"state", "base", "runs"}
      /\ spaces[c.space].base \in Nat /\ (spaces[c.space].base # 0 => Before(spaces[c.space].base, weights))
  BY <1>5 DEF VectorInv, VectorTyped, BasedInv, TypedRows, BasedRows
<1>8. x \in SpaceStates /\ (x = "verifying" => spaces[c.space].base # 0)
  BY <1>4, <1>5, <1>6 DEF SpaceStates, BasedAt
<1>9. PICK b : b = spaces[c.space].base
  OBVIOUS
<1>10. spaces' = [spaces EXCEPT ![c.space].state = x, ![c.space].base = b, ![c.space].runs = u]
  BY <1>5, <1>6, <1>7, <1>9 DEF TypedRows
<1>11. /\ TypedRows' /\ BasedRows'
       /\ \A y \in Spaces : spaces[y].base # 0 => spaces'[y].base = spaces[y].base
       /\ spaces'[c.space].state = x /\ spaces'[c.space].base = b
       /\ \A y \in Spaces : y # c.space => spaces'[y] = spaces[y]
       /\ \A y \in Spaces : Missing(y)' = Missing(y)
  <2>1. b \in Nat /\ b \in {0} \cup Reached
        /\ (spaces[c.space].base # 0 => b = spaces[c.space].base)
        /\ (b # 0 \/ x \notin {"verifying", "ready", "deprecated"})
    BY <1>6, <1>7, <1>8, <1>9 DEF Reached
  <2>2. current' \in {current, c.space} /\ (current' = c.space => b # 0 \/ current = c.space)
    BY <1>2
  <2> QED
    BY <1>2, <1>5, <1>8, <1>10, <2>1, <2>2, SpaceRows
<1>12. TypedAt(Idle) /\ BasedAt(Idle)' /\ FoundAt(Idle)' /\ SmoothAt(Idle)'
  BY IdleIsElsewhere, VectorPCs DEF TypedAt, BasedAt, FoundAt, SmoothAt
<1>13. lone' => FoundRows'
  <2>1. lone' => FoundRows
    BY <1>3 DEF VectorInv, FoundInv
  <2>2. current' = current /\ (current # 0 => current \in Spaces)
    BY <1>2, <1>7 DEF TypedRows
  <2>3. x \notin {"none", "deprecated", "deleted"}
    BY <1>6
  <2>4. current = c.space => spaces'[current].state = x
    BY <1>11
  <2>5. current # 0 /\ current # c.space => spaces'[current] = spaces[current]
    BY <1>11, <2>2
  <2> QED
    BY <2>1, <2>2, <2>3, <2>4, <2>5 DEF FoundRows
<1>14. ASSUME Smooth'
       PROVE  SmoothRows' /\ (current' # 0 => \A k \in Missing(current)' : Owed(Idle, k))
  <2>1. /\ SmoothRows /\ SmoothAt(c) /\ UNCHANGED <<chunk, vec, current, weights, followed, circuit>>
    BY <1>2, <1>3, <1>4, <1>14 DEF VectorInv, SmoothInv, chunkVars
  <2>2. c.loop = "v:next"
    BY <1>4, <1>5, ShapeOf DEF VectorPC, BuildPC, CheckPC, VectorShape, VectorBuildShape, VectorRefreshShape,
       Has, RefreshPC
  <2>3. c.space # current
    BY <1>5, <2>1, <2>2 DEF SmoothAt, BuildPC
  <2>4. current # 0 => current \in Spaces /\ spaces'[current] = spaces[current]
    BY <1>7, <1>11, <2>3 DEF TypedRows
  <2>5. SmoothRows'
    BY <2>1, <2>4 DEF SmoothRows
  <2>6. current # 0 => \A k \in Missing(current) : Owed(c, k)
    BY <1>2, <1>4, <1>14, OwedByIt
  <2>7. \A k : ~ Owed(c, k)
    BY <1>5 DEF Owed
  <2> QED
    BY <1>11, <2>1, <2>4, <2>5, <2>6, <2>7
<1> QED
  BY <1>2, <1>5, <1>11, <1>12, <1>13, <1>14, VectorsMove

LEMMA VerdictKeeps ==
    ASSUME VectorInv, NEW p \in Procs, Verdict(p)
    PROVE  VectorInv'
<1> USE VectorInvOf
<1>1. VectorMoves(p)
  BY VectorActs DEF VectorInv, VectorStep
<1>2. Acts(p) /\ UNCHANGED <<chunkVars, weights, followed, vec, current, circuit>> /\ vplans' \subseteq vplans
  BY <1>1 DEF VectorMoves, Verdict, Bump
<1>3. (Smooth' => Smooth) /\ (lone' => lone)
  BY <1>2, ActsDo DEF VectorInv
<1>4. PICK c : c = proc[p]
  OBVIOUS
<1>5. c.pc = "v:verdict" /\ c.space \in Spaces /\ proc'[p] = Idle
  BY <1>4, VectorPCs DEF Verdict, TypedAt, SpacePC, VectorPC, BuildPC, CheckPC, At, Set, VectorInv, WorkInv
<1>6. PICK x, u : /\ x = IF Covered(c.space) THEN "ready" ELSE "failed"
                  /\ spaces' = [spaces EXCEPT ![c.space].state = x, ![c.space].runs = u]
  BY <1>4 DEF Verdict
<1>7. /\ TypedRows /\ BasedRows /\ DOMAIN spaces[c.space] = {"state", "base", "runs"}
      /\ spaces[c.space].base \in Nat /\ (spaces[c.space].base # 0 => Before(spaces[c.space].base, weights))
  BY <1>5 DEF VectorInv, VectorTyped, BasedInv, TypedRows, BasedRows
<1>8. x \in SpaceStates /\ spaces[c.space].base # 0
  BY <1>4, <1>5, <1>6 DEF SpaceStates, BasedAt
<1>9. PICK b : b = spaces[c.space].base
  OBVIOUS
<1>10. spaces' = [spaces EXCEPT ![c.space].state = x, ![c.space].base = b, ![c.space].runs = u]
  BY <1>5, <1>6, <1>7, <1>9 DEF TypedRows
<1>11. /\ TypedRows' /\ BasedRows'
       /\ \A y \in Spaces : spaces[y].base # 0 => spaces'[y].base = spaces[y].base
       /\ spaces'[c.space].state = x /\ spaces'[c.space].base = b
       /\ \A y \in Spaces : y # c.space => spaces'[y] = spaces[y]
       /\ \A y \in Spaces : Missing(y)' = Missing(y)
  <2>1. b \in Nat /\ b \in {0} \cup Reached
        /\ (spaces[c.space].base # 0 => b = spaces[c.space].base)
        /\ (b # 0 \/ x \notin {"verifying", "ready", "deprecated"})
    BY <1>7, <1>8, <1>9 DEF Reached
  <2>2. current' \in {current, c.space} /\ (current' = c.space => b # 0 \/ current = c.space)
    BY <1>2
  <2> QED
    BY <1>2, <1>5, <1>8, <1>10, <2>1, <2>2, SpaceRows
<1>12. TypedAt(Idle) /\ BasedAt(Idle)' /\ FoundAt(Idle)' /\ SmoothAt(Idle)'
  BY IdleIsElsewhere, VectorPCs DEF TypedAt, BasedAt, FoundAt, SmoothAt
<1>13. lone' => FoundRows'
  <2>1. lone' => FoundRows
    BY <1>3 DEF VectorInv, FoundInv
  <2>2. current' = current /\ (current # 0 => current \in Spaces)
    BY <1>2, <1>7 DEF TypedRows
  <2>3. x \notin {"none", "deprecated", "deleted"}
    BY <1>6
  <2>4. current = c.space => spaces'[current].state = x
    BY <1>11
  <2>5. current # 0 /\ current # c.space => spaces'[current] = spaces[current]
    BY <1>11, <2>2
  <2> QED
    BY <2>1, <2>2, <2>3, <2>4, <2>5 DEF FoundRows
<1>14. ASSUME Smooth'
       PROVE  SmoothRows' /\ (current' # 0 => \A k \in Missing(current)' : Owed(Idle, k))
  <2>1. /\ SmoothRows /\ Smooth /\ UNCHANGED <<chunk, vec, current, weights, followed, circuit>>
    BY <1>2, <1>3, <1>14 DEF VectorInv, SmoothInv, chunkVars
  <2>2. current # 0 => \A k \in Missing(current) : Owed(c, k)
    BY <1>2, <1>4, <1>14, OwedByIt
  <2>3. \A k : ~ Owed(c, k)
    BY <1>5 DEF Owed
  <2>4. ActiveChunks # {}
    BY <2>1 DEF Smooth, VectorInv, KnowledgeInv
  <2>5. current # 0 => current \in Spaces /\ Missing(current) = {}
    BY <1>7, <2>2, <2>3 DEF TypedRows
  <2>6. current # 0 => spaces'[current].state = "ready"
    BY <1>6, <1>11, <2>1, <2>4, <2>5 DEF SmoothRows, Covered
  <2>7. SmoothRows'
    BY <2>1, <2>6 DEF SmoothRows
  <2> QED
    BY <1>11, <2>1, <2>5, <2>7
<1> QED
  BY <1>2, <1>5, <1>11, <1>12, <1>13, <1>14, VectorsMove

LEMMA ActivateSpaceKeeps ==
    ASSUME VectorInv, NEW p \in Procs, ActivateSpace(p)
    PROVE  VectorInv'
<1> USE VectorInvOf
<1>1. VectorMoves(p)
  BY VectorActs DEF VectorInv, VectorStep
<1>2. Acts(p) /\ UNCHANGED <<chunkVars, weights, followed, vec, circuit>> /\ vplans' \subseteq vplans
  BY <1>1 DEF VectorMoves, ActivateSpace, Bump
<1>3. (Smooth' => Smooth) /\ (lone' => lone)
  BY <1>2, ActsDo DEF VectorInv
<1>4. PICK c : c = proc[p]
  OBVIOUS
<1>5. c.pc = "v:activate" /\ c.space \in Spaces /\ proc'[p] = Idle /\ current' = c.space
  BY <1>4, VectorPCs DEF ActivateSpace, TypedAt, SpacePC, VectorPC, BuildPC, CheckPC, At, Set, VectorInv, WorkInv
<1>6. spaces' = [x \in Spaces |->
                   IF x = c.space THEN [spaces[x] EXCEPT !.state = "ready"]
                   ELSE IF x = current THEN [spaces[x] EXCEPT !.state = "deprecated"] ELSE spaces[x]]
  BY <1>4 DEF ActivateSpace
<1>7. TypedRows /\ BasedRows /\ spaces[c.space].base # 0 /\ 0 \notin Spaces
  BY <1>4, <1>5, SpacesAssumption DEF VectorInv, VectorTyped, BasedInv, BasedAt
<1>8. DOMAIN spaces' = Spaces
  BY <1>6
<1>9. ASSUME NEW y \in Spaces
      PROVE  /\ DOMAIN spaces'[y] = {"state", "base", "runs"} /\ spaces'[y].base = spaces[y].base
             /\ spaces'[y].base \in Nat
             /\ spaces'[y].state = IF y = c.space THEN "ready" ELSE IF y = current THEN "deprecated"
                                   ELSE spaces[y].state
  <2>1. DOMAIN spaces[y] = {"state", "base", "runs"} /\ spaces[y].base \in Nat
    BY <1>7 DEF TypedRows
  <2>2. spaces'[y] = IF y = c.space THEN [spaces[y] EXCEPT !.state = "ready"]
                     ELSE IF y = current THEN [spaces[y] EXCEPT !.state = "deprecated"] ELSE spaces[y]
    BY <1>6
  <2> QED
    BY <2>1, <2>2
<1>10. UNCHANGED <<chunk, weights, followed, vec, circuit>> /\ \A y \in Spaces : Missing(y)' = Missing(y)
  BY <1>2 DEF chunkVars, Missing, ActiveChunks
<1>11. TypedRows'
  <2>1. \A y \in Spaces : spaces'[y].state \in SpaceStates
    BY <1>7, <1>9 DEF TypedRows, SpaceStates
  <2>2. \A x \in vplans' : x.space \in Spaces /\ x.do \in {"activate", "delete"}
    BY <1>2, <1>7 DEF TypedRows
  <2> QED
    BY <1>5, <1>7, <1>8, <1>9, <1>10, <2>1, <2>2 DEF TypedRows, Known
<1>12. BasedRows'
  <2>1. \A y \in Spaces : /\ spaces'[y].base # 0 => Before(spaces[y].base, weights)'
                          /\ spaces'[y].state \in {"verifying", "ready", "deprecated"} => spaces'[y].base # 0
    BY <1>7, <1>9, <1>10 DEF BasedRows, Before
  <2>2. current' # 0 /\ spaces'[current'].base # 0
    BY <1>5, <1>7, <1>9
  <2>3. \A y \in Spaces, k \in Chunks : vec'[y][k].state = "active" =>
          spaces'[y].base # 0 /\ Before(spaces[y].base, vec[y][k].weights)' /\ Before(vec[y][k].weights, weights)'
    BY <1>7, <1>9, <1>10 DEF BasedRows, Before
  <2> QED
    BY <2>1, <2>2, <2>3 DEF BasedRows
<1>13. TypedAt(Idle) /\ BasedAt(Idle)' /\ FoundAt(Idle)' /\ SmoothAt(Idle)'
  BY IdleIsElsewhere, VectorPCs DEF TypedAt, BasedAt, FoundAt, SmoothAt
<1>14. FoundRows'
  BY <1>5, <1>9 DEF FoundRows
<1>15. ASSUME Smooth'
       PROVE  SmoothRows' /\ (current' # 0 => \A k \in Missing(current)' : Owed(Idle, k))
  <2>1. SmoothRows /\ SmoothAt(c)
    BY <1>3, <1>4, <1>15 DEF VectorInv, SmoothInv
  <2>2. Missing(c.space) = {}
    BY <1>5, <2>1 DEF SmoothAt
  <2>3. Missing(current)' = {}
    BY <1>5, <1>10, <2>2
  <2>4. SmoothRows'
    BY <1>5, <1>9, <1>10, <2>1 DEF SmoothRows
  <2> QED
    BY <2>3, <2>4
<1>16. \A y \in Spaces : spaces[y].base # 0 => spaces'[y].base = spaces[y].base
  BY <1>9
<1> QED
  BY <1>2, <1>5, <1>11, <1>12, <1>13, <1>14, <1>15, <1>16, VectorsMove

LEMMA StartBuildKeeps ==
    ASSUME VectorInv, NEW p \in Procs, StartVectorBuild(p)
    PROVE  VectorInv'
<1> USE VectorInvOf
<1>1. VectorMoves(p)
  BY VectorActs DEF VectorInv, VectorStep
<1>2. Acts(p) /\ UNCHANGED <<chunkVars, weights, followed, vec, current, circuit>> /\ vplans' \subseteq vplans
  BY <1>1 DEF VectorMoves, StartVectorBuild, Bump
<1>3. (Smooth' => Smooth) /\ (lone' => lone)
  BY <1>2, ActsDo DEF VectorInv
<1>4. PICK s, r :
        /\ s \in Spaces /\ spaces[s].state \in {"building", "failed", "verifying"} /\ Start(p, "vbuild", r)
        /\ \E m : r = [pc |-> "v:sentinel", space |-> s, todo |-> ActiveChunks, mark |-> m,
                       chunk |-> 0, weights |-> 0, loop |-> "v:next"]
        /\ \E u : spaces' = [spaces EXCEPT ![s].state = "building", ![s].runs = u]
  BY DEF StartVectorBuild
<1>5. proc'[p] = r /\ proc[p] = Idle
  <2>1. Shape(r) /\ r.pc \in VectorPC
    BY <1>4 DEF Shape, VectorShape, VectorBuildShape, Has, BuildPC, VectorPC
  <2> QED
    BY <1>4, <2>1, VectorStart DEF Counted
<1>6. r.pc = "v:sentinel" /\ r.space = s /\ r.todo = ActiveChunks /\ r.loop = "v:next"
  BY <1>4
<1>7. /\ TypedRows /\ BasedRows /\ DOMAIN spaces[s] = {"state", "base", "runs"}
      /\ spaces[s].base \in Nat /\ (spaces[s].base # 0 => Before(spaces[s].base, weights))
  BY <1>4 DEF VectorInv, VectorTyped, BasedInv, TypedRows, BasedRows
<1>8. PICK b, u : b = spaces[s].base /\ spaces' = [spaces EXCEPT ![s].state = "building", ![s].runs = u]
  BY <1>4
<1>9. spaces' = [spaces EXCEPT ![s].state = "building", ![s].base = b, ![s].runs = u]
  BY <1>4, <1>7, <1>8 DEF TypedRows
<1>10. /\ TypedRows' /\ BasedRows'
       /\ \A y \in Spaces : spaces[y].base # 0 => spaces'[y].base = spaces[y].base
       /\ spaces'[s].state = "building" /\ spaces'[s].base = b
       /\ \A y \in Spaces : y # s => spaces'[y] = spaces[y]
       /\ \A y \in Spaces : Missing(y)' = Missing(y)
  <2>1. b \in Nat /\ b \in {0} \cup Reached
        /\ (spaces[s].base # 0 => b = spaces[s].base)
        /\ "building" \in SpaceStates /\ "building" \notin {"verifying", "ready", "deprecated"}
    BY <1>7, <1>8 DEF SpaceStates, Reached
  <2>2. current' \in {current, s} /\ (current' = s => b # 0 \/ current = s)
    BY <1>2
  <2> QED
    BY <1>2, <1>4, <1>9, <2>1, <2>2, SpaceRows
<1>11. TypedAt(r)
  BY <1>4, <1>6 DEF TypedAt, Known, ActiveChunks, SpacePC, TodoPC, VectorPC, BuildPC
<1>12. BasedAt(r)' /\ FoundAt(r)'
  BY <1>6 DEF BasedAt, FoundAt
<1>13. lone' => FoundRows'
  <2>1. lone' => FoundRows
    BY <1>3 DEF VectorInv, FoundInv
  <2>2. current' = current /\ (current # 0 => current \in Spaces)
    BY <1>2, <1>7 DEF TypedRows
  <2>3. current = s => spaces'[current].state = "building"
    BY <1>10
  <2>4. current # 0 /\ current # s => spaces'[current] = spaces[current]
    BY <1>10, <2>2
  <2> QED
    BY <2>1, <2>2, <2>3, <2>4 DEF FoundRows
<1>14. ASSUME Smooth'
       PROVE  /\ SmoothRows' /\ SmoothAt(r)'
              /\ current' # 0 => \A k \in Missing(current)' : Owed(r, k)
  <2>1. SmoothRows /\ UNCHANGED <<chunk, vec, current, weights, followed, circuit>>
    BY <1>2, <1>3, <1>14 DEF VectorInv, SmoothInv, chunkVars
  <2>2. s # current
    BY <1>4, <2>1, SpacesAssumption DEF SmoothRows
  <2>3. current # 0 => current \in Spaces /\ spaces'[current] = spaces[current]
    BY <1>7, <1>10, <2>2 DEF TypedRows
  <2>4. SmoothRows' /\ SmoothAt(r)'
    BY <1>6, <2>1, <2>2, <2>3 DEF SmoothRows, SmoothAt, BuildPC
  <2>5. current # 0 => \A k \in Missing(current) : Owed(Idle, k)
    BY <1>2, <1>5, <1>14, OwedByIt
  <2> QED
    BY <1>10, <2>1, <2>3, <2>4, <2>5, IdleIsElsewhere
<1> QED
  BY <1>2, <1>5, <1>10, <1>11, <1>12, <1>13, <1>14, VectorsMove

\* The vectors change, the spaces do not.
LEMMA VecRows ==
    ASSUME VectorInv, UNCHANGED <<chunkVars, weights, followed, spaces, current>>,
           circuit' \in {"closed", "open", "half_open"}, vplans' \subseteq vplans,
           vec' \in [Spaces -> [Chunks -> Vector]],
           \A s \in Spaces, k \in Chunks : vec'[s][k] # vec[s][k] =>
             \/ vec'[s][k] = NoVector
             \/ /\ k \in Known
                /\ vec'[s][k].state \in {"active", "stale"}
                /\ vec'[s][k].state = "active" =>
                     spaces[s].base # 0 /\ Before(spaces[s].base, vec'[s][k].weights) /\ Before(vec'[s][k].weights, weights)
    PROVE  TypedRows' /\ BasedRows'
<1>1. TypedRows /\ BasedRows /\ UNCHANGED <<chunk, weights, followed, spaces, current>>
  BY DEF VectorInv, VectorTyped, BasedInv, chunkVars
<1>2. ASSUME NEW s \in Spaces, NEW k \in Chunks
      PROVE  /\ vec'[s][k].state = "none" => vec'[s][k] = NoVector
             /\ vec'[s][k].state # "none" => k \in Known
             /\ vec'[s][k].state = "active" =>
                  spaces[s].base # 0 /\ Before(spaces[s].base, vec'[s][k].weights) /\ Before(vec'[s][k].weights, weights)
  <2>1. CASE vec'[s][k] = vec[s][k]
    BY <1>1, <2>1 DEF TypedRows, BasedRows
  <2>2. CASE vec'[s][k] # vec[s][k]
    BY <2>2 DEF NoVector
  <2> QED
    BY <2>1, <2>2
<1>3. TypedRows'
  <2>1. Known' = Known
    BY <1>1 DEF Known
  <2>2. \A s \in Spaces, k \in Chunks :
          /\ vec'[s][k].state = "none" => vec'[s][k] = NoVector
          /\ vec'[s][k].state # "none" => k \in Known'
    BY <1>2, <2>1
  <2>3. \A x \in vplans' : x.space \in Spaces /\ x.do \in {"activate", "delete"}
    BY <1>1 DEF TypedRows
  <2> QED
    BY <1>1, <2>2, <2>3 DEF TypedRows
<1>4. BasedRows'
  BY <1>1, <1>2 DEF BasedRows, Before
<1> QED
  BY <1>3, <1>4

LEMMA SaveEmbeddingKeeps ==
    ASSUME VectorInv, NEW p \in Procs, SaveEmbedding(p)
    PROVE  VectorInv'
<1> USE VectorInvOf
<1>1. VectorMoves(p)
  BY VectorActs DEF VectorInv, VectorStep
<1>2. Acts(p) /\ UNCHANGED <<chunkVars, weights, followed, spaces, current, circuit, vplans>>
  BY <1>1 DEF VectorMoves, SaveEmbedding
<1>3. (Smooth' => Smooth) /\ (lone' => lone)
  BY <1>2, ActsDo DEF VectorInv
<1>4. PICK c : c = proc[p]
  OBVIOUS
<1>5. /\ c.pc = "v:save" /\ c.space \in Spaces /\ c.todo \subseteq Known
      /\ c.chunk \in Known /\ c.chunk \in Chunks /\ c.weights \in Nat
  BY <1>4, VectorPCs DEF SaveEmbedding, TypedAt, SpacePC, TodoPC, VectorPC, BuildPC, CheckPC, At, Known
<1>6. (VectorBuildShape(c) \/ VectorRefreshShape(c)) /\ c.loop \in {"v:next", "v:more"}
  BY <1>4, <1>5, ShapeOf DEF VectorPC, BuildPC, VectorShape, Has, CheckPC, VectorBuildShape, VectorRefreshShape
<1>7. PICK r : r = [c EXCEPT !.pc = c.loop, !.chunk = 0, !.weights = 0]
  OBVIOUS
<1>8. proc'[p] = r
  BY <1>4, <1>7 DEF SaveEmbedding, Set, VectorInv, WorkInv
<1>9. r.pc = c.loop /\ r.space = c.space /\ r.todo = c.todo /\ r.loop = c.loop
  BY <1>6, <1>7 DEF VectorBuildShape, VectorRefreshShape, Has
<1>10. /\ TypedRows /\ BasedRows /\ spaces[c.space].base # 0
       /\ Before(spaces[c.space].base, c.weights) /\ Before(c.weights, weights)
  BY <1>4, <1>5 DEF VectorInv, VectorTyped, BasedInv, BasedAt
<1>11. PICK x : x = [state |-> "active", weights |-> c.weights]
  OBVIOUS
<1>12. x \in Vector /\ x # NoVector
  BY <1>5, <1>11 DEF Vector, NoVector
<1>13. /\ vec \in [Spaces -> [Chunks -> Vector]]
       /\ vec' = [vec EXCEPT ![c.space][c.chunk] = IF @ = NoVector THEN x ELSE @]
  BY <1>4, <1>10, <1>11 DEF SaveEmbedding, TypedRows
<1>14. /\ vec' \in [Spaces -> [Chunks -> Vector]]
       /\ \A s \in Spaces, k \in Chunks :
            vec'[s][k] = IF s = c.space /\ k = c.chunk /\ vec[s][k] = NoVector THEN x ELSE vec[s][k]
  BY <1>5, <1>12, <1>13
<1>15. TypedRows' /\ BasedRows'
  <2>1. ASSUME NEW s \in Spaces, NEW k \in Chunks, vec'[s][k] # vec[s][k]
        PROVE  /\ k \in Known /\ vec'[s][k].state \in {"active", "stale"}
               /\ spaces[s].base # 0 /\ Before(spaces[s].base, vec'[s][k].weights) /\ Before(vec'[s][k].weights, weights)
    <3>1. s = c.space /\ k = c.chunk /\ vec'[s][k] = x
      BY <1>14, <2>1
    <3> QED
      BY <1>5, <1>10, <1>11, <3>1
  <2>2. circuit' \in {"closed", "open", "half_open"} /\ vplans' \subseteq vplans
    BY <1>2
  <2> QED
    BY <1>2, <1>14, <2>1, <2>2, VecRows
<1>16. TypedAt(r)
  BY <1>5, <1>6, <1>9 DEF TypedAt
<1>17. BasedAt(r)'
  BY <1>2, <1>6, <1>9, <1>10 DEF BasedAt
<1>18. lone' => FoundRows' /\ FoundAt(r)'
  <2>1. lone' => FoundRows
    BY <1>3 DEF VectorInv, FoundInv
  <2>2. UNCHANGED <<spaces, current>>
    BY <1>2
  <2> QED
    BY <1>6, <1>9, <2>1, <2>2 DEF FoundRows, FoundAt
<1>19. ASSUME Smooth'
       PROVE  /\ SmoothRows' /\ SmoothAt(r)'
              /\ current' # 0 => \A k \in Missing(current)' : Owed(r, k)
  <2>1. SmoothRows /\ SmoothAt(c) /\ UNCHANGED <<chunk, spaces, current, weights, followed, circuit>>
    BY <1>2, <1>3, <1>4, <1>19 DEF VectorInv, SmoothInv, chunkVars
  <2>2. SmoothRows'
    <3>1. ASSUME NEW s \in Spaces, NEW k \in Chunks, vec'[s][k].state = "stale" PROVE chunk'[k] = "tombstoned"
      BY <1>11, <1>14, <2>1, <3>1 DEF SmoothRows
    <3> QED
      BY <2>1, <3>1 DEF SmoothRows
  <2>3. c.loop = "v:next" => c.space # current
    BY <1>5, <2>1 DEF SmoothAt, BuildPC
  <2>4. c.loop = "v:more" => c.space = current
    BY <1>5, <2>1 DEF SmoothAt
  <2>5. SmoothAt(r)'
    BY <1>6, <1>9, <2>1, <2>3, <2>4 DEF SmoothAt, BuildPC
  <2>6. ASSUME current # 0, NEW k \in Missing(current)' PROVE Owed(r, k)
    <3>1. current \in Spaces /\ current' = current
      BY <1>10, <2>1, <2>6 DEF TypedRows
    <3>2. k \in ActiveChunks /\ vec'[current][k].state # "active" /\ k \in Chunks
      BY <2>1, <2>6, <3>1 DEF Missing, ActiveChunks
    <3>3. vec[current][k].state # "active"
      BY <1>11, <1>14, <3>1, <3>2
    <3>4. Owed(c, k)
      <4>1. k \in Missing(current)
        BY <3>2, <3>3 DEF Missing
      <4> QED
        BY <1>2, <1>4, <1>19, <2>6, <4>1, OwedByIt
    <3>5. c.loop = "v:more" /\ k \in c.todo \cup {c.chunk}
      BY <1>5, <3>4 DEF Owed
    <3>6. CASE k = c.chunk
      <4>1. vec[current][k] # NoVector
        BY <1>11, <1>14, <2>4, <3>1, <3>2, <3>5, <3>6
      <4>2. vec[current][k].state = "stale"
        BY <1>10, <3>1, <3>2, <3>3, <4>1 DEF TypedRows, Vector
      <4> QED
        BY <2>1, <3>1, <3>2, <4>2 DEF SmoothRows, ActiveChunks
    <3>7. CASE k \in c.todo
      BY <1>9, <3>5, <3>7 DEF Owed
    <3> QED
      BY <3>5, <3>6, <3>7
  <2> QED
    BY <2>1, <2>2, <2>5, <2>6
<1> QED
  BY <1>2, <1>8, <1>15, <1>16, <1>17, <1>18, <1>19, VectorsMove

LEMMA DeleteSpaceKeeps ==
    ASSUME VectorInv, NEW p \in Procs, DeleteSpace(p)
    PROVE  VectorInv'
<1> USE VectorInvOf
<1>1. VectorMoves(p)
  BY VectorActs DEF VectorInv, VectorStep
<1>2. Acts(p) /\ UNCHANGED <<chunkVars, weights, followed, current, circuit>> /\ vplans' \subseteq vplans
  BY <1>1 DEF VectorMoves, DeleteSpace, Bump
<1>3. (Smooth' => Smooth) /\ (lone' => lone)
  BY <1>2, ActsDo DEF VectorInv
<1>4. PICK c : c = proc[p]
  OBVIOUS
<1>5. c.pc = "v:delete" /\ c.space \in Spaces /\ proc'[p] = Idle
  BY <1>4, VectorPCs DEF DeleteSpace, TypedAt, SpacePC, VectorPC, BuildPC, CheckPC, At, Set, VectorInv, WorkInv
<1>6. /\ TypedRows /\ BasedRows
      /\ spaces' = [spaces EXCEPT ![c.space].state = "deleted"]
      /\ vec' = [vec EXCEPT ![c.space] = [k \in Chunks |-> NoVector]]
  BY <1>4 DEF DeleteSpace, VectorInv, VectorTyped, BasedInv
<1>7. UNCHANGED <<chunk, weights, followed, current, circuit>>
  BY <1>2 DEF chunkVars
<1>8. ASSUME NEW y \in Spaces
      PROVE  /\ DOMAIN spaces'[y] = {"state", "base", "runs"} /\ spaces'[y].base = spaces[y].base
             /\ spaces'[y].base \in Nat /\ spaces'[y].state \in SpaceStates
             /\ spaces'[y].state = IF y = c.space THEN "deleted" ELSE spaces[y].state
  BY <1>5, <1>6 DEF TypedRows, SpaceStates
<1>9. /\ vec' \in [Spaces -> [Chunks -> Vector]]
      /\ \A s \in Spaces, k \in Chunks : vec'[s][k] = IF s = c.space THEN NoVector ELSE vec[s][k]
  <2>1. NoVector \in Vector
    BY DEF NoVector, Vector
  <2> QED
    BY <1>5, <1>6, <2>1 DEF TypedRows
<1>10. TypedRows'
  <2>1. DOMAIN spaces' = Spaces
    BY <1>6 DEF TypedRows
  <2>2. \A s \in Spaces, k \in Chunks :
          /\ vec'[s][k].state = "none" => vec'[s][k] = NoVector
          /\ vec'[s][k].state # "none" => k \in Known
    BY <1>6, <1>9 DEF TypedRows, NoVector
  <2>3. \A x \in vplans' : x.space \in Spaces /\ x.do \in {"activate", "delete"}
    BY <1>2, <1>6 DEF TypedRows
  <2>4. Known' = Known
    BY <1>7 DEF Known
  <2> QED
    BY <1>6, <1>7, <1>8, <1>9, <2>1, <2>2, <2>3, <2>4 DEF TypedRows
<1>11. BasedRows'
  <2>1. \A y \in Spaces : /\ spaces'[y].base # 0 => Before(spaces[y].base, weights)'
                          /\ spaces'[y].state \in {"verifying", "ready", "deprecated"} => spaces'[y].base # 0
    BY <1>6, <1>7, <1>8 DEF BasedRows, Before
  <2>2. current' # 0 => spaces'[current'].base # 0
    BY <1>6, <1>7, <1>8 DEF BasedRows, TypedRows
  <2>3. \A y \in Spaces, k \in Chunks : vec'[y][k].state = "active" =>
          spaces'[y].base # 0 /\ Before(spaces[y].base, vec[y][k].weights)' /\ Before(vec[y][k].weights, weights)'
    BY <1>6, <1>7, <1>8, <1>9 DEF BasedRows, NoVector, Before
  <2> QED
    BY <2>1, <2>2, <2>3 DEF BasedRows
<1>12. TypedAt(Idle) /\ BasedAt(Idle)' /\ FoundAt(Idle)' /\ SmoothAt(Idle)'
  BY IdleIsElsewhere, VectorPCs DEF TypedAt, BasedAt, FoundAt, SmoothAt
<1>13. lone' => FoundRows' /\ c.space # current
  <2>1. lone' => FoundRows /\ FoundAt(c)
    BY <1>3, <1>4 DEF VectorInv, FoundInv
  <2>2. lone' => c.space # current
    BY <1>5, <2>1 DEF FoundAt
  <2>3. current # 0 => current \in Spaces
    BY <1>6 DEF TypedRows
  <2> QED
    BY <1>7, <1>8, <2>1, <2>2, <2>3 DEF FoundRows
<1>14. ASSUME Smooth'
       PROVE  SmoothRows' /\ (current' # 0 => \A k \in Missing(current)' : Owed(Idle, k))
  <2>1. SmoothRows /\ c.space # current
    BY <1>3, <1>13, <1>14 DEF VectorInv, SmoothInv, Smooth
  <2>2. current # 0 => current \in Spaces /\ spaces'[current].state = spaces[current].state
    BY <1>6, <1>8, <2>1 DEF TypedRows
  <2>3. SmoothRows'
    BY <1>7, <1>9, <2>1, <2>2 DEF SmoothRows, NoVector
  <2>4. current # 0 => \A k \in Missing(current) : Owed(c, k)
    BY <1>2, <1>4, <1>14, OwedByIt
  <2>5. \A k : ~ Owed(c, k)
    BY <1>5 DEF Owed
  <2>6. current # 0 => \A k \in Chunks : vec'[current][k] = vec[current][k]
    BY <1>9, <2>1, <2>2
  <2> QED
    BY <1>7, <2>3, <2>4, <2>5, <2>6 DEF Missing, ActiveChunks
<1>15. \A y \in Spaces : spaces[y].base # 0 => spaces'[y].base = spaces[y].base
  BY <1>8
<1> QED
  BY <1>2, <1>5, <1>10, <1>11, <1>12, <1>13, <1>14, <1>15, VectorsMove

\* A refresh marks what is gone and takes on what is missing.
LEMMA RefreshMarks ==
    ASSUME VectorInv, NEW p \in Procs, RefreshVectors(p), current # 0, spaces[current].state = "ready"
    PROVE  VectorInv'
<1> USE VectorInvOf
<1>1. VectorMoves(p)
  BY VectorActs DEF VectorInv, VectorStep
<1>2. Acts(p) /\ UNCHANGED <<chunkVars, weights, followed, spaces, current, circuit, vplans>>
  BY <1>1 DEF VectorMoves, RefreshVectors
<1>3. (Smooth' => Smooth) /\ (lone' => lone)
  BY <1>2, ActsDo DEF VectorInv
<1>4. PICK r :
        /\ Set(p, r)
        /\ r = [pc |-> "v:more", space |-> current, todo |-> Missing(current), chunk |-> 0,
                weights |-> 0, loop |-> "v:more", then |-> proc[p].then]
  BY DEF RefreshVectors
<1>5. vec' = [vec EXCEPT ![current] = [k \in Chunks |->
                IF vec[current][k].state = "active" /\ k \notin ActiveChunks
                THEN [vec[current][k] EXCEPT !.state = "stale"] ELSE vec[current][k]]]
  BY DEF RefreshVectors
<1>6. proc'[p] = r
  BY <1>4 DEF Set, VectorInv, WorkInv
<1>7. r.pc = "v:more" /\ r.space = current /\ r.todo = Missing(current) /\ r.loop = "v:more"
  BY <1>4
<1>8. TypedRows /\ BasedRows /\ current \in Spaces /\ spaces[current].base # 0
  BY DEF VectorInv, VectorTyped, BasedInv, TypedRows, BasedRows
<1>9. UNCHANGED <<chunk, weights, followed, spaces, current, circuit>>
  BY <1>2 DEF chunkVars
<1>10. /\ vec' \in [Spaces -> [Chunks -> Vector]]
       /\ \A s \in Spaces, k \in Chunks :
            vec'[s][k] = IF s = current /\ vec[s][k].state = "active" /\ k \notin ActiveChunks
                         THEN [vec[s][k] EXCEPT !.state = "stale"] ELSE vec[s][k]
  <2>1. vec \in [Spaces -> [Chunks -> Vector]]
    BY <1>8 DEF TypedRows
  <2>2. \A k \in Chunks : [vec[current][k] EXCEPT !.state = "stale"] \in Vector
    BY <1>8, <2>1 DEF Vector
  <2> QED
    BY <1>5, <1>8, <2>1, <2>2
<1>11. \A s \in Spaces, k \in Chunks :
         vec'[s][k] # vec[s][k] => /\ k \in Known /\ vec'[s][k].state = "stale" /\ k \notin ActiveChunks
                                   /\ s = current
  <2> SUFFICES ASSUME NEW s \in Spaces, NEW k \in Chunks, vec'[s][k] # vec[s][k]
               PROVE  /\ k \in Known /\ vec'[s][k].state = "stale" /\ k \notin ActiveChunks
                      /\ s = current
    OBVIOUS
  <2>1. /\ s = current /\ vec[s][k].state = "active" /\ k \notin ActiveChunks
        /\ vec'[s][k] = [vec[s][k] EXCEPT !.state = "stale"]
    BY <1>10
  <2>2. k \in Known /\ vec[s][k] \in Vector
    BY <1>8, <2>1 DEF TypedRows
  <2>3. vec'[s][k].state = "stale"
    BY <2>1, <2>2 DEF Vector
  <2> QED
    BY <2>1, <2>2, <2>3
<1>12. TypedRows' /\ BasedRows'
  <2>1. circuit' \in {"closed", "open", "half_open"} /\ vplans' \subseteq vplans
    BY <1>2
  <2> QED
    BY <1>2, <1>10, <1>11, <2>1, VecRows
<1>13. TypedAt(r)
  BY <1>7, <1>8 DEF TypedAt, Missing, Known, ActiveChunks
<1>14. BasedAt(r)' /\ FoundAt(r)'
  BY <1>7, <1>8, <1>9 DEF BasedAt, FoundAt
<1>15. lone' => FoundRows'
  BY <1>3, <1>9 DEF VectorInv, FoundInv, FoundRows
<1>16. Missing(current)' = Missing(current)
  BY <1>8, <1>9, <1>11 DEF Missing, ActiveChunks
<1>17. ASSUME Smooth'
       PROVE  /\ SmoothRows' /\ SmoothAt(r)'
              /\ current' # 0 => \A k \in Missing(current)' : Owed(r, k)
  <2>1. SmoothRows
    BY <1>3, <1>17 DEF VectorInv, SmoothInv
  <2>2. \A s \in Spaces, k \in Chunks : vec'[s][k].state = "stale" => chunk[k] = "tombstoned"
    <3> SUFFICES ASSUME NEW s \in Spaces, NEW k \in Chunks, vec'[s][k].state = "stale"
                 PROVE  chunk[k] = "tombstoned"
      OBVIOUS
    <3>1. CASE vec'[s][k] = vec[s][k]
      BY <2>1, <3>1 DEF SmoothRows
    <3>2. CASE vec'[s][k] # vec[s][k]
      BY <1>11, <3>2 DEF Known, ActiveChunks, VectorInv, KnowledgeInv, ChunkStates
    <3> QED
      BY <3>1, <3>2
  <2>3. SmoothRows'
    BY <1>9, <2>1, <2>2 DEF SmoothRows
  <2>4. SmoothAt(r)'
    BY <1>7, <1>9 DEF SmoothAt, BuildPC
  <2> QED
    BY <1>7, <1>16, <2>3, <2>4 DEF Owed
<1> QED
  BY <1>2, <1>6, <1>12, <1>13, <1>14, <1>15, <1>17, VectorsMove

LEMMA RefreshKeeps ==
    ASSUME VectorInv, NEW p \in Procs, RefreshVectors(p)
    PROVE  VectorInv'
<1> USE VectorInvOf
<1>1. VectorMoves(p)
  BY VectorActs DEF VectorInv, VectorStep
<1>2. CASE current # 0 /\ spaces[current].state = "ready"
  BY <1>2, RefreshMarks
<1>3. CASE current = 0 \/ spaces[current].state # "ready"
  <2>1. Acts(p) /\ UNCHANGED <<chunkVars, weights, followed, spaces, vec, current, circuit, vplans>>
    BY <1>1, <1>3 DEF VectorMoves, RefreshVectors
  <2>2. proc[p].pc = "v:refresh"
    BY DEF RefreshVectors, At
  <2>3. proc'[p].pc \in {"idle", "g:refresh"}
    <3>1. CASE Refreshed(p)
      <4>1. Step
        BY DEF RefreshVectors
      <4>2. IF proc[p].then = "idle" THEN proc'[p] = Idle
            ELSE proc'[p] = [proc[p] EXCEPT !.pc = "g:refresh"]
        BY <2>2, <3>1, <4>1, RefreshedDoes DEF VectorInv
      <4>3. "pc" \in DOMAIN proc[p]
        BY <2>2, ShapeOf DEF AfterShape, VectorRefreshShape, GraphShape, Has
      <4> QED
        BY <4>2, <4>3, IdleShape
    <3>2. CASE Set(p, Idle)
      BY <3>2, IdleShape DEF Set, VectorInv, WorkInv
    <3> QED
      BY <1>3, <3>1, <3>2 DEF RefreshVectors
  <2>4. TypedAt(proc'[p]) /\ BasedAt(proc'[p]) /\ FoundAt(proc'[p]) /\ SmoothAt(proc'[p])
    BY <2>3 DEF TypedAt, BasedAt, FoundAt, SmoothAt, SpacePC, TodoPC, BuildPC, VectorPC, CheckPC
  <2>5. Smooth' => Smooth
    BY <2>1, ActsDo DEF VectorInv
  <2>6. Smooth' => current = 0
    BY <1>3, <2>5 DEF VectorInv, SmoothInv, SmoothRows
  <2> QED
    BY <2>1, <2>4, <2>5, <2>6, VectorsStay
<1> QED
  BY <1>2, <1>3

LEMMA CreateSpaceKeeps ==
    ASSUME VectorInv, CreateSpace
    PROVE  VectorInv'
<1>1. /\ Outside /\ UNCHANGED <<chunkVars, vec, current, weights, followed, circuit, vplans>>
      /\ WorkInv' /\ (lone' => lone) /\ (Smooth' => Smooth) /\ UNCHANGED proc
  <2>1. Outside /\ UNCHANGED <<chunkVars, vec, current, weights, followed, circuit, vplans>>
    BY AtomicActs DEF VectorInv, CreateSpace
  <2> QED
    BY <2>1, OutsideKeeps, OutsideDoes DEF VectorInv, Outside
<1>2. PICK s \in Spaces : spaces[s].state = "none" /\ spaces' = [spaces EXCEPT ![s].state = "building"]
  BY DEF CreateSpace
<1>3. TypedRows /\ BasedRows /\ UNCHANGED <<chunk, back, emptied>>
  BY <1>1 DEF VectorInv, VectorTyped, BasedInv, chunkVars
<1>4. /\ DOMAIN spaces' = Spaces
      /\ \A y \in Spaces :
           /\ DOMAIN spaces'[y] = {"state", "base", "runs"} /\ spaces'[y].base = spaces[y].base
           /\ spaces'[y].state = IF y = s THEN "building" ELSE spaces[y].state
  BY <1>2, <1>3 DEF TypedRows
<1>5. KnowledgeInv'
  BY <1>3 DEF VectorInv, KnowledgeInv, Known, ActiveChunks
<1>6. TypedRows'
  <2>1. \A y \in Spaces : spaces'[y].base \in Nat /\ spaces'[y].state \in SpaceStates
    BY <1>3, <1>4 DEF TypedRows, SpaceStates
  <2> QED
    BY <1>1, <1>3, <1>4, <2>1 DEF TypedRows, Known
<1>7. BasedRows'
  BY <1>1, <1>3, <1>4 DEF BasedRows, TypedRows, Before
<1>8. \A p \in Procs : TypedAt(proc[p])'
  BY <1>1, <1>3 DEF VectorInv, VectorTyped, TypedAt, Known
<1>9. \A p \in Procs : BasedAt(proc[p])'
  <2> SUFFICES ASSUME NEW p \in Procs PROVE BasedAt(proc[p])'
    OBVIOUS
  <2>1. TypedAt(proc[p]) /\ BasedAt(proc[p]) /\ UNCHANGED <<proc, weights, followed>>
    BY <1>1 DEF VectorInv, VectorTyped, BasedInv
  <2>2. proc[p].pc \in {"v:next", "v:save", "v:more", "v:verdict", "v:activate"} =>
          spaces'[proc[p].space].base = spaces[proc[p].space].base
    BY <1>4, <2>1 DEF TypedAt, SpacePC, VectorPC, BuildPC, CheckPC
  <2> QED
    BY <2>1, <2>2 DEF BasedAt, Before
<1>10. FoundInv'
  <2> SUFFICES ASSUME lone' PROVE FoundRows' /\ \A p \in Procs : FoundAt(proc[p])'
    BY DEF FoundInv
  <2>1. FoundRows /\ (\A p \in Procs : FoundAt(proc[p])) /\ UNCHANGED <<proc, current, vec>>
    BY <1>1 DEF VectorInv, FoundInv
  <2>2. FoundRows'
    BY <1>3, <1>4, <2>1 DEF FoundRows, TypedRows
  <2>3. ASSUME NEW p \in Procs PROVE FoundAt(proc[p])'
    <3>1. TypedAt(proc[p]) /\ FoundAt(proc[p])
      BY <2>1 DEF VectorInv, VectorTyped
    <3>2. proc[p].pc \in {"v:verdict", "v:activate"} => proc[p].space \in Spaces
      BY <3>1 DEF TypedAt, SpacePC, VectorPC, BuildPC, CheckPC
    <3> QED
      BY <1>1, <1>2, <1>4, <2>1, <3>1, <3>2 DEF FoundAt, Before
  <2> QED
    BY <2>2, <2>3
<1>11. SmoothInv'
  <2> SUFFICES ASSUME Smooth' PROVE SmoothInv'
    BY DEF SmoothInv
  <2>1. /\ SmoothRows /\ \A p \in Procs : SmoothAt(proc[p])
        /\ current # 0 => \A k \in Missing(current) : \E p \in Procs : Owed(proc[p], k)
    BY <1>1 DEF VectorInv, SmoothInv
  <2>2. SmoothRows'
    BY <1>1, <1>2, <1>3, <1>4, <2>1 DEF SmoothRows, TypedRows
  <2>3. \A p \in Procs : SmoothAt(proc[p])'
    BY <1>1, <1>3, <2>1 DEF SmoothAt, Missing, ActiveChunks
  <2>4. current' # 0 => \A k \in Missing(current)' : \E p \in Procs : Owed(proc[p], k)'
    BY <1>1, <1>3, <2>1 DEF Missing, ActiveChunks, Owed
  <2> QED
    BY <2>2, <2>3, <2>4 DEF SmoothInv
<1> QED
  BY <1>1, <1>5, <1>6, <1>7, <1>8, <1>9, <1>10, <1>11 DEF VectorInv, VectorTyped, BasedInv

LEMMA DriftKeeps ==
    ASSUME VectorInv, Drift
    PROVE  VectorInv'
<1>1. /\ WorkInv' /\ (lone' => lone) /\ ~ Smooth'
      /\ UNCHANGED <<proc, chunk, back, emptied, spaces, vec, current, circuit, vplans>>
  <2>1. Outside /\ UNCHANGED <<chunkVars, lone>> /\ used'["drift"] # 0
    BY DriftDoes DEF VectorInv
  <2> QED
    BY <2>1, OutsideKeeps DEF VectorInv, Drift, Smooth, Outside, chunkVars
<1>2. TypedRows /\ BasedRows
  BY DEF VectorInv, VectorTyped, BasedInv
<1>3. PICK w \in Models :
        /\ weights' = w
        /\ followed' = followed \cup {<<a, w>> : a \in {weights} \cup {b \in Models : <<b, weights>> \in followed}}
  BY DEF Drift
<1>4. KnowledgeInv'
  BY <1>1 DEF VectorInv, KnowledgeInv, Known, ActiveChunks
<1>5. TypedRows'
  <2>1. weights' \in Models /\ weights' \in Nat \ {0} /\ followed' \subseteq Models \X Models
    <3>1. weights \in Models /\ followed \subseteq Models \X Models
      BY <1>2 DEF TypedRows
    <3>2. PICK A : A = {weights} \cup {b \in Models : <<b, weights>> \in followed}
      OBVIOUS
    <3>3. A \subseteq Models
      BY <3>1, <3>2
    <3>4. w \in Models /\ followed' = followed \cup {<<a, w>> : a \in A}
      BY <1>3, <3>2
    <3>5. followed' \subseteq Models \X Models
      BY <3>1, <3>3, <3>4
    <3> QED
      BY <1>3, <3>5, ModelsAssumption
  <2> QED
    BY <1>1, <1>2, <2>1 DEF TypedRows, Known
<1>6. /\ \A a, b : Before(a, b) => Before(a, b)'
      /\ \A a : Before(a, weights) => Before(a, weights)'
  BY <1>2, <1>3 DEF Before, TypedRows
<1>7. BasedRows'
  <2>1. \A s \in Spaces : /\ spaces'[s].base # 0 => Before(spaces[s].base, weights)'
                          /\ spaces'[s].state \in {"verifying", "ready", "deprecated"} => spaces'[s].base # 0
    <3>1. ASSUME NEW s \in Spaces, NEW b, b = spaces[s].base, b # 0 PROVE Before(b, weights)'
      BY <1>2, <1>6, <3>1 DEF BasedRows
    <3> QED
      BY <1>1, <1>2, <3>1 DEF BasedRows, Before
  <2>2. current' # 0 => spaces'[current'].base # 0
    BY <1>1, <1>2 DEF BasedRows
  <2>3. ASSUME NEW s \in Spaces, NEW k \in Chunks, vec'[s][k].state = "active"
        PROVE  /\ spaces'[s].base # 0
               /\ Before(spaces[s].base, vec[s][k].weights)' /\ Before(vec[s][k].weights, weights)'
    <3>1. PICK b, u : b = spaces[s].base /\ u = vec[s][k].weights
      OBVIOUS
    <3>2. b # 0 /\ Before(b, u) /\ Before(u, weights)
      BY <1>1, <1>2, <2>3, <3>1 DEF BasedRows
    <3>3. Before(b, u)' /\ Before(u, weights)'
      BY <1>6, <3>2
    <3> QED
      BY <1>1, <3>1, <3>2, <3>3 DEF Before
  <2> QED
    BY <2>1, <2>2, <2>3 DEF BasedRows
<1>8. \A p \in Procs : TypedAt(proc[p])'
  BY <1>1 DEF VectorInv, VectorTyped, TypedAt, Known
<1>9. ASSUME NEW p \in Procs PROVE BasedAt(proc[p])'
  <2>1. BasedAt(proc[p])
    BY DEF VectorInv, BasedInv
  <2>2. PICK c : c = proc[p]
    OBVIOUS
  <2>3. PICK b, u : b = spaces[c.space].base /\ u = c.weights
    OBVIOUS
  <2>4. c.pc = "v:save" => Before(b, u)' /\ Before(u, weights)'
    BY <1>6, <2>1, <2>2, <2>3 DEF BasedAt
  <2> QED
    BY <1>1, <2>1, <2>2, <2>3, <2>4 DEF BasedAt, Before
<1>10. FoundInv'
  <2>1. ASSUME lone, NEW p \in Procs PROVE FoundAt(proc[p])'
    <3>1. PICK c : c = proc[p]
      OBVIOUS
    <3>2. FoundAt(c)
      BY <2>1, <3>1 DEF VectorInv, FoundInv
    <3>3. ASSUME c.pc = "v:verdict", NEW k \in Chunks, vec'[c.space][k].state = "active"
          PROVE  /\ Before(spaces[c.space].base, vec[c.space][k].weights)'
                 /\ Before(vec[c.space][k].weights, spaces[c.space].base)'
      <4>1. PICK b, u : b = spaces[c.space].base /\ u = vec[c.space][k].weights
        OBVIOUS
      <4>2. Before(b, u)' /\ Before(u, b)'
        BY <1>1, <1>6, <3>2, <3>3, <4>1 DEF FoundAt
      <4> QED
        BY <1>1, <4>1, <4>2 DEF Before
    <3> QED
      BY <1>1, <3>1, <3>2, <3>3 DEF FoundAt
  <2> QED
    BY <1>1, <2>1 DEF VectorInv, FoundInv, FoundRows
<1> QED
  BY <1>1, <1>4, <1>5, <1>7, <1>8, <1>9, <1>10 DEF VectorInv, VectorTyped, BasedInv, SmoothInv

LEMMA PublishKeeps ==
    ASSUME VectorInv, NEW p \in Procs, Publish(p), UNCHANGED vectorVars
    PROVE  VectorInv'
<1>1. /\ Acts(p) /\ UNCHANGED <<spaces, vec, current, weights, followed, circuit, vplans>>
      /\ proc'[p] = [pc |-> "topics", then |-> "v:refresh"]
  BY PublishActs DEF VectorInv, vectorVars
<1>2. WorkInv' /\ (\A q \in Procs : q # p => proc'[q] = proc[q]) /\ (lone' => lone)
  BY <1>1, ActsDo, ActsKeep DEF VectorInv
<1>3. PICK r : r = proc'[p]
  OBVIOUS
<1>4. r.pc = "topics" /\ (\A k : Owed(r, k))
  BY <1>1, <1>3 DEF Owed
<1>5. PICK k \in Chunks :
        /\ chunk' = [chunk EXCEPT ![k] = IF @ = "active" THEN "tombstoned" ELSE "active"]
        /\ back' = IF chunk[k] = "tombstoned" THEN back \cup {k} ELSE back
        /\ emptied' = (emptied \/ ActiveChunks = {k})
  BY DEF Publish
<1>6. /\ TypedRows /\ BasedRows
      /\ chunk \in [Chunks -> ChunkStates] /\ back \subseteq Known /\ (~ emptied => ActiveChunks # {})
  BY DEF VectorInv, VectorTyped, BasedInv, KnowledgeInv
<1>7. chunk' \in [Chunks -> ChunkStates] /\ \A j \in Chunks : j # k => chunk'[j] = chunk[j]
  BY <1>5, <1>6 DEF ChunkStates
<1>8. chunk'[k] = IF chunk[k] = "active" THEN "tombstoned" ELSE "active"
  BY <1>5, <1>6
<1>9. Known' = Known \cup {k}
  BY <1>5, <1>7, <1>8 DEF Known
<1>10. KnowledgeInv'
  <2>1. back' \subseteq Known'
    BY <1>5, <1>6, <1>9
  <2>2. ~ emptied' => ActiveChunks' # {}
    BY <1>5, <1>6, <1>7, <1>8 DEF ActiveChunks
  <2> QED
    BY <1>7, <2>1, <2>2 DEF KnowledgeInv
<1>11. TypedRows'
  BY <1>1, <1>6, <1>9 DEF TypedRows
<1>12. BasedRows'
  BY <1>1, <1>6 DEF BasedRows, Before
<1>13. \A q \in Procs : TypedAt(proc[q])'
  <2>1. TypedAt(r)'
    BY <1>4 DEF TypedAt, SpacePC, TodoPC, VectorPC, BuildPC, CheckPC
  <2>2. ASSUME NEW q \in Procs, q # p PROVE TypedAt(proc[q])'
    <3>1. TypedAt(proc[q]) /\ proc'[q] = proc[q]
      BY <1>2, <2>2 DEF VectorInv, VectorTyped
    <3> QED
      BY <1>9, <3>1 DEF TypedAt
  <2> QED
    BY <1>3, <2>1, <2>2 DEF TypedAt
<1>14. \A q \in Procs : BasedAt(proc[q])'
  <2>1. BasedAt(r)'
    BY <1>4 DEF BasedAt
  <2>2. \A q \in Procs : q # p => BasedAt(proc[q])'
    BY <1>1, <1>2 DEF VectorInv, BasedInv, BasedAt, Before
  <2> QED
    BY <1>3, <2>1, <2>2 DEF BasedAt
<1>15. FoundInv'
  <2>1. FoundAt(r)'
    BY <1>4 DEF FoundAt
  <2>2. lone' => FoundRows' /\ \A q \in Procs : q # p => FoundAt(proc[q])'
    BY <1>1, <1>2 DEF VectorInv, FoundInv, FoundRows, FoundAt, Before
  <2> QED
    BY <1>3, <2>1, <2>2 DEF FoundInv, FoundAt
<1>16. SmoothInv'
  <2> SUFFICES ASSUME Smooth' PROVE SmoothInv'
    BY DEF SmoothInv
  <2>1. Smooth /\ chunk[k] # "tombstoned" /\ lone' /\ \A q \in Procs : q # p => proc'[q] = Idle
    <3>1. /\ {"fault", "drift"} \subseteq Kinds /\ used["fault"] \in Nat /\ used["drift"] \in Nat
          /\ used["fault"] <= used'["fault"] /\ used["drift"] <= used'["drift"]
      BY <1>1, CountedAssumption DEF Acts, Counts, VectorInv, WorkInv, Counted
    <3>2. back = {} /\ ~ emptied /\ chunk[k] # "tombstoned"
      BY <1>5 DEF Smooth
    <3>3. lone' /\ \A q \in Procs : q # p => proc'[q] = Idle
      BY <1>1, ActsDo DEF Smooth, VectorInv
    <3> QED
      BY <1>2, <3>1, <3>2, <3>3 DEF Smooth
  <2>2. SmoothRows
    BY <2>1 DEF VectorInv, SmoothInv
  <2>3. SmoothRows'
    BY <1>1, <1>7, <2>1, <2>2 DEF SmoothRows
  <2>4. SmoothAt(r)' /\ SmoothAt(Idle)'
    BY <1>4, IdleIsElsewhere DEF SmoothAt, VectorPC, BuildPC, CheckPC
  <2>5. \A q \in Procs : SmoothAt(proc[q])'
    BY <1>3, <2>1, <2>4 DEF SmoothAt
  <2>6. \A j : \E q \in Procs : Owed(proc'[q], j)
    BY <1>3, <1>4
  <2> QED
    BY <2>3, <2>5, <2>6 DEF SmoothInv, Owed
<1> QED
  BY <1>2, <1>10, <1>11, <1>12, <1>13, <1>14, <1>15, <1>16 DEF VectorInv, VectorTyped, BasedInv

\* A killed command owes nothing any more, and a fault is counted.
LEMMA KillKeeps ==
    ASSUME VectorInv, NEW p \in Procs, Kill(p), UNCHANGED vectorVars
    PROVE  VectorInv'
<1>1. /\ Acts(p) /\ proc'[p] = Idle /\ used'["fault"] # 0 /\ UNCHANGED chunkVars
      /\ UNCHANGED <<spaces, vec, current, weights, followed, circuit, vplans>>
  BY KillActs DEF VectorInv, vectorVars
<1>2. ~ Smooth'
  BY <1>1 DEF Smooth
<1>3. TypedAt(proc'[p]) /\ BasedAt(proc'[p]) /\ FoundAt(proc'[p]) /\ SmoothAt(proc'[p])
  BY <1>1, IdleIsElsewhere, VectorPCs DEF TypedAt, BasedAt, FoundAt, SmoothAt
<1> QED
  BY <1>1, <1>2, <1>3, VectorInvOf, VectorsStay

\* The commands of the graph, of a Topic and of its Artifact.
LEMMA OthersKeepVectors ==
    ASSUME VectorInv, NEW p \in Procs, UNCHANGED vectorVars,
           GraphStep(p) \/ ApplyPlan(p) \/ TopicStep(p) \/ ArtifactStep(p)
    PROVE  VectorInv'
<1> USE IdleShape
<1>1. CASE GraphStep(p)
  <2>1. GraphMoves(p)
    BY <1>1, GraphActs DEF VectorInv
  <2>2. proc[p].pc = "topics" => proc[p].then = "idle"
    BY <1>1 DEF GraphStep, StartGraphBuild, RefreshGraph, MarkStaleEvidence, Project, ListChunks, NextChunk,
       ModelAnswers, MarkSucceeded, ExtractionFails, Align, BuildNeighbors, Finalize, ReadPrevious,
       SwitchPointer, BuildFails, BuildThrows, At, Start, Begin, Launch
  <2>3. proc'[p].pc \notin VectorPC /\ \A k : ~ Owed(proc[p], k)
    BY <2>1, <2>2 DEF GraphMoves, GraphPC, VectorPC, BuildPC, CheckPC, Owed
  <2> QED
    BY <2>1, <2>3, VectorFrame DEF GraphMoves
<1>2. CASE ApplyPlan(p)
  <2>1. Acts(p) /\ proc[p] = Idle /\ UNCHANGED chunkVars /\ proc'[p].pc = "topics"
    BY <1>2, PlanActs DEF VectorInv
  <2> QED
    BY <2>1, IdleIsElsewhere, VectorFrame DEF VectorPC, BuildPC, CheckPC
<1>3. CASE TopicStep(p) \/ ArtifactStep(p)
  <2>1. SynthMoves(p)
    BY <1>3, TopicActs, ArtifactActs DEF VectorInv
  <2>2. proc'[p].pc \notin VectorPC /\ \A k : ~ Owed(proc[p], k)
    BY <2>1 DEF SynthMoves, SynthPC, TopicPC, ArtifactPC, ArchivePC, VectorPC, BuildPC, CheckPC, Owed
  <2> QED
    BY <2>1, <2>2, VectorFrame DEF SynthMoves
<1> QED
  BY <1>1, <1>2, <1>3

LEMMA VectorStepKeeps ==
    ASSUME VectorInv, NEW p \in Procs, VectorStep(p)
    PROVE  VectorInv'
BY StartBuildKeeps, CallFailsKeeps, SentinelKeeps, EmbedNextKeeps, SaveEmbeddingKeeps, FinishBuildKeeps,
   StartVerifyKeeps, VerdictKeeps, VectorEnds, RefreshKeeps, FinishRefreshKeeps, ActivateSpaceKeeps,
   DeleteSpaceKeeps DEF VectorStep

LEMMA VectorSteps == VectorInv /\ [Next]_vars => VectorInv'
<1> SUFFICES ASSUME VectorInv, [Next]_vars PROVE VectorInv'
  OBVIOUS
<1>1. CASE UNCHANGED vars
  <2>1. UNCHANGED <<proc, used, lone, chunk, back, emptied, spaces, vec, current, weights, followed, circuit, vplans>>
    BY <1>1 DEF vars, commandVars, workVars, chunkVars, vectorVars
  <2> QED
    BY <2>1 DEF VectorInv, WorkInv, KnowledgeInv, Known, ActiveChunks, VectorTyped, TypedRows, TypedAt,
       BasedInv, BasedRows, BasedAt, FoundInv, FoundRows, FoundAt, SmoothInv, SmoothRows, SmoothAt,
       Smooth, Missing, Owed, Before
<1>2. CASE CreateVectorPlan
  <2>1. Outside /\ UNCHANGED <<chunkVars, spaces, vec, current, weights, followed, circuit>>
    BY <1>2, AtomicActs DEF VectorInv, CreateVectorPlan
  <2>2. \A x \in vplans' : x.space \in Spaces /\ x.do \in {"activate", "delete"}
    BY <1>2 DEF CreateVectorPlan, VectorInv, VectorTyped, TypedRows
  <2> QED
    BY <2>1, <2>2, VectorOutside
<1>3. CASE (CreatePlan \/ Moderate \/ CreateTopic \/ UpdateTopic) /\ UNCHANGED vectorVars
  <2>1. Outside /\ UNCHANGED <<chunkVars, spaces, vec, current, weights, followed, circuit, vplans>>
    BY <1>3, AtomicActs DEF VectorInv, vectorVars
  <2>2. \A x \in vplans' : x.space \in Spaces /\ x.do \in {"activate", "delete"}
    BY <2>1 DEF VectorInv, VectorTyped, TypedRows
  <2> QED
    BY <2>1, <2>2, VectorOutside
<1>4. CASE CreateSpace \/ Drift
  BY <1>4, CreateSpaceKeeps, DriftKeeps
<1>5. ASSUME NEW p \in Procs, VectorStep(p) PROVE VectorInv'
  BY <1>5, VectorStepKeeps
<1>6. ASSUME NEW p \in Procs, UNCHANGED vectorVars,
             \/ GraphStep(p) \/ ApplyPlan(p) \/ InvalidateTopics(p) \/ TopicStep(p)
             \/ ArtifactStep(p) \/ Publish(p) \/ Kill(p)
      PROVE  VectorInv'
  BY <1>6, OthersKeepVectors, InvalidateKeepsVectors, PublishKeeps, KillKeeps
<1> QED
  BY <1>1, <1>2, <1>3, <1>4, <1>5, <1>6 DEF Next

LEMMA VectorStarts == Init => VectorInv
<1> SUFFICES ASSUME Init PROVE VectorInv
  OBVIOUS
<1>1. WorkInv
  BY WorkStarts
<1>2. /\ chunk = [k \in Chunks |-> IF k \in limit.first THEN "active" ELSE "absent"]
      /\ back = {} /\ emptied = (limit.first = {}) /\ limit \in Limits
      /\ proc = [p \in Procs |-> Idle]
  BY DEF Init, CommandsInit, WorkInit
<1>3. /\ spaces = [s \in Spaces |-> [state |-> "none", base |-> 0, runs |-> <<>>]]
      /\ vec = [s \in Spaces |-> [k \in Chunks |-> NoVector]]
      /\ current = 0 /\ weights = 1 /\ followed = {} /\ circuit = "closed" /\ vplans = {}
  BY DEF Init, VectorInit
<1>4. KnowledgeInv
  <2>1. limit.first \subseteq Chunks
    BY <1>2, CommandsAssumption
  <2> QED
    BY <1>2, <2>1 DEF KnowledgeInv, ChunkStates, Known, ActiveChunks
<1>5. \A p \in Procs : TypedAt(proc[p]) /\ BasedAt(proc[p]) /\ FoundAt(proc[p]) /\ SmoothAt(proc[p])
  BY <1>2, IdleIsElsewhere, VectorPCs DEF TypedAt, BasedAt, FoundAt, SmoothAt
<1>6. TypedRows
  BY <1>3, ModelsAssumption DEF TypedRows, SpaceStates, Vector, NoVector
<1>7. BasedRows /\ FoundRows /\ SmoothRows
  BY <1>3 DEF BasedRows, FoundRows, SmoothRows, NoVector
<1> QED
  BY <1>1, <1>3, <1>4, <1>5, <1>6, <1>7 DEF VectorInv, VectorTyped, BasedInv, FoundInv, SmoothInv

\* The active space of commands that come one after another is not retired, and
\* without failures, drift and chunks that come back every command leaves it
\* ready and with a vector for every chunk: nothing is owed when all are done.
THEOREM ActiveSpaceStaysCovered == Spec => []ActiveSpaceCovers
<1>1. VectorInv => ActiveSpaceCovers
  <2> SUFFICES ASSUME VectorInv, lone, Busy = {}, current # 0
               PROVE  /\ spaces[current].state \notin {"none", "deprecated", "deleted"}
                      /\ used["fault"] = 0 /\ used["drift"] = 0 /\ back = {} /\ ~ emptied =>
                           spaces[current].state = "ready" /\ Missing(current) = {}
    BY DEF ActiveSpaceCovers
  <2>1. \A p \in Procs : proc[p] = Idle
    BY DEF Busy
  <2>2. Smooth => spaces[current].state = "ready" /\ Missing(current) = {}
    BY <2>1, IdleIsElsewhere DEF VectorInv, SmoothInv, SmoothRows
  <2> QED
    BY <2>2 DEF VectorInv, FoundInv, FoundRows, Smooth
<1> QED
  BY <1>1, VectorStarts, VectorSteps, PTL DEF Spec

\* The state of a space turns to ready by its verdict alone.
LEMMA OnlyVerdicts ==
    ASSUME VectorInv, NEW s \in Spaces, lone', [Next]_vars,
           spaces[s].state = "verifying", spaces'[s].state = "ready"
    PROVE  \E p \in Procs : Verdict(p) /\ proc[p].space = s /\ Covered(s)
<1>1. TypedRows
  BY DEF VectorInv, VectorTyped
<1>2. spaces' # spaces
  OBVIOUS
<1>3. ~ CreateSpace
  <2> SUFFICES ASSUME CreateSpace PROVE FALSE
    OBVIOUS
  <2>1. PICK x \in Spaces : spaces' = [spaces EXCEPT ![x].state = "building"]
    BY DEF CreateSpace
  <2> QED
    BY <1>1, <2>1 DEF TypedRows
<1>4. PICK p \in Procs : \/ StartVectorBuild(p) \/ CheckSentinel(p) \/ FinishVectorBuild(p)
                         \/ Verdict(p) \/ ActivateSpace(p) \/ DeleteSpace(p)
  <2>1. \E p \in Procs : VectorStep(p)
    BY <1>2, <1>3 DEF Next, vars, vectorVars, Drift, CreateVectorPlan
  <2>2. PICK p \in Procs : VectorStep(p)
    BY <2>1
  <2> QED
    BY <1>2, <2>2 DEF VectorStep, CallFails, EmbedNext, SaveEmbedding, StartVerify, VerifyAborts,
       StartVectorRefresh, RefreshVectors, FinishRefresh, ApplyVectorPlan, StartTest, EndTest, vectorVars
<1>5. TypedAt(proc[p]) /\ (lone => FoundAt(proc[p])) /\ Acts(p) /\ lone
  <2>1. VectorStep(p)
    BY <1>4 DEF VectorStep
  <2>2. Acts(p)
    BY <2>1, VectorActs DEF VectorInv, VectorMoves
  <2> QED
    BY <2>2, ActsDo, VectorInvOf DEF VectorInv
<1>6. CASE StartVectorBuild(p)
  <2>1. PICK x, u : x \in Spaces /\ spaces' = [spaces EXCEPT ![x].state = "building", ![x].runs = u]
    BY <1>6 DEF StartVectorBuild
  <2> QED
    BY <1>1, <2>1 DEF TypedRows
<1>7. CASE CheckSentinel(p)
  <2>1. \E x, b : spaces' = [spaces EXCEPT ![x].base = b]
    BY <1>7 DEF CheckSentinel
  <2>2. PICK x, b : spaces' = [spaces EXCEPT ![x].base = b]
    BY <2>1
  <2> QED
    BY <1>1, <2>2 DEF TypedRows
<1>8. CASE FinishVectorBuild(p)
  <2>1. PICK x, u, st : spaces' = [spaces EXCEPT ![x].state = st, ![x].runs = u] /\ st \in {"failed", "verifying"}
    BY <1>8 DEF FinishVectorBuild
  <2> QED
    BY <1>1, <2>1 DEF TypedRows
<1>9. CASE ActivateSpace(p)
  <2>1. proc[p].pc = "v:activate" /\ proc[p].space \in Spaces
    BY <1>5, <1>9, VectorPCs DEF ActivateSpace, At, TypedAt, SpacePC
  <2>2. spaces[proc[p].space].state \in {"ready", "deprecated"}
    BY <1>5, <2>1 DEF FoundAt
  <2>3. spaces'[s] = IF s = current THEN [spaces[s] EXCEPT !.state = "deprecated"] ELSE spaces[s]
    BY <1>9, <2>2 DEF ActivateSpace
  <2> QED
    BY <1>1, <2>3 DEF TypedRows
<1>10. CASE DeleteSpace(p)
  BY <1>1, <1>10 DEF DeleteSpace, TypedRows
<1>11. CASE Verdict(p)
  <2>1. PICK x, u, st : /\ spaces' = [spaces EXCEPT ![x].state = st, ![x].runs = u]
                        /\ x = proc[p].space /\ st = IF Covered(x) THEN "ready" ELSE "failed"
    BY <1>11 DEF Verdict
  <2>2. x = s /\ st = "ready"
    BY <1>1, <2>1 DEF TypedRows
  <2> QED
    BY <1>11, <2>1, <2>2
<1> QED
  BY <1>4, <1>6, <1>7, <1>8, <1>9, <1>10, <1>11

\* A verification that leaves its space ready has seen vectors of the sentinel's
\* weights for every active chunk, whatever was killed or failed before: an
\* embedding of other weights is among them only if the provider has served these
\* in between and come back, which no comparison with the sentinel can see.
THEOREM SpacesPassOnOneModel == Spec => VerifiedOnOneModel
<1>1. VectorInv /\ [Next]_vars =>
        [\A s \in Spaces :
            /\ lone' /\ spaces'[s].state = "ready"
            /\ spaces[s].state = "verifying" \/ \E p \in Procs : At(p, "v:verdict") /\ proc[p].space = s
            => \A k \in ActiveChunks : vec[s][k].state = "active" =>
                  /\ Before(spaces[s].base, vec[s][k].weights)
                  /\ Before(vec[s][k].weights, spaces[s].base)]_<<proc, vectorVars>>
  <2> SUFFICES ASSUME VectorInv, [Next]_vars, NEW s \in Spaces, lone', spaces'[s].state = "ready",
                      \/ spaces[s].state = "verifying"
                      \/ \E p \in Procs : At(p, "v:verdict") /\ proc[p].space = s,
                      NEW k \in ActiveChunks, vec[s][k].state = "active"
               PROVE  /\ Before(spaces[s].base, vec[s][k].weights)
                      /\ Before(vec[s][k].weights, spaces[s].base)
    OBVIOUS
  <2>1. PICK p \in Procs : proc[p].pc = "v:verdict" /\ proc[p].space = s
    <3>1. CASE spaces[s].state = "verifying"
      BY <3>1, OnlyVerdicts DEF Verdict, At
    <3> QED
      BY <3>1 DEF At
  <2>2. FoundAt(proc[p])
    BY WorkSteps DEF VectorInv, FoundInv
  <2> QED
    BY <2>1, <2>2 DEF FoundAt, ActiveChunks
<1> QED
  BY <1>1, VectorStarts, VectorSteps, PTL DEF Spec, VerifiedOnOneModel

-----------------------------------------------------------------------------
(* The graph. *)

Statuses  == {"none", "proposed", "disputed", "stale", "rejected", "user_confirmed"}
Decided   == {"rejected", "user_confirmed"}
RelStates == {"none", "proposed", "accepted", "stale", "rejected"}
GenStates == {"building", "ready", "active", "superseded", "failed"}
Facts     == Claims \cup Relations
Generation ==
    [state : GenStates, parent : Nat, claims : SUBSET Claims, relations : SUBSET Relations,
     users : SUBSET Users, nodes : SUBSET Chunks, unverified : BOOLEAN]

\* A relation between the entities of a claim has its evidence where the claim
\* has it, unless a text states the claim without the relation.
Pairs == {e \in (DOMAIN ClaimOf \ Uneven) \X Chunks : ClaimOf[e[1]] \in ClaimsIn[TextOf[e[2]]]}
Even(S) == \A e \in Pairs : e \in S <=> <<ClaimOf[e[1]], e[2]>> \in S
\* The runs are those of the texts.
Inputs(u) ==
    /\ u \in [Texts -> [state : {"none", "running", "succeeded", "failed"}, chunk : Nat]]
    /\ \A t \in Texts : u[t].chunk \in Chunks => TextOf[u[t].chunk] = t
\* Evidence is of what its text states, and relations with evidence were found.
Stated(g, e) ==
    /\ e[1] \in Claims => e[1] \in ClaimsIn[TextOf[e[2]]]
    /\ e[1] \in Relations => g.relations[e[1]] # "none"
Paired(g) ==
    /\ Even(g.supports.active) /\ Even(g.supports.stale)
    /\ \A e \in g.supports.active : Stated(g, e)
    /\ Inputs(g.runs)

\* Evidence is of chunks that were there; what is disputed has been found.
IsGraph(g) ==
    /\ DOMAIN g = {"claims", "level", "supports", "relations", "conflicts", "runs", "nodes"}
    /\ g.claims \in [Claims -> Statuses] /\ DOMAIN g.supports = {"active", "stale"}
    /\ g.level \in [Claims -> {"assessed", "disputed"}]
    /\ g.relations \in [Relations -> RelStates]
    /\ g.supports.active \subseteq Facts \X Chunks
    /\ g.supports.stale \subseteq Facts \X Chunks
    /\ g.supports.active \cap g.supports.stale = {}
    /\ g.conflicts \in [Scopes -> SUBSET Claims]
    /\ \A c \in Claims : Disputed(g, c) =>
         g.claims[c] \notin {"none", "proposed"} /\ g.level[c] = "disputed"
    /\ Paired(g)

OK(n) == \A c, d \in gens[n].claims : Contradicts(c, d) => Disputed(graph, c)
\* No build writes the claims of the Generation any more.
Settled(n) == n \in DOMAIN gens /\ gens[n].state # "building" /\ OK(n)

OpenPC == {"g:mark", "g:project", "g:chunks", "g:extract", "g:model", "g:succeed",
           "g:neighbors", "g:verify"}
\* The claims of the Generation are as they were carried, or aligned.
AlignedPC == {"g:mark", "g:project", "g:chunks", "g:neighbors", "g:verify"}
Owns(c) == c.pc \in GraphPC \/ (c.pc = "topics" /\ "gen" \in DOMAIN c /\ c.gen # 0)

GenAt(c) ==
    /\ Owns(c) => c.gen \in DOMAIN gens
    /\ c.pc \in OpenPC => gens[c.gen].state = "building"
    /\ c.pc \in AlignedPC => OK(c.gen)
    /\ c.pc = "g:switch" => gens[c.gen].state \in Activatable /\ (c.prev # 0 => Settled(c.prev))
    /\ c.pc \in {"g:extract", "g:model", "g:succeed"} => c.todo \subseteq Known
    /\ c.pc \in {"g:model", "g:succeed"} => c.chunk \in Known

GraphRows ==
    /\ IsGraph(graph)
    /\ \A e \in graph.supports.active \cup graph.supports.stale : e[2] \in Known
    /\ \A e \in graph.supports.stale : chunk[e[2]] # "active" \/ e[2] \in back
    /\ gens \in Seq(Generation)
    /\ served # 0 => served \in DOMAIN gens /\ gens[served].state = "active"
    /\ \A n \in DOMAIN gens : gens[n].state \in Activatable => OK(n)
PlanRows ==
    /\ \A x \in plans : x.do.action = "activate" =>
         x.do.gen \in DOMAIN gens /\ x.before.state \in Activatable
    /\ \A x \in plans : x.do.action = "relation" => x.do.user \in Users
    /\ said \subseteq Claims \cup Users \cup (Relations \ Links) /\ (served = 0 => said = {})
    /\ moderated \subseteq Facts
    /\ \A c \in Claims : graph.claims[c] \in Decided => c \in moderated
    /\ \A r \in Relations : graph.relations[r] = "rejected" => r \in moderated
OneOwner ==
    \A p, q \in Procs : Owns(proc[p]) /\ Owns(proc[q]) /\ p # q => proc[p].gen # proc[q].gen

\* What a user said is in the Generation.
Kept(x, n) ==
    /\ x \in Users => x \in gens[n].users
    /\ x \in Claims /\ graph.claims[x] \in Decided => x \in gens[n].claims
    /\ x \in Relations /\ graph.relations[x] = "rejected" => x \in gens[n].relations
\* What is in the Generation has evidence, or is excused.
Returned(x) == \E k \in back : <<x, k>> \in graph.supports.stale
Excusable == (moderated \ Links) \cup Uneven
Backed(x) == HasEvidence(graph, x) \/ x \in Excusable \/ Returned(x)
Members(y) == y.claims \cup y.relations
Excused(n) ==
    \/ Members(gens[n]) \cap Excusable # {}
    \/ \E x \in Members(gens[n]) : Returned(x)

LoneAt(c) ==
    /\ c.pc \in OpenPC \cup {"g:previous", "g:switch"} => \A x \in said : Kept(x, c.gen)
    /\ c.pc \in {"g:extract", "g:model", "g:succeed"} => c.todo \subseteq ActiveChunks
    /\ c.pc \in {"g:model", "g:succeed"} => c.chunk \in ActiveChunks
    /\ c.pc = "g:mark" => \A x \in Members(gens[c.gen]) :
         x \in Excusable \/ \E k \in ActiveChunks : <<x, k>> \in graph.supports.active
    /\ c.pc \in OpenPC \ {"g:mark"} => \A x \in Members(gens[c.gen]) : Backed(x)
LoneRows ==
    /\ \A x \in said : Kept(x, served)
    /\ \A n \in DOMAIN gens : gens[n].unverified => Excused(n)

GraphInv ==
    /\ WorkInv /\ KnowledgeInv /\ GraphRows /\ PlansTyped /\ PlanRows /\ OneOwner
    /\ \A p \in Procs : GenAt(proc[p])
    /\ lone => LoneRows /\ \A p \in Procs : LoneAt(proc[p])

\* What a step may do to the tables of the graph.
Grows(g, h) ==
    /\ IsGraph(h)
    /\ \A s \in Scopes : g.conflicts[s] \subseteq h.conflicts[s]
    /\ \A c \in Claims : h.claims[c] \in Decided => h.claims[c] = g.claims[c]
    /\ \A r \in Relations : h.relations[r] = "rejected" => g.relations[r] = "rejected"
    /\ g.supports.stale \subseteq h.supports.stale
    /\ \A e \in h.supports.active \cup h.supports.stale :
         e \in g.supports.active \cup g.supports.stale \/ e[2] \in Known
    /\ \A e \in h.supports.stale \ g.supports.stale : e[2] \notin ActiveChunks
    /\ \A e \in g.supports.active : e \in h.supports.active \/ e[2] \notin ActiveChunks
\* And what one does that marks nothing as stale.
Steady(g, h) == Grows(g, h) /\ g.supports.active \subseteq h.supports.active

LEMMA ScopeOf ==
    ASSUME NEW c \in Claims, Scope[c] # 0
    PROVE  Scope[c] \in Scopes
BY DEF Scopes

\* What claims and relations have together.
LEMMA PairsOf ==
    ASSUME NEW e \in Pairs
    PROVE  /\ e[1] \in Relations /\ e[1] \in DOMAIN ClaimOf /\ e[1] \notin Uneven
           /\ e[2] \in Chunks /\ e = <<e[1], e[2]>>
           /\ ClaimOf[e[1]] \in ClaimsIn[TextOf[e[2]]] /\ ClaimOf[e[1]] \in Claims
           /\ e[1] \in RelationsIn[e[2]]
<1>1. /\ e[1] \in DOMAIN ClaimOf /\ e[1] \notin Uneven /\ e[2] \in Chunks /\ e = <<e[1], e[2]>>
      /\ ClaimOf[e[1]] \in ClaimsIn[TextOf[e[2]]]
  BY DEF Pairs
<1>2. e[1] \in Relations
  BY <1>1, GraphAssumption DEF Relations
<1>3. ClaimOf[e[1]] \in Claims
  BY <1>1 DEF Claims, Texts
<1>4. e[1] \in RelationsIn[e[2]]
  BY <1>1 DEF Uneven
<1> QED
  BY <1>1, <1>2, <1>3, <1>4

\* The rows that are tagged with some chunks.
LEMMA EvenSplits ==
    ASSUME NEW S, NEW T, Even(S), Even(T), NEW K,
           NEW gone, gone = {e \in S : e[2] \notin K}
    PROVE  Even(S \ gone) /\ Even(T \cup gone)
<1> SUFFICES ASSUME NEW e \in Pairs
             PROVE  /\ e \in S \ gone <=> <<ClaimOf[e[1]], e[2]>> \in S \ gone
                    /\ e \in T \cup gone <=> <<ClaimOf[e[1]], e[2]>> \in T \cup gone
  BY DEF Even
<1>1. PICK d : d = <<ClaimOf[e[1]], e[2]>>
  OBVIOUS
<1>2. d[2] = e[2] /\ (e \in S <=> d \in S) /\ (e \in T <=> d \in T)
  BY <1>1 DEF Even
<1> QED
  BY <1>1, <1>2

LEMMA EvenJoins ==
    ASSUME NEW S, NEW T, NEW rows, Even(S), Even(T), Even(rows)
    PROVE  Even(S \cup (rows \ T))
BY DEF Even

LEMMA MarkStaleDoes ==
    ASSUME NEW g, IsGraph(g), NEW h, h = MarkStale(g, ActiveChunks)
    PROVE  Grows(g, h)
<1>1. PICK gone : gone = {e \in g.supports.active : e[2] \notin ActiveChunks}
  OBVIOUS
<1>2. PICK kept : kept = [g EXCEPT !.supports = [active |-> @.active \ gone, stale |-> @.stale \cup gone]]
  OBVIOUS
<1>3. h = [kept EXCEPT
             !.claims = [c \in Claims |->
                IF @[c] \in {"none", "rejected"} \/ HasEvidence(kept, c) THEN @[c] ELSE "stale"],
             !.relations = [r \in Relations |-> IF r \in Links THEN @[r] ELSE
                IF @[r] \in {"none", "rejected"} \/ HasEvidence(kept, r) THEN @[r] ELSE "stale"]]
  BY <1>1, <1>2 DEF MarkStale
<1>4. /\ DOMAIN kept = DOMAIN g /\ kept.claims = g.claims /\ kept.conflicts = g.conflicts
      /\ kept.relations = g.relations /\ kept.level = g.level /\ kept.runs = g.runs
      /\ kept.supports = [active |-> g.supports.active \ gone, stale |-> g.supports.stale \cup gone]
  BY <1>2 DEF IsGraph
<1>5. /\ DOMAIN h = DOMAIN g /\ h.conflicts = g.conflicts /\ h.level = g.level /\ h.runs = g.runs
      /\ h.supports = [active |-> g.supports.active \ gone, stale |-> g.supports.stale \cup gone]
      /\ h.claims = [c \in Claims |->
             IF g.claims[c] \in {"none", "rejected"} \/ HasEvidence(kept, c) THEN g.claims[c] ELSE "stale"]
      /\ h.relations = [r \in Relations |-> IF r \in Links THEN g.relations[r] ELSE
             IF g.relations[r] \in {"none", "rejected"} \/ HasEvidence(kept, r) THEN g.relations[r] ELSE "stale"]
  BY <1>3, <1>4 DEF IsGraph
<1>6. \A c \in Claims : h.claims[c] \in {g.claims[c], "stale"}
  BY <1>5
<1>7. \A r \in Relations : /\ h.relations[r] \in {g.relations[r], "stale"}
                           /\ h.relations[r] = "none" <=> g.relations[r] = "none"
  BY <1>5
<1>8. Paired(h)
  <2>1. Even(g.supports.active) /\ Even(g.supports.stale)
    BY DEF IsGraph, Paired
  <2>2. Even(h.supports.active) /\ Even(h.supports.stale)
    <3>1. PICK S : S = g.supports.active
      OBVIOUS
    <3>2. PICK T : T = g.supports.stale
      OBVIOUS
    <3>3. PICK K : K = ActiveChunks
      OBVIOUS
    <3>4. Even(S) /\ Even(T) /\ gone = {e \in S : e[2] \notin K}
      BY <1>1, <2>1, <3>1, <3>2, <3>3
    <3>5. Even(S \ gone) /\ Even(T \cup gone)
      BY ONLY <3>4, EvenSplits
    <3> QED
      BY <1>5, <3>1, <3>2, <3>5
  <2>3. ASSUME NEW e \in h.supports.active PROVE Stated(h, e)
    <3>1. Stated(g, e)
      BY <1>5, <2>3 DEF IsGraph, Paired
    <3> QED
      BY <1>7, <3>1 DEF Stated
  <2> QED
    BY <1>5, <2>2, <2>3 DEF IsGraph, Paired
<1>9. IsGraph(h)
  <2>1. h.claims \in [Claims -> Statuses]
    BY <1>5 DEF IsGraph, Statuses
  <2>2. h.relations \in [Relations -> RelStates]
    BY <1>5 DEF IsGraph, RelStates
  <2>3. \A c \in Claims : Disputed(h, c) => h.claims[c] \notin {"none", "proposed"} /\ h.level[c] = "disputed"
    BY <1>5, <1>6 DEF IsGraph, Disputed
  <2>4. /\ h.supports.active \subseteq Facts \X Chunks /\ h.supports.stale \subseteq Facts \X Chunks
        /\ h.supports.active \cap h.supports.stale = {} /\ DOMAIN h.supports = {"active", "stale"}
    BY <1>1, <1>5 DEF IsGraph
  <2> QED
    BY <1>5, <1>8, <2>1, <2>2, <2>3, <2>4 DEF IsGraph
<1> QED
  BY <1>1, <1>5, <1>6, <1>7, <1>9 DEF Grows, Decided

LEMMA AddEvidencesDoes ==
    ASSUME NEW g, IsGraph(g), NEW rows, rows \subseteq Facts \X Chunks,
           NEW a, a = AddEvidences(g, rows)
    PROVE  /\ DOMAIN a = DOMAIN g /\ a.claims = g.claims /\ a.conflicts = g.conflicts
           /\ a.relations = g.relations /\ a.level = g.level /\ a.runs = g.runs
           /\ a.supports = [active |-> g.supports.active \cup (rows \ g.supports.stale),
                            stale |-> g.supports.stale]
<1>1. a = [g EXCEPT !.supports.active = @ \cup (rows \ g.supports.stale)]
  BY DEF AddEvidences
<1>2. /\ DOMAIN a = DOMAIN g /\ a.claims = g.claims /\ a.conflicts = g.conflicts
      /\ a.relations = g.relations /\ a.level = g.level /\ a.runs = g.runs
      /\ a.supports = [g.supports EXCEPT !.active = @ \cup (rows \ g.supports.stale)]
  BY <1>1 DEF IsGraph
<1>3. a.supports = [active |-> g.supports.active \cup (rows \ g.supports.stale),
                    stale |-> g.supports.stale]
  BY <1>2 DEF IsGraph
<1> QED
  BY <1>2, <1>3

\* Rows are added, claims and relations are found and links are accepted.
LEMMA FoundDoes ==
    ASSUME NEW g, IsGraph(g), NEW rows, rows \subseteq Facts \X Known, Even(rows),
           NEW h, DOMAIN h = DOMAIN g, h.conflicts = g.conflicts, h.level = g.level, h.runs = g.runs,
           h.supports = [active |-> g.supports.active \cup (rows \ g.supports.stale),
                         stale |-> g.supports.stale],
           h.claims \in [Claims -> Statuses], h.relations \in [Relations -> RelStates],
           \A c \in Claims : /\ h.claims[c] \in {g.claims[c], "proposed"}
                             /\ g.claims[c] # "none" => h.claims[c] = g.claims[c],
           \A r \in Relations : /\ h.relations[r] \in {g.relations[r], "proposed", "accepted"}
                                /\ g.relations[r] # "none" => h.relations[r] = g.relations[r],
           \A e \in rows : Stated(h, e)
    PROVE  Steady(g, h)
<1>1. /\ h.supports.active = g.supports.active \cup (rows \ g.supports.stale)
      /\ h.supports.stale = g.supports.stale /\ DOMAIN h.supports = {"active", "stale"}
  OBVIOUS
<1>2. \A e \in rows : e[2] \in Known /\ e \in Facts \X Chunks
  BY DEF Known
<1>3. Paired(h)
  <2>1. Even(h.supports.active) /\ Even(h.supports.stale)
    BY <1>1, EvenJoins DEF IsGraph, Paired
  <2>2. ASSUME NEW e \in g.supports.active PROVE Stated(h, e)
    <3>1. Stated(g, e)
      BY DEF IsGraph, Paired
    <3> QED
      BY <3>1 DEF Stated
  <2> QED
    BY <1>1, <2>1, <2>2 DEF IsGraph, Paired
<1>4. \A c \in Claims : Disputed(h, c) => h.claims[c] \notin {"none", "proposed"} /\ h.level[c] = "disputed"
  BY DEF IsGraph, Disputed
<1>5. /\ h.supports.active \subseteq Facts \X Chunks /\ h.supports.stale \subseteq Facts \X Chunks
      /\ h.supports.active \cap h.supports.stale = {}
  BY <1>1, <1>2 DEF IsGraph
<1>6. IsGraph(h)
  BY <1>1, <1>3, <1>4, <1>5 DEF IsGraph
<1> QED
  BY <1>1, <1>2, <1>6 DEF Steady, Grows, Decided

\* What is joined to the Generation, and with what evidence.
Joined(y, z, found, stated) ==
    /\ found \in SUBSET Claims /\ stated \in SUBSET Relations
    /\ z = [y EXCEPT !.claims = @ \cup found, !.relations = @ \cup stated]
Published(h, y, z, k) ==
    \E found, stated : Joined(y, z, found, stated) /\
        \A x \in found \cup stated : <<x, k>> \in h.supports.active \cup h.supports.stale
Reused(h, y, z) ==
    \E found, stated : Joined(y, z, found, stated) /\
        \A x \in found \cup stated : HasEvidence(h, x) \/ x \in Uneven

LEMMA PublishExtractionDoes ==
    ASSUME NEW g, IsGraph(g), NEW y \in Generation, NEW k \in Known,
           NEW b, b = PublishExtraction(g, y, k)
    PROVE  Steady(g, b[1]) /\ b[2] \in Generation /\ Published(b[1], y, b[2], k)
<1>1. PICK found : found = ClaimsIn[TextOf[k]]
  OBVIOUS
<1>2. PICK stated : stated = {r \in RelationsIn[k] : r \in DOMAIN Mentioned => k \in g.nodes}
  OBVIOUS
<1>3. found \subseteq Claims /\ stated \subseteq Relations /\ k \in Chunks
  BY <1>1, <1>2 DEF Claims, Texts, Known, Relations, Extracted
<1>4. PICK rows : rows = (found \cup stated) \X {k}
  OBVIOUS
<1>5. rows \subseteq Facts \X Known /\ rows \subseteq Facts \X Chunks
  BY <1>3, <1>4 DEF Facts
<1>6. Even(rows)
  <2> SUFFICES ASSUME NEW e \in Pairs PROVE e \in rows <=> <<ClaimOf[e[1]], e[2]>> \in rows
    BY DEF Even
  <2>1. /\ e = <<e[1], e[2]>> /\ e[1] \in DOMAIN ClaimOf /\ e[1] \in RelationsIn[e[2]]
        /\ ClaimOf[e[1]] \in ClaimsIn[TextOf[e[2]]]
    BY PairsOf
  <2>2. e[1] \notin DOMAIN Mentioned
    BY <2>1, GraphAssumption
  <2>3. CASE e[2] = k
    <3>1. e[1] \in stated /\ ClaimOf[e[1]] \in found
      BY <1>1, <1>2, <2>1, <2>2, <2>3
    <3> QED
      BY <1>4, <2>1, <2>3, <3>1
  <2>4. CASE e[2] # k
    BY <1>4, <2>1, <2>4
  <2> QED
    BY <2>3, <2>4
<1>7. PICK a : a = AddEvidences(g, rows)
  OBVIOUS
<1>8. /\ DOMAIN a = DOMAIN g /\ a.claims = g.claims /\ a.conflicts = g.conflicts
      /\ a.relations = g.relations /\ a.level = g.level /\ a.runs = g.runs
      /\ a.supports = [active |-> g.supports.active \cup (rows \ g.supports.stale),
                       stale |-> g.supports.stale]
  BY <1>5, <1>7, AddEvidencesDoes
<1>9. b = <<[a EXCEPT
                !.claims = [c \in Claims |->
                   IF c \in found /\ @[c] = "none" THEN "proposed" ELSE @[c]],
                !.relations = [r \in Relations |->
                   IF r \in stated /\ @[r] = "none" THEN "proposed" ELSE @[r]]],
            [y EXCEPT !.claims = @ \cup found, !.relations = @ \cup stated]>>
  BY <1>1, <1>2, <1>4, <1>7 DEF PublishExtraction
<1>10. PICK h : h = [a EXCEPT
                !.claims = [c \in Claims |->
                   IF c \in found /\ @[c] = "none" THEN "proposed" ELSE @[c]],
                !.relations = [r \in Relations |->
                   IF r \in stated /\ @[r] = "none" THEN "proposed" ELSE @[r]]]
  OBVIOUS
<1>11. /\ DOMAIN h = DOMAIN g /\ h.conflicts = g.conflicts /\ h.supports = a.supports
       /\ h.level = g.level /\ h.runs = g.runs
       /\ h.claims = [c \in Claims |-> IF c \in found /\ g.claims[c] = "none" THEN "proposed" ELSE g.claims[c]]
       /\ h.relations = [r \in Relations |->
             IF r \in stated /\ g.relations[r] = "none" THEN "proposed" ELSE g.relations[r]]
  BY <1>8, <1>10 DEF IsGraph
<1>12. /\ h.claims \in [Claims -> Statuses]
       /\ \A c \in Claims : /\ h.claims[c] \in {g.claims[c], "proposed"}
                            /\ g.claims[c] # "none" => h.claims[c] = g.claims[c]
  BY <1>11 DEF IsGraph, Statuses
<1>13. /\ h.relations \in [Relations -> RelStates]
       /\ \A r \in Relations : /\ h.relations[r] \in {g.relations[r], "proposed", "accepted"}
                               /\ g.relations[r] # "none" => h.relations[r] = g.relations[r]
       /\ \A r \in stated : h.relations[r] # "none"
  BY <1>3, <1>11 DEF IsGraph, RelStates
<1>14. ASSUME NEW e \in rows PROVE Stated(h, e)
  <2>1. e[1] \in found \cup stated /\ e[2] = k
    BY <1>4
  <2>2. Claims \cap Relations = {}
    BY GraphAssumption
  <2> QED
    BY <1>1, <1>3, <1>13, <2>1, <2>2 DEF Stated
<1>15. Steady(g, h)
  BY <1>5, <1>6, <1>8, <1>11, <1>12, <1>13, <1>14, FoundDoes
<1>16. [y EXCEPT !.claims = @ \cup found, !.relations = @ \cup stated] \in Generation
  BY <1>3 DEF Generation
<1>17. b[1] = h /\ b[2] = [y EXCEPT !.claims = @ \cup found, !.relations = @ \cup stated]
  BY <1>9, <1>10
<1>18. ASSUME NEW x \in found \cup stated PROVE <<x, k>> \in h.supports.active \cup h.supports.stale
  <2>1. <<x, k>> \in rows
    BY <1>4
  <2>2. /\ h.supports.active = g.supports.active \cup (rows \ g.supports.stale)
        /\ h.supports.stale = g.supports.stale
    BY <1>8, <1>11
  <2> QED
    BY <2>1, <2>2
<1> QED
  BY <1>3, <1>15, <1>16, <1>17, <1>18 DEF Published, Joined

\* The relations of a claim that are reused have evidence where the claim has,
\* unless some text states the claim without them.
LEMMA ReuseExtractionDoes ==
    ASSUME NEW g, IsGraph(g), NEW y \in Generation, NEW k \in Known,
           NEW b, b = ReuseExtraction(g, y, k)
    PROVE  Steady(g, b[1]) /\ b[2] \in Generation /\ Reused(b[1], y, b[2])
<1>1. PICK u : u = g.runs[TextOf[k]].chunk
  OBVIOUS
<1>2. PICK found : found = {c \in Claims : <<c, u>> \in g.supports.active}
  OBVIOUS
<1>3. PICK stated : stated = {r \in DOMAIN ClaimOf : ClaimOf[r] \in found /\ g.relations[r] # "none"}
  OBVIOUS
<1>4. PICK there : there = {r \in stated : <<r, u>> \in g.supports.active}
  OBVIOUS
<1>5. found \subseteq Claims /\ stated \subseteq Relations /\ there \subseteq Relations /\ k \in Chunks
  BY <1>2, <1>3, <1>4, GraphAssumption DEF Known, Relations
<1>6. PICK rows : rows = (found \cup there) \X {k}
  OBVIOUS
<1>7. rows \subseteq Facts \X Known /\ rows \subseteq Facts \X Chunks
  BY <1>5, <1>6 DEF Facts
<1>8. ASSUME NEW c \in found
      PROVE  u \in Chunks /\ TextOf[u] = TextOf[k] /\ c \in ClaimsIn[TextOf[k]]
  <2>1. <<c, u>> \in g.supports.active /\ c \in Claims
    BY <1>2
  <2>2. u \in Chunks
    BY <2>1 DEF IsGraph
  <2>3. TextOf[k] \in Texts
    BY <1>5 DEF Texts
  <2>4. TextOf[u] = TextOf[k]
    BY <1>1, <2>2, <2>3 DEF IsGraph, Paired, Inputs
  <2>5. Stated(g, <<c, u>>)
    BY <2>1 DEF IsGraph, Paired
  <2> QED
    BY <2>1, <2>2, <2>4, <2>5 DEF Stated
<1>9. ASSUME NEW r \in DOMAIN ClaimOf, r \notin Uneven, ClaimOf[r] \in found
      PROVE  r \in there
  <2>1. u \in Chunks /\ ClaimOf[r] \in ClaimsIn[TextOf[u]]
    BY <1>8, <1>9
  <2>2. <<r, u>> \in Pairs
    BY <1>9, <2>1 DEF Pairs
  <2>3. <<ClaimOf[r], u>> \in g.supports.active
    BY <1>2, <1>9
  <2>4. <<r, u>> \in g.supports.active
    BY <2>2, <2>3 DEF IsGraph, Paired, Even
  <2>5. g.relations[r] # "none"
    BY <1>9, <2>4, GraphAssumption DEF IsGraph, Paired, Stated, Relations
  <2> QED
    BY <1>3, <1>4, <1>9, <2>4, <2>5
<1>10. Even(rows)
  <2> SUFFICES ASSUME NEW e \in Pairs PROVE e \in rows <=> <<ClaimOf[e[1]], e[2]>> \in rows
    BY DEF Even
  <2>1. /\ e = <<e[1], e[2]>> /\ e[1] \in DOMAIN ClaimOf /\ e[1] \notin Uneven
        /\ e[1] \in Relations /\ ClaimOf[e[1]] \in Claims
    BY PairsOf
  <2>2. e[1] \notin found /\ ClaimOf[e[1]] \notin there
    BY <1>5, <2>1, GraphAssumption
  <2>3. e[1] \in there <=> ClaimOf[e[1]] \in found
    BY <1>3, <1>4, <1>9, <2>1
  <2>4. e \in rows <=> e[1] \in there /\ e[2] = k
    BY <1>6, <2>1, <2>2
  <2>5. <<ClaimOf[e[1]], e[2]>> \in rows <=> ClaimOf[e[1]] \in found /\ e[2] = k
    BY <1>6, <2>2
  <2> QED
    BY <2>3, <2>4, <2>5
<1>11. PICK a : a = AddEvidences(g, rows)
  OBVIOUS
<1>12. /\ DOMAIN a = DOMAIN g /\ a.claims = g.claims /\ a.conflicts = g.conflicts
       /\ a.relations = g.relations /\ a.level = g.level /\ a.runs = g.runs
       /\ a.supports = [active |-> g.supports.active \cup (rows \ g.supports.stale),
                        stale |-> g.supports.stale]
  BY <1>7, <1>11, AddEvidencesDoes
<1>13. b = <<a, [y EXCEPT !.claims = @ \cup found, !.relations = @ \cup stated]>>
  BY <1>1, <1>2, <1>3, <1>4, <1>6, <1>11 DEF ReuseExtraction
<1>14. ASSUME NEW e \in rows PROVE Stated(a, e)
  <2>1. e[1] \in found \cup there /\ e[2] = k /\ Claims \cap Relations = {}
    BY <1>6, GraphAssumption
  <2>2. e[1] \in there => g.relations[e[1]] # "none"
    BY <1>3, <1>4
  <2> QED
    BY <1>5, <1>8, <1>12, <2>1, <2>2 DEF Stated
<1>15. Steady(g, a)
  BY <1>7, <1>10, <1>12, <1>14, FoundDoes DEF IsGraph
<1>16. [y EXCEPT !.claims = @ \cup found, !.relations = @ \cup stated] \in Generation
  BY <1>5 DEF Generation
<1>17. ASSUME NEW x \in found \cup stated PROVE HasEvidence(a, x) \/ x \in Uneven
  <2> SUFFICES ASSUME x \notin Uneven PROVE HasEvidence(a, x)
    OBVIOUS
  <2>1. <<x, u>> \in g.supports.active
    BY <1>2, <1>3, <1>4, <1>9, <1>17
  <2>2. u \in Chunks /\ <<x, u>> \in a.supports.active
    BY <1>12, <2>1 DEF IsGraph
  <2> QED
    BY <2>2 DEF HasEvidence
<1>18. b[1] = a /\ b[2] = [y EXCEPT !.claims = @ \cup found, !.relations = @ \cup stated]
  BY <1>13
<1> QED
  BY <1>5, <1>15, <1>16, <1>17, <1>18 DEF Reused, Joined

\* What concerns only the extraction runs and the nodes.
LEMMA RunsChange ==
    ASSUME NEW g, IsGraph(g), NEW h, DOMAIN h = DOMAIN g, h.claims = g.claims, h.level = g.level,
           h.supports = g.supports, h.relations = g.relations, h.conflicts = g.conflicts,
           Inputs(h.runs)
    PROVE  Steady(g, h)
<1>1. Paired(h)
  BY DEF IsGraph, Paired, Stated
<1>2. IsGraph(h)
  BY <1>1 DEF IsGraph, Disputed
<1> QED
  BY <1>2 DEF Steady, Grows

LEMMA InputsKeep ==
    ASSUME NEW w, Inputs(w), NEW t,
           NEW u, \/ \E s \in {"succeeded", "failed"} : u = [w EXCEPT ![t].state = s]
                  \/ u = w
                  \/ \E k \in Chunks : t = TextOf[k] /\ u = [w EXCEPT ![t] = [state |-> "running", chunk |-> k]]
    PROVE  Inputs(u)
<1> DEFINE Run == [state : {"none", "running", "succeeded", "failed"}, chunk : Nat]
<1>1. w \in [Texts -> Run] /\ \A x \in Texts : w[x].chunk \in Chunks => TextOf[w[x].chunk] = x
  BY DEF Inputs
<1>2. CASE \E s \in {"succeeded", "failed"} : u = [w EXCEPT ![t].state = s]
  <2>1. PICK s \in {"succeeded", "failed"} : u = [w EXCEPT ![t].state = s]
    BY <1>2
  <2>2. DOMAIN u = Texts /\ \A x \in Texts : u[x] = IF x = t THEN [w[x] EXCEPT !.state = s] ELSE w[x]
    BY <1>1, <2>1
  <2>3. \A x \in Texts : u[x] \in Run /\ u[x].chunk = w[x].chunk
    BY <1>1, <2>2
  <2>4. u \in [Texts -> Run]
    BY <2>1, <2>2, <2>3
  <2> QED
    BY <1>1, <2>3, <2>4 DEF Inputs
<1>3. CASE \E k \in Chunks : t = TextOf[k] /\ u = [w EXCEPT ![t] = [state |-> "running", chunk |-> k]]
  <2>1. PICK k \in Chunks : t = TextOf[k] /\ u = [w EXCEPT ![t] = [state |-> "running", chunk |-> k]]
    BY <1>3
  <2>2. k \in Nat
    BY CommandsAssumption
  <2>3. \A x \in Texts : u[x] = IF x = t THEN [state |-> "running", chunk |-> k] ELSE w[x]
    BY <1>1, <2>1
  <2>4. u \in [Texts -> Run]
    BY <1>1, <2>1, <2>2
  <2> QED
    BY <1>1, <2>1, <2>3, <2>4 DEF Inputs
<1> QED
  BY <1>2, <1>3

LEMMA ProjectDoes ==
    ASSUME NEW g, IsGraph(g), NEW y \in Generation,
           NEW s, s = ProjectStructure(g, y, ActiveChunks),
           NEW b, b = ProjectLinks(s[1], s[2], ActiveChunks)
    PROVE  /\ Steady(g, b[1]) /\ b[2] \in Generation
           /\ b[2].claims = y.claims /\ b[2].users = y.users /\ b[2].state = y.state
           /\ b[2].unverified = y.unverified /\ y.relations \subseteq b[2].relations
           /\ \A x \in b[2].relations \ y.relations : \E k \in ActiveChunks :
                <<x, k>> \in b[1].supports.active \cup b[1].supports.stale
<1>1. s = <<[g EXCEPT !.nodes = @ \cup ActiveChunks], [y EXCEPT !.nodes = ActiveChunks]>>
  BY DEF ProjectStructure
<1>2. PICK m : m = s[1]
  OBVIOUS
<1>3. PICK z : z = s[2]
  OBVIOUS
<1>4. /\ IsGraph(m) /\ m.claims = g.claims /\ m.conflicts = g.conflicts /\ m.supports = g.supports
      /\ m.relations = g.relations /\ m.level = g.level /\ m.runs = g.runs /\ DOMAIN m = DOMAIN g
  <2>1. /\ DOMAIN m = DOMAIN g /\ m.claims = g.claims /\ m.level = g.level /\ m.runs = g.runs
        /\ m.supports = g.supports /\ m.relations = g.relations /\ m.conflicts = g.conflicts
    BY <1>1, <1>2 DEF IsGraph
  <2>2. Inputs(m.runs)
    BY <2>1 DEF IsGraph, Paired
  <2>3. Steady(g, m)
    BY ONLY <2>1, <2>2, IsGraph(g), RunsChange
  <2> QED
    BY <2>1, <2>3 DEF Steady, Grows
<1>5. /\ z \in Generation /\ z.claims = y.claims /\ z.users = y.users /\ z.state = y.state
      /\ z.unverified = y.unverified /\ z.relations = y.relations
  <2>1. ActiveChunks \subseteq Chunks /\ z = [y EXCEPT !.nodes = ActiveChunks]
    BY <1>1, <1>3 DEF ActiveChunks
  <2> QED
    BY <2>1 DEF Generation
<1>6. PICK rows : rows = {row \in Resolved(ActiveChunks) \X ActiveChunks : row[1] \in LinksIn[row[2]]}
  OBVIOUS
<1>7. PICK found : found = {row[1] : row \in rows}
  OBVIOUS
<1>8. /\ rows \subseteq Links \X ActiveChunks /\ ActiveChunks \subseteq Known /\ Known \subseteq Chunks
      /\ found \subseteq Links
  BY <1>6, <1>7 DEF Resolved, ActiveChunks, Known
<1>9. /\ rows \subseteq Facts \X Known /\ rows \subseteq Facts \X Chunks
      /\ found \subseteq Relations /\ Links \cap DOMAIN ClaimOf = {} /\ Links \cap Claims = {}
  BY <1>8, GraphAssumption DEF Facts, Relations
<1>10. PICK a : a = AddEvidences(m, rows)
  OBVIOUS
<1>11. /\ DOMAIN a = DOMAIN g /\ a.claims = g.claims /\ a.conflicts = g.conflicts
       /\ a.relations = g.relations /\ a.level = g.level /\ a.runs = g.runs
       /\ a.supports = [active |-> g.supports.active \cup (rows \ g.supports.stale),
                        stale |-> g.supports.stale]
  BY <1>4, <1>9, <1>10, AddEvidencesDoes
<1>12. b = <<[a EXCEPT !.relations = [l \in Relations |->
                 IF l \in found /\ @[l] = "none" THEN "accepted" ELSE @[l]]],
             [z EXCEPT !.relations = @ \cup found]>>
  BY <1>2, <1>3, <1>6, <1>7, <1>10 DEF ProjectLinks
<1>13. PICK h : h = [a EXCEPT !.relations = [l \in Relations |->
                       IF l \in found /\ @[l] = "none" THEN "accepted" ELSE @[l]]]
  OBVIOUS
<1>14. /\ DOMAIN h = DOMAIN g /\ h.claims = g.claims /\ h.conflicts = g.conflicts
       /\ h.supports = a.supports /\ h.level = g.level /\ h.runs = g.runs
       /\ h.relations = [l \in Relations |->
             IF l \in found /\ g.relations[l] = "none" THEN "accepted" ELSE g.relations[l]]
  BY <1>11, <1>13 DEF IsGraph
<1>15. Steady(g, h)
  <2>1. /\ h.relations \in [Relations -> RelStates]
        /\ \A r \in Relations : /\ h.relations[r] \in {g.relations[r], "proposed", "accepted"}
                                /\ g.relations[r] # "none" => h.relations[r] = g.relations[r]
        /\ \A r \in found : h.relations[r] # "none"
    BY <1>9, <1>14 DEF IsGraph, RelStates
  <2>2. /\ h.claims \in [Claims -> Statuses]
        /\ \A c \in Claims : /\ h.claims[c] \in {g.claims[c], "proposed"}
                             /\ g.claims[c] # "none" => h.claims[c] = g.claims[c]
    BY <1>14 DEF IsGraph
  <2>3. Even(rows)
    <3>1. \A e \in rows : e[1] \in Links
      BY <1>8
    <3>2. \A e \in Pairs : e \notin rows /\ <<ClaimOf[e[1]], e[2]>> \notin rows
      BY <1>9, <3>1, PairsOf
    <3> QED
      BY <3>2 DEF Even
  <2>4. ASSUME NEW e \in rows PROVE Stated(h, e)
    <3>1. e[1] \in found /\ e[1] \notin Claims
      BY <1>7, <1>8, <1>9
    <3> QED
      BY <2>1, <3>1 DEF Stated
  <2> QED
    BY <1>9, <1>11, <1>14, <2>1, <2>2, <2>3, <2>4, FoundDoes
<1>16. PICK w : w = [z EXCEPT !.relations = @ \cup found]
  OBVIOUS
<1>17. /\ w \in Generation /\ w.claims = y.claims /\ w.users = y.users /\ w.state = y.state
       /\ w.unverified = y.unverified /\ w.relations = y.relations \cup found
  BY <1>5, <1>9, <1>16 DEF Generation
<1>18. ASSUME NEW x \in found
       PROVE  \E k \in ActiveChunks : <<x, k>> \in h.supports.active \cup h.supports.stale
  <2>1. PICK e \in rows : x = e[1]
    BY <1>7
  <2>2. e = <<x, e[2]>> /\ e[2] \in ActiveChunks
    BY <1>8, <2>1
  <2>3. e \in h.supports.active \cup h.supports.stale
    BY <1>11, <1>14
  <2> QED
    BY <2>2, <2>3
<1>19. b[1] = h /\ b[2] = w
  BY <1>12, <1>13, <1>16
<1> QED
  BY <1>15, <1>17, <1>18, <1>19

\* Moderation and alignment settle what a claim passes for.
LEMMA RecalculateDoes ==
    ASSUME NEW g, DOMAIN g = {"claims", "level", "supports", "relations", "conflicts", "runs", "nodes"},
           g.claims \in [Claims -> Statuses], g.level \in [Claims -> {"assessed", "disputed"}],
           NEW C, NEW h, h = Recalculate(g, C)
    PROVE  /\ DOMAIN h = DOMAIN g /\ h.supports = g.supports /\ h.conflicts = g.conflicts
           /\ h.relations = g.relations /\ h.runs = g.runs
           /\ h.level \in [Claims -> {"assessed", "disputed"}]
           /\ \A c \in Claims : /\ c \notin C => h.level[c] = g.level[c]
                                /\ c \in C /\ Disputed(g, c) => h.level[c] = "disputed"
           /\ h.claims \in [Claims -> Statuses]
           /\ \A c \in Claims :
                h.claims[c] = IF c \in C /\ Disputed(g, c) /\ g.claims[c] \notin Decided THEN "disputed"
                              ELSE IF c \in C /\ ~ Disputed(g, c) /\ g.claims[c] = "disputed" THEN "proposed"
                              ELSE g.claims[c]
           /\ \A c : Disputed(h, c) = Disputed(g, c)
<1>1. h = [g EXCEPT
          !.level = [c \in Claims |-> IF c \in C THEN AssessConfidence(Disputed(g, c)) ELSE @[c]],
          !.claims = [c \in Claims |->
              CASE c \in C /\ Disputed(g, c)
                     /\ @[c] \notin {"rejected", "user_confirmed"} -> "disputed"
                [] c \in C /\ ~ Disputed(g, c) /\ @[c] = "disputed" -> "proposed"
                [] OTHER -> @[c]]]
  BY DEF Recalculate
<1>2. /\ DOMAIN h = DOMAIN g /\ h.supports = g.supports /\ h.conflicts = g.conflicts
      /\ h.relations = g.relations /\ h.runs = g.runs
      /\ h.level = [c \in Claims |-> IF c \in C THEN AssessConfidence(Disputed(g, c)) ELSE g.level[c]]
      /\ h.claims = [c \in Claims |->
              CASE c \in C /\ Disputed(g, c)
                     /\ g.claims[c] \notin {"rejected", "user_confirmed"} -> "disputed"
                [] c \in C /\ ~ Disputed(g, c) /\ g.claims[c] = "disputed" -> "proposed"
                [] OTHER -> g.claims[c]]
  BY <1>1
<1>3. ASSUME NEW c \in Claims
      PROVE  /\ h.claims[c] = IF c \in C /\ Disputed(g, c) /\ g.claims[c] \notin Decided THEN "disputed"
                              ELSE IF c \in C /\ ~ Disputed(g, c) /\ g.claims[c] = "disputed" THEN "proposed"
                              ELSE g.claims[c]
             /\ h.claims[c] \in Statuses
  <2>1. h.claims[c] = CASE c \in C /\ Disputed(g, c)
                     /\ g.claims[c] \notin {"rejected", "user_confirmed"} -> "disputed"
                [] c \in C /\ ~ Disputed(g, c) /\ g.claims[c] = "disputed" -> "proposed"
                [] OTHER -> g.claims[c]
    BY <1>2
  <2>2. h.claims[c] = IF c \in C /\ Disputed(g, c) /\ g.claims[c] \notin Decided THEN "disputed"
                      ELSE IF c \in C /\ ~ Disputed(g, c) /\ g.claims[c] = "disputed" THEN "proposed"
                      ELSE g.claims[c]
    BY <2>1 DEF Decided
  <2> QED
    BY <2>2 DEF Statuses
<1>4. h.claims \in [Claims -> Statuses]
  BY <1>2, <1>3
<1>5. /\ h.level \in [Claims -> {"assessed", "disputed"}]
      /\ \A c \in Claims : /\ c \notin C => h.level[c] = g.level[c]
                           /\ c \in C /\ Disputed(g, c) => h.level[c] = "disputed"
  BY <1>2 DEF AssessConfidence
<1> QED
  BY <1>2, <1>3, <1>4, <1>5 DEF Disputed

LEMMA AlignDoes ==
    ASSUME NEW g, IsGraph(g), NEW C \in SUBSET Claims, NEW h, h = AlignClaims(g, C)
    PROVE  /\ Steady(g, h) /\ h.supports = g.supports
           /\ \A c, d \in C : Contradicts(c, d) => Disputed(h, c)
<1>1. PICK opposed : opposed = {c \in C : \E d \in C : Contradicts(c, d)}
  OBVIOUS
<1>2. PICK m : m = [g EXCEPT !.conflicts = [s \in Scopes |-> @[s] \cup {c \in opposed : Scope[c] = s}]]
  OBVIOUS
<1>3. /\ DOMAIN m = {"claims", "level", "supports", "relations", "conflicts", "runs", "nodes"}
      /\ m.claims = g.claims /\ m.supports = g.supports
      /\ m.relations = g.relations /\ m.level = g.level /\ m.runs = g.runs
      /\ m.conflicts = [s \in Scopes |-> g.conflicts[s] \cup {c \in opposed : Scope[c] = s}]
  BY <1>2 DEF IsGraph
<1>4. h = Recalculate(m, C)
  BY <1>1, <1>2 DEF AlignClaims
<1>5. m.claims \in [Claims -> Statuses] /\ m.level \in [Claims -> {"assessed", "disputed"}]
  BY <1>3 DEF IsGraph
<1>6. /\ DOMAIN h = DOMAIN m /\ h.supports = m.supports /\ h.conflicts = m.conflicts
      /\ h.relations = m.relations /\ h.runs = m.runs
      /\ h.level \in [Claims -> {"assessed", "disputed"}]
      /\ \A c \in Claims : /\ c \notin C => h.level[c] = m.level[c]
                           /\ c \in C /\ Disputed(m, c) => h.level[c] = "disputed"
      /\ h.claims \in [Claims -> Statuses]
      /\ \A c \in Claims :
           h.claims[c] = IF c \in C /\ Disputed(m, c) /\ m.claims[c] \notin Decided THEN "disputed"
                         ELSE IF c \in C /\ ~ Disputed(m, c) /\ m.claims[c] = "disputed" THEN "proposed"
                         ELSE m.claims[c]
      /\ \A c : Disputed(h, c) = Disputed(m, c)
  <2>1. DOMAIN m = {"claims", "level", "supports", "relations", "conflicts", "runs", "nodes"}
    BY <1>3
  <2> QED
    BY ONLY <1>4, <1>5, <2>1, RecalculateDoes
<1>7. h.conflicts \in [Scopes -> SUBSET Claims] /\ \A s \in Scopes : g.conflicts[s] \subseteq h.conflicts[s]
  BY <1>1, <1>3, <1>6 DEF IsGraph
<1>8. \A c \in Claims : Disputed(m, c) => Disputed(g, c) \/ c \in C
  BY <1>1, <1>3, ScopeOf DEF Disputed
<1>9. \A c \in Claims : Disputed(h, c) => h.claims[c] \notin {"none", "proposed"} /\ h.level[c] = "disputed"
  <2> SUFFICES ASSUME NEW c \in Claims, Disputed(m, c)
               PROVE  h.claims[c] \notin {"none", "proposed"} /\ h.level[c] = "disputed"
    BY <1>6
  <2>1. CASE c \in C
    BY <1>6, <2>1 DEF Decided
  <2>2. CASE c \notin C
    BY <1>3, <1>6, <1>8, <2>2 DEF IsGraph
  <2> QED
    BY <2>1, <2>2
<1>10. IsGraph(h)
  <2>1. Paired(h)
    BY <1>3, <1>6 DEF IsGraph, Paired, Stated
  <2> QED
    BY <1>3, <1>6, <1>7, <1>9, <2>1 DEF IsGraph
<1>11. \A c \in Claims : h.claims[c] \in Decided => h.claims[c] = g.claims[c]
  BY <1>3, <1>6 DEF Decided
<1>12. Steady(g, h)
  BY <1>3, <1>6, <1>7, <1>10, <1>11 DEF Steady, Grows
<1>13. ASSUME NEW c \in C, NEW d \in C, Contradicts(c, d) PROVE Disputed(h, c)
  <2>1. c \in opposed /\ Scope[c] # 0 /\ Scope[c] \in Scopes
    BY <1>1, <1>13, ScopeOf DEF Contradicts
  <2>2. Disputed(m, c)
    BY <1>3, <2>1 DEF Disputed
  <2> QED
    BY <1>6, <2>2
<1> QED
  BY <1>3, <1>6, <1>12, <1>13

-----------------------------------------------------------------------------
(* What other processes rely on. *)

\* A Generation that is another's, or that no build writes any more, stays so.
Respects(m) ==
    /\ m \in DOMAIN gens'
    /\ gens'[m].claims = gens[m].claims /\ gens'[m].relations = gens[m].relations
    /\ gens[m].users \subseteq gens'[m].users
    /\ (gens[m].state = "building") = (gens'[m].state = "building")
    /\ gens[m].state \in Activatable => gens'[m].state \in Activatable

\* Once disputed, always disputed.
LEMMA DisputedStays ==
    ASSUME GraphRows, Grows(graph, graph'), NEW c \in Claims, Disputed(graph, c)
    PROVE  Disputed(graph', c)
BY ScopeOf DEF Disputed, Grows

LEMMA GensTyped ==
    ASSUME GraphRows
    PROVE  /\ DOMAIN gens = 1 .. Len(gens) /\ Len(gens) \in Nat
           /\ \A n \in DOMAIN gens : gens[n] \in Generation
           /\ \A n \in DOMAIN gens :
                /\ gens[n].claims \subseteq Claims /\ gens[n].relations \subseteq Relations
                /\ gens[n].users \subseteq Users /\ gens[n].state \in GenStates
<1>1. gens \in Seq(Generation)
  BY DEF GraphRows
<1>2. DOMAIN gens = 1 .. Len(gens) /\ Len(gens) \in Nat /\ \A n \in DOMAIN gens : gens[n] \in Generation
  BY <1>1
<1> QED
  BY <1>2 DEF Generation

LEMMA OKStays ==
    ASSUME GraphRows, Grows(graph, graph'), NEW n \in DOMAIN gens, OK(n),
           gens'[n].claims = gens[n].claims
    PROVE  OK(n)'
<1>1. ASSUME NEW c \in gens[n].claims, NEW d \in gens[n].claims, Contradicts(c, d)
      PROVE  Disputed(graph', c)
  <2>1. c \in Claims /\ Disputed(graph, c)
    BY <1>1, GensTyped DEF OK
  <2> QED
    BY <2>1, DisputedStays
<1> QED
  BY <1>1 DEF OK, Disputed, Contradicts

\* A Generation that no build writes any more keeps its claims, and what
\* contradicts in it stays disputed.
Lasts(n) == Settled(n) => Settled(n)' /\ gens'[n].claims = gens[n].claims
Lasting == Grows(graph, graph') /\ \A n \in DOMAIN gens : Lasts(n)

LEMMA SettledStays ==
    ASSUME GraphRows, Grows(graph, graph'), NEW n, Settled(n), Respects(n)
    PROVE  Settled(n)'
<1>1. n \in DOMAIN gens /\ OK(n)'
  BY OKStays DEF Settled, Respects
<1> QED
  BY <1>1 DEF Settled, Respects

\* A step that changes none of the tables.
LEMMA NothingGrows == ASSUME GraphRows, graph' = graph PROVE Steady(graph, graph')
BY DEF GraphRows, Steady, Grows

LEMMA NothingLasts ==
    ASSUME GraphRows, UNCHANGED <<graph, gens>>
    PROVE  Lasting
<1>1. Grows(graph, graph')
  BY NothingGrows DEF Steady
<1> QED
  BY <1>1 DEF Lasting, Lasts, Settled, OK, Disputed

\* What is at no step of a build owns no Generation.
LEMMA OwnersBuild ==
    ASSUME NEW c, ~ Owns(c)
    PROVE  c.pc \notin OpenPC \cup AlignedPC \cup {"g:previous", "g:switch"}
BY DEF Owns, OpenPC, AlignedPC, GraphPC

LEMMA OwnersOnly ==
    ASSUME NEW c, ~ Owns(c)
    PROVE  /\ GenAt(c) /\ LoneAt(c) /\ GenAt(c)' /\ LoneAt(c)'
BY OwnersBuild DEF GenAt, LoneAt, OpenPC

LEMMA IdleOwnsNothing == ~ Owns(Idle)
BY DEF Owns, Idle, GraphPC

LEMMA GraphInvOf ==
    ASSUME GraphInv, NEW p \in Procs
    PROVE  /\ GenAt(proc[p]) /\ (lone => LoneAt(proc[p])) /\ Shape(proc[p])
           /\ WorkInv /\ KnowledgeInv /\ GraphRows /\ PlansTyped /\ PlanRows /\ OneOwner
           /\ (lone => LoneRows) /\ IsGraph(graph)
BY DEF GraphInv, WorkInv, GraphRows

\* A process goes on; what the others have stays theirs.
LEMMA GraphGoes ==
    ASSUME GraphInv, NEW p \in Procs, NEW r, Acts(p), proc'[p] = r, UNCHANGED chunkVars,
           Grows(graph, graph'), GraphRows', PlansTyped', PlanRows',
           \A m \in DOMAIN gens :
              Respects(m) \/ (Owns(proc[p]) /\ m = proc[p].gen /\ Lasts(m)),
           \A q \in Procs : Owns(r) /\ q # p /\ Owns(proc[q]) => proc[q].gen # r.gen,
           GenAt(r)', lone' => LoneRows' /\ LoneAt(r)'
    PROVE  GraphInv' /\ Lasting
<1>1. WorkInv' /\ DOMAIN proc' = Procs
  BY ActsKeep DEF GraphInv, Acts
<1>2. /\ \A q \in Procs : q # p => proc'[q] = proc[q]
      /\ lone' => lone /\ \A q \in Procs : q # p => proc'[q] = Idle
  BY ActsDo DEF GraphInv
<1>3. KnowledgeInv' /\ Known' = Known /\ UNCHANGED <<chunk, back>>
  BY DEF GraphInv, KnowledgeInv, Known, ActiveChunks, chunkVars
<1>4. OneOwner'
  <2>1. \A q \in Procs : Owns(proc[q])' = Owns(proc'[q])
    BY DEF Owns
  <2> QED
    BY <1>2, <2>1 DEF GraphInv, OneOwner
<1>5. ASSUME NEW q \in Procs, q # p PROVE GenAt(proc[q])'
  <2>1. PICK c : c = proc[q]
    OBVIOUS
  <2>2. GenAt(c) /\ proc'[q] = c
    BY <1>2, <1>5, <2>1 DEF GraphInv
  <2>3. CASE ~ Owns(c)
    <3>1. GenAt(c)'
      BY <2>3, OwnersOnly
    <3> QED
      BY <2>2, <3>1 DEF GenAt
  <2>4. CASE Owns(c)
    <3>1. c.gen \in DOMAIN gens /\ Respects(c.gen)
      BY <1>5, <2>1, <2>2, <2>4 DEF GenAt, GraphInv, OneOwner
    <3>2. OK(c.gen) => OK(c.gen)'
      BY <3>1, OKStays DEF GraphInv, Respects
    <3>3. c.pc = "g:switch" /\ c.prev # 0 => Settled(c.prev)'
      <4> SUFFICES ASSUME c.pc = "g:switch", c.prev # 0 PROVE Settled(c.prev)'
        OBVIOUS
      <4>1. Settled(c.prev) /\ c.prev \in DOMAIN gens
        BY <2>2 DEF GenAt, Settled
      <4> QED
        BY <4>1, SettledStays DEF GraphInv, Lasts
    <3>4. c.gen \in DOMAIN gens' /\ (Owns(c)' => Owns(c))
      BY <3>1, <2>4 DEF Respects
    <3>5. (c.pc \in OpenPC => gens'[c.gen].state = "building")
          /\ (gens[c.gen].state \in Activatable => gens'[c.gen].state \in Activatable)
      BY <2>2, <3>1 DEF GenAt, Respects
    <3>6. GenAt(c)'
      BY <1>3, <2>2, <3>2, <3>3, <3>4, <3>5 DEF GenAt
    <3> QED
      BY <2>2, <3>6 DEF GenAt
  <2> QED
    BY <2>3, <2>4
<1>6. GenAt(proc[p])'
  BY DEF GenAt
<1>7. lone' => \A q \in Procs : LoneAt(proc[q])'
  <2>1. LoneAt(Idle)'
    BY IdleOwnsNothing, OwnersOnly
  <2>2. lone' => LoneAt(proc[p])'
    BY DEF LoneAt
  <2> QED
    BY <1>2, <2>1, <2>2 DEF LoneAt
<1>8. \A m \in DOMAIN gens : Respects(m) => Lasts(m)
  BY SettledStays DEF GraphInv, Lasts, Respects
<1> QED
  BY <1>1, <1>3, <1>4, <1>5, <1>6, <1>7, <1>8 DEF GraphInv, Lasting

LEMMA ReturnedStays ==
    ASSUME Grows(graph, graph'), UNCHANGED back, NEW x, Returned(x)
    PROVE  Returned(x)'
BY DEF Returned, Grows

LEMMA BackedStays ==
    ASSUME Steady(graph, graph'), UNCHANGED <<back, moderated>>, NEW x, Backed(x)
    PROVE  Backed(x)'
<1>1. Grows(graph, graph') /\ graph.supports.active \subseteq graph'.supports.active
  BY DEF Steady
<1>2. CASE HasEvidence(graph, x)
  BY <1>1, <1>2 DEF Backed, HasEvidence
<1>3. CASE Returned(x)
  BY <1>1, <1>3, ReturnedStays DEF Backed
<1> QED
  BY <1>2, <1>3 DEF Backed, Excusable

\* What was written for an active chunk is evidence, or text that came back.
LEMMA WrittenIsBacked ==
    ASSUME GraphRows', UNCHANGED chunkVars, NEW x, NEW k \in ActiveChunks,
           <<x, k>> \in graph'.supports.active \cup graph'.supports.stale
    PROVE  Backed(x)'
<1>1. k \in Chunks /\ chunk'[k] = "active"
  BY DEF ActiveChunks, chunkVars
<1>2. CASE <<x, k>> \in graph'.supports.active
  BY <1>1, <1>2 DEF Backed, HasEvidence
<1>3. CASE <<x, k>> \in graph'.supports.stale
  <2>1. k \in back'
    BY <1>1, <1>3 DEF GraphRows
  <2> QED
    BY <1>3, <2>1 DEF Backed, Returned
<1> QED
  BY <1>2, <1>3

\* The tables grow and one row of a Generation is written.
LEMMA RowsOf ==
    ASSUME GraphInv, UNCHANGED <<chunkVars, served, plans, moderated, said>>, Grows(graph, graph'),
           NEW n \in DOMAIN gens, NEW y \in Generation, gens' = [gens EXCEPT ![n] = y],
           served = n => y.state = "active",
           y.state \in Activatable => OK(n)'
    PROVE  /\ GraphRows' /\ PlansTyped' /\ PlanRows'
           /\ \A m \in DOMAIN gens : m # n => Respects(m) /\ gens'[m] = gens[m]
           /\ gens'[n] = y /\ DOMAIN gens' = DOMAIN gens
<1>1. /\ GraphRows /\ PlansTyped /\ PlanRows
      /\ UNCHANGED <<chunk, back, served, plans, moderated, said>> /\ Known' = Known
  BY DEF GraphInv, chunkVars, Known
<1>2. gens \in Seq(Generation)
  BY <1>1 DEF GraphRows
<1>3. gens' \in Seq(Generation) /\ DOMAIN gens' = DOMAIN gens
  BY <1>2
<1>4. gens'[n] = y /\ \A m \in DOMAIN gens : m # n => gens'[m] = gens[m]
  BY <1>2
<1>5. \A m \in DOMAIN gens : m # n => Respects(m)
  BY <1>3, <1>4 DEF Respects
<1>6. IsGraph(graph') /\ \A e \in graph'.supports.active \cup graph'.supports.stale : e[2] \in Known
  BY <1>1 DEF Grows, GraphRows
<1>7. ASSUME NEW e \in graph'.supports.stale PROVE chunk[e[2]] # "active" \/ e[2] \in back
  <2>1. CASE e \in graph.supports.stale
    BY <1>1, <2>1 DEF GraphRows
  <2>2. CASE e \notin graph.supports.stale
    <3>1. e[2] \notin ActiveChunks /\ e[2] \in Known
      BY <1>6, <2>2 DEF Grows
    <3> QED
      BY <3>1 DEF ActiveChunks, Known
  <2> QED
    BY <2>1, <2>2
<1>8. served # 0 => served \in DOMAIN gens' /\ gens'[served].state = "active"
  BY <1>1, <1>3, <1>4 DEF GraphRows
<1>9. ASSUME NEW m \in DOMAIN gens', gens'[m].state \in Activatable PROVE OK(m)'
  <2>1. CASE m = n
    BY <1>4, <1>9, <2>1
  <2>2. CASE m # n
    <3>1. m \in DOMAIN gens /\ gens'[m] = gens[m] /\ OK(m)
      BY <1>1, <1>3, <1>4, <1>9, <2>2 DEF GraphRows
    <3> QED
      BY <1>1, <3>1, OKStays
  <2> QED
    BY <2>1, <2>2
<1>10. GraphRows'
  BY <1>1, <1>3, <1>6, <1>7, <1>8, <1>9 DEF GraphRows
<1>11. PlansTyped'
  BY <1>1 DEF PlansTyped
<1>12. PlanRows'
  BY <1>1, <1>3 DEF PlanRows, Grows
<1> QED
  BY <1>3, <1>4, <1>5, <1>10, <1>11, <1>12

\* What the user said and what the failed builds came from stay.
LEMMA LoneRowsOf ==
    ASSUME GraphInv, lone, UNCHANGED <<chunkVars, served, moderated, said>>, Grows(graph, graph'),
           NEW n \in DOMAIN gens, NEW y \in Generation, gens' = [gens EXCEPT ![n] = y],
           gens[n].users \subseteq y.users, gens[n].claims \subseteq y.claims,
           gens[n].relations \subseteq y.relations, y.unverified => Excused(n)
    PROVE  /\ LoneRows'
           /\ \A m \in DOMAIN gens : \A x \in said : Kept(x, m) => Kept(x, m)'
<1>1. GraphRows /\ PlanRows /\ LoneRows /\ UNCHANGED <<back, served, moderated, said>>
  BY DEF GraphInv, chunkVars
<1>2. gens \in Seq(Generation)
  BY <1>1 DEF GraphRows
<1>3. gens'[n] = y /\ DOMAIN gens' = DOMAIN gens /\ \A m \in DOMAIN gens : m # n => gens'[m] = gens[m]
  BY <1>2
<1>4. \A m \in DOMAIN gens : /\ gens[m].users \subseteq gens'[m].users
                             /\ gens[m].claims \subseteq gens'[m].claims
                             /\ gens[m].relations \subseteq gens'[m].relations
  BY <1>3
<1>5. ASSUME NEW m \in DOMAIN gens, NEW x \in said, Kept(x, m) PROVE Kept(x, m)'
  <2>1. /\ x \in Claims /\ graph'.claims[x] \in Decided => graph.claims[x] \in Decided
        /\ x \in Relations /\ graph'.relations[x] = "rejected" => graph.relations[x] = "rejected"
    BY DEF Grows
  <2> QED
    BY <1>4, <1>5, <2>1 DEF Kept
<1>6. \A x \in said' : Kept(x, served)'
  <2> SUFFICES ASSUME NEW x \in said PROVE Kept(x, served)'
    BY <1>1
  <2>1. Kept(x, served) /\ served \in DOMAIN gens /\ served' = served
    BY <1>1 DEF LoneRows, PlanRows, GraphRows
  <2>2. \A m \in DOMAIN gens : Kept(x, m) =>
          /\ x \in Users => x \in gens'[m].users
          /\ x \in Claims /\ graph'.claims[x] \in Decided => x \in gens'[m].claims
          /\ x \in Relations /\ graph'.relations[x] = "rejected" => x \in gens'[m].relations
    BY <1>5 DEF Kept
  <2> QED
    BY <2>1, <2>2 DEF Kept
<1>7. ASSUME NEW m \in DOMAIN gens', gens'[m].unverified PROVE Excused(m)'
  <2>1. Excused(m)
    BY <1>1, <1>3, <1>7 DEF LoneRows
  <2>2. \A x : Returned(x) => Returned(x)'
    BY <1>1, ReturnedStays
  <2> QED
    BY <1>1, <1>3, <1>4, <2>1, <2>2 DEF Excused, Excusable, Members
<1> QED
  BY <1>5, <1>6, <1>7 DEF LoneRows

\* A build goes on with its Generation, or fails.
LEMMA BuildGoes ==
    ASSUME GraphInv, NEW p \in Procs, NEW c, c = proc[p], NEW r, NEW n, n = c.gen, NEW y \in Generation,
           Acts(p), proc'[p] = r, UNCHANGED <<chunkVars, served, plans, moderated, said>>,
           c.pc \in OpenPC, Grows(graph, graph'), gens' = [gens EXCEPT ![n] = y],
           y.state = "building", y.users = gens[n].users, y.unverified = gens[n].unverified,
           gens[n].claims \subseteq y.claims, gens[n].relations \subseteq y.relations,
           r.pc \in (OpenPC \ {"g:mark"}) \cup {"g:failed"}, r.gen = n,
           r.pc \in AlignedPC => OK(n)',
           r.pc \in {"g:extract", "g:model", "g:succeed"} =>
               r.todo \subseteq Known /\ (lone => r.todo \subseteq ActiveChunks),
           r.pc \in {"g:model", "g:succeed"} => r.chunk \in Known /\ (lone => r.chunk \in ActiveChunks),
           lone /\ r.pc # "g:failed" => \A x \in Members(y) : Backed(x)'
    PROVE  GraphInv' /\ Lasting
<1>1. /\ GenAt(c) /\ (lone => LoneAt(c) /\ LoneRows) /\ GraphRows /\ PlanRows /\ OneOwner
      /\ UNCHANGED <<served, said>>
  BY GraphInvOf
<1>2. Owns(c) /\ n \in DOMAIN gens /\ gens[n].state = "building"
  BY <1>1 DEF GenAt, Owns, OpenPC, GraphPC
<1>3. served # n /\ y.state \notin Activatable
  BY <1>1, <1>2 DEF GraphRows, Activatable
<1>4. /\ GraphRows' /\ PlansTyped' /\ PlanRows'
      /\ \A m \in DOMAIN gens : m # n => Respects(m) /\ gens'[m] = gens[m]
      /\ gens'[n] = y /\ DOMAIN gens' = DOMAIN gens
  BY <1>2, <1>3, RowsOf
<1>5. \A m \in DOMAIN gens :
        Respects(m) \/ (Owns(proc[p]) /\ m = proc[p].gen /\ Lasts(m))
  BY <1>2, <1>4 DEF Settled, Lasts
<1>6. \A q \in Procs : Owns(r) /\ q # p /\ Owns(proc[q]) => proc[q].gen # r.gen
  BY <1>1, <1>2 DEF OneOwner
<1>7. UNCHANGED chunk /\ Known' = Known /\ ActiveChunks' = ActiveChunks
  BY DEF chunkVars, Known, ActiveChunks
<1>8. r.pc # "g:switch" /\ (r.pc \in OpenPC => gens'[r.gen].state = "building")
  BY <1>4 DEF OpenPC
<1>9. GenAt(r)'
  BY <1>2, <1>4, <1>7, <1>8 DEF GenAt
<1>10. lone' => lone
  BY ActsDo DEF GraphInv
<1>11. ASSUME lone' PROVE LoneRows' /\ LoneAt(r)'
  <2>1. y.unverified => Excused(n)
    BY <1>1, <1>2, <1>10, <1>11 DEF LoneRows
  <2>2. LoneRows' /\ \A m \in DOMAIN gens : \A x \in said : Kept(x, m) => Kept(x, m)'
    BY <1>2, <1>10, <1>11, <2>1, LoneRowsOf
  <2>3. \A x \in said : Kept(x, n)
    BY <1>1, <1>10, <1>11 DEF LoneAt
  <2>4. \A x \in said' : Kept(x, n)'
    BY <1>1, <1>2, <2>2, <2>3
  <2>5. \A x \in said' : Kept(x, r.gen)'
    BY <2>4 DEF Kept
  <2>6. r.pc \notin {"g:mark", "g:previous", "g:switch"}
    BY DEF OpenPC
  <2>7. r.pc \in OpenPC \ {"g:mark"} => \A x \in Members(gens'[r.gen]) : Backed(x)'
    BY <1>4, <1>10, <1>11 DEF OpenPC
  <2>8. LoneAt(r)'
    BY <1>7, <1>10, <1>11, <2>5, <2>6, <2>7 DEF LoneAt, Backed
  <2> QED
    BY <2>2, <2>8
<1> QED
  BY <1>4, <1>5, <1>6, <1>9, <1>11, GraphGoes

\* One that writes nothing goes on.
LEMMA GraphStands ==
    ASSUME GraphInv, NEW p \in Procs, NEW r, Acts(p), proc'[p] = r,
           UNCHANGED <<chunkVars, graph, gens, served, plans, moderated, said>>,
           Owns(r) => Owns(proc[p]) /\ r.gen = proc[p].gen,
           GenAt(r), lone' => LoneAt(r)
    PROVE  GraphInv' /\ Lasting
<1>1. UNCHANGED <<chunk, back, graph, gens, served, plans, moderated, said>>
  BY DEF chunkVars
<1>2. GraphRows /\ PlansTyped /\ PlanRows /\ OneOwner /\ (lone => LoneRows)
  BY DEF GraphInv
<1>3. Grows(graph, graph')
  BY <1>1, <1>2, NothingGrows DEF Steady
<1>4. GraphRows' /\ PlansTyped' /\ PlanRows'
  BY <1>1, <1>2 DEF GraphRows, PlansTyped, PlanRows, Known, OK, Disputed
<1>5. \A m \in DOMAIN gens : Respects(m)
  BY <1>1 DEF Respects
<1>6. \A q \in Procs : Owns(r) /\ q # p /\ Owns(proc[q]) => proc[q].gen # r.gen
  BY <1>2 DEF OneOwner
<1>7. GenAt(r)'
  BY <1>1 DEF GenAt, Settled, OK, Disputed, Known
<1>8. lone' => LoneRows' /\ LoneAt(r)'
  <2>1. lone' => lone
    BY ActsDo DEF GraphInv
  <2>2. lone' => LoneRows'
    BY <1>1, <1>2, <2>1 DEF LoneRows, Kept, Excused, Excusable, Returned, Members
  <2>3. lone' => LoneAt(r)'
    BY <1>1 DEF LoneAt, Kept, Backed, Excusable, Returned, ActiveChunks, HasEvidence, Members
  <2> QED
    BY <2>2, <2>3
<1> QED
  BY <1>3, <1>4, <1>5, <1>6, <1>7, <1>8, GraphGoes

\* What a build finds at each of its steps.
LEMMA BuildOf ==
    ASSUME GraphInv, NEW p \in Procs, GraphStep(p), NEW c, c = proc[p], c.pc \in OpenPC
    PROVE  /\ Acts(p) /\ UNCHANGED chunkVars /\ GraphShape(c) /\ DOMAIN proc = Procs
           /\ c.gen \in DOMAIN gens /\ gens[c.gen] \in Generation /\ gens[c.gen].state = "building"
           /\ gens[c.gen].claims \in SUBSET Claims
           /\ GenAt(c) /\ (lone' => lone) /\ (lone => LoneAt(c))
           /\ gens = [gens EXCEPT ![c.gen] = gens[c.gen]]
<1>1. GraphMoves(p) /\ DOMAIN proc = Procs /\ Shape(c)
  BY GraphActs DEF GraphInv, WorkInv
<1>2. c.pc \in GraphPC
  BY DEF OpenPC, GraphPC
<1>3. GraphShape(c) /\ Acts(p) /\ UNCHANGED chunkVars
  BY <1>1, <1>2, ShapeOf DEF GraphMoves
<1>4. GenAt(c) /\ (lone => LoneAt(c)) /\ (lone' => lone)
  BY <1>3, ActsDo, GraphInvOf
<1>5. c.gen \in DOMAIN gens /\ gens[c.gen].state = "building"
  BY <1>2, <1>4 DEF GenAt, Owns
<1>6. gens[c.gen] \in Generation /\ gens[c.gen].claims \in SUBSET Claims
  BY <1>5, GensTyped DEF GraphInv
<1>7. gens = [gens EXCEPT ![c.gen] = gens[c.gen]]
  BY <1>5 DEF GraphInv, GraphRows
<1> QED
  BY <1>1, <1>3, <1>4, <1>5, <1>6, <1>7

\* Evidence in chunks that are not active goes; what the build carried has some
\* in an active one, or was moderated.
LEMMA MarkKeepsGraph ==
    ASSUME GraphInv, NEW p \in Procs, MarkStaleEvidence(p), UNCHANGED planVars
    PROVE  GraphInv' /\ Lasting
<1>1. PICK c : c = proc[p]
  OBVIOUS
<1>2. PICK n : n = c.gen
  OBVIOUS
<1>3. /\ c.pc = "g:mark" /\ graph' = MarkStale(graph, ActiveChunks) /\ Goto(p, "g:project")
      /\ UNCHANGED <<gens, served, plans, moderated, said>>
  BY <1>1 DEF MarkStaleEvidence, At, planVars
<1>4. c.pc \in OpenPC /\ GraphStep(p)
  BY <1>3 DEF OpenPC, GraphStep
<1>5. /\ Acts(p) /\ UNCHANGED chunkVars /\ GraphShape(c) /\ DOMAIN proc = Procs
      /\ n \in DOMAIN gens /\ gens[n] \in Generation /\ gens[n].state = "building"
      /\ GenAt(c) /\ (lone' => lone) /\ (lone => LoneAt(c))
      /\ gens = [gens EXCEPT ![n] = gens[n]]
  BY <1>1, <1>2, <1>4, BuildOf
<1>6. PICK r : r = [c EXCEPT !.pc = "g:project"]
  OBVIOUS
<1>7. proc'[p] = r /\ r.pc = "g:project" /\ r.gen = n
  BY <1>1, <1>2, <1>3, <1>5, <1>6 DEF Goto, Set, GraphShape, Has
<1>8. Grows(graph, graph')
  <2>1. PICK h : h = MarkStale(graph, ActiveChunks)
    OBVIOUS
  <2> QED
    BY <1>3, <2>1, MarkStaleDoes DEF GraphInv, GraphRows
<1>9. OK(n)'
  <2>1. OK(n)
    BY <1>2, <1>3, <1>5 DEF GenAt, AlignedPC
  <2> QED
    BY <1>3, <1>5, <1>8, <2>1, OKStays DEF GraphInv
<1>10. ASSUME lone, NEW x \in Members(gens[n]) PROVE Backed(x)'
  <2>1. x \in Excusable \/ \E k \in ActiveChunks : <<x, k>> \in graph.supports.active
    BY <1>2, <1>3, <1>5, <1>10 DEF LoneAt
  <2>2. CASE \E k \in ActiveChunks : <<x, k>> \in graph.supports.active
    <3>1. PICK k \in ActiveChunks : <<x, k>> \in graph.supports.active
      BY <2>2
    <3>2. <<x, k>> \in graph'.supports.active /\ k \in Chunks
      BY <1>8, <3>1 DEF Grows, ActiveChunks
    <3> QED
      BY <3>2 DEF Backed, HasEvidence
  <2> QED
    BY <1>3, <2>1, <2>2 DEF Backed, Excusable
<1>11. UNCHANGED <<chunkVars, served, plans, moderated, said>> /\ gens' = [gens EXCEPT ![n] = gens[n]]
  BY <1>3, <1>5
<1>12. /\ r.pc \in (OpenPC \ {"g:mark"}) \cup {"g:failed"}
       /\ r.pc \notin {"g:extract", "g:model", "g:succeed"}
  BY <1>7 DEF OpenPC
<1> QED
  BY <1>1, <1>2, <1>4, <1>5, <1>7, <1>8, <1>9, <1>10, <1>11, <1>12, BuildGoes

\* The links of the documents are projected again, with their evidence.
LEMMA ProjectKeepsGraph ==
    ASSUME GraphInv, NEW p \in Procs, Project(p), UNCHANGED planVars
    PROVE  GraphInv' /\ Lasting
<1>1. PICK c : c = proc[p]
  OBVIOUS
<1>2. PICK n : n = c.gen
  OBVIOUS
<1>3. PICK s : s = ProjectStructure(graph, gens[n], ActiveChunks)
  OBVIOUS
<1>4. PICK b : b = ProjectLinks(s[1], s[2], ActiveChunks)
  OBVIOUS
<1>5. /\ c.pc = "g:project" /\ graph' = b[1] /\ gens' = [gens EXCEPT ![n] = b[2]]
      /\ UNCHANGED <<served, plans, moderated, said>>
      /\ Goto(p, IF c.model THEN "g:chunks" ELSE "g:neighbors")
  BY <1>1, <1>2, <1>3, <1>4 DEF Project, At, planVars, Write, Gen
<1>6. c.pc \in OpenPC /\ GraphStep(p)
  BY <1>5 DEF OpenPC, GraphStep
<1>7. /\ Acts(p) /\ UNCHANGED chunkVars /\ GraphShape(c) /\ DOMAIN proc = Procs
      /\ n \in DOMAIN gens /\ gens[n] \in Generation /\ gens[n].state = "building"
      /\ GenAt(c) /\ (lone' => lone) /\ (lone => LoneAt(c))
  BY <1>1, <1>2, <1>6, BuildOf
<1>8. PICK x : x = IF c.model THEN "g:chunks" ELSE "g:neighbors"
  OBVIOUS
<1>9. PICK r : r = [c EXCEPT !.pc = x]
  OBVIOUS
<1>10. proc'[p] = r /\ r.pc \in {"g:chunks", "g:neighbors"} /\ r.gen = n
  BY <1>1, <1>2, <1>5, <1>7, <1>8, <1>9 DEF Goto, Set, GraphShape, Has
<1>11. PICK y : y = b[2]
  OBVIOUS
<1>12. /\ Steady(graph, graph') /\ y \in Generation
       /\ y.claims = gens[n].claims /\ y.users = gens[n].users /\ y.state = gens[n].state
       /\ y.unverified = gens[n].unverified /\ gens[n].relations \subseteq y.relations
       /\ \A l \in y.relations \ gens[n].relations : \E k \in ActiveChunks :
            <<l, k>> \in graph'.supports.active \cup graph'.supports.stale
  <2>1. IsGraph(graph)
    BY GraphInvOf
  <2> QED
    BY <1>3, <1>4, <1>5, <1>7, <1>11, <2>1, ProjectDoes
<1>13. gens' = [gens EXCEPT ![n] = y] /\ UNCHANGED <<chunkVars, served, plans, moderated, said>>
       /\ Grows(graph, graph') /\ gens'[n] = y
  BY <1>5, <1>7, <1>11, <1>12 DEF Steady, GraphInv, GraphRows
<1>14. OK(n)'
  <2>1. OK(n)
    BY <1>2, <1>5, <1>7 DEF GenAt, AlignedPC
  <2> QED
    BY <1>7, <1>12, <1>13, <2>1, OKStays DEF GraphInv
<1>15. GraphRows'
  <2>1. served # n
    BY <1>7 DEF GraphInv, GraphRows
  <2>2. y.state \notin Activatable
    BY <1>7, <1>12 DEF Activatable
  <2> QED
    BY <1>7, <1>12, <1>13, <2>1, <2>2, RowsOf
<1>16. ASSUME lone, NEW l \in Members(y) PROVE Backed(l)'
  <2>1. CASE l \in Members(gens[n])
    <3>1. Backed(l)
      BY <1>2, <1>5, <1>7, <1>16, <2>1 DEF LoneAt, OpenPC
    <3> QED
      BY <1>12, <1>13, <3>1, BackedStays DEF chunkVars
  <2>2. CASE l \notin Members(gens[n])
    <3>1. PICK k \in ActiveChunks : <<l, k>> \in graph'.supports.active \cup graph'.supports.stale
      BY <1>12, <1>16, <2>2 DEF Members
    <3> QED
      BY <1>7, <1>15, <3>1, WrittenIsBacked
  <2> QED
    BY <2>1, <2>2
<1>17. /\ r.pc \in (OpenPC \ {"g:mark"}) \cup {"g:failed"}
       /\ r.pc \notin {"g:extract", "g:model", "g:succeed"}
  BY <1>10 DEF OpenPC
<1> QED
  BY <1>1, <1>2, <1>6, <1>7, <1>10, <1>12, <1>13, <1>14, <1>16, <1>17, BuildGoes

\* A build that changes only the extraction runs, or nothing, goes on.
LEMMA RunsKeepGraph ==
    ASSUME GraphInv, NEW p \in Procs, GraphStep(p), NEW c, c = proc[p], c.pc \in OpenPC \ {"g:mark"},
           NEW r, proc'[p] = r,
           UNCHANGED <<gens, served, plans, moderated, said>>,
           graph' = graph \/ \E u : Inputs(u) /\ graph' = [graph EXCEPT !.runs = u],
           r.pc \in (OpenPC \ {"g:mark"}) \cup {"g:failed"}, r.gen = c.gen,
           r.pc \in AlignedPC => c.pc \in AlignedPC,
           r.pc \in {"g:extract", "g:model", "g:succeed"} =>
               r.todo \subseteq Known /\ (lone => r.todo \subseteq ActiveChunks),
           r.pc \in {"g:model", "g:succeed"} => r.chunk \in Known /\ (lone => r.chunk \in ActiveChunks)
    PROVE  GraphInv' /\ Lasting
<1>1. PICK n : n = c.gen
  OBVIOUS
<1>2. /\ Acts(p) /\ UNCHANGED chunkVars
      /\ n \in DOMAIN gens /\ gens[n] \in Generation /\ gens[n].state = "building"
      /\ GenAt(c) /\ (lone' => lone) /\ (lone => LoneAt(c))
      /\ gens = [gens EXCEPT ![n] = gens[n]]
  BY <1>1, BuildOf
<1>3. Steady(graph, graph')
  <2>1. CASE graph' = graph
    BY <2>1, NothingGrows DEF GraphInv
  <2>2. CASE graph' # graph
    <3>1. PICK u : Inputs(u) /\ graph' = [graph EXCEPT !.runs = u]
      BY <2>2
    <3>2. PICK g : g = graph
      OBVIOUS
    <3>3. PICK h : h = [g EXCEPT !.runs = u]
      OBVIOUS
    <3>4. IsGraph(g) /\ graph' = h
      BY <3>1, <3>2, <3>3 DEF GraphInv, GraphRows
    <3>5. /\ DOMAIN h = DOMAIN g /\ h.claims = g.claims /\ h.level = g.level /\ h.supports = g.supports
          /\ h.relations = g.relations /\ h.conflicts = g.conflicts /\ h.runs = u
      BY <3>3, <3>4 DEF IsGraph
    <3> QED
      BY <3>1, <3>2, <3>4, <3>5, RunsChange
  <2> QED
    BY <2>1, <2>2
<1>4. Grows(graph, graph') /\ gens' = [gens EXCEPT ![n] = gens[n]]
  BY <1>2, <1>3 DEF Steady
<1>5. r.pc \in AlignedPC => OK(n)'
  <2> SUFFICES ASSUME r.pc \in AlignedPC PROVE OK(n)'
    OBVIOUS
  <2>1. OK(n)
    BY <1>1, <1>2 DEF GenAt
  <2> QED
    BY <1>2, <1>4, <2>1, OKStays DEF GraphInv
<1>6. ASSUME lone, NEW x \in Members(gens[n]) PROVE Backed(x)'
  <2>1. Backed(x)
    BY <1>1, <1>2, <1>6 DEF LoneAt
  <2> QED
    BY <1>2, <1>3, <2>1, BackedStays DEF chunkVars
<1>7. c.pc \in OpenPC /\ UNCHANGED <<chunkVars, served, plans, moderated, said>>
  BY <1>2
<1>8. PICK y : y = gens[n]
  OBVIOUS
<1>9. /\ y \in Generation /\ gens' = [gens EXCEPT ![n] = y] /\ y.state = "building"
      /\ y.users = gens[n].users /\ y.unverified = gens[n].unverified
      /\ gens[n].claims \subseteq y.claims /\ gens[n].relations \subseteq y.relations
      /\ (lone /\ r.pc # "g:failed" => \A x \in Members(y) : Backed(x)')
  BY <1>2, <1>4, <1>6, <1>8
<1>10. /\ r.gen = n /\ proc'[p] = r /\ r.pc \in (OpenPC \ {"g:mark"}) \cup {"g:failed"}
       /\ r.pc \in {"g:extract", "g:model", "g:succeed"} =>
               r.todo \subseteq Known /\ (lone => r.todo \subseteq ActiveChunks)
       /\ r.pc \in {"g:model", "g:succeed"} => r.chunk \in Known /\ (lone => r.chunk \in ActiveChunks)
  BY <1>1
<1>11. c = proc[p] /\ n = c.gen /\ GraphInv /\ Acts(p) /\ Grows(graph, graph')
  BY <1>1, <1>2, <1>4
<1> QED
  BY ONLY <1>5, <1>7, <1>9, <1>10, <1>11, BuildGoes

LEMMA ListKeepsGraph ==
    ASSUME GraphInv, NEW p \in Procs, ListChunks(p) \/ BuildNeighbors(p), UNCHANGED planVars
    PROVE  GraphInv' /\ Lasting
<1>1. PICK c : c = proc[p]
  OBVIOUS
<1>2. /\ c.pc \in {"g:chunks", "g:neighbors"} /\ UNCHANGED <<graph, gens, served, plans, moderated, said>>
      /\ c.pc \in OpenPC /\ c.pc \in OpenPC \ {"g:mark"} /\ c.pc \in AlignedPC /\ GraphStep(p)
  BY <1>1 DEF ListChunks, BuildNeighbors, At, planVars, graphVars, OpenPC, AlignedPC, GraphStep
<1>3. GraphShape(c) /\ DOMAIN proc = Procs
  BY <1>1, <1>2, BuildOf
<1>4. ActiveChunks \subseteq Known
  BY DEF ActiveChunks, Known
<1>5. PICK r : /\ Set(p, r)
               /\ \/ r = [c EXCEPT !.pc = "g:extract", !.todo = ActiveChunks]
                  \/ \E x \in {"g:verify", "g:failed"} : r = [c EXCEPT !.pc = x]
  <2>1. CASE ListChunks(p)
    BY <1>1, <2>1 DEF ListChunks
  <2>2. CASE BuildNeighbors(p)
    <3>1. PICK x \in {"g:verify", "g:failed"} : Goto(p, x)
      BY <2>2 DEF BuildNeighbors
    <3>2. PICK r : r = [c EXCEPT !.pc = x]
      OBVIOUS
    <3> QED
      BY <1>1, <3>1, <3>2 DEF Goto
  <2> QED
    BY <2>1, <2>2
<1>6. proc'[p] = r /\ r.gen = c.gen
  BY <1>3, <1>5 DEF Set, GraphShape, Has
<1>7. \/ r.pc = "g:extract" /\ r.todo = ActiveChunks
      \/ r.pc \in {"g:verify", "g:failed"}
  BY <1>3, <1>5 DEF GraphShape, Has
<1>8. /\ r.pc \in (OpenPC \ {"g:mark"}) \cup {"g:failed"}
      /\ r.pc \in {"g:extract", "g:model", "g:succeed"} => r.todo \subseteq Known /\ r.todo \subseteq ActiveChunks
      /\ r.pc \notin {"g:model", "g:succeed"}
  BY <1>4, <1>7 DEF OpenPC
<1> QED
  BY <1>1, <1>2, <1>6, <1>8, RunsKeepGraph

LEMMA ExtractionKeepsGraph ==
    ASSUME GraphInv, NEW p \in Procs, MarkSucceeded(p) \/ ExtractionFails(p), UNCHANGED planVars
    PROVE  GraphInv' /\ Lasting
<1>1. PICK c : c = proc[p]
  OBVIOUS
<1>2. /\ c.pc \in {"g:model", "g:succeed"} /\ UNCHANGED <<gens, served, plans, moderated, said>>
      /\ c.pc \in OpenPC /\ c.pc \in OpenPC \ {"g:mark"} /\ GraphStep(p)
  BY <1>1 DEF MarkSucceeded, ExtractionFails, At, planVars, OpenPC, GraphStep
<1>3. GraphShape(c) /\ DOMAIN proc = Procs /\ GenAt(c) /\ (lone => LoneAt(c)) /\ IsGraph(graph)
  BY <1>1, <1>2, BuildOf, GraphInvOf
<1>4. \E u : Inputs(u) /\ graph' = [graph EXCEPT !.runs = u]
  <2>1. PICK s \in {"succeeded", "failed"} : graph' = [graph EXCEPT !.runs[TextOf[c.chunk]].state = s]
    BY <1>1 DEF MarkSucceeded, ExtractionFails
  <2>2. PICK u : u = [graph.runs EXCEPT ![TextOf[c.chunk]].state = s]
    OBVIOUS
  <2>3. Inputs(u)
    BY <1>3, <2>2, InputsKeep DEF IsGraph, Paired
  <2> QED
    BY <2>1, <2>2, <2>3
<1>5. PICK x \in {"g:extract", "g:failed"} : Set(p, [c EXCEPT !.chunk = 0, !.pc = x])
  BY <1>1 DEF MarkSucceeded, ExtractionFails
<1>6. PICK r : r = [c EXCEPT !.chunk = 0, !.pc = x]
  OBVIOUS
<1>7. proc'[p] = r /\ r.gen = c.gen /\ r.pc = x /\ r.todo = c.todo
  BY <1>3, <1>5, <1>6 DEF Set, GraphShape, Has
<1>8. /\ r.pc \in (OpenPC \ {"g:mark"}) \cup {"g:failed"}
      /\ r.pc \notin AlignedPC /\ r.pc \notin {"g:model", "g:succeed"}
  BY <1>7 DEF OpenPC, AlignedPC
<1>9. r.todo \subseteq Known /\ (lone => r.todo \subseteq ActiveChunks)
  BY <1>2, <1>3, <1>7 DEF GenAt, LoneAt
<1> QED
  BY <1>1, <1>2, <1>4, <1>7, <1>8, <1>9, RunsKeepGraph

\* What an extraction found joins the claims of the Generation.
LEMMA FoundKeepsGraph ==
    ASSUME GraphInv, NEW p \in Procs, GraphStep(p), NEW c, c = proc[p],
           c.pc \in {"g:extract", "g:model"}, NEW n, n = c.gen, NEW r, proc'[p] = r,
           UNCHANGED <<served, plans, moderated, said>>,
           Steady(graph, graph'), NEW found, NEW stated, NEW y \in Generation,
           Joined(gens[n], y, found, stated), gens' = [gens EXCEPT ![n] = y],
           r.pc \in {"g:extract", "g:succeed"}, r.gen = n, r.todo \subseteq c.todo,
           r.pc = "g:succeed" => c.pc = "g:model" /\ r.chunk = c.chunk,
           lone => \A x \in found \cup stated : Backed(x)'
    PROVE  GraphInv' /\ Lasting
<1>1. c.pc \in OpenPC
  BY DEF OpenPC
<1>2. /\ Acts(p) /\ UNCHANGED chunkVars
      /\ n \in DOMAIN gens /\ gens[n] \in Generation /\ gens[n].state = "building"
      /\ GenAt(c) /\ (lone' => lone) /\ (lone => LoneAt(c))
  BY <1>1, BuildOf
<1>3. /\ y.claims = gens[n].claims \cup found /\ y.relations = gens[n].relations \cup stated
      /\ y.state = "building" /\ y.users = gens[n].users /\ y.unverified = gens[n].unverified
      /\ gens[n].claims \subseteq y.claims /\ gens[n].relations \subseteq y.relations
  BY <1>2 DEF Generation, Joined
<1>4. ASSUME lone, NEW x \in Members(y) PROVE Backed(x)'
  <2>1. CASE x \in found \cup stated
    BY <1>4, <2>1
  <2>2. CASE x \notin found \cup stated
    <3>1. x \in Members(gens[n])
      BY <1>3, <1>4, <2>2 DEF Members
    <3>2. Backed(x)
      BY <1>2, <1>4, <3>1 DEF LoneAt, OpenPC
    <3> QED
      BY <1>2, <3>2, BackedStays DEF chunkVars
  <2> QED
    BY <2>1, <2>2
<1>5. r.todo \subseteq Known /\ (lone => r.todo \subseteq ActiveChunks)
  BY <1>2 DEF GenAt, LoneAt
<1>6. r.pc \in {"g:model", "g:succeed"} => r.chunk \in Known /\ (lone => r.chunk \in ActiveChunks)
  BY <1>2 DEF GenAt, LoneAt
<1>7. r.pc \in (OpenPC \ {"g:mark"}) \cup {"g:failed"} /\ r.pc \notin AlignedPC
  BY DEF OpenPC, AlignedPC
<1>8. /\ Acts(p) /\ Grows(graph, graph') /\ UNCHANGED <<chunkVars, served, plans, moderated, said>>
      /\ c = proc[p] /\ n = c.gen /\ proc'[p] = r /\ r.gen = n /\ GraphInv
      /\ gens' = [gens EXCEPT ![n] = y]
  BY <1>2 DEF Steady
<1>9. (r.pc \in AlignedPC => OK(n)') /\ (lone /\ r.pc # "g:failed" => \A x \in Members(y) : Backed(x)')
  BY <1>4, <1>7
<1> QED
  BY ONLY <1>1, <1>3, <1>5, <1>6, <1>7, <1>8, <1>9, y \in Generation, p \in Procs, BuildGoes

\* A Generation that is written is none that is served.
LEMMA WritingKeepsRows ==
    ASSUME GraphInv, NEW n \in DOMAIN gens, gens[n].state = "building", NEW y \in Generation,
           y.state = "building", gens' = [gens EXCEPT ![n] = y],
           UNCHANGED <<chunkVars, served, plans, moderated, said>>, Grows(graph, graph')
    PROVE  GraphRows'
<1>1. served # n
  BY DEF GraphInv, GraphRows
<1>2. y.state \notin Activatable
  BY DEF Activatable
<1> QED
  BY <1>1, <1>2, RowsOf

LEMMA AnswerKeepsGraph ==
    ASSUME GraphInv, NEW p \in Procs, ModelAnswers(p), UNCHANGED planVars
    PROVE  GraphInv' /\ Lasting
<1>1. PICK c : c = proc[p]
  OBVIOUS
<1>2. PICK n : n = c.gen
  OBVIOUS
<1>3. PICK k : k = c.chunk
  OBVIOUS
<1>4. PICK b : b = PublishExtraction(graph, gens[n], k)
  OBVIOUS
<1>5. /\ c.pc = "g:model" /\ graph' = b[1] /\ gens' = [gens EXCEPT ![n] = b[2]]
      /\ UNCHANGED <<served, plans, moderated, said>> /\ Goto(p, "g:succeed")
  BY <1>1, <1>2, <1>3, <1>4 DEF ModelAnswers, At, planVars, Write, Gen
<1>6. c.pc \in OpenPC /\ GraphStep(p)
  BY <1>5 DEF OpenPC, GraphStep
<1>7. /\ UNCHANGED chunkVars /\ GraphShape(c) /\ DOMAIN proc = Procs
      /\ n \in DOMAIN gens /\ gens[n] \in Generation /\ gens[n].state = "building"
      /\ GenAt(c) /\ (lone => LoneAt(c)) /\ IsGraph(graph)
  BY <1>1, <1>2, <1>6, BuildOf, GraphInvOf
<1>8. PICK r : r = [c EXCEPT !.pc = "g:succeed"]
  OBVIOUS
<1>9. proc'[p] = r /\ r.pc = "g:succeed" /\ r.gen = n /\ r.todo = c.todo /\ r.chunk = c.chunk
  BY <1>1, <1>2, <1>5, <1>7, <1>8 DEF Goto, Set, GraphShape, Has
<1>10. k \in Known /\ (lone => k \in ActiveChunks)
  BY <1>3, <1>5, <1>7 DEF GenAt, LoneAt
<1>11. PICK y : y = b[2]
  OBVIOUS
<1>12. Steady(graph, graph') /\ y \in Generation /\ Published(graph', gens[n], y, k)
  BY <1>4, <1>5, <1>7, <1>10, <1>11, PublishExtractionDoes
<1>13. PICK found, stated : /\ Joined(gens[n], y, found, stated)
                            /\ \A x \in found \cup stated :
                                 <<x, k>> \in graph'.supports.active \cup graph'.supports.stale
  BY <1>12 DEF Published
<1>14. Joined(gens[n], y, found, stated)
  BY <1>13
<1>15. y.state = "building" /\ gens' = [gens EXCEPT ![n] = y] /\ Grows(graph, graph')
  BY <1>5, <1>7, <1>11, <1>12, <1>13 DEF Generation, Steady, Joined
<1>16. GraphRows'
  BY <1>5, <1>7, <1>12, <1>15, WritingKeepsRows
<1>17. ASSUME lone, NEW x \in found \cup stated PROVE Backed(x)'
  BY <1>7, <1>10, <1>13, <1>16, <1>17, WrittenIsBacked
<1>18. /\ c.pc \in {"g:extract", "g:model"} /\ r.pc \in {"g:extract", "g:succeed"}
       /\ r.todo \subseteq c.todo
  BY <1>5, <1>9
<1>19. /\ UNCHANGED <<served, plans, moderated, said>> /\ GraphStep(p) /\ GraphInv /\ c = proc[p] /\ n = c.gen
       /\ proc'[p] = r /\ r.gen = n /\ (r.pc = "g:succeed" => c.pc = "g:model" /\ r.chunk = c.chunk)
       /\ Steady(graph, graph') /\ y \in Generation
       /\ gens' = [gens EXCEPT ![n] = y] /\ (lone => \A x \in found \cup stated : Backed(x)')
  BY <1>1, <1>2, <1>5, <1>6, <1>9, <1>12, <1>13, <1>15, <1>17
<1> QED
  BY ONLY <1>14, <1>18, <1>19, p \in Procs, FoundKeepsGraph

LEMMA NextChunkKeepsGraph ==
    ASSUME GraphInv, NEW p \in Procs, NextChunk(p), UNCHANGED planVars
    PROVE  GraphInv' /\ Lasting
<1>1. PICK c : c = proc[p]
  OBVIOUS
<1>2. PICK n : n = c.gen
  OBVIOUS
<1>3. PICK k : k = Min(c.todo)
  OBVIOUS
<1>4. /\ c.pc = "g:extract" /\ c.todo # {} /\ UNCHANGED <<served, plans, moderated, said>>
      /\ \/ /\ Write(p, ReuseExtraction(graph, gens[n], k))
            /\ Set(p, [c EXCEPT !.todo = c.todo \ {k}])
         \/ /\ \E u \in {[state |-> "running", chunk |-> k], graph.runs[TextOf[k]]} :
                  Write(p, <<[graph EXCEPT !.runs[TextOf[k]] = u], gens[n]>>)
            /\ Set(p, [c EXCEPT !.todo = c.todo \ {k}, !.chunk = k, !.pc = "g:model"])
  <2>1. CASE graph.runs[TextOf[k]].state = "succeeded"
    BY <1>1, <1>2, <1>3, <2>1 DEF NextChunk, At, planVars, Gen
  <2>2. CASE graph.runs[TextOf[k]].state # "succeeded"
    <3>1. /\ Write(p, <<[graph EXCEPT !.runs[TextOf[k]] =
                     IF @.state = "none" THEN [state |-> "running", chunk |-> k] ELSE @], gens[n]>>)
          /\ Set(p, [c EXCEPT !.todo = c.todo \ {k}, !.chunk = k, !.pc = "g:model"])
      BY <1>1, <1>2, <1>3, <2>2 DEF NextChunk, Gen
    <3>2. PICK u \in {[state |-> "running", chunk |-> k], graph.runs[TextOf[k]]} :
                   u = IF graph.runs[TextOf[k]].state = "none" THEN [state |-> "running", chunk |-> k]
                       ELSE graph.runs[TextOf[k]]
      OBVIOUS
    <3>3. Write(p, <<[graph EXCEPT !.runs[TextOf[k]] = u], gens[n]>>)
      BY <3>1, <3>2
    <3> QED
      BY <1>1, <3>1, <3>3 DEF NextChunk, At, planVars
  <2> QED
    BY <2>1, <2>2
<1>5. c.pc \in OpenPC /\ c.pc \in OpenPC \ {"g:mark"} /\ GraphStep(p)
  BY <1>4 DEF OpenPC, GraphStep
<1>6. /\ UNCHANGED chunkVars /\ GraphShape(c) /\ DOMAIN proc = Procs
      /\ n \in DOMAIN gens /\ gens[n] \in Generation /\ gens[n].state = "building"
      /\ GenAt(c) /\ (lone => LoneAt(c)) /\ IsGraph(graph)
      /\ gens = [gens EXCEPT ![n] = gens[n]]
  BY <1>1, <1>2, <1>5, BuildOf, GraphInvOf
<1>7. k \in c.todo /\ k \in Known /\ (lone => k \in ActiveChunks)
  <2>1. c.todo \subseteq Known /\ Known \subseteq Nat
    BY <1>4, <1>6, CommandsAssumption DEF GenAt, Known
  <2>2. k \in c.todo
    BY <1>3, <1>4, <2>1, LeastIn
  <2> QED
    BY <1>4, <1>6, <2>1, <2>2 DEF LoneAt
<1>8. CASE Write(p, ReuseExtraction(graph, gens[n], k)) /\ Set(p, [c EXCEPT !.todo = c.todo \ {k}])
  <2>1. PICK b : b = ReuseExtraction(graph, gens[n], k)
    OBVIOUS
  <2>2. PICK y : y = b[2]
    OBVIOUS
  <2>3. graph' = b[1] /\ gens' = [gens EXCEPT ![n] = y]
    BY <1>1, <1>2, <1>8, <2>1, <2>2 DEF Write
  <2>4. Steady(graph, graph') /\ y \in Generation /\ Reused(graph', gens[n], y)
    BY <1>6, <1>7, <2>1, <2>2, <2>3, ReuseExtractionDoes
  <2>5. PICK found, stated : /\ Joined(gens[n], y, found, stated)
                             /\ \A x \in found \cup stated : HasEvidence(graph', x) \/ x \in Uneven
    BY <2>4 DEF Reused
  <2>6. PICK r : r = [c EXCEPT !.todo = c.todo \ {k}]
    OBVIOUS
  <2>7. proc'[p] = r /\ r.pc = "g:extract" /\ r.gen = n /\ r.todo \subseteq c.todo
    BY <1>2, <1>4, <1>6, <1>8, <2>6 DEF Set, GraphShape, Has
  <2>8. \A x \in found \cup stated : Backed(x)'
    BY <2>5 DEF Backed, HasEvidence, Excusable
  <2>9. c.pc \in {"g:extract", "g:model"} /\ r.pc \in {"g:extract", "g:succeed"} /\ r.pc # "g:succeed"
    BY <1>4, <2>7
  <2> QED
    BY <1>1, <1>2, <1>4, <1>5, <2>3, <2>4, <2>5, <2>7, <2>8, <2>9, FoundKeepsGraph
<1>9. CASE /\ \E u \in {[state |-> "running", chunk |-> k], graph.runs[TextOf[k]]} :
                Write(p, <<[graph EXCEPT !.runs[TextOf[k]] = u], gens[n]>>)
           /\ Set(p, [c EXCEPT !.todo = c.todo \ {k}, !.chunk = k, !.pc = "g:model"])
  <2>1. PICK u \in {[state |-> "running", chunk |-> k], graph.runs[TextOf[k]]} :
               Write(p, <<[graph EXCEPT !.runs[TextOf[k]] = u], gens[n]>>)
    BY <1>9
  <2>2. graph' = [graph EXCEPT !.runs[TextOf[k]] = u] /\ gens' = [gens EXCEPT ![n] = gens[n]]
    BY <1>1, <1>2, <2>1 DEF Write
  <2>3. (\E w : Inputs(w) /\ graph' = [graph EXCEPT !.runs = w]) /\ gens' = gens
    <3>1. PICK w : w = [graph.runs EXCEPT ![TextOf[k]] = u]
      OBVIOUS
    <3>2. k \in Chunks /\ Inputs(graph.runs)
      BY <1>6, <1>7 DEF Known, IsGraph, Paired
    <3>3. Inputs(w)
      <4>1. CASE u = graph.runs[TextOf[k]]
        BY <3>1, <3>2, <4>1, InputsKeep DEF Inputs
      <4>2. CASE u = [state |-> "running", chunk |-> k]
        BY <3>1, <3>2, <4>2, InputsKeep
      <4> QED
        BY <2>1, <4>1, <4>2
    <3> QED
      BY <1>6, <2>2, <3>1, <3>3
  <2>4. PICK r : r = [c EXCEPT !.todo = c.todo \ {k}, !.chunk = k, !.pc = "g:model"]
    OBVIOUS
  <2>5. proc'[p] = r /\ r.pc = "g:model" /\ r.gen = n /\ r.todo = c.todo \ {k} /\ r.chunk = k
    BY <1>2, <1>6, <1>9, <2>4 DEF Set, GraphShape, Has
  <2>6. /\ r.todo \subseteq Known /\ (lone => r.todo \subseteq ActiveChunks)
        /\ r.chunk \in Known /\ (lone => r.chunk \in ActiveChunks)
    BY <1>4, <1>6, <1>7, <2>5 DEF GenAt, LoneAt
  <2>7. /\ r.pc \in (OpenPC \ {"g:mark"}) \cup {"g:failed"} /\ r.pc \notin AlignedPC
        /\ UNCHANGED <<gens, served, plans, moderated, said>> /\ r.gen = c.gen
    BY <1>2, <1>4, <2>3, <2>5 DEF OpenPC, AlignedPC
  <2> QED
    BY <1>1, <1>5, <2>3, <2>5, <2>6, <2>7, RunsKeepGraph
<1> QED
  BY <1>4, <1>8, <1>9

\* After the alignment every contradiction of the Generation is in a conflict.
LEMMA AlignKeepsGraph ==
    ASSUME GraphInv, NEW p \in Procs, Align(p), UNCHANGED planVars
    PROVE  GraphInv' /\ Lasting
<1>1. PICK c : c = proc[p]
  OBVIOUS
<1>2. PICK n : n = c.gen
  OBVIOUS
<1>3. /\ c.pc = "g:extract" /\ graph' = AlignClaims(graph, gens[n].claims)
      /\ UNCHANGED <<gens, served, plans, moderated, said>> /\ Goto(p, "g:neighbors")
  BY <1>1, <1>2 DEF Align, At, planVars, Gen
<1>4. c.pc \in OpenPC /\ GraphStep(p)
  BY <1>3 DEF OpenPC, GraphStep
<1>5. /\ Acts(p) /\ UNCHANGED chunkVars /\ GraphShape(c) /\ DOMAIN proc = Procs
      /\ n \in DOMAIN gens /\ gens[n] \in Generation /\ gens[n].state = "building"
      /\ gens[n].claims \in SUBSET Claims /\ (lone => LoneAt(c)) /\ IsGraph(graph)
      /\ gens = [gens EXCEPT ![n] = gens[n]]
  BY <1>1, <1>2, <1>4, BuildOf, GraphInvOf
<1>6. PICK r : r = [c EXCEPT !.pc = "g:neighbors"]
  OBVIOUS
<1>7. proc'[p] = r /\ r.pc = "g:neighbors" /\ r.gen = n
  BY <1>1, <1>2, <1>3, <1>5, <1>6 DEF Goto, Set, GraphShape, Has
<1>8. PICK h : h = AlignClaims(graph, gens[n].claims)
  OBVIOUS
<1>9. /\ Steady(graph, h)
      /\ \A a, d \in gens[n].claims : Contradicts(a, d) => Disputed(h, a)
  BY <1>5, <1>8, AlignDoes
<1>10. graph' = h /\ Steady(graph, graph') /\ Grows(graph, graph')
  BY <1>3, <1>8, <1>9 DEF Steady
<1>11. OK(n)'
  BY <1>3, <1>9, <1>10 DEF OK, Contradicts, Disputed
<1>12. PICK y : y = gens[n]
  OBVIOUS
<1>13. /\ y \in Generation /\ gens' = [gens EXCEPT ![n] = y] /\ y.state = "building"
       /\ y.users = gens[n].users /\ y.unverified = gens[n].unverified
       /\ gens[n].claims \subseteq y.claims /\ gens[n].relations \subseteq y.relations
  BY <1>3, <1>5, <1>12
<1>14. ASSUME lone, NEW x \in Members(y) PROVE Backed(x)'
  <2>1. Backed(x)
    BY <1>2, <1>3, <1>5, <1>12, <1>14 DEF LoneAt, OpenPC
  <2> QED
    BY <1>3, <1>5, <1>10, <2>1, BackedStays DEF chunkVars
<1>15. /\ r.pc \in (OpenPC \ {"g:mark"}) \cup {"g:failed"}
       /\ r.pc \notin {"g:extract", "g:model", "g:succeed"}
       /\ (lone /\ r.pc # "g:failed" => \A x \in Members(y) : Backed(x)')
       /\ (r.pc \in AlignedPC => OK(n)')
  BY <1>7, <1>11, <1>14 DEF OpenPC
<1>16. /\ Acts(p) /\ Grows(graph, graph') /\ UNCHANGED <<chunkVars, served, plans, moderated, said>>
       /\ c = proc[p] /\ n = c.gen /\ GraphInv
  BY <1>1, <1>2, <1>3, <1>5, <1>10
<1> QED
  BY ONLY <1>4, <1>7, <1>13, <1>15, <1>16, p \in Procs, BuildGoes

\* What its verification finds unsupported was moderated or came back.
LEMMA FinalizeKeepsGraph ==
    ASSUME GraphInv, NEW p \in Procs, Finalize(p), UNCHANGED planVars
    PROVE  GraphInv' /\ Lasting
<1>1. PICK c : c = proc[p]
  OBVIOUS
<1>2. PICK n : n = c.gen
  OBVIOUS
<1>3. /\ c.pc = "g:verify" /\ UNCHANGED <<graph, served, plans, moderated, said>>
      /\ c.pc \in OpenPC /\ GraphStep(p)
  BY <1>1 DEF Finalize, At, planVars, OpenPC, GraphStep
<1>4. /\ Acts(p) /\ UNCHANGED chunkVars /\ GraphShape(c) /\ DOMAIN proc = Procs
      /\ n \in DOMAIN gens /\ gens[n] \in Generation /\ gens[n].state = "building"
      /\ GenAt(c) /\ (lone' => lone) /\ (lone => LoneAt(c))
  BY <1>1, <1>2, <1>3, BuildOf
<1>5. GraphRows /\ PlanRows /\ OneOwner /\ (lone => LoneRows) /\ IsGraph(graph)
  BY GraphInvOf
<1>6. OK(n) /\ served # n /\ Owns(c)
  BY <1>2, <1>3, <1>4, <1>5 DEF GenAt, AlignedPC, GraphRows, Owns, GraphPC
<1>7. PICK y, r :
        /\ gens' = [gens EXCEPT ![n] = y] /\ Set(p, r)
        /\ \/ y = [gens[n] EXCEPT !.state = "ready"] /\ (r = Idle \/ r = [c EXCEPT !.pc = "g:previous"])
           \/ /\ y = [gens[n] EXCEPT !.unverified = TRUE] /\ r = [c EXCEPT !.pc = "g:failed"]
              /\ Unsupported(graph, gens[n]) # {}
  <2>1. CASE Unsupported(graph, Gen(p)) = {}
    BY <1>1, <1>2, <2>1 DEF Finalize, Goto
  <2>2. CASE Unsupported(graph, Gen(p)) # {}
    <3>1. gens' = [gens EXCEPT ![n].unverified = TRUE] /\ Set(p, [c EXCEPT !.pc = "g:failed"])
      BY <1>1, <1>2, <2>2 DEF Finalize, Goto
    <3> QED
      BY <1>1, <1>2, <2>2, <3>1 DEF Gen
  <2> QED
    BY <2>1, <2>2
<1>8. /\ proc'[p] = r
      /\ \/ r = Idle
         \/ r.pc \in {"g:previous", "g:failed"} /\ r.gen = n
  BY <1>1, <1>2, <1>4, <1>7 DEF Set, GraphShape, Has
<1>9. /\ y \in Generation /\ y.state \in {"ready", "building"}
      /\ y.users = gens[n].users /\ y.claims = gens[n].claims /\ y.relations = gens[n].relations
      /\ y.unverified => gens[n].unverified \/ Unsupported(graph, gens[n]) # {}
  BY <1>4, <1>7 DEF Generation, GenStates
<1>10. Steady(graph, graph') /\ Grows(graph, graph')
  BY <1>3, <1>5, NothingGrows DEF Steady
<1>11. UNCHANGED <<chunkVars, served, plans, moderated, said>> /\ gens' = [gens EXCEPT ![n] = y]
  BY <1>3, <1>4, <1>7
<1>12. OK(n)'
  <2>1. gens'[n] = y
    BY <1>4, <1>5, <1>11 DEF GraphRows
  <2> QED
    BY <1>3, <1>6, <1>9, <2>1 DEF OK, Disputed
<1>13. /\ GraphRows' /\ PlansTyped' /\ PlanRows'
       /\ \A m \in DOMAIN gens : m # n => Respects(m) /\ gens'[m] = gens[m]
       /\ gens'[n] = y /\ DOMAIN gens' = DOMAIN gens
  BY <1>4, <1>6, <1>9, <1>10, <1>11, <1>12, RowsOf
<1>14. \A m \in DOMAIN gens :
         Respects(m) \/ (Owns(proc[p]) /\ m = proc[p].gen /\ Lasts(m))
  BY <1>1, <1>2, <1>4, <1>6, <1>13 DEF Settled, Lasts
<1>15. \A q \in Procs : Owns(r) /\ q # p /\ Owns(proc[q]) => proc[q].gen # r.gen
  BY <1>1, <1>2, <1>5, <1>6, <1>8, IdleOwnsNothing DEF OneOwner
<1>16. GenAt(r)'
  <2>1. CASE r = Idle
    BY <2>1, IdleOwnsNothing, OwnersOnly
  <2>2. CASE r.pc \in {"g:previous", "g:failed"} /\ r.gen = n
    BY <1>4, <1>13, <2>2 DEF GenAt, OpenPC, AlignedPC
  <2> QED
    BY <1>8, <2>1, <2>2
<1>17. ASSUME lone' PROVE LoneRows' /\ LoneAt(r)'
  <2>1. lone /\ LoneAt(c) /\ LoneRows
    BY <1>4, <1>5, <1>17
  <2>2. y.unverified => Excused(n)
    <3>1. gens[n].unverified => Excused(n)
      BY <1>4, <2>1 DEF LoneRows
    <3>2. ASSUME NEW x \in Unsupported(graph, gens[n]) PROVE Excused(n)
      <4>1. x \in Members(gens[n]) /\ ~ HasEvidence(graph, x)
        BY <3>2 DEF Unsupported, Members
      <4>2. Backed(x)
        BY <1>2, <1>3, <2>1, <4>1 DEF LoneAt, OpenPC
      <4> QED
        BY <4>1, <4>2 DEF Excused, Backed
    <3> QED
      BY <1>9, <3>1, <3>2
  <2>3. LoneRows' /\ \A m \in DOMAIN gens : \A x \in said : Kept(x, m) => Kept(x, m)'
    <3>1. /\ gens[n].users \subseteq y.users /\ gens[n].claims \subseteq y.claims
          /\ gens[n].relations \subseteq y.relations
      BY <1>9
    <3> QED
      BY <1>4, <1>9, <1>10, <1>11, <2>1, <2>2, <3>1, LoneRowsOf
  <2>4. \A x \in said' : Kept(x, n)'
    BY <1>2, <1>3, <1>4, <2>1, <2>3 DEF LoneAt, OpenPC
  <2>5. LoneAt(r)'
    <3>1. CASE r = Idle
      BY <3>1, IdleOwnsNothing, OwnersOnly
    <3>2. CASE r.pc \in {"g:previous", "g:failed"} /\ r.gen = n
      BY <2>4, <3>2 DEF LoneAt, OpenPC, Kept
    <3> QED
      BY <1>8, <3>1, <3>2
  <2> QED
    BY <2>3, <2>5
<1>18. GraphInv /\ Acts(p) /\ proc'[p] = r /\ UNCHANGED chunkVars /\ Grows(graph, graph')
  BY <1>4, <1>8, <1>10
<1>19. lone' => LoneRows' /\ LoneAt(r)'
  BY <1>17
<1> QED
  BY ONLY <1>13, <1>14, <1>15, <1>16, <1>18, <1>19, p \in Procs, GraphGoes

\* A build that reads what is active, or throws, writes nothing.
LEMMA ReadKeepsGraph ==
    ASSUME GraphInv, NEW p \in Procs, ReadPrevious(p) \/ BuildThrows(p), UNCHANGED planVars
    PROVE  GraphInv' /\ Lasting
<1>1. PICK c : c = proc[p]
  OBVIOUS
<1>2. /\ GraphStep(p) /\ UNCHANGED <<graph, gens, served, plans, moderated, said>>
      /\ c.pc \in GraphPC \cup {"topics"} /\ (c.pc = "topics" => c.gen # 0 /\ c.then = "idle")
  BY <1>1 DEF GraphStep, ReadPrevious, BuildThrows, graphVars, planVars, Throw, GraphPCs, GraphPC, At
<1>3. GraphMoves(p) /\ DOMAIN proc = Procs /\ Shape(c)
  BY <1>1, <1>2, GraphActs DEF GraphInv, WorkInv
<1>4. GraphShape(c) /\ Acts(p) /\ UNCHANGED chunkVars
  BY <1>2, <1>3, ShapeOf DEF GraphMoves, AfterShape, VectorRefreshShape, Has, RefreshPC
<1>5. Owns(c) /\ GenAt(c) /\ (lone' => lone) /\ (lone => LoneAt(c)) /\ GraphRows
  BY <1>1, <1>2, <1>4, ActsDo, GraphInvOf DEF Owns, GraphShape, Has
<1>6. PICK r : /\ Set(p, r)
               /\ \/ r = [c EXCEPT !.pc = "g:failed"]
                  \/ /\ c.pc = "g:previous" /\ gens[c.gen].state \in Activatable
                     /\ r = [c EXCEPT !.pc = "g:switch", !.prev = served]
  BY <1>1 DEF ReadPrevious, BuildThrows, Throw, Goto, Gen, At
<1>7. /\ proc'[p] = r /\ r.gen = c.gen
      /\ \/ r.pc = "g:failed"
         \/ /\ r.pc = "g:switch" /\ r.prev = served
            /\ c.pc = "g:previous" /\ gens[c.gen].state \in Activatable
  BY <1>1, <1>3, <1>4, <1>6 DEF Set, GraphShape, Has
<1>8. r.pc \notin OpenPC \cup AlignedPC /\ r.pc \notin {"g:previous", "g:extract", "g:model", "g:succeed", "g:mark"}
  BY <1>7 DEF OpenPC, AlignedPC
<1>9. served # 0 => Settled(served)
  BY <1>5 DEF GraphRows, Settled, Activatable
<1>10. GenAt(r)
  BY <1>5, <1>7, <1>8, <1>9 DEF GenAt
<1>11. lone' => LoneAt(r)
  BY <1>5, <1>7, <1>8 DEF LoneAt
<1>12. Owns(r) => Owns(proc[p]) /\ r.gen = proc[p].gen
  BY <1>1, <1>5, <1>7
<1>13. UNCHANGED <<chunkVars, graph, gens, served, plans, moderated, said>>
  BY <1>2, <1>4
<1> QED
  BY <1>4, <1>7, <1>10, <1>11, <1>12, <1>13, GraphStands

\* A Generation is served, and the one before is superseded.
LEMMA SwitchRows ==
    ASSUME GraphInv, UNCHANGED <<chunkVars, graph, plans, moderated>>,
           NEW n \in DOMAIN gens, gens[n].state \in Activatable, NEW v, v # 0 => Settled(v),
           gens' = Switched(v, n), served' = n, said' \subseteq said
    PROVE  /\ GraphRows' /\ PlansTyped' /\ PlanRows' /\ Grows(graph, graph')
           /\ \A m \in DOMAIN gens : Respects(m)
           /\ DOMAIN gens' = DOMAIN gens
           /\ \A m \in DOMAIN gens :
                /\ gens'[m].users = gens[m].users /\ gens'[m].claims = gens[m].claims
                /\ gens'[m].relations = gens[m].relations /\ gens'[m].unverified = gens[m].unverified
           /\ lone /\ LoneRows => \A m \in DOMAIN gens' : gens'[m].unverified => Excused(m)'
<1>1. /\ GraphRows /\ PlansTyped /\ PlanRows /\ UNCHANGED <<chunk, back, graph, plans, moderated>>
      /\ Known' = Known
  BY DEF GraphInv, chunkVars, Known
<1>2. /\ DOMAIN gens = 1 .. Len(gens) /\ Len(gens) \in Nat
      /\ \A m \in DOMAIN gens : gens[m] \in Generation
  BY <1>1, GensTyped
<1>3. DOMAIN gens' = DOMAIN gens /\ \A m \in DOMAIN gens :
        gens'[m] = IF m = n THEN [gens[m] EXCEPT !.state = "active"]
                   ELSE IF m = v THEN [gens[m] EXCEPT !.state = "superseded"] ELSE gens[m]
  BY DEF Switched
<1>4. ASSUME NEW m \in DOMAIN gens
      PROVE  /\ gens'[m] \in Generation
             /\ gens'[m].users = gens[m].users /\ gens'[m].claims = gens[m].claims
             /\ gens'[m].relations = gens[m].relations /\ gens'[m].unverified = gens[m].unverified
             /\ gens'[m].state = IF m = n THEN "active" ELSE IF m = v THEN "superseded" ELSE gens[m].state
  BY <1>2, <1>3 DEF Generation, GenStates
<1>5. gens' \in Seq(Generation)
  <2>1. gens' = [m \in 1 .. Len(gens) |-> gens'[m]]
    BY <1>2, <1>3 DEF Switched
  <2> QED
    BY <1>2, <1>3, <1>4, <2>1
<1>6. v \in DOMAIN gens => gens[v].state # "building" /\ OK(v)
  <2> SUFFICES ASSUME v \in DOMAIN gens PROVE Settled(v)
    BY DEF Settled
  <2>1. v # 0
    BY <1>2
  <2> QED
    BY <2>1
<1>7. \A m \in DOMAIN gens : OK(m) => OK(m)'
  BY <1>1, <1>4 DEF OK, Disputed
<1>8. GraphRows'
  <2>1. ASSUME NEW m \in DOMAIN gens', gens'[m].state \in Activatable PROVE OK(m)'
    <3>1. m \in DOMAIN gens /\ (m = n \/ m = v \/ gens[m].state \in Activatable)
      BY <1>3, <1>4, <2>1
    <3>2. OK(m)
      BY <1>1, <1>6, <3>1 DEF GraphRows
    <3> QED
      BY <1>7, <3>1, <3>2
  <2> QED
    BY <1>1, <1>3, <1>4, <1>5, <2>1 DEF GraphRows
<1>9. n # 0
  BY <1>2
<1>10. PlansTyped' /\ PlanRows'
  BY <1>1, <1>3, <1>9 DEF PlansTyped, PlanRows
<1>11. \A m \in DOMAIN gens : Respects(m)
  BY <1>3, <1>4, <1>6 DEF Respects, Activatable
<1>12. Grows(graph, graph')
  BY <1>1, NothingGrows DEF Steady
<1>13. lone /\ LoneRows => \A m \in DOMAIN gens' : gens'[m].unverified => Excused(m)'
  BY <1>1, <1>3, <1>4 DEF LoneRows, Excused, Excusable, Members, Returned
<1> QED
  BY <1>3, <1>4, <1>8, <1>10, <1>11, <1>12, <1>13

LEMMA SwitchKeepsGraph ==
    ASSUME GraphInv, NEW p \in Procs, SwitchPointer(p), UNCHANGED planVars
    PROVE  GraphInv' /\ Lasting
<1>1. PICK c : c = proc[p]
  OBVIOUS
<1>2. PICK n : n = c.gen
  OBVIOUS
<1>3. PICK v : v = c.prev
  OBVIOUS
<1>4. /\ c.pc = "g:switch" /\ UNCHANGED <<graph, plans, moderated, said>> /\ GraphStep(p)
      /\ gens' = Switched(v, n) /\ served' = n /\ Goto(p, "topics")
  BY <1>1, <1>2, <1>3 DEF SwitchPointer, At, planVars, GraphStep
<1>5. GraphMoves(p) /\ DOMAIN proc = Procs /\ Shape(c) /\ c.pc \in GraphPC
  BY <1>1, <1>4, GraphActs DEF GraphInv, WorkInv, GraphPC
<1>6. GraphShape(c) /\ Acts(p) /\ UNCHANGED chunkVars
  BY <1>5, ShapeOf DEF GraphMoves
<1>7. /\ Owns(c) /\ GenAt(c) /\ (lone' => lone) /\ (lone => LoneAt(c) /\ LoneRows)
      /\ GraphRows /\ PlanRows /\ OneOwner
  BY <1>1, <1>5, <1>6, ActsDo, GraphInvOf DEF Owns
<1>8. n \in DOMAIN gens /\ gens[n].state \in Activatable /\ (v # 0 => Settled(v)) /\ OK(n)
  BY <1>2, <1>3, <1>4, <1>7 DEF GenAt, GraphRows
<1>9. PICK r : r = [c EXCEPT !.pc = "topics"]
  OBVIOUS
<1>10. proc'[p] = r /\ r.pc = "topics" /\ r.gen = n
  BY <1>1, <1>2, <1>4, <1>5, <1>6, <1>9 DEF Goto, Set, GraphShape, Has
<1>11. /\ GraphRows' /\ PlansTyped' /\ PlanRows' /\ Grows(graph, graph')
       /\ \A m \in DOMAIN gens : Respects(m)
       /\ DOMAIN gens' = DOMAIN gens
       /\ \A m \in DOMAIN gens :
            /\ gens'[m].users = gens[m].users /\ gens'[m].claims = gens[m].claims
            /\ gens'[m].relations = gens[m].relations /\ gens'[m].unverified = gens[m].unverified
       /\ lone /\ LoneRows => \A m \in DOMAIN gens' : gens'[m].unverified => Excused(m)'
  BY <1>4, <1>6, <1>8, SwitchRows
<1>12. \A q \in Procs : Owns(r) /\ q # p /\ Owns(proc[q]) => proc[q].gen # r.gen
  BY <1>1, <1>2, <1>7, <1>10 DEF OneOwner
<1>13. r.pc \notin OpenPC \cup AlignedPC /\ r.pc \notin {"g:previous", "g:switch", "g:extract", "g:model", "g:succeed", "g:mark"}
  BY <1>10 DEF OpenPC, AlignedPC
<1>14. GenAt(r)' /\ LoneAt(r)'
  BY <1>8, <1>10, <1>11, <1>13 DEF GenAt, LoneAt
<1>15. lone' => LoneRows' /\ LoneAt(r)'
  <2> SUFFICES ASSUME lone', NEW x \in said' PROVE Kept(x, served)'
    BY <1>7, <1>11, <1>14 DEF LoneRows
  <2>1. Kept(x, n)
    BY <1>2, <1>4, <1>7 DEF LoneAt
  <2> QED
    BY <1>4, <1>8, <1>11, <2>1 DEF Kept
<1>16. \A m \in DOMAIN gens :
         Respects(m) \/ (Owns(proc[p]) /\ m = proc[p].gen /\ Lasts(m))
  BY <1>11
<1> QED
  BY <1>6, <1>10, <1>11, <1>12, <1>14, <1>15, <1>16, GraphGoes

LEMMA FailKeepsGraph ==
    ASSUME GraphInv, NEW p \in Procs, BuildFails(p), UNCHANGED planVars
    PROVE  GraphInv' /\ Lasting
<1>1. PICK c : c = proc[p]
  OBVIOUS
<1>2. PICK n : n = c.gen
  OBVIOUS
<1>3. PICK y : y = FailUnlessReady(gens[n])
  OBVIOUS
<1>4. /\ c.pc = "g:failed" /\ UNCHANGED <<graph, served, plans, moderated, said>> /\ GraphStep(p)
      /\ gens' = [gens EXCEPT ![n] = y] /\ Set(p, Idle)
  BY <1>1, <1>2, <1>3 DEF BuildFails, At, planVars, GraphStep
<1>5. GraphMoves(p) /\ DOMAIN proc = Procs /\ Shape(c) /\ c.pc \in GraphPC
  BY <1>1, <1>4, GraphActs DEF GraphInv, WorkInv, GraphPC
<1>6. Acts(p) /\ UNCHANGED chunkVars /\ proc'[p] = Idle
  BY <1>4, <1>5 DEF GraphMoves, Set
<1>7. /\ Owns(c) /\ GenAt(c) /\ (lone' => lone) /\ (lone => LoneRows) /\ GraphRows
  BY <1>1, <1>5, <1>6, ActsDo, GraphInvOf DEF Owns
<1>8. n \in DOMAIN gens /\ gens[n] \in Generation
  BY <1>2, <1>7, GensTyped DEF GenAt
<1>9. /\ y \in Generation
      /\ y.users = gens[n].users /\ y.claims = gens[n].claims /\ y.relations = gens[n].relations
      /\ y.unverified = gens[n].unverified
      /\ y.state = IF gens[n].state \in {"active", "ready"} THEN gens[n].state ELSE "failed"
  BY <1>3, <1>8 DEF Generation, FailUnlessReady, GenStates
<1>10. Grows(graph, graph')
  BY <1>4, <1>7, NothingGrows DEF Steady
<1>11. gens'[n] = y /\ gens'[n].claims = gens[n].claims /\ (OK(n) => OK(n)')
  <2>1. gens'[n] = y
    BY <1>4, <1>7, <1>8 DEF GraphRows
  <2> QED
    BY <1>4, <1>9, <2>1 DEF OK, Disputed
<1>12. (served = n => y.state = "active") /\ (y.state \in Activatable => OK(n)')
  BY <1>7, <1>8, <1>9, <1>11 DEF GraphRows, Activatable
<1>13. UNCHANGED <<chunkVars, served, plans, moderated, said>>
  BY <1>4, <1>6
<1>14. /\ GraphRows' /\ PlansTyped' /\ PlanRows'
       /\ \A m \in DOMAIN gens : m # n => Respects(m) /\ gens'[m] = gens[m]
       /\ DOMAIN gens' = DOMAIN gens
  BY <1>4, <1>8, <1>9, <1>10, <1>12, <1>13, RowsOf
<1>15. Lasts(n)
  BY <1>8, <1>9, <1>11, <1>14 DEF Settled, Lasts
<1>16. \A m \in DOMAIN gens :
         Respects(m) \/ (Owns(proc[p]) /\ m = proc[p].gen /\ Lasts(m))
  BY <1>1, <1>2, <1>7, <1>14, <1>15
<1>17. lone' => LoneRows'
  <2> SUFFICES ASSUME lone PROVE LoneRows'
    BY <1>7
  <2>1. y.unverified => Excused(n)
    BY <1>7, <1>8, <1>9 DEF LoneRows
  <2>2. /\ gens[n].users \subseteq y.users /\ gens[n].claims \subseteq y.claims
        /\ gens[n].relations \subseteq y.relations
    BY <1>9
  <2> QED
    BY <1>4, <1>8, <1>9, <1>10, <1>13, <2>1, <2>2, LoneRowsOf
<1> QED
  BY <1>6, <1>10, <1>14, <1>16, <1>17, IdleOwnsNothing, OwnersOnly, GraphGoes

\* A new Generation carries what the served one has that lasts.
LEMMA CreateKeepsGraph ==
    ASSUME GraphInv, NEW p \in Procs, NEW model, NEW space, NEW activate,
           NEW r, r = NewBuild(model, space, activate), Acts(p), proc'[p] = r, CreateGeneration,
           UNCHANGED <<chunkVars, graph, served, plans, moderated, said>>
    PROVE  GraphInv' /\ Lasting
<1>1. PICK n : n = Len(gens) + 1
  OBVIOUS
<1>2. /\ GraphRows /\ PlansTyped /\ PlanRows /\ OneOwner /\ (lone => LoneRows) /\ IsGraph(graph)
      /\ UNCHANGED <<chunk, back, graph, served, plans, moderated, said>>
      /\ Known' = Known /\ ActiveChunks' = ActiveChunks
  BY GraphInvOf DEF chunkVars, Known, ActiveChunks
<1>3. /\ r.gen = n /\ r.todo = {} /\ r.pc = IF served = 0 THEN "g:project" ELSE "g:mark"
  BY <1>1 DEF NewBuild
<1>4. /\ DOMAIN gens = 1 .. Len(gens) /\ Len(gens) \in Nat /\ gens \in Seq(Generation)
      /\ \A m \in DOMAIN gens : gens[m] \in Generation
  BY <1>2, GensTyped DEF GraphRows
<1>5. PICK y : /\ gens' = Append(gens, y)
               /\ y = IF served = 0 THEN NewGeneration(served)
                      ELSE CarryForward(graph, ActiveChunks, gens[served], NewGeneration(served))
  BY DEF CreateGeneration
<1>6. served # 0 => /\ served \in DOMAIN gens /\ gens[served] \in Generation /\ OK(served)
                    /\ gens[served].claims \subseteq Claims /\ gens[served].users \subseteq Users
                  /\ gens[served].relations \subseteq Relations
  BY <1>2, <1>4 DEF GraphRows, Activatable, Generation
<1>7. PICK C : C = IF served = 0 THEN {} ELSE CarriedClaims(graph, ActiveChunks, gens[served].claims)
  OBVIOUS
<1>21. PICK R : R = IF served = 0 THEN {}
                    ELSE CarriedRelations(graph, ActiveChunks, gens[served].relations)
  OBVIOUS
<1>22. /\ R \subseteq Relations /\ R \cap Links = {}
       /\ served # 0 => \A x \in gens[served].relations \ Links : graph.relations[x] = "rejected" => x \in R
       /\ \A x \in R : \/ graph.relations[x] = "rejected"
                       \/ \E k \in ActiveChunks : <<x, k>> \in graph.supports.active
  BY <1>6, <1>21, GraphAssumption DEF CarriedRelations, Relations
<1>8. /\ C \subseteq Claims
      /\ served # 0 => /\ C \subseteq gens[served].claims
                       /\ \A x \in gens[served].claims : graph.claims[x] \in Decided => x \in C
      /\ \A x \in C : \/ graph.claims[x] \in Decided
                      \/ \E k \in ActiveChunks : <<x, k>> \in graph.supports.active
  BY <1>6, <1>7 DEF CarriedClaims, Decided
<1>9. /\ y \in Generation /\ y.state = "building" /\ y.claims = C /\ y.relations = R
      /\ y.unverified = FALSE /\ y.users = IF served = 0 THEN {} ELSE gens[served].users
  <2>1. served \in Nat
    BY <1>4, <1>6
  <2>2. CASE served = 0
    BY <1>5, <1>7, <1>21, <2>1, <2>2 DEF NewGeneration, Generation, GenStates
  <2>3. CASE served # 0
    <3>1. y = [state |-> "building", parent |-> served, claims |-> C, relations |-> R,
               users |-> gens[served].users, nodes |-> {}, unverified |-> FALSE]
      BY <1>5, <1>7, <1>21, <2>3 DEF CarryForward, NewGeneration
    <3> QED
      BY <1>6, <1>8, <1>22, <2>1, <2>3, <3>1 DEF Generation, GenStates
  <2> QED
    BY <2>2, <2>3
<1>10. /\ DOMAIN gens' = DOMAIN gens \cup {n} /\ n \notin DOMAIN gens /\ gens'[n] = y
       /\ gens' \in Seq(Generation) /\ \A m \in DOMAIN gens : gens'[m] = gens[m]
  BY <1>1, <1>4, <1>5, <1>9
<1>11. OK(n)'
  <2>1. ASSUME NEW c \in C, NEW d \in C, Contradicts(c, d) PROVE Disputed(graph, c)
    <3>1. served # 0 /\ c \in gens[served].claims /\ d \in gens[served].claims
      BY <1>7, <1>8
    <3> QED
      BY <1>6, <2>1, <3>1 DEF OK
  <2> QED
    BY <1>2, <1>9, <1>10, <2>1 DEF OK, Disputed, Contradicts
<1>12. \A m \in DOMAIN gens : Respects(m)
  BY <1>10 DEF Respects
<1>13. \A m \in DOMAIN gens : OK(m) => OK(m)'
  BY <1>2, <1>10 DEF OK, Disputed
<1>14. GraphRows'
  <2>1. \A m \in DOMAIN gens' : gens'[m].state \in Activatable => OK(m)'
    BY <1>2, <1>9, <1>10, <1>13 DEF GraphRows, Activatable
  <2> QED
    BY <1>2, <1>10, <2>1 DEF GraphRows
<1>15. PlansTyped' /\ PlanRows'
  BY <1>2, <1>10 DEF PlansTyped, PlanRows
<1>16. Grows(graph, graph')
  BY <1>2, NothingGrows DEF Steady
<1>17. \A q \in Procs : Owns(r) /\ q # p /\ Owns(proc[q]) => proc[q].gen # r.gen
  BY <1>3, <1>10, GraphInvOf DEF GenAt
<1>18. GenAt(r)'
  BY <1>3, <1>9, <1>10, <1>11 DEF GenAt
<1>19. ASSUME lone' PROVE LoneRows' /\ LoneAt(r)'
  <2>1. lone /\ LoneRows
    BY <1>2, <1>19, ActsDo DEF GraphInv
  <2>2. ASSUME NEW x \in said' PROVE Kept(x, served)' /\ Kept(x, n)'
    <3>1. Kept(x, served) /\ served # 0 /\ x \notin Links
      BY <1>2, <2>1, <2>2, GraphAssumption, EntitiesAssumption DEF LoneRows, PlanRows, Relations
    <3>2. served \in DOMAIN gens /\ gens'[served] = gens[served]
      BY <1>6, <1>10, <3>1
    <3>3. Kept(x, n)'
      BY <1>2, <1>8, <1>9, <1>10, <1>22, <3>1 DEF Kept
    <3> QED
      BY <1>2, <3>1, <3>2, <3>3 DEF Kept
  <2>3. ASSUME NEW m \in DOMAIN gens', gens'[m].unverified PROVE Excused(m)'
    <3>1. m \in DOMAIN gens /\ gens'[m] = gens[m]
      BY <1>9, <1>10, <2>3
    <3>2. Excused(m)
      BY <2>1, <2>3, <3>1 DEF LoneRows
    <3> QED
      BY <1>2, <3>1, <3>2 DEF Excused, Excusable, Members, Returned
  <2>4. r.pc = "g:mark" => \A x \in C \cup R :
          x \in Excusable \/ \E k \in ActiveChunks : <<x, k>> \in graph.supports.active
    <3>1. C \cap Links = {}
      BY <1>8, GraphAssumption DEF Relations
    <3> QED
      BY <1>2, <1>8, <1>22, <3>1 DEF PlanRows, Excusable
  <2>5. r.pc # "g:mark" => C = {} /\ R = {}
    BY <1>3, <1>7, <1>21
  <2>6. r.pc \in {"g:mark", "g:project"}
    BY <1>3
  <2>7. LoneAt(r)'
    BY <1>2, <1>3, <1>9, <1>10, <2>2, <2>4, <2>5, <2>6 DEF LoneAt, Kept, Members, Excusable
  <2> QED
    BY <2>2, <2>3, <2>7 DEF LoneRows
<1>20. GraphInv /\ Acts(p) /\ proc'[p] = r /\ UNCHANGED chunkVars
       /\ (lone' => LoneRows' /\ LoneAt(r)')
       /\ \A m \in DOMAIN gens :
             Respects(m) \/ (Owns(proc[p]) /\ m = proc[p].gen /\ Lasts(m))
  BY <1>12, <1>19
<1> QED
  BY ONLY <1>14, <1>15, <1>16, <1>17, <1>18, <1>20, p \in Procs, GraphGoes

LEMMA StartKeepsGraph ==
    ASSUME GraphInv, NEW p \in Procs, StartGraphBuild(p) \/ RefreshGraph(p), UNCHANGED planVars
    PROVE  GraphInv' /\ Lasting
<1>1. /\ GraphStep(p) /\ UNCHANGED <<graph, served, plans, moderated, said>>
  BY DEF GraphStep, StartGraphBuild, RefreshGraph, planVars
<1>2. Acts(p) /\ UNCHANGED chunkVars /\ DOMAIN proc = Procs
  BY <1>1, GraphActs DEF GraphInv, WorkInv, GraphMoves
<1>3. CASE \E m, s, a : Set(p, NewBuild(m, s, a)) /\ CreateGeneration
  <2>1. PICK m, s, a : Set(p, NewBuild(m, s, a)) /\ CreateGeneration
    BY <1>3
  <2>2. PICK r : r = NewBuild(m, s, a)
    OBVIOUS
  <2>3. proc'[p] = r
    BY <1>2, <2>1, <2>2 DEF Set
  <2>4. UNCHANGED <<chunkVars, graph, served, plans, moderated, said>>
    BY <1>1, <1>2
  <2> QED
    BY <1>2, <2>1, <2>2, <2>3, <2>4, CreateKeepsGraph
<1>4. CASE Set(p, Idle) /\ UNCHANGED gens
  <2>1. proc'[p] = Idle
    BY <1>2, <1>4 DEF Set
  <2>2. UNCHANGED <<chunkVars, graph, gens, served, plans, moderated, said>>
    BY <1>1, <1>2, <1>4
  <2> QED
    BY <1>2, <2>1, <2>2, IdleOwnsNothing, OwnersOnly, GraphStands
<1> QED
  <2>1. CASE StartGraphBuild(p)
    BY <1>3, <2>1 DEF StartGraphBuild, Start, Begin, Launch
  <2>2. CASE RefreshGraph(p)
    BY <1>3, <1>4, <2>2 DEF RefreshGraph
  <2> QED
    BY <2>1, <2>2

LEMMA GraphStepKeeps ==
    ASSUME GraphInv, NEW p \in Procs, GraphStep(p), UNCHANGED planVars
    PROVE  GraphInv' /\ Lasting
BY StartKeepsGraph, MarkKeepsGraph, ProjectKeepsGraph, ListKeepsGraph, NextChunkKeepsGraph,
   AnswerKeepsGraph, ExtractionKeepsGraph, AlignKeepsGraph, FinalizeKeepsGraph, ReadKeepsGraph,
   SwitchKeepsGraph, FailKeepsGraph DEF GraphStep

\* A plan adds what the user asserts to the Generation that is served, or serves
\* another one.
LEMMA ApplyKeepsGraph ==
    ASSUME GraphInv, NEW p \in Procs, ApplyPlan(p)
    PROVE  GraphInv' /\ Lasting
<1>1. PICK r : r = [pc |-> "topics", gen |-> 0, then |-> "idle"]
  OBVIOUS
<1>2. /\ Acts(p) /\ UNCHANGED chunkVars /\ proc'[p] = r /\ UNCHANGED <<graph, plans, moderated>>
  BY <1>1, PlanActs DEF GraphInv, ApplyPlan
<1>3. ~ Owns(r)
  BY <1>1 DEF Owns, GraphPC
<1>4. GenAt(r) /\ LoneAt(r) /\ GenAt(r)' /\ LoneAt(r)'
  BY <1>3, OwnersOnly
<1>5. /\ GraphRows /\ PlansTyped /\ PlanRows /\ (lone => LoneRows) /\ (lone' => lone) /\ IsGraph(graph)
      /\ UNCHANGED <<chunk, back, graph, plans, moderated>> /\ Known' = Known
  BY <1>2, ActsDo, GraphInvOf DEF chunkVars, Known
<1>6. PICK x \in plans :
        CASE x.do.action = "merge"    -> ApplyMerge(x.do, x.before)
          [] x.do.action = "entity"   -> ApplyEntity(x.do)
          [] x.do.action = "relation" -> ApplyRelation(x.do, x.before)
          [] x.do.action = "activate" -> ApplyActivation(x.do, x.before)
  BY DEF ApplyPlan
<1>7. x.do.action \in {"merge", "entity", "relation", "activate"}
  BY <1>5 DEF PlansTyped
<1>8. CASE x.do.action \in {"merge", "entity"}
  <2>1. UNCHANGED <<gens, served, said>>
    BY <1>6, <1>8 DEF ApplyMerge, ApplyEntity
  <2>2. UNCHANGED <<chunkVars, graph, gens, served, plans, moderated, said>>
    BY <1>2, <2>1
  <2> QED
    BY <1>2, <1>3, <1>4, <2>2, GraphStands
<1>9. CASE x.do.action = "relation"
  <2>1. PICK u : u = x.do.user
    OBVIOUS
  <2>2. /\ served # 0 /\ gens' = [gens EXCEPT ![served].users = @ \cup {u}]
        /\ said' = said \cup {u} /\ served' = served /\ u \in Users
    BY <1>5, <1>6, <1>9, <2>1 DEF ApplyRelation, PlanRows
  <2>3. /\ served \in DOMAIN gens /\ gens[served] \in Generation /\ gens \in Seq(Generation)
        /\ gens[served].state = "active" /\ OK(served)
    BY <1>5, <2>2, GensTyped DEF GraphRows, Activatable
  <2>4. PICK y : y = [gens[served] EXCEPT !.users = gens[served].users \cup {u}]
    OBVIOUS
  <2>5. /\ y \in Generation /\ y.users = gens[served].users \cup {u}
        /\ y.claims = gens[served].claims /\ y.relations = gens[served].relations /\ y.state = "active"
        /\ y.unverified = gens[served].unverified
    BY <2>2, <2>3, <2>4 DEF Generation
  <2>6. /\ gens' \in Seq(Generation) /\ DOMAIN gens' = DOMAIN gens
        /\ gens'[served] = y /\ \A m \in DOMAIN gens : m # served => gens'[m] = gens[m]
    BY <2>2, <2>3, <2>4, <2>5
  <2>7. \A m \in DOMAIN gens : /\ gens'[m].state = gens[m].state /\ gens'[m].claims = gens[m].claims
                               /\ gens'[m].relations = gens[m].relations /\ gens[m].users \subseteq gens'[m].users
                               /\ gens'[m].unverified = gens[m].unverified
    BY <2>3, <2>5, <2>6
  <2>8. \A m \in DOMAIN gens : OK(m) => OK(m)'
    BY <1>5, <2>7 DEF OK, Disputed
  <2>9. GraphRows'
    BY <1>5, <2>2, <2>6, <2>7, <2>8 DEF GraphRows
  <2>10. PlansTyped' /\ PlanRows'
    BY <1>5, <2>2, <2>6 DEF PlansTyped, PlanRows
  <2>11. \A m \in DOMAIN gens : Respects(m)
    BY <2>6, <2>7 DEF Respects
  <2>12. Grows(graph, graph')
    BY <1>5, NothingGrows DEF Steady
  <2>13. ASSUME lone' PROVE LoneRows'
    <3>1. ASSUME NEW z \in said' PROVE Kept(z, served)'
      <4>1. CASE z = u
        BY <2>2, <2>5, <2>6, <4>1, EntitiesAssumption DEF Kept
      <4>2. CASE z # u
        <5>1. Kept(z, served)
          BY <1>5, <2>2, <2>13, <3>1, <4>2 DEF LoneRows
        <5> QED
          BY <1>5, <2>2, <2>5, <2>6, <5>1 DEF Kept
      <4> QED
        BY <4>1, <4>2
    <3>2. ASSUME NEW m \in DOMAIN gens', gens'[m].unverified PROVE Excused(m)'
      BY <1>5, <2>6, <2>7, <2>13, <3>2 DEF LoneRows, Excused, Excusable, Members, Returned
    <3> QED
      BY <3>1, <3>2 DEF LoneRows
  <2> QED
    BY <1>2, <1>3, <1>4, <2>9, <2>10, <2>11, <2>12, <2>13, GraphGoes
<1>10. CASE x.do.action = "activate"
  <2>1. PICK n : n = x.do.gen
    OBVIOUS
  <2>2. /\ gens' = Switched(served, n) /\ served' = n
        /\ said' = said \cap UNION {gens[n].claims, gens[n].relations, gens[n].users}
        /\ n \in DOMAIN gens /\ gens[n].state \in Activatable
    BY <1>5, <1>6, <1>10, <2>1 DEF ApplyActivation, PlanRows
  <2>3. served # 0 => Settled(served)
    BY <1>5 DEF GraphRows, Settled, Activatable
  <2>4. said' \subseteq said /\ UNCHANGED <<chunkVars, graph, plans, moderated>>
    BY <1>2, <2>2
  <2>5. /\ GraphRows' /\ PlansTyped' /\ PlanRows' /\ Grows(graph, graph')
        /\ \A m \in DOMAIN gens : Respects(m)
        /\ DOMAIN gens' = DOMAIN gens
        /\ \A m \in DOMAIN gens :
             /\ gens'[m].users = gens[m].users /\ gens'[m].claims = gens[m].claims
             /\ gens'[m].relations = gens[m].relations /\ gens'[m].unverified = gens[m].unverified
        /\ lone /\ LoneRows => \A m \in DOMAIN gens' : gens'[m].unverified => Excused(m)'
    BY <2>2, <2>3, <2>4, SwitchRows
  <2>6. lone' => LoneRows'
    <3> SUFFICES ASSUME lone', NEW z \in said' PROVE Kept(z, served)'
      BY <1>5, <2>5 DEF LoneRows
    <3>1. /\ gens[n].claims \subseteq Claims /\ gens[n].users \subseteq Users
          /\ gens[n].relations \subseteq Relations
      BY <1>5, <2>2, GensTyped
    <3>2. /\ z \in Users => z \in gens[n].users
          /\ z \in Claims => z \in gens[n].claims
          /\ z \in Relations => z \in gens[n].relations
      BY <2>2, <3>1, EntitiesAssumption, GraphAssumption
    <3> QED
      BY <2>2, <2>5, <3>2 DEF Kept
  <2> QED
    BY <1>2, <1>3, <1>4, <2>5, <2>6, GraphGoes
<1> QED
  BY <1>7, <1>8, <1>9, <1>10

\* A step of no process that leaves the tables alone.
LEMMA GraphOutside ==
    ASSUME GraphInv, Outside, UNCHANGED <<chunkVars, graph, gens, served, moderated, said>>,
           PlansTyped', PlanRows'
    PROVE  GraphInv' /\ Lasting
<1>1. /\ WorkInv' /\ (lone' => lone)
      /\ UNCHANGED <<proc, chunk, back, emptied, graph, gens, served, moderated, said>>
  BY OutsideKeeps DEF GraphInv, Outside, chunkVars
<1>2. KnowledgeInv' /\ GraphRows' /\ OneOwner'
  BY <1>1 DEF GraphInv, KnowledgeInv, Known, ActiveChunks, GraphRows, OK, Disputed, OneOwner, Owns
<1>3. \A p \in Procs : GenAt(proc[p])'
  BY <1>1 DEF GraphInv, GenAt, Owns, Settled, OK, Disputed, Known
<1>4. lone' => LoneRows'
  BY <1>1 DEF GraphInv, LoneRows, Kept, Excused, Excusable, Members, Returned
<1>5. lone' => \A p \in Procs : LoneAt(proc[p])'
  BY <1>1 DEF GraphInv, LoneAt, Kept, Backed, Excusable, Members, Returned, HasEvidence, ActiveChunks
<1>6. Lasting
  BY <1>1, NothingLasts DEF GraphInv
<1> QED
  BY <1>1, <1>2, <1>3, <1>4, <1>5, <1>6 DEF GraphInv

LEMMA PlanKeepsGraph ==
    ASSUME GraphInv, CreatePlan
    PROVE  GraphInv' /\ Lasting
<1>1. /\ Outside /\ UNCHANGED <<chunkVars, graph, gens, served, moderated, said>>
  BY AtomicActs DEF GraphInv, CreatePlan, graphVars
<1>2. PICK plan, before :
        /\ plans' = plans \cup {[do |-> plan, before |-> before]}
        /\ plan.action \in {"merge", "entity", "relation", "activate"}
        /\ plan.action = "merge" => plan.source \in Entities /\ plan.target \in Entities
        /\ plan.action = "relation" => plan.user \in Users
        /\ plan.action = "activate" =>
             /\ plan.gen \in DOMAIN gens /\ gens[plan.gen].state \in Activatable
             /\ before = [state |-> gens[plan.gen].state]
  BY DEF CreatePlan
<1>3. PlansTyped' /\ PlanRows'
  BY <1>1, <1>2 DEF GraphInv, PlansTyped, PlanRows
<1> QED
  BY <1>1, <1>3, GraphOutside

\* What a moderation of a claim does to the tables.
LEMMA ModerationDoes ==
    ASSUME IsGraph(graph), NEW c \in Claims, ModerateClaim(c)
    PROVE  /\ IsGraph(graph') /\ graph'.supports = graph.supports /\ graph'.conflicts = graph.conflicts
           /\ graph'.relations = graph.relations /\ graph'.claims[c] \in Decided
           /\ \A d \in Claims : d # c => graph'.claims[d] = graph.claims[d]
<1>1. PICK status \in Decided : graph' = Recalculate([graph EXCEPT !.claims[c] = status], {c})
  BY DEF ModerateClaim, Decided
<1>2. PICK g : g = [graph EXCEPT !.claims[c] = status]
  OBVIOUS
<1>3. PICK h : h = Recalculate(g, {c})
  OBVIOUS
<1>4. /\ DOMAIN g = {"claims", "level", "supports", "relations", "conflicts", "runs", "nodes"}
      /\ g.claims = [graph.claims EXCEPT ![c] = status]
      /\ g.supports = graph.supports /\ g.conflicts = graph.conflicts
      /\ g.relations = graph.relations /\ g.level = graph.level /\ g.runs = graph.runs
  BY <1>2 DEF IsGraph
<1>5. /\ g.claims \in [Claims -> Statuses] /\ g.claims[c] = status
      /\ g.level \in [Claims -> {"assessed", "disputed"}]
      /\ \A d \in Claims : d # c => g.claims[d] = graph.claims[d]
  BY <1>4 DEF IsGraph, Statuses, Decided
<1>6. /\ DOMAIN h = DOMAIN g /\ h.supports = g.supports /\ h.conflicts = g.conflicts
      /\ h.relations = g.relations /\ h.runs = g.runs
      /\ h.level \in [Claims -> {"assessed", "disputed"}]
      /\ \A d \in Claims : /\ d \notin {c} => h.level[d] = g.level[d]
                           /\ d \in {c} /\ Disputed(g, d) => h.level[d] = "disputed"
      /\ h.claims \in [Claims -> Statuses]
      /\ \A d \in Claims :
           h.claims[d] = IF d \in {c} /\ Disputed(g, d) /\ g.claims[d] \notin Decided THEN "disputed"
                         ELSE IF d \in {c} /\ ~ Disputed(g, d) /\ g.claims[d] = "disputed" THEN "proposed"
                         ELSE g.claims[d]
      /\ \A d : Disputed(h, d) = Disputed(g, d)
  BY ONLY <1>3, <1>4, <1>5, RecalculateDoes
<1>7. h.claims[c] = status /\ \A d \in Claims : d # c => h.claims[d] = graph.claims[d]
  BY <1>5, <1>6 DEF Decided
<1>8. \A d \in Claims : Disputed(h, d) => h.claims[d] \notin {"none", "proposed"} /\ h.level[d] = "disputed"
  BY <1>4, <1>6, <1>7 DEF IsGraph, Disputed, Decided
<1>9. IsGraph(h)
  <2>1. Paired(h)
    BY <1>4, <1>6 DEF IsGraph, Paired, Stated
  <2> QED
    BY <1>4, <1>6, <1>8, <2>1 DEF IsGraph
<1>10. graph' = h
  BY <1>1, <1>2, <1>3
<1> QED
  BY <1>4, <1>6, <1>7, <1>9, <1>10

\* And that of a relation.
LEMMA RelationDoes ==
    ASSUME IsGraph(graph), NEW r \in Relations, ModerateRelation(r)
    PROVE  /\ IsGraph(graph') /\ graph'.supports = graph.supports /\ graph'.conflicts = graph.conflicts
           /\ graph'.claims = graph.claims
           /\ \A d \in Relations : d # r => graph'.relations[d] = graph.relations[d]
<1>1. PICK status \in {"rejected", "accepted"} : graph' = [graph EXCEPT !.relations[r] = status]
  BY DEF ModerateRelation
<1>2. PICK g : g = graph
  OBVIOUS
<1>3. PICK h : h = [g EXCEPT !.relations[r] = status]
  OBVIOUS
<1>4. IsGraph(g) /\ graph' = h
  BY <1>1, <1>2, <1>3
<1>5. /\ DOMAIN h = DOMAIN g /\ h.claims = g.claims /\ h.level = g.level /\ h.supports = g.supports
      /\ h.conflicts = g.conflicts /\ h.runs = g.runs
      /\ h.relations = [g.relations EXCEPT ![r] = status]
  BY <1>3, <1>4 DEF IsGraph
<1>6. /\ h.relations \in [Relations -> RelStates]
      /\ \A d \in Relations : h.relations[d] = IF d = r THEN status ELSE g.relations[d]
  BY <1>4, <1>5 DEF IsGraph, RelStates
<1>7. Paired(h)
  <2>1. \A e \in g.supports.active : Stated(g, e)
    BY <1>4 DEF IsGraph, Paired
  <2>2. \A e \in g.supports.active : Stated(h, e)
    BY <1>6, <2>1 DEF Stated
  <2> QED
    BY <1>4, <1>5, <2>2 DEF IsGraph, Paired
<1>8. IsGraph(h)
  BY <1>4, <1>5, <1>6, <1>7 DEF IsGraph, Disputed
<1> QED
  BY <1>2, <1>4, <1>5, <1>6, <1>8

\* A claim or relation that was moderated: what the tables say of others stays.
LEMMA ModeratedKeepsGraph ==
    ASSUME GraphInv, Outside, UNCHANGED chunkVars, lone' => lone /\ Busy = {},
           NEW x \in Facts, Moderated(x),
           IsGraph(graph'), graph'.supports = graph.supports, graph'.conflicts = graph.conflicts,
           \A c \in Claims : c # x => graph'.claims[c] = graph.claims[c],
           \A r \in Relations : r # x => graph'.relations[r] = graph.relations[r]
    PROVE  GraphInv' /\ \A n \in DOMAIN gens : Lasts(n)
<1>1. /\ UNCHANGED <<gens, served, plans>> /\ moderated' = moderated \cup {x}
      /\ said' = IF x \in ServedFacts THEN said \cup {x} ELSE said \ {x}
  BY DEF Moderated
<1>2. WorkInv' /\ UNCHANGED <<proc, chunk, back, emptied>> /\ GraphRows /\ PlansTyped /\ PlanRows
  BY OutsideKeeps DEF GraphInv, Outside, chunkVars
<1>3. \A m : OK(m)' = OK(m)
  BY <1>1 DEF OK, Disputed
<1>4. KnowledgeInv' /\ GraphRows' /\ OneOwner'
  BY <1>1, <1>2, <1>3 DEF GraphInv, KnowledgeInv, Known, ActiveChunks, GraphRows, OneOwner, Owns
<1>5. x \in ServedFacts => /\ served # 0 /\ x \in Claims \cup (Relations \ Links)
                           /\ x \in Claims => x \in gens[served].claims
                           /\ x \in Relations => x \in gens[served].relations
  <2>1. served # 0 => gens[served].claims \subseteq Claims /\ gens[served].relations \subseteq Relations
    BY <1>2, GensTyped DEF GraphRows
  <2> QED
    BY <2>1, GraphAssumption DEF ServedFacts
<1>6. PlansTyped' /\ PlanRows'
  BY <1>1, <1>2, <1>5 DEF PlansTyped, PlanRows, Facts
<1>7. \A p \in Procs : GenAt(proc[p])'
  BY <1>1, <1>2, <1>3 DEF GraphInv, GenAt, Owns, Settled, Known
<1>8. ASSUME lone' PROVE LoneRows' /\ \A p \in Procs : LoneAt(proc[p])'
  <2>1. LoneRows /\ \A p \in Procs : proc'[p] = Idle
    BY <1>2, <1>8 DEF GraphInv, Busy
  <2>2. \A p \in Procs : LoneAt(proc[p])'
    BY <2>1, IdleOwnsNothing, OwnersOnly DEF LoneAt
  <2>3. ASSUME NEW z \in said' PROVE Kept(z, served)'
    <3>1. CASE z = x
      BY <1>1, <1>5, <2>3, <3>1, EntitiesAssumption DEF Kept, Facts
    <3>2. CASE z # x
      <4>1. Kept(z, served)
        BY <1>1, <2>1, <2>3, <3>2 DEF LoneRows
      <4> QED
        BY <1>1, <3>2, <4>1 DEF Kept
    <3> QED
      BY <3>1, <3>2
  <2>4. ASSUME NEW m \in DOMAIN gens', gens'[m].unverified PROVE Excused(m)'
    BY <1>1, <1>2, <2>1, <2>4 DEF LoneRows, Excused, Excusable, Members, Returned
  <2> QED
    BY <2>2, <2>3, <2>4 DEF LoneRows
<1>9. \A n \in DOMAIN gens : Lasts(n)
  BY <1>1, <1>3 DEF Lasts, Settled
<1> QED
  BY <1>2, <1>4, <1>6, <1>7, <1>8, <1>9 DEF GraphInv

LEMMA ModerateKeepsGraph ==
    ASSUME GraphInv, Moderate
    PROVE  GraphInv' /\ \A n \in DOMAIN gens : Lasts(n)
<1>1. Outside /\ UNCHANGED chunkVars /\ (lone' => lone /\ Busy = {}) /\ IsGraph(graph)
  BY AtomicActs, GraphInvOf DEF GraphInv, GraphRows
<1>2. CASE \E e \in Entities : ModerateEntity(e)
  <2>1. UNCHANGED <<chunkVars, graph, gens, served, moderated, said, plans>>
    BY <1>1, <1>2 DEF ModerateEntity
  <2>2. PlansTyped' /\ PlanRows'
    BY <2>1 DEF GraphInv, PlansTyped, PlanRows
  <2> QED
    BY <1>1, <2>1, <2>2, GraphOutside DEF Lasting
<1>3. ASSUME NEW c \in Claims, ModerateClaim(c) PROVE GraphInv' /\ \A n \in DOMAIN gens : Lasts(n)
  <2>1. c \in Facts /\ Moderated(c)
    BY <1>3 DEF Facts, ModerateClaim
  <2>2. /\ IsGraph(graph') /\ graph'.supports = graph.supports /\ graph'.conflicts = graph.conflicts
        /\ \A d \in Claims : d # c => graph'.claims[d] = graph.claims[d]
        /\ \A r \in Relations : r # c => graph'.relations[r] = graph.relations[r]
    BY <1>1, <1>3, ModerationDoes
  <2> QED
    BY <1>1, <2>1, <2>2, ModeratedKeepsGraph
<1>4. ASSUME NEW r \in Relations, ModerateRelation(r)
      PROVE  GraphInv' /\ \A n \in DOMAIN gens : Lasts(n)
  <2>1. r \in Facts /\ Moderated(r)
    BY <1>4 DEF Facts, ModerateRelation
  <2>2. /\ IsGraph(graph') /\ graph'.supports = graph.supports /\ graph'.conflicts = graph.conflicts
        /\ \A c \in Claims : c # r => graph'.claims[c] = graph.claims[c]
        /\ \A d \in Relations : d # r => graph'.relations[d] = graph.relations[d]
    BY <1>1, <1>4, RelationDoes
  <2> QED
    BY <1>1, <2>1, <2>2, ModeratedKeepsGraph
<1> QED
  BY <1>2, <1>3, <1>4 DEF Moderate

\* Evidence that was marked stale is of chunks that are not active, or came back.
LEMMA PublishKeepsGraph ==
    ASSUME GraphInv, KnowledgeInv', NEW p \in Procs, Publish(p), UNCHANGED <<graphVars, planVars>>
    PROVE  GraphInv' /\ Lasting
<1>1. /\ Acts(p) /\ proc'[p] = [pc |-> "topics", then |-> "v:refresh"]
      /\ UNCHANGED <<graph, gens, served, plans, moderated, said>>
  BY PublishActs DEF GraphInv, graphVars, planVars
<1>2. WorkInv' /\ (\A q \in Procs : q # p => proc'[q] = proc[q])
      /\ (lone' => lone /\ \A q \in Procs : q # p => proc'[q] = Idle)
  BY <1>1, ActsDo, ActsKeep DEF GraphInv
<1>3. PICK r : r = proc'[p]
  OBVIOUS
<1>4. ~ Owns(r)
  BY <1>1, <1>3 DEF Owns, GraphPC
<1>5. PICK k \in Chunks :
        /\ chunk' = [chunk EXCEPT ![k] = IF @ = "active" THEN "tombstoned" ELSE "active"]
        /\ back' = IF chunk[k] = "tombstoned" THEN back \cup {k} ELSE back
  BY DEF Publish
<1>6. /\ chunk \in [Chunks -> ChunkStates] /\ GraphRows /\ PlansTyped /\ PlanRows /\ OneOwner
      /\ (lone => LoneRows)
  BY DEF GraphInv, KnowledgeInv
<1>7. /\ \A j \in Chunks : j # k => chunk'[j] = chunk[j]
      /\ chunk'[k] = IF chunk[k] = "active" THEN "tombstoned" ELSE "active"
      /\ back \subseteq back'
  BY <1>5, <1>6
<1>8. Known' = Known \cup {k}
  BY <1>5, <1>7 DEF Known
<1>9. ASSUME NEW e \in graph.supports.stale PROVE chunk'[e[2]] # "active" \/ e[2] \in back'
  <2>1. e[2] \in Known /\ (chunk[e[2]] # "active" \/ e[2] \in back)
    BY <1>6, <1>9 DEF GraphRows
  <2>2. CASE e[2] = k
    BY <1>5, <1>6, <1>7, <2>1, <2>2 DEF Known, ChunkStates
  <2>3. CASE e[2] # k
    BY <1>7, <2>1, <2>3 DEF Known
  <2> QED
    BY <2>2, <2>3
<1>10. GraphRows'
  BY <1>1, <1>6, <1>8, <1>9 DEF GraphRows, OK, Disputed
<1>11. PlansTyped' /\ PlanRows'
  BY <1>1, <1>6 DEF PlansTyped, PlanRows
<1>12. OneOwner'
  <2>1. ~ Owns(proc[p])' /\ \A q \in Procs : q # p => Owns(proc[q])' = Owns(proc[q])
    BY <1>2, <1>3, <1>4 DEF Owns
  <2> QED
    BY <1>2, <1>6, <2>1 DEF OneOwner
<1>13. ASSUME NEW q \in Procs PROVE GenAt(proc[q])'
  <2>1. CASE q = p
    BY <1>3, <1>4, <2>1, OwnersOnly DEF GenAt
  <2>2. CASE q # p
    <3>1. GenAt(proc[q]) /\ proc'[q] = proc[q]
      BY <1>2, <2>2 DEF GraphInv
    <3> QED
      BY <1>1, <1>8, <3>1 DEF GenAt, Owns, Settled, OK, Disputed
  <2> QED
    BY <2>1, <2>2
<1>14. lone' => \A q \in Procs : LoneAt(proc[q])'
  <2>1. LoneAt(r)' /\ LoneAt(Idle)'
    BY <1>4, IdleOwnsNothing, OwnersOnly
  <2> QED
    BY <1>2, <1>3, <2>1 DEF LoneAt
<1>15. lone' => LoneRows'
  BY <1>1, <1>2, <1>6, <1>7 DEF LoneRows, Kept, Excused, Excusable, Members, Returned
<1>16. Lasting
  BY <1>1, <1>6, NothingLasts
<1> QED
  BY <1>2, <1>10, <1>11, <1>12, <1>13, <1>14, <1>15, <1>16 DEF GraphInv

\* The other commands, and a kill.
LEMMA OthersKeepGraph ==
    ASSUME GraphInv, NEW p \in Procs, UNCHANGED <<graphVars, planVars>>,
           VectorStep(p) \/ InvalidateTopics(p) \/ TopicStep(p) \/ ArtifactStep(p) \/ Kill(p)
    PROVE  GraphInv' /\ Lasting
<1> USE IdleShape
<1>1. Acts(p) /\ UNCHANGED chunkVars /\ ~ Owns(proc'[p])
  <2>1. CASE VectorStep(p)
    <3>1. VectorMoves(p)
      BY <2>1, VectorActs DEF GraphInv
    <3> QED
      BY <3>1 DEF VectorMoves, Owns, VectorPC, BuildPC, CheckPC, GraphPC
  <2>2. CASE InvalidateTopics(p)
    <3>1. Acts(p) /\ UNCHANGED chunkVars /\ proc'[p].pc \in {"idle", "v:refresh"}
      BY <2>2, InvalidateActs DEF GraphInv, AfterShape, Has
    <3> QED
      BY <3>1 DEF Owns, GraphPC
  <2>3. CASE TopicStep(p) \/ ArtifactStep(p)
    <3>1. SynthMoves(p)
      BY <2>3, TopicActs, ArtifactActs DEF GraphInv
    <3> QED
      BY <3>1 DEF SynthMoves, Owns, SynthPC, TopicPC, ArtifactPC, ArchivePC, GraphPC
  <2>4. CASE Kill(p)
    BY <2>4, KillActs, IdleOwnsNothing DEF GraphInv
  <2> QED
    BY <2>1, <2>2, <2>3, <2>4
<1>2. PICK r : r = proc'[p]
  OBVIOUS
<1>3. GenAt(r) /\ LoneAt(r) /\ ~ Owns(r)
  BY <1>1, <1>2, OwnersOnly
<1>4. UNCHANGED <<chunkVars, graph, gens, served, plans, moderated, said>>
  BY <1>1 DEF graphVars, planVars
<1> QED
  BY <1>1, <1>2, <1>3, <1>4, GraphStands

LEMMA GraphSteps ==
    ASSUME GraphInv, KnowledgeInv', [Next]_vars
    PROVE  GraphInv' /\ (\A n \in DOMAIN gens : Lasts(n)) /\ (Moderate \/ Grows(graph, graph'))
<1> DEFINE Goal == GraphInv' /\ (\A n \in DOMAIN gens : Lasts(n)) /\ (Moderate \/ Grows(graph, graph'))
<1> SUFFICES Goal
  OBVIOUS
<1>1. CASE UNCHANGED vars
  <2>1. UNCHANGED <<limit, proc, used, lone, chunkVars, graph, gens, served, plans, moderated, said>>
    BY <1>1 DEF vars, commandVars, workVars, graphVars, planVars
  <2>2. Outside
    BY <2>1, SpendNothing DEF Outside, GraphInv
  <2>3. PlansTyped' /\ PlanRows'
    BY <2>1 DEF GraphInv, PlansTyped, PlanRows
  <2> QED
    BY <2>1, <2>2, <2>3, GraphOutside DEF Lasting
<1>2. CASE (CreateSpace \/ CreateVectorPlan \/ Drift \/ CreateTopic \/ UpdateTopic) /\ UNCHANGED <<graphVars, planVars>>
  <2>1. UNCHANGED <<chunkVars, graph, gens, served, plans, moderated, said>>
    BY <1>2, AtomicActs, DriftDoes DEF GraphInv, graphVars, planVars
  <2>2. Outside
    BY <1>2, AtomicActs, DriftDoes DEF GraphInv
  <2>3. PlansTyped' /\ PlanRows'
    BY <2>1 DEF GraphInv, PlansTyped, PlanRows
  <2> QED
    BY <2>1, <2>2, <2>3, GraphOutside DEF Lasting
<1>3. CASE CreatePlan
  BY <1>3, PlanKeepsGraph DEF Lasting
<1>4. CASE Moderate
  BY <1>4, ModerateKeepsGraph
<1>5. ASSUME NEW p \in Procs, GraphStep(p), UNCHANGED planVars PROVE Goal
  BY <1>5, GraphStepKeeps DEF Lasting
<1>6. ASSUME NEW p \in Procs, ApplyPlan(p) PROVE Goal
  BY <1>6, ApplyKeepsGraph DEF Lasting
<1>7. ASSUME NEW p \in Procs, Publish(p), UNCHANGED <<graphVars, planVars>> PROVE Goal
  BY <1>7, PublishKeepsGraph DEF Lasting
<1>8. ASSUME NEW p \in Procs, UNCHANGED <<graphVars, planVars>>,
             VectorStep(p) \/ InvalidateTopics(p) \/ TopicStep(p) \/ ArtifactStep(p) \/ Kill(p)
      PROVE  Goal
  BY <1>8, OthersKeepGraph DEF Lasting
<1> QED
  BY <1>1, <1>2, <1>3, <1>4, <1>5, <1>6, <1>7, <1>8 DEF Next

LEMMA GraphStarts == Init => GraphInv
<1> SUFFICES ASSUME Init PROVE GraphInv
  OBVIOUS
<1>1. WorkInv /\ KnowledgeInv
  BY WorkStarts, VectorStarts DEF VectorInv
<1>2. /\ graph = EmptyGraph /\ gens = <<>> /\ served = 0 /\ plans = {} /\ moderated = {} /\ said = {}
      /\ proc = [p \in Procs |-> Idle]
  BY DEF Init, CommandsInit, WorkInit, GraphInit, PlansInit
<1>3. /\ IsGraph(graph) /\ graph.supports = [active |-> {}, stale |-> {}]
      /\ \A c \in Claims : graph.claims[c] = "none"
      /\ \A r \in Relations : graph.relations[r] = "none"
  <2>1. Paired(graph)
    <3>1. 0 \notin Chunks
      BY CommandsAssumption
    <3> QED
      BY <1>2, <3>1 DEF EmptyGraph, Paired, Even, Inputs
  <2> QED
    BY <1>2, <2>1, ScopeOf DEF EmptyGraph, IsGraph, Statuses, RelStates, Disputed
<1>4. GraphRows
  BY <1>2, <1>3 DEF GraphRows
<1>5. PlansTyped /\ PlanRows /\ LoneRows
  BY <1>2, <1>3 DEF PlansTyped, PlanRows, LoneRows, Decided
<1>6. \A p \in Procs : ~ Owns(proc[p]) /\ GenAt(proc[p]) /\ LoneAt(proc[p])
  BY <1>2, IdleOwnsNothing, OwnersOnly
<1> QED
  BY <1>1, <1>4, <1>5, <1>6 DEF GraphInv, OneOwner

LEMMA GraphHolds == Spec => []GraphInv
<1>1. VectorInv => KnowledgeInv
  BY DEF VectorInv
<1>2. GraphInv /\ KnowledgeInv' /\ [Next]_vars => GraphInv'
  BY GraphSteps
<1> QED
  BY <1>1, <1>2, GraphStarts, VectorStarts, VectorSteps, PTL DEF Spec

\* What a user confirmed, rejected or asserted stays in the Generation that is
\* served, whatever is built, killed and activated after it, as long as commands
\* come one after another: claims either way, relations that were rejected, and
\* relations of the user's own.
THEOREM WhatTheUserSaidStays == Spec => []UserFactsSurvive
<1>1. GraphInv => UserFactsSurvive
  BY DEF GraphInv, LoneRows, Kept, UserFactsSurvive, Decided
<1> QED
  BY <1>1, GraphHolds, PTL

\* When commands come one after another, a Generation that cannot be verified has
\* a claim or relation that was moderated, text that came back, or a relation of a
\* claim that other text states without it: edits, kills, invalid answers and
\* failed builds alone never keep one from being verified.
THEOREM OnlyModerationBlocksBuilds == Spec => []BuildsVerify
<1>1. ASSUME GraphInv, lone, NEW n \in DOMAIN gens, gens[n].unverified
      PROVE  \/ (gens[n].claims \cup (gens[n].relations \ Links)) \cap moderated # {}
             \/ gens[n].relations \cap Uneven # {}
             \/ \E x \in gens[n].claims \cup gens[n].relations, k \in back :
                    <<x, k>> \in graph.supports.stale
  <2>1. Excused(n) /\ gens[n].claims \subseteq Claims /\ Uneven \subseteq Relations
    BY <1>1, GensTyped, GraphAssumption DEF GraphInv, LoneRows, Uneven, Relations
  <2>2. CASE \E x \in Members(gens[n]) : Returned(x)
    BY <2>2 DEF Members, Returned
  <2>3. CASE Members(gens[n]) \cap Excusable # {}
    BY <2>1, <2>3, GraphAssumption DEF Members, Excusable
  <2> QED
    BY <2>1, <2>2, <2>3 DEF Excused
<1>2. GraphInv => BuildsVerify
  BY <1>1 DEF BuildsVerify
<1> QED
  BY <1>2, GraphHolds, PTL
=============================================================================
