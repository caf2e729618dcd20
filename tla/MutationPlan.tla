----------------------------- MODULE MutationPlan -----------------------------
(***************************************************************************)
(* Automation plans, operations, undo and restore over the rows of the     *)
(* database: what a plan will change, as the image of each row before and  *)
(* after; the application of the plan, which asserts the images before in  *)
(* its transaction; and the reversal of a recorded operation.              *)
(*                                                                         *)
(* A row is a function from its columns to values.  updated_at, which no   *)
(* image contains, and columns that no plan touches are left out; every    *)
(* state a row of its kind can live in is "active", unless a plan tells it *)
(* apart.  deleted_at stands for tombstoned_at too, version for revision,  *)
(* path for relative_path of a note and the locator of a source.           *)
(***************************************************************************)
EXTENDS Workload, Sequences

CONSTANTS
    Rows,        \* rows of the database
    KindOf,      \* resource_kind of each row
    Links,       \* row -> the rows it belongs to or is derived from; a Topic's
                 \* are the claims, relations and sources its latest snapshot shows
    Home         \* the directory the notes are in at first

VARIABLES
    row,         \* the rows
    base,        \* the rows with the changes alone that other commands made to them
    without,     \* the rows as the other commands would have made them without operations
    swayed,      \* the rows that a statement of theirs changed in row or in without alone
    plans,       \* automation_plans
    ops,         \* operations with their automation_operation_changes
    clock        \* the time, which distinguishes timestamps

planVars == <<row, base, without, swayed, plans, ops, clock>>

Now == -1        \* "$now" in a planned image
Times == {"deleted_at", "stale_at"}

Columns == [
    source |-> {"state", "deleted_at", "version", "path"},
    connection |-> {"state", "version"},
    document |-> {"state", "deleted_at", "version"},
    chunk |-> {"state", "deleted_at"},
    note |-> {"state", "deleted_at", "version", "path"},
    graph_node |-> {"state", "deleted_at", "version"},
    entity |-> {"state", "version"},
    relation |-> {"state", "deleted_at", "version"},
    claim |-> {"state", "deleted_at", "version"},
    claim_evidence |-> {"state"}, relation_evidence |-> {"state"},
    evidence_context |-> {"state", "stale_at", "stale_reason"},
    answer |-> {"state", "stale_at", "stale_reason"},
    topic |-> {"state", "deleted_at", "version", "stale_at", "stale_reason"},
    artifact |-> {"state", "deleted_at", "version", "stale_reason"}]

ASSUME MutationAssumption ==
    /\ \A r \in Rows : KindOf[r] \in DOMAIN Columns /\ Links[r] \subseteq Rows
    /\ \A l \in Limits : l.targets \subseteq Rows

MutationInit ==
    /\ row = [r \in Rows |-> [c \in Columns[KindOf[r]] |->
                CASE c = "state" -> "active" [] c = "version" -> 1 [] c \in Times -> 0
                  [] c = "stale_reason" -> "none" [] c = "path" -> Home]]
    /\ base = row /\ without = row /\ swayed = {}
    /\ plans = <<>> /\ ops = <<>> /\ clock = 1

-----------------------------------------------------------------------------
(* What a plan changes *)

Of(kind, x) == {r \in Rows : KindOf[r] = kind /\ x \in Links[r]}
In(kind, states) == {r \in Rows : KindOf[r] = kind /\ row[r].state \in states}

\* A change that is wanted: the new state and the other columns.
Want(r, state, kind, extra) == [row |-> r, value |-> state, kind |-> kind, extra |-> extra]
WantAll(R, state, kind, extra) == {Want(r, state, kind, extra) : r \in R}
Deleted(r) == Want(r, "deleted", "deleted", [deleted_at |-> Now])
Stale(R) == WantAll(R, "stale", "invalidated", <<>>)
OverStates == [graph_node |-> {"deleted", "rejected", "redirected"},
               relation |-> {"deleted", "rejected", "deprecated"},
               claim |-> {"deleted", "rejected", "superseded"}]
Over(kind) == In(kind, OverStates[kind])

TopicsOf(x) == Of("topic", x)
ArtifactsOf(T) == (UNION {Of("artifact", t) : t \in T}) \ In("artifact", {"deleted"})
TopicsAndArtifacts(T, why, desired) ==
    LET L == T \ In("topic", {"deleted"})
    IN WantAll(L, desired, "invalidated", [stale_at |-> Now, stale_reason |-> why])
       \cup WantAll(ArtifactsOf(L), "stale", "invalidated", [stale_reason |-> why])

\* Claims or relations with evidence from a Source.
Shown(evidence, s) == {r \in Rows : \E v \in Of(evidence, s) : r \in Links[v] /\ KindOf[r] \in {"claim", "relation"}}
SourceContent(s) ==
    {Deleted(s)}
    \cup WantAll(Of("connection", s) \ In("connection", {"detached", "deleted"}), "detached", "detached", <<>>)
    \cup WantAll(Of("document", s), "deleted", "tombstoned", [deleted_at |-> Now])
    \cup WantAll(Of("chunk", s), "tombstoned", "tombstoned", [deleted_at |-> Now])
SourceGraph(s) ==
    Stale(Of("graph_node", s) \ Over("graph_node"))
    \cup Stale(Of("claim_evidence", s) \cup Of("relation_evidence", s))
    \cup Stale((Shown("claim_evidence", s) \ Over("claim")) \cup (Shown("relation_evidence", s) \ Over("relation")))
SourceDelete(s) ==
    SourceContent(s) \cup SourceGraph(s)
    \cup WantAll(Of("evidence_context", s) \cup Of("answer", s), "stale", "invalidated",
                 [stale_at |-> Now, stale_reason |-> s])
    \cup TopicsAndArtifacts(TopicsOf(s) \cup UNION {TopicsOf(c) : c \in Shown("claim_evidence", s)}, s, "needs_review")

EntityDelete(x) ==
    {Want(x, "deleted", "deleted", <<>>)} \cup {Deleted(n) : n \in Of("graph_node", x)}
    \cup Stale((Of("claim", x) \ Over("claim")) \cup (Of("relation", x) \ Over("relation")))
    \cup TopicsAndArtifacts(UNION {TopicsOf(c) : c \in Of("claim", x)}, x, "needs_review")
ClaimDelete(x) ==
    {Deleted(x)} \cup {Deleted(n) : n \in Of("graph_node", x)}
    \cup TopicsAndArtifacts(TopicsOf(x), x, "needs_review")
RelationDelete(x) == {Deleted(x)} \cup TopicsAndArtifacts(TopicsOf(x), x, "stale")
TopicDelete(x) == {Deleted(x)} \cup {Deleted(a) : a \in ArtifactsOf({x})}
NoteSource(o) == CHOOSE s \in Links[o] : KindOf[s] = "source"

Deletable == {"source", "note", "connection", "entity", "relation", "claim", "topic", "artifact"}
\* describe refuses a resource in these states.
Refused == [k \in Deletable |->
    CASE k = "connection" -> {"detached", "deleted"} [] k = "entity" -> {"deleted", "redirected"}
      [] OTHER -> {"deleted"}]
MayDelete(x) ==
    /\ KindOf[x] \in Deletable /\ row[x].state \notin Refused[KindOf[x]]
    /\ KindOf[x] = "note" => row[NoteSource(x)].state # "deleted"
Wanted(x) ==
    CASE KindOf[x] = "source" -> SourceDelete(x)
      [] KindOf[x] = "note" -> {Deleted(x)} \cup SourceDelete(NoteSource(x))
      [] KindOf[x] = "connection" -> {Want(x, "detached", "detached", <<>>)}
      [] KindOf[x] = "entity" -> EntityDelete(x)
      [] KindOf[x] = "relation" -> RelationDelete(x)
      [] KindOf[x] = "claim" -> ClaimDelete(x)
      [] KindOf[x] = "topic" -> TopicDelete(x)
      [] KindOf[x] = "artifact" -> {Deleted(x)}

\* The queries of these kinds do not select deleted_at: the image has null.
Unselected == {"graph_node", "relation", "claim", "topic", "artifact"}
Read(r, c) == IF c = "deleted_at" /\ KindOf[r] \in Unselected THEN 0 ELSE row[r][c]
Holds(w) ==
    /\ row[w.row].state = w.value
    /\ \A c \in DOMAIN w.extra : IF c \in Times THEN Read(w.row, c) # 0 ELSE Read(w.row, c) = w.extra[c]
Before(w) == [c \in {"state"} \cup DOMAIN w.extra \cup (DOMAIN row[w.row] \cap {"version"}) |-> Read(w.row, c)]
After(w) == [c \in DOMAIN Before(w) |->
    CASE c = "state" -> w.value [] c = "version" -> row[w.row].version + 1 [] OTHER -> w.extra[c]]
Changes(W) ==
    LET A == {w \in W : ~ Holds(w)}
    IN [r \in {w.row : w \in A} |->
          LET w == CHOOSE x \in A : x.row = r
          IN [kind |-> w.kind, before |-> Before(w), after |-> After(w)]]

-----------------------------------------------------------------------------
(* Applying changes and taking them back *)

Matches(ch) == \A r \in DOMAIN ch : \A c \in DOMAIN ch[r].before : row[r][c] = ch[r].before[c]

Materialize(image) == [c \in DOMAIN image |-> IF c \in Times /\ image[c] = Now THEN clock ELSE image[c]]
Materialized(ch) == [r \in DOMAIN ch |-> [ch[r] EXCEPT !.after = Materialize(@)]]

\* Mutant: only the state goes back.
ReverseState(ch) ==
    [r \in DOMAIN ch |->
       [kind |-> "undo", before |-> ch[r].after,
        after |-> [ch[r].after EXCEPT !.state = IF "state" \in DOMAIN ch[r].before THEN ch[r].before.state ELSE @]]]
Reverse(ch) ==
    [r \in DOMAIN ch |->
       [kind |-> "undo", before |-> ch[r].after,
        after |-> [c \in DOMAIN ch[r].before |->
                     IF c = "version" THEN ch[r].after.version + 1 ELSE ch[r].before[c]]]]

\* A row with the columns that an image names.
Overlay(image, old) ==
    [c \in DOMAIN image \cup DOMAIN old |-> IF c \in DOMAIN image THEN image[c] ELSE old[c]]
\* applyOne for every change, and completeAutomationOperation.
Applied(ch) == [r \in Rows |-> IF r \in DOMAIN ch THEN Overlay(ch[r].after, row[r]) ELSE row[r]]
Recorded(c, ch) ==
    /\ ops' = Append(ops, [plan |-> c.plan, action |-> c.action, target |-> c.target,
                           changes |-> ch, undoOf |-> c.undoOf, reversible |-> c.reversible])
    /\ plans' = IF c.plan = 0 THEN plans ELSE [plans EXCEPT ![c.plan].state = "applied"]

UndoneBy(o) == {u \in DOMAIN ops : ops[u].undoOf = o}
NotReversible(o) == ~ ops[o].reversible \/ DOMAIN ops[o].changes = {} \/ UndoneBy(o) # {}

NoMove == [from |-> Home, to |-> Home, hash |-> 0]
NewPlan(action, x, ch, reversible, undoOf, move) ==
    [action |-> action, target |-> x, changes |-> ch, reversible |-> reversible, undoOf |-> undoOf,
     move |-> move, state |-> "ready", expired |-> FALSE]
Planned(plan) == plans' = Append(plans, plan) /\ UNCHANGED <<row, base, without, swayed, ops, clock>>

\* createSafetyPlan; a plan is only read again by the command that applies it.
PlanDelete ==
    \E x \in limit.targets :
        /\ MayDelete(x) /\ Elsewhere("plan")
        /\ Planned(NewPlan("delete", x, Changes(Wanted(x)), TRUE, 0, NoMove))

MoveOf(o) == IF ops[o].plan # 0 /\ ops[o].action = "move"
             THEN LET m == plans[ops[o].plan].move IN [from |-> m.to, to |-> m.from, hash |-> m.hash]
             ELSE NoMove
PlanUndo ==
    \E o \in DOMAIN ops :
        /\ ~ NotReversible(o) /\ Elsewhere("undo")
        /\ Planned(NewPlan("undo", ops[o].target, Reverse(ops[o].changes), FALSE, o, MoveOf(o)))

\* expires_at passes.
Expire ==
    \E i \in DOMAIN plans :
        /\ ~ plans[i].expired /\ Elsewhere("expire")
        /\ plans' = [plans EXCEPT ![i].expired = TRUE] /\ UNCHANGED <<row, base, without, swayed, ops, clock>>

Command(pc, i) == [pc |-> pc, plan |-> i, changes |-> plans[i].changes, undoOf |-> plans[i].undoOf,
                   reversible |-> plans[i].reversible, action |-> plans[i].action,
                   target |-> plans[i].target, move |-> plans[i].move, back |-> FALSE]

\* applyAutomationMutation: the plan is read and checked; an applied one gives
\* the recorded result, and one that is not ready is refused.
Apply(p) ==
    \E i \in DOMAIN plans :
        /\ plans[i].state = "ready"
        /\ Launch(p, "apply", IF plans[i].expired THEN Idle
                              ELSE Command(IF plans[i].move = NoMove THEN "verify"
                                           ELSE IF plans[i].action = "move" THEN "describe" ELSE "check", i))
        /\ plans' = IF plans[i].expired THEN [plans EXCEPT ![i].state = "expired"] ELSE plans
        /\ UNCHANGED <<row, base, without, swayed, ops, clock>>

\* A conflict ends the command, unless a file has to be moved back first.
Conflict(p) == IF proc[p].back THEN Move(p, "back") ELSE Finish(p)

\* verifyMutationChanges outside the transaction.
Verify(p) ==
    /\ At(p, "verify")
    /\ IF Matches(proc[p].changes) THEN Move(p, "commit") ELSE Conflict(p)
    /\ UNCHANGED planVars

\* The transaction of applyChanges and of restoreDeletedResource: the images are
\* asserted again, and operation_id is the primary key of operations.
Commit(p) ==
    /\ At(p, "commit")
    /\ LET c == proc[p]
           ch == Materialized(c.changes)
       IN IF Matches(c.changes) /\ (c.plan # 0 => \A o \in DOMAIN ops : ops[o].plan # c.plan)
          THEN row' = Applied(ch) /\ Recorded(c, ch) /\ clock' = clock + 1 /\ Finish(p)
          ELSE Conflict(p) /\ UNCHANGED <<row, ops, plans, clock>>
    /\ UNCHANGED <<base, without, swayed>>

\* cancelAutomationPlan reads the plan, and its update is not conditional.
Cancel(p) ==
    /\ \E i \in DOMAIN plans : plans[i].state = "ready" /\ Launch(p, "cancel", Command("cancel", i))
    /\ UNCHANGED planVars
CancelWrite(p) ==
    /\ At(p, "cancel") /\ Finish(p)
    /\ plans' = [plans EXCEPT ![proc[p].plan].state = "cancelled"] /\ UNCHANGED <<row, base, without, swayed, ops, clock>>

\* latestDeleteOperation
DeletesOf(x) == {o \in DOMAIN ops : /\ x \in DOMAIN ops[o].changes
                                    /\ ops[o].changes[x].kind \in
                                         IF KindOf[x] = "connection" THEN {"deleted", "detached"} ELSE {"deleted"}}
Latest(O) == CHOOSE o \in O : \A u \in O : u <= o

\* restoreDeletedResource up to its transaction.
Restore(p) ==
    /\ \E x \in limit.targets :
         /\ KindOf[x] \in Deletable /\ DeletesOf(x) # {}
         /\ LET o == Latest(DeletesOf(x))
            IN /\ ~ NotReversible(o)
               /\ Launch(p, "restore",
                    IF Matches(Reverse(ops[o].changes))
                    THEN [pc |-> "commit", plan |-> 0, changes |-> Reverse(ops[o].changes), undoOf |-> o,
                          reversible |-> TRUE, action |-> "restore", target |-> x, move |-> NoMove, back |-> FALSE]
                    ELSE Idle)
    /\ UNCHANGED planVars

\* moderateGraphObject: confirm and reject plan their changes and commit them.
Verdicts == [claim |-> {"user_confirmed", "rejected"}, relation |-> {"accepted", "rejected"},
             entity |-> {"active", "rejected"}]
AffectedTopics(x) ==
    IF KindOf[x] = "entity" THEN UNION {TopicsOf(c) : c \in Of("claim", x)} ELSE TopicsOf(x)
Moderate(p) ==
    /\ \E x \in limit.targets :
         /\ KindOf[x] \in DOMAIN Verdicts
         /\ \E v \in Verdicts[KindOf[x]] :
              LET why == x \o v
                  desired == IF KindOf[x] = "claim" THEN "needs_review" ELSE "stale"
                  W == {Want(x, v, "moderated", <<>>)} \cup TopicsAndArtifacts(AffectedTopics(x), why, desired)
                       \cup WantAll(In("answer", {"active"}), "stale", "invalidated",
                                    [stale_at |-> Now, stale_reason |-> why])
              IN Launch(p, "moderate",
                   [pc |-> "commit", plan |-> 0, changes |-> Changes(W), undoOf |-> 0, reversible |-> FALSE,
                    action |-> "moderate", target |-> x, move |-> NoMove, back |-> FALSE])
    /\ UNCHANGED planVars

-----------------------------------------------------------------------------
(* What the other commands write to the same rows, by kind *)

\* A statement changes the rows R of the database, and would change S without
\* operations; it is left out when it changes neither.
PutAll(R, S, image) ==
    /\ R \cup S # {}
    /\ row' = [r \in Rows |-> IF r \in R THEN Overlay(image, row[r]) ELSE row[r]]
    /\ base' = [r \in Rows |-> IF r \in R THEN Overlay(image, base[r]) ELSE base[r]]
    /\ without' = [r \in Rows |-> IF r \in S THEN Overlay(image, without[r]) ELSE without[r]]
    /\ swayed' = swayed \cup (R \ S) \cup (S \ R)
    /\ clock' = clock + 1 /\ UNCHANGED <<plans, ops>>
Put(r, image) == PutAll({r}, {r}, image)
Bumped(r, image) == Overlay(image, [version |-> row[r].version + 1])

\* The WHERE of a statement is evaluated on both.
Hit(rows, r, states) == {x \in {r} : rows[x].state \in states}
PutIf(r, states, image) == PutAll(Hit(row, r, states), Hit(without, r, states), image)
PutUnless(r, states, image) == PutAll({r} \ Hit(row, r, states), {r} \ Hit(without, r, states), image)

\* An archive in flight, a scan that completes, a pause, a tombstoned chunk.
TouchContent(r) ==
    \/ KindOf[r] = "source" /\ Put(r, Bumped(r, [state |-> "active"]))
    \/ KindOf[r] = "connection" /\ Put(r, Bumped(r, [state |-> "active"]))
    \/ KindOf[r] = "connection" /\ PutUnless(r, {"deleted", "detached"}, Bumped(r, [state |-> "paused"]))
    \/ KindOf[r] = "chunk" /\ PutIf(r, {"active"}, [state |-> "tombstoned", deleted_at |-> clock])
    \/ /\ KindOf[r] \in {"evidence_context", "answer"}
       /\ PutIf(r, {"active"}, [state |-> "stale", stale_at |-> clock, stale_reason |-> "change"])

\* A graph that is activated: evidence without its chunk is stale, and so is what
\* has no evidence left.  What is stale already is rewritten without a change.
Evidence == [claim |-> "claim_evidence", relation |-> "relation_evidence"]
Lost(rows) ==
    {v \in Rows : /\ KindOf[v] \in {"claim_evidence", "relation_evidence"} /\ rows[v].state = "active"
                  /\ \E h \in Links[v] : KindOf[h] = "chunk" /\ rows[h].state # "active"}
Faded(rows) ==
    {r \in Rows : /\ KindOf[r] \in DOMAIN Evidence
                  /\ rows[r].state \notin OverStates[KindOf[r]] \cup {"stale"}
                  /\ \A v \in Of(Evidence[KindOf[r]], r) \ Lost(rows) : rows[v].state # "active"}
ActivateGraph ==
    PutAll(Lost(row) \cup Faded(row), Lost(without) \cup Faded(without), [state |-> "stale"])

\* A Topic that is invalidated or built, its Artifact that is built.
TouchTopic(r) ==
    \/ /\ KindOf[r] = "topic"
       /\ \/ PutIf(r, {"active"}, [state |-> "stale", stale_at |-> clock, stale_reason |-> "change"])
          \/ PutUnless(r, {"deleted"}, [state |-> "active", stale_at |-> 0, stale_reason |-> "none"])
    \/ /\ KindOf[r] = "artifact"
       /\ PutUnless(r, {"deleted"}, Bumped(r, [state |-> "active", stale_reason |-> "none"]))

Touch ==
    /\ Elsewhere("touch")
    /\ \/ ActivateGraph
       \/ \E r \in Rows : TouchContent(r) \/ TouchTopic(r)

PlanStep(p) ==
    \/ Apply(p) \/ Verify(p) \/ Commit(p) \/ Cancel(p) \/ CancelWrite(p) \/ Restore(p) \/ Moderate(p)
=============================================================================
