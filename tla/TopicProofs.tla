------------------------------ MODULE TopicProofs ------------------------------
(***************************************************************************)
(* Proofs about the Topic and its Artifact in Derived, whatever the        *)
(* processes, the knowledge and the bounds.  What they rely on in the      *)
(* graph is GraphInv of DerivedProofs, and that a Generation that no build *)
(* writes any more lasts.                                                  *)
(***************************************************************************)
EXTENDS DerivedProofs

-----------------------------------------------------------------------------
(* The rows of the Topic and of the Artifact. *)

Made == [gen : Nat, at : Nat, claims : SUBSET Claims, disputed : SUBSET Claims,
         relations : SUBSET Relations]
TopicRows ==
    /\ reports \in Seq(Made)
    /\ DOMAIN topic = {"status", "version", "latest", "why"}
    /\ topic.status \in {"none", "active", "stale", "needs_review"}
    /\ topic.version \in Nat /\ topic.latest \in 0 .. Len(reports)
    /\ topic.status = "none" => topic.latest = 0

Build == [state : {"building", "ready", "failed"}, files : {"none", "temporary", "published"},
          snap : Nat, parent : Nat]
ArtifactRows ==
    /\ builds \in Seq(Build)
    /\ \A b \in DOMAIN builds : builds[b].snap \in 1 .. Len(reports)
    /\ DOMAIN artifact = {"status", "latest"} /\ artifact.status \in {"none", "stale", "ready"}
    /\ artifact.latest \in 0 .. Len(builds) /\ pointer \in 0 .. Len(builds)
    /\ artifact.status = "ready" => artifact.latest # 0

\* What a process has read of them.
ReadAt(c) ==
    /\ c.pc \in TopicPC => /\ c.version \in Nat /\ c.version <= topic.version
                           /\ c.claims \in SUBSET Claims /\ c.disputed \in SUBSET Claims
                           /\ c.relations \in SUBSET Relations
                           /\ c.gen \in Nat /\ c.at \in Nat
    /\ c.pc = "a:start" => c.snap \in 1 .. Len(reports)
    /\ c.pc \in ArchivePC => c.build \in 1 .. Len(builds)
RowsInv == WorkInv /\ TopicRows /\ ArtifactRows /\ \A p \in Procs : ReadAt(proc[p])

-----------------------------------------------------------------------------
(* The Artifact. *)

\* A build is where its process has brought it.
Brought(c) ==
    /\ c.pc \in {"a:write", "a:publish", "a:finish"} => builds[c.build].state = "building"
    /\ c.pc = "a:write" => builds[c.build].files = "none"
    /\ c.pc = "a:publish" => builds[c.build].files = "temporary"
    /\ c.pc = "a:finish" => builds[c.build].files = "published"
    /\ c.pc = "a:pointer" => builds[c.build].state = "ready"
OneMaker ==
    \A p, q \in Procs :
        proc[p].pc \in ArchivePC /\ proc[q].pc \in ArchivePC /\ p # q => proc[p].build # proc[q].build
ReadyRows ==
    /\ \A b \in DOMAIN builds : builds[b].state = "ready" => builds[b].files = "published"
    /\ artifact.latest # 0 => builds[artifact.latest].state = "ready"
    /\ pointer # 0 => builds[pointer].state = "ready"

\* The snapshot that a process makes a build of.
Making(c) == IF c.pc = "a:start" THEN c.snap ELSE builds[c.build].snap
MakePC == ArtifactPC \ {"a:pointer"}

\* One after another and without failures the pointer follows the row, and the
\* row follows the report.
FollowAt(c) ==
    /\ c.pc # "a:failed"
    /\ c.pc \in MakePC => Making(c) = topic.latest
    /\ c.pc = "a:pointer" => c.build = artifact.latest
FollowRows ==
    /\ (\A p \in Procs : proc[p].pc # "a:pointer") => pointer = artifact.latest
    /\ (\A p \in Procs : proc[p].pc \notin MakePC) =>
         (artifact.status = "ready" => builds[artifact.latest].snap = topic.latest)
Calm == lone /\ used["fault"] = 0
FollowInv == Calm => FollowRows /\ \A p \in Procs : FollowAt(proc[p])

ArtifactInv ==
    /\ RowsInv /\ OneMaker /\ ReadyRows /\ FollowInv
    /\ \A p \in Procs : Brought(proc[p])

-----------------------------------------------------------------------------
(* The Topic. *)

\* Claims and relations that are rejected have not left.
StateOf(x) == IF x \in Claims THEN graph.claims[x] ELSE graph.relations[x]
Gone(X) == \A x \in X : StateOf(x) = "rejected" => ~ lone /\ x \notin withdrawn
LeaveAt(c) == c.pc = "t:save" /\ c.version = topic.version => Gone(c.claims \cup c.relations)
LeaveInv == RejectedClaimsLeave /\ \A p \in Procs : LeaveAt(proc[p])

\* Claims of a Generation that contradict each other are shown as disputed.
Shown(gen, claims, disputed) ==
    \A c, d \in claims \cap gens[gen].claims : Contradicts(c, d) => c \in disputed
ReportAt(r) == r.gen # 0 => Settled(r.gen) /\ Shown(r.gen, r.claims, r.disputed)
OpenAt(c) ==
    c.pc \in {"t:claims", "t:save"} /\ c.gen # 0 =>
        Settled(c.gen) /\ (c.pc = "t:save" => Shown(c.gen, c.claims, c.disputed))
OpenInv == (\A r \in DOMAIN reports : ReportAt(reports[r])) /\ \A p \in Procs : OpenAt(proc[p])

\* One after another and without failures, what was read is so.
Evident(C) == \A c \in C : HasEvidence(graph, c)
CurrentAt(c) ==
    /\ c.pc \in {"t:graph", "t:claims", "t:save"} => c.at = used["change"]
    /\ c.pc \in {"t:claims", "t:save"} => c.gen = served
    /\ c.pc = "t:save" => Evident(c.claims)
CurrentRows ==
    topic.status = "active" /\ topic.latest # 0 /\ (\A p \in Procs : proc[p].pc # "topics") =>
        /\ Report.at = used["change"] /\ Report.gen = served
        /\ served = Len(gens) => Evident(Report.claims)
\* The Generation that is built is the last one.
LastAt(c) == c.pc \in OpenPC => c.gen = Len(gens)
CurrentInv ==
    /\ lone => \A p \in Procs : LastAt(proc[p])
    /\ Calm => CurrentRows /\ \A p \in Procs : CurrentAt(proc[p])

\* What a plan and a moderation do to an entity.
EntityRows ==
    /\ DOMAIN entity = Entities
    /\ \A e \in Entities : entity[e].status \in {"none", "proposed", "active", "rejected", "redirected"}
                           /\ DOMAIN entity[e] = {"status", "version"}
    /\ \A x \in plans : x.do.action = "entity" => x.do.entity \in Entities

-----------------------------------------------------------------------------
(* The steps that are told apart here. *)

\* No process takes a step of the Topic or of the Artifact, unless it is killed.
OtherStep ==
    /\ UNCHANGED <<topicVars, artifactVars>>
    /\ \A q \in Procs : proc'[q] = proc[q] \/ proc'[q].pc \notin SynthPC \cup {"topics"}
                        \/ (proc'[q].pc = "topics" /\ proc[q].pc \notin SynthPC)
    /\ \A q \in Procs : proc[q].pc \in SynthPC => proc'[q] = proc[q] \/ used'["fault"] # 0

LEMMA NotSynth == \A x \in VectorPC \cup GraphPC \cup {"idle", "topics", "g:refresh"} : x \notin SynthPC
BY DEF VectorPC, BuildPC, CheckPC, GraphPC, SynthPC, TopicPC, ArtifactPC, ArchivePC

LEMMA ActsAlone ==
    ASSUME WorkInv, NEW p \in Procs, Acts(p), proc'[p].pc \notin SynthPC \cup {"topics"}
                                              \/ (proc'[p].pc = "topics" /\ proc[p].pc \notin SynthPC),
           proc[p].pc \notin SynthPC \/ used'["fault"] # 0,
           UNCHANGED <<topicVars, artifactVars>>
    PROVE  OtherStep
BY DEF Acts, OtherStep

LEMMA StepsOf ==
    ASSUME WorkInv, [Next]_vars
    PROVE  \/ OtherStep
           \/ Moderate
           \/ (CreateTopic \/ UpdateTopic) /\ UNCHANGED <<graphVars, artifactVars>>
           \/ \E p \in Procs : InvalidateTopics(p) /\ UNCHANGED <<graphVars, artifactVars>>
           \/ \E p \in Procs : TopicStep(p) /\ UNCHANGED <<graphVars, artifactVars>>
           \/ \E p \in Procs : ArtifactStep(p) /\ UNCHANGED <<graphVars, topicVars>>
<1>1. CASE UNCHANGED vars
  BY <1>1 DEF vars, commandVars, workVars, OtherStep
<1>2. CASE (CreateSpace \/ CreateVectorPlan \/ CreatePlan \/ Drift) /\ UNCHANGED <<topicVars, artifactVars>>
  BY <1>2, AtomicActs, DriftDoes DEF Outside, OtherStep
<1>3. ASSUME NEW p \in Procs, VectorStep(p), UNCHANGED <<topicVars, artifactVars>> PROVE OtherStep
  <2>1. VectorMoves(p)
    BY <1>3, VectorActs
  <2>2. Acts(p) /\ proc'[p].pc \notin SynthPC \cup {"topics"} /\ proc[p].pc \notin SynthPC
    BY <2>1, NotSynth DEF VectorMoves, VectorPC, BuildPC, CheckPC
  <2> QED
    BY <1>3, <2>2, ActsAlone
<1>4. ASSUME NEW p \in Procs, GraphStep(p), UNCHANGED <<topicVars, artifactVars>> PROVE OtherStep
  <2>1. GraphMoves(p)
    BY <1>4, GraphActs
  <2>2. Acts(p) /\ proc'[p].pc \notin SynthPC /\ proc[p].pc \notin SynthPC
    BY <2>1, NotSynth DEF GraphMoves
  <2> QED
    BY <1>4, <2>2, ActsAlone
<1>5. ASSUME NEW p \in Procs, ApplyPlan(p) \/ Publish(p), UNCHANGED <<topicVars, artifactVars>> PROVE OtherStep
  <2>1. Acts(p) /\ proc[p] = Idle /\ proc'[p].pc = "topics"
    BY <1>5, PlanActs, PublishActs
  <2>2. proc[p].pc \notin SynthPC /\ proc'[p].pc \notin SynthPC
    BY <2>1, NotSynth, IdleShape
  <2> QED
    BY <1>5, <2>1, <2>2, ActsAlone
<1>6. ASSUME NEW p \in Procs, Kill(p), UNCHANGED <<topicVars, artifactVars>> PROVE OtherStep
  <2>1. Acts(p) /\ proc'[p].pc = "idle" /\ used'["fault"] # 0
    BY <1>6, KillActs, IdleShape
  <2>2. proc'[p].pc \notin SynthPC \cup {"topics"}
    BY <2>1, NotSynth
  <2> QED
    BY <1>6, <2>1, <2>2, ActsAlone
<1> QED
  BY <1>1, <1>2, <1>3, <1>4, <1>5, <1>6 DEF Next

\* What a process has read stays within the rows as they grow.
LEMMA ReadStays ==
    ASSUME TopicRows, TopicRows', ArtifactRows, ArtifactRows', topic.version <= topic'.version,
           Len(reports) <= Len(reports'), Len(builds) <= Len(builds'), NEW c, ReadAt(c)
    PROVE  ReadAt(c)'
<1>1. /\ Len(reports) \in Nat /\ Len(reports') \in Nat /\ Len(builds) \in Nat /\ Len(builds') \in Nat
      /\ topic.version \in Nat /\ topic'.version \in Nat
  BY DEF TopicRows, ArtifactRows
<1>2. c.pc \in TopicPC => c.version <= topic'.version
  BY <1>1 DEF ReadAt
<1>3. c.pc = "a:start" => c.snap \in 1 .. Len(reports')
  BY <1>1 DEF ReadAt
<1>4. c.pc \in ArchivePC => c.build \in 1 .. Len(builds')
  BY <1>1 DEF ReadAt
<1> QED
  BY <1>2, <1>3, <1>4 DEF ReadAt

LEMMA ReadNothing ==
    ASSUME NEW c, c.pc \notin SynthPC
    PROVE  ReadAt(c) /\ ReadAt(c)'
BY DEF ReadAt, SynthPC, ArtifactPC

LEMMA RowsGo ==
    ASSUME RowsInv, NEW p \in Procs, Acts(p), NEW r, proc'[p] = r, ReadAt(r)', TopicRows', ArtifactRows',
           topic.version <= topic'.version, Len(reports) <= Len(reports'), Len(builds) <= Len(builds')
    PROVE  RowsInv'
<1>1. WorkInv' /\ \A q \in Procs : q # p => proc'[q] = proc[q]
  BY ActsKeep DEF RowsInv, Acts
<1>2. ASSUME NEW q \in Procs, q # p PROVE ReadAt(proc[q])'
  <2>1. PICK c : c = proc[q]
    OBVIOUS
  <2>2. ReadAt(c) /\ proc'[q] = c
    BY <1>1, <1>2, <2>1 DEF RowsInv
  <2>3. ReadAt(c)'
    BY <2>2, ReadStays DEF RowsInv
  <2> QED
    BY <2>2, <2>3 DEF ReadAt
<1>3. ReadAt(proc[p])'
  BY DEF ReadAt
<1> QED
  BY <1>1, <1>2, <1>3 DEF RowsInv

LEMMA OthersKeepRows ==
    ASSUME RowsInv, WorkInv', OtherStep
    PROVE  RowsInv'
<1>1. UNCHANGED <<topic, reports, artifact, builds, pointer>>
  BY DEF OtherStep, topicVars, artifactVars
<1>2. TopicRows' /\ ArtifactRows'
  BY <1>1 DEF RowsInv, TopicRows, ArtifactRows
<1>3. ASSUME NEW q \in Procs PROVE ReadAt(proc[q])'
  <2>1. PICK c : c = proc'[q]
    OBVIOUS
  <2>2. CASE c = proc[q]
    BY <1>1, <2>1, <2>2 DEF RowsInv, ReadAt
  <2>3. CASE c.pc \notin SynthPC
    <3>1. ReadAt(c)'
      BY <2>3, ReadNothing
    <3> QED
      BY <2>1, <3>1 DEF ReadAt
  <2> QED
    BY <2>1, <2>2, <2>3, NotSynth DEF OtherStep
<1> QED
  BY <1>2, <1>3 DEF RowsInv

-----------------------------------------------------------------------------
(* The steps of the Topic. *)

LEMMA RelationsAre ==
    ASSUME NEW C
    PROVE  RelationsOf(C) \in SUBSET Relations /\ \A r \in RelationsOf(C) : graph.relations[r] # "rejected"
BY GraphAssumption DEF RelationsOf, Relations

LEMMA EvidenceOf ==
    ASSUME GraphRows, NEW found
    PROVE  EvidenceForSeeds(found) \in SUBSET Claims
<1>1. served # 0 => gens[served].claims \subseteq Claims
  BY GensTyped DEF GraphRows
<1> QED
  BY <1>1 DEF EvidenceForSeeds

\* The three reads of a synthesis.
ReadsOf(c, r) ==
    /\ r.version = c.version
    /\ \/ /\ c.pc = "t:search" /\ r.pc = "t:graph" /\ r.at = used["change"] /\ r.gen = c.gen
          /\ r.claims = c.claims /\ r.disputed = c.disputed /\ r.relations = c.relations
       \/ /\ c.pc = "t:graph" /\ r.pc = "t:claims" /\ r.at = c.at /\ r.gen = served
          /\ r.claims \in SUBSET Claims /\ r.disputed = c.disputed /\ r.relations = c.relations
       \/ /\ c.pc = "t:claims" /\ r.pc = "t:save" /\ r.at = c.at /\ r.gen = c.gen
          /\ r.claims = Presentable(c.claims) /\ r.relations = RelationsOf(r.claims)
          /\ r.disputed = {x \in r.claims : graph.claims[x] = "disputed" \/ Disputed(graph, x)}

LEMMA ReadDoes ==
    ASSUME RowsInv, GraphRows, NEW p \in Procs, NEW c, c = proc[p],
           SearchTopic(p) \/ FollowGraph(p) \/ LoadClaims(p)
    PROVE  /\ Acts(p) /\ ReadsOf(c, proc'[p]) /\ c.pc \in TopicPC /\ proc'[p].pc \in TopicPC
           /\ UNCHANGED <<topic, reports, withdrawn, used, lone, chunkVars>>
<1>1. SynthMoves(p) /\ DOMAIN proc = Procs
  BY TopicActs DEF TopicStep, RowsInv, WorkInv
<1>2. /\ c.pc \in TopicPC /\ UNCHANGED <<topic, reports, withdrawn, used, lone, chunkVars>>
  BY DEF SearchTopic, FollowGraph, LoadClaims, At, TopicPC, topicVars, Step
<1>3. TopicShape(c)
  BY <1>2, ShapeOf DEF RowsInv, WorkInv
<1>4. CASE SearchTopic(p)
  <2>1. PICK r : r = [c EXCEPT !.pc = "t:graph", !.found = ActiveChunks, !.at = used["change"]]
    OBVIOUS
  <2>2. proc'[p] = r /\ c.pc = "t:search"
    BY <1>1, <1>4, <2>1 DEF SearchTopic, Set, At
  <2>3. ReadsOf(c, r) /\ r.pc \in TopicPC
    BY <1>3, <2>1, <2>2 DEF ReadsOf, TopicShape, Has, TopicPC
  <2> QED
    BY <1>1, <1>2, <2>2, <2>3 DEF SynthMoves
<1>5. CASE FollowGraph(p)
  <2>1. PICK C : C = EvidenceForSeeds(c.found)
    OBVIOUS
  <2>2. PICK r : r = [c EXCEPT !.pc = "t:claims", !.found = {}, !.gen = served, !.claims = C]
    OBVIOUS
  <2>3. proc'[p] = r /\ c.pc = "t:graph" /\ C \in SUBSET Claims
    BY <1>1, <1>5, <2>1, <2>2, EvidenceOf DEF FollowGraph, Set, At
  <2>4. ReadsOf(c, r) /\ r.pc \in TopicPC
    BY <1>3, <2>2, <2>3 DEF ReadsOf, TopicShape, Has, TopicPC
  <2> QED
    BY <1>1, <1>2, <2>3, <2>4 DEF SynthMoves
<1>6. CASE LoadClaims(p)
  <2>1. PICK C : C = Presentable(c.claims)
    OBVIOUS
  <2>2. PICK D : D = {x \in C : graph.claims[x] = "disputed" \/ Disputed(graph, x)}
    OBVIOUS
  <2>3. PICK r : r = [c EXCEPT !.pc = "t:save", !.claims = C, !.relations = RelationsOf(C), !.disputed = D]
    OBVIOUS
  <2>4. proc'[p] = r /\ c.pc = "t:claims"
    BY <1>1, <1>6, <2>1, <2>2, <2>3 DEF LoadClaims, Set, At
  <2>5. ReadsOf(c, r) /\ r.pc \in TopicPC
    BY <1>3, <2>1, <2>2, <2>3, <2>4 DEF ReadsOf, TopicShape, Has, TopicPC
  <2> QED
    BY <1>1, <1>2, <2>4, <2>5 DEF SynthMoves
<1> QED
  BY <1>4, <1>5, <1>6

\* A synthesis starts, or a snapshot is rendered.
StartsWith(r) ==
    \/ r.pc = "a:start" /\ r.snap = topic.latest /\ topic.latest # 0
    \/ /\ r.pc = "t:search" /\ r.version = topic.version /\ r.claims = {} /\ r.disputed = {}
       /\ r.relations = {} /\ r.gen = 0 /\ r.at = 0
LEMMA StartDoes ==
    ASSUME RowsInv, NEW p \in Procs, StartTopicBuild(p) \/ StartRender(p)
    PROVE  /\ Acts(p) /\ proc[p] = Idle /\ StartsWith(proc'[p])
           /\ UNCHANGED <<topic, reports, withdrawn, chunkVars>>
           /\ used'["change"] = used["change"] /\ used'["fault"] = used["fault"]
           /\ (lone' => lone /\ Busy = {})
<1>1. PICK k, r :
        /\ k \in Counted \ {"change", "fault"} /\ Start(p, k, r)
        /\ \/ r = [pc |-> "a:start", snap |-> topic.latest] /\ topic.latest # 0
           \/ r = [pc |-> "t:search", version |-> topic.version, found |-> {},
                   claims |-> {}, disputed |-> {}, relations |-> {}, gen |-> 0, at |-> 0]
  BY DEF StartTopicBuild, StartRender, Counted
<1>2. Shape(r) /\ r.pc \in SynthPC /\ StartsWith(r)
  BY <1>1 DEF Shape, TopicShape, ArtifactShape, Has, TopicPC, ArtifactPC, SynthPC, StartsWith
<1>3. SynthMoves(p) /\ proc'[p] = r /\ proc[p] = Idle
  BY <1>1, <1>2, SynthStart DEF RowsInv
<1>4. Spend(k) /\ lone' = (lone /\ Busy = {})
  BY <1>1 DEF Start, Begin, Launch
<1>5. {"change", "fault"} \subseteq Kinds
  BY CountedAssumption DEF Counted
<1>6. used'["change"] = used["change"] /\ used'["fault"] = used["fault"]
  BY <1>1, <1>4, <1>5, SpendDoes DEF RowsInv
<1>7. UNCHANGED <<topic, reports, withdrawn>>
  BY DEF StartTopicBuild, StartRender, topicVars
<1> QED
  BY <1>2, <1>3, <1>4, <1>6, <1>7 DEF SynthMoves

\* A report is saved under the version that was read, or left.
LEMMA SaveDoes ==
    ASSUME RowsInv, GraphRows, NEW p \in Procs, NEW c, c = proc[p], SaveReport(p)
    PROVE  /\ Acts(p) /\ c.pc = "t:save" /\ UNCHANGED <<withdrawn, used, lone, chunkVars>>
           /\ \/ /\ topic.version = c.version /\ proc'[p].pc = "a:start"
                 /\ proc'[p].snap = Len(reports) + 1
                 /\ reports' = Append(reports, [gen |-> c.gen, at |-> c.at, claims |-> c.claims,
                                                disputed |-> c.disputed, relations |-> c.relations])
                 /\ topic' = [topic EXCEPT !.status = "active", !.why = NoReason,
                                           !.latest = Len(reports) + 1]
              \/ proc'[p] = Idle /\ UNCHANGED <<topic, reports>>
<1>1. SynthMoves(p) /\ DOMAIN proc = Procs
  BY TopicActs DEF TopicStep, RowsInv, WorkInv
<1>2. c.pc = "t:save" /\ UNCHANGED <<withdrawn, used, lone, chunkVars>>
  BY DEF SaveReport, At, Step
<1>3. CASE topic.version = c.version
  <2>1. /\ Set(p, [pc |-> "a:start", snap |-> Len(reports) + 1])
        /\ reports' = Append(reports, NewReport(p))
        /\ topic' = [topic EXCEPT !.status = "active", !.why = NoReason, !.latest = Len(reports) + 1]
    BY <1>3 DEF SaveReport
  <2> QED
    BY <1>1, <1>2, <1>3, <2>1 DEF SynthMoves, Set, NewReport
<1>4. CASE topic.version # c.version
  <2>1. Set(p, Idle) /\ UNCHANGED <<topic, reports>>
    BY <1>4 DEF SaveReport
  <2> QED
    BY <1>1, <1>2, <2>1 DEF SynthMoves, Set
<1> QED
  BY <1>3, <1>4

\* A report is one more row.
LEMMA SavedRows ==
    ASSUME RowsInv, GraphRows, NEW p \in Procs, NEW c, c = proc[p], c.pc = "t:save",
           NEW y, y = [gen |-> c.gen, at |-> c.at, claims |-> c.claims, disputed |-> c.disputed,
                       relations |-> c.relations],
           reports' = Append(reports, y),
           topic' = [topic EXCEPT !.status = "active", !.why = NoReason, !.latest = Len(reports) + 1]
    PROVE  /\ TopicRows' /\ DOMAIN reports' = DOMAIN reports \cup {Len(reports) + 1}
           /\ Len(reports') = Len(reports) + 1 /\ reports'[Len(reports) + 1] = y
           /\ \A n \in DOMAIN reports : reports'[n] = reports[n]
           /\ topic'.version = topic.version /\ topic'.latest = Len(reports) + 1
           /\ topic'.status = "active"
<1>1. reports \in Seq(Made) /\ TopicRows /\ ReadAt(c)
  BY DEF RowsInv, TopicRows
<1>2. y \in Made
  BY <1>1 DEF ReadAt, Made, TopicPC
<1>3. /\ reports' \in Seq(Made) /\ Len(reports') = Len(reports) + 1 /\ Len(reports) \in Nat
      /\ reports'[Len(reports) + 1] = y /\ \A n \in DOMAIN reports : reports'[n] = reports[n]
      /\ DOMAIN reports' = DOMAIN reports \cup {Len(reports) + 1}
  BY <1>1, <1>2
<1>4. /\ DOMAIN topic' = DOMAIN topic /\ topic'.version = topic.version
      /\ topic'.latest = Len(reports) + 1 /\ topic'.status = "active"
  BY <1>1 DEF TopicRows
<1> QED
  BY <1>1, <1>3, <1>4 DEF TopicRows

LEMMA TopicKeepsRows ==
    ASSUME RowsInv, GraphRows, NEW p \in Procs, TopicStep(p), UNCHANGED artifactVars
    PROVE  RowsInv'
<1>1. PICK c : c = proc[p]
  OBVIOUS
<1>2. PICK r : r = proc'[p]
  OBVIOUS
<1>3. /\ TopicRows /\ ArtifactRows /\ ReadAt(c) /\ UNCHANGED <<artifact, builds, pointer>>
      /\ Len(reports) \in Nat /\ Len(builds) \in Nat /\ topic.version \in Nat
  BY <1>1 DEF RowsInv, artifactVars, TopicRows, ArtifactRows
<1>4. CASE SearchTopic(p) \/ FollowGraph(p) \/ LoadClaims(p)
  <2>1. /\ Acts(p) /\ ReadsOf(c, r) /\ c.pc \in TopicPC /\ r.pc \in TopicPC
        /\ UNCHANGED <<topic, reports>>
    BY <1>1, <1>2, <1>4, ReadDoes
  <2>2. TopicRows' /\ ArtifactRows'
    BY <1>3, <2>1 DEF TopicRows, ArtifactRows
  <2>3. r.pc \notin {"a:start"} \cup ArchivePC
    BY <2>1 DEF TopicPC, ArchivePC
  <2>4. used["change"] \in Nat /\ served \in Nat
    <3>1. "change" \in Kinds
      BY CountedAssumption DEF Counted
    <3>2. served # 0 => served \in 1 .. Len(gens) /\ Len(gens) \in Nat
      BY GensTyped DEF GraphRows
    <3> QED
      BY <3>1, <3>2 DEF RowsInv, WorkInv
  <2>5. Presentable(c.claims) \subseteq c.claims /\ RelationsOf(r.claims) \in SUBSET Relations
    BY RelationsAre DEF Presentable
  <2>6. ReadAt(r)'
    BY <1>3, <2>1, <2>3, <2>4, <2>5 DEF ReadAt, ReadsOf
  <2> QED
    BY <1>2, <1>3, <2>1, <2>2, <2>6, RowsGo
<1>5. CASE StartTopicBuild(p) \/ StartRender(p)
  <2>1. Acts(p) /\ StartsWith(r) /\ UNCHANGED <<topic, reports>>
    BY <1>2, <1>5, StartDoes
  <2>2. TopicRows' /\ ArtifactRows'
    BY <1>3, <2>1 DEF TopicRows, ArtifactRows
  <2>3. ReadAt(r)'
    BY <1>3, <2>1 DEF ReadAt, StartsWith, TopicPC, ArchivePC, TopicRows
  <2> QED
    BY <1>2, <1>3, <2>1, <2>2, <2>3, RowsGo
<1>6. CASE SaveReport(p)
  <2>1. /\ Acts(p) /\ c.pc = "t:save"
        /\ \/ /\ topic.version = c.version /\ r.pc = "a:start" /\ r.snap = Len(reports) + 1
              /\ reports' = Append(reports, [gen |-> c.gen, at |-> c.at, claims |-> c.claims,
                                             disputed |-> c.disputed, relations |-> c.relations])
              /\ topic' = [topic EXCEPT !.status = "active", !.why = NoReason,
                                        !.latest = Len(reports) + 1]
           \/ r = Idle /\ UNCHANGED <<topic, reports>>
    BY <1>1, <1>2, <1>6, SaveDoes
  <2>2. CASE r = Idle /\ UNCHANGED <<topic, reports>>
    <3>1. TopicRows' /\ ArtifactRows'
      BY <1>3, <2>2 DEF TopicRows, ArtifactRows
    <3>2. ReadAt(r)'
      BY <2>2, ReadNothing, NotSynth, IdleShape
    <3>3. topic.version <= topic'.version /\ Len(reports) <= Len(reports') /\ Len(builds) <= Len(builds')
      BY <1>3, <2>2
    <3> QED
      BY ONLY RowsInv, p \in Procs, <1>2, <2>1, <3>1, <3>2, <3>3, RowsGo
  <2>3. CASE reports' # reports
    <3>1. PICK y : y = [gen |-> c.gen, at |-> c.at, claims |-> c.claims, disputed |-> c.disputed,
                      relations |-> c.relations]
      OBVIOUS
    <3>2. /\ TopicRows' /\ Len(reports') = Len(reports) + 1 /\ topic'.version = topic.version
      BY <1>1, <2>1, <2>3, <3>1, SavedRows
    <3>3. ArtifactRows'
      BY <1>3, <3>2 DEF ArtifactRows
    <3>4. ReadAt(r)'
      BY <1>3, <2>1, <2>3, <3>2 DEF ReadAt, TopicPC, ArchivePC
    <3> QED
      BY <1>2, <1>3, <2>1, <3>2, <3>3, <3>4, RowsGo
  <2>4. reports' = reports => r = Idle /\ UNCHANGED <<topic, reports>>
    <3>1. \A y : Append(reports, y) # reports
      BY <1>3 DEF TopicRows
    <3> QED
      BY <2>1, <3>1
  <2> QED
    BY <2>2, <2>3, <2>4
<1> QED
  BY <1>4, <1>5, <1>6 DEF TopicStep

\* What happens to the Topic from outside: its status changes, and its version.
Remarked ==
    /\ DOMAIN topic' = DOMAIN topic /\ topic'.latest = topic.latest
    /\ topic'.version \in {topic.version, topic.version + 1}
    /\ topic'.status \in {"none", "active", "stale", "needs_review"}
    /\ topic'.status = "none" => topic.status = "none"
    /\ topic'.status = "active" => topic = topic' \/ topic.latest = 0
LEMMA MarkDoes ==
    ASSUME RowsInv,
           (CreateTopic \/ UpdateTopic) \/ (\E p \in Procs : InvalidateTopics(p)) \/ Moderate
    PROVE  Remarked /\ UNCHANGED reports
<1>1. /\ DOMAIN topic = {"status", "version", "latest", "why"}
      /\ topic.status \in {"none", "active", "stale", "needs_review"}
      /\ topic.status = "none" => topic.latest = 0
  BY DEF RowsInv, TopicRows
<1>2. CASE CreateTopic
  <2>1. topic.status = "none" /\ topic' = [topic EXCEPT !.status = "active"] /\ UNCHANGED reports
    BY <1>2 DEF CreateTopic
  <2> QED
    BY <1>1, <2>1 DEF Remarked
<1>3. CASE UpdateTopic
  <2>1. /\ \E s, w : /\ topic' = [topic EXCEPT !.version = @ + 1, !.status = s, !.why = w]
                     /\ s = IF topic.latest = 0 THEN "active" ELSE "stale"
        /\ UNCHANGED reports
    BY <1>3 DEF UpdateTopic
  <2> QED
    BY <1>1, <2>1 DEF Remarked
<1>4. CASE \E p \in Procs : InvalidateTopics(p)
  <2>1. topic' = MarkTopic(topic) /\ UNCHANGED reports
    BY <1>4 DEF InvalidateTopics
  <2>2. topic' = topic \/ \E w : topic' = [topic EXCEPT !.status = "stale", !.why = w]
    BY <2>1 DEF MarkTopic
  <2> QED
    BY <1>1, <2>1, <2>2 DEF Remarked
<1>5. CASE Moderate
  <2>1. PICK C, s, w : Reviewed(C, s, w) /\ s \in {"needs_review", "stale"} /\ UNCHANGED reports
    BY <1>5 DEF Moderate
  <2>2. topic' = topic \/ topic' = [topic EXCEPT !.status = s, !.why = w, !.version = @ + 1]
    BY <2>1 DEF Reviewed
  <2> QED
    BY <1>1, <2>1, <2>2 DEF Remarked
<1> QED
  BY <1>2, <1>3, <1>4, <1>5

LEMMA MarkKeepsRows ==
    ASSUME RowsInv, WorkInv',
           \/ (CreateTopic \/ UpdateTopic) /\ UNCHANGED artifactVars
           \/ (\E p \in Procs : InvalidateTopics(p)) /\ UNCHANGED artifactVars
           \/ Moderate
    PROVE  RowsInv'
<1>1. Remarked /\ UNCHANGED reports
  BY MarkDoes
<1>2. TopicRows /\ ArtifactRows /\ Len(reports) \in Nat /\ Len(builds) \in Nat /\ topic.version \in Nat
  BY DEF RowsInv, TopicRows, ArtifactRows
<1>3. TopicRows' /\ topic.version <= topic'.version
  BY <1>1, <1>2 DEF Remarked, TopicRows
<1>4. UNCHANGED <<builds, pointer>> /\ (artifact' = artifact \/ artifact' = [artifact EXCEPT !.status = "stale"])
  <2>1. CASE Moderate
    <3>1. PICK C, s, w : Reviewed(C, s, w) /\ UNCHANGED <<builds, pointer>>
      BY <2>1 DEF Moderate
    <3> QED
      BY <3>1 DEF Reviewed
  <2> QED
    BY <2>1 DEF artifactVars
<1>5. ArtifactRows'
  BY <1>1, <1>2, <1>4 DEF ArtifactRows
<1>6. ASSUME NEW q \in Procs PROVE proc'[q] = proc[q] \/ proc'[q].pc \notin SynthPC
  <2>1. CASE CreateTopic \/ UpdateTopic \/ Moderate
    BY <2>1, AtomicActs DEF RowsInv, Outside
  <2>2. ASSUME NEW p \in Procs, InvalidateTopics(p) PROVE proc'[q] = proc[q] \/ proc'[q].pc \notin SynthPC
    <3>1. Acts(p) /\ proc'[p].pc \in {"idle", "v:refresh"}
      BY <2>2, InvalidateActs, IdleShape DEF RowsInv, AfterShape, Has
    <3> QED
      BY <3>1, NotSynth DEF Acts, VectorPC
  <2> QED
    BY <2>1, <2>2
<1>7. ASSUME NEW q \in Procs PROVE ReadAt(proc[q])'
  <2>1. PICK c : c = proc'[q]
    OBVIOUS
  <2>2. ReadAt(c)'
    <3>1. CASE c = proc[q]
      <4>1. ReadAt(c)
        BY <3>1 DEF RowsInv
      <4> QED
        BY <1>1, <1>2, <1>3, <1>4, <1>5, <4>1, ReadStays
    <3> QED
      BY <1>6, <2>1, <3>1, ReadNothing
  <2> QED
    BY <2>1, <2>2 DEF ReadAt
<1> QED
  BY <1>3, <1>5, <1>7 DEF RowsInv

-----------------------------------------------------------------------------
(* The steps of the Artifact. *)

\* One row of the builds is written.
LEMMA RowWritten ==
    ASSUME ArtifactRows, UNCHANGED reports, NEW n \in 1 .. Len(builds), NEW y \in Build,
           y.snap = builds[n].snap, builds' = [builds EXCEPT ![n] = y]
    PROVE  /\ builds' \in Seq(Build) /\ Len(builds') = Len(builds) /\ DOMAIN builds' = DOMAIN builds
           /\ builds'[n] = y /\ \A b \in DOMAIN builds : b # n => builds'[b] = builds[b]
           /\ \A b \in DOMAIN builds : builds'[b].snap = builds[b].snap
           /\ \A b \in DOMAIN builds' : builds'[b].snap \in 1 .. Len(reports')
<1>1. builds \in Seq(Build) /\ n \in DOMAIN builds
  BY DEF ArtifactRows
<1>2. /\ builds' \in Seq(Build) /\ Len(builds') = Len(builds) /\ DOMAIN builds' = DOMAIN builds
      /\ builds'[n] = y /\ \A b \in DOMAIN builds : b # n => builds'[b] = builds[b]
  BY <1>1
<1>3. \A b \in DOMAIN builds : builds'[b].snap = builds[b].snap
  BY <1>2
<1> QED
  BY <1>2, <1>3 DEF ArtifactRows

\* A build is started, its archive is written and published, it is ready,
\* latest.json names it, it fails.
StartsBuild(c, r) ==
    /\ c.pc = "a:start" /\ r.pc = "a:write" /\ r.build = Len(builds) + 1 /\ UNCHANGED pointer
    /\ builds' = Append(builds, [state |-> "building", files |-> "none", snap |-> c.snap,
                                 parent |-> artifact.latest])
    /\ artifact' = IF artifact.status = "none" THEN [artifact EXCEPT !.status = "stale"] ELSE artifact
WritesBuild(c, r) ==
    /\ r.build = c.build /\ UNCHANGED <<artifact, pointer>>
    /\ \/ /\ c.pc = "a:write" /\ r.pc = "a:publish"
          /\ builds' = [builds EXCEPT ![c.build] = [builds[c.build] EXCEPT !.files = "temporary"]]
       \/ /\ c.pc = "a:publish" /\ r.pc = "a:finish"
          /\ builds' = [builds EXCEPT ![c.build] = [builds[c.build] EXCEPT !.files = "published"]]
FinishesBuild(c, r) ==
    /\ c.pc = "a:finish" /\ r.pc = "a:pointer" /\ r.build = c.build /\ UNCHANGED pointer
    /\ builds' = [builds EXCEPT ![c.build] =
                    [builds[c.build] EXCEPT !.state = IF @ = "building" THEN "ready" ELSE @]]
    /\ artifact' = [status |-> "ready", latest |-> c.build]
NamesBuild(c, r) ==
    c.pc = "a:pointer" /\ r = Idle /\ pointer' = c.build /\ UNCHANGED <<builds, artifact>>
FailsBuild(c, r) ==
    /\ c.pc = "a:failed" /\ r = Idle /\ UNCHANGED <<artifact, pointer>>
    /\ builds' = [builds EXCEPT ![c.build] = FailBuilding(RemoveTemporary(builds[c.build]))]
ThrowsBuild(c, r) ==
    /\ c.pc \in ArchivePC \ {"a:failed"} /\ r.pc = "a:failed" /\ r.build = c.build
    /\ UNCHANGED artifactVars

LEMMA ArtifactDoes ==
    ASSUME RowsInv, NEW p \in Procs, NEW c, c = proc[p], NEW r, r = proc'[p], ArtifactStep(p)
    PROVE  /\ Acts(p) /\ UNCHANGED <<lone, chunkVars>>
           /\ \/ /\ UNCHANGED used
                 /\ \/ StartsBuild(c, r) \/ WritesBuild(c, r) \/ FinishesBuild(c, r) \/ NamesBuild(c, r)
                    \/ FailsBuild(c, r)
              \/ used'["fault"] # 0 /\ used'["change"] = used["change"] /\ ThrowsBuild(c, r)
<1>1. Acts(p) /\ UNCHANGED chunkVars /\ DOMAIN proc = Procs /\ Shape(c)
  BY ArtifactActs DEF RowsInv, WorkInv, SynthMoves
<1>2. c.pc \in ArchivePC => DOMAIN c = {"pc", "build"}
  BY <1>1, ShapeOf DEF ArtifactShape, Has, ArtifactPC, ArchivePC
<1>3. CASE StartArtifact(p)
  BY <1>1, <1>3 DEF StartArtifact, StartsBuild, At, Set, Step
<1>4. CASE WriteArchive(p)
  <2>1. CASE c.pc = "a:write"
    <3>1. /\ builds' = [builds EXCEPT ![c.build].files = "temporary"]
          /\ proc' = [proc EXCEPT ![p] = [c EXCEPT !.pc = "a:publish"]]
          /\ UNCHANGED <<artifact, pointer, used, lone>>
      BY <1>4, <2>1 DEF WriteArchive, At, Goto, Set, Step
    <3> QED
      BY <1>1, <1>2, <2>1, <3>1 DEF WritesBuild, ArchivePC
  <2>2. CASE c.pc = "a:publish"
    <3>1. /\ builds' = [builds EXCEPT ![c.build].files = "published"]
          /\ proc' = [proc EXCEPT ![p] = [c EXCEPT !.pc = "a:finish"]]
          /\ UNCHANGED <<artifact, pointer, used, lone>>
      BY <1>4, <2>2 DEF WriteArchive, At, Goto, Set, Step
    <3> QED
      BY <1>1, <1>2, <2>2, <3>1 DEF WritesBuild, ArchivePC
  <2> QED
    BY <1>4, <2>1, <2>2 DEF WriteArchive
<1>5. CASE FinishArtifact(p)
  <2>1. /\ builds' = [builds EXCEPT ![c.build].state = IF @ = "building" THEN "ready" ELSE @]
        /\ artifact' = [status |-> "ready", latest |-> c.build] /\ c.pc = "a:finish"
        /\ proc' = [proc EXCEPT ![p] = [c EXCEPT !.pc = "a:pointer"]]
        /\ UNCHANGED <<pointer, used, lone>>
    BY <1>5 DEF FinishArtifact, At, Goto, Set, Step
  <2> QED
    BY <1>1, <1>2, <2>1 DEF FinishesBuild, ArchivePC
<1>6. CASE UpdatePointers(p)
  BY <1>1, <1>6 DEF UpdatePointers, NamesBuild, At, Set, Step
<1>7. CASE FailArtifact(p)
  BY <1>1, <1>7 DEF FailArtifact, FailsBuild, At, Set, Step
<1>8. CASE ArtifactThrows(p)
  <2>1. /\ c.pc \in ArchivePC \ {"a:failed"} /\ Spend("fault")
        /\ proc' = [proc EXCEPT ![p] = [c EXCEPT !.pc = "a:failed"]]
        /\ UNCHANGED <<artifactVars, lone>>
    BY <1>8 DEF ArtifactThrows, Throw, Goto, Set, ArchivePC
  <2>2. used'["fault"] # 0 /\ used'["change"] = used["change"]
    <3>1. "change" \in Kinds
      BY CountedAssumption DEF Counted
    <3> QED
      BY <2>1, <3>1, SpendDoes DEF RowsInv, Counted
  <2> QED
    BY <1>1, <1>2, <2>1, <2>2 DEF ThrowsBuild
<1> QED
  BY <1>3, <1>4, <1>5, <1>6, <1>7, <1>8 DEF ArtifactStep

\* The steps that write a row of the builds.
LEMMA RowOf ==
    ASSUME RowsInv, UNCHANGED reports, NEW p \in Procs, NEW c, c = proc[p], NEW r,
           WritesBuild(c, r) \/ FinishesBuild(c, r) \/ FailsBuild(c, r)
    PROVE  LET n == c.build IN
           /\ n \in 1 .. Len(builds) /\ c.pc \in ArchivePC
           /\ builds' \in Seq(Build) /\ Len(builds') = Len(builds) /\ DOMAIN builds' = DOMAIN builds
           /\ \A b \in DOMAIN builds : b # n => builds'[b] = builds[b]
           /\ \A b \in DOMAIN builds : builds'[b].snap = builds[b].snap
           /\ \A b \in DOMAIN builds' : builds'[b].snap \in 1 .. Len(reports')
           /\ WritesBuild(c, r) => builds'[n].state = builds[n].state
           /\ c.pc = "a:write" => builds'[n].files = "temporary"
           /\ c.pc = "a:publish" => builds'[n].files = "published"
           /\ c.pc = "a:finish" => builds'[n].files = builds[n].files
                /\ builds'[n].state = IF builds[n].state = "building" THEN "ready" ELSE builds[n].state
           /\ c.pc = "a:failed" =>
                /\ builds'[n].state = IF builds[n].state = "building" THEN "failed" ELSE builds[n].state
                /\ builds'[n].files = IF builds[n].files = "temporary" THEN "none" ELSE builds[n].files
<1>1. PICK n : n = c.build
  OBVIOUS
<1>2. ArtifactRows /\ ReadAt(c) /\ c.pc \in {"a:write", "a:publish", "a:finish", "a:failed"}
  BY DEF RowsInv, WritesBuild, FinishesBuild, FailsBuild
<1>3. n \in 1 .. Len(builds) /\ c.pc \in ArchivePC
  BY <1>1, <1>2 DEF ReadAt, ArchivePC
<1>4. builds[n] \in Build
  BY <1>2, <1>3 DEF ArtifactRows
<1>5. PICK y : /\ builds' = [builds EXCEPT ![n] = y]
               /\ \/ /\ c.pc = "a:write" /\ y = [builds[n] EXCEPT !.files = "temporary"]
                  \/ /\ c.pc = "a:publish" /\ y = [builds[n] EXCEPT !.files = "published"]
                  \/ /\ c.pc = "a:finish"
                     /\ y = [builds[n] EXCEPT !.state = IF @ = "building" THEN "ready" ELSE @]
                  \/ /\ c.pc = "a:failed" /\ y = FailBuilding(RemoveTemporary(builds[n]))
  BY <1>1 DEF WritesBuild, FinishesBuild, FailsBuild
<1>6. /\ y \in Build /\ y.snap = builds[n].snap
      /\ c.pc \in {"a:write", "a:publish"} => y.state = builds[n].state
      /\ c.pc = "a:write" => y.files = "temporary"
      /\ c.pc = "a:publish" => y.files = "published"
      /\ c.pc = "a:finish" => y.files = builds[n].files
           /\ y.state = IF builds[n].state = "building" THEN "ready" ELSE builds[n].state
      /\ c.pc = "a:failed" =>
           /\ y.state = IF builds[n].state = "building" THEN "failed" ELSE builds[n].state
           /\ y.files = IF builds[n].files = "temporary" THEN "none" ELSE builds[n].files
  BY <1>4, <1>5 DEF Build, FailBuilding, RemoveTemporary
<1>7. /\ builds' \in Seq(Build) /\ Len(builds') = Len(builds) /\ DOMAIN builds' = DOMAIN builds
      /\ builds'[n] = y /\ \A b \in DOMAIN builds : b # n => builds'[b] = builds[b]
      /\ \A b \in DOMAIN builds : builds'[b].snap = builds[b].snap
      /\ \A b \in DOMAIN builds' : builds'[b].snap \in 1 .. Len(reports')
  BY <1>2, <1>3, <1>5, <1>6, RowWritten
<1>8. WritesBuild(c, r) => c.pc \in {"a:write", "a:publish"}
  BY DEF WritesBuild
<1> QED
  BY <1>1, <1>3, <1>6, <1>7, <1>8

LEMMA ArtifactKeepsRows ==
    ASSUME RowsInv, NEW p \in Procs, ArtifactStep(p), UNCHANGED topicVars
    PROVE  RowsInv'
<1>1. PICK c : c = proc[p]
  OBVIOUS
<1>2. PICK r : r = proc'[p]
  OBVIOUS
<1>3. /\ TopicRows /\ ArtifactRows /\ ReadAt(c) /\ UNCHANGED <<topic, reports>>
      /\ Len(reports) \in Nat /\ Len(builds) \in Nat /\ topic.version \in Nat /\ TopicRows'
  BY <1>1 DEF RowsInv, topicVars, TopicRows, ArtifactRows
<1>4. /\ Acts(p)
      /\ \/ StartsBuild(c, r) \/ WritesBuild(c, r) \/ FinishesBuild(c, r) \/ NamesBuild(c, r)
         \/ FailsBuild(c, r) \/ ThrowsBuild(c, r)
  BY <1>1, <1>2, ArtifactDoes
<1>5. r = Idle => ReadAt(r)'
  BY ReadNothing, NotSynth, IdleShape
<1>6. ArtifactRows' /\ Len(builds) <= Len(builds') /\ ReadAt(r)'
  <2>1. CASE StartsBuild(c, r)
    <3>1. PICK y : y = [state |-> "building", files |-> "none", snap |-> c.snap, parent |-> artifact.latest]
      OBVIOUS
    <3>2. /\ builds' = Append(builds, y) /\ UNCHANGED pointer /\ c.pc = "a:start"
          /\ r.build = Len(builds) + 1 /\ r.pc = "a:write"
      BY <2>1, <3>1 DEF StartsBuild
    <3>3. y \in Build /\ y.snap \in 1 .. Len(reports)
      BY <1>3, <3>1, <3>2 DEF ReadAt, Build, ArtifactRows
    <3>4. /\ builds' \in Seq(Build) /\ Len(builds') = Len(builds) + 1
          /\ \A b \in DOMAIN builds' : builds'[b] = IF b = Len(builds) + 1 THEN y ELSE builds[b]
          /\ DOMAIN builds' = DOMAIN builds \cup {Len(builds) + 1}
      <4>1. builds \in Seq(Build)
        BY <1>3 DEF ArtifactRows
      <4>2. builds' \in Seq(Build) /\ Len(builds') = Len(builds) + 1 /\ Len(builds) \in Nat
        BY <3>2, <3>3, <4>1
      <4>3. DOMAIN builds' = 1 .. Len(builds) + 1 /\ DOMAIN builds = 1 .. Len(builds)
        BY <4>1, <4>2
      <4>4. builds'[Len(builds) + 1] = y /\ \A b \in 1 .. Len(builds) : builds'[b] = builds[b]
        BY <3>2, <4>1, <4>2
      <4>5. DOMAIN builds' = DOMAIN builds \cup {Len(builds) + 1}
        BY <4>2, <4>3
      <4>6. \A b \in DOMAIN builds' : builds'[b] = IF b = Len(builds) + 1 THEN y ELSE builds[b]
        BY <4>3, <4>4, <4>5
      <4> QED
        BY <4>2, <4>5, <4>6
    <3>5. /\ DOMAIN artifact' = DOMAIN artifact /\ artifact'.latest = artifact.latest
          /\ artifact'.status \in {"stale", artifact.status}
      BY <1>3, <2>1 DEF StartsBuild, ArtifactRows
    <3>6. ArtifactRows'
      BY <1>3, <3>2, <3>3, <3>4, <3>5 DEF ArtifactRows
    <3>7. ReadAt(r)'
      BY <1>3, <3>2, <3>4 DEF ReadAt, TopicPC
    <3> QED
      BY <1>3, <3>4, <3>6, <3>7
  <2>2. CASE WritesBuild(c, r) \/ FinishesBuild(c, r) \/ FailsBuild(c, r)
    <3>1. /\ c.build \in 1 .. Len(builds) /\ c.pc \in ArchivePC
          /\ builds' \in Seq(Build) /\ Len(builds') = Len(builds)
          /\ \A b \in DOMAIN builds' : builds'[b].snap \in 1 .. Len(reports')
      BY <1>1, <1>3, <2>2, RowOf
    <3>2. UNCHANGED pointer /\ (UNCHANGED artifact \/ artifact' = [status |-> "ready", latest |-> c.build])
      BY <2>2 DEF WritesBuild, FinishesBuild, FailsBuild
    <3>3. ArtifactRows'
      BY <1>3, <3>1, <3>2 DEF ArtifactRows
    <3>4. r = Idle \/ (r.pc \in {"a:publish", "a:finish", "a:pointer"} /\ r.build = c.build)
      BY <2>2 DEF WritesBuild, FinishesBuild, FailsBuild
    <3>5. ReadAt(r)'
      BY <1>5, <3>1, <3>4 DEF ReadAt, TopicPC
    <3> QED
      BY <1>3, <3>1, <3>3, <3>5
  <2>3. CASE NamesBuild(c, r)
    <3>1. c.build \in 1 .. Len(builds) /\ UNCHANGED <<builds, artifact>> /\ pointer' = c.build
      BY <1>3, <2>3 DEF NamesBuild, ReadAt, ArchivePC
    <3> QED
      BY <1>3, <1>5, <2>3, <3>1 DEF ArtifactRows, NamesBuild
  <2>4. CASE ThrowsBuild(c, r)
    <3>1. c.build \in 1 .. Len(builds) /\ UNCHANGED <<builds, artifact, pointer>>
      BY <1>3, <2>4 DEF ThrowsBuild, ReadAt, artifactVars
    <3>2. ReadAt(r)'
      BY <2>4, <3>1 DEF ReadAt, ThrowsBuild, TopicPC
    <3> QED
      BY <1>3, <3>1, <3>2 DEF ArtifactRows
  <2> QED
    BY <1>4, <2>1, <2>2, <2>3, <2>4
<1> QED
  BY <1>2, <1>3, <1>4, <1>6, RowsGo

LEMMA RowsSteps ==
    ASSUME RowsInv, GraphRows, [Next]_vars
    PROVE  RowsInv'
<1>1. WorkInv /\ WorkInv'
  BY WorkSteps DEF RowsInv
<1> QED
  BY <1>1, StepsOf, OthersKeepRows, MarkKeepsRows, TopicKeepsRows, ArtifactKeepsRows

-----------------------------------------------------------------------------
(* What is true of the Artifact stays so. *)

\* Commands do not come one after another again, and failures stay counted.
LEMMA CalmStays ==
    ASSUME WorkInv, [Next]_vars
    PROVE  (lone' => lone) /\ (Calm' => Calm)
<1> DEFINE Goal == (lone' => lone) /\ Counts
<1>1. CASE UNCHANGED vars
  <2>1. Goal
    BY <1>1, SpendNothing DEF vars, commandVars, workVars
  <2> QED
    BY <1>1 DEF vars, commandVars, workVars, Calm
<1>2. "fault" \in Kinds /\ \A k \in Kinds : used[k] \in Nat
  BY CountedAssumption DEF Counted, WorkInv
<1>3. CASE CreateSpace \/ CreateVectorPlan \/ CreatePlan \/ Moderate \/ CreateTopic \/ UpdateTopic \/ Drift
  <2>1. Goal
    BY <1>3, AtomicActs, DriftDoes, OutsideKeeps DEF Outside
  <2> QED
    BY <1>2, <2>1 DEF Calm, Counts
<1>4. ASSUME NEW p \in Procs,
             \/ VectorStep(p) \/ GraphStep(p) \/ ApplyPlan(p) \/ InvalidateTopics(p) \/ TopicStep(p)
             \/ ArtifactStep(p) \/ Publish(p) \/ Kill(p)
      PROVE  (lone' => lone) /\ (Calm' => Calm)
  <2>1. Acts(p)
    BY <1>4, VectorActs, GraphActs, PlanActs, InvalidateActs, TopicActs, ArtifactActs, PublishActs,
       KillActs DEF VectorMoves, GraphMoves, SynthMoves
  <2>2. Goal
    BY <2>1, ActsKeep DEF Acts
  <2> QED
    BY <1>2, <2>2 DEF Calm, Counts
<1> QED
  BY <1>1, <1>3, <1>4 DEF Next

LEMMA BroughtNowhere ==
    ASSUME NEW c, c.pc \notin SynthPC
    PROVE  /\ Brought(c) /\ Brought(c)' /\ FollowAt(c) /\ FollowAt(c)'
           /\ c.pc \notin ArchivePC \cup MakePC \cup {"a:pointer"}
BY DEF Brought, FollowAt, SynthPC, ArtifactPC, ArchivePC, MakePC

\* A process that works alone and without failures finds that the pointer
\* follows the row, and the row the report.
FollowsWith(c) ==
    /\ c.pc # "a:pointer" => pointer = artifact.latest
    /\ c.pc \notin MakePC => (artifact.status = "ready" => builds[artifact.latest].snap = topic.latest)
LEMMA FollowFound ==
    ASSUME ArtifactInv, NEW p \in Procs, Acts(p), Calm, lone', NEW c, c = proc[p]
    PROVE  FollowAt(c) /\ FollowsWith(c)
<1>1. \A q \in Procs : q # p => proc[q] = Idle
  BY ActsKeep DEF ArtifactInv, RowsInv, Alone
<1>2. Idle.pc \notin MakePC \cup {"a:pointer"}
  BY IdleShape, NotSynth, BroughtNowhere
<1>3. FollowRows /\ FollowAt(c)
  BY DEF ArtifactInv, FollowInv
<1>4. c.pc # "a:pointer" => \A q \in Procs : proc[q].pc # "a:pointer"
  BY <1>1, <1>2
<1>5. c.pc \notin MakePC => \A q \in Procs : proc[q].pc \notin MakePC
  BY <1>1, <1>2
<1> QED
  BY <1>3, <1>4, <1>5 DEF FollowRows, FollowsWith

LEMMA FollowGoes ==
    ASSUME ArtifactInv, NEW p \in Procs, Acts(p), NEW r, r = proc'[p],
           Calm' => FollowAt(r)' /\ FollowsWith(r)'
    PROVE  FollowInv'
<1> SUFFICES ASSUME Calm' PROVE FollowRows' /\ \A q \in Procs : FollowAt(proc[q])'
  BY DEF FollowInv
<1>1. \A q \in Procs : q # p => proc'[q] = Idle
  BY ActsKeep DEF ArtifactInv, RowsInv, Alone, Calm
<1>2. FollowAt(Idle)'
  BY IdleShape, NotSynth, BroughtNowhere
<1>3. \A q \in Procs : FollowAt(proc[q])'
  <2>1. FollowAt(r)'
    OBVIOUS
  <2> QED
    BY <1>1, <1>2, <2>1 DEF FollowAt, Making
<1>4. FollowRows'
  BY DEF FollowRows, FollowsWith
<1> QED
  BY <1>3, <1>4

LEMMA MakerGoes ==
    ASSUME ArtifactInv, NEW p \in Procs, Acts(p), NEW r, r = proc'[p], RowsInv', ReadyRows', FollowInv',
           Brought(r)',
           \A q \in Procs : q # p /\ proc[q].pc \in ArchivePC =>
              /\ r.pc \in ArchivePC => r.build # proc[q].build
              /\ builds'[proc[q].build] = builds[proc[q].build]
    PROVE  ArtifactInv'
<1>1. \A q \in Procs : q # p => proc'[q] = proc[q]
  BY DEF Acts
<1>2. OneMaker'
  BY <1>1 DEF ArtifactInv, OneMaker
<1>3. ASSUME NEW q \in Procs PROVE Brought(proc[q])'
  <2>1. CASE q = p
    BY <2>1 DEF Brought
  <2>2. CASE q # p
    <3>1. PICK c : c = proc[q]
      OBVIOUS
    <3>2. Brought(c) /\ proc'[q] = c
      BY <1>1, <2>2, <3>1 DEF ArtifactInv
    <3>3. CASE c.pc \in ArchivePC
      BY <2>2, <3>1, <3>2, <3>3 DEF Brought
    <3>4. CASE c.pc \notin ArchivePC
      BY <3>2, <3>4 DEF Brought, ArchivePC
    <3> QED
      BY <3>3, <3>4
  <2> QED
    BY <2>1, <2>2
<1> QED
  BY <1>2, <1>3 DEF ArtifactInv

\* A process that has no build goes on without one.
LEMMA NoMaker ==
    ASSUME ArtifactInv, NEW p \in Procs, Acts(p), NEW r, r = proc'[p], RowsInv', UNCHANGED artifactVars,
           r.pc \notin ArchivePC, Calm' => FollowAt(r)' /\ FollowsWith(r)'
    PROVE  ArtifactInv'
<1>1. UNCHANGED <<artifact, builds, pointer>>
  BY DEF artifactVars
<1>2. ReadyRows'
  BY <1>1 DEF ArtifactInv, ReadyRows
<1>3. Brought(r)'
  BY DEF Brought, ArchivePC
<1>4. FollowInv'
  BY FollowGoes
<1> QED
  BY <1>1, <1>2, <1>3, <1>4, MakerGoes

\* The steps of others, and those that change only what the Topic passes for.
LEMMA AwayKeepsArtifact ==
    ASSUME ArtifactInv, RowsInv', Calm' => Calm, UNCHANGED <<builds, pointer>>,
           artifact'.latest = artifact.latest, topic'.latest = topic.latest,
           artifact'.status = "ready" => artifact.status = "ready",
           \A q \in Procs : proc'[q] = proc[q] \/ proc'[q].pc \notin SynthPC,
           \A q \in Procs : proc[q].pc \in SynthPC => proc'[q] = proc[q] \/ used'["fault"] # 0
    PROVE  ArtifactInv'
<1>1. ReadyRows'
  BY DEF ArtifactInv, ReadyRows
<1>2. ASSUME NEW q \in Procs, proc'[q].pc \in SynthPC PROVE proc'[q] = proc[q]
  BY <1>2
<1>3. OneMaker'
  <2>1. ArchivePC \subseteq SynthPC
    BY DEF SynthPC, ArtifactPC
  <2> QED
    BY <1>2, <2>1 DEF ArtifactInv, OneMaker
<1>4. ASSUME NEW q \in Procs PROVE Brought(proc[q])'
  <2>1. PICK c : c = proc'[q]
    OBVIOUS
  <2>2. Brought(c)'
    <3>1. CASE c = proc[q]
      <4>1. Brought(c)
        BY <3>1 DEF ArtifactInv
      <4> QED
        BY <4>1 DEF Brought
    <3> QED
      BY <2>1, <3>1, BroughtNowhere
  <2> QED
    BY <2>1, <2>2 DEF Brought
<1>5. ASSUME Calm' PROVE FollowRows' /\ \A q \in Procs : FollowAt(proc[q])'
  <2>1. FollowRows /\ \A q \in Procs : FollowAt(proc[q])
    BY <1>5 DEF ArtifactInv, FollowInv
  <2>2. \A q \in Procs : proc[q].pc \in SynthPC => proc'[q] = proc[q]
    BY <1>5 DEF Calm
  <2>3. "a:pointer" \in SynthPC /\ MakePC \subseteq SynthPC
    BY DEF MakePC, SynthPC, ArtifactPC, ArchivePC
  <2>4. FollowRows'
    BY <2>1, <2>2, <2>3 DEF FollowRows
  <2>5. ASSUME NEW q \in Procs PROVE FollowAt(proc[q])'
    <3>1. PICK c : c = proc'[q]
      OBVIOUS
    <3>2. FollowAt(c)'
      <4>1. CASE c = proc[q]
        <5>1. FollowAt(c)
          BY <2>1, <4>1
        <5> QED
          BY <5>1 DEF FollowAt, Making
      <4> QED
        BY <3>1, <4>1, BroughtNowhere
    <3> QED
      BY <3>1, <3>2 DEF FollowAt, Making
  <2> QED
    BY <2>4, <2>5
<1> QED
  BY <1>1, <1>3, <1>4, <1>5 DEF ArtifactInv, FollowInv

LEMMA FreePC ==
    /\ \A x \in TopicPC \cup {"idle"} : x \notin MakePC \cup {"a:pointer", "a:failed"} \cup ArchivePC
    /\ "a:start" \in MakePC /\ "a:start" \notin {"a:pointer", "a:failed"} \cup ArchivePC
BY DEF TopicPC, MakePC, ArtifactPC, ArchivePC

LEMMA TopicKeepsArtifact ==
    ASSUME ArtifactInv, GraphRows, NEW p \in Procs, TopicStep(p), UNCHANGED artifactVars, RowsInv',
           Calm' => Calm
    PROVE  ArtifactInv'
<1>1. PICK c : c = proc[p]
  OBVIOUS
<1>2. PICK r : r = proc'[p]
  OBVIOUS
<1>3. RowsInv /\ UNCHANGED <<artifact, builds, pointer>>
  BY DEF ArtifactInv, artifactVars
<1>4. ASSUME Acts(p), Calm' PROVE FollowAt(c) /\ FollowsWith(c)
  BY <1>1, <1>4, FollowFound DEF Calm
<1>5. CASE SearchTopic(p) \/ FollowGraph(p) \/ LoadClaims(p)
  <2>1. /\ Acts(p) /\ c.pc \in TopicPC /\ r.pc \in TopicPC /\ UNCHANGED <<topic, reports>>
    BY <1>1, <1>2, <1>3, <1>5, ReadDoes
  <2>2. c.pc \notin MakePC \cup {"a:pointer"} /\ r.pc \notin MakePC \cup {"a:pointer", "a:failed"} \cup ArchivePC
    BY <2>1, FreePC
  <2>3. Calm' => FollowAt(r)' /\ FollowsWith(r)'
    BY <1>3, <1>4, <2>1, <2>2 DEF FollowAt, FollowsWith
  <2> QED
    BY <1>2, <2>1, <2>2, <2>3, NoMaker
<1>6. CASE StartTopicBuild(p) \/ StartRender(p)
  <2>1. /\ Acts(p) /\ c = Idle /\ StartsWith(r) /\ UNCHANGED <<topic, reports>>
    BY <1>1, <1>2, <1>3, <1>6, StartDoes
  <2>2. c.pc \notin MakePC \cup {"a:pointer"}
    BY <2>1, FreePC, IdleShape
  <2>3. r.pc \in {"a:start", "t:search"} /\ r.pc \notin {"a:pointer", "a:failed"} \cup ArchivePC
    BY <2>1, FreePC DEF StartsWith, TopicPC
  <2>4. r.pc \in MakePC => r.pc = "a:start" /\ r.snap = topic.latest
    BY <2>1, FreePC DEF StartsWith, TopicPC
  <2>5. Calm' => FollowAt(r)' /\ FollowsWith(r)'
    BY <1>3, <1>4, <2>1, <2>2, <2>3, <2>4 DEF FollowAt, FollowsWith, Making
  <2> QED
    BY <1>2, <2>1, <2>3, <2>5, NoMaker
<1>7. CASE SaveReport(p)
  <2>1. /\ Acts(p) /\ c.pc = "t:save"
        /\ \/ /\ r.pc = "a:start" /\ r.snap = Len(reports) + 1
              /\ reports' = Append(reports, [gen |-> c.gen, at |-> c.at, claims |-> c.claims,
                                             disputed |-> c.disputed, relations |-> c.relations])
              /\ topic' = [topic EXCEPT !.status = "active", !.why = NoReason,
                                        !.latest = Len(reports) + 1]
           \/ r = Idle /\ UNCHANGED <<topic, reports>>
    BY <1>1, <1>2, <1>3, <1>7, SaveDoes
  <2>2. c.pc \notin MakePC \cup {"a:pointer"}
    BY <2>1, FreePC DEF TopicPC
  <2>3. r.pc \notin {"a:pointer", "a:failed"} \cup ArchivePC
    BY <2>1, FreePC, IdleShape
  <2>4. r.pc = "a:start" => r.snap = topic'.latest
    <3>1. DOMAIN topic = {"status", "version", "latest", "why"}
      BY <1>3 DEF RowsInv, TopicRows
    <3> QED
      BY <2>1, <3>1, IdleShape
  <2>5. r.pc = "a:start" \/ (r.pc \notin MakePC /\ UNCHANGED topic)
    BY <2>1, FreePC, IdleShape
  <2>6. Calm' => FollowAt(r)' /\ FollowsWith(r)'
    BY <1>3, <1>4, <2>1, <2>2, <2>3, <2>4, <2>5, FreePC DEF FollowAt, FollowsWith, Making
  <2> QED
    BY <1>2, <2>1, <2>3, <2>6, NoMaker
<1> QED
  BY <1>5, <1>6, <1>7 DEF TopicStep

LEMMA MarkKeepsArtifact ==
    ASSUME ArtifactInv, WorkInv', Calm' => Calm,
           \/ (CreateTopic \/ UpdateTopic) /\ UNCHANGED artifactVars
           \/ (\E p \in Procs : InvalidateTopics(p)) /\ UNCHANGED artifactVars
           \/ Moderate
    PROVE  ArtifactInv'
<1>1. RowsInv
  BY DEF ArtifactInv
<1>2. RowsInv' /\ topic'.latest = topic.latest
  BY <1>1, MarkKeepsRows, MarkDoes DEF Remarked
<1>3. UNCHANGED <<builds, pointer>> /\ (artifact' = artifact \/ artifact' = [artifact EXCEPT !.status = "stale"])
  <2>1. CASE Moderate
    <3>1. PICK C, s, w : Reviewed(C, s, w) /\ UNCHANGED <<builds, pointer>>
      BY <2>1 DEF Moderate
    <3> QED
      BY <3>1 DEF Reviewed
  <2> QED
    BY <2>1 DEF artifactVars
<1>4. artifact'.latest = artifact.latest /\ (artifact'.status = "ready" => artifact.status = "ready")
  <2>1. DOMAIN artifact = {"status", "latest"}
    BY <1>1 DEF RowsInv, ArtifactRows
  <2> QED
    BY <1>3, <2>1
<1>5. ASSUME NEW q \in Procs
      PROVE  proc'[q] = proc[q] \/ (proc'[q].pc \notin SynthPC /\ proc[q].pc \notin SynthPC)
  <2>1. CASE CreateTopic \/ UpdateTopic \/ Moderate
    BY <1>1, <2>1, AtomicActs DEF RowsInv, Outside
  <2>2. ASSUME NEW p \in Procs, InvalidateTopics(p)
        PROVE  proc'[q] = proc[q] \/ (proc'[q].pc \notin SynthPC /\ proc[q].pc \notin SynthPC)
    <3>1. Acts(p) /\ proc'[p].pc \in {"idle", "v:refresh"} /\ proc[p].pc = "topics"
      BY <1>1, <2>2, InvalidateActs, IdleShape DEF RowsInv, AfterShape, Has
    <3> QED
      BY <3>1, NotSynth DEF Acts, VectorPC
  <2> QED
    BY <2>1, <2>2
<1> QED
  BY <1>2, <1>3, <1>4, <1>5, AwayKeepsArtifact

\* The builds of the other processes are not the one that a process writes.
LEMMA OtherBuilds ==
    ASSUME ArtifactInv, NEW p \in Procs, NEW c, c = proc[p], NEW q \in Procs, q # p, proc[q].pc \in ArchivePC
    PROVE  /\ proc[q].build \in 1 .. Len(builds) /\ proc[q].build \in DOMAIN builds
           /\ c.pc \in ArchivePC => proc[q].build # c.build
<1>1. PICK d : d = proc[q]
  OBVIOUS
<1>2. ReadAt(d) /\ builds \in Seq(Build)
  BY <1>1 DEF ArtifactInv, RowsInv, ArtifactRows
<1>3. d.build \in 1 .. Len(builds)
  BY <1>1, <1>2 DEF ReadAt
<1>4. c.pc \in ArchivePC => d.build # c.build
  BY <1>1 DEF ArtifactInv, OneMaker
<1> QED
  BY <1>1, <1>2, <1>3, <1>4

LEMMA StartKeepsArtifact ==
    ASSUME ArtifactInv, NEW p \in Procs, Acts(p), NEW c, c = proc[p], NEW r, r = proc'[p], StartsBuild(c, r),
           UNCHANGED topicVars, RowsInv', Calm' => Calm
    PROVE  ArtifactInv'
<1>1. RowsInv /\ ArtifactRows /\ builds \in Seq(Build) /\ UNCHANGED <<topic, reports>>
  BY DEF ArtifactInv, RowsInv, ArtifactRows, topicVars
<1>2. PICK y : y = [state |-> "building", files |-> "none", snap |-> c.snap, parent |-> artifact.latest]
  OBVIOUS
<1>3. /\ builds' = Append(builds, y) /\ UNCHANGED pointer /\ c.pc = "a:start"
      /\ r.build = Len(builds) + 1 /\ r.pc = "a:write"
      /\ artifact' = IF artifact.status = "none" THEN [artifact EXCEPT !.status = "stale"] ELSE artifact
  BY <1>2 DEF StartsBuild
<1>4. /\ \A b \in 1 .. Len(builds) : builds'[b] = builds[b]
      /\ builds'[Len(builds) + 1] = y /\ Len(builds) \in Nat
      /\ DOMAIN builds = 1 .. Len(builds) /\ DOMAIN builds' = DOMAIN builds \cup {Len(builds) + 1}
  <2>1. /\ builds'[Len(builds) + 1] = y /\ Len(builds) \in Nat
        /\ \A b \in 1 .. Len(builds) : builds'[b] = builds[b]
    BY <1>1, <1>3
  <2>2. DOMAIN builds = 1 .. Len(builds) /\ DOMAIN builds' = 1 .. Len(builds) + 1
    BY <1>1, <1>3
  <2> QED
    BY <2>1, <2>2
<1>5. artifact'.latest = artifact.latest /\ (artifact'.status = "ready" => artifact.status = "ready")
  BY <1>1, <1>3 DEF ArtifactRows
<1>6. artifact.latest \in 0 .. Len(builds) /\ pointer \in 0 .. Len(builds)
      /\ (artifact.status = "ready" => artifact.latest # 0)
  BY <1>1 DEF ArtifactRows
<1>7. /\ artifact.latest # 0 => builds'[artifact.latest] = builds[artifact.latest]
      /\ pointer # 0 => builds'[pointer] = builds[pointer]
  BY <1>4, <1>6
<1>8. ReadyRows'
  <2>1. ReadyRows
    BY DEF ArtifactInv
  <2>2. ASSUME NEW b \in DOMAIN builds' PROVE builds'[b].state = "ready" => builds'[b].files = "published"
    <3>1. CASE b = Len(builds) + 1
      BY <1>2, <1>4, <3>1
    <3>2. CASE b # Len(builds) + 1
      BY <1>4, <2>1, <3>2 DEF ReadyRows
    <3> QED
      BY <3>1, <3>2
  <2>3. /\ artifact'.latest # 0 => builds'[artifact'.latest].state = "ready"
        /\ pointer' # 0 => builds'[pointer'].state = "ready"
    BY <1>3, <1>5, <1>7, <2>1 DEF ReadyRows
  <2> QED
    BY <2>2, <2>3 DEF ReadyRows
<1>9. Brought(r)'
  BY <1>2, <1>3, <1>4 DEF Brought
<1>10. \A q \in Procs : q # p /\ proc[q].pc \in ArchivePC =>
          /\ r.build # proc[q].build /\ builds'[proc[q].build] = builds[proc[q].build]
  BY <1>3, <1>4, OtherBuilds
<1>11. r.pc \in MakePC /\ r.pc # "a:pointer" /\ r.pc # "a:failed"
  BY <1>3 DEF MakePC, ArtifactPC, ArchivePC
<1>12. ASSUME Calm' PROVE FollowAt(r)' /\ FollowsWith(r)'
  <2>1. FollowAt(c) /\ FollowsWith(c)
    BY <1>12, FollowFound DEF Calm
  <2>2. c.snap = topic.latest /\ pointer = artifact.latest
    BY <1>3, <2>1, FreePC DEF FollowAt, FollowsWith, Making
  <2> QED
    BY <1>1, <1>2, <1>3, <1>4, <1>5, <1>11, <2>2 DEF FollowAt, FollowsWith, Making
<1>13. FollowInv'
  BY <1>12, FollowGoes
<1> QED
  BY <1>8, <1>9, <1>10, <1>13, MakerGoes

LEMMA WriterKeepsArtifact ==
    ASSUME ArtifactInv, NEW p \in Procs, Acts(p), NEW c, c = proc[p], NEW r, r = proc'[p],
           WritesBuild(c, r) \/ FinishesBuild(c, r) \/ (FailsBuild(c, r) /\ r = Idle),
           UNCHANGED topicVars, RowsInv', Calm' => Calm
    PROVE  ArtifactInv'
<1> DEFINE n == c.build
<1>1. /\ RowsInv /\ ArtifactRows /\ builds \in Seq(Build) /\ UNCHANGED <<topic, reports>> /\ ReadyRows
      /\ Brought(c)
  BY DEF ArtifactInv, RowsInv, ArtifactRows, topicVars
<1>2. /\ n \in 1 .. Len(builds) /\ c.pc \in ArchivePC
      /\ Len(builds') = Len(builds) /\ DOMAIN builds' = DOMAIN builds
      /\ \A b \in DOMAIN builds : b # n => builds'[b] = builds[b]
      /\ \A b \in DOMAIN builds : builds'[b].snap = builds[b].snap
      /\ WritesBuild(c, r) => builds'[n].state = builds[n].state
      /\ c.pc = "a:write" => builds'[n].files = "temporary"
      /\ c.pc = "a:publish" => builds'[n].files = "published"
      /\ c.pc = "a:finish" => builds'[n].files = builds[n].files
           /\ builds'[n].state = IF builds[n].state = "building" THEN "ready" ELSE builds[n].state
      /\ c.pc = "a:failed" =>
           /\ builds'[n].state = IF builds[n].state = "building" THEN "failed" ELSE builds[n].state
           /\ builds'[n].files = IF builds[n].files = "temporary" THEN "none" ELSE builds[n].files
  BY <1>1, RowOf
<1>3. n \in DOMAIN builds /\ DOMAIN builds = 1 .. Len(builds)
  BY <1>1, <1>2
<1>4. \/ c.pc = "a:write" /\ r.pc = "a:publish" /\ r.build = n /\ UNCHANGED <<artifact, pointer>>
      \/ c.pc = "a:publish" /\ r.pc = "a:finish" /\ r.build = n /\ UNCHANGED <<artifact, pointer>>
      \/ c.pc = "a:finish" /\ r.pc = "a:pointer" /\ r.build = n /\ UNCHANGED pointer
         /\ artifact' = [status |-> "ready", latest |-> n]
      \/ c.pc = "a:failed" /\ r = Idle /\ UNCHANGED <<artifact, pointer>>
  BY DEF WritesBuild, FinishesBuild, FailsBuild
\* The row that is written is not ready before, or stays ready with its archive.
<1>5. /\ builds'[n].state = "ready" => builds'[n].files = "published"
      /\ builds[n].state = "ready" => builds'[n].state = "ready"
  <2>1. CASE c.pc \in {"a:write", "a:publish"}
    BY <1>1, <1>2, <2>1 DEF Brought, WritesBuild, FinishesBuild, FailsBuild
  <2>2. CASE c.pc = "a:finish"
    BY <1>1, <1>2, <2>2 DEF Brought
  <2>3. CASE c.pc = "a:failed"
    BY <1>1, <1>2, <1>3, <2>3 DEF ReadyRows
  <2> QED
    BY <1>4, <2>1, <2>2, <2>3
<1>6. \A b \in DOMAIN builds : builds[b].state = "ready" => builds'[b].state = "ready"
  BY <1>2, <1>5
<1>7. ReadyRows'
  <2>1. \A b \in DOMAIN builds' : builds'[b].state = "ready" => builds'[b].files = "published"
    BY <1>1, <1>2, <1>5 DEF ReadyRows
  <2>2. pointer # 0 => pointer \in DOMAIN builds /\ builds[pointer].state = "ready"
    BY <1>1, <1>3 DEF ReadyRows, ArtifactRows
  <2>3. artifact.latest # 0 => artifact.latest \in DOMAIN builds /\ builds[artifact.latest].state = "ready"
    BY <1>1, <1>3 DEF ReadyRows, ArtifactRows
  <2>4. c.pc = "a:finish" => builds'[n].state = "ready"
    BY <1>1, <1>2 DEF Brought
  <2>5. pointer' # 0 => builds'[pointer'].state = "ready"
    BY <1>4, <1>6, <2>2
  <2>6. artifact'.latest # 0 => builds'[artifact'.latest].state = "ready"
    BY <1>4, <1>6, <2>3, <2>4
  <2> QED
    BY <2>1, <2>5, <2>6 DEF ReadyRows
<1>8. Brought(r)'
  <2>1. CASE r = Idle
    BY <2>1, IdleShape, NotSynth, BroughtNowhere
  <2>2. CASE c.pc = "a:write" /\ r.pc = "a:publish" /\ r.build = n
    BY <1>1, <1>2, <2>2 DEF Brought, WritesBuild, FinishesBuild, FailsBuild
  <2>3. CASE c.pc = "a:publish" /\ r.pc = "a:finish" /\ r.build = n
    BY <1>1, <1>2, <2>3 DEF Brought, WritesBuild, FinishesBuild, FailsBuild
  <2>4. CASE c.pc = "a:finish" /\ r.pc = "a:pointer" /\ r.build = n
    BY <1>1, <1>2, <2>4 DEF Brought
  <2> QED
    BY <1>4, <2>1, <2>2, <2>3, <2>4
<1>9. \A q \in Procs : q # p /\ proc[q].pc \in ArchivePC =>
          /\ r.pc \in ArchivePC => r.build # proc[q].build
          /\ builds'[proc[q].build] = builds[proc[q].build]
  <2>1. r.pc \in ArchivePC => r.build = n
    BY <1>4, FreePC, IdleShape
  <2> QED
    BY <1>2, <2>1, OtherBuilds
<1>10. ASSUME Calm' PROVE FollowAt(r)' /\ FollowsWith(r)'
  <2>1. FollowAt(c) /\ FollowsWith(c)
    BY <1>10, FollowFound DEF Calm
  <2>2. /\ c.pc # "a:failed" /\ c.pc \in {"a:write", "a:publish", "a:finish"}
        /\ builds[n].snap = topic.latest /\ pointer = artifact.latest
    BY <1>4, <2>1 DEF FollowAt, FollowsWith, Making, MakePC, ArtifactPC, ArchivePC
  <2>3. builds'[n].snap = topic'.latest
    BY <1>1, <1>2, <1>3, <2>2
  <2>4. CASE r.pc \in {"a:publish", "a:finish"} /\ r.build = n /\ UNCHANGED <<artifact, pointer>>
    BY <2>2, <2>3, <2>4 DEF FollowAt, FollowsWith, Making, MakePC, ArtifactPC, ArchivePC
  <2>5. CASE r.pc = "a:pointer" /\ r.build = n /\ artifact' = [status |-> "ready", latest |-> n]
    BY <2>2, <2>3, <2>5 DEF FollowAt, FollowsWith, Making, MakePC, ArtifactPC, ArchivePC
  <2> QED
    BY <1>4, <2>2, <2>4, <2>5
<1>11. FollowInv'
  BY <1>10, FollowGoes
<1> QED
  BY <1>7, <1>8, <1>9, <1>11, MakerGoes

LEMMA NamerKeepsArtifact ==
    ASSUME ArtifactInv, NEW p \in Procs, Acts(p), NEW c, c = proc[p], NEW r, r = proc'[p],
           NamesBuild(c, r), UNCHANGED topicVars, RowsInv', Calm' => Calm
    PROVE  ArtifactInv'
<1>1. /\ c.pc = "a:pointer" /\ r = Idle /\ pointer' = c.build /\ UNCHANGED <<builds, artifact, topic>>
      /\ builds[c.build].state = "ready"
  BY DEF NamesBuild, topicVars, ArtifactInv, Brought
<1>2. ReadyRows'
  BY <1>1 DEF ArtifactInv, ReadyRows
<1>3. Brought(r)' /\ r.pc \notin ArchivePC \cup MakePC \cup {"a:pointer"}
  BY <1>1, IdleShape, NotSynth, BroughtNowhere
<1>4. ASSUME Calm' PROVE FollowAt(r)' /\ FollowsWith(r)'
  <2>1. FollowAt(c) /\ FollowsWith(c)
    BY <1>4, FollowFound DEF Calm
  <2>2. c.build = artifact.latest /\ c.pc \notin MakePC
    BY <1>1, <2>1 DEF FollowAt, MakePC
  <2>3. FollowAt(r)'
    BY <1>1, IdleShape, NotSynth, BroughtNowhere
  <2> QED
    BY <1>1, <2>1, <2>2, <2>3 DEF FollowsWith
<1>5. FollowInv'
  BY <1>4, FollowGoes
<1> QED
  BY <1>1, <1>2, <1>3, <1>5, MakerGoes

LEMMA ThrowerKeepsArtifact ==
    ASSUME ArtifactInv, NEW p \in Procs, Acts(p), NEW c, c = proc[p], NEW r, r = proc'[p],
           ThrowsBuild(c, r), used'["fault"] # 0, RowsInv'
    PROVE  ArtifactInv'
<1>1. c.pc \in ArchivePC /\ r.pc = "a:failed" /\ r.build = c.build /\ UNCHANGED <<builds, artifact, pointer>>
  BY DEF ThrowsBuild, artifactVars
<1>2. ReadyRows' /\ Brought(r)'
  BY <1>1 DEF ArtifactInv, ReadyRows, Brought
<1>3. FollowInv'
  BY DEF FollowInv, Calm
<1>4. \A q \in Procs : q # p /\ proc[q].pc \in ArchivePC =>
          r.build # proc[q].build /\ builds'[proc[q].build] = builds[proc[q].build]
  BY <1>1, OtherBuilds
<1> QED
  BY <1>2, <1>3, <1>4, MakerGoes

LEMMA ArtifactKeepsArtifact ==
    ASSUME ArtifactInv, NEW p \in Procs, ArtifactStep(p), UNCHANGED topicVars, RowsInv', Calm' => Calm
    PROVE  ArtifactInv'
<1>1. PICK c : c = proc[p]
  OBVIOUS
<1>2. PICK r : r = proc'[p]
  OBVIOUS
<1>3. RowsInv
  BY DEF ArtifactInv
<1>4. /\ Acts(p)
      /\ \/ StartsBuild(c, r) \/ WritesBuild(c, r) \/ FinishesBuild(c, r) \/ NamesBuild(c, r)
            \/ FailsBuild(c, r)
         \/ used'["fault"] # 0 /\ ThrowsBuild(c, r)
  BY <1>1, <1>2, <1>3, ArtifactDoes
<1>5. CASE StartsBuild(c, r)
  BY <1>1, <1>2, <1>4, <1>5, StartKeepsArtifact
<1>6. CASE WritesBuild(c, r) \/ FinishesBuild(c, r) \/ FailsBuild(c, r)
  <2>1. WritesBuild(c, r) \/ FinishesBuild(c, r) \/ (FailsBuild(c, r) /\ r = Idle)
    BY <1>6 DEF FailsBuild
  <2> QED
    BY <1>1, <1>2, <1>4, <2>1, WriterKeepsArtifact
<1>7. CASE NamesBuild(c, r)
  BY <1>1, <1>2, <1>4, <1>7, NamerKeepsArtifact
<1>8. CASE used'["fault"] # 0 /\ ThrowsBuild(c, r)
  BY <1>1, <1>2, <1>4, <1>8, ThrowerKeepsArtifact
<1> QED
  BY <1>4, <1>5, <1>6, <1>7, <1>8

LEMMA ArtifactSteps ==
    ASSUME ArtifactInv, GraphRows, [Next]_vars
    PROVE  ArtifactInv'
<1>1. RowsInv /\ WorkInv
  BY DEF ArtifactInv, RowsInv
<1>2. WorkInv' /\ RowsInv' /\ (Calm' => Calm)
  BY <1>1, WorkSteps, RowsSteps, CalmStays
<1>3. CASE OtherStep
  <2>1. UNCHANGED <<topic, artifact, builds, pointer>>
    BY <1>3 DEF OtherStep, topicVars, artifactVars
  <2>2. \A q \in Procs : proc'[q] = proc[q] \/ proc'[q].pc \notin SynthPC
    BY <1>3, NotSynth DEF OtherStep
  <2>3. \A q \in Procs : proc[q].pc \in SynthPC => proc'[q] = proc[q] \/ used'["fault"] # 0
    BY <1>3 DEF OtherStep
  <2> QED
    BY ONLY ArtifactInv, <1>2, <2>1, <2>2, <2>3, AwayKeepsArtifact
<1>4. CASE Moderate \/ ((CreateTopic \/ UpdateTopic) /\ UNCHANGED artifactVars)
  BY <1>2, <1>4, MarkKeepsArtifact
<1>5. ASSUME NEW p \in Procs, InvalidateTopics(p), UNCHANGED artifactVars PROVE ArtifactInv'
  BY <1>2, <1>5, MarkKeepsArtifact
<1>6. ASSUME NEW p \in Procs, TopicStep(p), UNCHANGED artifactVars PROVE ArtifactInv'
  BY <1>2, <1>6, TopicKeepsArtifact
<1>7. ASSUME NEW p \in Procs, ArtifactStep(p), UNCHANGED topicVars PROVE ArtifactInv'
  BY <1>2, <1>7, ArtifactKeepsArtifact
<1>8. ASSUME NEW p \in Procs, InvalidateTopics(p), UNCHANGED <<graphVars, artifactVars>> PROVE ArtifactInv'
  BY <1>5, <1>8
<1>9. ASSUME NEW p \in Procs, TopicStep(p), UNCHANGED <<graphVars, artifactVars>> PROVE ArtifactInv'
  BY <1>6, <1>9
<1>10. ASSUME NEW p \in Procs, ArtifactStep(p), UNCHANGED <<graphVars, topicVars>> PROVE ArtifactInv'
  BY <1>7, <1>10
<1> QED
  BY <1>1, <1>3, <1>4, <1>8, <1>9, <1>10, StepsOf

LEMMA ArtifactStarts == Init => ArtifactInv
<1> SUFFICES ASSUME Init PROVE ArtifactInv
  OBVIOUS
<1>1. /\ topic = [status |-> "none", version |-> 1, latest |-> 0, why |-> NoReason]
      /\ reports = <<>> /\ artifact = [status |-> "none", latest |-> 0] /\ builds = <<>> /\ pointer = 0
      /\ \A p \in Procs : proc[p] = Idle
  BY DEF Init, CommandsInit, WorkInit, TopicInit, ArtifactInit
<1>2. Idle.pc \notin SynthPC /\ Idle.pc \notin ArchivePC \cup MakePC \cup {"a:pointer"}
  BY IdleShape, NotSynth, BroughtNowhere
<1>3. ReadAt(Idle) /\ Brought(Idle) /\ FollowAt(Idle)
  BY <1>2, ReadNothing, BroughtNowhere
<1>4. reports \in Seq(Made) /\ builds \in Seq(Build) /\ DOMAIN builds = {} /\ Len(reports) = 0 /\ Len(builds) = 0
  BY <1>1
<1>5. TopicRows /\ ArtifactRows
  BY <1>1, <1>4 DEF TopicRows, ArtifactRows
<1>6. RowsInv
  BY <1>1, <1>3, <1>5, WorkStarts DEF RowsInv
<1>7. OneMaker /\ ReadyRows
  BY <1>1, <1>2, <1>4 DEF OneMaker, ReadyRows
<1>8. FollowInv
  BY <1>1, <1>3 DEF FollowInv, FollowRows
<1> QED
  BY <1>1, <1>3, <1>6, <1>7, <1>8 DEF ArtifactInv

LEMMA ArtifactHolds == Spec => []ArtifactInv
<1>1. GraphInv => GraphRows
  BY DEF GraphInv
<1>2. ArtifactInv /\ GraphRows /\ [Next]_vars => ArtifactInv'
  BY ArtifactSteps
<1> QED
  BY <1>1, <1>2, ArtifactStarts, GraphHolds, PTL DEF Spec

\* Whatever overlaps and is killed, a build that is ready has its archive, and
\* the row of the Artifact and latest.json name ready builds; one after another
\* and without failures they name the same one, and it is of the latest report.
THEOREM ArtifactAndFilesAgree == Spec => []ArtifactsAgree
<1>1. ArtifactInv => ArtifactsAgree
  <2> SUFFICES ASSUME ArtifactInv PROVE ArtifactsAgree
    OBVIOUS
  <2>1. ReadyRows
    BY DEF ArtifactInv
  <2>2. ASSUME lone, AtRest, used["fault"] = 0
        PROVE  pointer = artifact.latest
               /\ (artifact.status = "ready" => builds[artifact.latest].snap = topic.latest)
    <3>1. \A p \in Procs : proc[p].pc \notin MakePC \cup {"a:pointer"}
      BY <2>2, IdleShape, FreePC DEF AtRest, Busy
    <3>2. FollowRows
      BY <2>2 DEF ArtifactInv, FollowInv, Calm
    <3> QED
      BY <3>1, <3>2 DEF FollowRows
  <2> QED
    BY <2>1, <2>2 DEF ReadyRows, ArtifactsAgree
<1> QED
  BY <1>1, ArtifactHolds, PTL

-----------------------------------------------------------------------------
(* A rejected claim leaves the Topic. *)

LEMMA GoneStays ==
    ASSUME Grows(graph, graph'), lone' => lone, UNCHANGED withdrawn, NEW X, X \subseteq Facts, Gone(X)
    PROVE  Gone(X)'
<1>1. \A x \in X : StateOf(x)' = "rejected" => StateOf(x) = "rejected"
  BY DEF Grows, Decided, StateOf, Facts
<1> QED
  BY <1>1 DEF Gone

\* What the report of the Topic shows.
LEMMA ReportShows ==
    ASSUME RowsInv, topic.latest # 0
    PROVE  Report.claims \subseteq Claims /\ Report.relations \subseteq Relations
<1>1. topic.latest \in 1 .. Len(reports) /\ reports \in Seq(Made)
  BY DEF RowsInv, TopicRows
<1>2. reports[topic.latest] \in Made
  BY <1>1
<1> QED
  BY <1>2 DEF Report, Made

\* As long as the report of the Topic is the one it was.
LEMMA LeaveKept ==
    ASSUME RowsInv, RowsInv', LeaveInv, lone' => lone, UNCHANGED <<withdrawn, reports>>, Grows(graph, graph'),
           topic'.latest = topic.latest, topic'.status = "active" => topic.status = "active" \/ topic.latest = 0,
           topic.version <= topic'.version,
           \A q \in Procs : proc'[q] = proc[q] \/ proc'[q].pc # "t:save"
    PROVE  LeaveInv'
<1>1. ASSUME NEW q \in Procs PROVE LeaveAt(proc[q])'
  <2>1. PICK c : c = proc'[q]
    OBVIOUS
  <2>2. CASE c.pc = "t:save" /\ c.version = topic'.version
    <3>1. c = proc[q]
      BY <2>1, <2>2
    <3>2. LeaveAt(c) /\ ReadAt(c) /\ topic.version \in Nat /\ topic'.version \in Nat
      BY <3>1 DEF LeaveInv, RowsInv, TopicRows
    <3>3. /\ c.version \in Nat /\ c.version <= topic.version
          /\ c.claims \subseteq Claims /\ c.relations \subseteq Relations
      BY <2>2, <3>2 DEF ReadAt, TopicPC
    <3>4. Gone(c.claims \cup c.relations)
      BY <2>2, <3>2, <3>3 DEF LeaveAt
    <3>5. PICK X : X = c.claims \cup c.relations
      OBVIOUS
    <3>6. Gone(X)'
      BY <3>3, <3>4, <3>5, GoneStays DEF Facts
    <3> QED
      BY <2>1, <3>5, <3>6 DEF LeaveAt
  <2> QED
    BY <2>1, <2>2 DEF LeaveAt
<1>2. RejectedClaimsLeave'
  <2> SUFFICES ASSUME topic'.status = "active", topic'.latest # 0
               PROVE  Gone(Report.claims \cup Report.relations)'
    BY DEF RejectedClaimsLeave, Gone, StateOf
  <2>1. PICK X : X = Report.claims \cup Report.relations
    OBVIOUS
  <2>2. X = Report'.claims \cup Report'.relations
    BY <2>1 DEF Report
  <2>3. Gone(X)
    BY <2>1 DEF LeaveInv, RejectedClaimsLeave, Gone, StateOf
  <2>4. X \subseteq Facts
    BY <2>1, ReportShows DEF Facts
  <2>5. Gone(X)'
    BY <2>3, <2>4, GoneStays
  <2> QED
    BY <2>2, <2>5 DEF Gone
<1> QED
  BY <1>1, <1>2 DEF LeaveInv

LEMMA TopicKeepsLeave ==
    ASSUME RowsInv, RowsInv', LeaveInv, GraphRows, lone' => lone, UNCHANGED graph, Grows(graph, graph'),
           NEW p \in Procs, TopicStep(p)
    PROVE  LeaveInv'
<1>1. PICK c : c = proc[p]
  OBVIOUS
<1>2. PICK r : r = proc'[p]
  OBVIOUS
<1>3. topic.version \in Nat /\ topic.version <= topic.version
  BY DEF RowsInv, TopicRows
<1>4. CASE SearchTopic(p) \/ FollowGraph(p) \/ LoadClaims(p)
  <2>1. Acts(p) /\ ReadsOf(c, r) /\ UNCHANGED <<topic, reports, withdrawn>>
    BY <1>1, <1>2, <1>4, ReadDoes
  <2>2. CASE r.pc # "t:save"
    <3>1. \A q \in Procs : proc'[q] = proc[q] \/ proc'[q].pc # "t:save"
      BY <1>2, <2>1, <2>2 DEF Acts
    <3>2. topic'.latest = topic.latest /\ topic'.status = topic.status /\ topic.version <= topic'.version
      BY <1>3, <2>1
    <3> QED
      BY <2>1, <3>1, <3>2, LeaveKept
  <2>3. CASE r.pc = "t:save"
    <3>1. r.claims = Presentable(c.claims) /\ r.relations = RelationsOf(r.claims)
      BY <2>1, <2>3 DEF ReadsOf
    <3>2. LeaveAt(r)'
      <4>1. /\ r.claims \subseteq Claims /\ \A x \in r.claims : graph.claims[x] # "rejected"
            /\ r.relations \subseteq Relations /\ \A x \in r.relations : graph.relations[x] # "rejected"
        <5>1. c.claims \subseteq Claims
          BY <1>1, <2>1, <2>3 DEF RowsInv, ReadAt, ReadsOf, TopicPC
        <5> QED
          BY <3>1, <5>1, RelationsAre DEF Presentable
      <4>2. \A x \in r.claims \cup r.relations : StateOf(x)' # "rejected"
        BY <4>1, GraphAssumption DEF StateOf
      <4> QED
        BY <4>2 DEF LeaveAt, Gone, StateOf
    <3>3. RejectedClaimsLeave'
      BY <2>1 DEF LeaveInv, RejectedClaimsLeave, Report
    <3>4. ASSUME NEW q \in Procs PROVE LeaveAt(proc[q])'
      <4>1. CASE q = p
        BY <1>2, <3>2, <4>1 DEF LeaveAt, Gone, StateOf
      <4>2. CASE q # p
        <5>1. proc'[q] = proc[q] /\ LeaveAt(proc[q])
          BY <2>1, <4>2 DEF Acts, LeaveInv
        <5> QED
          BY <2>1, <5>1 DEF LeaveAt, Gone, StateOf
      <4> QED
        BY <4>1, <4>2
    <3> QED
      BY <3>3, <3>4 DEF LeaveInv
  <2> QED
    BY <2>2, <2>3
<1>5. CASE StartTopicBuild(p) \/ StartRender(p)
  <2>1. Acts(p) /\ StartsWith(r) /\ UNCHANGED <<topic, reports, withdrawn>>
    BY <1>2, <1>5, StartDoes
  <2>2. \A q \in Procs : proc'[q] = proc[q] \/ proc'[q].pc # "t:save"
    BY <1>2, <2>1 DEF Acts, StartsWith
  <2>3. topic'.latest = topic.latest /\ topic'.status = topic.status /\ topic.version <= topic'.version
    BY <1>3, <2>1
  <2> QED
    BY <2>1, <2>2, <2>3, LeaveKept
<1>6. CASE SaveReport(p)
  <2>1. PICK y : y = [gen |-> c.gen, at |-> c.at, claims |-> c.claims, disputed |-> c.disputed,
                    relations |-> c.relations]
    OBVIOUS
  <2>2. /\ Acts(p) /\ c.pc = "t:save" /\ UNCHANGED withdrawn
        /\ \/ /\ topic.version = c.version /\ r.pc = "a:start"
              /\ reports' = Append(reports, y)
              /\ topic' = [topic EXCEPT !.status = "active", !.why = NoReason,
                                        !.latest = Len(reports) + 1]
           \/ r = Idle /\ UNCHANGED <<topic, reports>>
    BY <1>1, <1>2, <1>6, <2>1, SaveDoes
  <2>3. CASE r = Idle /\ UNCHANGED <<topic, reports>>
    <3>1. \A q \in Procs : proc'[q] = proc[q] \/ proc'[q].pc # "t:save"
      BY <1>2, <2>2, <2>3, IdleShape DEF Acts
    <3>2. topic'.latest = topic.latest /\ topic'.status = topic.status /\ topic.version <= topic'.version
      BY <1>3, <2>3
    <3> QED
      BY <2>2, <2>3, <3>1, <3>2, LeaveKept
  <2>4. CASE /\ topic.version = c.version /\ r.pc = "a:start"
             /\ reports' = Append(reports, y)
             /\ topic' = [topic EXCEPT !.status = "active", !.why = NoReason,
                                       !.latest = Len(reports) + 1]
    <3>1. /\ reports'[Len(reports) + 1] = y /\ topic'.version = topic.version
          /\ topic'.latest = Len(reports) + 1
      BY <1>1, <2>1, <2>2, <2>4, SavedRows
    <3>2. Gone(c.claims \cup c.relations)
      BY <1>1, <2>2, <2>4 DEF LeaveInv, LeaveAt
    <3>3. Report'.claims = c.claims /\ Report'.relations = c.relations
      BY <2>1, <3>1 DEF Report
    <3>4. RejectedClaimsLeave'
      BY <2>2, <3>2, <3>3 DEF RejectedClaimsLeave, Gone, StateOf
    <3>5. ASSUME NEW q \in Procs PROVE LeaveAt(proc[q])'
      <4>1. CASE q = p
        BY <1>2, <2>4, <4>1 DEF LeaveAt
      <4>2. CASE q # p
        <5>1. proc'[q] = proc[q] /\ LeaveAt(proc[q])
          BY <2>2, <4>2 DEF Acts, LeaveInv
        <5> QED
          BY <2>2, <3>1, <5>1 DEF LeaveAt, Gone, StateOf
      <4> QED
        BY <4>1, <4>2
    <3> QED
      BY <3>4, <3>5 DEF LeaveInv
  <2> QED
    BY <2>2, <2>3, <2>4
<1> QED
  BY <1>4, <1>5, <1>6 DEF TopicStep

LEMMA GrowsNot == ASSUME GraphRows, UNCHANGED graph PROVE Grows(graph, graph')
BY DEF GraphRows, Grows

\* A claim or relation is moderated: what a synthesis has read of it is of an
\* older version of the Topic, or the Topic does not show it.
LEMMA ModeratedKeepsLeave ==
    ASSUME RowsInv, LeaveInv, UNCHANGED <<proc, reports>>, lone' => lone /\ Busy = {}, Remarked,
           NEW x \in Facts, \A y \in Facts : y # x => StateOf(y)' = StateOf(y),
           \A y \in withdrawn' : y # x => y \in withdrawn,
           topic'.version = topic.version => x \notin withdrawn',
           topic.latest # 0 /\ x \in Report.claims \cup Report.relations => topic'.status # "active"
    PROVE  LeaveInv'
<1>1. topic.version \in Nat /\ topic'.version \in Nat /\ topic.version <= topic'.version
  BY DEF RowsInv, TopicRows, Remarked
<1>2. ASSUME NEW X, X \subseteq Facts, Gone(X), x \notin X \/ (~ lone' /\ x \notin withdrawn')
      PROVE  Gone(X)'
  <2> SUFFICES ASSUME NEW y \in X, StateOf(y)' = "rejected" PROVE ~ lone' /\ y \notin withdrawn'
    BY DEF Gone
  <2>1. CASE y = x
    BY <1>2, <2>1
  <2>2. CASE y # x
    <3>1. StateOf(y) = "rejected" /\ (y \in withdrawn' => y \in withdrawn)
      BY <1>2, <2>2
    <3> QED
      BY <1>2, <3>1 DEF Gone
  <2> QED
    BY <2>1, <2>2
<1>3. ASSUME NEW q \in Procs PROVE LeaveAt(proc[q])'
  <2>1. PICK d : d = proc[q]
    OBVIOUS
  <2>2. CASE d.pc = "t:save" /\ d.version = topic'.version
    <3>1. LeaveAt(d) /\ ReadAt(d)
      BY <2>1 DEF LeaveInv, RowsInv
    <3>2. /\ d.version \in Nat /\ d.version <= topic.version
          /\ d.claims \subseteq Claims /\ d.relations \subseteq Relations
      BY <2>2, <3>1 DEF ReadAt, TopicPC
    <3>3. topic'.version = topic.version
      BY <1>1, <2>2, <3>2
    <3>4. PICK X : X = d.claims \cup d.relations
      OBVIOUS
    <3>5. Gone(X) /\ X \subseteq Facts
      BY <2>2, <3>1, <3>2, <3>3, <3>4 DEF LeaveAt, Facts
    <3>6. ~ lone'
      BY <2>1, <2>2, IdleShape DEF Busy
    <3>7. Gone(X)'
      BY <1>2, <3>3, <3>5, <3>6
    <3> QED
      BY <2>1, <3>4, <3>7 DEF LeaveAt
  <2> QED
    BY <2>1, <2>2 DEF LeaveAt
<1>4. ASSUME topic'.status = "active", topic'.latest # 0
      PROVE  Gone(Report.claims \cup Report.relations)'
  <2>1. topic' = topic /\ topic.latest # 0
    BY <1>4 DEF Remarked
  <2>2. PICK X : X = Report.claims \cup Report.relations
    OBVIOUS
  <2>3. Gone(X)
    BY <1>4, <2>1, <2>2 DEF LeaveInv, RejectedClaimsLeave, Gone, StateOf
  <2>4. X \subseteq Facts /\ x \notin X
    BY <1>4, <2>1, <2>2, ReportShows DEF Facts
  <2>5. Gone(X)'
    BY <1>2, <2>3, <2>4
  <2>6. X = Report'.claims \cup Report'.relations
    BY <2>1, <2>2 DEF Report
  <2> QED
    BY <2>5, <2>6 DEF Gone
<1> QED
  BY <1>3, <1>4 DEF LeaveInv, RejectedClaimsLeave, Gone, StateOf

\* What is reviewed does not pass for active.
LEMMA ReviewedNotActive ==
    ASSUME RowsInv, topic.latest # 0, NEW status, NEW why, status # "active", Reviewed(TRUE, status, why)
    PROVE  topic'.status # "active"
<1>1. DOMAIN topic = {"status", "version", "latest", "why"}
  BY DEF RowsInv, TopicRows
<1> QED
  BY <1>1 DEF Reviewed

LEMMA WithdrawnOnly ==
    ASSUME NEW x, NEW status, Withdrawn(x, status)
    PROVE  /\ \A y \in withdrawn' : y # x => y \in withdrawn
           /\ topic'.version = topic.version => x \notin withdrawn'
BY DEF Withdrawn

LEMMA ModerateKeepsLeave ==
    ASSUME RowsInv, RowsInv', LeaveInv, GraphRows, Moderate
    PROVE  LeaveInv'
<1>1. /\ UNCHANGED proc /\ (lone' => lone /\ Busy = {}) /\ Remarked /\ UNCHANGED reports
      /\ topic.version \in Nat /\ topic'.version \in Nat /\ IsGraph(graph)
  BY AtomicActs, MarkDoes DEF RowsInv, Outside, TopicRows, GraphRows
<1>2. topic.version <= topic'.version
  BY <1>1 DEF Remarked
<1>3. ASSUME NEW e \in Entities, ModerateEntity(e), UNCHANGED withdrawn PROVE LeaveInv'
  <2>1. Grows(graph, graph')
    BY <1>3, GrowsNot DEF ModerateEntity
  <2>2. /\ topic'.latest = topic.latest
        /\ topic'.status = "active" => topic.status = "active" \/ topic.latest = 0
    BY <1>1 DEF Remarked
  <2>3. lone' => lone
    BY <1>1
  <2>4. \A q \in Procs : proc'[q] = proc[q] \/ proc'[q].pc # "t:save"
    BY <1>1
  <2> QED
    BY ONLY RowsInv, RowsInv', LeaveInv, <1>1, <1>2, <1>3, <2>1, <2>2, <2>3, <2>4, LeaveKept
<1>4. ASSUME NEW c \in Claims, ModerateClaim(c), Withdrawn(c, graph'.claims[c]),
             Reviewed(c \in reports[topic.latest].claims, "needs_review", <<"claim", c>>)
      PROVE  LeaveInv'
  <2>1. /\ graph'.relations = graph.relations
        /\ \A d \in Claims : d # c => graph'.claims[d] = graph.claims[d]
    BY <1>1, <1>4, ModerationDoes
  <2>2. c \in Facts /\ \A y \in Facts : y # c => StateOf(y)' = StateOf(y)
    BY <2>1 DEF Facts, StateOf
  <2>3. ASSUME topic.latest # 0, c \in Report.claims \cup Report.relations PROVE topic'.status # "active"
    <3>1. c \in reports[topic.latest].claims
      BY <2>3, ReportShows, GraphAssumption DEF Report
    <3>2. Reviewed(TRUE, "needs_review", <<"claim", c>>)
      BY <1>4, <3>1 DEF Reviewed
    <3> QED
      BY <2>3, <3>2, ReviewedNotActive
  <2>4. /\ \A y \in withdrawn' : y # c => y \in withdrawn
        /\ topic'.version = topic.version => c \notin withdrawn'
    BY <1>4, WithdrawnOnly
  <2> QED
    BY <1>1, <2>2, <2>3, <2>4, ModeratedKeepsLeave
<1>5. ASSUME NEW r \in Relations, ModerateRelation(r), Withdrawn(r, graph'.relations[r]),
             Reviewed(r \in reports[topic.latest].relations, "stale", <<"relation", r>>)
      PROVE  LeaveInv'
  <2>1. /\ graph'.claims = graph.claims
        /\ \A d \in Relations : d # r => graph'.relations[d] = graph.relations[d]
    BY <1>1, <1>5, RelationDoes
  <2>2. r \in Facts /\ \A y \in Facts : y # r => StateOf(y)' = StateOf(y)
    BY <2>1 DEF Facts, StateOf
  <2>3. ASSUME topic.latest # 0, r \in Report.claims \cup Report.relations PROVE topic'.status # "active"
    <3>1. r \in reports[topic.latest].relations
      BY <2>3, ReportShows, GraphAssumption DEF Report
    <3>2. Reviewed(TRUE, "stale", <<"relation", r>>)
      BY <1>5, <3>1 DEF Reviewed
    <3> QED
      BY <2>3, <3>2, ReviewedNotActive
  <2>4. /\ \A y \in withdrawn' : y # r => y \in withdrawn
        /\ topic'.version = topic.version => r \notin withdrawn'
    BY <1>5, WithdrawnOnly
  <2> QED
    BY <1>1, <2>2, <2>3, <2>4, ModeratedKeepsLeave
<1> QED
  BY <1>3, <1>4, <1>5 DEF Moderate

LEMMA LeaveSteps ==
    ASSUME RowsInv, RowsInv', LeaveInv, GraphRows, Moderate \/ Grows(graph, graph'), [Next]_vars
    PROVE  LeaveInv'
<1>1. lone' => lone
  BY CalmStays DEF RowsInv
<1>2. WorkInv /\ WorkInv' /\ topic.version \in Nat
  BY DEF RowsInv, TopicRows
<1>3. CASE Moderate
  BY <1>3, ModerateKeepsLeave
<1>4. ASSUME Grows(graph, graph'), UNCHANGED <<topic, reports, withdrawn>>,
             \A q \in Procs : proc'[q] = proc[q] \/ proc'[q].pc # "t:save"
      PROVE  LeaveInv'
  <2>1. topic'.latest = topic.latest /\ topic'.status = topic.status /\ topic.version <= topic'.version
    BY <1>2, <1>4
  <2> QED
    BY <1>1, <1>4, <2>1, LeaveKept
<1>5. CASE Grows(graph, graph') /\ OtherStep
  BY <1>4, <1>5 DEF OtherStep, topicVars, SynthPC, TopicPC
<1>6. ASSUME NEW p \in Procs, ArtifactStep(p), UNCHANGED topicVars, Grows(graph, graph') PROVE LeaveInv'
  <2>1. PICK c : c = proc[p]
    OBVIOUS
  <2>2. PICK r : r = proc'[p]
    OBVIOUS
  <2>3. Acts(p) /\ r.pc # "t:save"
    BY <1>6, <2>1, <2>2, ArtifactDoes, IdleShape DEF StartsBuild, WritesBuild, FinishesBuild, NamesBuild,
       FailsBuild, ThrowsBuild
  <2>4. \A q \in Procs : proc'[q] = proc[q] \/ proc'[q].pc # "t:save"
    BY <2>2, <2>3 DEF Acts
  <2> QED
    BY <1>4, <1>6, <2>4 DEF topicVars
<1>7. ASSUME NEW p \in Procs, TopicStep(p), UNCHANGED graph PROVE LeaveInv'
  BY <1>1, <1>7, GrowsNot, TopicKeepsLeave
<1>8. ASSUME CreateTopic \/ UpdateTopic \/ \E p \in Procs : InvalidateTopics(p), UNCHANGED graph
      PROVE  LeaveInv'
  <2>1. Remarked /\ UNCHANGED reports
    BY <1>8, MarkDoes
  <2>2. UNCHANGED withdrawn
    BY <1>8 DEF CreateTopic, UpdateTopic, InvalidateTopics
  <2>3. \A q \in Procs : proc'[q] = proc[q] \/ proc'[q].pc # "t:save"
    <3>1. CASE CreateTopic \/ UpdateTopic
      BY <1>2, <3>1, AtomicActs DEF Outside
    <3>2. ASSUME NEW p \in Procs, InvalidateTopics(p)
          PROVE  \A q \in Procs : proc'[q] = proc[q] \/ proc'[q].pc # "t:save"
      <4>1. Acts(p) /\ proc'[p].pc \in {"idle", "v:refresh"}
        BY <1>2, <3>2, InvalidateActs, IdleShape DEF AfterShape, Has
      <4> QED
        BY <4>1 DEF Acts
    <3> QED
      BY <1>8, <3>1, <3>2
  <2>4. /\ topic'.latest = topic.latest /\ topic.version <= topic'.version
        /\ topic'.status = "active" => topic.status = "active" \/ topic.latest = 0
    BY <1>2, <2>1 DEF Remarked
  <2>5. Grows(graph, graph')
    BY <1>8, GrowsNot
  <2> QED
    BY <1>1, <2>1, <2>2, <2>3, <2>4, <2>5, LeaveKept
<1>9. CASE (CreateTopic \/ UpdateTopic) /\ UNCHANGED <<graphVars, artifactVars>>
  BY <1>8, <1>9 DEF graphVars
<1>10. ASSUME NEW p \in Procs, InvalidateTopics(p), UNCHANGED <<graphVars, artifactVars>> PROVE LeaveInv'
  BY <1>8, <1>10 DEF graphVars
<1>11. ASSUME NEW p \in Procs, TopicStep(p), UNCHANGED <<graphVars, artifactVars>> PROVE LeaveInv'
  BY <1>7, <1>11 DEF graphVars
<1>12. ASSUME NEW p \in Procs, ArtifactStep(p), UNCHANGED <<graphVars, topicVars>> PROVE LeaveInv'
  <2>1. Grows(graph, graph')
    BY <1>12, GrowsNot DEF graphVars
  <2> QED
    BY <1>6, <1>12, <2>1
<1>13. CASE OtherStep /\ ~ Moderate
  BY <1>5, <1>13
<1> QED
  BY <1>2, <1>3, <1>9, <1>10, <1>11, <1>12, <1>13, StepsOf

LEMMA LeaveHolds == Spec => []LeaveInv
<1>1. VectorInv => KnowledgeInv
  BY DEF VectorInv
<1>2. GraphInv /\ KnowledgeInv' /\ ArtifactInv /\ ArtifactInv' /\ LeaveInv /\ [Next]_vars => LeaveInv'
  <2> SUFFICES ASSUME GraphInv, KnowledgeInv', ArtifactInv, ArtifactInv', LeaveInv, [Next]_vars PROVE LeaveInv'
    OBVIOUS
  <2>1. GraphRows /\ RowsInv /\ RowsInv'
    BY DEF GraphInv, ArtifactInv
  <2>2. Moderate \/ Grows(graph, graph')
    BY GraphSteps
  <2> QED
    BY <2>1, <2>2, LeaveSteps
<1>3. Init => LeaveInv
  <2> SUFFICES ASSUME Init PROVE LeaveInv
    OBVIOUS
  <2>1. topic.latest = 0 /\ \A p \in Procs : proc[p] = Idle
    BY DEF Init, CommandsInit, WorkInit, TopicInit
  <2> QED
    BY <2>1, IdleShape DEF LeaveInv, RejectedClaimsLeave, LeaveAt
<1> QED
  BY <1>1, <1>2, <1>3, GraphHolds, ArtifactHolds, VectorStarts, VectorSteps, PTL DEF Spec

\* A Topic that passes for active does not show a claim that is rejected, not
\* after commands that came one after another, and never when the rejection gave
\* the Topic a new version: a synthesis that read the claim before it saves under
\* the version it read.
THEOREM RejectedClaimsDoLeave == Spec => []RejectedClaimsLeave
<1>1. LeaveInv => RejectedClaimsLeave
  BY DEF LeaveInv
<1> QED
  BY <1>1, LeaveHolds, PTL

-----------------------------------------------------------------------------
(* What contradicts each other is shown as disputed. *)

LEMMA ShownStays ==
    ASSUME NEW n, Lasts(n), Settled(n), NEW C, NEW D
    PROVE  Settled(n)' /\ (Shown(n, C, D) => Shown(n, C, D)')
BY DEF Lasts, Shown

\* As long as no report is saved and no claims are read.
LEMMA OpenKept ==
    ASSUME OpenInv, UNCHANGED reports, \A n \in DOMAIN gens : Lasts(n),
           \A q \in Procs : proc'[q] = proc[q] \/ proc'[q].pc \notin {"t:claims", "t:save"}
    PROVE  OpenInv'
<1>1. ASSUME NEW i \in DOMAIN reports' PROVE ReportAt(reports[i])'
  <2>1. PICK r : r = reports[i]
    OBVIOUS
  <2>2. ReportAt(r) /\ reports'[i] = r
    BY <2>1, <1>1 DEF OpenInv
  <2>3. CASE r.gen # 0
    <3>1. PICK n, C, D : n = r.gen /\ C = r.claims /\ D = r.disputed
      OBVIOUS
    <3>2. Settled(n) /\ Shown(n, C, D)
      BY <2>2, <2>3, <3>1 DEF ReportAt
    <3>3. Settled(n)' /\ Shown(n, C, D)'
      BY <3>2, ShownStays DEF Settled
    <3> QED
      BY <2>2, <3>1, <3>3 DEF ReportAt
  <2> QED
    BY <2>2, <2>3 DEF ReportAt
<1>2. ASSUME NEW q \in Procs PROVE OpenAt(proc[q])'
  <2>1. PICK c : c = proc'[q]
    OBVIOUS
  <2>2. CASE c.pc \in {"t:claims", "t:save"} /\ c.gen # 0
    <3>1. OpenAt(c)
      BY <2>1, <2>2 DEF OpenInv
    <3>2. PICK n, C, D : n = c.gen /\ C = c.claims /\ D = c.disputed
      OBVIOUS
    <3>3. Settled(n) /\ (c.pc = "t:save" => Shown(n, C, D))
      BY <2>2, <3>1, <3>2 DEF OpenAt
    <3>4. Settled(n)' /\ (c.pc = "t:save" => Shown(n, C, D)')
      BY <3>3, ShownStays DEF Settled
    <3> QED
      BY <2>1, <3>2, <3>4 DEF OpenAt
  <2> QED
    BY <2>1, <2>2 DEF OpenAt
<1> QED
  BY <1>1, <1>2 DEF OpenInv

\* What is served is settled.
LEMMA ServedIsSettled ==
    ASSUME GraphRows, served # 0
    PROVE  Settled(served)
BY DEF GraphRows, Settled, Activatable

LEMMA TopicKeepsOpen ==
    ASSUME RowsInv, OpenInv, GraphRows, NEW p \in Procs, TopicStep(p), UNCHANGED graphVars
    PROVE  OpenInv'
<1>1. PICK c : c = proc[p]
  OBVIOUS
<1>2. PICK r : r = proc'[p]
  OBVIOUS
<1>3. UNCHANGED <<graph, gens, served>>
  BY DEF graphVars
<1>4. \A n \in DOMAIN gens : Lasts(n)
  BY <1>3 DEF Lasts, Settled, OK, Disputed
<1>5. OpenAt(c)
  BY <1>1 DEF OpenInv
<1>6. ASSUME Acts(p), UNCHANGED reports, OpenAt(r)' PROVE OpenInv'
  <2>1. \A i \in DOMAIN reports : ReportAt(reports[i])'
    BY <1>3, <1>6 DEF OpenInv, ReportAt, Settled, OK, Disputed, Shown
  <2>2. ASSUME NEW q \in Procs PROVE OpenAt(proc[q])'
    <3>1. CASE q = p
      BY <1>2, <1>6, <3>1 DEF OpenAt, Settled, OK, Disputed, Shown
    <3>2. CASE q # p
      <4>1. proc'[q] = proc[q] /\ OpenAt(proc[q])
        BY <1>6, <3>2 DEF Acts, OpenInv
      <4> QED
        BY <1>3, <4>1 DEF OpenAt, Settled, OK, Disputed, Shown
    <3> QED
      BY <3>1, <3>2
  <2> QED
    BY <1>6, <2>1, <2>2 DEF OpenInv
<1>7. CASE SearchTopic(p) \/ FollowGraph(p) \/ LoadClaims(p)
  <2>1. Acts(p) /\ ReadsOf(c, r) /\ UNCHANGED <<topic, reports, withdrawn>>
    BY <1>1, <1>2, <1>7, ReadDoes
  <2>2. CASE c.pc = "t:search"
    BY <1>6, <2>1, <2>2 DEF ReadsOf, OpenAt
  <2>3. CASE c.pc = "t:graph"
    <3>1. r.pc = "t:claims" /\ r.gen = served
      BY <2>1, <2>3 DEF ReadsOf
    <3>2. served # 0 => Settled(served)'
      BY <1>3, ServedIsSettled DEF Settled, OK, Disputed
    <3>3. OpenAt(r)'
      BY <1>3, <3>1, <3>2 DEF OpenAt, Settled, OK, Disputed
    <3> QED
      BY <1>6, <2>1, <3>3
  <2>4. CASE c.pc = "t:claims"
    <3>1. /\ r.pc = "t:save" /\ r.gen = c.gen
          /\ r.disputed = {x \in r.claims : graph.claims[x] = "disputed" \/ Disputed(graph, x)}
      BY <2>1, <2>4 DEF ReadsOf
    <3>2. c.gen # 0 => Settled(c.gen)
      BY <1>5, <2>4 DEF OpenAt
    <3>3. c.gen # 0 => Shown(c.gen, r.claims, r.disputed)
      BY <3>1, <3>2 DEF Settled, OK, Shown
    <3>4. OpenAt(r)'
      BY <1>3, <3>1, <3>2, <3>3 DEF OpenAt, Settled, OK, Disputed, Shown
    <3> QED
      BY <1>6, <2>1, <3>4
  <2> QED
    BY <2>1, <2>2, <2>3, <2>4 DEF ReadsOf
<1>8. CASE StartTopicBuild(p) \/ StartRender(p)
  <2>1. Acts(p) /\ StartsWith(r) /\ UNCHANGED <<topic, reports, withdrawn>>
    BY <1>2, <1>8, StartDoes
  <2>2. OpenAt(r)'
    BY <2>1 DEF StartsWith, OpenAt
  <2> QED
    BY <1>6, <2>1, <2>2
<1>9. CASE SaveReport(p)
  <2>1. PICK y : y = [gen |-> c.gen, at |-> c.at, claims |-> c.claims, disputed |-> c.disputed,
                    relations |-> c.relations]
    OBVIOUS
  <2>2. /\ Acts(p) /\ c.pc = "t:save"
        /\ \/ /\ r.pc = "a:start" /\ reports' = Append(reports, y)
              /\ topic' = [topic EXCEPT !.status = "active", !.why = NoReason,
                                        !.latest = Len(reports) + 1]
           \/ r = Idle /\ UNCHANGED <<topic, reports>>
    BY <1>1, <1>2, <1>9, <2>1, SaveDoes
  <2>3. OpenAt(r)'
    BY <2>2, IdleShape DEF OpenAt
  <2>4. CASE UNCHANGED reports
    BY <1>6, <2>2, <2>3, <2>4
  <2>5. CASE /\ reports' = Append(reports, y)
             /\ topic' = [topic EXCEPT !.status = "active", !.why = NoReason,
                                       !.latest = Len(reports) + 1]
    <3>1. /\ DOMAIN reports' = DOMAIN reports \cup {Len(reports) + 1}
          /\ reports'[Len(reports) + 1] = y /\ \A n \in DOMAIN reports : reports'[n] = reports[n]
      BY <1>1, <2>1, <2>2, <2>5, SavedRows
    <3>2. ReportAt(y)'
      BY <1>3, <1>5, <2>1, <2>2 DEF OpenAt, ReportAt, Settled, OK, Disputed, Shown
    <3>3. ASSUME NEW i \in DOMAIN reports' PROVE ReportAt(reports[i])'
      <4>1. CASE i = Len(reports) + 1
        BY <3>1, <3>2, <4>1 DEF ReportAt, Settled, OK, Disputed, Shown
      <4>2. CASE i # Len(reports) + 1
        <5>1. reports'[i] = reports[i] /\ ReportAt(reports[i])
          BY <3>1, <4>2 DEF OpenInv
        <5> QED
          BY <1>3, <5>1 DEF ReportAt, Settled, OK, Disputed, Shown
      <4> QED
        BY <4>1, <4>2
    <3>4. ASSUME NEW q \in Procs PROVE OpenAt(proc[q])'
      <4>1. CASE q = p
        BY <1>2, <2>3, <4>1 DEF OpenAt, Settled, OK, Disputed, Shown
      <4>2. CASE q # p
        <5>1. proc'[q] = proc[q] /\ OpenAt(proc[q])
          BY <2>2, <4>2 DEF Acts, OpenInv
        <5> QED
          BY <1>3, <5>1 DEF OpenAt, Settled, OK, Disputed, Shown
      <4> QED
        BY <4>1, <4>2
    <3> QED
      BY <3>3, <3>4 DEF OpenInv
  <2> QED
    BY <2>2, <2>4, <2>5
<1> QED
  BY <1>7, <1>8, <1>9 DEF TopicStep

LEMMA OpenSteps ==
    ASSUME RowsInv, OpenInv, GraphRows, \A n \in DOMAIN gens : Lasts(n), [Next]_vars
    PROVE  OpenInv'
<1>1. WorkInv
  BY DEF RowsInv
<1>2. CASE OtherStep
  BY <1>2, OpenKept DEF OtherStep, topicVars, SynthPC, TopicPC
<1>3. CASE CreateTopic \/ UpdateTopic \/ Moderate
  <2>1. UNCHANGED <<proc, reports>>
    BY <1>1, <1>3, AtomicActs, MarkDoes DEF Outside
  <2> QED
    BY <2>1, OpenKept
<1>4. ASSUME NEW p \in Procs, InvalidateTopics(p) PROVE OpenInv'
  <2>1. Acts(p) /\ proc'[p].pc \in {"idle", "v:refresh"}
    BY <1>1, <1>4, InvalidateActs, IdleShape DEF AfterShape, Has
  <2>2. UNCHANGED reports
    BY <1>4, MarkDoes
  <2> QED
    BY <2>1, <2>2, OpenKept DEF Acts
<1>5. ASSUME NEW p \in Procs, TopicStep(p), UNCHANGED <<graphVars, artifactVars>> PROVE OpenInv'
  BY <1>5, TopicKeepsOpen
<1>6. ASSUME NEW p \in Procs, ArtifactStep(p), UNCHANGED <<graphVars, topicVars>> PROVE OpenInv'
  <2>1. PICK c : c = proc[p]
    OBVIOUS
  <2>2. PICK r : r = proc'[p]
    OBVIOUS
  <2>3. Acts(p) /\ r.pc \notin {"t:claims", "t:save"}
    BY <1>6, <2>1, <2>2, ArtifactDoes, IdleShape DEF StartsBuild, WritesBuild, FinishesBuild, NamesBuild,
       FailsBuild, ThrowsBuild
  <2>4. \A q \in Procs : proc'[q] = proc[q] \/ proc'[q].pc \notin {"t:claims", "t:save"}
    BY <2>2, <2>3 DEF Acts
  <2> QED
    BY <1>6, <2>4, OpenKept DEF topicVars
<1>7. CASE (CreateTopic \/ UpdateTopic) /\ UNCHANGED <<graphVars, artifactVars>>
  BY <1>3, <1>7
<1>8. ASSUME NEW p \in Procs, InvalidateTopics(p), UNCHANGED <<graphVars, artifactVars>> PROVE OpenInv'
  BY <1>4, <1>8
<1> QED
  BY <1>1, <1>2, <1>3, <1>5, <1>6, <1>7, <1>8, StepsOf

LEMMA OpenHolds == Spec => []OpenInv
<1>1. VectorInv => KnowledgeInv
  BY DEF VectorInv
<1>2. GraphInv /\ KnowledgeInv' /\ ArtifactInv /\ OpenInv /\ [Next]_vars => OpenInv'
  <2> SUFFICES ASSUME GraphInv, KnowledgeInv', ArtifactInv, OpenInv, [Next]_vars PROVE OpenInv'
    OBVIOUS
  <2>1. GraphRows /\ RowsInv
    BY DEF GraphInv, ArtifactInv
  <2>2. \A n \in DOMAIN gens : Lasts(n)
    BY GraphSteps
  <2> QED
    BY <2>1, <2>2, OpenSteps
<1>3. Init => OpenInv
  <2> SUFFICES ASSUME Init PROVE OpenInv
    OBVIOUS
  <2>1. reports = <<>> /\ \A p \in Procs : proc[p] = Idle
    BY DEF Init, CommandsInit, WorkInit, TopicInit
  <2>2. DOMAIN reports = {}
    BY <2>1
  <2> QED
    BY <2>1, <2>2, IdleShape DEF OpenInv, OpenAt
<1> QED
  BY <1>1, <1>2, <1>3, GraphHolds, ArtifactHolds, VectorStarts, VectorSteps, PTL DEF Spec

\* Claims of the served Generation that contradict each other are in an open
\* conflict, whichever builds they come from and whichever builds run, and
\* neither passes for proposed or for sure; a report that has both shows them as disputed.
THEOREM ContradictionsStayOpen == Spec => []ContradictionsAreOpen
<1>1. GraphInv /\ OpenInv => ContradictionsAreOpen
  <2> SUFFICES ASSUME GraphInv, OpenInv PROVE ContradictionsAreOpen
    OBVIOUS
  <2>1. GraphRows /\ IsGraph(graph)
    BY DEF GraphInv, GraphRows
  <2>2. ASSUME served # 0, NEW c \in gens[served].claims, NEW d \in gens[served].claims, Contradicts(c, d)
        PROVE  Disputed(graph, c) /\ graph.claims[c] # "proposed" /\ graph.level[c] = "disputed"
    <3>1. Settled(served)
      BY <2>1, <2>2, ServedIsSettled
    <3>2. c \in Claims
      BY <2>1, <2>2, <3>1, GensTyped DEF Settled
    <3>3. Disputed(graph, c)
      BY <2>2, <3>1 DEF Settled, OK
    <3> QED
      BY <2>1, <3>2, <3>3 DEF IsGraph
  <2>3. ASSUME NEW i \in DOMAIN reports, reports[i].gen # 0
        PROVE  \A c, d \in reports[i].claims \cap gens[reports[i].gen].claims :
                   Contradicts(c, d) => c \in reports[i].disputed
    BY <2>3 DEF OpenInv, ReportAt, Shown
  <2> QED
    BY <2>2, <2>3 DEF ContradictionsAreOpen
<1> QED
  BY <1>1, OpenHolds, GraphHolds, PTL

-----------------------------------------------------------------------------
(* What an active Topic shows is current. *)

\* What the steps of a build do to what is served, and which Generation they
\* are about.
GraphDone(c, r) ==
    \/ /\ c.pc \in {"idle", "g:refresh"} /\ UNCHANGED <<graph, served>>
       /\ Len(gens') = Len(gens) + 1 /\ r.gen = Len(gens) + 1 /\ r.pc \in OpenPC
    \/ /\ c.pc \in OpenPC /\ UNCHANGED served /\ DOMAIN gens' = DOMAIN gens
       /\ r.pc \in OpenPC => r.gen = c.gen
       /\ r.pc # "topics"
    \/ /\ c.pc \in {"g:refresh", "g:previous", "g:failed"} /\ UNCHANGED <<graph, served>>
       /\ DOMAIN gens' = DOMAIN gens /\ r.pc \notin OpenPC \cup {"topics"}
    \/ c.pc = "g:switch" /\ r.pc = "topics" /\ DOMAIN gens' = DOMAIN gens
    \/ used'["fault"] # 0 /\ DOMAIN gens' = DOMAIN gens /\ r.pc = "g:failed"

LEMMA GraphStepDoes ==
    ASSUME GraphInv, NEW p \in Procs, GraphStep(p), NEW c, c = proc[p], NEW r, r = proc'[p]
    PROVE  GraphDone(c, r) /\ used'["change"] = used["change"]
<1>1. /\ DOMAIN proc = Procs /\ WorkInv /\ GraphRows /\ Shape(c)
      /\ "change" \in Kinds /\ "fault" \in Kinds /\ Len(gens) \in Nat
  BY CountedAssumption, GensTyped DEF GraphInv, WorkInv, Counted
<1>2. c.pc \in GraphPC => GraphShape(c) /\ "gen" \in DOMAIN c /\ "pc" \in DOMAIN c
  BY <1>1, ShapeOf DEF GraphShape, Has
<1>3. CASE StartGraphBuild(p) \/ RefreshGraph(p)
  <2>1. \/ /\ \E m, s, a : r = NewBuild(m, s, a)
           /\ CreateGeneration /\ c.pc \in {"idle", "g:refresh"}
        \/ r = Idle /\ UNCHANGED gens /\ c.pc = "g:refresh"
    <3>1. CASE StartGraphBuild(p)
      <4>1. PICK m, s, a : Start(p, "build", NewBuild(m, s, a)) /\ CreateGeneration
        BY <3>1 DEF StartGraphBuild
      <4>2. PICK d : d = NewBuild(m, s, a)
        OBVIOUS
      <4>3. c.pc = "idle" /\ r = d
        BY <1>1, <4>1, <4>2 DEF Start, Begin, Launch, Set, At
      <4> QED
        BY <4>1, <4>2, <4>3
    <3>2. CASE RefreshGraph(p)
      <4>1. c.pc = "g:refresh"
        BY <3>2 DEF RefreshGraph, At
      <4>2. CASE Set(p, Idle) /\ UNCHANGED gens
        BY <1>1, <4>1, <4>2 DEF Set
      <4>3. CASE Set(p, NewBuild(FALSE, 0, "yes")) /\ CreateGeneration
        <5>1. PICK d : d = NewBuild(FALSE, 0, "yes")
          OBVIOUS
        <5>2. r = d
          BY <1>1, <4>3, <5>1 DEF Set
        <5> QED
          BY <4>1, <4>3, <5>1, <5>2
      <4> QED
        BY <3>2, <4>2, <4>3 DEF RefreshGraph
    <3> QED
      BY <1>3, <3>1, <3>2
  <2>2. UNCHANGED <<graph, served>>
    BY <1>3 DEF StartGraphBuild, RefreshGraph
  <2>3. used'["change"] = used["change"]
    <3>1. CASE StartGraphBuild(p)
      <4>1. Spend("build")
        BY <3>1 DEF StartGraphBuild, Start, Begin, Launch
      <4> QED
        BY <1>1, <4>1, SpendDoes DEF Counted
    <3> QED
      BY <1>3, <3>1 DEF RefreshGraph, Step
  <2>4. CASE r = Idle /\ UNCHANGED gens /\ c.pc = "g:refresh"
    BY <2>2, <2>3, <2>4, IdleShape DEF GraphDone, OpenPC
  <2>5. ASSUME NEW m, NEW s, NEW a, r = NewBuild(m, s, a), CreateGeneration, c.pc \in {"idle", "g:refresh"}
        PROVE  GraphDone(c, r)
    <3>1. PICK y : gens' = Append(gens, y)
      BY <2>5 DEF CreateGeneration
    <3>2. Len(gens') = Len(gens) + 1
      BY <1>1, <3>1 DEF GraphRows
    <3>3. r.gen = Len(gens) + 1 /\ r.pc \in OpenPC
      BY <2>5 DEF NewBuild, OpenPC
    <3> QED
      BY <2>2, <2>5, <3>2, <3>3 DEF GraphDone
  <2> QED
    BY <2>1, <2>3, <2>4, <2>5
<1>4. CASE MarkStaleEvidence(p) \/ Project(p) \/ ListChunks(p) \/ NextChunk(p) \/ ModelAnswers(p)
           \/ MarkSucceeded(p) \/ Align(p) \/ BuildNeighbors(p)
  <2>1. c.pc \in OpenPC /\ UNCHANGED <<used, served>>
    BY <1>1, <1>4 DEF MarkStaleEvidence, Project, ListChunks, NextChunk, ModelAnswers, MarkSucceeded,
       Align, BuildNeighbors, At, OpenPC, Step, graphVars
  <2>2. DOMAIN gens' = DOMAIN gens
    BY <1>4 DEF MarkStaleEvidence, Project, ListChunks, NextChunk, ModelAnswers, MarkSucceeded,
       Align, BuildNeighbors, graphVars, Write
  <2>3. GraphShape(c) /\ "gen" \in DOMAIN c /\ "pc" \in DOMAIN c
    BY <1>2, <2>1 DEF OpenPC, GraphPC
  <2>4. r.gen = c.gen /\ r.pc # "topics"
    <3>1. CASE MarkStaleEvidence(p) \/ Project(p) \/ ModelAnswers(p) \/ Align(p) \/ BuildNeighbors(p)
      <4>1. \E x : Goto(p, x) /\ x # "topics"
        BY <3>1 DEF MarkStaleEvidence, Project, ModelAnswers, Align, BuildNeighbors
      <4> QED
        BY <1>1, <2>3, <4>1 DEF Goto, Set
    <3>2. CASE ListChunks(p) \/ MarkSucceeded(p)
      BY <1>1, <2>3, <3>2 DEF ListChunks, MarkSucceeded, Set
    <3>3. CASE NextChunk(p)
      <4>1. \E k : \/ Set(p, [c EXCEPT !.todo = @ \ {k}])
                   \/ Set(p, [c EXCEPT !.todo = @ \ {k}, !.chunk = k, !.pc = "g:model"])
        BY <3>3 DEF NextChunk
      <4>2. c.pc # "topics"
        BY <2>1 DEF OpenPC
      <4> QED
        BY <1>1, <2>3, <4>1, <4>2 DEF Set
    <3> QED
      BY <1>4, <3>1, <3>2, <3>3
  <2> QED
    BY <2>1, <2>2, <2>4 DEF GraphDone
<1>5. CASE ExtractionFails(p)
  <2>1. c.pc \in OpenPC /\ UNCHANGED <<gens, served>> /\ Spend("fault") /\ c.pc \in GraphPC
    BY <1>5 DEF ExtractionFails, OpenPC, GraphPC
  <2>2. \E x \in {"g:failed", "g:extract"} : r = [c EXCEPT !.chunk = 0, !.pc = x]
    BY <1>1, <1>5 DEF ExtractionFails, Set
  <2>3. r.gen = c.gen /\ r.pc # "topics"
    BY <1>2, <2>1, <2>2
  <2>4. used'["change"] = used["change"]
    BY <1>1, <2>1, SpendDoes DEF Counted
  <2> QED
    BY <2>1, <2>3, <2>4 DEF GraphDone
<1>6. CASE Finalize(p)
  <2>1. c.pc = "g:verify" /\ UNCHANGED <<used, served>> /\ DOMAIN gens' = DOMAIN gens
    BY <1>6 DEF Finalize, At, Step
  <2>2. r = Idle \/ \E x \in {"g:previous", "g:failed"} : r = [c EXCEPT !.pc = x]
    BY <1>1, <1>6 DEF Finalize, Set, Goto
  <2>3. r.pc \notin OpenPC \cup {"topics"} /\ c.pc \in OpenPC
    BY <1>2, <2>1, <2>2, IdleShape DEF OpenPC, GraphPC
  <2> QED
    BY <2>1, <2>3 DEF GraphDone
<1>7. CASE ReadPrevious(p) \/ BuildFails(p)
  <2>1. c.pc \in {"g:previous", "g:failed"} /\ UNCHANGED <<used, graph, served>> /\ DOMAIN gens' = DOMAIN gens
    BY <1>7 DEF ReadPrevious, BuildFails, At, Step, graphVars
  <2>2. \/ r = Idle \/ r = [c EXCEPT !.pc = "g:failed"]
        \/ r = [c EXCEPT !.pc = "g:switch", !.prev = served]
    BY <1>1, <1>7 DEF ReadPrevious, BuildFails, Set, Goto
  <2>3. r.pc \notin OpenPC \cup {"topics"}
    BY <1>2, <2>1, <2>2, IdleShape DEF OpenPC, GraphPC
  <2> QED
    BY <2>1, <2>3 DEF GraphDone
<1>8. CASE SwitchPointer(p)
  <2>1. /\ c.pc = "g:switch" /\ UNCHANGED used /\ DOMAIN gens' = DOMAIN gens
        /\ r = [c EXCEPT !.pc = "topics"]
    BY <1>1, <1>8 DEF SwitchPointer, At, Step, Switched, Goto, Set
  <2> QED
    BY <1>2, <2>1 DEF GraphDone, GraphPC
<1>9. CASE BuildThrows(p)
  <2>1. /\ Spend("fault") /\ UNCHANGED gens /\ r = [c EXCEPT !.pc = "g:failed"]
        /\ (c.pc \in GraphPC \/ (c.pc = "topics" /\ c.gen # 0 /\ c.then = "idle"))
    BY <1>1, <1>9 DEF BuildThrows, Throw, Goto, Set, graphVars, At, GraphPCs, GraphPC
  <2>2. "pc" \in DOMAIN c
    BY <1>1, <2>1 DEF Shape, Idle, AfterShape, VectorShape, VectorBuildShape, VectorRefreshShape, GraphShape,
       TopicShape, ArtifactShape, Has
  <2>3. used'["fault"] # 0 /\ used'["change"] = used["change"]
    BY <1>1, <2>1, SpendDoes DEF Counted
  <2> QED
    BY <2>1, <2>2, <2>3 DEF GraphDone
<1> QED
  BY <1>3, <1>4, <1>5, <1>6, <1>7, <1>8, <1>9 DEF GraphStep

\* The vector spaces do not change the knowledge.
LEMMA VectorsKeepKnowledge ==
    ASSUME WorkInv, NEW p \in Procs, VectorStep(p)
    PROVE  used'["change"] = used["change"]
<1>1. "change" \in Kinds
  BY CountedAssumption DEF Counted
<1>2. \/ Step
      \/ \E k \in Counted \ {"change"} : Spend(k)
  <2>1. CASE StartVectorBuild(p)
    <3>1. \E r : Start(p, "vbuild", r)
      BY <2>1 DEF StartVectorBuild
    <3> QED
      BY <3>1 DEF Start, Begin, Launch, Counted
  <2>2. CASE CallFails(p)
    BY <2>2 DEF CallFails, Counted
  <2>3. CASE StartVerify(p) \/ StartVectorRefresh(p) \/ ApplyVectorPlan(p) \/ StartTest(p)
    <3>1. \E k \in {"verify", "refresh", "vapply", "test"} : \E r : Start(p, k, r)
      <4>1. CASE StartVerify(p)
        BY <4>1 DEF StartVerify
      <4>2. CASE StartVectorRefresh(p) \/ StartTest(p)
        BY <4>2 DEF StartVectorRefresh, StartTest
      <4>3. CASE ApplyVectorPlan(p)
        <5>1. PICK s, do : Start(p, "vapply", [pc |-> IF do = "activate" THEN "v:activate" ELSE "v:delete",
                                               space |-> s])
          BY <4>3 DEF ApplyVectorPlan
        <5> QED
          BY <5>1
      <4> QED
        BY <2>3, <4>1, <4>2, <4>3
    <3> QED
      BY <3>1 DEF Start, Begin, Launch, Counted
  <2>4. CASE CheckSentinel(p) \/ EmbedNext(p) \/ SaveEmbedding(p) \/ FinishVectorBuild(p) \/ Verdict(p)
             \/ VerifyAborts(p) \/ RefreshVectors(p) \/ FinishRefresh(p) \/ ActivateSpace(p)
             \/ DeleteSpace(p) \/ EndTest(p)
    BY <2>4 DEF CheckSentinel, EmbedNext, SaveEmbedding, FinishVectorBuild, Verdict, VerifyAborts,
       RefreshVectors, FinishRefresh, ActivateSpace, DeleteSpace, EndTest
  <2> QED
    BY <2>1, <2>2, <2>3, <2>4 DEF VectorStep
<1> QED
  BY <1>1, <1>2, SpendDoes DEF Step

CurrentTopic ==
    topic.status = "active" /\ topic.latest # 0 =>
        /\ Report.at = used["change"] /\ Report.gen = served
        /\ served = Len(gens) => Evident(Report.claims)

\* A process that works alone and without failures finds that the Topic is
\* current, unless it is about to mark it.
LEMMA CurrentFound ==
    ASSUME WorkInv, CurrentInv, NEW p \in Procs, Acts(p), lone', NEW c, c = proc[p]
    PROVE  LastAt(c) /\ (Calm => CurrentAt(c) /\ (c.pc # "topics" => CurrentTopic))
<1>1. lone /\ \A q \in Procs : q # p => proc[q] = Idle
  BY ActsKeep DEF Alone
<1>2. LastAt(c) /\ (Calm => CurrentRows /\ CurrentAt(c))
  BY <1>1 DEF CurrentInv
<1>3. c.pc # "topics" => \A q \in Procs : proc[q].pc # "topics"
  BY <1>1, IdleShape
<1> QED
  BY <1>2, <1>3 DEF CurrentRows, CurrentTopic

LEMMA CurrentGoes ==
    ASSUME WorkInv, NEW p \in Procs, Acts(p), NEW r, r = proc'[p], lone' => LastAt(r)',
           Calm' => CurrentAt(r)' /\ (r.pc # "topics" => CurrentTopic')
    PROVE  CurrentInv'
<1>1. lone' => \A q \in Procs : q # p => proc'[q] = Idle
  BY ActsKeep DEF Alone
<1>2. LastAt(Idle)' /\ CurrentAt(Idle)'
  BY IdleShape DEF LastAt, CurrentAt, OpenPC
<1>3. ASSUME lone' PROVE \A q \in Procs : LastAt(proc[q])'
  <2>1. LastAt(r)'
    BY <1>3
  <2> QED
    BY <1>1, <1>2, <1>3, <2>1 DEF LastAt
<1>4. ASSUME Calm' PROVE CurrentRows' /\ \A q \in Procs : CurrentAt(proc[q])'
  <2>1. CurrentAt(r)' /\ lone'
    BY <1>4 DEF Calm
  <2>2. \A q \in Procs : CurrentAt(proc[q])'
    BY <1>1, <1>2, <2>1 DEF CurrentAt, Evident
  <2>3. CurrentRows'
    BY <1>4 DEF CurrentRows, CurrentTopic
  <2> QED
    BY <2>2, <2>3
<1> QED
  BY <1>3, <1>4 DEF CurrentInv

\* Steps that leave alone the graph, the Topic and the count of changes.
LEMMA AwayKeepsCurrent ==
    ASSUME WorkInv, CurrentInv, NEW p \in Procs, Acts(p), NEW c, c = proc[p], NEW r, r = proc'[p],
           UNCHANGED <<graph, gens, served, topic, reports>>, used'["change"] = used["change"],
           Calm' => Calm, r.pc \notin TopicPC \cup OpenPC, r.pc # "topics" => c.pc # "topics"
    PROVE  CurrentInv'
<1>1. LastAt(r)' /\ CurrentAt(r)'
  BY DEF LastAt, CurrentAt, TopicPC
<1>2. ASSUME Calm', r.pc # "topics" PROVE CurrentTopic'
  <2>1. CurrentTopic
    BY <1>2, CurrentFound DEF Calm
  <2> QED
    BY <2>1 DEF CurrentTopic, Report, Evident
<1> QED
  BY <1>1, <1>2, CurrentGoes

\* Commands that are one transaction.
LEMMA OutsideKeepsCurrent ==
    ASSUME CurrentInv, Outside, Calm' => Calm, lone' => lone, used'["change"] = used["change"],
           UNCHANGED <<gens, served, reports>>, graph'.supports = graph.supports,
           topic'.latest = topic.latest,
           topic'.status = "active" => topic.status = "active" \/ topic.latest = 0
    PROVE  CurrentInv'
<1>1. UNCHANGED proc
  BY DEF Outside
<1>2. ASSUME NEW C, Evident(C) PROVE Evident(C)'
  BY <1>2 DEF Evident, HasEvidence
<1>3. ASSUME NEW q \in Procs PROVE (LastAt(proc[q]) => LastAt(proc[q])') /\ (CurrentAt(proc[q]) => CurrentAt(proc[q])')
  <2>1. PICK c : c = proc[q]
    OBVIOUS
  <2>2. PICK C : C = c.claims
    OBVIOUS
  <2>3. Evident(C) => Evident(C)'
    BY <1>2
  <2> QED
    BY <1>1, <2>1, <2>2, <2>3 DEF LastAt, CurrentAt, Evident
<1>4. ASSUME CurrentRows PROVE CurrentRows'
  <2>1. PICK C : C = Report.claims
    OBVIOUS
  <2>2. Report' = Report
    BY DEF Report
  <2>3. Evident(C) => Evident(C)'
    BY <1>2
  <2> QED
    BY <1>1, <1>4, <2>1, <2>2, <2>3 DEF CurrentRows, Evident
<1> QED
  BY <1>3, <1>4 DEF CurrentInv

LEMMA GraphKeepsCurrent ==
    ASSUME GraphInv, GraphRows', CurrentInv, NEW p \in Procs, GraphStep(p), UNCHANGED topicVars, Calm' => Calm
    PROVE  CurrentInv'
<1>1. PICK c : c = proc[p]
  OBVIOUS
<1>2. PICK r : r = proc'[p]
  OBVIOUS
<1>3. /\ WorkInv /\ GraphRows /\ GenAt(c) /\ UNCHANGED <<topic, reports>>
      /\ DOMAIN gens = 1 .. Len(gens) /\ Len(gens) \in Nat
  BY <1>1, GensTyped DEF GraphInv, topicVars
<1>4. DOMAIN gens' = 1 .. Len(gens') /\ Len(gens') \in Nat
  <2>1. gens' \in Seq(Generation)
    BY DEF GraphRows
  <2> QED
    BY <2>1
<1>5. Acts(p) /\ GraphDone(c, r) /\ used'["change"] = used["change"] /\ c.pc \in GraphPC \cup {"topics", "g:refresh", "idle"}
      /\ r.pc \in GraphPC \cup {"topics", "idle"}
  BY <1>1, <1>2, <1>3, GraphActs, GraphStepDoes DEF GraphMoves
<1>6. ASSUME DOMAIN gens' = DOMAIN gens PROVE Len(gens') = Len(gens)
  <2>1. PICK m, n : m = Len(gens) /\ n = Len(gens')
    OBVIOUS
  <2>2. m \in Nat /\ n \in Nat /\ \A x : x \in 1 .. m <=> x \in 1 .. n
    BY <1>3, <1>4, <1>6, <2>1
  <2>3. (m # 0 => m \in 1 .. n) /\ (n # 0 => n \in 1 .. m)
    BY <2>2
  <2> QED
    BY <2>1, <2>2, <2>3
<1>7. ASSUME lone' PROVE LastAt(c) /\ (Calm => CurrentAt(c) /\ (c.pc # "topics" => CurrentTopic))
  BY <1>1, <1>3, <1>5, <1>7, CurrentFound
<1>8. served = 0 \/ (served \in 1 .. Len(gens) /\ gens[served].state = "active")
  BY <1>3 DEF GraphRows
<1>9. CurrentAt(r)'
  <2>1. r.pc \notin TopicPC
    BY <1>5 DEF GraphPC, TopicPC
  <2> QED
    BY <2>1 DEF CurrentAt, TopicPC
<1>10. ASSUME UNCHANGED served, c.pc # "topics", Calm', served = Len(gens') => UNCHANGED graph /\ served = Len(gens)
       PROVE  CurrentTopic'
  <2>1. CurrentTopic
    BY <1>7, <1>10 DEF Calm
  <2> QED
    BY <1>3, <1>5, <1>10, <2>1 DEF CurrentTopic, Report, Evident
<1>11. CASE /\ c.pc \in {"idle", "g:refresh"} /\ UNCHANGED <<graph, served>>
            /\ Len(gens') = Len(gens) + 1 /\ r.gen = Len(gens) + 1 /\ r.pc \in OpenPC
  <2>1. LastAt(r)'
    BY <1>11 DEF LastAt
  <2>2. served # Len(gens')
    BY <1>3, <1>8, <1>11
  <2>3. Calm' => CurrentTopic'
    BY <1>10, <1>11, <2>2
  <2> QED
    BY <1>2, <1>3, <1>5, <1>9, <2>1, <2>3, CurrentGoes
<1>12. CASE /\ c.pc \in OpenPC /\ UNCHANGED served /\ DOMAIN gens' = DOMAIN gens
            /\ r.pc \in OpenPC => r.gen = c.gen
            /\ r.pc # "topics"
  <2>1. lone' => LastAt(r)'
    BY <1>6, <1>7, <1>12 DEF LastAt
  <2>2. lone' => served # Len(gens')
    <3>1. c.gen \in DOMAIN gens /\ gens[c.gen].state = "building"
      BY <1>3, <1>12 DEF GenAt, Owns, OpenPC, GraphPC
    <3>2. lone' => c.gen = Len(gens)
      BY <1>7, <1>12 DEF LastAt
    <3> QED
      BY <1>3, <1>6, <1>8, <1>12, <3>1, <3>2
  <2>3. Calm' => CurrentTopic'
    BY <1>10, <1>12, <2>2 DEF Calm, OpenPC
  <2> QED
    BY <1>2, <1>3, <1>5, <1>9, <2>1, <2>3, CurrentGoes
<1>13. CASE /\ c.pc \in {"g:refresh", "g:previous", "g:failed"} /\ UNCHANGED <<graph, served>>
            /\ DOMAIN gens' = DOMAIN gens /\ r.pc \notin OpenPC \cup {"topics"}
  <2>1. LastAt(r)'
    BY <1>13 DEF LastAt
  <2>2. Calm' => CurrentTopic'
    BY <1>6, <1>10, <1>13
  <2> QED
    BY <1>2, <1>3, <1>5, <1>9, <2>1, <2>2, CurrentGoes
<1>14. CASE \/ c.pc = "g:switch" /\ r.pc = "topics" /\ DOMAIN gens' = DOMAIN gens
            \/ used'["fault"] # 0 /\ DOMAIN gens' = DOMAIN gens /\ r.pc = "g:failed"
  <2>1. LastAt(r)'
    BY <1>14 DEF LastAt, OpenPC
  <2>2. Calm' => r.pc = "topics"
    BY <1>14 DEF Calm
  <2> QED
    BY <1>2, <1>3, <1>5, <1>9, <2>1, <2>2, CurrentGoes
<1> QED
  BY <1>5, <1>11, <1>12, <1>13, <1>14 DEF GraphDone

LEMMA TopicKeepsCurrent ==
    ASSUME RowsInv, GraphRows, CurrentInv, NEW p \in Procs, TopicStep(p), UNCHANGED graphVars, Calm' => Calm
    PROVE  CurrentInv'
<1>1. PICK c : c = proc[p]
  OBVIOUS
<1>2. PICK r : r = proc'[p]
  OBVIOUS
<1>3. WorkInv /\ UNCHANGED <<graph, gens, served>>
  BY DEF RowsInv, graphVars
<1>4. ASSUME Acts(p), Calm' PROVE CurrentAt(c) /\ (c.pc # "topics" => CurrentTopic)
  BY <1>1, <1>3, <1>4, CurrentFound DEF Calm
<1>5. CASE SearchTopic(p) \/ FollowGraph(p) \/ LoadClaims(p)
  <2>1. /\ Acts(p) /\ ReadsOf(c, r) /\ c.pc \in TopicPC /\ r.pc \in TopicPC
        /\ UNCHANGED <<topic, reports, used>>
    BY <1>1, <1>2, <1>5, ReadDoes
  <2>2. LastAt(r)'
    BY <2>1 DEF LastAt, TopicPC, OpenPC
  <2>3. ASSUME Calm' PROVE CurrentAt(r)'
    <3>1. CurrentAt(c)
      BY <1>4, <2>1, <2>3
    <3>2. r.pc = "t:save" => \A x \in r.claims : HasEvidence(graph, x)
      BY <2>1 DEF ReadsOf, Presentable
    <3>3. r.pc = "t:save" => Evident(r.claims)'
      BY <1>3, <3>2 DEF Evident
    <3>4. r.pc \in {"t:graph", "t:claims", "t:save"} => r.at = used["change"]
      BY <2>1, <3>1 DEF ReadsOf, CurrentAt
    <3>5. r.pc \in {"t:claims", "t:save"} => r.gen = served
      BY <2>1, <3>1 DEF ReadsOf, CurrentAt
    <3> QED
      BY <1>3, <2>1, <3>3, <3>4, <3>5 DEF CurrentAt
  <2>4. ASSUME Calm' PROVE CurrentTopic'
    <3>1. CurrentTopic
      BY <1>4, <2>1, <2>4 DEF TopicPC
    <3> QED
      BY <1>3, <2>1, <3>1 DEF CurrentTopic, Report, Evident
  <2> QED
    BY <1>2, <1>3, <2>1, <2>2, <2>3, <2>4, CurrentGoes
<1>6. CASE StartTopicBuild(p) \/ StartRender(p)
  <2>1. /\ Acts(p) /\ c = Idle /\ StartsWith(r) /\ UNCHANGED <<topic, reports>>
        /\ used'["change"] = used["change"]
    BY <1>1, <1>2, <1>6, StartDoes
  <2>2. LastAt(r)' /\ CurrentAt(r)'
    BY <2>1 DEF LastAt, CurrentAt, StartsWith, OpenPC
  <2>3. ASSUME Calm' PROVE CurrentTopic'
    <3>1. CurrentTopic
      BY <1>4, <2>1, <2>3, IdleShape
    <3> QED
      BY <1>3, <2>1, <3>1 DEF CurrentTopic, Report, Evident
  <2> QED
    BY <1>2, <1>3, <2>1, <2>2, <2>3, CurrentGoes
<1>7. CASE SaveReport(p)
  <2>1. PICK y : y = [gen |-> c.gen, at |-> c.at, claims |-> c.claims, disputed |-> c.disputed,
                    relations |-> c.relations]
    OBVIOUS
  <2>2. /\ Acts(p) /\ c.pc = "t:save" /\ UNCHANGED used
        /\ \/ /\ r.pc = "a:start" /\ reports' = Append(reports, y)
              /\ topic' = [topic EXCEPT !.status = "active", !.why = NoReason,
                                        !.latest = Len(reports) + 1]
           \/ r = Idle /\ UNCHANGED <<topic, reports>>
    BY <1>1, <1>2, <1>7, <2>1, SaveDoes
  <2>3. LastAt(r)' /\ CurrentAt(r)'
    BY <2>2, IdleShape DEF LastAt, CurrentAt, OpenPC
  <2>4. CASE r = Idle /\ UNCHANGED <<topic, reports>>
    <3>1. ASSUME Calm' PROVE CurrentTopic'
      <4>1. CurrentTopic
        BY <1>4, <2>2, <3>1
      <4> QED
        BY <1>3, <2>2, <2>4, <4>1 DEF CurrentTopic, Report, Evident
    <3> QED
      BY <1>2, <1>3, <2>2, <2>3, <3>1, CurrentGoes
  <2>5. CASE /\ reports' = Append(reports, y)
             /\ topic' = [topic EXCEPT !.status = "active", !.why = NoReason,
                                       !.latest = Len(reports) + 1]
    <3>1. reports'[Len(reports) + 1] = y /\ topic'.latest = Len(reports) + 1
      BY <1>1, <2>1, <2>2, <2>5, SavedRows
    <3>2. Report' = y
      BY <3>1 DEF Report
    <3>3. ASSUME Calm' PROVE CurrentTopic'
      <4>1. c.at = used["change"] /\ c.gen = served /\ Evident(c.claims)
        BY <1>4, <2>2, <3>3 DEF CurrentAt
      <4>2. y.at = used'["change"] /\ y.gen = served' /\ \A x \in y.claims : HasEvidence(graph', x)
        BY <1>3, <2>1, <2>2, <4>1 DEF Evident
      <4> QED
        BY <3>2, <4>2 DEF CurrentTopic, Evident
    <3> QED
      BY <1>2, <1>3, <2>2, <2>3, <3>3, CurrentGoes
  <2> QED
    BY <2>2, <2>4, <2>5
<1> QED
  BY <1>5, <1>6, <1>7 DEF TopicStep

LEMMA CurrentSteps ==
    ASSUME GraphInv, GraphRows', RowsInv, CurrentInv, [Next]_vars
    PROVE  CurrentInv'
<1>1. WorkInv /\ GraphRows /\ "change" \in Kinds /\ (Calm' => Calm) /\ (lone' => lone)
  BY CalmStays, CountedAssumption DEF RowsInv, GraphInv, Counted
<1>3. CASE UNCHANGED vars
  <2>1. Outside /\ UNCHANGED <<used, topic, reports, graph, gens, served>>
    BY <1>1, <1>3, SpendNothing DEF vars, commandVars, workVars, topicVars, graphVars, Outside
  <2> QED
    BY <1>1, <2>1, OutsideKeepsCurrent
<1>4. ASSUME UNCHANGED graphVars, UNCHANGED topicVars, CreateSpace \/ CreateVectorPlan \/ CreatePlan \/ Drift
      PROVE  CurrentInv'
  <2>1. Outside
    BY <1>1, <1>4, AtomicActs, DriftDoes
  <2>2. used'["change"] = used["change"]
    <3>1. CASE Drift
      <4>1. Spend("drift")
        BY <3>1 DEF Drift
      <4> QED
        BY <1>1, <4>1, SpendDoes DEF Counted
    <3> QED
      BY <1>1, <1>4, <3>1, AtomicActs
  <2>3. UNCHANGED <<graph, gens, served, topic, reports>>
    BY <1>4 DEF graphVars, topicVars
  <2> QED
    BY <1>1, <2>1, <2>2, <2>3, OutsideKeepsCurrent
<1>5. ASSUME ((CreateTopic \/ UpdateTopic) /\ UNCHANGED graphVars) \/ Moderate PROVE CurrentInv'
  <2>1. Outside /\ used'["change"] = used["change"]
    BY <1>1, <1>5, AtomicActs
  <2>2. UNCHANGED <<gens, served>> /\ graph'.supports = graph.supports
    <3>1. CASE Moderate
      <4>1. ASSUME NEW c \in Claims, ModerateClaim(c)
            PROVE  UNCHANGED <<gens, served>> /\ graph'.supports = graph.supports
        BY <1>1, <4>1, ModerationDoes DEF ModerateClaim, Moderated, GraphRows
      <4>3. ASSUME NEW r \in Relations, ModerateRelation(r)
            PROVE  UNCHANGED <<gens, served>> /\ graph'.supports = graph.supports
        BY <1>1, <4>3, RelationDoes DEF ModerateRelation, Moderated, GraphRows
      <4>2. ASSUME NEW e \in Entities, ModerateEntity(e) PROVE UNCHANGED <<gens, served, graph>>
        BY <4>2 DEF ModerateEntity
      <4> QED
        BY <3>1, <4>1, <4>2, <4>3 DEF Moderate
    <3> QED
      BY <1>5, <3>1 DEF graphVars
  <2>3. Remarked /\ UNCHANGED reports
    BY <1>5, MarkDoes
  <2>4. topic'.latest = topic.latest /\ (topic'.status = "active" => topic.status = "active" \/ topic.latest = 0)
    BY <2>3 DEF Remarked
  <2> QED
    BY <1>1, <2>1, <2>2, <2>3, <2>4, OutsideKeepsCurrent
<1>6. ASSUME NEW p \in Procs, VectorStep(p), UNCHANGED graphVars, UNCHANGED topicVars PROVE CurrentInv'
  <2>1. PICK c, r : c = proc[p] /\ r = proc'[p]
    OBVIOUS
  <2>2. Acts(p) /\ c.pc \in VectorPC \cup {"idle"} /\ r.pc \in VectorPC \cup {"idle", "g:refresh"}
    BY <1>1, <1>6, <2>1, VectorActs DEF VectorMoves
  <2>3. used'["change"] = used["change"] /\ UNCHANGED <<graph, gens, served, topic, reports>>
    BY <1>1, <1>6, VectorsKeepKnowledge DEF graphVars, topicVars
  <2>4. r.pc \notin TopicPC \cup OpenPC /\ c.pc # "topics"
    BY <2>2 DEF VectorPC, BuildPC, CheckPC, TopicPC, OpenPC
  <2> QED
    BY <1>1, <2>1, <2>2, <2>3, <2>4, AwayKeepsCurrent
<1>7. ASSUME NEW p \in Procs, GraphStep(p), UNCHANGED topicVars PROVE CurrentInv'
  BY <1>1, <1>7, GraphKeepsCurrent
<1>8. ASSUME NEW p \in Procs, ApplyPlan(p) \/ Publish(p) \/ Kill(p) PROVE CurrentInv'
  <2>1. PICK r : r = proc'[p]
    OBVIOUS
  <2>2. Acts(p) /\ (r.pc = "topics" \/ (r = Idle /\ used'["fault"] # 0))
    BY <1>1, <1>8, <2>1, PlanActs, PublishActs, KillActs
  <2>3. LastAt(r)' /\ CurrentAt(r)'
    BY <2>2, IdleShape DEF LastAt, CurrentAt, OpenPC
  <2>4. Calm' => r.pc = "topics"
    BY <2>2 DEF Calm
  <2> QED
    BY <1>1, <2>1, <2>2, <2>3, <2>4, CurrentGoes
<1>9. ASSUME NEW p \in Procs, InvalidateTopics(p) PROVE CurrentInv'
  <2>1. PICK r : r = proc'[p]
    OBVIOUS
  <2>2. Acts(p) /\ r.pc \in {"idle", "v:refresh"}
    BY <1>1, <1>9, <2>1, InvalidateActs, IdleShape DEF AfterShape, Has
  <2>3. LastAt(r)' /\ CurrentAt(r)'
    BY <2>2 DEF LastAt, CurrentAt, OpenPC
  <2>4. topic' = MarkTopic(topic) /\ DOMAIN topic = {"status", "version", "latest", "why"}
    BY <1>9 DEF InvalidateTopics, RowsInv, TopicRows
  <2>5. topic'.status = "active" => topic'.latest = 0
    BY <2>4 DEF MarkTopic
  <2>6. CurrentTopic'
    BY <2>5 DEF CurrentTopic
  <2> QED
    BY <1>1, <2>1, <2>2, <2>3, <2>6, CurrentGoes
<1>10. ASSUME NEW p \in Procs, TopicStep(p), UNCHANGED graphVars PROVE CurrentInv'
  BY <1>1, <1>10, TopicKeepsCurrent
<1>11. ASSUME NEW p \in Procs, ArtifactStep(p), UNCHANGED graphVars, UNCHANGED topicVars PROVE CurrentInv'
  <2>1. PICK c, r : c = proc[p] /\ r = proc'[p]
    OBVIOUS
  <2>2. /\ Acts(p) /\ used'["change"] = used["change"] /\ c.pc # "topics"
        /\ r.pc \in ArchivePC \cup {"idle"}
    BY <1>11, <2>1, ArtifactDoes, IdleShape DEF StartsBuild, WritesBuild, FinishesBuild, NamesBuild,
       FailsBuild, ThrowsBuild, ArchivePC
  <2>3. UNCHANGED <<graph, gens, served, topic, reports>>
    BY <1>11 DEF graphVars, topicVars
  <2>4. r.pc \notin TopicPC \cup OpenPC
    BY <2>2 DEF ArchivePC, TopicPC, OpenPC
  <2> QED
    BY <1>1, <2>1, <2>2, <2>3, <2>4, AwayKeepsCurrent
<1> QED
  BY <1>3, <1>4, <1>5, <1>6, <1>7, <1>8, <1>9, <1>10, <1>11 DEF Next, CreatePlan

LEMMA CurrentHolds == Spec => []CurrentInv
<1>1. VectorInv => KnowledgeInv
  BY DEF VectorInv
<1>2. GraphInv /\ KnowledgeInv' /\ ArtifactInv /\ CurrentInv /\ [Next]_vars => CurrentInv'
  <2> SUFFICES ASSUME GraphInv, KnowledgeInv', ArtifactInv, CurrentInv, [Next]_vars PROVE CurrentInv'
    OBVIOUS
  <2>1. GraphInv' /\ RowsInv
    BY GraphSteps DEF ArtifactInv
  <2>2. GraphRows'
    BY <2>1 DEF GraphInv
  <2> QED
    BY <2>1, <2>2, CurrentSteps
<1>3. Init => CurrentInv
  <2> SUFFICES ASSUME Init PROVE CurrentInv
    OBVIOUS
  <2>1. topic.latest = 0 /\ \A p \in Procs : proc[p] = Idle
    BY DEF Init, CommandsInit, WorkInit, TopicInit
  <2> QED
    BY <2>1, IdleShape DEF CurrentInv, CurrentRows, CurrentAt, LastAt, OpenPC
<1> QED
  BY <1>1, <1>2, <1>3, GraphHolds, ArtifactHolds, VectorStarts, VectorSteps, PTL DEF Spec

\* After commands that came one after another without failures, a Topic that
\* passes for active was made from the knowledge and the Generation that are
\* served, and its claims have evidence, unless a later Generation that is not
\* served has marked it stale.
THEOREM ActiveTopicsStayCurrent == Spec => []ActiveTopicsAreCurrent
<1>1. CurrentInv => ActiveTopicsAreCurrent
  <2> SUFFICES ASSUME CurrentInv, lone, AtRest, used["fault"] = 0, topic.status = "active", topic.latest # 0
               PROVE  /\ Report.at = used["change"] /\ Report.gen = served
                      /\ served = Len(gens) => \A c \in Report.claims : HasEvidence(graph, c)
    BY DEF ActiveTopicsAreCurrent
  <2>1. \A p \in Procs : proc[p].pc # "topics"
    BY IdleShape DEF AtRest, Busy
  <2> QED
    BY <2>1 DEF CurrentInv, CurrentRows, Calm, Evident
<1> QED
  BY <1>1, CurrentHolds, PTL

-----------------------------------------------------------------------------
(* The tables have the values that they can have. *)

LEMMA EntitySteps ==
    ASSUME PlansTyped, EntityRows, [Next]_vars
    PROVE  EntityRows'
<1> DEFINE Row(e) == /\ e.status \in {"none", "proposed", "active", "rejected", "redirected"}
                     /\ DOMAIN e = {"status", "version"}
<1>1. CASE UNCHANGED <<plans, entity>>
  BY <1>1 DEF EntityRows
<1>2. CASE CreatePlan
  <2>1. UNCHANGED entity
    BY <1>2 DEF CreatePlan
  <2>2. PICK plan, before : /\ plans' = plans \cup {[do |-> plan, before |-> before]}
                            /\ plan.action = "entity" => plan.entity \in Entities
    BY <1>2 DEF CreatePlan
  <2> QED
    BY <2>1, <2>2 DEF EntityRows
<1>3. ASSUME NEW p \in Procs, ApplyPlan(p) PROVE EntityRows'
  <2>1. UNCHANGED plans
    BY <1>3 DEF ApplyPlan
  <2>2. PICK x \in plans :
          CASE x.do.action = "merge"    -> ApplyMerge(x.do, x.before)
            [] x.do.action = "entity"   -> ApplyEntity(x.do)
            [] x.do.action = "relation" -> ApplyRelation(x.do, x.before)
            [] x.do.action = "activate" -> ApplyActivation(x.do, x.before)
    BY <1>3 DEF ApplyPlan
  <2>3. CASE x.do.action = "merge"
    <3>1. PICK s \in Entities, t \in Entities :
            entity' = [entity EXCEPT ![s] = [status |-> "redirected", version |-> @.version + 1],
                                     ![t].version = @ + 1]
      BY <2>2, <2>3 DEF ApplyMerge, PlansTyped
    <3>2. DOMAIN entity' = Entities
      BY <3>1 DEF EntityRows
    <3>3. ASSUME NEW e \in Entities PROVE Row(entity'[e])
      <4>1. Row(entity[e]) /\ DOMAIN entity = Entities
        BY DEF EntityRows
      <4>2. CASE e # s /\ e # t
        BY <3>1, <4>1, <4>2
      <4>3. CASE e = s /\ e # t
        BY <3>1, <4>1, <4>3
      <4>4. CASE e # s /\ e = t
        BY <3>1, <4>1, <4>4
      <4>5. CASE e = s /\ e = t
        BY <3>1, <4>1, <4>5
      <4> QED
        BY <4>2, <4>3, <4>4, <4>5
    <3> QED
      BY <2>1, <3>2, <3>3 DEF EntityRows
  <2>4. CASE x.do.action = "entity"
    <3>1. PICK e \in Entities : entity' = [entity EXCEPT ![e].status = "active"]
      BY <2>2, <2>4 DEF ApplyEntity, EntityRows
    <3>2. DOMAIN entity' = Entities /\ \A d \in Entities : Row(entity'[d])
      BY <3>1 DEF EntityRows
    <3> QED
      BY <2>1, <3>2 DEF EntityRows
  <2>5. CASE x.do.action \in {"relation", "activate"}
    BY <2>1, <2>2, <2>5 DEF ApplyRelation, ApplyActivation, EntityRows
  <2>6. x.do.action \in {"merge", "entity", "relation", "activate"}
    BY DEF PlansTyped
  <2> QED
    BY <2>3, <2>4, <2>5, <2>6
<1>4. CASE Moderate
  <2>1. UNCHANGED plans
    BY <1>4 DEF Moderate, ModerateClaim, ModerateRelation, Moderated, ModerateEntity
  <2>2. \/ UNCHANGED entity
        \/ \E e \in Entities : \E status \in {"active", "rejected"} :
             entity' = [entity EXCEPT ![e] = [status |-> status, version |-> @.version + 1]]
    BY <1>4 DEF Moderate, ModerateClaim, ModerateRelation, Moderated, ModerateEntity
  <2>3. DOMAIN entity' = Entities /\ \A d \in Entities : Row(entity'[d])
    BY <2>2 DEF EntityRows
  <2> QED
    BY <2>1, <2>3 DEF EntityRows
<1> QED
  BY <1>1, <1>2, <1>3, <1>4 DEF Next, vars, planVars

LEMMA EntityHolds == Spec => []EntityRows
<1>1. GraphInv => PlansTyped
  BY DEF GraphInv
<1>2. PlansTyped /\ EntityRows /\ [Next]_vars => EntityRows'
  BY EntitySteps
<1>3. Init => EntityRows
  BY DEF Init, PlansInit, EntityRows
<1> QED
  BY <1>1, <1>2, <1>3, GraphHolds, PTL DEF Spec

\* The tables of all components have the values that they can have, whatever
\* overlaps, fails and is killed: the Generation that is served is there and
\* active, the snapshots and builds that rows name are there.
THEOREM DerivedTypeCorrect == Spec => []TypeOK
<1>1. VectorInv /\ GraphInv /\ ArtifactInv /\ EntityRows => TypeOK
  <2> SUFFICES ASSUME VectorInv, GraphInv, ArtifactInv, EntityRows PROVE TypeOK
    OBVIOUS
  <2>1. /\ \A k \in Chunks : chunk[k] \in {"absent", "active", "tombstoned"}
        /\ \A s \in Spaces : spaces[s].state \in
             {"none", "building", "verifying", "ready", "failed", "deprecated", "deleted"}
        /\ current \in {0} \cup Spaces /\ circuit \in {"closed", "open", "half_open"}
    BY DEF VectorInv, KnowledgeInv, ChunkStates, VectorTyped, TypedRows, SpaceStates
  <2>2. GraphRows /\ IsGraph(graph)
    BY DEF GraphInv, GraphRows
  <2>3. /\ \A c \in Claims : graph.claims[c] \in
             {"none", "proposed", "disputed", "stale", "rejected", "user_confirmed"}
        /\ \A r \in Relations :
             graph.relations[r] \in {"none", "proposed", "accepted", "stale", "rejected"}
        /\ graph.supports.active \cap graph.supports.stale = {}
    BY <2>2 DEF IsGraph, Statuses, RelStates
  <2>4. /\ served \in 0 .. Len(gens) /\ (served # 0 => gens[served].state = "active")
        /\ \A n \in DOMAIN gens : gens[n].state \in {"building", "ready", "active", "superseded", "failed"}
    BY <2>2, GensTyped DEF GraphRows, GenStates
  <2>5. \A e \in Entities : entity[e].status \in {"none", "proposed", "active", "rejected", "redirected"}
    BY DEF EntityRows
  <2>6. TopicRows /\ ArtifactRows
    BY DEF ArtifactInv, RowsInv
  <2>7. /\ topic.status \in {"none", "active", "stale", "needs_review"}
        /\ topic.latest \in 0 .. Len(reports)
        /\ artifact.status \in {"none", "stale", "ready"}
        /\ \A b \in DOMAIN builds : builds[b].snap \in 1 .. Len(reports)
    BY <2>6 DEF TopicRows, ArtifactRows
  <2> QED
    BY <2>1, <2>3, <2>4, <2>5, <2>7 DEF TypeOK
<1>2. Spec => []VectorInv
  BY VectorStarts, VectorSteps, PTL DEF Spec
<1> QED
  BY <1>1, <1>2, GraphHolds, ArtifactHolds, EntityHolds, PTL
=============================================================================
