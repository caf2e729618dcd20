---------------------------- MODULE TopicSynthesis ----------------------------
(***************************************************************************)
(* A Topic: its snapshots are synthesized from the claims that a search    *)
(* and the graph lead to.  synthesizeTopicSnapshot reads in several steps  *)
(* and saves under the version of the Topic that it read first.  What      *)
(* invalidates a Topic does so by its status; scope changes and moderation *)
(* also by its version.                                                    *)
(***************************************************************************)
EXTENDS GraphPlans, ArtifactBuild

CONSTANT About     \* [claim -> the entities that are its subject and object]

VARIABLES
    topic,     \* status, version, latest snapshot, and stale_reason
    reports,   \* topic_snapshots: what each was made from and what it shows
    withdrawn  \* what the Topic got a new version for when it was rejected

topicVars == <<topic, reports, withdrawn>>

NoReason == <<>>
TopicInit ==
    /\ topic = [status |-> "none", version |-> 1, latest |-> 0, why |-> NoReason]
    /\ reports = <<>> /\ withdrawn = {}

CreateTopic ==
    /\ topic.status = "none"
    /\ topic' = [topic EXCEPT !.status = "active"]
    /\ Atomic("tcreate") /\ UNCHANGED <<reports, withdrawn>>

\* The scope, the exclusions or the aliases change.
UpdateTopic ==
    /\ topic.status # "none"
    /\ topic' = [topic EXCEPT !.version = @ + 1,
                   !.status = IF topic.latest = 0 THEN "active" ELSE "stale",
                   !.why = IF topic.latest = 0 THEN NoReason ELSE <<"scope">>]
    /\ Atomic("tupdate") /\ UNCHANGED <<reports, withdrawn>>

\* Mutant: only a Topic in need of review is marked.
KeepActive(t) == IF t.status = "needs_review" THEN [t EXCEPT !.status = "stale"] ELSE t
\* invalidateTopics: a Topic that is active and has a snapshot; no new version.
MarkTopic(t) ==
    IF t.status = "active" /\ t.latest # 0 THEN [t EXCEPT !.status = "stale", !.why = <<"changed">>] ELSE t

\* After an ingestion, a build of the graph or a graph plan.
InvalidateTopics(p) ==
    /\ At(p, "topics")
    /\ topic' = MarkTopic(topic)
    /\ Continue(p)
    /\ Step /\ UNCHANGED <<reports, withdrawn>>

(* synthesizeTopicSnapshot *)

\* topic build, and topic refresh: that of an active Topic only renders it, if
\* it has no Artifact yet.
StartTopicBuild(p) ==
    /\ topic.status # "none"
    /\ \E refresh \in BOOLEAN :
         IF refresh /\ topic.status = "active" /\ topic.latest # 0
         THEN artifact.status = "none" /\ Start(p, "topic", [pc |-> "a:start", snap |-> topic.latest])
         ELSE Start(p, "topic", [pc |-> "t:search", version |-> topic.version, found |-> {},
                                 claims |-> {}, disputed |-> {}, relations |-> {},
                                 gen |-> 0, at |-> 0])
    /\ UNCHANGED topicVars

\* artifact render.
StartRender(p) ==
    /\ topic.latest # 0
    /\ Start(p, "render", [pc |-> "a:start", snap |-> topic.latest])
    /\ UNCHANGED topicVars

\* searchKnowledge: every current chunk is within the scope of the Topic.
SearchTopic(p) ==
    /\ At(p, "t:search")
    /\ Set(p, [proc[p] EXCEPT !.pc = "t:graph", !.found = ActiveChunks, !.at = used["change"]])
    /\ Step /\ UNCHANGED topicVars

\* graphEvidenceForSeeds: claims with evidence in what was found, of whatever
\* Generation, and claims of the served one about an entity mentioned there.
EvidenceForSeeds(found) ==
    LET supported == {c \in Claims : HasEvidence(graph, c)}
        seeds == {r \in gens[served].relations \cap DOMAIN Mentioned :
                     /\ graph.relations[r] \in {"accepted", "proposed"}
                     /\ \E k \in found : r \in RelationsIn[k]}
    IN IF served = 0 \/ found = {} THEN {}
       ELSE {c \in Claims : \E k \in found : <<c, k>> \in graph.supports.active} \cup
            {c \in gens[served].claims \cap supported :
                 /\ \E r \in seeds : Mentioned[r] \in About[c]
                 /\ graph.claims[c] \notin {"rejected", "stale"}}

\* With the pointers that go into the records of the retrieval.
FollowGraph(p) ==
    /\ At(p, "t:graph")
    /\ Set(p, [proc[p] EXCEPT !.pc = "t:claims", !.found = {}, !.gen = served,
                              !.claims = EvidenceForSeeds(proc[p].found)])
    /\ Step /\ UNCHANGED topicVars

\* Mutant: a claim that was rejected is only left out if it has no evidence.
EveryStatus(C) == {c \in C : HasEvidence(graph, c)}
Presentable(C) == {c \in C : HasEvidence(graph, c) /\ graph.claims[c] \notin {"rejected", "stale"}}

\* localTopicGraph.
RelationsOf(C) ==
    {r \in DOMAIN ClaimOf : ClaimOf[r] \in C /\ graph.relations[r] \notin {"none", "rejected", "stale"}}

\* loadTopicClaims and classifyClaim.
LoadClaims(p) ==
    /\ At(p, "t:claims")
    /\ LET claims == Presentable(proc[p].claims)
       IN Set(p, [proc[p] EXCEPT !.pc = "t:save", !.claims = claims,
            !.relations = RelationsOf(claims),
            !.disputed = {c \in claims : graph.claims[c] = "disputed" \/ Disputed(graph, c)}])
    /\ Step /\ UNCHANGED topicVars

\* insertClaims, insertLocalGraph and insertReport.
NewReport(p) == [gen |-> proc[p].gen, at |-> proc[p].at, claims |-> proc[p].claims,
                 disputed |-> proc[p].disputed, relations |-> proc[p].relations]
\* saveTopicSnapshot: the Topic has the version that was read first.
SaveReport(p) ==
    /\ At(p, "t:save")
    /\ IF topic.version = proc[p].version
       THEN /\ reports' = Append(reports, NewReport(p))
            /\ topic' = [topic EXCEPT !.status = "active", !.why = NoReason,
                                      !.latest = Len(reports) + 1]
            /\ Set(p, [pc |-> "a:start", snap |-> Len(reports) + 1])
       ELSE Set(p, Idle) /\ UNCHANGED <<topic, reports>>
    /\ Step /\ UNCHANGED withdrawn

(* moderateGraphObject *)

\* topicAndArtifactChanges: a Topic that has the status and the reason already
\* keeps its version.
Reviewed(shown, status, why) ==
    IF topic.latest = 0 \/ ~ shown
    THEN UNCHANGED <<topic, artifact>>
    ELSE /\ topic' = IF topic.status = status /\ topic.why = why THEN topic
                     ELSE [topic EXCEPT !.status = status, !.why = why, !.version = @ + 1]
         /\ artifact' = IF artifact.status = "none" THEN artifact
                        ELSE [artifact EXCEPT !.status = "stale"]
Withdrawn(x, status) ==
    withdrawn' = IF status = "rejected" /\ topic'.version # topic.version
                 THEN withdrawn \cup {x} ELSE withdrawn \ {x}

Moderate ==
    /\ \/ \E c \in Claims :
            /\ ModerateClaim(c)
            /\ Reviewed(c \in reports[topic.latest].claims, "needs_review", <<"claim", c>>)
            /\ Withdrawn(c, graph'.claims[c])
       \/ \E r \in Relations :
            /\ ModerateRelation(r)
            /\ Reviewed(r \in reports[topic.latest].relations, "stale", <<"relation", r>>)
            /\ Withdrawn(r, graph'.relations[r])
       \/ \E e \in Entities :
            /\ ModerateEntity(e)
            /\ Reviewed(\E c \in reports[topic.latest].claims : e \in About[c],
                        "stale", <<"entity", e>>)
            /\ UNCHANGED withdrawn
    /\ UNCHANGED <<reports, builds, pointer>>

TopicStep(p) ==
    \/ StartTopicBuild(p) \/ StartRender(p) \/ SearchTopic(p) \/ FollowGraph(p)
    \/ LoadClaims(p) \/ SaveReport(p)
=============================================================================
