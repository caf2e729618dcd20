------------------------------- MODULE Derived -------------------------------
(***************************************************************************)
(* Vector spaces, the graph, a Topic and its Artifact over knowledge that  *)
(* changes: the commands of all of them, interleaved step by step, with    *)
(* failures and kills.                                                     *)
(***************************************************************************)
EXTENDS TopicSynthesis

\* What has a bound.
Counted ==
    {"change", "build", "fault", "plan", "merge", "apply", "moderate", "relation",
     "entity",
     "vcreate", "vbuild", "verify", "refresh", "vplan", "vapply", "test", "drift",
     "tcreate", "tupdate", "topic", "render"}
ASSUME CountedAssumption == Counted \subseteq Kinds

vars == <<commandVars, vectorVars, graphVars, planVars, topicVars, artifactVars>>

Init ==
    /\ CommandsInit /\ VectorInit /\ GraphInit /\ PlansInit /\ TopicInit /\ ArtifactInit

Next ==
    \/ /\ CreateSpace \/ CreateVectorPlan \/ Drift \/ \E p \in Procs : VectorStep(p)
       /\ UNCHANGED <<graphVars, planVars, topicVars, artifactVars>>
    \/ /\ \E p \in Procs : GraphStep(p)
       /\ UNCHANGED <<vectorVars, planVars, topicVars, artifactVars>>
    \/ /\ CreatePlan \/ \E p \in Procs : ApplyPlan(p)
       /\ UNCHANGED <<vectorVars, topicVars, artifactVars>>
    \/ Moderate /\ UNCHANGED vectorVars
    \/ /\ CreateTopic \/ UpdateTopic \/ \E p \in Procs : InvalidateTopics(p) \/ TopicStep(p)
       /\ UNCHANGED <<vectorVars, graphVars, planVars, artifactVars>>
    \/ /\ \E p \in Procs : ArtifactStep(p)
       /\ UNCHANGED <<vectorVars, graphVars, planVars, topicVars>>
    \/ /\ \E p \in Procs : Publish(p) \/ Kill(p)
       /\ UNCHANGED <<vectorVars, graphVars, planVars, topicVars, artifactVars>>

Spec == Init /\ [][Next]_vars

(* properties *)

TypeOK ==
    /\ \A k \in Chunks : chunk[k] \in {"absent", "active", "tombstoned"}
    /\ \A s \in Spaces : spaces[s].state \in
         {"none", "building", "verifying", "ready", "failed", "deprecated", "deleted"}
    /\ current \in {0} \cup Spaces /\ circuit \in {"closed", "open", "half_open"}
    /\ \A c \in Claims : graph.claims[c] \in
         {"none", "proposed", "disputed", "stale", "rejected", "user_confirmed"}
    /\ \A r \in Relations : graph.relations[r] \in {"none", "proposed", "accepted", "stale", "rejected"}
    /\ graph.supports.active \cap graph.supports.stale = {}
    /\ served \in 0 .. Len(gens)
    /\ \A n \in DOMAIN gens : gens[n].state \in {"building", "ready", "active", "superseded", "failed"}
    /\ served # 0 => gens[served].state = "active"
    /\ \A e \in Entities : entity[e].status \in {"none", "proposed", "active", "rejected", "redirected"}
    /\ topic.status \in {"none", "active", "stale", "needs_review"}
    /\ topic.latest \in 0 .. Len(reports)
    /\ artifact.status \in {"none", "stale", "ready"}
    /\ \A b \in DOMAIN builds : builds[b].snap \in 1 .. Len(reports)

AtRest == Busy = {}
Report == reports[topic.latest]

\* A Topic that passes for active does not show a claim or a relation that is
\* rejected: not after commands that came one after another, and never when the
\* rejection gave the Topic a new version, whatever builds were running then.
RejectedClaimsLeave ==
    topic.status = "active" /\ topic.latest # 0 =>
        \A x \in Report.claims \cup Report.relations :
            (IF x \in Claims THEN graph.claims[x] ELSE graph.relations[x]) = "rejected" =>
                ~ lone /\ x \notin withdrawn

\* Without failures and overlaps, an active Topic was made from the knowledge
\* and the Generation that are served, and its claims have evidence, unless a
\* later Generation that is not served has marked it stale.
ActiveTopicsAreCurrent ==
    lone /\ AtRest /\ used["fault"] = 0 /\ topic.status = "active" /\ topic.latest # 0 =>
        /\ Report.at = used["change"] /\ Report.gen = served
        /\ served = Len(gens) => \A c \in Report.claims : HasEvidence(graph, c)

\* Whatever overlaps and is killed, a build that is ready has its archive, and
\* the Artifact and latest.json name ready builds; one after another and without
\* failures, the same one, of the latest report.
ArtifactsAgree ==
    /\ \A b \in DOMAIN builds : builds[b].state = "ready" => builds[b].files = "published"
    /\ artifact.latest # 0 => builds[artifact.latest].state = "ready"
    /\ pointer # 0 => builds[pointer].state = "ready"
    /\ lone /\ AtRest /\ used["fault"] = 0 =>
         /\ pointer = artifact.latest
         /\ artifact.status = "ready" => builds[artifact.latest].snap = topic.latest

\* Claims of a served Generation that contradict each other are in an open
\* conflict, whichever builds they come from, and neither passes for proposed
\* or for sure; a report that has both shows them as disputed.
ContradictionsAreOpen ==
    /\ served # 0 =>
         \A c, d \in gens[served].claims :
             Contradicts(c, d) => /\ Disputed(graph, c) /\ graph.claims[c] # "proposed"
                                  /\ graph.level[c] = "disputed"
    /\ \A r \in DOMAIN reports : reports[r].gen # 0 =>
         \A c, d \in reports[r].claims \cap gens[reports[r].gen].claims :
             Contradicts(c, d) => c \in reports[r].disputed
=============================================================================
