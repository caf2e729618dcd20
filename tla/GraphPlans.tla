------------------------------ MODULE GraphPlans ------------------------------
(***************************************************************************)
(* What a user does to the graph: plans for merging and creating entities, *)
(* creating relations and activating a Generation, and the moderation of   *)
(* claims, relations and entities.  A plan can be applied as often as its  *)
(* preconditions hold before it expires: nothing records that it was.      *)
(***************************************************************************)
EXTENDS GraphGeneration

CONSTANTS Entities,     \* entity ids, 1..n
          Unborn,       \* the entity that only a plan creates
          Users         \* relations that users assert

ASSUME EntitiesAssumption == Entities \subseteq Nat \ {0} /\ Users \cap (Claims \cup Relations) = {}

VARIABLES
    entity,     \* status and version of each entity
    redirect,   \* graph_entity_redirects: target of a merged entity, 0: none
    plans,      \* graph plans that have not expired
    moderated,  \* claims and relations that were confirmed or rejected
    said        \* moderated facts of the served Generation, user relations

planVars == <<entity, redirect, plans, moderated, said>>

PlansInit ==
    /\ entity = [e \in Entities |->
                   [status |-> IF e = Unborn THEN "none" ELSE "proposed", version |-> 1]]
    /\ redirect = [e \in Entities |-> 0]
    /\ plans = {} /\ moderated = {} /\ said = {}

\* entityRow: it exists and is neither deleted nor redirected.
Mergeable(e) == entity[e].status \notin {"none", "redirected"}

CreatePlan ==
    /\ \E plan \in
         [action : {"merge"}, source : Entities, target : Entities] \cup
         [action : {"entity"}, entity : {e \in Entities : entity[e].status = "none"}] \cup
         [action : {"relation"}, user : Users] \cup
         [action : {"activate"}, gen : {n \in DOMAIN gens : gens[n].state \in Activatable}] :
       LET before == CASE plan.action = "merge" ->
                            [source |-> entity[plan.source].version,
                             target |-> entity[plan.target].version]
                       [] plan.action = "activate" -> [state |-> gens[plan.gen].state]
                       [] plan.action = "relation" -> [served |-> served]
                       [] plan.action = "entity" -> [entity |-> plan.entity]
       IN /\ Atomic(IF plan.action = "merge" THEN "merge" ELSE "plan")
          /\ plan.action = "merge" =>
               plan.source # plan.target /\ Mergeable(plan.source) /\ Mergeable(plan.target)
          /\ plan.action = "relation" => served # 0
          /\ plans' = plans \cup {[do |-> plan, before |-> before]}
    /\ UNCHANGED <<graphVars, entity, redirect, moderated, said>>

\* Mutant: the chain of redirects is followed for one step.
CycleInOneStep(source, target) == source = target \/ redirect[target] = source

\* redirectWouldCycle follows the redirects from the target.
RedirectWouldCycle(source, target) ==
    \A S \in SUBSET Entities :
        target \in S /\ (\A e \in S : redirect[e] # 0 => redirect[e] \in S) => source \in S

ApplyMerge(plan, before) ==
    LET s == plan.source  t == plan.target
    IN /\ served # 0
       /\ Mergeable(s) /\ Mergeable(t)
       /\ before = [source |-> entity[s].version, target |-> entity[t].version]
       /\ ~ RedirectWouldCycle(s, t)
       /\ redirect[s] = 0              \* its primary key
       /\ redirect' = [redirect EXCEPT ![s] = t]
       /\ entity' = [entity EXCEPT ![s] = [status |-> "redirected", version |-> @.version + 1],
                                   ![t].version = @ + 1]
       /\ UNCHANGED <<gens, served, said>>

ApplyEntity(plan) ==
    /\ served # 0
    /\ entity[plan.entity].status = "none"
    /\ entity' = [entity EXCEPT ![plan.entity].status = "active"]
    /\ UNCHANGED <<gens, served, redirect, said>>

ApplyRelation(plan, before) ==
    /\ served # 0 /\ before = [served |-> served]
    /\ gens' = [gens EXCEPT ![served].users = @ \cup {plan.user}]
    /\ said' = said \cup {plan.user}
    /\ UNCHANGED <<served, entity, redirect>>

\* The state is as it was planned and activateGeneration reads what is active
\* inside the transaction here.
ApplyActivation(plan, before) ==
    /\ before = [state |-> gens[plan.gen].state]
    /\ gens' = Switched(served, plan.gen)
    /\ served' = plan.gen
    /\ said' = said \cap UNION {gens[plan.gen].claims, gens[plan.gen].relations, gens[plan.gen].users}
    /\ UNCHANGED <<entity, redirect>>

\* applyGraphPlan: the transaction; answers and topics are invalidated and the
\* operation is recorded after it.
ApplyPlan(p) ==
    /\ \E plan \in plans :
         CASE plan.do.action = "merge"    -> ApplyMerge(plan.do, plan.before)
           [] plan.do.action = "entity"   -> ApplyEntity(plan.do)
           [] plan.do.action = "relation" -> ApplyRelation(plan.do, plan.before)
           [] plan.do.action = "activate" -> ApplyActivation(plan.do, plan.before)
    /\ Start(p, "apply", [pc |-> "topics", gen |-> 0, then |-> "idle"])
    /\ UNCHANGED <<graph, plans, moderated>>

\* What the model said that the served Generation has.
ServedFacts == IF served = 0 THEN {} ELSE gens[served].claims \cup (gens[served].relations \ Links)
Moderated(x) ==
    /\ moderated' = moderated \cup {x}
    /\ said' = IF x \in ServedFacts THEN said \cup {x} ELSE said \ {x}
    /\ UNCHANGED <<gens, served, entity, redirect, plans>>

\* moderateGraphObject for a claim; topics and artifacts are in Derived.
ModerateClaim(c) ==
    /\ graph.claims[c] # "none"
    /\ Atomic("moderate")
    /\ \E status \in {"rejected", "user_confirmed"} :
           graph' = Recalculate([graph EXCEPT !.claims[c] = status], {c})
    /\ Moderated(c)

\* And for a relation; that of a relation a user asserted has no effect here.
ModerateRelation(r) ==
    /\ graph.relations[r] # "none"
    /\ Atomic("relation")
    /\ \E status \in {"rejected", "accepted"} : graph' = [graph EXCEPT !.relations[r] = status]
    /\ Moderated(r)

\* An entity in any state, a redirected one too.
ModerateEntity(e) ==
    /\ entity[e].status # "none"
    /\ Atomic("entity")
    /\ \E status \in {"active", "rejected"} :
           entity' = [entity EXCEPT ![e] = [status |-> status, version |-> @.version + 1]]
    /\ UNCHANGED <<graph, gens, served, redirect, plans, moderated, said>>

(* properties of the graph *)

\* Graph testing.md asks that what a user confirmed or rejected outlives the
\* next build: one after another, builds and refreshes keep it in the served
\* Generation as long as the claim or relation has a status that a build keeps.
UserFactsSurvive ==
    lone => \A x \in said :
              /\ x \in Users => x \in gens[served].users
              /\ x \in Claims /\ graph.claims[x] \in {"rejected", "user_confirmed"} =>
                     x \in gens[served].claims
              /\ x \in Relations /\ graph.relations[x] = "rejected" => x \in gens[served].relations

\* One after another, commands only build a Generation that cannot be verified
\* because a moderated claim or relation lost its evidence, text that was gone
\* came back, or a claim came with two predicates: edits, failed and killed
\* builds and model errors alone never block the graph.
BuildsVerify ==
    lone => \A n \in DOMAIN gens :
              gens[n].unverified =>
                  \/ (gens[n].claims \cup (gens[n].relations \ Links)) \cap moderated # {}
                  \/ gens[n].relations \cap Uneven # {}
                  \/ \E x \in gens[n].claims \cup gens[n].relations, k \in back :
                         <<x, k>> \in graph.supports.stale

\* Whatever is merged, confirmed and rejected from plans made earlier, every
\* merged entity leads to one that is not merged further.
RedirectsEnd ==
    \A S \in SUBSET Entities : S # {} => \E e \in S : redirect[e] \notin S
=============================================================================
