----------------------------- MODULE VectorSpace -----------------------------
(***************************************************************************)
(* Vector spaces: created for an embedding model, built chunk by chunk,    *)
(* verified, activated, refreshed after every ingestion and deleted.  A    *)
(* sentinel, the embedding of fixed texts, is to detect that the provider  *)
(* serves other weights than those the space was built with.               *)
(*                                                                         *)
(* A batch has one chunk, as with --batch-size 1.  The coverage counters,  *)
(* which only reports use, are left out.                                   *)
(***************************************************************************)
EXTENDS Commands, Sequences, FiniteSetsExt

CONSTANTS
    Spaces,      \* vector spaces, each of another definition: 1..n
    Models       \* what may be served under the name of the model: 1, at first

ASSUME SpacesAssumption == Spaces \subseteq Nat \ {0}
ASSUME ModelsAssumption == Models \subseteq Nat \ {0} /\ 1 \in Models

VARIABLES
    spaces,    \* vector_spaces: state, sentinel fingerprint, build runs by age
    vec,       \* knowledge_embeddings of a space and a chunk: state, weights
    current,   \* knowledge_active_vector_space, 0: none
    weights,   \* what the provider serves under the name of the model
    followed,  \* history: <<a, b>>, the provider served b after it had served a
    circuit,   \* model_providers.circuit_state
    vplans     \* plans whose space still has the version they were made for

vectorVars == <<spaces, vec, current, weights, followed, circuit, vplans>>

NoVector == [state |-> "none", weights |-> 0]
VectorInit ==
    /\ spaces = [s \in Spaces |-> [state |-> "none", base |-> 0, runs |-> <<>>]]
    /\ vec = [s \in Spaces |-> [k \in Chunks |-> NoVector]]
    /\ current = 0 /\ weights = 1 /\ followed = {} /\ circuit = "closed" /\ vplans = {}

\* The model behind the endpoint changes, perhaps to one that was served before.
Drift ==
    /\ Spend("drift")
    /\ \E w \in Models \ {weights} :
         /\ weights' = w
         /\ followed' = followed \cup {<<a, w>> : a \in {weights} \cup {b \in Models : <<b, weights>> \in followed}}
    /\ UNCHANGED <<limit, proc, chunkVars, lone, spaces, vec, current, circuit, vplans>>

\* version = version + 1: plans for the version before are refused.
Bump(S) == vplans' = {x \in vplans : x.space \notin S}
Missing(s) == {k \in ActiveChunks : vec[s][k].state # "active"}

\* Mutant: chunks without a vector are no obstacle.
CountsAsCovered(s) == ActiveChunks # {}
\* vectorCoverage has found every chunk, and there are chunks.
Covered(s) == ActiveChunks # {} /\ Missing(s) = {}

CreateSpace ==
    /\ \E s \in Spaces : spaces[s].state = "none" /\ spaces' = [spaces EXCEPT ![s].state = "building"]
    /\ Atomic("vcreate")
    /\ UNCHANGED <<vec, current, weights, followed, circuit, vplans>>

(* buildVectorSpace *)

\* The watermark: the number of chunks and the last one.
Watermark == <<Cardinality(ActiveChunks), Max({0} \cup ActiveChunks)>>
SetRun(runs, mark, state) ==
    IF \E i \in DOMAIN runs : runs[i].mark = mark
    THEN [i \in DOMAIN runs |-> IF runs[i].mark = mark THEN [runs[i] EXCEPT !.state = state] ELSE runs[i]]
    ELSE Append(runs, [mark |-> mark, state |-> state])

\* A ready run of the same watermark is reused, whatever the space has become.
StartVectorBuild(p) ==
    \E s \in Spaces :
        LET reused == [mark |-> Watermark, state |-> "ready"] \in {spaces[s].runs[i] : i \in DOMAIN spaces[s].runs}
        IN /\ spaces[s].state \in {"building", "failed", "verifying"}
           /\ ~ reused
           /\ Start(p, "vbuild", [pc |-> "v:sentinel", space |-> s, todo |-> ActiveChunks,
                                  mark |-> Watermark, chunk |-> 0, weights |-> 0, loop |-> "v:next"])
           /\ spaces' = [spaces EXCEPT ![s].state = "building",
                                       ![s].runs = SetRun(@, Watermark, "building")]
           /\ Bump({s})
           /\ UNCHANGED <<vec, current, weights, followed, circuit>>

\* Where a command goes when a call of the model throws.
Failure == [pc \in {"v:sentinel", "v:next", "v:check", "v:more", "v:test"} |->
              CASE pc \in {"v:sentinel", "v:next"} -> "v:failed"
                [] pc = "v:check" -> "v:abort"
                [] pc = "v:more" -> "v:degraded"
                [] pc = "v:test" -> "v:open"]
Calls(p) == /\ proc[p].pc \in DOMAIN Failure
            /\ proc[p].pc \in {"v:next", "v:more"} => proc[p].todo # {}

\* embedModelTexts refuses while the circuit is open, or fails; credentials that
\* are missing and a model that is gone open the circuit.
CallFails(p) ==
    /\ Calls(p)
    /\ \/ circuit = "open" /\ Step /\ UNCHANGED circuit
       \/ /\ circuit # "open" /\ Spend("fault") /\ UNCHANGED <<limit, chunkVars, lone>>
          /\ circuit' \in {circuit, "open"}
    /\ Goto(p, Failure[proc[p].pc])
    /\ UNCHANGED <<spaces, vec, current, weights, followed, vplans>>

\* Mutant: the baseline follows the model.
Rebase(base) == weights
Baseline(base) == IF base = 0 THEN weights ELSE base

\* checkVectorSpaceSentinel, before a build and before a verification.
CheckSentinel(p) ==
    /\ proc[p].pc \in {"v:sentinel", "v:check"} /\ circuit # "open"
    /\ LET s == proc[p].space  base == Baseline(spaces[s].base)
       IN /\ spaces' = [spaces EXCEPT ![s].base = base]
          /\ circuit' = IF base = weights THEN circuit ELSE "open"
          /\ Goto(p, IF base # weights THEN Failure[proc[p].pc]
                     ELSE IF At(p, "v:check") THEN "v:verdict" ELSE "v:next")
    /\ Step /\ UNCHANGED <<vec, current, weights, followed, vplans>>

\* The next chunk of a build or of a refresh: a build skips what it has.
EmbedNext(p) ==
    /\ proc[p].pc \in {"v:next", "v:more"} /\ proc[p].todo # {}
    /\ LET k == Min(proc[p].todo)
           skip == At(p, "v:next") /\ vec[proc[p].space][k].state = "active"
       IN /\ skip \/ circuit # "open"
          /\ Set(p, IF skip THEN [proc[p] EXCEPT !.todo = @ \ {k}]
                    ELSE [proc[p] EXCEPT !.todo = @ \ {k}, !.chunk = k, !.weights = weights,
                                         !.pc = "v:save"])
    /\ Step /\ UNCHANGED vectorVars

\* saveEmbedding: a row that exists is kept in the state it has.
SaveEmbedding(p) ==
    /\ At(p, "v:save")
    /\ vec' = [vec EXCEPT ![proc[p].space][proc[p].chunk] =
                 IF @ = NoVector THEN [state |-> "active", weights |-> proc[p].weights] ELSE @]
    /\ Set(p, [proc[p] EXCEPT !.pc = proc[p].loop, !.chunk = 0, !.weights = 0])
    /\ Step /\ UNCHANGED <<spaces, current, weights, followed, circuit, vplans>>

FinishVectorBuild(p) ==
    /\ \/ At(p, "v:next") /\ proc[p].todo = {}
       \/ At(p, "v:failed")
    /\ LET state == IF At(p, "v:failed") THEN "failed" ELSE "verifying"
       IN spaces' = [spaces EXCEPT ![proc[p].space].state = state,
                                   ![proc[p].space].runs = SetRun(@, proc[p].mark, state)]
    /\ Bump({proc[p].space}) /\ Set(p, Idle)
    /\ Step /\ UNCHANGED <<vec, current, weights, followed, circuit>>

(* verifyVectorSpace *)

StartVerify(p) ==
    /\ \E s \in Spaces : /\ spaces[s].state \in {"verifying", "ready"}
                         /\ Start(p, "verify", [pc |-> "v:check", space |-> s])
    /\ UNCHANGED vectorVars

\* The verdict goes to the space, whatever its state, and to its newest run.
Verdict(p) ==
    /\ At(p, "v:verdict")
    /\ LET s == proc[p].space  runs == spaces[s].runs
           state == IF Covered(s) THEN "ready" ELSE "failed"
       IN /\ spaces' = [spaces EXCEPT ![s].state = state,
                          ![s].runs = IF runs = <<>> THEN runs
                                      ELSE [runs EXCEPT ![Len(runs)].state = state]]
          /\ Bump({s})
    /\ Set(p, Idle)
    /\ Step /\ UNCHANGED <<vec, current, weights, followed, circuit>>

VerifyAborts(p) ==
    /\ At(p, "v:abort") /\ Set(p, Idle)
    /\ Step /\ UNCHANGED vectorVars

(* refreshActiveVectorSpace *)

\* knowledge rebuild --layer vectors, which is not to go on degraded.
StartVectorRefresh(p) ==
    /\ Start(p, "refresh", [pc |-> "v:refresh", then |-> "idle"])
    /\ UNCHANGED vectorVars

Refreshed(p) == IF proc[p].then = "idle" THEN Set(p, Idle) ELSE Goto(p, "g:refresh")

\* Vectors of chunks that are gone become stale; an active space that is not
\* ready throws, which fails an ingestion too.  After an ingestion only chunks of
\* its Source are embedded: here all are of one.  No sentinel is checked.
RefreshVectors(p) ==
    /\ At(p, "v:refresh")
    /\ LET s == current
       IN IF s = 0 THEN Refreshed(p) /\ UNCHANGED vec
          ELSE IF spaces[s].state # "ready" THEN Set(p, Idle) /\ UNCHANGED vec
          ELSE /\ vec' = [vec EXCEPT ![s] = [k \in Chunks |->
                     IF @[k].state = "active" /\ k \notin ActiveChunks
                     THEN [@[k] EXCEPT !.state = "stale"] ELSE @[k]]]
               /\ Set(p, [pc |-> "v:more", space |-> s, todo |-> Missing(s), chunk |-> 0,
                          weights |-> 0, loop |-> "v:more", then |-> proc[p].then])
    /\ Step /\ UNCHANGED <<spaces, current, weights, followed, circuit, vplans>>

\* Done, or degraded: only an ingestion goes on then.
FinishRefresh(p) ==
    /\ \/ At(p, "v:more") /\ proc[p].todo = {}
       \/ At(p, "v:degraded")
    /\ Bump({proc[p].space}) /\ Refreshed(p)
    /\ Step /\ UNCHANGED <<spaces, vec, current, weights, followed, circuit>>

(* vector space plans *)

CreateVectorPlan ==
    /\ Atomic("vplan")
    /\ \E s \in Spaces, do \in {"activate", "delete"} :
         /\ spaces[s].state # "none"
         /\ vplans' = vplans \cup {[do |-> do, space |-> s]}
    /\ UNCHANGED <<spaces, vec, current, weights, followed, circuit>>

\* applyVectorSpacePlan: what it checks before its transaction.
ApplyVectorPlan(p) ==
    /\ \E plan \in vplans :
         LET s == plan.space
         IN /\ IF plan.do = "activate"
               THEN spaces[s].state \in {"ready", "deprecated"} /\ Covered(s)
               ELSE current # s
            /\ Start(p, "vapply", [pc |-> IF plan.do = "activate" THEN "v:activate" ELSE "v:delete",
                                    space |-> s])
    /\ UNCHANGED vectorVars

ActivateSpace(p) ==
    /\ At(p, "v:activate")
    /\ LET s == proc[p].space
       IN /\ spaces' = [x \in Spaces |->
                IF x = s THEN [spaces[x] EXCEPT !.state = "ready"]
                ELSE IF x = current THEN [spaces[x] EXCEPT !.state = "deprecated"] ELSE spaces[x]]
          /\ current' = s /\ Bump({s, current})
    /\ Set(p, Idle)
    /\ Step /\ UNCHANGED <<vec, weights, followed, circuit>>

DeleteSpace(p) ==
    /\ At(p, "v:delete")
    /\ LET s == proc[p].space
       IN /\ spaces' = [spaces EXCEPT ![s].state = "deleted"]
          /\ vec' = [vec EXCEPT ![s] = [k \in Chunks |-> NoVector]]
          /\ Bump({s})
    /\ Set(p, Idle)
    /\ Step /\ UNCHANGED <<current, weights, followed, circuit>>

(* testEmbeddingModel *)

StartTest(p) ==
    /\ Start(p, "test", [pc |-> "v:test"])
    /\ circuit' = "half_open"
    /\ UNCHANGED <<spaces, vec, current, weights, followed, vplans>>

EndTest(p) ==
    /\ \/ At(p, "v:test") /\ circuit # "open" /\ circuit' = "closed"
       \/ At(p, "v:open") /\ circuit' = "open"
    /\ Set(p, Idle)
    /\ Step /\ UNCHANGED <<spaces, vec, current, weights, followed, vplans>>

VectorStep(p) ==
    \/ StartVectorBuild(p) \/ CallFails(p) \/ CheckSentinel(p) \/ EmbedNext(p)
    \/ SaveEmbedding(p) \/ FinishVectorBuild(p) \/ StartVerify(p) \/ Verdict(p)
    \/ VerifyAborts(p) \/ StartVectorRefresh(p) \/ RefreshVectors(p) \/ FinishRefresh(p)
    \/ ApplyVectorPlan(p) \/ ActivateSpace(p) \/ DeleteSpace(p) \/ StartTest(p) \/ EndTest(p)

(* properties *)

\* An active vector space stays usable: commands that come one after another
\* never retire it, and without failures and drift they leave it ready with a
\* vector for every chunk, as long as there are chunks and none comes back
\* after it was gone.
ActiveSpaceCovers ==
    lone /\ Busy = {} /\ current # 0 =>
        /\ spaces[current].state \notin {"none", "deprecated", "deleted"}
        /\ used["fault"] = 0 /\ used["drift"] = 0 /\ back = {} /\ ~ emptied =>
             spaces[current].state = "ready" /\ Missing(current) = {}

\* The provider served b while it served a or later.
Before(a, b) == a = b \/ <<a, b>> \in followed

\* Whatever was killed or failed before, a verification leaves a space ready only
\* with vectors of the weights that its sentinel stands for, or of weights that
\* the provider served in between and has left again: the sentinel sees every
\* drift but one that has come back.
VerifiedOnOneModel ==
    [][\A s \in Spaces :
          /\ lone' /\ spaces'[s].state = "ready"
          /\ spaces[s].state = "verifying" \/ \E p \in Procs : At(p, "v:verdict") /\ proc[p].space = s
          => \A k \in ActiveChunks : vec[s][k].state = "active" =>
                /\ Before(spaces[s].base, vec[s][k].weights)
                /\ Before(vec[s][k].weights, spaces[s].base)]_<<proc, vectorVars>>
=============================================================================
