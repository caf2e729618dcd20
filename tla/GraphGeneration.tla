--------------------------- MODULE GraphGeneration ---------------------------
(***************************************************************************)
(* buildGraph: a Generation is created from the active one, the documents  *)
(* and links of the current knowledge are projected into it, a model       *)
(* extracts claims from chunks, claims are aligned, and the Generation is  *)
(* verified and activated.  `graph build` and the refresh that follows an  *)
(* ingestion run it.                                                       *)
(***************************************************************************)
EXTENDS GraphEvidence, VectorSpace

VARIABLES
    graph,     \* claims, evidence, conflicts, extraction runs, nodes
    gens,      \* graph_generations with their members, in order of creation
    served     \* graph_active_generation: the active one, 0: none

graphVars == <<graph, gens, served>>

GraphInit ==
    /\ graph = EmptyGraph /\ gens = <<>> /\ served = 0

GraphPCs == {"g:mark", "g:project", "g:chunks", "g:extract", "g:model", "g:succeed",
             "g:align", "g:neighbors", "g:verify", "g:previous", "g:switch",
             "topics", "g:failed"}
Gen(p) == gens[proc[p].gen]
\* A step gives the tables and the rows of its Generation.
Write(p, both) ==
    /\ graph' = both[1]
    /\ gens' = [gens EXCEPT ![proc[p].gen] = both[2]]

\* createGeneration and the carry of claims.  model: --model was given; space:
\* --vector-space, 0: not given; activate: --activate, --no-activate, or neither.
NewBuild(model, space, activate) ==
    [pc |-> IF served = 0 THEN "g:project" ELSE "g:mark",
     gen |-> Len(gens) + 1, model |-> model, space |-> space,
     activate |-> activate = "yes" \/ (activate = "default" /\ served = 0),
     todo |-> {}, chunk |-> 0, prev |-> 0, then |-> "idle"]
CreateGeneration ==
    LET new == NewGeneration(served)
    IN gens' = Append(gens, IF served = 0 THEN new
                            ELSE CarryForward(graph, ActiveChunks, gens[served], new))

StartGraphBuild(p) ==
    /\ \E model \in BOOLEAN, space \in {0} \cup {s \in Spaces : spaces[s].state # "none"},
          activate \in {"yes", "no", "default"} :
           Start(p, "build", NewBuild(model, space, activate))
    /\ CreateGeneration
    /\ UNCHANGED <<graph, served>>

\* refreshActiveGraphAfterKnowledgeChange, the end of an ingestion; what it
\* throws is caught.
RefreshGraph(p) ==
    /\ At(p, "g:refresh")
    /\ IF served = 0 THEN Set(p, Idle) /\ UNCHANGED gens
       ELSE Set(p, NewBuild(FALSE, 0, "yes")) /\ CreateGeneration
    /\ Step /\ UNCHANGED <<graph, served>>

\* The second half of carryForwardStableGraph, over all Generations.
MarkStaleEvidence(p) ==
    /\ At(p, "g:mark")
    /\ graph' = MarkStale(graph, ActiveChunks)
    /\ Goto(p, "g:project")
    /\ Step /\ UNCHANGED <<gens, served>>

\* One transaction: the structure and the explicit links.
Project(p) ==
    /\ At(p, "g:project")
    /\ LET structure == ProjectStructure(graph, Gen(p), ActiveChunks)
       IN Write(p, ProjectLinks(structure[1], structure[2], ActiveChunks))
    /\ Goto(p, IF proc[p].model THEN "g:chunks" ELSE "g:neighbors")
    /\ Step /\ UNCHANGED served

(* extractGenerationClaims *)

ListChunks(p) ==
    /\ At(p, "g:chunks")
    /\ Set(p, [proc[p] EXCEPT !.pc = "g:extract", !.todo = ActiveChunks])
    /\ Step /\ UNCHANGED graphVars

\* The next chunk: what an extraction of the same text gave is reused, else the
\* model is asked.
NextChunk(p) ==
    /\ At(p, "g:extract") /\ proc[p].todo # {}
    /\ LET k == Min(proc[p].todo)  run == graph.runs[TextOf[k]]
       IN IF run.state = "succeeded"
          THEN /\ Write(p, ReuseExtraction(graph, Gen(p), k))
               /\ Set(p, [proc[p] EXCEPT !.todo = @ \ {k}])
          ELSE /\ Write(p, <<[graph EXCEPT !.runs[TextOf[k]] =
                     IF @.state = "none" THEN [state |-> "running", chunk |-> k] ELSE @],
                     Gen(p)>>)
               /\ Set(p, [proc[p] EXCEPT !.todo = @ \ {k}, !.chunk = k, !.pc = "g:model"])
    /\ Step /\ UNCHANGED served

\* The answer is published in one transaction.
ModelAnswers(p) ==
    /\ At(p, "g:model")
    /\ Write(p, PublishExtraction(graph, Gen(p), proc[p].chunk))
    /\ Goto(p, "g:succeed")
    /\ Step /\ UNCHANGED served

MarkSucceeded(p) ==
    /\ At(p, "g:succeed")
    /\ graph' = [graph EXCEPT !.runs[TextOf[proc[p].chunk]].state = "succeeded"]
    /\ Set(p, [proc[p] EXCEPT !.chunk = 0, !.pc = "g:extract"])
    /\ Step /\ UNCHANGED <<gens, served>>

\* An invalid answer fails the extraction of the chunk, another error the build.
ExtractionFails(p) ==
    /\ proc[p].pc \in {"g:model", "g:succeed"}
    /\ Spend("fault")
    /\ graph' = [graph EXCEPT !.runs[TextOf[proc[p].chunk]].state = "failed"]
    /\ \E pc \in {"g:failed"} \cup (IF At(p, "g:model") THEN {"g:extract"} ELSE {}) :
           Set(p, [proc[p] EXCEPT !.chunk = 0, !.pc = pc])
    /\ UNCHANGED <<limit, chunkVars, lone, gens, served>>

Align(p) ==
    /\ At(p, "g:extract") /\ proc[p].todo = {}
    /\ graph' = AlignClaims(graph, Gen(p).claims)
    /\ Goto(p, "g:neighbors")
    /\ Step /\ UNCHANGED <<gens, served>>

(* the end of buildGraph *)

\* buildSemanticNeighbors, when it was asked for; its rows are left out.
BuildNeighbors(p) ==
    /\ At(p, "g:neighbors")
    /\ Goto(p, IF proc[p].space = 0 THEN "g:verify"
               ELSE IF spaces[proc[p].space].state \in {"ready", "deprecated"} THEN "g:verify"
               ELSE "g:failed")
    /\ Step /\ UNCHANGED graphVars

\* finalizeGeneration: what it stores when the verification fails is rolled
\* back with its transaction, and the catch block stores `failed`.
Finalize(p) ==
    /\ At(p, "g:verify")
    /\ IF Unsupported(graph, Gen(p)) = {}
       THEN /\ gens' = [gens EXCEPT ![proc[p].gen].state = "ready"]
            /\ IF proc[p].activate THEN Goto(p, "g:previous") ELSE Set(p, Idle)
       ELSE /\ gens' = [gens EXCEPT ![proc[p].gen].unverified = TRUE]
            /\ Goto(p, "g:failed")
    /\ Step /\ UNCHANGED <<graph, served>>

Activatable == {"ready", "active", "superseded"}

\* activateGeneration reads what is active before its transaction.
ReadPrevious(p) ==
    /\ At(p, "g:previous")
    /\ IF Gen(p).state \in Activatable
       THEN Set(p, [proc[p] EXCEPT !.pc = "g:switch", !.prev = served])
       ELSE Goto(p, "g:failed")
    /\ Step /\ UNCHANGED graphVars

Switched(prev, gen) ==
    [n \in DOMAIN gens |-> IF n = gen THEN [gens[n] EXCEPT !.state = "active"]
                           ELSE IF n = prev THEN [gens[n] EXCEPT !.state = "superseded"]
                           ELSE gens[n]]

SwitchPointer(p) ==
    /\ At(p, "g:switch")
    /\ gens' = Switched(proc[p].prev, proc[p].gen)
    /\ served' = proc[p].gen
    /\ Goto(p, "topics")
    /\ Step /\ UNCHANGED graph

\* Mutant: a Generation that is served is failed too.
FailAny(gen) == [gen EXCEPT !.state = "failed"]
FailUnlessReady(gen) == [gen EXCEPT !.state = IF @ \in {"active", "ready"} THEN @ ELSE "failed"]

BuildFails(p) ==
    /\ At(p, "g:failed")
    /\ gens' = [gens EXCEPT ![proc[p].gen] = FailUnlessReady(@)]
    /\ Set(p, Idle)
    /\ Step /\ UNCHANGED <<graph, served>>

BuildThrows(p) ==
    /\ At(p, "topics") => proc[p].then = "idle" /\ proc[p].gen # 0
    /\ Throw(p, GraphPCs \ {"g:mark", "g:failed", "g:model", "g:succeed"}, "g:failed")
    /\ UNCHANGED graphVars

GraphStep(p) ==
    \/ StartGraphBuild(p) \/ RefreshGraph(p) \/ MarkStaleEvidence(p) \/ Project(p)
    \/ ListChunks(p) \/ NextChunk(p) \/ ModelAnswers(p) \/ MarkSucceeded(p)
    \/ ExtractionFails(p) \/ Align(p) \/ BuildNeighbors(p) \/ Finalize(p) \/ ReadPrevious(p)
    \/ SwitchPointer(p) \/ BuildFails(p) \/ BuildThrows(p)
=============================================================================
