---------------------------- MODULE GraphEvidence ----------------------------
(***************************************************************************)
(* What the statements of a graph build compute from the tables of the     *)
(* graph: claims and relations with their evidence, conflicts and          *)
(* generations.  Constant-level operators only.                            *)
(*                                                                         *)
(* Relations are explicit links, those of a claim between its entities,    *)
(* and `mentions` of an entity in a chunk; structural ones are neither     *)
(* carried nor verified, and are left out.                                 *)
(***************************************************************************)
EXTENDS Commands, FiniteSetsExt

CONSTANTS
    TextOf,      \* [chunk -> text]: the hash an extraction is keyed by
    ClaimsIn,    \* [text -> the claims the model extracts]
    RelationsIn, \* [chunk -> the relations the model extracts]
    ClaimOf,     \* [relation between the entities of a claim -> the claim]
    Mentioned,   \* [relation `mentions` -> the entity mentioned]
    LinksIn,     \* [chunk -> explicit links to documents]
    Targets,     \* [link -> chunks of the only document it can resolve to]
    Scope,       \* [claim -> subject, predicate and conflict scope; 0: no scope]
    Position     \* [claim -> object or value]

Texts  == {TextOf[k] : k \in Chunks}
Claims == UNION {ClaimsIn[t] : t \in Texts}
Links  == UNION {LinksIn[k] : k \in Chunks}
Extracted == UNION {RelationsIn[k] : k \in Chunks}
Relations == Links \cup Extracted
Scopes == {Scope[c] : c \in Claims} \ {0}

ASSUME GraphAssumption ==
    /\ DOMAIN Targets = Links
    /\ \A c \in Claims : c \in DOMAIN Scope /\ c \in DOMAIN Position
    /\ Relations \cap Claims = {} /\ Links \cap Extracted = {}
    /\ Extracted = DOMAIN ClaimOf \cup DOMAIN Mentioned
    /\ DOMAIN ClaimOf \cap DOMAIN Mentioned = {}

\* Nothing tells the predicates of one claim apart when the claim is looked up:
\* relations that not every text that states their claim states too.
Uneven == {r \in DOMAIN ClaimOf : \E k \in Chunks :
              ClaimOf[r] \in ClaimsIn[TextOf[k]] /\ r \notin RelationsIn[k]}

\* claims, relations: their status
\* level:         whether the confidence of a claim was assessed as disputed
\* supports:      rows of graph_claim_evidence and graph_relation_evidence by
\*                state, <<claim or relation, chunk>>
\* conflicts:     members of the open conflict of each scope
\* runs:          extraction runs: state, and the chunk that was the input
\* nodes:         chunks that have a node
EmptyGraph ==
    [claims   |-> [c \in Claims |-> "none"],
     level    |-> [c \in Claims |-> "assessed"],
     supports |-> [active |-> {}, stale |-> {}],
     relations |-> [r \in Relations |-> "none"],
     conflicts |-> [s \in Scopes |-> {}],
     runs     |-> [t \in Texts |-> [state |-> "none", chunk |-> 0]],
     nodes    |-> {}]

NewGeneration(parent) ==
    [state |-> "building", parent |-> parent, claims |-> {}, relations |-> {},
     users |-> {}, nodes |-> {}, unverified |-> FALSE]

HasEvidence(g, x) == \E k \in Chunks : <<x, k>> \in g.supports.active

\* Mutant: a claim is carried on evidence of any chunk.
CarryOnAnyChunk(g, active, claims) ==
    {c \in claims : g.claims[c] \in {"rejected", "user_confirmed"} \/ HasEvidence(g, c)}

\* carryForwardStableGraph: the claims that were moderated or have evidence in
\* an active chunk.
CarriedClaims(g, active, claims) ==
    {c \in claims : \/ g.claims[c] \in {"rejected", "user_confirmed"}
                    \/ \E k \in active : <<c, k>> \in g.supports.active}

CarriedRelations(g, active, relations) ==
    {r \in relations \cap Extracted : \/ g.relations[r] = "rejected"
                                     \/ \E k \in active : <<r, k>> \in g.supports.active}

\* Mutant: what the user asserted is not carried.
CarryMachineFacts(g, active, old, new) ==
    [new EXCEPT !.claims = CarriedClaims(g, active, old.claims),
                !.relations = CarriedRelations(g, active, old.relations)]

\* Explicit links are not carried, they are projected again; what the user
\* asserted is carried always.
CarryForward(g, active, old, new) ==
    [new EXCEPT !.claims = CarriedClaims(g, active, old.claims),
                !.relations = CarriedRelations(g, active, old.relations),
                !.users = old.users]

\* Evidence in chunks that are not active, and then claims and extracted
\* relations without evidence, become stale, in whatever generation they are.
MarkStale(g, active) ==
    LET gone == {e \in g.supports.active : e[2] \notin active}
        kept == [g EXCEPT !.supports = [active |-> @.active \ gone, stale |-> @.stale \cup gone]]
        after(x, status) ==
            IF status \in {"none", "rejected"} \/ HasEvidence(kept, x) THEN status ELSE "stale"
    IN [kept EXCEPT
          !.claims = [c \in Claims |-> after(c, @[c])],
          !.relations = [r \in Relations |-> IF r \in Links THEN @[r] ELSE after(r, @[r])]]

\* Evidence rows that exist are left in the state they have.
AddEvidences(g, rows) ==
    [g EXCEPT !.supports.active = @ \cup (rows \ g.supports.stale)]

(* graph-projection *)

\* ensureNode for the chunks of the current revisions.
ProjectStructure(g, gen, active) ==
    <<[g EXCEPT !.nodes = @ \cup active], [gen EXCEPT !.nodes = active]>>

\* resolveTarget: the document has an active chunk; other references are only
\* recorded as unresolved.
Resolved(active) == {l \in Links : Targets[l] \cap active # {}}

\* ensureRelation keeps the status of a relation that exists.  The evidence is
\* the chunk at the link's line, which is taken to be active.
ProjectLinks(g, gen, active) ==
    LET rows  == {row \in Resolved(active) \X active : row[1] \in LinksIn[row[2]]}
        found == {row[1] : row \in rows}
    IN <<[AddEvidences(g, rows) EXCEPT !.relations = [l \in Relations |->
             IF l \in found /\ @[l] = "none" THEN "accepted" ELSE @[l]]],
         [gen EXCEPT !.relations = @ \cup found]>>

(* graph-extraction, graph-extraction-evidence *)

\* publishExtraction: claims and relations that exist keep their status; a
\* chunk without a node mentions nothing.
PublishExtraction(g, gen, k) ==
    LET found  == ClaimsIn[TextOf[k]]
        stated == {r \in RelationsIn[k] : r \in DOMAIN Mentioned => k \in g.nodes}
        new(S, x, status) == IF x \in S /\ status = "none" THEN "proposed" ELSE status
    IN <<[AddEvidences(g, (found \cup stated) \X {k}) EXCEPT
             !.claims = [c \in Claims |-> new(found, c, @[c])],
             !.relations = [r \in Relations |-> new(stated, r, @[r])]],
         [gen EXCEPT !.claims = @ \cup found, !.relations = @ \cup stated]>>

\* reuseChunkExtraction: the claims that still have active evidence in the
\* chunk the run had as input, with all their relations, and a copy of the
\* evidence there for this chunk.  What was mentioned is not reused.
ReuseExtraction(g, gen, k) ==
    LET at(x)  == <<x, g.runs[TextOf[k]].chunk>> \in g.supports.active
        found  == {c \in Claims : at(c)}
        theirs == {r \in DOMAIN ClaimOf : ClaimOf[r] \in found /\ g.relations[r] # "none"}
    IN <<AddEvidences(g, (found \cup {r \in theirs : at(r)}) \X {k}),
         [gen EXCEPT !.claims = @ \cup found, !.relations = @ \cup theirs]>>

(* confidence *)

\* assessConfidence: what is disputed has no other level; high, medium and low
\* are not told apart.
AssessConfidence(disputed) == IF disputed THEN "disputed" ELSE "assessed"

(* graph-claim-alignment *)

Disputed(g, c) == Scope[c] # 0 /\ c \in g.conflicts[Scope[c]]
\* recalculateClaimConfidence.
Recalculate(g, claims) ==
    [g EXCEPT
          !.level = [c \in Claims |->
              IF c \in claims THEN AssessConfidence(Disputed(g, c)) ELSE @[c]],
          !.claims = [c \in Claims |->
              CASE c \in claims /\ Disputed(g, c)
                     /\ @[c] \notin {"rejected", "user_confirmed"} -> "disputed"
                [] c \in claims /\ ~ Disputed(g, c) /\ @[c] = "disputed" -> "proposed"
                [] OTHER -> @[c]]]

\* isConflictCandidate: one subject, predicate and scope, and two positions.
Contradicts(c, d) == Scope[c] # 0 /\ Scope[c] = Scope[d] /\ Position[c] # Position[d]

\* Mutant: only claims that no build has aligned before.
AlignNewClaims(g, claims) ==
    LET new == {c \in claims : g.claims[c] = "proposed"}
        opposed == {c \in new : \E d \in new : Contradicts(c, d)}
    IN Recalculate([g EXCEPT !.conflicts = [s \in Scopes |->
                       @[s] \cup {c \in opposed : Scope[c] = s}]], claims)

\* alignClaimsAndConfidence over the claims of a generation.
AlignClaims(g, claims) ==
    LET opposed == {c \in claims : \E d \in claims : Contradicts(c, d)}
    IN Recalculate([g EXCEPT !.conflicts = [s \in Scopes |->
                       @[s] \cup {c \in opposed : Scope[c] = s}]], claims)

\* verifyGeneration: machine claims and relations without evidence.
Unsupported(g, gen) == {x \in gen.claims \cup gen.relations : ~ HasEvidence(g, x)}
=============================================================================
