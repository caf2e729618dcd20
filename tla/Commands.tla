------------------------------- MODULE Commands -------------------------------
(***************************************************************************)
(* Commands that derive something from the published knowledge: processes  *)
(* of the command line, each at one step of one command, that share the    *)
(* database.                                                               *)
(*                                                                         *)
(* Publish stands for the ingestion of a Snapshot up to its publish        *)
(* transaction, which Ingestion has in detail; the invalidations and       *)
(* refreshes that follow it are steps of the modules that extend this one. *)
(***************************************************************************)
EXTENDS Workload

CONSTANT
    Chunks       \* chunk ids, 1..n, all of one Source

\* The limit of a behaviour also names the chunks that are there at first.
ASSUME CommandsAssumption ==
    /\ IsFiniteSet(Chunks) /\ Chunks \subseteq Nat \ {0}
    /\ \A l \in Limits : l.first \subseteq Chunks

VARIABLES
    chunk,     \* knowledge_chunks.state
    back,      \* chunks that were tombstoned and became active again
    emptied,   \* there was a time without an active chunk
    lone       \* commands have come one after another

chunkVars == <<chunk, back, emptied>>
commandVars == <<workVars, chunkVars, lone>>

ActiveChunks == {k \in Chunks : chunk[k] = "active"}

CommandsInit ==
    /\ WorkInit
    /\ chunk = [k \in Chunks |-> IF k \in limit.first THEN "active" ELSE "absent"]
    /\ back = {} /\ emptied = (limit.first = {}) /\ lone = TRUE

\* A step of a command that starts no other and does not fail.
Step == UNCHANGED <<limit, used, chunkVars, lone>>

\* A command starts: r is its first step.
Begin(p, kind, r) ==
    /\ Launch(p, kind, r)
    /\ lone' = (lone /\ Busy = {})
Start(p, kind, r) == Begin(p, kind, r) /\ UNCHANGED chunkVars

\* The command goes on with the step that its record names, or is done.
Continue(p) == IF proc[p].then = "idle" THEN Set(p, Idle) ELSE Goto(p, proc[p].then)

\* A command that is one transaction.
Atomic(kind) ==
    /\ Spend(kind) /\ lone' = (lone /\ Busy = {})
    /\ UNCHANGED <<limit, proc, chunkVars>>

\* publishKnowledgeSnapshot makes a chunk active or tombstones it;
\* ingestSnapshot goes on with the topics, the vectors and the graph.
Publish(p) ==
    /\ Begin(p, "change", [pc |-> "topics", then |-> "v:refresh"])
    /\ \E k \in Chunks :
         /\ chunk' = [chunk EXCEPT ![k] = IF @ = "active" THEN "tombstoned" ELSE "active"]
         /\ back' = IF chunk[k] = "tombstoned" THEN back \cup {k} ELSE back
         /\ emptied' = (emptied \/ ActiveChunks = {k})

\* The process is killed: no catch block runs.
Kill(p) ==
    /\ Fall(p)
    /\ UNCHANGED <<chunkVars, lone>>

\* A step throws and the command goes on at its catch block.
Throw(p, pcs, catch) ==
    /\ proc[p].pc \in pcs /\ Spend("fault") /\ Goto(p, catch)
    /\ UNCHANGED <<limit, chunkVars, lone>>
=============================================================================
