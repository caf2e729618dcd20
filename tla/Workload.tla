------------------------------- MODULE Workload -------------------------------
(***************************************************************************)
(* Processes of the command line that share the workspace: each is at one  *)
(* step of one command, and any of them may take the next step.            *)
(*                                                                         *)
(* A behaviour chooses its bounds in Init, so that behaviours with many    *)
(* commands of one kind and behaviours with a few of several kinds are     *)
(* checked side by side.                                                   *)
(***************************************************************************)
EXTENDS Integers, FiniteSets

CONSTANTS
    Procs,       \* processes
    Kinds,       \* what is counted: kinds of commands, changes and faults
    Limits       \* the bounds of a behaviour: how many commands at once (busy),
                 \* how much of each kind (count), and what a module adds

ASSUME WorkloadAssumption == \A l \in Limits : \A k \in Kinds : l.count[k] \in Nat

VARIABLES
    limit,     \* the bounds of this behaviour
    used,      \* how much of each kind there was
    proc       \* the command of each process and the step it is at

workVars == <<limit, used, proc>>

Idle == [pc |-> "idle"]
Busy == {p \in Procs : proc[p] # Idle}

WorkInit ==
    /\ limit \in Limits
    /\ used = [k \in Kinds |-> 0]
    /\ proc = [p \in Procs |-> Idle]

At(p, pc) == proc[p].pc = pc
Set(p, r) == proc' = [proc EXCEPT ![p] = r]
Goto(p, pc) == Set(p, [proc[p] EXCEPT !.pc = pc])
Spend(kind) ==
    /\ used[kind] < limit.count[kind]
    /\ used' = [used EXCEPT ![kind] = @ + 1]

\* A process starts a command: r is its first step.
Launch(p, kind, r) ==
    /\ At(p, "idle") /\ Cardinality(Busy) < limit.busy
    /\ Spend(kind) /\ Set(p, r)
    /\ UNCHANGED limit

\* A step of a command, and its last one.
Move(p, pc) == Goto(p, pc) /\ UNCHANGED <<limit, used>>
Become(p, r) == Set(p, r) /\ UNCHANGED <<limit, used>>
Finish(p) == Become(p, Idle)

\* What other commands do in one transaction.
Elsewhere(kind) == Spend(kind) /\ UNCHANGED <<limit, proc>>

\* The process is killed: no catch or finally block runs.
Fall(p) == p \in Busy /\ Spend("fault") /\ Set(p, Idle) /\ UNCHANGED limit
=============================================================================
