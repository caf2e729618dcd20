------------------------------ MODULE JobGrants ------------------------------
(***************************************************************************)
(* What the job queue promises about starting work, whatever crashes, late *)
(* workers and racing commands do: a job is started by at most one process *)
(* per grant, and only an accepted enqueue, an explicit retry or a recovery*)
(* hands out a grant.  Implemented by JobQueue.                            *)
(***************************************************************************)
EXTENDS Naturals

CONSTANT Jobs

VARIABLES
    granted,   \* grants handed out for each job
    started    \* attempts started for each job

Init ==
    /\ granted = [j \in Jobs |-> 0]
    /\ started = [j \in Jobs |-> 0]

\* A recovery may put several abandoned jobs back at once.
Grant(S) ==
    /\ granted' = [j \in Jobs |-> IF j \in S THEN granted[j] + 1 ELSE granted[j]]
    /\ UNCHANGED started

Start(j) ==
    /\ started[j] < granted[j]
    /\ started' = [started EXCEPT ![j] = @ + 1]
    /\ UNCHANGED granted

Next == \/ \E S \in SUBSET Jobs : Grant(S)
        \/ \E j \in Jobs : Start(j)

Spec == Init /\ [][Next]_<<granted, started>>

==============================================================================
