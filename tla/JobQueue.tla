------------------------------ MODULE JobQueue ------------------------------
(***************************************************************************)
(* The durable Job queue of the automation domain.                         *)
(*                                                                         *)
(* One SQLite table of job rows and one append-only table of job events    *)
(* are shared by operating-system processes that each run ONE command of   *)
(* the CLI: enqueue (backup create, graph build, ...), job list, job       *)
(* cancel, job retry and the detached "job execute" worker.  A command is  *)
(* a sequence of SQL statements; a SELECT outside a transaction and a      *)
(* whole transaction are the atomic steps, and every other process may run *)
(* between two of them.  A variable of the process (pc, arg, seen, ...)    *)
(* holds what the command has read and not yet used.                       *)
(*                                                                         *)
(* --wait and the detached mode differ only in which process continues     *)
(* with executeJob: a parent that spawns a worker changes nothing          *)
(* afterwards, so the same element of Procs stands for both.               *)
(***************************************************************************)
EXTENDS Naturals, Sequences, FiniteSets

CONSTANTS
    Procs,         \* processes; each runs one command and is never reused
    Jobs,          \* job identifiers
    Keys,          \* idempotency keys
    Inputs,        \* normalized inputs (kind and values), compared by hash
    Null,          \* the SQL NULL
    MaxAttempts,   \* max_attempts of every job row
    MaxCrashes,    \* bound: processes killed in a behaviour
    MaxExpiries,   \* bound: leases that run out in a behaviour
    MaxRetries     \* bound: "job retry" commands in a behaviour

ASSUME NullAssumption == Null \notin Procs \cup Jobs \cup Keys \cup Inputs
ASSUME BoundAssumption ==
    /\ MaxAttempts \in Nat \ {0}
    /\ MaxCrashes \in Nat
    /\ MaxExpiries \in Nat
    /\ MaxRetries \in Nat

VARIABLES
    job,        \* the rows of automation_jobs
    events,     \* the rows of automation_job_events, in sequence order
    pc,         \* the next statement of each process
    req,        \* the idempotency key and input of an enqueue command
    arg,        \* the job a process works on
    seen,       \* the row a process has read before its next transaction
    abandoned,  \* the jobs selected by the recovery a process is running
    after,      \* where a process continues after recovery
    since,      \* history variable: position of a worker's own "started" event
    crashes, expiries, retries   \* counters for the three bounds

vars == <<job, events, pc, req, arg, seen, abandoned, after, since,
          crashes, expiries, retries>>

Finished  == {"succeeded", "failed", "cancelled"}
Claimable == {"queued", "waiting"}
JobState  == Finished \cup Claimable \cup {"absent", "running"}

Row == [state : JobState, key : Keys \cup {Null}, input : Inputs \cup {Null},
        attempt : Nat, cancel : BOOLEAN, owner : Procs \cup {Null},
        lease : {"none", "live", "expired"}]

NoRow == [state |-> "absent", key |-> Null, input |-> Null, attempt |-> 0,
          cancel |-> FALSE, owner |-> Null, lease |-> "none"]

NoReq == [key |-> Null, input |-> Null]

EventType == {"queued", "started", "progress", "completed", "failed",
              "cancelled", "cancel_requested", "retried", "lease_expired"}
Event == [type : EventType, state : JobState]

PC == {"idle", "recoverScan", "recoverWrite", "lookup", "insert", "accepted",
       "claimRead", "claimWrite", "dispatch", "reportRead", "reportWrite",
       "body", "cancelCheck", "completeWrite", "failRead", "failWrite",
       "cancelWrite", "retryWrite", "done", "crashed"}

\* A worker has claimed its job and has not yet written the outcome.
Working == {"dispatch", "reportRead", "reportWrite", "body", "cancelCheck",
            "completeWrite", "failRead", "failWrite"}

Init ==
    /\ job = [j \in Jobs |-> NoRow]
    /\ events = [j \in Jobs |-> <<>>]
    /\ pc = [p \in Procs |-> "idle"]
    /\ req = [p \in Procs |-> NoReq]
    /\ arg = [p \in Procs |-> Null]
    /\ seen = [p \in Procs |-> NoRow]
    /\ abandoned = [p \in Procs |-> {}]
    /\ after = [p \in Procs |-> "done"]
    /\ since = [p \in Procs |-> 0]
    /\ crashes = 0 /\ expiries = 0 /\ retries = 0

-----------------------------------------------------------------------------
(* Helpers: where a process goes, and what a transaction writes.           *)

local == <<req, arg, seen, abandoned, after, since>>
bounds == <<crashes, expiries, retries>>
rows == <<job, events>>

Goto(p, l) == pc' = [pc EXCEPT ![p] = l]

\* process.kill(pid, 0) succeeds.
PidAlive(p) == pc[p] \notin {"done", "crashed"}

\* appendJobEvent: the next sequence number of one job's history.
AppendEvent(j, type, state) ==
    events' = [events EXCEPT ![j] = Append(@, [type |-> type, state |-> state])]

\* The columns each UPDATE of a row sets.
Release(r, s) == [r EXCEPT !.state = s, !.owner = Null, !.lease = "none"]
Renew(r)      == [r EXCEPT !.lease = "live"]
Requeue(r)    == [r EXCEPT !.state = "queued", !.cancel = FALSE]
CancelNow(r)  == [r EXCEPT !.state = "cancelled", !.cancel = TRUE]
AskCancel(r)  == [r EXCEPT !.cancel = TRUE]
Expire(r)     == [r EXCEPT !.lease = "expired"]
Accepted(q)   == [NoRow EXCEPT !.state = "queued", !.key = q.key, !.input = q.input]

\* The rows recoverAbandonedJobs selects: expired lease or dead worker.
AbandonedJobs ==
    {j \in Jobs : /\ job[j].state = "running"
                  /\ \/ job[j].lease = "expired"
                     \/ job[j].owner # Null /\ ~PidAlive(job[j].owner)}

\* A process turns into the worker of job j: executeJob recovers first.
BecomeWorker(p, j) ==
    /\ Goto(p, "recoverScan")
    /\ arg' = [arg EXCEPT ![p] = j]
    /\ after' = [after EXCEPT ![p] = "claimRead"]

-----------------------------------------------------------------------------
(* enqueueJob, showJobs ("job list") and the recovery they both start with *)

StartEnqueue(p, k, i) ==
    /\ pc[p] = "idle"
    /\ req' = [req EXCEPT ![p] = [key |-> k, input |-> i]]
    /\ after' = [after EXCEPT ![p] = "lookup"]
    /\ Goto(p, "recoverScan")
    /\ UNCHANGED <<rows, arg, seen, abandoned, since, bounds>>

StartList(p) ==
    /\ pc[p] = "idle"
    /\ Goto(p, "recoverScan")
    /\ UNCHANGED <<rows, local, bounds>>

\* recoverAbandonedJobs: the SELECT, before its transaction begins.
RecoverScan(p) ==
    /\ pc[p] = "recoverScan"
    /\ abandoned' = [abandoned EXCEPT ![p] = AbandonedJobs]
    /\ Goto(p, IF AbandonedJobs = {} THEN after[p] ELSE "recoverWrite")
    /\ UNCHANGED <<rows, req, arg, seen, after, since, bounds>>

\* Mutant: the event repeats the state the row had when it was selected.
RecoveryEventKeepsState == [type |-> "lease_expired", state |-> "running"]
RecoveryEvent == [type |-> "lease_expired", state |-> "waiting"]

\* Mutant: a recovery that appends no event.
RecoverSilently(p) ==
    /\ pc[p] = "recoverWrite"
    /\ job' = [j \in Jobs |-> IF j \in abandoned[p]
                              THEN Release(job[j], "waiting") ELSE job[j]]
    /\ Goto(p, after[p])
    /\ UNCHANGED <<events, local, bounds>>

\* recoverAbandonedJobs: the transaction.  The UPDATE names only the job id.
RecoverWrite(p) ==
    /\ pc[p] = "recoverWrite"
    /\ job' = [j \in Jobs |-> IF j \in abandoned[p]
                              THEN Release(job[j], "waiting") ELSE job[j]]
    /\ events' = [j \in Jobs |->
                    IF j \in abandoned[p]
                    THEN Append(events[j], RecoveryEvent)
                    ELSE events[j]]
    /\ Goto(p, after[p])
    /\ UNCHANGED <<local, bounds>>

\* insertJob returns or throws: its parameters go out of scope.
Forget(p) == req' = [req EXCEPT ![p] = NoReq]

\* insertJob: the job that already carries the key answers the command.
LookupKey(p) ==
    /\ pc[p] = "lookup"
    /\ LET prior == {j \in Jobs : job[j].key = req[p].key} IN
       IF req[p].key = Null \/ prior = {}
       THEN Goto(p, "insert") /\ UNCHANGED <<req, arg, after>>
       ELSE /\ Forget(p)
            /\ \E j \in prior :
                 IF job[j].input # req[p].input \/ job[j].state \in Finished
                 THEN Goto(p, "done") /\ UNCHANGED <<arg, after>>
                 ELSE BecomeWorker(p, j)
    /\ UNCHANGED <<rows, seen, abandoned, since, bounds>>

\* Mutant: a table without the unique index on idempotency_key.
KeyNeverTaken(k) == FALSE
KeyTaken(k) == k # Null /\ \E j \in Jobs : job[j].key = k

\* insertJob: the INSERT.  The unique index refuses a key used meanwhile.
InsertJob(p) ==
    /\ pc[p] = "insert"
    /\ IF KeyTaken(req[p].key)
       THEN Goto(p, "done") /\ UNCHANGED <<rows, arg>>
       ELSE \E j \in Jobs :
              /\ job[j].state = "absent"
              /\ job' = [job EXCEPT ![j] = Accepted(req[p])]
              /\ AppendEvent(j, "queued", "queued")
              /\ arg' = [arg EXCEPT ![p] = j]
              /\ Goto(p, "accepted")
    /\ Forget(p)
    /\ UNCHANGED <<seen, abandoned, after, since, bounds>>

\* Mutant: enqueueJob returns without starting a worker.
JobAcceptedOnly(p) ==
    /\ pc[p] = "accepted"
    /\ Goto(p, "done")
    /\ UNCHANGED <<rows, local, bounds>>

\* enqueueJob: a job finished meanwhile is returned, any other is executed.
JobAccepted(p) ==
    /\ pc[p] = "accepted"
    /\ IF job[arg[p]].state \in Finished
       THEN Goto(p, "done") /\ UNCHANGED <<arg, after>>
       ELSE BecomeWorker(p, arg[p])
    /\ UNCHANGED <<rows, req, seen, abandoned, since, bounds>>

-----------------------------------------------------------------------------
(* executeJob: claim, dispatch, run and record the outcome                 *)

\* claimJob: a job that is neither queued nor waiting is refused.
ClaimRead(p) ==
    /\ pc[p] = "claimRead"
    /\ Goto(p, IF job[arg[p]].state \in Claimable THEN "claimWrite" ELSE "done")
    /\ UNCHANGED <<rows, local, bounds>>

\* Mutant: the UPDATE of claimJob without its condition on the state.
CanClaimAnyState(j) == job[j].state # "absent"
CanClaim(j) == job[j].state \in Claimable

\* Mutant: claimJob records the owner but no expiry.
ClaimedWithoutLease(r, p) ==
    [r EXCEPT !.state = "running", !.attempt = @ + 1, !.owner = p]
Claimed(r, p) ==
    [r EXCEPT !.state = "running", !.attempt = @ + 1, !.owner = p, !.lease = "live"]

\* claimJob: compare-and-set on the state; the loser throws and leaves.
ClaimWrite(p) ==
    /\ pc[p] = "claimWrite"
    /\ LET j == arg[p] IN
       IF CanClaim(j)
       THEN /\ job' = [job EXCEPT ![j] = Claimed(@, p)]
            /\ AppendEvent(j, "started", "running")
            /\ since' = [since EXCEPT ![p] = Len(events[j]) + 1]
            /\ Goto(p, "dispatch")
       ELSE Goto(p, "done") /\ UNCHANGED <<rows, since>>
    /\ UNCHANGED <<req, arg, seen, abandoned, after, bounds>>

\* updateJobProgress: renews the lease of a running row, whoever owns it.
Progress(p, from, to) ==
    /\ pc[p] = from
    /\ LET j == arg[p] IN
       /\ job' = IF job[j].state = "running"
                 THEN [job EXCEPT ![j] = Renew(@)] ELSE job
       /\ AppendEvent(j, "progress", "running")
    /\ Goto(p, to)
    /\ UNCHANGED <<local, bounds>>

Dispatch(p) == Progress(p, "dispatch", "reportRead")

\* report: a requested cancellation is thrown before the operation starts.
ReportRead(p) ==
    /\ pc[p] = "reportRead"
    /\ Goto(p, IF job[arg[p]].cancel THEN "failRead" ELSE "reportWrite")
    /\ UNCHANGED <<rows, local, bounds>>

ReportWrite(p) == Progress(p, "reportWrite", "body")

\* executeJobKind returned a result.
OperationReturns(p) ==
    /\ pc[p] = "body"
    /\ Goto(p, "cancelCheck")
    /\ UNCHANGED <<rows, local, bounds>>

\* The operation, or a statement around it, threw: executeJob's catch.
OperationThrows(p) ==
    /\ pc[p] \in {"reportRead", "reportWrite", "body", "cancelCheck", "completeWrite"}
    /\ Goto(p, "failRead")
    /\ UNCHANGED <<rows, local, bounds>>

CancelCheck(p) ==
    /\ pc[p] = "cancelCheck"
    /\ Goto(p, IF job[arg[p]].cancel THEN "failRead" ELSE "completeWrite")
    /\ UNCHANGED <<rows, local, bounds>>

\* completeJob: the row changes only if it is running, the event is always added.
CompleteWrite(p) ==
    /\ pc[p] = "completeWrite"
    /\ LET j == arg[p] IN
       /\ job' = IF job[j].state = "running"
                 THEN [job EXCEPT ![j] = Release(@, "succeeded")] ELSE job
       /\ AppendEvent(j, "completed", "succeeded")
    /\ Goto(p, "done")
    /\ UNCHANGED <<local, bounds>>

\* failJob: the row is read before the transaction decides the final state.
FailRead(p) ==
    /\ pc[p] = "failRead"
    /\ seen' = [seen EXCEPT ![p] = job[arg[p]]]
    /\ Goto(p, "failWrite")
    /\ UNCHANGED <<rows, req, arg, abandoned, after, since, bounds>>

\* Mutant: the state takes the name of the event that asked for the cancel.
OutcomeIsRequest(r) == IF r.cancel THEN "cancel_requested" ELSE "failed"
Outcome(r) == IF r.cancel THEN "cancelled" ELSE "failed"

\* failJob: the UPDATE names only the job id.
FailWrite(p) ==
    /\ pc[p] = "failWrite"
    /\ LET j == arg[p]
           s == Outcome(seen[p])
       IN /\ job' = [job EXCEPT ![j] = Release(@, s)]
          /\ AppendEvent(j, s, s)
    /\ Goto(p, "done")
    /\ UNCHANGED <<local, bounds>>

-----------------------------------------------------------------------------
(* job cancel and job retry                                                *)

\* requestJobCancellation: a finished job is refused.
StartCancel(p, j) ==
    /\ pc[p] = "idle"
    /\ job[j].state # "absent"
    /\ arg' = [arg EXCEPT ![p] = j]
    /\ seen' = [seen EXCEPT ![p] = job[j]]
    /\ Goto(p, IF job[j].state \in Finished THEN "done" ELSE "cancelWrite")
    /\ UNCHANGED <<rows, req, abandoned, after, since, bounds>>

\* requestJobCancellation: which UPDATE runs was decided by the earlier read.
CancelWrite(p) ==
    /\ pc[p] = "cancelWrite"
    /\ LET j == arg[p] IN
       IF seen[p].state \in Claimable
       THEN /\ job' = [job EXCEPT ![j] = CancelNow(@)]
            /\ AppendEvent(j, "cancel_requested", "cancelled")
       ELSE /\ job' = [job EXCEPT ![j] = AskCancel(@)]
            /\ AppendEvent(j, "cancel_requested", "running")
    /\ Goto(p, "done")
    /\ UNCHANGED <<local, bounds>>

\* retryJob: failed, cancelled or interrupted, with attempts left.
StartRetry(p, j) ==
    /\ pc[p] = "idle"
    /\ retries < MaxRetries
    /\ job[j].state # "absent"
    /\ retries' = retries + 1
    /\ arg' = [arg EXCEPT ![p] = j]
    /\ Goto(p, IF /\ job[j].state \in {"failed", "cancelled", "waiting"}
                  /\ job[j].attempt < MaxAttempts
               THEN "retryWrite" ELSE "done")
    /\ UNCHANGED <<rows, req, seen, abandoned, after, since, crashes, expiries>>

\* Mutant: a retry that appends no event.
RetrySilently(p) ==
    /\ pc[p] = "retryWrite"
    /\ job' = [job EXCEPT ![arg[p]] = Requeue(@)]
    /\ BecomeWorker(p, arg[p])
    /\ UNCHANGED <<events, req, seen, abandoned, since, bounds>>

\* retryJob: the UPDATE names only the job id; then the job is executed.
RetryWrite(p) ==
    /\ pc[p] = "retryWrite"
    /\ job' = [job EXCEPT ![arg[p]] = Requeue(@)]
    /\ AppendEvent(arg[p], "retried", "queued")
    /\ BecomeWorker(p, arg[p])
    /\ UNCHANGED <<req, seen, abandoned, since, bounds>>

-----------------------------------------------------------------------------
(* The environment                                                         *)

\* The operating system kills a process between two statements, or a
\* statement outside executeJob's try throws and the process exits.
Crash(p) ==
    /\ crashes < MaxCrashes
    /\ PidAlive(p) /\ pc[p] # "idle"
    /\ crashes' = crashes + 1
    /\ Goto(p, "crashed")
    /\ UNCHANGED <<rows, local, expiries, retries>>

\* Sixty seconds pass without a call of updateJobProgress.
LeaseExpires(j) ==
    /\ expiries < MaxExpiries
    /\ job[j].state = "running" /\ job[j].lease = "live"
    /\ job' = [job EXCEPT ![j] = Expire(@)]
    /\ expiries' = expiries + 1
    /\ UNCHANGED <<events, pc, local, crashes, retries>>

\* The statements a process runs once its command has started.
Step(p) ==
    \/ RecoverScan(p) \/ RecoverWrite(p) \/ LookupKey(p) \/ InsertJob(p)
    \/ JobAccepted(p) \/ ClaimRead(p) \/ ClaimWrite(p) \/ Dispatch(p)
    \/ ReportRead(p) \/ ReportWrite(p) \/ OperationReturns(p)
    \/ OperationThrows(p) \/ CancelCheck(p) \/ CompleteWrite(p)
    \/ FailRead(p) \/ FailWrite(p) \/ CancelWrite(p) \/ RetryWrite(p)

Start(p) ==
    \/ \E k \in Keys \cup {Null}, i \in Inputs : StartEnqueue(p, k, i)
    \/ StartList(p)
    \/ \E j \in Jobs : StartCancel(p, j) \/ StartRetry(p, j)

Next ==
    \/ \E p \in Procs : Step(p) \/ Start(p) \/ Crash(p)
    \/ \E j \in Jobs : LeaseExpires(j)

Spec == Init /\ [][Next]_vars

\* A process that is running a command is scheduled until the command ends.
FairSpec == Spec /\ \A p \in Procs : WF_vars(Step(p))

-----------------------------------------------------------------------------
(* Properties                                                              *)

\* Type invariant.
TypeOK ==
    /\ job \in [Jobs -> Row]
    /\ events \in [Jobs -> Seq(Event)]
    /\ pc \in [Procs -> PC]
    /\ req \in [Procs -> [key : Keys \cup {Null}, input : Inputs \cup {Null}]]
    /\ arg \in [Procs -> Jobs \cup {Null}]
    /\ seen \in [Procs -> Row]
    /\ abandoned \in [Procs -> SUBSET Jobs]
    /\ after \in [Procs -> {"done", "lookup", "claimRead"}]
    /\ since \in [Procs -> Nat]
    /\ crashes \in 0 .. MaxCrashes
    /\ expiries \in 0 .. MaxExpiries
    /\ retries \in 0 .. MaxRetries

\* Where the command of a process names a job.
HasJob == Working \cup {"accepted", "claimRead", "claimWrite", "cancelWrite", "retryWrite"}

\* A live process is working for the running row that names it as the owner.
Attended(j) ==
    \E p \in Procs : job[j].owner = p /\ pc[p] \in Working /\ arg[p] = j

\* No running job is lost: either its owner is alive and working on it, under
\* a lease that can run out, or the next recovery selects it.  Takeovers,
\* late outcomes, cancellations and kills never leave a running row whose
\* owner is busy elsewhere or has no lease, which nobody would pick up.
RunningIsRecoverable ==
    \A j \in Jobs : job[j].state = "running" =>
        \/ Attended(j) /\ job[j].lease # "none"
        \/ j \in AbandonedJobs

HeldBy(p) == job[arg[p]].state = "running" /\ job[arg[p]].owner = p
LossLogged(p) ==
    \E i \in 1 .. Len(events[arg[p]]) :
        i > since[p] /\ events[arg[p]][i].state # "running"

\* A worker that has claimed a job either still owns the running row, or the
\* job's history says, after the worker's own "started" event, that the job
\* left the running state: no takeover and no second worker goes unrecorded,
\* although failJob, retryJob, recovery and cancellation write without a guard.
OwnershipLossIsLogged ==
    \A p \in Procs : pc[p] \in Working => HeldBy(p) \/ LossLogged(p)

\* Two rows never share an idempotency key, although insertJob looks the key
\* up outside the transaction that inserts.
OneJobPerKey ==
    \A i, j \in Jobs : job[i].key # Null /\ job[i].key = job[j].key => i = j

CountEvents(j, types) ==
    Cardinality({i \in 1 .. Len(events[j]) : events[j][i].type \in types})

GrantTypes == {"queued", "retried", "lease_expired"}
Due(j) == IF job[j].state \in Claimable THEN 1 ELSE 0

\* The attempt column counts the "started" events, and every start uses up one
\* enqueue, explicit retry or recovery: two racing workers cannot both start on
\* the same grant, whatever the interleaving of claims, recoveries and retries.
EveryAttemptIsPaidFor ==
    \A j \in Jobs :
        /\ job[j].attempt = CountEvents(j, {"started"})
        /\ job[j].attempt + Due(j) <= CountEvents(j, GrantTypes)

Grants == INSTANCE JobGrants WITH
    granted <- [j \in Jobs |-> CountEvents(j, GrantTypes)],
    started <- [j \in Jobs |-> job[j].attempt]

\* The queue implements JobGrants: the compare-and-set of claimJob is the only
\* statement that starts an attempt, and it never does so without a grant.
StartsAreGranted == Grants!Spec

\* Without crashes and expired leases, a job that has been accepted or queued
\* again reaches a final state: no interleaving of cancel, retry, list and
\* enqueue commands strands it.
EveryJobSettles ==
    \A j \in Jobs : job[j].state \in Claimable \cup {"running"} ~> job[j].state \in Finished

\* docs/domains/automation/README.md:58 says that a failed or cancelled job
\* starts a new attempt only after an explicit retry.
RestartNeedsRetry ==
    [][\A j \in Jobs :
         job[j].state \in {"failed", "cancelled"} /\ job'[j].state \in Claimable \cup {"running"}
           => events'[j][Len(events'[j])].type = "retried"]_vars

=============================================================================
