--------------------------- MODULE JobQueueProofs ---------------------------
(* Theorems about JobQueue, for any number of processes, jobs and keys and *)
(* any bound on crashes, expired leases and retries.                       *)
EXTENDS JobQueue, TLAPS, FiniteSetTheorems

\* A process that is about to read or write a row by id knows the id.
ArgTyped ==
    \A p \in Procs : pc[p] \in HasJob \/ after[p] = "claimRead" => arg[p] \in Jobs

TypeInv == TypeOK /\ ArgTyped

LEMMA InitType == Init => TypeInv
  BY NullAssumption, BoundAssumption
     DEF Init, TypeInv, TypeOK, ArgTyped, NoRow, NoReq, Row, JobState, Finished,
         Claimable, PC, HasJob, Working

\* One lemma per group of actions: the type invariant survives each of them.
LEMMA EnqueueType ==
  ASSUME TypeInv, NEW p \in Procs,
         \/ \E k \in Keys \cup {Null}, i \in Inputs : StartEnqueue(p, k, i)
         \/ StartList(p) \/ RecoverScan(p) \/ LookupKey(p) \/ JobAccepted(p)
  PROVE  TypeInv'
<1> USE DEF TypeInv, TypeOK, ArgTyped, HasJob, Working, PC, NoReq,
            rows, local, bounds, Goto, Forget, BecomeWorker
<1>1. CASE \E k \in Keys \cup {Null}, i \in Inputs : StartEnqueue(p, k, i)
  BY <1>1 DEF StartEnqueue
<1>2. CASE StartList(p)
  BY <1>2 DEF StartList
<1>3. CASE RecoverScan(p)
  BY <1>3 DEF RecoverScan, AbandonedJobs
<1>4. CASE LookupKey(p)
  <2>1. CASE Goto(p, "insert") /\ UNCHANGED <<req, arg, after>>
    BY <1>4, <2>1 DEF LookupKey
  <2>2. CASE Forget(p) /\ Goto(p, "done") /\ UNCHANGED <<arg, after>>
    BY <1>4, <2>2 DEF LookupKey
  <2>3. CASE Forget(p) /\ \E j \in Jobs : BecomeWorker(p, j)
    BY <1>4, <2>3 DEF LookupKey
  <2>4. QED  BY <1>4, <2>1, <2>2, <2>3 DEF LookupKey
<1>5. CASE JobAccepted(p)
  <2>1. arg[p] \in Jobs
    BY <1>5 DEF JobAccepted
  <2>2. CASE Goto(p, "done") /\ UNCHANGED <<arg, after>>
    BY <1>5, <2>2 DEF JobAccepted
  <2>3. CASE BecomeWorker(p, arg[p])
    BY <1>5, <2>1, <2>3 DEF JobAccepted
  <2>4. QED  BY <1>5, <2>2, <2>3 DEF JobAccepted
<1>6. QED  BY <1>1, <1>2, <1>3, <1>4, <1>5

\* What each UPDATE writes is a row again.
LEMMA RowWrites ==
  ASSUME NEW r \in Row
  PROVE  /\ \A s \in JobState : Release(r, s) \in Row
         /\ \A p \in Procs : Claimed(r, p) \in Row
         /\ Renew(r) \in Row /\ Requeue(r) \in Row /\ Expire(r) \in Row
         /\ CancelNow(r) \in Row /\ AskCancel(r) \in Row
         /\ Outcome(r) \in JobState \cap EventType
<1> USE DEF Row, JobState, Finished, Claimable
<1>1. \A s \in JobState : Release(r, s) \in Row
  BY DEF Release
<1>2. ASSUME NEW p \in Procs
      PROVE  Claimed(r, p) \in Row
  <2>1. r.attempt + 1 \in Nat
    <3>1. r.attempt \in Nat
      OBVIOUS
    <3>2. QED  BY <3>1
  <2>2. [r EXCEPT !.attempt = @ + 1] \in Row
    BY <2>1
  <2>3. QED  BY <2>2, <2>1 DEF Claimed
<1>3. Renew(r) \in Row /\ Expire(r) \in Row
  BY DEF Renew, Expire
<1>4. Requeue(r) \in Row /\ CancelNow(r) \in Row /\ AskCancel(r) \in Row
  BY DEF Requeue, CancelNow, AskCancel
<1>5. Outcome(r) \in JobState \cap EventType
  BY DEF Outcome, EventType
<1>6. QED  BY <1>1, <1>2, <1>3, <1>4, <1>5 DEF Row

LEMMA AcceptedIsRow ==
  ASSUME NEW q \in [key : Keys \cup {Null}, input : Inputs \cup {Null}]
  PROVE  Accepted(q) \in Row
  BY DEF Row, Accepted, NoRow, JobState, Finished, Claimable

LEMMA AppendTyped ==
  ASSUME events \in [Jobs -> Seq(Event)], NEW j \in Jobs,
         NEW type \in EventType, NEW state \in JobState, AppendEvent(j, type, state)
  PROVE  events' \in [Jobs -> Seq(Event)]
<1>1. [type |-> type, state |-> state] \in Event
  BY DEF Event
<1>2. Append(events[j], [type |-> type, state |-> state]) \in Seq(Event)
  BY <1>1
<1>3. QED  BY <1>2 DEF AppendEvent

LEMMA StatesAreNamed ==
  /\ {"queued", "waiting", "running", "succeeded", "cancelled"} \subseteq JobState
  /\ EventType = {"queued", "started", "progress", "completed", "failed",
                  "cancelled", "cancel_requested", "retried", "lease_expired"}
  BY DEF JobState, Finished, Claimable, EventType

LEMMA TransactionType ==
  ASSUME TypeInv, NEW p \in Procs,
         \/ RecoverWrite(p) \/ InsertJob(p) \/ ClaimWrite(p) \/ CompleteWrite(p)
         \/ Dispatch(p) \/ ReportWrite(p) \/ FailWrite(p) \/ CancelWrite(p) \/ RetryWrite(p)
  PROVE  TypeInv'
<1> USE DEF TypeInv, TypeOK, ArgTyped, HasJob, Working, PC, rows, local, bounds, Goto
<1>1. CASE RecoverWrite(p)
  <2>1. RecoveryEvent \in Event
    BY StatesAreNamed DEF RecoveryEvent, Event
  <2>2. job' \in [Jobs -> Row]
    BY <1>1, RowWrites, StatesAreNamed DEF RecoverWrite
  <2>3. events' \in [Jobs -> Seq(Event)]
    BY <1>1, <2>1 DEF RecoverWrite
  <2>4. QED  BY <1>1, <2>2, <2>3 DEF RecoverWrite
<1>2. CASE InsertJob(p)
  <2>1. CASE UNCHANGED <<rows, arg>> /\ Goto(p, "done")
    BY <1>2, <2>1 DEF InsertJob, Forget, NoReq
  <2>2. ASSUME NEW j \in Jobs, job' = [job EXCEPT ![j] = Accepted(req[p])],
               AppendEvent(j, "queued", "queued"), arg' = [arg EXCEPT ![p] = j],
               Goto(p, "accepted")
        PROVE  TypeInv'
    <3>1. job' \in [Jobs -> Row]
      BY <2>2, AcceptedIsRow
    <3>2. events' \in [Jobs -> Seq(Event)]
      BY <2>2, AppendTyped, StatesAreNamed
    <3>3. QED  BY <1>2, <2>2, <3>1, <3>2 DEF InsertJob, Forget, NoReq
  <2>3. QED  BY <1>2, <2>1, <2>2 DEF InsertJob
<1>3. CASE ClaimWrite(p)
  <2>1. arg[p] \in Jobs
    BY <1>3 DEF ClaimWrite
  <2>2. CASE CanClaim(arg[p])
    <3>1. job' \in [Jobs -> Row]
      <4>1. job[arg[p]] \in Row
        BY <2>1
      <4>2. Claimed(job[arg[p]], p) \in Row
        BY <4>1, RowWrites
      <4>3. job' = [job EXCEPT ![arg[p]] = Claimed(job[arg[p]], p)]
        BY <1>3, <2>2 DEF ClaimWrite
      <4>4. QED  BY <2>1, <4>2, <4>3
    <3>2. events' \in [Jobs -> Seq(Event)]
      BY <1>3, <2>1, <2>2, AppendTyped, StatesAreNamed DEF ClaimWrite
    <3>3. since' \in [Procs -> Nat]
      <4>1. Len(events[arg[p]]) + 1 \in Nat
        BY <2>1
      <4>2. since' = [since EXCEPT ![p] = Len(events[arg[p]]) + 1]
        BY <1>3, <2>2 DEF ClaimWrite
      <4>3. QED  BY <4>1, <4>2
    <3>4. QED  BY <1>3, <2>2, <3>1, <3>2, <3>3 DEF ClaimWrite
  <2>3. CASE ~CanClaim(arg[p])
    BY <1>3, <2>3 DEF ClaimWrite
  <2>4. QED  BY <2>2, <2>3
<1>4. CASE CompleteWrite(p)
  <2>1. arg[p] \in Jobs
    BY <1>4 DEF CompleteWrite
  <2>2. job' \in [Jobs -> Row]
    BY <1>4, <2>1, RowWrites, StatesAreNamed DEF CompleteWrite
  <2>3. events' \in [Jobs -> Seq(Event)]
    BY <1>4, <2>1, AppendTyped, StatesAreNamed DEF CompleteWrite
  <2>4. QED  BY <1>4, <2>2, <2>3 DEF CompleteWrite
<1>5. CASE Dispatch(p) \/ ReportWrite(p)
  <2>1. arg[p] \in Jobs
    BY <1>5 DEF Dispatch, ReportWrite, Progress
  <2>2. job' \in [Jobs -> Row]
    <3>1. job[arg[p]] \in Row
      BY <2>1
    <3>2. Renew(job[arg[p]]) \in Row
      BY <3>1, RowWrites
    <3>3. QED  BY <1>5, <2>1, <3>2 DEF Dispatch, ReportWrite, Progress
  <2>3. events' \in [Jobs -> Seq(Event)]
    BY <1>5, <2>1, AppendTyped, StatesAreNamed DEF Dispatch, ReportWrite, Progress
  <2>4. QED  BY <1>5, <2>2, <2>3 DEF Dispatch, ReportWrite, Progress
<1>6. CASE FailWrite(p)
  <2>1. arg[p] \in Jobs /\ Outcome(seen[p]) \in JobState \cap EventType
    BY <1>6, RowWrites DEF FailWrite
  <2>2. job' \in [Jobs -> Row]
    BY <1>6, <2>1, RowWrites DEF FailWrite
  <2>3. events' \in [Jobs -> Seq(Event)]
    BY <1>6, <2>1, AppendTyped DEF FailWrite
  <2>4. QED  BY <1>6, <2>2, <2>3 DEF FailWrite
<1>7. CASE CancelWrite(p)
  <2>1. arg[p] \in Jobs
    BY <1>7 DEF CancelWrite
  <2>2. job' \in [Jobs -> Row]
    <3>1. job[arg[p]] \in Row
      BY <2>1
    <3>2. CancelNow(job[arg[p]]) \in Row /\ AskCancel(job[arg[p]]) \in Row
      BY <3>1, RowWrites
    <3>3. QED  BY <1>7, <2>1, <3>2 DEF CancelWrite
  <2>3. events' \in [Jobs -> Seq(Event)]
    BY <1>7, <2>1, AppendTyped, StatesAreNamed DEF CancelWrite
  <2>4. QED  BY <1>7, <2>2, <2>3 DEF CancelWrite
<1>8. CASE RetryWrite(p)
  <2>1. arg[p] \in Jobs
    BY <1>8 DEF RetryWrite
  <2>2. job' \in [Jobs -> Row]
    BY <1>8, <2>1, RowWrites DEF RetryWrite
  <2>3. events' \in [Jobs -> Seq(Event)]
    BY <1>8, <2>1, AppendTyped, StatesAreNamed DEF RetryWrite
  <2>4. QED  BY <1>8, <2>1, <2>2, <2>3 DEF RetryWrite, BecomeWorker
<1>9. QED  BY <1>1, <1>2, <1>3, <1>4, <1>5, <1>6, <1>7, <1>8

LEMMA ReadType ==
  ASSUME TypeInv, NEW p \in Procs,
         \/ ClaimRead(p) \/ ReportRead(p) \/ OperationReturns(p) \/ OperationThrows(p)
         \/ CancelCheck(p) \/ FailRead(p) \/ \E j \in Jobs : StartCancel(p, j) \/ StartRetry(p, j)
  PROVE  TypeInv'
<1> USE DEF TypeInv, TypeOK, ArgTyped, HasJob, Working, PC, rows, local, bounds, Goto
<1>1. CASE ClaimRead(p)
  BY <1>1 DEF ClaimRead
<1>2. CASE ReportRead(p)
  BY <1>2 DEF ReportRead
<1>3. CASE OperationReturns(p)
  BY <1>3 DEF OperationReturns
<1>4. CASE OperationThrows(p)
  BY <1>4 DEF OperationThrows
<1>5. CASE CancelCheck(p)
  BY <1>5 DEF CancelCheck
<1>6. CASE FailRead(p)
  BY <1>6 DEF FailRead
<1>7. ASSUME NEW j \in Jobs, StartCancel(p, j)
      PROVE  TypeInv'
  BY <1>7 DEF StartCancel
<1>8. ASSUME NEW j \in Jobs, StartRetry(p, j)
      PROVE  TypeInv'
  BY <1>8, BoundAssumption DEF StartRetry
<1>9. QED  BY <1>1, <1>2, <1>3, <1>4, <1>5, <1>6, <1>7, <1>8

LEMMA EnvironmentType ==
  ASSUME TypeInv, (\E p \in Procs : Crash(p)) \/ (\E j \in Jobs : LeaseExpires(j))
  PROVE  TypeInv'
<1> USE BoundAssumption DEF TypeInv, TypeOK, ArgTyped, HasJob, Working, PC,
            rows, local, bounds, Goto
<1>1. ASSUME NEW p \in Procs, Crash(p)
      PROVE  TypeInv'
  BY <1>1 DEF Crash
<1>2. ASSUME NEW j \in Jobs, LeaseExpires(j)
      PROVE  TypeInv'
  <2>1. Expire(job[j]) \in Row
    <3>1. job[j] \in Row
      BY <1>2
    <3>2. QED  BY <3>1, RowWrites
  <2>2. job' \in [Jobs -> Row]
    BY <1>2, <2>1 DEF LeaseExpires
  <2>3. QED  BY <1>2, <2>2 DEF LeaseExpires
<1>3. QED  BY <1>1, <1>2

LEMMA StepType == TypeInv /\ [Next]_vars => TypeInv'
<1> SUFFICES ASSUME TypeInv, [Next]_vars PROVE TypeInv'
  OBVIOUS
<1>1. CASE UNCHANGED vars
  BY <1>1 DEF vars, TypeInv, TypeOK, ArgTyped
<1>2. ASSUME NEW p \in Procs, Step(p) \/ Start(p)
      PROVE  TypeInv'
  BY <1>2, EnqueueType, TransactionType, ReadType DEF Step, Start
<1>3. QED  BY <1>1, <1>2, EnvironmentType DEF Next

LEMMA TypeInvariant == Spec => []TypeInv
<1>1. QED  BY InitType, StepType, PTL DEF Spec

\* Type correctness of every reachable state, for any number of processes.
THEOREM TypeCorrect == Spec => []TypeOK
<1>1. TypeInv => TypeOK
  BY DEF TypeInv
<1>2. QED  BY <1>1, TypeInvariant, PTL

-----------------------------------------------------------------------------
(* Ownership.  The induction needs the position a worker remembers to lie  *)
(* inside the history, so that whatever is appended lies after it.         *)

SinceBound ==
    \A p \in Procs : pc[p] \in Working => since[p] <= Len(events[arg[p]])

OwnInv == SinceBound /\ OwnershipLossIsLogged

\* A history only grows at its end.
Extended(j) ==
    /\ Len(events[j]) <= Len(events'[j])
    /\ \A i \in 1 .. Len(events[j]) : events'[j][i] = events[j][i]

\* If the owner of a running row loses it, the last event says so.
Handover(j) ==
    job[j].state = "running" =>
      \/ job'[j].state = "running" /\ job'[j].owner = job[j].owner
      \/ /\ Len(events[j]) < Len(events'[j])
         /\ events'[j][Len(events'[j])].state # "running"

StillWorking(p) ==
    pc'[p] \in Working =>
      pc[p] \in Working /\ arg'[p] = arg[p] /\ since'[p] = since[p]

OwnOK(p) ==
    pc[p] \in Working =>
      since[p] <= Len(events[arg[p]]) /\ (HeldBy(p) \/ LossLogged(p))

LEMMA OwnPreserved ==
  ASSUME TypeInv, TypeInv', OwnInv, NEW p \in Procs, StillWorking(p),
         \A j \in Jobs : Extended(j) /\ Handover(j)
  PROVE  OwnOK(p)'
<1> SUFFICES ASSUME pc'[p] \in Working
             PROVE  /\ since'[p] <= Len(events'[arg'[p]])
                    /\ HeldBy(p)' \/ LossLogged(p)'
  BY DEF OwnOK
<1> DEFINE j == arg[p]
<1>1. /\ pc[p] \in Working /\ arg'[p] = j /\ since'[p] = since[p]
      /\ j \in Jobs
  BY DEF StillWorking, TypeInv, ArgTyped, HasJob
<1>2. /\ since[p] \in Nat /\ since[p] <= Len(events[j])
      /\ Len(events[j]) \in Nat /\ Len(events'[j]) \in Nat
  BY <1>1 DEF OwnInv, SinceBound, TypeInv, TypeOK
<1>3. Extended(j) /\ Handover(j)
  BY <1>1
<1>4. since[p] <= Len(events'[j])
  BY <1>2, <1>3 DEF Extended
<1>5. CASE LossLogged(p)
  <2>1. PICK i \in 1 .. Len(events[j]) : i > since[p] /\ events[j][i].state # "running"
    BY <1>5 DEF LossLogged
  <2>2. i \in 1 .. Len(events'[j]) /\ events'[j][i] = events[j][i]
    BY <1>2, <1>3, <2>1 DEF Extended
  <2>3. LossLogged(p)'
    BY <1>1, <2>1, <2>2 DEF LossLogged
  <2>4. QED  BY <1>1, <1>4, <2>3
<1>6. CASE HeldBy(p)
  <2>1. CASE job'[j].state = "running" /\ job'[j].owner = job[j].owner
    BY <1>1, <1>4, <1>6, <2>1 DEF HeldBy
  <2>2. CASE /\ Len(events[j]) < Len(events'[j])
             /\ events'[j][Len(events'[j])].state # "running"
    <3>1. Len(events'[j]) \in 1 .. Len(events'[j]) /\ Len(events'[j]) > since[p]
      BY <1>2, <2>2
    <3>2. LossLogged(p)'
      BY <1>1, <2>2, <3>1 DEF LossLogged
    <3>3. QED  BY <1>1, <1>4, <3>2
  <2>3. QED  BY <1>3, <1>6, <2>1, <2>2 DEF Handover, HeldBy
<1>7. QED  BY <1>1, <1>5, <1>6 DEF OwnInv, OwnershipLossIsLogged

LEMMA AppendExtends ==
  ASSUME TypeInv, NEW j \in Jobs, NEW type, NEW state, AppendEvent(j, type, state)
  PROVE  /\ \A k \in Jobs : Extended(k)
         /\ \A k \in Jobs \ {j} : events'[k] = events[k]
         /\ Len(events'[j]) = Len(events[j]) + 1
         /\ Len(events[j]) < Len(events'[j])
         /\ events'[j][Len(events'[j])].state = state
<1> USE DEF TypeInv, TypeOK
<1>1. /\ events[j] \in Seq(Event) /\ Len(events[j]) \in Nat
      /\ events'[j] = Append(events[j], [type |-> type, state |-> state])
      /\ \A k \in Jobs \ {j} : events'[k] = events[k]
  BY DEF AppendEvent
<1>2. /\ Len(events'[j]) = Len(events[j]) + 1
      /\ events'[j][Len(events[j]) + 1] = [type |-> type, state |-> state]
      /\ \A i \in 1 .. Len(events[j]) : events'[j][i] = events[j][i]
  BY <1>1
<1>3. \A k \in Jobs : Len(events[k]) \in Nat
  OBVIOUS
<1>4. ASSUME NEW k \in Jobs
      PROVE  Extended(k)
  <2>1. CASE k = j
    <3>1. Len(events[j]) <= Len(events'[j])
      BY <1>1, <1>2
    <3>2. QED  BY <1>2, <2>1, <3>1 DEF Extended
  <2>2. CASE k # j
    BY <1>1, <1>3, <2>2 DEF Extended
  <2>3. QED  BY <2>1, <2>2
<1>5. QED  BY <1>1, <1>2, <1>3, <1>4

LEMMA SameRows ==
  ASSUME TypeInv, UNCHANGED rows
  PROVE  \A j \in Jobs : Extended(j) /\ Handover(j)
  BY DEF rows, Extended, Handover, TypeInv, TypeOK

\* Every statement but the claim, each time with the row it writes.
LEMMA StepsHandOver ==
  ASSUME TypeInv, NEW p \in Procs,
         \/ RecoverWrite(p) \/ InsertJob(p) \/ CompleteWrite(p) \/ Dispatch(p)
         \/ ReportWrite(p) \/ FailWrite(p) \/ CancelWrite(p) \/ RetryWrite(p)
  PROVE  \A j \in Jobs : Extended(j) /\ Handover(j)
<1> USE DEF TypeInv, TypeOK
<1>1. CASE RecoverWrite(p)
  <2> SUFFICES ASSUME NEW j \in Jobs PROVE Extended(j) /\ Handover(j)
    OBVIOUS
  <2>1. events[j] \in Seq(Event) /\ Len(events[j]) \in Nat
    OBVIOUS
  <2>2. CASE j \in abandoned[p]
    <3>1. events'[j] = Append(events[j], RecoveryEvent)
      BY <1>1, <2>2 DEF RecoverWrite
    <3>2. /\ Len(events'[j]) = Len(events[j]) + 1
          /\ events'[j][Len(events[j]) + 1] = RecoveryEvent
          /\ \A i \in 1 .. Len(events[j]) : events'[j][i] = events[j][i]
      BY <2>1, <3>1 DEF RecoveryEvent
    <3>3. QED  BY <2>1, <3>2 DEF Extended, Handover, RecoveryEvent
  <2>3. CASE j \notin abandoned[p]
    <3>1. events'[j] = events[j] /\ job'[j] = job[j]
      BY <1>1, <2>3 DEF RecoverWrite
    <3>2. QED  BY <2>1, <3>1 DEF Extended, Handover
  <2>4. QED  BY <2>2, <2>3
<1>2. CASE InsertJob(p)
  <2>1. CASE UNCHANGED rows
    BY <2>1, SameRows
  <2>2. ASSUME NEW j \in Jobs, job[j].state = "absent",
               job' = [job EXCEPT ![j] = Accepted(req[p])],
               AppendEvent(j, "queued", "queued")
        PROVE  \A k \in Jobs : Extended(k) /\ Handover(k)
    BY <2>2, AppendExtends DEF Handover
  <2>3. QED  BY <1>2, <2>1, <2>2 DEF InsertJob
<1>3. CASE CompleteWrite(p) \/ FailWrite(p) \/ CancelWrite(p) \/ RetryWrite(p)
           \/ Dispatch(p) \/ ReportWrite(p)
  <2> DEFINE j == arg[p]
  <2>1. j \in Jobs /\ job[j] \in Row
    <3>1. pc[p] \in HasJob
      BY <1>3 DEF CompleteWrite, FailWrite, CancelWrite, RetryWrite, Dispatch,
                  ReportWrite, Progress, HasJob, Working
    <3>2. QED  BY <3>1 DEF ArgTyped
  <2>2. ASSUME NEW type, NEW state, AppendEvent(j, type, state),
               \A k \in Jobs \ {j} : job'[k] = job[k],
               \/ job[j].state = "running" => job'[j].state = "running" /\ job'[j].owner = job[j].owner
               \/ state # "running"
        PROVE  \A k \in Jobs : Extended(k) /\ Handover(k)
    <3>1. /\ \A k \in Jobs : Extended(k)
          /\ Len(events[j]) < Len(events'[j])
          /\ events'[j][Len(events'[j])].state = state
      BY <2>1, <2>2, AppendExtends
    <3>2. Handover(j)
      BY <2>2, <3>1 DEF Handover
    <3>3. \A k \in Jobs \ {j} : Handover(k)
      BY <2>2 DEF Handover
    <3>4. QED  BY <3>1, <3>2, <3>3
  <2>3. CASE CompleteWrite(p)
    <3>1. AppendEvent(j, "completed", "succeeded") /\ \A k \in Jobs \ {j} : job'[k] = job[k]
      BY <1>3, <2>3 DEF CompleteWrite
    <3>2. QED  BY <2>2, <3>1
  <2>4. CASE FailWrite(p)
    <3>1. AppendEvent(j, Outcome(seen[p]), Outcome(seen[p])) /\ \A k \in Jobs \ {j} : job'[k] = job[k]
      BY <2>4 DEF FailWrite
    <3>2. Outcome(seen[p]) # "running"
      BY DEF Outcome
    <3>3. QED  BY <2>2, <3>1, <3>2
  <2>5. CASE CancelWrite(p)
    <3>1. CASE AppendEvent(j, "cancel_requested", "cancelled") /\ \A k \in Jobs \ {j} : job'[k] = job[k]
      BY <2>2, <3>1
    <3>2. CASE /\ AppendEvent(j, "cancel_requested", "running")
               /\ job' = [job EXCEPT ![j] = AskCancel(@)]
      <4>1. job'[j] = AskCancel(job[j]) /\ \A k \in Jobs \ {j} : job'[k] = job[k]
        BY <2>1, <3>2
      <4>2. job'[j].state = job[j].state /\ job'[j].owner = job[j].owner
        BY <2>1, <4>1 DEF AskCancel, Row
      <4>3. QED  BY <2>2, <3>2, <4>1, <4>2
    <3>3. QED  BY <2>5, <3>1, <3>2 DEF CancelWrite
  <2>6. CASE RetryWrite(p)
    <3>1. AppendEvent(j, "retried", "queued") /\ \A k \in Jobs \ {j} : job'[k] = job[k]
      BY <2>6 DEF RetryWrite
    <3>2. QED  BY <2>2, <3>1
  <2>7. CASE Dispatch(p) \/ ReportWrite(p)
    <3>1. /\ AppendEvent(j, "progress", "running")
          /\ job' = IF job[j].state = "running" THEN [job EXCEPT ![j] = Renew(@)] ELSE job
      BY <2>7 DEF Dispatch, ReportWrite, Progress
    <3>2. \A k \in Jobs \ {j} : job'[k] = job[k]
      BY <3>1
    <3>3. job[j].state = "running" => job'[j].state = "running" /\ job'[j].owner = job[j].owner
      <4>1. Renew(job[j]).state = job[j].state /\ Renew(job[j]).owner = job[j].owner
        BY <2>1 DEF Renew, Row
      <4>2. QED  BY <2>1, <3>1, <4>1
    <3>4. QED  BY <2>2, <3>1, <3>2, <3>3
  <2>8. QED  BY <1>3, <2>3, <2>4, <2>5, <2>6, <2>7
<1>4. QED  BY <1>1, <1>2, <1>3

\* The claim hands a row over only when nobody runs it.
LEMMA ClaimHandsOver ==
  ASSUME TypeInv, TypeInv', NEW p \in Procs, ClaimWrite(p)
  PROVE  /\ \A j \in Jobs : Extended(j) /\ Handover(j)
         /\ OwnOK(p)'
<1> DEFINE j == arg[p]
<1>1. j \in Jobs /\ job[j] \in Row
  BY DEF ClaimWrite, TypeInv, TypeOK, ArgTyped, HasJob
<1>2. CASE CanClaim(j)
  <2>1. /\ job' = [job EXCEPT ![j] = Claimed(@, p)]
        /\ AppendEvent(j, "started", "running")
        /\ since' = [since EXCEPT ![p] = Len(events[j]) + 1]
        /\ arg' = arg
    BY <1>2 DEF ClaimWrite, local
  <2>2. job[j].state # "running"
    BY <1>2 DEF CanClaim, Claimable
  <2>3. \A k \in Jobs : Extended(k) /\ Handover(k)
    BY <1>1, <2>1, <2>2, AppendExtends DEF Handover
  <2>4. since'[p] = Len(events'[j])
    BY <1>1, <2>1, AppendExtends DEF TypeInv, TypeOK
  <2>5. since'[p] <= Len(events'[arg'[p]])
    BY <1>1, <2>1, <2>4 DEF TypeInv, TypeOK
  <2>6. HeldBy(p)'
    <3>1. Claimed(job[j], p).state = "running" /\ Claimed(job[j], p).owner = p
      BY <1>1 DEF Claimed, Row
    <3>2. job'[j] = Claimed(job[j], p)
      BY <1>1, <2>1 DEF TypeInv, TypeOK
    <3>3. QED  BY <2>1, <3>1, <3>2 DEF HeldBy
  <2>7. QED  BY <2>3, <2>5, <2>6 DEF OwnOK
<1>3. CASE ~CanClaim(j)
  <2>1. UNCHANGED rows /\ pc'[p] \notin Working
    BY <1>3 DEF ClaimWrite, Goto, TypeInv, TypeOK, Working
  <2>2. QED  BY <2>1, SameRows DEF OwnOK
<1>4. QED  BY <1>2, <1>3

LEMMA InitOwn == Init => OwnInv
  BY DEF Init, OwnInv, SinceBound, OwnershipLossIsLogged, Working

\* The processes a step does not move keep their place, and only the claim
\* brings a process into the set Working.
LEMMA StepKeepsOwn ==
  ASSUME TypeInv, TypeInv', OwnInv, NEW p \in Procs, Step(p) \/ Start(p) \/ Crash(p)
  PROVE  \A q \in Procs : OwnOK(q)'
<1> USE DEF TypeInv, TypeOK
<1>1. CASE ClaimWrite(p)
  <2>1. \A q \in Procs \ {p} : StillWorking(q)
    BY <1>1 DEF ClaimWrite, StillWorking, Goto
  <2>2. QED  BY <1>1, <2>1, ClaimHandsOver, OwnPreserved
<1>2. CASE \/ RecoverWrite(p) \/ InsertJob(p) \/ CompleteWrite(p) \/ Dispatch(p)
           \/ ReportWrite(p) \/ FailWrite(p) \/ CancelWrite(p) \/ RetryWrite(p)
  <2>1. \A q \in Procs : StillWorking(q)
    BY SMTT(30), <1>2 DEF RecoverWrite, InsertJob, CompleteWrite, Dispatch, ReportWrite, Progress,
                FailWrite, CancelWrite, RetryWrite, StillWorking, Working, Goto, local, BecomeWorker
  <2>2. QED  BY <1>2, <2>1, StepsHandOver, OwnPreserved
<1>3. CASE \/ RecoverScan(p) \/ LookupKey(p) \/ JobAccepted(p) \/ ClaimRead(p)
           \/ ReportRead(p) \/ OperationReturns(p) \/ OperationThrows(p)
           \/ CancelCheck(p) \/ FailRead(p) \/ Start(p) \/ Crash(p)
  <2>1. UNCHANGED rows
    BY <1>3 DEF RecoverScan, LookupKey, JobAccepted, ClaimRead, ReportRead, OperationReturns,
                OperationThrows, CancelCheck, FailRead, Start, StartEnqueue, StartList,
                StartCancel, StartRetry, Crash
  <2>2. \A q \in Procs : StillWorking(q)
    <3> USE DEF StillWorking, Working, Goto, local
    <3>1. CASE RecoverScan(p) \/ ClaimRead(p) \/ Crash(p)
      BY <3>1 DEF RecoverScan, ClaimRead, Crash
    <3>2. CASE LookupKey(p) \/ JobAccepted(p)
      <4>1. /\ pc'[p] \notin Working
            /\ \A q \in Procs \ {p} : pc'[q] = pc[q] /\ arg'[q] = arg[q]
            /\ since' = since
        <5>1. CASE LookupKey(p)
          BY SMTT(30), <5>1 DEF LookupKey, BecomeWorker
        <5>2. CASE JobAccepted(p)
          BY <5>2 DEF JobAccepted, BecomeWorker
        <5>3. QED  BY <3>2, <5>1, <5>2
      <4>2. QED  BY <4>1
    <3>3. CASE \/ ReportRead(p) \/ OperationReturns(p) \/ OperationThrows(p)
               \/ CancelCheck(p) \/ FailRead(p)
      BY <3>3 DEF ReportRead, OperationReturns, OperationThrows, CancelCheck, FailRead
    <3>4. CASE Start(p)
      BY <3>4 DEF Start, StartEnqueue, StartList, StartCancel, StartRetry
    <3>5. QED  BY <1>3, <3>1, <3>2, <3>3, <3>4
  <2>3. QED  BY <2>1, <2>2, SameRows, OwnPreserved
<1>4. QED  BY <1>1, <1>2, <1>3 DEF Step

LEMMA StepOwn == TypeInv /\ TypeInv' /\ OwnInv /\ [Next]_vars => OwnInv'
<1> SUFFICES ASSUME TypeInv, TypeInv', OwnInv, [Next]_vars
             PROVE  \A p \in Procs : OwnOK(p)'
  BY DEF OwnOK, OwnInv, SinceBound, OwnershipLossIsLogged
<1>1. ASSUME NEW p \in Procs, Step(p) \/ Start(p) \/ Crash(p)
      PROVE  \A q \in Procs : OwnOK(q)'
  BY <1>1, StepKeepsOwn
<1>2. ASSUME NEW j \in Jobs, LeaseExpires(j)
      PROVE  \A q \in Procs : OwnOK(q)'
  <2>1. \A q \in Procs : StillWorking(q)
    BY <1>2 DEF LeaseExpires, StillWorking, local
  <2>2. \A k \in Jobs : Extended(k) /\ Handover(k)
    <3>1. Expire(job[j]).state = job[j].state /\ Expire(job[j]).owner = job[j].owner
      BY <1>2 DEF TypeInv, TypeOK, Row, Expire
    <3>2. events' = events /\ job' = [job EXCEPT ![j] = Expire(@)]
      BY <1>2 DEF LeaseExpires
    <3>3. QED  BY <3>1, <3>2 DEF Extended, Handover, TypeInv, TypeOK
  <2>3. QED  BY <2>1, <2>2, OwnPreserved
<1>3. CASE UNCHANGED vars
  <2>1. UNCHANGED rows /\ \A q \in Procs : StillWorking(q)
    BY <1>3 DEF vars, rows, StillWorking
  <2>2. QED  BY <2>1, SameRows, OwnPreserved
<1>4. QED  BY <1>1, <1>2, <1>3 DEF Next

\* No worker ever loses its job without the job's history saying so.
THEOREM OwnershipLossLogged == Spec => []OwnershipLossIsLogged
<1>1. OwnInv => OwnershipLossIsLogged
  BY DEF OwnInv
<1>2. QED  BY <1>1, InitOwn, StepOwn, TypeInvariant, PTL DEF Spec

-----------------------------------------------------------------------------
(* Grants.  Every step gives some jobs a grant, starts one job, or does    *)
(* neither; the induction needs that a row not yet inserted has no attempt.*)

Unstarted == \A j \in Jobs : job[j].state = "absent" => job[j].attempt = 0

GrantInv == EveryAttemptIsPaidFor /\ Unstarted

NumGrants(j)  == CountEvents(j, GrantTypes)
NumStarts(j)  == CountEvents(j, {"started"})

\* How one job fares in a step.
Idles(j) ==
    /\ NumGrants(j)' = NumGrants(j) /\ NumStarts(j)' = NumStarts(j)
    /\ job'[j].attempt = job[j].attempt /\ Due(j)' <= Due(j)
    /\ job'[j].state = "absent" => job[j].state = "absent"
IsGranted(j) ==
    /\ NumGrants(j)' = NumGrants(j) + 1 /\ NumStarts(j)' = NumStarts(j)
    /\ job'[j].attempt = job[j].attempt /\ job'[j].state # "absent"
IsStarted(j) ==
    /\ NumGrants(j)' = NumGrants(j) /\ NumStarts(j)' = NumStarts(j) + 1
    /\ job'[j].attempt = job[j].attempt + 1 /\ Due(j) = 1 /\ Due(j)' = 0
    /\ job'[j].state # "absent"

LEMMA CountType ==
  ASSUME TypeInv, NEW j \in Jobs, NEW T
  PROVE  CountEvents(j, T) \in Nat
<1>1. IsFiniteSet(1 .. Len(events[j]))
  BY FS_Interval DEF TypeInv, TypeOK
<1>2. IsFiniteSet({i \in 1 .. Len(events[j]) : events[j][i].type \in T})
  BY <1>1, FS_Subset
<1>3. QED  BY <1>2, FS_CardinalityType DEF CountEvents

\* An appended event is counted once, or not at all.
LEMMA CountAppend ==
  ASSUME TypeInv, NEW j \in Jobs, NEW e \in Event, NEW T,
         events'[j] = Append(events[j], e)
  PROVE  /\ e.type \in T => CountEvents(j, T)' = CountEvents(j, T) + 1
         /\ e.type \notin T => CountEvents(j, T)' = CountEvents(j, T)
<1> DEFINE n == Len(events[j])
           S == {i \in 1 .. n : events[j][i].type \in T}
           S1 == {i \in 1 .. Len(events'[j]) : events'[j][i].type \in T}
<1>1. events[j] \in Seq(Event) /\ n \in Nat
  BY DEF TypeInv, TypeOK
<1>2. /\ Len(events'[j]) = n + 1 /\ events'[j][n + 1] = e
      /\ \A i \in 1 .. n : events'[j][i] = events[j][i]
  BY <1>1
<1>3. 1 .. (n + 1) = (1 .. n) \cup {n + 1} /\ (n + 1) \notin 1 .. n
  BY <1>1
<1>4. IsFiniteSet(S) /\ Cardinality(S) \in Nat
  <2>1. IsFiniteSet(1 .. n)
    BY <1>1, FS_Interval
  <2>2. S \in SUBSET (1 .. n)
    OBVIOUS
  <2>3. IsFiniteSet(S)
    BY <2>1, <2>2, FS_Subset
  <2>4. QED  BY <2>3, FS_CardinalityType
<1>5. (n + 1) \notin S
  BY <1>3
<1>6. CountEvents(j, T) = Cardinality(S) /\ CountEvents(j, T)' = Cardinality(S1)
  BY DEF CountEvents
<1>7. CASE e.type \in T
  <2>1. S1 = S \cup {n + 1}
    BY <1>2, <1>3, <1>7
  <2>2. Cardinality(S1) = Cardinality(S) + 1
    BY <1>4, <1>5, <2>1, FS_AddElement
  <2>3. QED  BY <1>6, <1>7, <2>2
<1>8. CASE e.type \notin T
  <2>1. S1 = S
    BY <1>2, <1>3, <1>8
  <2>2. QED  BY <1>6, <1>8, <2>1
<1>9. QED  BY <1>7, <1>8

\* The same for a command's one event; the other jobs' counts stay.
LEMMA CountCommand ==
  ASSUME TypeInv, NEW j \in Jobs, NEW type \in EventType, NEW state \in JobState,
         AppendEvent(j, type, state)
  PROVE  /\ type \in GrantTypes => NumGrants(j)' = NumGrants(j) + 1
         /\ type \notin GrantTypes => NumGrants(j)' = NumGrants(j)
         /\ type = "started" => NumStarts(j)' = NumStarts(j) + 1
         /\ type # "started" => NumStarts(j)' = NumStarts(j)
         /\ \A k \in Jobs \ {j} : NumGrants(k)' = NumGrants(k) /\ NumStarts(k)' = NumStarts(k)
<1> DEFINE e == [type |-> type, state |-> state]
<1>1. e \in Event /\ e.type = type
  BY DEF Event
<1>2. /\ events'[j] = Append(events[j], e)
      /\ \A k \in Jobs \ {j} : events'[k] = events[k]
  BY DEF AppendEvent, TypeInv, TypeOK
<1>3. /\ type \in GrantTypes => NumGrants(j)' = NumGrants(j) + 1
      /\ type \notin GrantTypes => NumGrants(j)' = NumGrants(j)
  BY <1>1, <1>2, CountAppend DEF NumGrants
<1>4. /\ type \in {"started"} => NumStarts(j)' = NumStarts(j) + 1
      /\ type \notin {"started"} => NumStarts(j)' = NumStarts(j)
  BY <1>1, <1>2, CountAppend DEF NumStarts
<1>5. \A k \in Jobs \ {j} : NumGrants(k)' = NumGrants(k) /\ NumStarts(k)' = NumStarts(k)
  BY <1>2 DEF NumGrants, NumStarts, CountEvents
<1>6. QED  BY <1>3, <1>4, <1>5

LEMMA QuietJobs ==
  ASSUME TypeInv, NEW j \in Jobs, events'[j] = events[j],
         job'[j].attempt = job[j].attempt, job'[j].state = job[j].state
  PROVE  Idles(j)
  BY DEF Idles, NumGrants, NumStarts, CountEvents, Due

\* Each step treats each job in one of the three ways.
LEMMA StepGrants ==
  ASSUME TypeInv, NEW p \in Procs,
         \/ InsertJob(p) \/ CompleteWrite(p) \/ Dispatch(p) \/ ReportWrite(p)
         \/ FailWrite(p) \/ CancelWrite(p) \/ RetryWrite(p) \/ ClaimWrite(p),
         GrantInv
  PROVE  \/ \A j \in Jobs : Idles(j)
         \/ \E j \in Jobs : /\ IsGranted(j) \/ IsStarted(j)
                            /\ \A k \in Jobs \ {j} : Idles(k)
<1> USE DEF TypeInv, TypeOK
<1> DEFINE Others(j) == \A k \in Jobs \ {j} : Idles(k)
<1>1. ASSUME NEW j \in Jobs, NEW type \in EventType, NEW state \in JobState,
             AppendEvent(j, type, state), \A k \in Jobs \ {j} : job'[k] = job[k]
      PROVE  Others(j)
  BY <1>1, CountCommand DEF Idles, Due
<1>2. CASE InsertJob(p)
  <2>1. CASE UNCHANGED rows
    BY <2>1, QuietJobs DEF rows
  <2>2. ASSUME NEW j \in Jobs, job[j].state = "absent",
               job' = [job EXCEPT ![j] = Accepted(req[p])],
               AppendEvent(j, "queued", "queued")
        PROVE  IsGranted(j) /\ Others(j)
    <3>1. /\ Accepted(req[p]).attempt = 0 /\ job[j].attempt = 0
          /\ Accepted(req[p]).state = "queued"
      BY <2>2 DEF Accepted, NoRow, GrantInv, Unstarted
    <3>2. /\ NumGrants(j)' = NumGrants(j) + 1
          /\ NumStarts(j)' = NumStarts(j)
      BY <2>2, CountCommand, StatesAreNamed DEF GrantTypes
    <3>3. IsGranted(j)
      BY <2>2, <3>1, <3>2 DEF IsGranted
    <3>4. QED  BY <1>1, <2>2, <3>3, StatesAreNamed
  <2>3. QED  BY <1>2, <2>1, <2>2 DEF InsertJob
<1>3. CASE ~InsertJob(p)
  <2>0. arg[p] \in Jobs
    <3>1. pc[p] \in HasJob
      BY <1>3 DEF CompleteWrite, FailWrite, CancelWrite, RetryWrite, Dispatch,
                  ReportWrite, Progress, ClaimWrite, HasJob, Working
    <3>2. QED  BY <3>1 DEF ArgTyped
  <2> PICK j \in Jobs : j = arg[p]
    BY <2>0
  <2>1. j \in Jobs /\ job[j] \in Row /\ job[j].attempt \in Nat
    BY DEF Row
  <2>2. ASSUME NEW type \in EventType \ (GrantTypes \cup {"started"}), NEW state \in JobState,
               AppendEvent(j, type, state), \A k \in Jobs \ {j} : job'[k] = job[k],
               job'[j].attempt = job[j].attempt,
               job'[j].state = job[j].state \/ job'[j].state \in Finished
        PROVE  \A k \in Jobs : Idles(k)
    <3>1. NumGrants(j)' = NumGrants(j) /\ NumStarts(j)' = NumStarts(j)
      BY <2>1, <2>2, CountCommand
    <3>2. Due(j)' <= Due(j)
      <4>1. CASE job'[j].state = job[j].state
        BY <4>1 DEF Due
      <4>2. CASE job'[j].state \in Finished
        <5>1. Due(j)' = 0 /\ Due(j) \in {0, 1}
          BY <4>2 DEF Due, Finished, Claimable
        <5>2. QED  BY <5>1
      <4>3. QED  BY <2>2, <4>1, <4>2
    <3>3. Idles(j)
      BY <2>2, <3>1, <3>2 DEF Idles, Finished
    <3>4. QED  BY <1>1, <2>1, <2>2, <3>3
  <2>3. CASE CompleteWrite(p)
    <3>1. /\ AppendEvent(j, "completed", "succeeded")
          /\ job' = IF job[j].state = "running"
                    THEN [job EXCEPT ![j] = Release(@, "succeeded")] ELSE job
      BY <2>3 DEF CompleteWrite
    <3>2. /\ Release(job[j], "succeeded").attempt = job[j].attempt
          /\ Release(job[j], "succeeded").state = "succeeded"
      BY <2>1 DEF Release, Row
    <3>3. QED  BY <2>1, <2>2, <3>1, <3>2, StatesAreNamed DEF GrantTypes, Finished
  <2>4. CASE FailWrite(p)
    <3> DEFINE s == Outcome(seen[p])
    <3>1. AppendEvent(j, s, s) /\ job' = [job EXCEPT ![j] = Release(@, s)]
      BY <2>4 DEF FailWrite
    <3>2. Release(job[j], s).attempt = job[j].attempt /\ Release(job[j], s).state = s
      BY <2>1 DEF Release, Row
    <3>3. s \in {"failed", "cancelled"}
      BY DEF Outcome
    <3>4. {"failed", "cancelled"} \subseteq JobState \cap (EventType \ (GrantTypes \cup {"started"}))
      BY DEF JobState, Finished, EventType, GrantTypes
    <3>5. QED  BY <2>1, <2>2, <3>1, <3>2, <3>3, <3>4 DEF Finished
  <2>5. CASE CancelWrite(p)
    <3>1. \/ /\ AppendEvent(j, "cancel_requested", "cancelled")
             /\ job' = [job EXCEPT ![j] = CancelNow(@)]
          \/ /\ AppendEvent(j, "cancel_requested", "running")
             /\ job' = [job EXCEPT ![j] = AskCancel(@)]
      BY <2>5 DEF CancelWrite
    <3>2. /\ CancelNow(job[j]).attempt = job[j].attempt /\ CancelNow(job[j]).state = "cancelled"
          /\ AskCancel(job[j]).attempt = job[j].attempt /\ AskCancel(job[j]).state = job[j].state
      BY <2>1 DEF CancelNow, AskCancel, Row
    <3>3. QED  BY <2>1, <2>2, <3>1, <3>2, StatesAreNamed DEF GrantTypes, Finished
  <2>6. CASE Dispatch(p) \/ ReportWrite(p)
    <3>1. /\ AppendEvent(j, "progress", "running")
          /\ job' = IF job[j].state = "running" THEN [job EXCEPT ![j] = Renew(@)] ELSE job
      BY <2>6 DEF Dispatch, ReportWrite, Progress
    <3>2. Renew(job[j]).attempt = job[j].attempt /\ Renew(job[j]).state = job[j].state
      BY <2>1 DEF Renew, Row
    <3>3. QED  BY <2>1, <2>2, <3>1, <3>2, StatesAreNamed DEF GrantTypes
  <2>7. CASE RetryWrite(p)
    <3>1. AppendEvent(j, "retried", "queued") /\ job' = [job EXCEPT ![j] = Requeue(@)]
      BY <2>7 DEF RetryWrite
    <3>2. Requeue(job[j]).attempt = job[j].attempt /\ Requeue(job[j]).state = "queued"
      BY <2>1 DEF Requeue, Row
    <3>3. /\ NumGrants(j)' = NumGrants(j) + 1
          /\ NumStarts(j)' = NumStarts(j)
      BY <2>1, <3>1, CountCommand, StatesAreNamed DEF GrantTypes
    <3>4. IsGranted(j)
      BY <2>1, <3>1, <3>2, <3>3 DEF IsGranted
    <3>5. QED  BY <1>1, <2>1, <3>1, <3>4, StatesAreNamed
  <2>8. CASE ClaimWrite(p) /\ CanClaim(j)
    <3>1. AppendEvent(j, "started", "running") /\ job' = [job EXCEPT ![j] = Claimed(@, p)]
      BY <2>8 DEF ClaimWrite
    <3>2. /\ Claimed(job[j], p).attempt = job[j].attempt + 1
          /\ Claimed(job[j], p).state = "running"
      BY <2>1 DEF Claimed, Row
    <3>3. NumGrants(j)' = NumGrants(j) /\ NumStarts(j)' = NumStarts(j) + 1
      BY <2>1, <3>1, CountCommand, StatesAreNamed DEF GrantTypes
    <3>4. Due(j) = 1 /\ Due(j)' = 0
      <4>1. job'[j].state = "running"
        BY <2>1, <3>1, <3>2
      <4>2. QED  BY <2>8, <4>1 DEF Due, CanClaim, Claimable
    <3>5. IsStarted(j)
      BY <2>1, <3>1, <3>2, <3>3, <3>4 DEF IsStarted
    <3>6. QED  BY <1>1, <2>1, <3>1, <3>5, StatesAreNamed
  <2>9. CASE ClaimWrite(p) /\ ~CanClaim(j)
    BY <2>9, QuietJobs DEF ClaimWrite, rows
  <2>10. QED  BY <1>3, <2>3, <2>4, <2>5, <2>6, <2>7, <2>8, <2>9
<1>4. QED  BY <1>2, <1>3

LEMMA RecoverGrants ==
  ASSUME TypeInv, NEW p \in Procs, RecoverWrite(p)
  PROVE  \A j \in Jobs : IF j \in abandoned[p] THEN IsGranted(j) ELSE Idles(j)
<1> SUFFICES ASSUME NEW j \in Jobs
             PROVE  IF j \in abandoned[p] THEN IsGranted(j) ELSE Idles(j)
  OBVIOUS
<1> USE DEF TypeInv, TypeOK
<1>1. CASE j \in abandoned[p]
  <2>1. job'[j] = Release(job[j], "waiting") /\ events'[j] = Append(events[j], RecoveryEvent)
    BY <1>1 DEF RecoverWrite
  <2>2. /\ Release(job[j], "waiting").attempt = job[j].attempt
        /\ Release(job[j], "waiting").state = "waiting"
    BY DEF Release, Row
  <2>3. RecoveryEvent \in Event /\ RecoveryEvent.type \in GrantTypes
        /\ RecoveryEvent.type \notin {"started"}
    BY StatesAreNamed DEF RecoveryEvent, Event, GrantTypes
  <2>4. NumGrants(j)' = NumGrants(j) + 1
    BY <2>1, <2>3, CountAppend DEF NumGrants
  <2>5. NumStarts(j)' = NumStarts(j)
    BY <2>1, <2>3, CountAppend DEF NumStarts
  <2>6. QED  BY <1>1, <2>1, <2>2, <2>4, <2>5 DEF IsGranted
<1>2. CASE j \notin abandoned[p]
  <2>1. job'[j] = job[j] /\ events'[j] = events[j]
    BY <1>2 DEF RecoverWrite
  <2>2. QED  BY <1>2, <2>1, QuietJobs
<1>3. QED  BY <1>1, <1>2

LEMMA NextGrants ==
  ASSUME TypeInv, GrantInv, [Next]_vars
  PROVE  \/ \E S \in SUBSET Jobs : \A j \in Jobs : IF j \in S THEN IsGranted(j) ELSE Idles(j)
         \/ \E j \in Jobs : IsStarted(j) /\ \A k \in Jobs \ {j} : Idles(k)
<1> DEFINE Grants1 == \E S \in SUBSET Jobs : \A j \in Jobs : IF j \in S THEN IsGranted(j) ELSE Idles(j)
           Starts1 == \E j \in Jobs : IsStarted(j) /\ \A k \in Jobs \ {j} : Idles(k)
<1>1. ASSUME \A j \in Jobs : Idles(j) PROVE Grants1
  <2>1. \A j \in Jobs : IF j \in {} THEN IsGranted(j) ELSE Idles(j)
    BY <1>1
  <2>2. {} \in SUBSET Jobs
    OBVIOUS
  <2>3. QED  BY <2>1, <2>2
<1>2. ASSUME UNCHANGED rows PROVE Grants1
  BY <1>1, <1>2, QuietJobs DEF rows
<1>3. ASSUME NEW p \in Procs, Step(p) \/ Start(p) \/ Crash(p)
      PROVE  Grants1 \/ Starts1
  <2>1. CASE RecoverWrite(p)
    <3>1. abandoned[p] \in SUBSET Jobs
      BY DEF TypeInv, TypeOK
    <3>2. QED  BY <2>1, <3>1, RecoverGrants
  <2>2. CASE \/ InsertJob(p) \/ CompleteWrite(p) \/ Dispatch(p) \/ ReportWrite(p)
             \/ FailWrite(p) \/ CancelWrite(p) \/ RetryWrite(p) \/ ClaimWrite(p)
    <3>1. ASSUME NEW j \in Jobs, IsGranted(j), \A k \in Jobs \ {j} : Idles(k)
          PROVE  Grants1
      <4>1. \A k \in Jobs : IF k \in {j} THEN IsGranted(k) ELSE Idles(k)
        BY <3>1
      <4>2. {j} \in SUBSET Jobs
        OBVIOUS
      <4>3. QED  BY <4>1, <4>2
    <3>2. QED  BY <1>1, <2>2, <3>1, StepGrants
  <2>3. CASE \/ RecoverScan(p) \/ LookupKey(p) \/ JobAccepted(p) \/ ClaimRead(p)
             \/ ReportRead(p) \/ OperationReturns(p) \/ OperationThrows(p)
             \/ CancelCheck(p) \/ FailRead(p) \/ Start(p) \/ Crash(p)
    <3>1. UNCHANGED rows
      BY <2>3 DEF RecoverScan, LookupKey, JobAccepted, ClaimRead, ReportRead, OperationReturns,
                  OperationThrows, CancelCheck, FailRead, Start, StartEnqueue, StartList,
                  StartCancel, StartRetry, Crash
    <3>2. QED  BY <1>2, <3>1
  <2>4. QED  BY <1>3, <2>1, <2>2, <2>3 DEF Step
<1>4. ASSUME NEW j \in Jobs, LeaseExpires(j)
      PROVE  Grants1
  <2>1. Expire(job[j]).state = job[j].state /\ Expire(job[j]).attempt = job[j].attempt
    BY DEF TypeInv, TypeOK, Row, Expire
  <2>2. events' = events /\ job' = [job EXCEPT ![j] = Expire(@)]
    BY <1>4 DEF LeaseExpires
  <2>3. \A k \in Jobs : Idles(k)
    BY <2>1, <2>2, QuietJobs DEF TypeInv, TypeOK
  <2>4. QED  BY <1>1, <2>3
<1>5. CASE UNCHANGED vars
  BY <1>2, <1>5 DEF vars, rows
<1>6. QED  BY <1>3, <1>4, <1>5 DEF Next

LEMMA InitCounts ==
  ASSUME Init, NEW j \in Jobs
  PROVE  job[j].attempt = 0 /\ Due(j) = 0 /\ \A T : CountEvents(j, T) = 0
<1>1. ASSUME NEW T
      PROVE  CountEvents(j, T) = 0
  <2>1. {i \in 1 .. Len(events[j]) : events[j][i].type \in T} = {}
    BY DEF Init
  <2>2. QED  BY <2>1, FS_EmptySet DEF CountEvents
<1>2. job[j].attempt = 0 /\ Due(j) = 0
  BY DEF Init, NoRow, Due, Claimable
<1>3. QED  BY <1>1, <1>2

LEMMA InitGrants == Init => GrantInv
  BY InitCounts DEF GrantInv, Unstarted, EveryAttemptIsPaidFor

\* One job's share of the invariant.
Paid(j) ==
    /\ job[j].attempt = NumStarts(j) /\ job[j].attempt + Due(j) <= NumGrants(j)
    /\ job[j].state = "absent" => job[j].attempt = 0

LEMMA JobStaysPaid ==
  ASSUME TypeInv, TypeInv', NEW j \in Jobs, Paid(j),
         Idles(j) \/ IsGranted(j) \/ IsStarted(j)
  PROVE  Paid(j)'
<1>1. /\ job[j].attempt \in Nat /\ NumGrants(j) \in Nat /\ NumStarts(j) \in Nat
      /\ Due(j) \in {0, 1} /\ Due(j)' \in {0, 1}
  BY CountType DEF TypeInv, TypeOK, Row, NumGrants, NumStarts, Due
<1>2. CASE Idles(j)
  BY <1>1, <1>2 DEF Idles, Paid
<1>3. CASE IsGranted(j)
  BY <1>1, <1>3 DEF IsGranted, Paid
<1>4. CASE IsStarted(j)
  BY <1>1, <1>4 DEF IsStarted, Paid
<1>5. QED  BY <1>2, <1>3, <1>4

LEMMA StepPaid == TypeInv /\ TypeInv' /\ GrantInv /\ [Next]_vars => GrantInv'
<1> SUFFICES ASSUME TypeInv, TypeInv', GrantInv, [Next]_vars
             PROVE  \A j \in Jobs : Paid(j)'
  BY DEF GrantInv, EveryAttemptIsPaidFor, Unstarted, Paid, NumGrants, NumStarts
<1>1. \A j \in Jobs : Paid(j)
  BY DEF GrantInv, EveryAttemptIsPaidFor, Unstarted, Paid, NumGrants, NumStarts
<1>2. \A j \in Jobs : Idles(j) \/ IsGranted(j) \/ IsStarted(j)
  BY NextGrants
<1>3. QED  BY <1>1, <1>2, JobStaysPaid

LEMMA GrantInvariant == Spec => [](TypeInv /\ GrantInv)
<1>1. QED  BY InitGrants, StepPaid, TypeInvariant, PTL DEF Spec

\* Every attempt of a job was paid for by an enqueue, a retry or a recovery.
THEOREM AttemptsPaidFor == Spec => []EveryAttemptIsPaidFor
<1>1. GrantInv => EveryAttemptIsPaidFor
  BY DEF GrantInv
<1>2. QED  BY <1>1, GrantInvariant, PTL

\* The queue refines JobGrants: a claim is the abstract start, an enqueue, a
\* retry or a recovery the abstract grant, everything else stutters.
THEOREM QueueRefinesGrants == Spec => StartsAreGranted
<1>1. Init => Grants!Init
  BY InitCounts DEF Grants!Init
<1>2. TypeInv /\ GrantInv /\ [Next]_vars
        => [Grants!Next]_<<[j \in Jobs |-> CountEvents(j, GrantTypes)],
                           [j \in Jobs |-> job[j].attempt]>>
  <2> SUFFICES ASSUME TypeInv, GrantInv, [Next]_vars
               PROVE  Grants!Next
    OBVIOUS
  <2>1. ASSUME NEW S \in SUBSET Jobs, \A j \in Jobs : IF j \in S THEN IsGranted(j) ELSE Idles(j)
        PROVE  Grants!Grant(S)
    BY <2>1 DEF Grants!Grant, IsGranted, Idles, NumGrants
  <2>2. ASSUME NEW j \in Jobs, IsStarted(j), \A k \in Jobs \ {j} : Idles(k)
        PROVE  Grants!Start(j)
    <3>1. job[j].attempt + 1 <= CountEvents(j, GrantTypes)
      BY <2>2 DEF IsStarted, GrantInv, EveryAttemptIsPaidFor
    <3>2. job[j].attempt \in Nat /\ CountEvents(j, GrantTypes) \in Nat
      BY CountType DEF TypeInv, TypeOK, Row
    <3>3. job[j].attempt < CountEvents(j, GrantTypes)
      BY <3>1, <3>2
    <3>4. QED  BY <2>2, <3>3 DEF Grants!Start, IsStarted, Idles, NumGrants
  <2>3. QED  BY <2>1, <2>2, NextGrants DEF Grants!Next
<1>3. QED  BY <1>1, <1>2, GrantInvariant, PTL DEF Spec, StartsAreGranted, Grants!Spec

-----------------------------------------------------------------------------
(* Idempotency keys: only the guarded INSERT writes that column.           *)

LEMMA KeysStay ==
  ASSUME TypeInv, [Next]_vars, \A p \in Procs : ~InsertJob(p)
  PROVE  \A j \in Jobs : job'[j].key = job[j].key
<1> USE DEF TypeInv, TypeOK
<1>0. ASSUME NEW r \in Row
      PROVE  /\ \A s : Release(r, s).key = r.key
             /\ \A p : Claimed(r, p).key = r.key
             /\ Renew(r).key = r.key /\ Requeue(r).key = r.key /\ Expire(r).key = r.key
             /\ CancelNow(r).key = r.key /\ AskCancel(r).key = r.key
  BY DEF Row, Release, Claimed, Renew, Requeue, Expire, CancelNow, AskCancel
<1>1. ASSUME NEW p \in Procs, Step(p) \/ Start(p) \/ Crash(p)
      PROVE  \A j \in Jobs : job'[j].key = job[j].key
  <2>1. CASE RecoverWrite(p)
    BY <1>0, <2>1 DEF RecoverWrite
  <2>2. CASE ClaimWrite(p) \/ Dispatch(p) \/ ReportWrite(p)
    BY <1>0, <2>2 DEF ClaimWrite, Dispatch, ReportWrite, Progress, rows
  <2>3. CASE CompleteWrite(p) \/ FailWrite(p)
    <3>1. \A j \in Jobs : job'[j] = job[j] \/ \E s : job'[j] = Release(job[j], s)
      BY <2>3 DEF CompleteWrite, FailWrite
    <3>2. ASSUME NEW j \in Jobs
          PROVE  job'[j].key = job[j].key
      <4>1. job[j] \in Row
        OBVIOUS
      <4>2. \A s : Release(job[j], s).key = job[j].key
        BY <1>0, <4>1
      <4>3. QED  BY <3>1, <4>2
    <3>3. QED  BY <3>2
  <2>4. CASE CancelWrite(p) \/ RetryWrite(p)
    <3>1. \A j \in Jobs : job'[j] \in {job[j], CancelNow(job[j]), AskCancel(job[j]), Requeue(job[j])}
      BY <2>4 DEF CancelWrite, RetryWrite
    <3>2. QED  BY <1>0, <3>1
  <2>5. CASE \/ RecoverScan(p) \/ LookupKey(p) \/ JobAccepted(p) \/ ClaimRead(p)
             \/ ReportRead(p) \/ OperationReturns(p) \/ OperationThrows(p)
             \/ CancelCheck(p) \/ FailRead(p) \/ Start(p) \/ Crash(p)
    BY <2>5 DEF RecoverScan, LookupKey, JobAccepted, ClaimRead, ReportRead, OperationReturns,
                OperationThrows, CancelCheck, FailRead, Start, StartEnqueue, StartList,
                StartCancel, StartRetry, Crash, rows
  <2>6. QED  BY <1>1, <2>1, <2>2, <2>3, <2>4, <2>5 DEF Step
<1>2. ASSUME NEW j \in Jobs, LeaseExpires(j)
      PROVE  \A k \in Jobs : job'[k].key = job[k].key
  BY <1>0, <1>2 DEF LeaseExpires
<1>3. CASE UNCHANGED vars
  BY <1>3 DEF vars
<1>4. QED  BY <1>1, <1>2, <1>3 DEF Next

\* No idempotency key ever names two jobs.
THEOREM KeysAreUnique == Spec => []OneJobPerKey
<1>1. Init => OneJobPerKey
  BY DEF Init, OneJobPerKey, NoRow
<1>2. TypeInv /\ OneJobPerKey /\ [Next]_vars => OneJobPerKey'
  <2> SUFFICES ASSUME TypeInv, OneJobPerKey, [Next]_vars PROVE OneJobPerKey'
    OBVIOUS
  <2>1. CASE \A p \in Procs : ~InsertJob(p)
    BY <2>1, KeysStay DEF OneJobPerKey
  <2>2. ASSUME NEW p \in Procs, InsertJob(p)
        PROVE  OneJobPerKey'
    <3>1. CASE KeyTaken(req[p].key)
      BY <2>2, <3>1 DEF InsertJob, OneJobPerKey, rows
    <3>2. CASE ~KeyTaken(req[p].key)
      <4>1. PICK j \in Jobs : job' = [job EXCEPT ![j] = Accepted(req[p])]
        BY <2>2, <3>2 DEF InsertJob
      <4>2. Accepted(req[p]).key = req[p].key
        BY DEF Accepted, NoRow
      <4>3. job'[j].key = req[p].key /\ \A k \in Jobs \ {j} : job'[k].key = job[k].key
        BY <4>1, <4>2 DEF TypeInv, TypeOK
      <4>4. \A k \in Jobs : req[p].key # Null => job[k].key # req[p].key
        BY <3>2 DEF KeyTaken
      <4>5. QED  BY <4>3, <4>4 DEF OneJobPerKey
    <3>3. QED  BY <3>1, <3>2
  <2>3. QED  BY <2>1, <2>2
<1>3. QED  BY <1>1, <1>2, TypeInvariant, PTL DEF Spec

-----------------------------------------------------------------------------
(* Recovery.  The induction names the owner of every running row: it works *)
(* on that row, or its process has ended.                                  *)

Ended == {"done", "crashed"}

OwnerKnown(j) ==
    LET o == job[j].owner IN
    job[j].state = "running" =>
      /\ o \in Procs /\ job[j].lease # "none"
      /\ pc[o] \in Ended \/ (pc[o] \in Working /\ arg[o] = j)

RunInv == \A j \in Jobs : OwnerKnown(j)

\* A row that runs after the step ran before it, for the same owner.
KeptRunning(j) ==
    job'[j].state = "running" =>
      /\ job[j].state = "running" /\ job'[j].owner = job[j].owner
      /\ job[j].lease # "none" => job'[j].lease # "none"

\* A worker goes on with its job or ends; an ended process stays ended.
GoesOn(p) ==
    /\ pc[p] \in Ended => pc'[p] \in Ended
    /\ pc[p] \in Working => pc'[p] \in Ended \/ (pc'[p] \in Working /\ arg'[p] = arg[p])

LEMMA StepsKeepRunning ==
  ASSUME TypeInv, NEW p \in Procs, (Step(p) /\ ~ClaimWrite(p)) \/ Start(p) \/ Crash(p)
  PROVE  \A j \in Jobs : KeptRunning(j)
<1> SUFFICES ASSUME NEW j \in Jobs PROVE KeptRunning(j)
  OBVIOUS
<1> USE DEF TypeInv, TypeOK
<1> DEFINE r == job[j]
<1>0. /\ \A s : Release(r, s).state = s
      /\ \A u \in {Renew(r), AskCancel(r)} :
            /\ u.state = r.state /\ u.owner = r.owner
            /\ r.lease # "none" => u.lease # "none"
      /\ Requeue(r).state = "queued" /\ CancelNow(r).state = "cancelled"
  <2>1. r \in Row
    OBVIOUS
  <2>2. QED  BY <2>1 DEF Row, Release, Renew, Requeue, CancelNow, AskCancel
<1>1. CASE RecoverWrite(p)
  <2>1. job'[j] = r \/ job'[j] = Release(r, "waiting")
    BY <1>1 DEF RecoverWrite
  <2>2. QED  BY <1>0, <2>1 DEF KeptRunning
<1>2. CASE InsertJob(p)
  <2>1. \A q : Accepted(q).state = "queued"
    BY DEF Accepted, NoRow
  <2>2. job'[j] = r \/ job'[j] = Accepted(req[p])
    BY <1>2 DEF InsertJob, rows
  <2>3. QED  BY <2>1, <2>2 DEF KeptRunning
<1>3. CASE Dispatch(p) \/ ReportWrite(p)
  <2>1. job'[j] = r \/ job'[j] = Renew(r)
    BY <1>3 DEF Dispatch, ReportWrite, Progress
  <2>2. QED  BY <1>0, <2>1 DEF KeptRunning
<1>4. CASE CompleteWrite(p) \/ FailWrite(p)
  <2>1. job'[j] = r \/ \E s \in Finished : job'[j] = Release(r, s)
    BY <1>4 DEF CompleteWrite, FailWrite, Outcome, Finished
  <2>2. job'[j] = r \/ job'[j].state \in Finished
    BY <1>0, <2>1
  <2>3. QED  BY <2>2 DEF KeptRunning, Finished
<1>5. CASE CancelWrite(p) \/ RetryWrite(p)
  <2>1. job'[j] \in {r, CancelNow(r), AskCancel(r), Requeue(r)}
    BY <1>5 DEF CancelWrite, RetryWrite
  <2>2. QED  BY <1>0, <2>1 DEF KeptRunning
<1>6. CASE UNCHANGED rows
  BY <1>6 DEF rows, KeptRunning
<1>7. CASE \/ RecoverScan(p) \/ LookupKey(p) \/ JobAccepted(p) \/ ClaimRead(p)
           \/ ReportRead(p) \/ OperationReturns(p) \/ OperationThrows(p)
           \/ CancelCheck(p) \/ FailRead(p) \/ Start(p) \/ Crash(p)
  <2>1. UNCHANGED rows
    BY <1>7 DEF RecoverScan, LookupKey, JobAccepted, ClaimRead, ReportRead, OperationReturns,
                OperationThrows, CancelCheck, FailRead, Start, StartEnqueue, StartList,
                StartCancel, StartRetry, Crash
  <2>2. QED  BY <1>6, <2>1
<1>8. QED  BY <1>1, <1>2, <1>3, <1>4, <1>5, <1>7 DEF Step

LEMMA ProcessesGoOn ==
  ASSUME TypeInv, NEW p \in Procs, Step(p) \/ Start(p) \/ Crash(p)
  PROVE  \A q \in Procs : GoesOn(q)
<1> USE DEF TypeInv, TypeOK, GoesOn, Working, Ended, Goto, local
<1>1. CASE \/ RecoverScan(p) \/ RecoverWrite(p) \/ LookupKey(p) \/ InsertJob(p)
           \/ JobAccepted(p) \/ ClaimRead(p) \/ CancelWrite(p) \/ RetryWrite(p) \/ Start(p)
  <2>1. pc[p] \notin Working \cup Ended
    BY <1>1 DEF RecoverScan, RecoverWrite, LookupKey, InsertJob, JobAccepted, ClaimRead,
                CancelWrite, RetryWrite, Start, StartEnqueue, StartList, StartCancel, StartRetry
  <2>2. \A q \in Procs \ {p} : pc'[q] = pc[q] /\ arg'[q] = arg[q]
    <3>1. CASE RecoverScan(p) \/ RecoverWrite(p) \/ LookupKey(p) \/ InsertJob(p) \/ JobAccepted(p)
      BY <3>1 DEF RecoverScan, RecoverWrite, LookupKey, InsertJob, JobAccepted, BecomeWorker
    <3>2. CASE ClaimRead(p) \/ CancelWrite(p) \/ RetryWrite(p) \/ Start(p)
      BY <3>2 DEF ClaimRead, CancelWrite, RetryWrite, BecomeWorker, Start, StartEnqueue,
                  StartList, StartCancel, StartRetry
    <3>3. QED  BY <1>1, <3>1, <3>2
  <2>3. QED  BY <2>1, <2>2
<1>2. CASE ClaimWrite(p) \/ Dispatch(p) \/ ReportRead(p) \/ ReportWrite(p) \/ CompleteWrite(p)
  BY <1>2 DEF ClaimWrite, Dispatch, ReportRead, ReportWrite, Progress, CompleteWrite
<1>3. CASE \/ OperationReturns(p) \/ OperationThrows(p) \/ CancelCheck(p)
           \/ FailRead(p) \/ FailWrite(p) \/ Crash(p)
  BY <1>3 DEF OperationReturns, OperationThrows, CancelCheck, FailRead, FailWrite, Crash
<1>4. QED  BY <1>1, <1>2, <1>3 DEF Step

LEMMA OwnerStaysKnown ==
  ASSUME NEW j \in Jobs, OwnerKnown(j), KeptRunning(j), \A q \in Procs : GoesOn(q)
  PROVE  OwnerKnown(j)'
  BY DEF OwnerKnown, KeptRunning, GoesOn

\* A claim makes the claiming process the owner and starts its work.
LEMMA ClaimSetsOwner ==
  ASSUME TypeInv, RunInv, NEW p \in Procs, ClaimWrite(p)
  PROVE  RunInv'
<1> USE DEF TypeInv, TypeOK
<1> DEFINE i == arg[p]
<1>1. i \in Jobs /\ job[i] \in Row
  BY DEF ClaimWrite, ArgTyped, HasJob
<1>2. \A q \in Procs : GoesOn(q)
  BY ProcessesGoOn DEF Step
<1>3. CASE CanClaim(i)
  <2>1. /\ job' = [job EXCEPT ![i] = Claimed(@, p)]
        /\ pc' = [pc EXCEPT ![p] = "dispatch"] /\ arg' = arg
    BY <1>3 DEF ClaimWrite, Goto
  <2>2. Claimed(job[i], p).owner = p /\ Claimed(job[i], p).lease # "none"
    BY <1>1 DEF Claimed, Row
  <2>3. ASSUME NEW j \in Jobs, j = i
        PROVE  OwnerKnown(j)'
    BY <1>1, <2>1, <2>2, <2>3 DEF OwnerKnown, Working
  <2>4. \A j \in Jobs \ {i} : KeptRunning(j)
    BY <2>1 DEF KeptRunning
  <2>5. \A j \in Jobs \ {i} : OwnerKnown(j)'
    BY <1>2, <2>4, OwnerStaysKnown DEF RunInv
  <2>6. QED  BY <2>3, <2>5 DEF RunInv
<1>4. CASE ~CanClaim(i)
  <2>1. \A j \in Jobs : KeptRunning(j)
    BY <1>4 DEF ClaimWrite, rows, KeptRunning
  <2>2. QED  BY <1>2, <2>1, OwnerStaysKnown DEF RunInv
<1>5. QED  BY <1>3, <1>4

LEMMA StepRun == TypeInv /\ RunInv /\ [Next]_vars => RunInv'
<1> SUFFICES ASSUME TypeInv, RunInv, [Next]_vars PROVE RunInv'
  OBVIOUS
<1>1. ASSUME NEW p \in Procs, Step(p) \/ Start(p) \/ Crash(p)
      PROVE  RunInv'
  <2>1. CASE ClaimWrite(p)
    BY <2>1, ClaimSetsOwner
  <2>2. CASE ~ClaimWrite(p)
    <3>1. \A j \in Jobs : KeptRunning(j)
      BY <1>1, <2>2, StepsKeepRunning
    <3>2. \A q \in Procs : GoesOn(q)
      BY <1>1, ProcessesGoOn
    <3>3. QED  BY <3>1, <3>2, OwnerStaysKnown DEF RunInv
  <2>3. QED  BY <2>1, <2>2
<1>2. ASSUME NEW j \in Jobs, LeaseExpires(j)
      PROVE  RunInv'
  <2>1. job' = [job EXCEPT ![j] = Expire(@)] /\ pc' = pc /\ arg' = arg
    BY <1>2 DEF LeaseExpires, local
  <2>2. /\ Expire(job[j]).state = job[j].state /\ Expire(job[j]).owner = job[j].owner
        /\ Expire(job[j]).lease # "none"
    BY DEF TypeInv, TypeOK, Row, Expire
  <2>3. \A k \in Jobs : KeptRunning(k)
    BY <2>1, <2>2 DEF KeptRunning, TypeInv, TypeOK
  <2>4. \A q \in Procs : GoesOn(q)
    BY <2>1 DEF GoesOn
  <2>5. QED  BY <2>3, <2>4, OwnerStaysKnown DEF RunInv
<1>3. CASE UNCHANGED vars
  <2>1. job' = job /\ pc' = pc /\ arg' = arg
    BY <1>3 DEF vars
  <2>2. QED  BY <2>1 DEF RunInv, OwnerKnown
<1>4. QED  BY <1>1, <1>2, <1>3 DEF Next

\* Every running job is attended by its owner or found by the next recovery.
THEOREM RunningJobsRecoverable == Spec => []RunningIsRecoverable
<1>1. Init => RunInv
  BY DEF Init, RunInv, OwnerKnown, NoRow
<1>2. RunInv => RunningIsRecoverable
  <2> SUFFICES ASSUME RunInv, NEW j \in Jobs, job[j].state = "running"
               PROVE  (Attended(j) /\ job[j].lease # "none") \/ j \in AbandonedJobs
    BY DEF RunningIsRecoverable
  <2> DEFINE o == job[j].owner
  <2>1. /\ o \in Procs /\ job[j].lease # "none"
        /\ pc[o] \in Ended \/ (pc[o] \in Working /\ arg[o] = j)
    BY DEF RunInv, OwnerKnown
  <2>2. CASE pc[o] \in Ended
    BY <2>1, <2>2, NullAssumption DEF AbandonedJobs, PidAlive, Ended
  <2>3. CASE pc[o] \in Working /\ arg[o] = j
    BY <2>1, <2>3 DEF Attended
  <2>4. QED  BY <2>1, <2>2, <2>3
<1>3. QED  BY <1>1, <1>2, StepRun, TypeInvariant, PTL DEF Spec

=============================================================================
