----------------------------- MODULE DaemonLease -----------------------------
(***************************************************************************)
(* The connection daemon: one file lock, one lease row that lapses, a      *)
(* round of scans between two heartbeats.  A daemon is the number of its   *)
(* run, which stands for its pid and for its instance_id; pids are not     *)
(* used again.  Heartbeats are counted, to bound the version.              *)
(***************************************************************************)
EXTENDS Workload

VARIABLES
    lockfile,    \* the daemon that made the lock file, and whether its pid is in it
    lease,       \* connection_daemon_leases: instance, version, not yet expired
    slept,       \* daemons whose lease lapsed under them
    adopted      \* a heartbeat has read back the lease of another daemon

daemonVars == <<lockfile, lease, slept, adopted>>

NoFile == [by |-> 0, pid |-> FALSE]
NoLease == [instance |-> 0, version |-> 0, live |-> FALSE]

DaemonInit == lockfile = NoFile /\ lease = NoLease /\ slept = {} /\ adopted = FALSE

Daemons == {p \in Busy : "daemon" \in DOMAIN proc[p]}
PidAlive(d) == \E p \in Daemons : proc[p].daemon = d

\* daemon run, which startConnectionDaemon spawns unless daemonStatus says running.
RunDaemon(p) ==
    /\ \E once \in BOOLEAN :
         Launch(p, "daemon", [pc |-> "d:open", daemon |-> used["daemon"] + 1, mine |-> NoLease,
                              once |-> once, stop |-> FALSE])
    /\ UNCHANGED daemonVars

\* acquireFileLock: the first open, and the second one after the file is removed.
OpenLock(p) ==
    /\ proc[p].pc \in {"d:open", "d:reopen"}
    /\ IF lockfile = NoFile
       THEN lockfile' = [by |-> proc[p].daemon, pid |-> FALSE] /\ Move(p, "d:pid")
       ELSE UNCHANGED lockfile /\ IF At(p, "d:open") THEN Move(p, "d:inspect") ELSE Finish(p)
    /\ UNCHANGED <<lease, slept, adopted>>
\* The handle writes to the file it opened, wherever that is by now.
WritePid(p) ==
    /\ At(p, "d:pid") /\ Move(p, "d:acquire")
    /\ lockfile' = IF lockfile.by = proc[p].daemon THEN [lockfile EXCEPT !.pid = TRUE] ELSE lockfile
    /\ UNCHANGED <<lease, slept, adopted>>
InspectLock(p) ==
    /\ At(p, "d:inspect")
    /\ IF lockfile.pid /\ PidAlive(lockfile.by) THEN Finish(p) ELSE Move(p, "d:remove")
    /\ UNCHANGED daemonVars
RemoveLock(p) ==
    /\ At(p, "d:remove") /\ Move(p, "d:reopen")
    /\ lockfile' = NoFile /\ UNCHANGED <<lease, slept, adopted>>

\* Mutant: the row is taken over whether it has expired or not.
TakeLease(p) ==
    /\ At(p, "d:acquire")
    /\ lease' = [instance |-> proc[p].daemon, version |-> lease.version + 1, live |-> TRUE]
    /\ Become(p, [proc[p] EXCEPT !.pc = "d:recover", !.mine = lease'])
    /\ UNCHANGED <<lockfile, slept, adopted>>
\* acquireDaemonLease, one transaction.
AcquireLease(p) ==
    /\ At(p, "d:acquire")
    /\ IF lease.live
       THEN Move(p, "d:unlock") /\ UNCHANGED lease
       ELSE /\ lease' = [instance |-> proc[p].daemon, version |-> lease.version + 1, live |-> TRUE]
            /\ Become(p, [proc[p] EXCEPT !.pc = "d:recover", !.mine = lease'])
    /\ UNCHANGED <<lockfile, slept, adopted>>

\* recoverInterruptedConnections, then the loop or a single round.
RecoverScans(p) ==
    /\ At(p, "d:recover") /\ Move(p, IF proc[p].once THEN "d:scan" ELSE "d:beat")
    /\ UNCHANGED daemonVars
\* scanDue, whose failures are caught; ConnectionScan has its scans.  A round is
\* followed by another one until the next heartbeat is due.
ScanRound(p) ==
    /\ At(p, "d:scan") /\ Move(p, IF proc[p].once \/ proc[p].stop THEN "d:release" ELSE "d:beat")
    /\ UNCHANGED daemonVars
\* heartbeatDaemonLease: an update of the row that was read before, then a read of
\* the row of the workspace, whoever it belongs to.
Heartbeat(p) ==
    /\ At(p, "d:beat")
    /\ LET mine == proc[p].mine
       IN IF lease.instance = mine.instance /\ lease.version = mine.version
          THEN /\ lease' = [lease EXCEPT !.version = @ + 1, !.live = TRUE]
               /\ Goto(p, "d:read") /\ Spend("beat") /\ UNCHANGED limit
          ELSE UNCHANGED lease /\ Move(p, "d:release")
    /\ UNCHANGED <<lockfile, slept, adopted>>
ReadLease(p) ==
    /\ At(p, "d:read")
    /\ IF lease = NoLease THEN Move(p, "d:release") /\ UNCHANGED adopted
       ELSE /\ Become(p, [proc[p] EXCEPT !.pc = "d:scan", !.mine = lease])
            /\ adopted' = (adopted \/ lease.instance # proc[p].daemon)
    /\ UNCHANGED <<lockfile, lease, slept>>

\* The finally block: DELETE by the instance of the lease it holds, then the file.
ReleaseLease(p) ==
    /\ At(p, "d:release") /\ Move(p, "d:unlock")
    /\ lease' = IF lease.instance = proc[p].mine.instance THEN NoLease ELSE lease
    /\ UNCHANGED <<lockfile, slept, adopted>>
Unlock(p) ==
    /\ At(p, "d:unlock") /\ Finish(p)
    /\ lockfile' = NoFile /\ UNCHANGED <<lease, slept, adopted>>

\* stopConnectionDaemon signals the pid of a live lease; before the loop has its
\* handler the signal kills the process.
StopDaemon ==
    /\ lease.live /\ Spend("stop") /\ UNCHANGED limit
    /\ \E p \in Daemons :
         /\ proc[p].daemon = lease.instance
         /\ Set(p, IF proc[p].once \/ At(p, "d:recover") THEN Idle
                   ELSE [proc[p] EXCEPT !.stop = TRUE])
    /\ UNCHANGED daemonVars

\* lease_expires_at passes.
Lapse ==
    /\ lease.live /\ Elsewhere("lapse")
    /\ lease' = [lease EXCEPT !.live = FALSE]
    /\ slept' = slept \cup {lease.instance} /\ UNCHANGED <<lockfile, adopted>>

DaemonStep(p) ==
    \/ RunDaemon(p) \/ OpenLock(p) \/ WritePid(p) \/ InspectLock(p) \/ RemoveLock(p)
    \/ AcquireLease(p) \/ RecoverScans(p) \/ ScanRound(p) \/ Heartbeat(p) \/ ReadLease(p)
    \/ ReleaseLease(p) \/ Unlock(p)
=============================================================================
