-------------------------- MODULE MaintenanceLock --------------------------
(***************************************************************************)
(* The maintenance lock: a file created with O_EXCL and a JSON body, and a *)
(* singleton row of operation_maintenance_lease.  Every system call and    *)
(* every SQL statement of acquireMaintenanceLock and of release is a step; *)
(* other processes run in between.                                         *)
(*                                                                         *)
(* A process acquires the lock at most once, so the process itself is the  *)
(* token, the pid and the inode of the file it created: a body written     *)
(* after the file was unlinked lands in an inode that no path names.       *)
(***************************************************************************)
EXTENDS Naturals

CONSTANTS
    Procs,          \* processes; each runs one command and is never reused
    Null,           \* no process
    MaxCrashes,     \* bound: processes killed in a behaviour
    MaxLapses       \* bound: locks whose expires_at passes in a behaviour

ASSUME LockAssumption ==
    /\ Null \notin Procs
    /\ MaxCrashes \in Nat
    /\ MaxLapses \in Nat

VARIABLES
    lockFile,       \* runtime/locks/maintenance.lock
    lease,          \* the owner in operation_maintenance_lease, or Null
    at,             \* where each process is in the lock protocol
    crashes, lapses \* counters for the two bounds

lockVars == <<lockFile, lease, at, crashes, lapses>>

NoFile  == [by |-> Null, written |-> FALSE, expired |-> FALSE]
File(p) == [by |-> p, written |-> FALSE, expired |-> FALSE]

\* "gone" is a process that has ended without running the rest of its command.
LockPC == {"out", "open", "inspect", "break", "reopen", "write", "record", "held",
           "check", "unlink", "unrecord", "released", "refused", "gone"}

LockInit ==
    /\ lockFile = NoFile
    /\ lease = Null
    /\ at = [p \in Procs |-> "out"]
    /\ crashes = 0 /\ lapses = 0

MoveTo(p, l) == at' = [at EXCEPT ![p] = l]

\* pidAlive: process.kill(pid, 0) succeeds.
PidAlive(p) == at[p] \notin {"refused", "gone"}

\* Mutant: only the expiry makes a lock stale.
StaleByExpiryOnly == lockFile.expired
\* maintenanceLockStatus: expired, or the process that wrote it is dead.
Stale == lockFile.expired \/ ~PidAlive(lockFile.by)

\* maintenanceLockStatus: an absent file and one without a parsable body are
\* the same thing to the reader.
Exists == lockFile.by # Null /\ lockFile.written

-----------------------------------------------------------------------------

Open(p) ==
    /\ at[p] = "open"
    /\ IF lockFile = NoFile
       THEN lockFile' = File(p) /\ MoveTo(p, "write")
       ELSE MoveTo(p, "inspect") /\ UNCHANGED lockFile
    /\ UNCHANGED <<lease, crashes, lapses>>

Inspect(p) ==
    /\ at[p] = "inspect"
    /\ MoveTo(p, IF Exists /\ ~Stale THEN "refused" ELSE "break")
    /\ UNCHANGED <<lockFile, lease, crashes, lapses>>

\* The stale file is removed by path, whoever has created it meanwhile.
Break(p) ==
    /\ at[p] = "break"
    /\ lockFile' = NoFile
    /\ MoveTo(p, "reopen")
    /\ UNCHANGED <<lease, crashes, lapses>>

Reopen(p) ==
    /\ at[p] = "reopen"
    /\ IF lockFile = NoFile
       THEN lockFile' = File(p) /\ MoveTo(p, "write")
       ELSE MoveTo(p, "refused") /\ UNCHANGED lockFile
    /\ UNCHANGED <<lease, crashes, lapses>>

Write(p) ==
    /\ at[p] = "write"
    /\ lockFile' = IF lockFile.by = p THEN [lockFile EXCEPT !.written = TRUE] ELSE lockFile
    /\ MoveTo(p, "record")
    /\ UNCHANGED <<lease, crashes, lapses>>

\* INSERT ... ON CONFLICT DO UPDATE: the row always ends up ours.
Record(p) ==
    /\ at[p] = "record"
    /\ lease' = p
    /\ MoveTo(p, "held")
    /\ UNCHANGED <<lockFile, crashes, lapses>>

\* release: the token is compared first and the path is unlinked afterwards.
Check(p) ==
    /\ at[p] = "check"
    /\ MoveTo(p, IF Exists /\ lockFile.by = p THEN "unlink" ELSE "unrecord")
    /\ UNCHANGED <<lockFile, lease, crashes, lapses>>

Unlink(p) ==
    /\ at[p] = "unlink"
    /\ lockFile' = NoFile
    /\ MoveTo(p, "unrecord")
    /\ UNCHANGED <<lease, crashes, lapses>>

\* DELETE ... WHERE token_hash = ours.
Unrecord(p) ==
    /\ at[p] = "unrecord"
    /\ lease' = IF lease = p THEN Null ELSE lease
    /\ MoveTo(p, "released")
    /\ UNCHANGED <<lockFile, crashes, lapses>>

LockStep(p) ==
    \/ Open(p) \/ Inspect(p) \/ Break(p) \/ Reopen(p) \/ Write(p) \/ Record(p)
    \/ Check(p) \/ Unlink(p) \/ Unrecord(p)

\* expires_at passes; nothing renews it while the holder works.
Lapse ==
    /\ lapses < MaxLapses
    /\ Exists /\ ~lockFile.expired
    /\ lockFile' = [lockFile EXCEPT !.expired = TRUE]
    /\ lapses' = lapses + 1
    /\ UNCHANGED <<lease, at, crashes>>

\* The process is killed, or throws outside the try that releases.
Die(p) ==
    /\ crashes < MaxCrashes
    /\ at[p] \notin {"out", "released", "refused", "gone"}
    /\ crashes' = crashes + 1
    /\ MoveTo(p, "gone")
    /\ UNCHANGED <<lockFile, lease, lapses>>

-----------------------------------------------------------------------------
(* The protocol on its own: every process asks once and releases.          *)

Acquire(p) ==
    /\ at[p] = "out"
    /\ MoveTo(p, "open")
    /\ UNCHANGED <<lockFile, lease, crashes, lapses>>

Release(p) ==
    /\ at[p] = "held"
    /\ MoveTo(p, "check")
    /\ UNCHANGED <<lockFile, lease, crashes, lapses>>

LockNext ==
    \/ \E p \in Procs : Acquire(p) \/ LockStep(p) \/ Release(p) \/ Die(p)
    \/ Lapse

LockSpec == LockInit /\ [][LockNext]_lockVars

LockTypeOK ==
    /\ lockFile \in [by : Procs \cup {Null}, written : BOOLEAN, expired : BOOLEAN]
    /\ lease \in Procs \cup {Null}
    /\ at \in [Procs -> LockPC]
    /\ crashes \in 0 .. MaxCrashes
    /\ lapses \in 0 .. MaxLapses

\* docs/domains/operations/README.md:29 defines the lease as mutual exclusion of
\* maintenance across processes: two processes never hold the lock together
\* while no lock has expired.
MutualExclusion ==
    lapses = 0 => \A p, q \in Procs : at[p] = "held" /\ at[q] = "held" => p = q

=============================================================================
