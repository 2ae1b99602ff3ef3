---------------------------- MODULE MutationLock ----------------------------
(***************************************************************************)
(* The per-base mutation lock of src/src/ama/merge-lease.mjs: a lock FILE  *)
(* created by an exclusive hard link, broken when it looks stale, and      *)
(* removed unconditionally when the critical section ends.  Every step     *)
(* below is one file-system call; the calls of different processes         *)
(* interleave.                                                             *)
(***************************************************************************)
EXTENDS Naturals

CONSTANTS
  Procs,        \* process ids that contend for the lock of one base
  HostOf,       \* [Procs -> hosts]: liveness is only readable on one's host
  NoLock,       \* the lock file does not exist
  MaxAttempts,  \* MUTATION_LOCK_RETRY_ATTEMPTS
  StaleAfter,   \* loadAwareTimeoutMs(MUTATION_LOCK_STALE_MS), in clock ticks
  MaxNow        \* bound on the wall clock

ASSUME ConstantsAssumption ==
  /\ MaxAttempts \in Nat \ {0}
  /\ StaleAfter \in Nat \ {0}
  /\ MaxNow \in Nat
  /\ NoLock \notin [pid : Procs, acquiredAt : 0 .. MaxNow]

VARIABLES
  now,       \* wall clock
  lockFile,  \* contents of <lease>.mutation.lock, or NoLock
  pc,        \* where each process stands in withMutationLock
  since,     \* nowIso: the clock read ONCE when acquireMutationLock starts
  tries,     \* iterations of the retry loop already spent
  breached   \* history: a removal deleted the lock of another critical section

vars == <<now, lockFile, pc, since, tries, breached>>

Steps == {"idle", "link", "inspect", "remove", "critical", "dead"}
Lock == [pid : Procs, acquiredAt : 0 .. MaxNow]

TypeOK ==
  /\ now \in 0 .. MaxNow
  /\ lockFile \in Lock \cup {NoLock}
  /\ pc \in [Procs -> Steps]
  /\ since \in [Procs -> 0 .. MaxNow]
  /\ tries \in [Procs -> 0 .. MaxAttempts]
  /\ breached \in BOOLEAN

Init ==
  /\ now = 0
  /\ lockFile = NoLock
  /\ pc = [p \in Procs |-> "idle"]
  /\ since = [p \in Procs |-> 0]
  /\ tries = [p \in Procs |-> 0]
  /\ breached = FALSE

-----------------------------------------------------------------------------
\* mutationLockIsStale, evaluated by p on what it has just read: an absent
\* file counts as stale; so does a dead process of the reader's own host, and
\* any lock older than the threshold by the reader's own (frozen) clock.
MutationLockIsStale(p, lock) ==
  \/ lock = NoLock
  \/ /\ lock # NoLock
     /\ \/ HostOf[lock.pid] = HostOf[p] /\ pc[lock.pid] = "dead"
        \/ since[p] >= lock.acquiredAt + StaleAfter

\* Mutants of NextAttempt: one iteration too many; iterations not counted.
NextAttemptOffByOne(p) ==
  /\ tries' = [tries EXCEPT ![p] = @ + 1]
  /\ pc' = [pc EXCEPT ![p] = IF tries[p] <= MaxAttempts THEN "link" ELSE "idle"]

NextAttemptUncounted(p) ==
  /\ pc' = [pc EXCEPT ![p] = "link"]
  /\ UNCHANGED tries

\* The end of one iteration of the retry loop: try to link again, or give up
\* and return { acquired: false }.
NextAttempt(p) ==
  /\ tries' = [tries EXCEPT ![p] = @ + 1]
  /\ pc' = [pc EXCEPT ![p] = IF tries[p] + 1 < MaxAttempts THEN "link" ELSE "idle"]

\* rmSync(lockPath, { force: true }) by p: whatever file is there now goes.
RemoveLockFile(p) ==
  /\ lockFile' = NoLock
  /\ breached' = \/ breached
                 \/ /\ lockFile # NoLock
                    /\ lockFile.pid # p
                    /\ pc[lockFile.pid] = "critical"

\* withMutationLock is called: the lock record's time is read here.
Enter(p) ==
  /\ pc[p] = "idle"
  /\ pc' = [pc EXCEPT ![p] = "link"]
  /\ since' = [since EXCEPT ![p] = now]
  /\ tries' = [tries EXCEPT ![p] = 0]
  /\ UNCHANGED <<now, lockFile, breached>>

\* Mutant of LinkLock: the lock file is written with { overwrite: true }.
LinkLockOverwriting(p) ==
  /\ pc[p] = "link"
  /\ lockFile' = [pid |-> p, acquiredAt |-> since[p]]
  /\ pc' = [pc EXCEPT ![p] = "critical"]
  /\ UNCHANGED <<now, since, tries, breached>>

\* writeFileAtomic(..., { overwrite: false }): link succeeds or says EEXIST.
LinkLock(p) ==
  /\ pc[p] = "link"
  /\ \/ /\ lockFile = NoLock
        /\ lockFile' = [pid |-> p, acquiredAt |-> since[p]]
        /\ pc' = [pc EXCEPT ![p] = "critical"]
     \/ /\ lockFile # NoLock
        /\ pc' = [pc EXCEPT ![p] = "inspect"]
        /\ UNCHANGED lockFile
  /\ UNCHANGED <<now, since, tries, breached>>

\* breakStaleMutationLock reads the file; a fresh lock is waited for.
InspectLock(p) ==
  /\ pc[p] = "inspect"
  /\ \/ /\ MutationLockIsStale(p, lockFile)
        /\ pc' = [pc EXCEPT ![p] = "remove"]
        /\ UNCHANGED tries
     \/ /\ ~MutationLockIsStale(p, lockFile)
        /\ NextAttempt(p)
  /\ UNCHANGED <<now, lockFile, since, breached>>

\* ... and then removes the path, without comparing what is there now.
BreakLock(p) ==
  /\ pc[p] = "remove"
  /\ RemoveLockFile(p)
  /\ NextAttempt(p)
  /\ UNCHANGED <<now, since>>

\* The critical section returns; the finally block removes the path.
Leave(p) ==
  /\ pc[p] = "critical"
  /\ RemoveLockFile(p)
  /\ pc' = [pc EXCEPT ![p] = "idle"]
  /\ UNCHANGED <<now, since, tries>>

\* The process dies; its lock file, if any, stays behind.
Crash(p) ==
  /\ pc[p] # "dead"
  /\ pc' = [pc EXCEPT ![p] = "dead"]
  /\ UNCHANGED <<now, lockFile, since, tries, breached>>

\* A new process is started under a process id that was in use before.
Respawn(p) ==
  /\ pc[p] = "dead"
  /\ pc' = [pc EXCEPT ![p] = "idle"]
  /\ UNCHANGED <<now, lockFile, since, tries, breached>>

Tick ==
  /\ now < MaxNow
  /\ now' = now + 1
  /\ UNCHANGED <<lockFile, pc, since, tries, breached>>

Proceed(p) == LinkLock(p) \/ InspectLock(p) \/ BreakLock(p)

Next ==
  \/ \E p \in Procs : Enter(p) \/ Proceed(p) \/ Leave(p) \/ Crash(p) \/ Respawn(p)
  \/ Tick

\* A running process takes its next step: the loop is synchronous JavaScript.
Fairness == \A p \in Procs : WF_vars(Proceed(p))

Spec == Init /\ [][Next]_vars
FairSpec == Spec /\ Fairness

-----------------------------------------------------------------------------
\* What the callers rely on ("Serialize queue selection, holder creation and
\* served-waiter removal", merge-lease.mjs): two processes are never inside
\* withMutationLock's critical section together.
MutualExclusion ==
  \A p, q \in Procs : pc[p] = "critical" /\ pc[q] = "critical" => p = q

\* The exclusion the code does provide: as long as no removal has deleted the
\* lock of another process's running critical section, the process inside is
\* alone and the lock file names it.
ExclusiveUntilBreach ==
  ~breached =>
    \A p \in Procs : pc[p] = "critical" => lockFile # NoLock /\ lockFile.pid = p

\* The lock as its callers think of it: the process inside, up to the first
\* breach.  The lock passes from one process to the next only by being free
\* in between, also when a process dies inside and its file is broken later.
Inside == IF breached THEN {} ELSE {p \in Procs : pc[p] = "critical"}

AbstractLock == INSTANCE Lane WITH Clients <- Procs, entitled <- Inside
ImplementsLane == AbstractLock!Spec

\* What is left of p's retry loop: three calls for each unspent iteration.
Remaining(p) ==
  3 * (MaxAttempts - tries[p])
    + (CASE pc[p] = "link" -> 2 [] pc[p] = "inspect" -> 1 [] OTHER -> 0)

Retrying == {"link", "inspect", "remove"}

\* acquireMutationLock makes progress with every call of its own and loses
\* none to the others: whatever they link, break or leave behind, a process
\* in the loop stays where it was or has strictly less left to do.  Its
\* attempts are thus bounded by the constants, not by the contention.
AcquireShrinks ==
  [][\A p \in Procs :
       pc[p] \in Retrying /\ pc'[p] \in Retrying =>
         \/ pc'[p] = pc[p] /\ tries'[p] = tries[p]
         \/ Remaining(p)' < Remaining(p)]_vars

\* The bounded retry loop always answers: whatever other processes, crashes
\* and stale files do, a process in acquireMutationLock ends inside the
\* critical section, back at its caller with "busy", or dead.
AcquireReturns ==
  \A p \in Procs :
    pc[p] \in Retrying ~> pc[p] \in {"critical", "idle", "dead"}
=============================================================================
