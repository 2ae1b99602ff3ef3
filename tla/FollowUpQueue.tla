---------------------------- MODULE FollowUpQueue ----------------------------
(***************************************************************************)
(* The follow-up remediation queue of one pull request: job files that move *)
(* between five directories (src/follow-up-jobs.mjs), the daemon that       *)
(* claims them, spawns a remediation worker and settles the result          *)
(* (src/follow-up-remediation.mjs, src/follow-up-stuck-claim-sweep.mjs),    *)
(* the watcher that stops stale records (src/follow-up-active-defer.mjs)    *)
(* and the operator's stop, cancel and requeue commands.                    *)
(*                                                                          *)
(* A record is only ever written whole, but a move is two file operations   *)
(* and the daemon works from a copy it read earlier: other processes act    *)
(* in between.  Workers are local processes; HQ launches are left out.      *)
(***************************************************************************)
EXTENDS Upsets, FiniteSets

CONSTANTS
  Jobs,         \* the follow-up jobs that reviews may queue
  NoJob,        \* not a job
  MaxRounds,    \* remediationPlan.maxRounds
  MaxRetries,   \* resolveMaxTransientRemediationRetries()
  MaxWorkers    \* bound: workers ever spawned

ASSUME QueueAssumption ==
  /\ NoJob \notin Jobs
  /\ MaxRounds \in Nat \ {0}
  /\ {MaxRetries, MaxWorkers} \subseteq Nat

VARIABLES
  file,      \* file[j][d]: the record of job j in directory d
  worker,    \* state of each worker process
  daemon,    \* program counter, job, copy of its record, jobs set aside
  mover,     \* the second half of a move each process still owes
  queued     \* jobs queued so far: job names are never used twice

queueVars == <<file, worker, daemon, mover, queued>>

Dirs == {"pending", "in-progress", "completed", "failed", "stopped"}
Terminal == {"completed", "failed", "stopped"}
Processes == {"daemon", "watcher", "operator"}

(* "halted" is a stopped record whose stop code is operator-stop. *)
Statuses == {"absent", "pending", "in_progress", "completed", "failed",
             "stopped", "halted"}

(* age 0: within the five-minute custody grace of its last timestamp;      *)
(* age 1: past it; age 2: past the stuck-claim threshold as well.           *)
Ages == 0 .. 2

(* Only the retries of a failed preparation are not held to MaxRetries. *)
Records == [status : Statuses, round : 0 .. MaxRounds,
            retries : 0 .. MaxRetries + MaxUpsets,
            worker : 0 .. MaxWorkers, age : Ages, held : BOOLEAN]

NoFile == [status |-> "absent", round |-> 0, retries |-> 0, worker |-> 0,
           age |-> 0, held |-> FALSE]

Workers == 1 .. MaxWorkers
WorkerStates == {"none", "live", "hung", "signalled", "gone"}

Pcs == {"idle", "drain", "seen", "taken", "checked", "claimed", "spawned",
        "beat", "down"}

Daemons == [pc : Pcs, job : Jobs \cup {NoJob}, mem : Records, aside : SUBSET Jobs]

Idle == [pc |-> "idle", job |-> NoJob, mem |-> NoFile, aside |-> {}]

(* A move to pending ends in a rename, any other in the source's removal. *)
Moves == [job : Jobs \cup {NoJob}, from : Dirs, to : Dirs]
NoMove == [job |-> NoJob, from |-> "pending", to |-> "pending"]

Present(j, d) == file[j][d].status # "absent"

QueueInit ==
  /\ upsets = 0
  /\ file = [j \in Jobs |-> [d \in Dirs |-> NoFile]]
  /\ worker = [n \in Workers |-> "none"]
  /\ daemon = Idle
  /\ mover = [p \in Processes |-> NoMove]
  /\ queued = {}

-----------------------------------------------------------------------------
(* Files.                                                                   *)

Put(j, d, r) == [file EXCEPT ![j] = [@ EXCEPT ![d] = r]]

(* rename(2): the target is replaced. *)
Renamed(j, from, to) == [file EXCEPT ![j] = [@ EXCEPT ![to] = file[j][from], ![from] = NoFile]]

Ready(p) == mover[p] = NoMove

(* Mutant of MoveTerminal: a terminal record that is already there is       *)
(* replaced.                                                                *)
MoveTerminalReplacing(p, j, d, t, r) ==
  /\ Ready(p)
  /\ Present(j, d)
  /\ d # t
  /\ file' = Put(j, t, r)
  /\ mover' = [mover EXCEPT ![p] = [job |-> j, from |-> d, to |-> t]]

(* moveTerminalJobRecord: the terminal record is created, never replaced,   *)
(* and the source is removed in a second step.                              *)
MoveTerminal(p, j, d, t, r) ==
  /\ Ready(p)
  /\ Present(j, d)
  /\ d # t
  /\ file' = IF Present(j, t) THEN file ELSE Put(j, t, r)
  /\ mover' = [mover EXCEPT ![p] = [job |-> j, from |-> d, to |-> t]]

(* moveFollowUpJob to pending: the record is rewritten in place, then       *)
(* renamed.                                                                 *)
MovePending(p, j, d, r) ==
  /\ Ready(p)
  /\ Present(j, d)
  /\ d # "pending"
  /\ file' = Put(j, d, r)
  /\ mover' = [mover EXCEPT ![p] = [job |-> j, from |-> d, to |-> "pending"]]

(* Mutant of FinishMove: a source that is already gone counts as a failed   *)
(* removal, and the terminal record is taken back.                          *)
FinishMoveUnforced(p) ==
  LET m == mover[p] IN
  /\ ~Ready(p)
  /\ file' = IF m.to # "pending"
             THEN IF Present(m.job, m.from) THEN Put(m.job, m.from, NoFile)
                  ELSE Put(m.job, m.to, NoFile)
             ELSE IF Present(m.job, m.from) THEN Renamed(m.job, m.from, "pending")
             ELSE file
  /\ mover' = [mover EXCEPT ![p] = NoMove]
  /\ UNCHANGED <<worker, daemon, upsets, queued>>

(* The second half of a move.  A source that another process took away is   *)
(* nothing to remove, and a rename of it fails.                             *)
FinishMove(p) ==
  LET m == mover[p] IN
  /\ ~Ready(p)
  /\ file' = IF m.to # "pending" THEN Put(m.job, m.from, NoFile)
             ELSE IF Present(m.job, m.from) THEN Renamed(m.job, m.from, "pending")
             ELSE file
  /\ mover' = [mover EXCEPT ![p] = NoMove]
  /\ UNCHANGED <<worker, daemon, upsets, queued>>

(* A terminal record: its worker and its timestamps no longer matter. *)
Settled(r, t) == [r EXCEPT !.status = t, !.worker = 0, !.age = 0, !.held = FALSE]
Stopped(r) == Settled(r, "stopped")
Halted(r) == Settled(r, "halted")

Less(n) == IF n = 0 THEN 0 ELSE n - 1

(* requeueClaimedFollowUpJobBeforeSpawn and holdClaimedJobForCappedRemediator: *)
(* the round is handed back.                                                *)
Unclaimed(r, hold) ==
  [r EXCEPT !.status = "pending", !.round = Less(r.round), !.worker = 0,
            !.age = 0, !.held = hold]

(* requeueInProgressFollowUpJobForRetry: one transient retry is charged and *)
(* the job waits out a backoff.                                             *)
Retried(r) ==
  [r EXCEPT !.status = "pending", !.round = Less(r.round), !.retries = r.retries + 1,
            !.worker = 0, !.age = 0, !.held = TRUE]

(* Mutant of MayRetry: one retry too many. *)
MayRetryOverspent(r) == r.status = "in_progress" /\ r.retries <= MaxRetries

MayRetry(r) == r.status = "in_progress" /\ r.retries < MaxRetries

(* sendWorkerSignal(SIGTERM), without waiting for the exit. *)
Signalled(n) ==
  IF n # 0 /\ worker[n] \in {"live", "hung"}
  THEN [worker EXCEPT ![n] = "signalled"] ELSE worker

-----------------------------------------------------------------------------
(* The reviewer queues a job; the round is seeded from the ledger.          *)
Enqueue(j, round) ==
  /\ j \notin queued
  /\ queued' = queued \cup {j}
  /\ file' = Put(j, "pending", [NoFile EXCEPT !.status = "pending", !.round = round])
  /\ UNCHANGED <<worker, daemon, mover, upsets>>

DaemonAt(pc) == daemon.pc = pc /\ Ready("daemon")

Goto(pc) == daemon' = [daemon EXCEPT !.pc = pc]

(* On to the next pending file, with these jobs set aside. *)
NextFile(aside) == daemon' = [Idle EXCEPT !.pc = "drain", !.aside = aside]

(* buildFollowUpClaimReservations: a job file in in-progress or an active   *)
(* closer dispatch record keeps the pull request out of this drain.         *)
StartDrain(reserved) ==
  /\ DaemonAt("idle")
  /\ ~reserved
  /\ \A j \in Jobs : ~Present(j, "in-progress")
  /\ Goto("drain")
  /\ UNCHANGED <<file, worker, mover, upsets, queued>>

EndDrain ==
  /\ DaemonAt("drain")
  /\ daemon' = Idle
  /\ UNCHANGED <<file, worker, mover, upsets, queued>>

(* claimNextFollowUpJob up to the rename: a held-back job, or one whose     *)
(* pull request a closer lease holds, is set aside for this drain.          *)
SkipJob(j, leased) ==
  /\ DaemonAt("drain")
  /\ j \notin daemon.aside
  /\ Present(j, "pending")
  /\ file[j]["pending"].held \/ leased
  /\ NextFile(daemon.aside \cup {j})
  /\ UNCHANGED <<file, worker, mover, upsets, queued>>

SeeJob(j, leased) ==
  /\ DaemonAt("drain")
  /\ j \notin daemon.aside
  /\ Present(j, "pending")
  /\ ~file[j]["pending"].held
  /\ ~leased
  /\ daemon' = [daemon EXCEPT !.pc = "seen", !.job = j, !.mem = file[j]["pending"]]
  /\ UNCHANGED <<file, worker, mover, upsets, queued>>

(* The rename is the claim.  The record kept is the one read before it.     *)
TakeJob ==
  /\ DaemonAt("seen")
  /\ IF Present(daemon.job, "pending")
     THEN file' = Renamed(daemon.job, "pending", "in-progress") /\ Goto("taken")
     ELSE file' = file /\ NextFile(daemon.aside)
  /\ UNCHANGED <<worker, mover, upsets, queued>>

(* Mutant of Recheck: the lease is not looked at again after the rename. *)
RecheckSkipped(leased) ==
  /\ DaemonAt("taken")
  /\ Goto("checked")
  /\ UNCHANGED <<file, worker, mover, upsets, queued>>

(* The lease is looked at again under the claim; a lease taken meanwhile    *)
(* sends the file back.                                                     *)
Recheck(leased) ==
  /\ DaemonAt("taken")
  /\ IF leased /\ Present(daemon.job, "in-progress")
     THEN /\ file' = Renamed(daemon.job, "in-progress", "pending")
          /\ NextFile(daemon.aside \cup {daemon.job})
     ELSE IF leased THEN file' = file /\ daemon' = Idle
     ELSE file' = file /\ Goto("checked")
  /\ UNCHANGED <<worker, mover, upsets, queued>>

(* A claim with no round left, or of a settled review, is stopped; a file   *)
(* another process took away is passed over.                                *)
ClaimStops ==
  /\ DaemonAt("checked")
  /\ \/ /\ MoveTerminal("daemon", daemon.job, "in-progress", "stopped",
                        Stopped(file[daemon.job]["in-progress"]))
     \/ /\ ~Present(daemon.job, "in-progress")
        /\ UNCHANGED <<file, mover>>
  /\ NextFile(daemon.aside)
  /\ UNCHANGED <<worker, upsets, queued>>

(* handleClaimedStopFailure: a stop that fails puts the file back. *)
ClaimStopFails ==
  /\ DaemonAt("checked")
  /\ Upset
  /\ IF Present(daemon.job, "in-progress") /\ ~Present(daemon.job, "pending")
     THEN file' = Renamed(daemon.job, "in-progress", "pending") ELSE file' = file
  /\ NextFile(daemon.aside)
  /\ UNCHANGED <<worker, mover, queued>>

(* The claim is written from the daemon's copy, whether or not the file is  *)
(* still there: writeFollowUpJob creates it.                                *)
Claim ==
  /\ DaemonAt("checked")
  /\ daemon.mem.round < MaxRounds
  /\ LET r == [daemon.mem EXCEPT !.status = "in_progress", !.round = @ + 1,
                                 !.age = 0, !.held = FALSE]
     IN /\ file' = Put(daemon.job, "in-progress", r)
        /\ daemon' = [daemon EXCEPT !.pc = "claimed", !.mem = r]
  /\ UNCHANGED <<worker, mover, upsets, queued>>

(* Another process holds the queue's write lock: writeFollowUpJob throws    *)
(* and the drain ends with the file moved and not yet claimed.              *)
ClaimRefused ==
  /\ DaemonAt("checked")
  /\ Upset
  /\ daemon' = Idle
  /\ UNCHANGED <<file, worker, mover, queued>>

-----------------------------------------------------------------------------
(* consumeNextFollowUpJob after the claim: a long asynchronous preparation. *)

(* The copy is saved again (risk class, reply storage key). *)
Persist ==
  /\ DaemonAt("claimed")
  /\ file' = Put(daemon.job, "in-progress", daemon.mem)
  /\ file' # file
  /\ UNCHANGED <<worker, daemon, mover, upsets, queued>>

(* A gate stops the job, or preparation fails it; when the file is gone the *)
(* move throws and the drain ends.                                          *)
PrepareEnds(t) ==
  /\ DaemonAt("claimed")
  /\ \/ MoveTerminal("daemon", daemon.job, "in-progress", t,
                     Settled(file[daemon.job]["in-progress"], t))
     \/ /\ ~Present(daemon.job, "in-progress")
        /\ UNCHANGED <<file, mover>>
  /\ daemon' = Idle
  /\ UNCHANGED <<worker, upsets, queued>>

(* Shutdown, an unavailable registry, a configuration error or a capped     *)
(* remediator hands the claim back before anything was spawned.             *)
PrepareRequeues(hold) ==
  /\ DaemonAt("claimed")
  /\ MovePending("daemon", daemon.job, "in-progress",
                 Unclaimed(file[daemon.job]["in-progress"], hold))
  /\ daemon' = Idle
  /\ UNCHANGED <<worker, upsets, queued>>

(* A transient failure of the push capability probe charges a retry however *)
(* many were charged before.                                                *)
PrepareRetries ==
  /\ DaemonAt("claimed")
  /\ Upset
  /\ file[daemon.job]["in-progress"].status = "in_progress"
  /\ MovePending("daemon", daemon.job, "in-progress",
                 Retried(file[daemon.job]["in-progress"]))
  /\ daemon' = Idle
  /\ UNCHANGED <<worker, queued>>

NextWorker(n) == worker[n] = "none" /\ \A m \in Workers : m < n => worker[m] # "none"

Spawn(n) ==
  /\ DaemonAt("claimed")
  /\ NextWorker(n)
  /\ worker' = [worker EXCEPT ![n] = "live"]
  /\ daemon' = [daemon EXCEPT !.pc = "spawned", !.mem = [@ EXCEPT !.worker = n]]
  /\ UNCHANGED <<file, mover, upsets, queued>>

(* markFollowUpJobSpawned re-reads the file.  When it is gone the read      *)
(* throws, and the worker just spawned is killed.                           *)
MarkSpawned ==
  /\ DaemonAt("spawned")
  /\ LET j == daemon.job
         n == daemon.mem.worker
     IN IF Present(j, "in-progress")
        THEN /\ file' = Put(j, "in-progress",
                            [file[j]["in-progress"] EXCEPT !.status = "in_progress",
                                                           !.worker = n, !.age = 0])
             /\ worker' = worker
        ELSE /\ file' = file
             /\ worker' = [worker EXCEPT ![n] = "gone"]
  /\ daemon' = Idle
  /\ UNCHANGED <<mover, upsets, queued>>

(* The spawn cannot be recorded: the worker is killed and the job fails. *)
MarkRefused ==
  /\ DaemonAt("spawned")
  /\ Upset
  /\ MoveTerminal("daemon", daemon.job, "in-progress", "failed",
                  Settled(file[daemon.job]["in-progress"], "failed"))
  /\ worker' = [worker EXCEPT ![daemon.mem.worker] = "gone"]
  /\ daemon' = Idle
  /\ UNCHANGED queued

-----------------------------------------------------------------------------
(* The other steps of a daemon tick, on the job files in in-progress.       *)

Recorded(j) == Present(j, "in-progress") /\ file[j]["in-progress"].worker # 0

WorkerOf(j) == worker[file[j]["in-progress"].worker]

(* reconcileFollowUpJob of a worker that exited.  A record without a worker *)
(* is skipped (missing-worker-metadata).                                    *)
ReconcileExit(j, t) ==
  /\ DaemonAt("idle")
  /\ Recorded(j)
  /\ WorkerOf(j) = "gone"
  /\ MoveTerminal("daemon", j, "in-progress", t, Settled(file[j]["in-progress"], t))
  /\ UNCHANGED <<worker, daemon, upsets, queued>>

(* A worker lost to a transient failure is retried. *)
ReconcileRetry(j) ==
  /\ DaemonAt("idle")
  /\ Recorded(j)
  /\ WorkerOf(j) = "gone"
  /\ MayRetry(file[j]["in-progress"])
  /\ MovePending("daemon", j, "in-progress", Retried(file[j]["in-progress"]))
  /\ UNCHANGED <<worker, daemon, upsets, queued>>

(* The pull request moved under a running worker: it is signalled and the   *)
(* job stopped.                                                             *)
ReconcileStop(j) ==
  /\ DaemonAt("idle")
  /\ Upset
  /\ Recorded(j)
  /\ WorkerOf(j) # "gone"
  /\ MoveTerminal("daemon", j, "in-progress", "stopped", Stopped(file[j]["in-progress"]))
  /\ worker' = Signalled(file[j]["in-progress"].worker)
  /\ UNCHANGED <<daemon, queued>>

(* A worker past the runtime cap is left running for manual inspection and  *)
(* its job failed.                                                          *)
ReconcileOverdue(j) ==
  /\ DaemonAt("idle")
  /\ Upset
  /\ Recorded(j)
  /\ WorkerOf(j) # "gone"
  /\ MoveTerminal("daemon", j, "in-progress", "failed",
                  Settled(file[j]["in-progress"], "failed"))
  /\ UNCHANGED <<worker, daemon, queued>>

(* emitHeartbeatsForActiveJobs reads every record, then writes each back    *)
(* with a new heartbeat.                                                    *)
BeatRead(j) ==
  /\ DaemonAt("idle")
  /\ Recorded(j)
  /\ WorkerOf(j) = "live"
  /\ daemon' = [daemon EXCEPT !.pc = "beat", !.job = j, !.mem = file[j]["in-progress"]]
  /\ UNCHANGED <<file, worker, mover, upsets, queued>>

BeatWrite ==
  /\ DaemonAt("beat")
  /\ file' = Put(daemon.job, "in-progress", [daemon.mem EXCEPT !.age = 0])
  /\ daemon' = Idle
  /\ UNCHANGED <<worker, mover, upsets, queued>>

(* A worker that still produces artifacts is never stale. *)
StaleClaim(j) ==
  /\ Present(j, "in-progress")
  /\ file[j]["in-progress"].age = 2
  /\ Recorded(j) => WorkerOf(j) # "live"

(* Mutant of Sweep: only claims with a recorded worker are swept. *)
SweepRecorded(j) ==
  /\ DaemonAt("idle")
  /\ StaleClaim(j)
  /\ Recorded(j)
  /\ LET r == file[j]["in-progress"]
     IN /\ \/ MayRetry(r) /\ MovePending("daemon", j, "in-progress", Retried(r))
           \/ /\ r.retries >= MaxRetries
              /\ MoveTerminal("daemon", j, "in-progress", "stopped", Stopped(r))
        /\ worker' = Signalled(r.worker)
  /\ UNCHANGED <<daemon, upsets, queued>>

(* sweepStuckInProgressClaims: the worker is signalled and the claim        *)
(* requeued, or stopped once the retries are spent and the comment about it *)
(* is posted.  A requeue of a record whose status is not in_progress        *)
(* throws, tick after tick; a signal that fails leaves everything as it is. *)
Sweep(j) ==
  /\ DaemonAt("idle")
  /\ StaleClaim(j)
  /\ LET r == file[j]["in-progress"]
     IN /\ \/ MayRetry(r) /\ MovePending("daemon", j, "in-progress", Retried(r))
           \/ /\ r.retries >= MaxRetries
              /\ MoveTerminal("daemon", j, "in-progress", "stopped", Stopped(r))
        /\ worker' = Signalled(r.worker)
  /\ UNCHANGED <<daemon, upsets, queued>>

(* stopStaleClaimWithComment: the comment is not posted, and the claim of   *)
(* the signalled worker stays where it is until the next tick.              *)
SweepDeferred(j) ==
  /\ DaemonAt("idle")
  /\ StaleClaim(j)
  /\ file[j]["in-progress"].retries >= MaxRetries
  /\ worker' = Signalled(file[j]["in-progress"].worker)
  /\ UNCHANGED <<file, daemon, mover, upsets, queued>>

-----------------------------------------------------------------------------
(* The watcher, before it defers a review to an active follow-up job.       *)

(* stopStaleInProgressFollowUpJob *)
WatcherReclaims(j) ==
  /\ StaleClaim(j)
  /\ file[j]["in-progress"].status = "in_progress"
  /\ MoveTerminal("watcher", j, "in-progress", "stopped", Stopped(file[j]["in-progress"]))
  /\ worker' = Signalled(file[j]["in-progress"].worker)
  /\ UNCHANGED <<daemon, upsets, queued>>

(* stopBudgetExhaustedPendingFollowUpJob, stopTerminalPendingFollowUpJob:   *)
(* no round left, a settled review, or a head that moved on.                *)
WatcherReleases(j, d) ==
  /\ Upset
  /\ file[j][d].status = "pending"
  /\ MoveTerminal("watcher", j, d, "stopped", Stopped(file[j][d]))
  /\ UNCHANGED <<worker, daemon, queued>>

-----------------------------------------------------------------------------
(* The operator's commands.                                                 *)

(* follow-up-worker-cancel.mjs *)
OpCancel(j) ==
  /\ Upset
  /\ Ready("operator")
  /\ Recorded(j)
  /\ file[j]["in-progress"].status = "in_progress"
  /\ worker' = Signalled(file[j]["in-progress"].worker)
  /\ UNCHANGED <<file, daemon, mover, queued>>

(* follow-up-stop.mjs: a recorded worker is signalled first. *)
OpHalt(j, d) ==
  /\ Upset
  /\ file[j][d].status \in {"pending", "in_progress", "completed", "failed"}
  /\ MoveTerminal("operator", j, d, "stopped", Halted(file[j][d]))
  /\ worker' = Signalled(file[j][d].worker)
  /\ UNCHANGED <<daemon, queued>>

(* requeueFollowUpJobForNextRound: an operator's own stop is refused; a job *)
(* without rounds or without progress is stopped instead.                   *)
OpRequeue(j, d) ==
  LET r == file[j][d] IN
  /\ Upset
  /\ r.status \in Terminal
  /\ \/ /\ r.round < MaxRounds
        /\ MovePending("operator", j, d,
                       [r EXCEPT !.status = "pending", !.worker = 0, !.age = 0])
     \/ /\ r.round = MaxRounds \/ r.status = "completed"
        /\ MoveTerminal("operator", j, d, "stopped", Stopped(r))
  /\ UNCHANGED <<worker, daemon, queued>>

-----------------------------------------------------------------------------
(* Processes and time.                                                      *)

WorkerHangs(n) ==
  /\ worker[n] = "live"
  /\ worker' = [worker EXCEPT ![n] = "hung"]
  /\ UNCHANGED <<file, daemon, mover, upsets, queued>>

WorkerExits(n) ==
  /\ worker[n] \in {"live", "signalled"}
  /\ worker' = [worker EXCEPT ![n] = "gone"]
  /\ UNCHANGED <<file, daemon, mover, upsets, queued>>

Older(r) == IF r.status \in {"pending", "in_progress"} /\ r.age < 2
            THEN [r EXCEPT !.age = @ + 1] ELSE r

(* Time passes for every copy of a job's record. *)
TimePasses(j) ==
  /\ \E d \in Dirs : Older(file[j][d]) # file[j][d]
  /\ file' = [file EXCEPT ![j] = [d \in Dirs |-> Older(file[j][d])]]
  /\ daemon' = IF daemon.job = j THEN [daemon EXCEPT !.mem = Older(@)] ELSE daemon
  /\ UNCHANGED <<worker, mover, upsets, queued>>

(* retryAfter passes, or the live quota check clears it. *)
HoldEnds(j) ==
  /\ file[j]["pending"].held
  /\ file' = Put(j, "pending", [file[j]["pending"] EXCEPT !.held = FALSE])
  /\ UNCHANGED <<worker, daemon, mover, upsets, queued>>

(* The daemon dies, perhaps between the two halves of a move; its workers   *)
(* are detached and live on.                                                *)
DaemonCrash ==
  /\ daemon.pc # "down"
  /\ Upset
  /\ daemon' = [Idle EXCEPT !.pc = "down"]
  /\ mover' = [mover EXCEPT !["daemon"] = NoMove]
  /\ UNCHANGED <<file, worker, queued>>

DaemonRestart ==
  /\ daemon.pc = "down"
  /\ daemon' = Idle
  /\ UNCHANGED <<file, worker, mover, upsets, queued>>

-----------------------------------------------------------------------------
(* Everything but the steps that look at the closer. *)
QueueSteps ==
  \/ \E j \in Jobs, round \in 0 .. MaxRounds : Enqueue(j, round)
  \/ EndDrain \/ TakeJob
  \/ ClaimStops \/ ClaimStopFails \/ Claim \/ ClaimRefused
  \/ Persist \/ PrepareRetries \/ MarkSpawned \/ MarkRefused \/ BeatWrite
  \/ \E t \in {"failed", "stopped"} : PrepareEnds(t)
  \/ \E hold \in BOOLEAN : PrepareRequeues(hold)
  \/ \E n \in Workers : Spawn(n) \/ WorkerHangs(n) \/ WorkerExits(n)
  \/ \E j \in Jobs : \/ ReconcileRetry(j) \/ ReconcileStop(j) \/ ReconcileOverdue(j)
                     \/ BeatRead(j) \/ Sweep(j) \/ SweepDeferred(j)
                     \/ WatcherReclaims(j) \/ OpCancel(j) \/ TimePasses(j) \/ HoldEnds(j)
                     \/ \E t \in Terminal : ReconcileExit(j, t)
                     \/ \E d \in Dirs : OpHalt(j, d) \/ OpRequeue(j, d) \/ WatcherReleases(j, d)
  \/ \E p \in Processes : FinishMove(p)
  \/ DaemonCrash \/ DaemonRestart

(* The steps that look at the closer: `leased' is the daemon's reading of   *)
(* the closer lease, `reserved' of its dispatch record.                     *)
CloserSteps(leased, reserved) ==
  \/ StartDrain(reserved)
  \/ Recheck(leased)
  \/ \E j \in Jobs : SkipJob(j, leased) \/ SeeJob(j, leased)

(* The queue of a pull request no closer ever touches. *)
QueueNext == QueueSteps \/ CloserSteps(FALSE, FALSE)

QueueSpec == QueueInit /\ [][QueueNext]_<<queueVars, upsets>>

(* What the daemon's tick loop, its supervisor and the clock keep doing.    *)
(* The gates of the preparation and the results of a worker are not chosen. *)
(* Strong fairness of the settlements assumes more than the loop: a signal, *)
(* a comment or a lookup that is tried again every tick fails finitely      *)
(* often.  A host that refuses one for ever may keep a claim for ever.      *)
Preparation ==
  \/ \E t \in {"failed", "stopped"} : PrepareEnds(t)
  \/ \E hold \in BOOLEAN : PrepareRequeues(hold)
  \/ PrepareRetries
  \/ \E n \in Workers : Spawn(n)

DaemonStep == TakeJob \/ Recheck(FALSE) \/ ClaimStops \/ Claim \/ MarkSpawned
              \/ BeatWrite \/ FinishMove("daemon") \/ DaemonRestart

Reconcile(j) == ReconcileRetry(j) \/ \E t \in Terminal : ReconcileExit(j, t)

Fairness ==
  /\ WF_<<queueVars, upsets>>(DaemonStep)
  /\ WF_<<queueVars, upsets>>(Preparation)
  /\ \A j \in Jobs : /\ SF_<<queueVars, upsets>>(Reconcile(j))
                     /\ SF_<<queueVars, upsets>>(Sweep(j))
                     /\ WF_<<queueVars, upsets>>(TimePasses(j))
  /\ \A n \in Workers : WF_<<queueVars, upsets>>(WorkerExits(n))

FairSpec == QueueSpec /\ Fairness

(* Past MaxRetries only a failed preparation charges a retry. *)
RetriesCharged ==
  /\ \A j \in Jobs, d \in Dirs : file[j][d].retries <= MaxRetries + upsets
  /\ daemon.mem.retries <= MaxRetries + upsets

QueueTypeOK ==
  /\ file \in [Jobs -> [Dirs -> Records]]
  /\ worker \in [Workers -> WorkerStates]
  /\ daemon \in Daemons
  /\ mover \in [Processes -> Moves]
  /\ upsets \in 0 .. MaxUpsets
  /\ queued \in SUBSET Jobs
  /\ RetriesCharged

(* A claim that was written leaves in-progress again, whatever becomes of   *)
(* its daemon and its worker: reconcileFollowUpJob settles a worker that    *)
(* exited, sweepStuckInProgressClaims one that hangs or was never spawned.  *)
ClaimsEnd ==
  \A j \in Jobs : (file[j]["in-progress"].status = "in_progress")
                   ~> (file[j]["in-progress"].status # "in_progress")

(* A file that was moved to in-progress and not yet claimed is recovered on *)
(* a later tick, as the comment of runStep in the daemon script says.       *)
MovedIsRecovered ==
  \A j \in Jobs : (file[j]["in-progress"].status = "pending")
                   ~> (file[j]["in-progress"].status # "pending")
=============================================================================
