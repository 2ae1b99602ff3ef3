--------------------------- MODULE BranchOwnership ---------------------------
(***************************************************************************)
(* Who may push to the branch of one pull request: the remediation queue    *)
(* and the closer launch composed.  Each side claims first and looks at the *)
(* other afterwards: the daemon renames the job file and reads the closer   *)
(* lease again, the watcher creates the lease and reads the job directories *)
(* again.                                                                   *)
(***************************************************************************)
EXTENDS FollowUpQueue, CloserLease

VARIABLES
  overrode,   \* history: an owner lost its record, or was passed over
  raced       \* history: a requeue landed while another process was moving the job

vars == <<queueVars, leaseVars, upsets, overrode, raced>>

Init == QueueInit /\ LeaseInit /\ overrode = FALSE /\ raced = FALSE

-----------------------------------------------------------------------------
(* remediationJobOwnership: a timestamp within the custody grace, or a      *)
(* recorded worker that is still a process.                                 *)
OwnsBranch(r) ==
  \/ r.status \in {"pending", "in_progress"} /\ r.age = 0
  \/ /\ r.status = "in_progress" /\ r.worker # 0
     /\ worker[r.worker] \in {"live", "hung", "signalled"}

(* findActiveRemediationJob, one directory at a time.  The watchdog's probe *)
(* counts a job that is held back as well.                                  *)
PendingOwner(watchdog) ==
  \E j \in Jobs : /\ watchdog \/ ~file[j]["pending"].held
                  /\ OwnsBranch(file[j]["pending"])
InProgressOwner == \E j \in Jobs : OwnsBranch(file[j]["in-progress"])

(* The workers nobody has told to stop.  A worker that was sent SIGTERM is  *)
(* not waited for: until it exits it may push next to its successor.        *)
ActiveWorkers == {n \in Workers : worker[n] \in {"live", "hung"}}

(* The daemon is past its last look at the lease. *)
Committed == daemon.pc \in {"checked", "claimed", "spawned"}

RecordedBy(j, n) == Present(j, "in-progress") /\ file[j]["in-progress"].worker = n

(* A claim the daemon works on, or a worker that runs, has no record in     *)
(* in-progress: the file was taken away, the daemon died before it recorded *)
(* the worker, or an overdue worker was left running.                       *)
Bereft ==
  \/ Committed /\ ~Present(daemon.job, "in-progress")
  \/ \E n \in ActiveWorkers :
       /\ ~(daemon.pc = "spawned" /\ daemon.mem.worker = n)
       /\ \A j \in Jobs : ~RecordedBy(j, n)

(* The daemon goes on although a lease is in force: its watcher is gone, it *)
(* has aged out, or it cannot be read.                                      *)
LeaseOverruled(leased) == lease \in {"pending", "dispatched"} /\ ~leased

(* The watcher goes on although a job is in in-progress: it has aged out    *)
(* with no running worker on record, or the watchdog's probe was cut short. *)
ClaimOverruled == watcher' = "cleared" /\ \E j \in Jobs : Present(j, "in-progress")

(* A launch that may still run is given up by age. *)
LaunchOverruled == lease = "dispatched" /\ lease' = "terminal" /\ closers > 0

Overrides(judgement) == overrode' = (overrode \/ judgement \/ Bereft')

(* A move to pending ends while another process still owes its half of a    *)
(* move of the same job.                                                    *)
LandsOnMove ==
  \E p, q \in Processes :
    /\ p # q
    /\ mover[p].job = mover[q].job
    /\ mover[p] # NoMove /\ mover[p].to = "pending" /\ mover'[p] = NoMove

-----------------------------------------------------------------------------
(* heldCloserForJob takes a lease it cannot read for none. *)
Readings == {LeaseHeld, FALSE}

DaemonLooks ==
  /\ UNCHANGED <<leaseVars, raced>>
  /\ \/ /\ \/ StartDrain(DispatchActive)
           \/ \E j \in Jobs, leased \in Readings : SkipJob(j, leased) \/ SeeJob(j, leased)
        /\ Overrides(FALSE)
     \/ \E leased \in Readings : Recheck(leased) /\ Overrides(LeaseOverruled(leased))

WatcherLooks ==
  /\ UNCHANGED <<queueVars, raced>>
  /\ \/ /\ \/ Admit(PendingOwner(FALSE) \/ InProgressOwner)
           \/ RecoverAdmit(PendingOwner(TRUE) \/ InProgressOwner)
           \/ ScanPending(PendingOwner(recovery))
        /\ Overrides(FALSE)
     \/ ScanInProgress(InProgressOwner) /\ Overrides(ClaimOverruled)

QueueActs ==
  /\ QueueSteps
  /\ UNCHANGED leaseVars
  /\ raced' = (raced \/ LandsOnMove)
  /\ Overrides(FALSE)

LeaseActs ==
  /\ LeaseSteps
  /\ UNCHANGED <<queueVars, raced>>
  /\ Overrides(LaunchOverruled)

Next == DaemonLooks \/ WatcherLooks \/ QueueActs \/ LeaseActs

Spec == Init /\ [][Next]_vars

-----------------------------------------------------------------------------
(* Types of every variable of the composition. *)
TypeOK == QueueTypeOK /\ LeaseTypeOK /\ overrode \in BOOLEAN /\ raced \in BOOLEAN

(* Two workers that nobody told to stop push to the branch only after an    *)
(* owner lost its record, was judged dead, or was passed over by a look     *)
(* that could not be completed: the two claims themselves, rename then look *)
(* at the lease and lease then look at the queue, never miss each other, in *)
(* an ordinary dispatch and in the watchdog's.  claimNextFollowUpJob,       *)
(* maybeDispatchAmaCloser.                                                  *)
OneWriter == ~overrode => Cardinality(ActiveWorkers) + closers <= 1

(* A job that was queued keeps a file in some directory, whatever crashes   *)
(* between the two halves of a move and whoever moves it at the same time,  *)
(* unless a requeue lands in the middle of another move of the same job.    *)
(* moveTerminalJobRecord, moveFollowUpJob.                                  *)
JobKept == ~raced => \A j \in queued : \E d \in Dirs : Present(j, d)

(* The record of an operator's stop stays as it was written: no terminal    *)
(* move of the daemon or the watcher that is under way replaces it, no      *)
(* second half of a move removes it and no requeue takes it.                *)
(* moveTerminalJobRecord, requeueFollowUpJobForNextRound.                   *)
HaltIsFinal ==
  [][\A j \in Jobs : file[j]["stopped"].status = "halted"
                      => file'[j]["stopped"] = file[j]["stopped"]]_vars
=============================================================================
