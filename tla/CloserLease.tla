----------------------------- MODULE CloserLease -----------------------------
(***************************************************************************)
(* Launching the closer of one pull request (src/ama/dispatch-closer.mjs,   *)
(* src/ama/closer-lease.mjs): a lease file is created, a launch intent is   *)
(* recorded, the remediation queue is looked at a second time, and only     *)
(* then is a closer worker submitted.  A watcher that dies or times out     *)
(* leaves the lease and the intent behind for a later poll to settle.  A    *)
(* pull request the orphan watchdog (src/ama/orphan-watchdog.mjs) found     *)
(* without an owner is dispatched past the old lease and the old record.    *)
(***************************************************************************)
EXTENDS Upsets

CONSTANT MaxClosers    \* bound: closers running at once

ASSUME LeaseAssumption == MaxClosers \in Nat

VARIABLES
  lease,      \* status of the lease file; "none" when there is no file
  owner,      \* a pending lease names a watcher process that is running
  late,       \* a lease in force is past its reclaim age, its launch unreadable
  record,     \* the dispatch record: none, a keyed intent, or a receipt
  watcher,    \* where the watcher stands in the dispatch
  recovery,   \* ownerProofRecovery: the dispatch is the watchdog's
  closers     \* closer workers running

leaseVars == <<lease, owner, late, record, watcher, recovery, closers>>

LeaseInit ==
  /\ lease = "none" /\ record = "none" /\ watcher = "idle"
  /\ owner = FALSE /\ late = FALSE /\ recovery = FALSE
  /\ closers = 0

(* isReclaimablePendingAmaCloserLease: its watcher is dead or its deadline  *)
(* has passed.                                                              *)
ReclaimablePending == lease = "pending" /\ (~owner \/ late)

(* heldCloserForJob, as the remediation daemon reads it: a pending lease    *)
(* that is not reclaimable, or a dispatched one that has not aged out.      *)
LeaseHeld ==
  \/ lease = "pending" /\ ~ReclaimablePending
  \/ lease = "dispatched" /\ ~late

(* isActiveAmaCloserDispatchRecord: a keyed intent has no age escape. *)
DispatchActive == record = "intent" \/ (record = "dispatched" /\ ~late)

-----------------------------------------------------------------------------
(* The first look at the queue, and at a launch of this pull request that   *)
(* is already under way.                                                    *)
Admit(found) ==
  /\ watcher = "idle"
  /\ ~found
  /\ ~DispatchActive
  /\ watcher' = "admitted"
  /\ recovery' = FALSE
  /\ UNCHANGED <<lease, owner, late, record, closers, upsets>>

(* The watchdog's dispatch: its probe proves that no remediation job, no    *)
(* watcher and no launch owns the pull request.  An intent, or a launch it  *)
(* cannot read, leaves that open and the watchdog waits.                    *)
RecoverAdmit(found) ==
  /\ watcher = "idle"
  /\ ~found
  /\ lease = "pending" => ReclaimablePending
  /\ record # "intent"
  /\ record = "dispatched" => closers = 0
  /\ watcher' = "admitted"
  /\ recovery' = TRUE
  /\ UNCHANGED <<lease, owner, late, record, closers, upsets>>

(* acquireAmaCloserLease creates the file; a terminal lease, or a pending   *)
(* one that is reclaimable, is deleted first.  The watchdog's dispatch also *)
(* deletes a dispatched lease that has idled as long as the pull request.   *)
AcquireLease ==
  /\ watcher = "admitted"
  /\ \/ lease \in {"none", "terminal"}
     \/ ReclaimablePending
     \/ recovery /\ lease = "dispatched"
  /\ lease' = "pending"
  /\ owner' = TRUE
  /\ late' = FALSE
  /\ watcher' = "leased"
  /\ UNCHANGED <<record, recovery, closers, upsets>>

(* The dispatch is over. *)
Rest == watcher' = "idle" /\ recovery' = FALSE

(* Another lease is in force, or a sticky success; or the probe of the      *)
(* watchdog's dispatch, repeated, finds an owner now.                       *)
LeaseTaken ==
  /\ watcher = "admitted"
  /\ lease # "none" \/ recovery
  /\ Rest
  /\ UNCHANGED <<lease, owner, late, record, closers, upsets>>

PublishIntent ==
  /\ watcher = "leased"
  /\ record' = "intent"
  /\ watcher' = "published"
  /\ UNCHANGED <<lease, owner, late, recovery, closers, upsets>>

(* The lease is deleted; the record stays as it is or becomes no-dispatch. *)
BackOff(rec) ==
  /\ lease' = "none"
  /\ record' = rec
  /\ owner' = FALSE
  /\ late' = FALSE
  /\ Rest
  /\ UNCHANGED <<closers, upsets>>

(* The second look reads the pending directory, then in-progress.  The      *)
(* watchdog's dispatch probes for an owner instead: it leaves its intent    *)
(* behind when it finds one, and a probe that runs out of time, or cannot   *)
(* read a record, lets it go on.                                            *)
Look(found, next) ==
  \/ found /\ BackOff(IF recovery THEN record ELSE "none")
  \/ /\ \/ ~found /\ UNCHANGED upsets
        \/ found /\ recovery /\ Upset
     /\ watcher' = next
     /\ UNCHANGED <<lease, owner, late, record, recovery, closers>>

ScanPending(found) == watcher = "published" /\ Look(found, "halfway")

ScanInProgress(found) == watcher = "halfway" /\ Look(found, "cleared")

(* The intent cannot be written, the live pull request is closed, moved or  *)
(* unreadable, or HQ refuses the submission.                                *)
DispatchRefused ==
  /\ watcher \in {"leased", "cleared"}
  /\ BackOff("none")

(* The live pull request is merged: the lease ends as a success. *)
TargetMerged ==
  /\ watcher = "cleared"
  /\ lease' = "terminal"
  /\ record' = "none"
  /\ owner' = FALSE
  /\ late' = FALSE
  /\ Rest
  /\ UNCHANGED <<closers, upsets>>

(* HQ starts the closer worker. *)
Submit ==
  /\ watcher = "cleared"
  /\ closers < MaxClosers
  /\ closers' = closers + 1
  /\ watcher' = "submitted"
  /\ UNCHANGED <<lease, owner, late, record, recovery, upsets>>

(* The launch is recorded and the lease promoted. *)
Receipt ==
  /\ watcher = "submitted"
  /\ record' = "dispatched"
  /\ lease' = "dispatched"
  /\ owner' = FALSE
  /\ late' = FALSE
  /\ Rest
  /\ UNCHANGED <<closers, upsets>>

(* The submission times out: lease and intent stay as they are. *)
ReceiptLost ==
  /\ watcher = "submitted"
  /\ Upset
  /\ Rest
  /\ UNCHANGED <<lease, owner, late, record, closers>>

(* reconcilePreReceiptIntent, once the lease is abandoned: a launch found   *)
(* in the ledger is adopted, a submission proved absent is settled.  No     *)
(* lease is made where there is none.                                       *)
SettleIntent ==
  /\ watcher = "idle"
  /\ record = "intent"
  /\ ~owner \/ late
  /\ record' = IF closers > 0 THEN "dispatched" ELSE "none"
  /\ lease' = IF lease = "none" THEN "none"
              ELSE IF closers > 0 THEN "dispatched" ELSE "terminal"
  /\ owner' = FALSE
  /\ late' = FALSE
  /\ UNCHANGED <<watcher, recovery, closers, upsets>>

(* reconcileAmaCloserLease: the launch is terminal in the ledger. *)
SettleLaunch ==
  /\ watcher = "idle"
  /\ record = "dispatched"
  /\ closers = 0
  /\ record' = "none"
  /\ lease' = "terminal"
  /\ late' = FALSE
  /\ UNCHANGED <<owner, watcher, recovery, closers, upsets>>

(* A dispatched lease whose launch cannot be read is reclaimed by age. *)
ReclaimDispatched ==
  /\ watcher = "idle"
  /\ lease = "dispatched"
  /\ late
  /\ lease' = "terminal"
  /\ record' = "none"
  /\ late' = FALSE
  /\ UNCHANGED <<owner, watcher, recovery, closers, upsets>>

CloserExits ==
  /\ closers > 0
  /\ closers' = closers - 1
  /\ UNCHANGED <<lease, owner, late, record, watcher, recovery, upsets>>

(* The watcher process dies and its successor starts. *)
WatcherCrash ==
  /\ owner \/ watcher # "idle"
  /\ Upset
  /\ Rest
  /\ owner' = FALSE
  /\ UNCHANGED <<lease, late, record, closers>>

LeaseAges ==
  /\ lease \in {"pending", "dispatched"}
  /\ ~late
  /\ Upset
  /\ late' = TRUE
  /\ UNCHANGED <<lease, owner, record, watcher, recovery, closers>>

(* The steps that do not look at the remediation queue. *)
LeaseSteps ==
  \/ AcquireLease \/ LeaseTaken \/ PublishIntent \/ DispatchRefused
  \/ TargetMerged \/ Submit \/ Receipt \/ ReceiptLost \/ SettleIntent \/ SettleLaunch
  \/ ReclaimDispatched \/ CloserExits \/ WatcherCrash \/ LeaseAges

LeaseTypeOK ==
  /\ lease \in {"none", "pending", "dispatched", "terminal"}
  /\ record \in {"none", "intent", "dispatched"}
  /\ watcher \in {"idle", "admitted", "leased", "published", "halfway",
                  "cleared", "submitted"}
  /\ owner \in BOOLEAN /\ late \in BOOLEAN /\ recovery \in BOOLEAN
  /\ closers \in 0 .. MaxClosers
=============================================================================
