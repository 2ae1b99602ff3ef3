# adversarial-review in TLA+

TLA+ models of the parts of adversarial-review that decide *who may act on a
pull request now*: who holds the merge lane of a base branch, who holds the
review claim of a pull request, who may push to its branch (a remediation worker
or a closer), and which finalization executor lands it. The models are
translated from the JavaScript under `src/`; TLC checks them on small instances
and TLAPS proves the central results for every instance.

`PROJECT.json` is the machine-readable side of this file: the components, the
runs with their properties, the mutants that show each property can fail, the
map from definitions to source lines, the hazards, the findings and the
theorems.

Contents: [Inventory](#1-inventory) · [Modules and code](#2-modules-and-how-they-correspond-to-the-code) ·
[Runs](#3-runs) · [Fairness](#4-fairness) · [Proofs](#5-proofs) ·
[Findings](#6-where-the-code-disagrees-with-what-the-repository-says) ·
[Limits](#7-what-is-not-modelled-and-why) · [Plan](#8-plan)

## 1. Inventory

The program is a long-running *watcher* that polls GitHub, starts reviewer
processes on pull requests, hands findings to remediation workers and finally
merges, either itself (*daemon merge*) or through a *hammer* (an agent, also
called closer). Nothing is shared in memory between these processes. They
coordinate through a SQLite table (`reviewed_prs`) and through JSON files that
are replaced by rename and guarded by lock files. Several hosts may share the
state directory.

| component | state | operations | correct when |
|---|---|---|---|
| **mutation lock** `src/src/ama/merge-lease.mjs` | one lock file per (repo, base) | link exclusively, judge staleness, break, remove | critical sections exclude each other; an attempt always returns |
| **merge lease** `merge-lease.mjs`, `src/bin/merge-lease.mjs` | holder file, waiter queue, gate-attempt ledger | register, grant, renew, release (merged / no merge), reclaim, reconcile, reset, refund | one entitled holder; arrival order; each lease booked once; a park sticks |
| **daemon clean merge** `src/src/ama/daemon-merge.mjs` | none of its own; a client of the lane | reserve, acquire, merge, release | every exit path gives the lane back |
| **hammer closer** | a worker process and its dispatch record | acquire, renew, merge, release; controller release after its death | as for the lane |
| **review delivery row** `src/src/review-state-db.mjs`, `review-state-statements.mjs` | one row per pull request: status, claim, head, process group, failure class, recovery counter | about thirty SQL statements | the claim has one owner; a posted row names a reviewed head; a row at its cap is not recovered again |
| **watcher poll** `src/src/watcher*.mjs`, `src/src/watcher/` | queue of candidates, head leases, in memory | classify, queue, claim, check freshness | no claim on merged work; no head reviewed twice at once |
| **reviewer spawn and settlement** | detached process per session | spawn, record process group, settle by outcome | a late settlement touches only its own claim |
| **reattach and orphan recovery** `src/src/reviewer-reattach.mjs`, `reviewer-orphan-reconcile.mjs` | none; a pass over claimed rows | list, probe GitHub, probe process, kill, settle or requeue | no claim is stuck; a live reviewer keeps its lease |
| **operator review reset** | none | force a claim back to pending | only after the reviewer is gone |
| **reviewer pool** | admitted candidates, in memory | admit, run, drain | slot caps; starvation-freedom |
| **follow-up remediation queue** `src/src/follow-up-jobs.mjs` | job files in pending / in-progress / completed / failed / stopped | create, claim, finish, requeue, stop | each job is in one directory, run by one worker, within its round budget |
| **closer lease and dispatch** `src/src/ama/closer-lease.mjs`, `dispatch-closer.mjs` | lease file and dispatch records per pull request | acquire, publish an intent, look again, submit, adopt or settle, reclaim | a closer and a remediation worker never push to one branch together |
| **closure orchestration** | reads of many facts | choose daemon merge, hammer or hold | the choice is a function of fresh facts |
| **finalization executor** `src/src/finalization/` | event ledger, executor lease | record facts, lease, fold, decide, execute, record | what is recorded as finalized was merged, on evidence about that head, and is never acted on again |
| **finalization queue** `src/src/finalization/queue-store.mjs` | the v2 merge queue | hand off, publish | not promoted in the code |
| **agent runtime router** | dispatch records with idempotency keys | route, retry, record | one dispatch per key |
| **daemon singleton, repository-state lock** | lock files | take, break, release | as for the mutation lock |
| **merge gate** `src/frontend/server/src/governance/gate-store.mjs` | arm/disarm document with a sequence number | flip under a lock file | no flip is lost or clobbered by a stale panel |
| **front-end supervisor** `src/frontend/supervisor/src/supervisor.mjs` | child processes, status file | start, restart with backoff, give up, shut down | a fast-failing child stops; shutdown ends |
| **wakes** | hint files | write, drain | none needed for safety: polling is the fallback |
| **comment and alert delivery, health, reports, configuration, kernel parsing, Argus queue, front end** | delivery records, static data | I/O, parsing, rendering | outside the reach of a small-state model, or of the same shape as a modelled part |

How they interact:

- the watcher and the hammers contend for the same lane; the watcher's own pid
  is the holder of a daemon merge, so its lease survives the pass that took it;
- the lane's ledger is charged by the hammer's CLI and by the release of
  whichever client held the lease, and is read by everyone who asks for the
  lane;
- the reviewer row is written by the dispatch that claimed it, by the reconcile
  pass, by the startup recovery, by the lifecycle mirror, by re-review requests
  and by the operator, with awaits of GitHub and of child processes between the
  reads and the writes;
- reviewers are detached: they outlive the watcher and may post at any time;
- the follow-up daemon and the watcher's closer dispatch both start workers that
  push to the pull request's branch. There is no common lock: the daemon renames
  the job file and *then* reads the closer lease, the dispatch creates the lease
  and *then* reads the job directories;
- the finalization executor trusts only its ledger; its lease keeps a second
  executor away until a deadline, not until the action is over.

What is hard to test, and what the properties are about: state read before an
await or an unlock and used after it; a lock or claim judged stale while
somebody else replaces it; several files written one after the other with a
crash in between; releases and settlements that are retried or late; a watcher
that restarts while its reviewers run; counters at their caps. The full list,
each item at its line, is `hazards` in `PROJECT.json`.

## 2. Modules and how they correspond to the code

| module | role |
|---|---|
| `MutationLock` | the lock file of `withMutationLock`, one step per file-system call |
| `MutationLockProofs` | types, exclusion until a breach, refinement of `Lane`, the bound of the retry loop |
| `Lane` | abstract: one entitled client, the lane free between two of them. Implemented by the merge lane and the mutation lock |
| `MergeLease` | holder, waiters and ledger of one (repo, base), with all clients |
| `MergeLeaseProofs` | types, single booking, exclusion, refinement of `Lane` |
| `MergeQueueProofs` | one arrival per pull request, sticky parks, grants in queue order |
| `ReviewRow` | one row of `reviewed_prs` and those who claim, settle, recover and reset it |
| `ClaimRegister` | abstract: what a claimed row promises to reviewer sessions |
| `ReviewRowProofs` | types, process handles, posted heads, fenced claims, the recovery cap, refinement of `ClaimRegister` |
| `FollowUpQueue` | the job files of one pull request, the daemon, the watcher and the operator who move them |
| `CloserLease` | the launch of a closer: lease, intent, second look, submission, recovery |
| `BranchOwnership` | `FollowUpQueue` and `CloserLease` composed: who may push |
| `BranchOwnershipProofs` | types, the single writer, no job lost, operator's stops |
| `Upsets` | the budget of disturbances the two share |
| `FinalizationExecutor` | ledger, lease, eligibility and the executors of one subject |
| `FinalizationExecutorProofs` | types, the numbers of rounds, the lease's fence, merges on evidence, finality |
| `MC*` | constants and symmetry of the runs |

### MutationLock

`lockFile` is the content of `<lease>.mutation.lock`. A process links it
(`Link`), and if the link fails reads and judges it, removes it if stale and
tries again, up to `MaxAttempts` times. The clock is read once, when the
acquisition starts (`since`), so a slow contender judges with an old clock, and
a process can only see whether another *of its own host* is alive. `breached` is
a history variable: some removal deleted the lock of a critical section that was
not over. Up to the breach the processes inside implement `Lane`.

`Remaining(p)` counts the calls left in the retry loop of *p*; `AcquireShrinks`
says that it never grows.

### MergeLease over Lane

A step is one critical section of the mutation lock, or one unlocked read. The
sections that find the lock busy, or that die between two of their file writes,
are separate actions (`LockBusy`, `GrantTorn`, `ReleaseTorn`, ...), limited by
`MaxFaults`. That sections exclude each other is taken from `MutationLock`
(up to its breach, see the findings).

- `lease`, `waiters`, `attempts` are the three files. An arrival time is its
  rank; deadlines, backoff and expiry are events (`late`, `WaiterExpires`,
  `BackoffEnds`) that may happen at any moment.
- A hammer is an owner process (`owner`) plus an acquire CLI with a poll loop:
  `Charge` → `Precheck` → `Register` → `Inspect` → (`Reclaim` →) `Grant`, or
  `SelectRefused` → `PollAgain`, and at the deadline `GiveUp` → `Refund` →
  `Cleanup`. A daemon merge is one pass through the same steps by the watcher.
- `Inspect` reads the holder without the lock; `Reclaim` and the operator's
  `ReconcileAsk`/`ReconcileRetire`/`ReconcilePrune` act later on what was read
  (`seen`).
- `booked` is history: how often the release of the latest lease was booked, and
  how often a reconcile dropped that booking under the held lease. The prune of
  `reconcileMergeLeases` runs in a critical section of its own and looks at no
  holder, so it may meet a head that holds the lane again.
- Releases: `ReleaseTerminal` (merged or closed), `ReleaseNoMerge` (books the
  failure, refunds or parks), `ReleaseFenced` (somebody else's lease), and
  `ControllerRelease` for a hammer that died.

`Lane` has one variable, the set of entitled clients: at most one, changing
hands only through the empty set. The refinement mapping takes `entitled` to the
clients that were told they hold the lane and whose owner, pull request and
deadline have not ended it.

### ReviewRow

Each modelled SQL statement is an operator on `row`; its WHERE clause is the
guard and a miss leaves the row unchanged, as in SQLite (section 7 lists the
writers that are left out). Every stretch of a handler between
two awaits is one action.

- *Dispatch of session s*: `Admit` (the poll classifies the row and queues a
  candidate with what it saw), `Claim` (head lease and claim statement),
  `FreshnessRefuses`, `AdmissionRefuses`, `HcpNotReady`, `DispatchThrows`,
  `Spawn`, `RecordPgid`, `Post`, `Exit`, `Settle` (one disjunct per failure
  class).
- *Reconcile pass*: `ReconcileList` takes the snapshot `loop.snap`; the other
  `Reconcile*` actions follow it through its GitHub and process probes to
  `ReconcileWrite`, which lands on the row as it then is.
- *Restart*: `Crash` forgets everything in memory and lets reviewers run;
  startup reconciles once, requeues what the runtime cannot reattach
  (`BounceRequeue`) and starts polling.
- *Others*: orphan reclaim, finalisation of failures, credential re-arm, merged
  rows, lifecycle mirror, re-review, operator reset, time, GitHub.

Abstractions, each an over-approximation of the order or of the choice the code
makes unless said otherwise:

- time is the claim's `age`: fresh, aged (past the 60 s launch window and the
  300 s dead-reviewer grace, which are one threshold here), expired;
- `fail` is the class of the failure message; `infra` is the recovery counter as
  the SQL keeps it (`Charged`): a cascade whose retry is due counts past the
  cap;
- every review carries the commit it is about. The probes of the code also take
  a review without a `commit_id` for one of the row's head
  (`reviewer-reattach.mjs:313`, `:445`, `:912`), so `PostedHeadReviewed` holds of
  reviews that name their commit;
- attempt budgets, quotas and population retries are one class, "unknown";
- `Exit` also stands for the operator's review-cancel; `Rereview` for every
  statement that takes an idle row back to pending (refresh of a pending head,
  failed re-arm);
- the head lease and the claim are one step, and the read of the head is merged
  with the process probe; `AutoReclaim` and `RecoverPostedFailure` are atomic
  because their writes are fenced on everything they read;
- rows without a session, refused reviewer families and unknown reviewers, which
  the pass sends straight to `failed-orphan`, are left out.

`ClaimRegister` is the row as a reviewer session sees it: free or held by one
session, taken only when free, and by a session at most once. The mapping takes
`holder` to the session of a row in `reviewing` and `used` to the sessions that
are past their queue entry. A settlement, a restored pre-claim row or a requeue
may take a claim away, but no write hands it from one session to another or
gives it back to a session that lost it.

### FollowUpQueue, CloserLease and BranchOwnership

`file[j][d]` is the record of job *j* in directory *d*; a record that two
processes move at once may exist in two directories. Every move is two steps, the
first the write, the second the rename or removal (`FinishMove`), and a crash
may fall between them. The daemon carries a copy of the record it read (`mem`)
through its claim and its preparation, as the code does, and writes that copy
back: `Claim`, `Persist` and `BeatWrite` create the file again when it was taken
away meanwhile.

- *Claim*: `StartDrain` (reservations), `SeeJob` or `SkipJob` (read, closer
  lease), `TakeJob` (rename), `Recheck` (lease again), then `Claim`,
  `ClaimStops`, `ClaimStopFails` or `ClaimRefused`.
- *Preparation*: `Persist`, `PrepareEnds`, `PrepareRequeues`, `PrepareRetries`,
  `Spawn`, then `MarkSpawned` or `MarkRefused`.
- *Other steps of a tick*: `Reconcile*`, `BeatRead`/`BeatWrite`, `Sweep`, and
  `SweepDeferred`, the sweep whose terminal comment is not posted: the worker is
  signalled and the claim stays for the next tick. A sweep whose signal fails
  changes nothing and is a stutter.
- *Others*: `WatcherReclaims`, `WatcherReleases`, `OpCancel`, `OpHalt`,
  `OpRequeue`, workers that hang or exit, time, crash and restart.

`CloserLease` follows `maybeDispatchAmaCloser`: `Admit` (first look),
`AcquireLease`, `PublishIntent`, `ScanPending` and `ScanInProgress` (the second
look reads two directories one after the other), `Submit`, `Receipt`, or
`TargetMerged` when the live pull request turns out merged. A watcher that dies
or times out leaves lease and intent; `SettleIntent`, `SettleLaunch` and
`ReclaimDispatched` settle them later.

The orphan watchdog's dispatch (`recovery`) enters by `RecoverAdmit`, its proof
that nobody owns the pull request, instead of by `Admit`. It may then delete a
dispatched lease, and its second look is the same probe once more (`Look`): an
owner it finds makes it back off and leave its intent behind, while a probe that
is cut short or cannot read a record lets it go on, past an owner or not.

`BranchOwnership` runs both, each seeing the other only through what its code
reads: `DispatchActive` and the lease for the daemon, `PendingOwner` and
`InProgressOwner` for the dispatch. `heldCloserForJob` takes a lease it cannot
read for none, so the daemon may read "not held" at any time (`Readings`). Two
history variables say when the exclusion is given up: `overrode` (an owner's
record was gone, the owner was judged dead by age or by a dead process, or it was
passed over by a look that could not be completed) and `raced` (a requeue ended
while another process was half way through a move of the same job).

A worker that was sent SIGTERM is not waited for, neither by the sweep nor by a
stop, and its job may be claimed again while it still runs. `ActiveWorkers` are
the workers nobody has told to stop; `OneWriter` is about them and says nothing
of the signalled ones.

Abstractions: one pull request and one head; workers are local processes; a
timestamp is an age of 0 (within the five-minute custody grace), 1 or 2 (past
the stuck threshold); a hold is a flag that time or a quota check clears; which
gate stops a job and how a worker ended are free choices. Crashes, refused
writes, aging leases and operator commands draw on the budget `MaxUpsets`.

### FinalizationExecutor

`led` is the fold of the subject's ledger: appending an event applies it, which
is what `fold(read())` computes at the next read, and replays are dropped by
idempotency key as in the store's unique index. `Eligible` is `eligible()` with
its gate. A tick is cut at its awaits: `Tick` (lease), `Decide` (post-acquire
fold and decision), `CheckIdentity`, `Merge`, `Dispatch`, `Close`, each with
refusal, failure and lost answer, and the append after each. `since` is the age
of the tick's lease; nothing renews it, so an executor may be anywhere in its
tick when another steals the row. Producers record verdicts, checks and
conclusions about any head that exists, late or not; the operator overrides; the
brake is switched at any time. `cleared` and `covered` are history: heads that
were clean and green, heads whose final round's own worker completed. A worker runs
from the call of the remediation surface on (`started`), so it may conclude its
round before the dispatch is recorded, or although it never is. Without a close
surface (`CloseSurface`) `closed` is recorded while the pull request stays open;
the runs have one, the proofs cover both.

Abstractions: one subject; patience and TTL in ticks; no attestations (the
default policy consumes none); the lane routing in front of the merge is a
refusal among the others.

## 3. Runs

| run | instance | checks | shows |
|---|---|---|---|
| `mutation_lock` | 3 processes on 2 hosts, 2 attempts, clock 0..1 | `TypeOK`, `ExclusiveUntilBreach`, `AcquireReturns`, `ImplementsLane`, `AcquireShrinks` | the lock excludes until a lock is broken or removed under its holder, and is free between two holders; every attempt ends, and contention never lengthens it |
| `merge_lease_mixed` | a hammer and a daemon merge of two pull requests of equal urgency, 2 leases, an operator, the base moves once, 1 fault | `TypeOK`, `LaneExclusion`, `BookedOnce`, `NoOvertaking`, `ParkIsSticky` | counters in range, a torn and retried release booked once for each time its record is there, parks end only with the record or a new base; the operator retires only what it asked about; grants follow the arrivals, the remembered one of a hammer that comes back included |
| `merge_lease_hosts` | 2 hammers on 2 hosts, 2 heads of one PR, 1 renewal, 1 fault | `LaneExclusion`, `OneMemoryPerPr`, `ImplementsLane`, `NoOvertaking` | steals, renewals and expiries across hosts never make two holders; a waiter whose refresh takes its pull request's remembered arrival passes nobody who is ahead of that place |
| `review_row_heads` | 2 sessions, 2 heads, the settlements fenced by session | `HandleMatchesClaim`, `PostedHeadReviewed`, `ClaimKept`, `CapRespected`, `ImplementsRegister` | process handles never cross claims; a posted row names a head that was reviewed; a fenced settlement never takes another's claim; a row at its cap gets no recovery but that of a due cascade; a session claims once, and only a free row |
| `review_row_liveness` | 1 session, 2 heads, all failure classes, unreadable process table, fairness | `TypeOK`, `NoStuckClaim` | every modelled statement in every order keeps the columns typed, and a hung, dead or never spawned reviewer never pins the row |
| `branch_ownership` | 1 job, 1 round, no retry, 2 workers, at most 2 closers at once, 2 disturbances | `TypeOK`, `OneWriter`, `JobKept`, `HaltIsFinal` | the two claims never miss each other, in an ordinary dispatch or in the watchdog's; no interleaving of moves, crashes and commands loses a job or overwrites an operator's stop |
| `follow_up_liveness` | as above without the closer, 1 retry, fairness | `ClaimsEnd` | a written claim leaves in-progress whatever crashes or hangs, and though a sweep may skip it |
| `finalization_executor` | 2 executors, 2 heads, 2 rounds, 4 events, 1 fault, TTL and patience one tick | `TypeOK`, `LeaseFence`, `FinalizedIsMerged`, `MergedIsCleared`, `FinalizedIsDone`, `RoundIsNew` | only an overdue executor acts without its lease; what is recorded was merged, and once; a head lands on its own evidence; a round that is due is never taken for one already dispatched |
| four *violation* runs | as above | one property each | see section 6 |

Why the bounds are enough to meet the interesting cases:

- two processes are enough for the lock's race (`mutation_lock_exclusion`, whose
  clock stands still: no lock ages); the third lets a dead or overdue holder meet
  two contenders, one of them of another host;
- two leases allow a grant, its release and a second grant, with every
  race between the two; `MaxGate` 2 separates "charged" from "parked", and
  the fault tears a grant or a release that is then retried. No pull request of
  these runs carries the incident marker, so that arrival alone decides the
  queue (the proof covers every set of incidents). Both hammers of
  `merge_lease_hosts` belong to one pull request: a refresh that takes the
  remembered arrival there changes a waiter's place; three clients with a
  rival of another pull request are past five minutes and left to the proof;
- two workers are a worker and the one that a retry or a requeue starts beside
  it, two closers (`MaxClosers`) one and the one a second launch would add; two
  disturbances allow a crash of the daemon with one of the watcher, or
  of either with an aging lease or an operator command. With one job every
  record competes for the same files; two disturbances also allow the stop and
  the requeue that meet half way (`raced`);
- two executors, one tick of TTL: the second may act at every point of the first
  one's tick. Two heads are a merge in flight and the push under it; four events
  are a verdict, checks, an exhausted budget and a conclusion. `MaxRounds` ends
  the exploration; the code itself has no cap on the rounds of a head;
- two sessions and two heads are a dispatch and the one that replaces it, on
  the same head or on the next. `InfraCap` 1 puts every statement both below and
  at the cap;
- lease ids, arrival ranks, renewals, pushes and sessions are bounded in the
  guards; behaviours end there, which is why the merge and row runs say
  `CHECK_DEADLOCK FALSE`. `mutation_lock` has no such end and checks deadlock.

`review_row_heads` takes the failure classes whose statements carry the session
fence, because the other ones break `ClaimKept` (run `review_row_settlement`).
Sessions are symmetric in `review_row_heads`; the liveness run uses no symmetry.

Each checked property has a mutant in `PROJECT.json`: a small change of a mapped
definition that a plausible bug would make (a dropped fence, an uncapped
counter, a threshold that ignores the lease), under which TLC finds the property
violated in the same run.

## 4. Fairness

`MutationLock` (`AcquireReturns`): weak fairness of each process's own steps.
`acquireMutationLock` is a synchronous loop with a counter; a process that is
not dead goes on with it. A crash ends the obligation.

`ReviewRow` (`NoStuckClaim`): weak fairness of time, of listing and of the
pass's local steps, since the watcher polls for ever and a pass it began runs to
its end; strong fairness of the four GitHub probes, because a probe may fail and
is tried again by a later pass, and one that is tried for ever succeeds some
time; weak fairness of the exit of a reviewer that *has posted*, whose claim the
pass keeps without a deadline by design. Nothing is assumed of reviewers that
have not posted nor of dispatches. The property itself is conditional on a
watcher that stays up and a pull request whose state settles.

`FollowUpQueue` (`ClaimsEnd`): weak fairness of the daemon's own steps, of the
restart its supervisor performs and of the end of a preparation, whose calls have
timeouts (which end is free); strong fairness of the reconcile pass and of the
sweep of each job, which the tick loop reaches again and again but which a drain
in between disables, and which a failed lookup, signal or comment leaves undone
(`src/src/follow-up-stuck-claim-sweep.mjs:869`, `:1001`): strong fairness assumes
that these calls do not fail for ever at one job, which the code neither bounds
nor escalates; weak fairness of time and of the exit of a worker that is
signalled or still makes progress. Nothing is assumed of a hung worker: the sweep
must find it. Disturbances are bounded, so crashes end.

`MergeLease` states no liveness: a waiter's turn depends on how long holders
hold, which nothing in the code bounds on one host.

## 5. Proofs

For every set of processes, hosts, clients, heads and pull requests and every
value of the bounds:

**`MutationLockProofs`**
- `TypeCorrect`: `Spec => []TypeOK`.
- `ExclusionUntilBreach`: `Spec => []ExclusiveUntilBreach`. Exclusion alone is
  not inductive: the invariant adds that, until the breach, the lock file names
  exactly the process that is in its critical section.
- `LockRefinement`: `Spec => ImplementsLane`. A process enters by the exclusive
  link, hence only while the file is absent and, by the invariant, nobody is
  inside (`NoHandover`).
- `AcquisitionShrinks`: `Spec => AcquireShrinks`, the safety half of
  `AcquireReturns`: the measure 3 · (unspent attempts) + (position in the
  iteration) falls with every call of the process and is untouched by others.

**`MergeLeaseProofs`**
- `TypeCorrect`, `BookingIsIdempotent`: the ledger's counters stay within
  `0..MaxGate`, and one lease is booked at most once more than its booking was
  dropped by a reconcile. `TypeOK` alone is not inductive, since a booking
  increments `consecutive`. `LedgerOK` adds the reason why it cannot overflow: a
  record that is not parked has `consecutive < MaxGate`; a held lease whose id
  is not on record belongs to such a head, and all its bookings were dropped.
- `LaneIsExclusive`: `Spec => []LaneExclusion`. The strengthening `LaneInv` says
  that ids on disk were issued, that what an actor read was once the holder, that
  a client that was told it holds has its own record in `seen`, and, the heart of
  it, that a lease some actor is about to reclaim is *condemned*: its holder is
  gone, its deadline passed for another host, or its pull request closed. The
  reclaim's re-read under the lock can therefore only remove what nobody is
  entitled to.
- `NoHandover` and `Refinement`: every step of the detailed lane is a step of
  `Lane` or a stutter, hence `Spec => ImplementsLane`.

**`ReviewRowProofs`**
- `TypeCorrect` and `HandleMatches` come from one invariant, `Handled`: every
  row *held anywhere* pairs a process group with its own session: the row itself,
  the snapshot of the pass, and the row each dispatch remembers (`was`). The
  remembered rows are needed because a claim that is not executed is put back
  from memory (`RestorePreClaim`); the snapshot because the pass adopts a process
  group into it. Each SQL statement is shown once to take handled rows to handled
  rows, and the actions cite those lemmas.
- `PostedIsReviewed`: `PostedInv` adds that a session that was never spawned has
  posted nothing, that no claim was taken on a posted row, and that a pass that
  will write a post has seen the review; `Keeps` says that no step, a crash
  included, takes a review back.
- `FencedClaimsKept`: for `Failures` within the fenced classes, `Spec =>
  ClaimKept`. It rests on `NoDispatchYet` (a watcher that has not begun to poll
  has no dispatch, so the startup requeue cannot meet one of its own) and on
  `Handled` (the operator's reset that saw the recorded group gone saw the
  reviewer gone). The hypothesis is needed: with any of the unfenced classes the
  statement is false (`review_row_settlement`).
- `CapIsRespected`: `Spec => CapRespected`. Only claims, restores, requeues and
  reclaims write the counter, and each is shown to check the cap where it writes,
  but for the cascade whose retry is due and the restore of a pre-claim row. A
  pass checks the cap in its snapshot; the property speaks of it while the
  snapshot still has the row's count.
- `RowIsRegister`: `Spec => ImplementsRegister`, for *every* set of failure
  classes, the unfenced ones included: a late settlement can clear a
  replacement's claim but never install one. The one write that could is the
  restore of the remembered pre-claim row, which is why the invariant
  (`FreeBefore`) says that a dispatch that may still restore remembers a row that
  nobody held.

**`MergeQueueProofs`**
- `MemoryIsUnique` and `ParksStick`: every step is either *tame* (it writes no
  arrival and lifts no park but with the record or for a new base) or books the
  release of the lease on disk. A booking writes an arrival only for a closer,
  after all heads of its pull request have forgotten theirs, and carries an
  earlier park over. `MemoryInv`, pairwise equality, replaces the cardinality.
- `GrantsFollowQueue`: `NoOvertaking` compares waiters with the arrival in the
  new holder record. The queue decides by the grantee's *waiter*, so the proof
  needs `RankInv`: the live waiter of a client between its registration and its
  grant stands at the place the client registered with. The one write that puts
  a waiter elsewhere, the requeue of a released daemon merge, is by a pass that
  has left admission (`OwnRecord`, from `LaneInv`).

**`BranchOwnershipProofs`** (any number of jobs, workers, rounds, retries and
closers)
- `TypeCorrect`: the disturbances of both sides draw on one budget; the rounds
  and retries of a job stay within theirs by `QueueInv`.
- `SingleWriter`: `Spec => []OneWriter`. `WriterInv` says, until an owner is
  overruled: at most one worker is active, and none while the daemon looks for a
  job; nobody is committed to a worker while a launch is engaged; the lease and
  the intent record trace every closer that may run (`LaunchTraced`), so that no
  recovery finds a running closer without its lease, the watchdog's included: it
  is admitted only where the ledger shows no launch that runs. That both sides write
  first and read second is used exactly there: the later of the two writes is
  seen by the other side's read.
- `JobsKept`: `Spec => []JobKept`. Half-finished moves are the difficulty. A move
  whose removal is still due is *covered* (`MoveCovered`): the job already has
  its file in the directory it moves to, or one in `stopped/`, which only a
  requeue leaves, or a race was recorded; and the daemon never writes back a copy
  of nothing (`CopyPresent`). Steps that start or end no move are
  *preserving*; `FinishKeeps` is the second half of a move.
- `HaltsAreFinal`: `Spec => HaltIsFinal`. A terminal record is created and never
  replaced, so what could disturb an operator's stop is the second half of a
  move out of `stopped/`. `HaltInv`: such a move is a requeue of the operator's,
  of a record that is not an operator's stop, and none becomes one while the
  requeue is under way, since the operator is busy with it.

**`FinalizationExecutorProofs`** (any number of executors, heads and rounds)
- `TypeCorrect`: the types alone are not inductive; `SoundTicks` adds that an
  executor that carries a decision out knows its head and its round. The first
  final dispatch of a head is the minimum of a nonempty set of positions, whose
  existence comes from the well-founded order of the naturals. Round numbers are
  typed by the exploration bound; what the code itself ensures of them is the
  next theorem.
- `RoundsAreNew`: `Spec => []RoundIsNew`. A round is numbered by the count of
  rounds recorded at its head, by an executor that may have lost its lease when
  it records it. `Numbered`: no recorded number is above the count of rounds
  recorded at its head, since a number decided earlier was decided on a smaller
  count; hence count + 1 is new.
- `LeaseIsFenced`: a lease changes hands only when free, expired or released by
  its own executor, and no clock runs backwards within a tick (`ClockStays`).
- `MergeIsCleared`, `FinalizationIsMerge`: `LandInv` follows a merge through the
  tick that decided it: what is clean and green was recorded as such; an executor
  on its way to the merge decided at a head that may land; one about to record
  the merge sees the pull request merged at that head. Evidence may be recorded
  meanwhile, but no event takes a completed round back (`Keeps`).
- `FinalizationIsFinal`: a second finalization, by an executor that lost its
  lease, is of the same merge (`LandInv`); and the done check of `applyDecision`
  looks at the finalized revision and not at the terminal mark, so a late mark or
  an override that resumes the subject starts nothing (`ActingDrains`).

Assumed: the named assumptions on the constants (disjoint actors, functions on
their domains, natural bounds), which TLC evaluates in the runs.

Only model-checked: `AcquireReturns`, `NoStuckClaim` and `ClaimsEnd`, since
liveness under fairness and ENABLED are outside this prover (of the first, the
decreasing measure is proved: `AcquisitionShrinks`). Every other property of a
passing run is also a theorem.

## 6. Where the code disagrees with what the repository says

| run | what happens | what the repository says |
|---|---|---|
| `mutation_lock_exclusion` | a contender whose link failed reads the lock file after the holder has left; the absent file counts as stale, and its removal deletes the lock the next critical section has just linked: both are inside, without a crash or an aged lock | "Serialize queue selection, holder creation and served-waiter removal." (`src/src/ama/merge-lease.mjs:1213`) |
| `review_row_settlement` | a dispatch that settles late as a transient failure clears the claim that replaced it | "never ... overwrite a replacement claim" (`src/src/review-state-statements.mjs:24`) |
| `finalization_coverage` | an ordinary round recorded late by an executor whose lease was stolen has the number of the final round; its `completed` lands the pull request as the final round's coverage | "final remediation with schema-validated coverage of every outstanding finding, followed by landing" (`src/docs/SPEC-merge-authority-v2.md:129`) |
| `follow_up_stranded` | a crash or a refused write between the rename and the claim write leaves a `pending` record in `in-progress/`: reconcile skips it, the sweep's requeue throws on it every tick, and it keeps its pull request out of every drain | "which the next tick recovers from via the in-progress reconcile path" (`src/scripts/adversarial-follow-up-daemon.mjs:361`) |

Met while modelling, and part of the models, without a run of their own:

- *Lane*: a waiter's refresh takes the arrival remembered for the pull request
  (`merge-lease.mjs:1031`) where the docs say it keeps its own; the daemon's
  release ignores a busy lock (`daemon-merge.mjs:720`) and the live watcher's pid
  then keeps the lease. The prune after a retire (`merge-lease.mjs:1722`) drops
  the record of a head without looking at the holder: a release of that head's
  next lease that was booked and torn is then booked a second time
  (`booked.dropped`).
- *Row*: the reconcile pass requeues on the status alone after two GitHub calls
  (`reviewer-reattach.mjs:373`); three retry claims have no condition on the pull
  request's state (`review-state-statements.mjs:175`).
- *Follow-up queue*: an operator's stop of a job that is claimed and not yet
  spawned is undone by the daemon's next write of its copy; a requeue that ends
  in the middle of somebody else's terminal move loses the job file (`raced`);
  a worker that was sent SIGTERM may still push beside its successor;
  the runtime cap fails the job and leaves the worker running; retries of the
  push preflight are not held to the retry limit; the five-minute custody of a
  claim that has no worker yet is shorter than a preparation can take.
- *Closer*: the lease's deadline counts from its acquisition, the submission's
  timeout from the submission; a probe of the watchdog that runs out of time lets
  the launch go on, and an unreadable lease the remediation; a pending lease of a dead watcher counts as free
  although its submission may have succeeded; a reservation read when a drain
  starts is not read again.
- *Executor*: the lease is never renewed while a surface is awaited; a round is
  dispatched again at every tick until its conclusion is recorded; a `closed`
  mark overwritten by a late `escalated` can be resumed. The executor ships gated
  off.

## 7. What is not modelled, and why

- *Merge lane*: reuse of pids (a reused pid makes a dead holder look alive);
  delivery of wakes; the history file; the git checks of a release that needs
  revalidation (their outcome is a free choice); the age limit of attempt
  records.
- *Review row*: migrations, captured bodies, close-out records, the Argus queue,
  budgets of attempts and the abstractions of section 2. Writers of the row that
  belong to other components and are left out: the override of the review-cycle
  cap, which writes `posted` whatever the row holds
  (`review-cycle-cap-actions.mjs:359-367`), the decline of a closer-head
  re-review (`closer-head-rereview-decline.mjs:68-83`, `:110-118`), the fleet's
  self-repair (`fleet-self-repair-rereview.mjs:388-403`), the reconcile of
  orphaned posts (`orphan-post-reconcile.mjs:90-100`), the reaper of reviewer
  passes (`reviewer-pass-reaper.mjs:316-332`) and the admission of the hammer's
  close (`hamclose-review-admission.mjs:37`). What the row properties say, they
  say of the writers of section 2.
- *Daemon merge and closure*: eligibility, labels and the merge call itself are
  free outcomes.
- *Follow-up queue*: HQ launches (their liveness is read from another service),
  branch resolution, CI waits, reply parsing, comments and the reaper of finished
  pull requests; a removal that fails although the file is there, after which a
  terminal move takes its own record back.
- *Closer*: heads and the rekeying of a lease, retry caps, harness choice,
  teardown of a holder of the same pull request, worktrees.
- *Executor*: attestations, lease renewal (nothing calls it), the v2 queue behind
  lane routing.
- *Text*: review bodies, prompts, comments, reports, dashboards.
- *Atomic writes*: write, fsync, rename is one step wherever it is used.

## 8. Plan

Done, in this order: the mutation lock; the abstract lane and the merge lease
with all clients; the review row with dispatch, reconcile, restart and operator;
the follow-up queue and the closer launch, composed; the finalization executor;
for each of them the proofs of section 5, and the abstract specification that it
is proved to implement where it has one (`Lane` for lock and lane,
`ClaimRegister` for the row).

Next:

1. `BranchOwnership` with `MergeLease`: a reclaimed closer that still holds the
   lane.
2. `Singleton`: daemon singleton and repository-state lock, against `Lane`, as
   `MutationLock`.
3. `MergeGate`: the arm/disarm document (no flip is lost, a stale panel cannot
   clobber one), and `Supervisor`: restart, backoff and shutdown of the front
   end's processes.
4. `ReviewerPool`: slot caps and starvation of candidates; `AgentRuntime`:
   idempotency keys of dispatches; the v2 merge queue.
