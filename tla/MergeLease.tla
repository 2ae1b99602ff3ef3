----------------------------- MODULE MergeLease -----------------------------
(***************************************************************************)
(* The merge lane of one (repo, base): the holder file, the waiter queue   *)
(* and the gate-attempt ledger of src/src/ama/merge-lease.mjs, with the    *)
(* callers that drive them: the acquire/release CLI of a hammer (closer),  *)
(* the watcher's daemon merge, and the operator's reconcile command.       *)
(*                                                                         *)
(* A step is one critical section of the per-base mutation lock (what the  *)
(* lock itself guarantees is the subject of MutationLock) or one unlocked  *)
(* read; a section that finds the lock busy, or that stops between two of  *)
(* its file writes, has a step of its own.  Wall-clock comparisons (lease  *)
(* and waiter deadlines, backoff, arrival memory) are events that may      *)
(* happen at any moment; an arrival time is its rank in the arrival order. *)
(***************************************************************************)
EXTENDS Naturals, FiniteSets

CONSTANTS
  Closers,      \* hammers: each is an owner process plus its acquire CLI
  Daemons,      \* daemon merges, each of one PR head; one watcher runs them
  Operators,    \* invocations of the operator's merge-lease reconcile
  HeadOf,       \* [Clients -> Heads]
  PrOf,         \* [Heads -> Prs]
  HostOf,       \* [Actors -> hosts]
  Closable,     \* PRs that may be merged or closed during a behaviour
  Incidents,    \* PRs whose body carries the deploy-incident marker
  NoLease,      \* the holder file does not exist
  MaxGate,      \* AMG_MAX_GATE_ATTEMPTS
  MaxLeases, MaxStamps, MaxRenewals, MaxBase,  \* bounds of the counters
  MaxFaults     \* bound on deaths, busy locks, torn writes and expiries

Clients == Closers \cup Daemons
Actors == Clients \cup Operators
Heads == DOMAIN PrOf
Prs == {PrOf[h] : h \in Heads}
Pr(c) == PrOf[HeadOf[c]]

LeaseIds == 1 .. MaxLeases
Lease == [id : LeaseIds, client : Clients, renewals : 0 .. MaxRenewals,
          arrived : 0 .. MaxStamps]    \* of the waiter it was granted to
Waiter == [client : Clients, arrived : 0 .. MaxStamps,
           delayed : BOOLEAN,      \* notBefore is still in the future
           dead : BOOLEAN]         \* its process is gone
Attempt == [charged : 0 .. MaxGate,       \* attempts
            consecutive : 0 .. MaxGate,   \* consecutiveNoMergeReleases
            parked : BOOLEAN,             \* parkedReason is set
            cooling : BOOLEAN,            \* nextEligibleAt is in the future
            leaseId : 0 .. MaxLeases,     \* noMergeLeaseId, 0 if none
            memory : 0 .. MaxStamps,      \* queueArrivedAt, 0 if none
            base : 0 .. MaxBase]          \* baseSha

NoAttempt == [charged |-> 0, consecutive |-> 0, parked |-> FALSE,
              cooling |-> FALSE, leaseId |-> 0, memory |-> 0, base |-> 0]

Bookings == [times : Nat, dropped : Nat]
NoBookings == [times |-> 0, dropped |-> 0]

ASSUME ConstantsAssumption ==
  /\ Closers \cap Daemons = {}
  /\ Clients \cap Operators = {}
  /\ HeadOf \in [Clients -> Heads]
  /\ Incidents \subseteq Prs /\ Closable \subseteq Prs
  /\ NoLease \notin Lease
  /\ MaxGate \in Nat \ {0}
  /\ {MaxLeases, MaxStamps, MaxRenewals, MaxBase, MaxFaults} \subseteq Nat

VARIABLES
  lease,      \* <base>.json: the holder record, or NoLease
  waiters,    \* <base>.waiters.json
  attempts,   \* <base>.attempts.json, by head
  pc, seen,   \* per actor: its step, and the holder record it last read
  rank,       \* per actor: arrivedAt of the waiter it registered last
  owner,      \* per closer: is the process named by --owner-pid running?
  gone, late, \* ids of leases whose holderPid is dead / whose deadline passed
  prOpen,     \* PRs that GitHub reports OPEN
  base,       \* tip of the base branch
  issued, stamp,  \* lease ids and arrival ranks used so far
  faults,     \* deaths, busy locks, torn writes and expiries so far
  booked      \* history of the latest lease: how often its no-merge release was
              \* booked, and how often a booking was dropped under it

local == <<pc, seen, rank>>
files == <<lease, waiters, attempts>>
clock == <<gone, late, prOpen, base>>
vars == <<files, local, owner, clock, issued, stamp, booked, faults>>

Polling ==
  {"sweep", "precheck", "check", "register", "inspect", "reclaim", "select", "wait"}
Steps == Polling \cup {"idle", "holding", "refused", "timedout", "cleanup",
                       "withdraw", "ask", "retire", "prune"}

\* Every field of the files and every actor's position is within its range.
TypeOK ==
  /\ lease \in Lease \cup {NoLease}
  /\ waiters \subseteq Waiter
  /\ attempts \in [Heads -> Attempt]
  /\ pc \in [Actors -> Steps]
  /\ seen \in [Actors -> Lease \cup {NoLease}]
  /\ rank \in [Actors -> 0 .. MaxStamps]
  /\ owner \in [Closers -> BOOLEAN]
  /\ gone \subseteq LeaseIds
  /\ late \subseteq LeaseIds
  /\ prOpen \subseteq Prs
  /\ base \in 0 .. MaxBase
  /\ issued \in 0 .. MaxLeases
  /\ stamp \in 0 .. MaxStamps
  /\ booked \in Bookings
  /\ faults \in 0 .. MaxFaults

Init ==
  /\ lease = NoLease
  /\ waiters = {}
  /\ attempts = [h \in Heads |-> NoAttempt]
  /\ pc = [a \in Actors |-> "idle"]
  /\ seen = [a \in Actors |-> NoLease]
  /\ rank = [a \in Actors |-> 0]
  /\ owner = [c \in Closers |-> FALSE]
  /\ gone = {} /\ late = {}
  /\ prOpen = Prs
  /\ base = 0
  /\ issued = 0 /\ stamp = 0
  /\ booked = NoBookings
  /\ faults = 0

\* Actor a goes on to another step; what it read and the place it registered
\* are local variables, forgotten where the code no longer uses them.
GotoWith(a, step, read, place) ==
  /\ pc' = [pc EXCEPT ![a] = step]
  /\ seen' = [seen EXCEPT ![a] = read]
  /\ rank' = [rank EXCEPT ![a] = place]

Goto(a, step) ==
  GotoWith(a, step,
           IF step \in {"holding", "reclaim", "ask", "retire", "prune"} THEN seen[a] ELSE NoLease,
           IF step \in {"inspect", "reclaim", "select"} THEN rank[a] ELSE 0)

\* The processes of actors as are gone.
Stop(as) ==
  /\ pc' = [a \in Actors |-> IF a \in as THEN "idle" ELSE pc[a]]
  /\ seen' = [a \in Actors |-> IF a \in as THEN NoLease ELSE seen[a]]
  /\ rank' = [a \in Actors |-> IF a \in as THEN 0 ELSE rank[a]]

\* Something goes wrong; how often is bounded.
Fail == faults < MaxFaults /\ faults' = faults + 1

-----------------------------------------------------------------------------
(* The waiter queue                                                        *)

\* The waiter registered by c's current invocation: a dead one has another id.
Own(c) == {w \in waiters : w.client = c /\ ~w.dead}

\* The same queue once the processes of clients cs have died.
Orphaned(ws, cs) == {IF w.client \in cs THEN [w EXCEPT !.dead = TRUE] ELSE w : w \in ws}

\* pruneMergeLeaseWaitersUnlocked on actor a's host: only a confirmed death
\* on that host removes a waiter (expired ones are removed by WaiterExpires).
Pruned(ws, a) == {w \in ws : ~(w.dead /\ HostOf[w.client] = HostOf[a])}

\* sortWaiters: incident requests first, then arrival order.
Precedes(v, w) ==
  LET urgent(u) == Pr(u.client) \in Incidents
  IN  \/ urgent(v) /\ ~urgent(w)
      \/ (urgent(v) <=> urgent(w)) /\ v.arrived < w.arrived

\* Mutant of FirstReady: any ready waiter may be served.
FirstReadyUnordered(c, ws) == \E w \in Own(c) : ~w.delayed

\* readyWaiters[0] is c's own waiter, or no waiter is ready.
FirstReady(c, ws) ==
  LET ready == {w \in ws : ~w.delayed}
  IN  \/ ready = {}
      \/ \E w \in ready : w \in Own(c) /\ \A v \in ready : ~Precedes(v, w)

\* Daemon reservations of one PR for any head but those in keep.
Obsolete(pr, keep) ==
  {w \in waiters : w.client \in Daemons /\ Pr(w.client) = pr /\ HeadOf[w.client] \notin keep}

-----------------------------------------------------------------------------
(* The attempt ledger                                                      *)

\* closerArrival: the head of this PR whose record remembers an arrival.
Remembering(pr) == {h \in Heads : PrOf[h] = pr /\ attempts[h].memory # 0}

\* Mutant of Forget: other heads of the PR keep their arrival.
ForgetNothing(ledger, pr) == ledger

\* clearCloserArrivals
Forget(ledger, pr) ==
  [h \in Heads |-> IF PrOf[h] = pr THEN [ledger[h] EXCEPT !.memory = 0] ELSE ledger[h]]

\* Mutant of Refunded: Math.max(0, ...) is missing.
RefundedUnclamped(r) == [r EXCEPT !.charged = @ - 1]

\* The provisional charge of one acquisition is given back.
Refunded(r) == [r EXCEPT !.charged = IF @ = 0 THEN 0 ELSE @ - 1]

\* Mutant of NoMergeRecord: an earlier park is not carried over.
NoMergeRecordUnparking(l, o) ==
  LET r == attempts[HeadOf[l.client]]
      streak == IF o = "refusal" THEN r.consecutive + 1 ELSE 0
      parked == streak >= MaxGate
  IN  [(IF o = "yield" THEN Refunded(r) ELSE r) EXCEPT
         !.consecutive = streak, !.parked = parked, !.cooling = TRUE, !.leaseId = l.id,
         !.memory = IF parked THEN 0 ELSE IF l.client \in Closers THEN l.arrived ELSE @]

\* The record recordNoMergeRelease writes for lease l under outcome o.
NoMergeRecord(l, o) ==
  LET r == attempts[HeadOf[l.client]]
      streak == IF o = "refusal" THEN r.consecutive + 1 ELSE 0
      parked == r.parked \/ streak >= MaxGate
  IN  [(IF o = "yield" THEN Refunded(r) ELSE r) EXCEPT
         !.consecutive = streak,
         !.parked = parked,
         !.cooling = TRUE,
         !.leaseId = l.id,
         !.memory = IF parked THEN 0 ELSE IF l.client \in Closers THEN l.arrived ELSE @]

\* Mutant of Booked: noMergeLeaseId is not compared.
BookedNever(l) == FALSE

\* recordNoMergeRelease, first write: one booking per lease id.
Booked(l) == attempts[HeadOf[l.client]].leaseId = l.id

BookRelease(l, o) ==
  LET h == HeadOf[l.client]
      r == NoMergeRecord(l, o)
      others == IF l.client \in Closers \/ r.parked THEN Forget(attempts, PrOf[h]) ELSE attempts
  IN  IF Booked(l)
      THEN UNCHANGED <<attempts, booked>>
      ELSE /\ attempts' = [others EXCEPT ![h] = r]
           /\ booked' = [booked EXCEPT !.times = @ + 1]

\* recordNoMergeRelease, second write: every waiter of the head leaves; the
\* daemon's own reservation re-enters at the tail, delayed, unless parked.
Requeued(l) ==
  LET h == HeadOf[l.client]
      rest == {w \in waiters : HeadOf[w.client] # h}
  IN  IF l.client \in Daemons /\ ~attempts'[h].parked
      THEN rest \cup {[client |-> l.client, arrived |-> stamp + 1, delayed |-> TRUE, dead |-> FALSE]}
      ELSE rest

Restamp(l) ==
  IF l.client \in Daemons /\ ~attempts'[HeadOf[l.client]].parked
  THEN stamp < MaxStamps /\ stamp' = stamp + 1
  ELSE UNCHANGED stamp

-----------------------------------------------------------------------------
(* Acquisition                                                             *)

\* runAcquire up to recordMergeLeaseGateAttempt: a live owner's CLI charges a
\* provisional attempt; a base other than the recorded one starts afresh.
Charge(c, b) ==
  /\ pc[c] = "idle"
  /\ owner' = [owner EXCEPT ![c] = TRUE]
  /\ LET h == HeadOf[c]
         r == IF attempts[h].base = b THEN attempts[h]
              ELSE [attempts[h] EXCEPT !.charged = 0, !.consecutive = 0,
                                       !.parked = FALSE, !.cooling = FALSE]
     IN  \/ r.parked /\ UNCHANGED <<attempts, local>>
         \/ /\ ~r.parked /\ r.charged >= MaxGate
            /\ attempts' = [Forget(attempts, PrOf[h]) EXCEPT ![h] = [r EXCEPT !.parked = TRUE, !.memory = 0]]
            /\ UNCHANGED local
         \/ /\ ~r.parked /\ r.charged < MaxGate
            /\ attempts' = [attempts EXCEPT ![h] = [r EXCEPT !.charged = @ + 1, !.base = b]]
            /\ Goto(c, "precheck")
  /\ UNCHANGED <<lease, waiters, clock, issued, stamp, booked, faults>>

\* withDaemonMergeReservation begins a watcher pass for d's head.
BeginPass(d) ==
  /\ pc[d] = "idle"
  /\ waiters' = waiters \ Obsolete(Pr(d), {HeadOf[d]})
  /\ Goto(d, "precheck")
  /\ UNCHANGED <<lease, attempts, owner, clock, issued, stamp, booked, faults>>

\* A client told that its head is parked: the CLI refunds, the pass withdraws.
Refuse(c) == Goto(c, IF c \in Closers THEN "refused" ELSE "withdraw")

\* inspectMergeLease and reclaimIfStale's decision, by actor a: a dead pid on
\* its own host, or a passed deadline on another host.
Stale(l, a) ==
  \/ l.id \in gone /\ HostOf[l.client] = HostOf[a]
  \/ l.id \in late /\ HostOf[l.client] # HostOf[a]

\* Mutants of HolderMatches: acquiredAt is not compared; nothing is.
HolderMatchesById(l, fence) == l # NoLease /\ fence # NoLease /\ l.id = fence.id

HolderMatchesAny(l, fence) == l # NoLease

\* holderMatches: the record is still the one that was read; renewMergeLease
\* changes acquiredAt, so a renewed lease no longer matches.
HolderMatches(l, fence) ==
  l # NoLease /\ fence # NoLease /\ l.id = fence.id /\ l.renewals = fence.renewals

\* releaseMergeLease for 'steal' and 'expiry', fenced by what a read: books
\* nothing.  The CLI does this once before and once inside acquireMergeLease.
Reclaim(a) ==
  /\ pc[a] \in {"sweep", "reclaim"}
  /\ lease' = IF HolderMatches(lease, seen[a]) THEN NoLease ELSE lease
  /\ waiters' = IF HolderMatches(lease, seen[a]) \/ (pc[a] = "reclaim" /\ a \in Clients)
                THEN Pruned(waiters, a) ELSE waiters
  /\ Goto(a, CASE a \in Operators -> "idle"
               [] a \notin Operators /\ pc[a] = "sweep" -> "check"
               [] a \notin Operators /\ pc[a] = "reclaim" ->
                    IF HolderMatches(lease, seen[a]) THEN "select" ELSE "wait")
  /\ UNCHANGED <<attempts, owner, clock, issued, stamp, booked, faults>>

\* A poll starts: the CLI reclaims a stale holder first; acquireMergeLease then
\* takes an unlocked look at the attempt record.
Precheck(c) ==
  /\ pc[c] \in {"precheck", "check"}
  /\ IF pc[c] = "precheck" /\ c \in Closers /\ lease # NoLease /\ Stale(lease, c)
     THEN GotoWith(c, "sweep", lease, 0)
     ELSE IF attempts[HeadOf[c]].parked THEN Refuse(c) ELSE Goto(c, "register")
  /\ UNCHANGED <<files, owner, clock, issued, stamp, booked, faults>>

\* The record of the head, or the one that remembers the PR's arrival, has its
\* nextEligibleAt in the future.
Backoff(c) ==
  \/ attempts[HeadOf[c]].cooling
  \/ c \in Closers /\ \E g \in Remembering(Pr(c)) : attempts[g].cooling

\* upsertMergeLeaseWaiter: the remembered arrival of the PR, else the rank
\* the invocation already has, else a fresh one at the tail.  A parked head
\* leaves the queue instead.
Rank(c) ==
  LET known == IF c \in Closers THEN Remembering(Pr(c)) ELSE {}
  IN  IF known # {} THEN {attempts[g].memory : g \in known}
      ELSE IF Own(c) # {} THEN {w.arrived : w \in Own(c)}
      ELSE {stamp + 1}

Register(c) ==
  /\ pc[c] = "register"
  /\ \E r \in Rank(c) :
       LET others == {w \in waiters : w.client # c \/ (c \in Closers /\ w.dead)}
           entry == [client |-> c, arrived |-> r, dead |-> FALSE,
                     delayed |-> Backoff(c) \/ \E w \in Own(c) : w.delayed]
       IN  /\ r <= MaxStamps
           /\ stamp' = IF r > stamp THEN r ELSE stamp
           /\ GotoWith(c, "inspect", NoLease, r)
           /\ waiters' = IF attempts[HeadOf[c]].parked THEN others ELSE others \cup {entry}
  /\ UNCHANGED <<lease, attempts, owner, clock, issued, booked, faults>>

Inspect(c) ==
  /\ pc[c] = "inspect"
  /\ \/ lease = NoLease /\ Goto(c, "select") /\ UNCHANGED waiters
     \/ /\ lease # NoLease /\ Stale(lease, c)
        /\ GotoWith(c, "reclaim", lease, rank[c])
        /\ UNCHANGED waiters
     \/ /\ lease # NoLease /\ ~Stale(lease, c)
        /\ waiters' = Pruned(waiters, c)
        /\ Goto(c, "wait")
  /\ UNCHANGED <<lease, attempts, owner, clock, issued, stamp, booked, faults>>

\* The locked admission of acquireMergeLease refuses: the head is parked or
\* backing off, another waiter is ahead, or a holder exists.
Admissible(c) ==
  /\ ~attempts[HeadOf[c]].parked
  /\ ~Backoff(c)
  /\ FirstReady(c, Pruned(waiters, c))
  /\ lease = NoLease

SelectRefused(c) ==
  /\ pc[c] = "select"
  /\ ~Admissible(c)
  /\ waiters' = Pruned(waiters, c)
  /\ IF attempts[HeadOf[c]].parked THEN Refuse(c) ELSE Goto(c, "wait")
  /\ UNCHANGED <<lease, attempts, owner, clock, issued, stamp, booked, faults>>

\* The holder record: the exclusive link of acquireMergeLease.
OwnerRuns(c) == c \in Daemons \/ owner[c]

WriteHolder(c) ==
  /\ issued < MaxLeases
  /\ issued' = issued + 1
  /\ booked' = NoBookings
  /\ lease' = [id |-> issued + 1, client |-> c, renewals |-> 0, arrived |-> rank[c]]

\* ... followed by the grant's history row and the served waiter's removal.  A
\* CLI whose owner died while it waited still takes the lease in its name.
Grant(c) ==
  /\ pc[c] = "select"
  /\ Admissible(c)
  /\ WriteHolder(c)
  /\ waiters' = Pruned(waiters, c) \ Own(c)
  /\ gone' = IF OwnerRuns(c) THEN gone ELSE gone \cup {issued + 1}
  /\ IF OwnerRuns(c) THEN GotoWith(c, "holding", lease', 0) ELSE Goto(c, "idle")
  /\ UNCHANGED <<attempts, owner, late, prOpen, base, stamp, faults>>

\* The process dies between the holder write and the waiter's removal.
GrantTorn(c) ==
  /\ Fail
  /\ pc[c] = "select"
  /\ Admissible(c)
  /\ WriteHolder(c)
  /\ waiters' = Orphaned(Pruned(waiters, c), IF c \in Closers THEN {c} ELSE Daemons)
  /\ gone' = IF c \in Closers /\ owner[c] THEN gone ELSE gone \cup {issued + 1}
  /\ Stop(IF c \in Closers THEN {c} ELSE Daemons)
  /\ UNCHANGED <<attempts, owner, late, prOpen, base, stamp>>

\* A critical section finds the mutation lock busy: a reclaim reports that it
\* reclaimed nothing; anywhere else a CLI polls again, and a daemon's pass
\* ends with 'lease-acquire-error'.
LockBusy(c) ==
  /\ Fail
  /\ \/ pc[c] = "sweep" /\ Goto(c, "check") /\ UNCHANGED waiters
     \/ pc[c] = "reclaim" /\ Goto(c, "wait") /\ waiters' = Pruned(waiters, c)
     \/ /\ pc[c] \in {"register", "inspect", "reclaim", "select"}
        /\ pc[c] = "inspect" => lease # NoLease
        /\ Goto(c, IF c \in Daemons THEN "withdraw" ELSE "wait")
        /\ UNCHANGED waiters
  /\ UNCHANGED <<lease, attempts, owner, clock, issued, stamp, booked>>

\* ... unless the holder already is this very owner: the CLI reports it as
\* acquired and its finally block withdraws the waiter (acquireHolderMatches).
AdoptHolder(c) ==
  /\ pc[c] \in {"register", "inspect", "reclaim", "select", "refused"}
  /\ owner[c] /\ lease # NoLease /\ lease.client = c /\ lease.id \notin gone
  /\ waiters' = waiters \ Own(c)
  /\ GotoWith(c, "holding", lease, 0)
  /\ UNCHANGED <<lease, attempts, owner, clock, issued, stamp, booked, faults>>

\* The sleep between polls ends.
PollAgain(c) ==
  /\ pc[c] = "wait"
  /\ Goto(c, "precheck")
  /\ UNCHANGED <<files, owner, clock, issued, stamp, booked, faults>>

\* The CLI's wait budget is spent, or it is interrupted by a signal.
GiveUp(c) ==
  /\ pc[c] = "wait"
  /\ Goto(c, "timedout")
  /\ UNCHANGED <<files, owner, clock, issued, stamp, booked, faults>>

\* refundMergeLeaseGateAttempt
Refund(c) ==
  /\ pc[c] \in {"refused", "timedout"}
  /\ attempts' = [attempts EXCEPT ![HeadOf[c]] = Refunded(@)]
  /\ Goto(c, "cleanup")
  /\ UNCHANGED <<lease, waiters, owner, clock, issued, stamp, booked, faults>>

\* A lock that stays busy loses the refund of a wait that timed out, and sends
\* a parked one back to polling.
RefundBusy(c) ==
  /\ Fail
  /\ pc[c] \in {"refused", "timedout"}
  /\ Goto(c, IF pc[c] = "refused" THEN "wait" ELSE "cleanup")
  /\ UNCHANGED <<files, owner, clock, issued, stamp, booked>>

\* cleanupAcquireWaiter in the finally block, after which the CLI exits.
Cleanup(c) ==
  /\ pc[c] = "cleanup"
  /\ waiters' = waiters \ Own(c)
  /\ Goto(c, "idle")
  /\ UNCHANGED <<lease, attempts, owner, clock, issued, stamp, booked, faults>>

\* An error other than a busy lock leaves the acquire loop without a refund.
AcquireThrows(c) ==
  /\ Fail
  /\ pc[c] \in {"sweep", "register", "reclaim", "select"}
  /\ Goto(c, "cleanup")
  /\ UNCHANGED <<files, owner, clock, issued, stamp, booked>>

\* A pass that was contended or is backing off ends and keeps its reservation.
EndPass(d) ==
  /\ pc[d] = "wait"
  /\ waiters' = waiters \ Obsolete(Pr(d), {HeadOf[d]})
  /\ Goto(d, "idle")
  /\ UNCHANGED <<lease, attempts, owner, clock, issued, stamp, booked, faults>>

\* Any other end withdraws the PR's reservations.
Withdraw(d) ==
  /\ pc[d] = "withdraw"
  /\ waiters' = waiters \ Obsolete(Pr(d), {})
  /\ Goto(d, "idle")
  /\ UNCHANGED <<lease, attempts, owner, clock, issued, stamp, booked, faults>>

WithdrawBusy(d) ==
  /\ Fail
  /\ pc[d] = "withdraw"
  /\ Goto(d, "idle")
  /\ UNCHANGED <<files, owner, clock, issued, stamp, booked>>

-----------------------------------------------------------------------------
(* Holding and releasing                                                   *)

\* The release finds its own record: the CLI by lease id, the daemon by the
\* full fence.
StillHolds(c) ==
  /\ lease # NoLease /\ lease.id = seen[c].id
  /\ c \in Daemons => HolderMatches(lease, seen[c])

\* What a no-merge release is booked as.
Outcomes == {"refusal", "yield"}

\* After a release a hammer is idle; a daemon pass keeps its reservation only
\* for a non-permanent failure.
AfterRelease(c, o) == Goto(c, IF c \in Daemons /\ o # "yield" THEN "withdraw" ELSE "idle")

\* releaseMergeLease --merged / --terminal: no booking, no requeue.
ReleaseTerminal(c) ==
  /\ pc[c] = "holding" /\ StillHolds(c)
  /\ attempts' = Forget(attempts, Pr(c))
  /\ waiters' = Pruned(waiters, c)
  /\ lease' = NoLease
  /\ AfterRelease(c, "terminal")
  /\ UNCHANGED <<owner, clock, issued, stamp, booked, faults>>

\* A no-merge release: a predicate refusal is charged; a yield or a retryable
\* abort refunds.  Then the holder file is removed and the queue pruned.
ReleaseNoMerge(c, o) ==
  /\ pc[c] = "holding" /\ StillHolds(c)
  /\ BookRelease(lease, o)
  /\ Restamp(lease)
  /\ waiters' = Pruned(Requeued(lease), c)
  /\ lease' = NoLease
  /\ AfterRelease(c, o)
  /\ UNCHANGED <<owner, clock, issued, faults>>

\* The release stops after its first or second write (an I/O error, or the
\* CLI dies): the lease is still held.  A hammer may release again; the
\* daemon only logs a warning, and its pass ends.
ReleaseTorn(c, o) ==
  /\ Fail
  /\ pc[c] = "holding" /\ StillHolds(c)
  /\ \/ /\ o = "terminal"
        /\ attempts' = Forget(attempts, Pr(c))
        /\ UNCHANGED <<waiters, stamp, booked>>
     \/ /\ o \in Outcomes
        /\ BookRelease(lease, o)
        /\ \/ UNCHANGED <<waiters, stamp>>
           \/ waiters' = Requeued(lease) /\ Restamp(lease)
  /\ IF c \in Daemons THEN AfterRelease(c, o) ELSE UNCHANGED local
  /\ UNCHANGED <<lease, owner, clock, issued>>

\* The daemon ignores { released: false, reason: 'mutation-lock-busy' }.
DaemonReleaseBusy(d, o) ==
  /\ Fail
  /\ pc[d] = "holding" /\ StillHolds(d)
  /\ AfterRelease(d, o)
  /\ UNCHANGED <<files, owner, clock, issued, stamp, booked>>

\* The record is another's or gone: { released: false }.
ReleaseFenced(c) ==
  /\ pc[c] = "holding" /\ ~StillHolds(c)
  /\ Goto(c, IF c \in Daemons THEN "withdraw" ELSE "idle")
  /\ UNCHANGED <<files, owner, clock, issued, stamp, booked, faults>>

\* releaseControllerLease: once the hammer's process group is drained, its
\* controller releases what the acquire receipt names, unless it was renewed.
ControllerRelease(c, o) ==
  /\ lease # NoLease /\ lease.client = c
  /\ lease.id \in gone /\ lease.renewals = 0
  /\ BookRelease(lease, o)
  /\ Restamp(lease)
  /\ waiters' = Pruned(Requeued(lease), c)
  /\ lease' = NoLease
  /\ UNCHANGED <<local, owner, clock, issued, faults>>

\* renewMergeLease by a hammer that inspects, then renews under the lock.
Renew(c) ==
  /\ pc[c] = "holding" /\ StillHolds(c)
  /\ lease.renewals < MaxRenewals
  /\ lease' = [lease EXCEPT !.renewals = @ + 1]
  /\ late' = late \ {lease.id}
  /\ UNCHANGED <<waiters, attempts, local, owner, gone, prOpen, base, issued, stamp, booked, faults>>

-----------------------------------------------------------------------------
(* Operator commands                                                       *)

\* reconcileMergeLeases: read, reclaim a stale holder, else ask GitHub ...
ReconcileRead(o) ==
  /\ pc[o] = "idle" /\ lease # NoLease
  /\ GotoWith(o, IF Stale(lease, o) THEN "reclaim" ELSE "ask", lease, 0)
  /\ UNCHANGED <<files, owner, clock, issued, stamp, booked, faults>>

ReconcileAsk(o) ==
  /\ pc[o] = "ask"
  /\ Goto(o, IF Pr(seen[o].client) \in prOpen THEN "idle" ELSE "retire")
  /\ UNCHANGED <<files, owner, clock, issued, stamp, booked, faults>>

\* ... and release the holder of a merged or closed PR, fenced by what was
\* read before the GitHub call,
ReconcileRetire(o) ==
  /\ pc[o] = "retire"
  /\ \/ /\ HolderMatches(lease, seen[o])
        /\ attempts' = Forget(attempts, Pr(lease.client))
        /\ waiters' = Pruned(waiters, o)
        /\ lease' = NoLease
        /\ Goto(o, "prune")
     \/ ~HolderMatches(lease, seen[o]) /\ Goto(o, "idle") /\ UNCHANGED files
  /\ UNCHANGED <<owner, clock, issued, stamp, booked, faults>>

\* then drop the attempt record of its head, in a section of its own that looks
\* at no holder: the head may hold the lane again, and have booked a release
\* that is still to be retried.
ReconcilePrune(o) ==
  /\ pc[o] = "prune"
  /\ attempts' = [attempts EXCEPT ![HeadOf[seen[o].client]] = NoAttempt]
  /\ booked' = IF lease # NoLease /\ HeadOf[lease.client] = HeadOf[seen[o].client] /\ Booked(lease)
               THEN [booked EXCEPT !.dropped = @ + 1] ELSE booked
  /\ Goto(o, "idle")
  /\ UNCHANGED <<lease, waiters, owner, clock, issued, stamp, faults>>

ReconcileBusy(o) ==
  /\ Fail
  /\ pc[o] \in {"reclaim", "retire", "prune"}
  /\ Goto(o, "idle")
  /\ UNCHANGED <<files, owner, clock, issued, stamp, booked>>

\* resetMergeLeaseGateAttempts: refused while the head holds the lease.
ResetAttempts(h) ==
  /\ attempts[h] # NoAttempt
  /\ lease # NoLease => HeadOf[lease.client] # h
  /\ attempts' = [attempts EXCEPT ![h] = NoAttempt]
  /\ waiters' = {IF HeadOf[w.client] = h THEN [w EXCEPT !.delayed = FALSE] ELSE w : w \in waiters}
  /\ UNCHANGED <<lease, local, owner, clock, issued, stamp, booked, faults>>

-----------------------------------------------------------------------------
(* Deaths, and time passing                                                *)

\* The acquire CLI of c dies, or its cleanup cannot get the lock; the waiter
\* stays behind without a process.
CliDies(c) ==
  /\ Fail
  /\ pc[c] \in Polling \cup {"refused", "timedout", "cleanup"}
  /\ waiters' = Orphaned(waiters, {c})
  /\ Goto(c, "idle")
  /\ UNCHANGED <<lease, attempts, owner, clock, issued, stamp, booked>>

LeaseOf(cs) == IF lease # NoLease /\ lease.client \in cs THEN {lease.id} ELSE {}

\* The hammer of c ends or dies; a CLI it started may still be polling.
OwnerDies(c) ==
  /\ Fail
  /\ owner[c] /\ (pc[c] # "idle" \/ LeaseOf({c}) # {})
  /\ owner' = [owner EXCEPT ![c] = FALSE]
  /\ gone' = gone \cup LeaseOf({c})
  /\ IF pc[c] = "holding" THEN Stop({c}) ELSE UNCHANGED local
  /\ UNCHANGED <<files, late, prOpen, base, issued, stamp, booked>>

\* The watcher process dies, and with it every daemon pass.
WatcherDies ==
  /\ Fail
  /\ \/ \E d \in Daemons : pc[d] # "idle"
     \/ ~(LeaseOf(Daemons) \subseteq gone)
     \/ waiters # Orphaned(waiters, Daemons)
  /\ waiters' = Orphaned(waiters, Daemons)
  /\ gone' = gone \cup LeaseOf(Daemons)
  /\ Stop(Daemons)
  /\ UNCHANGED <<lease, attempts, owner, late, prOpen, base, issued, stamp, booked>>

\* A waiter outlives its deadline; every later selection prunes it.
WaiterExpires(w) ==
  /\ Fail
  /\ waiters' = waiters \ {w}
  /\ UNCHANGED <<lease, attempts, local, owner, clock, issued, stamp, booked>>

WaiterReady(w) ==
  /\ w.delayed
  /\ waiters' = (waiters \ {w}) \cup {[w EXCEPT !.delayed = FALSE]}
  /\ UNCHANGED <<lease, attempts, local, owner, clock, issued, stamp, booked, faults>>

\* nextEligibleAt passes; later, queueArrivalExpiresAt.
BackoffEnds(h) ==
  /\ \/ /\ attempts[h].cooling
        /\ attempts' = [attempts EXCEPT ![h].cooling = FALSE]
     \/ /\ ~attempts[h].cooling /\ attempts[h].memory # 0
        /\ attempts' = [attempts EXCEPT ![h].memory = 0]
  /\ UNCHANGED <<lease, waiters, local, owner, clock, issued, stamp, booked, faults>>

\* The holder's deadline passes, which only another host acts upon.
DeadlinePasses ==
  /\ lease # NoLease /\ lease.id \notin late
  /\ \E a \in Actors : HostOf[a] # HostOf[lease.client]
  /\ late' = late \cup {lease.id}
  /\ UNCHANGED <<files, local, owner, gone, prOpen, base, issued, stamp, booked, faults>>

\* GitHub: a PR is merged or closed; the base branch moves.
PrCloses(p) ==
  /\ p \in prOpen
  /\ prOpen' = prOpen \ {p}
  /\ UNCHANGED <<files, local, owner, gone, late, base, issued, stamp, booked, faults>>

BaseAdvances ==
  /\ base < MaxBase
  /\ base' = base + 1
  /\ UNCHANGED <<files, local, owner, gone, late, prOpen, issued, stamp, booked, faults>>

-----------------------------------------------------------------------------
\* The steps of the protocol itself.
ClientStep(c) ==
  \/ Precheck(c) \/ Register(c) \/ Inspect(c) \/ Reclaim(c)
  \/ SelectRefused(c) \/ Grant(c) \/ PollAgain(c)
  \/ ReleaseTerminal(c) \/ ReleaseFenced(c)
  \/ \E o \in Outcomes : ReleaseNoMerge(c, o)

CloserStep(c) ==
  \/ \E b \in 0 .. base : Charge(c, b)
  \/ GiveUp(c) \/ Refund(c) \/ Cleanup(c) \/ Renew(c)
  \/ \E o \in Outcomes : ControllerRelease(c, o)

DaemonStep(d) == BeginPass(d) \/ EndPass(d) \/ Withdraw(d)

Reconcile(o) ==
  ReconcileRead(o) \/ Reclaim(o) \/ ReconcileAsk(o) \/ ReconcileRetire(o) \/ ReconcilePrune(o)

Environment ==
  \/ DeadlinePasses \/ BaseAdvances
  \/ \E w \in waiters : WaiterReady(w)
  \/ \E h \in Heads : BackoffEnds(h) \/ ResetAttempts(h)
  \/ \E p \in Closable : PrCloses(p)

Step ==
  \/ \E c \in Clients : ClientStep(c)
  \/ \E c \in Closers : CloserStep(c)
  \/ \E d \in Daemons : DaemonStep(d)
  \/ \E o \in Operators : Reconcile(o)
  \/ Environment

\* What goes wrong around it.
Fault ==
  \/ \E c \in Clients :
       GrantTorn(c) \/ LockBusy(c) \/ \E o \in Outcomes \cup {"terminal"} : ReleaseTorn(c, o)
  \/ \E c \in Closers :
       AdoptHolder(c) \/ RefundBusy(c) \/ AcquireThrows(c) \/ CliDies(c) \/ OwnerDies(c)
  \/ \E d \in Daemons :
       WithdrawBusy(d) \/ \E o \in Outcomes \cup {"terminal"} : DaemonReleaseBusy(d, o)
  \/ \E o \in Operators : ReconcileBusy(o)
  \/ WatcherDies
  \/ \E w \in waiters : WaiterExpires(w)

Next == Step \/ Fault

Spec == Init /\ [][Next]_vars

-----------------------------------------------------------------------------
(* Safety                                                                  *)

\* Client c was told it holds the lane, and nothing it does not know of has
\* ended its claim: its owner runs, its PR is open, and its deadline has not
\* passed, or nobody on another host could expire it.
EntitledHolder(c) ==
  /\ pc[c] = "holding"
  /\ seen[c].id \notin gone
  /\ Pr(c) \in prOpen
  /\ seen[c].id \in late => \A a \in Actors : HostOf[a] = HostOf[c]

\* The lane is exclusive: whoever is entitled to merge is the holder on disk,
\* so there is at most one, whatever reclaims, renewals, reconciles and
\* releases raced with its grant ("A live same-host holder is never forcibly
\* preempted on age", and the identity fence of every release).
LaneExclusion ==
  \A c \in Clients : EntitledHolder(c) =>
    lease # NoLease /\ lease.client = c /\ lease.id = seen[c].id

\* The detailed lane implements the abstract one: entitlement passes from one
\* client to the next only through a lane nobody is entitled to.
Entitled == {c \in Clients : EntitledHolder(c)}

AbstractLane == INSTANCE Lane WITH entitled <- Entitled

ImplementsLane == AbstractLane!Spec

\* A release that stopped between its writes is booked once however often it
\* is tried again ("can retry this lease without refunding a second time"), so
\* its charge is refunded once and its failure counted once.  The one thing
\* that makes room for a second booking is a reconcile that drops the record
\* of a head that holds the lane again, and each such drop for one only.
BookedOnce == booked.times <= 1 + booked.dropped

\* A PR's queue place is remembered by at most one of its heads, so the first
\* match that closerArrival takes is the only one.
OneMemoryPerPr == \A p \in Prs : Cardinality(Remembering(p)) <= 1

\* A park ends only with the record (reset, or reconcile of a finished PR) or
\* with a new base: refunds, releases and charges never lift it.
ParkIsSticky ==
  [][\A h \in Heads :
       attempts[h].parked /\ ~attempts'[h].parked =>
         \/ attempts'[h] = NoAttempt
         \/ attempts'[h].base # attempts[h].base]_vars

\* No grant passes over a waiter that is ready, alive as far as the grantee can
\* tell, and ahead of the place the grantee was registered with.
NoOvertaking ==
  [][lease = NoLease /\ lease' # NoLease =>
       LET c == lease'.client
       IN  \A w \in waiters :
             w.client # c /\ ~w.delayed /\ ~w.dead =>
               ~Precedes(w, [client |-> c, arrived |-> lease'.arrived])]_vars
=============================================================================
