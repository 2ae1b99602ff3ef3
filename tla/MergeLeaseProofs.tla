-------------------------- MODULE MergeLeaseProofs --------------------------
(***************************************************************************)
(* The type invariant and the exclusion of the merge lane, for every       *)
(* number of closers, daemon merges, operators, hosts, heads and PRs, and  *)
(* for every value of the bounds.                                          *)
(***************************************************************************)
EXTENDS MergeLease, TLAPS

-----------------------------------------------------------------------------
(* Types                                                                   *)

LocalOK ==
  /\ pc \in [Actors -> Steps]
  /\ seen \in [Actors -> Lease \cup {NoLease}]
  /\ rank \in [Actors -> 0 .. MaxStamps]

\* An actor that moves on keeps its local variables within their ranges.
LEMMA GotoWithType ==
  ASSUME LocalOK, NEW a \in Actors, NEW step \in Steps,
         NEW read \in Lease \cup {NoLease}, NEW place \in 0 .. MaxStamps,
         GotoWith(a, step, read, place)
  PROVE  LocalOK'
  BY DEF LocalOK, GotoWith

LEMMA GotoType ==
  ASSUME LocalOK, ConstantsAssumption, NEW a \in Actors, NEW step \in Steps, Goto(a, step)
  PROVE  LocalOK'
  <1> DEFINE read == IF step \in {"holding", "reclaim", "ask", "retire", "prune"} THEN seen[a] ELSE NoLease
             place == IF step \in {"inspect", "reclaim", "select"} THEN rank[a] ELSE 0
  <1>1. read \in Lease \cup {NoLease}
    BY DEF LocalOK
  <1>2. place \in 0 .. MaxStamps
    BY DEF LocalOK, ConstantsAssumption
  <1>3. GotoWith(a, step, read, place)
    BY DEF Goto
  <1> QED
    BY <1>1, <1>2, <1>3, GotoWithType

\* So do the actors that stop.
LEMMA StopType ==
  ASSUME LocalOK, ConstantsAssumption, NEW as, Stop(as)
  PROVE  LocalOK'
  <1>1. "idle" \in Steps /\ 0 \in 0 .. MaxStamps
    BY DEF Steps, ConstantsAssumption
  <1> QED
    BY <1>1 DEF LocalOK, Stop

\* Waiters stay waiters when the queue is pruned or its processes die.
LEMMA PrunedType ==
  ASSUME NEW ws \in SUBSET Waiter, NEW a
  PROVE  Pruned(ws, a) \subseteq ws /\ Pruned(ws, a) \in SUBSET Waiter
  BY DEF Pruned

LEMMA WaiterTypes ==
  ASSUME NEW w \in Waiter
  PROVE  /\ [w EXCEPT !.dead = TRUE] \in Waiter
         /\ [w EXCEPT !.delayed = FALSE] \in Waiter
  BY DEF Waiter

LEMMA OrphanedType ==
  ASSUME NEW ws \in SUBSET Waiter, NEW cs
  PROVE  Orphaned(ws, cs) \in SUBSET Waiter
  BY WaiterTypes DEF Orphaned

\* What a release writes into an attempt record is an attempt record.
LEMMA AttemptFields ==
  ASSUME NEW r \in Attempt
  PROVE  /\ r.charged \in 0 .. MaxGate /\ r.consecutive \in 0 .. MaxGate
         /\ r.leaseId \in 0 .. MaxLeases /\ r.memory \in 0 .. MaxStamps /\ r.base \in 0 .. MaxBase
         /\ r.parked \in BOOLEAN /\ r.cooling \in BOOLEAN
  BY DEF Attempt

LEMMA AttemptTypes ==
  ASSUME NEW r \in Attempt
  PROVE  /\ \A n \in 0 .. MaxGate : [r EXCEPT !.charged = n] \in Attempt
         /\ \A n \in 0 .. MaxGate : [r EXCEPT !.consecutive = n] \in Attempt
         /\ \A n \in 0 .. MaxStamps : [r EXCEPT !.memory = n] \in Attempt
         /\ \A n \in 0 .. MaxLeases : [r EXCEPT !.leaseId = n] \in Attempt
         /\ \A n \in 0 .. MaxBase : [r EXCEPT !.base = n] \in Attempt
         /\ \A b \in BOOLEAN : [r EXCEPT !.parked = b] \in Attempt
         /\ \A b \in BOOLEAN : [r EXCEPT !.cooling = b] \in Attempt
  BY DEF Attempt

\* The other updates of a record: a new base, a cap, a backoff or a memory
\* that ends.
LEMMA RecordUpdates ==
  ASSUME ConstantsAssumption, NEW r \in Attempt
  PROVE  LET fresh == [r EXCEPT !.charged = 0, !.consecutive = 0, !.parked = FALSE, !.cooling = FALSE]
             capped == [r EXCEPT !.parked = TRUE, !.memory = 0]
             eligible == [r EXCEPT !.cooling = FALSE]
             forgotten == [r EXCEPT !.memory = 0]
         IN  /\ {fresh, capped, eligible, forgotten} \subseteq Attempt
             /\ fresh.leaseId = r.leaseId /\ fresh.consecutive = 0
             /\ capped.leaseId = r.leaseId /\ capped.consecutive = r.consecutive /\ capped.parked = TRUE
             /\ eligible.leaseId = r.leaseId /\ eligible.consecutive = r.consecutive /\ eligible.parked = r.parked
             /\ forgotten.leaseId = r.leaseId /\ forgotten.consecutive = r.consecutive /\ forgotten.parked = r.parked
  <1>1. 0 \in 0 .. MaxGate /\ 0 \in 0 .. MaxStamps
    BY DEF ConstantsAssumption
  <1> QED
    BY <1>1 DEF Attempt

LEMMA RefundedType ==
  ASSUME ConstantsAssumption, NEW r \in Attempt
  PROVE  Refunded(r) \in Attempt
  <1>1. (IF r.charged = 0 THEN 0 ELSE r.charged - 1) \in 0 .. MaxGate
    BY AttemptFields DEF ConstantsAssumption
  <1> QED
    BY <1>1, AttemptTypes DEF Refunded

LEMMA NoAttemptType ==
  ASSUME ConstantsAssumption
  PROVE  NoAttempt \in Attempt
  BY DEF ConstantsAssumption, NoAttempt, Attempt

LEMMA ForgetType ==
  ASSUME ConstantsAssumption, NEW ledger \in [Heads -> Attempt], NEW pr
  PROVE  Forget(ledger, pr) \in [Heads -> Attempt]
  <1>1. \A h \in Heads : [ledger[h] EXCEPT !.memory = 0] \in Attempt
    <2> TAKE h \in Heads
    <2>1. ledger[h] \in Attempt /\ 0 \in 0 .. MaxStamps
      BY DEF ConstantsAssumption
    <2> QED
      BY <2>1, AttemptTypes
  <1> QED
    BY <1>1 DEF Forget

\* Forgetting the arrivals of a pull request leaves the bookings alone.
LEMMA ForgetKeeps ==
  ASSUME NEW ledger \in [Heads -> Attempt], NEW pr, NEW g \in Heads
  PROVE  /\ Forget(ledger, pr)[g].consecutive = ledger[g].consecutive
         /\ Forget(ledger, pr)[g].leaseId = ledger[g].leaseId
         /\ Forget(ledger, pr)[g].parked = ledger[g].parked
  <1>1. ledger[g] \in Attempt
    OBVIOUS
  <1>2. Forget(ledger, pr)[g] = ledger[g] \/ Forget(ledger, pr)[g] = [ledger[g] EXCEPT !.memory = 0]
    BY DEF Forget
  <1> QED
    BY <1>1, <1>2 DEF Attempt

\* The counter of consecutive refusals stays below its cap until the head is
\* parked, and a lease that is not yet booked was granted below the cap: the
\* reason why booking it cannot take the counter past MaxGate.  A lease whose
\* id is not in its head's record was booked once for each booking that a
\* reconcile dropped, and not since.
LedgerOK ==
  /\ \A h \in Heads : ~attempts[h].parked => attempts[h].consecutive < MaxGate
  /\ lease # NoLease /\ ~Booked(lease) =>
       attempts[HeadOf[lease.client]].consecutive < MaxGate /\ booked.times <= booked.dropped
  /\ booked.times <= 1 + booked.dropped

LEMMA NoMergeRecordType ==
  ASSUME ConstantsAssumption, TypeOK, LedgerOK, lease # NoLease, ~Booked(lease),
         NEW o
  PROVE  /\ NoMergeRecord(lease, o) \in Attempt
         /\ NoMergeRecord(lease, o).leaseId = lease.id
         /\ ~NoMergeRecord(lease, o).parked => NoMergeRecord(lease, o).consecutive < MaxGate
  <1> DEFINE r == attempts[HeadOf[lease.client]]
             streak == IF o = "refusal" THEN r.consecutive + 1 ELSE 0
             parked == r.parked \/ streak >= MaxGate
             memory == IF parked THEN 0 ELSE IF lease.client \in Closers THEN lease.arrived ELSE r.memory
             start == IF o = "yield" THEN Refunded(r) ELSE r
  <1>1. lease \in Lease
    BY DEF TypeOK
  <1>2. lease.client \in Clients /\ lease.id \in 0 .. MaxLeases /\ lease.arrived \in 0 .. MaxStamps
    BY <1>1 DEF Lease, LeaseIds
  <1>3. HeadOf[lease.client] \in Heads
    BY <1>2 DEF ConstantsAssumption
  <1>4. r \in Attempt
    BY <1>3 DEF TypeOK
  <1>5. streak \in 0 .. MaxGate
    BY <1>4, <1>3, AttemptFields DEF LedgerOK, ConstantsAssumption
  <1>6. memory \in 0 .. MaxStamps
    BY <1>2, <1>4, AttemptFields DEF ConstantsAssumption
  <1>7. start \in Attempt
    BY <1>4, RefundedType
  <1>8. start.memory = r.memory
    BY <1>4 DEF Refunded, Attempt
  <1>9. parked \in BOOLEAN
    OBVIOUS
  <1>10. NoMergeRecord(lease, o) =
          [start EXCEPT !.consecutive = streak, !.parked = parked, !.cooling = TRUE,
                        !.leaseId = lease.id, !.memory = memory]
    BY <1>8, <1>7 DEF NoMergeRecord, Attempt
  <1>11. [start EXCEPT !.consecutive = streak, !.parked = parked, !.cooling = TRUE,
                        !.leaseId = lease.id, !.memory = memory] \in Attempt
    BY <1>2, <1>5, <1>6, <1>7, <1>9 DEF Attempt
  <1>12. ~parked => streak < MaxGate
    BY <1>5 DEF ConstantsAssumption
  <1> QED
    BY <1>10, <1>11, <1>12, <1>7 DEF Attempt

\* Booking a no-merge release keeps the ledger typed and its streaks capped.
LEMMA BookReleaseType ==
  ASSUME ConstantsAssumption, TypeOK, LedgerOK, lease # NoLease, NEW o, BookRelease(lease, o)
  PROVE  /\ attempts' \in [Heads -> Attempt]
         /\ booked' \in Bookings
         /\ \A h \in Heads : ~attempts'[h].parked => attempts'[h].consecutive < MaxGate
         /\ attempts'[HeadOf[lease.client]].leaseId = lease.id
         /\ booked'.times <= 1 + booked'.dropped
  <1> DEFINE h == HeadOf[lease.client]
             r == NoMergeRecord(lease, o)
             others == IF lease.client \in Closers \/ r.parked THEN Forget(attempts, PrOf[h]) ELSE attempts
  <1>1. lease.client \in Clients
    BY DEF TypeOK, Lease
  <1>2. h \in Heads
    BY <1>1 DEF ConstantsAssumption
  <1>3. CASE Booked(lease)
    BY <1>3 DEF BookRelease, Booked, TypeOK, LedgerOK
  <1>4. CASE ~Booked(lease)
    <2>1. attempts' = [others EXCEPT ![h] = r] /\ booked' = [booked EXCEPT !.times = @ + 1]
      BY <1>4 DEF BookRelease
    <2>2. /\ r \in Attempt /\ r.leaseId = lease.id
          /\ ~r.parked => r.consecutive < MaxGate
      BY <1>4, NoMergeRecordType
    <2>3. others \in [Heads -> Attempt]
      BY ForgetType DEF TypeOK
    <2>4. \A g \in Heads : others[g].parked = attempts[g].parked /\ others[g].consecutive = attempts[g].consecutive
      <3>1. attempts \in [Heads -> Attempt]
        BY DEF TypeOK
      <3>2. \A g \in Heads : Forget(attempts, PrOf[h])[g].parked = attempts[g].parked
                             /\ Forget(attempts, PrOf[h])[g].consecutive = attempts[g].consecutive
        BY <3>1, ForgetKeeps
      <3> QED
        BY <3>2
    <2>5. \A g \in Heads : attempts'[g] = IF g = h THEN r ELSE others[g]
      BY <2>1, <2>3
    <2>6. attempts' \in [Heads -> Attempt]
      BY <2>1, <2>2, <2>3
    <2>7. booked' \in Bookings /\ booked'.times = booked.times + 1 /\ booked'.dropped = booked.dropped
      BY <2>1 DEF TypeOK, Bookings
    <2>8. \A g \in Heads : ~attempts'[g].parked => attempts'[g].consecutive < MaxGate
      BY <2>2, <2>4, <2>5 DEF LedgerOK
    <2>9. booked'.times <= 1 + booked'.dropped
      BY <1>4, <2>7 DEF LedgerOK, TypeOK, Bookings
    <2> QED
      BY <2>2, <2>5, <2>6, <2>7, <2>8, <2>9, <1>2
  <1> QED
    BY <1>3, <1>4

\* The queue and the arrival counter after a no-merge release.
LEMMA RequeuedType ==
  ASSUME ConstantsAssumption, TypeOK, lease # NoLease, Restamp(lease)
  PROVE  Requeued(lease) \in SUBSET Waiter /\ stamp' \in 0 .. MaxStamps
  <1>1. lease.client \in Clients
    BY DEF TypeOK, Lease
  <1>2. CASE lease.client \in Daemons /\ ~attempts'[HeadOf[lease.client]].parked
    <2>1. stamp < MaxStamps /\ stamp' = stamp + 1
      BY <1>2 DEF Restamp
    <2>2. stamp + 1 \in 0 .. MaxStamps
      BY <2>1 DEF TypeOK, ConstantsAssumption
    <2>3. [client |-> lease.client, arrived |-> stamp + 1, delayed |-> TRUE, dead |-> FALSE] \in Waiter
      BY <1>1, <2>2 DEF Waiter
    <2> QED
      BY <1>2, <2>1, <2>2, <2>3 DEF Requeued, TypeOK
  <1>3. CASE ~(lease.client \in Daemons /\ ~attempts'[HeadOf[lease.client]].parked)
    BY <1>3 DEF Requeued, Restamp, TypeOK
  <1> QED
    BY <1>2, <1>3

LEMMA FaultsType ==
  ASSUME ConstantsAssumption, TypeOK, Fail \/ UNCHANGED faults
  PROVE  faults' \in 0 .. MaxFaults
  BY DEF Fail, TypeOK, ConstantsAssumption

\* What remains to be shown of a step whose effect on each file is known.
LEMMA TypeFrame ==
  ASSUME TypeOK, LedgerOK, LocalOK', UNCHANGED <<lease, attempts, owner, clock, issued, stamp, booked>>,
         waiters' \in SUBSET Waiter, faults' \in 0 .. MaxFaults
  PROVE  TypeOK' /\ LedgerOK'
  BY DEF TypeOK, LedgerOK, Booked, LocalOK, clock

LEMMA TypeLocal == ASSUME TypeOK PROVE LocalOK
  BY DEF TypeOK, LocalOK

LEMMA StepNames ==
  /\ Steps = Polling \cup {"idle", "holding", "refused", "timedout", "cleanup", "withdraw", "ask", "retire", "prune"}
  /\ Polling = {"sweep", "precheck", "check", "register", "inspect", "reclaim", "select", "wait"}
  BY DEF Steps, Polling

\* The ledger may also change in ways that leave every streak and booking as
\* it is, or that clear them.
LEMMA LedgerFrame ==
  ASSUME ConstantsAssumption, TypeOK, LedgerOK,
         lease' \in {lease, NoLease}, booked' \in {booked, [booked EXCEPT !.dropped = @ + 1]},
         \A h \in Heads :
           \/ /\ attempts'[h].consecutive = attempts[h].consecutive
              /\ attempts[h].parked => attempts'[h].parked
           \/ attempts'[h].consecutive = 0,
         \A h \in Heads :
           \/ attempts'[h].leaseId = attempts[h].leaseId
           \/ /\ attempts'[h].consecutive = 0
              /\ \/ lease # NoLease => HeadOf[lease.client] # h
                 \/ lease # NoLease /\ Booked(lease) => booked' # booked
  PROVE  LedgerOK'
  <1>a. /\ booked.times \in Nat /\ booked.dropped \in Nat
        /\ booked'.times = booked.times
        /\ booked'.dropped \in Nat /\ booked'.dropped >= booked.dropped
        /\ booked' # booked => booked'.dropped = booked.dropped + 1
    BY DEF TypeOK, Bookings
  <1>1. \A h \in Heads : ~attempts'[h].parked => attempts'[h].consecutive < MaxGate
    BY DEF LedgerOK, ConstantsAssumption
  <1>2. ASSUME lease' # NoLease, ~(Booked(lease)')
        PROVE  attempts'[HeadOf[lease'.client]].consecutive < MaxGate /\ booked'.times <= booked'.dropped
    <2>1. lease' = lease /\ lease # NoLease
      BY <1>2
    <2>2. lease.client \in Clients
      BY <2>1 DEF TypeOK, Lease
    <2>3. HeadOf[lease.client] \in Heads
      BY <2>2 DEF ConstantsAssumption
    <2>4. Booked(lease)' <=> attempts'[HeadOf[lease.client]].leaseId = lease.id
      BY <2>1 DEF Booked
    <2>5. CASE Booked(lease)
      <3>1. attempts'[HeadOf[lease.client]].leaseId # attempts[HeadOf[lease.client]].leaseId
        BY <1>2, <2>4, <2>5 DEF Booked
      <3>2. booked' # booked /\ attempts'[HeadOf[lease.client]].consecutive = 0
        BY <2>1, <2>3, <2>5, <3>1
      <3> QED
        BY <1>a, <2>1, <3>2 DEF LedgerOK, ConstantsAssumption
    <2>6. CASE ~Booked(lease)
      BY <1>a, <2>1, <2>3, <2>6 DEF LedgerOK, ConstantsAssumption
    <2> QED
      BY <2>5, <2>6
  <1>3. booked'.times <= 1 + booked'.dropped
    BY <1>a DEF LedgerOK
  <1> QED
    BY <1>1, <1>2, <1>3 DEF LedgerOK

-----------------------------------------------------------------------------
(* Every step keeps the types and the ledger                               *)

\* A step that only moves one actor.
LEMMA MoveKeepsTypes ==
  ASSUME ConstantsAssumption, TypeOK, LedgerOK, NEW a \in Actors, NEW step \in Steps, Goto(a, step),
         UNCHANGED <<lease, attempts, owner, clock, issued, stamp, booked>>,
         waiters' \in SUBSET Waiter, Fail \/ UNCHANGED faults
  PROVE  TypeOK' /\ LedgerOK'
  BY TypeLocal, GotoType, FaultsType, TypeFrame

LEMMA ReadKeepsTypes ==
  ASSUME ConstantsAssumption, TypeOK, LedgerOK, NEW a \in Actors, NEW step \in Steps,
         NEW place \in 0 .. MaxStamps, GotoWith(a, step, lease, place),
         UNCHANGED <<lease, attempts, owner, clock, issued, stamp, booked>>,
         waiters' \in SUBSET Waiter, Fail \/ UNCHANGED faults
  PROVE  TypeOK' /\ LedgerOK'
  <1>1. lease \in Lease \cup {NoLease}
    BY DEF TypeOK
  <1> QED
    BY <1>1, TypeLocal, GotoWithType, FaultsType, TypeFrame

LEMMA TypeNext ==
  ASSUME ConstantsAssumption, TypeOK, LedgerOK, Next
  PROVE  TypeOK' /\ LedgerOK'
  <1> USE ConstantsAssumption, TypeOK, LedgerOK
  <1>a. LocalOK /\ waiters \in SUBSET Waiter /\ Clients \subseteq Actors
    BY TypeLocal DEF TypeOK, Actors
  <1>1. ASSUME NEW c \in Clients, PollAgain(c) PROVE TypeOK' /\ LedgerOK'
    BY <1>1, <1>a, MoveKeepsTypes, StepNames DEF PollAgain, files
  <1>2. ASSUME NEW c \in Clients, GiveUp(c) PROVE TypeOK' /\ LedgerOK'
    BY <1>2, <1>a, MoveKeepsTypes, StepNames DEF GiveUp, files
  <1>3. ASSUME NEW c \in Closers, RefundBusy(c) PROVE TypeOK' /\ LedgerOK'
    BY <1>3, <1>a, MoveKeepsTypes, StepNames DEF RefundBusy, files, Clients
  <1>4. ASSUME NEW c \in Closers, AcquireThrows(c) PROVE TypeOK' /\ LedgerOK'
    BY <1>4, <1>a, MoveKeepsTypes, StepNames DEF AcquireThrows, files, Clients
  <1>5. ASSUME NEW d \in Daemons, WithdrawBusy(d) PROVE TypeOK' /\ LedgerOK'
    BY <1>5, <1>a, MoveKeepsTypes, StepNames DEF WithdrawBusy, files, Clients
  <1>6. ASSUME NEW d \in Daemons, NEW o, DaemonReleaseBusy(d, o) PROVE TypeOK' /\ LedgerOK'
    BY <1>6, <1>a, MoveKeepsTypes, StepNames DEF DaemonReleaseBusy, AfterRelease, files, Clients
  <1>7. ASSUME NEW c \in Clients, ReleaseFenced(c) PROVE TypeOK' /\ LedgerOK'
    BY <1>7, <1>a, MoveKeepsTypes, StepNames DEF ReleaseFenced, files
  <1>8. ASSUME NEW o \in Operators, ReconcileAsk(o) PROVE TypeOK' /\ LedgerOK'
    BY <1>8, <1>a, MoveKeepsTypes, StepNames DEF ReconcileAsk, files, Actors
  <1>9. ASSUME NEW o \in Operators, ReconcileBusy(o) PROVE TypeOK' /\ LedgerOK'
    BY <1>9, <1>a, MoveKeepsTypes, StepNames DEF ReconcileBusy, files, Actors
  <1>10. ASSUME NEW c \in Closers, Cleanup(c) PROVE TypeOK' /\ LedgerOK'
    BY <1>10, <1>a, MoveKeepsTypes, StepNames DEF Cleanup, Clients
  <1>11. ASSUME NEW d \in Daemons, BeginPass(d) PROVE TypeOK' /\ LedgerOK'
    BY <1>11, <1>a, MoveKeepsTypes, StepNames DEF BeginPass, Clients
  <1>12. ASSUME NEW d \in Daemons, EndPass(d) PROVE TypeOK' /\ LedgerOK'
    BY <1>12, <1>a, MoveKeepsTypes, StepNames DEF EndPass, Clients
  <1>13. ASSUME NEW d \in Daemons, Withdraw(d) PROVE TypeOK' /\ LedgerOK'
    BY <1>13, <1>a, MoveKeepsTypes, StepNames DEF Withdraw, Clients
  <1>14. ASSUME NEW c \in Clients, SelectRefused(c) PROVE TypeOK' /\ LedgerOK'
    BY <1>14, <1>a, MoveKeepsTypes, StepNames, PrunedType DEF SelectRefused, Refuse
  <1>15. ASSUME NEW c \in Clients, LockBusy(c) PROVE TypeOK' /\ LedgerOK'
    BY <1>15, <1>a, MoveKeepsTypes, StepNames, PrunedType DEF LockBusy
  <1>16. ASSUME NEW c \in Closers, CliDies(c) PROVE TypeOK' /\ LedgerOK'
    BY <1>16, <1>a, MoveKeepsTypes, StepNames, OrphanedType DEF CliDies, Clients
  <1>17. ASSUME NEW c \in Clients, Precheck(c) PROVE TypeOK' /\ LedgerOK'
    BY <1>17, <1>a, MoveKeepsTypes, ReadKeepsTypes, StepNames DEF Precheck, Refuse, files, ConstantsAssumption, LocalOK
  <1>18. ASSUME NEW c \in Clients, Inspect(c) PROVE TypeOK' /\ LedgerOK'
    BY <1>18, <1>a, MoveKeepsTypes, ReadKeepsTypes, StepNames, PrunedType DEF Inspect, ConstantsAssumption, LocalOK
  <1>19. ASSUME NEW o \in Operators, ReconcileRead(o) PROVE TypeOK' /\ LedgerOK'
    BY <1>19, <1>a, MoveKeepsTypes, ReadKeepsTypes, StepNames DEF ReconcileRead, files, Actors, ConstantsAssumption, LocalOK
  <1>20. ASSUME NEW c \in Closers, AdoptHolder(c) PROVE TypeOK' /\ LedgerOK'
    BY <1>20, <1>a, MoveKeepsTypes, ReadKeepsTypes, StepNames DEF AdoptHolder, Clients, ConstantsAssumption, LocalOK
  <1>21. ASSUME DeadlinePasses PROVE TypeOK' /\ LedgerOK'
    <2>1. lease.id \in LeaseIds
      BY <1>21 DEF DeadlinePasses, TypeOK, Lease
    <2> QED
      BY <1>21, <2>1 DEF DeadlinePasses, files, local, TypeOK, LedgerOK, Booked
  <1>22. ASSUME NEW p \in Closable, PrCloses(p) PROVE TypeOK' /\ LedgerOK'
    BY <1>22 DEF PrCloses, files, local, TypeOK, LedgerOK, Booked
  <1>23. ASSUME BaseAdvances PROVE TypeOK' /\ LedgerOK'
    BY <1>23 DEF BaseAdvances, files, local, TypeOK, LedgerOK, Booked, ConstantsAssumption
  <1>24. ASSUME NEW w \in waiters, WaiterExpires(w) PROVE TypeOK' /\ LedgerOK'
    BY <1>24, <1>a, TypeFrame, FaultsType DEF WaiterExpires, local, LocalOK
  <1>25. ASSUME NEW w \in waiters, WaiterReady(w) PROVE TypeOK' /\ LedgerOK'
    BY <1>25, <1>a, TypeFrame, FaultsType, WaiterTypes DEF WaiterReady, local, LocalOK
  <1>26. ASSUME NEW c \in Closers, OwnerDies(c) PROVE TypeOK' /\ LedgerOK'
    <2>1. LeaseOf({c}) \subseteq LeaseIds
      BY DEF LeaseOf, TypeOK, Lease
    <2>2. LocalOK'
      BY <1>26, <1>a, StopType DEF OwnerDies, local, LocalOK
    <2>3. faults' \in 0 .. MaxFaults
      BY <1>26, FaultsType DEF OwnerDies
    <2> QED
      BY <1>26, <2>1, <2>2, <2>3 DEF OwnerDies, files, TypeOK, LocalOK, LedgerOK, Booked
  <1>27. ASSUME WatcherDies PROVE TypeOK' /\ LedgerOK'
    <2>1. LeaseOf(Daemons) \subseteq LeaseIds
      BY DEF LeaseOf, TypeOK, Lease
    <2>2. LocalOK'
      BY <1>27, <1>a, StopType DEF WatcherDies
    <2>3. faults' \in 0 .. MaxFaults /\ waiters' \in SUBSET Waiter
      BY <1>27, <1>a, FaultsType, OrphanedType DEF WatcherDies
    <2> QED
      BY <1>27, <2>1, <2>2, <2>3 DEF WatcherDies, TypeOK, LocalOK, LedgerOK, Booked
  <1>28. ASSUME NEW c \in Clients, Register(c) PROVE TypeOK' /\ LedgerOK'
    <2>1. PICK r \in Rank(c) :
            /\ r <= MaxStamps
            /\ stamp' = IF r > stamp THEN r ELSE stamp
            /\ GotoWith(c, "inspect", NoLease, r)
      BY <1>28 DEF Register
    <2>2. r \in 0 .. MaxStamps
      <3>1. \A g \in Heads : attempts[g].memory \in 0 .. MaxStamps
        BY AttemptFields DEF TypeOK
      <3>2. \A w \in Own(c) : w.arrived \in 0 .. MaxStamps
        BY DEF Own, TypeOK, Waiter
      <3> QED
        BY <2>1, <3>1, <3>2 DEF Rank, Remembering, TypeOK, ConstantsAssumption
    <2>3. waiters' \in SUBSET Waiter
      <3>1. \A q \in Rank(c) : q <= MaxStamps => q \in 0 .. MaxStamps
        <4>1. \A g \in Heads : attempts[g].memory \in 0 .. MaxStamps
          BY AttemptFields DEF TypeOK
        <4>2. \A w \in Own(c) : w.arrived \in 0 .. MaxStamps
          BY DEF Own, TypeOK, Waiter
        <4> QED
          BY <4>1, <4>2 DEF Rank, Remembering, TypeOK, ConstantsAssumption
      <3>2. \A q \in 0 .. MaxStamps, b \in BOOLEAN :
              [client |-> c, arrived |-> q, dead |-> FALSE, delayed |-> b] \in Waiter
        BY DEF Waiter
      <3>3. (Backoff(c) \/ \E w \in Own(c) : w.delayed) \in BOOLEAN
        OBVIOUS
      <3> QED
        BY <1>28, <1>a, <3>1, <3>2, <3>3 DEF Register
    <2>4. LocalOK'
      BY <1>a, <2>1, <2>2, GotoWithType, StepNames DEF TypeOK
    <2>5. stamp' \in 0 .. MaxStamps
      BY <2>1, <2>2 DEF TypeOK
    <2> QED
      BY <1>28, <2>3, <2>4, <2>5 DEF Register, TypeOK, LocalOK, LedgerOK, Booked, clock
  <1>29. ASSUME NEW a \in Actors, Reclaim(a) PROVE TypeOK' /\ LedgerOK'
    <2>1. LocalOK'
      BY <1>29, <1>a, GotoType, StepNames DEF Reclaim
    <2>2. waiters' \in SUBSET Waiter
      BY <1>29, <1>a, PrunedType DEF Reclaim
    <2>3. LedgerOK'
      BY <1>29, LedgerFrame DEF Reclaim
    <2> QED
      BY <1>29, <2>1, <2>2, <2>3 DEF Reclaim, TypeOK, LocalOK, clock
  <1>30. ASSUME NEW c \in Closers, Refund(c) PROVE TypeOK' /\ LedgerOK'
    <2> DEFINE h == HeadOf[c]
    <2>1. h \in Heads /\ c \in Clients /\ attempts[h] \in Attempt
      BY DEF ConstantsAssumption, Clients, TypeOK
    <2>2. Refunded(attempts[h]) \in Attempt
      BY <2>1, RefundedType
    <2>3. attempts' = [attempts EXCEPT ![h] = Refunded(attempts[h])]
      BY <1>30 DEF Refund
    <2>4. /\ Refunded(attempts[h]).consecutive = attempts[h].consecutive
          /\ Refunded(attempts[h]).leaseId = attempts[h].leaseId
          /\ Refunded(attempts[h]).parked = attempts[h].parked
      BY <2>1 DEF Refunded, Attempt
    <2>5. \A g \in Heads : attempts'[g] = IF g = h THEN Refunded(attempts[h]) ELSE attempts[g]
      BY <2>3 DEF TypeOK
    <2>6. LedgerOK'
      BY <1>30, <2>4, <2>5, LedgerFrame DEF Refund
    <2>7. LocalOK'
      BY <1>30, <1>a, <2>1, GotoType, StepNames DEF Refund
    <2>8. attempts' \in [Heads -> Attempt]
      BY <2>2, <2>3 DEF TypeOK
    <2> QED
      BY <1>30, <2>6, <2>7, <2>8 DEF Refund, TypeOK, LocalOK, clock
  <1>31. ASSUME NEW c \in Clients, ReleaseTerminal(c) PROVE TypeOK' /\ LedgerOK'
    <2>1. attempts \in [Heads -> Attempt]
      BY DEF TypeOK
    <2>2. attempts' = Forget(attempts, Pr(c))
      BY <1>31 DEF ReleaseTerminal
    <2>3. \A g \in Heads : /\ attempts'[g].consecutive = attempts[g].consecutive
                           /\ attempts'[g].leaseId = attempts[g].leaseId
                           /\ attempts'[g].parked = attempts[g].parked
      BY <2>1, <2>2, ForgetKeeps
    <2>4. LedgerOK'
      BY <1>31, <2>3, LedgerFrame DEF ReleaseTerminal
    <2>5. LocalOK' /\ waiters' \in SUBSET Waiter
      BY <1>31, <1>a, GotoType, StepNames, PrunedType DEF ReleaseTerminal, AfterRelease
    <2>6. attempts' \in [Heads -> Attempt]
      BY <2>2, ForgetType DEF TypeOK
    <2> QED
      BY <1>31, <2>4, <2>5, <2>6 DEF ReleaseTerminal, TypeOK, LocalOK, clock
  <1>32. ASSUME NEW a \in Actors, ReconcileRetire(a) PROVE TypeOK' /\ LedgerOK'
    <2>1. attempts \in [Heads -> Attempt]
      BY DEF TypeOK
    <2>2. attempts' = attempts \/ attempts' = Forget(attempts, Pr(lease.client))
      BY <1>32 DEF ReconcileRetire, files
    <2>3. \A g \in Heads : /\ attempts'[g].consecutive = attempts[g].consecutive
                           /\ attempts'[g].leaseId = attempts[g].leaseId
                           /\ attempts'[g].parked = attempts[g].parked
      BY <2>1, <2>2, ForgetKeeps
    <2>4. LedgerOK'
      BY <1>32, <2>3, LedgerFrame DEF ReconcileRetire, files
    <2>5. LocalOK' /\ waiters' \in SUBSET Waiter
      BY <1>32, <1>a, GotoType, StepNames, PrunedType DEF ReconcileRetire, files
    <2>6. attempts' \in [Heads -> Attempt]
      BY <2>2, ForgetType DEF TypeOK
    <2> QED
      BY <1>32, <2>4, <2>5, <2>6 DEF ReconcileRetire, TypeOK, LocalOK, clock, files
  <1>33. ASSUME NEW a \in Actors, ReconcilePrune(a) PROVE TypeOK' /\ LedgerOK'
    <2> DEFINE h == HeadOf[seen[a].client]
    <2>1. attempts' = [attempts EXCEPT ![h] = NoAttempt]
      BY <1>33 DEF ReconcilePrune
    <2>b. /\ booked' \in {booked, [booked EXCEPT !.dropped = @ + 1]}
          /\ lease # NoLease /\ HeadOf[lease.client] = h /\ Booked(lease) =>
               booked' = [booked EXCEPT !.dropped = @ + 1]
      BY <1>33 DEF ReconcilePrune
    <2>c. [booked EXCEPT !.dropped = @ + 1] \in Bookings /\ [booked EXCEPT !.dropped = @ + 1] # booked
      BY DEF TypeOK, Bookings
    <2>2. \A g \in Heads : attempts'[g] = IF g = h THEN NoAttempt ELSE attempts[g]
      BY <2>1 DEF TypeOK
    <2>3. NoAttempt.consecutive = 0
      BY DEF NoAttempt
    <2>4. LedgerOK'
      BY <1>33, <2>b, <2>c, <2>2, <2>3, LedgerFrame DEF ReconcilePrune
    <2>5. LocalOK'
      BY <1>33, <1>a, GotoType, StepNames DEF ReconcilePrune
    <2>6. attempts' \in [Heads -> Attempt]
      BY <2>1, NoAttemptType DEF TypeOK
    <2> QED
      BY <1>33, <2>b, <2>c, <2>4, <2>5, <2>6 DEF ReconcilePrune, TypeOK, LocalOK, clock
  <1>34. ASSUME NEW h \in Heads, ResetAttempts(h) PROVE TypeOK' /\ LedgerOK'
    <2>1. attempts' = [attempts EXCEPT ![h] = NoAttempt] /\ (lease # NoLease => HeadOf[lease.client] # h)
      BY <1>34 DEF ResetAttempts
    <2>2. \A g \in Heads : attempts'[g] = IF g = h THEN NoAttempt ELSE attempts[g]
      BY <2>1 DEF TypeOK
    <2>3. NoAttempt.consecutive = 0
      BY DEF NoAttempt
    <2>4. LedgerOK'
      BY <1>34, <2>1, <2>2, <2>3, LedgerFrame DEF ResetAttempts
    <2>5. attempts' \in [Heads -> Attempt]
      BY <2>1, NoAttemptType DEF TypeOK
    <2>6. waiters' \in SUBSET Waiter
      BY <1>34, <1>a, WaiterTypes DEF ResetAttempts
    <2> QED
      BY <1>34, <2>4, <2>5, <2>6 DEF ResetAttempts, TypeOK, LocalOK, clock, local
  <1>35. ASSUME NEW h \in Heads, BackoffEnds(h) PROVE TypeOK' /\ LedgerOK'
    <2> DEFINE r == attempts[h]
    <2>1. r \in Attempt
      BY DEF TypeOK
    <2>2. PICK q \in {[r EXCEPT !.cooling = FALSE], [r EXCEPT !.memory = 0]} : attempts' = [attempts EXCEPT ![h] = q]
      BY <1>35 DEF BackoffEnds
    <2> HIDE DEF r
    <2>3. q \in Attempt /\ q.consecutive = r.consecutive /\ q.leaseId = r.leaseId /\ q.parked = r.parked
      <3>1. CASE q = [r EXCEPT !.cooling = FALSE]
        BY <2>1, <3>1, RecordUpdates
      <3>2. CASE q = [r EXCEPT !.memory = 0]
        BY <2>1, <3>2, RecordUpdates
      <3> QED
        BY <3>1, <3>2
    <2> USE DEF r
    <2>4. \A g \in Heads : attempts'[g] = IF g = h THEN q ELSE attempts[g]
      BY <2>2 DEF TypeOK
    <2>5. LedgerOK'
      BY <1>35, <2>3, <2>4, LedgerFrame DEF BackoffEnds
    <2>6. attempts' \in [Heads -> Attempt]
      BY <2>2, <2>3 DEF TypeOK
    <2> QED
      BY <1>35, <2>5, <2>6 DEF BackoffEnds, TypeOK, LocalOK, clock, local
  <1>36. ASSUME NEW c \in Clients, Renew(c) PROVE TypeOK' /\ LedgerOK'
    <2>1. lease # NoLease /\ lease \in Lease /\ lease.renewals < MaxRenewals
      BY <1>36 DEF Renew, StillHolds, TypeOK
    <2>2. lease' = [lease EXCEPT !.renewals = lease.renewals + 1]
      BY <1>36 DEF Renew
    <2>3. lease' \in Lease /\ lease'.client = lease.client /\ lease'.id = lease.id
      BY <2>1, <2>2 DEF Lease, ConstantsAssumption
    <2>4. Booked(lease)' <=> Booked(lease)
      BY <1>36, <2>3 DEF Booked, Renew
    <2>5. LedgerOK'
      BY <1>36, <2>1, <2>3, <2>4 DEF Renew, LedgerOK
    <2> QED
      BY <1>36, <2>3, <2>5 DEF Renew, TypeOK, LocalOK, local
  <1>37. ASSUME NEW c \in Clients, Grant(c) PROVE TypeOK' /\ LedgerOK'
    <2>1. lease = NoLease /\ ~attempts[HeadOf[c]].parked /\ issued < MaxLeases
      BY <1>37 DEF Grant, Admissible, WriteHolder
    <2>2. lease' = [id |-> issued + 1, client |-> c, renewals |-> 0, arrived |-> rank[c]]
          /\ issued' = issued + 1 /\ booked' = NoBookings
      BY <1>37 DEF Grant, WriteHolder
    <2>3. issued + 1 \in LeaseIds /\ issued' \in 0 .. MaxLeases
      BY <2>1, <2>2 DEF LeaseIds, TypeOK, ConstantsAssumption
    <2>4. lease' \in Lease /\ lease'.client = c
      BY <1>a, <2>2, <2>3 DEF Lease, LocalOK, ConstantsAssumption
    <2>5. HeadOf[c] \in Heads
      BY DEF ConstantsAssumption
    <2>6. LedgerOK'
      BY <1>37, <2>1, <2>2, <2>4, <2>5 DEF Grant, LedgerOK, Booked, NoBookings
    <2>7. LocalOK'
      BY <1>37, <1>a, <2>4, GotoType, GotoWithType, StepNames DEF Grant, ConstantsAssumption
    <2>8. waiters' \in SUBSET Waiter /\ gone' \in SUBSET LeaseIds
      BY <1>37, <1>a, <2>3, PrunedType DEF Grant, TypeOK
    <2> QED
      BY <1>37, <2>2, <2>3, <2>4, <2>6, <2>7, <2>8 DEF Grant, TypeOK, LocalOK, Bookings, NoBookings
  <1>38. ASSUME NEW c \in Clients, GrantTorn(c) PROVE TypeOK' /\ LedgerOK'
    <2>1. lease = NoLease /\ ~attempts[HeadOf[c]].parked /\ issued < MaxLeases
      BY <1>38 DEF GrantTorn, Admissible, WriteHolder
    <2>2. lease' = [id |-> issued + 1, client |-> c, renewals |-> 0, arrived |-> rank[c]]
          /\ issued' = issued + 1 /\ booked' = NoBookings
      BY <1>38 DEF GrantTorn, WriteHolder
    <2>3. issued + 1 \in LeaseIds /\ issued' \in 0 .. MaxLeases
      BY <2>1, <2>2 DEF LeaseIds, TypeOK, ConstantsAssumption
    <2>4. lease' \in Lease /\ lease'.client = c
      BY <1>a, <2>2, <2>3 DEF Lease, LocalOK, ConstantsAssumption
    <2>5. HeadOf[c] \in Heads
      BY DEF ConstantsAssumption
    <2>6. LedgerOK'
      BY <1>38, <2>1, <2>2, <2>4, <2>5 DEF GrantTorn, LedgerOK, Booked, NoBookings
    <2>7. LocalOK'
      BY <1>38, <1>a, StopType DEF GrantTorn
    <2>8. waiters' \in SUBSET Waiter /\ gone' \in SUBSET LeaseIds
      BY <1>38, <1>a, <2>3, PrunedType, OrphanedType DEF GrantTorn, TypeOK
    <2>9. faults' \in 0 .. MaxFaults
      BY <1>38, FaultsType DEF GrantTorn
    <2> QED
      BY <1>38, <2>2, <2>3, <2>4, <2>6, <2>7, <2>8, <2>9 DEF GrantTorn, TypeOK, LocalOK, Bookings, NoBookings
  <1>39. ASSUME NEW c \in Clients, NEW o, ReleaseNoMerge(c, o) PROVE TypeOK' /\ LedgerOK'
    <2>1. lease # NoLease
      BY <1>39 DEF ReleaseNoMerge, StillHolds
    <2>2. BookRelease(lease, o) /\ Restamp(lease) /\ lease' = NoLease
      BY <1>39 DEF ReleaseNoMerge
    <2>3. waiters' \in SUBSET Waiter /\ stamp' \in 0 .. MaxStamps
      BY <1>39, <2>1, <2>2, RequeuedType, PrunedType DEF ReleaseNoMerge
    <2>4. LocalOK'
      BY <1>39, <1>a, GotoType, StepNames DEF ReleaseNoMerge, AfterRelease
    <2>5. LedgerOK'
      BY <2>1, <2>2, BookReleaseType DEF LedgerOK
    <2> QED
      BY <1>39, <2>1, <2>2, <2>3, <2>4, <2>5, BookReleaseType DEF ReleaseNoMerge, TypeOK, LocalOK, clock
  <1>40. ASSUME NEW c \in Closers, NEW o, ControllerRelease(c, o) PROVE TypeOK' /\ LedgerOK'
    <2>1. lease # NoLease /\ BookRelease(lease, o) /\ Restamp(lease) /\ lease' = NoLease
      BY <1>40 DEF ControllerRelease
    <2>2. waiters' \in SUBSET Waiter /\ stamp' \in 0 .. MaxStamps
      BY <1>40, <2>1, RequeuedType, PrunedType DEF ControllerRelease
    <2>3. LedgerOK'
      BY <2>1, BookReleaseType DEF LedgerOK
    <2> QED
      BY <1>40, <2>1, <2>2, <2>3, BookReleaseType DEF ControllerRelease, TypeOK, clock, local
  <1>41. ASSUME NEW c \in Clients, NEW o, ReleaseTorn(c, o) PROVE TypeOK' /\ LedgerOK'
    <2>1. lease # NoLease /\ lease' = lease
      BY <1>41 DEF ReleaseTorn, StillHolds
    <2>2. LocalOK'
      BY <1>41, <1>a, GotoType, StepNames DEF ReleaseTorn, AfterRelease, local, LocalOK
    <2>3. faults' \in 0 .. MaxFaults
      BY <1>41, FaultsType DEF ReleaseTorn
    <2>4. CASE /\ attempts' = Forget(attempts, Pr(c))
               /\ UNCHANGED <<waiters, stamp, booked>>
      <3>1. attempts \in [Heads -> Attempt]
        BY DEF TypeOK
      <3>2. \A g \in Heads : /\ attempts'[g].consecutive = attempts[g].consecutive
                             /\ attempts'[g].leaseId = attempts[g].leaseId
                             /\ attempts'[g].parked = attempts[g].parked
        BY <2>4, <3>1, ForgetKeeps
      <3>3. LedgerOK'
        BY <2>1, <2>4, <3>2, LedgerFrame
      <3>4. attempts' \in [Heads -> Attempt]
        BY <2>4, ForgetType DEF TypeOK
      <3> QED
        BY <1>41, <2>1, <2>2, <2>3, <2>4, <3>3, <3>4 DEF ReleaseTorn, TypeOK, LocalOK, clock
    <2>5. CASE /\ BookRelease(lease, o)
               /\ \/ UNCHANGED <<waiters, stamp>>
                  \/ waiters' = Requeued(lease) /\ Restamp(lease)
      <3>1. waiters' \in SUBSET Waiter /\ stamp' \in 0 .. MaxStamps
        BY <1>a, <2>1, <2>5, RequeuedType DEF TypeOK
      <3>2. LedgerOK'
        BY <2>1, <2>5, BookReleaseType DEF LedgerOK, Booked
      <3> QED
        BY <1>41, <2>1, <2>2, <2>3, <2>5, <3>1, <3>2, BookReleaseType DEF ReleaseTorn, TypeOK, LocalOK, clock
    <2> QED
      BY <1>41, <2>4, <2>5 DEF ReleaseTorn
  <1>42. ASSUME NEW c \in Closers, NEW b \in 0 .. base, Charge(c, b) PROVE TypeOK' /\ LedgerOK'
    <2> DEFINE h == HeadOf[c]
               r == IF attempts[h].base = b THEN attempts[h]
                    ELSE [attempts[h] EXCEPT !.charged = 0, !.consecutive = 0,
                                             !.parked = FALSE, !.cooling = FALSE]
    <2>1. h \in Heads /\ c \in Clients /\ attempts[h] \in Attempt /\ b \in 0 .. MaxBase
      BY DEF ConstantsAssumption, Clients, TypeOK
    <2>2. /\ r \in Attempt /\ r.leaseId = attempts[h].leaseId
          /\ \/ r.consecutive = attempts[h].consecutive /\ r.parked = attempts[h].parked
             \/ r.consecutive = 0
      BY <2>1, RecordUpdates
    <2>3. owner' \in [Closers -> BOOLEAN]
      BY <1>42 DEF Charge, TypeOK
    <2>4. CASE UNCHANGED <<attempts, local>>
      BY <1>42, <2>3, <2>4 DEF Charge, TypeOK, LedgerOK, Booked, local, clock
    <2>5. CASE attempts' = [Forget(attempts, PrOf[h]) EXCEPT ![h] = [r EXCEPT !.parked = TRUE, !.memory = 0]]
               /\ UNCHANGED local
      <3> DEFINE q == [r EXCEPT !.parked = TRUE, !.memory = 0]
      <3>1. q \in Attempt /\ q.leaseId = r.leaseId /\ q.consecutive = r.consecutive /\ q.parked = TRUE
        BY <2>2, RecordUpdates
      <3>2. Forget(attempts, PrOf[h]) \in [Heads -> Attempt]
        BY ForgetType DEF TypeOK
      <3>3. \A g \in Heads : attempts'[g] = IF g = h THEN q ELSE Forget(attempts, PrOf[h])[g]
        BY <2>5, <3>2
      <3>4. attempts \in [Heads -> Attempt]
        BY DEF TypeOK
      <3> HIDE DEF q, r
      <3>5. \A g \in Heads : g # h => /\ attempts'[g].consecutive = attempts[g].consecutive
                                      /\ attempts'[g].leaseId = attempts[g].leaseId
                                      /\ attempts'[g].parked = attempts[g].parked
        BY <3>3, <3>4, ForgetKeeps
      <3>6. LedgerOK'
        BY <1>42, <2>2, <3>1, <3>3, <3>5, LedgerFrame DEF Charge
      <3>7. attempts' \in [Heads -> Attempt]
        BY <2>5, <3>1, <3>2 DEF q
      <3> QED
        BY <1>42, <2>3, <2>5, <3>6, <3>7 DEF Charge, TypeOK, local, clock
    <2>6. CASE /\ attempts' = [attempts EXCEPT ![h] = [r EXCEPT !.charged = @ + 1, !.base = b]]
               /\ r.charged < MaxGate /\ Goto(c, "precheck")
      <3> DEFINE q == [r EXCEPT !.charged = r.charged + 1, !.base = b]
      <3>1. r.charged + 1 \in 0 .. MaxGate
        BY <2>2, <2>6, AttemptFields DEF ConstantsAssumption
      <3>2. q \in Attempt /\ q.leaseId = r.leaseId /\ q.consecutive = r.consecutive /\ q.parked = r.parked
        BY <2>1, <2>2, <3>1 DEF Attempt
      <3>3. attempts' = [attempts EXCEPT ![h] = q]
        BY <2>6, <2>2 DEF Attempt
      <3>4. \A g \in Heads : attempts'[g] = IF g = h THEN q ELSE attempts[g]
        BY <3>3 DEF TypeOK
      <3>5. LedgerOK'
        BY <1>42, <2>2, <3>2, <3>4, LedgerFrame DEF Charge
      <3>6. attempts' \in [Heads -> Attempt]
        BY <3>2, <3>3 DEF TypeOK
      <3>7. LocalOK'
        BY <1>a, <2>1, <2>6, GotoType, StepNames
      <3> QED
        BY <1>42, <2>3, <3>5, <3>6, <3>7 DEF Charge, TypeOK, LocalOK, clock
    <2> QED
      BY <1>42, <2>4, <2>5, <2>6 DEF Charge
  <1> QED
    BY <1>1, <1>2, <1>3, <1>4, <1>5, <1>6, <1>7, <1>8, <1>9, <1>10, <1>11, <1>12, <1>13, <1>14, <1>15, <1>16, <1>17, <1>18, <1>19, <1>20, <1>21, <1>22, <1>23, <1>24, <1>25, <1>26, <1>27, <1>28, <1>29, <1>30, <1>31, <1>32, <1>33, <1>34, <1>35, <1>36, <1>37, <1>38, <1>39, <1>40, <1>41, <1>42, <1>a
    DEF Next, Step, Fault, ClientStep, CloserStep, DaemonStep, Reconcile, Environment, Clients, Actors

\* Every reachable state is typed and has its ledger in order.
LEMMA TypeInvariance == Spec => [](TypeOK /\ LedgerOK)
  <1>1. Init => TypeOK /\ LedgerOK
    <2> SUFFICES ASSUME Init PROVE TypeOK /\ LedgerOK
      OBVIOUS
    <2> USE ConstantsAssumption
    <2>1. NoAttempt \in Attempt /\ NoAttempt.consecutive = 0
      BY NoAttemptType DEF NoAttempt
    <2>2. TypeOK
      BY <2>1, StepNames DEF Init, TypeOK, Bookings, NoBookings, ConstantsAssumption
    <2> QED
      BY <2>1, <2>2 DEF Init, LedgerOK, NoBookings, ConstantsAssumption
  <1>2. TypeOK /\ LedgerOK /\ [Next]_vars => (TypeOK /\ LedgerOK)'
    <2>1. CASE Next
      BY <2>1, TypeNext, ConstantsAssumption
    <2>2. CASE UNCHANGED vars
      BY <2>2 DEF vars, files, local, clock, TypeOK, LedgerOK, Booked
    <2> QED
      BY <2>1, <2>2
  <1> QED
    BY <1>1, <1>2, PTL DEF Spec

\* The type invariant, of every file and every actor.  Its hard part is that the
\* ledger's counters never pass AMG_MAX_GATE_ATTEMPTS or fall below zero,
\* whatever order charges, refunds, bookings and resets come in.
THEOREM TypeCorrect == Spec => []TypeOK
  BY TypeInvariance, PTL

\* A lease is booked as a no-merge release at most once (recordNoMergeRelease),
\* however often a release that stopped between two writes is tried again, and
\* once more for each booking that a reconcile dropped while the lease was held.
THEOREM BookingIsIdempotent == Spec => []BookedOnce
  <1>1. LedgerOK => BookedOnce
    BY DEF LedgerOK, BookedOnce
  <1> QED
    BY <1>1, TypeInvariance, PTL

-----------------------------------------------------------------------------
(* Exclusion                                                               *)

\* What actor a read condemns the holder for good: its process is dead, or its
\* deadline has passed for another host and it has not been renewed since.
Condemned(a) ==
  /\ seen[a] # NoLease
  /\ \/ seen[a].id \in gone
     \/ /\ HostOf[seen[a].client] # HostOf[a]
        /\ HolderMatches(lease, seen[a]) => lease.id \in late

\* A record somebody read is of a lease already issued; if that lease is still
\* on disk, it has the same client and has been renewed at least as often.
ReadOK(a) ==
  seen[a] # NoLease =>
    /\ seen[a].id <= issued
    /\ lease # NoLease /\ lease.id = seen[a].id =>
         lease.client = seen[a].client /\ seen[a].renewals <= lease.renewals

\* The inductive strengthening of LaneExclusion: what every actor that is about
\* to use a record knows about it.
LaneInv ==
  /\ lease # NoLease => lease.id <= issued
  /\ \A a \in Actors : ReadOK(a)
  /\ \A c \in Clients : pc[c] = "holding" => seen[c] # NoLease /\ seen[c].client = c
  /\ \A a \in Actors : pc[a] \in {"sweep", "reclaim"} => Condemned(a)
  /\ \A a \in Actors : pc[a] \in {"ask", "retire", "prune"} => seen[a] # NoLease
  /\ \A a \in Actors : pc[a] \in {"retire", "prune"} => Pr(seen[a].client) \notin prOpen
  /\ LaneExclusion

Marked == {"holding", "sweep", "reclaim", "ask", "retire", "prune"}

\* How a step may change what actor a knows: not at all, by forgetting it, by
\* reading the holder on disk, or by the answer GitHub gives.
Knows(a) ==
  \/ pc'[a] = pc[a] /\ seen'[a] = seen[a]
  \/ pc'[a] \notin Marked /\ seen'[a] \in {seen[a], NoLease}
  \/ /\ lease # NoLease /\ lease' = lease /\ seen'[a] = lease
     /\ \/ pc'[a] \in {"sweep", "reclaim"} /\ Stale(lease, a)
        \/ pc'[a] = "ask"
        \/ pc'[a] = "holding" /\ lease.client = a
  \/ /\ pc[a] = "ask" /\ pc'[a] = "retire" /\ seen'[a] = seen[a]
     /\ Pr(seen[a].client) \notin prOpen
  \/ pc[a] = "retire" /\ pc'[a] = "prune" /\ seen'[a] = seen[a]

\* A step that issues and renews nothing, and that removes the holder only when
\* nobody is entitled, keeps the invariant.
LEMMA LaneFrame ==
  ASSUME TypeOK, TypeOK', LaneInv,
         \/ lease' = lease
         \/ lease' = NoLease /\ \A c \in Clients : ~EntitledHolder(c)',
         issued' = issued, gone \subseteq gone', late \subseteq late', prOpen' \subseteq prOpen,
         \A a \in Actors : Knows(a)
  PROVE  LaneInv'
  <1>1. /\ lease \in Lease \cup {NoLease} /\ lease' \in Lease \cup {NoLease}
        /\ seen \in [Actors -> Lease \cup {NoLease}] /\ seen' \in [Actors -> Lease \cup {NoLease}]
        /\ issued \in Nat /\ issued' \in Nat
        /\ Clients \subseteq Actors
    BY DEF TypeOK, Actors
  <1>2. (lease # NoLease => lease.id <= issued)'
    BY DEF LaneInv
  <1>3. \A a \in Actors : ReadOK(a)'
    <2> TAKE a \in Actors
    <2>1. lease \in Lease => lease.renewals <= lease.renewals
      BY DEF Lease
    <2> QED
      BY <1>1, <2>1 DEF LaneInv, ReadOK, Knows
  <1>4. \A c \in Clients : (pc[c] = "holding" => seen[c] # NoLease /\ seen[c].client = c)'
    BY <1>1 DEF LaneInv, Knows, Marked
  <1>5. \A a \in Actors : (pc[a] \in {"sweep", "reclaim"} => Condemned(a))'
    <2> SUFFICES ASSUME NEW a \in Actors, pc'[a] \in {"sweep", "reclaim"} PROVE Condemned(a)'
      OBVIOUS
    <2>1. CASE pc'[a] = pc[a] /\ seen'[a] = seen[a]
      BY <2>1 DEF LaneInv, Condemned, HolderMatches
    <2>2. CASE lease # NoLease /\ lease' = lease /\ seen'[a] = lease /\ Stale(lease, a)
      BY <2>2 DEF Condemned, HolderMatches, Stale
    <2> QED
      BY <2>1, <2>2 DEF Knows, Marked
  <1>6. \A a \in Actors : (pc[a] \in {"ask", "retire", "prune"} => seen[a] # NoLease)'
    BY DEF LaneInv, Knows, Marked
  <1>7. \A a \in Actors : (pc[a] \in {"retire", "prune"} => Pr(seen[a].client) \notin prOpen)'
    BY DEF LaneInv, Knows, Marked, Pr
  <1>8. LaneExclusion'
    <2> SUFFICES ASSUME NEW c \in Clients, EntitledHolder(c)'
                 PROVE  lease' # NoLease /\ lease'.client = c /\ lease'.id = seen'[c].id
      BY DEF LaneExclusion
    <2>1. lease' = lease /\ pc'[c] = "holding"
      BY DEF EntitledHolder
    <2>2. CASE pc'[c] = pc[c] /\ seen'[c] = seen[c]
      <3>1. EntitledHolder(c)
        BY <2>1, <2>2 DEF EntitledHolder
      <3> QED
        BY <2>1, <2>2, <3>1 DEF LaneInv, LaneExclusion
    <2>3. CASE lease # NoLease /\ seen'[c] = lease /\ lease.client = c
      BY <2>1, <2>3
    <2> QED
      BY <1>1, <2>1, <2>2, <2>3 DEF Knows, Marked
  <1> QED
    BY <1>2, <1>3, <1>4, <1>5, <1>6, <1>7, <1>8 DEF LaneInv

\* How actors move: one goes on to a step that needs no record, some stop, one
\* reads the holder on disk, or none moves.
LEMMA MoveKnows ==
  ASSUME TypeOK, NEW b \in Actors, NEW step, step \notin Marked, Goto(b, step)
  PROVE  \A a \in Actors : Knows(a)
  <1>1. pc \in [Actors -> Steps] /\ seen \in [Actors -> Lease \cup {NoLease}]
    BY DEF TypeOK
  <1>2. pc'[b] = step /\ seen'[b] \in {seen[b], NoLease}
    BY <1>1 DEF Goto, GotoWith
  <1>3. \A a \in Actors : a # b => pc'[a] = pc[a] /\ seen'[a] = seen[a]
    BY <1>1 DEF Goto, GotoWith
  <1> QED
    BY <1>2, <1>3 DEF Knows

LEMMA StopKnows ==
  ASSUME TypeOK, NEW as, Stop(as)
  PROVE  \A a \in Actors : Knows(a)
  BY DEF Stop, Knows, Marked

LEMMA RestKnows ==
  ASSUME UNCHANGED local
  PROVE  \A a \in Actors : Knows(a)
  BY DEF local, Knows

LEMMA ReadKnows ==
  ASSUME TypeOK, NEW b \in Actors, NEW step, NEW place, GotoWith(b, step, lease, place),
         lease # NoLease, lease' = lease,
         \/ step \in {"sweep", "reclaim"} /\ Stale(lease, b)
         \/ step = "ask"
         \/ step = "holding" /\ lease.client = b
  PROVE  \A a \in Actors : Knows(a)
  <1>1. pc \in [Actors -> Steps] /\ seen \in [Actors -> Lease \cup {NoLease}]
    BY DEF TypeOK
  <1>2. pc'[b] = step /\ seen'[b] = lease
    BY <1>1 DEF GotoWith
  <1>3. \A a \in Actors : a # b => pc'[a] = pc[a] /\ seen'[a] = seen[a]
    BY <1>1 DEF GotoWith
  <1> QED
    BY <1>2, <1>3 DEF Knows

\* A step that leaves the holder file alone.
LEMMA LaneKept ==
  ASSUME TypeOK, TypeOK', LaneInv, UNCHANGED <<lease, issued>>,
         gone \subseteq gone', late \subseteq late', prOpen' \subseteq prOpen,
         \A a \in Actors : Knows(a)
  PROVE  LaneInv'
  BY LaneFrame

\* A step that removes it must end the claim of the client it names.
LEMMA LaneFreed ==
  ASSUME TypeOK, TypeOK', LaneInv, lease # NoLease, lease' = NoLease,
         UNCHANGED <<issued, gone, late, prOpen>>,
         \A a \in Actors : Knows(a),
         EntitledHolder(lease.client) => pc'[lease.client] # "holding"
  PROVE  LaneInv'
  <1>1. ASSUME NEW c \in Clients, EntitledHolder(c)' PROVE FALSE
    <2>1. pc'[c] = "holding" /\ c \in Actors
      BY <1>1 DEF EntitledHolder, Actors
    <2>2. pc'[c] = pc[c] /\ seen'[c] = seen[c]
      BY <2>1 DEF Knows, Marked
    <2>3. EntitledHolder(c)
      BY <1>1, <2>1, <2>2 DEF EntitledHolder
    <2>4. lease.client = c
      BY <2>3 DEF LaneInv, LaneExclusion
    <2> QED
      BY <2>1, <2>3, <2>4
  <1> QED
    BY <1>1, LaneFrame

LEMMA MoveKeepsLane ==
  ASSUME TypeOK, TypeOK', LaneInv, NEW b \in Actors, NEW step, step \notin Marked, Goto(b, step),
         UNCHANGED <<lease, clock, issued>>
  PROVE  LaneInv'
  BY MoveKnows, LaneKept DEF clock

LEMMA RestKeepsLane ==
  ASSUME TypeOK, TypeOK', LaneInv, UNCHANGED local, UNCHANGED <<lease, issued>>,
         gone \subseteq gone', late \subseteq late', prOpen' \subseteq prOpen
  PROVE  LaneInv'
  BY RestKnows, LaneKept

\* A new lease id is greater than every id anybody has read, so nobody can take
\* the new holder for one it read before.
LEMMA GrantKeepsLane ==
  ASSUME ConstantsAssumption, TypeOK, TypeOK', LaneInv, NEW c \in Clients, lease = NoLease, WriteHolder(c),
         gone \subseteq gone', UNCHANGED <<late, prOpen>>,
         \A a \in Actors :
           \/ pc'[a] = pc[a] /\ seen'[a] = seen[a]
           \/ pc'[a] \notin Marked /\ seen'[a] \in {seen[a], NoLease}
           \/ a = c /\ pc'[a] = "holding" /\ seen'[a] = lease'
  PROVE  LaneInv'
  <1>1. /\ seen \in [Actors -> Lease \cup {NoLease}] /\ seen' \in [Actors -> Lease \cup {NoLease}]
        /\ rank \in [Actors -> 0 .. MaxStamps]
        /\ issued \in 0 .. MaxLeases /\ Clients \subseteq Actors
    BY DEF TypeOK, Actors
  <1>2. lease' = [id |-> issued + 1, client |-> c, renewals |-> 0, arrived |-> rank[c]]
        /\ issued < MaxLeases /\ issued' = issued + 1
    BY DEF WriteHolder
  <1>3. issued + 1 \in LeaseIds /\ 0 \in 0 .. MaxRenewals
    BY <1>1, <1>2 DEF LeaseIds, ConstantsAssumption
  <1>4. /\ lease' \in Lease /\ lease' # NoLease
        /\ lease'.id = issued + 1 /\ lease'.client = c /\ lease'.renewals = 0
    BY <1>1, <1>2, <1>3 DEF Lease, ConstantsAssumption
  <1>5. \A a \in Actors : seen[a] # NoLease => seen[a].id \in Nat /\ seen[a].id <= issued
    BY <1>1 DEF LaneInv, ReadOK, Lease, LeaseIds
  <1>6. \A a \in Actors : seen[a] # NoLease => seen[a].id # lease'.id
    BY <1>1, <1>4, <1>5
  <1>7. \A a \in Actors : ReadOK(a)'
    <2> TAKE a \in Actors
    <2>1. CASE seen'[a] = lease'
      BY <1>1, <1>2, <1>4, <2>1 DEF ReadOK
    <2>2. CASE seen'[a] \in {seen[a], NoLease}
      BY <1>1, <1>2, <1>5, <1>6, <2>2 DEF ReadOK
    <2> QED
      BY <2>1, <2>2
  <1>8. \A a \in Clients : (pc[a] = "holding" => seen[a] # NoLease /\ seen[a].client = a)'
    BY <1>1, <1>4 DEF LaneInv, Marked
  <1>9. \A a \in Actors : (pc[a] \in {"sweep", "reclaim"} => Condemned(a))'
    <2> SUFFICES ASSUME NEW a \in Actors, pc'[a] \in {"sweep", "reclaim"} PROVE Condemned(a)'
      OBVIOUS
    <2>1. pc'[a] = pc[a] /\ seen'[a] = seen[a]
      BY DEF Marked
    <2>2. Condemned(a)
      BY <2>1 DEF LaneInv
    <2>3. ~HolderMatches(lease', seen'[a])
      BY <1>6, <2>1 DEF HolderMatches
    <2> QED
      BY <2>1, <2>2, <2>3 DEF Condemned
  <1>10. \A a \in Actors : (pc[a] \in {"ask", "retire", "prune"} => seen[a] # NoLease)'
    BY DEF LaneInv, Marked
  <1>11. \A a \in Actors : (pc[a] \in {"retire", "prune"} => Pr(seen[a].client) \notin prOpen)'
    BY DEF LaneInv, Marked, Pr
  <1>12. LaneExclusion'
    <2> SUFFICES ASSUME NEW a \in Clients, EntitledHolder(a)'
                 PROVE  lease' # NoLease /\ lease'.client = a /\ lease'.id = seen'[a].id
      BY DEF LaneExclusion
    <2>1. CASE pc'[a] = pc[a] /\ seen'[a] = seen[a]
      <3>1. EntitledHolder(a)
        BY <2>1 DEF EntitledHolder
      <3> QED
        BY <3>1 DEF LaneInv, LaneExclusion
    <2>2. CASE a = c /\ seen'[a] = lease'
      BY <1>4, <2>2
    <2> QED
      BY <1>1, <2>1, <2>2 DEF EntitledHolder, Marked
  <1>13. (lease # NoLease => lease.id <= issued)'
    BY <1>1, <1>2, <1>4
  <1> QED
    BY <1>7, <1>8, <1>9, <1>10, <1>11, <1>12, <1>13 DEF LaneInv

\* A renewal changes what the fence compares: whoever read the lease before it
\* can no longer remove it, so lifting the deadline is safe.
LEMMA RenewKeepsLane ==
  ASSUME ConstantsAssumption, TypeOK, TypeOK', LaneInv, NEW c \in Clients, Renew(c)
  PROVE  LaneInv'
  <1>1. /\ seen \in [Actors -> Lease \cup {NoLease}] /\ Clients \subseteq Actors
        /\ lease \in Lease /\ lease # NoLease /\ pc[c] = "holding" /\ lease.id = seen[c].id
    BY DEF TypeOK, Actors, Renew, StillHolds
  <1>2. pc' = pc /\ seen' = seen /\ issued' = issued /\ gone' = gone /\ prOpen' = prOpen
        /\ late' = late \ {lease.id} /\ lease' = [lease EXCEPT !.renewals = lease.renewals + 1]
    BY DEF Renew, local
  <1>3. lease'.id = lease.id /\ lease'.client = lease.client /\ lease'.renewals = lease.renewals + 1
    BY <1>1, <1>2 DEF Lease
  <1>4. lease.renewals \in Nat /\ lease.id \in Nat
    BY <1>1 DEF Lease, LeaseIds
  <1>5. lease' # NoLease
    <2>1. lease.renewals + 1 \in 0 .. MaxRenewals
      BY <1>4 DEF Renew, ConstantsAssumption
    <2>2. lease' \in Lease
      BY <1>1, <1>2, <2>1 DEF Lease
    <2> QED
      BY <2>2 DEF ConstantsAssumption
  <1>6. \A a \in Actors : seen[a] # NoLease => seen[a].renewals \in Nat
    BY <1>1 DEF Lease
  <1>7. \A a \in Actors : ReadOK(a)'
    BY <1>1, <1>2, <1>3, <1>4, <1>5, <1>6 DEF LaneInv, ReadOK
  <1>8. \A a \in Actors : ~HolderMatches(lease', seen[a])
    BY <1>1, <1>3, <1>4, <1>6 DEF LaneInv, ReadOK, HolderMatches
  <1>9. \A a \in Actors : (pc[a] \in {"sweep", "reclaim"} => Condemned(a))'
    BY <1>2, <1>8 DEF LaneInv, Condemned
  <1>10. LaneExclusion'
    <2> SUFFICES ASSUME NEW a \in Clients, EntitledHolder(a)'
                 PROVE  lease' # NoLease /\ lease'.client = a /\ lease'.id = seen'[a].id
      BY DEF LaneExclusion
    <2>1. a \in Actors /\ pc[a] = "holding" /\ seen[a] # NoLease /\ seen[a].client = a
      BY <1>1, <1>2 DEF EntitledHolder, LaneInv
    <2>2. CASE seen[a].id = lease.id
      BY <1>1, <1>2, <1>3, <1>5, <2>1, <2>2 DEF LaneInv, ReadOK
    <2>3. CASE seen[a].id # lease.id
      <3>1. EntitledHolder(a)
        BY <1>2, <2>3 DEF EntitledHolder
      <3> QED
        BY <2>3, <3>1 DEF LaneInv, LaneExclusion
    <2> QED
      BY <2>2, <2>3
  <1> QED
    BY <1>1, <1>2, <1>3, <1>5, <1>7, <1>9, <1>10 DEF LaneInv

\* The record a client releases by its id names that client.
LEMMA OwnRecord ==
  ASSUME LaneInv, NEW c \in Clients, pc[c] = "holding", StillHolds(c)
  PROVE  lease # NoLease /\ lease.client = c
  BY DEF LaneInv, ReadOK, StillHolds, Actors

LEMMA LaneNext ==
  ASSUME ConstantsAssumption, TypeOK, TypeOK', LaneInv, Next
  PROVE  LaneInv'
  <1> USE ConstantsAssumption, TypeOK, TypeOK', LaneInv
  <1>a. Clients \subseteq Actors /\ Closers \subseteq Actors /\ Daemons \subseteq Actors /\ Operators \subseteq Actors
    BY DEF Actors, Clients
  <1>1. ASSUME NEW c \in Clients, PollAgain(c) PROVE LaneInv'
    BY <1>1, <1>a, MoveKeepsLane DEF PollAgain, files, Marked
  <1>2. ASSUME NEW c \in Clients, GiveUp(c) PROVE LaneInv'
    BY <1>2, <1>a, MoveKeepsLane DEF GiveUp, files, Marked
  <1>3. ASSUME NEW c \in Closers, RefundBusy(c) PROVE LaneInv'
    BY <1>3, <1>a, MoveKeepsLane DEF RefundBusy, files, Marked
  <1>4. ASSUME NEW c \in Closers, AcquireThrows(c) PROVE LaneInv'
    BY <1>4, <1>a, MoveKeepsLane DEF AcquireThrows, files, Marked
  <1>5. ASSUME NEW d \in Daemons, WithdrawBusy(d) PROVE LaneInv'
    BY <1>5, <1>a, MoveKeepsLane DEF WithdrawBusy, files, Marked
  <1>6. ASSUME NEW d \in Daemons, NEW o, DaemonReleaseBusy(d, o) PROVE LaneInv'
    BY <1>6, <1>a, MoveKeepsLane DEF DaemonReleaseBusy, AfterRelease, files, Marked
  <1>7. ASSUME NEW c \in Clients, ReleaseFenced(c) PROVE LaneInv'
    BY <1>7, <1>a, MoveKeepsLane DEF ReleaseFenced, files, Marked
  <1>8. ASSUME NEW o \in Operators, ReconcileAsk(o) PROVE LaneInv'
    <2>1. pc[o] = "ask" /\ o \in Actors /\ UNCHANGED <<files, clock, issued>>
      BY <1>8, <1>a DEF ReconcileAsk
    <2>2. CASE Pr(seen[o].client) \in prOpen
      BY <1>8, <2>1, <2>2, MoveKeepsLane DEF ReconcileAsk, files, Marked
    <2>3. CASE Pr(seen[o].client) \notin prOpen
      <3>1. Goto(o, "retire")
        BY <1>8, <2>3 DEF ReconcileAsk
      <3>2. pc \in [Actors -> Steps] /\ seen \in [Actors -> Lease \cup {NoLease}]
        BY DEF TypeOK
      <3>3. /\ pc'[o] = "retire" /\ seen'[o] = seen[o]
            /\ \A a \in Actors : a # o => pc'[a] = pc[a] /\ seen'[a] = seen[a]
        BY <2>1, <3>1, <3>2 DEF Goto, GotoWith
      <3>4. \A a \in Actors : Knows(a)
        BY <2>1, <2>3, <3>3 DEF Knows
      <3> QED
        BY <2>1, <3>4, LaneKept DEF files, clock
    <2> QED
      BY <2>2, <2>3
  <1>9. ASSUME NEW o \in Operators, ReconcileBusy(o) PROVE LaneInv'
    BY <1>9, <1>a, MoveKeepsLane DEF ReconcileBusy, files, Marked
  <1>10. ASSUME NEW c \in Closers, Cleanup(c) PROVE LaneInv'
    BY <1>10, <1>a, MoveKeepsLane DEF Cleanup, Marked
  <1>11. ASSUME NEW d \in Daemons, BeginPass(d) PROVE LaneInv'
    BY <1>11, <1>a, MoveKeepsLane DEF BeginPass, Marked
  <1>12. ASSUME NEW d \in Daemons, EndPass(d) PROVE LaneInv'
    BY <1>12, <1>a, MoveKeepsLane DEF EndPass, Marked
  <1>13. ASSUME NEW d \in Daemons, Withdraw(d) PROVE LaneInv'
    BY <1>13, <1>a, MoveKeepsLane DEF Withdraw, Marked
  <1>14. ASSUME NEW c \in Clients, SelectRefused(c) PROVE LaneInv'
    BY <1>14, <1>a, MoveKeepsLane DEF SelectRefused, Refuse, Marked
  <1>15. ASSUME NEW c \in Clients, LockBusy(c) PROVE LaneInv'
    BY <1>15, <1>a, MoveKeepsLane DEF LockBusy, Marked
  <1>16. ASSUME NEW c \in Closers, CliDies(c) PROVE LaneInv'
    BY <1>16, <1>a, MoveKeepsLane DEF CliDies, Marked
  <1>17. ASSUME NEW c \in Clients, Precheck(c) PROVE LaneInv'
    <2>1. c \in Actors /\ UNCHANGED <<lease, clock, issued>>
      BY <1>17, <1>a DEF Precheck, files
    <2>2. CASE lease # NoLease /\ Stale(lease, c) /\ GotoWith(c, "sweep", lease, 0)
      BY <2>1, <2>2, ReadKnows, LaneKept DEF clock
    <2>3. CASE Refuse(c) \/ Goto(c, "register")
      BY <2>1, <2>3, MoveKeepsLane DEF Refuse, Marked
    <2> QED
      BY <1>17, <2>2, <2>3 DEF Precheck
  <1>18. ASSUME NEW c \in Clients, Inspect(c) PROVE LaneInv'
    <2>1. c \in Actors /\ UNCHANGED <<lease, clock, issued>>
      BY <1>18, <1>a DEF Inspect
    <2>2. CASE lease # NoLease /\ Stale(lease, c) /\ GotoWith(c, "reclaim", lease, rank[c])
      BY <2>1, <2>2, ReadKnows, LaneKept DEF clock
    <2>3. CASE Goto(c, "select") \/ Goto(c, "wait")
      BY <2>1, <2>3, MoveKeepsLane DEF Marked
    <2> QED
      BY <1>18, <2>2, <2>3 DEF Inspect
  <1>19. ASSUME NEW o \in Operators, ReconcileRead(o) PROVE LaneInv'
    <2>1. o \in Actors /\ lease # NoLease /\ UNCHANGED <<lease, clock, issued>>
      BY <1>19, <1>a DEF ReconcileRead, files
    <2> QED
      BY <1>19, <2>1, ReadKnows, LaneKept DEF ReconcileRead, clock
  <1>20. ASSUME NEW c \in Closers, AdoptHolder(c) PROVE LaneInv'
    BY <1>20, <1>a, ReadKnows, LaneKept DEF AdoptHolder, clock
  <1>21. ASSUME DeadlinePasses PROVE LaneInv'
    BY <1>21, RestKeepsLane DEF DeadlinePasses, files
  <1>22. ASSUME NEW p \in Closable, PrCloses(p) PROVE LaneInv'
    BY <1>22, RestKeepsLane DEF PrCloses, files
  <1>23. ASSUME BaseAdvances PROVE LaneInv'
    BY <1>23, RestKeepsLane DEF BaseAdvances, files
  <1>24. ASSUME NEW w \in waiters, WaiterExpires(w) PROVE LaneInv'
    BY <1>24, RestKeepsLane DEF WaiterExpires, clock
  <1>25. ASSUME NEW w \in waiters, WaiterReady(w) PROVE LaneInv'
    BY <1>25, RestKeepsLane DEF WaiterReady, clock
  <1>26. ASSUME NEW c \in Closers, OwnerDies(c) PROVE LaneInv'
    BY <1>26, StopKnows, RestKnows, LaneKept DEF OwnerDies, files
  <1>27. ASSUME WatcherDies PROVE LaneInv'
    BY <1>27, StopKnows, LaneKept DEF WatcherDies
  <1>28. ASSUME NEW c \in Clients, Register(c) PROVE LaneInv'
    <2>1. PICK r \in Rank(c) : GotoWith(c, "inspect", NoLease, r)
      BY <1>28 DEF Register
    <2>2. pc \in [Actors -> Steps] /\ seen \in [Actors -> Lease \cup {NoLease}]
      BY DEF TypeOK
    <2>3. \A a \in Actors : Knows(a)
      BY <1>a, <2>1, <2>2 DEF GotoWith, Knows, Marked
    <2> QED
      BY <1>28, <2>3, LaneKept DEF Register, clock
  <1>29. ASSUME NEW a \in Actors, Reclaim(a) PROVE LaneInv'
    <2>1. PICK step : step \notin Marked /\ Goto(a, step)
      BY <1>29 DEF Reclaim, Marked, Actors
    <2>2. (\A b \in Actors : Knows(b)) /\ UNCHANGED <<issued, gone, late, prOpen>>
      BY <1>29, <2>1, MoveKnows DEF Reclaim, clock
    <2>3. CASE ~HolderMatches(lease, seen[a])
      BY <1>29, <2>2, <2>3, LaneKept DEF Reclaim
    <2>4. CASE HolderMatches(lease, seen[a])
      <3>1. Condemned(a) /\ lease # NoLease /\ lease' = NoLease
        BY <1>29, <2>4 DEF Reclaim, LaneInv, HolderMatches
      <3>2. seen[a].id = lease.id /\ seen[a].client = lease.client
        BY <2>4, <3>1 DEF HolderMatches, LaneInv, ReadOK
      <3>3. lease.client \in Clients
        BY <3>1 DEF TypeOK, Lease
      <3>4. ~EntitledHolder(lease.client)
        <4>1. EntitledHolder(lease.client) => seen[lease.client].id = lease.id
          BY <3>3 DEF LaneInv, LaneExclusion
        <4> QED
          BY <2>4, <3>1, <3>2, <4>1 DEF EntitledHolder, Condemned
      <3> QED
        BY <2>2, <3>1, <3>4, LaneFreed
    <2> QED
      BY <2>3, <2>4
  <1>30. ASSUME NEW c \in Closers, Refund(c) PROVE LaneInv'
    BY <1>30, <1>a, MoveKeepsLane DEF Refund, Marked
  <1>31. ASSUME NEW c \in Clients, ReleaseTerminal(c) PROVE LaneInv'
    <2>1. lease # NoLease /\ lease.client = c
      BY <1>31, OwnRecord DEF ReleaseTerminal
    <2>2. PICK step : step \notin Marked /\ Goto(c, step)
      BY <1>31 DEF ReleaseTerminal, AfterRelease, Marked
    <2>3. pc'[c] # "holding"
      BY <1>a, <2>2 DEF Goto, GotoWith, TypeOK, Marked
    <2> QED
      BY <1>31, <1>a, <2>1, <2>2, <2>3, MoveKnows, LaneFreed DEF ReleaseTerminal, clock
  <1>32. ASSUME NEW o \in Operators, ReconcileRetire(o) PROVE LaneInv'
    <2>1. pc[o] = "retire" /\ o \in Actors /\ UNCHANGED <<issued, clock>>
      BY <1>32, <1>a DEF ReconcileRetire
    <2>2. CASE Goto(o, "idle") /\ UNCHANGED files
      BY <2>1, <2>2, MoveKeepsLane DEF files, Marked
    <2>3. CASE HolderMatches(lease, seen[o]) /\ lease' = NoLease /\ Goto(o, "prune")
      <3>1. /\ lease # NoLease /\ lease.client = seen[o].client
            /\ lease.client \in Clients /\ Pr(lease.client) \notin prOpen
        BY <2>1, <2>3 DEF HolderMatches, LaneInv, ReadOK, TypeOK, Lease
      <3>2. pc \in [Actors -> Steps] /\ seen \in [Actors -> Lease \cup {NoLease}]
        BY DEF TypeOK
      <3>3. \A a \in Actors : Knows(a)
        BY <2>1, <2>3, <3>2 DEF Goto, GotoWith, Knows
      <3>4. ~EntitledHolder(lease.client)
        BY <3>1 DEF EntitledHolder
      <3> QED
        BY <2>1, <2>3, <3>1, <3>3, <3>4, LaneFreed DEF clock
    <2> QED
      BY <1>32, <2>2, <2>3 DEF ReconcileRetire
  <1>33. ASSUME NEW o \in Operators, ReconcilePrune(o) PROVE LaneInv'
    BY <1>33, <1>a, MoveKeepsLane DEF ReconcilePrune, Marked
  <1>34. ASSUME NEW h \in Heads, ResetAttempts(h) PROVE LaneInv'
    BY <1>34, RestKeepsLane DEF ResetAttempts, clock
  <1>35. ASSUME NEW h \in Heads, BackoffEnds(h) PROVE LaneInv'
    BY <1>35, RestKeepsLane DEF BackoffEnds, clock
  <1>36. ASSUME NEW c \in Clients, Renew(c) PROVE LaneInv'
    BY <1>36, RenewKeepsLane
  <1>37. ASSUME NEW c \in Clients, Grant(c) PROVE LaneInv'
    <2>1. lease = NoLease /\ WriteHolder(c)
      BY <1>37 DEF Grant, Admissible
    <2>2. pc \in [Actors -> Steps] /\ seen \in [Actors -> Lease \cup {NoLease}]
      BY DEF TypeOK
    <2>3. \A a \in Actors :
            \/ pc'[a] = pc[a] /\ seen'[a] = seen[a]
            \/ pc'[a] \notin Marked /\ seen'[a] \in {seen[a], NoLease}
            \/ a = c /\ pc'[a] = "holding" /\ seen'[a] = lease'
      BY <1>37, <1>a, <2>2 DEF Grant, Goto, GotoWith, Marked
    <2> QED
      BY <1>37, <2>1, <2>3, GrantKeepsLane DEF Grant
  <1>38. ASSUME NEW c \in Clients, GrantTorn(c) PROVE LaneInv'
    <2>1. lease = NoLease /\ WriteHolder(c)
      BY <1>38 DEF GrantTorn, Admissible
    <2>2. \A a \in Actors :
            \/ pc'[a] = pc[a] /\ seen'[a] = seen[a]
            \/ pc'[a] \notin Marked /\ seen'[a] \in {seen[a], NoLease}
      BY <1>38 DEF GrantTorn, Stop, Marked
    <2> QED
      BY <1>38, <2>1, <2>2, GrantKeepsLane DEF GrantTorn
  <1>39. ASSUME NEW c \in Clients, NEW o, ReleaseNoMerge(c, o) PROVE LaneInv'
    <2>1. lease # NoLease /\ lease.client = c
      BY <1>39, OwnRecord DEF ReleaseNoMerge
    <2>2. PICK step : step \notin Marked /\ Goto(c, step)
      BY <1>39 DEF ReleaseNoMerge, AfterRelease, Marked
    <2>3. pc'[c] # "holding"
      BY <1>a, <2>2 DEF Goto, GotoWith, TypeOK, Marked
    <2> QED
      BY <1>39, <1>a, <2>1, <2>2, <2>3, MoveKnows, LaneFreed DEF ReleaseNoMerge, clock
  <1>40. ASSUME NEW c \in Closers, NEW o, ControllerRelease(c, o) PROVE LaneInv'
    <2>1. /\ lease # NoLease /\ lease.client = c /\ lease.id \in gone /\ lease' = NoLease
          /\ UNCHANGED <<local, clock, issued>>
      BY <1>40 DEF ControllerRelease
    <2>2. ~EntitledHolder(lease.client)
      BY <2>1 DEF EntitledHolder, LaneInv, LaneExclusion, Clients
    <2> QED
      BY <2>1, <2>2, RestKnows, LaneFreed DEF clock
  <1>41. ASSUME NEW c \in Clients, NEW o, ReleaseTorn(c, o) PROVE LaneInv'
    <2>1. UNCHANGED <<lease, clock, issued>>
      BY <1>41 DEF ReleaseTorn
    <2>2. CASE UNCHANGED local
      BY <2>1, <2>2, RestKeepsLane DEF clock
    <2>3. CASE AfterRelease(c, o)
      BY <1>a, <2>1, <2>3, MoveKeepsLane DEF AfterRelease, Marked
    <2> QED
      BY <1>41, <2>2, <2>3 DEF ReleaseTorn
  <1>42. ASSUME NEW c \in Closers, NEW b \in 0 .. base, Charge(c, b) PROVE LaneInv'
    <2>1. UNCHANGED <<lease, clock, issued>>
      BY <1>42 DEF Charge
    <2>2. CASE UNCHANGED local
      BY <2>1, <2>2, RestKeepsLane DEF clock
    <2>3. CASE Goto(c, "precheck")
      BY <1>a, <2>1, <2>3, MoveKeepsLane DEF Marked
    <2> QED
      BY <1>42, <2>2, <2>3 DEF Charge
  <1> QED
    BY <1>1, <1>2, <1>3, <1>4, <1>5, <1>6, <1>7, <1>8, <1>9, <1>10, <1>11, <1>12, <1>13, <1>14, <1>15, <1>16, <1>17, <1>18, <1>19, <1>20, <1>21, <1>22, <1>23, <1>24, <1>25, <1>26, <1>27, <1>28, <1>29, <1>30, <1>31, <1>32, <1>33, <1>34, <1>35, <1>36, <1>37, <1>38, <1>39, <1>40, <1>41, <1>42, <1>a
    DEF Next, Step, Fault, ClientStep, CloserStep, DaemonStep, Reconcile, Environment, Clients, Actors

\* What every actor knows is right in every reachable state.
LEMMA LaneInvariance == Spec => [](TypeOK /\ LaneInv)
  <1>1. Init => LaneInv
    <2> SUFFICES ASSUME Init PROVE LaneInv
      OBVIOUS
    <2>1. \A a \in Actors : pc[a] = "idle" /\ seen[a] = NoLease
      BY DEF Init
    <2>2. Clients \subseteq Actors
      BY DEF Actors
    <2> QED
      BY <2>1, <2>2 DEF Init, LaneInv, ReadOK, LaneExclusion, EntitledHolder
  <1>2. TypeOK /\ TypeOK' /\ LaneInv /\ [Next]_vars => LaneInv'
    <2>1. CASE Next
      BY <2>1, LaneNext, ConstantsAssumption
    <2>2. ASSUME UNCHANGED vars, LaneInv PROVE LaneInv'
      BY <2>2 DEF vars, files, local, clock, LaneInv, ReadOK, Condemned, HolderMatches,
                  LaneExclusion, EntitledHolder, Pr
    <2> QED
      BY <2>1, <2>2
  <1> QED
    BY <1>1, <1>2, TypeInvariance, PTL DEF Spec

\* The lane is exclusive: whoever was granted the lane and has not died, been
\* closed or outlived its deadline is the holder on disk, whatever reclaims,
\* renewals, reconciles, releases and torn grants raced with it.
THEOREM LaneIsExclusive == Spec => []LaneExclusion
  <1>1. LaneInv => LaneExclusion
    BY DEF LaneInv
  <1> QED
    BY <1>1, LaneInvariance, PTL

-----------------------------------------------------------------------------
(* Refinement                                                              *)

\* The holder file never changes from one client's record to another's: it is
\* removed in between, by whoever is allowed to.
LEMMA NoHandover ==
  ASSUME TypeOK, Next, lease # NoLease, lease' # NoLease
  PROVE  lease'.client = lease.client
  <1>1. ASSUME NEW c \in Clients, Grant(c) \/ GrantTorn(c) PROVE FALSE
    BY <1>1 DEF Grant, GrantTorn, Admissible
  <1>2. ASSUME NEW c \in Clients, Renew(c) PROVE lease'.client = lease.client
    BY <1>2 DEF Renew, TypeOK, Lease
  <1>3. ASSUME NEW c \in Clients,
               ClientStep(c) \/ GrantTorn(c) \/ LockBusy(c)
                 \/ \E o \in Outcomes \cup {"terminal"} : ReleaseTorn(c, o)
        PROVE  lease' = lease
    BY <1>1, <1>3 DEF ClientStep, Precheck, Register, Inspect, Reclaim, SelectRefused, PollAgain,
         ReleaseTerminal, ReleaseFenced, ReleaseNoMerge, LockBusy, ReleaseTorn, files
  <1>4. ASSUME NEW c \in Closers, CloserStep(c) PROVE lease' = lease \/ Renew(c)
    BY <1>4 DEF CloserStep, Charge, GiveUp, Refund, Cleanup, ControllerRelease, files
  <1>5. ASSUME NEW c \in Closers,
               AdoptHolder(c) \/ RefundBusy(c) \/ AcquireThrows(c) \/ CliDies(c) \/ OwnerDies(c)
        PROVE  lease' = lease
    BY <1>5 DEF AdoptHolder, RefundBusy, AcquireThrows, CliDies, OwnerDies, files
  <1>6. ASSUME NEW d \in Daemons,
               DaemonStep(d) \/ WithdrawBusy(d)
                 \/ \E o \in Outcomes \cup {"terminal"} : DaemonReleaseBusy(d, o)
        PROVE  lease' = lease
    BY <1>6 DEF DaemonStep, BeginPass, EndPass, Withdraw, WithdrawBusy, DaemonReleaseBusy, files
  <1>7. ASSUME NEW o \in Operators, Reconcile(o) \/ ReconcileBusy(o) PROVE lease' = lease
    BY <1>7 DEF Reconcile, ReconcileRead, Reclaim, ReconcileAsk, ReconcileRetire, ReconcilePrune,
                ReconcileBusy, files
  <1>8. ASSUME Environment \/ WatcherDies \/ \E w \in waiters : WaiterExpires(w) PROVE lease' = lease
    BY <1>8 DEF Environment, DeadlinePasses, BaseAdvances, WaiterReady, BackoffEnds, ResetAttempts,
                PrCloses, WatcherDies, WaiterExpires, files
  <1> QED
    BY <1>2, <1>3, <1>4, <1>5, <1>6, <1>7, <1>8 DEF Next, Step, Fault, Clients

\* The lane of files, processes and clocks implements the abstract Lane:
\* entitlement to merge never passes from one client to another in one step.
THEOREM Refinement == Spec => ImplementsLane
  <1>1. Init => AbstractLane!Init
    BY DEF Init, AbstractLane!Init, Entitled, EntitledHolder, Actors
  <1>2. ASSUME TypeOK, LaneInv, LaneInv', [Next]_vars
        PROVE  [AbstractLane!Next]_Entitled
    <2>1. CASE UNCHANGED vars
      BY <2>1 DEF vars, files, local, clock, Entitled, EntitledHolder
    <2>2. CASE Next
      <3>1. \A c \in Entitled : lease # NoLease /\ lease.client = c
        BY <1>2 DEF LaneInv, LaneExclusion, Entitled
      <3>2. \A c \in Entitled' : lease' # NoLease /\ lease'.client = c
        BY <1>2 DEF LaneInv, LaneExclusion, Entitled
      <3>3. \A c \in Entitled, d \in Entitled' : c = d
        BY <1>2, <2>2, <3>1, <3>2, NoHandover
      <3>4. CASE Entitled' = {}
        BY <3>4 DEF AbstractLane!Next, AbstractLane!Lose
      <3>5. CASE Entitled = {} /\ Entitled' # {}
        <4>1. PICK c \in Entitled' : TRUE
          BY <3>5
        <4>2. Entitled' = {c} /\ c \in Clients
          BY <3>2, <4>1 DEF Entitled
        <4> QED
          BY <3>5, <4>2 DEF AbstractLane!Next, AbstractLane!Enter
      <3>6. CASE Entitled # {} /\ Entitled' # {}
        <4>1. PICK c \in Entitled, d \in Entitled' : TRUE
          BY <3>6
        <4>2. Entitled' = Entitled
          BY <3>3, <4>1
        <4> QED
          BY <4>2
      <3> QED
        BY <3>4, <3>5, <3>6
    <2> QED
      BY <1>2, <2>1, <2>2
  <1> QED
    BY <1>1, <1>2, LaneInvariance, PTL DEF Spec, ImplementsLane, AbstractLane!Spec
=============================================================================
