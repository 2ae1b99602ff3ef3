-------------------------- MODULE MergeQueueProofs --------------------------
(***************************************************************************)
(* What the merge lane remembers of those who wait: one arrival per pull   *)
(* request, parks that stick, and grants in the order of the queue, for    *)
(* every number of clients, hosts, heads and PRs.                          *)
(***************************************************************************)
EXTENDS MergeLeaseProofs, FiniteSetTheorems

-----------------------------------------------------------------------------
(* The ledger                                                              *)

\* OneMemoryPerPr without counting.
MemoryInv ==
  \A g, h \in Heads :
    PrOf[g] = PrOf[h] /\ attempts[g].memory # 0 /\ attempts[h].memory # 0 => g = h

\* A step that writes no arrival into the ledger and lifts no park but with the
\* record or for a new base.
TameAt(h) ==
  /\ attempts'[h].memory # 0 => attempts[h].memory # 0
  /\ attempts[h].parked /\ ~attempts'[h].parked =>
       attempts'[h] = NoAttempt \/ attempts'[h].base # attempts[h].base

Tame == \A h \in Heads : TameAt(h)

\* The only other steps book the release of the lease on disk.
Books == lease # NoLease /\ \E o : BookRelease(lease, o)

\* Forgetting the arrivals of a PR changes nothing else.
LEMMA ForgetTame ==
  ASSUME TypeOK, NEW pr
  PROVE  \A h \in Heads : /\ Forget(attempts, pr)[h].parked = attempts[h].parked
                          /\ Forget(attempts, pr)[h].base = attempts[h].base
                          /\ PrOf[h] = pr => Forget(attempts, pr)[h].memory = 0
                          /\ PrOf[h] # pr => Forget(attempts, pr)[h] = attempts[h]
  <1> SUFFICES ASSUME NEW h \in Heads
               PROVE  /\ Forget(attempts, pr)[h].parked = attempts[h].parked
                      /\ Forget(attempts, pr)[h].base = attempts[h].base
                      /\ PrOf[h] = pr => Forget(attempts, pr)[h].memory = 0
                      /\ PrOf[h] # pr => Forget(attempts, pr)[h] = attempts[h]
    OBVIOUS
  <1>1. attempts[h] \in Attempt
    BY DEF TypeOK
  <1> QED
    BY <1>1 DEF Forget, Attempt

\* A step that replaces the record of one head.
LEMMA OneRecordTame ==
  ASSUME TypeOK, NEW h \in Heads, NEW r, attempts' = [attempts EXCEPT ![h] = r],
         r.memory # 0 => attempts[h].memory # 0,
         attempts[h].parked /\ ~r.parked => r = NoAttempt \/ r.base # attempts[h].base
  PROVE  Tame
  <1>1. \A g \in Heads : attempts'[g] = IF g = h THEN r ELSE attempts[g]
    BY DEF TypeOK
  <1> QED
    BY <1>1 DEF Tame, TameAt

\* The CLI's charge parks, or starts a new count for a new base.
LEMMA ChargeTame ==
  ASSUME ConstantsAssumption, TypeOK, NEW c \in Closers, NEW b, Charge(c, b)
  PROVE  Tame
  <1> DEFINE h == HeadOf[c]
             r == IF attempts[h].base = b THEN attempts[h]
                  ELSE [attempts[h] EXCEPT !.charged = 0, !.consecutive = 0,
                                           !.parked = FALSE, !.cooling = FALSE]
  <1>1. h \in Heads
    BY DEF ConstantsAssumption, Clients
  <1>2. attempts[h] \in Attempt
    BY <1>1 DEF TypeOK
  <1>3. r.memory = attempts[h].memory /\ r \in Attempt /\ (attempts[h].base = b => r = attempts[h])
    <2>1. attempts[h].base # b => r.memory = attempts[h].memory /\ r \in Attempt
      BY <1>2, RecordUpdates DEF Attempt
    <2> QED BY <1>2, <2>1
  <1>4. CASE UNCHANGED attempts
    BY <1>4 DEF Tame, TameAt
  <1>5. CASE attempts' = [Forget(attempts, PrOf[h]) EXCEPT ![h] = [r EXCEPT !.parked = TRUE, !.memory = 0]]
    <2> DEFINE q == [r EXCEPT !.parked = TRUE, !.memory = 0]
    <2>1. q.parked /\ q.memory = 0
      BY <1>3 DEF Attempt
    <2>2. Forget(attempts, PrOf[h]) \in [Heads -> Attempt]
      BY ForgetType DEF TypeOK
    <2> HIDE DEF q, r
    <2>3. \A g \in Heads : attempts'[g] = IF g = h THEN q ELSE Forget(attempts, PrOf[h])[g]
      BY <1>5, <2>2 DEF q
    <2>4. ASSUME NEW g \in Heads PROVE TameAt(g)
      <3>1. CASE g = h
        BY <2>1, <2>3, <3>1 DEF TameAt
      <3>2. CASE g # h
        BY <2>3, <3>2, ForgetTame DEF TameAt
      <3> QED BY <3>1, <3>2
    <2> QED BY <2>4 DEF Tame
  <1>6. CASE attempts' = [attempts EXCEPT ![h] = [r EXCEPT !.charged = @ + 1, !.base = b]] /\ ~r.parked
    <2> DEFINE q == [r EXCEPT !.charged = r.charged + 1, !.base = b]
    <2>1. q.memory = r.memory /\ q.base = b /\ q.parked = r.parked
      BY <1>3 DEF Attempt
    <2>2. attempts' = [attempts EXCEPT ![h] = q]
      BY <1>6
    <2>3. attempts[h].parked => q.base # attempts[h].base
      BY <1>3, <1>6, <2>1
    <2> HIDE DEF q, r
    <2> QED BY <1>1, <1>3, <2>1, <2>2, <2>3, OneRecordTame
  <1> QED
    BY <1>4, <1>5, <1>6 DEF Charge

\* Every step is tame but the booking of a no-merge release.
LEMMA LedgerSteps ==
  ASSUME ConstantsAssumption, TypeOK, LaneInv, Next
  PROVE  Tame \/ Books
  <1> USE ConstantsAssumption, TypeOK
  <1>a. Clients \subseteq Actors /\ Closers \subseteq Clients /\ Daemons \subseteq Clients /\ Operators \subseteq Actors
    BY DEF Actors, Clients
  <1>f. \A pr : attempts' = Forget(attempts, pr) => Tame
    <2> SUFFICES ASSUME NEW pr, attempts' = Forget(attempts, pr), NEW h \in Heads PROVE TameAt(h)
      BY DEF Tame
    <2>1. CASE PrOf[h] = pr
      BY <2>1, ForgetTame DEF TameAt
    <2>2. CASE PrOf[h] # pr
      BY <2>2, ForgetTame DEF TameAt
    <2> QED BY <2>1, <2>2
  <1>s. UNCHANGED attempts => Tame
    BY DEF Tame, TameAt
  <1>1. ASSUME NEW c \in Clients, ClientStep(c) PROVE Tame \/ Books
    <2>1. CASE ReleaseTerminal(c)
      BY <1>f, <2>1 DEF ReleaseTerminal
    <2>2. ASSUME NEW o, ReleaseNoMerge(c, o) PROVE Books
      BY <2>2 DEF ReleaseNoMerge, StillHolds, Books
    <2>3. CASE \/ Precheck(c) \/ Register(c) \/ Inspect(c) \/ Reclaim(c)
               \/ SelectRefused(c) \/ Grant(c) \/ PollAgain(c) \/ ReleaseFenced(c)
      BY <1>s, <2>3 DEF Precheck, Register, Inspect, Reclaim, SelectRefused, Grant, PollAgain,
                        ReleaseFenced, files
    <2> QED BY <1>1, <2>1, <2>2, <2>3 DEF ClientStep
  <1>2. ASSUME NEW c \in Closers, CloserStep(c) PROVE Tame \/ Books
    <2>1. CASE Refund(c)
      <3> DEFINE h == HeadOf[c]
                 r == Refunded(attempts[h])
      <3>1. h \in Heads
        BY <1>a DEF ConstantsAssumption
      <3>2. attempts[h] \in Attempt
        BY <3>1 DEF TypeOK
      <3>3. r.memory = attempts[h].memory /\ r.parked = attempts[h].parked
        BY <3>2 DEF Refunded, Attempt
      <3>4. attempts' = [attempts EXCEPT ![h] = r]
        BY <2>1 DEF Refund
      <3> HIDE DEF r
      <3> QED BY <3>1, <3>3, <3>4, OneRecordTame
    <2>2. ASSUME NEW o, ControllerRelease(c, o) PROVE Books
      BY <2>2 DEF ControllerRelease, Books
    <2>3. CASE GiveUp(c) \/ Cleanup(c) \/ Renew(c)
      BY <1>s, <2>3 DEF GiveUp, Cleanup, Renew, files
    <2> QED BY <1>2, <2>1, <2>2, <2>3, ChargeTame DEF CloserStep
  <1>3. ASSUME NEW d \in Daemons, DaemonStep(d) PROVE Tame
    BY <1>3, <1>s DEF DaemonStep, BeginPass, EndPass, Withdraw
  <1>4. ASSUME NEW o \in Operators, Reconcile(o) PROVE Tame
    <2>1. CASE ReconcileRetire(o)
      BY <1>f, <1>s, <2>1 DEF ReconcileRetire, files
    <2>2. CASE ReconcilePrune(o)
      <3>1. seen[o] \in Lease
        BY <1>a, <2>2 DEF ReconcilePrune, LaneInv, TypeOK
      <3>2. HeadOf[seen[o].client] \in Heads
        BY <3>1 DEF Lease, ConstantsAssumption
      <3>3. NoAttempt.memory = 0
        BY DEF NoAttempt
      <3> QED BY <2>2, <3>2, <3>3, OneRecordTame DEF ReconcilePrune
    <2>3. CASE ReconcileRead(o) \/ Reclaim(o) \/ ReconcileAsk(o)
      BY <1>s, <2>3 DEF ReconcileRead, Reclaim, ReconcileAsk, files
    <2> QED BY <1>4, <2>1, <2>2, <2>3 DEF Reconcile
  <1>5. ASSUME Environment PROVE Tame
    <2>1. ASSUME NEW h \in Heads, ResetAttempts(h) PROVE Tame
      <3>1. NoAttempt.memory = 0
        BY DEF NoAttempt
      <3> QED BY <2>1, <3>1, OneRecordTame DEF ResetAttempts
    <2>2. ASSUME NEW h \in Heads, BackoffEnds(h) PROVE Tame
      <3> DEFINE cooled == [attempts[h] EXCEPT !.cooling = FALSE]
                 forgot == [attempts[h] EXCEPT !.memory = 0]
      <3>1. attempts[h] \in Attempt
        BY DEF TypeOK
      <3>2. /\ cooled.memory = attempts[h].memory /\ cooled.parked = attempts[h].parked
            /\ forgot.memory = 0 /\ forgot.parked = attempts[h].parked
        BY <3>1 DEF Attempt
      <3>3. attempts' = [attempts EXCEPT ![h] = cooled] \/ attempts' = [attempts EXCEPT ![h] = forgot]
        BY <2>2 DEF BackoffEnds
      <3> HIDE DEF cooled, forgot
      <3> QED BY <3>2, <3>3, OneRecordTame
    <2>3. CASE \/ DeadlinePasses \/ BaseAdvances
               \/ \E w \in waiters : WaiterReady(w)
               \/ \E p \in Closable : PrCloses(p)
      BY <1>s, <2>3 DEF DeadlinePasses, BaseAdvances, WaiterReady, PrCloses, files
    <2> QED BY <1>5, <2>1, <2>2, <2>3 DEF Environment
  <1>6. ASSUME Fault PROVE Tame \/ Books
    <2>1. ASSUME NEW c \in Clients, NEW o, ReleaseTorn(c, o) PROVE Tame \/ Books
      BY <1>f, <2>1 DEF ReleaseTorn, StillHolds, Books
    <2>2. CASE Tame \/ UNCHANGED attempts
      BY <1>s, <2>2
    <2>3. (\E c \in Clients, o \in Outcomes \cup {"terminal"} : ReleaseTorn(c, o)) \/ UNCHANGED attempts
      BY <1>6 DEF Fault, GrantTorn, LockBusy, AdoptHolder, RefundBusy, AcquireThrows, CliDies, OwnerDies,
                  WithdrawBusy, DaemonReleaseBusy, ReconcileBusy, WatcherDies, WaiterExpires, files
    <2> QED BY <2>1, <2>2, <2>3
  <1> QED
    BY <1>1, <1>2, <1>3, <1>4, <1>5, <1>6 DEF Next, Step

\* A booking carries an earlier park over, and writes the arrival of a closer's
\* lease only after every head of its PR has forgotten its own.
LEMMA BookingKeeps ==
  ASSUME ConstantsAssumption, TypeOK, MemoryInv, Books
  PROVE  MemoryInv' /\ \A h \in Heads : attempts[h].parked => attempts'[h].parked
  <1>1. PICK o : BookRelease(lease, o)
    BY DEF Books
  <1> DEFINE h == HeadOf[lease.client]
             r == NoMergeRecord(lease, o)
             others == IF lease.client \in Closers \/ r.parked THEN Forget(attempts, PrOf[h]) ELSE attempts
  <1>2. h \in Heads
    BY DEF Books, TypeOK, Lease, ConstantsAssumption
  <1>3. attempts[h] \in Attempt
    BY <1>2 DEF TypeOK
  <1>4. CASE Booked(lease)
    BY <1>1, <1>4 DEF BookRelease, MemoryInv
  <1>5. CASE ~Booked(lease)
    <2>1. attempts' = [others EXCEPT ![h] = r]
      BY <1>1, <1>5 DEF BookRelease
    <2>2. (attempts[h].parked => r.parked)
          /\ (r.memory # 0 => lease.client \in Closers \/ attempts[h].memory # 0)
      <3> DEFINE start == IF o = "yield" THEN Refunded(attempts[h]) ELSE attempts[h]
      <3>1. start \in Attempt /\ start.memory = attempts[h].memory
        BY <1>3, RefundedType DEF Refunded, Attempt
      <3> QED BY <1>3, <3>1 DEF NoMergeRecord, Attempt
    <2>3. others \in [Heads -> Attempt]
      BY ForgetType DEF TypeOK
    <2> HIDE DEF r
    <2>4. \A g \in Heads : attempts'[g] = IF g = h THEN r ELSE others[g]
      BY <2>1, <2>3
    <2>5. \A g \in Heads : others[g].parked = attempts[g].parked
                           /\ (others[g].memory # 0 => attempts[g].memory # 0)
      BY ForgetTame
    <2>6. lease.client \in Closers => \A g \in Heads : PrOf[g] = PrOf[h] => others[g].memory = 0
      BY ForgetTame
    <2> HIDE DEF others
    <2>7. \A g \in Heads : attempts[g].parked => attempts'[g].parked
      BY <2>2, <2>4, <2>5
    <2>8. CASE lease.client \in Closers
      <3>1. \A g \in Heads : PrOf[g] = PrOf[h] /\ attempts'[g].memory # 0 => g = h
        BY <2>4, <2>6, <2>8
      <3>2. \A g \in Heads : PrOf[g] # PrOf[h] /\ attempts'[g].memory # 0 => attempts[g].memory # 0
        BY <2>4, <2>5
      <3> HIDE DEF h
      <3> QED BY <2>7, <3>1, <3>2 DEF MemoryInv
    <2>9. CASE lease.client \notin Closers
      <3>1. \A g \in Heads : attempts'[g].memory # 0 => attempts[g].memory # 0
        BY <2>2, <2>4, <2>5, <2>9
      <3> QED BY <2>7, <3>1 DEF MemoryInv
    <2> QED BY <2>7, <2>8, <2>9
  <1> QED
    BY <1>4, <1>5

\* At most one head of a PR remembers an arrival in every reachable state.
LEMMA MemoryInvariance == Spec => []MemoryInv
  <1>1. Init => MemoryInv
    BY DEF Init, MemoryInv, NoAttempt
  <1>2. TypeOK /\ LaneInv /\ MemoryInv /\ [Next]_vars => MemoryInv'
    <2> SUFFICES ASSUME TypeOK, LaneInv, MemoryInv, [Next]_vars PROVE MemoryInv'
      OBVIOUS
    <2>1. CASE UNCHANGED vars
      BY <2>1 DEF vars, files, MemoryInv
    <2>2. CASE Next
      <3>1. CASE Tame
        BY <3>1 DEF Tame, TameAt, MemoryInv
      <3>2. CASE Books
        BY <3>2, BookingKeeps, ConstantsAssumption
      <3> QED BY <2>2, <3>1, <3>2, LedgerSteps, ConstantsAssumption
    <2> QED BY <2>1, <2>2
  <1> QED
    BY <1>1, <1>2, LaneInvariance, PTL DEF Spec

\* A PR's queue place is remembered by at most one of its heads, so the first
\* match that closerArrival takes is the only one.
THEOREM MemoryIsUnique == Spec => []OneMemoryPerPr
  <1>1. MemoryInv => OneMemoryPerPr
    <2> SUFFICES ASSUME MemoryInv, NEW p \in Prs PROVE Cardinality(Remembering(p)) <= 1
      BY DEF OneMemoryPerPr
    <2>1. CASE Remembering(p) = {}
      BY <2>1, FS_EmptySet
    <2>2. CASE Remembering(p) # {}
      <3>1. PICK h : h \in Remembering(p)
        BY <2>2
      <3>2. Remembering(p) = {h}
        BY <3>1 DEF Remembering, MemoryInv
      <3>3. Cardinality({h}) = 1
        BY FS_Singleton
      <3> QED BY <3>2, <3>3
    <2> QED BY <2>1, <2>2
  <1> QED
    BY <1>1, MemoryInvariance, PTL

\* A park ends only with the record or with a new base: refunds, releases and
\* charges never lift it.
THEOREM ParksStick == Spec => ParkIsSticky
  <1> DEFINE Sticks == \A h \in Heads :
        attempts[h].parked /\ ~attempts'[h].parked =>
          \/ attempts'[h] = NoAttempt
          \/ attempts'[h].base # attempts[h].base
  <1>1. TypeOK /\ LaneInv /\ MemoryInv /\ [Next]_vars => [Sticks]_vars
    <2> SUFFICES ASSUME TypeOK, LaneInv, MemoryInv, Next PROVE Sticks
      OBVIOUS
    <2>1. CASE Tame
      BY <2>1 DEF Tame, TameAt
    <2>2. CASE Books
      BY <2>2, BookingKeeps, ConstantsAssumption
    <2> QED BY <2>1, <2>2, LedgerSteps, ConstantsAssumption
  <1> QED
    BY <1>1, LaneInvariance, MemoryInvariance, PTL DEF Spec, ParkIsSticky

-----------------------------------------------------------------------------
(* The order of grants                                                     *)

\* Steps at which a client has registered and may still be granted the lane.
Queued == {"inspect", "reclaim", "select"}

\* The live waiter of a client that is about to be admitted stands where its
\* registration put it, so the queue orders the client by its `rank`.
RankInv ==
  \A c \in Clients : pc[c] \in Queued =>
    \A w \in waiters : w.client = c /\ ~w.dead => w.arrived = rank[c]

\* How a step may leave client c: outside admission, or where it stood.
Stands(c) == pc'[c] \in Queued => pc[c] \in Queued /\ rank'[c] = rank[c]

\* A waiter that was in the queue already, in the same place.
Old(w) == \E v \in waiters : v.client = w.client /\ v.arrived = w.arrived /\ (v.dead => w.dead)

LEMMA RankFrame ==
  ASSUME RankInv, \A c \in Clients : Stands(c), \A w \in waiters' : Old(w)
  PROVE  RankInv'
  BY DEF RankInv, Stands, Old

\* An actor that moves on and does not enter admission.
LEMMA GotoStands ==
  ASSUME TypeOK, NEW a \in Actors, NEW step, step \in Queued => pc[a] \in Queued,
         Goto(a, step) \/ \E read : GotoWith(a, step, read, rank[a])
  PROVE  \A c \in Clients : Stands(c)
  <1> SUFFICES ASSUME NEW c \in Clients PROVE Stands(c)
    OBVIOUS
  <1>1. c \in Actors
    BY DEF Actors
  <1>2. CASE c # a
    BY <1>1, <1>2 DEF Goto, GotoWith, TypeOK, Stands
  <1>3. CASE c = a
    BY <1>1, <1>3 DEF Goto, GotoWith, TypeOK, Stands, Queued
  <1> QED BY <1>2, <1>3

\* An actor that moves on with a new reading, outside admission.
LEMMA ReadStands ==
  ASSUME TypeOK, NEW a \in Actors, NEW step, step \notin Queued \/ a \notin Clients,
         NEW read, NEW place, GotoWith(a, step, read, place)
  PROVE  \A c \in Clients : Stands(c)
  <1> SUFFICES ASSUME NEW c \in Clients PROVE Stands(c)
    OBVIOUS
  <1>1. c \in Actors
    BY DEF Actors
  <1>2. CASE c # a
    BY <1>1, <1>2 DEF GotoWith, TypeOK, Stands
  <1>3. CASE c = a
    BY <1>1, <1>3 DEF GotoWith, TypeOK, Stands, Queued
  <1> QED BY <1>2, <1>3

\* Nobody moves, or processes stop.
LEMMA RestStands ==
  ASSUME TypeOK, UNCHANGED local \/ \E as : Stop(as)
  PROVE  \A c \in Clients : Stands(c)
  <1> SUFFICES ASSUME NEW c \in Clients PROVE Stands(c)
    OBVIOUS
  <1>1. c \in Actors
    BY DEF Actors
  <1>2. CASE UNCHANGED local
    BY <1>2 DEF local, Stands
  <1>3. CASE \E as : Stop(as)
    <2>1. PICK as : Stop(as)
      BY <1>3
    <2>2. pc'[c] = "idle" \/ (pc'[c] = pc[c] /\ rank'[c] = rank[c])
      BY <1>1, <2>1 DEF Stop
    <2> QED BY <2>2 DEF Stands, Queued
  <1> QED BY <1>2, <1>3

\* Waiters that leave, die or become ready keep the places of the others.
LEMMA OldWaiters ==
  ASSUME TypeOK
  PROVE  /\ \A w \in waiters : Old(w)
         /\ \A a : \A w \in Pruned(waiters, a) : Old(w)
         /\ \A a, cs : \A w \in Orphaned(Pruned(waiters, a), cs) : Old(w)
         /\ \A cs : \A w \in Orphaned(waiters, cs) : Old(w)
         /\ \A w \in waiters : Old([w EXCEPT !.delayed = FALSE])
  <1>1. \A w \in waiters : Old(w)
    BY DEF Old
  <1>2. \A w \in waiters : Old([w EXCEPT !.delayed = FALSE]) /\ Old([w EXCEPT !.dead = TRUE])
    <2> SUFFICES ASSUME NEW w \in waiters
                 PROVE  Old([w EXCEPT !.delayed = FALSE]) /\ Old([w EXCEPT !.dead = TRUE])
      OBVIOUS
    <2>1. w \in Waiter
      BY DEF TypeOK
    <2>2. /\ [w EXCEPT !.delayed = FALSE].client = w.client
          /\ [w EXCEPT !.delayed = FALSE].arrived = w.arrived
          /\ [w EXCEPT !.delayed = FALSE].dead = w.dead
          /\ [w EXCEPT !.dead = TRUE].client = w.client
          /\ [w EXCEPT !.dead = TRUE].arrived = w.arrived
          /\ [w EXCEPT !.dead = TRUE].dead = TRUE
      BY <2>1 DEF Waiter
    <2> QED BY <2>2 DEF Old
  <1>3. \A a : Pruned(waiters, a) \subseteq waiters
    BY DEF Pruned
  <1> QED
    BY <1>1, <1>2, <1>3 DEF Orphaned

\* A step that keeps every waiter's place.
LEMMA KeptRank ==
  ASSUME TypeOK, RankInv, \A c \in Clients : Stands(c),
         \/ waiters' \subseteq waiters
         \/ \E a : waiters' = Pruned(waiters, a)
         \/ \E cs : waiters' = Orphaned(waiters, cs)
         \/ \E a, cs : waiters' = Orphaned(Pruned(waiters, a), cs)
  PROVE  RankInv'
  BY RankFrame, OldWaiters

\* The daemon's own reservation, which a no-merge release puts at the tail, is
\* not that of a client in admission: its pass has ended.
LEMMA RequeuedRank ==
  ASSUME TypeOK, RankInv, \A c \in Clients : Stands(c),
         waiters' \subseteq Requeued(lease),
         lease.client \in Daemons => pc'[lease.client] \notin Queued
  PROVE  RankInv'
  <1> SUFFICES ASSUME NEW c \in Clients, pc'[c] \in Queued,
                      NEW w \in waiters', w.client = c, ~w.dead
               PROVE  w.arrived = rank'[c]
    BY DEF RankInv
  <1>1. pc[c] \in Queued /\ rank'[c] = rank[c]
    BY DEF Stands
  <1>2. CASE w \in waiters
    BY <1>1, <1>2 DEF RankInv
  <1>3. CASE w \notin waiters
    BY <1>3 DEF Requeued
  <1> QED BY <1>2, <1>3

\* Registration: the client's live waiter is the entry just written.
LEMMA RegisterRank ==
  ASSUME ConstantsAssumption, TypeOK, RankInv, NEW c \in Clients, Register(c)
  PROVE  RankInv'
  <1> DEFINE others == {w \in waiters : w.client # c \/ (c \in Closers /\ w.dead)}
             entry(r) == [client |-> c, arrived |-> r, dead |-> FALSE,
                          delayed |-> Backoff(c) \/ \E w \in Own(c) : w.delayed]
  <1>1. PICK r \in Rank(c) : /\ GotoWith(c, "inspect", NoLease, r)
                             /\ waiters' \subseteq others \cup {entry(r)}
    BY DEF Register
  <1>2. c \in Actors
    BY DEF Actors
  <1>3. rank'[c] = r /\ \A d \in Clients : d # c => pc'[d] = pc[d] /\ rank'[d] = rank[d]
    BY <1>1, <1>2 DEF GotoWith, TypeOK, Actors
  <1>4. entry(r).client = c /\ entry(r).arrived = r
    OBVIOUS
  <1> HIDE DEF entry
  <1> SUFFICES ASSUME NEW d \in Clients, pc'[d] \in Queued,
                      NEW w \in waiters', w.client = d, ~w.dead
               PROVE  w.arrived = rank'[d]
    BY DEF RankInv
  <1>5. CASE w = entry(r)
    BY <1>3, <1>4, <1>5
  <1>6. CASE w \in others
    <2>1. d # c /\ w \in waiters
      BY <1>6
    <2> QED BY <1>3, <2>1 DEF RankInv
  <1> QED BY <1>1, <1>5, <1>6

\* Every step keeps the places of those in admission.
LEMMA RankNext ==
  ASSUME ConstantsAssumption, TypeOK, LaneInv, RankInv, Next
  PROVE  RankInv'
  <1> USE ConstantsAssumption, TypeOK, LaneInv, RankInv
  <1>a. Clients \subseteq Actors /\ Closers \subseteq Clients /\ Daemons \subseteq Clients /\ Operators \subseteq Actors
        /\ \A o \in Operators : o \notin Clients
    BY DEF Actors, Clients, ConstantsAssumption
  <1>w. UNCHANGED waiters => waiters' \subseteq waiters
    OBVIOUS
  <1>q. Queued = {"inspect", "reclaim", "select"}
    BY DEF Queued
  <1>1. ASSUME NEW c \in Clients, Precheck(c) PROVE RankInv'
    <2>1. UNCHANGED waiters
      BY <1>1 DEF Precheck, files
    <2>2. CASE GotoWith(c, "sweep", lease, 0)
      BY <1>a, <1>q, <1>w, <2>1, <2>2, ReadStands, KeptRank
    <2>3. CASE \E step \in {"refused", "withdraw", "register"} : Goto(c, step)
      BY <1>a, <1>q, <1>w, <2>1, <2>3, GotoStands, KeptRank
    <2> QED BY <1>1, <2>2, <2>3 DEF Precheck, Refuse
  <1>2. ASSUME NEW c \in Clients, Inspect(c) PROVE RankInv'
    <2>1. waiters' \subseteq waiters
      BY <1>2 DEF Inspect, Pruned
    <2>2. \A d \in Clients : Stands(d)
      <3>1. pc[c] \in Queued
        BY <1>2, <1>q DEF Inspect
      <3>2. (\E step : Goto(c, step)) \/ GotoWith(c, "reclaim", lease, rank[c])
        BY <1>2 DEF Inspect
      <3> QED BY <1>a, <3>1, <3>2, GotoStands
    <2> QED BY <2>1, <2>2, KeptRank
  <1>3. ASSUME NEW a \in Actors, Reclaim(a) PROVE RankInv'
    <2>1. waiters' \subseteq waiters
      BY <1>3 DEF Reclaim, Pruned
    <2>2. \E step : Goto(a, step) /\ (step \in Queued => pc[a] \in Queued)
      <3>1. CASE pc[a] = "reclaim"
        BY <1>3, <1>q, <3>1 DEF Reclaim
      <3>2. CASE pc[a] = "sweep" /\ a \in Operators
        BY <1>3, <1>q, <3>2 DEF Reclaim
      <3>3. CASE pc[a] = "sweep" /\ a \notin Operators
        BY <1>3, <1>q, <3>3 DEF Reclaim
      <3> QED BY <1>3, <3>1, <3>2, <3>3 DEF Reclaim
    <2> QED BY <2>1, <2>2, GotoStands, KeptRank
  <1>4. ASSUME NEW c \in Clients, SelectRefused(c) PROVE RankInv'
    <2>1. \E step \in {"refused", "withdraw", "wait"} : Goto(c, step)
      BY <1>4 DEF SelectRefused, Refuse
    <2> QED BY <1>4, <1>a, <1>q, <2>1, GotoStands, KeptRank DEF SelectRefused
  <1>5. ASSUME NEW c \in Clients, Grant(c) PROVE RankInv'
    <2>1. waiters' \subseteq waiters
      BY <1>5 DEF Grant, Pruned
    <2>2. (\E read : GotoWith(c, "holding", read, 0)) \/ Goto(c, "idle")
      BY <1>5 DEF Grant
    <2> QED BY <1>a, <1>q, <2>1, <2>2, GotoStands, ReadStands, KeptRank
  <1>6. ASSUME NEW c \in Clients, GrantTorn(c) PROVE RankInv'
    BY <1>6, RestStands, KeptRank DEF GrantTorn
  <1>7. ASSUME NEW c \in Clients, NEW step, step \notin Queued, Goto(c, step), waiters' \subseteq waiters PROVE RankInv'
    BY <1>7, <1>a, GotoStands, KeptRank
  <1>8. ASSUME NEW c \in Clients,
               PollAgain(c) \/ ReleaseFenced(c) \/ ReleaseTerminal(c) \/ GiveUp(c) \/ Refund(c) \/ Cleanup(c)
        PROVE  RankInv'
    <2>1. waiters' \subseteq waiters
      BY <1>8 DEF PollAgain, ReleaseFenced, ReleaseTerminal, GiveUp, Refund, Cleanup, Pruned, files
    <2>2. \E step \in {"precheck", "withdraw", "idle", "timedout", "cleanup"} : Goto(c, step)
      BY <1>8 DEF PollAgain, ReleaseFenced, ReleaseTerminal, AfterRelease, GiveUp, Refund, Cleanup
    <2> QED BY <1>7, <1>q, <2>1, <2>2
  <1>9. ASSUME NEW d \in Daemons, BeginPass(d) \/ EndPass(d) \/ Withdraw(d) \/ WithdrawBusy(d)
        PROVE  RankInv'
    <2>1. waiters' \subseteq waiters
      BY <1>9 DEF BeginPass, EndPass, Withdraw, WithdrawBusy, files
    <2>2. Goto(d, "precheck") \/ Goto(d, "idle")
      BY <1>9 DEF BeginPass, EndPass, Withdraw, WithdrawBusy
    <2> QED BY <1>7, <1>a, <1>q, <2>1, <2>2
  <1>10. ASSUME NEW c \in Closers, RefundBusy(c) \/ AcquireThrows(c) PROVE RankInv'
    <2>1. waiters' \subseteq waiters
      BY <1>10 DEF RefundBusy, AcquireThrows, files
    <2>2. Goto(c, "wait") \/ Goto(c, "cleanup")
      BY <1>10 DEF RefundBusy, AcquireThrows
    <2> QED BY <1>7, <1>a, <1>q, <2>1, <2>2
  <1>11. ASSUME NEW c \in Clients, LockBusy(c) PROVE RankInv'
    <2>1. waiters' \subseteq waiters
      BY <1>11 DEF LockBusy, Pruned
    <2>2. \E step \in {"check", "wait", "withdraw"} : Goto(c, step)
      BY <1>11 DEF LockBusy
    <2> QED BY <1>7, <1>q, <2>1, <2>2
  <1>12. ASSUME NEW d \in Daemons, NEW o, DaemonReleaseBusy(d, o) PROVE RankInv'
    <2>1. waiters' \subseteq waiters
      BY <1>12 DEF DaemonReleaseBusy, files
    <2>2. Goto(d, "withdraw") \/ Goto(d, "idle")
      BY <1>12 DEF DaemonReleaseBusy, AfterRelease
    <2> QED BY <1>7, <1>a, <1>q, <2>1, <2>2
  <1>13. ASSUME NEW c \in Closers, AdoptHolder(c) PROVE RankInv'
    <2>1. waiters' \subseteq waiters /\ GotoWith(c, "holding", lease, 0)
      BY <1>13 DEF AdoptHolder
    <2> QED BY <1>a, <1>q, <2>1, ReadStands, KeptRank
  <1>14. ASSUME NEW c \in Closers, CliDies(c) PROVE RankInv'
    <2>1. \A d \in Clients : Stands(d)
      BY <1>14, <1>a, <1>q, GotoStands DEF CliDies
    <2> QED BY <1>14, <2>1, KeptRank DEF CliDies
  <1>15. ASSUME NEW c \in Closers, OwnerDies(c) PROVE RankInv'
    <2>1. waiters' \subseteq waiters
      BY <1>15 DEF OwnerDies, files
    <2> QED BY <1>15, <2>1, RestStands, KeptRank DEF OwnerDies
  <1>16. ASSUME WatcherDies PROVE RankInv'
    BY <1>16, RestStands, KeptRank DEF WatcherDies
  <1>17. ASSUME NEW o \in Operators, Reconcile(o) \/ ReconcileBusy(o), ~Reclaim(o) PROVE RankInv'
    <2>1. waiters' \subseteq waiters
      BY <1>17 DEF Reconcile, ReconcileRead, ReconcileAsk, ReconcileRetire, ReconcilePrune, ReconcileBusy,
                   Pruned, files
    <2>2. (\E step \in {"idle", "retire", "prune"} : Goto(o, step)) \/ (\E step, read : GotoWith(o, step, read, 0))
      BY <1>17 DEF Reconcile, ReconcileRead, ReconcileAsk, ReconcileRetire, ReconcilePrune, ReconcileBusy
    <2>3. \A d \in Clients : Stands(d)
      BY <1>a, <1>q, <2>2, GotoStands, ReadStands
    <2> QED BY <2>1, <2>3, KeptRank
  <1>18. ASSUME Environment \/ (\E w \in waiters : WaiterExpires(w)) PROVE RankInv'
    <2>1. UNCHANGED local
      BY <1>18 DEF Environment, DeadlinePasses, BaseAdvances, WaiterReady, BackoffEnds, ResetAttempts,
                   PrCloses, WaiterExpires
    <2>2. \/ waiters' \subseteq waiters
          \/ \E w \in waiters : WaiterReady(w)
          \/ \E h \in Heads : ResetAttempts(h)
      BY <1>18 DEF Environment, DeadlinePasses, BaseAdvances, BackoffEnds, PrCloses, WaiterExpires, files
    <2>3. \A w \in waiters' : Old(w)
      <3>1. \A w \in waiters' : w \in waiters \/ \E v \in waiters : w = [v EXCEPT !.delayed = FALSE]
        BY <2>2 DEF WaiterReady, ResetAttempts
      <3> QED BY <3>1, OldWaiters
    <2> QED BY <2>1, <2>3, RestStands, RankFrame
  <1>19. ASSUME NEW c \in Clients, NEW o, ReleaseNoMerge(c, o) PROVE RankInv'
    <2>1. lease.client = c
      BY <1>19, OwnRecord DEF ReleaseNoMerge
    <2>2. PICK step \in {"withdraw", "idle"} : Goto(c, step)
      BY <1>19 DEF ReleaseNoMerge, AfterRelease
    <2>3. (\A d \in Clients : Stands(d)) /\ pc'[c] \notin Queued
      BY <1>a, <1>q, <2>2, GotoStands DEF Goto, GotoWith, TypeOK
    <2>4. waiters' \subseteq Requeued(lease)
      BY <1>19 DEF ReleaseNoMerge, Pruned
    <2> QED BY <2>1, <2>3, <2>4, RequeuedRank
  <1>20. ASSUME NEW c \in Closers, NEW o, ControllerRelease(c, o) PROVE RankInv'
    <2>1. lease.client \notin Daemons /\ UNCHANGED local
      BY <1>20 DEF ControllerRelease, ConstantsAssumption
    <2>2. waiters' \subseteq Requeued(lease)
      BY <1>20 DEF ControllerRelease, Pruned
    <2> QED BY <2>1, <2>2, RestStands, RequeuedRank
  <1>21. ASSUME NEW c \in Clients, NEW o, ReleaseTorn(c, o) PROVE RankInv'
    <2>1. lease.client = c
      BY <1>21, OwnRecord DEF ReleaseTorn
    <2>2. (\A d \in Clients : Stands(d)) /\ (c \in Daemons => pc'[c] \notin Queued)
      <3>1. CASE c \in Daemons
        <4>1. PICK step \in {"withdraw", "idle"} : Goto(c, step)
          BY <1>21, <3>1 DEF ReleaseTorn, AfterRelease
        <4> QED BY <1>a, <1>q, <4>1, GotoStands DEF Goto, GotoWith, TypeOK
      <3>2. CASE c \notin Daemons
        BY <1>21, <3>2, RestStands DEF ReleaseTorn
      <3> QED BY <3>1, <3>2
    <2>3. waiters' \subseteq waiters \/ waiters' \subseteq Requeued(lease)
      BY <1>21 DEF ReleaseTorn
    <2>4. CASE waiters' \subseteq waiters
      BY <2>2, <2>4, KeptRank
    <2>5. CASE waiters' \subseteq Requeued(lease)
      BY <2>1, <2>2, <2>5, RequeuedRank
    <2> QED BY <2>3, <2>4, <2>5
  <1>22. ASSUME NEW c \in Closers, Renew(c) \/ \E b \in 0 .. base : Charge(c, b) PROVE RankInv'
    <2>1. waiters' \subseteq waiters
      BY <1>22 DEF Renew, Charge
    <2>2. UNCHANGED local \/ Goto(c, "precheck")
      BY <1>22 DEF Renew, Charge
    <2> QED BY <1>7, <1>a, <1>q, <2>1, <2>2, RestStands, KeptRank
  <1>23. ASSUME NEW c \in Clients, ClientStep(c) PROVE RankInv'
    BY <1>1, <1>2, <1>3, <1>4, <1>5, <1>8, <1>19, <1>23, <1>a, RegisterRank DEF ClientStep
  <1>24. ASSUME NEW c \in Closers, CloserStep(c) PROVE RankInv'
    BY <1>8, <1>20, <1>22, <1>24, <1>a DEF CloserStep
  <1>25. ASSUME Fault PROVE RankInv'
    BY <1>6, <1>9, <1>10, <1>11, <1>12, <1>13, <1>14, <1>15, <1>16, <1>17, <1>18, <1>21, <1>25, <1>3, <1>a DEF Fault
  <1> QED
    BY <1>3, <1>9, <1>17, <1>18, <1>23, <1>24, <1>25, <1>a DEF Next, Step, DaemonStep

\* A new holder is the first of the ready waiters, or nobody is ready.
LEMMA GrantInOrder ==
  ASSUME TypeOK, RankInv, NEW c \in Clients, pc[c] = "select", Admissible(c), WriteHolder(c),
         NEW w \in waiters, w.client # c, ~w.delayed, ~w.dead
  PROVE  lease'.client = c /\ ~Precedes(w, [client |-> c, arrived |-> lease'.arrived])
  <1>1. lease'.client = c /\ lease'.arrived = rank[c]
    BY DEF WriteHolder
  <1>2. w \in {v \in Pruned(waiters, c) : ~v.delayed}
    BY DEF Pruned
  <1>3. PICK v \in Own(c) : ~Precedes(w, v)
    BY <1>2 DEF Admissible, FirstReady
  <1>4. v.client = c /\ v.arrived = rank[c]
    BY <1>3 DEF Own, RankInv, Queued
  <1> QED
    BY <1>1, <1>3, <1>4 DEF Precedes

\* No grant passes over a waiter that is ready, alive as far as the grantee can
\* tell, and ahead of the place the grantee was registered with.
THEOREM GrantsFollowQueue == Spec => NoOvertaking
  <1> DEFINE Ordered == lease = NoLease /\ lease' # NoLease =>
               LET c == lease'.client
               IN  \A w \in waiters : w.client # c /\ ~w.delayed /\ ~w.dead =>
                     ~Precedes(w, [client |-> c, arrived |-> lease'.arrived])
  <1>1. Init => RankInv
    BY DEF Init, RankInv
  <1>2. TypeOK /\ LaneInv /\ RankInv /\ [Next]_vars => RankInv'
    <2>1. ASSUME RankInv, UNCHANGED vars PROVE RankInv'
      BY <2>1 DEF vars, files, local, RankInv
    <2> QED BY <2>1, RankNext, ConstantsAssumption
  <1>3. TypeOK /\ RankInv /\ [Next]_vars => [Ordered]_vars
    <2> SUFFICES ASSUME TypeOK, RankInv, Next, lease = NoLease, lease' # NoLease,
                        NEW w \in waiters, w.client # lease'.client, ~w.delayed, ~w.dead
                 PROVE  ~Precedes(w, [client |-> lease'.client, arrived |-> lease'.arrived])
      OBVIOUS
    <2>1. \E c \in Clients : Grant(c) \/ GrantTorn(c)
      BY DEF Next, Step, Fault, ClientStep, Precheck, Register, Inspect, Reclaim, SelectRefused, PollAgain,
             ReleaseTerminal, ReleaseFenced, ReleaseNoMerge, LockBusy, ReleaseTorn, StillHolds,
             CloserStep, Charge, GiveUp, Refund, Cleanup, Renew, ControllerRelease,
             AdoptHolder, RefundBusy, AcquireThrows, CliDies, OwnerDies,
             DaemonStep, BeginPass, EndPass, Withdraw, WithdrawBusy, DaemonReleaseBusy,
             Reconcile, ReconcileRead, ReconcileAsk, ReconcileRetire, ReconcilePrune, ReconcileBusy,
             Environment, DeadlinePasses, BaseAdvances, WaiterReady, BackoffEnds, ResetAttempts,
             PrCloses, WatcherDies, WaiterExpires, files
    <2>2. PICK c \in Clients : pc[c] = "select" /\ Admissible(c) /\ WriteHolder(c)
      BY <2>1 DEF Grant, GrantTorn
    <2>3. lease'.client = c
      BY <2>2 DEF WriteHolder
    <2> QED BY <2>2, <2>3, GrantInOrder
  <1> QED
    BY <1>1, <1>2, <1>3, LaneInvariance, PTL DEF Spec, NoOvertaking
=============================================================================
