------------------------ MODULE BranchOwnershipProofs ------------------------
(***************************************************************************)
(* Proofs about BranchOwnership: types, the single writer of the branch and *)
(* the survival of every queued job and of every operator's stop.          *)
(***************************************************************************)
EXTENDS BranchOwnership, FiniteSetTheorems, TLAPS

-----------------------------------------------------------------------------
(* Records and files.                                                       *)

(* The records that are possible after u disturbances. *)
Charged(u) == {r \in Records : r.retries <= MaxRetries + u}

(* u disturbances allow no more records than u + 1. *)
LEMMA ChargedGrows ==
  ASSUME NEW u \in Nat PROVE Charged(u) \subseteq Charged(u + 1)
BY QueueAssumption DEF Charged, Records

(* A record that is settled, handed back or aged is a record still. *)
LEMMA RecordOps ==
  ASSUME NEW u \in Nat, NEW r \in Charged(u)
  PROVE  /\ \A t \in Terminal \cup {"halted"} : Settled(r, t) \in Charged(u)
         /\ Stopped(r) \in Charged(u)
         /\ Halted(r) \in Charged(u)
         /\ \A hold \in BOOLEAN : Unclaimed(r, hold) \in Charged(u)
         /\ Older(r) \in Charged(u)
         /\ [r EXCEPT !.age = 0] \in Charged(u)
         /\ [r EXCEPT !.held = FALSE] \in Charged(u)
         /\ [r EXCEPT !.status = "pending", !.worker = 0, !.age = 0] \in Charged(u)
         /\ \A n \in 0 .. MaxWorkers :
              /\ [r EXCEPT !.worker = n] \in Charged(u)
              /\ [r EXCEPT !.status = "in_progress", !.worker = n, !.age = 0] \in Charged(u)
<1> USE QueueAssumption DEF Charged, Records, Statuses, Terminal, Ages
<1>0. 0 \in 0 .. 2 /\ 0 \in 0 .. MaxWorkers /\ {"pending", "in_progress", "stopped", "halted"} \subseteq Statuses
  OBVIOUS
<1>1. \A t \in Statuses : Settled(r, t) \in Charged(u)
  BY <1>0 DEF Settled
<1>a. Less(r.round) \in 0 .. MaxRounds
  BY DEF Less
<1>2. \A hold \in BOOLEAN : Unclaimed(r, hold) \in Charged(u)
  BY <1>0, <1>a DEF Unclaimed
<1>3. Older(r) \in Charged(u)
  BY DEF Older
<1>4. [r EXCEPT !.age = 0] \in Charged(u) /\ [r EXCEPT !.held = FALSE] \in Charged(u)
  BY <1>0
<1>5. [r EXCEPT !.status = "pending", !.worker = 0, !.age = 0] \in Charged(u)
  BY <1>0
<1>6. ASSUME NEW n \in 0 .. MaxWorkers
      PROVE  /\ [r EXCEPT !.worker = n] \in Charged(u)
             /\ [r EXCEPT !.status = "in_progress", !.worker = n, !.age = 0] \in Charged(u)
  BY <1>0
<1>7. QED BY <1>1, <1>2, <1>3, <1>4, <1>5, <1>6 DEF Stopped, Halted

(* A retry that is within its limit costs no disturbance. *)
LEMMA RetryInLimit ==
  ASSUME NEW u \in 0 .. MaxUpsets, NEW r \in Charged(u), MayRetry(r)
  PROVE  Retried(r) \in Charged(u)
<1>0. 0 \in Ages /\ 0 \in 0 .. MaxWorkers /\ "pending" \in Statuses
  BY QueueAssumption DEF Ages, Statuses
<1>a. Less(r.round) \in 0 .. MaxRounds /\ r.retries + 1 \in 0 .. MaxRetries + MaxUpsets
  BY QueueAssumption, UpsetAssumption DEF Less, MayRetry, Charged, Records
<1>1. Retried(r) \in Records
  BY <1>0, <1>a DEF Retried, Charged, Records
<1>2. Retried(r).retries = r.retries + 1
  BY DEF Retried, Charged, Records
<1>3. QED BY <1>1, <1>2, QueueAssumption, UpsetAssumption DEF MayRetry, Charged, Records

(* One that is not costs one. *)
LEMMA RetryCharged ==
  ASSUME NEW u \in 0 .. MaxUpsets, u < MaxUpsets, NEW r \in Charged(u)
  PROVE  Retried(r) \in Charged(u + 1)
<1>0. 0 \in Ages /\ 0 \in 0 .. MaxWorkers /\ "pending" \in Statuses
  BY QueueAssumption DEF Ages, Statuses
<1>a. Less(r.round) \in 0 .. MaxRounds /\ r.retries + 1 \in 0 .. MaxRetries + MaxUpsets
  BY QueueAssumption, UpsetAssumption DEF Less, Charged, Records
<1>1. Retried(r) \in Records
  BY <1>0, <1>a DEF Retried, Charged, Records
<1>2. Retried(r).retries = r.retries + 1
  BY DEF Retried, Charged, Records
<1>3. QED BY <1>1, <1>2, QueueAssumption, UpsetAssumption DEF Charged, Records

(* A claim: its round is in range because the budget was looked at. *)
LEMMA ClaimedRecord ==
  ASSUME NEW u \in Nat, NEW r \in Charged(u), r.round < MaxRounds
  PROVE  [r EXCEPT !.status = "in_progress", !.round = r.round + 1,
                   !.age = 0, !.held = FALSE] \in Charged(u)
<1>0. 0 \in Ages /\ "in_progress" \in Statuses
  BY DEF Ages, Statuses
<1>1. r.round + 1 \in 0 .. MaxRounds
  BY QueueAssumption DEF Charged, Records
<1>2. QED BY <1>0, <1>1 DEF Charged, Records

(* Writing a record and renaming a file. *)
LEMMA FileOps ==
  ASSUME NEW S, file \in [Jobs -> [Dirs -> S]], NEW j \in Jobs, NEW d \in Dirs
  PROVE  /\ file[j][d] \in S
         /\ \A r \in S : Put(j, d, r) \in [Jobs -> [Dirs -> S]]
         /\ \A e \in Dirs : NoFile \in S => Renamed(j, d, e) \in [Jobs -> [Dirs -> S]]
BY DEF Put, Renamed

-----------------------------------------------------------------------------
(* Types of the queue.                                                      *)

DaemonsWith(S) == [pc : Pcs, job : Jobs \cup {NoJob}, mem : S, aside : SUBSET Jobs]

(* Inductive: the daemon's copy and every file are records, and the daemon  *)
(* works on a job outside the idle steps.                                   *)
QueueInv ==
  /\ upsets \in 0 .. MaxUpsets
  /\ file \in [Jobs -> [Dirs -> Charged(upsets)]]
  /\ worker \in [Workers -> WorkerStates]
  /\ daemon \in DaemonsWith(Charged(upsets))
  /\ daemon.pc \notin {"idle", "drain", "down"} => daemon.job \in Jobs
  /\ mover \in [Processes -> Moves]
  /\ queued \in SUBSET Jobs

(* The empty record and the idle daemon are typed. *)
LEMMA EmptyTyped ==
  ASSUME NEW u \in Nat
  PROVE  NoFile \in Charged(u) /\ Idle \in DaemonsWith(Charged(u)) /\ NoMove \in Moves
<1>1. NoFile \in Charged(u)
  <2>1. 0 \in 0 .. MaxRounds /\ 0 \in 0 .. MaxRetries + MaxUpsets /\ 0 \in 0 .. MaxWorkers
         /\ 0 \in Ages /\ "absent" \in Statuses /\ 0 <= MaxRetries + u
    BY QueueAssumption, UpsetAssumption DEF Ages, Statuses
  <2>2. QED BY <2>1 DEF NoFile, Charged, Records
<1>2. QED BY <1>1 DEF Idle, DaemonsWith, Pcs, NoMove, Moves, Dirs

(* The inductive invariant contains the types. *)
LEMMA QueueInvTypes ==
  ASSUME QueueInv PROVE QueueTypeOK
<1>1. Charged(upsets) \subseteq Records
  BY DEF Charged
<1>2. file \in [Jobs -> [Dirs -> Records]] /\ daemon \in Daemons
  BY <1>1 DEF QueueInv, DaemonsWith, Daemons
<1>3. RetriesCharged
  BY DEF RetriesCharged, QueueInv, Charged, DaemonsWith
<1>4. QED BY <1>2, <1>3 DEF QueueInv, QueueTypeOK

(* A step with or without a disturbance keeps the records possible. *)
LEMMA Lift ==
  ASSUME QueueInv, Upset \/ upsets' = upsets
  PROVE  /\ upsets' \in 0 .. MaxUpsets
         /\ upsets' \in Nat
         /\ Charged(upsets) \subseteq Charged(upsets')
         /\ file \in [Jobs -> [Dirs -> Charged(upsets')]]
         /\ daemon \in DaemonsWith(Charged(upsets'))
         /\ NoFile \in Charged(upsets')
         /\ Idle \in DaemonsWith(Charged(upsets'))
<1>1. upsets' \in 0 .. MaxUpsets /\ upsets' \in Nat /\ upsets \in Nat
  BY UpsetAssumption DEF QueueInv, Upset
<1>2. Charged(upsets) \subseteq Charged(upsets')
  BY <1>1, ChargedGrows DEF Upset
<1>3. QED BY <1>1, <1>2, EmptyTyped DEF QueueInv, DaemonsWith

(* Moving on, ending, or taking up a job keeps the daemon's types. *)
LEMMA DaemonOps ==
  ASSUME NEW S, NEW x \in DaemonsWith(S), NoFile \in S
  PROVE  /\ \A pc \in Pcs : [x EXCEPT !.pc = pc] \in DaemonsWith(S)
         /\ \A aside \in SUBSET Jobs : [Idle EXCEPT !.pc = "drain", !.aside = aside] \in DaemonsWith(S)
         /\ [Idle EXCEPT !.pc = "down"] \in DaemonsWith(S)
         /\ \A pc \in Pcs, j \in Jobs, r \in S :
              [x EXCEPT !.pc = pc, !.job = j, !.mem = r] \in DaemonsWith(S)
         /\ \A pc \in Pcs, r \in S : [x EXCEPT !.pc = pc, !.mem = r] \in DaemonsWith(S)
         /\ \A r \in S : [x EXCEPT !.mem = r] \in DaemonsWith(S)
         /\ x.mem \in S /\ x.aside \in SUBSET Jobs
BY DEF DaemonsWith, Idle, Pcs

(* The two halves of a move keep the types of files and movers. *)
LEMMA MoveOps ==
  ASSUME NEW S, file \in [Jobs -> [Dirs -> S]], mover \in [Processes -> Moves], NoFile \in S,
         NEW p \in Processes, NEW j \in Jobs, NEW d \in Dirs, NEW t \in Dirs, NEW r \in S
  PROVE  /\ MoveTerminal(p, j, d, t, r) =>
              file' \in [Jobs -> [Dirs -> S]] /\ mover' \in [Processes -> Moves]
         /\ MovePending(p, j, d, r) =>
              file' \in [Jobs -> [Dirs -> S]] /\ mover' \in [Processes -> Moves]
<1>1. "pending" \in Dirs
  BY DEF Dirs
<1>2. \A e \in Dirs : [job |-> j, from |-> d, to |-> e] \in Moves
  BY DEF Moves
<1>3. \A e \in Dirs : Put(j, e, r) \in [Jobs -> [Dirs -> S]]
  BY FileOps
<1>4. QED BY <1>1, <1>2, <1>3 DEF MoveTerminal, MovePending

(* The second half of a move keeps the types, whoever it finds there. *)
LEMMA FinishOps ==
  ASSUME NEW S, file \in [Jobs -> [Dirs -> S]], mover \in [Processes -> Moves], NoFile \in S,
         NEW p \in Processes, FinishMove(p)
  PROVE  file' \in [Jobs -> [Dirs -> S]] /\ mover' \in [Processes -> Moves]
<1>1. NoMove \in Moves /\ "pending" \in Dirs
  BY DEF NoMove, Moves, Dirs
<1>2. mover' \in [Processes -> Moves]
  BY <1>1 DEF FinishMove
<1>3. mover[p].from \in Dirs /\ mover[p].job \in Jobs \cup {NoJob}
  BY DEF Moves
<1>4. CASE mover[p].job \in Jobs
  <2>1. Put(mover[p].job, mover[p].from, NoFile) \in [Jobs -> [Dirs -> S]]
    BY <1>3, <1>4, FileOps
  <2>2. Renamed(mover[p].job, mover[p].from, "pending") \in [Jobs -> [Dirs -> S]]
    BY <1>1, <1>3, <1>4, FileOps
  <2>3. QED BY <1>2, <2>1, <2>2 DEF FinishMove
<1>5. CASE mover[p].job \notin Jobs
  <2>1. Put(mover[p].job, mover[p].from, NoFile) = file
    BY <1>5 DEF Put
  <2>2. Renamed(mover[p].job, mover[p].from, "pending") = file
    BY <1>5 DEF Renamed
  <2>3. QED BY <1>2, <2>1, <2>2 DEF FinishMove
<1>6. QED BY <1>4, <1>5

(* The parts of the invariant after a step. *)
LEMMA QueueInvNext ==
  ASSUME upsets' \in 0 .. MaxUpsets,
         file' \in [Jobs -> [Dirs -> Charged(upsets')]],
         worker' \in [Workers -> WorkerStates],
         daemon' \in DaemonsWith(Charged(upsets')),
         daemon'.pc \notin {"idle", "drain", "down"} => daemon'.job \in Jobs,
         mover' \in [Processes -> Moves],
         queued' \in SUBSET Jobs
  PROVE  QueueInv'
BY DEF QueueInv

(* Signals, spawns and exits keep the types of the workers. *)
LEMMA WorkerOps ==
  ASSUME QueueInv
  PROVE  /\ \A n : Signalled(n) \in [Workers -> WorkerStates]
         /\ \A n, x \in WorkerStates : [worker EXCEPT ![n] = x] \in [Workers -> WorkerStates]
<1>1. {"live", "hung", "signalled", "gone"} \subseteq WorkerStates
  BY DEF WorkerStates
<1>2. \A n, x \in WorkerStates : [worker EXCEPT ![n] = x] \in [Workers -> WorkerStates]
  BY DEF QueueInv
<1>3. \A n : Signalled(n) \in [Workers -> WorkerStates]
  BY <1>1 DEF Signalled, QueueInv
<1>4. QED BY <1>2, <1>3

(* The steps that look at the closer keep the types of the queue. *)
LEMMA LooksTyped ==
  ASSUME QueueInv, NEW leased, NEW reserved, CloserSteps(leased, reserved)
  PROVE  QueueInv'
<1> USE DEF DaemonAt
<1>g. \A pc \in Pcs : Goto(pc) /\ upsets' = upsets =>
        /\ daemon' \in DaemonsWith(Charged(upsets'))
        /\ daemon'.pc = pc /\ daemon'.job = daemon.job
  <2>1. SUFFICES ASSUME NEW pc \in Pcs, Goto(pc), upsets' = upsets
                 PROVE  /\ daemon' \in DaemonsWith(Charged(upsets'))
                        /\ daemon'.pc = pc /\ daemon'.job = daemon.job
    OBVIOUS
  <2>2. daemon \in DaemonsWith(Charged(upsets'))
    BY <2>1, Lift
  <2>3. QED BY <2>1, <2>2 DEF Goto, DaemonsWith
<1>1. CASE StartDrain(reserved)
  <2>1. upsets' = upsets /\ UNCHANGED <<file, worker, mover, queued>> /\ Goto("drain") /\ "drain" \in Pcs
    BY <1>1 DEF StartDrain, Pcs
  <2>2. daemon' \in DaemonsWith(Charged(upsets')) /\ daemon'.pc = "drain"
    BY <1>g, <2>1
  <2>3. QED BY <2>1, <2>2, Lift, QueueInvNext DEF QueueInv
<1>2. CASE Recheck(leased)
  <2>1. upsets' = upsets /\ UNCHANGED <<worker, mover, queued>> /\ daemon.pc = "taken" /\ daemon.job \in Jobs
    BY <1>2 DEF Recheck, QueueInv
  <2>2. {"in-progress", "pending"} \subseteq Dirs
    BY DEF Dirs
  <2>3. file' \in [Jobs -> [Dirs -> Charged(upsets')]]
    BY <1>2, <2>1, <2>2, Lift, FileOps DEF Recheck
  <2>4. daemon.aside \cup {daemon.job} \in SUBSET Jobs
    BY <2>1, Lift, DaemonOps
  <2>5. \/ NextFile(daemon.aside \cup {daemon.job})
        \/ daemon' = Idle
        \/ Goto("checked") /\ "checked" \in Pcs
    BY <1>2 DEF Recheck, Pcs
  <2>6. CASE NextFile(daemon.aside \cup {daemon.job})
    <3>1. daemon' \in DaemonsWith(Charged(upsets')) /\ daemon'.pc = "drain"
      BY <2>1, <2>4, <2>6, Lift, DaemonOps DEF NextFile, Idle
    <3>2. QED BY <3>1, <2>1, <2>3, Lift, QueueInvNext DEF QueueInv
  <2>7. CASE daemon' = Idle
    <3>1. daemon'.pc = "idle"
      BY <2>7 DEF Idle
    <3>2. QED BY <3>1, <2>1, <2>3, <2>7, Lift, QueueInvNext DEF QueueInv
  <2>8. CASE Goto("checked") /\ "checked" \in Pcs
    <3>1. daemon' \in DaemonsWith(Charged(upsets')) /\ daemon'.job = daemon.job
      BY <1>g, <2>1, <2>8
    <3>2. QED BY <3>1, <2>1, <2>3, Lift, QueueInvNext DEF QueueInv
  <2>9. QED BY <2>5, <2>6, <2>7, <2>8
<1>3. ASSUME NEW j \in Jobs, SkipJob(j, leased) PROVE QueueInv'
  <2>1. upsets' = upsets /\ UNCHANGED <<file, worker, mover, queued>>
    BY <1>3 DEF SkipJob
  <2>2. daemon.aside \cup {j} \in SUBSET Jobs
    BY <2>1, Lift, DaemonOps
  <2>3. daemon' \in DaemonsWith(Charged(upsets')) /\ daemon'.pc = "drain"
    BY <1>3, <2>1, <2>2, Lift, DaemonOps DEF SkipJob, NextFile, Idle
  <2>4. QED BY <2>1, <2>3, Lift, QueueInvNext DEF QueueInv
<1>4. ASSUME NEW j \in Jobs, SeeJob(j, leased) PROVE QueueInv'
  <2>1. upsets' = upsets /\ UNCHANGED <<file, worker, mover, queued>>
    BY <1>4 DEF SeeJob
  <2>2. file[j]["pending"] \in Charged(upsets') /\ "seen" \in Pcs
    BY <2>1, Lift, FileOps DEF Dirs, Pcs
  <2>3. daemon' \in DaemonsWith(Charged(upsets')) /\ daemon'.job = j
    BY <1>4, <2>1, <2>2, Lift, DaemonOps DEF SeeJob, DaemonsWith
  <2>4. QED BY <2>1, <2>3, Lift, QueueInvNext DEF QueueInv
<1>5. QED BY <1>1, <1>2, <1>3, <1>4 DEF CloserSteps

(* Every other step of the queue keeps its types. *)
LEMMA StepsTyped ==
  ASSUME QueueInv, QueueSteps
  PROVE  QueueInv'
<1> USE DEF DaemonAt
<1>d. {"pending", "in-progress", "completed", "failed", "stopped"} \subseteq Dirs /\ Terminal \subseteq Dirs
  BY DEF Dirs, Terminal
<1>p. {"idle", "drain", "seen", "taken", "checked", "claimed", "spawned", "beat", "down"} \subseteq Pcs
  BY DEF Pcs
<1>w. {"live", "hung", "signalled", "gone"} \subseteq WorkerStates
  BY DEF WorkerStates
<1>x. {"daemon", "watcher", "operator"} \subseteq Processes
  BY DEF Processes
<1>i. Idle.pc = "idle" /\ [Idle EXCEPT !.pc = "down"].pc = "down"
      /\ \A aside : [Idle EXCEPT !.pc = "drain", !.aside = aside].pc = "drain"
  BY DEF Idle
<1>1. ASSUME NEW j \in Jobs, NEW round \in 0 .. MaxRounds, Enqueue(j, round) PROVE QueueInv'
  <2>1. upsets' = upsets /\ UNCHANGED <<worker, daemon, mover>> /\ queued' \in SUBSET Jobs
    BY <1>1 DEF Enqueue, QueueInv
  <2>2. [NoFile EXCEPT !.status = "pending", !.round = round] \in Charged(upsets')
    <3>1. "pending" \in Statuses
      BY DEF Statuses
    <3>2. QED BY <3>1, <2>1, Lift DEF Charged, Records, NoFile
  <2>3. file' \in [Jobs -> [Dirs -> Charged(upsets')]]
    BY <1>1, <1>d, <2>1, <2>2, Lift, FileOps DEF Enqueue
  <2>4. QED BY <2>1, <2>3, Lift, QueueInvNext DEF QueueInv
<1>2. CASE EndDrain
  BY <1>2, <1>i, Lift, QueueInvNext DEF EndDrain, QueueInv
<1>3. CASE TakeJob
  <2>1. upsets' = upsets /\ UNCHANGED <<worker, mover, queued>> /\ daemon.job \in Jobs
    BY <1>3 DEF TakeJob, QueueInv
  <2>l. /\ file \in [Jobs -> [Dirs -> Charged(upsets')]] /\ NoFile \in Charged(upsets')
        /\ daemon \in DaemonsWith(Charged(upsets')) /\ upsets' \in 0 .. MaxUpsets
    BY <2>1, Lift
  <2>2. Renamed(daemon.job, "pending", "in-progress") \in [Jobs -> [Dirs -> Charged(upsets')]]
    BY <1>d, <2>1, <2>l, FileOps
  <2>3. CASE file' = Renamed(daemon.job, "pending", "in-progress") /\ Goto("taken")
    <3>1. daemon' \in DaemonsWith(Charged(upsets')) /\ daemon'.job = daemon.job
      BY <1>p, <2>l, <2>3 DEF Goto, DaemonsWith
    <3>2. QED BY <3>1, <2>1, <2>2, <2>3, <2>l, QueueInvNext DEF QueueInv
  <2>4. CASE file' = file /\ NextFile(daemon.aside)
    <3>1. daemon.aside \in SUBSET Jobs
      BY <2>l DEF DaemonsWith
    <3>2. daemon' \in DaemonsWith(Charged(upsets'))
      BY <3>1, <2>4, <2>l, DaemonOps DEF NextFile
    <3>3. daemon'.pc = "drain"
      BY <1>i, <2>4 DEF NextFile
    <3>4. QED BY <3>2, <3>3, <2>1, <2>4, <2>l, QueueInvNext DEF QueueInv
  <2>5. QED BY <1>3, <2>3, <2>4 DEF TakeJob
<1>4. CASE ClaimStops
  <2>1. upsets' = upsets /\ UNCHANGED <<worker, queued>> /\ daemon.job \in Jobs
    BY <1>4 DEF ClaimStops, QueueInv
  <2>2. Stopped(file[daemon.job]["in-progress"]) \in Charged(upsets')
    BY <1>d, <2>1, Lift, FileOps, RecordOps
  <2>3. file' \in [Jobs -> [Dirs -> Charged(upsets')]] /\ mover' \in [Processes -> Moves]
    BY <1>4, <1>d, <1>x, <2>1, <2>2, Lift, MoveOps DEF ClaimStops, QueueInv
  <2>4. daemon' \in DaemonsWith(Charged(upsets')) /\ daemon'.pc = "drain"
    BY <1>4, <1>i, <2>1, Lift, DaemonOps DEF ClaimStops, NextFile
  <2>5. QED BY <2>1, <2>3, <2>4, Lift, QueueInvNext DEF QueueInv
<1>5. CASE ClaimStopFails
  <2>1. (Upset \/ upsets' = upsets) /\ UNCHANGED <<worker, mover, queued>> /\ daemon.job \in Jobs
    BY <1>5 DEF ClaimStopFails, QueueInv
  <2>l. file \in [Jobs -> [Dirs -> Charged(upsets')]] /\ NoFile \in Charged(upsets')
    BY <2>1, Lift
  <2>r. Renamed(daemon.job, "in-progress", "pending") \in [Jobs -> [Dirs -> Charged(upsets')]]
    BY <1>d, <2>1, <2>l, FileOps
  <2>2. file' \in [Jobs -> [Dirs -> Charged(upsets')]]
    BY <1>5, <2>l, <2>r DEF ClaimStopFails
  <2>3. daemon' \in DaemonsWith(Charged(upsets')) /\ daemon'.pc = "drain"
    BY <1>5, <1>i, <2>1, Lift, DaemonOps DEF ClaimStopFails, NextFile
  <2>4. QED BY <2>1, <2>2, <2>3, Lift, QueueInvNext DEF QueueInv
<1>6. CASE Claim
  <2>1. upsets' = upsets /\ UNCHANGED <<worker, mover, queued>> /\ daemon.job \in Jobs
    BY <1>6 DEF Claim, QueueInv
  <2> DEFINE r == [daemon.mem EXCEPT !.status = "in_progress", !.round = @ + 1,
                                     !.age = 0, !.held = FALSE]
  <2>2. r \in Charged(upsets')
    BY <1>6, <2>1, Lift, DaemonOps, ClaimedRecord DEF Claim
  <2>3. file' = Put(daemon.job, "in-progress", r) /\ daemon' = [daemon EXCEPT !.pc = "claimed", !.mem = r]
    BY <1>6 DEF Claim
  <2> HIDE DEF r
  <2>4. file' \in [Jobs -> [Dirs -> Charged(upsets')]]
    BY <1>d, <2>1, <2>2, <2>3, Lift, FileOps
  <2>5. daemon' \in DaemonsWith(Charged(upsets')) /\ daemon'.job = daemon.job
    BY <1>p, <2>1, <2>2, <2>3, Lift, DaemonOps DEF DaemonsWith
  <2>6. QED BY <2>1, <2>4, <2>5, Lift, QueueInvNext DEF QueueInv
<1>7. CASE ClaimRefused
  BY <1>7, <1>i, Lift, QueueInvNext DEF ClaimRefused, QueueInv
<1>8. CASE Persist
  <2>1. upsets' = upsets /\ UNCHANGED <<worker, daemon, mover, queued>> /\ daemon.job \in Jobs
    BY <1>8 DEF Persist, QueueInv
  <2>2. file' \in [Jobs -> [Dirs -> Charged(upsets')]]
    BY <1>8, <1>d, <2>1, Lift, DaemonOps, FileOps DEF Persist
  <2>3. QED BY <2>1, <2>2, Lift, QueueInvNext DEF QueueInv
<1>9. CASE PrepareRetries
  <2>1. Upset /\ UNCHANGED <<worker, queued>> /\ daemon.job \in Jobs
    BY <1>9 DEF PrepareRetries, QueueInv
  <2>2. Retried(file[daemon.job]["in-progress"]) \in Charged(upsets')
    <3>1. upsets \in 0 .. MaxUpsets /\ upsets < MaxUpsets /\ upsets' = upsets + 1
      BY <2>1 DEF Upset, QueueInv
    <3>2. file[daemon.job]["in-progress"] \in Charged(upsets)
      BY <1>d, <2>1 DEF QueueInv
    <3>3. QED BY <3>1, <3>2, RetryCharged
  <2>3. file' \in [Jobs -> [Dirs -> Charged(upsets')]] /\ mover' \in [Processes -> Moves]
    BY <1>9, <1>d, <1>x, <2>1, <2>2, Lift, MoveOps DEF PrepareRetries, QueueInv
  <2>4. daemon' = Idle
    BY <1>9 DEF PrepareRetries
  <2>5. QED BY <1>i, <2>1, <2>3, <2>4, Lift, QueueInvNext DEF QueueInv
<1>10. CASE MarkSpawned
  <2>1. upsets' = upsets /\ UNCHANGED <<mover, queued>> /\ daemon.job \in Jobs /\ daemon' = Idle
    BY <1>10 DEF MarkSpawned, QueueInv
  <2>2. daemon.mem.worker \in 0 .. MaxWorkers
    BY DEF QueueInv, DaemonsWith, Charged, Records
  <2>3. file' \in [Jobs -> [Dirs -> Charged(upsets')]]
    <3> DEFINE r == file[daemon.job]["in-progress"]
               q == [r EXCEPT !.status = "in_progress", !.worker = daemon.mem.worker, !.age = 0]
    <3>1. upsets' \in Nat /\ file \in [Jobs -> [Dirs -> Charged(upsets')]] /\ r \in Charged(upsets')
      BY <1>d, <2>1, Lift, FileOps
    <3>2. q \in Charged(upsets')
      BY <3>1, <2>2, RecordOps
    <3>3. file' = Put(daemon.job, "in-progress", q) \/ file' = file
      BY <1>10 DEF MarkSpawned
    <3> HIDE DEF q
    <3>4. Put(daemon.job, "in-progress", q) \in [Jobs -> [Dirs -> Charged(upsets')]]
      BY <1>d, <2>1, <3>1, <3>2, FileOps
    <3>5. QED BY <3>1, <3>3, <3>4
  <2>4. worker' \in [Workers -> WorkerStates]
    BY <1>10, <1>w, WorkerOps DEF MarkSpawned, QueueInv
  <2>5. QED BY <1>i, <2>1, <2>3, <2>4, Lift, QueueInvNext DEF QueueInv
<1>11. CASE MarkRefused
  <2>1. Upset /\ UNCHANGED queued /\ daemon.job \in Jobs /\ daemon' = Idle
    BY <1>11 DEF MarkRefused, QueueInv
  <2>2. Settled(file[daemon.job]["in-progress"], "failed") \in Charged(upsets')
    BY <1>d, <2>1, Lift, FileOps, RecordOps DEF Terminal
  <2>3. file' \in [Jobs -> [Dirs -> Charged(upsets')]] /\ mover' \in [Processes -> Moves]
    BY <1>11, <1>d, <1>x, <2>1, <2>2, Lift, MoveOps DEF MarkRefused, QueueInv
  <2>4. worker' \in [Workers -> WorkerStates]
    <3>1. worker' = [worker EXCEPT ![daemon.mem.worker] = "gone"] /\ "gone" \in WorkerStates
      BY <1>11, <1>w DEF MarkRefused
    <3>2. QED BY <3>1 DEF QueueInv
  <2>5. QED BY <1>i, <2>1, <2>3, <2>4, Lift, QueueInvNext DEF QueueInv
<1>12. CASE BeatWrite
  <2>1. upsets' = upsets /\ UNCHANGED <<worker, mover, queued>> /\ daemon.job \in Jobs /\ daemon' = Idle
    BY <1>12 DEF BeatWrite, QueueInv
  <2>2. [daemon.mem EXCEPT !.age = 0] \in Charged(upsets')
    BY <2>1, Lift, DaemonOps, RecordOps
  <2>3. file' \in [Jobs -> [Dirs -> Charged(upsets')]]
    BY <1>12, <1>d, <2>1, <2>2, Lift, FileOps DEF BeatWrite
  <2>4. QED BY <1>i, <2>1, <2>3, Lift, QueueInvNext DEF QueueInv
<1>13. ASSUME NEW t \in {"failed", "stopped"}, PrepareEnds(t) PROVE QueueInv'
  <2>1. upsets' = upsets /\ UNCHANGED <<worker, queued>> /\ daemon.job \in Jobs /\ daemon' = Idle
    BY <1>13 DEF PrepareEnds, QueueInv
  <2>2. Settled(file[daemon.job]["in-progress"], t) \in Charged(upsets') /\ t \in Dirs
    BY <1>d, <2>1, Lift, FileOps, RecordOps DEF Terminal
  <2>3. file' \in [Jobs -> [Dirs -> Charged(upsets')]] /\ mover' \in [Processes -> Moves]
    BY <1>13, <1>d, <1>x, <2>1, <2>2, Lift, MoveOps DEF PrepareEnds, QueueInv
  <2>4. QED BY <1>i, <2>1, <2>3, Lift, QueueInvNext DEF QueueInv
<1>14. ASSUME NEW hold \in BOOLEAN, PrepareRequeues(hold) PROVE QueueInv'
  <2>1. upsets' = upsets /\ UNCHANGED <<worker, queued>> /\ daemon.job \in Jobs /\ daemon' = Idle
    BY <1>14 DEF PrepareRequeues, QueueInv
  <2>2. Unclaimed(file[daemon.job]["in-progress"], hold) \in Charged(upsets')
    BY <1>d, <2>1, Lift, FileOps, RecordOps
  <2>3. file' \in [Jobs -> [Dirs -> Charged(upsets')]] /\ mover' \in [Processes -> Moves]
    BY <1>14, <1>d, <1>x, <2>1, <2>2, Lift, MoveOps DEF PrepareRequeues, QueueInv
  <2>4. QED BY <1>i, <2>1, <2>3, Lift, QueueInvNext DEF QueueInv
<1>15. ASSUME NEW n \in Workers, Spawn(n) PROVE QueueInv'
  <2>1. upsets' = upsets /\ UNCHANGED <<file, mover, queued>> /\ daemon.job \in Jobs
    BY <1>15 DEF Spawn, QueueInv
  <2> DEFINE r == [daemon.mem EXCEPT !.worker = n]
  <2>2. r \in Charged(upsets')
    <3>1. n \in 0 .. MaxWorkers
      BY QueueAssumption DEF Workers
    <3>2. daemon.mem \in Charged(upsets') /\ upsets' \in Nat
      BY <2>1, Lift DEF DaemonsWith
    <3>3. QED BY <3>1, <3>2, RecordOps
  <2>3. daemon' = [daemon EXCEPT !.pc = "spawned", !.mem = r]
    BY <1>15 DEF Spawn
  <2> HIDE DEF r
  <2>4. daemon' \in DaemonsWith(Charged(upsets')) /\ daemon'.job = daemon.job
    BY <1>p, <2>1, <2>2, <2>3, Lift, DaemonOps DEF DaemonsWith
  <2>5. worker' \in [Workers -> WorkerStates]
    BY <1>15, <1>w, WorkerOps DEF Spawn
  <2>6. QED BY <2>1, <2>4, <2>5, Lift, QueueInvNext DEF QueueInv
<1>16. ASSUME NEW n \in Workers, WorkerHangs(n) \/ WorkerExits(n) PROVE QueueInv'
  <2>1. upsets' = upsets /\ UNCHANGED <<file, daemon, mover, queued>> /\ worker' \in [Workers -> WorkerStates]
    BY <1>16, <1>w, WorkerOps DEF WorkerHangs, WorkerExits
  <2>2. QED BY <2>1, Lift, QueueInvNext DEF QueueInv
<1>17. ASSUME NEW j \in Jobs, ReconcileRetry(j) PROVE QueueInv'
  <2>1. upsets' = upsets /\ UNCHANGED <<worker, daemon, queued>>
    BY <1>17 DEF ReconcileRetry
  <2>2. Retried(file[j]["in-progress"]) \in Charged(upsets')
    BY <1>17, <1>d, <2>1, Lift, FileOps, RetryInLimit DEF ReconcileRetry
  <2>3. file' \in [Jobs -> [Dirs -> Charged(upsets')]] /\ mover' \in [Processes -> Moves]
    BY <1>17, <1>d, <1>x, <2>1, <2>2, Lift, MoveOps DEF ReconcileRetry, QueueInv
  <2>4. QED BY <2>1, <2>3, Lift, QueueInvNext DEF QueueInv
<1>18. ASSUME NEW j \in Jobs, ReconcileStop(j) PROVE QueueInv'
  <2>1. Upset /\ UNCHANGED <<daemon, queued>> /\ worker' \in [Workers -> WorkerStates]
    BY <1>18, WorkerOps DEF ReconcileStop
  <2>2. Stopped(file[j]["in-progress"]) \in Charged(upsets')
    BY <1>d, <2>1, Lift, FileOps, RecordOps
  <2>3. file' \in [Jobs -> [Dirs -> Charged(upsets')]] /\ mover' \in [Processes -> Moves]
    BY <1>18, <1>d, <1>x, <2>1, <2>2, Lift, MoveOps DEF ReconcileStop, QueueInv
  <2>4. QED BY <2>1, <2>3, Lift, QueueInvNext DEF QueueInv
<1>19. ASSUME NEW j \in Jobs, ReconcileOverdue(j) PROVE QueueInv'
  <2>1. Upset /\ UNCHANGED <<worker, daemon, queued>>
    BY <1>19 DEF ReconcileOverdue
  <2>2. Settled(file[j]["in-progress"], "failed") \in Charged(upsets')
    BY <1>d, <2>1, Lift, FileOps, RecordOps DEF Terminal
  <2>3. file' \in [Jobs -> [Dirs -> Charged(upsets')]] /\ mover' \in [Processes -> Moves]
    BY <1>19, <1>d, <1>x, <2>1, <2>2, Lift, MoveOps DEF ReconcileOverdue, QueueInv
  <2>4. QED BY <2>1, <2>3, Lift, QueueInvNext DEF QueueInv
<1>20. ASSUME NEW j \in Jobs, BeatRead(j) PROVE QueueInv'
  <2>1. upsets' = upsets /\ UNCHANGED <<file, worker, mover, queued>>
    BY <1>20 DEF BeatRead
  <2>2. file[j]["in-progress"] \in Charged(upsets')
    BY <1>d, <2>1, Lift, FileOps
  <2>3. daemon' \in DaemonsWith(Charged(upsets')) /\ daemon'.job = j
    BY <1>20, <1>p, <2>1, <2>2, Lift, DaemonOps DEF BeatRead, DaemonsWith
  <2>4. QED BY <2>1, <2>3, Lift, QueueInvNext DEF QueueInv
<1>21. ASSUME NEW j \in Jobs, Sweep(j) PROVE QueueInv'
  <2>1. upsets' = upsets /\ UNCHANGED <<daemon, queued>> /\ worker' \in [Workers -> WorkerStates]
    BY <1>21, WorkerOps DEF Sweep
  <2> DEFINE r == file[j]["in-progress"]
  <2>2. Stopped(r) \in Charged(upsets') /\ (MayRetry(r) => Retried(r) \in Charged(upsets'))
    BY <1>d, <2>1, Lift, FileOps, RecordOps, RetryInLimit
  <2>3. \/ MayRetry(r) /\ MovePending("daemon", j, "in-progress", Retried(r))
        \/ MoveTerminal("daemon", j, "in-progress", "stopped", Stopped(r))
    BY <1>21 DEF Sweep
  <2>4. file' \in [Jobs -> [Dirs -> Charged(upsets')]] /\ mover' \in [Processes -> Moves]
    BY <1>d, <1>x, <2>1, <2>2, <2>3, Lift, MoveOps DEF QueueInv
  <2>5. QED BY <2>1, <2>4, Lift, QueueInvNext DEF QueueInv
<1>22. ASSUME NEW j \in Jobs, WatcherReclaims(j) PROVE QueueInv'
  <2>1. upsets' = upsets /\ UNCHANGED <<daemon, queued>> /\ worker' \in [Workers -> WorkerStates]
    BY <1>22, WorkerOps DEF WatcherReclaims
  <2>2. Stopped(file[j]["in-progress"]) \in Charged(upsets')
    BY <1>d, <2>1, Lift, FileOps, RecordOps
  <2>3. file' \in [Jobs -> [Dirs -> Charged(upsets')]] /\ mover' \in [Processes -> Moves]
    BY <1>22, <1>d, <1>x, <2>1, <2>2, Lift, MoveOps DEF WatcherReclaims, QueueInv
  <2>4. QED BY <2>1, <2>3, Lift, QueueInvNext DEF QueueInv
<1>23. ASSUME NEW j \in Jobs, OpCancel(j) PROVE QueueInv'
  <2>1. Upset /\ UNCHANGED <<file, daemon, mover, queued>> /\ worker' \in [Workers -> WorkerStates]
    BY <1>23, WorkerOps DEF OpCancel
  <2>2. QED BY <2>1, Lift, QueueInvNext DEF QueueInv
<1>24. ASSUME NEW j \in Jobs, TimePasses(j) PROVE QueueInv'
  <2>1. upsets' = upsets /\ UNCHANGED <<worker, mover, queued>>
    BY <1>24 DEF TimePasses
  <2>2. \A d \in Dirs : Older(file[j][d]) \in Charged(upsets')
    BY <2>1, Lift, FileOps, RecordOps
  <2>3. [d \in Dirs |-> Older(file[j][d])] \in [Dirs -> Charged(upsets')]
    BY <2>2
  <2>4. file' = [file EXCEPT ![j] = [d \in Dirs |-> Older(file[j][d])]]
    BY <1>24 DEF TimePasses
  <2>5. file' \in [Jobs -> [Dirs -> Charged(upsets')]]
    BY <2>1, <2>3, <2>4, Lift
  <2>6. Older(daemon.mem) \in Charged(upsets')
    BY <2>1, Lift, DaemonOps, RecordOps
  <2>7. daemon' = daemon \/ daemon' = [daemon EXCEPT !.mem = Older(daemon.mem)]
    BY <1>24 DEF TimePasses
  <2> DEFINE q == Older(daemon.mem)
  <2>a. daemon \in DaemonsWith(Charged(upsets')) /\ q \in Charged(upsets')
        /\ (daemon' = daemon \/ daemon' = [daemon EXCEPT !.mem = q])
    BY <2>1, <2>6, <2>7, Lift
  <2> HIDE DEF q
  <2>8. daemon' \in DaemonsWith(Charged(upsets')) /\ daemon'.pc = daemon.pc /\ daemon'.job = daemon.job
    BY <2>a DEF DaemonsWith
  <2>9. QED BY <2>1, <2>5, <2>8, Lift, QueueInvNext DEF QueueInv
<1>25. ASSUME NEW j \in Jobs, HoldEnds(j) PROVE QueueInv'
  <2>1. upsets' = upsets /\ UNCHANGED <<worker, daemon, mover, queued>>
    BY <1>25 DEF HoldEnds
  <2>2. [file[j]["pending"] EXCEPT !.held = FALSE] \in Charged(upsets')
    BY <1>d, <2>1, Lift, FileOps, RecordOps
  <2>3. file' \in [Jobs -> [Dirs -> Charged(upsets')]]
    BY <1>25, <1>d, <2>1, <2>2, Lift, FileOps DEF HoldEnds
  <2>4. QED BY <2>1, <2>3, Lift, QueueInvNext DEF QueueInv
<1>26. ASSUME NEW j \in Jobs, NEW t \in Terminal, ReconcileExit(j, t) PROVE QueueInv'
  <2>1. upsets' = upsets /\ UNCHANGED <<worker, daemon, queued>>
    BY <1>26 DEF ReconcileExit
  <2>2. Settled(file[j]["in-progress"], t) \in Charged(upsets')
    BY <1>d, <2>1, Lift, FileOps, RecordOps
  <2>3. file' \in [Jobs -> [Dirs -> Charged(upsets')]] /\ mover' \in [Processes -> Moves]
    BY <1>26, <1>d, <1>x, <2>1, <2>2, Lift, MoveOps DEF ReconcileExit, QueueInv
  <2>4. QED BY <2>1, <2>3, Lift, QueueInvNext DEF QueueInv
<1>27. ASSUME NEW j \in Jobs, NEW d \in Dirs, OpHalt(j, d) PROVE QueueInv'
  <2>1. Upset /\ UNCHANGED <<daemon, queued>> /\ worker' \in [Workers -> WorkerStates]
    BY <1>27, WorkerOps DEF OpHalt
  <2>2. Halted(file[j][d]) \in Charged(upsets')
    BY <2>1, Lift, FileOps, RecordOps
  <2>3. file' \in [Jobs -> [Dirs -> Charged(upsets')]] /\ mover' \in [Processes -> Moves]
    BY <1>27, <1>d, <1>x, <2>1, <2>2, Lift, MoveOps DEF OpHalt, QueueInv
  <2>4. QED BY <2>1, <2>3, Lift, QueueInvNext DEF QueueInv
<1>28. ASSUME NEW j \in Jobs, NEW d \in Dirs, OpRequeue(j, d) PROVE QueueInv'
  <2>1. Upset /\ UNCHANGED <<worker, daemon, queued>>
    BY <1>28 DEF OpRequeue
  <2> DEFINE q == [file[j][d] EXCEPT !.status = "pending", !.worker = 0, !.age = 0]
  <2>2. Stopped(file[j][d]) \in Charged(upsets') /\ q \in Charged(upsets')
    BY <2>1, Lift, FileOps, RecordOps
  <2>3. MovePending("operator", j, d, q) \/ MoveTerminal("operator", j, d, "stopped", Stopped(file[j][d]))
    BY <1>28 DEF OpRequeue
  <2> HIDE DEF q
  <2>4. file' \in [Jobs -> [Dirs -> Charged(upsets')]] /\ mover' \in [Processes -> Moves]
    BY <1>d, <1>x, <2>1, <2>2, <2>3, Lift, MoveOps DEF QueueInv
  <2>5. QED BY <2>1, <2>4, Lift, QueueInvNext DEF QueueInv
<1>29. ASSUME NEW j \in Jobs, NEW d \in Dirs, WatcherReleases(j, d) PROVE QueueInv'
  <2>1. Upset /\ UNCHANGED <<worker, daemon, queued>>
    BY <1>29 DEF WatcherReleases
  <2>2. Stopped(file[j][d]) \in Charged(upsets')
    BY <2>1, Lift, FileOps, RecordOps
  <2>3. file' \in [Jobs -> [Dirs -> Charged(upsets')]] /\ mover' \in [Processes -> Moves]
    BY <1>29, <1>d, <1>x, <2>1, <2>2, Lift, MoveOps DEF WatcherReleases, QueueInv
  <2>4. QED BY <2>1, <2>3, Lift, QueueInvNext DEF QueueInv
<1>30. ASSUME NEW p \in Processes, FinishMove(p) PROVE QueueInv'
  <2>1. upsets' = upsets /\ UNCHANGED <<worker, daemon, queued>>
    BY <1>30 DEF FinishMove
  <2>2. file' \in [Jobs -> [Dirs -> Charged(upsets')]] /\ mover' \in [Processes -> Moves]
    BY <1>30, <2>1, Lift, FinishOps DEF QueueInv
  <2>3. QED BY <2>1, <2>2, Lift, QueueInvNext DEF QueueInv
<1>31. CASE DaemonCrash
  <2>1. Upset /\ UNCHANGED <<file, worker, queued>>
    BY <1>31 DEF DaemonCrash
  <2>2. mover' \in [Processes -> Moves]
    BY <1>31, <2>1, Lift, EmptyTyped DEF DaemonCrash, QueueInv
  <2>3. daemon' \in DaemonsWith(Charged(upsets')) /\ daemon'.pc = "down"
    BY <1>31, <1>i, <2>1, Lift, DaemonOps DEF DaemonCrash
  <2>4. QED BY <2>1, <2>2, <2>3, Lift, QueueInvNext DEF QueueInv
<1>32. CASE DaemonRestart
  BY <1>32, <1>i, Lift, QueueInvNext DEF DaemonRestart, QueueInv
<1>33. ASSUME NEW j \in Jobs, SweepDeferred(j) PROVE QueueInv'
  <2>1. upsets' = upsets /\ UNCHANGED <<file, daemon, mover, queued>> /\ worker' \in [Workers -> WorkerStates]
    BY <1>33, WorkerOps DEF SweepDeferred
  <2>2. QED BY <2>1, Lift, QueueInvNext DEF QueueInv
<1>34. QED
  BY <1>1, <1>2, <1>3, <1>4, <1>5, <1>6, <1>7, <1>8, <1>9, <1>10, <1>11, <1>12, <1>13, <1>14, <1>15, <1>16, <1>17, <1>18, <1>19, <1>20, <1>21, <1>22, <1>23, <1>24, <1>25, <1>26, <1>27, <1>28, <1>29, <1>30, <1>31, <1>32, <1>33 DEF QueueSteps

-----------------------------------------------------------------------------
(* Types of the lease.                                                      *)

(* The looks at the queue keep the types of the lease. *)
LEMMA LeaseLooksTyped ==
  ASSUME LeaseTypeOK, NEW found,
         Admit(found) \/ RecoverAdmit(found) \/ ScanPending(found) \/ ScanInProgress(found)
  PROVE  LeaseTypeOK' /\ (Upset \/ upsets' = upsets)
BY LeaseAssumption DEF LeaseTypeOK, Admit, RecoverAdmit, ScanPending, ScanInProgress, Look, BackOff, Rest

(* Every other step of the launch keeps them, and disturbs at most once. *)
LEMMA LeaseStepsTyped ==
  ASSUME LeaseTypeOK, LeaseSteps
  PROVE  LeaseTypeOK' /\ (Upset \/ upsets' = upsets)
<1> USE LeaseAssumption DEF LeaseTypeOK, Rest
<1>1. CASE AcquireLease
  BY <1>1 DEF AcquireLease
<1>2. CASE LeaseTaken
  BY <1>2 DEF LeaseTaken
<1>3. CASE PublishIntent
  BY <1>3 DEF PublishIntent
<1>4. CASE DispatchRefused
  BY <1>4 DEF DispatchRefused, BackOff
<1>5. CASE Submit
  BY <1>5 DEF Submit
<1>6. CASE Receipt
  BY <1>6 DEF Receipt
<1>7. CASE ReceiptLost
  BY <1>7 DEF ReceiptLost
<1>8. CASE SettleIntent
  BY <1>8 DEF SettleIntent
<1>9. CASE SettleLaunch
  BY <1>9 DEF SettleLaunch
<1>10. CASE ReclaimDispatched
  BY <1>10 DEF ReclaimDispatched
<1>11. CASE CloserExits
  BY <1>11 DEF CloserExits
<1>12. CASE WatcherCrash
  BY <1>12 DEF WatcherCrash
<1>13. CASE LeaseAges
  BY <1>13 DEF LeaseAges
<1>14. CASE TargetMerged
  BY <1>14 DEF TargetMerged
<1>20. QED
  BY <1>1, <1>2, <1>3, <1>4, <1>5, <1>6, <1>7, <1>8, <1>9, <1>10, <1>11, <1>12, <1>13, <1>14 DEF LeaseSteps

-----------------------------------------------------------------------------
(* The composition.                                                         *)

TypeInv == QueueInv /\ LeaseTypeOK /\ overrode \in BOOLEAN /\ raced \in BOOLEAN

(* A step that leaves the queue alone keeps its types. *)
LEMMA QueueUntouched ==
  ASSUME QueueInv, UNCHANGED queueVars, Upset \/ upsets' = upsets
  PROVE  QueueInv'
BY Lift, QueueInvNext DEF QueueInv, queueVars

(* A step that leaves the lease alone keeps its types. *)
LEMMA LeaseUntouched ==
  ASSUME LeaseTypeOK, UNCHANGED leaseVars
  PROVE  LeaseTypeOK'
BY DEF LeaseTypeOK, leaseVars

(* The histories are truth values after every step. *)
LEMMA HistoriesTyped ==
  ASSUME TypeInv, Next
  PROVE  overrode' \in BOOLEAN /\ raced' \in BOOLEAN
BY DEF TypeInv, Next, DaemonLooks, WatcherLooks, QueueActs, LeaseActs, Overrides

(* The initial state is typed. *)
LEMMA TypeInvInit ==
  ASSUME Init PROVE TypeInv
<1>1. upsets = 0 /\ upsets \in Nat /\ upsets \in 0 .. MaxUpsets
  BY UpsetAssumption DEF Init, QueueInit
<1>2. NoFile \in Charged(upsets) /\ Idle \in DaemonsWith(Charged(upsets)) /\ NoMove \in Moves
  BY <1>1, EmptyTyped
<1>3. QueueInv
  BY <1>1, <1>2 DEF Init, QueueInit, QueueInv, WorkerStates, Idle
<1>4. LeaseTypeOK
  <2>1. closers \in 0 .. MaxClosers
    BY LeaseAssumption DEF Init, LeaseInit
  <2>2. lease = "none" /\ record = "none" /\ watcher = "idle"
        /\ owner \in BOOLEAN /\ late \in BOOLEAN /\ recovery \in BOOLEAN
    BY DEF Init, LeaseInit
  <2>3. QED BY <2>1, <2>2 DEF LeaseTypeOK
<1>5. QED BY <1>3, <1>4 DEF Init, TypeInv

(* Every step keeps the types. *)
LEMMA TypeInvNext ==
  ASSUME TypeInv, [Next]_vars
  PROVE  TypeInv'
<1>1. CASE UNCHANGED vars
  <2>1. upsets' = upsets /\ UNCHANGED queueVars /\ UNCHANGED leaseVars /\ UNCHANGED <<overrode, raced>>
    BY <1>1 DEF vars
  <2>2. QED BY <2>1, QueueUntouched, LeaseUntouched DEF TypeInv
<1>2. CASE DaemonLooks
  <2>1. (\E leased : CloserSteps(leased, DispatchActive)) /\ UNCHANGED leaseVars
    BY <1>2 DEF DaemonLooks, CloserSteps
  <2>2. QueueInv' /\ LeaseTypeOK'
    BY <2>1, LooksTyped, LeaseUntouched DEF TypeInv
  <2>3. QED BY <1>2, <2>2, HistoriesTyped DEF TypeInv, Next
<1>3. CASE WatcherLooks
  <2>1. UNCHANGED queueVars
    BY <1>3 DEF WatcherLooks
  <2>2. PICK found : Admit(found) \/ RecoverAdmit(found) \/ ScanPending(found) \/ ScanInProgress(found)
    BY <1>3 DEF WatcherLooks
  <2>3. LeaseTypeOK' /\ (Upset \/ upsets' = upsets)
    BY <2>2, LeaseLooksTyped DEF TypeInv
  <2>4. QueueInv'
    BY <2>1, <2>3, QueueUntouched DEF TypeInv
  <2>5. QED BY <1>3, <2>3, <2>4, HistoriesTyped DEF TypeInv, Next
<1>4. CASE QueueActs
  <2>1. QueueInv' /\ LeaseTypeOK'
    BY <1>4, StepsTyped, LeaseUntouched DEF QueueActs, TypeInv
  <2>2. QED BY <1>4, <2>1, HistoriesTyped DEF TypeInv, Next
<1>5. CASE LeaseActs
  <2>1. LeaseTypeOK' /\ (Upset \/ upsets' = upsets) /\ UNCHANGED queueVars
    BY <1>5, LeaseStepsTyped DEF LeaseActs, TypeInv
  <2>2. QueueInv'
    BY <2>1, QueueUntouched DEF TypeInv
  <2>3. QED BY <1>5, <2>1, <2>2, HistoriesTyped DEF TypeInv, Next
<1>6. QED BY <1>1, <1>2, <1>3, <1>4, <1>5 DEF Next

(* The strengthened types hold in every reachable state. *)
LEMMA TypeInvAlways == Spec => []TypeInv
BY TypeInvInit, TypeInvNext, PTL DEF Spec

(* Every variable of the composition keeps its type: no round goes past the *)
(* plan and no retry past the charges.                                      *)
THEOREM TypeCorrect == Spec => []TypeOK
<1>1. TypeInv => TypeOK
  BY QueueInvTypes DEF TypeInv, TypeOK
<1>2. QED BY <1>1, TypeInvAlways, PTL

-----------------------------------------------------------------------------
(* The single writer.                                                       *)

Looking == {"drain", "seen", "taken", "checked", "claimed"}

(* The closer side holds the branch, or is past its last look at the queue. *)
Engaged == watcher \in {"cleared", "submitted"} \/ closers > 0

(* How far a launch has come shows in its lease and its record. *)
LaunchTraced ==
  /\ closers <= 1
  /\ watcher \in {"leased", "published", "halfway", "cleared"} =>
       lease = "pending" /\ closers = 0
  /\ watcher \in {"published", "halfway", "cleared", "submitted"} => record = "intent"
  /\ watcher = "submitted" => lease = "pending"
  /\ watcher \in {"idle", "admitted"} /\ closers > 0 =>
       \/ record = "intent" /\ lease = "pending"
       \/ record = "dispatched" /\ lease = "dispatched"
  /\ watcher = "admitted" /\ closers > 0 => lease = "dispatched" /\ ~recovery

OneActive ==
  /\ daemon.pc \in Looking => ActiveWorkers = {}
  /\ daemon.pc = "spawned" => ActiveWorkers \subseteq {daemon.mem.worker}
  /\ \A m, n \in ActiveWorkers : m = n

(* Until an owner is overruled the two sides are never engaged together. *)
WriterInv ==
  overrode \/ /\ ~Bereft
              /\ OneActive
              /\ Committed \/ ActiveWorkers # {} => ~Engaged
              /\ LaunchTraced

(* A launch stays traced by its lease and its record, unless one that may   *)
(* still run is given up.                                                   *)
LEMMA TracedByLaunch ==
  ASSUME LeaseTypeOK, LaunchTraced, LeaseSteps, ~LaunchOverruled
  PROVE  LaunchTraced' /\ (Engaged' => Engaged)
<1> USE LeaseAssumption DEF LeaseTypeOK, LaunchTraced, Engaged, Rest
<1>1. CASE AcquireLease
  BY <1>1 DEF AcquireLease, ReclaimablePending
<1>2. CASE LeaseTaken
  BY <1>2 DEF LeaseTaken
<1>3. CASE PublishIntent
  BY <1>3 DEF PublishIntent
<1>4. CASE DispatchRefused
  BY <1>4 DEF DispatchRefused, BackOff
<1>5. CASE Submit
  BY <1>5 DEF Submit
<1>6. CASE Receipt
  BY <1>6 DEF Receipt
<1>7. CASE ReceiptLost
  BY <1>7 DEF ReceiptLost
<1>8. CASE SettleIntent
  BY <1>8 DEF SettleIntent
<1>9. CASE SettleLaunch
  BY <1>9 DEF SettleLaunch
<1>10. CASE ReclaimDispatched
  BY <1>10 DEF ReclaimDispatched, LaunchOverruled
<1>11. CASE CloserExits
  BY <1>11 DEF CloserExits
<1>12. CASE WatcherCrash
  BY <1>12 DEF WatcherCrash
<1>13. CASE LeaseAges
  BY <1>13 DEF LeaseAges
<1>14. CASE TargetMerged
  BY <1>14 DEF TargetMerged
<1>20. QED
  BY <1>1, <1>2, <1>3, <1>4, <1>5, <1>6, <1>7, <1>8, <1>9, <1>10, <1>11, <1>12, <1>13, <1>14 DEF LeaseSteps

(* So does a look at the queue; only the last look, when it goes on,        *)
(* engages the closer side.                                                 *)
LEMMA TracedByLook ==
  ASSUME LeaseTypeOK, LaunchTraced, NEW found,
         Admit(found) \/ RecoverAdmit(found) \/ ScanPending(found) \/ ScanInProgress(found)
  PROVE  /\ LaunchTraced'
         /\ Engaged' => Engaged \/ (ScanInProgress(found) /\ watcher' = "cleared")
<1> USE LeaseAssumption DEF LeaseTypeOK, LaunchTraced, Engaged, Rest
<1>1. CASE Admit(found)
  BY <1>1 DEF Admit, DispatchActive
<1>2. CASE RecoverAdmit(found)
  BY <1>2 DEF RecoverAdmit
<1>3. CASE ScanPending(found)
  BY <1>3 DEF ScanPending, Look, BackOff
<1>4. CASE ScanInProgress(found)
  BY <1>4 DEF ScanInProgress, Look, BackOff
<1>5. QED BY <1>1, <1>2, <1>3, <1>4

(* A step that leaves the lease alone leaves the closer side as it is. *)
LEMMA TracedUntouched ==
  ASSUME LaunchTraced, UNCHANGED leaseVars
  PROVE  LaunchTraced' /\ (Engaged' <=> Engaged)
BY DEF LaunchTraced, Engaged, leaseVars

(* A closer side that is engaged has a lease in force. *)
LEMMA EngagedIsLeased ==
  ASSUME LeaseTypeOK, LaunchTraced, Engaged
  PROVE  lease \in {"pending", "dispatched"}
BY DEF LeaseTypeOK, LaunchTraced, Engaged

(* No worker starts, and the daemon does not get past another look. *)
Calm ==
  /\ ActiveWorkers' \subseteq ActiveWorkers
  /\ daemon'.pc \in Looking => daemon.pc \in Looking
  /\ Committed' => Committed
  /\ daemon'.pc = "spawned" => daemon.pc = "spawned" /\ daemon'.mem.worker = daemon.mem.worker

(* Signals, exits and hangs start no worker. *)
LEMMA WorkersCalm ==
  ASSUME QueueInv,
         \/ worker' = worker
         \/ \E n : worker' = Signalled(n) \/ worker' = [worker EXCEPT ![n] = "gone"]
         \/ \E n \in Workers : worker[n] = "live" /\ worker' = [worker EXCEPT ![n] = "hung"]
  PROVE  ActiveWorkers' \subseteq ActiveWorkers
BY DEF QueueInv, ActiveWorkers, Signalled

(* A daemon that stays, ages its copy, ends or goes back to its files. *)
LEMMA DaemonCalm ==
  ASSUME ActiveWorkers' \subseteq ActiveWorkers,
         \/ daemon' = daemon
         \/ daemon'.pc \in {"idle", "down", "beat"}
         \/ daemon'.pc \in {"drain", "seen", "taken"} /\ daemon.pc \in Looking
         \/ daemon'.pc = "claimed" /\ daemon.pc = "checked"
         \/ daemon'.pc = daemon.pc /\ daemon'.mem.worker = daemon.mem.worker
  PROVE  Calm
BY DEF Calm, Looking, Committed

(* Every step of the queue except a spawn is calm. *)
LEMMA QueueCalm ==
  ASSUME QueueInv, QueueSteps, \A n \in Workers : ~Spawn(n)
  PROVE  Calm
<1>a. Idle.pc = "idle" /\ [Idle EXCEPT !.pc = "down"].pc = "down"
      /\ \A aside : [Idle EXCEPT !.pc = "drain", !.aside = aside].pc = "drain"
  BY DEF Idle
<1>b. daemon \in DaemonsWith(Charged(upsets))
  BY DEF QueueInv
<1> USE DEF DaemonAt
<1>1. ASSUME NEW j \in Jobs, NEW round \in 0 .. MaxRounds, Enqueue(j, round) PROVE Calm
  <2>1. ActiveWorkers' \subseteq ActiveWorkers
    BY <1>1, WorkersCalm DEF Enqueue
  <2>2. QED BY <1>1, <2>1, DaemonCalm DEF Enqueue
<1>2. CASE EndDrain
  <2>1. ActiveWorkers' \subseteq ActiveWorkers
    BY <1>2, WorkersCalm DEF EndDrain
  <2>2. QED BY <1>2, <1>a, <2>1, DaemonCalm DEF EndDrain
<1>3. CASE TakeJob
  <2>1. ActiveWorkers' \subseteq ActiveWorkers
    BY <1>3, WorkersCalm DEF TakeJob
  <2>2. daemon'.pc \in {"taken", "drain"} /\ daemon.pc = "seen"
    BY <1>3, <1>a, <1>b DEF TakeJob, Goto, NextFile, DaemonsWith
  <2>3. QED BY <2>1, <2>2, DaemonCalm DEF Looking
<1>4. CASE ClaimStops
  <2>1. ActiveWorkers' \subseteq ActiveWorkers
    BY <1>4, WorkersCalm DEF ClaimStops
  <2>2. QED BY <1>4, <1>a, <2>1, DaemonCalm DEF ClaimStops, NextFile, Looking
<1>5. CASE ClaimStopFails
  <2>1. ActiveWorkers' \subseteq ActiveWorkers
    BY <1>5, WorkersCalm DEF ClaimStopFails
  <2>2. QED BY <1>5, <1>a, <2>1, DaemonCalm DEF ClaimStopFails, NextFile, Looking
<1>6. CASE Claim
  <2>1. ActiveWorkers' \subseteq ActiveWorkers
    BY <1>6, WorkersCalm DEF Claim
  <2>2. daemon'.pc = "claimed" /\ daemon.pc = "checked"
    BY <1>6, <1>b DEF Claim, DaemonsWith
  <2>3. QED BY <2>1, <2>2, DaemonCalm
<1>7. CASE ClaimRefused
  <2>1. ActiveWorkers' \subseteq ActiveWorkers
    BY <1>7, WorkersCalm DEF ClaimRefused
  <2>2. QED BY <1>7, <1>a, <2>1, DaemonCalm DEF ClaimRefused
<1>8. CASE Persist
  <2>1. ActiveWorkers' \subseteq ActiveWorkers
    BY <1>8, WorkersCalm DEF Persist
  <2>2. QED BY <1>8, <2>1, DaemonCalm DEF Persist
<1>9. CASE PrepareRetries
  <2>1. ActiveWorkers' \subseteq ActiveWorkers
    BY <1>9, WorkersCalm DEF PrepareRetries
  <2>2. QED BY <1>9, <1>a, <2>1, DaemonCalm DEF PrepareRetries
<1>10. CASE MarkSpawned
  <2>1. ActiveWorkers' \subseteq ActiveWorkers
    BY <1>10, WorkersCalm DEF MarkSpawned
  <2>2. QED BY <1>10, <1>a, <2>1, DaemonCalm DEF MarkSpawned
<1>11. CASE MarkRefused
  <2>1. ActiveWorkers' \subseteq ActiveWorkers
    BY <1>11, WorkersCalm DEF MarkRefused
  <2>2. QED BY <1>11, <1>a, <2>1, DaemonCalm DEF MarkRefused
<1>12. CASE BeatWrite
  <2>1. ActiveWorkers' \subseteq ActiveWorkers
    BY <1>12, WorkersCalm DEF BeatWrite
  <2>2. QED BY <1>12, <1>a, <2>1, DaemonCalm DEF BeatWrite
<1>13. ASSUME NEW t \in {"failed", "stopped"}, PrepareEnds(t) PROVE Calm
  <2>1. ActiveWorkers' \subseteq ActiveWorkers
    BY <1>13, WorkersCalm DEF PrepareEnds
  <2>2. QED BY <1>13, <1>a, <2>1, DaemonCalm DEF PrepareEnds
<1>14. ASSUME NEW hold \in BOOLEAN, PrepareRequeues(hold) PROVE Calm
  <2>1. ActiveWorkers' \subseteq ActiveWorkers
    BY <1>14, WorkersCalm DEF PrepareRequeues
  <2>2. QED BY <1>14, <1>a, <2>1, DaemonCalm DEF PrepareRequeues
<1>15. ASSUME NEW n \in Workers, WorkerHangs(n) PROVE Calm
  <2>1. ActiveWorkers' \subseteq ActiveWorkers
    BY <1>15, WorkersCalm DEF WorkerHangs
  <2>2. QED BY <1>15, <2>1, DaemonCalm DEF WorkerHangs
<1>16. ASSUME NEW n \in Workers, WorkerExits(n) PROVE Calm
  <2>1. ActiveWorkers' \subseteq ActiveWorkers
    BY <1>16, WorkersCalm DEF WorkerExits
  <2>2. QED BY <1>16, <2>1, DaemonCalm DEF WorkerExits
<1>17. ASSUME NEW j \in Jobs, ReconcileRetry(j) PROVE Calm
  <2>1. ActiveWorkers' \subseteq ActiveWorkers
    BY <1>17, WorkersCalm DEF ReconcileRetry
  <2>2. QED BY <1>17, <2>1, DaemonCalm DEF ReconcileRetry
<1>18. ASSUME NEW j \in Jobs, ReconcileStop(j) PROVE Calm
  <2>1. ActiveWorkers' \subseteq ActiveWorkers
    BY <1>18, WorkersCalm DEF ReconcileStop
  <2>2. QED BY <1>18, <2>1, DaemonCalm DEF ReconcileStop
<1>19. ASSUME NEW j \in Jobs, ReconcileOverdue(j) PROVE Calm
  <2>1. ActiveWorkers' \subseteq ActiveWorkers
    BY <1>19, WorkersCalm DEF ReconcileOverdue
  <2>2. QED BY <1>19, <2>1, DaemonCalm DEF ReconcileOverdue
<1>20. ASSUME NEW j \in Jobs, BeatRead(j) PROVE Calm
  <2>1. ActiveWorkers' \subseteq ActiveWorkers
    BY <1>20, WorkersCalm DEF BeatRead
  <2>2. daemon'.pc = "beat"
    BY <1>20, <1>b DEF BeatRead, DaemonsWith
  <2>3. QED BY <2>1, <2>2, DaemonCalm
<1>21. ASSUME NEW j \in Jobs, Sweep(j) PROVE Calm
  <2>1. ActiveWorkers' \subseteq ActiveWorkers
    BY <1>21, WorkersCalm DEF Sweep
  <2>2. QED BY <1>21, <2>1, DaemonCalm DEF Sweep
<1>22. ASSUME NEW j \in Jobs, WatcherReclaims(j) PROVE Calm
  <2>1. ActiveWorkers' \subseteq ActiveWorkers
    BY <1>22, WorkersCalm DEF WatcherReclaims
  <2>2. QED BY <1>22, <2>1, DaemonCalm DEF WatcherReclaims
<1>23. ASSUME NEW j \in Jobs, OpCancel(j) PROVE Calm
  <2>1. ActiveWorkers' \subseteq ActiveWorkers
    BY <1>23, WorkersCalm DEF OpCancel
  <2>2. QED BY <1>23, <2>1, DaemonCalm DEF OpCancel
<1>24. ASSUME NEW j \in Jobs, HoldEnds(j) PROVE Calm
  <2>1. ActiveWorkers' \subseteq ActiveWorkers
    BY <1>24, WorkersCalm DEF HoldEnds
  <2>2. QED BY <1>24, <2>1, DaemonCalm DEF HoldEnds
<1>25. ASSUME NEW j \in Jobs, TimePasses(j) PROVE Calm
  <2>1. ActiveWorkers' \subseteq ActiveWorkers
    BY <1>25, WorkersCalm DEF TimePasses
  <2>2. Older(daemon.mem).worker = daemon.mem.worker
    BY <1>b DEF Older, DaemonsWith, Charged, Records
  <2>3. daemon' = daemon \/ daemon' = [daemon EXCEPT !.mem = Older(daemon.mem)]
    BY <1>25 DEF TimePasses
  <2>4. daemon'.pc = daemon.pc /\ daemon'.mem.worker = daemon.mem.worker
    BY <1>b, <2>2, <2>3 DEF DaemonsWith
  <2>5. QED BY <2>1, <2>4, DaemonCalm
<1>26. ASSUME NEW j \in Jobs, NEW t \in Terminal, ReconcileExit(j, t) PROVE Calm
  <2>1. ActiveWorkers' \subseteq ActiveWorkers
    BY <1>26, WorkersCalm DEF ReconcileExit
  <2>2. QED BY <1>26, <2>1, DaemonCalm DEF ReconcileExit
<1>27. ASSUME NEW j \in Jobs, NEW d \in Dirs, OpHalt(j, d) PROVE Calm
  <2>1. ActiveWorkers' \subseteq ActiveWorkers
    BY <1>27, WorkersCalm DEF OpHalt
  <2>2. QED BY <1>27, <2>1, DaemonCalm DEF OpHalt
<1>28. ASSUME NEW j \in Jobs, NEW d \in Dirs, OpRequeue(j, d) PROVE Calm
  <2>1. ActiveWorkers' \subseteq ActiveWorkers
    BY <1>28, WorkersCalm DEF OpRequeue
  <2>2. QED BY <1>28, <2>1, DaemonCalm DEF OpRequeue
<1>29. ASSUME NEW j \in Jobs, NEW d \in Dirs, WatcherReleases(j, d) PROVE Calm
  <2>1. ActiveWorkers' \subseteq ActiveWorkers
    BY <1>29, WorkersCalm DEF WatcherReleases
  <2>2. QED BY <1>29, <2>1, DaemonCalm DEF WatcherReleases
<1>30. ASSUME NEW p \in Processes, FinishMove(p) PROVE Calm
  <2>1. ActiveWorkers' \subseteq ActiveWorkers
    BY <1>30, WorkersCalm DEF FinishMove
  <2>2. QED BY <1>30, <2>1, DaemonCalm DEF FinishMove
<1>31. CASE DaemonCrash
  <2>1. ActiveWorkers' \subseteq ActiveWorkers
    BY <1>31, WorkersCalm DEF DaemonCrash
  <2>2. QED BY <1>31, <1>a, <2>1, DaemonCalm DEF DaemonCrash
<1>32. CASE DaemonRestart
  <2>1. ActiveWorkers' \subseteq ActiveWorkers
    BY <1>32, WorkersCalm DEF DaemonRestart
  <2>2. QED BY <1>32, <1>a, <2>1, DaemonCalm DEF DaemonRestart
<1>33. ASSUME NEW j \in Jobs, SweepDeferred(j) PROVE Calm
  <2>1. ActiveWorkers' \subseteq ActiveWorkers
    BY <1>33, WorkersCalm DEF SweepDeferred
  <2>2. QED BY <1>33, <2>1, DaemonCalm DEF SweepDeferred
<1>34. QED
  BY <1>1, <1>2, <1>3, <1>4, <1>5, <1>6, <1>7, <1>8, <1>9, <1>10, <1>11, <1>12, <1>13, <1>14, <1>15, <1>16, <1>17, <1>18, <1>19, <1>20, <1>21, <1>22, <1>23, <1>24, <1>25, <1>26, <1>27, <1>28, <1>29, <1>30, <1>31, <1>32, <1>33 DEF QueueSteps

(* A calm step keeps at most one worker active. *)
LEMMA CalmKeepsOne ==
  ASSUME OneActive, Calm
  PROVE  OneActive' /\ (Committed' \/ ActiveWorkers' # {} => Committed \/ ActiveWorkers # {})
BY DEF OneActive, Calm

(* A spawn comes from a daemon that is committed, with no worker active. *)
LEMMA SpawnMakesOne ==
  ASSUME QueueInv, OneActive, NEW n \in Workers, Spawn(n)
  PROVE  OneActive' /\ Committed
<1>1. ActiveWorkers = {} /\ Committed
  BY DEF OneActive, Spawn, DaemonAt, Looking, Committed
<1>2. ActiveWorkers' = {n}
  BY <1>1 DEF QueueInv, ActiveWorkers, Spawn
<1>3. daemon'.pc = "spawned" /\ daemon'.mem.worker = n
  BY DEF QueueInv, DaemonsWith, Charged, Records, Spawn
<1>4. QED BY <1>1, <1>2, <1>3 DEF OneActive, Looking

(* With no file in in-progress nobody is committed and no worker is active, *)
(* unless an owner lost its record.                                         *)
LEMMA EmptyIsQuiet ==
  ASSUME QueueInv, ~Bereft, \A j \in Jobs : ~Present(j, "in-progress")
  PROVE  ~Committed /\ ActiveWorkers = {}
<1>1. ~Committed
  BY DEF QueueInv, Bereft, Committed
<1>2. QED BY <1>1 DEF Bereft, Committed, RecordedBy

(* What a step that overrules nobody shows about the histories. *)
LEMMA NotOverruled ==
  ASSUME NEW judgement, Overrides(judgement), ~overrode'
  PROVE  ~overrode /\ ~judgement /\ ~Bereft'
BY DEF Overrides

(* The two sides are never engaged together after a step of either. *)
LEMMA WriterInvNext ==
  ASSUME TypeInv, WriterInv, [Next]_vars
  PROVE  WriterInv'
<1> DEFINE Apart == Committed \/ ActiveWorkers # {} => ~Engaged
<1> USE DEF TypeInv
<1>1. CASE UNCHANGED vars
  <2>1. UNCHANGED <<overrode, queueVars, leaseVars, worker, daemon, file>>
    BY <1>1 DEF vars, queueVars
  <2>2. Bereft' = Bereft /\ OneActive' = OneActive /\ Apart' = Apart /\ LaunchTraced' = LaunchTraced
    BY <2>1 DEF Bereft, OneActive, LaunchTraced, Engaged, Committed, ActiveWorkers,
                RecordedBy, Present, leaseVars
  <2>3. QED BY <2>1, <2>2 DEF WriterInv
<1>2. SUFFICES ASSUME Next, ~overrode'
               PROVE  ~Bereft' /\ OneActive' /\ Apart' /\ LaunchTraced'
  BY <1>1 DEF WriterInv
<1>3. PICK judgement : Overrides(judgement)
  BY <1>2 DEF Next, DaemonLooks, WatcherLooks, QueueActs, LeaseActs
<1>4. ~overrode /\ ~Bereft'
  BY <1>2, <1>3, NotOverruled
<1>5. ~Bereft /\ OneActive /\ Apart /\ LaunchTraced
  BY <1>4 DEF WriterInv
<1> HIDE DEF Apart
<1>6. ASSUME Calm, UNCHANGED leaseVars PROVE OneActive' /\ Apart' /\ LaunchTraced'
  BY <1>5, <1>6, CalmKeepsOne, TracedUntouched DEF Apart
<1>7. CASE DaemonLooks
  <2>1. UNCHANGED leaseVars
    BY <1>7 DEF DaemonLooks
  <2>2. daemon \in DaemonsWith(Charged(upsets)) /\ Idle.pc = "idle"
        /\ \A aside : [Idle EXCEPT !.pc = "drain", !.aside = aside].pc = "drain"
    BY DEF QueueInv, Idle
  <2>3. CASE StartDrain(DispatchActive)
    <3>1. ~Committed /\ ActiveWorkers = {}
      BY <1>5, <2>3, EmptyIsQuiet DEF StartDrain
    <3>2. ActiveWorkers' = {} /\ daemon'.pc = "drain"
      BY <2>2, <2>3, <3>1 DEF StartDrain, Goto, DaemonsWith, ActiveWorkers
    <3>3. ~Committed' /\ OneActive'
      BY <3>2 DEF Committed, OneActive
    <3>4. QED BY <1>4, <1>5, <2>1, <3>2, <3>3, TracedUntouched DEF Apart
  <2>4. ASSUME NEW j \in Jobs, NEW leased, SkipJob(j, leased) \/ SeeJob(j, leased)
        PROVE  OneActive' /\ Apart' /\ LaunchTraced'
    <3>1. ActiveWorkers' \subseteq ActiveWorkers /\ daemon.pc = "drain"
      BY <2>4, WorkersCalm DEF SkipJob, SeeJob, DaemonAt
    <3>2. daemon'.pc \in {"drain", "seen"}
      BY <2>2, <2>4 DEF SkipJob, SeeJob, NextFile, DaemonsWith
    <3>3. QED BY <1>6, <2>1, <3>1, <3>2, DaemonCalm DEF Looking
  <2>5. ASSUME NEW leased, Recheck(leased), Overrides(LeaseOverruled(leased))
        PROVE  OneActive' /\ Apart' /\ LaunchTraced'
    <3>1. daemon.pc = "taken" /\ worker' = worker /\ ActiveWorkers' = ActiveWorkers /\ ActiveWorkers = {}
      BY <1>5, <2>5 DEF Recheck, DaemonAt, OneActive, Looking, ActiveWorkers
    <3>2. CASE ~leased
      <4>1. lease \notin {"pending", "dispatched"}
        BY <1>2, <2>5, <3>2, NotOverruled DEF LeaseOverruled
      <4>2. ~Engaged
        BY <1>5, <4>1, EngagedIsLeased
      <4>3. daemon'.pc = "checked"
        BY <2>2, <2>5, <3>2 DEF Recheck, Goto, DaemonsWith
      <4>4. OneActive'
        BY <3>1, <4>3 DEF OneActive
      <4>5. QED BY <1>4, <1>5, <2>1, <4>2, <4>4, TracedUntouched DEF Apart
    <3>3. CASE leased
      <4>1. daemon'.pc \in {"idle", "drain"}
        BY <2>2, <2>5, <3>3 DEF Recheck, NextFile
      <4>2. OneActive' /\ ~Committed'
        BY <3>1, <4>1 DEF OneActive, Committed
      <4>3. QED BY <1>4, <1>5, <2>1, <3>1, <4>2, TracedUntouched DEF Apart
    <3>4. QED BY <3>2, <3>3
  <2>6. QED BY <1>4, <1>7, <2>3, <2>4, <2>5 DEF DaemonLooks
<1>8. CASE WatcherLooks
  <2>1. UNCHANGED <<file, worker, daemon>>
    BY <1>8 DEF WatcherLooks, queueVars
  <2>2. /\ ActiveWorkers' = ActiveWorkers /\ Committed' = Committed
        /\ OneActive'
    BY <1>5, <2>1 DEF ActiveWorkers, Committed, OneActive
  <2>3. PICK found : \/ Admit(found) \/ RecoverAdmit(found) \/ ScanPending(found)
                     \/ ScanInProgress(found) /\ Overrides(ClaimOverruled)
    BY <1>8 DEF WatcherLooks
  <2>4. LaunchTraced' /\ (Engaged' => Engaged \/ (ScanInProgress(found) /\ watcher' = "cleared"))
    BY <1>5, <2>3, TracedByLook
  <2>5. CASE Engaged' => Engaged
    BY <1>4, <1>5, <2>2, <2>4, <2>5 DEF Apart
  <2>6. CASE ScanInProgress(found) /\ watcher' = "cleared"
    <3>1. ~Admit(found) /\ ~RecoverAdmit(found) /\ ~ScanPending(found)
      BY <2>6 DEF ScanInProgress, Admit, RecoverAdmit, ScanPending
    <3>2. ~ClaimOverruled
      BY <1>2, <2>3, <3>1, NotOverruled
    <3>3. \A j \in Jobs : ~Present(j, "in-progress")
      BY <2>6, <3>2 DEF ClaimOverruled
    <3>4. ~Committed /\ ActiveWorkers = {}
      BY <1>5, <3>3, EmptyIsQuiet
    <3>5. QED BY <1>4, <2>2, <2>4, <3>4 DEF Apart
  <2>7. QED BY <2>4, <2>5, <2>6
<1>9. CASE QueueActs
  <2>1. UNCHANGED leaseVars /\ QueueSteps
    BY <1>9 DEF QueueActs
  <2>2. CASE \A n \in Workers : ~Spawn(n)
    BY <1>4, <1>6, <2>1, <2>2, QueueCalm
  <2>3. ASSUME NEW n \in Workers, Spawn(n)
        PROVE  OneActive' /\ Apart' /\ LaunchTraced'
    BY <1>5, <2>1, <2>3, SpawnMakesOne, TracedUntouched DEF Apart
  <2>4. QED BY <1>4, <2>2, <2>3
<1>10. CASE LeaseActs
  <2>1. UNCHANGED <<file, worker, daemon>> /\ LeaseSteps /\ Overrides(LaunchOverruled)
    BY <1>10 DEF LeaseActs, queueVars
  <2>2. /\ ActiveWorkers' = ActiveWorkers /\ Committed' = Committed
        /\ OneActive'
    BY <1>5, <2>1 DEF ActiveWorkers, Committed, OneActive
  <2>3. LaunchTraced' /\ (Engaged' => Engaged)
    BY <1>2, <1>5, <2>1, NotOverruled, TracedByLaunch
  <2>4. QED BY <1>4, <1>5, <2>2, <2>3 DEF Apart
<1>11. QED BY <1>2, <1>7, <1>8, <1>9, <1>10 DEF Next

(* Nobody is engaged at first. *)
LEMMA WriterInvInit ==
  ASSUME Init PROVE WriterInv
<1>1. ActiveWorkers = {} /\ daemon.pc = "idle"
  BY DEF Init, QueueInit, ActiveWorkers, Idle
<1>2. ~Bereft /\ OneActive /\ ~Committed
  BY <1>1 DEF Bereft, Committed, OneActive, Looking
<1>3. LaunchTraced
  BY DEF Init, LeaseInit, LaunchTraced
<1>4. QED BY <1>1, <1>2, <1>3 DEF WriterInv

(* Two workers that nobody told to stop push to the branch only after an    *)
(* owner lost its record or was passed over: the daemon's rename-then-look  *)
(* and the lease-then-look of the watcher, the watchdog's recovery          *)
(* included, cannot both miss the other.                                    *)
THEOREM SingleWriter == Spec => []OneWriter
<1>1. ASSUME TypeInv, WriterInv PROVE OneWriter
  <2>1. SUFFICES ASSUME ~overrode PROVE Cardinality(ActiveWorkers) + closers <= 1
    BY DEF OneWriter
  <2>2. OneActive /\ (ActiveWorkers # {} => ~Engaged) /\ closers <= 1 /\ closers \in Nat
    BY <1>1, <2>1 DEF WriterInv, LaunchTraced, TypeInv, LeaseTypeOK
  <2>3. CASE ActiveWorkers = {}
    <3>1. Cardinality(ActiveWorkers) = 0
      BY <2>3, FS_EmptySet
    <3>2. QED BY <2>2, <3>1
  <2>4. CASE ActiveWorkers # {}
    <3>1. PICK n : ActiveWorkers = {n}
      BY <2>2, <2>4 DEF OneActive
    <3>2. Cardinality(ActiveWorkers) = 1
      BY <3>1, FS_Singleton
    <3>3. closers = 0
      BY <2>2, <2>4 DEF Engaged
    <3>4. QED BY <3>2, <3>3
  <2>5. QED BY <2>3, <2>4
<1>2. QED
  BY <1>1, WriterInvInit, WriterInvNext, TypeInvAlways, PTL DEF Spec

-----------------------------------------------------------------------------
(* The survival of a job.                                                   *)

(* A move names a job.  One that ends in a terminal directory has its new   *)
(* file already, or one in the stopped directory, which only a requeue      *)
(* leaves.                                                                  *)
Covered(m, rc) ==
  m # NoMove =>
    /\ m.job \in Jobs
    /\ m.from # m.to
    /\ m.to # "pending" =>
         /\ m.to \in Terminal
         /\ m.from # "stopped"
         /\ m.from \in Terminal => m.to = "stopped"
         /\ rc \/ Present(m.job, m.to) \/ Present(m.job, "stopped")

MoveCovered == \A p \in Processes : Covered(mover[p], raced)

(* The daemon's copy of a record is that of a file. *)
CopyPresent ==
  daemon.pc \in {"seen", "taken", "checked", "claimed", "spawned", "beat"} =>
    daemon.mem.status # "absent"

KeptInv == MoveCovered /\ CopyPresent /\ JobKept

Somewhere(j) == \E d \in Dirs : Present(j, d)

(* No terminal file goes away and no job loses its last file. *)
Preserving ==
  \A j \in Jobs : /\ \A d \in Terminal : Present(j, d) => Present(j, d)'
                  /\ Somewhere(j) => Somewhere(j)'

(* The moves a step starts are covered. *)
StartsCovered ==
  \A q \in Processes : mover'[q] \in {mover[q], NoMove} \/ Covered(mover[q], raced)'

(* Such a step keeps every job, whatever moves it starts or ends, when the  *)
(* moves it starts are covered.                                             *)
LEMMA PreservingKeeps ==
  ASSUME TypeInv, MoveCovered, JobKept, Preserving,
         raced => raced',
         StartsCovered,
         \A j \in queued' : j \in queued \/ Somewhere(j)'
  PROVE  MoveCovered' /\ JobKept'
<1>1. MoveCovered'
  <2>1. SUFFICES ASSUME NEW p \in Processes PROVE Covered(mover[p], raced)'
    BY DEF MoveCovered
  <2>2. CASE mover'[p] = mover[p]
    BY <2>2 DEF MoveCovered, Covered, Preserving, Terminal
  <2>3. CASE mover'[p] = NoMove
    BY <2>3 DEF Covered
  <2>4. QED BY <2>2, <2>3 DEF StartsCovered
<1>2. JobKept'
  BY DEF JobKept, Preserving, Somewhere, TypeInv, QueueInv
<1>3. QED BY <1>1, <1>2

(* Writing a record that is not empty preserves, and its file is there. *)
LEMMA PutPreserves ==
  ASSUME QueueInv, NEW j \in Jobs, NEW d \in Dirs, NEW r, r.status # "absent",
         file' = Put(j, d, r)
  PROVE  Preserving /\ Present(j, d)'
BY DEF QueueInv, Put, Present, Preserving, Somewhere, Terminal, Dirs

(* So does leaving the files alone. *)
LEMMA SamePreserves ==
  ASSUME file' = file PROVE Preserving
BY DEF Preserving, Present, Somewhere

(* So does a rename between pending and in-progress. *)
LEMMA RenamePreserves ==
  ASSUME QueueInv, NEW j \in Jobs, NEW d \in {"pending", "in-progress"},
         NEW e \in {"pending", "in-progress"}, d # e, Present(j, d),
         file' = Renamed(j, d, e)
  PROVE  Preserving
<1>1. \A i \in Jobs : i # j => file'[i] = file[i]
  BY DEF QueueInv, Renamed
<1>2. \A x \in Dirs : x \notin {d, e} => file'[j][x] = file[j][x]
  BY DEF QueueInv, Renamed
<1>3. file'[j][e] = file[j][d] /\ e \in Dirs
  BY DEF QueueInv, Renamed, Dirs
<1>4. QED BY <1>1, <1>2, <1>3 DEF Present, Preserving, Somewhere, Terminal, Dirs

(* The first half of a move to a terminal directory preserves, and its move *)
(* is covered.                                                              *)
LEMMA TerminalPreserves ==
  ASSUME TypeInv, NEW p \in Processes, NEW j \in Jobs, NEW d \in Dirs, NEW t \in Terminal,
         NEW r, r.status # "absent", MoveTerminal(p, j, d, t, r),
         d = "in-progress" \/ t = "stopped"
  PROVE  /\ Preserving
         /\ StartsCovered
<1>1. t \in Dirs /\ "in-progress" \notin Terminal /\ "stopped" # "in-progress" /\ "pending" \notin Terminal
  BY DEF Dirs, Terminal
<1>2. Preserving /\ Present(j, t)'
  <2>1. CASE Present(j, t)
    BY <2>1, SamePreserves DEF MoveTerminal, Present
  <2>2. CASE ~Present(j, t)
    BY <1>1, <2>2, PutPreserves DEF MoveTerminal, TypeInv
  <2>3. QED BY <2>1, <2>2
<1> DEFINE m == [job |-> j, from |-> d, to |-> t]
<1>3. mover' = [mover EXCEPT ![p] = m] /\ d # t
  BY DEF MoveTerminal
<1>4. m.job = j /\ m.from = d /\ m.to = t
  OBVIOUS
<1> HIDE DEF m
<1>5. \A q \in Processes : mover'[q] = IF q = p THEN m ELSE mover[q]
  BY <1>3 DEF TypeInv, QueueInv
<1>6. Covered(mover[p], raced)'
  BY <1>1, <1>2, <1>3, <1>4, <1>5 DEF Covered
<1>7. QED BY <1>2, <1>5, <1>6 DEF StartsCovered

(* The first half of a move to pending rewrites a file. *)
LEMMA PendingPreserves ==
  ASSUME TypeInv, NEW p \in Processes, NEW j \in Jobs, NEW d \in Dirs,
         NEW r, r.status # "absent", MovePending(p, j, d, r)
  PROVE  /\ Preserving
         /\ StartsCovered
<1>1. Preserving
  BY PutPreserves DEF MovePending, TypeInv
<1>2. mover'[p].job = j /\ mover'[p].to = "pending" /\ mover'[p].from = d /\ d # "pending"
  BY DEF MovePending, TypeInv, QueueInv
<1>3. \A q \in Processes : q # p => mover'[q] = mover[q]
  BY DEF MovePending, TypeInv, QueueInv
<1>4. Covered(mover[p], raced)'
  BY <1>2 DEF Covered
<1>5. QED BY <1>1, <1>3, <1>4 DEF StartsCovered

(* The second half of a move: the source goes, and what covers the job      *)
(* stays.  A rename onto pending that another move of the job still needs   *)
(* the source of is a race.                                                 *)
LEMMA FinishKeeps ==
  ASSUME TypeInv, MoveCovered, JobKept, NEW p \in Processes, FinishMove(p),
         raced' = (raced \/ LandsOnMove)
  PROVE  MoveCovered' /\ JobKept'
<1> DEFINE m == mover[p]
           After(j, d) == file'[j][d].status # "absent"
<1>t. /\ file \in [Jobs -> [Dirs -> Charged(upsets)]] /\ mover \in [Processes -> Moves]
      /\ NoFile.status = "absent" /\ Terminal \subseteq Dirs /\ {"pending", "stopped"} \subseteq Dirs
      /\ "pending" \notin Terminal
  BY DEF TypeInv, QueueInv, NoFile, Terminal, Dirs
<1>1. m # NoMove /\ m.job \in Jobs /\ m.from \in Dirs
  BY <1>t DEF FinishMove, Ready, MoveCovered, Covered, Moves
<1>2. mover' = [mover EXCEPT ![p] = NoMove] /\ queued' = queued
  BY DEF FinishMove
<1>3. \A q \in Processes : mover'[q] = IF q = p THEN NoMove ELSE mover[q]
  BY <1>t, <1>2
<1>4. CASE m.to # "pending"
  <2>1. file' = Put(m.job, m.from, NoFile)
    BY <1>4 DEF FinishMove
  <2>2. \A j \in Jobs, d \in Dirs : After(j, d) <=> Present(j, d) /\ ~(j = m.job /\ d = m.from)
    BY <1>t, <1>1, <2>1 DEF Put, Present
  <2>3. /\ m.to \in Terminal /\ m.from \notin {m.to, "stopped"}
        /\ m.from \in Terminal => m.to = "stopped"
        /\ raced \/ Present(m.job, m.to) \/ Present(m.job, "stopped")
    BY <1>1, <1>4 DEF MoveCovered, Covered
  <2>4. raced' \/ After(m.job, m.to) \/ After(m.job, "stopped")
    BY <1>t, <1>1, <2>2, <2>3
  <2>5. MoveCovered'
    <3>1. SUFFICES ASSUME NEW q \in Processes, q # p, mover[q] # NoMove PROVE Covered(mover[q], raced)'
      BY <1>3 DEF MoveCovered, Covered
    <3>2. mover'[q] = mover[q] /\ Covered(mover[q], raced) /\ (raced => raced')
      BY <1>3, <3>1 DEF MoveCovered
    <3>3. CASE mover[q].to = "pending"
      BY <3>2, <3>3 DEF Covered
    <3>4. CASE mover[q].to # "pending"
      <4>1. /\ mover[q].job \in Jobs /\ mover[q].to \in Terminal
            /\ mover[q].from # mover[q].to /\ mover[q].from # "stopped"
            /\ mover[q].from \in Terminal => mover[q].to = "stopped"
            /\ raced \/ Present(mover[q].job, mover[q].to) \/ Present(mover[q].job, "stopped")
        BY <3>1, <3>2, <3>4 DEF Covered
      <4>2. raced' \/ After(mover[q].job, mover[q].to) \/ After(mover[q].job, "stopped")
        BY <1>t, <1>1, <2>2, <2>3, <2>4, <3>2, <4>1
      <4>3. QED BY <3>2, <4>1, <4>2 DEF Covered, Present
    <3>5. QED BY <3>3, <3>4
  <2>6. JobKept'
    <3>1. SUFFICES ASSUME ~raced', NEW j \in queued PROVE \E d \in Dirs : After(j, d)
      BY <1>2 DEF JobKept, Present
    <3>2. j \in Jobs /\ ~raced
      BY <3>1 DEF TypeInv, QueueInv
    <3>3. CASE j = m.job
      BY <1>t, <2>3, <2>4, <3>1, <3>3
    <3>4. CASE j # m.job
      BY <2>2, <3>1, <3>2, <3>4 DEF JobKept
    <3>5. QED BY <3>3, <3>4
  <2>7. QED BY <2>5, <2>6
<1>5. CASE m.to = "pending"
  <2>1. \A q \in Processes : q # p /\ mover[q].job = m.job => raced'
    BY <1>1, <1>3, <1>5 DEF LandsOnMove
  <2>2. \A j \in Jobs, d \in Dirs : j # m.job => (After(j, d) <=> Present(j, d))
    BY <1>t, <1>1, <1>5 DEF FinishMove, Renamed, Present
  <2>3. Somewhere(m.job) => \E d \in Dirs : After(m.job, d)
    <3>1. CASE Present(m.job, m.from)
      <4>1. file' = Renamed(m.job, m.from, "pending")
        BY <1>5, <3>1 DEF FinishMove
      <4>2. CASE m.from # "pending"
        <5>1. file'[m.job]["pending"] = file[m.job][m.from]
          BY <1>t, <1>1, <4>1, <4>2 DEF Renamed
        <5>2. QED BY <1>t, <3>1, <5>1 DEF Somewhere, Present
      <4>3. CASE m.from = "pending"
        BY <1>1, <1>5, <4>3, <1>t DEF MoveCovered, Covered
      <4>4. QED BY <4>2, <4>3
    <3>2. CASE ~Present(m.job, m.from)
      BY <1>5, <3>2 DEF FinishMove, Somewhere, Present
    <3>3. QED BY <3>1, <3>2
  <2>4. MoveCovered'
    <3>1. SUFFICES ASSUME NEW q \in Processes, q # p, mover[q] # NoMove PROVE Covered(mover[q], raced)'
      BY <1>3 DEF MoveCovered, Covered
    <3>2. mover'[q] = mover[q] /\ Covered(mover[q], raced) /\ (raced => raced')
      BY <1>3, <3>1 DEF MoveCovered
    <3>3. CASE mover[q].job = m.job
      BY <2>1, <3>1, <3>2, <3>3 DEF Covered
    <3>4. CASE mover[q].job # m.job
      BY <1>t, <2>2, <3>2, <3>4 DEF Covered, Present
    <3>5. QED BY <3>3, <3>4
  <2>5. JobKept'
    BY <1>2, <2>2, <2>3 DEF JobKept, Somewhere, Present, TypeInv, QueueInv
  <2>6. QED BY <2>4, <2>5
<1>6. QED BY <1>4, <1>5

(* What the operations on records leave in the status field. *)
LEMMA RecordStatus ==
  ASSUME NEW r \in Records
  PROVE  /\ \A t : Settled(r, t).status = t
         /\ Stopped(r).status = "stopped" /\ Halted(r).status = "halted"
         /\ \A hold : Unclaimed(r, hold).status = "pending"
         /\ Retried(r).status = "pending"
         /\ Older(r).status = r.status
         /\ [r EXCEPT !.age = 0].status = r.status
         /\ [r EXCEPT !.held = FALSE].status = r.status
         /\ \A n : [r EXCEPT !.worker = n].status = r.status
         /\ \A n : [r EXCEPT !.status = "in_progress", !.worker = n, !.age = 0].status = "in_progress"
         /\ [r EXCEPT !.status = "pending", !.worker = 0, !.age = 0].status = "pending"
<1> USE DEF Records
<1>1. \A t : Settled(r, t).status = t
  BY DEF Settled
<1>2. (\A hold : Unclaimed(r, hold).status = "pending") /\ Retried(r).status = "pending"
  BY DEF Unclaimed, Retried
<1>3. Older(r).status = r.status
  BY DEF Older
<1>4. QED BY <1>1, <1>2, <1>3 DEF Stopped, Halted

(* The records a step works on. *)
LEMMA RecordsAtHand ==
  ASSUME QueueInv
  PROVE  /\ \A j \in Jobs, d \in Dirs : file[j][d] \in Records
         /\ daemon.mem \in Records
         /\ daemon.pc \notin {"idle", "drain", "down"} => daemon.job \in Jobs
BY DEF QueueInv, Charged, DaemonsWith

(* A step without a move, or one that gives its move up, starts none. *)
LEMMA NoStart ==
  ASSUME mover \in [Processes -> Moves],
         mover' = mover \/ \E p \in Processes : mover' = [mover EXCEPT ![p] = NoMove]
  PROVE  StartsCovered
BY DEF StartsCovered

(* Every step of the queue but the second half of a move preserves the      *)
(* files.                                                                   *)
LEMMA StepsPreserve ==
  ASSUME TypeInv, CopyPresent, QueueSteps, \A p \in Processes : ~FinishMove(p)
  PROVE  Preserving /\ StartsCovered /\ \A j \in queued' : j \in queued \/ Somewhere(j)'
<1> DEFINE Goal == Preserving /\ StartsCovered /\ \A j \in queued' : j \in queued \/ Somewhere(j)'
<1>q. QueueInv /\ mover \in [Processes -> Moves]
  BY DEF TypeInv, QueueInv
<1>r. /\ \A j \in Jobs, d \in Dirs : file[j][d] \in Records
      /\ daemon.mem \in Records
      /\ daemon.pc \notin {"idle", "drain", "down"} => daemon.job \in Jobs
  BY <1>q, RecordsAtHand
<1>d. {"pending", "in-progress", "completed", "failed", "stopped"} \subseteq Dirs /\ Terminal \subseteq Dirs
      /\ {"completed", "failed", "stopped"} \subseteq Terminal /\ "absent" \notin Terminal
      /\ {"daemon", "watcher", "operator"} \subseteq Processes
  BY DEF Dirs, Terminal, Processes
<1>s. ASSUME file' = file, queued' = queued, mover' = mover PROVE Goal
  BY <1>q, <1>s, SamePreserves, NoStart
<1>p. ASSUME NEW j \in Jobs, NEW d \in Dirs, NEW r, r.status # "absent", file' = Put(j, d, r),
             queued' = queued, mover' = mover
      PROVE  Goal
  BY <1>q, <1>p, PutPreserves, NoStart
<1>t. ASSUME NEW p \in Processes, NEW j \in Jobs, NEW d \in Dirs, NEW t \in Terminal,
             NEW r, r.status # "absent", MoveTerminal(p, j, d, t, r),
             d = "in-progress" \/ t = "stopped", queued' = queued
      PROVE  Goal
  BY <1>t, TerminalPreserves
<1>m. ASSUME NEW p \in Processes, NEW j \in Jobs, NEW d \in Dirs,
             NEW r, r.status # "absent", MovePending(p, j, d, r), queued' = queued
      PROVE  Goal
  BY <1>m, PendingPreserves
<1>n. ASSUME NEW j \in Jobs, NEW d \in {"pending", "in-progress"},
             NEW e \in {"pending", "in-progress"}, d # e, Present(j, d),
             file' = Renamed(j, d, e), queued' = queued, mover' = mover
      PROVE  Goal
  BY <1>q, <1>n, RenamePreserves, NoStart
<1>g. SUFFICES Goal
  BY DEF Goal
<1> HIDE DEF Goal
<1> USE DEF DaemonAt
<1>1. ASSUME NEW j \in Jobs, NEW round \in 0 .. MaxRounds, Enqueue(j, round) PROVE Goal
  <2> DEFINE r == [NoFile EXCEPT !.status = "pending", !.round = round]
  <2>1. r.status # "absent"
    BY DEF NoFile
  <2>2. file' = Put(j, "pending", r) /\ mover' = mover /\ queued' = queued \cup {j}
    BY <1>1 DEF Enqueue
  <2> HIDE DEF r
  <2>3. Preserving /\ Somewhere(j)'
    BY <1>q, <1>d, <2>1, <2>2, PutPreserves DEF Somewhere
  <2>4. QED BY <1>q, <2>2, <2>3, NoStart DEF Goal
<1>2. CASE EndDrain
  BY <1>2, <1>s DEF EndDrain
<1>3. CASE TakeJob
  <2>1. CASE Present(daemon.job, "pending")
    BY <1>3, <1>r, <1>n, <2>1 DEF TakeJob
  <2>2. CASE ~Present(daemon.job, "pending")
    BY <1>3, <1>s, <2>2 DEF TakeJob
  <2>3. QED BY <2>1, <2>2
<1>4. CASE ClaimStops
  <2>1. CASE MoveTerminal("daemon", daemon.job, "in-progress", "stopped", Stopped(file[daemon.job]["in-progress"]))
    <3>1. daemon.job \in Jobs /\ queued' = queued
      BY <1>4, <1>r DEF ClaimStops
    <3>2. Stopped(file[daemon.job]["in-progress"]).status # "absent"
      BY <1>d, <1>r, <3>1, RecordStatus
    <3>3. QED BY <1>d, <1>t, <2>1, <3>1, <3>2
  <2>2. CASE UNCHANGED <<file, mover>>
    BY <1>4, <1>s, <2>2 DEF ClaimStops
  <2>3. QED BY <1>4, <2>1, <2>2 DEF ClaimStops
<1>5. CASE ClaimStopFails
  <2>1. CASE file' = file
    BY <1>5, <1>s, <2>1 DEF ClaimStopFails
  <2>2. CASE file' # file
    BY <1>5, <1>r, <1>n, <2>2 DEF ClaimStopFails
  <2>3. QED BY <2>1, <2>2
<1>6. CASE Claim
  <2> DEFINE r == [daemon.mem EXCEPT !.status = "in_progress", !.round = @ + 1,
                                     !.age = 0, !.held = FALSE]
  <2>1. r.status # "absent"
    BY <1>r DEF Records
  <2>2. file' = Put(daemon.job, "in-progress", r) /\ mover' = mover /\ queued' = queued /\ daemon.job \in Jobs
    BY <1>6, <1>r DEF Claim
  <2> HIDE DEF r
  <2>3. QED BY <1>d, <1>p, <2>1, <2>2
<1>7. CASE ClaimRefused
  BY <1>7, <1>s DEF ClaimRefused
<1>8. CASE Persist
  <2>1. daemon.mem.status # "absent" /\ daemon.job \in Jobs
    BY <1>8, <1>r DEF Persist, CopyPresent
  <2>2. QED BY <1>8, <1>d, <1>p, <2>1 DEF Persist
<1>9. CASE PrepareRetries
  <2>1. MovePending("daemon", daemon.job, "in-progress", Retried(file[daemon.job]["in-progress"])) /\ queued' = queued
    BY <1>9 DEF PrepareRetries
  <2>2. daemon.job \in Jobs
    BY <1>9, <1>r DEF PrepareRetries
  <2>3. Retried(file[daemon.job]["in-progress"]).status # "absent"
    BY <1>d, <1>r, <2>2, RecordStatus
  <2>4. QED BY <1>d, <1>m, <2>1, <2>2, <2>3
<1>10. CASE MarkSpawned
  <2> DEFINE r == [file[daemon.job]["in-progress"] EXCEPT !.status = "in_progress", !.worker = daemon.mem.worker, !.age = 0]
  <2>1. daemon.job \in Jobs /\ mover' = mover /\ queued' = queued
    BY <1>10, <1>r DEF MarkSpawned
  <2>2. r.status # "absent"
    BY <1>d, <1>r, <2>1, RecordStatus
  <2>3. file' = file \/ file' = Put(daemon.job, "in-progress", r)
    BY <1>10 DEF MarkSpawned
  <2> HIDE DEF r
  <2>4. QED BY <1>d, <1>p, <1>s, <2>1, <2>2, <2>3
<1>11. CASE MarkRefused
  <2>1. MoveTerminal("daemon", daemon.job, "in-progress", "failed", Settled(file[daemon.job]["in-progress"], "failed")) /\ queued' = queued
    BY <1>11 DEF MarkRefused
  <2>2. daemon.job \in Jobs
    BY <1>11, <1>r DEF MarkRefused
  <2>3. Settled(file[daemon.job]["in-progress"], "failed").status # "absent"
    BY <1>d, <1>r, <2>2, RecordStatus
  <2>4. QED BY <1>d, <1>t, <2>1, <2>2, <2>3
<1>12. CASE BeatWrite
  <2> DEFINE r == [daemon.mem EXCEPT !.age = 0]
  <2>1. daemon.job \in Jobs /\ mover' = mover /\ queued' = queued /\ daemon.mem.status # "absent"
    BY <1>12, <1>r DEF BeatWrite, CopyPresent
  <2>2. r.status # "absent"
    BY <1>r, <2>1, RecordStatus
  <2>3. file' = Put(daemon.job, "in-progress", r)
    BY <1>12 DEF BeatWrite
  <2> HIDE DEF r
  <2>4. QED BY <1>d, <1>p, <2>1, <2>2, <2>3
<1>13. ASSUME NEW t \in {"failed", "stopped"}, PrepareEnds(t) PROVE Goal
  <2>1. CASE MoveTerminal("daemon", daemon.job, "in-progress", t, Settled(file[daemon.job]["in-progress"], t))
    <3>1. daemon.job \in Jobs /\ queued' = queued /\ t \in Terminal
      BY <1>13, <1>d, <1>r DEF PrepareEnds
    <3>2. Settled(file[daemon.job]["in-progress"], t).status # "absent"
      BY <1>d, <1>r, <3>1, RecordStatus
    <3>3. QED BY <1>d, <1>t, <2>1, <3>1, <3>2
  <2>2. CASE UNCHANGED <<file, mover>>
    BY <1>13, <1>s, <2>2 DEF PrepareEnds
  <2>3. QED BY <1>13, <2>1, <2>2 DEF PrepareEnds
<1>14. ASSUME NEW hold \in BOOLEAN, PrepareRequeues(hold) PROVE Goal
  <2>1. MovePending("daemon", daemon.job, "in-progress", Unclaimed(file[daemon.job]["in-progress"], hold)) /\ queued' = queued
    BY <1>14 DEF PrepareRequeues
  <2>2. daemon.job \in Jobs
    BY <1>14, <1>r DEF PrepareRequeues
  <2>3. Unclaimed(file[daemon.job]["in-progress"], hold).status # "absent"
    BY <1>d, <1>r, <2>2, RecordStatus
  <2>4. QED BY <1>d, <1>m, <2>1, <2>2, <2>3
<1>15. ASSUME NEW n \in Workers, Spawn(n) \/ WorkerHangs(n) \/ WorkerExits(n) PROVE Goal
  BY <1>15, <1>s DEF Spawn, WorkerHangs, WorkerExits
<1>16. ASSUME NEW j \in Jobs, ReconcileRetry(j) PROVE Goal
  <2>1. MovePending("daemon", j, "in-progress", Retried(file[j]["in-progress"])) /\ queued' = queued
    BY <1>16 DEF ReconcileRetry
  <2>2. j \in Jobs
    BY <1>16, <1>r DEF ReconcileRetry
  <2>3. Retried(file[j]["in-progress"]).status # "absent"
    BY <1>d, <1>r, <2>2, RecordStatus
  <2>4. QED BY <1>d, <1>m, <2>1, <2>2, <2>3
<1>17. ASSUME NEW j \in Jobs, ReconcileStop(j) PROVE Goal
  <2>1. MoveTerminal("daemon", j, "in-progress", "stopped", Stopped(file[j]["in-progress"])) /\ queued' = queued
    BY <1>17 DEF ReconcileStop
  <2>2. j \in Jobs
    BY <1>17, <1>r DEF ReconcileStop
  <2>3. Stopped(file[j]["in-progress"]).status # "absent"
    BY <1>d, <1>r, <2>2, RecordStatus
  <2>4. QED BY <1>d, <1>t, <2>1, <2>2, <2>3
<1>18. ASSUME NEW j \in Jobs, ReconcileOverdue(j) PROVE Goal
  <2>1. MoveTerminal("daemon", j, "in-progress", "failed", Settled(file[j]["in-progress"], "failed")) /\ queued' = queued
    BY <1>18 DEF ReconcileOverdue
  <2>2. j \in Jobs
    BY <1>18, <1>r DEF ReconcileOverdue
  <2>3. Settled(file[j]["in-progress"], "failed").status # "absent"
    BY <1>d, <1>r, <2>2, RecordStatus
  <2>4. QED BY <1>d, <1>t, <2>1, <2>2, <2>3
<1>19. ASSUME NEW j \in Jobs, BeatRead(j) PROVE Goal
  BY <1>19, <1>s DEF BeatRead
<1>20. ASSUME NEW j \in Jobs, Sweep(j) PROVE Goal
  <2>1. \/ MovePending("daemon", j, "in-progress", Retried(file[j]["in-progress"]))
        \/ MoveTerminal("daemon", j, "in-progress", "stopped", Stopped(file[j]["in-progress"]))
    BY <1>20 DEF Sweep
  <2>2. Retried(file[j]["in-progress"]).status # "absent" /\ Stopped(file[j]["in-progress"]).status # "absent" /\ queued' = queued
    BY <1>20, <1>d, <1>r, RecordStatus DEF Sweep
  <2>3. QED BY <1>d, <1>m, <1>t, <2>1, <2>2
<1>21. ASSUME NEW j \in Jobs, WatcherReclaims(j) PROVE Goal
  <2>1. MoveTerminal("watcher", j, "in-progress", "stopped", Stopped(file[j]["in-progress"])) /\ queued' = queued
    BY <1>21 DEF WatcherReclaims
  <2>2. j \in Jobs
    BY <1>21, <1>r DEF WatcherReclaims
  <2>3. Stopped(file[j]["in-progress"]).status # "absent"
    BY <1>d, <1>r, <2>2, RecordStatus
  <2>4. QED BY <1>d, <1>t, <2>1, <2>2, <2>3
<1>22. ASSUME NEW j \in Jobs, OpCancel(j) \/ SweepDeferred(j) PROVE Goal
  BY <1>22, <1>s DEF OpCancel, SweepDeferred
<1>23. ASSUME NEW j \in Jobs, TimePasses(j) PROVE Goal
  <2>1. \A i \in Jobs, d \in Dirs : Present(i, d)' <=> Present(i, d)
    BY <1>23, <1>q, <1>r, RecordStatus DEF TimePasses, Present, QueueInv
  <2>2. Preserving
    BY <1>d, <2>1 DEF Preserving, Somewhere
  <2>3. QED BY <1>23, <1>q, <2>2, NoStart DEF TimePasses, Goal
<1>24. ASSUME NEW j \in Jobs, HoldEnds(j) PROVE Goal
  <2> DEFINE r == [file[j]["pending"] EXCEPT !.held = FALSE]
  <2>1. CASE Present(j, "pending")
    <3>1. r.status # "absent"
      BY <1>d, <1>r, <2>1, RecordStatus DEF Present
    <3>2. file' = Put(j, "pending", r) /\ mover' = mover /\ queued' = queued
      BY <1>24 DEF HoldEnds
    <3> HIDE DEF r
    <3>3. QED BY <1>d, <1>p, <3>1, <3>2
  <2>2. CASE ~Present(j, "pending")
    <3>1. r.status = file[j]["pending"].status
      BY <1>d, <1>r, RecordStatus
    <3>2. file' = Put(j, "pending", r) /\ mover' = mover /\ queued' = queued
      BY <1>24 DEF HoldEnds
    <3> HIDE DEF r
    <3>3. \A i \in Jobs, d \in Dirs : Present(i, d)' <=> Present(i, d)
      BY <1>q, <1>d, <3>1, <3>2 DEF Put, Present, QueueInv
    <3>4. Preserving
      BY <1>d, <3>3 DEF Preserving, Somewhere
    <3>5. QED BY <1>q, <3>2, <3>4, NoStart DEF Goal
  <2>3. QED BY <2>1, <2>2
<1>25. ASSUME NEW j \in Jobs, NEW t \in Terminal, ReconcileExit(j, t) PROVE Goal
  <2>1. MoveTerminal("daemon", j, "in-progress", t, Settled(file[j]["in-progress"], t)) /\ queued' = queued
    BY <1>25 DEF ReconcileExit
  <2>2. j \in Jobs
    BY <1>25, <1>r DEF ReconcileExit
  <2>3. Settled(file[j]["in-progress"], t).status # "absent"
    BY <1>d, <1>r, <2>2, RecordStatus
  <2>4. QED BY <1>d, <1>t, <2>1, <2>2, <2>3
<1>26. ASSUME NEW j \in Jobs, NEW d \in Dirs, OpHalt(j, d) PROVE Goal
  <2>1. MoveTerminal("operator", j, d, "stopped", Halted(file[j][d])) /\ queued' = queued
    BY <1>26 DEF OpHalt
  <2>2. j \in Jobs
    BY <1>26, <1>r DEF OpHalt
  <2>3. Halted(file[j][d]).status # "absent"
    BY <1>d, <1>r, <2>2, RecordStatus
  <2>4. QED BY <1>d, <1>t, <2>1, <2>2, <2>3
<1>27. ASSUME NEW j \in Jobs, NEW d \in Dirs, OpRequeue(j, d) PROVE Goal
  <2> DEFINE r == [file[j][d] EXCEPT !.status = "pending", !.worker = 0, !.age = 0]
  <2>1. r.status # "absent" /\ Stopped(file[j][d]).status # "absent"
    BY <1>r, RecordStatus
  <2>2. queued' = queued /\ (\/ MovePending("operator", j, d, r)
                            \/ MoveTerminal("operator", j, d, "stopped", Stopped(file[j][d])))
    BY <1>27 DEF OpRequeue
  <2> HIDE DEF r
  <2>3. QED BY <1>d, <1>m, <1>t, <2>1, <2>2
<1>28. ASSUME NEW j \in Jobs, NEW d \in Dirs, WatcherReleases(j, d) PROVE Goal
  <2>1. MoveTerminal("watcher", j, d, "stopped", Stopped(file[j][d])) /\ queued' = queued
    BY <1>28 DEF WatcherReleases
  <2>2. j \in Jobs
    BY <1>28, <1>r DEF WatcherReleases
  <2>3. Stopped(file[j][d]).status # "absent"
    BY <1>d, <1>r, <2>2, RecordStatus
  <2>4. QED BY <1>d, <1>t, <2>1, <2>2, <2>3
<1>29. CASE DaemonCrash
  <2>1. file' = file /\ queued' = queued /\ mover' = [mover EXCEPT !["daemon"] = NoMove]
    BY <1>29 DEF DaemonCrash
  <2>2. QED BY <1>q, <1>d, <2>1, SamePreserves, NoStart DEF Goal
<1>30. CASE DaemonRestart
  BY <1>30, <1>s DEF DaemonRestart
<1>31. QED
  BY <1>1, <1>2, <1>3, <1>4, <1>5, <1>6, <1>7, <1>8, <1>9, <1>10, <1>11, <1>12, <1>13, <1>14, <1>15, <1>16, <1>17, <1>18, <1>19, <1>20, <1>21, <1>22, <1>23, <1>24, <1>25, <1>26, <1>27, <1>28, <1>29, <1>30 DEF QueueSteps

(* A daemon that stays, ages or keeps its copy, or has none, has a copy of  *)
(* a file if it had one.                                                    *)
LEMMA CopyStays ==
  ASSUME CopyPresent,
         \/ daemon' = daemon
         \/ daemon'.pc \in {"idle", "drain", "down"}
         \/ daemon'.mem.status # "absent"
         \/ /\ daemon'.mem.status = daemon.mem.status
            /\ daemon.pc \in {"seen", "taken", "checked", "claimed", "spawned", "beat"}
         \/ daemon'.pc = daemon.pc /\ daemon'.mem.status = daemon.mem.status
  PROVE  CopyPresent'
BY DEF CopyPresent

(* Every step of the queue keeps it so. *)
LEMMA StepsKeepCopy ==
  ASSUME QueueInv, CopyPresent, QueueSteps
  PROVE  CopyPresent'
<1>a. Idle.pc = "idle" /\ [Idle EXCEPT !.pc = "down"].pc = "down"
      /\ \A aside : [Idle EXCEPT !.pc = "drain", !.aside = aside].pc = "drain"
  BY DEF Idle
<1>b. daemon \in DaemonsWith(Charged(upsets)) /\ daemon.mem \in Records
  BY RecordsAtHand DEF QueueInv
<1> USE DEF DaemonAt
<1>1. CASE TakeJob
  <2>1. Goto("taken") \/ NextFile(daemon.aside)
    BY <1>1 DEF TakeJob
  <2>2. CASE Goto("taken")
    <3>1. daemon'.mem.status = daemon.mem.status /\ daemon.pc = "seen"
      BY <1>1, <1>b, <2>2 DEF TakeJob, Goto, DaemonsWith
    <3>2. QED BY <3>1, CopyStays
  <2>3. CASE NextFile(daemon.aside)
    BY <1>a, <2>3, CopyStays DEF NextFile
  <2>4. QED BY <2>1, <2>2, <2>3
<1>2. CASE Claim
  <2>1. daemon'.mem.status = "in_progress"
    BY <1>2, <1>b DEF Claim, DaemonsWith, Records
  <2>2. QED BY <2>1, CopyStays
<1>3. ASSUME NEW n \in Workers, Spawn(n) PROVE CopyPresent'
  <2>1. daemon' = [daemon EXCEPT !.pc = "spawned", !.mem = [daemon.mem EXCEPT !.worker = n]]
        /\ daemon.pc = "claimed"
    BY <1>3 DEF Spawn
  <2>2. [daemon.mem EXCEPT !.worker = n].status = daemon.mem.status
    BY <1>b, RecordStatus
  <2>3. daemon'.mem.status = daemon.mem.status
    BY <1>b, <2>1, <2>2 DEF DaemonsWith
  <2>4. QED BY <2>1, <2>3, CopyStays
<1>4. ASSUME NEW j \in Jobs, BeatRead(j) PROVE CopyPresent'
  <2>1. daemon'.mem = file[j]["in-progress"]
    BY <1>4, <1>b DEF BeatRead, DaemonsWith
  <2>2. QED BY <1>4, <2>1, CopyStays DEF BeatRead, Recorded, Present
<1>5. ASSUME NEW j \in Jobs, TimePasses(j) PROVE CopyPresent'
  <2>1. Older(daemon.mem).status = daemon.mem.status
    BY <1>b, RecordStatus
  <2>2. daemon' = daemon \/ daemon' = [daemon EXCEPT !.mem = Older(daemon.mem)]
    BY <1>5 DEF TimePasses
  <2>3. daemon'.pc = daemon.pc /\ daemon'.mem.status = daemon.mem.status
    BY <1>b, <2>1, <2>2 DEF DaemonsWith
  <2>4. QED BY <2>3, CopyStays
<1>6. CASE ClaimStops \/ ClaimStopFails
  <2>1. NextFile(daemon.aside)
    BY <1>6 DEF ClaimStops, ClaimStopFails
  <2>2. daemon'.pc = "drain"
    BY <1>a, <2>1 DEF NextFile
  <2>3. QED BY <2>2, CopyStays
<1>7. CASE EndDrain \/ ClaimRefused \/ PrepareRetries \/ MarkSpawned \/ MarkRefused \/ BeatWrite
            \/ DaemonRestart
  BY <1>7, <1>a, CopyStays DEF EndDrain, ClaimRefused, PrepareRetries, MarkSpawned, MarkRefused,
       BeatWrite, DaemonRestart
<1>8. CASE DaemonCrash
  BY <1>8, <1>a, CopyStays DEF DaemonCrash
<1>9. CASE \/ \E t \in {"failed", "stopped"} : PrepareEnds(t)
           \/ \E hold \in BOOLEAN : PrepareRequeues(hold)
  BY <1>9, <1>a, CopyStays DEF PrepareEnds, PrepareRequeues
<1>10. CASE \/ \E j \in Jobs, round \in 0 .. MaxRounds : Enqueue(j, round)
            \/ Persist
            \/ \E n \in Workers : WorkerHangs(n) \/ WorkerExits(n)
            \/ \E p \in Processes : FinishMove(p)
  BY <1>10, CopyStays DEF Enqueue, Persist, WorkerHangs, WorkerExits, FinishMove
<1>11. ASSUME NEW j \in Jobs,
              \/ ReconcileRetry(j) \/ ReconcileStop(j) \/ ReconcileOverdue(j) \/ Sweep(j)
              \/ SweepDeferred(j) \/ WatcherReclaims(j) \/ OpCancel(j) \/ HoldEnds(j)
              \/ \E t \in Terminal : ReconcileExit(j, t)
              \/ \E d \in Dirs : OpHalt(j, d) \/ OpRequeue(j, d) \/ WatcherReleases(j, d)
       PROVE  CopyPresent'
  <2>1. daemon' = daemon
    BY <1>11 DEF ReconcileRetry, ReconcileStop, ReconcileOverdue, Sweep, SweepDeferred,
         WatcherReclaims, OpCancel, HoldEnds, ReconcileExit, OpHalt, OpRequeue, WatcherReleases
  <2>2. QED BY <2>1, CopyStays
<1>12. QED
  BY <1>1, <1>2, <1>3, <1>4, <1>5, <1>6, <1>7, <1>8, <1>9, <1>10, <1>11 DEF QueueSteps

(* The looks at the closer lose no file and no copy. *)
LEMMA LooksKeep ==
  ASSUME TypeInv, CopyPresent, NEW leased, NEW reserved, CloserSteps(leased, reserved)
  PROVE  Preserving /\ mover' = mover /\ queued' = queued /\ CopyPresent'
<1>a. Idle.pc = "idle" /\ \A aside : [Idle EXCEPT !.pc = "drain", !.aside = aside].pc = "drain"
  BY DEF Idle
<1>b. QueueInv /\ daemon \in DaemonsWith(Charged(upsets))
  BY DEF TypeInv, QueueInv
<1> USE DEF DaemonAt
<1>1. CASE StartDrain(reserved)
  <2>1. daemon'.pc = "drain"
    BY <1>1, <1>b DEF StartDrain, Goto, DaemonsWith
  <2>2. QED BY <1>1, <2>1, SamePreserves, CopyStays DEF StartDrain
<1>2. CASE Recheck(leased)
  <2>1. daemon.pc = "taken" /\ daemon.job \in Jobs /\ mover' = mover /\ queued' = queued
    BY <1>2, <1>b DEF Recheck, QueueInv
  <2>2. CASE leased /\ Present(daemon.job, "in-progress")
    BY <1>2, <1>a, <1>b, <2>1, <2>2, RenamePreserves, CopyStays DEF Recheck, NextFile
  <2>3. CASE leased /\ ~Present(daemon.job, "in-progress")
    BY <1>2, <1>a, <2>1, <2>3, SamePreserves, CopyStays DEF Recheck
  <2>4. CASE ~leased
    <3>1. daemon'.mem.status = daemon.mem.status
      BY <1>2, <1>b, <2>4 DEF Recheck, Goto, DaemonsWith
    <3>2. QED BY <1>2, <2>1, <2>4, <3>1, SamePreserves, CopyStays DEF Recheck
  <2>5. QED BY <2>2, <2>3, <2>4
<1>3. ASSUME NEW j \in Jobs, SkipJob(j, leased)
      PROVE  Preserving /\ mover' = mover /\ queued' = queued /\ CopyPresent'
  BY <1>3, <1>a, SamePreserves, CopyStays DEF SkipJob, NextFile
<1>4. ASSUME NEW j \in Jobs, SeeJob(j, leased)
      PROVE  Preserving /\ mover' = mover /\ queued' = queued /\ CopyPresent'
  <2>1. daemon'.mem = file[j]["pending"]
    BY <1>4, <1>b DEF SeeJob, DaemonsWith
  <2>2. QED BY <1>4, <2>1, SamePreserves, CopyStays DEF SeeJob, Present
<1>5. QED BY <1>1, <1>2, <1>3, <1>4 DEF CloserSteps

(* Every step of the composition keeps the jobs. *)
LEMMA KeptInvNext ==
  ASSUME TypeInv, KeptInv, [Next]_vars
  PROVE  KeptInv'
<1> USE DEF KeptInv
<1>m. mover \in [Processes -> Moves]
  BY DEF TypeInv, QueueInv
<1>1. ASSUME UNCHANGED queueVars, raced' = raced PROVE KeptInv'
  <2>1. UNCHANGED <<file, mover, daemon, queued>>
    BY <1>1 DEF queueVars
  <2>2. StartsCovered /\ Preserving
    BY <1>m, <2>1, SamePreserves, NoStart
  <2>3. QED BY <1>1, <2>1, <2>2, PreservingKeeps, CopyStays
<1>2. CASE UNCHANGED vars
  BY <1>1, <1>2 DEF vars
<1>3. CASE WatcherLooks \/ LeaseActs
  BY <1>1, <1>3 DEF WatcherLooks, LeaseActs
<1>4. CASE DaemonLooks
  <2>1. (\E leased : CloserSteps(leased, DispatchActive)) /\ raced' = raced
    BY <1>4 DEF DaemonLooks, CloserSteps
  <2>2. Preserving /\ mover' = mover /\ queued' = queued /\ CopyPresent'
    BY <2>1, LooksKeep
  <2>3. StartsCovered
    BY <1>m, <2>2, NoStart
  <2>4. QED BY <2>1, <2>2, <2>3, PreservingKeeps
<1>5. CASE QueueActs
  <2>1. QueueSteps /\ raced' = (raced \/ LandsOnMove) /\ (raced => raced')
    BY <1>5 DEF QueueActs
  <2>2. CopyPresent'
    BY <2>1, StepsKeepCopy DEF TypeInv
  <2>3. CASE \A p \in Processes : ~FinishMove(p)
    BY <2>1, <2>2, <2>3, StepsPreserve, PreservingKeeps
  <2>4. ASSUME NEW p \in Processes, FinishMove(p) PROVE KeptInv'
    BY <2>1, <2>2, <2>4, FinishKeeps
  <2>5. QED BY <2>3, <2>4
<1>6. QED BY <1>2, <1>3, <1>4, <1>5 DEF Next

(* A queued job keeps a file in some directory through crashes between the  *)
(* halves of a move and moves by several processes at once, unless a        *)
(* requeue lands in the middle of another move of the same job.             *)
THEOREM JobsKept == Spec => []JobKept
<1>1. ASSUME Init PROVE KeptInv
  <2>1. queued = {} /\ daemon.pc = "idle" /\ \A p \in Processes : mover[p] = NoMove
    BY <1>1 DEF Init, QueueInit, Idle
  <2>2. QED BY <2>1 DEF KeptInv, MoveCovered, Covered, CopyPresent, JobKept
<1>2. KeptInv => JobKept
  BY DEF KeptInv
<1>3. QED
  BY <1>1, <1>2, KeptInvNext, TypeInvAlways, PTL DEF Spec
-----------------------------------------------------------------------------
(* The operator's stop.                                                     *)

(* A halted record is left as it is. *)
HaltKept ==
  \A j \in Jobs : file[j]["stopped"].status = "halted"
                  => file'[j]["stopped"] = file[j]["stopped"]

(* A move out of the stopped directory is a requeue of the operator's, of a *)
(* record that is not an operator's stop.                                   *)
RequeuesOnly(p) ==
  mover[p].from = "stopped" =>
    /\ p = "operator"
    /\ mover[p].to = "pending"
    /\ mover[p].job \in Jobs => file[mover[p].job]["stopped"].status # "halted"

HaltInv == \A p \in Processes : RequeuesOnly(p)

HaltStep == HaltKept /\ HaltInv'

(* A step that leaves the statuses in the stopped directory, and starts no  *)
(* move out of it.                                                          *)
LEMMA HaltUntouched ==
  ASSUME HaltInv, HaltKept,
         \A j \in Jobs : file'[j]["stopped"].status = file[j]["stopped"].status,
         \A p \in Processes : \/ mover'[p] \in {mover[p], NoMove}
                              \/ mover'[p].from # "stopped"
  PROVE  HaltStep
<1>1. NoMove.from # "stopped"
  BY DEF NoMove
<1>2. SUFFICES ASSUME NEW p \in Processes, mover'[p].from = "stopped"
               PROVE  /\ p = "operator"
                      /\ mover'[p].to = "pending"
                      /\ mover'[p].job \in Jobs =>
                           file'[mover'[p].job]["stopped"].status # "halted"
  BY DEF HaltStep, HaltInv, RequeuesOnly
<1>3. mover'[p] = mover[p] /\ RequeuesOnly(p)
  BY <1>1, <1>2 DEF HaltInv
<1>4. QED BY <1>2, <1>3 DEF RequeuesOnly

(* Writing a file in another directory does neither. *)
LEMMA HaltPut ==
  ASSUME TypeInv, HaltInv, NEW j \in Jobs, NEW d \in Dirs \ {"stopped"}, NEW r,
         file' = Put(j, d, r) \/ file' = file,
         mover' = mover \/ \E p \in Processes : mover' = [mover EXCEPT ![p] = NoMove]
  PROVE  HaltStep
<1>1. \A i \in Jobs : file'[i]["stopped"] = file[i]["stopped"]
  BY DEF TypeInv, QueueInv, Put, Dirs
<1>2. \A p \in Processes : mover'[p] \in {mover[p], NoMove}
  BY DEF TypeInv, QueueInv
<1>3. QED BY <1>1, <1>2, HaltUntouched DEF HaltKept

(* Nor does a step that leaves the files and the moves alone. *)
LEMMA HaltSame ==
  ASSUME HaltInv, UNCHANGED <<file, mover>>
  PROVE  HaltStep
BY HaltUntouched DEF HaltKept

(* Nor a rename between pending and in-progress. *)
LEMMA HaltRename ==
  ASSUME TypeInv, HaltInv, NEW j \in Jobs, NEW d \in {"pending", "in-progress"},
         NEW e \in {"pending", "in-progress"}, file' = Renamed(j, d, e), mover' = mover
  PROVE  HaltStep
<1>1. \A i \in Jobs : file'[i]["stopped"] = file[i]["stopped"]
  BY DEF TypeInv, QueueInv, Renamed, Dirs
<1>2. QED BY <1>1, HaltUntouched DEF HaltKept

(* The first half of a terminal move creates a record in the stopped        *)
(* directory only where there is none, and only the operator's is a stop of *)
(* the operator: one that is requeueing cannot be stopping at the same time. *)
LEMMA HaltTerminal ==
  ASSUME TypeInv, HaltInv, NEW p \in Processes, NEW j \in Jobs, NEW d \in Dirs, NEW t \in Terminal,
         NEW r, MoveTerminal(p, j, d, t, r), d = "in-progress" \/ t = "stopped",
         p = "operator" \/ r.status # "halted"
  PROVE  HaltStep
<1>1. /\ file \in [Jobs -> [Dirs -> Charged(upsets)]] /\ mover \in [Processes -> Moves]
      /\ "stopped" \in Dirs /\ t \in Dirs /\ d # "stopped"
  BY DEF TypeInv, QueueInv, MoveTerminal, Dirs, Terminal
<1>2. /\ mover[p] = NoMove /\ mover'[p].from = d
      /\ \A q \in Processes : q # p => mover'[q] = mover[q]
  BY <1>1 DEF MoveTerminal, Ready
<1>3. \A i \in Jobs : \/ file'[i]["stopped"] = file[i]["stopped"]
                      \/ /\ file[i]["stopped"].status = "absent"
                         /\ file'[i]["stopped"] = r
  BY <1>1 DEF MoveTerminal, Put, Present
<1>4. HaltKept
  BY <1>3 DEF HaltKept
<1>5. SUFFICES ASSUME NEW q \in Processes, mover'[q].from = "stopped"
               PROVE  /\ q = "operator"
                      /\ mover'[q].to = "pending"
                      /\ mover'[q].job \in Jobs =>
                           file'[mover'[q].job]["stopped"].status # "halted"
  BY <1>4 DEF HaltStep, HaltInv, RequeuesOnly
<1>6. q # p /\ mover'[q] = mover[q] /\ RequeuesOnly(q)
  BY <1>1, <1>2, <1>5 DEF HaltInv
<1>7. q = "operator" /\ r.status # "halted"
  BY <1>5, <1>6 DEF RequeuesOnly
<1>8. QED BY <1>3, <1>5, <1>6, <1>7 DEF RequeuesOnly

(* The first half of a move to pending rewrites a record of the stopped     *)
(* directory only for a requeue of the operator, which refuses a halted     *)
(* one.                                                                     *)
LEMMA HaltPending ==
  ASSUME TypeInv, HaltInv, NEW p \in Processes, NEW j \in Jobs, NEW d \in Dirs, NEW r,
         MovePending(p, j, d, r),
         \/ d # "stopped"
         \/ p = "operator" /\ file[j][d].status # "halted" /\ r.status # "halted"
  PROVE  HaltStep
<1>1. /\ file \in [Jobs -> [Dirs -> Charged(upsets)]] /\ mover \in [Processes -> Moves]
      /\ "stopped" \in Dirs
  BY DEF TypeInv, QueueInv, Dirs
<1>2. /\ mover[p] = NoMove /\ mover'[p] = [job |-> j, from |-> d, to |-> "pending"]
      /\ \A q \in Processes : q # p => mover'[q] = mover[q]
  BY <1>1 DEF MovePending, Ready
<1>3. \A i \in Jobs : i # j \/ d # "stopped" => file'[i]["stopped"] = file[i]["stopped"]
  BY <1>1 DEF MovePending, Put
<1>4. d = "stopped" => file'[j]["stopped"] = r
  BY <1>1 DEF MovePending, Put
<1>5. HaltKept
  BY <1>3 DEF HaltKept
<1>6. SUFFICES ASSUME NEW q \in Processes, mover'[q].from = "stopped"
               PROVE  /\ q = "operator"
                      /\ mover'[q].to = "pending"
                      /\ mover'[q].job \in Jobs =>
                           file'[mover'[q].job]["stopped"].status # "halted"
  BY <1>5 DEF HaltStep, HaltInv, RequeuesOnly
<1>7. CASE q = p
  BY <1>2, <1>4, <1>6, <1>7
<1>8. CASE q # p
  <2>1. mover'[q] = mover[q] /\ RequeuesOnly(q)
    BY <1>2, <1>8 DEF HaltInv
  <2>2. q = "operator" /\ d # "stopped"
    BY <1>6, <1>8, <2>1 DEF RequeuesOnly
  <2>3. QED BY <1>3, <1>6, <2>1, <2>2 DEF RequeuesOnly
<1>9. QED BY <1>7, <1>8

(* The second half of a move takes a record out of the stopped directory    *)
(* only for such a requeue.                                                 *)
LEMMA HaltFinish ==
  ASSUME TypeInv, MoveCovered, HaltInv, NEW p \in Processes, FinishMove(p)
  PROVE  HaltStep
<1> DEFINE m == mover[p]
<1>1. /\ file \in [Jobs -> [Dirs -> Charged(upsets)]] /\ mover \in [Processes -> Moves]
      /\ "stopped" \in Dirs /\ "pending" \in Dirs /\ NoFile.status # "halted"
  BY DEF TypeInv, QueueInv, Dirs, NoFile
<1>2. m # NoMove /\ m.job \in Jobs /\ m.from \in Dirs
  BY <1>1 DEF FinishMove, Ready, MoveCovered, Covered, Moves
<1>3. \A q \in Processes : mover'[q] = IF q = p THEN NoMove ELSE mover[q]
  BY <1>1 DEF FinishMove
<1>4. m.from = "stopped" => p = "operator" /\ m.to = "pending" /\ file[m.job]["stopped"].status # "halted"
  BY <1>2 DEF HaltInv, RequeuesOnly
<1>5. \A i \in Jobs : i # m.job \/ m.from # "stopped" => file'[i]["stopped"] = file[i]["stopped"]
  BY <1>1, <1>2 DEF FinishMove, Put, Renamed
<1>6. HaltKept
  BY <1>4, <1>5 DEF HaltKept
<1>7. CASE m.from # "stopped"
  BY <1>3, <1>5, <1>6, <1>7, HaltUntouched
<1>8. CASE m.from = "stopped"
  <2>1. \A q \in Processes : mover'[q].from # "stopped"
    BY <1>3, <1>4, <1>8 DEF HaltInv, RequeuesOnly, NoMove
  <2>2. QED BY <1>6, <2>1 DEF HaltStep, HaltInv, RequeuesOnly
<1>9. QED BY <1>7, <1>8

(* Every step of the queue but the second half of a move respects the       *)
(* operator's stops.                                                        *)
LEMMA StepsHalt ==
  ASSUME TypeInv, HaltInv, QueueSteps, \A p \in Processes : ~FinishMove(p)
  PROVE  HaltStep
<1>q. QueueInv /\ mover \in [Processes -> Moves]
  BY DEF TypeInv, QueueInv
<1>r. /\ \A j \in Jobs, d \in Dirs : file[j][d] \in Records
      /\ daemon.pc \notin {"idle", "drain", "down"} => daemon.job \in Jobs
  BY <1>q, RecordsAtHand
<1>d. /\ {"pending", "in-progress"} \subseteq Dirs \ {"stopped"} /\ Terminal \subseteq Dirs
      /\ {"completed", "failed", "stopped"} \subseteq Terminal /\ "halted" \notin Terminal
      /\ {"daemon", "watcher", "operator"} \subseteq Processes
  BY DEF Dirs, Terminal, Processes
<1>s. /\ \A j \in Jobs, d \in Dirs, t \in Terminal : Settled(file[j][d], t).status # "halted"
      /\ \A j \in Jobs, d \in Dirs : Stopped(file[j][d]).status # "halted"
  BY <1>r, <1>d, RecordStatus
<1>p. ASSUME NEW j \in Jobs, NEW r, file' = Put(j, "pending", r) \/ file' = Put(j, "in-progress", r),
             mover' = mover
      PROVE  HaltStep
  BY <1>d, <1>p, HaltPut
<1>t. ASSUME NEW p \in {"daemon", "watcher"}, NEW j \in Jobs, NEW t \in Terminal,
             MoveTerminal(p, j, "in-progress", t, Settled(file[j]["in-progress"], t))
      PROVE  HaltStep
  BY <1>d, <1>s, <1>t, HaltTerminal
<1>o. ASSUME NEW p \in Processes, NEW j \in Jobs, NEW d \in Dirs,
             MoveTerminal(p, j, d, "stopped", Stopped(file[j][d]))
      PROVE  HaltStep
  BY <1>d, <1>s, <1>o, HaltTerminal
<1>m. ASSUME NEW j \in Jobs, NEW r, MovePending("daemon", j, "in-progress", r) PROVE HaltStep
  BY <1>d, <1>m, HaltPending
<1> USE DEF DaemonAt
<1>1. CASE \/ \E j \in Jobs, round \in 0 .. MaxRounds : Enqueue(j, round)
           \/ \E j \in Jobs : HoldEnds(j)
  BY <1>1, <1>p DEF Enqueue, HoldEnds
<1>2. CASE EndDrain \/ ClaimRefused \/ DaemonRestart
  BY <1>2, HaltSame DEF EndDrain, ClaimRefused, DaemonRestart
<1>3. CASE TakeJob
  BY <1>3, <1>r, HaltRename, HaltSame DEF TakeJob
<1>4. CASE ClaimStops
  BY <1>4, <1>d, <1>r, <1>o, HaltSame DEF ClaimStops
<1>5. CASE ClaimStopFails
  BY <1>5, <1>r, HaltRename, HaltSame DEF ClaimStopFails
<1>6. CASE Claim
  BY <1>6, <1>p, <1>r DEF Claim
<1>7. CASE Persist \/ BeatWrite
  BY <1>7, <1>p, <1>r DEF Persist, BeatWrite
<1>8. CASE PrepareRetries \/ \E hold \in BOOLEAN : PrepareRequeues(hold)
  BY <1>8, <1>m, <1>r DEF PrepareRetries, PrepareRequeues
<1>9. CASE MarkSpawned
  BY <1>9, <1>p, <1>r, HaltSame DEF MarkSpawned
<1>10. CASE MarkRefused
  BY <1>10, <1>d, <1>r, <1>t DEF MarkRefused
<1>11. ASSUME NEW t \in {"failed", "stopped"}, PrepareEnds(t) PROVE HaltStep
  BY <1>11, <1>d, <1>r, <1>t, HaltSame DEF PrepareEnds
<1>12. ASSUME NEW n \in Workers, Spawn(n) \/ WorkerHangs(n) \/ WorkerExits(n) PROVE HaltStep
  BY <1>12, HaltSame DEF Spawn, WorkerHangs, WorkerExits
<1>13. ASSUME NEW j \in Jobs, BeatRead(j) \/ SweepDeferred(j) \/ OpCancel(j) PROVE HaltStep
  BY <1>13, HaltSame DEF BeatRead, SweepDeferred, OpCancel
<1>14. ASSUME NEW j \in Jobs, ReconcileRetry(j) PROVE HaltStep
  BY <1>14, <1>m DEF ReconcileRetry
<1>15. ASSUME NEW j \in Jobs, ReconcileStop(j) \/ WatcherReclaims(j) PROVE HaltStep
  BY <1>15, <1>d, <1>o DEF ReconcileStop, WatcherReclaims
<1>16. ASSUME NEW j \in Jobs, ReconcileOverdue(j) PROVE HaltStep
  BY <1>16, <1>d, <1>t DEF ReconcileOverdue
<1>17. ASSUME NEW j \in Jobs, NEW t \in Terminal, ReconcileExit(j, t) PROVE HaltStep
  BY <1>17, <1>t DEF ReconcileExit
<1>18. ASSUME NEW j \in Jobs, Sweep(j) PROVE HaltStep
  BY <1>18, <1>d, <1>m, <1>o DEF Sweep
<1>19. ASSUME NEW j \in Jobs, TimePasses(j) PROVE HaltStep
  <2>1. \A i \in Jobs : file'[i]["stopped"] \in {file[i]["stopped"], Older(file[i]["stopped"])}
    BY <1>19, <1>q, <1>d DEF TimePasses, QueueInv
  <2>2. \A i \in Jobs : file'[i]["stopped"].status = file[i]["stopped"].status
    BY <1>d, <1>r, <2>1, RecordStatus
  <2>3. HaltKept
    BY <2>1 DEF HaltKept, Older
  <2>4. QED BY <1>19, <2>2, <2>3, HaltUntouched DEF TimePasses
<1>20. ASSUME NEW j \in Jobs, NEW d \in Dirs, OpHalt(j, d) PROVE HaltStep
  BY <1>20, <1>d, HaltTerminal DEF OpHalt
<1>21. ASSUME NEW j \in Jobs, NEW d \in Dirs, OpRequeue(j, d) PROVE HaltStep
  <2> DEFINE r == [file[j][d] EXCEPT !.status = "pending", !.worker = 0, !.age = 0]
  <2>1. r.status # "halted" /\ file[j][d].status # "halted"
    BY <1>21, <1>d, <1>r, RecordStatus DEF OpRequeue
  <2>2. \/ MovePending("operator", j, d, r)
        \/ MoveTerminal("operator", j, d, "stopped", Stopped(file[j][d]))
    BY <1>21 DEF OpRequeue
  <2> HIDE DEF r
  <2>3. QED BY <1>d, <1>o, <2>1, <2>2, HaltPending
<1>22. ASSUME NEW j \in Jobs, NEW d \in Dirs, WatcherReleases(j, d) PROVE HaltStep
  BY <1>22, <1>d, <1>o DEF WatcherReleases
<1>23. CASE DaemonCrash
  <2>1. file' = file /\ mover' = [mover EXCEPT !["daemon"] = NoMove]
    BY <1>23 DEF DaemonCrash
  <2>2. \A p \in Processes : mover'[p] \in {mover[p], NoMove}
    BY <1>q, <2>1
  <2>3. QED BY <2>1, <2>2, HaltUntouched DEF HaltKept
<1>24. QED
  BY <1>1, <1>2, <1>3, <1>4, <1>5, <1>6, <1>7, <1>8, <1>9, <1>10, <1>11, <1>12, <1>13, <1>14, <1>15,
     <1>16, <1>17, <1>18, <1>19, <1>20, <1>21, <1>22, <1>23 DEF QueueSteps

(* So does every step of the composition. *)
LEMMA HaltNext ==
  ASSUME TypeInv, KeptInv, HaltInv, [Next]_vars
  PROVE  HaltStep
<1>1. CASE UNCHANGED vars
  BY <1>1, HaltSame DEF vars, queueVars
<1>2. CASE WatcherLooks \/ LeaseActs
  BY <1>2, HaltSame DEF WatcherLooks, LeaseActs, queueVars
<1>3. CASE DaemonLooks
  <2>1. ASSUME NEW leased, Recheck(leased) PROVE HaltStep
    <3>1. daemon.job \in Jobs /\ mover' = mover
      BY <2>1, RecordsAtHand DEF Recheck, DaemonAt, TypeInv
    <3>2. file' = file \/ file' = Renamed(daemon.job, "in-progress", "pending")
      BY <2>1 DEF Recheck
    <3>3. QED BY <3>1, <3>2, HaltSame, HaltRename
  <2>2. CASE \/ StartDrain(DispatchActive)
             \/ \E j \in Jobs, leased \in Readings : SkipJob(j, leased) \/ SeeJob(j, leased)
    BY <2>2, HaltSame DEF StartDrain, SkipJob, SeeJob
  <2>3. QED BY <1>3, <2>1, <2>2 DEF DaemonLooks
<1>4. CASE QueueActs
  <2>1. CASE \A p \in Processes : ~FinishMove(p)
    BY <1>4, <2>1, StepsHalt DEF QueueActs
  <2>2. ASSUME NEW p \in Processes, FinishMove(p) PROVE HaltStep
    BY <2>2, HaltFinish DEF KeptInv
  <2>3. QED BY <2>1, <2>2
<1>5. QED BY <1>1, <1>2, <1>3, <1>4 DEF Next

(* The record of an operator's stop is final: for any number of jobs and    *)
(* workers, neither a terminal move of another process that started before  *)
(* or after it, nor a crash between the halves of a move, nor a requeue     *)
(* changes or removes it.                                                   *)
THEOREM HaltsAreFinal == Spec => HaltIsFinal
<1>1. ASSUME Init PROVE KeptInv /\ HaltInv
  <2>1. queued = {} /\ daemon.pc = "idle" /\ \A p \in Processes : mover[p] = NoMove
    BY <1>1 DEF Init, QueueInit, Idle
  <2>2. QED BY <2>1 DEF KeptInv, MoveCovered, Covered, CopyPresent, JobKept, HaltInv, RequeuesOnly, NoMove
<1>2. ASSUME TypeInv, KeptInv, HaltInv, [Next]_vars
      PROVE  HaltInv' /\ [HaltKept]_vars
  BY <1>2, HaltNext DEF HaltStep
<1>3. QED
  BY <1>1, <1>2, KeptInvNext, TypeInvAlways, PTL DEF Spec, HaltIsFinal, HaltKept
=============================================================================
