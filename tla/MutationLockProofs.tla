------------------------- MODULE MutationLockProofs -------------------------
(***************************************************************************)
(* What holds of the mutation lock for any number of processes, any retry  *)
(* budget and any staleness threshold: the types, and exclusion as long as *)
(* no removal has hit a lock that was in use.                              *)
(***************************************************************************)
EXTENDS MutationLock, TLAPS

\* The bookkeeping between the steps of the retry loop: a process still in
\* the loop has iterations left, so counting one more stays within the budget.
LoopHasBudget ==
  \A p \in Procs : pc[p] \in {"link", "inspect", "remove"} => tries[p] < MaxAttempts

Inv == TypeOK /\ LoopHasBudget /\ ExclusiveUntilBreach

\* The inductive invariant holds when no process has started.
LEMMA InitInv == Init => Inv
<1> SUFFICES ASSUME Init PROVE Inv
  OBVIOUS
<1>1. TypeOK
  <2>1. breached \in BOOLEAN
    BY DEF Init
  <2>2. since \in [Procs -> 0 .. MaxNow] /\ tries \in [Procs -> 0 .. MaxAttempts]
    BY ConstantsAssumption DEF Init
  <2>3. now \in 0 .. MaxNow /\ lockFile \in Lock \cup {NoLock} /\ pc \in [Procs -> Steps]
    BY ConstantsAssumption DEF Init, Steps
  <2> QED BY <2>1, <2>2, <2>3 DEF TypeOK
<1>2. LoopHasBudget
  BY ConstantsAssumption DEF Init, LoopHasBudget
<1>3. ExclusiveUntilBreach
  BY DEF Init, ExclusiveUntilBreach
<1> QED BY <1>1, <1>2, <1>3 DEF Inv

\* Counting an iteration of the retry loop keeps counter and position typed
\* and leaves a process that goes on with budget to spend.
LEMMA NextAttemptKeepsBudget ==
  ASSUME TypeOK, LoopHasBudget, NEW p \in Procs,
         pc[p] \in {"inspect", "remove"}, NextAttempt(p)
  PROVE  /\ pc' \in [Procs -> Steps]
         /\ tries' \in [Procs -> 0 .. MaxAttempts]
         /\ LoopHasBudget'
         /\ \A q \in Procs : pc'[q] = "critical" => pc[q] = "critical"
  BY ConstantsAssumption DEF TypeOK, LoopHasBudget, NextAttempt, Steps

\* Every step of every process, and the clock, preserves the invariant.
LEMMA NextInv == Inv /\ [Next]_vars => Inv'
<1> SUFFICES ASSUME Inv, [Next]_vars PROVE Inv'
  OBVIOUS
<1> USE ConstantsAssumption
<1>1. ASSUME NEW p \in Procs, Enter(p) PROVE Inv'
  BY <1>1 DEF Inv, TypeOK, LoopHasBudget, ExclusiveUntilBreach, Enter, Steps, Lock
<1>2. ASSUME NEW p \in Procs, LinkLock(p) PROVE Inv'
  <2>1. TypeOK'
    BY <1>2 DEF Inv, TypeOK, LinkLock, Steps, Lock
  <2>2. LoopHasBudget'
    BY <1>2 DEF Inv, TypeOK, LoopHasBudget, LinkLock, Steps
  <2>3. ExclusiveUntilBreach'
    BY <1>2 DEF Inv, TypeOK, ExclusiveUntilBreach, LinkLock, Steps, Lock
  <2> QED BY <2>1, <2>2, <2>3 DEF Inv
<1>3. ASSUME NEW p \in Procs, InspectLock(p) PROVE Inv'
  <2>1. CASE NextAttempt(p)
    BY <1>3, <2>1, NextAttemptKeepsBudget
       DEF Inv, TypeOK, ExclusiveUntilBreach, InspectLock
  <2>2. CASE pc' = [pc EXCEPT ![p] = "remove"] /\ UNCHANGED tries
    BY <1>3, <2>2
       DEF Inv, TypeOK, LoopHasBudget, ExclusiveUntilBreach, InspectLock, Steps
  <2> QED BY <1>3, <2>1, <2>2 DEF InspectLock
<1>4. ASSUME NEW p \in Procs, BreakLock(p) PROVE Inv'
  <2>1. /\ pc' \in [Procs -> Steps]
        /\ tries' \in [Procs -> 0 .. MaxAttempts]
        /\ LoopHasBudget'
        /\ \A q \in Procs : pc'[q] = "critical" => pc[q] = "critical"
    BY <1>4, NextAttemptKeepsBudget DEF Inv, BreakLock
  <2>2. TypeOK'
    BY <1>4, <2>1 DEF Inv, TypeOK, BreakLock, RemoveLockFile
  <2>3. ExclusiveUntilBreach'
    BY <1>4, <2>1 DEF Inv, TypeOK, ExclusiveUntilBreach, BreakLock, RemoveLockFile, Lock
  <2> QED BY <2>1, <2>2, <2>3 DEF Inv
<1>5. ASSUME NEW p \in Procs, Leave(p) PROVE Inv'
  <2>1. TypeOK' /\ LoopHasBudget'
    BY <1>5 DEF Inv, TypeOK, LoopHasBudget, Leave, RemoveLockFile, Steps
  <2>2. ExclusiveUntilBreach'
    BY <1>5 DEF Inv, TypeOK, ExclusiveUntilBreach, Leave, RemoveLockFile, Steps, Lock
  <2> QED BY <2>1, <2>2 DEF Inv
<1>6. ASSUME NEW p \in Procs, Crash(p) \/ Respawn(p) PROVE Inv'
  BY <1>6 DEF Inv, TypeOK, LoopHasBudget, ExclusiveUntilBreach, Crash, Respawn, Steps, Lock
<1>7. CASE Tick
  BY <1>7 DEF Inv, TypeOK, LoopHasBudget, ExclusiveUntilBreach, Tick, Steps, Lock
<1>8. CASE UNCHANGED vars
  BY <1>8 DEF Inv, TypeOK, LoopHasBudget, ExclusiveUntilBreach, vars
<1> QED
  BY <1>1, <1>2, <1>3, <1>4, <1>5, <1>6, <1>7, <1>8 DEF Next, Proceed

LEMMA Invariance == Spec => []Inv
  BY InitInv, NextInv, PTL DEF Spec

\* Types, and with them the retry bound of acquireMutationLock: no process
\* ever spends more than MUTATION_LOCK_RETRY_ATTEMPTS iterations.
THEOREM TypeCorrect == Spec => []TypeOK
  BY Invariance, PTL DEF Inv

\* Exclusion for every number of processes and hosts: until some rmSync of
\* breakStaleMutationLock or of a finally block deletes a lock in use, the
\* process inside withMutationLock is the one the lock file names, so it is
\* alone.
THEOREM ExclusionUntilBreach == Spec => []ExclusiveUntilBreach
  BY Invariance, PTL DEF Inv

\* A step that ends with p inside, while q was inside and nothing has been
\* breached, did not change who is inside: a link needs the file to be gone.
LEMMA NoHandover ==
  ASSUME Inv, [Next]_vars, ~breached', NEW p \in Procs, NEW q \in Procs,
         pc[q] = "critical", pc'[p] = "critical"
  PROVE  p = q
<1>1. ~breached
  BY DEF Next, vars, Proceed, Enter, LinkLock, InspectLock, BreakLock, Leave, Crash,
         Respawn, Tick, RemoveLockFile, Inv, TypeOK
<1>2. lockFile # NoLock /\ lockFile.pid = q
  BY <1>1 DEF Inv, ExclusiveUntilBreach
<1>3. CASE pc[p] = "critical"
  BY <1>1, <1>2, <1>3 DEF Inv, ExclusiveUntilBreach
<1>4. CASE pc[p] # "critical"
  <2>1. ~LinkLock(p) \/ pc'[p] = "inspect"
    BY <1>2, <1>4 DEF LinkLock, Inv, TypeOK
  <2>2. ASSUME NEW r \in Procs, Enter(r) \/ InspectLock(r) \/ BreakLock(r) \/ Leave(r)
                                \/ Crash(r) \/ Respawn(r)
        PROVE  FALSE
    BY <1>4, <2>2 DEF Enter, InspectLock, BreakLock, NextAttempt, Leave, Crash, Respawn,
                      Inv, TypeOK
  <2>3. ASSUME NEW r \in Procs, LinkLock(r), r # p
        PROVE  FALSE
    BY <1>4, <2>3 DEF LinkLock, Inv, TypeOK
  <2>4. ~Tick /\ ~UNCHANGED vars
    BY <1>4 DEF Tick, vars
  <2> QED BY <2>1, <2>2, <2>3, <2>4 DEF Next, Proceed
<1> QED BY <1>3, <1>4

\* The lock file, the stale-lock breaking and the crashes implement the
\* abstract lane for any number of processes and hosts: until a breach, the
\* critical section is never handed from one process to another in one step
\* and never entered while another process is inside.
THEOREM LockRefinement == Spec => ImplementsLane
<1>1. Init => AbstractLock!Init
  BY DEF Init, AbstractLock!Init, Inside
<1>2. ASSUME Inv, Inv', [Next]_vars
      PROVE  [AbstractLock!Next]_Inside
  <2>1. \A p, q \in Inside' : p = q
    BY <1>2 DEF Inv, ExclusiveUntilBreach, Inside
  <2>2. CASE Inside' = {}
    BY <2>2 DEF AbstractLock!Next, AbstractLock!Lose
  <2>3. CASE Inside = {} /\ Inside' # {}
    <3>1. PICK p \in Inside' : TRUE
      BY <2>3
    <3>2. Inside' = {p} /\ p \in Procs
      BY <2>1, <3>1 DEF Inside
    <3> QED BY <2>3, <3>2 DEF AbstractLock!Next, AbstractLock!Enter
  <2>4. CASE Inside # {} /\ Inside' # {}
    <3>1. \A q \in Inside, p \in Inside' : p = q
      BY <1>2, NoHandover DEF Inside
    <3>2. Inside' = Inside
      BY <2>4, <3>1
    <3> QED BY <3>2
  <2> QED BY <2>2, <2>3, <2>4
<1> QED
  BY <1>1, <1>2, Invariance, PTL DEF Spec, ImplementsLane, AbstractLock!Spec

\* Counting an iteration uses up the three calls it stands for.
LEMMA NextAttemptShrinks ==
  ASSUME TypeOK, NEW p \in Procs, pc[p] \in {"inspect", "remove"}, NextAttempt(p),
         pc'[p] \in Retrying
  PROVE  Remaining(p)' < Remaining(p)
<1>1. pc'[p] = "link" /\ tries'[p] = tries[p] + 1
  BY DEF NextAttempt, TypeOK, Retrying
<1>2. tries[p] \in Nat /\ MaxAttempts \in Nat
  BY ConstantsAssumption DEF TypeOK
<1>3. Remaining(p)' = 3 * (MaxAttempts - (tries[p] + 1)) + 2
  BY <1>1 DEF Remaining
<1>4. Remaining(p) = 3 * (MaxAttempts - tries[p]) + 1 \/ Remaining(p) = 3 * (MaxAttempts - tries[p]) + 0
  BY DEF Remaining
<1> QED BY <1>2, <1>3, <1>4

\* Every step of a process in the retry loop shortens what is left of it, and
\* no step of another process, a crash or the clock lengthens it: with it the
\* loop ends after at most 3 * MUTATION_LOCK_RETRY_ATTEMPTS calls.
THEOREM AcquisitionShrinks == Spec => AcquireShrinks
<1> DEFINE Shrinks(p) ==
      pc[p] \in Retrying /\ pc'[p] \in Retrying =>
        \/ pc'[p] = pc[p] /\ tries'[p] = tries[p]
        \/ Remaining(p)' < Remaining(p)
           Shrink == \A p \in Procs : Shrinks(p)
<1>1. ASSUME Inv, [Next]_vars
      PROVE  [Shrink]_vars
  <2> SUFFICES ASSUME Next, NEW p \in Procs, pc[p] \in Retrying, pc'[p] \in Retrying
               PROVE  \/ pc'[p] = pc[p] /\ tries'[p] = tries[p]
                      \/ Remaining(p)' < Remaining(p)
    BY <1>1
  <2> USE <1>1
  <2>1. CASE LinkLock(p)
    <3>1. pc[p] = "link" /\ pc'[p] = "inspect" /\ tries'[p] = tries[p]
      BY <2>1 DEF LinkLock, Inv, TypeOK, Retrying
    <3>2. tries[p] \in Nat /\ MaxAttempts \in Nat
      BY ConstantsAssumption DEF Inv, TypeOK
    <3>3. Remaining(p)' = 3 * (MaxAttempts - tries[p]) + 1
      BY <3>1 DEF Remaining
    <3>4. Remaining(p) = 3 * (MaxAttempts - tries[p]) + 2
      BY <3>1 DEF Remaining
    <3> QED BY <3>2, <3>3, <3>4
  <2>2. CASE InspectLock(p)
    <3>1. CASE NextAttempt(p)
      BY <2>2, <3>1, NextAttemptShrinks DEF InspectLock, Inv
    <3>2. CASE pc' = [pc EXCEPT ![p] = "remove"] /\ UNCHANGED tries
      <4>1. pc[p] = "inspect" /\ pc'[p] = "remove" /\ tries'[p] = tries[p]
        BY <2>2, <3>2 DEF InspectLock, Inv, TypeOK
      <4>2. tries[p] \in Nat /\ MaxAttempts \in Nat
        BY ConstantsAssumption DEF Inv, TypeOK
      <4>3. Remaining(p)' = 3 * (MaxAttempts - tries[p]) + 0
        BY <4>1 DEF Remaining
      <4>4. Remaining(p) = 3 * (MaxAttempts - tries[p]) + 1
        BY <4>1 DEF Remaining
      <4> QED BY <4>2, <4>3, <4>4
    <3> QED BY <2>2, <3>1, <3>2 DEF InspectLock
  <2>3. CASE BreakLock(p)
    BY <2>3, NextAttemptShrinks DEF BreakLock, Inv
  <2>4. CASE Enter(p) \/ Leave(p) \/ Crash(p) \/ Respawn(p)
    BY <2>4 DEF Enter, Leave, Crash, Respawn, Retrying, Inv, TypeOK
  <2>5. ASSUME NEW q \in Procs, q # p,
               Enter(q) \/ Proceed(q) \/ Leave(q) \/ Crash(q) \/ Respawn(q)
        PROVE  pc'[p] = pc[p] /\ tries'[p] = tries[p]
    BY <2>5 DEF Enter, Proceed, LinkLock, InspectLock, BreakLock, NextAttempt, Leave, Crash,
                Respawn, Inv, TypeOK
  <2>6. CASE Tick
    BY <2>6 DEF Tick
  <2> QED BY <2>1, <2>2, <2>3, <2>4, <2>5, <2>6 DEF Next, Proceed
<1> QED
  BY <1>1, Invariance, PTL DEF Spec, AcquireShrinks
=============================================================================
