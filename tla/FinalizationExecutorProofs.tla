---------------------- MODULE FinalizationExecutorProofs ----------------------
(***************************************************************************)
(* Proofs about FinalizationExecutor: types, the numbers of the rounds, the *)
(* fence of the lease and what a merge and its record rest on.              *)
(***************************************************************************)
EXTENDS FinalizationExecutor, FiniteSetTheorems, WellFoundedInduction, TLAPS

-----------------------------------------------------------------------------
(* The types, by name.                                                      *)

Ages == [Revs -> 0 .. Patience]
Verdicts == [Revs -> [Roles -> VerdictKinds \cup {"none"}]]
CheckMaps == [Revs -> Checks]
Conclusions == [Revs -> [1 .. MaxRounds + 1 -> Outcomes]]

Ledgers == [rev : 0 .. MaxRev, age : Ages, verdict : Verdicts, checks : CheckMaps,
            dispatched : Seq(Rounds), finalAge : Ages, concluded : Conclusions,
            exhausted : BOOLEAN, override : OverrideKinds \cup {"none"},
            terminal : Terminals, finalized : 0 .. MaxRev]

Ticks == [pc : Steps, rev : 0 .. MaxRev, round : 0 .. MaxRounds + 1,
          final : BOOLEAN, since : 0 .. MaxAge]

(* The rounds are within their bound, and a finalized mark names a head. *)
SoundLedgers ==
  {l \in Ledgers : Len(l.dispatched) <= MaxRounds
                   /\ (l.terminal = "finalized" => l.finalized # 0)}

(* An executor that carries a decision out knows its head and its round. *)
SoundTicks ==
  {x \in Ticks : /\ x.pc \in {"identity", "merge", "finalize", "dispatch", "dispatched"} => x.rev \in Revs
                 /\ x.pc \in {"dispatch", "dispatched"} => x.round \in 1 .. MaxRounds + 1}

Prs == [head : Revs, state : {"open", "merged", "closed"}, merged : 0 .. MaxRev]

TypeInv ==
  /\ led \in SoundLedgers
  /\ lease \in Executors \cup {NoExecutor}
  /\ exec \in [Executors -> SoundTicks]
  /\ started \subseteq Rounds
  /\ brake \in BOOLEAN
  /\ pr \in Prs
  /\ cleared \subseteq Revs
  /\ covered \subseteq Revs
  /\ events \in 0 .. MaxEvents
  /\ faults \in 0 .. MaxFaults

(* The inductive invariant contains the types. *)
LEMMA TypeInvTypes ==
  ASSUME TypeInv PROVE TypeOK
<1>1. led \in Ledgers /\ exec \in [Executors -> Ticks]
  BY DEF TypeInv, SoundLedgers, SoundTicks
<1>2. QED BY <1>1 DEF TypeInv, TypeOK, Ledgers, Ticks, Ages, Verdicts, CheckMaps, Rounds,
                     Conclusions, Prs

-----------------------------------------------------------------------------
(* Executors.                                                               *)

(* The bounds of the ages. *)
LEMMA AgeBounds == /\ MaxAge \in Nat /\ MaxAge >= Ttl /\ Ttl \in Nat /\ Ttl > 0 /\ Patience \in Nat
                   /\ 0 \in 0 .. MaxAge /\ 0 \in 0 .. MaxRev /\ 0 \in 0 .. MaxRounds + 1
BY ExecutorAssumption DEF MaxAge

(* The steps of a tick. *)
LEMMA StepNames ==
  {"idle", "leased", "identity", "merge", "finalize", "dispatch",
   "dispatched", "close", "closed", "escalated", "halted", "release"} \subseteq Steps
BY DEF Steps

(* An idle executor, one that starts and one that ends are sound. *)
LEMMA IdleSound ==
  /\ Idle \in SoundTicks
  /\ [Idle EXCEPT !.pc = "leased"] \in SoundTicks
  /\ \A n \in 0 .. MaxAge : /\ [Idle EXCEPT !.pc = "release", !.since = n] \in SoundTicks
                            /\ [Idle EXCEPT !.since = n] \in SoundTicks
BY AgeBounds, StepNames DEF Idle, SoundTicks, Ticks

(* One more tick of age stays within the cap. *)
LEMMA OlderBound ==
  ASSUME NEW cap \in Nat, NEW n \in 0 .. cap
  PROVE  Older(n, cap) \in 0 .. cap /\ Older(n, cap) >= n
BY DEF Older

(* Moving on keeps an executor sound when its decision stays valid. *)
LEMMA MoveSound ==
  ASSUME NEW x \in SoundTicks, NEW pc \in Steps,
         \/ pc \in {"leased", "close", "closed", "escalated", "halted", "release"}
         \/ pc \in {"merge", "finalize"} /\ x.pc \in {"identity", "merge"}
         \/ pc = "dispatched" /\ x.pc = "dispatch"
  PROVE  [x EXCEPT !.pc = pc] \in SoundTicks
BY DEF SoundTicks, Ticks

(* To and Done keep the executors sound. *)
LEMMA ExecSound ==
  ASSUME exec \in [Executors -> SoundTicks], NEW e \in Executors
  PROVE  /\ exec[e] \in SoundTicks /\ exec[e].since \in 0 .. MaxAge
         /\ Done(e) => exec' \in [Executors -> SoundTicks]
         /\ \A pc \in {"close", "closed", "escalated", "halted"} :
              To(e, pc) => exec' \in [Executors -> SoundTicks]
         /\ \A pc \in {"merge", "finalize"} :
              To(e, pc) /\ exec[e].pc \in {"identity", "merge"} => exec' \in [Executors -> SoundTicks]
         /\ To(e, "dispatched") /\ exec[e].pc = "dispatch" => exec' \in [Executors -> SoundTicks]
<1>1. exec[e] \in SoundTicks /\ exec[e].since \in 0 .. MaxAge
  BY DEF SoundTicks, Ticks
<1>2. [Idle EXCEPT !.pc = "release", !.since = exec[e].since] \in SoundTicks
  BY <1>1, IdleSound
<1>3. Done(e) => exec' \in [Executors -> SoundTicks]
  BY <1>2 DEF Done
<1>4. \A pc : To(e, pc) /\ [exec[e] EXCEPT !.pc = pc] \in SoundTicks => exec' \in [Executors -> SoundTicks]
  BY DEF To
<1>5. \A pc \in {"close", "closed", "escalated", "halted"} : [exec[e] EXCEPT !.pc = pc] \in SoundTicks
  BY <1>1, MoveSound, StepNames
<1>6. exec[e].pc \in {"identity", "merge"} =>
        \A pc \in {"merge", "finalize"} : [exec[e] EXCEPT !.pc = pc] \in SoundTicks
  BY <1>1, MoveSound, StepNames
<1>7. exec[e].pc = "dispatch" => [exec[e] EXCEPT !.pc = "dispatched"] \in SoundTicks
  BY <1>1, MoveSound, StepNames
<1>8. QED BY <1>1, <1>3, <1>4, <1>5, <1>6, <1>7

-----------------------------------------------------------------------------
(* The ledger.                                                              *)

(* The first of some positions is one of them. *)
LEMMA MinIsMember ==
  ASSUME NEW S, S \subseteq Nat, S # {}
  PROVE  Min(S) \in S
<1>1. PICK x \in S : \A y \in S : ~(<<y, x>> \in OpToRel(<, Nat))
  BY NatLessThanWellFounded, WFMin
<1>2. ASSUME NEW y \in S PROVE x <= y
  <2>1. x \in Nat /\ y \in Nat /\ <<y, x>> \in Nat \X Nat
    OBVIOUS
  <2>2. ~(y < x)
    BY <1>1, <2>1 DEF OpToRel
  <2>3. QED BY <2>1, <2>2
<1>3. QED BY <1>2 DEF Min

(* No more rounds are dispatched at a head than there are dispatches. *)
LEMMA RoundsBounded ==
  ASSUME NEW l \in SoundLedgers, NEW r
  PROVE  /\ Cardinality(DispatchedAt(l, r)) \in 0 .. MaxRounds
         /\ IsFiniteSet(DispatchedAt(l, r))
<1>1. l.dispatched \in Seq(Rounds) /\ Len(l.dispatched) \in Nat /\ Len(l.dispatched) <= MaxRounds
  BY DEF SoundLedgers, Ledgers
<1>2. IsFiniteSet(1 .. Len(l.dispatched)) /\ Cardinality(1 .. Len(l.dispatched)) = Len(l.dispatched)
  BY <1>1, FS_Interval
<1>3. DispatchedAt(l, r) \in SUBSET (1 .. Len(l.dispatched))
  BY DEF DispatchedAt
<1>4. IsFiniteSet(DispatchedAt(l, r)) /\ Cardinality(DispatchedAt(l, r)) <= Len(l.dispatched)
  BY <1>2, <1>3, FS_Subset
<1>5. Cardinality(DispatchedAt(l, r)) \in Nat
  BY <1>4, FS_CardinalityType
<1>6. QED BY <1>1, <1>4, <1>5, ExecutorAssumption

(* The final round that counts is a round of the ledger. *)
LEMMA FinalDispatchTyped ==
  ASSUME NEW l \in SoundLedgers, NEW r, FinalDispatches(l, r) # {}
  PROVE  FinalDispatch(l, r) \in Rounds
<1>1. Min(FinalDispatches(l, r)) \in FinalDispatches(l, r)
  <2>1. FinalDispatches(l, r) \subseteq Nat
    BY DEF FinalDispatches, DispatchedAt
  <2>2. QED BY <2>1, MinIsMember
<1>2. Min(FinalDispatches(l, r)) \in 1 .. Len(l.dispatched)
  BY <1>1 DEF FinalDispatches, DispatchedAt
<1>3. QED BY <1>2 DEF FinalDispatch, SoundLedgers, Ledgers

(* What a decision may ask for: the next round of the head, within the      *)
(* bound, and a head when it dispatches or merges.                          *)
SoundDecision(l, d) ==
  /\ d.round \in 0 .. MaxRounds + 1 /\ d.final \in BOOLEAN
  /\ d.kind = "remediate" => /\ l.rev \in Revs /\ d.round \in 1 .. MaxRounds + 1
                             /\ d.round = Cardinality(DispatchedAt(l, l.rev)) + 1
  /\ d.kind = "finalize-now" => l.rev \in Revs \/ l.terminal = "finalized"

(* A plain decision asks for nothing. *)
LEMMA PlainDecision ==
  ASSUME NEW kind
  PROVE  Decision(kind).kind = kind /\ Decision(kind).round = 0 /\ Decision(kind).final = FALSE
BY DEF Decision

(* A remediation round is the next one. *)
LEMMA RemediateSound ==
  ASSUME NEW l \in SoundLedgers, NEW isFinal \in BOOLEAN
  PROVE  /\ Remediate(l, isFinal).round \in 1 .. MaxRounds + 1
         /\ Remediate(l, isFinal).round = Cardinality(DispatchedAt(l, l.rev)) + 1
         /\ Remediate(l, isFinal).final \in BOOLEAN
         /\ Remediate(l, isFinal).kind = "remediate"
<1>1. Cardinality(DispatchedAt(l, l.rev)) \in 0 .. MaxRounds
  BY RoundsBounded
<1>2. Cardinality(DispatchedAt(l, l.rev)) + 1 \in 1 .. MaxRounds + 1
  BY <1>1, ExecutorAssumption
<1>3. QED BY <1>2 DEF Remediate

(* Every decision over a sound ledger is sound. *)
LEMMA EligibleSound ==
  ASSUME NEW l \in SoundLedgers
  PROVE  SoundDecision(l, Eligible(l))
<1>0. l.rev \in 0 .. MaxRev /\ (l.rev # 0 => l.rev \in Revs) /\ 0 \in 0 .. MaxRounds + 1
      /\ 1 .. MaxRounds + 1 \subseteq 0 .. MaxRounds + 1
  BY ExecutorAssumption DEF SoundLedgers, Ledgers, Revs
<1>1. \A kind : kind \notin {"remediate", "finalize-now"} => SoundDecision(l, Decision(kind))
  BY <1>0, PlainDecision DEF SoundDecision
<1>2. l.terminal = "finalized" \/ l.rev \in Revs => SoundDecision(l, Decision("finalize-now"))
  <2> DEFINE d == Decision("finalize-now")
  <2>1. d.kind = "finalize-now" /\ d.kind # "remediate" /\ d.round = 0 /\ d.final = FALSE
    BY PlainDecision
  <2> HIDE DEF d
  <2>2. d.round \in 0 .. MaxRounds + 1 /\ d.final \in BOOLEAN
    BY <1>0, <2>1
  <2>3. l.terminal = "finalized" \/ l.rev \in Revs => SoundDecision(l, d)
    BY <2>1, <2>2 DEF SoundDecision
  <2>4. QED BY <2>3 DEF d
<1>3. \A isFinal \in BOOLEAN : l.rev \in Revs => SoundDecision(l, Remediate(l, isFinal))
  BY <1>0, RemediateSound DEF SoundDecision
<1>4. l.rev \in Revs => SoundDecision(l, ExhaustedDecision(l))
  <2>1. \/ ExhaustedDecision(l) = Remediate(l, TRUE)
        \/ \E kind \in {"halt", "escalate", "wait", "finalize-now"} : ExhaustedDecision(l) = Decision(kind)
    BY DEF ExhaustedDecision
  <2>2. QED BY <1>1, <1>2, <1>3, <2>1
<1>5. l.rev \in Revs => SoundDecision(l, RevisionDecision(l))
  <2>1. \/ RevisionDecision(l) = Remediate(l, FALSE)
        \/ RevisionDecision(l) = ExhaustedDecision(l)
        \/ \E kind \in {"escalate", "wait", "finalize-now"} : RevisionDecision(l) = Decision(kind)
    BY DEF RevisionDecision
  <2>2. QED BY <1>1, <1>2, <1>3, <1>4, <2>1
<1>6. \A d : SoundDecision(l, d) => SoundDecision(l, Gate(d))
  BY <1>1 DEF Gate
<1>7. \/ l.terminal = "finalized" /\ Eligible(l) = Decision("finalize-now")
      \/ \E kind \in {"close", "escalate", "halt", "wait"} : Eligible(l) = Decision(kind)
      \/ Eligible(l) = Gate(Decision("close"))
      \/ l.rev # 0 /\ Eligible(l) = Gate(RevisionDecision(l))
  BY DEF Eligible
<1>8. QED BY <1>0, <1>1, <1>2, <1>5, <1>6, <1>7

(* A decision carried out leaves a sound executor. *)
LEMMA DecideSound ==
  ASSUME TypeInv, NEW e \in Executors, Decide(e)
  PROVE  exec' \in [Executors -> SoundTicks]
<1> DEFINE d == Eligible(led)
           x == [exec[e] EXCEPT !.pc = NextStep(d), !.rev = led.rev, !.round = d.round, !.final = d.final]
<1>1. SoundDecision(led, d) /\ led \in SoundLedgers
  BY EligibleSound DEF TypeInv
<1>2. exec[e] \in SoundTicks
  BY ExecSound DEF TypeInv
<1>3. CASE Done(e)
  BY <1>3, ExecSound DEF TypeInv
<1>4. CASE exec' = [exec EXCEPT ![e] = x] /\ NextStep(d) # "release"
  <2> HIDE DEF d
  <2>1. /\ NextStep(d) \in {"identity", "dispatch", "close", "halted", "escalated"}
        /\ NextStep(d) = "identity" => d.kind = "finalize-now" /\ led.finalized = 0
        /\ NextStep(d) = "dispatch" => d.kind = "remediate"
    <3>1. NextStep(d) \in {"identity", "dispatch", "close", "halted", "escalated"}
      BY <1>4, Zenon DEF NextStep
    <3>2. NextStep(d) = "identity" => d.kind = "finalize-now" /\ led.finalized = 0
      BY <1>4 DEF NextStep
    <3>3. NextStep(d) = "dispatch" => d.kind = "remediate"
      BY <1>4 DEF NextStep
    <3>4. QED BY <3>1, <3>2, <3>3
  <2>2. NextStep(d) = "identity" => led.rev \in Revs
    BY <1>1, <2>1 DEF SoundDecision, SoundLedgers
  <2>3. NextStep(d) = "dispatch" => led.rev \in Revs /\ d.round \in 1 .. MaxRounds + 1
    BY <1>1, <2>1 DEF SoundDecision
  <2>4. /\ NextStep(d) \in Steps /\ led.rev \in 0 .. MaxRev /\ d.round \in 0 .. MaxRounds + 1
        /\ d.final \in BOOLEAN
    BY <1>1, <2>1, StepNames DEF SoundDecision, SoundLedgers, Ledgers
  <2>5. x \in SoundTicks
    BY <1>2, <2>1, <2>2, <2>3, <2>4 DEF SoundTicks, Ticks
  <2> HIDE DEF x
  <2>6. QED BY <1>4, <2>5 DEF TypeInv
<1>5. QED BY <1>3, <1>4 DEF Decide

(* Every event folds a sound ledger into a sound ledger. *)
LEMMA LedgerOps ==
  ASSUME led \in SoundLedgers
  PROVE  /\ \A kind \in {"closed", "escalated", "halted"} : Mark(kind) \in SoundLedgers
         /\ \A r \in Revs : Finalized(r) \in SoundLedgers
         /\ \A r \in 0 .. MaxRev : [led EXCEPT !.rev = r] \in SoundLedgers
         /\ \A kind \in OverrideKinds : Overridden(kind) \in SoundLedgers
         /\ \A d \in Rounds, o \in Outcomes : Concluded(d, o) \in SoundLedgers
         /\ \A r \in Revs, x \in Roles, kind \in VerdictKinds :
              [led EXCEPT !.verdict[r][x] = kind] \in SoundLedgers
         /\ \A r \in Revs, c \in CheckKinds : [led EXCEPT !.checks[r] = c] \in SoundLedgers
         /\ [led EXCEPT !.exhausted = TRUE] \in SoundLedgers
<1> USE DEF SoundLedgers, Ledgers
<1>1. \A kind \in {"closed", "escalated", "halted"} : Mark(kind) \in SoundLedgers
  BY DEF Mark, Terminals
<1>2. \A r \in Revs : Finalized(r) \in SoundLedgers
  <2>1. \A r \in Revs : r \in 0 .. MaxRev /\ r # 0
    BY ExecutorAssumption DEF Revs
  <2>2. "finalized" \in Terminals
    BY DEF Terminals
  <2>3. QED BY <2>1, <2>2 DEF Finalized
<1>3. \A r \in 0 .. MaxRev : [led EXCEPT !.rev = r] \in SoundLedgers
  OBVIOUS
<1>4. ASSUME NEW kind \in OverrideKinds PROVE Overridden(kind) \in SoundLedgers
  <2> DEFINE t == IF led.terminal \in {"escalated", "halted"} /\ kind \in {"resume", "approve"}
                  THEN "none" ELSE led.terminal
  <2>1. t \in Terminals /\ (t = "finalized" => led.terminal = "finalized")
    BY DEF Terminals
  <2>2. Overridden(kind) = [led EXCEPT !.override = kind, !.terminal = t]
    BY DEF Overridden
  <2> HIDE DEF t
  <2>3. QED BY <2>1, <2>2
<1>5. ASSUME NEW d \in Rounds, NEW o \in Outcomes PROVE Concluded(d, o) \in SoundLedgers
  <2> DEFINE w == led.concluded[d.rev][d.round]
             v == IF w = "none" THEN o ELSE w
             c == [led.concluded EXCEPT ![d.rev] = [led.concluded[d.rev] EXCEPT ![d.round] = v]]
  <2>1. d.rev \in Revs /\ d.round \in 1 .. MaxRounds + 1
    BY DEF Rounds
  <2>2. led.concluded \in Conclusions
    OBVIOUS
  <2>a. v \in Outcomes
    BY <2>1, <2>2 DEF Conclusions
  <2>4. Concluded(d, o) = [led EXCEPT !.concluded = c]
    BY <2>1, <2>2 DEF Concluded, Conclusions
  <2> HIDE DEF v
  <2>3. c \in Conclusions
    BY <2>1, <2>2, <2>a DEF Conclusions
  <2> HIDE DEF c
  <2>5. QED BY <2>3, <2>4
<1>6. ASSUME NEW r \in Revs, NEW x \in Roles, NEW kind \in VerdictKinds
      PROVE  [led EXCEPT !.verdict[r][x] = kind] \in SoundLedgers
  <2> DEFINE v == [led.verdict EXCEPT ![r] = [@ EXCEPT ![x] = kind]]
  <2>1. led.verdict \in Verdicts
    OBVIOUS
  <2>2. v \in Verdicts
    BY <2>1 DEF Verdicts
  <2>3. [led EXCEPT !.verdict[r][x] = kind] = [led EXCEPT !.verdict = v]
    OBVIOUS
  <2> HIDE DEF v
  <2>4. QED BY <2>2, <2>3
<1>7. ASSUME NEW r \in Revs, NEW c \in CheckKinds PROVE [led EXCEPT !.checks[r] = c] \in SoundLedgers
  BY DEF CheckMaps, Checks
<1>8. [led EXCEPT !.exhausted = TRUE] \in SoundLedgers
  OBVIOUS
<1>9. QED BY <1>1, <1>2, <1>3, <1>4, <1>5, <1>6, <1>7, <1>8

(* So does a dispatch within the bound. *)
LEMMA DispatchSound ==
  ASSUME led \in SoundLedgers, NEW d \in Rounds, Len(led.dispatched) < MaxRounds \/ Dispatched(d) = led
  PROVE  /\ Dispatched(d) \in SoundLedgers
         /\ \A n \in 0 .. Patience : [Dispatched(d) EXCEPT !.finalAge[d.rev] = n] \in SoundLedgers
<1> USE DEF SoundLedgers, Ledgers
<1>1. Dispatched(d) \in SoundLedgers
  <2>1. CASE Dispatched(d) = led
    BY <2>1
  <2>2. CASE Dispatched(d) # led
    <3> DEFINE q == Append(led.dispatched, d)
    <3>1. q \in Seq(Rounds) /\ Len(q) <= MaxRounds
      BY <2>2, ExecutorAssumption
    <3>2. Dispatched(d) = [led EXCEPT !.dispatched = q]
      BY <2>2 DEF Dispatched
    <3> HIDE DEF q
    <3>3. QED BY <3>1, <3>2
  <2>3. QED BY <2>1, <2>2
<1> HIDE DEF SoundLedgers, Ledgers
<1>2. \A l \in SoundLedgers, n \in 0 .. Patience : [l EXCEPT !.finalAge[d.rev] = n] \in SoundLedgers
  BY DEF SoundLedgers, Ledgers, Ages
<1>3. QED BY <1>1, <1>2

(* So does the passing of time. *)
LEMMA ElapseSound ==
  ASSUME TypeInv, Elapse
  PROVE  led' \in SoundLedgers /\ exec' \in [Executors -> SoundTicks]
<1> DEFINE a == [r \in Revs |-> IF r <= led.rev THEN Older(led.age[r], Patience) ELSE led.age[r]]
           b == [r \in Revs |-> IF FinalDispatches(led, r) # {}
                                THEN Older(led.finalAge[r], Patience) ELSE led.finalAge[r]]
<1>1. led.age \in Ages /\ led.finalAge \in Ages /\ led \in SoundLedgers
  BY DEF TypeInv, SoundLedgers, Ledgers
<1>2. \A n \in 0 .. Patience : Older(n, Patience) \in 0 .. Patience
  BY AgeBounds, OlderBound
<1>3. a \in Ages /\ b \in Ages
  BY <1>1, <1>2 DEF Ages
<1>4. led' = [led EXCEPT !.age = a, !.finalAge = b]
  BY DEF Elapse
<1> HIDE DEF a, b
<1>5. led' \in SoundLedgers
  BY <1>1, <1>3, <1>4 DEF SoundLedgers, Ledgers
<1>6. \A x \in SoundTicks : [x EXCEPT !.since = Older(x.since, MaxAge)] \in SoundTicks
  <2>1. SUFFICES ASSUME NEW x \in SoundTicks PROVE [x EXCEPT !.since = Older(x.since, MaxAge)] \in SoundTicks
    OBVIOUS
  <2>2. Older(x.since, MaxAge) \in 0 .. MaxAge
    BY AgeBounds, OlderBound DEF SoundTicks, Ticks
  <2>3. QED BY <2>2 DEF SoundTicks, Ticks
<1>7. exec' \in [Executors -> SoundTicks]
  BY <1>6 DEF Elapse, TypeInv
<1>8. QED BY <1>5, <1>7

-----------------------------------------------------------------------------
(* Types.                                                                   *)

(* The pull request keeps its type through a merge, a push and a close. *)
LEMMA PrOps ==
  ASSUME pr \in Prs
  PROVE  /\ Merged \in Prs
         /\ [pr EXCEPT !.state = "closed"] \in Prs
         /\ pr.head < MaxRev => [pr EXCEPT !.head = pr.head + 1] \in Prs
<1>1. pr.head \in Revs /\ pr.head \in 0 .. MaxRev /\ (pr.head < MaxRev => pr.head + 1 \in Revs)
  BY ExecutorAssumption DEF Prs, Revs
<1>2. QED BY <1>1 DEF Prs, Merged

(* A failure is counted within its bound. *)
LEMMA FaultBound ==
  ASSUME faults \in 0 .. MaxFaults, Fault \/ faults' = faults
  PROVE  faults' \in 0 .. MaxFaults
BY ExecutorAssumption DEF Fault

(* The initial state is typed. *)
LEMMA TypeInvInit ==
  ASSUME Init PROVE TypeInv
<1>1. led.dispatched = <<>> /\ led.terminal = "none"
  BY DEF Init
<1>2. led \in Ledgers
  <2>1. 0 \in 0 .. MaxRev /\ 0 \in 0 .. Patience /\ "none" \in Terminals /\ "none" \in Outcomes
        /\ "absent" \in Checks /\ <<>> \in Seq(Rounds)
    BY ExecutorAssumption DEF Terminals, Outcomes, Checks
  <2>2. [r \in Revs |-> 0] \in Ages /\ [r \in Revs |-> "absent"] \in CheckMaps
    BY <2>1 DEF Ages, CheckMaps
  <2>3. [r \in Revs |-> [x \in Roles |-> "none"]] \in Verdicts
    BY DEF Verdicts
  <2>4. [r \in Revs |-> [n \in 1 .. MaxRounds + 1 |-> "none"]] \in Conclusions
    BY <2>1 DEF Conclusions
  <2>5. QED BY <2>1, <2>2, <2>3, <2>4 DEF Init, Ledgers
<1>3. led \in SoundLedgers
  BY <1>1, <1>2, ExecutorAssumption DEF SoundLedgers
<1>4. exec \in [Executors -> SoundTicks]
  BY IdleSound DEF Init
<1>5. pr \in Prs /\ events \in 0 .. MaxEvents /\ faults \in 0 .. MaxFaults
  BY ExecutorAssumption DEF Init, Prs, Revs
<1>6. QED BY <1>3, <1>4, <1>5 DEF Init, TypeInv

(* An event recorded by a producer or the operator. *)
LEMMA RecordTyped ==
  ASSUME TypeInv, NEW l \in SoundLedgers, Record(l), UNCHANGED <<lease, exec, started, brake, pr, faults>>,
         covered' \subseteq Revs
  PROVE  TypeInv'
<1>1. events' \in 0 .. MaxEvents
  BY ExecutorAssumption DEF TypeInv, Record
<1>2. QED BY <1>1 DEF TypeInv, Record

(* Every step keeps the types. *)
LEMMA TypeInvNext ==
  ASSUME TypeInv, [Next]_vars
  PROVE  TypeInv'
<1>t. /\ led \in SoundLedgers /\ exec \in [Executors -> SoundTicks] /\ pr \in Prs
      /\ faults \in 0 .. MaxFaults /\ led.dispatched \in Seq(Rounds)
  BY DEF TypeInv, SoundLedgers, Ledgers
<1>x. ASSUME NEW e \in Executors PROVE exec[e].rev \in 0 .. MaxRev
  BY <1>t DEF SoundTicks, Ticks
<1>0. CASE UNCHANGED vars
  BY <1>0 DEF vars, TypeInv
<1>1. ASSUME NEW e \in Executors, Tick(e) PROVE TypeInv'
  BY <1>1, IdleSound DEF TypeInv, Tick
<1>2. ASSUME NEW e \in Executors, Decide(e) PROVE TypeInv'
  BY <1>2, DecideSound DEF TypeInv, Decide
<1>3. ASSUME NEW e \in Executors, CheckIdentity(e) PROVE TypeInv'
  <2>1. exec' \in [Executors -> SoundTicks] /\ faults' \in 0 .. MaxFaults
    BY <1>3, <1>t, ExecSound, FaultBound DEF CheckIdentity
  <2>2. QED BY <1>3, <2>1 DEF TypeInv, CheckIdentity
<1>4. ASSUME NEW e \in Executors, Merge(e) PROVE TypeInv'
  <2>1. exec' \in [Executors -> SoundTicks] /\ faults' \in 0 .. MaxFaults
    BY <1>4, <1>t, ExecSound, FaultBound DEF Merge
  <2>2. pr' \in Prs
    BY <1>4, <1>t, PrOps DEF Merge
  <2>3. QED BY <1>4, <2>1, <2>2 DEF TypeInv, Merge
<1>5. ASSUME NEW e \in Executors, RecordFinalized(e) PROVE TypeInv'
  <2>1. exec[e].rev \in Revs
    BY <1>5, <1>t DEF RecordFinalized, SoundTicks
  <2>2. led' \in SoundLedgers /\ exec' \in [Executors -> SoundTicks]
    BY <1>5, <1>t, <2>1, LedgerOps, ExecSound DEF RecordFinalized
  <2>3. QED BY <1>5, <2>2 DEF TypeInv, RecordFinalized
<1>6. ASSUME NEW e \in Executors, Dispatch(e) PROVE TypeInv'
  <2>1. exec' \in [Executors -> SoundTicks] /\ faults' \in 0 .. MaxFaults
    BY <1>6, <1>t, ExecSound, FaultBound DEF Dispatch
  <2>2. RoundOf(e) \in Rounds
    BY <1>6, <1>t DEF Dispatch, RoundOf, SoundTicks, Ticks, Rounds
  <2>3. started' \subseteq Rounds
    BY <1>6, <2>2 DEF Dispatch, TypeInv
  <2>4. QED BY <1>6, <2>1, <2>3 DEF TypeInv, Dispatch
<1>7. ASSUME NEW e \in Executors, RecordDispatched(e) PROVE TypeInv'
  <2> DEFINE d == RoundOf(e)
             n == IF exec[e].since > Patience THEN Patience ELSE exec[e].since
  <2>1. d \in Rounds
    BY <1>7, <1>t DEF RecordDispatched, RoundOf, SoundTicks, Ticks, Rounds
  <2>2. n \in 0 .. Patience
    BY <1>t, AgeBounds DEF SoundTicks, Ticks
  <2>3. /\ Len(led.dispatched) < MaxRounds \/ Dispatched(d) = led
        /\ led' = Dispatched(d) \/ led' = [Dispatched(d) EXCEPT !.finalAge[d.rev] = n]
    BY <1>7 DEF RecordDispatched
  <2> HIDE DEF d, n
  <2>4. led' \in SoundLedgers
    BY <1>t, <2>1, <2>2, <2>3, DispatchSound
  <2>5. exec' \in [Executors -> SoundTicks]
    BY <1>7, <1>t, ExecSound DEF RecordDispatched
  <2>6. QED BY <1>7, <2>4, <2>5 DEF TypeInv, RecordDispatched
<1>8. ASSUME NEW e \in Executors, Close(e) PROVE TypeInv'
  <2>1. exec' \in [Executors -> SoundTicks] /\ faults' \in 0 .. MaxFaults
    BY <1>8, <1>t, ExecSound, FaultBound DEF Close
  <2>2. pr' \in Prs
    BY <1>8, <1>t, PrOps DEF Close
  <2>3. QED BY <1>8, <2>1, <2>2 DEF TypeInv, Close
<1>9. ASSUME NEW e \in Executors, RecordMark(e) PROVE TypeInv'
  <2>1. led' \in SoundLedgers /\ exec' \in [Executors -> SoundTicks]
    BY <1>9, <1>t, LedgerOps, ExecSound DEF RecordMark
  <2>2. QED BY <1>9, <2>1 DEF TypeInv, RecordMark
<1>10. ASSUME NEW e \in Executors, Release(e) PROVE TypeInv'
  BY <1>10, IdleSound DEF TypeInv, Release, ReleasedLease
<1>11. ASSUME NEW e \in Executors, Crash(e) PROVE TypeInv'
  <2>1. [Idle EXCEPT !.since = exec[e].since] \in SoundTicks
    BY <1>t, ExecSound, IdleSound
  <2>2. exec' \in [Executors -> SoundTicks] /\ faults' \in 0 .. MaxFaults
    BY <1>11, <1>t, <2>1, IdleSound, FaultBound DEF Crash
  <2>3. QED BY <1>11, <2>2 DEF TypeInv, Crash
<1>12. CASE RecordRevision
  <2>1. pr.head \in 0 .. MaxRev
    BY <1>t, ExecutorAssumption DEF Prs, Revs
  <2>2. QED BY <1>12, <1>t, <2>1, LedgerOps DEF TypeInv, RecordRevision
<1>13. ASSUME NEW r \in Revs, NEW x \in Roles, NEW kind \in VerdictKinds, RecordVerdict(r, x, kind)
       PROVE  TypeInv'
  <2>1. [led EXCEPT !.verdict[r][x] = kind] \in SoundLedgers
    BY <1>t, LedgerOps
  <2>2. QED BY <1>13, <2>1, RecordTyped DEF RecordVerdict, TypeInv
<1>14. ASSUME NEW r \in Revs, NEW c \in CheckKinds, RecordChecks(r, c) PROVE TypeInv'
  <2>1. [led EXCEPT !.checks[r] = c] \in SoundLedgers
    BY <1>t, LedgerOps
  <2>2. QED BY <1>14, <2>1, RecordTyped DEF RecordChecks, TypeInv
<1>15. ASSUME NEW d \in started, NEW o \in Outcomes \ {"none"}, ConcludeRemediation(d, o)
       PROVE  TypeInv'
  <2>1. d \in Rounds
    BY DEF TypeInv
  <2>2. Record(Concluded(d, o)) /\ (covered' = covered \/ covered' = covered \cup {d.rev})
        /\ UNCHANGED <<lease, exec, started, brake, pr, faults>>
    BY <1>15 DEF ConcludeRemediation
  <2>3. Concluded(d, o) \in SoundLedgers
    BY <1>t, <2>1, LedgerOps
  <2>4. covered' \subseteq Revs
    BY <2>1, <2>2 DEF TypeInv, Rounds
  <2>5. QED BY <2>2, <2>3, <2>4, RecordTyped
<1>16. CASE ExhaustBudget
  BY <1>16, <1>t, LedgerOps, RecordTyped DEF ExhaustBudget, TypeInv
<1>17. ASSUME NEW kind \in OverrideKinds, Override(kind) PROVE TypeInv'
  BY <1>17, <1>t, LedgerOps, RecordTyped DEF Override, TypeInv
<1>18. CASE SwitchBrake
  <2>1. events' \in 0 .. MaxEvents
    BY <1>18, ExecutorAssumption DEF SwitchBrake, TypeInv
  <2>2. brake' \in BOOLEAN
    BY <1>18 DEF SwitchBrake
  <2>3. QED BY <1>18, <2>1, <2>2 DEF SwitchBrake, TypeInv
<1>19. CASE Push
  <2>1. pr' \in Prs
    BY <1>19, <1>t, PrOps DEF Push
  <2>2. QED BY <1>19, <2>1 DEF Push, TypeInv
<1>20. CASE CloseByHand
  <2>1. pr' \in Prs /\ faults' \in 0 .. MaxFaults
    BY <1>20, <1>t, PrOps, FaultBound DEF CloseByHand
  <2>2. QED BY <1>20, <2>1 DEF CloseByHand, TypeInv
<1>21. CASE Elapse
  BY <1>21, ElapseSound DEF Elapse, TypeInv
<1>22. QED
  BY <1>0, <1>1, <1>2, <1>3, <1>4, <1>5, <1>6, <1>7, <1>8, <1>9, <1>10, <1>11, <1>12, <1>13, <1>14,
     <1>15, <1>16, <1>17, <1>18, <1>19, <1>20, <1>21 DEF Next, Step, Observe

(* The strengthened types hold in every reachable state. *)
LEMMA TypeInvAlways == Spec => []TypeInv
BY TypeInvInit, TypeInvNext, PTL DEF Spec

(* Every variable keeps its type, for any number of executors and heads.    *)
THEOREM TypeCorrect == Spec => []TypeOK
BY TypeInvTypes, TypeInvAlways, PTL

-----------------------------------------------------------------------------
(* The executors after a step.                                              *)

(* One executor moves on and keeps its clock, or goes back to idle; the     *)
(* others stay as they are.                                                 *)
LEMMA OthersStay ==
  ASSUME TypeInv, NEW e \in Executors, Step(e) \/ Crash(e) \/ Tick(e)
  PROVE  \A f \in Executors : f # e => exec'[f] = exec[f]
<1>1. exec \in [Executors -> SoundTicks]
  BY DEF TypeInv
<1>2. PICK x : exec' = [exec EXCEPT ![e] = x]
  <2> USE <1>1 DEF Done, To
  <2>1. CASE Step(e)
    BY <2>1 DEF Step, Decide, CheckIdentity, Merge, RecordFinalized, Dispatch,
         RecordDispatched, Close, RecordMark, Release
  <2>2. CASE Crash(e)
    BY <2>2 DEF Crash
  <2>3. CASE Tick(e)
    BY <2>3 DEF Tick
  <2>4. QED BY <2>1, <2>2, <2>3
<1>3. QED BY <1>1, <1>2

(* Ending a tick and moving on within it keep the executor's clock. *)
LEMMA ClockStays ==
  ASSUME TypeInv, NEW e \in Executors
  PROVE  /\ Done(e) => exec'[e].since = exec[e].since /\ exec'[e].pc = "release"
         /\ \A pc : To(e, pc) => /\ exec'[e].since = exec[e].since
                                 /\ exec'[e].pc = pc /\ exec'[e].rev = exec[e].rev
                                 /\ exec'[e].round = exec[e].round
<1>1. exec \in [Executors -> SoundTicks] /\ exec[e] \in Ticks
  BY DEF TypeInv, SoundTicks
<1>2. Done(e) => exec'[e].since = exec[e].since /\ exec'[e].pc = "release"
  BY <1>1 DEF Done, Idle
<1>3. ASSUME NEW pc, To(e, pc)
      PROVE  /\ exec'[e].since = exec[e].since /\ exec'[e].pc = pc
             /\ exec'[e].rev = exec[e].rev /\ exec'[e].round = exec[e].round
  BY <1>1, <1>3 DEF To, Ticks
<1>4. QED BY <1>2, <1>3

(* What a decision does to the executor that takes it. *)
LEMMA DecideEffect ==
  ASSUME TypeInv, NEW e \in Executors, Decide(e)
  PROVE  /\ exec'[e].since = exec[e].since
         /\ exec'[e].pc = NextStep(Eligible(led))
         /\ exec'[e].pc # "release" => exec'[e].rev = led.rev /\ exec'[e].round = Eligible(led).round
<1> DEFINE d == Eligible(led)
<1>1. exec \in [Executors -> SoundTicks] /\ exec[e] \in Ticks
  BY DEF TypeInv, SoundTicks
<1>2. CASE NextStep(d) = "release"
  <2>1. Done(e)
    BY <1>2 DEF Decide
  <2>2. QED BY <1>2, <2>1, ClockStays
<1>3. CASE NextStep(d) # "release"
  <2>1. exec' = [exec EXCEPT ![e] = [exec[e] EXCEPT !.pc = NextStep(d), !.rev = led.rev,
                                                    !.round = d.round, !.final = d.final]]
    BY <1>3 DEF Decide
  <2> HIDE DEF d
  <2>2. /\ exec'[e].since = exec[e].since
        /\ exec'[e].pc = NextStep(d)
        /\ exec'[e].rev = led.rev /\ exec'[e].round = d.round
    BY <1>1, <2>1 DEF Ticks
  <2>3. QED BY <2>2 DEF d
<1>4. QED BY <1>2, <1>3

-----------------------------------------------------------------------------
(* The numbers of the rounds.                                               *)

Dispatching == {"dispatch", "dispatched"}

(* Inductive: no round's number is above the count of rounds recorded at    *)
(* its head, and an executor that carries a round out decided it when no    *)
(* more of them were recorded than now.                                     *)
Numbered ==
  /\ \A i \in 1 .. Len(led.dispatched) :
       led.dispatched[i].round <= Cardinality(DispatchedAt(led, led.dispatched[i].rev))
  /\ \A e \in Executors :
       exec[e].pc \in Dispatching => exec[e].round <= Cardinality(DispatchedAt(led, exec[e].rev)) + 1

(* Only the record of a dispatch adds a round to the ledger. *)
LEMMA DispatchedSteady ==
  ASSUME TypeInv, [Next]_vars, \A e \in Executors : ~RecordDispatched(e)
  PROVE  led'.dispatched = led.dispatched
<1> USE DEF TypeInv, SoundLedgers, Ledgers
<1>0. CASE UNCHANGED vars
  BY <1>0 DEF vars
<1>1. ASSUME NEW e \in Executors, RecordFinalized(e) \/ RecordMark(e) PROVE led'.dispatched = led.dispatched
  BY <1>1 DEF RecordFinalized, RecordMark, Finalized, Mark
<1>2. ASSUME NEW e \in Executors,
             \/ Tick(e) \/ Crash(e) \/ Decide(e) \/ CheckIdentity(e) \/ Merge(e)
             \/ Dispatch(e) \/ Close(e) \/ Release(e)
      PROVE  led' = led
  BY <1>2 DEF Tick, Crash, Decide, CheckIdentity, Merge, Dispatch, Close, Release
<1>3. CASE RecordRevision
  BY <1>3 DEF RecordRevision
<1>4. ASSUME NEW r, NEW x, NEW kind, RecordVerdict(r, x, kind) PROVE led'.dispatched = led.dispatched
  BY <1>4 DEF RecordVerdict, Record
<1>5. ASSUME NEW r, NEW c, RecordChecks(r, c) PROVE led'.dispatched = led.dispatched
  BY <1>5 DEF RecordChecks, Record
<1>6. ASSUME NEW d, NEW o, ConcludeRemediation(d, o) PROVE led'.dispatched = led.dispatched
  BY <1>6 DEF ConcludeRemediation, Record, Concluded
<1>7. CASE ExhaustBudget
  BY <1>7 DEF ExhaustBudget, Record
<1>8. ASSUME NEW kind, Override(kind) PROVE led'.dispatched = led.dispatched
  BY <1>8 DEF Override, Record, Overridden
<1>9. CASE SwitchBrake \/ Push \/ CloseByHand
  BY <1>9 DEF SwitchBrake, Push, CloseByHand
<1>10. CASE Elapse
  BY <1>10 DEF Elapse
<1>11. QED
  BY <1>0, <1>1, <1>2, <1>3, <1>4, <1>5, <1>6, <1>7, <1>8, <1>9, <1>10 DEF Next, Step, Observe

(* Who carries a round out after a step carried it out before, or has just  *)
(* decided on it.                                                           *)
LEMMA DispatchingDecided ==
  ASSUME TypeInv, [Next]_vars, NEW f \in Executors, exec'[f].pc \in Dispatching
  PROVE  \/ /\ exec[f].pc \in Dispatching
            /\ exec'[f].round = exec[f].round /\ exec'[f].rev = exec[f].rev
         \/ exec'[f].round = Cardinality(DispatchedAt(led, exec'[f].rev)) + 1
<1> USE DEF Dispatching
<1>t. exec \in [Executors -> SoundTicks] /\ led \in SoundLedgers
  BY DEF TypeInv
<1>1. ASSUME NEW e \in Executors, Tick(e) \/ Step(e) \/ Crash(e), f # e
      PROVE  exec[f].pc \in Dispatching /\ exec'[f].round = exec[f].round /\ exec'[f].rev = exec[f].rev
  BY <1>1, OthersStay
<1>2. CASE Tick(f) \/ Release(f) \/ Crash(f)
  BY <1>t, <1>2 DEF Tick, Release, Crash, Idle
<1>3. CASE Decide(f)
  <2> DEFINE d == Eligible(led)
  <2>1. exec'[f].pc = NextStep(d) /\ exec'[f].pc # "release" /\ exec'[f].round = d.round
        /\ exec'[f].rev = led.rev
    BY <1>3, DecideEffect
  <2>2. SoundDecision(led, d)
    BY <1>t, EligibleSound
  <2> HIDE DEF d
  <2>3. d.kind = "remediate"
    BY <2>1 DEF NextStep
  <2>4. QED BY <2>1, <2>2, <2>3 DEF SoundDecision
<1>4. CASE CheckIdentity(f) \/ Merge(f) \/ RecordFinalized(f) \/ Dispatch(f)
           \/ RecordDispatched(f) \/ Close(f) \/ RecordMark(f)
  <2>1. \/ Done(f)
        \/ exec[f].pc = "dispatch" /\ To(f, "dispatched")
        \/ \E pc \in {"merge", "escalated", "finalize", "closed"} : To(f, pc)
    BY <1>4 DEF CheckIdentity, Merge, RecordFinalized, Dispatch, RecordDispatched, Close, RecordMark
  <2>2. QED BY <2>1, ClockStays
<1>5. CASE Elapse
  <2>1. exec[f] \in Ticks
    BY <1>t DEF SoundTicks
  <2>2. exec'[f] = exec[f] \/ exec'[f] = [exec[f] EXCEPT !.since = Older(exec[f].since, MaxAge)]
    BY <1>5 DEF Elapse
  <2>3. QED BY <2>1, <2>2 DEF Ticks
<1>6. CASE \/ Observe \/ SwitchBrake \/ Push \/ CloseByHand \/ UNCHANGED vars
           \/ \E kind \in OverrideKinds : Override(kind)
  BY <1>6 DEF Observe, RecordRevision, RecordVerdict, RecordChecks, ConcludeRemediation, ExhaustBudget,
              SwitchBrake, Push, CloseByHand, Override, vars
<1>7. QED BY <1>1, <1>2, <1>3, <1>4, <1>5, <1>6 DEF Next, Step

(* Every step keeps the numbering. *)
LEMMA NumberedNext ==
  ASSUME TypeInv, TypeInv', Numbered, [Next]_vars
  PROVE  Numbered'
<1>t. /\ led.dispatched \in Seq(Rounds) /\ Len(led.dispatched) \in Nat
      /\ led'.dispatched \in Seq(Rounds) /\ Len(led'.dispatched) \in Nat
      /\ \A f \in Executors : exec[f].round \in Nat /\ exec'[f].round \in Nat
  <2>1. \A l \in SoundLedgers : l.dispatched \in Seq(Rounds) /\ Len(l.dispatched) \in Nat
    BY DEF SoundLedgers, Ledgers
  <2>2. \A x \in SoundTicks : x.round \in Nat
    BY ExecutorAssumption DEF SoundTicks, Ticks
  <2>3. QED BY <2>1, <2>2 DEF TypeInv
<1>1. \/ led'.dispatched = led.dispatched
      \/ \E e \in Executors : /\ exec[e].pc = "dispatched"
                              /\ led'.dispatched = Append(led.dispatched, RoundOf(e))
  <2>1. ASSUME NEW e \in Executors, RecordDispatched(e)
        PROVE  \/ led'.dispatched = led.dispatched
               \/ /\ exec[e].pc = "dispatched"
                  /\ led'.dispatched = Append(led.dispatched, RoundOf(e))
    <3> DEFINE d == RoundOf(e)
               q == Append(led.dispatched, d)
               n == IF exec[e].since > Patience THEN Patience ELSE exec[e].since
    <3>1. /\ Dispatched(d) = led \/ Dispatched(d) = [led EXCEPT !.dispatched = q]
          /\ led' = Dispatched(d) \/ led' = [Dispatched(d) EXCEPT !.finalAge[d.rev] = n]
      BY <2>1 DEF RecordDispatched, Dispatched
    <3> HIDE DEF n, d, q
    <3>2. led'.dispatched = Dispatched(d).dispatched
      <4>1. CASE Dispatched(d) = led
        BY <3>1, <4>1 DEF TypeInv, SoundLedgers, Ledgers
      <4>2. CASE Dispatched(d) = [led EXCEPT !.dispatched = q]
        BY <3>1, <4>2 DEF TypeInv, SoundLedgers, Ledgers
      <4>3. QED BY <3>1, <4>1, <4>2
    <3>3. Dispatched(d).dispatched \in {led.dispatched, q}
      BY <3>1 DEF TypeInv, SoundLedgers, Ledgers
    <3>4. QED BY <2>1, <3>2, <3>3 DEF RecordDispatched, q, d
  <2>2. QED BY <2>1, DispatchedSteady
<1>c. ASSUME NEW r PROVE /\ Cardinality(DispatchedAt(led, r)) \in Nat
                         /\ Cardinality(DispatchedAt(led', r)) \in Nat
  BY RoundsBounded DEF TypeInv
<1>2. CASE led'.dispatched = led.dispatched
  <2>1. \A r : DispatchedAt(led', r) = DispatchedAt(led, r)
    BY <1>2 DEF DispatchedAt
  <2>2. ASSUME NEW f \in Executors, exec'[f].pc \in Dispatching
        PROVE  exec'[f].round <= Cardinality(DispatchedAt(led, exec'[f].rev)) + 1
    BY <1>t, <1>c, <2>2, DispatchingDecided DEF Numbered
  <2>3. QED BY <1>2, <2>1, <2>2 DEF Numbered
<1>3. ASSUME NEW e \in Executors, exec[e].pc = "dispatched",
             led'.dispatched = Append(led.dispatched, RoundOf(e))
      PROVE  Numbered'
  <2> DEFINE n == Len(led.dispatched) + 1
  <2>1. /\ Len(led'.dispatched) = n /\ led'.dispatched[n] = RoundOf(e)
        /\ \A i \in 1 .. Len(led.dispatched) : led'.dispatched[i] = led.dispatched[i]
        /\ n \notin 1 .. Len(led.dispatched) /\ 1 .. n = (1 .. Len(led.dispatched)) \cup {n}
    BY <1>t, <1>3
  <2>2. ASSUME NEW r
        PROVE  /\ RoundOf(e).rev = r \/ DispatchedAt(led', r) = DispatchedAt(led, r)
               /\ RoundOf(e).rev = r => DispatchedAt(led', r) = DispatchedAt(led, r) \cup {n}
               /\ n \notin DispatchedAt(led, r)
    BY <2>1 DEF DispatchedAt
  <2>3. ASSUME NEW r, RoundOf(e).rev = r
        PROVE  Cardinality(DispatchedAt(led', r)) = Cardinality(DispatchedAt(led, r)) + 1
    <3>1. IsFiniteSet(DispatchedAt(led, r))
      BY RoundsBounded DEF TypeInv
    <3>2. QED BY <2>2, <2>3, <3>1, FS_AddElement
  <2>4. ASSUME NEW r
        PROVE  Cardinality(DispatchedAt(led', r)) >= Cardinality(DispatchedAt(led, r))
    <3>1. CASE RoundOf(e).rev = r
      BY <1>c, <2>3, <3>1
    <3>2. CASE RoundOf(e).rev # r
      <4>1. DispatchedAt(led', r) = DispatchedAt(led, r)
        BY <2>2, <3>2
      <4>2. QED BY <1>c, <4>1
    <3>3. QED BY <3>1, <3>2
  <2>5. ASSUME NEW i \in 1 .. n
        PROVE  led'.dispatched[i].round <= Cardinality(DispatchedAt(led', led'.dispatched[i].rev))
    <3>1. CASE i = n
      <4>1. RoundOf(e).round = exec[e].round /\ RoundOf(e).rev = exec[e].rev
        BY DEF RoundOf
      <4>2. exec[e].round <= Cardinality(DispatchedAt(led, exec[e].rev)) + 1
        BY <1>3 DEF Numbered, Dispatching
      <4>3. QED BY <2>1, <2>3, <3>1, <4>1, <4>2
    <3>2. CASE i \in 1 .. Len(led.dispatched)
      <4>1. led'.dispatched[i] = led.dispatched[i] /\ led.dispatched[i].round \in Nat
        <5>1. led'.dispatched[i] = led.dispatched[i] /\ led.dispatched[i] \in Rounds
          BY <1>t, <2>1, <3>2
        <5>2. \A x \in Rounds : x.round \in Nat
          BY ExecutorAssumption DEF Rounds
        <5>3. QED BY <5>1, <5>2
      <4>2. led.dispatched[i].round <= Cardinality(DispatchedAt(led, led.dispatched[i].rev))
        BY <3>2 DEF Numbered
      <4>3. QED BY <1>c, <2>4, <4>1, <4>2
    <3>3. QED BY <2>1, <3>1, <3>2
  <2>6. ASSUME NEW f \in Executors, exec'[f].pc \in Dispatching
        PROVE  exec'[f].round <= Cardinality(DispatchedAt(led', exec'[f].rev)) + 1
    <3>1. exec'[f].round <= Cardinality(DispatchedAt(led, exec'[f].rev)) + 1
      BY <1>t, <1>c, <2>6, DispatchingDecided DEF Numbered
    <3>2. QED BY <1>t, <1>c, <2>4, <3>1
  <2> HIDE DEF n
  <2>7. QED BY <2>1, <2>5, <2>6 DEF Numbered
<1>4. QED BY <1>1, <1>2, <1>3

(* A round that is due carries a number no dispatch of its head carries,    *)
(* however many executors decide on rounds and record them late.            *)
THEOREM RoundsAreNew == Spec => []RoundIsNew
<1>1. Init => Numbered
  BY DEF Init, Numbered, Dispatching, Idle
<1>2. ASSUME TypeInv, Numbered PROVE RoundIsNew
  <2> DEFINE d == Eligible(led)
             c == Cardinality(DispatchedAt(led, led.rev))
  <2>1. SoundDecision(led, d) /\ c \in 0 .. MaxRounds /\ led \in SoundLedgers
    <3>1. led \in SoundLedgers
      BY <1>2 DEF TypeInv
    <3>2. SoundDecision(led, d)
      BY <3>1, EligibleSound
    <3>3. c \in 0 .. MaxRounds
      BY <3>1, RoundsBounded
    <3>4. QED BY <3>1, <3>2, <3>3
  <2> HIDE DEF d
  <2>2. d.kind = "remediate" => d.round = c + 1
    BY <2>1 DEF SoundDecision
  <2>3. ASSUME NEW i \in DispatchedAt(led, led.rev)
        PROVE  led.dispatched[i].round <= c /\ led.dispatched[i].round \in Nat
    <3>1. i \in 1 .. Len(led.dispatched) /\ led.dispatched[i].rev = led.rev
      BY DEF DispatchedAt
    <3>2. led.dispatched[i] \in Rounds
      BY <2>1, <3>1 DEF SoundLedgers, Ledgers
    <3>3. QED BY <1>2, <3>1, <3>2 DEF Numbered, Rounds
  <2> HIDE DEF c
  <2>4. \A i \in DispatchedAt(led, led.rev) : d.kind = "remediate" => led.dispatched[i].round # d.round
    BY <2>1, <2>2, <2>3
  <2>5. QED BY <2>4 DEF RoundIsNew, d
<1>3. Spec => []Numbered
  BY <1>1, NumberedNext, TypeInvAlways, PTL DEF Spec
<1>4. QED BY <1>2, <1>3, TypeInvAlways, PTL

-----------------------------------------------------------------------------
(* The fence of the lease.                                                  *)

(* A step of a tick that leaves the lease alone keeps the clock. *)
LEMMA StepClock ==
  ASSUME TypeInv, NEW e \in Executors, Step(e), ~Release(e)
  PROVE  exec'[e].since = exec[e].since /\ lease' = lease /\ exec[e].pc # "idle"
<1>1. CASE Decide(e)
  BY <1>1, DecideEffect DEF Decide
<1>2. CASE \/ CheckIdentity(e) \/ Merge(e) \/ RecordFinalized(e) \/ Dispatch(e)
           \/ RecordDispatched(e) \/ Close(e) \/ RecordMark(e)
  <2>1. (Done(e) \/ \E pc : To(e, pc)) /\ lease' = lease /\ exec[e].pc # "idle"
    BY <1>2 DEF CheckIdentity, Merge, RecordFinalized, Dispatch, RecordDispatched, Close, RecordMark
  <2>2. QED BY <2>1, ClockStays
<1>3. QED BY <1>1, <1>2 DEF Step

(* The fence holds after every step. *)
LEMMA FenceNext ==
  ASSUME TypeInv, LeaseFence, [Next]_vars
  PROVE  LeaseFence'
<1> USE DEF LeaseFence, InFlight
<1>t. exec \in [Executors -> SoundTicks] /\ \A e \in Executors : exec[e].since \in 0 .. MaxAge
  BY ExecSound DEF TypeInv
<1>1. CASE UNCHANGED <<exec, lease>>
  BY <1>1
<1>2. ASSUME NEW e \in Executors, Tick(e) PROVE LeaseFence'
  <2>1. \A f \in Executors : f # e => exec'[f] = exec[f]
    BY <1>2, OthersStay
  <2>2. lease' = e /\ (lease = NoExecutor \/ LeaseExpired)
    BY <1>2 DEF Tick
  <2>3. ASSUME NEW f \in Executors, f # e, exec[f].pc # "idle" PROVE exec[f].since >= Ttl
    BY <2>2, <2>3, ExecutorAssumption DEF LeaseExpired
  <2>4. QED BY <2>1, <2>2, <2>3
<1>3. ASSUME NEW e \in Executors, Release(e) PROVE LeaseFence'
  <2>1. \A f \in Executors : f # e => exec'[f] = exec[f]
    BY <1>3, OthersStay DEF Step
  <2>2. exec'[e].pc = "idle"
    BY <1>3, <1>t DEF Release, Idle
  <2>3. lease' = lease \/ lease = e
    BY <1>3 DEF Release, ReleasedLease
  <2>4. QED BY <2>1, <2>2, <2>3
<1>4. ASSUME NEW e \in Executors, Step(e), ~Release(e) PROVE LeaseFence'
  <2>1. \A f \in Executors : f # e => exec'[f] = exec[f]
    BY <1>4, OthersStay
  <2>2. exec'[e].since = exec[e].since /\ lease' = lease /\ exec[e].pc # "idle"
    BY <1>4, StepClock
  <2>3. QED BY <2>1, <2>2
<1>5. ASSUME NEW e \in Executors, Crash(e) PROVE LeaseFence'
  <2>1. \A f \in Executors : f # e => exec'[f] = exec[f]
    BY <1>5, OthersStay
  <2>2. exec'[e].pc = "idle" /\ lease' = lease
    BY <1>5, <1>t DEF Crash, Idle
  <2>3. QED BY <2>1, <2>2
<1>6. CASE Elapse
  <2>1. SUFFICES ASSUME NEW e \in Executors, exec'[e].pc # "idle", lease' # e PROVE exec'[e].since >= Ttl
    OBVIOUS
  <2>2. lease' = lease /\ exec[e] \in Ticks
    BY <1>6, <1>t DEF Elapse, SoundTicks
  <2>3. exec'[e] = exec[e] \/ exec'[e] = [exec[e] EXCEPT !.since = Older(exec[e].since, MaxAge)]
    BY <1>6 DEF Elapse
  <2>4. exec'[e].pc = exec[e].pc /\ exec'[e].since \in {exec[e].since, Older(exec[e].since, MaxAge)}
    BY <2>2, <2>3 DEF Ticks
  <2>5. exec[e].since >= Ttl
    BY <2>1, <2>2, <2>4
  <2>6. Older(exec[e].since, MaxAge) >= exec[e].since /\ Older(exec[e].since, MaxAge) \in Nat
    BY <1>t, AgeBounds, OlderBound
  <2>7. QED BY <1>t, <2>4, <2>5, <2>6, AgeBounds
<1>7. CASE Observe \/ (\E kind \in OverrideKinds : Override(kind)) \/ SwitchBrake \/ Push \/ CloseByHand
  <2>1. UNCHANGED <<exec, lease>>
    BY <1>7 DEF Observe, RecordRevision, RecordVerdict, RecordChecks, ConcludeRemediation, ExhaustBudget,
         Override, SwitchBrake, Push, CloseByHand
  <2>2. QED BY <1>1, <2>1
<1>8. CASE UNCHANGED vars
  BY <1>1, <1>8 DEF vars
<1>9. QED BY <1>2, <1>3, <1>4, <1>5, <1>6, <1>7, <1>8 DEF Next

(* An executor that acts without the lease row has outlived its deadline:   *)
(* no steal, no late release and no crash takes a live lease away.          *)
THEOREM LeaseIsFenced == Spec => []LeaseFence
<1>1. Init => LeaseFence
  BY DEF Init, LeaseFence, InFlight, Idle
<1>2. QED BY <1>1, FenceNext, TypeInvAlways, PTL DEF Spec

-----------------------------------------------------------------------------
(* What a merge and its record rest on.                                     *)

(* Inductive: what is clean and green was seen so; an executor on its way   *)
(* to a merge decided at a head that may land; one about to record it sees  *)
(* the pull request merged there.                                           *)
LandInv ==
  /\ \A r \in Revs : Clears(led, r) => r \in cleared
  /\ \A e \in Executors :
       /\ exec[e].pc \in {"identity", "merge", "finalize"} => Landable(exec[e].rev)
       /\ exec[e].pc = "finalize" => pr.state = "merged" /\ pr.merged = exec[e].rev
  /\ FinalizedIsMerged
  /\ pr.merged # 0 => Landable(pr.merged)

(* An event that records no finalization takes no completed round back. *)
Keeps(l) ==
  /\ l.finalized = led.finalized
  /\ \A r \in Revs, n \in 1 .. MaxRounds + 1 :
       led.concluded[r][n] = "completed" => l.concluded[r][n] = "completed"

SameEvidence(l) ==
  l.verdict = led.verdict /\ l.checks = led.checks /\ l.override = led.override

(* The events of the executors and of time leave the evidence alone. *)
LEMMA ExecutorEvents ==
  ASSUME led \in SoundLedgers
  PROVE  /\ Keeps(led) /\ SameEvidence(led)
         /\ \A kind : Keeps(Mark(kind)) /\ SameEvidence(Mark(kind))
         /\ \A d, n : /\ Keeps(Dispatched(d)) /\ SameEvidence(Dispatched(d))
                      /\ Keeps([Dispatched(d) EXCEPT !.finalAge[d.rev] = n])
                      /\ SameEvidence([Dispatched(d) EXCEPT !.finalAge[d.rev] = n])
         /\ \A r : Keeps([led EXCEPT !.rev = r]) /\ SameEvidence([led EXCEPT !.rev = r])
         /\ \A a, b : /\ Keeps([led EXCEPT !.age = a, !.finalAge = b])
                      /\ SameEvidence([led EXCEPT !.age = a, !.finalAge = b])
         /\ \A r : SameEvidence(Finalized(r)) /\ Finalized(r).concluded = led.concluded
                    /\ Finalized(r).finalized = r
<1> USE DEF Keeps, SameEvidence, SoundLedgers, Ledgers
<1>1. \A kind : Keeps(Mark(kind)) /\ SameEvidence(Mark(kind))
  BY DEF Mark
<1>2. \A d : Dispatched(d) = led \/ Dispatched(d) = [led EXCEPT !.dispatched = Append(led.dispatched, d)]
  BY DEF Dispatched
<1>3. \A q : Keeps([led EXCEPT !.dispatched = q]) /\ SameEvidence([led EXCEPT !.dispatched = q])
  OBVIOUS
<1>4. \A d : Keeps(Dispatched(d)) /\ SameEvidence(Dispatched(d))
  BY <1>2, <1>3
<1>5. ASSUME NEW d, NEW n
      PROVE  /\ Keeps([Dispatched(d) EXCEPT !.finalAge[d.rev] = n])
             /\ SameEvidence([Dispatched(d) EXCEPT !.finalAge[d.rev] = n])
  <2>1. CASE Dispatched(d) = led
    BY <2>1
  <2>2. CASE Dispatched(d) = [led EXCEPT !.dispatched = Append(led.dispatched, d)]
    BY <2>2
  <2>3. QED BY <1>2, <2>1, <2>2
<1>6. \A r : Keeps([led EXCEPT !.rev = r]) /\ SameEvidence([led EXCEPT !.rev = r])
  OBVIOUS
<1>7. \A a, b : /\ Keeps([led EXCEPT !.age = a, !.finalAge = b])
               /\ SameEvidence([led EXCEPT !.age = a, !.finalAge = b])
  OBVIOUS
<1>8. \A r : SameEvidence(Finalized(r)) /\ Finalized(r).concluded = led.concluded
             /\ Finalized(r).finalized = r
  BY DEF Finalized
<1>9. Keeps(led) /\ SameEvidence(led)
  OBVIOUS
<1>10. QED BY <1>1, <1>4, <1>5, <1>6, <1>7, <1>8, <1>9

(* So do those of the producers and the operator to what is completed. *)
LEMMA ProducerEvents ==
  ASSUME led \in SoundLedgers
  PROVE  /\ \A kind : Keeps(Overridden(kind))
         /\ \A d \in Rounds : \A o : Keeps(Concluded(d, o))
         /\ \A r, x, kind : Keeps([led EXCEPT !.verdict[r][x] = kind])
         /\ \A r, c : Keeps([led EXCEPT !.checks[r] = c])
         /\ Keeps([led EXCEPT !.exhausted = TRUE])
<1> USE DEF Keeps, SoundLedgers, Ledgers
<1>1. \A kind : Keeps(Overridden(kind))
  BY DEF Overridden
<1>2. ASSUME NEW d \in Rounds, NEW o PROVE Keeps(Concluded(d, o))
  <2> DEFINE w == led.concluded[d.rev][d.round]
             v == IF w = "none" THEN o ELSE w
             c == [led.concluded EXCEPT ![d.rev] = [led.concluded[d.rev] EXCEPT ![d.round] = v]]
  <2>1. d.rev \in Revs /\ d.round \in 1 .. MaxRounds + 1 /\ led.concluded \in Conclusions
    BY DEF Rounds
  <2>2. Concluded(d, o) = [led EXCEPT !.concluded = c]
    BY <2>1 DEF Concluded, Conclusions
  <2>3. v = w \/ w # "completed"
    OBVIOUS
  <2> HIDE DEF v
  <2>4. \A r \in Revs, n \in 1 .. MaxRounds + 1 : led.concluded[r][n] = "completed" => c[r][n] = "completed"
    BY <2>1, <2>3 DEF Conclusions
  <2> HIDE DEF c
  <2>5. QED BY <2>2, <2>4
<1>3. \A r, x, kind : Keeps([led EXCEPT !.verdict[r][x] = kind])
  OBVIOUS
<1>4. \A r, c : Keeps([led EXCEPT !.checks[r] = c])
  OBVIOUS
<1>5. Keeps([led EXCEPT !.exhausted = TRUE])
  OBVIOUS
<1>6. QED BY <1>1, <1>2, <1>3, <1>4, <1>5

(* The same evidence clears the same heads. *)
LEMMA SameClears ==
  ASSUME NEW l, SameEvidence(l), NEW r
  PROVE  Clears(l, r) <=> Clears(led, r)
BY DEF SameEvidence, Clears, EvidenceMissing, NeedsRemediation, Disposition, ChecksConclusive

(* What may land may land after a step that keeps the ledger. *)
LEMMA LandableStays ==
  ASSUME cleared \subseteq cleared', Keeps(led'), NEW r \in Revs, Landable(r)
  PROVE  Landable(r)'
BY DEF Landable, Keeps

(* An executor that sets out to merge decided at a head that may land. *)
LEMMA DecidedIsLandable ==
  ASSUME TypeInv, LandInv, NextStep(Eligible(led)) = "identity"
  PROVE  Landable(led.rev)
<1>t. led \in SoundLedgers /\ led.rev \in 0 .. MaxRev
  BY DEF TypeInv, SoundLedgers, Ledgers
<1>k. \A kind : Decision(kind).kind = kind
  BY PlainDecision
<1>1. Eligible(led).kind = "finalize-now" /\ led.finalized = 0 /\ led.terminal # "finalized"
  <2>1. Eligible(led).kind = "finalize-now" /\ led.finalized = 0
    BY DEF NextStep
  <2>2. QED BY <1>t, <2>1 DEF SoundLedgers
<1>2. led.rev # 0 /\ Eligible(led) = Gate(RevisionDecision(led))
  <2>1. \/ \E kind \in {"close", "escalate", "halt", "wait"} : Eligible(led) = Decision(kind)
        \/ Eligible(led) = Gate(Decision("close"))
        \/ led.rev # 0 /\ Eligible(led) = Gate(RevisionDecision(led))
    BY <1>1 DEF Eligible
  <2>2. Gate(Decision("close")).kind \in {"close", "escalate"}
    BY <1>k DEF Gate
  <2>3. QED BY <1>1, <1>k, <2>1, <2>2
<1>3. led.rev \in Revs
  BY <1>t, <1>2, ExecutorAssumption DEF Revs
<1>4. RevisionDecision(led).kind = "finalize-now"
  BY <1>1, <1>2, <1>k DEF Gate
<1>5. CASE ~EvidenceMissing(led, led.rev) /\ ~NeedsRemediation(led, led.rev)
  BY <1>3, <1>5 DEF LandInv, Clears, Landable
<1>6. CASE EvidenceMissing(led, led.rev)
  BY <1>4, <1>6, <1>k DEF RevisionDecision
<1>7. CASE ~EvidenceMissing(led, led.rev) /\ NeedsRemediation(led, led.rev)
  <2>1. \A isFinal : Remediate(led, isFinal).kind = "remediate"
    BY DEF Remediate
  <2>2. ExhaustedDecision(led).kind = "finalize-now"
    BY <1>4, <1>7, <2>1 DEF RevisionDecision
  <2>3. /\ FinalDispatches(led, led.rev) # {}
        /\ led.concluded[led.rev][FinalDispatch(led, led.rev).round] = "completed"
    BY <1>k, <2>1, <2>2 DEF ExhaustedDecision
  <2>4. FinalDispatch(led, led.rev).round \in 1 .. MaxRounds + 1
    BY <1>t, <2>3, FinalDispatchTyped DEF Rounds
  <2>5. QED BY <2>3, <2>4 DEF Landable
<1>8. QED BY <1>5, <1>6, <1>7

(* A step that moves no executor to a merge and leaves the pull request     *)
(* where it is merged.                                                      *)
LEMMA LandStays ==
  ASSUME TypeInv, TypeInv', LandInv, cleared \subseteq cleared', Keeps(led'),
         \A r \in Revs : Clears(led, r)' => r \in cleared',
         \A e \in Executors : \/ exec'[e].pc \notin {"identity", "merge", "finalize"}
                              \/ exec'[e].pc = exec[e].pc /\ exec'[e].rev = exec[e].rev
                              \/ /\ exec'[e].pc = "merge" /\ exec[e].pc = "identity"
                                 /\ exec'[e].rev = exec[e].rev,
         pr'.merged = pr.merged, pr.state = "merged" => pr'.state = "merged"
  PROVE  LandInv'
<1>1. \A r \in Revs : Landable(r) => Landable(r)'
  BY LandableStays
<1>2. \A e \in Executors : exec[e].pc \in {"identity", "merge", "finalize"} => exec[e].rev \in Revs
  BY DEF TypeInv, SoundTicks
<1>r. \A r \in Revs : (r \in cleared \/ \E n \in 1 .. MaxRounds + 1 : led.concluded[r][n] = "completed")
                     => (r \in cleared' \/ \E n \in 1 .. MaxRounds + 1 : led'.concluded[r][n] = "completed")
  BY <1>1 DEF Landable
<1>3. ASSUME NEW e \in Executors, exec'[e].pc \in {"identity", "merge", "finalize"}
      PROVE  /\ Landable(exec[e].rev)'
             /\ exec'[e].pc = "finalize" => pr'.state = "merged" /\ pr'.merged = exec'[e].rev
  <2>1. exec'[e].rev = exec[e].rev /\ exec[e].pc \in {"identity", "merge", "finalize"}
        /\ (exec'[e].pc = "finalize" => exec[e].pc = "finalize")
    BY <1>3
  <2>2. exec[e].rev \in Revs /\ Landable(exec[e].rev)
    BY <1>2, <2>1 DEF LandInv
  <2>3. QED BY <1>r, <2>1, <2>2 DEF LandInv, Landable
<1>4. FinalizedIsMerged'
  BY DEF LandInv, FinalizedIsMerged, Keeps
<1>5. ASSUME pr'.merged # 0 PROVE Landable(pr.merged)'
  <2>1. pr.merged \in Revs
    BY <1>5, ExecutorAssumption DEF TypeInv, Prs, Revs
  <2>2. QED BY <1>5, <1>r, <2>1 DEF LandInv, Landable
<1>6. QED BY <1>3, <1>4, <1>5 DEF LandInv

(* A merge keeps what it rests on: it lands at the head that was decided,   *)
(* or finds it landed there.                                                *)
LEMMA MergeLands ==
  ASSUME TypeInv, TypeInv', LandInv, NEW e \in Executors, Merge(e)
  PROVE  LandInv'
<1>1. UNCHANGED <<led, cleared>> /\ \A f \in Executors : f # e => exec'[f] = exec[f]
  BY OthersStay DEF Merge, Step
<1>2. Keeps(led') /\ cleared \subseteq cleared' /\ \A r \in Revs : Clears(led, r)' => r \in cleared'
  BY <1>1 DEF Keeps, LandInv
<1>3. exec[e].rev \in Revs /\ Landable(exec[e].rev) /\ exec[e].pc = "merge"
  BY DEF Merge, TypeInv, SoundTicks, LandInv
<1>4. CASE pr' = pr /\ (Done(e) \/ To(e, "escalated"))
  <2>1. exec'[e].pc \in {"release", "escalated"}
    BY <1>4, ClockStays
  <2>2. QED BY <1>1, <1>2, <1>4, <2>1, LandStays
<1>5. CASE \/ MergeApplies(exec[e].rev) /\ pr' = Merged
           \/ MergedAlready(exec[e].rev) /\ pr' = pr /\ To(e, "finalize")
  <2>1. Done(e) \/ To(e, "finalize")
    BY <1>5 DEF Merge, MergeApplies, MergedAlready, Merged, TypeInv, Prs
  <2>2. exec'[e].pc = "release" \/ (exec'[e].pc = "finalize" /\ exec'[e].rev = exec[e].rev)
    <3>1. CASE Done(e)
      BY <3>1, ClockStays
    <3>2. CASE To(e, "finalize")
      BY <3>2, ClockStays
    <3>3. QED BY <2>1, <3>1, <3>2
  <2>3. pr'.state = "merged" /\ pr'.merged = exec[e].rev
    BY <1>5 DEF MergeApplies, MergedAlready, Merged, TypeInv, Prs
  <2>4. pr.state = "merged" => pr' = pr
    BY <1>5 DEF MergeApplies
  <2>5. FinalizedIsMerged'
    BY <1>1, <2>4 DEF LandInv, FinalizedIsMerged
  <2>6. ASSUME NEW f \in Executors
        PROVE  /\ exec'[f].pc \in {"identity", "merge", "finalize"} => Landable(exec[f].rev)'
               /\ exec'[f].pc = "finalize" => pr'.state = "merged" /\ pr'.merged = exec'[f].rev
    <3>1. CASE f = e
      BY <1>1, <1>3, <2>2, <2>3, <3>1 DEF Landable
    <3>2. CASE f # e
      BY <1>1, <2>3, <2>4, <3>2 DEF LandInv, Landable
    <3>3. QED BY <3>1, <3>2
  <2>7. Landable(pr.merged)'
    BY <1>1, <1>3, <2>3 DEF Landable
  <2>8. QED BY <1>2, <2>5, <2>6, <2>7 DEF LandInv
<1>6. QED BY <1>4, <1>5 DEF Merge

(* Recording a finalization records the merge that was seen. *)
LEMMA RecordLands ==
  ASSUME TypeInv, TypeInv', LandInv, NEW e \in Executors, RecordFinalized(e)
  PROVE  LandInv'
<1>1. UNCHANGED <<pr, cleared>> /\ \A f \in Executors : f # e => exec'[f] = exec[f]
  BY OthersStay DEF RecordFinalized, Step
<1>2. exec'[e].pc = "release"
  BY ClockStays DEF RecordFinalized
<1>3. /\ SameEvidence(led') /\ led'.concluded = led.concluded /\ led'.finalized = exec[e].rev
  BY ExecutorEvents DEF RecordFinalized, TypeInv
<1>4. \A r \in Revs : Clears(led', r) => r \in cleared'
  BY <1>1, <1>3, SameClears DEF LandInv
<1>5. pr.state = "merged" /\ pr.merged = exec[e].rev
  BY DEF RecordFinalized, LandInv
<1>6. FinalizedIsMerged'
  BY <1>1, <1>3, <1>5 DEF FinalizedIsMerged
<1>7. QED BY <1>1, <1>2, <1>3, <1>4, <1>6 DEF LandInv, Landable

(* A recorded event clears what it makes clean and green. *)
LEMMA RecordedStays ==
  ASSUME TypeInv, TypeInv', LandInv, NEW l, Record(l), Keeps(l), UNCHANGED <<exec, pr>>
  PROVE  LandInv'
<1>1. cleared \subseteq cleared' /\ led' = l /\ \A r \in Revs : Clears(led', r) => r \in cleared'
  BY DEF Record
<1>2. QED BY <1>1, LandStays

(* Every step keeps what merges and their records rest on. *)
LEMMA LandInvNext ==
  ASSUME TypeInv, TypeInv', LandInv, [Next]_vars
  PROVE  LandInv'
<1>t. led \in SoundLedgers /\ exec \in [Executors -> SoundTicks] /\ led.dispatched \in Seq(Rounds)
  BY DEF TypeInv, SoundLedgers, Ledgers
<1>k. ASSUME cleared' = cleared, SameEvidence(led')
      PROVE  cleared \subseteq cleared' /\ \A r \in Revs : Clears(led', r) => r \in cleared'
  BY <1>k, SameClears DEF LandInv
<1>u. Keeps(led) /\ SameEvidence(led)
  BY <1>t, ExecutorEvents
<1>s. ASSUME UNCHANGED <<led, cleared>> PROVE
        cleared \subseteq cleared' /\ Keeps(led') /\ \A r \in Revs : Clears(led', r) => r \in cleared'
  <2>1. Keeps(led') /\ SameEvidence(led')
    BY <1>s, <1>u
  <2>2. QED BY <1>k, <1>s, <2>1
<1>0. CASE UNCHANGED vars
  BY <1>0, <1>s, LandStays DEF vars
<1>1. ASSUME NEW e \in Executors, Tick(e) PROVE LandInv'
  <2>1. UNCHANGED <<led, cleared, pr>> /\ \A f \in Executors : f # e => exec'[f] = exec[f]
    BY <1>1, OthersStay DEF Tick
  <2>2. exec'[e].pc = "leased"
    BY <1>1, <1>t DEF Tick, Idle
  <2>3. QED BY <1>s, <2>1, <2>2, LandStays
<1>2. ASSUME NEW e \in Executors, Decide(e) PROVE LandInv'
  <2>1. UNCHANGED <<led, cleared, pr>> /\ \A f \in Executors : f # e => exec'[f] = exec[f]
    BY <1>2, OthersStay DEF Decide, Step
  <2>2. exec'[e].pc = NextStep(Eligible(led)) /\ (exec'[e].pc # "release" => exec'[e].rev = led.rev)
    BY <1>2, DecideEffect
  <2>3. CASE NextStep(Eligible(led)) = "identity"
    <3>1. Landable(led.rev)
      BY <2>3, DecidedIsLandable
    <3>2. exec'[e].pc = "identity" /\ exec'[e].rev = led.rev
      BY <2>2, <2>3
    <3>3. QED BY <2>1, <3>1, <3>2 DEF LandInv, Landable, FinalizedIsMerged
  <2>4. CASE NextStep(Eligible(led)) # "identity"
    <3>1. exec'[e].pc \notin {"identity", "merge", "finalize"}
      BY <2>2, <2>4 DEF NextStep
    <3>2. QED BY <1>s, <2>1, <3>1, LandStays
  <2>5. QED BY <2>3, <2>4
<1>3. ASSUME NEW e \in Executors, CheckIdentity(e) PROVE LandInv'
  <2>1. UNCHANGED <<led, cleared, pr>> /\ \A f \in Executors : f # e => exec'[f] = exec[f]
    BY <1>3, OthersStay DEF CheckIdentity, Step
  <2>2. \/ exec'[e].pc = "merge" /\ exec'[e].rev = exec[e].rev /\ exec[e].pc = "identity"
        \/ exec'[e].pc \in {"release", "escalated"}
    BY <1>3, ClockStays DEF CheckIdentity
  <2>3. QED BY <1>s, <2>1, <2>2, LandStays
<1>4. ASSUME NEW e \in Executors, Dispatch(e) PROVE LandInv'
  <2>1. UNCHANGED <<led, cleared, pr>> /\ \A f \in Executors : f # e => exec'[f] = exec[f]
    BY <1>4, OthersStay DEF Dispatch, Step
  <2>2. exec'[e].pc \in {"release", "dispatched"}
    BY <1>4, ClockStays DEF Dispatch
  <2>3. QED BY <1>s, <2>1, <2>2, LandStays
<1>5. ASSUME NEW e \in Executors, RecordDispatched(e) PROVE LandInv'
  <2>1. UNCHANGED <<cleared, pr>> /\ \A f \in Executors : f # e => exec'[f] = exec[f]
    BY <1>5, OthersStay DEF RecordDispatched, Step
  <2>2. exec'[e].pc = "release"
    BY <1>5, ClockStays DEF RecordDispatched
  <2>3. Keeps(led') /\ SameEvidence(led')
    BY <1>5, <1>t, ExecutorEvents DEF RecordDispatched
  <2>4. QED BY <1>k, <2>1, <2>2, <2>3, LandStays
<1>6. ASSUME NEW e \in Executors, Close(e) PROVE LandInv'
  <2>1. UNCHANGED <<led, cleared>> /\ \A f \in Executors : f # e => exec'[f] = exec[f]
    BY <1>6, OthersStay DEF Close, Step
  <2>2. exec'[e].pc \in {"release", "closed"}
    BY <1>6, ClockStays DEF Close
  <2>3. pr'.merged = pr.merged /\ (pr.state = "merged" => pr'.state = "merged")
    BY <1>6 DEF Close, TypeInv, Prs
  <2>4. QED BY <1>s, <2>1, <2>2, <2>3, LandStays
<1>7. ASSUME NEW e \in Executors, RecordMark(e) PROVE LandInv'
  <2>1. UNCHANGED <<cleared, pr>> /\ \A f \in Executors : f # e => exec'[f] = exec[f]
    BY <1>7, OthersStay DEF RecordMark, Step
  <2>2. exec'[e].pc = "release"
    BY <1>7, ClockStays DEF RecordMark
  <2>3. Keeps(led') /\ SameEvidence(led')
    BY <1>7, <1>t, ExecutorEvents DEF RecordMark
  <2>4. QED BY <1>k, <2>1, <2>2, <2>3, LandStays
<1>8. ASSUME NEW e \in Executors, Release(e) \/ Crash(e) PROVE LandInv'
  <2>1. UNCHANGED <<led, cleared, pr>> /\ \A f \in Executors : f # e => exec'[f] = exec[f]
    BY <1>8, OthersStay DEF Release, Crash, Step
  <2>2. exec'[e].pc = "idle"
    BY <1>8, <1>t DEF Release, Crash, Idle
  <2>3. QED BY <1>s, <2>1, <2>2, LandStays
<1>9. CASE RecordRevision
  <2>1. Keeps(led') /\ SameEvidence(led') /\ UNCHANGED <<exec, cleared, pr>>
    BY <1>9, <1>t, ExecutorEvents DEF RecordRevision
  <2>2. QED BY <1>k, <2>1, LandStays
<1>10. ASSUME NEW r \in Revs, NEW x \in Roles, NEW kind \in VerdictKinds, RecordVerdict(r, x, kind)
       PROVE  LandInv'
  BY <1>10, <1>t, ProducerEvents, RecordedStays DEF RecordVerdict
<1>11. ASSUME NEW r \in Revs, NEW c \in CheckKinds, RecordChecks(r, c) PROVE LandInv'
  BY <1>11, <1>t, ProducerEvents, RecordedStays DEF RecordChecks
<1>12. ASSUME NEW d \in started, NEW o \in Outcomes \ {"none"}, ConcludeRemediation(d, o)
       PROVE  LandInv'
  <2>1. d \in Rounds
    BY DEF TypeInv
  <2>2. Record(Concluded(d, o)) /\ UNCHANGED <<exec, pr>>
    BY <1>12 DEF ConcludeRemediation
  <2>3. Keeps(Concluded(d, o))
    BY <1>t, <2>1, ProducerEvents
  <2>4. QED BY <2>2, <2>3, RecordedStays
<1>13. CASE ExhaustBudget
  BY <1>13, <1>t, ProducerEvents, RecordedStays DEF ExhaustBudget
<1>14. ASSUME NEW kind \in OverrideKinds, Override(kind) PROVE LandInv'
  BY <1>14, <1>t, ProducerEvents, RecordedStays DEF Override
<1>15. CASE SwitchBrake \/ Push \/ CloseByHand
  <2>1. UNCHANGED <<led, cleared, exec>>
    BY <1>15 DEF SwitchBrake, Push, CloseByHand
  <2>2. pr'.merged = pr.merged /\ (pr.state = "merged" => pr'.state = "merged")
    BY <1>15 DEF SwitchBrake, Push, CloseByHand, TypeInv, Prs
  <2>3. QED BY <1>s, <2>1, <2>2, LandStays
<1>16. CASE Elapse
  <2>1. UNCHANGED <<cleared, pr>> /\ \E a, b : led' = [led EXCEPT !.age = a, !.finalAge = b]
    BY <1>16 DEF Elapse
  <2>2. Keeps(led') /\ SameEvidence(led')
    <3>1. PICK a, b : led' = [led EXCEPT !.age = a, !.finalAge = b]
      BY <2>1
    <3>2. Keeps([led EXCEPT !.age = a, !.finalAge = b]) /\ SameEvidence([led EXCEPT !.age = a, !.finalAge = b])
      BY <1>t, ExecutorEvents
    <3>3. QED BY <3>1, <3>2
  <2>3. ASSUME NEW e \in Executors PROVE exec'[e].pc = exec[e].pc /\ exec'[e].rev = exec[e].rev
    <3>1. exec[e] \in Ticks
      BY <1>t DEF SoundTicks
    <3>2. exec'[e] = exec[e] \/ exec'[e] = [exec[e] EXCEPT !.since = Older(exec[e].since, MaxAge)]
      BY <1>16 DEF Elapse
    <3>3. QED BY <3>1, <3>2 DEF Ticks
  <2>4. QED BY <1>k, <2>1, <2>2, <2>3, LandStays
<1>17. QED
  BY <1>0, <1>1, <1>2, <1>3, <1>4, <1>5, <1>6, <1>7, <1>8, <1>9, <1>10, <1>11, <1>12, <1>13, <1>14,
     <1>15, <1>16, MergeLands, RecordLands DEF Next, Step, Observe

(* Nothing is clean, merged or recorded at first. *)
LEMMA LandInvInit ==
  ASSUME Init PROVE LandInv
<1>1. \A r \in Revs : ~Clears(led, r)
  BY DEF Init, Clears, EvidenceMissing, ChecksConclusive
<1>2. \A e \in Executors : exec[e].pc = "idle"
  BY DEF Init, Idle
<1>3. led.finalized = 0 /\ pr.merged = 0
  BY DEF Init
<1>4. QED BY <1>1, <1>2, <1>3 DEF LandInv, FinalizedIsMerged

(* It holds in every reachable state. *)
LEMMA LandInvAlways == Spec => []LandInv
BY LandInvInit, LandInvNext, TypeInvAlways, PTL DEF Spec

(* A finalized event names the revision that was really merged. *)
THEOREM FinalizationIsMerge == Spec => []FinalizedIsMerged
<1>1. LandInv => FinalizedIsMerged
  BY DEF LandInv
<1>2. QED BY <1>1, LandInvAlways, PTL

(* The merged head was itself clean and green, or a round dispatched for it *)
(* completed.                                                               *)
THEOREM MergeIsCleared == Spec => []MergedIsCleared
<1>1. LandInv => MergedIsCleared
  BY DEF LandInv, Landable, MergedIsCleared
<1>2. QED BY <1>1, LandInvAlways, PTL

(* No event but a finalization touches the finalized revision. *)
LEMMA FinalizedSteady ==
  ASSUME TypeInv, Next, \A e \in Executors : ~RecordFinalized(e)
  PROVE  led'.finalized = led.finalized
<1>t. led \in SoundLedgers /\ led.dispatched \in Seq(Rounds)
  BY DEF TypeInv, SoundLedgers, Ledgers
<1>k. Keeps(led') => led'.finalized = led.finalized
  BY DEF Keeps
<1>2. ASSUME NEW e \in Executors, RecordDispatched(e) PROVE Keeps(led')
  BY <1>2, <1>t, ExecutorEvents DEF RecordDispatched
<1>3. ASSUME NEW e \in Executors, RecordMark(e) PROVE Keeps(led')
  BY <1>3, <1>t, ExecutorEvents DEF RecordMark
<1>4. ASSUME NEW e \in Executors,
             \/ Tick(e) \/ Crash(e) \/ Decide(e) \/ CheckIdentity(e) \/ Merge(e)
             \/ Dispatch(e) \/ Close(e) \/ Release(e)
      PROVE  led' = led
  BY <1>4 DEF Tick, Crash, Decide, CheckIdentity, Merge, Dispatch, Close, Release
<1>5. CASE RecordRevision
  BY <1>5, <1>k, <1>t, ExecutorEvents DEF RecordRevision
<1>6. ASSUME NEW r, NEW x, NEW kind, RecordVerdict(r, x, kind) \/ RecordChecks(r, kind) PROVE Keeps(led')
  <2>1. led' = [led EXCEPT !.verdict[r][x] = kind] \/ led' = [led EXCEPT !.checks[r] = kind]
    BY <1>6 DEF RecordVerdict, RecordChecks, Record
  <2>2. Keeps([led EXCEPT !.verdict[r][x] = kind]) /\ Keeps([led EXCEPT !.checks[r] = kind])
    BY <1>t, ProducerEvents
  <2>3. QED BY <2>1, <2>2
<1>7. ASSUME NEW d \in started, NEW o, ConcludeRemediation(d, o) PROVE Keeps(led')
  <2>1. d \in Rounds
    BY DEF TypeInv
  <2>2. led' = Concluded(d, o)
    BY <1>7 DEF ConcludeRemediation, Record
  <2>3. QED BY <1>t, <2>1, <2>2, ProducerEvents
<1>8. ASSUME NEW kind, ExhaustBudget \/ Override(kind) PROVE Keeps(led')
  BY <1>8, <1>t, ProducerEvents DEF ExhaustBudget, Override, Record
<1>9. CASE SwitchBrake \/ Push \/ CloseByHand
  BY <1>9 DEF SwitchBrake, Push, CloseByHand
<1>10. CASE Elapse
  <2>1. PICK a, b : led' = [led EXCEPT !.age = a, !.finalAge = b]
    BY <1>10 DEF Elapse
  <2>2. Keeps([led EXCEPT !.age = a, !.finalAge = b])
    BY <1>t, ExecutorEvents
  <2>3. QED BY <1>k, <2>1, <2>2
<1>11. QED
  BY <1>2, <1>3, <1>4, <1>5, <1>6, <1>7, <1>8, <1>9, <1>10, <1>k DEF Next, Step, Observe

(* Recording a finalization leaves the pull request alone and names the     *)
(* revision it was merged at.                                               *)
LEMMA RecordsMerge ==
  ASSUME TypeInv, LandInv, NEW e \in Executors, RecordFinalized(e)
  PROVE  pr' = pr /\ pr.state = "merged" /\ led'.finalized = pr.merged
<1>1. led'.finalized = exec[e].rev
  BY ExecutorEvents DEF RecordFinalized, TypeInv
<1>2. exec[e].rev = pr.merged /\ pr.state = "merged" /\ pr' = pr
  BY DEF RecordFinalized, LandInv
<1>3. QED BY <1>1, <1>2

(* A finalization after a finalization is of the same merge. *)
LEMMA FinalizedKept ==
  ASSUME TypeInv, LandInv, Next, led.finalized # 0
  PROVE  led'.finalized = led.finalized
<1>1. led.finalized = pr.merged
  BY DEF LandInv, FinalizedIsMerged
<1>2. QED BY <1>1, FinalizedSteady, RecordsMerge

(* Only a decision makes an executor act, and there is none on a subject    *)
(* that is finalized.                                                       *)
LEMMA ActingDrains ==
  ASSUME TypeInv, Next, led.finalized # 0, NEW f \in Executors, exec'[f].pc \in Acting
  PROVE  exec[f].pc \in Acting
<1> USE DEF Acting
<1>t. exec \in [Executors -> SoundTicks]
  BY DEF TypeInv
<1>1. ASSUME NEW e \in Executors, Tick(e) \/ Step(e) \/ Crash(e) PROVE exec[f].pc \in Acting
  <2>1. CASE f # e
    BY <1>1, <2>1, OthersStay
  <2>2. CASE f = e /\ (Tick(e) \/ Release(e) \/ Crash(e))
    BY <1>t, <2>2 DEF Tick, Release, Crash, Idle
  <2>3. CASE f = e /\ Decide(e)
    <3>1. NextStep(Eligible(led)) = "release"
      BY DEF NextStep
    <3>2. QED BY <2>3, <3>1, DecideEffect
  <2>4. CASE f = e /\ (CheckIdentity(e) \/ Merge(e) \/ RecordFinalized(e) \/ Dispatch(e)
                        \/ RecordDispatched(e) \/ Close(e) \/ RecordMark(e))
    <3>1. \/ exec[e].pc \in Acting
          \/ Done(e)
      BY <2>4 DEF CheckIdentity, Merge, RecordFinalized, Dispatch, RecordDispatched, Close, RecordMark
    <3>2. QED BY <2>4, <3>1, ClockStays
  <2>5. QED BY <1>1, <2>1, <2>2, <2>3, <2>4 DEF Step
<1>2. CASE Elapse
  <2>1. exec[f] \in Ticks
    BY <1>t DEF SoundTicks
  <2>2. exec'[f] = exec[f] \/ exec'[f] = [exec[f] EXCEPT !.since = Older(exec[f].since, MaxAge)]
    BY <1>2 DEF Elapse
  <2>3. QED BY <2>1, <2>2 DEF Ticks
<1>3. CASE \/ Observe \/ SwitchBrake \/ Push \/ CloseByHand
           \/ \E kind \in OverrideKinds : Override(kind)
  BY <1>3 DEF Observe, RecordRevision, RecordVerdict, RecordChecks, ConcludeRemediation, ExhaustBudget,
              SwitchBrake, Push, CloseByHand, Override
<1>4. QED BY <1>1, <1>2, <1>3 DEF Next

(* Once a finalization is recorded it names its revision for good and the   *)
(* executors about to act only become fewer, also when the terminal mark    *)
(* was overwritten and the subject resumed.                                 *)
THEOREM FinalizationIsFinal == Spec => FinalizedIsDone
<1> DEFINE Drains == led.finalized # 0 =>
             /\ led'.finalized = led.finalized
             /\ \A e \in Executors : exec'[e].pc \in Acting => exec[e].pc \in Acting
<1>1. TypeInv /\ LandInv /\ [Next]_vars => [Drains]_vars
  BY FinalizedKept, ActingDrains
<1>2. QED BY <1>1, TypeInvAlways, LandInvAlways, PTL DEF Spec, FinalizedIsDone
=============================================================================
