------------------------ MODULE FinalizationExecutor ------------------------
(***************************************************************************)
(* The leased finalization executor of src/src/finalization/: executors    *)
(* take a subject's lease, fold its event ledger, decide, and carry the    *)
(* decision out through surfaces (merge, remediation, close) that take     *)
(* time, fail, or lose their answer.  One subject (a pull request).        *)
(*                                                                         *)
(* The ledger is append-only and only its fold is read, so `led` is the    *)
(* fold; appending an event applies it.  Time is kept as ages that Elapse  *)
(* advances together.                                                      *)
(***************************************************************************)
EXTENDS Naturals, Sequences, FiniteSetsExt

CONSTANTS
  Executors,      \* processes that tick the subject
  NoExecutor,     \* the lease row does not exist
  Roles,          \* reviewer roles (stageId, role) whose verdicts count
  VerdictKinds,   \* kinds a reviewer may record
  OverrideKinds,  \* operator directives used
  ExhaustionAlwaysCloses,  \* policy.exhaustionAlwaysCloses
  StrictMode,     \* policy.strictMode
  CloseSurface,   \* a close surface is configured
  Patience,       \* checks and verdict patience, in ticks
  Ttl,            \* DEFAULT_LEASE_TTL_MS, in ticks
  MaxRev,         \* bound: heads pushed
  MaxRounds,      \* bound: remediation rounds recorded; the code has no cap
  CheckKinds,     \* check conclusions a producer may record
  MaxEvents,      \* bound: facts and directives recorded
  MaxFaults       \* bound: crashes and failed or lost surface answers

ASSUME ExecutorAssumption ==
  /\ Patience \in Nat \ {0}
  /\ Ttl \in Nat \ {0}
  /\ MaxRev \in Nat \ {0}
  /\ MaxRounds \in Nat
  /\ MaxEvents \in Nat
  /\ MaxFaults \in Nat
  /\ NoExecutor \notin Executors
  /\ StrictMode \in BOOLEAN
  /\ {ExhaustionAlwaysCloses, CloseSurface} \subseteq BOOLEAN
  /\ VerdictKinds \subseteq {"approved", "comment-only", "request-changes", "unknown"}
  /\ CheckKinds \subseteq {"running", "green", "red"}
  /\ OverrideKinds \subseteq {"approve", "resume", "close", "halt"}

Revs == 1 .. MaxRev
MaxAge == IF Patience > Ttl THEN Patience ELSE Ttl
Checks == CheckKinds \cup {"absent"}
Outcomes == {"none", "completed", "blocked"}
Terminals == {"none", "finalized", "closed", "escalated", "halted"}

VARIABLES
  led,       \* fold of the subject's ledger
  lease,     \* finalization_executor_lease row: its holder, or NoExecutor
  exec,      \* each executor's tick
  started,   \* rounds whose worker the remediation surface started
  brake,     \* policy.autonomousExecutionDisabled
  pr,        \* the pull request at the host: head, state, merged revision
  cleared,   \* history: heads that were clean and green
  covered,   \* history: heads whose FINAL round's own worker completed
  events,    \* facts and directives recorded so far
  faults     \* failures so far

vars == <<led, lease, exec, started, brake, pr, cleared, covered, events, faults>>

Idle == [pc |-> "idle", rev |-> 0, round |-> 0, final |-> FALSE, since |-> 0]
Steps == {"idle", "leased", "identity", "merge", "finalize", "dispatch",
          "dispatched", "close", "closed", "escalated", "halted", "release"}

Rounds == [rev : Revs, round : 1 .. MaxRounds + 1, final : BOOLEAN]

TypeOK ==
  /\ led \in [rev : 0 .. MaxRev, age : [Revs -> 0 .. Patience],
              verdict : [Revs -> [Roles -> VerdictKinds \cup {"none"}]],
              checks : [Revs -> Checks],
              dispatched : Seq(Rounds),
              finalAge : [Revs -> 0 .. Patience],
              concluded : [Revs -> [1 .. MaxRounds + 1 -> Outcomes]],
              exhausted : BOOLEAN, override : OverrideKinds \cup {"none"},
              terminal : Terminals, finalized : 0 .. MaxRev]
  /\ lease \in Executors \cup {NoExecutor}
  /\ exec \in [Executors -> [pc : Steps, rev : 0 .. MaxRev, round : 0 .. MaxRounds + 1,
                             final : BOOLEAN, since : 0 .. MaxAge]]
  /\ started \subseteq Rounds
  /\ brake \in BOOLEAN
  /\ pr \in [head : Revs, state : {"open", "merged", "closed"}, merged : 0 .. MaxRev]
  /\ cleared \subseteq Revs
  /\ covered \subseteq Revs
  /\ events \in 0 .. MaxEvents
  /\ faults \in 0 .. MaxFaults

\* initialLedgerState; the pull request is open at its first head.
Init ==
  /\ led = [rev |-> 0, age |-> [r \in Revs |-> 0],
            verdict |-> [r \in Revs |-> [x \in Roles |-> "none"]],
            checks |-> [r \in Revs |-> "absent"],
            dispatched |-> <<>>, finalAge |-> [r \in Revs |-> 0],
            concluded |-> [r \in Revs |-> [n \in 1 .. MaxRounds + 1 |-> "none"]],
            exhausted |-> FALSE, override |-> "none", terminal |-> "none", finalized |-> 0]
  /\ lease = NoExecutor
  /\ exec = [e \in Executors |-> Idle]
  /\ started = {}
  /\ brake = FALSE
  /\ pr = [head |-> 1, state |-> "open", merged |-> 0]
  /\ cleared = {}
  /\ covered = {}
  /\ events = 0
  /\ faults = 0

-----------------------------------------------------------------------------
(* eligible: the decision over a folded ledger *)

\* aggregateDisposition over the latest verdict of every role at r.
Disposition(l, r) ==
  LET kinds == {l.verdict[r][x] : x \in Roles} \ {"none"} IN
  IF kinds = {} THEN "none"
  ELSE IF "request-changes" \in kinds THEN "blocking"
  ELSE IF "unknown" \in kinds THEN "indeterminate"
  ELSE IF "comment-only" \in kinds THEN "non-blocking"
  ELSE "clean"

ChecksConclusive(l, r) == l.checks[r] \in {"green", "red"}

\* Evidence still missing at r: conclusive checks, a settled verdict.  (The
\* default policy consumes no attestations.)
EvidenceMissing(l, r) ==
  \/ ~ChecksConclusive(l, r)
  \/ Disposition(l, r) \in {"none", "indeterminate"}

NeedsRemediation(l, r) ==
  \/ Disposition(l, r) = "blocking"
  \/ Disposition(l, r) = "non-blocking" /\ StrictMode /\ l.override # "approve"
  \/ l.checks[r] # "green"

\* dispatchedRoundsForRev: positions in the ledger's order.
DispatchedAt(l, r) == {i \in 1 .. Len(l.dispatched) : l.dispatched[i].rev = r}
FinalDispatches(l, r) == {i \in DispatchedAt(l, r) : l.dispatched[i].final}

\* finalDispatchForRev: the first one wins.
FinalDispatch(l, r) == l.dispatched[Min(FinalDispatches(l, r))]

Decision(kind) == [kind |-> kind, round |-> 0, final |-> FALSE]

\* Mutant of Remediate: the round is counted twice.
RemediateOffByOne(l, isFinal) ==
  [kind |-> "remediate", round |-> Cardinality(DispatchedAt(l, l.rev)) + 2, final |-> isFinal]
\* Mutant of Remediate: the rounds that concluded are counted.
RemediateByConcluded(l, isFinal) ==
  [kind |-> "remediate", final |-> isFinal,
   round |-> Cardinality({n \in 1 .. MaxRounds : l.concluded[l.rev][n] # "none"}) + 1]
Remediate(l, isFinal) ==
  [kind |-> "remediate", round |-> Cardinality(DispatchedAt(l, l.rev)) + 1, final |-> isFinal]

\* The budget is spent: one final coverage-gated round, then land.
ExhaustedDecision(l) ==
  LET outcome == l.concluded[l.rev][FinalDispatch(l, l.rev).round]
  IN IF ~ExhaustionAlwaysCloses THEN Decision("halt")
     ELSE IF FinalDispatches(l, l.rev) = {} THEN Remediate(l, TRUE)
     ELSE IF outcome = "none"
          THEN Decision(IF l.finalAge[l.rev] = Patience THEN "escalate" ELSE "wait")
     ELSE Decision(IF outcome = "completed" THEN "finalize-now" ELSE "halt")

RevisionDecision(l) ==
  IF EvidenceMissing(l, l.rev)
  THEN Decision(IF l.age[l.rev] = Patience THEN "escalate" ELSE "wait")
  ELSE IF ~NeedsRemediation(l, l.rev) THEN Decision("finalize-now")
  ELSE IF ~l.exhausted THEN Remediate(l, FALSE)
  ELSE ExhaustedDecision(l)

\* gate: under the brake a mutating decision becomes an escalation.
Gate(d) ==
  IF brake /\ d.kind \in {"finalize-now", "remediate", "close"} THEN Decision("escalate") ELSE d

Eligible(l) ==
  CASE l.terminal = "finalized" -> Decision("finalize-now")
    [] l.terminal = "closed" -> Decision("close")
    [] l.terminal = "escalated" -> Decision("escalate")
    [] l.terminal = "halted" -> Decision("halt")
    [] OTHER ->
         IF l.override = "close" THEN Gate(Decision("close"))
         ELSE IF l.override = "halt" THEN Decision("halt")
         ELSE IF l.rev = 0 THEN Decision("wait")
         ELSE Gate(RevisionDecision(l))

-----------------------------------------------------------------------------
(* applyEvent: one appended event folded into the ledger state *)

Mark(kind) == [led EXCEPT !.terminal = kind]
Finalized(r) == [led EXCEPT !.terminal = "finalized", !.finalized = r]

\* The ledger's partial unique index drops a replayed idempotency key.
Dispatched(d) ==
  IF \E i \in 1 .. Len(led.dispatched) : led.dispatched[i] = d THEN led
  ELSE [led EXCEPT !.dispatched = Append(@, d)]

\* A resuming override lifts escalated and halted, never finalized or closed.
Overridden(kind) ==
  [led EXCEPT !.override = kind,
              !.terminal = IF @ \in {"escalated", "halted"} /\ kind \in {"resume", "approve"}
                           THEN "none" ELSE @]

\* A conclusion is found by (revision, round); the first one counts.
Concluded(d, outcome) ==
  [led EXCEPT !.concluded[d.rev][d.round] = IF @ = "none" THEN outcome ELSE @]

\* What a merge at r may rest on: clean and green at r.
Clears(l, r) == ~EvidenceMissing(l, r) /\ ~NeedsRemediation(l, r)

-----------------------------------------------------------------------------
(* One tick of an executor *)

To(e, pc) == exec' = [exec EXCEPT ![e].pc = pc]
\* The tick is over but for its `finally`; the decision is forgotten.
Done(e) == exec' = [exec EXCEPT ![e] = [Idle EXCEPT !.pc = "release", !.since = exec[e].since]]
Fault == faults < MaxFaults /\ faults' = faults + 1

\* The lease row stores a deadline; the caller's clock decides that it passed.
LeaseExpired == lease \in Executors /\ exec[lease].since >= Ttl

\* acquireTxn: insert when free, steal when expired, else contended.  The row
\* outlives its executor's crash: `since` then counts on for the row.
Tick(e) ==
  /\ exec[e].pc = "idle"
  /\ lease = NoExecutor \/ LeaseExpired
  /\ lease' = e
  /\ exec' = [exec EXCEPT ![e] = [Idle EXCEPT !.pc = "leased"]]
  /\ UNCHANGED <<led, started, brake, pr, cleared, covered, events, faults>>

\* Mutant of NextStep: only the terminal mark says that a subject is done.
NextStepByTerminal(d) ==
  IF led.terminal \in {"finalized", "closed"} THEN "release"
  ELSE CASE d.kind = "finalize-now" -> "identity"
         [] d.kind = "remediate" -> "dispatch"
         [] d.kind = "close" -> "close"
         [] d.kind = "halt" -> IF led.terminal = "halted" THEN "release" ELSE "halted"
         [] d.kind = "escalate" -> IF led.terminal = "escalated" THEN "release" ELSE "escalated"
         [] OTHER -> "release"

\* The post-acquire read, eligible(), and applyDecision up to its first await:
\* the step that carries the decision out, none for a subject that is done.
NextStep(d) ==
  IF led.finalized # 0 \/ led.terminal = "closed" THEN "release"
  ELSE CASE d.kind = "finalize-now" -> "identity"
         [] d.kind = "remediate" -> "dispatch"
         [] d.kind = "close" -> "close"
         [] d.kind = "halt" -> IF led.terminal = "halted" THEN "release" ELSE "halted"
         [] d.kind = "escalate" -> IF led.terminal = "escalated" THEN "release" ELSE "escalated"
         [] OTHER -> "release"

Decide(e) ==
  /\ exec[e].pc = "leased"
  /\ LET d == Eligible(led) IN
       IF NextStep(d) = "release" THEN Done(e)
       ELSE exec' = [exec EXCEPT ![e] = [@ EXCEPT !.pc = NextStep(d), !.rev = led.rev,
                                                  !.round = d.round, !.final = d.final]]
  /\ UNCHANGED <<led, lease, started, brake, pr, cleared, covered, events, faults>>

\* checkIdentityAttestation: granted, denied, or the surface is down.
CheckIdentity(e) ==
  /\ exec[e].pc = "identity"
  /\ \/ To(e, "merge") /\ UNCHANGED faults
     \/ To(e, "escalated") /\ Fault
     \/ Done(e) /\ Fault
  /\ UNCHANGED <<led, lease, started, brake, pr, cleared, covered, events>>

\* Mutant of MergeApplies: no matchHeadCommit.
MergeAppliesAnyHead(r) == pr.state = "open"

\* The guarded merge: matchHeadCommit, and a merge already done at this
\* revision counts as success.
MergeApplies(r) == pr.state = "open" /\ pr.head = r

\* Mutant of MergedAlready: merged at any revision counts.
MergedAlreadyAnyHead(r) == pr.state = "merged"
MergedAlready(r) == pr.state = "merged" /\ pr.merged = r
Merged == [pr EXCEPT !.state = "merged", !.merged = pr.head]

Merge(e) ==
  LET r == exec[e].rev IN
  /\ exec[e].pc = "merge"
  /\ \/ MergeApplies(r) /\ pr' = Merged /\ To(e, "finalize") /\ UNCHANGED faults
     \/ MergeApplies(r) /\ pr' = Merged /\ Done(e) /\ Fault   \* answer lost
     \/ MergedAlready(r) /\ To(e, "finalize") /\ UNCHANGED <<pr, faults>>
     \/ ~MergeApplies(r) /\ ~MergedAlready(r) /\ Done(e) /\ UNCHANGED <<pr, faults>>
     \/ Done(e) /\ Fault /\ UNCHANGED pr       \* refused, queued or failed
     \/ To(e, "escalated") /\ Fault /\ UNCHANGED pr     \* adapter-unavailable
  /\ UNCHANGED <<led, lease, started, brake, cleared, covered, events>>

RecordFinalized(e) ==
  /\ exec[e].pc = "finalize"
  /\ led' = Finalized(exec[e].rev)
  /\ Done(e)
  /\ UNCHANGED <<lease, started, brake, pr, cleared, covered, events, faults>>

\* The round an executor carries out.
RoundOf(e) == [rev |-> exec[e].rev, round |-> exec[e].round, final |-> exec[e].final]

\* remediationSurface.dispatch starts the round's worker, once under its
\* idempotency key, and answers or throws.  A worker that was not started is
\* one that never concludes.
Dispatch(e) ==
  /\ exec[e].pc = "dispatch"
  /\ started' = started \cup {RoundOf(e)}
  /\ \/ To(e, "dispatched") /\ UNCHANGED faults
     \/ Done(e) /\ Fault
  /\ UNCHANGED <<led, lease, brake, pr, cleared, covered, events>>

RecordDispatched(e) ==
  LET d == RoundOf(e) IN
  /\ exec[e].pc = "dispatched"
  /\ Len(led.dispatched) < MaxRounds \/ Dispatched(d) = led
  /\ led' = IF d.final /\ FinalDispatches(led, d.rev) = {}
            THEN [Dispatched(d) EXCEPT !.finalAge[d.rev] =
                    IF exec[e].since > Patience THEN Patience ELSE exec[e].since]
            ELSE Dispatched(d)
  /\ Done(e)
  /\ UNCHANGED <<lease, started, brake, pr, cleared, covered, events, faults>>

\* closeSurface.close closes the pull request (the host, an open one only) or
\* throws; without a surface the mark is recorded and the host hears nothing.
Close(e) ==
  /\ exec[e].pc = "close"
  /\ \/ /\ pr' = IF CloseSurface /\ pr.state = "open"
                 THEN [pr EXCEPT !.state = "closed"] ELSE pr
        /\ To(e, "closed")
        /\ UNCHANGED faults
     \/ CloseSurface /\ Done(e) /\ Fault /\ UNCHANGED pr
  /\ UNCHANGED <<led, lease, started, brake, cleared, covered, events>>

\* closed, escalated and halted: one append each.
RecordMark(e) ==
  /\ exec[e].pc \in {"closed", "escalated", "halted"}
  /\ led' = Mark(exec[e].pc)
  /\ Done(e)
  /\ UNCHANGED <<lease, started, brake, pr, cleared, covered, events, faults>>

\* Mutant of ReleasedLease: the row is deleted whoever holds it.
ReleasedLeaseUnfenced(e) == NoExecutor

\* finally: the release deletes the row only under its own lease_id.
ReleasedLease(e) == IF lease = e THEN NoExecutor ELSE lease
Release(e) ==
  /\ exec[e].pc = "release"
  /\ lease' = ReleasedLease(e)
  /\ exec' = [exec EXCEPT ![e] = Idle]
  /\ UNCHANGED <<led, started, brake, pr, cleared, covered, events, faults>>

\* The process dies mid-tick; its row stays until the deadline.
Crash(e) ==
  /\ exec[e].pc # "idle"
  /\ Fault
  /\ exec' = [exec EXCEPT ![e] = IF lease = e THEN [Idle EXCEPT !.since = exec[e].since] ELSE Idle]
  /\ UNCHANGED <<led, lease, started, brake, pr, cleared, covered, events>>

-----------------------------------------------------------------------------
(* The fact producers, the operator and the host *)

\* A push moves the head of an open pull request; somebody closes it.
Push ==
  /\ pr.state = "open" /\ pr.head < MaxRev
  /\ pr' = [pr EXCEPT !.head = @ + 1]
  /\ UNCHANGED <<led, lease, exec, started, brake, cleared, covered, events, faults>>

CloseByHand ==
  /\ pr.state = "open" /\ Fault
  /\ pr' = [pr EXCEPT !.state = "closed"]
  /\ UNCHANGED <<led, lease, exec, started, brake, cleared, covered, events>>

\* revision_advanced: observed after the push, possibly long after.
RecordRevision ==
  /\ led.rev # pr.head
  /\ led' = [led EXCEPT !.rev = pr.head]
  /\ UNCHANGED <<lease, exec, started, brake, pr, cleared, covered, events, faults>>

\* An event of a producer or of the operator: what it makes clean and green.
Record(l) ==
  /\ l # led
  /\ events < MaxEvents
  /\ events' = events + 1
  /\ led' = l
  /\ cleared' = cleared \cup {r \in Revs : Clears(l, r)}

\* verdict_recorded: at any head that exists, also after the head moved on.
RecordVerdict(r, x, kind) ==
  /\ r <= pr.head
  /\ Record([led EXCEPT !.verdict[r][x] = kind])
  /\ UNCHANGED <<lease, exec, started, brake, pr, covered, faults>>

\* checks_settled: the last observation wins.
RecordChecks(r, conclusion) ==
  /\ r <= pr.head
  /\ Record([led EXCEPT !.checks[r] = conclusion])
  /\ UNCHANGED <<lease, exec, started, brake, pr, covered, faults>>

\* remediation_concluded by the worker of round d, perhaps before the dispatch
\* is in the ledger.
ConcludeRemediation(d, outcome) ==
  /\ Record(Concluded(d, outcome))
  /\ covered' = IF outcome = "completed" /\ d.final THEN covered \cup {d.rev} ELSE covered
  /\ UNCHANGED <<lease, exec, started, brake, pr, faults>>

ExhaustBudget ==
  /\ Record([led EXCEPT !.exhausted = TRUE])
  /\ UNCHANGED <<lease, exec, started, brake, pr, covered, faults>>

\* operator_override.
Override(kind) ==
  /\ Record(Overridden(kind))
  /\ UNCHANGED <<lease, exec, started, brake, pr, covered, faults>>

SwitchBrake ==
  /\ events < MaxEvents
  /\ events' = events + 1
  /\ brake' = ~brake
  /\ UNCHANGED <<led, lease, exec, started, pr, cleared, covered, faults>>

\* One tick of time: patience, the final round's patience, lease deadlines.
Older(n, cap) == IF n < cap THEN n + 1 ELSE n
Elapse ==
  /\ led' = [led EXCEPT
       !.age = [r \in Revs |-> IF r <= led.rev THEN Older(@[r], Patience) ELSE @[r]],
       !.finalAge = [r \in Revs |-> IF FinalDispatches(led, r) # {}
                                    THEN Older(@[r], Patience) ELSE @[r]]]
  /\ exec' = [e \in Executors |-> IF exec[e].pc # "idle" \/ lease = e
                THEN [exec[e] EXCEPT !.since = Older(@, MaxAge)] ELSE exec[e]]
  /\ UNCHANGED <<lease, started, brake, pr, cleared, covered, events, faults>>

Step(e) ==
  \/ Decide(e) \/ CheckIdentity(e) \/ Merge(e) \/ RecordFinalized(e)
  \/ Dispatch(e) \/ RecordDispatched(e) \/ Close(e) \/ RecordMark(e) \/ Release(e)

Observe ==
  \/ RecordRevision
  \/ \E r \in Revs, x \in Roles, kind \in VerdictKinds : RecordVerdict(r, x, kind)
  \/ \E r \in Revs, c \in CheckKinds : RecordChecks(r, c)
  \/ \E d \in started, o \in Outcomes \ {"none"} : ConcludeRemediation(d, o)
  \/ ExhaustBudget

Next ==
  \/ \E e \in Executors : Tick(e) \/ Step(e) \/ Crash(e)
  \/ Observe
  \/ \E kind \in OverrideKinds : Override(kind)
  \/ SwitchBrake \/ Push \/ CloseByHand \/ Elapse

Spec == Init /\ [][Next]_vars

-----------------------------------------------------------------------------
InFlight(e) == exec[e].pc # "idle"

(* An executor that acts without holding the subject's lease row has outlived *)
(* the deadline it took the lease with: nobody loses a live lease, neither to *)
(* a stealer nor to the late release of an executor it was stolen from.       *)
LeaseFence ==
  \A e \in Executors : InFlight(e) /\ lease # e => exec[e].since >= Ttl

(* A `finalized` event names the revision that was really merged, however     *)
(* many executors tried, crashed or lost the merge's answer.                  *)
FinalizedIsMerged ==
  led.finalized # 0 => pr.state = "merged" /\ pr.merged = led.finalized

(* What a revision may land on: it was clean and green, or a round dispatched *)
(* for it completed.                                                          *)
Landable(r) ==
  r \in cleared \/ \E n \in 1 .. MaxRounds + 1 : led.concluded[r][n] = "completed"

(* The merged head was itself clean and green, or a round dispatched for it   *)
(* completed: evidence about another head never lands this one.               *)
MergedIsCleared == pr.merged # 0 => Landable(pr.merged)

(* A head that is not clean lands only on the coverage of its FINAL round:    *)
(* "final remediation with schema-validated coverage of every outstanding     *)
(* finding, followed by landing".                                             *)
ExhaustionIsCovered ==
  pr.merged # 0 => pr.merged \in cleared \cup covered

(* A round that is due has a number no dispatch of its head carries, whoever  *)
(* else decided on rounds of it and recorded them late: applyDecision never   *)
(* takes it for a "round already dispatched" and leaves it out.               *)
RoundIsNew ==
  LET d == Eligible(led) IN
  \A i \in DispatchedAt(led, led.rev) : d.kind = "remediate" => led.dispatched[i].round # d.round

\* Steps at which an executor is about to act on the pull request.
Acting == {"identity", "merge", "dispatch", "close"}

(* Once `finalized` is in the ledger it names that revision for good, and the *)
(* executors about to act only become fewer: late executors that lost their   *)
(* lease may append, the terminal mark may be overwritten and the operator    *)
(* resume the subject, but nobody starts on another merge, close or round.    *)
FinalizedIsDone ==
  [][led.finalized # 0 =>
       /\ led'.finalized = led.finalized
       /\ \A e \in Executors : exec'[e].pc \in Acting => exec[e].pc \in Acting]_vars
=============================================================================
