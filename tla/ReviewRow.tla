----------------------------- MODULE ReviewRow -----------------------------
(***************************************************************************)
(* The delivery row of one pull request in reviewed_prs, and those who     *)
(* claim, settle and recover it: the watcher's dispatch of reviewer        *)
(* sessions (admission, claim, checks after the claim, spawn, settlement), *)
(* the reconcile pass that recovers claims whose reviewer died, hung or    *)
(* was superseded, the startup recovery after a watcher bounce, the        *)
(* lifecycle mirror, re-review requests and the operator's reset.  Not     *)
(* here: the writers that park or settle a row by policy (review-cycle     *)
(* cap, declined and admitted closer heads, fleet self-repair, the reaper  *)
(* and the reconciler of orphaned passes).                                 *)
(*                                                                         *)
(* Every SQL statement is an operator on the row: a WHERE clause that does *)
(* not match leaves the row as it is.  The handlers await GitHub and child *)
(* processes between the statements, so each stretch between two awaits is *)
(* one action.  Reviewers are detached processes and survive the watcher.  *)
(***************************************************************************)
EXTENDS Naturals, FiniteSets

CONSTANTS Sessions,   \* reviewer session ids; each is used for one dispatch
          NoSession,  \* SQL NULL in a session or process-group column
          MaxHead,    \* bound on the pushes to the pull request
          InfraCap,   \* INFRA_AUTO_RECOVER_CAP
          Failures,   \* failure classes a reviewer run may end with
          ScanFails   \* whether `ps` may fail to list the processes

ASSUME SessionAssumption == NoSession \notin Sessions
ASSUME BoundAssumption == MaxHead \in Nat \ {0} /\ InfraCap \in Nat \ {0}
ASSUME FailureAssumption ==
    /\ Failures \subseteq {"stalled", "stale", "size", "refused", "hold",
                           "transient", "outage", "unknown"}
    /\ ScanFails \in BOOLEAN

VARIABLES row,    \* the pull request's row of reviewed_prs
          live,   \* the pull request on GitHub: its head and its state
          sess,   \* each session: its dispatch in the watcher, its process
          loop,   \* the reconcile pass over the row
          up      \* the watcher: starting, reconciled (once), polling

vars == <<row, live, sess, loop, up>>

NullHead == 0
Heads == 1..MaxHead
MaybeSession == Sessions \cup {NoSession}
Statuses == {"pending", "pending-upstream", "reviewing", "posted", "failed",
             "failed-orphan", "skipped", "ci-blocked"}
PrStates == {"open", "closed", "merged"}

(***************************************************************************)
(* The columns the statements read or write.  pgid names the session whose *)
(* process group is recorded.  age is the claim's age: past the launch and *)
(* dead-reviewer grace periods it is aged, past the reviewer's timeout     *)
(* (its lease) expired.  fail is the class of failure_message, none when   *)
(* failed_at is NULL.  infra counts the automatic recoveries.              *)
(***************************************************************************)
Row == [status: Statuses, pr: PrStates, session: MaybeSession,
        pgid: MaybeSession, head: 0..MaxHead,
        age: {"fresh", "aged", "expired"}, infra: Nat,
        fail: {"none", "infra", "unknown", "bounce", "terminal"}]

NewRow == [status |-> "pending", pr |-> "open", session |-> NoSession,
           pgid |-> NoSession, head |-> NullHead,
           age |-> "fresh", infra |-> 0, fail |-> "none"]

(***************************************************************************)
(* A session is queued for dispatch, claims the row, is spawned, runs with *)
(* its process group recorded, exits and is settled.  awaited: the watcher *)
(* that dispatched it is still in its dispatch, and so holds the           *)
(* in-process lease on (pull request, head).  was is the row as the        *)
(* classification, and then the claim, found it.                           *)
(***************************************************************************)
Session == [phase: {"unused", "queued", "claimed", "spawned", "running",
                    "exited", "done"},
            kind: {"pending", "token", "infra", "due", "probe", "retry", "bounce"},
            head: 0..MaxHead, awaited: BOOLEAN, posted: BOOLEAN, was: Row]

UnusedSession == [phase |-> "unused", kind |-> "pending", head |-> NullHead,
                  awaited |-> FALSE, posted |-> FALSE, was |-> NewRow]

Loop == [pc: {"idle", "listed", "probe", "nullprobe", "review", "overdue",
              "reaped", "write"},
         snap: Row, alive: BOOLEAN,
         verdict: {"none", "skip", "orphan", "superseded", "posted", "requeue"}]

IdleLoop == [pc |-> "idle", snap |-> NewRow, alive |-> FALSE, verdict |-> "none"]

Init ==
    /\ row = NewRow
    /\ live = [head |-> 1, pr |-> "open"]
    /\ sess = [s \in Sessions |-> UnusedSession]
    /\ loop = IdleLoop
    /\ up = "polling"

Running(s) == s \in Sessions /\ sess[s].phase \in {"spawned", "running"}
Reviewed(h) == \E t \in Sessions : sess[t].posted /\ sess[t].head = h

(***************************************************************************)
(* The dispatch is over: only what it posted to GitHub is left of it.      *)
(***************************************************************************)
Over(x) == [x EXCEPT !.phase = "done", !.awaited = FALSE, !.kind = "pending",
                     !.was = NewRow, !.head = IF x.posted THEN x.head ELSE NullHead]

Finished(s) == [sess EXCEPT ![s] = Over(@)]

\* A process that ends: a dispatch that still awaits it will settle it.
Ended(s) ==
    CASE Running(s) /\ sess[s].awaited -> [sess EXCEPT ![s].phase = "exited"]
      [] Running(s) /\ ~sess[s].awaited -> Finished(s)
      [] OTHER -> sess

----------------------------------------------------------------------------
(* The statements.                                                         *)

\* The reviewer_* columns set to NULL.
Freed(r) == [r EXCEPT !.session = NoSession, !.pgid = NoSession,
                      !.head = NullHead, !.age = "fresh"]

\* buildReviewStateResetAssignments.
Reset(r) == [Freed(r) EXCEPT !.status = "pending", !.fail = "none", !.infra = 0]

\* The shape both the classifier and the retry claims call a terminal failure.
TerminalShape(r, evidence) ==
    r.status = "failed" \/ (r.status = "pending" /\ r.fail # "none" /\ evidence)

TerminalFailure(r, h) ==
    /\ TerminalShape(r, r.head = h)
    /\ r.status = "failed" => r.head \in {NullHead, h}

\* Mutant of ClaimMatches: the first claim does not compare the status.
ClaimMatchesAnyStatus(r, kind, was, h) ==
    CASE kind = "pending" -> r.status \notin {"posted", "skipped"} /\ r.pr # "merged"
      [] OTHER -> TerminalShape(r, r.head = h) /\ r.fail = was.fail

ClaimMatches(r, kind, was, h) ==
    CASE kind = "pending" ->
           r.status \in {"pending", "pending-upstream"} /\ r.pr # "merged"
      [] kind = "token" ->
           /\ \/ r.status = "pending-upstream"
              \/ TerminalShape(r, r.head = was.head /\ r.head # NullHead)
           /\ r.fail = "infra" /\ r.pr # "merged"
      [] kind \in {"infra", "due", "probe"} ->
           /\ TerminalShape(r, r.head = was.head /\ r.head # NullHead)
           /\ r.infra < InfraCap \/ kind # "infra"
           /\ r.fail = was.fail
      [] kind = "retry" ->
           TerminalShape(r, r.head = h) /\ r.fail = "unknown"
      [] kind = "bounce" ->
           /\ TerminalShape(r, TRUE)
           /\ r.session = was.session /\ r.head = was.head
           /\ r.fail = "bounce" /\ r.infra < InfraCap /\ r.pr # "merged"

\* A recovery claim counts itself.  A timeout that is probed on a changed build
\* stays at the cap; a cascade that is due again counts past it.
Charged(n, kind) ==
    CASE kind \in {"infra", "due", "bounce"} -> n + 1
      [] kind = "probe" -> IF n < InfraCap THEN n + 1 ELSE InfraCap
      [] OTHER -> n

Claimed(r, s, kind, h) ==
    [r EXCEPT !.status = "reviewing", !.session = s, !.pgid = NoSession,
              !.head = h, !.age = "fresh",
              !.fail = IF kind = "pending" /\ r.status = "pending-upstream"
                       THEN r.fail ELSE "none",
              !.infra = Charged(r.infra, kind)]

\* A claim fenced by the session that holds it.
HeldBy(r, s) == r.status = "reviewing" /\ r.session = s

ReleaseReviewerClaimUnfenced(r, s) ==
    IF r.status = "reviewing"
    THEN [Freed(r) EXCEPT !.status = "pending"] ELSE r

ReleaseReviewerClaimRefunding(r, s) ==
    IF HeldBy(r, s) THEN [Freed(r) EXCEPT !.status = "pending", !.infra = r.infra - 1] ELSE r

ReleaseReviewerClaim(r, s) ==
    IF HeldBy(r, s) THEN [Freed(r) EXCEPT !.status = "pending"] ELSE r

RestorePreClaim(r, s, was) ==
    IF HeldBy(r, s) THEN [was EXCEPT !.pr = r.pr] ELSE r

MarkRereviewCiBlocked(r, s) ==
    IF HeldBy(r, s)
    THEN [r EXCEPT !.status = "ci-blocked", !.session = NoSession,
                   !.pgid = NoSession, !.age = "fresh", !.fail = "terminal"]
    ELSE r

MarkReviewerPgidUnfenced(r, s) ==
    IF r.status = "reviewing" THEN [r EXCEPT !.pgid = s, !.age = "fresh"] ELSE r

MarkReviewerPgid(r, s) ==
    IF HeldBy(r, s) THEN [r EXCEPT !.pgid = s, !.age = "fresh"] ELSE r

Posted(r, h) == [r EXCEPT !.status = "posted", !.head = h, !.fail = "none",
                          !.age = "fresh", !.infra = 0]

ReleaseUnsettledPostedReview(r, s) ==
    IF /\ r.status \in {"reviewing", "pending", "failed", "failed-orphan"}
       /\ r.session \in {s, NoSession}
    THEN [Freed(r) EXCEPT !.status = "pending", !.fail = "none"]
    ELSE r

SettlePostedByRow(r, s, h) ==
    IF r.status \in {"reviewing", "failed-orphan"} THEN Posted(r, r.head)
    ELSE ReleaseUnsettledPostedReview(r, s)

\* markPosted, and the release that follows when it matches no row.
SettlePosted(r, s, h) ==
    IF /\ r.status \in {"reviewing", "failed-orphan"}
       /\ r.session = s /\ r.head = h
    THEN Posted(r, h)
    ELSE ReleaseUnsettledPostedReview(r, s)

MarkSizeFailed(r, s, h) ==
    IF HeldBy(r, s) /\ r.head = h
    THEN [r EXCEPT !.status = "failed", !.fail = "terminal", !.age = "fresh"]
    ELSE r

\* The statements without a fence: they write whatever the row has become.
MarkFailed(r, class) == [r EXCEPT !.status = "failed", !.fail = class, !.age = "fresh"]

MarkOrphan(r) == [r EXCEPT !.status = "failed-orphan", !.fail = "terminal"]

TransientFailure(r) ==
    IF r.infra >= InfraCap
    THEN MarkFailed(r, "infra")
    ELSE [r EXCEPT !.status = "pending-upstream", !.fail = "infra", !.age = "fresh",
                   !.session = NoSession, !.pgid = NoSession, !.infra = r.infra + 1]

\* The statements fenced by the status alone.
MarkHold(r) ==
    IF r.status = "reviewing"
    THEN [r EXCEPT !.status = "pending-upstream", !.fail = "infra", !.age = "fresh",
                   !.session = NoSession, !.pgid = NoSession]
    ELSE r

MarkOutageTransient(r) ==
    IF r.status = "reviewing"
    THEN [r EXCEPT !.status = "pending-upstream", !.fail = "infra", !.age = "fresh"]
    ELSE r

ReleaseReviewLease(r, class) ==
    IF r.status = "reviewing"
    THEN [r EXCEPT !.status = "pending", !.fail = class, !.age = "fresh"] ELSE r

ReleasePending(r) ==
    IF r.status = "reviewing"
    THEN [Freed(r) EXCEPT !.status = "pending", !.fail = "terminal",
                          !.infra = r.infra + 1]
    ELSE r

ReleaseSuperseded(r) == IF r.status = "reviewing" THEN Reset(r) ELSE r

SkipTerminal(r) ==
    IF r.status = "reviewing" /\ r.pr # "open"
    THEN [Freed(r) EXCEPT !.status = "skipped", !.fail = "none"] ELSE r

----------------------------------------------------------------------------
(* Dispatch.                                                               *)

\* How the poll classifies the row: the claim statement a dispatch will use.
\* A bounced reviewer may be replaced once its exit is confirmed (or its
\* evidence hold has expired) and no review of its own is found.
AdmissibleKinds(r, h) ==
    {k \in {"pending", "token", "infra", "due", "probe", "retry", "bounce"} :
        CASE k = "pending" -> /\ r.status \in {"pending", "pending-upstream"}
                              /\ ~TerminalFailure(r, h)
          [] k = "token" ->
                /\ r.status = "pending-upstream" \/ TerminalFailure(r, h)
                /\ r.fail = "infra" /\ "hold" \in Failures
          [] k = "infra" -> TerminalFailure(r, h) /\ r.fail = "infra" /\ r.infra < InfraCap
          [] k \in {"due", "probe"} -> TerminalFailure(r, h) /\ r.fail = "infra"
          [] k = "retry" -> TerminalFailure(r, h) /\ r.fail = "unknown"
          [] k = "bounce" ->
                /\ TerminalFailure(r, h) /\ r.fail = "bounce" /\ r.infra < InfraCap
                /\ r.session \in Sessions =>
                     /\ IF r.pgid = NoSession THEN r.age = "expired" ELSE ~Running(r.pgid)
                     /\ ~sess[r.session].posted}

HeadLeased(h) == \E t \in Sessions : sess[t].awaited /\ sess[t].head = h

\* The poll queues a candidate; the pool may run it much later.
Admit(s) ==
    /\ up = "polling" /\ live.pr = "open" /\ row.pr # "merged"
    /\ sess[s].phase = "unused"
    /\ \E k \in AdmissibleKinds(row, live.head) :
         sess' = [sess EXCEPT ![s] = [@ EXCEPT !.phase = "queued", !.kind = k,
                                               !.head = live.head, !.was = row]]
    /\ UNCHANGED <<row, live, loop, up>>

\* A candidate whose head is already reviewed is dropped, its row restored.
RestoreDeduped(s) ==
    /\ sess[s].phase = "queued" /\ ~HeadLeased(sess[s].head)
    /\ Reviewed(sess[s].head)
    /\ row' = IF row.status = "pending" /\ row.head \in {NullHead, sess[s].head}
              THEN [row EXCEPT !.status = "posted", !.head = sess[s].head,
                               !.fail = "none", !.age = "fresh"]
              ELSE row
    /\ sess' = [sess EXCEPT ![s] = UnusedSession]
    /\ UNCHANGED <<live, loop, up>>

\* The head lease, then the claim.  A miss of either drops the candidate.
Claim(s) ==
    /\ sess[s].phase = "queued"
    /\ IF /\ ~HeadLeased(sess[s].head)
          /\ ClaimMatches(row, sess[s].kind, sess[s].was, sess[s].head)
       THEN /\ row' = Claimed(row, s, sess[s].kind, sess[s].head)
            /\ sess' = [sess EXCEPT ![s] = [@ EXCEPT !.phase = "claimed", !.awaited = TRUE,
                                                     !.kind = "pending", !.was = row]]
       ELSE /\ sess' = [sess EXCEPT ![s] = UnusedSession]
            /\ UNCHANGED row
    /\ UNCHANGED <<live, loop, up>>

\* The freshness read after the claim: a pull request that is no longer open
\* is mirrored and the claim left to the reconcile pass, a moved head releases
\* the claim, an unreadable pull request puts the row back as it was.
FreshnessRefuses(s) ==
    /\ sess[s].phase = "claimed"
    /\ \/ live.pr # "open" /\ row' = [row EXCEPT !.pr = live.pr]
       \/ /\ live.pr = "open" /\ live.head # sess[s].head
          /\ row' = ReleaseReviewerClaim(row, s)
       \/ row' = RestorePreClaim(row, s, sess[s].was)
    /\ sess' = Finished(s)
    /\ UNCHANGED <<live, loop, up>>

\* A retained draft or a red CI run: the claim is released or parked.
AdmissionRefuses(s) ==
    /\ sess[s].phase = "claimed"
    /\ row' \in {ReleaseReviewerClaim(row, s), MarkRereviewCiBlocked(row, s)}
    /\ sess' = Finished(s)
    /\ UNCHANGED <<live, loop, up>>

\* The control plane is unhealthy: the claim is settled as a transient failure.
HcpNotReady(s) ==
    /\ sess[s].phase = "claimed" /\ "transient" \in Failures
    /\ row' = TransientFailure(row)
    /\ sess' = Finished(s)
    /\ UNCHANGED <<live, loop, up>>

\* A dispatch that throws leaves its claim to the reconcile pass.
DispatchThrows(s) ==
    /\ sess[s].phase \in {"claimed", "exited"}
    /\ sess' = Finished(s)
    /\ UNCHANGED <<row, live, loop, up>>

Spawn(s) ==
    /\ sess[s].phase = "claimed"
    /\ sess' = [sess EXCEPT ![s] = [@ EXCEPT !.phase = "spawned", !.was = NewRow]]
    /\ UNCHANGED <<row, live, loop, up>>

\* persistReviewerPgid: the write may fail, the reviewer runs all the same.
RecordPgid(s) ==
    /\ sess[s].phase = "spawned" /\ sess[s].awaited
    /\ row' \in {row, MarkReviewerPgid(row, s)}
    /\ sess' = [sess EXCEPT ![s].phase = "running"]
    /\ UNCHANGED <<live, loop, up>>

\* The reviewer posts its review of the head it was dispatched for.
Post(s) ==
    /\ Running(s) /\ ~sess[s].posted
    /\ sess' = [sess EXCEPT ![s].posted = TRUE]
    /\ UNCHANGED <<row, live, loop, up>>

\* The reviewer ends by itself, at its timeout or by the operator's cancel.
Exit(s) ==
    /\ Running(s)
    /\ sess' = Ended(s)
    /\ UNCHANGED <<row, live, loop, up>>

\* settleReviewerAttempt, by the class the run ended with.
Settle(s) ==
    /\ sess[s].phase = "exited"
    /\ \/ sess[s].posted /\ row' = SettlePosted(row, s, sess[s].head)
       \/ /\ Failures \cap {"stalled", "stale"} # {}
          /\ row' = ReleaseReviewerClaim(row, s)
       \/ "size" \in Failures /\ row' = MarkSizeFailed(row, s, sess[s].head)
       \/ "refused" \in Failures /\ row' = MarkFailed(row, "terminal")
       \/ "hold" \in Failures /\ row' = MarkHold(row)
       \/ "transient" \in Failures /\ row' = TransientFailure(row)
       \/ "outage" \in Failures /\ row' = MarkOutageTransient(row)
       \/ /\ "unknown" \in Failures
          /\ \E class \in {"unknown", "infra", "terminal"} :
               row' \in {ReleaseReviewLease(row, class), MarkFailed(row, class)}
    /\ sess' = Finished(s)
    /\ UNCHANGED <<live, loop, up>>

----------------------------------------------------------------------------
(* The reconcile pass.  It reads the row once, then awaits GitHub and the  *)
(* reviewer's process; what it writes at the end is decided by the         *)
(* snapshot, and lands on the row as it then is.                           *)

ShouldReconcileWithinLease(r) ==
    \/ r.pr # "open"
    \/ r.age = "aged" /\ ~Running(r.pgid)
    \/ r.session \in Sessions /\ ~sess[r.session].awaited

\* Which claims a poll hands to the pass; a startup hands it every claim.
ShouldReconcile(r) ==
    \/ r.pr # "open"
    \/ r.age = "expired"
    \/ r.age = "aged" /\ ~Running(r.pgid)
    \/ r.session \in Sessions /\ ~sess[r.session].awaited

ReconcileList ==
    /\ loop.pc = "idle" /\ row.status = "reviewing"
    /\ \/ up = "starting" /\ up' = "reconciled"
       \/ up = "polling" /\ ShouldReconcile(row) /\ UNCHANGED up
    /\ loop' = [IdleLoop EXCEPT !.pc = "listed", !.snap = row]
    /\ UNCHANGED <<row, live, sess>>

Decide(verdict) == [loop EXCEPT !.pc = "write", !.verdict = verdict, !.alive = FALSE]

\* SIGKILL to the snapshot's reviewer, sent when the group is found to be its.
Killed(r) == IF r.pgid \in {NoSession, r.session} THEN Ended(r.session) ELSE sess
KillOutcomes(r) == {Killed(r)} \cup (IF ScanFails THEN {sess} ELSE {})

\* Merged, or closed and confirmed on GitHub: the reviewer is killed.
ReconcileTerminal ==
    /\ loop.pc = "listed"
    /\ loop.snap.pr = "merged" \/ (loop.snap.pr = "closed" /\ live.pr # "open")
    /\ row' = IF /\ loop.snap.pr = "closed" /\ live.pr = "merged"
                 /\ row.pr = "closed" /\ row.status = "reviewing"
              THEN [row EXCEPT !.pr = "merged"] ELSE row
    /\ sess' \in KillOutcomes(loop.snap)
    /\ loop' = Decide("skip")
    /\ UNCHANGED <<live, up>>

\* Closed in the mirror, open on GitHub: the pass goes on with the claim.
ReconcileReopened ==
    /\ loop.pc = "listed" /\ loop.snap.pr = "closed" /\ live.pr = "open"
    /\ row' = IF row.pr = "closed" /\ row.status = "reviewing"
              THEN [row EXCEPT !.pr = "open"] ELSE row
    /\ loop' = [loop EXCEPT !.snap.pr = "open"]
    /\ UNCHANGED <<live, sess, up>>

\* Closed in the mirror and unreadable on GitHub: kept until the lease expires.
ReconcileUnverified ==
    /\ loop.pc = "listed" /\ loop.snap.pr = "closed"
    /\ IF loop.snap.age = "expired"
       THEN sess' \in KillOutcomes(loop.snap) /\ loop' = Decide("orphan")
       ELSE loop' = IdleLoop /\ UNCHANGED sess
    /\ UNCHANGED <<row, live, up>>

\* No recorded process group, but a run record or a process of the session.
ReconcileAdopt ==
    /\ loop.pc = "listed" /\ loop.snap.pr = "open" /\ loop.snap.pgid = NoSession
    /\ sess[loop.snap.session].phase \in {"spawned", "running", "exited", "done"}
    /\ row' = IF HeldBy(row, loop.snap.session) /\ row.pgid = NoSession
              THEN [row EXCEPT !.pgid = loop.snap.session] ELSE row
    /\ loop' = [loop EXCEPT !.pc = "probe", !.snap.pgid = loop.snap.session]
    /\ UNCHANGED <<live, sess, up>>

\* Nothing found: the claim waits out its launch window or run timeout.
ReconcileNullPgid ==
    /\ loop.pc = "listed" /\ loop.snap.pr = "open" /\ loop.snap.pgid = NoSession
    /\ ~Running(loop.snap.session) \/ ScanFails
    /\ \/ loop.snap.age # "expired" /\ loop' = IdleLoop
       \/ /\ loop.snap.age # "fresh" \/ sess[loop.snap.session].phase = "done"
          /\ loop' = [loop EXCEPT !.pc = "nullprobe"]
    /\ UNCHANGED <<row, live, sess, up>>

\* What a probe for the snapshot's review may find: its own review always, the
\* review another session posted for the head when it is recent enough.  Every
\* review is taken to carry the commit it is of.
PostedProbe(r) ==
    {found \in BOOLEAN :
        /\ found => Reviewed(r.head)
        /\ sess[r.session].posted /\ sess[r.session].head = r.head => found}

ReconcileNullProbe ==
    /\ loop.pc = "nullprobe"
    /\ \E found \in PostedProbe(loop.snap) :
         loop' = Decide(IF found /\ loop.snap.head = live.head THEN "posted" ELSE "requeue")
    /\ UNCHANGED <<row, live, sess, up>>

ReconcileKnownPgid ==
    /\ loop.pc = "listed" /\ loop.snap.pr = "open" /\ loop.snap.pgid # NoSession
    /\ loop' = [loop EXCEPT !.pc = "probe"]
    /\ UNCHANGED <<row, live, sess, up>>

\* The head is read, then the process is probed.  A group that is not the
\* session's, or cannot be told, leaves a sticky orphan; a moved head kills.
ReconcileProbe ==
    /\ loop.pc = "probe"
    /\ LET alive == Running(loop.snap.pgid)
           matched == loop.snap.pgid = loop.snap.session
       IN \/ /\ alive /\ (~matched \/ ScanFails)
             /\ row' = MarkOrphan(row)
             /\ loop' = IdleLoop
             /\ UNCHANGED sess
          \/ /\ alive => matched
             /\ loop.snap.head # live.head
             /\ sess' = Killed(loop.snap)
             /\ loop' = Decide("superseded")
             /\ UNCHANGED row
          \/ /\ alive => matched
             /\ loop.snap.head = live.head
             /\ loop' = [loop EXCEPT !.pc = "review", !.alive = alive]
             /\ UNCHANGED <<row, sess>>
    /\ UNCHANGED <<live, up>>

\* A live reviewer keeps its claim when it has posted or is within its lease.
ReconcileReview ==
    /\ loop.pc = "review"
    /\ \E found \in PostedProbe(loop.snap) :
         loop' = IF loop.alive
                 THEN IF ~found /\ loop.snap.age = "expired"
                      THEN [loop EXCEPT !.pc = "overdue"]
                      ELSE IdleLoop
                 ELSE Decide(IF found THEN "posted" ELSE "requeue")
    /\ UNCHANGED <<row, live, sess, up>>

\* TERM, then KILL; a reviewer that is not seen to die is a sticky orphan.
ReconcileReap ==
    /\ loop.pc = "overdue"
    /\ \/ /\ sess' = Killed(loop.snap)
          /\ loop' = [loop EXCEPT !.pc = "reaped"]
          /\ UNCHANGED row
       \/ /\ Running(loop.snap.pgid)
          /\ row' = MarkOrphan(row)
          /\ loop' = IdleLoop
          /\ UNCHANGED sess
    /\ UNCHANGED <<live, up>>

\* The reviewer is dead: a review it posted on the way is left to the operator.
ReconcileReaped ==
    /\ loop.pc = "reaped"
    /\ \E found \in PostedProbe(loop.snap) :
         IF found THEN row' = MarkOrphan(row) /\ loop' = IdleLoop
                  ELSE loop' = Decide("requeue") /\ UNCHANGED row
    /\ UNCHANGED <<live, sess, up>>

\* GitHub does not answer: a transient error leaves the claim, another one
\* makes it a sticky orphan.
ReconcileProbeFails ==
    /\ loop.pc \in {"nullprobe", "probe", "review", "reaped"}
    /\ row' \in {row, MarkOrphan(row)}
    /\ loop' = IdleLoop
    /\ UNCHANGED <<live, sess, up>>

ReconcileWrite ==
    /\ loop.pc = "write"
    /\ \/ loop.verdict = "skip" /\ row' = SkipTerminal(row)
       \/ loop.verdict = "orphan" /\ row' = MarkOrphan(row)
       \/ loop.verdict = "superseded" /\ row' = ReleaseSuperseded(row)
       \/ /\ loop.verdict = "posted"
          /\ row' = IF HeldBy(row, loop.snap.session)
                    THEN Posted(row, loop.snap.head)
                    ELSE ReleaseUnsettledPostedReview(row, loop.snap.session)
       \/ /\ loop.verdict = "requeue" /\ loop.snap.infra < InfraCap
          /\ row' = ReleasePending(row)
       \/ /\ loop.verdict = "requeue" /\ loop.snap.infra >= InfraCap
          /\ \E class \in {"unknown", "terminal"} : row' = MarkFailed(row, class)
    /\ loop' = IdleLoop
    /\ UNCHANGED <<live, sess, up>>

----------------------------------------------------------------------------
(* The watcher's restart.                                                  *)

\* Dispatches and queue are in memory; reviewers are detached and go on.
Crash ==
    /\ sess' = [s \in Sessions |->
                  CASE sess[s].phase \in {"unused", "queued"} -> UnusedSession
                    [] Running(s) -> [sess[s] EXCEPT !.awaited = FALSE]
                    [] OTHER -> Over(sess[s])]
    /\ loop' = IdleLoop /\ up' = "starting"
    /\ UNCHANGED <<row, live>>

StartupWithoutClaim ==
    /\ up = "starting" /\ row.status # "reviewing"
    /\ up' = "reconciled"
    /\ UNCHANGED <<row, live, sess, loop>>

\* recoverReviewerRunRecords: a run the runtime cannot reattach to.
BounceRequeue ==
    /\ up = "reconciled" /\ loop.pc = "idle" /\ row.status = "reviewing"
    /\ row' = [row EXCEPT !.status = "pending", !.fail = "bounce"]
    /\ UNCHANGED <<live, sess, loop, up>>

StartupDone ==
    /\ up = "reconciled" /\ loop.pc = "idle"
    /\ up' = "polling"
    /\ UNCHANGED <<row, live, sess, loop>>

\* A bounced reviewer past its timeout is killed before it is replaced.
BounceKill ==
    /\ up = "polling" /\ TerminalFailure(row, live.head)
    /\ row.fail = "bounce" /\ row.age = "expired" /\ Running(row.pgid)
    /\ sess' = Killed(row)
    /\ UNCHANGED <<row, live, loop, up>>

\* A failed claim whose review is found on GitHub before a retry is settled.
RecoverPostedFailure ==
    /\ up = "polling" /\ TerminalFailure(row, live.head)
    /\ row.fail \in {"bounce", "unknown"} /\ row.session \in Sessions
    /\ row.head # NullHead
    /\ row.fail = "bounce" => row.age = "expired" \/ row.pgid # NoSession
    /\ ~Running(row.pgid)
    /\ TRUE \in PostedProbe(row)
    /\ row' = Posted(row, row.head)
    /\ UNCHANGED <<live, sess, loop, up>>

----------------------------------------------------------------------------
(* The poll's other writes, the mirror, the operator and the world.        *)

AutoReclaimUncapped ==
    /\ up = "polling" /\ row.status = "failed-orphan" /\ row.pr = "open"
    /\ row.age = "expired" /\ ~Running(row.pgid)
    /\ row' = [Reset(row) EXCEPT !.fail = "terminal", !.infra = row.infra + 1]
    /\ UNCHANGED <<live, sess, loop, up>>

\* A sticky orphan past its lease, with no live process group on record.
AutoReclaim ==
    /\ up = "polling" /\ row.status = "failed-orphan" /\ row.pr = "open"
    /\ row.infra < InfraCap /\ row.age = "expired" /\ ~Running(row.pgid)
    /\ \E found \in IF row.session \in Sessions THEN PostedProbe(row) ELSE {FALSE} :
         row' = IF found
                THEN SettlePosted(row, row.session, row.head)
                ELSE [Reset(row) EXCEPT !.fail = "terminal", !.infra = row.infra + 1]
    /\ UNCHANGED <<live, sess, loop, up>>

\* A failure on the current head that no claim will retry becomes final.
Finalize ==
    /\ up = "polling" /\ row.status = "pending" /\ row.head # NullHead
    /\ TerminalFailure(row, live.head)
    /\ row' = [row EXCEPT !.status = "failed"]
    /\ UNCHANGED <<live, sess, loop, up>>

\* A review settled for any pull request ends its model's credential outage.
RearmReviewerCredentialOutage ==
    /\ up = "polling" /\ row.pr = "open" /\ row.fail = "infra"
    /\ row.status \in {"pending", "pending-upstream"} /\ row.session = NoSession
    /\ row' = [row EXCEPT !.status = "pending", !.fail = "none", !.infra = 0]
    /\ UNCHANGED <<live, sess, loop, up>>

MergedSkip ==
    /\ up = "polling" /\ row.pr = "merged"
    /\ row.status \in {"pending", "pending-upstream", "reviewing"}
    /\ row' = [Freed(row) EXCEPT !.status = "skipped", !.fail = "none"]
    /\ UNCHANGED <<live, sess, loop, up>>

\* The lifecycle mirror; a reopened pull request gets its failed review back.
MirrorSync ==
    /\ row.pr # live.pr
    /\ row' = [(IF live.pr = "open" /\ row.status \in {"failed", "failed-orphan"}
                THEN Reset(row) ELSE row) EXCEPT !.pr = live.pr]
    /\ UNCHANGED <<live, sess, loop, up>>

\* requestReviewRereview: refused while a review is in flight.
Rereview ==
    /\ row.pr = "open" /\ row.status # "reviewing"
    /\ row' = Reset(row)
    /\ UNCHANGED <<live, sess, loop, up>>

\* forceResetReviewToPending: the recorded process group was seen to be gone.
ForceReset ==
    /\ row.pr = "open" /\ row.status = "reviewing"
    /\ row.pgid # NoSession /\ ~Running(row.pgid)
    /\ row' = Reset(row)
    /\ UNCHANGED <<live, sess, loop, up>>

Age ==
    /\ row.status \in {"reviewing", "failed-orphan"} \/ row.fail = "bounce"
    /\ row.age # "expired"
    /\ row' = [row EXCEPT !.age = IF row.age = "fresh" THEN "aged" ELSE "expired"]
    /\ UNCHANGED <<live, sess, loop, up>>

\* A push, a close, a reopening, a merge.
PullRequestChanges ==
    /\ \/ /\ live.pr # "merged" /\ live.head < MaxHead
          /\ live' = [live EXCEPT !.head = @ + 1]
       \/ live.pr = "open" /\ live' = [live EXCEPT !.pr = "closed"]
       \/ live.pr = "closed" /\ live' = [live EXCEPT !.pr = "open"]
       \/ live.pr = "open" /\ live' = [live EXCEPT !.pr = "merged"]
    /\ UNCHANGED <<row, sess, loop, up>>

----------------------------------------------------------------------------
Dispatch(s) ==
    \/ Admit(s) \/ RestoreDeduped(s) \/ Claim(s)
    \/ FreshnessRefuses(s) \/ AdmissionRefuses(s) \/ HcpNotReady(s)
    \/ DispatchThrows(s) \/ Spawn(s) \/ RecordPgid(s)
    \/ Post(s) \/ Exit(s) \/ Settle(s)

Reconcile ==
    \/ ReconcileList \/ ReconcileTerminal \/ ReconcileReopened
    \/ ReconcileUnverified \/ ReconcileAdopt \/ ReconcileNullPgid
    \/ ReconcileNullProbe \/ ReconcileKnownPgid \/ ReconcileProbe
    \/ ReconcileReview \/ ReconcileReap \/ ReconcileReaped
    \/ ReconcileProbeFails \/ ReconcileWrite

Restart ==
    \/ Crash \/ StartupWithoutClaim \/ BounceRequeue \/ StartupDone
    \/ BounceKill \/ RecoverPostedFailure

Others ==
    \/ AutoReclaim \/ Finalize \/ RearmReviewerCredentialOutage
    \/ MergedSkip \/ MirrorSync \/ Rereview \/ ForceReset \/ Age \/ PullRequestChanges

Next == (\E s \in Sessions : Dispatch(s)) \/ Reconcile \/ Restart \/ Others

Spec == Init /\ [][Next]_vars

(***************************************************************************)
(* The watcher keeps polling (its passes run to the end), time passes, a   *)
(* GitHub probe that is tried again and again succeeds some time, and a    *)
(* reviewer that has posted ends some time.  Nothing is assumed of a       *)
(* reviewer that has not posted, nor of the dispatch that awaits one.      *)
(***************************************************************************)
Fairness ==
    /\ WF_vars(Age) /\ WF_vars(ReconcileList)
    /\ WF_vars(\/ ReconcileTerminal \/ ReconcileReopened \/ ReconcileUnverified
               \/ ReconcileAdopt \/ ReconcileNullPgid \/ ReconcileKnownPgid)
    /\ SF_vars(ReconcileNullProbe) /\ SF_vars(ReconcileProbe)
    /\ SF_vars(ReconcileReview) /\ SF_vars(ReconcileReaped)
    /\ WF_vars(ReconcileReap) /\ WF_vars(ReconcileWrite)
    /\ \A s \in Sessions : WF_vars(sess[s].posted /\ Exit(s))

FairSpec == Spec /\ Fairness

----------------------------------------------------------------------------
(* Properties.                                                             *)

(* Every column, session and cursor has its type.                          *)
TypeOK ==
    /\ row \in Row
    /\ live \in [head: Heads, pr: PrStates]
    /\ sess \in [Sessions -> Session]
    /\ loop \in Loop
    /\ up \in {"starting", "reconciled", "polling"}

(* The process group the row records, and the one a reconcile pass is      *)
(* about to probe or signal, belong to the session that holds the claim:   *)
(* a late persistReviewerPgid of a replaced dispatch, an adoption from a   *)
(* run record or a restored claim never pairs a session with another       *)
(* session's process.                                                      *)
HandleMatchesClaim ==
    /\ row.pgid \in {NoSession, row.session}
    /\ loop.pc # "idle" => loop.snap.pgid \in {NoSession, loop.snap.session}

(* A row marked posted names a head some reviewer really posted a review   *)
(* for, whichever of the modelled ways of settling a post wrote it: the    *)
(* dispatch's settlement, the pass's two, the recovery of a failed claim,  *)
(* the reclaim of an orphan, the deduplication and a restored row.         *)
PostedHeadReviewed == row.status = "posted" => Reviewed(row.head)

(* While no reconcile pass is under way, the claim of a dispatch whose     *)
(* reviewer runs under this watcher, within its launch grace and on an     *)
(* open pull request, is taken from it by nobody: a settlement of another  *)
(* dispatch never overwrites it.                                           *)
Established ==
    /\ row.status = "reviewing" /\ row.session \in Sessions
    /\ Running(row.session) /\ sess[row.session].awaited
    /\ row.age = "fresh" /\ row.pr = "open"

ClaimKept == [][Established /\ loop.pc = "idle" => HeldBy(row', row.session)]_vars

(* A row that has spent its automatic recoveries gets no further one: only *)
(* a cascade whose retry is due counts past INFRA_AUTO_RECOVER_CAP, or a   *)
(* claim that is given back with the count it found.  The others check the *)
(* cap where they write, however long ago they were decided; a pass does   *)
(* so by its snapshot, hence only while that still has the row's count.    *)
CapRespected ==
    [][(/\ loop.pc = "idle" \/ loop.snap.infra = row.infra
        /\ row.infra >= InfraCap /\ row'.infra > row.infra)
         => \E s \in Sessions :
              \/ sess[s].kind = "due" /\ HeldBy(row', s)
              \/ HeldBy(row, s) /\ row' = RestorePreClaim(row, s, sess[s].was)]_vars

(* The row as a register of claims: whoever releases, settles, requeues,   *)
(* restores or resets it, and whatever was remembered from before an       *)
(* await, the claim never passes from one session to another in one write  *)
(* and no write gives a session back the claim it has lost.                *)
Holder == IF row.status = "reviewing" THEN {row.session} ELSE {}
Claimants == {s \in Sessions : sess[s].phase \notin {"unused", "queued"}}

Register == INSTANCE ClaimRegister WITH holder <- Holder, used <- Claimants
ImplementsRegister == Register!Spec

(* No claim holds the row for ever: once the watcher stays up and the pull *)
(* request stays open, closed or merged, the claim of a reviewer that      *)
(* hangs, dies or was never spawned, of a dispatch that never returns, or  *)
(* of a watcher that is gone, is taken back by the reconcile pass.         *)
NoStuckClaim ==
    (/\ <>[](up = "polling")
     /\ \E state \in PrStates : <>[](live.pr = state))
      => \A s \in Sessions : [](HeldBy(row, s) => <>~HeldBy(row, s))
=============================================================================
