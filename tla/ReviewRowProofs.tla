-------------------------- MODULE ReviewRowProofs --------------------------
(***************************************************************************)
(* Type correctness of the review row, its safety results and the register *)
(* of claims it implements, for every set of sessions, number of heads,    *)
(* recovery cap and set of failure classes.                                *)
(***************************************************************************)
EXTENDS ReviewRow, TLAPS

----------------------------------------------------------------------------
(* Rows                                                                    *)

\* A row whose process group, if it records one, is that of the session that
\* holds the claim.  Every statement takes such rows to such rows.
HandledRow == {r \in Row : r.pgid \in {NoSession, r.session}}

LEMMA RowFields ==
  ASSUME NEW r \in Row
  PROVE  /\ r.status \in Statuses /\ r.pr \in PrStates
         /\ r.session \in MaybeSession /\ r.pgid \in MaybeSession
         /\ r.head \in 0 .. MaxHead /\ r.infra \in Nat
         /\ r.age \in {"fresh", "aged", "expired"}
         /\ r.fail \in {"none", "infra", "unknown", "bounce", "terminal"}
  BY DEF Row

LEMMA NewRowHandled == NewRow \in HandledRow
  BY BoundAssumption
  DEF NewRow, HandledRow, Row, Statuses, PrStates, MaybeSession, NullHead

LEMMA ChargedType ==
  ASSUME NEW n \in Nat, NEW kind
  PROVE  Charged(n, kind) \in Nat
  BY BoundAssumption DEF Charged

LEMMA ZeroType == 0 \in 0 .. MaxHead /\ 0 \in Nat
  BY BoundAssumption

\* The updates the statements are made of, on rows of any kind.
LEMMA RowUpdates ==
  ASSUME NEW r \in HandledRow
  PROVE  /\ \A pr \in PrStates : [r EXCEPT !.pr = pr] \in HandledRow
         /\ \A age \in {"fresh", "aged", "expired"} : [r EXCEPT !.age = age] \in HandledRow
         /\ \A status \in Statuses : [r EXCEPT !.status = status] \in HandledRow
         /\ \A status \in Statuses :
              [r EXCEPT !.status = status, !.fail = "none"] \in HandledRow
         /\ [r EXCEPT !.status = "pending", !.fail = "bounce"] \in HandledRow
         /\ \A n \in Nat :
              /\ [r EXCEPT !.status = "pending", !.fail = "none", !.infra = n] \in HandledRow
              /\ [r EXCEPT !.status = "pending", !.fail = "terminal", !.infra = n] \in HandledRow
              /\ [r EXCEPT !.fail = "terminal", !.infra = n] \in HandledRow
         /\ \A h \in 0 .. MaxHead :
              [r EXCEPT !.status = "posted", !.head = h, !.fail = "none",
                        !.age = "fresh"] \in HandledRow
         /\ [r EXCEPT !.pgid = r.session] \in HandledRow
  <1> USE DEF HandledRow, Row
  <1>1. \A pr \in PrStates : [r EXCEPT !.pr = pr] \in HandledRow
    OBVIOUS
  <1>2. \A age \in {"fresh", "aged", "expired"} : [r EXCEPT !.age = age] \in HandledRow
    OBVIOUS
  <1>3. \A status \in Statuses : [r EXCEPT !.status = status] \in HandledRow
    OBVIOUS
  <1>4. \A status \in Statuses : [r EXCEPT !.status = status, !.fail = "none"] \in HandledRow
    OBVIOUS
  <1>5. [r EXCEPT !.status = "pending", !.fail = "bounce"] \in HandledRow
    BY DEF Statuses
  <1>6. ASSUME NEW n \in Nat
        PROVE  [r EXCEPT !.status = "pending", !.fail = "none", !.infra = n] \in HandledRow
    BY DEF Statuses
  <1>7. ASSUME NEW n \in Nat
        PROVE  [r EXCEPT !.status = "pending", !.fail = "terminal", !.infra = n] \in HandledRow
    BY DEF Statuses
  <1>8. ASSUME NEW n \in Nat
        PROVE  [r EXCEPT !.fail = "terminal", !.infra = n] \in HandledRow
    OBVIOUS
  <1>9. ASSUME NEW h \in 0 .. MaxHead
        PROVE  [r EXCEPT !.status = "posted", !.head = h, !.fail = "none",
                         !.age = "fresh"] \in HandledRow
    BY DEF Statuses
  <1>10. [r EXCEPT !.pgid = r.session] \in HandledRow
    OBVIOUS
  <1> HIDE DEF HandledRow, Row
  <1> QED
    BY <1>1, <1>2, <1>3, <1>4, <1>5, <1>6, <1>7, <1>8, <1>9, <1>10

LEMMA FreedHandled ==
  ASSUME NEW r \in HandledRow
  PROVE  /\ Freed(r) \in HandledRow
         /\ Reset(r) \in HandledRow
         /\ Freed(r).pr = r.pr /\ Reset(r).pr = r.pr
  <1>1. Freed(r) \in HandledRow /\ Freed(r).pr = r.pr
    BY ZeroType DEF Freed, HandledRow, Row, MaybeSession, NullHead
  <1>2. Reset(r) \in HandledRow
    BY <1>1, RowUpdates, ZeroType DEF Reset
  <1>3. Reset(r).pr = r.pr
    BY <1>1 DEF Reset, HandledRow, Row
  <1> QED
    BY <1>1, <1>2, <1>3

LEMMA ClaimedHandled ==
  ASSUME NEW r \in HandledRow, NEW s \in Sessions, NEW kind, NEW h \in 0 .. MaxHead
  PROVE  Claimed(r, s, kind, h) \in HandledRow
  <1>1. Charged(r.infra, kind) \in Nat
    BY ChargedType DEF HandledRow, Row
  <1> QED
    BY <1>1 DEF Claimed, HandledRow, Row, Statuses, MaybeSession

\* The statements of dispatches and their settlements.
LEMMA StatementsHandled ==
  ASSUME NEW r \in HandledRow, NEW s \in MaybeSession, NEW h \in 0 .. MaxHead,
         NEW class \in {"none", "infra", "unknown", "bounce", "terminal"}
  PROVE  /\ ReleaseReviewerClaim(r, s) \in HandledRow
         /\ MarkRereviewCiBlocked(r, s) \in HandledRow
         /\ MarkReviewerPgid(r, s) \in HandledRow
         /\ Posted(r, h) \in HandledRow
         /\ ReleaseUnsettledPostedReview(r, s) \in HandledRow
         /\ SettlePosted(r, s, h) \in HandledRow
         /\ MarkSizeFailed(r, s, h) \in HandledRow
         /\ MarkFailed(r, class) \in HandledRow
         /\ MarkHold(r) \in HandledRow
         /\ MarkOutageTransient(r) \in HandledRow
         /\ ReleaseReviewLease(r, class) \in HandledRow
         /\ MarkOrphan(r) \in HandledRow
  <1>0. "pending" \in Statuses
    BY DEF Statuses
  <1>1. ReleaseReviewerClaim(r, s) \in HandledRow
    BY FreedHandled, RowUpdates, <1>0 DEF ReleaseReviewerClaim
  <1>2. MarkRereviewCiBlocked(r, s) \in HandledRow
    BY DEF MarkRereviewCiBlocked, HandledRow, Row, Statuses, MaybeSession
  <1>3. MarkReviewerPgid(r, s) \in HandledRow
    BY DEF MarkReviewerPgid, HeldBy, HandledRow, Row
  <1>4. Posted(r, h) \in HandledRow
    BY ZeroType DEF Posted, HandledRow, Row, Statuses
  <1>5. ReleaseUnsettledPostedReview(r, s) \in HandledRow
    BY FreedHandled, RowUpdates, <1>0 DEF ReleaseUnsettledPostedReview
  <1>6. SettlePosted(r, s, h) \in HandledRow
    BY <1>4, <1>5 DEF SettlePosted
  <1>7. MarkSizeFailed(r, s, h) \in HandledRow
    BY DEF MarkSizeFailed, HandledRow, Row, Statuses
  <1>a. MarkFailed(r, class) \in HandledRow
    BY DEF MarkFailed, HandledRow, Row, Statuses
  <1>8. MarkHold(r) \in HandledRow /\ MarkOutageTransient(r) \in HandledRow
    BY DEF MarkHold, MarkOutageTransient, HandledRow, Row, Statuses, MaybeSession
  <1>9. ReleaseReviewLease(r, class) \in HandledRow /\ MarkOrphan(r) \in HandledRow
    BY DEF ReleaseReviewLease, MarkOrphan, HandledRow, Row, Statuses
  <1> QED
    BY <1>1, <1>2, <1>3, <1>4, <1>5, <1>6, <1>7, <1>a, <1>8, <1>9

\* The statements that count a recovery.
LEMMA CountingHandled ==
  ASSUME NEW r \in HandledRow
  PROVE  /\ TransientFailure(r) \in HandledRow
         /\ ReleasePending(r) \in HandledRow
         /\ [Reset(r) EXCEPT !.fail = "terminal", !.infra = r.infra + 1] \in HandledRow
  <1>1. r.infra + 1 \in Nat
    BY DEF HandledRow, Row
  <1>2. TransientFailure(r) \in HandledRow
    <2>1. MarkFailed(r, "infra") \in HandledRow
      BY StatementsHandled, BoundAssumption DEF MaybeSession
    <2>2. \A n \in Nat :
            [r EXCEPT !.status = "pending-upstream", !.fail = "infra", !.age = "fresh",
                      !.session = NoSession, !.pgid = NoSession, !.infra = n] \in HandledRow
      BY DEF HandledRow, Row, Statuses, MaybeSession
    <2> QED
      BY <1>1, <2>1, <2>2 DEF TransientFailure
  <1>3. ReleasePending(r) \in HandledRow
    BY <1>1, FreedHandled, RowUpdates DEF ReleasePending
  <1>4. [Reset(r) EXCEPT !.fail = "terminal", !.infra = r.infra + 1] \in HandledRow
    BY <1>1, FreedHandled, RowUpdates
  <1> QED
    BY <1>2, <1>3, <1>4

\* The statements of the reconcile pass and of the poll.
LEMMA OthersHandled ==
  ASSUME NEW r \in HandledRow, NEW was \in HandledRow, NEW s \in MaybeSession
  PROVE  /\ RestorePreClaim(r, s, was) \in HandledRow
         /\ ReleaseSuperseded(r) \in HandledRow
         /\ SkipTerminal(r) \in HandledRow
  <1>1. RestorePreClaim(r, s, was) \in HandledRow
    <2>1. r.pr \in PrStates
      BY RowFields DEF HandledRow
    <2> QED
      BY <2>1, RowUpdates DEF RestorePreClaim
  <1>2. ReleaseSuperseded(r) \in HandledRow
    BY FreedHandled DEF ReleaseSuperseded
  <1>3. SkipTerminal(r) \in HandledRow
    <2>1. "skipped" \in Statuses
      BY DEF Statuses
    <2> QED
      BY <2>1, FreedHandled, RowUpdates DEF SkipTerminal
  <1> QED
    BY <1>1, <1>2, <1>3

----------------------------------------------------------------------------
(* Sessions and the reconcile pass                                         *)

\* A session, and a pass, that remember only such rows.
HandledSession == {x \in Session : x.was \in HandledRow}
HandledLoop == {l \in Loop : l.snap \in HandledRow}

Phases == {"unused", "queued", "claimed", "spawned", "running", "exited", "done"}
Kinds == {"pending", "token", "infra", "due", "probe", "retry", "bounce"}

LEMMA SessionFields ==
  ASSUME NEW x \in HandledSession
  PROVE  /\ x.phase \in Phases /\ x.kind \in Kinds /\ x.head \in 0 .. MaxHead
         /\ x.awaited \in BOOLEAN /\ x.posted \in BOOLEAN /\ x.was \in HandledRow
  BY DEF HandledSession, Session, Phases, Kinds

LEMMA UnusedHandled == UnusedSession \in HandledSession
  BY NewRowHandled, ZeroType
  DEF UnusedSession, HandledSession, Session, HandledRow, NullHead

\* What the steps of a dispatch write into a session.
LEMMA SessionUpdates ==
  ASSUME NEW x \in HandledSession,
         NEW phase \in Phases, NEW kind \in Kinds, NEW h \in 0 .. MaxHead,
         NEW awaited \in BOOLEAN, NEW was \in HandledRow
  PROVE  /\ [x EXCEPT !.phase = phase] \in HandledSession
         /\ [x EXCEPT !.posted = TRUE] \in HandledSession
         /\ [x EXCEPT !.awaited = FALSE] \in HandledSession
         /\ [x EXCEPT !.phase = phase, !.was = was] \in HandledSession
         /\ [x EXCEPT !.phase = phase, !.kind = kind, !.head = h, !.was = was] \in HandledSession
         /\ [x EXCEPT !.phase = phase, !.awaited = awaited, !.kind = kind, !.was = was] \in HandledSession
         /\ [x EXCEPT !.phase = phase, !.awaited = awaited, !.kind = kind,
                      !.was = was, !.head = h] \in HandledSession
  <1>r. HandledRow \subseteq Row
    BY DEF HandledRow
  <1> USE DEF HandledSession, Session, Phases, Kinds
  <1>1. /\ [x EXCEPT !.phase = phase] \in HandledSession
        /\ [x EXCEPT !.posted = TRUE] \in HandledSession
        /\ [x EXCEPT !.awaited = FALSE] \in HandledSession
    OBVIOUS
  <1>2. [x EXCEPT !.phase = phase, !.was = was] \in HandledSession
    BY <1>r
  <1>3. [x EXCEPT !.phase = phase, !.kind = kind, !.head = h, !.was = was] \in HandledSession
    BY <1>r
  <1>4. [x EXCEPT !.phase = phase, !.awaited = awaited, !.kind = kind, !.was = was]
          \in HandledSession
    BY <1>r
  <1>5. [x EXCEPT !.phase = phase, !.awaited = awaited, !.kind = kind,
                  !.was = was, !.head = h] \in HandledSession
    BY <1>r
  <1> QED
    BY <1>1, <1>2, <1>3, <1>4, <1>5

LEMMA OverHandled ==
  ASSUME NEW x \in HandledSession
  PROVE  /\ Over(x) \in HandledSession
         /\ Over(x).phase = "done" /\ ~Over(x).awaited /\ Over(x).posted = x.posted
         /\ x.posted => Over(x).head = x.head
  <1>1. (IF x.posted THEN x.head ELSE NullHead) \in 0 .. MaxHead
    BY SessionFields, ZeroType DEF NullHead
  <1>2. Over(x) \in HandledSession
    <2>1. "done" \in Phases /\ "pending" \in Kinds
      BY DEF Phases, Kinds
    <2>2. \A h \in 0 .. MaxHead :
            [x EXCEPT !.phase = "done", !.awaited = FALSE, !.kind = "pending",
                      !.was = NewRow, !.head = h] \in HandledSession
      BY <2>1, SessionUpdates, NewRowHandled, Zenon
    <2> QED
      BY <1>1, <2>2, Zenon DEF Over
  <1>3. /\ Over(x).phase = "done" /\ ~Over(x).awaited /\ Over(x).posted = x.posted
        /\ x.posted => Over(x).head = x.head
    BY DEF Over, HandledSession, Session
  <1> QED
    BY <1>2, <1>3

LEMMA SessionsHandled ==
  ASSUME sess \in [Sessions -> HandledSession], NEW s
  PROVE  /\ s \in Sessions => Finished(s) \in [Sessions -> HandledSession]
         /\ Ended(s) \in [Sessions -> HandledSession]
         /\ \A r : Killed(r) \in [Sessions -> HandledSession]
         /\ \A r : KillOutcomes(r) \subseteq [Sessions -> HandledSession]
  <1>1. \A t \in Sessions : Finished(t) \in [Sessions -> HandledSession]
    BY OverHandled DEF Finished
  <1>2. \A t : Ended(t) \in [Sessions -> HandledSession]
    <2> TAKE t
    <2>1. CASE Running(t) /\ sess[t].awaited
      <3>1. t \in Sessions
        BY <2>1 DEF Running
      <3>2. [sess[t] EXCEPT !.phase = "exited"] \in HandledSession
        BY <3>1, SessionUpdates, NewRowHandled, ZeroType DEF Phases, Kinds
      <3>3. Ended(t) = [sess EXCEPT ![t] = [sess[t] EXCEPT !.phase = "exited"]]
        BY <2>1 DEF Ended
      <3> QED
        BY <3>1, <3>2, <3>3
    <2>2. CASE Running(t) /\ ~sess[t].awaited
      BY <2>2, <1>1 DEF Ended, Running
    <2>3. CASE ~Running(t)
      BY <2>3 DEF Ended
    <2> QED
      BY <2>1, <2>2, <2>3
  <1>3. \A r : Killed(r) \in [Sessions -> HandledSession]
    BY <1>2 DEF Killed
  <1>4. \A r : KillOutcomes(r) \subseteq [Sessions -> HandledSession]
    BY <1>3 DEF KillOutcomes
  <1> QED
    BY <1>1, <1>2, <1>3, <1>4

LEMMA IdleLoopHandled == IdleLoop \in HandledLoop
  BY NewRowHandled DEF IdleLoop, HandledLoop, Loop, HandledRow

\* The pass moves on: its cursor changes, its snapshot stays a handled row.
LEMMA LoopUpdates ==
  ASSUME NEW l \in HandledLoop
  PROVE  /\ \A pc \in {"probe", "nullprobe", "overdue", "reaped"} :
              [l EXCEPT !.pc = pc] \in HandledLoop
         /\ [l EXCEPT !.snap.pr = "open"] \in HandledLoop
         /\ [l EXCEPT !.pc = "probe", !.snap.pgid = l.snap.session] \in HandledLoop
         /\ \A alive \in BOOLEAN :
              [l EXCEPT !.pc = "review", !.alive = alive] \in HandledLoop
         /\ \A v \in {"skip", "orphan", "superseded", "posted", "requeue"} :
              [l EXCEPT !.pc = "write", !.verdict = v, !.alive = FALSE] \in HandledLoop
         /\ \A r \in HandledRow : [l EXCEPT !.pc = "listed", !.snap = r] \in HandledLoop
  <1>1. \A pc \in {"probe", "nullprobe", "overdue", "reaped"} :
          [l EXCEPT !.pc = pc] \in HandledLoop
    BY DEF HandledLoop, Loop
  <1>2. [l EXCEPT !.snap.pr = "open"] \in HandledLoop
    <2>1. [l.snap EXCEPT !.pr = "open"] \in HandledRow
      BY RowUpdates DEF HandledLoop, PrStates
    <2>2. [l EXCEPT !.snap = [l.snap EXCEPT !.pr = "open"]] \in HandledLoop
      BY <2>1 DEF HandledLoop, Loop, HandledRow
    <2> QED
      BY <2>2
  <1>3. [l EXCEPT !.pc = "probe", !.snap.pgid = l.snap.session] \in HandledLoop
    <2>1. [l.snap EXCEPT !.pgid = l.snap.session] \in HandledRow
      BY RowUpdates DEF HandledLoop
    <2>2. [l EXCEPT !.pc = "probe", !.snap = [l.snap EXCEPT !.pgid = l.snap.session]] \in HandledLoop
      BY <2>1 DEF HandledLoop, Loop, HandledRow
    <2> QED
      BY <2>2
  <1>4. \A alive \in BOOLEAN :
          [l EXCEPT !.pc = "review", !.alive = alive] \in HandledLoop
    BY DEF HandledLoop, Loop
  <1>5. \A v \in {"skip", "orphan", "superseded", "posted", "requeue"} :
          [l EXCEPT !.pc = "write", !.verdict = v, !.alive = FALSE] \in HandledLoop
    BY DEF HandledLoop, Loop
  <1>6. \A r \in HandledRow : [l EXCEPT !.pc = "listed", !.snap = r] \in HandledLoop
    BY DEF HandledLoop, Loop, HandledRow
  <1> QED
    BY <1>1, <1>2, <1>3, <1>4, <1>5, <1>6

----------------------------------------------------------------------------
(* Type correctness, with the pairing of sessions and process groups       *)

\* The pairing alone is not inductive: a claim that is not executed puts the
\* remembered row back, and the pass adopts a group into its snapshot, so the
\* remembered rows and the snapshot are paired too.
Handled ==
  /\ row \in HandledRow
  /\ live \in [head : Heads, pr : PrStates]
  /\ sess \in [Sessions -> HandledSession]
  /\ loop \in HandledLoop
  /\ up \in {"starting", "reconciled", "polling"}

LEMMA HandledInit == Init => Handled
  BY NewRowHandled, UnusedHandled, IdleLoopHandled, BoundAssumption
  DEF Init, Handled, Heads, PrStates

\* Facts every step's proof uses.
LEMMA HandledFields ==
  ASSUME Handled
  PROVE  /\ row.pr \in PrStates /\ row.session \in MaybeSession /\ row.pgid \in MaybeSession
         /\ row.head \in 0 .. MaxHead /\ row.infra \in Nat
         /\ live.head \in 0 .. MaxHead /\ live.pr \in PrStates
         /\ loop.snap \in HandledRow
         /\ loop.snap.session \in MaybeSession /\ loop.snap.head \in 0 .. MaxHead
         /\ NoSession \in MaybeSession
         /\ \A s \in Sessions : s \in MaybeSession /\ sess[s] \in HandledSession
  <1>1. row \in Row /\ loop.snap \in HandledRow /\ loop.snap \in Row
    BY DEF Handled, HandledRow, HandledLoop
  <1>2. live.head \in 0 .. MaxHead /\ live.pr \in PrStates
    BY BoundAssumption DEF Handled, Heads
  <1> QED
    BY <1>1, <1>2, RowFields DEF Handled, MaybeSession

LEMMA HandledDispatch ==
  ASSUME Handled, NEW s \in Sessions, Dispatch(s)
  PROVE  Handled'
  <1> DEFINE x == sess[s]
  <1>0. x \in HandledSession /\ x.head \in 0 .. MaxHead /\ x.was \in HandledRow /\ s \in MaybeSession
    BY HandledFields, SessionFields
  <1>k. "pending" \in Kinds /\ {"queued", "claimed", "spawned", "running"} \subseteq Phases
    BY DEF Kinds, Phases
  <1>f. Finished(s) \in [Sessions -> HandledSession] /\ Ended(s) \in [Sessions -> HandledSession]
    BY SessionsHandled DEF Handled
  <1>u. \A y \in HandledSession : [sess EXCEPT ![s] = y] \in [Sessions -> HandledSession]
    BY DEF Handled
  <1>1. CASE Admit(s)
    <2>1. PICK k \in AdmissibleKinds(row, live.head) :
            sess' = [sess EXCEPT ![s] = [sess[s] EXCEPT !.phase = "queued", !.kind = k,
                                           !.head = live.head, !.was = row]]
      BY <1>1 DEF Admit
    <2>2. k \in Kinds
      BY DEF AdmissibleKinds, Kinds
    <2>3. [x EXCEPT !.phase = "queued", !.kind = k, !.head = live.head, !.was = row] \in HandledSession
      BY <1>0, <1>k, <2>2, SessionUpdates, HandledFields, Zenon DEF Handled
    <2>4. sess' \in [Sessions -> HandledSession]
      BY <2>1, <2>3, <1>u
    <2> QED
      BY <1>1, <2>4 DEF Admit, Handled
  <1>2. CASE RestoreDeduped(s)
    <2>1. row' \in HandledRow
      BY <1>2, <1>0, RowUpdates DEF RestoreDeduped, Handled
    <2>2. sess' \in [Sessions -> HandledSession]
      BY <1>2, <1>u, UnusedHandled DEF RestoreDeduped
    <2> QED
      BY <1>2, <2>1, <2>2 DEF RestoreDeduped, Handled
  <1>3. CASE Claim(s)
    <2>1. row' \in HandledRow
      BY <1>3, <1>0, ClaimedHandled DEF Claim, Handled
    <2>2. [x EXCEPT !.phase = "claimed", !.awaited = TRUE, !.kind = "pending", !.was = row]
            \in HandledSession
      BY <1>0, <1>k, SessionUpdates, Zenon DEF Handled
    <2>3. sess' \in [Sessions -> HandledSession]
      BY <1>3, <2>2, <1>u, UnusedHandled DEF Claim
    <2> QED
      BY <1>3, <2>1, <2>3 DEF Claim, Handled
  <1>4. CASE FreshnessRefuses(s)
    <2>1. [row EXCEPT !.pr = live.pr] \in HandledRow
      BY RowUpdates, HandledFields DEF Handled
    <2>2. ReleaseReviewerClaim(row, s) \in HandledRow
      BY <1>0, StatementsHandled DEF Handled
    <2>3. RestorePreClaim(row, s, x.was) \in HandledRow
      BY <1>0, OthersHandled DEF Handled
    <2> QED
      BY <1>4, <2>1, <2>2, <2>3, <1>f DEF FreshnessRefuses, Handled
  <1>5. CASE AdmissionRefuses(s)
    <2>1. ReleaseReviewerClaim(row, s) \in HandledRow /\ MarkRereviewCiBlocked(row, s) \in HandledRow
      BY <1>0, StatementsHandled DEF Handled
    <2> QED
      BY <1>5, <2>1, <1>f DEF AdmissionRefuses, Handled
  <1>6. CASE HcpNotReady(s)
    BY <1>6, <1>f, CountingHandled DEF HcpNotReady, Handled
  <1>7. CASE DispatchThrows(s)
    BY <1>7, <1>f DEF DispatchThrows, Handled
  <1>8. CASE Spawn(s)
    <2>1. [x EXCEPT !.phase = "spawned", !.was = NewRow] \in HandledSession
      BY <1>0, <1>k, SessionUpdates, NewRowHandled
    <2>2. sess' \in [Sessions -> HandledSession]
      BY <1>8, <2>1, <1>u DEF Spawn
    <2> QED
      BY <1>8, <2>2 DEF Spawn, Handled
  <1>9. CASE RecordPgid(s)
    <2>1. MarkReviewerPgid(row, s) \in HandledRow
      BY <1>0, StatementsHandled DEF Handled
    <2>2. [x EXCEPT !.phase = "running"] \in HandledSession
      BY <1>0, <1>k, SessionUpdates, NewRowHandled
    <2>3. sess' \in [Sessions -> HandledSession]
      BY <1>9, <2>2, <1>u DEF RecordPgid
    <2> QED
      BY <1>9, <2>1, <2>3 DEF RecordPgid, Handled
  <1>10. CASE Post(s)
    <2>1. [x EXCEPT !.posted = TRUE] \in HandledSession
      BY <1>0, <1>k, SessionUpdates, NewRowHandled
    <2>2. sess' \in [Sessions -> HandledSession]
      BY <1>10, <2>1, <1>u DEF Post
    <2> QED
      BY <1>10, <2>2 DEF Post, Handled
  <1>11. CASE Exit(s)
    BY <1>11, <1>f DEF Exit, Handled
  <1>12. CASE Settle(s)
    <2>1. row' \in HandledRow
      <3>1. /\ SettlePosted(row, s, x.head) \in HandledRow
            /\ ReleaseReviewerClaim(row, s) \in HandledRow
            /\ MarkSizeFailed(row, s, x.head) \in HandledRow
            /\ MarkHold(row) \in HandledRow
            /\ MarkOutageTransient(row) \in HandledRow
        BY <1>0, StatementsHandled DEF Handled
      <3>2. \A class \in {"unknown", "infra", "terminal"} :
              MarkFailed(row, class) \in HandledRow /\ ReleaseReviewLease(row, class) \in HandledRow
        BY <1>0, StatementsHandled DEF Handled
      <3>3. TransientFailure(row) \in HandledRow
        BY CountingHandled DEF Handled
      <3> QED
        BY <1>12, <3>1, <3>2, <3>3 DEF Settle
    <2> QED
      BY <1>12, <2>1, <1>f DEF Settle, Handled
  <1> QED
    BY <1>1, <1>2, <1>3, <1>4, <1>5, <1>6, <1>7, <1>8, <1>9, <1>10, <1>11, <1>12 DEF Dispatch

LEMMA HandledReconcile ==
  ASSUME Handled, Reconcile
  PROVE  Handled'
  <1> DEFINE snap == loop.snap
  <1>0. loop \in HandledLoop /\ row \in HandledRow /\ snap \in HandledRow
    BY HandledFields DEF Handled
  <1>d. \A v \in {"skip", "orphan", "superseded", "posted", "requeue"} : Decide(v) \in HandledLoop
    BY <1>0, LoopUpdates DEF Decide
  <1>k. /\ Killed(snap) \in [Sessions -> HandledSession]
        /\ KillOutcomes(snap) \subseteq [Sessions -> HandledSession]
    BY SessionsHandled DEF Handled
  <1>o. MarkOrphan(row) \in HandledRow
    BY <1>0, StatementsHandled, HandledFields
  <1>p. \A pr \in PrStates : [row EXCEPT !.pr = pr] \in HandledRow
    BY <1>0, RowUpdates
  <1>1. CASE ReconcileList
    <2>1. loop' \in HandledLoop
      <3>1. loop' = [IdleLoop EXCEPT !.pc = "listed", !.snap = row]
        BY <1>1 DEF ReconcileList
      <3> QED
        BY <3>1, <1>0, IdleLoopHandled, LoopUpdates
    <2> QED
      BY <1>1, <2>1 DEF ReconcileList, Handled
  <1>2. CASE ReconcileTerminal
    BY <1>2, <1>d, <1>k, <1>p DEF ReconcileTerminal, Handled, PrStates
  <1>3. CASE ReconcileReopened
    <2>1. loop' \in HandledLoop
      BY <1>3, <1>0, LoopUpdates DEF ReconcileReopened
    <2> QED
      BY <1>3, <2>1, <1>p DEF ReconcileReopened, Handled, PrStates
  <1>4. CASE ReconcileUnverified
    BY <1>4, <1>d, <1>k, IdleLoopHandled DEF ReconcileUnverified, Handled
  <1>5. CASE ReconcileAdopt
    <2>1. row' \in HandledRow
      <3>1. [row EXCEPT !.pgid = row.session] \in HandledRow
        BY <1>0, RowUpdates
      <3> QED
        BY <1>5, <1>0, <3>1 DEF ReconcileAdopt, HeldBy
    <2>2. loop' \in HandledLoop
      BY <1>5, <1>0, LoopUpdates DEF ReconcileAdopt
    <2> QED
      BY <1>5, <2>1, <2>2 DEF ReconcileAdopt, Handled
  <1>6. CASE ReconcileNullPgid
    <2>1. loop' \in HandledLoop
      BY <1>6, <1>0, LoopUpdates, IdleLoopHandled DEF ReconcileNullPgid
    <2> QED
      BY <1>6, <2>1 DEF ReconcileNullPgid, Handled
  <1>7. CASE ReconcileNullProbe
    <2>1. loop' \in HandledLoop
      BY <1>7, <1>d DEF ReconcileNullProbe
    <2> QED
      BY <1>7, <2>1 DEF ReconcileNullProbe, Handled
  <1>8. CASE ReconcileKnownPgid
    <2>1. loop' \in HandledLoop
      BY <1>8, <1>0, LoopUpdates DEF ReconcileKnownPgid
    <2> QED
      BY <1>8, <2>1 DEF ReconcileKnownPgid, Handled
  <1>9. CASE ReconcileProbe
    <2>1. Running(snap.pgid) \in BOOLEAN
      BY DEF Running
    <2>2. [loop EXCEPT !.pc = "review", !.alive = Running(snap.pgid)] \in HandledLoop
      BY <1>0, <2>1, LoopUpdates
    <2>3. loop' \in HandledLoop
      BY <1>9, <2>2, <1>d, IdleLoopHandled DEF ReconcileProbe
    <2>4. row' \in HandledRow /\ sess' \in [Sessions -> HandledSession]
      BY <1>9, <1>0, <1>o, <1>k DEF ReconcileProbe, Handled
    <2> QED
      BY <1>9, <2>3, <2>4 DEF ReconcileProbe, Handled
  <1>10. CASE ReconcileReview
    <2>1. loop' \in HandledLoop
      BY <1>10, <1>0, <1>d, LoopUpdates, IdleLoopHandled DEF ReconcileReview
    <2> QED
      BY <1>10, <2>1 DEF ReconcileReview, Handled
  <1>11. CASE ReconcileReap
    <2>1. loop' \in HandledLoop
      BY <1>11, <1>0, LoopUpdates, IdleLoopHandled DEF ReconcileReap
    <2> QED
      BY <1>11, <2>1, <1>o, <1>k DEF ReconcileReap, Handled
  <1>12. CASE ReconcileReaped
    <2>1. loop' \in HandledLoop /\ row' \in HandledRow
      BY <1>12, <1>0, <1>d, <1>o, IdleLoopHandled DEF ReconcileReaped
    <2> QED
      BY <1>12, <2>1 DEF ReconcileReaped, Handled
  <1>13. CASE ReconcileProbeFails
    BY <1>13, <1>o, IdleLoopHandled DEF ReconcileProbeFails, Handled
  <1>14. CASE ReconcileWrite
    <2>1. SkipTerminal(row) \in HandledRow /\ ReleaseSuperseded(row) \in HandledRow
      BY <1>0, OthersHandled, HandledFields
    <2>2. /\ Posted(row, snap.head) \in HandledRow
          /\ ReleaseUnsettledPostedReview(row, snap.session) \in HandledRow
      BY <1>0, StatementsHandled, HandledFields
    <2>3. ReleasePending(row) \in HandledRow
      BY <1>0, CountingHandled
    <2>4. \A class \in {"unknown", "terminal"} : MarkFailed(row, class) \in HandledRow
      BY <1>0, StatementsHandled, HandledFields
    <2>5. row' \in HandledRow
      BY <1>14, <1>o, <2>1, <2>2, <2>3, <2>4 DEF ReconcileWrite
    <2> QED
      BY <1>14, <2>5, IdleLoopHandled DEF ReconcileWrite, Handled
  <1> QED
    BY <1>1, <1>2, <1>3, <1>4, <1>5, <1>6, <1>7, <1>8, <1>9, <1>10, <1>11, <1>12, <1>13, <1>14
    DEF Reconcile

LEMMA HandledRestart ==
  ASSUME Handled, Restart
  PROVE  Handled'
  <1>0. row \in HandledRow
    BY DEF Handled
  <1>1. CASE Crash
    <2>1. \A s \in Sessions : /\ Over(sess[s]) \in HandledSession
                              /\ [sess[s] EXCEPT !.awaited = FALSE] \in HandledSession
      <3> TAKE s \in Sessions
      <3>1. sess[s] \in HandledSession
        BY HandledFields
      <3> QED
        BY <3>1, OverHandled DEF HandledSession, Session
    <2>2. sess' \in [Sessions -> HandledSession]
      BY <1>1, <2>1, UnusedHandled DEF Crash
    <2> QED
      BY <1>1, <2>2, IdleLoopHandled DEF Crash, Handled
  <1>2. CASE StartupWithoutClaim
    BY <1>2 DEF StartupWithoutClaim, Handled
  <1>3. CASE BounceRequeue
    BY <1>3, <1>0, RowUpdates DEF BounceRequeue, Handled
  <1>4. CASE StartupDone
    BY <1>4 DEF StartupDone, Handled
  <1>5. CASE BounceKill
    BY <1>5, SessionsHandled DEF BounceKill, Handled
  <1>6. CASE RecoverPostedFailure
    <2>1. Posted(row, row.head) \in HandledRow
      BY <1>0, StatementsHandled, HandledFields
    <2> QED
      BY <1>6, <2>1 DEF RecoverPostedFailure, Handled
  <1> QED
    BY <1>1, <1>2, <1>3, <1>4, <1>5, <1>6 DEF Restart

LEMMA HandledOthers ==
  ASSUME Handled, Others
  PROVE  Handled'
  <1>0. row \in HandledRow
    BY DEF Handled
  <1>1. CASE AutoReclaim
    <2>1. SettlePosted(row, row.session, row.head) \in HandledRow
      BY <1>0, StatementsHandled, HandledFields
    <2>2. [Reset(row) EXCEPT !.fail = "terminal", !.infra = row.infra + 1] \in HandledRow
      BY <1>0, CountingHandled
    <2> QED
      BY <1>1, <2>1, <2>2 DEF AutoReclaim, Handled
  <1>2. CASE Finalize
    BY <1>2, <1>0, RowUpdates DEF Finalize, Handled, Statuses
  <1>3. CASE RearmReviewerCredentialOutage
    BY <1>3, <1>0, RowUpdates, ZeroType DEF RearmReviewerCredentialOutage, Handled
  <1>4. CASE MergedSkip
    <2>1. [Freed(row) EXCEPT !.status = "skipped", !.fail = "none"] \in HandledRow
      BY <1>0, FreedHandled, RowUpdates DEF Statuses
    <2> QED
      BY <1>4, <2>1 DEF MergedSkip, Handled
  <1>5. CASE MirrorSync
    <2>1. \A r \in HandledRow : [r EXCEPT !.pr = live.pr] \in HandledRow
      BY RowUpdates, HandledFields
    <2>2. Reset(row) \in HandledRow
      BY <1>0, FreedHandled
    <2>3. row' \in HandledRow
      BY <1>5, <1>0, <2>1, <2>2 DEF MirrorSync
    <2> QED
      BY <1>5, <2>3 DEF MirrorSync, Handled
  <1>6. CASE Rereview \/ ForceReset
    BY <1>6, <1>0, FreedHandled DEF Rereview, ForceReset, Handled
  <1>7. CASE Age
    BY <1>7, <1>0, RowUpdates DEF Age, Handled
  <1>8. CASE PullRequestChanges
    <2>1. live' \in [head : Heads, pr : PrStates]
      BY <1>8, BoundAssumption DEF PullRequestChanges, Handled, Heads, PrStates
    <2> QED
      BY <1>8, <2>1 DEF PullRequestChanges, Handled
  <1> QED
    BY <1>1, <1>2, <1>3, <1>4, <1>5, <1>6, <1>7, <1>8 DEF Others

LEMMA HandledNext == Handled /\ [Next]_vars => Handled'
  <1> SUFFICES ASSUME Handled, [Next]_vars PROVE Handled'
    OBVIOUS
  <1>1. CASE UNCHANGED vars
    BY <1>1 DEF Handled, vars
  <1>2. CASE Next
    BY <1>2, HandledDispatch, HandledReconcile, HandledRestart, HandledOthers DEF Next
  <1> QED
    BY <1>1, <1>2

LEMMA HandledAlways == Spec => []Handled
  BY HandledInit, HandledNext, PTL DEF Spec

\* Columns, sessions and the pass stay typed; in particular the recovery
\* counter that claims, settlements, requeues and reclaims bump stays within
\* its cap.
THEOREM TypeCorrect == Spec => []TypeOK
  <1>1. Handled => TypeOK
    BY DEF Handled, TypeOK, HandledRow, HandledSession, HandledLoop
  <1> QED
    BY <1>1, HandledAlways, PTL

\* The process group on record, and the one a pass will signal, are those of
\* the claim's own session (persistReviewerPgid, adoption, restored claims).
THEOREM HandleMatches == Spec => []HandleMatchesClaim
  <1>1. Handled => HandleMatchesClaim
    BY DEF Handled, HandleMatchesClaim, HandledRow, HandledLoop
  <1> QED
    BY <1>1, HandledAlways, PTL

----------------------------------------------------------------------------
(* Posted rows name reviewed heads                                         *)

\* A session that has not been spawned has posted nothing, and a claim was
\* taken on a row that was not posted.
Early(f) ==
  \A t \in Sessions :
    /\ f[t].phase \in {"unused", "queued", "claimed"} => ~f[t].posted
    /\ f[t].phase = "claimed" => f[t].was.status # "posted"

\* What was posted stays posted, for the same head.
Keeps(f) ==
  \A t \in Sessions : sess[t].posted => f[t].posted /\ f[t].head = sess[t].head

PostedOK(r) == r.status = "posted" => Reviewed(r.head)

\* The row's promise needs the pass's: a pass that will write a post has seen
\* the review; and the remembered rows': a claim that is put back was not
\* posted.  Reviews themselves are never taken back.
PostedInv ==
  /\ PostedHeadReviewed
  /\ Early(sess)
  /\ loop.pc = "write" /\ loop.verdict = "posted" => Reviewed(loop.snap.head)

LEMMA OverKeeps ==
  ASSUME Handled, Early(sess), NEW s \in Sessions
  PROVE  Early(Finished(s)) /\ Keeps(Finished(s))
  <1>1. /\ Finished(s)[s] = Over(sess[s])
        /\ \A t \in Sessions \ {s} : Finished(s)[t] = sess[t]
    BY DEF Finished, Handled
  <1>2. /\ Over(sess[s]).phase = "done" /\ Over(sess[s]).posted = sess[s].posted
        /\ sess[s].posted => Over(sess[s]).head = sess[s].head
    BY OverHandled, HandledFields
  <1> QED
    BY <1>1, <1>2 DEF Early, Keeps

LEMMA EndedKeeps ==
  ASSUME Handled, Early(sess), NEW s
  PROVE  Early(Ended(s)) /\ Keeps(Ended(s))
  <1>0. Early(sess) /\ Keeps(sess)
    BY DEF Keeps
  <1>1. CASE Running(s) /\ sess[s].awaited
    <2>1. s \in Sessions /\ Ended(s) = [sess EXCEPT ![s].phase = "exited"]
      BY <1>1 DEF Ended, Running
    <2>2. \A t \in Sessions : /\ Ended(s)[t].posted = sess[t].posted
                              /\ Ended(s)[t].head = sess[t].head
                              /\ Ended(s)[t].was = sess[t].was
                              /\ Ended(s)[t].phase \in {"exited", sess[t].phase}
      BY <2>1 DEF Handled, HandledSession, Session
    <2> QED
      BY <2>2, <1>0 DEF Early, Keeps
  <1>2. CASE Running(s) /\ ~sess[s].awaited
    BY <1>2, OverKeeps DEF Ended, Running
  <1>3. CASE ~Running(s)
    BY <1>3, <1>0 DEF Ended
  <1> QED
    BY <1>1, <1>2, <1>3

LEMMA KilledKeeps ==
  ASSUME Handled, Early(sess), NEW r
  PROVE  /\ Early(Killed(r)) /\ Keeps(Killed(r))
         /\ \A f \in KillOutcomes(r) : Early(f) /\ Keeps(f)
  <1>0. Early(sess) /\ Keeps(sess)
    BY DEF Keeps
  <1>1. Early(Killed(r)) /\ Keeps(Killed(r))
    BY <1>0, EndedKeeps DEF Killed
  <1> QED
    BY <1>0, <1>1 DEF KillOutcomes

\* No step takes back a review or a session's head once it has posted.
LEMMA SessionsKeep ==
  ASSUME Handled, PostedInv, Next
  PROVE  Early(sess') /\ Keeps(sess')
  <1>0. Early(sess) /\ Keeps(sess)
    BY DEF PostedInv, Keeps
  <1>s. CASE UNCHANGED sess
    BY <1>s, <1>0
  <1>1. ASSUME NEW s \in Sessions, Dispatch(s)
        PROVE  Early(sess') /\ Keeps(sess')
    <2>0. sess \in [Sessions -> HandledSession] /\ sess[s] \in HandledSession
      BY HandledFields DEF Handled
    <2>1. CASE Admit(s)
      <3>1. PICK k \in AdmissibleKinds(row, live.head) :
              sess' = [sess EXCEPT ![s] = [sess[s] EXCEPT !.phase = "queued", !.kind = k,
                                             !.head = live.head, !.was = row]]
        BY <2>1 DEF Admit
      <3>2. sess'[s].phase = "queued" /\ sess'[s].posted = sess[s].posted
        BY <3>1, <2>0 DEF HandledSession, Session
      <3>3. \A t \in Sessions \ {s} : sess'[t] = sess[t]
        BY <3>1, <2>0
      <3>4. ~sess[s].posted
        BY <2>1, <1>0 DEF Admit, Early
      <3> QED
        BY <3>2, <3>3, <3>4, <1>0 DEF Early, Keeps
    <2>2. CASE sess' = [sess EXCEPT ![s] = UnusedSession] /\ sess[s].phase = "queued"
      <3>1. sess'[s] = UnusedSession /\ \A t \in Sessions \ {s} : sess'[t] = sess[t]
        BY <2>2, <2>0
      <3>2. ~UnusedSession.posted /\ UnusedSession.phase = "unused"
        BY DEF UnusedSession
      <3> QED
        BY <2>2, <3>1, <3>2, <1>0 DEF Early, Keeps
    <2>3. CASE /\ sess[s].phase = "queued"
               /\ ClaimMatches(row, sess[s].kind, sess[s].was, sess[s].head)
               /\ sess' = [sess EXCEPT ![s] = [sess[s] EXCEPT !.phase = "claimed",
                              !.awaited = TRUE, !.kind = "pending", !.was = row]]
      <3>1. /\ sess'[s].phase = "claimed" /\ sess'[s].posted = sess[s].posted
            /\ sess'[s].was = row
        BY <2>3, <2>0 DEF HandledSession, Session
      <3>2. \A t \in Sessions \ {s} : sess'[t] = sess[t]
        BY <2>3, <2>0
      <3>3. row.status # "posted"
        <4>1. sess[s].kind \in Kinds
          BY <2>0, SessionFields
        <4> QED
          BY <2>3, <4>1 DEF ClaimMatches, TerminalShape, Kinds
      <3> QED
        BY <2>3, <3>1, <3>2, <3>3, <1>0 DEF Early, Keeps
    <2>4. CASE sess' = Finished(s)
      BY <2>4, <1>0, OverKeeps
    <2>5. CASE Spawn(s)
      <3>1. sess'[s].phase = "spawned" /\ sess'[s].posted = sess[s].posted
        BY <2>5, <2>0 DEF Spawn, HandledSession, Session
      <3>2. \A t \in Sessions \ {s} : sess'[t] = sess[t]
        BY <2>5, <2>0 DEF Spawn
      <3>3. ~sess[s].posted
        BY <2>5, <1>0 DEF Spawn, Early
      <3> QED
        BY <3>1, <3>2, <3>3, <1>0 DEF Early, Keeps
    <2>6. CASE RecordPgid(s)
      <3>1. /\ sess'[s].phase = "running" /\ sess'[s].posted = sess[s].posted
            /\ sess'[s].head = sess[s].head
        BY <2>6, <2>0 DEF RecordPgid, HandledSession, Session
      <3>2. \A t \in Sessions \ {s} : sess'[t] = sess[t]
        BY <2>6, <2>0 DEF RecordPgid
      <3> QED
        BY <3>1, <3>2, <1>0 DEF Early, Keeps
    <2>7. CASE Post(s)
      <3>1. sess'[s].phase = sess[s].phase /\ sess'[s].posted /\ sess'[s].head = sess[s].head
        BY <2>7, <2>0 DEF Post, HandledSession, Session
      <3>2. \A t \in Sessions \ {s} : sess'[t] = sess[t]
        BY <2>7, <2>0 DEF Post
      <3>3. sess[s].phase \in {"spawned", "running"}
        BY <2>7 DEF Post, Running
      <3> QED
        BY <3>1, <3>2, <3>3, <1>0 DEF Early, Keeps
    <2>8. CASE Exit(s)
      BY <2>8, <1>0, EndedKeeps DEF Exit
    <2> QED
      BY <1>1, <2>1, <2>2, <2>3, <2>4, <2>5, <2>6, <2>7, <2>8
      DEF Dispatch, RestoreDeduped, Claim, FreshnessRefuses, AdmissionRefuses, HcpNotReady,
          DispatchThrows, Settle
  <1>2. CASE Reconcile
    <2>1. sess' \in {sess, Killed(loop.snap)} \cup KillOutcomes(loop.snap)
      BY <1>2
      DEF Reconcile, ReconcileList, ReconcileTerminal, ReconcileReopened, ReconcileUnverified,
          ReconcileAdopt, ReconcileNullPgid, ReconcileNullProbe, ReconcileKnownPgid,
          ReconcileProbe, ReconcileReview, ReconcileReap, ReconcileReaped,
          ReconcileProbeFails, ReconcileWrite
    <2> QED
      BY <2>1, <1>0, KilledKeeps
  <1>3. CASE Crash
    <2>1. \A t \in Sessions : sess[t] \in HandledSession
      BY HandledFields
    <2>2. ASSUME NEW t \in Sessions
          PROVE  /\ sess'[t].phase \in {"unused", "spawned", "running", "done"}
                 /\ sess'[t].phase = "unused" => ~sess'[t].posted
                 /\ sess[t].posted => sess'[t].posted /\ sess'[t].head = sess[t].head
      <3>1. CASE sess[t].phase \in {"unused", "queued"}
        <4>1. sess'[t] = UnusedSession
          BY <1>3, <3>1 DEF Crash, Running
        <4> QED
          BY <3>1, <4>1, <1>0 DEF Early, UnusedSession
      <3>2. CASE Running(t)
        <4>1. sess'[t] = [sess[t] EXCEPT !.awaited = FALSE]
          BY <1>3, <3>2 DEF Crash, Running
        <4> QED
          BY <3>2, <4>1, <2>1 DEF Running, HandledSession, Session
      <3>3. CASE sess[t].phase \notin {"unused", "queued"} /\ ~Running(t)
        <4>1. sess'[t] = Over(sess[t])
          BY <1>3, <3>3 DEF Crash
        <4> QED
          BY <4>1, <2>1, OverHandled
      <3> QED
        BY <3>1, <3>2, <3>3
    <2> QED
      BY <2>2 DEF Early, Keeps
  <1>4. CASE BounceKill
    BY <1>4, <1>0, KilledKeeps DEF BounceKill
  <1>5. CASE Others \/ StartupWithoutClaim \/ BounceRequeue \/ StartupDone \/ RecoverPostedFailure
    BY <1>5, <1>s
    DEF Others, AutoReclaim, Finalize, RearmReviewerCredentialOutage, MergedSkip, MirrorSync,
        Rereview, ForceReset, Age, PullRequestChanges, StartupWithoutClaim, BounceRequeue,
        StartupDone, RecoverPostedFailure
  <1> QED
    BY <1>1, <1>2, <1>3, <1>4, <1>5 DEF Next, Restart

LEMMA ReviewedStays ==
  ASSUME Handled, Keeps(sess'), NEW h, Reviewed(h)
  PROVE  Reviewed(h)'
  BY DEF Keeps, Reviewed

\* The statements that settle nothing leave no newly posted row.
LEMMA StatementsPosted ==
  ASSUME NEW r \in HandledRow, PostedOK(r), NEW s, NEW h, NEW class
  PROVE  /\ PostedOK(ReleaseReviewerClaim(r, s))
         /\ PostedOK(MarkRereviewCiBlocked(r, s))
         /\ PostedOK(MarkReviewerPgid(r, s))
         /\ PostedOK(ReleaseUnsettledPostedReview(r, s))
         /\ PostedOK(MarkSizeFailed(r, s, h))
         /\ PostedOK(MarkFailed(r, class))
         /\ PostedOK(MarkHold(r))
         /\ PostedOK(MarkOutageTransient(r))
         /\ PostedOK(ReleaseReviewLease(r, class))
         /\ PostedOK(MarkOrphan(r))
         /\ PostedOK(TransientFailure(r))
         /\ PostedOK(ReleasePending(r))
         /\ PostedOK(Reset(r))
         /\ PostedOK([Reset(r) EXCEPT !.fail = "terminal", !.infra = r.infra + 1])
         /\ PostedOK(SkipTerminal(r))
         /\ PostedOK(ReleaseSuperseded(r))
         /\ Reviewed(h) => PostedOK(Posted(r, h))
         /\ Reviewed(h) => PostedOK(SettlePosted(r, s, h))
  <1>0. r \in Row /\ Freed(r) \in Row /\ Reset(r) \in Row
    BY FreedHandled DEF HandledRow
  <1>1. /\ PostedOK(MarkRereviewCiBlocked(r, s)) /\ PostedOK(MarkReviewerPgid(r, s))
        /\ PostedOK(MarkSizeFailed(r, s, h)) /\ PostedOK(MarkFailed(r, class))
    BY <1>0 DEF PostedOK, MarkRereviewCiBlocked, MarkReviewerPgid, HeldBy, MarkSizeFailed, MarkFailed, Row
  <1>2. /\ PostedOK(MarkHold(r)) /\ PostedOK(MarkOutageTransient(r))
        /\ PostedOK(ReleaseReviewLease(r, class)) /\ PostedOK(MarkOrphan(r))
    BY <1>0 DEF PostedOK, MarkHold, MarkOutageTransient, ReleaseReviewLease, MarkOrphan, Row
  <1>3. PostedOK(TransientFailure(r))
    BY <1>0 DEF PostedOK, TransientFailure, MarkFailed, Row
  <1>4. /\ PostedOK(ReleaseReviewerClaim(r, s)) /\ PostedOK(ReleaseUnsettledPostedReview(r, s))
        /\ PostedOK(ReleasePending(r)) /\ PostedOK(SkipTerminal(r))
    BY <1>0 DEF PostedOK, ReleaseReviewerClaim, ReleaseUnsettledPostedReview, ReleasePending,
                SkipTerminal, Row
  <1>5. Reset(r).status = "pending"
    BY <1>0 DEF Reset, Row
  <1>6. PostedOK(Reset(r)) /\ PostedOK(ReleaseSuperseded(r))
    BY <1>5 DEF PostedOK, ReleaseSuperseded
  <1>7. PostedOK([Reset(r) EXCEPT !.fail = "terminal", !.infra = r.infra + 1])
    BY <1>0, <1>5 DEF PostedOK, Row
  <1>8. Reviewed(h) => PostedOK(Posted(r, h))
    BY <1>0 DEF PostedOK, Posted, Row
  <1>9. Reviewed(h) => PostedOK(SettlePosted(r, s, h))
    BY <1>4, <1>8 DEF SettlePosted
  <1> QED
    BY <1>1, <1>2, <1>3, <1>4, <1>6, <1>7, <1>8, <1>9

\* A probe that finds a review has a review to find.
LEMMA ProbeFinds ==
  ASSUME NEW r, TRUE \in PostedProbe(r)
  PROVE  Reviewed(r.head)
  BY DEF PostedProbe

\* Every step leaves the row posted only for a head reviewed before it.
LEMMA RowPosted ==
  ASSUME Handled, PostedInv, Next
  PROVE  PostedOK(row')
  <1>0. row \in HandledRow /\ row \in Row /\ PostedOK(row)
    BY DEF Handled, HandledRow, PostedInv, PostedHeadReviewed, PostedOK
  <1>s. CASE UNCHANGED row
    BY <1>s, <1>0
  <1>p. \A pr : PostedOK([row EXCEPT !.pr = pr])
    BY <1>0 DEF PostedOK, Row
  <1>1. ASSUME NEW s \in Sessions, Dispatch(s)
        PROVE  PostedOK(row')
    <2>1. CASE RestoreDeduped(s)
      <3>1. \A h : Reviewed(h) =>
              PostedOK([row EXCEPT !.status = "posted", !.head = h, !.fail = "none", !.age = "fresh"])
        BY <1>0 DEF PostedOK, Row
      <3> QED
        BY <2>1, <3>1, <1>0 DEF RestoreDeduped
    <2>2. CASE Claim(s)
      <3>1. PostedOK(Claimed(row, s, sess[s].kind, sess[s].head))
        BY <1>0 DEF PostedOK, Claimed, Row
      <3> QED
        BY <2>2, <3>1, <1>0 DEF Claim
    <2>3. CASE FreshnessRefuses(s)
      <3>1. PostedOK(RestorePreClaim(row, s, sess[s].was))
        <4>1. sess[s].was \in Row /\ sess[s].was.status # "posted"
          BY <2>3, HandledFields, SessionFields DEF FreshnessRefuses, PostedInv, Early, HandledRow
        <4> QED
          BY <4>1, <1>0 DEF RestorePreClaim, PostedOK, Row
      <3> QED
        BY <2>3, <3>1, <1>0, <1>p, StatementsPosted DEF FreshnessRefuses
    <2>4. CASE Settle(s)
      <3>1. sess[s].posted => Reviewed(sess[s].head)
        BY DEF Reviewed
      <3> QED
        BY <2>4, <3>1, <1>0, StatementsPosted DEF Settle
    <2>5. CASE AdmissionRefuses(s) \/ HcpNotReady(s) \/ RecordPgid(s)
      BY <2>5, <1>0, StatementsPosted DEF AdmissionRefuses, HcpNotReady, RecordPgid
    <2>6. CASE Admit(s) \/ DispatchThrows(s) \/ Spawn(s) \/ Post(s) \/ Exit(s)
      BY <2>6, <1>s DEF Admit, DispatchThrows, Spawn, Post, Exit
    <2> QED
      BY <1>1, <2>1, <2>2, <2>3, <2>4, <2>5, <2>6 DEF Dispatch
  <1>2. CASE Reconcile
    <2>1. CASE ReconcileAdopt
      <3>1. PostedOK([row EXCEPT !.pgid = loop.snap.session])
        BY <1>0 DEF PostedOK, Row
      <3> QED
        BY <2>1, <3>1, <1>0 DEF ReconcileAdopt
    <2>2. CASE ReconcileWrite
      <3>1. loop.verdict = "posted" => Reviewed(loop.snap.head)
        BY <2>2 DEF ReconcileWrite, PostedInv
      <3> QED
        BY <2>2, <3>1, <1>0, StatementsPosted DEF ReconcileWrite
    <2>3. CASE ReconcileTerminal \/ ReconcileReopened
      BY <2>3, <1>0, <1>p DEF ReconcileTerminal, ReconcileReopened
    <2>4. CASE ReconcileProbe \/ ReconcileReap \/ ReconcileReaped \/ ReconcileProbeFails
      BY <2>4, <1>0, StatementsPosted
      DEF ReconcileProbe, ReconcileReap, ReconcileReaped, ReconcileProbeFails
    <2>5. CASE \/ ReconcileList \/ ReconcileUnverified \/ ReconcileNullPgid
               \/ ReconcileNullProbe \/ ReconcileKnownPgid \/ ReconcileReview
      BY <2>5, <1>s
      DEF ReconcileList, ReconcileUnverified, ReconcileNullPgid, ReconcileNullProbe,
          ReconcileKnownPgid, ReconcileReview
    <2> QED
      BY <1>2, <2>1, <2>2, <2>3, <2>4, <2>5 DEF Reconcile
  <1>3. CASE Restart
    <2>1. CASE BounceRequeue
      BY <2>1, <1>0 DEF BounceRequeue, PostedOK, Row
    <2>2. CASE RecoverPostedFailure
      BY <2>2, <1>0, StatementsPosted, ProbeFinds DEF RecoverPostedFailure
    <2>3. CASE Crash \/ StartupWithoutClaim \/ StartupDone \/ BounceKill
      BY <2>3, <1>s DEF Crash, StartupWithoutClaim, StartupDone, BounceKill
    <2> QED
      BY <1>3, <2>1, <2>2, <2>3 DEF Restart
  <1>4. CASE Others
    <2>1. CASE AutoReclaim
      BY <2>1, <1>0, StatementsPosted, ProbeFinds DEF AutoReclaim
    <2>2. CASE Finalize \/ RearmReviewerCredentialOutage \/ Age
      BY <2>2, <1>0 DEF Finalize, RearmReviewerCredentialOutage, Age, PostedOK, Row
    <2>3. CASE MergedSkip
      <3>1. Freed(row) \in Row
        BY <1>0, FreedHandled DEF HandledRow
      <3> QED
        BY <2>3, <3>1 DEF MergedSkip, PostedOK, Row
    <2>4. CASE MirrorSync
      <3>1. Reset(row) \in Row /\ PostedOK(Reset(row))
        BY <1>0, FreedHandled, StatementsPosted DEF HandledRow
      <3>2. \A pr : PostedOK([Reset(row) EXCEPT !.pr = pr])
        BY <3>1 DEF PostedOK, Row
      <3> QED
        BY <2>4, <3>2, <1>p DEF MirrorSync
    <2>5. CASE Rereview \/ ForceReset
      BY <2>5, <1>0, StatementsPosted DEF Rereview, ForceReset
    <2>6. CASE PullRequestChanges
      BY <2>6, <1>s DEF PullRequestChanges
    <2> QED
      BY <1>4, <2>1, <2>2, <2>3, <2>4, <2>5, <2>6 DEF Others
  <1> QED
    BY <1>1, <1>2, <1>3, <1>4 DEF Next

\* A pass decides to write a post only after it has seen the review.
LEMMA VerdictPosted ==
  ASSUME Handled, PostedInv, Next, loop'.pc = "write", loop'.verdict = "posted"
  PROVE  Reviewed(loop'.snap.head)
  <1>0. loop \in HandledLoop /\ loop \in Loop
    BY DEF Handled, HandledLoop
  <1>1. CASE UNCHANGED loop
    BY <1>1 DEF PostedInv
  <1>i. IdleLoop.pc = "idle"
    BY DEF IdleLoop
  <1>d. \A v : Decide(v).verdict = v /\ Decide(v).snap = loop.snap
    BY <1>0 DEF Decide, Loop
  <1>2. CASE ReconcileNullProbe
    <2>1. PICK found \in PostedProbe(loop.snap) :
            loop' = Decide(IF found /\ loop.snap.head = live.head THEN "posted" ELSE "requeue")
      BY <1>2 DEF ReconcileNullProbe
    <2> QED
      BY <2>1, <1>d DEF PostedProbe
  <1>3. CASE ReconcileReview
    <2>1. PICK found \in PostedProbe(loop.snap) :
            loop' = IF loop.alive
                    THEN IF ~found /\ loop.snap.age = "expired"
                         THEN [loop EXCEPT !.pc = "overdue"]
                         ELSE IdleLoop
                    ELSE Decide(IF found THEN "posted" ELSE "requeue")
      BY <1>3 DEF ReconcileReview
    <2>2. ~loop.alive
      BY <2>1, <1>0, <1>i DEF Loop
    <2> QED
      BY <2>1, <2>2, <1>d DEF PostedProbe
  <1>4. CASE ReconcileTerminal \/ ReconcileUnverified \/ ReconcileReaped \/ ReconcileProbe
    <2>1. \A v \in {"skip", "orphan", "superseded", "requeue"} : loop' # Decide(v)
      BY <1>d
    <2>2. loop' # IdleLoop
      BY <1>i
    <2>3. \A alive : loop' # [loop EXCEPT !.pc = "review", !.alive = alive]
      BY <1>0 DEF Loop
    <2>4. CASE ReconcileTerminal \/ ReconcileUnverified \/ ReconcileReaped
      BY <2>4, <2>1, <2>2 DEF ReconcileTerminal, ReconcileUnverified, ReconcileReaped
    <2>5. CASE ReconcileProbe
      BY <2>5, <2>1, <2>2, <2>3 DEF ReconcileProbe
    <2> QED
      BY <1>4, <2>4, <2>5
  <1>5. CASE \/ ReconcileAdopt \/ ReconcileNullPgid \/ ReconcileKnownPgid
             \/ ReconcileReap \/ ReconcileProbeFails \/ ReconcileWrite
    BY <1>5, <1>0, <1>i
    DEF ReconcileAdopt, ReconcileNullPgid, ReconcileKnownPgid, ReconcileReap,
        ReconcileProbeFails, ReconcileWrite, Loop
  <1>6. CASE ReconcileReopened
    <2>1. loop' = [loop EXCEPT !.snap = [loop.snap EXCEPT !.pr = "open"]] /\ loop.pc = "listed"
      BY <1>6 DEF ReconcileReopened
    <2>2. loop'.pc = "listed"
      BY <2>1, <1>0 DEF Loop
    <2> QED
      BY <2>2
  <1>7. CASE ReconcileList
    BY <1>7 DEF ReconcileList, IdleLoop
  <1>8. CASE Crash
    BY <1>8, <1>i DEF Crash
  <1>9. CASE \/ \E s \in Sessions : Dispatch(s)
             \/ StartupWithoutClaim \/ BounceRequeue \/ StartupDone \/ BounceKill
             \/ RecoverPostedFailure \/ Others
    <2>1. UNCHANGED loop
      BY <1>9
      DEF Dispatch, Admit, RestoreDeduped, Claim, FreshnessRefuses, AdmissionRefuses,
          HcpNotReady, DispatchThrows, Spawn, RecordPgid, Post, Exit, Settle,
          StartupWithoutClaim, BounceRequeue, StartupDone, BounceKill, RecoverPostedFailure,
          Others, AutoReclaim, Finalize, RearmReviewerCredentialOutage, MergedSkip,
          MirrorSync, Rereview, ForceReset, Age, PullRequestChanges
    <2> QED
      BY <2>1, <1>1
  <1> QED
    BY <1>2, <1>3, <1>4, <1>5, <1>6, <1>7, <1>8, <1>9 DEF Next, Reconcile, Restart

\* A posted row names a head a reviewer really posted a review for, whichever
\* settlement, recovery or reconcile pass wrote it.
THEOREM PostedIsReviewed == Spec => []PostedHeadReviewed
  <1>1. Init => PostedInv
    BY DEF Init, PostedInv, PostedHeadReviewed, NewRow, Early, UnusedSession, IdleLoop
  <1>2. Handled /\ PostedInv /\ [Next]_vars => PostedInv'
    <2> SUFFICES ASSUME Handled, PostedInv, [Next]_vars PROVE PostedInv'
      OBVIOUS
    <2>1. CASE UNCHANGED vars
      BY <2>1 DEF vars, PostedInv, PostedHeadReviewed, Early, Reviewed
    <2>2. CASE Next
      <3>1. Early(sess') /\ Keeps(sess')
        BY <2>2, SessionsKeep
      <3>2. PostedHeadReviewed'
        BY <2>2, <3>1, RowPosted, ReviewedStays DEF PostedHeadReviewed, PostedOK
      <3>3. (loop.pc = "write" /\ loop.verdict = "posted" => Reviewed(loop.snap.head))'
        BY <2>2, <3>1, VerdictPosted, ReviewedStays
      <3> QED
        BY <3>1, <3>2, <3>3 DEF PostedInv, Early
    <2> QED
      BY <2>1, <2>2
  <1>3. PostedInv => PostedHeadReviewed
    BY DEF PostedInv
  <1> QED
    BY <1>1, <1>2, <1>3, HandledAlways, PTL DEF Spec

----------------------------------------------------------------------------
(* Fenced settlements never take another dispatch's claim                  *)

\* A watcher that has not begun to poll has no dispatch: what BounceRequeue
\* requeues belongs to a dispatch of an earlier watcher.
NoDispatchYet ==
  up # "polling" => \A t \in Sessions : ~sess[t].awaited /\ sess[t].phase # "queued"

LEMMA EndedAwaits ==
  ASSUME Handled, NEW s, NEW t \in Sessions
  PROVE  /\ ~sess[t].awaited => ~Ended(s)[t].awaited
         /\ sess[t].phase # "queued" => Ended(s)[t].phase # "queued"
         /\ s \in Sessions /\ ~sess[t].awaited => ~Finished(s)[t].awaited
         /\ s \in Sessions /\ sess[t].phase # "queued" => Finished(s)[t].phase # "queued"
  <1>0. sess \in [Sessions -> HandledSession] /\ sess[t] \in HandledSession
    BY DEF Handled
  <1>1. ASSUME s \in Sessions
        PROVE  /\ ~sess[t].awaited => ~Finished(s)[t].awaited
               /\ sess[t].phase # "queued" => Finished(s)[t].phase # "queued"
    <2>1. Finished(s)[t] = IF t = s THEN Over(sess[s]) ELSE sess[t]
      BY <1>0, <1>1 DEF Finished
    <2> QED
      BY <2>1, <1>0, OverHandled
  <1>2. /\ ~sess[t].awaited => ~Ended(s)[t].awaited
        /\ sess[t].phase # "queued" => Ended(s)[t].phase # "queued"
    <2>1. CASE Running(s) /\ sess[s].awaited
      <3>1. s \in Sessions /\ Ended(s) = [sess EXCEPT ![s].phase = "exited"]
        BY <2>1 DEF Ended, Running
      <3> QED
        BY <3>1, <1>0 DEF HandledSession, Session
    <2>2. CASE Running(s) /\ ~sess[s].awaited
      BY <2>2, <1>1 DEF Ended, Running
    <2>3. CASE ~Running(s)
      BY <2>3 DEF Ended
    <2> QED
      BY <2>1, <2>2, <2>3
  <1> QED
    BY <1>1, <1>2

LEMMA NoDispatchNext ==
  ASSUME Handled, NoDispatchYet, [Next]_vars
  PROVE  NoDispatchYet'
  <1>s. CASE UNCHANGED sess /\ (up' = up \/ up' = "polling" \/ up = "starting")
    BY <1>s DEF NoDispatchYet
  <1>v. CASE UNCHANGED vars
    BY <1>v, <1>s DEF vars
  <1>e. ASSUME NEW f, NEW s, UNCHANGED up, sess' = f, f = Ended(s) \/ f = sess
        PROVE  NoDispatchYet'
    BY <1>e, EndedAwaits DEF NoDispatchYet
  <1>1. ASSUME NEW s \in Sessions, Dispatch(s)
        PROVE  NoDispatchYet'
    <2>0. UNCHANGED up
      BY <1>1
      DEF Dispatch, Admit, RestoreDeduped, Claim, FreshnessRefuses, AdmissionRefuses,
          HcpNotReady, DispatchThrows, Spawn, RecordPgid, Post, Exit, Settle
    <2>p. CASE up = "polling"
      BY <2>p, <2>0 DEF NoDispatchYet
    <2>1. CASE Admit(s)
      BY <2>1, <2>p DEF Admit
    <2>2. CASE RestoreDeduped(s) \/ Claim(s)
      <3>1. up = "polling"
        BY <2>2 DEF RestoreDeduped, Claim, NoDispatchYet, Handled
      <3> QED
        BY <3>1, <2>p
    <2>3. CASE sess' = Finished(s)
      BY <2>3, <2>0, EndedAwaits DEF NoDispatchYet
    <2>4. CASE Spawn(s) \/ RecordPgid(s) \/ Post(s)
      <3>1. \A t \in Sessions : /\ sess'[t].awaited = sess[t].awaited
                                /\ sess'[t].phase \in {"spawned", "running", sess[t].phase}
        <4>0. sess \in [Sessions -> Session]
          BY DEF Handled, HandledSession
        <4>1. CASE Spawn(s)
          BY <4>0, <4>1 DEF Spawn, Session
        <4>2. CASE RecordPgid(s)
          BY <4>0, <4>2 DEF RecordPgid, Session
        <4>3. CASE Post(s)
          BY <4>0, <4>3 DEF Post, Session
        <4> QED
          BY <2>4, <4>1, <4>2, <4>3
      <3> QED
        BY <3>1, <2>0 DEF NoDispatchYet
    <2>5. CASE Exit(s)
      BY <2>5, <1>e DEF Exit
    <2> QED
      BY <1>1, <2>1, <2>2, <2>3, <2>4, <2>5
      DEF Dispatch, FreshnessRefuses, AdmissionRefuses, HcpNotReady, DispatchThrows, Settle
  <1>2. CASE Reconcile
    <2>1. CASE ReconcileList
      BY <2>1, <1>s DEF ReconcileList
    <2>2. CASE ~ReconcileList
      <3>1. UNCHANGED up /\ sess' \in {sess, Ended(loop.snap.session)}
        BY <1>2, <2>2
        DEF Reconcile, ReconcileTerminal, ReconcileReopened, ReconcileUnverified,
            ReconcileAdopt, ReconcileNullPgid, ReconcileNullProbe, ReconcileKnownPgid,
            ReconcileProbe, ReconcileReview, ReconcileReap, ReconcileReaped,
            ReconcileProbeFails, ReconcileWrite, KillOutcomes, Killed
      <3> QED
        BY <3>1, <1>e
    <2> QED
      BY <2>1, <2>2
  <1>3. CASE Crash
    <2>1. ASSUME NEW t \in Sessions
          PROVE  ~sess'[t].awaited /\ sess'[t].phase # "queued"
      <3>0. sess[t] \in HandledSession
        BY DEF Handled
      <3>1. CASE sess[t].phase \in {"unused", "queued"}
        <4>1. sess'[t] = UnusedSession
          BY <1>3, <3>1 DEF Crash, Running
        <4> QED
          BY <4>1 DEF UnusedSession
      <3>2. CASE Running(t)
        <4>1. sess'[t] = [sess[t] EXCEPT !.awaited = FALSE]
          BY <1>3, <3>2 DEF Crash, Running
        <4> QED
          BY <3>2, <4>1, <3>0 DEF Running, HandledSession, Session
      <3>3. CASE sess[t].phase \notin {"unused", "queued"} /\ ~Running(t)
        <4>1. sess'[t] = Over(sess[t])
          BY <1>3, <3>3 DEF Crash
        <4> QED
          BY <4>1, <3>0, OverHandled
      <3> QED
        BY <3>1, <3>2, <3>3
    <2> QED
      BY <2>1 DEF NoDispatchYet
  <1>4. CASE BounceKill
    BY <1>4, <1>e DEF BounceKill, Killed
  <1>5. CASE Others \/ StartupWithoutClaim \/ BounceRequeue \/ StartupDone \/ RecoverPostedFailure
    <2>1. UNCHANGED sess /\ (up' = up \/ up' = "polling" \/ up = "starting")
      BY <1>5
      DEF Others, AutoReclaim, Finalize, RearmReviewerCredentialOutage, MergedSkip, MirrorSync,
          Rereview, ForceReset, Age, PullRequestChanges, StartupWithoutClaim, BounceRequeue,
          StartupDone, RecoverPostedFailure
    <2> QED
      BY <2>1, <1>s
  <1> QED
    BY <1>v, <1>1, <1>2, <1>3, <1>4, <1>5 DEF Next, Restart

\* While no pass is under way, no step takes the claim of an established
\* dispatch, when every settlement that can happen is fenced.
LEMMA FencedStep ==
  ASSUME Failures \subseteq {"stalled", "stale", "size"},
         Handled, NoDispatchYet, [Next]_vars, Established, loop.pc = "idle"
  PROVE  HeldBy(row', row.session)
  <1> DEFINE c == row.session
  <1>0. /\ row \in Row /\ row.status = "reviewing" /\ c \in Sessions /\ c # NoSession
        /\ sess[c].phase \in {"spawned", "running"} /\ sess[c].awaited
        /\ row.pr = "open" /\ Running(c)
    BY SessionAssumption DEF Handled, HandledRow, Established, Running
  <1>s. CASE UNCHANGED row
    BY <1>s, <1>0 DEF HeldBy
  <1>p. \A pr : HeldBy([row EXCEPT !.pr = pr], c)
    BY <1>0 DEF HeldBy, Row
  <1>v. CASE UNCHANGED vars
    BY <1>v, <1>s DEF vars
  <1>1. ASSUME NEW s \in Sessions, Dispatch(s)
        PROVE  HeldBy(row', c)
    <2>1. CASE RestoreDeduped(s)
      BY <2>1, <1>0, <1>s DEF RestoreDeduped
    <2>2. CASE Claim(s)
      <3>1. ~ClaimMatches(row, sess[s].kind, sess[s].was, sess[s].head)
        <4>1. sess[s].kind \in Kinds
          BY HandledFields, SessionFields
        <4> QED
          BY <4>1, <1>0 DEF ClaimMatches, TerminalShape, Kinds
      <3> QED
        BY <2>2, <3>1, <1>s DEF Claim
    <2>3. CASE s # c /\ (FreshnessRefuses(s) \/ AdmissionRefuses(s))
      <3>1. /\ ReleaseReviewerClaim(row, s) = row /\ MarkRereviewCiBlocked(row, s) = row
            /\ RestorePreClaim(row, s, sess[s].was) = row
        BY <2>3 DEF ReleaseReviewerClaim, MarkRereviewCiBlocked, RestorePreClaim, HeldBy
      <3>2. row' = row \/ row' = [row EXCEPT !.pr = live.pr]
        BY <2>3, <3>1 DEF FreshnessRefuses, AdmissionRefuses
      <3> QED
        BY <3>2, <1>p, <1>s
    <2>4. CASE s # c /\ Settle(s)
      <3>1. /\ SettlePosted(row, s, sess[s].head) = row
            /\ ReleaseReviewerClaim(row, s) = row
            /\ MarkSizeFailed(row, s, sess[s].head) = row
        BY <2>4, <1>0
        DEF SettlePosted, ReleaseUnsettledPostedReview, ReleaseReviewerClaim, MarkSizeFailed, HeldBy
      <3>2. row' = row
        BY <2>4, <3>1 DEF Settle
      <3> QED
        BY <3>2, <1>s
    <2>5. CASE HcpNotReady(s)
      BY <2>5 DEF HcpNotReady
    <2>6. CASE RecordPgid(s)
      <3>1. HeldBy(MarkReviewerPgid(row, s), c)
        BY <1>0 DEF MarkReviewerPgid, HeldBy, Row
      <3> QED
        BY <2>6, <3>1, <1>s DEF RecordPgid
    <2>7. CASE Admit(s) \/ DispatchThrows(s) \/ Spawn(s) \/ Post(s) \/ Exit(s)
      BY <2>7, <1>s DEF Admit, DispatchThrows, Spawn, Post, Exit
    <2>8. FreshnessRefuses(s) \/ AdmissionRefuses(s) \/ Settle(s) => s # c
      BY <1>0 DEF FreshnessRefuses, AdmissionRefuses, Settle
    <2> QED
      BY <1>1, <2>1, <2>2, <2>3, <2>4, <2>5, <2>6, <2>7, <2>8 DEF Dispatch
  <1>2. CASE Reconcile
    <2>1. ReconcileList
      BY <1>2
      DEF Reconcile, ReconcileTerminal, ReconcileReopened, ReconcileUnverified,
          ReconcileAdopt, ReconcileNullPgid, ReconcileNullProbe, ReconcileKnownPgid,
          ReconcileProbe, ReconcileReview, ReconcileReap, ReconcileReaped,
          ReconcileProbeFails, ReconcileWrite
    <2> QED
      BY <2>1, <1>s DEF ReconcileList
  <1>3. CASE Restart
    <2>1. ~BounceRequeue
      BY <1>0 DEF BounceRequeue, NoDispatchYet
    <2>2. ~RecoverPostedFailure
      BY <1>0 DEF RecoverPostedFailure, TerminalFailure, TerminalShape
    <2> QED
      BY <1>3, <2>1, <2>2, <1>s
      DEF Restart, Crash, StartupWithoutClaim, StartupDone, BounceKill
  <1>4. CASE Others
    <2>1. CASE ForceReset
      <3>1. row.pgid \in {NoSession, c}
        BY DEF Handled, HandledRow
      <3> QED
        BY <2>1, <3>1, <1>0 DEF ForceReset
    <2>2. CASE MirrorSync
      BY <2>2, <1>0, <1>p DEF MirrorSync
    <2>3. CASE Age
      BY <2>3, <1>0 DEF Age, HeldBy, Row
    <2>4. CASE PullRequestChanges
      BY <2>4, <1>s DEF PullRequestChanges
    <2>5. ~(Finalize \/ RearmReviewerCredentialOutage \/ AutoReclaim \/ MergedSkip \/ Rereview)
      BY <1>0 DEF Finalize, RearmReviewerCredentialOutage, AutoReclaim, MergedSkip, Rereview
    <2> QED
      BY <1>4, <2>1, <2>2, <2>3, <2>4, <2>5 DEF Others
  <1> QED
    BY <1>v, <1>1, <1>2, <1>3, <1>4 DEF Next

\* With the settlements that carry the session fence, and only those, no
\* settlement, startup recovery or reset takes an established dispatch's claim.
THEOREM FencedClaimsKept ==
  ASSUME Failures \subseteq {"stalled", "stale", "size"}
  PROVE  Spec => ClaimKept
  <1>1. Init => NoDispatchYet
    BY DEF Init, NoDispatchYet
  <1>2. Handled /\ NoDispatchYet /\ [Next]_vars => NoDispatchYet'
    BY NoDispatchNext
  <1>3. Handled /\ NoDispatchYet /\ [Next]_vars
          => [Established /\ loop.pc = "idle" => HeldBy(row', row.session)]_vars
    BY FencedStep
  <1> QED
    BY <1>1, <1>2, <1>3, HandledAlways, PTL DEF Spec, ClaimKept

----------------------------------------------------------------------------
(* The cap on automatic recoveries                                         *)

\* A row that counts no recovery more than the row now does.
Uncharged(r) == r.infra <= row.infra

\* The statements that count nothing, on the row as it is; a transient failure
\* counts only below the cap.
LEMMA StatementsUncharged ==
  ASSUME Handled, NEW s, NEW h, NEW class
  PROVE  /\ Uncharged(row) /\ Uncharged(Freed(row)) /\ Uncharged(Reset(row))
         /\ Uncharged(ReleaseReviewerClaim(row, s)) /\ Uncharged(MarkRereviewCiBlocked(row, s))
         /\ Uncharged(MarkReviewerPgid(row, s)) /\ Uncharged(Posted(row, h))
         /\ Uncharged(ReleaseUnsettledPostedReview(row, s)) /\ Uncharged(SettlePosted(row, s, h))
         /\ Uncharged(MarkSizeFailed(row, s, h)) /\ Uncharged(MarkFailed(row, class))
         /\ Uncharged(MarkOrphan(row)) /\ Uncharged(MarkHold(row))
         /\ Uncharged(MarkOutageTransient(row)) /\ Uncharged(ReleaseReviewLease(row, class))
         /\ Uncharged(ReleaseSuperseded(row)) /\ Uncharged(SkipTerminal(row))
         /\ row.infra >= InfraCap => Uncharged(TransientFailure(row))
  <1>0. row \in HandledRow /\ row \in Row /\ row.infra \in Nat
    BY RowFields DEF Handled, HandledRow
  <1>f. Freed(row) \in Row /\ Freed(row).infra = row.infra /\ Reset(row).infra = 0
    BY <1>0, FreedHandled DEF HandledRow, Freed, Reset, Row
  <1>1. /\ Uncharged(row) /\ Uncharged(Freed(row)) /\ Uncharged(Reset(row))
        /\ Uncharged(ReleaseSuperseded(row))
    BY <1>0, <1>f DEF Uncharged, ReleaseSuperseded
  <1>2. /\ Uncharged(ReleaseReviewerClaim(row, s)) /\ Uncharged(ReleaseUnsettledPostedReview(row, s))
        /\ Uncharged(SkipTerminal(row))
    BY <1>0, <1>f, <1>1
    DEF Uncharged, ReleaseReviewerClaim, ReleaseUnsettledPostedReview, SkipTerminal, Row
  <1>3. Uncharged(Posted(row, h))
    BY <1>0 DEF Uncharged, Posted, Row
  <1>4. Uncharged(SettlePosted(row, s, h))
    BY <1>2, <1>3 DEF SettlePosted
  <1>5. /\ Uncharged(MarkRereviewCiBlocked(row, s)) /\ Uncharged(MarkReviewerPgid(row, s))
        /\ Uncharged(MarkSizeFailed(row, s, h)) /\ Uncharged(MarkFailed(row, class))
        /\ Uncharged(MarkOrphan(row)) /\ Uncharged(MarkHold(row))
        /\ Uncharged(MarkOutageTransient(row)) /\ Uncharged(ReleaseReviewLease(row, class))
    BY <1>0
    DEF Uncharged, MarkRereviewCiBlocked, MarkReviewerPgid, MarkSizeFailed, MarkFailed,
        MarkOrphan, MarkHold, MarkOutageTransient, ReleaseReviewLease, Row
  <1>6. row.infra >= InfraCap => Uncharged(TransientFailure(row))
    BY <1>0, BoundAssumption DEF Uncharged, TransientFailure, MarkFailed, Row
  <1> QED
    BY <1>1, <1>2, <1>3, <1>4, <1>5, <1>6

\* Which steps count a recovery of a row that has spent them all: the claim of
\* a due cascade and the return of a claim that was not executed.
LEMMA ChargesPastCap ==
  ASSUME Handled, Next, row.infra >= InfraCap,
         loop.pc = "idle" \/ loop.snap.infra = row.infra
  PROVE  \/ Uncharged(row')
         \/ \E s \in Sessions :
              \/ sess[s].kind = "due" /\ HeldBy(row', s)
              \/ HeldBy(row, s) /\ row' = RestorePreClaim(row, s, sess[s].was)
  <1>0. row \in HandledRow /\ row \in Row /\ row.infra \in Nat /\ InfraCap \in Nat /\ Uncharged(row)
    BY RowFields, BoundAssumption, StatementsUncharged DEF Handled, HandledRow
  <1>s. CASE UNCHANGED row
    BY <1>s, <1>0
  <1>c. ~(row.infra < InfraCap)
    BY <1>0
  <1>p. \A pr : Uncharged([row EXCEPT !.pr = pr])
    BY <1>0 DEF Uncharged, Row
  <1>1. ASSUME NEW s \in Sessions, Dispatch(s)
        PROVE  \/ Uncharged(row')
               \/ sess[s].kind = "due" /\ HeldBy(row', s)
               \/ HeldBy(row, s) /\ row' = RestorePreClaim(row, s, sess[s].was)
    <2>1. CASE RestoreDeduped(s)
      BY <2>1, <1>0 DEF RestoreDeduped, Uncharged, Row
    <2>2. CASE Claim(s)
      <3>1. CASE row' = row
        BY <3>1, <1>0
      <3>2. CASE /\ ClaimMatches(row, sess[s].kind, sess[s].was, sess[s].head)
                 /\ row' = Claimed(row, s, sess[s].kind, sess[s].head)
        <4> DEFINE k == sess[s].kind
        <4>1. row'.infra = Charged(row.infra, k) /\ HeldBy(row', s)
          BY <3>2, <1>0 DEF Claimed, HeldBy, Row
        <4>2. k \notin {"infra", "bounce"}
          BY <3>2, <1>c DEF ClaimMatches
        <4>3. k = "due" \/ Charged(row.infra, k) <= row.infra
          BY <4>2, <1>0 DEF Charged
        <4> QED
          BY <4>1, <4>3 DEF Uncharged
      <3> QED
        BY <2>2, <3>1, <3>2 DEF Claim
    <2>3. CASE FreshnessRefuses(s)
      <3>1. HeldBy(row, s) \/ RestorePreClaim(row, s, sess[s].was) = row
        BY DEF RestorePreClaim
      <3> QED
        BY <2>3, <3>1, <1>0, <1>p, StatementsUncharged DEF FreshnessRefuses
    <2>4. CASE Settle(s)
      BY <2>4, StatementsUncharged DEF Settle
    <2>5. CASE AdmissionRefuses(s) \/ HcpNotReady(s) \/ RecordPgid(s)
      BY <2>5, StatementsUncharged DEF AdmissionRefuses, HcpNotReady, RecordPgid
    <2>6. CASE Admit(s) \/ DispatchThrows(s) \/ Spawn(s) \/ Post(s) \/ Exit(s)
      BY <2>6, <1>0 DEF Admit, DispatchThrows, Spawn, Post, Exit
    <2> QED
      BY <1>1, <2>1, <2>2, <2>3, <2>4, <2>5, <2>6 DEF Dispatch
  <1>2. CASE Reconcile
    <2>1. CASE ReconcileAdopt
      BY <2>1, <1>0 DEF ReconcileAdopt, Uncharged, Row
    <2>2. CASE ReconcileWrite
      <3>1. ~(loop.snap.infra < InfraCap)
        BY <2>2, <1>0 DEF ReconcileWrite
      <3> QED
        BY <2>2, <3>1, StatementsUncharged DEF ReconcileWrite
    <2>3. CASE ReconcileTerminal \/ ReconcileReopened
      BY <2>3, <1>0, <1>p DEF ReconcileTerminal, ReconcileReopened
    <2>4. CASE ReconcileProbe \/ ReconcileReap \/ ReconcileReaped \/ ReconcileProbeFails
      BY <2>4, <1>0, StatementsUncharged
      DEF ReconcileProbe, ReconcileReap, ReconcileReaped, ReconcileProbeFails
    <2>5. CASE \/ ReconcileList \/ ReconcileUnverified \/ ReconcileNullPgid
               \/ ReconcileNullProbe \/ ReconcileKnownPgid \/ ReconcileReview
      BY <2>5, <1>s
      DEF ReconcileList, ReconcileUnverified, ReconcileNullPgid, ReconcileNullProbe,
          ReconcileKnownPgid, ReconcileReview
    <2> QED
      BY <1>2, <2>1, <2>2, <2>3, <2>4, <2>5 DEF Reconcile
  <1>3. CASE Restart
    <2>1. CASE BounceRequeue
      BY <2>1, <1>0 DEF BounceRequeue, Uncharged, Row
    <2>2. CASE RecoverPostedFailure
      BY <2>2, StatementsUncharged DEF RecoverPostedFailure
    <2>3. CASE Crash \/ StartupWithoutClaim \/ StartupDone \/ BounceKill
      BY <2>3, <1>s DEF Crash, StartupWithoutClaim, StartupDone, BounceKill
    <2> QED
      BY <1>3, <2>1, <2>2, <2>3 DEF Restart
  <1>4. CASE Others
    <2>1. ~AutoReclaim
      BY <1>c DEF AutoReclaim
    <2>2. CASE Finalize \/ RearmReviewerCredentialOutage \/ Age
      <3>1. \A age : Uncharged([row EXCEPT !.age = age])
        BY <1>0 DEF Uncharged, Row
      <3>2. \A status : Uncharged([row EXCEPT !.status = status])
        BY <1>0 DEF Uncharged, Row
      <3>3. Uncharged([row EXCEPT !.status = "pending", !.fail = "none", !.infra = 0])
        BY <1>0 DEF Uncharged, Row
      <3> QED
        BY <2>2, <3>1, <3>2, <3>3 DEF Finalize, RearmReviewerCredentialOutage, Age
    <2>3. CASE MergedSkip
      <3>1. Freed(row) \in Row /\ Uncharged(Freed(row))
        BY <1>0, FreedHandled, StatementsUncharged DEF HandledRow
      <3> QED
        BY <2>3, <3>1 DEF MergedSkip, Uncharged, Row
    <2>4. CASE MirrorSync
      <3>1. Reset(row) \in Row /\ Uncharged(Reset(row))
        BY <1>0, FreedHandled, StatementsUncharged DEF HandledRow
      <3>2. \A pr : Uncharged([Reset(row) EXCEPT !.pr = pr])
        BY <3>1 DEF Uncharged, Row
      <3> QED
        BY <2>4, <3>2, <1>p DEF MirrorSync
    <2>5. CASE Rereview \/ ForceReset
      BY <2>5, StatementsUncharged DEF Rereview, ForceReset
    <2>6. CASE PullRequestChanges
      BY <2>6, <1>s DEF PullRequestChanges
    <2> QED
      BY <1>4, <2>1, <2>2, <2>3, <2>4, <2>5, <2>6 DEF Others
  <1> QED
    BY <1>1, <1>2, <1>3, <1>4 DEF Next

\* No recovery passes INFRA_AUTO_RECOVER_CAP but that of a cascade whose retry
\* is due: every claim, requeue and reclaim checks the cap where it writes, for
\* every cap, set of sessions and set of failure classes.
THEOREM CapIsRespected == Spec => CapRespected
  <1>1. ASSUME Handled, Next, row.infra >= InfraCap,
               loop.pc = "idle" \/ loop.snap.infra = row.infra,
               row'.infra > row.infra
        PROVE  \E s \in Sessions :
                 \/ sess[s].kind = "due" /\ HeldBy(row', s)
                 \/ HeldBy(row, s) /\ row' = RestorePreClaim(row, s, sess[s].was)
    <2>1. row.infra \in Nat /\ row'.infra \in Nat
      <3>1. Handled'
        BY <1>1, HandledNext
      <3>2. row \in Row /\ row' \in Row
        BY <1>1, <3>1 DEF Handled, HandledRow
      <3> QED
        BY <3>2, RowFields
    <2>2. ~Uncharged(row')
      BY <1>1, <2>1 DEF Uncharged
    <2> QED
      BY <1>1, <2>2, ChargesPastCap
  <1>2. Handled /\ [Next]_vars =>
          [(/\ loop.pc = "idle" \/ loop.snap.infra = row.infra
            /\ row.infra >= InfraCap /\ row'.infra > row.infra)
             => \E s \in Sessions :
                  \/ sess[s].kind = "due" /\ HeldBy(row', s)
                  \/ HeldBy(row, s) /\ row' = RestorePreClaim(row, s, sess[s].was)]_vars
    BY <1>1
  <1> QED
    BY <1>2, HandledAlways, PTL DEF Spec, CapRespected

----------------------------------------------------------------------------
(* The row implements the register of claims                               *)

Waiting == {"unused", "queued"}

\* The row a claimed session remembers was free: putting it back puts no
\* claim back.
FreeBefore(f) == \A t \in Sessions : f[t].phase = "claimed" => f[t].was.status # "reviewing"

\* The sessions that have not claimed yet are the same.
SameWaiting(f) == \A t \in Sessions : f[t].phase \in Waiting <=> sess[t].phase \in Waiting

\* The claim of q, if q is claimed, is the claim of r.
SameClaim(r, q) == q.status = "reviewing" => r.status = "reviewing" /\ q.session = r.session

\* A claim statement that matches.
ClaimWins(s) ==
  /\ sess[s].phase = "queued"
  /\ ClaimMatches(row, sess[s].kind, sess[s].was, sess[s].head)
  /\ row' = Claimed(row, s, sess[s].kind, sess[s].head)
  /\ sess' = [sess EXCEPT ![s] = [sess[s] EXCEPT !.phase = "claimed", !.awaited = TRUE,
                                                 !.kind = "pending", !.was = row]]

LEMMA FinishedWaits ==
  ASSUME Handled, FreeBefore(sess), NEW s \in Sessions, sess[s].phase \notin Waiting
  PROVE  FreeBefore(Finished(s)) /\ SameWaiting(Finished(s))
  <1>1. /\ Finished(s)[s] = Over(sess[s])
        /\ \A t \in Sessions \ {s} : Finished(s)[t] = sess[t]
    BY DEF Finished, Handled
  <1>2. Over(sess[s]).phase = "done"
    BY OverHandled, HandledFields
  <1> QED
    BY <1>1, <1>2 DEF FreeBefore, SameWaiting, Waiting

LEMMA EndedWaits ==
  ASSUME Handled, FreeBefore(sess), NEW s
  PROVE  FreeBefore(Ended(s)) /\ SameWaiting(Ended(s))
  <1>0. FreeBefore(sess) /\ SameWaiting(sess)
    BY DEF SameWaiting
  <1>1. CASE Running(s) /\ sess[s].awaited
    <2>1. s \in Sessions /\ Ended(s) = [sess EXCEPT ![s].phase = "exited"]
      BY <1>1 DEF Ended, Running
    <2>2. Ended(s)[s].phase = "exited" /\ \A t \in Sessions \ {s} : Ended(s)[t] = sess[t]
      BY <2>1 DEF Handled, HandledSession, Session
    <2>3. sess[s].phase \notin Waiting
      BY <1>1 DEF Running, Waiting
    <2> QED
      BY <2>2, <2>3, <1>0 DEF FreeBefore, SameWaiting, Waiting
  <1>2. CASE Running(s) /\ ~sess[s].awaited
    BY <1>2, FinishedWaits DEF Ended, Running, Waiting
  <1>3. CASE ~Running(s)
    BY <1>3, <1>0 DEF Ended
  <1> QED
    BY <1>1, <1>2, <1>3

\* Only a claim statement that matches turns a waiting session into one that
\* has claimed, and no session waits again after that.
LEMMA SessionsWait ==
  ASSUME Handled, FreeBefore(sess), Next
  PROVE  \/ FreeBefore(sess') /\ SameWaiting(sess')
         \/ \E s \in Sessions : ClaimWins(s)
  <1> DEFINE Kept(f) == FreeBefore(f) /\ SameWaiting(f)
  <1>0. Kept(sess)
    BY DEF SameWaiting
  <1>1. ASSUME NEW s \in Sessions, Dispatch(s)
        PROVE  Kept(sess') \/ ClaimWins(s)
    <2>0. sess \in [Sessions -> HandledSession] /\ sess[s] \in HandledSession
      BY HandledFields DEF Handled
    <2>1. CASE Admit(s)
      <3>1. PICK k \in AdmissibleKinds(row, live.head) :
              sess' = [sess EXCEPT ![s] = [sess[s] EXCEPT !.phase = "queued", !.kind = k,
                                             !.head = live.head, !.was = row]]
        BY <2>1 DEF Admit
      <3>2. sess'[s].phase = "queued" /\ \A t \in Sessions \ {s} : sess'[t] = sess[t]
        BY <3>1, <2>0 DEF HandledSession, Session
      <3> QED
        BY <2>1, <3>2, <1>0 DEF Admit, FreeBefore, SameWaiting, Waiting
    <2>2. CASE sess' = [sess EXCEPT ![s] = UnusedSession] /\ sess[s].phase = "queued"
      <3>1. sess'[s].phase = "unused" /\ \A t \in Sessions \ {s} : sess'[t] = sess[t]
        BY <2>2, <2>0 DEF UnusedSession
      <3> QED
        BY <2>2, <3>1, <1>0 DEF FreeBefore, SameWaiting, Waiting
    <2>3. CASE sess' = Finished(s) /\ sess[s].phase \notin Waiting
      BY <2>3, FinishedWaits
    <2>4. CASE Spawn(s) \/ RecordPgid(s)
      <3>1. /\ sess[s].phase \in {"claimed", "spawned"}
            /\ sess'[s].phase \in {"spawned", "running"}
            /\ \A t \in Sessions \ {s} : sess'[t] = sess[t]
        <4>1. CASE Spawn(s)
          BY <4>1, <2>0 DEF Spawn, HandledSession, Session
        <4>2. CASE RecordPgid(s)
          BY <4>2, <2>0 DEF RecordPgid, HandledSession, Session
        <4> QED
          BY <2>4, <4>1, <4>2
      <3> QED
        BY <3>1, <1>0 DEF FreeBefore, SameWaiting, Waiting
    <2>5. CASE Post(s)
      <3>1. /\ sess'[s].phase = sess[s].phase /\ sess'[s].was = sess[s].was
            /\ \A t \in Sessions \ {s} : sess'[t] = sess[t]
        BY <2>5, <2>0 DEF Post, HandledSession, Session
      <3> QED
        BY <3>1, <1>0 DEF FreeBefore, SameWaiting
    <2>6. CASE Exit(s)
      BY <2>6, EndedWaits DEF Exit
    <2>7. CASE Claim(s)
      BY <2>2, <2>7 DEF Claim, ClaimWins
    <2>8. CASE \/ FreshnessRefuses(s) \/ AdmissionRefuses(s) \/ HcpNotReady(s)
               \/ DispatchThrows(s) \/ Settle(s)
      BY <2>3, <2>8
      DEF FreshnessRefuses, AdmissionRefuses, HcpNotReady, DispatchThrows, Settle, Waiting
    <2>9. CASE RestoreDeduped(s)
      BY <2>2, <2>9 DEF RestoreDeduped
    <2> QED
      BY <1>1, <2>1, <2>4, <2>5, <2>6, <2>7, <2>8, <2>9 DEF Dispatch
  <1>2. CASE Reconcile
    <2>1. sess' \in {sess, Ended(loop.snap.session)}
      BY <1>2
      DEF Reconcile, ReconcileList, ReconcileTerminal, ReconcileReopened, ReconcileUnverified,
          ReconcileAdopt, ReconcileNullPgid, ReconcileNullProbe, ReconcileKnownPgid,
          ReconcileProbe, ReconcileReview, ReconcileReap, ReconcileReaped,
          ReconcileProbeFails, ReconcileWrite, KillOutcomes, Killed
    <2> QED
      BY <2>1, <1>0, EndedWaits
  <1>3. CASE Crash
    <2>1. ASSUME NEW t \in Sessions
          PROVE  /\ sess'[t].phase # "claimed"
                 /\ sess'[t].phase \in Waiting <=> sess[t].phase \in Waiting
      <3>0. sess[t] \in HandledSession
        BY HandledFields
      <3>1. CASE sess[t].phase \in Waiting
        <4>1. sess'[t] = UnusedSession
          BY <1>3, <3>1 DEF Crash, Running, Waiting
        <4> QED
          BY <3>1, <4>1 DEF UnusedSession, Waiting
      <3>2. CASE Running(t)
        <4>1. sess'[t] = [sess[t] EXCEPT !.awaited = FALSE]
          BY <1>3, <3>2 DEF Crash, Running
        <4>2. sess'[t].phase = sess[t].phase
          BY <4>1, <3>0 DEF HandledSession, Session
        <4> QED
          BY <3>2, <4>2 DEF Running, Waiting
      <3>3. CASE sess[t].phase \notin Waiting /\ ~Running(t)
        <4>1. sess'[t] = Over(sess[t])
          BY <1>3, <3>3 DEF Crash, Waiting
        <4> QED
          BY <3>3, <4>1, <3>0, OverHandled DEF Waiting
      <3> QED
        BY <3>1, <3>2, <3>3
    <2> QED
      BY <2>1 DEF FreeBefore, SameWaiting
  <1>4. CASE BounceKill
    BY <1>4, <1>0, EndedWaits DEF BounceKill, Killed
  <1>5. CASE Others \/ StartupWithoutClaim \/ BounceRequeue \/ StartupDone \/ RecoverPostedFailure
    <2>1. UNCHANGED sess
      BY <1>5
      DEF Others, AutoReclaim, Finalize, RearmReviewerCredentialOutage, MergedSkip, MirrorSync,
          Rereview, ForceReset, Age, PullRequestChanges, StartupWithoutClaim, BounceRequeue,
          StartupDone, RecoverPostedFailure
    <2> QED
      BY <2>1, <1>0
  <1> QED
    BY <1>1, <1>2, <1>3, <1>4, <1>5 DEF Next, Restart

\* No statement but a claim starts a claim or changes whose it is.
LEMMA StatementsSame ==
  ASSUME NEW r \in HandledRow, NEW s, NEW h, NEW class
  PROVE  /\ SameClaim(r, ReleaseReviewerClaim(r, s))
         /\ SameClaim(r, MarkRereviewCiBlocked(r, s))
         /\ SameClaim(r, MarkReviewerPgid(r, s))
         /\ SameClaim(r, MarkSizeFailed(r, s, h))
         /\ SameClaim(r, MarkFailed(r, class))
         /\ SameClaim(r, MarkHold(r))
         /\ SameClaim(r, MarkOutageTransient(r))
         /\ SameClaim(r, ReleaseReviewLease(r, class))
         /\ SameClaim(r, MarkOrphan(r))
         /\ SameClaim(r, TransientFailure(r))
         /\ SameClaim(r, ReleasePending(r))
         /\ SameClaim(r, Reset(r))
         /\ SameClaim(r, [Reset(r) EXCEPT !.fail = "terminal", !.infra = r.infra + 1])
         /\ SameClaim(r, SkipTerminal(r))
         /\ SameClaim(r, ReleaseSuperseded(r))
         /\ SameClaim(r, ReleaseUnsettledPostedReview(r, s))
         /\ SameClaim(r, Posted(r, h))
         /\ SameClaim(r, SettlePosted(r, s, h))
  <1>0. r \in Row /\ Freed(r) \in Row /\ Reset(r) \in Row
    BY FreedHandled DEF HandledRow
  <1>1. /\ SameClaim(r, MarkRereviewCiBlocked(r, s)) /\ SameClaim(r, MarkReviewerPgid(r, s))
        /\ SameClaim(r, MarkSizeFailed(r, s, h)) /\ SameClaim(r, MarkFailed(r, class))
    BY <1>0 DEF SameClaim, MarkRereviewCiBlocked, MarkReviewerPgid, HeldBy, MarkSizeFailed, MarkFailed, Row
  <1>2. /\ SameClaim(r, MarkHold(r)) /\ SameClaim(r, MarkOutageTransient(r))
        /\ SameClaim(r, ReleaseReviewLease(r, class)) /\ SameClaim(r, MarkOrphan(r))
    BY <1>0 DEF SameClaim, MarkHold, MarkOutageTransient, ReleaseReviewLease, MarkOrphan, Row
  <1>3. SameClaim(r, TransientFailure(r))
    BY <1>0 DEF SameClaim, TransientFailure, MarkFailed, Row
  <1>4. /\ SameClaim(r, ReleaseReviewerClaim(r, s)) /\ SameClaim(r, ReleaseUnsettledPostedReview(r, s))
        /\ SameClaim(r, ReleasePending(r)) /\ SameClaim(r, SkipTerminal(r))
    BY <1>0 DEF SameClaim, ReleaseReviewerClaim, ReleaseUnsettledPostedReview, ReleasePending,
                SkipTerminal, Row
  <1>5. Reset(r).status = "pending"
    BY <1>0 DEF Reset, Row
  <1>6. SameClaim(r, Reset(r)) /\ SameClaim(r, ReleaseSuperseded(r))
    BY <1>5 DEF SameClaim, ReleaseSuperseded
  <1>7. SameClaim(r, [Reset(r) EXCEPT !.fail = "terminal", !.infra = r.infra + 1])
    BY <1>0, <1>5 DEF SameClaim, Row
  <1>8. SameClaim(r, Posted(r, h))
    BY <1>0 DEF SameClaim, Posted, Row
  <1>9. SameClaim(r, SettlePosted(r, s, h))
    BY <1>4, <1>8 DEF SettlePosted
  <1> QED
    BY <1>1, <1>2, <1>3, <1>4, <1>6, <1>7, <1>8, <1>9

\* Every step keeps, ends or takes a claim: none is handed over or revived.
LEMMA RowSame ==
  ASSUME Handled, FreeBefore(sess), Next
  PROVE  SameClaim(row, row') \/ \E s \in Sessions : ClaimWins(s)
  <1>0. row \in HandledRow /\ row \in Row /\ SameClaim(row, row)
    BY DEF Handled, HandledRow, SameClaim
  <1>s. row' = row => SameClaim(row, row')
    BY <1>0
  <1>p. \A pr : SameClaim(row, [row EXCEPT !.pr = pr])
    BY <1>0 DEF SameClaim, Row
  <1>1. ASSUME NEW s \in Sessions, Dispatch(s)
        PROVE  SameClaim(row, row') \/ ClaimWins(s)
    <2>1. CASE RestoreDeduped(s)
      <3>1. \A h : SameClaim(row, [row EXCEPT !.status = "posted", !.head = h, !.fail = "none",
                                              !.age = "fresh"])
        BY <1>0 DEF SameClaim, Row
      <3> QED
        BY <2>1, <3>1, <1>0 DEF RestoreDeduped
    <2>2. CASE Claim(s)
      BY <2>2, <1>0 DEF Claim, ClaimWins
    <2>3. CASE FreshnessRefuses(s)
      <3>1. SameClaim(row, RestorePreClaim(row, s, sess[s].was))
        <4>1. sess[s].was \in Row /\ sess[s].was.status # "reviewing"
          BY <2>3, HandledFields, SessionFields DEF FreshnessRefuses, FreeBefore, HandledRow
        <4> QED
          BY <4>1, <1>0 DEF RestorePreClaim, SameClaim, Row
      <3> QED
        BY <2>3, <3>1, <1>0, <1>p, StatementsSame DEF FreshnessRefuses
    <2>4. CASE Settle(s)
      BY <2>4, <1>0, StatementsSame DEF Settle
    <2>5. CASE AdmissionRefuses(s) \/ HcpNotReady(s) \/ RecordPgid(s)
      BY <2>5, <1>0, StatementsSame DEF AdmissionRefuses, HcpNotReady, RecordPgid
    <2>6. CASE Admit(s) \/ DispatchThrows(s) \/ Spawn(s) \/ Post(s) \/ Exit(s)
      BY <2>6, <1>s DEF Admit, DispatchThrows, Spawn, Post, Exit
    <2> QED
      BY <1>1, <2>1, <2>2, <2>3, <2>4, <2>5, <2>6 DEF Dispatch
  <1>2. CASE Reconcile
    <2>1. CASE ReconcileAdopt
      <3>1. SameClaim(row, [row EXCEPT !.pgid = loop.snap.session])
        BY <1>0 DEF SameClaim, Row
      <3> QED
        BY <2>1, <3>1, <1>0 DEF ReconcileAdopt
    <2>2. CASE ReconcileWrite
      BY <2>2, <1>0, StatementsSame DEF ReconcileWrite
    <2>3. CASE ReconcileTerminal \/ ReconcileReopened
      BY <2>3, <1>0, <1>p DEF ReconcileTerminal, ReconcileReopened
    <2>4. CASE ReconcileProbe \/ ReconcileReap \/ ReconcileReaped \/ ReconcileProbeFails
      BY <2>4, <1>0, StatementsSame
      DEF ReconcileProbe, ReconcileReap, ReconcileReaped, ReconcileProbeFails
    <2>5. CASE \/ ReconcileList \/ ReconcileUnverified \/ ReconcileNullPgid
               \/ ReconcileNullProbe \/ ReconcileKnownPgid \/ ReconcileReview
      BY <2>5, <1>s
      DEF ReconcileList, ReconcileUnverified, ReconcileNullPgid, ReconcileNullProbe,
          ReconcileKnownPgid, ReconcileReview
    <2> QED
      BY <1>2, <2>1, <2>2, <2>3, <2>4, <2>5 DEF Reconcile
  <1>3. CASE Restart
    <2>1. CASE BounceRequeue
      BY <2>1, <1>0 DEF BounceRequeue, SameClaim, Row
    <2>2. CASE RecoverPostedFailure
      BY <2>2, <1>0, StatementsSame DEF RecoverPostedFailure
    <2>3. CASE Crash \/ StartupWithoutClaim \/ StartupDone \/ BounceKill
      BY <2>3, <1>s DEF Crash, StartupWithoutClaim, StartupDone, BounceKill
    <2> QED
      BY <1>3, <2>1, <2>2, <2>3 DEF Restart
  <1>4. CASE Others
    <2>1. CASE AutoReclaim
      BY <2>1, <1>0, StatementsSame DEF AutoReclaim
    <2>2. CASE Finalize \/ RearmReviewerCredentialOutage \/ Age
      BY <2>2, <1>0 DEF Finalize, RearmReviewerCredentialOutage, Age, SameClaim, Row
    <2>3. CASE MergedSkip
      <3>1. Freed(row) \in Row
        BY <1>0, FreedHandled DEF HandledRow
      <3> QED
        BY <2>3, <3>1 DEF MergedSkip, SameClaim, Row
    <2>4. CASE MirrorSync
      <3>1. Reset(row) \in Row /\ SameClaim(row, Reset(row)) /\ Reset(row).status = "pending"
        BY <1>0, FreedHandled, StatementsSame DEF HandledRow, Reset, Row
      <3>2. \A pr : SameClaim(row, [Reset(row) EXCEPT !.pr = pr])
        BY <3>1 DEF SameClaim, Row
      <3> QED
        BY <2>4, <3>2, <1>p DEF MirrorSync
    <2>5. CASE Rereview \/ ForceReset
      BY <2>5, <1>0, StatementsSame DEF Rereview, ForceReset
    <2>6. CASE PullRequestChanges
      BY <2>6, <1>s DEF PullRequestChanges
    <2> QED
      BY <1>4, <2>1, <2>2, <2>3, <2>4, <2>5, <2>6 DEF Others
  <1> QED
    BY <1>1, <1>2, <1>3, <1>4 DEF Next

\* A matching claim statement finds the row free and the session new to it.
LEMMA WinsTakes ==
  ASSUME Handled, FreeBefore(sess), NEW s \in Sessions, ClaimWins(s)
  PROVE  Register!Take(s) /\ FreeBefore(sess')
  <1>0. /\ sess \in [Sessions -> HandledSession] /\ sess[s] \in HandledSession
        /\ row \in Row /\ sess[s].kind \in Kinds
    BY HandledFields, SessionFields DEF Handled, HandledRow
  <1>1. row.status # "reviewing"
    BY <1>0 DEF ClaimWins, ClaimMatches, TerminalShape, Kinds
  <1>2. row'.status = "reviewing" /\ row'.session = s
    BY <1>0 DEF ClaimWins, Claimed, Row
  <1>3. /\ sess'[s].phase = "claimed" /\ sess'[s].was = row
        /\ \A t \in Sessions \ {s} : sess'[t] = sess[t]
    BY <1>0 DEF ClaimWins, HandledSession, Session
  <1>4. s \notin Claimants /\ Claimants' = Claimants \cup {s}
    BY <1>3 DEF ClaimWins, Claimants
  <1>5. Holder = {} /\ Holder' = {s}
    BY <1>1, <1>2 DEF Holder
  <1>6. FreeBefore(sess')
    BY <1>1, <1>3 DEF FreeBefore
  <1> QED
    BY <1>4, <1>5, <1>6 DEF Register!Take

\* For every set of failure classes, unreadable process tables included: the
\* row's statements, its recovery passes and the restarts implement a
\* register in which a claim is taken only when free, by one session, once.
THEOREM RowIsRegister == Spec => ImplementsRegister
  <1> DEFINE WasFree == FreeBefore(sess)
  <1>1. Init => Register!Init /\ WasFree
    BY DEF Init, Register!Init, Holder, Claimants, NewRow, UnusedSession, FreeBefore
  <1>2. ASSUME Handled, WasFree, [Next]_vars
        PROVE  WasFree' /\ [Register!Next]_<<Holder, Claimants>>
    <2>1. CASE UNCHANGED vars
      BY <1>2, <2>1 DEF vars, FreeBefore, Holder, Claimants
    <2>2. ASSUME NEW s \in Sessions, ClaimWins(s)
          PROVE  WasFree' /\ [Register!Next]_<<Holder, Claimants>>
      BY <1>2, <2>2, WinsTakes DEF Register!Next
    <2>3. CASE Next /\ ~\E s \in Sessions : ClaimWins(s)
      <3>1. FreeBefore(sess') /\ SameWaiting(sess') /\ SameClaim(row, row')
        BY <1>2, <2>3, SessionsWait, RowSame
      <3>2. Claimants' = Claimants
        BY <3>1 DEF SameWaiting, Waiting, Claimants
      <3>3. Holder' = Holder \/ (Holder # {} /\ Holder' = {})
        BY <3>1 DEF SameClaim, Holder
      <3> QED
        BY <3>1, <3>2, <3>3 DEF Register!Next, Register!Lose
    <2> QED
      BY <1>2, <2>1, <2>2, <2>3
  <1> HIDE DEF WasFree
  <1> QED
    BY <1>1, <1>2, HandledAlways, PTL DEF Spec, ImplementsRegister, Register!Spec
=============================================================================
