--------------------------- MODULE ClaimRegister ---------------------------
(***************************************************************************)
(* What a claimed row promises to reviewer sessions, with no statements,   *)
(* processes or restarts: at most one session holds the claim, a session   *)
(* takes it only when nobody does, and each session takes it at most once, *)
(* so a claim that was lost is lost for good.                              *)
(***************************************************************************)
CONSTANT Sessions

VARIABLES
  holder,   \* the session that holds the claim, if any
  used      \* the sessions that have ever taken it

Init == holder = {} /\ used = {}

Take(s) ==
  /\ holder = {}
  /\ s \notin used
  /\ holder' = {s}
  /\ used' = used \cup {s}

Lose ==
  /\ holder # {}
  /\ holder' = {}
  /\ used' = used

Next == Lose \/ \E s \in Sessions : Take(s)

Spec == Init /\ [][Next]_<<holder, used>>
=============================================================================
