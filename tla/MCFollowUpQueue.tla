--------------------------- MODULE MCFollowUpQueue ---------------------------
(* The remediation queue of a pull request no closer touches. *)
EXTENDS FollowUpQueue
=============================================================================
