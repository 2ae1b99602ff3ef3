-------------------------- MODULE MCBranchOwnership --------------------------
(* One pull request with its remediation queue and its closer. *)
EXTENDS BranchOwnership
=============================================================================
