---------------------------- MODULE MCReviewRow ----------------------------
(* The review row with two reviewer sessions. *)
EXTENDS ReviewRow, TLC

(* Sessions are only compared and stored: they may be permuted.  Unsound   *)
(* for temporal properties, so the liveness runs do not use it.            *)
Symmetry == Permutations(Sessions)
=============================================================================
