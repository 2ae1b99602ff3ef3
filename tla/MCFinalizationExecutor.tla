----------------------- MODULE MCFinalizationExecutor -----------------------
(* The finalization executor with two executors and two heads. *)
EXTENDS FinalizationExecutor, TLC

(* Executors are only compared and stored: they may be permuted. *)
Symmetry == Permutations(Executors)
=============================================================================
