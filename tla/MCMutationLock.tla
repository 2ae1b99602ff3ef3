--------------------------- MODULE MCMutationLock ---------------------------
(***************************************************************************)
(* TLC instance of MutationLock: three processes, two of them on one host. *)
(***************************************************************************)
EXTENDS MutationLock, TLC

CONSTANTS p1, p2, p3

ThreeProcs == {p1, p2, p3}
TwoHosts == (p1 :> "h1") @@ (p2 :> "h1") @@ (p3 :> "h2")
=============================================================================
