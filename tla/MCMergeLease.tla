---------------------------- MODULE MCMergeLease ----------------------------
(***************************************************************************)
(* TLC instances of MergeLease.                                            *)
(***************************************************************************)
EXTENDS MergeLease, TLC

CONSTANTS c1, c2, d1, op

\* Heads "a" and "b" belong to one PR, or to one each.
SharedPr == [h \in {"a", "b"} |-> 1]
TwoPrs == ("a" :> 1) @@ ("b" :> 2)

\* A hammer and the daemon, on one head each.
MixedHeads == (c1 :> "a") @@ (d1 :> "b")

\* Two hammers, one on each head.
HammerHeads == (c1 :> "a") @@ (c2 :> "b")

OneHost == [a \in Actors |-> "h1"]
TwoHosts == [a \in Actors |-> IF a = c2 THEN "h2" ELSE "h1"]
=============================================================================
