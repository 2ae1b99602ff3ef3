-------------------------------- MODULE Lane --------------------------------
(***************************************************************************)
(* What exclusive ownership promises to its clients, with no files,        *)
(* processes or clocks: the set of clients that may act now has at most    *)
(* one member, and the lane changes hands only by becoming free first.     *)
(* The merge lane of a (repo, base) and the lock file under it each        *)
(* implement it.                                                           *)
(***************************************************************************)
CONSTANT Clients

VARIABLE entitled   \* the clients entitled to act

Init == entitled = {}

Enter(c) ==
  /\ entitled = {}
  /\ entitled' = {c}

Lose ==
  /\ entitled # {}
  /\ entitled' = {}

Next == Lose \/ \E c \in Clients : Enter(c)

Spec == Init /\ [][Next]_entitled
=============================================================================
