------------------------------- MODULE Upsets -------------------------------
(* A budget of disturbances shared by the components of a composition:      *)
(* crashes, refused writes, lost receipts, operator commands.  The programs *)
(* do not count them; the bound keeps the instances finite.                 *)
EXTENDS Naturals

CONSTANT MaxUpsets   \* bound: disturbances of any kind

ASSUME UpsetAssumption == MaxUpsets \in Nat

VARIABLE upsets      \* disturbances so far

Upset == upsets < MaxUpsets /\ upsets' = upsets + 1
=============================================================================
