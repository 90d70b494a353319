----------------------------- MODULE MCInventory -----------------------------
(* Inventory for TLC: each slot serves one player. *)
EXTENDS Inventory, TLC

CONSTANTS p0, p1

(* A unit; and a count that erases one, makes an entry below zero where    *)
(* there is none and, asked for twice, a sum that no int can hold.         *)
MCCounts == {1, -2}

MCNamesOf == (0 :> {p0}) @@ (1 :> {p1})
=============================================================================
