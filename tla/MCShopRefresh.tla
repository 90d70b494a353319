---------------------------- MODULE MCShopRefresh ----------------------------
(* Shop for TLC, for what clients see: two slots with names of their own. *)
EXTENDS Shop, TLC

CONSTANTS a, n0, n1

MCAssortments == {<<a>>}
MCNamesOf == (0 :> {n0}) @@ (1 :> {n1})
MCRows == {[i \in Items |-> 1]}
=============================================================================
