------------------------------- MODULE MCShop -------------------------------
(* Shop for TLC: the values of its constants that are not model values. *)
EXTENDS Shop

CONSTANTS a, n0

(* No item drawn, one item, and the same item drawn twice. *)
MCAssortments == {<<>>, <<a>>, <<a, a>>}

(* A part of an offer and all of it, nothing, the count that looks like no *)
(* purchase, and the least int, with which the offer overflows.            *)
MCCounts == {1, 2, 0, -1, -INT_MAX - 1}

MCNamesOf == [u \in Users |-> {n0}]

(* One unit of each item stored, where a slot never used has none. *)
MCRows == {[i \in Items |-> 1]}
=============================================================================
