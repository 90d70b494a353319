-------------------------- MODULE MCInventoryShared --------------------------
(* Inventory for TLC: two players who get the same slot, one after the     *)
(* other.                                                                   *)
EXTENDS Inventory

CONSTANTS p0, p1

MCNamesOf == [u \in Users |-> {p0, p1}]

(* RIenventory.h 31-34: UpdateInventoryDB stores the inventory OF A PLAYER  *)
(* in the database.  A table would then hold only what its player bought.   *)
(* TLC refutes it: Connect gives the slot the name of the new player before *)
(* it clears the items of the last one, and the synchronisation thread,     *)
(* which reads the name and the items apart, stores them under that name.   *)
TablesHoldOwnItems == \A p \in Players : ~Excess(db[p], p)
=============================================================================
