----------------------------- MODULE MCShopNames -----------------------------
(* Shop for TLC with one player name that may come back in another slot.   *)
EXTENDS Shop, TLC

CONSTANTS a, n0

MCAssortments == {<<a>>}
MCNamesOf == [u \in Users |-> {n0}]
MCRows == {[i \in Items |-> NoItem]}

NamesakeOnline(u) == \E v \in mUserIDDictionary \ {u} : mName[v] = mName[u]

(* RShop.cpp 90: after a purchase the inventory of the player who asked     *)
(* for it is refreshed, so that it agrees with the client's.  Between two   *)
(* callbacks a registered user whose name no other registered user has     *)
(* would then have been sent its inventory.  TLC refutes it: the slot is    *)
(* looked up by name among all slots, and the player's previous slot, left  *)
(* with the same name, is found first.                                      *)
PurchaseReachesBuyer ==
  pc["process"] = "idle" =>
    \A u \in mUserIDDictionary :
      mName[u] # NoName /\ ~NamesakeOnline(u) => inventoryView[u] = inventory[u]
=============================================================================
