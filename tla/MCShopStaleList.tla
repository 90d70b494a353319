--------------------------- MODULE MCShopStaleList ---------------------------
(* Shop for TLC: is the list that a client shows the one on sale?          *)
EXTENDS Shop

CONSTANT a

MCAssortments == {<<>>, <<a>>}
MCNamesOf == [u \in Users |-> {}]
MCRows == {[i \in Items |-> NoItem]}

Quiet == pc["process"] = "idle" /\ pc["reset"] = "sleep"

(* RShop.h 45-47 says that SendCurrentShopItemList brings the clients' lists *)
(* up to date with the current one.  Then, when neither thread is sending,   *)
(* a registered user who has been sent a list has the one on sale.  TLC      *)
(* refutes it: the reset thread copies the list, a purchase changes it and   *)
(* is broadcast, and the reset thread's older copy is sent last.             *)
BroadcastsRefresh ==
  Quiet => \A u \in mUserIDDictionary :
              shopView[u] # <<>> => shopView[u] = ListOf(mItemList)
=============================================================================
