--------------------------- MODULE MCInventoryLost ---------------------------
(* Inventory for TLC: one player who buys and leaves. *)
EXTENDS Inventory

CONSTANT p0

MCNamesOf == [u \in Users |-> {p0}]

(* RIenventory.h 20: the handlers synchronise the database when a player    *)
(* connects and disconnects.  When both threads are at rest and no database *)
(* call has failed, the table of a player who is not connected would then   *)
(* hold all that the player bought.  TLC refutes it: a save that the        *)
(* synchronisation thread began before the last purchase writes its older   *)
(* count after Disconnect has saved the newer one, and nothing repairs it.  *)
DisconnectSavesAll ==
  pc["process"] = "idle" /\ pc["sync"] = "sleep" /\ faults = 0 =>
    \A u \in Users \ mUserIDDictionary : mName[u] # NoName => AllBought(db[mName[u]], mName[u])
=============================================================================
