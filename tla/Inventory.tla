------------------------------ MODULE Inventory ------------------------------
(***************************************************************************)
(* RIenventory (RIenventory.h, RIenventory.cpp) with the users it loads    *)
(* and saves and the inventory tables of the database (sql/*.sql).         *)
(*                                                                         *)
(* The process thread runs the callbacks Connect (of reqNotifyPlayerName)  *)
(* and Disconnect; the synchronisation thread saves all registered users   *)
(* every SYNC_DB_INTERVAL_SEC.  User::mName and User::mItemList have a     *)
(* lock each, held for one read or write, so every such access is a step   *)
(* of its own, and every statement sent to the database is one.  The       *)
(* registry is that of UserManager without its counter, which nothing here *)
(* reads.                                                                  *)
(***************************************************************************)
EXTENDS User

CONSTANTS Users,       \* the connection slots
          Items,       \* item ids
          Players,     \* names of players
          NamesOf,     \* the names that clients of a slot announce
          NoName,      \* the empty name of a slot never used
          Counts,      \* reqShopBuy.count: any int may be asked for
          MaxPurchases, \* bound: purchases ever made
          MaxFaults    \* bound: database calls that fail

ASSUME SlotsAssumption == Users # {}
ASSUME CountsAssumption == Counts \subseteq Int32
ASSUME BoundsAssumption == MaxPurchases \in Nat /\ MaxFaults \in Nat
ASSUME NamesAssumption == NamesOf \in [Users -> SUBSET Players] /\ NoName \notin Players

VARIABLES mUserIDDictionary, \* the registered slots
          mName,       \* User::mName of each slot
          inventory,   \* User::mItemList of each slot
          mProvider,   \* has mProvider been set?
          tables,      \* the players that have an inventory table
          db,          \* the rows of the inventory tables
          bought,      \* history: units that each player has bought
          overdrawn,   \* history: players with a sum below the least int
          purchases,   \* history: purchases so far
          faults,      \* history: database calls that have failed
          pc,          \* where each thread is
          user,        \* the slot whose inventory each thread handles
          userName,    \* UpdateInventoryDB: the name it has read
          itemList,    \* the rows that each thread has still to apply
          users,       \* SynchronizeDB: the users it has still to save
          announced,   \* history: slots whose client has announced its name
          clean        \* history: see SetName, Buy and Disconnect

dbVars == <<tables, db>>
localVars == <<user, userName, itemList, users>>
boughtVars == <<bought, overdrawn, purchases>>
historyVars == <<boughtVars, announced, clean>>
vars == <<mUserIDDictionary, mName, inventory, mProvider, dbVars, historyVars, faults,
          pc, localVars>>

-----------------------------------------------------------------------------
Threads == {"process", "sync"}
Entries == [Items -> Held]
Nothing == [i \in Items |-> NoItem]

TypeOK ==
  /\ mUserIDDictionary \subseteq Users
  /\ mName \in [Users -> Players \union {NoName}]
  /\ inventory \in [Users -> Entries]
  /\ mProvider \in BOOLEAN
  /\ tables \subseteq Players
  /\ db \in [Players -> Entries]
  /\ bought \in [Players -> [Items -> Nat]]
  /\ overdrawn \subseteq Players
  /\ purchases \in 0..MaxPurchases
  /\ faults \in 0..MaxFaults
  /\ pc \in [Threads -> {"idle", "create", "load", "clear", "add", "sleep", "users",
                         "pick", "name", "items", "write"}]
  /\ user \in [Threads -> Users]
  /\ userName \in [Threads -> Players \union {NoName}]
  /\ itemList \in [Threads -> Entries]
  /\ users \subseteq Users
  /\ announced \subseteq Users
  /\ clean \in BOOLEAN

(* The value of a local variable user[t] outside of the calls that set it. *)
NoUser == CHOOSE u \in Users : TRUE

(* A fresh server on an empty database. *)
Init ==
  /\ mUserIDDictionary = {}
  /\ mName = [u \in Users |-> NoName]
  /\ inventory = [u \in Users |-> Nothing]
  /\ mProvider = FALSE
  /\ tables = {}
  /\ db = [p \in Players |-> Nothing]
  /\ bought = [p \in Players |-> [i \in Items |-> 0]]
  /\ overdrawn = {}
  /\ purchases = 0
  /\ faults = 0
  /\ pc = [t \in Threads |-> IF t = "sync" THEN "sleep" ELSE "idle"]
  /\ user = [t \in Threads |-> NoUser]
  /\ userName = [t \in Threads |-> NoName]
  /\ itemList = [t \in Threads |-> Nothing]
  /\ users = {}
  /\ announced = {}
  /\ clean = TRUE

Goto(t, from, to) == pc[t] = from /\ pc' = [pc EXCEPT ![t] = to]

(* A call of the database throws. *)
Fault == faults < MaxFaults /\ faults' = faults + 1

-----------------------------------------------------------------------------
(* UpdateInventoryDB, called by both threads for the slot user[t]. *)

(* Where the thread goes on when UpdateInventoryDB returns. *)
Return(t) == IF t = "sync" THEN "pick" ELSE "idle"

ReadName(t) ==
  /\ Goto(t, "name", "items")
  /\ userName' = [userName EXCEPT ![t] = mName[user[t]]]
  /\ UNCHANGED <<mUserIDDictionary, mName, inventory, mProvider, dbVars, historyVars, faults,
                 user, itemList, users>>

GetItemAll(t) ==
  /\ Goto(t, "items", "write")
  /\ itemList' = [itemList EXCEPT ![t] = inventory[user[t]]]
  /\ UNCHANGED <<mUserIDDictionary, mName, inventory, mProvider, dbVars, historyVars, faults,
                 user, userName, users>>

(* Mutant: the branch of the stored procedure that overwrites is missing. *)
InsertOnly(p, i, n) == db' = IF db[p][i] = NoItem THEN [db EXCEPT ![p][i] = n] ELSE db

(* The stored procedure InventoryUpdate with p_is_Set: the row of the item *)
(* is inserted or overwritten, in one transaction.                         *)
InventoryUpdate(p, i, n) == db' = [db EXCEPT ![p][i] = n]

(* One row is written.  Only items that the user has are in the list.      *)
WriteRow(t, i) ==
  /\ pc[t] = "write"
  /\ itemList[t][i] # NoItem
  /\ userName[t] \in tables
  /\ InventoryUpdate(userName[t], i, itemList[t][i])
  /\ itemList' = [itemList EXCEPT ![t][i] = NoItem]
  /\ UNCHANGED <<mUserIDDictionary, mName, inventory, mProvider, tables, historyVars, faults,
                 pc, user, userName, users>>

(* The exception handler: the connection or a statement failed, the table  *)
(* does not exist, or the name is empty.  The remaining rows are dropped.  *)
SaveFails(t) ==
  /\ Goto(t, "write", Return(t))
  /\ IF itemList[t] # Nothing /\ userName[t] \notin tables THEN UNCHANGED faults ELSE Fault
  /\ itemList' = [itemList EXCEPT ![t] = Nothing]
  /\ user' = [user EXCEPT ![t] = NoUser]
  /\ userName' = [userName EXCEPT ![t] = NoName]
  /\ UNCHANGED <<mUserIDDictionary, mName, inventory, mProvider, dbVars, historyVars, users>>

SaveDone(t) ==
  /\ itemList[t] = Nothing
  /\ Goto(t, "write", Return(t))
  /\ user' = [user EXCEPT ![t] = NoUser]
  /\ userName' = [userName EXCEPT ![t] = NoName]
  /\ UNCHANGED <<mUserIDDictionary, mName, inventory, mProvider, dbVars, historyVars, faults,
                 itemList, users>>

UpdateInventoryDB(t) == \/ ReadName(t)
                        \/ GetItemAll(t)
                        \/ \E i \in Items : WriteRow(t, i)
                        \/ SaveFails(t)
                        \/ SaveDone(t)

-----------------------------------------------------------------------------
(* Callbacks that the process thread starts when it is idle. *)

(* RConnection::Connect. *)
Register(u) ==
  /\ pc["process"] = "idle"
  /\ mUserIDDictionary' = mUserIDDictionary \union {u}
  /\ UNCHANGED <<mName, inventory, mProvider, dbVars, historyVars, faults, pc, localVars>>

(* A copy of the slot's items that was made earlier is still being written. *)
LateSave(u) == pc["sync"] = "write" /\ user["sync"] = u

(* Mutant: RIenventory does not handle SYSTEM_USER_DISCONNECT. *)
DisconnectUnsaved(u) ==
  /\ pc["process"] = "idle"
  /\ mUserIDDictionary' = mUserIDDictionary \ {u}
  /\ announced' = announced \ {u}
  /\ clean' = (clean /\ ~LateSave(u))
  /\ UNCHANGED <<mName, inventory, mProvider, dbVars, boughtVars, faults, pc, localVars>>

(* RConnection::Disconnect and then RIenventory::Disconnect, which saves:  *)
(* twice, if the end of the session was announced twice.  The slot keeps   *)
(* its name and its items.                                                 *)
Disconnect(u) ==
  /\ mUserIDDictionary' = mUserIDDictionary \ {u}
  /\ Goto("process", "idle", "name")
  /\ user' = [user EXCEPT !["process"] = u]
  /\ announced' = announced \ {u}
  /\ clean' = (clean /\ ~LateSave(u))
  /\ UNCHANGED <<mName, inventory, mProvider, dbVars, boughtVars, faults, userName,
                 itemList, users>>

(* The Unity client announces its name once, when it is connected, and     *)
(* buys after that (Client.cs); its requests may still be handled after    *)
(* its DISCONNECT.                                                         *)
InTime(u) == u \in mUserIDDictionary \ announced

(* RIenventory::Connect up to SetName. *)
SetName(u, p) ==
  /\ Goto("process", "idle", "create")
  /\ mProvider' = TRUE
  /\ mName' = [mName EXCEPT ![u] = p]
  /\ user' = [user EXCEPT !["process"] = u]
  /\ announced' = announced \union {u}
  /\ clean' = (clean /\ InTime(u))
  /\ UNCHANGED <<mUserIDDictionary, inventory, dbVars, boughtVars, faults, userName,
                 itemList, users>>

(* The player's name in the rest of Connect: only this thread sets names.  *)
Name == mName[user["process"]]

(* Mutant: the table is named after the slot. *)
CreateForSlot ==
  /\ Goto("process", "create", "load")
  /\ \/ tables' = tables \union {user["process"]} /\ UNCHANGED faults
     \/ Fault /\ UNCHANGED tables
  /\ UNCHANGED <<mUserIDDictionary, mName, inventory, mProvider, db, historyVars, localVars>>

(* TryCreateInventory *)
TryCreateInventory ==
  /\ Goto("process", "create", "load")
  /\ \/ tables' = tables \union {Name} /\ UNCHANGED faults
     \/ Fault /\ UNCHANGED tables
  /\ UNCHANGED <<mUserIDDictionary, mName, inventory, mProvider, db, historyVars, localVars>>

(* UpdateInventoryServerData up to the end of its queries.  If the rows    *)
(* cannot be read, the handler goes on with none.  (If only a description  *)
(* cannot be read, it goes on with all rows.)                              *)
LoadRows ==
  /\ Goto("process", "load", "clear")
  /\ \/ /\ itemList' = [itemList EXCEPT !["process"] =
                           IF Name \in tables THEN db[Name] ELSE Nothing]
        /\ UNCHANGED faults
     \/ Fault /\ UNCHANGED itemList
  /\ UNCHANGED <<mUserIDDictionary, mName, inventory, mProvider, dbVars, historyVars,
                 user, userName, users>>

(* Mutant: the items of the last connection are kept. *)
ClearNothing ==
  /\ Goto("process", "clear", "add")
  /\ UNCHANGED <<mUserIDDictionary, mName, inventory, mProvider, dbVars, historyVars,
                 faults, localVars>>

ClearItem ==
  /\ Goto("process", "clear", "add")
  /\ inventory' = [inventory EXCEPT ![user["process"]] = Nothing]
  /\ UNCHANGED <<mUserIDDictionary, mName, mProvider, dbVars, historyVars, faults, localVars>>

AddRow(i) ==
  /\ pc["process"] = "add"
  /\ itemList["process"][i] # NoItem
  /\ inventory' = [inventory EXCEPT ![user["process"]][i] = Added(@, itemList["process"][i])]
  /\ itemList' = [itemList EXCEPT !["process"][i] = NoItem]
  /\ UNCHANGED <<mUserIDDictionary, mName, mProvider, dbVars, historyVars, faults, pc,
                 user, userName, users>>

(* All rows are added; the client is sent the inventory. *)
ConnectDone ==
  /\ itemList["process"] = Nothing
  /\ Goto("process", "add", "idle")
  /\ user' = [user EXCEPT !["process"] = NoUser]
  /\ UNCHANGED <<mUserIDDictionary, mName, inventory, mProvider, dbVars, historyVars, faults,
                 userName, itemList, users>>

(* Whose purchase it is.  What is bought in a slot that has no name yet     *)
(* counts for the players that the slot serves: it gets to their tables if *)
(* the other thread saves it between SetName and ClearItem.                *)
Buyers(u) == IF mName[u] = NoName THEN NamesOf[u] ELSE {mName[u]}

(* What RShop::Buy does to the inventory for any count but -1: see Shop.   *)
(* Counts below zero are accepted, and so are slots without a name.        *)
Buy(u, i, n) ==
  /\ n # -1
  /\ pc["process"] = "idle"
  /\ purchases < MaxPurchases
  /\ purchases' = purchases + 1
  /\ inventory' = [inventory EXCEPT ![u][i] = Added(@, n)]
  /\ bought' = [p \in Players |-> IF p \in Buyers(u) /\ n > 0
                                  THEN [bought[p] EXCEPT ![i] = @ + n] ELSE bought[p]]
  /\ overdrawn' = IF inventory[u][i] # NoItem /\ inventory[u][i] + n < -INT_MAX - 1
                  THEN overdrawn \union Buyers(u) ELSE overdrawn
  /\ clean' = (clean /\ u \in announced /\ n > 0 /\ Added(inventory[u][i], n) # NoItem)
  /\ UNCHANGED <<mUserIDDictionary, mName, mProvider, dbVars, announced, faults, pc,
                 localVars>>

-----------------------------------------------------------------------------
(* SynchronizeDB *)

(* The thread goes back to sleep as long as mProvider is null. *)
WakeUp ==
  /\ mProvider
  /\ Goto("sync", "sleep", "users")
  /\ UNCHANGED <<mUserIDDictionary, mName, inventory, mProvider, dbVars, historyVars,
                 faults, localVars>>

(* The registered users are listed, and then the database is connected:    *)
(* if that fails nobody is saved this time.                                *)
GetAllUser ==
  /\ Goto("sync", "users", "pick")
  /\ \/ users' = mUserIDDictionary /\ UNCHANGED faults
     \/ users' = {} /\ Fault
  /\ UNCHANGED <<mUserIDDictionary, mName, inventory, mProvider, dbVars, historyVars,
                 user, userName, itemList>>

PickUser(u) ==
  /\ u \in users
  /\ Goto("sync", "pick", "name")
  /\ users' = users \ {u}
  /\ user' = [user EXCEPT !["sync"] = u]
  /\ UNCHANGED <<mUserIDDictionary, mName, inventory, mProvider, dbVars, historyVars,
                 faults, userName, itemList>>

Sleep ==
  /\ users = {}
  /\ Goto("sync", "pick", "sleep")
  /\ UNCHANGED <<mUserIDDictionary, mName, inventory, mProvider, dbVars, historyVars,
                 faults, localVars>>

SynchronizeDB == \/ WakeUp
                 \/ GetAllUser
                 \/ \E u \in Users : PickUser(u)
                 \/ UpdateInventoryDB("sync")
                 \/ Sleep

Requests == \E u \in Users :
               \/ Register(u)
               \/ Disconnect(u)
               \/ \E p \in NamesOf[u] : SetName(u, p)
               \/ \E i \in Items, n \in Counts : Buy(u, i, n)

(* The rest of a callback that the process thread has begun. *)
RunCallback == \/ UpdateInventoryDB("process")
               \/ TryCreateInventory
               \/ LoadRows
               \/ ClearItem
               \/ \E i \in Items : AddRow(i)
               \/ ConnectDone

Next == Requests \/ RunCallback \/ SynchronizeDB

(* Both threads keep running: every call of the database returns or        *)
(* throws, and the locks are held for one step.  Requests may stop coming. *)
Spec == Init /\ [][Next]_vars /\ WF_vars(RunCallback) /\ WF_vars(SynchronizeDB)

(* The common case, in which the runs that refute a claim are told: the    *)
(* clients ask in time, and then what they ask is handled before their     *)
(* DISCONNECT.                                                             *)
Announces(u) == pc["process"] = "idle" /\ pc'["process"] = "create" /\ user'["process"] = u
Buys(u) == pc["process"] = "idle" /\ inventory'[u] # inventory[u]

Orderly == \A u \in Users : /\ Announces(u) => InTime(u)
                            /\ Buys(u) => u \in announced

OrderlySpec == Init /\ [][Next /\ Orderly]_vars

-----------------------------------------------------------------------------
(* Properties *)

Excess(entries, p) == \E i \in Items : entries[i] # NoItem /\ entries[i] > bought[p][i]

(* Neither the tables nor the users ever hold a unit that its player has   *)
(* not bought: saving, loading and saving again with two threads, failures *)
(* and reconnections does not multiply items.  It is true as long as each  *)
(* slot serves one player, and of the players whose counts below zero have *)
(* not made a sum that no int can hold: that one comes out above zero.     *)
OnlyBoughtItems ==
  /\ \A p \in Players \ overdrawn : ~Excess(db[p], p)
  /\ \A u \in Users : mName[u] \in Players \ overdrawn => ~Excess(inventory[u], mName[u])

(* All that player p bought, and nothing else. *)
AllBought(entries, p) ==
  \A i \in Items : IF entries[i] = NoItem THEN bought[p][i] = 0 ELSE entries[i] = bought[p][i]

(* And nothing is lost: between two callbacks a slot holds all that its    *)
(* player bought, and until the next client of the slot announces itself   *)
(* the table does so too.  That is true of slots that serve one player and *)
(* players that use one slot, if no database call has failed, the clients  *)
(* ask in time and for more than nothing, and no copy that is written late *)
(* overlaps the save of a player who leaves.                               *)
NothingLost ==
  clean /\ faults = 0 /\ pc["process"] = "idle" =>
    \A u \in Users : mName[u] # NoName =>
      /\ AllBought(inventory[u], mName[u])
      /\ u \notin announced => AllBought(db[mName[u]], mName[u])

Stored(p) == IF p \in tables THEN db[p] ELSE Nothing

Announcing(u) == /\ user["process"] = u
                 /\ pc["process"] \in {"create", "load", "clear", "add"}

(* Write-back: while a user stays connected, has a table and announces no  *)
(* name, what it holds when it has made its last purchase gets to its      *)
(* table and stays there, whatever was written late or failed before.      *)
EventuallySaved ==
  \A u \in Users :
    <>[](u \in mUserIDDictionary /\ mName[u] \in tables /\ ~Announcing(u))
      => <>[](\A i \in Items : inventory[u][i] \in {NoItem, Stored(mName[u])[i]})
=============================================================================
