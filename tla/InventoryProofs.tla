--------------------------- MODULE InventoryProofs ---------------------------
(* What the two threads of RIenventory may do to the items of the players,   *)
(* for every number of slots, players, items and failures.                   *)
EXTENDS Inventory, TLAPS

(* A slot serves one player.                                                 *)
OnePlayerPerSlot == \A u \in Users : \A p, q \in NamesOf[u] : p = q

(* A list of rows within what player p has bought.                           *)
Within(entries, p) == \A i \in Items : entries[i] # NoItem => entries[i] <= bought[p][i]

(* A name that was given is one of the slot and stays.                       *)
NameInv ==
  /\ \A u \in Users : mName[u] # NoName => mName[u] \in NamesOf[u]
  /\ pc["process"] \in {"create", "load", "clear", "add"} => mName[user["process"]] # NoName

(* What a thread has read to be written is of one player.                    *)
SaveInv ==
  \A t \in Threads :
    userName[t] # NoName =>
      /\ pc[t] \in {"items", "write"}
      /\ userName[t] = mName[user[t]]
      /\ pc[t] = "write" /\ userName[t] \notin overdrawn => Within(itemList[t], userName[t])

(* What was read from the table is added to nothing; a list that is not in   *)
(* use is empty.                                                             *)
LoadInv ==
  /\ pc["process"] \in {"idle", "create", "load", "name", "items"}
       => itemList["process"] = Nothing
  /\ pc["process"] \in {"clear", "add"} /\ Name \notin overdrawn
       => Within(itemList["process"], Name)
  /\ pc["process"] = "add"
       => \A i \in Items : \/ itemList["process"][i] = NoItem
                           \/ inventory[user["process"]][i] = NoItem

(* A slot without a name, too, holds only what its player bought: its items  *)
(* may be stored under the next name that it is given.                       *)
OwnInv ==
  /\ \A p \in Players \ overdrawn : Within(db[p], p)
  /\ \A u \in Users : \A p \in NamesOf[u] \ overdrawn : Within(inventory[u], p)

IInv == TypeOK /\ NameInv /\ SaveInv /\ LoadInv /\ OwnInv

-----------------------------------------------------------------------------
USE NamesAssumption, BoundsAssumption DEF Threads

(* A sum of ints, as the processor leaves it, is an int.                     *)
LEMMA AddedType ==
  ASSUME NEW held \in Held, NEW n \in Int32
  PROVE  Added(held, n) \in Held
<1>1. CASE held = NoItem
  BY <1>1 DEF Added, Held
<1>2. CASE held # NoItem
  <2>1. held \in Int32 /\ Wrapped(held + n) \in Int32
    BY <1>2, IntAssumption DEF Held, Int32, Wrapped
  <2> QED
    BY <1>2, <2>1 DEF Added, Held
<1> QED
  BY <1>1, <1>2

(* Nobody gets more than was added, unless the sum is below the least int.   *)
LEMMA AddedBound ==
  ASSUME NEW held \in Held, NEW n \in Int32, NEW b \in Nat,
         held # NoItem => held <= b /\ held + n >= -INT_MAX - 1,
         Added(held, n) # NoItem
  PROVE  Added(held, n) <= IF n > 0 THEN b + n ELSE b
<1>1. CASE held = NoItem
  BY <1>1, IntAssumption DEF Added, Int32
<1>2. CASE held # NoItem
  <2>1. held \in Int32 /\ INT_MAX \in Nat
    BY <1>2, IntAssumption DEF Held
  <2>2. Added(held, n) = Wrapped(held + n) /\ Wrapped(held + n) > 0
    BY <1>2, <2>1 DEF Added, Wrapped, Int32
  <2>3. Wrapped(held + n) = held + n
    BY <1>2, <2>1, <2>2 DEF Wrapped, Int32
  <2> QED
    BY <1>2, <2>1, <2>2, <2>3 DEF Int32
<1> QED
  BY <1>1, <1>2

(* A list within what was bought has no excess.                              *)
LEMMA NothingAbove ==
  ASSUME NEW entries \in Entries, NEW p \in Players, bought[p] \in [Items -> Nat],
         Within(entries, p)
  PROVE  ~Excess(entries, p)
BY IntAssumption DEF Within, Excess, Entries, Held, Int32

LEMMA NoUserType == NoUser \in Users
  BY SlotsAssumption DEF NoUser

(* A purchase: what it changes, and that nothing bought is forgotten.        *)
LEMMA BuyFacts ==
  ASSUME TypeOK, NEW u \in Users, NEW i \in Items, NEW n \in Counts, Buy(u, i, n)
  PROVE  /\ n \in Int32
         /\ Buyers(u) \subseteq Players
         /\ inventory' = [inventory EXCEPT ![u][i] = Added(@, n)]
         /\ Added(inventory[u][i], n) \in Held
         /\ bought' \in [Players -> [Items -> Nat]]
         /\ overdrawn' \subseteq Players
         /\ overdrawn \subseteq overdrawn'
         /\ \A p \in Players : \A j \in Items : bought[p][j] <= bought'[p][j]
         /\ n > 0 => \A p \in Buyers(u) : bought'[p] = [bought[p] EXCEPT ![i] = @ + n]
         /\ \A p \in Players \ Buyers(u) : bought'[p] = bought[p]
<1>1. n \in Int32 /\ n \in Int
  BY CountsAssumption, IntAssumption DEF Int32
<1>2. Buyers(u) \subseteq Players
  BY DEF Buyers, TypeOK
<1>3. /\ inventory' = [inventory EXCEPT ![u][i] = Added(@, n)]
      /\ inventory[u][i] \in Held
  BY DEF Buy, TypeOK, Entries
<1>4. Added(inventory[u][i], n) \in Held
  BY <1>1, <1>3, AddedType
<1>5. bought' = [p \in Players |-> IF p \in Buyers(u) /\ n > 0
                                  THEN [bought[p] EXCEPT ![i] = @ + n] ELSE bought[p]]
  BY DEF Buy
<1>6. ASSUME NEW p \in Players
      PROVE  /\ bought'[p] \in [Items -> Nat]
             /\ \A j \in Items : bought[p][j] <= bought'[p][j]
  BY <1>1, <1>5 DEF TypeOK
<1>7. overdrawn \subseteq overdrawn' /\ overdrawn' \subseteq Players
  BY <1>2 DEF Buy, TypeOK
<1>8. n > 0 => \A p \in Buyers(u) : bought'[p] = [bought[p] EXCEPT ![i] = @ + n]
  BY <1>2, <1>5
<1>9. \A p \in Players \ Buyers(u) : bought'[p] = bought[p]
  BY <1>5
<1>10. bought' \in [Players -> [Items -> Nat]]
  BY <1>5, <1>6
<1> QED
  BY <1>1, <1>2, <1>3, <1>4, <1>6, <1>7, <1>8, <1>9, <1>10

(* The row of an item that is being loaded is as it was in the table.        *)
LEMMA AddRowFacts ==
  ASSUME TypeOK, LoadInv, NEW i \in Items, AddRow(i)
  PROVE  /\ pc["process"] = "add"
         /\ itemList["process"][i] \in Int32 /\ itemList["process"][i] # NoItem
         /\ inventory[user["process"]][i] = NoItem
         /\ inventory' = [inventory EXCEPT ![user["process"]][i] = itemList["process"][i]]
         /\ itemList' = [itemList EXCEPT !["process"][i] = NoItem]
<1>1. pc["process"] = "add" /\ itemList["process"][i] # NoItem
  BY DEF AddRow
<1>2. inventory[user["process"]][i] = NoItem
  BY <1>1 DEF LoadInv
<1>3. itemList["process"][i] \in Int32
  BY <1>1 DEF TypeOK, Entries, Held
<1>4. inventory' = [inventory EXCEPT ![user["process"]][i] = itemList["process"][i]]
  <2>1. Added(inventory[user["process"]][i], itemList["process"][i]) = itemList["process"][i]
    BY <1>2 DEF Added
  <2> QED
    BY <2>1 DEF AddRow
<1> QED
  BY <1>1, <1>2, <1>3, <1>4 DEF AddRow

(* Every step keeps the types; a table is only created for a name announced. *)
LEMMA TypeNext == TypeOK /\ NameInv /\ [Next]_vars => TypeOK'
<1> SUFFICES ASSUME TypeOK, NameInv, [Next]_vars
             PROVE  TypeOK'
  OBVIOUS
<1>1. ASSUME NEW t \in Threads, ReadName(t)
      PROVE  TypeOK'
  BY <1>1 DEF TypeOK, Entries, Nothing, Goto, dbVars, historyVars, boughtVars,
       localVars, NameInv, Name, ReadName
<1>2. ASSUME NEW t \in Threads, GetItemAll(t)
      PROVE  TypeOK'
  BY <1>2 DEF TypeOK, Entries, Nothing, Goto, dbVars, historyVars, boughtVars,
       localVars, NameInv, Name, GetItemAll
<1>3. ASSUME NEW t \in Threads, NEW i \in Items, WriteRow(t, i)
      PROVE  TypeOK'
  BY <1>3 DEF TypeOK, Entries, Nothing, Goto, dbVars, historyVars, boughtVars,
       localVars, NameInv, Name, Held, WriteRow, InventoryUpdate
<1>4. ASSUME NEW t \in Threads, SaveFails(t)
      PROVE  TypeOK'
  BY <1>4, NoUserType DEF TypeOK, Entries, Nothing, Goto, dbVars, historyVars, boughtVars,
       localVars, NameInv, Name, SaveFails, Return, Fault, Held
<1>5. ASSUME NEW t \in Threads, SaveDone(t)
      PROVE  TypeOK'
  BY <1>5, NoUserType DEF TypeOK, Entries, Nothing, Goto, dbVars, historyVars, boughtVars,
       localVars, NameInv, Name, SaveDone, Return
<1>6. ASSUME NEW u \in Users, Register(u)
      PROVE  TypeOK'
  BY <1>6 DEF TypeOK, Entries, Nothing, Goto, dbVars, historyVars, boughtVars,
       localVars, NameInv, Name, Register
<1>7. ASSUME NEW u \in Users, Disconnect(u)
      PROVE  TypeOK'
  BY <1>7 DEF TypeOK, Entries, Nothing, Goto, dbVars, historyVars, boughtVars,
       localVars, NameInv, Name, Disconnect
<1>8. ASSUME NEW u \in Users, NEW p \in NamesOf[u], SetName(u, p)
      PROVE  TypeOK'
  BY <1>8 DEF TypeOK, Entries, Nothing, Goto, dbVars, historyVars, boughtVars,
       localVars, NameInv, Name, SetName
<1>9. CASE TryCreateInventory
  BY <1>9 DEF TypeOK, Entries, Nothing, Goto, dbVars, historyVars, boughtVars,
       localVars, NameInv, Name, TryCreateInventory, Fault
<1>10. CASE LoadRows
  BY <1>10 DEF TypeOK, Entries, Nothing, Goto, dbVars, historyVars, boughtVars,
       localVars, NameInv, Name, Held, LoadRows, Fault
<1>11. CASE ClearItem
  BY <1>11 DEF TypeOK, Entries, Nothing, Goto, dbVars, historyVars, boughtVars,
       localVars, NameInv, Name, Held, ClearItem
<1>12. ASSUME NEW i \in Items, AddRow(i)
      PROVE  TypeOK'
  <2>1. /\ inventory[user["process"]][i] \in Held
        /\ itemList["process"][i] \in Int32
    BY <1>12 DEF TypeOK, Entries, Held, AddRow
  <2>2. Added(inventory[user["process"]][i], itemList["process"][i]) \in Held
    BY <2>1, AddedType
  <2> QED
    BY <1>12, <2>2 DEF TypeOK, Entries, Held, dbVars, historyVars, boughtVars, AddRow
<1>13. CASE ConnectDone
  BY <1>13, NoUserType DEF TypeOK, Entries, Nothing, Goto, dbVars, historyVars, boughtVars,
       localVars, NameInv, Name, ConnectDone
<1>14. ASSUME NEW u \in Users, NEW i \in Items, NEW n \in Counts, Buy(u, i, n)
      PROVE  TypeOK'
  <2>1. /\ inventory' = [inventory EXCEPT ![u][i] = Added(@, n)]
        /\ Added(inventory[u][i], n) \in Held
        /\ bought' \in [Players -> [Items -> Nat]]
        /\ overdrawn' \subseteq Players
    BY <1>14, BuyFacts
  <2>2. inventory' \in [Users -> Entries]
    BY <2>1 DEF TypeOK, Entries
  <2>3. purchases' \in 0..MaxPurchases /\ clean' \in BOOLEAN
    BY <1>14 DEF TypeOK, Buy
  <2> QED
    BY <1>14, <2>1, <2>2, <2>3 DEF TypeOK, dbVars, localVars, Buy
<1>15. CASE WakeUp
  BY <1>15 DEF TypeOK, Entries, Nothing, Goto, dbVars, historyVars, boughtVars,
       localVars, NameInv, Name, WakeUp
<1>16. CASE GetAllUser
  BY <1>16 DEF TypeOK, Entries, Nothing, Goto, dbVars, historyVars, boughtVars,
       localVars, NameInv, Name, GetAllUser, Fault
<1>17. ASSUME NEW u \in Users, PickUser(u)
      PROVE  TypeOK'
  BY <1>17 DEF TypeOK, Entries, Nothing, Goto, dbVars, historyVars, boughtVars,
       localVars, NameInv, Name, PickUser
<1>18. CASE Sleep
  BY <1>18 DEF TypeOK, Entries, Nothing, Goto, dbVars, historyVars, boughtVars,
       localVars, NameInv, Name, Sleep
<1>19. CASE UNCHANGED vars
  BY <1>19 DEF TypeOK, Entries, Nothing, Goto, dbVars, historyVars, boughtVars,
       localVars, NameInv, Name, vars
<1> QED
  BY <1>1, <1>2, <1>3, <1>4, <1>5, <1>6, <1>7, <1>8, <1>9, <1>10, <1>11, <1>12, <1>13, <1>14,
       <1>15, <1>16, <1>17, <1>18, <1>19
     DEF Next, Requests, RunCallback, SynchronizeDB, UpdateInventoryDB, Threads

(* Every step keeps what is said of the names.                               *)
LEMMA NameNext == TypeOK /\ NameInv /\ [Next]_vars => NameInv'
<1> SUFFICES ASSUME TypeOK, NameInv, [Next]_vars
             PROVE  NameInv'
  OBVIOUS
<1>1. ASSUME NEW t \in Threads, ReadName(t)
      PROVE  NameInv'
  BY <1>1 DEF TypeOK, Entries, Goto, dbVars, historyVars, boughtVars, localVars, NameInv, Nothing,
       ReadName
<1>2. ASSUME NEW t \in Threads, GetItemAll(t)
      PROVE  NameInv'
  BY <1>2 DEF TypeOK, Entries, Goto, dbVars, historyVars, boughtVars, localVars, NameInv, Nothing,
       GetItemAll
<1>3. ASSUME NEW t \in Threads, NEW i \in Items, WriteRow(t, i)
      PROVE  NameInv'
  BY <1>3 DEF TypeOK, Entries, Goto, dbVars, historyVars, boughtVars, localVars, NameInv, Nothing,
       WriteRow, InventoryUpdate
<1>4. ASSUME NEW t \in Threads, SaveFails(t)
      PROVE  NameInv'
  BY <1>4 DEF TypeOK, Entries, Goto, dbVars, historyVars, boughtVars, localVars, NameInv, Nothing,
       SaveFails, Return, Fault
<1>5. ASSUME NEW t \in Threads, SaveDone(t)
      PROVE  NameInv'
  BY <1>5 DEF TypeOK, Entries, Goto, dbVars, historyVars, boughtVars, localVars, NameInv, Nothing,
       SaveDone, Return
<1>6. ASSUME NEW u \in Users, Register(u)
      PROVE  NameInv'
  BY <1>6 DEF TypeOK, Entries, Goto, dbVars, historyVars, boughtVars, localVars, NameInv, Nothing,
       Register
<1>7. ASSUME NEW u \in Users, Disconnect(u)
      PROVE  NameInv'
  BY <1>7 DEF TypeOK, Entries, Goto, dbVars, historyVars, boughtVars, localVars, NameInv, Nothing,
       Disconnect
<1>8. ASSUME NEW u \in Users, NEW p \in NamesOf[u], SetName(u, p)
      PROVE  NameInv'
  BY <1>8 DEF TypeOK, Entries, Goto, dbVars, historyVars, boughtVars, localVars, NameInv, Nothing,
       SetName
<1>9. CASE TryCreateInventory
  BY <1>9 DEF TypeOK, Entries, Goto, dbVars, historyVars, boughtVars, localVars, NameInv, Nothing,
       TryCreateInventory, Fault
<1>10. CASE LoadRows
  BY <1>10 DEF TypeOK, Entries, Goto, dbVars, historyVars, boughtVars, localVars, NameInv, Nothing,
       LoadRows, Fault
<1>11. CASE ClearItem
  BY <1>11 DEF TypeOK, Entries, Goto, dbVars, historyVars, boughtVars, localVars, NameInv, Nothing,
       ClearItem
<1>12. ASSUME NEW i \in Items, AddRow(i)
      PROVE  NameInv'
  BY <1>12 DEF TypeOK, Entries, Goto, dbVars, historyVars, boughtVars, localVars, NameInv, Nothing,
       AddRow
<1>13. CASE ConnectDone
  BY <1>13 DEF TypeOK, Entries, Goto, dbVars, historyVars, boughtVars, localVars, NameInv, Nothing,
       ConnectDone
<1>14. ASSUME NEW u \in Users, NEW i \in Items, NEW n \in Counts, Buy(u, i, n)
      PROVE  NameInv'
  BY <1>14 DEF TypeOK, Entries, Goto, dbVars, historyVars, boughtVars, localVars, NameInv, Nothing,
       Buy
<1>15. CASE WakeUp
  BY <1>15 DEF TypeOK, Entries, Goto, dbVars, historyVars, boughtVars, localVars, NameInv, Nothing,
       WakeUp
<1>16. CASE GetAllUser
  BY <1>16 DEF TypeOK, Entries, Goto, dbVars, historyVars, boughtVars, localVars, NameInv, Nothing,
       GetAllUser, Fault
<1>17. ASSUME NEW u \in Users, PickUser(u)
      PROVE  NameInv'
  BY <1>17 DEF TypeOK, Entries, Goto, dbVars, historyVars, boughtVars, localVars, NameInv, Nothing,
       PickUser
<1>18. CASE Sleep
  BY <1>18 DEF TypeOK, Entries, Goto, dbVars, historyVars, boughtVars, localVars, NameInv, Nothing,
       Sleep
<1>19. CASE UNCHANGED vars
  BY <1>19 DEF TypeOK, Entries, Goto, dbVars, historyVars, boughtVars, localVars, NameInv, Nothing,
       vars
<1> QED
  BY <1>1, <1>2, <1>3, <1>4, <1>5, <1>6, <1>7, <1>8, <1>9, <1>10, <1>11, <1>12, <1>13, <1>14,
       <1>15, <1>16, <1>17, <1>18, <1>19
     DEF Next, Requests, RunCallback, SynchronizeDB, UpdateInventoryDB, Threads

(* No step of either thread makes a list of rows somebody else's.            *)
LEMMA SaveNext == OnePlayerPerSlot /\ IInv /\ [Next]_vars => SaveInv'
<1> SUFFICES ASSUME OnePlayerPerSlot, IInv, [Next]_vars
             PROVE  SaveInv'
  OBVIOUS
<1>1. ASSUME NEW t \in Threads, ReadName(t)
      PROVE  SaveInv'
  BY <1>1 DEF IInv, TypeOK, Entries, Goto, dbVars, historyVars, boughtVars, localVars, SaveInv,
       Within, OnePlayerPerSlot, ReadName
<1>2. ASSUME NEW t \in Threads, GetItemAll(t)
      PROVE  SaveInv'
  BY <1>2 DEF IInv, TypeOK, Entries, Goto, dbVars, historyVars, boughtVars, localVars, SaveInv,
       Within, OnePlayerPerSlot, GetItemAll, OwnInv, NameInv
<1>3. ASSUME NEW t \in Threads, NEW i \in Items, WriteRow(t, i)
      PROVE  SaveInv'
  BY <1>3 DEF IInv, TypeOK, Entries, Goto, dbVars, historyVars, boughtVars, localVars, SaveInv,
       Within, OnePlayerPerSlot, WriteRow, InventoryUpdate
<1>4. ASSUME NEW t \in Threads, SaveFails(t)
      PROVE  SaveInv'
  BY <1>4 DEF IInv, TypeOK, Entries, Goto, dbVars, historyVars, boughtVars, localVars, SaveInv,
       Within, OnePlayerPerSlot, SaveFails, Return, Fault
<1>5. ASSUME NEW t \in Threads, SaveDone(t)
      PROVE  SaveInv'
  BY <1>5 DEF IInv, TypeOK, Entries, Goto, dbVars, historyVars, boughtVars, localVars, SaveInv,
       Within, OnePlayerPerSlot, SaveDone, Return
<1>6. ASSUME NEW u \in Users, Register(u)
      PROVE  SaveInv'
  BY <1>6 DEF IInv, TypeOK, Entries, Goto, dbVars, historyVars, boughtVars, localVars, SaveInv,
       Within, OnePlayerPerSlot, Register
<1>7. ASSUME NEW u \in Users, Disconnect(u)
      PROVE  SaveInv'
  BY <1>7 DEF IInv, TypeOK, Entries, Goto, dbVars, historyVars, boughtVars, localVars, SaveInv,
       Within, OnePlayerPerSlot, Disconnect
<1>8. ASSUME NEW u \in Users, NEW p \in NamesOf[u], SetName(u, p)
      PROVE  SaveInv'
  BY <1>8 DEF IInv, TypeOK, Entries, Goto, dbVars, historyVars, boughtVars, localVars, SaveInv,
       Within, OnePlayerPerSlot, SetName, NameInv
<1>9. CASE TryCreateInventory
  BY <1>9 DEF IInv, TypeOK, Entries, Goto, dbVars, historyVars, boughtVars, localVars, SaveInv,
       Within, OnePlayerPerSlot, TryCreateInventory, Fault
<1>10. CASE LoadRows
  BY <1>10 DEF IInv, TypeOK, Entries, Goto, dbVars, historyVars, boughtVars, localVars, SaveInv,
       Within, OnePlayerPerSlot, LoadRows, Fault
<1>11. CASE ClearItem
  BY <1>11 DEF IInv, TypeOK, Entries, Goto, dbVars, historyVars, boughtVars, localVars, SaveInv,
       Within, OnePlayerPerSlot, ClearItem
<1>12. ASSUME NEW i \in Items, AddRow(i)
      PROVE  SaveInv'
  BY <1>12 DEF IInv, TypeOK, Entries, Goto, dbVars, historyVars, boughtVars, localVars, SaveInv,
       Within, OnePlayerPerSlot, AddRow
<1>13. CASE ConnectDone
  BY <1>13 DEF IInv, TypeOK, Entries, Goto, dbVars, historyVars, boughtVars, localVars, SaveInv,
       Within, OnePlayerPerSlot, ConnectDone
<1>14. ASSUME NEW u \in Users, NEW i \in Items, NEW n \in Counts, Buy(u, i, n)
      PROVE  SaveInv'
  <2>1. /\ \A p \in Players : \A j \in Items : bought[p][j] <= bought'[p][j]
        /\ bought' \in [Players -> [Items -> Nat]]
        /\ overdrawn \subseteq overdrawn'
    BY <1>14, BuyFacts DEF IInv
  <2>2. UNCHANGED <<mName, pc, user, userName, itemList>>
    BY <1>14 DEF Buy, localVars
  <2>3. ASSUME NEW t \in Threads, NEW p \in Players, Within(itemList[t], p)
        PROVE  Within(itemList[t], p)'
    <3>1. \A j \in Items : itemList[t][j] # NoItem => itemList[t][j] \in Int
      BY IntAssumption DEF IInv, TypeOK, Entries, Held, Int32
    <3> QED
      BY <2>1, <2>2, <2>3, <3>1 DEF IInv, TypeOK, Within
  <2>4. ASSUME NEW t \in Threads, userName[t] # NoName
        PROVE  userName[t] \in Players
    BY <2>4 DEF IInv, TypeOK
  <2> QED
    BY <2>1, <2>2, <2>3, <2>4 DEF IInv, SaveInv
<1>15. CASE WakeUp
  BY <1>15 DEF IInv, TypeOK, Entries, Goto, dbVars, historyVars, boughtVars, localVars, SaveInv,
       Within, OnePlayerPerSlot, WakeUp
<1>16. CASE GetAllUser
  BY <1>16 DEF IInv, TypeOK, Entries, Goto, dbVars, historyVars, boughtVars, localVars, SaveInv,
       Within, OnePlayerPerSlot, GetAllUser, Fault
<1>17. ASSUME NEW u \in Users, PickUser(u)
      PROVE  SaveInv'
  BY <1>17 DEF IInv, TypeOK, Entries, Goto, dbVars, historyVars, boughtVars, localVars, SaveInv,
       Within, OnePlayerPerSlot, PickUser
<1>18. CASE Sleep
  BY <1>18 DEF IInv, TypeOK, Entries, Goto, dbVars, historyVars, boughtVars, localVars, SaveInv,
       Within, OnePlayerPerSlot, Sleep
<1>19. CASE UNCHANGED vars
  BY <1>19 DEF IInv, TypeOK, Entries, Goto, dbVars, historyVars, boughtVars, localVars, SaveInv,
       Within, OnePlayerPerSlot, vars
<1> QED
  BY <1>1, <1>2, <1>3, <1>4, <1>5, <1>6, <1>7, <1>8, <1>9, <1>10, <1>11, <1>12, <1>13, <1>14,
       <1>15, <1>16, <1>17, <1>18, <1>19
     DEF Next, Requests, RunCallback, SynchronizeDB, UpdateInventoryDB, Threads

(* Between loading and adding nothing else can change the slot's items:      *)
(* purchases are made by the same thread.                                    *)
LEMMA LoadNext == OnePlayerPerSlot /\ IInv /\ [Next]_vars => LoadInv'
<1> SUFFICES ASSUME OnePlayerPerSlot, IInv, [Next]_vars
             PROVE  LoadInv'
  OBVIOUS
<1>1. ASSUME NEW t \in Threads, ReadName(t)
      PROVE  LoadInv'
  BY <1>1 DEF IInv, TypeOK, Entries, Goto, dbVars, historyVars, boughtVars, localVars, LoadInv,
       Within, Name, Nothing, ReadName
<1>2. ASSUME NEW t \in Threads, GetItemAll(t)
      PROVE  LoadInv'
  BY <1>2 DEF IInv, TypeOK, Entries, Goto, dbVars, historyVars, boughtVars, localVars, LoadInv,
       Within, Name, Nothing, GetItemAll
<1>3. ASSUME NEW t \in Threads, NEW i \in Items, WriteRow(t, i)
      PROVE  LoadInv'
  BY <1>3 DEF IInv, TypeOK, Entries, Goto, dbVars, historyVars, boughtVars, localVars, LoadInv,
       Within, Name, Nothing, WriteRow, InventoryUpdate
<1>4. ASSUME NEW t \in Threads, SaveFails(t)
      PROVE  LoadInv'
  BY <1>4 DEF IInv, TypeOK, Entries, Goto, dbVars, historyVars, boughtVars, localVars, LoadInv,
       Within, Name, Nothing, SaveFails, Return, Fault
<1>5. ASSUME NEW t \in Threads, SaveDone(t)
      PROVE  LoadInv'
  BY <1>5 DEF IInv, TypeOK, Entries, Goto, dbVars, historyVars, boughtVars, localVars, LoadInv,
       Within, Name, Nothing, SaveDone, Return
<1>6. ASSUME NEW u \in Users, Register(u)
      PROVE  LoadInv'
  BY <1>6 DEF IInv, TypeOK, Entries, Goto, dbVars, historyVars, boughtVars, localVars, LoadInv,
       Within, Name, Nothing, Register
<1>7. ASSUME NEW u \in Users, Disconnect(u)
      PROVE  LoadInv'
  BY <1>7 DEF IInv, TypeOK, Entries, Goto, dbVars, historyVars, boughtVars, localVars, LoadInv,
       Within, Name, Nothing, Disconnect
<1>8. ASSUME NEW u \in Users, NEW p \in NamesOf[u], SetName(u, p)
      PROVE  LoadInv'
  BY <1>8 DEF IInv, TypeOK, Entries, Goto, dbVars, historyVars, boughtVars, localVars, LoadInv,
       Within, Name, Nothing, SetName
<1>9. CASE TryCreateInventory
  BY <1>9 DEF IInv, TypeOK, Entries, Goto, dbVars, historyVars, boughtVars, localVars, LoadInv,
       Within, Name, Nothing, TryCreateInventory, Fault
<1>10. CASE LoadRows
  <2>1. /\ pc' = [pc EXCEPT !["process"] = "clear"]
        /\ UNCHANGED <<mName, user, bought, overdrawn, Name>>
    BY <1>10 DEF LoadRows, Goto, Name, historyVars, boughtVars
  <2>2. Name \in Players
    BY <1>10 DEF IInv, TypeOK, NameInv, LoadRows, Goto, Name
  <2>3. itemList'["process"] \in {db[Name], Nothing}
    BY <1>10 DEF IInv, TypeOK, LoadInv, LoadRows, Goto
  <2>4. pc'["process"] = "clear" /\ pc'["process"] # "add"
    BY <2>1 DEF IInv, TypeOK
  <2> QED
    <3>1. Name \notin overdrawn => Within(itemList'["process"], Name)
      BY <2>2, <2>3 DEF IInv, OwnInv, Within, Nothing
    <3> QED
      BY <3>1, <2>1, <2>4 DEF LoadInv, Within
<1>11. CASE ClearItem
  BY <1>11 DEF IInv, TypeOK, Entries, Goto, dbVars, historyVars, boughtVars, localVars, LoadInv,
       Within, Name, Nothing, ClearItem
<1>12. ASSUME NEW i \in Items, AddRow(i)
      PROVE  LoadInv'
  <2>1. /\ pc["process"] = "add"
        /\ inventory' = [inventory EXCEPT ![user["process"]][i] = itemList["process"][i]]
        /\ itemList' = [itemList EXCEPT !["process"][i] = NoItem]
    BY <1>12, AddRowFacts DEF IInv
  <2>2. UNCHANGED <<pc, user, Name, bought, overdrawn>>
    BY <1>12 DEF AddRow, Name, historyVars, boughtVars
  <2> QED
    BY <2>1, <2>2 DEF IInv, TypeOK, Entries, LoadInv, Within
<1>13. CASE ConnectDone
  BY <1>13 DEF IInv, TypeOK, Entries, Goto, dbVars, historyVars, boughtVars, localVars, LoadInv,
       Within, Name, Nothing, ConnectDone
<1>14. ASSUME NEW u \in Users, NEW i \in Items, NEW n \in Counts, Buy(u, i, n)
      PROVE  LoadInv'
  BY <1>14 DEF IInv, LoadInv, Buy, localVars
<1>15. CASE WakeUp
  BY <1>15 DEF IInv, TypeOK, Entries, Goto, dbVars, historyVars, boughtVars, localVars, LoadInv,
       Within, Name, Nothing, WakeUp
<1>16. CASE GetAllUser
  BY <1>16 DEF IInv, TypeOK, Entries, Goto, dbVars, historyVars, boughtVars, localVars, LoadInv,
       Within, Name, Nothing, GetAllUser, Fault
<1>17. ASSUME NEW u \in Users, PickUser(u)
      PROVE  LoadInv'
  BY <1>17 DEF IInv, TypeOK, Entries, Goto, dbVars, historyVars, boughtVars, localVars, LoadInv,
       Within, Name, Nothing, PickUser
<1>18. CASE Sleep
  BY <1>18 DEF IInv, TypeOK, Entries, Goto, dbVars, historyVars, boughtVars, localVars, LoadInv,
       Within, Name, Nothing, Sleep
<1>19. CASE UNCHANGED vars
  BY <1>19 DEF IInv, TypeOK, Entries, Goto, dbVars, historyVars, boughtVars, localVars, LoadInv,
       Within, Name, Nothing, vars
<1> QED
  BY <1>1, <1>2, <1>3, <1>4, <1>5, <1>6, <1>7, <1>8, <1>9, <1>10, <1>11, <1>12, <1>13, <1>14,
       <1>15, <1>16, <1>17, <1>18, <1>19
     DEF Next, Requests, RunCallback, SynchronizeDB, UpdateInventoryDB, Threads

(* Every step keeps items among those bought.                                *)
LEMMA OwnNext == OnePlayerPerSlot /\ IInv /\ [Next]_vars => OwnInv'
<1> SUFFICES ASSUME OnePlayerPerSlot, IInv, [Next]_vars
             PROVE  OwnInv'
  OBVIOUS
<1>1. ASSUME NEW t \in Threads, ReadName(t)
      PROVE  OwnInv'
  BY <1>1 DEF IInv, TypeOK, Entries, Goto, dbVars, historyVars, boughtVars, localVars, OwnInv,
       Within, ReadName
<1>2. ASSUME NEW t \in Threads, GetItemAll(t)
      PROVE  OwnInv'
  BY <1>2 DEF IInv, TypeOK, Entries, Goto, dbVars, historyVars, boughtVars, localVars, OwnInv,
       Within, GetItemAll
<1>3. ASSUME NEW t \in Threads, NEW i \in Items, WriteRow(t, i)
      PROVE  OwnInv'
  BY <1>3 DEF IInv, TypeOK, Entries, Goto, dbVars, historyVars, boughtVars, localVars, OwnInv,
       Within, WriteRow, InventoryUpdate, SaveInv
<1>4. ASSUME NEW t \in Threads, SaveFails(t)
      PROVE  OwnInv'
  BY <1>4 DEF IInv, TypeOK, Entries, Goto, dbVars, historyVars, boughtVars, localVars, OwnInv,
       Within, SaveFails, Return, Fault
<1>5. ASSUME NEW t \in Threads, SaveDone(t)
      PROVE  OwnInv'
  BY <1>5 DEF IInv, TypeOK, Entries, Goto, dbVars, historyVars, boughtVars, localVars, OwnInv,
       Within, SaveDone, Return
<1>6. ASSUME NEW u \in Users, Register(u)
      PROVE  OwnInv'
  BY <1>6 DEF IInv, TypeOK, Entries, Goto, dbVars, historyVars, boughtVars, localVars, OwnInv,
       Within, Register
<1>7. ASSUME NEW u \in Users, Disconnect(u)
      PROVE  OwnInv'
  BY <1>7 DEF IInv, TypeOK, Entries, Goto, dbVars, historyVars, boughtVars, localVars, OwnInv,
       Within, Disconnect
<1>8. ASSUME NEW u \in Users, NEW p \in NamesOf[u], SetName(u, p)
      PROVE  OwnInv'
  BY <1>8 DEF IInv, dbVars, boughtVars, OwnInv, Within, SetName
<1>9. CASE TryCreateInventory
  BY <1>9 DEF IInv, TypeOK, Entries, Goto, dbVars, historyVars, boughtVars, localVars, OwnInv,
       Within, TryCreateInventory, Fault
<1>10. CASE LoadRows
  BY <1>10 DEF IInv, TypeOK, Entries, Goto, dbVars, historyVars, boughtVars, localVars, OwnInv,
       Within, LoadRows, Fault
<1>11. CASE ClearItem
  BY <1>11 DEF IInv, TypeOK, Entries, Goto, dbVars, historyVars, boughtVars, localVars, OwnInv,
       Within, ClearItem, Nothing
<1>12. ASSUME NEW i \in Items, AddRow(i)
      PROVE  OwnInv'
  <2>1. /\ pc["process"] = "add" /\ itemList["process"][i] # NoItem
        /\ inventory' = [inventory EXCEPT ![user["process"]][i] = itemList["process"][i]]
    BY <1>12, AddRowFacts DEF IInv
  <2>2. UNCHANGED <<db, bought, overdrawn>>
    BY <1>12 DEF AddRow, dbVars, historyVars, boughtVars
  <2>3. \A p \in NamesOf[user["process"]] : p = Name
    BY <2>1 DEF IInv, TypeOK, NameInv, Name, OnePlayerPerSlot
  <2>4. Name \notin overdrawn => itemList["process"][i] <= bought[Name][i]
    BY <2>1 DEF IInv, LoadInv, Within
  <2> QED
    BY <2>1, <2>2, <2>3, <2>4 DEF IInv, TypeOK, Entries, OwnInv, Within
<1>13. CASE ConnectDone
  BY <1>13 DEF IInv, TypeOK, Entries, Goto, dbVars, historyVars, boughtVars, localVars, OwnInv,
       Within, ConnectDone
<1>14. ASSUME NEW u \in Users, NEW i \in Items, NEW n \in Counts, Buy(u, i, n)
      PROVE  OwnInv'
  <2>1. /\ inventory' = [inventory EXCEPT ![u][i] = Added(@, n)]
        /\ \A p \in Players : \A j \in Items : bought[p][j] <= bought'[p][j]
        /\ bought' \in [Players -> [Items -> Nat]]
        /\ overdrawn \subseteq overdrawn'
        /\ n \in Int32
    BY <1>14, BuyFacts DEF IInv
  <2>2. db' = db
    BY <1>14 DEF Buy, dbVars
  <2>3. ASSUME NEW p \in Players \ overdrawn', NEW held \in Held, NEW j \in Items,
               held # NoItem, held <= bought[p][j]
        PROVE  held <= bought'[p][j]
    BY <2>1, <2>3, IntAssumption DEF IInv, TypeOK, Held, Int32
  <2>4. (\A p \in Players \ overdrawn : Within(db[p], p))'
    BY <2>1, <2>2, <2>3 DEF IInv, TypeOK, Entries, OwnInv, Within
  <2>5. ASSUME NEW v \in Users, NEW p \in NamesOf[v] \ overdrawn', NEW j \in Items,
               inventory'[v][j] # NoItem
        PROVE  inventory'[v][j] <= bought'[p][j]
    <3>1. p \in Players /\ p \notin overdrawn
      BY <2>1
    <3>2. inventory[v][j] # NoItem => inventory[v][j] <= bought[p][j]
      BY <3>1 DEF IInv, OwnInv, Within
    <3>3. CASE v # u \/ j # i
      <4>1. inventory'[v][j] = inventory[v][j]
        BY <2>1, <3>3 DEF IInv, TypeOK, Entries
      <4> QED
        BY <2>3, <2>5, <3>1, <3>2, <4>1 DEF IInv, TypeOK, Entries
    <3>4. CASE v = u /\ j = i
      <4>1. inventory'[v][j] = Added(inventory[u][i], n)
        BY <2>1, <3>4 DEF IInv, TypeOK, Entries
      <4>2. p \in Buyers(u)
        BY <3>4 DEF IInv, NameInv, OnePlayerPerSlot, Buyers
      <4>3. bought'[p][i] = IF n > 0 THEN bought[p][i] + n ELSE bought[p][i]
        BY <1>14, <3>1, <4>2 DEF Buy, IInv, TypeOK
      <4>4. inventory[u][i] # NoItem => inventory[u][i] + n >= -INT_MAX - 1
        <5>1. ~(inventory[u][i] # NoItem /\ inventory[u][i] + n < -INT_MAX - 1)
          BY <1>14, <2>5, <4>2 DEF Buy
        <5>2. inventory[u][i] \in Held
          BY DEF IInv, TypeOK, Entries
        <5> QED
          BY <5>1, <5>2, <2>1, IntAssumption DEF Held, Int32
      <4>5. bought[p][i] \in Nat /\ inventory[u][i] \in Held
        BY <3>1 DEF IInv, TypeOK, Entries
      <4> QED
        BY <2>1, <2>5, <3>2, <3>4, <4>1, <4>3, <4>4, <4>5, AddedBound
    <3> QED
      BY <3>3, <3>4
  <2> QED
    BY <2>4, <2>5 DEF OwnInv, Within
<1>15. CASE WakeUp
  BY <1>15 DEF IInv, TypeOK, Entries, Goto, dbVars, historyVars, boughtVars, localVars, OwnInv,
       Within, WakeUp
<1>16. CASE GetAllUser
  BY <1>16 DEF IInv, TypeOK, Entries, Goto, dbVars, historyVars, boughtVars, localVars, OwnInv,
       Within, GetAllUser, Fault
<1>17. ASSUME NEW u \in Users, PickUser(u)
      PROVE  OwnInv'
  BY <1>17 DEF IInv, TypeOK, Entries, Goto, dbVars, historyVars, boughtVars, localVars, OwnInv,
       Within, PickUser
<1>18. CASE Sleep
  BY <1>18 DEF IInv, TypeOK, Entries, Goto, dbVars, historyVars, boughtVars, localVars, OwnInv,
       Within, Sleep
<1>19. CASE UNCHANGED vars
  BY <1>19 DEF IInv, TypeOK, Entries, Goto, dbVars, historyVars, boughtVars, localVars, OwnInv,
       Within, vars
<1> QED
  BY <1>1, <1>2, <1>3, <1>4, <1>5, <1>6, <1>7, <1>8, <1>9, <1>10, <1>11, <1>12, <1>13, <1>14,
       <1>15, <1>16, <1>17, <1>18, <1>19
     DEF Next, Requests, RunCallback, SynchronizeDB, UpdateInventoryDB, Threads

-----------------------------------------------------------------------------
(* A fresh server on an empty database.                                      *)
LEMMA InitIInv == Init => IInv
<1> SUFFICES ASSUME Init
             PROVE  IInv
  OBVIOUS
<1>1. 0 \in 0..MaxFaults /\ 0 \in 0..MaxPurchases
  OBVIOUS
<1>2. Nothing \in Entries
  BY DEF Nothing, Entries, Held
<1>3. TypeOK
  BY NoUserType, <1>1, <1>2 DEF Init, TypeOK
<1>4. NameInv /\ SaveInv
  BY DEF Init, NameInv, SaveInv
<1>5. LoadInv
  BY DEF Init, LoadInv
<1>6. OwnInv
  BY DEF Init, OwnInv, Within, Nothing
<1> QED
  BY <1>3, <1>4, <1>5, <1>6 DEF IInv

(* The invariant holds throughout.                                           *)
LEMMA SpecIInv == OnePlayerPerSlot /\ Spec => []IInv
<1> SUFFICES ASSUME OnePlayerPerSlot
             PROVE  Spec => []IInv
  OBVIOUS
<1>1. IInv /\ [Next]_vars => IInv'
  BY TypeNext, NameNext, SaveNext, LoadNext, OwnNext DEF IInv
<1>2. Init => IInv
  BY InitIInv
<1> QED
  BY <1>1, <1>2, PTL DEF Spec

(* The registry, the users and the tables keep their types, and a table is   *)
(* only ever created for a player.                                           *)
THEOREM TypeCorrect == Spec => []TypeOK
<1>1. TypeOK /\ NameInv /\ [Next]_vars => (TypeOK /\ NameInv)'
  BY TypeNext, NameNext
<1>2. Init => TypeOK /\ NameInv
  BY InitIInv DEF IInv
<1> QED
  BY <1>1, <1>2, PTL DEF Spec

(* As long as each slot serves one player, the two threads of RIenventory    *)
(* never multiply an item, whatever they read early, write late or fail to   *)
(* write, and however often a player comes back.                             *)
THEOREM AlwaysOnlyBoughtItems == OnePlayerPerSlot /\ Spec => []OnlyBoughtItems
<1>1. ASSUME IInv
      PROVE  OnlyBoughtItems
  <2>1. ASSUME NEW p \in Players \ overdrawn
        PROVE  ~Excess(db[p], p)
    <3>1. db[p] \in Entries /\ bought[p] \in [Items -> Nat] /\ Within(db[p], p)
      BY <1>1 DEF IInv, TypeOK, OwnInv
    <3> QED
      BY <3>1, NothingAbove
  <2>2. ASSUME NEW u \in Users, mName[u] \in Players \ overdrawn
        PROVE  ~Excess(inventory[u], mName[u])
    <3>1. mName[u] \in NamesOf[u]
      BY <1>1, <2>2 DEF IInv, NameInv
    <3>2. /\ inventory[u] \in Entries /\ bought[mName[u]] \in [Items -> Nat]
          /\ Within(inventory[u], mName[u])
      BY <1>1, <2>2, <3>1 DEF IInv, TypeOK, OwnInv
    <3> QED
      BY <2>2, <3>2, NothingAbove
  <2> QED
    BY <2>1, <2>2 DEF OnlyBoughtItems
<1> QED
  BY <1>1, SpecIInv, PTL

-----------------------------------------------------------------------------
(* Nothing is lost.  A player uses one slot.                                 *)
OneSlotPerPlayer == \A u, v \in Users : NamesOf[u] \intersect NamesOf[v] # {} => u = v

(* Nothing has happened yet after which NothingLost promises nothing.        *)
Careful == clean /\ faults = 0

(* The entries of a player who has all that it bought, and nothing else.     *)
Had == [p \in Players |-> [i \in Items |-> IF bought[p][i] = 0 THEN NoItem ELSE bought[p][i]]]

(* No entry is below one.                                                    *)
Positive(entries) == \A i \in Items : entries[i] # NoItem => entries[i] > 0

(* Who asks for more than nothing has positive counts everywhere.            *)
StockInv == Careful =>
  /\ overdrawn = {}
  /\ \A p \in Players : Positive(db[p])
  /\ \A u \in Users : Positive(inventory[u])
  /\ \A t \in Threads : Positive(itemList[t])

(* The process thread runs a callback for slot u and is at one of places.    *)
At(u, places) == user["process"] = u /\ pc["process"] \in places

(* The slots that a name was announced for.                                  *)
Named == {u \in Users : mName[u] # NoName}

(* While Connect runs for a slot it is announced, and while Disconnect saves *)
(* it is not.  An announced slot has a name; until it gets one its player    *)
(* has bought nothing.                                                       *)
AnnouncedInv ==
  /\ \A u \in Users : At(u, {"create", "load", "clear", "add"}) => u \in announced
  /\ \A u \in Users : At(u, {"name", "items", "write"}) => u \notin announced
  /\ \A u \in announced : mName[u] # NoName
  /\ Careful => \A u \in Users \ Named : \A p \in NamesOf[u] : Had[p] = Nothing

(* The slot holds all that its player bought, with what is still to be added.*)
Whole(u) ==
  /\ ~At(u, {"add"}) => inventory[u] = Had[mName[u]]
  /\ At(u, {"clear"}) => itemList["process"] = Had[mName[u]]
  /\ At(u, {"add"}) => \A i \in Items :
       IF itemList["process"][i] = NoItem THEN inventory[u][i] = Had[mName[u]][i]
                                          ELSE itemList["process"][i] = Had[mName[u]][i]

(* Nobody buys for the slot before its table has been read again.            *)
Away(u) == u \notin announced \/ At(u, {"create", "load"})

(* And so does the table, with what the process thread still has to save.    *)
InTable(u) ==
  /\ ~At(u, {"create"}) => mName[u] \in tables
  /\ Away(u) /\ ~At(u, {"name", "items", "write"}) => db[mName[u]] = Had[mName[u]]
  /\ At(u, {"items", "write"}) => userName["process"] = mName[u]
  /\ At(u, {"write"}) => \A i \in Items :
       IF itemList["process"][i] = NoItem THEN db[mName[u]][i] = Had[mName[u]][i]
                                          ELSE itemList["process"][i] = Had[mName[u]][i]

(* What the synchronisation thread still has to write does no harm then.     *)
Fresh(u) ==
  Away(u) /\ user["sync"] = u /\ pc["sync"] = "write" /\ userName["sync"] # NoName
    => \A i \in Items : itemList["sync"][i] \in {NoItem, Had[mName[u]][i]}

WholeInv == Careful => \A u \in Named : Whole(u)
TableInv == Careful => \A u \in Named : InTable(u)
FreshInv == Careful => \A u \in Named : Fresh(u)

(* The inductive invariant, together with IInv.                              *)
LossInv == StockInv /\ AnnouncedInv /\ WholeInv /\ TableInv /\ FreshInv

(* A name belongs to one slot. *)
LEMMA OwnName == OneSlotPerPlayer /\ NameInv =>
  \A u, v \in Users : mName[u] # NoName /\ mName[u] \in NamesOf[v] => u = v
BY DEF OneSlotPerPlayer, NameInv

LEMMA HadType == TypeOK => Had \in [Players -> [Items -> Nat \union {NoItem}]]
BY DEF Had, TypeOK

(* A sum that counts for NothingLost is one that no int overflows.           *)
LEMMA AddedSum ==
  ASSUME NEW held \in Held, NEW n \in Int32, n > 0, held # NoItem => held > 0,
         Added(held, n) # NoItem
  PROVE  Added(held, n) = (IF held = NoItem THEN 0 ELSE held) + n
<1>1. CASE held = NoItem
  BY <1>1, IntAssumption DEF Added, Int32
<1>2. CASE held # NoItem
  <2>1. held \in Int32 /\ INT_MAX \in Nat
    BY <1>2, IntAssumption DEF Held
  <2>2. Added(held, n) = Wrapped(held + n) /\ Wrapped(held + n) > 0
    BY <1>2, <2>1 DEF Added, Wrapped, Int32
  <2>3. Wrapped(held + n) = held + n
    BY <1>2, <2>1, <2>2 DEF Wrapped, Int32
  <2> QED
    BY <1>2, <2>2, <2>3
<1> QED
  BY <1>1, <1>2

(* A purchase after which NothingLost still promises something.              *)
LEMMA CarefulBuy ==
  ASSUME OneSlotPerPlayer, IInv, LossInv, Careful',
         NEW u \in Users, NEW i \in Items, NEW n \in Counts, Buy(u, i, n)
  PROVE  /\ Careful /\ u \in announced /\ u \in Named
         /\ overdrawn' = {}
         /\ inventory'[u] = Had'[mName[u]]
         /\ \A v \in Users \ {u} : inventory'[v] = inventory[v]
         /\ \A p \in Players \ {mName[u]} : Had'[p] = Had[p]
         /\ \A v \in Users : Positive(inventory'[v])
<1>1. /\ Careful /\ u \in announced /\ n > 0 /\ pc["process"] = "idle"
      /\ Added(inventory[u][i], n) # NoItem
  BY DEF Buy, Careful
<1>2. u \in Named /\ mName[u] \in Players /\ Buyers(u) = {mName[u]}
  BY <1>1 DEF LossInv, AnnouncedInv, Named, IInv, TypeOK, Buyers
<1>3. inventory[u] = Had[mName[u]] /\ Positive(inventory[u]) /\ inventory[u] \in Entries
  BY <1>1, <1>2 DEF LossInv, WholeInv, Whole, At, StockInv, IInv, TypeOK
<1>4. /\ n \in Int32
      /\ inventory' = [inventory EXCEPT ![u][i] = Added(@, n)]
      /\ bought'[mName[u]] = [bought[mName[u]] EXCEPT ![i] = @ + n]
      /\ \A p \in Players \ {mName[u]} : bought'[p] = bought[p]
  BY <1>1, <1>2, BuyFacts DEF IInv
<1> DEFINE held == inventory[u][i]
<1>5. held \in Held /\ (held # NoItem => held > 0)
  BY <1>3 DEF Entries, Positive
<1>6. Added(held, n) = (IF held = NoItem THEN 0 ELSE held) + n
  BY <1>1, <1>4, <1>5, AddedSum
<1>7. held = IF bought[mName[u]][i] = 0 THEN NoItem ELSE bought[mName[u]][i]
  BY <1>2, <1>3 DEF Had
<1>8. NoItem # 0 /\ bought[mName[u]] \in [Items -> Nat]
  BY <1>2, IntAssumption DEF IInv, TypeOK, Int32
<1>9. bought'[mName[u]][i] = Added(held, n) /\ bought'[mName[u]][i] > 0
  <2>1. held = NoItem <=> bought[mName[u]][i] = 0
    BY <1>7, <1>8, IntAssumption, <1>5 DEF Held
  <2>2. bought'[mName[u]][i] = bought[mName[u]][i] + n
    BY <1>4, <1>8
  <2>3. n \in Int
    BY <1>4, IntAssumption DEF Int32
  <2> QED
    BY <2>1, <2>2, <2>3, <1>1, <1>6, <1>7, <1>8
<1>10. inventory'[u] = [inventory[u] EXCEPT ![i] = Added(held, n)]
  BY <1>4 DEF IInv, TypeOK
<1>11. Had'[mName[u]] = [j \in Items |-> IF bought'[mName[u]][j] = 0
                                         THEN NoItem ELSE bought'[mName[u]][j]]
  BY <1>2 DEF Had
<1>12. inventory'[u] = Had'[mName[u]]
  <2>1. inventory'[u] \in [Items -> Held \union {Added(held, n)}]
    BY <1>3, <1>10 DEF Entries
  <2>2. ASSUME NEW j \in Items
        PROVE  inventory'[u][j] = Had'[mName[u]][j]
    <3>1. CASE j = i
      BY <3>1, <1>3, <1>9, <1>10, <1>11 DEF Entries
    <3>2. CASE j # i
      BY <3>2, <1>2, <1>3, <1>4, <1>8, <1>10, <1>11 DEF Entries, Had
    <3> QED
      BY <3>1, <3>2
  <2> QED
    BY <2>1, <2>2, <1>11
<1>13. \A v \in Users \ {u} : inventory'[v] = inventory[v]
  BY <1>4 DEF IInv, TypeOK
<1>14. \A p \in Players \ {mName[u]} : Had'[p] = Had[p]
  BY <1>4 DEF Had
<1>15. Positive(inventory'[u])
  BY <1>3, <1>9, <1>10 DEF Positive, Entries
<1>16. \A v \in Users : Positive(inventory'[v])
  BY <1>1, <1>13, <1>15 DEF LossInv, StockInv
<1>17. overdrawn' = {}
  <2>1. ~(held # NoItem /\ held + n < -INT_MAX - 1)
    BY <1>1, <1>4, <1>5, IntAssumption DEF Held, Int32
  <2>2. overdrawn = {}
    BY <1>1 DEF LossInv, StockInv
  <2> QED
    BY <2>1, <2>2 DEF Buy
<1> QED
  BY <1>1, <1>2, <1>12, <1>13, <1>14, <1>16, <1>17

(* Rows and copies of positive counts stay so.                               *)
LEMMA StockNext == OneSlotPerPlayer /\ IInv /\ LossInv /\ [Next]_vars => StockInv'
<1> SUFFICES ASSUME OneSlotPerPlayer, IInv, LossInv, [Next]_vars
             PROVE  StockInv'
  OBVIOUS
<1> USE DEF IInv, TypeOK, Entries, LossInv, StockInv, Careful, Positive, Nothing, Goto, dbVars,
            historyVars, boughtVars, localVars
<1>1. ASSUME NEW t \in Threads, ReadName(t)
      PROVE  StockInv'
  BY <1>1 DEF ReadName
<1>2. ASSUME NEW t \in Threads, GetItemAll(t)
      PROVE  StockInv'
  BY <1>2 DEF GetItemAll
<1>3. ASSUME NEW t \in Threads, NEW i \in Items, WriteRow(t, i)
      PROVE  StockInv'
  BY <1>3 DEF WriteRow, InventoryUpdate
<1>4. ASSUME NEW t \in Threads, SaveFails(t)
      PROVE  StockInv'
  BY <1>4 DEF SaveFails, Fault
<1>5. ASSUME NEW t \in Threads, SaveDone(t)
      PROVE  StockInv'
  BY <1>5 DEF SaveDone
<1>6. ASSUME NEW u \in Users, Register(u)
      PROVE  StockInv'
  BY <1>6 DEF Register
<1>7. ASSUME NEW u \in Users, Disconnect(u)
      PROVE  StockInv'
  BY <1>7 DEF Disconnect
<1>8. ASSUME NEW u \in Users, NEW p \in NamesOf[u], SetName(u, p)
      PROVE  StockInv'
  BY <1>8 DEF SetName
<1>9. CASE TryCreateInventory
  BY <1>9 DEF TryCreateInventory, Fault
<1>10. CASE LoadRows
  <2>1. /\ UNCHANGED <<clean, overdrawn, db, inventory>>
        /\ faults \in Nat /\ (faults' = faults \/ faults' = faults + 1)
    BY <1>10 DEF LoadRows, Fault
  <2>2. SUFFICES ASSUME Careful' PROVE \A t \in Threads : Positive(itemList'[t])
    BY <2>1
  <2>3. Careful
    BY <2>1, <2>2
  <2>4. DEFINE rows == IF Name \in tables THEN db[Name] ELSE Nothing
  <2>5. Positive(rows)
    <3>1. Positive(Nothing)
      OBVIOUS
    <3>2. ASSUME Name \in tables PROVE Positive(db[Name])
      BY <2>3, <3>2
    <3> QED
      BY <3>1, <3>2
  <2>6. \/ itemList' = [itemList EXCEPT !["process"] = rows]
        \/ itemList' = itemList
    BY <1>10 DEF LoadRows
  <2> QED
    BY <2>3, <2>5, <2>6
<1>11. CASE ClearItem
  BY <1>11 DEF ClearItem
<1>12. ASSUME NEW i \in Items, AddRow(i)
      PROVE  StockInv'
  <2>1. /\ itemList["process"][i] # NoItem
        /\ inventory' = [inventory EXCEPT ![user["process"]][i] = itemList["process"][i]]
        /\ itemList' = [itemList EXCEPT !["process"][i] = NoItem]
    BY <1>12, AddRowFacts
  <2>2. UNCHANGED <<db, overdrawn, Careful>>
    BY <1>12 DEF AddRow
  <2> QED
    BY <2>1, <2>2
<1>13. CASE ConnectDone
  BY <1>13 DEF ConnectDone
<1>14. ASSUME NEW u \in Users, NEW i \in Items, NEW n \in Counts, Buy(u, i, n)
      PROVE  StockInv'
  <2>1. UNCHANGED <<db, itemList>>
    BY <1>14 DEF Buy
  <2>2. Careful' => Careful /\ overdrawn' = {} /\ \A v \in Users : Positive(inventory'[v])
    BY <1>14, CarefulBuy
  <2> QED
    BY <2>1, <2>2
<1>15. CASE WakeUp
  BY <1>15 DEF WakeUp
<1>16. CASE GetAllUser
  BY <1>16 DEF GetAllUser, Fault
<1>17. ASSUME NEW u \in Users, PickUser(u)
      PROVE  StockInv'
  BY <1>17 DEF PickUser
<1>18. CASE Sleep
  BY <1>18 DEF Sleep
<1>19. CASE UNCHANGED vars
  BY <1>19 DEF vars
<1> QED
  BY <1>1, <1>2, <1>3, <1>4, <1>5, <1>6, <1>7, <1>8, <1>9, <1>10, <1>11, <1>12, <1>13, <1>14,
       <1>15, <1>16, <1>17, <1>18, <1>19
     DEF Next, Requests, RunCallback, SynchronizeDB, UpdateInventoryDB, Threads

(* Positive entries of a player who has bought nothing are none.             *)
LEMMA NothingHeld ==
  ASSUME TypeOK, NEW p \in Players, Had[p] = Nothing, NEW entries \in Entries,
         Within(entries, p), Positive(entries)
  PROVE  entries = Nothing
<1>1. ASSUME NEW i \in Items
      PROVE  bought[p][i] = 0
  <2>1. Had[p][i] = NoItem /\ Had[p][i] = IF bought[p][i] = 0 THEN NoItem ELSE bought[p][i]
    BY DEF Nothing, Had
  <2>2. bought[p][i] # NoItem
    BY IntAssumption DEF TypeOK
  <2> QED
    BY <2>1, <2>2
<1> QED
  BY <1>1, IntAssumption DEF Within, Positive, Entries, Nothing, Held, Int32

(* announced follows the callbacks of the process thread. *)
LEMMA AnnouncedNext ==
  OneSlotPerPlayer /\ IInv /\ LossInv /\ [Next]_vars => AnnouncedInv'
<1> SUFFICES ASSUME OneSlotPerPlayer, IInv, LossInv, [Next]_vars
             PROVE  AnnouncedInv'
  OBVIOUS
<1>0. bought' = bought => Had' = Had
  BY DEF Had
<1>1. ASSUME NEW t \in Threads, ReadName(t)
      PROVE  AnnouncedInv'
  BY <1>0, <1>1 DEF IInv, TypeOK, ReadName, Goto, historyVars, boughtVars, LossInv, AnnouncedInv, At, Named, Careful
<1>2. ASSUME NEW t \in Threads, GetItemAll(t)
      PROVE  AnnouncedInv'
  BY <1>0, <1>2 DEF IInv, TypeOK, GetItemAll, Goto, historyVars, boughtVars, LossInv, AnnouncedInv, At, Named, Careful
<1>3. ASSUME NEW t \in Threads, NEW i \in Items, WriteRow(t, i)
      PROVE  AnnouncedInv'
  BY <1>0, <1>3 DEF IInv, TypeOK, WriteRow, InventoryUpdate, historyVars, boughtVars, LossInv, AnnouncedInv, At, Named, Careful
<1>4. ASSUME NEW t \in Threads, SaveFails(t)
      PROVE  AnnouncedInv'
  BY <1>0, <1>4 DEF IInv, TypeOK, SaveFails, Return, Fault, Goto, historyVars, boughtVars, LossInv, AnnouncedInv, At, Named, Careful
<1>5. ASSUME NEW t \in Threads, SaveDone(t)
      PROVE  AnnouncedInv'
  BY <1>0, <1>5 DEF IInv, TypeOK, SaveDone, Return, Goto, historyVars, boughtVars, LossInv, AnnouncedInv, At, Named, Careful
<1>6. ASSUME NEW u \in Users, Register(u)
      PROVE  AnnouncedInv'
  BY <1>0, <1>6 DEF IInv, TypeOK, Register, historyVars, boughtVars, LossInv, AnnouncedInv, At, Named, Careful
<1>7. ASSUME NEW u \in Users, Disconnect(u)
      PROVE  AnnouncedInv'
  BY <1>0, <1>7 DEF IInv, TypeOK, boughtVars, Disconnect, LateSave, Goto, LossInv, AnnouncedInv, At, Named, Careful
<1>8. ASSUME NEW u \in Users, NEW p \in NamesOf[u], SetName(u, p)
      PROVE  AnnouncedInv'
  BY <1>0, <1>8 DEF IInv, TypeOK, boughtVars, SetName, InTime, Goto, LossInv, AnnouncedInv, At, Named, Careful
<1>9. CASE TryCreateInventory
  BY <1>0, <1>9 DEF IInv, TypeOK, TryCreateInventory, Fault, Goto, historyVars, boughtVars, localVars, LossInv, AnnouncedInv,
       At, Named, Careful
<1>10. CASE LoadRows
  BY <1>0, <1>10 DEF IInv, TypeOK, LoadRows, Fault, Goto, historyVars, boughtVars, LossInv, AnnouncedInv, At, Named, Careful
<1>11. CASE ClearItem
  BY <1>0, <1>11 DEF IInv, TypeOK, ClearItem, Goto, historyVars, boughtVars, localVars, LossInv, AnnouncedInv, At, Named, Careful
<1>12. ASSUME NEW i \in Items, AddRow(i)
      PROVE  AnnouncedInv'
  BY <1>0, <1>12 DEF IInv, TypeOK, AddRow, historyVars, boughtVars, LossInv, AnnouncedInv, At, Named, Careful
<1>13. CASE ConnectDone
  BY <1>0, <1>13 DEF IInv, TypeOK, ConnectDone, Goto, historyVars, boughtVars, LossInv, AnnouncedInv, At, Named, Careful
<1>14. ASSUME NEW u \in Users, NEW i \in Items, NEW n \in Counts, Buy(u, i, n)
      PROVE  AnnouncedInv'
  <2>1. UNCHANGED <<mName, announced, pc, user>>
    BY <1>14 DEF Buy, localVars
  <2>2. ASSUME Careful', NEW v \in Users \ Named', NEW p \in NamesOf[v]
        PROVE  Had'[p] = Nothing
    <3>1. /\ Careful /\ u \in Named
          /\ \A q \in Players \ {mName[u]} : Had'[q] = Had[q]
      BY <1>14, <2>2, CarefulBuy
    <3>2. p \in Players /\ p # mName[u] /\ v \in Users \ Named
      BY <2>1, <2>2, <3>1, OwnName DEF IInv, Named
    <3> QED
      BY <2>2, <3>1, <3>2 DEF AnnouncedInv, LossInv
  <2> QED
    BY <2>1, <2>2 DEF LossInv, AnnouncedInv, At
<1>15. CASE WakeUp
  BY <1>0, <1>15 DEF IInv, TypeOK, WakeUp, Goto, historyVars, boughtVars, localVars, LossInv, AnnouncedInv, At, Named, Careful
<1>16. CASE GetAllUser
  BY <1>0, <1>16 DEF IInv, TypeOK, GetAllUser, Fault, Goto, historyVars, boughtVars, LossInv, AnnouncedInv, At, Named, Careful
<1>17. ASSUME NEW u \in Users, PickUser(u)
      PROVE  AnnouncedInv'
  BY <1>0, <1>17 DEF IInv, TypeOK, PickUser, Goto, historyVars, boughtVars, LossInv, AnnouncedInv, At, Named, Careful
<1>18. CASE Sleep
  BY <1>0, <1>18 DEF IInv, TypeOK, Sleep, Goto, historyVars, boughtVars, localVars, LossInv, AnnouncedInv, At, Named, Careful
<1>19. CASE UNCHANGED vars
  BY <1>0, <1>19 DEF IInv, TypeOK, vars, historyVars, boughtVars, localVars, LossInv, AnnouncedInv, At, Named, Careful
<1> QED
  BY <1>1, <1>2, <1>3, <1>4, <1>5, <1>6, <1>7, <1>8, <1>9, <1>10, <1>11, <1>12, <1>13, <1>14,
       <1>15, <1>16, <1>17, <1>18, <1>19
     DEF Next, Requests, RunCallback, SynchronizeDB, UpdateInventoryDB, Threads

(* Every step keeps a slot whole: loads add up, and only Buy adds to both.   *)
LEMMA WholeNext ==
  OnePlayerPerSlot /\ OneSlotPerPlayer /\ IInv /\ LossInv /\ [Next]_vars => WholeInv'
<1> SUFFICES ASSUME OnePlayerPerSlot, OneSlotPerPlayer, IInv, LossInv, [Next]_vars
             PROVE  WholeInv'
  OBVIOUS
<1>0. bought' = bought => Had' = Had
  BY DEF Had
<1>1. ASSUME NEW t \in Threads, ReadName(t)
      PROVE  WholeInv'
  BY <1>0, <1>1 DEF IInv, TypeOK, LossInv, Named, Careful, ReadName, Goto, historyVars, boughtVars, WholeInv, At,
       Whole
<1>2. ASSUME NEW t \in Threads, GetItemAll(t)
      PROVE  WholeInv'
  BY <1>0, <1>2 DEF IInv, TypeOK, LossInv, Named, Careful, GetItemAll, Goto, historyVars, boughtVars, WholeInv, At,
       Whole
<1>3. ASSUME NEW t \in Threads, NEW i \in Items, WriteRow(t, i)
      PROVE  WholeInv'
  BY <1>0, <1>3 DEF IInv, TypeOK, LossInv, Named, Careful, WriteRow, InventoryUpdate, historyVars, boughtVars,
       WholeInv, At, Whole
<1>4. ASSUME NEW t \in Threads, SaveFails(t)
      PROVE  WholeInv'
  BY <1>0, <1>4 DEF IInv, TypeOK, LossInv, Named, Careful, SaveFails, Return, Fault, Goto, historyVars, boughtVars,
       WholeInv, At, Whole
<1>5. ASSUME NEW t \in Threads, SaveDone(t)
      PROVE  WholeInv'
  BY <1>0, <1>5 DEF IInv, TypeOK, LossInv, Named, Careful, SaveDone, Return, Goto, historyVars, boughtVars, WholeInv,
       At, Whole
<1>6. ASSUME NEW u \in Users, Register(u)
      PROVE  WholeInv'
  BY <1>0, <1>6 DEF IInv, TypeOK, LossInv, Named, Careful, Register, historyVars, boughtVars, WholeInv, At,
       Whole
<1>7. ASSUME NEW u \in Users, Disconnect(u)
      PROVE  WholeInv'
  BY <1>0, <1>7 DEF IInv, TypeOK, LossInv, Named, Careful, boughtVars, Disconnect, LateSave, Goto,
       WholeInv, At, Whole
<1>8. ASSUME NEW u \in Users, NEW p \in NamesOf[u], SetName(u, p)
      PROVE  WholeInv'
  <2> SUFFICES ASSUME Careful', NEW v \in Users, mName'[v] # NoName
               PROVE  Whole(v)'
    BY DEF WholeInv, Named
  <2>1. /\ UNCHANGED <<Had, bought, inventory, itemList>>
        /\ mName' = [mName EXCEPT ![u] = p]
        /\ pc["process"] = "idle" /\ pc' = [pc EXCEPT !["process"] = "create"]
        /\ Careful /\ u \notin announced
    BY <1>0, <1>8 DEF boughtVars, SetName, InTime, Goto, Careful
  <2>2. pc'["process"] = "create"
    BY <2>1 DEF IInv, TypeOK
  <2>3. CASE mName[v] # NoName
    <3>1. mName'[v] = mName[v]
      BY <2>1, <2>3 DEF IInv, TypeOK, NameInv, OnePlayerPerSlot
    <3>2. inventory[v] = Had[mName[v]]
      BY <2>1, <2>3 DEF LossInv, WholeInv, Named, Whole, At
    <3> QED
      BY <2>1, <2>2, <3>1, <3>2 DEF Whole, At
  <2>4. CASE mName[v] = NoName
    <3>1. v = u /\ mName'[v] = p /\ p \in Players
      BY <2>1, <2>4 DEF IInv, TypeOK
    <3>2. Had[p] = Nothing
      BY <2>1, <2>4, <3>1 DEF LossInv, AnnouncedInv, Named
    <3>3. inventory[v] = Nothing
      BY <3>1, <3>2, <2>1, NothingHeld DEF IInv, TypeOK, LossInv, StockInv, OwnInv
    <3> QED
      BY <2>1, <2>2, <3>1, <3>2, <3>3 DEF Whole, At
  <2> QED
    BY <2>3, <2>4
<1>9. CASE TryCreateInventory
  BY <1>0, <1>9 DEF IInv, TypeOK, LossInv, Named, Careful, TryCreateInventory, Fault, Goto, historyVars, boughtVars,
       WholeInv, At, Whole
<1>10. CASE LoadRows
  BY <1>0, <1>10 DEF IInv, TypeOK, LossInv, Named, Careful, LoadRows, Fault, Goto, historyVars, boughtVars, WholeInv,
       TableInv, At, Whole, InTable, Away, Name
<1>11. CASE ClearItem
  BY <1>0, <1>11 DEF IInv, TypeOK, LossInv, Named, Careful, ClearItem, Entries, Goto, historyVars, boughtVars,
       localVars, WholeInv, At, Nothing, Whole
<1>12. ASSUME NEW i \in Items, AddRow(i)
      PROVE  WholeInv'
  <2>1. /\ pc["process"] = "add" /\ itemList["process"][i] # NoItem
        /\ inventory' = [inventory EXCEPT ![user["process"]][i] = itemList["process"][i]]
        /\ itemList' = [itemList EXCEPT !["process"][i] = NoItem]
    BY <1>12, AddRowFacts DEF IInv
  <2>2. UNCHANGED <<Had, mName, pc, user, Careful>>
    BY <1>0, <1>12 DEF AddRow, historyVars, boughtVars, Careful
  <2> QED
    BY <2>1, <2>2 DEF IInv, TypeOK, Entries, LossInv, Named, WholeInv, At, Whole
<1>13. CASE ConnectDone
  <2> SUFFICES ASSUME Careful', NEW v \in Users, mName[v] # NoName
               PROVE  Whole(v)'
    BY <1>13 DEF ConnectDone, WholeInv, Named
  <2>1. /\ UNCHANGED <<Had, mName, inventory, itemList>> /\ Careful
        /\ pc["process"] = "add" /\ pc' = [pc EXCEPT !["process"] = "idle"]
        /\ itemList["process"] = Nothing
    BY <1>0, <1>13 DEF ConnectDone, Goto, historyVars, boughtVars, Careful
  <2>2. Whole(v) /\ mName[v] \in Players
    BY <2>1 DEF LossInv, WholeInv, Named, IInv, TypeOK
  <2>3. inventory[v] = Had[mName[v]]
    <3>1. CASE At(v, {"add"})
      <4>1. \A i \in Items : inventory[v][i] = Had[mName[v]][i]
        BY <2>1, <2>2, <3>1 DEF Whole, Nothing
      <4>2. inventory[v] \in Entries /\ Had[mName[v]] \in [Items -> Nat \union {NoItem}]
        BY <2>2, HadType DEF IInv, TypeOK
      <4> QED
        BY <4>1, <4>2 DEF Entries
    <3> QED
      BY <2>2, <3>1 DEF Whole
  <2> QED
    BY <2>1, <2>3 DEF Whole, At, IInv, TypeOK
<1>14. ASSUME NEW u \in Users, NEW i \in Items, NEW n \in Counts, Buy(u, i, n)
      PROVE  WholeInv'
  <2> SUFFICES ASSUME Careful', NEW v \in Users, mName[v] # NoName
               PROVE  Whole(v)'
    BY <1>14 DEF Buy, WholeInv, Named
  <2>1. UNCHANGED <<mName, pc, user, itemList>> /\ pc["process"] = "idle"
    BY <1>14 DEF Buy, localVars
  <2>2. /\ Careful /\ u \in Named
        /\ inventory'[u] = Had'[mName[u]]
        /\ \A w \in Users \ {u} : inventory'[w] = inventory[w]
        /\ \A p \in Players \ {mName[u]} : Had'[p] = Had[p]
    BY <1>14, CarefulBuy
  <2>3. inventory'[v] = Had'[mName[v]]
    <3>1. CASE v = u
      BY <3>1, <2>2
    <3>2. CASE v # u
      <4>1. mName[v] # mName[u] /\ mName[v] \in Players
        BY <3>2, <2>2, OwnName DEF IInv, TypeOK, NameInv, Named
      <4>2. inventory[v] = Had[mName[v]]
        BY <2>1, <2>2 DEF LossInv, WholeInv, Named, Whole, At
      <4> QED
        BY <4>1, <4>2, <3>2, <2>2
    <3> QED
      BY <3>1, <3>2
  <2> QED
    BY <2>1, <2>3 DEF Whole, At
<1>15. CASE WakeUp
  BY <1>0, <1>15 DEF IInv, TypeOK, LossInv, Named, Careful, WakeUp, Goto, historyVars, boughtVars, localVars,
       WholeInv, At, Whole
<1>16. CASE GetAllUser
  BY <1>0, <1>16 DEF IInv, TypeOK, LossInv, Named, Careful, GetAllUser, Fault, Goto, historyVars, boughtVars,
       WholeInv, At, Whole
<1>17. ASSUME NEW u \in Users, PickUser(u)
      PROVE  WholeInv'
  BY <1>0, <1>17 DEF IInv, TypeOK, LossInv, Named, Careful, PickUser, Goto, historyVars, boughtVars, WholeInv, At,
       Whole
<1>18. CASE Sleep
  BY <1>0, <1>18 DEF IInv, TypeOK, LossInv, Named, Careful, Sleep, Goto, historyVars, boughtVars, localVars,
       WholeInv, At, Whole
<1>19. CASE UNCHANGED vars
  BY <1>0, <1>19 DEF IInv, TypeOK, LossInv, Named, Careful, vars, historyVars, boughtVars, localVars, WholeInv, At,
       Whole
<1> QED
  BY <1>1, <1>2, <1>3, <1>4, <1>5, <1>6, <1>7, <1>8, <1>9, <1>10, <1>11, <1>12, <1>13, <1>14,
       <1>15, <1>16, <1>17, <1>18, <1>19
     DEF Next, Requests, RunCallback, SynchronizeDB, UpdateInventoryDB, Threads

(* Every step keeps what the table holds, or is still to hold.               *)
LEMMA TableNext ==
  OnePlayerPerSlot /\ OneSlotPerPlayer /\ IInv /\ LossInv /\ [Next]_vars => TableInv'
<1> SUFFICES ASSUME OnePlayerPerSlot, OneSlotPerPlayer, IInv, LossInv, [Next]_vars
             PROVE  TableInv'
  OBVIOUS
<1>0. bought' = bought => Had' = Had
  BY DEF Had
<1>1. ASSUME NEW t \in Threads, ReadName(t)
      PROVE  TableInv'
  BY <1>0, <1>1 DEF IInv, TypeOK, LossInv, Named, Careful, ReadName, Goto, dbVars, historyVars, boughtVars, TableInv,
       At, InTable, Away
<1>2. ASSUME NEW t \in Threads, GetItemAll(t)
      PROVE  TableInv'
  <2> SUFFICES ASSUME Careful', NEW v \in Users, mName'[v] # NoName
               PROVE  InTable(v)'
    BY DEF TableInv, Named
  <2>1. /\ UNCHANGED <<Had, bought, userName, mName, user, announced, tables, db>>
        /\ pc[t] = "items" /\ pc' = [pc EXCEPT ![t] = "write"]
        /\ itemList' = [itemList EXCEPT ![t] = inventory[user[t]]]
        /\ Careful
    BY <1>0, <1>2 DEF GetItemAll, Goto, Careful, historyVars, boughtVars, dbVars
  <2>2. InTable(v) /\ Whole(v) /\ mName[v] \in Players
    BY <2>1 DEF LossInv, TableInv, WholeInv, Named, IInv, TypeOK
  <2>3. CASE t = "sync" \/ user["process"] # v
    <3>1. \A places \in SUBSET {"create", "load", "name", "items", "write"} :
            At(v, places)' <=> At(v, places)
      BY <2>1, <2>3 DEF At, IInv, TypeOK
    <3>2. At(v, {"write"}) => itemList'["process"] = itemList["process"]
      BY <2>1, <2>3 DEF At, IInv, TypeOK
    <3> QED
      BY <2>1, <2>2, <3>1, <3>2 DEF InTable, Away
  <2>4. CASE t = "process" /\ user["process"] = v
    <3>1. itemList'["process"] = Had[mName[v]]
      BY <2>1, <2>2, <2>4 DEF Whole, At, IInv, TypeOK
    <3>2. \A j \in Items : Had[mName[v]][j] = NoItem => db[mName[v]][j] = NoItem
      <4>1. ASSUME NEW j \in Items, Had[mName[v]][j] = NoItem, db[mName[v]][j] # NoItem
            PROVE  FALSE
        <5>1. bought[mName[v]][j] = 0
          BY <2>2, <4>1, IntAssumption DEF Had, IInv, TypeOK
        <5>2. db[mName[v]][j] \in Int32
          BY <2>2, <4>1 DEF IInv, TypeOK, Entries, Held
        <5>3. db[mName[v]][j] <= 0 /\ db[mName[v]][j] > 0
          BY <2>1, <2>2, <4>1, <5>1 DEF IInv, OwnInv, Within, LossInv, StockInv, Positive
        <5> QED
          BY <5>2, <5>3, IntAssumption DEF Int32
      <4> QED
        BY <4>1
    <3>3. userName["process"] = mName[v] /\ mName[v] \in tables
      BY <2>1, <2>2, <2>4 DEF InTable, At
    <3>4. pc'["process"] = "write" /\ user'["process"] = v
      BY <2>1, <2>4 DEF IInv, TypeOK
    <3> QED
      BY <2>1, <3>1, <3>2, <3>3, <3>4 DEF InTable, At
  <2> QED
    BY <2>3, <2>4
<1>3. ASSUME NEW t \in Threads, NEW i \in Items, WriteRow(t, i)
      PROVE  TableInv'
  <2> SUFFICES ASSUME Careful', NEW v \in Users, mName'[v] # NoName
               PROVE  InTable(v)'
    BY DEF TableInv, Named
  <2>1. /\ UNCHANGED <<Had, bought, userName, mName, pc, user, announced, tables>>
        /\ pc[t] = "write" /\ itemList[t][i] # NoItem /\ userName[t] \in tables
        /\ db' = [db EXCEPT ![userName[t]][i] = itemList[t][i]]
        /\ itemList' = [itemList EXCEPT ![t][i] = NoItem]
        /\ Careful
    BY <1>0, <1>3 DEF WriteRow, InventoryUpdate, Careful, historyVars, boughtVars
  <2>2. InTable(v) /\ Fresh(v) /\ mName[v] # NoName
    BY <2>1 DEF LossInv, TableInv, FreshInv, Named
  <2>3. /\ userName[t] \in Players /\ userName[t] # NoName
        /\ userName[t] = mName[user[t]] /\ user[t] \in Users
    BY <2>1 DEF IInv, TypeOK, SaveInv
  <2>4. CASE user[t] # v
    <3>1. mName[v] # userName[t]
      BY <2>2, <2>3, <2>4, OwnName DEF IInv, NameInv
    <3>2. db'[mName[v]] = db[mName[v]]
      BY <3>1, <2>1, <2>2 DEF IInv, TypeOK
    <3>3. At(v, {"write"}) => itemList'["process"] = itemList["process"]
      BY <2>1, <2>4 DEF At, IInv, TypeOK
    <3> QED
      BY <2>1, <2>2, <3>2, <3>3 DEF InTable, Away, At
  <2>5. CASE user[t] = v /\ t = "process"
    <3>1. /\ At(v, {"write"}) /\ ~At(v, {"create", "load"}) /\ itemList["process"][i] = Had[mName[v]][i]
          /\ \A j \in Items :
               IF itemList["process"][j] = NoItem THEN db[mName[v]][j] = Had[mName[v]][j]
                                             ELSE itemList["process"][j] = Had[mName[v]][j]
      BY <2>1, <2>2, <2>5 DEF InTable, At
    <3>2. /\ db'[mName[v]] = [db[mName[v]] EXCEPT ![i] = itemList["process"][i]]
          /\ itemList'["process"] = [itemList["process"] EXCEPT ![i] = NoItem]
      BY <2>1, <2>3, <2>5 DEF IInv, TypeOK
    <3>3. \A j \in Items :
               IF itemList'["process"][j] = NoItem THEN db'[mName[v]][j] = Had[mName[v]][j]
                                             ELSE itemList'["process"][j] = Had[mName[v]][j]
      BY <3>1, <3>2, <2>3, <2>5 DEF IInv, TypeOK, Entries
    <3> QED
      BY <2>1, <2>2, <3>1, <3>3 DEF InTable, Away, At
  <2>6. CASE user[t] = v /\ t = "sync"
    <3>1. itemList'["process"] = itemList["process"]
      BY <2>1, <2>6 DEF IInv, TypeOK
    <3>2. CASE ~Away(v)
      <4>1. ~At(v, {"name", "items", "write"})
        BY <3>2 DEF Away, LossInv, AnnouncedInv
      <4> QED
        BY <2>1, <2>2, <3>2, <4>1 DEF InTable, Away, At
    <3>3. CASE Away(v)
      <4>1. itemList["sync"][i] = Had[mName[v]][i]
        BY <2>1, <2>2, <2>3, <2>6, <3>3 DEF Fresh
      <4>2. db'[mName[v]] = [db[mName[v]] EXCEPT ![i] = Had[mName[v]][i]]
        BY <4>1, <2>1, <2>3, <2>6 DEF IInv, TypeOK
      <4>3. \A j \in Items : db'[mName[v]][j] \in {db[mName[v]][j], Had[mName[v]][j]}
        BY <4>2, <2>3, <2>6 DEF IInv, TypeOK, Entries
      <4>4. db[mName[v]] = Had[mName[v]] => db'[mName[v]] = Had[mName[v]]
        BY <4>2, <2>3, <2>6 DEF IInv, TypeOK, Entries
      <4> QED
        BY <2>1, <2>2, <3>1, <4>3, <4>4 DEF InTable, Away, At
    <3> QED
      BY <3>2, <3>3
  <2> QED
    BY <2>4, <2>5, <2>6
<1>4. ASSUME NEW t \in Threads, SaveFails(t)
      PROVE  TableInv'
  BY <1>0, <1>4 DEF IInv, TypeOK, LossInv, Named, Careful, SaveFails, Return, Fault, Goto, dbVars,
       historyVars, boughtVars, TableInv, At, InTable, Away
<1>5. ASSUME NEW t \in Threads, SaveDone(t)
      PROVE  TableInv'
  <2> SUFFICES ASSUME Careful', NEW v \in Users, mName[v] # NoName
               PROVE  InTable(v)'
    BY <1>5 DEF SaveDone, TableInv, Named
  <2>1. /\ UNCHANGED <<Had, mName, announced, tables, db, itemList>> /\ Careful
        /\ pc[t] = "write" /\ pc' = [pc EXCEPT ![t] = Return(t)]
        /\ user' = [user EXCEPT ![t] = NoUser]
        /\ userName' = [userName EXCEPT ![t] = NoName]
        /\ itemList[t] = Nothing
    BY <1>0, <1>5 DEF SaveDone, Goto, dbVars, historyVars, boughtVars, Careful
  <2>2. InTable(v) /\ mName[v] \in Players
    BY <2>1 DEF LossInv, TableInv, Named, IInv, TypeOK
  <2>3. CASE t = "sync"
    <3>1. UNCHANGED <<pc["process"], user["process"], userName["process"]>>
      BY <2>1, <2>3 DEF IInv, TypeOK
    <3> QED
      BY <2>1, <2>2, <3>1 DEF InTable, Away, At
  <2>4. CASE t = "process"
    <3>1. pc'["process"] = "idle" /\ pc["process"] = "write"
      BY <2>1, <2>4 DEF Return, IInv, TypeOK
    <3>2. At(v, {"write"}) => db[mName[v]] = Had[mName[v]]
      <4>1. ASSUME At(v, {"write"})
            PROVE  \A i \in Items : db[mName[v]][i] = Had[mName[v]][i]
        BY <2>1, <2>2, <2>4, <4>1 DEF InTable, Nothing
      <4>2. db[mName[v]] \in Entries /\ Had[mName[v]] \in [Items -> Nat \union {NoItem}]
        BY <2>2, HadType DEF IInv, TypeOK
      <4> QED
        BY <4>1, <4>2 DEF Entries
    <3> QED
      BY <2>1, <2>2, <3>1, <3>2 DEF InTable, Away, At
  <2> QED
    BY <2>3, <2>4
<1>6. ASSUME NEW u \in Users, Register(u)
      PROVE  TableInv'
  BY <1>0, <1>6 DEF IInv, TypeOK, LossInv, Named, Careful, Register, dbVars, historyVars, boughtVars,
       TableInv, At, InTable, Away
<1>7. ASSUME NEW u \in Users, Disconnect(u)
      PROVE  TableInv'
  BY <1>0, <1>7 DEF IInv, TypeOK, LossInv, Named, Careful, boughtVars, Disconnect, LateSave, Goto,
       dbVars, TableInv, At, InTable, Away
<1>8. ASSUME NEW u \in Users, NEW p \in NamesOf[u], SetName(u, p)
      PROVE  TableInv'
  <2> SUFFICES ASSUME Careful', NEW v \in Users, mName'[v] # NoName
               PROVE  InTable(v)'
    BY DEF TableInv, Named
  <2>1. /\ UNCHANGED <<Had, bought, userName, itemList, tables, db>>
        /\ mName' = [mName EXCEPT ![u] = p]
        /\ pc["process"] = "idle" /\ pc' = [pc EXCEPT !["process"] = "create"]
        /\ user' = [user EXCEPT !["process"] = u]
        /\ announced' = announced \union {u}
        /\ Careful /\ u \notin announced
    BY <1>0, <1>8 DEF boughtVars, SetName, InTime, Goto, Careful, dbVars
  <2>2. pc'["process"] = "create" /\ user'["process"] = u
    BY <2>1 DEF IInv, TypeOK
  <2>3. CASE v # u
    <3>1. mName'[v] = mName[v] /\ (v \in announced' <=> v \in announced)
      BY <2>3, <2>1 DEF IInv, TypeOK
    <3>2. InTable(v)
      BY <3>1, <2>1 DEF LossInv, TableInv, Named
    <3> QED
      BY <2>1, <2>2, <2>3, <3>1, <3>2 DEF InTable, Away, At
  <2>4. CASE v = u
    <3>1. p \in Players
      BY NamesAssumption
    <3>2. mName'[u] = p
      BY <2>1 DEF IInv, TypeOK
    <3>3. db[p] = Had[p]
      <4>1. CASE mName[u] = NoName
        <5>1. Had[p] = Nothing
          BY <4>1, <2>1 DEF LossInv, AnnouncedInv, Named
        <5>2. db[p] = Nothing
          BY <5>1, <3>1, <2>1, NothingHeld DEF IInv, TypeOK, LossInv, StockInv, OwnInv
        <5> QED
          BY <5>1, <5>2
      <4>2. CASE mName[u] # NoName
        <5>1. mName[u] = p
          BY <4>2 DEF IInv, NameInv, OnePlayerPerSlot
        <5>2. InTable(u)
          BY <4>2, <2>1 DEF LossInv, TableInv, Named
        <5> QED
          BY <5>1, <5>2, <2>1 DEF InTable, Away, At
      <4> QED
        BY <4>1, <4>2
    <3> QED
      BY <2>1, <2>2, <2>4, <3>2, <3>3 DEF InTable, At
  <2> QED
    BY <2>3, <2>4
<1>9. CASE TryCreateInventory
  BY <1>0, <1>9 DEF IInv, TypeOK, LossInv, Named, Careful, TryCreateInventory, Fault, Goto, historyVars, boughtVars,
       localVars, TableInv, At, InTable, Away, Name
<1>10. CASE LoadRows
  BY <1>0, <1>10 DEF IInv, TypeOK, LossInv, Named, Careful, LoadRows, Fault, Goto, dbVars, historyVars, boughtVars,
       TableInv, At, InTable, Away
<1>11. CASE ClearItem
  BY <1>0, <1>11 DEF IInv, TypeOK, LossInv, Named, Careful, ClearItem, Goto, dbVars, historyVars, boughtVars,
       TableInv, At, InTable, Away
<1>12. ASSUME NEW i \in Items, AddRow(i)
      PROVE  TableInv'
  BY <1>0, <1>12 DEF IInv, TypeOK, LossInv, Named, Careful, AddRow, dbVars, historyVars, boughtVars, TableInv, At,
       InTable, Away
<1>13. CASE ConnectDone
  BY <1>0, <1>13 DEF IInv, TypeOK, LossInv, Named, Careful, ConnectDone, Goto, dbVars, historyVars, boughtVars,
       TableInv, At, InTable, Away
<1>14. ASSUME NEW u \in Users, NEW i \in Items, NEW n \in Counts, Buy(u, i, n)
      PROVE  TableInv'
  <2> SUFFICES ASSUME Careful', NEW v \in Users, mName[v] # NoName
               PROVE  InTable(v)'
    BY <1>14 DEF Buy, TableInv, Named
  <2>1. UNCHANGED <<mName, pc, user, itemList, userName, announced, tables, db>> /\ pc["process"] = "idle"
    BY <1>14 DEF Buy, localVars, dbVars
  <2>2. /\ Careful /\ u \in announced /\ u \in Named
        /\ \A p \in Players \ {mName[u]} : Had'[p] = Had[p]
    BY <1>14, CarefulBuy
  <2>3. InTable(v)
    BY <2>2 DEF LossInv, TableInv, Named
  <2>4. CASE v = u
    BY <2>1, <2>2, <2>3, <2>4 DEF InTable, Away, At
  <2>5. CASE v # u
    <3>1. mName[v] # mName[u] /\ mName[v] \in Players
      BY <2>5, <2>2, OwnName DEF IInv, TypeOK, NameInv, Named
    <3>2. Had'[mName[v]] = Had[mName[v]]
      BY <3>1, <2>2
    <3> QED
      BY <3>2, <2>1, <2>2, <2>3 DEF InTable, Away, At
  <2> QED
    BY <2>4, <2>5
<1>15. CASE WakeUp
  BY <1>0, <1>15 DEF IInv, TypeOK, LossInv, Named, Careful, WakeUp, Goto, dbVars, historyVars, boughtVars, localVars,
       TableInv, At, InTable, Away
<1>16. CASE GetAllUser
  BY <1>0, <1>16 DEF IInv, TypeOK, LossInv, Named, Careful, GetAllUser, Fault, Goto, dbVars, historyVars, boughtVars,
       TableInv, At, InTable, Away
<1>17. ASSUME NEW u \in Users, PickUser(u)
      PROVE  TableInv'
  BY <1>0, <1>17 DEF IInv, TypeOK, LossInv, Named, Careful, PickUser, Goto, dbVars, historyVars, boughtVars,
       TableInv, At, InTable, Away
<1>18. CASE Sleep
  BY <1>0, <1>18 DEF IInv, TypeOK, LossInv, Named, Careful, Sleep, Goto, dbVars, historyVars, boughtVars, localVars,
       TableInv, At, InTable, Away
<1>19. CASE UNCHANGED vars
  BY <1>0, <1>19 DEF IInv, TypeOK, LossInv, Named, Careful, vars, dbVars, historyVars, boughtVars, localVars,
       TableInv, At, InTable, Away
<1> QED
  BY <1>1, <1>2, <1>3, <1>4, <1>5, <1>6, <1>7, <1>8, <1>9, <1>10, <1>11, <1>12, <1>13, <1>14,
       <1>15, <1>16, <1>17, <1>18, <1>19
     DEF Next, Requests, RunCallback, SynchronizeDB, UpdateInventoryDB, Threads

(* No step makes the other thread's copy older than the table it goes to.    *)
LEMMA FreshNext ==
  OnePlayerPerSlot /\ OneSlotPerPlayer /\ IInv /\ LossInv /\ [Next]_vars => FreshInv'
<1> SUFFICES ASSUME OnePlayerPerSlot, OneSlotPerPlayer, IInv, LossInv, [Next]_vars
             PROVE  FreshInv'
  OBVIOUS
<1>0. bought' = bought => Had' = Had
  BY DEF Had
<1>1. ASSUME NEW t \in Threads, ReadName(t)
      PROVE  FreshInv'
  BY <1>0, <1>1 DEF IInv, TypeOK, LossInv, Named, Careful, ReadName, Goto, historyVars, boughtVars, FreshInv, At,
       Away, Fresh
<1>2. ASSUME NEW t \in Threads, GetItemAll(t)
      PROVE  FreshInv'
  BY <1>0, <1>2 DEF IInv, TypeOK, LossInv, Named, Careful, GetItemAll, Goto, historyVars, boughtVars, AnnouncedInv,
       WholeInv, FreshInv, At, Whole, Away, Fresh
<1>3. ASSUME NEW t \in Threads, NEW i \in Items, WriteRow(t, i)
      PROVE  FreshInv'
  BY <1>0, <1>3 DEF IInv, TypeOK, LossInv, Named, Careful, WriteRow, InventoryUpdate, historyVars, boughtVars,
       FreshInv, At, Away, Fresh
<1>4. ASSUME NEW t \in Threads, SaveFails(t)
      PROVE  FreshInv'
  BY <1>0, <1>4 DEF IInv, TypeOK, LossInv, Named, Careful, SaveFails, Return, Fault, Goto, historyVars, boughtVars,
       FreshInv, At, Away, Fresh
<1>5. ASSUME NEW t \in Threads, SaveDone(t)
      PROVE  FreshInv'
  BY <1>0, <1>5 DEF IInv, TypeOK, LossInv, Named, Careful, SaveDone, Return, Goto, historyVars, boughtVars, FreshInv,
       At, Away, Fresh
<1>6. ASSUME NEW u \in Users, Register(u)
      PROVE  FreshInv'
  BY <1>0, <1>6 DEF IInv, TypeOK, LossInv, Named, Careful, Register, historyVars, boughtVars, localVars,
       FreshInv, At, Away, Fresh
<1>7. ASSUME NEW u \in Users, Disconnect(u)
      PROVE  FreshInv'
  BY <1>0, <1>7 DEF IInv, TypeOK, LossInv, Named, Careful, boughtVars, Disconnect, LateSave, Goto,
       FreshInv, At, Away, Fresh
<1>8. ASSUME NEW u \in Users, NEW p \in NamesOf[u], SetName(u, p)
      PROVE  FreshInv'
  <2> SUFFICES ASSUME Careful', NEW v \in Users, mName'[v] # NoName,
                      Away(v)', user'["sync"] = v, pc'["sync"] = "write",
                      userName'["sync"] # NoName, NEW i \in Items
               PROVE  (itemList["sync"][i] \in {NoItem, Had[mName[v]][i]})'
    BY DEF Fresh, FreshInv, Named
  <2>1. /\ UNCHANGED <<Had, bought, userName, itemList>>
        /\ mName' = [mName EXCEPT ![u] = p]
        /\ pc["process"] = "idle" /\ pc' = [pc EXCEPT !["process"] = "create"]
        /\ user' = [user EXCEPT !["process"] = u]
        /\ announced' = announced \union {u}
        /\ Careful /\ u \notin announced
    BY <1>0, <1>8 DEF boughtVars, SetName, InTime, Goto, Careful
  <2>2. user["sync"] = v /\ pc["sync"] = "write" /\ userName["sync"] # NoName
    BY <2>1 DEF IInv, TypeOK
  <2>3. mName[v] = userName["sync"]
    BY <2>2 DEF IInv, SaveInv
  <2>4. v \notin announced
    BY <2>1 DEF Away, At, IInv, TypeOK
  <2>5. mName'[v] = mName[v]
    BY <2>1, <2>2, <2>3 DEF IInv, TypeOK, NameInv, OnePlayerPerSlot
  <2>6. Fresh(v)
    BY <2>1, <2>2, <2>3 DEF LossInv, FreshInv, Named
  <2> QED
    BY <2>1, <2>2, <2>4, <2>5, <2>6 DEF Fresh, Away
<1>9. CASE TryCreateInventory
  BY <1>0, <1>9 DEF IInv, TypeOK, LossInv, Named, Careful, TryCreateInventory, Fault, Goto, historyVars, boughtVars,
       localVars, FreshInv, At, Away, Fresh
<1>10. CASE LoadRows
  BY <1>0, <1>10 DEF IInv, TypeOK, LossInv, Named, Careful, LoadRows, Fault, Goto, historyVars, boughtVars, FreshInv,
       At, Away, Fresh
<1>11. CASE ClearItem
  BY <1>0, <1>11 DEF IInv, TypeOK, LossInv, Named, Careful, ClearItem, Goto, historyVars, boughtVars, localVars,
       FreshInv, At, Away, Fresh
<1>12. ASSUME NEW i \in Items, AddRow(i)
      PROVE  FreshInv'
  BY <1>0, <1>12 DEF IInv, TypeOK, LossInv, Named, Careful, AddRow, historyVars, boughtVars, FreshInv, At, Away, Fresh
<1>13. CASE ConnectDone
  BY <1>0, <1>13 DEF IInv, TypeOK, LossInv, Named, Careful, ConnectDone, Goto, historyVars, boughtVars, localVars,
       FreshInv, At, Away, Fresh
<1>14. ASSUME NEW u \in Users, NEW i \in Items, NEW n \in Counts, Buy(u, i, n)
      PROVE  FreshInv'
  <2> SUFFICES ASSUME Careful', NEW v \in Users, mName[v] # NoName
               PROVE  Fresh(v)'
    BY <1>14 DEF Buy, FreshInv, Named
  <2>1. UNCHANGED <<mName, pc, user, itemList, userName, announced>> /\ pc["process"] = "idle"
    BY <1>14 DEF Buy, localVars, dbVars
  <2>2. /\ Careful /\ u \in announced /\ u \in Named
        /\ \A p \in Players \ {mName[u]} : Had'[p] = Had[p]
    BY <1>14, CarefulBuy
  <2>3. Fresh(v)
    BY <2>2 DEF LossInv, FreshInv, Named
  <2>4. CASE v = u
    BY <2>1, <2>2, <2>3, <2>4 DEF Fresh, Away, At
  <2>5. CASE v # u
    <3>1. mName[v] # mName[u] /\ mName[v] \in Players
      BY <2>5, <2>2, OwnName DEF IInv, TypeOK, NameInv, Named
    <3>2. Had'[mName[v]] = Had[mName[v]]
      BY <3>1, <2>2
    <3> QED
      BY <3>2, <2>1, <2>2, <2>3 DEF Fresh, Away, At
  <2> QED
    BY <2>4, <2>5
<1>15. CASE WakeUp
  BY <1>0, <1>15 DEF IInv, TypeOK, LossInv, Named, Careful, WakeUp, Goto, FreshInv, Fresh
<1>16. CASE GetAllUser
  BY <1>0, <1>16 DEF IInv, TypeOK, LossInv, Named, Careful, GetAllUser, Fault, Goto, FreshInv, Fresh
<1>17. ASSUME NEW u \in Users, PickUser(u)
      PROVE  FreshInv'
  BY <1>0, <1>17 DEF IInv, TypeOK, LossInv, Named, Careful, PickUser, Goto, FreshInv, Fresh
<1>18. CASE Sleep
  BY <1>0, <1>18 DEF IInv, TypeOK, LossInv, Named, Careful, Sleep, Goto, FreshInv, Fresh
<1>19. CASE UNCHANGED vars
  BY <1>0, <1>19 DEF IInv, TypeOK, LossInv, Named, Careful, vars, historyVars, boughtVars, localVars, FreshInv, At,
       Away, Fresh
<1> QED
  BY <1>1, <1>2, <1>3, <1>4, <1>5, <1>6, <1>7, <1>8, <1>9, <1>10, <1>11, <1>12, <1>13, <1>14,
       <1>15, <1>16, <1>17, <1>18, <1>19
     DEF Next, Requests, RunCallback, SynchronizeDB, UpdateInventoryDB, Threads

(* The invariant of NothingLost holds throughout.                            *)
LEMMA SpecLossInv == OnePlayerPerSlot /\ OneSlotPerPlayer /\ Spec => [](IInv /\ LossInv)
<1> SUFFICES ASSUME OnePlayerPerSlot, OneSlotPerPlayer
             PROVE  Spec => [](IInv /\ LossInv)
  OBVIOUS
<1>1. Init => LossInv
  BY DEF Init, LossInv, Named, AnnouncedInv, WholeInv, TableInv, FreshInv, At, StockInv, Positive,
     Nothing, Had
<1>2. IInv /\ LossInv /\ [Next]_vars => LossInv'
  BY StockNext, AnnouncedNext, WholeNext, TableNext, FreshNext DEF LossInv
<1> QED
  BY <1>1, <1>2, SpecIInv, PTL DEF Spec

(* Slots that serve one player and players that use one slot lose nothing,   *)
(* whatever the threads do, unless a call of the database fails, a client    *)
(* asks out of time or a late copy overlaps the save of Disconnect.          *)
THEOREM AlwaysNothingLost == OnePlayerPerSlot /\ OneSlotPerPlayer /\ Spec => []NothingLost
<1>1. IInv /\ LossInv => NothingLost
  <2> SUFFICES ASSUME IInv, LossInv, Careful, pc["process"] = "idle", NEW u \in Users,
                      mName[u] # NoName
               PROVE  /\ AllBought(inventory[u], mName[u])
                      /\ u \notin announced => AllBought(db[mName[u]], mName[u])
    BY DEF NothingLost, Careful
  <2>1. mName[u] \in Players
    BY DEF IInv, TypeOK
  <2>2. inventory[u] = Had[mName[u]]
    BY DEF LossInv, WholeInv, Named, Whole, At
  <2>3. u \notin announced => db[mName[u]] = Had[mName[u]]
    BY DEF LossInv, TableInv, Named, InTable, Away, At
  <2>4. AllBought(Had[mName[u]], mName[u])
    BY <2>1, IntAssumption DEF AllBought, Had, IInv, TypeOK
  <2> QED
    BY <2>2, <2>3, <2>4
<1> QED
  BY <1>1, SpecLossInv, PTL
=============================================================================
