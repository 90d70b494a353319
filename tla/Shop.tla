-------------------------------- MODULE Shop --------------------------------
(***************************************************************************)
(* RShop (RShop.h, RShop.cpp) with the part of User and of UserManager it  *)
(* works on.  Two threads share it: the process thread of PacketManager,   *)
(* which runs one callback at a time, and the reset thread, which replaces *)
(* the item list every RESET_INTERVAL_SEC.  mResetMutex protects the list  *)
(* while it is searched, copied or replaced, and nothing else: what is     *)
(* sent was copied before, and the two threads send to the same clients.   *)
(*                                                                         *)
(* The rows of the database are arbitrary here; Inventory models them.     *)
(***************************************************************************)
EXTENDS UserManager, User, SequencesExt

CONSTANTS Items,                \* item ids
          DEFAULT_ITEM_COUNT,   \* units of an item that a reset offers
          Counts,               \* reqShopBuy.count: any int may be asked for
          Assortments,          \* item lists that a reset may draw
          Rows,                 \* inventories that the database may hold
          Names,                \* names of players
          NamesOf,              \* the names that clients of a slot announce
          NoName,               \* the empty name of a slot never used
          NoPurchase,           \* no call of Buy is in progress
          MaxLots,              \* bound: offers ever put on sale
          MaxRaised             \* bound: purchases of -1 from one lot

ASSUME UsersAreIndices == Users \subseteq Nat
ASSUME CountsAssumption == Counts \subseteq Int32 /\ DEFAULT_ITEM_COUNT \in 1..INT_MAX
ASSUME MaxLotsAssumption == MaxLots \in Nat
ASSUME AssortmentsAssumption == Assortments \subseteq Seq(Items)
ASSUME RowsAssumption == Rows \subseteq [Items -> Held]
ASSUME NamesAssumption == NamesOf \in [Users -> SUBSET Names] /\ NoName \notin Names

VARIABLES mItemList,    \* the offers on sale, each with the lot it is from
          lots,         \* history: number of lots stocked so far
          sold,         \* history: units of each lot credited to buyers
          raised,       \* history: purchases of -1 from each lot
          mName,        \* User::mName of each slot
          inventory,    \* User::mItemList of each slot
          pc,           \* where each thread is
          senddingList, \* the copy of the list that a thread is sending
          recipients,   \* the users that a thread has still to send it to
          purchase,     \* Buy: who buys, and the offer with the count bought
          shopView,     \* the list last handed to each slot's socket
          inventoryView \* the inventory last handed to each slot's socket

stockVars == <<mItemList, lots, raised>>
userVars == <<registryVars, mName>>
sendVars == <<senddingList, recipients>>
viewVars == <<shopView, inventoryView>>
vars == <<userVars, stockVars, sold, inventory, pc, sendVars, purchase, viewVars>>

-----------------------------------------------------------------------------
Threads == {"process", "reset"}
Lots == 1..MaxLots
Offer == [lot : Lots, item : Items, count : 1..INT_MAX]
Purchase == [user : Users, offer : [lot : Lots, item : Items, count : Int32]]

ASSUME NoPurchaseAssumption == NoPurchase \notin Purchase

(* A list as a client sees it. *)
ListOf(offers) == [k \in DOMAIN offers |-> [item |-> offers[k].item, count |-> offers[k].count]]
ShopList == Seq([item : Items, count : 1..INT_MAX])

TypeOK ==
  /\ RegistryTypeOK
  /\ mItemList \in Seq(Offer)
  /\ lots \in 0..MaxLots
  /\ sold \in [Lots -> Int]
  /\ raised \in [Lots -> Nat]
  /\ mName \in [Users -> Names \union {NoName}]
  /\ inventory \in [Users -> [Items -> Held]]
  /\ pc \in [Threads -> {"idle", "credit", "copy", "users", "send", "inventory", "query", "sleep"}]
  /\ senddingList \in [Threads -> ShopList]
  /\ recipients \in [Threads -> SUBSET Users]
  /\ purchase \in Purchase \union {NoPurchase}
  /\ shopView \in [Users -> ShopList]
  /\ inventoryView \in [Users -> [Items -> Held]]

(* Nothing is on sale until the first query of the reset thread. *)
Init ==
  /\ RegistryInit
  /\ mItemList = <<>>
  /\ lots = 0
  /\ sold = [l \in Lots |-> 0]
  /\ raised = [l \in Lots |-> 0]
  /\ mName = [u \in Users |-> NoName]
  /\ inventory = [u \in Users |-> [i \in Items |-> NoItem]]
  /\ pc = [t \in Threads |-> IF t = "reset" THEN "query" ELSE "idle"]
  /\ senddingList = [t \in Threads |-> <<>>]
  /\ recipients = [t \in Threads |-> {}]
  /\ purchase = NoPurchase
  /\ shopView = [u \in Users |-> <<>>]
  /\ inventoryView = [u \in Users |-> [i \in Items |-> NoItem]]

Goto(t, from, to) == pc[t] = from /\ pc' = [pc EXCEPT ![t] = to]

-----------------------------------------------------------------------------
(* SendCurrentShopItemList, called by both threads. *)

(* The list is copied under mResetMutex. *)
CopyItemList(t) ==
  /\ Goto(t, "copy", IF recipients[t] = {} THEN "users" ELSE "send")
  /\ senddingList' = [senddingList EXCEPT ![t] = ListOf(mItemList)]
  /\ UNCHANGED <<userVars, stockVars, sold, inventory, recipients, purchase, viewVars>>

(* BroadcastPacket asks UserManager for the registered users. *)
GetAllUser(t) ==
  /\ Goto(t, "users", "send")
  /\ recipients' = [recipients EXCEPT ![t] = mUserIDDictionary]
  /\ UNCHANGED <<userVars, stockVars, sold, inventory, senddingList, purchase, viewVars>>

(* One SendPacketFunc: the socket's queue keeps the order of these calls.  *)
SendItemList(t, u) ==
  /\ pc[t] = "send"
  /\ u \in recipients[t]
  /\ recipients' = [recipients EXCEPT ![t] = @ \ {u}]
  /\ shopView' = [shopView EXCEPT ![u] = senddingList[t]]
  /\ UNCHANGED <<userVars, stockVars, sold, inventory, pc, senddingList, purchase,
                 inventoryView>>

(* The end of SendCurrentShopItemList: a reset sleeps, a purchase goes on, *)
(* and a client that asked for the list has been answered.  The copy is    *)
(* freed.                                                                  *)
FinishSending(t) ==
  /\ recipients[t] = {}
  /\ Goto(t, "send", CASE t = "reset"            -> "sleep"
                       [] purchase # NoPurchase  -> "inventory"
                       [] OTHER                  -> "idle")
  /\ senddingList' = [senddingList EXCEPT ![t] = <<>>]
  /\ UNCHANGED <<userVars, stockVars, sold, inventory, recipients, purchase, viewVars>>

Send(t) == \/ CopyItemList(t)
           \/ GetAllUser(t)
           \/ \E u \in Users : SendItemList(t, u)
           \/ FinishSending(t)

-----------------------------------------------------------------------------
(* Callbacks that the process thread starts when it is idle. *)

(* Mutant: the units left are not compared with the units asked for. *)
OffersOfItem(i, n) == {k \in DOMAIN mItemList : mItemList[k].item = i}

(* The offers that can serve a request for n units of item i. *)
Offers(i, n) == {k \in DOMAIN mItemList : mItemList[k].item = i /\ mItemList[k].count >= n}

(* Mutant: an offer with nothing left stays. *)
ReduceKeepsEmpty(k, n) ==
  LET left == Wrapped(mItemList[k].count - n)
  IN  IF left < 0 THEN RemoveAt(mItemList, k)
      ELSE [mItemList EXCEPT ![k].count = left]

(* The list after n units of its k-th offer went: an offer with nothing    *)
(* left, or with more than an int can hold, goes too.                      *)
Reduce(k, n) == LET left == Wrapped(mItemList[k].count - n)
                IN  IF left <= 0 THEN RemoveAt(mItemList, k)
                    ELSE [mItemList EXCEPT ![k].count = left]

(* Mutant: the count of the offer itself is bought (RShop.cpp 93 missing). *)
BuyWholeOffer(u, i, n) ==
  \E k \in Offers(i, n) :
    /\ \A j \in Offers(i, n) : k <= j
    /\ n # -1
    /\ Goto("process", "idle", "credit")
    /\ mItemList' = Reduce(k, n)
    /\ purchase' = [user |-> u, offer |-> mItemList[k]]
    /\ UNCHANGED <<userVars, lots, raised, sold, inventory, sendVars, viewVars>>

(* Buy up to the end of its critical section: the first offer that can     *)
(* serve the request.  When there is none Buy returns and nothing changes. *)
(* A count of -1 looks like none: Buy returns, but the offer has grown.    *)
Buy(u, i, n) ==
  \E k \in Offers(i, n) :
    /\ \A j \in Offers(i, n) : k <= j
    /\ pc["process"] = "idle"
    /\ mItemList' = Reduce(k, n)
    /\ \/ /\ n # -1
          /\ Goto("process", "idle", "credit")
          /\ purchase' = [user |-> u, offer |-> [mItemList[k] EXCEPT !.count = n]]
          /\ UNCHANGED raised
       \/ /\ n = -1
          /\ raised[mItemList[k].lot] < MaxRaised
          /\ raised' = [raised EXCEPT ![mItemList[k].lot] = @ + 1]
          /\ UNCHANGED <<pc, purchase>>
    /\ UNCHANGED <<userVars, lots, sold, inventory, sendVars, viewVars>>

(* GetUserByName: the first slot of the pool with that name, registered or *)
(* not.                                                                    *)
GetUserByName(n) ==
  CHOOSE u \in Users : mName[u] = n /\ \A v \in Users : mName[v] = n => u <= v

(* AddItemCount on the user of the requesting slot. *)
CreditBuyer ==
  LET u == purchase.user
      o == purchase.offer
  IN  /\ Goto("process", "credit", "copy")
      /\ inventory' = [inventory EXCEPT ![u][o.item] = Added(@, o.count)]
      /\ sold' = [sold EXCEPT ![o.lot] = @ + o.count]
      /\ UNCHANGED <<userVars, stockVars, sendVars, purchase, viewVars>>

(* UpdateClientInventory finds the buyer again by name and sends to the    *)
(* slot of the user it finds.                                              *)
UpdateClientInventory ==
  LET u == GetUserByName(mName[purchase.user])
  IN  /\ Goto("process", "inventory", "idle")
      /\ inventoryView' = [inventoryView EXCEPT ![u] = inventory[u]]
      /\ purchase' = NoPurchase
      /\ UNCHANGED <<userVars, stockVars, sold, inventory, sendVars, shopView>>

RequireItemList(u) ==
  /\ Goto("process", "idle", "copy")
  /\ recipients' = [recipients EXCEPT !["process"] = {u}]
  /\ UNCHANGED <<userVars, stockVars, sold, inventory, senddingList, purchase, viewVars>>

(* RConnection::Connect and Disconnect: the registry.  The slot keeps the  *)
(* name and the items of its last user.                                    *)
Connect(u) == /\ pc["process"] = "idle"
              /\ u \notin mUserIDDictionary
              /\ AddUser(u)
              /\ UNCHANGED <<mName, stockVars, sold, inventory, pc, sendVars, purchase, viewVars>>

Disconnect(u) == /\ pc["process"] = "idle"
                 /\ u \in mUserIDDictionary
                 /\ DeleteUser(u)
                 /\ UNCHANGED <<mName, stockVars, sold, inventory, pc, sendVars, purchase, viewVars>>

(* Mutant: ClearItem is not called before the items are added. *)
NotifyNameNoClear(u, n, rows) ==
  /\ pc["process"] = "idle"
  /\ mName' = [mName EXCEPT ![u] = n]
  /\ inventory' = [inventory EXCEPT ![u] = [i \in Items |-> IF rows[i] = NoItem THEN @[i] ELSE Added(@[i], rows[i])]]
  /\ inventoryView' = [inventoryView EXCEPT ![u] = rows]
  /\ UNCHANGED <<registryVars, stockVars, sold, pc, sendVars, purchase, shopView>>

(* RIenventory::Connect: the user gets the announced name and the          *)
(* inventory stored under it, which is sent to the slot.                   *)
NotifyName(u, n, rows) ==
  /\ pc["process"] = "idle"
  /\ mName' = [mName EXCEPT ![u] = n]
  /\ inventory' = [inventory EXCEPT ![u] = rows]
  /\ inventoryView' = [inventoryView EXCEPT ![u] = rows]
  /\ UNCHANGED <<registryVars, stockVars, sold, pc, sendVars, purchase, shopView>>

-----------------------------------------------------------------------------
(* ResetItem and the loop of the reset thread.                             *)

(* The list drawn replaces the list on sale. *)
InstallItems(drawn) ==
  /\ lots + Len(drawn) <= MaxLots
  /\ Goto("reset", "query", "copy")
  /\ mItemList' = [k \in 1..Len(drawn) |->
                     [lot |-> lots + k, item |-> drawn[k], count |-> DEFAULT_ITEM_COUNT]]
  /\ lots' = lots + Len(drawn)
  /\ UNCHANGED <<userVars, raised, sold, inventory, sendVars, purchase, viewVars>>

(* Mutant: the exception handler skips the broadcast. *)
QueryFailsSilently ==
  /\ Goto("reset", "query", "sleep")
  /\ UNCHANGED <<userVars, stockVars, sold, inventory, sendVars, purchase, viewVars>>

(* The exception handler: the old list stays on sale and is sent again.    *)
QueryFails ==
  /\ Goto("reset", "query", "copy")
  /\ UNCHANGED <<userVars, stockVars, sold, inventory, sendVars, purchase, viewVars>>

WakeUp ==
  /\ Goto("reset", "sleep", "query")
  /\ UNCHANGED <<userVars, stockVars, sold, inventory, sendVars, purchase, viewVars>>

ResetItemUpdate == \/ \E drawn \in Assortments : InstallItems(drawn)
                   \/ QueryFails
                   \/ Send("reset")
                   \/ WakeUp

(* The rest of a callback that the process thread has begun. *)
RunCallback == CreditBuyer \/ Send("process") \/ UpdateClientInventory

Requests == \E u \in Users :
               \/ \E i \in Items, n \in Counts : Buy(u, i, n)
               \/ RequireItemList(u)
               \/ Connect(u)
               \/ Disconnect(u)
               \/ \E n \in NamesOf[u], rows \in Rows : NotifyName(u, n, rows)

Next == Requests \/ RunCallback \/ ResetItemUpdate

(* Both threads keep running: neither waits for anything but mResetMutex,  *)
(* which is never held across a step.  Requests may stop coming.           *)
Spec == Init /\ [][Next]_vars /\ WF_vars(RunCallback) /\ WF_vars(ResetItemUpdate)

(* The common case, in which the runs that refute a claim are told: every  *)
(* request is handled while its client is registered.  (Spec also has the  *)
(* requests that a client left in the queue when it disconnected.)         *)
Orderly ==
  /\ pc["process"] = "idle" /\ purchase' # NoPurchase
       => purchase'.user \in mUserIDDictionary
  /\ \A u \in Users \ mUserIDDictionary : mName'[u] = mName[u]

OrderlySpec == Init /\ [][Next /\ Orderly]_vars

-----------------------------------------------------------------------------
(* Properties *)

(* Units taken from the list and not yet added to the buyer's inventory.   *)
InTransit == pc["process"] = "credit"

Ledger == INSTANCE ShopLedger WITH
  FullCount <- DEFAULT_ITEM_COUNT,
  shelf     <- Range(mItemList),
  used      <- 1..lots,
  owned     <- IF InTransit
               THEN [inventory EXCEPT ![purchase.user][purchase.offer.item] =
                       Added(@, purchase.offer.count)]
               ELSE inventory,
  sold      <- IF InTransit
               THEN [sold EXCEPT ![purchase.offer.lot] = @ + purchase.offer.count]
               ELSE sold

(* Whatever counts are asked for, every purchase is one indivisible        *)
(* exchange between the list and the buyer's inventory, although the list  *)
(* is unlocked before the inventory is written and a reset may replace the *)
(* list between the two.  A count of -1 is no purchase: it only adds to    *)
(* the offer.                                                              *)
PurchasesAreAtomic == Ledger!Spec

(* No reset and no race sells more of a lot than was put on sale, and none *)
(* of it is lost: what the offer has left and what was credited, counts    *)
(* below zero taken off, are DEFAULT_ITEM_COUNT units, and one more for    *)
(* each purchase of -1.                                                    *)
LotsBalance == Ledger!Balanced

(* Between two callbacks a named user has been sent the inventory that the *)
(* server holds for it.  It is true as long as no two slots of the pool    *)
(* have the same name.                                                     *)
OwnersSeeInventory ==
  pc["process"] = "idle" =>
    \A u \in Users : mName[u] # NoName => inventoryView[u] = inventory[u]

(* The shop view of a user that stays is repaired again and again, also    *)
(* when the two threads' broadcasts crossed and when every later query of  *)
(* the database fails.                                                     *)
ViewsRepaired ==
  \A u \in Users : <>[](u \in mUserIDDictionary) => []<>(shopView[u] = ListOf(mItemList))
=============================================================================
