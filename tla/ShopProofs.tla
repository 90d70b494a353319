----------------------------- MODULE ShopProofs -----------------------------
(***************************************************************************)
(* Proofs about Shop, for any set of slots, any items, names and counts    *)
(* asked for, and any interleaving of the two threads.                     *)
(***************************************************************************)
EXTENDS Shop, TLAPS

USE IntAssumption, UsersAreIndices, CountsAssumption, MaxLotsAssumption, AssortmentsAssumption,
    RowsAssumption, NamesAssumption, NoPurchaseAssumption

-----------------------------------------------------------------------------
(* Operators on lists. *)

LEMMA RemoveAtElements ==
  ASSUME NEW S, NEW s \in Seq(S), NEW k \in 1..Len(s)
  PROVE  /\ RemoveAt(s, k) \in Seq(S)
         /\ Len(RemoveAt(s, k)) = Len(s) - 1
         /\ \A j \in 1..(Len(s) - 1) :
              RemoveAt(s, k)[j] = IF j < k THEN s[j] ELSE s[j + 1]
<1> DEFINE a == SubSeq(s, 1, k - 1)
           b == SubSeq(s, k + 1, Len(s))
<1>1. /\ a \in Seq(S) /\ Len(a) = k - 1
      /\ \A j \in 1..(k - 1) : a[j] = s[j]
  OBVIOUS
<1>2. /\ b \in Seq(S) /\ Len(b) = Len(s) - k
      /\ \A j \in 1..(Len(s) - k) : b[j] = s[k + j]
  OBVIOUS
<1>3. RemoveAt(s, k) = a \o b
  BY DEF RemoveAt
<1> HIDE DEF a, b
<1>4. a \o b \in Seq(S) /\ Len(a \o b) = Len(s) - 1
  BY <1>1, <1>2
<1>5. ASSUME NEW j \in 1..(Len(s) - 1)
      PROVE  (a \o b)[j] = IF j < k THEN s[j] ELSE s[j + 1]
  <2>1. CASE j < k
    BY <1>1, <1>2, <2>1
  <2>2. CASE j >= k
    <3>1. (a \o b)[j] = b[j - (k - 1)]
      BY <1>1, <1>2, <2>2
    <3>2. b[j - (k - 1)] = s[k + (j - (k - 1))]
      BY <1>2, <2>2
    <3> QED
      BY <2>2, <3>1, <3>2
  <2>3. j < k \/ j >= k
    OBVIOUS
  <2> QED
    BY <2>1, <2>2, <2>3
<1> QED
  BY <1>3, <1>4, <1>5

(* A list sent to a client is well-formed. *)
LEMMA ListOfType == ASSUME NEW s \in Seq(Offer) PROVE ListOf(s) \in ShopList
<1>1. \A k \in 1..Len(s) : [item |-> s[k].item, count |-> s[k].count]
                             \in [item : Items, count : 1..INT_MAX]
  <2> TAKE k \in 1..Len(s)
  <2>1. s[k] \in Offer
    OBVIOUS
  <2> QED
    BY <2>1 DEF Offer
<1>2. DOMAIN s = 1..Len(s) /\ Len(s) \in Nat
  OBVIOUS
<1> QED
  BY <1>1, <1>2 DEF ListOf, ShopList

(* What is left of an offer that stays on sale has not wrapped. *)
LEMMA NoWrapStays ==
  ASSUME NEW c \in 1..INT_MAX, NEW n \in Int32, n <= c
  PROVE  /\ Wrapped(c - n) \in Int
         /\ Wrapped(c - n) > 0 => Wrapped(c - n) \in 1..INT_MAX
<1>1. c - n \in Int /\ c - n <= 2 * INT_MAX + 1 /\ c - n >= 0
  BY DEF Int32
<1>2. CASE c - n > INT_MAX
  BY <1>1, <1>2 DEF Wrapped
<1>3. CASE c - n <= INT_MAX
  BY <1>1, <1>3 DEF Wrapped
<1> QED
  BY <1>1, <1>2, <1>3

LEMMA ReduceType ==
  ASSUME mItemList \in Seq(Offer), NEW i, NEW n \in Counts, NEW k \in Offers(i, n)
  PROVE  /\ k \in 1..Len(mItemList)
         /\ mItemList[k] \in Offer
         /\ n \in Int32 /\ n <= mItemList[k].count
         /\ Wrapped(mItemList[k].count - n) \in Int
         /\ Reduce(k, n) \in Seq(Offer)
<1> DEFINE left == Wrapped(mItemList[k].count - n)
<1>1. k \in 1..Len(mItemList) /\ mItemList[k] \in Offer /\ n <= mItemList[k].count
  <2>1. k \in DOMAIN mItemList /\ mItemList[k].count >= n
    BY DEF Offers
  <2>2. k \in 1..Len(mItemList) /\ mItemList[k] \in Offer
    BY <2>1
  <2> QED
    BY <2>1, <2>2 DEF Offer, Int32
<1>2. left \in Int /\ (left > 0 => left \in 1..INT_MAX)
  <2>1. mItemList[k].count \in 1..INT_MAX /\ n \in Int32
    BY <1>1 DEF Offer
  <2> QED
    BY <1>1, <2>1, NoWrapStays
<1> HIDE DEF left
<1>3. ASSUME left <= 0
      PROVE  Reduce(k, n) \in Seq(Offer)
  BY <1>1, <1>3, RemoveAtElements DEF Reduce, left
<1>4. ASSUME left > 0
      PROVE  Reduce(k, n) \in Seq(Offer)
  <2>1. [mItemList[k] EXCEPT !.count = left] \in Offer
    BY <1>1, <1>2, <1>4 DEF Offer
  <2>2. Reduce(k, n) = [mItemList EXCEPT ![k].count = left]
    BY <1>2, <1>4 DEF Reduce, left
  <2> QED
    BY <1>1, <2>1, <2>2
<1> QED
  BY CountsAssumption, <1>1, <1>2, <1>3, <1>4 DEF left

LEMMA WrappedType ==
  ASSUME NEW a \in Int32, NEW b \in Int32
  PROVE  Wrapped(a + b) \in Int32
<1>1. /\ a + b \in Int
      /\ a + b <= 2 * INT_MAX /\ a + b >= -2 * INT_MAX - 2
  BY DEF Int32
<1>2. CASE a + b > INT_MAX
  BY <1>1, <1>2 DEF Wrapped, Int32
<1>3. CASE a + b < -INT_MAX - 1
  BY <1>1, <1>3 DEF Wrapped, Int32
<1>4. CASE a + b \in (-INT_MAX - 1)..INT_MAX
  BY <1>1, <1>4 DEF Wrapped, Int32
<1> QED
  BY <1>1, <1>2, <1>3, <1>4

LEMMA AddedType ==
  ASSUME NEW held \in Held, NEW n \in Int32
  PROVE  Added(held, n) \in Held
<1>1. CASE held = NoItem
  BY <1>1 DEF Added, Held
<1>2. CASE held # NoItem
  <2>1. Wrapped(held + n) \in Int32
    BY <1>2, WrappedType DEF Held
  <2> QED
    BY <1>2, <2>1 DEF Added, Held
<1> QED
  BY <1>1, <1>2

LEMMA AddUnits ==
  ASSUME NEW f \in [Items -> Held], NEW i \in Items, NEW n \in Int32
  PROVE  [f EXCEPT ![i] = Added(@, n)] \in [Items -> Held]
  BY AddedType

-----------------------------------------------------------------------------
(* Type correctness, with what the process thread holds while it buys. *)

Buying == pc["process"] \in {"credit", "inventory"} => purchase # NoPurchase

Inv == TypeOK /\ Buying

LEMMA InitInv == Init => Inv
<1> SUFFICES ASSUME Init PROVE Inv
  OBVIOUS
<1>1. <<>> \in Seq(Offer) /\ <<>> \in ShopList
  BY DEF ShopList
<1>2. TypeOK
  BY <1>1 DEF Init, RegistryInit, TypeOK, RegistryTypeOK, Threads, Held
<1>3. Buying
  BY DEF Init, Buying, Threads
<1> QED
  BY <1>2, <1>3 DEF Inv

LEMMA ThreadNames ==
  /\ "process" \in Threads /\ "reset" \in Threads
  /\ \A t \in Threads : t = "process" \/ t = "reset"
  BY DEF Threads

(* A thread that goes to a place of its own leaves the other where it is.  *)
LEMMA GotoPlace ==
  ASSUME TypeOK, NEW t \in Threads, NEW from, NEW to, Goto(t, from, to),
         to \in {"idle", "credit", "copy", "users", "send", "inventory", "query", "sleep"}
  PROVE  /\ pc[t] = from
         /\ pc' \in [Threads -> {"idle", "credit", "copy", "users", "send", "inventory",
                                 "query", "sleep"}]
         /\ pc'[t] = to
         /\ \A r \in Threads : r # t => pc'[r] = pc[r]
  BY DEF Goto, TypeOK

LEMMA CopyInv == ASSUME Inv, NEW t \in Threads, CopyItemList(t) PROVE Inv'
<1>1. pc' \in [Threads -> {"idle", "credit", "copy", "users", "send", "inventory", "query", "sleep"}]
      /\ pc'[t] \in {"users", "send"} /\ \A r \in Threads : r # t => pc'[r] = pc[r]
  BY GotoPlace DEF Inv, CopyItemList
<1>2. ListOf(mItemList) \in ShopList
  BY ListOfType DEF Inv, TypeOK
<1>3. senddingList' \in [Threads -> ShopList]
  BY <1>2 DEF Inv, TypeOK, CopyItemList
<1>4. TypeOK'
  BY <1>1, <1>3 DEF Inv, TypeOK, RegistryTypeOK, CopyItemList, userVars, registryVars,
                    stockVars, viewVars
<1>5. Buying'
  BY <1>1, ThreadNames DEF Inv, Buying, CopyItemList
<1> QED
  BY <1>4, <1>5 DEF Inv

LEMMA UsersInv == ASSUME Inv, NEW t \in Threads, GetAllUser(t) PROVE Inv'
<1>1. pc' \in [Threads -> {"idle", "credit", "copy", "users", "send", "inventory", "query", "sleep"}]
      /\ pc'[t] = "send" /\ \A r \in Threads : r # t => pc'[r] = pc[r]
  BY GotoPlace DEF Inv, GetAllUser
<1>2. TypeOK'
  BY <1>1 DEF Inv, TypeOK, RegistryTypeOK, GetAllUser, userVars, registryVars, stockVars, viewVars
<1>3. Buying'
  BY <1>1, ThreadNames DEF Inv, Buying, GetAllUser
<1> QED
  BY <1>2, <1>3 DEF Inv

LEMMA SendInv ==
  ASSUME Inv, NEW t \in Threads, NEW u \in Users, SendItemList(t, u)
  PROVE  Inv'
<1>1. TypeOK'
  BY DEF Inv, TypeOK, RegistryTypeOK, SendItemList, userVars, registryVars, stockVars
<1>2. Buying'
  BY DEF Inv, Buying, SendItemList
<1> QED
  BY <1>1, <1>2 DEF Inv

LEMMA FinishInv == ASSUME Inv, NEW t \in Threads, FinishSending(t) PROVE Inv'
<1>1. PICK to \in {"sleep", "inventory", "idle"} :
        Goto(t, "send", to) /\ (to = "inventory" => purchase # NoPurchase)
  BY DEF FinishSending
<1>2. pc' \in [Threads -> {"idle", "credit", "copy", "users", "send", "inventory", "query", "sleep"}]
      /\ pc'[t] = to /\ \A r \in Threads : r # t => pc'[r] = pc[r]
  BY <1>1, GotoPlace DEF Inv
<1>3. <<>> \in ShopList
  BY DEF ShopList
<1>4. TypeOK'
  BY <1>2, <1>3 DEF Inv, TypeOK, RegistryTypeOK, FinishSending, userVars, registryVars,
                    stockVars, viewVars
<1>5. Buying'
  BY <1>1, <1>2, ThreadNames DEF Inv, Buying, FinishSending
<1> QED
  BY <1>4, <1>5 DEF Inv

LEMMA BuyInv ==
  ASSUME Inv, NEW u \in Users, NEW i \in Items, NEW n \in Counts, Buy(u, i, n)
  PROVE  Inv'
<1>1. PICK k \in Offers(i, n) :
        /\ mItemList' = Reduce(k, n)
        /\ \/ /\ n # -1 /\ Goto("process", "idle", "credit")
              /\ purchase' = [user |-> u, offer |-> [mItemList[k] EXCEPT !.count = n]]
              /\ UNCHANGED raised
           \/ /\ n = -1 /\ UNCHANGED <<pc, purchase>>
              /\ raised' = [raised EXCEPT ![mItemList[k].lot] = @ + 1]
  BY DEF Buy
<1>2. UNCHANGED <<userVars, lots, sold, inventory, sendVars, viewVars>>
  BY DEF Buy
<1>3. pc' \in [Threads -> {"idle", "credit", "copy", "users", "send", "inventory", "query", "sleep"}]
  <2>1. CASE Goto("process", "idle", "credit")
    BY <2>1, GotoPlace, ThreadNames DEF Inv
  <2> QED
    BY <1>1, <2>1 DEF Inv, TypeOK
<1>4. mItemList[k] \in Offer /\ n \in Int32 /\ Reduce(k, n) \in Seq(Offer)
  BY ReduceType DEF Inv, TypeOK
<1>5. /\ raised' \in [Lots -> Nat]
      /\ purchase' = purchase \/ purchase' \in Purchase
  <2>1. mItemList[k].lot \in Lots
    BY <1>4 DEF Offer
  <2>2. [mItemList[k] EXCEPT !.count = n] \in [lot : Lots, item : Items, count : Int32]
    BY <1>4 DEF Offer
  <2>3. raised \in [Lots -> Nat]
    BY DEF Inv, TypeOK
  <2>4. raised' \in [Lots -> Nat]
    BY <1>1, <2>1, <2>3
  <2>5. \/ purchase' = purchase
        \/ purchase' = [user |-> u, offer |-> [mItemList[k] EXCEPT !.count = n]]
    BY <1>1
  <2>6. [user |-> u, offer |-> [mItemList[k] EXCEPT !.count = n]] \in Purchase
    BY <2>2 DEF Purchase
  <2> QED
    BY <2>4, <2>5, <2>6
<1>6. TypeOK'
  BY <1>1, <1>2, <1>3, <1>4, <1>5
     DEF Inv, TypeOK, RegistryTypeOK, userVars, registryVars, sendVars, viewVars
<1>7. Buying'
  <2>1. CASE n # -1
    <3>1. purchase' = [user |-> u, offer |-> [mItemList[k] EXCEPT !.count = n]]
      BY <1>1, <2>1
    <3>2. purchase' \in Purchase
      BY <1>4, <3>1 DEF Purchase, Offer
    <3> QED
      BY <3>2 DEF Buying
  <2>2. CASE n = -1
    BY <1>1, <2>2 DEF Inv, Buying
  <2> QED
    BY <2>1, <2>2
<1> QED
  BY <1>6, <1>7 DEF Inv

LEMMA CreditInv == ASSUME Inv, CreditBuyer PROVE Inv'
<1>1. pc' \in [Threads -> {"idle", "credit", "copy", "users", "send", "inventory", "query", "sleep"}]
      /\ pc["process"] = "credit" /\ pc'["process"] = "copy"
  BY GotoPlace, ThreadNames DEF Inv, CreditBuyer
<1>2. purchase \in Purchase
  BY <1>1 DEF Inv, Buying, TypeOK
<1>3. purchase.user \in Users /\ purchase.offer.item \in Items /\ purchase.offer.lot \in Lots
      /\ purchase.offer.count \in Int32
  BY <1>2 DEF Purchase
<1>4. inventory' \in [Users -> [Items -> Held]]
  <2> DEFINE x == purchase.user
             f == [inventory[x] EXCEPT ![purchase.offer.item] = Added(@, purchase.offer.count)]
  <2>1. inventory' = [inventory EXCEPT ![x] = f]
    BY DEF CreditBuyer
  <2>2. inventory \in [Users -> [Items -> Held]]
    BY DEF Inv, TypeOK
  <2>3. f \in [Items -> Held]
    <3>1. inventory[x] \in [Items -> Held]
      BY <1>3, <2>2
    <3> QED
      BY <1>3, <3>1, AddUnits
  <2> HIDE DEF x, f
  <2> QED
    BY <2>1, <2>2, <2>3
<1>5. sold' \in [Lots -> Int]
  BY <1>3 DEF Inv, TypeOK, CreditBuyer, Int32
<1>6. TypeOK'
  BY <1>1, <1>4, <1>5 DEF Inv, TypeOK, RegistryTypeOK, CreditBuyer, userVars, registryVars,
                          stockVars, sendVars, viewVars
<1>7. Buying'
  BY <1>1 DEF Buying
<1> QED
  BY <1>6, <1>7 DEF Inv

LEMMA InventoryInv == ASSUME Inv, UpdateClientInventory PROVE Inv'
<1>1. pc' \in [Threads -> {"idle", "credit", "copy", "users", "send", "inventory", "query", "sleep"}]
      /\ pc'["process"] = "idle"
  BY GotoPlace, ThreadNames DEF Inv, UpdateClientInventory
<1>2. inventoryView' \in [Users -> [Items -> Held]]
  <2>1. PICK u : inventoryView' = [inventoryView EXCEPT ![u] = inventory[u]]
    BY DEF UpdateClientInventory
  <2> QED
    BY <2>1 DEF Inv, TypeOK
<1>3. TypeOK'
  BY <1>1, <1>2 DEF Inv, TypeOK, RegistryTypeOK, UpdateClientInventory, userVars,
                    registryVars, stockVars, sendVars
<1>4. Buying'
  BY <1>1 DEF Buying
<1> QED
  BY <1>3, <1>4 DEF Inv

LEMMA AskInv == ASSUME Inv, NEW u \in Users, RequireItemList(u) PROVE Inv'
<1>1. pc' \in [Threads -> {"idle", "credit", "copy", "users", "send", "inventory", "query", "sleep"}]
      /\ pc'["process"] = "copy"
  BY GotoPlace, ThreadNames DEF Inv, RequireItemList
<1>2. TypeOK'
  BY <1>1 DEF Inv, TypeOK, RegistryTypeOK, RequireItemList, userVars, registryVars,
              stockVars, viewVars
<1>3. Buying'
  BY <1>1 DEF Buying
<1> QED
  BY <1>2, <1>3 DEF Inv

LEMMA RegistryInv ==
  ASSUME Inv, NEW u \in Users, Connect(u) \/ Disconnect(u)
  PROVE  Inv'
<1>1. RegistryTypeOK'
  <2>1. RegistryTypeOK
    BY DEF Inv, TypeOK
  <2>2. CASE Connect(u)
    BY <2>1, <2>2 DEF RegistryTypeOK, Connect, AddUser
  <2>3. CASE Disconnect(u)
    BY <2>1, <2>3 DEF RegistryTypeOK, Disconnect, DeleteUser
  <2> QED
    BY <2>2, <2>3
<1>2. UNCHANGED <<mName, stockVars, sold, inventory, pc, sendVars, purchase, viewVars>>
  BY DEF Connect, Disconnect
<1>3. TypeOK'
  BY <1>1, <1>2 DEF Inv, TypeOK, stockVars, sendVars, viewVars
<1>4. Buying'
  BY <1>2 DEF Inv, Buying
<1> QED
  BY <1>3, <1>4 DEF Inv

LEMMA NameInv ==
  ASSUME Inv, NEW u \in Users, NEW n \in NamesOf[u], NEW rows \in Rows, NotifyName(u, n, rows)
  PROVE  Inv'
<1>1. n \in Names /\ rows \in [Items -> Held]
  OBVIOUS
<1>2. TypeOK'
  BY <1>1 DEF Inv, TypeOK, RegistryTypeOK, NotifyName, registryVars, stockVars, sendVars
<1>3. Buying'
  BY DEF Inv, Buying, NotifyName
<1> QED
  BY <1>2, <1>3 DEF Inv

(* The list that a reset installs. *)
LEMMA InstalledList ==
  ASSUME TypeOK, NEW drawn \in Assortments, InstallItems(drawn)
  PROVE  /\ mItemList' \in Seq(Offer)
         /\ Len(mItemList') = Len(drawn)
         /\ lots' = lots + Len(drawn)
         /\ lots' \in 0..MaxLots
         /\ \A k \in 1..Len(drawn) :
              mItemList'[k] = [lot |-> lots + k, item |-> drawn[k], count |-> DEFAULT_ITEM_COUNT]
<1>1. drawn \in Seq(Items) /\ Len(drawn) \in Nat /\ lots \in Nat
      /\ lots + Len(drawn) <= MaxLots
  BY DEF TypeOK, InstallItems
<1> DEFINE offer(k) == [lot |-> lots + k, item |-> drawn[k], count |-> DEFAULT_ITEM_COUNT]
<1>2. mItemList' = [k \in 1..Len(drawn) |-> offer(k)] /\ lots' = lots + Len(drawn)
  BY DEF InstallItems
<1>3. ASSUME NEW k \in 1..Len(drawn)
      PROVE  offer(k) \in Offer
  <2>1. lots + k \in Lots /\ drawn[k] \in Items
    BY <1>1 DEF Lots
  <2> QED
    BY <2>1 DEF Offer
<1> HIDE DEF offer
<1>4. mItemList' \in Seq(Offer) /\ Len(mItemList') = Len(drawn)
  BY <1>1, <1>2, <1>3
<1> QED
  BY <1>1, <1>2, <1>4 DEF offer

LEMMA ResetInv ==
  ASSUME Inv, \/ \E drawn \in Assortments : InstallItems(drawn)
              \/ QueryFails
              \/ WakeUp
  PROVE  Inv'
<1>1. PICK from \in {"query", "sleep"}, to \in {"copy", "query"} : Goto("reset", from, to)
  BY DEF InstallItems, QueryFails, WakeUp
<1>2. pc' \in [Threads -> {"idle", "credit", "copy", "users", "send", "inventory", "query", "sleep"}]
      /\ pc'["process"] = pc["process"]
  BY <1>1, GotoPlace, ThreadNames DEF Inv
<1>3. mItemList' \in Seq(Offer) /\ lots' \in 0..MaxLots
  <2>1. CASE \E drawn \in Assortments : InstallItems(drawn)
    BY <2>1, InstalledList DEF Inv
  <2>2. CASE QueryFails \/ WakeUp
    BY <2>2 DEF Inv, TypeOK, QueryFails, WakeUp, stockVars
  <2> QED
    BY <2>1, <2>2
<1>4. UNCHANGED <<userVars, raised, sold, inventory, sendVars, purchase, viewVars>>
  BY DEF InstallItems, QueryFails, WakeUp, stockVars
<1>5. TypeOK'
  BY <1>2, <1>3, <1>4 DEF Inv, TypeOK, RegistryTypeOK, userVars, registryVars, sendVars, viewVars
<1>6. Buying'
  BY <1>2, <1>4 DEF Inv, Buying
<1> QED
  BY <1>5, <1>6 DEF Inv

LEMMA NextInv == Inv /\ [Next]_vars => Inv'
<1> SUFFICES ASSUME Inv, [Next]_vars PROVE Inv'
  OBVIOUS
<1>1. ASSUME NEW t \in Threads, Send(t)
      PROVE  Inv'
  BY <1>1, CopyInv, UsersInv, SendInv, FinishInv DEF Send
<1>2. CASE RunCallback
  BY <1>1, <1>2, CreditInv, InventoryInv, ThreadNames DEF RunCallback
<1>3. CASE Requests
  BY <1>3, BuyInv, AskInv, RegistryInv, NameInv DEF Requests
<1>4. CASE ResetItemUpdate
  BY <1>1, <1>4, ResetInv, ThreadNames DEF ResetItemUpdate
<1>5. CASE UNCHANGED vars
  BY <1>5 DEF Inv, TypeOK, RegistryTypeOK, Buying, vars, userVars, registryVars, stockVars,
              sendVars, viewVars
<1> QED
  BY <1>2, <1>3, <1>4, <1>5 DEF Next

LEMMA SpecInv == Spec => []Inv
  BY InitInv, NextInv, PTL DEF Spec

(* The variables of the shop keep their types. *)
THEOREM TypeCorrect == Spec => []TypeOK
<1>1. Inv => TypeOK
  BY DEF Inv
<1> QED
  BY <1>1, SpecInv, PTL

-----------------------------------------------------------------------------
(* Shop implements ShopLedger.  The offers on sale are of different lots,  *)
(* all stocked before, so that a list without one of its offers is a shelf *)
(* without that offer.                                                     *)

StockInv ==
  /\ \A j, k \in 1..Len(mItemList) : mItemList[j].lot = mItemList[k].lot => j = k
  /\ \A k \in 1..Len(mItemList) : mItemList[k].lot <= lots

(* The ledger's arithmetic is the shop's. *)
LEMMA SameArithmetic ==
  /\ Ledger!Int32 = Int32 /\ Ledger!Held = Held
  /\ \A n : Ledger!Wrapped(n) = Wrapped(n)
  /\ \A h, n : Ledger!Added(h, n) = Added(h, n)
  BY DEF Ledger!Int32, Int32, Ledger!Held, Held, Ledger!Wrapped, Wrapped, Ledger!Added, Added

(* The state of the ledger: Ledger's substitution, by name. *)
Shelf == Range(mItemList)
Owned == IF InTransit
         THEN [inventory EXCEPT ![purchase.user][purchase.offer.item] =
                 Added(@, purchase.offer.count)]
         ELSE inventory
Sold == IF InTransit
        THEN [sold EXCEPT ![purchase.offer.lot] = @ + purchase.offer.count]
        ELSE sold

LEMMA ReduceOffers ==
  ASSUME Inv, StockInv, NEW i, NEW n \in Counts, NEW k \in Offers(i, n),
         mItemList' = Reduce(k, n), lots' = lots
  PROVE  /\ Shelf' = (Shelf \ {mItemList[k]}) \union
              {f \in {[mItemList[k] EXCEPT !.count = Wrapped(mItemList[k].count - n)]} : f.count > 0}
         /\ StockInv'
<1> DEFINE e == mItemList[k]
           left == Wrapped(e.count - n)
           rest == [e EXCEPT !.count = left]
           m == Len(mItemList)
<1>1. /\ k \in 1..m /\ e \in Offer /\ left \in Int
      /\ mItemList \in Seq(Offer) /\ m \in Nat /\ DOMAIN mItemList = 1..m
  BY ReduceType DEF Inv, TypeOK
<1>2. rest.lot = e.lot /\ rest.count = left
  BY <1>1 DEF Offer
<1>3. Shelf = {mItemList[j] : j \in 1..m}
  BY <1>1 DEF Shelf, Range
<1>4. \A j \in 1..m : j # k => mItemList[j] # e /\ mItemList[j].lot # e.lot
  BY <1>1 DEF StockInv
<1>5. lots \in Nat
  BY DEF Inv, TypeOK
<1>6. CASE left <= 0
  <2>1. mItemList' = RemoveAt(mItemList, k)
    BY <1>6 DEF Reduce
  <2>2. /\ Len(mItemList') = m - 1 /\ DOMAIN mItemList' = 1..(m - 1)
        /\ \A j \in 1..(m - 1) : mItemList'[j] = IF j < k THEN mItemList[j] ELSE mItemList[j + 1]
    <3>1. /\ mItemList' \in Seq(Offer) /\ Len(mItemList') = m - 1
          /\ \A j \in 1..(m - 1) :
               mItemList'[j] = IF j < k THEN mItemList[j] ELSE mItemList[j + 1]
      <4>1. /\ RemoveAt(mItemList, k) \in Seq(Offer)
            /\ Len(RemoveAt(mItemList, k)) = m - 1
            /\ \A j \in 1..(m - 1) :
                 RemoveAt(mItemList, k)[j] = IF j < k THEN mItemList[j] ELSE mItemList[j + 1]
        <5> HIDE DEF e, left, rest
        <5> QED
          BY <1>1, RemoveAtElements
      <4> QED
        BY <2>1, <4>1
    <3>2. DOMAIN mItemList' = 1..Len(mItemList')
      BY <3>1
    <3> QED
      BY <3>1, <3>2
  <2>3. Shelf' = {mItemList'[j] : j \in 1..(m - 1)}
    BY <2>2 DEF Shelf, Range
  <2> HIDE DEF e, left, rest, m
  <2>4. ASSUME NEW f \in Shelf' PROVE f \in Shelf \ {e}
    <3>1. PICK j \in 1..(m - 1) : f = mItemList'[j]
      BY <2>3
    <3>2. PICK h \in 1..m : h # k /\ f = mItemList[h]
      <4>1. CASE j < k
        BY <1>1, <2>2, <3>1, <4>1
      <4>2. CASE ~(j < k)
        <5>1. j + 1 \in 1..m /\ j + 1 # k
          BY <1>1, <3>1, <4>2
        <5> QED
          BY <2>2, <3>1, <4>2, <5>1
      <4> QED
        BY <4>1, <4>2
    <3> QED
      BY <1>3, <1>4, <3>2
  <2>5. ASSUME NEW f \in Shelf \ {e} PROVE f \in Shelf'
    <3>1. PICK h \in 1..m : f = mItemList[h] /\ h # k
      BY <1>3 DEF e
    <3>2. CASE h < k
      <4>1. h \in 1..(m - 1)
        BY <1>1, <3>1, <3>2
      <4> QED
        BY <2>2, <2>3, <3>1, <3>2, <4>1
    <3>3. CASE ~(h < k)
      <4>1. h - 1 \in 1..(m - 1) /\ ~(h - 1 < k) /\ (h - 1) + 1 = h
        BY <1>1, <3>1, <3>3
      <4> QED
        BY <2>2, <2>3, <3>1, <4>1
    <3> QED
      BY <3>2, <3>3
  <2>6. ~(rest.count > 0)
    BY <1>1, <1>2, <1>6
  <2>7. StockInv'
    <3>1. \A j \in 1..(m - 1) : \E h \in 1..m :
             h = (IF j < k THEN j ELSE j + 1) /\ mItemList'[j] = mItemList[h]
      BY <1>1, <2>2
    <3>2. ASSUME NEW j \in 1..(m - 1), NEW l \in 1..(m - 1),
                 mItemList'[j].lot = mItemList'[l].lot
          PROVE  j = l
      <4>1. PICK h \in 1..m : h = (IF j < k THEN j ELSE j + 1) /\ mItemList'[j] = mItemList[h]
        BY <3>1
      <4>2. PICK g \in 1..m : g = (IF l < k THEN l ELSE l + 1) /\ mItemList'[l] = mItemList[g]
        BY <3>1
      <4>3. h = g
        BY <3>2, <4>1, <4>2 DEF StockInv, m
      <4> QED
        BY <1>1, <4>1, <4>2, <4>3
    <3>3. \A j \in 1..(m - 1) : mItemList'[j].lot <= lots'
      BY <3>1 DEF StockInv, m
    <3> QED
      BY <2>2, <3>2, <3>3 DEF StockInv
  <2> QED
    BY <2>4, <2>5, <2>6, <2>7 DEF left, rest, e
<1>7. CASE left > 0
  <2>1. mItemList' = [mItemList EXCEPT ![k] = rest]
    BY <1>1, <1>7 DEF Reduce
  <2>2. /\ Len(mItemList') = m /\ DOMAIN mItemList' = 1..m
        /\ mItemList'[k] = rest
        /\ \A j \in 1..m : j # k => mItemList'[j] = mItemList[j]
    BY <1>1, <2>1
  <2>3. rest.count > 0
    BY <1>2, <1>7
  <2>4. Shelf' = {mItemList'[j] : j \in 1..m}
    BY <2>2 DEF Shelf, Range
  <2> HIDE DEF left, rest, e, m
  <2>5. Shelf' = (Shelf \ {e}) \union {rest}
    <3>1. ASSUME NEW f \in Shelf' PROVE f = rest \/ f \in Shelf \ {e}
      BY <1>3, <1>4, <2>2, <2>4
    <3>2. ASSUME NEW f \in Shelf \ {e} PROVE f \in Shelf'
      BY <1>3, <2>2, <2>4 DEF e
    <3>3. rest \in Shelf'
      BY <1>1, <2>2, <2>4
    <3> QED
      BY <3>1, <3>2, <3>3
  <2>6. StockInv'
    <3>1. \A j \in 1..m : mItemList'[j].lot = mItemList[j].lot
      BY <1>2, <2>2 DEF e
    <3> QED
      BY <2>2, <3>1 DEF StockInv, m
  <2> QED
    BY <2>3, <2>5, <2>6 DEF left, rest, e
<1> QED
  BY <1>1, <1>6, <1>7

(* A reset stocks new lots only. *)
LEMMA InstallOffers ==
  ASSUME Inv, StockInv, NEW drawn \in Assortments, InstallItems(drawn)
  PROVE  /\ Shelf' \subseteq [lot : Lots \ 1..lots, item : Items, count : {DEFAULT_ITEM_COUNT}]
         /\ \A e, f \in Shelf' : e.lot = f.lot => e = f
         /\ 1..lots' = (1..lots) \union {e.lot : e \in Shelf'}
         /\ StockInv'
<1> DEFINE m == Len(drawn)
<1>1. /\ mItemList' \in Seq(Offer) /\ Len(mItemList') = m /\ DOMAIN mItemList' = 1..m
      /\ lots' = lots + m /\ lots \in Nat /\ m \in Nat /\ lots' <= MaxLots
      /\ drawn \in Seq(Items)
  BY InstalledList DEF Inv, TypeOK
<1>2. ASSUME NEW k \in 1..m
      PROVE  /\ mItemList'[k] = [lot |-> lots + k, item |-> drawn[k], count |-> DEFAULT_ITEM_COUNT]
             /\ mItemList'[k].lot = lots + k
             /\ lots + k \in Lots \ 1..lots
             /\ drawn[k] \in Items
  <2>1. mItemList'[k] = [lot |-> lots + k, item |-> drawn[k], count |-> DEFAULT_ITEM_COUNT]
    BY InstalledList DEF Inv
  <2>2. lots + k \in Lots \ 1..lots
    BY <1>1 DEF Lots
  <2>3. drawn[k] \in Items
    BY <1>1
  <2> QED
    BY <2>1, <2>2, <2>3
<1> HIDE DEF m
<1>3. Shelf' = {mItemList'[k] : k \in 1..m}
  BY <1>1 DEF Shelf, Range
<1>4. Shelf' \subseteq [lot : Lots \ 1..lots, item : Items, count : {DEFAULT_ITEM_COUNT}]
  <2>1. ASSUME NEW k \in 1..m
        PROVE  mItemList'[k] \in [lot : Lots \ 1..lots, item : Items, count : {DEFAULT_ITEM_COUNT}]
    <3>1. [lot |-> lots + k, item |-> drawn[k], count |-> DEFAULT_ITEM_COUNT]
            \in [lot : Lots \ 1..lots, item : Items, count : {DEFAULT_ITEM_COUNT}]
      BY <1>2
    <3>2. mItemList'[k] = [lot |-> lots + k, item |-> drawn[k], count |-> DEFAULT_ITEM_COUNT]
      BY <1>2
    <3> QED
      BY <3>1, <3>2
  <2> QED
    BY <1>3, <2>1
<1>5. ASSUME NEW j \in 1..m, NEW k \in 1..m, mItemList'[j].lot = mItemList'[k].lot
      PROVE  j = k
  <2>1. mItemList'[j].lot = lots + j /\ mItemList'[k].lot = lots + k
    BY <1>2
  <2>2. lots \in Nat /\ j \in Nat /\ k \in Nat
    BY <1>1
  <2>3. lots + j = lots + k
    BY ONLY <1>5, <2>1
  <2> QED
    BY ONLY <2>2, <2>3
<1>6. \A e, f \in Shelf' : e.lot = f.lot => e = f
  BY <1>3, <1>5
<1>7. ASSUME NEW l \in 1..lots', l \notin 1..lots
      PROVE  \E e \in Shelf' : e.lot = l
  <2>1. l - lots \in 1..m /\ lots + (l - lots) = l
    BY <1>1, <1>7
  <2> QED
    BY <1>2, <1>3, <2>1
<1>8. \A e \in Shelf' : e.lot \in 1..lots'
  BY <1>1, <1>2, <1>3
<1>9. 1..lots \subseteq 1..lots'
  BY <1>1
<1>10. 1..lots' = (1..lots) \union {e.lot : e \in Shelf'}
  BY <1>7, <1>8, <1>9
<1>11. StockInv'
  <2>1. \A k \in 1..m : lots + k <= lots + m
    BY <1>1
  <2>2. \A k \in 1..m : mItemList'[k].lot <= lots'
    BY <1>1, <1>2, <2>1
  <2> QED
    BY <1>1, <1>5, <2>2 DEF StockInv
<1> QED
  BY <1>4, <1>6, <1>10, <1>11

(* A step that touches neither the stock nor a purchase under way is none  *)
(* of the ledger's.                                                        *)
LEMMA QuietStep ==
  ASSUME StockInv, UNCHANGED <<mItemList, lots, raised, inventory, sold>>,
         InTransit' <=> InTransit, InTransit => UNCHANGED purchase
  PROVE  UNCHANGED Ledger!vars /\ StockInv'
<1>1. StockInv'
  BY DEF StockInv
<1>2. Shelf' = Shelf
  BY DEF Shelf
<1>3. Owned' = Owned /\ Sold' = Sold
  BY DEF Owned, Sold
<1> QED
  BY <1>1, <1>2, <1>3 DEF Ledger!vars, Shelf, Owned, Sold

(* A purchase is one of the ledger's, and the shop owes it to the buyer; a *)
(* purchase of -1 only adds to the offer.                                  *)
LEMMA BuyStep ==
  ASSUME Inv, StockInv, NEW u \in Users, NEW i \in Items, NEW n \in Counts, Buy(u, i, n)
  PROVE  Ledger!Next /\ StockInv'
<1>1. PICK k \in Offers(i, n) :
        /\ pc["process"] = "idle"
        /\ mItemList' = Reduce(k, n)
        /\ \/ /\ n # -1 /\ Goto("process", "idle", "credit")
              /\ purchase' = [user |-> u, offer |-> [mItemList[k] EXCEPT !.count = n]]
              /\ UNCHANGED raised
           \/ /\ n = -1 /\ UNCHANGED <<pc, purchase>>
              /\ raised' = [raised EXCEPT ![mItemList[k].lot] = @ + 1]
  BY DEF Buy
<1>2. UNCHANGED <<lots, sold, inventory>>
  BY DEF Buy
<1>3. PICK e : e = mItemList[k]
  OBVIOUS
<1>4. k \in 1..Len(mItemList) /\ e \in Offer /\ n <= e.count /\ mItemList \in Seq(Offer)
  BY <1>3, ReduceType DEF Inv, TypeOK
<1>5. e \in Shelf
  BY <1>3, <1>4 DEF Shelf, Range
<1>6. Ledger!Take(e, n) /\ StockInv'
  <2>1. /\ Shelf' = (Shelf \ {e}) \union
             {f \in {[e EXCEPT !.count = Wrapped(e.count - n)]} : f.count > 0}
        /\ StockInv'
    BY <1>1, <1>2, <1>3, ReduceOffers
  <2> QED
    BY <2>1, SameArithmetic DEF Ledger!Take, Shelf
<1>7. CASE n # -1
  <2>1. ~InTransit /\ InTransit'
    BY <1>1, <1>7, GotoPlace, ThreadNames DEF Inv, InTransit
  <2>2. /\ purchase'.user = u /\ purchase'.offer.item = e.item
        /\ purchase'.offer.lot = e.lot /\ purchase'.offer.count = n
    BY <1>1, <1>3, <1>4, <1>7 DEF Offer
  <2>3. Owned = inventory /\ Owned' = [inventory EXCEPT ![u][e.item] = Added(@, n)]
    BY <1>2, <2>1, <2>2 DEF Owned
  <2>4. Sold = sold /\ Sold' = [sold EXCEPT ![e.lot] = @ + n]
    BY <1>2, <2>1, <2>2 DEF Sold
  <2>5. Ledger!Purchase(u, e, n)
    <3>1. Owned' = [Owned EXCEPT ![u][e.item] = Ledger!Added(@, n)]
      BY <2>3, SameArithmetic
    <3>2. Sold' = [Sold EXCEPT ![e.lot] = @ + n] /\ UNCHANGED <<lots, raised>>
      BY <1>1, <1>2, <1>7, <2>4
    <3> QED
      BY ONLY <1>6, <3>1, <3>2 DEF Ledger!Purchase, Owned, Sold
  <2>6. n \in Ledger!Enough(e) \ {-1}
    BY <1>4, <1>7 DEF Ledger!Enough
  <2> QED
    BY <1>5, <1>6, <2>5, <2>6 DEF Ledger!Next, Shelf
<1>8. CASE n = -1
  <2>1. ~InTransit /\ ~InTransit'
    BY <1>1, <1>8 DEF InTransit
  <2>2. Owned' = Owned /\ Sold' = Sold
    BY <1>2, <2>1 DEF Owned, Sold
  <2>3. Ledger!Raise(e)
    <3>1. raised' = [raised EXCEPT ![e.lot] = @ + 1] /\ UNCHANGED lots
      BY <1>1, <1>2, <1>3, <1>8
    <3>2. Ledger!Take(e, -1)
      BY <1>6, <1>8
    <3> QED
      BY ONLY <2>2, <3>1, <3>2 DEF Ledger!Raise, Owned, Sold
  <2> QED
    BY <1>5, <1>6, <1>8, <2>3 DEF Ledger!Next, Shelf
<1> QED
  BY <1>6, <1>7, <1>8

(* What was owed to the buyer is now in its inventory. *)
LEMMA CreditStep ==
  ASSUME Inv, StockInv, CreditBuyer
  PROVE  UNCHANGED Ledger!vars /\ StockInv'
<1>1. InTransit /\ ~InTransit'
  BY GotoPlace, ThreadNames DEF Inv, CreditBuyer, InTransit
<1>2. Owned' = Owned /\ Sold' = Sold
  BY <1>1 DEF Owned, Sold, CreditBuyer
<1>3. Shelf' = Shelf /\ lots' = lots /\ raised' = raised /\ StockInv'
  BY DEF Shelf, StockInv, CreditBuyer, stockVars
<1> QED
  BY <1>2, <1>3 DEF Ledger!vars, Shelf, Owned, Sold

LEMMA LoadStep ==
  ASSUME Inv, StockInv, NEW u \in Users, NEW n \in NamesOf[u], NEW rows \in Rows,
         NotifyName(u, n, rows)
  PROVE  Ledger!Next /\ StockInv'
<1>1. ~InTransit /\ ~InTransit'
  BY DEF NotifyName, InTransit
<1>2. /\ inventory' \in [Users -> [Items -> Held]]
      /\ \A v \in Users \ {u} : inventory'[v] = inventory[v]
  BY DEF Inv, TypeOK, NotifyName
<1>3. UNCHANGED <<mItemList, lots, raised, sold>>
  BY DEF NotifyName, stockVars
<1>4. Owned = inventory /\ Owned' = inventory' /\ Sold' = Sold
  BY <1>1, <1>3 DEF Owned, Sold
<1>5. Shelf' = Shelf /\ StockInv'
  BY <1>3 DEF Shelf, StockInv
<1>6. /\ Owned' \in [Users -> [Items -> Held]]
      /\ \A v \in Users \ {u} : Owned'[v] = Owned[v]
  BY <1>2, <1>4
<1>7. Shelf' = Shelf /\ (1..lots)' = 1..lots /\ Sold' = Sold /\ raised' = raised
  BY <1>3, <1>4, <1>5
<1>8. Ledger!Load(u)
  BY ONLY <1>6, <1>7, SameArithmetic DEF Ledger!Load, Shelf, Owned, Sold
<1> QED
  BY <1>5, <1>8 DEF Ledger!Next

LEMMA InstallStep ==
  ASSUME Inv, StockInv, NEW drawn \in Assortments, InstallItems(drawn)
  PROVE  Ledger!Next /\ StockInv'
<1>1. InTransit' <=> InTransit
  BY GotoPlace, ThreadNames DEF Inv, InstallItems, InTransit
<1>2. UNCHANGED <<raised, inventory, sold, purchase>>
  BY DEF InstallItems
<1>3. Owned' = Owned /\ Sold' = Sold
  BY <1>1, <1>2 DEF Owned, Sold
<1>4. /\ Shelf' \subseteq [lot : Lots \ 1..lots, item : Items, count : {DEFAULT_ITEM_COUNT}]
      /\ \A e, f \in Shelf' : e.lot = f.lot => e = f
      /\ 1..lots' = (1..lots) \union {e.lot : e \in Shelf'}
      /\ StockInv'
  BY InstallOffers
<1>5. Ledger!Restock
  BY <1>2, <1>3, <1>4 DEF Ledger!Restock, Shelf, Owned, Sold
<1> QED
  BY <1>4, <1>5 DEF Ledger!Next

(* The other steps of a thread. *)
LEMMA SendStep ==
  ASSUME Inv, StockInv, NEW t \in Threads, Send(t)
  PROVE  UNCHANGED Ledger!vars /\ StockInv'
<1>1. UNCHANGED <<mItemList, lots, raised, inventory, sold, purchase>>
  BY DEF Send, CopyItemList, GetAllUser, SendItemList, FinishSending, stockVars
<1>2. CASE \E u \in Users : SendItemList(t, u)
  <2>1. pc' = pc
    BY <1>2 DEF SendItemList
  <2> QED
    BY <1>1, <2>1, QuietStep DEF InTransit
<1>3. CASE CopyItemList(t) \/ GetAllUser(t) \/ FinishSending(t)
  <2>1. PICK from \in {"copy", "users", "send"},
             to \in {"users", "send", "sleep", "inventory", "idle"} : Goto(t, from, to)
    BY <1>3 DEF CopyItemList, GetAllUser, FinishSending
  <2>2. pc[t] # "credit" /\ pc'[t] # "credit" /\ \A r \in Threads : r # t => pc'[r] = pc[r]
    BY <2>1, GotoPlace DEF Inv
  <2>3. InTransit' <=> InTransit
    BY <2>2, ThreadNames DEF InTransit
  <2> QED
    BY <1>1, <2>3, QuietStep
<1> QED
  BY <1>2, <1>3 DEF Send

LEMMA OtherSteps ==
  ASSUME Inv, StockInv,
         \/ UpdateClientInventory \/ QueryFails \/ WakeUp
         \/ \E u \in Users : RequireItemList(u) \/ Connect(u) \/ Disconnect(u)
         \/ UNCHANGED vars
  PROVE  UNCHANGED Ledger!vars /\ StockInv'
<1>1. UNCHANGED <<mItemList, lots, raised, inventory, sold>>
  BY DEF UpdateClientInventory, QueryFails, WakeUp, RequireItemList, Connect, Disconnect, vars,
         stockVars
<1>2. CASE UpdateClientInventory \/ \E u \in Users : RequireItemList(u)
  <2>1. ~InTransit /\ ~InTransit'
    BY <1>2, GotoPlace, ThreadNames DEF Inv, InTransit, UpdateClientInventory, RequireItemList
  <2> QED
    BY <1>1, <2>1, QuietStep
<1>3. CASE QueryFails \/ WakeUp
  <2>1. (InTransit' <=> InTransit) /\ UNCHANGED purchase
    BY <1>3, GotoPlace, ThreadNames DEF Inv, InTransit, QueryFails, WakeUp
  <2> QED
    BY <1>1, <2>1, QuietStep
<1>4. CASE (\E u \in Users : Connect(u) \/ Disconnect(u)) \/ UNCHANGED vars
  <2>1. (InTransit' <=> InTransit) /\ UNCHANGED purchase
    BY <1>4 DEF InTransit, Connect, Disconnect, vars
  <2> QED
    BY <1>1, <2>1, QuietStep
<1> QED
  BY <1>2, <1>3, <1>4

LEMMA InitLedger == Init => Ledger!Init /\ StockInv
<1> SUFFICES ASSUME Init PROVE Ledger!Init /\ StockInv
  OBVIOUS
<1>1. mItemList = <<>> /\ lots = 0 /\ ~InTransit
  BY ThreadNames DEF Init, InTransit
<1>2. Range(mItemList) = {} /\ 1..lots = {} /\ StockInv
  BY <1>1 DEF Range, StockInv
<1> QED
  BY <1>1, <1>2 DEF Init, Ledger!Init

LEMMA NextLedger == Inv /\ StockInv /\ [Next]_vars => [Ledger!Next]_(Ledger!vars) /\ StockInv'
<1> SUFFICES ASSUME Inv, StockInv, [Next]_vars
             PROVE  (Ledger!Next \/ UNCHANGED Ledger!vars) /\ StockInv'
  OBVIOUS
<1>1. CASE RunCallback
  BY <1>1, CreditStep, SendStep, OtherSteps, ThreadNames DEF RunCallback
<1>2. CASE Requests
  BY <1>2, BuyStep, LoadStep, OtherSteps DEF Requests
<1>3. CASE ResetItemUpdate
  BY <1>3, InstallStep, SendStep, OtherSteps, ThreadNames DEF ResetItemUpdate
<1>4. CASE UNCHANGED vars
  BY <1>4, OtherSteps
<1> QED
  BY <1>1, <1>2, <1>3, <1>4 DEF Next

(* Buy is atomic for whoever looks at the books: although mResetMutex is   *)
(* released before AddItemCount and a reset or a broadcast may come        *)
(* between the two, every behaviour of the shop is one of the ledger.      *)
THEOREM PurchasesAlwaysAtomic == Spec => PurchasesAreAtomic
BY SpecInv, InitLedger, NextLedger, PTL DEF Spec, PurchasesAreAtomic, Ledger!Spec

(* No lot of the shop ever sells more units than were put on sale, and     *)
(* none is lost, whatever the slots, items, assortments and counts: any int *)
(* may be asked for.                                                       *)
Books == INSTANCE ShopLedgerProofs WITH
  FullCount <- DEFAULT_ITEM_COUNT,
  shelf     <- Range(mItemList),
  used      <- 1..lots,
  owned     <- IF InTransit
               THEN [inventory EXCEPT ![purchase.user][purchase.offer.item] =
                       Added(@, purchase.offer.count)]
               ELSE inventory,
  sold      <- IF InTransit
               THEN [sold EXCEPT ![purchase.offer.lot] = @ + purchase.offer.count]
               ELSE sold

THEOREM LotsAlwaysBalance == Spec => []LotsBalance
<1>1. Ledger!Init => Books!Init
  BY DEF Ledger!Init, Books!Init
<1>2. [Ledger!Next]_(Ledger!vars) => [Books!Next]_(Books!vars)
  BY DEF Ledger!Next, Books!Next, Ledger!vars, Books!vars, Ledger!Restock, Books!Restock,
         Ledger!Purchase, Books!Purchase, Ledger!Raise, Books!Raise, Ledger!Take, Books!Take,
         Ledger!Enough, Books!Enough, Ledger!Load, Books!Load, Ledger!Held, Books!Held,
         Ledger!Int32, Books!Int32, Ledger!Added, Books!Added, Ledger!Wrapped, Books!Wrapped
<1>3. Books!Balanced => Ledger!Balanced
  BY DEF Books!Balanced, Ledger!Balanced
<1>4. Books!CountsAreInts
  BY DEF Books!CountsAreInts, Books!Int32, Int32
<1>5. Books!CountsAreInts /\ Books!Spec => []Books!Balanced
  BY IntAssumption, Books!LedgerAlwaysBalanced DEF Books!Int32, Int32
<1> QED
  BY <1>1, <1>2, <1>3, <1>4, <1>5, PurchasesAlwaysAtomic, PTL
     DEF PurchasesAreAtomic, LotsBalance, Ledger!Spec, Books!Spec

-----------------------------------------------------------------------------
(* What the owner of an inventory sees.  UpdateClientInventory looks the   *)
(* buyer up by name, so this needs that no two slots get the same name.    *)

NamesAreUnique == \A u, v \in Users : u # v => NamesOf[u] \cap NamesOf[v] = {}

(* The only view that may be out of date is that of the buyer whose        *)
(* purchase is under way.                                                  *)
OwnerInv ==
  /\ \A u \in Users : mName[u] # NoName => mName[u] \in NamesOf[u]
  /\ pc["process"] = "idle" => purchase = NoPurchase
  /\ \A u \in Users :
       mName[u] # NoName /\ (purchase # NoPurchase => u # purchase.user)
         => inventoryView[u] = inventory[u]

(* A step of either thread while it sends a list. *)
LEMMA SendOwner == ASSUME Inv, OwnerInv, NEW t \in Threads, Send(t) PROVE OwnerInv'
<1>1. UNCHANGED <<mName, inventory, inventoryView, purchase>>
  BY DEF Send, CopyItemList, GetAllUser, SendItemList, FinishSending, userVars, viewVars
<1>2. pc'["process"] = "idle" => purchase' = NoPurchase
  <2>1. CASE \E u \in Users : SendItemList(t, u)
    BY <1>1, <2>1 DEF OwnerInv, SendItemList
  <2>2. CASE CopyItemList(t) \/ GetAllUser(t) \/ FinishSending(t)
    <3>1. PICK from \in {"copy", "users", "send"},
               to \in {"users", "send", "sleep", "inventory", "idle"} :
            Goto(t, from, to) /\ (to = "idle" => purchase = NoPurchase)
      BY <2>2 DEF CopyItemList, GetAllUser, FinishSending
    <3>2. pc'[t] = to /\ \A r \in Threads : r # t => pc'[r] = pc[r]
      BY <3>1, GotoPlace DEF Inv
    <3> QED
      BY <1>1, <3>1, <3>2, ThreadNames DEF OwnerInv
  <2> QED
    BY <2>1, <2>2 DEF Send
<1> QED
  BY <1>1, <1>2 DEF OwnerInv

(* Only the buyer's inventory changes while a purchase is under way. *)
LEMMA CreditOwner == ASSUME Inv, OwnerInv, CreditBuyer PROVE OwnerInv'
<1>1. pc["process"] = "credit" /\ pc'["process"] = "copy"
  BY GotoPlace, ThreadNames DEF Inv, CreditBuyer
<1>2. purchase # NoPurchase
  BY <1>1 DEF Inv, Buying
<1>3. UNCHANGED <<mName, inventoryView, purchase>>
  BY DEF CreditBuyer, userVars, viewVars
<1>4. \A u \in Users : u # purchase.user => inventory'[u] = inventory[u]
  BY DEF Inv, TypeOK, CreditBuyer
<1> QED
  BY <1>1, <1>2, <1>3, <1>4 DEF OwnerInv

(* A name that only the buyer's slot has leads back to the buyer. *)
LEMMA InventoryOwner ==
  ASSUME NamesAreUnique, Inv, OwnerInv, UpdateClientInventory
  PROVE  OwnerInv'
<1> DEFINE b == purchase.user
           u == GetUserByName(mName[b])
<1>1. pc["process"] = "inventory"
  BY GotoPlace, ThreadNames DEF Inv, UpdateClientInventory
<1>2. purchase # NoPurchase /\ b \in Users
  BY <1>1 DEF Inv, Buying, TypeOK, Purchase
<1>3. /\ inventoryView' = [inventoryView EXCEPT ![u] = inventory[u]]
      /\ purchase' = NoPurchase /\ mName' = mName /\ inventory' = inventory
  BY DEF UpdateClientInventory, userVars
<1>4. mName[b] # NoName => u = b
  <2> SUFFICES ASSUME mName[b] # NoName PROVE u = b
    OBVIOUS
  <2>1. \A v \in Users : mName[v] = mName[b] => v = b
    BY <1>2 DEF OwnerInv, NamesAreUnique
  <2>2. \A k \in Nat : k <= k
    OBVIOUS
  <2>3. b \in Nat
    BY <1>2, UsersAreIndices
  <2> QED
    BY <1>2, <2>1, <2>2, <2>3 DEF GetUserByName
<1> HIDE DEF u, b
<1>5. ASSUME NEW v \in Users, mName[v] # NoName
      PROVE  inventoryView'[v] = inventory[v]
  <2>1. CASE v = u
    BY <1>3, <2>1 DEF Inv, TypeOK
  <2>2. CASE v # u
    <3>1. v # b
      BY <1>4, <1>5, <2>2
    <3>2. inventoryView[v] = inventory[v]
      BY <1>5, <3>1 DEF OwnerInv, b
    <3> QED
      BY <1>3, <2>2, <3>2 DEF Inv, TypeOK
  <2> QED
    BY <2>1, <2>2
<1> QED
  BY <1>3, <1>5 DEF OwnerInv

(* A callback that begins finds no purchase under way. *)
LEMMA RequestOwner == ASSUME Inv, OwnerInv, Requests PROVE OwnerInv'
<1>1. ASSUME NEW u \in Users, NEW i \in Items, NEW n \in Counts, Buy(u, i, n)
      PROVE  OwnerInv'
  <2>1. UNCHANGED <<mName, inventory, inventoryView>> /\ pc["process"] = "idle"
    BY <1>1 DEF Buy, userVars, viewVars
  <2>2. CASE n # -1
    <3>1. pc'["process"] = "credit"
      BY <1>1, <2>2, GotoPlace, ThreadNames DEF Inv, Buy
    <3> QED
      BY <2>1, <3>1 DEF OwnerInv
  <2>3. CASE n = -1
    <3>1. UNCHANGED <<pc, purchase>>
      BY <1>1, <2>3 DEF Buy
    <3> QED
      BY <2>1, <3>1 DEF OwnerInv
  <2> QED
    BY <2>2, <2>3
<1>2. ASSUME NEW u \in Users, RequireItemList(u)
      PROVE  OwnerInv'
  <2>1. pc'["process"] = "copy"
    BY <1>2, GotoPlace, ThreadNames DEF Inv, RequireItemList
  <2> QED
    BY <1>2, <2>1 DEF OwnerInv, RequireItemList, userVars, viewVars
<1>3. ASSUME NEW u \in Users, Connect(u) \/ Disconnect(u)
      PROVE  OwnerInv'
  BY <1>3 DEF OwnerInv, Connect, Disconnect, viewVars
<1>4. ASSUME NEW u \in Users, NEW n \in NamesOf[u], NEW rows \in Rows, NotifyName(u, n, rows)
      PROVE  OwnerInv'
  BY <1>4 DEF OwnerInv, Inv, TypeOK, NotifyName
<1> QED
  BY <1>1, <1>2, <1>3, <1>4 DEF Requests

(* Every step keeps the views of named users up to date. *)
LEMMA NextOwner == ASSUME NamesAreUnique, Inv, OwnerInv, [Next]_vars PROVE OwnerInv'
<1>1. CASE RunCallback
  BY <1>1, CreditOwner, SendOwner, InventoryOwner, ThreadNames DEF RunCallback
<1>2. CASE Requests
  BY <1>2, RequestOwner
<1>3. CASE Send("reset")
  BY <1>3, SendOwner, ThreadNames
<1>4. CASE (\E drawn \in Assortments : InstallItems(drawn)) \/ QueryFails \/ WakeUp
  <2>1. PICK from \in {"query", "sleep"}, to \in {"copy", "query"} : Goto("reset", from, to)
    BY <1>4 DEF InstallItems, QueryFails, WakeUp
  <2>2. pc'["process"] = pc["process"]
    BY <2>1, GotoPlace, ThreadNames DEF Inv
  <2>3. UNCHANGED <<mName, inventory, inventoryView, purchase>>
    BY <1>4 DEF InstallItems, QueryFails, WakeUp, userVars, viewVars
  <2> QED
    BY <2>2, <2>3 DEF OwnerInv
<1>5. CASE UNCHANGED vars
  BY <1>5 DEF vars, userVars, viewVars, OwnerInv
<1> QED
  BY <1>1, <1>2, <1>3, <1>4, <1>5 DEF Next, ResetItemUpdate

(* Between two callbacks every named user has been sent the inventory that *)
(* the server holds for it, as long as no two slots get the same name.     *)
THEOREM OwnersAlwaysSee == NamesAreUnique /\ Spec => []OwnersSeeInventory
<1> SUFFICES ASSUME NamesAreUnique
             PROVE  Spec => []OwnersSeeInventory
  OBVIOUS
<1>1. Init => OwnerInv
  BY DEF Init, OwnerInv, Threads
<1>2. Inv /\ OwnerInv /\ [Next]_vars => OwnerInv'
  BY NextOwner
<1>3. OwnerInv => OwnersSeeInventory
  BY DEF OwnerInv, OwnersSeeInventory
<1> QED
  BY <1>1, <1>2, <1>3, SpecInv, PTL DEF Spec
=============================================================================
