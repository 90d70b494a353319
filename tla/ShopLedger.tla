----------------------------- MODULE ShopLedger -----------------------------
(***************************************************************************)
(* What the shop does, with no thread and no message: a purchase is ONE    *)
(* event that takes units from an offer on the shelf and credits them to   *)
(* the buyer.  An offer is a lot of FullCount units of one item that a     *)
(* reset put on the shelf; a reset clears the shelf and stocks new lots.   *)
(* The counts of purchases are any that the shop is asked for: below zero, *)
(* units go from the buyer to the offer, and -1 credits nobody.            *)
(* Shop implements this module (its property PurchasesAreAtomic).          *)
(***************************************************************************)
EXTENDS User

CONSTANTS Users, Items,
          Counts,         \* units that a purchase may ask for
          Lots,           \* identities of the lots ever stocked
          FullCount       \* units of a new lot

VARIABLES shelf,          \* the offers on sale
          used,           \* the lots stocked so far
          owned,          \* the items of each user
          sold,           \* units of each lot that purchases credited
          raised          \* purchases of -1 from each lot

vars == <<shelf, used, owned, sold, raised>>

Offer == [lot : Lots, item : Items, count : 1..INT_MAX]

Init == /\ shelf = {}
        /\ used = {}
        /\ owned = [u \in Users |-> [i \in Items |-> NoItem]]
        /\ sold = [l \in Lots |-> 0]
        /\ raised = [l \in Lots |-> 0]

Restock == /\ shelf' \in SUBSET [lot : Lots \ used, item : Items, count : {FullCount}]
           /\ \A e, f \in shelf' : e.lot = f.lot => e = f
           /\ used' = used \union {e.lot : e \in shelf'}
           /\ UNCHANGED <<owned, sold, raised>>

(* An offer with nothing left, or more than an int, leaves the shelf. *)
Take(e, n) == shelf' = (shelf \ {e}) \union
                {f \in {[e EXCEPT !.count = Wrapped(e.count - n)]} : f.count > 0}

Purchase(u, e, n) ==
  /\ Take(e, n)
  /\ owned' = [owned EXCEPT ![u][e.item] = Added(@, n)]
  /\ sold' = [sold EXCEPT ![e.lot] = @ + n]
  /\ UNCHANGED <<used, raised>>

Raise(e) == /\ Take(e, -1)
            /\ raised' = [raised EXCEPT ![e.lot] = @ + 1]
            /\ UNCHANGED <<used, owned, sold>>

(* The inventory stored under the name that u announces replaces u's own.  *)
Load(u) == /\ owned' \in [Users -> [Items -> Held]]
           /\ \A v \in Users \ {u} : owned'[v] = owned[v]
           /\ UNCHANGED <<shelf, used, sold, raised>>

Enough(e) == {n \in Counts : n <= e.count}

Next == \/ Restock
        \/ \E e \in shelf :
              \/ \E u \in Users, n \in Enough(e) \ {-1} : Purchase(u, e, n)
              \/ -1 \in Counts /\ Raise(e)
        \/ \E u \in Users : Load(u)

Spec == Init /\ [][Next]_vars

(* The books balance: what is left of an offer on the shelf and what was   *)
(* sold of it make the lot with what raised it, and no lot sells more.     *)
Balanced == /\ \A e \in shelf : e.count + sold[e.lot] = FullCount + raised[e.lot]
            /\ \A l \in Lots : sold[l] <= FullCount + raised[l]
=============================================================================
