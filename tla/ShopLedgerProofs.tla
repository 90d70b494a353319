-------------------------- MODULE ShopLedgerProofs --------------------------
(***************************************************************************)
(* Proofs about the abstract shop, for any number of units in a lot and    *)
(* any counts asked for, those below one included.                         *)
(***************************************************************************)
EXTENDS ShopLedger, TLAPS

USE IntAssumption

CountsAreInts == FullCount \in 1..INT_MAX /\ Counts \subseteq Int32

(* Balanced alone is not inductive: two offers of one lot would both be    *)
(* charged for one purchase, and a lot put on sale twice would start with  *)
(* units sold.                                                             *)
LedgerInv ==
  /\ CountsAreInts
  /\ shelf \subseteq Offer
  /\ sold \in [Lots -> Int]
  /\ raised \in [Lots -> Nat]
  /\ \A e, f \in shelf : e.lot = f.lot => e = f
  /\ \A e \in shelf : e.lot \in used
  /\ \A l \in Lots \ used : sold[l] = 0 /\ raised[l] = 0
  /\ Balanced

LEMMA InitLedger == CountsAreInts /\ Init => LedgerInv
  BY DEF Init, LedgerInv, Balanced, CountsAreInts

(* What is left of an offer that stays on the shelf has not wrapped.       *)
LEMMA NoWrapStays ==
  ASSUME NEW c \in 1..INT_MAX, NEW n \in Int32, n <= c, Wrapped(c - n) > 0
  PROVE  Wrapped(c - n) = c - n /\ c - n \in 1..INT_MAX
<1>1. c - n \in Int /\ c - n <= 2 * INT_MAX + 1 /\ c - n >= 0
  BY DEF Int32
<1>2. CASE c - n > INT_MAX
  BY <1>1, <1>2 DEF Wrapped
<1>3. CASE c - n <= INT_MAX
  BY <1>1, <1>3 DEF Wrapped
<1> QED
  BY <1>1, <1>2, <1>3

(* An offer charged with n units is the same lot with n units less, or it  *)
(* is gone; the others stay.                                               *)
LEMMA TakeLedger ==
  ASSUME LedgerInv, NEW e \in shelf, NEW n \in Int32, n <= e.count, Take(e, n)
  PROVE  /\ \A f \in shelf' : \/ f \in shelf /\ f.lot # e.lot
                              \/ f.lot = e.lot /\ f.count = e.count - n /\ f \in Offer
         /\ \A f, g \in shelf' : f.lot = g.lot => f = g
<1>1. /\ e \in Offer /\ e.lot \in Lots /\ e.item \in Items /\ e.count \in 1..INT_MAX
  BY DEF LedgerInv, Offer
<1> DEFINE rest == [e EXCEPT !.count = Wrapped(e.count - n)]
<1>2. /\ rest.lot = e.lot /\ rest.count = Wrapped(e.count - n)
      /\ rest.count > 0 => rest \in Offer /\ rest.count = e.count - n
  <2>1. rest.lot = e.lot /\ rest.count = Wrapped(e.count - n)
    BY <1>1 DEF Offer
  <2>2. ASSUME rest.count > 0
        PROVE  Wrapped(e.count - n) = e.count - n /\ e.count - n \in 1..INT_MAX
    BY <1>1, <2>1, <2>2, NoWrapStays
  <2> QED
    BY <1>1, <2>1, <2>2 DEF Offer
<1>3. \A f \in shelf' : (f \in shelf /\ f.lot # e.lot) \/ (f = rest /\ f.count > 0)
  BY DEF Take, LedgerInv
<1> HIDE DEF rest
<1> QED
  BY <1>2, <1>3 DEF LedgerInv

LEMMA RestockLedger == ASSUME LedgerInv, Restock PROVE LedgerInv'
<1>1. /\ shelf' \subseteq [lot : Lots \ used, item : Items, count : {FullCount}]
      /\ \A e, f \in shelf' : e.lot = f.lot => e = f
      /\ used' = used \union {e.lot : e \in shelf'}
      /\ sold' = sold /\ raised' = raised
  BY DEF Restock
<1>2. ASSUME NEW e \in shelf'
      PROVE  /\ e.lot \in Lots \ used /\ e.count = FullCount
             /\ e \in [lot : Lots, item : Items, count : {FullCount}]
  BY <1>1
<1>3. \A e \in shelf' : e.count + sold'[e.lot] = FullCount + raised'[e.lot]
  BY <1>1, <1>2 DEF LedgerInv, CountsAreInts
<1>4. shelf' \subseteq Offer
  BY <1>1 DEF LedgerInv, Offer, CountsAreInts
<1>5. \A e \in shelf' : e.lot \in used'
  BY <1>1
<1>6. \A l \in Lots \ used' : sold'[l] = 0 /\ raised'[l] = 0
  BY <1>1 DEF LedgerInv
<1> QED
  BY <1>1, <1>3, <1>4, <1>5, <1>6 DEF LedgerInv, Balanced, CountsAreInts

(* A step that charges an offer with the units it books keeps the books.   *)
LEMMA BookLedger ==
  ASSUME LedgerInv, NEW e \in shelf, NEW n \in Int32, n <= e.count, Take(e, n), used' = used,
         sold' \in [Lots -> Int], raised' \in [Lots -> Nat],
         \A l \in Lots : l # e.lot => sold'[l] = sold[l] /\ raised'[l] = raised[l],
         sold'[e.lot] - raised'[e.lot] = sold[e.lot] - raised[e.lot] + n
  PROVE  LedgerInv'
<1>1. /\ e \in Offer /\ e.lot \in Lots /\ e.count \in 1..INT_MAX /\ FullCount \in Nat
      /\ sold[e.lot] \in Int /\ raised[e.lot] \in Nat
      /\ sold'[e.lot] \in Int /\ raised'[e.lot] \in Nat
  BY DEF LedgerInv, CountsAreInts, Offer
<1>2. /\ \A f \in shelf' : \/ f \in shelf /\ f.lot # e.lot
                           \/ f.lot = e.lot /\ f.count = e.count - n /\ f \in Offer
      /\ \A f, g \in shelf' : f.lot = g.lot => f = g
  BY TakeLedger
<1>3. e.count + sold[e.lot] = FullCount + raised[e.lot]
  BY DEF LedgerInv, Balanced
<1>4. shelf' \subseteq Offer
  BY <1>2 DEF LedgerInv
<1>5. \A f \in shelf' : f.lot \in used'
  BY <1>2 DEF LedgerInv
<1>6. \A l \in Lots \ used' : sold'[l] = 0 /\ raised'[l] = 0
  BY DEF LedgerInv
<1>7. n \in Int /\ e.count \in Int
  BY <1>1 DEF Int32
<1>8. ASSUME NEW f \in shelf'
      PROVE  f.count + sold'[f.lot] = FullCount + raised'[f.lot]
  <2>1. CASE f \in shelf /\ f.lot # e.lot
    BY <2>1 DEF LedgerInv, Balanced, Offer
  <2>2. CASE f.lot = e.lot /\ f.count = e.count - n
    BY <1>1, <1>3, <1>7, <2>2
  <2> QED
    BY <1>2, <2>1, <2>2
<1>9. ASSUME NEW l \in Lots
      PROVE  sold'[l] <= FullCount + raised'[l]
  <2>1. CASE l = e.lot
    BY <1>1, <1>3, <1>7, <2>1
  <2>2. CASE l # e.lot
    BY <2>2 DEF LedgerInv, Balanced
  <2> QED
    BY <2>1, <2>2
<1> QED
  BY <1>2, <1>4, <1>5, <1>6, <1>8, <1>9 DEF LedgerInv, Balanced, CountsAreInts

LEMMA PurchaseLedger ==
  ASSUME LedgerInv, NEW u \in Users, NEW e \in shelf, NEW n \in Enough(e), Purchase(u, e, n)
  PROVE  LedgerInv'
<1>1. n \in Int32 /\ n <= e.count /\ Take(e, n) /\ used' = used
  BY DEF Enough, LedgerInv, CountsAreInts, Purchase
<1>2. e.lot \in Lots /\ n \in Int
  BY <1>1 DEF LedgerInv, Offer, Int32
<1>3. /\ sold' \in [Lots -> Int] /\ raised' \in [Lots -> Nat]
      /\ \A l \in Lots : l # e.lot => sold'[l] = sold[l] /\ raised'[l] = raised[l]
      /\ sold'[e.lot] = sold[e.lot] + n /\ raised'[e.lot] = raised[e.lot]
      /\ sold[e.lot] \in Int /\ raised[e.lot] \in Nat
  BY <1>2 DEF Purchase, LedgerInv
<1>4. sold'[e.lot] - raised'[e.lot] = sold[e.lot] - raised[e.lot] + n
  BY <1>2, <1>3
<1> QED
  BY <1>1, <1>3, <1>4, BookLedger

LEMMA RaiseLedger ==
  ASSUME LedgerInv, -1 \in Counts, NEW e \in shelf, Raise(e)
  PROVE  LedgerInv'
<1>1. -1 \in Int32 /\ Take(e, -1) /\ used' = used
  BY DEF LedgerInv, CountsAreInts, Raise
<1>2. e.lot \in Lots /\ -1 <= e.count
  BY DEF LedgerInv, Offer
<1>3. /\ sold' \in [Lots -> Int] /\ raised' \in [Lots -> Nat]
      /\ \A l \in Lots : l # e.lot => sold'[l] = sold[l] /\ raised'[l] = raised[l]
      /\ sold'[e.lot] = sold[e.lot] /\ raised'[e.lot] = raised[e.lot] + 1
      /\ sold[e.lot] \in Int /\ raised[e.lot] \in Nat
  BY <1>2 DEF Raise, LedgerInv
<1>4. sold'[e.lot] - raised'[e.lot] = sold[e.lot] - raised[e.lot] + (-1)
  BY <1>3
<1> QED
  BY <1>1, <1>2, <1>3, <1>4, BookLedger

LEMMA NextLedger == LedgerInv /\ [Next]_vars => LedgerInv'
<1> SUFFICES ASSUME LedgerInv, [Next]_vars PROVE LedgerInv'
  OBVIOUS
<1>1. CASE Restock
  BY <1>1, RestockLedger
<1>2. CASE \E e \in shelf : \E u \in Users, n \in Enough(e) \ {-1} : Purchase(u, e, n)
  BY <1>2, PurchaseLedger
<1>3. CASE \E e \in shelf : -1 \in Counts /\ Raise(e)
  BY <1>3, RaiseLedger
<1>4. CASE UNCHANGED <<shelf, used, sold, raised>>
  BY <1>4 DEF LedgerInv, Balanced, CountsAreInts
<1> QED
  BY <1>1, <1>2, <1>3, <1>4 DEF Next, Load, vars

(* The books balance in every behaviour of the abstract shop, whatever     *)
(* counts it is asked for.                                                 *)
THEOREM LedgerAlwaysBalanced == CountsAreInts /\ Spec => []Balanced
<1>1. LedgerInv => Balanced
  BY DEF LedgerInv
<1> QED
  BY InitLedger, NextLedger, <1>1, PTL DEF Spec
=============================================================================
