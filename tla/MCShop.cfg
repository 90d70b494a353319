\* One slot, one item in offers of two units that -1 may raise to three (the
\* greatest int), at most two offers ever: a reset can replace an offer that is
\* partly sold, or put two offers of one item on sale.
SPECIFICATION Spec
CONSTANTS
  Users = {0}
  a = a
  n0 = n0
  Items = {a}
  DEFAULT_ITEM_COUNT = 2
  INT_MAX = 3
  NoItem = NoItem
  Counts <- MCCounts
  Assortments <- MCAssortments
  Rows <- MCRows
  Names = {n0}
  NamesOf <- MCNamesOf
  NoName = NoName
  NoPurchase = NoPurchase
  MaxLots = 2
  MaxRaised = 1
INVARIANTS
  TypeOK
  LotsBalance
PROPERTIES
  PurchasesAreAtomic
