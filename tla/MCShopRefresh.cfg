\* Two slots that come and go, offers of two units sold one by one, and at
\* most two offers: after the second every query fails for ever.
SPECIFICATION Spec
CONSTANTS
  Users = {0, 1}
  a = a
  n0 = n0
  n1 = n1
  Items = {a}
  DEFAULT_ITEM_COUNT = 2
  INT_MAX = 3
  NoItem = NoItem
  Counts = {1}
  Assortments <- MCAssortments
  Rows <- MCRows
  Names = {n0, n1}
  NamesOf <- MCNamesOf
  NoName = NoName
  NoPurchase = NoPurchase
  MaxLots = 2
  MaxRaised = 0
INVARIANTS
  OwnersSeeInventory
PROPERTIES
  ViewsRepaired
