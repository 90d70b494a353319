\* One player, two slots: it leaves slot 0 and comes back in slot 1.
SPECIFICATION OrderlySpec
CONSTANTS
  Users = {0, 1}
  a = a
  n0 = n0
  Items = {a}
  DEFAULT_ITEM_COUNT = 2
  INT_MAX = 3
  NoItem = NoItem
  Counts = {1}
  Assortments <- MCAssortments
  Rows <- MCRows
  Names = {n0}
  NamesOf <- MCNamesOf
  NoName = NoName
  NoPurchase = NoPurchase
  MaxLots = 1
  MaxRaised = 0
INVARIANTS
  PurchaseReachesBuyer
