\* As MCShopRefresh, without names: one purchase that crosses one reset is enough.
SPECIFICATION OrderlySpec
CONSTANTS
  Users = {0, 1}
  a = a
  Items = {a}
  DEFAULT_ITEM_COUNT = 2
  INT_MAX = 3
  NoItem = NoItem
  Counts = {1}
  Assortments <- MCAssortments
  Rows <- MCRows
  Names = {}
  NamesOf <- MCNamesOf
  NoName = NoName
  NoPurchase = NoPurchase
  MaxLots = 2
  MaxRaised = 0
INVARIANTS
  BroadcastsRefresh
