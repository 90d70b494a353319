\* One slot, two players, one unit bought, no failure.
SPECIFICATION OrderlySpec
CONSTANTS
  Users = {0}
  p0 = p0
  p1 = p1
  Items = {a}
  Players = {p0, p1}
  NamesOf <- MCNamesOf
  NoName = NoName
  INT_MAX = 2
  NoItem = NoItem
  Counts = {1}
  MaxPurchases = 1
  MaxFaults = 0
INVARIANTS
  TablesHoldOwnItems
