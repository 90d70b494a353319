\* One slot, one player, two units of one item, no failure.
SPECIFICATION OrderlySpec
CONSTANTS
  Users = {0}
  p0 = p0
  Items = {a}
  Players = {p0}
  NamesOf <- MCNamesOf
  NoName = NoName
  INT_MAX = 2
  NoItem = NoItem
  Counts = {1}
  MaxPurchases = 2
  MaxFaults = 0
INVARIANTS
  DisconnectSavesAll
