\* Two slots with one player each, one item, two units bought and one database
\* failure: a unit bought while another is being saved, and a save that fails.
SPECIFICATION Spec
CONSTANTS
  Users = {0, 1}
  p0 = p0
  p1 = p1
  Items = {a}
  Players = {p0, p1}
  NamesOf <- MCNamesOf
  NoName = NoName
  INT_MAX = 2
  NoItem = NoItem
  Counts <- MCCounts
  MaxPurchases = 2
  MaxFaults = 1
INVARIANTS
  TypeOK
  OnlyBoughtItems
  NothingLost
PROPERTIES
  EventuallySaved
