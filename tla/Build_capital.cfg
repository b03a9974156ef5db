SPECIFICATION Spec
CONSTANTS
  v1 = v1 v2 = v2 p1 = p1 p2 = p2 f1 = f1 c1 = c1 c2 = c2 c3 = c3
  r1 = r1 r2 = r2 r3 = r3 r4 = r4 NoOrder = NoOrder NoSlot = NoSlot
  Villages = {v1, v2}
  Players = {p1, p2}
  Fields = {}
  Centre = {c1, c2}
  Buildings = {"main", "palace", "residence"}
  Multi = {"store"}
  Seat <- SeatAll
  Needs <- NeedsAll
  MaxLevel <- LevelAll
  CapitalFieldMax = 2
  DemolishMin = 1
  Roman = {}
  Requests = {r1, r2, r3}
  FirstSlots <- WithPalace
  FirstOwner <- AllP1
  FirstCapital = {v1}
  MaxFaults = 1
  MaxCrashes = 1
  MaxBattles = 1
INVARIANTS OneCapital PalaceIsCapital
SYMMETRY SameRequests
\* Every request has ended and every order is applied.
CHECK_DEADLOCK FALSE
