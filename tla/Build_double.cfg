SPECIFICATION Spec
CONSTANTS
  v1 = v1 v2 = v2 p1 = p1 p2 = p2 f1 = f1 c1 = c1 c2 = c2 c3 = c3
  r1 = r1 r2 = r2 r3 = r3 r4 = r4 NoOrder = NoOrder NoSlot = NoSlot
  Villages = {v1}
  Players = {p1}
  Fields = {f1}
  Centre = {c1, c2}
  Buildings = {"main", "palace", "residence", "store"}
  Multi = {"store"}
  Seat <- SeatAll
  Needs <- NeedsAll
  MaxLevel <- LevelAll
  CapitalFieldMax = 2
  DemolishMin = 1
  Roman = {}
  Requests = {r1, r2}
  FirstSlots <- MainOnly
  FirstOwner <- AllP1
  FirstCapital = {v1}
  MaxFaults = 0
  MaxCrashes = 0
  MaxBattles = 0
PROPERTIES OneStep
\* Every request has ended and every order is applied.
CHECK_DEADLOCK FALSE
