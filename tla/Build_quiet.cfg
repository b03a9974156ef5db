SPECIFICATION FairQuietSpec
CONSTANTS
  v1 = v1 v2 = v2 p1 = p1 p2 = p2 f1 = f1 c1 = c1 c2 = c2 c3 = c3
  r1 = r1 r2 = r2 r3 = r3 r4 = r4 NoOrder = NoOrder NoSlot = NoSlot
  Villages = {v1}
  Players = {p1, p2}
  Fields = {f1}
  Centre = {c1, c2, c3}
  Buildings = {"main", "palace", "residence"}
  Multi = {"store"}
  Seat <- SeatAll
  Needs <- NeedsAll
  MaxLevel <- SeatOne
  CapitalFieldMax = 2
  DemolishMin = 1
  Roman = {v1}
  Requests = {r1, r2, r3}
  FirstSlots <- MainOnly
  FirstOwner <- AllP1
  FirstCapital = {}
  MaxFaults = 0
  MaxCrashes = 1
  MaxBattles = 1
INVARIANTS LaneHeldOnce Exclusive OrdersOfOwner
PROPERTIES OneStep OrdersFinish
\* Every request has ended and every order is applied.
CHECK_DEADLOCK FALSE
