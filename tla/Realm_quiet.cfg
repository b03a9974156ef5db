SPECIFICATION FairQuietSpec
CONSTANTS
  v1 = v1 v2 = v2 v3 = v3 v4 = v4 p1 = p1 p2 = p2 m1 = m1 m2 = m2
  Players = {p1, p2}
  Villages = {v1, v2, v3, v4}
  Capitals = {v1, v2}
  Rows = {m1, m2}
  Orders <- ToOrder
  Levels = {0, 1}
  RateOf <- CultureRate
  Threshold <- Steps
  SlotsAt <- OneSlot
  Gift = 2
  FirstOwner <- Settled3
  FirstSeat <- Seats
  MaxClock = 2
  MaxGifts = 1
  MaxCrashes = 1
  Nobody = Nobody NoRow = NoRow NoHand = NoHand
 
PROPERTIES GrowsWithinSlots SettlersArrive
CHECK_DEADLOCK FALSE
