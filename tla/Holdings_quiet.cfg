SPECIFICATION HoldingsSpec
CONSTANTS
  spear = spear
  horse = horse
  Units = {spear, horse}
  Eats <- Rations
  Rank <- Roster
  Trained = spear
  BatchSize = 2
  PerUnit = 1
  Cost = 1
  Load = 2
  Capacity = 2
  Bases = {1, 2}
  FirstBase = 2
  FirstCrop = 2
  FirstGarrison <- OneSpear
  MaxTroops = 2
  MaxClock = 2
  MaxOrders = 2
  MaxEvents = 1
  MaxCrashes = 1
  NoCheck = NoCheck
  NoBatch = NoBatch
  Idle = Idle
  h1 = h1 h2 = h2
  Homes = {h1, h2}
  Springs = {s1}
  Parties = {m1, m2}
  Instances = {w1, w2}
  Seeded = 2
  RegrowStep = 1
  RegrowDays = 1
  Walk = 1
  FirstMen <- Raised
  FirstOutpost <- RoomForOne
  FirstFields <- WildOrHeld
  Capacities = {0, 1}
  MaxDay = 2
  MaxSent = 2
  MaxMishaps = 1
  Nowhere = Nowhere
  NoParty = NoParty
  NoAsk = NoAsk
  Resting = Resting
INVARIANTS TypesOK  FieldAccounted
PROPERTIES CulledOnlyInNeed FedInTheEnd WithinOutpost FieldSettles
CHECK_DEADLOCK FALSE
