SPECIFICATION CommerceSpec
CONSTANTS
  o1 = o1 o2 = o2
  train = train loot = loot trade = trade raid = raid cull = cull quest = quest
  NoJob = NoJob
  Cost <- CostAll
  Kind <- KindAll
  Due <- DueAll
  Goods <- GoodsAll
  Reward <- RewardAll
  Orders = {o1, o2}
  Jobs = {train, loot, trade, raid}
  Rewards = {}
  Initial = 2
  Capacity = 4
  Hidden = 1
  Rate = 1
  Second = 1
  Hour = 1
  MaxClock = 4
  MaxTries = 2
  MaxCrashes = 0
  v1 = v1 v2 = v2
  Towns = {v1, v2}
  Shippers = {r1, r2}
  Wagons = {w1, w2}
  Traders = {i1, i2}
  Carry = 1
  MerchantsOf <- PerLevel
  Road = 1
  Loads = {1}
  Toll = 2
  FirstMarket <- OneMarket
  FirstStore <- Stock
  MaxMoment = 2
  MaxReads = 2
  MaxCharges = 2
  MaxMishaps = 1
  NoLeg = NoLeg NotAsked = NotAsked Served = Served AtRest = AtRest
INVARIANTS TypesOK ProducedOnce GoodsAccounted
PROPERTIES ActsAtomically MerchantsHeld MerchantsReturn
\* Every request has ended, every row is done and time is up.
CHECK_DEADLOCK FALSE
