SPECIFICATION Spec
CONSTANTS
  o1 = o1 o2 = o2
  train = train loot = loot trade = trade raid = raid cull = cull quest = quest
  NoJob = NoJob
  Cost <- CostAll
  Kind <- KindAll
  Due <- DueAll
  Goods <- GoodsAll
  Reward <- RewardAll
  Orders = {o1}
  Jobs = {}
  Rewards = {quest}
  Initial = 2
  Capacity = 4
  Hidden = 1
  Rate = 1
  Second = 1
  Hour = 1
  MaxClock = 3
  MaxTries = 2
  MaxCrashes = 0
PROPERTIES NoLostUpdate
\* Every request has ended, every row is done and time is up.
CHECK_DEADLOCK FALSE
