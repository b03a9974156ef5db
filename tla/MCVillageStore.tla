--------------------------- MODULE MCVillageStore ---------------------------
(* Small villages for TLC.  Jobs are named by their queue; amounts are small  *)
(* enough that a lost or doubled write changes what an order can afford.      *)
EXTENDS VillageStore

CONSTANTS o1, o2, train, loot, trade, raid, cull, quest

JobSet == {train, loot, trade, raid, cull}
KindAll == [j \in Jobs |-> CASE j = train -> "train" [] j = loot -> "loot"
                             [] j = trade -> "trade" [] j = raid -> "raid"
                             [] OTHER -> "cull"]
DueAll == [j \in Jobs |-> CASE j = train -> 2 [] j = loot -> 1
                            [] j = trade -> 2 [] j = raid -> 2 [] OTHER -> 1]
GoodsAll == [j \in Jobs |-> 2]
CostAll == [o \in Orders |-> IF o = o1 THEN 1 ELSE 2]
Starving == -1
RewardAll == [r \in Rewards |-> 2]
=============================================================================
