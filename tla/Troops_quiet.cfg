SPECIFICATION FairQuietSpec
CONSTANTS
  v1 = v1 v2 = v2 p1 = p1 p2 = p2 r1 = r1 r2 = r2 m1 = m1 m2 = m2 m3 = m3
  Villages = {v1, v2}
  Players = {p1, p2}
  Secure = {v1}
  Requests = {r1}
  Movements = {m1, m2}
  FirstOwner <- OneEach
  FirstGarrison <- TwoAndOne
  MaxTroops = 2
  MaxFaults = 1
  MaxCrashes = 1
  NoMove = NoMove NoDraft = NoDraft NoVillage = NoVillage
INVARIANTS TypeOK TroopsAccounted LoyalMarch
PROPERTIES MovementsEnd
\* The last soldier may have fallen.
CHECK_DEADLOCK FALSE
