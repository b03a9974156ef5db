SPECIFICATION FairQuietSpec
CONSTANTS
  Instances = {s1, s2}
  anna = anna
  bert = bert
  red = red
  blue = blue
  h1 = h1
  h2 = h2
  t1 = t1
  t2 = t2
  t3 = t3
  t4 = t4
  a1 = a1
  a2 = a2
  b1 = b1
  Players = {anna, bert}
  Alliances = {red, blue}
  Tag <- TagDef
  Home <- HomeDef
  Tiles <- TileDef
  Catalogue <- CatalogueDef
  PlanIds <- PlanDef
  SiteCount = 1
  Treasury <- TreasuryDef
  Needs <- NeedsDef
  Top = 2
  ArtifactAt = 1
  WonderAt = 1
  Period = 1
  FirstMember <- MemberDef
  MaxClock = 1
  MaxStrikes = 3
  MaxMoves = 1
  MaxUpsets = 1
  Natars = Natars
  Nobody = Nobody
  Unreleased = Unreleased
  Dropped = Dropped
  NoAlliance = NoAlliance
  NoDraft = NoDraft
  NoLevel = NoLevel
  Ready = Ready
  Down = Down
INVARIANTS TypeOK OneVault AbandonedFreed
PROPERTIES VictoryEarned RoundEnds
CHECK_DEADLOCK FALSE
