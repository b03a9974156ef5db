SPECIFICATION SocietySpec
CONSTANTS
  p1 = p1 p2 = p2 p3 = p3 a1 = a1 a2 = a2 r1 = r1 r2 = r2 r3 = r3
  Players = {p1, p2, p3}
  Alliances = {a1, a2}
  Requests = {r1, r2, r3}
  Embassy <- Strong
  JoinLevel = 1
  FoundLevel = 3
  MaxMembers = 2
  Grants = {{"invite", "expel", "diplomacy", "announce", "manage"}}
  Starts <- Worlds
  NoOne = NoOne Unused = Unused Disbanded = Disbanded
  NoDraft = NoDraft Done = Done Neutral = Neutral
  h1 = h1 h2 = h2 b1 = b1 c1 = c1 c2 = c2
  Humans = {h1, h2}
  Bots = {b1}
  Calls = {c1, c2}
  Appointed <- Listed
  MaxSitters = 1
  Outsets <- Staffs
  Nobody = Nobody Unsent = Unsent Served = Served Dropped = Dropped
INVARIANTS OneFounder CapHeld
PROPERTIES ConsentGiven RankStands SitsRecorded BlockedDoNothing
SYMMETRY Same
\* Requests are one-shot: when the last has ended nothing happens any more.
CHECK_DEADLOCK FALSE
