--------------------------- MODULE EndgameProofs ---------------------------
(***************************************************************************)
(* Proofs about Endgame for every number of instances, players, alliances,   *)
(* items, sites and tiles, in quiet histories.  What an instance has read is  *)
(* tied to what is there: a winner to the standings, a battle to its home     *)
(* and its spoils, a sweep to the villages it found.  Releases happen once,   *)
(* so that a village that held nothing of a kind is not given any by one.     *)
(***************************************************************************)
EXTENDS Endgame, FiniteSetTheorems, WellFoundedInduction, NaturalsInduction, TLAPS

-----------------------------------------------------------------------------
(* Types *)

\* Whoever has been let through to order a level still owns the site.
SiteDraft == draft # NoDraft => draft.site \in sites /\ owner[draft.site] = draft.by

LEMMA TilesAreReserved ==
  /\ Len(Tiles) \in Nat /\ DOMAIN Tiles = 1 .. Len(Tiles)
  /\ \A i \in DOMAIN Tiles : Tiles[i] \in Reserved /\ Tiles[i] \in Villages
BY EndgameAssumption DEF Reserved, Villages

\* A tile for every item of the catalogue.
LEMMA CatalogueTiles ==
  ASSUME NEW x \in Artifacts
  PROVE  /\ (CHOOSE n \in DOMAIN Catalogue : Catalogue[n] = x) \in DOMAIN Catalogue
         /\ (CHOOSE n \in DOMAIN Catalogue : Catalogue[n] = x) \in DOMAIN Tiles
         /\ Catalogue[CHOOSE n \in DOMAIN Catalogue : Catalogue[n] = x] = x
<1>1. \E n \in DOMAIN Catalogue : Catalogue[n] = x
  BY DEF Artifacts
<1>2. DOMAIN Catalogue = 1 .. Len(Catalogue) /\ DOMAIN PlanIds = 1 .. Len(PlanIds)
      /\ Len(Catalogue) \in Nat /\ Len(PlanIds) \in Nat /\ SiteCount \in Nat
  BY EndgameAssumption
<1>3. DOMAIN Catalogue \subseteq DOMAIN Tiles
  BY <1>2, TilesAreReserved, RoomForAll
<1> QED
  BY <1>1, <1>3

LEMMA TypeInit == Init => TypeOK /\ SiteDraft
<1> SUFFICES ASSUME Init PROVE TypeOK /\ SiteDraft
  OBVIOUS
<1>1. \A v \in Homes : (CHOOSE p \in Players : Home[p] = v) \in Players
  BY DEF Homes
<1>2. owner \in [Villages -> Players \cup {Natars, Nobody}]
  BY <1>1 DEF Init
<1>3. /\ wonder \in [Villages -> Level] /\ clock \in Time
      /\ strikes \in 0 .. MaxStrikes /\ moves \in 0 .. MaxMoves /\ upsets \in 0 .. MaxUpsets
  BY EndgameAssumption DEF Init, Time, Level
<1>4. /\ holder \in [Items -> Villages \cup {Unreleased, Dropped}]
      /\ \A i \in Items : holder[i] \notin Villages
  BY EndgameAssumption DEF Init
<1>5. /\ retired \in [Players -> {"no", "here", "elsewhere"}]
      /\ member \in [Players -> Alliances \cup {NoAlliance}]
      /\ stage \in [Instances -> Stages]
      /\ sites = {} /\ draft = NoDraft /\ won = NoAlliance /\ swept \in Nat /\ taken \in BOOLEAN
  BY EndgameAssumption DEF Init, Stages
<1>6. /\ building \in [Villages -> Level \cup {NoLevel}]
      /\ \A v \in Villages : building[v] = NoLevel /\ wonder[v] = 0
  BY DEF Init
<1> QED
  BY <1>2, <1>3, <1>4, <1>5, <1>6 DEF TypeOK, SiteDraft

\* The part of the types that no action disturbs which leaves villages and items alone.
LEMMA CalmType ==
  ASSUME TypeOK, UNCHANGED map, UNCHANGED holder,
         clock' \in Time, retired' \in [Players -> {"no", "here", "elsewhere"}],
         member' \in [Players -> Alliances \cup {NoAlliance}],
         draft' \in Draft \cup {NoDraft},
         stage' \in [Instances -> Stages],
         won' \in Alliances \cup {NoAlliance}, swept' \in Nat, taken' \in BOOLEAN,
         strikes' \in 0 .. MaxStrikes, moves' \in 0 .. MaxMoves, upsets' \in 0 .. MaxUpsets
  PROVE  TypeOK'
BY DEF TypeOK, map, Exists

LEMMA DraftKept ==
  ASSUME SiteDraft, SiteKept, draft' = draft, sites \subseteq sites'
  PROVE  SiteDraft'
BY DEF SiteDraft, SiteKept

LEMMA SpoilsAreItems ==
  ASSUME NEW h, NEW v, NEW items \in {Artifacts, Plans}
  PROVE  Spoils(h, v, items) \subseteq items /\ Spoils(h, v, items) \subseteq Items
BY DEF Spoils, Items

\* What one instance is at, the others as before.
LEMMA TurnType ==
  ASSUME TypeOK, NEW s \in Instances, NEW x \in Stages, Turns(s, x)
  PROVE  stage' \in [Instances -> Stages]
BY DEF TypeOK, Turns

\* A battle is not a sweep.
LEMMA NoSweepIsStrike == Sweeping \cap Strike = {}
<1> SUFFICES ASSUME NEW b \in Strike, b \in Sweeping PROVE FALSE
  OBVIOUS
<1>1. "home" \in DOMAIN b
  BY DEF Strike
<1>2. DOMAIN b = {"victims", "doomed"}
  BY DEF Sweeping
<1> QED
  BY <1>1, <1>2

LEMMA StrikeType ==
  ASSUME TypeOK, NEW s \in Instances, NEW h \in Villages, NEW v \in Villages, ReadStrike(s, h, v)
  PROVE  \E b \in Strike : /\ Turns(s, b) /\ b.home = h /\ b.target = v
                           /\ b.spoils = Spoils(h, v, Artifacts) \cup Spoils(h, v, Plans)
<1> DEFINE spoils == Spoils(h, v, Artifacts) \cup Spoils(h, v, Plans)
<1>1. PICK by \in Players, c \in BOOLEAN, l \in RazedLevels(v) :
        Turns(s, [home |-> h, target |-> v, by |-> by, from |-> owner[v], conquers |-> c,
                  spoils |-> spoils, razes |-> l])
  BY DEF ReadStrike
<1>2. spoils \subseteq Items /\ owner[v] \in Players \cup {Natars} /\ l \in Level \cup {NoLevel}
  <2>1. Spoils(h, v, Artifacts) \subseteq Items /\ Spoils(h, v, Plans) \subseteq Items
    BY SpoilsAreItems
  <2>2. owner[v] # Nobody
    BY DEF ReadStrike, Exists
  <2> QED
    BY <2>1, <2>2 DEF TypeOK, RazedLevels
<1> DEFINE b == [home |-> h, target |-> v, by |-> by, from |-> owner[v], conquers |-> c,
                 spoils |-> spoils, razes |-> l]
<1>3. b \in Strike
  BY <1>2 DEF Strike
<1> QED
  BY <1>1, <1>3

\* A sweep that begins has found every village of its victims.
LEMMA SweepingType ==
  ASSUME TypeOK, NEW s \in Instances, NEW idlers \in SUBSET Idlers, ReadSweep(s, idlers)
  PROVE  \E b \in Sweeping : /\ Turns(s, b) /\ UNCHANGED map
                             /\ \A v \in Villages : owner[v] \in b.victims => v \in b.doomed
<1> DEFINE b == [victims |-> idlers, doomed |-> {v \in Villages : owner[v] \in idlers}]
<1>1. b \in Sweeping
  BY DEF Sweeping, Idlers
<1>2. Turns(s, b) /\ UNCHANGED map
  BY DEF ReadSweep
<1> QED
  BY <1>1, <1>2

LEMMA ApplyType ==
  ASSUME TypeOK, SiteDraft, SiteKept, NEW s \in Instances, ApplyStrike(s)
  PROVE  TypeOK' /\ SiteDraft'
<1> DEFINE b == stage[s]
<1>1. /\ b \in Strike /\ Exists(b.home) /\ Exists(b.target)
      /\ owner' = IF b.conquers THEN [owner EXCEPT ![b.target] = b.by] ELSE owner
      /\ building' = IF b.conquers THEN [building EXCEPT ![b.target] = NoLevel] ELSE building
      /\ \E l \in Remains(b) : wonder' = [wonder EXCEPT ![b.target] = l]
      /\ holder' = [i \in Items |-> IF i \in b.spoils /\ holder[i] = b.target THEN b.home ELSE holder[i]]
      /\ Turns(s, Ready)
      /\ UNCHANGED <<clock, retired, member, sites, draft, won, swept, taken, counts>>
  BY DEF ApplyStrike, Sound
<1>2. b.home \in Villages /\ b.target \in Villages /\ b.by \in Players /\ b.conquers \in BOOLEAN
      /\ b.razes \in Level \cup {NoLevel}
  BY <1>1 DEF Strike
<1> HIDE DEF b
<1>3. stage' \in [Instances -> Stages]
  BY <1>1, TurnType DEF Stages
<1>4. owner' \in [Villages -> Players \cup {Natars, Nobody}] /\ \A v \in Villages : Exists(v) => Exists(v)'
  BY <1>1, <1>2, EndgameAssumption DEF TypeOK, Exists
<1>5. holder' \in [Items -> Villages \cup {Unreleased, Dropped}]
      /\ \A i \in Items : holder'[i] \in Villages => owner'[holder'[i]] # Nobody
  BY <1>1, <1>2, <1>4 DEF TypeOK, Exists
<1>6. /\ building' \in [Villages -> Level \cup {NoLevel}]
      /\ \A v \in Villages : building'[v] # NoLevel => v \in sites
  BY <1>1, <1>2 DEF TypeOK
<1>8. /\ wonder' \in [Villages -> Level]
      /\ \A v \in Villages : wonder'[v] > 0 => v \in sites
  <2>1. PICK l \in Remains(b) : wonder' = [wonder EXCEPT ![b.target] = l]
    BY <1>1
  <2>2. l \in Level /\ (l > 0 => b.target \in sites)
    BY <1>2 DEF Remains, TypeOK
  <2> QED
    BY <1>2, <2>1, <2>2 DEF TypeOK
<1>7. SiteDraft'
  BY <1>1, DraftKept
<1> QED
  BY <1>1, <1>3, <1>4, <1>5, <1>6, <1>7, <1>8 DEF TypeOK, counts, Exists

LEMMA SweepType ==
  ASSUME TypeOK, SiteDraft, SiteKept, NEW s \in Instances, Sweep(s)
  PROVE  TypeOK' /\ SiteDraft'
<1> DEFINE gone == {v \in stage[s].doomed : owner[v] \in stage[s].victims}
           victims == stage[s].victims
<1>0. gone \subseteq Villages /\ victims \subseteq Players /\ \A v \in gone : owner[v] \in Players
  BY DEF Sweep, Sweeping
<1>1. /\ owner' = [v \in Villages |-> IF v \in gone THEN Nobody ELSE owner[v]]
      /\ sites' = sites \ gone
      /\ wonder' = [v \in Villages |-> IF v \in gone THEN 0 ELSE wonder[v]]
      /\ building' = [v \in Villages |-> IF v \in gone THEN NoLevel ELSE building[v]]
      /\ holder' = [i \in Items |-> IF holder[i] \in gone THEN Dropped ELSE holder[i]]
      /\ retired' = [p \in Players |-> IF p \in victims THEN "here" ELSE retired[p]]
      /\ swept' = swept + 1 /\ Turns(s, Ready)
      /\ UNCHANGED <<clock, member, draft, won, taken, counts>>
  BY DEF Sweep
<1>2. 0 \in Level
  BY EndgameAssumption DEF Level
<1>7. stage' \in [Instances -> Stages]
  BY <1>1, TurnType DEF Stages
<1> HIDE DEF gone, victims
<1>3. owner' \in [Villages -> Players \cup {Natars, Nobody}] /\ sites' \subseteq Reserved
      /\ wonder' \in [Villages -> Level] /\ building' \in [Villages -> Level \cup {NoLevel}]
      /\ holder' \in [Items -> Villages \cup {Unreleased, Dropped}]
      /\ retired' \in [Players -> {"no", "here", "elsewhere"}] /\ swept' \in Nat
  BY <1>1, <1>2 DEF TypeOK
<1>4. \A i \in Items : holder'[i] \in Villages => owner'[holder'[i]] # Nobody
  BY <1>1, EndgameAssumption DEF TypeOK, Exists
<1>5. \A v \in Villages : building'[v] # NoLevel \/ wonder'[v] > 0 => v \in sites'
  <2> SUFFICES ASSUME NEW v \in Villages, building'[v] # NoLevel \/ wonder'[v] > 0 PROVE v \in sites'
    OBVIOUS
  <2>1. v \notin gone
    BY <1>1
  <2> QED
    BY <1>1, <2>1 DEF TypeOK
<1>6. SiteDraft'
  <2>1. CASE draft # NoDraft
    <3>1. draft \in Draft /\ draft.site \in sites /\ owner[draft.site] = draft.by
          /\ owner'[draft.site] = owner[draft.site] /\ draft.site \in Villages /\ draft.by \in Players
      BY <1>1, <2>1 DEF SiteDraft, SiteKept, TypeOK, Draft
    <3>2. draft.site \notin gone
      BY <1>0, <1>1, <3>1, EndgameAssumption
    <3> QED
      BY <1>1, <3>1, <3>2 DEF SiteDraft
  <2>2. CASE draft = NoDraft
    BY <1>1, <2>2 DEF SiteDraft
  <2> QED
    BY <2>1, <2>2
<1> QED
  BY <1>1, <1>3, <1>4, <1>5, <1>6, <1>7 DEF TypeOK, counts, Exists

LEMMA ArtifactsType ==
  ASSUME TypeOK, SiteDraft, SiteKept, NEW s \in Instances, ReleaseArtifacts(s)
  PROVE  TypeOK' /\ SiteDraft'
<1> DEFINE rank(i) == CHOOSE n \in DOMAIN Catalogue : Catalogue[n] = i
<1>1. /\ owner' = [v \in Villages |-> IF \E i \in DOMAIN Catalogue : Tiles[i] = v THEN Natars ELSE owner[v]]
      /\ holder' = [i \in Items |-> IF i \in Artifacts THEN Tiles[rank(i)] ELSE holder[i]]
      /\ UNCHANGED <<clock, retired, member, sites, wonder, building, draft, stage, won, swept, taken,
                     counts>>
  BY DEF ReleaseArtifacts
<1>2. \A i \in Artifacts : rank(i) \in DOMAIN Catalogue /\ rank(i) \in DOMAIN Tiles
  BY CatalogueTiles
<1> HIDE DEF rank
<1>3. \A i \in Artifacts : Tiles[rank(i)] \in Villages
  BY <1>2, TilesAreReserved
<1>4. owner' \in [Villages -> Players \cup {Natars, Nobody}] /\ \A v \in Villages : Exists(v) => Exists(v)'
  BY <1>1, EndgameAssumption DEF TypeOK, Exists
<1>5. \A i \in Artifacts : owner'[Tiles[rank(i)]] # Nobody
  BY <1>1, <1>2, <1>3, EndgameAssumption
<1>6. /\ holder' \in [Items -> Villages \cup {Unreleased, Dropped}]
      /\ \A i \in Items : holder'[i] \in Villages => owner'[holder'[i]] # Nobody
  BY <1>1, <1>3, <1>4, <1>5 DEF TypeOK, Exists
<1>7. SiteDraft'
  BY <1>1, DraftKept
<1> QED
  BY <1>1, <1>4, <1>6, <1>7 DEF TypeOK, counts, Exists

\* What the Wonder's release places, and where.
Vault(i, x) == \E k \in DOMAIN PlanIds : PlanIds[k] = x /\ FreeTile(i, SiteCount + k)
Site(i) == \E n \in 1 .. SiteCount : FreeTile(i, n)

LEMMA WonderPlaces ==
  ASSUME NEW s, ReleaseWonder(s)
  PROVE  /\ WonderDue
         /\ owner' = [v \in Villages |->
              IF \E i \in DOMAIN Tiles : Tiles[i] = v /\ (Site(i) \/ \E x \in Plans : Vault(i, x))
              THEN Natars ELSE owner[v]]
         /\ sites' = {Tiles[i] : i \in {j \in DOMAIN Tiles : Site(j)}}
         /\ \A x \in Items : \/ \E i \in DOMAIN Tiles : Vault(i, x) /\ holder'[x] = Tiles[i]
                             \/ holder'[x] = holder[x] /\ ~ \E i \in DOMAIN Tiles : Vault(i, x)
         /\ DOMAIN holder' = Items
         /\ UNCHANGED <<clock, retired, member, wonder, building, draft, stage, won, swept, taken, counts>>
<1>1. holder' = [x \in Items |-> IF \E i \in DOMAIN Tiles : Vault(i, x)
                                THEN Tiles[CHOOSE i \in DOMAIN Tiles : Vault(i, x)] ELSE holder[x]]
  BY DEF ReleaseWonder, Vault
<1>2. ASSUME NEW x \in Items
      PROVE  \/ \E i \in DOMAIN Tiles : Vault(i, x) /\ holder'[x] = Tiles[i]
             \/ holder'[x] = holder[x] /\ ~ \E i \in DOMAIN Tiles : Vault(i, x)
  <2>1. CASE \E i \in DOMAIN Tiles : Vault(i, x)
    <3>1. (CHOOSE i \in DOMAIN Tiles : Vault(i, x)) \in DOMAIN Tiles
          /\ Vault(CHOOSE i \in DOMAIN Tiles : Vault(i, x), x)
      BY <2>1
    <3> QED
      BY <1>1, <2>1, <3>1
  <2>2. CASE ~ \E i \in DOMAIN Tiles : Vault(i, x)
    BY <1>1, <2>2
  <2> QED
    BY <2>1, <2>2
<1>3. DOMAIN holder' = Items
  BY <1>1
<1>4. /\ WonderDue
      /\ owner' = [v \in Villages |->
           IF \E i \in DOMAIN Tiles : Tiles[i] = v /\ (Site(i) \/ \E x \in Plans : Vault(i, x))
           THEN Natars ELSE owner[v]]
      /\ sites' = {Tiles[i] : i \in {j \in DOMAIN Tiles : Site(j)}}
      /\ UNCHANGED <<clock, retired, member, wonder, building, draft, stage, won, swept, taken, counts>>
  BY DEF ReleaseWonder, Vault, Site
<1> QED
  BY <1>2, <1>3, <1>4

\* A vault takes a plan and nothing else.
LEMMA VaultsOfPlans ==
  ASSUME NEW i \in DOMAIN Tiles, NEW x, Vault(i, x)
  PROVE  x \in Plans /\ ~ Exists(Tiles[i])
BY DEF Vault, Plans, FreeTile

LEMMA WonderType ==
  ASSUME TypeOK, SiteDraft, SiteKept, NEW s \in Instances, ReleaseWonder(s)
  PROVE  TypeOK' /\ SiteDraft'
<1>1. /\ WonderDue
      /\ owner' = [v \in Villages |->
           IF \E i \in DOMAIN Tiles : Tiles[i] = v /\ (Site(i) \/ \E x \in Plans : Vault(i, x))
           THEN Natars ELSE owner[v]]
      /\ sites' = {Tiles[i] : i \in {j \in DOMAIN Tiles : Site(j)}}
      /\ \A x \in Items : \/ \E i \in DOMAIN Tiles : Vault(i, x) /\ holder'[x] = Tiles[i]
                          \/ holder'[x] = holder[x]
      /\ UNCHANGED <<clock, retired, member, wonder, building, draft, stage, won, swept, taken, counts>>
  BY WonderPlaces
<1>2. owner' \in [Villages -> Players \cup {Natars, Nobody}] /\ \A v \in Villages : Exists(v) => Exists(v)'
  BY <1>1, EndgameAssumption DEF TypeOK, Exists
<1>3. ASSUME NEW x \in Items
      PROVE  /\ holder'[x] \in Villages \cup {Unreleased, Dropped}
             /\ holder'[x] \in Villages => owner'[holder'[x]] # Nobody
  <2>1. CASE holder'[x] = holder[x]
    BY <1>2, <2>1 DEF TypeOK, Exists
  <2>2. ASSUME NEW i \in DOMAIN Tiles, Vault(i, x), holder'[x] = Tiles[i]
        PROVE  holder'[x] \in Villages /\ owner'[holder'[x]] # Nobody
    <3>1. Tiles[i] \in Villages /\ x \in Plans
      BY <2>2, TilesAreReserved, VaultsOfPlans
    <3>2. owner'[Tiles[i]] = Natars
      BY <1>1, <2>2, <3>1
    <3> QED
      BY <2>2, <3>1, <3>2, EndgameAssumption
  <2> QED
    BY <1>1, <2>1, <2>2
<1>4. holder' \in [Items -> Villages \cup {Unreleased, Dropped}]
  <2>1. holder' = [x \in Items |-> holder'[x]]
    BY DEF ReleaseWonder
  <2> QED
    BY <1>3, <2>1
<1>5. sites' \subseteq Reserved
  BY <1>1, TilesAreReserved
<1>6. \A v \in Villages : building[v] = NoLevel /\ ~ (wonder[v] > 0)
  BY <1>1 DEF WonderDue, TypeOK
<1>7. draft = NoDraft
  BY <1>1 DEF WonderDue, SiteDraft
<1> QED
  BY <1>1, <1>2, <1>3, <1>4, <1>5, <1>6, <1>7 DEF TypeOK, counts, Exists, SiteDraft

\* The steps that leave villages and items alone.
Calm(s) ==
  \/ \E h, v \in Villages : ReadStrike(s, h, v)
  \/ \E idlers \in SUBSET Idlers : ReadSweep(s, idlers)
  \/ LoseStrike(s) \/ ReadVictory(s) \/ Record(s) \/ Fail(s) \/ Crash(s) \/ Restart(s)
CalmWeb == \/ \E p \in Players, v \in Villages : AskWonder(p, v)
           \/ \E p \in Players, a \in Alliances \cup {NoAlliance} : ChangeAlliance(p, a)
           \/ Around
\* The steps that order a level of a Wonder.
Orders == PlaceWonder \/ \E p \in Players, v \in Villages : Demolish(p, v)

\* The types of what those steps change.
CalmTyped == /\ stage' \in [Instances -> Stages]
             /\ won' \in Alliances \cup {NoAlliance}
             /\ strikes' \in 0 .. MaxStrikes /\ upsets' \in 0 .. MaxUpsets
WebTyped == /\ clock' \in Time /\ retired' \in [Players -> {"no", "here", "elsewhere"}]
            /\ member' \in [Players -> Alliances \cup {NoAlliance}]
            /\ draft' \in Draft \cup {NoDraft} /\ taken' \in BOOLEAN
            /\ moves' \in 0 .. MaxMoves /\ upsets' \in 0 .. MaxUpsets /\ SiteDraft'

LEMMA Steps ==
  ASSUME [Next]_vars
  PROVE  \/ UNCHANGED vars
         \/ CalmWeb \/ Orders
         \/ \E s \in Instances :
              \/ Calm(s) \/ ApplyStrike(s) \/ Sweep(s) \/ ReleaseArtifacts(s) \/ ReleaseWonder(s)
              \/ \E v \in Villages : BuildWonder(s, v)
BY DEF Next, Web, Battles, Loop, Calm, CalmWeb, Orders

LEMMA CalmKeeps ==
  /\ \A s \in Instances : Calm(s) => UNCHANGED <<map, holder, clock, retired, member, draft, swept, taken, moves>>
  /\ CalmWeb => UNCHANGED <<map, holder, stage, won, swept, strikes>>
  /\ Orders => UNCHANGED <<owner, sites, wonder, holder, clock, retired, member, stage, won, swept, taken>>
BY DEF Calm, CalmWeb, Around, Orders, PlaceWonder, Demolish, ReadStrike, ReadSweep, LoseStrike, ReadVictory, Record, Fail, Crash, Restart,
   AskWonder, ChangeAlliance, Tick, OtherRelease, OtherSweep, counts

LEMMA Selected ==
  ASSUME NEW p \in Players, NEW v \in Villages, owner[v] = p
  PROVE  Selects(p, v) = {v}
BY DEF Selects

\* Tag orders the alliances, so that a set of them with a member has a first one.
LEMMA FirstOfSome ==
  ASSUME NEW as \in SUBSET Alliances, as # {}
  PROVE  First(as) \in as
<1> DEFINE tags == {Tag[a] : a \in as}
<1>0. \A a \in as : Tag[a] \in Nat /\ Tag[a] \in tags
  <2>1. Tag \in [Alliances -> Nat]
    BY EndgameAssumption
  <2> QED
    BY <2>1
<1>1. tags \subseteq Nat /\ tags # {}
  <2>1. tags # {}
    <3>1. PICK a \in as : TRUE
      OBVIOUS
    <3> HIDE DEF tags
    <3> QED
      BY <1>0, <3>1
  <2>2. tags \subseteq Nat
    BY <1>0
  <2> QED
    BY <2>1, <2>2
<1>2. IsWellFoundedOn({ss \in Nat \X Nat : ss[1] < ss[2]}, Nat)
  BY NatLessThanWellFounded DEF OpToRel
<1> DEFINE below == {ss \in Nat \X Nat : ss[1] < ss[2]}
<1>3. PICK n \in tags : \A m \in tags : ~ (m < n)
  <2> HIDE DEF below, tags
  <2>1. \E n \in tags : \A m \in tags : ~ (<<m, n>> \in below)
    BY <1>1, <1>2, WFMin DEF below
  <2>2. \A m, n \in Nat : m < n => <<m, n>> \in below
    BY DEF below
  <2> QED
    BY <1>1, <2>1, <2>2
<1>4. PICK a \in as : n = Tag[a]
  OBVIOUS
<1>5. \A b \in as : Tag[a] <= Tag[b]
  <2> SUFFICES ASSUME NEW b \in as PROVE Tag[a] <= Tag[b]
    OBVIOUS
  <2> HIDE DEF tags
  <2>1. Tag[a] \in Nat /\ Tag[b] \in Nat /\ Tag[b] \in tags
    BY <1>0
  <2>2. ~ (Tag[b] < Tag[a])
    BY <1>3, <1>4, <2>1
  <2> QED
    BY <2>1, <2>2
<1> QED
  BY <1>4, <1>5 DEF First

LEMMA CalmTypes ==
  ASSUME TypeOK, SiteDraft, NEW s \in Instances, Calm(s)
  PROVE  TypeOK' /\ SiteDraft'
<1>1. UNCHANGED <<map, holder, clock, retired, member, draft, swept, taken, moves>>
  BY CalmKeeps
<1>2. CalmTyped
  <2>0. won \in Alliances \cup {NoAlliance} /\ strikes \in 0 .. MaxStrikes /\ upsets \in 0 .. MaxUpsets
        /\ MaxStrikes \in Nat /\ MaxUpsets \in Nat
    BY EndgameAssumption DEF TypeOK
  <2>1. ASSUME NEW h \in Villages, NEW v \in Villages, ReadStrike(s, h, v) PROVE CalmTyped
    <3>1. PICK b \in Strike : Turns(s, b)
      BY <2>1, StrikeType
    <3>2. strikes < MaxStrikes /\ strikes' = strikes + 1 /\ UNCHANGED <<won, upsets>>
      BY <2>1 DEF ReadStrike
    <3> QED
      BY <2>0, <3>1, <3>2, TurnType DEF CalmTyped, Stages
  <2>6. ASSUME NEW idlers \in SUBSET Idlers, ReadSweep(s, idlers) PROVE CalmTyped
    <3>1. PICK b \in Sweeping : Turns(s, b)
      BY <2>6, SweepingType
    <3>2. UNCHANGED <<won, counts>>
      BY <2>6 DEF ReadSweep
    <3> QED
      BY <2>0, <3>1, <3>2, TurnType DEF CalmTyped, Stages, counts
  <2>2. CASE LoseStrike(s) \/ Restart(s)
    BY <2>0, <2>2, TurnType DEF LoseStrike, Restart, counts, CalmTyped, Stages
  <2>3. CASE ReadVictory(s)
    <3>1. Standing(Top) \subseteq Alliances /\ Standing(Top) # {}
      BY <2>3 DEF ReadVictory, Standing, CalmTyped
    <3>2. First(Standing(Top)) \in Alliances
      BY <3>1, FirstOfSome
    <3> QED
      BY <2>0, <2>3, <3>2, TurnType DEF ReadVictory, counts, CalmTyped, Stages
  <2>4. CASE Record(s)
    BY <2>0, <2>4, TurnType DEF Record, counts, CalmTyped, Stages
  <2>5. CASE Fail(s) \/ Crash(s)
    BY <2>0, <2>5, TurnType DEF Fail, Crash, CalmTyped, Stages
  <2> QED
    BY <2>1, <2>2, <2>3, <2>4, <2>5, <2>6 DEF Calm
<1>3. TypeOK'
  BY <1>1, <1>2, CalmType DEF TypeOK, CalmTyped
<1> QED
  BY <1>1, <1>3 DEF SiteDraft, map

LEMMA CalmWebTypes ==
  ASSUME TypeOK, SiteDraft, CalmWeb
  PROVE  TypeOK' /\ SiteDraft'
<1>1. UNCHANGED <<map, holder, stage, won, swept, strikes>>
  BY CalmKeeps
<1>2. WebTyped
  <2>0. /\ clock \in Time /\ retired \in [Players -> {"no", "here", "elsewhere"}]
        /\ member \in [Players -> Alliances \cup {NoAlliance}]
        /\ draft \in Draft \cup {NoDraft} /\ taken \in BOOLEAN
        /\ moves \in 0 .. MaxMoves /\ upsets \in 0 .. MaxUpsets
        /\ MaxMoves \in Nat /\ MaxUpsets \in Nat /\ MaxClock \in Nat
    BY EndgameAssumption DEF TypeOK
  <2>1. ASSUME NEW p \in Players, NEW v \in Villages, AskWonder(p, v) PROVE WebTyped
    <3>1. [by |-> p, site |-> v] \in Draft
      BY DEF Draft
    <3>2. draft' = [by |-> p, site |-> v] /\ v \in sites /\ owner[v] = p /\ UNCHANGED map
      BY <2>1 DEF AskWonder, WebTyped
    <3>3. SiteDraft'
      BY <3>2 DEF SiteDraft, map
    <3> QED
      BY <2>0, <2>1, <3>1, <3>2, <3>3 DEF AskWonder, counts, WebTyped
  <2>2. ASSUME NEW p \in Players, NEW a \in Alliances \cup {NoAlliance}, ChangeAlliance(p, a) PROVE WebTyped
    <3>1. SiteDraft'
      BY <1>1, <2>2 DEF ChangeAlliance, SiteDraft, map
    <3> QED
      BY <2>0, <2>2, <3>1 DEF ChangeAlliance, WebTyped
  <2>3. CASE Tick
    <3>1. SiteDraft'
      BY <1>1, <2>3 DEF Tick, SiteDraft, map
    <3> QED
      BY <2>0, <2>3, <3>1 DEF Tick, Time, counts, WebTyped
  <2>4. CASE OtherRelease
    <3>1. SiteDraft'
      BY <1>1, <2>4 DEF OtherRelease, SiteDraft, map
    <3> QED
      BY <2>0, <2>4, <3>1 DEF OtherRelease, WebTyped
  <2>5. ASSUME NEW p \in Players, OtherSweep(p) PROVE WebTyped
    <3>1. SiteDraft'
      BY <1>1, <2>5 DEF OtherSweep, SiteDraft, map
    <3> QED
      BY <2>0, <2>5, <3>1 DEF OtherSweep, WebTyped
  <2> QED
    BY <2>1, <2>2, <2>3, <2>4, <2>5 DEF CalmWeb, Around
<1> QED
  BY <1>1, <1>2, CalmType DEF TypeOK, WebTyped

LEMMA TypeStep ==
  ASSUME TypeOK, SiteDraft, [Next /\ Quiet]_vars
  PROVE  TypeOK' /\ SiteDraft'
<1>1. CASE UNCHANGED vars
  BY <1>1 DEF vars, TypeOK, SiteDraft, map, counts, Exists
<1>2. CASE CalmWeb
  BY <1>2, CalmWebTypes
<1>3. ASSUME NEW s \in Instances, Calm(s) PROVE TypeOK' /\ SiteDraft'
  BY <1>3, CalmTypes
<1>4. CASE PlaceWonder
  <2>1. draft \in Draft /\ draft' = NoDraft /\ draft.site \in sites /\ owner[draft.site] = draft.by
        /\ draft.by \in Players /\ draft.site \in Villages
    BY <1>4 DEF PlaceWonder, TypeOK, SiteDraft, Draft
  <2>2. Selects(draft.by, draft.site) = {draft.site}
    BY <2>1, Selected
  <2>3. \/ /\ wonder[draft.site] < Top
           /\ building' = [building EXCEPT ![draft.site] = wonder[draft.site] + 1]
        \/ UNCHANGED building
    BY <1>4, <2>2 DEF PlaceWonder
  <2>4. wonder[draft.site] < Top => wonder[draft.site] + 1 \in Level
    <3>1. wonder[draft.site] \in Level /\ Top \in Nat
      BY <2>1, EndgameAssumption DEF TypeOK
    <3> QED
      BY <3>1 DEF Level
  <2>5. /\ building' \in [Villages -> Level \cup {NoLevel}]
        /\ \A v \in Villages : building'[v] # NoLevel => v \in sites
    BY <2>1, <2>3, <2>4 DEF TypeOK
  <2> QED
    BY <1>4, <2>1, <2>5 DEF PlaceWonder, TypeOK, SiteDraft, counts, Exists
<1>8. ASSUME NEW p \in Players, NEW v \in Villages, Demolish(p, v) PROVE TypeOK' /\ SiteDraft'
  <2>1. /\ wonder[v] > 0 /\ building' = [building EXCEPT ![v] = wonder[v] - 1]
        /\ moves < MaxMoves /\ moves' = moves + 1
        /\ UNCHANGED <<clock, retired, member, owner, sites, wonder, holder, draft, stage, won, swept, taken,
                       strikes, upsets>>
    BY <1>8 DEF Demolish
  <2>2. wonder[v] - 1 \in Level /\ v \in sites
    BY <2>1, EndgameAssumption DEF TypeOK, Level
  <2>3. /\ building' \in [Villages -> Level \cup {NoLevel}]
        /\ \A w \in Villages : building'[w] # NoLevel => w \in sites
    BY <2>1, <2>2 DEF TypeOK
  <2>4. moves' \in 0 .. MaxMoves
    BY <2>1, EndgameAssumption DEF TypeOK
  <2> QED
    BY <2>1, <2>3, <2>4 DEF TypeOK, SiteDraft, Exists
<1>5. ASSUME NEW s \in Instances, NEW v \in Villages, BuildWonder(s, v), SiteKept
      PROVE  TypeOK' /\ SiteDraft'
  <2>1. v \in sites /\ building[v] \in Level
    BY <1>5 DEF BuildWonder, TypeOK
  <2>2. /\ wonder' = [wonder EXCEPT ![v] = building[v]] /\ building' = [building EXCEPT ![v] = NoLevel]
        /\ UNCHANGED <<clock, retired, member, owner, sites, holder, draft, stage, won, swept, taken, counts>>
    BY <1>5 DEF BuildWonder
  <2>3. /\ wonder' \in [Villages -> Level] /\ building' \in [Villages -> Level \cup {NoLevel}]
        /\ \A w \in Villages : building'[w] # NoLevel \/ wonder'[w] > 0 => w \in sites
    BY <2>1, <2>2 DEF TypeOK
  <2>4. SiteDraft'
    BY <1>5, <2>2, DraftKept
  <2> QED
    BY <2>2, <2>3, <2>4 DEF TypeOK, counts, Exists
<1>6. ASSUME NEW s \in Instances, SiteKept,
             ApplyStrike(s) \/ ReleaseArtifacts(s) \/ ReleaseWonder(s)
      PROVE  TypeOK' /\ SiteDraft'
  BY <1>6, ApplyType, ArtifactsType, WonderType
<1>7. ASSUME NEW s \in Instances, SiteKept, Sweep(s)
      PROVE  TypeOK' /\ SiteDraft'
  BY <1>7, SweepType
<1> QED
  BY <1>1, <1>2, <1>3, <1>4, <1>5, <1>6, <1>7, <1>8, Steps DEF Quiet, Orders

\* In every quiet history a Wonder stands on a site, no higher than the top, and everything that
\* is held is held by a village that exists.
THEOREM EndgameTypeCorrect == QuietSpec => []TypeOK
<1>1. Init => TypeOK /\ SiteDraft
  BY TypeInit
<1>2. (TypeOK /\ SiteDraft) /\ [Next /\ Quiet]_vars => (TypeOK /\ SiteDraft)'
  BY TypeStep
<1> QED
  BY <1>1, <1>2, PTL DEF QuietSpec

-----------------------------------------------------------------------------
(* The victory, and the villages of those who are gone *)

\* A winner about to be recorded still leads.
Led == \A s \in Instances : stage[s] \in Alliances => stage[s] \in Standing(Top)

\* The home of an attack that is being resolved is its attacker's, or gone.
HomeOurs == \A s \in Instances : stage[s] \in Strike => owner[stage[s].home] \in {stage[s].by, Nobody}

\* What an instance is at changes by its own reading, or comes to an end.
LEMMA StageMoves ==
  ASSUME TypeOK, [Next]_vars, NEW s \in Instances
  PROVE  \/ stage'[s] = stage[s] \/ stage'[s] \in {Ready, Down}
         \/ \E h, v \in Villages : ReadStrike(s, h, v)
         \/ \E idlers \in SUBSET Idlers : ReadSweep(s, idlers)
         \/ ReadVictory(s)
<1>1. CASE UNCHANGED vars \/ CalmWeb \/ Orders
  BY <1>1, CalmKeeps DEF vars
<1>2. ASSUME NEW r \in Instances, stage' # stage,
             \/ Calm(r) \/ ApplyStrike(r) \/ Sweep(r) \/ ReleaseArtifacts(r) \/ ReleaseWonder(r)
             \/ \E v \in Villages : BuildWonder(r, v)
      PROVE  \/ stage'[s] = stage[s] \/ stage'[s] \in {Ready, Down}
             \/ \E h, v \in Villages : ReadStrike(s, h, v)
             \/ \E idlers \in SUBSET Idlers : ReadSweep(s, idlers)
             \/ ReadVictory(s)
  <2>1. Calm(r) \/ ApplyStrike(r) \/ Sweep(r)
    BY <1>2 DEF ReleaseArtifacts, ReleaseWonder, BuildWonder
  <2>2. \/ \E h, v \in Villages : ReadStrike(r, h, v)
        \/ \E idlers \in SUBSET Idlers : ReadSweep(r, idlers)
        \/ ReadVictory(r)
        \/ Turns(r, Ready) \/ Turns(r, Down)
    BY <2>1 DEF Calm, ApplyStrike, Sweep, LoseStrike, Record, Fail, Crash, Restart
  <2>3. \E x : Turns(r, x)
    BY <2>2 DEF ReadStrike, ReadSweep, ReadVictory
  <2>4. CASE r = s
    <3>1. CASE Turns(r, Ready) \/ Turns(r, Down)
      BY <2>4, <3>1 DEF Turns, TypeOK
    <3> QED
      BY <2>2, <2>4, <3>1
  <2>5. CASE r # s
    BY <2>3, <2>5 DEF Turns, TypeOK
  <2> QED
    BY <2>4, <2>5
<1> QED
  BY <1>1, <1>2, Steps

\* What is read is a battle, a sweep or a winner.
LEMMA ReadsAre ==
  ASSUME TypeOK, NEW s \in Instances
  PROVE  /\ (\E h, v \in Villages : ReadStrike(s, h, v)) => stage'[s] \in Strike
         /\ (\E idlers \in SUBSET Idlers : ReadSweep(s, idlers)) => stage'[s] \in Sweeping
         /\ ReadVictory(s) => stage'[s] \in Alliances /\ stage'[s] \in Standing(Top)
<1>1. ASSUME NEW h \in Villages, NEW v \in Villages, ReadStrike(s, h, v) PROVE stage'[s] \in Strike
  <2>1. PICK b \in Strike : Turns(s, b)
    BY <1>1, StrikeType
  <2> QED
    BY <2>1 DEF Turns, TypeOK
<1>2. ASSUME NEW idlers \in SUBSET Idlers, ReadSweep(s, idlers) PROVE stage'[s] \in Sweeping
  <2>1. PICK b \in Sweeping : Turns(s, b)
    BY <1>2, SweepingType
  <2> QED
    BY <2>1 DEF Turns, TypeOK
<1>3. ASSUME ReadVictory(s) PROVE stage'[s] \in Alliances /\ stage'[s] \in Standing(Top)
  <2>1. Standing(Top) \subseteq Alliances /\ Standing(Top) # {}
    BY <1>3 DEF ReadVictory, Standing
  <2>2. First(Standing(Top)) \in Standing(Top)
    BY <2>1, FirstOfSome
  <2>3. stage'[s] = First(Standing(Top))
    BY <1>3 DEF ReadVictory, Turns, TypeOK
  <2> QED
    BY <2>1, <2>2, <2>3
<1> QED
  BY <1>1, <1>2, <1>3

LEMMA LedStep ==
  ASSUME TypeOK, Led, [Next /\ Quiet]_vars
  PROVE  Led'
<1> SUFFICES ASSUME NEW s \in Instances, stage'[s] \in Alliances
             PROVE  stage'[s] \in Standing(Top)'
  BY DEF Led
<1>1. CASE UNCHANGED vars
  BY <1>1 DEF vars, Led, Standing
<1>2. CASE Quiet /\ stage'[s] = stage[s]
  <2>1. <<member, map>>' = <<member, map>>
    BY <1>2 DEF Quiet, StandingStands, Waits
  <2>2. stage[s] \in Standing(Top)
    BY <1>2 DEF Led
  <2> QED
    BY <1>2, <2>1, <2>2 DEF Standing, map
<1>3. CASE ReadVictory(s)
  <2>1. UNCHANGED <<member, map>>
    BY <1>3 DEF ReadVictory
  <2> QED
    BY <1>3, <2>1, ReadsAre DEF Standing, map
<1>4. stage'[s] \notin Strike /\ stage'[s] \notin Sweeping
  BY Strangers
<1>5. stage'[s] \notin {Ready, Down}
  BY Strangers
<1> QED
  BY <1>1, <1>2, <1>3, <1>4, <1>5, StageMoves, ReadsAre

\* In quiet histories, in which no site, member or level moves between the reading of the standings
\* and their recording, the round is won once, by an alliance that at that moment has a finished
\* Wonder, though battles and demolitions lower one at other times (process_due_wonder_victory).
THEOREM EndgameWonFairly == QuietSpec => VictoryEarned
<1> DEFINE A == [won' # won => won = NoAlliance /\ won' \in Standing(Top)]_vars
<1>1. Init => TypeOK /\ SiteDraft /\ Led
  BY TypeInit, Strangers DEF Init, Led
<1>2. (TypeOK /\ SiteDraft /\ Led) /\ [Next /\ Quiet]_vars => (TypeOK /\ SiteDraft /\ Led)'
  BY TypeStep, LedStep
<1>3. TypeOK /\ Led /\ [Next /\ Quiet]_vars => A
  <2> SUFFICES ASSUME TypeOK, Led, Next, won' # won
               PROVE  won = NoAlliance /\ won' \in Standing(Top)
    BY DEF vars
  <2>1. PICK s \in Instances : Calm(s) /\ won' # won
    <3>1. CASE UNCHANGED vars \/ CalmWeb \/ Orders
      BY <3>1, CalmKeeps DEF vars
    <3>2. ASSUME NEW s \in Instances,
                 \/ ApplyStrike(s) \/ Sweep(s) \/ ReleaseArtifacts(s) \/ ReleaseWonder(s)
                 \/ \E v \in Villages : BuildWonder(s, v)
          PROVE  FALSE
      BY <3>2 DEF ApplyStrike, ReleaseArtifacts, ReleaseWonder, BuildWonder, Sweep
    <3> QED
      BY <3>1, <3>2, Steps
  <2>2. Record(s)
    BY <2>1 DEF Calm, ReadStrike, ReadSweep, LoseStrike, ReadVictory, Fail, Crash, Restart
  <2> QED
    BY <2>2 DEF Record, Led
<1> QED
  BY <1>1, <1>2, <1>3, PTL DEF QuietSpec, VictoryEarned

LEMMA HomeStep ==
  ASSUME HomeOurs, [Next /\ Quiet]_vars
  PROVE  HomeOurs'
<1>1. CASE UNCHANGED vars
  BY <1>1 DEF vars, HomeOurs
<1>2. CASE Quiet
  BY <1>2 DEF Quiet, HomeKept, HomeOurs
<1> QED
  BY <1>1, <1>2

\* A sweep has found all that its victims own.
Doomed == \A s \in Instances : stage[s] \in Sweeping =>
            \A v \in Villages : owner[v] \in stage[s].victims => v \in stage[s].doomed

LEMMA DoomedStep ==
  ASSUME TypeOK, Doomed, [Next /\ Quiet]_vars
  PROVE  Doomed'
<1> SUFFICES ASSUME NEW s \in Instances, stage'[s] \in Sweeping,
                    NEW v \in Villages, owner'[v] \in stage'[s].victims
             PROVE  v \in stage'[s].doomed
  BY DEF Doomed
<1>1. CASE UNCHANGED vars
  BY <1>1 DEF vars, Doomed
<1>2. CASE Quiet /\ stage'[s] = stage[s]
  BY <1>2 DEF Quiet, SweepsAlone, Waits, Doomed
<1>3. ASSUME NEW idlers \in SUBSET Idlers, ReadSweep(s, idlers) PROVE v \in stage'[s].doomed
  <2>1. PICK b \in Sweeping : /\ Turns(s, b) /\ UNCHANGED map
                              /\ \A w \in Villages : owner[w] \in b.victims => w \in b.doomed
    BY <1>3, SweepingType
  <2>2. stage'[s] = b /\ owner' = owner
    BY <2>1 DEF Turns, TypeOK, map
  <2> QED
    BY <2>1, <2>2
<1>4. stage'[s] \notin {Ready, Down} /\ stage'[s] \notin Strike /\ stage'[s] \notin Alliances
  BY Strangers, NoSweepIsStrike
<1> QED
  BY <1>1, <1>2, <1>3, <1>4, StageMoves, ReadsAre

LEMMA FreedStep ==
  ASSUME TypeOK, HomeOurs, Doomed, AbandonedFreed, [Next /\ Quiet]_vars
  PROVE  AbandonedFreed'
<1> SUFFICES ASSUME NEW p \in Players, retired'[p] = "here", NEW v \in Villages
             PROVE  owner'[v] # p
  BY DEF AbandonedFreed
<1>0. p # Natars /\ p # Nobody
  BY EndgameAssumption
<1>1. CASE UNCHANGED vars
  BY <1>1 DEF vars, AbandonedFreed
<1>2. CASE CalmWeb
  <2>1. retired[p] = "here"
    BY <1>2 DEF CalmWeb, Around, AskWonder, ChangeAlliance, Tick, OtherRelease, OtherSweep, TypeOK
  <2> QED
    BY <1>2, <2>1, CalmKeeps DEF map, AbandonedFreed
<1>3. CASE Orders
  BY <1>3, CalmKeeps DEF AbandonedFreed
<1>4. ASSUME NEW s \in Instances, Calm(s) PROVE owner'[v] # p
  BY <1>4, CalmKeeps DEF map, AbandonedFreed
<1>5. ASSUME NEW s \in Instances, ApplyStrike(s) PROVE owner'[v] # p
  <2> DEFINE b == stage[s]
  <2>1. /\ b \in Strike /\ Exists(b.home) /\ retired' = retired
        /\ owner' = IF b.conquers THEN [owner EXCEPT ![b.target] = b.by] ELSE owner
    BY <1>5 DEF ApplyStrike, Sound
  <2>2. owner[b.home] = b.by /\ b.home \in Villages /\ b.by \in Players
    BY <2>1 DEF HomeOurs, Exists, Strike
  <2> HIDE DEF b
  <2>3. b.by # p /\ owner[v] # p
    BY <2>1, <2>2 DEF AbandonedFreed
  <2> QED
    BY <2>1, <2>3 DEF TypeOK
<1>6. ASSUME NEW s \in Instances, Sweep(s) PROVE owner'[v] # p
  <2>1. /\ stage[s] \in Sweeping
        /\ owner'[v] = IF v \in stage[s].doomed /\ owner[v] \in stage[s].victims THEN Nobody ELSE owner[v]
        /\ retired'[p] = IF p \in stage[s].victims THEN "here" ELSE retired[p]
    BY <1>6 DEF Sweep
  <2> QED
    BY <1>0, <2>1 DEF AbandonedFreed, Doomed
<1>7. ASSUME NEW s \in Instances, ReleaseArtifacts(s) \/ ReleaseWonder(s) PROVE owner'[v] # p
  <2>1. owner'[v] \in {Natars, owner[v]} /\ retired' = retired
    BY <1>7 DEF ReleaseArtifacts, ReleaseWonder
  <2> QED
    BY <1>0, <2>1 DEF AbandonedFreed
<1>8. ASSUME NEW s \in Instances, NEW w \in Villages, BuildWonder(s, w) PROVE owner'[v] # p
  BY <1>8 DEF BuildWonder, AbandonedFreed
<1> QED
  BY <1>1, <1>2, <1>3, <1>4, <1>5, <1>6, <1>7, <1>8, Steps

\* In quiet histories, in which the home of an attack stays its sender's or goes and no village comes
\* to an account while it is being swept, an account that this world retired owns no village of it,
\* though battles of its own that were being resolved when it was swept are applied after
\* (sweep_abandoned, apply_battle).
THEOREM EndgameAbandonedFreed == QuietSpec => []AbandonedFreed
<1> DEFINE I == TypeOK /\ SiteDraft /\ HomeOurs /\ Doomed /\ AbandonedFreed
<1>1. Init => I
  BY TypeInit, Strangers DEF Init, HomeOurs, Doomed, AbandonedFreed
<1>2. I /\ [Next /\ Quiet]_vars => I'
  BY TypeStep, HomeStep, DoomedStep, FreedStep
<1>3. I => AbandonedFreed
  OBVIOUS
<1> QED
  BY <1>1, <1>2, <1>3, PTL DEF QuietSpec

-----------------------------------------------------------------------------
(* One artifact and one plan to a Treasury *)

Kinds == {Artifacts, Plans}
Apart(items) == \A i, j \in items : holder[i] \in Villages /\ holder[i] = holder[j] => i = j
\* Spoils were held by someone when they were read, go to a village that holds none of their kind,
\* and are one of it at the most ...
Fits(b) == \A items \in Kinds : b.spoils \cap items # {} =>
             HoldsNone(b.home, items) /\ \A i, j \in b.spoils \cap items : i = j
Placed == \A s \in Instances : stage[s] \in Strike => \A i \in stage[s].spoils : holder[i] # Unreleased
Fitting == \A s \in Instances : stage[s] \in Strike => Fits(stage[s])
\* ... and no two instances bring some of a kind to the same village.
InTurn == \A s, r \in Instances, items \in Kinds :
  /\ s # r /\ stage[s] \in Strike /\ stage[r] \in Strike
  /\ stage[s].home = stage[r].home /\ stage[s].spoils \cap items # {}
  => stage[r].spoils \cap items = {}
Vaults == (\A items \in Kinds : Apart(items)) /\ Placed /\ Fitting /\ InTurn

LEMMA KindsApart ==
  /\ \A items \in Kinds : items \subseteq Items
  /\ \A a, b \in Kinds : a # b => a \cap b = {}
  /\ Unreleased \notin Villages /\ Dropped \notin Villages
BY EndgameAssumption DEF Kinds, Items

\* The spoils of a kind are what Spoils gives for it.
LEMMA SpoilsByKind ==
  ASSUME NEW h, NEW v, NEW items \in Kinds
  PROVE  (Spoils(h, v, Artifacts) \cup Spoils(h, v, Plans)) \cap items = Spoils(h, v, items)
<1>1. /\ Spoils(h, v, Artifacts) \subseteq Artifacts /\ Spoils(h, v, Plans) \subseteq Plans
      /\ Artifacts \cap Plans = {}
  BY EndgameAssumption DEF Spoils
<1>2. CASE items = Artifacts
  BY <1>1, <1>2
<1>3. CASE items = Plans
  BY <1>1, <1>3
<1> QED
  BY <1>2, <1>3 DEF Kinds

\* Where nothing that is held moves, what has been read stays fitting, and new spoils fit.
LEMMA VaultsStill ==
  ASSUME TypeOK, Vaults, [Next]_vars, holder' = holder, InTurn'
  PROVE  Vaults'
<1>1. \A items \in Kinds : Apart(items)'
  BY DEF Vaults, Apart
<1>2. ASSUME NEW s \in Instances, NEW c \in Strike, stage'[s] = c
      PROVE  Fits(c)' /\ \A i \in c.spoils : holder[i] # Unreleased
  <2>1. CASE stage'[s] = stage[s]
    BY <1>2, <2>1 DEF Vaults, Placed, Fitting, Fits, HoldsNone
  <2>2. ASSUME NEW h \in Villages, NEW v \in Villages, ReadStrike(s, h, v)
        PROVE  Fits(c)' /\ \A i \in c.spoils : holder[i] # Unreleased
    <3>1. PICK b \in Strike : /\ Turns(s, b) /\ b.home = h
                              /\ b.spoils = Spoils(h, v, Artifacts) \cup Spoils(h, v, Plans)
      BY <2>2, StrikeType
    <3>2. stage'[s] = b
      BY <3>1 DEF Turns, TypeOK
    <3>3. ASSUME NEW items \in Kinds, b.spoils \cap items # {}
          PROVE  HoldsNone(h, items) /\ \A i, j \in b.spoils \cap items : i = j
      <4>1. b.spoils \cap items = Spoils(h, v, items)
        BY <3>1, SpoilsByKind
      <4>2. \A i \in b.spoils \cap items : i \in items /\ holder[i] = v /\ HoldsNone(h, items)
        BY <4>1 DEF Spoils
      <4>3. Apart(items)
        BY DEF Vaults
      <4> QED
        BY <3>3, <4>2, <4>3 DEF Apart
    <3>4. \A i \in b.spoils : holder[i] = v
      BY <3>1 DEF Spoils
    <3>5. c = b /\ b.home = h
      BY <1>2, <3>1, <3>2
    <3>6. \A i \in c.spoils : holder[i] # Unreleased
      BY <3>4, <3>5, EndgameAssumption
    <3>7. Fits(c)'
      BY <3>3, <3>5 DEF Fits, HoldsNone
    <3> QED
      BY <3>6, <3>7
  <2>3. stage'[s] \notin {Ready, Down} /\ stage'[s] \notin Sweeping /\ stage'[s] \notin Alliances
    BY <1>2, Strangers, NoSweepIsStrike
  <2> QED
    BY <2>1, <2>2, <2>3, StageMoves, ReadsAre
<1> QED
  BY <1>1, <1>2 DEF Vaults, Placed, Fitting

LEMMA VaultsApply ==
  ASSUME TypeOK, Vaults, NEW s \in Instances, ApplyStrike(s), InTurn'
  PROVE  Vaults'
<1> DEFINE b == stage[s]
<1>1. /\ b \in Strike /\ Turns(s, Ready)
      /\ holder' = [i \in Items |-> IF i \in b.spoils /\ holder[i] = b.target THEN b.home ELSE holder[i]]
  BY DEF ApplyStrike
<1>2. Fits(b) /\ b.home \in Villages
  BY <1>1 DEF Vaults, Fitting, Strike
<1>3. \A r \in Instances : stage'[r] \in Strike => r # s /\ stage'[r] = stage[r]
  BY <1>1, Strangers DEF Turns, TypeOK
<1>4. ASSUME NEW r \in Instances, r # s, stage[r] \in Strike, NEW items \in Kinds,
             stage[r].home = b.home, stage[r].spoils \cap items # {}
      PROVE  b.spoils \cap items = {}
  BY <1>1, <1>4 DEF Vaults, InTurn
<1> HIDE DEF b
<1>5. ASSUME NEW items \in Kinds PROVE Apart(items)'
  <2> SUFFICES ASSUME NEW i \in items, NEW j \in items, holder'[i] \in Villages, holder'[i] = holder'[j]
               PROVE  i = j
    BY DEF Apart
  <2>1. i \in Items /\ j \in Items /\ Apart(items)
    BY KindsApart DEF Vaults
  <2>2. CASE holder'[i] = holder[i] /\ holder'[j] = holder[j]
    BY <2>1, <2>2 DEF Apart
  <2>3. CASE \E k \in {i, j} : k \in b.spoils /\ holder'[k] = b.home
    <3>1. b.spoils \cap items # {} /\ holder'[i] = b.home /\ holder'[j] = b.home
      BY <2>3
    <3>2. HoldsNone(b.home, items) /\ \A k, l \in b.spoils \cap items : k = l
      BY <1>2, <3>1 DEF Fits
    <3>3. i \in b.spoils /\ j \in b.spoils
      BY <1>1, <2>1, <3>1, <3>2 DEF HoldsNone
    <3> QED
      BY <3>2, <3>3
  <2> QED
    BY <1>1, <2>1, <2>2, <2>3
<1>6. ASSUME NEW r \in Instances, NEW c \in Strike, stage'[r] = c
      PROVE  Fits(c)' /\ \A i \in c.spoils : holder'[i] # Unreleased
  <2>1. r # s /\ stage[r] = c /\ c.spoils \subseteq Items
    BY <1>3, <1>6 DEF Strike
  <2>2. \A i \in c.spoils : holder'[i] # Unreleased
    BY <1>1, <1>2, <2>1, KindsApart DEF Vaults, Placed
  <2>3. ASSUME NEW items \in Kinds, c.spoils \cap items # {}
        PROVE  (\A i \in items : holder'[i] # c.home) /\ \A i, j \in c.spoils \cap items : i = j
    <3>1. HoldsNone(c.home, items) /\ \A i, j \in c.spoils \cap items : i = j
      BY <2>1, <2>3 DEF Vaults, Fitting, Fits
    <3>2. ASSUME NEW i \in items PROVE holder'[i] # c.home
      <4>1. i \in Items /\ holder[i] # c.home
        BY <3>1, KindsApart DEF HoldsNone
      <4>2. CASE c.home = b.home
        BY <1>1, <1>4, <2>1, <2>3, <4>1, <4>2
      <4>3. CASE c.home # b.home
        BY <1>1, <4>1, <4>3
      <4> QED
        BY <4>2, <4>3
    <3> QED
      BY <3>1, <3>2
  <2> QED
    BY <2>1, <2>2, <2>3 DEF Fits, HoldsNone
<1> QED
  BY <1>5, <1>6 DEF Vaults, Placed, Fitting

\* What a sweep or a release does to what has been read: a village which held nothing of a kind
\* still does, where items of that kind had been released.
LEMMA VaultsPlaced ==
  ASSUME TypeOK, Vaults, \A r \in Instances : stage'[r] \in Strike => stage'[r] = stage[r],
         \A items \in Kinds : Apart(items)',
         \A i \in Items : holder[i] # Unreleased => holder'[i] \in {holder[i], Dropped},
         \A items \in Kinds : Released(items) => \A i \in items : holder'[i] \in {holder[i], Dropped}
  PROVE  Vaults'
<1>1. InTurn'
  BY DEF Vaults, InTurn
<1>2. ASSUME NEW r \in Instances, stage'[r] = stage[r], stage[r] \in Strike
      PROVE  Fits(stage[r])' /\ \A i \in stage[r].spoils : holder'[i] # Unreleased
  <2>1. stage[r].spoils \subseteq Items /\ stage[r].home \in Villages
    BY <1>2 DEF Strike
  <2>2. \A i \in stage[r].spoils : holder[i] # Unreleased
    BY <1>2 DEF Vaults, Placed
  <2>3. \A i \in stage[r].spoils : holder'[i] # Unreleased
    BY <2>1, <2>2, EndgameAssumption
  <2>4. ASSUME NEW items \in Kinds, stage[r].spoils \cap items # {}
        PROVE  (\A i \in items : holder'[i] # stage[r].home) /\ \A i, j \in stage[r].spoils \cap items : i = j
    <3>1. HoldsNone(stage[r].home, items) /\ \A i, j \in stage[r].spoils \cap items : i = j
      BY <1>2, <2>4 DEF Vaults, Fitting, Fits
    <3>2. Released(items)
      BY <2>2, <2>4 DEF Released
    <3> QED
      BY <2>1, <3>1, <3>2, KindsApart DEF HoldsNone
  <2> QED
    BY <1>2, <2>3, <2>4 DEF Fits, HoldsNone
<1> QED
  BY <1>1, <1>2 DEF Vaults, Placed, Fitting

LEMMA VaultsSweep ==
  ASSUME TypeOK, Vaults, NEW s \in Instances, Sweep(s)
  PROVE  Vaults'
<1> DEFINE gone == {v \in stage[s].doomed : owner[v] \in stage[s].victims}
<1>1. Turns(s, Ready) /\ holder' = [i \in Items |-> IF holder[i] \in gone THEN Dropped ELSE holder[i]]
  BY DEF Sweep
<1> HIDE DEF gone
<1>2. \A i \in Items : holder'[i] \in {holder[i], Dropped}
  BY <1>1
<1>3. \A items \in Kinds : Apart(items)'
  BY <1>2, KindsApart DEF Vaults, Apart
<1>4. \A r \in Instances : stage'[r] \in Strike => stage'[r] = stage[r]
  BY <1>1, Strangers DEF Turns, TypeOK
<1> QED
  BY <1>2, <1>3, <1>4, KindsApart, VaultsPlaced

\* The catalogue goes to as many tiles as it has items.
LEMMA VaultsArtifacts ==
  ASSUME TypeOK, Vaults, NEW s \in Instances, ReleaseArtifacts(s)
  PROVE  Vaults'
<1> DEFINE rank(i) == CHOOSE n \in DOMAIN Catalogue : Catalogue[n] = i
<1>1. /\ stage' = stage /\ ~ Released(Artifacts)
      /\ holder' = [i \in Items |-> IF i \in Artifacts THEN Tiles[rank(i)] ELSE holder[i]]
  BY DEF ReleaseArtifacts
<1>2. \A i \in Artifacts : rank(i) \in DOMAIN Tiles /\ Catalogue[rank(i)] = i
  BY CatalogueTiles
<1> HIDE DEF rank
<1>3. \A i, j \in Artifacts : Tiles[rank(i)] = Tiles[rank(j)] => i = j
  BY <1>2, EndgameAssumption
<1>4. \A items \in Kinds : Apart(items)'
  <2>1. Apart(Artifacts)'
    BY <1>1, <1>3, KindsApart DEF Apart, Kinds
  <2>2. Apart(Plans)'
    <3>1. \A i \in Plans : i \in Items /\ i \notin Artifacts
      BY KindsApart, EndgameAssumption DEF Kinds
    <3> QED
      BY <1>1, <3>1 DEF Apart, Vaults, Kinds
  <2> QED
    BY <2>1, <2>2 DEF Kinds
<1>5. \A i \in Items : holder[i] # Unreleased => holder'[i] = holder[i]
  BY <1>1 DEF Released
<1>6. \A items \in Kinds : Released(items) => \A i \in items : holder'[i] = holder[i]
  <2>1. \A i \in Plans : holder'[i] = holder[i]
    BY <1>1, KindsApart, EndgameAssumption DEF Kinds
  <2> QED
    BY <1>1, <2>1 DEF Kinds
<1> QED
  BY <1>1, <1>4, <1>5, <1>6, VaultsPlaced

\* What stands at the same distance from one number is the same.
LEMMA SameRank ==
  ASSUME NEW a \in Int, NEW b \in Int, NEW c \in Int, c + a = c + b
  PROVE  a = b
OBVIOUS

\* A tile has one rank among the free ones, so that no two plans go to the same.
LEMMA VaultsWonder ==
  ASSUME TypeOK, Vaults, NEW s \in Instances, ReleaseWonder(s)
  PROVE  Vaults'
<1>1. /\ stage' = stage /\ ~ Released(Plans)
      /\ \A x \in Items : \/ \E i \in DOMAIN Tiles : Vault(i, x) /\ holder'[x] = Tiles[i]
                          \/ holder'[x] = holder[x]
  BY WonderPlaces DEF WonderDue
<1>2. \A x \in Items : x \notin Plans => holder'[x] = holder[x]
  BY <1>1, VaultsOfPlans
<1>3. ASSUME NEW x \in Plans, NEW y \in Plans, holder'[x] \in Villages, holder'[x] = holder'[y]
      PROVE  x = y
  <2>1. x \in Items /\ y \in Items /\ holder[x] = Unreleased /\ holder[y] = Unreleased
    BY <1>1, KindsApart DEF Released, Kinds
  <2>2. PICK i \in DOMAIN Tiles : Vault(i, x) /\ holder'[x] = Tiles[i]
    BY <1>1, <1>3, <2>1, KindsApart
  <2>3. PICK j \in DOMAIN Tiles : Vault(j, y) /\ holder'[y] = Tiles[j]
    BY <1>1, <1>3, <2>1, KindsApart
  <2>4. i = j
    BY <1>3, <2>2, <2>3, EndgameAssumption
  <2>5. PICK k \in DOMAIN PlanIds : PlanIds[k] = x /\ FreeTile(i, SiteCount + k)
    BY <2>2 DEF Vault
  <2>6. PICK l \in DOMAIN PlanIds : PlanIds[l] = y /\ FreeTile(i, SiteCount + l)
    BY <2>3, <2>4 DEF Vault
  <2>7. SiteCount + k = SiteCount + l
    BY <2>5, <2>6 DEF FreeTile
  <2>8. k \in Int /\ l \in Int /\ SiteCount \in Int
    <3>1. DOMAIN PlanIds = 1 .. Len(PlanIds) /\ SiteCount \in Nat
      BY EndgameAssumption
    <3> QED
      BY <2>5, <2>6, <3>1
  <2>9. k = l
    BY <2>7, <2>8, SameRank
  <2> QED
    BY <2>5, <2>6, <2>9
<1>4. \A items \in Kinds : Apart(items)'
  <2>1. Apart(Plans)'
    BY <1>3 DEF Apart
  <2>2. Apart(Artifacts)'
    <3>1. \A i \in Artifacts : i \in Items /\ i \notin Plans
      BY KindsApart, EndgameAssumption DEF Kinds
    <3> QED
      BY <1>2, <3>1 DEF Apart, Vaults, Kinds
  <2> QED
    BY <2>1, <2>2 DEF Kinds
<1>5. \A i \in Items : holder[i] # Unreleased => holder'[i] = holder[i]
  BY <1>1, <1>2 DEF Released
<1>6. \A items \in Kinds : Released(items) => \A i \in items : holder'[i] = holder[i]
  <2>1. \A i \in Artifacts : holder'[i] = holder[i]
    BY <1>2, KindsApart, EndgameAssumption DEF Kinds
  <2> QED
    BY <1>1, <2>1 DEF Kinds
<1> QED
  BY <1>1, <1>4, <1>5, <1>6, VaultsPlaced

LEMMA VaultsStep ==
  ASSUME TypeOK, Vaults, [Next /\ Quiet]_vars
  PROVE  Vaults'
<1>0. InTurn'
  <2>1. CASE UNCHANGED vars
    BY <2>1 DEF vars, Vaults, InTurn
  <2>2. CASE Quiet
    BY <2>2 DEF Quiet, SpoilsInTurn, InTurn, Kinds
  <2> QED
    BY <2>1, <2>2
<1>1. CASE UNCHANGED vars \/ CalmWeb \/ Orders
  <2>1. holder' = holder
    BY <1>1, CalmKeeps DEF vars
  <2> QED
    BY <1>0, <2>1, VaultsStill
<1>2. ASSUME NEW s \in Instances, Calm(s) \/ \E v \in Villages : BuildWonder(s, v) PROVE Vaults'
  <2>1. holder' = holder
    BY <1>2, CalmKeeps DEF BuildWonder
  <2> QED
    BY <1>0, <2>1, VaultsStill
<1>3. ASSUME NEW s \in Instances, ApplyStrike(s) PROVE Vaults'
  BY <1>0, <1>3, VaultsApply
<1>4. ASSUME NEW s \in Instances, ReleaseArtifacts(s) \/ ReleaseWonder(s) PROVE Vaults'
  BY <1>4, VaultsArtifacts, VaultsWonder
<1>5. ASSUME NEW s \in Instances, Sweep(s) PROVE Vaults'
  BY <1>5, VaultsSweep
<1> QED
  BY <1>1, <1>2, <1>3, <1>4, <1>5, Steps

LEMMA OneByOne ==
  ASSUME TypeOK, Vaults
  PROVE  OneVault
<1> SUFFICES ASSUME NEW v \in Villages, NEW items \in Kinds
             PROVE  Cardinality({i \in items : holder[i] = v}) <= 1
  BY DEF OneVault, Kinds
<1> DEFINE held == {i \in items : holder[i] = v}
<1>1. \A i, j \in held : i = j
  BY DEF Vaults, Apart
<1>2. CASE held = {}
  BY <1>2, FS_EmptySet
<1>3. CASE held # {}
  <2>1. PICK i : held = {i}
    <3>1. PICK i \in held : TRUE
      BY <1>3
    <3>2. held = {i}
      BY <1>1, <3>1
    <3> QED
      BY <3>2
  <2> QED
    BY <2>1, FS_Singleton
<1> QED
  BY <1>2, <1>3

\* In every quiet history no village ever holds two artifacts or two plans, however they are
\* captured, released and dropped (can_capture, capture_artifact, capture_plan).
THEOREM EndgameOneVault == QuietSpec => []OneVault
<1> DEFINE I == TypeOK /\ SiteDraft /\ Vaults
<1>1. Init => I
  <2> SUFFICES ASSUME Init PROVE I
    OBVIOUS
  <2>1. \A s \in Instances : stage[s] \notin Strike
    BY Strangers DEF Init
  <2>2. \A items \in Kinds : Apart(items)
    BY KindsApart DEF Init, Apart
  <2> QED
    BY <2>1, <2>2, TypeInit DEF Vaults, Placed, Fitting, InTurn
<1>2. I /\ [Next /\ Quiet]_vars => I'
  BY TypeStep, VaultsStep
<1>3. I => OneVault
  BY OneByOne
<1> QED
  BY <1>1, <1>2, <1>3, PTL DEF QuietSpec
=============================================================================
