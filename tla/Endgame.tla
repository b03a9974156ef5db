------------------------------ MODULE Endgame ------------------------------
(***************************************************************************)
(* The last act of a world: artifacts and Wonder plans released into Natar   *)
(* villages and captured by force, Wonder sites conquered and built on, the  *)
(* sweep that retires idle accounts, and the victory that ends the round.   *)
(* Several instances of the server run the same loop on one database; other  *)
(* worlds on it share the accounts and the ids of the artifacts.             *)
(***************************************************************************)
EXTENDS Integers, FiniteSets, Sequences

CONSTANTS
  Instances, Players, Alliances, Tag,  \* Tag orders the alliances
  Home, Tiles,                         \* the capital of a player; the reserved tiles, in ring order
  Catalogue, PlanIds, SiteCount,       \* the artifacts and plans a release places, in order; the sites
  Treasury, Needs,                     \* the Treasury of a village; the level an item needs
  Top,                                 \* MAX_WONDER_LEVEL
  ArtifactAt, WonderAt, Period,        \* the days of the releases; the time between two sweeps
  FirstMember,                         \* who is in which alliance when the story begins
  MaxClock, MaxStrikes, MaxMoves, MaxUpsets, \* bounds
  Natars, Nobody, Unreleased, Dropped, NoAlliance, NoDraft, NoLevel, Ready, Down

Reserved == {Tiles[i] : i \in DOMAIN Tiles}
Homes == {Home[p] : p \in Players}
Villages == Homes \cup Reserved
Artifacts == {Catalogue[i] : i \in DOMAIN Catalogue}
Plans == {PlanIds[i] : i \in DOMAIN PlanIds}
Items == Artifacts \cup Plans

ASSUME EndgameAssumption ==
  /\ Home \in [Players -> Homes] /\ Tiles \in Seq(Reserved)
  /\ \A p, q \in Players : Home[p] = Home[q] => p = q
  /\ \A i, j \in DOMAIN Tiles : Tiles[i] = Tiles[j] => i = j
  /\ Catalogue \in Seq(Artifacts) /\ PlanIds \in Seq(Plans)
  /\ \A i, j \in DOMAIN Catalogue : Catalogue[i] = Catalogue[j] => i = j
  /\ \A i, j \in DOMAIN PlanIds : PlanIds[i] = PlanIds[j] => i = j
  /\ Homes \cap Reserved = {} /\ Artifacts \cap Plans = {}
  /\ Treasury \in [Villages -> Nat] /\ Needs \in [Items -> Nat]
  /\ Tag \in [Alliances -> Nat] /\ \A a, b \in Alliances : Tag[a] = Tag[b] => a = b
  /\ Top \in Nat \ {0} /\ Period \in Nat \ {0} /\ SiteCount \in Nat \ {0}
  /\ {ArtifactAt, WonderAt, MaxClock, MaxStrikes, MaxMoves, MaxUpsets} \subseteq Nat
  /\ Nobody \notin Players \cup {Natars} /\ Natars \notin Players
  /\ {Unreleased, Dropped} \cap Villages = {} /\ Unreleased # Dropped
  /\ NoAlliance \notin Alliances /\ FirstMember \in [Players -> Alliances \cup {NoAlliance}]
  /\ NoLevel \notin Nat

\* The ring of reserved tiles has room for everything that is ever released.
ASSUME RoomForAll ==
  Len(PlanIds) > 0 /\ Len(Catalogue) + SiteCount + Len(PlanIds) <= Len(Tiles)

Time == 0 .. MaxClock
Level == 0 .. Top
Strike == [home : Villages, target : Villages, by : Players, from : Players \cup {Natars},
           spoils : SUBSET Items, conquers : BOOLEAN, razes : Level \cup {NoLevel}]
Sweeping == [victims : SUBSET Players, doomed : SUBSET Villages]
Stages == Strike \cup Sweeping \cup Alliances \cup {Ready, Down}
Draft == [by : Players, site : Villages]

ASSUME Strangers ==
  /\ NoDraft \notin Draft /\ Ready # Down
  /\ {Ready, Down} \cap Alliances = {} /\ Ready \notin Strike /\ Down \notin Strike
  /\ Ready \notin Sweeping /\ Down \notin Sweeping
  /\ \A a \in Alliances : a \notin Strike /\ a \notin Sweeping

VARIABLES
  clock,
  retired,               \* whether an account is abandoned, and whose sweep did it
  member,                \* the alliance of a player
  owner, sites,          \* villages: their owner, and those that are Wonder sites
  holder,                \* holder_village of an artifact or a plan
  wonder, building,      \* the level of the Wonder in a village; the level an order will leave there
  draft,                 \* a Wonder order whose gate has been checked
  stage,                 \* what each instance is at: a battle, a sweep, a winner to record, Ready or Down
  won, swept,            \* winner_alliance_id; the periods swept
  taken,                 \* another world on this database has released the catalogue first
  strikes, moves, upsets

vars == <<clock, retired, member, owner, sites, holder, wonder, building, draft, stage,
          won, swept, taken, strikes, moves, upsets>>
map == <<owner, sites, wonder, building>>
counts == <<strikes, moves, upsets>>

Exists(v) == owner[v] # Nobody
Released(items) == \E i \in items : holder[i] # Unreleased
HoldsNone(v, items) == \A i \in items : holder[i] # v
Conquerable(v) == v \in sites

\* top_wonders: the alliances of those who own a site with a Wonder of at least a level.
Standing(level) == {a \in Alliances : \E p \in Players, v \in sites :
                      member[p] = a /\ owner[v] = p /\ wonder[v] >= level}
First(as) == CHOOSE a \in as : \A b \in as : Tag[a] <= Tag[b]
HoldsPlan(a) == \E i \in Plans, p \in Players :
                  member[p] = a /\ holder[i] \in Villages /\ owner[holder[i]] = p

Idle(s) == stage[s] = Ready
Turns(s, x) == stage' = [stage EXCEPT ![s] = x]

-----------------------------------------------------------------------------
(* Web requests, once action_guard has seen that the world goes on *)

\* order_wonder_build: a site of one's own, an alliance that holds a plan, a Wonder below the top.
AskWonder(p, v) ==
  /\ won = NoAlliance /\ draft = NoDraft
  /\ v \in sites /\ owner[v] = p
  /\ member[p] # NoAlliance /\ HoldsPlan(member[p])
  /\ wonder[v] < Top
  /\ draft' = [by |-> p, site |-> v]
  /\ UNCHANGED <<clock, retired, member, map, holder, stage, won, swept, taken, counts>>

\* select_village: the village asked for, else the capital, else any other of the player's.
Selects(p, v) ==
  LET own == {w \in Villages : owner[w] = p} IN
  IF v \in own THEN {v} ELSE IF Home[p] \in own THEN {Home[p]} ELSE own

\* Mutant: the top is not looked at again.
PlaceStale ==
  /\ draft # NoDraft /\ draft' = NoDraft
  /\ \/ \E v \in Selects(draft.by, draft.site) :
          building[v] = NoLevel /\ building' = [building EXCEPT ![v] = wonder[v] + 1]
     \/ UNCHANGED building
  /\ UNCHANGED <<clock, retired, member, owner, sites, wonder, holder, stage, won, swept, taken, counts>>

\* place_build_order selects the village anew, and may refuse.
PlaceWonder ==
  /\ draft # NoDraft /\ draft' = NoDraft
  /\ \/ \E v \in Selects(draft.by, draft.site) :
          /\ building[v] = NoLevel /\ wonder[v] < Top
          /\ building' = [building EXCEPT ![v] = wonder[v] + 1]
     \/ UNCHANGED building
  /\ UNCHANGED <<clock, retired, member, owner, sites, wonder, holder, stage, won, swept, taken, counts>>

\* order_demolish: the owner of a Wonder may have it taken down, a level an order.
Demolish(p, v) ==
  /\ won = NoAlliance /\ moves < MaxMoves
  /\ owner[v] = p /\ wonder[v] > 0 /\ building[v] = NoLevel
  /\ building' = [building EXCEPT ![v] = wonder[v] - 1] /\ moves' = moves + 1
  /\ UNCHANGED <<clock, retired, member, owner, sites, wonder, holder, draft, stage, won, swept, taken,
                 strikes, upsets>>

\* A player joins an alliance or leaves his.
ChangeAlliance(p, a) ==
  /\ won = NoAlliance /\ retired[p] = "no" /\ moves < MaxMoves
  /\ (member[p] = NoAlliance) # (a = NoAlliance)
  /\ member' = [member EXCEPT ![p] = a] /\ moves' = moves + 1
  /\ UNCHANGED <<clock, retired, map, holder, draft, stage, won, swept, taken, strikes, upsets>>

-----------------------------------------------------------------------------
(* The passes: battles and builds *)

\* Mutant: a village may hold as many as it takes.
SpoilsGreedy(h, v, items) == {i \in items : holder[i] = v /\ Treasury[h] >= Needs[i]}

\* can_capture: the Treasury is high enough, and nothing of the kind is held at home.
Spoils(h, v, items) == {i \in items : holder[i] = v /\ Treasury[h] >= Needs[i] /\ HoldsNone(h, items)}

\* pick_razed_target: the Wonder, like any other building, may be what the catapults bring down.
RazedLevels(v) == {NoLevel} \cup {l \in Level : l < wonder[v]}

\* resolve_attack_one reads what a won attack brings: spoils, the village, a Wonder brought down, or
\* several of them.  It takes the owner of the attack's row as he was when it left.
ReadStrike(s, h, v) ==
  /\ Idle(s) /\ strikes < MaxStrikes /\ strikes' = strikes + 1
  /\ owner[h] \in Players /\ Exists(v) /\ h # v
  /\ LET spoils == Spoils(h, v, Artifacts) \cup Spoils(h, v, Plans) IN
     \E by \in Players, c \in BOOLEAN, l \in RazedLevels(v) :
       /\ c => Conquerable(v)
       /\ c \/ spoils # {} \/ l # NoLevel
       /\ Turns(s, [home |-> h, target |-> v, by |-> by, from |-> owner[v], conquers |-> c,
                    spoils |-> spoils, razes |-> l])
  /\ UNCHANGED <<clock, retired, member, map, holder, draft, won, swept, taken, moves, upsets>>

\* apply_battle: ownership guarded by the loser, each item by the village it was seen in.
Sound(b) == Exists(b.home) /\ Exists(b.target) /\ (b.conquers => owner[b.target] = b.from)

\* Levels are set, not subtracted; a Wonder that has been taken down to nothing may have no row left.
Remains(b) == IF b.razes = NoLevel \/ b.target \notin sites THEN {wonder[b.target]}
              ELSE {b.razes} \cup ({0} \cap {wonder[b.target]})

\* One step, at the commit: whatever it writes stays locked till then, and a guard is evaluated
\* anew after a wait.
ApplyStrike(s) ==
  LET b == stage[s] IN
  /\ b \in Strike /\ Sound(b)
  /\ owner' = IF b.conquers THEN [owner EXCEPT ![b.target] = b.by] ELSE owner
  /\ building' = IF b.conquers THEN [building EXCEPT ![b.target] = NoLevel] ELSE building
  /\ \E l \in Remains(b) : wonder' = [wonder EXCEPT ![b.target] = l]
  /\ holder' = [i \in Items |-> IF i \in b.spoils /\ holder[i] = b.target THEN b.home ELSE holder[i]]
  /\ Turns(s, Ready)
  /\ UNCHANGED <<clock, retired, member, sites, draft, won, swept, taken, counts>>

\* The loser has changed or a village is gone: nothing of the battle is written.
LoseStrike(s) ==
  /\ stage[s] \in Strike /\ ~Sound(stage[s])
  /\ Turns(s, Ready)
  /\ UNCHANGED <<clock, retired, member, map, holder, draft, won, swept, taken, counts>>

\* process_due_builds leaves the Wonder at the level that was ordered.
BuildWonder(s, v) ==
  /\ Idle(s) /\ building[v] # NoLevel
  /\ wonder' = [wonder EXCEPT ![v] = building[v]] /\ building' = [building EXCEPT ![v] = NoLevel]
  /\ UNCHANGED <<clock, retired, member, owner, sites, holder, draft, stage, won, swept, taken, counts>>

-----------------------------------------------------------------------------
(* The rest of the loop: with several instances, its parts come in any order *)

\* A period is swept once it is over.
SweepDue == (swept + 1) * Period <= clock

\* sweep_abandoned locks the idle accounts; its DELETE finds the villages they hold at that moment.
\* The period's row in inactivity_sweeps keeps a second sweep waiting.
ReadSweep(s, idlers) ==
  /\ Idle(s) /\ SweepDue /\ \A r \in Instances : stage[r] \notin Sweeping
  /\ Turns(s, [victims |-> idlers, doomed |-> {v \in Villages : owner[v] \in idlers}])
  /\ UNCHANGED <<clock, retired, member, map, holder, draft, won, swept, taken, counts>>

\* Mutant: the accounts are retired and their villages stay.
SweepAccounts(s) ==
  /\ stage[s] \in Sweeping
  /\ retired' = [p \in Players |-> IF p \in stage[s].victims THEN "here" ELSE retired[p]]
  /\ swept' = swept + 1 /\ Turns(s, Ready)
  /\ UNCHANGED <<clock, member, map, holder, draft, won, taken, counts>>

\* It waits for the battles that hold a village of theirs and passes over one that has changed hands;
\* those it removes go with all that is in them, and what they held is held by none.
Sweep(s) ==
  LET gone == {v \in stage[s].doomed : owner[v] \in stage[s].victims} IN
  /\ stage[s] \in Sweeping
  /\ owner' = [v \in Villages |-> IF v \in gone THEN Nobody ELSE owner[v]]
  /\ sites' = sites \ gone
  /\ wonder' = [v \in Villages |-> IF v \in gone THEN 0 ELSE wonder[v]]
  /\ building' = [v \in Villages |-> IF v \in gone THEN NoLevel ELSE building[v]]
  /\ holder' = [i \in Items |-> IF holder[i] \in gone THEN Dropped ELSE holder[i]]
  /\ retired' = [p \in Players |-> IF p \in stage[s].victims THEN "here" ELSE retired[p]]
  /\ swept' = swept + 1 /\ Turns(s, Ready)
  /\ UNCHANGED <<clock, member, draft, won, taken, counts>>

\* release_artifacts places the catalogue on the first tiles; a tile or an id that is taken fails it.
ReleaseArtifacts(s) ==
  /\ Idle(s) /\ clock >= ArtifactAt /\ ~Released(Artifacts)
  /\ ~taken /\ \A i \in DOMAIN Catalogue : ~Exists(Tiles[i])
  /\ owner' = [v \in Villages |-> IF \E i \in DOMAIN Catalogue : Tiles[i] = v THEN Natars ELSE owner[v]]
  /\ holder' = [i \in Items |-> IF i \in Artifacts THEN Tiles[CHOOSE n \in DOMAIN Catalogue : Catalogue[n] = i]
                                ELSE holder[i]]
  /\ UNCHANGED <<clock, retired, member, sites, wonder, building, draft, stage, won, swept, taken, counts>>

\* release_wonder: sites first, then the plans, on the tiles that are free.
WonderDue == clock >= WonderAt /\ ~Released(Plans) /\ sites = {}
FreeTile(i, n) == ~Exists(Tiles[i]) /\ Cardinality({j \in 1 .. i : ~Exists(Tiles[j])}) = n

\* Mutant: the tiles are taken from the first one on, whoever is there.
ReleaseOnFirst(s) ==
  /\ Idle(s) /\ WonderDue /\ \A k \in 1 .. SiteCount + Len(PlanIds) : ~Exists(Tiles[k])
  /\ owner' = [v \in Villages |-> IF \E k \in 1 .. SiteCount + Len(PlanIds) : Tiles[k] = v THEN Natars ELSE owner[v]]
  /\ sites' = {Tiles[k] : k \in 1 .. SiteCount}
  /\ holder' = [i \in Items |-> IF \E k \in DOMAIN PlanIds : PlanIds[k] = i
       THEN Tiles[SiteCount + CHOOSE k \in DOMAIN PlanIds : PlanIds[k] = i] ELSE holder[i]]
  /\ UNCHANGED <<clock, retired, member, wonder, building, draft, stage, won, swept, taken, counts>>

ReleaseWonder(s) ==
  LET Site(i) == \E n \in 1 .. SiteCount : FreeTile(i, n)
      Vault(i, x) == \E k \in DOMAIN PlanIds : PlanIds[k] = x /\ FreeTile(i, SiteCount + k)
  IN
  /\ Idle(s) /\ WonderDue
  /\ owner' = [v \in Villages |->
       IF \E i \in DOMAIN Tiles : Tiles[i] = v /\ (Site(i) \/ \E x \in Plans : Vault(i, x))
       THEN Natars ELSE owner[v]]
  /\ sites' = {Tiles[i] : i \in {j \in DOMAIN Tiles : Site(j)}}
  /\ holder' = [x \in Items |-> IF \E i \in DOMAIN Tiles : Vault(i, x)
                                THEN Tiles[CHOOSE i \in DOMAIN Tiles : Vault(i, x)] ELSE holder[x]]
  /\ UNCHANGED <<clock, retired, member, wonder, building, draft, stage, won, swept, taken, counts>>

\* Mutant: the leader of the race wins.
ReadLeader(s) ==
  /\ Idle(s) /\ won = NoAlliance /\ Standing(1) # {}
  /\ Turns(s, First(Standing(1)))
  /\ UNCHANGED <<clock, retired, member, map, holder, draft, won, swept, taken, counts>>

\* process_due_wonder_victory reads the standings ...
ReadVictory(s) ==
  /\ Idle(s) /\ won = NoAlliance /\ Standing(Top) # {}
  /\ Turns(s, First(Standing(Top)))
  /\ UNCHANGED <<clock, retired, member, map, holder, draft, won, swept, taken, counts>>

\* ... and record_victory writes the leader, once.
Record(s) ==
  /\ stage[s] \in Alliances
  /\ won' = IF won = NoAlliance THEN stage[s] ELSE won
  /\ Turns(s, Ready)
  /\ UNCHANGED <<clock, retired, member, map, holder, draft, swept, taken, counts>>

-----------------------------------------------------------------------------
(* Failures, time and the other worlds *)

\* A transaction fails and is only logged.
Fail(s) ==
  /\ stage[s] \notin {Ready, Down} /\ upsets < MaxUpsets /\ upsets' = upsets + 1
  /\ Turns(s, Ready)
  /\ UNCHANGED <<clock, retired, member, map, holder, draft, won, swept, taken, strikes, moves>>

Crash(s) ==
  /\ stage[s] # Down /\ upsets < MaxUpsets /\ upsets' = upsets + 1
  /\ Turns(s, Down)
  /\ UNCHANGED <<clock, retired, member, map, holder, draft, won, swept, taken, strikes, moves>>

Restart(s) ==
  /\ stage[s] = Down /\ Turns(s, Ready)
  /\ UNCHANGED <<clock, retired, member, map, holder, draft, won, swept, taken, counts>>

Tick == /\ clock < MaxClock /\ clock' = clock + 1
        /\ UNCHANGED <<retired, member, map, holder, draft, stage, won, swept, taken, counts>>

\* The ids of artifacts are unique in the database, and every world releases the same catalogue.
OtherRelease ==
  /\ ~taken /\ ~Released(Artifacts) /\ upsets < MaxUpsets
  /\ taken' = TRUE /\ upsets' = upsets + 1
  /\ UNCHANGED <<clock, retired, member, map, holder, draft, stage, won, swept, strikes, moves>>

\* The sweep of another world retires the account, unless one here has it locked, and frees nothing here.
OtherSweep(p) ==
  /\ retired[p] = "no" /\ \A s \in Instances : stage[s] \in Sweeping => p \notin stage[s].victims
  /\ upsets < MaxUpsets
  /\ retired' = [retired EXCEPT ![p] = "elsewhere"] /\ upsets' = upsets + 1
  /\ UNCHANGED <<clock, member, map, holder, draft, stage, won, swept, taken, strikes, moves>>

-----------------------------------------------------------------------------
Init ==
  /\ clock = 0
  /\ retired = [p \in Players |-> "no"] /\ member = FirstMember
  /\ owner = [v \in Villages |-> IF v \in Homes THEN CHOOSE p \in Players : Home[p] = v ELSE Nobody]
  /\ sites = {} /\ holder = [i \in Items |-> Unreleased]
  /\ wonder = [v \in Villages |-> 0] /\ building = [v \in Villages |-> NoLevel]
  /\ draft = NoDraft /\ stage = [s \in Instances |-> Ready]
  /\ won = NoAlliance /\ swept = 0 /\ taken = FALSE
  /\ strikes = 0 /\ moves = 0 /\ upsets = 0

Web == \/ \E p \in Players, v \in Villages : AskWonder(p, v)
       \/ \E p \in Players, v \in Villages : Demolish(p, v)
       \/ PlaceWonder
       \/ \E p \in Players, a \in Alliances \cup {NoAlliance} : ChangeAlliance(p, a)

Battles(s) == \/ \E h, v \in Villages : ReadStrike(s, h, v)
              \/ ApplyStrike(s) \/ LoseStrike(s)
              \/ \E v \in Villages : BuildWonder(s, v)

Idlers == {p \in Players : retired[p] = "no"}

\* What an instance does next with what is there.
Loop(s) == \/ ApplyStrike(s) \/ LoseStrike(s)
           \/ Sweep(s) \/ \E idlers \in SUBSET Idlers : ReadSweep(s, idlers)
           \/ ReleaseArtifacts(s) \/ ReleaseWonder(s)
           \/ ReadVictory(s) \/ Record(s)

Around == Tick \/ OtherRelease \/ \E p \in Players : OtherSweep(p)

Next == Web \/ Around \/ \E s \in Instances : Battles(s) \/ Loop(s) \/ Fail(s) \/ Crash(s) \/ Restart(s)

Spec == Init /\ [][Next]_vars

\* A quiet history: no Wonder is placed before the artifacts are; between the reading of the
\* standings and their recording nothing moves in them, no member, no site, no level; no two
\* instances resolve battles that bring spoils of a kind to the same village at once; nobody loses
\* his site between the check of a Wonder order and its placing; the home of an attack is its
\* sender's, when it is resolved and until that is done, or gone; and no village comes to somebody
\* while he is being swept.
ArtifactsFirst == ~(sites' \subseteq sites) => Released(Artifacts) \/ taken
Waits(s) == stage'[s] = stage[s]
StandingStands == (\E s \in Instances : stage[s] \in Alliances /\ Waits(s)) => <<member, map>>' = <<member, map>>
SpoilsInTurn == \A s, r \in Instances :
  s # r /\ stage'[s] \in Strike /\ stage'[r] \in Strike /\ stage'[s].home = stage'[r].home =>
    \A items \in {Artifacts, Plans} : stage'[s].spoils \cap items = {} \/ stage'[r].spoils \cap items = {}
SiteKept == draft # NoDraft /\ draft' = draft => owner'[draft.site] = owner[draft.site]
HomeKept == \A s \in Instances : stage'[s] \in Strike =>
  owner'[stage'[s].home] \in {stage'[s].by, Nobody}
SweepsAlone == \A s \in Instances : stage[s] \in Sweeping /\ Waits(s) =>
  \A v \in Villages : owner'[v] \in stage[s].victims => owner'[v] = owner[v]
Quiet == ArtifactsFirst /\ StandingStands /\ SpoilsInTurn /\ SiteKept /\ HomeKept /\ SweepsAlone

QuietSpec == Init /\ [][Next /\ Quiet]_vars

\* The loops go on, instances are restarted, a request comes to an end, time passes.
FairQuietSpec == /\ QuietSpec
                 /\ \A s \in Instances : WF_vars(Loop(s) /\ Quiet) /\ WF_vars(Restart(s) /\ Quiet)
                 /\ WF_vars(PlaceWonder /\ Quiet) /\ WF_vars(Tick /\ Quiet)

-----------------------------------------------------------------------------
(* Properties *)

\* Every variable has its type: no Wonder rises above the top, nothing is held by a village
\* that does not exist, and nothing but a site bears a Wonder.
TypeOK ==
  /\ clock \in Time /\ retired \in [Players -> {"no", "here", "elsewhere"}]
  /\ member \in [Players -> Alliances \cup {NoAlliance}]
  /\ owner \in [Villages -> Players \cup {Natars, Nobody}] /\ sites \subseteq Reserved
  /\ holder \in [Items -> Villages \cup {Unreleased, Dropped}]
  /\ \A i \in Items : holder[i] \in Villages => Exists(holder[i])
  /\ wonder \in [Villages -> Level] /\ building \in [Villages -> Level \cup {NoLevel}]
  /\ \A v \in Villages : building[v] # NoLevel \/ wonder[v] > 0 => v \in sites
  /\ draft \in Draft \cup {NoDraft} /\ stage \in [Instances -> Stages]
  /\ won \in Alliances \cup {NoAlliance} /\ swept \in Nat /\ taken \in BOOLEAN
  /\ strikes \in 0 .. MaxStrikes /\ moves \in 0 .. MaxMoves /\ upsets \in 0 .. MaxUpsets

\* A village holds one artifact and one plan at the most, however items, villages and instances move.
OneVault == \A v \in Villages, items \in {Artifacts, Plans} :
              Cardinality({i \in items : holder[i] = v}) <= 1

\* An account that this world retired has no village here, not even by an attack of his that was being
\* resolved when the sweep began and is applied after it.
AbandonedFreed == \A p \in Players : retired[p] = "here" => \A v \in Villages : owner[v] # p

\* The round is won once, by an alliance that has a finished Wonder.
VictoryEarned == [][won' # won => won = NoAlliance /\ won' \in Standing(Top)]_vars

\* Again and again all that is due has been done: once its day has come the catalogue is released,
\* unless another world took the ids, and so are the sites and the plans; and a finished Wonder has
\* ended the round, unless its alliance has lost it.
RoundEnds == []<>(/\ clock >= ArtifactAt => Released(Artifacts) \/ taken
                  /\ clock >= WonderAt => Released(Plans)
                  /\ Standing(Top) # {} => won # NoAlliance)
=============================================================================
