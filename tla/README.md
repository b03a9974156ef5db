# A TLA+ development of eperica

eperica is a persistent browser strategy game: a Rust server over PostgreSQL in
which villages produce resources, raise buildings, train troops, march, trade,
fight and fall. Nothing in it is simulated tick by tick: a village's store is a
row with a time stamp, an event is a row with a due instant, and a scheduler
claims due rows and applies them while players' web requests read, check and
write the same tables. What can go wrong is what lies between a read and a
write. This directory holds TLA+ models of those parts, TLC configurations that
check them on small instances, and theorems about them that TLAPS checks.

In this document `repo.rs` is `crates/infrastructure/src/repo.rs`,
`event_store.rs` its neighbour, and files such as `build.rs` or `combat.rs`
without a path are the use cases under `crates/application/src/`; all paths are
below `src/`.

## 1. The system

### Layers

| layer | crate | role |
| --- | --- | --- |
| rules | `crates/domain` | pure functions: accrual, costs, battle, travel, culture, ... |
| use cases | `crates/application` | one file per feature: read through ports, apply the rules, call one repository method that commits |
| persistence | `crates/infrastructure` | `repo.rs`: every transaction; `event_store.rs`: the scheduler; balance files, world map |
| web | `crates/web` | pages, JSON API, sessions, the world registry, one scheduler task per running world |
| clients | `crates/bots` | AI players that use the API like anybody else |

A use case reads with several statements, each in its own implicit transaction,
computes, and finally calls ONE repository method, which is one READ COMMITTED
transaction. So a request is: read - read - compute - commit, and anything may
happen at the dashes. The same is true of the scheduler's handlers.

### The scheduler

`Scheduler::run` (`event_store.rs:244`) polls every 200 ms. A poll runs the
passes in a fixed order: events, builds, unit orders, training, movements,
trades, combat, medals, lifecycle, artifact release, wonder release, wonder
victory, scouts, oasis battles, oasis reinforcements, oasis regrowth, settles,
starvation. A pass claims due rows with `UPDATE ... SET status = 'processing'
... FOR UPDATE SKIP LOCKED RETURNING`, handles them one by one, and each handler
ends in a transaction that also marks the row done. A handler that fails is
logged and its row stays `processing`. When the process starts, every
`processing` row of the world goes back to its queue. The scheduler's comments
assume one instance per world (`event_store.rs:149-156`), the operations manual
allows several (`docs/operations/installation.md:17-18`); one instance runs its
passes in one task, so they never interleave, but web requests run beside them
at all times.

### Components, their state, operations and what makes them correct

| component | state | operations | correct when |
| --- | --- | --- | --- |
| Village store (`economy.rs`, `repo.rs`) | `village_resources`: four amounts, `updated_at` | settle-and-debit of a request, clamped credits (trade, loot), raid debit, training settle, cull settle, reward credit | amounts stay in 0..cap, no debit or credit is overwritten, no second produces twice, the stamp is not in the future |
| Construction (`build.rs`) | `build_orders`, `village_fields`, `village_buildings`, `is_capital` | order, demolish, claim, apply, requeue, relocate | one order per lane, one level per order, Residence or Palace, one capital |
| Research, smithy (`units.rs`) | `unit_orders`, research and smithy levels | order, claim, apply | one per lane, applied once |
| Training (`units.rs`) | `training_orders`, garrison | order, deliver a batch, conflict and release | each paid unit delivered once, in time |
| Movements (`movement.rs`) | `troop_movements`, `village_units`, `reinforcements` | dispatch, recall, arrive, requeue | every soldier in exactly one place |
| Combat, siege (`combat.rs`) | the above, levels, loot, reports | attack, raid, resolve, loot return | losses taken once, loot moved and not minted |
| Conquest (`combat.rs`) | owner, loyalty, queues, culture | loyalty hit, take-over | the loser keeps nothing that acts in the village |
| Marketplace (`trade.rs`) | `trade_movements`, merchants (derived) | send, deliver, come home | goods arrive once, merchants within their number |
| Starvation (`starvation.rs`) | `starvation_checks` | re-sync after every change, claim, cull, resolve | an army in want has a check in time, a cull sees what it cuts |
| Scouting (`scouting.rs`) | scout movements, reports | send, resolve | a report tells one moment |
| Oases (`oasis.rs`) | `oases`, `oasis_garrison`, oasis movements | attack, occupy, release, reinforce, recall, regrow | one owner, within the Outpost, every man in one place |
| Culture, settling (`culture.rs`, `settling.rs`) | `player_culture`, settle movements, villages | re-anchor, found, bounce | the lazy sum exact, no more villages than slots, a tile founded once |
| Alliances (`alliance.rs`) | alliances, members, invitations, pacts | found, invite, join, leave, expel, roles, transfer, disband, diplomacy | one founder, the cap, pacts by consent |
| Artifacts, Natars, Wonder, victory (`artifact.rs`, `wonder.rs`) | artifacts, plans, sites, world end | release, capture, lose, build, win | released once, one per treasury, one winner |
| Medals (`medals.rs`), ranking, achievements | snapshots, awards, counters | settle a week, award | a week settled once |
| Quests (`quests.rs`) | claims | claim a reward | a reward once |
| Lifecycle (`lifecycle.rs`) | last activity, retired accounts | sweep | a retired account owns nothing |
| Registry (`crates/web/src/registry.rs`) | running worlds | start, freeze, end | one scheduler per world |
| Accounts (`crates/web/src/lib.rs`, `auth.rs`, `sitting.rs`, `fairplay.rs`, `admin.rs`) | `users` (roles, sanctions), `account_sitters`, `sitter_actions`, `agent_keys`; sessions are cookies | guard, record, extract, check; grant, revoke, sanction, set a role, make an agent, revoke keys | the blocked do nothing, a sitter's acts are on record and never the owner's alone |
| Communication, forum, notifications, profiles, search, settings, spectating, AI players, pages | tables of their own | create, read, update | permissions, uniqueness |

They interact through shared rows, not calls: a trade delivery, a raid, a quest
reward, a training batch and five kinds of web request all write the one
`village_resources` row; a conquest writes owner, queues, garrison, groups,
movements and culture in one transaction while requests hold what they read of
each; the inactivity sweep deletes villages under everything else, and foreign
keys decide what goes with them.

`PROJECT.json` lists every component with what is modelled of it and every hazard
at the line where it bites.

### What is hard here

* A guard that covers less than the decision: the settle stamp covers the store's
  row, not the levels, garrison, owner or standing the same decision was based on.
* The stamp itself: a write that leaves it where it was, or sets it back, lets an
  older read match again.
* A lane index that covers waiting orders and not claimed ones.
* Absolute values computed before the transaction (levels, garrisons, culture).
* A claimed row whose handler fails or whose process dies.
* A change of owner, or the loss of a village, under requests, orders and marches.
* A re-sync (starvation check, culture anchor) that follows a change in a
  transaction of its own, and can be lost or overtaken.
* Two instances of the scheduler, or two worlds, over one database.
* A request judged by four layers in turn, each of which looks up for itself whose it
  is, and takes a look-up that fails for an answer.
## 2. The modules

| module | models | used by |
| --- | --- | --- |
| `Economy` | accrual, truncation, caps, capped deposit, loot | `AtomicStore`, `VillageStore`, `Market` |
| `AtomicStore` | what a village's store promises: each charge and each due row one atomic step | refined by `VillageStore` |
| `VillageStore` | the row, its web writers, its scheduler writers, reward claims, crash and requeue | `MCVillageStore`, `MCCommerce`, `CommerceProofs` |
| `BuildQueue` | build and demolish requests, lanes, builds pass, relocation, razing and conquest, requeue | `MCBuildQueue`, `BuildQueueProofs` |
| `Troops` | garrisons, stationed groups, movements, dispatch and recall, arrival, battle, conquest, cull, requeue | `MCTroops`, `TroopsProofs` |
| `Alliance` | the alliance commands as interleaved requests | `MCSociety`, `SocietyProofs` |
| `Accounts` | a request through the guards, sitting, sanctions, roles, agents' accounts and keys | `MCSociety`, `SocietyProofs` |
| `Realm` | culture, slots, settling, conquest and founding of villages | `MCRealm`, `RealmProofs` |
| `Upkeep` | crop, net rate, training batches and the starvation check | `MCHoldings`, `HoldingsProofs` |
| `Oases` | oasis parties, battles, occupation, regrowth, two instances | `MCHoldings`, `HoldingsProofs` |
| `Market` | shipments between villages, merchants, their way home, two instances | `MCCommerce`, `CommerceProofs` |
| `Endgame` | artifacts, Wonder sites, plans, victory, the sweep, two instances | `MCEndgame`, `EndgameProofs` |

`MC*` modules give the constants values for TLC; `*Proofs` modules hold the
theorems, and `SumProofs` what they need of sums over finite sets. No module uses a RECURSIVE operator, so all of them can be proved
about. `MCHoldings` checks `Upkeep` and `Oases` in one run, `MCCommerce` does it for
`VillageStore` and `Market`, `MCSociety` for `Alliance` and `Accounts`: the two share no state, a variable `part` says which
of them a behaviour is about, and the other stands still.

### VillageStore

| model | code |
| --- | --- |
| `row` (amount, stamp) | one resource of `village_resources` and `updated_at` in milliseconds; the four resources are read and written by the same statements |
| `clock` | the server's `now` |
| `pc`, `asked`, `snap` | a spending request: the `now` it took, the row it read |
| `status`, `applied` | a due row of `training_orders`, `trade_movements`, `troop_movements` or `starvation_checks` |
| `sched` | the pass under way: its `now`, its batch, the row it is on and what it read for it |
| `claim`, `rsnap` | a quest or achievement claim and the amount its transaction read |
| `Ask`, `Price`, `Spend`, `Refuse` | a handler such as `place_build_order` up to `settle_and_debit` (`WHERE ... updated_at = $snapshot`) and its Conflict |
| `Claim`, `ReadStore`, `Apply` | a pass: claim, per row read and compute, apply in one transaction |
| `Retry`, `Release`, `Strand` | the three things that happen to a conflict: a delivery re-reads, then is released; a training batch and a cull are released; a battle or a loot return is logged and stays claimed |
| `RewardRead`, `RewardWrite` | `credit_reward`: read and write back, no guard, no new stamp |
| `Crash`, `Restart` | requests and passes die; the startup requeues |

The passes of a poll are not kept in their order: any queue with due rows may
be the next to find one, which allows more than the code does. The same holds
in every other module with a scheduler.

### BuildQueue

| model | code |
| --- | --- |
| `slots` | `village_fields` and `village_buildings` |
| `owner`, `capital` | `villages.owner_id`, `villages.is_capital` |
| `pc`, `rec` | a request from its read to its order, and the order's row from `pending` to `done` |
| `stale` | requests whose settle stamp no longer matches; any settle of the village's store puts its requests here |
| `batch`, `up` | orders a pass has claimed; whether the process lives |
| `OrderBuild`, `OrderDemolish` | `order_build` and `order_demolish`: every rule checked on the village as it was read |
| `ReadStore`, `StartBuild`, `StartRefused` | the read of the store and its stamp, then `start_build`: guarded debit and insert under the partial unique index on (village, lane) |
| `ClaimDue`, `ApplyBuild`, `ApplyFails` | the builds pass: claim, absolute level write, relocation when a Palace is finished |
| `Battle` | the part of `apply_battle` that razes a building (written by kind), moves the village and deletes its orders |
| `Restart` | the requeue of orphans: one statement, all or none under the lane index |

Costs and times are left open: a request may turn out unaffordable at any time,
an order may come due at any time.

### Troops

| model | code |
| --- | --- |
| `garrison`, `stationed` | `village_units`, `reinforcements`; one unit type stands for a roster |
| `moves` | `troop_movements` rows under way; `claimed` is status `processing` |
| `draft` | a dispatch or recall between its checks and its transaction |
| `batch`, `failed`, `hand` | rows a pass has claimed, rows whose transaction failed, and the village a battle or a cull has read |
| `raised`, `gone` | bookkeeping of the model: troops that came into being, troops reported fallen, starved or forfeited |
| `ReadVillage`, `Dispatch`, `ReadGroup`, `Recall`, `Refuse` | `order_reinforcement`, `order_attack`, `order_return` and the transactions with their guarded debits |
| `Claim`, `Arrive`, `Fail` | the movements pass |
| `ReadBattle`, `Resolve`, `Conquer` | `resolve_one` and `apply_battle`: losses computed from what was read, subtracted from what stands; a conquest guarded by the owner that was read empties the garrison, sends the groups home and forfeits the village's movements in transit |
| `ReadCull`, `Cull`, `CullSpares`, `SettleRow` | `starve_village` and `apply_starvation`: the survivors of the garrison that was read replace the garrison under the store's stamp |
| `Reward`, `Train` | a quest's soldier, which leaves the stamp alone, and a training delivery |

Who wins and how many fall is open within what the battle rules allow
(`Casualties`): a won attack kills every defender, a lost one every attacker, a
raid some of both.

### Alliance

| model | code |
| --- | --- |
| `founder` | rows of `alliances` with `founder_id`; `Unused` an id not drawn yet, `Disbanded` one whose row is gone |
| `member` | `alliance_members`: its primary key is the player, so a player has one row or none |
| `invites`, `pact` | `alliance_invitations`, `alliance_diplomacy` |
| `draft` | a request with what it has read: asked (actor read), ready (all checks made), joined (inserted, invitation not yet deleted) |
| `AskFound`, `AskRespond`, `AskActor` | the first read of `found_alliance`, `respond_invite` and of every command that starts with `actor_membership` |
| `ReadTarget`, `ReadPact`, `CountSeats` | the second read: the player acted on, the pact, the member count inside the guarded insert (which locks nothing) |
| `Found`, `Invite`, `DropInvite`, `Join`, `UseInvite`, `RemoveMember`, `SetMemberRole`, `TransferFounder`, `Disband`, `SetPact` | the repository's writes, each with exactly what its WHERE clause or key repeats of the checks |
| `End` | a refusal, an error, or a handler dropped with its connection |

### Accounts

| model | code |
| --- | --- |
| `known`, `roles`, `barred` | rows of `users`: `is_moderator`, `is_admin`, `is_ai`; `banned_at`, and `suspended_until` while it lies ahead (`Lapse` is its passing) |
| `sitters`, `trail` | `account_sitters`, `sitter_actions`; a trail row also names the request it is about |
| `keys` | `agent_keys` that are not revoked |
| `call` | a POST: its route, the two cookies it came with, the layers it has passed, the account its handler acts for; `glitch` says that a look-up or an audit row was lost on the way |
| `Send`, `ActionGuard`, `SittingGuard`, `Enter` | the request, `action_guard`, `sitting_guard`, and the extractor with the check of the use-case; each of the three looks up the sit again (`Seen`), and a look-up that fails finds none |
| `Bearer` | an agent's request: `bearer_account` |
| `Play`, `GrantSitter`, `RevokeSitter`, `ApplySanction`, `SetRole`, `RevokeKeys` | what handlers write; `Play` stands for every game action and for settings |
| `RegisterAgent`, `SetIsAi`, `CreateAgentKey` | the three writes of `admin_create_agent`; `Drop` may come between them |
| `Reboot` | requests are lost, `MODERATORS` and `ADMINS` apply again |

A cookie is the browser's and outlives what it was given for, so a request may come
with any owner's; the server looks at the grant, not at the cookie.

### Realm

| model | code |
| --- | --- |
| `clock`, `culture` (value, at), `earned` | `player_culture`: points and the instant they are settled to; `earned` is the model's own count, second by second |
| `owner`, `hall`, `seat` | villages, their Town Hall and Residence or Palace |
| `rows`, `draft` | due rows (settle, attack, hall or seat order) and a request between checks and row |
| `batch`, `hand` | a claim's rows, and the one under way with what was read for it |
| `Ask`, `Launch`, `Drop` | `order_settle`, `order_attack`, build orders: checks, then the row |
| `Reward`, `Register` | a quest's culture (added to the value whatever its instant), a newcomer's first village |
| `ReadAnchor`, `WriteAnchor`, `MissAnchor`, `ApplyHall`, `ApplySeat` | the builds pass: `reanchor_culture` before a Town Hall changes, in a transaction of its own, which may fail and is only logged |
| `ReadSettle`, `Found`, `Taken`, `Bounce`, `LoseHome` | the settling pass: slot and tile checked again, founding with the settled culture in one transaction, a tile taken meanwhile (Conflict: the row stays claimed), the way back |
| `ReadAttack`, `Fight`, `Conquer` | the combat pass as far as culture and slots need it: both players' culture settled, guarded by the owner that was read; a Town Hall or Residence brought down, alone or with the conquest |
| `Claim`, `Tick`, `Crash`, `Restart` | claims of what is due, time, stops and requeues |

### Upkeep

| model | code |
| --- | --- |
| `store`, `base`, `garrison` | crop and stamp; net crop before the army; the units, each with what it eats |
| `check` | the row of `starvation_checks` (one per village) |
| `batch` | the row of `training_orders`: total, delivered, start |
| `task` | what a request ("web") and the pass are at, and what they have read |
| `SyncGarrison`, `SyncVillage`, `SyncStore`, `SyncWrite` | `sync_starvation_check`: three reads outside a transaction, then an upsert or a delete |
| `Order`, `Debit`, `AskMarch`, `March`, `Reward` | requests that spend (a shipment alone re-syncs nothing), that send a unit out, and a quest's reward (no stamp, no re-sync) |
| `Change` | the builds, movements, trades and combat passes as what they do to store, garrison and net rate, each followed by its re-sync |
| `OasisChange` | an oasis won or lost, which re-syncs nothing |
| `ClaimTraining`, `ReadBatch`, `Deliver`, `Release` | `deliver_batch` piece by piece under the stamp, or the batch released |
| `ClaimStarvation`, `StarveReads`, `Recovered`, `NotYet`, `Cull`, `CullConflict` | `starve_village` with its three reads and four outcomes |
| `Restart` | `requeue_orphaned_training`, `requeue_orphaned_starvation` |

`Starved` is the cull's rule: the hungriest kind first, as few as the deficit
takes.

### Oases

| model | code |
| --- | --- |
| `oasis` (made, owner, force, regrow) | `oases` with `oasis_garrison`; a tile without a row still has its seeded animals |
| `homes`, `standing`, `outpost` | garrisons, villages that exist, what the Outpost allows |
| `parties` | oasis attacks, reinforcements and ways home in `troop_movements` |
| `batches`, `hands`, `running` | per instance: what it has claimed, what it is resolving with what it has read, whether it lives |
| `ask`, `SendOut`, `Recall`, `Refused` | the three requests and their transactions |
| `ReadBattle`, `Fight` | `resolve_oasis_one` and `apply_oasis_battle`: the garrison replaced, the owner and the regrowth set, the survivors sent home |
| `ReadStill`, `Join`, `BounceHome`, `Rejoin`, `GivenUp` | reinforcement arrivals, returns, and rows whose village is gone |
| `ReadRegrow`, `Regrow` | `claim_due_oasis_regrows`, a plain read, and the guarded step |
| `Rebuild`, `Conquest`, `Sweep` | what a build, a conquest and the inactivity sweep do to a village's part in this |
| `Stop`, `Start` | an instance dies; one that starts requeues every claimed row, whoever claimed it |

### Market

| model | code |
| --- | --- |
| `stores`, `market`, `standing` | `village_resources`, Marketplace levels, the villages that exist |
| `legs` | `trade_movements` rows not yet done: kind, load, merchants, arrival, `processing` or not |
| `shipment` | a request with its `now`, the level and the store it has read |
| `cargo`, `delivery`, `running` | per instance: the legs it has claimed, the one it is delivering with the target's store as read, whether it lives |
| `books` | bookkeeping of the model: goods made, spent, overflown, lost with a village |
| `AskShipment`, `PriceShipment`, `CountMerchants`, `SendShipment` | `order_trade`: the village, the store, the merchants that are out, then `start_trade`: debit under the stamp and the row |
| `ClaimLegs`, `ReadTarget`, `Deliver`, `ReadAgain`, `ReleaseLeg`, `FreeMerchants`, `GiveUp` | `process_due_trades` and `deliver`: the capped credit under the stamp with the way home in one transaction, a few retries, the release, the end of a way home, a leg whose village is gone |
| `Charge`, `Rebuild`, `Abandon` | what any other order, a build or a battle, and the sweep do to a village's part in this |
| `Stop`, `Start` | an instance dies; one that starts requeues every claimed leg |

A row that has been delivered is closed and another opened for the way home; the
model lets the same row carry it.

### Endgame

| model | code |
| --- | --- |
| `owner`, `sites` | villages in play: capitals and what the releases have placed for the Natars |
| `holder` | artifacts and plans: released, held by a village, or dropped with a swept one |
| `wonder`, `building`, `draft` | a site's Wonder, the level its order under way will leave, a request between gate and order |
| `stage` | per instance: a battle being resolved, a sweep under way, a winner being recorded, or nothing |
| `won`, `swept`, `retired` | `world_wonder` and the freeze; the lifecycle watermark; retired accounts |
| `taken` | another world of the database has released the same catalogue |
| `AskWonder`, `PlaceWonder`, `Demolish`, `BuildWonder` | `order_wonder_build` with its gate and then the order, `order_demolish`, the order's absolute level set |
| `ReadStrike`, `ApplyStrike`, `LoseStrike` | a battle with capture, conquest or razing: what was read, then the transaction under the holder that was read |
| `ReleaseArtifacts`, `ReleaseWonder` | the two releases, each one transaction |
| `ReadVictory`, `Record` | the standings read, then the first finisher recorded once |
| `ReadSweep`, `Sweep` | `sweep_abandoned`: the accounts locked and the villages its `DELETE` finds; what is left of them at the commit |
| `OtherSweep`, `OtherRelease` | what other worlds of the database do to shared tables |

## 3. What is checked

Twelve runs, nine that must pass and three that must find a violation. Each
property of a passing run has a mutant of the code (the definitions commented
"Mutant:" in the module it is about), a plausible bug that violates it in the
same instance.

Most runs are over QUIET (or ORDERLY) histories: those in which certain writers
do not slip between another's read and its write. The code excludes few of these
interleavings, so each clause is an assumption about the environment. It is named,
stated as a formula next to the specification, and needed: when a clause is
dropped, TLC finds the property violated that is named with it below (clauses
that only bound an instance are marked so). Read a quiet run as: the design is
right up to these races, and these are the races. Capitals and the effects of due
rows need no such clause and are checked over every history; types (but for those of
`Endgame`) and the settle clock are proved of every history (section 4).

### Store_safety

One starving village (rate -1, so settles drain the store and a cull is due), a
spending request, a training batch, a delivery, a loot return, a cull, a quest
claim, one crash, three milliseconds of clock, every history. `AppliedOnce`
across releases and requeues and `ReleasedJobsFinish` (a delivery or batch that is due is applied
in the end).

### Store_orderly

*VillageStore.* Two requests and a training batch, a loot return, a delivery and
a raid on a producing village, over ORDERLY histories: whoever reads the row to
charge, credit or raid it is going to date it later than it found it (`InOrder`).
What an orderly history leaves out is two writers in the same millisecond, a
`now` taken before somebody else's write, and a due instant before the last
settle. Then the stamp guard does what ADR 0007 says of it: `ProducedOnce`, and
`ActsAtomically`, the refinement of `AtomicStore`. Without that restriction both
fail in the model: a clamped credit leaves the stamp where it was, and a request
that had read the row before it still matches.

*Market.* Two villages, one with one merchant to begin with, two requests, two
rows, two instances, three instants, two other charges, and one mishap: the
Marketplace rebuilt or razed, a village swept, an instance stopped.
`GoodsAccounted` (what is in the stores and on the road is what was there, made
and not spent), `MerchantsHeld` (a village never sends more merchants than it
has) and `MerchantsReturn` (every shipment arrives and its merchants come home).
Assumed are `DatedLater`, the analogue of `InOrder` (without it
`GoodsAccounted`), `MarketStays`, no Marketplace falls under a request of its
village (`MerchantsHeld`), `StartsAlone`, an instance starts while no other holds
what it requeues (`GoodsAccounted`), and `DeliversAlone`, no two instances deliver
to one village at once (`MerchantsReturn`: of two deliveries whose credits leave
the stamp where it was, each keeps the other from being dated later).

`TypesOK` is the type invariant of both.

### Store_race (violation)

`NoLostUpdate` with one quest claim beside one request: the claim's transaction
writes the amounts it read although the row has been debited since. ADR
0007:42-43 promises that every settle path is snapshot-guarded.

### Build_quiet

A Roman village (two lanes), three requests, one battle that razes or conquers,
one crash, over QUIET histories: while a request on a village is between its
read and its end, no order of the village is in the scheduler's hands and its
buildings and owner stay (`HandsOff`); catapults hit no village with orders in its
queue unless it falls (`RazesIdle`); and no Palace moves away while an order for the
old one is in the queue (`PalaceWaits`: it takes two villages to matter, so that
here it excludes nothing, and the theorems of `BuildQueueProofs` need it).
`LaneHeldOnce`, `Exclusive`, `OrdersOfOwner`, `OneStep` and
`OrdersFinish`.

### Build_capital

Two villages of one player, a Palace in the capital, three requests, a battle,
a failed apply and a crash, every history: `OneCapital` and `PalaceIsCapital`.
They survive every race, because relocation is computed inside the apply's
transaction from what is there.

### Build_double (violation)

`OneStep` without the restriction: a request that overlaps the completion of an
order for its slot orders the level just reached, pays and gains nothing.

### Troops_quiet

Two villages of two players, a request, two movement rows, garrisons of 2 and
1, rewards and training up to two soldiers per village, battles with and without
conquest (one village cannot be conquered, as a capital), culls, one failed
transaction, one crash, over QUIET histories: nobody moves troops from or to a
village between the read and the commit of a battle or cull there, and a village
falls only while its owner has no request under way and none of its movements is
in the scheduler's hands. `TypeOK` (no garrison below zero, whatever two
dispatches have checked), `TroopsAccounted` (every soldier in exactly one place),
`LoyalMarch` (nobody marches home to an enemy) and `MovementsEnd`.

### Troops_cull (violation)

`CullSeesGarrison`: starvation.rs:200-203 says a change of the garrison always
conflicts with the cull, because every such change settles the store's row. A
quest's soldier and a dispatch do not settle it.

### Society_quiet

*Alliance.* Three players, two alliances, three commands of any kind, each of which may end
anywhere, from three worlds: an alliance that is full beside a player it has
invited, one with a single seat and two invitations out, and two alliances where
an offer courts a third. `OneFounder`, `CapHeld`, `ConsentGiven` and
`RankStands`. Assumed are `QuietRanks` (nobody changes the standing a command
under way has checked), `QuietSeats` (no two joins between count and commit of the
same alliance) and `QuietPacts` (no two writers of one pact).

*Accounts.* Two people, the account of an agent to be made, and two POSTs with any
cookies to any kind of route, one layer at a time, between which the other may do
anything; an administrator with a sitter, or two administrators; reboots.
`SitsRecorded`: what a sitter writes in an owner's name is on the owner's record, and
is nothing the guard reserves to the owner. `BlockedDoNothing`: nothing is written by
or for a banned or suspended account. Assumed are `Lossless` (no look-up and no
audit row is lost: a layer takes the loss for "nobody sits", "not blocked" or
"recorded") and `Undisturbed` (the sit of a request under way neither begins nor
ends, its accounts are not blocked and their roles do not change: no layer looks
again at what an earlier one has found).

### Realm_quiet

Two players, four villages (two capitals), two rows under way, five kinds of
orders (settlers, attack, Town Hall, Residence up and down), one quest, one
crash, three instants. `LazyIsExact`: the lazily settled culture is what counting
every second would give. `GrowsWithinSlots`: a founding or a conquest finds a free
slot when it happens, whatever was counted at departure. `SettlersArrive`. Assumed
are `KeepsUp` (passes and requests keep up with the clock; else a claim returned in
no order moves an anchor back), `NoGiftBetween` (nothing touches a culture or an
owner between a pass's read and its absolute write), `AnchoredRazing` (a Town Hall
is razed only at an instant its owner's culture has just been settled at, for
catapults re-anchor nothing), `AnchorsMade` (the anchor before a Town Hall's apply, which
the pass goes on without when it fails, is only lost when there is nothing to settle;
these four: `LazyIsExact`) and `OwnerStays` (the home
of a request does not change hands between its checks and its row:
`SettlersArrive`).

### Holdings_quiet

*Upkeep.* One village, a kind of unit that eats 1 and one that eats 2, a training
batch of two, two orders, one event of any kind, one crash, three instants.
`Watched`: a village whose crop runs out has a check that is due in time.
`CulledOnlyInNeed`: a cull happens only when nothing is left and takes no unit too
many. `FedInTheEnd`. Assumed are `SyncsMade` (a
re-sync that is owed is made: no process stops and no request is dropped before
it), `SyncAlone` (nobody but a cull changes the village between a re-sync's reads
and its write), `SyncedWhenNeeded` (a change that re-syncs nothing leaves no army
in want; these three: `Watched`) and `CullAlone` (while a cull is under way nobody
else touches garrison, rate or check, and whoever changes the store dates it:
`CulledOnlyInNeed`, and `Watched` where the pass writes the check anew).

*Oases.* Two villages, an oasis that is wild or held, two parties, two instances,
two animals, two men sent at most, one mishap (Outpost lost, conquest, sweep,
stop), three days. `FieldAccounted`: every man in one place, nobody's men in a
stranger's oasis, animals and an owner never together in what stands there.
`WithinOutpost`. `FieldSettles`: cleared oases regrow, parties end. Assumed are
`ReadAlone` and `WriteAlone` (nobody else touches an oasis between a battle's read
and its commit), `RecallsOwn` (a recall finds the oasis still the sender's),
`StartsAlone` (as in `Market`; all four: `FieldAccounted`, the second also
`WithinOutpost`), `SweptBare` (a swept village leaves no men in an oasis) and
`AnswersToday`, which only bounds the instance.

`TypesOK` is the type invariant of both.

### Endgame_quiet

Two instances of the loop on one database, two players in two alliances, two
artifacts, a plan and a site on four tiles, a Wonder of two levels, three battles,
one move (a change of alliance or a demolition), one sweep, and one upset: a failed
transaction, a crash, another world's release or another world's sweep. A battle may
bring spoils, the village, a Wonder brought down by any number of levels, or several of
them. `TypeOK` (a Wonder stands on a site), `OneVault` (a village holds one artifact and
one plan at most), `AbandonedFreed` (an account this world retired owns no village of
it), `VictoryEarned` (the recorded winner has a finished Wonder at that moment) and
`RoundEnds` (again and again all that is due has been done: the releases, and the end of
the round if a finished Wonder stands). Assumed are

* `ArtifactsFirst`: the artifact release does not fail while the Wonder's succeeds
  (`RoundEnds`);
* `StandingStands`: between the victory's read and its record no finisher loses his site,
  his member or, to catapults or a demolition, a level (`VictoryEarned`);
* `SpoilsInTurn`: no two instances resolve attacks from one home that bring spoils of a
  kind at once (`OneVault`);
* `SiteKept`: a site does not fall between an order's gate and its commit (`TypeOK`);
* `HomeKept`: an attack's home is its sender's when it is read and until it is applied,
  or has gone: no row outlives, in a pass's hands, the loss of its home
  (`AbandonedFreed`);
* `SweepsAlone`: no village comes to an account between the sweep's read and its commit
  (`AbandonedFreed`).

### Bounds and why they are enough

Every property relates at most two writers of one row, a writer and a battle, or
a claimed row and the process that dies with it, so one or two requests
(three where two compete for what a third holds), one battle and one crash let
each pair meet in every order; a second crash only repeats the first, since a
restart leaves nothing in anybody's hands. Amounts are small and costs differ, so
that a lost or doubled write changes what the next request can afford. Clocks let
every row come due before and after every settle, with equal and different
stamps. `MaxTries` and `MaxReads` 2 give a delivery one retry and one release (the
code makes five tries). `MaxTroops` bounds the soldiers ever raised, `Movements`,
`Rows` and `Wagons` the rows under way: in `Troops` a dispatch keeps a row free for
every group that may have to leave its host, so that no battle is disabled by the
bound. Two instances are enough where instances matter, since each race is one
instance's read against another's write. `Society_quiet` uses symmetry of its requests
and checks no liveness. Two calls are enough there, since what one layer has found
is undone by one write of another request. Deadlock is not checked: requests are one-shot and
counters bounded, so an instance does stop.

### Fairness

Weak fairness on the scheduler's work and on the restart: the loop never ends by
itself (`event_store.rs:294-606`) and the process is restarted by its
deployment. Where liveness depends on a clock, the clock moves on; where it
depends on a request under way, the request ends: a handler returns or is
dropped. In `Troops` strong fairness on claiming a movement: its instant comes, each
poll runs every pass, and a claim takes every due row in order, while other
passes keep disabling the claim for a moment. In quiet histories fairness is
asked of the actions together with the quiet clauses, so that a step the
environment is assumed not to take is not demanded either. Players owe nothing: no
request need ever be made. Database errors that only log are crashes or failures
where a run has them, and outside of the assumption where it has none: a delivery
that fails for good stays claimed until a restart.

## 4. What is proved

TLAPS checks every theorem below for every value of the constants; the only
assumptions are the named ones beside the constants (amounts are naturals, the
initial world is one the server creates, the "nothing" values are not names of
anything, sets that are summed over are finite). Where a theorem is about `QuietSpec` the quiet clauses it uses are said.

**SumProofs.** Goods, men and troops are accounted for in sums over finite sets
(`SumFunction` of the community modules), of which no library states anything. The
library's induction theorems take an operator, which no installed prover can
instantiate; its theorems on least elements take sets. So the induction runs over
those: of the subsets at which the recursion fails there would be a smallest
(`SmallestSet`), and it does not fail there. What the other modules cite:
`SumChange` (the sum moves by what one summand moves by), `SumInt`, `SumNat`,
`SumWithin`, `SumGrouped` (summing group by group). For whole numbers it has what Z3
does not find by itself: `RangeInduction` over the numbers up to a bound, stated of a
set, `DivBounds` and `MultMono`.

**CommerceProofs, the store.** `TypeCorrect` is inductive as it stands, once `Accrue`
is shown to stay in range for any rate, negative ones included. `StampNeverAhead`
and `EffectOnce` need `SchedInv`: what a pass holds is due, claimed and dated no
later than the clock, what is claimed has not been applied, and what is done has
been applied once. The stamp can only be set to instants that are past, and a
crash cannot repeat an effect because effect and status are one transaction.
`ClockForward` (no delivery, loot, raid or batch moves the settle clock back)
follows from the clamp in `SettleTo`. `OrderlyNoLostUpdate` and
`OrderlyIsAtomic` are about instances without reward claims and orderly histories.
Their invariant `ExactInv` says that a snapshot in hand whose stamp is the row's IS
the row; it is inductive because in an orderly history a write dates the row later
or leaves it as it was. From it every commit is one `AtomicStore` step at the row it
found, and every other step stutters. `OrderlyProducedOnce`: `OnceInv` says that the
row and what was spent are covered by what was there, was received, and could have been
produced up to the row's stamp; each write adds what its stretch can have produced, and
the stretches do not overlap because of `ExactInv`. It is stated for rates not below
zero: with a negative rate the floor of the store at nothing makes consumption
disappear, and the same sum would hold for no orderly reason.

**CommerceProofs, the market.** `MarketTypeCorrect` holds of every history, and so does
`CommerceTypes`, of the two parts side by side: it is about `Spec` and `MarketSpec`, and
`CommerceIsBoth` says that the run's orderly and quiet histories are among theirs. `GoodsStayAccounted` rests on two invariants of quiet histories:
`LegsHeld` (a leg an instance holds is the row as claimed, nobody else holds it, and no
two deliver to one village; or its village has been swept) and `StoresRead` (a store
that was read is the store, as long as its stamp stands). From them, step by step, what
leaves a store or a row arrives in another or in the books. `MerchantsNeverOverbooked`
adds `MerchantsCounted`: the room a request has counted is there while the stamp of its
store stands, since whoever sends in between dates the store later, and everybody else
only frees merchants. It is stated for tables in which a higher Marketplace has no fewer
merchants (`MoreMerchants`): the loader does not check it, and the shipped balance has one
merchant more per level (`specs/balance/presets/classic/trade.toml`).

**BuildQueueProofs.** `BuildTypeCorrect`, then `OneCapitalEach` (inductive with
the types: only a relocation and a conquest touch capitals and owners, the first
clears the realm's flags in the same transaction, the second never takes a
capital) and `PalaceInCapital` (a Palace is only ever built by an order whose
apply flags its village, or is left standing by a razing that creates none).

What the code promises of a queue holds in quiet histories,
by `QuietInv`: what a request has read and what an order was placed for is still
what stands there. Its parts need each other. `LaneHeldOnce` rests on `NoHands` (the
index covers waiting orders only, so a request must not overlap a claimed one);
`Fits` (the target is one step from the slot's level) rests on it, since an order of
the same village is in another lane and hence on another slot, and on
`PalaceIsCapital` and `PalaceWaits`, since a relocation clears slots of other
villages; `SeatsApart` (no order is for one seat while the other stands) on the fact
that both seats are on the building lane, and on `SeatRises`: a razing, which may
raise the lower of two buildings of a kind, brings no seat to stand. `LanesHeldOnce`,
`QueueOfOwner`, `SeatsExclusive` and `OneStepEach` follow.

**TroopsProofs.** `TroopsTypeCorrect` rests on `TypeInv`: besides the types, no
empty dispatch is under way and the battle in hand is an attack's. No guard
protects `Resolve`'s subtraction; `Less` does. `ArmiesLoyal` holds in quiet
histories, by `LoyalInv`: marches and requests belong to the owner of their
home, and no village reinforces itself (`Apart`), so that the groups a conquest
sends home leave for villages other than the one that fell. `SoldiersAccounted` rests on
`BooksInv`: what a battle or a cull has read of a village stands until it commits
(`HandStands`), a return goes home, and per village those at home, abroad and on the
march are those raised less those gone (`Balance`).

**SocietyProofs, the alliances.** `AllianceTypeCorrect` holds of every history: foreign keys and
the primary key on the player keep members, invitations and pacts to alliances
that exist, with `Fresh`: an identifier drawn for a founding that has not been
written yet is nobody's. The rest is about what a request in hand has checked.
`Stands`: in quiet histories the membership a leave, a transfer, a disband or an
expulsion relies on is still the one there is. From it `FounderAlone` (a founder
leaves only by handing over or by disbanding, and hands over to a member) and
`NoneExpelledElsewhere`. `Seats`: a join that has counted finds the seat free, hence
`SeatsLast` by the cardinality of a set with one element more. `Sealed`: an
acceptance in hand answers the offer that stands, hence `ConsentOfBoth`.

**SocietyProofs, the accounts.** `AccountsTypeCorrect` holds of every history: a key is only made
once the account it is for exists and is marked (`Formed`), and no role change
unmarks it. In quiet histories what the layers have found of a request is still so
when it writes (`Judged`): neither account is blocked, a sit is on record and the
route is not the owner's alone, and who changes a role is an administrator who keeps
his own. Hence `NothingForBlocked`, `SittersRecorded`, and `AdminsRemain`: somebody
is always left who can grant roles.

**RealmProofs.** `RealmTypeCorrect` holds of every history: what is read for the row in
hand belongs to a player, because a village that is held stays somebody's
(`OwnerFate`) and orders are placed in held villages only (`Peopled`). In quiet
histories a row that is due stops the clock, so whatever a pass holds is due now
(`DueNow`), and what it has read stands (`ReadStands`): the culture as of now, the free
slot, and for a Town Hall an owner whose culture has just been settled, or has nothing
to settle (`AnchorsMade`). Then a rate
changes only under a culture stamped now, and `CultureExact` follows with one step of
arithmetic per second (`ExactTick`); a newcomer has rate 0 before his first village,
which `RealmAssumption` asks of the table. `GrowthWithinSlots` adds the cardinality of a
set with one element more. Neither needs `OwnerStays`, which is for `SettlersArrive`.

**EndgameProofs.** `EndgameTypeCorrect` contains that a Wonder stands on a site no
higher than the top; the order in hand keeps its site (`SiteDraft`, by `SiteKept`).
`EndgameWonFairly` needs `Led`: the winner being recorded is a finisher still, by
`StandingStands`. `EndgameAbandonedFreed` needs `HomeOurs`: the home of an attack in
hand is its sender's or nobody's, by `HomeKept`; a retired account owns nothing, so
a battle for it finds its home gone. And it needs `Doomed`: a sweep under way has found
every village of its victims, by `SweepsAlone`, so that none is left when it commits. `EndgameOneVault` needs what an instance is
about to bring to be apart from what its target and every other instance hold or
bring (`Vaults`, by `SpoilsInTurn`), and that a released catalogue puts every item
on a tile of its own. Its assumption `RoomForAll` (the catalogue and the sites fit the
reserved tiles) is what the shipped balance has; `Strangers` says that names of
different kinds of things differ.

**HoldingsProofs, the oases.** `FieldTypeCorrect` holds of every history; its
strengthening says that what an instance holds was due and is handled where it
arrived. In quiet histories `FieldInv` is inductive. `RowsHeld`: a party an
instance holds is the row as claimed, it is its alone, and two instances resolve
battles for different oases and villages. `Mannered`: an owned oasis has a row and an
owner that exists, no animals stand in it, and no men in one that is nobody's. `StillRead`: owner,
defenders and the room in the Outpost are at the commit what they were at the read.
From it `MenStayAccounted`, with `Balanced` (at home, away, on guard and lost add up
to those raised: four sums, of which each action moves two), and `OutpostRespected`,
by the cardinality of a set with one element more.

**HoldingsProofs, the army's crop.** `VillageTypeCorrect` rests on `TaskHeld`: a batch in
the pass's hand has units that are finished, and their number is what was counted, so
that no delivery exceeds the order; a charge in hand dates the store no earlier than
it was read. `HoldingsTypes` is the types of both parts in every history of either
(`Spec` and `FieldSpec`), of which the run's are some (`HoldingsIsBoth`). Of the arithmetic, by whole division
and sums over the kinds of units: `CullSpares` (give any of the fallen back, and the
rest eat more than comes in) goes to the last kind the cull reached, before which
everything is gone (`AheadGone`), and sums what is left (`UpkeepLess`); `CullFeeds` goes
to the first kind of which somebody is left; `DueBound` says that a check written from the
store as it stands is due no later than the granary is empty, whether it is settled
before or after (`CeilLess`). Quiet histories keep `VillageQuiet`: what a re-sync has read is
so while the army is in want (`SyncReads`), what the starvation pass has read is so
while the store's stamp stands (`StarveSo`), and once nobody owes a re-sync the check
is there (`Kept`, which is `Watched` without its last condition). They need each other: the pass may replace a
good check by one from its own reads, and a re-sync is only good where the cull that ran
beside it has ended the want. `VillageWatched` and `OnlyNeedCulls` follow; the second
adds that an empty granary stays empty (`SettledFalls`). They rest on two assumptions
besides the ranges of the constants: `StartsFed` (a village begins without an army, as the server founds it, or with
one it feeds: nobody has written a check yet) and `NoRowIsNew` ("no row" and "idle" are
neither rows nor tasks).

Only model-checked: liveness (`ReleasedJobsFinish`, `MerchantsReturn`,
`OrdersFinish`, `MovementsEnd`, `SettlersArrive`, `FedInTheEnd`, `FieldSettles`,
`RoundEnds`), which no installed prover reaches. Every invariant and every action
property of the passing runs is stated by a theorem.

## 5. What the models show besides

Behaviours met while modelling that no run keeps, because no document promises
the contrary, or because one of the runs already stands for their kind. Those of
the quiet clauses above are not repeated.

Stores and builds:

* Trade and loot credits clamp the stamp, so a spender that read before them
  still matches (ABA); `InOrder` is exactly the exclusion of this. For the same
  reason a second instance that requeues a leg another is delivering can credit
  it twice, although `trade.rs:218-219` calls delivery exactly-once under the guard.
* A battle or loot return whose debit conflicts stays claimed until a restart
  (`Strand`).
* An order being applied holds no lane, so another can enter it; a restart then
  fails to requeue all of the world's orphans (`RequeueClashes`).
* A Residence order and a Palace request can pass each other's check.
* A request of the loser that read the village before a conquest commits after
  it, and the order is the conqueror's to wait for.
* An order placed before a razing writes its absolute level after it and undoes
  the damage. Catapult damage is written by kind, so that of two Warehouses both
  get the new level.
* An order for the old capital's Palace outlives the relocation that deletes that
  Palace (`repo.rs:1507-1531`); due later, it rebuilds it at its absolute level and
  moves the capital back. `PalaceWaits` is the exclusion of this.
* The shipment's merchants are counted beside the store's read and checked
  against a level read before both.

Troops and oases:

* A group recalled between a battle's read and a conquest's commit is sent home
  twice; losses computed before a dispatch are reported and not suffered.
* The movements a pass has claimed survive a conquest of their home and bring
  their survivors to the enemy. When the first of two waves conquers a village,
  the second attacks its own player's village.
* A battle lost against an occupied oasis still sets `regrow_at`, which the
  migration (`0017_oasis_regrow.sql:3-4`) says is NULL while it is occupied.
* A second wave that arrives after its village's first has occupied the oasis
  fights the own garrison, and with a full Outpost frees the oasis again.
* The oases of a swept village lose their owner and keep its men, so that no
  animal grows there again (`0015_oases.sql:14`, ON DELETE SET NULL).
* A recall brings home whatever stands in the oasis, whoever owns it by now.

Starvation and culture:

* `starvation.rs:11-14` says every point that changes the store or the net rate
  re-syncs the check; a shipment's debit, a quest's unit, an oasis won or lost and a
  captured artifact do not.
* A rewarded quest's culture is added to a value whose instant may be older, and
  is overwritten by a pass that has read before it.
* A founding whose tile is taken meanwhile, or whose home is gone, leaves its row
  claimed; `docs/architecture/0015-settling.md:43` and `repo.rs:5405` leave it to a
  later tick, which never looks at it again before a restart.

Alliances:

* Two joins that count before either commits overrun the cap, whatever
  `alliance.rs:191` says. A transfer to somebody who has just left leaves no founder,
  two transfers leave two; an expulsion removes by player alone, from whatever
  alliance he has joined meanwhile; a disband by somebody who has just handed over
  still goes through.

Accounts:

* Two administrators who take each other's role both pass the check before either
  writes, and none is left until a restart applies `ADMINS` again.
* A sit that begins between the sitting guard and the extractor (a grant, a
  suspension that runs out, a look-up that fails in the one and not in the other)
  runs as the owner, unrecorded, on any route.
* A sanction stops no request that has passed the guard, and an account that cannot
  be read passes it.
* An agent whose making breaks off keeps its name and its village without a mark or
  a key; its name is then taken.
* The count of sitters and the grant are two statements: two grants overrun the cap.

The end of a round:

* A Wonder order whose site falls between gate and order is placed in the
  orderer's capital, since the village is selected anew (`economy.rs:9-42`);
  `repo.rs:7375-7376` says such a Wonder should never exist.
* `artifacts.id` is a primary key of the database, and every world releases the same
  ids: on a shared database the second world never has artifacts.
* An account retired by one world keeps its villages in the others. In a world that an
  account has joined later its player has an id of its own (`repo.rs:269-286`), while the
  sweep's `DELETE` compares owners with the ids of accounts (`repo.rs:6915`): a sweep
  there retires and frees nothing. `Endgame` is about the world the accounts began in.
* After a failed artifact release, a successful Wonder release takes its first
  tiles, and no later artifact release succeeds.
* The sweep of a plan's holder drops the plan for good; a winner can no longer be
  disbanded, for want of an ON DELETE.
* Of two Wonders finished in one poll the alliance with the first tag wins.

## 6. Not modelled, and why

`PROJECT.json` gives each component's status. Not modelled, or only in part:

* **Research and smithy orders** are one more guarded charge and one more queue
  with claim, apply and requeue; their charge is in `VillageStore`, their rows would
  repeat `BuildQueue` without slots.
* **Scouting** is an attack that changes nothing but the scouts; the report copies
  what one statement after the other has read.
* **Battle arithmetic, costs, times, travel**: pure functions of `crates/domain` over
  floating point or table data. The models leave open what they decide (who wins
  within the rules, what is affordable, when a row is due), so that what is shown
  holds for every table. The arithmetic that a property depends on is modelled:
  accrual with its truncation, caps and deposits, loot, merchants, depletion and the
  order of culling, slots and culture.
* **Effects of artifacts and oases on rates** are constants of each model.
* **Loyalty** is left open: a village may fall to any won battle of its kind.
* **Medals** are one transaction per week under the primary key of its watermark;
  **ranking, statistics, achievements, search, profiles, notifications, messages,
  forum, spectating** are reads and single inserts whose uniqueness is a key;
  **registration and log-in** of people are one insert and one comparison.
* **The world registry** starts and stops schedulers: the models take a world that
  runs, and crash and restart stand for it.
* **Web pages, JSON, balance files, maps, password hashing, AI players, performance
  tools** are formatting, parsing, geometry and clients the server may not rely on.
* **The order of passes in a poll** is over-approximated: any pass may be next.
* **Batches**: a claim takes every due row, where the code takes up to 100 a poll.
* **Connections**: each repository call is one statement or one transaction that
  commits or does nothing. A transaction is one step, at its commit: what it has written
  is locked till then, and a guard that has waited is evaluated anew. The sweep, whose
  `DELETE` goes by what was there when it began, is two.

The models cover the code that decides and commits in the game's use cases, its
scheduler and the transactions of `repo.rs`. Most of the repository's lines are
none of that: queries that only read, row mapping, pages, balance data, bots,
reports and their tests, which is why the lines the models stand for are a small
share of it.

Worth proving next: that each quiet clause is needed where it is used, and what the
rates of a village are from its fields and oases, which are constants here.

## 7. Running it

`tlc -config Store_safety.cfg MCVillageStore` and likewise for the other
configurations: `Store_safety` and `Store_race` with `MCVillageStore`,
`Store_orderly` with `MCCommerce`, `Build_*` with `MCBuildQueue`, `Troops_*` with
`MCTroops`, `Society_quiet` with `MCSociety`, `Realm_quiet` with `MCRealm`,
`Holdings_quiet` with `MCHoldings`, `Endgame_quiet` with `MCEndgame`. Between one
and three minutes each with two workers. `tlapm X.tla` for `SumProofs`,
`CommerceProofs`, `BuildQueueProofs`, `TroopsProofs`, `SocietyProofs`, `RealmProofs`,
`HoldingsProofs` and `EndgameProofs`.
