------------------------------- MODULE Upkeep -------------------------------
(***************************************************************************)
(* The army of one village and the crop that feeds it: training batches that *)
(* deliver unit by unit, the lazily settled crop, and the single starvation  *)
(* check that must stay as exact as the last change of store, garrison or    *)
(* net rate.  Requests and passes make a change in one transaction and       *)
(* re-sync the check afterwards, in three reads and a write of their own.    *)
(***************************************************************************)
EXTENDS Integers, FiniteSets, Functions

CONSTANTS
  Units, Eats, Rank,               \* crop each unit eats a second; its place in the roster
  Trained, BatchSize, PerUnit,     \* what a batch trains, how many, seconds for each
  Cost, Load, Capacity,            \* crop an order costs, a delivery brings or a raid takes; what the granary holds
  Bases,                           \* net crop before the army: fields and oases less population
  FirstBase, FirstCrop, FirstGarrison,
  MaxTroops, MaxClock, MaxOrders, MaxEvents, MaxCrashes, \* bounds
  NoCheck, NoBatch, Idle

ASSUME UpkeepAssumption ==
  /\ IsFiniteSet(Units) /\ Trained \in Units
  /\ Eats \in [Units -> Nat \ {0}] /\ Rank \in [Units -> Nat]
  /\ \A u, w \in Units : u # w => Rank[u] # Rank[w]
  /\ BatchSize \in Nat \ {0} /\ PerUnit \in Nat \ {0}
  /\ Cost \in Nat /\ Load \in Nat /\ Capacity \in Nat
  /\ Bases \subseteq Int /\ FirstBase \in Bases /\ FirstCrop \in 0 .. Capacity
  /\ FirstGarrison \in [Units -> Nat]
  /\ {MaxTroops, MaxClock, MaxOrders, MaxEvents, MaxCrashes} \subseteq Nat

Time == 0 .. MaxClock
Army == [Units -> Nat]
Store == [crop : 0 .. Capacity, at : Time]
Actors == {"web", "pass"}
Syncing == {"sync_garrison", "sync_village", "sync_store", "sync_write"}
Steps == Syncing \cup {"debit", "march", "batch", "deliver",
                        "starve_village", "starve_garrison", "starve_store", "starve"}

\* What a request or a pass is at, its instant, and what it has read.
Task == [step : Steps, train : BOOLEAN, synced : BOOLEAN, now : Time,
         troops : Army, base : Bases, store : Store, after : Store, count : Nat]

VARIABLES
  clock,
  store,     \* the row of village_resources: crop and the instant it was settled to
  base,
  garrison,
  check,     \* the row of starvation_checks
  batch,     \* the row of training_orders
  task,      \* a request and a pass, or Idle
  orders, events, up, crashes

vars == <<clock, store, base, garrison, check, batch, task, orders, events, up, crashes>>
village == <<store, base, garrison>>
life == <<up, crashes>>

Most(a, b) == IF a >= b THEN a ELSE b
Least(a, b) == IF a <= b THEN a ELSE b
Ceil(a, b) == (a + b - 1) \div b

NoTroops == [u \in Units |-> 0]
UpkeepOf(g) == SumFunction([u \in Units |-> Eats[u] * g[u]])
\* Mutant: the army eats what is not there.
SettledUnfloored(s, net, t) == Least(Capacity, s.crop + net * Most(0, t - s.at))

Settled(s, net, t) == Most(0, Least(Capacity, s.crop + net * Most(0, t - s.at)))
SettleTo(s, net, t) == [crop |-> Settled(s, net, t), at |-> Most(s.at, t)]
Net == base - UpkeepOf(garrison)
Room == SumFunction(garrison) < MaxTroops

\* A village is founded without an army, so that it needs no check; a history may start later, with one it feeds.
ASSUME StartsFed == FirstGarrison = NoTroops \/ UpkeepOf(FirstGarrison) <= FirstBase

\* depletion_secs
Depletion(crop, net) == Ceil(crop, -net)

\* starve: the hungriest units go first, ties by roster, no more than the deficit takes.
Before(u, w) == Eats[u] > Eats[w] \/ (Eats[u] = Eats[w] /\ Rank[u] < Rank[w])
Starved(g, b) == [u \in Units |->
  LET rest == UpkeepOf(g) - b - SumFunction([w \in {x \in Units : Before(x, u)} |-> Eats[w] * g[w]])
  IN IF rest <= 0 THEN g[u] ELSE g[u] - Least(g[u], Ceil(rest, Eats[u]))]

\* The units of a batch that are finished by an instant.
Finished(b, t) == Least(b.total, (t - b.start) \div PerUnit)
NextDue(b) == b.start + PerUnit * (b.done + 1)

\* deliver_batch: the store settled piece by piece, each unit eating from its completion.
Pieces(b, s, bs, g, n) ==
  LET piece[i \in 0 .. n] == IF i = 0 THEN s ELSE
        SettleTo(piece[i - 1], bs - UpkeepOf(g) - Eats[Trained] * (i - 1), b.start + PerUnit * (b.done + i))
  IN piece[n]

\* Nothing read yet; what is read later fills its field.
Blank(step, now) ==
  [step |-> step, train |-> FALSE, synced |-> TRUE, now |-> now, troops |-> NoTroops, base |-> FirstBase,
   store |-> [crop |-> 0, at |-> 0], after |-> [crop |-> 0, at |-> 0], count |-> 0]
Free(a) == task[a] = Idle
At(a, step) == task[a] # Idle /\ task[a].step = step
Ends(a) == task' = [task EXCEPT ![a] = Idle]
Begins(a, t) == task' = [task EXCEPT ![a] = t]
Syncs(a, now) == Begins(a, Blank("sync_garrison", now))

-----------------------------------------------------------------------------
(* sync_starvation_check: three reads outside a transaction, then a write *)

SyncGarrison(a) ==
  /\ At(a, "sync_garrison")
  /\ task' = [task EXCEPT ![a].troops = garrison,
                          ![a].step = IF garrison = NoTroops THEN "sync_write" ELSE "sync_village"]
  /\ UNCHANGED <<clock, village, check, batch, orders, events, life>>

SyncVillage(a) ==
  /\ At(a, "sync_village")
  /\ task' = [task EXCEPT ![a].base = base, ![a].step = "sync_store"]
  /\ UNCHANGED <<clock, village, check, batch, orders, events, life>>

SyncStore(a) ==
  /\ At(a, "sync_store")
  /\ task' = [task EXCEPT ![a].store = store, ![a].step = "sync_write"]
  /\ UNCHANGED <<clock, village, check, batch, orders, events, life>>

\* Mutant: a row that is already there is left as it is.
SyncWriteOnce(a) ==
  LET t == task[a]  net == t.base - UpkeepOf(t.troops) IN
  /\ At(a, "sync_write")
  /\ check' = IF t.troops = NoTroops \/ net >= 0 THEN NoCheck ELSE IF check # NoCheck THEN check
              ELSE [due |-> t.now + Depletion(Settled(t.store, net, t.now), net), status |-> "pending"]
  /\ Ends(a)
  /\ UNCHANGED <<clock, village, batch, orders, events, life>>

\* schedule_starvation_check, whatever status the row has, or cancel_starvation_check.
SyncWrite(a) ==
  LET t == task[a]  net == t.base - UpkeepOf(t.troops) IN
  /\ At(a, "sync_write")
  /\ check' = IF t.troops = NoTroops \/ net >= 0 THEN NoCheck
              ELSE [due |-> t.now + Depletion(Settled(t.store, net, t.now), net), status |-> "pending"]
  /\ Ends(a)
  /\ UNCHANGED <<clock, village, batch, orders, events, life>>

Sync(a) == SyncGarrison(a) \/ SyncVillage(a) \/ SyncStore(a) \/ SyncWrite(a)

-----------------------------------------------------------------------------
(* Web requests *)

\* An order reads the settled store: for a building or research, a batch, or a shipment, which
\* alone re-syncs nothing.
Order(train, synced) ==
  LET s == SettleTo(store, Net, clock) IN
  /\ Free("web") /\ orders < MaxOrders
  /\ s.crop >= Cost
  /\ train => synced /\ Room /\ clock + PerUnit * BatchSize <= MaxClock
  /\ Begins("web", [Blank("debit", clock) EXCEPT !.train = train, !.synced = synced,
                                                !.store = store, !.after = [s EXCEPT !.crop = @ - Cost]])
  /\ orders' = orders + 1
  /\ UNCHANGED <<clock, village, check, batch, events, life>>

\* start_training, start_build, start_trade: the debit, guarded by the stamp that was read.
Debit ==
  LET t == task["web"] IN
  /\ At("web", "debit") /\ store.at = t.store.at
  /\ t.train => batch = NoBatch
  /\ store' = t.after
  /\ batch' = IF t.train THEN [total |-> BatchSize, done |-> 0, start |-> t.now, claimed |-> FALSE]
              ELSE batch
  /\ IF t.synced THEN Syncs("web", t.now) ELSE Ends("web")
  /\ UNCHANGED <<clock, base, garrison, check, orders, events, life>>

\* Troops asked to march, and the guarded debit of the garrison.
AskMarch ==
  /\ Free("web") /\ orders < MaxOrders /\ garrison # NoTroops
  /\ Begins("web", Blank("march", clock))
  /\ orders' = orders + 1
  /\ UNCHANGED <<clock, village, check, batch, events, life>>

March(u) ==
  /\ At("web", "march") /\ garrison[u] > 0
  /\ garrison' = [garrison EXCEPT ![u] = @ - 1]
  /\ Syncs("web", task["web"].now)
  /\ UNCHANGED <<clock, store, base, check, batch, orders, events, life>>

\* A request breaks off: a conflict, a lost connection, a failed statement.
BreakOff ==
  /\ ~Free("web") /\ Ends("web")
  /\ UNCHANGED <<clock, village, check, batch, orders, events, life>>

\* credit_reward: crop or a unit, with no stamp and no re-sync.
Reward ==
  /\ events < MaxEvents /\ events' = events + 1
  /\ \/ /\ store' = [store EXCEPT !.crop = Most(@, Least(Capacity, @ + Load))]
        /\ UNCHANGED garrison
     \/ /\ Room /\ \E u \in Units : garrison' = [garrison EXCEPT ![u] = @ + 1]
        /\ UNCHANGED store
  /\ UNCHANGED <<clock, base, check, batch, task, orders, life>>

-----------------------------------------------------------------------------
(* The scheduler: one pass at a time, each followed by its re-sync *)

Built(b) == b # base /\ base' = b /\ UNCHANGED <<store, garrison>>
Home(u) == /\ Room /\ garrison' = [garrison EXCEPT ![u] = @ + 1]
           /\ UNCHANGED <<store, base>>
Delivery == /\ LET s == SettleTo(store, Net, clock) IN
                 store' = [s EXCEPT !.crop = Most(@, Least(Capacity, @ + Load))]
            /\ UNCHANGED <<base, garrison>>
Remnants == {g \in [Units -> 0 .. UpkeepOf(garrison)] : \A u \in Units : g[u] <= garrison[u]}
Battle(g, loot) == /\ LET s == SettleTo(store, Net, clock) IN
                        store' = [s EXCEPT !.crop = Most(0, @ - loot)]
                   /\ garrison' = g /\ UNCHANGED base

\* The builds, movements, trades and combat passes.
Change ==
  /\ Free("pass") /\ events < MaxEvents /\ events' = events + 1
  /\ \/ \E b \in Bases : Built(b)
     \/ \E u \in Units : Home(u)
     \/ Delivery
     \/ \E g \in Remnants, loot \in {0, Load} : Battle(g, loot)
  /\ Syncs("pass", clock)
  /\ UNCHANGED <<clock, check, batch, orders, life>>

\* The oasis passes take an oasis away or bring one in, and re-sync nothing.
OasisChange ==
  /\ Free("pass") /\ events < MaxEvents /\ events' = events + 1
  /\ \E b \in Bases : Built(b)
  /\ UNCHANGED <<clock, check, batch, task, orders, life>>

ClaimTraining ==
  /\ Free("pass") /\ batch # NoBatch /\ ~batch.claimed /\ NextDue(batch) <= clock
  /\ batch' = [batch EXCEPT !.claimed = TRUE]
  /\ Begins("pass", Blank("batch", clock))
  /\ UNCHANGED <<clock, village, check, orders, events, life>>

\* deliver_batch counts what is finished and settles the store up to the last of it.
ReadBatch ==
  /\ At("pass", "batch")
  /\ LET n == Finished(batch, task["pass"].now) - batch.done IN
       task' = [task EXCEPT !["pass"].step = "deliver", !["pass"].count = n, !["pass"].store = store,
                            !["pass"].after = Pieces(batch, store, base, garrison, n)]
  /\ UNCHANGED <<clock, village, check, batch, orders, events, life>>

\* apply_training, guarded by the stamp: settle, garrison and progress in one transaction.
Deliver ==
  LET t == task["pass"] IN
  /\ At("pass", "deliver") /\ store.at = t.store.at
  /\ store' = t.after
  /\ garrison' = [garrison EXCEPT ![Trained] = @ + t.count]
  /\ batch' = IF batch.done + t.count = batch.total THEN NoBatch
              ELSE [batch EXCEPT !.done = @ + t.count, !.claimed = FALSE]
  /\ Syncs("pass", clock)
  /\ UNCHANGED <<clock, base, check, orders, events, life>>

\* Somebody settled meanwhile: the batch is released.
Release ==
  /\ At("pass", "deliver") /\ store.at # task["pass"].store.at
  /\ batch' = [batch EXCEPT !.claimed = FALSE] /\ Ends("pass")
  /\ UNCHANGED <<clock, village, check, orders, events, life>>

ClaimStarvation ==
  /\ Free("pass") /\ check # NoCheck /\ check.status = "pending" /\ check.due <= clock
  /\ check' = [check EXCEPT !.status = "processing"]
  /\ Begins("pass", Blank("starve_village", clock))
  /\ UNCHANGED <<clock, village, batch, orders, events, life>>

\* starve_village reads the village, the garrison and the store ...
StarveReads ==
  /\ \/ /\ At("pass", "starve_village")
        /\ task' = [task EXCEPT !["pass"].base = base, !["pass"].step = "starve_garrison"]
     \/ /\ At("pass", "starve_garrison")
        /\ task' = [task EXCEPT !["pass"].troops = garrison, !["pass"].step = "starve_store"]
     \/ /\ At("pass", "starve_store")
        /\ task' = [task EXCEPT !["pass"].store = store, !["pass"].step = "starve"]
  /\ UNCHANGED <<clock, village, check, batch, orders, events, life>>

\* ... and resolves the check if the row is still there, or culls.
Resolved(row) == check' = IF check = NoCheck THEN NoCheck ELSE row
Reads == task["pass"]
ReadNet == Reads.base - UpkeepOf(Reads.troops)
ReadCrop == Settled(Reads.store, ReadNet, Reads.now)

Recovered ==
  /\ At("pass", "starve") /\ (Reads.troops = NoTroops \/ ReadNet >= 0)
  /\ Resolved([check EXCEPT !.status = "done"]) /\ Ends("pass")
  /\ UNCHANGED <<clock, village, batch, orders, events, life>>

NotYet ==
  /\ At("pass", "starve") /\ Reads.troops # NoTroops /\ ReadNet < 0 /\ ReadCrop > 0
  /\ Resolved([due |-> Reads.now + Depletion(ReadCrop, ReadNet), status |-> "pending"]) /\ Ends("pass")
  /\ UNCHANGED <<clock, village, batch, orders, events, life>>

\* Mutant: the army is culled as soon as it eats more than comes in.
StarvingHasty == At("pass", "starve") /\ Reads.troops # NoTroops /\ ReadNet < 0

Starving == At("pass", "starve") /\ Reads.troops # NoTroops /\ ReadNet < 0 /\ ReadCrop = 0

\* apply_starvation
Cull ==
  /\ Starving /\ store.at = Reads.store.at
  /\ store' = SettleTo(Reads.store, ReadNet, Reads.now)
  /\ garrison' = Starved(Reads.troops, Reads.base)
  /\ Resolved([check EXCEPT !.status = "done"]) /\ Ends("pass")
  /\ UNCHANGED <<clock, base, batch, orders, events, life>>

CullConflict ==
  /\ Starving /\ store.at # Reads.store.at
  /\ Resolved([due |-> Reads.now, status |-> "pending"]) /\ Ends("pass")
  /\ UNCHANGED <<clock, village, batch, orders, events, life>>

-----------------------------------------------------------------------------
(* Time, crash and restart *)

Tick == /\ clock < MaxClock /\ clock' = clock + 1
        /\ UNCHANGED <<village, check, batch, task, orders, events, life>>

Crash == /\ up /\ crashes < MaxCrashes
         /\ up' = FALSE /\ crashes' = crashes + 1
         /\ task' = [a \in Actors |-> Idle]
         /\ UNCHANGED <<clock, village, check, batch, orders, events>>

RequeueBatch == batch' = IF batch = NoBatch THEN NoBatch ELSE [batch EXCEPT !.claimed = FALSE]

\* Mutant: claimed checks are left as they are.
RestartNoCheck ==
  /\ ~up /\ up' = TRUE
  /\ RequeueBatch
  /\ UNCHANGED <<clock, village, check, task, orders, events, crashes>>

\* requeue_orphaned_training and requeue_orphaned_starvation
Restart ==
  /\ ~up /\ up' = TRUE
  /\ RequeueBatch
  /\ check' = IF check # NoCheck /\ check.status = "processing" THEN [check EXCEPT !.status = "pending"] ELSE check
  /\ UNCHANGED <<clock, village, task, orders, events, crashes>>

-----------------------------------------------------------------------------
Init ==
  /\ clock = 0 /\ store = [crop |-> FirstCrop, at |-> 0]
  /\ base = FirstBase /\ garrison = FirstGarrison
  /\ check = NoCheck /\ batch = NoBatch
  /\ task = [a \in Actors |-> Idle]
  /\ orders = 0 /\ events = 0 /\ up = TRUE /\ crashes = 0

\* What a request that is under way does next.
Answer == Debit \/ (\E u \in Units : March(u)) \/ BreakOff \/ Sync("web")

Web == up /\ \/ \E train, synced \in BOOLEAN : Order(train, synced)
             \/ AskMarch \/ Reward \/ Answer

\* What the scheduler does with what is there.
Scheduler == up /\ \/ ClaimTraining \/ ReadBatch \/ Deliver \/ Release \/ Sync("pass")
                   \/ ClaimStarvation \/ StarveReads \/ Recovered \/ NotYet \/ Cull \/ CullConflict

World == up /\ (Change \/ OasisChange)

Next == Web \/ Scheduler \/ World \/ Tick \/ Crash \/ Restart
Spec == Init /\ [][Next]_vars

Owed(a) == task[a] # Idle /\ task[a].step \in Syncing
Draining == Net < 0 /\ garrison # NoTroops

\* A quiet history: a re-sync that is owed is made, and nobody but a cull changes the village
\* between its reads and its write; while a cull is under way nobody else touches garrison, rate or check, and
\* a change of the store shows a new stamp; and what re-syncs nothing (a shipment, a reward, an
\* oasis) leaves no army in want.
SyncsMade == \A a \in Actors : Owed(a) /\ task'[a] = Idle => SyncWrite(a)
SyncAlone == \A a \in Actors : Owed(a) /\ task[a].step # "sync_garrison" =>
               UNCHANGED village \/ (Starving /\ task'["pass"] = Idle)
CullAlone == ~Free("pass") /\ Reads.step \in {"starve_garrison", "starve_store", "starve"} /\ task'["pass"] = Reads =>
               /\ UNCHANGED <<garrison, base>> /\ ~SyncWrite("web")
               /\ store' # store => store'.at # store.at
SyncedWhenNeeded == village' # village /\ (\A a \in Actors : ~Owed(a)') => ~Draining'
Quiet == SyncsMade /\ SyncAlone /\ CullAlone /\ SyncedWhenNeeded

QuietSpec == Init /\ [][Next /\ Quiet]_vars

\* The scheduler's loop goes on, requests come to an end, the process is restarted, time passes.
FairQuietSpec == /\ QuietSpec
                 /\ WF_vars(Scheduler /\ Quiet) /\ WF_vars(up /\ Answer /\ Quiet)
                 /\ WF_vars(Restart /\ Quiet) /\ WF_vars(Tick /\ Quiet)

-----------------------------------------------------------------------------
(* Properties *)

Batch == [total : Nat, done : Nat, start : Time, claimed : BOOLEAN]
Check == [due : Nat, status : {"pending", "processing", "done"}]
ASSUME NoRowIsNew == NoCheck \notin Check /\ NoBatch \notin Batch /\ Idle \notin Task

\* Every variable has its type; an open batch has units left to deliver, and no more than ordered.
TypeOK ==
  /\ clock \in Time /\ store \in Store /\ base \in Bases /\ garrison \in Army
  /\ check \in Check \cup {NoCheck}
  /\ batch \in Batch \cup {NoBatch} /\ (batch # NoBatch => batch.done < batch.total)
  /\ task \in [Actors -> Task \cup {Idle}]
  /\ orders \in 0 .. MaxOrders /\ events \in 0 .. MaxEvents
  /\ up \in BOOLEAN /\ crashes \in 0 .. MaxCrashes

\* Once whoever changed the village has re-synced it, an army that eats more than comes in has a
\* check that will be acted on, and no later than the granary is empty (005 AC7).
Watched ==
  Draining /\ (\A a \in Actors : ~Owed(a)) /\ (Free("pass") \/ Reads.step \in {"batch", "deliver"}) =>
    /\ check # NoCheck /\ check.status \in {"pending", "processing"}
    /\ check.due <= Most(clock, store.at + Depletion(store.crop, Net))

\* Nobody is culled while there is crop, or more comes in than is eaten; and the cull takes no
\* unit too many: with any one of the fallen back, the rest could not be fed.
CulledOnlyInNeed ==
  [][Starving /\ garrison' # garrison =>
       /\ Draining /\ Settled(store, Net, clock) = 0
       /\ \A u \in Units : garrison'[u] < garrison[u] =>
            base < UpkeepOf([garrison' EXCEPT ![u] = @ + 1])]_vars

\* An army that starves does not starve for ever.
FedInTheEnd == Draining /\ Settled(store, Net, clock) = 0 ~> ~(Draining /\ Settled(store, Net, clock) = 0)
=============================================================================
