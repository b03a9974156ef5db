-------------------------------- MODULE Market --------------------------------
(***************************************************************************)
(* Shipments.  A request reads the Marketplace, then the store, then counts  *)
(* the merchants that are out, and sends: debit and row in one transaction   *)
(* that only the store's stamp guards.  Every instance's scheduler claims    *)
(* the legs that have arrived, credits the target under the same guard, and  *)
(* sends the merchants home empty; they count as out until they are back.    *)
(* Builds, other charges and the inactivity sweep appear as what they do to  *)
(* a village's part in this.                                                 *)
(***************************************************************************)
EXTENDS Economy, FiniteSets, Functions

CONSTANTS
  Towns, Shippers, Wagons, Traders, \* villages; requests; rows of trade_movements; instances
  Carry, MerchantsOf,               \* what a merchant carries; Marketplace level -> merchants
  Road,                             \* how long a leg takes
  Loads, Toll,                      \* what may be sent; what another order charges
  FirstMarket, FirstStore,
  MaxMoment, MaxReads, MaxCharges, MaxMishaps, \* bounds
  NoLeg, NotAsked, Served, AtRest

Levels == DOMAIN MerchantsOf

ASSUME MarketAssumption ==
  /\ Carry \in Nat \ {0} /\ Road \in Nat \ {0} /\ Toll \in Nat /\ Loads \subseteq Nat \ {0}
  /\ MerchantsOf \in [Levels -> Nat] /\ 0 \in Levels /\ MerchantsOf[0] = 0
  /\ FirstMarket \in [Towns -> Levels] /\ FirstStore \in [Towns -> 0 .. Capacity]
  /\ IsFiniteSet(Towns) /\ IsFiniteSet(Wagons)
  /\ {MaxMoment, MaxReads, MaxCharges, MaxMishaps} \subseteq Nat

Moments == 0 .. MaxMoment + Road
Leg == [kind : {"deliver", "return"}, home : Towns, target : Towns, load : Nat, merchants : Nat,
        due : Moments, claimed : BOOLEAN]
Shipment == [step : {"asked", "priced", "counted"}, home : Towns, target : Towns, load : Loads,
             now : Moments, level : Levels, read : Row]
Delivery == [wagon : Wagons, leg : Leg, read : Row, reads : Nat]

ASSUME NoLegIsNew == NoLeg \notin Leg /\ {NotAsked, Served} \cap Shipment = {} /\ NotAsked # Served
                     /\ AtRest \notin Delivery

VARIABLES
  moment,
  standing,   \* villages that exist
  market,     \* village -> level of its Marketplace
  stores,     \* village -> its row of village_resources
  legs,       \* row -> a leg under way
  shipment,   \* request -> what it has read
  cargo,      \* instance -> the legs its pass has claimed and not handled
  delivery,   \* instance -> the delivery it is at
  running,
  books,      \* goods produced less goods spent, overflown or lost with a village
  charges, mishaps

marketVars == <<moment, standing, market, stores, legs, shipment, cargo, delivery, running, books, charges, mishaps>>
bounds == <<charges, mishaps>>

\* merchants_required
Required(load) == (load + Carry - 1) \div Carry
LegsOf(h) == {w \in Wagons : legs[w] # NoLeg /\ legs[w].home = h}
\* committed_merchants: those on either leg, claimed or not.
Committed(h) == SumFunction([w \in LegsOf(h) |-> legs[w].merchants])

\* Requests are as good as one another, and so are rows that no instance knows of.
Caller == CHOOSE r \in Shippers : shipment[r] = NotAsked
Unused(w) == legs[w] = NoLeg /\ \A i \in Traders : cargo[i][w] = NoLeg
Spare == CHOOSE w \in Wagons : Unused(w)

-----------------------------------------------------------------------------
(* Web requests *)

\* order_trade: its "now", and the Marketplace of the village selected.
AskShipment(r, h, t, n) ==
  /\ shipment[r] = NotAsked /\ h \in standing /\ t \in standing \ {h}
  /\ market[h] > 0
  /\ shipment' = [shipment EXCEPT ![r] =
       [step |-> "asked", home |-> h, target |-> t, load |-> n, now |-> moment, level |-> market[h],
        read |-> [amount |-> 0, stamp |-> 0]]]
  /\ UNCHANGED <<moment, standing, market, stores, legs, cargo, delivery, running, books, bounds>>

Stands(r, step) == /\ shipment[r] \notin {NotAsked, Served} /\ shipment[r].step = step
                   /\ shipment[r].home \in standing

\* The store settled to its "now" must hold the load.
PriceShipment(r) ==
  /\ Stands(r, "asked")
  /\ Settle(stores[shipment[r].home], shipment[r].now) >= shipment[r].load
  /\ shipment' = [shipment EXCEPT ![r].step = "priced", ![r].read = stores[shipment[r].home]]
  /\ UNCHANGED <<moment, standing, market, stores, legs, cargo, delivery, running, books, bounds>>

\* The free merchants of the level that was read must carry it.
CountMerchants(r) ==
  LET s == shipment[r] IN
  /\ Stands(r, "priced")
  /\ Required(s.load) + Committed(s.home) <= MerchantsOf[s.level]
  /\ shipment' = [shipment EXCEPT ![r].step = "counted"]
  /\ UNCHANGED <<moment, standing, market, stores, legs, cargo, delivery, running, books, bounds>>

\* Mutant: the merchants are sent whatever the store's stamp.
SendUnguarded(r, w) ==
  LET s == shipment[r]  settled == Settle(s.read, s.now) IN
  /\ Stands(r, "counted") /\ s.target \in standing /\ Unused(w)
  /\ stores' = [stores EXCEPT ![s.home] = [amount |-> settled - s.load, stamp |-> s.now]]
  /\ legs' = [legs EXCEPT ![w] = [kind |-> "deliver", home |-> s.home, target |-> s.target, load |-> s.load,
       merchants |-> Required(s.load), due |-> s.now + Road, claimed |-> FALSE]]
  /\ shipment' = [shipment EXCEPT ![r] = Served]
  /\ books' = books + settled - s.read.amount
  /\ UNCHANGED <<moment, standing, market, cargo, delivery, running, bounds>>

\* start_trade: the debit, guarded by the stamp that was read, and the leg.
SendShipment(r, w) ==
  LET s == shipment[r]  settled == Settle(s.read, s.now) IN
  /\ Stands(r, "counted") /\ s.target \in standing /\ Unused(w)
  /\ stores[s.home].stamp = s.read.stamp
  /\ stores' = [stores EXCEPT ![s.home] = [amount |-> settled - s.load, stamp |-> s.now]]
  /\ legs' = [legs EXCEPT ![w] = [kind |-> "deliver", home |-> s.home, target |-> s.target, load |-> s.load,
       merchants |-> Required(s.load), due |-> s.now + Road, claimed |-> FALSE]]
  /\ shipment' = [shipment EXCEPT ![r] = Served]
  /\ books' = books + settled - s.read.amount
  /\ UNCHANGED <<moment, standing, market, cargo, delivery, running, bounds>>

\* A check fails, the stamp has changed, or the handler is dropped.
EndShipment(r) ==
  /\ shipment[r] \notin {NotAsked, Served}
  /\ shipment' = [shipment EXCEPT ![r] = Served]
  /\ UNCHANGED <<moment, standing, market, stores, legs, cargo, delivery, running, books, bounds>>

-----------------------------------------------------------------------------
(* The scheduler: process_due_trades *)

Rests(i) == i \in running /\ delivery[i] = AtRest
Emptied(i) == \A w \in Wagons : cargo[i][w] = NoLeg
Claimed(l) == [l EXCEPT !.claimed = TRUE]

ClaimLegs(i) ==
  LET S == {w \in Wagons : legs[w] # NoLeg /\ legs[w].due <= moment /\ ~legs[w].claimed} IN
  /\ Rests(i) /\ Emptied(i) /\ S # {}
  /\ legs' = [w \in Wagons |-> IF w \in S THEN Claimed(legs[w]) ELSE legs[w]]
  /\ cargo' = [cargo EXCEPT ![i] = [w \in Wagons |-> IF w \in S THEN Claimed(legs[w]) ELSE NoLeg]]
  /\ UNCHANGED <<moment, standing, market, stores, shipment, delivery, running, books, bounds>>

Picks(i, w, kind) == Rests(i) /\ cargo[i][w] # NoLeg /\ cargo[i][w].kind = kind
PutDown(i, w) == cargo' = [cargo EXCEPT ![i][w] = NoLeg]
Apart(l) == ~({l.home, l.target} \subseteq standing)

\* complete_trade: the merchants are home.
FreeMerchants(i, w) ==
  /\ Picks(i, w, "return")
  /\ legs' = [legs EXCEPT ![w] = IF @ = cargo[i][w] THEN NoLeg ELSE @]
  /\ PutDown(i, w)
  /\ UNCHANGED <<moment, standing, market, stores, shipment, delivery, running, books, bounds>>

\* deliver reads both villages, and the target's store.
ReadTarget(i, w) ==
  LET l == cargo[i][w] IN
  /\ Picks(i, w, "deliver") /\ ~Apart(l)
  /\ delivery' = [delivery EXCEPT ![i] = [wagon |-> w, leg |-> l, read |-> stores[l.target], reads |-> 1]]
  /\ PutDown(i, w)
  /\ UNCHANGED <<moment, standing, market, stores, legs, shipment, running, books, bounds>>

Delivers(i) == delivery[i] # AtRest /\ ~Apart(delivery[i].leg)
GoesOn(i) == delivery' = [delivery EXCEPT ![i] = AtRest] /\ UNCHANGED cargo

\* The credit never dates the store back.
CreditClock(d) == Most(d.leg.due, d.read.stamp)
Matches(i) == stores[delivery[i].leg.target].stamp = delivery[i].read.stamp

\* The row of a leg that has been delivered carries the way home; if somebody has closed it before,
\* there is another.
WayHome(i, l) ==
  LET d == delivery[i]
      back == [l EXCEPT !.kind = "return", !.load = 0, !.due = @ + Road, !.claimed = FALSE] IN
  IF legs[d.wagon] = l THEN legs' = [legs EXCEPT ![d.wagon] = back]
  ELSE \E w \in Wagons : Unused(w) /\ legs' = [legs EXCEPT ![w] = back]

\* Mutant: the credit is written whatever the stamp.
DeliverUnguarded(i) ==
  LET d == delivery[i]  l == d.leg
      settled == Settle(d.read, CreditClock(d))
      filled == DepositCapped(settled, l.load) IN
  /\ Delivers(i)
  /\ stores' = [stores EXCEPT ![l.target] = [amount |-> filled, stamp |-> CreditClock(d)]]
  /\ WayHome(i, l)
  /\ books' = books + filled - d.read.amount - l.load
  /\ GoesOn(i)
  /\ UNCHANGED <<moment, standing, market, shipment, running, bounds>>

\* deliver_and_schedule_return: the capped credit under the stamp that was read, the row done, the
\* merchants on their way home: one transaction.
Deliver(i) ==
  LET d == delivery[i]  l == d.leg
      settled == Settle(d.read, CreditClock(d))
      filled == DepositCapped(settled, l.load) IN
  /\ Delivers(i) /\ Matches(i)
  /\ stores' = [stores EXCEPT ![l.target] = [amount |-> filled, stamp |-> CreditClock(d)]]
  /\ WayHome(i, l)
  /\ books' = books + filled - d.read.amount - l.load
  /\ GoesOn(i)
  /\ UNCHANGED <<moment, standing, market, shipment, running, bounds>>

\* The target has settled meanwhile: it is read again, a few times.
ReadAgain(i) ==
  LET d == delivery[i] IN
  /\ Delivers(i) /\ ~Matches(i) /\ d.reads < MaxReads
  /\ delivery' = [delivery EXCEPT ![i].read = stores[d.leg.target], ![i].reads = @ + 1]
  /\ UNCHANGED <<moment, standing, market, stores, legs, shipment, cargo, running, books, bounds>>

\* Mutant: the leg is put down and stays claimed.
ForgetLeg(i) ==
  /\ Delivers(i) /\ ~Matches(i) /\ delivery[i].reads = MaxReads
  /\ GoesOn(i)
  /\ UNCHANGED <<moment, standing, market, stores, legs, shipment, running, books, bounds>>

\* release_trade, if the leg is still claimed.
ReleaseLeg(i) ==
  LET d == delivery[i] IN
  /\ Delivers(i) /\ ~Matches(i) /\ d.reads = MaxReads
  /\ legs' = [legs EXCEPT ![d.wagon] = IF @ = d.leg THEN [@ EXCEPT !.claimed = FALSE] ELSE @]
  /\ GoesOn(i)
  /\ UNCHANGED <<moment, standing, market, stores, shipment, running, books, bounds>>

\* A village of the leg is gone, and the leg with it.
GiveUp(i, w) ==
  /\ \/ Picks(i, w, "deliver") /\ Apart(cargo[i][w]) /\ PutDown(i, w) /\ UNCHANGED delivery
     \/ delivery[i] # AtRest /\ delivery[i].wagon = w /\ Apart(delivery[i].leg) /\ GoesOn(i)
  /\ UNCHANGED <<moment, standing, market, stores, legs, shipment, running, books, bounds>>

-----------------------------------------------------------------------------
(* What else happens to a village *)

Mishap == mishaps < MaxMishaps /\ mishaps' = mishaps + 1

\* A build, a demolition or a catapult changes the Marketplace.
Rebuild(v, l) ==
  /\ Mishap /\ v \in standing /\ l # market[v]
  /\ market' = [market EXCEPT ![v] = l]
  /\ UNCHANGED <<moment, standing, stores, legs, shipment, cargo, delivery, running, books, charges>>

\* Another order is paid from the store.
Charge(v) ==
  LET settled == Settle(stores[v], moment) IN
  /\ charges < MaxCharges /\ charges' = charges + 1
  /\ v \in standing /\ settled >= Toll
  /\ stores' = [stores EXCEPT ![v] = [amount |-> settled - Toll, stamp |-> moment]]
  /\ books' = books + settled - stores[v].amount - Toll
  /\ UNCHANGED <<moment, standing, market, legs, shipment, cargo, delivery, running, mishaps>>

\* The inactivity sweep: the legs from and to the village go with it.
Abandon(v) ==
  LET S == {w \in Wagons : legs[w] # NoLeg /\ v \in {legs[w].home, legs[w].target}} IN
  /\ Mishap /\ v \in standing
  /\ standing' = standing \ {v}
  /\ stores' = [stores EXCEPT ![v] = [amount |-> 0, stamp |-> 0]]
  /\ legs' = [w \in Wagons |-> IF w \in S THEN NoLeg ELSE legs[w]]
  /\ books' = books - stores[v].amount - SumFunction([w \in S |-> legs[w].load])
  /\ UNCHANGED <<moment, market, shipment, cargo, delivery, running, charges>>

-----------------------------------------------------------------------------
(* Time, stops and starts *)

Passes == /\ moment < MaxMoment /\ moment' = moment + 1
          /\ UNCHANGED <<standing, market, stores, legs, shipment, cargo, delivery, running, books, bounds>>

\* An instance stops where it is; a request it was answering ends.
Stop(i) ==
  /\ Mishap /\ i \in running /\ running' = running \ {i}
  /\ delivery' = [delivery EXCEPT ![i] = AtRest]
  /\ cargo' = [cargo EXCEPT ![i] = [w \in Wagons |-> NoLeg]]
  /\ UNCHANGED <<moment, standing, market, stores, legs, shipment, books, charges>>

\* requeue_orphaned_trades, whoever has claimed them.
Start(i) ==
  /\ i \notin running /\ running' = running \cup {i}
  /\ legs' = [w \in Wagons |-> IF legs[w] = NoLeg THEN NoLeg ELSE [legs[w] EXCEPT !.claimed = FALSE]]
  /\ UNCHANGED <<moment, standing, market, stores, shipment, cargo, delivery, books, bounds>>

-----------------------------------------------------------------------------
MarketInit ==
  /\ moment = 0 /\ standing = Towns /\ market = FirstMarket
  /\ stores = [v \in Towns |-> [amount |-> FirstStore[v], stamp |-> 0]]
  /\ legs = [w \in Wagons |-> NoLeg] /\ shipment = [r \in Shippers |-> NotAsked]
  /\ cargo = [i \in Traders |-> [w \in Wagons |-> NoLeg]]
  /\ delivery = [i \in Traders |-> AtRest] /\ running = Traders
  /\ books = 0 /\ charges = 0 /\ mishaps = 0

Shipping == running # {} /\ \E r \in Shippers :
  \/ shipment[r] = NotAsked /\ r = Caller /\ \E h, t \in Towns, n \in Loads : AskShipment(r, h, t, n)
  \/ PriceShipment(r) \/ CountMerchants(r)

\* A request that is under way comes to an end.
Answering == running # {} /\ \E r \in Shippers :
  EndShipment(r) \/ ((\E w \in Wagons : Unused(w)) /\ SendShipment(r, Spare))

Hauls(i) ==
  \/ ClaimLegs(i) \/ Deliver(i) \/ ReadAgain(i) \/ ReleaseLeg(i)
  \/ \E w \in Wagons : FreeMerchants(i, w) \/ ReadTarget(i, w) \/ GiveUp(i, w)

Elsewhere == \E v \in Towns : Charge(v) \/ Abandon(v) \/ \E l \in Levels : Rebuild(v, l)

MarketNext ==
  \/ Shipping \/ Answering \/ Elsewhere \/ Passes
  \/ \E i \in Traders : Hauls(i) \/ Stop(i) \/ Start(i)

MarketSpec == MarketInit /\ [][MarketNext]_marketVars

\* Who relies on the stamp of a store: a request that has read it, a delivery that has.
Reading(v) == \/ \E r \in Shippers : (Stands(r, "priced") \/ Stands(r, "counted")) /\ shipment[r].home = v
              \/ \E i \in Traders : delivery[i] # AtRest /\ delivery[i].leg.target = v

\* An orderly history: while somebody relies on a store's stamp, whoever writes the store dates it later,
\* and no two instances deliver to the same village at once; no Marketplace falls under a request of
\* its village; and an instance starts while no other holds what it requeues.
DatedLater == \A v \in Towns : Reading(v) /\ Reading(v)' /\ v \in standing' =>
  stores'[v] = stores[v] \/ stores'[v].stamp > stores[v].stamp
DeliversAlone == \A i, j \in Traders : i # j /\ delivery'[i] # AtRest /\ delivery'[j] # AtRest =>
  delivery'[i].leg.target # delivery'[j].leg.target
MarketStays == \A r \in Shippers : shipment[r] \notin {NotAsked, Served} =>
  market'[shipment[r].home] >= market[shipment[r].home]
StartsAlone == running' \ running # {} => \A i \in Traders : delivery[i] = AtRest /\ Emptied(i)
MarketQuiet == DatedLater /\ DeliversAlone /\ MarketStays /\ StartsAlone

\* Schedulers loop for ever, requests come to an end, a stopped instance is started again, time passes.
MarketFair == /\ \A i \in Traders : WF_marketVars(Hauls(i) /\ MarketQuiet) /\ WF_marketVars(Start(i) /\ MarketQuiet)
              /\ WF_marketVars(Answering /\ MarketQuiet) /\ WF_marketVars(Passes /\ MarketQuiet)

MarketQuietSpec == MarketInit /\ [][MarketNext /\ MarketQuiet]_marketVars /\ MarketFair

-----------------------------------------------------------------------------
(* Properties *)

\* Every variable has its type.
MarketTypeOK ==
  /\ moment \in 0 .. MaxMoment /\ standing \subseteq Towns /\ market \in [Towns -> Levels]
  /\ stores \in [Towns -> Row] /\ legs \in [Wagons -> Leg \cup {NoLeg}]
  /\ shipment \in [Shippers -> Shipment \cup {NotAsked, Served}]
  /\ cargo \in [Traders -> [Wagons -> Leg \cup {NoLeg}]]
  /\ delivery \in [Traders -> Delivery \cup {AtRest}]
  /\ running \subseteq Traders /\ books \in Int
  /\ charges \in 0 .. MaxCharges /\ mishaps \in 0 .. MaxMishaps

\* What is in the stores, on the road, spent or lost is what there was and what was made: nothing is
\* delivered twice and nothing is lost between a debit and its credit (008 AC4).
GoodsAccounted ==
  SumFunction([v \in Towns |-> stores[v].amount])
    + SumFunction([w \in {x \in Wagons : legs[x] # NoLeg} |-> legs[w].load])
  = SumFunction(FirstStore) + books

\* No village sends more merchants than its Marketplace has, counting those still under way; the
\* count is read beside the store and only the store's stamp is guarded (008 AC3).
MerchantsHeld == [][\A v \in Towns :
  Committed(v)' > Committed(v) => Committed(v)' <= MerchantsOf[market[v]]]_marketVars

\* In the end every shipment has arrived and its merchants are home, through retries, releases, stops
\* and starts, but for those still on the road when the clock stops (008 AC5).
MerchantsReturn == <>[](\A w \in Wagons : legs[w] # NoLeg => legs[w].due > MaxMoment)
=============================================================================
