----------------------------- MODULE BuildQueue -----------------------------
(***************************************************************************)
(* Construction: web requests read a village, check that the building may   *)
(* be raised, and later insert an order; the scheduler claims orders whose   *)
(* instant has come and writes their ABSOLUTE target level; battles tear     *)
(* down buildings and change owners.  Nothing but the lane index and the     *)
(* settle stamp ties the request's read to its write, and neither covers     *)
(* the levels it read.                                                       *)
(*                                                                           *)
(* A request that is refused changes nothing and is not modelled apart from  *)
(* the refusals that depend on what others did meanwhile.  Costs are left to *)
(* VillageStore: here a request may turn out unaffordable at any time, and   *)
(* `stale` holds the requests whose stamp no longer matches.  Requests are   *)
(* one-shot, so the order a request inserts goes by the request's name.      *)
(***************************************************************************)
EXTENDS Integers, FiniteSets, FiniteSetsExt

CONSTANTS
  Villages, Players,
  Fields, Centre,            \* the two kinds of slots
  Buildings,                 \* kinds that stand on centre slots
  Multi,                     \* those a village may hold several of
  Seat,                      \* kind -> the centre slots it may be placed on
  Needs,                     \* kind -> its prerequisites, <<kind, level>> pairs
  MaxLevel,                  \* kind -> its level cap ("field": the normal cap)
  CapitalFieldMax,           \* the cap of a capital's fields
  DemolishMin,               \* Main Building level that demolishing takes
  Roman,                     \* villages of the Roman tribe: two lanes
  Requests,
  FirstSlots, FirstOwner, FirstCapital,  \* the world at the start
  MaxFaults, MaxCrashes, MaxBattles,     \* bounds
  NoOrder, NoSlot            \* "nothing held", "nothing razed"

Slots == Fields \cup Centre
Kinds == Buildings \cup {"field"}
Empty == [kind |-> "none", level |-> 0]
Row == [kind : Kinds \cup {"none"}, level : Nat]
Order == [v : Villages, s : Slots, kind : Kinds, target : Nat, by : Players, raise : BOOLEAN]

ASSUME BuildAssumption ==
  /\ {"main", "palace", "residence"} \subseteq Buildings
  /\ "none" \notin Kinds /\ "field" \notin Buildings
  /\ Fields \cap Centre = {}
  /\ FirstSlots \in [Villages -> [Slots -> Row]]
  /\ FirstOwner \in [Villages -> Players]
  /\ FirstCapital \subseteq Villages
  /\ \A v, w \in FirstCapital : FirstOwner[v] = FirstOwner[w] => v = w
  /\ \A v \in Villages, s \in Slots : FirstSlots[v][s].kind = "palace" => v \in FirstCapital
  /\ \A v \in Villages, s \in Fields : FirstSlots[v][s].kind = "field"
  /\ \A v \in Villages, s, t \in Centre :
       ~(/\ FirstSlots[v][s].kind = "residence" /\ FirstSlots[v][s].level > 0
         /\ FirstSlots[v][t].kind = "palace" /\ FirstSlots[v][t].level > 0)
  /\ MaxFaults \in Nat /\ MaxCrashes \in Nat /\ MaxBattles \in Nat
  /\ NoOrder \notin Order /\ NoSlot \notin Slots

VARIABLES
  slots,    \* village -> slot -> row of village_fields / village_buildings
  owner,    \* village -> player
  capital,  \* the villages flagged is_capital
  pc,       \* per request, then per order: where it stands
  rec,      \* per request: what it is going to insert, then its order row
  stale,    \* requests whose village's store was settled since they read it
  batch,    \* orders the running pass has claimed and not yet handled
  up,       \* is the process up
  faults, crashes, battles

vars == <<slots, owner, capital, pc, rec, stale, batch, up, faults, crashes, battles>>
world == <<slots, owner, capital>>
counters == <<faults, crashes, battles>>

-----------------------------------------------------------------------------
(* Rules, as the domain and order_build check them *)

\* The village holds `kind` at `level` or above.
Standing(v, kind, level) ==
  \E s \in Centre : slots[v][s].kind = kind /\ slots[v][s].level >= level

\* A Roman village runs one field and one building order side by side; every
\* other village has a single lane.
Lane(v, s) == IF v \notin Roman THEN "all" ELSE IF s \in Fields THEN "field" ELSE "building"

\* Mutant: only an order on the very slot counts.
SlotTaken(v, s) == \E q \in Requests : pc[q] = "pending" /\ rec[q].v = v /\ rec[q].s = s

\* Mutant: no index at all.
NothingTaken(v, s) == FALSE

\* The partial unique index (village_id, lane) WHERE status = 'pending'.
LaneTaken(v, s) == \E q \in Requests :
  pc[q] = "pending" /\ rec[q].v = v /\ Lane(v, rec[q].s) = Lane(v, s)

\* Upgrading names the kind that stands there; constructing takes an empty slot
\* the kind may sit on and, for all but a few kinds, a village without one yet.
Placeable(v, s, kind) ==
  \/ slots[v][s].kind = kind
  \/ /\ slots[v][s].kind = "none" /\ s \in Seat[kind]
     /\ kind \in Multi \/ \A t \in Centre : slots[v][t].kind # kind

Cap(v, kind) == IF kind = "field" /\ v \in capital THEN CapitalFieldMax ELSE MaxLevel[kind]

\* Mutant: the Residence and the Palace do not exclude each other.
NothingExcludes(v, kind) == TRUE

\* A village holds one of Residence and Palace.
NotExcluded(v, kind) ==
  /\ kind = "palace" => ~Standing(v, "residence", 1)
  /\ kind = "residence" => ~Standing(v, "palace", 1)

MayRaise(v, s, kind) ==
  /\ IF s \in Fields THEN kind = "field" ELSE kind \in Buildings /\ Placeable(v, s, kind)
  /\ slots[v][s].level < Cap(v, kind)
  /\ kind \in Buildings => \A n \in Needs[kind] : Standing(v, n[1], n[2])
  /\ NotExcluded(v, kind)

MayDemolish(v, s) ==
  /\ s \in Centre /\ slots[v][s].kind \in Buildings \ {"main", "palace"}
  /\ Standing(v, "main", DemolishMin)

\* One level at a time; a ruin at level 0 goes with the next order.
LevelBelow(level) == IF level = 0 THEN 0 ELSE level - 1

-----------------------------------------------------------------------------
(* Requests *)

\* The request ends, or its order does.
End(r, how) ==
  /\ pc' = [pc EXCEPT ![r] = how]
  /\ rec' = [rec EXCEPT ![r] = NoOrder]
  /\ stale' = stale \ {r}

Take(r, o) ==
  /\ pc[r] = "idle"
  /\ pc' = [pc EXCEPT ![r] = "read"]
  /\ rec' = [rec EXCEPT ![r] = o]
  /\ UNCHANGED <<world, stale, batch, up, counters>>

\* order_build: the owner's village is read and every rule checked on it.
OrderBuild(r, v, s, kind) ==
  /\ MayRaise(v, s, kind)
  /\ Take(r, [v |-> v, s |-> s, kind |-> kind, target |-> slots[v][s].level + 1,
              by |-> owner[v], raise |-> TRUE])

\* order_demolish: the same for tearing one level down.
OrderDemolish(r, v, s) ==
  /\ MayDemolish(v, s)
  /\ Take(r, [v |-> v, s |-> s, kind |-> slots[v][s].kind,
              target |-> LevelBelow(slots[v][s].level), by |-> owner[v], raise |-> FALSE])

\* Only now is the store read, with the stamp the insert will be guarded by; the
\* amounts may not cover the cost.
ReadStore(r) ==
  /\ pc[r] = "read"
  /\ \/ /\ pc' = [pc EXCEPT ![r] = "ready"]
        /\ UNCHANGED <<rec, stale>>
     \/ rec[r].raise /\ End(r, "refused")
  /\ UNCHANGED <<world, batch, up, counters>>

\* Whoever settles the village's store makes the stamps others hold stale.
SettledBy(v, who) ==
  {q \in Requests \ who : pc[q] = "ready" /\ rec[q].v = v}

\* start_build commits: guarded debit and insert, one transaction.
StartBuild(r) ==
  /\ pc[r] = "ready" /\ r \notin stale /\ ~LaneTaken(rec[r].v, rec[r].s)
  /\ pc' = [pc EXCEPT ![r] = "pending"]
  /\ stale' = stale \cup SettledBy(rec[r].v, {r})
  /\ UNCHANGED <<world, rec, batch, up, counters>>

\* It fails: the settle matched no row, or the insert hit the lane index.
StartRefused(r) ==
  /\ pc[r] = "ready"
  /\ r \in stale \/ LaneTaken(rec[r].v, rec[r].s)
  /\ End(r, "refused")
  /\ UNCHANGED <<world, batch, up, counters>>

\* Any other queue's debit or credit on the village.
OtherSettle(v) ==
  /\ SettledBy(v, {}) \ stale # {}
  /\ stale' = stale \cup SettledBy(v, {})
  /\ UNCHANGED <<world, pc, rec, batch, up, counters>>

-----------------------------------------------------------------------------
(* The scheduler's builds pass *)

\* claim_due_builds takes the orders whose instant has come: whichever they are,
\* build times being arbitrary here.
ClaimDue(S) ==
  /\ up /\ batch = {}
  /\ S # {} /\ \A q \in S : pc[q] = "pending"
  /\ pc' = [q \in Requests |-> IF q \in S THEN "processing" ELSE pc[q]]
  /\ batch' = S
  /\ UNCHANGED <<world, rec, stale, up, counters>>

\* The rows a finished order writes: a field's level, nothing where the last level
\* goes, else kind and level whatever stands there.
Built(o) == CASE o.s \in Fields -> [slots[o.v][o.s] EXCEPT !.level = o.target]
              [] o.s \in Centre /\ o.target = 0 -> Empty
              [] OTHER -> [kind |-> o.kind, level |-> o.target]

Realm(v) == {w \in Villages : owner[w] = owner[v]}

\* Mutant: the player's other capitals keep their flag.
RelocateUnexclusive(o) ==
  /\ capital' = capital \cup {o.v}
  /\ slots' = [slots EXCEPT ![o.v][o.s] = Built(o)]

\* Mutant: the other Palaces are left standing.
RelocateFlagOnly(o) ==
  /\ capital' = (capital \ Realm(o.v)) \cup {o.v}
  /\ slots' = [slots EXCEPT ![o.v][o.s] = Built(o)]

\* A finished Palace makes its village the capital of whoever owns it now, and
\* removes any Palace in that player's other villages.
Relocate(o) ==
  /\ capital' = (capital \ Realm(o.v)) \cup {o.v}
  /\ slots' = [w \in Villages |-> [s \in Slots |->
       IF w = o.v /\ s = o.s THEN Built(o)
       ELSE IF w \in Realm(o.v) \ {o.v} /\ slots[w][s].kind = "palace" THEN Empty
       ELSE slots[w][s]]]

\* apply_build, one transaction.
ApplyBuild(r) ==
  /\ r \in batch
  /\ IF rec[r].kind = "palace" /\ rec[r].target > 0 THEN Relocate(rec[r])
     ELSE /\ slots' = [slots EXCEPT ![rec[r].v][rec[r].s] = Built(rec[r])]
          /\ UNCHANGED capital
  /\ End(r, "done")
  /\ batch' = batch \ {r}
  /\ UNCHANGED <<owner, up, counters>>

\* The transaction fails: logged, the order stays "processing".
ApplyFails(r) ==
  /\ r \in batch /\ faults < MaxFaults
  /\ faults' = faults + 1
  /\ batch' = batch \ {r}
  /\ UNCHANGED <<world, pc, rec, stale, up, crashes, battles>>

-----------------------------------------------------------------------------
(* Battles: the same scheduler task, so never while a batch is in hand *)

\* Catapults pick one standing building; its new level is written to every
\* building of that kind.
Razed(v, b, after) == [slots EXCEPT ![v] = [s \in Slots |->
  IF s \in Centre /\ @[s].kind = @[b].kind THEN [@[s] EXCEPT !.level = after] ELSE @[s]]]

\* Mutant: the loser's orders survive the conquest.
SparesOrders(v) == {}

\* What a conquest deletes: the village's orders, waiting or claimed.
Cancelled(v) == {q \in Requests : pc[q] \in {"pending", "processing"} /\ rec[q].v = v}

\* apply_battle as far as it touches buildings: the raid's debit settles the
\* store, the catapults' level is written, a conquest moves the village and
\* deletes its orders.  A capital is never taken.
Battle(v, b, after, p, looted) ==
  /\ up /\ batch = {} /\ battles < MaxBattles
  /\ b # NoSlot \/ p # owner[v]
  /\ b # NoSlot => slots[v][b].kind \in Buildings /\ after < slots[v][b].level
  /\ p # owner[v] => v \notin capital
  /\ battles' = battles + 1
  /\ slots' = IF b = NoSlot THEN slots ELSE Razed(v, b, after)
  /\ owner' = [owner EXCEPT ![v] = p]
  /\ LET gone == IF p = owner[v] THEN {} ELSE Cancelled(v) IN
       /\ pc' = [q \in Requests |-> IF q \in gone THEN "cancelled" ELSE pc[q]]
       /\ rec' = [q \in Requests |-> IF q \in gone THEN NoOrder ELSE rec[q]]
  /\ stale' = IF looted THEN stale \cup SettledBy(v, {}) ELSE stale
  /\ UNCHANGED <<capital, batch, up, faults, crashes>>

-----------------------------------------------------------------------------
(* Crash and restart *)

Crash ==
  /\ up /\ crashes < MaxCrashes
  /\ crashes' = crashes + 1
  /\ up' = FALSE
  /\ batch' = {}
  /\ LET lost == {q \in Requests : pc[q] \in {"read", "ready"}} IN
       /\ pc' = [q \in Requests |-> IF q \in lost THEN "refused" ELSE pc[q]]
       /\ rec' = [q \in Requests |-> IF q \in lost THEN NoOrder ELSE rec[q]]
  /\ stale' = {}
  /\ UNCHANGED <<world, faults, battles>>

Orphans == {q \in Requests : pc[q] = "processing"}

\* Requeueing one statement's worth of orphans breaks the lane index.
RequeueClashes == \E q \in Orphans :
  \E p \in Requests \ {q} : /\ pc[p] \in {"pending", "processing"}
                            /\ rec[p].v = rec[q].v
                            /\ Lane(rec[p].v, rec[p].s) = Lane(rec[q].v, rec[q].s)

\* Mutant: orphans are left where they are.
RestartBare ==
  /\ ~up /\ up' = TRUE
  /\ UNCHANGED <<world, pc, rec, stale, batch, counters>>

\* Startup: one UPDATE puts every orphan back, or fails and puts back none; the
\* failure is logged and the loop starts all the same.
Restart ==
  /\ ~up /\ up' = TRUE
  /\ pc' = [q \in Requests |-> IF q \in Orphans /\ ~RequeueClashes THEN "pending" ELSE pc[q]]
  /\ UNCHANGED <<world, rec, stale, batch, counters>>

-----------------------------------------------------------------------------
Init ==
  /\ slots = FirstSlots /\ owner = FirstOwner /\ capital = FirstCapital
  /\ pc = [r \in Requests |-> "idle"]
  /\ rec = [r \in Requests |-> NoOrder]
  /\ stale = {} /\ batch = {} /\ up = TRUE
  /\ faults = 0 /\ crashes = 0 /\ battles = 0

NewRequest ==
  up /\ \E r \in Requests, v \in Villages, s \in Slots :
          OrderDemolish(r, v, s) \/ \E k \in Kinds : OrderBuild(r, v, s, k)

\* What remains of a request once its handler runs.
Handlers == up /\ \E r \in Requests : ReadStore(r) \/ StartBuild(r) \/ StartRefused(r)

BuildsPass == \/ \E S \in SUBSET Requests : ClaimDue(S)
              \/ \E r \in Requests : ApplyBuild(r)

Battles ==
  \E v \in Villages, b \in Centre \cup {NoSlot}, p \in Players, looted \in BOOLEAN :
    \E after \in 0 .. (IF b = NoSlot THEN 0 ELSE slots[v][b].level) :
      Battle(v, b, after, p, looted)

Next == \/ NewRequest \/ Handlers
        \/ up /\ \E v \in Villages : OtherSettle(v)
        \/ BuildsPass
        \/ \E r \in Requests : ApplyFails(r)
        \/ Battles
        \/ Crash \/ Restart

Spec == Init /\ [][Next]_vars

\* The poll loop goes on and the process is restarted; players owe nothing.
FairSpec == Spec /\ WF_vars(BuildsPass) /\ WF_vars(Restart)

States == {"idle", "read", "ready", "pending", "processing", "done", "refused", "cancelled"}
Busy(r) == pc[r] \in {"read", "ready"}
Live(r) == pc[r] \in {"pending", "processing"}

\* A quiet history: while a request on a village is under way no order of that
\* village is in the scheduler's hands and its buildings and owner stay;
\* catapults hit no village that has orders in its queue, unless it falls; and no
\* Palace moves away while an order for the old one is in the queue.
HandsOff == \A r \in Requests : Busy(r)' =>
  LET v == rec'[r].v IN
    /\ \A q \in Requests : pc'[q] = "processing" => rec'[q].v # v
    /\ slots'[v] = slots[v] /\ owner'[v] = owner[v]
RazesIdle == battles' # battles => \A r \in Requests : Live(r)' => slots'[rec[r].v] = slots[rec[r].v]
PalaceWaits == \A r \in Requests : Live(r)' /\ rec[r].kind = "palace" => rec[r].v \notin capital \ capital'
Quiet == HandsOff /\ RazesIdle /\ PalaceWaits

QuietSpec == Init /\ [][Next /\ Quiet]_vars

\* Besides, a handler that has begun runs to its end.
FairQuietSpec == /\ QuietSpec
                 /\ WF_vars(Handlers /\ Quiet)
                 /\ WF_vars(BuildsPass /\ Quiet)
                 /\ WF_vars(Restart /\ Quiet)
-----------------------------------------------------------------------------
(* Properties *)

\* Every variable has its type; exactly the requests and orders under way hold a
\* record, and what a pass holds is marked processing.
TypeOK ==
  /\ slots \in [Villages -> [Slots -> Row]]
  /\ owner \in [Villages -> Players]
  /\ capital \subseteq Villages
  /\ pc \in [Requests -> States]
  /\ rec \in [Requests -> Order \cup {NoOrder}]
  /\ \A r \in Requests : (rec[r] # NoOrder) <=> (Busy(r) \/ Live(r))
  /\ stale \subseteq {r \in Requests : pc[r] = "ready"}
  /\ batch \subseteq {r \in Requests : pc[r] = "processing"}
  /\ ~up => batch = {}
  /\ up \in BOOLEAN
  /\ faults \in 0 .. MaxFaults /\ crashes \in 0 .. MaxCrashes /\ battles \in 0 .. MaxBattles

\* A player has at most one capital, through every race, battle, relocation and
\* restart (013 AC9).
OneCapital == \A v, w \in capital : owner[v] = owner[w] => v = w

\* A Palace stands only in a capital, so a player has at most one Palace and no
\* village with a Palace is ever conquered (013 AC9, 014).
PalaceIsCapital ==
  \A v \in Villages, s \in Slots : slots[v][s].kind = "palace" => v \in capital

\* A village has at most one order under way in a lane, waiting or claimed (the
\* QueueLane comment: "enforced by the persistence layer even under races").
LaneHeldOnce == \A q, r \in Requests :
  Live(q) /\ Live(r) /\ rec[q].v = rec[r].v
    /\ Lane(rec[q].v, rec[q].s) = Lane(rec[r].v, rec[r].s) => q = r

\* A finished upgrade raises what stands there by exactly one level, and a
\* finished demolition lowers it by one (ADR 0005: "apply +1 level, exactly once").
OneStep == [][\A r \in Requests : pc[r] = "processing" /\ pc'[r] = "done" =>
  LET o == rec[r] IN
    slots'[o.v][o.s].level = IF o.raise THEN slots[o.v][o.s].level + 1
                             ELSE LevelBelow(slots[o.v][o.s].level)]_vars

\* A village never holds a standing Residence and a standing Palace (013 AC3).
Exclusive == \A v \in Villages : ~(Standing(v, "residence", 1) /\ Standing(v, "palace", 1))

\* Every order in a village's queue was placed by the player who owns it now (the
\* conquest comment: "the new owner starts every queue fresh").
OrdersOfOwner == \A r \in Requests : Live(r) => rec[r].by = owner[rec[r].v]

\* An order in the queue is applied or cancelled in the end, however often the
\* process dies (003 AC5; the startup comment "recover anything left mid-flight").
OrdersFinish == \A r \in Requests : pc[r] = "pending" ~> pc[r] \in {"done", "cancelled"}
=============================================================================
