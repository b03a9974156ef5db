-------------------------- MODULE BuildQueueProofs --------------------------
(***************************************************************************)
(* Proofs about BuildQueue for every set of villages, players, buildings,    *)
(* rules and requests.  In every history: types, and the two halves of "one  *)
(* capital", each inductive with the types, for relocation clears what it    *)
(* must and a battle never takes a capital.  In quiet histories: what a      *)
(* request has read, and what an order in the queue was placed for, is still *)
(* what stands there; nobody but another order of the same lane could change *)
(* it, and no lane holds two.                                                *)
(***************************************************************************)
EXTENDS BuildQueue, TLAPS

Recorded == \A r \in Requests : (rec[r] # NoOrder) <=> (Busy(r) \/ Live(r))

LEMMA EmptyIsRow == Empty \in Row
BY DEF Empty, Row

\* Whoever is busy or has an order under way holds a record of it.
LEMMA Holds ==
  ASSUME TypeOK, NEW r \in Requests,
         pc[r] \in {"read", "ready", "pending", "processing"}
  PROVE  rec[r] \in Order
BY DEF TypeOK, Busy, Live

\* What a finished order writes is a row.
LEMMA BuiltIsRow ==
  ASSUME TypeOK, NEW o \in Order
  PROVE  Built(o) \in Row
<1>1. slots[o.v][o.s] \in Row /\ o.target \in Nat /\ o.kind \in Kinds
  BY DEF TypeOK, Order
<1>2. [slots[o.v][o.s] EXCEPT !.level = o.target] \in Row
  BY <1>1 DEF Row
<1>3. [kind |-> o.kind, level |-> o.target] \in Row
  BY <1>1 DEF Row
<1> QED
  BY <1>2, <1>3, EmptyIsRow DEF Built

-----------------------------------------------------------------------------
(* Types *)

LEMMA TypeInit == Init => TypeOK
BY BuildAssumption DEF Init, TypeOK, States, Busy, Live

\* A request that takes up an order keeps the types.
LEMMA TakeType ==
  ASSUME TypeOK, NEW r \in Requests, NEW o \in Order, Take(r, o)
  PROVE  TypeOK'
<1>1. pc' \in [Requests -> States] /\ rec' \in [Requests -> Order \cup {NoOrder}]
  BY DEF TypeOK, Take, States
<1>2. Recorded'
  <2>1. o # NoOrder /\ pc'[r] = "read" /\ rec'[r] = o
    BY BuildAssumption DEF Take, TypeOK
  <2> QED
    BY <2>1 DEF Take, TypeOK, Recorded, Busy, Live
<1> QED
  BY <1>1, <1>2 DEF Take, TypeOK, Recorded, world, counters

\* A request or order that ends leaves no record and no stale stamp behind.
LEMMA EndType ==
  ASSUME TypeOK, NEW r \in Requests, End(r, "refused") \/ End(r, "done")
  PROVE  /\ pc' \in [Requests -> States]
         /\ rec' \in [Requests -> Order \cup {NoOrder}]
         /\ Recorded'
         /\ stale' \subseteq {q \in Requests : pc'[q] = "ready"}
         /\ batch \ {r} \subseteq {q \in Requests : pc'[q] = "processing"}
BY DEF End, TypeOK, States, Recorded, Busy, Live

LEMMA ApplyType ==
  ASSUME TypeOK, NEW r \in Requests, ApplyBuild(r)
  PROVE  TypeOK'
<1>1. rec[r] \in Order
  BY Holds DEF ApplyBuild, TypeOK
<1>2. Built(rec[r]) \in Row
  BY <1>1, BuiltIsRow
<1>3. slots' \in [Villages -> [Slots -> Row]] /\ capital' \subseteq Villages
  <2>1. CASE Relocate(rec[r])
    BY <1>1, <1>2, <2>1, EmptyIsRow DEF Relocate, TypeOK, Order
  <2>2. CASE slots' = [slots EXCEPT ![rec[r].v][rec[r].s] = Built(rec[r])] /\ UNCHANGED capital
    BY <1>1, <1>2, <2>2 DEF TypeOK, Order
  <2> QED
    BY <2>1, <2>2 DEF ApplyBuild
<1> QED
  BY <1>3, EndType DEF ApplyBuild, TypeOK, Recorded, counters

LEMMA BattleType ==
  ASSUME TypeOK, Battles
  PROVE  TypeOK'
<1>a. PICK v \in Villages, b \in Centre \cup {NoSlot}, p \in Players, looted \in BOOLEAN :
        \E after \in 0 .. (IF b = NoSlot THEN 0 ELSE slots[v][b].level) :
          Battle(v, b, after, p, looted)
  BY DEF Battles
<1>b. PICK after \in 0 .. (IF b = NoSlot THEN 0 ELSE slots[v][b].level) :
        Battle(v, b, after, p, looted)
  BY <1>a
<1>c. after \in Nat
  OBVIOUS
<1>1. slots' \in [Villages -> [Slots -> Row]]
  <2>1. CASE b = NoSlot
    BY <1>b, <2>1 DEF Battle, TypeOK
  <2>2. CASE b # NoSlot
    <3>1. ASSUME NEW s \in Slots PROVE [slots[v][s] EXCEPT !.level = after] \in Row
      <4>1. slots[v][s] \in Row
        BY DEF TypeOK
      <4> QED
        BY <1>c, <4>1 DEF Row
    <3> QED
      BY <1>b, <2>2, <3>1 DEF Battle, Razed, TypeOK
  <2> QED
    BY <2>1, <2>2
<1> DEFINE gone == IF p = owner[v] THEN {} ELSE Cancelled(v)
<1>2. /\ pc' = [q \in Requests |-> IF q \in gone THEN "cancelled" ELSE pc[q]]
      /\ rec' = [q \in Requests |-> IF q \in gone THEN NoOrder ELSE rec[q]]
  BY <1>b DEF Battle
<1>3. \A q \in gone : Live(q)
  BY DEF Cancelled, Live
<1>4. /\ pc' \in [Requests -> States]
      /\ rec' \in [Requests -> Order \cup {NoOrder}]
      /\ Recorded'
  BY <1>2, <1>3 DEF TypeOK, States, Recorded, Busy, Live
<1>5. stale' \subseteq {q \in Requests : pc'[q] = "ready"}
  BY <1>2, <1>3, <1>b DEF Battle, TypeOK, SettledBy, Live
<1>6. owner' \in [Villages -> Players] /\ battles' \in 0 .. MaxBattles
  BY <1>b, BuildAssumption DEF Battle, TypeOK
<1>7. UNCHANGED <<capital, batch, up, faults, crashes>> /\ batch = {}
  BY <1>b DEF Battle
<1> QED
  BY <1>1, <1>4, <1>5, <1>6, <1>7 DEF TypeOK, Recorded

LEMMA TypeStep == TypeOK /\ [Next]_vars => TypeOK'
<1> SUFFICES ASSUME TypeOK, [Next]_vars PROVE TypeOK'
  OBVIOUS
<1> USE BuildAssumption
<1>1. ASSUME NEW r \in Requests, NEW v \in Villages, NEW s \in Slots, NEW k \in Kinds,
             OrderBuild(r, v, s, k)
      PROVE  TypeOK'
  <2> DEFINE o == [v |-> v, s |-> s, kind |-> k, target |-> slots[v][s].level + 1,
                   by |-> owner[v], raise |-> TRUE]
  <2>1. slots[v][s].level + 1 \in Nat /\ owner[v] \in Players
    BY DEF TypeOK, Row
  <2>2. o \in Order
    BY <2>1 DEF Order
  <2> QED
    BY <1>1, <2>2, TakeType DEF OrderBuild
<1>2. ASSUME NEW r \in Requests, NEW v \in Villages, NEW s \in Slots, OrderDemolish(r, v, s)
      PROVE  TypeOK'
  <2> DEFINE o == [v |-> v, s |-> s, kind |-> slots[v][s].kind,
                   target |-> LevelBelow(slots[v][s].level), by |-> owner[v], raise |-> FALSE]
  <2>1. slots[v][s].level \in Nat /\ owner[v] \in Players
    BY DEF TypeOK, Row
  <2>2. slots[v][s].level \in Nat /\ slots[v][s].kind \in Kinds
    <3>1. slots[v][s] \in Row
      BY DEF TypeOK
    <3> QED
      BY <1>2, <3>1 DEF Row, OrderDemolish, MayDemolish, Kinds
  <2>3. LevelBelow(slots[v][s].level) \in Nat
    BY <2>2 DEF LevelBelow
  <2>4. o \in Order
    BY <2>1, <2>2, <2>3 DEF Order
  <2> QED
    BY <1>2, <2>4, TakeType DEF OrderDemolish
<1>3. ASSUME NEW r \in Requests, ReadStore(r) PROVE TypeOK'
  <2>1. CASE End(r, "refused")
    BY <1>3, <2>1, EndType DEF ReadStore, TypeOK, Recorded, world, counters
  <2>2. CASE pc' = [pc EXCEPT ![r] = "ready"] /\ UNCHANGED <<rec, stale>>
    BY <1>3, <2>2 DEF ReadStore, TypeOK, States, Busy, Live, world, counters
  <2> QED
    BY <1>3, <2>1, <2>2 DEF ReadStore
<1>4. ASSUME NEW r \in Requests, StartBuild(r) PROVE TypeOK'
  BY <1>4 DEF StartBuild, SettledBy, TypeOK, States, Busy, Live, world, counters
<1>5. ASSUME NEW r \in Requests, StartRefused(r) PROVE TypeOK'
  BY <1>5, EndType DEF StartRefused, TypeOK, Recorded, world, counters
<1>6. ASSUME NEW v \in Villages, OtherSettle(v) PROVE TypeOK'
  BY <1>6 DEF OtherSettle, SettledBy, TypeOK, Busy, Live, world, counters
<1>7. ASSUME NEW S \in SUBSET Requests, ClaimDue(S) PROVE TypeOK'
  BY <1>7 DEF ClaimDue, TypeOK, States, Busy, Live, world, counters
<1>8. ASSUME NEW r \in Requests, ApplyBuild(r) PROVE TypeOK'
  BY <1>8, ApplyType
<1>9. ASSUME NEW r \in Requests, ApplyFails(r) PROVE TypeOK'
  BY <1>9 DEF ApplyFails, TypeOK, Busy, Live, world
<1>10. CASE Battles
  BY <1>10, BattleType
<1>11. CASE Crash
  <2>1. /\ pc' \in [Requests -> States]
        /\ rec' \in [Requests -> Order \cup {NoOrder}]
        /\ Recorded'
    BY <1>11 DEF Crash, TypeOK, States, Recorded, Busy, Live
  <2>2. crashes' \in 0 .. MaxCrashes /\ batch' = {} /\ stale' = {} /\ up' = FALSE
    BY <1>11 DEF Crash, TypeOK
  <2>3. UNCHANGED <<slots, owner, capital, faults, battles>>
    BY <1>11 DEF Crash, world
  <2> QED
    BY <2>1, <2>2, <2>3 DEF TypeOK, Recorded
<1>12. CASE Restart
  BY <1>12 DEF Restart, Orphans, TypeOK, States, Busy, Live, world, counters
<1>13. CASE UNCHANGED vars
  BY <1>13 DEF vars, TypeOK, Busy, Live
<1> QED
  BY <1>1, <1>2, <1>3, <1>4, <1>5, <1>6, <1>7, <1>8, <1>9, <1>10, <1>11, <1>12, <1>13
     DEF Next, NewRequest, Handlers, BuildsPass

\* Levels stay natural numbers, owners players, and exactly the requests and
\* orders under way hold a record, in every world.
THEOREM BuildTypeCorrect == Spec => []TypeOK
BY TypeInit, TypeStep, PTL DEF Spec

-----------------------------------------------------------------------------
(* One capital *)

\* Only three kinds of step touch buildings, owners or flags.
LEMMA WorldSteps ==
  ASSUME [Next]_vars
  PROVE  \/ UNCHANGED world
         \/ \E r \in Requests : ApplyBuild(r)
         \/ Battles
BY DEF Next, vars, world, NewRequest, OrderDemolish, OrderBuild, Take, Handlers, ReadStore,
   StartBuild, StartRefused, OtherSettle, BuildsPass, ClaimDue, ApplyFails, Crash, Restart

\* A battle changes levels, never kinds, and never takes a capital.
LEMMA BattleWorld ==
  ASSUME TypeOK, Battles
  PROVE  /\ capital' = capital
         /\ \A w \in capital : owner'[w] = owner[w]
         /\ \A w \in Villages, s \in Slots : slots'[w][s].kind = slots[w][s].kind
<1>1. PICK v \in Villages, b \in Centre \cup {NoSlot}, p \in Players, looted \in BOOLEAN :
        \E after \in 0 .. (IF b = NoSlot THEN 0 ELSE slots[v][b].level) :
          Battle(v, b, after, p, looted)
  BY DEF Battles
<1>2. PICK after : Battle(v, b, after, p, looted)
  BY <1>1
<1>3. \A w \in capital : owner'[w] = owner[w]
  BY <1>2 DEF Battle, TypeOK
<1>4. ASSUME NEW w \in Villages, NEW s \in Slots
      PROVE  slots'[w][s].kind = slots[w][s].kind
  <2>1. CASE b = NoSlot
    BY <1>2, <2>1 DEF Battle
  <2>2. CASE b # NoSlot
    BY <1>2, <2>2 DEF Battle, Razed, TypeOK, Row
  <2> QED
    BY <2>1, <2>2
<1> QED
  BY <1>2, <1>3, <1>4 DEF Battle

LEMMA OneCapitalStep == TypeOK /\ OneCapital /\ [Next]_vars => OneCapital'
<1> SUFFICES ASSUME TypeOK, OneCapital, [Next]_vars PROVE OneCapital'
  OBVIOUS
<1>1. CASE UNCHANGED world
  BY <1>1 DEF world, OneCapital
<1>2. ASSUME NEW r \in Requests, ApplyBuild(r) PROVE OneCapital'
  <2>1. owner' = owner /\ rec[r] \in Order
    BY <1>2, Holds DEF ApplyBuild, TypeOK
  <2>2. CASE capital' = capital
    BY <2>1, <2>2 DEF OneCapital
  <2>3. CASE capital' = (capital \ Realm(rec[r].v)) \cup {rec[r].v}
    BY <2>1, <2>3 DEF OneCapital, Realm, TypeOK, Order
  <2> QED
    BY <1>2, <2>2, <2>3 DEF ApplyBuild, Relocate
<1>3. CASE Battles
  BY <1>3, BattleWorld DEF OneCapital
<1> QED
  BY <1>1, <1>2, <1>3, WorldSteps

\* Whatever is requested, finished, razed, conquered, lost and recovered in
\* whatever order, no player ever has two capitals (013 AC9).
THEOREM OneCapitalEach == Spec => []OneCapital
<1>1. Init => OneCapital
  BY BuildAssumption DEF Init, OneCapital
<1> QED
  BY <1>1, BuildTypeCorrect, OneCapitalStep, PTL DEF Spec

LEMMA PalaceStep == TypeOK /\ PalaceIsCapital /\ [Next]_vars => PalaceIsCapital'
<1> SUFFICES ASSUME TypeOK, PalaceIsCapital, [Next]_vars PROVE PalaceIsCapital'
  OBVIOUS
<1>1. CASE UNCHANGED world
  BY <1>1 DEF world, PalaceIsCapital
<1>2. ASSUME NEW r \in Requests, ApplyBuild(r) PROVE PalaceIsCapital'
  <2> DEFINE o == rec[r]
  <2>1. o \in Order
    BY <1>2, Holds DEF ApplyBuild, TypeOK
  <2>2. CASE o.kind = "palace" /\ o.target > 0
    <3>1. Relocate(o)
      BY <1>2, <2>2 DEF ApplyBuild
    <3>2. ASSUME NEW w \in Villages, NEW s \in Slots, slots'[w][s].kind = "palace", w # o.v
          PROVE  w \in capital'
      <4>1. slots'[w][s] = IF w \in Realm(o.v) /\ slots[w][s].kind = "palace" THEN Empty
                           ELSE slots[w][s]
        BY <3>1, <3>2 DEF Relocate
      <4>2. w \notin Realm(o.v) /\ slots[w][s].kind = "palace"
        BY <3>2, <4>1 DEF Empty
      <4> QED
        BY <3>1, <4>2 DEF Relocate, PalaceIsCapital
    <3> QED
      BY <3>1, <3>2 DEF PalaceIsCapital, Relocate
  <2>3. CASE ~(o.kind = "palace" /\ o.target > 0)
    <3>1. slots' = [slots EXCEPT ![o.v][o.s] = Built(o)] /\ capital' = capital
      BY <1>2, <2>3 DEF ApplyBuild
    <3>2. Built(o).kind = "palace" => slots[o.v][o.s].kind = "palace"
      <4>1. slots[o.v][o.s] \in Row /\ o.s \in Fields \cup Centre /\ o.target \in Nat
        BY <2>1 DEF TypeOK, Order, Slots
      <4> QED
        BY <2>3, <4>1 DEF Built, Empty, Row
    <3> QED
      BY <2>1, <3>1, <3>2 DEF PalaceIsCapital, TypeOK, Order
  <2> QED
    BY <2>2, <2>3
<1>3. CASE Battles
  BY <1>3, BattleWorld DEF PalaceIsCapital
<1> QED
  BY <1>1, <1>2, <1>3, WorldSteps

\* A Palace stands only in a capital, so with OneCapitalEach a player has at
\* most one, and no village that has one can be conquered.
THEOREM PalaceInCapital == Spec => []PalaceIsCapital
<1>1. Init => PalaceIsCapital
  BY BuildAssumption DEF Init, PalaceIsCapital
<1> QED
  BY <1>1, BuildTypeCorrect, PalaceStep, PTL DEF Spec

-----------------------------------------------------------------------------
(* Quiet histories *)

\* While a request is under way no order of its village is being applied.
NoHands == \A r \in Requests : Busy(r) =>
  \A q \in Requests : pc[q] = "processing" => rec[q].v # rec[r].v

Owned == \A r \in Requests : Busy(r) \/ Live(r) => rec[r].by = owner[rec[r].v]

\* Fields hold fields, and orders for them are for fields.
FieldsStay == \A v \in Villages, s \in Fields : slots[v][s].kind = "field"
InPlace(o) == IF o.s \in Fields THEN o.kind = "field" ELSE o.kind \in Buildings
Placed == \A r \in Requests : Busy(r) \/ Live(r) => InPlace(rec[r])

\* The target of an order is one step from what stands on its slot.
StepFrom(o) ==
  /\ o.target = IF o.raise THEN slots[o.v][o.s].level + 1 ELSE LevelBelow(slots[o.v][o.s].level)
  /\ slots[o.v][o.s].kind \in {o.kind, "none"}
Fits == \A r \in Requests : Busy(r) \/ Live(r) => StepFrom(rec[r])

\* No order is for one seat while the other stands.
Apart(o) == o.target > 0 =>
  /\ o.kind = "palace" => ~Standing(o.v, "residence", 1)
  /\ o.kind = "residence" => ~Standing(o.v, "palace", 1)
SeatsApart == \A r \in Requests : Busy(r) \/ Live(r) => Apart(rec[r])

QuietInv == /\ TypeOK /\ PalaceIsCapital /\ NoHands /\ LaneHeldOnce /\ Owned
            /\ FieldsStay /\ Placed /\ Fits /\ SeatsApart /\ Exclusive

-----------------------------------------------------------------------------
(* What a step may do to a request or an order *)

LEMMA SlotTyped ==
  ASSUME TypeOK, NEW v \in Villages, NEW s \in Slots
  PROVE  slots[v][s] \in Row /\ slots[v][s].level \in Nat
BY DEF TypeOK, Row

\* A request that is being answered has been taken in this step or before.
Taken(r) == \E v \in Villages, s \in Slots :
  OrderDemolish(r, v, s) \/ \E k \in Kinds : OrderBuild(r, v, s, k)

LEMMA BattleFate ==
  ASSUME TypeOK, Battles, NEW r \in Requests
  PROVE  /\ battles' # battles
         /\ Busy(r)' => Busy(r) /\ rec'[r] = rec[r]
         /\ Live(r)' => Live(r) /\ rec'[r] = rec[r] /\ owner'[rec[r].v] = owner[rec[r].v]
<1>1. PICK v \in Villages, b \in Centre \cup {NoSlot}, p \in Players, looted \in BOOLEAN :
        \E after \in 0 .. (IF b = NoSlot THEN 0 ELSE slots[v][b].level) :
          Battle(v, b, after, p, looted)
  BY DEF Battles
<1>2. PICK after : Battle(v, b, after, p, looted)
  BY <1>1
<1> DEFINE gone == IF p = owner[v] THEN {} ELSE Cancelled(v)
<1>3. /\ pc' = [q \in Requests |-> IF q \in gone THEN "cancelled" ELSE pc[q]]
      /\ rec' = [q \in Requests |-> IF q \in gone THEN NoOrder ELSE rec[q]]
      /\ owner' = [owner EXCEPT ![v] = p] /\ battles' = battles + 1
  BY <1>2 DEF Battle
<1>4. battles' # battles
  BY <1>3 DEF TypeOK
<1>5. r \notin gone => pc'[r] = pc[r] /\ rec'[r] = rec[r]
  BY <1>3
<1>6. r \in gone => pc'[r] = "cancelled"
  BY <1>3
<1>7. r \notin gone /\ Live(r) => owner'[rec[r].v] = owner[rec[r].v]
  <2>1. CASE p = owner[v]
    BY <1>3, <2>1 DEF TypeOK
  <2>2. CASE p # owner[v]
    <3>1. r \notin gone /\ Live(r) => rec[r].v # v
      BY <2>2 DEF Cancelled, Live
    <3> QED
      BY <1>3, <3>1 DEF TypeOK
  <2> QED
    BY <2>1, <2>2
<1> QED
  BY <1>4, <1>5, <1>6, <1>7 DEF Busy, Live

\* An order enters the queue by StartBuild alone, and keeps its row.
LEMMA Fate ==
  ASSUME TypeOK, Next, NEW r \in Requests
  PROVE  /\ Busy(r)' => (Busy(r) /\ rec'[r] = rec[r]) \/ Taken(r)
         /\ Live(r)' => (Live(r) \/ StartBuild(r)) /\ rec'[r] = rec[r]
<1>1. CASE NewRequest
  <2>1. PICK q \in Requests, v \in Villages, s \in Slots :
          OrderDemolish(q, v, s) \/ \E k \in Kinds : OrderBuild(q, v, s, k)
    BY <1>1 DEF NewRequest
  <2>2. Taken(q)
    BY <2>1 DEF Taken
  <2>3. \E o : Take(q, o)
    BY <2>1 DEF OrderDemolish, OrderBuild
  <2>4. q # r => pc'[r] = pc[r] /\ rec'[r] = rec[r]
    BY <2>3 DEF Take
  <2>5. q = r => pc'[r] = "read"
    BY <2>3 DEF Take, TypeOK
  <2> QED
    BY <2>2, <2>4, <2>5 DEF Busy, Live
<1>2. ASSUME NEW q \in Requests, ReadStore(q) \/ StartRefused(q) PROVE
        /\ Busy(r)' => Busy(r) /\ rec'[r] = rec[r]
        /\ Live(r)' => Live(r) /\ rec'[r] = rec[r]
  <2>1. \/ pc' = [pc EXCEPT ![q] = "ready"] /\ rec' = rec /\ pc[q] = "read"
        \/ End(q, "refused")
    BY <1>2 DEF ReadStore, StartRefused
  <2> QED
    BY <2>1 DEF End, Busy, Live, TypeOK
<1>3. ASSUME NEW q \in Requests, StartBuild(q) PROVE
        /\ Busy(r)' => Busy(r) /\ rec'[r] = rec[r]
        /\ Live(r)' => (Live(r) \/ StartBuild(r)) /\ rec'[r] = rec[r]
  <2>1. pc' = [pc EXCEPT ![q] = "pending"] /\ rec' = rec
    BY <1>3 DEF StartBuild
  <2>2. q # r => pc'[r] = pc[r]
    BY <2>1
  <2>3. q = r => pc'[r] = "pending"
    BY <2>1 DEF TypeOK
  <2> QED
    BY <1>3, <2>1, <2>2, <2>3 DEF Busy, Live
<1>4. ASSUME NEW v \in Villages, OtherSettle(v) PROVE pc' = pc /\ rec' = rec
  BY <1>4 DEF OtherSettle
<1>5. ASSUME NEW S \in SUBSET Requests, ClaimDue(S) PROVE
        /\ Busy(r)' => Busy(r) /\ rec'[r] = rec[r]
        /\ Live(r)' => Live(r) /\ rec'[r] = rec[r]
  BY <1>5 DEF ClaimDue, Busy, Live
<1>6. ASSUME NEW q \in Requests, ApplyBuild(q) PROVE
        /\ Busy(r)' => Busy(r) /\ rec'[r] = rec[r]
        /\ Live(r)' => Live(r) /\ rec'[r] = rec[r]
  BY <1>6 DEF ApplyBuild, End, Busy, Live, TypeOK
<1>7. ASSUME NEW q \in Requests, ApplyFails(q) PROVE pc' = pc /\ rec' = rec
  BY <1>7 DEF ApplyFails
<1>8. CASE Crash
  BY <1>8 DEF Crash, Busy, Live
<1>9. CASE Restart
  BY <1>9 DEF Restart, Orphans, Busy, Live
<1>10. CASE Battles
  BY <1>10, BattleFate
<1> QED
  BY <1>1, <1>2, <1>3, <1>4, <1>5, <1>6, <1>7, <1>8, <1>9, <1>10
     DEF Next, Handlers, BuildsPass, Busy, Live

\* An order that is applied is claimed, and no other order's standing changes.
LEMMA ApplyFate ==
  ASSUME TypeOK, NEW q \in Requests, ApplyBuild(q)
  PROVE  /\ Live(q) /\ rec[q] \in Order
         /\ ~Live(q)' /\ ~Busy(q)'
         /\ \A r \in Requests \ {q} : pc'[r] = pc[r] /\ rec'[r] = rec[r]
BY Holds DEF ApplyBuild, End, Live, Busy, TypeOK

\* What it writes: its own slot, and elsewhere the capital it supersedes.
LEMMA ApplyWrites ==
  ASSUME TypeOK, NEW q \in Requests, ApplyBuild(q)
  PROVE  /\ slots'[rec[q].v][rec[q].s] = Built(rec[q])
         /\ \A w \in Villages, s \in Slots :
              \/ w = rec[q].v /\ s = rec[q].s
              \/ slots'[w][s] = slots[w][s]
              \/ /\ slots[w][s].kind = "palace" /\ slots'[w][s] = Empty
                 /\ w # rec[q].v /\ w \in Realm(rec[q].v)
                 /\ capital' = (capital \ Realm(rec[q].v)) \cup {rec[q].v}
<1>1. rec[q].v \in Villages /\ rec[q].s \in Slots
  BY ApplyFate DEF Order
<1>2. CASE Relocate(rec[q])
  BY <1>1, <1>2 DEF Relocate
<1>3. CASE slots' = [slots EXCEPT ![rec[q].v][rec[q].s] = Built(rec[q])]
  BY <1>1, <1>3 DEF TypeOK
<1> QED
  BY <1>2, <1>3 DEF ApplyBuild

\* What a finished order leaves on its slot.
LEMMA BuiltShape ==
  ASSUME TypeOK, NEW o \in Order
  PROVE  /\ Built(o).level = o.target
         /\ o.s \in Fields => Built(o).kind = slots[o.v][o.s].kind
         /\ o.s \notin Fields => Built(o).kind = IF o.target = 0 THEN "none" ELSE o.kind
<1>1. slots[o.v][o.s] \in Row /\ o.s \in Fields \cup Centre
  BY DEF TypeOK, Order, Slots
<1>2. o.s \in Fields => o.s \notin Centre
  BY BuildAssumption
<1>3. CASE o.s \in Fields
  BY <1>1, <1>2, <1>3 DEF Built, Row
<1>4. CASE o.s \notin Fields /\ o.target = 0
  BY <1>1, <1>4 DEF Built, Empty
<1>5. CASE o.s \notin Fields /\ o.target # 0
  BY <1>1, <1>5 DEF Built
<1> QED
  BY <1>3, <1>4, <1>5

\* What a request takes up is what stands in its village, and the rules allow it.
LEMMA TakenFits ==
  ASSUME TypeOK, FieldsStay, Exclusive, NEW r \in Requests, Taken(r)
  PROVE  /\ UNCHANGED world
         /\ (rec[r].by = owner[rec[r].v])'
         /\ InPlace(rec[r])' /\ StepFrom(rec[r])' /\ Apart(rec[r])'
<1>1. PICK v \in Villages, s \in Slots :
        OrderDemolish(r, v, s) \/ \E k \in Kinds : OrderBuild(r, v, s, k)
  BY DEF Taken
<1>2. slots[v][s].level \in Nat
  BY SlotTyped
<1>3. CASE OrderDemolish(r, v, s)
  <2>1. /\ rec'[r] = [v |-> v, s |-> s, kind |-> slots[v][s].kind,
                      target |-> LevelBelow(slots[v][s].level), by |-> owner[v], raise |-> FALSE]
        /\ UNCHANGED <<slots, owner, capital>>
    BY <1>3 DEF OrderDemolish, Take, TypeOK, world
  <2>2. s \in Centre /\ s \notin Fields /\ slots[v][s].kind \in Buildings /\ slots[v][s].kind # "palace"
    BY <1>3, BuildAssumption DEF OrderDemolish, MayDemolish
  <2>3. Apart(rec[r])'
    <3>1. slots[v][s].kind = "residence" /\ LevelBelow(slots[v][s].level) > 0
            => ~Standing(v, "palace", 1)
      BY <1>2, <2>2 DEF Exclusive, Standing, LevelBelow
    <3> QED
      BY <2>1, <2>2, <3>1 DEF Apart, Standing
  <2> QED
    BY <2>1, <2>2, <2>3 DEF InPlace, StepFrom, world
<1>4. ASSUME NEW k \in Kinds, OrderBuild(r, v, s, k)
      PROVE  /\ UNCHANGED world
             /\ (rec[r].by = owner[rec[r].v])'
             /\ InPlace(rec[r])' /\ StepFrom(rec[r])' /\ Apart(rec[r])'
  <2>1. /\ rec'[r] = [v |-> v, s |-> s, kind |-> k, target |-> slots[v][s].level + 1,
                      by |-> owner[v], raise |-> TRUE]
        /\ UNCHANGED <<slots, owner, capital>>
    BY <1>4 DEF OrderBuild, Take, TypeOK, world
  <2>2. /\ IF s \in Fields THEN k = "field" ELSE k \in Buildings /\ Placeable(v, s, k)
        /\ NotExcluded(v, k)
    BY <1>4 DEF OrderBuild, MayRaise
  <2>3. slots[v][s].kind \in {k, "none"}
    BY <2>2 DEF Placeable, FieldsStay
  <2>4. Apart(rec[r])'
    BY <2>1, <2>2 DEF Apart, NotExcluded, Standing
  <2> QED
    BY <2>1, <2>2, <2>3, <2>4 DEF InPlace, StepFrom, world
<1> QED
  BY <1>1, <1>3, <1>4

-----------------------------------------------------------------------------
(* One lemma for each part of the invariant *)

LEMMA NoHandsStep ==
  ASSUME HandsOff
  PROVE  NoHands'
BY DEF HandsOff, NoHands

LEMMA LaneStep ==
  ASSUME TypeOK, NoHands, LaneHeldOnce, Next
  PROVE  LaneHeldOnce'
<1> SUFFICES ASSUME NEW q \in Requests, NEW r \in Requests, Live(q)', Live(r)',
                    (rec[q].v = rec[r].v)',
                    (Lane(rec[q].v, rec[q].s) = Lane(rec[r].v, rec[r].s))', q # r
             PROVE  FALSE
  BY DEF LaneHeldOnce
<1>1. rec'[q] = rec[q] /\ rec'[r] = rec[r]
  BY Fate
<1>2. rec[q].v = rec[r].v /\ Lane(rec[q].v, rec[q].s) = Lane(rec[r].v, rec[r].s)
  BY <1>1
<1>3. ASSUME NEW x \in Requests, NEW y \in Requests, x # y, StartBuild(x), Live(y)',
             rec[x].v = rec[y].v, Lane(rec[x].v, rec[x].s) = Lane(rec[y].v, rec[y].s)
      PROVE  FALSE
  <2>1. pc[x] = "ready" /\ ~LaneTaken(rec[x].v, rec[x].s) /\ pc' = [pc EXCEPT ![x] = "pending"]
    BY <1>3 DEF StartBuild
  <2>2. pc[y] = "pending" \/ pc[y] = "processing"
    BY <1>3, <2>1 DEF Live
  <2>3. pc[y] # "pending"
    BY <1>3, <2>1 DEF LaneTaken
  <2>4. pc[y] # "processing"
    BY <1>3, <2>1 DEF NoHands, Busy
  <2> QED
    BY <2>2, <2>3, <2>4
<1>4. ~StartBuild(q) /\ ~StartBuild(r)
  BY <1>2, <1>3
<1> QED
  BY <1>2, <1>4, Fate DEF LaneHeldOnce

LEMMA OwnedStep ==
  ASSUME TypeOK, FieldsStay, Exclusive, Owned, Next, HandsOff
  PROVE  Owned'
<1> SUFFICES ASSUME NEW r \in Requests, Busy(r)' \/ Live(r)'
             PROVE  (rec[r].by = owner[rec[r].v])'
  BY DEF Owned
<1>1. CASE Taken(r)
  BY <1>1, TakenFits
<1>2. CASE Busy(r)' /\ ~Taken(r)
  <2>1. Busy(r) /\ rec'[r] = rec[r]
    BY <1>2, Fate
  <2> QED
    BY <1>2, <2>1 DEF HandsOff, Owned
<1>3. CASE Live(r)'
  <2>1. rec'[r] = rec[r] /\ (Live(r) \/ Busy(r))
    BY <1>3, Fate DEF StartBuild, Busy
  <2>2. owner'[rec[r].v] = owner[rec[r].v]
    BY <1>3, WorldSteps, BattleFate DEF ApplyBuild, world
  <2> QED
    BY <2>1, <2>2 DEF Owned
<1> QED
  BY <1>1, <1>2, <1>3

LEMMA FieldsStep ==
  ASSUME TypeOK, FieldsStay, Placed, Next
  PROVE  FieldsStay'
<1> SUFFICES ASSUME NEW v \in Villages, NEW s \in Fields PROVE slots'[v][s].kind = "field"
  BY DEF FieldsStay
<1>1. slots[v][s].kind = "field" /\ s \in Slots
  BY DEF FieldsStay, Slots
<1>2. CASE UNCHANGED world
  BY <1>1, <1>2 DEF world
<1>3. ASSUME NEW q \in Requests, ApplyBuild(q) PROVE slots'[v][s].kind = "field"
  <2>1. slots'[v][s] = slots[v][s] \/ (slots'[v][s] = Built(rec[q]) /\ v = rec[q].v /\ s = rec[q].s)
    BY <1>1, <1>3, ApplyWrites
  <2>2. rec[q] \in Order /\ (v = rec[q].v /\ s = rec[q].s => Built(rec[q]).kind = slots[v][s].kind)
    BY <1>3, ApplyFate, BuiltShape
  <2> QED
    BY <1>1, <2>1, <2>2
<1>4. CASE Battles
  BY <1>1, <1>4, BattleWorld
<1> QED
  BY <1>2, <1>3, <1>4, WorldSteps

LEMMA PlacedStep ==
  ASSUME TypeOK, FieldsStay, Exclusive, Placed, Next
  PROVE  Placed'
<1> SUFFICES ASSUME NEW r \in Requests, Busy(r)' \/ Live(r)' PROVE InPlace(rec[r])'
  BY DEF Placed
<1>1. CASE Taken(r)
  BY <1>1, TakenFits
<1>2. CASE ~Taken(r)
  <2>1. rec'[r] = rec[r] /\ (Live(r) \/ Busy(r))
    BY <1>2, Fate DEF StartBuild, Busy
  <2> QED
    BY <2>1 DEF Placed, InPlace
<1> QED
  BY <1>1, <1>2

\* Nobody changes the slot of an order that stays in the queue: an order of the
\* same village is in another lane, and a relocation spares a Palace with orders.
LEMMA OrderSlotKept ==
  ASSUME TypeOK, PalaceIsCapital, LaneHeldOnce, Fits, Next, RazesIdle, PalaceWaits,
         NEW r \in Requests, Live(r)', rec[r] \in Order, Live(r) \/ Busy(r)
  PROVE  slots'[rec[r].v][rec[r].s] = slots[rec[r].v][rec[r].s]
<1> DEFINE v == rec[r].v
           s == rec[r].s
<1>1. v \in Villages /\ s \in Slots
  BY DEF Order
<1>2. CASE UNCHANGED world
  BY <1>2 DEF world
<1>3. ASSUME NEW q \in Requests, ApplyBuild(q) PROVE slots'[v][s] = slots[v][s]
  <2>1. q # r /\ Live(q) /\ Live(r)
    BY <1>3, ApplyFate DEF Live
  <2>2. ~(v = rec[q].v /\ s = rec[q].s)
    BY <2>1 DEF LaneHeldOnce
  <2>3. CASE slots[v][s].kind = "palace" /\ v \in Realm(rec[q].v) \ {rec[q].v}
             /\ capital' = (capital \ Realm(rec[q].v)) \cup {rec[q].v}
    <3>1. v \in capital \ capital'
      BY <1>1, <2>3 DEF PalaceIsCapital
    <3>2. rec[r].kind = "palace"
      BY <2>1, <2>3 DEF Fits, StepFrom
    <3> QED
      BY <3>1, <3>2 DEF PalaceWaits
  <2> HIDE DEF v, s
  <2>4. \/ v = rec[q].v /\ s = rec[q].s
        \/ slots'[v][s] = slots[v][s]
        \/ /\ slots[v][s].kind = "palace" /\ v # rec[q].v /\ v \in Realm(rec[q].v)
           /\ capital' = (capital \ Realm(rec[q].v)) \cup {rec[q].v}
    BY <1>1, <1>3, ApplyWrites
  <2> QED
    BY <2>2, <2>3, <2>4
<1>4. CASE Battles
  BY <1>4, BattleFate DEF RazesIdle
<1> QED
  BY <1>2, <1>3, <1>4, WorldSteps

LEMMA FitsStep ==
  ASSUME TypeOK, PalaceIsCapital, LaneHeldOnce, FieldsStay, Exclusive, Fits, Next, Quiet
  PROVE  Fits'
<1> SUFFICES ASSUME NEW r \in Requests, Busy(r)' \/ Live(r)' PROVE StepFrom(rec[r])'
  BY DEF Fits
<1>1. CASE Taken(r)
  BY <1>1, TakenFits
<1>2. CASE ~Taken(r)
  <2>1. rec'[r] = rec[r] /\ (Live(r) \/ Busy(r)) /\ rec[r] \in Order
    BY <1>2, Fate, Holds DEF StartBuild, Busy, Live
  <2>2. slots'[rec[r].v][rec[r].s] = slots[rec[r].v][rec[r].s]
    <3>1. CASE Busy(r)'
      BY <2>1, <3>1 DEF Quiet, HandsOff
    <3>2. CASE Live(r)'
      BY <2>1, <3>2, OrderSlotKept DEF Quiet
    <3> QED
      BY <3>1, <3>2
  <2> QED
    BY <2>1, <2>2 DEF Fits, StepFrom
<1> QED
  BY <1>1, <1>2

\* A seat comes to stand only by an order for it.
LEMMA SeatRises ==
  ASSUME TypeOK, Placed, Next, NEW v \in Villages, NEW K \in {"residence", "palace"},
         Standing(v, K, 1)'
  PROVE  \/ Standing(v, K, 1)
         \/ \E q \in Requests : /\ ApplyBuild(q) /\ rec[q].v = v
                                /\ rec[q].kind = K /\ rec[q].target > 0
<1>1. PICK s \in Centre : slots'[v][s].kind = K /\ slots'[v][s].level >= 1
  BY DEF Standing
<1>2. s \in Slots /\ s \notin Fields
  BY BuildAssumption DEF Slots
<1>3. CASE slots'[v][s] = slots[v][s]
  BY <1>1, <1>3 DEF Standing
<1>4. CASE UNCHANGED world
  BY <1>3, <1>4 DEF world
<1>5. ASSUME NEW q \in Requests, ApplyBuild(q)
      PROVE  \/ Standing(v, K, 1)
             \/ rec[q].v = v /\ rec[q].kind = K /\ rec[q].target > 0
  <2>1. rec[q] \in Order /\ rec[q].target \in Nat
    BY <1>5, ApplyFate DEF Order
  <2>2. CASE v = rec[q].v /\ s = rec[q].s
    <3>1. slots'[v][s] = Built(rec[q])
      BY <1>5, <2>2, ApplyWrites
    <3>2. Built(rec[q]).kind = IF rec[q].target = 0 THEN "none" ELSE rec[q].kind
      BY <1>2, <2>1, <2>2, BuiltShape
    <3> QED
      BY <1>1, <2>1, <2>2, <3>1, <3>2
  <2>3. CASE slots'[v][s] = Empty
    BY <1>1, <2>3 DEF Empty
  <2>4. \/ v = rec[q].v /\ s = rec[q].s
        \/ slots'[v][s] = slots[v][s]
        \/ slots'[v][s] = Empty
    BY <1>2, <1>5, ApplyWrites
  <2>5. CASE slots'[v][s] = slots[v][s]
    BY <1>1, <2>5 DEF Standing
  <2> QED
    BY <2>2, <2>3, <2>4, <2>5
<1>6. CASE Battles
  <2>1. PICK w \in Villages, b \in Centre \cup {NoSlot}, p \in Players, looted \in BOOLEAN :
          \E after \in 0 .. (IF b = NoSlot THEN 0 ELSE slots[w][b].level) :
            Battle(w, b, after, p, looted)
    BY <1>6 DEF Battles
  <2>2. PICK after \in 0 .. (IF b = NoSlot THEN 0 ELSE slots[w][b].level) :
          Battle(w, b, after, p, looted)
    BY <2>1
  <2>3. CASE b = NoSlot \/ w # v
    BY <1>3, <2>2, <2>3 DEF Battle, Razed, TypeOK
  <2>4. CASE b # NoSlot /\ w = v
    <3>1. b \in Centre /\ after < slots[v][b].level /\ slots[v][b].level \in Nat
      BY <2>2, <2>4, SlotTyped DEF Battle, Slots
    <3>2. slots'[v][s] = IF slots[v][s].kind = slots[v][b].kind
                         THEN [slots[v][s] EXCEPT !.level = after] ELSE slots[v][s]
      BY <1>2, <2>2, <2>4 DEF Battle, Razed, TypeOK
    <3>3. CASE slots[v][s].kind = slots[v][b].kind
      <4>1. slots[v][b].kind = K
        BY <1>1, <1>6, <3>3, <1>2, BattleWorld
      <4> QED
        BY <3>1, <4>1 DEF Standing
    <3> QED
      BY <1>3, <3>2, <3>3
  <2> QED
    BY <2>3, <2>4
<1> QED
  BY <1>4, <1>5, <1>6, WorldSteps

LEMMA ExclusiveStep ==
  ASSUME TypeOK, Placed, SeatsApart, Exclusive, Next
  PROVE  Exclusive'
<1> SUFFICES ASSUME NEW v \in Villages, Standing(v, "residence", 1)', Standing(v, "palace", 1)'
             PROVE  FALSE
  BY DEF Exclusive
<1>1. ASSUME NEW q \in Requests, ApplyBuild(q)
      PROVE  Live(q) /\ \A r \in Requests : ApplyBuild(r) => r = q
  BY <1>1, ApplyFate DEF Live
<1>2. \/ Standing(v, "residence", 1)
      \/ \E q \in Requests : /\ ApplyBuild(q) /\ rec[q].v = v
                             /\ rec[q].kind = "residence" /\ rec[q].target > 0
  BY SeatRises
<1>3. \/ Standing(v, "palace", 1)
      \/ \E q \in Requests : /\ ApplyBuild(q) /\ rec[q].v = v
                             /\ rec[q].kind = "palace" /\ rec[q].target > 0
  BY SeatRises
<1> QED
  BY <1>1, <1>2, <1>3 DEF SeatsApart, Apart, Exclusive

LEMMA SeatsStep ==
  ASSUME TypeOK, FieldsStay, LaneHeldOnce, Placed, SeatsApart, Exclusive, Next, Quiet
  PROVE  SeatsApart'
<1> SUFFICES ASSUME NEW r \in Requests, Busy(r)' \/ Live(r)' PROVE Apart(rec[r])'
  BY DEF SeatsApart
<1>1. CASE Taken(r)
  BY <1>1, TakenFits
<1>2. CASE ~Taken(r)
  <2>1. rec'[r] = rec[r] /\ (Live(r) \/ Busy(r)) /\ rec[r] \in Order
    BY <1>2, Fate, Holds DEF StartBuild, Busy, Live
  <2>2. rec[r].v \in Villages /\ Apart(rec[r]) /\ InPlace(rec[r])
    BY <2>1 DEF SeatsApart, Placed, Order
  <2>3. CASE Busy(r)'
    <3>1. slots'[rec[r].v] = slots[rec[r].v]
      BY <2>1, <2>3 DEF Quiet, HandsOff
    <3> QED
      BY <2>1, <2>2, <3>1 DEF Apart, Standing
  <2>4. CASE Live(r)'
    <3>0. PICK v \in Villages : v = rec[r].v
      BY <2>2
    <3>1. ASSUME NEW K \in {"residence", "palace"}, rec[r].kind \in {"residence", "palace"},
                 rec[r].kind # K, Standing(v, K, 1)'
          PROVE  Standing(v, K, 1)
      <4>1. ASSUME NEW q \in Requests, ApplyBuild(q), rec[q].v = v, rec[q].kind = K
            PROVE  FALSE
        <5>1. q # r /\ Live(q) /\ Live(r)
          BY <2>4, <4>1, ApplyFate DEF Live
        <5>2. rec[q].s \notin Fields /\ rec[r].s \notin Fields
          BY <2>2, <3>1, <4>1, <5>1, BuildAssumption DEF Placed, InPlace
        <5>3. Lane(rec[q].v, rec[q].s) = Lane(rec[r].v, rec[r].s)
          BY <3>0, <4>1, <5>2 DEF Lane
        <5> QED
          BY <3>0, <4>1, <5>1, <5>3 DEF LaneHeldOnce
      <4> QED
        BY <3>1, <4>1, SeatRises
    <3>2. rec[r].kind = "palace" /\ Standing(v, "residence", 1)'
            => Standing(v, "residence", 1)
      BY <3>1
    <3>3. rec[r].kind = "residence" /\ Standing(v, "palace", 1)'
            => Standing(v, "palace", 1)
      BY <3>1
    <3> QED
      BY <2>1, <2>2, <3>0, <3>2, <3>3 DEF Apart, Standing
  <2> QED
    BY <1>2, <2>3, <2>4
<1> QED
  BY <1>1, <1>2

-----------------------------------------------------------------------------
LEMMA QuietInit == Init => QuietInv
<1> SUFFICES ASSUME Init PROVE QuietInv
  OBVIOUS
<1>1. TypeOK /\ \A r \in Requests : ~Busy(r) /\ ~Live(r)
  BY TypeInit DEF Init, Busy, Live
<1>2. slots = FirstSlots /\ capital = FirstCapital
  BY DEF Init
<1>3. Exclusive
  <2> SUFFICES ASSUME NEW v \in Villages, NEW s \in Centre, NEW t \in Centre,
                      slots[v][s].kind = "residence", slots[v][s].level >= 1,
                      slots[v][t].kind = "palace", slots[v][t].level >= 1
               PROVE  FALSE
    BY DEF Exclusive, Standing
  <2>1. slots[v][s].level \in Nat /\ slots[v][t].level \in Nat
    BY <1>1, SlotTyped DEF Slots
  <2> QED
    BY <1>2, <2>1, BuildAssumption
<1> QED
  BY <1>1, <1>2, <1>3, BuildAssumption
     DEF QuietInv, PalaceIsCapital, NoHands, LaneHeldOnce, Owned, FieldsStay, Placed, Fits, SeatsApart

LEMMA QuietStep == QuietInv /\ [Next /\ Quiet]_vars => QuietInv'
<1> SUFFICES ASSUME QuietInv, [Next /\ Quiet]_vars PROVE QuietInv'
  OBVIOUS
<1>1. CASE UNCHANGED vars
  BY <1>1 DEF vars, QuietInv, TypeOK, PalaceIsCapital, NoHands, LaneHeldOnce, Owned, FieldsStay,
     Placed, Fits, StepFrom, SeatsApart, Apart, Exclusive, Standing, InPlace, Busy, Live
<1>2. CASE Next /\ Quiet
  <2>1. TypeOK' /\ PalaceIsCapital'
    BY <1>2, TypeStep, PalaceStep DEF QuietInv
  <2>2. NoHands' /\ LaneHeldOnce'
    BY <1>2, NoHandsStep, LaneStep DEF QuietInv, Quiet
  <2>3. Owned' /\ FieldsStay' /\ Placed'
    BY <1>2, OwnedStep, FieldsStep, PlacedStep DEF QuietInv, Quiet
  <2>4. Fits' /\ SeatsApart' /\ Exclusive'
    BY <1>2, FitsStep, SeatsStep, ExclusiveStep DEF QuietInv
  <2> QED
    BY <2>1, <2>2, <2>3, <2>4 DEF QuietInv
<1> QED
  BY <1>1, <1>2

\* What a request has read, and an order was placed for, is what stands there.
THEOREM QuietInvariant == QuietSpec => []QuietInv
BY QuietInit, QuietStep, PTL DEF QuietSpec

\* No village ever has two orders in a lane, waiting or claimed.
THEOREM LanesHeldOnce == QuietSpec => []LaneHeldOnce
<1>1. QuietInv => LaneHeldOnce
  BY DEF QuietInv
<1> QED
  BY <1>1, QuietInvariant, PTL

\* Every order in a village's queue is its owner's, through every conquest.
THEOREM QueueOfOwner == QuietSpec => []OrdersOfOwner
<1>1. QuietInv => OrdersOfOwner
  BY DEF QuietInv, Owned, OrdersOfOwner
<1> QED
  BY <1>1, QuietInvariant, PTL

\* A Residence and a Palace never stand in one village.
THEOREM SeatsExclusive == QuietSpec => []Exclusive
<1>1. QuietInv => Exclusive
  BY DEF QuietInv
<1> QED
  BY <1>1, QuietInvariant, PTL

\* An order is done by being applied.
LEMMA DoneByApply ==
  ASSUME TypeOK, Next, NEW r \in Requests, pc[r] = "processing", pc'[r] = "done"
  PROVE  ApplyBuild(r)
<1>1. ASSUME NEW q \in Requests, NEW o, Take(q, o) PROVE FALSE
  BY <1>1 DEF Take, TypeOK
<1>2. ~NewRequest
  BY <1>1 DEF NewRequest, OrderDemolish, OrderBuild
<1>3. ASSUME NEW q \in Requests, ReadStore(q) \/ StartBuild(q) \/ StartRefused(q) PROVE FALSE
  BY <1>3 DEF ReadStore, StartBuild, StartRefused, End, TypeOK
<1>4. ASSUME NEW q \in Requests, ApplyBuild(q) PROVE q = r
  BY <1>4, ApplyFate
<1>5. ~Battles
  <2> SUFFICES ASSUME Battles PROVE FALSE
    OBVIOUS
  <2>1. PICK gone : pc' = [q \in Requests |-> IF q \in gone THEN "cancelled" ELSE pc[q]]
    BY DEF Battles, Battle
  <2> QED
    BY <2>1
<1>6. ~Crash /\ ~Restart
  BY DEF Crash, Restart
<1>7. ASSUME NEW S \in SUBSET Requests, ClaimDue(S) PROVE FALSE
  BY <1>7 DEF ClaimDue
<1>8. \A q \in Requests : ~ApplyFails(q)
  BY DEF ApplyFails
<1>9. \A v \in Villages : ~OtherSettle(v)
  BY DEF OtherSettle
<1> QED
  BY <1>2, <1>3, <1>4, <1>5, <1>6, <1>7, <1>8, <1>9 DEF Next, Handlers, BuildsPass

\* A finished order moves its building by exactly one level, however long it
\* waited and whatever was built, razed, conquered and relocated meanwhile.
THEOREM OneStepEach == QuietSpec => OneStep
<1> DEFINE Step(r) == pc[r] = "processing" /\ pc'[r] = "done" =>
      LET o == rec[r] IN
        slots'[o.v][o.s].level = IF o.raise THEN slots[o.v][o.s].level + 1
                                 ELSE LevelBelow(slots[o.v][o.s].level)
<1>1. ASSUME QuietInv, Next, NEW r \in Requests PROVE Step(r)
  <2> SUFFICES ASSUME pc[r] = "processing", pc'[r] = "done"
               PROVE  slots'[rec[r].v][rec[r].s].level =
                        IF rec[r].raise THEN slots[rec[r].v][rec[r].s].level + 1
                        ELSE LevelBelow(slots[rec[r].v][rec[r].s].level)
    OBVIOUS
  <2>1. TypeOK /\ ApplyBuild(r)
    BY <1>1, DoneByApply DEF QuietInv
  <2>2. rec[r] \in Order /\ StepFrom(rec[r])
    BY <1>1, <2>1, ApplyFate DEF QuietInv, Fits
  <2>3. slots'[rec[r].v][rec[r].s].level = rec[r].target
    BY <2>1, <2>2, ApplyWrites, BuiltShape
  <2> QED
    BY <2>2, <2>3 DEF StepFrom
<1>2. QuietInv /\ [Next /\ Quiet]_vars => [\A r \in Requests : Step(r)]_vars
  BY <1>1
<1> QED
  BY <1>2, QuietInvariant, PTL DEF QuietSpec, OneStep
=============================================================================
