-------------------------------- MODULE Realm --------------------------------
(***************************************************************************)
(* How realms grow: culture points, expansion slots, settlers and conquests. *)
(* A player's culture is lazy: a value, its instant, and a rate that follows *)
(* from the Town Halls of the villages he holds; whoever changes the rate    *)
(* settles it first, at the instant the change is due, from what he reads    *)
(* before his transaction.  Players order buildings, send settlers and       *)
(* attack; the scheduler's builds, combat and settling passes apply what is  *)
(* due.  Settlers and armies themselves are in Troops; who wins is open.     *)
(***************************************************************************)
EXTENDS Integers, FiniteSets, FiniteSetsExt

CONSTANTS
  Players, Villages,          \* Villages: the tiles a village may stand on
  Capitals,                   \* villages that cannot be conquered
  Rows,                       \* due rows: build orders and movements
  Orders,                     \* what players may order: a kind, the village it leaves, the target
  Levels, RateOf,             \* Town Hall levels; culture_rate of the halls somebody holds
  Threshold, SlotsAt,         \* culture the n-th village takes; slots a Residence level grants
  Gift,                       \* culture a quest grants
  FirstOwner, FirstSeat,      \* the world at the start
  MaxClock, MaxGifts, MaxCrashes, \* bounds
  Nobody, NoRow, NoHand

Hold == Levels \cup {Nobody}

Kinds == {"hall", "seat", "settle", "attack"}

ASSUME RealmAssumption ==
  /\ Orders \subseteq [kind : Kinds, home : Villages, to : Villages]
  /\ 0 \in Levels /\ Levels \subseteq Nat
  /\ IsFiniteSet(Villages) /\ Nobody \notin Players \cup Levels
  /\ RateOf \in [[Villages -> Hold] -> Nat] /\ RateOf[[v \in Villages |-> Nobody]] = 0
  /\ SlotsAt \in [Levels -> Nat] /\ Gift \in Nat
  /\ FirstOwner \in [Villages -> Players \cup {Nobody}] /\ FirstSeat \in [Villages -> Levels]
  /\ MaxClock \in Nat /\ MaxGifts \in Nat /\ MaxCrashes \in Nat

Time == 0 .. MaxClock
Row == [kind : Kinds, by : Players, home : Villages,
        to : Villages, due : Time, claimed : BOOLEAN]
Hand == [row : Rows, step : {"anchor", "apply"}, who : Players, value : Nat,
         loser : Players, loss : Nat, free : BOOLEAN]

ASSUME NewNames == NoRow \notin Row \cup Rows /\ NoHand \notin Hand

VARIABLES
  clock,
  owner,    \* village -> player, or Nobody: a free valley
  hall,     \* village -> level of its Town Hall
  seat,     \* village -> level of its Residence or Palace
  culture,  \* player -> the value stored and its instant
  rows,     \* row -> what is due when
  draft,    \* a request that has made its checks
  batch,    \* rows the pass under way has claimed and not handled
  hand,     \* the row in hand and what was read for it
  earned,   \* what each player's culture would be, had it been counted every second
  gifts, up, crashes

vars == <<clock, owner, hall, seat, culture, rows, draft, batch, hand, earned, gifts, up, crashes>>
world == <<owner, hall, seat>>
pass == <<batch, hand>>
life == <<up, crashes>>

Held(p) == {v \in Villages : owner[v] = p}
Rate(p) == RateOf[[v \in Villages |-> IF owner[v] = p THEN hall[v] ELSE Nobody]]

\* settle_value: time that has gone backwards adds nothing.
Settled(p, t) == IF t <= culture[p].at THEN culture[p].value
                 ELSE culture[p].value + Rate(p) * (t - culture[p].at)

CpAllows(cp) == Max({0} \cup {n \in DOMAIN Threshold : Threshold[n] <= cp})
SlotsGranted(seats) == MapThenSumSet(LAMBDA v : SlotsAt[seats[v]], {v \in DOMAIN seats : seats[v] > 0})
ExpansionSlots(p) == SlotsGranted([v \in Held(p) |-> seat[v]])
AllowedVillages(p, cp) == Min({CpAllows(cp), 1 + ExpansionSlots(p)})

\* He may hold one more.
FreeSlot(p, t) == Cardinality(Held(p)) + 1 <= AllowedVillages(p, Settled(p, t))

Underway(m) == rows[m] # NoRow
Due(m) == Underway(m) /\ rows[m].due <= clock

-----------------------------------------------------------------------------
(* Web requests *)

\* order_build, order_settle and order_attack check the village as they read it.
Ask(o, t) ==
  LET p == owner[o.home] IN
  /\ draft = NoRow /\ p # Nobody /\ t \in clock + 1 .. MaxClock
  /\ \/ o.kind \in {"hall", "seat"} /\ o.home = o.to
     \/ o.kind = "settle" /\ owner[o.to] = Nobody /\ FreeSlot(p, clock)
     \/ o.kind = "attack" /\ owner[o.to] \notin {Nobody, p}
  /\ draft' = [kind |-> o.kind, by |-> p, home |-> o.home, to |-> o.to, due |-> t, claimed |-> FALSE]
  /\ UNCHANGED <<clock, world, culture, rows, pass, earned, gifts, life>>

\* The row is inserted, whoever owns the village by now.
Launch(m) ==
  /\ draft # NoRow /\ ~Underway(m)
  /\ rows' = [rows EXCEPT ![m] = draft] /\ draft' = NoRow
  /\ UNCHANGED <<clock, world, culture, pass, earned, gifts, life>>

\* A later check fails, the debit finds too little, or the handler is dropped.
Drop == /\ draft # NoRow /\ draft' = NoRow
        /\ UNCHANGED <<clock, world, culture, rows, pass, earned, gifts, life>>

\* A quest's culture: added to the value, whatever its instant.
Reward(p) ==
  /\ gifts < MaxGifts /\ Held(p) # {}
  /\ culture' = [culture EXCEPT ![p].value = @ + Gift]
  /\ earned' = [earned EXCEPT ![p] = @ + Gift]
  /\ gifts' = gifts + 1
  /\ UNCHANGED <<clock, world, rows, draft, pass, life>>

\* A newcomer is placed on a free valley, his culture anchored now.
Register(p, v) ==
  /\ Held(p) = {} /\ culture[p] = [value |-> 0, at |-> 0] /\ owner[v] = Nobody
  /\ owner' = [owner EXCEPT ![v] = p]
  /\ culture' = [culture EXCEPT ![p].at = clock]
  /\ UNCHANGED <<clock, hall, seat, rows, draft, pass, earned, gifts, life>>

-----------------------------------------------------------------------------
(* The scheduler: builds, combat and settling passes *)

\* A pass claims whatever is due of its kind.
Claim(kinds) ==
  LET S == {m \in Rows : Due(m) /\ rows[m].kind \in kinds /\ ~rows[m].claimed} IN
  /\ up /\ batch = {} /\ S # {}
  /\ rows' = [m \in Rows |-> IF m \in S THEN [rows[m] EXCEPT !.claimed = TRUE] ELSE rows[m]]
  /\ batch' = S
  /\ UNCHANGED <<clock, world, culture, draft, hand, earned, gifts, life>>

\* The claim returns its rows in no particular order; they are handled one by one.
Picks(m, kind) == m \in batch /\ hand = NoHand /\ rows[m].kind = kind

InHand(m, kind, step) == /\ hand # NoHand /\ hand.row = m /\ hand.step = step
                         /\ m \in batch /\ rows[m].kind = kind

Take(m, step, p, free, q) ==
  hand' = [row |-> m, step |-> step, who |-> p, value |-> Settled(p, rows[m].due),
           loser |-> q, loss |-> Settled(q, rows[m].due), free |-> free]

\* The row is done, or gone with its village.
Handled(m) == batch' = batch \ {m} /\ hand' = NoHand
Closed(m) == rows' = [rows EXCEPT ![m] = NoRow]

\* reanchor_culture reads what the owner of the hall has earned by the due instant ...
ReadAnchor(m) ==
  /\ Picks(m, "hall")
  /\ LET p == owner[rows[m].to] IN Take(m, "anchor", p, FALSE, p)
  /\ UNCHANGED <<clock, world, culture, rows, draft, batch, earned, gifts, life>>

\* Mutant: the accumulator is moved on to the due instant and nothing is credited.
StampAnchor(m) ==
  /\ InHand(m, "hall", "anchor")
  /\ culture' = [culture EXCEPT ![hand.who].at = rows[m].due]
  /\ hand' = [hand EXCEPT !.step = "apply"]
  /\ UNCHANGED <<clock, world, rows, draft, batch, earned, gifts, life>>

\* ... and writes it in a transaction of its own.
WriteAnchor(m) ==
  /\ InHand(m, "hall", "anchor")
  /\ culture' = [culture EXCEPT ![hand.who] = [value |-> hand.value, at |-> rows[m].due]]
  /\ hand' = [hand EXCEPT !.step = "apply"]
  /\ UNCHANGED <<clock, world, rows, draft, batch, earned, gifts, life>>

\* The owner's read fails, or the read or the write of his culture: logged at most, and the level
\* is applied all the same.
MissAnchor(m) ==
  /\ \/ /\ Picks(m, "hall")
        /\ LET p == owner[rows[m].to] IN Take(m, "apply", p, FALSE, p)
     \/ InHand(m, "hall", "anchor") /\ hand' = [hand EXCEPT !.step = "apply"]
  /\ UNCHANGED <<clock, world, culture, rows, draft, batch, earned, gifts, life>>

\* apply_build: a level up, or down when the order demolishes.
ApplyHall(m, l) ==
  /\ InHand(m, "hall", "apply")
  /\ hall' = [hall EXCEPT ![rows[m].to] = l]
  /\ Closed(m) /\ Handled(m)
  /\ UNCHANGED <<clock, owner, seat, culture, draft, earned, gifts, life>>

ApplySeat(m, l) ==
  /\ Picks(m, "seat")
  /\ seat' = [seat EXCEPT ![rows[m].to] = l]
  /\ Closed(m) /\ Handled(m)
  /\ UNCHANGED <<clock, owner, hall, culture, draft, earned, gifts, life>>

\* Mutant: what was free at departure is taken to be free at arrival.
ReadSettleTrusting(m) ==
  /\ Picks(m, "settle") /\ owner[rows[m].home] = rows[m].by
  /\ LET p == rows[m].by IN Take(m, "apply", p, owner[rows[m].to] = Nobody, p)
  /\ UNCHANGED <<clock, world, culture, rows, draft, batch, earned, gifts, life>>

\* resolve_one of the settling pass: tile and slot are checked again at the arrival.
ReadSettle(m) ==
  /\ Picks(m, "settle") /\ owner[rows[m].home] = rows[m].by
  /\ LET p == rows[m].by IN
       Take(m, "apply", p, owner[rows[m].to] = Nobody /\ FreeSlot(p, rows[m].due), p)
  /\ UNCHANGED <<clock, world, culture, rows, draft, batch, earned, gifts, life>>

\* The settlers' home is not theirs any more: an error, and the row stays claimed.
LoseHome(m) ==
  /\ Picks(m, "settle") /\ owner[rows[m].home] # rows[m].by
  /\ Handled(m)
  /\ UNCHANGED <<clock, world, culture, rows, draft, earned, gifts, life>>

\* apply_settle: the village and the settled culture in one transaction.
Found(m) ==
  /\ InHand(m, "settle", "apply") /\ hand.free
  /\ owner[rows[m].to] = Nobody
  /\ owner' = [owner EXCEPT ![rows[m].to] = rows[m].by]
  /\ culture' = [culture EXCEPT ![rows[m].by] = [value |-> hand.value, at |-> rows[m].due]]
  /\ Closed(m) /\ Handled(m)
  /\ UNCHANGED <<clock, hall, seat, draft, earned, gifts, life>>

\* The tile was taken since it was checked: Conflict, and the row stays claimed.
Taken(m) ==
  /\ InHand(m, "settle", "apply") /\ hand.free
  /\ owner[rows[m].to] # Nobody
  /\ Handled(m)
  /\ UNCHANGED <<clock, world, culture, rows, draft, earned, gifts, life>>

\* The settlers turn back.
Bounce(m) ==
  /\ InHand(m, "settle", "apply") /\ ~hand.free
  /\ Closed(m) /\ Handled(m)
  /\ UNCHANGED <<clock, world, culture, draft, earned, gifts, life>>

\* resolve_one of the combat pass, as far as a conquest needs it.
ReadAttack(m) ==
  /\ Picks(m, "attack")
  /\ LET p == rows[m].by IN
       Take(m, "apply", p, rows[m].to \notin Capitals /\ FreeSlot(p, rows[m].due), owner[rows[m].to])
  /\ UNCHANGED <<clock, world, culture, rows, draft, batch, earned, gifts, life>>

\* Catapults bring one building down, a hall, a residence or another.
Razes(v, h, s) ==
  /\ h \in 0 .. hall[v] /\ s \in 0 .. seat[v] /\ (h = hall[v] \/ s = seat[v])
  /\ hall' = [hall EXCEPT ![v] = h] /\ seat' = [seat EXCEPT ![v] = s]

\* A battle without a conquest.
Fight(m, h, s) ==
  /\ InHand(m, "attack", "apply")
  /\ Razes(rows[m].to, h, s)
  /\ Closed(m) /\ Handled(m)
  /\ UNCHANGED <<clock, owner, culture, draft, earned, gifts, life>>

\* What a village's fall cancels: its build orders and its movements in transit.
Forfeited(v) == {m \in Rows : Underway(m) /\ rows[m].home = v
                              /\ (rows[m].kind \in {"hall", "seat"} \/ ~rows[m].claimed)}

\* apply_battle with a conquest: guarded by the owner read, both players' culture settled.
Conquer(m, h, s) ==
  LET v == rows[m].to IN
  /\ InHand(m, "attack", "apply") /\ hand.free
  /\ owner[v] = hand.loser /\ Razes(v, h, s)
  /\ owner' = [owner EXCEPT ![v] = hand.who]
  /\ culture' = [culture EXCEPT ![hand.loser] = [value |-> hand.loss, at |-> rows[m].due],
                                ![hand.who] = [value |-> hand.value, at |-> rows[m].due]]
  /\ rows' = [n \in Rows |-> IF n = m \/ n \in Forfeited(v) THEN NoRow ELSE rows[n]]
  /\ Handled(m)
  /\ UNCHANGED <<clock, draft, earned, gifts, life>>

-----------------------------------------------------------------------------
(* Time, crash and restart *)

Tick ==
  /\ clock < MaxClock /\ clock' = clock + 1
  /\ earned' = [p \in Players |-> earned[p] + Rate(p)]
  /\ UNCHANGED <<world, culture, rows, draft, pass, gifts, life>>

Crash ==
  /\ up /\ crashes < MaxCrashes
  /\ up' = FALSE /\ crashes' = crashes + 1
  /\ draft' = NoRow /\ batch' = {} /\ hand' = NoHand
  /\ UNCHANGED <<clock, world, culture, rows, earned, gifts>>

\* Mutant: claimed rows stay claimed.
RestartBare ==
  /\ ~up /\ up' = TRUE
  /\ UNCHANGED <<clock, world, culture, rows, draft, pass, earned, gifts, crashes>>

\* The startup requeues put every claimed row back.
Restart ==
  /\ ~up /\ up' = TRUE
  /\ rows' = [m \in Rows |-> IF Underway(m) THEN [rows[m] EXCEPT !.claimed = FALSE] ELSE NoRow]
  /\ UNCHANGED <<clock, world, culture, draft, pass, earned, gifts, crashes>>

-----------------------------------------------------------------------------
Init ==
  /\ clock = 0 /\ owner = FirstOwner
  /\ hall = [v \in Villages |-> 0] /\ seat = FirstSeat
  /\ culture = [p \in Players |-> [value |-> 0, at |-> 0]]
  /\ rows = [m \in Rows |-> NoRow] /\ draft = NoRow
  /\ batch = {} /\ hand = NoHand
  /\ earned = [p \in Players |-> 0] /\ gifts = 0
  /\ up = TRUE /\ crashes = 0

Spare == CHOOSE m \in Rows : ~Underway(m)

\* A request that has made its checks comes to an end.
Answer == ((\E m \in Rows : ~Underway(m)) /\ Launch(Spare)) \/ Drop

Web == up /\ \/ \E o \in Orders, t \in Time : Ask(o, t)
             \/ Answer
             \/ \E p \in Players : Reward(p) \/ \E v \in Villages : Register(p, v)

Combat == \E m \in Rows : ReadAttack(m) \/ \E h, s \in Levels : Fight(m, h, s) \/ Conquer(m, h, s)

Settling == \E m \in Rows : ReadSettle(m) \/ LoseHome(m) \/ Found(m) \/ Taken(m) \/ Bounce(m)

Building == \E m \in Rows : \/ ReadAnchor(m) \/ WriteAnchor(m) \/ MissAnchor(m)
                            \/ \E l \in Levels : ApplyHall(m, l) \/ ApplySeat(m, l)

Scheduler == up /\ \/ \E kinds \in {{"hall", "seat"}, {"attack"}, {"settle"}} : Claim(kinds)
                   \/ Building \/ Combat \/ Settling

Next == Web \/ Scheduler \/ Tick \/ Crash \/ Restart
Spec == Init /\ [][Next]_vars

\* A quiet history: scheduler and requests keep up with the clock; nobody is rewarded between the read
\* of a player's culture and its write, and nobody settles on a tile between its check and the
\* founding; an anchor fails only if there is nothing to settle; a hall is razed only at an instant
\* its owner's culture has just been settled at; and a village falls only while no request for it
\* is between its checks and its row.
KeepsUp == clock' # clock => (\A m \in Rows : ~Due(m)) /\ (draft # NoRow => draft.due > clock)
NoGiftBetween == hand # NoHand /\ hand' = hand => culture' = culture /\ owner' = owner
AnchorsMade == hand' # hand /\ hand' # NoHand /\ hand'.step = "apply" /\ rows[hand'.row].kind = "hall" =>
  culture'[hand'.who].at = rows[hand'.row].due
AnchoredRazing == \A v \in Villages : hall'[v] < hall[v] /\ owner[v] \in Players /\ culture' = culture =>
                    culture[owner[v]].at = clock
OwnerStays == draft # NoRow /\ draft' = draft => owner'[draft.home] = owner[draft.home]
Quiet == KeepsUp /\ NoGiftBetween /\ AnchorsMade /\ AnchoredRazing /\ OwnerStays

QuietSpec == Init /\ [][Next /\ Quiet]_vars

\* The scheduler's loop never ends by itself, a request does, the process is restarted, and time
\* goes on.
FairQuietSpec == /\ QuietSpec
                 /\ WF_vars(Scheduler /\ Quiet) /\ WF_vars(up /\ Answer /\ Quiet)
                 /\ WF_vars(Restart /\ Quiet) /\ WF_vars(Tick /\ Quiet)

-----------------------------------------------------------------------------
(* Properties *)

\* Every variable has its type; what the pass holds is claimed, due and on its way.
TypeOK ==
  /\ clock \in Time
  /\ owner \in [Villages -> Players \cup {Nobody}]
  /\ hall \in [Villages -> Levels] /\ seat \in [Villages -> Levels]
  /\ culture \in [Players -> [value : Nat, at : Time]]
  /\ rows \in [Rows -> Row \cup {NoRow}] /\ draft \in Row \cup {NoRow}
  /\ batch \subseteq Rows /\ \A m \in batch : Due(m) /\ rows[m].claimed
  /\ hand \in Hand \cup {NoHand} /\ (hand # NoHand => hand.row \in batch)
  /\ earned \in [Players -> Nat] /\ gifts \in 0 .. MaxGifts
  /\ up \in BOOLEAN /\ (~up => batch = {}) /\ crashes \in 0 .. MaxCrashes

\* The lazy accumulator is exact: read now, it shows what counting every second at the rate of
\* that second would have come to, quests included (013 AC1: the read is exact).
LazyIsExact == \A p \in Players : Settled(p, clock) = earned[p]

\* Nobody comes to hold more villages than culture and residences allow at that moment, not by
\* two groups of settlers in flight nor by a conquest beside them (013 AC4, 014 AC6).
GrowsWithinSlots == [][\A p \in Players : LET now == Held(p)' IN
  now # Held(p) /\ Held(p) \subseteq now /\ Held(p) # {} =>
    Cardinality(now) <= AllowedVillages(p, Settled(p, clock))]_vars

\* Settlers arrive: they found a village or turn back, unless their village falls.
SettlersArrive == \A m \in Rows :
  Underway(m) /\ rows[m].kind = "settle" ~> ~Underway(m)
=============================================================================
