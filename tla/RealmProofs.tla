----------------------------- MODULE RealmProofs -----------------------------
(***************************************************************************)
(* Proofs about Realm for every set of players, villages, rows and tables,   *)
(* in quiet histories: the lazy culture is exact, and nobody outgrows his    *)
(* slots.  A row that is due stops the clock, so what a pass holds is due    *)
(* now, and what it has read for the row is what stands.                     *)
(***************************************************************************)
EXTENDS Realm, FiniteSetTheorems, TLAPS

\* No row, and no request, is for an instant that has passed.
Ahead == /\ \A m \in Rows : Underway(m) => rows[m].due >= clock
         /\ draft # NoRow => draft.due >= clock

\* Orders are placed in villages somebody holds, and so are the targets of attacks.
Lived(o) == /\ owner[o.home] # Nobody
            /\ o.kind \in {"hall", "seat"} => o.to = o.home
            /\ o.kind = "attack" => owner[o.to] # Nobody
Peopled == /\ \A m \in Rows : Underway(m) => Lived(rows[m])
           /\ draft # NoRow => Lived(draft)

\* A pass holds rows of its own kinds.
SamePass == \A m, n \in batch : rows[m].kind = "attack" => rows[n].kind = "attack"

TypeInv == TypeOK /\ Peopled /\ SamePass

-----------------------------------------------------------------------------
(* What a step may do *)

LEMMA Accrues ==
  ASSUME TypeOK, NEW p \in Players, NEW t \in Time
  PROVE  Rate(p) \in Nat /\ Settled(p, t) \in Nat
<1>1. [v \in Villages |-> IF owner[v] = p THEN hall[v] ELSE Nobody] \in [Villages -> Hold]
  BY DEF TypeOK, Hold
<1>2. Rate(p) \in Nat
  BY <1>1, RealmAssumption DEF Rate
<1>3. culture[p].value \in Nat /\ culture[p].at \in Nat /\ t \in Nat
  BY RealmAssumption DEF TypeOK, Time
<1>4. CASE t <= culture[p].at
  BY <1>2, <1>3, <1>4 DEF Settled
<1>5. CASE ~(t <= culture[p].at)
  <2>1. t - culture[p].at \in Nat
    BY <1>3, <1>5
  <2> DEFINE r == Rate(p)
             d == t - culture[p].at
  <2>2. r \in Nat /\ d \in Nat
    BY <1>2, <2>1
  <2> HIDE DEF r, d
  <2>3. r * d \in Nat
    BY <2>2
  <2> USE DEF r, d
  <2> QED
    BY <1>2, <1>3, <1>5, <2>3 DEF Settled
<1> QED
  BY <1>2, <1>4, <1>5

LEMMA TakesHand ==
  ASSUME TypeOK, NEW m \in batch, NEW step \in {"anchor", "apply"}, NEW p \in Players,
         NEW free \in BOOLEAN, NEW q \in Players, Take(m, step, p, free, q)
  PROVE  hand' \in Hand /\ hand'.row = m
<1>1. rows[m].due \in Time /\ m \in Rows
  BY DEF TypeOK, Due, Underway, Row
<1> QED
  BY <1>1, Accrues DEF Take, Hand

\* The parts of the types that only a few actions disturb.
RowsOK == /\ rows \in [Rows -> Row \cup {NoRow}]
          /\ batch \subseteq Rows /\ \A m \in batch : Due(m) /\ rows[m].claimed
HandOK == hand \in Hand \cup {NoHand} /\ (hand # NoHand => hand.row \in batch)

LEMMA ClosedType ==
  ASSUME TypeOK, NEW m \in Rows, Closed(m), Handled(m), UNCHANGED clock
  PROVE  RowsOK' /\ HandOK'
<1>1. rows' \in [Rows -> Row \cup {NoRow}]
  BY DEF Closed, TypeOK
<1>2. batch' \subseteq Rows /\ hand' = NoHand
  BY DEF Handled, TypeOK
<1>3. \A n \in batch' : rows'[n] = rows[n] /\ n \in batch
  BY DEF Closed, Handled, TypeOK
<1> QED
  BY <1>1, <1>2, <1>3 DEF RowsOK, HandOK, TypeOK, Due, Underway

LEMMA DroppedType ==
  ASSUME TypeOK, NEW m \in Rows, UNCHANGED rows, Handled(m), UNCHANGED clock
  PROVE  RowsOK' /\ HandOK'
BY DEF RowsOK, HandOK, TypeOK, Handled, Due, Underway

\* What is in hand was read from a village that somebody holds.
LEMMA ReadersArePlayers ==
  ASSUME TypeInv, NEW m \in batch
  PROVE  /\ m \in Rows /\ Underway(m) /\ rows[m] \in Row
         /\ rows[m].due = clock \/ rows[m].due <= clock
         /\ rows[m].by \in Players /\ rows[m].to \in Villages /\ rows[m].home \in Villages
         /\ rows[m].kind \in {"hall", "attack"} => owner[rows[m].to] \in Players
<1>1. m \in Rows /\ Underway(m) /\ rows[m] \in Row /\ rows[m].due <= clock
  BY DEF TypeInv, TypeOK, Due, Underway
<1>2. rows[m].by \in Players /\ rows[m].to \in Villages /\ rows[m].home \in Villages
  BY <1>1 DEF Row
<1>3. Lived(rows[m])
  BY <1>1 DEF TypeInv, Peopled
<1>4. rows[m].kind \in {"hall", "attack"} => owner[rows[m].to] # Nobody
  BY <1>3 DEF Lived
<1> QED
  BY <1>1, <1>2, <1>4 DEF TypeInv, TypeOK

LEMMA WebType ==
  ASSUME TypeInv, Web
  PROVE  TypeOK'
<1> USE DEF TypeInv
<1>1. ASSUME NEW o \in Orders, NEW t \in Time, Ask(o, t) PROVE TypeOK'
  <2>1. o \in [kind : Kinds, home : Villages, to : Villages]
    BY RealmAssumption
  <2>2. owner[o.home] \in Players
    BY <1>1, <2>1 DEF Ask, TypeOK
  <2>3. draft' \in Row
    BY <1>1, <2>1, <2>2 DEF Ask, Row
  <2> QED
    BY <1>1, <2>3 DEF Ask, TypeOK, Due, Underway, world, pass, life
<1>2. ASSUME NEW m \in Rows, Launch(m) PROVE TypeOK'
  <2>1. rows' = [rows EXCEPT ![m] = draft] /\ draft \in Row
    BY <1>2 DEF Launch, TypeOK
  <2>2. \A n \in batch : n # m
    BY <1>2 DEF Launch, TypeOK, Due
  <2>3. \A n \in batch : rows'[n] = rows[n]
    BY <2>1, <2>2 DEF TypeOK
  <2> QED
    BY <1>2, <2>1, <2>3 DEF Launch, TypeOK, Due, Underway, world, pass, life
<1>3. ASSUME Drop PROVE TypeOK'
  BY <1>3 DEF Drop, TypeOK, Due, Underway, world, pass, life
<1>4. ASSUME NEW p \in Players, Reward(p) PROVE TypeOK'
  <2>1. culture[p].value + Gift \in Nat /\ culture[p].at \in Time /\ earned[p] + Gift \in Nat
    BY RealmAssumption DEF TypeOK
  <2>2. culture' \in [Players -> [value : Nat, at : Time]]
    BY <1>4, <2>1 DEF Reward, TypeOK
  <2>3. earned' \in [Players -> Nat] /\ gifts' \in 0 .. MaxGifts
    BY <1>4, <2>1, RealmAssumption DEF Reward, TypeOK
  <2> QED
    BY <1>4, <2>2, <2>3 DEF Reward, TypeOK, Due, Underway, world, pass, life
<1>5. ASSUME NEW p \in Players, NEW v \in Villages, Register(p, v) PROVE TypeOK'
  <2>1. culture' \in [Players -> [value : Nat, at : Time]]
    BY <1>5 DEF Register, TypeOK
  <2> QED
    BY <1>5, <2>1 DEF Register, TypeOK, Due, Underway, pass, life
<1>6. (\E m \in Rows : ~Underway(m)) => Spare \in Rows
  BY DEF Spare
<1> QED
  BY <1>1, <1>2, <1>3, <1>4, <1>5, <1>6 DEF Web, Answer

LEMMA ClaimType ==
  ASSUME TypeOK, NEW kinds, Claim(kinds)
  PROVE  TypeOK'
<1> DEFINE S == {m \in Rows : Due(m) /\ rows[m].kind \in kinds /\ ~rows[m].claimed}
<1>1. /\ rows' = [m \in Rows |-> IF m \in S THEN [rows[m] EXCEPT !.claimed = TRUE] ELSE rows[m]]
      /\ batch' = S /\ batch = {}
  BY DEF Claim
<1>2. ASSUME NEW m \in S
      PROVE  /\ rows'[m] \in Row /\ rows'[m].claimed /\ rows'[m].due = rows[m].due
             /\ rows'[m] # NoRow
  <2>1. rows[m] \in Row
    BY DEF TypeOK, Due, Underway
  <2>2. rows'[m] = [rows[m] EXCEPT !.claimed = TRUE]
    BY <1>1
  <2> QED
    BY <2>1, <2>2, NewNames DEF Row
<1>3. rows' \in [Rows -> Row \cup {NoRow}]
  BY <1>1, <1>2 DEF TypeOK
<1>4. \A m \in batch' : Due(m)' /\ rows'[m].claimed
  BY <1>1, <1>2 DEF Due, Underway, Claim
<1>5. hand = NoHand
  BY <1>1 DEF TypeOK
<1> QED
  BY <1>1, <1>3, <1>4, <1>5 DEF Claim, TypeOK, world, life

LEMMA BuildingType ==
  ASSUME TypeInv, NEW m \in Rows, up,
         ReadAnchor(m) \/ WriteAnchor(m) \/ MissAnchor(m)
         \/ \E l \in Levels : ApplyHall(m, l) \/ ApplySeat(m, l)
  PROVE  TypeOK'
<1> USE DEF TypeInv
<1>1. CASE ReadAnchor(m)
  <2>1. m \in batch /\ owner[rows[m].to] \in Players
    BY <1>1, ReadersArePlayers DEF ReadAnchor, Picks
  <2>2. hand' \in Hand /\ hand'.row = m
    BY <1>1, <2>1, TakesHand DEF ReadAnchor
  <2> QED
    BY <1>1, <2>1, <2>2 DEF ReadAnchor, TypeOK, Due, Underway, world, life
<1>2. CASE WriteAnchor(m)
  <2>1. hand \in Hand /\ m \in batch /\ hand.row = m
    BY <1>2 DEF WriteAnchor, InHand, TypeOK
  <2>2. rows[m].due \in Time
    BY <2>1 DEF TypeOK, Due, Underway, Row
  <2>3. culture' \in [Players -> [value : Nat, at : Time]]
    BY <1>2, <2>1, <2>2 DEF WriteAnchor, TypeOK, Hand
  <2>4. hand' \in Hand /\ hand'.row = m
    BY <1>2, <2>1 DEF WriteAnchor, Hand
  <2> QED
    BY <1>2, <2>1, <2>3, <2>4 DEF WriteAnchor, TypeOK, Due, Underway, world, life
<1>3. ASSUME NEW l \in Levels, ApplyHall(m, l) PROVE TypeOK'
  <2>1. RowsOK' /\ HandOK'
    BY <1>3, ClosedType DEF ApplyHall
  <2> QED
    BY <1>3, <2>1 DEF ApplyHall, RowsOK, HandOK, TypeOK, life, Handled
<1>4. ASSUME NEW l \in Levels, ApplySeat(m, l) PROVE TypeOK'
  <2>1. RowsOK' /\ HandOK'
    BY <1>4, ClosedType DEF ApplySeat
  <2> QED
    BY <1>4, <2>1 DEF ApplySeat, RowsOK, HandOK, TypeOK, life, Handled
<1>5. CASE MissAnchor(m)
  <2>1. m \in batch /\ hand' \in Hand /\ hand'.row = m
    <3>1. CASE Picks(m, "hall")
      <4>1. m \in batch /\ owner[rows[m].to] \in Players
        BY <3>1, ReadersArePlayers DEF Picks
      <4>2. Take(m, "apply", owner[rows[m].to], FALSE, owner[rows[m].to])
        BY <1>5, <3>1 DEF MissAnchor, Picks, InHand
      <4> QED
        BY <4>1, <4>2, TakesHand
    <3>2. CASE InHand(m, "hall", "anchor")
      <4>1. hand \in Hand /\ m \in batch /\ hand.row = m
        BY <3>2 DEF InHand, TypeOK
      <4>2. hand' = [hand EXCEPT !.step = "apply"]
        BY <1>5, <3>2 DEF MissAnchor, Picks, InHand
      <4> QED
        BY <4>1, <4>2 DEF Hand
    <3> QED
      BY <1>5, <3>1, <3>2 DEF MissAnchor
  <2> QED
    BY <1>5, <2>1 DEF MissAnchor, TypeOK, Due, Underway, world, life
<1> QED
  BY <1>1, <1>2, <1>3, <1>4, <1>5

LEMMA SettlingType ==
  ASSUME TypeInv, NEW m \in Rows, up,
         ReadSettle(m) \/ LoseHome(m) \/ Found(m) \/ Taken(m) \/ Bounce(m)
  PROVE  TypeOK'
<1> USE DEF TypeInv
<1>1. CASE ReadSettle(m)
  <2>1. m \in batch /\ rows[m].by \in Players
    BY <1>1, ReadersArePlayers DEF ReadSettle, Picks
  <2>2. PICK free \in BOOLEAN : Take(m, "apply", rows[m].by, free, rows[m].by)
    BY <1>1 DEF ReadSettle
  <2>3. hand' \in Hand /\ hand'.row = m
    BY <2>1, <2>2, TakesHand
  <2> QED
    BY <1>1, <2>1, <2>3 DEF ReadSettle, TypeOK, Due, Underway, world, life
<1>2. CASE LoseHome(m) \/ Taken(m)
  <2>1. RowsOK' /\ HandOK'
    BY <1>2, DroppedType DEF LoseHome, Taken
  <2> QED
    BY <1>2, <2>1 DEF LoseHome, Taken, RowsOK, HandOK, TypeOK, world, life, Handled
<1>3. CASE Found(m)
  <2>1. RowsOK' /\ HandOK'
    BY <1>3, ClosedType DEF Found
  <2>2. hand \in Hand /\ m \in batch /\ rows[m].by \in Players
    BY <1>3, ReadersArePlayers DEF Found, InHand, TypeOK
  <2>3. rows[m].due \in Time
    BY <2>2 DEF TypeOK, Due, Underway, Row
  <2>4. culture' \in [Players -> [value : Nat, at : Time]]
    BY <1>3, <2>2, <2>3 DEF Found, TypeOK, Hand
  <2>5. owner' \in [Villages -> Players \cup {Nobody}]
    BY <1>3, <2>2 DEF Found, TypeOK
  <2> QED
    BY <1>3, <2>1, <2>4, <2>5 DEF Found, RowsOK, HandOK, TypeOK, life, Handled
<1>4. CASE Bounce(m)
  <2>1. RowsOK' /\ HandOK'
    BY <1>4, ClosedType DEF Bounce
  <2> QED
    BY <1>4, <2>1 DEF Bounce, RowsOK, HandOK, TypeOK, world, life, Handled
<1> QED
  BY <1>1, <1>2, <1>3, <1>4

\* A fallen village's rows go; a claimed attack stays.
LEMMA ForfeitType ==
  ASSUME TypeInv, NEW m \in Rows, NEW h, NEW s, Conquer(m, h, s)
  PROVE  RowsOK' /\ HandOK'
<1> DEFINE gone == {n \in Rows : n = m \/ n \in Forfeited(rows[m].to)}
<1>1. /\ rows' = [n \in Rows |-> IF n \in gone THEN NoRow ELSE rows[n]]
      /\ batch' = batch \ {m} /\ hand' = NoHand /\ clock' = clock
      /\ m \in batch /\ rows[m].kind = "attack"
  BY DEF Conquer, Handled, InHand
<1>2. rows' \in [Rows -> Row \cup {NoRow}]
  BY <1>1 DEF TypeInv, TypeOK
<1>3. \A n \in batch : rows[n].kind = "attack" /\ rows[n].claimed
  BY <1>1 DEF TypeInv, SamePass, TypeOK
<1>4. \A n \in batch' : n \notin gone /\ n \in batch
  BY <1>1, <1>3 DEF Forfeited
<1>5. \A n \in batch' : rows'[n] = rows[n]
  BY <1>1, <1>4 DEF TypeInv, TypeOK
<1> QED
  BY <1>1, <1>2, <1>4, <1>5 DEF RowsOK, HandOK, TypeInv, TypeOK, Due, Underway

LEMMA CombatType ==
  ASSUME TypeInv, NEW m \in Rows, up,
         ReadAttack(m) \/ \E h, s \in Levels : Fight(m, h, s) \/ Conquer(m, h, s)
  PROVE  TypeOK'
<1> USE DEF TypeInv
<1>1. CASE ReadAttack(m)
  <2>1. m \in batch /\ rows[m].by \in Players /\ owner[rows[m].to] \in Players
    BY <1>1, ReadersArePlayers DEF ReadAttack, Picks
  <2>2. PICK free \in BOOLEAN : Take(m, "apply", rows[m].by, free, owner[rows[m].to])
    BY <1>1 DEF ReadAttack
  <2>3. hand' \in Hand /\ hand'.row = m
    BY <2>1, <2>2, TakesHand
  <2> QED
    BY <1>1, <2>1, <2>3 DEF ReadAttack, TypeOK, Due, Underway, world, life
<1>2. ASSUME NEW h \in Levels, NEW s \in Levels, Fight(m, h, s) PROVE TypeOK'
  <2>1. RowsOK' /\ HandOK'
    BY <1>2, ClosedType DEF Fight
  <2> QED
    BY <1>2, <2>1 DEF Fight, Razes, RowsOK, HandOK, TypeOK, life, Handled
<1>3. ASSUME NEW h \in Levels, NEW s \in Levels, Conquer(m, h, s) PROVE TypeOK'
  <2>1. RowsOK' /\ HandOK'
    BY <1>3, ForfeitType
  <2>2. hand \in Hand /\ m \in batch
    BY <1>3 DEF Conquer, InHand, TypeOK
  <2>3. rows[m].due \in Time
    BY <2>2 DEF TypeOK, Due, Underway, Row
  <2>4. culture' \in [Players -> [value : Nat, at : Time]]
    BY <1>3, <2>2, <2>3 DEF Conquer, TypeOK, Hand
  <2>5. owner' \in [Villages -> Players \cup {Nobody}]
    BY <1>3, <2>2 DEF Conquer, TypeOK, Hand
  <2> QED
    BY <1>3, <2>1, <2>4, <2>5 DEF Conquer, Razes, RowsOK, HandOK, TypeOK, life, Handled
<1> QED
  BY <1>1, <1>2, <1>3

LEMMA LifeType ==
  ASSUME TypeOK, Tick \/ Crash \/ Restart
  PROVE  TypeOK'
<1>1. CASE Tick
  <2>1. clock' \in Time /\ clock' = clock + 1 /\ clock \in Nat
    BY <1>1, RealmAssumption DEF Tick, TypeOK, Time
  <2>2. earned' \in [Players -> Nat]
    <3>1. \A p \in Players : Rate(p) \in Nat
      BY Accrues DEF TypeOK
    <3> QED
      BY <1>1, <3>1 DEF Tick, TypeOK
  <2>3. \A m \in batch : Due(m)'
    <3> SUFFICES ASSUME NEW m \in batch PROVE Due(m)'
      BY <1>1 DEF Tick, pass
    <3>1. Due(m) /\ rows[m].due \in Nat
      BY RealmAssumption DEF TypeOK, Due, Underway, Row, Time
    <3> QED
      BY <1>1, <2>1, <3>1 DEF Tick, Due, Underway
  <2> QED
    BY <1>1, <2>1, <2>2, <2>3 DEF Tick, TypeOK, world, pass, life
<1>2. CASE Crash
  <2>1. crashes' \in 0 .. MaxCrashes
    BY <1>2, RealmAssumption DEF Crash, TypeOK
  <2>2. UNCHANGED <<clock, owner, hall, seat, culture, rows, earned, gifts>>
    BY <1>2 DEF Crash, world
  <2>3. draft' = NoRow /\ batch' = {} /\ hand' = NoHand /\ up' = FALSE
    BY <1>2 DEF Crash
  <2> QED
    BY <2>1, <2>2, <2>3 DEF TypeOK
<1>3. CASE Restart
  <2>1. batch = {}
    BY <1>3 DEF Restart, TypeOK
  <2>2. rows' \in [Rows -> Row \cup {NoRow}]
    <3>1. \A m \in Rows : Underway(m) => [rows[m] EXCEPT !.claimed = FALSE] \in Row
      BY DEF TypeOK, Underway, Row
    <3> QED
      BY <1>3, <3>1 DEF Restart
  <2> QED
    BY <1>3, <2>1, <2>2 DEF Restart, TypeOK, world, pass
<1> QED
  BY <1>1, <1>2, <1>3

LEMMA TypeStep == TypeInv /\ [Next]_vars => TypeOK'
<1> SUFFICES ASSUME TypeInv, [Next]_vars PROVE TypeOK'
  OBVIOUS
<1>1. CASE Scheduler
  <2>1. TypeOK /\ up
    BY <1>1 DEF Scheduler, TypeInv
  <2> QED
    BY <1>1, <2>1, ClaimType, BuildingType, SettlingType, CombatType
       DEF Scheduler, Building, Settling, Combat
<1>2. CASE UNCHANGED vars
  BY <1>2 DEF vars, TypeInv, TypeOK, Due, Underway
<1> QED
  BY <1>1, <1>2, WebType, LifeType DEF Next, TypeInv

-----------------------------------------------------------------------------
(* Rows keep their village *)

Same(n, o) == /\ n.kind = o.kind /\ n.by = o.by /\ n.home = o.home
              /\ n.to = o.to /\ n.due = o.due

LEMMA WebRows ==
  ASSUME TypeOK, Web, NEW m \in Rows, Underway(m)'
  PROVE  \/ draft # NoRow /\ rows'[m] = draft /\ ~Underway(m)
         \/ Underway(m) /\ rows'[m] = rows[m]
<1>1. ASSUME NEW n \in Rows, Launch(n)
      PROVE  \/ draft # NoRow /\ rows'[m] = draft /\ ~Underway(m)
             \/ Underway(m) /\ rows'[m] = rows[m]
  BY <1>1 DEF Launch, TypeOK, Underway
<1>2. (\E n \in Rows : ~Underway(n)) => Spare \in Rows
  BY DEF Spare
<1>3. rows' = rows => Underway(m) /\ rows'[m] = rows[m]
  BY DEF Underway
<1> QED
  BY <1>1, <1>2, <1>3 DEF Web, Ask, Answer, Drop, Reward, Register

LEMMA SchedulerRows ==
  ASSUME TypeOK, Scheduler, NEW m \in Rows, Underway(m)'
  PROVE  Underway(m) /\ Same(rows'[m], rows[m])
<1>1. rows'[m] = rows[m] => Underway(m) /\ Same(rows'[m], rows[m])
  BY DEF Underway, Same
<1>2. ASSUME NEW kinds, Claim(kinds) PROVE Underway(m) /\ Same(rows'[m], rows[m])
  <2>1. rows'[m] = rows[m] \/ (Underway(m) /\ rows'[m] = [rows[m] EXCEPT !.claimed = TRUE])
    BY <1>2 DEF Claim, Due
  <2>2. Underway(m) => rows[m] \in Row
    BY DEF TypeOK, Underway
  <2>3. Underway(m) => Same([rows[m] EXCEPT !.claimed = TRUE], rows[m])
    BY <2>2 DEF Row, Same
  <2> QED
    BY <1>1, <2>1, <2>3
<1>3. ASSUME NEW n \in Rows, Closed(n) PROVE rows'[m] = rows[m]
  BY <1>3 DEF Closed, TypeOK, Underway
<1>4. ASSUME NEW n \in Rows, NEW h, NEW s, Conquer(n, h, s) PROVE rows'[m] = rows[m]
  BY <1>4 DEF Conquer, Underway
<1>5. ASSUME NEW n \in Rows,
             \/ ReadAnchor(n) \/ WriteAnchor(n) \/ MissAnchor(n) \/ ReadSettle(n) \/ LoseHome(n)
             \/ Taken(n) \/ ReadAttack(n)
      PROVE  rows'[m] = rows[m]
  BY <1>5 DEF ReadAnchor, WriteAnchor, MissAnchor, ReadSettle, LoseHome, Taken, ReadAttack
<1>6. ASSUME NEW n \in Rows, Building \/ Settling \/ Combat PROVE rows'[m] = rows[m]
  BY <1>3, <1>4, <1>5, <1>6
     DEF Building, Settling, Combat, ApplyHall, ApplySeat, Found, Bounce, Fight
<1> QED
  BY <1>1, <1>2, <1>6 DEF Scheduler

LEMMA RowFate ==
  ASSUME TypeOK, Next, NEW m \in Rows, Underway(m)'
  PROVE  \/ draft # NoRow /\ rows'[m] = draft /\ ~Underway(m)
         \/ Underway(m) /\ Same(rows'[m], rows[m])
<1>1. CASE Web
  BY <1>1, WebRows DEF Same
<1>2. CASE Tick \/ Crash
  BY <1>2 DEF Tick, Crash, Underway, Same
<1>3. CASE Restart
  <2>1. Underway(m) /\ rows'[m] = [rows[m] EXCEPT !.claimed = FALSE]
    BY <1>3 DEF Restart, Underway
  <2>2. rows[m] \in Row
    BY <2>1 DEF TypeOK, Underway
  <2> QED
    BY <2>1, <2>2 DEF Row, Same
<1> QED
  BY <1>1, <1>2, <1>3, SchedulerRows DEF Next

LEMMA DraftFate ==
  ASSUME Next, draft' # NoRow
  PROVE  draft' = draft \/ \E o \in Orders, t \in Time : Ask(o, t)
BY DEF Next, Web, Answer, Launch, Drop, Reward, Register, Scheduler, Claim, Building, ReadAnchor,
   WriteAnchor, MissAnchor, ApplyHall, ApplySeat, Settling, ReadSettle, LoseHome, Found, Taken, Bounce, Combat,
   ReadAttack, Fight, Conquer, Tick, Crash, Restart

\* A village that is held stays somebody's.
LEMMA OwnerFate ==
  ASSUME TypeInv, Next, NEW v \in Villages, owner[v] # Nobody
  PROVE  owner'[v] # Nobody
<1> USE RealmAssumption DEF TypeInv
<1>1. ASSUME NEW p \in Players, NEW w \in Villages, Register(p, w) PROVE owner'[v] # Nobody
  BY <1>1 DEF Register, TypeOK
<1>2. ASSUME NEW m \in Rows, Found(m) PROVE owner'[v] # Nobody
  <2>1. rows[m].by \in Players
    BY <1>2, ReadersArePlayers DEF Found, InHand
  <2> QED
    BY <1>2, <2>1 DEF Found, TypeOK
<1>3. ASSUME NEW m \in Rows, NEW h, NEW s, Conquer(m, h, s) PROVE owner'[v] # Nobody
  <2>1. hand.who \in Players
    BY <1>3 DEF Conquer, InHand, TypeOK, Hand
  <2> QED
    BY <1>3, <2>1 DEF Conquer, TypeOK
<1>4. owner' = owner => owner'[v] # Nobody
  OBVIOUS
<1>5. CASE Web
  BY <1>1, <1>4, <1>5 DEF Web, Ask, Answer, Launch, Drop, Reward, world
<1>6. CASE Scheduler
  BY <1>2, <1>3, <1>4, <1>6 DEF Scheduler, Claim, Building, ReadAnchor, WriteAnchor, MissAnchor,
     ApplyHall, ApplySeat, Settling, ReadSettle, LoseHome, Taken, Bounce, Combat, ReadAttack, Fight, world
<1> QED
  BY <1>4, <1>5, <1>6 DEF Next, Tick, Crash, Restart, world

LEMMA PeopledStep ==
  ASSUME TypeInv, Next
  PROVE  Peopled'
<1>1. ASSUME NEW o \in Row, Lived(o) PROVE Lived(o)'
  <2>1. o.home \in Villages /\ o.to \in Villages
    BY DEF Row
  <2> QED
    BY <1>1, <2>1, OwnerFate DEF Lived
<1>2. draft # NoRow => draft \in Row /\ Lived(draft)
  BY DEF TypeInv, TypeOK, Peopled
<1>3. ASSUME NEW m \in Rows, Underway(m)' PROVE Lived(rows[m])'
  <2>1. CASE draft # NoRow /\ rows'[m] = draft
    <3>1. PICK o \in Row : o = draft
      BY <1>2, <2>1
    <3>2. Lived(o)'
      BY <1>1, <1>2, <2>1, <3>1
    <3> QED
      BY <2>1, <3>1, <3>2 DEF Lived
  <2>2. CASE Underway(m) /\ Same(rows'[m], rows[m])
    <3>1. PICK o \in Row : o = rows[m]
      BY <2>2 DEF TypeInv, TypeOK, Underway
    <3>2. Lived(o)'
      BY <1>1, <2>2, <3>1 DEF TypeInv, Peopled
    <3> QED
      BY <2>2, <3>1, <3>2 DEF Lived, Same
  <2> QED
    BY <1>3, <2>1, <2>2, RowFate DEF TypeInv
<1>4. ASSUME draft' # NoRow PROVE Lived(draft)'
  <2>1. CASE draft' = draft
    <3>1. PICK o \in Row : o = draft
      BY <1>2, <1>4, <2>1
    <3>2. Lived(o)'
      BY <1>1, <1>2, <1>4, <2>1, <3>1
    <3> QED
      BY <2>1, <3>1, <3>2 DEF Lived
  <2>2. ASSUME NEW o \in Orders, NEW t \in Time, Ask(o, t) PROVE Lived(draft)'
    BY <2>2, RealmAssumption DEF Ask, Lived, world
  <2> QED
    BY <1>4, <2>1, <2>2, DraftFate
<1> QED
  BY <1>3, <1>4 DEF Peopled

LEMMA SamePassStep ==
  ASSUME TypeInv, Next
  PROVE  SamePass'
<1>1. CASE batch' \subseteq batch
  <2>1. \A m \in batch : Underway(m) /\ m \in Rows
    BY DEF TypeInv, TypeOK, Due
  <2>2. \A m \in Rows : Underway(m) /\ Underway(m)' => Same(rows'[m], rows[m])
    BY RowFate DEF TypeInv
  <2>3. \A m \in batch' : Underway(m)'
    BY TypeStep DEF TypeOK, Due
  <2> QED
    BY <1>1, <2>1, <2>2, <2>3 DEF SamePass, Same, TypeInv
<1>2. ASSUME NEW kinds \in {{"hall", "seat"}, {"attack"}, {"settle"}}, Claim(kinds)
      PROVE  SamePass'
  <2>1. \A m \in batch' : m \in Rows /\ rows[m].kind \in kinds /\ Underway(m) /\ Underway(m)'
    <3>1. \A m \in batch' : m \in Rows /\ rows[m].kind \in kinds /\ Underway(m)
      BY <1>2 DEF Claim, Due
    <3>2. \A m \in batch' : Underway(m)'
      BY TypeStep DEF TypeOK, Due
    <3> QED
      BY <3>1, <3>2
  <2>2. \A m \in batch' : Same(rows'[m], rows[m])
    BY <2>1, RowFate DEF TypeInv
  <2>3. \A m, n \in batch' : rows[m].kind = "attack" => rows[n].kind = "attack"
    BY <2>1, <1>2
  <2> QED
    BY <2>2, <2>3 DEF SamePass, Same
<1>3. batch' \subseteq batch
      \/ \E kinds \in {{"hall", "seat"}, {"attack"}, {"settle"}} : Claim(kinds)
  BY DEF Next, Web, Ask, Answer, Launch, Drop, Reward, Register, Scheduler, Building, ReadAnchor,
     WriteAnchor, MissAnchor, ApplyHall, ApplySeat, Settling, ReadSettle, LoseHome, Found, Taken, Bounce, Combat,
     ReadAttack, Fight, Conquer, Handled, Tick, Crash, Restart, pass
<1> QED
  BY <1>1, <1>2, <1>3

LEMMA TypeInvInit == Init => TypeInv
BY RealmAssumption, NewNames DEF Init, TypeInv, TypeOK, Peopled, SamePass, Underway, Time

LEMMA TypeInvStep == TypeInv /\ [Next]_vars => TypeInv'
<1> SUFFICES ASSUME TypeInv, [Next]_vars PROVE TypeInv'
  OBVIOUS
<1>1. CASE UNCHANGED vars
  BY <1>1, TypeStep DEF vars, TypeInv, Peopled, Lived, SamePass, Underway
<1>2. CASE Next
  BY <1>2, TypeStep, PeopledStep, SamePassStep DEF TypeInv
<1> QED
  BY <1>1, <1>2

\* Every variable keeps its type, whatever is ordered, reached, razed and conquered,
\* with quiet clauses or without; what a pass holds is claimed, due and under way.
THEOREM RealmTypeCorrect == Spec => []TypeOK
<1>1. TypeInv => TypeOK
  BY DEF TypeInv
<1> QED
  BY <1>1, TypeInvInit, TypeInvStep, PTL DEF Spec

-----------------------------------------------------------------------------
(* Quiet histories: what is in hand is due now and read from what stands *)

Anchored == \A p \in Players : culture[p].at <= clock

\* What was read for the row in hand: a hall's owner with his culture, until that is
\* settled; else the orderer and, for a battle, the defender.
Stands(o) ==
  /\ o.kind # "seat"
  /\ o.kind = "hall" => hand.who = owner[o.to] /\ ~hand.free
  /\ o.kind # "hall" => hand.who = o.by /\ hand.step = "apply"
  /\ o.kind = "hall" /\ hand.step = "apply" => culture[hand.who].at = clock
  /\ ~(o.kind = "hall" /\ hand.step = "apply") =>
       hand.value = Settled(hand.who, clock) /\ hand.loss = Settled(hand.loser, clock)
  /\ hand.free => FreeSlot(hand.who, clock)
ReadStands == hand # NoHand => Stands(rows[hand.row])

QuietInv == TypeInv /\ Ahead /\ Anchored /\ ReadStands /\ LazyIsExact

LEMMA DueNow ==
  ASSUME TypeInv, Ahead, NEW m \in batch
  PROVE  rows[m].due = clock /\ clock \in Nat
<1>1. m \in Rows /\ Underway(m) /\ rows[m] \in Row /\ rows[m].due <= clock /\ clock \in Time
  BY DEF TypeInv, TypeOK, Due, Underway
<1>2. rows[m].due \in Nat /\ clock \in Nat
  BY <1>1, RealmAssumption DEF Row, Time
<1> QED
  BY <1>1, <1>2 DEF Ahead

LEMMA ClockFate ==
  ASSUME Next
  PROVE  clock' = clock \/ clock' = clock + 1
<1>1. CASE Web
  BY <1>1 DEF Web, Ask, Answer, Launch, Drop, Reward, Register
<1>2. CASE Building
  BY <1>2 DEF Building, ReadAnchor, WriteAnchor, MissAnchor, ApplyHall, ApplySeat
<1>3. CASE Settling
  BY <1>3 DEF Settling, ReadSettle, LoseHome, Found, Taken, Bounce
<1>4. CASE Combat
  BY <1>4 DEF Combat, ReadAttack, Fight, Conquer
<1>5. ASSUME NEW kinds, Claim(kinds) PROVE clock' = clock
  BY <1>5 DEF Claim
<1> QED
  BY <1>1, <1>2, <1>3, <1>4, <1>5 DEF Next, Scheduler, Tick, Crash, Restart

LEMMA AheadStep ==
  ASSUME TypeInv, Ahead, Next, KeepsUp
  PROVE  Ahead'
<1>1. clock \in Nat /\ (clock' = clock \/ clock' = clock + 1)
  BY ClockFate, RealmAssumption DEF TypeInv, TypeOK, Time
<1>2. \A m \in Rows : Underway(m) => rows[m].due \in Nat /\ rows[m].due >= clock'
  <2> SUFFICES ASSUME NEW m \in Rows, Underway(m)
               PROVE  rows[m].due \in Nat /\ rows[m].due >= clock'
    OBVIOUS
  <2>1. rows[m] \in Row
    BY DEF TypeInv, TypeOK, Underway
  <2>2. rows[m].due \in Nat /\ rows[m].due >= clock
    BY <2>1, RealmAssumption DEF Row, Time, Ahead
  <2>3. clock' # clock => rows[m].due > clock
    BY <1>1, <2>2 DEF KeepsUp, Due
  <2> QED
    BY <1>1, <2>2, <2>3
<1>3. draft # NoRow => draft.due \in Nat /\ draft.due >= clock'
  <2> SUFFICES ASSUME draft # NoRow PROVE draft.due \in Nat /\ draft.due >= clock'
    OBVIOUS
  <2>1. draft \in Row
    BY DEF TypeInv, TypeOK
  <2>2. draft.due \in Nat /\ draft.due >= clock
    BY <2>1, RealmAssumption DEF Row, Time, Ahead
  <2>3. clock' # clock => draft.due > clock
    BY DEF KeepsUp
  <2> QED
    BY <1>1, <2>2, <2>3
<1>4. \A m \in Rows : Underway(m)' => rows'[m].due >= clock'
  BY <1>2, <1>3, RowFate DEF TypeInv, Same
<1>5. draft' # NoRow => draft'.due >= clock'
  <2>1. ASSUME NEW o \in Orders, NEW t \in Time, Ask(o, t) PROVE draft'.due >= clock'
    <3>1. t \in clock + 1 .. MaxClock /\ draft'.due = t /\ clock' = clock
      BY <2>1 DEF Ask
    <3> QED
      BY <1>1, <3>1, RealmAssumption
  <2> QED
    BY <1>3, <2>1, DraftFate
<1> QED
  BY <1>4, <1>5 DEF Ahead

\* A culture is stamped now or not at all.
LEMMA AnchoredStep ==
  ASSUME TypeInv, Ahead, Anchored, Next
  PROVE  Anchored'
<1> SUFFICES ASSUME NEW p \in Players PROVE culture'[p].at <= clock'
  BY DEF Anchored
<1>1. clock \in Nat /\ culture[p].at \in Nat /\ culture[p].at <= clock
  BY RealmAssumption DEF TypeInv, TypeOK, Time, Anchored
<1>2. ASSUME clock' = clock, culture'[p].at = culture[p].at \/ culture'[p].at = clock
      PROVE  culture'[p].at <= clock'
  BY <1>1, <1>2
<1>3. ASSUME NEW m \in Rows, WriteAnchor(m) \/ Found(m) \/ \E h, s \in Levels : Conquer(m, h, s)
      PROVE  culture'[p].at <= clock'
  <2>1. m \in batch /\ clock' = clock
    BY <1>3 DEF WriteAnchor, Found, Conquer, InHand
  <2>2. culture'[p].at = culture[p].at \/ culture'[p].at = rows[m].due
    BY <1>3 DEF WriteAnchor, Found, Conquer, TypeInv, TypeOK
  <2> QED
    BY <1>2, <2>1, <2>2, DueNow
<1>4. ASSUME NEW q \in Players, Reward(q) PROVE culture'[p].at <= clock'
  <2>1. culture'[p].at = culture[p].at
    BY <1>4 DEF Reward, TypeInv, TypeOK
  <2> QED
    BY <1>2, <1>4, <2>1 DEF Reward
<1>5. ASSUME NEW q \in Players, NEW v \in Villages, Register(q, v) PROVE culture'[p].at <= clock'
  <2>1. culture'[p].at = culture[p].at \/ culture'[p].at = clock
    BY <1>5 DEF Register, TypeInv, TypeOK
  <2> QED
    BY <1>2, <1>5, <2>1 DEF Register
<1>6. CASE culture' = culture /\ (clock' = clock \/ clock' = clock + 1)
  BY <1>1, <1>6
<1>7. CASE Web
  BY <1>4, <1>5, <1>6, <1>7 DEF Web, Ask, Answer, Launch, Drop
<1>8. CASE Scheduler
  <2>1. ASSUME NEW kinds, Claim(kinds) PROVE culture'[p].at <= clock'
    BY <1>6, <2>1 DEF Claim
  <2>2. CASE Building
    BY <1>3, <1>6, <2>2 DEF Building, ReadAnchor, MissAnchor, ApplyHall, ApplySeat
  <2>3. CASE Settling
    BY <1>3, <1>6, <2>3 DEF Settling, ReadSettle, LoseHome, Taken, Bounce
  <2>4. CASE Combat
    BY <1>3, <1>6, <2>4 DEF Combat, ReadAttack, Fight
  <2> QED
    BY <1>8, <2>1, <2>2, <2>3, <2>4 DEF Scheduler
<1> QED
  BY <1>6, <1>7, <1>8 DEF Next, Tick, Crash, Restart

LEMMA HandFate ==
  ASSUME Next, hand' # NoHand
  PROVE  \/ hand' = hand /\ UNCHANGED <<hall, seat>>
         \/ \E m \in Rows : \/ ReadAnchor(m) \/ ReadSettle(m) \/ ReadAttack(m)
                            \/ WriteAnchor(m) \/ MissAnchor(m)
<1>1. CASE Web
  BY <1>1 DEF Web, Ask, Answer, Launch, Drop, Reward, Register, pass, world
<1>2. CASE Building
  BY <1>2 DEF Building, ApplyHall, ApplySeat, Handled
<1>3. CASE Settling
  BY <1>3 DEF Settling, LoseHome, Found, Taken, Bounce, Handled
<1>4. CASE Combat
  BY <1>4 DEF Combat, Fight, Conquer, Handled
<1>5. ASSUME NEW kinds, Claim(kinds) PROVE hand' = hand /\ UNCHANGED <<hall, seat>>
  BY <1>5 DEF Claim, world
<1> QED
  BY <1>1, <1>2, <1>3, <1>4, <1>5 DEF Next, Scheduler, Tick, Crash, Restart, pass, world

\* As long as the row is in hand, time and what was read stand still.
LEMMA HandFrame ==
  ASSUME TypeInv, Next, KeepsUp, NoGiftBetween, hand # NoHand, hand' = hand, UNCHANGED <<hall, seat>>
  PROVE  /\ UNCHANGED <<clock, owner, hall, seat, culture>>
         /\ Same(rows'[hand.row], rows[hand.row])
<1>1. hand.row \in batch /\ hand.row \in Rows /\ Underway(hand.row) /\ Due(hand.row)
  BY DEF TypeInv, TypeOK, Due
<1>2. PICK m \in Rows : m = hand.row
  BY <1>1
<1>3. Underway(m)'
  BY <1>2, TypeStep DEF TypeOK, Due
<1>4. Same(rows'[m], rows[m])
  BY <1>1, <1>2, <1>3, RowFate DEF TypeInv
<1>5. clock' = clock
  BY <1>1 DEF KeepsUp
<1> QED
  BY <1>2, <1>4, <1>5 DEF NoGiftBetween

LEMMA ReadStandsStep ==
  ASSUME TypeInv, Ahead, ReadStands, Next, KeepsUp, NoGiftBetween, AnchorsMade
  PROVE  ReadStands'
<1> SUFFICES ASSUME hand' # NoHand PROVE Stands(rows[hand.row])'
  BY DEF ReadStands
<1>1. CASE hand' = hand /\ UNCHANGED <<hall, seat>>
  <2>1. UNCHANGED <<clock, owner, hall, seat, culture>> /\ Same(rows'[hand.row], rows[hand.row])
    BY <1>1, HandFrame
  <2>2. Stands(rows[hand.row])
    BY <1>1 DEF ReadStands
  <2> QED
    BY <1>1, <2>1, <2>2 DEF Stands, Same, Settled, Rate, FreeSlot, Held, AllowedVillages,
       ExpansionSlots
<1>2. ASSUME NEW m \in Rows, NEW p, NEW q, NEW free, NEW step, Take(m, step, p, free, q),
             m \in batch, UNCHANGED <<clock, owner, hall, seat, culture, rows>>
      PROVE  /\ hand'.row = m /\ rows' = rows /\ hand'.step = step /\ hand'.who = p /\ hand'.loser = q
             /\ (hand.value = Settled(p, clock))' /\ (hand.loss = Settled(q, clock))'
             /\ hand'.free = free /\ (FreeSlot(p, rows[m].due) => FreeSlot(p, clock)')
  <2>1. rows[m].due = clock
    BY <1>2, DueNow
  <2>2. Settled(p, clock)' = Settled(p, clock) /\ Settled(q, clock)' = Settled(q, clock)
        /\ FreeSlot(p, clock)' = FreeSlot(p, clock)
    BY <1>2 DEF Settled, Rate, FreeSlot, Held, AllowedVillages, ExpansionSlots
  <2> QED
    BY <1>2, <2>1, <2>2 DEF Take
<1>3. ASSUME NEW m \in Rows, ReadAnchor(m) PROVE Stands(rows[hand.row])'
  <2>1. PICK p : p = owner[rows[m].to]
    OBVIOUS
  <2>0. PICK free \in BOOLEAN : ~free /\ Take(m, "anchor", p, free, p)
    BY <1>3, <2>1 DEF ReadAnchor
  <2>2. /\ m \in batch /\ rows[m].kind = "hall"
        /\ UNCHANGED <<clock, owner, hall, seat, culture, rows>>
    BY <1>3, <2>1 DEF ReadAnchor, Picks, world
  <2>3. /\ hand'.row = m /\ rows' = rows /\ hand'.step = "anchor" /\ hand'.who = p /\ hand'.loser = p
        /\ (hand.value = Settled(p, clock))' /\ (hand.loss = Settled(p, clock))'
        /\ hand'.free = free
    BY <1>2, <2>0, <2>2
  <2> QED
    BY <2>0, <2>1, <2>2, <2>3 DEF Stands
<1>4. ASSUME NEW m \in Rows, ReadSettle(m) PROVE Stands(rows[hand.row])'
  <2>1. PICK p : p = rows[m].by
    OBVIOUS
  <2>2. PICK free \in BOOLEAN : Take(m, "apply", p, free, p) /\ (free => FreeSlot(p, rows[m].due))
    BY <1>4, <2>1 DEF ReadSettle
  <2>3. /\ m \in batch /\ rows[m].kind = "settle"
        /\ UNCHANGED <<clock, owner, hall, seat, culture, rows>>
    BY <1>4 DEF ReadSettle, Picks, world
  <2>4. /\ hand'.row = m /\ rows' = rows /\ hand'.step = "apply" /\ hand'.who = p /\ hand'.loser = p
        /\ (hand.value = Settled(p, clock))' /\ (hand.loss = Settled(p, clock))'
        /\ hand'.free = free /\ (FreeSlot(p, rows[m].due) => FreeSlot(p, clock)')
    BY <1>2, <2>2, <2>3
  <2>5. hand'.free => FreeSlot(hand.who, clock)'
    BY <2>2, <2>4 DEF FreeSlot, Held, AllowedVillages, ExpansionSlots, Settled, Rate
  <2> QED
    BY <2>1, <2>3, <2>4, <2>5 DEF Stands
<1>5. ASSUME NEW m \in Rows, ReadAttack(m) PROVE Stands(rows[hand.row])'
  <2>1. PICK p, q : p = rows[m].by /\ q = owner[rows[m].to]
    OBVIOUS
  <2>2. PICK free \in BOOLEAN : Take(m, "apply", p, free, q) /\ (free => FreeSlot(p, rows[m].due))
    BY <1>5, <2>1 DEF ReadAttack
  <2>3. /\ m \in batch /\ rows[m].kind = "attack"
        /\ UNCHANGED <<clock, owner, hall, seat, culture, rows>>
    BY <1>5 DEF ReadAttack, Picks, world
  <2>4. /\ hand'.row = m /\ rows' = rows /\ hand'.step = "apply" /\ hand'.who = p /\ hand'.loser = q
        /\ (hand.value = Settled(p, clock))' /\ (hand.loss = Settled(q, clock))'
        /\ hand'.free = free /\ (FreeSlot(p, rows[m].due) => FreeSlot(p, clock)')
    BY <1>2, <2>2, <2>3
  <2>5. hand'.free => FreeSlot(hand.who, clock)'
    BY <2>2, <2>4 DEF FreeSlot, Held, AllowedVillages, ExpansionSlots, Settled, Rate
  <2> QED
    BY <2>1, <2>3, <2>4, <2>5 DEF Stands
<1>6. ASSUME NEW m \in Rows, WriteAnchor(m) PROVE Stands(rows[hand.row])'
  <2>1. hand \in Hand /\ hand.row = m /\ m \in batch /\ rows[m].kind = "hall"
    BY <1>6 DEF WriteAnchor, InHand, TypeInv, TypeOK
  <2>2. /\ hand' = [hand EXCEPT !.step = "apply"] /\ rows' = rows /\ clock' = clock /\ owner' = owner
        /\ culture' = [culture EXCEPT ![hand.who] = [value |-> hand.value, at |-> rows[m].due]]
    BY <1>6 DEF WriteAnchor, world
  <2>3. hand'.who = hand.who /\ hand'.step = "apply" /\ hand'.row = m /\ hand'.free = hand.free
    BY <2>1, <2>2 DEF Hand
  <2>4. culture'[hand.who].at = clock
    BY <2>1, <2>2, DueNow DEF Hand, TypeInv, TypeOK
  <2>5. hand.who = owner[rows[m].to] /\ ~hand.free
    BY <1>6, <2>1 DEF ReadStands, Stands, WriteAnchor, InHand
  <2> QED
    BY <2>1, <2>2, <2>3, <2>4, <2>5 DEF Stands
<1>7. ASSUME NEW m \in Rows, MissAnchor(m) PROVE Stands(rows[hand.row])'
  <2>1. m \in batch /\ rows[m].kind = "hall" /\ UNCHANGED <<clock, owner, culture, rows>>
    BY <1>7 DEF MissAnchor, Picks, InHand, world
  <2>2. /\ hand'.row = m /\ hand'.step = "apply" /\ hand' # hand
        /\ hand'.who = owner[rows[m].to] /\ ~hand'.free
    <3>1. CASE Picks(m, "hall")
      <4>1. PICK p : p = owner[rows[m].to]
        OBVIOUS
      <4>2. PICK free \in BOOLEAN : ~free /\ Take(m, "apply", p, free, p) /\ hand = NoHand
        BY <1>7, <3>1, <4>1 DEF MissAnchor, Picks, InHand
      <4>3. hand' \in Hand
        BY <2>1, <3>1, <4>1, <4>2, ReadersArePlayers, TakesHand DEF TypeInv
      <4> QED
        BY <4>1, <4>2, <4>3, NewNames DEF Take
    <3>2. CASE InHand(m, "hall", "anchor")
      <4>1. hand \in Hand /\ hand.row = m /\ hand.step = "anchor" /\ hand # NoHand
        BY <3>2 DEF InHand, TypeInv, TypeOK
      <4>2. hand.who = owner[rows[m].to] /\ ~hand.free
        BY <2>1, <4>1 DEF ReadStands, Stands
      <4>3. hand' = [hand EXCEPT !.step = "apply"]
        BY <1>7, <4>1 DEF MissAnchor, Picks
      <4> QED
        BY <4>1, <4>2, <4>3 DEF Hand
    <3> QED
      BY <1>7, <3>1, <3>2 DEF MissAnchor
  <2>3. culture'[hand'.who].at = rows[m].due
    BY <2>1, <2>2 DEF AnchorsMade
  <2>4. culture'[hand'.who].at = clock
    BY <2>1, <2>3, DueNow
  <2> QED
    BY <2>1, <2>2, <2>4 DEF Stands
<1> QED
  BY <1>1, <1>3, <1>4, <1>5, <1>6, <1>7, HandFate

-----------------------------------------------------------------------------
(* The lazy culture is exact *)

\* A culture whose rate and time stand still shows the same.
LEMMA ExactKept ==
  ASSUME NEW p \in Players, Settled(p, clock) = earned[p],
         culture'[p] = culture[p], clock' = clock, earned'[p] = earned[p],
         \A v \in Villages : (owner'[v] = p <=> owner[v] = p) /\ (owner[v] = p => hall'[v] = hall[v])
  PROVE  (Settled(p, clock) = earned[p])'
<1>1. Rate(p)' = Rate(p)
  BY DEF Rate
<1>2. Settled(p, clock)' = Settled(p, clock)
  BY <1>1 DEF Settled
<1> QED
  BY <1>2

\* One that has just been settled shows what it showed, whatever the rate is now.
LEMMA ExactSettled ==
  ASSUME NEW p \in Players, clock \in Nat, Settled(p, clock) = earned[p],
         culture'[p].value = Settled(p, clock), culture'[p].at = clock,
         clock' = clock, earned'[p] = earned[p]
  PROVE  (Settled(p, clock) = earned[p])'
<1>1. clock' <= culture'[p].at
  OBVIOUS
<1> QED
  BY <1>1 DEF Settled

LEMMA ExactTick ==
  ASSUME TypeOK, Anchored, NEW p \in Players, Settled(p, clock) = earned[p], Tick
  PROVE  (Settled(p, clock) = earned[p])'
<1> DEFINE r == Rate(p)
           d == clock - culture[p].at
           c == culture[p].value
<1>1. clock \in Nat /\ culture[p].at \in Nat /\ culture[p].at <= clock /\ c \in Nat
  BY RealmAssumption DEF TypeOK, Time, Anchored
<1>2. r \in Nat
  BY Accrues DEF TypeOK
<1>3. d \in Nat /\ clock + 1 - culture[p].at = d + 1
  BY <1>1
<1>4. clock' = clock + 1 /\ culture' = culture /\ earned'[p] = earned[p] + r
  BY <1>1 DEF Tick
<1>5. Rate(p)' = r
  BY DEF Tick, world, Rate
<1>6. Settled(p, clock)' = c + r * (d + 1)
  <2>1. ~(clock + 1 <= culture[p].at)
    BY <1>1
  <2>2. Settled(p, clock)' = IF clock' <= culture'[p].at THEN culture'[p].value
                             ELSE culture'[p].value + Rate(p)' * (clock' - culture'[p].at)
    BY DEF Settled
  <2>3. Settled(p, clock)' = c + r * (clock + 1 - culture[p].at)
    <3>1. ~(clock' <= culture'[p].at)
      BY <1>4, <2>1
    <3>2. Settled(p, clock)' = culture'[p].value + Rate(p)' * (clock' - culture'[p].at)
      BY <2>2, <3>1
    <3> QED
      BY <1>1, <1>2, <1>4, <1>5, <3>2
  <2> HIDE DEF r, d, c
  <2> QED
    BY <1>3, <2>3
<1>7. Settled(p, clock) = c + r * d
  <2>1. CASE culture[p].at < clock
    <3>1. ~(clock <= culture[p].at)
      BY <1>1, <2>1
    <3> QED
      BY <3>1 DEF Settled
  <2>2. CASE culture[p].at = clock
    <3>1. d = 0 /\ clock <= culture[p].at
      BY <1>1, <2>2
    <3>2. r * d = 0
      BY <1>2, <3>1
    <3>3. c + r * d = c
      BY <1>1, <3>2
    <3> QED
      BY <3>1, <3>3 DEF Settled
  <2> QED
    BY <1>1, <2>1, <2>2
<1> HIDE DEF r, d, c
<1>8. c + r * (d + 1) = c + r * d + r
  BY <1>1, <1>2, <1>3
<1> QED
  BY <1>4, <1>6, <1>7, <1>8

LEMMA ExactReward ==
  ASSUME TypeOK, NEW p \in Players, Settled(p, clock) = earned[p], NEW q \in Players, Reward(q)
  PROVE  (Settled(p, clock) = earned[p])'
<1>1. CASE p # q
  BY <1>1, ExactKept DEF Reward, TypeOK, world
<1>2. CASE p = q
  <2> DEFINE r == Rate(p)
             a == culture[p].at
             c == culture[p].value
             x == r * (clock - a)
  <2>1. culture'[p].value = c + Gift /\ culture'[p].at = a /\ earned'[p] = earned[p] + Gift
        /\ clock' = clock
    BY <1>2 DEF Reward, TypeOK
  <2>2. Rate(p)' = r
    BY DEF Reward, Rate, world
  <2>3. c \in Nat /\ Gift \in Nat /\ r \in Nat /\ clock \in Nat /\ a \in Nat
    BY RealmAssumption, Accrues DEF TypeOK, Time
  <2>4. Settled(p, clock) = IF clock <= a THEN c ELSE c + x
    BY DEF Settled
  <2>5. Settled(p, clock)' = IF clock <= a THEN c + Gift ELSE c + Gift + x
    <3>1. Settled(p, clock)' = IF clock' <= culture'[p].at THEN culture'[p].value
                               ELSE culture'[p].value + Rate(p)' * (clock' - culture'[p].at)
      BY DEF Settled
    <3> QED
      BY <2>1, <2>2, <3>1
  <2>6. x \in Int
    BY <2>3
  <2> HIDE DEF r, a, c, x
  <2>7. c + Gift + x = c + x + Gift
    BY <2>3, <2>6
  <2> QED
    BY <2>1, <2>4, <2>5, <2>7
<1> QED
  BY <1>1, <1>2

LEMMA ExactRegister ==
  ASSUME TypeOK, NEW p \in Players, Settled(p, clock) = earned[p],
         NEW q \in Players, NEW v \in Villages, Register(q, v)
  PROVE  (Settled(p, clock) = earned[p])'
<1>1. CASE p # q
  <2>1. p # Nobody
    BY RealmAssumption
  <2> QED
    BY <1>1, <2>1, ExactKept DEF Register, TypeOK
<1>2. CASE p = q
  <2>1. \A w \in Villages : owner[w] # p
    BY <1>2 DEF Register, Held
  <2>2. Rate(p) = 0
    <3>1. [w \in Villages |-> IF owner[w] = p THEN hall[w] ELSE Nobody] = [w \in Villages |-> Nobody]
      BY <2>1
    <3> QED
      BY <3>1, RealmAssumption DEF Rate
  <2>3. culture[p].value = 0 /\ culture[p].at = 0 /\ clock \in Nat
    BY <1>2, RealmAssumption DEF Register, TypeOK, Time
  <2>4. Settled(p, clock) = 0
    BY <2>2, <2>3 DEF Settled
  <2>5. culture'[p].value = 0 /\ culture'[p].at = clock
    BY <1>2, <2>3 DEF Register, TypeOK
  <2> QED
    BY <2>3, <2>4, <2>5, ExactSettled DEF Register
<1> QED
  BY <1>1, <1>2

LEMMA ExactBuilding ==
  ASSUME TypeInv, Ahead, ReadStands, NEW p \in Players, Settled(p, clock) = earned[p], Building
  PROVE  (Settled(p, clock) = earned[p])'
<1> USE DEF TypeInv
<1>1. ASSUME NEW m \in Rows, ReadAnchor(m) PROVE (Settled(p, clock) = earned[p])'
  BY <1>1, ExactKept DEF ReadAnchor, world
<1>5. ASSUME NEW m \in Rows, MissAnchor(m) PROVE (Settled(p, clock) = earned[p])'
  BY <1>5, ExactKept DEF MissAnchor, world
<1>2. ASSUME NEW m \in Rows, WriteAnchor(m) PROVE (Settled(p, clock) = earned[p])'
  <2>1. hand \in Hand /\ hand.row = m /\ m \in batch /\ rows[m].kind = "hall" /\ hand.step = "anchor"
        /\ hand # NoHand
    BY <1>2 DEF WriteAnchor, InHand, TypeOK
  <2>2. rows[m].due = clock /\ clock \in Nat
    BY <2>1, DueNow
  <2>3. /\ culture' = [culture EXCEPT ![hand.who] = [value |-> hand.value, at |-> clock]]
        /\ UNCHANGED <<clock, owner, hall, earned>>
    BY <1>2, <2>2 DEF WriteAnchor, world
  <2>4. CASE p # hand.who
    BY <2>3, <2>4, ExactKept DEF TypeOK
  <2>5. CASE p = hand.who
    <3>1. hand.value = Settled(p, clock)
      BY <2>1, <2>5 DEF ReadStands, Stands
    <3>2. culture'[p] = [value |-> hand.value, at |-> clock]
      BY <2>3, <2>5 DEF TypeOK
    <3> QED
      BY <2>2, <2>3, <3>1, <3>2, ExactSettled
  <2> QED
    BY <2>4, <2>5
<1>3. ASSUME NEW m \in Rows, NEW l \in Levels, ApplyHall(m, l) PROVE (Settled(p, clock) = earned[p])'
  <2>1. hand \in Hand /\ hand.row = m /\ m \in batch /\ rows[m].kind = "hall" /\ hand.step = "apply"
        /\ hand # NoHand
    BY <1>3 DEF ApplyHall, InHand, TypeOK
  <2>2. hand.who = owner[rows[m].to] /\ culture[hand.who].at = clock
    BY <2>1 DEF ReadStands, Stands
  <2>3. hall' = [hall EXCEPT ![rows[m].to] = l] /\ UNCHANGED <<clock, owner, culture, earned>>
    BY <1>3 DEF ApplyHall
  <2>4. CASE p # hand.who
    BY <2>2, <2>3, <2>4, ExactKept DEF TypeOK
  <2>5. CASE p = hand.who
    <3>1. clock \in Nat /\ culture[p].at = clock
      BY <2>1, <2>2, <2>5, DueNow
    <3>2. Settled(p, clock) = culture[p].value
      BY <3>1 DEF Settled
    <3> QED
      BY <2>3, <3>1, <3>2, ExactSettled
  <2> QED
    BY <2>4, <2>5
<1>4. ASSUME NEW m \in Rows, NEW l \in Levels, ApplySeat(m, l) PROVE (Settled(p, clock) = earned[p])'
  BY <1>4, ExactKept DEF ApplySeat
<1> QED
  BY <1>1, <1>2, <1>3, <1>4, <1>5 DEF Building

LEMMA ExactSettling ==
  ASSUME TypeInv, Ahead, ReadStands, NEW p \in Players, Settled(p, clock) = earned[p], Settling
  PROVE  (Settled(p, clock) = earned[p])'
<1> USE DEF TypeInv
<1>1. ASSUME NEW m \in Rows, ReadSettle(m) \/ LoseHome(m) \/ Taken(m) \/ Bounce(m)
      PROVE  (Settled(p, clock) = earned[p])'
  <2>1. UNCHANGED <<clock, owner, hall, culture, earned>>
    BY <1>1 DEF ReadSettle, LoseHome, Taken, Bounce, world
  <2> QED
    BY <2>1, ExactKept
<1>2. ASSUME NEW m \in Rows, Found(m) PROVE (Settled(p, clock) = earned[p])'
  <2>1. hand \in Hand /\ hand.row = m /\ m \in batch /\ rows[m].kind = "settle" /\ hand # NoHand
    BY <1>2 DEF Found, InHand, TypeOK
  <2>2. hand.who = rows[m].by /\ hand.value = Settled(hand.who, clock)
    BY <2>1 DEF ReadStands, Stands
  <2>3. rows[m].due = clock /\ clock \in Nat
    BY <2>1, DueNow
  <2>4. /\ culture' = [culture EXCEPT ![hand.who] = [value |-> hand.value, at |-> clock]]
        /\ owner[rows[m].to] = Nobody /\ owner' = [owner EXCEPT ![rows[m].to] = hand.who]
        /\ UNCHANGED <<clock, hall, earned>>
    BY <1>2, <2>2, <2>3 DEF Found
  <2>5. CASE p # hand.who
    <3>1. p # Nobody
      BY RealmAssumption
    <3> QED
      BY <2>4, <2>5, <3>1, ExactKept DEF TypeOK
  <2>6. CASE p = hand.who
    <3>1. culture'[p] = [value |-> Settled(p, clock), at |-> clock]
      BY <2>2, <2>4, <2>6 DEF TypeOK
    <3> QED
      BY <2>3, <2>4, <3>1, ExactSettled
  <2> QED
    BY <2>5, <2>6
<1> QED
  BY <1>1, <1>2 DEF Settling

LEMMA ExactCombat ==
  ASSUME TypeInv, Ahead, ReadStands, NEW p \in Players, Settled(p, clock) = earned[p], Combat,
         AnchoredRazing
  PROVE  (Settled(p, clock) = earned[p])'
<1> USE DEF TypeInv
<1>1. ASSUME NEW m \in Rows, ReadAttack(m) PROVE (Settled(p, clock) = earned[p])'
  BY <1>1, ExactKept DEF ReadAttack, world
<1>2. ASSUME NEW m \in Rows, NEW h \in Levels, NEW s \in Levels, Fight(m, h, s)
      PROVE  (Settled(p, clock) = earned[p])'
  <2>1. PICK v \in Villages : v = rows[m].to
    BY <1>2, ReadersArePlayers DEF Fight, InHand
  <2>2. /\ hall' = [hall EXCEPT ![v] = h] /\ h \in 0 .. hall[v] /\ m \in batch
        /\ UNCHANGED <<clock, owner, culture, earned>>
    BY <1>2, <2>1 DEF Fight, Razes, InHand
  <2>3. clock \in Nat /\ hall[v] \in Nat /\ h \in Nat
    BY <2>2, DueNow, RealmAssumption DEF TypeOK
  <2>4. CASE p # owner[v] \/ h = hall[v]
    BY <2>2, <2>4, ExactKept DEF TypeOK
  <2>5. CASE p = owner[v] /\ h # hall[v]
    <3>0. hall'[v] = h
      BY <2>2 DEF TypeOK
    <3>1. hall'[v] < hall[v]
      BY <2>2, <2>3, <2>5, <3>0
    <3>2. culture[p].at = clock
      BY <2>2, <2>5, <3>1 DEF AnchoredRazing
    <3>3. Settled(p, clock) = culture[p].value
      BY <2>3, <3>2 DEF Settled
    <3> QED
      BY <2>2, <2>3, <3>2, <3>3, ExactSettled
  <2> QED
    BY <2>4, <2>5
<1>3. ASSUME NEW m \in Rows, NEW h \in Levels, NEW s \in Levels, Conquer(m, h, s)
      PROVE  (Settled(p, clock) = earned[p])'
  <2>1. hand \in Hand /\ hand.row = m /\ m \in batch /\ rows[m].kind = "attack" /\ hand # NoHand
    BY <1>3 DEF Conquer, InHand, TypeOK
  <2>2. hand.value = Settled(hand.who, clock) /\ hand.loss = Settled(hand.loser, clock)
    BY <2>1 DEF ReadStands, Stands
  <2>3. rows[m].due = clock /\ clock \in Nat /\ hand.who \in Players /\ hand.loser \in Players
    BY <2>1, DueNow DEF Hand
  <2>4. /\ culture' = [culture EXCEPT ![hand.loser] = [value |-> hand.loss, at |-> clock],
                                      ![hand.who] = [value |-> hand.value, at |-> clock]]
        /\ owner[rows[m].to] = hand.loser /\ owner' = [owner EXCEPT ![rows[m].to] = hand.who]
        /\ hall' = [hall EXCEPT ![rows[m].to] = h] /\ UNCHANGED <<clock, earned>>
    BY <1>3, <2>3 DEF Conquer, Razes
  <2>5. CASE p # hand.who /\ p # hand.loser
    <3>1. culture'[p] = culture[p]
      BY <2>4, <2>5 DEF TypeOK
    <3>2. \A v \in Villages : (owner'[v] = p <=> owner[v] = p) /\ (owner[v] = p => hall'[v] = hall[v])
      BY <2>4, <2>5 DEF TypeOK
    <3> QED
      BY <2>4, <3>1, <3>2, ExactKept
  <2>6. CASE p = hand.who \/ p = hand.loser
    <3>1. culture'[p] = [value |-> Settled(p, clock), at |-> clock]
      <4>1. CASE p = hand.who
        BY <2>2, <2>3, <2>4, <4>1 DEF TypeOK
      <4>2. CASE p = hand.loser /\ p # hand.who
        BY <2>2, <2>3, <2>4, <4>2 DEF TypeOK
      <4> QED
        BY <2>6, <4>1, <4>2
    <3>2. culture'[p].value = Settled(p, clock) /\ culture'[p].at = clock
      BY <3>1
    <3>3. clock' = clock /\ earned'[p] = earned[p]
      BY <2>4
    <3> QED
      BY <2>3, <3>2, <3>3, ExactSettled
  <2> QED
    BY <2>5, <2>6
<1> QED
  BY <1>1, <1>2, <1>3 DEF Combat

LEMMA ExactStep ==
  ASSUME QuietInv, Next, Quiet
  PROVE  LazyIsExact'
<1> SUFFICES ASSUME NEW p \in Players PROVE (Settled(p, clock) = earned[p])'
  BY DEF LazyIsExact
<1>1. TypeInv /\ TypeOK /\ Ahead /\ Anchored /\ ReadStands /\ AnchoredRazing
      /\ Settled(p, clock) = earned[p]
  BY DEF QuietInv, TypeInv, LazyIsExact, Quiet
<1>2. CASE UNCHANGED <<clock, owner, hall, culture, earned>>
  BY <1>1, <1>2, ExactKept
<1>3. CASE Web
  <2>1. ASSUME NEW q \in Players, Reward(q) PROVE (Settled(p, clock) = earned[p])'
    BY <1>1, <2>1, ExactReward
  <2>2. ASSUME NEW q \in Players, NEW v \in Villages, Register(q, v)
        PROVE  (Settled(p, clock) = earned[p])'
    BY <1>1, <2>2, ExactRegister
  <2> QED
    BY <1>2, <1>3, <2>1, <2>2 DEF Web, Ask, Answer, Launch, Drop, world
<1>4. CASE Scheduler
  <2>1. ASSUME NEW kinds, Claim(kinds) PROVE (Settled(p, clock) = earned[p])'
    BY <1>2, <2>1 DEF Claim, world
  <2> QED
    BY <1>1, <1>4, <2>1, ExactBuilding, ExactSettling, ExactCombat DEF Scheduler
<1>5. CASE Tick
  BY <1>1, <1>5, ExactTick
<1>6. CASE Crash \/ Restart
  BY <1>2, <1>6 DEF Crash, Restart, world
<1> QED
  BY <1>3, <1>4, <1>5, <1>6 DEF Next

LEMMA QuietInit == Init => QuietInv
<1> SUFFICES ASSUME Init PROVE QuietInv
  OBVIOUS
<1>1. TypeInv
  BY TypeInvInit
<1>2. ASSUME NEW p \in Players PROVE Settled(p, clock) = earned[p] /\ culture[p].at <= clock
  BY <1>2 DEF Init, Settled
<1> QED
  BY <1>1, <1>2 DEF Init, QuietInv, Ahead, Anchored, ReadStands, LazyIsExact, Underway

LEMMA QuietStep == QuietInv /\ [Next /\ Quiet]_vars => QuietInv'
<1> SUFFICES ASSUME QuietInv, [Next /\ Quiet]_vars PROVE QuietInv'
  OBVIOUS
<1>1. CASE Next /\ Quiet
  <2>1. TypeInv /\ Ahead /\ Anchored /\ ReadStands /\ KeepsUp /\ NoGiftBetween /\ AnchorsMade
    BY <1>1 DEF QuietInv, Quiet
  <2>2. TypeInv'
    BY <1>1, <2>1, TypeInvStep
  <2>3. Ahead' /\ Anchored' /\ ReadStands'
    BY <1>1, <2>1, AheadStep, AnchoredStep, ReadStandsStep
  <2>4. LazyIsExact'
    BY <1>1, ExactStep
  <2> QED
    BY <2>2, <2>3, <2>4 DEF QuietInv
<1>2. CASE UNCHANGED vars
  <2>1. TypeInv'
    BY TypeInvStep, <1>2 DEF QuietInv
  <2>2. Ahead' /\ Anchored'
    BY <1>2 DEF vars, QuietInv, Ahead, Anchored, Underway
  <2>3. ReadStands'
    BY <1>2 DEF vars, QuietInv, ReadStands, Stands, Settled, Rate, FreeSlot, Held, AllowedVillages,
       ExpansionSlots
  <2>4. LazyIsExact'
    BY <1>2 DEF vars, QuietInv, LazyIsExact, Settled, Rate
  <2> QED
    BY <2>1, <2>2, <2>3, <2>4 DEF QuietInv
<1> QED
  BY <1>1, <1>2

THEOREM QuietRealm == QuietSpec => []QuietInv
BY QuietInit, QuietStep, PTL DEF QuietSpec

\* Whatever halls are built, razed, founded beside and conquered, and however often the
\* accumulator is settled, a culture read now is what counting every second gives.
THEOREM CultureExact == QuietSpec => []LazyIsExact
<1>1. QuietInv => LazyIsExact
  BY DEF QuietInv
<1> QED
  BY <1>1, QuietRealm, PTL

-----------------------------------------------------------------------------
(* Nobody outgrows his slots *)

\* Only a newcomer, a founding and a conquest change what is held.
LEMMA HoldingsFate ==
  ASSUME Next
  PROVE  \/ owner' = owner
         \/ \E q \in Players, v \in Villages : Register(q, v)
         \/ \E m \in Rows : Found(m) \/ \E h, s \in Levels : Conquer(m, h, s)
<1>1. CASE Web
  BY <1>1 DEF Web, Ask, Answer, Launch, Drop, Reward, world
<1>2. CASE Building
  BY <1>2 DEF Building, ReadAnchor, WriteAnchor, MissAnchor, ApplyHall, ApplySeat, world
<1>3. CASE Settling
  BY <1>3 DEF Settling, ReadSettle, LoseHome, Taken, Bounce, world
<1>4. CASE Combat
  BY <1>4 DEF Combat, ReadAttack, Fight, world
<1>5. ASSUME NEW kinds, Claim(kinds) PROVE owner' = owner
  BY <1>5 DEF Claim, world
<1> QED
  BY <1>1, <1>2, <1>3, <1>4, <1>5 DEF Next, Scheduler, Tick, Crash, Restart, world

\* Who gains the village of the row in hand had a slot for it.
LEMMA OneMore ==
  ASSUME TypeOK, NEW p \in Players, NEW v \in Villages, FreeSlot(p, clock), owner[v] # p,
         owner' = [owner EXCEPT ![v] = p]
  PROVE  Cardinality(Held(p)') <= AllowedVillages(p, Settled(p, clock))
<1>1. Held(p)' = Held(p) \cup {v} /\ v \notin Held(p)
  BY DEF Held, TypeOK
<1>2. IsFiniteSet(Held(p))
  <2>1. Held(p) \subseteq Villages
    BY DEF Held
  <2> QED
    BY <2>1, RealmAssumption, FS_Subset
<1>3. Cardinality(Held(p)') = Cardinality(Held(p)) + 1
  BY <1>1, <1>2, FS_AddElement
<1> QED
  BY <1>3 DEF FreeSlot

\* Two groups of settlers, or settlers and a conquest, never share the last slot.
THEOREM GrowthWithinSlots == QuietSpec => GrowsWithinSlots
<1> DEFINE Fits(p) == LET now == Held(p)' IN
      now # Held(p) /\ Held(p) \subseteq now /\ Held(p) # {} =>
        Cardinality(now) <= AllowedVillages(p, Settled(p, clock))
<1>1. ASSUME QuietInv, Next, NEW p \in Players PROVE Fits(p)
  <2> SUFFICES ASSUME Held(p)' # Held(p), Held(p) \subseteq Held(p)', Held(p) # {}
               PROVE  Cardinality(Held(p)') <= AllowedVillages(p, Settled(p, clock))
    OBVIOUS
  <2>1. TypeOK /\ ReadStands /\ p # Nobody
    BY <1>1, RealmAssumption DEF QuietInv, TypeInv
  <2>2. owner' # owner
    BY DEF Held
  <2>3. ASSUME NEW q \in Players, NEW v \in Villages, Register(q, v) PROVE FALSE
    <3>1. p # q
      BY <2>3 DEF Register
    <3> QED
      BY <2>1, <2>3, <3>1 DEF Register, Held, TypeOK
  <2>4. ASSUME NEW m \in Rows, Found(m)
        PROVE  Cardinality(Held(p)') <= AllowedVillages(p, Settled(p, clock))
    <3>1. /\ m \in batch /\ hand # NoHand /\ hand.row = m /\ hand.free /\ rows[m].kind = "settle"
          /\ owner[rows[m].to] = Nobody /\ owner' = [owner EXCEPT ![rows[m].to] = rows[m].by]
      BY <2>4 DEF Found, InHand
    <3>2. PICK v \in Villages : v = rows[m].to
      BY <1>1, <3>1, ReadersArePlayers DEF QuietInv
    <3>3. p = rows[m].by
      BY <2>1, <3>1, <3>2 DEF Held, TypeOK
    <3>4. FreeSlot(p, clock)
      BY <2>1, <3>1, <3>3 DEF ReadStands, Stands
    <3>5. owner[v] # p /\ owner' = [owner EXCEPT ![v] = p]
      BY <2>1, <3>1, <3>2, <3>3
    <3> QED
      BY <2>1, <3>4, <3>5, OneMore
  <2>5. ASSUME NEW m \in Rows, NEW h, NEW s, Conquer(m, h, s)
        PROVE  Cardinality(Held(p)') <= AllowedVillages(p, Settled(p, clock))
    <3>1. /\ m \in batch /\ hand # NoHand /\ hand.row = m /\ hand.free
          /\ owner' = [owner EXCEPT ![rows[m].to] = hand.who]
      BY <2>5 DEF Conquer, InHand
    <3>2. PICK v \in Villages : v = rows[m].to
      BY <1>1, <3>1, ReadersArePlayers DEF QuietInv
    <3>3. p = hand.who /\ owner[v] # p
      BY <2>1, <3>1, <3>2 DEF Held, TypeOK
    <3>4. FreeSlot(p, clock)
      BY <2>1, <3>1, <3>3 DEF ReadStands, Stands
    <3> QED
      BY <2>1, <3>1, <3>2, <3>3, <3>4, OneMore
  <2> QED
    BY <1>1, <2>2, <2>3, <2>4, <2>5, HoldingsFate
<1>2. QuietInv /\ [Next /\ Quiet]_vars => [\A p \in Players : Fits(p)]_vars
  BY <1>1
<1> QED
  BY <1>2, QuietRealm, PTL DEF QuietSpec, GrowsWithinSlots
=============================================================================
