-------------------------------- MODULE Oases --------------------------------
(***************************************************************************)
(* Oases: tiles that animals guard until a village clears them, and that an *)
(* Outpost lets it occupy.  Requests send parties out, to attack or to       *)
(* reinforce, and recall what stands there; every instance's scheduler       *)
(* claims the parties that have arrived, reads what a battle needs in        *)
(* several statements, and replaces the garrison in one transaction; cleared *)
(* oases regrow.  Who wins and who falls is open; builds, conquests and the  *)
(* inactivity sweep appear as what they do to a village's part in this.      *)
(***************************************************************************)
EXTENDS Integers, FiniteSets, Functions

CONSTANTS
  Homes, Springs,                   \* villages; tiles that hold an oasis
  Parties, Instances,               \* rows of troop_movements; processes that run a scheduler
  Seeded, RegrowStep, RegrowDays,   \* animals at full strength; how many come back at a time, and when
  Walk,                             \* days between a village and an oasis
  FirstMen, FirstOutpost,           \* men raised and Outposts at the start
  FirstFields,                      \* who may hold the oases at the start, and with how many men
  Capacities,                       \* how many oases an Outpost may allow
  MaxDay, MaxSent, MaxMishaps,      \* bounds
  Nowhere, NoParty, NoAsk, Resting

ASSUME OasisAssumption ==
  /\ Seeded \in Nat \ {0} /\ RegrowStep \in Nat \ {0} /\ RegrowDays \in Nat \ {0} /\ Walk \in Nat \ {0}
  /\ FirstMen \in [Homes -> Nat] /\ Capacities \subseteq Nat /\ FirstOutpost \in [Homes -> Capacities]
  /\ FirstFields \subseteq [Springs -> [owner : Homes \cup {Nowhere}, men : Nat]]
  /\ \A f \in FirstFields :
       /\ \A s \in Springs : f[s].owner = Nowhere => f[s].men = 0
       /\ \A h \in Homes : SumFunction([s \in {x \in Springs : f[x].owner = h} |-> f[s].men]) <= FirstMen[h]
  /\ {MaxDay, MaxSent, MaxMishaps} \subseteq Nat
  /\ Nowhere \notin Homes
  /\ IsFiniteSet(Homes) /\ IsFiniteSet(Springs) /\ IsFiniteSet(Parties)

Never == -1
Days == 0 .. MaxDay + Walk + RegrowDays
Strength == [men : Nat, beasts : Nat]
Oasis == [made : BOOLEAN, owner : Homes \cup {Nowhere}, regrow : Days \cup {Never}, force : Strength]
Party == [kind : {"attack", "reinforce", "return"}, home : Homes, to : Springs,
          force : Strength, due : Days, claimed : BOOLEAN]
Reading == {"fight", "join", "regrow"}
Handful == [step : Reading, row : Parties \cup {NoParty}, of : Party \cup {NoParty}, at : Springs,
            owner : Homes \cup {Nowhere}, force : Strength, room : BOOLEAN, was : Days \cup {Never}]

ASSUME NoPartyIsNew == NoParty \notin Parties \cup Party /\ NoAsk \notin Party /\ Resting \notin Handful

VARIABLES
  day,
  standing,  \* villages that exist
  outpost,   \* village -> oases its Outpost allows it
  homes,     \* village -> its garrison, strays from an oasis included
  oasis,     \* tile -> the row of oases with its oasis_garrison; made: the row exists
  parties,   \* row -> a party under way
  ask,       \* a request that has made its checks
  batches,   \* instance -> what its pass has claimed and not handled
  hands,     \* instance -> what it is working on, with what it has read
  running,   \* instances that are up
  lost, sent, mishaps

fieldVars == <<day, standing, outpost, homes, oasis, parties, ask, batches, hands, running, lost, sent, mishaps>>
places == <<standing, outpost>>
count == <<sent, mishaps>>

None == [men |-> 0, beasts |-> 0]
Both(f, g) == [men |-> f.men + g.men, beasts |-> f.beasts + g.beasts]
Men(n) == [men |-> n, beasts |-> 0]

\* oasis_defenders: what is stored, or the animals the seed puts there.
Defenders(s) == IF oasis[s].made THEN oasis[s].force ELSE [men |-> 0, beasts |-> Seeded]
Occupied(h) == {s \in Springs : oasis[s].owner = h}

Claimed(p) == IF p = NoParty THEN p ELSE [p EXCEPT !.claimed = TRUE]
Spare(m) == parties[m] = NoParty /\ \A i \in Instances : batches[i][m] = NoParty

-----------------------------------------------------------------------------
(* Web requests *)

\* order_oasis_attack, order_oasis_reinforce and order_oasis_recall check the oasis and the troops.
AskAttack(h, s, n) == oasis[s].owner # h /\ n \in 1 .. homes[h].men
AskReinforce(h, s, n) == oasis[s].owner = h /\ n \in 1 .. homes[h].men
AskRecall(h, s, n) == oasis[s].owner = h /\ Defenders(s) # None /\ n = 0

Asks(kind, h, s, n) ==
  /\ ask = NoAsk /\ sent < MaxSent /\ h \in standing
  /\ \/ kind = "attack" /\ AskAttack(h, s, n)
     \/ kind = "reinforce" /\ AskReinforce(h, s, n)
     \/ kind = "return" /\ AskRecall(h, s, n)
  /\ ask' = [kind |-> kind, home |-> h, to |-> s, force |-> Men(n), due |-> day + Walk, claimed |-> FALSE]
  /\ sent' = sent + 1
  /\ UNCHANGED <<day, places, homes, oasis, parties, batches, hands, running, lost, mishaps>>

\* start_oasis_attack, start_oasis_reinforce: the garrison is debited if it still has the men.
SendOut(m) ==
  /\ ask # NoAsk /\ ask.kind # "return" /\ Spare(m)
  /\ homes[ask.home].men >= ask.force.men
  /\ homes' = [homes EXCEPT ![ask.home].men = @ - ask.force.men]
  /\ parties' = [parties EXCEPT ![m] = ask] /\ ask' = NoAsk
  /\ UNCHANGED <<day, places, oasis, batches, hands, running, lost, count>>

\* start_oasis_recall: whatever stands there by now is taken along, whoever owns the oasis.
Recall(m) ==
  /\ ask # NoAsk /\ ask.kind = "return" /\ Spare(m)
  /\ oasis[ask.to].force # None /\ ask.home \in standing
  /\ parties' = [parties EXCEPT ![m] = [ask EXCEPT !.force = oasis[ask.to].force]]
  /\ oasis' = [oasis EXCEPT ![ask.to].force = None]
  /\ ask' = NoAsk
  /\ UNCHANGED <<day, places, homes, batches, hands, running, lost, count>>

\* A conflict, or the handler is dropped.
Refused ==
  /\ ask # NoAsk /\ ask' = NoAsk
  /\ UNCHANGED <<day, places, homes, oasis, parties, batches, hands, running, lost, count>>

-----------------------------------------------------------------------------
(* The scheduler *)

Idles(i) == i \in running /\ hands[i] = Resting
Empty(i) == \A m \in Parties : batches[i][m] = NoParty
Puts(i, m, hand) == /\ hands' = [hands EXCEPT ![i] = hand]
                    /\ batches' = [batches EXCEPT ![i][m] = NoParty]
Rests(i) == hands' = [hands EXCEPT ![i] = Resting] /\ UNCHANGED batches
Doing(i, step) == hands[i] # Resting /\ hands[i].step = step

\* claim_due_oasis_attacks, claim_due_oasis_reinforcements, claim_due_movements.
ClaimParties(i, kind) ==
  LET S == {m \in Parties : parties[m] # NoParty /\ parties[m].kind = kind
                            /\ parties[m].due <= day /\ ~parties[m].claimed} IN
  /\ Idles(i) /\ Empty(i) /\ S # {}
  /\ parties' = [m \in Parties |-> IF m \in S THEN Claimed(parties[m]) ELSE parties[m]]
  /\ batches' = [batches EXCEPT ![i] = [m \in Parties |-> IF m \in S THEN Claimed(parties[m]) ELSE NoParty]]
  /\ UNCHANGED <<day, places, homes, oasis, ask, hands, running, lost, count>>

Picks(i, m, kind) == Idles(i) /\ batches[i][m] # NoParty /\ batches[i][m].kind = kind

\* resolve_oasis_one reads the attacker's village with its Outpost, who owns the oasis, who defends it
\* and how many oases the village holds, in statements of their own.
ReadBattle(i, m) ==
  LET p == batches[i][m] IN
  /\ Picks(i, m, "attack") /\ p.home \in standing
  /\ Puts(i, m, [step |-> "fight", row |-> m, of |-> p, at |-> p.to,
                   owner |-> oasis[p.to].owner, force |-> Defenders(p.to),
                   room |-> Cardinality(Occupied(p.home)) < outpost[p.home], was |-> Never])
  /\ UNCHANGED <<day, places, homes, oasis, parties, ask, running, lost, count>>

\* A row that is done; a survivor's or a bounced party's way home takes it over, or another if it is taken.
Done(i) == IF parties[hands[i].row] = hands[i].of THEN {hands[i].row} ELSE {}
Back(i, force) ==
  IF force = None THEN parties' = [m \in Parties |-> IF m \in Done(i) THEN NoParty ELSE parties[m]]
  ELSE \E b \in Parties : (b \in Done(i) \/ (Done(i) = {} /\ Spare(b)))
         /\ parties' = [parties EXCEPT ![b] = [hands[i].of EXCEPT !.kind = "return", !.force = force,
                                                                  !.due = @ + Walk, !.claimed = FALSE]]

\* Mutant: a victor occupies in any case.
WinnerAlways(i) == hands[i].of.home

\* A victor occupies while his Outpost has room, else he frees what somebody holds.
Winner(i) == IF hands[i].room THEN hands[i].of.home
             ELSE IF hands[i].owner # Nowhere THEN Nowhere ELSE oasis[hands[i].at].owner

\* Mutant: a cleared oasis is left to itself.
RegrowsNever(h, won) == Never

\* Unless the victor occupied it, an oasis regrows after a battle.
RegrowsAt(h, won) == IF won /\ h.room THEN Never ELSE h.of.due + RegrowDays

\* apply_oasis_battle: the garrison replaced by what is left of the one that was read, the owner and
\* the regrowth set, the survivors sent home.
Fight(i, won, left, back) ==
  LET h == hands[i]  owns == IF won THEN Winner(i) ELSE oasis[h.at].owner IN
  /\ Doing(i, "fight") /\ h.of.home \in standing
  /\ left.men <= h.force.men /\ left.beasts <= h.force.beasts /\ (won => left = None)
  /\ back \in 0 .. h.of.force.men /\ (~won => back = 0)
  /\ oasis' = [oasis EXCEPT ![h.at] =
                             [made |-> TRUE, owner |-> owns, force |-> left, regrow |-> RegrowsAt(h, won)]]
  /\ Back(i, Men(back))
  /\ lost' = lost + h.force.men - left.men + h.of.force.men - back
  /\ Rests(i)
  /\ UNCHANGED <<day, places, homes, ask, running, count>>

\* apply_one_reinforce reads who owns the oasis ...
ReadStill(i, m) ==
  LET p == batches[i][m] IN
  /\ Picks(i, m, "reinforce")
  /\ Puts(i, m, [step |-> "join", row |-> m, of |-> p, at |-> p.to,
                   owner |-> oasis[p.to].owner, force |-> None, room |-> FALSE, was |-> Never])
  /\ UNCHANGED <<day, places, homes, oasis, parties, ask, running, lost, count>>

\* ... and apply_oasis_reinforce stations the party, or sends it home.
Join(i) ==
  LET h == hands[i] IN
  /\ Doing(i, "join") /\ h.owner = h.of.home
  /\ oasis' = [oasis EXCEPT ![h.at].force = Both(@, h.of.force)]
  /\ Back(i, None) /\ Rests(i)
  /\ UNCHANGED <<day, places, homes, ask, running, lost, count>>

BounceHome(i) ==
  LET h == hands[i] IN
  /\ Doing(i, "join") /\ h.owner # h.of.home /\ h.of.home \in standing
  /\ Back(i, h.of.force) /\ Rests(i)
  /\ UNCHANGED <<day, places, homes, oasis, ask, running, lost, count>>

\* apply_movement of a return.
Rejoin(i, m) ==
  LET p == batches[i][m] IN
  /\ Picks(i, m, "return") /\ p.home \in standing
  /\ homes' = [homes EXCEPT ![p.home] = Both(@, p.force)]
  /\ parties' = [parties EXCEPT ![m] = IF @ = p THEN NoParty ELSE @]
  /\ Puts(i, m, Resting)
  /\ UNCHANGED <<day, places, oasis, ask, running, lost, count>>

\* The village is gone: the read finds nothing, or a foreign key refuses the rows.
GivenUp(i, m) ==
  /\ \/ /\ Idles(i) /\ batches[i][m] # NoParty /\ batches[i][m].kind # "reinforce"
        /\ batches[i][m].home \notin standing
        /\ Puts(i, m, Resting)
     \/ /\ hands[i] # Resting /\ hands[i].row = m /\ hands[i].of.home \notin standing
        /\ hands[i].step = "fight" \/ (hands[i].step = "join" /\ hands[i].owner # hands[i].of.home)
        /\ Rests(i)
  /\ UNCHANGED <<day, places, homes, oasis, parties, ask, running, lost, count>>

\* claim_due_oasis_regrows: a plain read, which claims nothing.
ReadRegrow(i, s) ==
  /\ Idles(i) /\ Empty(i) /\ oasis[s].made /\ oasis[s].owner = Nowhere
  /\ oasis[s].regrow # Never /\ oasis[s].regrow <= day
  /\ hands' = [hands EXCEPT ![i] =
                   [step |-> "regrow", row |-> NoParty, of |-> NoParty, at |-> s, owner |-> Nowhere,
                    force |-> oasis[s].force, room |-> FALSE, was |-> oasis[s].regrow]]
  /\ UNCHANGED <<day, places, homes, oasis, parties, ask, batches, running, lost, count>>

\* regrow_step: one step nearer to the seeded strength, of one kind.
Regrown(f) == LET n == f.beasts + RegrowStep IN [men |-> 0, beasts |-> IF n < Seeded THEN n ELSE Seeded]

\* Mutant: the oasis may have been occupied since.
RegrowAnyway(i) ==
  LET h == hands[i]  o == oasis[h.at] IN
  /\ Doing(i, "regrow")
  /\ oasis' = [oasis EXCEPT ![h.at].force = Regrown(h.force),
                 ![h.at].regrow = IF Regrown(h.force).beasts = Seeded THEN Never ELSE h.was + RegrowDays]
  /\ Rests(i)
  /\ UNCHANGED <<day, places, homes, parties, ask, running, lost, count>>

\* apply_oasis_regrow, if the oasis is still nobody's and its instant the one that was read.
Regrow(i) ==
  LET h == hands[i]  o == oasis[h.at] IN
  /\ Doing(i, "regrow")
  /\ IF o.owner = Nowhere /\ o.regrow = h.was
     THEN oasis' = [oasis EXCEPT ![h.at].force = Regrown(h.force),
                      ![h.at].regrow = IF Regrown(h.force).beasts = Seeded THEN Never ELSE h.was + RegrowDays]
     ELSE UNCHANGED oasis
  /\ Rests(i)
  /\ UNCHANGED <<day, places, homes, parties, ask, running, lost, count>>

-----------------------------------------------------------------------------
(* What else the scheduler does to a village *)

\* A build, a demolition or a catapult changes the Outpost.
Rebuild(i, h, c) ==
  /\ Idles(i) /\ Empty(i) /\ h \in standing /\ c # outpost[h]
  /\ outpost' = [outpost EXCEPT ![h] = c]
  /\ UNCHANGED <<day, standing, homes, oasis, parties, ask, batches, hands, running, lost, sent>>

MenOf(S) == SumFunction([m \in S |-> parties[m].force.men])

\* A conquest empties the garrison and ends what is in transit from it; the oases stay with the village.
Conquest(i, h) ==
  LET S == {m \in Parties : parties[m] # NoParty /\ parties[m].home = h /\ ~parties[m].claimed} IN
  /\ Idles(i) /\ Empty(i) /\ h \in standing
  /\ homes' = [homes EXCEPT ![h] = None]
  /\ parties' = [m \in Parties |-> IF m \in S THEN NoParty ELSE parties[m]]
  /\ lost' = lost + homes[h].men + MenOf(S)
  /\ UNCHANGED <<day, places, oasis, ask, batches, hands, running, sent>>

\* The inactivity sweep deletes a village: its movements go with it, its oases are nobody's, and what
\* stands on them, and when they regrow, is left as it was.
Sweep(i, h) ==
  LET S == {m \in Parties : parties[m] # NoParty /\ parties[m].home = h} IN
  /\ Idles(i) /\ Empty(i) /\ h \in standing
  /\ standing' = standing \ {h}
  /\ homes' = [homes EXCEPT ![h] = None]
  /\ parties' = [m \in Parties |-> IF m \in S THEN NoParty ELSE parties[m]]
  /\ oasis' = [s \in Springs |-> IF oasis[s].owner = h THEN [oasis[s] EXCEPT !.owner = Nowhere] ELSE oasis[s]]
  /\ lost' = lost + homes[h].men + MenOf(S)
  /\ UNCHANGED <<day, outpost, ask, batches, hands, running, sent>>

-----------------------------------------------------------------------------
(* Time, stops and starts *)

NextDay == /\ day < MaxDay /\ day' = day + 1
           /\ UNCHANGED <<places, homes, oasis, parties, ask, batches, hands, running, lost, count>>

\* An instance stops where it is, and with it a request it was answering.
Stop(i) ==
  /\ i \in running /\ mishaps < MaxMishaps
  /\ running' = running \ {i} /\ mishaps' = mishaps + 1
  /\ hands' = [hands EXCEPT ![i] = Resting]
  /\ batches' = [batches EXCEPT ![i] = [m \in Parties |-> NoParty]]
  /\ ask' \in IF running = {i} THEN {NoAsk} ELSE {ask, NoAsk}
  /\ UNCHANGED <<day, places, homes, oasis, parties, lost, sent>>

\* requeue_orphaned_movements, whoever has claimed them.
Start(i) ==
  /\ i \notin running /\ running' = running \cup {i}
  /\ parties' = [m \in Parties |-> IF parties[m] = NoParty THEN NoParty ELSE [parties[m] EXCEPT !.claimed = FALSE]]
  /\ UNCHANGED <<day, places, homes, oasis, ask, batches, hands, lost, count>>

-----------------------------------------------------------------------------
FieldInit ==
  /\ day = 0 /\ standing = Homes /\ outpost = FirstOutpost
  /\ \E f \in FirstFields :
       /\ oasis = [s \in Springs |-> [made |-> f[s].owner # Nowhere, owner |-> f[s].owner,
                                     regrow |-> Never, force |-> Men(f[s].men)]]
       /\ homes = [h \in Homes |-> Men(FirstMen[h]
                     - SumFunction([s \in {x \in Springs : f[x].owner = h} |-> f[s].men]))]
  /\ parties = [m \in Parties |-> NoParty] /\ ask = NoAsk
  /\ batches = [i \in Instances |-> [m \in Parties |-> NoParty]]
  /\ hands = [i \in Instances |-> Resting]
  /\ running = Instances /\ lost = 0 /\ sent = 0 /\ mishaps = 0

Answers == running # {} /\ (Refused \/ \E m \in Parties : SendOut(m) \/ Recall(m))

Requests == running # {} /\ \E kind \in {"attack", "reinforce", "return"}, h \in Homes, s \in Springs,
                               n \in 0 .. SumFunction(FirstMen) : Asks(kind, h, s, n)

Forces(i) == {f \in [men : 0 .. hands[i].force.men, beasts : 0 .. hands[i].force.beasts] : TRUE}

Fights(i) == Doing(i, "fight") /\ \E won \in BOOLEAN, left \in Forces(i), back \in 0 .. hands[i].of.force.men :
                                 Fight(i, won, left, back)

Works(i) ==
  \/ \E kind \in {"attack", "reinforce", "return"} : ClaimParties(i, kind)
  \/ \E m \in Parties : ReadBattle(i, m) \/ ReadStill(i, m) \/ Rejoin(i, m) \/ GivenUp(i, m)
  \/ Fights(i) \/ Join(i) \/ BounceHome(i)
  \/ \E s \in Springs : ReadRegrow(i, s)
  \/ Regrow(i)

Elsewhere == /\ mishaps < MaxMishaps /\ mishaps' = mishaps + 1
             /\ \E i \in Instances, h \in Homes :
                  Conquest(i, h) \/ Sweep(i, h) \/ \E c \in Capacities : Rebuild(i, h, c)

FieldNext ==
  \/ Requests \/ Answers \/ (\E i \in Instances : Works(i) \/ Stop(i) \/ Start(i))
  \/ Elsewhere \/ NextDay

FieldSpec == FieldInit /\ [][FieldNext]_fieldVars

\* A quiet history: a request is answered the day it is made; from the time a battle or a reinforcement
\* has read an oasis until it is written, nobody else reads it for another or changes it, nor the
\* Outpost and the oases of the village that sent the party; an oasis does not change hands under a
\* recall that has made its checks; an instance starts while no other holds what it requeues; and no
\* village is swept that holds an oasis.
AnswersToday == day' # day => ask = NoAsk
Holds(i) == Doing(i, "fight") \/ Doing(i, "join")
ReadAlone == \A i, j \in Instances : i # j /\ Holds(i)' /\ Holds(j)' =>
  hands'[i].at # hands'[j].at /\ hands'[i].of.home # hands'[j].of.home
WriteAlone == \A i \in Instances : Holds(i) /\ Holds(i)' => LET h == hands[i].of.home IN
  oasis'[hands[i].at] = oasis[hands[i].at] /\ outpost'[h] = outpost[h] /\ Occupied(h)' = Occupied(h)
RecallsOwn == ask # NoAsk /\ ask.kind = "return" /\ ask' = ask => oasis'[ask.to].owner = oasis[ask.to].owner
StartsAlone == running' \ running # {} => \A i \in Instances : hands[i] = Resting /\ Empty(i)
SweptBare == \A h \in standing \ standing' : Occupied(h) = {}
FieldQuiet == AnswersToday /\ ReadAlone /\ WriteAlone /\ RecallsOwn /\ StartsAlone /\ SweptBare

\* Schedulers loop for ever, requests come to an end, a stopped instance is started again, days pass.
FieldFair == /\ \A i \in Instances : WF_fieldVars(Works(i) /\ FieldQuiet) /\ WF_fieldVars(Start(i) /\ FieldQuiet)
             /\ WF_fieldVars(Answers /\ FieldQuiet) /\ WF_fieldVars(NextDay /\ FieldQuiet)

FieldQuietSpec == FieldInit /\ [][FieldNext /\ FieldQuiet]_fieldVars /\ FieldFair

-----------------------------------------------------------------------------
(* Properties *)

\* Every variable has its type.
FieldTypeOK ==
  /\ day \in 0 .. MaxDay /\ standing \subseteq Homes /\ outpost \in [Homes -> Capacities]
  /\ homes \in [Homes -> Strength] /\ oasis \in [Springs -> Oasis]
  /\ parties \in [Parties -> Party \cup {NoParty}] /\ ask \in Party \cup {NoAsk}
  /\ batches \in [Instances -> [Parties -> Party \cup {NoParty}]]
  /\ hands \in [Instances -> Handful \cup {Resting}]
  /\ running \subseteq Instances /\ lost \in Nat /\ sent \in 0 .. MaxSent /\ mishaps \in 0 .. MaxMishaps

MenAccounted ==
  SumFunction([h \in Homes |-> homes[h].men])
    + MenOf({m \in Parties : parties[m] # NoParty})
    + SumFunction([s \in Springs |-> oasis[s].force.men]) + lost
  = SumFunction(FirstMen)
OwnGarrison == \A s \in Springs :
  IF oasis[s].owner = Nowhere THEN oasis[s].force.men = 0 ELSE oasis[s].force.beasts = 0
Tame == /\ \A h \in Homes : homes[h].beasts = 0
        /\ \A m \in Parties : parties[m] # NoParty => parties[m].force.beasts = 0

\* Every man is at home, under way, on an oasis or among the losses that were reported, none twice
\* and none gone without a trace (012 AC10); an oasis somebody holds is defended by men alone and
\* one that nobody holds by animals alone, and no animal ever leaves its oasis (012 AC1, AC3, AC7).
FieldAccounted == MenAccounted /\ OwnGarrison /\ Tame

Weak(s) == oasis[s].made /\ oasis[s].owner = Nowhere /\ oasis[s].force.beasts < Seeded
RegrownInTheEnd == \A s \in Springs : Weak(s) ~> ~Weak(s) \/ oasis[s].regrow > MaxDay
PartiesReturn == \A m \in Parties : parties[m] # NoParty ~> (parties[m] = NoParty \/ parties[m].due > MaxDay)

\* An oasis that was cleared and that nobody holds gets its animals back (012 AC9), and a party
\* arrives and whoever survives comes home, across stops and starts of the instances (012 AC10).
FieldSettles == RegrownInTheEnd /\ PartiesReturn

\* No village takes an oasis its Outpost has no room for (012 AC6).
WithinOutpost == [][\A s \in Springs : LET h == oasis'[s].owner IN
  h # oasis[s].owner /\ h # Nowhere => Cardinality(Occupied(h)) < outpost[h]]_fieldVars
=============================================================================
