------------------------------- MODULE Troops -------------------------------
(***************************************************************************)
(* Where the soldiers are: garrisons (village_units), groups stationed at    *)
(* other villages (reinforcements) and movements on the map.  Web requests   *)
(* read, check and later commit a dispatch or a recall; the scheduler        *)
(* delivers arrivals, fights battles and culls starving garrisons, the last  *)
(* two from what they read before their transaction.  One unit type stands   *)
(* for a roster; who wins and how many fall is left open within what the     *)
(* battle rules allow.  A movement row that is done is forgotten.            *)
(***************************************************************************)
EXTENDS Integers, FiniteSets, FiniteSetsExt, Functions

CONSTANTS
  Villages, Players,
  Secure,                     \* villages that cannot be conquered
  Requests, Movements,        \* handlers at work, rows of troop_movements
  FirstOwner, FirstGarrison,  \* the world at the start
  MaxTroops,                  \* bound: troops ever raised for a village
  MaxFaults, MaxCrashes,      \* bounds
  NoMove, NoDraft, NoVillage  \* "no row", "no request", "nothing in hand"

Empty == [h \in Villages |-> 0]

ASSUME TroopsAssumption ==
  /\ FirstOwner \in [Villages -> Players]
  /\ FirstGarrison \in [Villages -> Nat]
  /\ Secure \subseteq Villages
  /\ IsFiniteSet(Villages) /\ IsFiniteSet(Movements)
  /\ MaxFaults \in Nat /\ MaxCrashes \in Nat
  /\ NoVillage \notin Villages

Kinds == {"reinforce", "return", "attack", "raid"}
Movement == [kind : Kinds, home : Villages, to : Villages, by : Players,
             troops : Nat \ {0}, claimed : BOOLEAN]
Draft == [kind : {"reinforce", "attack", "raid", "recall"}, home : Villages,
          to : Villages, by : Players, troops : Nat]

ASSUME FreshNames == NoMove \notin Movement \cup Movements /\ NoDraft \notin Draft

VARIABLES
  owner,      \* village -> player
  garrison,   \* village -> troops at home
  stationed,  \* host -> home -> troops
  moves,      \* row -> movement under way, or NoMove
  draft,      \* request -> what it has checked and not yet committed
  batch,      \* rows the running pass has claimed and not yet handled
  failed,     \* rows whose transaction failed: claimed, in nobody's hands
  hand,       \* the village being fought over or culled, and what was read of it
  raised,     \* village -> troops it started with, trained or was given
  gone,       \* village -> troops reported fallen or starved, or forfeited
  up, faults, crashes

vars == <<owner, garrison, stationed, moves, draft, batch, failed, hand,
          raised, gone, up, faults, crashes>>
books == <<raised, gone>>
task == <<batch, failed, hand>>
life == <<up, faults, crashes>>

Nothing == [village |-> NoVillage, move |-> NoMove, garrison |-> 0, groups |-> Empty,
            loser |-> NoVillage, fresh |-> FALSE]

Underway(m) == moves[m] # NoMove
InTransit(m) == Underway(m) /\ ~moves[m].claimed
Free == {m \in Movements : ~Underway(m)}

-----------------------------------------------------------------------------
(* Web requests *)

\* order_reinforcement and order_attack check the sender's garrison and target.
ReadVillage(r, d) ==
  /\ draft[r] = NoDraft
  /\ d.kind # "recall" /\ d.home # d.to /\ owner[d.home] = d.by
  /\ d.troops \in 1 .. garrison[d.home]
  /\ d.kind \in {"attack", "raid"} => owner[d.to] # d.by
  /\ draft' = [draft EXCEPT ![r] = d]
  /\ UNCHANGED <<owner, garrison, stationed, moves, task, books, life>>

\* order_return finds the group its owner has stationed at the host.
ReadGroup(r, d) ==
  /\ draft[r] = NoDraft
  /\ d.kind = "recall" /\ d.troops = 0 /\ owner[d.home] = d.by
  /\ stationed[d.to][d.home] > 0
  /\ draft' = [draft EXCEPT ![r] = d]
  /\ UNCHANGED <<owner, garrison, stationed, moves, task, books, life>>

Depart(m, kind, home, to, by, n) ==
  [moves EXCEPT ![m] = [kind |-> kind, home |-> home, to |-> to, by |-> by,
                        troops |-> n, claimed |-> FALSE]]

\* Mutant: the debit takes what is asked, whatever is left.
DispatchUnguarded(r, m) ==
  /\ draft[r] # NoDraft /\ draft[r].kind # "recall"
  /\ LET d == draft[r] IN
       /\ garrison' = [garrison EXCEPT ![d.home] = @ - d.troops]
       /\ moves' = Depart(m, d.kind, d.home, d.to, d.by, d.troops)
  /\ draft' = [draft EXCEPT ![r] = NoDraft]
  /\ UNCHANGED <<owner, stationed, task, books, life>>

\* One transaction: the guarded debit and the movement.
Dispatch(r, m) ==
  /\ draft[r] # NoDraft /\ draft[r].kind # "recall"
  /\ LET d == draft[r] IN
       /\ garrison[d.home] >= d.troops
       /\ garrison' = [garrison EXCEPT ![d.home] = @ - d.troops]
       /\ moves' = Depart(m, d.kind, d.home, d.to, d.by, d.troops)
  /\ draft' = [draft EXCEPT ![r] = NoDraft]
  /\ UNCHANGED <<owner, stationed, task, books, life>>

\* One transaction: the group, as large as it is by now, leaves its host.
Recall(r, m) ==
  /\ draft[r] # NoDraft /\ draft[r].kind = "recall"
  /\ LET d == draft[r] IN
       /\ stationed[d.to][d.home] > 0
       /\ stationed' = [stationed EXCEPT ![d.to][d.home] = 0]
       /\ moves' = Depart(m, "return", d.home, d.home, d.by, stationed[d.to][d.home])
  /\ draft' = [draft EXCEPT ![r] = NoDraft]
  /\ UNCHANGED <<owner, garrison, task, books, life>>

\* The garrison no longer covers it, or the group has left: nothing is written.
Refuse(r) ==
  /\ draft[r] # NoDraft
  /\ LET d == draft[r] IN
       IF d.kind = "recall" THEN stationed[d.to][d.home] = 0 ELSE garrison[d.home] < d.troops
  /\ draft' = [draft EXCEPT ![r] = NoDraft]
  /\ UNCHANGED <<owner, garrison, stationed, moves, task, books, life>>

\* A quest reward adds a soldier to a garrison and does not date the store.
Reward(v) ==
  /\ raised[v] < MaxTroops
  /\ garrison' = [garrison EXCEPT ![v] = @ + 1]
  /\ raised' = [raised EXCEPT ![v] = @ + 1]
  /\ UNCHANGED <<owner, stationed, moves, draft, task, gone, life>>

\* Somebody spends from the store of the village a cull is being computed for.
SettleRow(v) ==
  /\ hand.village = v /\ hand.fresh /\ hand.move = NoMove
  /\ hand' = [hand EXCEPT !.fresh = FALSE]
  /\ UNCHANGED <<owner, garrison, stationed, moves, draft, batch, failed, books, life>>

-----------------------------------------------------------------------------
(* The scheduler: training, movements, combat and starvation passes *)

Idle == up /\ batch = {} /\ hand = Nothing

Train(v) ==
  /\ Idle /\ raised[v] < MaxTroops
  /\ garrison' = [garrison EXCEPT ![v] = @ + 1]
  /\ raised' = [raised EXCEPT ![v] = @ + 1]
  /\ UNCHANGED <<owner, stationed, moves, draft, task, gone, life>>

\* A pass claims the due rows of its kinds; travel times are arbitrary here.
Claim(S, kinds) ==
  /\ Idle /\ S # {} /\ \A m \in S : InTransit(m) /\ moves[m].kind \in kinds
  /\ moves' = [m \in Movements |-> IF m \in S THEN [moves[m] EXCEPT !.claimed = TRUE]
                                   ELSE moves[m]]
  /\ batch' = S
  /\ UNCHANGED <<owner, garrison, stationed, draft, failed, hand, books, life>>

Arrivals == {"reinforce", "return"}
Attacks == {"attack", "raid"}

\* Mutant: a reinforcement joins its host's own garrison.
ArriveAsOwn(m) ==
  /\ m \in batch /\ moves[m].kind \in Arrivals
  /\ garrison' = [garrison EXCEPT ![moves[m].to] = @ + moves[m].troops]
  /\ moves' = [moves EXCEPT ![m] = NoMove]
  /\ batch' = batch \ {m}
  /\ UNCHANGED <<owner, stationed, draft, failed, hand, books, life>>

\* apply_movement: station a reinforcement, take a return into the garrison.
Arrive(m) ==
  /\ m \in batch /\ moves[m].kind \in Arrivals
  /\ LET v == moves[m] IN
       IF v.kind = "reinforce"
       THEN /\ stationed' = [stationed EXCEPT ![v.to][v.home] = @ + v.troops]
            /\ UNCHANGED garrison
       ELSE /\ garrison' = [garrison EXCEPT ![v.to] = @ + v.troops]
            /\ UNCHANGED stationed
  /\ moves' = [moves EXCEPT ![m] = NoMove]
  /\ batch' = batch \ {m}
  /\ UNCHANGED <<owner, draft, failed, hand, books, life>>

\* A transaction fails, or finds the store it loots or credits settled: logged,
\* and the row stays claimed.
Fail(m) ==
  /\ m \in batch /\ hand.move \in {NoMove, m} /\ faults < MaxFaults
  /\ batch' = batch \ {m} /\ failed' = failed \cup {m}
  /\ hand' = Nothing
  /\ faults' = faults + 1
  /\ UNCHANGED <<owner, garrison, stationed, moves, draft, books, up, crashes>>

\* resolve_one reads the target: garrison, groups and owner.
ReadBattle(m) ==
  /\ m \in batch /\ moves[m].kind \in Attacks /\ hand = Nothing
  /\ LET v == moves[m].to IN
       hand' = [village |-> v, move |-> m, garrison |-> garrison[v],
                groups |-> stationed[v], loser |-> owner[v], fresh |-> TRUE]
  /\ UNCHANGED <<owner, garrison, stationed, moves, draft, batch, failed, books, life>>

\* Casualties the rules allow: a won attack kills every defender, a lost one every
\* attacker, a raid some of both.
Casualties(kind, d, l, s) ==
  kind = "attack" => (d = hand.garrison /\ l = hand.groups) \/ s = 0

\* Subtracting a loss from a stack that has shrunk takes what remains.
Less(a, b) == IF a > b THEN a - b ELSE 0

\* Mutant: a conquest leaves the loser's movements alone.
NoneForfeited(v) == {}

\* What a conquest cancels: the village's movements in transit; those a pass has
\* claimed march on.
Forfeited(v) == {m \in Movements : InTransit(m) /\ moves[m].home = v}
TroopsOf(S) == SumFunction([m \in S |-> moves[m].troops])

\* The survivors' way home takes the battle's row over.
Homeward(m, s) == IF s = 0 THEN NoMove
  ELSE [moves[m] EXCEPT !.kind = "return", !.to = moves[m].home, !.troops = s, !.claimed = FALSE]

\* What a battle may cost: d of the garrison, l of the groups, all but s attackers.
Outcome(m, d, l, s) ==
  /\ m \in batch /\ hand.move = m
  /\ d \in 0 .. hand.garrison /\ \A h \in Villages : l[h] \in 0 .. hand.groups[h]
  /\ s \in 0 .. moves[m].troops
  /\ Casualties(moves[m].kind, d, l, s)

Fallen(m, d, l, s) == [h \in Villages |->
  l[h] + (IF h = hand.village THEN d ELSE 0) + (IF h = moves[m].home THEN moves[m].troops - s ELSE 0)]

Fought(m) == batch' = batch \ {m} /\ hand' = Nothing

\* apply_battle without a conquest: the losses computed from what was read come off
\* what stands there now, and the survivors set out for home.
Resolve(m, d, l, s) ==
  /\ Outcome(m, d, l, s)
  /\ LET v == hand.village IN
       /\ garrison' = [garrison EXCEPT ![v] = Less(@, d)]
       /\ stationed' = [stationed EXCEPT ![v] = [h \in Villages |-> Less(@[h], l[h])]]
  /\ moves' = [moves EXCEPT ![m] = Homeward(m, s)]
  /\ gone' = [h \in Villages |-> gone[h] + Fallen(m, d, l, s)[h]]
  /\ Fought(m)
  /\ UNCHANGED <<owner, draft, failed, raised, life>>

\* The groups at the fallen village that live on, as they were read: they go home.
Leaving(l) == {h \in Villages : hand.groups[h] > l[h]}

Return(h, l) == [kind |-> "return", home |-> h, to |-> h, by |-> owner[h],
                 troops |-> hand.groups[h] - l[h], claimed |-> FALSE]

\* The movements once the village has fallen; `row` names the groups' new rows.
AfterConquest(m, l, s, row) == [n \in Movements |->
  CASE n = m -> Homeward(m, s)
    [] n # m /\ \E h \in Leaving(l) : row[h] = n ->
         Return(CHOOSE h \in Leaving(l) : row[h] = n, l)
    [] n # m /\ n \in Forfeited(hand.village) -> NoMove
    [] OTHER -> moves[n]]

\* apply_battle with a conquest, guarded by the owner that was read: the garrison is
\* emptied, the groups sent home, the loser's movements forfeited.  Nothing asks
\* whether the attacker is the owner by now.
Conquer(m, d, l, s, row) ==
  LET v == hand.village IN
  /\ Outcome(m, d, l, s)
  /\ s > 0 /\ v \notin Secure /\ owner[v] = hand.loser
  /\ row \in Injection(Leaving(l), Free)
  /\ owner' = [owner EXCEPT ![v] = moves[m].by]
  /\ garrison' = [garrison EXCEPT ![v] = 0]
  /\ stationed' = [stationed EXCEPT ![v] = Empty]
  /\ moves' = AfterConquest(m, l, s, row)
  /\ gone' = [h \in Villages |-> gone[h] + Fallen(m, d, l, s)[h] +
       IF h = v THEN hand.garrison - d + TroopsOf(Forfeited(v)) ELSE 0]
  /\ Fought(m)
  /\ UNCHANGED <<draft, failed, raised, life>>

\* starve_village reads the garrison, then the store with its stamp.
ReadCull(v) ==
  /\ Idle /\ garrison[v] > 0
  /\ hand' = [Nothing EXCEPT !.village = v, !.garrison = garrison[v],
                             !.loser = owner[v], !.fresh = TRUE]
  /\ UNCHANGED <<owner, garrison, stationed, moves, draft, batch, failed, books, life>>

Culling == hand # Nothing /\ hand.move = NoMove

\* apply_starvation: the stamp still matches, and the s survivors of the garrison that
\* was read REPLACE the garrison.
Cull(s) ==
  /\ Culling /\ hand.fresh /\ s \in 0 .. hand.garrison - 1
  /\ LET v == hand.village IN
       /\ garrison' = [garrison EXCEPT ![v] = s]
       /\ gone' = [gone EXCEPT ![v] = @ + hand.garrison - s]
  /\ hand' = Nothing
  /\ UNCHANGED <<owner, stationed, moves, draft, batch, failed, raised, life>>

\* The store was settled meanwhile, or has recovered: nobody starves.
CullSpares ==
  /\ Culling /\ hand' = Nothing
  /\ UNCHANGED <<owner, garrison, stationed, moves, draft, batch, failed, books, life>>

-----------------------------------------------------------------------------
(* Crash and restart *)

Crash ==
  /\ up /\ crashes < MaxCrashes
  /\ up' = FALSE /\ crashes' = crashes + 1
  /\ draft' = [r \in Requests |-> NoDraft]
  /\ batch' = {} /\ hand' = Nothing
  /\ UNCHANGED <<owner, garrison, stationed, moves, failed, books, faults>>

\* Mutant: claimed rows stay claimed.
RestartBare ==
  /\ ~up /\ up' = TRUE
  /\ UNCHANGED <<owner, garrison, stationed, moves, draft, task, books, faults, crashes>>

\* requeue_orphaned_movements: every claimed row is due again.
Restart ==
  /\ ~up /\ up' = TRUE
  /\ moves' = [m \in Movements |-> IF Underway(m) THEN [moves[m] EXCEPT !.claimed = FALSE]
                                   ELSE moves[m]]
  /\ failed' = {}
  /\ UNCHANGED <<owner, garrison, stationed, draft, batch, hand, books, faults, crashes>>

-----------------------------------------------------------------------------
Init ==
  /\ owner = FirstOwner /\ garrison = FirstGarrison
  /\ stationed = [h \in Villages |-> Empty]
  /\ moves = [m \in Movements |-> NoMove]
  /\ draft = [r \in Requests |-> NoDraft]
  /\ batch = {} /\ failed = {} /\ hand = Nothing
  /\ raised = FirstGarrison /\ gone = Empty
  /\ up = TRUE /\ faults = 0 /\ crashes = 0

NewRequest == up /\ \E r \in Requests, v, w \in Villages :
  \/ ReadGroup(r, [kind |-> "recall", home |-> v, to |-> w, by |-> owner[v], troops |-> 0])
  \/ \E kind \in {"reinforce", "attack", "raid"}, n \in 1 .. garrison[v] :
       ReadVillage(r, [kind |-> kind, home |-> v, to |-> w, by |-> owner[v], troops |-> n])

\* A bound: a row is left for every group that may have to leave its host.
Groups == {g \in Villages \X Villages : stationed[g[1]][g[2]] > 0}
Room == Cardinality(Free) > Cardinality(Groups)

Handlers == up /\ \E r \in Requests :
  \/ Refuse(r)
  \/ Free # {} /\ LET m == CHOOSE f \in Free : TRUE IN Recall(r, m) \/ (Room /\ Dispatch(r, m))

OtherWeb == up /\ \E v \in Villages : Reward(v) \/ SettleRow(v)

ClaimOf(m) == \E S \in SUBSET Movements, kinds \in {Arrivals, Attacks} : m \in S /\ Claim(S, kinds)

Battle(m) == \E l \in [Villages -> 0 .. Max({0} \cup Range(hand.groups))],
                d \in 0 .. hand.garrison, s \in 0 .. (IF Underway(m) THEN moves[m].troops ELSE 0) :
               \/ Resolve(m, d, l, s)
               \/ \E row \in Injection(Leaving(l), Free) : Conquer(m, d, l, s, row)

\* What the pass has begun.
Work == \/ \E m \in Movements : Arrive(m) \/ ReadBattle(m) \/ Battle(m)
        \/ \E s \in 0 .. hand.garrison : Cull(s)
        \/ CullSpares

Next == \/ NewRequest \/ Handlers \/ OtherWeb
        \/ \E m \in Movements : ClaimOf(m) \/ Fail(m)
        \/ \E v \in Villages : Train(v) \/ ReadCull(v)
        \/ Work
        \/ Crash \/ Restart

Spec == Init /\ [][Next]_vars

\* A quiet history: nobody moves troops from or to a village between the read and the
\* commit of a battle or a cull there, and a village falls only while its owner has
\* no request under way and none of its movements is in the scheduler's hands.
Quiet ==
  /\ hand # Nothing /\ hand' = hand =>
       LET v == hand.village IN garrison'[v] = garrison[v] /\ stationed'[v] = stationed[v]
  /\ \A v \in Villages : owner'[v] # owner[v] =>
       /\ \A r \in Requests : draft[r] # NoDraft => draft[r].home # v
       /\ \A m \in Movements : Underway(m) /\ moves[m].claimed => moves[m].home # v

QuietSpec == Init /\ [][Next /\ Quiet]_vars

\* A pass that has begun goes on, the process is restarted, and as every movement's
\* instant comes and every pass runs in turn, no movement is left out for ever.
FairQuietSpec == /\ QuietSpec
                 /\ WF_vars(Work /\ Quiet) /\ WF_vars(Restart /\ Quiet)
                 /\ \A m \in Movements : SF_vars(ClaimOf(m) /\ Quiet)

-----------------------------------------------------------------------------
(* Properties *)

\* Every variable of the program has its type; what a pass holds is claimed and on its way, and the
\* passes hold nothing while the process is down.
TypeOK ==
  /\ owner \in [Villages -> Players]
  /\ garrison \in [Villages -> Nat]
  /\ stationed \in [Villages -> [Villages -> Nat]]
  /\ moves \in [Movements -> Movement \cup {NoMove}]
  /\ draft \in [Requests -> Draft \cup {NoDraft}]
  /\ \A m \in batch \cup failed : m \in Movements /\ Underway(m) /\ moves[m].claimed
  /\ batch \cap failed = {}
  /\ hand # Nothing => hand.village \in Villages /\ hand.move \in batch \cup {NoMove}
  /\ hand.garrison \in Nat /\ hand.groups \in [Villages -> Nat]
  /\ hand.loser \in Players \cup {NoVillage}
  /\ raised \in [Villages -> Nat]
  /\ up \in BOOLEAN /\ (~up => batch = {} /\ hand = Nothing)
  /\ faults \in 0 .. MaxFaults /\ crashes \in 0 .. MaxCrashes

\* Every soldier ever raised for a village is at home, stationed somewhere, on the
\* march or reported gone; nobody is in two places and nobody vanishes, through
\* battles, culls, conquests, crashes and re-claimed movements (007, 009: exactly once).
TroopsAccounted == \A v \in Villages :
  garrison[v] + SumFunction([h \in Villages |-> stationed[h][v]])
              + TroopsOf({m \in Movements : Underway(m) /\ moves[m].home = v})
    = raised[v] - gone[v]

\* Whoever marches marches for the player who owns its home (the conquest comment:
\* nothing may "land the loser's army inside what is now an enemy village").
LoyalMarch == \A m \in Movements : Underway(m) => moves[m].by = owner[moves[m].home]

\* A movement ends, its troops stationed, home or fallen, unless its transaction failed;
\* even when the process dies between claiming it and handling it.
MovementsEnd == \A m \in Movements : Underway(m) ~> ~Underway(m) \/ m \in failed

\* A cull replaces the garrison it has read, never one that has changed since (the
\* comment: "a garrison change between our read and this commit always conflicts").
CullSeesGarrison == [][\A v \in Villages :
  Culling /\ hand.village = v /\ gone'[v] # gone[v] => garrison[v] = hand.garrison]_vars
=============================================================================
