---------------------------- MODULE TroopsProofs ----------------------------
(***************************************************************************)
(* Proofs about Troops for every set of villages, players, requests and      *)
(* movement rows: garrisons and groups never run below zero, whatever races; *)
(* in quiet histories an army always marches for its home's owner (LoyalInv) *)
(* and every soldier is in one place (BooksInv: what was read for a battle   *)
(* or a cull stands until it is applied, and raised equals present and gone).*)
(***************************************************************************)
EXTENDS Troops, SumProofs, TLAPS

\* What the types rest on: a dispatch takes somebody along, and a battle in hand is
\* fought by an attack.
Manned == \A r \in Requests : draft[r] # NoDraft /\ draft[r].kind # "recall" => draft[r].troops > 0
AttackInHand == hand.move # NoMove => moves[hand.move].kind \in Attacks
TypeInv == TypeOK /\ Manned /\ AttackInHand

LEMMA DraftTyped ==
  ASSUME TypeOK, NEW r \in Requests, draft[r] # NoDraft
  PROVE  draft[r] \in Draft
BY DEF TypeOK

LEMMA MoveTyped ==
  ASSUME TypeOK, NEW m \in Movements, Underway(m)
  PROVE  moves[m] \in Movement
BY DEF TypeOK, Underway

LEMMA TypeInit == Init => TypeInv
<1> SUFFICES ASSUME Init PROVE TypeInv
  OBVIOUS
<1> USE TroopsAssumption, FreshNames
<1>1. Empty \in [Villages -> Nat]
  BY DEF Empty
<1>2. hand = Nothing /\ hand.move = NoMove /\ hand.garrison = 0 /\ hand.groups = Empty
        /\ hand.loser = NoVillage
  BY DEF Init, Nothing
<1> QED
  BY <1>1, <1>2 DEF Init, TypeInv, TypeOK, Manned, AttackInHand

\* A request that starts.
LEMMA RequestType ==
  ASSUME TypeInv, NEW r \in Requests, NEW d \in Draft, ReadVillage(r, d) \/ ReadGroup(r, d)
  PROVE  TypeInv'
<1>1. d.kind # "recall" => d.troops > 0
  BY DEF ReadVillage, ReadGroup, TypeInv, TypeOK, Draft
<1>2. draft' = [draft EXCEPT ![r] = d]
        /\ UNCHANGED <<owner, garrison, stationed, moves, task, books, life>>
  BY DEF ReadVillage, ReadGroup
<1>3. draft' \in [Requests -> Draft \cup {NoDraft}] /\ Manned'
  BY <1>1, <1>2 DEF TypeInv, TypeOK, Manned
<1> QED
  BY <1>2, <1>3 DEF TypeInv, TypeOK, AttackInHand, Underway, task, books, life

\* A row that sets out is not one of those in the scheduler's hands.
LEMMA DepartType ==
  ASSUME TypeInv, NEW m \in Free, NEW kind \in Kinds, NEW home \in Villages, NEW to \in Villages,
         NEW by \in Players, NEW n \in Nat \ {0}, moves' = Depart(m, kind, home, to, by, n),
         UNCHANGED <<task, books, life>>
  PROVE  /\ moves' \in [Movements -> Movement \cup {NoMove}]
         /\ \A k \in batch' \cup failed' : k \in Movements /\ Underway(k)' /\ moves'[k].claimed
         /\ AttackInHand'
<1> DEFINE v == [kind |-> kind, home |-> home, to |-> to, by |-> by, troops |-> n, claimed |-> FALSE]
<1>1. v \in Movement /\ m \in Movements
  BY DEF Movement, Free
<1>2. moves' = [moves EXCEPT ![m] = v]
  BY DEF Depart
<1>3. m \notin batch \cup failed /\ (hand.move # NoMove => hand.move # m /\ hand.move \in batch)
  <2>1. m \notin batch \cup failed
    BY DEF TypeInv, TypeOK, Free
  <2>2. hand.move # NoMove => hand.move \in batch
    BY DEF TypeInv, TypeOK, Nothing
  <2> QED
    BY <2>1, <2>2
<1>4. batch' = batch /\ failed' = failed /\ hand' = hand
  BY DEF task
<1>5. moves' \in [Movements -> Movement \cup {NoMove}]
  BY <1>1, <1>2 DEF TypeInv, TypeOK
<1>6. \A k \in Movements \ {m} : moves'[k] = moves[k]
  BY <1>2 DEF TypeInv, TypeOK
<1>7. \A k \in batch' \cup failed' : k \in Movements /\ Underway(k)' /\ moves'[k].claimed
  BY <1>3, <1>4, <1>6 DEF TypeInv, TypeOK, Underway
<1>8. AttackInHand'
  BY <1>3, <1>4, <1>6 DEF TypeInv, TypeOK, AttackInHand
<1> QED
  BY <1>5, <1>7, <1>8

LEMMA HandlerType ==
  ASSUME TypeInv, NEW r \in Requests, NEW m \in Free, Dispatch(r, m) \/ Recall(r, m)
  PROVE  TypeInv'
<1> DEFINE d == draft[r]
<1>1. d \in Draft
  BY DraftTyped DEF Dispatch, Recall, TypeInv
<1>2. draft' \in [Requests -> Draft \cup {NoDraft}] /\ Manned'
  BY DEF Dispatch, Recall, TypeInv, TypeOK, Manned
<1>3. UNCHANGED <<owner, task, books, life>>
  BY DEF Dispatch, Recall
<1>4. CASE Dispatch(r, m)
  <2>1. d.kind \in Kinds /\ d.troops \in Nat \ {0} /\ d.home \in Villages /\ d.to \in Villages
          /\ d.by \in Players
    BY <1>1, <1>4 DEF Dispatch, Draft, Kinds, TypeInv, Manned
  <2>2. garrison' \in [Villages -> Nat] /\ UNCHANGED stationed
    BY <1>4, <2>1 DEF Dispatch, TypeInv, TypeOK
  <2>3. moves' = Depart(m, d.kind, d.home, d.to, d.by, d.troops)
    BY <1>4 DEF Dispatch
  <2>4. /\ moves' \in [Movements -> Movement \cup {NoMove}]
        /\ \A k \in batch' \cup failed' : k \in Movements /\ Underway(k)' /\ moves'[k].claimed
        /\ AttackInHand'
    BY <1>3, <2>1, <2>3, DepartType
  <2> QED
    BY <1>2, <1>3, <2>2, <2>4 DEF TypeInv, TypeOK, task, books, life
<1>5. CASE Recall(r, m)
  <2>1. d.home \in Villages /\ d.to \in Villages /\ d.by \in Players
    BY <1>1 DEF Draft
  <2>2. stationed[d.to][d.home] \in Nat \ {0}
    BY <1>5, <2>1 DEF Recall, TypeInv, TypeOK
  <2>3. stationed' \in [Villages -> [Villages -> Nat]] /\ UNCHANGED garrison
    BY <1>5, <2>1 DEF Recall, TypeInv, TypeOK
  <2>4. moves' = Depart(m, "return", d.home, d.home, d.by, stationed[d.to][d.home])
    BY <1>5 DEF Recall
  <2>5. /\ moves' \in [Movements -> Movement \cup {NoMove}]
        /\ \A k \in batch' \cup failed' : k \in Movements /\ Underway(k)' /\ moves'[k].claimed
        /\ AttackInHand'
    BY <1>3, <2>1, <2>2, <2>4, DepartType DEF Kinds
  <2> QED
    BY <1>2, <1>3, <2>3, <2>5 DEF TypeInv, TypeOK, task, books, life
<1> QED
  BY <1>4, <1>5

LEMMA RefuseType ==
  ASSUME TypeInv, NEW r \in Requests, Refuse(r)
  PROVE  TypeInv'
<1>1. draft' \in [Requests -> Draft \cup {NoDraft}] /\ Manned'
  BY DEF Refuse, TypeInv, TypeOK, Manned
<1> QED
  BY <1>1 DEF Refuse, TypeInv, TypeOK, AttackInHand, Underway, task, books, life

\* A soldier more, and a store settled under a cull.
LEMMA MinorType ==
  ASSUME TypeInv, NEW v \in Villages, Reward(v) \/ Train(v) \/ SettleRow(v)
  PROVE  TypeInv'
<1>1. CASE Reward(v) \/ Train(v)
  BY <1>1 DEF Reward, Train, TypeInv, TypeOK, Manned, AttackInHand, Underway, task, life
<1>2. CASE SettleRow(v)
  <2>1. hand # Nothing /\ hand.move = NoMove
    BY <1>2, TroopsAssumption DEF SettleRow, Nothing
  <2>2. hand' = [hand EXCEPT !.fresh = FALSE] /\ hand.move' = hand.move
    BY <1>2 DEF SettleRow
  <2> QED
    BY <1>2, <2>1, <2>2 DEF SettleRow, TypeInv, TypeOK, Manned, AttackInHand, Underway, books, life
<1> QED
  BY <1>1, <1>2

\* The hand emptied: what is left of it is typed and holds no battle.
LEMMA EmptyHand ==
  hand' = Nothing => /\ AttackInHand'
                     /\ hand'.garrison \in Nat /\ hand'.groups \in [Villages -> Nat]
                     /\ hand'.loser \in Players \cup {NoVillage}
BY DEF AttackInHand, Nothing, Empty

LEMMA ClaimType ==
  ASSUME TypeInv, NEW S \in SUBSET Movements, NEW kinds, Claim(S, kinds)
  PROVE  TypeInv'
<1>1. batch' = S /\ batch = {} /\ hand = Nothing /\ up
  BY DEF Claim, Idle
<1>2. hand' = Nothing /\ AttackInHand'
  BY <1>1, EmptyHand DEF Claim
<1>3. moves' = [k \in Movements |-> IF k \in S THEN [moves[k] EXCEPT !.claimed = TRUE] ELSE moves[k]]
  BY DEF Claim
<1>4. \A k \in S : /\ InTransit(k) /\ [moves[k] EXCEPT !.claimed = TRUE] \in Movement
                   /\ moves'[k].claimed
  <2> SUFFICES ASSUME NEW k \in S
               PROVE  /\ InTransit(k) /\ [moves[k] EXCEPT !.claimed = TRUE] \in Movement
                      /\ moves'[k].claimed
    OBVIOUS
  <2>1. InTransit(k)
    BY DEF Claim
  <2>2. moves[k] \in Movement
    BY <2>1, MoveTyped DEF InTransit, TypeInv
  <2> QED
    BY <1>3, <2>1, <2>2 DEF Movement
<1>5. moves' \in [Movements -> Movement \cup {NoMove}]
  BY <1>3, <1>4 DEF TypeInv, TypeOK
<1>6. \A k \in failed : k \notin S /\ moves'[k] = moves[k]
  BY <1>3, <1>4 DEF TypeInv, TypeOK, InTransit
<1>7. \A k \in batch' \cup failed' : k \in Movements /\ Underway(k)' /\ moves'[k].claimed
  <2>1. \A k \in S : Underway(k)'
    BY <1>3, <1>4, FreshNames DEF Underway
  <2> QED
    BY <1>1, <1>4, <1>6, <2>1 DEF Claim, TypeInv, TypeOK, Underway
<1> QED
  BY <1>1, <1>2, <1>5, <1>6, <1>7, EmptyHand
     DEF Claim, TypeInv, TypeOK, Manned, books, life

LEMMA ArriveType ==
  ASSUME TypeInv, NEW m \in Movements, Arrive(m)
  PROVE  TypeInv'
<1> DEFINE v == moves[m]
<1>1. m \in batch /\ v.kind \in Arrivals /\ v \in Movement
  BY MoveTyped DEF Arrive, TypeInv, TypeOK
<1>2. hand' = hand /\ hand.move # m
  BY <1>1, FreshNames DEF Arrive, TypeInv, AttackInHand, Arrivals, Attacks
<1>3. garrison' \in [Villages -> Nat] /\ stationed' \in [Villages -> [Villages -> Nat]]
  <2>1. v.to \in Villages /\ v.home \in Villages /\ v.troops \in Nat
    BY <1>1 DEF Movement
  <2>2. CASE v.kind = "reinforce"
    BY <2>1, <2>2 DEF Arrive, TypeInv, TypeOK
  <2>3. CASE v.kind # "reinforce"
    BY <2>1, <2>3 DEF Arrive, TypeInv, TypeOK
  <2> QED
    BY <2>2, <2>3
<1>4. moves' \in [Movements -> Movement \cup {NoMove}] /\ \A k \in Movements \ {m} : moves'[k] = moves[k]
  BY DEF Arrive, TypeInv, TypeOK
<1>5. batch' = batch \ {m} /\ failed' = failed /\ m \notin failed
  BY <1>1 DEF Arrive, TypeInv, TypeOK
<1>6. AttackInHand'
  BY <1>2, <1>4 DEF TypeInv, TypeOK, AttackInHand, Nothing
<1> QED
  BY <1>2, <1>3, <1>4, <1>5, <1>6 DEF Arrive, TypeInv, TypeOK, Manned, Underway, books, life

LEMMA FailType ==
  ASSUME TypeInv, NEW m \in Movements, Fail(m)
  PROVE  TypeInv'
BY EmptyHand, TroopsAssumption DEF Fail, TypeInv, TypeOK, Manned, Underway, books

LEMMA ReadBattleType ==
  ASSUME TypeInv, NEW m \in Movements, ReadBattle(m)
  PROVE  TypeInv'
<1>1. m \in batch /\ moves[m].kind \in Attacks /\ moves[m] \in Movement /\ up
  BY MoveTyped DEF ReadBattle, TypeInv, TypeOK
<1>2. moves[m].to \in Villages
  BY <1>1 DEF Movement
<1>3. /\ hand'.village = moves[m].to /\ hand'.move = m /\ hand'.garrison = garrison[moves[m].to]
      /\ hand'.groups = stationed[moves[m].to] /\ hand'.loser = owner[moves[m].to]
  BY DEF ReadBattle
<1> QED
  BY <1>1, <1>2, <1>3 DEF ReadBattle, TypeInv, TypeOK, Manned, AttackInHand, Underway, books, life

\* What a battle in hand is about.
LEMMA FightTyped ==
  ASSUME TypeInv, NEW m, NEW d, NEW l, NEW s, Outcome(m, d, l, s)
  PROVE  /\ m \in batch /\ m \in Movements /\ m \notin failed /\ moves[m] \in Movement
         /\ hand.village \in Villages /\ up
         /\ d \in Nat /\ s \in Nat /\ \A h \in Villages : l[h] \in Nat
         /\ Homeward(m, s) \in Movement \cup {NoMove}
<1>1. m \in batch /\ m \in Movements /\ m \notin failed /\ moves[m] \in Movement /\ up
  BY MoveTyped DEF Outcome, TypeInv, TypeOK
<1>2. hand # Nothing
  BY <1>1, FreshNames DEF Outcome, Nothing
<1>3. d \in Nat /\ s \in Nat /\ \A h \in Villages : l[h] \in Nat
  BY <1>1 DEF Outcome, TypeInv, TypeOK, Movement
<1>4. Homeward(m, s) \in Movement \cup {NoMove}
  BY <1>1, <1>3 DEF Homeward, Movement, Kinds
<1> QED
  BY <1>1, <1>2, <1>3, <1>4 DEF TypeInv, TypeOK

LEMMA ResolveType ==
  ASSUME TypeInv, NEW m, NEW d, NEW l, NEW s, Resolve(m, d, l, s)
  PROVE  TypeInv'
<1>1. Outcome(m, d, l, s)
  BY DEF Resolve
<1>2. garrison' \in [Villages -> Nat]
  BY <1>1, FightTyped DEF Resolve, Less, TypeInv, TypeOK
<1>3. stationed' \in [Villages -> [Villages -> Nat]]
  <2> DEFINE v == hand.village
  <2>1. \A h \in Villages : Less(stationed[v][h], l[h]) \in Nat
    BY <1>1, FightTyped DEF Less, TypeInv, TypeOK
  <2>2. stationed' = [stationed EXCEPT ![v] = [h \in Villages |-> Less(stationed[v][h], l[h])]]
    BY DEF Resolve
  <2> QED
    BY <2>1, <2>2 DEF TypeInv, TypeOK
<1>4. /\ moves' \in [Movements -> Movement \cup {NoMove}]
      /\ \A k \in Movements \ {m} : moves'[k] = moves[k]
  BY <1>1, FightTyped DEF Resolve, TypeInv, TypeOK
<1>5. batch' = batch \ {m} /\ hand' = Nothing /\ m \notin failed
  BY <1>1, FightTyped DEF Resolve, Fought
<1> QED
  BY <1>2, <1>3, <1>4, <1>5, EmptyHand DEF Resolve, TypeInv, TypeOK, Manned, Underway, life

\* A conquest changes, besides the fighting row, only rows nobody has claimed.
LEMMA ConquestRows ==
  ASSUME TypeInv, NEW m, NEW d, NEW l, NEW s, NEW row, Conquer(m, d, l, s, row)
  PROVE  /\ moves' \in [Movements -> Movement \cup {NoMove}]
         /\ \A k \in Movements \ {m} : Underway(k) /\ moves[k].claimed => moves'[k] = moves[k]
<1>1. Outcome(m, d, l, s)
  BY DEF Conquer
<1>2. /\ row \in [Leaving(l) -> Free]
      /\ moves' = AfterConquest(m, l, s, row)
  BY DEF Conquer, Injection
<1>3. \A h \in Leaving(l) :
        /\ h \in Villages /\ hand.groups[h] - l[h] \in Nat \ {0} /\ owner[h] \in Players
        /\ row[h] \in Free
  BY <1>1, <1>2, FightTyped DEF Leaving, TypeInv, TypeOK
<1>4. ASSUME NEW n \in Movements, n # m, \E h \in Leaving(l) : row[h] = n
      PROVE  moves'[n] \in Movement /\ ~Underway(n)
  <2> DEFINE h == CHOOSE g \in Leaving(l) : row[g] = n
  <2>1. h \in Leaving(l) /\ row[h] = n
    BY <1>4
  <2>2. n \notin Forfeited(hand.village)
    BY <1>3, <2>1 DEF Forfeited, InTransit, Free
  <2>3. moves'[n] = Return(h, l)
    BY <1>2, <1>4, <2>2 DEF AfterConquest
  <2> HIDE DEF h
  <2> QED
    BY <1>3, <2>1, <2>3 DEF Return, Movement, Kinds, Free
<1>5. ASSUME NEW n \in Movements, n # m, ~\E h \in Leaving(l) : row[h] = n
      PROVE  moves'[n] = IF n \in Forfeited(hand.village) THEN NoMove ELSE moves[n]
  BY <1>2, <1>5 DEF AfterConquest
<1>6. moves'[m] = Homeward(m, s) /\ m \in Movements
  BY <1>1, <1>2, FightTyped DEF AfterConquest
<1>7. \A n \in Movements : moves'[n] \in Movement \cup {NoMove}
  BY <1>1, <1>4, <1>5, <1>6, FightTyped DEF TypeInv, TypeOK
<1>8. moves' \in [Movements -> Movement \cup {NoMove}]
  BY <1>2, <1>7 DEF AfterConquest
<1>9. ASSUME NEW k \in Movements \ {m}, Underway(k) /\ moves[k].claimed
      PROVE  moves'[k] = moves[k]
  BY <1>4, <1>5, <1>9 DEF Forfeited, InTransit
<1> QED
  BY <1>8, <1>9

LEMMA ConquerType ==
  ASSUME TypeInv, NEW m, NEW d, NEW l, NEW s, NEW row, Conquer(m, d, l, s, row)
  PROVE  TypeInv'
<1>1. Outcome(m, d, l, s)
  BY DEF Conquer
<1>2. batch' = batch \ {m} /\ hand' = Nothing /\ m \notin failed /\ up
  BY <1>1, FightTyped DEF Conquer, Fought
<1>3. owner' \in [Villages -> Players]
  BY <1>1, FightTyped DEF Conquer, TypeInv, TypeOK, Movement
<1>4. garrison' \in [Villages -> Nat] /\ stationed' \in [Villages -> [Villages -> Nat]]
  BY DEF Conquer, Empty, TypeInv, TypeOK
<1>5. \A k \in batch' \cup failed' : k \in Movements /\ Underway(k)' /\ moves'[k].claimed
  <2>1. \A k \in batch' \cup failed' : k \in Movements \ {m} /\ Underway(k) /\ moves[k].claimed
    BY <1>2 DEF Conquer, TypeInv, TypeOK
  <2> QED
    BY <2>1, ConquestRows DEF Underway
<1>6. moves' \in [Movements -> Movement \cup {NoMove}]
  BY ConquestRows
<1>7. UNCHANGED <<draft, failed, raised, life>>
  BY DEF Conquer
<1>8. Manned' /\ AttackInHand'
  BY <1>2, <1>7, EmptyHand DEF TypeInv, Manned
<1> QED
  BY <1>2, <1>3, <1>4, <1>5, <1>6, <1>7, <1>8, EmptyHand DEF TypeInv, TypeOK, life

\* Culls.
LEMMA CullType ==
  ASSUME TypeInv,
         CullSpares \/ (\E v \in Villages : ReadCull(v)) \/ (\E s \in 0 .. hand.garrison : Cull(s))
  PROVE  TypeInv'
<1>1. ASSUME NEW v \in Villages, ReadCull(v) PROVE TypeInv'
  <2>1. /\ hand'.village = v /\ hand'.move = NoMove /\ hand'.garrison = garrison[v]
        /\ hand'.groups = Empty /\ hand'.loser = owner[v]
    BY <1>1 DEF ReadCull, Nothing
  <2>2. /\ garrison[v] \in Nat /\ owner[v] \in Players /\ Empty \in [Villages -> Nat]
    BY DEF TypeInv, TypeOK, Empty
  <2>3. AttackInHand' /\ up /\ UNCHANGED <<owner, garrison, stationed, moves, draft, batch, failed, books, life>>
    BY <1>1, <2>1 DEF ReadCull, Idle, AttackInHand
  <2> QED
    BY <2>1, <2>2, <2>3 DEF TypeInv, TypeOK, Manned, Underway, books, life
<1>2. ASSUME NEW s \in 0 .. hand.garrison, Cull(s) PROVE TypeInv'
  <2>1. s \in Nat
    BY DEF TypeInv, TypeOK
  <2>2. garrison' \in [Villages -> Nat]
    BY <1>2, <2>1 DEF Cull, TypeInv, TypeOK
  <2> QED
    BY <1>2, <2>2, EmptyHand DEF Cull, TypeInv, TypeOK, Manned, Underway, life
<1>3. CASE CullSpares
  BY <1>3, EmptyHand DEF CullSpares, TypeInv, TypeOK, Manned, Underway, books, life
<1> QED
  BY <1>1, <1>2, <1>3

LEMMA RestartType ==
  ASSUME TypeInv, Crash \/ Restart
  PROVE  TypeInv'
<1>1. CASE Crash
  <2>1. crashes' \in 0 .. MaxCrashes
    BY <1>1, TroopsAssumption DEF Crash, TypeInv, TypeOK
  <2>2. draft' \in [Requests -> Draft \cup {NoDraft}] /\ Manned'
    BY <1>1 DEF Crash, Manned
  <2>3. batch' = {} /\ hand' = Nothing /\ up' = FALSE
    BY <1>1 DEF Crash
  <2>4. UNCHANGED <<owner, garrison, stationed, moves, failed, raised, faults>>
    BY <1>1 DEF Crash, books
  <2> QED
    BY <2>1, <2>2, <2>3, <2>4, EmptyHand DEF TypeInv, TypeOK, Underway
<1>2. CASE Restart
  <2>1. batch' = {} /\ failed' = {} /\ hand' = Nothing /\ up' = TRUE
    BY <1>2 DEF Restart, TypeInv, TypeOK
  <2>2. moves' \in [Movements -> Movement \cup {NoMove}]
    <3>1. \A m \in Movements : Underway(m) => [moves[m] EXCEPT !.claimed = FALSE] \in Movement
      BY MoveTyped DEF TypeInv, Movement
    <3> QED
      BY <1>2, <3>1 DEF Restart, Underway, TypeInv, TypeOK
  <2> QED
    BY <1>2, <2>1, <2>2, EmptyHand DEF Restart, TypeInv, TypeOK, Manned, books
<1> QED
  BY <1>1, <1>2

\* A request takes up a well-formed draft.
LEMMA NewDraft ==
  ASSUME TypeInv, NewRequest
  PROVE  \E r \in Requests, d \in Draft :
           /\ ReadVillage(r, d) \/ ReadGroup(r, d)
           /\ draft' = [draft EXCEPT ![r] = d] /\ d.by = owner[d.home]
<1>1. PICK r \in Requests, v \in Villages, w \in Villages :
        \/ ReadGroup(r, [kind |-> "recall", home |-> v, to |-> w, by |-> owner[v], troops |-> 0])
        \/ \E kind \in {"reinforce", "attack", "raid"}, n \in 1 .. garrison[v] :
             ReadVillage(r, [kind |-> kind, home |-> v, to |-> w, by |-> owner[v], troops |-> n])
  BY DEF NewRequest
<1>2. owner[v] \in Players
  BY DEF TypeInv, TypeOK
<1>3. CASE ReadGroup(r, [kind |-> "recall", home |-> v, to |-> w, by |-> owner[v], troops |-> 0])
  <2> DEFINE d == [kind |-> "recall", home |-> v, to |-> w, by |-> owner[v], troops |-> 0]
  <2>1. d \in Draft
    BY <1>2 DEF Draft
  <2> QED
    BY <1>3, <2>1 DEF ReadGroup
<1>4. CASE \E kind \in {"reinforce", "attack", "raid"}, n \in 1 .. garrison[v] :
             ReadVillage(r, [kind |-> kind, home |-> v, to |-> w, by |-> owner[v], troops |-> n])
  <2>1. PICK kind \in {"reinforce", "attack", "raid"}, n \in 1 .. garrison[v] :
          ReadVillage(r, [kind |-> kind, home |-> v, to |-> w, by |-> owner[v], troops |-> n])
    BY <1>4
  <2> DEFINE d == [kind |-> kind, home |-> v, to |-> w, by |-> owner[v], troops |-> n]
  <2>2. d \in Draft
    BY <1>2 DEF Draft
  <2> QED
    BY <2>1, <2>2 DEF ReadVillage
<1> QED
  BY <1>1, <1>3, <1>4

LEMMA TypeStep == TypeInv /\ [Next]_vars => TypeInv'
<1> SUFFICES ASSUME TypeInv, [Next]_vars PROVE TypeInv'
  OBVIOUS
<1>1. CASE NewRequest
  BY <1>1, NewDraft, RequestType
<1>2. CASE Handlers
  BY <1>2, HandlerType, RefuseType DEF Handlers
<1>3. CASE OtherWeb
  BY <1>3, MinorType DEF OtherWeb
<1>4. ASSUME NEW m \in Movements, ClaimOf(m) \/ Fail(m) PROVE TypeInv'
  BY <1>4, ClaimType, FailType DEF ClaimOf
<1>5. ASSUME NEW v \in Villages, Train(v) \/ ReadCull(v) PROVE TypeInv'
  BY <1>5, MinorType, CullType
<1>6. CASE Work
  <2>1. ASSUME NEW m \in Movements, Arrive(m) \/ ReadBattle(m) \/ Battle(m) PROVE TypeInv'
    BY <2>1, ArriveType, ReadBattleType, ResolveType, ConquerType DEF Battle
  <2> QED
    BY <1>6, <2>1, CullType DEF Work
<1>7. CASE Crash \/ Restart
  BY <1>7, RestartType
<1>8. CASE UNCHANGED vars
  BY <1>8 DEF vars, TypeInv, TypeOK, Manned, AttackInHand, Underway
<1> QED
  BY <1>1, <1>2, <1>3, <1>4, <1>5, <1>6, <1>7, <1>8 DEF Next

\* Garrisons and groups stay natural numbers, marching armies are never empty and what
\* the passes hold is claimed: in every world, through every race, failure and restart.
THEOREM TroopsTypeCorrect == Spec => []TypeOK
<1>1. TypeInv => TypeOK
  BY DEF TypeInv
<1> QED
  BY <1>1, TypeInit, TypeStep, PTL DEF Spec

-----------------------------------------------------------------------------
(* Loyalty in quiet histories *)

LoyalDrafts == \A r \in Requests : draft[r] # NoDraft => draft[r].by = owner[draft[r].home]

\* No village reinforces itself: draft, march, station and battle keep host and home apart.
Apart ==
  /\ \A r \in Requests : draft[r] # NoDraft => draft[r].home # draft[r].to
  /\ \A m \in Movements : Underway(m) /\ moves[m].kind # "return" => moves[m].home # moves[m].to
  /\ \A v \in Villages : stationed[v][v] = 0
  /\ \A v \in Villages : hand.village = v => hand.groups[v] = 0

LoyalInv == TypeInv /\ LoyalMarch /\ LoyalDrafts /\ Apart

LEMMA LoyalInit == Init => LoyalInv
<1> SUFFICES ASSUME Init PROVE LoyalInv
  OBVIOUS
<1>1. hand.village = NoVillage
  BY DEF Init, Nothing
<1> QED
  BY <1>1, TypeInit, TroopsAssumption DEF Init, LoyalInv, LoyalMarch, LoyalDrafts, Apart, Underway, Empty

\* The hand emptied says nothing about any village.
LEMMA NoVillageInHand == hand' = Nothing => \A v \in Villages : hand'.village # v
BY TroopsAssumption DEF Nothing

LEMMA LoyalRequest ==
  ASSUME LoyalInv, NewRequest
  PROVE  LoyalMarch' /\ LoyalDrafts' /\ Apart'
<1>1. PICK r \in Requests, d \in Draft :
        /\ ReadVillage(r, d) \/ ReadGroup(r, d)
        /\ draft' = [draft EXCEPT ![r] = d] /\ d.by = owner[d.home]
  BY NewDraft DEF LoyalInv
<1>2. d.home # d.to
  BY <1>1 DEF ReadVillage, ReadGroup, LoyalInv, Apart, Draft
<1>3. UNCHANGED <<owner, stationed, moves, hand>>
  BY <1>1 DEF ReadVillage, ReadGroup, task
<1> QED
  BY <1>1, <1>2, <1>3 DEF LoyalInv, LoyalMarch, LoyalDrafts, Apart, Underway, TypeInv, TypeOK

LEMMA LoyalHandler ==
  ASSUME LoyalInv, NEW r \in Requests, NEW m \in Free, Dispatch(r, m) \/ Recall(r, m)
  PROVE  LoyalMarch' /\ LoyalDrafts' /\ Apart'
<1> DEFINE d == draft[r]
<1>1. d \in Draft /\ d.by = owner[d.home] /\ d.home # d.to /\ m \in Movements
  BY DraftTyped DEF Dispatch, Recall, LoyalInv, TypeInv, LoyalDrafts, Apart, Free
<1>2. draft' = [draft EXCEPT ![r] = NoDraft] /\ UNCHANGED <<owner, hand>>
  BY DEF Dispatch, Recall, task
<1>3. LoyalDrafts' /\ \A q \in Requests : draft'[q] # NoDraft => draft'[q].home # draft'[q].to
  BY <1>2 DEF LoyalInv, TypeInv, TypeOK, LoyalDrafts, Apart
<1>4. PICK kind \in Kinds, to \in Villages, n \in Nat : moves' = Depart(m, kind, d.home, to, d.by, n)
                                                         /\ (kind # "return" => to = d.to)
  BY <1>1 DEF Dispatch, Recall, Draft, Kinds, LoyalInv, TypeInv, TypeOK
<1>5. /\ \A k \in Movements \ {m} : moves'[k] = moves[k]
      /\ moves'[m].home = d.home /\ moves'[m].by = d.by /\ moves'[m].kind = kind /\ moves'[m].to = to
  BY <1>1, <1>4 DEF Depart, LoyalInv, TypeInv, TypeOK
<1>6. LoyalMarch'
  BY <1>1, <1>2, <1>5 DEF LoyalInv, LoyalMarch, Underway
<1>7. \A k \in Movements : Underway(k)' /\ moves'[k].kind # "return" => moves'[k].home # moves'[k].to
  BY <1>1, <1>4, <1>5 DEF LoyalInv, Apart, Underway
<1>8. \A v \in Villages : stationed'[v][v] = 0
  <2>1. CASE Dispatch(r, m)
    BY <2>1 DEF Dispatch, LoyalInv, Apart
  <2>2. CASE Recall(r, m)
    BY <1>1, <2>2 DEF Recall, Draft, LoyalInv, Apart, TypeInv, TypeOK
  <2> QED
    BY <2>1, <2>2
<1> QED
  BY <1>2, <1>3, <1>6, <1>7, <1>8 DEF LoyalInv, Apart

\* A row that goes home, or comes to its end, marches for whom it marched.
LEMMA LoyalResolve ==
  ASSUME LoyalInv, NEW m, NEW d, NEW l, NEW s, Resolve(m, d, l, s)
  PROVE  LoyalMarch' /\ LoyalDrafts' /\ Apart'
<1>1. Outcome(m, d, l, s)
  BY DEF Resolve
<1>2. m \in Movements /\ moves[m] \in Movement /\ hand.village \in Villages /\ \A h \in Villages : l[h] \in Nat
  BY <1>1, FightTyped DEF LoyalInv
<1>3. /\ \A k \in Movements \ {m} : moves'[k] = moves[k]
      /\ moves'[m] = Homeward(m, s)
  BY <1>2 DEF Resolve, LoyalInv, TypeInv, TypeOK
<1>4. Underway(m)' => /\ moves'[m].home = moves[m].home /\ moves'[m].by = moves[m].by
                      /\ moves'[m].kind = "return"
  BY <1>2, <1>3 DEF Homeward, Underway, Movement
<1>5. owner' = owner /\ draft' = draft /\ hand' = Nothing
  BY DEF Resolve, Fought
<1>6. Underway(m)
  BY <1>2, FreshNames DEF Underway
<1>7. LoyalMarch'
  BY <1>3, <1>4, <1>5, <1>6 DEF LoyalInv, LoyalMarch, Underway
<1>8. \A v \in Villages : stationed'[v][v] = 0
  BY <1>2 DEF Resolve, Less, LoyalInv, Apart, TypeInv, TypeOK
<1> QED
  BY <1>3, <1>4, <1>5, <1>7, <1>8, NoVillageInHand DEF LoyalInv, LoyalDrafts, Apart, Underway

\* A village falls, and by Quiet nobody drafts in its name and none of its rows is claimed;
\* those in transit are forfeited.
LEMMA LoyalConquer ==
  ASSUME LoyalInv, Quiet, NEW m, NEW d, NEW l, NEW s, NEW row, Conquer(m, d, l, s, row)
  PROVE  LoyalMarch' /\ LoyalDrafts' /\ Apart'
<1> DEFINE v == hand.village
<1>1. Outcome(m, d, l, s)
  BY DEF Conquer
<1>2. /\ m \in Movements /\ m \in batch /\ moves[m] \in Movement /\ v \in Villages
      /\ Underway(m) /\ moves[m].claimed
  BY <1>1, FightTyped DEF LoyalInv, TypeInv, TypeOK
<1>3. /\ \A w \in Villages : w # v => owner'[w] = owner[w]
      /\ owner'[v] # owner[v] => /\ \A r \in Requests : draft[r] # NoDraft => draft[r].home # v
                                 /\ \A k \in Movements : Underway(k) /\ moves[k].claimed => moves[k].home # v
  BY <1>2 DEF Conquer, Quiet, LoyalInv, TypeInv, TypeOK
<1>4. draft' = draft /\ hand' = Nothing /\ stationed' = [stationed EXCEPT ![v] = Empty]
  BY DEF Conquer, Fought
<1>5. LoyalDrafts'
  BY <1>3, <1>4, DraftTyped DEF LoyalInv, LoyalDrafts, TypeInv, Draft
<1>6. ASSUME NEW n \in Movements, Underway(n)'
      PROVE  /\ moves'[n].by = owner'[moves'[n].home]
             /\ moves'[n].kind # "return" => moves'[n].home # moves'[n].to
  <2>0. row \in [Leaving(l) -> Free] /\ moves' = AfterConquest(m, l, s, row)
    BY DEF Conquer, Injection
  <2>1. CASE n = m
    <3>1. moves'[m] = Homeward(m, s)
      BY <1>2, <2>0 DEF AfterConquest
    <3>2. /\ moves'[m].home = moves[m].home /\ moves'[m].by = moves[m].by
          /\ moves'[m].kind = "return"
      BY <1>2, <1>6, <2>1, <3>1 DEF Homeward, Underway, Movement
    <3>3. moves[m].by = owner[moves[m].home] /\ moves[m].home \in Villages
      BY <1>2 DEF LoyalInv, LoyalMarch, Movement
    <3> QED
      BY <1>2, <1>3, <2>1, <3>2, <3>3
  <2>2. CASE n # m /\ \E h \in Leaving(l) : row[h] = n
    <3> DEFINE h == CHOOSE g \in Leaving(l) : row[g] = n
    <3>1. h \in Leaving(l) /\ row[h] = n
      BY <2>2
    <3>2. n \notin Forfeited(v)
      BY <2>0, <3>1 DEF Forfeited, InTransit, Free
    <3>3. moves'[n] = Return(h, l)
      BY <2>0, <2>2, <3>2 DEF AfterConquest
    <3> HIDE DEF h
    <3>4. h \in Villages /\ h # v
      <4>1. hand.groups[v] = 0 /\ l[v] \in Nat
        BY <1>1, <1>2, FightTyped DEF LoyalInv, Apart
      <4> QED
        BY <3>1, <4>1 DEF Leaving
    <3> QED
      BY <1>3, <3>3, <3>4 DEF Return
  <2>3. CASE n # m /\ ~\E h \in Leaving(l) : row[h] = n
    <3>1. moves'[n] = IF n \in Forfeited(v) THEN NoMove ELSE moves[n]
      BY <2>0, <2>3 DEF AfterConquest
    <3>2. n \notin Forfeited(v) /\ moves'[n] = moves[n] /\ Underway(n)
      BY <1>6, <3>1 DEF Underway
    <3>3. moves[n] \in Movement /\ moves[n].by = owner[moves[n].home]
      BY <3>2, MoveTyped DEF LoyalInv, LoyalMarch, TypeInv
    <3>4. moves[n].home = v => moves[n].claimed
      BY <3>2 DEF Forfeited, InTransit
    <3>5. owner'[moves[n].home] = owner[moves[n].home]
      BY <1>3, <3>2, <3>3, <3>4 DEF Movement
    <3> QED
      BY <3>2, <3>3, <3>5 DEF LoyalInv, Apart
  <2> QED
    BY <2>1, <2>2, <2>3
<1>7. \A w \in Villages : stationed'[w][w] = 0
  BY <1>2, <1>4 DEF LoyalInv, Apart, TypeInv, TypeOK, Empty
<1> QED
  BY <1>4, <1>5, <1>6, <1>7, NoVillageInHand DEF LoyalInv, LoyalMarch, Apart

\* Steps that send nobody out: what marches, marches on, comes home, or is claimed or
\* released where it is.
LEMMA LoyalRest ==
  ASSUME LoyalInv,
         \/ \E r \in Requests : Refuse(r)
         \/ OtherWeb
         \/ \E m \in Movements : ClaimOf(m) \/ Fail(m) \/ Arrive(m) \/ ReadBattle(m)
         \/ \E v \in Villages : Train(v) \/ ReadCull(v)
         \/ \E s \in 0 .. hand.garrison : Cull(s)
         \/ CullSpares \/ Crash \/ Restart
         \/ UNCHANGED vars
  PROVE  LoyalMarch' /\ LoyalDrafts' /\ Apart'
<1>1. owner' = owner
  BY DEF Refuse, OtherWeb, Reward, SettleRow, ClaimOf, Claim, Fail, Arrive, ReadBattle, Train, ReadCull,
         Cull, CullSpares, Crash, Restart, vars
<1>2. \A r \in Requests : draft'[r] # NoDraft => draft'[r] = draft[r]
  <2>1. CASE \E r \in Requests : Refuse(r)
    BY <2>1 DEF Refuse, LoyalInv, TypeInv, TypeOK
  <2>2. CASE Crash
    BY <2>2 DEF Crash
  <2>3. CASE draft' = draft
    BY <2>3
  <2> QED
    BY <2>1, <2>2, <2>3 DEF OtherWeb, Reward, SettleRow, ClaimOf, Claim, Fail, Arrive, ReadBattle,
       Train, ReadCull, Cull, CullSpares, Restart, vars
<1>3. \A m \in Movements : Underway(m)' =>
        /\ Underway(m) /\ moves'[m].home = moves[m].home /\ moves'[m].to = moves[m].to
        /\ moves'[m].by = moves[m].by /\ moves'[m].kind = moves[m].kind
  <2>1. ASSUME NEW n \in Movements, ClaimOf(n), NEW m \in Movements, Underway(m)'
        PROVE  /\ Underway(m) /\ moves'[m].home = moves[m].home /\ moves'[m].to = moves[m].to
               /\ moves'[m].by = moves[m].by /\ moves'[m].kind = moves[m].kind
    <3>1. PICK S \in SUBSET Movements, kinds \in {Arrivals, Attacks} : Claim(S, kinds)
      BY <2>1 DEF ClaimOf
    <3>2. moves'[m] = IF m \in S THEN [moves[m] EXCEPT !.claimed = TRUE] ELSE moves[m]
      BY <3>1 DEF Claim
    <3>3. Underway(m)
      BY <2>1, <3>1, <3>2 DEF Claim, InTransit, Underway
    <3> QED
      BY <3>2, <3>3, MoveTyped DEF LoyalInv, TypeInv, Movement
  <2>2. ASSUME NEW n \in Movements, Arrive(n), NEW m \in Movements, Underway(m)'
        PROVE  Underway(m) /\ moves'[m] = moves[m]
    BY <2>2 DEF Arrive, Underway, LoyalInv, TypeInv, TypeOK
  <2>3. ASSUME Restart, NEW m \in Movements, Underway(m)'
        PROVE  /\ Underway(m) /\ moves'[m].home = moves[m].home /\ moves'[m].to = moves[m].to
               /\ moves'[m].by = moves[m].by /\ moves'[m].kind = moves[m].kind
    <3>1. moves'[m] = IF Underway(m) THEN [moves[m] EXCEPT !.claimed = FALSE] ELSE moves[m]
      BY <2>3 DEF Restart
    <3>2. Underway(m)
      BY <2>3, <3>1 DEF Underway
    <3> QED
      BY <3>1, <3>2, MoveTyped DEF LoyalInv, TypeInv, Movement
  <2>4. CASE moves' = moves
    BY <2>4 DEF Underway
  <2> QED
    BY <2>1, <2>2, <2>3, <2>4 DEF Refuse, OtherWeb, Reward, SettleRow, Fail, ReadBattle, Train,
       ReadCull, Cull, CullSpares, Crash, vars
<1>4. \A v \in Villages : stationed'[v][v] = 0
  <2>1. ASSUME NEW m \in Movements, Arrive(m) PROVE \A v \in Villages : stationed'[v][v] = 0
    <3> DEFINE d == moves[m]
    <3>1. d \in Movement /\ (d.kind = "reinforce" => d.home # d.to)
      BY <2>1, MoveTyped DEF Arrive, LoyalInv, TypeInv, TypeOK, Apart
    <3> QED
      BY <2>1, <3>1 DEF Arrive, Movement, LoyalInv, TypeInv, TypeOK, Apart
  <2>2. CASE stationed' = stationed
    BY <2>2 DEF LoyalInv, Apart
  <2> QED
    BY <2>1, <2>2 DEF Refuse, OtherWeb, Reward, SettleRow, ClaimOf, Claim, Fail, ReadBattle, Train,
       ReadCull, Cull, CullSpares, Crash, Restart, vars
<1>5. \A v \in Villages : hand'.village = v => hand'.groups[v] = 0
  <2>1. ASSUME NEW m \in Movements, ReadBattle(m)
        PROVE  \A v \in Villages : hand'.village = v => hand'.groups[v] = 0
    BY <2>1 DEF ReadBattle, LoyalInv, Apart
  <2>2. ASSUME NEW w \in Villages, ReadCull(w)
        PROVE  \A v \in Villages : hand'.village = v => hand'.groups[v] = 0
    BY <2>2 DEF ReadCull, Nothing, Empty
  <2>3. ASSUME NEW w \in Villages, SettleRow(w)
        PROVE  \A v \in Villages : hand'.village = v => hand'.groups[v] = 0
    BY <2>3 DEF SettleRow, LoyalInv, Apart
  <2>4. CASE hand' = Nothing
    BY <2>4, NoVillageInHand
  <2>5. CASE hand' = hand
    BY <2>5 DEF LoyalInv, Apart
  <2> QED
    BY <2>1, <2>2, <2>3, <2>4, <2>5 DEF Refuse, OtherWeb, Reward, ClaimOf, Claim, Fail, Arrive, Train,
       Cull, CullSpares, Crash, Restart, vars, task
<1>6. LoyalMarch'
  BY <1>1, <1>3 DEF LoyalInv, LoyalMarch
<1>7. LoyalDrafts'
  BY <1>1, <1>2 DEF LoyalInv, LoyalDrafts
<1> QED
  BY <1>2, <1>3, <1>4, <1>5, <1>6, <1>7 DEF LoyalInv, Apart

LEMMA LoyalStep == LoyalInv /\ [Next /\ Quiet]_vars => LoyalInv'
<1> SUFFICES ASSUME LoyalInv, [Next /\ Quiet]_vars PROVE LoyalInv'
  OBVIOUS
<1>1. TypeInv'
  BY TypeStep DEF LoyalInv
<1> SUFFICES LoyalMarch' /\ LoyalDrafts' /\ Apart'
  BY <1>1 DEF LoyalInv
<1>2. CASE NewRequest
  BY <1>2, LoyalRequest
<1>3. CASE Handlers
  BY <1>3, LoyalHandler, LoyalRest DEF Handlers
<1>4. CASE Quiet /\ Work
  <2>1. ASSUME NEW m \in Movements, Battle(m) PROVE LoyalMarch' /\ LoyalDrafts' /\ Apart'
    BY <1>4, <2>1, LoyalResolve, LoyalConquer DEF Battle
  <2> QED
    BY <1>4, <2>1, LoyalRest DEF Work
<1>5. CASE OtherWeb \/ (\E m \in Movements : ClaimOf(m) \/ Fail(m))
           \/ (\E v \in Villages : Train(v) \/ ReadCull(v)) \/ Crash \/ Restart \/ UNCHANGED vars
  BY <1>5, LoyalRest
<1> QED
  BY <1>2, <1>3, <1>4, <1>5 DEF Next

\* In a quiet history nobody's army is ever led home to an enemy: through recalls, raids,
\* conquests, failures and restarts it marches for whoever owns its home (014 AC7).
THEOREM ArmiesLoyal == QuietSpec => []LoyalMarch
<1>1. LoyalInv => LoyalMarch
  BY DEF LoyalInv
<1> QED
  BY <1>1, LoyalInit, LoyalStep, PTL DEF QuietSpec

-----------------------------------------------------------------------------
(* Soldiers in quiet histories: at home, stationed, on the march or gone *)

AbroadIn(groups, v) == [h \in Villages |-> groups[h][v]]
AwayIn(rows, v) == [m \in Movements |-> IF rows[m] # NoMove /\ rows[m].home = v THEN rows[m].troops ELSE 0]
Abroad(groups, v) == SumFunctionOnSet(AbroadIn(groups, v), Villages)
Away(rows, v) == SumFunctionOnSet(AwayIn(rows, v), Movements)

\* What a battle or a cull has read stands until it commits.
HandStands == hand # Nothing =>
  /\ hand.garrison = garrison[hand.village]
  /\ hand.move # NoMove => hand.groups = stationed[hand.village]

\* The books of one village balance.
Balanced(v) == garrison[v] + Abroad(stationed, v) + Away(moves, v) = raised[v] - gone[v]
Balance == gone \in [Villages -> Nat] /\ \A v \in Villages : Balanced(v)

\* A return is bound for its home.
HomeReturns == \A m \in Movements : Underway(m) /\ moves[m].kind = "return" => moves[m].to = moves[m].home

BooksInv == TypeInv /\ HandStands /\ HomeReturns /\ Balance

GroupsTyped(groups) == groups \in [Villages -> [Villages -> Nat]]
RowsTyped(rows) == rows \in [Movements -> Movement \cup {NoMove}]

LEMMA AbroadInt ==
  ASSUME NEW groups, GroupsTyped(groups), NEW v \in Villages
  PROVE  /\ \A h \in Villages : AbroadIn(groups, v)[h] = groups[h][v] /\ groups[h][v] \in Nat
         /\ Abroad(groups, v) \in Int
<1>1. \A h \in Villages : AbroadIn(groups, v)[h] = groups[h][v] /\ groups[h][v] \in Nat
  BY DEF AbroadIn, GroupsTyped
<1> QED
  BY <1>1, SumInt, TroopsAssumption DEF Abroad

LEMMA AwayInt ==
  ASSUME NEW rows, RowsTyped(rows), NEW v \in Villages
  PROVE  /\ \A m \in Movements : AwayIn(rows, v)[m] \in Nat
         /\ Away(rows, v) \in Int
<1>1. \A m \in Movements : AwayIn(rows, v)[m] \in Nat
  BY DEF AwayIn, RowsTyped, Movement
<1> QED
  BY <1>1, SumInt, TroopsAssumption DEF Away

\* One host's groups change.
LEMMA AbroadChange ==
  ASSUME NEW old, NEW new, GroupsTyped(old), GroupsTyped(new), NEW v \in Villages, NEW to \in Villages,
         \A h \in Villages \ {to} : new[h][v] = old[h][v]
  PROVE  Abroad(new, v) = Abroad(old, v) + new[to][v] - old[to][v]
<1> DEFINE f == AbroadIn(old, v)
           g == AbroadIn(new, v)
<1>1. /\ \A h \in Villages : f[h] = old[h][v] /\ old[h][v] \in Nat
      /\ \A h \in Villages : g[h] = new[h][v] /\ new[h][v] \in Nat
  BY AbroadInt
<1>2. \A h \in Villages : f[h] \in Int /\ g[h] \in Int
  BY <1>1
<1>3. \A h \in Villages \ {to} : g[h] = f[h]
  BY <1>1
<1>4. f[to] = old[to][v] /\ g[to] = new[to][v]
  BY <1>1
<1> HIDE DEF f, g
<1>5. SumFunctionOnSet(g, Villages) = SumFunctionOnSet(f, Villages) + g[to] - f[to]
  BY <1>2, <1>3, SumChange, TroopsAssumption
<1> QED
  BY <1>4, <1>5 DEF f, g, Abroad

\* One row changes.
LEMMA AwayChange ==
  ASSUME NEW old, NEW new, RowsTyped(old), RowsTyped(new), NEW v \in Villages, NEW m \in Movements,
         \A n \in Movements \ {m} : AwayIn(new, v)[n] = AwayIn(old, v)[n]
  PROVE  Away(new, v) = Away(old, v) + AwayIn(new, v)[m] - AwayIn(old, v)[m]
<1> DEFINE f == AwayIn(old, v)
           g == AwayIn(new, v)
<1>1. \A n \in Movements : f[n] \in Int /\ g[n] \in Int
  BY AwayInt
<1> HIDE DEF f, g
<1>2. SumFunctionOnSet(g, Movements) = SumFunctionOnSet(f, Movements) + g[m] - f[m]
  BY <1>1, SumChange, TroopsAssumption DEF f, g
<1> QED
  BY <1>2 DEF f, g, Away

\* Nobody's march changes.
LEMMA AwaySame ==
  ASSUME NEW old, NEW new, NEW v \in Villages,
         \A n \in Movements : AwayIn(new, v)[n] = AwayIn(old, v)[n]
  PROVE  Away(new, v) = Away(old, v)
BY SumSame, TroopsAssumption DEF Away

\* The invariant in the words of the model.
LEMMA BooksBalance == BooksInv => TroopsAccounted
<1> SUFFICES ASSUME BooksInv, NEW v \in Villages
             PROVE  garrison[v] + SumFunction([h \in Villages |-> stationed[h][v]])
                      + TroopsOf({m \in Movements : Underway(m) /\ moves[m].home = v})
                    = raised[v] - gone[v]
  BY DEF TroopsAccounted
<1> DEFINE P == {m \in Movements : Underway(m) /\ moves[m].home = v}
           f == [m \in P |-> moves[m].troops]
<1>1. SumFunction([h \in Villages |-> stationed[h][v]]) = Abroad(stationed, v)
  BY DEF SumFunction, Abroad, AbroadIn
<1>2. \A m \in P : f[m] \in Int
  BY MoveTyped DEF BooksInv, TypeInv, Movement
<1>3. \A m \in Movements : AwayIn(moves, v)[m] = IF m \in P THEN f[m] ELSE 0
  BY DEF AwayIn, Underway
<1>4. P \in SUBSET Movements /\ DOMAIN f = P
  OBVIOUS
<1>5. TroopsOf(P) = SumFunctionOnSet(f, P)
  BY DEF TroopsOf, SumFunction
<1> HIDE DEF P, f
<1>6. SumFunctionOnSet(f, P) = Away(moves, v)
  BY <1>2, <1>3, <1>4, SumWithin, TroopsAssumption DEF Away
<1> QED
  BY <1>1, <1>5, <1>6 DEF BooksInv, Balance, Balanced, P

LEMMA BooksInit == Init => BooksInv
<1> SUFFICES ASSUME Init PROVE BooksInv
  OBVIOUS
<1>1. HandStands /\ HomeReturns /\ gone \in [Villages -> Nat]
  BY DEF Init, HandStands, HomeReturns, Underway, Empty
<1>2. ASSUME NEW v \in Villages PROVE Balanced(v)
  <2>1. \A h \in Villages : AbroadIn(stationed, v)[h] = 0
    BY DEF Init, AbroadIn, Empty
  <2>2. \A m \in Movements : AwayIn(moves, v)[m] = 0
    BY DEF Init, AwayIn
  <2>3. Abroad(stationed, v) = 0 /\ Away(moves, v) = 0
    BY <2>1, <2>2, SumNothing, TroopsAssumption DEF Abroad, Away
  <2>4. garrison[v] \in Nat /\ raised[v] = garrison[v] /\ gone[v] = 0
    BY TroopsAssumption DEF Init, Empty
  <2> QED
    BY <2>3, <2>4 DEF Balanced
<1> QED
  BY <1>1, <1>2, TypeInit DEF BooksInv, Balance

LEMMA TypedParts ==
  ASSUME TypeInv
  PROVE  /\ GroupsTyped(stationed) /\ RowsTyped(moves)
         /\ \A v \in Villages : garrison[v] \in Nat /\ raised[v] \in Nat
BY DEF TypeInv, TypeOK, GroupsTyped, RowsTyped

\* Steps that leave every soldier where he is: requests, claims, faults, crashes and restarts.
LEMMA BooksKept ==
  ASSUME BooksInv, UNCHANGED <<garrison, stationed, books>>,
         \A m \in Movements : (Underway(m)' <=> Underway(m))
           /\ (Underway(m) => moves'[m].home = moves[m].home /\ moves'[m].troops = moves[m].troops)
  PROVE  Balance'
<1>1. ASSUME NEW v \in Villages PROVE Balanced(v)'
  <2>1. \A m \in Movements : AwayIn(moves', v)[m] = AwayIn(moves, v)[m]
    BY DEF AwayIn, Underway
  <2>2. Away(moves', v) = Away(moves, v)
    BY <2>1, AwaySame
  <2> QED
    BY <2>2 DEF Balanced, BooksInv, Balance, books
<1> QED
  BY <1>1 DEF BooksInv, Balance, books

\* A soldier is raised.
LEMMA RaiseBooks ==
  ASSUME BooksInv, NEW w \in Villages, Reward(w) \/ Train(w)
  PROVE  Balance'
<1>1. ASSUME NEW v \in Villages PROVE Balanced(v)'
  <2>1. /\ garrison' = [garrison EXCEPT ![w] = @ + 1] /\ raised' = [raised EXCEPT ![w] = @ + 1]
        /\ UNCHANGED <<stationed, moves, gone>>
    BY DEF Reward, Train
  <2>2. /\ garrison \in [Villages -> Nat] /\ raised \in [Villages -> Nat] /\ gone \in [Villages -> Nat]
        /\ Abroad(stationed, v) \in Int /\ Away(moves, v) \in Int
    BY AbroadInt, AwayInt, TypedParts DEF BooksInv, Balance, TypeInv, TypeOK
  <2>3. Balanced(v)
    BY DEF BooksInv, Balance
  <2> QED
    BY <2>1, <2>2, <2>3 DEF Balanced
<1> QED
  BY <1>1 DEF BooksInv, Balance, Reward, Train

\* A free row takes up an army.
LEMMA DepartAway ==
  ASSUME RowsTyped(moves), RowsTyped(moves'), NEW m \in Free, NEW v \in Villages,
         moves'[m] \in Movement, \A k \in Movements \ {m} : moves'[k] = moves[k]
  PROVE  Away(moves', v) = Away(moves, v) + IF v = moves'[m].home THEN moves'[m].troops ELSE 0
<1>1. m \in Movements /\ moves[m] = NoMove
  BY DEF Free, Underway
<1>2. moves'[m] # NoMove /\ moves'[m].troops \in Nat
  BY FreshNames DEF Movement
<1>3. \A k \in Movements \ {m} : AwayIn(moves', v)[k] = AwayIn(moves, v)[k]
  BY DEF AwayIn
<1>4. Away(moves', v) = Away(moves, v) + AwayIn(moves', v)[m] - AwayIn(moves, v)[m]
  BY <1>1, <1>3, AwayChange
<1>5. AwayIn(moves, v)[m] = 0 /\ AwayIn(moves', v)[m] = IF v = moves'[m].home THEN moves'[m].troops ELSE 0
  BY <1>1, <1>2 DEF AwayIn
<1>6. Away(moves, v) \in Int
  BY AwayInt
<1> QED
  BY <1>2, <1>4, <1>5, <1>6

LEMMA HandlerBooks ==
  ASSUME BooksInv, NEW r \in Requests, NEW m \in Free, Dispatch(r, m) \/ Recall(r, m)
  PROVE  Balance'
<1> DEFINE d == draft[r]
<1>1. d \in Draft /\ d.home \in Villages /\ d.to \in Villages /\ d.troops \in Nat
  BY DraftTyped DEF Dispatch, Recall, BooksInv, TypeInv, Draft
<1>2. TypeInv' /\ UNCHANGED books
  BY HandlerType DEF BooksInv, Dispatch, Recall
<1>3. /\ GroupsTyped(stationed) /\ RowsTyped(moves) /\ GroupsTyped(stationed') /\ RowsTyped(moves')
      /\ garrison \in [Villages -> Nat]
  BY <1>2 DEF BooksInv, TypeInv, TypeOK, GroupsTyped, RowsTyped
<1>4. m \in Movements
  BY DEF Free
<1>5. ASSUME NEW v \in Villages PROVE Balanced(v)'
  <2>1. Balanced(v) /\ Abroad(stationed, v) \in Int /\ Away(moves, v) \in Int /\ garrison[v] \in Nat
    BY <1>3, AbroadInt, AwayInt DEF BooksInv, Balance
  <2>2. CASE Dispatch(r, m)
    <3>1. moves' = [moves EXCEPT ![m] = [kind |-> d.kind, home |-> d.home, to |-> d.to, by |-> d.by,
                                         troops |-> d.troops, claimed |-> FALSE]]
      BY <2>2 DEF Dispatch, Depart
    <3>2. /\ moves'[m] \in Movement /\ moves'[m].home = d.home /\ moves'[m].troops = d.troops
          /\ \A k \in Movements \ {m} : moves'[k] = moves[k]
      <4>1. d.kind # "recall" /\ d.troops > 0
        BY <2>2 DEF Dispatch, BooksInv, TypeInv, Manned
      <4> QED
        BY <1>1, <1>3, <1>4, <3>1, <4>1 DEF Draft, Movement, Kinds, RowsTyped
    <3>3. Away(moves', v) = Away(moves, v) + IF v = d.home THEN d.troops ELSE 0
      BY <1>3, <3>2, DepartAway
    <3>4. /\ garrison' = [garrison EXCEPT ![d.home] = @ - d.troops]
          /\ stationed' = stationed
      BY <2>2 DEF Dispatch
    <3>5. garrison'[v] = garrison[v] - IF v = d.home THEN d.troops ELSE 0
      BY <1>1, <1>3, <3>4
    <3> QED
      BY <1>1, <1>2, <2>1, <3>3, <3>4, <3>5 DEF Balanced, books
  <2>3. CASE Recall(r, m)
    <3> DEFINE n == stationed[d.to][d.home]
    <3>1. n \in Nat \ {0}
      BY <1>1, <1>3, <2>3 DEF Recall, GroupsTyped
    <3>2. moves' = [moves EXCEPT ![m] = [kind |-> "return", home |-> d.home, to |-> d.home, by |-> d.by,
                                         troops |-> n, claimed |-> FALSE]]
      BY <2>3 DEF Recall, Depart
    <3>3. /\ moves'[m] \in Movement /\ moves'[m].home = d.home /\ moves'[m].troops = n
          /\ \A k \in Movements \ {m} : moves'[k] = moves[k]
      BY <1>1, <1>3, <1>4, <3>1, <3>2 DEF Draft, Movement, Kinds, RowsTyped
    <3>4. Away(moves', v) = Away(moves, v) + IF v = d.home THEN n ELSE 0
      BY <1>3, <3>3, DepartAway
    <3>5. /\ stationed' = [stationed EXCEPT ![d.to][d.home] = 0]
          /\ garrison' = garrison
      BY <2>3 DEF Recall
    <3>6. \A h \in Villages \ {d.to} : stationed'[h][v] = stationed[h][v]
      BY <1>1, <1>3, <3>5 DEF GroupsTyped
    <3>7. Abroad(stationed', v) = Abroad(stationed, v) + stationed'[d.to][v] - stationed[d.to][v]
      BY <1>1, <1>3, <3>6, AbroadChange
    <3>8. stationed'[d.to][v] = IF v = d.home THEN 0 ELSE stationed[d.to][v]
      BY <1>1, <1>3, <3>5 DEF GroupsTyped
    <3>9. stationed[d.to][v] \in Nat
      BY <1>1, <1>3 DEF GroupsTyped
    <3> QED
      BY <1>2, <2>1, <3>1, <3>4, <3>5, <3>7, <3>8, <3>9 DEF Balanced, books
  <2> QED
    BY <2>2, <2>3
<1> QED
  BY <1>2, <1>5 DEF BooksInv, Balance, books

\* A reinforcement is stationed, a return taken home.
LEMMA ArriveBooks ==
  ASSUME BooksInv, NEW m \in Movements, Arrive(m)
  PROVE  Balance'
<1> DEFINE a == moves[m]
<1>1. a \in Movement /\ Underway(m) /\ a.to \in Villages /\ a.home \in Villages /\ a.troops \in Nat
  BY MoveTyped DEF Arrive, BooksInv, TypeInv, TypeOK, Movement
<1>2. TypeInv' /\ UNCHANGED books
  BY ArriveType DEF BooksInv, Arrive
<1>3. /\ GroupsTyped(stationed) /\ RowsTyped(moves) /\ GroupsTyped(stationed') /\ RowsTyped(moves')
      /\ garrison \in [Villages -> Nat]
  BY <1>2 DEF BooksInv, TypeInv, TypeOK, GroupsTyped, RowsTyped
<1>4. ASSUME NEW v \in Villages PROVE Balanced(v)'
  <2>1. Balanced(v) /\ Abroad(stationed, v) \in Int /\ Away(moves, v) \in Int /\ garrison[v] \in Nat
    BY <1>3, AbroadInt, AwayInt DEF BooksInv, Balance
  <2>2. moves' = [moves EXCEPT ![m] = NoMove]
    BY DEF Arrive
  <2>3. \A k \in Movements \ {m} : AwayIn(moves', v)[k] = AwayIn(moves, v)[k]
    BY <1>3, <2>2 DEF AwayIn, RowsTyped
  <2>4. AwayIn(moves', v)[m] = 0 /\ AwayIn(moves, v)[m] = IF a.home = v THEN a.troops ELSE 0
    BY <1>1, <1>3, <2>2 DEF AwayIn, RowsTyped, Underway
  <2>5. Away(moves', v) = Away(moves, v) - IF a.home = v THEN a.troops ELSE 0
    <3>1. Away(moves', v) = Away(moves, v) + AwayIn(moves', v)[m] - AwayIn(moves, v)[m]
      BY <1>3, <2>3, AwayChange
    <3> QED
      BY <1>1, <2>1, <2>4, <3>1
  <2>6. CASE a.kind = "reinforce"
    <3>1. stationed' = [stationed EXCEPT ![a.to][a.home] = @ + a.troops] /\ garrison' = garrison
      BY <2>6 DEF Arrive
    <3>2. \A h \in Villages \ {a.to} : stationed'[h][v] = stationed[h][v]
      BY <1>1, <1>3, <3>1 DEF GroupsTyped
    <3>3. Abroad(stationed', v) = Abroad(stationed, v) + stationed'[a.to][v] - stationed[a.to][v]
      BY <1>1, <1>3, <3>2, AbroadChange
    <3>4. /\ stationed'[a.to][v] = stationed[a.to][v] + IF v = a.home THEN a.troops ELSE 0
          /\ stationed[a.to][v] \in Nat
      BY <1>1, <1>3, <3>1 DEF GroupsTyped
    <3> QED
      BY <1>1, <1>2, <2>1, <2>5, <3>1, <3>3, <3>4 DEF Balanced, books
  <2>7. CASE a.kind # "reinforce"
    <3>1. garrison' = [garrison EXCEPT ![a.to] = @ + a.troops] /\ stationed' = stationed
      BY <2>7 DEF Arrive
    <3>2. a.to = a.home
      BY <1>1, <2>7 DEF Arrive, Arrivals, BooksInv, HomeReturns
    <3>3. garrison'[v] = garrison[v] + IF v = a.home THEN a.troops ELSE 0
      BY <1>1, <1>3, <3>1, <3>2
    <3> QED
      BY <1>1, <1>2, <2>1, <2>5, <3>1, <3>3 DEF Balanced, books
  <2> QED
    BY <2>6, <2>7
<1> QED
  BY <1>2, <1>4 DEF BooksInv, Balance, books

\* In a quiet history a battle costs what is there: nobody who fell had left before.
LEMMA BattleFacts ==
  ASSUME BooksInv, NEW m, NEW d, NEW l, NEW s, Outcome(m, d, l, s)
  PROVE  LET w == hand.village IN
         /\ m \in Movements /\ Underway(m) /\ moves[m] \in Movement /\ moves[m].claimed /\ w \in Villages
         /\ hand.garrison = garrison[w] /\ hand.groups = stationed[w]
         /\ d \in Nat /\ d <= garrison[w]
         /\ \A h \in Villages : l[h] \in Nat /\ l[h] <= stationed[w][h]
         /\ s \in Nat /\ s <= moves[m].troops /\ moves[m].home \in Villages /\ moves[m].troops \in Nat
<1> DEFINE w == hand.village
<1>1. m \in batch /\ hand.move = m
  BY DEF Outcome
<1>2. m \in Movements /\ Underway(m) /\ moves[m].claimed /\ w \in Villages
  BY <1>1, FightTyped DEF BooksInv, TypeInv, TypeOK
<1>3. moves[m] \in Movement
  BY <1>2, MoveTyped DEF BooksInv, TypeInv
<1>4. hand.move # NoMove
  BY <1>1, <1>2, FreshNames
<1>5. hand # Nothing
  BY <1>4 DEF Nothing
<1>6. hand.garrison = garrison[w] /\ hand.groups = stationed[w]
  BY <1>4, <1>5 DEF BooksInv, HandStands
<1>7. /\ garrison[w] \in Nat /\ \A h \in Villages : stationed[w][h] \in Nat
  BY <1>2 DEF BooksInv, TypeInv, TypeOK
<1>8. moves[m].troops \in Nat /\ moves[m].home \in Villages
  BY <1>3 DEF Movement
<1> QED
  BY <1>2, <1>3, <1>6, <1>7, <1>8 DEF Outcome

\* The fighting row goes home with the survivors, or ends.
LEMMA HomewardAway ==
  ASSUME NEW m \in Movements, moves[m] \in Movement, NEW s \in Nat, NEW v \in Villages,
         NEW rows, rows[m] = Homeward(m, s)
  PROVE  AwayIn(rows, v)[m] = IF moves[m].home = v THEN s ELSE 0
<1>1. CASE s = 0
  BY <1>1 DEF Homeward, AwayIn
<1>2. CASE s # 0
  <2>1. /\ rows[m] = [moves[m] EXCEPT !.kind = "return", !.to = moves[m].home, !.troops = s, !.claimed = FALSE]
        /\ rows[m].home = moves[m].home /\ rows[m].troops = s
    BY <1>2 DEF Homeward, Movement
  <2>2. rows[m] \in Movement
    BY <1>2, <2>1 DEF Movement, Kinds
  <2>3. rows[m] # NoMove
    BY <2>2, FreshNames
  <2> QED
    BY <2>1, <2>3 DEF AwayIn
<1> QED
  BY <1>1, <1>2

LEMMA ResolveBooks ==
  ASSUME BooksInv, NEW m, NEW d, NEW l, NEW s, Resolve(m, d, l, s)
  PROVE  Balance'
<1> DEFINE w == hand.village
<1>1. Outcome(m, d, l, s)
  BY DEF Resolve
<1>2. /\ m \in Movements /\ Underway(m) /\ moves[m] \in Movement /\ w \in Villages
      /\ d \in Nat /\ d <= garrison[w]
      /\ \A h \in Villages : l[h] \in Nat /\ l[h] <= stationed[w][h]
      /\ s \in Nat /\ s <= moves[m].troops /\ moves[m].home \in Villages /\ moves[m].troops \in Nat
  BY <1>1, BattleFacts
<1>3. TypeInv'
  BY ResolveType DEF BooksInv
<1>4. /\ GroupsTyped(stationed) /\ RowsTyped(moves) /\ GroupsTyped(stationed') /\ RowsTyped(moves')
      /\ garrison \in [Villages -> Nat] /\ raised \in [Villages -> Nat] /\ gone \in [Villages -> Nat]
  BY <1>3 DEF BooksInv, Balance, TypeInv, TypeOK, GroupsTyped, RowsTyped
<1>5. /\ garrison' = [garrison EXCEPT ![w] = Less(@, d)]
      /\ stationed' = [stationed EXCEPT ![w] = [h \in Villages |-> Less(@[h], l[h])]]
      /\ moves' = [moves EXCEPT ![m] = Homeward(m, s)]
      /\ gone' = [h \in Villages |-> gone[h] + Fallen(m, d, l, s)[h]]
      /\ raised' = raised
  BY DEF Resolve
<1>6. \A h \in Villages : Fallen(m, d, l, s)[h] =
        l[h] + (IF h = w THEN d ELSE 0) + (IF h = moves[m].home THEN moves[m].troops - s ELSE 0)
  BY DEF Fallen
<1>7. gone' \in [Villages -> Nat]
  BY <1>2, <1>4, <1>5, <1>6
<1>8. ASSUME NEW v \in Villages PROVE Balanced(v)'
  <2>1. Balanced(v) /\ Abroad(stationed, v) \in Int /\ Away(moves, v) \in Int /\ garrison[v] \in Nat
    BY <1>4, AbroadInt, AwayInt DEF BooksInv, Balance
  <2>2. garrison'[v] = garrison[v] - IF v = w THEN d ELSE 0
    BY <1>2, <1>4, <1>5 DEF Less
  <2>3. /\ stationed'[w][v] = stationed[w][v] - l[v] /\ stationed[w][v] \in Nat
        /\ \A h \in Villages \ {w} : stationed'[h][v] = stationed[h][v]
    <3>1. stationed'[w] = [h \in Villages |-> Less(stationed[w][h], l[h])]
      BY <1>2, <1>4, <1>5 DEF GroupsTyped
    <3>2. stationed[w][v] \in Nat /\ l[v] \in Nat /\ l[v] <= stationed[w][v]
      BY <1>2, <1>4 DEF GroupsTyped
    <3>3. stationed'[w][v] = stationed[w][v] - l[v]
      BY <3>1, <3>2 DEF Less
    <3>4. \A h \in Villages \ {w} : stationed'[h] = stationed[h]
      BY <1>4, <1>5 DEF GroupsTyped
    <3> QED
      BY <3>2, <3>3, <3>4
  <2>4. Abroad(stationed', v) = Abroad(stationed, v) - l[v]
    <3>1. Abroad(stationed', v) = Abroad(stationed, v) + stationed'[w][v] - stationed[w][v]
      BY <1>2, <1>4, <2>3, AbroadChange
    <3> QED
      BY <1>2, <2>1, <2>3, <3>1
  <2>5. Away(moves', v) = Away(moves, v) - IF moves[m].home = v THEN moves[m].troops - s ELSE 0
    <3>1. moves'[m] = Homeward(m, s) /\ \A k \in Movements \ {m} : moves'[k] = moves[k]
      BY <1>2, <1>4, <1>5 DEF RowsTyped
    <3>2. \A k \in Movements \ {m} : AwayIn(moves', v)[k] = AwayIn(moves, v)[k]
      BY <3>1 DEF AwayIn
    <3>3. Away(moves', v) = Away(moves, v) + AwayIn(moves', v)[m] - AwayIn(moves, v)[m]
      BY <1>2, <1>4, <3>2, AwayChange
    <3>4. AwayIn(moves', v)[m] = IF moves[m].home = v THEN s ELSE 0
      BY <1>2, <3>1, HomewardAway
    <3>5. AwayIn(moves, v)[m] = IF moves[m].home = v THEN moves[m].troops ELSE 0
      BY <1>2 DEF AwayIn, Underway
    <3> QED
      BY <1>2, <2>1, <3>3, <3>4, <3>5
  <2>6. gone'[v] = gone[v] + l[v] + (IF v = w THEN d ELSE 0)
                           + (IF v = moves[m].home THEN moves[m].troops - s ELSE 0)
    BY <1>2, <1>4, <1>5, <1>6
  <2>7. gone[v] \in Nat /\ raised[v] \in Nat /\ raised'[v] = raised[v] /\ l[v] \in Nat
    BY <1>2, <1>4, <1>5
  <2> QED
    BY <1>2, <2>1, <2>2, <2>4, <2>5, <2>6, <2>7 DEF Balanced
<1> QED
  BY <1>7, <1>8 DEF Balance

\* What the groups that march off bring with them, and what a conquest forfeits.
LostIn(v) == [n \in Movements |-> IF n \in Forfeited(v) THEN moves[n].troops ELSE 0]

LEMMA ForfeitedSum ==
  ASSUME BooksInv, NEW v \in Villages
  PROVE  /\ \A n \in Movements : LostIn(v)[n] \in Nat
         /\ SumFunctionOnSet(LostIn(v), Movements) = TroopsOf(Forfeited(v))
         /\ TroopsOf(Forfeited(v)) \in Nat
<1> DEFINE P == Forfeited(v)
           f == [m \in P |-> moves[m].troops]
<1>1. P \in SUBSET Movements /\ DOMAIN f = P
  BY DEF Forfeited
<1>2. \A n \in P : f[n] \in Nat
  BY MoveTyped DEF BooksInv, TypeInv, Movement, Forfeited, InTransit
<1>3. \A n \in Movements : LostIn(v)[n] = IF n \in P THEN f[n] ELSE 0
  BY DEF LostIn
<1>4. \A n \in Movements : LostIn(v)[n] \in Nat
  BY <1>2, <1>3
<1>5. TroopsOf(P) = SumFunctionOnSet(f, P)
  BY DEF TroopsOf, SumFunction
<1> HIDE DEF P, f
<1>6. SumFunctionOnSet(f, P) = SumFunctionOnSet(LostIn(v), Movements)
  BY <1>1, <1>2, <1>3, SumWithin, TroopsAssumption
<1>7. SumFunctionOnSet(LostIn(v), Movements) \in Nat
  BY <1>4, SumNat, TroopsAssumption
<1> QED
  BY <1>4, <1>5, <1>6, <1>7 DEF P

\* Who is away from village v once another village, w, has fallen: rows of the fallen
\* village are forfeited, a group that leaves takes up a free row, the fighting row
\* goes home with s survivors.
LEMMA ConquestAway ==
  ASSUME BooksInv, NEW m, NEW d, NEW l, NEW s, NEW row, Conquer(m, d, l, s, row), NEW v \in Villages
  PROVE  LET w == hand.village IN
         Away(moves', v) = Away(moves, v) - (IF moves[m].home = v THEN moves[m].troops - s ELSE 0)
           + (stationed[w][v] - l[v]) - (IF v = w THEN TroopsOf(Forfeited(w)) ELSE 0)
<1> DEFINE w == hand.village
           old == AwayIn(moves, v)
           new == AwayIn(moves', v)
           kept == [n \in Movements |-> IF v = w /\ n \in Forfeited(w) THEN 0 ELSE old[n]]
           lost == [n \in Movements |-> IF v = w THEN LostIn(w)[n] ELSE 0]
           gain == [n \in Movements |-> IF v \in Leaving(l) /\ n = row[v] THEN stationed[w][v] - l[v] ELSE 0]
           home == [n \in Movements |-> IF n = m THEN IF moves[m].home = v THEN moves[m].troops - s ELSE 0 ELSE 0]
           back == [n \in Movements |-> new[n] + home[n]]
<1>1. Outcome(m, d, l, s) /\ row \in [Leaving(l) -> Free] /\ moves' = AfterConquest(m, l, s, row)
        /\ \A a, b \in Leaving(l) : row[a] = row[b] => a = b
  BY DEF Conquer, Injection, IsInjective
<1>2. /\ m \in Movements /\ Underway(m) /\ moves[m] \in Movement /\ moves[m].claimed /\ w \in Villages
      /\ hand.garrison = garrison[w] /\ hand.groups = stationed[w]
      /\ \A h \in Villages : l[h] \in Nat /\ l[h] <= stationed[w][h]
      /\ s \in Nat /\ s <= moves[m].troops /\ moves[m].home \in Villages /\ moves[m].troops \in Nat
  BY <1>1, BattleFacts
<1>3. TypeInv' /\ RowsTyped(moves) /\ RowsTyped(moves') /\ GroupsTyped(stationed)
  BY ConquerType DEF BooksInv, TypeInv, TypeOK, RowsTyped, GroupsTyped
<1>4. \A n \in Movements : old[n] \in Nat /\ new[n] \in Nat
  BY <1>3, AwayInt
<1>5. Leaving(l) = {h \in Villages : stationed[w][h] > l[h]} /\ stationed[w][v] \in Nat
  BY <1>2, <1>3 DEF Leaving, GroupsTyped
<1>6. m \notin Forfeited(w) /\ \A h \in Leaving(l) : row[h] # m /\ row[h] \notin Forfeited(w)
                                                      /\ row[h] \in Movements /\ moves[row[h]] = NoMove
  BY <1>1, <1>2 DEF Forfeited, InTransit, Free, Underway
\* Row by row: what is away afterwards, with those that fell on the fighting row, is what was
\* kept and what the groups' rows bring.
<1>7. ASSUME NEW n \in Movements PROVE back[n] = kept[n] + gain[n]
  <2>1. CASE n = m
    <3>1. moves'[m] = Homeward(m, s)
      BY <1>1, <1>2 DEF AfterConquest
    <3>2. new[m] = IF moves[m].home = v THEN s ELSE 0
      BY <1>2, <3>1, HomewardAway
    <3>3. old[m] = IF moves[m].home = v THEN moves[m].troops ELSE 0
      BY <1>2 DEF AwayIn, Underway
    <3>4. gain[m] = 0 /\ kept[m] = old[m]
      BY <1>2, <1>6
    <3>5. home[m] = IF moves[m].home = v THEN moves[m].troops - s ELSE 0
      BY <1>2
    <3> QED
      BY <1>2, <2>1, <3>2, <3>3, <3>4, <3>5
  <2>2. CASE n # m /\ \E h \in Leaving(l) : row[h] = n
    <3> DEFINE h == CHOOSE g \in Leaving(l) : row[g] = n
    <3>1. h \in Leaving(l) /\ row[h] = n
      BY <2>2
    <3>2. n \notin Forfeited(w) /\ moves[n] = NoMove
      BY <1>6, <3>1
    <3>3. moves'[n] = Return(h, l)
      BY <1>1, <2>2, <3>2 DEF AfterConquest
    <3> HIDE DEF h
    <3>4. h \in Villages /\ moves'[n].home = h /\ moves'[n].troops = stationed[w][h] - l[h]
      BY <1>2, <1>5, <3>1, <3>3 DEF Return
    <3>5. moves'[n] # NoMove
      <4>1. owner[h] \in Players /\ stationed[w][h] \in Nat /\ l[h] \in Nat /\ stationed[w][h] > l[h]
        BY <1>2, <1>3, <1>5, <3>1, <3>4 DEF GroupsTyped, BooksInv, TypeInv, TypeOK
      <4>2. moves'[n] \in Movement
        BY <1>2, <3>3, <3>4, <4>1 DEF Return, Movement, Kinds
      <4> QED
        BY <4>2, FreshNames
    <3>6. new[n] = IF h = v THEN stationed[w][h] - l[h] ELSE 0
      BY <3>4, <3>5 DEF AwayIn
    <3>7. kept[n] = 0 /\ home[n] = 0
      BY <2>2, <3>2 DEF AwayIn
    <3>8. gain[n] = IF h = v THEN stationed[w][v] - l[v] ELSE 0
      BY <1>1, <3>1
    <3>9. back[n] = new[n] + home[n]
      OBVIOUS
    <3>10. stationed[w][v] - l[v] \in Int
      BY <1>2, <1>5
    <3> HIDE DEF new, kept, home, gain, back
    <3> QED
      BY <3>6, <3>7, <3>8, <3>9, <3>10
  <2>3. CASE n # m /\ ~\E h \in Leaving(l) : row[h] = n
    <3>1. moves'[n] = IF n \in Forfeited(w) THEN NoMove ELSE moves[n]
      BY <1>1, <2>3 DEF AfterConquest
    <3>2. n \in Forfeited(w) => moves[n].home = w
      BY DEF Forfeited
    <3>3. new[n] = kept[n]
      BY <3>1, <3>2 DEF AwayIn
    <3>4. gain[n] = 0 /\ home[n] = 0
      BY <2>3
    <3>5. back[n] = new[n] + home[n] /\ new[n] \in Nat
      BY <1>4
    <3> HIDE DEF new, kept, home, gain, back
    <3> QED
      BY <3>3, <3>4, <3>5
  <2> QED
    BY <2>1, <2>2, <2>3
<1>8. ASSUME NEW n \in Movements PROVE old[n] = kept[n] + lost[n]
  <2>1. n \in Forfeited(w) => moves[n].home = w /\ moves[n] # NoMove
    BY DEF Forfeited, InTransit, Underway
  <2> QED
    BY <1>4, <2>1 DEF LostIn, AwayIn
<1>9. \A n \in Movements : kept[n] \in Int /\ lost[n] \in Int /\ gain[n] \in Int /\ home[n] \in Int
  <2>1. \A n \in Movements : kept[n] \in Int
    BY <1>4
  <2>2. \A n \in Movements : lost[n] \in Int
    BY <1>2, ForfeitedSum
  <2>3. \A n \in Movements : gain[n] \in Int
    BY <1>2, <1>5
  <2>4. \A n \in Movements : home[n] \in Int
    BY <1>2
  <2> QED
    BY <2>1, <2>2, <2>3, <2>4
<1>10. \A n \in Movements : back[n] = new[n] + home[n]
  OBVIOUS
<1> DEFINE Total(f) == SumFunctionOnSet(f, Movements)
<1>11. Total(home) = IF moves[m].home = v THEN moves[m].troops - s ELSE 0
  <2>1. home[m] = (IF moves[m].home = v THEN moves[m].troops - s ELSE 0) /\ \A n \in Movements \ {m} : home[n] = 0
    BY <1>2
  <2> HIDE DEF home
  <2> QED
    BY <1>2, <1>9, <2>1, SumOne, TroopsAssumption
<1>12. Total(gain) = stationed[w][v] - l[v]
  <2>1. CASE v \in Leaving(l)
    <3>1. row[v] \in Movements /\ gain[row[v]] = stationed[w][v] - l[v] /\ \A n \in Movements \ {row[v]} : gain[n] = 0
      BY <1>6, <2>1
    <3> HIDE DEF gain
    <3> QED
      BY <1>9, <3>1, SumOne, TroopsAssumption
  <2>2. CASE v \notin Leaving(l)
    <3>1. \A n \in Movements : gain[n] = 0
      BY <2>2
    <3>2. stationed[w][v] - l[v] = 0
      BY <1>2, <1>5, <2>2
    <3> HIDE DEF gain
    <3> QED
      BY <3>1, <3>2, SumNothing, TroopsAssumption
  <2> QED
    BY <2>1, <2>2
<1>13. Total(lost) = IF v = w THEN TroopsOf(Forfeited(w)) ELSE 0
  <2>1. CASE v = w
    <3>1. \A n \in Movements : lost[n] = LostIn(w)[n]
      BY <2>1
    <3>2. Total(lost) = Total(LostIn(w))
      <4> HIDE DEF lost
      <4> QED
        BY <3>1, SumSame, TroopsAssumption
    <3> QED
      BY <1>2, <2>1, <3>2, ForfeitedSum
  <2>2. CASE v # w
    <3>1. \A n \in Movements : lost[n] = 0
      BY <2>2
    <3> HIDE DEF lost
    <3> QED
      BY <2>2, <3>1, SumNothing, TroopsAssumption
  <2> QED
    BY <2>1, <2>2
<1> HIDE DEF old, new, kept, lost, gain, home, back
<1>14. Total(old) = Total(kept) + Total(lost)
  BY <1>8, <1>9, SumPlus, TroopsAssumption
<1>15. Total(back) = Total(kept) + Total(gain)
  BY <1>7, <1>9, SumPlus, TroopsAssumption
<1>16. Total(back) = Total(new) + Total(home)
  BY <1>4, <1>9, <1>10, SumPlus, TroopsAssumption
<1>17. /\ Total(kept) \in Int /\ Total(new) \in Int /\ Total(lost) \in Int /\ Total(gain) \in Int
       /\ Total(home) \in Int
  BY <1>4, <1>9, SumInt, TroopsAssumption
<1>18. Away(moves', v) = Total(new) /\ Away(moves, v) = Total(old)
  BY DEF Away, old, new
<1> HIDE DEF Total, w
<1>19. Total(new) = Total(old) - Total(home) + Total(gain) - Total(lost)
  BY <1>14, <1>15, <1>16, <1>17
<1> QED
  BY <1>11, <1>12, <1>13, <1>18, <1>19 DEF w

LEMMA ConquerBooks ==
  ASSUME BooksInv, NEW m, NEW d, NEW l, NEW s, NEW row, Conquer(m, d, l, s, row)
  PROVE  Balance'
<1> DEFINE w == hand.village
           lost == TroopsOf(Forfeited(w))
<1>1. Outcome(m, d, l, s)
  BY DEF Conquer
<1>2. /\ w \in Villages /\ hand.garrison = garrison[w]
      /\ d \in Nat /\ d <= garrison[w]
      /\ \A h \in Villages : l[h] \in Nat /\ l[h] <= stationed[w][h]
      /\ s \in Nat /\ s <= moves[m].troops /\ moves[m].home \in Villages /\ moves[m].troops \in Nat
  BY <1>1, BattleFacts
<1>3. TypeInv'
  BY ConquerType DEF BooksInv
<1>4. /\ GroupsTyped(stationed) /\ RowsTyped(moves) /\ GroupsTyped(stationed') /\ RowsTyped(moves')
      /\ garrison \in [Villages -> Nat] /\ raised \in [Villages -> Nat] /\ gone \in [Villages -> Nat]
  BY <1>3 DEF BooksInv, Balance, TypeInv, TypeOK, GroupsTyped, RowsTyped
<1>5. /\ garrison' = [garrison EXCEPT ![w] = 0]
      /\ stationed' = [stationed EXCEPT ![w] = Empty]
      /\ gone' = [h \in Villages |-> gone[h] + Fallen(m, d, l, s)[h] +
                   IF h = w THEN hand.garrison - d + lost ELSE 0]
      /\ raised' = raised
  BY DEF Conquer
<1>6. \A h \in Villages : Fallen(m, d, l, s)[h] =
        l[h] + (IF h = w THEN d ELSE 0) + (IF h = moves[m].home THEN moves[m].troops - s ELSE 0)
  BY DEF Fallen
<1>7. lost \in Nat
  BY <1>2, ForfeitedSum
<1>8. \A v \in Villages : Away(moves', v) = Away(moves, v)
        - (IF moves[m].home = v THEN moves[m].troops - s ELSE 0)
        + (stationed[w][v] - l[v]) - (IF v = w THEN lost ELSE 0)
  BY ConquestAway
<1> HIDE DEF w, lost
<1>9. ASSUME NEW v \in Villages PROVE Balanced(v)' /\ gone'[v] \in Nat
  <2>1. Balanced(v) /\ Abroad(stationed, v) \in Int /\ Away(moves, v) \in Int /\ garrison[v] \in Nat
    BY <1>4, AbroadInt, AwayInt DEF BooksInv, Balance
  <2>2. garrison'[v] = IF v = w THEN 0 ELSE garrison[v]
    BY <1>2, <1>4, <1>5
  <2>3. Abroad(stationed', v) = Abroad(stationed, v) - stationed[w][v] /\ stationed[w][v] \in Nat
    <3>1. stationed'[w][v] = 0 /\ \A h \in Villages \ {w} : stationed'[h][v] = stationed[h][v]
      BY <1>2, <1>4, <1>5 DEF GroupsTyped, Empty
    <3>2. Abroad(stationed', v) = Abroad(stationed, v) + stationed'[w][v] - stationed[w][v]
      BY <1>2, <1>4, <3>1, AbroadChange
    <3>3. stationed[w][v] \in Nat
      BY <1>2, <1>4 DEF GroupsTyped
    <3> QED
      BY <2>1, <3>1, <3>2, <3>3
  <2>4. Away(moves', v) = Away(moves, v)
          - (IF moves[m].home = v THEN moves[m].troops - s ELSE 0)
          + (stationed[w][v] - l[v]) - (IF v = w THEN lost ELSE 0)
    BY <1>8
  <2>5. gone'[v] = gone[v] + (l[v] + (IF v = w THEN d ELSE 0)
                              + (IF v = moves[m].home THEN moves[m].troops - s ELSE 0))
                           + (IF v = w THEN garrison[w] - d + lost ELSE 0)
    BY <1>2, <1>5, <1>6
  <2>6. gone[v] \in Nat /\ raised[v] \in Nat /\ raised'[v] = raised[v] /\ l[v] \in Nat
    BY <1>2, <1>4, <1>5
  <2>7. CASE v = w
    <3> DEFINE e == IF moves[m].home = v THEN moves[m].troops - s ELSE 0
    <3>1. e \in Nat /\ garrison'[v] = 0 /\ garrison[v] - d \in Nat /\ d \in Nat
      BY <1>2, <2>1, <2>2, <2>7
    <3>2. /\ Away(moves', v) = Away(moves, v) - e + (stationed[w][v] - l[v]) - lost
          /\ gone'[v] = gone[v] + (l[v] + d + e) + (garrison[v] - d + lost)
      BY <2>4, <2>5, <2>7
    <3> DEFINE k == garrison[v] - d
    <3>3. k \in Nat /\ garrison[v] = k + d
      BY <2>1, <3>1
    <3>4. gone'[v] = gone[v] + l[v] + d + e + k + lost
      BY <1>7, <2>6, <3>1, <3>2, <3>3
    <3> HIDE DEF e, k
    <3>5. gone'[v] \in Nat
      BY <1>7, <2>6, <3>1, <3>3, <3>4
    <3>6. garrison'[v] + Abroad(stationed', v) + Away(moves', v) = raised'[v] - gone'[v]
      BY <1>7, <2>1, <2>3, <2>6, <3>1, <3>2, <3>3, <3>4 DEF Balanced
    <3> QED
      BY <3>5, <3>6 DEF Balanced
  <2>8. CASE v # w
    BY <1>2, <1>7, <2>1, <2>2, <2>3, <2>4, <2>5, <2>6, <2>8 DEF Balanced
  <2> QED
    BY <2>7, <2>8
<1>10. gone' \in [Villages -> Nat]
  BY <1>5, <1>9
<1> QED
  BY <1>9, <1>10 DEF Balance

\* The cull replaces a garrison that is still the one it has read.
LEMMA CullBooks ==
  ASSUME BooksInv, NEW s, Cull(s)
  PROVE  Balance'
<1> DEFINE w == hand.village
<1>1. hand # Nothing /\ hand.move = NoMove /\ s \in 0 .. hand.garrison - 1
  BY DEF Cull, Culling
<1>2. w \in Villages /\ hand.garrison = garrison[w] /\ hand.garrison \in Nat
  BY <1>1 DEF BooksInv, TypeInv, TypeOK, HandStands
<1>3. /\ GroupsTyped(stationed) /\ RowsTyped(moves)
      /\ garrison \in [Villages -> Nat] /\ raised \in [Villages -> Nat] /\ gone \in [Villages -> Nat]
  BY TypedParts DEF BooksInv, Balance, TypeInv, TypeOK
<1>4. /\ garrison' = [garrison EXCEPT ![w] = s] /\ gone' = [gone EXCEPT ![w] = @ + hand.garrison - s]
      /\ UNCHANGED <<stationed, moves, raised>>
  BY DEF Cull
<1>5. s \in Nat /\ s < garrison[w] /\ garrison[w] \in Nat
  BY <1>1, <1>2
<1> HIDE DEF w
<1>6. ASSUME NEW v \in Villages PROVE Balanced(v)'
  <2>1. Balanced(v) /\ Abroad(stationed, v) \in Int /\ Away(moves, v) \in Int
    BY <1>3, AbroadInt, AwayInt DEF BooksInv, Balance
  <2> QED
    BY <1>2, <1>3, <1>4, <1>5, <2>1 DEF Balanced
<1>7. gone' \in [Villages -> Nat]
  BY <1>2, <1>3, <1>4, <1>5
<1> QED
  BY <1>6, <1>7 DEF Balance

\* Every step keeps the books.
LEMMA BalanceStep ==
  ASSUME BooksInv, [Next /\ Quiet]_vars
  PROVE  Balance'
<1>1. ASSUME UNCHANGED <<garrison, stationed, moves, books>> PROVE Balance'
  BY <1>1, BooksKept DEF Underway
<1>2. CASE NewRequest
  <2>1. UNCHANGED <<garrison, stationed, moves, books>>
    BY <1>2 DEF NewRequest, ReadVillage, ReadGroup
  <2> QED
    BY <1>1, <2>1
<1>3. CASE Handlers
  <2>1. ASSUME NEW r \in Requests, Refuse(r) PROVE Balance'
    BY <1>1, <2>1 DEF Refuse
  <2> QED
    BY <1>3, <2>1, HandlerBooks DEF Handlers
<1>4. CASE OtherWeb
  <2>1. ASSUME NEW v \in Villages, SettleRow(v) PROVE Balance'
    BY <1>1, <2>1 DEF SettleRow
  <2> QED
    BY <1>4, <2>1, RaiseBooks DEF OtherWeb
<1>5. ASSUME NEW n \in Movements, ClaimOf(n) PROVE Balance'
  <2>1. PICK S \in SUBSET Movements, kinds \in {Arrivals, Attacks} : Claim(S, kinds)
    BY <1>5 DEF ClaimOf
  <2>2. /\ UNCHANGED <<garrison, stationed, books>>
        /\ \A m \in S : Underway(m)
        /\ \A m \in Movements : moves'[m] = IF m \in S THEN [moves[m] EXCEPT !.claimed = TRUE] ELSE moves[m]
    BY <2>1 DEF Claim, InTransit
  <2>3. ASSUME NEW m \in Movements
        PROVE  /\ Underway(m)' <=> Underway(m)
               /\ Underway(m) => moves'[m].home = moves[m].home /\ moves'[m].troops = moves[m].troops
    <3>1. CASE m \in S
      <4>1. moves[m] \in Movement
        BY <2>2, <3>1, MoveTyped DEF BooksInv, TypeInv
      <4>2. moves'[m] \in Movement /\ moves'[m].home = moves[m].home /\ moves'[m].troops = moves[m].troops
        BY <2>2, <3>1, <4>1 DEF Movement
      <4> QED
        BY <2>2, <3>1, <4>2, FreshNames DEF Underway
    <3>2. CASE m \notin S
      BY <2>2, <3>2 DEF Underway
    <3> QED
      BY <3>1, <3>2
  <2> QED
    BY <2>2, <2>3, BooksKept
<1>6. ASSUME NEW m \in Movements, Fail(m) \/ ReadBattle(m) PROVE Balance'
  BY <1>1, <1>6 DEF Fail, ReadBattle
<1>7. ASSUME NEW v \in Villages, ReadCull(v) PROVE Balance'
  BY <1>1, <1>7 DEF ReadCull
<1>8. CASE Work
  <2>1. ASSUME NEW m \in Movements, Battle(m) PROVE Balance'
    BY <2>1, ResolveBooks, ConquerBooks DEF Battle
  <2>2. CASE CullSpares
    BY <1>1, <2>2 DEF CullSpares
  <2> QED
    BY <1>6, <1>8, <2>1, <2>2, ArriveBooks, CullBooks DEF Work
<1>9. CASE Crash
  BY <1>1, <1>9 DEF Crash
<1>10. CASE Restart
  <2>1. /\ UNCHANGED <<garrison, stationed, books>>
        /\ \A m \in Movements : moves'[m] = IF Underway(m) THEN [moves[m] EXCEPT !.claimed = FALSE] ELSE moves[m]
    BY <1>10 DEF Restart
  <2>2. ASSUME NEW m \in Movements
        PROVE  /\ Underway(m)' <=> Underway(m)
               /\ Underway(m) => moves'[m].home = moves[m].home /\ moves'[m].troops = moves[m].troops
    <3>1. CASE Underway(m)
      <4>1. moves[m] \in Movement
        BY <3>1, MoveTyped DEF BooksInv, TypeInv
      <4>2. moves'[m] \in Movement /\ moves'[m].home = moves[m].home /\ moves'[m].troops = moves[m].troops
        BY <2>1, <3>1, <4>1 DEF Movement
      <4> QED
        BY <3>1, <4>2, FreshNames DEF Underway
    <3>2. CASE ~Underway(m)
      BY <2>1, <3>2 DEF Underway
    <3> QED
      BY <3>1, <3>2
  <2> QED
    BY <2>1, <2>2, BooksKept
<1>11. CASE UNCHANGED vars
  BY <1>1, <1>11 DEF vars, books
<1> QED
  BY <1>2, <1>3, <1>4, <1>5, <1>6, <1>7, <1>8, <1>9, <1>10, <1>11, RaiseBooks DEF Next

\* What is in hand was read off the rows, and Quiet keeps the rows as they were read.
LEMMA HandStep ==
  ASSUME BooksInv, [Next /\ Quiet]_vars
  PROVE  HandStands'
<1>1. CASE hand' = Nothing
  BY <1>1 DEF HandStands
<1>2. ASSUME hand # Nothing, UNCHANGED <<garrison, stationed>>,
             /\ hand'.village = hand.village /\ hand'.move = hand.move
             /\ hand'.garrison = hand.garrison /\ hand'.groups = hand.groups
      PROVE  HandStands'
  BY <1>2 DEF BooksInv, HandStands
<1>3. CASE hand' = hand /\ hand # Nothing /\ Quiet
  BY <1>3 DEF Quiet, BooksInv, HandStands
<1>4. CASE hand' = hand
  BY <1>1, <1>2, <1>3, <1>4 DEF vars
<1>5. ASSUME NEW m \in Movements, ReadBattle(m) PROVE HandStands'
  BY <1>5 DEF ReadBattle, HandStands
<1>6. ASSUME NEW v \in Villages, ReadCull(v) PROVE HandStands'
  BY <1>6 DEF ReadCull, HandStands, Nothing
<1>7. ASSUME NEW v \in Villages, SettleRow(v) PROVE HandStands'
  <2>1. hand # Nothing
    BY <1>7, TroopsAssumption DEF SettleRow, Nothing
  <2>2. /\ hand'.village = hand.village /\ hand'.move = hand.move
        /\ hand'.garrison = hand.garrison /\ hand'.groups = hand.groups
    BY <1>7 DEF SettleRow
  <2> QED
    BY <1>2, <1>7, <2>1, <2>2 DEF SettleRow
<1>8. CASE NewRequest \/ Handlers
  <2>1. CASE NewRequest
    BY <1>4, <2>1 DEF NewRequest, ReadVillage, ReadGroup, task
  <2>2. ASSUME NEW r \in Requests, NEW m, Recall(r, m) \/ Dispatch(r, m) PROVE hand' = hand
    BY <2>2 DEF Recall, Dispatch, task
  <2>3. ASSUME NEW r \in Requests, Refuse(r) PROVE hand' = hand
    BY <2>3 DEF Refuse, task
  <2> QED
    BY <1>4, <1>8, <2>1, <2>2, <2>3 DEF Handlers
<1>9. CASE OtherWeb
  <2>1. ASSUME NEW v \in Villages, Reward(v) PROVE hand' = hand
    BY <2>1 DEF Reward, task
  <2> QED
    BY <1>4, <1>7, <1>9, <2>1 DEF OtherWeb
<1>10. ASSUME NEW m \in Movements, ClaimOf(m) \/ Fail(m) \/ Arrive(m) PROVE HandStands'
  BY <1>1, <1>4, <1>10 DEF ClaimOf, Claim, Fail, Arrive
<1>11. ASSUME NEW v \in Villages, Train(v) PROVE HandStands'
  BY <1>4, <1>11 DEF Train, task
<1>12. CASE Work
  <2>1. ASSUME NEW m \in Movements, Battle(m) PROVE hand' = Nothing
    BY <2>1 DEF Battle, Resolve, Conquer, Fought
  <2>2. CASE CullSpares \/ \E s \in 0 .. hand.garrison : Cull(s)
    BY <1>1, <2>2 DEF CullSpares, Cull
  <2> QED
    BY <1>1, <1>5, <1>10, <1>12, <2>1, <2>2 DEF Work
<1>13. CASE Crash \/ Restart \/ UNCHANGED vars
  BY <1>1, <1>4, <1>13 DEF Crash, Restart, vars
<1> QED
  BY <1>5, <1>6, <1>8, <1>9, <1>10, <1>11, <1>12, <1>13 DEF Next

\* An army that turns for home is sent there, and a row's goal never changes otherwise.
LEMMA ReturnsStep ==
  ASSUME BooksInv, [Next /\ Quiet]_vars
  PROVE  HomeReturns'
<1> DEFINE Fine(n) == Underway(n)' /\ moves'[n].kind = "return" => moves'[n].to = moves'[n].home
<1>1. SUFFICES ASSUME NEW n \in Movements PROVE Fine(n)
  BY DEF HomeReturns
<1>2. ASSUME moves'[n] = moves[n] PROVE Fine(n)
  BY <1>2 DEF BooksInv, HomeReturns, Underway
<1>3. ASSUME Underway(n), NEW c, moves'[n] = [moves[n] EXCEPT !.claimed = c] PROVE Fine(n)
  <2>1. moves[n] \in Movement
    BY <1>3, MoveTyped DEF BooksInv, TypeInv
  <2>2. moves'[n].kind = moves[n].kind /\ moves'[n].to = moves[n].to /\ moves'[n].home = moves[n].home
    BY <1>3, <2>1 DEF Movement
  <2> QED
    BY <1>3, <2>2 DEF BooksInv, HomeReturns
<1>4. moves \in [Movements -> Movement \cup {NoMove}]
  BY DEF BooksInv, TypeInv, TypeOK
<1>5. CASE Handlers
  <2>1. ASSUME NEW r \in Requests, NEW m \in Free, Dispatch(r, m) \/ Recall(r, m) PROVE Fine(n)
    <3>1. CASE n # m
      BY <1>2, <1>4, <2>1, <3>1 DEF Dispatch, Recall, Depart
    <3>2. CASE n = m /\ Recall(r, m)
      BY <1>4, <3>2 DEF Recall, Depart
    <3>3. CASE n = m /\ Dispatch(r, m)
      <4>1. draft[r] \in Draft /\ draft[r].kind # "recall"
        BY <3>3, DraftTyped DEF Dispatch, BooksInv, TypeInv
      <4>2. moves'[n].kind = draft[r].kind
        BY <1>4, <3>3 DEF Dispatch, Depart
      <4> QED
        BY <4>1, <4>2 DEF Draft
    <3> QED
      BY <2>1, <3>1, <3>2, <3>3
  <2>2. ASSUME NEW r \in Requests, Refuse(r) PROVE Fine(n)
    BY <1>2, <2>2 DEF Refuse
  <2> QED
    BY <1>5, <2>1, <2>2 DEF Handlers
<1>6. ASSUME NEW m \in Movements, ClaimOf(m) PROVE Fine(n)
  <2>1. PICK S \in SUBSET Movements, kinds \in {Arrivals, Attacks} : Claim(S, kinds)
    BY <1>6 DEF ClaimOf
  <2>2. CASE n \in S
    BY <1>3, <2>1, <2>2 DEF Claim, InTransit
  <2>3. CASE n \notin S
    BY <1>2, <2>1, <2>3 DEF Claim
  <2> QED
    BY <2>2, <2>3
<1>7. ASSUME NEW m \in Movements, Arrive(m) PROVE Fine(n)
  BY <1>2, <1>4, <1>7 DEF Arrive, Underway
<1>8. ASSUME NEW m, NEW d, NEW l, NEW s, Outcome(m, d, l, s), moves'[m] = Homeward(m, s), n = m
      PROVE  Fine(n)
  <2>1. moves[m] \in Movement
    BY <1>8, BattleFacts
  <2>2. CASE s = 0
    BY <1>8, <2>2 DEF Homeward, Underway
  <2>3. CASE s # 0
    <3>1. moves'[n].to = moves[m].home /\ moves'[n].home = moves[m].home
      BY <1>8, <2>1, <2>3 DEF Homeward, Movement
    <3> QED
      BY <3>1
  <2> QED
    BY <2>2, <2>3
<1>9. ASSUME NEW m, NEW d, NEW l, NEW s, Resolve(m, d, l, s) PROVE Fine(n)
  <2>1. Outcome(m, d, l, s) /\ moves' = [moves EXCEPT ![m] = Homeward(m, s)]
    BY <1>9 DEF Resolve
  <2>2. CASE n = m
    BY <1>4, <1>8, <2>1, <2>2
  <2>3. CASE n # m
    BY <1>2, <1>4, <2>1, <2>3
  <2> QED
    BY <2>2, <2>3
<1>10. ASSUME NEW m, NEW d, NEW l, NEW s, NEW row, Conquer(m, d, l, s, row) PROVE Fine(n)
  <2>1. Outcome(m, d, l, s) /\ moves' = AfterConquest(m, l, s, row)
        /\ row \in [Leaving(l) -> Free]
    BY <1>10 DEF Conquer, Injection
  <2>2. CASE n = m
    <3>1. moves'[m] = Homeward(m, s)
      BY <2>1, <2>2 DEF AfterConquest
    <3> QED
      BY <1>8, <2>1, <2>2, <3>1
  <2>3. CASE n # m /\ \E h \in Leaving(l) : row[h] = n
    <3>1. n \notin Forfeited(hand.village)
      BY <2>1, <2>3 DEF Forfeited, InTransit, Free
    <3>2. PICK h : moves'[n] = Return(h, l)
      BY <2>1, <2>3, <3>1 DEF AfterConquest
    <3> QED
      BY <3>2 DEF Return
  <2>4. CASE n # m /\ ~\E h \in Leaving(l) : row[h] = n
    <3>1. moves'[n] = IF n \in Forfeited(hand.village) THEN NoMove ELSE moves[n]
      BY <2>1, <2>4 DEF AfterConquest
    <3> QED
      BY <1>2, <3>1 DEF Underway
  <2> QED
    BY <2>2, <2>3, <2>4
<1>11. CASE Restart
  <2>1. moves'[n] = IF Underway(n) THEN [moves[n] EXCEPT !.claimed = FALSE] ELSE moves[n]
    BY <1>11 DEF Restart
  <2> QED
    BY <1>2, <1>3, <2>1
<1>12. CASE UNCHANGED moves
  BY <1>2, <1>12
<1> HIDE DEF Fine
<1>13. CASE Work
  <2>1. ASSUME NEW m \in Movements, Battle(m) PROVE Fine(n)
    BY <1>9, <1>10, <2>1 DEF Battle
  <2>2. ASSUME NEW m \in Movements, ReadBattle(m) PROVE UNCHANGED moves
    BY <2>2 DEF ReadBattle
  <2>3. CASE CullSpares \/ \E s \in 0 .. hand.garrison : Cull(s)
    BY <1>12, <2>3 DEF CullSpares, Cull
  <2> QED
    BY <1>7, <1>12, <1>13, <2>1, <2>2, <2>3 DEF Work
<1>14. CASE NewRequest \/ OtherWeb \/ (\E m \in Movements : Fail(m))
            \/ (\E v \in Villages : Train(v) \/ ReadCull(v)) \/ Crash \/ UNCHANGED vars
  <2>1. CASE NewRequest
    BY <1>12, <2>1 DEF NewRequest, ReadVillage, ReadGroup
  <2>2. CASE OtherWeb
    BY <1>12, <2>2 DEF OtherWeb, Reward, SettleRow
  <2>3. CASE \E m \in Movements : Fail(m)
    BY <1>12, <2>3 DEF Fail
  <2>4. CASE \E v \in Villages : Train(v) \/ ReadCull(v)
    BY <1>12, <2>4 DEF Train, ReadCull
  <2>5. CASE Crash \/ UNCHANGED vars
    BY <1>12, <2>5 DEF Crash, vars
  <2> QED
    BY <1>14, <2>1, <2>2, <2>3, <2>4, <2>5
<1> QED
  BY <1>5, <1>6, <1>11, <1>13, <1>14 DEF Next

LEMMA BooksStep == BooksInv /\ [Next /\ Quiet]_vars => BooksInv'
<1> SUFFICES ASSUME BooksInv, [Next /\ Quiet]_vars PROVE BooksInv'
  OBVIOUS
<1>1. TypeInv'
  BY TypeStep DEF BooksInv
<1> QED
  BY <1>1, BalanceStep, HandStep, ReturnsStep DEF BooksInv

\* In a quiet history every soldier ever raised for a village is at home, stationed somewhere,
\* marching, or reported gone: neither a battle fought from what was read before, nor a cull
\* that replaces a garrison, nor a conquest that sends groups home and forfeits marches, nor a
\* crash with its requeue ever loses or doubles one.
THEOREM SoldiersAccounted == QuietSpec => []TroopsAccounted
<1> QED
  BY BooksInit, BooksStep, BooksBalance, PTL DEF QuietSpec
=============================================================================
