---------------------------- MODULE HoldingsProofs ----------------------------
(***************************************************************************)
(* Proofs about Oases, for every set of villages, oases, rows and instances  *)
(* and every strength, distance and bound; and about Upkeep, for every       *)
(* roster, what its units eat, and every store, batch and bound.  Types hold *)
(* of every history of either.                                               *)
(* Oases: of a quiet history, four invariants, each inductive with the ones  *)
(* before it.  RowsHeld: a party which somebody handles is his alone and     *)
(* still the one that was claimed.  Mannered: who stands where.  StillRead:  *)
(* what a battle or a reinforcement has read of an oasis is still so.        *)
(* Balanced: men are only moved.  From them, that every man is accounted for *)
(* and that no village occupies an oasis beyond its Outpost.                 *)
(* Upkeep: what a cull takes and leaves, by sums over the units in the order *)
(* of their hunger.  Then, of a quiet history, that what re-syncs and the    *)
(* starvation pass have read is so when they write, and that an army in want *)
(* has a check in time.                                                      *)
(***************************************************************************)
EXTENDS MCHoldings, SumProofs, TLAPS

-----------------------------------------------------------------------------
(* Oases: types *)

\* What is claimed was due, and is handled where it arrived; a regrowth that was read was due.
BatchesDue == \A i \in Instances, m \in Parties : batches[i][m] # NoParty => batches[i][m].due <= day
HandsTyped == \A i \in Instances :
  /\ Holds(i) => /\ hands[i].row \in Parties /\ hands[i].of \in Party
                 /\ hands[i].of.due <= day /\ hands[i].at = hands[i].of.to
  /\ Doing(i, "regrow") => hands[i].was \in 0 .. day
FieldTyped == FieldTypeOK /\ BatchesDue /\ HandsTyped

LEMMA FieldConstants ==
  /\ Seeded \in Nat /\ Seeded > 0 /\ RegrowStep \in Nat /\ RegrowStep > 0
  /\ RegrowDays \in Nat /\ RegrowDays > 0 /\ Walk \in Nat /\ Walk > 0
  /\ FirstMen \in [Homes -> Nat] /\ Capacities \subseteq Nat /\ FirstOutpost \in [Homes -> Capacities]
  /\ MaxDay \in Nat /\ MaxSent \in Nat /\ MaxMishaps \in Nat
  /\ Nowhere \notin Homes /\ NoParty \notin Parties /\ NoParty \notin Party /\ NoAsk \notin Party /\ Resting \notin Handful
  /\ IsFiniteSet(Homes) /\ IsFiniteSet(Springs) /\ IsFiniteSet(Parties)
BY OasisAssumption, NoPartyIsNew

LEMMA DaysHold ==
  ASSUME FieldTypeOK
  PROVE  /\ \A d \in 0 .. day : d \in Days /\ d + Walk \in Days /\ d + RegrowDays \in Days
         /\ day \in Days /\ Days \subseteq Nat /\ 0 \in Days
BY FieldConstants DEF FieldTypeOK, Days

LEMMA StrengthOf ==
  /\ \A f \in Strength : f.men \in Nat /\ f.beasts \in Nat
  /\ \A n \in Nat : Men(n) \in Strength /\ Men(n).men = n /\ Men(n).beasts = 0
  /\ None \in Strength /\ None.men = 0 /\ None.beasts = 0
  /\ \A f, g \in Strength : /\ Both(f, g) \in Strength
                            /\ Both(f, g).men = f.men + g.men /\ Both(f, g).beasts = f.beasts + g.beasts
BY DEF Strength, Men, None, Both

\* The parts of a claimed or requeued party, and of a hand that has read something.
LEMMA ClaimedParty ==
  ASSUME NEW p \in Party
  PROVE  /\ Claimed(p) \in Party /\ Claimed(p).claimed
         /\ Claimed(p).kind = p.kind /\ Claimed(p).home = p.home /\ Claimed(p).to = p.to
         /\ Claimed(p).force = p.force /\ Claimed(p).due = p.due
<1>1. p # NoParty
  BY FieldConstants
<1> QED
  BY <1>1 DEF Claimed, Party

LEMMA RequeuedParty ==
  ASSUME NEW p \in Party
  PROVE  /\ [p EXCEPT !.claimed = FALSE] \in Party
         /\ [p EXCEPT !.claimed = FALSE].force = p.force /\ [p EXCEPT !.claimed = FALSE].due = p.due
         /\ [p EXCEPT !.claimed = FALSE].home = p.home
BY DEF Party

LEMMA PartyFields ==
  ASSUME NEW p \in Party
  PROVE  /\ p.kind \in {"attack", "reinforce", "return"} /\ p.home \in Homes /\ p.to \in Springs
         /\ p.force \in Strength /\ p.due \in Days /\ p.claimed \in BOOLEAN
BY DEF Party

LEMMA DefendersIn == ASSUME FieldTypeOK, NEW s \in Springs PROVE Defenders(s) \in Strength
<1>1. oasis[s] \in Oasis
  BY DEF FieldTypeOK
<1> QED
  BY <1>1, FieldConstants DEF Defenders, Strength, Oasis

LEMMA InitTyped == FieldInit => FieldTyped
<1> SUFFICES ASSUME FieldInit PROVE FieldTyped
  OBVIOUS
<1> USE FieldConstants
<1>1. PICK f \in FirstFields :
        /\ oasis = [s \in Springs |-> [made |-> f[s].owner # Nowhere, owner |-> f[s].owner,
                                       regrow |-> Never, force |-> Men(f[s].men)]]
        /\ homes = [h \in Homes |-> Men(FirstMen[h]
                      - SumFunction([s \in {x \in Springs : f[x].owner = h} |-> f[s].men]))]
  BY DEF FieldInit
<1>2. f \in [Springs -> [owner : Homes \cup {Nowhere}, men : Nat]]
  BY OasisAssumption
<1>3. \A s \in Springs : f[s].owner \in Homes \cup {Nowhere} /\ f[s].men \in Nat
  BY <1>2
<1>4. oasis \in [Springs -> Oasis]
  BY <1>1, <1>3, StrengthOf DEF Oasis
<1>5. ASSUME NEW h \in Homes PROVE homes[h] \in Strength
  <2> DEFINE T == {x \in Springs : f[x].owner = h}
             g == [s \in T |-> f[s].men]
  <2>1. IsFiniteSet(T)
    BY FS_Subset
  <2>2. \A s \in T : g[s] \in Nat
    BY <1>3
  <2>3. SumFunction(g) = SumFunctionOnSet(g, T)
    BY DEF SumFunction
  <2>4. SumFunction(g) <= FirstMen[h]
    BY OasisAssumption
  <2>5. SumFunctionOnSet(g, T) \in Nat
    <3> HIDE DEF T, g
    <3> QED
      BY <2>1, <2>2, SumNat
  <2>6. FirstMen[h] \in Nat
    OBVIOUS
  <2>7. homes[h] = Men(FirstMen[h] - SumFunction(g))
    BY <1>1
  <2> HIDE DEF T, g
  <2> QED
    BY <2>3, <2>4, <2>5, <2>6, <2>7, StrengthOf
<1>6. homes \in [Homes -> Strength]
  BY <1>1, <1>5
<1>7. batches \in [Instances -> [Parties -> {NoParty}]] /\ hands \in [Instances -> {Resting}]
  BY DEF FieldInit
<1>8. FieldTypeOK
  BY <1>4, <1>6, <1>7 DEF FieldInit, FieldTypeOK
<1> QED
  BY <1>7, <1>8 DEF FieldTyped, BatchesDue, HandsTyped, Holds, Doing

\* What the actions have in common.
LEMMA NothingTaken ==
  ASSUME FieldTyped, FieldTypeOK', UNCHANGED <<day, batches, hands>>
  PROVE  FieldTyped'
BY DEF FieldTyped, BatchesDue, HandsTyped, Holds, Doing

LEMMA RestsTyped ==
  ASSUME FieldTyped, NEW i \in Instances, Rests(i), day' = day
  PROVE  /\ batches' \in [Instances -> [Parties -> Party \cup {NoParty}]]
         /\ hands' \in [Instances -> Handful \cup {Resting}]
         /\ BatchesDue' /\ HandsTyped'
<1>1. hands' = [hands EXCEPT ![i] = Resting] /\ batches' = batches
  BY DEF Rests
<1>2. hands' \in [Instances -> Handful \cup {Resting}] /\ batches' \in [Instances -> [Parties -> Party \cup {NoParty}]]
  BY <1>1 DEF FieldTyped, FieldTypeOK
<1>3. \A j \in Instances : hands'[j] = IF j = i THEN Resting ELSE hands[j]
  BY <1>1 DEF FieldTyped, FieldTypeOK
<1> QED
  BY <1>1, <1>2, <1>3 DEF FieldTyped, BatchesDue, HandsTyped, Holds, Doing

\* The hand that takes a party out of a batch.
LEMMA PutsTyped ==
  ASSUME FieldTyped, NEW i \in Instances, NEW m \in Parties, NEW hand \in Handful \cup {Resting},
         Puts(i, m, hand), day' = day, batches[i][m] # NoParty,
         hand # Resting => /\ hand.step # "regrow" /\ hand.row = m /\ hand.of = batches[i][m]
                           /\ hand.at = batches[i][m].to
  PROVE  /\ batches' \in [Instances -> [Parties -> Party \cup {NoParty}]]
         /\ hands' \in [Instances -> Handful \cup {Resting}]
         /\ BatchesDue' /\ HandsTyped'
<1>1. hands' = [hands EXCEPT ![i] = hand] /\ batches' = [batches EXCEPT ![i][m] = NoParty]
  BY DEF Puts
<1>2. /\ hands \in [Instances -> Handful \cup {Resting}]
      /\ batches \in [Instances -> [Parties -> Party \cup {NoParty}]] /\ BatchesDue /\ HandsTyped
  BY DEF FieldTyped, FieldTypeOK
<1>3. \A j \in Instances : hands'[j] = IF j = i THEN hand ELSE hands[j]
  BY <1>1, <1>2
<1>4. \A j \in Instances, n \in Parties :
        batches'[j][n] = IF j = i /\ n = m THEN NoParty ELSE batches[j][n]
  BY <1>1, <1>2
<1>5. /\ hands' \in [Instances -> Handful \cup {Resting}]
      /\ batches' \in [Instances -> [Parties -> Party \cup {NoParty}]]
  BY <1>1, <1>2
<1>6. BatchesDue'
  BY <1>2, <1>4 DEF BatchesDue
<1>7. batches[i][m] \in Party /\ batches[i][m].due <= day
  BY <1>2 DEF BatchesDue
<1>8. HandsTyped'
  BY <1>2, <1>3, <1>7 DEF HandsTyped, Holds, Doing
<1> QED
  BY <1>5, <1>6, <1>8

LEMMA BatchOf ==
  ASSUME FieldTyped, NEW i \in Instances, NEW m \in Parties, batches[i][m] # NoParty
  PROVE  batches[i][m] \in Party /\ batches[i][m].due <= day
BY DEF FieldTyped, FieldTypeOK, BatchesDue

\* What a hand that has read something is.
LEMMA HandOf ==
  ASSUME FieldTyped, NEW i \in Instances, hands[i] # Resting
  PROVE  /\ hands[i] \in Handful /\ hands[i].at \in Springs /\ hands[i].owner \in Homes \cup {Nowhere}
         /\ hands[i].force \in Strength /\ hands[i].room \in BOOLEAN
         /\ Holds(i) => /\ hands[i].row \in Parties /\ hands[i].of \in Party
                        /\ hands[i].of.due \in 0 .. day /\ hands[i].at = hands[i].of.to
<1>1. hands[i] \in Handful
  BY DEF FieldTyped, FieldTypeOK
<1>2. Holds(i) => hands[i].of.due \in 0 .. day
  <2>1. Holds(i) => hands[i].of \in Party /\ hands[i].of.due <= day
    BY DEF FieldTyped, HandsTyped
  <2>2. day \in Nat
    BY FieldConstants DEF FieldTyped, FieldTypeOK
  <2> QED
    BY <2>1, <2>2, PartyFields, DaysHold DEF FieldTyped
<1> QED
  BY <1>1, <1>2 DEF FieldTyped, HandsTyped, Handful

LEMMA AsksTyped ==
  ASSUME FieldTyped, NEW kind \in {"attack", "reinforce", "return"}, NEW h \in Homes, NEW s \in Springs,
         NEW n \in 0 .. SumFunction(FirstMen), Asks(kind, h, s, n)
  PROVE  FieldTyped'
<1>1. FieldTypeOK
  BY DEF FieldTyped
<1>2. n \in Nat
  <2>1. homes[h].men \in Nat
    BY <1>1, StrengthOf DEF FieldTypeOK
  <2>2. n = 0 \/ n \in 1 .. homes[h].men
    BY DEF Asks, AskAttack, AskReinforce, AskRecall
  <2> QED
    BY <2>1, <2>2
<1>3. day \in 0 .. day /\ day + Walk \in Days
  <2>1. day \in Nat
    BY <1>1, DaysHold
  <2> QED
    BY <1>1, <2>1, DaysHold
<1>4. ask' \in Party
  <2>1. Men(n) \in Strength
    BY <1>2, StrengthOf
  <2>2. ask' = [kind |-> kind, home |-> h, to |-> s, force |-> Men(n), due |-> day + Walk, claimed |-> FALSE]
    BY DEF Asks
  <2> QED
    BY <2>1, <2>2, <1>3 DEF Party
<1>5. sent' \in 0 .. MaxSent
  BY <1>1, FieldConstants DEF Asks, FieldTypeOK
<1>6. FieldTypeOK'
  BY <1>1, <1>4, <1>5 DEF Asks, FieldTypeOK, places
<1> QED
  BY <1>6, NothingTaken DEF Asks

LEMMA SendOutTyped ==
  ASSUME FieldTyped, NEW m \in Parties, SendOut(m)
  PROVE  FieldTyped'
<1>1. FieldTypeOK
  BY DEF FieldTyped
<1>2. ask \in Party /\ ask.force \in Strength /\ ask.home \in Homes
  BY <1>1, PartyFields DEF SendOut, FieldTypeOK
<1>3. homes[ask.home].men - ask.force.men \in Nat
  BY <1>1, <1>2, StrengthOf DEF SendOut, FieldTypeOK
<1>4. homes' \in [Homes -> Strength]
  BY <1>1, <1>2, <1>3 DEF SendOut, FieldTypeOK, Strength
<1>5. FieldTypeOK'
  BY <1>1, <1>2, <1>4 DEF SendOut, FieldTypeOK, places, count
<1> QED
  BY <1>5, NothingTaken DEF SendOut

LEMMA RecallTyped ==
  ASSUME FieldTyped, NEW m \in Parties, Recall(m)
  PROVE  FieldTyped'
<1>1. FieldTypeOK
  BY DEF FieldTyped
<1>2. ask \in Party /\ ask.to \in Springs
  BY <1>1, PartyFields DEF Recall, FieldTypeOK
<1>3. oasis[ask.to] \in Oasis /\ oasis[ask.to].force \in Strength
  BY <1>1, <1>2 DEF FieldTypeOK, Oasis
<1>4. oasis' \in [Springs -> Oasis]
  BY <1>1, <1>3, StrengthOf DEF Recall, FieldTypeOK, Oasis
<1>5. parties' \in [Parties -> Party \cup {NoParty}]
  <2>1. [ask EXCEPT !.force = oasis[ask.to].force] \in Party
    BY <1>2, <1>3 DEF Party
  <2> QED
    BY <1>1, <2>1 DEF Recall, FieldTypeOK
<1>6. FieldTypeOK'
  BY <1>1, <1>4, <1>5 DEF Recall, FieldTypeOK, places, count
<1> QED
  BY <1>6, NothingTaken DEF Recall

LEMMA RefusedTyped == ASSUME FieldTyped, Refused PROVE FieldTyped'
<1>1. FieldTypeOK'
  BY DEF Refused, FieldTyped, FieldTypeOK, places, count
<1> QED
  BY <1>1, NothingTaken DEF Refused

LEMMA ClaimPartiesTyped ==
  ASSUME FieldTyped, NEW i \in Instances, NEW kind \in {"attack", "reinforce", "return"}, ClaimParties(i, kind)
  PROVE  FieldTyped'
<1> DEFINE S == {m \in Parties : parties[m] # NoParty /\ parties[m].kind = kind
                                 /\ parties[m].due <= day /\ ~parties[m].claimed}
<1>1. FieldTypeOK
  BY DEF FieldTyped
<1>2. /\ parties' = [m \in Parties |-> IF m \in S THEN Claimed(parties[m]) ELSE parties[m]]
      /\ batches' = [batches EXCEPT ![i] = [m \in Parties |-> IF m \in S THEN Claimed(parties[m]) ELSE NoParty]]
  BY DEF ClaimParties
<1>3. \A m \in S : Claimed(parties[m]) \in Party /\ Claimed(parties[m]).due <= day
  BY <1>1, ClaimedParty DEF FieldTypeOK
<1> HIDE DEF S
<1>4. parties' \in [Parties -> Party \cup {NoParty}]
  BY <1>1, <1>2, <1>3 DEF FieldTypeOK
<1>5. [m \in Parties |-> IF m \in S THEN Claimed(parties[m]) ELSE NoParty] \in [Parties -> Party \cup {NoParty}]
  BY <1>3
<1>6. batches' \in [Instances -> [Parties -> Party \cup {NoParty}]]
  BY <1>1, <1>2, <1>5 DEF FieldTypeOK
<1>7. FieldTypeOK'
  BY <1>1, <1>4, <1>6 DEF ClaimParties, FieldTypeOK, places, count
<1>8. BatchesDue'
  <2> SUFFICES ASSUME NEW j \in Instances, NEW m \in Parties, batches'[j][m] # NoParty
               PROVE  batches'[j][m].due <= day
    BY DEF BatchesDue, ClaimParties
  <2>1. CASE j = i
    BY <1>1, <1>2, <1>3, <2>1 DEF FieldTypeOK
  <2>2. CASE j # i
    BY <1>1, <1>2, <2>2 DEF FieldTypeOK, FieldTyped, BatchesDue
  <2> QED
    BY <2>1, <2>2
<1> QED
  BY <1>7, <1>8 DEF ClaimParties, FieldTyped, HandsTyped, Holds, Doing

\* The hand of a battle and of a reinforcement.
Fighting(p, m, room, owner, force) ==
  [step |-> "fight", row |-> m, of |-> p, at |-> p.to, owner |-> owner, force |-> force,
   room |-> room, was |-> Never]
Joining(p, m, owner) ==
  [step |-> "join", row |-> m, of |-> p, at |-> p.to, owner |-> owner, force |-> None, room |-> FALSE,
   was |-> Never]

LEMMA FightingHand ==
  ASSUME NEW p \in Party, NEW m \in Parties, NEW room \in BOOLEAN, NEW owner \in Homes \cup {Nowhere},
         NEW force \in Strength
  PROVE  /\ Fighting(p, m, room, owner, force) \in Handful
         /\ Fighting(p, m, room, owner, force).step = "fight"
         /\ Fighting(p, m, room, owner, force).row = m /\ Fighting(p, m, room, owner, force).of = p
         /\ Fighting(p, m, room, owner, force).at = p.to
         /\ Fighting(p, m, room, owner, force).room = room
         /\ Fighting(p, m, room, owner, force).owner = owner
         /\ Fighting(p, m, room, owner, force).force = force
<1>1. p.to \in Springs
  BY PartyFields
<1> QED
  BY <1>1 DEF Fighting, Handful, Reading

LEMMA JoiningHand ==
  ASSUME NEW p \in Party, NEW m \in Parties, NEW owner \in Homes \cup {Nowhere}
  PROVE  /\ Joining(p, m, owner) \in Handful
         /\ Joining(p, m, owner).step = "join"
         /\ Joining(p, m, owner).row = m /\ Joining(p, m, owner).of = p
         /\ Joining(p, m, owner).at = p.to
         /\ Joining(p, m, owner).owner = owner
<1>1. p.to \in Springs
  BY PartyFields
<1> QED
  BY <1>1, StrengthOf DEF Joining, Handful, Reading

LEMMA ReadBattleTyped ==
  ASSUME FieldTyped, NEW i \in Instances, NEW m \in Parties, ReadBattle(i, m)
  PROVE  FieldTyped'
<1> DEFINE p == batches[i][m]
           room == Cardinality(Occupied(p.home)) < outpost[p.home]
           hand == Fighting(p, m, room, oasis[p.to].owner, Defenders(p.to))
<1>1. FieldTypeOK
  BY DEF FieldTyped
<1>2. p \in Party /\ p.to \in Springs /\ p # NoParty
  BY BatchOf, PartyFields DEF ReadBattle, Picks
<1>3. /\ oasis[p.to].owner \in Homes \cup {Nowhere} /\ Defenders(p.to) \in Strength
      /\ room \in BOOLEAN
  BY <1>1, <1>2, DefendersIn DEF FieldTypeOK, Oasis
<1>4. Puts(i, m, hand) /\ day' = day
  BY DEF ReadBattle, Fighting
<1> HIDE DEF p, room
<1>5. hand \in Handful /\ hand.step # "regrow" /\ hand.row = m /\ hand.of = p /\ hand.at = p.to
  BY <1>2, <1>3, FightingHand
<1> HIDE DEF hand
<1>6. /\ batches' \in [Instances -> [Parties -> Party \cup {NoParty}]]
      /\ hands' \in [Instances -> Handful \cup {Resting}]
      /\ BatchesDue' /\ HandsTyped'
  BY <1>2, <1>4, <1>5, PutsTyped DEF p
<1>7. FieldTypeOK'
  BY <1>1, <1>6 DEF ReadBattle, FieldTypeOK, places, count
<1> QED
  BY <1>6, <1>7 DEF FieldTyped

LEMMA ReadStillTyped ==
  ASSUME FieldTyped, NEW i \in Instances, NEW m \in Parties, ReadStill(i, m)
  PROVE  FieldTyped'
<1> DEFINE p == batches[i][m]
           hand == Joining(p, m, oasis[p.to].owner)
<1>1. FieldTypeOK
  BY DEF FieldTyped
<1>2. p \in Party /\ p.to \in Springs /\ p # NoParty
  BY BatchOf, PartyFields DEF ReadStill, Picks
<1>3. oasis[p.to].owner \in Homes \cup {Nowhere}
  BY <1>1, <1>2 DEF FieldTypeOK, Oasis
<1>4. /\ hand \in Handful /\ hand.step # "regrow" /\ hand.row = m /\ hand.of = p /\ hand.at = p.to
  BY <1>2, <1>3, JoiningHand
<1>5. Puts(i, m, hand) /\ day' = day
  BY DEF ReadStill, Joining
<1> HIDE DEF hand
<1>6. /\ batches' \in [Instances -> [Parties -> Party \cup {NoParty}]]
      /\ hands' \in [Instances -> Handful \cup {Resting}]
      /\ BatchesDue' /\ HandsTyped'
  BY <1>2, <1>4, <1>5, PutsTyped
<1>7. FieldTypeOK'
  BY <1>1, <1>6 DEF ReadStill, FieldTypeOK, places, count
<1> QED
  BY <1>6, <1>7 DEF FieldTyped

\* The row of a party that is done, whatever happens to it.
LEMMA BackTyped ==
  ASSUME FieldTyped, NEW i \in Instances, Holds(i), NEW force \in Strength, Back(i, force)
  PROVE  parties' \in [Parties -> Party \cup {NoParty}]
<1>1. FieldTypeOK /\ hands[i] # Resting
  BY DEF FieldTyped, Holds, Doing
<1>2. CASE force = None
  BY <1>1, <1>2 DEF Back, FieldTypeOK
<1>3. CASE force # None
  <2> DEFINE way == [hands[i].of EXCEPT !.kind = "return", !.force = force, !.due = @ + Walk, !.claimed = FALSE]
  <2>1. PICK b \in Parties : parties' = [parties EXCEPT ![b] = way]
    BY <1>3 DEF Back
  <2>2. hands[i].of \in Party /\ hands[i].of.due + Walk \in Days
    BY <1>1, HandOf, DaysHold
  <2>3. way \in Party
    BY <2>2 DEF Party
  <2> HIDE DEF way
  <2> QED
    BY <1>1, <2>1, <2>3 DEF FieldTypeOK
<1> QED
  BY <1>2, <1>3

LEMMA FightTyped ==
  ASSUME FieldTyped, NEW i \in Instances, NEW won \in BOOLEAN, NEW left \in Strength, NEW back \in Nat,
         Fight(i, won, left, back)
  PROVE  FieldTyped'
<1> DEFINE h == hands[i]
           owns == IF won THEN Winner(i) ELSE oasis[h.at].owner
<1>1. FieldTypeOK /\ Holds(i) /\ h # Resting
  BY DEF FieldTyped, Fight, Holds, Doing
<1>2. /\ h.at \in Springs /\ h.force \in Strength /\ h.owner \in Homes \cup {Nowhere}
      /\ h.of \in Party /\ h.of.due \in 0 .. day
  BY <1>1, HandOf
<1>3. owns \in Homes \cup {Nowhere}
  BY <1>1, <1>2, PartyFields DEF Winner, FieldTypeOK, Oasis
<1>4. RegrowsAt(h, won) \in Days \cup {Never}
  BY <1>1, <1>2, DaysHold DEF RegrowsAt
<1>5. oasis' \in [Springs -> Oasis]
  <2>1. oasis' = [oasis EXCEPT ![h.at] = [made |-> TRUE, owner |-> owns, force |-> left, regrow |-> RegrowsAt(h, won)]]
    BY DEF Fight
  <2>2. [made |-> TRUE, owner |-> owns, force |-> left, regrow |-> RegrowsAt(h, won)] \in Oasis
    BY <1>3, <1>4 DEF Oasis
  <2> QED
    BY <1>1, <2>1, <2>2 DEF FieldTypeOK
<1>6. parties' \in [Parties -> Party \cup {NoParty}]
  BY <1>1, BackTyped, StrengthOf DEF Fight
<1>7. lost' \in Nat
  <2>1. /\ h.force.men \in Nat /\ left.men \in Nat /\ h.of.force.men \in Nat /\ lost \in Nat
        /\ left.men <= h.force.men /\ back <= h.of.force.men
    BY <1>1, <1>2, PartyFields, StrengthOf DEF Fight, FieldTypeOK
  <2>2. lost' = lost + h.force.men - left.men + h.of.force.men - back
    BY DEF Fight
  <2> HIDE DEF h
  <2> QED
    BY <2>1, <2>2
<1>8. /\ batches' \in [Instances -> [Parties -> Party \cup {NoParty}]]
      /\ hands' \in [Instances -> Handful \cup {Resting}]
      /\ BatchesDue' /\ HandsTyped'
  BY RestsTyped DEF Fight
<1>9. FieldTypeOK'
  BY <1>1, <1>5, <1>6, <1>7, <1>8 DEF Fight, FieldTypeOK, places, count
<1> QED
  BY <1>8, <1>9 DEF FieldTyped

LEMMA JoinTyped ==
  ASSUME FieldTyped, NEW i \in Instances, Join(i)
  PROVE  FieldTyped'
<1> DEFINE h == hands[i]
<1>1. FieldTypeOK /\ Holds(i) /\ h # Resting
  BY DEF FieldTyped, Join, Holds, Doing
<1>2. h.at \in Springs /\ h.of \in Party /\ h.of.force \in Strength
  BY <1>1, HandOf, PartyFields
<1>3. oasis' \in [Springs -> Oasis]
  <2>1. oasis' = [oasis EXCEPT ![h.at].force = Both(@, h.of.force)]
    BY DEF Join
  <2>2. oasis[h.at] \in Oasis /\ oasis[h.at].force \in Strength
    BY <1>1, <1>2 DEF FieldTypeOK, Oasis
  <2>3. Both(oasis[h.at].force, h.of.force) \in Strength
    BY <1>2, <2>2, StrengthOf
  <2> HIDE DEF h
  <2> QED
    BY <1>1, <1>2, <2>1, <2>2, <2>3 DEF FieldTypeOK, Oasis
<1>4. parties' \in [Parties -> Party \cup {NoParty}]
  BY <1>1, BackTyped, StrengthOf DEF Join
<1>5. /\ batches' \in [Instances -> [Parties -> Party \cup {NoParty}]]
      /\ hands' \in [Instances -> Handful \cup {Resting}]
      /\ BatchesDue' /\ HandsTyped'
  BY RestsTyped DEF Join
<1>6. FieldTypeOK'
  BY <1>1, <1>3, <1>4, <1>5 DEF Join, FieldTypeOK, places, count
<1> QED
  BY <1>5, <1>6 DEF FieldTyped

LEMMA BounceHomeTyped ==
  ASSUME FieldTyped, NEW i \in Instances, BounceHome(i)
  PROVE  FieldTyped'
<1>1. FieldTypeOK /\ Holds(i) /\ hands[i] # Resting
  BY DEF FieldTyped, BounceHome, Holds, Doing
<1>2. parties' \in [Parties -> Party \cup {NoParty}]
  BY <1>1, HandOf, PartyFields, BackTyped DEF BounceHome
<1>3. /\ batches' \in [Instances -> [Parties -> Party \cup {NoParty}]]
      /\ hands' \in [Instances -> Handful \cup {Resting}]
      /\ BatchesDue' /\ HandsTyped'
  BY RestsTyped DEF BounceHome
<1>4. FieldTypeOK'
  BY <1>1, <1>2, <1>3 DEF BounceHome, FieldTypeOK, places, count
<1> QED
  BY <1>3, <1>4 DEF FieldTyped

LEMMA RejoinTyped ==
  ASSUME FieldTyped, NEW i \in Instances, NEW m \in Parties, Rejoin(i, m)
  PROVE  FieldTyped'
<1>1. FieldTypeOK
  BY DEF FieldTyped
<1>2. batches[i][m] # NoParty /\ batches[i][m] \in Party
  BY BatchOf DEF Rejoin, Picks
<1>3. batches[i][m].home \in Homes /\ batches[i][m].force \in Strength
  BY <1>2, PartyFields
<1>4. homes' \in [Homes -> Strength]
  <2>1. Both(homes[batches[i][m].home], batches[i][m].force) \in Strength
    BY <1>1, <1>3, StrengthOf DEF FieldTypeOK
  <2> QED
    BY <1>1, <2>1 DEF Rejoin, FieldTypeOK
<1>5. parties' \in [Parties -> Party \cup {NoParty}]
  BY <1>1 DEF Rejoin, FieldTypeOK
<1>6. /\ batches' \in [Instances -> [Parties -> Party \cup {NoParty}]]
      /\ hands' \in [Instances -> Handful \cup {Resting}]
      /\ BatchesDue' /\ HandsTyped'
  BY <1>2, PutsTyped DEF Rejoin
<1>7. FieldTypeOK'
  BY <1>1, <1>4, <1>5, <1>6 DEF Rejoin, FieldTypeOK, places, count
<1> QED
  BY <1>6, <1>7 DEF FieldTyped

LEMMA GivenUpTyped ==
  ASSUME FieldTyped, NEW i \in Instances, NEW m \in Parties, GivenUp(i, m)
  PROVE  FieldTyped'
<1>1. /\ batches' \in [Instances -> [Parties -> Party \cup {NoParty}]]
      /\ hands' \in [Instances -> Handful \cup {Resting}]
      /\ BatchesDue' /\ HandsTyped'
  <2>1. CASE batches[i][m] # NoParty /\ Puts(i, m, Resting)
    BY <2>1, PutsTyped DEF GivenUp
  <2>2. CASE Rests(i)
    BY <2>2, RestsTyped DEF GivenUp
  <2> QED
    BY <2>1, <2>2 DEF GivenUp
<1>2. FieldTypeOK'
  BY <1>1 DEF GivenUp, FieldTyped, FieldTypeOK, places, count
<1> QED
  BY <1>1, <1>2 DEF FieldTyped

LEMMA ReadRegrowTyped ==
  ASSUME FieldTyped, NEW i \in Instances, NEW s \in Springs, ReadRegrow(i, s)
  PROVE  FieldTyped'
<1> DEFINE hand == [step |-> "regrow", row |-> NoParty, of |-> NoParty, at |-> s, owner |-> Nowhere,
                    force |-> oasis[s].force, room |-> FALSE, was |-> oasis[s].regrow]
<1>1. FieldTypeOK
  BY DEF FieldTyped
<1>2. /\ oasis[s].force \in Strength /\ oasis[s].regrow \in Days /\ oasis[s].regrow <= day
  BY <1>1 DEF FieldTypeOK, Oasis, ReadRegrow
<1>3. oasis[s].regrow \in 0 .. day
  BY <1>1, <1>2, DaysHold
<1>4. hand \in Handful /\ hand.step = "regrow" /\ hand.was \in 0 .. day
  BY <1>2, <1>3 DEF Handful, Reading
<1>5. hands' = [hands EXCEPT ![i] = hand]
  BY DEF ReadRegrow
<1> HIDE DEF hand
<1>6. \A j \in Instances : hands'[j] = IF j = i THEN hand ELSE hands[j]
  BY <1>1, <1>5 DEF FieldTypeOK
<1>7. hands' \in [Instances -> Handful \cup {Resting}]
  BY <1>1, <1>4, <1>5 DEF FieldTypeOK
<1>8. HandsTyped'
  BY <1>4, <1>6 DEF ReadRegrow, FieldTyped, HandsTyped, Holds, Doing
<1>9. FieldTypeOK'
  BY <1>1, <1>7 DEF ReadRegrow, FieldTypeOK, places, count
<1> QED
  BY <1>8, <1>9 DEF ReadRegrow, FieldTyped, BatchesDue

LEMMA RegrownIn == ASSUME NEW f \in Strength PROVE Regrown(f) \in Strength
BY FieldConstants DEF Regrown, Strength

LEMMA RegrowTyped ==
  ASSUME FieldTyped, NEW i \in Instances, Regrow(i)
  PROVE  FieldTyped'
<1> DEFINE h == hands[i]
           force == Regrown(h.force)
           again == IF Regrown(h.force).beasts = Seeded THEN Never ELSE h.was + RegrowDays
<1>1. FieldTypeOK /\ h # Resting /\ h.at \in Springs /\ h.force \in Strength
  BY HandOf DEF FieldTyped, Regrow, Doing
<1>2. force \in Strength
  BY <1>1, RegrownIn
<1>3. again \in Days \cup {Never}
  <2>1. h.was \in 0 .. day
    BY DEF FieldTyped, HandsTyped, Regrow
  <2> QED
    BY <1>1, <2>1, DaysHold
<1>4. oasis' \in [Springs -> Oasis]
  <2>1. CASE UNCHANGED oasis
    BY <1>1, <2>1 DEF FieldTypeOK
  <2>2. CASE oasis' = [oasis EXCEPT ![h.at].force = force, ![h.at].regrow = again]
    <3>1. oasis[h.at] \in Oasis
      BY <1>1 DEF FieldTypeOK
    <3> HIDE DEF h, force, again
    <3> QED
      BY <1>1, <1>2, <1>3, <2>2, <3>1 DEF FieldTypeOK, Oasis
  <2> QED
    BY <2>1, <2>2 DEF Regrow
<1>5. /\ batches' \in [Instances -> [Parties -> Party \cup {NoParty}]]
      /\ hands' \in [Instances -> Handful \cup {Resting}]
      /\ BatchesDue' /\ HandsTyped'
  BY RestsTyped DEF Regrow
<1>6. FieldTypeOK'
  BY <1>1, <1>4, <1>5 DEF Regrow, FieldTypeOK, places, count
<1> QED
  BY <1>5, <1>6 DEF FieldTyped

\* Men that are lost under way are counted.
LEMMA MenOfIn ==
  ASSUME FieldTypeOK, NEW S \in SUBSET {m \in Parties : parties[m] # NoParty}
  PROVE  /\ MenOf(S) \in Nat /\ MenOf(S) = SumFunctionOnSet([m \in S |-> parties[m].force.men], S)
         /\ IsFiniteSet(S) /\ \A m \in S : parties[m] \in Party /\ parties[m].force.men \in Nat
<1>1. IsFiniteSet(S)
  BY FieldConstants, FS_Subset
<1>2. \A m \in S : parties[m] \in Party /\ parties[m].force.men \in Nat
  BY PartyFields, StrengthOf DEF FieldTypeOK
<1> DEFINE f == [m \in S |-> parties[m].force.men]
<1>3. \A m \in S : f[m] \in Nat
  BY <1>2
<1>4. MenOf(S) = SumFunctionOnSet(f, S)
  BY DEF MenOf, SumFunction
<1>5. SumFunctionOnSet(f, S) \in Nat
  <2> HIDE DEF f
  <2> QED
    BY <1>1, <1>3, SumNat
<1> QED
  BY <1>1, <1>2, <1>4, <1>5

LEMMA ElsewhereTyped ==
  ASSUME FieldTyped, Elsewhere
  PROVE  FieldTyped'
<1>1. FieldTypeOK /\ mishaps' \in 0 .. MaxMishaps
  BY FieldConstants DEF FieldTyped, FieldTypeOK, Elsewhere
<1>2. PICK i \in Instances, h \in Homes : Conquest(i, h) \/ Sweep(i, h) \/ \E c \in Capacities : Rebuild(i, h, c)
  BY DEF Elsewhere
<1>3. lost \in Nat /\ homes[h].men \in Nat
  BY <1>1, StrengthOf DEF FieldTypeOK
<1>4. ASSUME NEW c \in Capacities, Rebuild(i, h, c) PROVE FieldTyped'
  <2>1. FieldTypeOK'
    BY <1>1, <1>4 DEF Rebuild, FieldTypeOK
  <2> QED
    BY <1>4, <2>1, NothingTaken DEF Rebuild
<1>5. CASE Conquest(i, h)
  <2> DEFINE S == {m \in Parties : parties[m] # NoParty /\ parties[m].home = h /\ ~parties[m].claimed}
  <2>1. MenOf(S) \in Nat
    BY <1>1, MenOfIn
  <2>2. homes' = [homes EXCEPT ![h] = None] /\ lost' = lost + homes[h].men + MenOf(S)
        /\ parties' = [m \in Parties |-> IF m \in S THEN NoParty ELSE parties[m]]
    BY <1>5 DEF Conquest
  <2> HIDE DEF S
  <2>3. lost' \in Nat /\ homes' \in [Homes -> Strength] /\ parties' \in [Parties -> Party \cup {NoParty}]
    BY <1>1, <1>3, <2>1, <2>2, StrengthOf DEF FieldTypeOK
  <2>4. FieldTypeOK'
    BY <1>1, <1>5, <2>3 DEF Conquest, FieldTypeOK, places
  <2> QED
    BY <1>5, <2>4, NothingTaken DEF Conquest
<1>6. CASE Sweep(i, h)
  <2> DEFINE S == {m \in Parties : parties[m] # NoParty /\ parties[m].home = h}
  <2>1. MenOf(S) \in Nat
    BY <1>1, MenOfIn
  <2>2. homes' = [homes EXCEPT ![h] = None] /\ lost' = lost + homes[h].men + MenOf(S)
        /\ parties' = [m \in Parties |-> IF m \in S THEN NoParty ELSE parties[m]]
    BY <1>6 DEF Sweep
  <2> HIDE DEF S
  <2>3. lost' \in Nat /\ homes' \in [Homes -> Strength] /\ parties' \in [Parties -> Party \cup {NoParty}]
    BY <1>1, <1>3, <2>1, <2>2, StrengthOf DEF FieldTypeOK
  <2>4. oasis' \in [Springs -> Oasis]
    <3>1. \A s \in Springs : oasis[s] \in Oasis /\ [oasis[s] EXCEPT !.owner = Nowhere] \in Oasis
      BY <1>1 DEF FieldTypeOK, Oasis
    <3> QED
      BY <1>6, <3>1 DEF Sweep
  <2>5. FieldTypeOK'
    BY <1>1, <1>6, <2>3, <2>4 DEF Sweep, FieldTypeOK
  <2> QED
    BY <1>6, <2>5, NothingTaken DEF Sweep
<1> QED
  BY <1>2, <1>4, <1>5, <1>6

LEMMA NextDayTyped == ASSUME FieldTyped, NextDay PROVE FieldTyped'
<1>1. FieldTypeOK /\ day \in Nat /\ day' = day + 1 /\ day' \in 0 .. MaxDay
  BY FieldConstants DEF NextDay, FieldTyped, FieldTypeOK
<1>2. FieldTypeOK'
  BY <1>1 DEF NextDay, FieldTypeOK, places, count
<1>3. BatchesDue'
  <2> SUFFICES ASSUME NEW i \in Instances, NEW m \in Parties, batches[i][m] # NoParty
               PROVE  batches[i][m].due <= day'
    BY DEF NextDay, BatchesDue
  <2>1. batches[i][m].due <= day /\ batches[i][m].due \in Nat
    BY <1>1, BatchOf, PartyFields, DaysHold
  <2> QED
    BY <1>1, <2>1
<1>4. HandsTyped'
  <2> SUFFICES ASSUME NEW i \in Instances
               PROVE  /\ Holds(i) => /\ hands[i].row \in Parties /\ hands[i].of \in Party
                                     /\ hands[i].of.due <= day' /\ hands[i].at = hands[i].of.to
                      /\ Doing(i, "regrow") => hands[i].was \in 0 .. day'
    BY DEF NextDay, HandsTyped, Holds, Doing
  <2>1. HandsTyped
    BY DEF FieldTyped
  <2>2. Holds(i) => hands[i].of.due \in 0 .. day
    BY HandOf DEF Holds, Doing
  <2> QED
    BY <1>1, <2>1, <2>2 DEF HandsTyped
<1> QED
  BY <1>2, <1>3, <1>4 DEF FieldTyped

LEMMA StopTyped == ASSUME FieldTyped, NEW i \in Instances, Stop(i) PROVE FieldTyped'
<1>1. FieldTypeOK
  BY DEF FieldTyped
<1>2. [m \in Parties |-> NoParty] \in [Parties -> Party \cup {NoParty}]
  OBVIOUS
<1>3. \A j \in Instances : hands'[j] = IF j = i THEN Resting ELSE hands[j]
  BY <1>1 DEF Stop, FieldTypeOK
<1>4. \A j \in Instances, m \in Parties : batches'[j][m] = IF j = i THEN NoParty ELSE batches[j][m]
  BY <1>1 DEF Stop, FieldTypeOK
<1>5. ask' \in Party \cup {NoAsk} /\ running' \subseteq Instances /\ mishaps' \in 0 .. MaxMishaps
  BY <1>1, FieldConstants DEF Stop, FieldTypeOK
<1>6. /\ hands' \in [Instances -> Handful \cup {Resting}]
      /\ batches' \in [Instances -> [Parties -> Party \cup {NoParty}]]
  BY <1>1, <1>2 DEF Stop, FieldTypeOK
<1>7. FieldTypeOK'
  BY <1>1, <1>5, <1>6 DEF Stop, FieldTypeOK, places
<1>8. BatchesDue'
  BY <1>4 DEF Stop, FieldTyped, BatchesDue
<1>9. HandsTyped'
  BY <1>3 DEF Stop, FieldTyped, HandsTyped, Holds, Doing
<1> QED
  BY <1>7, <1>8, <1>9 DEF FieldTyped

LEMMA StartTyped == ASSUME FieldTyped, NEW i \in Instances, Start(i) PROVE FieldTyped'
<1>1. FieldTypeOK
  BY DEF FieldTyped
<1>2. parties' \in [Parties -> Party \cup {NoParty}]
  BY <1>1, RequeuedParty DEF Start, FieldTypeOK
<1>3. FieldTypeOK'
  BY <1>1, <1>2 DEF Start, FieldTypeOK, places, count
<1> QED
  BY <1>3, NothingTaken DEF Start

LEMMA FightsWith ==
  ASSUME FieldTyped, NEW i \in Instances, Fights(i)
  PROVE  \E won \in BOOLEAN, left \in Strength, back \in Nat : Fight(i, won, left, back)
<1>1. hands[i].force \in Strength /\ hands[i].of \in Party
  BY HandOf DEF Fights, Holds, Doing
<1>2. hands[i].of.force.men \in Nat /\ hands[i].force.men \in Nat /\ hands[i].force.beasts \in Nat
  BY <1>1, PartyFields, StrengthOf
<1>3. Forces(i) \subseteq Strength /\ 0 .. hands[i].of.force.men \subseteq Nat
  BY <1>2 DEF Forces, Strength
<1> QED
  BY <1>3 DEF Fights

LEMMA NextTyped == FieldTyped /\ [FieldNext]_fieldVars => FieldTyped'
<1> SUFFICES ASSUME FieldTyped, [FieldNext]_fieldVars PROVE FieldTyped'
  OBVIOUS
<1>1. CASE Requests
  BY <1>1, AsksTyped DEF Requests
<1>2. CASE Answers
  BY <1>2, RefusedTyped, SendOutTyped, RecallTyped DEF Answers
<1>3. ASSUME NEW i \in Instances, Works(i) PROVE FieldTyped'
  BY <1>3, ClaimPartiesTyped, ReadBattleTyped, ReadStillTyped, RejoinTyped, GivenUpTyped, FightsWith,
     FightTyped, JoinTyped, BounceHomeTyped, ReadRegrowTyped, RegrowTyped DEF Works
<1>4. ASSUME NEW i \in Instances, Stop(i) \/ Start(i) PROVE FieldTyped'
  BY <1>4, StopTyped, StartTyped
<1>5. CASE Elsewhere
  BY <1>5, ElsewhereTyped
<1>6. CASE NextDay
  BY <1>6, NextDayTyped
<1>7. CASE UNCHANGED fieldVars
  <2>1. FieldTypeOK'
    BY <1>7 DEF fieldVars, FieldTyped, FieldTypeOK
  <2> QED
    BY <1>7, <2>1, NothingTaken DEF fieldVars
<1> QED
  BY <1>1, <1>2, <1>3, <1>4, <1>5, <1>6, <1>7 DEF FieldNext

\* Every variable of Oases keeps its type, in every history, quiet or not: no order of claims,
\* battles, sweeps, stops and starts makes a garrison negative or a party of nobody's.
THEOREM FieldTypeCorrect == FieldSpec => []FieldTypeOK
<1>1. FieldTyped => FieldTypeOK
  BY DEF FieldTyped
<1> QED
  BY InitTyped, NextTyped, <1>1, PTL DEF FieldSpec

-----------------------------------------------------------------------------
(* Oases: a quiet history *)

\* What an instance has claimed is the row as it stands, unless a sweep has deleted it; nobody else
\* has it; and two that hold an oasis hold different ones, for different villages.
BatchesHeld == \A i \in Instances, m \in Parties : batches[i][m] # NoParty =>
  /\ batches[i][m].claimed
  /\ parties[m] = batches[i][m] \/ (parties[m] = NoParty /\ batches[i][m].home \notin standing)
  /\ \A j \in Instances \ {i} : batches[j][m] = NoParty
HandsHeld == \A i \in Instances : Holds(i) =>
  /\ hands[i].of.claimed
  /\ \/ hands[i].of.home \notin standing
     \/ /\ parties[hands[i].row] = hands[i].of
        /\ \A j \in Instances : batches[j][hands[i].row] = NoParty
HandsApart == \A i, j \in Instances : i # j /\ Holds(i) /\ Holds(j) =>
  hands[i].at # hands[j].at /\ hands[i].of.home # hands[j].of.home
RowsHeld == BatchesHeld /\ HandsHeld /\ HandsApart

\* An oasis is held by a village that exists, and has a row then; a recall is of an oasis somebody
\* holds; whoever is sent is a man.
Mannered ==
  /\ \A s \in Springs : oasis[s].owner # Nowhere => oasis[s].owner \in standing /\ oasis[s].made
  /\ ask # NoAsk => /\ ask.force.beasts = 0
                    /\ ask.kind = "return" => oasis[ask.to].owner # Nowhere
  /\ OwnGarrison /\ Tame

\* What was read of an oasis before it is written is still so.
StillRead == \A i \in Instances :
  /\ Holds(i) => hands[i].owner = oasis[hands[i].at].owner
  /\ Doing(i, "fight") =>
       /\ hands[i].force = Defenders(hands[i].at)
       /\ hands[i].room <=> Cardinality(Occupied(hands[i].of.home)) < outpost[hands[i].of.home]

FieldInv == FieldTyped /\ RowsHeld /\ Mannered /\ StillRead

LEMMA InitInv == FieldInit => FieldInv
<1> SUFFICES ASSUME FieldInit PROVE FieldInv
  OBVIOUS
<1>1. FieldTyped
  BY InitTyped
<1>2. PICK f \in FirstFields :
        oasis = [s \in Springs |-> [made |-> f[s].owner # Nowhere, owner |-> f[s].owner,
                                    regrow |-> Never, force |-> Men(f[s].men)]]
  BY DEF FieldInit
<1>3. f \in [Springs -> [owner : Homes \cup {Nowhere}, men : Nat]] /\ \A s \in Springs : f[s].owner = Nowhere => f[s].men = 0
  BY OasisAssumption
<1>4. \A s \in Springs : f[s].owner \in Homes \cup {Nowhere} /\ f[s].men \in Nat
  BY <1>3
<1>5. \A i \in Instances : hands[i] = Resting /\ \A m \in Parties : batches[i][m] = NoParty
  BY DEF FieldInit
<1>6. RowsHeld /\ StillRead
  BY <1>5 DEF RowsHeld, BatchesHeld, HandsHeld, HandsApart, StillRead, Holds, Doing
<1>7. \A s \in Springs : /\ oasis[s].owner = f[s].owner /\ (oasis[s].made <=> f[s].owner # Nowhere)
                         /\ oasis[s].force = Men(f[s].men)
  BY <1>2
<1>8. \A h \in Homes : \E n \in Nat : homes[h] = Men(n)
  <2> SUFFICES ASSUME NEW h \in Homes PROVE \E n \in Nat : homes[h] = Men(n)
    OBVIOUS
  <2>1. PICK n : homes[h] = Men(n)
    BY DEF FieldInit
  <2>2. homes[h] \in Strength
    BY <1>1 DEF FieldTyped, FieldTypeOK
  <2>3. n \in Nat
    BY <2>1, <2>2 DEF Men, Strength
  <2> QED
    BY <2>1, <2>3
<1>9. OwnGarrison /\ Tame
  BY <1>3, <1>4, <1>7, <1>8, StrengthOf DEF OwnGarrison, Tame, FieldInit
<1>10. Mannered
  BY <1>4, <1>7, <1>9 DEF Mannered, FieldInit
<1> QED
  BY <1>1, <1>6, <1>10 DEF FieldInv

\* What a step of an instance does to the hands and the batches, instance by instance.
LEMMA RestsHands ==
  ASSUME FieldTyped, NEW i \in Instances, Rests(i)
  PROVE  batches' = batches /\ \A j \in Instances : hands'[j] = IF j = i THEN Resting ELSE hands[j]
BY DEF Rests, FieldTyped, FieldTypeOK

LEMMA PutsHands ==
  ASSUME FieldTyped, NEW i \in Instances, NEW m \in Parties, NEW hand, Puts(i, m, hand)
  PROVE  /\ \A j \in Instances : hands'[j] = IF j = i THEN hand ELSE hands[j]
         /\ \A j \in Instances, n \in Parties : batches'[j][n] = IF j = i /\ n = m THEN NoParty ELSE batches[j][n]
BY DEF Puts, FieldTyped, FieldTypeOK

\* A hand whose village exists has its row still there, and his alone; it is of men.
LEMMA HeldRow ==
  ASSUME FieldInv, NEW i \in Instances, Holds(i), hands[i].of.home \in standing
  PROVE  /\ hands[i].row \in Parties /\ parties[hands[i].row] = hands[i].of /\ Done(i) = {hands[i].row}
         /\ hands[i].of # NoParty /\ hands[i].of.force \in Strength /\ hands[i].of.force.beasts = 0
         /\ \A j \in Instances : batches[j][hands[i].row] = NoParty
         /\ \A j \in Instances \ {i} : Holds(j) /\ hands[j].of.home \in standing => hands[j].row # hands[i].row
<1>1. /\ hands[i].row \in Parties /\ hands[i].of \in Party
      /\ parties[hands[i].row] = hands[i].of /\ \A j \in Instances : batches[j][hands[i].row] = NoParty
  BY HandOf DEF FieldInv, RowsHeld, HandsHeld, Holds, Doing
<1>2. hands[i].of # NoParty
  BY <1>1, FieldConstants
<1>3. hands[i].of.force \in Strength /\ hands[i].of.force.beasts = 0
  BY <1>1, <1>2, PartyFields DEF FieldInv, Mannered, Tame
<1>4. ASSUME NEW j \in Instances \ {i}, Holds(j), hands[j].of.home \in standing PROVE hands[j].row # hands[i].row
  BY <1>1, <1>4 DEF FieldInv, RowsHeld, HandsHeld, HandsApart
<1> QED
  BY <1>1, <1>2, <1>3, <1>4 DEF Done

\* A party that finds the oasis its own finds its village there too.
LEMMA HomeOfJoin ==
  ASSUME FieldInv, NEW i \in Instances, Doing(i, "join"), hands[i].owner = hands[i].of.home
  PROVE  /\ hands[i].of.home \in standing /\ hands[i].at \in Springs
         /\ oasis[hands[i].at].owner = hands[i].of.home /\ oasis[hands[i].at].owner # Nowhere
<1>1. Holds(i) /\ hands[i] # Resting
  BY DEF Holds, Doing
<1>2. hands[i].at \in Springs /\ hands[i].of.home \in Homes
  BY <1>1, HandOf, PartyFields DEF FieldInv
<1>3. oasis[hands[i].at].owner = hands[i].of.home
  BY <1>1 DEF FieldInv, StillRead
<1> QED
  BY <1>2, <1>3, FieldConstants DEF FieldInv, Mannered

\* A party that is done leaves its row, or goes home in it.
LEMMA BackRow ==
  ASSUME FieldInv, NEW i \in Instances, Holds(i), hands[i].of.home \in standing,
         NEW force \in Strength, Back(i, force)
  PROVE  /\ \A m \in Parties \ {hands[i].row} : parties'[m] = parties[m]
         /\ \/ parties'[hands[i].row] = NoParty /\ force = None
            \/ parties'[hands[i].row] \in Party /\ parties'[hands[i].row].force = force
<1> DEFINE row == hands[i].row
           way == [hands[i].of EXCEPT !.kind = "return", !.force = force, !.due = @ + Walk, !.claimed = FALSE]
<1>1. /\ row \in Parties /\ Done(i) = {row} /\ hands[i].of \in Party
      /\ parties \in [Parties -> Party \cup {NoParty}]
  BY HeldRow, HandOf DEF Holds, Doing, FieldInv, FieldTyped, FieldTypeOK
<1>2. CASE force = None
  BY <1>1, <1>2 DEF Back
<1>3. CASE force # None
  <2>1. parties' = [parties EXCEPT ![row] = way]
    BY <1>1, <1>3 DEF Back
  <2>2. hands[i].of.due + Walk \in Days
    BY HandOf, DaysHold DEF Holds, Doing, FieldInv, FieldTyped
  <2>3. way \in Party /\ way.force = force
    BY <1>1, <2>2 DEF Party
  <2> HIDE DEF row, way
  <2> QED
    BY <1>1, <2>1, <2>3 DEF row
<1> QED
  BY <1>2, <1>3

-----------------------------------------------------------------------------
(* RowsHeld *)

LEMMA ApartNext == ASSUME FieldQuiet PROVE HandsApart'
BY DEF FieldQuiet, ReadAlone, HandsApart, Holds, Doing

\* A row that nobody handles is filled.
LEMMA FilledHeld ==
  ASSUME FieldInv, FieldQuiet, NEW m \in Parties, Spare(m), UNCHANGED <<standing, batches, hands>>,
         \A n \in Parties \ {m} : parties'[n] = parties[n]
  PROVE  RowsHeld'
<1>1. parties[m] = NoParty /\ \A i \in Instances : batches[i][m] = NoParty
  BY DEF Spare
<1>2. BatchesHeld'
  BY <1>1 DEF FieldInv, RowsHeld, BatchesHeld
<1>3. ASSUME NEW i \in Instances, Holds(i), hands[i].of.home \in standing
      PROVE  parties'[hands[i].row] = hands[i].of
  BY <1>1, <1>3, HeldRow
<1>4. HandsHeld'
  BY <1>3 DEF FieldInv, RowsHeld, HandsHeld, Holds, Doing
<1> QED
  BY <1>2, <1>4, ApartNext DEF RowsHeld

LEMMA ClaimPartiesHeld ==
  ASSUME FieldInv, FieldQuiet, NEW i \in Instances, NEW kind \in {"attack", "reinforce", "return"}, ClaimParties(i, kind)
  PROVE  RowsHeld'
<1> DEFINE S == {m \in Parties : parties[m] # NoParty /\ parties[m].kind = kind
                                 /\ parties[m].due <= day /\ ~parties[m].claimed}
<1>1. FieldTypeOK
  BY DEF FieldInv, FieldTyped
<1>2. /\ \A m \in Parties : parties'[m] = IF m \in S THEN Claimed(parties[m]) ELSE parties[m]
      /\ \A m \in Parties : batches'[i][m] = IF m \in S THEN Claimed(parties[m]) ELSE NoParty
      /\ \A j \in Instances \ {i} : batches'[j] = batches[j]
  BY <1>1 DEF ClaimParties, FieldTypeOK
<1>3. \A m \in S : parties[m] \in Party /\ Claimed(parties[m]) \in Party /\ Claimed(parties[m]).claimed
                   /\ ~parties[m].claimed /\ Claimed(parties[m]) # NoParty
  BY <1>1, ClaimedParty, FieldConstants DEF FieldTypeOK
<1>4. \A m \in Parties : batches[i][m] = NoParty
  BY DEF ClaimParties, Empty
<1> HIDE DEF S
<1>5. \A j \in Instances, m \in S : batches[j][m] = NoParty
  BY <1>3, FieldConstants DEF S, FieldInv, RowsHeld, BatchesHeld
<1>6. BatchesHeld'
  <2> SUFFICES ASSUME NEW j \in Instances, NEW m \in Parties, batches'[j][m] # NoParty
               PROVE  /\ batches'[j][m].claimed
                      /\ parties'[m] = batches'[j][m] \/ (parties'[m] = NoParty /\ batches'[j][m].home \notin standing')
                      /\ \A k \in Instances \ {j} : batches'[k][m] = NoParty
    BY DEF BatchesHeld
  <2>1. CASE j = i
    BY <1>2, <1>3, <1>5, <2>1
  <2>2. CASE j # i
    <3>1. batches[j][m] # NoParty /\ batches'[j][m] = batches[j][m] /\ m \notin S
      BY <1>2, <1>5, <2>2
    <3>2. /\ batches[j][m].claimed
          /\ parties[m] = batches[j][m] \/ (parties[m] = NoParty /\ batches[j][m].home \notin standing)
          /\ \A k \in Instances \ {j} : batches[k][m] = NoParty
      BY <3>1 DEF FieldInv, RowsHeld, BatchesHeld
    <3>3. standing' = standing
      BY DEF ClaimParties, places
    <3> QED
      BY <1>2, <3>1, <3>2, <3>3
  <2> QED
    BY <2>1, <2>2
<1>7. ASSUME NEW j \in Instances, Holds(j), hands[j].of.home \in standing
      PROVE  /\ parties'[hands[j].row] = hands[j].of
             /\ \A k \in Instances : batches'[k][hands[j].row] = NoParty
  <2>1. /\ parties[hands[j].row] = hands[j].of /\ hands[j].row \in Parties /\ hands[j].of.claimed
        /\ \A k \in Instances : batches[k][hands[j].row] = NoParty
    BY <1>7, HeldRow DEF FieldInv, RowsHeld, HandsHeld
  <2>2. hands[j].row \notin S
    BY <1>3, <2>1
  <2> QED
    BY <1>2, <2>1, <2>2
<1>8. HandsHeld'
  BY <1>7 DEF ClaimParties, places, FieldInv, RowsHeld, HandsHeld, Holds, Doing
<1> QED
  BY <1>6, <1>8, ApartNext DEF RowsHeld

\* A party is taken out of a batch into the hand, or settled: then its row may be emptied.
LEMMA PutsHeld ==
  ASSUME FieldInv, FieldQuiet, NEW i \in Instances, NEW m \in Parties, NEW hand \in Handful \cup {Resting},
         Puts(i, m, hand), batches[i][m] # NoParty, standing' = standing,
         \A n \in Parties \ {m} : parties'[n] = parties[n],
         hand = Resting \/ (parties'[m] = parties[m] /\ hand.row = m /\ hand.of = batches[i][m]),
         parties'[m] = NoParty \/ parties'[m] = parties[m]
  PROVE  RowsHeld'
<1>1. /\ \A j \in Instances : hands'[j] = IF j = i THEN hand ELSE hands[j]
      /\ \A j \in Instances, n \in Parties : batches'[j][n] = IF j = i /\ n = m THEN NoParty ELSE batches[j][n]
  BY PutsHands DEF FieldInv
<1>2. /\ batches[i][m].claimed
      /\ parties[m] = batches[i][m] \/ (parties[m] = NoParty /\ batches[i][m].home \notin standing)
      /\ \A j \in Instances \ {i} : batches[j][m] = NoParty
  BY DEF FieldInv, RowsHeld, BatchesHeld
<1>3. \A j \in Instances : batches'[j][m] = NoParty
  BY <1>1, <1>2
<1>4. BatchesHeld'
  BY <1>1, <1>3 DEF FieldInv, RowsHeld, BatchesHeld
<1>5. HandsHeld'
  <2> SUFFICES ASSUME NEW j \in Instances, Holds(j)'
               PROVE  /\ hands'[j].of.claimed
                      /\ \/ hands'[j].of.home \notin standing
                         \/ /\ parties'[hands'[j].row] = hands'[j].of
                            /\ \A k \in Instances : batches'[k][hands'[j].row] = NoParty
    BY DEF HandsHeld
  <2>1. CASE j = i
    <3>1. hand # Resting /\ hands'[j] = hand
      BY <1>1, <2>1 DEF Holds, Doing
    <3> QED
      BY <1>2, <1>3, <3>1
  <2>2. CASE j # i
    <3>1. hands'[j] = hands[j] /\ Holds(j)
      BY <1>1, <2>2 DEF Holds, Doing
    <3>2. hands[j].of.claimed
      BY <3>1 DEF FieldInv, RowsHeld, HandsHeld
    <3>3. CASE hands[j].of.home \in standing
      <4>1. /\ hands[j].row \in Parties /\ parties[hands[j].row] = hands[j].of
            /\ \A k \in Instances : batches[k][hands[j].row] = NoParty
        BY <3>1, <3>3, HeldRow
      <4>2. hands[j].row # m
        BY <4>1
      <4> QED
        BY <1>1, <3>1, <3>2, <4>1, <4>2
    <3> QED
      BY <3>1, <3>2, <3>3
  <2> QED
    BY <2>1, <2>2
<1> QED
  BY <1>4, <1>5, ApartNext DEF RowsHeld

\* A hand is laid down, and the row it held may change.
LEMMA RestsHeld ==
  ASSUME FieldInv, FieldQuiet, NEW i \in Instances, Rests(i), standing' = standing,
         \/ parties' = parties
         \/ /\ Holds(i) /\ hands[i].of.home \in standing
            /\ \A m \in Parties \ {hands[i].row} : parties'[m] = parties[m]
  PROVE  RowsHeld'
<1>1. batches' = batches /\ \A j \in Instances : hands'[j] = IF j = i THEN Resting ELSE hands[j]
  BY RestsHands DEF FieldInv
<1>2. \A j \in Instances, m \in Parties : batches[j][m] # NoParty => parties'[m] = parties[m]
  BY HeldRow
<1>3. BatchesHeld'
  BY <1>1, <1>2 DEF FieldInv, RowsHeld, BatchesHeld
<1>4. ASSUME NEW j \in Instances, Holds(j)' PROVE j # i /\ hands'[j] = hands[j] /\ Holds(j)
  BY <1>1, <1>4 DEF Holds, Doing
<1>5. ASSUME NEW j \in Instances \ {i}, Holds(j), hands[j].of.home \in standing
      PROVE  parties'[hands[j].row] = hands[j].of
  BY <1>5, HeldRow
<1>6. HandsHeld'
  <2> SUFFICES ASSUME NEW j \in Instances, Holds(j)'
               PROVE  /\ hands'[j].of.claimed
                      /\ \/ hands'[j].of.home \notin standing'
                         \/ /\ parties'[hands'[j].row] = hands'[j].of
                            /\ \A k \in Instances : batches'[k][hands'[j].row] = NoParty
    BY DEF HandsHeld
  <2>1. j # i /\ hands'[j] = hands[j] /\ Holds(j)
    BY <1>4
  <2> QED
    BY <1>1, <1>5, <2>1 DEF FieldInv, RowsHeld, HandsHeld
<1> QED
  BY <1>3, <1>6, ApartNext DEF RowsHeld

\* Nothing happens to what is handled.
LEMMA NothingHeld ==
  ASSUME FieldInv, FieldQuiet, UNCHANGED <<standing, parties, batches, hands>>
  PROVE  RowsHeld'
BY ApartNext DEF FieldInv, RowsHeld, BatchesHeld, HandsHeld, Holds, Doing

\* A conquest and a sweep delete rows: what is claimed only if its village goes.
LEMMA ElsewhereHeld ==
  ASSUME FieldInv, FieldQuiet, Elsewhere
  PROVE  RowsHeld'
<1>1. PICK i \in Instances, h \in Homes : Conquest(i, h) \/ Sweep(i, h) \/ \E c \in Capacities : Rebuild(i, h, c)
  BY DEF Elsewhere
<1>2. ASSUME NEW c \in Capacities, Rebuild(i, h, c) PROVE RowsHeld'
  BY <1>2, NothingHeld DEF Rebuild
<1>3. CASE Conquest(i, h)
  <2>1. /\ \A m \in Parties : parties'[m] = parties[m] \/ (parties'[m] = NoParty /\ ~parties[m].claimed)
        /\ UNCHANGED <<standing, batches, hands>>
    BY <1>3 DEF Conquest, places
  <2>2. BatchesHeld'
    <3> SUFFICES ASSUME NEW j \in Instances, NEW m \in Parties, batches[j][m] # NoParty
                 PROVE  parties'[m] = parties[m]
      BY <2>1 DEF FieldInv, RowsHeld, BatchesHeld
    <3>1. /\ batches[j][m].claimed
          /\ parties[m] = batches[j][m] \/ (parties[m] = NoParty /\ batches[j][m].home \notin standing)
      BY DEF FieldInv, RowsHeld, BatchesHeld
    <3> QED
      BY <2>1, <3>1
  <2>3. HandsHeld'
    <3>1. ASSUME NEW j \in Instances, Holds(j), hands[j].of.home \in standing
          PROVE  parties'[hands[j].row] = hands[j].of
      <4>1. hands[j].row \in Parties /\ parties[hands[j].row] = hands[j].of /\ hands[j].of.claimed
        BY <3>1, HeldRow DEF FieldInv, RowsHeld, HandsHeld
      <4> QED
        BY <2>1, <4>1
    <3> QED
      BY <2>1, <3>1 DEF FieldInv, RowsHeld, HandsHeld, Holds, Doing
  <2> QED
    BY <2>2, <2>3, ApartNext DEF RowsHeld
<1>4. CASE Sweep(i, h)
  <2>1. /\ \A m \in Parties : parties'[m] = IF parties[m] # NoParty /\ parties[m].home = h THEN NoParty ELSE parties[m]
        /\ standing' = standing \ {h} /\ UNCHANGED <<batches, hands>>
    BY <1>4 DEF Sweep
  <2>2. BatchesHeld'
    <3> SUFFICES ASSUME NEW j \in Instances, NEW m \in Parties, batches[j][m] # NoParty
                 PROVE  parties'[m] = batches[j][m] \/ (parties'[m] = NoParty /\ batches[j][m].home \notin standing')
      BY <2>1 DEF FieldInv, RowsHeld, BatchesHeld
    <3>1. parties[m] = batches[j][m] \/ (parties[m] = NoParty /\ batches[j][m].home \notin standing)
      BY DEF FieldInv, RowsHeld, BatchesHeld
    <3> QED
      BY <2>1, <3>1
  <2>3. HandsHeld'
    <3>1. ASSUME NEW j \in Instances, Holds(j), hands[j].of.home \in standing'
          PROVE  parties'[hands[j].row] = hands[j].of
      <4>1. hands[j].row \in Parties /\ parties[hands[j].row] = hands[j].of
        BY <2>1, <3>1, HeldRow
      <4> QED
        BY <2>1, <3>1, <4>1
    <3> QED
      BY <2>1, <3>1 DEF FieldInv, RowsHeld, HandsHeld, Holds, Doing
  <2> QED
    BY <2>2, <2>3, ApartNext DEF RowsHeld
<1> QED
  BY <1>1, <1>2, <1>3, <1>4

LEMMA StopHeld ==
  ASSUME FieldInv, FieldQuiet, NEW i \in Instances, Stop(i)
  PROVE  RowsHeld'
<1>1. /\ \A j \in Instances : hands'[j] = IF j = i THEN Resting ELSE hands[j]
      /\ \A j \in Instances, m \in Parties : batches'[j][m] = IF j = i THEN NoParty ELSE batches[j][m]
      /\ UNCHANGED <<standing, parties>>
  BY DEF Stop, places, FieldInv, FieldTyped, FieldTypeOK
<1>2. BatchesHeld'
  BY <1>1 DEF FieldInv, RowsHeld, BatchesHeld
<1>3. HandsHeld'
  <2> SUFFICES ASSUME NEW j \in Instances, Holds(j)'
               PROVE  /\ hands'[j].of.claimed
                      /\ \/ hands'[j].of.home \notin standing
                         \/ /\ parties[hands'[j].row] = hands'[j].of
                            /\ \A k \in Instances : batches'[k][hands'[j].row] = NoParty
    BY <1>1 DEF HandsHeld
  <2>1. hands'[j] = hands[j] /\ Holds(j)
    BY <1>1 DEF Holds, Doing
  <2>2. hands[j].row \in Parties
    BY <2>1, HandOf DEF FieldInv, Holds, Doing
  <2> QED
    BY <1>1, <2>1, <2>2 DEF FieldInv, RowsHeld, HandsHeld
<1> QED
  BY <1>2, <1>3, ApartNext DEF RowsHeld

LEMMA StartHeld ==
  ASSUME FieldInv, FieldQuiet, NEW i \in Instances, Start(i)
  PROVE  RowsHeld'
<1>1. running' \ running # {} /\ UNCHANGED <<batches, hands>>
  BY DEF Start
<1>2. \A j \in Instances : hands[j] = Resting /\ \A m \in Parties : batches[j][m] = NoParty
  BY <1>1 DEF FieldQuiet, StartsAlone, Empty
<1>3. BatchesHeld' /\ HandsHeld'
  BY <1>1, <1>2 DEF BatchesHeld, HandsHeld, Holds, Doing
<1> QED
  BY <1>3, ApartNext DEF RowsHeld

LEMMA RejoinHeld ==
  ASSUME FieldInv, FieldQuiet, NEW i \in Instances, NEW m \in Parties, Rejoin(i, m)
  PROVE  RowsHeld'
<1>1. parties \in [Parties -> Party \cup {NoParty}]
  BY DEF FieldInv, FieldTyped, FieldTypeOK
<1>2. /\ \A n \in Parties \ {m} : parties'[n] = parties[n]
      /\ parties'[m] = NoParty \/ parties'[m] = parties[m]
  BY <1>1 DEF Rejoin
<1>3. Puts(i, m, Resting) /\ batches[i][m] # NoParty /\ standing' = standing
  BY DEF Rejoin, Picks, places
<1> QED
  BY <1>2, <1>3, PutsHeld

LEMMA GivenUpHeld ==
  ASSUME FieldInv, FieldQuiet, NEW i \in Instances, NEW m \in Parties, GivenUp(i, m)
  PROVE  RowsHeld'
<1>1. UNCHANGED <<standing, parties>>
  BY DEF GivenUp, places
<1>2. CASE batches[i][m] # NoParty /\ Puts(i, m, Resting)
  BY <1>1, <1>2, PutsHeld
<1>3. CASE Rests(i)
  BY <1>1, <1>3, RestsHeld
<1> QED
  BY <1>2, <1>3 DEF GivenUp

LEMMA ReadBattleHeld ==
  ASSUME FieldInv, FieldQuiet, NEW i \in Instances, NEW m \in Parties, ReadBattle(i, m)
  PROVE  RowsHeld'
<1> DEFINE p == batches[i][m]
           room == Cardinality(Occupied(p.home)) < outpost[p.home]
           hand == Fighting(p, m, room, oasis[p.to].owner, Defenders(p.to))
<1>1. FieldTypeOK /\ FieldTyped
  BY DEF FieldInv, FieldTyped
<1>2. p \in Party /\ p.to \in Springs /\ p # NoParty
  BY <1>1, BatchOf, PartyFields DEF ReadBattle, Picks
<1>3. /\ oasis[p.to].owner \in Homes \cup {Nowhere} /\ Defenders(p.to) \in Strength
      /\ room \in BOOLEAN
  BY <1>1, <1>2, DefendersIn DEF FieldTypeOK, Oasis
<1>4. Puts(i, m, hand) /\ UNCHANGED <<standing, parties>>
  BY DEF ReadBattle, Fighting, places
<1> HIDE DEF p, room
<1>5. hand \in Handful /\ hand.row = m /\ hand.of = p
  BY <1>2, <1>3, FightingHand
<1> HIDE DEF hand
<1> QED
  BY <1>2, <1>4, <1>5, PutsHeld DEF p

LEMMA ReadStillHeld ==
  ASSUME FieldInv, FieldQuiet, NEW i \in Instances, NEW m \in Parties, ReadStill(i, m)
  PROVE  RowsHeld'
<1> DEFINE p == batches[i][m]
           hand == Joining(p, m, oasis[p.to].owner)
<1>1. FieldTypeOK /\ FieldTyped
  BY DEF FieldInv, FieldTyped
<1>2. p \in Party /\ p.to \in Springs /\ p # NoParty
  BY <1>1, BatchOf, PartyFields DEF ReadStill, Picks
<1>3. oasis[p.to].owner \in Homes \cup {Nowhere}
  BY <1>1, <1>2 DEF FieldTypeOK, Oasis
<1>4. Puts(i, m, hand) /\ UNCHANGED <<standing, parties>>
  BY DEF ReadStill, Joining, places
<1> HIDE DEF p
<1>5. hand \in Handful /\ hand.row = m /\ hand.of = p
  BY <1>2, <1>3, JoiningHand
<1> HIDE DEF hand
<1> QED
  BY <1>2, <1>4, <1>5, PutsHeld DEF p

LEMMA ReadRegrowHeld ==
  ASSUME FieldInv, FieldQuiet, NEW i \in Instances, NEW s \in Springs, ReadRegrow(i, s)
  PROVE  RowsHeld'
<1>1. /\ \A j \in Instances \ {i} : hands'[j] = hands[j]
      /\ hands'[i].step = "regrow" /\ UNCHANGED <<standing, parties, batches>>
  BY DEF ReadRegrow, places, FieldInv, FieldTyped, FieldTypeOK
<1>2. ASSUME NEW j \in Instances, Holds(j)' PROVE Holds(j) /\ hands'[j] = hands[j]
  BY <1>1, <1>2 DEF Holds, Doing
<1>3. BatchesHeld' /\ HandsHeld'
  BY <1>1, <1>2 DEF FieldInv, RowsHeld, BatchesHeld, HandsHeld
<1> QED
  BY <1>3, ApartNext DEF RowsHeld

LEMMA SendsHeld ==
  ASSUME FieldInv, FieldQuiet, NEW m \in Parties, SendOut(m) \/ Recall(m)
  PROVE  RowsHeld'
<1>1. parties \in [Parties -> Party \cup {NoParty}]
  BY DEF FieldInv, FieldTyped, FieldTypeOK
<1>2. /\ Spare(m) /\ UNCHANGED <<standing, batches, hands>>
      /\ \A n \in Parties \ {m} : parties'[n] = parties[n]
  BY <1>1 DEF SendOut, Recall, places
<1> QED
  BY <1>2, FilledHeld

\* The three ways a party that was read is settled.
LEMMA SettledHeld ==
  ASSUME FieldInv, FieldQuiet, NEW i \in Instances,
         \/ \E won \in BOOLEAN, left \in Strength, back \in Nat : Fight(i, won, left, back)
         \/ Join(i) \/ BounceHome(i)
  PROVE  RowsHeld'
<1>1. Holds(i) /\ hands[i] # Resting /\ Rests(i) /\ standing' = standing
  BY DEF Holds, Doing, Fight, Join, BounceHome, places
<1>2. hands[i].of.home \in standing
  BY HomeOfJoin DEF Fight, Join, BounceHome
<1>3. hands[i].of.force \in Strength
  BY <1>1, <1>2, HeldRow
<1>4. \E force \in Strength : Back(i, force)
  BY <1>3, StrengthOf DEF Fight, Join, BounceHome
<1>5. \A m \in Parties \ {hands[i].row} : parties'[m] = parties[m]
  BY <1>1, <1>2, <1>4, BackRow
<1> QED
  BY <1>1, <1>2, <1>5, RestsHeld

LEMMA HeldNext == FieldInv /\ [FieldNext /\ FieldQuiet]_fieldVars => RowsHeld'
<1> SUFFICES ASSUME FieldInv, [FieldNext /\ FieldQuiet]_fieldVars PROVE RowsHeld'
  OBVIOUS
<1>1. CASE FieldNext /\ FieldQuiet
  <2>1. CASE Requests
    BY <1>1, <2>1, NothingHeld DEF Requests, Asks, places
  <2>2. CASE Answers
    BY <1>1, <2>2, SendsHeld, NothingHeld DEF Answers, Refused, places
  <2>3. ASSUME NEW i \in Instances, Works(i) PROVE RowsHeld'
    <3>1. CASE Fights(i)
      BY <1>1, <3>1, FightsWith, SettledHeld DEF FieldInv
    <3>2. CASE Regrow(i)
      BY <1>1, <3>2, RestsHeld DEF Regrow, places
    <3> QED
      BY <1>1, <2>3, <3>1, <3>2, ClaimPartiesHeld, ReadBattleHeld, ReadStillHeld, RejoinHeld, GivenUpHeld,
         SettledHeld, ReadRegrowHeld DEF Works
  <2>4. ASSUME NEW i \in Instances, Stop(i) \/ Start(i) PROVE RowsHeld'
    BY <1>1, <2>4, StopHeld, StartHeld
  <2>5. CASE Elsewhere
    BY <1>1, <2>5, ElsewhereHeld
  <2>6. CASE NextDay
    BY <1>1, <2>6, NothingHeld DEF NextDay, places
  <2> QED
    BY <1>1, <2>1, <2>2, <2>3, <2>4, <2>5, <2>6 DEF FieldNext
<1>2. CASE UNCHANGED fieldVars
  BY <1>2 DEF fieldVars, FieldInv, RowsHeld, BatchesHeld, HandsHeld, HandsApart, Holds, Doing
<1> QED
  BY <1>1, <1>2

-----------------------------------------------------------------------------
(* Mannered *)

Owned(o) == o.owner # Nowhere => o.owner \in standing /\ o.made
Guarded(o) == IF o.owner = Nowhere THEN o.force.men = 0 ELSE o.force.beasts = 0
AskedWell == ask # NoAsk => /\ ask.force.beasts = 0
                            /\ ask.kind = "return" => oasis[ask.to].owner # Nowhere

LEMMA ManneredBy ==
  /\ Mannered <=> /\ \A s \in Springs : Owned(oasis[s]) /\ Guarded(oasis[s])
                  /\ AskedWell /\ Tame
  /\ Mannered' <=> /\ \A s \in Springs : Owned(oasis[s])' /\ Guarded(oasis[s])'
                   /\ AskedWell' /\ Tame'
BY DEF Mannered, Owned, Guarded, OwnGarrison, AskedWell

LEMMA TypesOf ==
  ASSUME FieldInv
  PROVE  /\ FieldTypeOK /\ FieldTyped
         /\ homes \in [Homes -> Strength] /\ oasis \in [Springs -> Oasis]
         /\ parties \in [Parties -> Party \cup {NoParty}]
         /\ \A s \in Springs : oasis[s] \in Oasis /\ oasis[s].force \in Strength
                               /\ oasis[s].owner \in Homes \cup {Nowhere} /\ oasis[s].made \in BOOLEAN
         /\ \A m \in Parties : parties[m] # NoParty => parties[m] \in Party /\ parties[m].force \in Strength
         /\ Mannered /\ lost \in Nat
         /\ \A h \in Homes : homes[h] \in Strength /\ homes[h].men \in Nat
BY PartyFields, StrengthOf DEF FieldInv, FieldTyped, FieldTypeOK, Oasis

\* An ask that lasts is as good as it was, since no oasis changes hands under a recall.
LEMMA AskedWellNext ==
  ASSUME FieldInv, FieldQuiet, ask' = ask \/ ask' = NoAsk
  PROVE  AskedWell'
<1>1. AskedWell
  BY TypesOf, ManneredBy
<1>2. ask # NoAsk /\ ask' = ask /\ ask.kind = "return" => oasis'[ask.to].owner = oasis[ask.to].owner
  BY DEF FieldQuiet, RecallsOwn
<1> QED
  BY <1>1, <1>2 DEF AskedWell

\* Nothing moves.
LEMMA NothingMoves ==
  ASSUME FieldInv, FieldQuiet, ask' = ask \/ ask' = NoAsk, UNCHANGED <<standing, homes, oasis>>,
         \A m \in Parties : parties'[m] = parties[m] \/ parties'[m] = NoParty
           \/ (parties[m] # NoParty /\ parties'[m].force = parties[m].force)
  PROVE  Mannered'
<1>1. \A s \in Springs : Owned(oasis[s])' /\ Guarded(oasis[s])'
  BY TypesOf, ManneredBy DEF Owned, Guarded
<1>2. Tame'
  BY TypesOf DEF Mannered, Tame
<1> QED
  BY <1>1, <1>2, AskedWellNext, ManneredBy

LEMMA AsksMannered ==
  ASSUME FieldInv, NEW kind \in {"attack", "reinforce", "return"}, NEW h \in Homes, NEW s \in Springs,
         NEW n, Asks(kind, h, s, n)
  PROVE  Mannered'
<1>1. ask' = [kind |-> kind, home |-> h, to |-> s, force |-> Men(n), due |-> day + Walk, claimed |-> FALSE]
      /\ UNCHANGED <<standing, homes, oasis, parties>>
  BY DEF Asks, places
<1>2. kind = "return" => oasis[s].owner = h
  BY DEF Asks, AskRecall
<1>3. AskedWell'
  BY <1>1, <1>2, FieldConstants DEF AskedWell, Men
<1>4. \A t \in Springs : Owned(oasis[t])' /\ Guarded(oasis[t])'
  BY <1>1, TypesOf, ManneredBy DEF Owned, Guarded
<1>5. Tame'
  BY <1>1, TypesOf DEF Mannered, Tame
<1> QED
  BY <1>3, <1>4, <1>5, ManneredBy

LEMMA SendOutMannered ==
  ASSUME FieldInv, NEW m \in Parties, SendOut(m)
  PROVE  Mannered'
<1>1. /\ ask # NoAsk /\ ask \in Party /\ ask.force.beasts = 0 /\ ask.home \in Homes
  BY PartyFields DEF SendOut, FieldInv, Mannered, FieldTyped, FieldTypeOK
<1>2. /\ \A h \in Homes : homes'[h].beasts = homes[h].beasts
      /\ \A n \in Parties : parties'[n] = IF n = m THEN ask ELSE parties[n]
      /\ ask' = NoAsk /\ UNCHANGED <<standing, oasis>>
  BY <1>1, TypesOf DEF SendOut, places, Strength
<1>3. \A s \in Springs : Owned(oasis[s])' /\ Guarded(oasis[s])'
  BY <1>2, TypesOf, ManneredBy DEF Owned, Guarded
<1>4. Tame'
  BY <1>1, <1>2, TypesOf DEF Mannered, Tame
<1>5. AskedWell'
  BY <1>2 DEF AskedWell
<1> QED
  BY <1>3, <1>4, <1>5, ManneredBy

\* What a recall does to the oasis and to the row it fills.
LEMMA RecallMoves ==
  ASSUME FieldInv, NEW m \in Parties, Recall(m)
  PROVE  /\ ask.to \in Springs /\ parties[m] = NoParty /\ ask \in Party
         /\ \A s \in Springs : /\ oasis'[s].owner = oasis[s].owner /\ oasis'[s].made = oasis[s].made
                               /\ oasis'[s].force = IF s = ask.to THEN None ELSE oasis[s].force
         /\ \A n \in Parties \ {m} : parties'[n] = parties[n]
         /\ parties'[m] \in Party /\ parties'[m].force = oasis[ask.to].force
         /\ oasis[ask.to].owner # Nowhere /\ oasis[ask.to].force.beasts = 0
<1>1. ask # NoAsk /\ ask \in Party /\ ask.kind = "return" /\ ask.to \in Springs /\ parties[m] = NoParty
  BY PartyFields DEF Recall, Spare, FieldInv, FieldTyped, FieldTypeOK
<1>2. oasis[ask.to].owner # Nowhere /\ oasis[ask.to].force.beasts = 0
  BY <1>1, TypesOf, ManneredBy DEF AskedWell, Guarded
<1>3. oasis' = [oasis EXCEPT ![ask.to].force = None]
  BY DEF Recall
<1>4. \A s \in Springs : /\ oasis'[s].owner = oasis[s].owner /\ oasis'[s].made = oasis[s].made
                         /\ oasis'[s].force = IF s = ask.to THEN None ELSE oasis[s].force
  BY <1>1, <1>3, TypesOf DEF Oasis
<1>5. /\ [ask EXCEPT !.force = oasis[ask.to].force] \in Party
      /\ [ask EXCEPT !.force = oasis[ask.to].force].force = oasis[ask.to].force
  BY <1>1, TypesOf DEF Party
<1>6. /\ \A n \in Parties \ {m} : parties'[n] = parties[n]
      /\ parties'[m] = [ask EXCEPT !.force = oasis[ask.to].force]
  BY TypesOf DEF Recall
<1> QED
  BY <1>1, <1>2, <1>4, <1>5, <1>6

LEMMA RecallMannered ==
  ASSUME FieldInv, NEW m \in Parties, Recall(m)
  PROVE  Mannered'
<1>1. ask' = NoAsk /\ UNCHANGED <<standing, homes>>
  BY DEF Recall, places
<1>2. \A s \in Springs : Owned(oasis[s])' /\ Guarded(oasis[s])'
  BY <1>1, RecallMoves, TypesOf, ManneredBy, StrengthOf DEF Owned, Guarded
<1>3. Tame'
  BY <1>1, RecallMoves, TypesOf DEF Mannered, Tame
<1> QED
  BY <1>1, <1>2, <1>3, ManneredBy DEF AskedWell

\* What a battle does: the garrison that was read was the one that stood there.
LEMMA FightMoves ==
  ASSUME FieldInv, NEW i \in Instances, NEW won \in BOOLEAN, NEW left \in Strength, NEW back \in Nat,
         Fight(i, won, left, back)
  PROVE  /\ hands[i].at \in Springs /\ hands[i].row \in Parties /\ hands[i].of.home \in standing
         /\ \A s \in Springs \ {hands[i].at} : oasis'[s] = oasis[s]
         /\ oasis'[hands[i].at].made /\ oasis'[hands[i].at].force = left
         /\ oasis'[hands[i].at].owner = IF won THEN Winner(i) ELSE oasis[hands[i].at].owner
         /\ Guarded(oasis'[hands[i].at])
         /\ oasis[hands[i].at].force.men = hands[i].force.men
         /\ parties[hands[i].row] = hands[i].of
         /\ \A m \in Parties \ {hands[i].row} : parties'[m] = parties[m]
         /\ \/ parties'[hands[i].row] = NoParty /\ back = 0
            \/ parties'[hands[i].row] \in Party /\ parties'[hands[i].row].force = Men(back)
<1> DEFINE h == hands[i]
           at == h.at
           owns == IF won THEN Winner(i) ELSE oasis[h.at].owner
<1>1. Holds(i) /\ Doing(i, "fight") /\ h # Resting /\ h.of.home \in standing
  BY DEF Fight, Holds, Doing
<1>2. at \in Springs /\ h.row \in Parties /\ h.force \in Strength /\ parties[h.row] = h.of
  BY <1>1, HandOf, HeldRow, TypesOf
<1>3. h.force = Defenders(at) /\ h.owner = oasis[at].owner
  BY <1>1 DEF FieldInv, StillRead
<1>4. oasis' = [oasis EXCEPT ![h.at] = [made |-> TRUE, owner |-> owns, force |-> left, regrow |-> RegrowsAt(h, won)]]
  BY DEF Fight
<1>5. /\ \A s \in Springs \ {at} : oasis'[s] = oasis[s]
      /\ oasis'[at].made /\ oasis'[at].force = left /\ oasis'[at].owner = owns
  <2> HIDE DEF owns
  <2> QED
    BY <1>2, <1>4, TypesOf
<1>6. Guarded(oasis[at]) /\ Owned(oasis[at])
  BY <1>2, TypesOf, ManneredBy
<1>7. oasis[at].force.men = h.force.men
  BY <1>3, <1>6 DEF Defenders, Guarded, Owned
<1>8. /\ left.men \in Nat /\ left.beasts \in Nat /\ h.force.men \in Nat /\ h.force.beasts \in Nat
      /\ left.men <= h.force.men /\ left.beasts <= h.force.beasts /\ (won => left = None)
  BY <1>2, StrengthOf DEF Fight
<1>9. Guarded(oasis'[at])
  <2>1. CASE won
    BY <1>5, <1>8, <2>1, StrengthOf DEF Guarded
  <2>2. CASE ~won /\ oasis[at].owner = Nowhere
    <3>1. h.force.men = 0
      BY <1>6, <1>7, <2>2 DEF Guarded
    <3> QED
      BY <1>5, <1>8, <2>2, <3>1 DEF Guarded
  <2>3. CASE ~won /\ oasis[at].owner # Nowhere
    <3>1. h.force.beasts = 0
      BY <1>3, <1>6, <2>3 DEF Guarded, Owned, Defenders
    <3> QED
      BY <1>5, <1>8, <2>3, <3>1 DEF Guarded
  <2> QED
    BY <2>1, <2>2, <2>3
<1>10. Men(back) \in Strength /\ Back(i, Men(back)) /\ (Men(back) = None => back = 0)
  BY StrengthOf DEF Fight
<1>11. /\ \A m \in Parties \ {h.row} : parties'[m] = parties[m]
       /\ \/ parties'[h.row] = NoParty /\ back = 0
          \/ parties'[h.row] \in Party /\ parties'[h.row].force = Men(back)
  BY <1>1, <1>10, BackRow
<1> QED
  BY <1>1, <1>2, <1>5, <1>7, <1>9, <1>11

LEMMA FightMannered ==
  ASSUME FieldInv, FieldQuiet, NEW i \in Instances, NEW won \in BOOLEAN, NEW left \in Strength, NEW back \in Nat,
         Fight(i, won, left, back)
  PROVE  Mannered'
<1> DEFINE at == hands[i].at
           row == hands[i].row
<1>1. UNCHANGED <<standing, homes, ask>>
  BY DEF Fight, places
<1>2. oasis'[at].owner # Nowhere => oasis'[at].owner \in standing
  <2>1. Owned(oasis[at])
    BY FightMoves, TypesOf, ManneredBy
  <2> QED
    BY <2>1, FightMoves DEF Winner, Owned
<1>3. \A s \in Springs : Owned(oasis[s])' /\ Guarded(oasis[s])'
  BY <1>1, <1>2, FightMoves, TypesOf, ManneredBy DEF Owned, Guarded
<1>4. Tame'
  <2>1. parties'[row] # NoParty => parties'[row].force.beasts = 0
    BY FightMoves, StrengthOf
  <2> QED
    BY <1>1, <2>1, FightMoves, TypesOf DEF Mannered, Tame
<1> QED
  BY <1>1, <1>3, <1>4, AskedWellNext, ManneredBy

LEMMA JoinMoves ==
  ASSUME FieldInv, NEW i \in Instances, Join(i)
  PROVE  /\ hands[i].at \in Springs /\ hands[i].row \in Parties /\ hands[i].of.force \in Strength
         /\ \A s \in Springs \ {hands[i].at} : oasis'[s] = oasis[s]
         /\ oasis'[hands[i].at].made = oasis[hands[i].at].made
         /\ oasis'[hands[i].at].owner = oasis[hands[i].at].owner /\ oasis[hands[i].at].owner # Nowhere
         /\ oasis'[hands[i].at].force = Both(oasis[hands[i].at].force, hands[i].of.force)
         /\ parties[hands[i].row] = hands[i].of /\ hands[i].of.force.beasts = 0
         /\ \A m \in Parties \ {hands[i].row} : parties'[m] = parties[m]
         /\ \/ parties'[hands[i].row] = NoParty
            \/ parties'[hands[i].row] \in Party /\ parties'[hands[i].row].force = None
<1> DEFINE h == hands[i]
<1>1. Holds(i) /\ Doing(i, "join") /\ h # Resting /\ h.owner = h.of.home
  BY DEF Join, Holds, Doing
<1>2. h.of.home \in standing /\ h.at \in Springs /\ oasis[h.at].owner # Nowhere
  BY <1>1, HomeOfJoin
<1>3. oasis' = [oasis EXCEPT ![h.at].force = Both(@, h.of.force)]
  BY DEF Join
<1>4. /\ \A s \in Springs \ {h.at} : oasis'[s] = oasis[s]
      /\ oasis'[h.at].made = oasis[h.at].made /\ oasis'[h.at].owner = oasis[h.at].owner
      /\ oasis'[h.at].force = Both(oasis[h.at].force, h.of.force)
  <2> HIDE DEF h
  <2> QED
    BY <1>2, <1>3, TypesOf DEF Oasis
<1>5. /\ \A m \in Parties \ {h.row} : parties'[m] = parties[m]
      /\ \/ parties'[h.row] = NoParty
         \/ parties'[h.row] \in Party /\ parties'[h.row].force = None
  BY <1>1, <1>2, BackRow, StrengthOf DEF Join
<1> QED
  BY <1>1, <1>2, <1>4, <1>5, HeldRow

LEMMA JoinMannered ==
  ASSUME FieldInv, FieldQuiet, NEW i \in Instances, Join(i)
  PROVE  Mannered'
<1> DEFINE at == hands[i].at
           row == hands[i].row
<1>1. UNCHANGED <<standing, homes, ask>>
  BY DEF Join, places
<1>2. Guarded(oasis'[at])
  <2>1. oasis[at].force.beasts = 0 /\ oasis[at].force \in Strength
    BY JoinMoves, TypesOf, ManneredBy DEF Guarded
  <2>2. Both(oasis[at].force, hands[i].of.force).beasts = 0
    BY <2>1, JoinMoves, StrengthOf
  <2>3. oasis'[at].force.beasts = 0 /\ oasis'[at].owner # Nowhere
    BY <2>2, JoinMoves
  <2> QED
    BY <2>3 DEF Guarded
<1>3. \A s \in Springs : Owned(oasis[s])' /\ Guarded(oasis[s])'
  BY <1>1, <1>2, JoinMoves, TypesOf, ManneredBy DEF Owned, Guarded
<1>4. Tame'
  BY <1>1, JoinMoves, TypesOf, StrengthOf DEF Mannered, Tame
<1> QED
  BY <1>1, <1>3, <1>4, AskedWellNext, ManneredBy

LEMMA BounceMoves ==
  ASSUME FieldInv, NEW i \in Instances, BounceHome(i)
  PROVE  /\ hands[i].row \in Parties /\ parties[hands[i].row] = hands[i].of /\ hands[i].of # NoParty
         /\ hands[i].of.force \in Strength /\ hands[i].of.force.beasts = 0
         /\ \A m \in Parties \ {hands[i].row} : parties'[m] = parties[m]
         /\ \/ parties'[hands[i].row] = NoParty /\ hands[i].of.force = None
            \/ parties'[hands[i].row] \in Party /\ parties'[hands[i].row].force = hands[i].of.force
<1>1. Holds(i) /\ hands[i].of.home \in standing
  BY DEF BounceHome, Holds, Doing
<1>2. hands[i].of.force \in Strength
  BY <1>1, HeldRow
<1> QED
  BY <1>1, <1>2, HeldRow, BackRow DEF BounceHome

LEMMA BounceHomeMannered ==
  ASSUME FieldInv, FieldQuiet, NEW i \in Instances, BounceHome(i)
  PROVE  Mannered'
<1>1. UNCHANGED <<standing, homes, oasis, ask>>
  BY DEF BounceHome, places
<1> QED
  BY <1>1, BounceMoves, NothingMoves

LEMMA RejoinMoves ==
  ASSUME FieldInv, NEW i \in Instances, NEW m \in Parties, Rejoin(i, m)
  PROVE  /\ parties[m] \in Party /\ parties[m] # NoParty /\ parties'[m] = NoParty /\ parties[m].home \in Homes
         /\ parties[m].force \in Strength /\ parties[m].force.beasts = 0
         /\ \A n \in Parties \ {m} : parties'[n] = parties[n]
         /\ \A h \in Homes \ {parties[m].home} : homes'[h] = homes[h]
         /\ homes'[parties[m].home] = Both(homes[parties[m].home], parties[m].force)
<1>1. batches[i][m] # NoParty /\ batches[i][m].home \in standing
  BY DEF Rejoin, Picks
<1>2. parties[m] = batches[i][m]
  BY <1>1 DEF FieldInv, RowsHeld, BatchesHeld
<1>3. parties[m] \in Party /\ parties[m].home \in Homes
  BY <1>1, <1>2, TypesOf, PartyFields
<1>4. parties[m].force.beasts = 0
  BY <1>1, <1>2, TypesOf DEF Mannered, Tame
<1>5. /\ parties'[m] = NoParty /\ \A n \in Parties \ {m} : parties'[n] = parties[n]
  BY <1>2, TypesOf DEF Rejoin
<1>6. homes' = [homes EXCEPT ![parties[m].home] = Both(@, parties[m].force)]
  BY <1>2 DEF Rejoin
<1> QED
  BY <1>1, <1>2, <1>3, <1>4, <1>5, <1>6, TypesOf

LEMMA RejoinMannered ==
  ASSUME FieldInv, FieldQuiet, NEW i \in Instances, NEW m \in Parties, Rejoin(i, m)
  PROVE  Mannered'
<1>1. UNCHANGED <<standing, oasis, ask>>
  BY DEF Rejoin, places
<1>2. \A s \in Springs : Owned(oasis[s])' /\ Guarded(oasis[s])'
  BY <1>1, TypesOf, ManneredBy DEF Owned, Guarded
<1>3. Tame'
  <2>1. homes'[parties[m].home].beasts = 0
    BY RejoinMoves, TypesOf, StrengthOf DEF Mannered, Tame
  <2> QED
    BY <2>1, RejoinMoves, TypesOf DEF Mannered, Tame
<1> QED
  BY <1>1, <1>2, <1>3, AskedWellNext, ManneredBy

\* A regrowth touches only what nobody holds, and adds no man to it.
LEMMA RegrowMoves ==
  ASSUME FieldInv, NEW i \in Instances, Regrow(i)
  PROVE  \A s \in Springs :
           /\ oasis'[s].made = oasis[s].made /\ oasis'[s].owner = oasis[s].owner
           /\ oasis'[s].force = oasis[s].force \/ (oasis[s].owner = Nowhere /\ oasis'[s].force.men = 0)
<1> DEFINE h == hands[i]
           again == IF Regrown(h.force).beasts = Seeded THEN Never ELSE h.was + RegrowDays
<1>1. CASE UNCHANGED oasis
  BY <1>1
<1>2. CASE oasis[h.at].owner = Nowhere
           /\ oasis' = [oasis EXCEPT ![h.at].force = Regrown(h.force), ![h.at].regrow = again]
  <2>1. Regrown(h.force).men = 0
    BY DEF Regrown
  <2> HIDE DEF h, again
  <2>2. \A s \in Springs : /\ oasis'[s].made = oasis[s].made /\ oasis'[s].owner = oasis[s].owner
                           /\ oasis'[s].force = IF s = h.at THEN Regrown(h.force) ELSE oasis[s].force
    BY <1>2, TypesOf DEF Oasis
  <2> QED
    BY <1>2, <2>1, <2>2
<1> QED
  BY <1>1, <1>2 DEF Regrow

LEMMA RegrowMannered ==
  ASSUME FieldInv, FieldQuiet, NEW i \in Instances, Regrow(i)
  PROVE  Mannered'
<1>1. UNCHANGED <<standing, homes, parties, ask>>
  BY DEF Regrow, places
<1>2. \A s \in Springs : Owned(oasis[s])' /\ Guarded(oasis[s])'
  BY <1>1, RegrowMoves, TypesOf, ManneredBy DEF Owned, Guarded
<1>3. Tame'
  BY <1>1, TypesOf DEF Mannered, Tame
<1> QED
  BY <1>1, <1>2, <1>3, AskedWellNext, ManneredBy

\* A conquest deletes; a sweep deletes, of a village that holds no oasis.
LEMMA ElsewhereMannered ==
  ASSUME FieldInv, FieldQuiet, Elsewhere
  PROVE  Mannered'
<1>1. PICK i \in Instances, h \in Homes : Conquest(i, h) \/ Sweep(i, h) \/ \E c \in Capacities : Rebuild(i, h, c)
  BY DEF Elsewhere
<1>2. ASSUME NEW c \in Capacities, Rebuild(i, h, c) PROVE Mannered'
  BY <1>2, NothingMoves DEF Rebuild
<1>3. ASSUME Conquest(i, h) \/ Sweep(i, h)
      PROVE  /\ \A g \in Homes : homes'[g] = homes[g] \/ homes'[g] = None
             /\ \A m \in Parties : parties'[m] = parties[m] \/ parties'[m] = NoParty
             /\ ask' = ask
  BY <1>3, TypesOf DEF Conquest, Sweep, places
<1>4. ASSUME Conquest(i, h) \/ Sweep(i, h) PROVE Tame'
  BY <1>3, <1>4, TypesOf, StrengthOf DEF Mannered, Tame
<1>5. CASE Conquest(i, h)
  <2>1. UNCHANGED <<standing, oasis>>
    BY <1>5 DEF Conquest, places
  <2>2. \A s \in Springs : Owned(oasis[s])' /\ Guarded(oasis[s])'
    BY <2>1, TypesOf, ManneredBy DEF Owned, Guarded
  <2> QED
    BY <1>3, <1>4, <1>5, <2>2, AskedWellNext, ManneredBy
<1>6. CASE Sweep(i, h)
  <2>1. /\ standing' = standing \ {h} /\ h \in standing
        /\ oasis' = [s \in Springs |-> IF oasis[s].owner = h THEN [oasis[s] EXCEPT !.owner = Nowhere] ELSE oasis[s]]
    BY <1>6 DEF Sweep
  <2>2. \A s \in Springs : oasis[s].owner # h
    BY <2>1 DEF FieldQuiet, SweptBare, Occupied
  <2>3. \A s \in Springs : oasis'[s] = oasis[s]
    BY <2>1, <2>2
  <2>4. \A s \in Springs : Owned(oasis[s])' /\ Guarded(oasis[s])'
    BY <2>1, <2>2, <2>3, TypesOf, ManneredBy DEF Owned, Guarded
  <2> QED
    BY <1>3, <1>4, <1>6, <2>4, AskedWellNext, ManneredBy
<1> QED
  BY <1>1, <1>2, <1>5, <1>6

LEMMA ClaimsForces ==
  ASSUME FieldInv,
         \/ \E i \in Instances, kind \in {"attack", "reinforce", "return"} : ClaimParties(i, kind)
         \/ \E i \in Instances : Start(i)
  PROVE  /\ UNCHANGED <<standing, homes, oasis, ask, lost>>
         /\ \A m \in Parties : \/ parties[m] = NoParty /\ parties'[m] = NoParty
                               \/ /\ parties[m] # NoParty /\ parties'[m] # NoParty
                                  /\ parties'[m].force = parties[m].force
<1>1. ASSUME NEW m \in Parties, parties[m] # NoParty
      PROVE  /\ Claimed(parties[m]) # NoParty /\ Claimed(parties[m]).force = parties[m].force
             /\ [parties[m] EXCEPT !.claimed = FALSE] # NoParty
             /\ [parties[m] EXCEPT !.claimed = FALSE].force = parties[m].force
  BY <1>1, TypesOf, ClaimedParty, RequeuedParty, FieldConstants
<1>2. ASSUME NEW i \in Instances, NEW kind \in {"attack", "reinforce", "return"}, ClaimParties(i, kind)
      PROVE  /\ UNCHANGED <<standing, homes, oasis, ask, lost>>
             /\ \A m \in Parties : parties'[m] = parties[m] \/ (parties[m] # NoParty /\ parties'[m] = Claimed(parties[m]))
  BY <1>2 DEF ClaimParties, places
<1>3. ASSUME NEW i \in Instances, Start(i)
      PROVE  /\ UNCHANGED <<standing, homes, oasis, ask, lost>>
             /\ \A m \in Parties : parties'[m] = IF parties[m] = NoParty THEN NoParty ELSE [parties[m] EXCEPT !.claimed = FALSE]
  BY <1>3 DEF Start, places
<1> QED
  BY <1>1, <1>2, <1>3

LEMMA ManneredNext == FieldInv /\ [FieldNext /\ FieldQuiet]_fieldVars => Mannered'
<1> SUFFICES ASSUME FieldInv, [FieldNext /\ FieldQuiet]_fieldVars PROVE Mannered'
  OBVIOUS
<1>1. CASE FieldNext /\ FieldQuiet
  <2>1. CASE Requests
    BY <1>1, <2>1, AsksMannered DEF Requests
  <2>2. CASE Answers
    <3>1. CASE Refused
      BY <1>1, <3>1, NothingMoves DEF Refused, places
    <3> QED
      BY <1>1, <2>2, <3>1, SendOutMannered, RecallMannered DEF Answers
  <2>3. ASSUME NEW i \in Instances, Works(i) PROVE Mannered'
    <3>1. CASE Fights(i)
      BY <1>1, <3>1, FightsWith, FightMannered, TypesOf
    <3>2. ASSUME NEW kind \in {"attack", "reinforce", "return"}, ClaimParties(i, kind) PROVE Mannered'
      <4>1. /\ UNCHANGED <<standing, homes, oasis, ask>>
            /\ \A m \in Parties : parties'[m] = NoParty \/ (parties[m] # NoParty /\ parties'[m].force = parties[m].force)
        BY <3>2, ClaimsForces
      <4> QED
        BY <1>1, <4>1, NothingMoves
    <3>3. ASSUME NEW m \in Parties, ReadBattle(i, m) \/ ReadStill(i, m) \/ GivenUp(i, m) PROVE Mannered'
      BY <1>1, <3>3, NothingMoves DEF ReadBattle, ReadStill, GivenUp, places
    <3>4. ASSUME NEW s \in Springs, ReadRegrow(i, s) PROVE Mannered'
      BY <1>1, <3>4, NothingMoves DEF ReadRegrow, places
    <3> QED
      BY <1>1, <2>3, <3>1, <3>2, <3>3, <3>4, JoinMannered, BounceHomeMannered, RejoinMannered, RegrowMannered DEF Works
  <2>4. ASSUME NEW i \in Instances, Stop(i) PROVE Mannered'
    <3>1. UNCHANGED <<standing, homes, oasis, parties>> /\ (ask' = ask \/ ask' = NoAsk)
      BY <2>4 DEF Stop, places
    <3> QED
      BY <1>1, <3>1, NothingMoves
  <2>5. ASSUME NEW i \in Instances, Start(i) PROVE Mannered'
    <3>1. /\ UNCHANGED <<standing, homes, oasis, ask>>
          /\ \A m \in Parties : parties'[m] = NoParty \/ (parties[m] # NoParty /\ parties'[m].force = parties[m].force)
      BY <2>5, ClaimsForces
    <3> QED
      BY <1>1, <3>1, NothingMoves
  <2>6. CASE Elsewhere
    BY <1>1, <2>6, ElsewhereMannered
  <2>7. CASE NextDay
    BY <1>1, <2>7, NothingMoves DEF NextDay, places
  <2> QED
    BY <1>1, <2>1, <2>2, <2>3, <2>4, <2>5, <2>6, <2>7 DEF FieldNext
<1>2. CASE UNCHANGED fieldVars
  <2>1. \A s \in Springs : Owned(oasis[s])' /\ Guarded(oasis[s])'
    BY <1>2, TypesOf, ManneredBy DEF fieldVars, Owned, Guarded
  <2>2. AskedWell' /\ Tame'
    BY <1>2, TypesOf, ManneredBy DEF fieldVars, AskedWell, Tame
  <2> QED
    BY <2>1, <2>2, ManneredBy
<1> QED
  BY <1>1, <1>2

-----------------------------------------------------------------------------
(* StillRead *)

\* What hand h has read, of oases O and Outposts P.
ReadOf(h, O, P) ==
  /\ h.owner = O[h.at].owner
  /\ h.step = "fight" =>
       /\ h.force = (IF O[h.at].made THEN O[h.at].force ELSE [men |-> 0, beasts |-> Seeded])
       /\ h.room <=> Cardinality({s \in Springs : O[s].owner = h.of.home}) < P[h.of.home]

LEMMA StillReadBy ==
  /\ StillRead <=> \A i \in Instances : Holds(i) => ReadOf(hands[i], oasis, outpost)
  /\ StillRead' <=> \A i \in Instances : Holds(i)' => ReadOf(hands'[i], oasis', outpost')
BY DEF StillRead, ReadOf, Holds, Doing, Defenders, Occupied

\* Nobody changes what a hand has read while it holds it.
LEMMA StillReadKept ==
  ASSUME FieldInv, FieldQuiet, NEW i \in Instances, Holds(i), hands'[i] = hands[i]
  PROVE  ReadOf(hands'[i], oasis', outpost')
<1> DEFINE h == hands[i]
<1>1. Holds(i)' /\ hands'[i].of.home = h.of.home
  BY DEF Holds, Doing
<1>2. /\ oasis'[h.at] = oasis[h.at] /\ outpost'[h.of.home] = outpost[h.of.home]
      /\ {s \in Springs : oasis'[s].owner = hands'[i].of.home} = {s \in Springs : oasis[s].owner = h.of.home}
  BY <1>1 DEF FieldQuiet, WriteAlone, Occupied
<1>3. ReadOf(h, oasis, outpost)
  BY StillReadBy DEF FieldInv
<1>4. {s \in Springs : oasis'[s].owner = h.of.home} = {s \in Springs : oasis[s].owner = h.of.home}
  BY <1>1, <1>2
<1> QED
  BY <1>2, <1>3, <1>4 DEF ReadOf

LEMMA KeptOnly ==
  ASSUME FieldInv, FieldQuiet, \A i \in Instances : Holds(i)' => Holds(i) /\ hands'[i] = hands[i]
  PROVE  StillRead'
BY StillReadKept, StillReadBy

LEMMA ReadsHands ==
  ASSUME FieldInv, FieldQuiet, NEW i \in Instances, NEW m \in Parties, ReadBattle(i, m) \/ ReadStill(i, m)
  PROVE  StillRead'
<1> DEFINE p == batches[i][m]
<1>1. p \in Party /\ FieldTyped
  BY BatchOf DEF FieldInv, ReadBattle, ReadStill, Picks
<1>2. UNCHANGED <<oasis, outpost>>
  BY DEF ReadBattle, ReadStill, places
<1>3. ASSUME NEW hand, Puts(i, m, hand), ReadOf(hand, oasis, outpost) PROVE StillRead'
  <2> SUFFICES ASSUME NEW j \in Instances, Holds(j)' PROVE ReadOf(hands'[j], oasis', outpost')
    BY StillReadBy
  <2>1. hands'[j] = IF j = i THEN hand ELSE hands[j]
    BY <1>1, <1>3, PutsHands
  <2>2. CASE j = i
    BY <1>2, <1>3, <2>1, <2>2
  <2>3. CASE j # i
    BY <2>1, <2>3, StillReadKept DEF Holds, Doing
  <2> QED
    BY <2>2, <2>3
<1>4. CASE ReadBattle(i, m)
  <2> DEFINE room == Cardinality(Occupied(p.home)) < outpost[p.home]
             hand == Fighting(p, m, room, oasis[p.to].owner, Defenders(p.to))
  <2>1. Puts(i, m, hand)
    BY <1>4 DEF ReadBattle, Fighting
  <2>2. ReadOf(hand, oasis, outpost)
    <3>1. /\ hand.step = "fight" /\ hand.of = p /\ hand.at = p.to /\ hand.room = room
          /\ hand.owner = oasis[p.to].owner /\ hand.force = Defenders(p.to)
      BY DEF Fighting
    <3> HIDE DEF hand, p
    <3> QED
      BY <3>1 DEF ReadOf, Defenders, Occupied
  <2> HIDE DEF hand
  <2> QED
    BY <1>3, <2>1, <2>2
<1>5. CASE ReadStill(i, m)
  <2> DEFINE hand == Joining(p, m, oasis[p.to].owner)
  <2>1. Puts(i, m, hand)
    BY <1>5 DEF ReadStill, Joining
  <2>2. ReadOf(hand, oasis, outpost)
    BY DEF Joining, ReadOf
  <2> HIDE DEF hand
  <2> QED
    BY <1>3, <2>1, <2>2
<1> QED
  BY <1>4, <1>5

LEMMA StillReadNext == FieldInv /\ [FieldNext /\ FieldQuiet]_fieldVars => StillRead'
<1> SUFFICES ASSUME FieldInv, [FieldNext /\ FieldQuiet]_fieldVars PROVE StillRead'
  OBVIOUS
<1>1. CASE FieldNext /\ FieldQuiet
  <2>1. CASE hands' = hands
    <3>1. \A i \in Instances : Holds(i)' => Holds(i) /\ hands'[i] = hands[i]
      BY <2>1 DEF Holds, Doing
    <3> QED
      BY <1>1, <3>1, KeptOnly
  <2>2. ASSUME NEW i \in Instances, \A j \in Instances \ {i} : hands'[j] = hands[j],
               hands'[i] = Resting \/ hands'[i].step = "regrow"
        PROVE  StillRead'
    <3>1. \A j \in Instances : Holds(j)' => Holds(j) /\ hands'[j] = hands[j]
      BY <2>2 DEF Holds, Doing
    <3> QED
      BY <1>1, <3>1, KeptOnly
  <2>3. ASSUME NEW i \in Instances, Rests(i) PROVE StillRead'
    <3>1. \A j \in Instances : hands'[j] = IF j = i THEN Resting ELSE hands[j]
      BY <2>3, RestsHands, TypesOf
    <3> QED
      BY <2>2, <3>1
  <2>4. ASSUME NEW i \in Instances, NEW m \in Parties, Puts(i, m, Resting) PROVE StillRead'
    <3>1. \A j \in Instances : hands'[j] = IF j = i THEN Resting ELSE hands[j]
      BY <2>4, PutsHands, TypesOf
    <3> QED
      BY <2>2, <3>1
  <2>5. CASE Requests \/ Answers \/ NextDay
    BY <2>1, <2>5 DEF Requests, Asks, Answers, Refused, SendOut, Recall, NextDay
  <2>6. CASE Elsewhere
    BY <2>1, <2>6 DEF Elsewhere, Conquest, Sweep, Rebuild
  <2>7. ASSUME NEW i \in Instances, Works(i) PROVE StillRead'
    <3>1. ASSUME NEW kind \in {"attack", "reinforce", "return"}, ClaimParties(i, kind) PROVE StillRead'
      BY <2>1, <3>1 DEF ClaimParties
    <3>2. ASSUME NEW m \in Parties, ReadBattle(i, m) \/ ReadStill(i, m) PROVE StillRead'
      BY <1>1, <3>2, ReadsHands
    <3>3. ASSUME NEW m \in Parties, Rejoin(i, m) \/ GivenUp(i, m) PROVE StillRead'
      BY <2>3, <2>4, <3>3 DEF Rejoin, GivenUp
    <3>4. CASE Fights(i) \/ Join(i) \/ BounceHome(i) \/ Regrow(i)
      BY <2>3, <3>4 DEF Fights, Fight, Join, BounceHome, Regrow
    <3>5. ASSUME NEW s \in Springs, ReadRegrow(i, s) PROVE StillRead'
      BY <2>2, <3>5, TypesOf DEF ReadRegrow, FieldTypeOK
    <3> QED
      BY <2>7, <3>1, <3>2, <3>3, <3>4, <3>5 DEF Works
  <2>8. ASSUME NEW i \in Instances, Stop(i) PROVE StillRead'
    BY <2>2, <2>8, TypesOf DEF Stop, FieldTypeOK
  <2>9. ASSUME NEW i \in Instances, Start(i) PROVE StillRead'
    BY <2>1, <2>9 DEF Start
  <2> QED
    BY <1>1, <2>5, <2>6, <2>7, <2>8, <2>9 DEF FieldNext
<1>2. CASE UNCHANGED fieldVars
  BY <1>2, StillReadBy DEF fieldVars, FieldInv, Holds, Doing
<1> QED
  BY <1>1, <1>2

LEMMA FieldInvNext == FieldInv /\ [FieldNext /\ FieldQuiet]_fieldVars => FieldInv'
BY NextTyped, HeldNext, ManneredNext, StillReadNext DEF FieldInv

LEMMA FieldInvAlways == FieldInit /\ [][FieldNext /\ FieldQuiet]_fieldVars => []FieldInv
BY InitInv, FieldInvNext, PTL

-----------------------------------------------------------------------------
(* The count of men *)

\* Men of a row, and the three places men can be.
Marching(p) == IF p = NoParty THEN 0 ELSE p.force.men
AtHome(H) == SumFunctionOnSet([h \in Homes |-> H[h].men], Homes)
Away(P) == SumFunctionOnSet([m \in Parties |-> Marching(P[m])], Parties)
OnGuard(O) == SumFunctionOnSet([s \in Springs |-> O[s].force.men], Springs)

Tally == AtHome(homes) + Away(parties) + OnGuard(oasis) + lost
Balanced == Tally = SumFunction(FirstMen)

LEMMA TallyNext == Tally' = AtHome(homes') + Away(parties') + OnGuard(oasis') + lost'
BY DEF Tally, AtHome, Away, OnGuard, Marching

LEMMA AtHomeIn == ASSUME NEW H, \A h \in Homes : H[h].men \in Int PROVE AtHome(H) \in Int
<1> DEFINE f == [h \in Homes |-> H[h].men]
<1>1. \A h \in Homes : f[h] \in Int
  OBVIOUS
<1>2. SumFunctionOnSet(f, Homes) \in Int
  <2> HIDE DEF f
  <2> QED
    BY <1>1, SumInt, FieldConstants
<1> QED
  BY <1>2 DEF AtHome

LEMMA AwayIn == ASSUME NEW P, \A m \in Parties : Marching(P[m]) \in Int PROVE Away(P) \in Int
<1> DEFINE f == [m \in Parties |-> Marching(P[m])]
<1>1. \A m \in Parties : f[m] \in Int
  OBVIOUS
<1>2. SumFunctionOnSet(f, Parties) \in Int
  <2> HIDE DEF f
  <2> QED
    BY <1>1, SumInt, FieldConstants
<1> QED
  BY <1>2 DEF Away

LEMMA OnGuardIn == ASSUME NEW O, \A s \in Springs : O[s].force.men \in Int PROVE OnGuard(O) \in Int
<1> DEFINE f == [s \in Springs |-> O[s].force.men]
<1>1. \A s \in Springs : f[s] \in Int
  OBVIOUS
<1>2. SumFunctionOnSet(f, Springs) \in Int
  <2> HIDE DEF f
  <2> QED
    BY <1>1, SumInt, FieldConstants
<1> QED
  BY <1>2 DEF OnGuard

\* One place changes by what it gains.
LEMMA HomeChange ==
  ASSUME NEW H, NEW G, NEW a \in Homes, \A h \in Homes : H[h].men \in Int, G[a].men \in Int,
         \A h \in Homes \ {a} : G[h].men = H[h].men
  PROVE  AtHome(G) = AtHome(H) + G[a].men - H[a].men
<1> DEFINE f == [h \in Homes |-> H[h].men]
           g == [h \in Homes |-> G[h].men]
<1>1. /\ \A h \in Homes : f[h] \in Int
      /\ g[a] \in Int /\ g[a] = G[a].men /\ f[a] = H[a].men /\ \A h \in Homes \ {a} : g[h] = f[h]
  OBVIOUS
<1>2. SumFunctionOnSet(g, Homes) = SumFunctionOnSet(f, Homes) + g[a] - f[a]
  <2> HIDE DEF f, g
  <2>1. IsFiniteSet(Homes)
    BY FieldConstants
  <2>2. \A h \in Homes : f[h] \in Int
    BY <1>1
  <2>3. g[a] \in Int /\ \A h \in Homes \ {a} : g[h] = f[h]
    BY <1>1
  <2> QED
    BY <2>1, <2>2, <2>3, SumChange
<1> QED
  BY <1>1, <1>2 DEF AtHome

LEMMA AwayChange ==
  ASSUME NEW P, NEW Q, NEW a \in Parties, \A m \in Parties : Marching(P[m]) \in Int, Marching(Q[a]) \in Int,
         \A m \in Parties \ {a} : Marching(Q[m]) = Marching(P[m])
  PROVE  Away(Q) = Away(P) + Marching(Q[a]) - Marching(P[a])
<1> DEFINE f == [m \in Parties |-> Marching(P[m])]
           g == [m \in Parties |-> Marching(Q[m])]
<1>1. /\ \A m \in Parties : f[m] \in Int
      /\ g[a] \in Int /\ g[a] = Marching(Q[a]) /\ f[a] = Marching(P[a]) /\ \A m \in Parties \ {a} : g[m] = f[m]
  OBVIOUS
<1>2. SumFunctionOnSet(g, Parties) = SumFunctionOnSet(f, Parties) + g[a] - f[a]
  <2> HIDE DEF f, g
  <2>1. IsFiniteSet(Parties)
    BY FieldConstants
  <2>2. \A m \in Parties : f[m] \in Int
    BY <1>1
  <2>3. g[a] \in Int /\ \A m \in Parties \ {a} : g[m] = f[m]
    BY <1>1
  <2> QED
    BY <2>1, <2>2, <2>3, SumChange
<1> QED
  BY <1>1, <1>2 DEF Away

LEMMA OnGuardChange ==
  ASSUME NEW O, NEW N, NEW a \in Springs, \A s \in Springs : O[s].force.men \in Int, N[a].force.men \in Int,
         \A s \in Springs \ {a} : N[s].force.men = O[s].force.men
  PROVE  OnGuard(N) = OnGuard(O) + N[a].force.men - O[a].force.men
<1> DEFINE f == [s \in Springs |-> O[s].force.men]
           g == [s \in Springs |-> N[s].force.men]
<1>1. /\ \A s \in Springs : f[s] \in Int
      /\ g[a] \in Int /\ g[a] = N[a].force.men /\ f[a] = O[a].force.men /\ \A s \in Springs \ {a} : g[s] = f[s]
  OBVIOUS
<1>2. SumFunctionOnSet(g, Springs) = SumFunctionOnSet(f, Springs) + g[a] - f[a]
  <2> HIDE DEF f, g
  <2>1. IsFiniteSet(Springs)
    BY FieldConstants
  <2>2. \A s \in Springs : f[s] \in Int
    BY <1>1
  <2>3. g[a] \in Int /\ \A s \in Springs \ {a} : g[s] = f[s]
    BY <1>1
  <2> QED
    BY <2>1, <2>2, <2>3, SumChange
<1> QED
  BY <1>1, <1>2 DEF OnGuard

\* Nothing changes where every part is as it was.
LEMMA AwaySame ==
  ASSUME NEW P, NEW Q, \A m \in Parties : Marching(Q[m]) = Marching(P[m])
  PROVE  Away(Q) = Away(P)
<1> DEFINE f == [m \in Parties |-> Marching(P[m])]
           g == [m \in Parties |-> Marching(Q[m])]
<1>1. \A m \in Parties : g[m] = f[m]
  OBVIOUS
<1>2. SumFunctionOnSet(g, Parties) = SumFunctionOnSet(f, Parties)
  <2> HIDE DEF f, g
  <2> QED
    BY <1>1, SumSame, FieldConstants
<1> QED
  BY <1>2 DEF Away

LEMMA OnGuardSame ==
  ASSUME NEW O, NEW N, \A s \in Springs : N[s].force.men = O[s].force.men
  PROVE  OnGuard(N) = OnGuard(O)
<1> DEFINE f == [s \in Springs |-> O[s].force.men]
           g == [s \in Springs |-> N[s].force.men]
<1>1. \A s \in Springs : g[s] = f[s]
  OBVIOUS
<1>2. SumFunctionOnSet(g, Springs) = SumFunctionOnSet(f, Springs)
  <2> HIDE DEF f, g
  <2> QED
    BY <1>1, SumSame, FieldConstants
<1> QED
  BY <1>2 DEF OnGuard

\* The rows that are deleted take their men with them.
LEMMA AwayGone ==
  ASSUME NEW P, NEW Q, NEW S \in SUBSET Parties, \A m \in Parties : Marching(P[m]) \in Int,
         \A m \in S : Marching(Q[m]) = 0 /\ Marching(P[m]) = P[m].force.men,
         \A m \in Parties \ S : Marching(Q[m]) = Marching(P[m])
  PROVE  Away(P) = Away(Q) + SumFunctionOnSet([m \in S |-> P[m].force.men], S)
<1> DEFINE f == [m \in Parties |-> Marching(P[m])]
           g == [m \in Parties |-> Marching(Q[m])]
           d == [m \in Parties |-> IF m \in S THEN P[m].force.men ELSE 0]
           e == [m \in S |-> P[m].force.men]
<1>1. \A m \in Parties : g[m] \in Int /\ d[m] \in Int /\ f[m] = g[m] + d[m]
  OBVIOUS
<1>2. /\ \A m \in S : e[m] \in Int
      /\ \A m \in Parties : d[m] = IF m \in S THEN e[m] ELSE 0
  OBVIOUS
<1>3. SumFunctionOnSet(f, Parties) = SumFunctionOnSet(g, Parties) + SumFunctionOnSet(d, Parties)
  <2> HIDE DEF f, g, d
  <2> QED
    BY <1>1, SumPlus, FieldConstants
<1>4. SumFunctionOnSet(e, S) = SumFunctionOnSet(d, Parties)
  <2> HIDE DEF d, e
  <2> QED
    BY <1>2, SumWithin, FieldConstants
<1> QED
  BY <1>3, <1>4 DEF Away

LEMMA InitBalanced == FieldInit => Balanced
<1> SUFFICES ASSUME FieldInit PROVE Balanced
  OBVIOUS
<1> DEFINE Held(f, h) == {x \in Springs : f[x].owner = h}
<1>1. PICK f \in FirstFields :
        /\ oasis = [s \in Springs |-> [made |-> f[s].owner # Nowhere, owner |-> f[s].owner,
                                       regrow |-> Never, force |-> Men(f[s].men)]]
        /\ homes = [h \in Homes |-> Men(FirstMen[h] - SumFunction([s \in Held(f, h) |-> f[s].men]))]
  BY DEF FieldInit
<1>2. f \in [Springs -> [owner : Homes \cup {Nowhere}, men : Nat]] /\ \A s \in Springs : f[s].owner = Nowhere => f[s].men = 0
  BY OasisAssumption
<1> DEFINE m == [s \in Springs |-> f[s].men]
           key == [s \in Springs |-> f[s].owner]
           g == [h \in Homes |-> SumFunctionOnSet(m, {x \in Springs : key[x] = h})]
           k == [h \in Homes |-> homes[h].men]
<1>3. \A s \in Springs : m[s] \in Nat /\ m[s] \in Int /\ (key[s] \in Homes \/ m[s] = 0)
  BY <1>2
<1>4. ASSUME NEW h \in Homes
      PROVE  g[h] \in Int /\ g[h] = SumFunction([s \in Held(f, h) |-> f[s].men])
  <2> DEFINE T == Held(f, h)
             e == [s \in T |-> f[s].men]
  <2>1. IsFiniteSet(T) /\ T \subseteq Springs
    BY FieldConstants, FS_Subset
  <2>2. T = {x \in Springs : key[x] = h}
    OBVIOUS
  <2>3. \A s \in T : e[s] = m[s] /\ m[s] \in Int
    BY <1>3
  <2>4. SumFunction(e) = SumFunctionOnSet(e, T)
    BY DEF SumFunction
  <2>5. g[h] = SumFunctionOnSet(m, T)
    BY <2>2
  <2> HIDE DEF T, e, m, g
  <2>6. SumFunctionOnSet(e, T) = SumFunctionOnSet(m, T) /\ SumFunctionOnSet(m, T) \in Int
    BY <2>1, <2>3, SumSame, SumInt
  <2> QED
    BY <2>4, <2>5, <2>6 DEF e, T
<1>5. \A h \in Homes : FirstMen[h] \in Int /\ k[h] = FirstMen[h] - g[h] /\ g[h] \in Int
  <2>1. \A h \in Homes : FirstMen[h] \in Int /\ k[h] = FirstMen[h] - SumFunction([s \in Held(f, h) |-> f[s].men])
    BY <1>1, FieldConstants DEF Men
  <2> HIDE DEF k, g, Held
  <2> QED
    BY <1>4, <2>1
<1>6. SumFunctionOnSet(g, Homes) = SumFunctionOnSet(m, Springs)
  <2>1. \A h \in Homes : g[h] = SumFunctionOnSet(m, Keyed(Springs, key, h))
    BY DEF Keyed
  <2>2. IsFiniteSet(Homes) /\ IsFiniteSet(Springs)
    BY FieldConstants
  <2>3. \A x \in Springs : m[x] \in Int /\ (key[x] \in Homes \/ m[x] = 0)
    BY <1>3
  <2> HIDE DEF m, key, g
  <2> QED
    BY <2>1, <2>2, <2>3, SumGrouped
<1>7. SumFunctionOnSet(FirstMen, Homes) = SumFunctionOnSet(k, Homes) + SumFunctionOnSet(g, Homes)
  <2>1. \A h \in Homes : k[h] \in Int /\ g[h] \in Int /\ FirstMen[h] = k[h] + g[h]
    <3> HIDE DEF g, k
    <3> QED
      BY <1>5
  <2> HIDE DEF g, k
  <2> QED
    BY <2>1, SumPlus, FieldConstants
<1>8. SumFunctionOnSet(k, Homes) \in Int /\ SumFunctionOnSet(m, Springs) \in Int
  <2>1. \A h \in Homes : k[h] \in Int
    <3> HIDE DEF g, k
    <3> QED
      BY <1>5
  <2> HIDE DEF k, m
  <2> QED
    BY <1>3, <2>1, SumInt, FieldConstants
<1>9. AtHome(homes) = SumFunctionOnSet(k, Homes)
  BY DEF AtHome
<1>10. OnGuard(oasis) = SumFunctionOnSet(m, Springs)
  <2> DEFINE o == [s \in Springs |-> oasis[s].force.men]
  <2>1. \A s \in Springs : o[s] = m[s]
    BY <1>1 DEF Men
  <2>2. SumFunctionOnSet(o, Springs) = SumFunctionOnSet(m, Springs)
    <3> HIDE DEF o, m
    <3> QED
      BY <2>1, SumSame, FieldConstants
  <2> QED
    BY <2>2 DEF OnGuard
<1>11. Away(parties) = 0 /\ lost = 0
  <2> DEFINE a == [x \in Parties |-> Marching(parties[x])]
  <2>1. \A x \in Parties : a[x] = 0
    BY DEF FieldInit, Marching
  <2>2. SumFunctionOnSet(a, Parties) = 0
    <3> HIDE DEF a
    <3> QED
      BY <2>1, SumNothing, FieldConstants
  <2> QED
    BY <2>2 DEF Away, FieldInit
<1>12. SumFunction(FirstMen) = SumFunctionOnSet(FirstMen, Homes)
  BY FieldConstants DEF SumFunction
<1> HIDE DEF k, m, g
<1> QED
  BY <1>6, <1>7, <1>8, <1>9, <1>10, <1>11, <1>12 DEF Balanced, Tally

LEMMA CountsIn ==
  ASSUME FieldInv
  PROVE  /\ \A h \in Homes : homes[h].men \in Int
         /\ \A m \in Parties : Marching(parties[m]) \in Int
         /\ \A s \in Springs : oasis[s].force.men \in Int
         /\ AtHome(homes) \in Int /\ Away(parties) \in Int /\ OnGuard(oasis) \in Int /\ lost \in Int
<1>1. /\ \A h \in Homes : homes[h].men \in Int
      /\ \A m \in Parties : Marching(parties[m]) \in Int
      /\ \A s \in Springs : oasis[s].force.men \in Int
  BY TypesOf, StrengthOf DEF Marching
<1> QED
  BY <1>1, TypesOf, AtHomeIn, AwayIn, OnGuardIn

LEMMA PutPlaces ==
  ASSUME Tally' = Tally, Balanced
  PROVE  Balanced'
BY DEF Balanced

LEMMA SendOutBalanced ==
  ASSUME FieldInv, NEW m \in Parties, SendOut(m)
  PROVE  Tally' = Tally
<1> DEFINE h == ask.home
           n == ask.force.men
<1>1. ask \in Party /\ h \in Homes /\ n \in Nat /\ parties[m] = NoParty /\ ask # NoParty
  BY TypesOf, PartyFields, StrengthOf, FieldConstants DEF SendOut, Spare, FieldTypeOK
<1>2. /\ homes'[h].men = homes[h].men - n /\ \A g \in Homes \ {h} : homes'[g].men = homes[g].men
      /\ parties'[m] = ask /\ \A x \in Parties \ {m} : parties'[x] = parties[x]
      /\ UNCHANGED <<oasis, lost>>
  BY <1>1, TypesOf DEF SendOut, Strength
<1>3. Marching(parties'[m]) = n /\ Marching(parties[m]) = 0
  BY <1>1, <1>2 DEF Marching
<1>4. /\ homes'[h].men \in Int /\ Marching(parties'[m]) \in Int
      /\ \A x \in Parties \ {m} : Marching(parties'[x]) = Marching(parties[x])
  BY <1>1, <1>2, <1>3, CountsIn
<1>5. AtHome(homes') = AtHome(homes) + homes'[h].men - homes[h].men
  <2> HIDE DEF h
  <2> QED
    BY <1>1, <1>2, <1>4, CountsIn, HomeChange
<1>6. Away(parties') = Away(parties) + Marching(parties'[m]) - Marching(parties[m])
  BY <1>4, CountsIn, AwayChange
<1>7. AtHome(homes') = AtHome(homes) - n /\ Away(parties') = Away(parties) + n
  <2> HIDE DEF h, n
  <2> QED
    BY <1>1, <1>2, <1>3, <1>5, <1>6, CountsIn
<1> HIDE DEF n
<1> QED
  BY <1>1, <1>2, <1>7, CountsIn, TallyNext DEF Tally

LEMMA RecallBalanced ==
  ASSUME FieldInv, NEW m \in Parties, Recall(m)
  PROVE  Tally' = Tally
<1> DEFINE s == ask.to
           n == oasis[s].force.men
<1>1. s \in Springs /\ n \in Int /\ parties[m] = NoParty /\ parties'[m] \in Party /\ parties'[m] # NoParty
  BY RecallMoves, CountsIn, FieldConstants
<1>2. Marching(parties'[m]) = n /\ Marching(parties[m]) = 0
  BY <1>1, RecallMoves DEF Marching
<1>3. oasis'[s].force.men = 0 /\ \A t \in Springs \ {s} : oasis'[t].force.men = oasis[t].force.men
  BY RecallMoves, StrengthOf
<1>4. \A x \in Parties \ {m} : Marching(parties'[x]) = Marching(parties[x])
  BY RecallMoves
<1> HIDE DEF s
<1>5. OnGuard(oasis') = OnGuard(oasis) + oasis'[s].force.men - oasis[s].force.men
  <2>1. oasis'[s].force.men \in Int /\ \A t \in Springs : oasis[t].force.men \in Int
    BY <1>3, CountsIn
  <2> QED
    BY <1>1, <1>3, <2>1, OnGuardChange
<1>6. Away(parties') = Away(parties) + Marching(parties'[m]) - Marching(parties[m])
  BY <1>1, <1>2, <1>4, CountsIn, AwayChange
<1>7. UNCHANGED <<homes, lost>>
  BY DEF Recall
<1>8. OnGuard(oasis') = OnGuard(oasis) - n /\ Away(parties') = Away(parties) + n
  BY <1>1, <1>2, <1>3, <1>5, <1>6, CountsIn
<1> HIDE DEF n
<1> QED
  BY <1>1, <1>7, <1>8, CountsIn, TallyNext DEF Tally

\* Who falls is reported; who survives is on his way, or still on the oasis.
LEMMA FightBalanced ==
  ASSUME FieldInv, NEW i \in Instances, NEW won \in BOOLEAN, NEW left \in Strength, NEW back \in Nat,
         Fight(i, won, left, back)
  PROVE  Tally' = Tally
<1> DEFINE s == hands[i].at
           r == hands[i].row
           held == hands[i].force.men
           sent1 == hands[i].of.force.men
<1>1. /\ s \in Springs /\ r \in Parties /\ oasis[s].force.men = held /\ held \in Int
      /\ Marching(parties[r]) = sent1 /\ sent1 \in Int
  <2>1. hands[i].of # NoParty /\ hands[i].of.force \in Strength
    BY FightMoves, HeldRow DEF Fight, Holds
  <2> QED
    BY <2>1, FightMoves, CountsIn, StrengthOf DEF Marching
<1>2. oasis'[s].force.men = left.men /\ left.men \in Int
  BY FightMoves, StrengthOf
<1>3. Marching(parties'[r]) = back
  BY FightMoves, StrengthOf, FieldConstants DEF Marching
<1>4. /\ \A t \in Springs \ {s} : oasis'[t].force.men = oasis[t].force.men
      /\ \A m \in Parties \ {r} : Marching(parties'[m]) = Marching(parties[m])
  BY FightMoves
<1>5. homes' = homes /\ lost' = lost + held - left.men + sent1 - back
  BY DEF Fight
<1> HIDE DEF s, r, held, sent1
<1>6. OnGuard(oasis') = OnGuard(oasis) + left.men - held
  <2>1. oasis'[s].force.men \in Int /\ \A t \in Springs : oasis[t].force.men \in Int
    BY <1>2, CountsIn
  <2>2. OnGuard(oasis') = OnGuard(oasis) + oasis'[s].force.men - oasis[s].force.men
    BY <1>1, <1>4, <2>1, OnGuardChange
  <2> QED
    BY <1>1, <1>2, <2>2
<1>7. Away(parties') = Away(parties) + back - sent1
  <2>1. Marching(parties'[r]) \in Int /\ \A m \in Parties : Marching(parties[m]) \in Int
    BY <1>3, CountsIn
  <2>2. Away(parties') = Away(parties) + Marching(parties'[r]) - Marching(parties[r])
    BY <1>1, <1>4, <2>1, AwayChange
  <2> QED
    BY <1>1, <1>3, <2>2
<1> QED
  BY <1>1, <1>2, <1>5, <1>6, <1>7, CountsIn, TallyNext DEF Tally

LEMMA JoinBalanced ==
  ASSUME FieldInv, NEW i \in Instances, Join(i)
  PROVE  Tally' = Tally
<1> DEFINE s == hands[i].at
           r == hands[i].row
           n == hands[i].of.force.men
<1>1. s \in Springs /\ r \in Parties /\ n \in Int /\ Marching(parties[r]) = n
  <2>1. hands[i].of # NoParty
    BY HeldRow, HomeOfJoin DEF Join, Holds
  <2> QED
    BY <2>1, JoinMoves, StrengthOf DEF Marching
<1>2. oasis'[s].force.men = oasis[s].force.men + n
  BY JoinMoves, TypesOf, StrengthOf
<1>3. Marching(parties'[r]) = 0
  BY JoinMoves, StrengthOf DEF Marching
<1>4. /\ \A t \in Springs \ {s} : oasis'[t].force.men = oasis[t].force.men
      /\ \A m \in Parties \ {r} : Marching(parties'[m]) = Marching(parties[m])
  BY JoinMoves
<1>5. UNCHANGED <<homes, lost>>
  BY DEF Join
<1> HIDE DEF s, r, n
<1>6. OnGuard(oasis') = OnGuard(oasis) + n
  <2>1. oasis'[s].force.men \in Int /\ \A t \in Springs : oasis[t].force.men \in Int
    BY <1>1, <1>2, CountsIn
  <2>2. OnGuard(oasis') = OnGuard(oasis) + oasis'[s].force.men - oasis[s].force.men
    BY <1>1, <1>4, <2>1, OnGuardChange
  <2> QED
    BY <1>1, <1>2, <2>1, <2>2, CountsIn
<1>7. Away(parties') = Away(parties) - n
  <2>1. Marching(parties'[r]) \in Int /\ \A m \in Parties : Marching(parties[m]) \in Int
    BY <1>3, CountsIn
  <2>2. Away(parties') = Away(parties) + Marching(parties'[r]) - Marching(parties[r])
    BY <1>1, <1>4, <2>1, AwayChange
  <2> QED
    BY <1>1, <1>3, <2>2, CountsIn
<1> QED
  BY <1>1, <1>5, <1>6, <1>7, CountsIn, TallyNext DEF Tally

LEMMA BounceHomeBalanced ==
  ASSUME FieldInv, NEW i \in Instances, BounceHome(i)
  PROVE  Tally' = Tally
<1>1. \A m \in Parties : Marching(parties'[m]) = Marching(parties[m])
  BY BounceMoves, StrengthOf, FieldConstants DEF Marching
<1>2. Away(parties') = Away(parties)
  BY <1>1, AwaySame
<1> QED
  BY <1>2, TallyNext DEF BounceHome, Tally

LEMMA RejoinBalanced ==
  ASSUME FieldInv, NEW i \in Instances, NEW m \in Parties, Rejoin(i, m)
  PROVE  Tally' = Tally
<1> DEFINE h == parties[m].home
           n == parties[m].force.men
<1>1. h \in Homes /\ n \in Int /\ Marching(parties[m]) = n /\ Marching(parties'[m]) = 0
  BY RejoinMoves, StrengthOf DEF Marching
<1>2. homes'[h].men = homes[h].men + n /\ homes[h].men \in Int
  BY RejoinMoves, TypesOf, StrengthOf, CountsIn
<1>3. /\ \A g \in Homes \ {h} : homes'[g].men = homes[g].men
      /\ \A x \in Parties \ {m} : Marching(parties'[x]) = Marching(parties[x])
  BY RejoinMoves
<1>4. UNCHANGED <<oasis, lost>>
  BY DEF Rejoin
<1> HIDE DEF h, n
<1>5. AtHome(homes') = AtHome(homes) + n
  <2>1. homes'[h].men \in Int /\ \A g \in Homes : homes[g].men \in Int
    BY <1>1, <1>2, CountsIn
  <2>2. AtHome(homes') = AtHome(homes) + homes'[h].men - homes[h].men
    BY <1>1, <1>3, <2>1, HomeChange
  <2> QED
    BY <1>1, <1>2, <2>2, CountsIn
<1>6. Away(parties') = Away(parties) - n
  <2>1. Marching(parties'[m]) \in Int /\ \A x \in Parties : Marching(parties[x]) \in Int
    BY <1>1, CountsIn
  <2>2. Away(parties') = Away(parties) + Marching(parties'[m]) - Marching(parties[m])
    BY <1>3, <2>1, AwayChange
  <2> QED
    BY <1>1, <2>2, CountsIn
<1> QED
  BY <1>1, <1>4, <1>5, <1>6, CountsIn, TallyNext DEF Tally

LEMMA RegrowBalanced ==
  ASSUME FieldInv, NEW i \in Instances, Regrow(i)
  PROVE  Tally' = Tally
<1>1. \A s \in Springs : oasis'[s].force.men = oasis[s].force.men
  BY RegrowMoves, TypesOf, ManneredBy DEF Guarded
<1>2. OnGuard(oasis') = OnGuard(oasis)
  BY <1>1, OnGuardSame
<1> QED
  BY <1>2, TallyNext DEF Regrow, Tally

\* What a conquest and a sweep take away is reported.
LEMMA TakenBalanced ==
  ASSUME FieldInv, FieldQuiet, NEW i \in Instances, NEW h \in Homes, Conquest(i, h) \/ Sweep(i, h)
  PROVE  Tally' = Tally
<1>1. PICK S \in SUBSET {m \in Parties : parties[m] # NoParty} :
        /\ homes' = [homes EXCEPT ![h] = None]
        /\ parties' = [m \in Parties |-> IF m \in S THEN NoParty ELSE parties[m]]
        /\ lost' = lost + homes[h].men + MenOf(S)
  <2>1. CASE Conquest(i, h)
    <3> DEFINE S == {m \in Parties : parties[m] # NoParty /\ parties[m].home = h /\ ~parties[m].claimed}
    <3>1. S \in SUBSET {m \in Parties : parties[m] # NoParty}
      OBVIOUS
    <3>2. /\ homes' = [homes EXCEPT ![h] = None]
          /\ parties' = [m \in Parties |-> IF m \in S THEN NoParty ELSE parties[m]]
          /\ lost' = lost + homes[h].men + MenOf(S)
      BY <2>1 DEF Conquest
    <3> HIDE DEF S
    <3> QED
      BY <3>1, <3>2
  <2>2. CASE Sweep(i, h)
    <3> DEFINE S == {m \in Parties : parties[m] # NoParty /\ parties[m].home = h}
    <3>1. S \in SUBSET {m \in Parties : parties[m] # NoParty}
      OBVIOUS
    <3>2. /\ homes' = [homes EXCEPT ![h] = None]
          /\ parties' = [m \in Parties |-> IF m \in S THEN NoParty ELSE parties[m]]
          /\ lost' = lost + homes[h].men + MenOf(S)
      BY <2>2 DEF Sweep
    <3> HIDE DEF S
    <3> QED
      BY <3>1, <3>2
  <2> QED
    BY <2>1, <2>2
<1>2. OnGuard(oasis') = OnGuard(oasis)
  <2>1. CASE Conquest(i, h)
    BY <2>1 DEF Conquest
  <2>2. CASE Sweep(i, h)
    <3>1. /\ standing' = standing \ {h} /\ h \in standing
          /\ oasis' = [s \in Springs |-> IF oasis[s].owner = h THEN [oasis[s] EXCEPT !.owner = Nowhere] ELSE oasis[s]]
      BY <2>2 DEF Sweep
    <3>2. \A s \in Springs : oasis[s].owner # h
      BY <3>1 DEF FieldQuiet, SweptBare, Occupied
    <3>3. \A s \in Springs : oasis'[s].force.men = oasis[s].force.men
      BY <3>1, <3>2
    <3> QED
      BY <3>3, OnGuardSame
  <2> QED
    BY <2>1, <2>2
<1>3. homes'[h].men = 0 /\ \A g \in Homes \ {h} : homes'[g].men = homes[g].men
  BY <1>1, TypesOf, StrengthOf
<1>4. AtHome(homes') = AtHome(homes) - homes[h].men
  <2>1. homes'[h].men \in Int /\ \A g \in Homes : homes[g].men \in Int
    BY <1>3, CountsIn
  <2>2. AtHome(homes') = AtHome(homes) + homes'[h].men - homes[h].men
    BY <1>3, <2>1, HomeChange
  <2> QED
    BY <1>3, <2>2, CountsIn
<1>5. MenOf(S) \in Nat /\ MenOf(S) = SumFunctionOnSet([m \in S |-> parties[m].force.men], S)
  BY TypesOf, MenOfIn
<1>6. Away(parties) = Away(parties') + SumFunctionOnSet([m \in S |-> parties[m].force.men], S)
  <2>1. /\ S \in SUBSET Parties /\ \A m \in S : Marching(parties'[m]) = 0 /\ Marching(parties[m]) = parties[m].force.men
        /\ \A m \in Parties \ S : Marching(parties'[m]) = Marching(parties[m])
    BY <1>1 DEF Marching
  <2>2. \A m \in Parties : Marching(parties[m]) \in Int
    BY CountsIn
  <2> QED
    BY <2>1, <2>2, AwayGone
<1>7. Away(parties') \in Int
  <2>1. \A m \in Parties : Marching(parties'[m]) \in Int
    BY <1>1, CountsIn DEF Marching
  <2> QED
    BY <2>1, AwayIn
<1> QED
  BY <1>1, <1>2, <1>4, <1>5, <1>6, <1>7, CountsIn, TallyNext DEF Tally

LEMMA BalancedNext == FieldInv /\ Balanced /\ [FieldNext /\ FieldQuiet]_fieldVars => Balanced'
<1> SUFFICES ASSUME FieldInv, Balanced, [FieldNext /\ FieldQuiet]_fieldVars PROVE Tally' = Tally
  BY PutPlaces
<1>1. CASE UNCHANGED <<homes, parties, oasis, lost>>
  BY <1>1, TallyNext DEF Tally
<1>2. ASSUME FieldQuiet, Requests \/ Answers PROVE Tally' = Tally
  BY <1>1, <1>2, SendOutBalanced, RecallBalanced DEF Requests, Asks, Answers, Refused
<1>3. ASSUME FieldQuiet, NEW i \in Instances, Works(i) PROVE Tally' = Tally
  <2>1. CASE Fights(i)
    BY <2>1, FightsWith, FightBalanced, TypesOf
  <2>2. ASSUME NEW kind \in {"attack", "reinforce", "return"}, ClaimParties(i, kind) PROVE Tally' = Tally
    <3>1. UNCHANGED <<homes, oasis, lost>> /\ \A m \in Parties : Marching(parties'[m]) = Marching(parties[m])
      BY <2>2, ClaimsForces DEF Marching
    <3> QED
      BY <3>1, AwaySame, TallyNext DEF Tally
  <2>3. ASSUME NEW m \in Parties, ReadBattle(i, m) \/ ReadStill(i, m) \/ GivenUp(i, m) PROVE Tally' = Tally
    BY <1>1, <2>3 DEF ReadBattle, ReadStill, GivenUp
  <2>4. ASSUME NEW s \in Springs, ReadRegrow(i, s) PROVE Tally' = Tally
    BY <1>1, <2>4 DEF ReadRegrow
  <2> QED
    BY <1>3, <2>1, <2>2, <2>3, <2>4, JoinBalanced, BounceHomeBalanced, RejoinBalanced, RegrowBalanced DEF Works
<1>4. ASSUME FieldQuiet, NEW i \in Instances, Stop(i) PROVE Tally' = Tally
  BY <1>1, <1>4 DEF Stop
<1>5. ASSUME FieldQuiet, NEW i \in Instances, Start(i) PROVE Tally' = Tally
  <2>1. UNCHANGED <<homes, oasis, lost>> /\ \A m \in Parties : Marching(parties'[m]) = Marching(parties[m])
    BY <1>5, ClaimsForces DEF Marching
  <2> QED
    BY <2>1, AwaySame, TallyNext DEF Tally
<1>6. ASSUME FieldQuiet, Elsewhere PROVE Tally' = Tally
  BY <1>1, <1>6, TakenBalanced DEF Elsewhere, Rebuild
<1>7. ASSUME NextDay \/ UNCHANGED fieldVars PROVE Tally' = Tally
  BY <1>1, <1>7 DEF NextDay, fieldVars
<1> QED
  BY <1>2, <1>3, <1>4, <1>5, <1>6, <1>7 DEF FieldNext

LEMMA AwayIsMenOf ==
  ASSUME FieldTypeOK
  PROVE  Away(parties) = MenOf({m \in Parties : parties[m] # NoParty})
<1> DEFINE S == {m \in Parties : parties[m] # NoParty}
           f == [m \in S |-> parties[m].force.men]
           g == [m \in Parties |-> Marching(parties[m])]
<1>1. S \in SUBSET {m \in Parties : parties[m] # NoParty}
  OBVIOUS
<1>2. MenOf(S) = SumFunctionOnSet(f, S) /\ \A m \in S : parties[m].force.men \in Nat
  BY <1>1, MenOfIn
<1>3. S \in SUBSET Parties
  OBVIOUS
<1>4. \A m \in S : f[m] \in Int
  BY <1>2
<1>5. \A m \in Parties : g[m] = IF m \in S THEN f[m] ELSE 0
  BY DEF Marching
<1>6. IsFiniteSet(Parties)
  BY FieldConstants
<1>7. SumFunctionOnSet(f, S) = SumFunctionOnSet(g, Parties)
  <2> HIDE DEF S, f, g
  <2> QED
    BY <1>3, <1>4, <1>5, <1>6, SumWithin
<1> QED
  BY <1>2, <1>7 DEF Away

LEMMA BalancedAccounts == ASSUME FieldInv, Balanced PROVE FieldAccounted
<1>1. Away(parties) = MenOf({m \in Parties : parties[m] # NoParty})
  BY TypesOf, AwayIsMenOf
<1>2. SumFunction([h \in Homes |-> homes[h].men]) = AtHome(homes)
  BY DEF SumFunction, AtHome
<1>3. SumFunction([s \in Springs |-> oasis[s].force.men]) = OnGuard(oasis)
  BY DEF SumFunction, OnGuard
<1>4. MenAccounted
  BY <1>1, <1>2, <1>3 DEF Balanced, Tally, MenAccounted
<1> QED
  BY <1>4, TypesOf DEF Mannered, FieldAccounted

\* In a quiet history every man of the villages that fight for the oases is at home, under way, on
\* an oasis or among the losses that were reported; an oasis that is held is defended by men alone,
\* one that is not by animals alone, and no animal leaves its oasis: across battles, recalls,
\* reinforcements, regrowth, conquests, sweeps, stops and starts.
THEOREM MenStayAccounted == FieldQuietSpec => []FieldAccounted
<1>1. FieldInit /\ [][FieldNext /\ FieldQuiet]_fieldVars => []Balanced
  BY InitBalanced, BalancedNext, FieldInvAlways, PTL
<1>2. FieldInv /\ Balanced => FieldAccounted
  BY BalancedAccounts
<1> QED
  BY <1>1, <1>2, FieldInvAlways, PTL DEF FieldQuietSpec

-----------------------------------------------------------------------------
(* The Outpost *)

Taken == \A s \in Springs : LET h == oasis'[s].owner IN
  h # oasis[s].owner /\ h # Nowhere => Cardinality(Occupied(h)) < outpost[h]

\* Only a victor takes an oasis, and only with room his Outpost had when he takes it.
LEMMA FightWithin ==
  ASSUME FieldInv, NEW i \in Instances, NEW won \in BOOLEAN, NEW left \in Strength, NEW back \in Nat,
         Fight(i, won, left, back),
         NEW s \in Springs, oasis'[s].owner # oasis[s].owner, oasis'[s].owner # Nowhere
  PROVE  Cardinality({x \in Springs : oasis[x].owner = oasis'[s].owner}) < outpost[oasis'[s].owner]
<1>1. s = hands[i].at /\ won /\ oasis'[s].owner = Winner(i)
  BY FightMoves
<1>2. hands[i].room /\ oasis'[s].owner = hands[i].of.home
  BY <1>1 DEF Winner
<1>3. Doing(i, "fight")
  BY DEF Fight
<1>4. ReadOf(hands[i], oasis, outpost) /\ hands[i].step = "fight"
  BY <1>3, StillReadBy DEF FieldInv, Holds, Doing
<1> QED
  BY <1>2, <1>4 DEF ReadOf

LEMMA TakenNext == FieldInv /\ [FieldNext /\ FieldQuiet]_fieldVars => Taken
<1> SUFFICES ASSUME FieldInv, [FieldNext /\ FieldQuiet]_fieldVars,
                    NEW s \in Springs, oasis'[s].owner # oasis[s].owner, oasis'[s].owner # Nowhere
             PROVE  Cardinality({x \in Springs : oasis[x].owner = oasis'[s].owner}) < outpost[oasis'[s].owner]
  BY DEF Taken, Occupied
<1> DEFINE Goal == Cardinality({x \in Springs : oasis[x].owner = oasis'[s].owner}) < outpost[oasis'[s].owner]
<1> HIDE DEF Goal
<1>1. oasis' # oasis
  OBVIOUS
<1>2. ASSUME Requests \/ Answers PROVE Goal
  <2>1. PICK m \in Parties : Recall(m)
    BY <1>1, <1>2 DEF Requests, Asks, Answers, Refused, SendOut
  <2> QED
    BY <2>1, RecallMoves
<1>3. ASSUME NEW i \in Instances, Works(i) PROVE Goal
  <2>1. CASE Fights(i)
    BY <2>1, FightsWith, FightWithin, TypesOf DEF Goal
  <2>2. CASE Join(i)
    BY <2>2, JoinMoves
  <2>3. CASE Regrow(i)
    BY <2>3, RegrowMoves
  <2> QED
    BY <1>1, <1>3, <2>1, <2>2, <2>3
    DEF Works, ClaimParties, ReadBattle, ReadStill, Rejoin, GivenUp, BounceHome, ReadRegrow
<1>4. ASSUME NEW i \in Instances, Stop(i) \/ Start(i) PROVE Goal
  BY <1>1, <1>4 DEF Stop, Start
<1>5. ASSUME Elsewhere PROVE Goal
  <2>1. PICK i \in Instances, h \in Homes : Sweep(i, h)
    BY <1>1, <1>5 DEF Elsewhere, Conquest, Rebuild
  <2>2. oasis'[s].owner = Nowhere \/ oasis'[s].owner = oasis[s].owner
    BY <2>1, TypesOf DEF Sweep, Oasis
  <2> QED
    BY <2>2
<1>6. ASSUME NextDay \/ UNCHANGED fieldVars PROVE Goal
  BY <1>1, <1>6 DEF NextDay, fieldVars
<1> QED
  BY <1>2, <1>3, <1>4, <1>5, <1>6 DEF FieldNext, Goal

\* In a quiet history no village takes an oasis beyond what its Outpost allows, however many battles
\* its parties win at once.
THEOREM OutpostRespected == FieldQuietSpec => WithinOutpost
<1>1. FieldInv /\ [FieldNext /\ FieldQuiet]_fieldVars => [Taken]_fieldVars
  BY TakenNext
<1>2. [][Taken]_fieldVars => WithinOutpost
  BY DEF Taken, WithinOutpost
<1> QED
  BY <1>1, <1>2, FieldInvAlways, PTL DEF FieldQuietSpec

-----------------------------------------------------------------------------
(* Upkeep: the numbers *)

LEMMA UpkeepConstants ==
  /\ IsFiniteSet(Units) /\ Trained \in Units
  /\ \A u \in Units : Eats[u] \in Nat /\ Eats[u] > 0 /\ Rank[u] \in Nat
  /\ BatchSize \in Nat /\ BatchSize > 0 /\ PerUnit \in Nat /\ PerUnit > 0
  /\ Cost \in Nat /\ Load \in Nat /\ Capacity \in Nat
  /\ Bases \subseteq Int /\ FirstBase \in Bases /\ FirstCrop \in 0 .. Capacity
  /\ FirstGarrison \in Army
  /\ MaxTroops \in Nat /\ MaxClock \in Nat /\ MaxOrders \in Nat /\ MaxEvents \in Nat /\ MaxCrashes \in Nat
BY UpkeepAssumption DEF Army

\* What each kind of unit eats together.
Meal(g) == [u \in Units |-> Eats[u] * g[u]]

LEMMA MealNat ==
  ASSUME NEW g \in Army, NEW u \in Units
  PROVE  g[u] \in Nat /\ Meal(g)[u] = Eats[u] * g[u] /\ Meal(g)[u] \in Nat
<1>1. g[u] \in Nat /\ Eats[u] \in Nat
  BY UpkeepConstants DEF Army
<1>2. Eats[u] * g[u] \in Nat
  BY <1>1
<1> QED
  BY <1>1, <1>2 DEF Meal

LEMMA UpkeepIsSum == ASSUME NEW g PROVE UpkeepOf(g) = SumFunctionOnSet(Meal(g), Units)
BY DEF UpkeepOf, SumFunction, Meal

LEMMA UpkeepNat == ASSUME NEW g \in Army PROVE UpkeepOf(g) \in Nat
BY MealNat, UpkeepIsSum, SumNat, UpkeepConstants

LEMMA CeilBounds ==
  ASSUME NEW a \in Nat, NEW b \in Nat \ {0}
  PROVE  /\ Ceil(a, b) \in Nat /\ b * Ceil(a, b) >= a /\ b * Ceil(a, b) < a + b
         /\ a > 0 => Ceil(a, b) > 0
         /\ a = 0 => Ceil(a, b) = 0
<1> DEFINE q == (a + b - 1) \div b
<1>1. a + b - 1 \in Nat
  OBVIOUS
<1>2. q \in Nat /\ b * q <= a + b - 1 /\ a + b - 1 < b * q + b
  BY <1>1, DivBounds
<1>3. Ceil(a, b) = q
  BY DEF Ceil
<1> HIDE DEF q
<1>4. b * q \in Int /\ b * 0 = 0
  BY <1>2
<1>5. b * q >= a /\ b * q < a + b
  BY <1>2, <1>4
<1>6. a > 0 => q > 0
  BY <1>2, <1>4, <1>5
<1>7. ASSUME a = 0, q >= 1 PROVE FALSE
  <2>1. b * 1 <= b * q
    BY <1>2, <1>7, MultMono
  <2> QED
    BY <2>1, <1>4, <1>5, <1>7
<1> QED
  BY <1>2, <1>3, <1>5, <1>6, <1>7

\* The same, less whole divisors.
LEMMA CeilLess ==
  ASSUME NEW c \in Nat, NEW k \in Nat \ {0}, NEW d \in Nat, c - k * d \in Nat
  PROVE  Ceil(c - k * d, k) = Ceil(c, k) - d
<1> DEFINE q == Ceil(c, k)
           r == Ceil(c - k * d, k)
<1>1. q \in Nat /\ k * q >= c /\ k * q < c + k
  BY CeilBounds
<1>2. r \in Nat /\ k * r >= c - k * d /\ k * r < c - k * d + k
  BY CeilBounds
<1> HIDE DEF q, r
<1>3. k * q \in Int /\ k * r \in Int /\ k * d \in Int /\ k * (r + d) = k * r + k * d
  BY <1>1, <1>2
<1>4. k * (r + d + 1) = k * r + k * d + k /\ k * (q + 1) = k * q + k
  BY <1>1, <1>2
<1>5. ~(q + 1 <= r + d)
  <2>1. q + 1 <= r + d => k * (q + 1) <= k * (r + d)
    BY <1>1, <1>2, MultMono
  <2> QED
    BY <2>1, <1>1, <1>2, <1>3, <1>4
<1>6. ~(r + d + 1 <= q)
  <2>1. r + d + 1 <= q => k * (r + d + 1) <= k * q
    BY <1>1, <1>2, MultMono
  <2> QED
    BY <2>1, <1>1, <1>2, <1>3, <1>4
<1>7. r = q - d
  BY <1>1, <1>2, <1>5, <1>6
<1> QED
  BY <1>7 DEF q, r

LEMMA SettledIn ==
  ASSUME NEW s \in Store, NEW net \in Int, NEW t \in Int
  PROVE  /\ Settled(s, net, t) \in 0 .. Capacity
         /\ s.crop \in 0 .. Capacity /\ s.at \in Time /\ s.at \in Nat
<1>1. s.crop \in 0 .. Capacity /\ s.at \in Time /\ s.at \in Nat
  BY DEF Store, Time
<1>2. net * Most(0, t - s.at) \in Int
  BY <1>1 DEF Most
<1> QED
  BY <1>1, <1>2, UpkeepConstants DEF Settled, Most, Least

LEMMA SettleToIn ==
  ASSUME NEW s \in Store, NEW net \in Int, NEW t \in Time
  PROVE  /\ SettleTo(s, net, t) \in Store
         /\ SettleTo(s, net, t).at >= s.at /\ SettleTo(s, net, t).at >= t
         /\ SettleTo(s, net, t).crop = Settled(s, net, t)
<1>1. Settled(s, net, t) \in 0 .. Capacity /\ s.at \in Time /\ s.at \in Nat /\ t \in Int
  BY SettledIn, UpkeepConstants DEF Time
<1>2. Most(s.at, t) \in Time /\ Most(s.at, t) >= s.at /\ Most(s.at, t) >= t
  BY <1>1, UpkeepConstants DEF Most, Time
<1> QED
  BY <1>1, <1>2 DEF SettleTo, Store

LEMMA DepletionNat == ASSUME NEW crop \in Nat, NEW net \in Int, net < 0 PROVE Depletion(crop, net) \in Nat
<1>1. -net \in Nat \ {0}
  OBVIOUS
<1> QED
  BY <1>1, CeilBounds DEF Depletion

\* The store after another piece, and the series of them.
PieceOf(b, bs, g, r, i) == SettleTo(r, bs - UpkeepOf(g) - Eats[Trained] * (i - 1), b.start + PerUnit * (b.done + i))
Series(f, b, s, bs, g, n) == f = [i \in 0 .. n |-> IF i = 0 THEN s ELSE PieceOf(b, bs, g, f[i - 1], i)]

LEMMA PiecesIter ==
  ASSUME NEW b, NEW s, NEW bs, NEW g, NEW n
  PROVE  Pieces(b, s, bs, g, n) = (CHOOSE f : Series(f, b, s, bs, g, n))[n]
BY DEF Pieces, Series, PieceOf

LEMMA SeriesExists ==
  ASSUME NEW b, NEW s, NEW bs, NEW g, NEW n \in Nat
  PROVE  \E f : Series(f, b, s, bs, g, n)
<1> DEFINE G == {m \in 0 .. n : \E f : Series(f, b, s, bs, g, m)}
<1>1. 0 \in G
  <2>1. Series([i \in 0 .. 0 |-> s], b, s, bs, g, 0)
    BY DEF Series
  <2> QED
    BY <2>1
<1>2. ASSUME NEW m \in 1 .. n, m - 1 \in G PROVE m \in G
  <2>1. PICK f : Series(f, b, s, bs, g, m - 1)
    BY <1>2
  <2> DEFINE h == [i \in 0 .. m |-> IF i = m THEN PieceOf(b, bs, g, f[m - 1], m) ELSE f[i]]
  <2>2. ASSUME NEW i \in 0 .. m PROVE h[i] = IF i = 0 THEN s ELSE PieceOf(b, bs, g, h[i - 1], i)
    <3>1. CASE i = 0
      BY <2>1, <3>1 DEF Series
    <3>2. CASE i # 0 /\ i # m
      <4>1. i \in 0 .. m - 1 /\ i - 1 \in 0 .. m /\ i - 1 # m
        BY <3>2
      <4>2. h[i] = f[i] /\ h[i - 1] = f[i - 1]
        BY <3>2, <4>1
      <4>3. f[i] = PieceOf(b, bs, g, f[i - 1], i)
        BY <2>1, <3>2, <4>1 DEF Series
      <4> QED
        BY <3>2, <4>2, <4>3
    <3>3. CASE i = m
      <4>1. i # 0 /\ m - 1 \in 0 .. m /\ m - 1 # m
        BY <3>3
      <4> QED
        BY <3>3, <4>1
    <3> QED
      BY <3>1, <3>2, <3>3
  <2>3. Series(h, b, s, bs, g, m)
    <3>1. h = [i \in 0 .. m |-> h[i]]
      OBVIOUS
    <3> HIDE DEF h
    <3> QED
      BY <2>2, <3>1 DEF Series
  <2> QED
    BY <2>3
<1>3. \A m \in 0 .. n : m \in G
  <2> HIDE DEF G
  <2> QED
    BY <1>1, <1>2, RangeInduction
<1> QED
  BY <1>3

\* A batch that is delivered up to an instant that has passed leaves a store settled to it.
LEMMA PiecesIn ==
  ASSUME NEW b \in Batch, NEW s \in Store, NEW bs \in Bases, NEW g \in Army, NEW n \in Nat,
         b.start + PerUnit * (b.done + n) \in Time
  PROVE  Pieces(b, s, bs, g, n) \in Store
<1> DEFINE f == CHOOSE h : Series(h, b, s, bs, g, n)
           G == {i \in 0 .. n : f[i] \in Store}
<1>1. Series(f, b, s, bs, g, n)
  BY SeriesExists
<1> HIDE DEF f
<1>2. 0 \in G
  BY <1>1 DEF Series
<1>3. ASSUME NEW i \in 1 .. n, i - 1 \in G PROVE i \in G
  <2>1. f[i] = PieceOf(b, bs, g, f[i - 1], i)
    BY <1>1 DEF Series
  <2>2. bs - UpkeepOf(g) - Eats[Trained] * (i - 1) \in Int
    <3>1. bs \in Int /\ UpkeepOf(g) \in Int /\ Eats[Trained] \in Int /\ i - 1 \in Int
      BY UpkeepConstants, UpkeepNat
    <3>2. Eats[Trained] * (i - 1) \in Int
      BY <3>1
    <3> QED
      BY <3>1, <3>2
  <2>3. b.start + PerUnit * (b.done + i) \in Time
    <3>1. b.start \in Nat /\ b.done \in Nat /\ PerUnit \in Nat
      BY UpkeepConstants DEF Batch, Time
    <3>2. PerUnit * (b.done + i) <= PerUnit * (b.done + n) /\ 0 <= PerUnit * (b.done + i)
      <4>1. PerUnit * 0 <= PerUnit * (b.done + i) /\ PerUnit * 0 = 0
        BY <3>1, MultMono
      <4> QED
        BY <3>1, <4>1, MultMono
    <3>3. PerUnit * (b.done + i) \in Int /\ PerUnit * (b.done + n) \in Int
      BY <3>1
    <3> QED
      BY <3>1, <3>2, <3>3, UpkeepConstants DEF Time
  <2>4. f[i - 1] \in Store
    BY <1>3
  <2> QED
    BY <2>1, <2>2, <2>3, <2>4, SettleToIn DEF PieceOf
<1>4. \A i \in 0 .. n : i \in G
  <2> HIDE DEF G
  <2> QED
    BY <1>2, <1>3, RangeInduction
<1>5. f[n] \in Store
  BY <1>4
<1> QED
  BY <1>5, PiecesIter DEF f

\* What comes before a kind of unit in a cull.
Ahead(u) == {x \in Units : Before(x, u)}
AheadEats(g, u) == SumFunctionOnSet(Meal(g), Ahead(u))
\* What is still to be saved when its turn comes.
Rest(g, b, u) == UpkeepOf(g) - b - AheadEats(g, u)

LEMMA RestInt ==
  ASSUME NEW g \in Army, NEW b \in Int, NEW u \in Units
  PROVE  AheadEats(g, u) \in Nat /\ Rest(g, b, u) \in Int /\ IsFiniteSet(Ahead(u)) /\ Ahead(u) \subseteq Units
<1>1. Ahead(u) \subseteq Units
  BY DEF Ahead
<1>2. IsFiniteSet(Ahead(u))
  BY <1>1, UpkeepConstants, FS_Subset
<1>3. \A x \in Ahead(u) : Meal(g)[x] \in Nat
  BY <1>1, MealNat
<1>4. AheadEats(g, u) \in Nat
  BY <1>2, <1>3, SumNat DEF AheadEats
<1> QED
  BY <1>1, <1>2, <1>4, UpkeepNat DEF Rest

LEMMA StarvedIs ==
  ASSUME NEW g \in Army, NEW b \in Int, NEW u \in Units
  PROVE  Starved(g, b)[u] = IF Rest(g, b, u) <= 0 THEN g[u] ELSE g[u] - Least(g[u], Ceil(Rest(g, b, u), Eats[u]))
<1> DEFINE A == {x \in Units : Before(x, u)}
           f == [w \in A |-> Eats[w] * g[w]]
<1>1. SumFunction(f) = SumFunctionOnSet(f, A)
  BY DEF SumFunction
<1>2. IsFiniteSet(A) /\ A \subseteq Units
  BY RestInt DEF Ahead
<1>3. \A w \in A : f[w] = Meal(g)[w]
  BY <1>2 DEF Meal
<1>4. SumFunctionOnSet(f, A) = SumFunctionOnSet(Meal(g), A)
  <2> HIDE DEF A, f
  <2> QED
    BY <1>2, <1>3, SumSame
<1>5. SumFunction(f) = AheadEats(g, u)
  BY <1>1, <1>4 DEF AheadEats, Ahead
<1> QED
  BY <1>5 DEF Starved, Rest

LEMMA StarvedIn ==
  ASSUME NEW g \in Army, NEW b \in Int
  PROVE  /\ Starved(g, b) \in Army
         /\ \A u \in Units : Starved(g, b)[u] <= g[u] /\ Starved(g, b)[u] \in Nat
<1>1. ASSUME NEW u \in Units PROVE Starved(g, b)[u] \in Nat /\ Starved(g, b)[u] <= g[u]
  <2>1. g[u] \in Nat /\ Eats[u] \in Nat \ {0} /\ Rest(g, b, u) \in Int
    BY MealNat, RestInt, UpkeepConstants
  <2>2. CASE Rest(g, b, u) <= 0
    BY <2>1, <2>2, StarvedIs
  <2>3. CASE Rest(g, b, u) > 0
    <3>1. Rest(g, b, u) \in Nat
      BY <2>1, <2>3
    <3>2. Ceil(Rest(g, b, u), Eats[u]) \in Nat
      BY <2>1, <3>1, CeilBounds
    <3> QED
      BY <2>1, <2>3, <3>2, StarvedIs DEF Least
  <2> QED
    BY <2>1, <2>2, <2>3
<1>2. Starved(g, b) = [u \in Units |-> Starved(g, b)[u]]
  BY DEF Starved
<1> QED
  BY <1>1, <1>2 DEF Army

\* The order of a cull: the hungriest first, then the roster.
LEMMA BeforeOrders ==
  ASSUME NEW u \in Units, NEW w \in Units
  PROVE  /\ ~Before(u, u) /\ ~(Before(u, w) /\ Before(w, u))
         /\ u # w => Before(u, w) \/ Before(w, u)
         /\ Before(u, w) => Eats[u] >= Eats[w]
         /\ \A x \in Units : Before(u, w) /\ Before(w, x) => Before(u, x)
<1>1. \A x \in Units : Eats[x] \in Int /\ Rank[x] \in Int
  BY UpkeepConstants
<1>2. u # w => Rank[u] # Rank[w]
  BY UpkeepAssumption
<1> QED
  BY <1>1, <1>2 DEF Before

LEMMA LastOf ==
  ASSUME NEW C \in SUBSET Units, C # {}
  PROVE  \E u \in C : \A w \in C \ {u} : Before(w, u)
<1> DEFINE Up(u) == {w \in C : w = u \/ Before(u, w)}
           B == {Up(u) : u \in C}
<1>1. B \subseteq SUBSET Units /\ B # {}
  OBVIOUS
<1>2. PICK T \in B : \A U \in B : U \subseteq T => U = T
  <2> HIDE DEF B
  <2> QED
    BY <1>1, SmallestSet, UpkeepConstants
<1>3. PICK u \in C : T = Up(u)
  BY <1>2
<1>4. ASSUME NEW w \in C \ {u}, ~Before(w, u) PROVE FALSE
  <2>1. Before(u, w)
    BY <1>4, BeforeOrders
  <2>2. Up(w) \subseteq Up(u)
    BY <2>1, BeforeOrders
  <2>3. u \in Up(u) /\ u \notin Up(w)
    BY <1>4
  <2>4. Up(w) \in B
    OBVIOUS
  <2> QED
    BY <1>2, <1>3, <2>2, <2>3, <2>4
<1> QED
  BY <1>4

LEMMA FirstOf ==
  ASSUME NEW C \in SUBSET Units, C # {}
  PROVE  \E u \in C : \A w \in C \ {u} : Before(u, w)
<1> DEFINE Down(u) == {w \in C : w = u \/ Before(w, u)}
           B == {Down(u) : u \in C}
<1>1. B \subseteq SUBSET Units /\ B # {}
  OBVIOUS
<1>2. PICK T \in B : \A U \in B : U \subseteq T => U = T
  <2> HIDE DEF B
  <2> QED
    BY <1>1, SmallestSet, UpkeepConstants
<1>3. PICK u \in C : T = Down(u)
  BY <1>2
<1>4. ASSUME NEW w \in C \ {u}, ~Before(u, w) PROVE FALSE
  <2>1. Before(w, u)
    BY <1>4, BeforeOrders
  <2>2. Down(w) \subseteq Down(u)
    BY <2>1, BeforeOrders
  <2>3. u \in Down(u) /\ u \notin Down(w)
    BY <1>4
  <2>4. Down(w) \in B
    OBVIOUS
  <2> QED
    BY <1>2, <1>3, <2>2, <2>3, <2>4
<1> QED
  BY <1>4

\* An army without what comes before a kind, and with some of that kind less.
LEMMA UpkeepLess ==
  ASSUME NEW g \in Army, NEW h \in Army, NEW u \in Units, NEW d \in Int, h[u] = g[u] - d,
         \A w \in Ahead(u) : h[w] = 0,
         \A w \in Units \ (Ahead(u) \cup {u}) : h[w] = g[w]
  PROVE  UpkeepOf(h) = UpkeepOf(g) - AheadEats(g, u) - Eats[u] * d
<1> DEFINE G == Meal(g)
           H == Meal(h)
           A == Ahead(u)
           K == [w \in Units |-> IF w \in A THEN G[w] ELSE 0]
           L == [w \in Units |-> H[w] + K[w]]
<1>1. \A w \in Units : G[w] \in Nat /\ H[w] \in Nat /\ K[w] \in Nat /\ L[w] \in Nat /\ L[w] = H[w] + K[w]
  BY MealNat
<1>2. IsFiniteSet(Units) /\ A \in SUBSET Units /\ u \notin A
  BY UpkeepConstants, BeforeOrders DEF Ahead
<1>3. SumFunctionOnSet(G, A) = SumFunctionOnSet(K, Units)
  <2>1. \A w \in A : G[w] \in Int
    BY <1>1, <1>2
  <2>2. \A w \in Units : K[w] = IF w \in A THEN G[w] ELSE 0
    OBVIOUS
  <2> HIDE DEF G, A, K
  <2> QED
    BY <1>2, <2>1, <2>2, SumWithin
<1>4. L[u] = G[u] - Eats[u] * d /\ L[u] \in Int
  <2>1. g[u] \in Int /\ h[u] \in Int /\ Eats[u] \in Int
    BY MealNat, UpkeepConstants
  <2>2. Eats[u] * h[u] = Eats[u] * g[u] - Eats[u] * d /\ Eats[u] * d \in Int
    BY <2>1
  <2>3. H[u] = Eats[u] * h[u] /\ G[u] = Eats[u] * g[u] /\ K[u] = 0
    BY <1>2 DEF Meal
  <2> QED
    BY <1>1, <2>2, <2>3
<1>5. ASSUME NEW w \in Units \ {u} PROVE L[w] = G[w]
  <2>1. CASE w \in A
    <3>1. h[w] = 0 /\ H[w] = Eats[w] * h[w] /\ Eats[w] \in Int
      BY <2>1, UpkeepConstants DEF Meal
    <3> QED
      BY <1>1, <2>1, <3>1
  <2>2. CASE w \notin A
    <3>1. H[w] = G[w] /\ K[w] = 0
      BY <2>2 DEF Meal
    <3> QED
      BY <1>1, <3>1
  <2> QED
    BY <2>1, <2>2
<1> HIDE DEF G, H, K, L
<1>6. SumFunctionOnSet(L, Units) = SumFunctionOnSet(H, Units) + SumFunctionOnSet(K, Units)
  BY <1>1, <1>2, SumPlus
<1>7. SumFunctionOnSet(L, Units) = SumFunctionOnSet(G, Units) + L[u] - G[u]
  <2>1. \A w \in Units : G[w] \in Int
    BY <1>1
  <2>2. \A w \in Units \ {u} : L[w] = G[w]
    BY <1>5
  <2>3. L[u] \in Int /\ IsFiniteSet(Units)
    BY <1>2, <1>4
  <2> QED
    BY <2>1, <2>2, <2>3, SumChange
<1>8. /\ UpkeepOf(g) = SumFunctionOnSet(G, Units) /\ UpkeepOf(h) = SumFunctionOnSet(H, Units)
      /\ AheadEats(g, u) = SumFunctionOnSet(K, Units)
  BY <1>3, UpkeepIsSum DEF G, H, AheadEats
<1>9. UpkeepOf(g) \in Int /\ UpkeepOf(h) \in Int /\ AheadEats(g, u) \in Int /\ Eats[u] * d \in Int /\ G[u] \in Int
  <2>1. AheadEats(g, u) \in Nat
    BY 0 \in Int, RestInt
  <2>2. Eats[u] \in Int
    BY UpkeepConstants
  <2>3. Eats[u] * d \in Int
    BY <2>2
  <2>4. G[u] \in Nat
    BY <1>1
  <2> QED
    BY <2>1, <2>3, <2>4, UpkeepNat
<1> QED
  BY <1>4, <1>6, <1>7, <1>8, <1>9

\* The turn comes later for what stands later, by all that stands before it.
LEMMA RestFalls ==
  ASSUME NEW g \in Army, NEW b \in Int, NEW u \in Units, NEW w \in Units, Before(w, u)
  PROVE  Rest(g, b, u) + Eats[w] * g[w] <= Rest(g, b, w)
<1> DEFINE K == [x \in Units |-> IF x \in Ahead(w) THEN Meal(g)[x] ELSE 0]
           L == [x \in Units |-> IF x \in Ahead(u) THEN Meal(g)[x] ELSE 0]
           M == [x \in Units |-> IF x = w THEN Meal(g)[x] ELSE K[x]]
<1>1. \A x \in Units : Meal(g)[x] \in Nat
  BY MealNat
<1>2. Ahead(w) \in SUBSET Units /\ Ahead(u) \in SUBSET Units /\ w \notin Ahead(w) /\ IsFiniteSet(Units)
  BY BeforeOrders, UpkeepConstants DEF Ahead
<1>3. \A x \in Units : x \in Ahead(w) \/ x = w => x \in Ahead(u)
  BY BeforeOrders DEF Ahead
<1>4. /\ \A x \in Units : /\ K[x] = IF x \in Ahead(w) THEN Meal(g)[x] ELSE 0
                          /\ L[x] = IF x \in Ahead(u) THEN Meal(g)[x] ELSE 0
      /\ \A x \in Units : K[x] \in Int /\ L[x] \in Int /\ M[x] \in Int /\ M[x] <= L[x]
      /\ \A x \in Units \ {w} : M[x] = K[x]
      /\ M[w] = Eats[w] * g[w] /\ K[w] = 0
  BY <1>1, <1>2, <1>3, MealNat
<1> HIDE DEF K, L, M
<1>5. AheadEats(g, w) = SumFunctionOnSet(K, Units)
  <2>1. \A x \in Ahead(w) : Meal(g)[x] \in Int
    BY <1>1, <1>2
  <2> QED
    BY <1>2, <1>4, <2>1, SumWithin DEF AheadEats
<1>6. AheadEats(g, u) = SumFunctionOnSet(L, Units)
  <2>1. \A x \in Ahead(u) : Meal(g)[x] \in Int
    BY <1>1, <1>2
  <2> QED
    BY <1>2, <1>4, <2>1, SumWithin DEF AheadEats
<1>7. SumFunctionOnSet(M, Units) = SumFunctionOnSet(K, Units) + M[w] - K[w]
  <2>1. M[w] \in Int /\ IsFiniteSet(Units)
    BY <1>2, <1>4
  <2>2. \A x \in Units : K[x] \in Int
    BY <1>4
  <2>3. \A x \in Units \ {w} : M[x] = K[x]
    BY <1>4
  <2> QED
    BY <2>1, <2>2, <2>3, SumChange
<1>8. SumFunctionOnSet(M, Units) <= SumFunctionOnSet(L, Units)
  BY <1>2, <1>4, SumAtMost
<1>9. UpkeepOf(g) \in Int /\ AheadEats(g, u) \in Int /\ AheadEats(g, w) \in Int /\ Eats[w] * g[w] \in Int
  BY <1>4, UpkeepNat, RestInt
<1> QED
  BY <1>4, <1>5, <1>6, <1>7, <1>8, <1>9 DEF Rest

LEMMA UpkeepAtMost ==
  ASSUME NEW g \in Army, NEW h \in Army, \A u \in Units : h[u] <= g[u]
  PROVE  UpkeepOf(h) <= UpkeepOf(g)
<1>1. ASSUME NEW u \in Units PROVE Meal(h)[u] \in Int /\ Meal(g)[u] \in Int /\ Meal(h)[u] <= Meal(g)[u]
  <2>1. h[u] \in Int /\ g[u] \in Int /\ Eats[u] \in Nat
    BY MealNat, UpkeepConstants
  <2>2. Eats[u] * h[u] <= Eats[u] * g[u]
    BY <2>1, MultMono
  <2> QED
    BY <2>2, MealNat
<1> QED
  BY <1>1, UpkeepIsSum, UpkeepConstants, SumAtMost

LEMMA UpkeepOneMore ==
  ASSUME NEW h \in Army, NEW u \in Units
  PROVE  /\ [h EXCEPT ![u] = @ + 1] \in Army
         /\ UpkeepOf([h EXCEPT ![u] = @ + 1]) = UpkeepOf(h) + Eats[u]
<1> DEFINE k == [h EXCEPT ![u] = @ + 1]
<1>1. k \in Army /\ k[u] = h[u] + 1 /\ \A w \in Units \ {u} : k[w] = h[w]
  BY DEF Army
<1> HIDE DEF k
<1>2. h[u] \in Int /\ Eats[u] \in Int
  BY MealNat, UpkeepConstants
<1>3. Meal(k)[u] = Meal(h)[u] + Eats[u] /\ Meal(k)[u] \in Int /\ Meal(h)[u] \in Int
  <2>1. Eats[u] * (h[u] + 1) = Eats[u] * h[u] + Eats[u]
    BY <1>2
  <2> QED
    BY <1>1, <2>1, MealNat
<1>4. \A w \in Units \ {u} : Meal(k)[w] = Meal(h)[w]
  BY <1>1 DEF Meal
<1>5. \A w \in Units : Meal(h)[w] \in Int
  BY MealNat
<1>6. SumFunctionOnSet(Meal(k), Units) = SumFunctionOnSet(Meal(h), Units) + Meal(k)[u] - Meal(h)[u]
  BY <1>3, <1>4, <1>5, UpkeepConstants, SumChange
<1>7. UpkeepOf(k) = UpkeepOf(h) + Meal(k)[u] - Meal(h)[u] /\ UpkeepOf(h) \in Int
  BY <1>6, UpkeepIsSum, UpkeepNat
<1> QED
  BY <1>1, <1>2, <1>3, <1>7 DEF k

\* Whatever stands before a kind that has its turn is gone.
LEMMA AheadGone ==
  ASSUME NEW g \in Army, NEW b \in Int, NEW u \in Units, Rest(g, b, u) > 0, NEW w \in Ahead(u)
  PROVE  Starved(g, b)[w] = 0
<1>1. w \in Units /\ Before(w, u)
  BY DEF Ahead
<1>2. g[w] \in Nat /\ Eats[w] \in Nat \ {0} /\ Rest(g, b, w) \in Int /\ Rest(g, b, u) \in Int
  BY <1>1, MealNat, RestInt, UpkeepConstants
<1>3. Eats[w] * g[w] \in Nat
  BY <1>2
<1>4. Rest(g, b, w) > Eats[w] * g[w] /\ Rest(g, b, w) \in Nat
  BY <1>1, <1>2, <1>3, RestFalls
<1> DEFINE q == Ceil(Rest(g, b, w), Eats[w])
<1>5. q \in Nat /\ Eats[w] * q >= Rest(g, b, w)
  BY <1>2, <1>4, CeilBounds
<1>6. Starved(g, b)[w] = g[w] - Least(g[w], q)
  <2>1. ~(Rest(g, b, w) <= 0)
    BY <1>2, <1>3, <1>4
  <2> QED
    BY <1>1, <2>1, StarvedIs
<1> HIDE DEF q
<1>7. g[w] <= q
  <2>1. q <= g[w] => Eats[w] * q <= Eats[w] * g[w]
    BY <1>2, <1>5, MultMono
  <2>2. Eats[w] * q \in Int
    BY <1>2, <1>5
  <2> QED
    BY <1>2, <1>3, <1>4, <1>5, <2>1, <2>2
<1> QED
  BY <1>2, <1>5, <1>6, <1>7 DEF Least

\* A cull takes no unit too many: with any one of the fallen back, the rest could not be fed.
LEMMA CullSpares ==
  ASSUME NEW g \in Army, NEW b \in Int, NEW u \in Units, Starved(g, b)[u] < g[u]
  PROVE  b < UpkeepOf([Starved(g, b) EXCEPT ![u] = @ + 1])
<1> DEFINE h == Starved(g, b)
           C == {x \in Units : Rest(g, b, x) > 0}
<1>1. h \in Army
  BY StarvedIn
<1>2. \A x \in Units : g[x] \in Nat /\ h[x] \in Nat /\ Rest(g, b, x) \in Int /\ Eats[x] \in Nat \ {0}
  BY <1>1, MealNat, RestInt, UpkeepConstants
<1>3. \A x \in Units \ C : h[x] = g[x]
  BY <1>2, StarvedIs
<1>4. u \in C /\ C \in SUBSET Units
  BY <1>2, <1>3
<1>5. PICK l \in C : \A x \in C \ {l} : Before(x, l)
  <2> HIDE DEF C
  <2> QED
    BY <1>4, LastOf
<1>6. l \in Units /\ Rest(g, b, l) > 0
  OBVIOUS
<1> DEFINE q == Ceil(Rest(g, b, l), Eats[l])
           d == Least(g[l], q)
<1>7. q \in Nat /\ Eats[l] * q < Rest(g, b, l) + Eats[l]
  <2>1. Rest(g, b, l) \in Nat /\ Eats[l] \in Nat \ {0}
    BY <1>2, <1>6
  <2> QED
    BY <2>1, CeilBounds
<1>8. h[l] = g[l] - d
  <2>1. ~(Rest(g, b, l) <= 0)
    BY <1>2, <1>6
  <2> QED
    BY <1>6, <2>1, StarvedIs
<1> HIDE DEF q, h
<1>9. d \in Int /\ d <= q
  BY <1>2, <1>6, <1>7 DEF Least
<1> HIDE DEF d
<1>10. \A w \in Ahead(l) : h[w] = 0
  BY <1>6, AheadGone DEF h
<1>11. \A w \in Units \ (Ahead(l) \cup {l}) : h[w] = g[w]
  BY <1>3, <1>5 DEF Ahead
<1> HIDE DEF C
<1>12. UpkeepOf(h) = UpkeepOf(g) - AheadEats(g, l) - Eats[l] * d
  BY <1>1, <1>6, <1>8, <1>9, <1>10, <1>11, UpkeepLess
<1>13. Eats[l] * d <= Eats[l] * q
  <2>1. Eats[l] \in Nat /\ q \in Int
    BY <1>2, <1>6, <1>7
  <2> QED
    BY <1>9, <2>1, MultMono
<1>14. /\ Eats[l] * d \in Int /\ Eats[l] * q \in Int /\ Eats[l] \in Int /\ Rest(g, b, l) \in Int
       /\ AheadEats(g, l) \in Int /\ UpkeepOf(g) \in Int
  <2>1. Eats[l] \in Int /\ q \in Int /\ Rest(g, b, l) \in Int
    BY <1>2, <1>6, <1>7
  <2>2. Eats[l] * d \in Int /\ Eats[l] * q \in Int
    BY <1>9, <2>1
  <2>3. AheadEats(g, l) \in Nat /\ UpkeepOf(g) \in Nat
    BY <1>6, RestInt, UpkeepNat
  <2> QED
    BY <2>1, <2>2, <2>3
<1>15. UpkeepOf(h) = b + Rest(g, b, l) - Eats[l] * d
  BY <1>12, <1>14 DEF Rest
<1>16. UpkeepOf(h) + Eats[l] > b /\ UpkeepOf(h) \in Int
  BY <1>7, <1>13, <1>14, <1>15
<1>17. Eats[u] >= Eats[l] /\ Eats[u] \in Int
  <2>1. u = l \/ Before(u, l)
    BY <1>4, <1>5
  <2> QED
    BY <1>2, <1>6, <2>1, BeforeOrders
<1>18. UpkeepOf([h EXCEPT ![u] = @ + 1]) = UpkeepOf(h) + Eats[u]
  BY <1>1, UpkeepOneMore
<1>19. b < UpkeepOf([h EXCEPT ![u] = @ + 1])
  BY <1>14, <1>16, <1>17, <1>18
<1> QED
  BY <1>19 DEF h

\* After a cull the rest can be fed, if there is any.
LEMMA CullFeeds ==
  ASSUME NEW g \in Army, NEW b \in Int
  PROVE  Starved(g, b) = NoTroops \/ UpkeepOf(Starved(g, b)) <= b
<1> DEFINE h == Starved(g, b)
           C == {x \in Units : h[x] > 0}
<1>1. h \in Army /\ \A x \in Units : h[x] <= g[x]
  BY StarvedIn
<1>2. \A x \in Units : g[x] \in Nat /\ h[x] \in Nat /\ Rest(g, b, x) \in Int /\ Eats[x] \in Nat \ {0}
  BY <1>1, MealNat, RestInt, UpkeepConstants
<1>3. CASE C = {}
  <2>1. \A x \in Units : h[x] = 0
    BY <1>2, <1>3
  <2> HIDE DEF h
  <2>2. h = NoTroops
    BY <1>1, <2>1 DEF Army, NoTroops
  <2> QED
    BY <2>2 DEF h
<1>4. CASE C # {}
  <2>1. PICK f \in C : \A x \in C \ {f} : Before(f, x)
    <3>1. C \in SUBSET Units
      OBVIOUS
    <3> HIDE DEF C
    <3> QED
      BY <1>4, <3>1, FirstOf
  <2>2. f \in Units /\ h[f] > 0
    OBVIOUS
  <2>3. \A w \in Ahead(f) : h[w] = 0
    BY <1>2, <2>1, BeforeOrders DEF Ahead
  <2> DEFINE d == g[f] - h[f]
             k == [x \in Units |-> IF x \in Ahead(f) THEN 0 ELSE IF x = f THEN h[f] ELSE g[x]]
  <2>4. Eats[f] * d >= Rest(g, b, f) /\ d \in Nat
    <3>1. CASE Rest(g, b, f) <= 0
      <4>1. h[f] = g[f]
        BY <2>2, <3>1, StarvedIs
      <4>2. d = 0 /\ Eats[f] * 0 = 0
        BY <1>2, <2>2, <4>1
      <4> QED
        BY <3>1, <4>2
    <3>2. CASE Rest(g, b, f) > 0
      <4> DEFINE q == Ceil(Rest(g, b, f), Eats[f])
      <4>1. q \in Nat /\ Eats[f] * q >= Rest(g, b, f)
        <5>1. Rest(g, b, f) \in Nat /\ Eats[f] \in Nat \ {0}
          BY <1>2, <2>2, <3>2
        <5> QED
          BY <5>1, CeilBounds
      <4>2. h[f] = g[f] - Least(g[f], q)
        <5>1. ~(Rest(g, b, f) <= 0)
          BY <1>2, <2>2, <3>2
        <5> QED
          BY <2>2, <5>1, StarvedIs
      <4> HIDE DEF q, h
      <4>3. d = q
        BY <1>2, <2>2, <4>1, <4>2 DEF Least
      <4> QED
        BY <4>1, <4>3
    <3> QED
      BY <1>2, <2>2, <3>1, <3>2
  <2> HIDE DEF h, C
  <2>5. f \notin Ahead(f)
    BY <2>2, BeforeOrders DEF Ahead
  <2>6. /\ k \in Army /\ k[f] = g[f] - d
        /\ \A w \in Ahead(f) : k[w] = 0
        /\ \A w \in Units \ (Ahead(f) \cup {f}) : k[w] = g[w]
        /\ \A w \in Units : h[w] <= k[w]
    BY <1>1, <1>2, <2>2, <2>3, <2>5 DEF Army, Ahead
  <2> HIDE DEF k, d
  <2>7. UpkeepOf(k) = UpkeepOf(g) - AheadEats(g, f) - Eats[f] * d
    BY <2>2, <2>4, <2>6, UpkeepLess
  <2>8. UpkeepOf(h) <= UpkeepOf(k)
    BY <1>1, <2>6, UpkeepAtMost
  <2>9. /\ UpkeepOf(h) \in Int /\ UpkeepOf(k) \in Int /\ UpkeepOf(g) \in Int /\ AheadEats(g, f) \in Int
        /\ Eats[f] * d \in Int
    <3>1. UpkeepOf(h) \in Nat /\ UpkeepOf(k) \in Nat /\ UpkeepOf(g) \in Nat /\ AheadEats(g, f) \in Nat
      BY <1>1, <2>2, <2>6, RestInt, UpkeepNat
    <3>2. Eats[f] \in Int
      BY <1>2, <2>2
    <3>3. Eats[f] * d \in Int
      BY <2>4, <3>2
    <3> QED
      BY <3>1, <3>3
  <2>10. UpkeepOf(h) <= b
    BY <2>4, <2>7, <2>8, <2>9 DEF Rest
  <2> QED
    BY <2>10 DEF h
<1> QED
  BY <1>3, <1>4

-----------------------------------------------------------------------------
(* Upkeep: types *)

Running(a) == task[a] # Idle
Starves == {"starve_village", "starve_garrison", "starve_store", "starve"}
StepsOf(a) == Syncing \cup IF a = "web" THEN {"debit", "march"} ELSE {"batch", "deliver"} \cup Starves

\* Who does something does it in a process that lives, has begun it by now, and is at a step of his own.
Living == \A a \in Actors : Running(a) => up /\ task[a].step \in StepsOf(a) /\ task[a].now <= clock
\* A charge in hand dates the store no earlier than it was read.
DebitForward == At("web", "debit") => task["web"].store.at <= task["web"].after.at
\* A batch in hand is there, a unit of it is finished, and those that are finished have been counted.
BatchHeld == Running("pass") /\ Reads.step \in {"batch", "deliver"} =>
  /\ batch # NoBatch /\ NextDue(batch) <= Reads.now
  /\ Reads.step = "deliver" => Reads.count = Finished(batch, Reads.now) - batch.done
TaskHeld == Living /\ DebitForward /\ BatchHeld
VillageTyped == TypeOK /\ TaskHeld

\* TypeOK in parts.
NumbersTyped == /\ clock \in Time /\ orders \in 0 .. MaxOrders /\ events \in 0 .. MaxEvents
                /\ up \in BOOLEAN /\ crashes \in 0 .. MaxCrashes
GroundTyped == store \in Store /\ base \in Bases /\ garrison \in Army
CheckTyped == check \in Check \cup {NoCheck}
BatchTyped == batch \in Batch \cup {NoBatch} /\ (batch # NoBatch => batch.done < batch.total)
TasksTyped == task \in [Actors -> Task \cup {Idle}]

LEMMA TypeParts == TypeOK <=> NumbersTyped /\ GroundTyped /\ CheckTyped /\ BatchTyped /\ TasksTyped
BY DEF TypeOK, NumbersTyped, GroundTyped, CheckTyped, BatchTyped, TasksTyped
LEMMA TypePartsNext == TypeOK' <=> NumbersTyped' /\ GroundTyped' /\ CheckTyped' /\ BatchTyped' /\ TasksTyped'
BY DEF TypeOK, NumbersTyped, GroundTyped, CheckTyped, BatchTyped, TasksTyped

LEMMA TaskOf ==
  ASSUME TasksTyped, NEW a \in Actors, Running(a)
  PROVE  /\ task[a] \in Task
         /\ task[a].step \in Steps /\ task[a].now \in Time /\ task[a].now \in Nat /\ task[a].troops \in Army
         /\ task[a].base \in Bases /\ task[a].store \in Store /\ task[a].after \in Store /\ task[a].count \in Nat
<1>1. task[a] \in Task
  BY DEF TasksTyped, Running
<1> QED
  BY <1>1 DEF Task, Time

LEMMA BlankIn ==
  ASSUME NEW step \in Steps, NEW now \in Time
  PROVE  /\ Blank(step, now) \in Task /\ Blank(step, now) # Idle
         /\ Blank(step, now).step = step /\ Blank(step, now).now = now
<1>1. 0 \in Time /\ 0 \in 0 .. Capacity /\ NoTroops \in Army /\ FirstBase \in Bases /\ 0 \in Nat
  BY UpkeepConstants DEF Time, NoTroops, Army
<1>2. [crop |-> 0, at |-> 0] \in Store
  BY <1>1 DEF Store
<1>3. Blank(step, now) \in Task
  BY <1>1, <1>2 DEF Blank, Task
<1> QED
  BY <1>3, NoRowIsNew DEF Blank

\* Somebody goes over to t.
LEMMA Turned ==
  ASSUME TasksTyped, NEW a \in Actors, NEW t \in Task \cup {Idle}, task' = [task EXCEPT ![a] = t]
  PROVE  TasksTyped' /\ task'[a] = t /\ \A x \in Actors \ {a} : task'[x] = task[x]
BY DEF TasksTyped

\* What TaskHeld asks of the one that moves, when the rest of the world keeps up.
LEMMA HeldOn ==
  ASSUME VillageTyped, NEW a \in Actors, NEW t \in Task \cup {Idle}, task' = [task EXCEPT ![a] = t],
         up' = up, clock' = clock, up,
         t # Idle => t.step \in StepsOf(a) /\ t.now <= clock,
         t # Idle /\ t.step = "debit" => t.store.at <= t.after.at,
         t # Idle /\ t.step \in {"batch", "deliver"} =>
           /\ batch' # NoBatch /\ NextDue(batch') <= t.now
           /\ t.step = "deliver" => t.count = Finished(batch', t.now) - batch'.done,
         a = "web" /\ Running("pass") /\ Reads.step \in {"batch", "deliver"} => batch' = batch
  PROVE  TasksTyped' /\ TaskHeld'
<1>1. TasksTyped' /\ task'[a] = t /\ \A x \in Actors \ {a} : task'[x] = task[x]
  BY Turned, TypeParts DEF VillageTyped
<1>2. Living'
  BY <1>1 DEF Living, Running, VillageTyped, TaskHeld, StepsOf
<1>3. DebitForward'
  <2>1. CASE a = "web"
    BY <1>1, <2>1 DEF DebitForward, At
  <2>2. CASE a # "web"
    <3>1. task'["web"] = task["web"]
      BY <1>1, <2>2 DEF Actors
    <3> QED
      BY <3>1 DEF DebitForward, At, VillageTyped, TaskHeld
  <2> QED
    BY <2>1, <2>2
<1>4. BatchHeld'
  <2>1. CASE a = "pass"
    BY <1>1, <2>1 DEF BatchHeld, Running, Reads, NextDue, Finished
  <2>2. CASE a = "web"
    <3>1. task'["pass"] = task["pass"]
      BY <1>1, <2>2 DEF Actors
    <3> QED
      BY <2>2, <3>1 DEF BatchHeld, VillageTyped, TaskHeld, Running, Reads, NextDue, Finished
  <2> QED
    BY <2>1, <2>2 DEF Actors
<1> QED
  BY <1>1, <1>2, <1>3, <1>4 DEF TaskHeld

LEMMA InitVillage == Init => VillageTyped
<1> SUFFICES ASSUME Init PROVE VillageTyped
  OBVIOUS
<1> USE UpkeepConstants
<1>1. 0 \in Time /\ store \in Store
  BY DEF Init, Time, Store
<1>2. TypeOK
  BY <1>1 DEF Init, TypeOK
<1>3. \A a \in Actors : ~Running(a)
  BY DEF Init, Running
<1> QED
  BY <1>2, <1>3 DEF VillageTyped, TaskHeld, Living, DebitForward, BatchHeld, Running, At, Actors

\* The rest of the types where only a task moves on.
LEMMA OnlyTasks ==
  ASSUME VillageTyped, UNCHANGED <<clock, village, check, batch, orders, events, life>>, TasksTyped', TaskHeld'
  PROVE  VillageTyped'
<1>1. NumbersTyped' /\ GroundTyped' /\ CheckTyped' /\ BatchTyped'
  BY TypeParts DEF VillageTyped, NumbersTyped, GroundTyped, CheckTyped, BatchTyped, village, life
<1> QED
  BY <1>1, TypePartsNext DEF VillageTyped

\* A task that has read something moves on to another step.
LEMMA TaskFields ==
  ASSUME NEW t \in Task
  PROVE  /\ t = [step |-> t.step, train |-> t.train, synced |-> t.synced, now |-> t.now, troops |-> t.troops,
                base |-> t.base, store |-> t.store, after |-> t.after, count |-> t.count]
         /\ t.step \in Steps /\ t.train \in BOOLEAN /\ t.synced \in BOOLEAN /\ t.now \in Time /\ t.troops \in Army
         /\ t.base \in Bases /\ t.store \in Store /\ t.after \in Store /\ t.count \in Nat
BY DEF Task
WithTroops(t, v, s) == [t EXCEPT !.troops = v, !.step = s]
LEMMA ReadsTroops ==
  ASSUME NEW t \in Task, NEW s \in Steps, NEW v \in Army
  PROVE  /\ WithTroops(t, v, s) \in Task /\ WithTroops(t, v, s) # Idle /\ WithTroops(t, v, s).step = s /\ WithTroops(t, v, s).now = t.now
         /\ WithTroops(t, v, s).troops = v /\ WithTroops(t, v, s).base = t.base /\ WithTroops(t, v, s).store = t.store
<1>1. WithTroops(t, v, s) \in Task
  BY TaskFields DEF Task, WithTroops
<1> QED
  BY <1>1, TaskFields, NoRowIsNew DEF WithTroops
WithBase(t, v, s) == [t EXCEPT !.base = v, !.step = s]
LEMMA ReadsBase ==
  ASSUME NEW t \in Task, NEW s \in Steps, NEW v \in Bases
  PROVE  /\ WithBase(t, v, s) \in Task /\ WithBase(t, v, s) # Idle /\ WithBase(t, v, s).step = s /\ WithBase(t, v, s).now = t.now
         /\ WithBase(t, v, s).base = v /\ WithBase(t, v, s).troops = t.troops /\ WithBase(t, v, s).store = t.store
<1>1. WithBase(t, v, s) \in Task
  BY TaskFields DEF Task, WithBase
<1> QED
  BY <1>1, TaskFields, NoRowIsNew DEF WithBase
WithStore(t, v, s) == [t EXCEPT !.store = v, !.step = s]
LEMMA ReadsStore ==
  ASSUME NEW t \in Task, NEW s \in Steps, NEW v \in Store
  PROVE  /\ WithStore(t, v, s) \in Task /\ WithStore(t, v, s) # Idle /\ WithStore(t, v, s).step = s /\ WithStore(t, v, s).now = t.now
         /\ WithStore(t, v, s).store = v /\ WithStore(t, v, s).troops = t.troops /\ WithStore(t, v, s).base = t.base
<1>1. WithStore(t, v, s) \in Task
  BY TaskFields DEF Task, WithStore
<1> QED
  BY <1>1, TaskFields, NoRowIsNew DEF WithStore

LEMMA StepSets ==
  /\ Syncing \subseteq Steps /\ Starves \subseteq Steps /\ {"debit", "march", "batch", "deliver"} \subseteq Steps
  /\ \A a \in Actors : Syncing \subseteq StepsOf(a) /\ StepsOf(a) \subseteq Steps
  /\ Starves \subseteq StepsOf("pass") /\ {"batch", "deliver"} \subseteq StepsOf("pass")
  /\ {"debit", "march"} \subseteq StepsOf("web")
  /\ "web" \in Actors /\ "pass" \in Actors
  /\ "debit" \notin Syncing \cup Starves /\ "batch" \notin Syncing \cup Starves /\ "deliver" \notin Syncing \cup Starves
  /\ "march" \notin Syncing \cup Starves /\ Syncing \cap Starves = {}
BY DEF Syncing, Starves, Steps, StepsOf, Actors

\* A step of a sync or of a starvation check, which asks nothing of the batch.
LEMMA MovesOn ==
  ASSUME VillageTyped, up, NEW a \in Actors, NEW t \in Task \cup {Idle}, task' = [task EXCEPT ![a] = t],
         t # Idle => t.now <= clock /\ t.step \in Syncing \cup (IF a = "pass" THEN Starves ELSE {}),
         UNCHANGED <<clock, up, batch>>
  PROVE  TasksTyped' /\ TaskHeld'
<1>1. t # Idle => /\ t.step \in StepsOf(a) /\ t.step \notin {"debit", "batch", "deliver"}
                  /\ t.now <= clock
  BY StepSets
<1> QED
  BY <1>1, HeldOn

LEMMA SyncTyped ==
  ASSUME VillageTyped, up, NEW a \in Actors, Sync(a)
  PROVE  VillageTyped'
<1>1. Running(a) /\ TasksTyped
  BY TypeParts DEF VillageTyped, Sync, SyncGarrison, SyncVillage, SyncStore, SyncWrite, At, Running
<1> DEFINE t == task[a]
<1>2. t \in Task /\ t.now <= clock /\ garrison \in Army /\ base \in Bases /\ store \in Store
  BY <1>1, TaskOf, TypeParts DEF VillageTyped, TaskHeld, Living, GroundTyped
<1>3. CASE SyncGarrison(a)
  <2> DEFINE s == IF garrison = NoTroops THEN "sync_write" ELSE "sync_village"
             n == WithTroops(t, garrison, s)
  <2>1. task' = [task EXCEPT ![a] = n]
    BY <1>1, <1>3 DEF SyncGarrison, TasksTyped, WithTroops
  <2>2. s \in Syncing /\ s \in Steps
    BY DEF Syncing, Steps
  <2>3. n \in Task /\ n.step \in Syncing /\ n.now <= clock
    BY <1>2, <2>2, ReadsTroops
  <2>4. UNCHANGED <<clock, village, check, batch, orders, events, life>> /\ up' = up
    BY <1>3 DEF SyncGarrison, life
  <2> HIDE DEF n, s, t
  <2>5. TasksTyped' /\ TaskHeld'
    BY <2>1, <2>3, <2>4, MovesOn
  <2> QED
    BY <2>4, <2>5, OnlyTasks
<1>4. CASE SyncVillage(a)
  <2> DEFINE n == WithBase(t, base, "sync_store")
  <2>1. task' = [task EXCEPT ![a] = n]
    BY <1>1, <1>4 DEF SyncVillage, TasksTyped, WithBase
  <2>2. "sync_store" \in Syncing /\ "sync_store" \in Steps
    BY DEF Syncing, Steps
  <2>3. n \in Task /\ n.step \in Syncing /\ n.now <= clock
    BY <1>2, <2>2, ReadsBase
  <2>4. UNCHANGED <<clock, village, check, batch, orders, events, life>> /\ up' = up
    BY <1>4 DEF SyncVillage, life
  <2> HIDE DEF n, t
  <2>5. TasksTyped' /\ TaskHeld'
    BY <2>1, <2>3, <2>4, MovesOn
  <2> QED
    BY <2>4, <2>5, OnlyTasks
<1>5. CASE SyncStore(a)
  <2> DEFINE n == WithStore(t, store, "sync_write")
  <2>1. task' = [task EXCEPT ![a] = n]
    BY <1>1, <1>5 DEF SyncStore, TasksTyped, WithStore
  <2>2. "sync_write" \in Syncing /\ "sync_write" \in Steps
    BY DEF Syncing, Steps
  <2>3. n \in Task /\ n.step \in Syncing /\ n.now <= clock
    BY <1>2, <2>2, ReadsStore
  <2>4. UNCHANGED <<clock, village, check, batch, orders, events, life>> /\ up' = up
    BY <1>5 DEF SyncStore, life
  <2> HIDE DEF n, t
  <2>5. TasksTyped' /\ TaskHeld'
    BY <2>1, <2>3, <2>4, MovesOn
  <2> QED
    BY <2>4, <2>5, OnlyTasks
<1>6. CASE SyncWrite(a)
  <2> DEFINE net == t.base - UpkeepOf(t.troops)
             due == t.now + Depletion(Settled(t.store, net, t.now), net)
  <2>1. task' = [task EXCEPT ![a] = Idle]
    BY <1>6 DEF SyncWrite, Ends
  <2>2. UNCHANGED <<clock, village, batch, orders, events, life>> /\ up' = up
    BY <1>6 DEF SyncWrite, life
  <2>3. TasksTyped' /\ TaskHeld'
    BY <2>1, <2>2, MovesOn
  <2>4. net \in Int /\ t.now \in Nat /\ t.store \in Store
    <3>1. t.base \in Int /\ t.troops \in Army /\ t.now \in Nat /\ t.store \in Store
      BY <1>1, TaskOf, UpkeepConstants
    <3>2. UpkeepOf(t.troops) \in Nat
      BY <3>1, UpkeepNat
    <3> QED
      BY <3>1, <3>2
  <2> HIDE DEF net
  <2>5. net < 0 => due \in Nat
    <3>1. Settled(t.store, net, t.now) \in 0 .. Capacity
      BY <2>4, SettledIn
    <3> QED
      BY <2>4, <3>1, DepletionNat, UpkeepConstants
  <2>6. check' \in Check \cup {NoCheck}
    BY <1>6, <2>4, <2>5 DEF SyncWrite, Check, net
  <2>7. NumbersTyped' /\ GroundTyped' /\ BatchTyped'
    BY <2>2, TypeParts DEF VillageTyped, NumbersTyped, GroundTyped, BatchTyped, village, life
  <2> QED
    BY <2>3, <2>6, <2>7, TypePartsNext DEF VillageTyped, CheckTyped
<1> QED
  BY <1>3, <1>4, <1>5, <1>6 DEF Sync

\* Somebody goes over to a re-sync.
LEMMA SyncsOn ==
  ASSUME VillageTyped, up, NEW a \in Actors, NEW now \in Time, now <= clock, Syncs(a, now),
         UNCHANGED <<clock, up>>,
         a = "web" /\ Running("pass") /\ Reads.step \in {"batch", "deliver"} => batch' = batch
  PROVE  TasksTyped' /\ TaskHeld'
<1> DEFINE t == Blank("sync_garrison", now)
<1>1. "sync_garrison" \in Syncing /\ "sync_garrison" \in Steps
  BY DEF Syncing, Steps
<1>2. t \in Task /\ t.step = "sync_garrison" /\ t.now = now
  BY <1>1, BlankIn
<1>3. task' = [task EXCEPT ![a] = t]
  BY DEF Syncs, Begins
<1> HIDE DEF t
<1>4. t.step \in StepsOf(a) /\ t.now <= clock /\ t.step \notin {"debit", "batch", "deliver"}
  BY <1>1, <1>2, StepSets
<1> QED
  BY <1>2, <1>3, <1>4, HeldOn

\* Somebody goes over to a step of his that asks nothing of the batch, or ends.
LEMMA EndsOn ==
  ASSUME VillageTyped, up, NEW a \in Actors, Ends(a), UNCHANGED <<clock, up>>,
         a = "web" /\ Running("pass") /\ Reads.step \in {"batch", "deliver"} => batch' = batch
  PROVE  TasksTyped' /\ TaskHeld'
<1>1. task' = [task EXCEPT ![a] = Idle]
  BY DEF Ends
<1> QED
  BY <1>1, HeldOn

LEMMA ArmyMore ==
  ASSUME NEW g \in Army, NEW u \in Units, NEW n \in Int, g[u] + n >= 0
  PROVE  [g EXCEPT ![u] = @ + n] \in Army
BY DEF Army

LEMMA ArmyLess ==
  ASSUME NEW g \in Army, NEW u \in Units, g[u] > 0
  PROVE  [g EXCEPT ![u] = @ - 1] \in Army
BY DEF Army

Filled(s) == [s EXCEPT !.crop = Most(@, Least(Capacity, @ + Load))]
Raided(s, loot) == [s EXCEPT !.crop = Most(0, @ - loot)]
Charged(s) == [s EXCEPT !.crop = @ - Cost]
LEMMA StoreChanges ==
  ASSUME NEW s \in Store
  PROVE  /\ Filled(s) \in Store /\ Filled(s).at = s.at
         /\ \A loot \in {0, Load} : Raided(s, loot) \in Store /\ Raided(s, loot).at = s.at
         /\ s.crop >= Cost => Charged(s) \in Store /\ Charged(s).at = s.at
<1>1. s.crop \in 0 .. Capacity /\ s.at \in Time /\ s = [crop |-> s.crop, at |-> s.at]
  BY DEF Store
<1>2. Most(s.crop, Least(Capacity, s.crop + Load)) \in 0 .. Capacity
  BY <1>1, UpkeepConstants DEF Most, Least
<1>3. \A loot \in {0, Load} : Most(0, s.crop - loot) \in 0 .. Capacity
  BY <1>1, UpkeepConstants DEF Most
<1>4. s.crop >= Cost => s.crop - Cost \in 0 .. Capacity
  BY <1>1, UpkeepConstants
<1>5. Filled(s) = [crop |-> Most(s.crop, Least(Capacity, s.crop + Load)), at |-> s.at]
  BY <1>1 DEF Filled
<1>6. \A loot \in {0, Load} : Raided(s, loot) = [crop |-> Most(0, s.crop - loot), at |-> s.at]
  BY <1>1 DEF Raided
<1>7. Charged(s) = [crop |-> s.crop - Cost, at |-> s.at]
  BY <1>1 DEF Charged
<1>8. \A c \in 0 .. Capacity : [crop |-> c, at |-> s.at] \in Store
  BY <1>1 DEF Store
<1> QED
  BY <1>2, <1>3, <1>4, <1>5, <1>6, <1>7, <1>8

LEMMA NetInt == ASSUME GroundTyped PROVE Net \in Int /\ UpkeepOf(garrison) \in Nat
BY UpkeepNat, UpkeepConstants DEF GroundTyped, Net

\* The store settled to the present.
LEMMA PresentStore ==
  ASSUME NumbersTyped, GroundTyped
  PROVE  /\ SettleTo(store, Net, clock) \in Store
         /\ SettleTo(store, Net, clock).at >= store.at
BY NetInt, SettleToIn DEF NumbersTyped, GroundTyped

OrderOf(train, synced, now, r, s) ==
  [Blank("debit", now) EXCEPT !.train = train, !.synced = synced, !.store = r, !.after = s]
LEMMA OrderIn ==
  ASSUME NEW train \in BOOLEAN, NEW synced \in BOOLEAN, NEW now \in Time, NEW r \in Store, NEW s \in Store
  PROVE  LET t == OrderOf(train, synced, now, r, s) IN
         t \in Task /\ t.step = "debit" /\ t.now = now /\ t.store = r /\ t.after = s /\ t.train = train
<1>1. "debit" \in Steps
  BY DEF Steps
<1>2. Blank("debit", now) \in Task /\ Blank("debit", now).step = "debit" /\ Blank("debit", now).now = now
  BY <1>1, BlankIn
<1> QED
  BY <1>2, TaskFields DEF Task, OrderOf

LEMMA OrderTyped ==
  ASSUME VillageTyped, up, NEW train \in BOOLEAN, NEW synced \in BOOLEAN, Order(train, synced)
  PROVE  VillageTyped'
<1> DEFINE s == SettleTo(store, Net, clock)
           t == OrderOf(train, synced, clock, store, Charged(s))
<1>1. NumbersTyped /\ GroundTyped /\ CheckTyped /\ BatchTyped /\ TasksTyped
  BY TypeParts DEF VillageTyped
<1>2. s \in Store /\ s.at >= store.at /\ s.crop >= Cost
  BY <1>1, PresentStore DEF Order
<1>3. Charged(s) \in Store /\ Charged(s).at >= store.at
  BY <1>2, StoreChanges
<1>4. clock \in Time /\ clock \in Int /\ store \in Store
  BY <1>1, UpkeepConstants DEF NumbersTyped, GroundTyped, Time
<1>5. task' = [task EXCEPT !["web"] = t]
  BY DEF Order, Begins, OrderOf, Charged
<1> HIDE DEF s
<1>6. t \in Task /\ t.step = "debit" /\ t.now = clock /\ t.store = store /\ t.after = Charged(s)
  BY <1>3, <1>4, OrderIn
<1> HIDE DEF t
<1>7. /\ t.step \in StepsOf("web") /\ t.now <= clock /\ t.store.at <= t.after.at
      /\ t.step \notin {"batch", "deliver"} /\ "web" \in Actors
  BY <1>3, <1>4, <1>6, StepSets
<1>8. UNCHANGED <<clock, village, check, batch, events, life>> /\ up' = up /\ orders < MaxOrders /\ orders' = orders + 1
  BY DEF Order, life
<1>9. TasksTyped' /\ TaskHeld'
  BY <1>5, <1>6, <1>7, <1>8, HeldOn
<1>10. NumbersTyped' /\ GroundTyped' /\ CheckTyped' /\ BatchTyped'
  BY <1>1, <1>8, UpkeepConstants DEF NumbersTyped, GroundTyped, CheckTyped, BatchTyped, village, life
<1> QED
  BY <1>9, <1>10, TypePartsNext DEF VillageTyped

LEMMA DebitTyped ==
  ASSUME VillageTyped, up, Debit
  PROVE  VillageTyped'
<1> DEFINE t == task["web"]
<1>1. NumbersTyped /\ GroundTyped /\ CheckTyped /\ BatchTyped /\ TasksTyped /\ Running("web") /\ "web" \in Actors
  BY TypeParts, StepSets DEF VillageTyped, Debit, At, Running
<1>2. t.after \in Store /\ t.now \in Time /\ t.now <= clock
  BY <1>1, TaskOf DEF VillageTyped, TaskHeld, Living
<1>3. UNCHANGED <<clock, base, garrison, check, orders, events, life>> /\ up' = up /\ store' = t.after
  BY DEF Debit, life
<1>4. BatchTyped' /\ (batch # NoBatch => batch' = batch)
  <2>1. [total |-> BatchSize, done |-> 0, start |-> t.now, claimed |-> FALSE] \in Batch
    BY <1>2, UpkeepConstants DEF Batch
  <2> QED
    BY <1>1, <2>1, UpkeepConstants DEF Debit, BatchTyped
<1>5. Running("pass") /\ Reads.step \in {"batch", "deliver"} => batch' = batch
  BY <1>4 DEF VillageTyped, TaskHeld, BatchHeld
<1>6. TasksTyped' /\ TaskHeld'
  <2>1. CASE t.synced
    <3>1. Syncs("web", t.now)
      BY <2>1 DEF Debit
    <3> QED
      BY <1>1, <1>2, <1>3, <1>5, <3>1, SyncsOn
  <2>2. CASE ~t.synced
    <3>1. Ends("web")
      BY <2>2 DEF Debit
    <3> QED
      BY <1>1, <1>3, <1>5, <3>1, EndsOn
  <2> QED
    BY <2>1, <2>2
<1>7. NumbersTyped' /\ GroundTyped' /\ CheckTyped'
  BY <1>1, <1>2, <1>3 DEF NumbersTyped, GroundTyped, CheckTyped, life
<1> QED
  BY <1>4, <1>6, <1>7, TypePartsNext DEF VillageTyped

\* The tasks where nobody's turn has come.
LEMMA HeldStill ==
  ASSUME VillageTyped, UNCHANGED <<task, batch, up>>, clock' \in Int, clock <= clock'
  PROVE  TasksTyped' /\ TaskHeld'
<1>1. TasksTyped /\ clock \in Int /\ \A a \in Actors : Running(a) => task[a].now \in Int
  BY TypeParts, TaskOf, UpkeepConstants DEF VillageTyped, NumbersTyped, Time
<1>2. TasksTyped'
  BY <1>1 DEF TasksTyped
<1>3. Living'
  BY <1>1 DEF VillageTyped, TaskHeld, Living, Running, StepsOf
<1>4. DebitForward' /\ BatchHeld'
  BY DEF VillageTyped, TaskHeld, DebitForward, BatchHeld, Running, Reads, At, NextDue, Finished
<1> QED
  BY <1>2, <1>3, <1>4 DEF TaskHeld

LEMMA TypesNow ==
  ASSUME VillageTyped
  PROVE  /\ NumbersTyped /\ GroundTyped /\ CheckTyped /\ BatchTyped /\ TasksTyped
         /\ clock \in Time /\ clock \in Int /\ store \in Store /\ base \in Bases /\ garrison \in Army
         /\ Net \in Int
<1>1. NumbersTyped /\ GroundTyped /\ CheckTyped /\ BatchTyped /\ TasksTyped
  BY TypeParts DEF VillageTyped
<1> QED
  BY <1>1, UpkeepConstants, NetInt DEF NumbersTyped, GroundTyped, Time

LEMMA TypesOn ==
  ASSUME NumbersTyped', GroundTyped', CheckTyped', BatchTyped', TasksTyped', TaskHeld'
  PROVE  VillageTyped'
BY TypePartsNext DEF VillageTyped

LEMMA AskMarchTyped == ASSUME VillageTyped, up, AskMarch PROVE VillageTyped'
<1> DEFINE t == Blank("march", clock)
<1>1. "march" \in Steps
  BY DEF Steps
<1>2. t \in Task /\ t.step = "march" /\ t.now = clock
  BY <1>1, TypesNow, BlankIn
<1>3. task' = [task EXCEPT !["web"] = t]
  BY DEF AskMarch, Begins
<1> HIDE DEF t
<1>4. t.step \in StepsOf("web") /\ t.now <= clock /\ t.step \notin {"debit", "batch", "deliver"} /\ "web" \in Actors
  BY <1>2, TypesNow, StepSets
<1>5. UNCHANGED <<clock, village, check, batch, events, life>> /\ up' = up /\ orders < MaxOrders /\ orders' = orders + 1
  BY DEF AskMarch, life
<1>6. TasksTyped' /\ TaskHeld'
  BY <1>2, <1>3, <1>4, <1>5, HeldOn
<1>7. NumbersTyped' /\ GroundTyped' /\ CheckTyped' /\ BatchTyped'
  BY <1>5, TypesNow, UpkeepConstants DEF NumbersTyped, GroundTyped, CheckTyped, BatchTyped, village, life
<1> QED
  BY <1>6, <1>7, TypesOn

LEMMA MarchTyped == ASSUME VillageTyped, up, NEW u \in Units, March(u) PROVE VillageTyped'
<1>1. Running("web") /\ "web" \in Actors
  BY StepSets DEF March, At, Running
<1>2. task["web"].now \in Time /\ task["web"].now <= clock
  BY <1>1, TypesNow, TaskOf DEF VillageTyped, TaskHeld, Living
<1>3. UNCHANGED <<clock, store, base, check, batch, orders, events, life>> /\ up' = up
  BY DEF March, life
<1>4. Syncs("web", task["web"].now) /\ garrison[u] > 0 /\ garrison' = [garrison EXCEPT ![u] = @ - 1]
  BY DEF March
<1>5. TasksTyped' /\ TaskHeld'
  BY <1>1, <1>2, <1>3, <1>4, SyncsOn
<1>6. garrison' \in Army
  BY <1>4, TypesNow, ArmyLess
<1>7. NumbersTyped' /\ GroundTyped' /\ CheckTyped' /\ BatchTyped'
  BY <1>3, <1>6, TypesNow DEF NumbersTyped, GroundTyped, CheckTyped, BatchTyped, life
<1> QED
  BY <1>5, <1>7, TypesOn

LEMMA BreakOffTyped == ASSUME VillageTyped, up, BreakOff PROVE VillageTyped'
<1>1. Ends("web") /\ UNCHANGED <<clock, village, check, batch, orders, events, life>> /\ up' = up /\ "web" \in Actors
  BY StepSets DEF BreakOff, life
<1>2. TasksTyped' /\ TaskHeld'
  BY <1>1, EndsOn
<1> QED
  BY <1>1, <1>2, OnlyTasks

LEMMA RewardTyped == ASSUME VillageTyped, Reward PROVE VillageTyped'
<1>1. UNCHANGED <<clock, base, check, batch, task, orders, life>> /\ up' = up /\ events < MaxEvents /\ events' = events + 1
  BY DEF Reward, life
<1>2. TasksTyped' /\ TaskHeld'
  BY <1>1, TypesNow, HeldStill
<1>3. store' \in Store /\ garrison' \in Army
  <2>1. CASE store' = [store EXCEPT !.crop = Most(@, Least(Capacity, @ + Load))] /\ garrison' = garrison
    <3>1. store' = Filled(store)
      BY <2>1 DEF Filled
    <3> QED
      BY <2>1, <3>1, TypesNow, StoreChanges
  <2>2. CASE store' = store /\ \E u \in Units : garrison' = [garrison EXCEPT ![u] = @ + 1]
    <3>1. PICK u \in Units : garrison' = [garrison EXCEPT ![u] = @ + 1]
      BY <2>2
    <3> QED
      BY <2>2, <3>1, TypesNow, UpkeepOneMore
  <2> QED
    BY <2>1, <2>2 DEF Reward
<1>4. NumbersTyped' /\ GroundTyped' /\ CheckTyped' /\ BatchTyped'
  BY <1>1, <1>3, TypesNow, UpkeepConstants DEF NumbersTyped, GroundTyped, CheckTyped, BatchTyped, life
<1> QED
  BY <1>2, <1>4, TypesOn

\* What the passes do to the ground.
LEMMA ChangeGround ==
  ASSUME VillageTyped,
         \/ \E b \in Bases : Built(b)
         \/ \E u \in Units : Home(u)
         \/ Delivery
         \/ \E g \in Remnants, loot \in {0, Load} : Battle(g, loot)
  PROVE  GroundTyped' /\ store'.at >= store.at
<1> DEFINE s == SettleTo(store, Net, clock)
<1>1. s \in Store /\ s.at >= store.at /\ store.at \in Int
  BY TypesNow, PresentStore DEF Store, Time
<1> HIDE DEF s
<1>2. ASSUME NEW b \in Bases, Built(b) PROVE GroundTyped' /\ store'.at >= store.at
  BY <1>1, <1>2, TypesNow DEF Built, GroundTyped
<1>3. ASSUME NEW u \in Units, Home(u) PROVE GroundTyped' /\ store'.at >= store.at
  <2>1. garrison' \in Army
    BY <1>3, TypesNow, UpkeepOneMore DEF Home
  <2> QED
    BY <1>1, <1>3, <2>1, TypesNow DEF Home, GroundTyped
<1>4. CASE Delivery
  <2>1. store' = Filled(s) /\ UNCHANGED <<base, garrison>>
    BY <1>4 DEF Delivery, Filled, s
  <2> QED
    BY <1>1, <2>1, TypesNow, StoreChanges DEF GroundTyped
<1>5. ASSUME NEW g \in Remnants, NEW loot \in {0, Load}, Battle(g, loot) PROVE GroundTyped' /\ store'.at >= store.at
  <2>1. store' = Raided(s, loot) /\ garrison' = g /\ base' = base
    BY <1>5 DEF Battle, Raided, s
  <2>2. g \in Army
    <3>1. UpkeepOf(garrison) \in Nat
      BY TypesNow, UpkeepNat
    <3>2. 0 .. UpkeepOf(garrison) \subseteq Nat
      BY <3>1
    <3> QED
      BY <3>2 DEF Remnants, Army
  <2> QED
    BY <1>1, <2>1, <2>2, TypesNow, StoreChanges DEF GroundTyped
<1> QED
  BY <1>2, <1>3, <1>4, <1>5

LEMMA ChangeTyped == ASSUME VillageTyped, up, Change PROVE VillageTyped'
<1>1. UNCHANGED <<clock, check, batch, orders, life>> /\ up' = up /\ events < MaxEvents /\ events' = events + 1
  BY DEF Change, life
<1>2. Syncs("pass", clock) /\ "pass" \in Actors
  BY StepSets DEF Change
<1>3. TasksTyped' /\ TaskHeld'
  BY <1>1, <1>2, TypesNow, SyncsOn
<1>4. GroundTyped'
  BY ChangeGround DEF Change
<1>5. NumbersTyped' /\ CheckTyped' /\ BatchTyped'
  BY <1>1, TypesNow, UpkeepConstants DEF NumbersTyped, CheckTyped, BatchTyped, life
<1> QED
  BY <1>3, <1>4, <1>5, TypesOn

LEMMA OasisChangeTyped == ASSUME VillageTyped, OasisChange PROVE VillageTyped'
<1>1. UNCHANGED <<clock, check, batch, task, orders, life>> /\ up' = up /\ events < MaxEvents /\ events' = events + 1
  BY DEF OasisChange, life
<1>2. TasksTyped' /\ TaskHeld'
  BY <1>1, TypesNow, HeldStill
<1>3. GroundTyped'
  BY ChangeGround DEF OasisChange
<1>4. NumbersTyped' /\ CheckTyped' /\ BatchTyped'
  BY <1>1, TypesNow, UpkeepConstants DEF NumbersTyped, CheckTyped, BatchTyped, life
<1> QED
  BY <1>2, <1>3, <1>4, TypesOn

\* What is finished of a batch by an instant at which a unit is due.
LEMMA FinishedIs ==
  ASSUME NEW b \in Batch, b.done < b.total, NEW t \in Time, NextDue(b) <= t
  PROVE  /\ Finished(b, t) \in Nat /\ b.done < Finished(b, t) /\ Finished(b, t) <= b.total
         /\ b.start + PerUnit * Finished(b, t) \in Time
<1> DEFINE q == (t - b.start) \div PerUnit
<1>1. b.done \in Nat /\ b.total \in Nat /\ b.start \in Nat /\ t \in Nat /\ t <= MaxClock /\ MaxClock \in Nat /\ PerUnit \in Nat \ {0}
  BY UpkeepConstants DEF Batch, Time
<1>2. PerUnit * (b.done + 1) <= t - b.start /\ PerUnit * (b.done + 1) \in Nat
  <2>1. PerUnit * (b.done + 1) \in Nat
    BY <1>1
  <2> QED
    BY <1>1, <2>1 DEF NextDue
<1>3. t - b.start \in Nat
  BY <1>1, <1>2
<1>4. q \in Nat /\ PerUnit * q <= t - b.start /\ t - b.start < PerUnit * q + PerUnit
  BY <1>1, <1>3, DivBounds
<1>5. Finished(b, t) = Least(b.total, q)
  BY DEF Finished
<1> HIDE DEF q
<1>6. PerUnit * q \in Int /\ PerUnit * (q + 1) = PerUnit * q + PerUnit
  BY <1>1, <1>4
<1>7. b.done + 1 <= q
  <2>1. q + 1 <= b.done + 1 => PerUnit * (q + 1) <= PerUnit * (b.done + 1)
    BY <1>1, <1>4, MultMono
  <2> QED
    BY <1>1, <1>2, <1>4, <1>6, <2>1
<1> DEFINE f == Least(b.total, q)
<1>8. f \in Nat /\ b.done < f /\ f <= b.total /\ f <= q
  BY <1>1, <1>4, <1>7 DEF Least
<1> HIDE DEF f
<1>9. PerUnit * f <= PerUnit * q /\ 0 <= PerUnit * f /\ PerUnit * f \in Int
  <2>1. PerUnit * f \in Nat
    BY <1>1, <1>8
  <2> QED
    BY <1>1, <1>4, <1>8, <2>1, MultMono
<1>10. b.start + PerUnit * f \in Time
  BY <1>1, <1>3, <1>4, <1>6, <1>9 DEF Time
<1> QED
  BY <1>5, <1>8, <1>10 DEF f

\* The rows of a batch as it goes on.
Claims(b, c) == [b EXCEPT !.claimed = c]
Counts(b, n) == [b EXCEPT !.done = @ + n, !.claimed = FALSE]
LEMMA BatchGoesOn ==
  ASSUME NEW b \in Batch
  PROVE  /\ \A c \in BOOLEAN : /\ Claims(b, c) \in Batch /\ Claims(b, c).done = b.done /\ Claims(b, c).total = b.total
                               /\ Claims(b, c).start = b.start /\ Claims(b, c) # NoBatch
         /\ \A n \in Nat : Counts(b, n) \in Batch /\ Counts(b, n).done = b.done + n /\ Counts(b, n).total = b.total
<1>1. b = [total |-> b.total, done |-> b.done, start |-> b.start, claimed |-> b.claimed]
  BY DEF Batch
<1>2. b.total \in Nat /\ b.done \in Nat /\ b.start \in Time /\ b.claimed \in BOOLEAN
  BY DEF Batch
<1>3. ASSUME NEW c \in BOOLEAN
      PROVE  /\ Claims(b, c) \in Batch /\ Claims(b, c).done = b.done /\ Claims(b, c).total = b.total
             /\ Claims(b, c).start = b.start /\ Claims(b, c) # NoBatch
  <2>1. Claims(b, c) = [total |-> b.total, done |-> b.done, start |-> b.start, claimed |-> c]
    BY <1>1 DEF Claims
  <2>2. Claims(b, c) \in Batch
    BY <1>2, <2>1 DEF Batch
  <2> QED
    BY <2>1, <2>2, NoRowIsNew
<1>4. ASSUME NEW n \in Nat
      PROVE  Counts(b, n) \in Batch /\ Counts(b, n).done = b.done + n /\ Counts(b, n).total = b.total
  <2>1. Counts(b, n) = [[b EXCEPT !.done = b.done + n] EXCEPT !.claimed = FALSE]
    BY DEF Counts
  <2>2. [b EXCEPT !.done = b.done + n] = [total |-> b.total, done |-> b.done + n, start |-> b.start, claimed |-> b.claimed]
    BY <1>1
  <2>3. Counts(b, n) = [total |-> b.total, done |-> b.done + n, start |-> b.start, claimed |-> FALSE]
    BY <2>1, <2>2
  <2>4. Counts(b, n) \in Batch
    BY <1>2, <2>3 DEF Batch
  <2> QED
    BY <2>3, <2>4
<1> QED
  BY <1>3, <1>4

LEMMA ClaimTrainingTyped == ASSUME VillageTyped, up, ClaimTraining PROVE VillageTyped'
<1> DEFINE t == Blank("batch", clock)
<1>1. "batch" \in Steps
  BY DEF Steps
<1>2. t \in Task /\ t.step = "batch" /\ t.now = clock
  BY <1>1, TypesNow, BlankIn
<1>3. task' = [task EXCEPT !["pass"] = t] /\ batch' = Claims(batch, TRUE)
  BY DEF ClaimTraining, Begins, Claims
<1> HIDE DEF t
<1>4. t.step \in StepsOf("pass") /\ t.now <= clock /\ t.step \notin {"debit", "deliver"} /\ "pass" \in Actors
  BY <1>2, TypesNow, StepSets
<1>5. UNCHANGED <<clock, village, check, orders, events, life>> /\ up' = up
  BY DEF ClaimTraining, life
<1>6. batch \in Batch /\ batch # NoBatch /\ batch.done < batch.total /\ NextDue(batch) <= clock
  BY TypesNow DEF ClaimTraining, BatchTyped
<1>7. /\ batch' \in Batch /\ batch'.done = batch.done /\ batch'.total = batch.total
      /\ batch'.start = batch.start /\ batch' # NoBatch
  BY <1>3, <1>6, BatchGoesOn
<1>8. BatchTyped' /\ NextDue(batch') <= clock
  BY <1>6, <1>7 DEF BatchTyped, NextDue
<1>9. TasksTyped' /\ TaskHeld'
  BY <1>2, <1>3, <1>4, <1>5, <1>7, <1>8, HeldOn
<1>10. NumbersTyped' /\ GroundTyped' /\ CheckTyped'
  BY <1>5, TypesNow DEF NumbersTyped, GroundTyped, CheckTyped, village, life
<1> QED
  BY <1>8, <1>9, <1>10, TypesOn

Counted(t, n, r, s) == [t EXCEPT !.step = "deliver", !.count = n, !.store = r, !.after = s]
LEMMA CountedIn ==
  ASSUME NEW t \in Task, NEW n \in Nat, NEW r \in Store, NEW s \in Store
  PROVE  /\ Counted(t, n, r, s) \in Task /\ Counted(t, n, r, s).step = "deliver" /\ Counted(t, n, r, s).count = n
         /\ Counted(t, n, r, s).now = t.now
<1>1. "deliver" \in Steps
  BY DEF Steps
<1> QED
  BY <1>1, TaskFields DEF Task, Counted

LEMMA ReadBatchTyped == ASSUME VillageTyped, up, ReadBatch PROVE VillageTyped'
<1> DEFINE n == Finished(batch, Reads.now) - batch.done
           s == Pieces(batch, store, base, garrison, n)
           t == Counted(Reads, n, store, s)
<1>1. Running("pass") /\ Reads.step = "batch" /\ "pass" \in Actors
  BY StepSets DEF ReadBatch, At, Running, Reads
<1>2. Reads \in Task /\ Reads.now \in Time /\ Reads.now <= clock
  BY <1>1, TypesNow, TaskOf DEF VillageTyped, TaskHeld, Living, Reads
<1>3. batch \in Batch /\ batch # NoBatch /\ batch.done < batch.total /\ NextDue(batch) <= Reads.now
  BY <1>1, TypesNow DEF VillageTyped, TaskHeld, BatchHeld, BatchTyped
<1>4. n \in Nat /\ batch.start + PerUnit * (batch.done + n) \in Time
  <2>1. batch.done \in Nat
    BY <1>3 DEF Batch
  <2>2. /\ Finished(batch, Reads.now) \in Nat /\ batch.done < Finished(batch, Reads.now)
        /\ batch.start + PerUnit * Finished(batch, Reads.now) \in Time
    BY <1>2, <1>3, FinishedIs
  <2>3. batch.done + n = Finished(batch, Reads.now)
    BY <2>1, <2>2
  <2> QED
    BY <2>1, <2>2, <2>3
<1>5. task' = [task EXCEPT !["pass"] = t]
  BY <1>1, TypesNow DEF ReadBatch, Counted, Reads, TasksTyped
<1> HIDE DEF n
<1>6. s \in Store
  BY <1>3, <1>4, TypesNow, PiecesIn
<1> HIDE DEF s
<1>7. t \in Task /\ t.step = "deliver" /\ t.count = n /\ t.now = Reads.now
  BY <1>2, <1>4, <1>6, TypesNow, CountedIn
<1> HIDE DEF t
<1>8. t.step \in StepsOf("pass") /\ t.now <= clock /\ t.step \notin {"debit"}
  BY <1>2, <1>7, StepSets
<1>9. UNCHANGED <<clock, village, check, batch, orders, events, life>> /\ up' = up
  BY DEF ReadBatch, life
<1>10. batch' # NoBatch /\ NextDue(batch') <= t.now /\ t.count = Finished(batch', t.now) - batch'.done
  BY <1>3, <1>7, <1>9 DEF n
<1>11. TasksTyped' /\ TaskHeld'
  BY <1>1, <1>5, <1>7, <1>8, <1>9, <1>10, HeldOn
<1> QED
  BY <1>9, <1>11, OnlyTasks

LEMMA DeliverTyped == ASSUME VillageTyped, up, Deliver PROVE VillageTyped'
<1> DEFINE t == task["pass"]
<1>1. Running("pass") /\ t.step = "deliver" /\ "pass" \in Actors
  BY StepSets DEF Deliver, At, Running
<1>2. t.after \in Store /\ t.count \in Nat /\ t.now \in Time
  BY <1>1, TypesNow, TaskOf
<1>3. /\ batch \in Batch /\ batch # NoBatch /\ batch.done < batch.total /\ NextDue(batch) <= t.now
      /\ t.count = Finished(batch, t.now) - batch.done
  BY <1>1, TypesNow DEF VillageTyped, TaskHeld, BatchHeld, BatchTyped, Reads
<1>4. batch.done + t.count <= batch.total /\ batch.done \in Nat /\ batch.total \in Nat
  <2>1. batch.done \in Nat /\ batch.total \in Nat
    BY <1>3 DEF Batch
  <2>2. Finished(batch, t.now) \in Nat /\ Finished(batch, t.now) <= batch.total
    BY <1>2, <1>3, FinishedIs
  <2> QED
    BY <1>3, <2>1, <2>2
<1>5. /\ store' = t.after /\ garrison' = [garrison EXCEPT ![Trained] = @ + t.count]
      /\ batch' = IF batch.done + t.count = batch.total THEN NoBatch ELSE Counts(batch, t.count)
      /\ Syncs("pass", clock)
  BY DEF Deliver, Counts
<1>6. UNCHANGED <<clock, base, check, orders, events, life>> /\ up' = up
  BY DEF Deliver, life
<1> HIDE DEF t
<1>7. garrison' \in Army
  <2>1. garrison[Trained] + t.count >= 0 /\ t.count \in Int /\ Trained \in Units
    BY <1>2, TypesNow, UpkeepConstants DEF Army
  <2> QED
    BY <1>5, <2>1, TypesNow, ArmyMore
<1>8. BatchTyped'
  <2>1. CASE batch.done + t.count = batch.total
    BY <1>5, <2>1 DEF BatchTyped
  <2>2. CASE batch.done + t.count # batch.total
    <3>1. batch' \in Batch /\ batch'.done = batch.done + t.count /\ batch'.total = batch.total
      BY <1>2, <1>3, <1>5, <2>2, BatchGoesOn
    <3> QED
      BY <1>2, <1>4, <2>2, <3>1 DEF BatchTyped
  <2> QED
    BY <2>1, <2>2
<1>9. TasksTyped' /\ TaskHeld'
  BY <1>1, <1>5, <1>6, TypesNow, SyncsOn
<1>10. NumbersTyped' /\ GroundTyped' /\ CheckTyped'
  BY <1>2, <1>5, <1>6, <1>7, TypesNow DEF NumbersTyped, GroundTyped, CheckTyped, life
<1> QED
  BY <1>8, <1>9, <1>10, TypesOn

LEMMA ReleaseTyped == ASSUME VillageTyped, up, Release PROVE VillageTyped'
<1>1. Running("pass") /\ Reads.step = "deliver" /\ "pass" \in Actors
  BY StepSets DEF Release, At, Running, Reads
<1>2. batch \in Batch /\ batch # NoBatch /\ batch.done < batch.total
  BY <1>1, TypesNow DEF VillageTyped, TaskHeld, BatchHeld, BatchTyped
<1>3. batch' = Claims(batch, FALSE) /\ Ends("pass") /\ UNCHANGED <<clock, village, check, orders, events, life>> /\ up' = up
  BY DEF Release, Claims, life
<1>4. BatchTyped'
  <2>1. batch' \in Batch /\ batch'.done = batch.done /\ batch'.total = batch.total
    BY <1>2, <1>3, BatchGoesOn
  <2> QED
    BY <1>2, <2>1 DEF BatchTyped
<1>5. TasksTyped' /\ TaskHeld'
  BY <1>1, <1>3, EndsOn
<1>6. NumbersTyped' /\ GroundTyped' /\ CheckTyped'
  BY <1>3, TypesNow DEF NumbersTyped, GroundTyped, CheckTyped, village, life
<1> QED
  BY <1>4, <1>5, <1>6, TypesOn

\* The row of a check as its status moves on.
Marked(c, status) == [c EXCEPT !.status = status]
LEMMA CheckGoesOn ==
  ASSUME NEW c \in Check, NEW status \in {"pending", "processing", "done"}
  PROVE  Marked(c, status) \in Check /\ Marked(c, status).due = c.due /\ Marked(c, status).status = status
BY DEF Check, Marked

LEMMA StarveReadsTyped == ASSUME VillageTyped, up, StarveReads PROVE VillageTyped'
<1>1. Running("pass") /\ "pass" \in Actors /\ TasksTyped
  BY StepSets, TypesNow DEF StarveReads, At, Running
<1>2. Reads \in Task /\ Reads.now <= clock
  BY <1>1, TaskOf DEF VillageTyped, TaskHeld, Living, Reads
<1>3. UNCHANGED <<clock, village, check, batch, orders, events, life>> /\ up' = up
  BY DEF StarveReads, life
<1>4. Starves \subseteq Steps /\ "starve_garrison" \in Starves /\ "starve_store" \in Starves /\ "starve" \in Starves
  BY StepSets DEF Starves
<1>5. ASSUME NEW t \in Task, t.step \in Starves, t.now = Reads.now, task' = [task EXCEPT !["pass"] = t]
      PROVE  VillageTyped'
  <2>1. TasksTyped' /\ TaskHeld'
    BY <1>1, <1>2, <1>3, <1>5, MovesOn
  <2> QED
    BY <1>3, <2>1, OnlyTasks
<1>6. CASE task' = [task EXCEPT !["pass"].base = base, !["pass"].step = "starve_garrison"]
  <2> DEFINE n == WithBase(Reads, base, "starve_garrison")
  <2>1. task' = [task EXCEPT !["pass"] = n]
    BY <1>1, <1>6 DEF TasksTyped, WithBase, Reads
  <2>2. n \in Task /\ n.step \in Starves /\ n.now = Reads.now
    BY <1>2, <1>4, TypesNow, ReadsBase
  <2> HIDE DEF n
  <2> QED
    BY <1>5, <2>1, <2>2
<1>7. CASE task' = [task EXCEPT !["pass"].troops = garrison, !["pass"].step = "starve_store"]
  <2> DEFINE n == WithTroops(Reads, garrison, "starve_store")
  <2>1. task' = [task EXCEPT !["pass"] = n]
    BY <1>1, <1>7 DEF TasksTyped, WithTroops, Reads
  <2>2. n \in Task /\ n.step \in Starves /\ n.now = Reads.now
    BY <1>2, <1>4, TypesNow, ReadsTroops
  <2> HIDE DEF n
  <2> QED
    BY <1>5, <2>1, <2>2
<1>8. CASE task' = [task EXCEPT !["pass"].store = store, !["pass"].step = "starve"]
  <2> DEFINE n == WithStore(Reads, store, "starve")
  <2>1. task' = [task EXCEPT !["pass"] = n]
    BY <1>1, <1>8 DEF TasksTyped, WithStore, Reads
  <2>2. n \in Task /\ n.step \in Starves /\ n.now = Reads.now
    BY <1>2, <1>4, TypesNow, ReadsStore
  <2> HIDE DEF n
  <2> QED
    BY <1>5, <2>1, <2>2
<1> QED
  BY <1>6, <1>7, <1>8 DEF StarveReads

LEMMA ClaimStarvationTyped == ASSUME VillageTyped, up, ClaimStarvation PROVE VillageTyped'
<1> DEFINE t == Blank("starve_village", clock)
<1>1. "starve_village" \in Steps /\ "starve_village" \in Starves /\ "pass" \in Actors
  BY StepSets DEF Steps, Starves
<1>2. t \in Task /\ t.step = "starve_village" /\ t.now = clock
  BY <1>1, TypesNow, BlankIn
<1>3. task' = [task EXCEPT !["pass"] = t] /\ check' = Marked(check, "processing") /\ check # NoCheck
  BY DEF ClaimStarvation, Begins, Marked
<1> HIDE DEF t
<1>4. UNCHANGED <<clock, village, batch, orders, events, life>> /\ up' = up
  BY DEF ClaimStarvation, life
<1>5. t.now <= clock /\ t.step \in Starves
  BY <1>1, <1>2, TypesNow
<1>6. TasksTyped' /\ TaskHeld'
  BY <1>1, <1>2, <1>3, <1>4, <1>5, MovesOn
<1>7. CheckTyped'
  BY <1>3, TypesNow, CheckGoesOn DEF CheckTyped
<1>8. NumbersTyped' /\ GroundTyped' /\ BatchTyped'
  BY <1>4, TypesNow DEF NumbersTyped, GroundTyped, BatchTyped, village, life
<1> QED
  BY <1>6, <1>7, <1>8, TypesOn

\* What the pass has read to resolve a check.
LEMMA ReadsTyped ==
  ASSUME VillageTyped, Running("pass")
  PROVE  /\ Reads.troops \in Army /\ Reads.base \in Bases /\ Reads.base \in Int /\ Reads.store \in Store
         /\ Reads.now \in Time /\ Reads.now \in Nat /\ Reads.now <= clock /\ up
         /\ ReadNet \in Int /\ ReadCrop \in 0 .. Capacity /\ ReadCrop \in Nat
         /\ ReadNet < 0 => Depletion(ReadCrop, ReadNet) \in Nat
<1>1. "pass" \in Actors
  BY StepSets
<1>2. /\ Reads.troops \in Army /\ Reads.base \in Bases /\ Reads.base \in Int /\ Reads.store \in Store
      /\ Reads.now \in Time /\ Reads.now \in Nat /\ Reads.now <= clock /\ up
  BY <1>1, TypesNow, TaskOf, UpkeepConstants DEF VillageTyped, TaskHeld, Living, Reads
<1>3. ReadNet \in Int
  BY <1>2, UpkeepNat DEF ReadNet
<1>4. ReadCrop \in 0 .. Capacity
  BY <1>2, <1>3, SettledIn DEF ReadCrop
<1>5. ReadCrop \in Nat
  BY <1>4, UpkeepConstants
<1> QED
  BY <1>2, <1>3, <1>4, <1>5, DepletionNat

LEMMA ResolvedTyped ==
  ASSUME CheckTyped, NEW row, Resolved(row), check # NoCheck => row \in Check
  PROVE  CheckTyped'
BY DEF CheckTyped, Resolved

LEMMA StarvedTyped ==
  ASSUME VillageTyped, up, Recovered \/ NotYet \/ Cull \/ CullConflict
  PROVE  VillageTyped'
<1>1. Running("pass") /\ "pass" \in Actors /\ Ends("pass") /\ UNCHANGED <<clock, base, batch, orders, events, life>> /\ up' = up
  BY StepSets DEF Recovered, NotYet, Cull, CullConflict, Starving, At, Running, village, life
<1>2. TasksTyped' /\ TaskHeld'
  BY <1>1, EndsOn
<1>3. NumbersTyped' /\ BatchTyped'
  BY <1>1, TypesNow DEF NumbersTyped, BatchTyped, life
<1>4. CheckTyped'
  <2>1. CASE Recovered \/ Cull
    <3>1. Resolved(Marked(check, "done"))
      BY <2>1 DEF Recovered, Cull, Marked
    <3>2. check # NoCheck => Marked(check, "done") \in Check
      BY TypesNow, CheckGoesOn DEF CheckTyped
    <3> QED
      BY <3>1, <3>2, TypesNow, ResolvedTyped
  <2>2. CASE NotYet
    <3> DEFINE row == [due |-> Reads.now + Depletion(ReadCrop, ReadNet), status |-> "pending"]
    <3>1. Resolved(row) /\ ReadNet < 0
      BY <2>2 DEF NotYet
    <3>2. row \in Check
      BY <1>1, <3>1, ReadsTyped DEF Check
    <3> QED
      BY <3>1, <3>2, TypesNow, ResolvedTyped
  <2>3. CASE CullConflict
    <3> DEFINE row == [due |-> Reads.now, status |-> "pending"]
    <3>1. Resolved(row)
      BY <2>3 DEF CullConflict
    <3>2. row \in Check
      BY <1>1, ReadsTyped DEF Check
    <3> QED
      BY <3>1, <3>2, TypesNow, ResolvedTyped
  <2> QED
    BY <2>1, <2>2, <2>3
<1>5. GroundTyped'
  <2>1. CASE Cull
    <3>1. store' = SettleTo(Reads.store, ReadNet, Reads.now) /\ garrison' = Starved(Reads.troops, Reads.base)
      BY <2>1 DEF Cull
    <3>2. store' \in Store
      BY <1>1, <3>1, ReadsTyped, SettleToIn
    <3>3. garrison' \in Army
      BY <1>1, <3>1, ReadsTyped, StarvedIn
    <3> QED
      BY <1>1, <3>2, <3>3, TypesNow DEF GroundTyped
  <2>2. CASE ~Cull
    <3>1. UNCHANGED village
      BY <2>2 DEF Recovered, NotYet, CullConflict
    <3> QED
      BY <3>1, TypesNow DEF GroundTyped, village
  <2> QED
    BY <2>1, <2>2
<1> QED
  BY <1>2, <1>3, <1>4, <1>5, TypesOn

LEMMA TickTyped == ASSUME VillageTyped, Tick PROVE VillageTyped'
<1>1. UNCHANGED <<village, check, batch, task, orders, events, life>> /\ up' = up /\ clock' = clock + 1 /\ clock < MaxClock
  BY DEF Tick, life
<1>2. clock' \in Time /\ clock' \in Int /\ clock <= clock'
  BY <1>1, TypesNow, UpkeepConstants DEF Time
<1>3. TasksTyped' /\ TaskHeld'
  BY <1>1, <1>2, HeldStill
<1>4. NumbersTyped' /\ GroundTyped' /\ CheckTyped' /\ BatchTyped'
  BY <1>1, <1>2, TypesNow DEF NumbersTyped, GroundTyped, CheckTyped, BatchTyped, village, life
<1> QED
  BY <1>3, <1>4, TypesOn

\* In a process that has just come up, or is gone, nobody does anything.
LEMMA HeldIdle ==
  ASSUME task' = [a \in Actors |-> Idle]
  PROVE  TasksTyped' /\ TaskHeld' /\ \A a \in Actors : ~Running(a)'
BY StepSets DEF TasksTyped, TaskHeld, Living, DebitForward, BatchHeld, Running, At

LEMMA DownIdle ==
  ASSUME VillageTyped, ~up
  PROVE  task = [a \in Actors |-> Idle]
<1>1. \A a \in Actors : task[a] = Idle
  BY DEF VillageTyped, TaskHeld, Living, Running
<1> QED
  BY <1>1, TypesNow DEF TasksTyped

LEMMA CrashTyped == ASSUME VillageTyped, Crash PROVE VillageTyped'
<1>1. TasksTyped' /\ TaskHeld'
  BY HeldIdle DEF Crash
<1>2. UNCHANGED <<clock, village, check, batch, orders, events>>
  BY DEF Crash
<1>3. up' = FALSE /\ crashes < MaxCrashes /\ crashes' = crashes + 1
  BY DEF Crash
<1>4. NumbersTyped'
  <2>1. up' \in BOOLEAN
    BY <1>3
  <2>2. crashes' \in 0 .. MaxCrashes
    BY <1>3, TypesNow, UpkeepConstants DEF NumbersTyped
  <2> QED
    BY <1>2, <2>1, <2>2, TypesNow DEF NumbersTyped
<1>5. GroundTyped' /\ CheckTyped' /\ BatchTyped'
  BY <1>2, TypesNow DEF GroundTyped, CheckTyped, BatchTyped, village
<1> QED
  BY <1>1, <1>4, <1>5, TypesOn

LEMMA RestartTyped == ASSUME VillageTyped, Restart PROVE VillageTyped'
<1>1. ~up /\ up' = TRUE /\ UNCHANGED <<clock, village, task, orders, events, crashes>>
  BY DEF Restart
<1>2. TasksTyped' /\ TaskHeld'
  BY <1>1, DownIdle, HeldIdle
<1>3. BatchTyped'
  <2>1. batch' = IF batch = NoBatch THEN NoBatch ELSE Claims(batch, FALSE)
    BY DEF Restart, RequeueBatch, Claims
  <2>2. CASE batch = NoBatch
    BY <2>1, <2>2 DEF BatchTyped
  <2>3. CASE batch # NoBatch
    <3>1. batch \in Batch /\ batch.done < batch.total
      BY <2>3, TypesNow DEF BatchTyped
    <3>2. batch' \in Batch /\ batch'.done = batch.done /\ batch'.total = batch.total
      BY <2>1, <2>3, <3>1, BatchGoesOn
    <3> QED
      BY <3>1, <3>2 DEF BatchTyped
  <2> QED
    BY <2>2, <2>3
<1>4. CheckTyped'
  <2>1. check' = IF check # NoCheck /\ check.status = "processing" THEN Marked(check, "pending") ELSE check
    BY DEF Restart, Marked
  <2> QED
    BY <2>1, TypesNow, CheckGoesOn DEF CheckTyped
<1>5. NumbersTyped' /\ GroundTyped'
  BY <1>1, TypesNow DEF NumbersTyped, GroundTyped, village
<1> QED
  BY <1>2, <1>3, <1>4, <1>5, TypesOn

LEMMA VillageStep == ASSUME VillageTyped, [Next]_vars PROVE VillageTyped'
<1>1. CASE up /\ \E train, synced \in BOOLEAN : Order(train, synced)
  BY <1>1, OrderTyped
<1>2. CASE up /\ Debit
  BY <1>2, DebitTyped
<1>3. CASE up /\ AskMarch
  BY <1>3, AskMarchTyped
<1>4. CASE up /\ \E u \in Units : March(u)
  BY <1>4, MarchTyped
<1>5. CASE BreakOff /\ up
  BY <1>5, BreakOffTyped
<1>6. CASE Reward
  BY <1>6, RewardTyped
<1>7. CASE up /\ (Sync("web") \/ Sync("pass"))
  BY <1>7, SyncTyped, StepSets
<1>8. CASE up /\ Change
  BY <1>8, ChangeTyped
<1>9. CASE OasisChange
  BY <1>9, OasisChangeTyped
<1>10. CASE up /\ ClaimTraining
  BY <1>10, ClaimTrainingTyped
<1>11. CASE up /\ ReadBatch
  BY <1>11, ReadBatchTyped
<1>12. CASE up /\ Deliver
  BY <1>12, DeliverTyped
<1>13. CASE up /\ Release
  BY <1>13, ReleaseTyped
<1>14. CASE up /\ ClaimStarvation
  BY <1>14, ClaimStarvationTyped
<1>15. CASE up /\ StarveReads
  BY <1>15, StarveReadsTyped
<1>16. CASE up /\ (Recovered \/ NotYet \/ Cull \/ CullConflict)
  BY <1>16, StarvedTyped
<1>17. CASE Tick
  BY <1>17, TickTyped
<1>18. CASE Crash
  BY <1>18, CrashTyped
<1>19. CASE Restart
  BY <1>19, RestartTyped
<1>20. CASE UNCHANGED vars
  <2>1. UNCHANGED <<clock, village, check, batch, task, orders, events, life>> /\ up' = up
    BY <1>20 DEF vars, village, life
  <2>2. TasksTyped' /\ TaskHeld'
    BY <2>1, TypesNow, HeldStill
  <2> QED
    BY <2>1, <2>2, OnlyTasks
<1> QED
  BY <1>1, <1>2, <1>3, <1>4, <1>5, <1>6, <1>7, <1>8, <1>9, <1>10, <1>11, <1>12, <1>13, <1>14, <1>15, <1>16,
     <1>17, <1>18, <1>19, <1>20 DEF Next, Web, Answer, Scheduler, World

\* Every variable of the village keeps its type; a batch that is open has units left to deliver, and no more
\* than were ordered: no pass delivers more than is finished, however late it comes.
THEOREM VillageTypeCorrect == Spec => []TypeOK
<1>1. Init => VillageTyped
  BY InitVillage
<1>2. VillageTyped /\ [Next]_vars => VillageTyped'
  BY VillageStep
<1>3. VillageTyped => TypeOK
  BY DEF VillageTyped
<1> QED
  BY <1>1, <1>2, <1>3, PTL DEF Spec

\* The same of both parts side by side, in every history of either: quiet or not.
THEOREM HoldingsTypes == Spec /\ FieldSpec => []TypesOK
<1>1. TypeOK /\ FieldTypeOK => TypesOK
  BY DEF TypesOK
<1> QED
  BY <1>1, VillageTypeCorrect, FieldTypeCorrect, PTL

\* The histories of the composition, quiet ones of both, are among them.
LEMMA HoldingsIsBoth == HoldingsSpec => Spec /\ FieldSpec
<1> DEFINE N == Village(Next) \/ Field(FieldNext)
<1>1. HoldingsInit => Init /\ FieldInit
  BY DEF HoldingsInit
<1>2. [N]_all => [Next]_vars /\ [FieldNext]_fieldVars
  BY DEF all, Village, Field, vars, fieldVars
<1> QED
  BY <1>1, <1>2, PTL DEF HoldingsSpec, Spec, FieldSpec

-----------------------------------------------------------------------------
(* Upkeep: a quiet history *)

NobodyOwed == \A a \in Actors : ~Owed(a)
\* What a re-sync has read is still so.
ReadSo(a) == task[a].step # "sync_garrison" =>
  /\ task[a].troops = garrison
  /\ task[a].step \in {"sync_store", "sync_write"} => task[a].base = base
  /\ task[a].step = "sync_write" => task[a].store = store
SyncReads == Draining => \A a \in Actors : Owed(a) => ReadSo(a)
\* What the starvation pass has read is still so: of the store at least while its stamp stands, and
\* altogether while the army is in want and no request has yet to make its re-sync.
StarveSo == Running("pass") =>
  /\ Reads.step \in {"starve_garrison", "starve_store", "starve"} => Reads.base = base
  /\ Reads.step \in {"starve_store", "starve"} => Reads.troops = garrison
  /\ Reads.step = "starve" => /\ Reads.store.at <= store.at
                              /\ Reads.store.at = store.at => Reads.store = store
                              /\ Draining /\ ~Owed("web") => Reads.store = store
\* Watched, whatever the pass is at.
Kept == Draining /\ NobodyOwed =>
  /\ check # NoCheck /\ check.status \in {"pending", "processing"}
  /\ check.due <= Most(clock, store.at + Depletion(store.crop, Net))
VillageQuiet == VillageTyped /\ SyncReads /\ StarveSo /\ Kept

\* A check that is written from the store as it stands is due no later than the granary is empty.
LEMMA DueBound ==
  ASSUME NEW s \in Store, NEW net \in Int, net < 0, NEW now \in Nat, NEW c \in Int, now <= c
  PROVE  now + Depletion(Settled(s, net, now), net) <= Most(c, s.at + Depletion(s.crop, net))
<1> DEFINE k == -net
           e == Most(0, now - s.at)
           d == Ceil(s.crop, k)
<1>1. s.crop \in Nat /\ s.crop <= Capacity /\ s.at \in Nat /\ Capacity \in Nat
  BY 0 \in Int, SettledIn, UpkeepConstants
<1>2. k \in Nat \ {0} /\ e \in Nat /\ (now <= s.at => e = 0) /\ (now > s.at => e = now - s.at)
  BY <1>1 DEF Most
<1>3. d \in Nat /\ Depletion(s.crop, net) = d
  BY <1>1, <1>2, CeilBounds DEF Depletion
<1>4. net * e = -(k * e) /\ k * e \in Nat
  <2>1. k * e \in Nat
    BY <1>2
  <2>2. net * e = -((-net) * e)
    BY <1>2
  <2> QED
    BY <2>1, <2>2
<1>5. Settled(s, net, now) = Most(0, Least(Capacity, s.crop + net * e))
  BY DEF Settled
<1> HIDE DEF e, d
<1>6. CASE s.crop - k * e >= 0
  <2>1. s.crop - k * e \in Nat /\ net * e \in Int
    BY <1>1, <1>4, <1>6
  <2>2. Settled(s, net, now) = s.crop - k * e
    BY <1>1, <1>4, <1>5, <1>6, <2>1 DEF Most, Least
  <2>3. Ceil(s.crop - k * e, k) = d - e
    BY <1>1, <1>2, <2>1, CeilLess DEF d
  <2>4. Depletion(Settled(s, net, now), net) = d - e
    BY <2>2, <2>3 DEF Depletion
  <2>5. now + (d - e) <= s.at + d
    BY <1>1, <1>2, <1>3
  <2> HIDE DEF k
  <2> QED
    BY <1>1, <1>2, <1>3, <2>4, <2>5 DEF Most
<1>7. CASE s.crop - k * e < 0
  <2>1. Settled(s, net, now) = 0
    <3>1. net * e \in Int /\ s.crop + net * e < 0
      BY <1>1, <1>4, <1>7
    <3> QED
      BY <1>1, <1>5, <3>1 DEF Most, Least
  <2>2. Depletion(Settled(s, net, now), net) = 0
    BY <1>2, <2>1, CeilBounds DEF Depletion
  <2> HIDE DEF k
  <2> QED
    BY <1>1, <1>3, <2>2 DEF Most
<1> QED
  BY <1>1, <1>4, <1>6, <1>7

\* Where nothing comes in, a granary that is empty stays empty.
LEMMA SettledFalls ==
  ASSUME NEW s \in Store, NEW net \in Int, net < 0, NEW t \in Nat, NEW r \in Nat, t <= r, Settled(s, net, t) = 0
  PROVE  Settled(s, net, r) = 0
<1> DEFINE k == -net
           e == Most(0, t - s.at)
           f == Most(0, r - s.at)
<1>1. s.crop \in Nat /\ s.crop <= Capacity /\ s.at \in Nat /\ Capacity \in Nat
  BY 0 \in Int, SettledIn, UpkeepConstants
<1>2. k \in Nat /\ e \in Nat /\ f \in Nat /\ e <= f
  BY <1>1 DEF Most
<1>3. k * e <= k * f /\ k * e \in Nat /\ k * f \in Nat
  BY <1>2, MultMono
<1>4. net * e = -(k * e) /\ net * f = -(k * f)
  <2>1. net * e = -((-net) * e) /\ net * f = -((-net) * f)
    BY <1>2
  <2> QED
    BY <2>1
<1>5. Settled(s, net, t) = Most(0, Least(Capacity, s.crop + net * e)) /\ Settled(s, net, r) = Most(0, Least(Capacity, s.crop + net * f))
  BY DEF Settled
<1> HIDE DEF e, f, k
<1>6. s.crop + net * f <= s.crop + net * e /\ net * f \in Int /\ net * e \in Int
  BY <1>1, <1>3, <1>4
<1> QED
  BY <1>1, <1>5, <1>6 DEF Most, Least

\* What the steps leave alone of clock, village and check.
LEMMA Frames ==
  /\ \A train, synced \in BOOLEAN : Order(train, synced) => UNCHANGED <<clock, village, check>>
  /\ AskMarch \/ BreakOff => UNCHANGED <<clock, village, check>>
  /\ \A a \in Actors : SyncGarrison(a) \/ SyncVillage(a) \/ SyncStore(a) => UNCHANGED <<clock, village, check>>
  /\ \A a \in Actors : SyncWrite(a) => UNCHANGED <<clock, village>>
  /\ ClaimTraining \/ ReadBatch \/ Release \/ StarveReads => UNCHANGED <<clock, village, check>>
  /\ ClaimStarvation \/ Recovered \/ NotYet \/ CullConflict => UNCHANGED <<clock, village>>
  /\ Cull => clock' = clock
  /\ Debit \/ Reward \/ Change \/ OasisChange \/ Deliver => UNCHANGED <<clock, check>>
  /\ \A u \in Units : March(u) => UNCHANGED <<clock, check>>
  /\ Tick => UNCHANGED <<village, check>> /\ clock' = clock + 1
  /\ Crash => UNCHANGED <<clock, village, check>>
  /\ Restart => UNCHANGED <<clock, village>>
<1>1. \A train, synced \in BOOLEAN : Order(train, synced) => UNCHANGED <<clock, village, check>>
  BY DEF Order
<1>2. AskMarch \/ BreakOff => UNCHANGED <<clock, village, check>>
  BY DEF AskMarch, BreakOff
<1>3. \A a \in Actors : SyncGarrison(a) \/ SyncVillage(a) \/ SyncStore(a) => UNCHANGED <<clock, village, check>>
  BY DEF SyncGarrison, SyncVillage, SyncStore
<1>4. \A a \in Actors : SyncWrite(a) => UNCHANGED <<clock, village>>
  BY DEF SyncWrite
<1>5. ClaimTraining \/ ReadBatch \/ Release \/ StarveReads => UNCHANGED <<clock, village, check>>
  BY DEF ClaimTraining, ReadBatch, Release, StarveReads
<1>6. ClaimStarvation \/ Recovered \/ NotYet \/ CullConflict => UNCHANGED <<clock, village>>
  BY DEF ClaimStarvation, Recovered, NotYet, CullConflict
<1>7. Cull => clock' = clock
  BY DEF Cull
<1>8. Debit \/ Reward \/ Change \/ OasisChange \/ Deliver => UNCHANGED <<clock, check>>
  BY DEF Debit, Reward, Change, OasisChange, Deliver
<1>9. \A u \in Units : March(u) => UNCHANGED <<clock, check>>
  BY DEF March
<1>10. Tick => UNCHANGED <<village, check>> /\ clock' = clock + 1
  BY DEF Tick
<1>11. Crash => UNCHANGED <<clock, village, check>>
  BY DEF Crash
<1>12. Restart => UNCHANGED <<clock, village>>
  BY DEF Restart
<1> QED
  BY <1>1, <1>2, <1>3, <1>4, <1>5, <1>6, <1>7, <1>8, <1>9, <1>10, <1>11, <1>12

\* Who changes the village.
LEMMA VillageMoves ==
  ASSUME Next, village' # village
  PROVE  Debit \/ (\E u \in Units : March(u)) \/ Reward \/ Change \/ OasisChange \/ Deliver \/ Cull
BY Frames, StepSets DEF Next, Web, Answer, Scheduler, World, Sync

\* Who changes the check.
LEMMA CheckMoves ==
  ASSUME Next, check' # check
  PROVE  \/ \E a \in Actors : SyncWrite(a)
         \/ ClaimStarvation \/ Recovered \/ NotYet \/ Cull \/ CullConflict \/ Restart
BY Frames, StepSets DEF Next, Web, Answer, Scheduler, World, Sync

LEMMA ClockGoesOn == ASSUME VillageTyped, [Next]_vars PROVE clock' \in Int /\ clock <= clock'
<1>1. Next => clock' = clock \/ clock' = clock + 1
  BY Frames, StepSets DEF Next, Web, Answer, Scheduler, World, Sync
<1>2. clock' = clock \/ clock' = clock + 1
  BY <1>1 DEF vars
<1> QED
  BY <1>2, TypesNow

\* What the reads of a re-sync make of its task.
LEMMA SyncReading ==
  ASSUME VillageTyped, NEW a \in Actors
  PROVE  /\ SyncGarrison(a) =>
              /\ Owed(a) /\ Owed(a)' /\ task'[a].troops = garrison
              /\ task'[a].step = IF garrison = NoTroops THEN "sync_write" ELSE "sync_village"
         /\ SyncVillage(a) =>
              /\ Owed(a) /\ Owed(a)' /\ task'[a].base = base /\ task'[a].troops = task[a].troops
              /\ task[a].step = "sync_village" /\ task'[a].step = "sync_store"
         /\ SyncStore(a) =>
              /\ Owed(a) /\ Owed(a)' /\ task'[a].store = store /\ task'[a].base = task[a].base
              /\ task'[a].troops = task[a].troops /\ task[a].step = "sync_store" /\ task'[a].step = "sync_write"
<1> DEFINE t == task[a]
<1>1. TasksTyped /\ (Running(a) => t \in Task)
  BY TypesNow, TaskOf
<1>2. ASSUME SyncGarrison(a)
      PROVE  /\ Owed(a) /\ Owed(a)' /\ task'[a].troops = garrison
             /\ task'[a].step = IF garrison = NoTroops THEN "sync_write" ELSE "sync_village"
  <2> DEFINE s == IF garrison = NoTroops THEN "sync_write" ELSE "sync_village"
             n == WithTroops(t, garrison, s)
  <2>1. task' = [task EXCEPT ![a] = n] /\ t \in Task /\ Owed(a)
    BY <1>1, <1>2 DEF SyncGarrison, TasksTyped, WithTroops, At, Running, Owed, Syncing
  <2>2. s \in Steps /\ s \in Syncing
    BY DEF Steps, Syncing
  <2>3. n \in Task /\ n.troops = garrison /\ n.step = s /\ n # Idle
    BY <2>1, <2>2, TypesNow, ReadsTroops
  <2>4. task'[a] = n
    BY <1>1, <2>1 DEF TasksTyped
  <2> HIDE DEF n
  <2> QED
    BY <2>1, <2>2, <2>3, <2>4 DEF Owed
<1>3. ASSUME SyncVillage(a)
      PROVE  /\ Owed(a) /\ Owed(a)' /\ task'[a].base = base /\ task'[a].troops = task[a].troops
             /\ task[a].step = "sync_village" /\ task'[a].step = "sync_store"
  <2> DEFINE n == WithBase(t, base, "sync_store")
  <2>1. task' = [task EXCEPT ![a] = n] /\ t \in Task /\ Owed(a) /\ t.step = "sync_village"
    BY <1>1, <1>3 DEF SyncVillage, TasksTyped, WithBase, At, Running, Owed, Syncing
  <2>2. "sync_store" \in Steps /\ "sync_store" \in Syncing
    BY DEF Steps, Syncing
  <2>3. n \in Task /\ n.base = base /\ n.troops = t.troops /\ n.step = "sync_store" /\ n # Idle
    BY <2>1, <2>2, TypesNow, ReadsBase
  <2>4. task'[a] = n
    BY <1>1, <2>1 DEF TasksTyped
  <2> HIDE DEF n
  <2> QED
    BY <2>1, <2>2, <2>3, <2>4 DEF Owed
<1>4. ASSUME SyncStore(a)
      PROVE  /\ Owed(a) /\ Owed(a)' /\ task'[a].store = store /\ task'[a].base = task[a].base
             /\ task'[a].troops = task[a].troops /\ task[a].step = "sync_store" /\ task'[a].step = "sync_write"
  <2> DEFINE n == WithStore(t, store, "sync_write")
  <2>1. task' = [task EXCEPT ![a] = n] /\ t \in Task /\ Owed(a) /\ t.step = "sync_store"
    BY <1>1, <1>4 DEF SyncStore, TasksTyped, WithStore, At, Running, Owed, Syncing
  <2>2. "sync_write" \in Steps /\ "sync_write" \in Syncing
    BY DEF Steps, Syncing
  <2>3. n \in Task /\ n.store = store /\ n.troops = t.troops /\ n.base = t.base /\ n.step = "sync_write" /\ n # Idle
    BY <2>1, <2>2, TypesNow, ReadsStore
  <2>4. task'[a] = n
    BY <1>1, <2>1 DEF TasksTyped
  <2> HIDE DEF n
  <2> QED
    BY <2>1, <2>2, <2>3, <2>4 DEF Owed
<1> QED
  BY <1>2, <1>3, <1>4

\* The same of the starvation pass.
LEMMA StarveReading ==
  ASSUME VillageTyped, StarveReads
  PROVE  /\ village' = village /\ Reads' # Idle
         /\ \/ /\ Reads.step = "starve_village" /\ Reads'.step = "starve_garrison" /\ Reads'.base = base
            \/ /\ Reads.step = "starve_garrison" /\ Reads'.step = "starve_store"
               /\ Reads'.troops = garrison /\ Reads'.base = Reads.base
            \/ /\ Reads.step = "starve_store" /\ Reads'.step = "starve"
               /\ Reads'.store = store /\ Reads'.base = Reads.base /\ Reads'.troops = Reads.troops
<1>1. Running("pass") /\ "pass" \in Actors /\ TasksTyped /\ village' = village
  BY StepSets, TypesNow DEF StarveReads, At, Running
<1>2. Reads \in Task
  BY <1>1, TaskOf DEF Reads
<1>3. "starve_garrison" \in Steps /\ "starve_store" \in Steps /\ "starve" \in Steps
  BY DEF Steps
<1>4. CASE At("pass", "starve_village") /\ task' = [task EXCEPT !["pass"].base = base, !["pass"].step = "starve_garrison"]
  <2> DEFINE n == WithBase(Reads, base, "starve_garrison")
  <2>1. Reads' = n /\ Reads.step = "starve_village"
    BY <1>1, <1>4 DEF TasksTyped, WithBase, Reads, At
  <2>2. n \in Task /\ n.base = base /\ n.step = "starve_garrison" /\ n # Idle
    BY <1>2, <1>3, TypesNow, ReadsBase
  <2> HIDE DEF n
  <2> QED
    BY <1>1, <2>1, <2>2
<1>5. CASE At("pass", "starve_garrison") /\ task' = [task EXCEPT !["pass"].troops = garrison, !["pass"].step = "starve_store"]
  <2> DEFINE n == WithTroops(Reads, garrison, "starve_store")
  <2>1. Reads' = n /\ Reads.step = "starve_garrison"
    BY <1>1, <1>5 DEF TasksTyped, WithTroops, Reads, At
  <2>2. n \in Task /\ n.troops = garrison /\ n.base = Reads.base /\ n.step = "starve_store" /\ n # Idle
    BY <1>2, <1>3, TypesNow, ReadsTroops
  <2> HIDE DEF n
  <2> QED
    BY <1>1, <2>1, <2>2
<1>6. CASE At("pass", "starve_store") /\ task' = [task EXCEPT !["pass"].store = store, !["pass"].step = "starve"]
  <2> DEFINE n == WithStore(Reads, store, "starve")
  <2>1. Reads' = n /\ Reads.step = "starve_store"
    BY <1>1, <1>6 DEF TasksTyped, WithStore, Reads, At
  <2>2. /\ n \in Task /\ n.store = store /\ n.base = Reads.base /\ n.troops = Reads.troops
        /\ n.step = "starve" /\ n # Idle
    BY <1>2, <1>3, TypesNow, ReadsStore
  <2> HIDE DEF n
  <2> QED
    BY <1>1, <2>1, <2>2
<1> QED
  BY <1>4, <1>5, <1>6 DEF StarveReads

\* The steps at which a task may begin.
Fresh == {"sync_garrison", "debit", "march", "batch", "starve_village"}
Turns(a) ==
  \/ task'[a] = task[a]
  \/ task'[a] = Idle
  \/ ~Owed(a) /\ task'[a] # Idle /\ task'[a].step \in Fresh
  \/ SyncGarrison(a) \/ SyncVillage(a) \/ SyncStore(a)
  \/ a = "pass" /\ (ReadBatch \/ StarveReads)

LEMMA TurnsFresh ==
  ASSUME TasksTyped, NEW b \in Actors, ~Owed(b), NEW step \in Fresh, NEW now \in Time,
         Begins(b, Blank(step, now)), NEW a \in Actors
  PROVE  Turns(a)
<1> DEFINE t == Blank(step, now)
<1>1. step \in Steps
  BY DEF Fresh, Steps, Syncing
<1>2. t \in Task /\ t # Idle /\ t.step = step
  BY <1>1, BlankIn
<1>3. task' = [task EXCEPT ![b] = t]
  BY DEF Begins
<1> HIDE DEF t
<1>4. task'[b] = t /\ (a # b => task'[a] = task[a])
  BY <1>2, <1>3, Turned
<1> QED
  BY <1>2, <1>4 DEF Turns

LEMMA TurnsIdle ==
  ASSUME TasksTyped, NEW b \in Actors, Ends(b), NEW a \in Actors
  PROVE  Turns(a)
BY Turned DEF Ends, Turns

LEMMA TurnsOther ==
  ASSUME TasksTyped, NEW b \in Actors, NEW a \in Actors, a # b, Sync(b) \/ (b = "pass" /\ (ReadBatch \/ StarveReads))
  PROVE  task'[a] = task[a]
BY DEF TasksTyped, Sync, SyncGarrison, SyncVillage, SyncStore, SyncWrite, ReadBatch, StarveReads, Ends

LEMMA TaskMoves ==
  ASSUME VillageTyped, Next, NEW a \in Actors
  PROVE  Turns(a)
<1> USE StepSets
<1>1. TasksTyped /\ clock \in Time
  BY TypesNow
<1>2. CASE up /\ \E train, synced \in BOOLEAN : Order(train, synced)
  <2>1. PICK train, synced \in BOOLEAN : Order(train, synced)
    BY <1>2
  <2> DEFINE t == OrderOf(train, synced, clock, store, Charged(SettleTo(store, Net, clock)))
  <2>2. task' = [task EXCEPT !["web"] = t] /\ ~Owed("web")
    BY <2>1 DEF Order, Begins, OrderOf, Charged, Free, Owed
  <2>3. SettleTo(store, Net, clock) \in Store /\ SettleTo(store, Net, clock).crop >= Cost
    BY <2>1, TypesNow, PresentStore DEF Order
  <2>4. t \in Task /\ t.step = "debit" /\ t # Idle
    <3>1. Charged(SettleTo(store, Net, clock)) \in Store
      BY <2>3, StoreChanges
    <3>2. t \in Task /\ t.step = "debit"
      BY <3>1, TypesNow, OrderIn
    <3> QED
      BY <3>2, NoRowIsNew
  <2> HIDE DEF t
  <2>5. task'["web"] = t /\ (a # "web" => task'[a] = task[a])
    BY <1>1, <2>2, <2>4, Turned
  <2> QED
    BY <2>2, <2>4, <2>5 DEF Turns, Fresh
<1>3. CASE Debit
  <2>1. ~Owed("web") /\ Running("web")
    BY <1>3 DEF Debit, At, Owed, Running
  <2>2. task["web"].now \in Time
    BY <1>1, <2>1, TaskOf
  <2>3. Syncs("web", task["web"].now) \/ Ends("web")
    BY <1>3 DEF Debit
  <2>4. "sync_garrison" \in Fresh
    BY DEF Fresh
  <2> QED
    BY <1>1, <2>1, <2>2, <2>3, <2>4, TurnsFresh, TurnsIdle DEF Syncs
<1>4. CASE AskMarch
  <2>1. Begins("web", Blank("march", clock)) /\ ~Owed("web") /\ "march" \in Fresh
    BY <1>4 DEF AskMarch, Free, Owed, Fresh
  <2> QED
    BY <1>1, <2>1, TurnsFresh
<1>5. CASE \E u \in Units : March(u)
  <2>1. ~Owed("web") /\ Running("web") /\ Begins("web", Blank("sync_garrison", task["web"].now)) /\ "sync_garrison" \in Fresh
    BY <1>5 DEF March, At, Owed, Running, Fresh, Syncs
  <2>2. task["web"].now \in Time
    BY <1>1, <2>1, TaskOf
  <2> QED
    BY <1>1, <2>1, <2>2, TurnsFresh
<1>6. CASE BreakOff \/ Release \/ Recovered \/ NotYet \/ Cull \/ CullConflict
  <2>1. Ends("web") \/ Ends("pass")
    BY <1>6 DEF BreakOff, Release, Recovered, NotYet, Cull, CullConflict
  <2> QED
    BY <1>1, <2>1, TurnsIdle
<1>7. CASE Reward \/ OasisChange \/ Tick \/ Restart
  BY <1>7 DEF Reward, OasisChange, Tick, Restart, Turns
<1>8. CASE \E b \in Actors : Sync(b)
  <2>1. PICK b \in Actors : Sync(b)
    BY <1>8
  <2>2. CASE SyncWrite(b)
    <3>1. Ends(b)
      BY <2>2 DEF SyncWrite
    <3> QED
      BY <1>1, <3>1, TurnsIdle
  <2>3. CASE a = b /\ ~SyncWrite(b)
    BY <2>1, <2>3 DEF Turns, Sync
  <2>4. CASE a # b
    BY <1>1, <2>1, <2>4, TurnsOther DEF Turns
  <2> QED
    BY <2>2, <2>3, <2>4
<1>9. CASE Change
  <2>1. Begins("pass", Blank("sync_garrison", clock)) /\ ~Owed("pass") /\ "sync_garrison" \in Fresh
    BY <1>9 DEF Change, Free, Owed, Fresh, Syncs
  <2> QED
    BY <1>1, <2>1, TurnsFresh
<1>10. CASE ClaimTraining
  <2>1. Begins("pass", Blank("batch", clock)) /\ ~Owed("pass") /\ "batch" \in Fresh
    BY <1>10 DEF ClaimTraining, Free, Owed, Fresh
  <2> QED
    BY <1>1, <2>1, TurnsFresh
<1>11. CASE ReadBatch \/ StarveReads
  <2>1. CASE a = "pass"
    BY <1>11, <2>1 DEF Turns
  <2>2. CASE a # "pass"
    BY <1>1, <1>11, <2>2, TurnsOther DEF Turns
  <2> QED
    BY <2>1, <2>2
<1>12. CASE Deliver
  <2>1. Begins("pass", Blank("sync_garrison", clock)) /\ ~Owed("pass") /\ "sync_garrison" \in Fresh
    BY <1>12 DEF Deliver, At, Owed, Fresh, Syncs
  <2> QED
    BY <1>1, <2>1, TurnsFresh
<1>13. CASE ClaimStarvation
  <2>1. Begins("pass", Blank("starve_village", clock)) /\ ~Owed("pass") /\ "starve_village" \in Fresh
    BY <1>13 DEF ClaimStarvation, Free, Owed, Fresh
  <2> QED
    BY <1>1, <2>1, TurnsFresh
<1>14. CASE Crash
  BY <1>14 DEF Crash, Turns
<1> QED
  BY <1>2, <1>3, <1>4, <1>5, <1>6, <1>7, <1>8, <1>9, <1>10, <1>11, <1>12, <1>13, <1>14
  DEF Next, Web, Answer, Scheduler, World

LEMMA BatchReading ==
  ASSUME VillageTyped, ReadBatch
  PROVE  Reads.step = "batch" /\ Reads'.step = "deliver"
<1>1. Running("pass") /\ "pass" \in Actors /\ TasksTyped /\ Reads.step = "batch"
  BY StepSets, TypesNow DEF ReadBatch, At, Running, Reads
<1>2. Reads \in Task
  BY <1>1, TaskOf DEF Reads
<1> DEFINE n == Finished(batch, Reads.now) - batch.done
           t == Counted(Reads, n, store, Pieces(batch, store, base, garrison, n))
<1>3. Reads' = t
  BY <1>1 DEF ReadBatch, Counted, Reads, TasksTyped
<1>4. t.step = "deliver"
  <2> HIDE DEF n
  <2> QED
    BY <1>2, TaskFields DEF Counted
<1> QED
  BY <1>1, <1>3, <1>4

\* A re-sync that is owed is owed on, or is over.
LEMMA OwedGoesOn ==
  ASSUME VillageTyped, Next, NEW a \in Actors, Owed(a)
  PROVE  Owed(a)' \/ task'[a] = Idle
<1>1. task[a].step \in Syncing /\ "batch" \notin Syncing /\ Syncing \cap Starves = {}
  BY StepSets DEF Owed
<1>2. ~(a = "pass" /\ (ReadBatch \/ StarveReads))
  BY <1>1, BatchReading, StarveReading DEF Reads, Starves
<1> QED
  BY <1>2, TaskMoves, SyncReading DEF Turns, Owed

\* What changes the village while the starvation pass is at work.
LEMMA MovesBeside ==
  ASSUME VillageTyped, Next, village' # village, Running("pass"), Reads.step \in Starves
  PROVE  \/ Cull
         \/ Reads' = Reads /\ (Debit \/ (\E u \in Units : March(u)) \/ Reward)
<1>1. ~Change /\ ~OasisChange /\ ~Deliver
  BY DEF Change, OasisChange, Free, Running, Deliver, At, Reads, Starves
<1>2. Debit \/ (\E u \in Units : March(u)) \/ Reward => Reads' = Reads
  <2>1. TasksTyped
    BY TypesNow
  <2>2. Debit \/ (\E u \in Units : March(u)) \/ Reward =>
          task' = task \/ \E t : task' = [task EXCEPT !["web"] = t]
    BY DEF Debit, March, Reward, Syncs, Begins, Ends
  <2> QED
    BY <2>1, <2>2, StepSets DEF TasksTyped, Reads
<1> QED
  BY <1>1, <1>2, VillageMoves

LEMMA StampsGrow ==
  ASSUME VillageTyped, Debit \/ (\E u \in Units : March(u)) \/ Reward
  PROVE  store.at <= store'.at
<1>1. store.at \in Int /\ store \in Store
  BY TypesNow DEF Store, Time
<1>2. CASE Debit
  <2>1. store.at = task["web"].store.at /\ store' = task["web"].after /\ At("web", "debit")
    BY <1>2 DEF Debit
  <2> QED
    BY <2>1 DEF VillageTyped, TaskHeld, DebitForward
<1>3. CASE \E u \in Units : March(u)
  BY <1>1, <1>3 DEF March
<1>4. CASE Reward
  <2>1. store' = Filled(store) \/ store' = store
    BY <1>4 DEF Reward, Filled
  <2>2. Filled(store).at = store.at
    BY <1>1, StoreChanges
  <2> QED
    BY <1>1, <2>1, <2>2
<1> QED
  BY <1>2, <1>3, <1>4

\* A cull leaves no want.
LEMMA CullEnds == ASSUME VillageTyped, StarveSo, Cull PROVE ~Draining'
<1>1. Running("pass") /\ Reads.step = "starve"
  BY DEF Cull, Starving, At, Running, Reads
<1>2. Reads.base = base /\ Reads.troops = garrison /\ Reads.troops \in Army /\ Reads.base \in Int
  BY <1>1, ReadsTyped DEF StarveSo
<1>3. base' = base /\ garrison' = Starved(Reads.troops, Reads.base)
  BY DEF Cull
<1>4. garrison' = NoTroops \/ UpkeepOf(garrison') <= base'
  BY <1>2, <1>3, CullFeeds
<1>5. UpkeepOf(garrison') \in Nat /\ base' \in Int
  <2>1. garrison' \in Army
    BY <1>2, <1>3, StarvedIn
  <2> QED
    BY <1>2, <1>3, <2>1, UpkeepNat
<1>6. Draining' <=> Net' < 0 /\ garrison' # NoTroops
  BY DEF Draining, NoTroops
<1>7. Net' = base' - UpkeepOf(garrison')
  BY DEF Net, UpkeepOf
<1> QED
  BY <1>4, <1>5, <1>6, <1>7

LEMMA SyncReadsOn == ASSUME VillageTyped, SyncReads, StarveSo, Next, Quiet PROVE SyncReads'
<1> SUFFICES ASSUME Draining', NEW a \in Actors, Owed(a)' PROVE ReadSo(a)'
  BY DEF SyncReads
<1>1. Turns(a) /\ task'[a] # Idle /\ task'[a].step \in Syncing
  BY TaskMoves DEF Owed
<1>2. CASE task'[a].step = "sync_garrison"
  BY <1>2 DEF ReadSo
<1>3. CASE task'[a] = task[a] /\ task'[a].step # "sync_garrison"
  <2>1. Owed(a) /\ task[a].step # "sync_garrison"
    BY <1>1, <1>3 DEF Owed
  <2>2. CASE village' = village
    <3>1. store' = store /\ base' = base /\ garrison' = garrison
      BY <2>2 DEF village
    <3>2. Draining
      BY <3>1 DEF Draining, Net
    <3>3. ReadSo(a)
      BY <2>1, <3>2 DEF SyncReads
    <3> QED
      BY <1>3, <3>1, <3>3 DEF ReadSo
  <2>3. CASE village' # village
    <3>1. Starving /\ task'["pass"] = Idle
      BY <2>1, <2>3 DEF Quiet, SyncAlone
    <3>2. Running("pass") /\ Reads.step \in Starves
      BY <3>1 DEF Starving, At, Running, Reads, Starves
    <3>3. Reads' # Reads
      BY <3>1, <3>2 DEF Running, Reads
    <3>4. Cull
      BY <2>3, <3>2, <3>3, MovesBeside
    <3> QED
      BY <3>4, CullEnds
  <2> QED
    BY <2>2, <2>3
<1>4. CASE SyncGarrison(a) \/ SyncVillage(a) \/ SyncStore(a)
  <2>1. village' = village
    BY <1>4, Frames
  <2>2. store' = store /\ base' = base /\ garrison' = garrison
    BY <2>1 DEF village
  <2>3. Draining
    BY <2>2 DEF Draining, Net
  <2>4. Owed(a) => ReadSo(a)
    BY <2>3 DEF SyncReads
  <2>5. CASE SyncGarrison(a)
    <3>1. task'[a].troops = garrison /\ task'[a].step = "sync_village"
      BY <2>3, <2>5, SyncReading DEF Draining
    <3> QED
      BY <2>2, <3>1 DEF ReadSo
  <2>6. CASE SyncVillage(a)
    BY <2>2, <2>4, <2>6, SyncReading DEF ReadSo
  <2>7. CASE SyncStore(a)
    BY <2>2, <2>4, <2>7, SyncReading DEF ReadSo
  <2> QED
    BY <1>4, <2>5, <2>6, <2>7
<1>5. ~(a = "pass" /\ (ReadBatch \/ StarveReads))
  BY <1>1, BatchReading, StarveReading, StepSets DEF Reads, Starves
<1>6. task'[a].step \in Fresh => task'[a].step = "sync_garrison"
  BY <1>1, StepSets DEF Fresh, Starves
<1> QED
  BY <1>1, <1>2, <1>3, <1>4, <1>5, <1>6 DEF Turns

LEMMA StarveSoOn == ASSUME VillageTyped, StarveSo, Next, Quiet PROVE StarveSo'
<1>1. Turns("pass") /\ "pass" \in Actors /\ "web" \in Actors
  BY TaskMoves, StepSets
<1> SUFFICES ASSUME Running("pass")', Reads'.step \in {"starve_garrison", "starve_store", "starve"} PROVE StarveSo'
  BY DEF StarveSo
<1>2. CASE Reads' = Reads
  <2>1. Running("pass") /\ Reads.step \in Starves /\ Reads.step \in {"starve_garrison", "starve_store", "starve"}
    BY <1>2 DEF Running, Reads, Starves
  <2>2. garrison' = garrison /\ base' = base /\ ~SyncWrite("web") /\ (store' # store => store'.at # store.at)
    BY <1>2, <2>1 DEF Quiet, CullAlone, Free, Running, Reads
  <2>3. store.at <= store'.at
    <3>1. CASE store' = store
      <4>1. store.at \in Int
        BY TypesNow DEF Store, Time
      <4> QED
        BY <3>1, <4>1
    <3>2. CASE store' # store
      <4>1. village' # village
        BY <3>2 DEF village
      <4>2. ~Cull
        BY <1>2, <2>1, StepSets, TypesNow DEF Cull, Ends, Running, Reads, TasksTyped
      <4> QED
        BY <2>1, <4>1, <4>2, MovesBeside, StampsGrow
    <3> QED
      BY <3>1, <3>2
  <2>4. Draining' /\ ~Owed("web")' => store' = store /\ Draining /\ ~Owed("web")
    <3> SUFFICES ASSUME Draining', ~Owed("web")' PROVE store' = store /\ Draining /\ ~Owed("web")
      OBVIOUS
    <3>1. ~Owed("web")
      BY <1>1, <2>2, OwedGoesOn DEF Quiet, SyncsMade
    <3>2. ~Owed("pass")'
      BY <1>2, <2>1, StepSets DEF Owed, Reads
    <3>3. village' = village
      <4>1. \A a \in Actors : ~Owed(a)'
        BY <3>2 DEF Actors
      <4> QED
        BY <4>1 DEF Quiet, SyncedWhenNeeded
    <3> QED
      BY <2>2, <3>1, <3>3 DEF village, Draining, Net
  <2>5. store.at \in Int /\ store'.at \in Int /\ (Reads.step = "starve" => Reads.store.at \in Int)
    <3>1. VillageTyped'
      BY VillageStep
    <3>2. store' \in Store
      BY <3>1, TypePartsNext DEF VillageTyped, GroundTyped
    <3>3. Reads.store \in Store
      BY <2>1, ReadsTyped
    <3> QED
      BY <3>2, <3>3, TypesNow DEF Store, Time
  <2> QED
    BY <1>2, <2>1, <2>2, <2>3, <2>4, <2>5 DEF StarveSo
<1>3. CASE StarveReads
  <2>1. village' = village /\ Running("pass") /\ Reads.step \in Starves
    BY <1>3, StarveReading DEF StarveReads, At, Running, Reads, Starves
  <2>2. store' = store /\ base' = base /\ garrison' = garrison /\ store.at \in Int
    BY <2>1, TypesNow DEF village, Store, Time
  <2> QED
    BY <1>3, <2>1, <2>2, StarveReading DEF StarveSo
<1>4. Reads' # Idle /\ Reads'.step \notin Fresh /\ Reads'.step \notin Syncing /\ Reads'.step # "deliver"
  BY StepSets DEF Running, Reads, Fresh, Starves
<1> QED
  BY <1>1, <1>2, <1>3, <1>4, SyncReading, BatchReading DEF Turns, Reads, Owed

LEMMA KeptOn == ASSUME VillageQuiet, Next, Quiet PROVE Kept'
<1> SUFFICES ASSUME Draining', NobodyOwed'
             PROVE  /\ check' # NoCheck /\ check'.status \in {"pending", "processing"}
                    /\ check'.due <= Most(clock', store'.at + Depletion(store'.crop, Net'))
  BY DEF Kept
<1>1. VillageTyped /\ SyncReads /\ StarveSo /\ Kept
  BY DEF VillageQuiet
<1>2. village' = village
  BY DEF Quiet, SyncedWhenNeeded, NobodyOwed
<1>3. store' = store /\ base' = base /\ garrison' = garrison /\ Net' = Net /\ Draining
  BY <1>2 DEF village, Draining, Net
<1>4. Net < 0 /\ Net \in Int /\ store \in Store /\ garrison # NoTroops
  BY <1>1, <1>3, TypesNow DEF Draining
<1>5. clock \in Int /\ clock' \in Int /\ clock <= clock'
  BY <1>1, TypesNow, ClockGoesOn
\* What is written now of the store as it stands is in time.
<1>6. ASSUME NEW now \in Nat, now <= clock
      PROVE  now + Depletion(Settled(store, Net, now), Net) <= Most(clock', store'.at + Depletion(store'.crop, Net'))
  BY <1>3, <1>4, <1>5, <1>6, DueBound
<1>7. CASE \E a \in Actors : Owed(a)
  <2>1. PICK a \in Actors : Owed(a)
    BY <1>7
  <2>2. task'[a] = Idle
    BY <1>1, <2>1, OwedGoesOn DEF NobodyOwed
  <2>3. SyncWrite(a)
    BY <2>1, <2>2 DEF Quiet, SyncsMade
  <2>4. task[a].step = "sync_write" /\ Running(a)
    BY <2>3 DEF SyncWrite, At, Running
  <2>5. task[a].troops = garrison /\ task[a].base = base /\ task[a].store = store
    BY <1>1, <1>3, <2>1, <2>4 DEF SyncReads, ReadSo
  <2>6. task[a].base - UpkeepOf(task[a].troops) = Net
    BY <2>5 DEF Net
  <2>7. task[a].now \in Nat /\ task[a].now <= clock
    BY <1>1, <2>4, TypesNow, TaskOf DEF VillageTyped, TaskHeld, Living
  <2>8. check' = [due |-> task[a].now + Depletion(Settled(store, Net, task[a].now), Net), status |-> "pending"]
    BY <1>4, <2>3, <2>5, <2>6 DEF SyncWrite
  <2>9. check' \in Check
    <3>1. VillageTyped'
      BY <1>1, VillageStep
    <3>2. task[a].now + Depletion(Settled(store, Net, task[a].now), Net) \in Nat
      <4>1. Settled(store, Net, task[a].now) \in Nat
        <5>1. Settled(store, Net, task[a].now) \in 0 .. Capacity
          BY <1>4, <2>7, SettledIn
        <5> QED
          BY <5>1, UpkeepConstants
      <4> QED
        BY <1>4, <2>7, <4>1, DepletionNat
    <3> QED
      BY <2>8, <3>2 DEF Check
  <2> QED
    BY <1>6, <2>7, <2>8, <2>9, NoRowIsNew
<1>8. CASE NobodyOwed
  <2>1. /\ check # NoCheck /\ check.status \in {"pending", "processing"}
        /\ check.due <= Most(clock, store.at + Depletion(store.crop, Net))
    BY <1>1, <1>3, <1>8 DEF Kept
  <2>2. check \in Check /\ check.due \in Int
    BY <1>1, <2>1, TypesNow DEF CheckTyped, Check
  <2>3. check.due <= Most(clock', store'.at + Depletion(store'.crop, Net'))
    <3>1. store.at + Depletion(store.crop, Net) \in Int
      <4>1. store.crop \in Nat /\ store.at \in Nat
        BY <1>4, UpkeepConstants DEF Store, Time
      <4> QED
        BY <1>4, <4>1, DepletionNat
    <3> QED
      BY <1>3, <1>5, <2>1, <2>2, <3>1 DEF Most
  <2>4. CASE check' = check
    BY <2>1, <2>3, <2>4
  <2>5. CASE ClaimStarvation \/ Restart
    <3>1. check' = check \/ check' = Marked(check, "processing") \/ check' = Marked(check, "pending")
      BY <2>5 DEF ClaimStarvation, Restart, Marked
    <3> QED
      BY <2>1, <2>2, <2>3, <3>1, CheckGoesOn, NoRowIsNew
  <2>6. ASSUME Recovered \/ NotYet \/ CullConflict \/ Cull
        PROVE  /\ Running("pass") /\ Reads.step = "starve" /\ Reads.base = base /\ Reads.troops = garrison
               /\ Reads.store = store /\ ReadNet = Net /\ Reads.now \in Nat /\ Reads.now <= clock
    <3>1. Running("pass") /\ Reads.step = "starve"
      BY <2>6 DEF Recovered, NotYet, CullConflict, Cull, Starving, At, Running, Reads
    <3>2. Reads.base = base /\ Reads.troops = garrison /\ Reads.store = store
      BY <1>1, <1>3, <1>8, <3>1, StepSets DEF StarveSo, NobodyOwed
    <3>3. ReadNet = Net
      BY <3>2 DEF ReadNet, Net
    <3> QED
      BY <1>1, <3>1, <3>2, <3>3, ReadsTyped
  <2>7. ~Recovered
    BY <1>4, <2>6 DEF Recovered
  <2>8. CASE NotYet
    <3> DEFINE row == [due |-> Reads.now + Depletion(ReadCrop, ReadNet), status |-> "pending"]
    <3>1. check' = row
      BY <2>1, <2>8 DEF NotYet, Resolved
    <3>2. ReadCrop = Settled(store, Net, Reads.now)
      BY <2>6, <2>8 DEF ReadCrop
    <3>3. row \in Check
      BY <1>1, <1>4, <2>6, <2>8, ReadsTyped DEF Check
    <3> QED
      BY <1>6, <2>6, <2>8, <3>1, <3>2, <3>3, NoRowIsNew
  <2>9. CASE CullConflict
    <3>1. check' = [due |-> Reads.now, status |-> "pending"]
      BY <2>1, <2>9 DEF CullConflict, Resolved
    <3>2. check' \in Check
      BY <2>6, <2>9, <3>1 DEF Check
    <3>3. Reads.now <= Most(clock', store'.at + Depletion(store'.crop, Net'))
      <4>1. store.at + Depletion(store.crop, Net) \in Int
        <5>1. store.crop \in Nat /\ store.at \in Nat
          BY <1>4, UpkeepConstants DEF Store, Time
        <5> QED
          BY <1>4, <5>1, DepletionNat
      <4> QED
        BY <1>3, <1>5, <2>6, <2>9, <4>1 DEF Most
    <3> QED
      BY <3>1, <3>2, <3>3, NoRowIsNew
  <2>10. ~Cull
    BY <1>1, CullEnds
  <2>11. ~\E a \in Actors : SyncWrite(a)
    BY <1>8 DEF NobodyOwed, SyncWrite, At, Owed, Syncing
  <2> QED
    BY <2>4, <2>5, <2>7, <2>8, <2>9, <2>10, <2>11, CheckMoves
<1> QED
  BY <1>7, <1>8 DEF NobodyOwed

LEMMA InitQuiet == Init => VillageQuiet
<1> SUFFICES ASSUME Init PROVE VillageQuiet
  OBVIOUS
<1>1. VillageTyped
  BY InitVillage
<1>2. \A a \in Actors : ~Running(a) /\ ~Owed(a)
  BY DEF Init, Running, Owed
<1>3. SyncReads /\ StarveSo
  BY <1>2, StepSets DEF SyncReads, StarveSo
<1>4. ~Draining
  <2>1. UpkeepOf(FirstGarrison) \in Nat /\ FirstBase \in Int
    BY UpkeepConstants, UpkeepNat
  <2>2. Net = FirstBase - UpkeepOf(FirstGarrison) /\ garrison = FirstGarrison
    BY DEF Init, Net
  <2> QED
    BY <2>1, <2>2, StartsFed DEF Draining
<1> QED
  BY <1>1, <1>3, <1>4 DEF VillageQuiet, Kept

LEMMA QuietStep == VillageQuiet /\ [Next /\ Quiet]_vars => VillageQuiet'
<1> SUFFICES ASSUME VillageQuiet, [Next /\ Quiet]_vars PROVE VillageQuiet'
  OBVIOUS
<1>1. VillageTyped'
  BY VillageStep DEF VillageQuiet
<1>2. CASE Next /\ Quiet
  BY <1>1, <1>2, SyncReadsOn, StarveSoOn, KeptOn DEF VillageQuiet
<1>3. CASE UNCHANGED vars
  <2>1. SyncReads'
    BY <1>3 DEF VillageQuiet, vars, SyncReads, Draining, Net, Owed, ReadSo
  <2>2. StarveSo'
    BY <1>3 DEF VillageQuiet, vars, StarveSo, Draining, Net, Owed, Running, Reads
  <2>3. Kept'
    BY <1>3 DEF VillageQuiet, vars, Kept, Draining, Net, Owed, NobodyOwed
  <2> QED
    BY <1>1, <2>1, <2>2, <2>3 DEF VillageQuiet
<1> QED
  BY <1>2, <1>3

\* Of a quiet history, whatever interleaving of requests, passes, crashes and restarts it is: once nobody owes
\* a re-sync, an army that eats more than comes in has a check that will be acted on, and no later than the
\* granary is empty (sync_starvation_check, process_due_starvation, requeue_orphaned_starvation).
THEOREM VillageWatched == QuietSpec => []Watched
<1>1. VillageQuiet => Watched
  BY DEF VillageQuiet, Kept, Watched, NobodyOwed
<1> QED
  BY InitQuiet, QuietStep, <1>1, PTL DEF QuietSpec

\* Of a quiet history: nobody is culled while there is crop or more comes in than is eaten, and no unit too many
\* (starve_village, apply_starvation).
THEOREM OnlyNeedCulls == QuietSpec => CulledOnlyInNeed
<1> DEFINE A == Starving /\ garrison' # garrison =>
                  /\ Draining /\ Settled(store, Net, clock) = 0
                  /\ \A u \in Units : garrison'[u] < garrison[u] =>
                       base < UpkeepOf([garrison' EXCEPT ![u] = @ + 1])
<1>1. ASSUME VillageQuiet, [Next /\ Quiet]_vars PROVE [A]_vars
  <2> SUFFICES ASSUME Next, Quiet, Starving, garrison' # garrison PROVE A
    BY <1>1
  <2>1. VillageTyped /\ StarveSo
    BY <1>1 DEF VillageQuiet
  <2>2. /\ Running("pass") /\ Reads.step = "starve" /\ Reads.step \in Starves
        /\ Reads.troops # NoTroops /\ ReadNet < 0 /\ ReadCrop = 0
    BY DEF Starving, At, Running, Reads, Starves
  <2>3. Cull
    <3>1. Reads' # Reads
      BY <2>2 DEF Quiet, CullAlone, Free, Running, Reads
    <3>2. village' # village
      BY DEF village
    <3> QED
      BY <2>1, <2>2, <3>1, <3>2, MovesBeside
  <2>4. Reads.base = base /\ Reads.troops = garrison /\ Reads.store = store
    BY <2>1, <2>2, <2>3 DEF StarveSo, Cull
  <2>5. ReadNet = Net /\ Settled(store, Net, Reads.now) = 0
    BY <2>2, <2>4 DEF ReadNet, Net, ReadCrop
  <2>6. Draining
    BY <2>2, <2>4, <2>5 DEF Draining
  <2>7. Settled(store, Net, clock) = 0
    <3>1. Reads.now \in Nat /\ Reads.now <= clock /\ clock \in Nat /\ Net \in Int /\ store \in Store /\ Net < 0
      BY <2>1, <2>2, <2>5, TypesNow, ReadsTyped, UpkeepConstants DEF Time
    <3> QED
      BY <2>5, <3>1, SettledFalls
  <2>8. garrison' = Starved(garrison, base) /\ garrison \in Army /\ base \in Int
    BY <2>1, <2>3, <2>4, TypesNow, UpkeepConstants DEF Cull
  <2>9. ASSUME NEW u \in Units, garrison'[u] < garrison[u]
        PROVE  base < UpkeepOf([garrison' EXCEPT ![u] = @ + 1])
    BY <2>8, <2>9, CullSpares
  <2> QED
    BY <2>6, <2>7, <2>9
<1>2. QuietSpec => [][A]_vars
  <2> HIDE DEF A
  <2> QED
    BY InitQuiet, QuietStep, <1>1, PTL DEF QuietSpec
<1> QED
  BY <1>2 DEF CulledOnlyInNeed
=============================================================================
