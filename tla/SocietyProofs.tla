---------------------------- MODULE SocietyProofs ----------------------------
(***************************************************************************)
(* Proofs about Alliance, for every set of players, alliances and requests,  *)
(* and about Accounts, for every set of people, agents and requests.  Types  *)
(* hold in all histories.  The rest holds in quiet ones: of alliances, by    *)
(* what a request has checked and may still rely on when it writes, one      *)
(* invariant on the drafts for each kind of command; of accounts, by what    *)
(* each layer leaves behind for the next, so that what a request has been    *)
(* found to be is what it still is when it writes.                           *)
(***************************************************************************)
EXTENDS MCSociety, FiniteSetTheorems, TLAPS

-----------------------------------------------------------------------------
(* Alliances: types *)

LEMMA TypeInit == Init => TypeOK
<1> SUFFICES ASSUME Init PROVE TypeOK
  OBVIOUS
<1>1. PICK s \in Starts :
        founder = s.founder /\ member = s.member /\ invites = s.invites /\ pact = s.pact
  BY DEF Init
<1>2. /\ founder \in [Alliances -> Players \cup {Unused}]
      /\ member \in [Players -> Membership \cup {NoOne}]
      /\ invites \subseteq {a \in Alliances : founder[a] # Unused} \X Players
      /\ pact \in [Pairs -> Stances]
      /\ \A p \in Players : member[p] # NoOne => founder[member[p].alliance] # Unused
      /\ \A q \in Pairs : pact[q] # Neutral => \A a \in q : founder[a] # Unused
  BY <1>1, AllianceAssumption
<1>3. \A p \in Players : member[p] # NoOne => member[p].alliance \in Alliances
  BY <1>2 DEF Membership
<1>4. \A q \in Pairs : \A a \in q : a \in Alliances
  BY DEF Pairs
<1>5. draft \in [Requests -> Draft \cup {NoDraft, Done}]
  BY DEF Init
<1> QED
  BY <1>2, <1>3, <1>4, <1>5 DEF TypeOK, Exists

\* A new draft leaves the tables as they are.
LEMMA AskType ==
  ASSUME TypeOK, NEW r \in Requests, NEW d \in Draft, Ask(r, d)
  PROVE  TypeOK'
BY DEF TypeOK, Ask, tables, Exists

LEMMA BlankIsDraft ==
  ASSUME NEW op \in Ops, NEW step \in {"asked", "ready", "joined"}, NEW p \in Players,
         NEW a \in Alliances
  PROVE  Blank(op, step, p, a) \in Draft
BY DEF Blank, Draft, Roles, Stances

\* What AskActor drafts, whichever command it is.
LEMMA ActorDrafts ==
  ASSUME TypeOK, NEW r \in Requests, NEW op \in Ops, NEW p \in Players, AskActor(r, op, p)
  PROVE  \E d \in Draft :
           /\ Ask(r, d)
           /\ d.op = op /\ d.by = p /\ In(p, d.alliance) /\ Entitled(op, member[p])
           /\ d.as = member[p].role /\ d.step \in {"asked", "ready"}
           /\ d.op \in {"leave", "disband"} \/ d.op = "revoke" \/ d.step = "asked"
           /\ d.op \in {"expel", "transfer", "role"} => d.who # p
           /\ d.op \in Commands => d.other # d.alliance
<1> DEFINE m == member[p]
           d0 == [Blank(op, "asked", p, m.alliance) EXCEPT !.as = m.role]
<1>1. m \in Membership
  BY DEF AskActor, TypeOK
<1>2. m.alliance \in Alliances /\ m.role \in Roles
  BY <1>1 DEF Membership
<1>3. d0 \in Draft /\ d0.op = op /\ d0.by = p /\ d0.alliance = m.alliance /\ d0.as = m.role
      /\ d0.step = "asked"
  BY <1>2, BlankIsDraft DEF Draft, Blank
<1>4. In(p, m.alliance) /\ Entitled(op, m)
  BY DEF AskActor, In
<1>5. CASE op \in {"leave", "disband"} /\ Ask(r, [d0 EXCEPT !.step = "ready"])
  <2> DEFINE d == [d0 EXCEPT !.step = "ready"]
  <2>1. d \in Draft /\ d.op = op /\ d.by = p /\ d.alliance = m.alliance /\ d.as = m.role
        /\ d.step = "ready"
    BY <1>3 DEF Draft
  <2> QED
    BY <2>1, <1>4, <1>5 DEF Commands
<1>6. ASSUME NEW w \in Players, op = "revoke", Ask(r, [d0 EXCEPT !.step = "ready", !.who = w])
      PROVE  \E d \in Draft : Ask(r, d) /\ d.op = op /\ d.by = p /\ d.alliance = m.alliance
               /\ d.as = m.role /\ d.step = "ready"
  <2> DEFINE d == [d0 EXCEPT !.step = "ready", !.who = w]
  <2>1. d \in Draft /\ d.op = op /\ d.by = p /\ d.alliance = m.alliance /\ d.as = m.role
        /\ d.step = "ready"
    BY <1>3 DEF Draft
  <2> QED
    BY <2>1, <1>6
<1>7. ASSUME NEW w \in Players, op = "invite", Ask(r, [d0 EXCEPT !.who = w])
      PROVE  \E d \in Draft : Ask(r, d) /\ d.op = op /\ d.by = p /\ d.alliance = m.alliance
               /\ d.as = m.role /\ d.step = "asked"
  <2> DEFINE d == [d0 EXCEPT !.who = w]
  <2>1. d \in Draft /\ d.op = op /\ d.by = p /\ d.alliance = m.alliance /\ d.as = m.role
        /\ d.step = "asked"
    BY <1>3 DEF Draft
  <2> QED
    BY <2>1, <1>7
<1>8. ASSUME NEW w \in Players, w # p, NEW role \in {"leader", "member"}, NEW g \in SUBSET Rights,
             \/ Ask(r, [d0 EXCEPT !.who = w])
             \/ Ask(r, [d0 EXCEPT !.who = w, !.role = role, !.rights = g])
      PROVE  \E d \in Draft : Ask(r, d) /\ d.op = op /\ d.by = p /\ d.alliance = m.alliance
               /\ d.as = m.role /\ d.step = "asked" /\ d.who = w
  <2> DEFINE d1 == [d0 EXCEPT !.who = w]
             d2 == [d0 EXCEPT !.who = w, !.role = role, !.rights = g]
  <2>1. d1 \in Draft /\ d1.op = op /\ d1.by = p /\ d1.alliance = m.alliance /\ d1.as = m.role
        /\ d1.step = "asked" /\ d1.who = w
    BY <1>3 DEF Draft
  <2>2. d2 \in Draft /\ d2.op = op /\ d2.by = p /\ d2.alliance = m.alliance /\ d2.as = m.role
        /\ d2.step = "asked" /\ d2.who = w
    BY <1>3 DEF Draft
  <2> QED
    BY <2>1, <2>2, <1>8
<1>9. ASSUME NEW b \in Alliances \ {m.alliance}, op \in Commands, Ask(r, [d0 EXCEPT !.other = b])
      PROVE  \E d \in Draft : Ask(r, d) /\ d.op = op /\ d.by = p /\ d.alliance = m.alliance
               /\ d.as = m.role /\ d.step = "asked" /\ d.other = b
  <2> DEFINE d == [d0 EXCEPT !.other = b]
  <2>1. d \in Draft /\ d.op = op /\ d.by = p /\ d.alliance = m.alliance /\ d.as = m.role
        /\ d.step = "asked" /\ d.other = b
    BY <1>3 DEF Draft
  <2> QED
    BY <2>1, <1>9
<1>10. Grants \subseteq SUBSET Rights
  BY AllianceAssumption
<1>11. \/ op \in {"leave", "disband"} /\ Ask(r, [d0 EXCEPT !.step = "ready"])
       \/ \E w \in Players :
            \/ op = "revoke" /\ Ask(r, [d0 EXCEPT !.step = "ready", !.who = w])
            \/ op = "invite" /\ Ask(r, [d0 EXCEPT !.who = w])
            \/ op \in {"expel", "transfer", "role"} /\ w # p /\ Ask(r, [d0 EXCEPT !.who = w])
            \/ op = "role" /\ w # p /\ \E g \in Grants :
                 Ask(r, [d0 EXCEPT !.who = w, !.role = "leader", !.rights = g])
       \/ op \in Commands /\ \E b \in Alliances \ {m.alliance} : Ask(r, [d0 EXCEPT !.other = b])
  BY DEF AskActor
<1> HIDE DEF d0, m
<1>12. CASE op \in {"leave", "disband"}
  BY <1>5, <1>11, <1>12 DEF Commands
<1>13. CASE op = "revoke"
  BY <1>4, <1>6, <1>11, <1>13 DEF Commands, m
<1>14. CASE op = "invite"
  BY <1>4, <1>7, <1>11, <1>14 DEF Commands, m
<1>15. CASE op \in {"expel", "transfer", "role"}
  <2>1. PICK w \in Players : w # p /\
          \/ Ask(r, [d0 EXCEPT !.who = w])
          \/ \E g \in SUBSET Rights : Ask(r, [d0 EXCEPT !.who = w, !.role = "leader", !.rights = g])
    BY <1>10, <1>11, <1>15 DEF Commands
  <2>2. \E d \in Draft : Ask(r, d) /\ d.op = op /\ d.by = p /\ d.alliance = m.alliance
               /\ d.as = m.role /\ d.step = "asked" /\ d.who = w
    BY <1>8, <2>1
  <2> QED
    BY <1>4, <1>15, <2>1, <2>2 DEF Commands, m
<1>16. CASE op \in Commands
  <2>1. PICK b \in Alliances \ {m.alliance} : Ask(r, [d0 EXCEPT !.other = b])
    BY <1>11, <1>16 DEF Commands
  <2>2. PICK d \in Draft : Ask(r, d) /\ d.op = op /\ d.by = p /\ d.alliance = m.alliance
               /\ d.as = m.role /\ d.step = "asked" /\ d.other = b
    BY <1>9, <1>16, <2>1
  <2> QED
    BY <1>4, <1>16, <2>2 DEF Commands, m
<1> QED
  BY <1>11, <1>12, <1>13, <1>14, <1>15, <1>16 DEF Commands

LEMMA RespondDrafts ==
  ASSUME TypeOK, NEW r \in Requests, NEW i \in invites, AskRespond(r, i)
  PROVE  \E d \in Draft : /\ Ask(r, d) /\ Exists(d.alliance)
                          /\ \/ d.op = "decline" /\ d.step = "ready"
                             \/ d.op = "join" /\ d.step = "asked"
<1>1. i[1] \in Alliances /\ i[2] \in Players /\ Exists(i[1])
  BY DEF TypeOK
<1>2. Blank("decline", "ready", i[2], i[1]) \in Draft
  BY <1>1, BlankIsDraft DEF Ops
<1>3. Blank("join", "asked", i[2], i[1]) \in Draft
  BY <1>1, BlankIsDraft DEF Ops
<1> QED
  BY <1>1, <1>2, <1>3 DEF AskRespond, Blank

LEMMA FoundDrafts ==
  ASSUME NEW r \in Requests, NEW p \in Players, NEW a \in Alliances, AskFound(r, p, a)
  PROVE  \E d \in Draft : /\ Ask(r, d) /\ d.op = "found" /\ d.step = "ready"
                          /\ d.alliance = a /\ d.by = p
<1>1. Blank("found", "ready", p, a) \in Draft
  BY BlankIsDraft DEF Ops
<1> QED
  BY <1>1 DEF AskFound, Blank

\* What a request that writes has drafted.
LEMMA DraftTyped ==
  ASSUME TypeOK, NEW r \in Requests, draft[r] \in Draft
  PROVE  /\ draft[r].by \in Players /\ draft[r].who \in Players
         /\ draft[r].alliance \in Alliances /\ draft[r].other \in Alliances
         /\ {draft[r].alliance, draft[r].other} \in Pairs
         /\ draft[r].next \in Stances /\ draft[r].op \in Ops
         /\ draft[r].role \in {"leader", "member"} /\ draft[r].rights \in SUBSET Rights
BY DEF Draft, Pairs

\* Finish and Ready change nobody else's draft.
LEMMA DraftsKept ==
  ASSUME TypeOK, NEW r \in Requests, draft[r] \in Draft,
         \/ Finish(r)
         \/ Ready(r)
         \/ \E s \in Stances : draft' = [draft EXCEPT ![r].step = "ready", ![r].next = s]
         \/ draft' = [draft EXCEPT ![r].step = "joined"]
  PROVE  draft' \in [Requests -> Draft \cup {NoDraft, Done}]
<1>1. [draft[r] EXCEPT !.step = "ready"] \in Draft
  BY DEF Draft
<1>2. [draft[r] EXCEPT !.step = "joined"] \in Draft
  BY DEF Draft
<1>3. ASSUME NEW s \in Stances PROVE [draft[r] EXCEPT !.step = "ready", !.next = s] \in Draft
  BY <1>3 DEF Draft
<1>4. CASE Finish(r)
  BY <1>4 DEF TypeOK, Finish
<1>5. CASE Ready(r)
  BY <1>1, <1>5 DEF TypeOK, Ready
<1>6. CASE \E s \in Stances : draft' = [draft EXCEPT ![r].step = "ready", ![r].next = s]
  <2>1. PICK s \in Stances : draft' = [draft EXCEPT ![r].step = "ready", ![r].next = s]
    BY <1>6
  <2>2. draft' = [draft EXCEPT ![r] = [draft[r] EXCEPT !.step = "ready", !.next = s]]
    BY <2>1 DEF TypeOK
  <2> QED
    BY <1>3, <2>2 DEF TypeOK
<1>7. CASE draft' = [draft EXCEPT ![r].step = "joined"]
  BY <1>2, <1>7 DEF TypeOK
<1> QED
  BY <1>4, <1>5, <1>6, <1>7

LEMMA NextIsStance ==
  ASSUME TypeOK, NEW op \in Commands, NEW q \in Pairs, NEW a \in Alliances,
         NEW s \in NextStance(op, pact[q], a)
  PROVE  s \in Stances
BY DEF NextStance, Stances

\* A role given away leaves a table of members, none of them in a new alliance.
LEMMA RoleTyped ==
  ASSUME NEW m \in [Players -> Membership \cup {NoOne}], NEW p \in Players, NEW a \in Alliances,
         NEW role \in Roles, NEW rights \in SUBSET Rights
  PROVE  /\ WithRole(m, p, a, role, rights) \in [Players -> Membership \cup {NoOne}]
         /\ \A q \in Players :
              LET w == WithRole(m, p, a, role, rights)[q] IN
              /\ w = NoOne <=> m[q] = NoOne
              /\ m[q] # NoOne => w.alliance = m[q].alliance
              /\ q # p => w = m[q]
              /\ q = p /\ m[q] # NoOne /\ m[q].alliance = a => w.role = role
<1>1. [alliance |-> a, role |-> role, rights |-> rights] \in Membership
  BY DEF Membership
<1>2. NoOne \notin Membership
  BY Strangers
<1> QED
  BY <1>1, <1>2 DEF WithRole

LEMMA TypeStep == TypeOK /\ [Next]_vars => TypeOK'
<1> SUFFICES ASSUME TypeOK, [Next]_vars PROVE TypeOK'
  OBVIOUS
<1>1. ASSUME NEW r \in Requests, \E d \in Draft : Ask(r, d) PROVE TypeOK'
  BY <1>1, AskType
<1>2. ASSUME NEW r \in Requests, NEW p \in Players, NEW a \in Alliances, AskFound(r, p, a)
      PROVE  TypeOK'
  BY <1>1, <1>2, FoundDrafts
<1>3. ASSUME NEW r \in Requests, NEW i \in invites, AskRespond(r, i) PROVE TypeOK'
  BY <1>1, <1>3, RespondDrafts
<1>4. ASSUME NEW r \in Requests, NEW p \in Players, NEW op \in Ops, AskActor(r, op, p)
      PROVE  TypeOK'
  BY <1>1, <1>4, ActorDrafts
<1>5. ASSUME UNCHANGED tables, draft' \in [Requests -> Draft \cup {NoDraft, Done}] PROVE TypeOK'
  BY <1>5 DEF TypeOK, tables, Exists
<1>6. ASSUME NEW r \in Requests, ReadTarget(r) PROVE TypeOK'
  BY <1>5, <1>6, DraftsKept DEF ReadTarget, At
<1>7. ASSUME NEW r \in Requests, ReadPact(r) PROVE TypeOK'
  <2>1. draft[r] \in Draft /\ draft[r].op \in Commands /\ UNCHANGED tables
    BY <1>7 DEF ReadPact, At
  <2>2. \E s \in Stances : draft' = [draft EXCEPT ![r].step = "ready", ![r].next = s]
    BY <1>7, <2>1, DraftTyped, NextIsStance DEF ReadPact
  <2> QED
    BY <1>5, <2>1, <2>2, DraftsKept
<1>8. ASSUME NEW r \in Requests, CountSeats(r) PROVE TypeOK'
  BY <1>5, <1>8, DraftsKept DEF CountSeats, At
<1>9. ASSUME NEW r \in Requests, End(r) PROVE TypeOK'
  <2>1. draft[r] \in Draft /\ Finish(r) /\ UNCHANGED tables
    BY <1>9 DEF End, Finish
  <2> QED
    BY <1>5, <2>1, DraftsKept
<1>10. ASSUME NEW r \in Requests, Found(r) PROVE TypeOK'
  <2>1. draft[r] \in Draft /\ Finish(r) /\ UNCHANGED <<invites, pact>>
    BY <1>10 DEF Found, At
  <2>2. draft' \in [Requests -> Draft \cup {NoDraft, Done}]
    BY <2>1, DraftsKept
  <2>3. [alliance |-> draft[r].alliance, role |-> "founder", rights |-> Rights] \in Membership
    BY <2>1, DraftTyped DEF Membership, Roles
  <2>4. /\ founder' = [founder EXCEPT ![draft[r].alliance] = draft[r].by]
        /\ member' = [member EXCEPT ![draft[r].by] =
             [alliance |-> draft[r].alliance, role |-> "founder", rights |-> Rights]]
    BY <1>10 DEF Found
  <2>5. draft[r].by \in Players /\ draft[r].alliance \in Alliances
    BY <2>1, DraftTyped
  <2>6. \A a \in Alliances : Exists(a) => Exists(a)'
    BY <2>4, <2>5 DEF TypeOK, Exists
  <2>7. \A p \in Players : member[p] # NoOne => member[p].alliance \in Alliances
    BY DEF TypeOK, Membership
  <2>8. \A p \in Players : member'[p] # NoOne => founder'[member'[p].alliance] \in Players
    BY <2>4, <2>5, <2>6, <2>7 DEF TypeOK, Exists
  <2>9. (\A i \in invites' : Exists(i[1])') /\ (\A q \in Pairs : pact'[q] # Neutral => \A a \in q : Exists(a)')
    BY <2>1, <2>6 DEF TypeOK, Pairs
  <2> QED
    BY <2>1, <2>2, <2>3, <2>4, <2>5, <2>8, <2>9 DEF TypeOK, Exists
<1>11. ASSUME NEW r \in Requests, Invite(r) PROVE TypeOK'
  <2>1. draft[r] \in Draft /\ Finish(r)
    BY <1>11 DEF Invite, At
  <2>2. draft' \in [Requests -> Draft \cup {NoDraft, Done}]
    BY <2>1, DraftsKept
  <2>3. /\ UNCHANGED <<founder, member, pact>> /\ founder[draft[r].alliance] \in Players
        /\ invites' = invites \cup {<<draft[r].alliance, draft[r].who>>}
    BY <1>11 DEF Invite, Exists
  <2>4. invites' \subseteq Alliances \X Players /\ \A i \in invites' : founder'[i[1]] \in Players
    <3> DEFINE new == <<draft[r].alliance, draft[r].who>>
    <3>1. new \in Alliances \X Players /\ new[1] = draft[r].alliance
      BY <2>1, DraftTyped
    <3>2. invites \subseteq Alliances \X Players /\ \A i \in invites : founder[i[1]] \in Players
      BY DEF TypeOK, Exists
    <3>3. invites' = invites \cup {new} /\ founder[new[1]] \in Players /\ founder' = founder
      BY <2>3, <3>1
    <3> HIDE DEF new
    <3> QED
      BY <3>1, <3>2, <3>3
  <2> QED
    BY <2>2, <2>3, <2>4 DEF TypeOK, Exists
<1>12. ASSUME NEW r \in Requests, DropInvite(r) PROVE TypeOK'
  <2>1. draft[r] \in Draft /\ Finish(r)
    BY <1>12 DEF DropInvite, At
  <2> QED
    BY <1>12, <2>1, DraftsKept DEF DropInvite, TypeOK, Exists
<1>13. ASSUME NEW r \in Requests, Join(r) PROVE TypeOK'
  <2>1. draft[r] \in Draft /\ draft' = [draft EXCEPT ![r].step = "joined"] /\ Exists(draft[r].alliance)
        /\ UNCHANGED <<founder, invites, pact>>
        /\ member' = [member EXCEPT ![draft[r].by] =
             [alliance |-> draft[r].alliance, role |-> "member", rights |-> {}]]
    BY <1>13 DEF Join, At
  <2>2. [alliance |-> draft[r].alliance, role |-> "member", rights |-> {}] \in Membership
    BY <2>1, DraftTyped DEF Membership, Roles
  <2> QED
    BY <2>1, <2>2, DraftsKept, DraftTyped DEF TypeOK, Exists
<1>14. ASSUME NEW r \in Requests, UseInvite(r) PROVE TypeOK'
  <2>1. draft[r] \in Draft /\ Finish(r)
    BY <1>14 DEF UseInvite, At
  <2> QED
    BY <1>14, <2>1, DraftsKept DEF UseInvite, TypeOK, Exists
<1>15. ASSUME NEW r \in Requests, RemoveMember(r) PROVE TypeOK'
  <2>1. draft[r] \in Draft /\ Finish(r)
    BY <1>15 DEF RemoveMember, At
  <2> QED
    BY <1>15, <2>1, DraftsKept DEF RemoveMember, TypeOK, Exists
<1>16. ASSUME NEW r \in Requests, SetMemberRole(r) PROVE TypeOK'
  <2> DEFINE given == IF draft[r].role = "member" THEN {} ELSE draft[r].rights
  <2>1. draft[r] \in Draft /\ Finish(r) /\ UNCHANGED <<founder, invites, pact>>
        /\ member' = WithRole(member, draft[r].who, draft[r].alliance, draft[r].role, given)
    BY <1>16 DEF SetMemberRole, At
  <2>2. draft[r].who \in Players /\ draft[r].alliance \in Alliances /\ draft[r].role \in Roles
        /\ given \in SUBSET Rights
    BY <2>1, DraftTyped DEF Roles
  <2>3. /\ member' \in [Players -> Membership \cup {NoOne}]
        /\ \A q \in Players : /\ member'[q] = NoOne <=> member[q] = NoOne
                              /\ member[q] # NoOne => member'[q].alliance = member[q].alliance
    BY <2>1, <2>2, RoleTyped DEF TypeOK
  <2> QED
    BY <2>1, <2>3, DraftsKept DEF TypeOK, Exists
<1>17. ASSUME NEW r \in Requests, TransferFounder(r) PROVE TypeOK'
  <2> DEFINE d == draft[r]
             once == WithRole(member, d.by, d.alliance, "member", {})
  <2>1. draft[r] \in Draft /\ Finish(r) /\ UNCHANGED <<invites, pact>>
        /\ member' = WithRole(once, d.who, d.alliance, "founder", Rights)
        /\ founder' = IF Exists(d.alliance) THEN [founder EXCEPT ![d.alliance] = d.who] ELSE founder
    BY <1>17 DEF TransferFounder, At
  <2>2. d.who \in Players /\ d.by \in Players /\ d.alliance \in Alliances
    BY <2>1, DraftTyped
  <2>3. /\ once \in [Players -> Membership \cup {NoOne}]
        /\ \A q \in Players : /\ once[q] = NoOne <=> member[q] = NoOne
                              /\ member[q] # NoOne => once[q].alliance = member[q].alliance
    BY <2>2, RoleTyped DEF TypeOK, Roles
  <2>4. /\ member' \in [Players -> Membership \cup {NoOne}]
        /\ \A q \in Players : /\ member'[q] = NoOne <=> once[q] = NoOne
                              /\ once[q] # NoOne => member'[q].alliance = once[q].alliance
    <3> HIDE DEF once
    <3> QED
      BY <2>1, <2>2, <2>3, RoleTyped DEF Roles
  <2>5. founder' \in [Alliances -> Players \cup {Unused, Disbanded}]
        /\ \A a \in Alliances : Exists(a) => Exists(a)'
    BY <2>1, <2>2 DEF TypeOK, Exists
  <2>6. \A p \in Players : member[p] # NoOne => member[p].alliance \in Alliances
    BY DEF TypeOK, Membership
  <2>7. \A p \in Players : member'[p] # NoOne => founder'[member'[p].alliance] \in Players
    <3> HIDE DEF once, d
    <3> QED
      BY <2>3, <2>4, <2>5, <2>6 DEF TypeOK, Exists
  <2>8. (\A i \in invites' : Exists(i[1])') /\ (\A q \in Pairs : pact'[q] # Neutral => \A a \in q : Exists(a)')
    BY <2>1, <2>5 DEF TypeOK, Pairs
  <2> QED
    BY <2>1, <2>4, <2>5, <2>7, <2>8, DraftsKept DEF TypeOK, Exists
<1>18. ASSUME NEW r \in Requests, Disband(r) PROVE TypeOK'
  <2> DEFINE a == draft[r].alliance
  <2>1. draft[r] \in Draft /\ Finish(r) /\ a \in Alliances
    BY <1>18, DraftTyped DEF Disband, At
  <2>2. /\ founder' = [founder EXCEPT ![a] = IF Exists(a) THEN Disbanded ELSE @]
        /\ member' = [p \in Players |-> IF In(p, a) THEN NoOne ELSE member[p]]
        /\ invites' = {i \in invites : i[1] # a}
        /\ pact' = [q \in Pairs |-> IF a \in q THEN Neutral ELSE pact[q]]
    BY <1>18 DEF Disband
  <2>3. \A b \in Alliances : b # a /\ Exists(b) => Exists(b)'
    BY <2>1, <2>2 DEF TypeOK, Exists
  <2>4. Neutral \in Stances
    BY DEF Stances
  <2>5. \A p \in Players : member[p] # NoOne => member[p].alliance \in Alliances
    BY DEF TypeOK, Membership
  <2>6. \A p \in Players : member'[p] # NoOne => founder'[member'[p].alliance] \in Players
    BY <2>2, <2>3, <2>5 DEF TypeOK, In, Exists
  <2>7. /\ \A i \in invites' : Exists(i[1])'
        /\ \A q \in Pairs : pact'[q] # Neutral => \A b \in q : Exists(b)'
    <3>1. ASSUME NEW i \in invites' PROVE Exists(i[1])'
      BY <2>2, <2>3 DEF TypeOK
    <3>2. ASSUME NEW q \in Pairs, pact'[q] # Neutral, NEW b \in q PROVE Exists(b)'
      <4>1. b \in Alliances /\ b # a /\ pact[q] # Neutral
        BY <2>2, <3>2 DEF Pairs
      <4> QED
        BY <2>3, <4>1 DEF TypeOK
    <3> QED
      BY <3>1, <3>2
  <2> QED
    BY <2>1, <2>2, <2>4, <2>6, <2>7, DraftsKept DEF TypeOK, Exists
<1>19. ASSUME NEW r \in Requests, SetPact(r) PROVE TypeOK'
  <2> DEFINE q == {draft[r].alliance, draft[r].other}
  <2>1. draft[r] \in Draft /\ Finish(r) /\ q \in Pairs /\ draft[r].next \in Stances
    BY <1>19, DraftTyped DEF SetPact, At
  <2>2. /\ UNCHANGED <<founder, member, invites>>
        /\ pact' = [pact EXCEPT ![q] = draft[r].next]
        /\ draft[r].next = Neutral \/ \A a \in q : Exists(a)
    BY <1>19 DEF SetPact
  <2> QED
    BY <2>1, <2>2, DraftsKept DEF TypeOK, Exists
<1>20. CASE UNCHANGED vars
  BY <1>20 DEF vars, TypeOK, Exists
<1> QED
  BY <1>2, <1>3, <1>4, <1>6, <1>7, <1>8, <1>9, <1>10, <1>11, <1>12, <1>13, <1>14, <1>15, <1>16,
     <1>17, <1>18, <1>19, <1>20 DEF Next, NewRequest, Check, Write

\* In every history the tables keep their types: members, invitations and pacts are of
\* alliances that exist.
THEOREM AllianceTypeCorrect == Spec => []TypeOK
BY TypeInit, TypeStep, PTL DEF Spec

-----------------------------------------------------------------------------
(* Alliances: what quiet histories preserve *)

\* A new alliance's id is drawn by one request only and has no row yet.
Fresh == \A r \in Requests : draft[r] \in Draft /\ draft[r].op = "found" =>
  /\ founder[draft[r].alliance] = Unused
  /\ \A q \in Requests \ {r} : draft[q] \in Draft => draft[q].alliance # draft[r].alliance

Leads(p, a) == In(p, a) /\ member[p].role = "founder"
Follows(p, a) == In(p, a) /\ member[p].role # "founder"

\* What a command has read of those it relies on still holds.
Backed(d) ==
  /\ d.op = "leave" => Follows(d.by, d.alliance)
  /\ d.op \in {"disband", "transfer"} => Leads(d.by, d.alliance)
  /\ d.op \in {"expel", "role"} /\ d.step = "ready" => Follows(d.who, d.alliance)
  /\ d.op = "transfer" => d.who # d.by
  /\ d.op = "transfer" /\ d.step = "ready" => In(d.who, d.alliance)
Stands == \A r \in Requests : draft[r] \in Draft => Backed(draft[r])

\* The seat a join has counted is free.
Seats == \A r \in Requests : At(r, {"join"}, "ready") =>
  Cardinality(Members(draft[r].alliance)) < MaxMembers

\* Offers are made by one of the two, and what a command seals the other side has offered.
Sealed ==
  /\ \A q \in Pairs, a \in Alliances : pact[q] = Offer(a) => a \in q
  /\ \A r \in Requests : draft[r] \in Draft /\ draft[r].op \in Commands =>
       LET d == draft[r] IN
       /\ d.other # d.alliance
       /\ d.step = "ready" => \A a \in Alliances : d.next = Offer(a) => a = d.alliance
       /\ d.step = "ready" /\ d.next = Allied =>
            \/ pact[{d.alliance, d.other}] = Allied
            \/ d.op = "accord" /\ pact[{d.alliance, d.other}] = Offer(d.other)

\* Whoever is a member is so of one alliance, which exists.
LEMMA InOne ==
  ASSUME TypeOK, NEW p \in Players, NEW a \in Alliances, In(p, a)
  PROVE  /\ founder[a] \in Players /\ founder[a] \notin {Unused, Disbanded}
         /\ \A b \in Alliances : In(p, b) => b = a
         /\ member[p] \in Membership
BY Strangers DEF TypeOK, In, Exists

Asks(r) ==
  \/ \E p \in Players, a \in Alliances : AskFound(r, p, a)
  \/ \E i \in invites : AskRespond(r, i)
  \/ \E p \in Players, op \in Ops : AskActor(r, op, p)

LEMMA AsksDraft ==
  ASSUME TypeOK, NEW r \in Requests, Asks(r)
  PROVE  \E d \in Draft : Ask(r, d) /\
           \/ /\ d.op = "found" /\ d.step = "ready" /\ founder[d.alliance] = Unused
              /\ \A q \in Requests : draft[q] \in Draft => draft[q].alliance # d.alliance
           \/ /\ Exists(d.alliance)
              /\ \/ d.op = "decline"
                 \/ d.op = "join" /\ d.step = "asked"
           \/ /\ In(d.by, d.alliance) /\ Entitled(d.op, member[d.by])
              /\ d.op \in {"leave", "disband"} \/ d.op = "revoke" \/ d.step = "asked"
              /\ d.op \in {"expel", "transfer", "role"} => d.who # d.by
              /\ d.op \in Commands => d.other # d.alliance
              /\ d.as = member[d.by].role
<1>1. ASSUME NEW p \in Players, NEW a \in Alliances, AskFound(r, p, a)
      PROVE  \E d \in Draft : Ask(r, d) /\ d.op = "found" /\ d.step = "ready"
               /\ founder[d.alliance] = Unused
               /\ \A q \in Requests : draft[q] \in Draft => draft[q].alliance # d.alliance
  <2>1. PICK d \in Draft : Ask(r, d) /\ d.op = "found" /\ d.step = "ready" /\ d.alliance = a
    BY <1>1, FoundDrafts
  <2>2. founder[a] = Unused /\ \A q \in Requests : draft[q] \in Draft => draft[q].alliance # a
    BY <1>1 DEF AskFound
  <2> QED
    BY <2>1, <2>2
<1>2. ASSUME NEW i \in invites, AskRespond(r, i)
      PROVE  \E d \in Draft : /\ Ask(r, d) /\ Exists(d.alliance)
                              /\ d.op = "decline" \/ (d.op = "join" /\ d.step = "asked")
  BY <1>2, RespondDrafts
<1>3. ASSUME NEW p \in Players, NEW op \in Ops, AskActor(r, op, p)
      PROVE  \E d \in Draft : Ask(r, d)
               /\ In(d.by, d.alliance) /\ Entitled(d.op, member[d.by])
               /\ (d.op \in {"leave", "disband"} \/ d.op = "revoke" \/ d.step = "asked")
               /\ (d.op \in {"expel", "transfer", "role"} => d.who # d.by)
               /\ (d.op \in Commands => d.other # d.alliance)
               /\ d.as = member[d.by].role
  <2>1. PICK d \in Draft :
           /\ Ask(r, d)
           /\ d.op = op /\ d.by = p /\ In(p, d.alliance) /\ Entitled(op, member[p])
           /\ d.as = member[p].role /\ d.step \in {"asked", "ready"}
           /\ d.op \in {"leave", "disband"} \/ d.op = "revoke" \/ d.step = "asked"
           /\ d.op \in {"expel", "transfer", "role"} => d.who # p
           /\ d.op \in Commands => d.other # d.alliance
    BY <1>3, ActorDrafts
  <2> QED
    BY <2>1
<1> QED
  BY <1>1, <1>2, <1>3 DEF Asks

\* Whoever holds a draft after a step held it before, or has taken the step.
LEMMA OneActs ==
  ASSUME TypeOK, [Next]_vars, NEW r \in Requests, draft'[r] \in Draft
  PROVE  \/ draft'[r] = draft[r] /\ draft[r] \in Draft
         \/ Asks(r) \/ ReadTarget(r) \/ ReadPact(r) \/ CountSeats(r) \/ Join(r)
<1>1. Done \notin Draft
  BY Strangers
<1>2. ASSUME NEW q \in Requests, Finish(q) PROVE draft'[r] = draft[r]
  BY <1>1, <1>2 DEF Finish, TypeOK
<1>3. ASSUME NEW q \in Requests, End(q) PROVE draft'[r] = draft[r]
  BY <1>2, <1>3 DEF End, Finish
<1>4. ASSUME NEW q \in Requests,
             \/ Found(q) \/ Invite(q) \/ DropInvite(q) \/ UseInvite(q) \/ RemoveMember(q)
             \/ SetMemberRole(q) \/ TransferFounder(q) \/ Disband(q) \/ SetPact(q)
      PROVE  draft'[r] = draft[r]
  BY <1>2, <1>4 DEF Found, Invite, DropInvite, UseInvite, RemoveMember, SetMemberRole,
     TransferFounder, Disband, SetPact
<1>5. ASSUME NEW q \in Requests, q # r,
             \/ ReadTarget(q) \/ ReadPact(q) \/ CountSeats(q) \/ Join(q)
      PROVE  draft'[r] = draft[r]
  BY <1>5 DEF ReadTarget, ReadPact, CountSeats, Join, Ready, TypeOK
<1>6. ASSUME NEW q \in Requests, q # r, Asks(q) PROVE draft'[r] = draft[r]
  <2>1. PICK d \in Draft : Ask(q, d)
    BY <1>6, AsksDraft
  <2> QED
    BY <1>6, <2>1 DEF Ask, TypeOK
<1>7. CASE UNCHANGED vars
  BY <1>7 DEF vars
<1>8. CASE NewRequest
  <2>1. PICK q \in Requests : Asks(q)
    BY <1>8 DEF NewRequest, Asks
  <2> QED
    BY <1>6, <2>1
<1>9. CASE Check
  BY <1>3, <1>5, <1>9 DEF Check
<1>10. CASE Write
  BY <1>4, <1>5, <1>10 DEF Write
<1> QED
  BY <1>7, <1>8, <1>9, <1>10 DEF Next

LEMMA StandingKept ==
  ASSUME NEW p \in Players, NEW a \in Alliances, Standing(p)' = Standing(p), In(p, a)
  PROVE  In(p, a)' /\ (Leads(p, a) => Leads(p, a)') /\ (Follows(p, a) => Follows(p, a)')
<1>1. member[p] # NoOne /\ member[p].alliance = a /\ a # NoOne
  BY Strangers DEF In
<1>2. Standing(p) = <<a, member[p].role = "founder">>
  BY <1>1 DEF Standing
<1>3. member'[p] # NoOne
  <2>1. SUFFICES ASSUME member'[p] = NoOne PROVE FALSE
    OBVIOUS
  <2>2. Standing(p)' = <<NoOne, FALSE>>
    BY <2>1 DEF Standing
  <2> QED
    BY <1>1, <1>2, <2>2
<1>4. Standing(p)' = <<member'[p].alliance, member'[p].role = "founder">>
  BY <1>3 DEF Standing
<1>5. member'[p].alliance = a /\ (member'[p].role = "founder" <=> member[p].role = "founder")
  BY <1>2, <1>4
<1> QED
  BY <1>1, <1>3, <1>5 DEF In, Leads, Follows

\* A founder is outranked by nobody.
LEMMA OutrankedFollows ==
  ASSUME NEW a \in Roles, NEW b \in Roles, Outranks(a, b)
  PROVE  b # "founder"
BY DEF Outranks, Rank, Roles

LEMMA StandsStep ==
  ASSUME TypeOK, Stands, [Next /\ Quiet]_vars
  PROVE  Stands'
<1> SUFFICES ASSUME NEW r \in Requests, NEW e \in Draft, draft'[r] = e PROVE Backed(e)'
  BY DEF Stands
<1>0. e.by \in Players /\ e.who \in Players /\ e.alliance \in Alliances
  BY DEF Draft
<1>1. ASSUME Backed(e), \A p \in Relied(e) : Standing(p)' = Standing(p)
      PROVE  Backed(e)'
  <2>1. /\ e.op \in {"leave", "disband", "transfer"} => e.by \in Relied(e)
        /\ e.op \in {"expel", "role", "transfer"} /\ e.step = "ready" => e.who \in Relied(e)
    BY DEF Relied
  <2>2. ASSUME NEW p \in Players, NEW a \in Alliances, p \in Relied(e)
        PROVE  /\ In(p, a) => In(p, a)'
               /\ Leads(p, a) => Leads(p, a)'
               /\ Follows(p, a) => Follows(p, a)'
    BY <1>1, <2>2, StandingKept DEF Leads, Follows
  <2> QED
    BY <1>0, <1>1, <2>1, <2>2 DEF Backed
<1>2. ASSUME UNCHANGED tables, Backed(e) PROVE Backed(e)'
  BY <1>2 DEF tables, Backed, Follows, Leads, In
<1>3. CASE draft'[r] = draft[r] /\ draft[r] \in Draft
  <2>1. Backed(e)
    BY <1>3 DEF Stands
  <2>2. CASE UNCHANGED vars
    BY <1>2, <2>1, <2>2 DEF vars, tables
  <2>3. CASE Quiet
    BY <1>1, <1>3, <2>1, <2>3 DEF Quiet, QuietRanks, Waits
  <2> QED
    BY <2>2, <2>3
<1>4. CASE Asks(r)
  <2>1. PICK d \in Draft : Ask(r, d) /\
           \/ d.op = "found"
           \/ d.op \in {"decline", "join"}
           \/ /\ In(d.by, d.alliance) /\ Entitled(d.op, member[d.by])
              /\ d.op \in {"leave", "disband"} \/ d.op = "revoke" \/ d.step = "asked"
              /\ d.op \in {"expel", "transfer", "role"} => d.who # d.by
    BY <1>4, AsksDraft
  <2>2. e = d /\ UNCHANGED tables
    BY <2>1 DEF Ask, TypeOK
  <2>3. Backed(d)
    BY <2>1 DEF Backed, Entitled, Follows, Leads, Right, Commands
  <2> QED
    BY <1>2, <2>2, <2>3
<1>5. CASE ReadTarget(r)
  <2> DEFINE d == draft[r]
  <2>1. /\ d \in Draft /\ d.step = "asked" /\ d.op \in Targeted /\ UNCHANGED tables
        /\ d.op # "invite" => In(d.who, d.alliance)
        /\ d.op \in {"expel", "role"} => Outranks(d.as, member[d.who].role)
    BY <1>5 DEF ReadTarget, At, Targeted
  <2>2. e = [d EXCEPT !.step = "ready"]
    BY <1>5 DEF ReadTarget, Ready, TypeOK
  <2>3. e.op = d.op /\ e.by = d.by /\ e.who = d.who /\ e.alliance = d.alliance
    BY <2>1, <2>2 DEF Draft
  <2>4. d.op \in {"expel", "role"} => Follows(d.who, d.alliance)
    <3>1. ASSUME d.op \in {"expel", "role"} PROVE member[d.who].role # "founder"
      <4>1. In(d.who, d.alliance) /\ d.who \in Players /\ d.alliance \in Alliances /\ d.as \in Roles
        BY <2>1, <3>1 DEF Draft, Targeted
      <4>2. member[d.who].role \in Roles
        BY <4>1, InOne DEF Membership
      <4> QED
        BY <2>1, <3>1, <4>1, <4>2, OutrankedFollows
    <3> QED
      BY <2>1, <3>1 DEF Follows
  <2>5. Backed(d)
    BY <2>1 DEF Stands
  <2>6. Backed(e)
    BY <2>1, <2>3, <2>4, <2>5 DEF Targeted, Backed
  <2> QED
    BY <1>2, <2>1, <2>6
<1>6. CASE ReadPact(r) \/ CountSeats(r) \/ Join(r)
  <2>1. /\ draft[r] \in Draft
        /\ \/ e = [draft[r] EXCEPT !.step = "ready"]
           \/ \E s \in Stances : e = [draft[r] EXCEPT !.step = "ready", !.next = s]
           \/ e = [draft[r] EXCEPT !.step = "joined"]
        /\ draft[r].op \in Commands \cup {"join"}
    <3>1. CASE ReadPact(r)
      <4>1. draft[r] \in Draft /\ draft[r].op \in Commands
        BY <3>1 DEF ReadPact, At
      <4>2. PICK s \in NextStance(draft[r].op, pact[{draft[r].alliance, draft[r].other}],
                                  draft[r].alliance) :
              draft' = [draft EXCEPT ![r].step = "ready", ![r].next = s]
        BY <3>1 DEF ReadPact
      <4> QED
        BY <4>1, <4>2, DraftTyped, NextIsStance DEF TypeOK
    <3>2. CASE CountSeats(r)
      BY <3>2 DEF CountSeats, At, Ready, TypeOK
    <3>3. CASE Join(r)
      BY <3>3 DEF Join, At, TypeOK
    <3> QED
      BY <1>6, <3>1, <3>2, <3>3
  <2>2. e.op = draft[r].op
    BY <2>1 DEF Draft
  <2> QED
    BY <2>1, <2>2 DEF Commands, Backed
<1> QED
  BY <1>3, <1>4, <1>5, <1>6, OneActs

\* A request that reads or counts goes on with what it has asked for.
LEMMA OpKept ==
  ASSUME TypeOK, NEW r \in Requests, ReadTarget(r) \/ ReadPact(r) \/ CountSeats(r) \/ Join(r)
  PROVE  /\ draft[r] \in Draft /\ draft'[r] \in Draft
         /\ draft'[r].op = draft[r].op /\ draft'[r].alliance = draft[r].alliance
         /\ draft'[r].other = draft[r].other
<1>1. /\ draft[r] \in Draft
      /\ \/ draft'[r] = [draft[r] EXCEPT !.step = "ready"]
         \/ \E s \in Stances : draft'[r] = [draft[r] EXCEPT !.step = "ready", !.next = s]
         \/ draft'[r] = [draft[r] EXCEPT !.step = "joined"]
  <2>1. CASE ReadPact(r)
    <3>1. draft[r] \in Draft /\ draft[r].op \in Commands
      BY <2>1 DEF ReadPact, At
    <3>2. PICK s \in NextStance(draft[r].op, pact[{draft[r].alliance, draft[r].other}],
                                draft[r].alliance) :
            draft' = [draft EXCEPT ![r].step = "ready", ![r].next = s]
      BY <2>1 DEF ReadPact
    <3> QED
      BY <3>1, <3>2, DraftTyped, NextIsStance DEF TypeOK
  <2>2. CASE CountSeats(r)
    BY <2>2 DEF CountSeats, At, Ready, TypeOK
  <2>3. CASE Join(r)
    BY <2>3 DEF Join, At, TypeOK
  <2>4. CASE ReadTarget(r)
    BY <2>4 DEF ReadTarget, At, Ready, TypeOK
  <2> QED
    BY <2>1, <2>2, <2>3, <2>4
<1> QED
  BY <1>1 DEF Draft

LEMMA FreshStep ==
  ASSUME TypeOK, Fresh, [Next]_vars
  PROVE  Fresh'
<1> SUFFICES ASSUME NEW r \in Requests, NEW e \in Draft, draft'[r] = e, e.op = "found"
             PROVE  /\ founder'[e.alliance] = Unused
                    /\ \A q \in Requests \ {r} : draft'[q] \in Draft => draft'[q].alliance # e.alliance
  BY DEF Fresh
<1>0. \A a \in Alliances : Exists(a) => founder[a] # Unused
  BY Strangers DEF Exists
<1>1. CASE Asks(r)
  <2>1. PICK d \in Draft : Ask(r, d) /\
           \/ /\ d.op = "found" /\ founder[d.alliance] = Unused
              /\ \A q \in Requests : draft[q] \in Draft => draft[q].alliance # d.alliance
           \/ d.op \in {"decline", "join"}
           \/ Entitled(d.op, member[d.by])
    BY <1>1, AsksDraft
  <2>2. e = d /\ founder' = founder /\ \A q \in Requests \ {r} : draft'[q] = draft[q]
    BY <2>1 DEF Ask, TypeOK, tables
  <2>3. ~ Entitled("found", member[d.by])
    BY DEF Entitled, Right, Commands
  <2> QED
    BY <2>1, <2>2, <2>3
<1>2. CASE draft'[r] = draft[r]
  <2>1. /\ founder[e.alliance] = Unused /\ e.alliance \in Alliances
        /\ \A q \in Requests \ {r} : draft[q] \in Draft => draft[q].alliance # e.alliance
    BY <1>2 DEF Fresh, Draft
  <2>2. founder'[e.alliance] = Unused
    <3>1. ASSUME NEW q \in Requests, Found(q) PROVE founder'[e.alliance] = Unused
      <4>1. q # r
        BY <3>1, <1>2, Strangers DEF Found, Finish, TypeOK
      <4>2. draft[q].alliance # e.alliance
        BY <2>1, <3>1, <4>1 DEF Found, At
      <4> QED
        BY <2>1, <3>1, <4>2 DEF Found, TypeOK
    <3>2. ASSUME NEW q \in Requests, TransferFounder(q) \/ Disband(q)
          PROVE  founder'[e.alliance] = Unused
      BY <1>0, <2>1, <3>2 DEF TransferFounder, Disband, TypeOK
    <3>3. ASSUME NEW q \in Requests,
                 \/ Invite(q) \/ DropInvite(q) \/ Join(q) \/ UseInvite(q) \/ RemoveMember(q)
                 \/ SetMemberRole(q) \/ SetPact(q) \/ End(q) \/ Asks(q)
                 \/ ReadTarget(q) \/ ReadPact(q) \/ CountSeats(q)
          PROVE  founder'[e.alliance] = Unused
      <4>1. CASE Invite(q) \/ DropInvite(q) \/ Join(q) \/ UseInvite(q) \/ RemoveMember(q)
        BY <2>1, <4>1 DEF Invite, DropInvite, Join, UseInvite, RemoveMember
      <4>2. CASE SetMemberRole(q) \/ SetPact(q) \/ End(q)
        BY <2>1, <4>2 DEF SetMemberRole, SetPact, End, tables
      <4>3. CASE Asks(q)
        BY <2>1, <4>3 DEF Asks, AskFound, AskRespond, AskActor, Ask, tables
      <4>4. CASE ReadTarget(q) \/ ReadPact(q) \/ CountSeats(q)
        BY <2>1, <4>4 DEF ReadTarget, ReadPact, CountSeats, tables
      <4> QED
        BY <3>3, <4>1, <4>2, <4>3, <4>4
    <3>4. CASE UNCHANGED vars
      BY <2>1, <3>4 DEF vars
    <3> QED
      BY <3>1, <3>2, <3>3, <3>4 DEF Next, NewRequest, Check, Write, Asks
  <2>3. ASSUME NEW q \in Requests \ {r}, draft'[q] \in Draft
        PROVE  draft'[q].alliance # e.alliance
    <3>1. CASE draft'[q] = draft[q]
      BY <2>1, <2>3, <3>1
    <3>2. CASE ReadTarget(q) \/ ReadPact(q) \/ CountSeats(q) \/ Join(q)
      BY <2>1, <3>2, OpKept
    <3>3. CASE Asks(q)
      <4>1. PICK d \in Draft : Ask(q, d) /\
               \/ \A s \in Requests : draft[s] \in Draft => draft[s].alliance # d.alliance
               \/ Exists(d.alliance)
               \/ In(d.by, d.alliance)
        BY <3>3, AsksDraft
      <4>2. draft'[q] = d /\ d.alliance \in Alliances /\ d.by \in Players
        BY <4>1 DEF Ask, TypeOK, Draft
      <4>3. draft[r] \in Draft /\ draft[r].alliance = e.alliance
        BY <1>2
      <4> QED
        BY <1>0, <2>1, <4>1, <4>2, <4>3, InOne
    <3> QED
      BY <2>3, <3>1, <3>2, <3>3, OneActs
  <2> QED
    BY <2>2, <2>3
<1>3. CASE ReadTarget(r) \/ ReadPact(r) \/ CountSeats(r) \/ Join(r)
  BY <1>3, OpKept DEF ReadTarget, ReadPact, CountSeats, Join, At, Targeted, Commands
<1> QED
  BY <1>1, <1>2, <1>3, OneActs

\* Actions that touch neither the alliances' rows nor the members'.
LEMMA OthersKeep ==
  ASSUME NEW r \in Requests,
         \/ Invite(r) \/ DropInvite(r) \/ UseInvite(r) \/ SetPact(r) \/ End(r) \/ Asks(r)
         \/ ReadTarget(r) \/ ReadPact(r) \/ CountSeats(r)
  PROVE  founder' = founder /\ member' = member
BY DEF Invite, DropInvite, UseInvite, SetPact, End, Asks, AskFound, AskRespond, AskActor, Ask,
   ReadTarget, ReadPact, CountSeats, tables

LEMMA FounderStep ==
  ASSUME TypeOK, Fresh, Stands, OneFounder, [Next]_vars
  PROVE  OneFounder'
<1> SUFFICES ASSUME NEW a \in Alliances, Exists(a)', NEW p \in Players
             PROVE  Leads(p, a)' <=> p = founder'[a]
  BY DEF OneFounder, Leads
<1>0. \A b \in Alliances, q \in Players : Exists(b) => (Leads(q, b) <=> q = founder[b])
  BY DEF OneFounder, Leads
<1>1. ASSUME founder' = founder, member' = member PROVE Leads(p, a)' <=> p = founder'[a]
  BY <1>0, <1>1 DEF Leads, In, Exists
<1>2. CASE UNCHANGED vars
  BY <1>1, <1>2 DEF vars
<1>3. ASSUME NEW r \in Requests, Found(r) PROVE Leads(p, a)' <=> p = founder'[a]
  <2> DEFINE d == draft[r]
  <2>1. /\ d \in Draft /\ d.op = "found" /\ d.by \in Players /\ d.alliance \in Alliances
        /\ member[d.by] = NoOne
        /\ founder' = [founder EXCEPT ![d.alliance] = d.by]
        /\ member' = [member EXCEPT ![d.by] =
             [alliance |-> d.alliance, role |-> "founder", rights |-> Rights]]
    BY <1>3, DraftTyped DEF Found, At
  <2>2. ~ In(p, d.alliance)
    BY <2>1, InOne DEF Fresh
  <2>3. CASE p = d.by
    <3>1. member'[p] = [alliance |-> d.alliance, role |-> "founder", rights |-> Rights]
          /\ member'[p] # NoOne
      BY <2>1, <2>3, Strangers DEF TypeOK, Membership, Roles
    <3>2. CASE a = d.alliance
      BY <2>1, <2>3, <3>1, <3>2 DEF Leads, In, TypeOK
    <3>3. CASE a # d.alliance
      <4>1. Exists(a) /\ founder'[a] = founder[a] /\ ~ Leads(p, a)
        BY <2>1, <2>3, <3>3 DEF Exists, TypeOK, Leads, In
      <4> QED
        BY <1>0, <3>1, <3>3, <4>1 DEF Leads, In
    <3> QED
      BY <3>2, <3>3
  <2>4. CASE p # d.by
    <3>1. member'[p] = member[p]
      BY <2>1, <2>4 DEF TypeOK
    <3>2. CASE a = d.alliance
      BY <2>1, <2>2, <2>4, <3>1, <3>2 DEF Leads, In, TypeOK
    <3>3. CASE a # d.alliance
      <4>1. Exists(a) /\ founder'[a] = founder[a]
        BY <2>1, <3>3 DEF Exists, TypeOK
      <4> QED
        BY <1>0, <3>1, <4>1 DEF Leads, In
    <3> QED
      BY <3>2, <3>3
  <2> QED
    BY <2>3, <2>4
<1>4. ASSUME NEW r \in Requests, Join(r) PROVE Leads(p, a)' <=> p = founder'[a]
  <2> DEFINE d == draft[r]
  <2>1. /\ d \in Draft /\ d.by \in Players /\ member[d.by] = NoOne /\ founder' = founder
        /\ member' = [member EXCEPT ![d.by] =
             [alliance |-> d.alliance, role |-> "member", rights |-> {}]]
    BY <1>4, DraftTyped DEF Join, At
  <2>2. CASE p = d.by
    <3>1. ~ Leads(p, a) /\ member'[p].role = "member"
      BY <2>1, <2>2 DEF Leads, In, TypeOK
    <3> QED
      BY <1>0, <2>1, <3>1 DEF Leads, Exists
  <2>3. CASE p # d.by
    BY <1>0, <2>1, <2>3 DEF Leads, In, Exists, TypeOK
  <2> QED
    BY <2>2, <2>3
<1>5. ASSUME NEW r \in Requests, RemoveMember(r) PROVE Leads(p, a)' <=> p = founder'[a]
  <2> DEFINE d == draft[r]
             gone == IF d.op = "leave" THEN d.by ELSE d.who
  <2>1. /\ d \in Draft /\ gone \in Players /\ d.alliance \in Alliances /\ founder' = founder
        /\ member' = [member EXCEPT ![gone] = NoOne] /\ Follows(gone, d.alliance)
    BY <1>5, DraftTyped DEF RemoveMember, At, Stands, Backed
  <2> HIDE DEF gone
  <2>2. CASE p = gone
    <3>1. ~ Leads(p, a) /\ ~ Leads(p, a)'
      BY <2>1, <2>2 DEF Leads, Follows, In, TypeOK
    <3> QED
      BY <1>0, <2>1, <3>1 DEF Exists
  <2>3. CASE p # gone
    BY <1>0, <2>1, <2>3 DEF Leads, In, Exists, TypeOK
  <2> QED
    BY <2>2, <2>3
<1>6. ASSUME NEW r \in Requests, SetMemberRole(r) PROVE Leads(p, a)' <=> p = founder'[a]
  <2> DEFINE d == draft[r]
             given == IF d.role = "member" THEN {} ELSE d.rights
  <2>1. /\ d \in Draft /\ d.who \in Players /\ d.alliance \in Alliances /\ founder' = founder
        /\ d.role \in Roles /\ d.role # "founder" /\ given \in SUBSET Rights
        /\ member' = WithRole(member, d.who, d.alliance, d.role, given)
        /\ Follows(d.who, d.alliance)
    BY <1>6, DraftTyped DEF SetMemberRole, At, Stands, Backed, Roles
  <2>2. /\ p # d.who => member'[p] = member[p]
        /\ p = d.who => member'[p] # NoOne /\ member'[p].alliance = d.alliance /\ member'[p].role = d.role
    <3> HIDE DEF given
    <3> QED
      BY <2>1, RoleTyped DEF TypeOK, Follows, In
  <2>3. CASE p = d.who
    <3>1. ~ Leads(p, a) /\ ~ Leads(p, a)'
      BY <2>1, <2>2, <2>3 DEF Leads, Follows, In
    <3> QED
      BY <1>0, <2>1, <3>1 DEF Exists
  <2>4. CASE p # d.who
    BY <1>0, <2>1, <2>2, <2>4 DEF Leads, In, Exists
  <2> QED
    BY <2>3, <2>4
<1>7. ASSUME NEW r \in Requests, TransferFounder(r) PROVE Leads(p, a)' <=> p = founder'[a]
  <2> DEFINE d == draft[r]
             once == WithRole(member, d.by, d.alliance, "member", {})
  <2>1. /\ d \in Draft /\ d.who \in Players /\ d.by \in Players /\ d.alliance \in Alliances
        /\ Leads(d.by, d.alliance) /\ In(d.who, d.alliance) /\ d.who # d.by
        /\ member' = WithRole(once, d.who, d.alliance, "founder", Rights)
    BY <1>7, DraftTyped DEF TransferFounder, At, Stands, Backed
  <2>2. Exists(d.alliance) /\ founder' = [founder EXCEPT ![d.alliance] = d.who]
    BY <1>7, <2>1, InOne DEF TransferFounder, Exists
  <2>3. /\ once \in [Players -> Membership \cup {NoOne}]
        /\ \A q \in Players : q # d.by => once[q] = member[q]
        /\ once[d.by] # NoOne /\ once[d.by].alliance = d.alliance /\ once[d.by].role = "member"
    BY <2>1, RoleTyped DEF TypeOK, Roles, Leads, In
  <2> HIDE DEF once
  <2>4. /\ \A q \in Players : q # d.who => member'[q] = once[q]
        /\ member'[d.who] # NoOne /\ member'[d.who].alliance = d.alliance
        /\ member'[d.who].role = "founder"
    BY <2>1, <2>3, RoleTyped DEF Roles, In
  <2>5. CASE a = d.alliance
    <3>1. founder'[a] = d.who
      BY <2>1, <2>2, <2>5 DEF TypeOK
    <3>2. p # d.who => ~ Leads(p, a)'
      <4>1. CASE p = d.by
        BY <2>1, <2>3, <2>4, <4>1 DEF Leads
      <4>2. CASE p # d.by /\ p # d.who
        BY <1>0, <2>1, <2>2, <2>3, <2>4, <2>5, <4>2 DEF Leads, In
      <4> QED
        BY <4>1, <4>2
    <3> QED
      BY <2>4, <2>5, <3>1, <3>2 DEF Leads, In
  <2>6. CASE a # d.alliance
    <3>1. founder'[a] = founder[a] /\ Exists(a)
      BY <2>2, <2>6 DEF Exists, TypeOK
    <3>2. Leads(p, a)' <=> Leads(p, a)
      <4>1. CASE p \in {d.by, d.who}
        BY <2>1, <2>3, <2>4, <2>6, <4>1 DEF Leads, In
      <4>2. CASE p \notin {d.by, d.who}
        BY <2>3, <2>4, <4>2 DEF Leads, In
      <4> QED
        BY <4>1, <4>2
    <3> QED
      BY <1>0, <3>1, <3>2
  <2> QED
    BY <2>5, <2>6
<1>8. ASSUME NEW r \in Requests, Disband(r) PROVE Leads(p, a)' <=> p = founder'[a]
  <2> DEFINE b == draft[r].alliance
  <2>1. /\ b \in Alliances
        /\ founder' = [founder EXCEPT ![b] = IF Exists(b) THEN Disbanded ELSE @]
        /\ member' = [q \in Players |-> IF In(q, b) THEN NoOne ELSE member[q]]
    BY <1>8, DraftTyped DEF Disband, At
  <2>2. a # b
    BY <2>1, Strangers DEF Exists, TypeOK
  <2>3. Exists(a) /\ founder'[a] = founder[a]
    BY <2>1, <2>2 DEF Exists, TypeOK
  <2>4. Leads(p, a)' <=> Leads(p, a)
    BY <2>1, <2>2 DEF Leads, In
  <2> QED
    BY <1>0, <2>3, <2>4
<1> QED
  BY <1>1, <1>2, <1>3, <1>4, <1>5, <1>6, <1>7, <1>8, OthersKeep
     DEF Next, NewRequest, Check, Write, Asks

LEMMA RankStep ==
  ASSUME TypeOK, Stands, OneFounder, [Next]_vars,
         NEW p \in Players, member[p] # NoOne, member'[p] = NoOne
  PROVE  LET a == member[p].alliance IN \E r \in Requests :
           /\ draft[r] \in Draft /\ draft'[r] = Done /\ draft[r].alliance = a
           /\ \/ draft[r].op = "disband" /\ draft[r].by = founder[a]
              \/ member[p].role # "founder" /\ draft[r].op = "leave" /\ draft[r].by = p
              \/ member[p].role # "founder" /\ draft[r].op = "expel" /\ draft[r].who = p
<1>1. ASSUME NEW r \in Requests, RemoveMember(r)
      PROVE  /\ draft[r] \in Draft /\ draft'[r] = Done /\ draft[r].alliance = member[p].alliance
             /\ \/ member[p].role # "founder" /\ draft[r].op = "leave" /\ draft[r].by = p
                \/ member[p].role # "founder" /\ draft[r].op = "expel" /\ draft[r].who = p
  <2> DEFINE d == draft[r]
             gone == IF d.op = "leave" THEN d.by ELSE d.who
  <2>1. /\ d \in Draft /\ gone \in Players /\ draft'[r] = Done /\ d.op \in {"leave", "expel"}
        /\ member' = [member EXCEPT ![gone] = NoOne] /\ Follows(gone, d.alliance)
    BY <1>1, DraftTyped DEF RemoveMember, At, Stands, Backed, Finish, TypeOK
  <2>2. p = gone
    BY <2>1 DEF TypeOK
  <2> QED
    BY <2>1, <2>2 DEF Follows, In
<1>2. ASSUME NEW r \in Requests, Disband(r)
      PROVE  /\ draft[r] \in Draft /\ draft'[r] = Done /\ draft[r].alliance = member[p].alliance
             /\ draft[r].op = "disband" /\ draft[r].by = founder[member[p].alliance]
  <2> DEFINE a == draft[r].alliance
  <2>1. /\ a \in Alliances /\ draft[r] \in Draft /\ draft[r].op = "disband" /\ draft'[r] = Done
        /\ member' = [q \in Players |-> IF In(q, a) THEN NoOne ELSE member[q]]
        /\ Leads(draft[r].by, a) /\ draft[r].by \in Players
    BY <1>2, DraftTyped DEF Disband, At, Stands, Backed, Finish, TypeOK
  <2>2. In(p, a) /\ Exists(a)
    BY <2>1, InOne DEF Exists, Leads
  <2>3. draft[r].by = founder[a]
    BY <2>1, <2>2 DEF OneFounder, Leads
  <2> QED
    BY <2>1, <2>2, <2>3 DEF In
<1>3. ASSUME NEW r \in Requests, Found(r) \/ Join(r) PROVE FALSE
  <2>1. /\ draft[r] \in Draft
        /\ \/ member' = [member EXCEPT ![draft[r].by] =
                [alliance |-> draft[r].alliance, role |-> "founder", rights |-> Rights]]
           \/ member' = [member EXCEPT ![draft[r].by] =
                [alliance |-> draft[r].alliance, role |-> "member", rights |-> {}]]
    BY <1>3 DEF Found, Join, At
  <2>2. \A role \in Roles, g \in SUBSET Rights :
          [alliance |-> draft[r].alliance, role |-> role, rights |-> g] # NoOne
    <3>1. \A role \in Roles, g \in SUBSET Rights :
            [alliance |-> draft[r].alliance, role |-> role, rights |-> g] \in Membership
      BY <2>1, DraftTyped DEF Membership
    <3> QED
      BY <3>1, Strangers
  <2> QED
    BY <2>1, <2>2 DEF TypeOK, Roles
<1>4. ASSUME NEW r \in Requests, SetMemberRole(r) PROVE FALSE
  <2> DEFINE given == IF draft[r].role = "member" THEN {} ELSE draft[r].rights
  <2>1. /\ draft[r].who \in Players /\ draft[r].alliance \in Alliances /\ draft[r].role \in Roles
        /\ given \in SUBSET Rights
        /\ member' = WithRole(member, draft[r].who, draft[r].alliance, draft[r].role, given)
    BY <1>4, DraftTyped DEF SetMemberRole, At, Roles
  <2> HIDE DEF given
  <2> QED
    BY <2>1, RoleTyped DEF TypeOK
<1>5. ASSUME NEW r \in Requests, TransferFounder(r) PROVE FALSE
  <2> DEFINE d == draft[r]
             once == WithRole(member, d.by, d.alliance, "member", {})
  <2>1. /\ d.who \in Players /\ d.by \in Players /\ d.alliance \in Alliances
        /\ member' = WithRole(once, d.who, d.alliance, "founder", Rights)
    BY <1>5, DraftTyped DEF TransferFounder, At
  <2>2. once \in [Players -> Membership \cup {NoOne}] /\ once[p] # NoOne
    BY <2>1, RoleTyped DEF TypeOK, Roles
  <2> HIDE DEF once, d
  <2> QED
    BY <2>1, <2>2, RoleTyped DEF Roles
<1>6. CASE UNCHANGED vars
  BY <1>6 DEF vars
<1> QED
  BY <1>1, <1>2, <1>3, <1>4, <1>5, <1>6, OthersKeep DEF Next, NewRequest, Check, Write, Asks

LEMMA MembersFinite ==
  ASSUME NEW a \in Alliances
  PROVE  IsFiniteSet(Members(a)) /\ Cardinality(Members(a)) \in Nat
BY AllianceAssumption, FS_Subset, FS_CardinalityType DEF Members

LEMMA SeatsStep ==
  ASSUME TypeOK, TypeOK', Fresh, CapHeld, Seats, [Next /\ Quiet]_vars
  PROVE  CapHeld' /\ Seats'
<1>0. MaxMembers \in Nat /\ MaxMembers > 0
  BY AllianceAssumption
<1>1. ASSUME NEW a \in Alliances, Members(a)' \subseteq Members(a)
      PROVE  /\ Cardinality(Members(a))' <= Cardinality(Members(a))
             /\ Cardinality(Members(a))' \in Nat
  <2>1. IsFiniteSet(Members(a)) /\ Cardinality(Members(a)) \in Nat
    BY MembersFinite
  <2> QED
    BY <1>1, <2>1, FS_Subset, FS_CardinalityType
<1>2. ASSUME NEW a \in Alliances PROVE Cardinality(Members(a))' <= MaxMembers
  <2>0. Cardinality(Members(a)) <= MaxMembers /\ Cardinality(Members(a)) \in Nat
        /\ IsFiniteSet(Members(a))
    BY MembersFinite DEF CapHeld
  <2>1. ASSUME NEW r \in Requests, Found(r), a = draft[r].alliance
        PROVE  Cardinality(Members(a))' <= MaxMembers
    <3>1. Members(a) = {}
      BY <2>1, InOne DEF Found, At, Fresh, Members
    <3>2. draft[r].by \in Players
          /\ member' = [member EXCEPT ![draft[r].by] =
               [alliance |-> draft[r].alliance, role |-> "founder", rights |-> Rights]]
      BY <2>1, DraftTyped DEF Found, At
    <3>3. Members(a)' \subseteq {draft[r].by}
      BY <3>1, <3>2 DEF Members, In, TypeOK
    <3>4. Cardinality({draft[r].by}) = 1 /\ IsFiniteSet({draft[r].by})
      BY FS_Singleton
    <3>5. Cardinality(Members(a)') <= 1 /\ Cardinality(Members(a)') \in Nat
      BY <3>3, <3>4, FS_Subset, FS_CardinalityType
    <3> QED
      BY <1>0, <3>5
  <2>2. ASSUME NEW r \in Requests, Join(r), a = draft[r].alliance
        PROVE  Cardinality(Members(a))' <= MaxMembers
    <3>1. Cardinality(Members(a)) < MaxMembers
      BY <2>2 DEF Seats, Join
    <3>2. draft[r].by \in Players
          /\ member' = [member EXCEPT ![draft[r].by] =
               [alliance |-> draft[r].alliance, role |-> "member", rights |-> {}]]
      BY <2>2, DraftTyped DEF Join, At
    <3>3. Members(a)' \subseteq Members(a) \cup {draft[r].by}
      BY <3>2 DEF Members, In, TypeOK
    <3>4. /\ IsFiniteSet(Members(a) \cup {draft[r].by})
          /\ \/ Cardinality(Members(a) \cup {draft[r].by}) = Cardinality(Members(a))
             \/ Cardinality(Members(a) \cup {draft[r].by}) = Cardinality(Members(a)) + 1
      BY <2>0, FS_AddElement
    <3>5. Cardinality(Members(a)') <= Cardinality(Members(a) \cup {draft[r].by})
          /\ Cardinality(Members(a)') \in Nat
      BY <3>3, <3>4, FS_Subset, FS_CardinalityType
    <3> QED
      BY <1>0, <2>0, <3>1, <3>4, <3>5
  <2>3. ASSUME Members(a)' \subseteq Members(a) PROVE Cardinality(Members(a))' <= MaxMembers
    BY <1>0, <1>1, <2>0, <2>3
  <2>4. ASSUME NEW r \in Requests, Found(r) \/ Join(r), a # draft[r].alliance
        PROVE  Members(a)' \subseteq Members(a)
    <3>1. draft[r].by \in Players /\
          \/ member' = [member EXCEPT ![draft[r].by] =
               [alliance |-> draft[r].alliance, role |-> "founder", rights |-> Rights]]
          \/ member' = [member EXCEPT ![draft[r].by] =
               [alliance |-> draft[r].alliance, role |-> "member", rights |-> {}]]
      BY <2>4, DraftTyped DEF Found, Join, At
    <3> QED
      BY <2>4, <3>1 DEF Members, In, TypeOK
  <2>5. ASSUME NEW r \in Requests, RemoveMember(r) PROVE Members(a)' \subseteq Members(a)
    BY <2>5 DEF RemoveMember, Members, In, TypeOK
  <2>6. ASSUME NEW r \in Requests, SetMemberRole(r) PROVE Members(a)' \subseteq Members(a)
    <3> DEFINE given == IF draft[r].role = "member" THEN {} ELSE draft[r].rights
    <3>1. /\ draft[r].who \in Players /\ draft[r].alliance \in Alliances /\ draft[r].role \in Roles
          /\ given \in SUBSET Rights
          /\ member' = WithRole(member, draft[r].who, draft[r].alliance, draft[r].role, given)
      BY <2>6, DraftTyped DEF SetMemberRole, At, Roles
    <3> HIDE DEF given
    <3> QED
      BY <3>1, RoleTyped DEF TypeOK, Members, In
  <2>7. ASSUME NEW r \in Requests, TransferFounder(r) PROVE Members(a)' \subseteq Members(a)
    <3> DEFINE d == draft[r]
               once == WithRole(member, d.by, d.alliance, "member", {})
    <3>1. /\ d.who \in Players /\ d.by \in Players /\ d.alliance \in Alliances
          /\ member' = WithRole(once, d.who, d.alliance, "founder", Rights)
      BY <2>7, DraftTyped DEF TransferFounder, At
    <3>2. /\ once \in [Players -> Membership \cup {NoOne}]
          /\ \A q \in Players : /\ once[q] = NoOne <=> member[q] = NoOne
                                /\ member[q] # NoOne => once[q].alliance = member[q].alliance
      BY <3>1, RoleTyped DEF TypeOK, Roles
    <3> HIDE DEF once, d
    <3>3. \A q \in Players : /\ member'[q] = NoOne <=> once[q] = NoOne
                             /\ once[q] # NoOne => member'[q].alliance = once[q].alliance
      BY <3>1, <3>2, RoleTyped DEF Roles
    <3> QED
      BY <3>2, <3>3 DEF Members, In
  <2>8. ASSUME NEW r \in Requests, Disband(r) PROVE Members(a)' \subseteq Members(a)
    BY <2>8 DEF Disband, Members, In
  <2>9. ASSUME member' = member PROVE Members(a)' \subseteq Members(a)
    BY <2>9 DEF Members, In
  <2>10. CASE UNCHANGED vars
    BY <2>3, <2>9, <2>10 DEF vars
  <2> QED
    BY <2>1, <2>2, <2>3, <2>4, <2>5, <2>6, <2>7, <2>8, <2>9, <2>10, OthersKeep
       DEF Next, NewRequest, Check, Write, Asks
<1>3. ASSUME NEW r \in Requests, NEW e \in Draft, draft'[r] = e, e.op = "join", e.step = "ready"
      PROVE  Cardinality(Members(e.alliance))' < MaxMembers
  <2>0. e.alliance \in Alliances /\ Cardinality(Members(e.alliance)) \in Nat
    BY MembersFinite DEF Draft
  <2>1. CASE draft'[r] = draft[r]
    <3>1. Cardinality(Members(e.alliance)) < MaxMembers
      BY <1>3, <2>1 DEF Seats, At
    <3>2. Members(e.alliance)' \subseteq Members(e.alliance)
      <4>1. CASE UNCHANGED vars
        BY <4>1 DEF vars, Members, In
      <4>2. CASE Quiet
        BY <1>3, <2>1, <4>2 DEF Quiet, QuietSeats, Waits, At
      <4> QED
        BY <4>1, <4>2
    <3> QED
      BY <1>0, <1>1, <2>0, <3>1, <3>2
  <2>2. CASE CountSeats(r)
    <3>1. draft[r].alliance = e.alliance /\ Cardinality(Members(draft[r].alliance)) < MaxMembers
          /\ member' = member
      BY <1>3, <2>2, OpKept DEF CountSeats, tables
    <3> QED
      BY <3>1 DEF Members, In
  <2>3. CASE Asks(r)
    <3>1. PICK d \in Draft : Ask(r, d) /\
             \/ d.op \in {"found", "decline"}
             \/ d.op = "join" /\ d.step = "asked"
             \/ Entitled(d.op, member[d.by])
      BY <2>3, AsksDraft
    <3>2. e = d /\ ~ Entitled("join", member[d.by])
      BY <1>3, <3>1 DEF Ask, TypeOK, Entitled, Right, Commands
    <3> QED
      BY <1>3, <3>1, <3>2
  <2>4. CASE ReadTarget(r) \/ ReadPact(r)
    BY <1>3, <2>4, OpKept DEF ReadTarget, ReadPact, At, Targeted, Commands
  <2>5. CASE Join(r)
    BY <1>3, <2>5 DEF Join, At, TypeOK, Draft
  <2> QED
    BY <1>3, <2>1, <2>2, <2>3, <2>4, <2>5, OneActs
<1> QED
  BY <1>2, <1>3 DEF CapHeld, Seats, At

LEMMA StancesDiffer ==
  /\ \A a, b \in Alliances : Offer(a) = Offer(b) => a = b
  /\ \A a \in Alliances : Offer(a) \notin {Neutral, War, Allied}
  /\ Neutral \notin {War, Allied} /\ War # Allied
BY Strangers DEF Offer, War, Allied

LEMMA PactKept ==
  ASSUME [Next]_vars
  PROVE  \/ pact' = pact
         \/ \E r \in Requests : SetPact(r) \/ Disband(r)
<1>1. ASSUME NEW r \in Requests,
             \/ Invite(r) \/ DropInvite(r) \/ UseInvite(r) \/ End(r) \/ Asks(r)
             \/ ReadTarget(r) \/ ReadPact(r) \/ CountSeats(r) \/ Found(r) \/ Join(r)
             \/ RemoveMember(r) \/ SetMemberRole(r) \/ TransferFounder(r)
      PROVE  pact' = pact
  <2>1. CASE Invite(r) \/ DropInvite(r) \/ UseInvite(r) \/ End(r)
    BY <2>1 DEF Invite, DropInvite, UseInvite, End, tables
  <2>2. CASE Asks(r)
    BY <2>2 DEF Asks, AskFound, AskRespond, AskActor, Ask, tables
  <2>3. CASE ReadTarget(r) \/ ReadPact(r) \/ CountSeats(r)
    BY <2>3 DEF ReadTarget, ReadPact, CountSeats, tables
  <2>4. CASE Found(r) \/ Join(r) \/ RemoveMember(r)
    BY <2>4 DEF Found, Join, RemoveMember
  <2>5. CASE SetMemberRole(r) \/ TransferFounder(r)
    BY <2>5 DEF SetMemberRole, TransferFounder
  <2> QED
    BY <1>1, <2>1, <2>2, <2>3, <2>4, <2>5
<1>2. CASE UNCHANGED vars
  BY <1>2 DEF vars
<1> QED
  BY <1>1, <1>2 DEF Next, NewRequest, Check, Write, Asks

LEMMA SealedStep ==
  ASSUME TypeOK, Sealed, [Next /\ Quiet]_vars
  PROVE  Sealed'
<1> USE StancesDiffer
<1>1. ASSUME NEW q \in Pairs, NEW a \in Alliances, pact'[q] = Offer(a) PROVE a \in q
  <2>1. ASSUME NEW r \in Requests, SetPact(r) PROVE a \in q
    <3> DEFINE d == draft[r]
    <3>1. /\ d \in Draft /\ d.op \in Commands /\ d.step = "ready"
          /\ pact' = [pact EXCEPT ![{d.alliance, d.other}] = d.next]
      BY <2>1 DEF SetPact, At
    <3>2. CASE q = {d.alliance, d.other}
      <4>1. d.next = Offer(a)
        BY <1>1, <3>1, <3>2 DEF TypeOK
      <4> QED
        BY <3>1, <3>2, <4>1 DEF Sealed
    <3>3. CASE q # {d.alliance, d.other}
      BY <1>1, <3>1, <3>3 DEF TypeOK, Sealed
    <3> QED
      BY <3>2, <3>3
  <2>2. ASSUME NEW r \in Requests, Disband(r) PROVE a \in q
    BY <1>1, <2>2 DEF Disband, Sealed
  <2>3. CASE pact' = pact
    BY <1>1, <2>3 DEF Sealed
  <2> QED
    BY <2>1, <2>2, <2>3, PactKept
<1>2. ASSUME NEW r \in Requests, NEW e \in Draft, draft'[r] = e, e.op \in Commands
      PROVE  /\ e.other # e.alliance
             /\ e.step = "ready" => \A a \in Alliances : e.next = Offer(a) => a = e.alliance
             /\ e.step = "ready" /\ e.next = Allied =>
                  \/ pact'[{e.alliance, e.other}] = Allied
                  \/ e.op = "accord" /\ pact'[{e.alliance, e.other}] = Offer(e.other)
  <2> DEFINE q == {e.alliance, e.other}
  <2>1. CASE draft'[r] = draft[r]
    <3>1. /\ e.other # e.alliance
          /\ e.step = "ready" => \A a \in Alliances : e.next = Offer(a) => a = e.alliance
          /\ e.step = "ready" /\ e.next = Allied =>
               \/ pact[q] = Allied
               \/ e.op = "accord" /\ pact[q] = Offer(e.other)
      BY <1>2, <2>1 DEF Sealed
    <3>2. e.step = "ready" /\ e.next = Allied => pact'[q] = pact[q]
      <4>1. CASE UNCHANGED vars
        BY <4>1 DEF vars
      <4>2. CASE Quiet
        BY <1>2, <2>1, <4>2 DEF Quiet, QuietPacts, Waits, At
      <4> QED
        BY <4>1, <4>2
    <3> QED
      BY <3>1, <3>2
  <2>2. CASE Asks(r)
    <3>1. PICK d \in Draft : Ask(r, d) /\
             \/ d.op \in {"found", "decline", "join"}
             \/ /\ d.op \in {"leave", "disband"} \/ d.op = "revoke" \/ d.step = "asked"
                /\ d.op \in Commands => d.other # d.alliance
      BY <2>2, AsksDraft
    <3>2. e = d
      BY <1>2, <3>1 DEF Ask, TypeOK
    <3> QED
      BY <1>2, <3>1, <3>2 DEF Commands
  <2>3. CASE ReadPact(r)
    <3> DEFINE d == draft[r]
    <3>1. /\ d \in Draft /\ d.op \in Commands /\ pact' = pact
      BY <2>3 DEF ReadPact, At, tables
    <3>2. /\ d.op = e.op /\ d.alliance = e.alliance /\ d.other = e.other
          /\ q \in Pairs /\ e.alliance \in Alliances
      BY <1>2, <2>3, <3>1, OpKept, DraftTyped
    <3>3. e.next \in NextStance(e.op, pact[q], e.alliance)
      <4>1. PICK s \in NextStance(d.op, pact[{d.alliance, d.other}], d.alliance) :
              draft' = [draft EXCEPT ![r].step = "ready", ![r].next = s]
        BY <2>3 DEF ReadPact
      <4>2. e.next = s
        BY <1>2, <3>1, <4>1 DEF TypeOK, Draft
      <4> QED
        BY <3>2, <4>1, <4>2
    <3>4. e.other # e.alliance
      BY <3>1, <3>2 DEF Sealed
    <3>5. ASSUME NEW a \in Alliances, e.next = Offer(a) PROVE a = e.alliance
      BY <3>2, <3>3, <3>5 DEF NextStance
    <3>6. ASSUME e.next = Allied, pact[q] # Allied
          PROVE  e.op = "accord" /\ pact[q] = Offer(e.other)
      <4>1. e.op = "accord" /\ MayAccept(pact[q], e.alliance)
        BY <3>2, <3>3, <3>6 DEF NextStance
      <4>2. PICK x \in Alliances : pact[q] = Offer(x)
        BY <3>2, <3>6, <4>1 DEF MayAccept, TypeOK, Stances
      <4>3. x \in q /\ x # e.alliance
        BY <3>2, <4>1, <4>2 DEF Sealed, MayAccept
      <4> QED
        BY <4>1, <4>2, <4>3
    <3> QED
      BY <3>1, <3>4, <3>5, <3>6
  <2>4. CASE ReadTarget(r) \/ CountSeats(r) \/ Join(r)
    BY <1>2, <2>4, OpKept DEF ReadTarget, CountSeats, Join, At, Targeted, Commands
  <2> QED
    BY <1>2, <2>1, <2>2, <2>3, <2>4, OneActs
<1> QED
  BY <1>1, <1>2 DEF Sealed

LEMMA ConsentStep ==
  ASSUME TypeOK, Sealed, [Next]_vars, NEW q \in Pairs, pact[q] # Allied, pact'[q] = Allied
  PROVE  \E r \in Requests : /\ At(r, {"accord"}, "ready")
                             /\ q = {draft[r].alliance, draft[r].other}
                             /\ pact[q] = Offer(draft[r].other)
<1>1. PICK r \in Requests : SetPact(r) \/ Disband(r)
  BY PactKept
<1>2. ~ Disband(r)
  BY StancesDiffer DEF Disband
<1>3. /\ draft[r] \in Draft /\ draft[r].op \in Commands /\ draft[r].step = "ready"
      /\ pact' = [pact EXCEPT ![{draft[r].alliance, draft[r].other}] = draft[r].next]
  BY <1>1, <1>2 DEF SetPact, At
<1>4. q = {draft[r].alliance, draft[r].other} /\ draft[r].next = Allied
  BY <1>3 DEF TypeOK
<1> QED
  BY <1>3, <1>4 DEF Sealed, At

-----------------------------------------------------------------------------
(* Alliances: the theorems *)

QuietInv == TypeOK /\ OneFounder /\ CapHeld /\ Fresh /\ Stands /\ Seats /\ Sealed

LEMMA QuietInit == Init => QuietInv
<1> SUFFICES ASSUME Init PROVE QuietInv
  OBVIOUS
<1>1. PICK s \in Starts :
        founder = s.founder /\ member = s.member /\ invites = s.invites /\ pact = s.pact
  BY DEF Init
<1>2. /\ founder \in [Alliances -> Players \cup {Unused}]
      /\ \A p \in Players, a \in Alliances :
           In(p, a) /\ member[p].role = "founder" <=> p = founder[a]
      /\ \A a \in Alliances : Cardinality({p \in Players : In(p, a)}) <= MaxMembers
      /\ \A q \in Pairs, a \in Alliances : pact[q] = Offer(a) => a \in q
  BY <1>1, AllianceAssumption DEF In
<1>3. \A r \in Requests : draft[r] \notin Draft
  BY Strangers DEF Init
<1>4. OneFounder /\ CapHeld
  BY <1>2 DEF OneFounder, CapHeld, Members
<1>5. Fresh /\ Stands /\ Seats /\ Sealed
  BY <1>2, <1>3 DEF Fresh, Stands, Seats, Sealed, At
<1> QED
  BY <1>4, <1>5, TypeInit DEF QuietInv

LEMMA QuietStep == QuietInv /\ [Next /\ Quiet]_vars => QuietInv'
BY TypeStep, FounderStep, SeatsStep, FreshStep, StandsStep, SealedStep DEF QuietInv

\* In quiet histories every alliance has exactly the founder its row names.
THEOREM FounderAlone == QuietSpec => []OneFounder
<1>1. QuietInv => OneFounder
  BY DEF QuietInv
<1> QED
  BY <1>1, QuietInit, QuietStep, PTL DEF QuietSpec

\* No alliance outgrows its cap as long as nobody takes the seat a join has counted.
THEOREM SeatsLast == QuietSpec => []CapHeld
<1>1. QuietInv => CapHeld
  BY DEF QuietInv
<1> QED
  BY <1>1, QuietInit, QuietStep, PTL DEF QuietSpec

\* A confederation is sealed by the side that was offered it, and by nobody else.
THEOREM ConsentOfBoth == QuietSpec => ConsentGiven
<1> DEFINE A == \A q \in Pairs : pact[q] # Allied /\ pact'[q] = Allied =>
              \E r \in Requests : /\ At(r, {"accord"}, "ready") /\ q = {draft[r].alliance, draft[r].other}
                                  /\ pact[q] = Offer(draft[r].other)
<1>1. QuietInv /\ [Next /\ Quiet]_vars => [A]_vars
  BY ConsentStep DEF QuietInv
<1> QED
  BY <1>1, QuietInit, QuietStep, PTL DEF QuietSpec, ConsentGiven

\* Nobody loses a membership but by a command about that alliance, of his own or from above.
THEOREM NoneExpelledElsewhere == QuietSpec => RankStands
<1> DEFINE A == \A p \in Players : member[p] # NoOne /\ member'[p] = NoOne =>
              LET a == member[p].alliance IN \E r \in Requests :
                /\ draft[r] \in Draft /\ draft'[r] = Done /\ draft[r].alliance = a
                /\ \/ draft[r].op = "disband" /\ draft[r].by = founder[a]
                   \/ member[p].role # "founder" /\ draft[r].op = "leave" /\ draft[r].by = p
                   \/ member[p].role # "founder" /\ draft[r].op = "expel" /\ draft[r].who = p
<1>1. QuietInv /\ [Next /\ Quiet]_vars => [A]_vars
  BY RankStep DEF QuietInv
<1> QED
  BY <1>1, QuietInit, QuietStep, PTL DEF QuietSpec, RankStands

-----------------------------------------------------------------------------
(* Accounts: types *)

\* What the form of a request says of it: whose it is, and how far an agent has been made.
Formed(c) == Underway(c) =>
  LET d == call[c] IN
  /\ d.route # "bot" => d.real \in Humans
  /\ d.route = "agent" => d.who \in Bots
  /\ d.step \in {"registered", "tagged"} =>
       d.route = "agent" /\ d.who \in known /\ d.as = d.real
  /\ d.step = "tagged" => "ai" \in roles[d.who]
  /\ d.step = "acting" /\ d.as # d.real => d.route \in ByAccount

AccountsForm == /\ AccountsTypeOK /\ Humans \subseteq known
                /\ \A c \in Calls : Formed(c)

LEMMA CallOfUnderway ==
  ASSUME AccountsTypeOK, NEW c \in Calls
  PROVE  Underway(c) <=> call[c] \in Call
BY Apart DEF AccountsTypeOK, Underway

LEMMA FormInit == AccountsInit => AccountsForm
<1> SUFFICES ASSUME AccountsInit PROVE AccountsForm
  OBVIOUS
<1>1. PICK w \in Outsets : roles = w.roles /\ sitters = w.sitters
  BY DEF AccountsInit
<1>2. roles \in [Users -> SUBSET Powers] /\ sitters \subseteq Humans \X Humans
  BY <1>1, AccountsAssumption
<1>3. roles \in [Users -> SUBSET (Powers \cup {"ai"})] /\ sitters \subseteq Users \X Users
  BY <1>2 DEF Users
<1>4. \A c \in Calls : ~Underway(c)
  BY DEF AccountsInit, Underway
<1> QED
  BY <1>3, <1>4 DEF AccountsForm, AccountsTypeOK, AccountsInit, Formed, Users

LEMMA BlanketIsCall ==
  ASSUME NEW route \in Routes, NEW step \in Steps, NEW u \in Users
  PROVE  Blanket(route, step, u) \in Call
BY DEF Blanket, Call, Powers, Sanctions

\* A request of good form may be posted.
LEMMA PostForm ==
  ASSUME AccountsForm, NEW c \in Calls, NEW d \in Call, Post(c, d),
         d.route # "bot" => d.real \in Humans,
         d.route = "agent" => d.who \in Bots,
         d.step \in {"sent", "acting"}, d.as = d.real
  PROVE  AccountsForm'
<1>1. /\ call' = [call EXCEPT ![c] = d]
      /\ UNCHANGED <<known, roles, barred, sitters, trail, keys>>
  BY DEF Post, people
<1>2. AccountsTypeOK'
  BY <1>1 DEF AccountsForm, AccountsTypeOK
<1>3. \A e \in Calls : Formed(e)'
  <2> TAKE e \in Calls
  <2>1. call'[e] = IF e = c THEN d ELSE call[e]
    BY <1>1 DEF AccountsForm, AccountsTypeOK
  <2>2. CASE e = c
    BY <2>1, <2>2 DEF Formed
  <2>3. CASE e # c
    BY <1>1, <2>1, <2>3 DEF Formed, AccountsForm, Underway
  <2> QED
    BY <2>2, <2>3
<1> QED
  BY <1>1, <1>2, <1>3 DEF AccountsForm

LEMMA SendForm ==
  ASSUME AccountsForm, NEW c \in Calls, NEW u \in Humans, NEW o \in Humans \cup {Nobody},
         NEW w \in Users, NEW route \in Routes, Send(c, u, o, route, w)
  PROVE  AccountsForm' /\ call[c] = Unsent /\ Underway(c)' /\ call'[c].step = "sent"
         /\ UNCHANGED <<people, trail, keys>> /\ \A e \in Calls \ {c} : call'[e] = call[e]
<1> DEFINE b == Blanket(route, "sent", u)
           d == [Blanket(route, "sent", u) EXCEPT !.sit = o, !.who = w]
<1>0. b \in Call /\ b.real = u /\ b.as = u /\ b.step = "sent" /\ b.route = route
  <2>1. u \in Users /\ "sent" \in Steps
    BY DEF Users, Steps
  <2> QED
    BY <2>1, BlanketIsCall DEF Blanket
<1>1. d \in Call /\ d.real = u /\ d.as = u /\ d.who = w /\ d.step = "sent" /\ d.route = route
  BY <1>0 DEF Call, Users
<1>2. PICK e \in Call : /\ Post(c, e) /\ e.real = u /\ e.as = u /\ e.who = w /\ e.step = "sent"
                        /\ e.route = route /\ (route = "agent" => w \in Bots) /\ route # "bot"
  <2>1. CASE route \in {"play", "settings"} /\ Post(c, d)
    BY <1>1, <2>1
  <2>2. CASE route \in {"grant", "revoke"} /\ Post(c, d)
    BY <1>1, <2>2
  <2>3. CASE route \in {"agent", "disarm"} /\ w \in Bots /\ Post(c, d)
    BY <1>1, <2>3
  <2>4. CASE route = "sanction" /\ \E k \in Sanctions : Post(c, [d EXCEPT !.kind = k])
    <3> HIDE DEF d
    <3>1. PICK k \in Sanctions : Post(c, [d EXCEPT !.kind = k])
      BY <2>4
    <3>2. /\ [d EXCEPT !.kind = k] \in Call
          /\ LET f == [d EXCEPT !.kind = k] IN
             f.real = u /\ f.as = u /\ f.who = w /\ f.step = "sent" /\ f.route = route
      BY <1>1 DEF Call
    <3> QED
      BY <2>4, <3>1, <3>2
  <2>5. CASE route = "role" /\ \E p \in Powers, on \in BOOLEAN : Post(c, [d EXCEPT !.role = p, !.on = on])
    <3> HIDE DEF d
    <3>1. PICK p \in Powers, on \in BOOLEAN : Post(c, [d EXCEPT !.role = p, !.on = on])
      BY <2>5
    <3>2. /\ [d EXCEPT !.role = p, !.on = on] \in Call
          /\ LET f == [d EXCEPT !.role = p, !.on = on] IN
             f.real = u /\ f.as = u /\ f.who = w /\ f.step = "sent" /\ f.route = route
      BY <1>1 DEF Call
    <3> QED
      BY <2>5, <3>1, <3>2
  <2> QED
    BY <2>1, <2>2, <2>3, <2>4, <2>5 DEF Send
<1>3. AccountsForm'
  BY <1>2, PostForm
<1>4. call'[c] = e /\ \A x \in Calls \ {c} : call'[x] = call[x]
  BY <1>2 DEF Post, AccountsForm, AccountsTypeOK
<1> QED
  BY <1>2, <1>3, <1>4, Apart DEF Post, Underway

LEMMA BearerForm ==
  ASSUME AccountsForm, NEW c \in Calls, NEW u \in Users, Bearer(c, u)
  PROVE  AccountsForm' /\ call'[c] = Blanket("bot", "acting", u) /\ UNCHANGED <<people, trail, keys>>
         /\ \A e \in Calls \ {c} : call'[e] = call[e]
<1>1. Blanket("bot", "acting", u) \in Call
  BY BlanketIsCall DEF Routes, ByKey, Steps
<1>2. AccountsForm'
  BY <1>1, PostForm DEF Bearer, Blanket
<1> QED
  BY <1>2 DEF Bearer, Post, AccountsForm, AccountsTypeOK

\* Accounts stay, and so do the marks of agents.
Lasting == /\ known \subseteq known'
           /\ \A u \in Users : "ai" \in roles[u] => "ai" \in roles'[u]

LEMMA OthersFormed ==
  ASSUME AccountsForm, Lasting, NEW c \in Calls, Formed(c)',
         \A e \in Calls \ {c} : call'[e] = call[e]
  PROVE  \A e \in Calls : Formed(e)'
<1> TAKE e \in Calls
<1> SUFFICES ASSUME e # c, Underway(e)' PROVE Formed(e)'
  BY DEF Formed
<1>1. call'[e] = call[e] /\ Underway(e) /\ Formed(e)
  BY DEF Underway, AccountsForm
<1>2. call[e] \in Call
  BY <1>1, CallOfUnderway DEF AccountsForm
<1>3. call[e].who \in Users
  BY <1>2 DEF Call
<1> QED
  BY <1>1, <1>3 DEF Formed, Lasting

\* A layer is passed: the tables stay, the trail may grow.
LEMMA PassForm ==
  ASSUME AccountsForm, NEW c \in Calls, Underway(c), call[c].step \in {"sent", "cleared"},
         NEW step \in {"cleared", "admitted"}, NEW glitch \in BOOLEAN, Pass(c, step, glitch),
         UNCHANGED <<people, keys>>, trail' \subseteq Calls \X Users \X Users
  PROVE  /\ AccountsForm' /\ Underway(c)'
         /\ call'[c] = [call[c] EXCEPT !.step = step, !.glitch = call[c].glitch \/ glitch]
         /\ \A e \in Calls \ {c} : call'[e] = call[e]
<1> DEFINE d == [call[c] EXCEPT !.step = step, !.glitch = call[c].glitch \/ glitch]
<1>1. call[c] \in Call
  BY CallOfUnderway DEF AccountsForm
<1>2. d \in Call /\ d.step = step /\ d.real = call[c].real /\ d.route = call[c].route
      /\ d.who = call[c].who /\ d.as = call[c].as
  BY <1>1 DEF Call, Steps
<1>3. call' = [call EXCEPT ![c] = d]
  BY <1>1 DEF Pass, AccountsForm, AccountsTypeOK, Call
<1>4. call'[c] = d /\ \A e \in Calls \ {c} : call'[e] = call[e]
  BY <1>3 DEF AccountsForm, AccountsTypeOK
<1>5. AccountsTypeOK'
  BY <1>2, <1>3 DEF AccountsForm, AccountsTypeOK, people
<1>6. Underway(c)'
  BY <1>2, <1>4, Apart DEF Underway
<1>7. Formed(c)'
  <2>1. Formed(c)
    BY DEF AccountsForm
  <2> HIDE DEF d
  <2> QED
    BY <1>2, <1>4, <2>1 DEF Formed
<1>8. Lasting
  BY DEF Lasting, people
<1> QED
  BY <1>4, <1>5, <1>6, <1>7, <1>8, OthersFormed DEF AccountsForm, people

\* The extractor names the account the handler acts for.
LEMMA EnterForm ==
  ASSUME AccountsForm, NEW c \in Calls, Enter(c)
  PROVE  /\ AccountsForm' /\ Underway(c)' /\ UNCHANGED <<people, trail, keys>>
         /\ \A e \in Calls \ {c} : call'[e] = call[e]
         /\ \E o \in Seen(c), as \in Users :
              /\ as = Acting(call[c], o) /\ Permitted(call[c], as)
              /\ call'[c] = [call[c] EXCEPT !.step = "acting", !.as = as,
                                            !.glitch = call[c].glitch \/ o # Seat(c)]
<1>1. call[c] \in Call /\ call[c].step = "admitted" /\ Underway(c)
  BY CallOfUnderway DEF AccountsForm, Enter, InStep
<1>2. PICK o \in Seen(c) :
        /\ Permitted(call[c], Acting(call[c], o))
        /\ call' = [call EXCEPT ![c].step = "acting", ![c].as = Acting(call[c], o),
                                ![c].glitch = @ \/ o # Seat(c)]
  BY DEF Enter
<1>3. Acting(call[c], o) \in Users
  BY <1>1 DEF Acting, Seen, Seat, Call
<1> DEFINE as == Acting(call[c], o)
           d == [call[c] EXCEPT !.step = "acting", !.as = as, !.glitch = call[c].glitch \/ o # Seat(c)]
<1>4. d \in Call /\ d.step = "acting" /\ d.real = call[c].real /\ d.route = call[c].route
      /\ d.who = call[c].who /\ d.as = as
  <2> HIDE DEF as
  <2> QED
    BY <1>1, <1>3 DEF Call, Steps, as
<1>5. call' = [call EXCEPT ![c] = d]
  BY <1>1, <1>2 DEF AccountsForm, AccountsTypeOK, Call
<1>6. call'[c] = d /\ \A e \in Calls \ {c} : call'[e] = call[e]
  BY <1>5 DEF AccountsForm, AccountsTypeOK
<1>7. UNCHANGED <<people, trail, keys>>
  BY DEF Enter
<1>8. AccountsTypeOK' /\ Lasting
  BY <1>4, <1>5, <1>7 DEF AccountsForm, AccountsTypeOK, people, Lasting
<1>9. Underway(c)'
  BY <1>4, <1>6, Apart DEF Underway
<1>10. Formed(c)'
  <2>1. Formed(c) /\ (as # call[c].real => call[c].route \in ByAccount)
    BY DEF AccountsForm, Acting
  <2> HIDE DEF d, as
  <2> QED
    BY <1>1, <1>4, <1>6, <2>1 DEF Formed
<1> QED
  BY <1>2, <1>3, <1>6, <1>7, <1>8, <1>9, <1>10, OthersFormed DEF AccountsForm, people

\* A request ends, whatever it has written.
LEMMA EndForm ==
  ASSUME AccountsForm, NEW c \in Calls, NEW end \in {Served, Dropped},
         call' = [call EXCEPT ![c] = end], Lasting,
         roles' \in [Users -> SUBSET (Powers \cup {"ai"})], known' \subseteq Users,
         barred' \in [Users -> SUBSET Sanctions], sitters' \subseteq Users \X Users,
         trail' = trail, keys' \subseteq known' \cap {u \in Bots : "ai" \in roles'[u]}
  PROVE  AccountsForm' /\ ~Underway(c)' /\ \A e \in Calls \ {c} : call'[e] = call[e]
<1>1. call'[c] = end /\ \A e \in Calls \ {c} : call'[e] = call[e]
  BY DEF AccountsForm, AccountsTypeOK
<1>2. ~Underway(c)' /\ Formed(c)'
  BY <1>1 DEF Underway, Formed
<1>3. AccountsTypeOK'
  BY DEF AccountsForm, AccountsTypeOK
<1> QED
  BY <1>1, <1>2, <1>3, OthersFormed DEF AccountsForm, Lasting

\* What a handler's last statement writes.
Last(c) == \/ Play(c) \/ GrantSitter(c) \/ RevokeSitter(c) \/ ApplySanction(c) \/ SetRole(c)
           \/ CreateAgentKey(c) \/ RevokeKeys(c)

LEMMA LastForm ==
  ASSUME AccountsForm, NEW c \in Calls, Last(c)
  PROVE  AccountsForm' /\ ~Underway(c)' /\ trail' = trail /\ \A e \in Calls \ {c} : call'[e] = call[e]
<1>1. Underway(c) /\ Formed(c) /\ AccountsTypeOK
  BY DEF Last, Play, GrantSitter, RevokeSitter, ApplySanction, SetRole, CreateAgentKey, RevokeKeys,
         Does, InStep, AccountsForm
<1>2. call[c] \in Call
  BY <1>1, CallOfUnderway
<1>3. /\ call[c].as \in Users /\ call[c].who \in Users /\ call[c].role \in Powers
      /\ call[c].kind \in Sanctions
  BY <1>2 DEF Call
<1>4. call' = [call EXCEPT ![c] = Served] /\ trail' = trail
  BY DEF Last, Play, GrantSitter, RevokeSitter, ApplySanction, SetRole, CreateAgentKey, RevokeKeys, Serve
<1>5. /\ roles' \in [Users -> SUBSET (Powers \cup {"ai"})] /\ known' \subseteq Users
      /\ barred' \in [Users -> SUBSET Sanctions] /\ sitters' \subseteq Users \X Users
      /\ Lasting /\ keys' \subseteq known' \cap {u \in Bots : "ai" \in roles'[u]}
  <2>1. CASE Play(c)
    BY <1>1, <2>1 DEF Play, AccountsTypeOK, people, Lasting
  <2>2. CASE GrantSitter(c)
    BY <1>1, <1>3, <2>2 DEF GrantSitter, AccountsTypeOK, Lasting
  <2>3. CASE RevokeSitter(c)
    BY <1>1, <2>3 DEF RevokeSitter, AccountsTypeOK, Lasting
  <2>4. CASE ApplySanction(c)
    BY <1>1, <1>3, <2>4 DEF ApplySanction, AccountsTypeOK, Lasting
  <2>5. CASE SetRole(c)
    <3>1. roles' \in [Users -> SUBSET (Powers \cup {"ai"})]
      BY <1>1, <1>3, <2>5 DEF SetRole, AccountsTypeOK
    <3>2. "ai" # call[c].role
      BY <1>3 DEF Powers
    <3>3. \A u \in Users : "ai" \in roles[u] => "ai" \in roles'[u]
      BY <1>1, <1>3, <3>2, <2>5 DEF SetRole, AccountsTypeOK
    <3> QED
      BY <1>1, <2>5, <3>1, <3>3 DEF SetRole, AccountsTypeOK, Lasting, Users
  <2>6. CASE CreateAgentKey(c)
    <3>1. call[c].who \in known \cap Bots /\ "ai" \in roles[call[c].who]
      BY <1>1, <2>6 DEF CreateAgentKey, InStep, Formed
    <3> QED
      BY <1>1, <2>6, <3>1 DEF CreateAgentKey, AccountsTypeOK, people, Lasting
  <2>7. CASE RevokeKeys(c)
    BY <1>1, <2>7 DEF RevokeKeys, AccountsTypeOK, people, Lasting
  <2> QED
    BY <2>1, <2>2, <2>3, <2>4, <2>5, <2>6, <2>7 DEF Last
<1> QED
  BY <1>4, <1>5, EndForm

\* The making of an agent goes on: its account, then its mark.
LEMMA MakingForm ==
  ASSUME AccountsForm, NEW c \in Calls, RegisterAgent(c) \/ SetIsAi(c)
  PROVE  /\ AccountsForm' /\ Underway(c)' /\ Underway(c)
         /\ UNCHANGED <<barred, sitters, trail>> /\ \A e \in Calls \ {c} : call'[e] = call[e]
         /\ \A u \in Users : "admin" \in roles[u] => "admin" \in roles'[u]
         /\ call'[c].step \in {"registered", "tagged"} /\ call'[c].real = call[c].real
         /\ call'[c].as = call[c].as /\ call'[c].as = call'[c].real
         /\ call[c].step \in {"acting", "registered"}
<1>1. Underway(c) /\ Formed(c) /\ AccountsTypeOK
  BY DEF RegisterAgent, SetIsAi, Does, InStep, AccountsForm
<1>2. call[c] \in Call
  BY <1>1, CallOfUnderway
<1>3. PICK step \in {"registered", "tagged"} :
        call' = [call EXCEPT ![c].step = step, ![c].glitch = @ \/ FALSE]
  BY DEF RegisterAgent, SetIsAi, Pass
<1> DEFINE d == [call[c] EXCEPT !.step = step]
<1>4. d \in Call /\ d.step = step /\ d.real = call[c].real /\ d.route = call[c].route
      /\ d.who = call[c].who /\ d.as = call[c].as
  BY <1>2 DEF Call, Steps
<1>5. call' = [call EXCEPT ![c] = d]
  BY <1>1, <1>2, <1>3 DEF AccountsTypeOK, Call
<1>6. call'[c] = d /\ \A e \in Calls \ {c} : call'[e] = call[e]
  BY <1>1, <1>5 DEF AccountsTypeOK
<1>7. Underway(c)'
  BY <1>4, <1>6, Apart DEF Underway
<1>8. call[c].route = "agent" /\ call[c].who \in Bots /\ call[c].as = call[c].real
  <2>1. CASE RegisterAgent(c)
    BY <1>1, <2>1 DEF RegisterAgent, Does, InStep, Formed, ByAccount
  <2>2. CASE SetIsAi(c)
    BY <1>1, <2>2 DEF SetIsAi, InStep, Formed
  <2> QED
    BY <2>1, <2>2
<1> HIDE DEF d
<1>9. CASE RegisterAgent(c)
  <2>1. step = "registered"
    <3>1. call'[c].step = "registered"
      BY <1>1, <1>2, <1>9 DEF RegisterAgent, Pass, AccountsTypeOK, Call
    <3> QED
      BY <3>1, <1>4, <1>6
  <2>2. known' = known \cup {call[c].who} /\ UNCHANGED <<roles, barred, sitters, trail, keys>>
    BY <1>9 DEF RegisterAgent
  <2>3. AccountsTypeOK' /\ Lasting
    BY <1>1, <1>4, <1>5, <1>8, <2>2 DEF AccountsTypeOK, Lasting, Users
  <2>4. Formed(c)'
    BY <1>1, <1>4, <1>6, <1>8, <2>1, <2>2 DEF Formed
  <2>5. AccountsForm'
    BY <1>6, <2>2, <2>3, <2>4, OthersFormed DEF AccountsForm
  <2>6. call[c].step = "acting"
    BY <1>9 DEF RegisterAgent, Does, InStep
  <2> QED
    BY <1>1, <1>4, <1>6, <1>7, <1>8, <2>2, <2>5, <2>6
<1>10. CASE SetIsAi(c)
  <2>1. /\ roles' = [roles EXCEPT ![call[c].who] = @ \cup {"ai"}]
        /\ UNCHANGED <<known, barred, sitters, trail, keys>> /\ call[c].step = "registered"
    BY <1>10 DEF SetIsAi, InStep
  <2>2. call[c].who \in known /\ call[c].who \in Users
    BY <1>1, <1>2, <2>1 DEF Formed, Call
  <2>3. /\ roles' \in [Users -> SUBSET (Powers \cup {"ai"})] /\ "ai" \in roles'[call[c].who]
        /\ \A u \in Users : roles[u] \subseteq roles'[u]
    BY <1>1, <2>1, <2>2 DEF AccountsTypeOK
  <2>4. AccountsTypeOK' /\ Lasting
    BY <1>1, <1>4, <1>5, <2>1, <2>3 DEF AccountsTypeOK, Lasting, Users
  <2>5. Formed(c)'
    BY <1>1, <1>4, <1>6, <1>8, <2>1, <2>2, <2>3 DEF Formed
  <2>6. AccountsForm'
    BY <1>6, <2>1, <2>4, <2>5, OthersFormed DEF AccountsForm
  <2> QED
    BY <1>1, <1>4, <1>6, <1>7, <1>8, <2>1, <2>3, <2>6
<1> QED
  BY <1>9, <1>10

LEMMA DropForm ==
  ASSUME AccountsForm, NEW c \in Calls, Drop(c)
  PROVE  AccountsForm' /\ ~Underway(c)' /\ UNCHANGED <<people, trail, keys>>
         /\ \A e \in Calls \ {c} : call'[e] = call[e]
<1>1. call' = [call EXCEPT ![c] = Dropped] /\ UNCHANGED <<known, roles, barred, sitters, trail, keys>>
  BY DEF Drop, people
<1> QED
  BY <1>1, EndForm DEF AccountsForm, AccountsTypeOK, Lasting, people

LEMMA RebootForm ==
  ASSUME AccountsForm, Reboot
  PROVE  AccountsForm' /\ \A c \in Calls : ~Underway(c)'
<1>1. \A c \in Calls : call'[c] \in {Unsent, Served, Dropped}
  BY DEF Reboot, Underway
<1>2. \A c \in Calls : ~Underway(c)' /\ Formed(c)'
  BY <1>1 DEF Underway, Formed
<1>3. roles' \in [Users -> SUBSET (Powers \cup {"ai"})] /\ \A u \in Users : roles[u] \subseteq roles'[u]
  BY AccountsAssumption DEF Reboot, AccountsForm, AccountsTypeOK
<1>4. call' \in [Calls -> Call \cup {Unsent, Served, Dropped}]
  BY <1>1 DEF Reboot
<1>5. AccountsTypeOK'
  BY <1>3, <1>4 DEF AccountsForm, AccountsTypeOK, Reboot, Users
<1> QED
  BY <1>2, <1>5 DEF AccountsForm, Reboot

LEMMA LapseForm ==
  ASSUME AccountsForm, NEW u \in Users, Lapse(u)
  PROVE  AccountsForm' /\ UNCHANGED <<known, roles, sitters, trail, keys, call>>
         /\ \A w \in Users : Blocked(w)' => Blocked(w)
<1>1. /\ barred' = [barred EXCEPT ![u] = @ \ {"suspended"}]
      /\ UNCHANGED <<known, roles, sitters, trail, keys, call>>
  BY DEF Lapse
<1>2. AccountsTypeOK'
  BY <1>1 DEF AccountsForm, AccountsTypeOK
<1>3. \A c \in Calls : Formed(c)'
  BY <1>1 DEF AccountsForm, Formed, Underway
<1> QED
  BY <1>1, <1>2, <1>3 DEF AccountsForm, AccountsTypeOK, Blocked

LEMMA GuardForm ==
  ASSUME AccountsForm, NEW c \in Calls, ActionGuard(c)
  PROVE  /\ AccountsForm' /\ Underway(c)' /\ UNCHANGED <<people, trail, keys>>
         /\ \A e \in Calls \ {c} : call'[e] = call[e]
         /\ \E o \in Seen(c), lost \in SUBSET Users :
              /\ \A u \in ({call[c].real, o} \cap Users) \ lost : ~Blocked(u)
              /\ call'[c] = [call[c] EXCEPT !.step = "cleared",
                               !.glitch = call[c].glitch \/ (lost # {} \/ o # Seat(c))]
<1>0. PICK o \in Seen(c) : \E lost \in SUBSET ({call[c].real, o} \cap Users) :
        /\ \A u \in ({call[c].real, o} \cap Users) \ lost : ~Blocked(u)
        /\ Pass(c, "cleared", lost # {} \/ o # Seat(c))
  BY DEF ActionGuard
<1>1. PICK lost \in SUBSET ({call[c].real, o} \cap Users) :
        /\ \A u \in ({call[c].real, o} \cap Users) \ lost : ~Blocked(u)
        /\ Pass(c, "cleared", lost # {} \/ o # Seat(c))
  BY <1>0
<1> DEFINE glitch == lost # {} \/ o # Seat(c)
<1>2. glitch \in BOOLEAN /\ Pass(c, "cleared", glitch)
  BY <1>1
<1>3. /\ Underway(c) /\ call[c].step = "sent" /\ UNCHANGED <<people, keys>> /\ trail' = trail
      /\ trail' \subseteq Calls \X Users \X Users
  BY DEF ActionGuard, InStep, AccountsForm, AccountsTypeOK
<1>4. /\ AccountsForm' /\ Underway(c)' /\ \A e \in Calls \ {c} : call'[e] = call[e]
      /\ call'[c] = [call[c] EXCEPT !.step = "cleared", !.glitch = call[c].glitch \/ glitch]
  <2> HIDE DEF glitch
  <2> QED
    BY <1>2, <1>3, PassForm
<1> QED
  BY <1>1, <1>3, <1>4

LEMMA SittingForm ==
  ASSUME AccountsForm, NEW c \in Calls, SittingGuard(c)
  PROVE  /\ AccountsForm' /\ Underway(c)' /\ UNCHANGED <<people, keys>> /\ trail \subseteq trail'
         /\ \A e \in Calls \ {c} : call'[e] = call[e]
         /\ \E o \in Seen(c), lost \in BOOLEAN :
              /\ o # Nobody => call[c].route \notin OwnersOnly
              /\ o # Nobody /\ ~lost => <<c, o, call[c].real>> \in trail'
              /\ call'[c] = [call[c] EXCEPT !.step = "admitted",
                               !.glitch = call[c].glitch \/ (lost \/ o # Seat(c))]
<1>0. call[c] \in Call /\ Underway(c) /\ call[c].step = "cleared" /\ UNCHANGED <<people, keys>>
  BY CallOfUnderway DEF SittingGuard, InStep, AccountsForm
<1>1. PICK o \in Seen(c), lost \in BOOLEAN :
        /\ o # Nobody => call[c].route \notin OwnersOnly
        /\ trail' = IF o = Nobody \/ lost THEN trail ELSE trail \cup {<<c, o, call[c].real>>}
        /\ Pass(c, "admitted", lost \/ o # Seat(c))
  BY DEF SittingGuard
<1> DEFINE glitch == lost \/ o # Seat(c)
<1>2. glitch \in BOOLEAN /\ Pass(c, "admitted", glitch)
  BY <1>1
<1>3. o \in Users \cup {Nobody} /\ call[c].real \in Users
  BY <1>0 DEF Seen, Seat, Call
<1>4. trail \subseteq trail' /\ trail' \subseteq Calls \X Users \X Users
  BY <1>1, <1>3 DEF AccountsForm, AccountsTypeOK
<1>5. /\ AccountsForm' /\ Underway(c)' /\ \A e \in Calls \ {c} : call'[e] = call[e]
      /\ call'[c] = [call[c] EXCEPT !.step = "admitted", !.glitch = call[c].glitch \/ glitch]
  <2> HIDE DEF glitch
  <2> QED
    BY <1>0, <1>2, <1>4, PassForm
<1> QED
  BY <1>0, <1>1, <1>4, <1>5

LEMMA FormStep == AccountsForm /\ [AccountsNext]_accountVars => AccountsForm'
<1> SUFFICES ASSUME AccountsForm, [AccountsNext]_accountVars PROVE AccountsForm'
  OBVIOUS
<1>1. CASE UNCHANGED accountVars
  BY <1>1 DEF accountVars, people, AccountsForm, AccountsTypeOK, Formed, Underway
<1>2. CASE Requesting
  BY <1>2, SendForm, BearerForm DEF Requesting
<1>3. CASE Layers
  BY <1>3, GuardForm, SittingForm, EnterForm, DropForm DEF Layers
<1>4. CASE Handling
  BY <1>4, LastForm, MakingForm DEF Handling, Last
<1>5. CASE Reboot \/ \E u \in Users : Lapse(u)
  BY <1>5, RebootForm, LapseForm
<1> QED
  BY <1>1, <1>2, <1>3, <1>4, <1>5 DEF AccountsNext

\* In every history the tables hold what they may; a key is of an account that exists and is
\* marked as an agent's, whatever breaks off while the agent is made.
THEOREM AccountsTypeCorrect == AccountsSpec => []AccountsTypeOK
<1>1. AccountsForm => AccountsTypeOK
  BY DEF AccountsForm
<1> QED
  BY <1>1, FormInit, FormStep, PTL DEF AccountsSpec

-----------------------------------------------------------------------------
(* Accounts: quiet histories *)

\* What the layers have found of a request is still so.
Judged(c) == Underway(c) =>
  LET d == call[c] IN
  /\ ~d.glitch
  /\ d.step # "sent" => ~Blocked(d.real)
  /\ d.step \in {"acting", "registered", "tagged"} => ~Blocked(d.as)
  /\ d.step = "admitted" /\ Seat(c) # Nobody =>
       <<c, Seat(c), d.real>> \in trail /\ d.route \notin OwnersOnly
  /\ d.step = "acting" /\ d.as # d.real => <<c, d.as, d.real>> \in trail /\ d.route \notin OwnersOnly
  /\ d.step = "acting" /\ d.route = "role" => MaySetRole(d, d.as)

AccountsInv == AccountsForm /\ AdminRemains /\ \A c \in Calls : Judged(c)

LEMMA InvInit == AccountsInit => AccountsInv
<1> SUFFICES ASSUME AccountsInit PROVE AccountsInv
  OBVIOUS
<1>1. PICK w \in Outsets : roles = w.roles
  BY DEF AccountsInit
<1>2. AdminRemains
  BY <1>1, AccountsAssumption DEF AdminRemains, AccountsInit
<1>3. \A c \in Calls : ~Underway(c)
  BY DEF AccountsInit, Underway
<1> QED
  BY <1>2, <1>3, FormInit DEF AccountsInv, Judged

\* A request that does not move is judged as before.
LEMMA OthersJudged ==
  ASSUME AccountsForm, AccountsQuiet, trail \subseteq trail', NEW c \in Calls, Judged(c),
         call'[c] = call[c]
  PROVE  Judged(c)'
<1> SUFFICES ASSUME Underway(c)' PROVE Judged(c)'
  BY DEF Judged
<1>1. Underway(c) /\ call[c] \in Call
  BY CallOfUnderway DEF Underway, AccountsForm
<1>2. /\ Seat(c)' = Seat(c)
      /\ Blocked(call[c].real)' => Blocked(call[c].real)
      /\ Blocked(call[c].as)' => Blocked(call[c].as)
      /\ roles'[call[c].as] = roles[call[c].as]
  BY <1>1 DEF AccountsQuiet, Undisturbed
<1> QED
  BY <1>1, <1>2 DEF Judged, MaySetRole, Blocked

LEMMA PostJudged ==
  ASSUME AccountsForm, AccountsQuiet, NEW c \in Calls,
         (\E u \in Humans, o \in Humans \cup {Nobody}, w \in Users, route \in Routes :
            Send(c, u, o, route, w)) \/ \E u \in Users : Bearer(c, u)
  PROVE  Judged(c)'
<1>1. CASE \E u \in Humans, o \in Humans \cup {Nobody}, w \in Users, route \in Routes :
             Send(c, u, o, route, w)
  <2>1. Underway(c)' /\ call'[c].step = "sent"
    BY <1>1, SendForm
  <2>2. ~call'[c].glitch
    BY <2>1 DEF AccountsQuiet, Lossless
  <2> QED
    BY <2>1, <2>2 DEF Judged
<1>2. CASE \E u \in Users : Bearer(c, u)
  <2>1. PICK u \in Users : Bearer(c, u)
    BY <1>2
  <2>2. call'[c] = Blanket("bot", "acting", u) /\ barred' = barred /\ ~Blocked(u)
    BY <2>1, BearerForm DEF Bearer, people
  <2>3. /\ call'[c].real = u /\ call'[c].as = u /\ call'[c].step = "acting" /\ call'[c].route = "bot"
        /\ ~call'[c].glitch
    BY <2>2 DEF Blanket
  <2> QED
    BY <2>2, <2>3 DEF Judged, Blocked
<1> QED
  BY <1>1, <1>2

LEMMA GuardJudged ==
  ASSUME AccountsForm, AccountsQuiet, NEW c \in Calls, ActionGuard(c)
  PROVE  Judged(c)'
<1>1. PICK o \in Seen(c), lost \in SUBSET Users :
        /\ \A u \in ({call[c].real, o} \cap Users) \ lost : ~Blocked(u)
        /\ call'[c] = [call[c] EXCEPT !.step = "cleared",
                         !.glitch = call[c].glitch \/ (lost # {} \/ o # Seat(c))]
  BY GuardForm
<1>2. Underway(c)' /\ barred' = barred /\ call[c] \in Call
  BY GuardForm, CallOfUnderway DEF ActionGuard, InStep, AccountsForm, people
<1>3. ~call'[c].glitch
  BY <1>2 DEF AccountsQuiet, Lossless
<1>4. /\ call'[c].step = "cleared" /\ call'[c].real = call[c].real
      /\ call'[c].glitch = (call[c].glitch \/ (lost # {} \/ o # Seat(c)))
  BY <1>1, <1>2 DEF Call
<1>5. lost = {} /\ call[c].real \in Users
  BY <1>2, <1>3, <1>4 DEF Call
<1>6. ~Blocked(call[c].real)
  BY <1>1, <1>5
<1> QED
  BY <1>2, <1>3, <1>4, <1>6 DEF Judged, Blocked

LEMMA SittingJudged ==
  ASSUME AccountsForm, NEW c \in Calls, Judged(c), AccountsQuiet, SittingGuard(c)
  PROVE  Judged(c)'
<1>1. PICK o \in Seen(c), lost \in BOOLEAN :
        /\ o # Nobody => call[c].route \notin OwnersOnly
        /\ o # Nobody /\ ~lost => <<c, o, call[c].real>> \in trail'
        /\ call'[c] = [call[c] EXCEPT !.step = "admitted",
                         !.glitch = call[c].glitch \/ (lost \/ o # Seat(c))]
  BY SittingForm
<1>2. /\ Underway(c)' /\ UNCHANGED <<barred, sitters>> /\ call[c] \in Call /\ Underway(c)
      /\ call[c].step = "cleared"
  BY SittingForm, CallOfUnderway DEF SittingGuard, InStep, AccountsForm, people
<1>3. ~call'[c].glitch
  BY <1>2 DEF AccountsQuiet, Lossless
<1>4. /\ call'[c].step = "admitted" /\ call'[c].real = call[c].real /\ call'[c].sit = call[c].sit
      /\ call'[c].route = call[c].route
      /\ call'[c].glitch = (call[c].glitch \/ (lost \/ o # Seat(c)))
  BY <1>1, <1>2 DEF Call
<1>5. ~lost /\ o = Seat(c)
  BY <1>3, <1>4
<1>6. Seat(c)' = Seat(c)
  BY <1>2, <1>4 DEF Seat, Blocked
<1>7. ~Blocked(call[c].real)
  BY <1>2 DEF Judged
<1> QED
  BY <1>1, <1>2, <1>3, <1>4, <1>5, <1>6, <1>7 DEF Judged, Blocked

LEMMA EnterJudged ==
  ASSUME AccountsForm, NEW c \in Calls, Judged(c), AccountsQuiet, Enter(c)
  PROVE  Judged(c)'
<1>1. PICK o \in Seen(c), as \in Users :
        /\ as = Acting(call[c], o) /\ Permitted(call[c], as)
        /\ call'[c] = [call[c] EXCEPT !.step = "acting", !.as = as,
                                      !.glitch = call[c].glitch \/ o # Seat(c)]
  BY EnterForm
<1>2. /\ Underway(c)' /\ UNCHANGED <<barred, sitters, roles, trail>> /\ call[c] \in Call /\ Underway(c)
      /\ call[c].step = "admitted"
  BY EnterForm, CallOfUnderway DEF Enter, InStep, AccountsForm, people
<1>3. ~call'[c].glitch
  BY <1>2 DEF AccountsQuiet, Lossless
<1>4. /\ call'[c].step = "acting" /\ call'[c].real = call[c].real /\ call'[c].as = as
      /\ call'[c].route = call[c].route /\ call'[c].who = call[c].who /\ call'[c].role = call[c].role
      /\ call'[c].on = call[c].on /\ call'[c].glitch = (call[c].glitch \/ o # Seat(c))
  BY <1>1, <1>2 DEF Call
<1>5. o = Seat(c)
  BY <1>3, <1>4
<1>6. ~Blocked(call[c].real)
  BY <1>2 DEF Judged
<1>7. as # call[c].real => /\ as = Seat(c) /\ ~Blocked(as)
                           /\ <<c, as, call[c].real>> \in trail /\ call[c].route \notin OwnersOnly
  <2>1. as # call[c].real => o # Nobody /\ as = Seat(c)
    BY <1>1, <1>5 DEF Acting
  <2>2. Seat(c) # Nobody => ~Blocked(Seat(c))
    BY DEF Seat
  <2> QED
    BY <1>2, <1>5, <2>1, <2>2 DEF Judged
<1>8. call[c].route = "role" => MaySetRole(call[c], as)
  BY <1>1 DEF Permitted
<1>9. call'[c].route = "role" => MaySetRole(call[c], as)'
  BY <1>2, <1>4, <1>8 DEF MaySetRole
<1> QED
  BY <1>2, <1>3, <1>4, <1>6, <1>7, <1>9 DEF Judged, Blocked, MaySetRole

LEMMA MakingJudged ==
  ASSUME AccountsForm, NEW c \in Calls, Judged(c), AccountsQuiet, RegisterAgent(c) \/ SetIsAi(c)
  PROVE  Judged(c)'
<1>1. /\ Underway(c)' /\ Underway(c) /\ barred' = barred
      /\ call'[c].step \in {"registered", "tagged"} /\ call'[c].real = call[c].real
      /\ call'[c].as = call'[c].real /\ call[c].step \in {"acting", "registered"}
  BY MakingForm
<1>2. ~call'[c].glitch
  BY <1>1 DEF AccountsQuiet, Lossless
<1>3. ~Blocked(call[c].real)
  BY <1>1 DEF Judged
<1> QED
  BY <1>1, <1>2, <1>3 DEF Judged, Blocked

\* Only a change of roles takes a role, and never the actor's own.
LEMMA AdminStays ==
  ASSUME AccountsInv, [AccountsNext]_accountVars
  PROVE  AdminRemains'
<1>1. PICK u \in known : "admin" \in roles[u]
  BY DEF AccountsInv, AdminRemains
<1>0. AccountsForm /\ AccountsTypeOK /\ u \in Users
  BY DEF AccountsInv, AccountsForm, AccountsTypeOK
<1> SUFFICES ASSUME NEW c \in Calls, SetRole(c) PROVE AdminRemains'
  <2>1. CASE \A c \in Calls : ~SetRole(c)
    <3>1. /\ known \subseteq known'
          /\ "admin" \in roles'[u]
      <4>1. CASE UNCHANGED accountVars
        BY <1>1, <4>1 DEF accountVars, people
      <4>2. CASE Requesting
        BY <1>0, <1>1, <4>2, SendForm, BearerForm DEF Requesting, people
      <4>3. CASE Layers
        BY <1>0, <1>1, <4>3 DEF Layers, ActionGuard, SittingGuard, Enter, Drop, people
      <4>4. CASE Handling
        <5>1. PICK c \in Calls : \/ Play(c) \/ GrantSitter(c) \/ RevokeSitter(c) \/ ApplySanction(c)
                                 \/ RegisterAgent(c) \/ SetIsAi(c) \/ CreateAgentKey(c) \/ RevokeKeys(c)
          BY <2>1, <4>4 DEF Handling
        <5>2. CASE RegisterAgent(c) \/ SetIsAi(c)
          BY <1>0, <1>1, <5>2, MakingForm DEF RegisterAgent, SetIsAi
        <5>3. CASE ~(RegisterAgent(c) \/ SetIsAi(c))
          BY <1>1, <5>1, <5>3 DEF Play, GrantSitter, RevokeSitter, ApplySanction, CreateAgentKey,
             RevokeKeys, people
        <5> QED
          BY <5>2, <5>3
      <4>5. CASE Reboot
        BY <1>0, <1>1, <4>5 DEF Reboot
      <4>6. CASE \E w \in Users : Lapse(w)
        BY <1>1, <4>6 DEF Lapse
      <4> QED
        BY <4>1, <4>2, <4>3, <4>4, <4>5, <4>6 DEF AccountsNext
    <3> QED
      BY <1>1, <3>1 DEF AdminRemains
  <2> QED
    BY <2>1
<1> DEFINE d == call[c]
<1>2. /\ Underway(c) /\ d.step = "acting" /\ d.route = "role" /\ known' = known
      /\ roles' = [roles EXCEPT ![d.who] = IF d.on THEN @ \cup {d.role} ELSE @ \ {d.role}]
  BY DEF SetRole, Does, InStep
<1>3. d \in Call
  BY <1>0, <1>2, CallOfUnderway
<1>4. MaySetRole(d, d.as)
  BY <1>2 DEF AccountsInv, Judged
<1>5. d.as = d.real /\ d.real \in Humans
  BY <1>2 DEF AccountsInv, AccountsForm, Formed, ByAccount
<1>6. d.as \in known /\ d.as \in Users
  BY <1>3, <1>5 DEF AccountsInv, AccountsForm, Call
<1>7. "admin" \in roles'[d.as]
  <2> HIDE DEF d
  <2> QED
    BY <1>0, <1>2, <1>3, <1>4, <1>6 DEF MaySetRole, AccountsTypeOK, Call
<1> QED
  BY <1>2, <1>6, <1>7 DEF AdminRemains

LEMMA InvStep == AccountsInv /\ [AccountsNext /\ AccountsQuiet]_accountVars => AccountsInv'
<1> SUFFICES ASSUME AccountsInv, [AccountsNext /\ AccountsQuiet]_accountVars PROVE AccountsInv'
  OBVIOUS
<1>1. CASE UNCHANGED accountVars
  BY <1>1 DEF accountVars, people, AccountsInv, AccountsForm, AccountsTypeOK, Formed, Underway,
     AdminRemains, Judged, Seat, Blocked, MaySetRole
<1>2. CASE AccountsNext /\ AccountsQuiet
  <2>1. AccountsForm /\ AccountsForm' /\ AdminRemains' /\ \A c \in Calls : Judged(c)
    BY <1>2, FormStep, AdminStays DEF AccountsInv
  <2>2. CASE \E c \in Calls : /\ Judged(c)' /\ trail \subseteq trail'
                              /\ \A e \in Calls \ {c} : call'[e] = call[e]
    BY <1>2, <2>1, <2>2, OthersJudged DEF AccountsInv
  <2>3. CASE \A c \in Calls : ~Underway(c)'
    BY <2>1, <2>3 DEF AccountsInv, Judged
  <2>4. CASE trail' = trail /\ call' = call
    BY <1>2, <2>1, <2>4, OthersJudged DEF AccountsInv
  <2>5. CASE Requesting
    <3>1. PICK c \in Calls :
            (\E u \in Humans, o \in Humans \cup {Nobody}, w \in Users, route \in Routes :
               Send(c, u, o, route, w)) \/ \E u \in Users : Bearer(c, u)
      BY <2>5 DEF Requesting
    <3>2. Judged(c)'
      BY <1>2, <2>1, <3>1, PostJudged
    <3>3. trail' = trail /\ \A e \in Calls \ {c} : call'[e] = call[e]
      BY <2>1, <3>1, SendForm, BearerForm
    <3> QED
      BY <2>2, <3>2, <3>3
  <2>6. CASE Layers
    <3>1. PICK c \in Calls : ActionGuard(c) \/ SittingGuard(c) \/ Enter(c) \/ Drop(c)
      BY <2>6 DEF Layers
    <3>2. CASE ActionGuard(c)
      BY <1>2, <2>1, <2>2, <3>2, GuardForm, GuardJudged
    <3>3. CASE SittingGuard(c)
      BY <1>2, <2>1, <2>2, <3>3, SittingForm, SittingJudged
    <3>4. CASE Enter(c)
      BY <1>2, <2>1, <2>2, <3>4, EnterForm, EnterJudged
    <3>5. CASE Drop(c)
      BY <2>1, <2>2, <3>5, DropForm DEF Judged
    <3> QED
      BY <3>1, <3>2, <3>3, <3>4, <3>5
  <2>7. CASE Handling
    <3>1. PICK c \in Calls : Last(c) \/ RegisterAgent(c) \/ SetIsAi(c)
      BY <2>7 DEF Handling, Last
    <3>2. CASE Last(c)
      BY <2>1, <2>2, <3>2, LastForm DEF Judged
    <3>3. CASE RegisterAgent(c) \/ SetIsAi(c)
      BY <1>2, <2>1, <2>2, <3>3, MakingForm, MakingJudged
    <3> QED
      BY <3>1, <3>2, <3>3
  <2>8. CASE Reboot
    BY <2>1, <2>3, <2>8, RebootForm
  <2>9. CASE \E u \in Users : Lapse(u)
    BY <2>1, <2>4, <2>9, LapseForm
  <2> QED
    BY <1>2, <2>5, <2>6, <2>7, <2>8, <2>9 DEF AccountsNext
<1> QED
  BY <1>1, <1>2

\* What a request that is served was at that moment.
LEMMA ServedStep ==
  ASSUME AccountsInv, [AccountsNext]_accountVars, NEW c \in Calls, Underway(c), call'[c] = Served
  PROVE  InStep(c, "acting") \/ InStep(c, "tagged")
<1>1. AccountsForm /\ AccountsTypeOK
  BY DEF AccountsInv, AccountsForm
<1>2. call[c] # Served /\ call'[c] # Dropped /\ ~Underway(c)'
  BY Apart DEF Underway
<1>3. ~UNCHANGED accountVars
  BY <1>2 DEF accountVars
<1>4. ~Requesting
  BY <1>1, <1>2, SendForm, BearerForm DEF Requesting, Underway, Bearer, Post
<1>5. ~Layers
  <2> SUFFICES ASSUME NEW e \in Calls, ActionGuard(e) \/ SittingGuard(e) \/ Enter(e) \/ Drop(e)
               PROVE FALSE
    BY DEF Layers
  <2>1. ~(ActionGuard(e) \/ SittingGuard(e) \/ Enter(e))
    BY <1>1, <1>2, GuardForm, SittingForm, EnterForm
  <2>2. ~Drop(e)
    BY <1>1, <1>2 DEF Drop, AccountsTypeOK
  <2> QED
    BY <2>1, <2>2
<1>6. ~Reboot
  BY <1>2 DEF Reboot
<1>7. ~\E u \in Users : Lapse(u)
  BY <1>2 DEF Lapse
<1>8. PICK e \in Calls : Last(e) \/ RegisterAgent(e) \/ SetIsAi(e)
  BY <1>3, <1>4, <1>5, <1>6, <1>7 DEF AccountsNext, Handling, Last
<1>9. ~(RegisterAgent(e) \/ SetIsAi(e))
  BY <1>1, <1>2, MakingForm
<1>10. e = c
  BY <1>1, <1>2, <1>8, <1>9, LastForm
<1> QED
  BY <1>8, <1>9, <1>10 DEF Last, Play, GrantSitter, RevokeSitter, ApplySanction, SetRole,
     CreateAgentKey, RevokeKeys, Does

\* In quiet histories an administrator is always left.
THEOREM AdminsRemain == AccountsQuietSpec => []AdminRemains
<1>1. AccountsInv => AdminRemains
  BY DEF AccountsInv
<1> QED
  BY <1>1, InvInit, InvStep, PTL DEF AccountsQuietSpec

\* In quiet histories nothing is written for a blocked account, nor by a blocked human for another.
THEOREM NothingForBlocked == AccountsQuietSpec => BlockedDoNothing
<1> DEFINE A == \A c \in Calls : Underway(c) /\ call'[c] = Served =>
                  ~Blocked(call[c].real) /\ ~Blocked(call[c].as)
<1>1. AccountsInv /\ [AccountsNext /\ AccountsQuiet]_accountVars => [A]_accountVars
  <2> SUFFICES ASSUME AccountsInv, [AccountsNext]_accountVars, NEW c \in Calls,
                      Underway(c), call'[c] = Served
               PROVE  ~Blocked(call[c].real) /\ ~Blocked(call[c].as)
    OBVIOUS
  <2>1. call[c].step \in {"acting", "tagged"}
    BY ServedStep DEF InStep
  <2> QED
    BY <2>1 DEF AccountsInv, Judged
<1> QED
  BY <1>1, InvInit, InvStep, PTL DEF AccountsQuietSpec, BlockedDoNothing

\* In quiet histories whatever a sitter writes in an owner's name is on the owner's record, and
\* nothing of it is the owner's alone.
THEOREM SittersRecorded == AccountsQuietSpec => SitsRecorded
<1> DEFINE A == \A c \in Calls : Underway(c) /\ call'[c] = Served /\ call[c].as # call[c].real =>
                  <<c, call[c].as, call[c].real>> \in trail /\ call[c].route \notin OwnersOnly
<1>1. AccountsInv /\ [AccountsNext /\ AccountsQuiet]_accountVars => [A]_accountVars
  <2> SUFFICES ASSUME AccountsInv, [AccountsNext]_accountVars, NEW c \in Calls,
                      Underway(c), call'[c] = Served, call[c].as # call[c].real
               PROVE  <<c, call[c].as, call[c].real>> \in trail /\ call[c].route \notin OwnersOnly
    OBVIOUS
  <2>1. call[c].step \in {"acting", "tagged"}
    BY ServedStep DEF InStep
  <2>2. call[c].step # "tagged"
    BY DEF AccountsInv, AccountsForm, Formed
  <2> QED
    BY <2>1, <2>2 DEF AccountsInv, Judged
<1> QED
  BY <1>1, InvInit, InvStep, PTL DEF AccountsQuietSpec, SitsRecorded
==============================================================================
