------------------------------ MODULE Alliance ------------------------------
(***************************************************************************)
(* Alliances, their members, invitations and pacts.  Every command is a web  *)
(* request that reads the actor's membership, then the row it acts on, and   *)
(* only then writes: what the write repeats of those checks is little, so    *)
(* other requests may come in between.  A handler may end at any point.      *)
(***************************************************************************)
EXTENDS Integers, FiniteSets

CONSTANTS
  Players, Alliances,         \* Alliances: the ids ever drawn
  Requests,                   \* one-shot web requests
  Embassy,                    \* player -> highest Embassy level
  JoinLevel, FoundLevel, MaxMembers,
  Grants,                     \* bound: the sets of rights leaders are given
  Starts,                     \* the worlds to start from
  NoOne, Unused, Disbanded,   \* no membership; an id with no row yet, or no longer
  NoDraft, Done, Neutral

Rights == {"invite", "expel", "diplomacy", "announce", "manage"}
Roles == {"founder", "leader", "member"}
Rank(role) == IF role = "founder" THEN 2 ELSE IF role = "leader" THEN 1 ELSE 0
Outranks(a, b) == Rank(a) > Rank(b)

Membership == [alliance : Alliances, role : Roles, rights : SUBSET Rights]

\* The founder holds every right, a leader those granted, a member none.
HasRight(m, right) == m.role = "founder" \/ (m.role = "leader" /\ right \in m.rights)

\* A row of alliance_diplomacy: a war, an offer by one side, or a confederation.
War == [stance |-> "war", by |-> NoOne]
Allied == [stance |-> "confederation", by |-> NoOne]
Offer(a) == [stance |-> "offer", by |-> a]
Stances == {Neutral, War, Allied} \cup {Offer(a) : a \in Alliances}
Pairs == {{a, b} : a, b \in Alliances}

Targeted == {"invite", "expel", "role", "transfer"}
Commands == {"war", "propose", "accord", "cancel"}
Ops == {"found", "join", "decline", "revoke", "leave", "disband"} \cup Targeted \cup Commands

\* A request: who asks, about whom, in which alliance and with what role there.
Draft == [op : Ops, step : {"asked", "ready", "joined"}, by : Players, who : Players,
          alliance : Alliances, other : Alliances, as : Roles,
          role : {"leader", "member"}, rights : SUBSET Rights, next : Stances]

ASSUME AllianceAssumption ==
  /\ Embassy \in [Players -> Nat] /\ MaxMembers \in Nat /\ Grants \subseteq SUBSET Rights
  /\ MaxMembers > 0 /\ IsFiniteSet(Players)
  /\ \A s \in Starts :
       LET Belongs(p, a) == s.member[p] # NoOne /\ s.member[p].alliance = a IN
       /\ s.founder \in [Alliances -> Players \cup {Unused}]
       /\ s.member \in [Players -> Membership \cup {NoOne}]
       /\ s.invites \subseteq {a \in Alliances : s.founder[a] # Unused} \X Players
       /\ s.pact \in [Pairs -> Stances]
       /\ \A p \in Players : s.member[p] # NoOne => s.founder[s.member[p].alliance] # Unused
       /\ \A q \in Pairs : s.pact[q] # Neutral => \A a \in q : s.founder[a] # Unused
       /\ \A q \in Pairs, a \in Alliances : s.pact[q] = Offer(a) => a \in q
       /\ \A p \in Players, a \in Alliances :
            Belongs(p, a) /\ s.member[p].role = "founder" <=> p = s.founder[a]
       /\ \A a \in Alliances : Cardinality({p \in Players : Belongs(p, a)}) <= MaxMembers

ASSUME Strangers ==
  /\ NoOne \notin Membership \cup Players /\ Unused # Disbanded /\ {Unused, Disbanded} \cap Players = {}
  /\ NoDraft \notin Draft \cup {Done} /\ Done \notin Draft
  /\ Neutral \notin {War, Allied} \cup {Offer(a) : a \in Alliances} /\ NoOne \notin Alliances

VARIABLES
  founder,  \* alliance -> founder_id of its row
  member,   \* player -> its row of alliance_members, or NoOne
  invites,  \* rows of alliance_invitations
  pact,     \* pair of alliances -> its row of alliance_diplomacy, or Neutral
  draft     \* request -> what it has read and means to write

vars == <<founder, member, invites, pact, draft>>
tables == <<founder, member, invites, pact>>

Exists(a) == founder[a] \in Players
In(p, a) == member[p] # NoOne /\ member[p].alliance = a
Members(a) == {p \in Players : In(p, a)}

-----------------------------------------------------------------------------
(* Reading and checking *)

Blank(op, step, p, a) ==
  [op |-> op, step |-> step, by |-> p, who |-> p, alliance |-> a, other |-> a, as |-> "member",
   role |-> "member", rights |-> {}, next |-> Neutral]

Ask(r, d) == /\ draft[r] = NoDraft
             /\ draft' = [draft EXCEPT ![r] = d]
             /\ UNCHANGED tables

\* found_alliance; the new alliance's id is one nobody has drawn.
AskFound(r, p, a) ==
  /\ founder[a] = Unused
  /\ \A q \in Requests : draft[q] \in Draft => draft[q].alliance # a
  /\ member[p] = NoOne /\ Embassy[p] >= FoundLevel
  /\ Ask(r, Blank("found", "ready", p, a))

\* respond_invite up to the insert.
AskRespond(r, i) ==
  LET a == i[1] p == i[2] IN
  \/ Ask(r, Blank("decline", "ready", p, a))
  \/ /\ member[p] = NoOne /\ Embassy[p] >= JoinLevel
     /\ Ask(r, Blank("join", "asked", p, a))

Right == [op \in {"invite", "revoke", "expel", "role"} \cup Commands |->
  IF op \in {"invite", "revoke"} THEN "invite" ELSE IF op = "expel" THEN "expel"
  ELSE IF op = "role" THEN "manage" ELSE "diplomacy"]

Entitled(op, m) ==
  \/ op = "leave" /\ m.role # "founder"
  \/ op \in {"disband", "transfer"} /\ m.role = "founder"
  \/ op \in DOMAIN Right /\ HasRight(m, Right[op])

\* Every other command first reads the actor's membership.
AskActor(r, op, p) ==
  LET m == member[p]
      d == [Blank(op, "asked", p, m.alliance) EXCEPT !.as = m.role] IN
  /\ m # NoOne /\ Entitled(op, m)
  /\ \/ op \in {"leave", "disband"} /\ Ask(r, [d EXCEPT !.step = "ready"])
     \/ \E w \in Players :
          \/ op = "revoke" /\ Ask(r, [d EXCEPT !.step = "ready", !.who = w])
          \/ op = "invite" /\ Ask(r, [d EXCEPT !.who = w])
          \/ op \in {"expel", "transfer", "role"} /\ w # p /\ Ask(r, [d EXCEPT !.who = w])
          \/ op = "role" /\ w # p /\ \E g \in Grants :
               Ask(r, [d EXCEPT !.who = w, !.role = "leader", !.rights = g])
     \/ op \in Commands /\ \E b \in Alliances \ {m.alliance} : Ask(r, [d EXCEPT !.other = b])

Ready(r) == draft' = [draft EXCEPT ![r].step = "ready"]

At(r, ops, step) == draft[r] \in Draft /\ draft[r].op \in ops /\ draft[r].step = step

\* Mutant: nobody asks who outranks whom.
ReadTargetAnyRank(r) ==
  /\ At(r, Targeted, "asked")
  /\ LET d == draft[r] IN
       IF d.op = "invite" THEN member[d.who] = NoOne ELSE In(d.who, d.alliance)
  /\ Ready(r) /\ UNCHANGED tables

\* The invitee must be free; anybody else acted on a member, and of lower rank when expelled or
\* given a role.
ReadTarget(r) ==
  /\ At(r, Targeted, "asked")
  /\ LET d == draft[r] IN
       IF d.op = "invite" THEN member[d.who] = NoOne
       ELSE /\ In(d.who, d.alliance)
            /\ d.op \in {"expel", "role"} => Outranks(d.as, member[d.who].role)
            /\ d.op = "role" => Outranks(d.as, d.role)
  /\ Ready(r) /\ UNCHANGED tables

\* Mutant: an alliance may accept its own offer.
MayAcceptOwn(now, me) == now \notin {Neutral, War}

MayAccept(now, me) == now \notin {Neutral, War, Offer(me)}

\* next_stance, with the refusal to accept one's own offer: the pact to write, if any.
NextStance(op, now, me) == {s \in Stances :
  \/ op = "war" /\ s = War
  \/ op = "cancel" /\ s = Neutral
  \/ op = "propose" /\ now # War /\ s = IF now = Allied THEN Allied ELSE Offer(me)
  \/ op = "accord" /\ MayAccept(now, me) /\ s = Allied}

ReadPact(r) ==
  /\ At(r, Commands, "asked")
  /\ LET d == draft[r] IN \E s \in NextStance(d.op, pact[{d.alliance, d.other}], d.alliance) :
       draft' = [draft EXCEPT ![r].step = "ready", ![r].next = s]
  /\ UNCHANGED tables

\* Mutant: the seats are not counted.
CountNothing(r) == At(r, {"join"}, "asked") /\ Ready(r) /\ UNCHANGED tables

\* The count inside the guarded insert: a snapshot of its own, which locks nothing.
CountSeats(r) ==
  /\ At(r, {"join"}, "asked")
  /\ Cardinality(Members(draft[r].alliance)) < MaxMembers
  /\ Ready(r) /\ UNCHANGED tables

\* A check fails, a statement fails, or the handler is dropped: nothing more is written.
End(r) ==
  /\ draft[r] \in Draft
  /\ draft' = [draft EXCEPT ![r] = Done]
  /\ UNCHANGED tables

-----------------------------------------------------------------------------
(* Writing *)

Finish(r) == draft' = [draft EXCEPT ![r] = Done]

\* create_alliance: the row and its founder's membership, unless he has joined another.
Found(r) ==
  /\ At(r, {"found"}, "ready")
  /\ LET d == draft[r] IN
       /\ member[d.by] = NoOne
       /\ founder' = [founder EXCEPT ![d.alliance] = d.by]
       /\ member' = [member EXCEPT ![d.by] =
            [alliance |-> d.alliance, role |-> "founder", rights |-> Rights]]
  /\ Finish(r) /\ UNCHANGED <<invites, pact>>

\* insert_invite, under the foreign key.
Invite(r) ==
  /\ At(r, {"invite"}, "ready")
  /\ Exists(draft[r].alliance)
  /\ invites' = invites \cup {<<draft[r].alliance, draft[r].who>>}
  /\ Finish(r) /\ UNCHANGED <<founder, member, pact>>

\* delete_invite, of a revocation or a refusal.
DropInvite(r) ==
  /\ At(r, {"revoke", "decline"}, "ready")
  /\ LET d == draft[r] IN
       invites' = invites \ {<<d.alliance, IF d.op = "revoke" THEN d.who ELSE d.by>>}
  /\ Finish(r) /\ UNCHANGED <<founder, member, pact>>

\* The insert itself: one alliance per player, and the alliance must exist.
Join(r) ==
  /\ At(r, {"join"}, "ready")
  /\ LET d == draft[r] IN
       /\ member[d.by] = NoOne /\ Exists(d.alliance)
       /\ member' = [member EXCEPT ![d.by] =
            [alliance |-> d.alliance, role |-> "member", rights |-> {}]]
  /\ draft' = [draft EXCEPT ![r].step = "joined"]
  /\ UNCHANGED <<founder, invites, pact>>

\* A statement of its own: the invitation is used up.
UseInvite(r) ==
  /\ At(r, {"join"}, "joined")
  /\ invites' = invites \ {<<draft[r].alliance, draft[r].by>>}
  /\ Finish(r) /\ UNCHANGED <<founder, member, pact>>

\* remove_member: by player alone, whichever alliance he is in by now.
RemoveMember(r) ==
  /\ At(r, {"leave", "expel"}, "ready")
  /\ LET d == draft[r] IN
       member' = [member EXCEPT ![IF d.op = "leave" THEN d.by ELSE d.who] = NoOne]
  /\ Finish(r) /\ UNCHANGED <<founder, invites, pact>>

\* Players of the alliance get a role; rows of another are not touched.
WithRole(m, p, a, role, rights) ==
  IF m[p] # NoOne /\ m[p].alliance = a
  THEN [m EXCEPT ![p] = [alliance |-> a, role |-> role, rights |-> rights]] ELSE m

SetMemberRole(r) ==
  /\ At(r, {"role"}, "ready")
  /\ LET d == draft[r] IN
       member' = WithRole(member, d.who, d.alliance, d.role,
                          IF d.role = "member" THEN {} ELSE d.rights)
  /\ Finish(r) /\ UNCHANGED <<founder, invites, pact>>

\* Mutant: the old founder keeps the rank.
TransferTwice(r) ==
  /\ At(r, {"transfer"}, "ready")
  /\ LET d == draft[r] IN
       /\ member' = WithRole(member, d.who, d.alliance, "founder", Rights)
       /\ founder' = IF Exists(d.alliance) THEN [founder EXCEPT ![d.alliance] = d.who] ELSE founder
  /\ Finish(r) /\ UNCHANGED <<invites, pact>>

\* transfer_founder: three updates of one transaction.
TransferFounder(r) ==
  /\ At(r, {"transfer"}, "ready")
  /\ LET d == draft[r] IN
       /\ member' = WithRole(WithRole(member, d.by, d.alliance, "member", {}),
                             d.who, d.alliance, "founder", Rights)
       /\ founder' = IF Exists(d.alliance) THEN [founder EXCEPT ![d.alliance] = d.who] ELSE founder
  /\ Finish(r) /\ UNCHANGED <<invites, pact>>

\* The row goes, and with it, by cascade, members, invitations and pacts.
Disband(r) ==
  /\ At(r, {"disband"}, "ready")
  /\ LET a == draft[r].alliance IN
       /\ founder' = [founder EXCEPT ![a] = IF Exists(a) THEN Disbanded ELSE @]
       /\ member' = [p \in Players |-> IF In(p, a) THEN NoOne ELSE member[p]]
       /\ invites' = {i \in invites : i[1] # a}
       /\ pact' = [q \in Pairs |-> IF a \in q THEN Neutral ELSE pact[q]]
  /\ Finish(r)

\* set_diplomacy_state or clear_diplomacy: the last to write wins.
SetPact(r) ==
  /\ At(r, Commands, "ready")
  /\ LET d == draft[r] IN
       /\ d.next = Neutral \/ (Exists(d.alliance) /\ Exists(d.other))
       /\ pact' = [pact EXCEPT ![{d.alliance, d.other}] = d.next]
  /\ Finish(r) /\ UNCHANGED <<founder, member, invites>>

-----------------------------------------------------------------------------
Init ==
  /\ \E s \in Starts : founder = s.founder /\ member = s.member /\ invites = s.invites /\ pact = s.pact
  /\ draft = [r \in Requests |-> NoDraft]

NewRequest == \E r \in Requests :
  \/ \E p \in Players, a \in Alliances : AskFound(r, p, a)
  \/ \E i \in invites : AskRespond(r, i)
  \/ \E p \in Players, op \in Ops : AskActor(r, op, p)

Check == \E r \in Requests : ReadTarget(r) \/ ReadPact(r) \/ CountSeats(r) \/ End(r)

Write == \E r \in Requests :
  \/ Found(r) \/ Invite(r) \/ DropInvite(r) \/ Join(r) \/ UseInvite(r) \/ RemoveMember(r)
  \/ SetMemberRole(r) \/ TransferFounder(r) \/ Disband(r) \/ SetPact(r)

Next == NewRequest \/ Check \/ Write
Spec == Init /\ [][Next]_vars

\* Whose standing a command relies on when it writes.
Relied(d) ==
  CASE d.op \in {"leave", "disband"} -> {d.by}
    [] d.op \in {"expel", "role"} /\ d.step = "ready" -> {d.who}
    [] d.op = "transfer" -> IF d.step = "ready" THEN {d.by, d.who} ELSE {d.by}
    [] OTHER -> {}

\* The alliance a player is in, and whether he leads it.
Standing(p) == IF member[p] = NoOne THEN <<NoOne, FALSE>>
               ELSE <<member[p].alliance, member[p].role = "founder">>

Waits(r) == draft[r] \in Draft /\ draft'[r] = draft[r]

\* A quiet history: while a command is between its check and its write nobody else joins,
\* leaves or takes the lead among those it relies on, fills the seat it has counted, or
\* changes the pact it is about to seal.
QuietRanks == \A r \in Requests : Waits(r) => \A p \in Relied(draft[r]) : Standing(p)' = Standing(p)
QuietSeats == \A r \in Requests : Waits(r) /\ At(r, {"join"}, "ready") =>
  Members(draft[r].alliance)' \subseteq Members(draft[r].alliance)
QuietPacts == \A r \in Requests : Waits(r) /\ At(r, Commands, "ready") /\ draft[r].next = Allied =>
  LET q == {draft[r].alliance, draft[r].other} IN pact'[q] = pact[q]
Quiet == QuietRanks /\ QuietSeats /\ QuietPacts

QuietSpec == Init /\ [][Next /\ Quiet]_vars

-----------------------------------------------------------------------------
(* Properties *)

\* The tables hold what their columns may hold; invitations and members are of alliances that
\* exist (the foreign keys), and so are pacts.
TypeOK ==
  /\ founder \in [Alliances -> Players \cup {Unused, Disbanded}]
  /\ member \in [Players -> Membership \cup {NoOne}]
  /\ invites \subseteq Alliances \X Players
  /\ pact \in [Pairs -> Stances]
  /\ draft \in [Requests -> Draft \cup {NoDraft, Done}]
  /\ \A p \in Players : member[p] # NoOne => Exists(member[p].alliance)
  /\ \A i \in invites : Exists(i[1])
  /\ \A q \in Pairs : pact[q] # Neutral => \A a \in q : Exists(a)

\* An alliance has one founder, the one its row names (AllianceRole::Founder: "exactly one per
\* alliance"), through transfers, departures, expulsions and changes of role.
OneFounder == \A a \in Alliances : Exists(a) =>
  \A p \in Players : In(p, a) /\ member[p].role = "founder" <=> p = founder[a]

\* No alliance grows beyond its cap (AC4).
CapHeld == \A a \in Alliances : Cardinality(Members(a)) <= MaxMembers

\* A confederation comes into force only when the side that was offered it accepts (AC7).
ConsentGiven == [][\A q \in Pairs : pact[q] # Allied /\ pact'[q] = Allied =>
  \E r \in Requests : /\ At(r, {"accord"}, "ready") /\ q = {draft[r].alliance, draft[r].other}
                      /\ pact[q] = Offer(draft[r].other)]_vars

\* Whoever loses a membership has left or been expelled from the alliance the command was
\* about, and not as its founder, or his alliance was disbanded by its founder.
RankStands == [][\A p \in Players : member[p] # NoOne /\ member'[p] = NoOne =>
  LET a == member[p].alliance IN \E r \in Requests :
    /\ draft[r] \in Draft /\ draft'[r] = Done /\ draft[r].alliance = a
    /\ \/ draft[r].op = "disband" /\ draft[r].by = founder[a]
       \/ member[p].role # "founder" /\ draft[r].op = "leave" /\ draft[r].by = p
       \/ member[p].role # "founder" /\ draft[r].op = "expel" /\ draft[r].who = p]_vars
=============================================================================
