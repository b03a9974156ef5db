------------------------------ MODULE MCSociety ------------------------------
(* What players are to each other: alliances (Alliance) and accounts           *)
(* (Accounts).  The two share no state, so that a history of one leaves the    *)
(* other alone and is as good as any.                                          *)
(* Alliance: three players and two alliances, from three worlds: a full        *)
(* alliance beside a free player it has invited, one with a single seat that   *)
(* has invited two, and two alliances, one of which has made an offer,         *)
(* courting a third player.  Accounts: an administrator with a sitter, or two  *)
(* administrators, and an agent to be made.                                    *)
EXTENDS Alliance, Accounts, TLC

CONSTANTS p1, p2, p3, a1, a2, r1, r2, r3, h1, h2, b1, c1, c2

Strong == [p \in Players |-> 3]
Led(a, role) == [alliance |-> a, role |-> role, rights |-> IF role = "member" THEN {} ELSE Rights]
Peace == [q \in Pairs |-> Neutral]

OneFull == [founder |-> (a1 :> p1) @@ (a2 :> Unused),
            member |-> (p1 :> Led(a1, "founder")) @@ (p2 :> Led(a1, "leader")) @@ (p3 :> NoOne),
            invites |-> {<<a1, p3>>}, pact |-> Peace]
TwoCourting == [founder |-> (a1 :> p1) @@ (a2 :> p2),
                member |-> (p1 :> Led(a1, "founder")) @@ (p2 :> Led(a2, "founder")) @@ (p3 :> NoOne),
                invites |-> {<<a1, p3>>, <<a2, p3>>}, pact |-> [Peace EXCEPT ![{a1, a2}] = Offer(a1)]]
OneSeat == [OneFull EXCEPT !.member[p2] = NoOne, !.invites = {<<a1, p2>>, <<a1, p3>>}]
Worlds == {OneFull, TwoCourting, OneSeat}

Plain == [u \in Users |-> {}]
Sat == [roles |-> [Plain EXCEPT ![h1] = {"admin", "moderator"}], sitters |-> {<<h1, h2>>}]
TwoAdmins == [roles |-> [Plain EXCEPT ![h1] = {"admin"}, ![h2] = {"admin", "moderator"}], sitters |-> {}]
Staffs == {Sat, TwoAdmins}
Listed == [Plain EXCEPT ![h1] = {"moderator"}]

VARIABLE part
all == <<vars, accountVars, part>>

Union(A) == part = "alliances" /\ A /\ Quiet /\ UNCHANGED <<accountVars, part>>
House(A) == part = "accounts" /\ A /\ AccountsQuiet /\ UNCHANGED <<vars, part>>

\* The part that rests stays in one state.
SocietyInit == /\ Init /\ AccountsInit /\ part \in {"alliances", "accounts"}
               /\ part = "alliances" => roles = Sat.roles
               /\ part = "accounts" => founder = OneFull.founder /\ member[p2] = NoOne
SocietySpec == SocietyInit /\ [][Union(Next) \/ House(AccountsNext)]_all

Same == Permutations(Requests) \cup Permutations(Calls)
=============================================================================
