------------------------------- MODULE MCRealm -------------------------------
(* Two players, a capital, a second village and a free valley; a player who   *)
(* holds one village may settle or conquer one more, once he has the culture. *)
EXTENDS Realm

CONSTANTS v1, v2, v3, v4, p1, p2, m1, m2

\* culture_rate: each village held counts a base and what its hall adds.
CultureRate == [halls \in [Villages -> Hold] |->
  MapThenSumSet(LAMBDA v : 1 + halls[v], {v \in Villages : halls[v] # Nobody})]

Settled3 == [v \in Villages |-> IF v = v1 THEN p1 ELSE IF v \in {v2, v3} THEN p2 ELSE Nobody]
Seats == [v \in Villages |-> IF v \in {v1, v2, v3} THEN 1 ELSE 0]
Steps == [n \in 1 .. 3 |-> IF n = 1 THEN 0 ELSE n]
OneSlot == [l \in Levels |-> l]
ToOrder == {[kind |-> "seat", home |-> v1, to |-> v1],
            [kind |-> "hall", home |-> v3, to |-> v3],
            [kind |-> "settle", home |-> v1, to |-> v4], [kind |-> "settle", home |-> v3, to |-> v4],
            [kind |-> "attack", home |-> v1, to |-> v3]}
=============================================================================
