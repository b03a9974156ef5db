------------------------------ MODULE MCTroops ------------------------------
(* Two villages of two players, a handful of soldiers.                        *)
EXTENDS Troops

CONSTANTS v1, v2, p1, p2, r1, r2, m1, m2, m3

OneEach == [v \in Villages |-> IF v = v1 THEN p1 ELSE p2]
TwoAndOne == [v \in Villages |-> IF v = v1 THEN 2 ELSE 1]
=============================================================================
