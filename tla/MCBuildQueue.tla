---------------------------- MODULE MCBuildQueue ----------------------------
(* Small worlds for TLC: one field, two or three centre slots, levels to 2.   *)
EXTENDS BuildQueue, TLC

CONSTANTS v1, v2, p1, p2, f1, c1, c2, c3, r1, r2, r3, r4

\* Requests differ in nothing but their names.
SameRequests == Permutations(Requests)
SeatAll == [k \in Buildings |-> IF k = "main" THEN {c1} \cap Centre ELSE Centre \ {c1}]
NeedsAll == [k \in Buildings |-> IF k \in {"palace", "residence"} THEN {<<"main", 1>>} ELSE {}]
LevelAll == [k \in Kinds |-> IF k = "field" THEN 1 ELSE 2]
\* Seats of a single level, so that none is being raised when it is torn down.
SeatOne == [LevelAll EXCEPT !.palace = 1, !.residence = 1]
MainOnly == [v \in Villages |-> [s \in Slots |->
  IF s \in Fields THEN [kind |-> "field", level |-> 0]
  ELSE IF s = c1 THEN [kind |-> "main", level |-> 1] ELSE Empty]]
\* The capital starts with a Palace; every village with a store on c3 if it has c3.
WithPalace == [v \in Villages |-> [MainOnly[v] EXCEPT
  ![c2] = IF v = v1 THEN [kind |-> "palace", level |-> 1] ELSE Empty]]
TwoStores == [v \in Villages |-> [MainOnly[v] EXCEPT
  ![c2] = [kind |-> "store", level |-> 2], ![c3] = [kind |-> "store", level |-> 1]]]
AllP1 == [v \in Villages |-> p1]
OneEach == [v \in Villages |-> IF v = v1 THEN p1 ELSE p2]
=============================================================================
