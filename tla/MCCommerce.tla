----------------------------- MODULE MCCommerce -----------------------------
(* One village's store (VillageStore) and the shipments between two          *)
(* (Market), in one run: they share no state, and a history is of either.    *)
(* Market: to begin with v1 has one merchant, v2 has no Marketplace.          *)
EXTENDS MCVillageStore, Market

CONSTANTS v1, v2

PerLevel == [l \in 0 .. 2 |-> l]
OneMarket == [v \in Towns |-> IF v = v1 THEN 1 ELSE 0]
Stock == [v \in Towns |-> IF v = v1 THEN 1 ELSE 2]

VARIABLE part
all == <<vars, marketVars, part>>

InStore(A) == part = "store" /\ A /\ InOrder /\ UNCHANGED <<marketVars, part>>
OnRoad(A) == part = "road" /\ A /\ MarketQuiet /\ UNCHANGED <<vars, part>>

CommerceInit == Init /\ MarketInit /\ part \in {"store", "road"}

\* Every variable of both has its type: stores and rows stay within the cap, what an instance holds is a
\* leg, and only requests that are under way hold anything.
TypesOK == TypeOK /\ MarketTypeOK

\* OrderlySpec and MarketQuietSpec, each for the part that moves.
CommerceSpec ==
  /\ CommerceInit /\ [][InStore(Next) \/ OnRoad(MarketNext)]_all
  /\ \A i \in Traders : WF_all(OnRoad(Hauls(i))) /\ WF_all(OnRoad(Start(i)))
  /\ WF_all(OnRoad(Answering)) /\ WF_all(OnRoad(Passes))
=============================================================================
