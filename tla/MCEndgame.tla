----------------------------- MODULE MCEndgame -----------------------------
(* Two players, two alliances, one Wonder site; a Treasury in each capital. *)
EXTENDS Endgame, TLC

CONSTANTS anna, bert, red, blue, h1, h2, t1, t2, t3, t4, a1, a2, b1

HomeDef == (anna :> h1) @@ (bert :> h2)
MemberDef == (anna :> red) @@ (bert :> blue)
TagDef == (red :> 1) @@ (blue :> 2)
TileDef == <<t1, t2, t3, t4>>
CatalogueDef == <<a1, a2>>
PlanDef == <<b1>>
TreasuryDef == [v \in {h1, h2, t1, t2, t3, t4} |-> IF v \in {h1, h2} THEN 2 ELSE 0]
NeedsDef == (a1 :> 1) @@ (a2 :> 2) @@ (b1 :> 2)
=============================================================================
