----------------------------- MODULE MCHoldings -----------------------------
(* What a village lives on: its crop and its army (Upkeep) and the oases it   *)
(* fights for (Oases).  The two share no state, so that a history of one      *)
(* leaves the other alone and is as good as any.                              *)
(* Upkeep: fields that feed one spearman more than there is; horsemen eat     *)
(* twice as much.  Oases: one oasis, wild or held by h1 with a man of his     *)
(* two, and two instances.                                                    *)
EXTENDS Upkeep, Oases

CONSTANTS spear, horse, h1, h2

Rations == [u \in Units |-> IF u = spear THEN 1 ELSE 2]
Roster == [u \in Units |-> IF u = spear THEN 1 ELSE 2]
OneSpear == [u \in Units |-> IF u = spear THEN 1 ELSE 0]

Raised == [h \in Homes |-> IF h = h1 THEN 2 ELSE 1]
RoomForOne == [h \in Homes |-> 1]
WildOrHeld == {[s \in Springs |-> [owner |-> Nowhere, men |-> 0]],
               [s \in Springs |-> [owner |-> h1, men |-> 1]]}

VARIABLE part
all == <<vars, fieldVars, part>>

Village(A) == part = "village" /\ A /\ Quiet /\ UNCHANGED <<fieldVars, part>>
Field(A) == part = "field" /\ A /\ FieldQuiet /\ UNCHANGED <<vars, part>>

HoldingsInit == /\ Init /\ FieldInit /\ part \in {"village", "field"}
                /\ part = "village" => \A s \in Springs : ~oasis[s].made

\* The fairness of FairQuietSpec and of FieldQuietSpec, for the part that moves.
HoldingsSpec ==
  /\ HoldingsInit /\ [][Village(Next) \/ Field(FieldNext)]_all
  /\ WF_all(Village(Scheduler)) /\ WF_all(Village(up /\ Answer))
  /\ WF_all(Village(Restart)) /\ WF_all(Village(Tick))
  /\ \A i \in Instances : WF_all(Field(Works(i))) /\ WF_all(Field(Start(i)))
  /\ WF_all(Field(Answers)) /\ WF_all(Field(NextDay))

\* The type invariants of both parts.
TypesOK == TypeOK /\ FieldTypeOK
=============================================================================
