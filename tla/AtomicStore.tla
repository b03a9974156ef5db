---------------------------- MODULE AtomicStore ----------------------------
(***************************************************************************)
(* What the repository's contract promises of a village's store: each order *)
(* is charged once and each due row takes effect once, in some order, each   *)
(* on the row the one before it left and settling it forward.                *)
(***************************************************************************)
EXTENDS Economy

CONSTANTS Orders, Cost, Jobs, Kind, Goods, Initial, MaxClock

VARIABLES
  row,     \* the store
  paid,    \* orders charged
  worked   \* due rows that have taken effect

Init == /\ row = [amount |-> Initial, stamp |-> 0]
        /\ paid = {} /\ worked = {}

\* An order settles the row to its instant and takes its cost, if it is there.
Pay(o) ==
  /\ o \in Orders \ paid
  /\ \E t \in row.stamp .. MaxClock :
       /\ Settle(row, t) >= Cost[o]
       /\ row' = [amount |-> Settle(row, t) - Cost[o], stamp |-> t]
  /\ paid' = paid \cup {o}
  /\ UNCHANGED worked

\* A due row settles the store and leaves its outcome.
Work(j) ==
  /\ j \in Jobs \ worked
  /\ \E t \in row.stamp .. MaxClock :
       row' = [amount |-> Outcome(Kind[j], Goods[j], Settle(row, t)), stamp |-> t]
  /\ worked' = worked \cup {j}
  /\ UNCHANGED paid

\* A raid that takes nothing and a cull that is not called for leave it alone.
Spare(j) ==
  /\ j \in Jobs \ worked /\ Kind[j] \in {"raid", "cull"}
  /\ worked' = worked \cup {j}
  /\ UNCHANGED <<row, paid>>

Next == (\E o \in Orders : Pay(o)) \/ \E j \in Jobs : Work(j) \/ Spare(j)
Spec == Init /\ [][Next]_<<row, paid, worked>>
=============================================================================
