------------------------------ MODULE Economy ------------------------------
(***************************************************************************)
(* The arithmetic of a village's store: production folded in when the row is *)
(* settled, the storage cap, what a delivery adds and what a raid takes.     *)
(* One resource stands for the four; production rate and cap, which follow   *)
(* from fields, buildings, garrison, oases and artifacts, are constants.     *)
(***************************************************************************)
EXTENDS Integers

CONSTANTS
  Capacity, Hidden,      \* storage cap, what the crannies hide from raids
  Rate, Second, Hour     \* production per Hour, a Hour being so many Seconds

ASSUME EconomyAssumption ==
  /\ Capacity \in Nat /\ Hidden \in Nat
  /\ Rate \in Int /\ Second \in Nat \ {0} /\ Hour \in Nat \ {0}

\* A row of village_resources: an amount and the instant it was settled to.
Row == [amount : 0 .. Capacity, stamp : Nat]

Least(a, b) == IF a <= b THEN a ELSE b
Most(a, b) == IF a >= b THEN a ELSE b

\* Integer division that truncates toward zero, as Rust's does.
Quot(a, b) == IF a >= 0 THEN a \div b ELSE -((-a) \div b)

\* (stored + rate * elapsed / 3600) clamped to [0, capacity].
Accrue(stored, secs) ==
  Most(0, Least(Capacity, stored + Quot(Rate * Most(secs, 0), Hour)))

\* A read row settled to an instant; an instant before the stamp settles nothing.
Settle(r, to) == Accrue(r.amount, Quot(to - r.stamp, Second))

\* Mutant: no cap.
DepositUncapped(current, add) == current + add

\* Overflow is lost, and a stack over the cap keeps what it has.
DepositCapped(current, add) == Most(current, Least(Capacity, current + add))

\* What a raid takes: nothing the cranny hides, no more than survivors carry.
Loot(carry, settled) == Least(carry, Most(0, settled - Hidden))

\* The queues whose due rows settle a store, and the amount they leave: loot and
\* deliveries add their load, a raid takes its loot, training and culls settle.
Kinds == {"train", "loot", "trade", "raid", "cull"}
Outcome(kind, load, settled) ==
  CASE kind \in {"trade", "loot"} -> DepositCapped(settled, load)
    [] kind = "raid" -> settled - Loot(load, settled)
    [] OTHER -> settled
=============================================================================
