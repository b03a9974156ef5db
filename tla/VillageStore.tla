---------------------------- MODULE VillageStore ----------------------------
(***************************************************************************)
(* One village's row of village_resources and everything that writes it.    *)
(* The row holds an amount and the instant it was settled to (updated_at, in *)
(* milliseconds); production is folded in only when somebody writes.  Every  *)
(* writer reads the row, computes in memory, and writes back under the guard *)
(* "updated_at is still the stamp I read" - except the reward claims, which  *)
(* write without it.  One resource stands for the four, which every          *)
(* statement of the code reads and writes together.                          *)
(*                                                                           *)
(*   Orders   web requests that spend: build, research, smithy, train, trade *)
(*   Jobs     due rows the scheduler settles here, by Kind                   *)
(*   Rewards  quest and achievement claims                                   *)
(***************************************************************************)
EXTENDS Economy, FiniteSets, Functions

CONSTANTS
  Orders, Cost,              \* the web requests and what each one charges
  Jobs, Kind, Due, Goods,    \* the due rows, their queue, instant and load
  Rewards, Reward,           \* the claims and what each one credits
  Initial,                   \* starting amount
  MaxClock, MaxTries, MaxCrashes,  \* bounds: milliseconds, attempts, crashes
  NoJob                      \* "the scheduler is working on none"

Blank == [amount |-> 0, stamp |-> 0]   \* "nothing read"

ASSUME StoreAssumption ==
  /\ Cost \in [Orders -> Nat]
  /\ Kind \in [Jobs -> Kinds]
  /\ Due \in [Jobs -> Nat]
  /\ Goods \in [Jobs -> Nat]
  /\ Reward \in [Rewards -> Nat]
  /\ Initial \in 0 .. Capacity
  /\ IsFiniteSet(Orders) /\ IsFiniteSet(Jobs) /\ IsFiniteSet(Rewards)
  /\ MaxClock \in Nat \ {0} /\ MaxTries \in Nat \ {0} /\ MaxCrashes \in Nat
  /\ NoJob \notin Jobs

VARIABLES
  row,     \* the village_resources row
  clock,   \* server time, in milliseconds
  pc,      \* per order: idle, asked, priced, and how it ended
  asked,   \* per order: the "now" its handler took
  snap,    \* per order: the row it read
  status,  \* per job: in_transit/active/pending, processing, done
  applied, \* per job: how many times its effect was committed
  sched,   \* the scheduler: running?, next pass, "now", batch, job and its read
  claim,   \* per reward: open, read, done
  rsnap,   \* per reward: the amount read inside the claim's transaction
  crashes

vars == <<row, clock, pc, asked, snap, status, applied, sched, claim, rsnap, crashes>>
web == <<pc, asked, snap>>
claims == <<claim, rsnap>>

-----------------------------------------------------------------------------
(* Web orders *)

\* The handler ends and forgets what it held.
Finish(o, how) ==
  /\ pc' = [pc EXCEPT ![o] = how]
  /\ snap' = [snap EXCEPT ![o] = Blank]
  /\ asked' = [asked EXCEPT ![o] = 0]

\* A handler starts: it takes its "now" before it has read anything.
Ask(o) ==
  /\ pc[o] = "idle"
  /\ pc' = [pc EXCEPT ![o] = "asked"]
  /\ asked' = [asked EXCEPT ![o] = clock]
  /\ UNCHANGED <<row, clock, snap, status, applied, sched, claims, crashes>>

\* It reads the row, settles it to its "now" and checks the cost.
Price(o) ==
  /\ pc[o] = "asked"
  /\ IF Settle(row, asked[o]) >= Cost[o]
     THEN /\ pc' = [pc EXCEPT ![o] = "priced"]
          /\ snap' = [snap EXCEPT ![o] = row]
          /\ UNCHANGED asked
     ELSE Finish(o, "refused")
  /\ UNCHANGED <<row, clock, status, applied, sched, claims, crashes>>

\* Mutant: the debit written whatever the row's stamp.
SpendUnguarded(o) ==
  /\ pc[o] = "priced"
  /\ row' = [amount |-> Settle(snap[o], asked[o]) - Cost[o], stamp |-> asked[o]]
  /\ Finish(o, "done")
  /\ UNCHANGED <<clock, status, applied, sched, claims, crashes>>

\* Mutant: the debit written without dating the row.
SpendUndated(o) ==
  /\ pc[o] = "priced"
  /\ row.stamp = snap[o].stamp
  /\ row' = [row EXCEPT !.amount = Settle(snap[o], asked[o]) - Cost[o]]
  /\ Finish(o, "done")
  /\ UNCHANGED <<clock, status, applied, sched, claims, crashes>>

\* It commits: the guarded settle-and-debit.
Spend(o) ==
  /\ pc[o] = "priced"
  /\ row.stamp = snap[o].stamp
  /\ row' = [amount |-> Settle(snap[o], asked[o]) - Cost[o], stamp |-> asked[o]]
  /\ Finish(o, "done")
  /\ UNCHANGED <<clock, status, applied, sched, claims, crashes>>

\* The row moved on: nothing is written, the player is told to try again.
Refuse(o) ==
  /\ pc[o] = "priced"
  /\ row.stamp # snap[o].stamp
  /\ Finish(o, "conflict")
  /\ UNCHANGED <<row, clock, status, applied, sched, claims, crashes>>

-----------------------------------------------------------------------------
(* The scheduler's passes *)

Tick ==
  /\ clock < MaxClock
  /\ clock' = clock + 1
  /\ UNCHANGED <<row, web, status, applied, sched, claims, crashes>>

DueIn(k) == {j \in Jobs : Kind[j] = k /\ status[j] = "waiting" /\ Due[j] <= clock}

\* A pass takes its "now" and claims every row due in its queue.  (The passes of
\* a poll run one after another; rows come due between them, so whichever queue
\* has some may be the next to find any.)
Claim(k) ==
  /\ sched.up /\ sched.batch = {}
  /\ DueIn(k) # {}
  /\ status' = [j \in Jobs |-> IF j \in DueIn(k) THEN "processing" ELSE status[j]]
  /\ sched' = [sched EXCEPT !.batch = DueIn(k), !.now = clock]
  /\ UNCHANGED <<row, clock, applied, web, claims, crashes>>

\* For one claimed row at a time it reads the store.  UPDATE .. RETURNING hands
\* the claimed rows over in no promised order.
ReadStore(j) ==
  /\ j \in sched.batch
  /\ sched.job = NoJob \/ (sched.job = j /\ ~sched.fresh)
  /\ sched' = [sched EXCEPT !.job = j, !.read = row, !.fresh = TRUE]
  /\ UNCHANGED <<row, clock, status, applied, web, claims, crashes>>

Working(j) == sched.job = j /\ sched.fresh

\* The instant the read row is settled to.  Credits, raids and training never
\* settle to before the row's stamp; a cull settles to its pass's "now".
SettleTo(j) == CASE Kind[j] = "cull" -> sched.now
                 [] Kind[j] = "loot" -> Most(sched.now, sched.read.stamp)
                 [] OTHER -> Most(Due[j], sched.read.stamp)

Settled(j) == Settle(sched.read, SettleTo(j))

NewAmount(j) == Outcome(Kind[j], Goods[j], Settled(j))

\* A raid that finds nothing to take, and a cull of a village that is not dry
\* or not short of crop, leave the store alone.
LeavesStore(j) == \/ Kind[j] = "raid" /\ Loot(Goods[j], Settled(j)) = 0
                  \/ Kind[j] = "cull" /\ (Settled(j) > 0 \/ Rate >= 0)

\* Put the job down, and with the last one of the batch the pass's "now".
Drop(j) == sched' = [sched EXCEPT !.batch = @ \ {j}, !.job = NoJob, !.read = Blank,
                                  !.fresh = FALSE, !.tries = 0,
                                  !.now = IF sched.batch = {j} THEN 0 ELSE @]

\* One transaction: the guarded settle, the job's other effects, status done.
Apply(j) ==
  /\ Working(j)
  /\ IF LeavesStore(j) THEN UNCHANGED row
     ELSE /\ row.stamp = sched.read.stamp
          /\ row' = [amount |-> NewAmount(j), stamp |-> SettleTo(j)]
  /\ applied' = [applied EXCEPT ![j] = @ + 1]
  /\ status' = [status EXCEPT ![j] = "done"]
  /\ Drop(j)
  /\ UNCHANGED <<clock, web, claims, crashes>>

Conflicts(j) == Working(j) /\ ~LeavesStore(j) /\ row.stamp # sched.read.stamp

\* A conflicting delivery reads again, a few times.
Retry(j) ==
  /\ Conflicts(j) /\ Kind[j] = "trade" /\ sched.tries + 1 < MaxTries
  /\ sched' = [sched EXCEPT !.fresh = FALSE, !.read = Blank, !.tries = @ + 1]
  /\ UNCHANGED <<row, clock, status, applied, web, claims, crashes>>

\* Mutant: put down without going back to the queue.
ReleaseForgotten(j) ==
  /\ Conflicts(j)
  /\ Kind[j] \in {"train", "cull"} \/ (Kind[j] = "trade" /\ sched.tries + 1 >= MaxTries)
  /\ Drop(j)
  /\ UNCHANGED <<row, clock, status, applied, web, claims, crashes>>

\* It then goes back to its queue, as a conflicting batch or cull does at once.
Release(j) ==
  /\ Conflicts(j)
  /\ Kind[j] \in {"train", "cull"} \/ (Kind[j] = "trade" /\ sched.tries + 1 >= MaxTries)
  /\ status' = [status EXCEPT ![j] = "waiting"]
  /\ Drop(j)
  /\ UNCHANGED <<row, clock, applied, web, claims, crashes>>

\* A conflicting battle or loot return is logged and stays "processing".
Strand(j) ==
  /\ Conflicts(j) /\ Kind[j] \in {"loot", "raid"}
  /\ Drop(j)
  /\ UNCHANGED <<row, clock, status, applied, web, claims, crashes>>

-----------------------------------------------------------------------------
(* Reward claims: read and write in one READ COMMITTED transaction, unguarded *)

RewardRead(r) ==
  /\ claim[r] = "open"
  /\ claim' = [claim EXCEPT ![r] = "read"]
  /\ rsnap' = [rsnap EXCEPT ![r] = row.amount]
  /\ UNCHANGED <<row, clock, web, status, applied, sched, crashes>>

RewardWrite(r) ==
  /\ claim[r] = "read"
  /\ claim' = [claim EXCEPT ![r] = "done"]
  /\ row' = [row EXCEPT !.amount = DepositCapped(rsnap[r], Reward[r])]
  /\ rsnap' = [rsnap EXCEPT ![r] = 0]
  /\ UNCHANGED <<clock, web, status, applied, sched, crashes>>

-----------------------------------------------------------------------------
(* The process dies with its requests, and comes back requeueing its orphans *)

Stopped == [up |-> FALSE, now |-> 0, batch |-> {}, job |-> NoJob,
            read |-> Blank, fresh |-> FALSE, tries |-> 0]

Crash ==
  /\ sched.up /\ crashes < MaxCrashes
  /\ crashes' = crashes + 1
  /\ sched' = Stopped
  /\ pc' = [o \in Orders |-> IF pc[o] \in {"asked", "priced"} THEN "lost" ELSE pc[o]]
  /\ asked' = [o \in Orders |-> 0]
  /\ snap' = [o \in Orders |-> Blank]
  /\ claim' = [r \in Rewards |-> IF claim[r] = "read" THEN "open" ELSE claim[r]]
  /\ rsnap' = [r \in Rewards |-> 0]
  /\ UNCHANGED <<row, clock, status, applied>>

\* Mutant: startup requeues every row it finds, the done ones too.
RestartRedo ==
  /\ ~sched.up
  /\ sched' = [sched EXCEPT !.up = TRUE]
  /\ status' = [j \in Jobs |-> "waiting"]
  /\ UNCHANGED <<row, clock, applied, web, claims, crashes>>

Restart ==
  /\ ~sched.up
  /\ sched' = [sched EXCEPT !.up = TRUE]
  /\ status' = [j \in Jobs |-> IF status[j] = "processing" THEN "waiting" ELSE status[j]]
  /\ UNCHANGED <<row, clock, applied, web, claims, crashes>>

-----------------------------------------------------------------------------
Init ==
  /\ row = [amount |-> Initial, stamp |-> 0]
  /\ clock = 1
  /\ pc = [o \in Orders |-> "idle"]
  /\ asked = [o \in Orders |-> 0]
  /\ snap = [o \in Orders |-> Blank]
  /\ status = [j \in Jobs |-> "waiting"]
  /\ applied = [j \in Jobs |-> 0]
  /\ sched = [Stopped EXCEPT !.up = TRUE]
  /\ claim = [r \in Rewards |-> "open"]
  /\ rsnap = [r \in Rewards |-> 0]
  /\ crashes = 0

WebStep == \E o \in Orders : Ask(o) \/ Price(o) \/ Spend(o) \/ Refuse(o)
JobStep(j) == ReadStore(j) \/ Apply(j) \/ Retry(j) \/ Release(j) \/ Strand(j)
SchedStep == (\E k \in Kinds : Claim(k)) \/ \E j \in Jobs : JobStep(j)
RewardStep == \E r \in Rewards : RewardRead(r) \/ RewardWrite(r)

\* While the process is down nobody serves requests or claims.
Next == \/ Tick
        \/ sched.up /\ (WebStep \/ RewardStep)
        \/ SchedStep
        \/ Crash \/ Restart

Spec == Init /\ [][Next]_vars

\* The poll loop never stops by itself and the deployment restarts the process;
\* nothing obliges a player to act or a request to finish.
FairSpec == Spec /\ WF_vars(SchedStep) /\ WF_vars(Restart)

\* An orderly history: whoever reads the row to charge, credit or cull it is
\* going to date it later than it found it.  Requests that share a millisecond,
\* a "now" taken before somebody else's write, and a delivery due before the
\* last settle are what breaks it; a training delivery only settles and may.
InOrder ==
  /\ \A o \in Orders : pc[o] = "asked" /\ pc'[o] = "priced" => row.stamp < asked[o]
  /\ \A j \in Jobs : ~Working(j) /\ Working(j)' /\ Kind[j] # "train"
                       => row.stamp < SettleTo(j)'

OrderlySpec == Init /\ [][Next /\ InOrder]_vars
-----------------------------------------------------------------------------
(* Properties *)

SchedStates == [up : BOOLEAN, now : Nat, batch : SUBSET Jobs, job : Jobs \cup {NoJob},
                read : Row, fresh : BOOLEAN, tries : Nat]
OrderStates == {"idle", "asked", "priced", "refused", "conflict", "done", "lost"}

\* Every variable has its type; in particular the stored amount stays between
\* nothing and the storage cap whatever the writers interleave to (002 AC3).
TypeOK ==
  /\ row \in Row
  /\ clock \in 1 .. MaxClock
  /\ pc \in [Orders -> OrderStates]
  /\ asked \in [Orders -> Nat]
  /\ snap \in [Orders -> Row]
  /\ \A o \in Orders : pc[o] = "priced" => Settle(snap[o], asked[o]) >= Cost[o]
  /\ status \in [Jobs -> {"waiting", "processing", "done"}]
  /\ applied \in [Jobs -> Nat]
  /\ sched \in SchedStates
  /\ claim \in [Rewards -> {"open", "read", "done"}]
  /\ rsnap \in [Rewards -> 0 .. Capacity]
  /\ crashes \in Nat

\* The row is never dated in the future: a stamp ahead of the clock would stop
\* the village's production until time caught up with it.  Held by claiming only
\* what is due before dating the row with a due instant.
StampNotAhead == row.stamp <= clock

\* What the credit paths promise: delivering goods, returning loot, a raid's
\* debit and a training delivery never move the settle clock backwards, so no
\* production is counted twice because of them.
SystemClockForward ==
  [][\A j \in Jobs : Kind[j] # "cull" /\ applied'[j] # applied[j]
                       => row'.stamp >= row.stamp]_vars

\* A due row takes effect at most once, across releases, crashes and requeues,
\* and a row marked done has taken effect (008 AC4, 005 AC5).
AppliedOnce == \A j \in Jobs : applied[j] = IF status[j] = "done" THEN 1 ELSE 0

\* Whoever writes the row replaces exactly the amounts it computed from: no
\* committed debit or credit is overwritten (ADR 0007, 008 "Decisions").
NoLostUpdate ==
  [][/\ \A o \in Orders : pc[o] = "priced" /\ pc'[o] = "done" => snap[o] = row
     /\ \A j \in Jobs : applied'[j] # applied[j] /\ ~LeavesStore(j) => sched.read = row
     /\ \A r \in Rewards : claim[r] = "read" /\ claim'[r] = "done"
                             => rsnap[r] = row.amount]_vars

Spent == SumFunctionOnSet(Cost, {o \in Orders : pc[o] = "done"})
Received ==
  SumFunctionOnSet(Goods, {j \in Jobs : Kind[j] \in {"trade", "loot"} /\ status[j] = "done"})
Rewarded == SumFunctionOnSet(Reward, {r \in Rewards : claim[r] = "done"})
Produced == Quot(Rate * (clock \div Second), Hour)

\* A village that is not raided never holds, with all it has spent, more than it
\* started with, was sent, and could produce: no second of production is counted
\* twice and no debit is undone.
ProducedOnce == row.amount + Spent <= Initial + Received + Rewarded + Produced

\* Nothing of the reads, retries, conflicts and crashes shows: the orderly store
\* behaves as if every charge and every due row acted on it in one atomic step.
Atomic == INSTANCE AtomicStore WITH
  paid <- {o \in Orders : pc[o] = "done"},
  worked <- {j \in Jobs : status[j] = "done"}
ActsAtomically == Atomic!Spec

\* A shipment or a training batch whose instant has come is applied in the end:
\* conflicts release it and a restart requeues it.
ReleasedJobsFinish ==
  \A j \in Jobs : Kind[j] \in {"trade", "train"} =>
    ((status[j] = "waiting" /\ Due[j] <= clock) ~> status[j] = "done")
=============================================================================
