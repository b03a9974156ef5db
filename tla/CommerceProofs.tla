---------------------------- MODULE CommerceProofs ----------------------------
(***************************************************************************)
(* Proofs about VillageStore, Market and their composition, for every set of *)
(* requests, due rows, claims, villages and instances and every rate, cap    *)
(* and bound.  The store: three invariants, each inductive with the ones     *)
(* before it: TypeOK; SchedInv, what the scheduler's claim amounts to;       *)
(* ExactInv, why the stamp guard is exact in an orderly history; and, from   *)
(* that, that no second of production is counted twice.  The market: types   *)
(* (RoadTyped) of every history; of a quiet one LegsHeld, that a leg which   *)
(* somebody holds is his alone and as it was claimed, StoresRead, that a     *)
(* store read is the store while its stamp stands, and MerchantsCounted,     *)
(* that a count made for a shipment still holds when it is sent.  From them, *)
(* that goods are only moved and merchants never overbooked.                 *)
(***************************************************************************)
EXTENDS MCCommerce, SumProofs, TLAPS

-----------------------------------------------------------------------------
(* The economy *)

\* Whatever was stored and however long ago, a settle stays within the store.
LEMMA AccrueRange ==
  ASSUME NEW stored \in Int, NEW secs \in Int
  PROVE  Accrue(stored, secs) \in 0 .. Capacity
<1>1. Hour \in Int /\ Hour # 0 /\ Hour > 0 /\ Rate \in Int /\ Capacity \in Nat
  BY StoreAssumption, EconomyAssumption
<1>2. Most(secs, 0) \in Int
  BY DEF Most
<1>3. Rate * Most(secs, 0) \in Int
  BY <1>1, <1>2
<1>4. \A a \in Int : Quot(a, Hour) \in Int
  BY <1>1 DEF Quot
<1>5. Quot(Rate * Most(secs, 0), Hour) \in Int
  BY <1>3, <1>4
<1> QED
  BY <1>1, <1>5 DEF Accrue, Most, Least

LEMMA SettleRange ==
  ASSUME NEW r \in Row, NEW to \in Int
  PROVE  Settle(r, to) \in 0 .. Capacity
<1>1. Second \in Int /\ Second > 0 /\ Capacity \in Nat
  BY StoreAssumption, EconomyAssumption
<1>2. r.amount \in Int /\ r.stamp \in Int
  BY <1>1 DEF Row
<1>3. \A a \in Int : Quot(a, Second) \in Int
  BY <1>1 DEF Quot
<1>4. to - r.stamp \in Int
  BY <1>2
<1>5. Quot(to - r.stamp, Second) \in Int
  BY <1>3, <1>4
<1>6. Accrue(r.amount, Quot(to - r.stamp, Second)) \in 0 .. Capacity
  BY <1>2, <1>5, AccrueRange
<1> QED
  BY <1>6 DEF Settle

\* Settling a row to its own stamp leaves its amount.
LEMMA SettleToOwnStamp ==
  ASSUME NEW r \in Row
  PROVE  Settle(r, r.stamp) = r.amount
<1>1. /\ Second \in Int /\ Second > 0 /\ Hour \in Int /\ Hour > 0
      /\ Rate \in Int /\ Capacity \in Nat
  BY StoreAssumption, EconomyAssumption
<1>2. r.amount \in 0 .. Capacity /\ r.stamp \in Int
  BY DEF Row
<1>3. Quot(0, Second) = 0 /\ Quot(0, Hour) = 0
  BY <1>1 DEF Quot
<1>4. r.stamp - r.stamp = 0 /\ Rate * 0 = 0
  BY <1>1, <1>2
<1>5. Most(0, 0) = 0
  BY DEF Most
<1>6. Settle(r, r.stamp) = Accrue(r.amount, 0)
  BY <1>3, <1>4 DEF Settle
<1>7. Accrue(r.amount, 0) = Most(0, Least(Capacity, r.amount + 0))
  BY <1>3, <1>4, <1>5 DEF Accrue
<1> QED
  BY <1>1, <1>2, <1>6, <1>7 DEF Most, Least

LEMMA DepositRange ==
  ASSUME NEW c \in 0 .. Capacity, NEW a \in Nat
  PROVE  DepositCapped(c, a) \in 0 .. Capacity
BY StoreAssumption, EconomyAssumption DEF DepositCapped, Most, Least

LEMMA BlankIsRow == Blank \in Row
BY StoreAssumption, EconomyAssumption DEF Blank, Row

-----------------------------------------------------------------------------
(* Types *)

\* What a job would write is a row.
LEMMA NewAmountRange ==
  ASSUME TypeOK, NEW j \in Jobs
  PROVE  SettleTo(j) \in Nat /\ Settled(j) \in 0 .. Capacity /\ NewAmount(j) \in 0 .. Capacity
<1>1. /\ Goods[j] \in Nat /\ Due[j] \in Nat /\ Hidden \in Nat /\ Kind[j] \in Kinds
      /\ Capacity \in Nat
  BY StoreAssumption, EconomyAssumption
<1>2. sched.now \in Nat /\ sched.read \in Row /\ sched.read.stamp \in Nat
  BY DEF TypeOK, Row, SchedStates
<1>3. SettleTo(j) \in Nat
  BY <1>1, <1>2 DEF SettleTo, Most
<1>4. Settled(j) \in 0 .. Capacity
  BY <1>2, <1>3, SettleRange DEF Settled
<1>5. DepositCapped(Settled(j), Goods[j]) \in 0 .. Capacity
  BY <1>1, <1>4, DepositRange
<1>6. Settled(j) - Loot(Goods[j], Settled(j)) \in 0 .. Capacity
  BY <1>1, <1>4 DEF Loot, Least, Most
<1> QED
  BY <1>3, <1>4, <1>5, <1>6 DEF NewAmount, Outcome

\* Putting a job down leaves a scheduler state.
LEMMA DropType ==
  ASSUME TypeOK, NEW j \in Jobs, Drop(j)
  PROVE  sched' \in SchedStates
BY BlankIsRow DEF TypeOK, Drop, SchedStates

LEMMA TypeInit == Init => TypeOK
<1> SUFFICES ASSUME Init PROVE TypeOK
  OBVIOUS
<1>1. row \in Row
  BY StoreAssumption, EconomyAssumption DEF Init, Row
<1>2. sched \in SchedStates
  BY BlankIsRow DEF Init, Stopped, SchedStates
<1>3. /\ pc \in [Orders -> OrderStates] /\ \A o \in Orders : pc[o] # "priced"
      /\ asked \in [Orders -> Nat] /\ snap \in [Orders -> Row]
  BY BlankIsRow DEF Init, OrderStates
<1> QED
  BY <1>1, <1>2, <1>3, StoreAssumption, EconomyAssumption DEF Init, TypeOK

LEMMA TypeStep == TypeOK /\ [Next]_vars => TypeOK'
<1> SUFFICES ASSUME TypeOK, [Next]_vars PROVE TypeOK'
  OBVIOUS
<1> USE StoreAssumption, EconomyAssumption
<1>1. CASE Tick
  BY <1>1 DEF TypeOK, Tick, web, claims, Settle
<1>2. ASSUME NEW o \in Orders, Ask(o) PROVE TypeOK'
  BY <1>2 DEF TypeOK, Ask, claims, OrderStates
<1>3. ASSUME NEW o \in Orders, Price(o) PROVE TypeOK'
  BY <1>3, BlankIsRow DEF TypeOK, Price, Finish, claims, OrderStates
<1>4. ASSUME NEW o \in Orders, Spend(o) PROVE TypeOK'
  <2>1. snap[o] \in Row /\ asked[o] \in Nat /\ Cost[o] \in Nat
    BY DEF TypeOK
  <2>2. Settle(snap[o], asked[o]) \in 0 .. Capacity
    BY <2>1, SettleRange
  <2>3. row' \in Row
    BY <1>4, <2>1, <2>2 DEF Spend, TypeOK, Row
  <2> QED
    BY <1>4, <2>3, BlankIsRow DEF TypeOK, Spend, Finish, claims, OrderStates
<1>5. ASSUME NEW o \in Orders, Refuse(o) PROVE TypeOK'
  BY <1>5, BlankIsRow DEF TypeOK, Refuse, Finish, claims, OrderStates
<1>6. ASSUME NEW r \in Rewards, RewardRead(r) PROVE TypeOK'
  BY <1>6 DEF TypeOK, RewardRead, web, Row
<1>7. ASSUME NEW r \in Rewards, RewardWrite(r) PROVE TypeOK'
  <2>1. DepositCapped(rsnap[r], Reward[r]) \in 0 .. Capacity
    BY DepositRange DEF TypeOK
  <2>2. row' \in Row
    BY <1>7, <2>1 DEF RewardWrite, TypeOK, Row
  <2> QED
    BY <1>7, <2>2 DEF TypeOK, RewardWrite, web
<1>8. ASSUME NEW k \in Kinds, Claim(k) PROVE TypeOK'
  <2>1. sched' \in SchedStates
    <3>1. clock \in Nat /\ DueIn(k) \in SUBSET Jobs
      BY DEF TypeOK, DueIn
    <3>2. sched' = [sched EXCEPT !.batch = DueIn(k), !.now = clock]
      BY <1>8 DEF Claim
    <3> QED
      BY <3>1, <3>2 DEF TypeOK, SchedStates
  <2>2. status' \in [Jobs -> {"waiting", "processing", "done"}]
    BY <1>8 DEF TypeOK, Claim
  <2> QED
    BY <1>8, <2>1, <2>2 DEF TypeOK, Claim, web, claims
<1>9. ASSUME NEW j \in Jobs, ReadStore(j) PROVE TypeOK'
  <2>1. sched' \in SchedStates
    BY <1>9 DEF TypeOK, ReadStore, SchedStates
  <2> QED
    BY <1>9, <2>1 DEF TypeOK, ReadStore, web, claims
<1>10. ASSUME NEW j \in Jobs, Apply(j) PROVE TypeOK'
  <2>1. SettleTo(j) \in Nat /\ NewAmount(j) \in 0 .. Capacity
    BY NewAmountRange
  <2>2. row' \in Row
    BY <1>10, <2>1 DEF Apply, TypeOK, Row
  <2>3. sched' \in SchedStates
    BY <1>10, DropType DEF Apply
  <2> QED
    BY <1>10, <2>2, <2>3 DEF TypeOK, Apply, web, claims
<1>11. ASSUME NEW j \in Jobs, Retry(j) PROVE TypeOK'
  <2>1. sched' \in SchedStates
    <3>1. sched' = [sched EXCEPT !.fresh = FALSE, !.read = Blank, !.tries = @ + 1]
      BY <1>11 DEF Retry
    <3>2. sched.tries + 1 \in Nat
      BY DEF TypeOK, SchedStates
    <3> QED
      BY <3>1, <3>2, BlankIsRow DEF TypeOK, SchedStates
  <2> QED
    BY <1>11, <2>1 DEF TypeOK, Retry, web, claims
<1>12. ASSUME NEW j \in Jobs, Release(j) PROVE TypeOK'
  <2>1. sched' \in SchedStates
    BY <1>12, DropType DEF Release
  <2> QED
    BY <1>12, <2>1 DEF TypeOK, Release, web, claims
<1>13. ASSUME NEW j \in Jobs, Strand(j) PROVE TypeOK'
  <2>1. sched' \in SchedStates
    BY <1>13, DropType DEF Strand
  <2> QED
    BY <1>13, <2>1 DEF TypeOK, Strand, web, claims
<1>14. CASE Crash
  <2>1. sched' \in SchedStates
    BY <1>14, BlankIsRow DEF Crash, Stopped, SchedStates
  <2>2. pc' \in [Orders -> OrderStates] /\ \A o \in Orders : pc'[o] # "priced"
    BY <1>14 DEF TypeOK, Crash, OrderStates
  <2> QED
    BY <1>14, <2>1, <2>2, BlankIsRow DEF TypeOK, Crash
<1>15. CASE Restart
  <2>1. sched' \in SchedStates
    BY <1>15 DEF TypeOK, Restart, SchedStates
  <2> QED
    BY <1>15, <2>1 DEF TypeOK, Restart, web, claims
<1>16. CASE UNCHANGED vars
  BY <1>16 DEF TypeOK, vars, Settle
<1> QED
  BY <1>1, <1>2, <1>3, <1>4, <1>5, <1>6, <1>7, <1>8, <1>9, <1>10, <1>11, <1>12,
     <1>13, <1>14, <1>15, <1>16 DEF Next, WebStep, RewardStep, SchedStep, JobStep

\* The type invariant of every village, and with it that no interleaving of
\* spenders, deliveries, raids, culls and claims drives the store below nothing
\* or above the cap (002 AC3).
THEOREM TypeCorrect == Spec => []TypeOK
BY TypeInit, TypeStep, PTL DEF Spec

-----------------------------------------------------------------------------
(* What a claim amounts to *)

\* Every instant anybody holds has passed, and the claimed rows are due, are
\* marked as being processed, and are put down when the process dies.
SchedInv ==
  /\ row.stamp <= clock
  /\ \A o \in Orders : asked[o] <= clock
  /\ sched.now <= clock /\ sched.read.stamp <= clock
  /\ \A j \in sched.batch : Due[j] <= clock /\ status[j] = "processing"
  /\ sched.job # NoJob => sched.job \in sched.batch
  /\ ~sched.up => sched.batch = {}
  /\ \A j \in Jobs : applied[j] = IF status[j] = "done" THEN 1 ELSE 0

LEMMA SchedInit == Init => SchedInv
BY StoreAssumption, EconomyAssumption DEF Init, SchedInv, Stopped, Blank

\* The job in hand is claimed, so it is due, and its settle instant has passed.
LEMMA InHand ==
  ASSUME TypeOK, SchedInv, NEW j \in Jobs, Working(j)
  PROVE  /\ j \in sched.batch /\ status[j] = "processing" /\ applied[j] = 0
         /\ SettleTo(j) <= clock
         /\ Kind[j] # "cull" => SettleTo(j) >= sched.read.stamp
<1>1. j \in sched.batch /\ Due[j] <= clock /\ status[j] = "processing"
  BY StoreAssumption, EconomyAssumption DEF SchedInv, Working
<1>2. applied[j] = 0
  BY <1>1 DEF SchedInv
<1>3. /\ Due[j] \in Nat /\ sched.now \in Nat /\ sched.read.stamp \in Nat /\ clock \in Nat
      /\ Kind[j] \in Kinds
  BY StoreAssumption, EconomyAssumption DEF TypeOK, SchedStates, Row
<1> QED
  BY <1>1, <1>2, <1>3 DEF SettleTo, Most, SchedInv

LEMMA SchedStepLemma == TypeOK /\ SchedInv /\ [Next]_vars => SchedInv'
<1> SUFFICES ASSUME TypeOK, SchedInv, [Next]_vars PROVE SchedInv'
  OBVIOUS
<1> USE StoreAssumption, EconomyAssumption
<1>0. clock \in Nat
  BY DEF TypeOK
<1>1. CASE Tick
  <2>1. /\ row.stamp \in Nat /\ sched.now \in Nat /\ sched.read.stamp \in Nat
        /\ \A o \in Orders : asked[o] \in Nat
        /\ \A j \in sched.batch : Due[j] \in Nat
    BY DEF TypeOK, SchedStates, Row
  <2> QED
    BY <1>0, <1>1, <2>1 DEF SchedInv, Tick, web, claims
<1>2. ASSUME NEW o \in Orders, Ask(o) PROVE SchedInv'
  BY <1>0, <1>2 DEF TypeOK, SchedInv, Ask, claims
<1>3. ASSUME NEW o \in Orders, Price(o) PROVE SchedInv'
  BY <1>0, <1>3 DEF TypeOK, SchedInv, Price, Finish, claims
<1>4. ASSUME NEW o \in Orders, Spend(o) PROVE SchedInv'
  BY <1>0, <1>4 DEF TypeOK, SchedInv, Spend, Finish, claims
<1>5. ASSUME NEW o \in Orders, Refuse(o) PROVE SchedInv'
  BY <1>0, <1>5 DEF TypeOK, SchedInv, Refuse, Finish, claims
<1>6. ASSUME NEW r \in Rewards, RewardRead(r) PROVE SchedInv'
  BY <1>6 DEF SchedInv, RewardRead, web
<1>7. ASSUME NEW r \in Rewards, RewardWrite(r) PROVE SchedInv'
  BY <1>7 DEF TypeOK, Row, SchedInv, RewardWrite, web
<1>8. ASSUME NEW k \in Kinds, Claim(k) PROVE SchedInv'
  <2>1. sched' = [sched EXCEPT !.batch = DueIn(k), !.now = clock]
    BY <1>8 DEF Claim
  <2>2. /\ sched'.batch = DueIn(k) /\ sched'.now = clock /\ sched'.up
        /\ sched'.job = sched.job /\ sched'.read = sched.read
    BY <1>8, <2>1 DEF Claim, TypeOK, SchedStates
  <2>3. sched.job = NoJob
    BY <1>8 DEF Claim, SchedInv
  <2>4. /\ \A j \in DueIn(k) : Due[j] <= clock /\ status'[j] = "processing"
        /\ \A j \in Jobs : status'[j] = "done" <=> status[j] = "done"
    BY <1>8 DEF Claim, DueIn, TypeOK
  <2>5. row' = row /\ clock' = clock /\ asked' = asked /\ applied' = applied
    BY <1>8 DEF Claim, web
  <2> QED
    BY <1>0, <2>2, <2>3, <2>4, <2>5 DEF SchedInv
<1>9. ASSUME NEW j \in Jobs, ReadStore(j) PROVE SchedInv'
  <2>1. /\ sched'.job = j /\ sched'.read = row /\ sched'.batch = sched.batch
        /\ sched'.now = sched.now /\ sched'.up = sched.up
    BY <1>9 DEF ReadStore, TypeOK, SchedStates
  <2> QED
    BY <1>9, <2>1 DEF ReadStore, SchedInv, web, claims
<1>10. ASSUME NEW j \in Jobs, Drop(j), sched.job = j
       PROVE  /\ sched'.batch = sched.batch \ {j} /\ sched'.job = NoJob
              /\ sched'.read.stamp <= clock /\ sched'.now <= clock
              /\ sched'.up = sched.up
  BY <1>0, <1>10 DEF Drop, TypeOK, SchedInv, SchedStates, Blank
<1>11. ASSUME NEW j \in Jobs, Apply(j) PROVE SchedInv'
  <2>1. Working(j) /\ Drop(j)
    BY <1>11 DEF Apply
  <2>2. /\ j \in sched.batch /\ applied[j] = 0 /\ SettleTo(j) <= clock
    BY <2>1, InHand
  <2>3. row'.stamp <= clock
    BY <1>11, <2>2 DEF Apply, SchedInv
  <2>4. /\ sched'.batch = sched.batch \ {j} /\ sched'.job = NoJob
        /\ sched'.read.stamp <= clock /\ sched'.now <= clock
        /\ sched'.up = sched.up
    BY <1>10, <2>1 DEF Working
  <2>5. \A i \in Jobs : applied'[i] = IF status'[i] = "done" THEN 1 ELSE 0
    BY <1>11, <2>2 DEF Apply, SchedInv, TypeOK
  <2>6. \A i \in sched'.batch : Due[i] <= clock /\ status'[i] = "processing"
    BY <1>11, <2>4 DEF Apply, SchedInv, TypeOK
  <2>7. /\ clock' = clock /\ asked' = asked
        /\ (~sched'.up => sched'.batch = {})
    BY <1>11, <2>4 DEF Apply, SchedInv, web
  <2> QED
    BY <2>3, <2>4, <2>5, <2>6, <2>7 DEF SchedInv
<1>12. ASSUME NEW j \in Jobs, Retry(j) PROVE SchedInv'
  <2>1. /\ sched'.job = sched.job /\ sched'.read.stamp = 0 /\ sched'.batch = sched.batch
        /\ sched'.now = sched.now /\ sched'.up = sched.up
    BY <1>12 DEF Retry, TypeOK, SchedStates, Blank
  <2> QED
    BY <1>0, <1>12, <2>1 DEF Retry, SchedInv, web, claims
<1>13. ASSUME NEW j \in Jobs, Release(j) PROVE SchedInv'
  <2>1. Working(j) /\ Drop(j)
    BY <1>13 DEF Release, Conflicts
  <2>2. applied[j] = 0
    BY <2>1, InHand
  <2>3. /\ sched'.batch = sched.batch \ {j} /\ sched'.job = NoJob
        /\ sched'.read.stamp <= clock /\ sched'.now <= clock
        /\ sched'.up = sched.up
    BY <1>10, <2>1 DEF Working
  <2>4. \A i \in Jobs : applied'[i] = IF status'[i] = "done" THEN 1 ELSE 0
    BY <1>13, <2>2 DEF Release, SchedInv, TypeOK
  <2>5. \A i \in sched'.batch : Due[i] <= clock /\ status'[i] = "processing"
    BY <1>13, <2>3 DEF Release, SchedInv, TypeOK
  <2> QED
    BY <1>13, <2>3, <2>4, <2>5 DEF Release, SchedInv, web, claims
<1>14. ASSUME NEW j \in Jobs, Strand(j) PROVE SchedInv'
  <2>1. Working(j) /\ Drop(j)
    BY <1>14 DEF Strand, Conflicts
  <2>2. /\ sched'.batch = sched.batch \ {j} /\ sched'.job = NoJob
        /\ sched'.read.stamp <= clock /\ sched'.now <= clock
        /\ sched'.up = sched.up
    BY <1>10, <2>1 DEF Working
  <2> QED
    BY <1>14, <2>2 DEF Strand, SchedInv, web, claims
<1>15. CASE Crash
  BY <1>0, <1>15 DEF Crash, SchedInv, Stopped, Blank, TypeOK
<1>16. CASE Restart
  <2>1. /\ sched'.up /\ sched'.batch = sched.batch /\ sched'.job = sched.job
        /\ sched'.read = sched.read /\ sched'.now = sched.now
    BY <1>16 DEF Restart, TypeOK, SchedStates
  <2>2. sched.batch = {}
    BY <1>16 DEF Restart, SchedInv
  <2>3. \A j \in Jobs : status'[j] = "done" <=> status[j] = "done"
    BY <1>16 DEF Restart, TypeOK
  <2> QED
    BY <1>16, <2>1, <2>2, <2>3 DEF Restart, SchedInv, web, claims
<1>17. CASE UNCHANGED vars
  BY <1>17 DEF SchedInv, vars
<1> QED
  BY <1>1, <1>2, <1>3, <1>4, <1>5, <1>6, <1>7, <1>8, <1>9, <1>11, <1>12, <1>13,
     <1>14, <1>15, <1>16, <1>17 DEF Next, WebStep, RewardStep, SchedStep, JobStep

LEMMA SchedCorrect == Spec => []SchedInv
<1>1. Spec => []TypeOK
  BY TypeCorrect
<1> QED
  BY <1>1, SchedInit, SchedStepLemma, PTL DEF Spec

\* No writer ever dates the row in the future, so production never stalls.
THEOREM StampNeverAhead == Spec => []StampNotAhead
<1>1. SchedInv => StampNotAhead
  BY DEF SchedInv, StampNotAhead
<1> QED
  BY <1>1, SchedCorrect, PTL

\* A due row takes effect at most once, whatever conflicts, releases, crashes
\* and requeues its life goes through.
THEOREM EffectOnce == Spec => []AppliedOnce
<1>1. SchedInv => AppliedOnce
  BY DEF SchedInv, AppliedOnce
<1> QED
  BY <1>1, SchedCorrect, PTL

-----------------------------------------------------------------------------
(* The settle clock *)

\* Only its own Apply counts a job as applied, and leaves the others' counts.
LEMMA OnlyApplyCounts ==
  ASSUME TypeOK, [Next]_vars, NEW j \in Jobs, applied'[j] # applied[j]
  PROVE  Apply(j)
<1>1. \A i \in Jobs : Apply(i) => i = j
  BY DEF Apply, TypeOK
<1>2. ASSUME ~Apply(j) PROVE applied' = applied
  BY <1>1, <1>2 DEF Next, vars, Tick, WebStep, RewardStep, SchedStep, JobStep, Ask,
     Price, Spend, Refuse, RewardRead, RewardWrite, Claim, ReadStore, Retry, Release,
     Strand, Crash, Restart
<1> QED
  BY <1>2

\* Deliveries, loot, raids and training never move the settle clock back, so no
\* second of production is counted twice on their account.
THEOREM ClockForward == Spec => SystemClockForward
<1> DEFINE A == \A j \in Jobs : Kind[j] # "cull" /\ applied'[j] # applied[j]
                                 => row'.stamp >= row.stamp
<1>1. TypeOK /\ SchedInv /\ [Next]_vars => [A]_vars
  <2> SUFFICES ASSUME TypeOK, SchedInv, [Next]_vars,
                      NEW j \in Jobs, Kind[j] # "cull", applied'[j] # applied[j]
               PROVE  row'.stamp >= row.stamp
    OBVIOUS
  <2>1. Apply(j) /\ Working(j)
    BY OnlyApplyCounts DEF Apply
  <2>2. SettleTo(j) >= sched.read.stamp
    BY <2>1, InHand
  <2>3. row.stamp \in Nat
    BY DEF TypeOK, Row
  <2> QED
    BY <2>1, <2>2, <2>3 DEF Apply
<1>2. Spec => [][A]_vars
  BY <1>1, TypeCorrect, SchedCorrect, PTL DEF Spec
<1> QED
  BY <1>2 DEF SystemClockForward

-----------------------------------------------------------------------------
(* The stamp guard is exact in an orderly history *)

\* A row read earlier that still has the row's stamp is the row.
Held(r) == r.stamp <= row.stamp /\ (r.stamp = row.stamp => r = row)

ExactInv ==
  /\ \A o \in Orders : pc[o] = "priced" => Held(snap[o]) /\ snap[o].stamp < asked[o]
  /\ \A j \in Jobs : Working(j) =>
       Held(sched.read) /\ (Kind[j] # "train" => sched.read.stamp < SettleTo(j))

\* A write dates the row later, or writes what was there.
Forward == row' = row \/ row'.stamp > row.stamp

LEMMA HeldStays ==
  ASSUME TypeOK, TypeOK', Forward, NEW r \in Row, Held(r)
  PROVE  Held(r)'
BY DEF Held, Forward, Row, TypeOK

LEMMA ExactInit == Init => ExactInv
BY StoreAssumption, EconomyAssumption DEF Init, ExactInv, Stopped, Working

\* In an orderly history every write is Forward.
LEMMA ApplyForward ==
  ASSUME TypeOK, SchedInv, ExactInv, NEW j \in Jobs, Apply(j)
  PROVE  Forward /\ (~LeavesStore(j) => sched.read = row)
<1>1. Working(j) /\ Held(sched.read) /\ (Kind[j] # "train" => sched.read.stamp < SettleTo(j))
  BY DEF Apply, ExactInv
<1>2. CASE LeavesStore(j)
  BY <1>2 DEF Apply, Forward
<1>3. CASE ~LeavesStore(j)
  <2>1. sched.read = row /\ row' = [amount |-> NewAmount(j), stamp |-> SettleTo(j)]
    BY <1>1, <1>3 DEF Apply, Held
  <2>2. row \in Row /\ SettleTo(j) \in Nat
    BY NewAmountRange DEF TypeOK
  <2>3. CASE Kind[j] # "train"
    BY <1>1, <2>1, <2>2, <2>3 DEF Forward, Row
  <2>4. CASE Kind[j] = "train"
    <3>1. SettleTo(j) >= row.stamp
      BY <1>1, <2>1, <2>4, InHand
    <3>2. CASE SettleTo(j) = row.stamp
      <4>1. NewAmount(j) = Settle(row, row.stamp)
        BY <2>1, <2>4, <3>2 DEF NewAmount, Outcome, Settled
      <4>2. NewAmount(j) = row.amount
        BY <2>2, <4>1, SettleToOwnStamp
      <4>3. row = [amount |-> row.amount, stamp |-> row.stamp]
        BY <2>2 DEF Row
      <4> QED
        BY <2>1, <3>2, <4>2, <4>3 DEF Forward
    <3> QED
      BY <2>1, <2>2, <3>1, <3>2 DEF Forward, Row
  <2> QED
    BY <2>1, <2>3, <2>4
<1> QED
  BY <1>2, <1>3

LEMMA SpendForward ==
  ASSUME TypeOK, ExactInv, NEW o \in Orders, Spend(o)
  PROVE  Forward /\ snap[o] = row
<1>1. Held(snap[o]) /\ snap[o].stamp < asked[o] /\ row.stamp = snap[o].stamp
  BY DEF Spend, ExactInv
<1>2. row.stamp \in Nat /\ asked[o] \in Nat
  BY DEF TypeOK, Row
<1> QED
  BY <1>1, <1>2 DEF Spend, Held, Forward

LEMMA OrderlyForward ==
  ASSUME TypeOK, SchedInv, ExactInv, Rewards = {}, [Next]_vars
  PROVE  Forward
BY SpendForward, ApplyForward DEF Next, vars, Tick, WebStep, RewardStep, SchedStep,
   JobStep, Ask, Price, Refuse, Claim, ReadStore, Retry, Release, Strand, Crash,
   Restart, Forward

\* What an order or the job in hand holds either is left as it is, or has just
\* been read, and then is dated before the instant it will be settled to.
LEMMA ExactStep ==
  ASSUME Rewards = {}, TypeOK, TypeOK', SchedInv, ExactInv, [Next /\ InOrder]_vars
  PROVE  ExactInv'
<1>1. Forward
  BY OrderlyForward
<1>2. ASSUME NEW o \in Orders, pc'[o] = "priced"
      PROVE  Held(snap[o])' /\ snap'[o].stamp < asked'[o]
  <2> DEFINE Kept == pc[o] = "priced" /\ snap'[o] = snap[o] /\ asked'[o] = asked[o]
             JustRead == pc[o] = "asked" /\ snap'[o] = row /\ row' = row /\ row.stamp < asked'[o]
  <2>1. CASE Kept
    BY <1>1, <2>1, HeldStays DEF ExactInv, TypeOK, Held
  <2>2. CASE JustRead
    BY <2>2 DEF Held, TypeOK, Row
  <2>3. Kept \/ JustRead
    <3>1. CASE UNCHANGED vars
      BY <1>2, <3>1 DEF vars
    <3>2. CASE Next /\ InOrder
      <4>1. CASE UNCHANGED web
        BY <1>2, <3>2, <4>1 DEF web
      <4>2. ASSUME NEW p \in Orders, Ask(p) \/ Price(p) \/ Spend(p) \/ Refuse(p)
            PROVE  Kept \/ JustRead
        BY <1>2, <3>2, <4>2 DEF InOrder, Ask, Price, Spend, Refuse, Finish, TypeOK
      <4>3. CASE Crash
        BY <1>2, <4>3 DEF Crash, TypeOK
      <4>4. UNCHANGED web \/ Crash \/ \E p \in Orders : Ask(p) \/ Price(p) \/ Spend(p) \/ Refuse(p)
        BY <3>2 DEF Next, Tick, WebStep, RewardStep, SchedStep, JobStep, Claim, ReadStore,
           Apply, Retry, Release, Strand, Restart
      <4> QED
        BY <4>1, <4>2, <4>3, <4>4
    <3> QED
      BY <3>1, <3>2
  <2> QED
    BY <2>1, <2>2, <2>3
<1>3. ASSUME NEW j \in Jobs, Working(j)'
      PROVE  Held(sched.read)' /\ (Kind[j] # "train" => sched'.read.stamp < SettleTo(j)')
  <2>1. CASE UNCHANGED sched
    <3>1. Working(j) /\ SettleTo(j)' = SettleTo(j)
      BY <1>3, <2>1 DEF Working, SettleTo
    <3>2. sched.read \in Row
      BY DEF TypeOK, SchedStates
    <3> QED
      BY <1>1, <2>1, <3>1, <3>2, HeldStays DEF ExactInv, Held
  <2>2. CASE ReadStore(j) /\ InOrder
    <3>1. sched'.read = row /\ row' = row
      BY <2>2 DEF ReadStore, TypeOK, SchedStates
    <3>2. ~Working(j)
      BY <2>2, StoreAssumption, EconomyAssumption DEF ReadStore, Working
    <3>3. Kind[j] # "train" => row.stamp < SettleTo(j)'
      BY <1>3, <2>2, <3>2 DEF InOrder
    <3> QED
      BY <3>1, <3>3 DEF Held, TypeOK, Row
  <2>3. CASE ~(UNCHANGED sched) /\ ~ReadStore(j)
    <3>1. sched'.job = j /\ sched'.fresh
      BY <1>3 DEF Working
    <3>2. \A i \in Jobs : ~Drop(i)
      BY <3>1 DEF Drop, TypeOK, SchedStates
    <3>3. \A i \in Jobs : i # j => ~ReadStore(i)
      BY <3>1 DEF ReadStore, TypeOK, SchedStates
    <3>4. \A i \in Jobs : ~Retry(i)
      BY <3>1 DEF Retry, TypeOK, SchedStates
    <3>5. ~Crash
      BY <3>1 DEF Crash, Stopped
    <3>6. \A k \in Kinds : ~Claim(k)
      <4>1. sched.batch = {} => sched.job = NoJob
        BY DEF SchedInv
      <4>2. \A k \in Kinds : Claim(k) => sched'.job = sched.job
        BY DEF Claim, TypeOK, SchedStates
      <4> QED
        BY <3>1, <4>1, <4>2, StoreAssumption, EconomyAssumption DEF Claim
    <3>7. ~Restart
      <4>1. ~sched.up => sched.job = NoJob
        BY DEF SchedInv
      <4>2. Restart => sched'.job = sched.job
        BY DEF Restart, TypeOK, SchedStates
      <4> QED
        BY <3>1, <4>1, <4>2, StoreAssumption, EconomyAssumption DEF Restart
    <3> QED
      BY <2>3, <3>2, <3>3, <3>4, <3>5, <3>6, <3>7 DEF Next, vars, Tick, WebStep,
         RewardStep, SchedStep, JobStep, Ask, Price, Spend, Refuse, RewardRead,
         RewardWrite, Apply, Release, Strand
  <2>4. ReadStore(j) => InOrder
    <3>1. ReadStore(j) => sched'.job = j /\ sched'.fresh
      BY DEF ReadStore, TypeOK, SchedStates
    <3>2. ReadStore(j) => sched.job # j \/ ~sched.fresh
      BY StoreAssumption, EconomyAssumption DEF ReadStore
    <3> QED
      BY <3>1, <3>2 DEF vars
  <2> QED
    BY <2>1, <2>2, <2>3, <2>4
<1> QED
  BY <1>2, <1>3 DEF ExactInv, Held

LEMMA OrderlyInvariants ==
  ASSUME Rewards = {}
  PROVE  OrderlySpec => []TypeOK /\ []SchedInv /\ []ExactInv
<1>1. OrderlySpec => Spec
  <2>1. [Next /\ InOrder]_vars => [Next]_vars
    OBVIOUS
  <2> QED
    BY <2>1, PTL DEF OrderlySpec, Spec
<1>2. OrderlySpec => []TypeOK /\ []SchedInv
  BY <1>1, TypeCorrect, SchedCorrect, PTL
<1>3. TypeOK /\ TypeOK' /\ SchedInv /\ ExactInv /\ [Next /\ InOrder]_vars => ExactInv'
  BY ExactStep
<1> QED
  BY <1>2, <1>3, ExactInit, PTL DEF OrderlySpec

\* In an orderly history without reward claims, for any number of requests and
\* due rows: no write loses another one's.  Each committed write replaces exactly
\* the row its amounts were computed from.
THEOREM OrderlyNoLostUpdate ==
  ASSUME Rewards = {}
  PROVE  OrderlySpec => NoLostUpdate
<1> DEFINE A ==
      /\ \A o \in Orders : pc[o] = "priced" /\ pc'[o] = "done" => snap[o] = row
      /\ \A j \in Jobs : applied'[j] # applied[j] /\ ~LeavesStore(j) => sched.read = row
      /\ \A r \in Rewards : claim[r] = "read" /\ claim'[r] = "done"
                             => rsnap[r] = row.amount
<1>1. TypeOK /\ SchedInv /\ ExactInv /\ [Next /\ InOrder]_vars => [A]_vars
  <2> SUFFICES ASSUME TypeOK, SchedInv, ExactInv, [Next]_vars PROVE A
    OBVIOUS
  <2>1. ASSUME NEW o \in Orders, pc[o] = "priced", pc'[o] = "done" PROVE snap[o] = row
    <3>1. Spend(o)
      BY <2>1 DEF Next, vars, Tick, WebStep, RewardStep, SchedStep, JobStep, web, Ask,
         Price, Spend, Refuse, Finish, RewardRead, RewardWrite, Claim, ReadStore, Apply,
         Retry, Release, Strand, Crash, Restart, TypeOK
    <3> QED
      BY <3>1, SpendForward
  <2>2. ASSUME NEW j \in Jobs, applied'[j] # applied[j], ~LeavesStore(j)
        PROVE  sched.read = row
    BY <2>2, OnlyApplyCounts, ApplyForward
  <2> QED
    BY <2>1, <2>2
<1>2. OrderlySpec => [][A]_vars
  BY <1>1, OrderlyInvariants, PTL DEF OrderlySpec
<1> QED
  BY <1>2 DEF NoLostUpdate

-----------------------------------------------------------------------------
(* The orderly store implements the atomic one *)

\* The two modules compute with the same arithmetic.
LEMMA SameArithmetic ==
  /\ Atomic!Row = Row
  /\ \A r, t : Atomic!Settle(r, t) = Settle(r, t)
  /\ \A k, g, a : Atomic!Outcome(k, g, a) = Outcome(k, g, a)
BY DEF Atomic!Row, Row, Atomic!Settle, Settle, Atomic!Accrue, Accrue, Atomic!Quot, Quot,
   Atomic!Most, Most, Atomic!Least, Least, Atomic!Outcome, Outcome,
   Atomic!DepositCapped, DepositCapped, Atomic!Loot, Loot

Paid == {o \in Orders : pc[o] = "done"}
Worked == {j \in Jobs : status[j] = "done"}

\* A committed charge is one atomic charge at the instant its handler took.
LEMMA SpendPays ==
  ASSUME TypeOK, SchedInv, ExactInv, NEW o \in Orders, Spend(o)
  PROVE  Atomic!Pay(o)
<1>1. snap[o] = row /\ pc[o] = "priced"
  BY SpendForward DEF Spend
<1>2. /\ row.stamp \in Nat /\ asked[o] \in Nat /\ clock \in Nat /\ MaxClock \in Nat
      /\ row.stamp < asked[o] /\ asked[o] <= clock /\ clock <= MaxClock
  BY <1>1, StoreAssumption DEF ExactInv, SchedInv, TypeOK, Row
<1>3. asked[o] \in row.stamp .. MaxClock
  BY <1>2
<1>4. /\ Settle(row, asked[o]) >= Cost[o]
      /\ row' = [amount |-> Settle(row, asked[o]) - Cost[o], stamp |-> asked[o]]
  BY <1>1 DEF Spend, TypeOK
<1>5. o \in Orders \ Paid /\ Paid' = Paid \cup {o} /\ Worked' = Worked
  BY <1>1 DEF Spend, Finish, Paid, Worked, TypeOK
<1> QED
  BY <1>3, <1>4, <1>5, SameArithmetic DEF Atomic!Pay, Paid, Worked

\* A committed due row is one atomic effect, or spares the store.
LEMMA ApplyWorks ==
  ASSUME TypeOK, SchedInv, ExactInv, NEW j \in Jobs, Apply(j)
  PROVE  Atomic!Work(j) \/ Atomic!Spare(j)
<1>1. Working(j) /\ status[j] = "processing" /\ SettleTo(j) <= clock
  BY InHand DEF Apply
<1>2. j \in Jobs \ Worked /\ Worked' = Worked \cup {j} /\ Paid' = Paid
  BY <1>1 DEF Apply, web, Paid, Worked, TypeOK
<1>3. CASE LeavesStore(j)
  BY <1>2, <1>3 DEF Apply, LeavesStore, Atomic!Spare, Paid, Worked
<1>4. CASE ~LeavesStore(j)
  <2>1. sched.read = row /\ row' = [amount |-> NewAmount(j), stamp |-> SettleTo(j)]
    BY <1>4, ApplyForward DEF Apply
  <2>2. row.stamp \in Nat /\ SettleTo(j) \in Nat /\ clock \in Nat /\ clock <= MaxClock
    BY NewAmountRange, StoreAssumption DEF TypeOK, Row
  <2>3. row.stamp <= SettleTo(j)
    BY <1>1, <2>1, <2>2, InHand DEF ExactInv
  <2>4. SettleTo(j) \in row.stamp .. MaxClock
    BY <1>1, <2>2, <2>3, StoreAssumption
  <2>5. NewAmount(j) = Outcome(Kind[j], Goods[j], Settle(row, SettleTo(j)))
    BY <2>1 DEF NewAmount, Settled
  <2> QED
    BY <1>2, <2>1, <2>4, <2>5, SameArithmetic DEF Atomic!Work, Paid, Worked
<1> QED
  BY <1>3, <1>4

\* Every other step leaves the row and what has been charged and applied.
LEMMA OthersStutter ==
  ASSUME Rewards = {}, TypeOK, SchedInv, [Next]_vars,
         \A o \in Orders : ~Spend(o), \A j \in Jobs : ~Apply(j)
  PROVE  UNCHANGED <<row, Paid, Worked>>
<1>1. ASSUME NEW o \in Orders, Ask(o) \/ Price(o) \/ Refuse(o)
      PROVE  UNCHANGED <<row, Paid, Worked>>
  BY <1>1 DEF Ask, Price, Refuse, Finish, Paid, Worked, TypeOK
<1>2. ASSUME NEW k \in Kinds, Claim(k) PROVE UNCHANGED <<row, Paid, Worked>>
  BY <1>2 DEF Claim, DueIn, web, Paid, Worked, TypeOK
<1>3. ASSUME NEW j \in Jobs, ReadStore(j) \/ Retry(j) \/ Strand(j)
      PROVE  UNCHANGED <<row, Paid, Worked>>
  BY <1>3 DEF ReadStore, Retry, Strand, web, Paid, Worked
<1>4. ASSUME NEW j \in Jobs, Release(j) PROVE UNCHANGED <<row, Paid, Worked>>
  <2>1. status[j] = "processing"
    BY <1>4, InHand DEF Release, Conflicts
  <2> QED
    BY <1>4, <2>1 DEF Release, web, Paid, Worked, TypeOK
<1>5. CASE Crash
  BY <1>5 DEF Crash, Paid, Worked, TypeOK
<1>6. CASE Restart
  BY <1>6 DEF Restart, web, Paid, Worked, TypeOK
<1>7. CASE Tick \/ UNCHANGED vars
  BY <1>7 DEF Tick, vars, web, Paid, Worked
<1> QED
  BY <1>1, <1>2, <1>3, <1>4, <1>5, <1>6, <1>7
     DEF Next, WebStep, RewardStep, SchedStep, JobStep

\* In an orderly history without reward claims the reads, conflicts, retries,
\* crashes and requeues around village_resources cannot be told from a store on
\* which every charge and every due row acts in one atomic step, each on the row
\* the last one left.
THEOREM OrderlyIsAtomic ==
  ASSUME Rewards = {}
  PROVE  OrderlySpec => ActsAtomically
<1>1. Init => Atomic!Init
  BY DEF Init, Atomic!Init
<1>2. TypeOK /\ SchedInv /\ ExactInv /\ [Next /\ InOrder]_vars
        => [Atomic!Next]_<<row, {o \in Orders : pc[o] = "done"}, {j \in Jobs : status[j] = "done"}>>
  BY SpendPays, ApplyWorks, OthersStutter DEF Atomic!Next, Paid, Worked
<1> QED
  BY <1>1, <1>2, OrderlyInvariants, PTL DEF OrderlySpec, ActsAtomically, Atomic!Spec

-----------------------------------------------------------------------------
(* Production is counted once *)

\* What is rounded down in parts is no more than what is rounded down as a whole.
LEMMA DivMore ==
  ASSUME NEW x \in Nat, NEW y \in Nat, NEW z \in Nat, NEW n \in Nat \ {0}, x + y <= z
  PROVE  (x \div n) + (y \div n) <= z \div n
<1> DEFINE a == x \div n
           b == y \div n
           c == z \div n
<1>1. /\ a \in Nat /\ n * a <= x
      /\ b \in Nat /\ n * b <= y
      /\ c \in Nat /\ z < n * c + n
  BY DivBounds
<1> HIDE DEF a, b, c
<1>2. SUFFICES ASSUME c + 1 <= a + b PROVE FALSE
  BY <1>1
<1>3. n * (c + 1) <= n * (a + b)
  BY <1>1, <1>2, MultMono
<1>4. n * (c + 1) = n * c + n /\ n * (a + b) = n * a + n * b /\ n * a \in Int /\ n * b \in Int /\ n * c \in Int
  BY <1>1
<1> QED
  BY <1>1, <1>3, <1>4

\* What the village could have produced from the start up to an instant.
MadeBy(t) == Quot(Rate * (t \div Second), Hour)

\* Settling in two steps makes no more than settling in one.
LEMMA MadeInParts ==
  ASSUME Rate \in Nat, NEW s \in Nat, NEW t \in Nat, s <= t
  PROVE  /\ MadeBy(s) \in Nat /\ MadeBy(t) \in Nat /\ MadeBy(s) <= MadeBy(t)
         /\ Quot(Rate * Quot(t - s, Second), Hour) + MadeBy(s) <= MadeBy(t)
         /\ Quot(t - s, Second) \in Nat /\ Quot(Rate * Quot(t - s, Second), Hour) \in Nat
<1> DEFINE a == (t - s) \div Second
           b == s \div Second
           c == t \div Second
<1>1. Second \in Nat \ {0} /\ Hour \in Nat \ {0} /\ t - s \in Nat /\ (t - s) + s = t
  BY EconomyAssumption
<1>2. a \in Nat /\ b \in Nat /\ c \in Nat /\ a + b <= c
  BY <1>1, DivBounds, DivMore
<1>3. Quot(t - s, Second) = a
  BY <1>1 DEF Quot
<1> HIDE DEF a, b, c
<1>4. Rate * a \in Nat /\ Rate * b \in Nat /\ Rate * c \in Nat /\ Rate * a + Rate * b <= Rate * c
  <2>1. Rate * (a + b) <= Rate * c
    BY <1>2, MultMono
  <2> QED
    BY <1>2, <2>1
<1>5. ((Rate * a) \div Hour) + ((Rate * b) \div Hour) <= (Rate * c) \div Hour
  BY <1>1, <1>4, DivMore
<1>6. /\ Quot(Rate * a, Hour) = (Rate * a) \div Hour
      /\ Quot(Rate * b, Hour) = (Rate * b) \div Hour
      /\ Quot(Rate * c, Hour) = (Rate * c) \div Hour
  BY <1>4 DEF Quot
<1>7. MadeBy(s) = Quot(Rate * b, Hour) /\ MadeBy(t) = Quot(Rate * c, Hour)
  BY DEF MadeBy, b, c
<1>8. /\ (Rate * a) \div Hour \in Nat /\ (Rate * b) \div Hour \in Nat /\ (Rate * c) \div Hour \in Nat
  BY <1>1, <1>4, DivBounds
<1> QED
  BY <1>2, <1>3, <1>5, <1>6, <1>7, <1>8

LEMMA MadeNat == ASSUME Rate \in Nat, NEW t \in Nat PROVE MadeBy(t) \in Nat
BY MadeInParts

\* A row settled forward gains no more than what was made since its stamp.
LEMMA SettleMakes ==
  ASSUME Rate \in Nat, NEW r \in Row, NEW t \in Nat, r.stamp <= t
  PROVE  Settle(r, t) + MadeBy(r.stamp) <= r.amount + MadeBy(t)
<1> DEFINE q == Quot(t - r.stamp, Second)
           made == Quot(Rate * q, Hour)
<1>1. r.amount \in 0 .. Capacity /\ r.stamp \in Nat /\ Capacity \in Nat
  BY EconomyAssumption DEF Row
<1>2. q \in Nat /\ made \in Nat /\ made + MadeBy(r.stamp) <= MadeBy(t) /\ MadeBy(r.stamp) \in Nat
        /\ MadeBy(t) \in Nat
  BY <1>1, MadeInParts
<1>3. Most(q, 0) = q
  BY <1>2 DEF Most
<1>4. Settle(r, t) = Most(0, Least(Capacity, r.amount + made))
  BY <1>3 DEF Settle, Accrue
<1> HIDE DEF q, made
<1>5. Settle(r, t) <= r.amount + made /\ Settle(r, t) \in Nat
  BY <1>1, <1>2, <1>4 DEF Most, Least
<1> QED
  BY <1>1, <1>2, <1>5

\* Nothing but production, deliveries and loot fills the store.
OnceInv == row.amount + Spent <= Initial + Received + MadeBy(row.stamp)

Sent == {j \in Worked : Kind[j] \in {"trade", "loot"}}

LEMMA SumsOfStore ==
  ASSUME TypeOK
  PROVE  /\ Spent = SumFunctionOnSet(Cost, Paid) /\ Spent \in Nat
         /\ Received = SumFunctionOnSet(Goods, Sent) /\ Received \in Nat
         /\ Rewards = {} => Rewarded = 0
<1>1. Paid \in SUBSET Orders /\ Sent \in SUBSET Jobs
  BY DEF Paid, Sent, Worked
<1>2. IsFiniteSet(Paid) /\ IsFiniteSet(Sent)
  BY <1>1, StoreAssumption, FS_Subset
<1>3. Spent = SumFunctionOnSet(Cost, Paid)
  BY DEF Spent, Paid
<1>4. {j \in Jobs : Kind[j] \in {"trade", "loot"} /\ status[j] = "done"} = Sent
  BY DEF Sent, Worked
<1>5. Received = SumFunctionOnSet(Goods, Sent)
  BY <1>4 DEF Received
<1>6. (\A o \in Paid : Cost[o] \in Nat) /\ \A j \in Sent : Goods[j] \in Nat
  BY <1>1, StoreAssumption
<1>7. Spent \in Nat /\ Received \in Nat
  BY <1>2, <1>3, <1>5, <1>6, SumNat
<1>8. ASSUME Rewards = {} PROVE Rewarded = 0
  <2>1. {r \in Rewards : claim[r] = "done"} = {}
    BY <1>8
  <2> QED
    BY <2>1, SumEmpty DEF Rewarded
<1> QED
  BY <1>3, <1>5, <1>7, <1>8

LEMMA SumsNext == Spent' = SumFunctionOnSet(Cost, Paid') /\ Received' = SumFunctionOnSet(Goods, Sent')
<1>1. Spent' = SumFunctionOnSet(Cost, Paid')
  BY DEF Spent, Paid
<1>2. {j \in Jobs : Kind[j] \in {"trade", "loot"} /\ status'[j] = "done"} = Sent'
  BY DEF Sent, Worked
<1>3. Received' = SumFunctionOnSet(Goods, Sent')
  BY <1>2 DEF Received
<1> QED
  BY <1>1, <1>3

\* One more element adds its value.
LEMMA SumMore ==
  ASSUME NEW T, IsFiniteSet(T), NEW a, a \notin T, NEW f, \A x \in T \cup {a} : f[x] \in Int
  PROVE  SumFunctionOnSet(f, T \cup {a}) = f[a] + SumFunctionOnSet(f, T)
<1>1. IsFiniteSet(T \cup {a}) /\ (T \cup {a}) \ {a} = T
  BY FS_AddElement
<1>2. SumFunctionOnSet(f, T \cup {a}) = f[a] + SumFunctionOnSet(f, (T \cup {a}) \ {a})
  BY <1>1, SumSplit
<1> QED
  BY <1>1, <1>2

LEMMA OnceSpend ==
  ASSUME Rate \in Nat, TypeOK, SchedInv, ExactInv, OnceInv, TypeOK', NEW o \in Orders, Spend(o)
  PROVE  OnceInv'
<1>1. /\ row.stamp \in Nat /\ asked[o] \in Nat /\ row.stamp < asked[o] /\ row \in Row
      /\ row' = [amount |-> Settle(row, asked[o]) - Cost[o], stamp |-> asked[o]]
      /\ pc[o] = "priced"
  BY SpendForward DEF Spend, ExactInv, TypeOK, Row
<1>2. Settle(row, asked[o]) + MadeBy(row.stamp) <= row.amount + MadeBy(asked[o])
  BY <1>1, SettleMakes
<1>3. Settle(row, asked[o]) \in Nat /\ MadeBy(row.stamp) \in Nat /\ MadeBy(asked[o]) \in Nat /\ row.amount \in Nat
        /\ Cost[o] \in Nat /\ Initial \in Nat
  <2>1. Settle(row, asked[o]) \in 0 .. Capacity /\ row.amount \in 0 .. Capacity /\ Initial \in 0 .. Capacity
    BY <1>1, SettleRange, StoreAssumption DEF Row
  <2> QED
    BY <1>1, <2>1, MadeNat, EconomyAssumption, StoreAssumption
<1>4. o \notin Paid /\ Paid' = Paid \cup {o} /\ Sent' = Sent
  BY <1>1 DEF Spend, Finish, Paid, Sent, Worked, TypeOK
<1>5. Spent' = Spent + Cost[o] /\ Received' = Received /\ Spent \in Nat /\ Received \in Nat
  <2>1. IsFiniteSet(Paid) /\ \A x \in Paid \cup {o} : Cost[x] \in Int
    BY StoreAssumption, FS_Subset DEF Paid
  <2>2. SumFunctionOnSet(Cost, Paid \cup {o}) = Cost[o] + SumFunctionOnSet(Cost, Paid)
    BY <1>4, <2>1, SumMore
  <2>3. Spent = SumFunctionOnSet(Cost, Paid) /\ Received = SumFunctionOnSet(Goods, Sent)
          /\ Spent \in Nat /\ Received \in Nat
    BY SumsOfStore
  <2>4. Spent' = SumFunctionOnSet(Cost, Paid') /\ Received' = SumFunctionOnSet(Goods, Sent')
    BY SumsNext
  <2> QED
    BY <1>3, <1>4, <2>2, <2>3, <2>4
<1> QED
  BY <1>1, <1>2, <1>3, <1>5 DEF OnceInv

LEMMA OnceApply ==
  ASSUME Rate \in Nat, TypeOK, SchedInv, ExactInv, OnceInv, TypeOK', NEW j \in Jobs, Apply(j)
  PROVE  OnceInv'
<1> DEFINE gain == IF Kind[j] \in {"trade", "loot"} THEN Goods[j] ELSE 0
<1>1. Working(j) /\ status[j] = "processing"
  BY InHand DEF Apply
<1>2. /\ j \notin Worked /\ Worked' = Worked \cup {j} /\ Paid' = Paid /\ j \notin Sent
      /\ Sent' = IF Kind[j] \in {"trade", "loot"} THEN Sent \cup {j} ELSE Sent
  BY <1>1 DEF Apply, web, Paid, Worked, Sent, TypeOK
<1>3. /\ Goods[j] \in Nat /\ gain \in Nat /\ Initial \in Nat /\ Capacity \in Nat /\ Hidden \in Nat /\ Kind[j] \in Kinds
  BY StoreAssumption, EconomyAssumption
<1>4. Spent' = Spent /\ Received' = Received + gain /\ Spent \in Nat /\ Received \in Nat
  <2>1. IsFiniteSet(Sent) /\ \A x \in Sent \cup {j} : Goods[x] \in Int
    BY StoreAssumption, FS_Subset DEF Sent, Worked
  <2>2. SumFunctionOnSet(Goods, Sent \cup {j}) = Goods[j] + SumFunctionOnSet(Goods, Sent)
    BY <1>2, <2>1, SumMore
  <2>3. Spent = SumFunctionOnSet(Cost, Paid) /\ Received = SumFunctionOnSet(Goods, Sent)
          /\ Spent \in Nat /\ Received \in Nat
    BY SumsOfStore
  <2>4. Spent' = SumFunctionOnSet(Cost, Paid') /\ Received' = SumFunctionOnSet(Goods, Sent')
    BY SumsNext
  <2> QED
    BY <1>2, <1>3, <2>2, <2>3, <2>4
<1>5. CASE LeavesStore(j)
  <2>1. row' = row
    BY <1>5 DEF Apply
  <2>2. row.amount \in Nat /\ row.stamp \in Nat /\ MadeBy(row.stamp) \in Nat
    BY MadeNat, EconomyAssumption DEF TypeOK, Row
  <2> QED
    BY <1>3, <1>4, <2>1, <2>2 DEF OnceInv
<1>6. CASE ~LeavesStore(j)
  <2> DEFINE t == SettleTo(j)
             a == Settle(row, t)
  <2>1. sched.read = row /\ row' = [amount |-> NewAmount(j), stamp |-> t]
    BY <1>6, ApplyForward DEF Apply
  <2>2. row \in Row /\ row.stamp \in Nat /\ t \in Nat /\ row.amount \in Nat
    BY NewAmountRange, EconomyAssumption DEF TypeOK, Row
  <2>3. row.stamp <= t
    BY <1>1, <2>1, <2>2, InHand DEF ExactInv
  <2>4. a + MadeBy(row.stamp) <= row.amount + MadeBy(t) /\ a \in Nat
          /\ MadeBy(row.stamp) \in Nat /\ MadeBy(t) \in Nat
    <3>1. a \in 0 .. Capacity
      BY <2>2, SettleRange
    <3> QED
      BY <2>2, <2>3, <3>1, SettleMakes, MadeNat, EconomyAssumption
  <2>5. NewAmount(j) = Outcome(Kind[j], Goods[j], a)
    BY <2>1 DEF NewAmount, Settled
  <2> HIDE DEF t, a
  <2>6. NewAmount(j) <= a + gain /\ NewAmount(j) \in Int
    <3>1. DepositCapped(a, Goods[j]) <= a + Goods[j] /\ DepositCapped(a, Goods[j]) \in Int
      BY <1>3, <2>4 DEF DepositCapped, Most, Least
    <3>2. a - Loot(Goods[j], a) <= a /\ a - Loot(Goods[j], a) \in Int
      BY <1>3, <2>4 DEF Loot, Most, Least
    <3> QED
      BY <1>3, <2>4, <2>5, <3>1, <3>2 DEF Outcome
  <2>7. row'.amount = NewAmount(j) /\ row'.stamp = t
    BY <2>1
  <2> HIDE DEF gain
  <2> QED
    BY <1>3, <1>4, <2>2, <2>4, <2>6, <2>7 DEF OnceInv
<1> QED
  BY <1>5, <1>6

LEMMA OnceStep ==
  ASSUME Rewards = {}, Rate \in Nat, TypeOK, TypeOK', SchedInv, ExactInv, OnceInv, [Next /\ InOrder]_vars
  PROVE  OnceInv'
<1>1. CASE (\E o \in Orders : Spend(o)) \/ (\E j \in Jobs : Apply(j))
  BY <1>1, OnceSpend, OnceApply
<1>2. CASE (\A o \in Orders : ~Spend(o)) /\ (\A j \in Jobs : ~Apply(j))
  <2>1. row' = row /\ Paid' = Paid /\ Sent' = Sent
    BY <1>2, OthersStutter DEF Sent
  <2>2. Spent' = SumFunctionOnSet(Cost, Paid') /\ Received' = SumFunctionOnSet(Goods, Sent')
    BY SumsNext
  <2>3. Spent' = Spent /\ Received' = Received
    BY <2>1, <2>2, SumsOfStore
  <2> QED
    BY <2>1, <2>3 DEF OnceInv
<1> QED
  BY <1>1, <1>2

LEMMA OnceInit == ASSUME Rate \in Nat PROVE Init => OnceInv
<1> SUFFICES ASSUME Init PROVE OnceInv
  OBVIOUS
<1>1. Paid = {} /\ Sent = {} /\ TypeOK
  BY TypeInit DEF Init, Paid, Sent, Worked
<1>2. Spent = 0 /\ Received = 0
  BY <1>1, SumsOfStore, SumEmpty
<1>3. MadeBy(0) \in Nat /\ Initial \in Nat
  BY MadeNat, StoreAssumption, EconomyAssumption
<1> QED
  BY <1>2, <1>3 DEF Init, OnceInv

\* In an orderly history without reward claims, with production that does not run below the
\* upkeep, no second of production is counted twice and no debit undone: what the village
\* holds and has spent is covered by what it started with, was sent and could have produced,
\* whatever conflicts, releases, retries, crashes and requeues its writers go through.
THEOREM OrderlyProducedOnce ==
  ASSUME Rewards = {}, Rate \in Nat
  PROVE  OrderlySpec => []ProducedOnce
<1>1. TypeOK /\ SchedInv /\ OnceInv => ProducedOnce
  <2> SUFFICES ASSUME TypeOK, SchedInv, OnceInv PROVE ProducedOnce
    OBVIOUS
  <2>1. row.stamp \in Nat /\ clock \in Nat /\ row.stamp <= clock /\ row.amount \in Nat
    BY EconomyAssumption DEF TypeOK, Row, SchedInv
  <2>2. MadeBy(row.stamp) \in Nat /\ MadeBy(clock) \in Nat /\ MadeBy(row.stamp) <= MadeBy(clock)
    BY <2>1, MadeInParts
  <2>3. Produced = MadeBy(clock)
    BY DEF Produced, MadeBy
  <2>4. Spent \in Nat /\ Received \in Nat /\ Rewarded = 0 /\ Initial \in Nat
    BY SumsOfStore, StoreAssumption, EconomyAssumption
  <2> QED
    BY <2>1, <2>2, <2>3, <2>4 DEF OnceInv, ProducedOnce
<1>2. TypeOK /\ TypeOK' /\ SchedInv /\ ExactInv /\ OnceInv /\ [Next /\ InOrder]_vars => OnceInv'
  BY OnceStep
<1>3. Init => OnceInv
  BY OnceInit
<1> QED
  BY <1>1, <1>2, <1>3, OrderlyInvariants, PTL DEF OrderlySpec

-----------------------------------------------------------------------------
(* Shipments: types *)

Open(r) == shipment[r] \notin {NotAsked, Served}
Driven(w) == legs[w] # NoLeg

\* What the types rest on: a priced request can pay for its load, no request is from the future,
\* and whoever holds a leg holds one that has arrived.
RoadTyped ==
  /\ MarketTypeOK
  /\ \A r \in Shippers : Open(r) =>
       /\ shipment[r].now <= moment
       /\ shipment[r].step # "asked" => Settle(shipment[r].read, shipment[r].now) >= shipment[r].load
  /\ \A i \in Traders, w \in Wagons : cargo[i][w] # NoLeg => cargo[i][w].due <= moment
  /\ \A i \in Traders : delivery[i] # AtRest => delivery[i].leg.due <= moment

LEMMA RoadConstants ==
  /\ Carry \in Nat \ {0} /\ Road \in Nat \ {0} /\ Toll \in Nat /\ Loads \subseteq Nat \ {0}
  /\ MaxMoment \in Nat /\ MaxReads \in Nat /\ MaxCharges \in Nat /\ MaxMishaps \in Nat
  /\ Capacity \in Nat /\ Moments \subseteq Nat /\ 0 .. MaxMoment \subseteq Moments
BY MarketAssumption, EconomyAssumption DEF Moments

LEMMA RequestTyped ==
  ASSUME RoadTyped, NEW r \in Shippers, Open(r)
  PROVE  /\ shipment[r] \in Shipment /\ shipment[r].home \in Towns /\ shipment[r].target \in Towns
         /\ shipment[r].load \in Loads /\ shipment[r].load \in Nat \ {0} /\ shipment[r].now \in Nat
         /\ shipment[r].read \in Row /\ shipment[r].level \in Levels
         /\ shipment[r].now \in 0 .. MaxMoment /\ moment \in 0 .. MaxMoment
<1>1. shipment[r] \in Shipment /\ moment \in 0 .. MaxMoment /\ shipment[r].now <= moment
  BY DEF RoadTyped, MarketTypeOK, Open
<1>2. /\ shipment[r].home \in Towns /\ shipment[r].target \in Towns /\ shipment[r].load \in Loads
      /\ shipment[r].now \in Moments /\ shipment[r].read \in Row /\ shipment[r].level \in Levels
  BY <1>1 DEF Shipment
<1>3. shipment[r].load \in Nat \ {0} /\ shipment[r].now \in Nat
  BY <1>2, RoadConstants
<1>4. shipment[r].now \in 0 .. MaxMoment
  BY <1>1, <1>3, RoadConstants
<1> QED
  BY <1>1, <1>2, <1>3, <1>4

LEMMA LegTyped ==
  ASSUME RoadTyped, NEW w \in Wagons, Driven(w)
  PROVE  legs[w] \in Leg
BY DEF RoadTyped, MarketTypeOK, Driven

LEMMA CargoTyped ==
  ASSUME RoadTyped, NEW i \in Traders, NEW w \in Wagons, cargo[i][w] # NoLeg
  PROVE  cargo[i][w] \in Leg /\ cargo[i][w].due <= moment
BY DEF RoadTyped, MarketTypeOK

LEMMA DeliveryTyped ==
  ASSUME RoadTyped, NEW i \in Traders, delivery[i] # AtRest
  PROVE  /\ delivery[i] \in Delivery /\ delivery[i].leg \in Leg /\ delivery[i].wagon \in Wagons
         /\ delivery[i].read \in Row /\ delivery[i].leg.due <= moment
         /\ delivery[i].leg.target \in Towns /\ delivery[i].leg.load \in Nat /\ delivery[i].leg.due \in Nat
<1>1. delivery[i] \in Delivery
  BY DEF RoadTyped, MarketTypeOK
<1>2. delivery[i].leg \in Leg /\ delivery[i].wagon \in Wagons /\ delivery[i].read \in Row
  BY <1>1 DEF Delivery
<1> QED
  BY <1>1, <1>2, RoadConstants DEF RoadTyped, Leg

\* What a request may do: ask, price, count, end.
LEMMA AskType ==
  ASSUME RoadTyped, NEW r \in Shippers, NEW h \in Towns, NEW t \in Towns, NEW n \in Loads,
         AskShipment(r, h, t, n)
  PROVE  RoadTyped'
<1> DEFINE s == [step |-> "asked", home |-> h, target |-> t, load |-> n, now |-> moment, level |-> market[h],
                 read |-> [amount |-> 0, stamp |-> 0]]
<1>1. shipment' = [shipment EXCEPT ![r] = s]
  BY DEF AskShipment
<1>2. [amount |-> 0, stamp |-> 0] \in Row
  BY RoadConstants DEF Row
<1>3. s \in Shipment
  BY <1>2, RoadConstants DEF Shipment, RoadTyped, MarketTypeOK
<1>4. s.now = moment /\ s.step = "asked" /\ moment \in Nat
  BY RoadConstants DEF RoadTyped, MarketTypeOK
<1> HIDE DEF s
<1>5. shipment' \in [Shippers -> Shipment \cup {NotAsked, Served}]
  BY <1>1, <1>3 DEF RoadTyped, MarketTypeOK
<1>6. ASSUME NEW q \in Shippers, Open(q)'
      PROVE  /\ shipment'[q].now <= moment
             /\ shipment'[q].step # "asked" => Settle(shipment'[q].read, shipment'[q].now) >= shipment'[q].load
  <2>1. CASE q = r
    BY <1>1, <1>4, <2>1 DEF RoadTyped, MarketTypeOK
  <2>2. CASE q # r
    BY <1>1, <1>6, <2>2 DEF RoadTyped, MarketTypeOK, Open
  <2> QED
    BY <2>1, <2>2
<1> QED
  BY <1>5, <1>6 DEF AskShipment, RoadTyped, MarketTypeOK, bounds

LEMMA PriceType ==
  ASSUME RoadTyped, NEW r \in Shippers, PriceShipment(r)
  PROVE  RoadTyped'
<1> DEFINE s == [shipment[r] EXCEPT !.step = "priced", !.read = stores[shipment[r].home]]
<1>1. Open(r) /\ shipment[r].step = "asked" /\ Settle(stores[shipment[r].home], shipment[r].now) >= shipment[r].load
  BY DEF PriceShipment, Stands, Open
<1>2. shipment[r] \in Shipment /\ shipment[r].home \in Towns
  BY <1>1, RequestTyped
<1>3. shipment' = [shipment EXCEPT ![r] = s]
  BY <1>2 DEF PriceShipment, RoadTyped, MarketTypeOK
<1>4. stores[shipment[r].home] \in Row
  BY <1>2 DEF RoadTyped, MarketTypeOK
<1>5. /\ s \in Shipment /\ s.read = stores[shipment[r].home] /\ s.now = shipment[r].now
      /\ s.load = shipment[r].load
  BY <1>2, <1>4 DEF Shipment
<1> HIDE DEF s
<1>6. shipment' \in [Shippers -> Shipment \cup {NotAsked, Served}]
  BY <1>3, <1>5 DEF RoadTyped, MarketTypeOK
<1>7. ASSUME NEW q \in Shippers, Open(q)'
      PROVE  /\ shipment'[q].now <= moment
             /\ shipment'[q].step # "asked" => Settle(shipment'[q].read, shipment'[q].now) >= shipment'[q].load
  <2>1. CASE q = r
    <3>1. shipment'[q] = s
      BY <1>3, <2>1 DEF RoadTyped, MarketTypeOK
    <3>2. shipment[r].now <= moment
      BY <1>1 DEF RoadTyped
    <3> QED
      BY <1>1, <1>5, <3>1, <3>2
  <2>2. CASE q # r
    BY <1>3, <1>7, <2>2 DEF RoadTyped, MarketTypeOK, Open
  <2> QED
    BY <2>1, <2>2
<1> QED
  BY <1>6, <1>7 DEF PriceShipment, RoadTyped, MarketTypeOK, bounds

LEMMA CountType ==
  ASSUME RoadTyped, NEW r \in Shippers, CountMerchants(r)
  PROVE  RoadTyped'
<1> DEFINE s == [shipment[r] EXCEPT !.step = "counted"]
<1>1. Open(r) /\ shipment[r].step = "priced"
  BY DEF CountMerchants, Stands, Open
<1>2. shipment[r] \in Shipment
  BY <1>1, RequestTyped
<1>3. shipment' = [shipment EXCEPT ![r] = s]
  BY <1>2 DEF CountMerchants, RoadTyped, MarketTypeOK
<1>5. /\ s \in Shipment /\ s.read = shipment[r].read /\ s.now = shipment[r].now /\ s.load = shipment[r].load
  BY <1>2 DEF Shipment
<1> HIDE DEF s
<1>6. shipment' \in [Shippers -> Shipment \cup {NotAsked, Served}]
  BY <1>3, <1>5 DEF RoadTyped, MarketTypeOK
<1>7. ASSUME NEW q \in Shippers, Open(q)'
      PROVE  /\ shipment'[q].now <= moment
             /\ shipment'[q].step # "asked" => Settle(shipment'[q].read, shipment'[q].now) >= shipment'[q].load
  <2>1. CASE q = r
    <3>1. shipment'[q] = s
      BY <1>3, <2>1 DEF RoadTyped, MarketTypeOK
    <3>2. shipment[r].now <= moment /\ Settle(shipment[r].read, shipment[r].now) >= shipment[r].load
      BY <1>1 DEF RoadTyped
    <3> QED
      BY <1>5, <3>1, <3>2
  <2>2. CASE q # r
    BY <1>3, <1>7, <2>2 DEF RoadTyped, MarketTypeOK, Open
  <2> QED
    BY <2>1, <2>2
<1> QED
  BY <1>6, <1>7 DEF CountMerchants, RoadTyped, MarketTypeOK, bounds

LEMMA EndType ==
  ASSUME RoadTyped, NEW r \in Shippers, EndShipment(r)
  PROVE  RoadTyped'
<1>1. shipment' = [shipment EXCEPT ![r] = Served]
  BY DEF EndShipment
<1>2. \A q \in Shippers : Open(q)' => Open(q) /\ shipment'[q] = shipment[q]
  BY <1>1 DEF RoadTyped, MarketTypeOK, Open
<1>3. shipment' \in [Shippers -> Shipment \cup {NotAsked, Served}]
  BY <1>1 DEF RoadTyped, MarketTypeOK
<1> QED
  BY <1>2, <1>3 DEF EndShipment, RoadTyped, MarketTypeOK, bounds

\* The merchants set out.
LEMMA RequiredNat == ASSUME NEW n \in Nat PROVE Required(n) \in Nat
<1>1. Carry \in Nat \ {0} /\ n + Carry - 1 \in Nat
  BY RoadConstants
<1> QED
  BY <1>1, DivBounds DEF Required

Sets(r) == [kind |-> "deliver", home |-> shipment[r].home, target |-> shipment[r].target,
            load |-> shipment[r].load, merchants |-> Required(shipment[r].load),
            due |-> shipment[r].now + Road, claimed |-> FALSE]

LEMMA SendFacts ==
  ASSUME RoadTyped, NEW r \in Shippers, NEW w \in Wagons, SendShipment(r, w)
  PROVE  LET s == shipment[r]  settled == Settle(s.read, s.now) IN
         /\ Open(r) /\ s.step = "counted" /\ s.home \in standing /\ s.home \in Towns
         /\ settled \in 0 .. Capacity /\ settled - s.load \in 0 .. Capacity
         /\ s.now \in Nat /\ s.load \in Nat \ {0} /\ s.read \in Row
         /\ Sets(r) \in Leg
         /\ stores' = [stores EXCEPT ![s.home] = [amount |-> settled - s.load, stamp |-> s.now]]
         /\ legs' = [legs EXCEPT ![w] = Sets(r)]
         /\ shipment' = [shipment EXCEPT ![r] = Served]
         /\ books' = books + settled - s.read.amount
         /\ legs[w] = NoLeg /\ \A i \in Traders : cargo[i][w] = NoLeg
<1> DEFINE s == shipment[r]
<1>1. Open(r) /\ s.step = "counted" /\ s.home \in standing /\ s.target \in standing
  BY DEF SendShipment, Stands, Open
<1>2. /\ s.home \in Towns /\ s.target \in Towns /\ s.load \in Nat \ {0} /\ s.now \in Nat /\ s.now \in 0 .. MaxMoment
      /\ s.read \in Row
  BY <1>1, RequestTyped
<1>3. Settle(s.read, s.now) \in 0 .. Capacity
  BY <1>2, SettleRange
<1>4. Settle(s.read, s.now) >= s.load
  BY <1>1 DEF RoadTyped
<1>5. Settle(s.read, s.now) - s.load \in 0 .. Capacity
  BY <1>2, <1>3, <1>4, RoadConstants
<1>6. Sets(r) \in Leg
  <2>1. s.now + Road \in Moments
    BY <1>2, RoadConstants DEF Moments
  <2> QED
    BY <1>2, <2>1, RequiredNat DEF Sets, Leg
<1> QED
  BY <1>1, <1>2, <1>3, <1>5, <1>6 DEF SendShipment, Unused, Sets

LEMMA SendType ==
  ASSUME RoadTyped, NEW r \in Shippers, NEW w \in Wagons, SendShipment(r, w)
  PROVE  RoadTyped'
<1> DEFINE s == shipment[r]
           settled == Settle(s.read, s.now)
<1>1. /\ s.home \in Towns /\ settled \in 0 .. Capacity /\ settled - s.load \in 0 .. Capacity
      /\ s.now \in Nat /\ s.read \in Row /\ Sets(r) \in Leg
      /\ stores' = [stores EXCEPT ![s.home] = [amount |-> settled - s.load, stamp |-> s.now]]
      /\ legs' = [legs EXCEPT ![w] = Sets(r)]
      /\ shipment' = [shipment EXCEPT ![r] = Served]
      /\ books' = books + settled - s.read.amount
  BY SendFacts
<1>2. stores' \in [Towns -> Row]
  BY <1>1 DEF RoadTyped, MarketTypeOK, Row
<1>3. legs' \in [Wagons -> Leg \cup {NoLeg}]
  BY <1>1 DEF RoadTyped, MarketTypeOK
<1>4. /\ shipment' \in [Shippers -> Shipment \cup {NotAsked, Served}]
      /\ \A q \in Shippers : Open(q)' => Open(q) /\ shipment'[q] = shipment[q]
  BY <1>1 DEF RoadTyped, MarketTypeOK, Open
<1>5. books' \in Int
  BY <1>1, RoadConstants DEF RoadTyped, MarketTypeOK, Row
<1> QED
  BY <1>2, <1>3, <1>4, <1>5 DEF SendShipment, RoadTyped, MarketTypeOK, bounds

\* Claimed or released, a leg is a leg.
LEMMA ReleasedLeg ==
  ASSUME NEW l \in Leg, NEW c \in BOOLEAN
  PROVE  LET k == [l EXCEPT !.claimed = c] IN
         /\ k \in Leg /\ k.kind = l.kind /\ k.home = l.home /\ k.target = l.target /\ k.load = l.load
         /\ k.merchants = l.merchants /\ k.due = l.due /\ k.claimed = c
BY DEF Leg

LEMMA ClaimLegsType ==
  ASSUME RoadTyped, NEW i \in Traders, ClaimLegs(i)
  PROVE  RoadTyped'
<1> DEFINE S == {w \in Wagons : legs[w] # NoLeg /\ legs[w].due <= moment /\ ~legs[w].claimed}
           load == [w \in Wagons |-> IF w \in S THEN Claimed(legs[w]) ELSE NoLeg]
<1>1. /\ legs' = [w \in Wagons |-> IF w \in S THEN Claimed(legs[w]) ELSE legs[w]]
      /\ cargo' = [cargo EXCEPT ![i] = load]
  BY DEF ClaimLegs
<1>2. \A w \in S : w \in Wagons /\ legs[w] \in Leg /\ legs[w].due <= moment
  BY LegTyped DEF Driven
<1>3. \A w \in S : Claimed(legs[w]) \in Leg /\ Claimed(legs[w]).due <= moment
  BY <1>2, ReleasedLeg DEF Claimed
<1> HIDE DEF S
<1>4. legs' \in [Wagons -> Leg \cup {NoLeg}]
  BY <1>1, <1>3 DEF RoadTyped, MarketTypeOK
<1>5. load \in [Wagons -> Leg \cup {NoLeg}] /\ \A w \in Wagons : load[w] # NoLeg => load[w].due <= moment
  BY <1>3
<1> HIDE DEF load
<1>6. /\ cargo' \in [Traders -> [Wagons -> Leg \cup {NoLeg}]]
      /\ \A j \in Traders, w \in Wagons : cargo'[j][w] # NoLeg => cargo'[j][w].due <= moment
  <2>1. cargo \in [Traders -> [Wagons -> Leg \cup {NoLeg}]]
    BY DEF RoadTyped, MarketTypeOK
  <2>2. cargo'[i] = load /\ \A j \in Traders : j # i => cargo'[j] = cargo[j]
    BY <1>1, <2>1
  <2>3. cargo' \in [Traders -> [Wagons -> Leg \cup {NoLeg}]]
    BY <1>1, <1>5, <2>1
  <2>4. \A j \in Traders, w \in Wagons : cargo[j][w] # NoLeg => cargo[j][w].due <= moment
    BY DEF RoadTyped
  <2> QED
    BY <1>5, <2>2, <2>3, <2>4
<1> QED
  BY <1>4, <1>6 DEF ClaimLegs, RoadTyped, MarketTypeOK, bounds, Open

\* A leg is put down.
LEMMA PutDownType ==
  ASSUME RoadTyped, NEW i \in Traders, NEW w \in Wagons, PutDown(i, w), moment' = moment
  PROVE  /\ cargo' \in [Traders -> [Wagons -> Leg \cup {NoLeg}]]
         /\ \A j \in Traders, x \in Wagons : cargo'[j][x] = IF j = i /\ x = w THEN NoLeg ELSE cargo[j][x]
         /\ \A j \in Traders, x \in Wagons : cargo'[j][x] # NoLeg => cargo'[j][x].due <= moment'
<1>1. cargo \in [Traders -> [Wagons -> Leg \cup {NoLeg}]] /\ cargo' = [cargo EXCEPT ![i][w] = NoLeg]
  BY DEF RoadTyped, MarketTypeOK, PutDown
<1>2. \A j \in Traders, x \in Wagons : cargo'[j][x] = IF j = i /\ x = w THEN NoLeg ELSE cargo[j][x]
  BY <1>1
<1>3. cargo' \in [Traders -> [Wagons -> Leg \cup {NoLeg}]]
  BY <1>1
<1> QED
  BY <1>2, <1>3 DEF RoadTyped

LEMMA FreeType ==
  ASSUME RoadTyped, NEW i \in Traders, NEW w \in Wagons, FreeMerchants(i, w)
  PROVE  RoadTyped'
<1>1. /\ legs' = [legs EXCEPT ![w] = IF @ = cargo[i][w] THEN NoLeg ELSE @]
      /\ PutDown(i, w) /\ UNCHANGED <<moment, standing, market, stores, shipment, delivery, running, books, bounds>>
  BY DEF FreeMerchants
<1>2. legs' \in [Wagons -> Leg \cup {NoLeg}]
  BY <1>1 DEF RoadTyped, MarketTypeOK
<1> QED
  BY <1>1, <1>2, PutDownType DEF RoadTyped, MarketTypeOK, bounds, Open

LEMMA ReadTargetType ==
  ASSUME RoadTyped, NEW i \in Traders, NEW w \in Wagons, ReadTarget(i, w)
  PROVE  RoadTyped'
<1> DEFINE l == cargo[i][w]
           d == [wagon |-> w, leg |-> l, read |-> stores[l.target], reads |-> 1]
<1>1. /\ delivery' = [delivery EXCEPT ![i] = d]
      /\ l # NoLeg
      /\ PutDown(i, w) /\ UNCHANGED <<moment, standing, market, stores, legs, shipment, running, books, bounds>>
  BY DEF ReadTarget, Picks
<1>2. l \in Leg /\ l.due <= moment /\ l.target \in Towns
  BY <1>1, CargoTyped DEF Leg
<1>3. stores[l.target] \in Row
  BY <1>2 DEF RoadTyped, MarketTypeOK
<1>4. d \in Delivery /\ d.leg = l
  BY <1>2, <1>3 DEF Delivery
<1> HIDE DEF d
<1>5. delivery' \in [Traders -> Delivery \cup {AtRest}]
  BY <1>1, <1>4 DEF RoadTyped, MarketTypeOK
<1>6. \A j \in Traders : delivery'[j] # AtRest => delivery'[j].leg.due <= moment
  BY <1>1, <1>2, <1>4 DEF RoadTyped, MarketTypeOK
<1> HIDE DEF l
<1> QED
  BY <1>1, <1>5, <1>6, PutDownType DEF RoadTyped, MarketTypeOK, bounds, Open

\* A delivery ends: credited, released or given up.
LEMMA GoesOnType ==
  ASSUME RoadTyped, NEW i \in Traders, GoesOn(i), moment' = moment
  PROVE  /\ delivery' \in [Traders -> Delivery \cup {AtRest}] /\ cargo' = cargo
         /\ \A j \in Traders : delivery'[j] = IF j = i THEN AtRest ELSE delivery[j]
         /\ \A j \in Traders : delivery'[j] # AtRest => delivery'[j].leg.due <= moment'
<1>1. delivery \in [Traders -> Delivery \cup {AtRest}] /\ delivery' = [delivery EXCEPT ![i] = AtRest]
  BY DEF RoadTyped, MarketTypeOK, GoesOn
<1> QED
  BY <1>1 DEF GoesOn, RoadTyped

Back(l) == [l EXCEPT !.kind = "return", !.load = 0, !.due = @ + Road, !.claimed = FALSE]

LEMMA BackIsLeg ==
  ASSUME RoadTyped, NEW l \in Leg, l.due <= moment
  PROVE  /\ Back(l) \in Leg /\ Back(l).home = l.home /\ Back(l).target = l.target /\ Back(l).load = 0
         /\ Back(l).merchants = l.merchants /\ Back(l).kind = "return" /\ ~Back(l).claimed
<1>1. moment \in 0 .. MaxMoment /\ l.due \in Nat
  BY RoadConstants DEF RoadTyped, MarketTypeOK, Leg
<1>2. l.due + Road \in Moments
  BY <1>1, RoadConstants DEF Moments
<1>3. Back(l) \in Leg
  BY <1>2 DEF Back, Leg
<1> QED
  BY <1>3 DEF Back, Leg

LEMMA WayHomeType ==
  ASSUME RoadTyped, NEW i \in Traders, delivery[i] # AtRest, WayHome(i, delivery[i].leg)
  PROVE  legs' \in [Wagons -> Leg \cup {NoLeg}]
<1>1. Back(delivery[i].leg) \in Leg
  BY DeliveryTyped, BackIsLeg
<1>2. \E w : legs' = [legs EXCEPT ![w] = Back(delivery[i].leg)]
  BY DEF WayHome, Back
<1> QED
  BY <1>1, <1>2 DEF RoadTyped, MarketTypeOK

\* What a delivery writes into the target's store.
LEMMA CreditTyped ==
  ASSUME RoadTyped, NEW i \in Traders, delivery[i] # AtRest
  PROVE  LET d == delivery[i]  settled == Settle(d.read, CreditClock(d)) IN
         /\ CreditClock(d) \in Nat /\ CreditClock(d) >= d.read.stamp
         /\ settled \in 0 .. Capacity /\ DepositCapped(settled, d.leg.load) \in 0 .. Capacity
<1> DEFINE d == delivery[i]
<1>1. d.read \in Row /\ d.leg.due \in Nat /\ d.leg.load \in Nat /\ d.read.stamp \in Nat
  BY DeliveryTyped DEF Row
<1>2. CreditClock(d) \in Nat /\ CreditClock(d) >= d.read.stamp
  BY <1>1 DEF CreditClock, Most
<1>3. Settle(d.read, CreditClock(d)) \in 0 .. Capacity
  BY <1>1, <1>2, SettleRange
<1> QED
  BY <1>1, <1>2, <1>3, DepositRange

LEMMA DeliverType ==
  ASSUME RoadTyped, NEW i \in Traders, Deliver(i)
  PROVE  RoadTyped'
<1> DEFINE d == delivery[i]
           filled == DepositCapped(Settle(d.read, CreditClock(d)), d.leg.load)
<1>1. /\ d # AtRest /\ WayHome(i, d.leg) /\ GoesOn(i)
      /\ stores' = [stores EXCEPT ![d.leg.target] = [amount |-> filled, stamp |-> CreditClock(d)]]
      /\ books' = books + filled - d.read.amount - d.leg.load
      /\ UNCHANGED <<moment, standing, market, shipment, running, bounds>>
  BY DEF Deliver, Delivers
<1>2. CreditClock(d) \in Nat /\ filled \in 0 .. Capacity
  BY <1>1, CreditTyped
<1>3. d.leg.target \in Towns /\ d.leg.load \in Nat /\ d.read.amount \in Int
  BY <1>1, DeliveryTyped, RoadConstants DEF Row
<1> HIDE DEF filled
<1>4. stores' \in [Towns -> Row]
  BY <1>1, <1>2, <1>3 DEF RoadTyped, MarketTypeOK, Row
<1>5. books' \in Int
  BY <1>1, <1>2, <1>3, RoadConstants DEF RoadTyped, MarketTypeOK
<1>6. legs' \in [Wagons -> Leg \cup {NoLeg}]
  BY <1>1, WayHomeType
<1> QED
  BY <1>1, <1>4, <1>5, <1>6, GoesOnType DEF RoadTyped, MarketTypeOK, bounds, Open

Reread(d, x) == [d EXCEPT !.read = x, !.reads = @ + 1]

LEMMA ReadOnce ==
  ASSUME NEW d \in Delivery, NEW x \in Row
  PROVE  LET e == Reread(d, x) IN
         e \in Delivery /\ e.leg = d.leg /\ e.wagon = d.wagon /\ e.read = x
<1> DEFINE n == d.reads + 1
           e == [d EXCEPT !.read = x, !.reads = n]
<1>1. d.reads \in Nat
  BY DEF Delivery
<1>2. n \in Nat
  BY <1>1
<1> HIDE DEF n
<1>3. e \in Delivery /\ e.leg = d.leg /\ e.wagon = d.wagon /\ e.read = x
  BY <1>2 DEF Delivery
<1> QED
  BY <1>3 DEF n, Reread

LEMMA ReadAgainType ==
  ASSUME RoadTyped, NEW i \in Traders, ReadAgain(i)
  PROVE  RoadTyped'
<1> DEFINE d == delivery[i]
           x == stores[d.leg.target]
           e == Reread(d, x)
<1>1. d # AtRest /\ UNCHANGED <<moment, standing, market, stores, legs, shipment, cargo, running, books, bounds>>
  BY DEF ReadAgain, Delivers
<1>2. d \in Delivery /\ d.leg.target \in Towns /\ stores[d.leg.target] \in Row
  BY <1>1, DeliveryTyped DEF RoadTyped, MarketTypeOK
<1>3. delivery' = [delivery EXCEPT ![i] = e]
  BY <1>2 DEF ReadAgain, RoadTyped, MarketTypeOK, Reread
<1>4. e \in Delivery /\ e.leg = d.leg
  BY <1>2, ReadOnce
<1> HIDE DEF e
<1>5. delivery' \in [Traders -> Delivery \cup {AtRest}]
  BY <1>3, <1>4 DEF RoadTyped, MarketTypeOK
<1>6. \A j \in Traders : delivery'[j] # AtRest => delivery'[j].leg.due <= moment
  BY <1>1, <1>3, <1>4 DEF RoadTyped, MarketTypeOK
<1> QED
  BY <1>1, <1>5, <1>6 DEF RoadTyped, MarketTypeOK, bounds, Open

LEMMA ReleaseLegType ==
  ASSUME RoadTyped, NEW i \in Traders, ReleaseLeg(i)
  PROVE  RoadTyped'
<1> DEFINE d == delivery[i]
<1>1. /\ d # AtRest /\ GoesOn(i)
      /\ legs' = [legs EXCEPT ![d.wagon] = IF @ = d.leg THEN [@ EXCEPT !.claimed = FALSE] ELSE @]
      /\ UNCHANGED <<moment, standing, market, stores, shipment, running, books, bounds>>
  BY DEF ReleaseLeg, Delivers
<1>2. d.leg \in Leg /\ [d.leg EXCEPT !.claimed = FALSE] \in Leg
  BY <1>1, DeliveryTyped, ReleasedLeg
<1>3. legs' \in [Wagons -> Leg \cup {NoLeg}]
  BY <1>1, <1>2 DEF RoadTyped, MarketTypeOK
<1> QED
  BY <1>1, <1>3, GoesOnType DEF RoadTyped, MarketTypeOK, bounds, Open

LEMMA GiveUpType ==
  ASSUME RoadTyped, NEW i \in Traders, NEW w \in Wagons, GiveUp(i, w)
  PROVE  RoadTyped'
<1>1. UNCHANGED <<moment, standing, market, stores, legs, shipment, running, books, bounds>>
  BY DEF GiveUp
<1>2. CASE PutDown(i, w) /\ UNCHANGED delivery
  BY <1>1, <1>2, PutDownType DEF RoadTyped, MarketTypeOK, bounds, Open
<1>3. CASE GoesOn(i)
  BY <1>1, <1>3, GoesOnType DEF RoadTyped, MarketTypeOK, bounds, Open
<1> QED
  BY <1>2, <1>3 DEF GiveUp

\* What happens to a village besides.
LEMMA RebuildType ==
  ASSUME RoadTyped, NEW v \in Towns, NEW l \in Levels, Rebuild(v, l)
  PROVE  RoadTyped'
<1>1. market' \in [Towns -> Levels]
  BY DEF Rebuild, RoadTyped, MarketTypeOK
<1>2. mishaps' \in 0 .. MaxMishaps
  BY RoadConstants DEF Rebuild, Mishap, RoadTyped, MarketTypeOK
<1> QED
  BY <1>1, <1>2 DEF Rebuild, RoadTyped, MarketTypeOK, Open

LEMMA ChargeFacts ==
  ASSUME RoadTyped, NEW v \in Towns, Charge(v)
  PROVE  LET settled == Settle(stores[v], moment) IN
         /\ stores[v] \in Row /\ moment \in Nat /\ settled \in 0 .. Capacity
         /\ settled - Toll \in 0 .. Capacity
<1> DEFINE settled == Settle(stores[v], moment)
<1>1. stores[v] \in Row /\ moment \in Nat
  BY RoadConstants DEF RoadTyped, MarketTypeOK
<1>2. settled \in 0 .. Capacity
  BY <1>1, SettleRange
<1>3. settled >= Toll
  BY DEF Charge
<1> HIDE DEF settled
<1>4. settled - Toll \in 0 .. Capacity
  BY <1>2, <1>3, RoadConstants
<1> QED
  BY <1>1, <1>2, <1>4 DEF settled

LEMMA ChargeType ==
  ASSUME RoadTyped, NEW v \in Towns, Charge(v)
  PROVE  RoadTyped'
<1> DEFINE settled == Settle(stores[v], moment)
<1>1. /\ stores[v] \in Row /\ moment \in Nat /\ settled \in 0 .. Capacity
      /\ settled - Toll \in 0 .. Capacity
  BY ChargeFacts
<1>2. /\ stores' = [stores EXCEPT ![v] = [amount |-> settled - Toll, stamp |-> moment]]
      /\ books' = books + settled - stores[v].amount - Toll
      /\ charges' = charges + 1 /\ charges < MaxCharges
      /\ UNCHANGED <<moment, standing, market, legs, shipment, cargo, delivery, running, mishaps>>
  BY DEF Charge
<1> HIDE DEF settled
<1>3. stores' \in [Towns -> Row]
  BY <1>1, <1>2 DEF RoadTyped, MarketTypeOK, Row
<1>4. books' \in Int
  BY <1>1, <1>2, RoadConstants DEF RoadTyped, MarketTypeOK, Row
<1>5. charges' \in 0 .. MaxCharges
  BY <1>2, RoadConstants DEF RoadTyped, MarketTypeOK
<1> QED
  BY <1>2, <1>3, <1>4, <1>5 DEF RoadTyped, MarketTypeOK, Open

\* The loads that go with a village.
Lost(v) == {w \in Wagons : legs[w] # NoLeg /\ v \in {legs[w].home, legs[w].target}}

LEMMA LoadsNat ==
  ASSUME RoadTyped, NEW S \in SUBSET Wagons, \A w \in S : Driven(w)
  PROVE  /\ IsFiniteSet(S) /\ [w \in S |-> legs[w].load] \in [S -> Nat]
         /\ SumFunction([w \in S |-> legs[w].load]) \in Nat
<1>1. IsFiniteSet(S)
  BY MarketAssumption, FS_Subset
<1>2. [w \in S |-> legs[w].load] \in [S -> Nat]
  BY LegTyped DEF Leg
<1> DEFINE f == [w \in S |-> legs[w].load]
<1>3. DOMAIN f = S /\ \A w \in S : f[w] \in Nat
  BY <1>2
<1> HIDE DEF f
<1>4. SumFunction(f) \in Nat
  BY <1>1, <1>3, SumNat DEF SumFunction
<1> QED
  BY <1>1, <1>2, <1>4 DEF f

LEMMA AbandonType ==
  ASSUME RoadTyped, NEW v \in Towns, Abandon(v)
  PROVE  RoadTyped'
<1>1. /\ stores' = [stores EXCEPT ![v] = [amount |-> 0, stamp |-> 0]]
      /\ legs' = [w \in Wagons |-> IF w \in Lost(v) THEN NoLeg ELSE legs[w]]
      /\ books' = books - stores[v].amount - SumFunction([w \in Lost(v) |-> legs[w].load])
      /\ standing' = standing \ {v} /\ mishaps < MaxMishaps /\ mishaps' = mishaps + 1
      /\ UNCHANGED <<moment, market, shipment, cargo, delivery, running, charges>>
  BY DEF Abandon, Lost, Mishap
<1>2. SumFunction([w \in Lost(v) |-> legs[w].load]) \in Nat
  BY LoadsNat DEF Lost, Driven
<1>3. books' \in Int
  BY <1>1, <1>2, RoadConstants DEF RoadTyped, MarketTypeOK, Row
<1>4. stores' \in [Towns -> Row]
  BY <1>1, RoadConstants DEF RoadTyped, MarketTypeOK, Row
<1>5. legs' \in [Wagons -> Leg \cup {NoLeg}]
  BY <1>1 DEF RoadTyped, MarketTypeOK
<1>6. mishaps' \in 0 .. MaxMishaps /\ standing' \subseteq Towns
  BY <1>1, RoadConstants DEF RoadTyped, MarketTypeOK
<1> QED
  BY <1>1, <1>3, <1>4, <1>5, <1>6 DEF RoadTyped, MarketTypeOK, Open

LEMMA PassesType ==
  ASSUME RoadTyped, Passes
  PROVE  RoadTyped'
<1>1. moment' = moment + 1 /\ moment' \in 0 .. MaxMoment /\ moment \in Nat
  BY RoadConstants DEF Passes, RoadTyped, MarketTypeOK
<1>2. UNCHANGED <<standing, market, stores, legs, shipment, cargo, delivery, running, books, bounds>>
  BY DEF Passes
<1>3. MarketTypeOK'
  BY <1>1, <1>2 DEF RoadTyped, MarketTypeOK, bounds
<1>4. ASSUME NEW r \in Shippers, Open(r)'
      PROVE  shipment'[r].now <= moment'
    /\ (shipment'[r].step # "asked" => Settle(shipment'[r].read, shipment'[r].now) >= shipment'[r].load)
  <2>1. Open(r) /\ shipment'[r] = shipment[r]
    BY <1>2, <1>4 DEF Open
  <2>2. shipment[r].now \in Nat /\ shipment[r].now <= moment
    BY <2>1, RequestTyped DEF RoadTyped
  <2> QED
    BY <1>1, <2>1, <2>2 DEF RoadTyped
<1>5. ASSUME NEW i \in Traders, NEW w \in Wagons, cargo'[i][w] # NoLeg PROVE cargo'[i][w].due <= moment'
  <2>1. cargo[i][w] \in Leg /\ cargo[i][w].due <= moment /\ cargo' = cargo
    BY <1>2, <1>5, CargoTyped
  <2>2. cargo[i][w].due \in Nat
    BY <2>1, RoadConstants DEF Leg
  <2> QED
    BY <1>1, <2>1, <2>2
<1>6. ASSUME NEW i \in Traders, delivery'[i] # AtRest PROVE delivery'[i].leg.due <= moment'
  <2>1. delivery[i].leg.due \in Nat /\ delivery[i].leg.due <= moment /\ delivery' = delivery
    BY <1>2, <1>6, DeliveryTyped
  <2> QED
    BY <1>1, <2>1
<1> QED
  BY <1>3, <1>4, <1>5, <1>6 DEF RoadTyped

LEMMA StopType ==
  ASSUME RoadTyped, NEW i \in Traders, Stop(i)
  PROVE  RoadTyped'
<1> DEFINE none == [w \in Wagons |-> NoLeg]
<1>1. /\ delivery' = [delivery EXCEPT ![i] = AtRest] /\ cargo' = [cargo EXCEPT ![i] = none]
      /\ running' = running \ {i} /\ mishaps < MaxMishaps /\ mishaps' = mishaps + 1
      /\ UNCHANGED <<moment, standing, market, stores, legs, shipment, books, charges>>
  BY DEF Stop, Mishap
<1>2. none \in [Wagons -> Leg \cup {NoLeg}] /\ \A w \in Wagons : none[w] = NoLeg
  OBVIOUS
<1> HIDE DEF none
<1>3. /\ cargo' \in [Traders -> [Wagons -> Leg \cup {NoLeg}]]
      /\ \A j \in Traders, w \in Wagons : cargo'[j][w] # NoLeg => cargo'[j][w] = cargo[j][w]
  <2>1. cargo \in [Traders -> [Wagons -> Leg \cup {NoLeg}]]
    BY DEF RoadTyped, MarketTypeOK
  <2>2. cargo'[i] = none /\ \A j \in Traders : j # i => cargo'[j] = cargo[j]
    BY <1>1, <2>1
  <2> QED
    BY <1>1, <1>2, <2>1, <2>2
<1>4. /\ delivery' \in [Traders -> Delivery \cup {AtRest}]
      /\ \A j \in Traders : delivery'[j] # AtRest => delivery'[j] = delivery[j]
  BY <1>1 DEF RoadTyped, MarketTypeOK
<1>5. mishaps' \in 0 .. MaxMishaps /\ running' \subseteq Traders
  BY <1>1, RoadConstants DEF RoadTyped, MarketTypeOK
<1> QED
  BY <1>1, <1>3, <1>4, <1>5 DEF RoadTyped, MarketTypeOK, Open

LEMMA StartType ==
  ASSUME RoadTyped, NEW i \in Traders, Start(i)
  PROVE  RoadTyped'
<1>1. /\ legs' = [w \in Wagons |-> IF legs[w] = NoLeg THEN NoLeg ELSE [legs[w] EXCEPT !.claimed = FALSE]]
      /\ running' = running \cup {i}
      /\ UNCHANGED <<moment, standing, market, stores, shipment, cargo, delivery, books, bounds>>
  BY DEF Start
<1>2. \A w \in Wagons : Driven(w) => [legs[w] EXCEPT !.claimed = FALSE] \in Leg
  BY LegTyped, ReleasedLeg
<1>3. legs' \in [Wagons -> Leg \cup {NoLeg}]
  BY <1>1, <1>2 DEF Driven
<1> QED
  BY <1>1, <1>3 DEF RoadTyped, MarketTypeOK, Open, bounds

LEMMA RoadTypedInit == MarketInit => RoadTyped
<1> SUFFICES ASSUME MarketInit PROVE RoadTyped
  OBVIOUS
<1>1. /\ moment = 0 /\ standing = Towns /\ market = FirstMarket
      /\ stores = [v \in Towns |-> [amount |-> FirstStore[v], stamp |-> 0]]
      /\ legs = [w \in Wagons |-> NoLeg] /\ shipment = [r \in Shippers |-> NotAsked]
      /\ cargo = [i \in Traders |-> [w \in Wagons |-> NoLeg]]
      /\ delivery = [i \in Traders |-> AtRest] /\ running = Traders
      /\ books = 0 /\ charges = 0 /\ mishaps = 0
  BY DEF MarketInit
<1>2. stores \in [Towns -> Row]
  BY <1>1, MarketAssumption DEF Row
<1>3. \A i \in Traders, w \in Wagons : cargo[i][w] = NoLeg
  BY <1>1
<1>4. cargo \in [Traders -> [Wagons -> Leg \cup {NoLeg}]]
  BY <1>1
<1>5. \A r \in Shippers : ~Open(r)
  BY <1>1 DEF Open
<1> QED
  BY <1>1, <1>2, <1>3, <1>4, <1>5, MarketAssumption, RoadConstants DEF RoadTyped, MarketTypeOK

LEMMA SpareIsWagon == (\E w \in Wagons : Unused(w)) => Spare \in Wagons /\ Unused(Spare)
BY DEF Spare

LEMMA RoadTypedNext == RoadTyped /\ [MarketNext]_marketVars => RoadTyped'
<1> SUFFICES ASSUME RoadTyped, [MarketNext]_marketVars PROVE RoadTyped'
  OBVIOUS
<1>1. CASE UNCHANGED marketVars
  BY <1>1 DEF marketVars, RoadTyped, MarketTypeOK, Open, bounds
<1>2. CASE Shipping
  BY <1>2, AskType, PriceType, CountType DEF Shipping
<1>3. CASE Answering
  BY <1>3, EndType, SendType, SpareIsWagon DEF Answering
<1>4. CASE Elsewhere
  BY <1>4, RebuildType, ChargeType, AbandonType DEF Elsewhere
<1>5. CASE Passes
  BY <1>5, PassesType
<1>6. ASSUME NEW i \in Traders, Hauls(i) PROVE RoadTyped'
  BY <1>6, ClaimLegsType, DeliverType, ReadAgainType, ReleaseLegType, FreeType, ReadTargetType, GiveUpType
  DEF Hauls
<1>7. ASSUME NEW i \in Traders, Stop(i) \/ Start(i) PROVE RoadTyped'
  BY <1>7, StopType, StartType
<1> QED
  BY <1>1, <1>2, <1>3, <1>4, <1>5, <1>6, <1>7 DEF MarketNext

LEMMA RoadTypedAlways == MarketQuietSpec => []RoadTyped
<1>1. MarketNext /\ MarketQuiet => MarketNext
  OBVIOUS
<1> QED
  BY <1>1, RoadTypedInit, RoadTypedNext, PTL DEF MarketQuietSpec

\* Every store holds between nothing and the cap, whatever is sent, delivered, charged or abandoned in
\* whatever order; a leg is due within the horizon, and every instance holds only legs.
THEOREM MarketTypeCorrect == MarketSpec => []MarketTypeOK
<1>1. RoadTyped => MarketTypeOK
  BY DEF RoadTyped
<1> QED
  BY <1>1, RoadTypedInit, RoadTypedNext, PTL DEF MarketSpec

\* The same of both parts side by side, in every history of either: orderly or not, quiet or not.
THEOREM CommerceTypes == Spec /\ MarketSpec => []TypesOK
<1>1. TypeOK /\ MarketTypeOK => TypesOK
  BY DEF TypesOK
<1> QED
  BY <1>1, TypeCorrect, MarketTypeCorrect, PTL

\* The histories of the composition are among them: an orderly one of the store and a quiet one of the market.
LEMMA CommerceIsBoth == CommerceSpec => Spec /\ MarketSpec
<1> DEFINE N == InStore(Next) \/ OnRoad(MarketNext)
<1>1. CommerceInit => Init /\ MarketInit
  BY DEF CommerceInit
<1>2. [N]_all => [Next]_vars /\ [MarketNext]_marketVars
  BY DEF all, InStore, OnRoad, vars, marketVars
<1> QED
  BY <1>1, <1>2, PTL DEF CommerceSpec, Spec, MarketSpec

-----------------------------------------------------------------------------
(* Shipments: what is on the road *)

\* A leg that an instance holds is the row's, unless its village and the row are gone; nobody else
\* holds it, and the way home is empty.
WagonHeld(i, w) == cargo[i][w] # NoLeg =>
  /\ cargo[i][w].claimed
  /\ legs[w] = cargo[i][w] \/ (legs[w] = NoLeg /\ Apart(cargo[i][w]))
  /\ \A j \in Traders : j # i => cargo[j][w] = NoLeg
TargetHeld(i) == delivery[i] # AtRest =>
  /\ delivery[i].leg.claimed /\ delivery[i].leg.kind = "deliver"
  /\ \/ Apart(delivery[i].leg)
     \/ /\ legs[delivery[i].wagon] = delivery[i].leg
        /\ \A j \in Traders : cargo[j][delivery[i].wagon] = NoLeg
  /\ \A j \in Traders : j # i /\ delivery[j] # AtRest => delivery[j].leg.target # delivery[i].leg.target
LegsHeld ==
  /\ \A w \in Wagons : Driven(w) /\ legs[w].kind = "return" => legs[w].load = 0
  /\ \A i \in Traders, w \in Wagons : WagonHeld(i, w)
  /\ \A i \in Traders : TargetHeld(i)

\* Whoever has read a store has read it as it is, or holds a stamp that is older.
Fresh(read, v) == /\ read.stamp <= stores[v].stamp
                  /\ read.stamp = stores[v].stamp => read = stores[v]
Prices(r) == Open(r) /\ shipment[r].step # "asked" /\ shipment[r].home \in standing
StoresRead ==
  /\ \A r \in Shippers : Prices(r) => Fresh(shipment[r].read, shipment[r].home)
  /\ \A i \in Traders : Delivers(i) => Fresh(delivery[i].read, delivery[i].leg.target)

\* What the wagons carry.
Loaded == [w \in Wagons |-> IF Driven(w) THEN legs[w].load ELSE 0]
Stored == [v \in Towns |-> stores[v].amount]
Balanced == SumFunctionOnSet(Stored, Towns) + SumFunctionOnSet(Loaded, Wagons)
            = SumFunctionOnSet(FirstStore, Towns) + books

\* Nothing that the legs depend on changes.
LEMMA LegsSame ==
  ASSUME LegsHeld, UNCHANGED <<legs, cargo, delivery, standing>>
  PROVE  LegsHeld'
BY DEF LegsHeld, WagonHeld, TargetHeld, Driven, Apart

\* Two deliveries are of different rows: those go to the same village.
LEMMA WagonsDiffer ==
  ASSUME LegsHeld, NEW i \in Traders, NEW j \in Traders, i # j, delivery[i] # AtRest, delivery[j] # AtRest,
         ~Apart(delivery[i].leg), ~Apart(delivery[j].leg)
  PROVE  delivery[i].wagon # delivery[j].wagon
BY DEF LegsHeld, TargetHeld

LEMMA SendLegs ==
  ASSUME RoadTyped, LegsHeld, NEW r \in Shippers, NEW w \in Wagons, SendShipment(r, w)
  PROVE  LegsHeld'
<1>1. /\ legs' = [legs EXCEPT ![w] = Sets(r)] /\ Sets(r) \in Leg
      /\ legs[w] = NoLeg /\ \A i \in Traders : cargo[i][w] = NoLeg
      /\ UNCHANGED <<standing, cargo, delivery>>
  BY SendFacts DEF SendShipment
<1>2. Sets(r).kind = "deliver"
  BY DEF Sets
<1>3. \A x \in Wagons : legs'[x] = IF x = w THEN Sets(r) ELSE legs[x]
  BY <1>1 DEF RoadTyped, MarketTypeOK
<1>4. ASSUME NEW x \in Wagons, Driven(x)', legs'[x].kind = "return" PROVE legs'[x].load = 0
  BY <1>2, <1>3, <1>4 DEF LegsHeld, Driven
<1>5. ASSUME NEW i \in Traders, NEW x \in Wagons PROVE WagonHeld(i, x)'
  BY <1>1, <1>3 DEF LegsHeld, WagonHeld, Apart
<1>6. ASSUME NEW i \in Traders PROVE TargetHeld(i)'
  <2>1. SUFFICES ASSUME delivery[i] # AtRest PROVE TargetHeld(i)'
    BY <1>1 DEF TargetHeld
  <2>2. delivery[i].leg # NoLeg /\ delivery[i].wagon \in Wagons
    BY <2>1, DeliveryTyped, NoLegIsNew
  <2> QED
    BY <1>1, <1>3, <2>1, <2>2 DEF LegsHeld, TargetHeld, Apart
<1> QED
  BY <1>4, <1>5, <1>6 DEF LegsHeld

LEMMA ClaimLegsHeld ==
  ASSUME RoadTyped, LegsHeld, NEW i \in Traders, ClaimLegs(i)
  PROVE  LegsHeld'
<1> DEFINE S == {w \in Wagons : legs[w] # NoLeg /\ legs[w].due <= moment /\ ~legs[w].claimed}
           load == [w \in Wagons |-> IF w \in S THEN Claimed(legs[w]) ELSE NoLeg]
<1>1. /\ legs' = [w \in Wagons |-> IF w \in S THEN Claimed(legs[w]) ELSE legs[w]]
      /\ cargo' = [cargo EXCEPT ![i] = load] /\ Emptied(i)
      /\ UNCHANGED <<standing, delivery>>
  BY DEF ClaimLegs
<1>2. \A w \in S : w \in Wagons /\ Driven(w) /\ ~legs[w].claimed /\ legs[w] \in Leg
  BY LegTyped DEF Driven
<1>3. \A w \in S : /\ Claimed(legs[w]) \in Leg /\ Claimed(legs[w]).claimed
                   /\ Claimed(legs[w]).kind = legs[w].kind /\ Claimed(legs[w]).load = legs[w].load
  BY <1>2, ReleasedLeg DEF Claimed
<1>4. \A w \in S, j \in Traders : cargo[j][w] = NoLeg
  BY <1>2 DEF LegsHeld, WagonHeld, Driven
<1>5. \A w \in Wagons : w \notin S => legs'[w] = legs[w]
  BY <1>1
<1>6. \A w \in S : legs'[w] = Claimed(legs[w])
  BY <1>1, <1>2
<1>7. \A w \in Wagons : load[w] = IF w \in S THEN Claimed(legs[w]) ELSE NoLeg
  OBVIOUS
<1> HIDE DEF S, load
<1>8. cargo'[i] = load /\ \A j \in Traders : j # i => cargo'[j] = cargo[j]
  BY <1>1 DEF RoadTyped, MarketTypeOK
<1>9. ASSUME NEW w \in Wagons, Driven(w)', legs'[w].kind = "return" PROVE legs'[w].load = 0
  BY <1>2, <1>3, <1>5, <1>6, <1>9 DEF LegsHeld, Driven
<1>10. ASSUME NEW j \in Traders, NEW w \in Wagons PROVE WagonHeld(j, w)'
  <2>1. CASE w \in S
    BY <1>3, <1>4, <1>6, <1>7, <1>8, <2>1 DEF WagonHeld
  <2>2. CASE w \notin S
    <3>1. legs'[w] = legs[w] /\ load[w] = NoLeg /\ cargo[i][w] = NoLeg
      BY <1>1, <1>5, <1>7, <2>2 DEF Emptied
    <3>2. \A k \in Traders : cargo'[k][w] = cargo[k][w]
      BY <1>8, <3>1
    <3> QED
      BY <1>1, <3>1, <3>2 DEF LegsHeld, WagonHeld, Apart
  <2> QED
    BY <2>1, <2>2
<1>11. ASSUME NEW j \in Traders PROVE TargetHeld(j)'
  <2>1. SUFFICES ASSUME delivery[j] # AtRest PROVE TargetHeld(j)'
    BY <1>1 DEF TargetHeld
  <2> DEFINE w == delivery[j].wagon
  <2>2. w \in Wagons
    BY <2>1, DeliveryTyped
  <2>3. CASE Apart(delivery[j].leg)
    BY <1>1, <2>1, <2>3 DEF LegsHeld, TargetHeld, Apart
  <2>4. CASE ~Apart(delivery[j].leg)
    <3>1. legs[w] = delivery[j].leg /\ legs[w].claimed /\ \A k \in Traders : cargo[k][w] = NoLeg
      BY <2>1, <2>4 DEF LegsHeld, TargetHeld
    <3>2. w \notin S
      BY <1>2, <3>1
    <3>3. legs'[w] = legs[w] /\ \A k \in Traders : cargo'[k][w] = NoLeg
      BY <1>5, <1>7, <1>8, <2>2, <3>1, <3>2
    <3> QED
      BY <1>1, <2>1, <3>1, <3>3 DEF LegsHeld, TargetHeld
  <2> QED
    BY <2>3, <2>4
<1> QED
  BY <1>9, <1>10, <1>11 DEF LegsHeld

LEMMA FreeLegs ==
  ASSUME RoadTyped, LegsHeld, NEW i \in Traders, NEW w \in Wagons, FreeMerchants(i, w)
  PROVE  LegsHeld'
<1>1. /\ legs' = [legs EXCEPT ![w] = IF @ = cargo[i][w] THEN NoLeg ELSE @]
      /\ PutDown(i, w) /\ UNCHANGED <<moment, standing, delivery>>
      /\ cargo[i][w] # NoLeg /\ cargo[i][w].kind = "return"
  BY DEF FreeMerchants, Picks
<1>2. \A x \in Wagons : legs'[x] = IF x = w /\ legs[w] = cargo[i][w] THEN NoLeg ELSE legs[x]
  BY <1>1 DEF RoadTyped, MarketTypeOK
<1>3. \A j \in Traders, x \in Wagons : cargo'[j][x] = IF j = i /\ x = w THEN NoLeg ELSE cargo[j][x]
  BY <1>1, PutDownType
<1>4. ASSUME NEW x \in Wagons, Driven(x)', legs'[x].kind = "return" PROVE legs'[x].load = 0
  BY <1>2, <1>4 DEF LegsHeld, Driven
<1>5. ASSUME NEW j \in Traders, NEW x \in Wagons PROVE WagonHeld(j, x)'
  BY <1>1, <1>2, <1>3 DEF LegsHeld, WagonHeld, Apart
<1>6. ASSUME NEW j \in Traders PROVE TargetHeld(j)'
  <2>1. SUFFICES ASSUME delivery[j] # AtRest PROVE TargetHeld(j)'
    BY <1>1 DEF TargetHeld
  <2>2. delivery[j].wagon \in Wagons
    BY <2>1, DeliveryTyped
  <2> QED
    BY <1>1, <1>2, <1>3, <2>1, <2>2 DEF LegsHeld, TargetHeld, Apart
<1> QED
  BY <1>4, <1>5, <1>6 DEF LegsHeld

LEMMA ReadTargetLegs ==
  ASSUME RoadTyped, LegsHeld, DeliversAlone, NEW i \in Traders, NEW w \in Wagons, ReadTarget(i, w)
  PROVE  LegsHeld'
<1> DEFINE l == cargo[i][w]
           d == [wagon |-> w, leg |-> l, read |-> stores[l.target], reads |-> 1]
<1>1. /\ delivery' = [delivery EXCEPT ![i] = d] /\ l # NoLeg /\ l.kind = "deliver" /\ ~Apart(l)
      /\ PutDown(i, w) /\ UNCHANGED <<moment, standing, legs>>
  BY DEF ReadTarget, Picks
<1>2. d.wagon = w /\ d.leg = l
  OBVIOUS
<1> HIDE DEF d
<1>3. \A j \in Traders : delivery'[j] = IF j = i THEN d ELSE delivery[j]
  BY <1>1 DEF RoadTyped, MarketTypeOK
<1>4. \A j \in Traders, x \in Wagons : cargo'[j][x] = IF j = i /\ x = w THEN NoLeg ELSE cargo[j][x]
  BY <1>1, PutDownType
<1>5. ASSUME NEW j \in Traders, NEW x \in Wagons PROVE WagonHeld(j, x)'
  BY <1>1, <1>4 DEF LegsHeld, WagonHeld, Apart
<1>6. l.claimed /\ legs[w] = l /\ \A j \in Traders : j # i => cargo[j][w] = NoLeg
  BY <1>1 DEF LegsHeld, WagonHeld
<1>7. ASSUME NEW j \in Traders PROVE TargetHeld(j)'
  <2>1. SUFFICES ASSUME delivery'[j] # AtRest PROVE TargetHeld(j)'
    BY DEF TargetHeld
  <2>2. \A k \in Traders : k # j /\ delivery'[k] # AtRest => delivery'[k].leg.target # delivery'[j].leg.target
    BY <2>1 DEF DeliversAlone
  <2>3. CASE j = i
    <3>1. delivery'[j] = d
      BY <1>3, <2>3
    <3> QED
      BY <1>1, <1>2, <1>4, <1>6, <2>1, <2>2, <3>1 DEF TargetHeld
  <2>4. CASE j # i
    <3>1. delivery'[j] = delivery[j] /\ delivery[j].wagon \in Wagons
      BY <1>3, <2>1, <2>4, DeliveryTyped
    <3> QED
      BY <1>1, <1>4, <2>1, <2>2, <3>1 DEF LegsHeld, TargetHeld, Apart
  <2> QED
    BY <2>3, <2>4
<1> QED
  BY <1>1, <1>5, <1>7 DEF LegsHeld, Driven

\* A delivery that goes on is of a row that only it holds.
LEMMA DeliveryHeld ==
  ASSUME RoadTyped, LegsHeld, NEW i \in Traders, Delivers(i)
  PROVE  LET d == delivery[i] IN
         /\ d.wagon \in Wagons /\ d.leg \in Leg /\ d.leg # NoLeg /\ d.leg.due <= moment
         /\ legs[d.wagon] = d.leg /\ \A j \in Traders : cargo[j][d.wagon] = NoLeg
         /\ \A j \in Traders : j # i /\ Delivers(j) => delivery[j].wagon # d.wagon
<1>1. delivery[i] # AtRest /\ ~Apart(delivery[i].leg)
  BY DEF Delivers
<1>2. \A j \in Traders : j # i /\ Delivers(j) => delivery[j].wagon # delivery[i].wagon
  BY <1>1, WagonsDiffer DEF Delivers
<1> QED
  BY <1>1, <1>2, DeliveryTyped, NoLegIsNew DEF LegsHeld, TargetHeld

\* A delivery ends and leaves its row to nobody: on its way home, or released.
LEMMA EndsLegs ==
  ASSUME RoadTyped, LegsHeld, NEW i \in Traders, Delivers(i), GoesOn(i), UNCHANGED <<moment, standing>>,
         NEW k, legs' = [legs EXCEPT ![delivery[i].wagon] = k], k.kind = "return" => k.load = 0
  PROVE  LegsHeld'
<1> DEFINE u == delivery[i].wagon
<1>1. u \in Wagons /\ (\A j \in Traders : cargo[j][u] = NoLeg)
      /\ \A j \in Traders : j # i /\ Delivers(j) => delivery[j].wagon # u
  BY DeliveryHeld
<1>2. cargo' = cargo /\ \A j \in Traders : delivery'[j] = IF j = i THEN AtRest ELSE delivery[j]
  BY GoesOnType
<1>3. \A x \in Wagons : legs'[x] = IF x = u THEN k ELSE legs[x]
  BY DEF RoadTyped, MarketTypeOK
<1> HIDE DEF u
<1>4. ASSUME NEW x \in Wagons, Driven(x)', legs'[x].kind = "return" PROVE legs'[x].load = 0
  BY <1>3, <1>4 DEF LegsHeld, Driven
<1>5. ASSUME NEW j \in Traders, NEW x \in Wagons PROVE WagonHeld(j, x)'
  BY <1>1, <1>2, <1>3 DEF LegsHeld, WagonHeld, Apart
<1>6. ASSUME NEW j \in Traders PROVE TargetHeld(j)'
  <2>1. SUFFICES ASSUME j # i, delivery[j] # AtRest PROVE TargetHeld(j)'
    BY <1>2 DEF TargetHeld
  <2>2. delivery'[j] = delivery[j] /\ delivery[j].wagon \in Wagons
    BY <1>2, <2>1, DeliveryTyped
  <2>3. \A m \in Traders : m # j /\ delivery'[m] # AtRest => delivery'[m].leg.target # delivery'[j].leg.target
    BY <1>2, <2>1, <2>2 DEF LegsHeld, TargetHeld
  <2>4. Apart(delivery[j].leg) \/ delivery[j].wagon # u
    BY <1>1, <2>1 DEF Delivers
  <2> QED
    BY <1>2, <1>3, <2>1, <2>2, <2>3, <2>4 DEF LegsHeld, TargetHeld, Apart
<1> QED
  BY <1>4, <1>5, <1>6 DEF LegsHeld

LEMMA DeliverLegs ==
  ASSUME RoadTyped, LegsHeld, NEW i \in Traders, Deliver(i)
  PROVE  /\ legs' = [legs EXCEPT ![delivery[i].wagon] = Back(delivery[i].leg)]
         /\ LegsHeld'
<1> DEFINE d == delivery[i]
<1>1. Delivers(i) /\ GoesOn(i) /\ WayHome(i, d.leg) /\ UNCHANGED <<moment, standing>>
  BY DEF Deliver
<1>2. d.leg \in Leg /\ d.leg.due <= moment /\ legs[d.wagon] = d.leg
  BY <1>1, DeliveryHeld
<1>3. Back(d.leg).load = 0
  BY <1>2, BackIsLeg
<1>4. legs' = [legs EXCEPT ![d.wagon] = Back(d.leg)]
  BY <1>1, <1>2 DEF WayHome, Back
<1> QED
  BY <1>1, <1>3, <1>4, EndsLegs

LEMMA ReleaseLegs ==
  ASSUME RoadTyped, LegsHeld, NEW i \in Traders, ReleaseLeg(i)
  PROVE  /\ legs' = [legs EXCEPT ![delivery[i].wagon] = [delivery[i].leg EXCEPT !.claimed = FALSE]]
         /\ LegsHeld'
<1> DEFINE d == delivery[i]
           k == [d.leg EXCEPT !.claimed = FALSE]
<1>1. Delivers(i) /\ GoesOn(i) /\ UNCHANGED <<moment, standing>>
  BY DEF ReleaseLeg
<1>2. d.leg \in Leg /\ legs[d.wagon] = d.leg /\ d.wagon \in Wagons
  BY <1>1, DeliveryHeld
<1>3. legs' = [legs EXCEPT ![d.wagon] = k]
  BY <1>2 DEF ReleaseLeg
<1>4. d.leg.kind = "deliver"
  BY <1>1 DEF LegsHeld, TargetHeld, Delivers
<1>5. k.kind = "deliver"
  BY <1>2, <1>4, ReleasedLeg
<1> HIDE DEF k
<1>6. LegsHeld'
  BY <1>1, <1>3, <1>5, EndsLegs
<1> QED
  BY <1>3, <1>6 DEF k

LEMMA ReadAgainLegs ==
  ASSUME RoadTyped, LegsHeld, NEW i \in Traders, ReadAgain(i)
  PROVE  LegsHeld'
<1> DEFINE d == delivery[i]
           x == stores[d.leg.target]
           e == Reread(d, x)
<1>1. d # AtRest /\ UNCHANGED <<standing, legs, cargo>>
  BY DEF ReadAgain, Delivers
<1>2. d \in Delivery /\ x \in Row
  BY <1>1, DeliveryTyped DEF RoadTyped, MarketTypeOK
<1>3. delivery' = [delivery EXCEPT ![i] = e]
  BY <1>2 DEF ReadAgain, RoadTyped, MarketTypeOK, Reread
<1>4. e \in Delivery /\ e.leg = d.leg /\ e.wagon = d.wagon
  BY <1>2, ReadOnce
<1>5. e # AtRest
  BY <1>4, NoLegIsNew
<1> HIDE DEF e
<1>6. \A j \in Traders : /\ delivery'[j] # AtRest <=> delivery[j] # AtRest
                         /\ delivery'[j] # AtRest => /\ delivery'[j].leg = delivery[j].leg
                                                     /\ delivery'[j].wagon = delivery[j].wagon
  BY <1>1, <1>3, <1>4, <1>5 DEF RoadTyped, MarketTypeOK
<1>7. ASSUME NEW j \in Traders PROVE TargetHeld(j)'
  BY <1>1, <1>6 DEF LegsHeld, TargetHeld, Apart
<1> QED
  BY <1>1, <1>7 DEF LegsHeld, WagonHeld, Driven, Apart

LEMMA GiveUpLegs ==
  ASSUME RoadTyped, LegsHeld, NEW i \in Traders, NEW w \in Wagons, GiveUp(i, w)
  PROVE  LegsHeld'
<1>1. UNCHANGED <<moment, standing, legs>>
  BY DEF GiveUp
<1>2. CASE PutDown(i, w) /\ UNCHANGED delivery
  <2>1. \A j \in Traders, x \in Wagons : cargo'[j][x] = IF j = i /\ x = w THEN NoLeg ELSE cargo[j][x]
    BY <1>1, <1>2, PutDownType
  <2>2. ASSUME NEW j \in Traders, NEW x \in Wagons PROVE WagonHeld(j, x)'
    BY <1>1, <2>1 DEF LegsHeld, WagonHeld, Apart
  <2>3. ASSUME NEW j \in Traders PROVE TargetHeld(j)'
    <3>1. SUFFICES ASSUME delivery[j] # AtRest PROVE TargetHeld(j)'
      BY <1>2 DEF TargetHeld
    <3>2. delivery[j].wagon \in Wagons
      BY <3>1, DeliveryTyped
    <3> QED
      BY <1>1, <1>2, <2>1, <3>1, <3>2 DEF LegsHeld, TargetHeld, Apart
  <2> QED
    BY <1>1, <2>2, <2>3 DEF LegsHeld, Driven
<1>3. CASE GoesOn(i)
  <2>1. cargo' = cargo /\ \A j \in Traders : delivery'[j] = IF j = i THEN AtRest ELSE delivery[j]
    BY <1>1, <1>3, GoesOnType
  <2>2. ASSUME NEW j \in Traders PROVE TargetHeld(j)'
    BY <1>1, <2>1 DEF LegsHeld, TargetHeld, Apart
  <2> QED
    BY <1>1, <2>1, <2>2 DEF LegsHeld, Driven, WagonHeld, Apart
<1> QED
  BY <1>2, <1>3 DEF GiveUp

LEMMA AbandonLegs ==
  ASSUME RoadTyped, LegsHeld, NEW v \in Towns, Abandon(v)
  PROVE  LegsHeld'
<1>1. /\ legs' = [w \in Wagons |-> IF w \in Lost(v) THEN NoLeg ELSE legs[w]]
      /\ standing' = standing \ {v} /\ UNCHANGED <<cargo, delivery>>
  BY DEF Abandon, Lost
<1>2. \A w \in Wagons : \/ w \notin Lost(v) /\ legs'[w] = legs[w]
                        \/ Driven(w) /\ v \in {legs[w].home, legs[w].target} /\ legs'[w] = NoLeg
  BY <1>1 DEF Lost, Driven
<1>3. ASSUME NEW w \in Wagons, Driven(w)', legs'[w].kind = "return" PROVE legs'[w].load = 0
  BY <1>2, <1>3 DEF LegsHeld, Driven
<1>4. ASSUME NEW i \in Traders, NEW w \in Wagons PROVE WagonHeld(i, w)'
  BY <1>1, <1>2 DEF LegsHeld, WagonHeld, Apart, Driven
<1>5. ASSUME NEW i \in Traders PROVE TargetHeld(i)'
  <2>1. SUFFICES ASSUME delivery[i] # AtRest PROVE TargetHeld(i)'
    BY <1>1 DEF TargetHeld
  <2>2. delivery[i].wagon \in Wagons
    BY <2>1, DeliveryTyped
  <2> QED
    BY <1>1, <1>2, <2>1, <2>2 DEF LegsHeld, TargetHeld, Apart
<1> QED
  BY <1>3, <1>4, <1>5 DEF LegsHeld

LEMMA StopLegs ==
  ASSUME RoadTyped, LegsHeld, NEW i \in Traders, Stop(i)
  PROVE  LegsHeld'
<1> DEFINE none == [w \in Wagons |-> NoLeg]
<1>1. /\ delivery' = [delivery EXCEPT ![i] = AtRest] /\ cargo' = [cargo EXCEPT ![i] = none]
      /\ UNCHANGED <<standing, legs>>
  BY DEF Stop
<1>2. \A w \in Wagons : none[w] = NoLeg
  OBVIOUS
<1> HIDE DEF none
<1>3. cargo'[i] = none /\ \A j \in Traders : j # i => cargo'[j] = cargo[j]
  BY <1>1 DEF RoadTyped, MarketTypeOK
<1>4. \A j \in Traders, w \in Wagons : cargo'[j][w] = IF j = i THEN NoLeg ELSE cargo[j][w]
  BY <1>2, <1>3
<1>5. \A j \in Traders : delivery'[j] = IF j = i THEN AtRest ELSE delivery[j]
  BY <1>1 DEF RoadTyped, MarketTypeOK
<1>6. ASSUME NEW j \in Traders, NEW w \in Wagons PROVE WagonHeld(j, w)'
  BY <1>1, <1>4 DEF LegsHeld, WagonHeld, Apart
<1>7. ASSUME NEW j \in Traders PROVE TargetHeld(j)'
  <2>1. SUFFICES ASSUME j # i, delivery[j] # AtRest PROVE TargetHeld(j)'
    BY <1>5 DEF TargetHeld
  <2>2. delivery[j].wagon \in Wagons
    BY <2>1, DeliveryTyped
  <2> QED
    BY <1>1, <1>4, <1>5, <2>1, <2>2 DEF LegsHeld, TargetHeld, Apart
<1> QED
  BY <1>1, <1>6, <1>7 DEF LegsHeld, Driven

\* Nobody holds anything when an instance starts.
LEMMA StartLegs ==
  ASSUME RoadTyped, LegsHeld, StartsAlone, NEW i \in Traders, Start(i)
  PROVE  LegsHeld'
<1>1. /\ legs' = [w \in Wagons |-> IF legs[w] = NoLeg THEN NoLeg ELSE [legs[w] EXCEPT !.claimed = FALSE]]
      /\ running' \ running # {} /\ UNCHANGED <<cargo, delivery>>
  BY DEF Start
<1>2. \A j \in Traders : delivery'[j] = AtRest /\ \A w \in Wagons : cargo'[j][w] = NoLeg
  BY <1>1 DEF StartsAlone, Emptied
<1>3. ASSUME NEW w \in Wagons, Driven(w)', legs'[w].kind = "return" PROVE legs'[w].load = 0
  <2>1. Driven(w) /\ legs'[w] = [legs[w] EXCEPT !.claimed = FALSE]
    BY <1>1, <1>3 DEF Driven
  <2>2. legs'[w].kind = legs[w].kind /\ legs'[w].load = legs[w].load
    BY <2>1, LegTyped, ReleasedLeg
  <2> QED
    BY <1>3, <2>1, <2>2 DEF LegsHeld
<1> QED
  BY <1>2, <1>3 DEF LegsHeld, WagonHeld, TargetHeld

LEMMA LegsInit == MarketInit => LegsHeld
BY DEF MarketInit, LegsHeld, WagonHeld, TargetHeld, Driven

LEMMA LegsStep == RoadTyped /\ LegsHeld /\ [MarketNext /\ MarketQuiet]_marketVars => LegsHeld'
<1> SUFFICES ASSUME RoadTyped, LegsHeld, [MarketNext /\ MarketQuiet]_marketVars PROVE LegsHeld'
  OBVIOUS
<1>1. CASE UNCHANGED marketVars
  BY <1>1, LegsSame DEF marketVars
<1>2. CASE MarketNext /\ MarketQuiet
  <2>1. DeliversAlone /\ StartsAlone
    BY <1>2 DEF MarketQuiet
  <2>2. CASE Shipping
    BY <2>2, LegsSame DEF Shipping, AskShipment, PriceShipment, CountMerchants
  <2>3. CASE Answering
    <3>1. ASSUME NEW r \in Shippers, EndShipment(r) PROVE LegsHeld'
      BY <3>1, LegsSame DEF EndShipment
    <3> QED
      BY <2>3, <3>1, SendLegs, SpareIsWagon DEF Answering
  <2>4. CASE Elsewhere
    <3>1. ASSUME NEW v \in Towns, Charge(v) \/ \E l \in Levels : Rebuild(v, l) PROVE LegsHeld'
      BY <3>1, LegsSame DEF Charge, Rebuild
    <3> QED
      BY <2>4, <3>1, AbandonLegs DEF Elsewhere
  <2>5. CASE Passes
    BY <2>5, LegsSame DEF Passes
  <2>6. ASSUME NEW i \in Traders, Hauls(i) PROVE LegsHeld'
    BY <2>1, <2>6, ClaimLegsHeld, DeliverLegs, ReadAgainLegs, ReleaseLegs, FreeLegs, ReadTargetLegs, GiveUpLegs
    DEF Hauls
  <2>7. ASSUME NEW i \in Traders, Stop(i) \/ Start(i) PROVE LegsHeld'
    BY <2>1, <2>7, StopLegs, StartLegs
  <2> QED
    BY <1>2, <2>2, <2>3, <2>4, <2>5, <2>6, <2>7 DEF MarketNext
<1> QED
  BY <1>1, <1>2

\* A step keeps or renews what was read.
PriceKept(r) == Prices(r)' =>
  \/ Prices(r) /\ shipment'[r].read = shipment[r].read /\ shipment'[r].home = shipment[r].home
  \/ stores' = stores /\ shipment'[r].read = stores[shipment'[r].home]
TargetKept(i) == Delivers(i)' =>
  \/ Delivers(i) /\ delivery'[i].read = delivery[i].read /\ delivery'[i].leg = delivery[i].leg
  \/ stores' = stores /\ delivery'[i].read = stores[delivery'[i].leg.target]

LEMMA PricesRead ==
  ASSUME RoadTyped, NEW r \in Shippers, Prices(r)
  PROVE  Reading(shipment[r].home) /\ shipment[r].home \in Towns /\ shipment[r].read \in Row
<1>1. shipment[r] \in Shipment
  BY RequestTyped DEF Prices
<1>2. shipment[r].step \in {"priced", "counted"}
  BY <1>1 DEF Prices, Shipment
<1> QED
  BY <1>2, RequestTyped DEF Prices, Reading, Stands, Open

LEMMA DeliversRead ==
  ASSUME RoadTyped, NEW i \in Traders, Delivers(i)
  PROVE  /\ Reading(delivery[i].leg.target) /\ delivery[i].leg.target \in Towns
         /\ delivery[i].leg.target \in standing /\ delivery[i].read \in Row
BY DeliveryTyped DEF Delivers, Reading, Apart

LEMMA FreshStays ==
  ASSUME RoadTyped, RoadTyped', DatedLater, NEW v \in Towns, Reading(v), Reading(v)', v \in standing',
         NEW x \in Row, Fresh(x, v)
  PROVE  Fresh(x, v)'
<1>1. stores'[v] = stores[v] \/ stores'[v].stamp > stores[v].stamp
  BY DEF DatedLater
<1>2. stores[v].stamp \in Nat /\ stores'[v].stamp \in Nat /\ x.stamp \in Nat
  BY DEF RoadTyped, MarketTypeOK, Row
<1> QED
  BY <1>1, <1>2 DEF Fresh

LEMMA ReadsStay ==
  ASSUME RoadTyped, RoadTyped', StoresRead, DatedLater,
         \A r \in Shippers : PriceKept(r), \A i \in Traders : TargetKept(i)
  PROVE  StoresRead'
<1>1. \A v \in Towns : stores[v].stamp \in Nat
  BY DEF RoadTyped, MarketTypeOK, Row
<1>2. ASSUME NEW r \in Shippers, Prices(r)' PROVE Fresh(shipment[r].read, shipment[r].home)'
  <2>1. shipment'[r] \in Shipment
    BY <1>2 DEF Prices, Open, RoadTyped, MarketTypeOK
  <2>2. shipment'[r].home \in Towns /\ shipment'[r].read \in Row /\ shipment'[r].step \in {"priced", "counted"}
    BY <1>2, <2>1 DEF Prices, Shipment
  <2>3. SUFFICES ASSUME NEW v \in Towns, v = shipment'[r].home, NEW x \in Row, x = shipment'[r].read
                 PROVE  Fresh(x, v)'
    BY <2>2 DEF Fresh
  <2>4. Reading(v)' /\ v \in standing'
    BY <1>2, <2>2, <2>3 DEF Prices, Reading, Stands, Open
  <2>5. CASE stores' = stores /\ x = stores[v]
    BY <1>1, <2>5 DEF Fresh
  <2>6. CASE Prices(r) /\ x = shipment[r].read /\ v = shipment[r].home
    <3>1. Reading(v) /\ Fresh(x, v)
      BY <2>6, PricesRead DEF StoresRead
    <3> QED
      BY <2>4, <3>1, FreshStays
  <2> QED
    BY <1>2, <2>3, <2>5, <2>6 DEF PriceKept
<1>3. ASSUME NEW i \in Traders, Delivers(i)' PROVE Fresh(delivery[i].read, delivery[i].leg.target)'
  <2>1. delivery'[i] \in Delivery
    BY <1>3 DEF Delivers, RoadTyped, MarketTypeOK
  <2>2. delivery'[i].leg.target \in Towns /\ delivery'[i].read \in Row
    BY <2>1 DEF Delivery, Leg
  <2>3. SUFFICES ASSUME NEW v \in Towns, v = delivery'[i].leg.target, NEW x \in Row, x = delivery'[i].read
                 PROVE  Fresh(x, v)'
    BY <2>2 DEF Fresh
  <2>4. Reading(v)' /\ v \in standing'
    BY <1>3, <2>3 DEF Delivers, Reading, Apart
  <2>5. CASE stores' = stores /\ x = stores[v]
    BY <1>1, <2>5 DEF Fresh
  <2>6. CASE Delivers(i) /\ x = delivery[i].read /\ v = delivery[i].leg.target
    <3>1. Reading(v) /\ Fresh(x, v)
      BY <2>6, DeliversRead DEF StoresRead
    <3> QED
      BY <2>4, <3>1, FreshStays
  <2> QED
    BY <1>3, <2>3, <2>5, <2>6 DEF TargetKept
<1> QED
  BY <1>2, <1>3 DEF StoresRead

LEMMA PricesStay ==
  ASSUME shipment' = shipment, standing' \subseteq standing
  PROVE  \A r \in Shippers : PriceKept(r)
BY DEF PriceKept, Prices, Open

LEMMA TargetsStay ==
  ASSUME standing' \subseteq standing, \A i \in Traders : delivery'[i] \in {delivery[i], AtRest}
  PROVE  \A i \in Traders : TargetKept(i)
BY DEF TargetKept, Delivers, Apart

LEMMA RequestsKeep ==
  ASSUME RoadTyped, standing' = standing,
         NEW r \in Shippers, NEW s, shipment' = [shipment EXCEPT ![r] = s],
         \/ s = Served \/ s.step = "asked"
         \/ Prices(r) /\ s.read = shipment[r].read /\ s.home = shipment[r].home
         \/ stores' = stores /\ s.read = stores[s.home]
  PROVE  \A q \in Shippers : PriceKept(q)
<1> SUFFICES ASSUME NEW q \in Shippers, Prices(q)' PROVE PriceKept(q)
  BY DEF PriceKept
<1>1. CASE q # r
  BY <1>1 DEF PriceKept, Prices, Open, RoadTyped, MarketTypeOK
<1>2. CASE q = r
  <2>1. shipment'[q] = s
    BY <1>2 DEF RoadTyped, MarketTypeOK
  <2> QED
    BY <1>2, <2>1 DEF PriceKept, Prices, Open
<1> QED
  BY <1>1, <1>2

LEMMA ShippingReads ==
  ASSUME RoadTyped, Shipping
  PROVE  (\A r \in Shippers : PriceKept(r)) /\ (\A i \in Traders : TargetKept(i))
<1>1. UNCHANGED <<stores, standing, delivery>>
  BY DEF Shipping, AskShipment, PriceShipment, CountMerchants
<1>2. \A i \in Traders : TargetKept(i)
  BY <1>1, TargetsStay
<1>3. ASSUME NEW r \in Shippers, NEW h \in Towns, NEW t \in Towns, NEW n \in Loads, AskShipment(r, h, t, n)
      PROVE  \A q \in Shippers : PriceKept(q)
  <2> DEFINE s == [step |-> "asked", home |-> h, target |-> t, load |-> n, now |-> moment, level |-> market[h],
                   read |-> [amount |-> 0, stamp |-> 0]]
  <2>1. shipment' = [shipment EXCEPT ![r] = s] /\ s.step = "asked"
    BY <1>3 DEF AskShipment
  <2> HIDE DEF s
  <2> QED
    BY <1>1, <2>1, RequestsKeep
<1>4. ASSUME NEW r \in Shippers, PriceShipment(r) PROVE \A q \in Shippers : PriceKept(q)
  <2> DEFINE s == [shipment[r] EXCEPT !.step = "priced", !.read = stores[shipment[r].home]]
  <2>1. shipment[r] \in Shipment
    BY <1>4, RequestTyped DEF PriceShipment, Stands, Open
  <2>2. shipment' = [shipment EXCEPT ![r] = s]
    BY <1>4, <2>1 DEF PriceShipment, RoadTyped, MarketTypeOK
  <2>3. s.home = shipment[r].home /\ s.read = stores[shipment[r].home]
    BY <2>1 DEF Shipment
  <2> HIDE DEF s
  <2>4. stores' = stores /\ s.read = stores[s.home]
    BY <1>1, <2>3
  <2> QED
    BY <1>1, <2>2, <2>4, RequestsKeep
<1>5. ASSUME NEW r \in Shippers, CountMerchants(r) PROVE \A q \in Shippers : PriceKept(q)
  <2> DEFINE s == [shipment[r] EXCEPT !.step = "counted"]
  <2>1. shipment[r] \in Shipment /\ Prices(r)
    BY <1>5, RequestTyped DEF CountMerchants, Stands, Open, Prices
  <2>2. shipment' = [shipment EXCEPT ![r] = s]
    BY <1>5, <2>1 DEF CountMerchants, RoadTyped, MarketTypeOK
  <2>3. s.home = shipment[r].home /\ s.read = shipment[r].read
    BY <2>1 DEF Shipment
  <2> HIDE DEF s
  <2> QED
    BY <1>1, <2>1, <2>2, <2>3, RequestsKeep
<1> QED
  BY <1>2, <1>3, <1>4, <1>5 DEF Shipping

LEMMA AnsweringReads ==
  ASSUME RoadTyped, Answering
  PROVE  (\A r \in Shippers : PriceKept(r)) /\ (\A i \in Traders : TargetKept(i))
<1>1. PICK r \in Shippers : EndShipment(r) \/ SendShipment(r, Spare)
  BY DEF Answering
<1>2. standing' = standing /\ delivery' = delivery /\ shipment' = [shipment EXCEPT ![r] = Served]
  BY <1>1 DEF EndShipment, SendShipment
<1> QED
  BY <1>2, RequestsKeep, TargetsStay

LEMMA HaulsReads ==
  ASSUME RoadTyped, NEW i \in Traders, Hauls(i)
  PROVE  (\A r \in Shippers : PriceKept(r)) /\ (\A j \in Traders : TargetKept(j))
<1>1. shipment' = shipment /\ standing' = standing /\ moment' = moment
  BY DEF Hauls, ClaimLegs, Deliver, ReadAgain, ReleaseLeg, FreeMerchants, ReadTarget, GiveUp
<1>2. \A r \in Shippers : PriceKept(r)
  BY <1>1, PricesStay
<1>3. CASE delivery' = delivery \/ GoesOn(i)
  BY <1>1, <1>2, <1>3, GoesOnType, TargetsStay
<1>4. ASSUME NEW w \in Wagons, ReadTarget(i, w) PROVE \A j \in Traders : TargetKept(j)
  <2> DEFINE l == cargo[i][w]
             d == [wagon |-> w, leg |-> l, read |-> stores[l.target], reads |-> 1]
  <2>1. delivery' = [delivery EXCEPT ![i] = d] /\ stores' = stores
    BY <1>4 DEF ReadTarget
  <2>2. d.read = stores[d.leg.target]
    OBVIOUS
  <2> HIDE DEF d
  <2>3. \A j \in Traders : delivery'[j] = IF j = i THEN d ELSE delivery[j]
    BY <2>1 DEF RoadTyped, MarketTypeOK
  <2> QED
    BY <1>1, <2>1, <2>2, <2>3 DEF TargetKept, Delivers, Apart
<1>5. CASE ReadAgain(i)
  <2> DEFINE d == delivery[i]
             x == stores[d.leg.target]
             e == Reread(d, x)
  <2>1. d # AtRest /\ stores' = stores
    BY <1>5 DEF ReadAgain, Delivers
  <2>2. d \in Delivery /\ x \in Row
    BY <2>1, DeliveryTyped DEF RoadTyped, MarketTypeOK
  <2>3. delivery' = [delivery EXCEPT ![i] = e]
    BY <1>5, <2>2 DEF ReadAgain, RoadTyped, MarketTypeOK, Reread
  <2>4. e.leg = d.leg /\ e.read = x
    BY <2>2, ReadOnce
  <2> HIDE DEF e
  <2>5. \A j \in Traders : delivery'[j] = IF j = i THEN e ELSE delivery[j]
    BY <2>3 DEF RoadTyped, MarketTypeOK
  <2> QED
    BY <1>1, <1>2, <2>1, <2>4, <2>5 DEF TargetKept, Delivers, Apart
<1> QED
  BY <1>2, <1>3, <1>4, <1>5 DEF Hauls, ClaimLegs, Deliver, ReleaseLeg, FreeMerchants, GiveUp

LEMMA ReadsInit == MarketInit => StoresRead
BY DEF MarketInit, StoresRead, Prices, Open, Delivers

LEMMA ReadsStep ==
  RoadTyped /\ RoadTyped' /\ StoresRead /\ [MarketNext /\ MarketQuiet]_marketVars => StoresRead'
<1> SUFFICES ASSUME RoadTyped, RoadTyped', StoresRead, [MarketNext /\ MarketQuiet]_marketVars PROVE StoresRead'
  OBVIOUS
<1>1. CASE UNCHANGED marketVars
  BY <1>1 DEF marketVars, StoresRead, Fresh, Prices, Open, Delivers, Apart
<1>2. CASE MarketNext /\ MarketQuiet
  <2>1. DatedLater
    BY <1>2 DEF MarketQuiet
  <2> SUFFICES (\A r \in Shippers : PriceKept(r)) /\ (\A i \in Traders : TargetKept(i))
    BY <2>1, ReadsStay
  <2>2. CASE Elsewhere \/ Passes
    <3>1. shipment' = shipment /\ delivery' = delivery /\ standing' \subseteq standing
      BY <2>2 DEF Elsewhere, Charge, Abandon, Rebuild, Passes
    <3> QED
      BY <3>1, PricesStay, TargetsStay
  <2>3. ASSUME NEW i \in Traders, Stop(i) \/ Start(i)
        PROVE  (\A r \in Shippers : PriceKept(r)) /\ (\A j \in Traders : TargetKept(j))
    <3>1. /\ shipment' = shipment /\ standing' = standing
          /\ \A j \in Traders : delivery'[j] \in {delivery[j], AtRest}
      BY <2>3 DEF Stop, Start, RoadTyped, MarketTypeOK
    <3> QED
      BY <3>1, PricesStay, TargetsStay
  <2> QED
    BY <1>2, <2>2, <2>3, ShippingReads, AnsweringReads, HaulsReads DEF MarketNext
<1> QED
  BY <1>1, <1>2

-----------------------------------------------------------------------------
(* Shipments: the books *)

LEMMA BookFacts ==
  ASSUME RoadTyped
  PROVE  /\ IsFiniteSet(Towns) /\ IsFiniteSet(Wagons)
         /\ \A v \in Towns : Stored[v] = stores[v].amount /\ Stored[v] \in Nat
         /\ \A w \in Wagons : Loaded[w] \in Nat
         /\ \A w \in Wagons : Driven(w) => Loaded[w] = legs[w].load
         /\ \A w \in Wagons : ~Driven(w) => Loaded[w] = 0
         /\ \A v \in Towns : FirstStore[v] \in Nat
         /\ SumFunctionOnSet(Stored, Towns) \in Int /\ SumFunctionOnSet(Loaded, Wagons) \in Int
         /\ SumFunctionOnSet(FirstStore, Towns) \in Int /\ books \in Int
<1>1. IsFiniteSet(Towns) /\ IsFiniteSet(Wagons) /\ \A v \in Towns : FirstStore[v] \in Nat
  BY MarketAssumption, RoadConstants
<1>2. \A v \in Towns : Stored[v] = stores[v].amount /\ Stored[v] \in Nat
  BY RoadConstants DEF Stored, RoadTyped, MarketTypeOK, Row
<1>3. \A w \in Wagons : Driven(w) => legs[w].load \in Nat
  BY LegTyped DEF Leg
<1>4. /\ \A w \in Wagons : Driven(w) => Loaded[w] = legs[w].load
      /\ \A w \in Wagons : ~Driven(w) => Loaded[w] = 0
  BY DEF Loaded
<1>5. \A w \in Wagons : Loaded[w] \in Nat
  BY <1>3, <1>4
<1>6. (\A v \in Towns : Stored[v] \in Int /\ FirstStore[v] \in Int) /\ \A w \in Wagons : Loaded[w] \in Int
  BY <1>1, <1>2, <1>5
<1>7. SumFunctionOnSet(Stored, Towns) \in Int /\ SumFunctionOnSet(FirstStore, Towns) \in Int
  BY <1>1, <1>6, SumInt
<1>8. SumFunctionOnSet(Loaded, Wagons) \in Int
  BY <1>1, <1>6, SumInt
<1> QED
  BY <1>1, <1>2, <1>4, <1>5, <1>7, <1>8 DEF RoadTyped, MarketTypeOK

\* The same sums, over all rows.
LEMMA BalancedIsAccounted ==
  ASSUME RoadTyped
  PROVE  GoodsAccounted <=> Balanced
<1> DEFINE P == {x \in Wagons : legs[x] # NoLeg}
           f == [w \in P |-> legs[w].load]
<1>1. SumFunction([v \in Towns |-> stores[v].amount]) = SumFunctionOnSet(Stored, Towns)
  BY DEF SumFunction, Stored
<1>2. SumFunction(FirstStore) = SumFunctionOnSet(FirstStore, Towns)
  BY MarketAssumption DEF SumFunction
<1>3. SumFunction(f) = SumFunctionOnSet(Loaded, Wagons)
  <2>1. DOMAIN f = P /\ P \in SUBSET Wagons
    OBVIOUS
  <2>2. \A w \in P : f[w] = Loaded[w] /\ f[w] \in Int
    BY BookFacts DEF Driven
  <2>3. \A w \in Wagons : Loaded[w] = IF w \in P THEN f[w] ELSE 0
    BY <2>2, BookFacts DEF Driven
  <2>4. \A w \in P : f[w] \in Int
    BY <2>2
  <2> HIDE DEF P, f
  <2>5. SumFunctionOnSet(f, P) = SumFunctionOnSet(Loaded, Wagons)
    BY <2>1, <2>3, <2>4, BookFacts, SumWithin
  <2> QED
    BY <2>1, <2>5 DEF SumFunction
<1> HIDE DEF P, f
<1>4. GoodsAccounted <=> SumFunctionOnSet(Stored, Towns) + SumFunction(f) = SumFunctionOnSet(FirstStore, Towns) + books
  BY <1>1, <1>2 DEF GoodsAccounted, P, f
<1> QED
  BY <1>3, <1>4 DEF Balanced

LEMMA StoredNext == ASSUME stores' \in [Towns -> Row] PROVE \A v \in Towns : Stored'[v] = stores'[v].amount
BY DEF Stored
LEMMA LoadedNext ==
  \A w \in Wagons : Loaded'[w] = IF legs'[w] = NoLeg THEN 0 ELSE legs'[w].load
BY DEF Loaded, Driven
LEMMA BalancedNext ==
  Balanced' <=> SumFunctionOnSet(Stored', Towns) + SumFunctionOnSet(Loaded', Wagons)
                = SumFunctionOnSet(FirstStore, Towns) + books'
BY DEF Balanced

LEMMA StoreChanges ==
  ASSUME RoadTyped, NEW v \in Towns, NEW x \in Row, stores' = [stores EXCEPT ![v] = x]
  PROVE  SumFunctionOnSet(Stored', Towns) = SumFunctionOnSet(Stored, Towns) + x.amount - stores[v].amount
<1>1. stores' \in [Towns -> Row] /\ stores'[v] = x /\ \A u \in Towns \ {v} : stores'[u] = stores[u]
  BY DEF RoadTyped, MarketTypeOK
<1>2. x.amount \in Int
  BY RoadConstants DEF Row
<1>3. Stored'[v] = x.amount /\ (\A u \in Towns \ {v} : Stored'[u] = Stored[u]) /\ Stored[v] = stores[v].amount
  BY <1>1, StoredNext, BookFacts
<1>4. IsFiniteSet(Towns) /\ \A u \in Towns : Stored[u] \in Int
  BY BookFacts
<1> DEFINE f == Stored
           g == Stored'
<1> HIDE DEF f, g
<1>5. SumFunctionOnSet(g, Towns) = SumFunctionOnSet(f, Towns) + g[v] - f[v]
  <2>1. g[v] \in Int
    BY <1>2, <1>3 DEF g
  <2>2. \A u \in Towns \ {v} : g[u] = f[u]
    BY <1>3 DEF f, g
  <2>3. \A u \in Towns : f[u] \in Int
    BY <1>4 DEF f
  <2>4. IsFiniteSet(Towns)
    BY <1>4
  <2> QED
    BY <2>1, <2>2, <2>3, <2>4, SumChange
<1> QED
  BY <1>3, <1>5 DEF f, g

LEMMA StoresKeep ==
  ASSUME RoadTyped, stores' = stores
  PROVE  SumFunctionOnSet(Stored', Towns) = SumFunctionOnSet(Stored, Towns)
BY DEF Stored

LEMMA LoadChanges ==
  ASSUME RoadTyped, NEW w \in Wagons, NEW k \in Leg, legs' = [legs EXCEPT ![w] = k]
  PROVE  SumFunctionOnSet(Loaded', Wagons) = SumFunctionOnSet(Loaded, Wagons) + k.load - Loaded[w]
<1>1. legs'[w] = k /\ \A x \in Wagons \ {w} : legs'[x] = legs[x]
  BY DEF RoadTyped, MarketTypeOK
<1>2. k # NoLeg /\ k.load \in Int
  BY NoLegIsNew DEF Leg
<1>3. IsFiniteSet(Wagons) /\ \A x \in Wagons : Loaded[x] \in Int
  BY BookFacts
<1>4. Loaded'[w] = k.load /\ \A x \in Wagons \ {w} : Loaded'[x] = Loaded[x]
  BY <1>1, <1>2, LoadedNext, BookFacts DEF Driven
<1> DEFINE f == Loaded
           g == Loaded'
<1> HIDE DEF f, g
<1>5. SumFunctionOnSet(g, Wagons) = SumFunctionOnSet(f, Wagons) + g[w] - f[w]
  <2>1. g[w] \in Int
    BY <1>2, <1>4 DEF g
  <2>2. \A x \in Wagons \ {w} : g[x] = f[x]
    BY <1>4 DEF f, g
  <2>3. \A x \in Wagons : f[x] \in Int
    BY <1>3 DEF f
  <2>4. IsFiniteSet(Wagons)
    BY <1>3
  <2> QED
    BY <2>1, <2>2, <2>3, <2>4, SumChange
<1> QED
  BY <1>4, <1>5 DEF f, g

LEMMA LoadsKeep ==
  ASSUME RoadTyped,
         \A w \in Wagons : \/ legs'[w] = legs[w]
                           \/ legs'[w] = NoLeg /\ Loaded[w] = 0
                           \/ legs'[w] # NoLeg /\ Driven(w) /\ legs'[w].load = legs[w].load
  PROVE  SumFunctionOnSet(Loaded', Wagons) = SumFunctionOnSet(Loaded, Wagons)
<1>1. \A w \in Wagons : Loaded'[w] = Loaded[w]
  BY LoadedNext, BookFacts DEF Driven
<1>2. IsFiniteSet(Wagons)
  BY BookFacts
<1> DEFINE f == Loaded
           g == Loaded'
<1> HIDE DEF f, g
<1>3. SumFunctionOnSet(g, Wagons) = SumFunctionOnSet(f, Wagons)
  <2>1. \A w \in Wagons : g[w] = f[w]
    BY <1>1 DEF f, g
  <2> QED
    BY <1>2, <2>1, SumSame
<1> QED
  BY <1>3 DEF f, g

\* Whoever writes under the stamp that was read writes over what was read.
LEMMA SendBooks ==
  ASSUME RoadTyped, StoresRead, Balanced, NEW r \in Shippers, NEW w \in Wagons, SendShipment(r, w)
  PROVE  Balanced'
<1> DEFINE s == shipment[r]
           settled == Settle(s.read, s.now)
           x == [amount |-> settled - s.load, stamp |-> s.now]
<1>1. /\ s.home \in Towns /\ settled \in 0 .. Capacity /\ settled - s.load \in 0 .. Capacity
      /\ s.now \in Nat /\ s.load \in Nat \ {0} /\ Sets(r) \in Leg
      /\ stores' = [stores EXCEPT ![s.home] = x] /\ legs' = [legs EXCEPT ![w] = Sets(r)]
      /\ books' = books + settled - s.read.amount /\ legs[w] = NoLeg
      /\ Open(r) /\ s.step = "counted" /\ s.home \in standing
  BY SendFacts
<1>2. stores[s.home].stamp = s.read.stamp
  BY DEF SendShipment
<1>3. s.read = stores[s.home]
  BY <1>1, <1>2 DEF StoresRead, Fresh, Prices
<1>4. x \in Row /\ x.amount = settled - s.load
  BY <1>1 DEF Row
<1>5. Sets(r).load = s.load
  BY DEF Sets
<1>6. Loaded[w] = 0
  BY <1>1, BookFacts DEF Driven
<1>7. Stored[s.home] = stores[s.home].amount /\ Stored[s.home] \in Nat
  BY <1>1, BookFacts
<1> HIDE DEF x, settled
<1>8. SumFunctionOnSet(Stored', Towns) = SumFunctionOnSet(Stored, Towns) + x.amount - stores[s.home].amount
  BY <1>1, <1>4, StoreChanges
<1>9. SumFunctionOnSet(Loaded', Wagons) = SumFunctionOnSet(Loaded, Wagons) + s.load
  <2>1. SumFunctionOnSet(Loaded', Wagons) = SumFunctionOnSet(Loaded, Wagons) + Sets(r).load - Loaded[w]
    BY <1>1, LoadChanges
  <2> QED
    BY <1>1, <1>5, <1>6, <2>1, BookFacts
<1>10. settled \in Int /\ s.load \in Int /\ x.amount = settled - s.load /\ stores[s.home].amount \in Int
       /\ books' = books + settled - stores[s.home].amount
  BY <1>1, <1>3, <1>4, <1>7, RoadConstants
<1>11. /\ SumFunctionOnSet(Stored, Towns) \in Int /\ SumFunctionOnSet(Loaded, Wagons) \in Int
       /\ SumFunctionOnSet(FirstStore, Towns) \in Int /\ books \in Int
  BY BookFacts
<1> HIDE DEF s
<1> QED
  BY <1>8, <1>9, <1>10, <1>11, BalancedNext DEF Balanced

LEMMA DeliverBooks ==
  ASSUME RoadTyped, LegsHeld, StoresRead, Balanced, NEW i \in Traders, Deliver(i)
  PROVE  Balanced'
<1> DEFINE d == delivery[i]
           l == d.leg
           filled == DepositCapped(Settle(d.read, CreditClock(d)), l.load)
           x == [amount |-> filled, stamp |-> CreditClock(d)]
<1>1. /\ Delivers(i) /\ stores[l.target].stamp = d.read.stamp
      /\ stores' = [stores EXCEPT ![l.target] = x]
      /\ books' = books + filled - d.read.amount - l.load
  BY DEF Deliver, Matches
<1>2. d # AtRest /\ l.target \in Towns
  BY <1>1, DeliveryTyped DEF Delivers
<1>3. d.read = stores[l.target]
  BY <1>1 DEF StoresRead, Fresh
<1>4. CreditClock(d) \in Nat /\ filled \in 0 .. Capacity
  BY <1>2, CreditTyped
<1>5. x \in Row /\ x.amount = filled
  BY <1>4 DEF Row
<1>6. /\ legs' = [legs EXCEPT ![d.wagon] = Back(l)] /\ d.wagon \in Wagons /\ Back(l) \in Leg
      /\ Back(l).load = 0 /\ legs[d.wagon] = l /\ l # NoLeg /\ l.load \in Nat
  BY <1>1, <1>2, DeliverLegs, DeliveryHeld, BackIsLeg, DeliveryTyped
<1>7. Loaded[d.wagon] = l.load
  BY <1>6, BookFacts DEF Driven
<1>8. Stored[l.target] = stores[l.target].amount /\ Stored[l.target] \in Nat
  BY <1>2, BookFacts
<1> HIDE DEF x, filled
<1>9. SumFunctionOnSet(Stored', Towns) = SumFunctionOnSet(Stored, Towns) + x.amount - stores[l.target].amount
  BY <1>1, <1>2, <1>5, StoreChanges
<1>10. SumFunctionOnSet(Loaded', Wagons) = SumFunctionOnSet(Loaded, Wagons) + Back(l).load - Loaded[d.wagon]
  BY <1>6, LoadChanges
<1>11. /\ SumFunctionOnSet(Loaded', Wagons) = SumFunctionOnSet(Loaded, Wagons) - l.load
       /\ l.load \in Int /\ filled \in Int /\ stores[l.target].amount \in Int
       /\ books' = books + filled - stores[l.target].amount - l.load
  BY <1>1, <1>3, <1>4, <1>6, <1>7, <1>8, <1>10, BookFacts, RoadConstants
<1> QED
  BY <1>5, <1>9, <1>11, BookFacts, BalancedNext DEF Balanced

LEMMA ChargeBooks ==
  ASSUME RoadTyped, Balanced, NEW v \in Towns, Charge(v)
  PROVE  Balanced'
<1> DEFINE settled == Settle(stores[v], moment)
           x == [amount |-> settled - Toll, stamp |-> moment]
<1>1. stores[v] \in Row /\ moment \in Nat /\ settled \in 0 .. Capacity /\ settled - Toll \in 0 .. Capacity
  BY ChargeFacts
<1>2. /\ stores' = [stores EXCEPT ![v] = x] /\ legs' = legs
      /\ books' = books + settled - stores[v].amount - Toll
  BY DEF Charge
<1>3. x \in Row /\ x.amount = settled - Toll
  BY <1>1 DEF Row
<1> HIDE DEF x, settled
<1>4. SumFunctionOnSet(Stored', Towns) = SumFunctionOnSet(Stored, Towns) + x.amount - stores[v].amount
  BY <1>2, <1>3, StoreChanges
<1>5. SumFunctionOnSet(Loaded', Wagons) = SumFunctionOnSet(Loaded, Wagons)
  BY <1>2, LoadsKeep
<1>6. settled \in Int /\ Toll \in Int /\ stores[v].amount \in Int
  BY <1>1, RoadConstants DEF Row
<1> QED
  BY <1>2, <1>3, <1>4, <1>5, <1>6, BookFacts, BalancedNext DEF Balanced

\* What goes with a village: its store, and every load from it or to it.
LEMMA AbandonBooks ==
  ASSUME RoadTyped, Balanced, NEW v \in Towns, Abandon(v)
  PROVE  Balanced'
<1> DEFINE L == Lost(v)
           f == [w \in L |-> legs[w].load]
           x == [amount |-> 0, stamp |-> 0]
           gone == [w \in Wagons |-> IF w \in L THEN f[w] ELSE 0]
<1>1. /\ stores' = [stores EXCEPT ![v] = x]
      /\ legs' = [w \in Wagons |-> IF w \in L THEN NoLeg ELSE legs[w]]
      /\ books' = books - stores[v].amount - SumFunction(f)
  BY DEF Abandon, Lost
<1>2. x \in Row /\ x.amount = 0
  BY RoadConstants DEF Row
<1>3. L \in SUBSET Wagons /\ \A w \in L : Driven(w)
  BY DEF Lost, Driven
<1>4. DOMAIN f = L /\ \A w \in L : f[w] = Loaded[w] /\ f[w] \in Int
  BY <1>3, BookFacts
<1>5. \A w \in Wagons : gone[w] = IF w \in L THEN f[w] ELSE 0
  OBVIOUS
<1>6. \A w \in Wagons : Loaded'[w] = IF w \in L THEN 0 ELSE Loaded[w]
  BY <1>1, LoadedNext, BookFacts DEF Driven
<1> HIDE DEF L, f, x, gone
<1>7. SumFunctionOnSet(f, L) = SumFunctionOnSet(gone, Wagons)
  <2>1. IsFiniteSet(Wagons) /\ \A w \in L : f[w] \in Int
    BY <1>4, BookFacts
  <2> QED
    BY <1>3, <1>5, <2>1, SumWithin
<1>8. SumFunctionOnSet(Loaded, Wagons) = SumFunctionOnSet(Loaded', Wagons) + SumFunctionOnSet(gone, Wagons)
  <2> DEFINE a == Loaded
             b == Loaded'
  <2>1. IsFiniteSet(Wagons)
    BY BookFacts
  <2>2. \A w \in Wagons : b[w] \in Int /\ gone[w] \in Int /\ a[w] = b[w] + gone[w]
    <3> SUFFICES ASSUME NEW w \in Wagons PROVE b[w] \in Int /\ gone[w] \in Int /\ a[w] = b[w] + gone[w]
      OBVIOUS
    <3>1. Loaded[w] \in Nat
      BY BookFacts
    <3> QED
      BY <1>4, <1>5, <1>6, <3>1
  <2> HIDE DEF a, b
  <2>3. SumFunctionOnSet(a, Wagons) = SumFunctionOnSet(b, Wagons) + SumFunctionOnSet(gone, Wagons)
    BY <2>1, <2>2, SumPlus
  <2> QED
    BY <2>3 DEF a, b
<1>9. SumFunction(f) = SumFunctionOnSet(gone, Wagons)
  BY <1>4, <1>7 DEF SumFunction
<1>10. SumFunctionOnSet(gone, Wagons) \in Int
  <2>1. IsFiniteSet(Wagons) /\ \A w \in Wagons : gone[w] \in Int
    BY <1>4, <1>5, BookFacts
  <2> QED
    BY <2>1, SumInt
<1>11. SumFunctionOnSet(Loaded', Wagons) = SumFunctionOnSet(Loaded, Wagons) - SumFunction(f)
  <2>1. SumFunctionOnSet(Loaded', Wagons) \in Int
    <3> DEFINE b == Loaded'
    <3>1. IsFiniteSet(Wagons)
      BY BookFacts
    <3>2. \A w \in Wagons : b[w] \in Int
      BY <1>6, BookFacts
    <3> HIDE DEF b
    <3>3. SumFunctionOnSet(b, Wagons) \in Int
      BY <3>1, <3>2, SumInt
    <3> QED
      BY <3>3 DEF b
  <2> QED
    BY <1>8, <1>9, <1>10, <2>1
<1>12. SumFunctionOnSet(Stored', Towns) = SumFunctionOnSet(Stored, Towns) + x.amount - stores[v].amount
  BY <1>1, <1>2, StoreChanges
<1>13. stores[v].amount \in Int /\ SumFunction(f) \in Int
  BY <1>9, <1>10, BookFacts
<1> QED
  BY <1>1, <1>2, <1>11, <1>12, <1>13, BookFacts, BalancedNext DEF Balanced

\* Claimed, released, freed or forgotten, a leg keeps its load.
LEMMA HaulsBooks ==
  ASSUME RoadTyped, LegsHeld, StoresRead, Balanced, NEW i \in Traders, Hauls(i)
  PROVE  Balanced'
<1>1. CASE Deliver(i)
  BY <1>1, DeliverBooks
<1>2. SUFFICES ASSUME stores' = stores, books' = books,
                      SumFunctionOnSet(Loaded', Wagons) = SumFunctionOnSet(Loaded, Wagons)
               PROVE  Balanced'
  <2>1. CASE Deliver(i)
    BY <1>1, <2>1
  <2>2. ASSUME ~Deliver(i)
        PROVE  /\ stores' = stores /\ books' = books
               /\ SumFunctionOnSet(Loaded', Wagons) = SumFunctionOnSet(Loaded, Wagons)
    <3>1. stores' = stores /\ books' = books
      BY <2>2 DEF Hauls, ClaimLegs, ReadAgain, ReleaseLeg, FreeMerchants, ReadTarget, GiveUp
    <3>2. CASE legs' = legs
      <4>1. \A w \in Wagons : legs'[w] = legs[w]
        BY <3>2
      <4> QED
        BY <3>1, <4>1, LoadsKeep
    <3>3. CASE ClaimLegs(i)
      <4> DEFINE S == {w \in Wagons : legs[w] # NoLeg /\ legs[w].due <= moment /\ ~legs[w].claimed}
      <4>1. legs' = [w \in Wagons |-> IF w \in S THEN Claimed(legs[w]) ELSE legs[w]]
        BY <3>3 DEF ClaimLegs
      <4>2. \A w \in S : Driven(w) /\ Claimed(legs[w]) \in Leg /\ Claimed(legs[w]).load = legs[w].load
        BY LegTyped, ReleasedLeg DEF Claimed, Driven
      <4> HIDE DEF S
      <4>3. \A w \in Wagons : \/ legs'[w] = legs[w]
                              \/ legs'[w] # NoLeg /\ Driven(w) /\ legs'[w].load = legs[w].load
        BY <4>1, <4>2, NoLegIsNew
      <4> QED
        BY <3>1, <4>3, LoadsKeep
    <3>4. CASE ReleaseLeg(i)
      <4> DEFINE d == delivery[i]
                 k == [d.leg EXCEPT !.claimed = FALSE]
      <4>1. legs' = [legs EXCEPT ![d.wagon] = k] /\ Delivers(i)
        BY <3>4, ReleaseLegs DEF ReleaseLeg
      <4>2. d.wagon \in Wagons /\ legs[d.wagon] = d.leg /\ d.leg # NoLeg /\ d.leg \in Leg
        BY <4>1, DeliveryHeld
      <4>3. k \in Leg /\ k.load = d.leg.load
        BY <4>2, ReleasedLeg
      <4> HIDE DEF k
      <4>4. \A w \in Wagons : legs'[w] = IF w = d.wagon THEN k ELSE legs[w]
        BY <4>1 DEF RoadTyped, MarketTypeOK
      <4>5. \A w \in Wagons : \/ legs'[w] = legs[w]
                              \/ legs'[w] # NoLeg /\ Driven(w) /\ legs'[w].load = legs[w].load
        BY <4>2, <4>3, <4>4, NoLegIsNew DEF Driven
      <4> QED
        BY <3>1, <4>5, LoadsKeep
    <3>5. ASSUME NEW w \in Wagons, FreeMerchants(i, w)
          PROVE  SumFunctionOnSet(Loaded', Wagons) = SumFunctionOnSet(Loaded, Wagons)
      <4>1. /\ legs' = [legs EXCEPT ![w] = IF @ = cargo[i][w] THEN NoLeg ELSE @]
            /\ cargo[i][w] # NoLeg /\ cargo[i][w].kind = "return"
        BY <3>5 DEF FreeMerchants, Picks
      <4>2. \A x \in Wagons : legs'[x] = IF x = w /\ legs[w] = cargo[i][w] THEN NoLeg ELSE legs[x]
        BY <4>1 DEF RoadTyped, MarketTypeOK
      <4>3. legs[w] = cargo[i][w] => Loaded[w] = 0
        BY <4>1, BookFacts DEF LegsHeld, Driven
      <4> QED
        BY <4>2, <4>3, LoadsKeep
    <3>6. legs' = legs \/ ClaimLegs(i) \/ ReleaseLeg(i) \/ \E w \in Wagons : FreeMerchants(i, w)
      BY <2>2 DEF Hauls, ReadAgain, ReadTarget, GiveUp
    <3> QED
      BY <3>1, <3>2, <3>3, <3>4, <3>5, <3>6
  <2> QED
    BY <1>2, <2>1, <2>2
<1>3. SumFunctionOnSet(Stored', Towns) = SumFunctionOnSet(Stored, Towns)
  BY <1>2, StoresKeep
<1> QED
  BY <1>2, <1>3, BalancedNext DEF Balanced

LEMMA BooksKeep ==
  ASSUME RoadTyped, Balanced, UNCHANGED <<stores, legs, books>>
  PROVE  Balanced'
BY DEF Balanced, Stored, Loaded, Driven

LEMMA RoadBalanceInit == MarketInit => Balanced
<1> SUFFICES ASSUME MarketInit PROVE Balanced
  OBVIOUS
<1>1. RoadTyped
  BY RoadTypedInit
<1>2. (\A v \in Towns : Stored[v] = FirstStore[v]) /\ (\A w \in Wagons : Loaded[w] = 0) /\ books = 0
  BY DEF MarketInit, Stored, Loaded, Driven
<1>3. IsFiniteSet(Towns) /\ IsFiniteSet(Wagons) /\ SumFunctionOnSet(FirstStore, Towns) \in Int
  BY <1>1, BookFacts
<1> DEFINE a == Stored
           b == Loaded
<1>4. (\A v \in Towns : a[v] = FirstStore[v]) /\ (\A w \in Wagons : b[w] = 0)
  BY <1>2
<1> HIDE DEF a, b
<1>5. SumFunctionOnSet(a, Towns) = SumFunctionOnSet(FirstStore, Towns)
  BY <1>3, <1>4, SumSame
<1>6. SumFunctionOnSet(b, Wagons) = 0
  BY <1>3, <1>4, SumNothing
<1> QED
  BY <1>2, <1>3, <1>5, <1>6 DEF a, b, Balanced

LEMMA RoadBalanceStep ==
  RoadTyped /\ LegsHeld /\ StoresRead /\ Balanced /\ [MarketNext /\ MarketQuiet]_marketVars => Balanced'
<1> SUFFICES ASSUME RoadTyped, LegsHeld, StoresRead, Balanced, [MarketNext]_marketVars PROVE Balanced'
  OBVIOUS
<1>1. CASE UNCHANGED marketVars
  BY <1>1, BooksKeep DEF marketVars
<1>2. CASE Shipping \/ Passes
  BY <1>2, BooksKeep DEF Shipping, AskShipment, PriceShipment, CountMerchants, Passes
<1>3. CASE Answering
  <2>1. ASSUME NEW r \in Shippers, EndShipment(r) PROVE Balanced'
    BY <2>1, BooksKeep DEF EndShipment
  <2> QED
    BY <1>3, <2>1, SendBooks, SpareIsWagon DEF Answering
<1>4. CASE Elsewhere
  <2>1. ASSUME NEW v \in Towns, NEW l \in Levels, Rebuild(v, l) PROVE Balanced'
    BY <2>1, BooksKeep DEF Rebuild
  <2> QED
    BY <1>4, <2>1, ChargeBooks, AbandonBooks DEF Elsewhere
<1>5. ASSUME NEW i \in Traders, Hauls(i) PROVE Balanced'
  BY <1>5, HaulsBooks
<1>6. ASSUME NEW i \in Traders, Stop(i) PROVE Balanced'
  BY <1>6, BooksKeep DEF Stop
<1>7. ASSUME NEW i \in Traders, Start(i) PROVE Balanced'
  <2>1. /\ legs' = [w \in Wagons |-> IF legs[w] = NoLeg THEN NoLeg ELSE [legs[w] EXCEPT !.claimed = FALSE]]
        /\ stores' = stores /\ books' = books
    BY <1>7 DEF Start
  <2>2. \A w \in Wagons : Driven(w) => /\ [legs[w] EXCEPT !.claimed = FALSE] \in Leg
                                      /\ [legs[w] EXCEPT !.claimed = FALSE].load = legs[w].load
    BY LegTyped, ReleasedLeg
  <2>3. \A w \in Wagons : \/ legs'[w] = legs[w]
                          \/ legs'[w] # NoLeg /\ Driven(w) /\ legs'[w].load = legs[w].load
    BY <2>1, <2>2, NoLegIsNew DEF Driven
  <2>4. SumFunctionOnSet(Loaded', Wagons) = SumFunctionOnSet(Loaded, Wagons)
    BY <2>3, LoadsKeep
  <2>5. SumFunctionOnSet(Stored', Towns) = SumFunctionOnSet(Stored, Towns)
    BY <2>1, StoresKeep
  <2> QED
    BY <2>1, <2>4, <2>5, BalancedNext DEF Balanced
<1> QED
  BY <1>1, <1>2, <1>3, <1>4, <1>5, <1>6, <1>7 DEF MarketNext

LEMMA QuietRoad == MarketQuietSpec => [](RoadTyped /\ LegsHeld /\ StoresRead)
<1> QED
  BY RoadTypedAlways, LegsInit, LegsStep, ReadsInit, ReadsStep, PTL DEF MarketQuietSpec

\* In an orderly history the goods are accounted for: what lies in the stores and on the road is what there
\* was and what has been made since, less what was spent, ran over a cap or went with a village; no
\* retry, release, lost claim, stop or requeue delivers a load twice or loses one.
THEOREM GoodsStayAccounted == MarketQuietSpec => []GoodsAccounted
<1>1. RoadTyped /\ Balanced => GoodsAccounted
  BY BalancedIsAccounted
<1> QED
  BY <1>1, QuietRoad, RoadBalanceInit, RoadBalanceStep, PTL DEF MarketQuietSpec

-----------------------------------------------------------------------------
(* Shipments: the merchants *)

\* The merchants of a village that rows L have out.
OutOf(L, v) == [w \in Wagons |-> IF L[w] # NoLeg /\ L[w].home = v THEN L[w].merchants ELSE 0]
Out(L, v) == SumFunctionOnSet(OutOf(L, v), Wagons)
Rows == [Wagons -> Leg \cup {NoLeg}]

LEMMA OutNat ==
  ASSUME NEW L \in Rows, NEW v
  PROVE  /\ \A w \in Wagons : OutOf(L, v)[w] \in Nat
         /\ Out(L, v) \in Nat
<1>1. ASSUME NEW w \in Wagons PROVE OutOf(L, v)[w] \in Nat
  <2>1. L[w] # NoLeg => L[w].merchants \in Nat
    BY DEF Rows, Leg
  <2> QED
    BY <2>1 DEF OutOf
<1> QED
  BY <1>1, SumNat, MarketAssumption DEF Out

LEMMA OutSum ==
  ASSUME NEW L \in Rows, NEW v
  PROVE  SumFunction([w \in {x \in Wagons : L[x] # NoLeg /\ L[x].home = v} |-> L[w].merchants]) = Out(L, v)
<1> DEFINE P == {x \in Wagons : L[x] # NoLeg /\ L[x].home = v}
           f == [w \in P |-> L[w].merchants]
           g == OutOf(L, v)
<1>1. DOMAIN f = P /\ P \in SUBSET Wagons
  OBVIOUS
<1>2. \A w \in P : f[w] = g[w]
  BY DEF OutOf
<1>3. \A w \in Wagons : g[w] = IF w \in P THEN f[w] ELSE 0
  BY DEF OutOf
<1>4. \A w \in P : f[w] \in Int
  BY <1>2, OutNat
<1> HIDE DEF P, f, g
<1>5. SumFunctionOnSet(f, P) = SumFunctionOnSet(g, Wagons)
  BY <1>1, <1>3, <1>4, SumWithin, MarketAssumption
<1>6. SumFunction(f) = SumFunctionOnSet(g, Wagons)
  BY <1>1, <1>5 DEF SumFunction
<1> QED
  BY <1>6 DEF f, P, g, Out

LEMMA CommittedIsOut == ASSUME RoadTyped, NEW v PROVE Committed(v) = Out(legs, v)
BY OutSum DEF Committed, LegsOf, RoadTyped, MarketTypeOK, Rows

LEMMA CommittedNext == ASSUME RoadTyped', NEW v PROVE Committed(v)' = Out(legs', v)
<1>1. legs' \in Rows
  BY DEF RoadTyped, MarketTypeOK, Rows
<1> QED
  BY <1>1, OutSum DEF Committed, LegsOf

\* Rows that are the same, gone, or another leg with the same merchants of the same village.
LEMMA OutFalls ==
  ASSUME NEW L \in Rows, NEW M \in Rows, NEW v,
         \A w \in Wagons : \/ M[w] = L[w] \/ M[w] = NoLeg
                           \/ L[w] # NoLeg /\ M[w].home = L[w].home /\ M[w].merchants = L[w].merchants
  PROVE  Out(M, v) <= Out(L, v)
<1> DEFINE f == OutOf(M, v)
           g == OutOf(L, v)
<1>1. \A w \in Wagons : f[w] = 0 \/ f[w] = g[w]
  BY DEF OutOf
<1>2. \A w \in Wagons : f[w] \in Nat /\ g[w] \in Nat
  BY OutNat
<1> HIDE DEF f, g
<1>3. \A w \in Wagons : f[w] \in Int /\ g[w] \in Int /\ f[w] <= g[w]
  BY <1>1, <1>2
<1>4. SumFunctionOnSet(f, Wagons) <= SumFunctionOnSet(g, Wagons)
  BY <1>3, SumAtMost, MarketAssumption
<1> QED
  BY <1>4 DEF f, g, Out

More(k, v) == IF k.home = v THEN k.merchants ELSE 0
SetOut(L, M, w, k) == L[w] = NoLeg /\ M[w] = k /\ \A x \in Wagons \ {w} : M[x] = L[x]

LEMMA OutGrows ==
  ASSUME NEW L \in Rows, NEW M \in Rows, NEW w \in Wagons, NEW k \in Leg, NEW v, SetOut(L, M, w, k)
  PROVE  Out(M, v) = Out(L, v) + More(k, v)
<1> DEFINE f == OutOf(L, v)
           g == OutOf(M, v)
<1>1. f[w] = 0 /\ g[w] = More(k, v)
  BY NoLegIsNew DEF OutOf, SetOut, More
<1>2. \A x \in Wagons \ {w} : g[x] = f[x]
  BY DEF OutOf, SetOut
<1>3. \A x \in Wagons : f[x] \in Nat /\ g[x] \in Nat
  BY OutNat
<1> HIDE DEF f, g
<1>4. g[w] \in Int /\ \A x \in Wagons : f[x] \in Int
  BY <1>3
<1>5. SumFunctionOnSet(g, Wagons) = SumFunctionOnSet(f, Wagons) + g[w] - f[w]
  BY <1>2, <1>4, SumChange, MarketAssumption
<1>6. SumFunctionOnSet(f, Wagons) \in Nat
  BY <1>3, SumNat, MarketAssumption
<1>7. SumFunctionOnSet(g, Wagons) = SumFunctionOnSet(f, Wagons) + g[w]
  BY <1>1, <1>4, <1>5, <1>6
<1> QED
  BY <1>1, <1>7 DEF f, g, Out

\* What a counted request relies on: its Marketplace has not fallen below the level it read, and until its
\* home's store is written again there is room for its merchants.
LevelStands(r) == Open(r) => shipment[r].level <= market[shipment[r].home]
RoomKept(r) ==
  LET s == shipment[r] IN
  Open(r) /\ s.step = "counted" /\ s.home \in standing /\ s.read.stamp = stores[s.home].stamp =>
    Required(s.load) + Committed(s.home) <= MerchantsOf[s.level]
MerchantsCounted == \A r \in Shippers : LevelStands(r) /\ RoomKept(r)

\* A higher Marketplace has no fewer merchants (as in every balance the repository ships).
MoreMerchants == Levels \subseteq Nat /\ \A a, b \in Levels : a <= b => MerchantsOf[a] <= MerchantsOf[b]

LEMMA CommittedNat ==
  ASSUME RoadTyped, NEW v
  PROVE  Committed(v) \in Nat
<1>1. legs \in Rows
  BY DEF RoadTyped, MarketTypeOK, Rows
<1> QED
  BY <1>1, CommittedIsOut, OutNat

LEMMA CommittedNatNext == ASSUME RoadTyped', NEW v PROVE Committed(v)' \in Nat
<1>1. legs' \in Rows
  BY DEF RoadTyped, MarketTypeOK, Rows
<1> QED
  BY <1>1, CommittedNext, OutNat

Falls == \A w \in Wagons : \/ legs'[w] = legs[w] \/ legs'[w] = NoLeg
                           \/ Driven(w) /\ legs'[w].home = legs[w].home /\ legs'[w].merchants = legs[w].merchants

LEMMA FallsCommitted ==
  ASSUME RoadTyped, RoadTyped', Falls, NEW v
  PROVE  Committed(v)' <= Committed(v)
<1>1. legs \in Rows /\ legs' \in Rows
  BY DEF RoadTyped, MarketTypeOK, Rows
<1>2. \A w \in Wagons : \/ legs'[w] = legs[w] \/ legs'[w] = NoLeg
                        \/ legs[w] # NoLeg /\ legs'[w].home = legs[w].home /\ legs'[w].merchants = legs[w].merchants
  BY DEF Falls, Driven
<1>3. Out(legs', v) <= Out(legs, v)
  BY <1>1, <1>2, OutFalls
<1> QED
  BY <1>3, CommittedIsOut, CommittedNext

LEMMA SendCommitted ==
  ASSUME RoadTyped, RoadTyped', NEW r \in Shippers, NEW w \in Wagons, SendShipment(r, w), NEW v
  PROVE  Committed(v)' = Committed(v) + (IF shipment[r].home = v THEN Required(shipment[r].load) ELSE 0)
<1>1. legs \in Rows /\ legs[w] = NoLeg /\ Sets(r) \in Leg /\ legs' = [legs EXCEPT ![w] = Sets(r)]
  BY SendFacts DEF RoadTyped, MarketTypeOK, Rows
<1>2. Sets(r).home = shipment[r].home /\ Sets(r).merchants = Required(shipment[r].load)
  BY DEF Sets
<1>3. legs' \in Rows
  BY DEF RoadTyped, MarketTypeOK, Rows
<1>4. SetOut(legs, legs', w, Sets(r))
  BY <1>1 DEF Rows, SetOut
<1>5. Out(legs', v) = Out(legs, v) + More(Sets(r), v)
  BY <1>1, <1>3, <1>4, OutGrows
<1> QED
  BY <1>2, <1>5, CommittedIsOut, CommittedNext DEF More

\* Instances free merchants and send them no further.
LEMMA HaulsFall ==
  ASSUME RoadTyped, LegsHeld, NEW i \in Traders, Hauls(i)
  PROVE  Falls
<1>1. CASE ClaimLegs(i)
  <2> DEFINE S == {w \in Wagons : legs[w] # NoLeg /\ legs[w].due <= moment /\ ~legs[w].claimed}
  <2>1. legs' = [w \in Wagons |-> IF w \in S THEN Claimed(legs[w]) ELSE legs[w]]
    BY <1>1 DEF ClaimLegs
  <2>2. \A w \in S : Driven(w) /\ Claimed(legs[w]).home = legs[w].home
                     /\ Claimed(legs[w]).merchants = legs[w].merchants
    BY LegTyped, ReleasedLeg DEF Claimed, Driven
  <2> HIDE DEF S
  <2> QED
    BY <2>1, <2>2 DEF Falls
<1>2. CASE Deliver(i)
  <2> DEFINE d == delivery[i]
  <2>1. legs' = [legs EXCEPT ![d.wagon] = Back(d.leg)] /\ Delivers(i)
    BY <1>2, DeliverLegs DEF Deliver
  <2>2. d.wagon \in Wagons /\ legs[d.wagon] = d.leg /\ d.leg # NoLeg /\ d.leg \in Leg /\ d.leg.due <= moment
    BY <2>1, DeliveryHeld
  <2>3. Back(d.leg).home = d.leg.home /\ Back(d.leg).merchants = d.leg.merchants
    BY <2>2, BackIsLeg
  <2>4. \A w \in Wagons : legs'[w] = IF w = d.wagon THEN Back(d.leg) ELSE legs[w]
    BY <2>1 DEF RoadTyped, MarketTypeOK
  <2> QED
    BY <2>2, <2>3, <2>4 DEF Falls, Driven
<1>3. CASE ReleaseLeg(i)
  <2> DEFINE d == delivery[i]
             k == [d.leg EXCEPT !.claimed = FALSE]
  <2>1. legs' = [legs EXCEPT ![d.wagon] = k] /\ Delivers(i)
    BY <1>3, ReleaseLegs DEF ReleaseLeg
  <2>2. d.wagon \in Wagons /\ legs[d.wagon] = d.leg /\ d.leg # NoLeg /\ d.leg \in Leg
    BY <2>1, DeliveryHeld
  <2>3. k.home = d.leg.home /\ k.merchants = d.leg.merchants
    BY <2>2, ReleasedLeg
  <2> HIDE DEF k
  <2>4. \A w \in Wagons : legs'[w] = IF w = d.wagon THEN k ELSE legs[w]
    BY <2>1 DEF RoadTyped, MarketTypeOK
  <2> QED
    BY <2>2, <2>3, <2>4 DEF Falls, Driven
<1>4. ASSUME NEW w \in Wagons, FreeMerchants(i, w) PROVE Falls
  <2>1. legs' = [legs EXCEPT ![w] = IF @ = cargo[i][w] THEN NoLeg ELSE @]
    BY <1>4 DEF FreeMerchants
  <2>2. \A x \in Wagons : legs'[x] = IF x = w /\ legs[w] = cargo[i][w] THEN NoLeg ELSE legs[x]
    BY <2>1 DEF RoadTyped, MarketTypeOK
  <2> QED
    BY <2>2 DEF Falls
<1>5. CASE legs' = legs
  BY <1>5 DEF Falls
<1>6. legs' = legs \/ ClaimLegs(i) \/ Deliver(i) \/ ReleaseLeg(i) \/ \E w \in Wagons : FreeMerchants(i, w)
  BY DEF Hauls, ReadAgain, ReadTarget, GiveUp
<1> QED
  BY <1>1, <1>2, <1>3, <1>4, <1>5, <1>6

\* Only a request that sends has more merchants out.
LEMMA OnlySendingRaises ==
  ASSUME RoadTyped, LegsHeld, MarketNext, \A r \in Shippers, w \in Wagons : ~SendShipment(r, w)
  PROVE  Falls
<1>1. CASE legs' = legs
  BY <1>1 DEF Falls
<1>2. CASE Shipping \/ Passes
  BY <1>1, <1>2 DEF Shipping, AskShipment, PriceShipment, CountMerchants, Passes
<1>3. CASE Answering
  BY <1>1, <1>3, SpareIsWagon DEF Answering, EndShipment
<1>4. CASE Elsewhere
  <2>1. ASSUME NEW v \in Towns, Abandon(v) PROVE Falls
    BY <2>1 DEF Abandon, Falls
  <2>2. ASSUME NEW v \in Towns, Charge(v) \/ \E l \in Levels : Rebuild(v, l) PROVE Falls
    BY <1>1, <2>2 DEF Charge, Rebuild
  <2> QED
    BY <1>4, <2>1, <2>2 DEF Elsewhere
<1>5. ASSUME NEW i \in Traders, Hauls(i) PROVE Falls
  BY <1>5, HaulsFall
<1>6. ASSUME NEW i \in Traders, Stop(i) PROVE Falls
  BY <1>1, <1>6 DEF Stop
<1>7. ASSUME NEW i \in Traders, Start(i) PROVE Falls
  <2>1. legs' = [w \in Wagons |-> IF legs[w] = NoLeg THEN NoLeg ELSE [legs[w] EXCEPT !.claimed = FALSE]]
    BY <1>7 DEF Start
  <2>2. \A w \in Wagons : Driven(w) => /\ [legs[w] EXCEPT !.claimed = FALSE].home = legs[w].home
                                      /\ [legs[w] EXCEPT !.claimed = FALSE].merchants = legs[w].merchants
    BY LegTyped, ReleasedLeg
  <2> QED
    BY <2>1, <2>2 DEF Falls, Driven
<1> QED
  BY <1>2, <1>3, <1>4, <1>5, <1>6, <1>7 DEF MarketNext

LEMMA LevelsCompare ==
  ASSUME MoreMerchants, RoadTyped, NEW r \in Shippers, Open(r)
  PROVE  shipment[r].level \in Nat /\ market[shipment[r].home] \in Nat
BY RequestTyped DEF MoreMerchants, RoadTyped, MarketTypeOK

\* A request that stays as it is keeps its room: whoever sends from its home, or writes its store, dates it later.
LEMMA CountedStays ==
  ASSUME MoreMerchants, RoadTyped, RoadTyped', StoresRead, MerchantsCounted, DatedLater, MarketStays,
         standing' \subseteq standing, NEW r \in Shippers, shipment'[r] = shipment[r],
         \A v \in Towns : v = shipment[r].home => Committed(v)' <= Committed(v) \/ stores'[v] # stores[v]
  PROVE  LevelStands(r)' /\ RoomKept(r)'
<1> SUFFICES ASSUME Open(r) PROVE LevelStands(r)' /\ RoomKept(r)'
  BY DEF LevelStands, RoomKept, Open
<1> DEFINE s == shipment[r]
<1>0. PICK h \in Towns : h = s.home
  BY RequestTyped
<1>1. h \in Towns /\ s.load \in Nat /\ s.read \in Row /\ s.level \in Levels
  BY <1>0, RequestTyped
<1>2. LevelStands(r)'
  <2>1. market'[h] >= market[h] /\ s.level <= market[h]
    BY <1>0 DEF MarketStays, Open, MerchantsCounted, LevelStands
  <2>2. market'[h] \in Nat
    BY <1>1 DEF RoadTyped, MarketTypeOK, MoreMerchants
  <2> QED
    BY <1>0, <2>1, <2>2, LevelsCompare DEF LevelStands
<1>3. ASSUME s.step = "counted", h \in standing', s.read.stamp = stores'[h].stamp
      PROVE  Required(s.load) + Committed(h)' <= MerchantsOf[s.level]
  <2>1. Reading(h) /\ Reading(h)'
    BY <1>0, <1>3 DEF Reading, Stands, Open
  <2>2. stores'[h] = stores[h] \/ stores'[h].stamp > stores[h].stamp
    BY <1>1, <1>3, <2>1 DEF DatedLater
  <2>3. Fresh(s.read, h)
    BY <1>0, <1>3, <2>1 DEF StoresRead, Prices
  <2>4. stores[h].stamp \in Nat /\ stores'[h].stamp \in Nat /\ s.read.stamp \in Nat
    BY <1>1 DEF RoadTyped, MarketTypeOK, Row
  <2>5. stores'[h] = stores[h] /\ s.read.stamp = stores[h].stamp
    BY <1>3, <2>2, <2>3, <2>4 DEF Fresh
  <2>6. Required(s.load) + Committed(h) <= MerchantsOf[s.level]
    BY <1>0, <1>3, <2>5 DEF MerchantsCounted, RoomKept
  <2>7. Committed(h)' <= Committed(h)
    BY <1>0, <2>5
  <2>8. Committed(h) \in Nat /\ Committed(h)' \in Nat /\ Required(s.load) \in Nat /\ MerchantsOf[s.level] \in Nat
    BY <1>1, CommittedNat, CommittedNatNext, RequiredNat, MarketAssumption
  <2> QED
    BY <2>6, <2>7, <2>8
<1>4. shipment'[r].home = h
  BY <1>0
<1> QED
  BY <1>2, <1>3, <1>4 DEF RoomKept

\* A request of its own: asked, counted or served.
LEMMA CountedChanges ==
  ASSUME MoreMerchants, RoadTyped, MerchantsCounted, UNCHANGED <<standing, market, stores, legs>>,
         NEW r \in Shippers, NEW s, shipment' = [shipment EXCEPT ![r] = s],
         \/ s = Served
         \/ /\ s.level <= market[s.home]
            /\ s.step = "counted" => Required(s.load) + Committed(s.home) <= MerchantsOf[s.level]
  PROVE  MerchantsCounted'
<1>1. \A v : Committed(v)' = Committed(v)
  BY DEF Committed, LegsOf
<1>2. ASSUME NEW q \in Shippers PROVE LevelStands(q)' /\ RoomKept(q)'
  <2>1. CASE q = r
    <3>1. shipment'[q] = s
      BY <2>1 DEF RoadTyped, MarketTypeOK
    <3>2. CASE s = Served
      BY <3>1, <3>2 DEF LevelStands, RoomKept, Open
    <3>3. CASE s # Served
      <4>1. LevelStands(q)'
        BY <3>1, <3>3 DEF LevelStands
      <4>2. s.step = "counted" => Required(s.load) + Committed(s.home)' <= MerchantsOf[s.level]
        BY <1>1, <3>3
      <4>3. Committed(s.home)' = Committed(shipment[q].home)'
        BY <3>1 DEF Committed, LegsOf
      <4> QED
        BY <3>1, <4>1, <4>2, <4>3 DEF RoomKept
    <3> QED
      BY <3>2, <3>3
  <2>2. CASE q # r
    <3>1. shipment'[q] = shipment[q]
      BY <2>2 DEF RoadTyped, MarketTypeOK
    <3>2. Committed(shipment[q].home)' = Committed(shipment[q].home)
      BY <3>1 DEF Committed, LegsOf
    <3> QED
      BY <3>1, <3>2 DEF MerchantsCounted, LevelStands, RoomKept, Open
  <2> QED
    BY <2>1, <2>2
<1> QED
  BY <1>2 DEF MerchantsCounted

LEMMA ShippingCounts ==
  ASSUME MoreMerchants, RoadTyped, MerchantsCounted, Shipping
  PROVE  MerchantsCounted'
<1>1. UNCHANGED <<standing, market, stores, legs>>
  BY DEF Shipping, AskShipment, PriceShipment, CountMerchants
<1>2. ASSUME NEW r \in Shippers, NEW h \in Towns, NEW t \in Towns, NEW n \in Loads, AskShipment(r, h, t, n)
      PROVE  MerchantsCounted'
  <2> DEFINE s == [step |-> "asked", home |-> h, target |-> t, load |-> n, now |-> moment, level |-> market[h],
                   read |-> [amount |-> 0, stamp |-> 0]]
  <2>1. shipment' = [shipment EXCEPT ![r] = s] /\ s.step = "asked" /\ s.level = market[s.home] /\ s.home = h
    BY <1>2 DEF AskShipment
  <2>2. market[h] \in Nat
    BY DEF RoadTyped, MarketTypeOK, MoreMerchants
  <2> HIDE DEF s
  <2>3. s.level <= market[s.home] /\ s.step # "counted"
    BY <2>1, <2>2
  <2> QED
    BY <1>1, <2>1, <2>3, CountedChanges
<1>3. ASSUME NEW r \in Shippers, PriceShipment(r) PROVE MerchantsCounted'
  <2> DEFINE s == [shipment[r] EXCEPT !.step = "priced", !.read = stores[shipment[r].home]]
  <2>1. shipment[r] \in Shipment /\ Open(r)
    BY <1>3, RequestTyped DEF PriceShipment, Stands, Open
  <2>2. shipment' = [shipment EXCEPT ![r] = s]
    BY <1>3, <2>1 DEF PriceShipment, RoadTyped, MarketTypeOK
  <2>3. s.home = shipment[r].home /\ s.level = shipment[r].level /\ s.step = "priced"
    BY <2>1 DEF Shipment
  <2> HIDE DEF s
  <2>4. s.level <= market[s.home] /\ s.step # "counted"
    BY <2>1, <2>3 DEF MerchantsCounted, LevelStands
  <2> QED
    BY <1>1, <2>2, <2>4, CountedChanges
<1>4. ASSUME NEW r \in Shippers, CountMerchants(r) PROVE MerchantsCounted'
  <2> DEFINE s == [shipment[r] EXCEPT !.step = "counted"]
  <2>1. shipment[r] \in Shipment /\ Open(r)
    BY <1>4, RequestTyped DEF CountMerchants, Stands, Open
  <2>2. shipment' = [shipment EXCEPT ![r] = s]
    BY <1>4, <2>1 DEF CountMerchants, RoadTyped, MarketTypeOK
  <2>3. s.home = shipment[r].home /\ s.level = shipment[r].level /\ s.load = shipment[r].load
    BY <2>1 DEF Shipment
  <2>4. Required(shipment[r].load) + Committed(shipment[r].home) <= MerchantsOf[shipment[r].level]
    BY <1>4 DEF CountMerchants
  <2> HIDE DEF s
  <2>5. s.level <= market[s.home] /\ Required(s.load) + Committed(s.home) <= MerchantsOf[s.level]
    BY <2>1, <2>3, <2>4 DEF MerchantsCounted, LevelStands
  <2> QED
    BY <1>1, <2>2, <2>5, CountedChanges
<1> QED
  BY <1>2, <1>3, <1>4 DEF Shipping

\* Whoever sends a load leaves another row of the store behind.
LEMMA SendMarks ==
  ASSUME RoadTyped, StoresRead, NEW r \in Shippers, NEW w \in Wagons, SendShipment(r, w)
  PROVE  stores'[shipment[r].home] # stores[shipment[r].home]
<1> DEFINE s == shipment[r]
           settled == Settle(s.read, s.now)
           x == [amount |-> settled - s.load, stamp |-> s.now]
<1>1. /\ s.home \in Towns /\ settled \in 0 .. Capacity /\ s.load \in Nat \ {0} /\ s.read \in Row
      /\ stores' = [stores EXCEPT ![s.home] = x]
      /\ Open(r) /\ s.step = "counted" /\ s.home \in standing
  BY SendFacts
<1>2. s.read = stores[s.home]
  BY <1>1 DEF SendShipment, StoresRead, Fresh, Prices
<1>3. stores'[s.home] = x
  BY <1>1 DEF RoadTyped, MarketTypeOK
<1>4. SUFFICES ASSUME x = s.read PROVE FALSE
  BY <1>2, <1>3
<1>5. s.now = s.read.stamp /\ settled - s.load = s.read.amount
  BY <1>4
<1>6. settled = s.read.amount
  BY <1>1, <1>5, SettleToOwnStamp
<1> HIDE DEF settled
<1> QED
  BY <1>1, <1>5, <1>6, RoadConstants

\* But for asking, pricing and counting, a step only ends a request.
LEMMA OthersServe ==
  ASSUME MarketNext, ~Shipping
  PROVE  /\ standing' \subseteq standing
         /\ shipment' = shipment \/ \E r \in Shippers : shipment' = [shipment EXCEPT ![r] = Served]
<1>1. CASE Answering
  BY <1>1 DEF Answering, EndShipment, SendShipment
<1>2. CASE Elsewhere \/ Passes
  BY <1>2 DEF Elsewhere, Charge, Abandon, Rebuild, Passes
<1>3. ASSUME NEW i \in Traders, Hauls(i) PROVE standing' \subseteq standing /\ shipment' = shipment
  BY <1>3 DEF Hauls, ClaimLegs, Deliver, ReadAgain, ReleaseLeg, FreeMerchants, ReadTarget, GiveUp
<1>4. ASSUME NEW i \in Traders, Stop(i) \/ Start(i) PROVE standing' \subseteq standing /\ shipment' = shipment
  BY <1>4 DEF Stop, Start
<1> QED
  BY <1>1, <1>2, <1>3, <1>4 DEF MarketNext

LEMMA CountedStep ==
  ASSUME MoreMerchants, RoadTyped, RoadTyped', LegsHeld, StoresRead, MerchantsCounted,
         [MarketNext /\ MarketQuiet]_marketVars
  PROVE  MerchantsCounted'
<1>1. CASE UNCHANGED marketVars
  BY <1>1 DEF marketVars, MerchantsCounted, LevelStands, RoomKept, Open, Committed, LegsOf
<1>2. CASE MarketNext /\ MarketQuiet /\ ~Shipping
  <2>1. DatedLater /\ MarketStays
    BY <1>2 DEF MarketQuiet
  <2>2. standing' \subseteq standing
    BY <1>2, OthersServe
  <2>3. \A r \in Shippers : shipment'[r] = shipment[r] \/ shipment'[r] = Served
    <3>1. shipment' = shipment \/ \E r \in Shippers : shipment' = [shipment EXCEPT ![r] = Served]
      BY <1>2, OthersServe
    <3> QED
      BY <3>1 DEF RoadTyped, MarketTypeOK
  <2>4. \A v \in Towns : Committed(v)' <= Committed(v) \/ stores'[v] # stores[v]
    <3> SUFFICES ASSUME NEW v \in Towns PROVE Committed(v)' <= Committed(v) \/ stores'[v] # stores[v]
      OBVIOUS
    <3>1. ASSUME NEW r \in Shippers, NEW w \in Wagons, SendShipment(r, w)
          PROVE  Committed(v)' <= Committed(v) \/ stores'[v] # stores[v]
      <4>1. CASE shipment[r].home = v
        BY <3>1, <4>1, SendMarks
      <4>2. CASE shipment[r].home # v
        <5>1. Committed(v)' = Committed(v) + 0
          BY <3>1, <4>2, SendCommitted
        <5> QED
          BY <5>1, CommittedNat
      <4> QED
        BY <4>1, <4>2
    <3>2. ASSUME \A r \in Shippers, w \in Wagons : ~SendShipment(r, w)
          PROVE  Committed(v)' <= Committed(v)
      BY <1>2, <3>2, OnlySendingRaises, FallsCommitted
    <3> QED
      BY <3>1, <3>2
  <2>5. ASSUME NEW r \in Shippers PROVE LevelStands(r)' /\ RoomKept(r)'
    <3>1. CASE shipment'[r] = shipment[r]
      BY <2>1, <2>2, <2>4, <3>1, CountedStays
    <3>2. CASE shipment'[r] = Served
      BY <3>2 DEF LevelStands, RoomKept, Open
    <3> QED
      BY <2>3, <3>1, <3>2
  <2> QED
    BY <2>5 DEF MerchantsCounted
<1> QED
  BY <1>1, <1>2, ShippingCounts

LEMMA CountedInit == MarketInit => MerchantsCounted
BY DEF MarketInit, MerchantsCounted, LevelStands, RoomKept, Open

\* What MerchantsHeld says of a step.
LEMMA HeldStep ==
  ASSUME MoreMerchants, RoadTyped, RoadTyped', LegsHeld, StoresRead, MerchantsCounted,
         [MarketNext /\ MarketQuiet]_marketVars
  PROVE  [\A v \in Towns : Committed(v)' > Committed(v) => Committed(v)' <= MerchantsOf[market[v]]]_marketVars
<1> SUFFICES ASSUME MarketNext, NEW v \in Towns, Committed(v)' > Committed(v)
             PROVE  Committed(v)' <= MerchantsOf[market[v]]
  OBVIOUS
<1>1. Committed(v) \in Nat /\ Committed(v)' \in Nat
  BY CommittedNat, CommittedNatNext
<1>2. ~(Committed(v)' <= Committed(v))
  BY <1>1
<1>3. PICK r \in Shippers, w \in Wagons : SendShipment(r, w)
  BY <1>2, OnlySendingRaises, FallsCommitted
<1> DEFINE s == shipment[r]
<1>4. s.home = v /\ Committed(v)' = Committed(v) + Required(s.load)
  <2>1. CASE s.home # v
    <3>1. Committed(v)' = Committed(v) + 0
      BY <1>3, <2>1, SendCommitted
    <3> QED
      BY <1>1, <1>2, <3>1
  <2>2. CASE s.home = v
    BY <1>3, <2>2, SendCommitted
  <2> QED
    BY <2>1, <2>2
<1>5. Open(r) /\ s.step = "counted" /\ s.home \in standing /\ stores[s.home].stamp = s.read.stamp /\ s.load \in Nat
  BY <1>3, SendFacts DEF SendShipment
<1>6. Required(s.load) + Committed(v) <= MerchantsOf[s.level]
  BY <1>4, <1>5 DEF MerchantsCounted, RoomKept
<1>7. s.level <= market[v] /\ s.level \in Levels /\ market[v] \in Levels
  BY <1>4, <1>5, RequestTyped DEF MerchantsCounted, LevelStands, RoadTyped, MarketTypeOK
<1>8. MerchantsOf[s.level] <= MerchantsOf[market[v]] /\ MerchantsOf[s.level] \in Nat /\ MerchantsOf[market[v]] \in Nat
  BY <1>7, MarketAssumption DEF MoreMerchants
<1>9. Required(s.load) \in Nat
  BY <1>5, RequiredNat
<1> HIDE DEF s
<1> QED
  BY <1>1, <1>4, <1>6, <1>8, <1>9

\* Where a higher Marketplace has no fewer merchants, in an orderly history no village ever sends more than its
\* Marketplace has, although the count of those under way is only read, and only the store's stamp is guarded:
\* whoever sends in between has debited the store and dated it later.
THEOREM MerchantsNeverOverbooked == MoreMerchants => (MarketQuietSpec => MerchantsHeld)
<1> SUFFICES ASSUME MoreMerchants PROVE MarketQuietSpec => MerchantsHeld
  OBVIOUS
<1>1. RoadTyped /\ RoadTyped' /\ LegsHeld /\ StoresRead /\ MerchantsCounted /\ [MarketNext /\ MarketQuiet]_marketVars
      => MerchantsCounted'
  BY CountedStep
<1>2. RoadTyped /\ RoadTyped' /\ LegsHeld /\ StoresRead /\ MerchantsCounted /\ [MarketNext /\ MarketQuiet]_marketVars
      => [\A v \in Towns : Committed(v)' > Committed(v) => Committed(v)' <= MerchantsOf[market[v]]]_marketVars
  BY HeldStep
<1> QED
  BY <1>1, <1>2, CountedInit, QuietRoad, PTL DEF MarketQuietSpec, MerchantsHeld
=============================================================================
