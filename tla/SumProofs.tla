------------------------------ MODULE SumProofs ------------------------------
(***************************************************************************)
(* What the community module leaves unproved about SumFunctionOnSet, the sum *)
(* in which the models account for goods, men and troops.  The library's     *)
(* induction theorems take a predicate, which no prover here instantiates;    *)
(* its least-element theorems take sets, so the induction runs over those.    *)
(* The same for numbers, with the facts about whole division used elsewhere. *)
(***************************************************************************)
EXTENDS Integers, Functions, FiniteSetTheorems, TLAPS

Pick(s) == CHOOSE x \in s : TRUE

\* g sums f up over every subset of S, one picked element at a time.
Adds(g, f, S) == g = [s \in SUBSET S |-> IF s = {} THEN 0 ELSE f[Pick(s)] + g[s \ {Pick(s)}]]
Iter(f, S) == CHOOSE g : Adds(g, f, S)

LEMMA SumIter == ASSUME NEW f, NEW S PROVE SumFunctionOnSet(f, S) = Iter(f, S)[S]
BY DEF SumFunctionOnSet, FoldFunctionOnSet, MapThenFoldSet, Iter, Adds, Pick

LEMMA PickIn == ASSUME NEW S, S # {} PROVE Pick(S) \in S
BY DEF Pick

\* Among some subsets of a finite set there is a smallest one.
LEMMA SmallestSet ==
  ASSUME NEW S, IsFiniteSet(S), NEW B, B \subseteq SUBSET S, B # {}
  PROVE  \E T \in B : \A U \in B : U \subseteq T => U = T
<1>1. FiniteSubsetsOf(S) = SUBSET S
  BY FS_FiniteSubsetsOfFinite
<1>2. IsWellFoundedOn(StrictSubsetOrdering(S), SUBSET S)
  BY <1>1, FS_StrictSubsetOrderingWellFounded
<1>3. PICK T \in B : \A U \in B : <<U, T>> \notin StrictSubsetOrdering(S)
  BY <1>2, WFMin
<1>4. ASSUME NEW U \in B, U \subseteq T, U # T PROVE FALSE
  <2>1. <<U, T>> \in (SUBSET S) \X (SUBSET S)
    OBVIOUS
  <2>2. <<U, T>> \in StrictSubsetOrdering(S)
    BY <1>4, <2>1 DEF StrictSubsetOrdering
  <2> QED
    BY <1>3, <2>2
<1> QED
  BY <1>4

\* Induction over the subsets of a finite set: what holds of a set when it holds of
\* every smaller one holds of all.
LEMMA SubsetInduction ==
  ASSUME NEW S, IsFiniteSet(S), NEW G,
         \A T \in SUBSET S : (\A U \in SUBSET T : U # T => U \in G) => T \in G
  PROVE  \A T \in SUBSET S : T \in G
<1> DEFINE B == (SUBSET S) \ G
<1>1. SUFFICES ASSUME B # {} PROVE FALSE
  OBVIOUS
<1>2. PICK T \in B : \A U \in B : U \subseteq T => U = T
  <2>1. B \subseteq SUBSET S
    OBVIOUS
  <2> HIDE DEF B
  <2> QED
    BY <2>1, <1>1, SmallestSet
<1>3. \A U \in SUBSET T : U # T => U \in G
  BY <1>2
<1> QED
  BY <1>3

\* The same, one picked element at a time.
LEMMA PickInduction ==
  ASSUME NEW S, IsFiniteSet(S), NEW G, {} \in G,
         \A T \in SUBSET S : T # {} /\ T \ {Pick(T)} \in G => T \in G
  PROVE  \A T \in SUBSET S : T \in G
<1>1. ASSUME NEW T \in SUBSET S, \A U \in SUBSET T : U # T => U \in G
      PROVE  T \in G
  <2>1. CASE T = {}
    BY <2>1
  <2>2. CASE T # {}
    <3>1. Pick(T) \in T
      BY <2>2, PickIn
    <3>2. T \ {Pick(T)} \in SUBSET T /\ T \ {Pick(T)} # T
      BY <3>1
    <3> QED
      BY <1>1, <2>2, <3>2
  <2> QED
    BY <2>1, <2>2
<1> QED
  BY <1>1, SubsetInduction

LEMMA AddsOnce ==
  ASSUME NEW f, NEW S, IsFiniteSet(S), NEW g, NEW h, Adds(g, f, S), Adds(h, f, S)
  PROVE  \A s \in SUBSET S : g[s] = h[s]
<1> DEFINE G == {s \in SUBSET S : g[s] = h[s]}
<1>1. {} \in G
  BY DEF Adds
<1>2. \A T \in SUBSET S : T # {} /\ T \ {Pick(T)} \in G => T \in G
  BY DEF Adds
<1>3. \A T \in SUBSET S : T \in G
  <2> HIDE DEF G
  <2> QED
    BY <1>1, <1>2, PickInduction
<1> QED
  BY <1>3

LEMMA SumEmpty == ASSUME NEW f PROVE SumFunctionOnSet(f, {}) = 0
<1>1. Adds([s \in SUBSET {} |-> 0], f, {})
  BY DEF Adds
<1>2. Adds(Iter(f, {}), f, {})
  BY <1>1 DEF Iter
<1> QED
  BY <1>2, SumIter DEF Adds

\* The recursion of the fold: its function exists, so its equation holds.
LEMMA SumPick ==
  ASSUME NEW f, NEW S, IsFiniteSet(S), S # {}
  PROVE  SumFunctionOnSet(f, S) = f[Pick(S)] + SumFunctionOnSet(f, S \ {Pick(S)})
<1> DEFINE Parts(T) == T = {} \/ SumFunctionOnSet(f, T) = f[Pick(T)] + SumFunctionOnSet(f, T \ {Pick(T)})
           G == {T \in SUBSET S : Parts(T)}
<1>1. ASSUME NEW T \in SUBSET S, \A U \in SUBSET T : U # T => U \in G
      PROVE  T \in G
  <2>1. SUFFICES ASSUME T # {} PROVE Parts(T)
    OBVIOUS
  <2>2. \A U \in SUBSET T : U # T => Parts(U)
    BY <1>1
  <2> DEFINE g == [s \in SUBSET T |-> IF s = {} THEN 0 ELSE f[Pick(s)] + SumFunctionOnSet(f, s \ {Pick(s)})]
  <2>3. \A s \in SUBSET T : s # T => g[s] = SumFunctionOnSet(f, s)
    BY <2>2, SumEmpty
  <2>4. ASSUME NEW s \in SUBSET T, s # {}
        PROVE  g[s \ {Pick(s)}] = SumFunctionOnSet(f, s \ {Pick(s)})
    <3>1. Pick(s) \in s
      BY <2>4, PickIn
    <3>2. s \ {Pick(s)} \in SUBSET T /\ s \ {Pick(s)} # T
      BY <3>1
    <3> HIDE DEF g
    <3> QED
      BY <2>3, <3>2
  <2>5. \A s \in SUBSET T : g[s] = IF s = {} THEN 0 ELSE f[Pick(s)] + SumFunctionOnSet(f, s \ {Pick(s)})
    OBVIOUS
  <2>6. g = [s \in SUBSET T |-> g[s]]
    OBVIOUS
  <2> HIDE DEF g
  <2>7. Adds(g, f, T)
    BY <2>4, <2>5, <2>6 DEF Adds
  <2>8. Adds(Iter(f, T), f, T)
    BY <2>7 DEF Iter
  <2>9. IsFiniteSet(T)
    BY FS_Subset
  <2>10. Iter(f, T)[T] = g[T]
    BY <2>7, <2>8, <2>9, AddsOnce
  <2> QED
    BY <2>1, <2>5, <2>10, SumIter
<1>2. S \in G
  <2> HIDE DEF G
  <2> QED
    BY <1>1, SubsetInduction
<1> QED
  BY <1>2

\* A sum of integers is an integer, of naturals a natural.
LEMMA SumInt ==
  ASSUME NEW S, IsFiniteSet(S), NEW f, \A x \in S : f[x] \in Int
  PROVE  SumFunctionOnSet(f, S) \in Int
<1> DEFINE G == {T \in SUBSET S : SumFunctionOnSet(f, T) \in Int}
<1>1. {} \in G
  BY SumEmpty
<1>2. ASSUME NEW T \in SUBSET S, T # {}, T \ {Pick(T)} \in G PROVE T \in G
  BY <1>2, SumPick, PickIn, FS_Subset
<1>3. S \in G
  <2> HIDE DEF G
  <2> QED
    BY <1>1, <1>2, PickInduction
<1> QED
  BY <1>3

LEMMA SumNat ==
  ASSUME NEW S, IsFiniteSet(S), NEW f, \A x \in S : f[x] \in Nat
  PROVE  SumFunctionOnSet(f, S) \in Nat
<1> DEFINE G == {T \in SUBSET S : SumFunctionOnSet(f, T) \in Nat}
<1>1. {} \in G
  BY SumEmpty
<1>2. ASSUME NEW T \in SUBSET S, T # {}, T \ {Pick(T)} \in G PROVE T \in G
  BY <1>2, SumPick, PickIn, FS_Subset
<1>3. S \in G
  <2> HIDE DEF G
  <2> QED
    BY <1>1, <1>2, PickInduction
<1> QED
  BY <1>3

\* Functions that agree on a set have the same sum over it.
LEMMA SumSame ==
  ASSUME NEW S, IsFiniteSet(S), NEW f, NEW g, \A x \in S : f[x] = g[x]
  PROVE  SumFunctionOnSet(f, S) = SumFunctionOnSet(g, S)
<1> DEFINE G == {T \in SUBSET S : SumFunctionOnSet(f, T) = SumFunctionOnSet(g, T)}
<1>1. {} \in G
  BY SumEmpty
<1>2. ASSUME NEW T \in SUBSET S, T # {}, T \ {Pick(T)} \in G PROVE T \in G
  BY <1>2, SumPick, PickIn, FS_Subset
<1>3. S \in G
  <2> HIDE DEF G
  <2> QED
    BY <1>1, <1>2, PickInduction
<1> QED
  BY <1>3

\* Sums of two functions add up.
LEMMA SumPlus ==
  ASSUME NEW S, IsFiniteSet(S), NEW f, NEW g, NEW h,
         \A x \in S : f[x] \in Int /\ g[x] \in Int /\ h[x] = f[x] + g[x]
  PROVE  SumFunctionOnSet(h, S) = SumFunctionOnSet(f, S) + SumFunctionOnSet(g, S)
<1> DEFINE G == {T \in SUBSET S : SumFunctionOnSet(h, T) = SumFunctionOnSet(f, T) + SumFunctionOnSet(g, T)}
<1>1. {} \in G
  BY SumEmpty
<1>2. ASSUME NEW T \in SUBSET S, T # {}, T \ {Pick(T)} \in G PROVE T \in G
  <2> DEFINE c == Pick(T)
             R == T \ {c}
  <2>1. c \in S /\ IsFiniteSet(T) /\ IsFiniteSet(R) /\ R \subseteq S
    BY <1>2, PickIn, FS_Subset
  <2>2. /\ SumFunctionOnSet(f, T) = f[c] + SumFunctionOnSet(f, R)
        /\ SumFunctionOnSet(g, T) = g[c] + SumFunctionOnSet(g, R)
        /\ SumFunctionOnSet(h, T) = h[c] + SumFunctionOnSet(h, R)
    BY <1>2, <2>1, SumPick
  <2>3. SumFunctionOnSet(f, R) \in Int /\ SumFunctionOnSet(g, R) \in Int
    BY <2>1, SumInt
  <2>4. f[c] \in Int /\ g[c] \in Int /\ h[c] = f[c] + g[c]
    BY <2>1
  <2>5. SumFunctionOnSet(h, R) = SumFunctionOnSet(f, R) + SumFunctionOnSet(g, R)
    BY <1>2
  <2> HIDE DEF R, c
  <2> QED
    BY <2>2, <2>3, <2>4, <2>5
<1>3. S \in G
  <2> HIDE DEF G
  <2> QED
    BY <1>1, <1>2, PickInduction
<1> QED
  BY <1>3

\* A function that is zero everywhere.
LEMMA SumNothing ==
  ASSUME NEW S, IsFiniteSet(S), NEW f, \A x \in S : f[x] = 0
  PROVE  SumFunctionOnSet(f, S) = 0
<1> DEFINE G == {T \in SUBSET S : SumFunctionOnSet(f, T) = 0}
<1>1. {} \in G
  BY SumEmpty
<1>2. ASSUME NEW T \in SUBSET S, T # {}, T \ {Pick(T)} \in G PROVE T \in G
  BY <1>2, SumPick, PickIn, FS_Subset
<1>3. S \in G
  <2> HIDE DEF G
  <2> QED
    BY <1>1, <1>2, PickInduction
<1> QED
  BY <1>3

\* Any element can be taken out first, not only the picked one.
LEMMA SumSplit ==
  ASSUME NEW S, IsFiniteSet(S), NEW f, \A x \in S : f[x] \in Int, NEW a \in S
  PROVE  SumFunctionOnSet(f, S) = f[a] + SumFunctionOnSet(f, S \ {a})
<1> DEFINE Splits(T) == \A x \in T : SumFunctionOnSet(f, T) = f[x] + SumFunctionOnSet(f, T \ {x})
           G == {T \in SUBSET S : Splits(T)}
<1>1. ASSUME NEW T \in SUBSET S, \A U \in SUBSET T : U # T => U \in G PROVE T \in G
  <2> SUFFICES ASSUME NEW x \in T PROVE SumFunctionOnSet(f, T) = f[x] + SumFunctionOnSet(f, T \ {x})
    OBVIOUS
  <2> DEFINE c == Pick(T)
             R == T \ {c}
             X == T \ {x}
  <2>1. c \in T
    BY PickIn
  <2>2. SumFunctionOnSet(f, T) = f[c] + SumFunctionOnSet(f, R)
    BY FS_Subset, SumPick
  <2>3. CASE x = c
    BY <2>2, <2>3
  <2>4. CASE x # c
    <3>1. Splits(R) /\ Splits(X) /\ x \in R /\ c \in X /\ R \ {x} = X \ {c}
      BY <1>1, <2>1, <2>4
    <3>2. SumFunctionOnSet(f, R) = f[x] + SumFunctionOnSet(f, R \ {x})
      BY <3>1
    <3>3. SumFunctionOnSet(f, X) = f[c] + SumFunctionOnSet(f, R \ {x})
      BY <3>1
    <3>4. SumFunctionOnSet(f, R \ {x}) \in Int /\ f[x] \in Int /\ f[c] \in Int
      BY <2>1, SumInt, FS_Subset
    <3> HIDE DEF R, c
    <3> QED
      BY <2>2, <3>2, <3>3, <3>4
  <2> QED
    BY <2>3, <2>4
<1>2. S \in G
  <2> HIDE DEF G
  <2> QED
    BY <1>1, SubsetInduction
<1> QED
  BY <1>2

\* One element's part is the sum of a function that is zero elsewhere.
LEMMA SumOne ==
  ASSUME NEW S, IsFiniteSet(S), NEW f, NEW a \in S, f[a] \in Int, \A x \in S \ {a} : f[x] = 0
  PROVE  SumFunctionOnSet(f, S) = f[a]
<1> DEFINE G == {T \in SUBSET S : SumFunctionOnSet(f, T) = IF a \in T THEN f[a] ELSE 0}
<1>1. {} \in G
  BY SumEmpty
<1>2. ASSUME NEW T \in SUBSET S, T # {}, T \ {Pick(T)} \in G PROVE T \in G
  <2> DEFINE c == Pick(T)
             R == T \ {c}
  <2>1. c \in T /\ IsFiniteSet(T)
    BY <1>2, PickIn, FS_Subset
  <2>2. SumFunctionOnSet(f, T) = f[c] + SumFunctionOnSet(f, R)
    BY <1>2, <2>1, SumPick
  <2>3. SumFunctionOnSet(f, R) = IF a \in R THEN f[a] ELSE 0
    BY <1>2
  <2>4. CASE c = a
    BY <2>1, <2>2, <2>3, <2>4
  <2>5. CASE c # a
    BY <2>1, <2>2, <2>3, <2>5
  <2> QED
    BY <2>4, <2>5
<1>3. S \in G
  <2> HIDE DEF G
  <2> QED
    BY <1>1, <1>2, PickInduction
<1> QED
  BY <1>3

\* Changing one value changes the sum by as much.
LEMMA SumChange ==
  ASSUME NEW S, IsFiniteSet(S), NEW f, NEW g, NEW a \in S,
         \A x \in S : f[x] \in Int, g[a] \in Int, \A x \in S \ {a} : g[x] = f[x]
  PROVE  SumFunctionOnSet(g, S) = SumFunctionOnSet(f, S) + g[a] - f[a]
<1> DEFINE d == [x \in S |-> IF x = a THEN g[a] - f[a] ELSE 0]
<1>1. SumFunctionOnSet(d, S) = g[a] - f[a]
  BY SumOne
<1>2. \A x \in S : f[x] \in Int /\ d[x] \in Int /\ g[x] = f[x] + d[x]
  OBVIOUS
<1>3. SumFunctionOnSet(f, S) \in Int
  BY SumInt
<1> HIDE DEF d
<1>4. SumFunctionOnSet(g, S) = SumFunctionOnSet(f, S) + SumFunctionOnSet(d, S)
  BY <1>2, SumPlus
<1> QED
  BY <1>1, <1>3, <1>4

\* A sum over a part is a sum over the whole that counts nothing elsewhere.
LEMMA SumWithin ==
  ASSUME NEW S, IsFiniteSet(S), NEW f, NEW g, NEW P \in SUBSET S,
         \A x \in P : f[x] \in Int, \A x \in S : g[x] = IF x \in P THEN f[x] ELSE 0
  PROVE  SumFunctionOnSet(f, P) = SumFunctionOnSet(g, S)
<1> DEFINE Same(T) == SumFunctionOnSet(g, T) = SumFunctionOnSet(g, T \cap P)
           G == {T \in SUBSET S : Same(T)}
<1>1. {} \in G
  OBVIOUS
<1>2. ASSUME NEW T \in SUBSET S, T # {}, T \ {Pick(T)} \in G PROVE T \in G
  <2> DEFINE c == Pick(T)
             R == T \ {c}
  <2>1. c \in T /\ IsFiniteSet(T) /\ IsFiniteSet(T \cap P)
    BY <1>2, PickIn, FS_Subset
  <2>2. SumFunctionOnSet(g, T) = g[c] + SumFunctionOnSet(g, R)
    BY <1>2, <2>1, SumPick
  <2>3. SumFunctionOnSet(g, R) = SumFunctionOnSet(g, R \cap P)
    BY <1>2
  <2>4. CASE c \in P
    <3>1. c \in T \cap P /\ (T \cap P) \ {c} = R \cap P
      BY <2>1, <2>4
    <3>2. \A x \in T \cap P : g[x] \in Int
      OBVIOUS
    <3>3. SumFunctionOnSet(g, T \cap P) = g[c] + SumFunctionOnSet(g, R \cap P)
      BY <2>1, <3>1, <3>2, SumSplit
    <3> QED
      BY <2>2, <2>3, <3>3
  <2>5. CASE c \notin P
    <3>1. R \cap P = T \cap P /\ g[c] = 0
      BY <2>1, <2>5
    <3>2. SumFunctionOnSet(g, T \cap P) \in Int
      BY <2>1, SumInt
    <3>3. SumFunctionOnSet(g, R) = SumFunctionOnSet(g, T \cap P)
      BY <2>3, <3>1
    <3>4. SumFunctionOnSet(g, T) = 0 + SumFunctionOnSet(g, T \cap P)
      BY <2>2, <3>1, <3>3
    <3> QED
      BY <3>2, <3>4
  <2> QED
    BY <2>4, <2>5
<1>3. S \in G
  <2> HIDE DEF G
  <2> QED
    BY <1>1, <1>2, PickInduction
<1>4. S \cap P = P /\ IsFiniteSet(P) /\ \A x \in P : g[x] = f[x]
  BY FS_Subset
<1>5. SumFunctionOnSet(g, P) = SumFunctionOnSet(f, P)
  BY <1>4, SumSame
<1> QED
  BY <1>3, <1>4, <1>5

\* Greater parts make a greater sum.
LEMMA SumAtMost ==
  ASSUME NEW S, IsFiniteSet(S), NEW f, NEW g, \A x \in S : f[x] \in Int /\ g[x] \in Int /\ f[x] <= g[x]
  PROVE  SumFunctionOnSet(f, S) <= SumFunctionOnSet(g, S)
<1> DEFINE d == [x \in S |-> g[x] - f[x]]
<1>1. \A x \in S : d[x] \in Nat /\ d[x] \in Int /\ f[x] \in Int /\ g[x] = f[x] + d[x]
  OBVIOUS
<1> HIDE DEF d
<1>2. \A x \in S : d[x] \in Nat
  BY <1>1
<1>3. SumFunctionOnSet(d, S) \in Nat
  BY <1>2, SumNat
<1>4. SumFunctionOnSet(g, S) = SumFunctionOnSet(f, S) + SumFunctionOnSet(d, S)
  BY <1>1, SumPlus
<1>5. SumFunctionOnSet(f, S) \in Int
  BY <1>1, SumInt
<1> QED
  BY <1>3, <1>4, <1>5

\* What a key puts under a.
Keyed(S, key, a) == {x \in S : key[x] = a}

\* A sum taken group by group is the sum; what belongs to no group counts for nothing.
LEMMA SumGrouped ==
  ASSUME NEW S, IsFiniteSet(S), NEW K, IsFiniteSet(K), NEW f, NEW key, NEW sums,
         \A x \in S : f[x] \in Int /\ (key[x] \in K \/ f[x] = 0),
         \A a \in K : sums[a] = SumFunctionOnSet(f, Keyed(S, key, a))
  PROVE  SumFunctionOnSet(sums, K) = SumFunctionOnSet(f, S)
<1> DEFINE Group(T, a) == {x \in T : key[x] = a}
           Groups(T) == [a \in K |-> SumFunctionOnSet(f, Group(T, a))]
           G == {T \in SUBSET S : SumFunctionOnSet(Groups(T), K) = SumFunctionOnSet(f, T)}
<1>1. {} \in G
  <2>1. \A a \in K : Groups({})[a] = 0
    <3>1. \A a \in K : Group({}, a) = {}
      OBVIOUS
    <3> QED
      BY <3>1, SumEmpty
  <2> HIDE DEF Groups
  <2>2. SumFunctionOnSet(Groups({}), K) = 0
    BY <2>1, SumNothing
  <2> QED
    BY <2>2, SumEmpty
<1>2. ASSUME NEW T \in SUBSET S, T # {}, T \ {Pick(T)} \in G PROVE T \in G
  <2> DEFINE c == Pick(T)
             R == T \ {c}
             g == Groups(T)
             h == Groups(R)
  <2>1. c \in T /\ c \in S /\ IsFiniteSet(T) /\ IsFiniteSet(R) /\ R \subseteq S
    BY <1>2, PickIn, FS_Subset
  <2>2. SumFunctionOnSet(f, T) = f[c] + SumFunctionOnSet(f, R)
    BY <1>2, <2>1, SumPick
  <2>3. SumFunctionOnSet(h, K) = SumFunctionOnSet(f, R)
    BY <1>2
  <2>4. \A a \in K : IsFiniteSet(Group(R, a)) /\ IsFiniteSet(Group(T, a))
    BY <2>1, FS_Subset
  <2>5. \A a \in K : h[a] \in Int
    <3> SUFFICES ASSUME NEW a \in K PROVE SumFunctionOnSet(f, Group(R, a)) \in Int
      OBVIOUS
    <3>1. IsFiniteSet(Group(R, a)) /\ \A x \in Group(R, a) : f[x] \in Int
      BY <2>1, <2>4
    <3> HIDE DEF Group
    <3> QED
      BY <3>1, SumInt
  <2>6. \A a \in K : a # key[c] => g[a] = h[a]
    <3> SUFFICES ASSUME NEW a \in K, a # key[c] PROVE Group(T, a) = Group(R, a)
      OBVIOUS
    <3> QED
      BY <2>1
  <2>7. key[c] \in K => g[key[c]] = h[key[c]] + f[c]
    <3> SUFFICES ASSUME key[c] \in K PROVE g[key[c]] = h[key[c]] + f[c]
      OBVIOUS
    <3> DEFINE A == Group(T, key[c])
               B == Group(R, key[c])
    <3>1. c \in A /\ B = A \ {c} /\ IsFiniteSet(A) /\ \A x \in A : f[x] \in Int
      BY <2>1, <2>4
    <3>2. SumFunctionOnSet(f, A) = f[c] + SumFunctionOnSet(f, B)
      <4> HIDE DEF A, B, c
      <4> QED
        BY <3>1, SumSplit
    <3>3. SumFunctionOnSet(f, B) \in Int /\ f[c] \in Int
      BY <2>1, <2>5
    <3>4. g[key[c]] = SumFunctionOnSet(f, A) /\ h[key[c]] = SumFunctionOnSet(f, B)
      OBVIOUS
    <3> HIDE DEF A, B, g, h, c
    <3> QED
      BY <3>2, <3>3, <3>4
  <2>8. SumFunctionOnSet(f, R) \in Int /\ f[c] \in Int
    BY <2>1, SumInt
  <2>9. SumFunctionOnSet(g, K) = SumFunctionOnSet(h, K) + f[c]
    <3>1. CASE key[c] \in K
      <4> DEFINE b == key[c]
      <4>1. b \in K /\ g[b] \in Int /\ g[b] = h[b] + f[c] /\ h[b] \in Int
        <5> HIDE DEF g, h, c
        <5> QED
          BY <2>5, <2>7, <2>8, <3>1
      <4>2. \A a \in K \ {b} : g[a] = h[a]
        BY <2>6
      <4> HIDE DEF g, h, c, b
      <4>3. SumFunctionOnSet(g, K) = SumFunctionOnSet(h, K) + g[b] - h[b]
        BY <2>5, <4>1, <4>2, SumChange
      <4>4. SumFunctionOnSet(h, K) \in Int
        BY <2>5, SumInt
      <4> QED
        BY <2>8, <4>1, <4>3, <4>4
    <3>2. CASE key[c] \notin K
      <4>1. f[c] = 0 /\ \A a \in K : g[a] = h[a]
        BY <2>1, <2>6, <3>2
      <4> HIDE DEF g, h, c
      <4>2. SumFunctionOnSet(g, K) = SumFunctionOnSet(h, K) /\ SumFunctionOnSet(h, K) \in Int
        BY <2>5, <4>1, SumSame, SumInt
      <4> QED
        BY <4>1, <4>2
    <3> QED
      BY <3>1, <3>2
  <2> HIDE DEF c, R, g, h
  <2>10. SumFunctionOnSet(g, K) = SumFunctionOnSet(f, T)
    BY <2>2, <2>3, <2>8, <2>9
  <2> QED
    BY <2>10 DEF g
<1>3. S \in G
  <2> HIDE DEF G
  <2> QED
    BY <1>1, <1>2, PickInduction
<1>4. \A a \in K : sums[a] = Groups(S)[a]
  BY DEF Keyed
<1>5. SumFunctionOnSet(Groups(S), K) = SumFunctionOnSet(f, S)
  BY <1>3
<1> HIDE DEF Groups
<1> QED
  BY <1>4, <1>5, SumSame

-----------------------------------------------------------------------------
(* Whole division, and induction over a range *)

LEMMA DivBounds ==
  ASSUME NEW x \in Nat, NEW n \in Nat \ {0}
  PROVE  /\ x \div n \in Nat /\ n * (x \div n) <= x /\ x < n * (x \div n) + n
OBVIOUS

LEMMA MultMono ==
  ASSUME NEW a \in Int, NEW b \in Int, a <= b, NEW n \in Nat
  PROVE  n * a <= n * b
OBVIOUS

\* Induction over a range of numbers.
LEMMA RangeInduction ==
  ASSUME NEW n \in Nat, NEW G, 0 \in G, \A i \in 1 .. n : i - 1 \in G => i \in G
  PROVE  \A i \in 0 .. n : i \in G
<1> DEFINE S == 0 .. n
           B == {0 .. i : i \in S \ G}
<1>1. SUFFICES ASSUME NEW i \in 0 .. n, i \notin G PROVE FALSE
  OBVIOUS
<1>2. B # {} /\ B \subseteq SUBSET S /\ IsFiniteSet(S)
  <2>1. 0 .. i \in B
    BY <1>1
  <2>2. \A k \in S : 0 .. k \subseteq S
    OBVIOUS
  <2>3. B \subseteq SUBSET S
    BY <2>2
  <2>4. IsFiniteSet(S)
    BY FS_Interval
  <2> QED
    BY <2>1, <2>3, <2>4
<1>3. PICK T \in B : \A U \in B : U \subseteq T => U = T
  <2> HIDE DEF S, B
  <2> QED
    BY <1>2, SmallestSet
<1>4. PICK k \in (0 .. n) \ G : T = 0 .. k
  BY <1>3
<1>5. k \in 1 .. n /\ k - 1 \in (0 .. n) \ G
  BY <1>4
<1>6. 0 .. (k - 1) \in B /\ 0 .. (k - 1) \subseteq T /\ k \in T /\ k \notin 0 .. (k - 1)
  BY <1>4, <1>5
<1> QED
  BY <1>3, <1>6
=============================================================================
