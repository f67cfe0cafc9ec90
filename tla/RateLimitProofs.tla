--------------------------- MODULE RateLimitProofs ---------------------------
(***************************************************************************)
(* For any workers, keys, limits and length of the window: every counter   *)
(* is the limiter that is promised, which is the refinement of Admission,  *)
(* and what is let in within the time of a window is bounded.              *)
(*                                                                         *)
(* Sums over the ticks of a window and over the workers are reasoned about *)
(* by induction in the form of a set of numbers (lemma Induction).         *)
(***************************************************************************)
EXTENDS RateLimit, FiniteSetTheorems, WellFoundedInduction, TLAPS

-----------------------------------------------------------------------------
(* One bucket *)

Capped(b, k) == b \in Bucket /\ b.count <= Limit[k] + 1

LeftOf(b, k) == IF Over(b) THEN Limit[k] ELSE Quota(b.count, k)

\* What a hit makes of a bucket, in either limiter.
LEMMA HitCounts ==
    ASSUME NEW k \in Keys, NEW b, Capped(b, k)
    PROVE  /\ Capped(Hit(b, k), k)
           /\ ~Over(Hit(b, k))
           /\ Hit(b, k).count = IF Over(b) THEN 1 ELSE CountUp(b.count, k)
<1> USE WindowAssumption
<1>1. Limit[k] \in Nat /\ Limit[k] > 0
  BY LimitAssumption
<1>2. b.age \in 0 .. Window /\ b.count \in Nat /\ b.count <= Limit[k] + 1
  BY DEF Capped, Bucket
<1>3. CountUp(b.count, k) \in Nat /\ CountUp(b.count, k) <= Limit[k] + 1
  BY <1>1, <1>2 DEF CountUp
<1>4. Capped(HitInProcess(b, k), k) /\ ~Over(HitInProcess(b, k))
  BY <1>1, <1>2, <1>3 DEF HitInProcess, Over, Capped, Bucket
<1>5. Capped(HitRedis(b, k), k) /\ ~Over(HitRedis(b, k))
  BY <1>1, <1>2, <1>3 DEF HitRedis, Over, Capped, Bucket
<1> QED
  BY <1>4, <1>5 DEF Hit, HitInProcess, HitRedis

\* A hit is let in exactly when something was left, and then takes one.
LEMMA HitTakes ==
    ASSUME NEW k \in Keys, NEW b, Capped(b, k)
    PROVE  /\ LeftOf(b, k) \in Nat
           /\ Hit(b, k).count <= Limit[k] =>
                 /\ LeftOf(b, k) > 0
                 /\ LeftOf(Hit(b, k), k) = LeftOf(b, k) - 1
           /\ ~(Hit(b, k).count <= Limit[k]) =>
                 /\ LeftOf(b, k) = 0
                 /\ LeftOf(Hit(b, k), k) = 0
<1>1. Limit[k] \in Nat /\ Limit[k] > 0
  BY LimitAssumption
<1>2. b.count \in Nat
  BY DEF Capped, Bucket
<1> QED
  BY <1>1, <1>2, HitCounts DEF LeftOf, Quota, CountUp

\* Time leaves a bucket as it is, or ends its window.
LEMMA TimeRenews ==
    ASSUME NEW k \in Keys, NEW b, Capped(b, k)
    PROVE  LET c == [b EXCEPT !.age = Older(@)]
           IN  /\ Capped(c, k)
               /\ LeftOf(c, k) = IF Over(c) THEN Limit[k] ELSE LeftOf(b, k)
<1> DEFINE c == [b EXCEPT !.age = Older(@)]
<1>1. b.age \in 0 .. Window /\ b.count \in Nat /\ Window \in Nat
  BY WindowAssumption DEF Capped, Bucket
<1>2. c = [age |-> Older(b.age), count |-> b.count]
  BY DEF Capped, Bucket
<1>3. Older(b.age) \in 0 .. Window
  BY <1>1 DEF Older
<1>4. Capped(c, k)
  BY <1>1, <1>2, <1>3 DEF Capped, Bucket
<1>5. Over(b) => Over(c)
  BY <1>1, <1>2 DEF Over, Older
<1> QED
  BY <1>2, <1>4, <1>5 DEF LeftOf

-----------------------------------------------------------------------------
(* Types *)

LEMMA StoreType == ASSUME NEW w \in Workers PROVE Store(w) \in Stores
BY DEF Store, Stores

LEMMA InitType == Init => TypeOK
<1> SUFFICES ASSUME Init PROVE TypeOK
  OBVIOUS
<1>1. bucket \in [Stores -> [Keys -> Bucket]]
  BY WindowAssumption DEF Init, Bucket
<1>2. ASSUME NEW s \in Stores, NEW k \in Keys
      PROVE  bucket[s][k].count <= Limit[k] + 1
  BY LimitAssumption DEF Init
<1> QED
  BY <1>1, <1>2 DEF Init, TypeOK, Answers

LEMMA DispatchType ==
    ASSUME TypeOK, NEW w \in Workers, NEW k \in Keys, Dispatch(w, k)
    PROVE  TypeOK'
<1> DEFINE s == Store(w)
           b == bucket[s][k]
<1>1. s \in Stores
  BY StoreType
<1>2. Capped(b, k)
  BY <1>1 DEF TypeOK, Capped
<1>3. Capped(Hit(b, k), k)
  BY <1>2, HitCounts
<1>4. bucket' = [bucket EXCEPT ![s][k] = Hit(b, k)]
  BY DEF Dispatch
<1>5. bucket' \in [Stores -> [Keys -> Bucket]]
  BY <1>1, <1>3, <1>4 DEF TypeOK, Capped
<1>6. ASSUME NEW t \in Stores, NEW j \in Keys
      PROVE  bucket'[t][j].count <= Limit[j] + 1
  BY <1>1, <1>3, <1>4 DEF TypeOK, Capped
<1>7. /\ answer' \in [Stores -> [Keys -> Answers]]
      /\ last' \in [Keys -> Answers]
      /\ backend' = backend
  BY <1>1 DEF TypeOK, Dispatch, Answers
<1>8. admitted' \in [Keys -> [0 .. Window - 1 -> Nat]]
  BY WindowAssumption DEF TypeOK, Dispatch
<1> QED
  BY <1>5, <1>6, <1>7, <1>8 DEF TypeOK

LEMMA TickType ==
    ASSUME TypeOK, Tick
    PROVE  TypeOK'
<1>1. ASSUME NEW s \in Stores, NEW k \in Keys
      PROVE  Capped([bucket[s][k] EXCEPT !.age = Older(@)], k)
  BY TimeRenews DEF TypeOK, Capped
<1>2. /\ bucket' \in [Stores -> [Keys -> Bucket]]
      /\ \A s \in Stores, k \in Keys : bucket'[s][k].count <= Limit[k] + 1
  BY <1>1 DEF Tick, Capped
<1>3. admitted' \in [Keys -> [0 .. Window - 1 -> Nat]]
  <2>1. ASSUME NEW k \in Keys, NEW t \in 0 .. Window - 1, t # 0
        PROVE  admitted[k][t - 1] \in Nat
    BY <2>1, WindowAssumption DEF TypeOK
  <2> QED
    BY <2>1 DEF Tick
<1> QED
  BY <1>2, <1>3 DEF TypeOK, Tick

\* Buckets, answers and the history have their types, and no count is kept that is
\* more than one above its limit.
THEOREM TypeCorrect == Spec => []TypeOK
<1>1. TypeOK /\ [Next]_vars => TypeOK'
  <2> SUFFICES ASSUME TypeOK, [Next]_vars PROVE TypeOK'
    OBVIOUS
  <2>1. CASE Tick
    BY <2>1, TickType
  <2>2. ASSUME NEW w \in Workers, NEW k \in Keys, Dispatch(w, k) PROVE TypeOK'
    BY <2>2, DispatchType
  <2>3. CASE UNCHANGED vars
    BY <2>3 DEF vars, TypeOK
  <2> QED
    BY <2>1, <2>2, <2>3 DEF Next
<1> QED
  BY <1>1, InitType, PTL DEF Spec

-----------------------------------------------------------------------------
(* The refinement *)

Granted == [c \in Counters |-> Limit[c[2]]]
Told == [c \in Counters |-> answer[c[1]][c[2]]]

LEMMA LeftIsLeftOf ==
    /\ Left = [c \in Counters |-> LeftOf(bucket[c[1]][c[2]], c[2])]
    /\ Left' = [c \in Counters |-> LeftOf(bucket'[c[1]][c[2]], c[2])]
BY DEF Left, LeftOf, Over, Quota

LEMMA InitPromised == Init => Promised!Init
<1> SUFFICES ASSUME Init PROVE Promised!Init
  OBVIOUS
<1>1. ASSUME NEW c \in Counters
      PROVE  LeftOf(bucket[c[1]][c[2]], c[2]) = Limit[c[2]] /\ answer[c[1]][c[2]] = "none"
  <2>1. c[1] \in Stores /\ c[2] \in Keys
    BY DEF Counters
  <2>2. bucket[c[1]][c[2]].count = 0 /\ answer[c[1]][c[2]] = "none"
    BY <2>1 DEF Init
  <2>3. Limit[c[2]] \in Nat
    BY <2>1, LimitAssumption
  <2> QED
    BY <2>2, <2>3 DEF LeftOf, Quota
<1> QED
  BY <1>1, LeftIsLeftOf DEF Promised!Init

LEMMA DispatchPromised ==
    ASSUME TypeOK, NEW w \in Workers, NEW k \in Keys, Dispatch(w, k)
    PROVE  Promised!Next
<1> DEFINE s == Store(w)
           b == bucket[s][k]
           c == <<s, k>>
           told == IF Hit(b, k).count <= Limit[k] THEN "in" ELSE "out"
<1>1. s \in Stores /\ c \in Counters /\ c[1] = s /\ c[2] = k
  BY StoreType DEF Counters
<1>2. Capped(b, k)
  BY <1>1 DEF TypeOK, Capped
<1>3. /\ bucket' = [bucket EXCEPT ![s][k] = Hit(b, k)]
      /\ answer' = [answer EXCEPT ![s][k] = told]
  BY DEF Dispatch
<1>4. /\ bucket'[s][k] = Hit(b, k)
      /\ answer'[s][k] = told
      /\ \A d \in Counters \ {c} : /\ bucket'[d[1]][d[2]] = bucket[d[1]][d[2]]
                                   /\ answer'[d[1]][d[2]] = answer[d[1]][d[2]]
  <2>1. bucket'[s][k] = Hit(b, k) /\ answer'[s][k] = told
    BY <1>1, <1>3 DEF TypeOK
  <2>2. ASSUME NEW d \in Counters \ {c}
        PROVE  /\ bucket'[d[1]][d[2]] = bucket[d[1]][d[2]]
               /\ answer'[d[1]][d[2]] = answer[d[1]][d[2]]
    <3>1. d[1] \in Stores /\ d[2] \in Keys /\ d = <<d[1], d[2]>>
      BY DEF Counters
    <3>2. d[1] # s \/ d[2] # k
      BY <3>1
    <3> QED
      BY <1>1, <1>3, <3>1, <3>2 DEF TypeOK
  <2> QED
    BY <2>1, <2>2
<1>5. Told' = [Told EXCEPT ![c] = told]
  BY <1>1, <1>4 DEF Told
<1>6. Left[c] = LeftOf(b, k)
  BY <1>1, LeftIsLeftOf
<1>7. Left' = [Left EXCEPT ![c] = LeftOf(Hit(b, k), k)]
  BY <1>1, <1>4, LeftIsLeftOf
<1>8. CASE Hit(b, k).count <= Limit[k]
  <2>1. Left[c] > 0 /\ Left' = [Left EXCEPT ![c] = @ - 1]
    BY <1>1, <1>2, <1>6, <1>7, <1>8, HitTakes
  <2>2. Told' = [Told EXCEPT ![c] = "in"]
    BY <1>5, <1>8
  <2>3. Promised!LetIn(c)
    BY <2>1, <2>2 DEF Promised!LetIn, Told
  <2> QED
    BY <1>1, <2>3 DEF Promised!Next, Promised!LetIn
<1>9. CASE ~(Hit(b, k).count <= Limit[k])
  <2>1. Left[c] = 0 /\ Left' = [Left EXCEPT ![c] = 0]
    BY <1>2, <1>6, <1>7, <1>9, HitTakes
  <2>2. Left' = Left
    BY <1>1, <2>1, LeftIsLeftOf
  <2>3. Told' = [Told EXCEPT ![c] = "out"]
    BY <1>5, <1>9
  <2>4. Promised!KeepOut(c)
    BY <2>1, <2>2, <2>3 DEF Promised!KeepOut, Told
  <2> QED
    BY <1>1, <2>4 DEF Promised!Next, Promised!KeepOut
<1> QED
  BY <1>8, <1>9

LEMMA TickPromised ==
    ASSUME TypeOK, Tick
    PROVE  Promised!Next
<1> DEFINE K == {c \in Counters : Over(bucket'[c[1]][c[2]])}
<1>1. ASSUME NEW c \in Counters
      PROVE  LeftOf(bucket'[c[1]][c[2]], c[2]) =
                IF c \in K THEN Granted[c] ELSE LeftOf(bucket[c[1]][c[2]], c[2])
  <2>1. c[1] \in Stores /\ c[2] \in Keys
    BY DEF Counters
  <2>2. bucket'[c[1]][c[2]] = [bucket[c[1]][c[2]] EXCEPT !.age = Older(@)]
    BY <2>1 DEF Tick
  <2>3. Capped(bucket[c[1]][c[2]], c[2])
    BY <2>1 DEF TypeOK, Capped
  <2> QED
    BY <2>1, <2>2, <2>3, TimeRenews DEF Granted
<1>2. Left' = [c \in Counters |-> IF c \in K THEN Granted[c] ELSE Left[c]]
  BY <1>1, LeftIsLeftOf
<1>3. K \in SUBSET Counters
  OBVIOUS
<1>4. Told' = Told
  BY DEF Tick, Told
<1>5. Promised!Renew
  BY <1>2, <1>3, <1>4 DEF Promised!Renew, Told, Granted
<1> QED
  BY <1>5 DEF Promised!Next

\* Each counter, of each worker and of Redis, is a limiter as Admission describes
\* it, for any limits, window and number of workers (InProcessLimiter.check,
\* RedisLimiter.check).
THEOREM CountersKeepPromise == Spec => KeepsPromise
<1>1. TypeOK /\ [Next]_vars => [Promised!Next]_(Promised!vars)
  <2> SUFFICES ASSUME TypeOK, [Next]_vars PROVE [Promised!Next]_(Promised!vars)
    OBVIOUS
  <2>1. CASE Tick
    BY <2>1, TickPromised
  <2>2. ASSUME NEW w \in Workers, NEW k \in Keys, Dispatch(w, k)
        PROVE  Promised!Next
    BY <2>2, DispatchPromised
  <2>3. CASE UNCHANGED vars
    BY <2>3 DEF vars, Promised!vars, Left
  <2> QED
    BY <2>1, <2>2, <2>3 DEF Next
<1> QED
  BY <1>1, InitPromised, TypeCorrect, PTL DEF Spec, KeepsPromise, Promised!Spec

-----------------------------------------------------------------------------
(* Induction, and sums *)

LEMMA Least ==
    ASSUME NEW T \in SUBSET Nat, T # {}
    PROVE  \E x \in T : \A y \in T : x <= y
<1> DEFINE R == OpToRel(<, Nat)
<1>1. IsWellFoundedOn(R, Nat)
  BY NatLessThanWellFounded
<1>2. \A x, y \in Nat : <<x, y>> \in R <=> x < y
  BY DEF OpToRel
<1> HIDE DEF R
<1>3. PICK x \in T : \A y \in T : ~ (<<y, x>> \in R)
  BY <1>1, WFMin
<1>4. ASSUME NEW y \in T PROVE x <= y
  <2>1. x \in Nat /\ y \in Nat
    OBVIOUS
  <2>2. ~(y < x)
    BY <1>2, <1>3, <2>1
  <2> QED
    BY <2>1, <2>2
<1> QED
  BY <1>4

\* Induction over the natural numbers, for a set.
LEMMA Induction ==
    ASSUME NEW S, 0 \in S, \A n \in Nat : n \in S => n + 1 \in S
    PROVE  Nat \subseteq S
<1> DEFINE T == Nat \ S
<1>1. SUFFICES ASSUME T # {} PROVE FALSE
  OBVIOUS
<1>2. PICK x \in T : \A y \in T : x <= y
  BY <1>1, Least
<1>3. x - 1 \in Nat /\ x - 1 \notin T
  BY <1>2
<1> QED
  BY <1>2, <1>3

\* What the definition of Total says of its sums.
IsSum(g, f, n) ==
    /\ g = [i \in 0 .. n |-> g[i]]
    /\ g[0] = 0
    /\ \A i \in 1 .. n : g[i] = g[i - 1] + f[i - 1]

LEMMA SumExists ==
    ASSUME NEW f, NEW n \in Nat
    PROVE  \E g : IsSum(g, f, n)
<1> DEFINE S == {k \in Nat : \E g : IsSum(g, f, k)}
<1>1. 0 \in S
  <2> DEFINE g == [i \in 0 .. 0 |-> 0]
  <2>1. IsSum(g, f, 0)
    BY DEF IsSum
  <2> QED
    BY <2>1
<1>2. ASSUME NEW k \in Nat, k \in S
      PROVE  k + 1 \in S
  <2>1. PICK g : IsSum(g, f, k)
    BY <1>2
  <2> DEFINE h == [i \in 0 .. k + 1 |-> IF i = k + 1 THEN g[k] + f[k] ELSE g[i]]
  <2>6. h = [i \in 0 .. k + 1 |-> h[i]]
    OBVIOUS
  <2>2. /\ h[0] = 0
        /\ \A i \in 0 .. k : h[i] = g[i]
        /\ h[k + 1] = g[k] + f[k]
    BY <2>1 DEF IsSum
  <2> HIDE DEF h
  <2>3. ASSUME NEW i \in 1 .. k + 1
        PROVE  h[i] = h[i - 1] + f[i - 1]
    <3>1. CASE i = k + 1
      BY <2>2, <3>1
    <3>2. CASE i # k + 1
      <4>1. i \in 1 .. k /\ i \in 0 .. k /\ i - 1 \in 0 .. k
        BY <3>2
      <4> QED
        BY <2>1, <2>2, <4>1 DEF IsSum
    <3> QED
      BY <3>1, <3>2
  <2>4. IsSum(h, f, k + 1)
    BY <2>2, <2>3, <2>6 DEF IsSum
  <2> QED
    BY <2>4
<1> HIDE DEF S
<1>3. Nat \subseteq S
  BY <1>1, <1>2, Induction
<1> QED
  BY <1>3 DEF S

\* There is one such sum, as far as it goes.
LEMMA SumUnique ==
    ASSUME NEW f, NEW m \in Nat, NEW n \in Nat, NEW g, NEW h,
           IsSum(g, f, m), IsSum(h, f, n), m <= n
    PROVE  \A i \in 0 .. m : g[i] = h[i]
<1> DEFINE S == {i \in Nat : i <= m => g[i] = h[i]}
<1>1. 0 \in S
  BY DEF IsSum
<1>2. ASSUME NEW i \in Nat, i \in S
      PROVE  i + 1 \in S
  <2> SUFFICES ASSUME i + 1 <= m PROVE g[i + 1] = h[i + 1]
    OBVIOUS
  <2>1. i + 1 \in 1 .. m /\ i + 1 \in 1 .. n /\ (i + 1) - 1 = i /\ g[i] = h[i]
    BY <1>2
  <2>2. g[i + 1] = g[i] + f[i] /\ h[i + 1] = h[i] + f[i]
    BY <2>1 DEF IsSum
  <2> QED
    BY <2>1, <2>2
<1> HIDE DEF S
<1>3. Nat \subseteq S
  BY <1>1, <1>2, Induction
<1> QED
  BY <1>3 DEF S

LEMMA TotalIsSum ==
    ASSUME NEW f, NEW n \in Nat
    PROVE  \E g : IsSum(g, f, n) /\ Total(f, n) = g[n]
<1> DEFINE Rule(g) == [i \in 0 .. n |-> IF i = 0 THEN 0 ELSE g[i - 1] + f[i - 1]]
           sum == CHOOSE g : g = Rule(g)
<1>1. PICK g : IsSum(g, f, n)
  BY SumExists
<1>2. g = Rule(g)
  <2>1. \A i \in 0 .. n : i # 0 => i \in 1 .. n
    OBVIOUS
  <2>2. \A i \in 0 .. n : g[i] = IF i = 0 THEN 0 ELSE g[i - 1] + f[i - 1]
    BY <1>1, <2>1 DEF IsSum
  <2>3. g = [i \in 0 .. n |-> g[i]]
    BY <1>1 DEF IsSum
  <2> QED
    BY <2>2, <2>3
<1>3. Total(f, n) = sum[n]
  BY DEF Total
<1>4. PICK h : h = sum
  OBVIOUS
<1>5. h = Rule(h)
  BY <1>2, <1>4
<1> HIDE DEF sum
<1>6. IsSum(h, f, n)
  <2>1. h = [i \in 0 .. n |-> h[i]]
    BY <1>5
  <2>2. h[0] = 0
    BY <1>5
  <2>3. ASSUME NEW i \in 1 .. n
        PROVE  h[i] = h[i - 1] + f[i - 1]
    <3>1. i \in 0 .. n /\ i # 0
      OBVIOUS
    <3> QED
      BY <1>5, <3>1
  <2> QED
    BY <2>1, <2>2, <2>3 DEF IsSum
<1> QED
  BY <1>3, <1>4, <1>6

\* A sum begins at nothing and takes one value after the other.
LEMMA TotalSteps ==
    ASSUME NEW f
    PROVE  /\ Total(f, 0) = 0
           /\ \A n \in Nat : Total(f, n + 1) = Total(f, n) + f[n]
<1>1. Total(f, 0) = 0
  BY TotalIsSum DEF IsSum
<1>2. ASSUME NEW n \in Nat
      PROVE  Total(f, n + 1) = Total(f, n) + f[n]
  <2>1. PICK g : IsSum(g, f, n) /\ Total(f, n) = g[n]
    BY TotalIsSum
  <2>2. n + 1 \in Nat
    OBVIOUS
  <2>3. PICK h : IsSum(h, f, n + 1) /\ Total(f, n + 1) = h[n + 1]
    BY <2>2, TotalIsSum
  <2>4. n <= n + 1 /\ n \in 0 .. n
    OBVIOUS
  <2>5. g[n] = h[n]
    BY <2>1, <2>2, <2>3, <2>4, SumUnique
  <2>6. n + 1 \in 1 .. n + 1 /\ (n + 1) - 1 = n
    OBVIOUS
  <2>7. h[n + 1] = h[n] + f[n]
    BY <2>3, <2>6 DEF IsSum
  <2> QED
    BY <2>1, <2>3, <2>5, <2>7
<1> QED
  BY <1>1, <1>2

LEMMA TotalType ==
    ASSUME NEW f, NEW m \in Nat, \A i \in 0 .. m - 1 : f[i] \in Nat
    PROVE  \A n \in 0 .. m : Total(f, n) \in Nat
<1> DEFINE S == {n \in Nat : n <= m => Total(f, n) \in Nat}
<1>1. 0 \in S
  BY TotalSteps
<1>2. ASSUME NEW n \in Nat, n \in S
      PROVE  n + 1 \in S
  <2> SUFFICES ASSUME n + 1 <= m PROVE Total(f, n + 1) \in Nat
    OBVIOUS
  <2>1. n \in 0 .. m - 1 /\ Total(f, n) \in Nat
    BY <1>2
  <2>2. f[n] \in Nat /\ Total(f, n + 1) = Total(f, n) + f[n]
    BY <2>1, TotalSteps
  <2> QED
    BY <2>1, <2>2
<1> HIDE DEF S
<1>3. Nat \subseteq S
  BY <1>1, <1>2, Induction
<1> QED
  BY <1>3 DEF S

\* A sum of fewer values is no larger.
LEMMA TotalGrows ==
    ASSUME NEW f, NEW n \in Nat, \A i \in 0 .. n : f[i] \in Nat
    PROVE  Total(f, n) <= Total(f, n + 1)
<1>1. n + 1 \in Nat /\ n \in 0 .. n + 1 /\ (n + 1) - 1 = n
  OBVIOUS
<1>2. Total(f, n) \in Nat
  BY <1>1, TotalType
<1>3. f[n] \in Nat /\ Total(f, n + 1) = Total(f, n) + f[n]
  BY TotalSteps
<1> QED
  BY <1>2, <1>3

\* Larger values have a larger sum, and by one if one of them is.
LEMMA TotalRises ==
    ASSUME NEW f, NEW h, NEW m \in Nat, NEW l \in 0 .. m - 1, NEW d \in {0, 1},
           \A i \in 0 .. m - 1 : f[i] \in Nat /\ h[i] \in Nat /\ f[i] <= h[i],
           f[l] + d <= h[l]
    PROVE  Total(f, m) + d <= Total(h, m)
<1> DEFINE S == {n \in Nat : n <= m =>
                    Total(f, n) + (IF l < n THEN d ELSE 0) <= Total(h, n)}
<1>1. 0 \in S
  BY TotalSteps
<1>2. ASSUME NEW n \in Nat, n \in S
      PROVE  n + 1 \in S
  <2> SUFFICES ASSUME n + 1 <= m
               PROVE  Total(f, n + 1) + (IF l < n + 1 THEN d ELSE 0) <= Total(h, n + 1)
    OBVIOUS
  <2>1. /\ n \in 0 .. m - 1 /\ n \in 0 .. m
        /\ Total(f, n) + (IF l < n THEN d ELSE 0) <= Total(h, n)
    BY <1>2
  <2>2. Total(f, n) \in Nat /\ Total(h, n) \in Nat
    BY <2>1, TotalType
  <2>3. f[n] \in Nat /\ h[n] \in Nat /\ f[n] <= h[n] /\ (n = l => f[n] + d <= h[n])
    BY <2>1
  <2>4. Total(f, n + 1) = Total(f, n) + f[n] /\ Total(h, n + 1) = Total(h, n) + h[n]
    BY TotalSteps
  <2> QED
    BY <2>1, <2>2, <2>3, <2>4
<1> HIDE DEF S
<1>3. Nat \subseteq S
  BY <1>1, <1>2, Induction
<1>4. m \in S
  BY <1>3
<1> QED
  BY <1>4 DEF S

\* Values of at most c have a sum of at most c times their number.
LEMMA TotalBounded ==
    ASSUME NEW f, NEW m \in Nat, NEW c \in Nat,
           \A i \in 0 .. m - 1 : f[i] \in Nat /\ f[i] <= c
    PROVE  Total(f, m) <= c * m
<1> DEFINE S == {n \in Nat : n <= m => Total(f, n) <= c * n}
<1>1. 0 \in S
  BY TotalSteps
<1>2. ASSUME NEW n \in Nat, n \in S
      PROVE  n + 1 \in S
  <2> SUFFICES ASSUME n + 1 <= m PROVE Total(f, n + 1) <= c * (n + 1)
    OBVIOUS
  <2>1. n \in 0 .. m - 1 /\ n \in 0 .. m /\ Total(f, n) <= c * n
    BY <1>2
  <2>2. Total(f, n) \in Nat
    BY <2>1, TotalType
  <2>3. f[n] \in Nat /\ f[n] <= c /\ Total(f, n + 1) = Total(f, n) + f[n]
    BY <2>1, TotalSteps
  <2>4. c * (n + 1) = c * n + c /\ c * n \in Nat
    OBVIOUS
  <2> QED
    BY <2>1, <2>2, <2>3, <2>4
<1> HIDE DEF S
<1>3. Nat \subseteq S
  BY <1>1, <1>2, Induction
<1>4. m \in S
  BY <1>3
<1> QED
  BY <1>4 DEF S

\* One more in the first place is one more in every sum that has it.
LEMMA TotalFirst ==
    ASSUME NEW f, NEW h, NEW m \in Nat,
           \A i \in 0 .. m - 1 : f[i] \in Nat /\ h[i] = IF i = 0 THEN f[0] + 1 ELSE f[i]
    PROVE  \A n \in 1 .. m : Total(h, n) = Total(f, n) + 1
<1> DEFINE S == {n \in Nat : n + 1 <= m => Total(h, n + 1) = Total(f, n + 1) + 1}
<1>1. 0 \in S
  <2> SUFFICES ASSUME 0 + 1 <= m PROVE Total(h, 0 + 1) = Total(f, 0 + 1) + 1
    OBVIOUS
  <2>1. f[0] \in Nat /\ h[0] = f[0] + 1
    OBVIOUS
  <2>2. Total(h, 0 + 1) = 0 + h[0] /\ Total(f, 0 + 1) = 0 + f[0]
    <3>1. 0 \in Nat
      OBVIOUS
    <3>2. Total(h, 0) = 0 /\ Total(f, 0) = 0
      BY TotalSteps
    <3>3. Total(h, 0 + 1) = Total(h, 0) + h[0] /\ Total(f, 0 + 1) = Total(f, 0) + f[0]
      BY <3>1, TotalSteps
    <3> QED
      BY <3>2, <3>3
  <2> QED
    BY <2>1, <2>2
<1>2. ASSUME NEW n \in Nat, n \in S
      PROVE  n + 1 \in S
  <2> SUFFICES ASSUME (n + 1) + 1 <= m
               PROVE  Total(h, (n + 1) + 1) = Total(f, (n + 1) + 1) + 1
    OBVIOUS
  <2>1. /\ n + 1 \in Nat /\ n + 1 \in 0 .. m - 1 /\ n + 1 \in 0 .. m /\ n + 1 # 0
        /\ Total(h, n + 1) = Total(f, n + 1) + 1
    BY <1>2
  <2>2. Total(f, n + 1) \in Nat
    BY <2>1, TotalType
  <2>3. f[n + 1] \in Nat /\ h[n + 1] = f[n + 1]
    BY <2>1
  <2>4. /\ Total(f, (n + 1) + 1) = Total(f, n + 1) + f[n + 1]
        /\ Total(h, (n + 1) + 1) = Total(h, n + 1) + h[n + 1]
    BY <2>1, TotalSteps
  <2> QED
    BY <2>1, <2>2, <2>3, <2>4
<1> HIDE DEF S
<1>3. Nat \subseteq S
  BY <1>1, <1>2, Induction
<1>4. ASSUME NEW n \in 1 .. m
      PROVE  Total(h, n) = Total(f, n) + 1
  <2>1. n - 1 \in Nat /\ (n - 1) + 1 = n /\ n <= m
    OBVIOUS
  <2>2. n - 1 \in S
    BY <1>3, <2>1
  <2> QED
    BY <2>1, <2>2 DEF S
<1> QED
  BY <1>4

\* Moved by one place, with nothing in the first.
LEMMA TotalMoved ==
    ASSUME NEW f, NEW h, NEW m \in Nat,
           \A i \in 0 .. m - 1 : h[i] = IF i = 0 THEN 0 ELSE f[i - 1],
           \A i \in 0 .. m - 1 : f[i] \in Nat
    PROVE  \A n \in 0 .. m - 1 : Total(h, n + 1) = Total(f, n)
<1> DEFINE S == {n \in Nat : n + 1 <= m => Total(h, n + 1) = Total(f, n)}
<1>1. 0 \in S
  <2> SUFFICES ASSUME 0 + 1 <= m PROVE Total(h, 0 + 1) = Total(f, 0)
    OBVIOUS
  <2>1. h[0] = 0 /\ 0 \in Nat
    OBVIOUS
  <2>2. Total(h, 0 + 1) = Total(h, 0) + h[0]
    BY <2>1, TotalSteps
  <2> QED
    BY <2>1, <2>2, TotalSteps
<1>2. ASSUME NEW n \in Nat, n \in S
      PROVE  n + 1 \in S
  <2> SUFFICES ASSUME (n + 1) + 1 <= m
               PROVE  Total(h, (n + 1) + 1) = Total(f, n + 1)
    OBVIOUS
  <2>1. /\ n + 1 \in Nat /\ n + 1 \in 0 .. m - 1 /\ n + 1 # 0 /\ (n + 1) - 1 = n
        /\ Total(h, n + 1) = Total(f, n)
    BY <1>2
  <2>2. h[n + 1] = f[n]
    BY <2>1
  <2>3. /\ Total(f, n + 1) = Total(f, n) + f[n]
        /\ Total(h, (n + 1) + 1) = Total(h, n + 1) + h[n + 1]
    BY <2>1, TotalSteps
  <2> QED
    BY <2>1, <2>2, <2>3
<1> HIDE DEF S
<1>3. Nat \subseteq S
  BY <1>1, <1>2, Induction
<1>4. ASSUME NEW n \in 0 .. m - 1
      PROVE  Total(h, n + 1) = Total(f, n)
  <2>1. n \in Nat /\ n + 1 <= m
    OBVIOUS
  <2>2. n \in S
    BY <1>3, <2>1
  <2> QED
    BY <2>1, <2>2 DEF S
<1> QED
  BY <1>4

-----------------------------------------------------------------------------
(* What has been let in *)

\* The workers in some order.
Order == CHOOSE g \in [1 .. Cardinality(Workers) -> Workers] :
            \A w \in Workers : \E i \in 1 .. Cardinality(Workers) : g[i] = w

LEMMA OrderIs ==
    /\ Cardinality(Workers) \in Nat
    /\ Order \in [1 .. Cardinality(Workers) -> Workers]
    /\ \A w \in Workers : \E i \in 1 .. Cardinality(Workers) : Order[i] = w
<1> DEFINE N == Cardinality(Workers)
<1>1. N \in Nat /\ ExistsBijection(1 .. N, Workers)
  BY StoresAssumption, FS_CardinalityType
<1> HIDE DEF N
<1>2. PICK g : g \in Bijection(1 .. N, Workers)
  BY <1>1 DEF ExistsBijection
<1>3. g \in [1 .. N -> Workers] /\ \A w \in Workers : \E i \in 1 .. N : g[i] = w
  BY <1>2 DEF Bijection, Surjection
<1> QED
  BY <1>1, <1>3 DEF Order, N

LetInBy(b, k) == IF b.count <= Limit[k] THEN b.count ELSE Limit[k]

\* What a worker's bucket b of key k may have let in within the last n ticks.
Share(b, k, n) == LetInBy(b, k) + (IF b.age < n THEN Limit[k] ELSE 0)

Shares(buckets, k, n) ==
    [i \in 0 .. Cardinality(Workers) - 1 |-> Share(buckets[Order[i + 1]][k], k, n)]

\* Within any number of ticks no more than the workers' shares was let in.
Counted(f, buckets, k) ==
    \A n \in 0 .. Window :
        Total(f, n) <= Total(Shares(buckets, k, n), Cardinality(Workers))

\* Since its last hit Redis let nothing in, and within a window what it counted.
CountedByOne(f, b, k) ==
    /\ Total(f, b.age) = 0
    /\ Total(f, Window) <= LetInBy(b, k)

CInv ==
    \A k \in Keys :
        IF backend = "redis" THEN CountedByOne(admitted[k], bucket[Redis][k], k)
                             ELSE Counted(admitted[k], bucket, k)

LEMMA ShareType ==
    ASSUME NEW k \in Keys, NEW b, Capped(b, k), NEW n \in Nat
    PROVE  /\ LetInBy(b, k) \in Nat /\ LetInBy(b, k) <= Limit[k]
           /\ Share(b, k, n) \in Nat /\ Share(b, k, n) <= 2 * Limit[k]
BY LimitAssumption DEF LetInBy, Share, Capped, Bucket

\* A worker's hit adds to its share what it lets in.
LEMMA ShareHit ==
    ASSUME NEW k \in Keys, NEW b, Capped(b, k), NEW n \in 1 .. Window
    PROVE  Share(b, k, n) + (IF HitInProcess(b, k).count <= Limit[k] THEN 1 ELSE 0)
              <= Share(HitInProcess(b, k), k, n)
<1>1. Limit[k] \in Nat /\ Limit[k] > 0 /\ Window \in Nat
  BY LimitAssumption, WindowAssumption
<1>2. b.age \in 0 .. Window /\ b.count \in Nat /\ b.count <= Limit[k] + 1
  BY DEF Capped, Bucket
<1>3. CASE b.age = Window
  BY <1>1, <1>2, <1>3 DEF Share, LetInBy, HitInProcess, Over
<1>4. CASE b.age # Window
  BY <1>1, <1>2, <1>4 DEF Share, LetInBy, HitInProcess, Over, CountUp
<1> QED
  BY <1>3, <1>4

\* A tick moves it one tick back.
LEMMA ShareOlder ==
    ASSUME NEW k \in Keys, NEW b, Capped(b, k), NEW n \in 0 .. Window - 1
    PROVE  Share([b EXCEPT !.age = Older(@)], k, n + 1) = Share(b, k, n)
<1>1. b.age \in 0 .. Window /\ Window \in Nat /\ Limit[k] \in Nat
  BY LimitAssumption, WindowAssumption DEF Capped, Bucket
<1>2. [b EXCEPT !.age = Older(@)] = [age |-> Older(b.age), count |-> b.count]
  BY DEF Capped, Bucket
<1> QED
  BY <1>1, <1>2 DEF Share, LetInBy, Older

AllCapped(buckets) == \A s \in Stores, k \in Keys : Capped(buckets[s][k], k)

LEMMA SharesType ==
    ASSUME NEW buckets, AllCapped(buckets), NEW k \in Keys, NEW n \in Nat
    PROVE  \A i \in 0 .. Cardinality(Workers) - 1 :
              /\ i + 1 \in 1 .. Cardinality(Workers)
              /\ Order[i + 1] \in Workers
              /\ Shares(buckets, k, n)[i] = Share(buckets[Order[i + 1]][k], k, n)
              /\ Shares(buckets, k, n)[i] \in Nat
              /\ Shares(buckets, k, n)[i] <= 2 * Limit[k]
<1>1. ASSUME NEW i \in 0 .. Cardinality(Workers) - 1
      PROVE  /\ i + 1 \in 1 .. Cardinality(Workers)
             /\ Order[i + 1] \in Workers
             /\ Shares(buckets, k, n)[i] = Share(buckets[Order[i + 1]][k], k, n)
             /\ Shares(buckets, k, n)[i] \in Nat
             /\ Shares(buckets, k, n)[i] <= 2 * Limit[k]
  <2>1. i + 1 \in 1 .. Cardinality(Workers)
    BY OrderIs
  <2>2. Order[i + 1] \in Workers
    BY <2>1, OrderIs
  <2>3. Shares(buckets, k, n)[i] = Share(buckets[Order[i + 1]][k], k, n)
    BY DEF Shares
  <2>4. Capped(buckets[Order[i + 1]][k], k)
    BY <2>2 DEF AllCapped, Stores
  <2> QED
    BY <2>1, <2>2, <2>3, <2>4, ShareType
<1> QED
  BY <1>1

\* A worker's hit is counted, once.
LEMMA HitIsCounted ==
    ASSUME NEW k \in Keys, NEW w \in Workers, NEW f, NEW h, NEW old, NEW new,
           AllCapped(old), AllCapped(new), Counted(f, old, k),
           \A i \in 0 .. Window - 1 : f[i] \in Nat,
           new[w][k] = HitInProcess(old[w][k], k),
           \A v \in Workers \ {w} : new[v][k] = old[v][k],
           IF HitInProcess(old[w][k], k).count <= Limit[k]
           THEN \A i \in 0 .. Window - 1 : h[i] = IF i = 0 THEN f[0] + 1 ELSE f[i]
           ELSE h = f
    PROVE  Counted(h, new, k)
<1> DEFINE N == Cardinality(Workers)
           d == IF HitInProcess(old[w][k], k).count <= Limit[k] THEN 1 ELSE 0
<1>1. N \in Nat /\ Window \in Nat
  BY OrderIs, WindowAssumption
<1>2. PICK j \in 1 .. N : Order[j] = w
  BY OrderIs
<1>3. j - 1 \in 0 .. N - 1 /\ (j - 1) + 1 = j
  BY <1>1
<1>4. Capped(old[w][k], k)
  BY DEF AllCapped, Stores
<1>5. d \in {0, 1}
  OBVIOUS
<1>6. ASSUME NEW n \in 1 .. Window
      PROVE  Total(h, n) = Total(f, n) + d
  <2>1. n \in 0 .. Window /\ n \in Nat /\ Window \in Nat
    BY WindowAssumption
  <2>2. Total(f, n) \in Nat
    BY <2>1, TotalType
  <2>3. CASE HitInProcess(old[w][k], k).count <= Limit[k]
    <3>1. \A i \in 0 .. Window - 1 : f[i] \in Nat /\ h[i] = IF i = 0 THEN f[0] + 1 ELSE f[i]
      BY <2>3
    <3> QED
      BY <2>1, <2>3, <3>1, TotalFirst
  <2>4. CASE ~(HitInProcess(old[w][k], k).count <= Limit[k])
    BY <2>2, <2>4
  <2> QED
    BY <2>3, <2>4
<1>7. ASSUME NEW n \in 1 .. Window
      PROVE  Total(Shares(old, k, n), N) + d <= Total(Shares(new, k, n), N)
  <2> DEFINE p == Shares(old, k, n)
             q == Shares(new, k, n)
  <2>1. n \in Nat
    OBVIOUS
  <2>2. ASSUME NEW i \in 0 .. N - 1
        PROVE  /\ p[i] \in Nat /\ q[i] \in Nat
               /\ Order[i + 1] = w => p[i] + d <= q[i]
               /\ Order[i + 1] # w => p[i] = q[i]
    <3>1. /\ Order[i + 1] \in Workers
          /\ p[i] = Share(old[Order[i + 1]][k], k, n) /\ p[i] \in Nat
          /\ q[i] = Share(new[Order[i + 1]][k], k, n) /\ q[i] \in Nat
      BY <2>1, SharesType
    <3>2. Share(old[w][k], k, n) + d <= Share(new[w][k], k, n)
      BY <1>4, ShareHit
    <3>3. Order[i + 1] # w => new[Order[i + 1]][k] = old[Order[i + 1]][k]
      BY <3>1
    <3> QED
      BY <3>1, <3>2, <3>3
  <2>3. p[j - 1] + d <= q[j - 1]
    BY <1>2, <1>3, <2>2
  <2>4. \A i \in 0 .. N - 1 : p[i] \in Nat /\ q[i] \in Nat /\ p[i] <= q[i]
    <3>1. ASSUME NEW i \in 0 .. N - 1
          PROVE  p[i] \in Nat /\ q[i] \in Nat /\ p[i] <= q[i]
      <4> HIDE DEF p, q, d
      <4> QED
        BY <1>5, <2>2
    <3> QED
      BY <3>1
  <2> HIDE DEF p, q, d
  <2> QED
    BY <1>1, <1>3, <1>5, <2>3, <2>4, TotalRises DEF p, q
<1>8. ASSUME NEW n \in 0 .. Window
      PROVE  Total(h, n) <= Total(Shares(new, k, n), N)
  <2>1. n \in Nat
    OBVIOUS
  <2>2. Total(Shares(new, k, n), N) \in Nat
    <3>1. \A i \in 0 .. N - 1 : Shares(new, k, n)[i] \in Nat
      BY <2>1, SharesType
    <3>2. N \in 0 .. N
      BY <1>1
    <3> QED
      BY <1>1, <3>1, <3>2, TotalType
  <2>3. CASE n = 0
    BY <2>2, <2>3, TotalSteps
  <2>4. CASE n # 0
    <3>1. n \in 1 .. Window
      BY <2>4
    <3>2. Total(f, n) <= Total(Shares(old, k, n), N)
      BY DEF Counted
    <3>3. Total(h, n) = Total(f, n) + d /\ Total(Shares(old, k, n), N) + d <= Total(Shares(new, k, n), N)
      BY <3>1, <1>6, <1>7
    <3>4. Total(f, n) \in Nat
      BY <1>1, TotalType
    <3>5. Total(Shares(old, k, n), N) \in Nat
      <4>1. \A i \in 0 .. N - 1 : Shares(old, k, n)[i] \in Nat
        BY <2>1, SharesType
      <4>2. N \in 0 .. N
        BY <1>1
      <4> QED
        BY <1>1, <4>1, <4>2, TotalType
    <3> HIDE DEF d
    <3> QED
      BY <1>5, <2>2, <3>2, <3>3, <3>4, <3>5
  <2> QED
    BY <2>3, <2>4
<1> QED
  BY <1>8 DEF Counted

\* A tick moves every share one tick back.
LEMMA TickIsCounted ==
    ASSUME NEW k \in Keys, NEW f, NEW h, NEW old, NEW new,
           AllCapped(old), AllCapped(new), Counted(f, old, k),
           \A i \in 0 .. Window - 1 : f[i] \in Nat,
           \A i \in 0 .. Window - 1 : h[i] = IF i = 0 THEN 0 ELSE f[i - 1],
           \A v \in Workers : new[v][k] = [old[v][k] EXCEPT !.age = Older(@)]
    PROVE  Counted(h, new, k)
<1> DEFINE N == Cardinality(Workers)
<1>1. N \in Nat /\ Window \in Nat /\ Window > 0
  BY OrderIs, WindowAssumption
<1>2. ASSUME NEW n \in 0 .. Window - 1
      PROVE  Shares(new, k, n + 1) = Shares(old, k, n)
  <2>1. ASSUME NEW i \in 0 .. N - 1
        PROVE  Share(new[Order[i + 1]][k], k, n + 1) = Share(old[Order[i + 1]][k], k, n)
    <3>1. Order[i + 1] \in Workers
      <4>1. n \in Nat
        OBVIOUS
      <4> QED
        BY <4>1, SharesType
    <3>2. Capped(old[Order[i + 1]][k], k)
      BY <3>1 DEF AllCapped, Stores
    <3>3. new[Order[i + 1]][k] = [old[Order[i + 1]][k] EXCEPT !.age = Older(@)]
      BY <3>1
    <3> QED
      BY <3>2, <3>3, ShareOlder
  <2> QED
    BY <2>1 DEF Shares
<1>3. \A n \in 0 .. Window - 1 : Total(h, n + 1) = Total(f, n)
  BY <1>1, TotalMoved
<1>4. ASSUME NEW n \in 0 .. Window
      PROVE  Total(h, n) <= Total(Shares(new, k, n), N)
  <2>1. CASE n = 0
    <3>1. \A i \in 0 .. N - 1 : Shares(new, k, 0)[i] \in Nat
      BY SharesType
    <3>2. N \in 0 .. N
      BY <1>1
    <3>3. Total(Shares(new, k, 0), N) \in Nat
      BY <1>1, <3>1, <3>2, TotalType
    <3> QED
      BY <2>1, <3>3, TotalSteps
  <2>2. CASE n # 0
    <3>1. n - 1 \in 0 .. Window - 1 /\ n - 1 \in 0 .. Window /\ (n - 1) + 1 = n
      BY <1>1, <2>2
    <3>2. Total(f, n - 1) <= Total(Shares(old, k, n - 1), N)
      BY <3>1 DEF Counted
    <3>3. Total(h, (n - 1) + 1) = Total(f, n - 1)
      BY <1>3, <3>1
    <3>4. Shares(new, k, (n - 1) + 1) = Shares(old, k, n - 1)
      BY <1>2, <3>1
    <3> QED
      BY <3>1, <3>2, <3>3, <3>4
  <2> QED
    BY <2>1, <2>2
<1> QED
  BY <1>4 DEF Counted

\* Redis counts a hit and renews its time to live.
LEMMA HitIsCountedByOne ==
    ASSUME NEW k \in Keys, NEW f, NEW h, NEW b, Capped(b, k), CountedByOne(f, b, k),
           \A i \in 0 .. Window - 1 : f[i] \in Nat,
           IF HitRedis(b, k).count <= Limit[k]
           THEN \A i \in 0 .. Window - 1 : h[i] = IF i = 0 THEN f[0] + 1 ELSE f[i]
           ELSE h = f
    PROVE  CountedByOne(h, HitRedis(b, k), k)
<1>1. Limit[k] \in Nat /\ Limit[k] > 0 /\ Window \in Nat /\ Window > 0
  BY LimitAssumption, WindowAssumption
<1>2. b.age \in 0 .. Window /\ b.count \in Nat /\ b.count <= Limit[k] + 1
  BY DEF Capped, Bucket
<1>3. HitRedis(b, k).age = 0 /\ Total(h, 0) = 0
  BY TotalSteps DEF HitRedis
<1>4. Window \in 1 .. Window /\ Window \in 0 .. Window
  BY <1>1
<1>5. Total(f, Window) \in Nat
  BY <1>1, <1>4, TotalType
<1>6. Total(f, Window) <= (IF Over(b) THEN 0 ELSE LetInBy(b, k))
  BY <1>5 DEF CountedByOne, Over
<1>7. CASE HitRedis(b, k).count <= Limit[k]
  <2>1. \A i \in 0 .. Window - 1 : f[i] \in Nat /\ h[i] = IF i = 0 THEN f[0] + 1 ELSE f[i]
    BY <1>7
  <2>2. Total(h, Window) = Total(f, Window) + 1
    BY <1>1, <1>4, <2>1, TotalFirst
  <2>3. (IF Over(b) THEN 0 ELSE LetInBy(b, k)) + 1 = LetInBy(HitRedis(b, k), k)
    BY <1>1, <1>2, <1>7 DEF HitRedis, LetInBy, CountUp
  <2>4. (IF Over(b) THEN 0 ELSE LetInBy(b, k)) \in Nat
    BY <1>1, <1>2 DEF LetInBy
  <2>5. Total(h, Window) <= LetInBy(HitRedis(b, k), k)
    BY <1>5, <1>6, <2>2, <2>3, <2>4
  <2> QED
    BY <1>3, <2>5 DEF CountedByOne
<1>8. CASE ~(HitRedis(b, k).count <= Limit[k])
  <2>1. h = f
    BY <1>8
  <2>2. ~Over(b) /\ LetInBy(HitRedis(b, k), k) = LetInBy(b, k)
    BY <1>1, <1>2, <1>8 DEF HitRedis, LetInBy, CountUp
  <2> QED
    BY <1>3, <1>6, <2>1, <2>2 DEF CountedByOne
<1> QED
  BY <1>7, <1>8

LEMMA TickIsCountedByOne ==
    ASSUME NEW k \in Keys, NEW f, NEW h, NEW b, Capped(b, k), CountedByOne(f, b, k),
           \A i \in 0 .. Window - 1 : f[i] \in Nat,
           \A i \in 0 .. Window - 1 : h[i] = IF i = 0 THEN 0 ELSE f[i - 1]
    PROVE  CountedByOne(h, [b EXCEPT !.age = Older(@)], k)
<1> DEFINE c == [b EXCEPT !.age = Older(@)]
<1>1. Limit[k] \in Nat /\ Window \in Nat /\ Window > 0
  BY LimitAssumption, WindowAssumption
<1>2. b.age \in 0 .. Window /\ b.count \in Nat
  BY DEF Capped, Bucket
<1>3. c = [age |-> Older(b.age), count |-> b.count]
  BY DEF Capped, Bucket
<1>4. LetInBy(c, k) = LetInBy(b, k) /\ c.age = Older(b.age)
  BY <1>3 DEF LetInBy
<1>5. \A n \in 0 .. Window - 1 : Total(h, n + 1) = Total(f, n)
  BY <1>1, TotalMoved
<1>6. Window - 1 \in Nat /\ Window - 1 \in 0 .. Window - 1 /\ (Window - 1) + 1 = Window
  BY <1>1
<1>7. Total(h, Window) = Total(f, Window - 1)
  <2>1. Total(h, (Window - 1) + 1) = Total(f, Window - 1)
    BY <1>5, <1>6
  <2> QED
    BY <1>6, <2>1
<1>8. Total(f, Window - 1) <= Total(f, Window)
  <2>1. Total(f, Window - 1) <= Total(f, (Window - 1) + 1)
    BY <1>6, TotalGrows
  <2> QED
    BY <1>6, <2>1
<1>9. Total(f, Window) \in Nat /\ Total(f, Window - 1) \in Nat
  <2>1. \A n \in 0 .. Window : Total(f, n) \in Nat
    BY <1>1, TotalType
  <2>2. Window \in 0 .. Window /\ Window - 1 \in 0 .. Window
    BY <1>1
  <2> QED
    BY <2>1, <2>2
<1>10. Total(h, Window) <= LetInBy(c, k)
  <2>1. LetInBy(b, k) \in Nat
    BY <1>1, <1>2 DEF LetInBy
  <2>2. Total(f, Window) <= LetInBy(b, k)
    BY DEF CountedByOne
  <2> HIDE DEF c
  <2> QED
    BY <1>4, <1>7, <1>8, <1>9, <2>1, <2>2
<1>11. Total(h, c.age) = 0
  <2>1. CASE b.age < Window
    <3>1. b.age \in 0 .. Window - 1 /\ c.age = b.age + 1
      BY <1>1, <1>2, <1>4, <2>1 DEF Older
    <3>2. Total(h, b.age + 1) = Total(f, b.age)
      BY <1>5, <3>1
    <3> QED
      BY <3>1, <3>2 DEF CountedByOne
  <2>2. CASE ~(b.age < Window)
    <3>1. b.age = Window /\ c.age = Window
      BY <1>1, <1>2, <1>4, <2>2 DEF Older
    <3>2. Total(f, Window) = 0
      BY <3>1 DEF CountedByOne
    <3> QED
      BY <1>7, <1>8, <1>9, <3>1, <3>2
  <2> QED
    BY <2>1, <2>2
<1> QED
  BY <1>10, <1>11 DEF CountedByOne

LEMMA InitCounted == Init => CInv
<1> SUFFICES ASSUME Init, NEW k \in Keys
             PROVE  IF backend = "redis" THEN CountedByOne(admitted[k], bucket[Redis][k], k)
                                         ELSE Counted(admitted[k], bucket, k)
  BY DEF CInv
<1>1. Window \in Nat /\ Window > 0
  BY WindowAssumption
<1>2. \A i \in 0 .. Window - 1 : admitted[k][i] = 0
  BY DEF Init
<1>3. ASSUME NEW n \in 0 .. Window
      PROVE  Total(admitted[k], n) = 0
  <2>1. n \in Nat /\ 0 \in Nat /\ \A i \in 0 .. n - 1 : admitted[k][i] \in Nat /\ admitted[k][i] <= 0
    <3>1. \A i \in 0 .. n - 1 : i \in 0 .. Window - 1
      BY <1>1
    <3> QED
      BY <1>2, <3>1
  <2>2. Total(admitted[k], n) <= 0 * n
    BY <2>1, TotalBounded
  <2>3. n \in 0 .. n
    OBVIOUS
  <2>4. Total(admitted[k], n) \in Nat
    BY <2>1, <2>3, TotalType
  <2> QED
    BY <2>2, <2>4
<1>4. TypeOK
  BY InitType
<1>5. AllCapped(bucket)
  BY <1>4 DEF TypeOK, AllCapped, Capped
<1>6. CountedByOne(admitted[k], bucket[Redis][k], k)
  <2>1. Redis \in Stores
    BY DEF Stores
  <2>2. Capped(bucket[Redis][k], k)
    BY <1>5, <2>1 DEF AllCapped
  <2>3. LetInBy(bucket[Redis][k], k) \in Nat
    BY <2>2, ShareType
  <2>4. bucket[Redis][k].age \in 0 .. Window /\ Window \in 0 .. Window
    BY <1>1, <2>2 DEF Capped, Bucket
  <2> QED
    BY <1>3, <2>3, <2>4 DEF CountedByOne
<1>7. Counted(admitted[k], bucket, k)
  <2>1. ASSUME NEW n \in 0 .. Window
        PROVE  Total(admitted[k], n) <= Total(Shares(bucket, k, n), Cardinality(Workers))
    <3>1. n \in Nat
      OBVIOUS
    <3>2. \A i \in 0 .. Cardinality(Workers) - 1 : Shares(bucket, k, n)[i] \in Nat
      BY <1>5, <3>1, SharesType
    <3>3. Cardinality(Workers) \in Nat /\ Cardinality(Workers) \in 0 .. Cardinality(Workers)
      BY OrderIs
    <3>4. Total(Shares(bucket, k, n), Cardinality(Workers)) \in Nat
      BY <3>2, <3>3, TotalType
    <3> QED
      BY <1>3, <3>4
  <2> QED
    BY <2>1 DEF Counted
<1> QED
  BY <1>6, <1>7

LEMMA Unmoved ==
    ASSUME NEW k \in Keys, NEW f, NEW old, NEW new, Counted(f, old, k),
           \A v \in Workers : new[v][k] = old[v][k]
    PROVE  Counted(f, new, k)
<1>1. ASSUME NEW n \in 0 .. Window
      PROVE  Shares(new, k, n) = Shares(old, k, n)
  <2>1. ASSUME NEW i \in 0 .. Cardinality(Workers) - 1
        PROVE  new[Order[i + 1]][k] = old[Order[i + 1]][k]
    <3>1. i + 1 \in 1 .. Cardinality(Workers)
      BY OrderIs
    <3>2. Order[i + 1] \in Workers
      BY <3>1, OrderIs
    <3> QED
      BY <3>2
  <2> QED
    BY <2>1 DEF Shares
<1> QED
  BY <1>1 DEF Counted

LEMMA DispatchCounted ==
    ASSUME TypeOK, TypeOK', CInv, NEW w \in Workers, NEW k \in Keys, Dispatch(w, k)
    PROVE  CInv'
<1> DEFINE s == Store(w)
           b == Hit(bucket[s][k], k)
<1>1. /\ s \in Stores /\ Redis \in Stores /\ w \in Stores /\ \A v \in Workers : v \in Stores
      /\ backend' = backend
      /\ bucket' = [bucket EXCEPT ![s][k] = b]
      /\ admitted' = IF b.count <= Limit[k] THEN [admitted EXCEPT ![k][0] = @ + 1] ELSE admitted
  BY StoreType DEF Dispatch, Stores
<1>2. AllCapped(bucket) /\ AllCapped(bucket')
  BY DEF TypeOK, AllCapped, Capped
<1>3. \A j \in Keys : \A i \in 0 .. Window - 1 : admitted[j][i] \in Nat
  BY DEF TypeOK
<1>4. \A j \in Keys \ {k} : /\ admitted'[j] = admitted[j]
                            /\ \A t \in Stores : bucket'[t][j] = bucket[t][j]
  BY <1>1 DEF TypeOK
<1>5. /\ bucket'[s][k] = b
      /\ \A t \in Stores \ {s} : bucket'[t][k] = bucket[t][k]
  BY <1>1 DEF TypeOK
<1>6. IF b.count <= Limit[k]
      THEN \A i \in 0 .. Window - 1 :
              admitted'[k][i] = IF i = 0 THEN admitted[k][0] + 1 ELSE admitted[k][i]
      ELSE admitted'[k] = admitted[k]
  <2>1. admitted[k] \in [0 .. Window - 1 -> Nat] /\ k \in DOMAIN admitted
    BY DEF TypeOK
  <2>2. CASE b.count <= Limit[k]
    <3>1. admitted'[k] = [admitted[k] EXCEPT ![0] = @ + 1]
      BY <1>1, <2>1, <2>2
    <3> HIDE DEF b
    <3> QED
      BY <2>1, <2>2, <3>1
  <2> QED
    BY <1>1, <2>2
<1>7. CASE backend = "redis"
  <2>1. s = Redis /\ b = HitRedis(bucket[Redis][k], k)
    BY <1>7 DEF Store, Hit
  <2>2. ASSUME NEW j \in Keys PROVE CountedByOne(admitted'[j], bucket'[Redis][j], j)
    <3>1. CountedByOne(admitted[j], bucket[Redis][j], j)
      BY <1>7 DEF CInv
    <3>2. CASE j = k
      <4>1. Capped(bucket[Redis][k], k)
        BY <1>1, <1>2 DEF AllCapped
      <4>2. CountedByOne(admitted'[k], HitRedis(bucket[Redis][k], k), k)
        <5>1. CountedByOne(admitted[k], bucket[Redis][k], k)
          BY <3>1, <3>2
        <5>2. IF HitRedis(bucket[Redis][k], k).count <= Limit[k]
              THEN \A i \in 0 .. Window - 1 :
                      admitted'[k][i] = IF i = 0 THEN admitted[k][0] + 1 ELSE admitted[k][i]
              ELSE admitted'[k] = admitted[k]
          BY <1>6, <2>1
        <5> HIDE DEF s, b
        <5> QED
          BY <1>3, <4>1, <5>1, <5>2, HitIsCountedByOne
      <4> QED
        BY <1>5, <2>1, <3>2, <4>2
    <3>3. CASE j # k
      BY <1>1, <1>4, <3>1, <3>3
    <3> QED
      BY <3>2, <3>3
  <2> QED
    BY <1>1, <1>7, <2>2 DEF CInv
<1>8. CASE backend # "redis"
  <2>1. s = w /\ b = HitInProcess(bucket[w][k], k)
    BY <1>8 DEF Store, Hit
  <2>2. ASSUME NEW j \in Keys PROVE Counted(admitted'[j], bucket', j)
    <3>1. Counted(admitted[j], bucket, j)
      BY <1>8 DEF CInv
    <3>2. CASE j = k
      <4>1. Counted(admitted[k], bucket, k)
        BY <3>1, <3>2
      <4>2. bucket'[w][k] = HitInProcess(bucket[w][k], k)
        BY <1>5, <2>1
      <4>3. \A v \in Workers \ {w} : bucket'[v][k] = bucket[v][k]
        BY <1>1, <1>5, <2>1
      <4>4. IF HitInProcess(bucket[w][k], k).count <= Limit[k]
            THEN \A i \in 0 .. Window - 1 :
                    admitted'[k][i] = IF i = 0 THEN admitted[k][0] + 1 ELSE admitted[k][i]
            ELSE admitted'[k] = admitted[k]
        BY <1>6, <2>1
      <4>5. Counted(admitted'[k], bucket', k)
        <5> HIDE DEF s, b
        <5> QED
          BY <1>2, <1>3, <4>1, <4>2, <4>3, <4>4, HitIsCounted
      <4> QED
        BY <3>2, <4>5
    <3>3. CASE j # k
      <4>1. admitted'[j] = admitted[j] /\ \A v \in Workers : bucket'[v][j] = bucket[v][j]
        BY <1>1, <1>4, <3>3
      <4> QED
        BY <3>1, <4>1, Unmoved
    <3> QED
      BY <3>2, <3>3
  <2> QED
    BY <1>1, <1>8, <2>2 DEF CInv
<1> QED
  BY <1>7, <1>8

LEMMA TickCounted ==
    ASSUME TypeOK, TypeOK', CInv, Tick
    PROVE  CInv'
<1>1. AllCapped(bucket) /\ AllCapped(bucket') /\ Redis \in Stores /\ \A v \in Workers : v \in Stores
  BY DEF TypeOK, AllCapped, Capped, Stores
<1>2. ASSUME NEW k \in Keys
      PROVE  /\ \A i \in 0 .. Window - 1 : admitted[k][i] \in Nat
             /\ \A i \in 0 .. Window - 1 :
                   admitted'[k][i] = IF i = 0 THEN 0 ELSE admitted[k][i - 1]
             /\ \A s \in Stores : bucket'[s][k] = [bucket[s][k] EXCEPT !.age = Older(@)]
  <2>1. \A i \in 0 .. Window - 1 : admitted[k][i] \in Nat
    BY DEF TypeOK
  <2>2. \A i \in 0 .. Window - 1 :
           admitted'[k][i] = IF i = 0 THEN 0 ELSE admitted[k][i - 1]
    <3>1. admitted'[k] = [t \in 0 .. Window - 1 |-> IF t = 0 THEN 0 ELSE admitted[k][t - 1]]
      BY DEF Tick
    <3> QED
      BY <3>1
  <2>3. \A s \in Stores : bucket'[s][k] = [bucket[s][k] EXCEPT !.age = Older(@)]
    BY DEF Tick
  <2> QED
    BY <2>1, <2>2, <2>3
<1>3. ASSUME NEW k \in Keys
      PROVE  IF backend = "redis" THEN CountedByOne(admitted'[k], bucket'[Redis][k], k)
                                  ELSE Counted(admitted'[k], bucket', k)
  <2>1. CASE backend = "redis"
    <3>1. CountedByOne(admitted[k], bucket[Redis][k], k)
      BY <2>1 DEF CInv
    <3>2. Capped(bucket[Redis][k], k)
      BY <1>1 DEF AllCapped
    <3>3. CountedByOne(admitted'[k], [bucket[Redis][k] EXCEPT !.age = Older(@)], k)
      BY <1>2, <3>1, <3>2, TickIsCountedByOne
    <3> QED
      BY <1>1, <1>2, <2>1, <3>3
  <2>2. CASE backend # "redis"
    <3>1. Counted(admitted[k], bucket, k)
      BY <2>2 DEF CInv
    <3>2. \A v \in Workers : bucket'[v][k] = [bucket[v][k] EXCEPT !.age = Older(@)]
      BY <1>1, <1>2
    <3>3. Counted(admitted'[k], bucket', k)
      BY <1>1, <1>2, <3>1, <3>2, TickIsCounted
    <3> QED
      BY <2>2, <3>3
  <2> QED
    BY <2>1, <2>2
<1> QED
  BY <1>3 DEF CInv, Tick

LEMMA CountedIsBounded == TypeOK /\ CInv => BurstBounded
<1> SUFFICES ASSUME TypeOK, CInv, NEW k \in Keys
             PROVE  Total(admitted[k], Window) <=
                       IF backend = "redis" THEN Limit[k]
                                            ELSE 2 * Limit[k] * Cardinality(Workers)
  BY DEF BurstBounded
<1> DEFINE N == Cardinality(Workers)
<1>1. Limit[k] \in Nat /\ Window \in Nat /\ N \in Nat
  BY LimitAssumption, WindowAssumption, OrderIs
<1>2. Window \in 0 .. Window /\ N \in 0 .. N
  BY <1>1
<1>3. \A i \in 0 .. Window - 1 : admitted[k][i] \in Nat
  BY DEF TypeOK
<1>4. Total(admitted[k], Window) \in Nat
  BY <1>1, <1>2, <1>3, TotalType
<1>5. AllCapped(bucket)
  BY DEF TypeOK, AllCapped, Capped
<1>6. CASE backend = "redis"
  <2>1. Capped(bucket[Redis][k], k)
    BY <1>5 DEF AllCapped, Stores
  <2>2. LetInBy(bucket[Redis][k], k) \in Nat /\ LetInBy(bucket[Redis][k], k) <= Limit[k]
    BY <1>1, <2>1, ShareType
  <2>3. Total(admitted[k], Window) <= LetInBy(bucket[Redis][k], k)
    BY <1>6 DEF CInv, CountedByOne
  <2> QED
    BY <1>1, <1>4, <1>6, <2>2, <2>3
<1>7. CASE backend # "redis"
  <2> DEFINE p == Shares(bucket, k, Window)
  <2>1. Total(admitted[k], Window) <= Total(p, N)
    BY <1>2, <1>7 DEF CInv, Counted
  <2>2. 2 * Limit[k] \in Nat /\ \A i \in 0 .. N - 1 : p[i] \in Nat /\ p[i] <= 2 * Limit[k]
    BY <1>1, <1>5, SharesType
  <2> HIDE DEF p
  <2>3. Total(p, N) <= (2 * Limit[k]) * N
    BY <1>1, <2>2, TotalBounded
  <2>4. Total(p, N) \in Nat
    BY <1>1, <1>2, <2>2, TotalType
  <2>5. (2 * Limit[k]) * N \in Nat
    BY <1>1
  <2> QED
    BY <1>4, <1>7, <2>1, <2>3, <2>4, <2>5
<1> QED
  BY <1>6, <1>7

\* Whatever a client does, and however its requests fall on windows and workers, in
\* the time of one window it gets in at most twice the limit for every worker, and
\* through Redis at most once the limit: for any limits, window and number of
\* workers (InProcessLimiter.check, RedisLimiter.check).
THEOREM BurstHeld == Spec => []BurstBounded
<1>1. TypeOK /\ TypeOK' /\ CInv /\ [Next]_vars => CInv'
  <2> SUFFICES ASSUME TypeOK, TypeOK', CInv, [Next]_vars PROVE CInv'
    OBVIOUS
  <2>1. CASE Tick
    BY <2>1, TickCounted
  <2>2. ASSUME NEW w \in Workers, NEW k \in Keys, Dispatch(w, k) PROVE CInv'
    BY <2>2, DispatchCounted
  <2>3. CASE UNCHANGED vars
    BY <2>3 DEF vars, CInv, Counted, CountedByOne
  <2> QED
    BY <2>1, <2>2, <2>3 DEF Next
<1> QED
  BY <1>1, InitCounted, CountedIsBounded, TypeCorrect, PTL DEF Spec
=============================================================================
