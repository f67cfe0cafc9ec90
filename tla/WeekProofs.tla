----------------------------- MODULE WeekProofs -----------------------------
(***************************************************************************)
(* Theorems about modules Recurrence and Week, for any calendar of months, *)
(* any two weeks of it, any forms of a rule and any number of worklists    *)
(* and changes.                                                            *)
(*                                                                         *)
(* The evaluator of rules agrees with what rules mean, branch by branch    *)
(* (MatchesMeant).  Where months begin and end is found by induction over  *)
(* the lengths of the months, where the days of a week lie by arithmetic,  *)
(* and the n-th weekday of a month by counting its days in sevens.         *)
(*                                                                         *)
(* That the day page foretells the generator needs no meaning of rules:    *)
(* two windows that begin in the same week agree on any day (SameWindow).  *)
(***************************************************************************)
EXTENDS Week, FiniteSetTheorems, WellFoundedInduction, TLAPS

-----------------------------------------------------------------------------
(* Induction *)

LEMMA Least ==
    ASSUME NEW T \in SUBSET Nat, T # {}
    PROVE  \E x \in T : \A y \in T : x <= y
<1> DEFINE R == OpToRel(<, Nat)
<1>1. IsWellFoundedOn(R, Nat)
  BY NatLessThanWellFounded
<1>2. \A x, y \in Nat : <<x, y>> \in R <=> x < y
  BY DEF OpToRel
<1> HIDE DEF R
<1>3. PICK x \in T : \A y \in T : ~ (<<y, x>> \in R)
  BY <1>1, WFMin
<1>4. ASSUME NEW y \in T PROVE x <= y
  <2>1. x \in Nat /\ y \in Nat
    OBVIOUS
  <2>2. ~(y < x)
    BY <1>2, <1>3, <2>1
  <2> QED
    BY <2>1, <2>2
<1> QED
  BY <1>4

\* Induction over the natural numbers, for a set.
LEMMA Induction ==
    ASSUME NEW S, 0 \in S, \A n \in Nat : n \in S => n + 1 \in S
    PROVE  Nat \subseteq S
<1> DEFINE T == Nat \ S
<1>1. SUFFICES ASSUME T # {} PROVE FALSE
  OBVIOUS
<1>2. PICK x \in T : \A y \in T : x <= y
  BY <1>1, Least
<1>3. x - 1 \in Nat /\ x - 1 \notin T
  BY <1>2
<1> QED
  BY <1>2, <1>3

-----------------------------------------------------------------------------
(* The calendar *)

Months == 1 .. Len(MonthLengths)

LEMMA Lengths ==
    /\ Len(MonthLengths) \in Nat /\ Len(MonthLengths) >= 1
    /\ \A m \in Months : MonthLengths[m] \in 28 .. 31
BY CalendarAssumption DEF Months

\* What the definition of MonthStart says of the first n months.
IsStarts(g, n) ==
    /\ g = [m \in 1 .. n + 1 |-> g[m]]
    /\ g[1] = 0
    /\ \A m \in 1 .. n : g[m + 1] = g[m] + MonthLengths[m]

LEMMA StartsExist ==
    ASSUME NEW n \in Nat
    PROVE  \E g : IsStarts(g, n)
<1> DEFINE S == {k \in Nat : \E g : IsStarts(g, k)}
<1>1. 0 \in S
  <2> DEFINE g == [m \in 1 .. 0 + 1 |-> 0]
  <2>1. IsStarts(g, 0)
    BY DEF IsStarts
  <2> QED
    BY <2>1
<1>2. ASSUME NEW k \in Nat, k \in S
      PROVE  k + 1 \in S
  <2>1. PICK g : IsStarts(g, k)
    BY <1>2
  <2> DEFINE v == g[k + 1] + MonthLengths[k + 1]
             h == [m \in 1 .. (k + 1) + 1 |-> IF m = (k + 1) + 1 THEN v ELSE g[m]]
  <2>2. h = [m \in 1 .. (k + 1) + 1 |-> h[m]]
    OBVIOUS
  <2>3. /\ \A m \in 1 .. k + 1 : h[m] = g[m]
        /\ h[(k + 1) + 1] = v
    OBVIOUS
  <2> HIDE DEF h
  <2>4. h[1] = 0
    BY <2>1, <2>3 DEF IsStarts
  <2>5. ASSUME NEW m \in 1 .. k + 1
        PROVE  h[m + 1] = h[m] + MonthLengths[m]
    <3>1. CASE m = k + 1
      BY <2>3, <3>1
    <3>2. CASE m # k + 1
      <4>1. m \in 1 .. k /\ m \in 1 .. k + 1 /\ m + 1 \in 1 .. k + 1
        BY <3>2
      <4> QED
        BY <2>1, <2>3, <4>1 DEF IsStarts
    <3> QED
      BY <3>1, <3>2
  <2>6. IsStarts(h, k + 1)
    BY <2>2, <2>4, <2>5 DEF IsStarts
  <2> QED
    BY <2>6
<1> HIDE DEF S
<1>3. Nat \subseteq S
  BY <1>1, <1>2, Induction
<1> QED
  BY <1>3 DEF S

LEMMA StartsAre == IsStarts(MonthStart, Len(MonthLengths))
<1> DEFINE N == Len(MonthLengths)
           Rule0(g) == [m \in 1 .. N + 1 |-> IF m = 1 THEN 0 ELSE g[m - 1] + MonthLengths[m - 1]]
<1>1. N \in Nat
  BY Lengths
<1>2. PICK g : IsStarts(g, N)
  BY <1>1, StartsExist
<1>3. g = Rule0(g)
  <2>1. \A m \in 1 .. N + 1 : m # 1 => m - 1 \in 1 .. N /\ (m - 1) + 1 = m
    BY <1>1
  <2>2. \A m \in 1 .. N + 1 : g[m] = IF m = 1 THEN 0 ELSE g[m - 1] + MonthLengths[m - 1]
    <3>1. \A m \in 1 .. N : g[m + 1] = g[m] + MonthLengths[m]
      BY <1>2 DEF IsStarts
    <3>2. g[1] = 0
      BY <1>2 DEF IsStarts
    <3> HIDE DEF N
    <3> QED
      BY <2>1, <3>1, <3>2
  <2>3. g = [m \in 1 .. N + 1 |-> g[m]]
    BY <1>2 DEF IsStarts
  <2> QED
    BY <2>2, <2>3
<1>4. MonthStart = Rule0(MonthStart)
  BY <1>3 DEF MonthStart
<1>5. PICK h : h = MonthStart
  OBVIOUS
<1>6. h = Rule0(h)
  BY <1>4, <1>5
<1>7. IsStarts(h, N)
  <2>1. h = [m \in 1 .. N + 1 |-> h[m]]
    BY <1>6
  <2>2. h[1] = 0
    BY <1>1, <1>6
  <2>3. ASSUME NEW m \in 1 .. N
        PROVE  h[m + 1] = h[m] + MonthLengths[m]
    <3>1. m + 1 \in 1 .. N + 1 /\ m + 1 # 1 /\ (m + 1) - 1 = m
      BY <1>1
    <3> QED
      BY <1>6, <3>1
  <2> QED
    BY <2>1, <2>2, <2>3 DEF IsStarts
<1> QED
  BY <1>5, <1>7

\* Each month starts where the one before it ends.
LEMMA Starts ==
    /\ MonthStart[1] = 0
    /\ \A m \in Months : MonthStart[m + 1] = MonthStart[m] + MonthLengths[m]
BY StartsAre DEF IsStarts, Months

LEMMA StartsType == \A m \in 1 .. Len(MonthLengths) + 1 : MonthStart[m] \in Nat
<1> DEFINE N == Len(MonthLengths)
           S == {k \in Nat : k <= N => MonthStart[k + 1] \in Nat}
<1>1. 0 \in S
  BY Starts
<1>2. ASSUME NEW k \in Nat, k \in S
      PROVE  k + 1 \in S
  <2> SUFFICES ASSUME k + 1 <= N PROVE MonthStart[(k + 1) + 1] \in Nat
    OBVIOUS
  <2>1. k + 1 \in Months /\ MonthStart[k + 1] \in Nat
    BY <1>2, Lengths DEF Months
  <2> QED
    BY <2>1, Starts, Lengths
<1> HIDE DEF S
<1>3. Nat \subseteq S
  BY <1>1, <1>2, Induction
<1>4. ASSUME NEW m \in 1 .. N + 1 PROVE MonthStart[m] \in Nat
  <2>1. m - 1 \in Nat /\ m - 1 <= N /\ (m - 1) + 1 = m
    BY Lengths
  <2>2. m - 1 \in S
    BY <1>3, <2>1
  <2> QED
    BY <2>1, <2>2 DEF S
<1> QED
  BY <1>4

\* Later months start later.
LEMMA StartsRise ==
    ASSUME NEW m \in 1 .. Len(MonthLengths) + 1, NEW n \in 1 .. Len(MonthLengths) + 1, m <= n
    PROVE  MonthStart[m] <= MonthStart[n]
<1> DEFINE N == Len(MonthLengths)
           S == {k \in Nat : m + k <= N + 1 => MonthStart[m] <= MonthStart[m + k]}
<1>1. 0 \in S
  <2>1. m + 0 = m
    OBVIOUS
  <2> QED
    BY <2>1, StartsType
<1>2. ASSUME NEW k \in Nat, k \in S
      PROVE  k + 1 \in S
  <2> SUFFICES ASSUME m + (k + 1) <= N + 1 PROVE MonthStart[m] <= MonthStart[m + (k + 1)]
    OBVIOUS
  <2>1. /\ m + k \in Months /\ m + k \in 1 .. N + 1 /\ m + (k + 1) = (m + k) + 1
        /\ MonthStart[m] <= MonthStart[m + k]
    BY <1>2, Lengths DEF Months
  <2>2. MonthStart[(m + k) + 1] = MonthStart[m + k] + MonthLengths[m + k]
    BY <2>1, Starts
  <2>3. MonthStart[m] \in Nat /\ MonthStart[m + k] \in Nat /\ MonthLengths[m + k] \in Nat
    BY <2>1, StartsType, Lengths
  <2> QED
    BY <2>1, <2>2, <2>3
<1> HIDE DEF S
<1>3. Nat \subseteq S
  BY <1>1, <1>2, Induction
<1>4. n - m \in Nat /\ m + (n - m) = n /\ n <= N + 1
  BY Lengths
<1>5. n - m \in S
  BY <1>3, <1>4
<1> QED
  BY <1>4, <1>5 DEF S

InMonth(d, m) == MonthStart[m] <= d /\ d < MonthStart[m + 1]

\* A day is in one month.
LEMMA MonthUnique ==
    ASSUME NEW d \in Int, NEW m \in Months, NEW n \in Months, InMonth(d, m), InMonth(d, n)
    PROVE  m = n
<1>1. /\ m + 1 \in 1 .. Len(MonthLengths) + 1 /\ n + 1 \in 1 .. Len(MonthLengths) + 1
      /\ m \in 1 .. Len(MonthLengths) + 1 /\ n \in 1 .. Len(MonthLengths) + 1
      /\ m \in Nat /\ n \in Nat
  BY Lengths DEF Months
<1>2. /\ MonthStart[m] \in Nat /\ MonthStart[m + 1] \in Nat
      /\ MonthStart[n] \in Nat /\ MonthStart[n + 1] \in Nat
  BY <1>1, StartsType
<1>3. ~(m + 1 <= n)
  <2>1. m + 1 <= n => MonthStart[m + 1] <= MonthStart[n]
    BY <1>1, StartsRise
  <2> QED
    BY <1>2, <2>1 DEF InMonth
<1>4. ~(n + 1 <= m)
  <2>1. n + 1 <= m => MonthStart[n + 1] <= MonthStart[m]
    BY <1>1, StartsRise
  <2> QED
    BY <1>2, <2>1 DEF InMonth
<1> QED
  BY <1>1, <1>3, <1>4

LEMMA MonthExists ==
    ASSUME NEW d \in Calendar
    PROVE  \E m \in Months : InMonth(d, m)
<1> DEFINE N == Len(MonthLengths)
           S == {k \in Nat : k <= N /\ d < MonthStart[k + 1] => \E m \in Months : InMonth(d, m)}
<1>0. d \in Nat /\ N \in Nat /\ d < MonthStart[N + 1]
  <2>1. N + 1 \in 1 .. N + 1 /\ N \in Nat
    BY Lengths
  <2>2. MonthStart[N + 1] \in Nat
    BY <2>1, StartsType
  <2> QED
    BY <2>1, <2>2 DEF Calendar
<1>1. 0 \in S
  BY <1>0, Starts
<1>2. ASSUME NEW k \in Nat, k \in S
      PROVE  k + 1 \in S
  <2> SUFFICES ASSUME k + 1 <= N, d < MonthStart[(k + 1) + 1]
               PROVE  \E m \in Months : InMonth(d, m)
    OBVIOUS
  <2>1. k + 1 \in Months /\ k <= N /\ k + 1 \in 1 .. N + 1
    BY <1>0 DEF Months
  <2>2. MonthStart[k + 1] \in Nat
    BY <2>1, StartsType
  <2>3. CASE d < MonthStart[k + 1]
    BY <1>2, <2>1, <2>3
  <2>4. CASE ~(d < MonthStart[k + 1])
    <3>1. InMonth(d, k + 1)
      BY <1>0, <2>2, <2>4 DEF InMonth
    <3> QED
      BY <2>1, <3>1
  <2> QED
    BY <2>3, <2>4
<1> HIDE DEF S
<1>3. Nat \subseteq S
  BY <1>1, <1>2, Induction
<1>4. N \in S /\ N <= N
  BY <1>0, <1>3
<1> QED
  BY <1>0, <1>4 DEF S

LEMMA MonthOfIs ==
    ASSUME NEW d \in Calendar
    PROVE  MonthOf(d) \in Months /\ InMonth(d, MonthOf(d))
BY MonthExists DEF MonthOf, InMonth, Months

\* A month is an interval of the calendar.
LEMMA Month ==
    ASSUME NEW d \in Calendar
    PROVE  /\ d \in Nat /\ FirstOfMonth(d) \in Nat /\ LastOfMonth(d) \in Nat
           /\ FirstOfMonth(d) <= d /\ d <= LastOfMonth(d)
           /\ LastOfMonth(d) - FirstOfMonth(d) \in 27 .. 30
           /\ SameMonth(d) = FirstOfMonth(d) .. LastOfMonth(d)
           /\ \A e \in SameMonth(d) : /\ e \in Calendar
                                      /\ FirstOfMonth(e) = FirstOfMonth(d)
                                      /\ LastOfMonth(e) = LastOfMonth(d)
<1> DEFINE m == MonthOf(d)
           N == Len(MonthLengths)
<1>1. m \in Months /\ InMonth(d, m)
  BY MonthOfIs
<1>2. N \in Nat /\ m \in 1 .. N + 1 /\ m + 1 \in 1 .. N + 1 /\ N + 1 \in 1 .. N + 1 /\ m + 1 <= N + 1
  BY <1>1, Lengths DEF Months
<1>3. /\ MonthStart[m] \in Nat /\ MonthStart[m + 1] \in Nat /\ MonthStart[N + 1] \in Nat
      /\ MonthStart[m + 1] <= MonthStart[N + 1]
  BY <1>2, StartsType, StartsRise
<1>4. MonthStart[m + 1] - MonthStart[m] \in 28 .. 31
  BY <1>1, <1>3, Starts, Lengths
<1>5. d \in Nat
  BY <1>3 DEF Calendar
<1>6. ASSUME NEW e \in MonthStart[m] .. MonthStart[m + 1] - 1
      PROVE  e \in SameMonth(d)
  <2>1. e \in Calendar /\ e \in Int
    BY <1>3 DEF Calendar
  <2>2. InMonth(e, m)
    BY <1>3 DEF InMonth
  <2>3. MonthOf(e) = m
    BY <1>1, <2>1, <2>2, MonthOfIs, MonthUnique
  <2> QED
    BY <2>1, <2>3 DEF SameMonth
<1>7. ASSUME NEW e \in SameMonth(d)
      PROVE  /\ e \in MonthStart[m] .. MonthStart[m + 1] - 1
             /\ e \in Calendar /\ MonthOf(e) = m
  <2>1. e \in Calendar /\ MonthOf(e) = m
    BY DEF SameMonth
  <2>2. InMonth(e, m)
    BY <2>1, MonthOfIs
  <2>3. e \in Int
    BY <2>1, <1>3 DEF Calendar
  <2> QED
    BY <1>3, <2>1, <2>2, <2>3 DEF InMonth
<1> HIDE DEF m
<1>8. FirstOfMonth(d) = MonthStart[m] /\ LastOfMonth(d) = MonthStart[m + 1] - 1
  BY DEF FirstOfMonth, LastOfMonth, m
<1>9. \A e \in SameMonth(d) : FirstOfMonth(e) = MonthStart[m] /\ LastOfMonth(e) = MonthStart[m + 1] - 1
  BY <1>7 DEF FirstOfMonth, LastOfMonth
<1>10. SameMonth(d) = MonthStart[m] .. MonthStart[m + 1] - 1
  BY <1>6, <1>7
<1>11. MonthStart[m] <= d /\ d <= MonthStart[m + 1] - 1 /\ MonthStart[m + 1] - 1 \in Nat
  BY <1>1, <1>3, <1>4, <1>5 DEF InMonth, m
<1>12. (MonthStart[m + 1] - 1) - MonthStart[m] \in 27 .. 30
  BY <1>3, <1>4
<1> QED
  BY <1>3, <1>5, <1>7, <1>8, <1>9, <1>10, <1>11, <1>12

-----------------------------------------------------------------------------
(* Weeks *)

\* A day lies in the week of its Monday.
LEMMA WeekParts ==
    ASSUME NEW d \in Int
    PROVE  /\ Weekday(d) \in 0 .. 6
           /\ d = Monday(d) + Weekday(d)
           /\ Monday(d) \in Int /\ Monday(d) % 7 = 0
BY DEF Weekday, Monday

\* It is the only one.
LEMMA WeekIs ==
    ASSUME NEW d \in Int, NEW m \in Int, NEW w \in 0 .. 6, m % 7 = 0, d = m + w
    PROVE  Monday(d) = m /\ Weekday(d) = w
BY DEF Weekday, Monday

LEMMA WeekdayIs ==
    ASSUME NEW d \in Int, NEW w \in 0 .. 6
    PROVE  Weekday(d) = w <=> (d - w) % 7 = 0
BY DEF Weekday

-----------------------------------------------------------------------------
(* What the rules mean *)

LEMMA Interval ==
    ASSUME NEW a \in Int, NEW b \in Int, a <= b
    PROVE  IsFiniteSet(a .. b) /\ Cardinality(a .. b) = b - a + 1
BY FS_Interval

\* What is counted of a day is counted of every day of its month up to it.
LEMMA Counted ==
    ASSUME NEW a \in Nat, NEW b \in Nat, NEW d \in a .. b
    PROVE  Cardinality({e \in a .. b : e <= d}) = d - a + 1
<1>1. {e \in a .. b : e <= d} = a .. d
  OBVIOUS
<1>2. a \in Int /\ d \in Int /\ a <= d
  OBVIOUS
<1>3. Cardinality(a .. d) = d - a + 1
  BY <1>2, Interval
<1> QED
  BY <1>1, <1>3

LEMMA DateMeant ==
    ASSUME NEW d \in Calendar, NEW rule, rule.day \in Int
    PROVE  OnDate(rule, d) <=>
              LET passed == Cardinality({e \in SameMonth(d) : e <= d})
              IN  passed = rule.day \/ (passed < rule.day /\ \A e \in SameMonth(d) : e <= d)
<1> DEFINE a == FirstOfMonth(d)
           b == LastOfMonth(d)
<1>1. /\ d \in Nat /\ a \in Nat /\ b \in Nat /\ a <= d /\ d <= b
      /\ SameMonth(d) = a .. b
      /\ FirstOfMonth(b) = a
  <2>1. b \in SameMonth(d)
    BY Month
  <2> QED
    BY <2>1, Month
<1>2. DayOfMonth(d) = d - a + 1 /\ DayOfMonth(b) = b - a + 1
  BY <1>1 DEF DayOfMonth
<1>3. OnDate(rule, d) <=> d - a + 1 = Smaller(rule.day, b - a + 1)
  BY <1>2 DEF OnDate
<1> HIDE DEF a, b
<1>4. Cardinality({e \in SameMonth(d) : e <= d}) = d - a + 1
  <2>1. d \in a .. b
    BY <1>1
  <2> QED
    BY <1>1, <2>1, Counted
<1>5. (\A e \in SameMonth(d) : e <= d) <=> d = b
  <2>1. b \in a .. b /\ \A e \in a .. b : e <= b
    BY <1>1
  <2>2. (\A e \in SameMonth(d) : e <= d) => b <= d
    BY <1>1, <2>1
  <2>3. d = b => \A e \in SameMonth(d) : e <= d
    BY <1>1, <2>1
  <2> QED
    BY <1>1, <2>2, <2>3
<1> QED
  BY <1>1, <1>3, <1>4, <1>5 DEF Smaller

\* The days of a month that fall on one weekday: every seventh from the first one.
LEMMA Sevenths ==
    ASSUME NEW a \in Nat, NEW b \in Nat, NEW w \in 0 .. 6, NEW d \in a .. b, (d - w) % 7 = 0
    PROVE  LET first == a + ((w - (a % 7)) % 7)
               k == (d - first) \div 7
           IN  /\ first \in Nat /\ k \in Nat
               /\ d = first + 7 * k
               /\ Cardinality({e \in {x \in a .. b : (x - w) % 7 = 0} : e <= d}) = k + 1
<1> DEFINE first == a + ((w - (a % 7)) % 7)
           k == (d - first) \div 7
           E == {e \in {x \in a .. b : (x - w) % 7 = 0} : e <= d}
           f == [j \in 0 .. k |-> first + 7 * j]
<1>1. first \in Nat /\ first >= a /\ first <= a + 6 /\ (first - w) % 7 = 0
  OBVIOUS
<1> HIDE DEF first
<1>2. first <= d /\ (d - first) % 7 = 0
  BY <1>1
<1>3. k \in Nat /\ d = first + 7 * k
  BY <1>1, <1>2
<1>4. ASSUME NEW e \in E
      PROVE  \E j \in 0 .. k : f[j] = e
  <2>1. e \in Nat /\ a <= e /\ e <= d /\ (e - w) % 7 = 0
    OBVIOUS
  <2>2. first <= e /\ (e - first) % 7 = 0
    BY <1>1, <2>1
  <2> DEFINE j == (e - first) \div 7
  <2>3. j \in Nat /\ e = first + 7 * j
    BY <1>1, <2>1, <2>2
  <2>4. j <= k
    BY <1>1, <1>3, <2>1, <2>3
  <2>5. j \in 0 .. k
    BY <1>3, <2>3, <2>4
  <2> QED
    BY <2>3, <2>5
<1>5. ASSUME NEW j \in 0 .. k
      PROVE  f[j] \in E
  <2>1. j \in Nat /\ j <= k /\ f[j] = first + 7 * j
    BY <1>3
  <2>2. first + 7 * j \in a .. b /\ first + 7 * j <= d
    BY <1>1, <1>3, <2>1
  <2>3. ((first + 7 * j) - w) % 7 = 0
    BY <1>1, <2>1
  <2> QED
    BY <2>1, <2>2, <2>3
<1>6. \A i, j \in 0 .. k : f[i] = f[j] => i = j
  BY <1>1, <1>3
<1> HIDE DEF E, k
<1>7. f \in [0 .. k -> E]
  BY <1>5
<1> HIDE DEF f
<1>8. f \in Bijection(0 .. k, E)
  BY <1>4, <1>6, <1>7 DEF Bijection, Injection, Surjection, IsInjective
<1>9. ExistsBijection(0 .. k, E)
  BY <1>8 DEF ExistsBijection
<1>10. IsFiniteSet(0 .. k) /\ Cardinality(0 .. k) = k + 1
  <2>1. 0 \in Int /\ k \in Int /\ 0 <= k
    BY <1>3
  <2>2. IsFiniteSet(0 .. k) /\ Cardinality(0 .. k) = k - 0 + 1
    BY <2>1, Interval
  <2> QED
    BY <1>3, <2>2
<1>11. Cardinality(E) = k + 1
  BY <1>9, <1>10, FS_Bijection
<1> QED
  BY <1>1, <1>3, <1>11 DEF first, k, E

MeantNthWeekday(rule, d) ==
    LET same == {e \in SameMonth(d) : (e - rule.weekday) % 7 = 0}
    IN  /\ d \in same
        /\ IF rule.n = -1 THEN \A e \in same : e <= d
           ELSE Cardinality({e \in same : e <= d}) = rule.n

LEMMA NthWeekdayMeant ==
    ASSUME NEW d \in Calendar, NEW rule, rule.n \in Int, rule.weekday \in 0 .. 6
    PROVE  OnNthWeekday(rule, d) <=> MeantNthWeekday(rule, d)
<1> DEFINE a == FirstOfMonth(d)
           b == LastOfMonth(d)
           w == rule.weekday
           same == {e \in SameMonth(d) : (e - w) % 7 = 0}
<1>1. /\ d \in Nat /\ a \in Nat /\ b \in Nat /\ a <= d /\ d <= b
      /\ SameMonth(d) = a .. b
      /\ b - a \in 27 .. 30
  BY Month
<1>2. d \in same <=> d % 7 = w
  BY <1>1, WeekdayIs DEF Weekday
<1>3. OnNthWeekday(rule, d) <=>
        /\ d % 7 = w
        /\ d = IF rule.n = -1 THEN b - (((b % 7) - w) % 7)
               ELSE a + ((w - (a % 7)) % 7) + 7 * (rule.n - 1)
  <2>1. Weekday(d) = d % 7 /\ Weekday(a) = a % 7 /\ Weekday(b) = b % 7
    BY DEF Weekday
  <2> QED
    BY <2>1 DEF OnNthWeekday
<1> HIDE DEF a, b, w
<1>4. w \in 0 .. 6
  BY DEF w
<1>5. CASE d % 7 # w
  BY <1>2, <1>3, <1>5 DEF w, MeantNthWeekday
<1>6. CASE d % 7 = w /\ rule.n = -1
  <2> DEFINE c == b - (((b % 7) - w) % 7)
  <2>1. c \in Int /\ c <= b /\ c >= b - 6 /\ (c - w) % 7 = 0
    BY <1>1, <1>4
  <2>2. c \in a .. b
    BY <1>1, <2>1
  <2> HIDE DEF c
  <2>3. \A e \in a .. b : (e - w) % 7 = 0 => e <= c
    BY <1>1, <1>4, <2>1
  <2>4. (\A e \in same : e <= d) <=> d = c
    <3>1. d \in same /\ c \in same
      BY <1>1, <1>2, <1>6, <2>1, <2>2
    <3>2. d <= c
      BY <1>1, <2>3, <3>1
    <3>3. \A e \in same : e <= c
      BY <1>1, <2>3
    <3> HIDE DEF same
    <3> QED
      BY <1>1, <2>1, <3>1, <3>2, <3>3
  <2>5. OnNthWeekday(rule, d) <=> d = c
    BY <1>3, <1>6 DEF c
  <2> QED
    BY <1>2, <1>6, <2>4, <2>5 DEF w, MeantNthWeekday
<1>7. CASE d % 7 = w /\ rule.n # -1
  <2> DEFINE first == a + ((w - (a % 7)) % 7)
             k == (d - first) \div 7
  <2>1. d \in a .. b /\ (d - w) % 7 = 0
    BY <1>1, <1>4, <1>7
  <2>2. /\ first \in Nat /\ k \in Nat
        /\ d = first + 7 * k
        /\ Cardinality({e \in {x \in a .. b : (x - w) % 7 = 0} : e <= d}) = k + 1
    BY <1>1, <1>4, <2>1, Sevenths
  <2>3. Cardinality({e \in same : e <= d}) = k + 1
    BY <1>1, <2>2
  <2>4. OnNthWeekday(rule, d) <=> d = first + 7 * (rule.n - 1)
    BY <1>3, <1>7
  <2> HIDE DEF first, k, same
  <2>5. d = first + 7 * (rule.n - 1) <=> k + 1 = rule.n
    <3>1. d \in Nat /\ first \in Nat /\ k \in Nat /\ d = first + 7 * k /\ rule.n \in Int
      BY <1>1, <2>2
    <3>2. PICK n \in Int : n = rule.n
      BY <3>1
    <3>3. d = first + 7 * (n - 1) => k + 1 = n
      BY <3>1
    <3>4. k + 1 = n => d = first + 7 * (n - 1)
      BY <3>1
    <3> QED
      BY <3>2, <3>3, <3>4
  <2>6. OnNthWeekday(rule, d) <=> d \in same /\ Cardinality({e \in same : e <= d}) = rule.n
    BY <1>2, <1>7, <2>3, <2>4, <2>5
  <2> QED
    BY <1>7, <2>6 DEF same, w, MeantNthWeekday
<1> QED
  BY <1>5, <1>6, <1>7

WeeksApart(d, a, w, n) ==
    /\ Weekday(d) = w
    /\ ((Monday(d) - Monday(a)) \div 7) % n = 0
    /\ (Monday(d) - Monday(a)) \div 7 >= 0

WeeksOn(d, a, w, n) == \E k \in 0 .. d : d = Monday(a) + w + 7 * n * k

\* n weeks apart, counted from the week of the anchor.
LEMMA NthWeekMeant ==
    ASSUME NEW d \in Nat, NEW a \in Nat, NEW w \in 0 .. 6, NEW n \in Nat \ {0}
    PROVE  WeeksApart(d, a, w, n) <=> WeeksOn(d, a, w, n)
<1>1. /\ d = Monday(d) + Weekday(d) /\ Monday(d) \in Int /\ Weekday(d) \in 0 .. 6
      /\ Monday(a) \in Nat /\ Monday(a) % 7 = 0 /\ Monday(d) % 7 = 0
  BY DEF Monday, Weekday
<1>2. PICK md \in Int : md = Monday(d)
  BY <1>1
<1>3. PICK ma \in Nat : ma = Monday(a)
  BY <1>1
<1> DEFINE apart == (md - ma) \div 7
<1>4. apart \in Int /\ md = ma + 7 * apart
  <2>1. md % 7 = 0 /\ ma % 7 = 0
    BY <1>1, <1>2, <1>3
  <2> QED
    BY <2>1
<1> HIDE DEF apart
<1>5. PICK b \in 0 .. 6 : b = Weekday(d)
  BY <1>1
<1>6. d = md + b /\ md % 7 = 0 /\ ma % 7 = 0
  BY <1>1, <1>2, <1>3, <1>5
<1>7. ASSUME b = w, apart % n = 0, apart >= 0
      PROVE  \E k \in 0 .. d : d = ma + w + 7 * n * k
  <2> DEFINE k == apart \div n
  <2>1. k \in Nat /\ apart = n * k
    BY <1>4, <1>7
  <2> HIDE DEF k
  <2>2. k <= n * k
    BY <2>1
  <2>3. k <= apart /\ apart <= d
    BY <1>4, <1>6, <1>7, <2>1, <2>2
  <2>4. 7 * n * k = 7 * apart
    BY <2>1
  <2>5. d = ma + w + 7 * n * k
    BY <1>4, <1>6, <1>7, <2>4
  <2>6. k \in 0 .. d
    BY <1>4, <2>1, <2>3
  <2> QED
    BY <2>5, <2>6
<1>8. ASSUME NEW k \in 0 .. d, d = ma + w + 7 * n * k
      PROVE  b = w /\ apart % n = 0 /\ apart >= 0
  <2> DEFINE t == n * k
  <2>1. t \in Nat /\ 7 * n * k = 7 * t
    OBVIOUS
  <2>2. t % n = 0
    OBVIOUS
  <2> HIDE DEF t
  <2>3. md + b = (ma + 7 * t) + w
    BY <1>6, <1>8, <2>1
  <2>4. b = w /\ md = ma + 7 * t
    BY <1>6, <2>1, <2>3
  <2>5. apart = t
    BY <1>4, <2>1, <2>4
  <2> QED
    BY <2>1, <2>2, <2>4, <2>5
<1> QED
  BY <1>2, <1>3, <1>5, <1>7, <1>8 DEF apart, WeeksApart, WeeksOn


\* Every rule of a form is one of these, or none.
LEMMA RuleOfForm ==
    ASSUME NEW rule \in Rules
    PROVE  rule \in Rule \cup {None}
<1>1. PICK f \in Forms : rule = Parsed(f)
  BY DEF Rules
<1>2. f \in Form
  BY WeekAssumption
<1>3. /\ f.weekdays \in SUBSET (0 .. 6)
      /\ Or(f.n, 2) \in Int /\ Or(f.n, 1) \in Int
      /\ Or(f.weekday, 0) \in 0 .. 6
      /\ Or(f.day, 1) \in Int
      /\ f.anchor \in Calendar \cup {None}
  BY <1>2 DEF Form, Or
<1> QED
  BY <1>1, <1>3 DEF Parsed, Rule

\* The kinds of rules apart.
LEMMA Kinds ==
    ASSUME NEW rule \in Rule
    PROVE  /\ rule # None
           /\ \/ rule.kind = "daily"
              \/ rule.kind = "weekdays" /\ rule.weekdays \in SUBSET (0 .. 6)
              \/ /\ rule.kind = "every_n_weeks" /\ rule.n \in Int /\ rule.weekday \in 0 .. 6
                 /\ rule.anchor \in Calendar \cup {None}
              \/ rule.kind = "monthly_date" /\ rule.day \in Int
              \/ /\ rule.kind = "monthly_nth_weekday" /\ rule.n \in Int
                 /\ rule.weekday \in 0 .. 6
BY NoneAssumption DEF Rule

LEMMA CalendarType == Calendar \in SUBSET Nat /\ None \notin Calendar
<1>1. MonthStart[Len(MonthLengths) + 1] \in Nat
  BY StartsType, Lengths
<1> QED
  BY <1>1, NoneAssumption DEF Calendar

\* The evaluator takes a day exactly when the rule means it, for whatever window the
\* day is in; a rule every n weeks has to have its anchor (dates_in_window).
THEOREM MatchesMeant ==
    ASSUME NEW rule \in Rule \cup {None}, Anchored(rule), NEW d \in Calendar, NEW start
    PROVE  Matches(rule, d, start) <=> Meant(rule, d)
<1>1. d \in Nat
  BY CalendarType
<1>2. CASE rule = None
  <2>2. ~Matches(rule, d, start)
    BY <1>2 DEF Matches
  <2>3. ~Meant(rule, d)
    BY <1>2 DEF Meant
  <2> QED
    BY <2>2, <2>3
<1>3. CASE rule # None /\ rule.kind = "daily"
  BY <1>3 DEF Matches, Meant
<1>4. CASE rule # None /\ rule.kind = "weekdays"
  <2>1. Matches(rule, d, start) <=> Weekday(d) \in rule.weekdays
    BY <1>4 DEF Matches
  <2>2. Meant(rule, d) <=> \E w \in rule.weekdays : (d - w) % 7 = 0
    BY <1>4 DEF Meant
  <2>3. rule.weekdays \in SUBSET (0 .. 6)
    BY <1>4, Kinds
  <2>4. \A w \in rule.weekdays : (d - w) % 7 = 0 <=> Weekday(d) = w
    <3>1. \A w \in rule.weekdays : w \in 0 .. 6
      BY <2>3
    <3> QED
      BY <1>1, <3>1, WeekdayIs
  <2> QED
    BY <2>1, <2>2, <2>4
<1>5. CASE rule # None /\ rule.kind = "every_n_weeks"
  <2> DEFINE n == IF rule.n < 1 THEN 1 ELSE rule.n
             w == rule.weekday
  <2>1. n \in Nat \ {0} /\ w \in 0 .. 6 /\ rule.anchor \in Calendar \cup {None}
    BY <1>5, Kinds
  <2>2. Matches(rule, d, start) <=> InNthWeek(rule, d, start)
    BY <1>5 DEF Matches
  <2>3. rule.anchor # None
    BY <1>5 DEF Anchored
  <2>4. rule.anchor \in Calendar /\ rule.anchor \in Nat
    BY <2>1, <2>3, CalendarType
  <2>5. Or(rule.anchor, start) = rule.anchor
    BY <2>3 DEF Or
  <2>6. InNthWeek(rule, d, start) <=> WeeksApart(d, rule.anchor, w, n)
    BY <2>5 DEF InNthWeek, WeeksApart
  <2>7. Meant(rule, d) <=> WeeksOn(d, rule.anchor, w, n)
    BY <1>5 DEF Meant, WeeksOn
  <2> HIDE DEF n, w
  <2> QED
    BY <1>1, <2>1, <2>2, <2>4, <2>6, <2>7, NthWeekMeant
<1>6. CASE rule # None /\ rule.kind = "monthly_date"
  <2>1. rule.day \in Int
    BY <1>6, Kinds
  <2>2. Matches(rule, d, start) <=> OnDate(rule, d)
    BY <1>6 DEF Matches
  <2>3. Meant(rule, d) <=>
              LET passed == Cardinality({e \in SameMonth(d) : e <= d})
              IN  passed = rule.day \/ (passed < rule.day /\ \A e \in SameMonth(d) : e <= d)
    BY <1>6 DEF Meant
  <2> QED
    BY <2>1, <2>2, <2>3, DateMeant
<1>7. CASE rule # None /\ rule.kind = "monthly_nth_weekday"
  <2>1. rule.n \in Int /\ rule.weekday \in 0 .. 6
    BY <1>7, Kinds
  <2>2. Matches(rule, d, start) <=> OnNthWeekday(rule, d)
    BY <1>7 DEF Matches
  <2>3. Meant(rule, d) <=> MeantNthWeekday(rule, d)
    BY <1>7 DEF Meant, MeantNthWeekday
  <2> QED
    BY <2>1, <2>2, <2>3, NthWeekdayMeant
<1> QED
  BY <1>2, <1>3, <1>4, <1>5, <1>6, <1>7, Kinds

\* Windows that begin in the same week agree on a day, whatever the rule.
LEMMA SameWindow ==
    ASSUME NEW rule, NEW d, NEW s, NEW t, Monday(s) = Monday(t)
    PROVE  Matches(rule, d, s) <=> Matches(rule, d, t)
<1>1. Monday(Or(rule.anchor, s)) = Monday(Or(rule.anchor, t))
  BY DEF Or
<1>2. InNthWeek(rule, d, s) <=> InNthWeek(rule, d, t)
  BY <1>1 DEF InNthWeek
<1>3. CASE rule # None /\ rule.kind = "every_n_weeks"
  BY <1>2, <1>3 DEF Matches
<1>4. CASE ~(rule # None /\ rule.kind = "every_n_weeks")
  BY <1>4 DEF Matches
<1> QED
  BY <1>3, <1>4

-----------------------------------------------------------------------------
(* Finite sets and sequences *)

LEMMA Joins ==
    ASSUME NEW T, NEW s \in Seq(T), NEW m \in Nat, NEW f \in [1 .. m -> T]
    PROVE  /\ DOMAIN (s \o f) = 1 .. Len(s) + m
           /\ \A i \in 1 .. Len(s) : (s \o f)[i] = s[i]
           /\ \A k \in 1 .. m : (s \o f)[Len(s) + k] = f[k]
<1>1. f \in Seq(T) /\ Len(f) = m /\ Len(s) \in Nat
  OBVIOUS
<1>2. /\ DOMAIN (s \o f) = 1 .. Len(s) + m
      /\ \A i \in 1 .. Len(s) + m : (s \o f)[i] = IF i <= Len(s) THEN s[i] ELSE f[i - Len(s)]
  BY <1>1
<1>3. \A k \in 1 .. m : /\ Len(s) + k \in 1 .. Len(s) + m
                        /\ ~(Len(s) + k <= Len(s)) /\ (Len(s) + k) - Len(s) = k
  BY <1>1
<1>4. \A i \in 1 .. Len(s) : i \in 1 .. Len(s) + m /\ i <= Len(s)
  BY <1>1
<1> QED
  BY <1>2, <1>3, <1>4

LEMMA Appends ==
    ASSUME NEW T, NEW s \in Seq(T), NEW m \in Nat, NEW f \in [1 .. m -> T]
    PROVE  /\ s \o f \in Seq(T)
           /\ \A i \in DOMAIN (s \o f) :
                 (i \in DOMAIN s /\ (s \o f)[i] = s[i]) \/ \E j \in 1 .. m : (s \o f)[i] = f[j]
<1>1. f \in Seq(T) /\ Len(f) = m
  OBVIOUS
<1>2. s \o f \in Seq(T) /\ Len(s \o f) = Len(s) + m /\ DOMAIN (s \o f) = 1 .. Len(s) + m
  BY <1>1
<1>3. ASSUME NEW i \in 1 .. Len(s) + m
      PROVE  (i \in DOMAIN s /\ (s \o f)[i] = s[i]) \/ \E j \in 1 .. m : (s \o f)[i] = f[j]
  <2>1. CASE i <= Len(s)
    BY <1>1, <2>1
  <2>2. CASE i > Len(s)
    <3>1. i - Len(s) \in 1 .. m /\ (s \o f)[i] = f[i - Len(s)]
      BY <1>1, <2>2
    <3> QED
      BY <3>1
  <2> QED
    BY <2>1, <2>2
<1> QED
  BY <1>2, <1>3

Before(S, i) == {j \in S : j < i}

\* Every place of a finite set is some member's.
LEMMA Places ==
    ASSUME NEW S \in SUBSET Nat, IsFiniteSet(S)
    PROVE  \A k \in Nat : k < Cardinality(S) => \E i \in S : Cardinality(Before(S, i)) = k
<1> DEFINE T == {k \in Nat : k < Cardinality(S) => \E i \in S : Cardinality(Before(S, i)) = k}
<1>1. Cardinality(S) \in Nat
  BY FS_CardinalityType
<1>2. \A i : IsFiniteSet(Before(S, i))
  BY FS_Subset DEF Before
<1>3. 0 \in T
  <2>1. SUFFICES ASSUME 0 < Cardinality(S)
                 PROVE  \E i \in S : Cardinality(Before(S, i)) = 0
    OBVIOUS
  <2>2. S # {}
    BY <2>1, FS_EmptySet
  <2>3. PICK i \in S : \A j \in S : i <= j
    BY <2>2, Least
  <2>4. Before(S, i) = {}
    <3>1. \A j \in S : j \in Nat /\ i \in Nat /\ i <= j
      BY <2>3
    <3>2. \A j \in S : ~(j < i)
      BY <3>1
    <3> QED
      BY <3>2 DEF Before
  <2> QED
    BY <2>4, FS_EmptySet
<1>4. ASSUME NEW k \in Nat, k \in T PROVE k + 1 \in T
  <2>1. SUFFICES ASSUME k + 1 < Cardinality(S)
                 PROVE  \E i \in S : Cardinality(Before(S, i)) = k + 1
    BY <1>4
  <2>2. PICK i \in S : Cardinality(Before(S, i)) = k
    BY <1>1, <1>4, <2>1
  <2> DEFINE U == Before(S, i) \cup {i}
             V == S \ U
  <2>3. Cardinality(U) = k + 1
    <3>1. i \notin Before(S, i)
      <4>1. i \in Nat
        OBVIOUS
      <4> QED
        BY <4>1 DEF Before
    <3> QED
      BY <1>2, <2>2, <3>1, FS_AddElement
  <2>4. V # {}
    <3>1. SUFFICES ASSUME V = {} PROVE FALSE
      OBVIOUS
    <3>2. U = S
      BY <3>1 DEF Before
    <3> QED
      BY <1>1, <2>1, <2>3, <3>2
  <2>5. PICK n \in V : \A j \in V : n <= j
    <3>1. V \in SUBSET Nat
      OBVIOUS
    <3> QED
      BY <2>4, <3>1, Least
  <2>6. Before(S, n) = U
    <3>1. \A j \in S : j \in Nat
      OBVIOUS
    <3>2. n \in Nat /\ i \in Nat /\ n \in S /\ n > i
      <4>1. n \in S /\ n \notin U
        BY <2>5
      <4> QED
        BY <3>1, <4>1 DEF Before
    <3>3. \A j \in S : j \in U <=> j <= i
      BY <3>1, <3>2 DEF Before
    <3>4. \A j \in S : j < n => j \in U
      BY <2>5, <3>1, <3>2
    <3>5. \A j \in S : j \in U => j < n
      BY <3>1, <3>2, <3>3
    <3>6. U \subseteq S
      BY DEF Before
    <3> HIDE DEF U
    <3> QED
      BY <3>4, <3>5, <3>6 DEF Before
  <2> QED
    BY <2>3, <2>5, <2>6
<1> HIDE DEF T
<1>5. Nat \subseteq T
  BY <1>3, <1>4, Induction
<1> QED
  BY <1>5 DEF T

\* No two members have the same place.
LEMMA PlaceUnique ==
    ASSUME NEW S \in SUBSET Nat, IsFiniteSet(S), NEW a \in S, NEW b \in S, a < b
    PROVE  Cardinality(Before(S, a)) < Cardinality(Before(S, b))
<1>1. IsFiniteSet(Before(S, a)) /\ IsFiniteSet(Before(S, b))
  BY FS_Subset DEF Before
<1>2. a \in Nat /\ b \in Nat /\ \A j \in S : j \in Nat
  OBVIOUS
<1>3. Before(S, a) \subseteq Before(S, b)
  <2>1. \A j \in S : j < a => j < b
    BY <1>2
  <2> QED
    BY <2>1 DEF Before
<1>4. a \in Before(S, b) /\ a \notin Before(S, a)
  BY <1>2 DEF Before
<1>5. Before(S, a) # Before(S, b)
  BY <1>4
<1>6. /\ Cardinality(Before(S, a)) <= Cardinality(Before(S, b))
      /\ Cardinality(Before(S, a)) # Cardinality(Before(S, b))
  BY <1>1, <1>3, <1>5, FS_Subset
<1>7. Cardinality(Before(S, a)) \in Nat /\ Cardinality(Before(S, b)) \in Nat
  BY <1>1, FS_CardinalityType
<1> QED
  BY <1>6, <1>7

\* Nth is the member of its place.
LEMMA NthIn ==
    ASSUME NEW S \in SUBSET Nat, IsFiniteSet(S), NEW k \in 1 .. Cardinality(S)
    PROVE  Nth(S, k) \in S /\ Cardinality(Before(S, Nth(S, k))) = k - 1
<1>1. Cardinality(S) \in Nat
  BY FS_CardinalityType
<1>2. k - 1 \in Nat /\ k - 1 < Cardinality(S)
  BY <1>1
<1>3. \E i \in S : Cardinality(Before(S, i)) = k - 1
  BY <1>2, Places
<1> QED
  BY <1>3 DEF Nth, Before

\* Every member has a place, and only one.
LEMMA NthOnto ==
    ASSUME NEW S \in SUBSET Nat, IsFiniteSet(S), NEW d \in S
    PROVE  \E k \in 1 .. Cardinality(S) :
              \A j \in 1 .. Cardinality(S) : Nth(S, j) = d <=> j = k
<1> DEFINE c == Cardinality(Before(S, d))
<1>1. Cardinality(S) \in Nat /\ c \in Nat /\ c < Cardinality(S)
  <2>1. IsFiniteSet(Before(S, d)) /\ Before(S, d) \subseteq S
    BY FS_Subset DEF Before
  <2>2. d \in Nat
    OBVIOUS
  <2>3. d \notin Before(S, d)
    BY <2>2 DEF Before
  <2>4. Before(S, d) # S
    BY <2>3
  <2>5. c <= Cardinality(S) /\ c # Cardinality(S)
    BY <2>1, <2>4, FS_Subset
  <2>6. c \in Nat /\ Cardinality(S) \in Nat
    BY <2>1, FS_CardinalityType
  <2> QED
    BY <2>5, <2>6
<1>2. c + 1 \in 1 .. Cardinality(S)
  BY <1>1
<1>3. ASSUME NEW j \in 1 .. Cardinality(S)
      PROVE  Nth(S, j) = d <=> j = c + 1
  <2>1. Nth(S, j) \in S /\ Cardinality(Before(S, Nth(S, j))) = j - 1
    BY NthIn
  <2>2. Nth(S, j) = d => j = c + 1
    BY <1>1, <2>1
  <2>3. ASSUME j = c + 1, Nth(S, j) # d PROVE FALSE
    <3>1. Cardinality(Before(S, Nth(S, j))) = c
      BY <1>1, <2>1, <2>3
    <3>2. Nth(S, j) \in Nat /\ d \in Nat
      BY <2>1
    <3>3. Nth(S, j) < d \/ d < Nth(S, j)
      BY <2>3, <3>2
    <3>4. Cardinality(Before(S, Nth(S, j))) < c \/ c < Cardinality(Before(S, Nth(S, j)))
      BY <2>1, <3>3, PlaceUnique
    <3> QED
      BY <1>1, <3>1, <3>4
  <2> QED
    BY <2>2, <2>3
<1> QED
  BY <1>2, <1>3

-----------------------------------------------------------------------------
(* Types *)

\* The days of the weeks, and of the forms.
LEMMA WeeksType ==
    ASSUME TypeOK
    PROVE  /\ monday \in Nat
           /\ \A w \in Weeks : /\ w \in Nat /\ w \in Calendar /\ Weekday(w) = 0
                               /\ w .. w + 6 \subseteq Calendar
           /\ FormDays(monday) \subseteq Calendar \cup {None}
<1>1. /\ monday \in Mondays /\ monday \in Calendar /\ Weekday(monday) = 0
      /\ monday .. monday + 13 \subseteq Calendar
      /\ FormDays(monday) \subseteq Calendar \cup {None}
  BY WeekAssumption DEF TypeOK
<1>2. monday \in Nat
  BY <1>1, CalendarType
<1>3. ASSUME NEW w \in Weeks
      PROVE  w \in Nat /\ w \in Calendar /\ Weekday(w) = 0 /\ w .. w + 6 \subseteq Calendar
  <2>1. w = monday \/ w = monday + 7
    BY DEF Weeks
  <2>2. w \in Nat /\ w \in monday .. monday + 13 /\ w .. w + 6 \subseteq monday .. monday + 13
    BY <1>2, <2>1
  <2>3. Weekday(w) = 0
    BY <1>1, <1>2, <2>1 DEF Weekday
  <2> QED
    BY <1>1, <2>2, <2>3
<1> QED
  BY <1>1, <1>2, <1>3

LEMMA RulesType == Rules \subseteq Rule \cup {None}
BY RuleOfForm, WeekAssumption DEF Rules

LEMMA TemplateRule ==
    ASSUME TypeOK, template # None
    PROVE  template.rule \in Rule \cup {None} /\ template.active \in BOOLEAN
BY RulesType DEF TypeOK, Template

LEMMA ListsType ==
    ASSUME TypeOK
    PROVE  /\ lists \in Seq(Worklist) /\ Len(lists) \in Nat /\ DOMAIN lists = 1 .. Len(lists)
           /\ \A l \in DOMAIN lists : /\ l \in Nat /\ lists[l] \in Worklist
                                      /\ lists[l].week \in Weeks
BY DEF TypeOK

LEMMA TasksType ==
    ASSUME TypeOK
    PROVE  /\ tasks \in Seq(Instance) /\ Len(tasks) \in Nat /\ TaskIds = 1 .. Len(tasks)
           /\ \A i \in TaskIds : tasks[i] \in Instance /\ tasks[i].list \in DOMAIN lists
           /\ IsFiniteSet(TaskIds)
<1>1. tasks \in Seq(Instance) /\ Len(tasks) \in Nat /\ TaskIds = 1 .. Len(tasks)
  BY DEF TypeOK, TaskIds
<1>2. IsFiniteSet(TaskIds)
  BY <1>1, FS_Interval
<1> QED
  BY <1>1, <1>2 DEF TypeOK

\* What is missing from a worklist are days of the week.
LEMMA MissingType ==
    ASSUME TypeOK, NEW l, NEW r, r.week \in Weeks
    PROVE  /\ Missing(l, r) \subseteq r.week .. r.week + 6 /\ Missing(l, r) \subseteq Calendar
           /\ Missing(l, r) \in SUBSET Nat
           /\ IsFiniteSet(Missing(l, r)) /\ Cardinality(Missing(l, r)) \in Nat
<1> DEFINE w == r.week
<1>1. w \in Nat /\ w .. w + 6 \subseteq Calendar /\ w + 7 - 1 = w + 6
  BY WeeksType
<1>2. Missing(l, r) \subseteq w .. w + 6
  BY <1>1 DEF Missing, DatesInWindow
<1>3. IsFiniteSet(w .. w + 6)
  <2>1. w + 6 \in Int /\ w \in Int
    BY <1>1
  <2> QED
    BY <2>1, FS_Interval
<1>4. IsFiniteSet(Missing(l, r))
  BY <1>2, <1>3, FS_Subset
<1> QED
  BY <1>1, <1>2, <1>4, CalendarType, FS_CardinalityType

\* Rows that are as they should be.
LEMMA GoodRow ==
    ASSUME NEW l \in Nat, NEW d \in Calendar \cup {None}, NEW r \in BOOLEAN,
           NEW who \in SUBSET (People \cup Visitors)
    PROVE  NewTask(l, d, r, who) \in Instance /\ NewTask(l, d, r, who).list = l
BY DEF NewTask, Instance

LEMMA GoodList ==
    ASSUME TypeOK, NEW w \in Weeks
    PROVE  /\ NewWorklist(w) \in Worklist /\ NewWorklist(w).week = w
           /\ [NewWorklist(w) EXCEPT !.base = FALSE] \in Worklist
           /\ [NewWorklist(w) EXCEPT !.base = FALSE].week = w
<1>1. w \in Calendar
  BY WeeksType
<1> QED
  BY <1>1 DEF NewWorklist, Worklist

\* Rows of a worklist there is can be added.
Rows(f, m, n) == f \in [1 .. m -> Instance] /\ \A k \in 1 .. m : f[k].list \in 1 .. n

LEMMA GeneratedType ==
    ASSUME TypeOK, NEW n \in Nat, NEW l \in 1 .. n, NEW r, r.week \in Weeks
    PROVE  Rows(Generated(l, r), Cardinality(Missing(l, r)), n)
<1> DEFINE S == Missing(l, r)
           m == Cardinality(S)
<1>1. S \subseteq Calendar /\ S \in SUBSET Nat /\ IsFiniteSet(S)
  BY MissingType
<1>2. Generated(l, r) = [k \in 1 .. m |-> NewTask(l, Nth(S, k), TRUE, {})]
  BY DEF Generated
<1> HIDE DEF S, m
<1>3. ASSUME NEW k \in 1 .. m
      PROVE  NewTask(l, Nth(S, k), TRUE, {}) \in Instance
                /\ NewTask(l, Nth(S, k), TRUE, {}).list = l
  <2>1. Nth(S, k) \in S
    BY <1>1, NthIn DEF m
  <2>2. Nth(S, k) \in Calendar \cup {None}
    BY <1>1, <2>1
  <2>3. l \in Nat /\ TRUE \in BOOLEAN /\ {} \in SUBSET (People \cup Visitors)
    OBVIOUS
  <2> QED
    BY <2>2, <2>3, GoodRow
<1>4. Rows(Generated(l, r), m, n)
  BY <1>2, <1>3 DEF Rows
<1> QED
  BY <1>4 DEF m, S

LEMMA AddRows ==
    ASSUME TypeOK, NEW m \in Nat, NEW n \in Nat, n >= Len(lists), NEW f, Rows(f, m, n)
    PROVE  /\ tasks \o f \in Seq(Instance)
           /\ \A i \in DOMAIN (tasks \o f) : (tasks \o f)[i].list \in 1 .. n
<1>1. tasks \in Seq(Instance) /\ f \in [1 .. m -> Instance]
  BY TasksType DEF Rows
<1>2. \A i \in DOMAIN tasks : tasks[i].list \in 1 .. n
  <2>1. \A i \in DOMAIN tasks : tasks[i].list \in 1 .. Len(lists)
    BY TasksType, ListsType DEF TaskIds
  <2> QED
    BY <2>1, ListsType
<1>3. \A j \in 1 .. m : f[j].list \in 1 .. n
  BY DEF Rows
<1> QED
  BY <1>1, <1>2, <1>3, Appends

\* One row is added.
LEMMA AddRow ==
    ASSUME NEW s \in Seq(Instance), NEW D, \A i \in DOMAIN s : s[i].list \in D,
           NEW t \in Instance, t.list \in D
    PROVE  /\ Append(s, t) \in Seq(Instance)
           /\ \A i \in DOMAIN Append(s, t) : Append(s, t)[i].list \in D
<1>1. /\ Append(s, t) \in Seq(Instance)
      /\ DOMAIN Append(s, t) = 1 .. Len(s) + 1
      /\ \A i \in 1 .. Len(s) + 1 : Append(s, t)[i] = IF i <= Len(s) THEN s[i] ELSE t
  OBVIOUS
<1>2. \A i \in 1 .. Len(s) + 1 : i <= Len(s) => i \in DOMAIN s
  OBVIOUS
<1> QED
  BY <1>1, <1>2

-----------------------------------------------------------------------------
(* The rows keep their types *)

LEMMA InitType == Init => TypeOK
<1> SUFFICES ASSUME Init PROVE TypeOK
  OBVIOUS
<1>1. lists \in Seq(Worklist) /\ tasks \in Seq(Instance) /\ TaskIds = {} /\ DOMAIN lists = {}
  BY DEF Init, TaskIds
<1>2. edits \in 0 .. MaxEdits
  BY WeekAssumption DEF Init
<1> QED
  BY <1>1, <1>2 DEF Init, TypeOK

LEMMA EditType ==
    ASSUME TypeOK, Edit
    PROVE  edits' \in 0 .. MaxEdits
BY WeekAssumption DEF TypeOK, Edit

LEMMA TemplateStep ==
    ASSUME TypeOK, template' \in Template \cup {None}, edits' \in 0 .. MaxEdits,
           UNCHANGED <<monday, lists, tasks>>
    PROVE  TypeOK'
BY DEF TypeOK, TaskIds, Weeks

LEMMA ParsedType ==
    ASSUME NEW f \in Forms, NEW b \in BOOLEAN
    PROVE  [active |-> b, rule |-> Parsed(f)] \in Template
BY DEF Template, Rules

\* Worklists of the two weeks.
IsLists(s, ws) == s \in Seq(Worklist) /\ \A l \in DOMAIN s : s[l].week \in ws

\* A step of the tasks and the worklists.
LEMMA TasksStep ==
    ASSUME TypeOK, IsLists(lists', Weeks), tasks' \in Seq(Instance),
           \A i \in DOMAIN tasks' : tasks'[i].list \in DOMAIN lists',
           edits' \in 0 .. MaxEdits, UNCHANGED <<monday, template>>
    PROVE  TypeOK'
<1>1. Weeks' = Weeks
  BY DEF Weeks
<1> QED
  BY <1>1 DEF TypeOK, TaskIds, IsLists

LEMMA SameLists ==
    ASSUME TypeOK
    PROVE  IsLists(lists, Weeks)
BY ListsType DEF IsLists

LEMMA NewList ==
    ASSUME TypeOK, NEW r \in Worklist, r.week \in Weeks
    PROVE  /\ IsLists(Append(lists, r), Weeks)
           /\ DOMAIN Append(lists, r) = 1 .. Len(lists) + 1
           /\ Append(lists, r)[Len(lists) + 1] = r
           /\ \A l \in DOMAIN lists : Append(lists, r)[l] = lists[l]
<1>1. lists \in Seq(Worklist) /\ Len(lists) \in Nat /\ DOMAIN lists = 1 .. Len(lists)
  BY ListsType
<1>2. /\ Append(lists, r) \in Seq(Worklist)
      /\ DOMAIN Append(lists, r) = 1 .. Len(lists) + 1
      /\ \A l \in 1 .. Len(lists) + 1 :
            Append(lists, r)[l] = IF l <= Len(lists) THEN lists[l] ELSE r
  BY <1>1
<1>3. Len(lists) + 1 \in 1 .. Len(lists) + 1 /\ ~(Len(lists) + 1 <= Len(lists))
  BY <1>1
<1>4. \A l \in DOMAIN lists : Append(lists, r)[l] = lists[l]
  BY <1>1, <1>2
<1>5. \A l \in 1 .. Len(lists) + 1 : Append(lists, r)[l].week \in Weeks
  BY <1>1, <1>2, ListsType
<1> QED
  BY <1>2, <1>3, <1>4, <1>5 DEF IsLists

LEMMA ChangedList ==
    ASSUME TypeOK, NEW l \in DOMAIN lists, NEW r \in Worklist, r.week = lists[l].week
    PROVE  /\ IsLists([lists EXCEPT ![l] = r], Weeks)
           /\ DOMAIN [lists EXCEPT ![l] = r] = DOMAIN lists
BY ListsType DEF IsLists

LEMMA CreateWorklistType ==
    ASSUME TypeOK, NEW w \in Weeks, CreateWorklist(w)
    PROVE  TypeOK'
<1> DEFINE n == Len(lists) + 1
           r == NewWorklist(w)
<1>1. n \in Nat /\ n >= Len(lists) /\ n \in 1 .. n
  BY ListsType
<1>2. r \in Worklist /\ r.week \in Weeks
  BY GoodList
<1>3. lists' = Append(lists, r) /\ tasks' = tasks \o Generated(n, r)
  BY DEF CreateWorklist
<1>4. IsLists(lists', Weeks) /\ DOMAIN lists' = 1 .. n
  BY <1>2, <1>3, NewList
<1> HIDE DEF n, r
<1>5. Rows(Generated(n, r), Cardinality(Missing(n, r)), n)
  BY <1>1, <1>2, GeneratedType
<1>6. Cardinality(Missing(n, r)) \in Nat
  BY <1>2, MissingType
<1>7. /\ tasks' \in Seq(Instance)
      /\ \A i \in DOMAIN tasks' : tasks'[i].list \in DOMAIN lists'
  BY <1>1, <1>3, <1>4, <1>5, <1>6, AddRows
<1>8. edits' \in 0 .. MaxEdits /\ UNCHANGED <<monday, template>>
  BY DEF CreateWorklist, TypeOK
<1> QED
  BY <1>4, <1>7, <1>8, TasksStep

LEMMA GenerateType ==
    ASSUME TypeOK, NEW l \in DOMAIN lists, Generate(l)
    PROVE  TypeOK'
<1> DEFINE r == lists[l]
<1>1. Len(lists) \in Nat /\ l \in 1 .. Len(lists) /\ r.week \in Weeks /\ Len(lists) >= Len(lists)
  BY ListsType
<1>2. tasks' = tasks \o Generated(l, r) /\ lists' = lists
  BY DEF Generate
<1> HIDE DEF r
<1>3. Rows(Generated(l, r), Cardinality(Missing(l, r)), Len(lists))
  BY <1>1, GeneratedType
<1>4. Cardinality(Missing(l, r)) \in Nat
  BY <1>1, MissingType
<1>5. tasks' \in Seq(Instance) /\ \A i \in DOMAIN tasks' : tasks'[i].list \in 1 .. Len(lists)
  BY <1>1, <1>2, <1>3, <1>4, AddRows
<1>6. DOMAIN lists' = 1 .. Len(lists) /\ IsLists(lists', Weeks)
  BY <1>2, ListsType, SameLists
<1>7. edits' \in 0 .. MaxEdits /\ UNCHANGED <<monday, template>>
  BY DEF Generate, TypeOK
<1> QED
  BY <1>5, <1>6, <1>7, TasksStep

LEMMA RelistType ==
    ASSUME TypeOK, NEW l \in DOMAIN lists, Lock(l) \/ ArchiveWorklist(l)
    PROVE  TypeOK'
<1>1. lists[l] \in Worklist
  BY ListsType
<1>2. /\ [lists[l] EXCEPT !.locked = TRUE] \in Worklist
      /\ [lists[l] EXCEPT !.active = FALSE] \in Worklist
      /\ [lists[l] EXCEPT !.locked = TRUE].week = lists[l].week
      /\ [lists[l] EXCEPT !.active = FALSE].week = lists[l].week
  BY <1>1 DEF Worklist
<1>3. \/ lists' = [lists EXCEPT ![l] = [lists[l] EXCEPT !.locked = TRUE]]
      \/ lists' = [lists EXCEPT ![l] = [lists[l] EXCEPT !.active = FALSE]]
  BY DEF Lock, ArchiveWorklist
<1>4. IsLists(lists', Weeks) /\ DOMAIN lists' = DOMAIN lists
  <2>1. CASE lists' = [lists EXCEPT ![l] = [lists[l] EXCEPT !.locked = TRUE]]
    BY <1>2, <2>1, ChangedList
  <2>2. CASE lists' = [lists EXCEPT ![l] = [lists[l] EXCEPT !.active = FALSE]]
    BY <1>2, <2>2, ChangedList
  <2> QED
    BY <1>3, <2>1, <2>2
<1>5. edits' \in 0 .. MaxEdits
  <2>1. CASE Lock(l)
    BY <2>1 DEF Lock, TypeOK
  <2>2. CASE ArchiveWorklist(l)
    BY <2>2, EditType DEF ArchiveWorklist
  <2> QED
    BY <2>1, <2>2
<1>6. UNCHANGED <<monday, template, tasks>>
  BY DEF Lock, ArchiveWorklist
<1>7. tasks' \in Seq(Instance) /\ \A i \in DOMAIN tasks' : tasks'[i].list \in DOMAIN lists'
  BY <1>4, <1>6, TasksType DEF TaskIds
<1> QED
  BY <1>4, <1>5, <1>6, <1>7, TasksStep

LEMMA AmendType ==
    ASSUME TypeOK, NEW l \in DOMAIN lists, Amend(l)
    PROVE  TypeOK'
<1> DEFINE mine == {i \in TaskIds : tasks[i].list = l /\ tasks[i].active}
           m == Cardinality(mine)
           n == Len(lists) + 1
           copies == [k \in 1 .. m |-> [tasks[Nth(mine, k)] EXCEPT !.list = n]]
           r == [NewWorklist(lists[l].week) EXCEPT !.base = FALSE]
<1>1. mine \subseteq TaskIds /\ IsFiniteSet(mine) /\ mine \in SUBSET Nat
  BY TasksType, FS_Subset
<1>2. m \in Nat /\ \A k \in 1 .. m : Nth(mine, k) \in TaskIds
  <2> HIDE DEF mine
  <2> QED
    BY <1>1, NthIn, FS_CardinalityType
<1>3. n \in Nat /\ n >= Len(lists) /\ n \in 1 .. n
  BY ListsType
<1>4. Rows(copies, m, n)
  <2> HIDE DEF mine, m, n
  <2>1. ASSUME NEW k \in 1 .. m
        PROVE  copies[k] \in Instance /\ copies[k].list \in 1 .. n
    <3>1. tasks[Nth(mine, k)] \in Instance
      BY <1>2, TasksType
    <3> QED
      BY <1>3, <3>1 DEF Instance
  <2> QED
    BY <2>1 DEF Rows
<1>5. tasks' = tasks \o copies /\ lists' = Append(lists, r)
  BY DEF Amend
<1>6. r \in Worklist /\ r.week \in Weeks
  <2>1. lists[l].week \in Weeks
    BY ListsType
  <2> QED
    BY <2>1, GoodList
<1> HIDE DEF copies, mine, m, r
<1>7. IsLists(lists', Weeks) /\ DOMAIN lists' = 1 .. n
  BY <1>5, <1>6, NewList
<1> HIDE DEF n
<1>8. tasks' \in Seq(Instance) /\ \A i \in DOMAIN tasks' : tasks'[i].list \in 1 .. n
  BY <1>2, <1>3, <1>4, <1>5, AddRows
<1>9. edits' \in 0 .. MaxEdits /\ UNCHANGED <<monday, template>>
  BY DEF Amend, TypeOK
<1> QED
  BY <1>7, <1>8, <1>9, TasksStep

LEMMA CreateTaskType ==
    ASSUME TypeOK, NEW l \in DOMAIN lists, NEW d \in FormDays(monday), CreateTask(l, d)
    PROVE  TypeOK'
<1> DEFINE t == NewTask(l, d, FALSE, {})
<1>1. t \in Instance /\ t.list \in DOMAIN lists
  <2>1. /\ d \in Calendar \cup {None} /\ l \in Nat /\ FALSE \in BOOLEAN
        /\ {} \in SUBSET (People \cup Visitors)
    BY ListsType, WeeksType
  <2> QED
    BY <2>1, GoodRow
<1>2. tasks' = Append(tasks, t) /\ lists' = lists
  BY DEF CreateTask
<1> HIDE DEF t
<1>3. tasks' \in Seq(Instance) /\ \A i \in DOMAIN tasks' : tasks'[i].list \in DOMAIN lists'
  <2>1. tasks \in Seq(Instance) /\ \A i \in DOMAIN tasks : tasks[i].list \in DOMAIN lists
    BY TasksType DEF TaskIds
  <2> QED
    BY <1>1, <1>2, <2>1, AddRow
<1>4. edits' \in 0 .. MaxEdits /\ UNCHANGED <<monday, template>> /\ IsLists(lists', Weeks)
  BY <1>2, EditType, SameLists DEF CreateTask
<1> QED
  BY <1>3, <1>4, TasksStep

\* One row is written anew, for the same worklist.
LEMMA Rewritten ==
    ASSUME TypeOK, NEW i \in TaskIds, NEW t \in Instance, t.list = tasks[i].list
    PROVE  /\ [tasks EXCEPT ![i] = t] \in Seq(Instance)
           /\ \A j \in DOMAIN [tasks EXCEPT ![i] = t] :
                 [tasks EXCEPT ![i] = t][j].list \in DOMAIN lists
BY TasksType DEF TaskIds

LEMMA ChangeTaskType ==
    ASSUME TypeOK, NEW i \in TaskIds, NEW t \in Instance, t.list = tasks[i].list,
           ChangeTask(i, t)
    PROVE  TypeOK'
<1>1. tasks' = [tasks EXCEPT ![i] = t] /\ lists' = lists
  BY DEF ChangeTask
<1>2. tasks' \in Seq(Instance) /\ \A j \in DOMAIN tasks' : tasks'[j].list \in DOMAIN lists'
  BY <1>1, Rewritten
<1>3. edits' \in 0 .. MaxEdits /\ UNCHANGED <<monday, template>> /\ IsLists(lists', Weeks)
  BY <1>1, EditType, SameLists DEF ChangeTask
<1> QED
  BY <1>2, <1>3, TasksStep

LEMMA ChangesType ==
    ASSUME TypeOK, NEW i \in TaskIds
    PROVE  /\ \A d \in FormDays(monday), p \in BOOLEAN : UpdateTask(i, d, p) => TypeOK'
           /\ ArchiveTask(i) => TypeOK'
           /\ \A a \in People \cup Visitors :
                 AddAssignment(i, a) \/ DeleteAssignment(i, a) => TypeOK'
<1>1. tasks[i] \in Instance
  BY TasksType
<1>2. ASSUME NEW d \in FormDays(monday), NEW p \in BOOLEAN, UpdateTask(i, d, p) PROVE TypeOK'
  <2>1. d \in Calendar \cup {None}
    BY WeeksType
  <2>2. [tasks[i] EXCEPT !.day = d, !.pending = p] \in Instance
    BY <1>1, <2>1 DEF Instance
  <2>3. [tasks[i] EXCEPT !.day = d, !.pending = p].list = tasks[i].list
    BY <1>1 DEF Instance
  <2> QED
    BY <1>2, <2>2, <2>3, ChangeTaskType DEF UpdateTask
<1>3. ASSUME ArchiveTask(i) PROVE TypeOK'
  <2>1. [tasks[i] EXCEPT !.active = FALSE] \in Instance
    BY <1>1 DEF Instance
  <2>2. [tasks[i] EXCEPT !.active = FALSE].list = tasks[i].list
    BY <1>1 DEF Instance
  <2> QED
    BY <1>3, <2>1, <2>2, ChangeTaskType DEF ArchiveTask
<1>4. ASSUME NEW a \in People \cup Visitors, AddAssignment(i, a) PROVE TypeOK'
  <2>1. [tasks[i] EXCEPT !.who = @ \cup {a}] \in Instance
    BY <1>1 DEF Instance
  <2>2. [tasks[i] EXCEPT !.who = @ \cup {a}].list = tasks[i].list
    BY <1>1 DEF Instance
  <2> QED
    BY <1>4, <2>1, <2>2, ChangeTaskType DEF AddAssignment
<1>5. ASSUME NEW a \in People \cup Visitors, DeleteAssignment(i, a) PROVE TypeOK'
  <2>1. [tasks[i] EXCEPT !.who = @ \ {a}] \in Instance
    BY <1>1 DEF Instance
  <2>2. [tasks[i] EXCEPT !.who = @ \ {a}].list = tasks[i].list
    BY <1>1 DEF Instance
  <2> QED
    BY <1>5, <2>1, <2>2, ChangeTaskType DEF DeleteAssignment
<1> QED
  BY <1>2, <1>3, <1>4, <1>5

\* A task that is settled or carried loses its status; the carried one is of the
\* worklist it is carried to.
LEMMA CarriedType ==
    ASSUME TypeOK, NEW i \in TaskIds, NEW l \in DOMAIN lists
    PROVE  /\ Settle(i, l) => TypeOK'
           /\ \A who \in {tasks[i].who} \cup SUBSET People : CarryOver(i, l, who) => TypeOK'
<1> DEFINE old == [tasks[i] EXCEPT !.pending = FALSE]
           s == [tasks EXCEPT ![i] = old]
<1>1. tasks[i] \in Instance
  BY TasksType
<1>2. old \in Instance /\ old.list = tasks[i].list
  BY <1>1 DEF Instance
<1>3. s \in Seq(Instance) /\ \A j \in DOMAIN s : s[j].list \in DOMAIN lists
  <2> HIDE DEF old
  <2> QED
    BY <1>2, Rewritten
<1>4. ASSUME Settle(i, l) PROVE TypeOK'
  <2>1. tasks' = s /\ lists' = lists
    BY <1>4 DEF Settle
  <2>2. edits' \in 0 .. MaxEdits /\ UNCHANGED <<monday, template>> /\ IsLists(lists', Weeks)
    BY <1>4, <2>1, EditType, SameLists DEF Settle
  <2> HIDE DEF s
  <2> QED
    BY <1>3, <2>1, <2>2, TasksStep
<1>5. ASSUME NEW who \in {tasks[i].who} \cup SUBSET People, CarryOver(i, l, who) PROVE TypeOK'
  <2> DEFINE t == NewTask(l, lists[l].week, tasks[i].recurring, who)
  <2>1. t \in Instance /\ t.list \in DOMAIN lists
    <3>1. l \in Nat /\ lists[l].week \in Calendar \cup {None}
      BY ListsType, WeeksType
    <3>2. tasks[i].recurring \in BOOLEAN /\ who \in SUBSET (People \cup Visitors)
      BY <1>1 DEF Instance
    <3> QED
      BY <3>1, <3>2, GoodRow
  <2>2. tasks' = Append(s, t) /\ lists' = lists
    BY <1>5 DEF CarryOver
  <2>3. edits' \in 0 .. MaxEdits /\ UNCHANGED <<monday, template>> /\ IsLists(lists', Weeks)
    BY <1>5, <2>2, EditType, SameLists DEF CarryOver
  <2> HIDE DEF s, t
  <2>4. tasks' \in Seq(Instance) /\ \A j \in DOMAIN tasks' : tasks'[j].list \in DOMAIN lists'
    BY <1>3, <2>1, <2>2, AddRow
  <2> QED
    BY <2>3, <2>4, TasksStep
<1> QED
  BY <1>4, <1>5

LEMMA NextType == TypeOK /\ [Next]_vars => TypeOK'
<1> SUFFICES ASSUME TypeOK, [Next]_vars PROVE TypeOK'
  OBVIOUS
<1>1. ASSUME NEW f \in Forms, CreateTemplate(f) PROVE TypeOK'
  BY <1>1, ParsedType, TemplateStep DEF CreateTemplate, NewTemplate, TypeOK
<1>2. ASSUME NEW f \in Forms, UpdateTemplate(f) PROVE TypeOK'
  <2>1. EditedTemplate(template, f) \in Template
    BY <1>2, ParsedType, TemplateRule DEF UpdateTemplate, EditedTemplate
  <2> QED
    BY <1>2, <2>1, EditType, TemplateStep DEF UpdateTemplate
<1>3. CASE ArchiveTemplate
  <2>1. template \in Template
    BY <1>3 DEF ArchiveTemplate, TypeOK
  <2>2. [active |-> FALSE, rule |-> template.rule] \in Template
    BY <2>1 DEF Template
  <2> QED
    BY <1>3, <2>2, EditType, TemplateStep DEF ArchiveTemplate
<1>4. ASSUME NEW w \in Weeks, CreateWorklist(w) PROVE TypeOK'
  BY <1>4, CreateWorklistType
<1>5. ASSUME NEW l \in DOMAIN lists, Generate(l) \/ Lock(l) \/ Amend(l) \/ ArchiveWorklist(l)
      PROVE  TypeOK'
  BY <1>5, GenerateType, RelistType, AmendType
<1>6. ASSUME NEW l \in DOMAIN lists, NEW d \in FormDays(monday), CreateTask(l, d) PROVE TypeOK'
  BY <1>6, CreateTaskType
<1>7. ASSUME NEW i \in TaskIds,
             \/ \E d \in FormDays(monday), p \in BOOLEAN : UpdateTask(i, d, p)
             \/ ArchiveTask(i)
             \/ \E a \in People \cup Visitors : AddAssignment(i, a) \/ DeleteAssignment(i, a)
      PROVE  TypeOK'
  BY <1>7, ChangesType
<1>8. ASSUME NEW i \in TaskIds, NEW l \in DOMAIN lists,
             \/ Settle(i, l)
             \/ \E who \in {tasks[i].who} \cup SUBSET People : CarryOver(i, l, who)
      PROVE  TypeOK'
  BY <1>8, CarriedType
<1>9. CASE UNCHANGED vars
  BY <1>9 DEF vars, TypeOK, TaskIds, Weeks
<1> QED
  BY <1>1, <1>2, <1>3, <1>4, <1>5, <1>6, <1>7, <1>8, <1>9 DEF Next

\* The rows have their types, and no task is of a worklist that does not exist: the
\* generator, the amendment and the carry-over number the rows they write by the
\* worklist they write them for (generate_for_worklist, amend_worklist,
\* apply_carry_over).
THEOREM TypeCorrect == Spec => []TypeOK
<1> QED
  BY InitType, NextType, PTL DEF Spec

-----------------------------------------------------------------------------
(* The windows *)

LEMMA TypeWindows ==
    ASSUME TypeOK
    PROVE  WindowsAgree
<1> SUFFICES ASSUME template # None, Anchored(template.rule),
                    NEW start \in Calendar, NEW days \in {1, 7}, start + days - 1 \in Calendar
             PROVE  DatesInWindow(template.rule, start, days) =
                        {d \in start .. start + days - 1 : Meant(template.rule, d)}
  BY DEF WindowsAgree
<1>1. template.rule \in Rule \cup {None}
  BY TemplateRule
<1>2. ASSUME NEW d \in start .. start + days - 1
      PROVE  Matches(template.rule, d, start) <=> Meant(template.rule, d)
  <2>1. d \in Calendar
    <3>1. MonthStart[Len(MonthLengths) + 1] \in Nat
      BY StartsType, Lengths
    <3>2. start \in Nat /\ days \in Nat
      BY CalendarType
    <3> QED
      BY <3>1, <3>2 DEF Calendar
  <2> QED
    BY <1>1, <2>1, MatchesMeant
<1> QED
  BY <1>2 DEF DatesInWindow

\* In a window of a day or of a week, the rules of a template yield the days that they
\* mean, so that the day page and the generator cannot disagree; of a rule every n
\* weeks without an anchor nothing is claimed (dates_in_window).
THEOREM WindowsHold == Spec => []WindowsAgree
<1> QED
  BY TypeCorrect, TypeWindows, PTL

-----------------------------------------------------------------------------
(* The announcements *)

\* The days of a week have its Monday.
LEMMA SameWeek ==
    ASSUME NEW start \in Nat, Weekday(start) = 0, NEW d \in start .. start + 6
    PROVE  d \in Nat /\ Monday(d) = start /\ Monday(start) = start
<1>1. PICK q \in Int : start = 7 * q
  BY DEF Weekday
<1>2. d \in Nat /\ d - start \in 0 .. 6
  OBVIOUS
<1>3. d % 7 = d - start
  BY <1>1, <1>2
<1> QED
  BY <1>2, <1>3 DEF Monday, Weekday

\* A rule fires on a day of its own exactly when it does in the week of the day.
LEMMA OneDay ==
    ASSUME TypeOK, NEW rule, NEW w \in Weeks, NEW d \in w .. w + 6
    PROVE  DatesInWindow(rule, d, 1) # {} <=> d \in DatesInWindow(rule, w, 7)
<1>1. w \in Nat /\ Weekday(w) = 0 /\ d \in Nat /\ w + 7 - 1 = w + 6
  BY WeeksType
<1>2. Monday(d) = Monday(w)
  BY <1>1, SameWeek
<1>3. Matches(rule, d, d) <=> Matches(rule, d, w)
  BY <1>2, SameWindow
<1>4. d .. d + 1 - 1 = {d}
  BY <1>1
<1>5. DatesInWindow(rule, d, 1) = {e \in {d} : Matches(rule, e, d)}
  BY <1>4 DEF DatesInWindow
<1>6. d \in DatesInWindow(rule, w, 7) <=> Matches(rule, d, w)
  BY <1>1 DEF DatesInWindow
<1> QED
  BY <1>3, <1>5, <1>6

Shows(t, d) == t.active /\ t.recurring /\ t.day = d

\* One recurring task more for each day that was missing.
LEMMA Gains ==
    ASSUME TypeOK, NEW l \in Nat \ {0}, NEW r, r.week \in Weeks,
           tasks' = tasks \o Generated(l, r),
           NEW d
    PROVE  /\ \A i \in TaskIds : i \in DOMAIN tasks' /\ tasks'[i] = tasks[i]
           /\ d \in Missing(l, r) => Cardinality(Added(l, d)) = 1
           /\ d \notin Missing(l, r) => Added(l, d) = {}
           /\ d \in Missing(l, r) =>
                 \E i \in DOMAIN tasks' : Shows(tasks'[i], d)
<1> DEFINE S == Missing(l, r)
           m == Cardinality(S)
           n == Len(tasks)
           g == Generated(l, r)
<1>1. S \in SUBSET Nat /\ IsFiniteSet(S) /\ m \in Nat
  BY MissingType
<1>2. g = [k \in 1 .. m |-> NewTask(l, Nth(S, k), TRUE, {})]
  BY DEF Generated
<1>3. tasks \in Seq(Instance) /\ n \in Nat /\ TaskIds = 1 .. n /\ DOMAIN tasks = 1 .. n
  BY TasksType DEF TaskIds
<1> HIDE DEF S, m
<1>4. g \in [1 .. m -> Instance]
  BY GeneratedType DEF Rows, m, S
<1> HIDE DEF g
<1>5. /\ DOMAIN tasks' = 1 .. n + m
      /\ \A i \in 1 .. n : tasks'[i] = tasks[i]
      /\ \A k \in 1 .. m : tasks'[n + k] = g[k]
  <2>1. tasks' = tasks \o g
    BY DEF g
  <2> QED
    BY <1>1, <1>3, <1>4, <2>1, Joins
<1>6. \A k \in 1 .. m : /\ g[k].list = l /\ g[k].recurring /\ g[k].active
                        /\ g[k].day = Nth(S, k)
  BY <1>2 DEF NewTask
<1>7. DOMAIN tasks' \ TaskIds = {n + k : k \in 1 .. m}
  <2>1. \A i \in 1 .. n + m : i \notin 1 .. n => i - n \in 1 .. m /\ i = n + (i - n)
    BY <1>1, <1>3
  <2>2. \A k \in 1 .. m : n + k \in 1 .. n + m /\ n + k \notin 1 .. n
    BY <1>1, <1>3
  <2> QED
    BY <1>3, <1>5, <2>1, <2>2
<1>8. \A i : i \in Added(l, d) <=> \E k \in 1 .. m : i = n + k /\ Nth(S, k) = d
  <2>1. \A i : i \in Added(l, d) <=>
                 \E k \in 1 .. m : /\ i = n + k /\ tasks'[n + k].list = l
                                   /\ tasks'[n + k].recurring /\ tasks'[n + k].day = d
    BY <1>7 DEF Added
  <2>2. \A k \in 1 .. m :
           tasks'[n + k].list = l /\ tasks'[n + k].recurring /\ tasks'[n + k].day = d
              <=> Nth(S, k) = d
    <3>1. SUFFICES ASSUME NEW k \in 1 .. m
                   PROVE  tasks'[n + k].list = l /\ tasks'[n + k].recurring
                             /\ tasks'[n + k].day = d
                          <=> Nth(S, k) = d
      OBVIOUS
    <3> DEFINE t == NewTask(l, Nth(S, k), TRUE, {})
    <3>2. t.list = l /\ t.day = Nth(S, k) /\ t.recurring = TRUE
      BY DEF NewTask
    <3>3. tasks'[n + k] = t
      BY <1>2, <1>5
    <3> HIDE DEF t
    <3> QED
      BY <3>2, <3>3
  <2> HIDE DEF n, m, S
  <2> QED
    BY <2>1, <2>2
<1>9. ASSUME d \in S PROVE Cardinality(Added(l, d)) = 1
  <2>1. PICK k \in 1 .. m : \A j \in 1 .. m : Nth(S, j) = d <=> j = k
    BY <1>1, <1>9, NthOnto DEF m
  <2>2. Added(l, d) = {n + k}
    BY <1>8, <2>1
  <2> QED
    BY <2>2, FS_Singleton
<1>10. ASSUME d \notin S PROVE Added(l, d) = {}
  <2>1. \A k \in 1 .. m : Nth(S, k) \in S
    BY <1>1, NthIn DEF m
  <2> QED
    BY <1>8, <1>10, <2>1
<1>11. ASSUME d \in S
       PROVE  \E i \in DOMAIN tasks' : Shows(tasks'[i], d)
  <2>1. PICK k \in 1 .. m : Nth(S, k) = d
    BY <1>1, <1>11, NthOnto DEF m
  <2>2. n + k \in DOMAIN tasks' /\ tasks'[n + k] = g[k]
    BY <1>1, <1>3, <1>5
  <2>3. Shows(tasks'[n + k], d)
    BY <1>6, <2>1, <2>2 DEF Shows
  <2> QED
    BY <2>2, <2>3
<1>12. \A i \in TaskIds : i \in DOMAIN tasks' /\ tasks'[i] = tasks[i]
  BY <1>1, <1>3, <1>5
<1> QED
  BY <1>9, <1>10, <1>11, <1>12 DEF S

\* What Foretold says of a worklist and a day.
Told(l, d) ==
    /\ DayView(d).recurring => Cardinality(Added(l, d)) = 1
    /\ Added(l, d) # {} =>
          \/ DayView(d).recurring
          \/ \E i \in DayView(d).scheduled : tasks[i].recurring /\ tasks[i].list # l
    /\ ~DayView(d).recurring'

LEMMA AnyDay ==
    ASSUME TypeOK, NEW l \in Nat \ {0}, NEW r, r.week \in Weeks, ~r.locked,
           tasks' = tasks \o Generated(l, r),
           template' = template, NEW d \in r.week .. r.week + 6
    PROVE  Told(l, d)
<1>1. CASE ~Repeats
  <2>1. ~Recurring(d) /\ ~Recurring(d)' /\ Missing(l, r) = {}
    BY <1>1 DEF Recurring, Repeats, Missing
  <2>2. Added(l, d) = {}
    BY <2>1, Gains
  <2> QED
    BY <2>1, <2>2 DEF Told, DayView
<1>2. CASE Repeats
  <2> DEFINE rule == template.rule
             fires == d \in DatesInWindow(rule, r.week, 7)
             shown == \E i \in Scheduled(d) : tasks[i].recurring
  <2>1. DatesInWindow(rule, d, 1) # {} <=> fires
    BY OneDay
  <2>2. Recurring(d) <=> ~shown /\ fires
    BY <1>2, <2>1 DEF Recurring
  <2>3. Recurring(d)' <=> ~(\E i \in Scheduled(d)' : tasks'[i].recurring) /\ fires
    BY <1>2, <2>1 DEF Recurring, Repeats
  <2>4. d \in Missing(l, r) <=> fires /\ ~Present(l, d)
    BY <1>2 DEF Missing
  <2> HIDE DEF rule, fires
  <2>5. Present(l, d) => shown
    BY DEF Present, Scheduled
  <2>6. Recurring(d) => Cardinality(Added(l, d)) = 1
    BY <2>2, <2>4, <2>5, Gains
  <2>7. Added(l, d) # {} =>
           \/ Recurring(d)
           \/ \E i \in Scheduled(d) : tasks[i].recurring /\ tasks[i].list # l
    <3>1. SUFFICES ASSUME Added(l, d) # {}, ~Recurring(d)
                   PROVE  \E i \in Scheduled(d) : tasks[i].recurring /\ tasks[i].list # l
      OBVIOUS
    <3>2. fires /\ ~Present(l, d)
      BY <2>4, <3>1, Gains
    <3>3. PICK i \in Scheduled(d) : tasks[i].recurring
      BY <2>2, <3>1, <3>2
    <3>4. tasks[i].list # l
      BY <3>2, <3>3 DEF Present, Scheduled
    <3> QED
      BY <3>3, <3>4
  <2>8. ~Recurring(d)'
    <3>1. SUFFICES ASSUME fires PROVE \E i \in Scheduled(d)' : tasks'[i].recurring
      BY <2>3
    <3>2. CASE Present(l, d)
      <4>1. PICK i \in TaskIds : tasks[i].active /\ tasks[i].recurring /\ tasks[i].day = d
        BY <3>2 DEF Present
      <4>2. i \in DOMAIN tasks' /\ tasks'[i] = tasks[i]
        BY Gains
      <4> QED
        BY <4>1, <4>2 DEF Scheduled, TaskIds
    <3>3. CASE ~Present(l, d)
      <4>2. d \in Missing(l, r)
        BY <2>4, <3>1, <3>3
      <4>1. PICK i \in DOMAIN tasks' : Shows(tasks'[i], d)
        BY <4>2, Gains
      <4> QED
        BY <4>1 DEF Scheduled, TaskIds, Shows
    <3> QED
      BY <3>2, <3>3
  <2> QED
    BY <2>6, <2>7, <2>8 DEF Told, DayView
<1> QED
  BY <1>1, <1>2

LEMMA TypeForetold ==
    ASSUME TypeOK, NEW l \in DOMAIN lists', Generates(l), NEW d \in Days(l)'
    PROVE  Told(l, d)
<1>1. CASE l \in DOMAIN lists
  <2>1. Generate(l)
    BY <1>1 DEF Generates
  <2>2. /\ tasks' = tasks \o Generated(l, lists[l]) /\ template' = template
        /\ lists' = lists /\ ~lists[l].locked
    BY <2>1 DEF Generate
  <2>3. lists[l].week \in Weeks
    BY <1>1, ListsType
  <2>4. d \in lists[l].week .. lists[l].week + 6
    BY <2>2 DEF Days
  <2>5. l \in Nat \ {0}
    BY <1>1, ListsType
  <2> QED
    BY <2>2, <2>3, <2>4, <2>5, AnyDay
<1>2. CASE l \notin DOMAIN lists
  <2>1. PICK w \in Weeks : CreateWorklist(w)
    BY <1>2 DEF Generates
  <2>2. NewWorklist(w) \in Worklist /\ NewWorklist(w).week = w
        /\ ~NewWorklist(w).locked
    BY GoodList DEF NewWorklist
  <2>3. /\ lists' = Append(lists, NewWorklist(w)) /\ template' = template
        /\ tasks' = tasks \o Generated(Len(lists) + 1, NewWorklist(w))
    BY <2>1 DEF CreateWorklist
  <2>4. DOMAIN lists' = 1 .. Len(lists) + 1 /\ lists'[Len(lists) + 1] = NewWorklist(w)
    BY <2>2, <2>3, NewList
  <2>5. l = Len(lists) + 1
    BY <1>2, <2>4, ListsType
  <2>7. l \in Nat \ {0}
    BY <2>5, ListsType
  <2>6. d \in w .. w + 6
    BY <2>2, <2>4, <2>5 DEF Days
  <2> QED
    BY <2>2, <2>3, <2>5, <2>6, <2>7, AnyDay
<1> QED
  BY <1>1, <1>2

\* When the recurring tasks of a worklist are generated, each day of its week on which
\* the day page announced one gets just one; a day gets one unannounced only if an
\* instance of another worklist had silenced the page; and of no day of the week is one
\* announced any more (_day_view, generate_for_worklist).
THEOREM Foretelling == Spec => Foretold
<1>1. TypeOK => \A l \in DOMAIN lists' : Generates(l) => \A d \in Days(l)' : Told(l, d)
  BY TypeForetold
<1>2. TypeOK =>
        [\A l \in DOMAIN lists' : Generates(l) =>
            \A d \in Days(l)' :
               /\ DayView(d).recurring => Cardinality(Added(l, d)) = 1
               /\ Added(l, d) # {} =>
                     \/ DayView(d).recurring
                     \/ \E i \in DayView(d).scheduled :
                           tasks[i].recurring /\ tasks[i].list # l
               /\ ~DayView(d).recurring']_vars
  BY <1>1 DEF Told
<1> QED
  BY <1>2, TypeCorrect, PTL DEF Spec, Foretold

-----------------------------------------------------------------------------
(* The pages *)

LEMMA LineOf == \A i, x : x \in Lines(i) => x[1] = i
BY DEF Lines

LEMMA TypeShown ==
    ASSUME TypeOK
    PROVE  NothingHidden
<1>1. \A l \in DOMAIN lists : lists[l].week \in Nat
  BY ListsType, WeeksType
<1>2. ASSUME NEW l \in DOMAIN lists, NEW i \in OfList(l)
      PROVE  \/ Lines(i) \subseteq Printed(l)
             \/ \E d \in Calendar \ Workdays(l) : i \in DayView(d).scheduled
  <2>1. i \in TaskIds /\ tasks[i].active /\ tasks[i].day \in Calendar \cup {None}
    BY TasksType DEF OfList, Instance
  <2>2. ASSUME NEW d \in Workdays(l), i \in Placed(l, d)
        PROVE  Lines(i) \subseteq Printed(l)
    <3>1. Lines(i) \subseteq GridDay(l, d)
      BY <2>2 DEF GridDay
    <3> QED
      BY <3>1 DEF Printed
  <2>3. CASE tasks[i].day = None
    <3>1. lists[l].week \in Workdays(l) /\ i \in Placed(l, lists[l].week)
      BY <1>1, <2>3 DEF Placed, Workdays
    <3> QED
      BY <2>2, <3>1
  <2>4. CASE tasks[i].day \in Workdays(l)
    <3>1. i \in Placed(l, tasks[i].day)
      BY DEF Placed
    <3> QED
      BY <2>2, <2>4, <3>1
  <2>5. CASE tasks[i].day \in Calendar \ Workdays(l)
    <3>1. i \in Scheduled(tasks[i].day)
      BY <2>1 DEF Scheduled
    <3>2. i \in DayView(tasks[i].day).scheduled
      BY <3>1 DEF DayView
    <3> QED
      BY <2>5, <3>2
  <2> QED
    BY <2>1, <2>3, <2>4, <2>5
<1>3. ASSUME NEW l \in DOMAIN lists, NEW d \in Workdays(l)
      PROVE  WeekView(l)[d] = {x \in GridDay(l, d) : tasks[x[1]].day # None}
  <2>1. d \in Days(l) /\ d \in Int
    BY <1>1 DEF Days, Workdays
  <2>2. d # None
    BY <2>1, NoneAssumption
  <2>3. WeekView(l)[d] = ViewDay(l, d)
    BY <2>1 DEF WeekView
  <2>4. ASSUME NEW x
        PROVE  x \in ViewDay(l, d) <=> \E i \in OfList(l) : tasks[i].day = d /\ x \in Lines(i)
    BY DEF ViewDay
  <2>5. ASSUME NEW x
        PROVE  x \in GridDay(l, d) <=> \E i \in Placed(l, d) : x \in Lines(i)
    BY DEF GridDay
  <2>6. ASSUME NEW x
        PROVE  x \in ViewDay(l, d) <=> x \in GridDay(l, d) /\ tasks[x[1]].day # None
    <3>1. \A i : i \in Placed(l, d) /\ tasks[i].day # None <=> i \in OfList(l) /\ tasks[i].day = d
      BY <2>2 DEF Placed
    <3> QED
      BY <2>4, <2>5, <3>1, LineOf
  <2> QED
    BY <2>3, <2>6
<1> QED
  BY <1>2, <1>3 DEF NothingHidden

\* No task is lost to sight, whatever its worklist: it is printed with its week, or its
\* day is another and it is on the page of that day (build_week_grid, build_week_view).
THEOREM Showing == Spec => []NothingHidden
<1> QED
  BY TypeCorrect, TypeShown, PTL
=============================================================================
