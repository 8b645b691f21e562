--------------------------- MODULE CalendarProofs ---------------------------
(***************************************************************************)
(* For every day, before and after 1970: the loops of civil_from_days end, *)
(* and a later day is in no earlier month and in no earlier year.          *)
(***************************************************************************)
EXTENDS Calendar, WellFoundedInduction, TLAPS

\* Every non-empty set of natural numbers has a least element.
LEMMA LeastNat ==
  ASSUME NEW T \in SUBSET Nat, T # {}
  PROVE  \E x \in T : \A y \in T : x <= y
<1> DEFINE R == {ss \in Nat \X Nat : ss[1] < ss[2]}
<1>1. IsWellFoundedOn(R, Nat)
  BY NatLessThanWellFounded, Zenon DEF OpToRel
<1>2. PICK x \in T : \A y \in T : ~(<<y, x>> \in R)
  <2> HIDE DEF R
  <2> QED BY <1>1, WFMin
<1>3. \A y \in T : ~(y < x)
  BY <1>2
<1> QED BY <1>3

-----------------------------------------------------------------------------
(* Running sums *)

\* f has the sums of the first 0, 1, ..., n numbers.
IsSum(f, days, n) ==
  /\ DOMAIN f = 0 .. n
  /\ \A i \in 0 .. n : f[i] = IF i = 0 THEN 0 ELSE f[i - 1] + days[i]

\* Numbers have no two running sums.
LEMMA SumUnique ==
  ASSUME NEW days, NEW n \in Nat, NEW m \in Nat, NEW f, NEW g,
         IsSum(f, days, n), IsSum(g, days, m)
  PROVE  \A i \in 0 .. n : i <= m => f[i] = g[i]
<1> DEFINE T == {i \in 0 .. n : i <= m /\ f[i] # g[i]}
<1> SUFFICES ASSUME T # {} PROVE FALSE
  OBVIOUS
<1>1. PICK k \in T : \A j \in T : k <= j
  <2>1. T \in SUBSET Nat
    OBVIOUS
  <2> HIDE DEF T
  <2> QED BY <2>1, LeastNat
<1>2. k # 0
  BY <1>1 DEF IsSum
<1>3. k - 1 \in 0 .. n /\ k - 1 <= m /\ k - 1 \notin T
  BY <1>1, <1>2
<1>4. f[k - 1] = g[k - 1]
  BY <1>3
<1> QED BY <1>1, <1>2, <1>4 DEF IsSum

\* Any n numbers have one.
LEMMA SumExists ==
  ASSUME NEW days, NEW n \in Nat
  PROVE  \E f : IsSum(f, days, n)
<1> DEFINE T == {i \in Nat : ~\E f : IsSum(f, days, i)}
<1> SUFFICES ASSUME T # {} PROVE FALSE
  OBVIOUS
<1>1. PICK k \in T : \A j \in T : k <= j
  <2>1. T \in SUBSET Nat
    OBVIOUS
  <2> HIDE DEF T
  <2> QED BY <2>1, LeastNat
<1>2. CASE k = 0
  <2>1. IsSum([i \in 0 .. 0 |-> 0], days, 0)
    BY DEF IsSum
  <2> QED BY <1>1, <1>2, <2>1
<1>3. CASE k # 0
  <2>1. k - 1 \in Nat /\ k - 1 \notin T
    BY <1>1, <1>3
  <2>2. PICK f : IsSum(f, days, k - 1)
    BY <2>1
  <2> DEFINE g == [i \in 0 .. k |-> IF i = k THEN f[k - 1] + days[k] ELSE f[i]]
  <2>3. ASSUME NEW i \in 0 .. k PROVE g[i] = IF i = 0 THEN 0 ELSE g[i - 1] + days[i]
    <3>1. CASE i = k
      <4>1. i - 1 \in 0 .. k /\ i - 1 # k
        BY <1>1, <1>3, <3>1
      <4> QED BY <1>3, <3>1, <4>1
    <3>2. CASE i # k
      <4>1. i \in 0 .. (k - 1)
        BY <1>1, <3>2
      <4>2. i # 0 => i - 1 \in 0 .. k /\ i - 1 # k
        BY <1>1, <4>1
      <4>3. f[i] = IF i = 0 THEN 0 ELSE f[i - 1] + days[i]
        BY <2>2, <4>1 DEF IsSum
      <4> QED BY <3>2, <4>2, <4>3
    <3> QED BY <3>1, <3>2
  <2>4. IsSum(g, days, k)
    <3>1. DOMAIN g = 0 .. k
      OBVIOUS
    <3> HIDE DEF g
    <3> QED BY <2>3, <3>1 DEF IsSum
  <2> QED BY <1>1, <2>4
<1> QED BY <1>2, <1>3

\* Elapsed is what the loops of civil_from_days add up.
LEMMA ElapsedSums ==
  ASSUME NEW days
  PROVE  /\ Elapsed(days)[0] = 0
         /\ \A n \in Nat \ {0} : Elapsed(days)[n] = Elapsed(days)[n - 1] + days[n]
<1> DEFINE Sum_(n) == CHOOSE f : IsSum(f, days, n)
           F == [n \in Nat |-> Sum_(n)[n]]
           G(s) == [n \in Nat |-> IF n = 0 THEN 0 ELSE s[n - 1] + days[n]]
<1>1. \A n \in Nat : IsSum(Sum_(n), days, n)
  BY SumExists
<1>2. ASSUME NEW n \in Nat PROVE F[n] = IF n = 0 THEN 0 ELSE F[n - 1] + days[n]
  <2> HIDE DEF Sum_
  <2>1. Sum_(n)[n] = IF n = 0 THEN 0 ELSE Sum_(n)[n - 1] + days[n]
    BY <1>1 DEF IsSum
  <2>2. n # 0 => n - 1 \in Nat /\ Sum_(n - 1)[n - 1] = Sum_(n)[n - 1]
    <3> SUFFICES ASSUME n # 0 PROVE n - 1 \in Nat /\ Sum_(n - 1)[n - 1] = Sum_(n)[n - 1]
      OBVIOUS
    <3>1. n - 1 \in Nat /\ n - 1 \in 0 .. (n - 1) /\ n - 1 <= n
      OBVIOUS
    <3>2. IsSum(Sum_(n - 1), days, n - 1) /\ IsSum(Sum_(n), days, n)
      BY <1>1, <3>1
    <3> QED BY <3>1, <3>2, SumUnique
  <2> QED BY <2>1, <2>2
<1>3. F = G(F)
  <2> HIDE DEF F
  <2>1. F = [n \in Nat |-> F[n]]
    BY DEF F
  <2> QED BY <1>2, <2>1
<1>4. Elapsed(days) = G(Elapsed(days))
  <2>1. Elapsed(days) = CHOOSE s : s = G(s)
    BY DEF Elapsed
  <2>2. \E s : s = G(s)
    <3> HIDE DEF F
    <3> QED BY <1>3
  <2> HIDE DEF G
  <2> QED BY <2>1, <2>2
<1> DEFINE E == Elapsed(days)
<1>5. E = G(E)
  BY <1>4
<1> HIDE DEF E
<1>6. E[0] = 0 /\ \A n \in Nat \ {0} : E[n] = E[n - 1] + days[n]
  BY <1>5
<1> QED BY <1>6 DEF E

-----------------------------------------------------------------------------
(* The calendar *)

\* Min is the least element of a set of natural numbers.
LEMMA LeastOf ==
  ASSUME NEW S \in SUBSET Nat, S # {}
  PROVE  Min(S) \in S /\ \A y \in S : Min(S) <= y
<1>1. \E x \in S : \A y \in S : x <= y
  BY LeastNat
<1> QED BY <1>1 DEF Min

\* What is_leap_year lets a year have of days.
YearLengths == [Nat -> {365, 366}]

\* n years are at least 365 * n days, so that the loops over the years end.
LEMMA YearsElapsed ==
  ASSUME NEW days \in YearLengths, NEW n \in Nat
  PROVE  Elapsed(days)[n] \in Int /\ Elapsed(days)[n] >= 365 * n
<1> DEFINE E == Elapsed(days)
           T == {i \in Nat : ~(E[i] \in Int /\ E[i] >= 365 * i)}
<1>0. E[0] = 0 /\ \A i \in Nat \ {0} : E[i] = E[i - 1] + days[i]
  BY ElapsedSums
<1> HIDE DEF E
<1> SUFFICES ASSUME T # {} PROVE FALSE
  BY DEF E
<1>1. PICK k \in T : \A j \in T : k <= j
  <2>1. T \in SUBSET Nat
    OBVIOUS
  <2> HIDE DEF T
  <2> QED BY <2>1, LeastNat
<1>2. k # 0
  BY <1>0, <1>1
<1>3. k - 1 \in Nat /\ k - 1 \notin T
  BY <1>1, <1>2
<1>4. E[k - 1] \in Int /\ E[k - 1] >= 365 * (k - 1)
  BY <1>3
<1>5. days[k] \in {365, 366} /\ E[k] = E[k - 1] + days[k]
  BY <1>0, <1>1, <1>2 DEF YearLengths
<1> QED BY <1>1, <1>4, <1>5

\* The days of the first n years from 1970 on, and of those before it.
Forth == Elapsed([n \in Nat |-> YearDays(1969 + n)])
Back == Elapsed([n \in Nat |-> YearDays(1970 - n)])

\* A turn of a loop over the years takes off the days of the next year.
LEMMA YearSums ==
  ASSUME NEW n \in Nat
  PROVE  /\ Forth[n] \in Int /\ Forth[n] >= 365 * n
         /\ Back[n] \in Int /\ Back[n] >= 365 * n
         /\ Forth[n + 1] = Forth[n] + YearDays(1970 + n)
         /\ Back[n + 1] = Back[n] + YearDays(1969 - n)
         /\ Forth[0] = 0 /\ Back[0] = 0
<1> DEFINE F == [k \in Nat |-> YearDays(1969 + k)]
           B == [k \in Nat |-> YearDays(1970 - k)]
<1>1. F \in YearLengths /\ B \in YearLengths
  BY DEF YearLengths, YearDays
<1>2. F[n + 1] = YearDays(1970 + n) /\ B[n + 1] = YearDays(1969 - n)
  <2>1. n + 1 \in Nat /\ 1969 + (n + 1) = 1970 + n /\ 1970 - (n + 1) = 1969 - n
    OBVIOUS
  <2> QED BY <2>1
<1> HIDE DEF F, B
<1>3. Elapsed(F)[0] = 0 /\ Elapsed(F)[n + 1] = Elapsed(F)[n] + F[n + 1]
  <2>1. n + 1 \in Nat \ {0} /\ (n + 1) - 1 = n
    OBVIOUS
  <2>2. Elapsed(F)[n + 1] = Elapsed(F)[(n + 1) - 1] + F[n + 1]
    BY <2>1, ElapsedSums
  <2> QED BY <2>1, <2>2, ElapsedSums
<1>4. Elapsed(B)[0] = 0 /\ Elapsed(B)[n + 1] = Elapsed(B)[n] + B[n + 1]
  <2>1. n + 1 \in Nat \ {0} /\ (n + 1) - 1 = n
    OBVIOUS
  <2>2. Elapsed(B)[n + 1] = Elapsed(B)[(n + 1) - 1] + B[n + 1]
    BY <2>1, ElapsedSums
  <2> QED BY <2>1, <2>2, ElapsedSums
<1>5. Forth = Elapsed(F) /\ Back = Elapsed(B)
  BY DEF F, B, Forth, Back
<1>6. /\ Elapsed(F)[n] \in Int /\ Elapsed(F)[n] >= 365 * n
      /\ Elapsed(B)[n] \in Int /\ Elapsed(B)[n] >= 365 * n
  BY <1>1, YearsElapsed
<1> QED BY <1>2, <1>3, <1>4, <1>5, <1>6

\* The loop over the years stops at the year the day is in.
LEMMA YearOfDay ==
  ASSUME NEW d \in Int
  PROVE  /\ d >= 0 => LET n == YearsForth(d)
                      IN  /\ n \in Nat /\ d < Forth[n + 1]
                          /\ n # 0 => d >= Forth[n]
                          /\ \A k \in Nat : d < Forth[k + 1] => n <= k
         /\ d < 0 => LET n == YearsBack(d)
                     IN  /\ n \in Nat \ {0} /\ d + Back[n] >= 0 /\ d + Back[n - 1] < 0
                         /\ \A k \in Nat : d + Back[k] >= 0 => n <= k
<1>1. ASSUME d >= 0
      PROVE  LET n == YearsForth(d)
             IN  /\ n \in Nat /\ d < Forth[n + 1]
                 /\ n # 0 => d >= Forth[n]
                 /\ \A k \in Nat : d < Forth[k + 1] => n <= k
  <2> DEFINE q == d \div 365
             S == {k \in 0 .. q : d < Forth[k + 1]}
  <2>1. q \in Nat /\ d < 365 * (q + 1)
    BY <1>1
  <2> HIDE DEF q
  <2>2. q \in S
    <3>1. Forth[q + 1] \in Int /\ Forth[q + 1] >= 365 * (q + 1)
      BY <2>1, YearSums
    <3> QED BY <2>1, <3>1
  <2>3. YearsForth(d) = Min(S)
    BY DEF YearsForth, Forth, q
  <2> DEFINE n == Min(S)
  <2>4. n \in S /\ \A k \in S : n <= k
    <3>1. S \in SUBSET Nat
      BY <2>1
    <3> HIDE DEF S
    <3>2. S # {}
      BY <2>2
    <3> QED BY <3>1, <3>2, LeastOf
  <2> HIDE DEF n
  <2>5. n \in Nat /\ n \in 0 .. q /\ d < Forth[n + 1]
    BY <2>1, <2>4
  <2>6. ASSUME n # 0 PROVE d >= Forth[n]
    <3>1. n - 1 \in 0 .. q /\ (n - 1) + 1 = n /\ n - 1 \notin S
      BY <2>1, <2>4, <2>5, <2>6
    <3>2. Forth[n] \in Int
      BY <2>5, YearSums
    <3> QED BY <3>1, <3>2
  <2>7. ASSUME NEW k \in Nat, d < Forth[k + 1] PROVE n <= k
    <3>1. CASE k \in 0 .. q
      BY <2>4, <2>7, <3>1
    <3>2. CASE k \notin 0 .. q
      BY <2>1, <2>5, <3>2
    <3> QED BY <3>1, <3>2
  <2> QED BY <2>3, <2>5, <2>6, <2>7 DEF n
<1>2. ASSUME d < 0
      PROVE  LET n == YearsBack(d)
             IN  /\ n \in Nat \ {0} /\ d + Back[n] >= 0 /\ d + Back[n - 1] < 0
                 /\ \A k \in Nat : d + Back[k] >= 0 => n <= k
  <2> DEFINE q == (-d \div 365) + 1
             S == {k \in 0 .. q : d + Back[k] >= 0}
  <2>1. q \in Nat /\ -d <= 365 * q
    BY <1>2
  <2> HIDE DEF q
  <2>2. q \in S
    <3>1. Back[q] \in Int /\ Back[q] >= 365 * q
      BY <2>1, YearSums
    <3> QED BY <2>1, <3>1
  <2>3. YearsBack(d) = Min(S)
    BY DEF YearsBack, Back, q
  <2> DEFINE n == Min(S)
  <2>4. n \in S /\ \A k \in S : n <= k
    <3>1. S \in SUBSET Nat
      BY <2>1
    <3> HIDE DEF S
    <3>2. S # {}
      BY <2>2
    <3> QED BY <3>1, <3>2, LeastOf
  <2> HIDE DEF n
  <2>5. n \in Nat /\ n \in 0 .. q /\ d + Back[n] >= 0
    BY <2>1, <2>4
  <2>6. n # 0
    <3>1. Back[0] = 0
      BY YearSums
    <3> QED BY <1>2, <2>5, <3>1
  <2>7. d + Back[n - 1] < 0
    <3>1. n - 1 \in Nat /\ n - 1 \in 0 .. q /\ n - 1 \notin S
      BY <2>1, <2>4, <2>5, <2>6
    <3>2. \A k \in Nat : Back[k] \in Int
      BY YearSums
    <3>3. Back[n - 1] \in Int
      BY <3>1, <3>2
    <3> QED BY <3>1, <3>3
  <2>8. ASSUME NEW k \in Nat, d + Back[k] >= 0 PROVE n <= k
    <3>1. CASE k \in 0 .. q
      BY <2>4, <2>8, <3>1
    <3>2. CASE k \notin 0 .. q
      BY <2>1, <2>5, <3>2
    <3> QED BY <3>1, <3>2
  <2> QED BY <2>3, <2>5, <2>6, <2>7, <2>8 DEF n
<1> QED BY <1>1, <1>2

\* The months make up the year.
LEMMA MonthSums ==
  ASSUME NEW y \in Int
  PROVE  LET E == Elapsed([m \in Nat |-> days_in_month(y, m)])
         IN  /\ \A m \in 1 .. 12 : E[m] \in Int
             /\ E[12] = YearDays(y)
<1> DEFINE D == [m \in Nat |-> days_in_month(y, m)]
           E == Elapsed(D)
<1>1. /\ D[1] = 31 /\ D[2] = YearDays(y) - 337 /\ D[3] = 31 /\ D[4] = 30 /\ D[5] = 31
      /\ D[6] = 30 /\ D[7] = 31 /\ D[8] = 31 /\ D[9] = 30 /\ D[10] = 31
      /\ D[11] = 30 /\ D[12] = 31
  BY DEF days_in_month, YearDays
<1>2. YearDays(y) \in {365, 366}
  BY DEF YearDays
<1> HIDE DEF D
<1>3. E[0] = 0 /\ \A n \in Nat \ {0} : E[n] = E[n - 1] + D[n]
  BY ElapsedSums
<1> HIDE DEF E
<1>4. /\ E[1] = E[0] + D[1] /\ E[2] = E[1] + D[2] /\ E[3] = E[2] + D[3]
      /\ E[4] = E[3] + D[4] /\ E[5] = E[4] + D[5] /\ E[6] = E[5] + D[6]
      /\ E[7] = E[6] + D[7] /\ E[8] = E[7] + D[8] /\ E[9] = E[8] + D[9]
      /\ E[10] = E[9] + D[10] /\ E[11] = E[10] + D[11] /\ E[12] = E[11] + D[12]
  BY <1>3
<1>5. /\ E[1] \in Int /\ E[2] \in Int /\ E[3] \in Int /\ E[4] \in Int /\ E[5] \in Int
      /\ E[6] \in Int /\ E[7] \in Int /\ E[8] \in Int /\ E[9] \in Int /\ E[10] \in Int
      /\ E[11] \in Int /\ E[12] \in Int /\ E[12] = YearDays(y)
  BY <1>1, <1>2, <1>3, <1>4
<1>6. \A m \in 1 .. 12 : E[m] \in Int
  BY <1>5
<1> QED BY <1>5, <1>6 DEF D, E

\* The loop over the months stops within the year, no earlier for a later day.
LEMMA MonthOfDay ==
  ASSUME NEW y \in Int, NEW a \in Int, NEW b \in Int, a <= b, b < YearDays(y)
  PROVE  MonthIn(y, a) \in 1 .. 12 /\ MonthIn(y, b) \in 1 .. 12 /\ MonthIn(y, a) <= MonthIn(y, b)
<1> DEFINE E == Elapsed([m \in Nat |-> days_in_month(y, m)])
           A == {m \in 1 .. 12 : a < E[m]}
           B == {m \in 1 .. 12 : b < E[m]}
<1>1. MonthIn(y, a) = Min(A) /\ MonthIn(y, b) = Min(B)
  BY DEF MonthIn
<1>2. (\A m \in 1 .. 12 : E[m] \in Int) /\ E[12] = YearDays(y)
  BY MonthSums
<1> HIDE DEF E
<1>3. 12 \in B /\ B \subseteq A /\ A \in SUBSET Nat
  <2>1. 12 \in B
    BY <1>2
  <2>2. ASSUME NEW m \in B PROVE m \in A
    <3>1. m \in 1 .. 12 /\ b < E[m] /\ E[m] \in Int
      BY <1>2, <2>2
    <3> QED BY <3>1
  <2> QED BY <2>1, <2>2
<1> HIDE DEF A, B
<1>4. Min(A) \in A /\ \A m \in A : Min(A) <= m
  BY <1>3, LeastOf
<1>5. Min(B) \in B
  BY <1>3, LeastOf
<1>6. Min(A) <= Min(B)
  BY <1>3, <1>4, <1>5
<1>7. A \subseteq 1 .. 12
  BY DEF A
<1> QED BY <1>1, <1>3, <1>4, <1>5, <1>6, <1>7

\* The day of the year a date is in, by the loop over the years.
Remaining(d) == IF d >= 0 THEN d - Forth[YearsForth(d)] ELSE d + Back[YearsBack(d)]

\* The year is where the loop over the years stops, and the day left is in it.
LEMMA CivilDate ==
  ASSUME NEW d \in Int
  PROVE  LET c == civil_from_days(d)
         IN  /\ c.year \in Int
             /\ c.year = IF d >= 0 THEN 1970 + YearsForth(d) ELSE 1970 - YearsBack(d)
             /\ c.month = MonthIn(c.year, Remaining(d))
             /\ Remaining(d) \in Int /\ Remaining(d) < YearDays(c.year)
             /\ months_from_days(d) = (c.year - 1970) * 12 + (c.month - 1)
<1> DEFINE c == civil_from_days(d)
<1>1. CASE d >= 0
  <2> DEFINE n == YearsForth(d)
  <2>1. n \in Nat /\ d < Forth[n + 1]
    BY <1>1, YearOfDay
  <2>2. c = [year |-> 1970 + n, month |-> MonthIn(1970 + n, d - Forth[n])]
    BY <1>1 DEF civil_from_days, Forth
  <2>3. Remaining(d) = d - Forth[n]
    BY <1>1 DEF Remaining
  <2> HIDE DEF n, c
  <2>4. Forth[n] \in Int /\ Forth[n + 1] = Forth[n] + YearDays(1970 + n)
    <3>1. n \in Nat
      BY <2>1
    <3> QED BY <3>1, YearSums
  <2>5. YearDays(1970 + n) \in Int
    BY DEF YearDays
  <2>6. /\ c.year = 1970 + n /\ c.year \in Int /\ c.month = MonthIn(c.year, Remaining(d))
        /\ Remaining(d) \in Int /\ Remaining(d) < YearDays(c.year)
    BY <2>1, <2>2, <2>3, <2>4, <2>5
  <2> QED BY <1>1, <2>6 DEF months_from_days, n, c
<1>2. CASE d < 0
  <2> DEFINE n == YearsBack(d)
  <2>1. n \in Nat \ {0} /\ d + Back[n - 1] < 0
    BY <1>2, YearOfDay
  <2>2. ~(d >= 0)
    BY <1>2
  <2>3. c = [year |-> 1970 - n, month |-> MonthIn(1970 - n, d + Back[n])]
    BY <2>2 DEF civil_from_days, Back
  <2>4. Remaining(d) = d + Back[n]
    BY <2>2 DEF Remaining
  <2> HIDE DEF n, c
  <2>5. Back[n - 1] \in Int /\ Back[n] = Back[n - 1] + YearDays(1970 - n)
    <3> DEFINE k == n - 1
    <3>1. k \in Nat /\ k + 1 = n /\ 1969 - k = 1970 - n
      BY <2>1
    <3> HIDE DEF k
    <3>2. Back[k] \in Int /\ Back[k + 1] = Back[k] + YearDays(1969 - k)
      <4>1. k \in Nat
        BY <3>1
      <4> QED BY <4>1, YearSums
    <3>3. Back[k] \in Int /\ Back[n] = Back[k] + YearDays(1970 - n)
      BY <3>1, <3>2
    <3> QED BY <3>3 DEF k
  <2>6. YearDays(1970 - n) \in Int
    BY DEF YearDays
  <2>7. /\ c.year = 1970 - n /\ c.year \in Int /\ c.month = MonthIn(c.year, Remaining(d))
        /\ Remaining(d) \in Int /\ Remaining(d) < YearDays(c.year)
    BY <2>1, <2>3, <2>4, <2>5, <2>6
  <2> QED BY <2>2, <2>7 DEF months_from_days, n, c
<1> QED BY <1>1, <1>2

\* civil_from_days finds a year and one of its twelve months for every day,
\* also before 1970, and for a later day no earlier year and no earlier month:
\* what it means for a partition by year or month to keep the order of dates.
THEOREM CalendarMonotonic ==
  ASSUME NEW a \in Int, NEW b \in Int, a <= b
  PROVE  /\ civil_from_days(a).year \in Int /\ civil_from_days(a).month \in 1 .. 12
         /\ months_from_days(a) \in Int
         /\ civil_from_days(a).year <= civil_from_days(b).year
         /\ months_from_days(a) <= months_from_days(b)
<1> DEFINE ya == civil_from_days(a).year
           yb == civil_from_days(b).year
           ma == civil_from_days(a).month
           mb == civil_from_days(b).month
<1>1. /\ ya \in Int /\ ma = MonthIn(ya, Remaining(a))
      /\ Remaining(a) \in Int /\ Remaining(a) < YearDays(ya)
      /\ ya = IF a >= 0 THEN 1970 + YearsForth(a) ELSE 1970 - YearsBack(a)
      /\ months_from_days(a) = (ya - 1970) * 12 + (ma - 1)
  BY CivilDate
<1>2. /\ yb \in Int /\ mb = MonthIn(yb, Remaining(b))
      /\ Remaining(b) \in Int /\ Remaining(b) < YearDays(yb)
      /\ yb = IF b >= 0 THEN 1970 + YearsForth(b) ELSE 1970 - YearsBack(b)
      /\ months_from_days(b) = (yb - 1970) * 12 + (mb - 1)
  BY CivilDate
<1> HIDE DEF ya, yb, ma, mb
<1>3. ya <= yb /\ (ya = yb => Remaining(a) <= Remaining(b))
  <2>1. CASE a >= 0
    <3>1. b >= 0
      BY <2>1
    <3> DEFINE n == YearsForth(a)
               m == YearsForth(b)
    <3>2. n \in Nat /\ \A k \in Nat : a < Forth[k + 1] => n <= k
      BY <2>1, YearOfDay
    <3>3. m \in Nat /\ b < Forth[m + 1]
      BY <3>1, YearOfDay
    <3>4. Remaining(a) = a - Forth[n] /\ Remaining(b) = b - Forth[m]
      BY <2>1, <3>1 DEF Remaining
    <3>5. ya = 1970 + n /\ yb = 1970 + m
      BY <1>1, <1>2, <2>1, <3>1
    <3> HIDE DEF n, m
    <3>6. Forth[m + 1] \in Int /\ Forth[m] \in Int
      <4>1. m + 1 \in Nat
        BY <3>3
      <4> QED BY <3>3, <4>1, YearSums
    <3>7. n <= m
      <4>1. a < Forth[m + 1]
        BY <3>3, <3>6
      <4> QED BY <3>2, <3>3, <4>1
    <3>8. n = m => Remaining(a) <= Remaining(b)
      BY <3>4, <3>6
    <3> QED BY <3>2, <3>3, <3>5, <3>7, <3>8
  <2>2. CASE a < 0 /\ b >= 0
    <3>1. YearsBack(a) \in Nat \ {0} /\ YearsForth(b) \in Nat
      BY <2>2, YearOfDay
    <3>2. ya = 1970 - YearsBack(a) /\ yb = 1970 + YearsForth(b)
      BY <1>1, <1>2, <2>2
    <3> QED BY <3>1, <3>2
  <2>3. CASE b < 0
    <3>1. a < 0 /\ ~(a >= 0) /\ ~(b >= 0)
      BY <2>3
    <3> DEFINE n == YearsBack(a)
               m == YearsBack(b)
    <3>2. n \in Nat /\ a + Back[n] >= 0
      BY <3>1, YearOfDay
    <3>3. m \in Nat /\ \A k \in Nat : b + Back[k] >= 0 => m <= k
      BY <2>3, YearOfDay
    <3>4. Remaining(a) = a + Back[n] /\ Remaining(b) = b + Back[m]
      BY <3>1 DEF Remaining
    <3>5. ya = 1970 - n /\ yb = 1970 - m
      BY <1>1, <1>2, <3>1
    <3> HIDE DEF n, m
    <3>6. Back[n] \in Int
      BY <3>2, YearSums
    <3>7. m <= n
      <4>1. b + Back[n] >= 0
        BY <3>2, <3>6
      <4> QED BY <3>2, <3>3, <4>1
    <3>8. n = m => Remaining(a) <= Remaining(b)
      BY <3>4, <3>6
    <3> QED BY <3>2, <3>3, <3>5, <3>7, <3>8
  <2> QED BY <2>1, <2>2, <2>3
<1>4. ma \in 1 .. 12 /\ mb \in 1 .. 12
  <2>1. ya \in Int /\ Remaining(a) \in Int /\ Remaining(a) <= Remaining(a)
        /\ Remaining(a) < YearDays(ya)
    BY <1>1
  <2>2. yb \in Int /\ Remaining(b) \in Int /\ Remaining(b) <= Remaining(b)
        /\ Remaining(b) < YearDays(yb)
    BY <1>2
  <2>3. MonthIn(ya, Remaining(a)) \in 1 .. 12
    BY <2>1, MonthOfDay, Zenon
  <2>4. MonthIn(yb, Remaining(b)) \in 1 .. 12
    BY <2>2, MonthOfDay, Zenon
  <2>5. ma = MonthIn(ya, Remaining(a)) /\ mb = MonthIn(yb, Remaining(b))
    BY <1>1, <1>2
  <2> QED BY <2>3, <2>4, <2>5
<1>5. ya = yb => ma <= mb
  <2> SUFFICES ASSUME ya = yb PROVE ma <= mb
    OBVIOUS
  <2>1. Remaining(a) <= Remaining(b) /\ Remaining(b) < YearDays(ya)
    BY <1>2, <1>3
  <2>2. ya \in Int /\ Remaining(a) \in Int /\ Remaining(b) \in Int
    BY <1>1, <1>2
  <2>3. MonthIn(ya, Remaining(a)) <= MonthIn(ya, Remaining(b))
    BY <2>1, <2>2, MonthOfDay, Zenon
  <2>4. ma = MonthIn(ya, Remaining(a))
    BY <1>1
  <2>5. mb = MonthIn(ya, Remaining(b))
    <3>1. mb = MonthIn(yb, Remaining(b))
      BY <1>2
    <3> QED BY <3>1, Zenon
  <2> QED BY <2>3, <2>4, <2>5
<1>6. months_from_days(a) \in Int /\ months_from_days(a) <= months_from_days(b)
  <2>1. CASE ya = yb
    BY <1>1, <1>2, <1>4, <1>5, <2>1
  <2>2. CASE ya # yb
    <3>1. ya + 1 <= yb
      BY <1>1, <1>2, <1>3, <2>2
    <3> QED BY <1>1, <1>2, <1>4, <3>1
  <2> QED BY <2>1, <2>2
<1> QED BY <1>1, <1>3, <1>4, <1>6 DEF ya, yb, ma
=============================================================================
