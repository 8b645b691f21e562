------------------------------ MODULE Calendar ------------------------------
(***************************************************************************)
(* The year and the month of a day, counted from the first of January      *)
(* 1970, for the partition transforms (src/iceberg/partition_pruning.cpp). *)
(* The loops of civil_from_days take days off, year by year and then month *)
(* by month; they are the first turn at which the running sum of those     *)
(* days passes the day.                                                    *)
(***************************************************************************)
EXTENDS Integers, Sequences, FiniteSetsExt

is_leap_year(y) == (y % 4 = 0 /\ y % 100 # 0) \/ y % 400 = 0

days_in_month(y, m) ==
  IF m = 2 /\ is_leap_year(y) THEN 29
  ELSE <<31, 28, 31, 30, 31, 30, 31, 31, 30, 31, 30, 31>>[m]

YearDays(y) == IF is_leap_year(y) THEN 366 ELSE 365

\* Elapsed(days)[n] is the sum of the first n of the numbers days
Elapsed(days) == LET sum[n \in Nat] == IF n = 0 THEN 0 ELSE sum[n - 1] + days[n] IN sum

\* How many turns a loop over the years from 1970 on, or back, takes for d days
YearsForth(d) ==
  LET forth == Elapsed([n \in Nat |-> YearDays(1969 + n)])
  IN  Min({n \in 0..(d \div 365) : d < forth[n + 1]})
YearsBack(d) ==
  LET back == Elapsed([n \in Nat |-> YearDays(1970 - n)])
  IN  Min({n \in 0..(-d \div 365) + 1 : d + back[n] >= 0})

\* The month of the year y that remaining days from its first one fall into
MonthIn(y, remaining) ==
  LET months == Elapsed([m \in Nat |-> days_in_month(y, m)])
  IN  Min({m \in 1..12 : remaining < months[m]})

civil_from_days(d) ==
  LET forth == Elapsed([n \in Nat |-> YearDays(1969 + n)])
      back == Elapsed([n \in Nat |-> YearDays(1970 - n)])
  IN  IF d >= 0
        THEN [year |-> 1970 + YearsForth(d),
              month |-> MonthIn(1970 + YearsForth(d), d - forth[YearsForth(d)])]
        ELSE [year |-> 1970 - YearsBack(d),
              month |-> MonthIn(1970 - YearsBack(d), d + back[YearsBack(d)])]

\* The months since January 1970
months_from_days(d) == LET c == civil_from_days(d) IN (c.year - 1970) * 12 + (c.month - 1)
=============================================================================
