------------------------------- MODULE CivilDate -------------------------------
(***************************************************************************)
(* The dates of date.h: a year and month, a day of a month, the last day   *)
(* of a month, the n-th or last weekday of a month, and their conversions  *)
(* to and from a count of days since 1970-01-01.  The conversions count in *)
(* eras of 400 years that begin on March 1st, so that the leap day is the  *)
(* last of its year; they hold for negative years too.                     *)
(***************************************************************************)
EXTENDS DateFields

YearMonth(y, m) == [y |-> y, m |-> m]
Date(y, m, d)   == [y |-> y, m |-> m, d |-> d]

\* The n-th weekday of a month, and the last one.
Nth(y, m, wd, index) == [y |-> y, m |-> m, wd |-> wd, index |-> index]
Last(y, m, wd)       == [y |-> y, m |-> m, wd |-> wd]

-------------------------------------------------------------------------------
\* Comparison of year_month and of year_month_day.
MonthBefore(a, b) ==
  \/ a.y < b.y
  \/ a.y = b.y /\ a.m < b.m
Before(a, b) ==
  \/ a.y < b.y
  \/ a.y = b.y /\ a.m < b.m
  \/ a.y = b.y /\ a.m = b.m /\ a.d < b.d

\* A mutant: the year is not rounded down for months before January.
PlusMonths_Truncates(ym, n) ==
  LET dmi == (ym.m - 1) + n
      dy  == Quot(dmi, 12)
  IN  [ym EXCEPT !.y = YearPlus(ym.y, dy), !.m = Month((dmi - (dy * 12)) + 1)]

PlusMonths(ym, n) ==
  LET dmi == (ym.m - 1) + n
      dy  == Quot(IF dmi >= 0 THEN dmi ELSE dmi - 11, 12)
  IN  [ym EXCEPT !.y = YearPlus(ym.y, dy), !.m = Month((dmi - (dy * 12)) + 1)]

PlusYears(ym, n)    == [ym EXCEPT !.y = YearPlus(ym.y, n)]
MonthsBetween(a, b) == (12 * (a.y - b.y)) + (a.m - b.m)

-------------------------------------------------------------------------------
\* month_day accepts February 29th, for it has no year.
MonthDayOK(m, d) ==
  MonthOK(m) /\ d \in 1..(CASE m = 2 -> 29 [] m \in {4, 6, 9, 11} -> 30 [] OTHER -> 31)

LastDay(y, m) ==
  CASE m = 2 -> IF IsLeap(y) THEN 29 ELSE 28
    [] m \in {4, 6, 9, 11} -> 30
    [] OTHER -> 31

DateOK(ymd) == MonthOK(ymd.m) /\ ymd.d \in 1..LastDay(ymd.y, ymd.m)

\* A mutant: the leap days are not taken off before the years are counted.
YearOfEra_AllCommon(doe) == doe \div 365

\* An era of 400 years has 146097 days; a year of it, counted from March, has the
\* leap day at its end if it has one, and its months begin every 153 / 5 days.
EraOfYear(y) == Quot(IF y >= 0 THEN y ELSE y - 399, 400)
EraOfDay(z) == Quot(IF z >= 0 THEN z ELSE z - 146096, 146097)
YearOfEra(doe) == (((doe - (doe \div 1460)) + (doe \div 36524)) - (doe \div 146096)) \div 365
DaysToYear(yoe) == ((365 * yoe) + (yoe \div 4)) - (yoe \div 100)
MarchMonth(doy) == ((5 * doy) + 2) \div 153
DaysToMonth(mp) == ((153 * mp) + 2) \div 5
MonthOfMarch(mp) == IF mp < 10 THEN mp + 3 ELSE mp - 9

ToDays(ymd) ==
  LET y   == IF ymd.m <= 2 THEN ymd.y - 1 ELSE ymd.y
      era == EraOfYear(y)
      yoe == y - (era * 400)
      mp  == IF ymd.m > 2 THEN ymd.m - 3 ELSE ymd.m + 9
      doy == (DaysToMonth(mp) + ymd.d) - 1
  IN  ((era * 146097) + (DaysToYear(yoe) + doy)) - 719468

FromDays(n) ==
  LET z   == n + 719468
      era == EraOfDay(z)
      doe == z - (era * 146097)
      yoe == YearOfEra(doe)
      y   == yoe + (era * 400)
      doy == doe - DaysToYear(yoe)
      mp  == MarchMonth(doy)
      d   == (doy - DaysToMonth(mp)) + 1
      m   == MonthOfMarch(mp)
  IN  Date(Year(IF m <= 2 THEN y + 1 ELSE y), Month(m), Day(d))

LastDays(y, m) == ToDays(Date(y, m, LastDay(y, m)))
WeekdayOf(ymd) == WeekdayFromDays(ToDays(ymd))

-------------------------------------------------------------------------------
\* A mutant: every month has five of every weekday.
NthOK_Always(nth) == MonthOK(nth.m) /\ WeekdayOK(nth.wd) /\ nth.index \in 1..5

NthOK(nth) ==
  LET first == WeekdayOf(Date(nth.y, nth.m, 1))
  IN  /\ MonthOK(nth.m) /\ WeekdayOK(nth.wd) /\ nth.index >= 1
      /\ \/ nth.index <= 4
         \/ WeekdayMinus(nth.wd, first) + ((nth.index - 1) * 7) + 1 <= LastDay(nth.y, nth.m)

NthFromDays(n) ==
  LET ymd == FromDays(n)
  IN  Nth(ymd.y, ymd.m, WeekdayFromDays(n), ((ymd.d - 1) \div 7) + 1)

NthToDays(nth) ==
  LET d == ToDays(Date(nth.y, nth.m, 1))
  IN  d + WeekdayMinus(nth.wd, WeekdayFromDays(d)) + ((nth.index - 1) * 7)

LastToDays(last) ==
  LET d == LastDays(last.y, last.m)
  IN  d - WeekdayMinus(WeekdayFromDays(d), last.wd)
===============================================================================
