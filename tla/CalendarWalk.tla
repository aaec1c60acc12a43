------------------------------ MODULE CalendarWalk -----------------------------
(***************************************************************************)
(* A time point that moves forward, beside a calendar and a clock kept by  *)
(* hand: the day after a day, the carry from seconds to minutes, hours and *)
(* days.  date.h never counts that way, it computes every field from the   *)
(* count of ticks, as to_string(tpoint) makes it do; the invariants        *)
(* compare the two on every day of the walk.                               *)
(***************************************************************************)
EXTENDS DateStream, FiniteSets

CONSTANTS
  YearsBack,  \* walks by days begin on January 1st of 2100 - k, k in YearsBack
  Units,      \* the units of the walks by the clock: ticks in a day
  DaySteps,   \* bound: the steps of a walk by days
  ClockSteps, \* bound: the steps of a walk by the clock
  MaxMonths   \* bound: the months added to a date

\* A unit is a whole number of seconds or an exact part of one, and an hour has
\* whole ticks of it, as have a minute and a second if it is fine enough for them.
UnitOK(u) ==
  /\ u \in Nat /\ u >= 24 /\ u % 24 = 0
  /\ u >= 1440 => u % 1440 = 0
  /\ IF u < 86400 THEN 86400 % u = 0 ELSE u % 86400 = 0

ASSUME CalendarAssumption ==
  /\ \A k \in YearsBack : k \in Nat
  /\ \A u \in Units : UnitOK(u)
  /\ DaySteps \in Nat /\ ClockSteps \in Nat /\ MaxMonths \in Nat

VARIABLES
  unit,       \* the unit of the time point: ticks in a day, 1 for a walk by days
  tp,         \* the time point: ticks since 1970-01-01 00:00
  left,       \* the steps left
  date,       \* the date kept by hand
  weekday,    \* its weekday, 0 for Sunday
  yday,       \* its number in the year, from 1
  time        \* the time of the day kept by hand
vars == <<unit, tp, left, date, weekday, yday, time>>

ByDays == unit = 1
DateNow == FromDays(Floor(tp, unit))
TimeNow == MakeTime(tp - (Floor(tp, unit) * unit), unit)

-------------------------------------------------------------------------------
\* The calendar and the clock kept by hand.

LeapYear(y) == (y % 4 = 0 /\ y % 100 # 0) \/ y % 400 = 0
DaysIn(y, m) ==
  CASE m \in {4, 6, 9, 11} -> 30
    [] m = 2               -> IF LeapYear(y) THEN 29 ELSE 28
    [] OTHER               -> 31
DaysOfYear(y) == IF LeapYear(y) THEN 366 ELSE 365

NewYear(ymd) == ymd.m = 12 /\ ymd.d = 31
DayAfter(ymd) ==
  IF NewYear(ymd) THEN Date(ymd.y + 1, 1, 1)
  ELSE IF ymd.d = DaysIn(ymd.y, ymd.m) THEN Date(ymd.y, ymd.m + 1, 1)
  ELSE [ymd EXCEPT !.d = @ + 1]

\* A step of the clock: one hour, and one minute, second and fraction of a second
\* in the units that have them, so that every carry meets every other.
Step ==
  [h |-> 1, m |-> IF unit >= 1440 THEN 1 ELSE 0, s |-> IF unit >= 86400 THEN 1 ELSE 0,
   sub |-> IF unit > 86400 THEN 1 ELSE 0]
StepTicks ==
  (Step.h * (unit \div 24)) + (Step.m * (unit \div 1440)) + (Step.s * (unit \div 86400)) + Step.sub

Fractions == IF unit > 86400 THEN unit \div 86400 ELSE 1
Later(t) ==
  LET sub == t.sub + Step.sub
      s   == t.s + Step.s + (sub \div Fractions)
      m   == t.m + Step.m + (s \div 60)
      h   == t.h + Step.h + (m \div 60)
  IN  [h |-> h, m |-> m % 60, s |-> s % 60, sub |-> sub % Fractions]

-------------------------------------------------------------------------------
\* The days from 1970-01-01, a Thursday, to the first day of a year.
DaysTo(y) ==
  LET leapYears(from, to) == Cardinality({z \in from..to : LeapYear(z)})
  IN  (365 * (y - 1970))
        + (IF y >= 1970 THEN leapYears(1970, y - 1) ELSE -leapYears(y, 1969))

InitByDays ==
  \E k \in YearsBack :
    /\ unit = 1 /\ left = DaySteps
    /\ tp = DaysTo(2100 - k) /\ date = Date(2100 - k, 1, 1)
    /\ weekday = (tp + 4) % 7 /\ yday = 1

\* 1969-10-01, a Wednesday, is 92 days before.
InitByClock ==
  /\ unit \in Units /\ left = ClockSteps
  /\ tp = -92 * unit /\ date = Date(1969, 10, 1)
  /\ weekday = 3 /\ yday = 274

Init ==
  /\ InitByDays \/ InitByClock
  /\ time = [h |-> 0, m |-> 0, s |-> 0, sub |-> 0]

NextDay ==
  /\ date' = DayAfter(date)
  /\ weekday' = (weekday + 1) % 7
  /\ yday' = IF NewYear(date) THEN 1 ELSE yday + 1

Next ==
  /\ left > 0
  /\ left' = left - 1
  /\ UNCHANGED unit
  /\ \/ /\ ByDays
        /\ tp' = tp + 1
        /\ NextDay
        /\ UNCHANGED time
     \/ /\ ~ByDays
        /\ tp' = tp + StepTicks
        /\ time' = [Later(time) EXCEPT !.h = @ % 24]
        /\ IF Later(time).h < 24 THEN UNCHANGED <<date, weekday, yday>> ELSE NextDay

Spec == Init /\ [][Next]_vars

-------------------------------------------------------------------------------
\* The fields of the date computed from the time point are fields a date may
\* have (year_month_day::from_days narrows them to a short and two chars).
TypeOK ==
  /\ tp \in Int /\ left \in Nat /\ unit \in Units \cup {1}
  /\ DateOK(DateNow) /\ DateOK(date)
  /\ weekday \in 0..6 /\ yday \in 1..DaysOfYear(date.y)

\* The date and weekday date.h computes from a time point, and operator<<(sys_time)
\* prints, are those of the calendar, before and after the epoch and year 0;
\* to_days takes them back; the day after in the same month is a date unless the
\* month is over; weekday arithmetic on the field agrees with that on days; and
\* dates compare as their days do, in a month and across the ends of months and years.
DateInStep ==
  LET z == Floor(tp, unit)
      d == DayPlus(date.d, 1)
  IN  /\ DateNow = date /\ ToDays(date) = z
      /\ DateOK([date EXCEPT !.d = d]) <=> date.d # DaysIn(date.y, date.m)
      /\ MonthDayOK(date.m, d) <=> d \in 1..DaysIn(2000, date.m)
      /\ WeekdayFromDays(z) = weekday
      /\ WeekdayFromDays(z + 1) = NextWeekday(weekday)
      /\ WeekdayFromDays(z - 1) = PreviousWeekday(weekday)
      /\ \A n \in {-8, 13} :
           /\ WeekdayFromDays(z + n) = WeekdayPlus(weekday, n)
           /\ WeekdayMinus(WeekdayPlus(weekday, n), weekday) = n % 7
      /\ \A n \in {1, 28, 31, 365} :
           Before(date, FromDays(z + n)) /\ ~Before(FromDays(z + n), date)

\* The time of the day it prints is that of the clock: make_time splits what
\* floor<days> leaves of the time point into fields in their ranges, loses
\* nothing, and the 12 hour form goes back to the 24 hour one.
ClockInStep ==
  LET t == TimeNow
      n == tp - (Floor(tp, unit) * unit)
      fraction == time.sub * (Precision(unit) \div Fractions)
  IN  ~ByDays =>
        /\ <<t.h, t.m, t.s, t.sub>> = <<time.h, time.m, time.s, fraction>>
        /\ InConventionalRange(t, unit)
        /\ Make12(t).h \in 1..12 /\ Make24(Make12(t)) = t
        /\ To24hr(Make12(t)) = t.h
        /\ ToDuration(t) = <<(3600 * time.h) + (60 * time.m) + time.s, fraction>>
        /\ ToDuration(MakeTime(-n, unit)) = <<-ToDuration(t)[1], -ToDuration(t)[2]>>

\* Rounding a time point, to hours here, gives the hour before it, the hour after
\* it, and the nearer of the two; halves go to the even hour; before the epoch too.
RoundsToNearest ==
  LET size == unit \div 24
      lo == Floor(tp, size)
      hi == Ceil(tp, size)
      r  == Round(tp, size)
  IN  ~ByDays =>
        /\ lo * size <= tp /\ tp < (lo + 1) * size
        /\ hi * size >= tp /\ tp > (hi - 1) * size
        /\ r \in {lo, hi}
        /\ 2 * Magnitude(tp - (r * size)) <= size
        /\ 2 * Magnitude(tp - (r * size)) = size => r % 2 = 0

\* A day is the n-th of its weekday in its month, for the n date.h computes; the
\* n-th and last weekdays of a month are days of it, and there is a fifth one
\* only where ok() says so (year_month_weekday and year_month_weekday_last).
NthWeekdays ==
  LET z   == Floor(tp, unit)
      nth == NthFromDays(z)
      lst == LastToDays(Last(date.y, date.m, weekday))
  IN  ByDays =>
        /\ nth = Nth(date.y, date.m, weekday, ((date.d - 1) \div 7) + 1)
        /\ NthToDays(nth) = z /\ NthOK(nth)
        /\ NthOK([nth EXCEPT !.index = 5])
             <=> FromDays(NthToDays([nth EXCEPT !.index = 5])).m = date.m
        /\ lst >= z /\ lst - z = 7 * ((DaysIn(date.y, date.m) - date.d) \div 7)

\* Adding months to a date is adding them to its month one at a time, carrying
\* the year, backwards and forwards; the difference of two months undoes it; and
\* the day stays, so that the result is a date only if the month is long enough.
MonthsAddUp ==
  \A n \in -MaxMonths..MaxMonths :
    LET sum == PlusMonths(date, n)
        ym  == YearMonth(date.y, date.m)
    IN  ByDays /\ date.d \in {1, DaysIn(date.y, date.m)} =>
          /\ MonthsBetween(PlusMonths(ym, n), ym) = n
          /\ PlusMonths(PlusMonths(ym, n), -n) = ym
          /\ PlusMonths(ym, n + 1)
               = LET p == PlusMonths(ym, n)
                 IN  YearMonth(IF p.m = 12 THEN p.y + 1 ELSE p.y, NextMonth(p.m))
          /\ PlusMonths(ym, 12 * n) = PlusYears(ym, n)
          /\ MonthPlus(date.m, n) = sum.m /\ PreviousMonth(NextMonth(sum.m)) = sum.m
          /\ MonthMinus(sum.m, date.m) = n % 12
          /\ DateOK(sum) <=> date.d <= DaysIn(sum.y, sum.m)
          /\ MonthBefore(ym, sum) <=> n > 0

\* The week, the year of the week and the day of the year that date.h prints for
\* a day are those of the calendar: a week by ISO 8601 belongs to the year of its
\* Thursday, and the weeks of %U and %W are counted by the Sundays and Mondays.
WeeksInStep ==
  LET thursday == yday + (4 - IsoWeekday(weekday))
      year     == CASE thursday < 1                  -> date.y - 1
                    [] thursday > DaysOfYear(date.y) -> date.y + 1
                    [] OTHER                         -> date.y
      day      == CASE thursday < 1                  -> thursday + DaysOfYear(date.y - 1)
                    [] thursday > DaysOfYear(date.y) -> thursday - DaysOfYear(date.y)
                    [] OTHER                         -> thursday
  IN  ByDays =>
        /\ DayOfYear(date) = yday
        /\ IsoYear(date) = year /\ IsoWeek(date) = ((day - 1) \div 7) + 1
        /\ WeekU(date) = ((yday + 6) - weekday) \div 7
        /\ WeekW(date) = ((yday + 6) - ((weekday + 6) % 7)) \div 7

\* What to_stream prints of a date, from_stream takes back to the date, by any of
\* the ways to name it: its fields, the century and the year in it, the day of the
\* year, the week by ISO 8601, the week from Sunday or from Monday.  Not by week 0,
\* by %F for a year before 0, or by two digits of a year outside 1969..2068.
DateFormats ==
  {<<"Y", "m", "d">>, <<"C", "y", "m", "d">>, <<"Y", "j">>, <<"G", "V", "u">>}
    \cup (IF date.y >= 0 THEN {<<"F">>} ELSE {})
    \cup (IF date.y \in 1969..2068 THEN {<<"D">>} ELSE {})
    \cup (IF IsoYear(date) \in 1969..2068 THEN {<<"g", "V", "w">>} ELSE {})
    \cup (IF WeekU(date) > 0 THEN {<<"Y", "U", "w">>} ELSE {})
    \cup (IF WeekW(date) > 0 THEN {<<"Y", "W", "u">>} ELSE {})

\* Time points in the units whose ticks have exact decimal fractions.
TimeFormats ==
  IF Precision(unit) % PerSecond(unit) # 0 THEN {}
  ELSE {<<"F", "T">>, <<"Y", "m", "d", "H", "M", "S">>, <<"F", "R", "S", "z">>}

\* So it does with a time of the day, printed with an offset from UTC of whole hours
\* or to the east, in minutes.
ParsesBack ==
  \A format \in IF ByDays THEN DateFormats ELSE TimeFormats :
    \A z \in IF "z" \in Seqs!ToSet(format) THEN {-660, -60, 345, 720} ELSE {0} :
      Read(format, Printed(format, FieldsOf(tp, unit, z)), unit)
        = [fail |-> FALSE, tp |-> tp]

===============================================================================
