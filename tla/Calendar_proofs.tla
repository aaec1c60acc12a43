---------------------------- MODULE Calendar_proofs ----------------------------
(***************************************************************************)
(* The calendar of date.h on all its years, of which a walk sees four      *)
(* centuries: its conversions between days and dates go there and back;    *)
(* what is kept by hand on a walk stays in step with them forever; and so  *)
(* do times of the day, rounded hours, sums of months, weekdays of a month *)
(* and weeks, by the arithmetic each of them is computed with.             *)
(***************************************************************************)
EXTENDS CalendarWalk, FiniteSetTheorems, TLAPS

\* Between two numbers, as two inequalities: the provers count out a set a..b.
In(n, a, b) == n \in Int /\ a <= n /\ n <= b

\* The days of the years from year::min() to year::max().
InYears(z) == In(z, -12687794, 11248737)

(***************************************************************************)
(* The quotients of C++ are taken so that they round down.                 *)
(***************************************************************************)
LEMMA EraOfDayRoundsDown == \A z \in Int : EraOfDay(z) = z \div 146097
BY SMT DEF EraOfDay, Quot, Magnitude

\* A year's era, before the year 0 too.
LEMMA EraOfYearRoundsDown == ASSUME NEW y \in Int PROVE EraOfYear(y) = y \div 400
BY SMT DEF EraOfYear, Quot, Magnitude

(***************************************************************************)
(* The leap years in terms of the era and the year of the era.             *)
(***************************************************************************)
LEMMA LeapInEra ==
  ASSUME NEW y \in Int
  PROVE  IsLeap(y) <=> (y % 4 = 0 /\ (y % 100 # 0 \/ y % 400 = 0))
<1>1. Rem(y, 4) = 0 <=> y % 4 = 0
  BY SMT DEF Rem, Quot, Magnitude
<1>2. Rem(y, 100) = 0 <=> y % 100 = 0
  BY SMT DEF Rem, Quot, Magnitude
<1>3. Rem(y, 400) = 0 <=> y % 400 = 0
  BY SMT DEF Rem, Quot, Magnitude
<1> QED BY <1>1, <1>2, <1>3 DEF IsLeap

\* The year that begins in March of the year yoe of its era has a leap day.
LeapDay(yoe) == (yoe + 1) % 4 = 0 /\ ((yoe + 1) % 100 # 0 \/ yoe = 399)

(***************************************************************************)
(* The year of the era of a day, and the day of that year.                 *)
(***************************************************************************)
LEMMA YearOfDay ==
  ASSUME NEW doe \in Int, In(doe, 0, 146096)
  PROVE  /\ In(YearOfEra(doe), 0, 399)
         /\ In(doe - DaysToYear(YearOfEra(doe)), 0, 365)
         /\ doe - DaysToYear(YearOfEra(doe)) = 365 => LeapDay(YearOfEra(doe))
<1>1. In(YearOfEra(doe), 0, 399) /\ In(doe - DaysToYear(YearOfEra(doe)), 0, 365)
  BY SMTT(60) DEF YearOfEra, DaysToYear, In
<1>2. doe - DaysToYear(YearOfEra(doe)) = 365 => LeapDay(YearOfEra(doe))
  BY SMTT(60) DEF YearOfEra, DaysToYear, LeapDay, In
<1> QED BY <1>1, <1>2

\* And back: a day of a year of an era is in that era and that year.
LEMMA DayOfEra ==
  ASSUME NEW yoe \in Int, In(yoe, 0, 399), NEW doy \in Int, In(doy, 0, 365),
         doy = 365 => LeapDay(yoe)
  PROVE  /\ In(DaysToYear(yoe) + doy, 0, 146096)
         /\ YearOfEra(DaysToYear(yoe) + doy) = yoe
BY SMTT(60) DEF YearOfEra, DaysToYear, LeapDay, In

(***************************************************************************)
(* The month and the day of the month of a day of a year from March.       *)
(***************************************************************************)
\* The day of the month of a day of a year from March.
DayOf(doy) == (doy - DaysToMonth(MarchMonth(doy))) + 1

\* Months from March: no month is given a day that it does not have.
LEMMA MonthOfDay ==
  ASSUME NEW doy \in Int, In(doy, 0, 365)
  PROVE  /\ In(MarchMonth(doy), 0, 11)
         /\ In(DayOf(doy), 1, 31)
         /\ In(MonthOfMarch(MarchMonth(doy)), 1, 12)
         /\ MonthOfMarch(MarchMonth(doy)) \in {4, 6, 9, 11} => DayOf(doy) <= 30
         /\ MonthOfMarch(MarchMonth(doy)) = 2 => DayOf(doy) <= 29 /\ (DayOf(doy) = 29 => doy = 365)
         /\ MonthOfMarch(MarchMonth(doy)) <= 2 <=> MarchMonth(doy) >= 10
BY SMTT(60) DEF MarchMonth, DaysToMonth, DayOf, MonthOfMarch, In

\* And back: a day of a month is a day of its year and in that month.
LEMMA DayOfMonth ==
  ASSUME NEW mp \in Int, In(mp, 0, 11), NEW d \in Int, In(d, 1, 31),
         MonthOfMarch(mp) \in {4, 6, 9, 11} => d <= 30,
         MonthOfMarch(mp) = 2 => d <= 29
  PROVE  LET doy == (DaysToMonth(mp) + d) - 1
         IN  /\ In(doy, 0, 365)
             /\ doy = 365 => MonthOfMarch(mp) = 2 /\ d = 29
             /\ MarchMonth(doy) = mp /\ DayOf(doy) = d
BY SMTT(60) DEF MarchMonth, DaysToMonth, DayOf, MonthOfMarch, In

-------------------------------------------------------------------------------
\* A day of an era and of its year, as FromDays sees a count of days.
EraOf(n) == EraOfDay(n + 719468)
DoeOf(n) == (n + 719468) - (EraOf(n) * 146097)
YoeOf(n) == YearOfEra(DoeOf(n))
DoyOf(n) == DoeOf(n) - DaysToYear(YoeOf(n))
MarchYear(n) == YoeOf(n) + (EraOf(n) * 400)
MonthNo(n) == MonthOfMarch(MarchMonth(DoyOf(n)))
YearNo(n) == IF MonthNo(n) <= 2 THEN MarchYear(n) + 1 ELSE MarchYear(n)

\* from_days stays in an era, a year, a month; the year fits its short.
LEMMA PartsOfDay ==
  ASSUME NEW n \in Int, InYears(n)
  PROVE  /\ EraOf(n) \in Int /\ In(DoeOf(n), 0, 146096)
         /\ In(YoeOf(n), 0, 399) /\ In(DoyOf(n), 0, 365)
         /\ DoyOf(n) = 365 => LeapDay(YoeOf(n))
         /\ In(MarchMonth(DoyOf(n)), 0, 11) /\ In(MonthNo(n), 1, 12)
         /\ In(YearNo(n), -32768, 32767)
<1>1. EraOf(n) \in Int /\ In(DoeOf(n), 0, 146096) /\ In(EraOf(n), -82, 81)
  <2>1. EraOf(n) = (n + 719468) \div 146097
    BY EraOfDayRoundsDown, SMT DEF EraOf
  <2> QED BY <2>1, SMT DEF DoeOf, In, InYears
<1>2. /\ In(YoeOf(n), 0, 399) /\ In(DoyOf(n), 0, 365)
      /\ DoyOf(n) = 365 => LeapDay(YoeOf(n))
  BY <1>1, YearOfDay DEF YoeOf, DoyOf, In
<1>3. In(MarchMonth(DoyOf(n)), 0, 11) /\ In(MonthNo(n), 1, 12)
  BY <1>2, MonthOfDay DEF MonthNo, In
<1>4. MarchYear(n) = YoeOf(n) + (EraOf(n) * 400) /\ MarchYear(n) \in Int
  BY <1>1, <1>2, SMT DEF MarchYear, In
<1>5. MarchYear(n) >= -32769 /\ (MarchYear(n) = -32769 => MonthNo(n) <= 2)
  <2>1. EraOf(n) = -82 => DoeOf(n) >= 11628
    BY SMT DEF DoeOf, InYears, In
  <2>2. DoeOf(n) >= 11628 => YoeOf(n) >= 31 /\ (YoeOf(n) = 31 => DoyOf(n) >= 306)
    BY <1>1, SMT DEF YoeOf, YearOfEra, In, DoyOf, DaysToYear
  <2>3. DoyOf(n) >= 306 => MonthNo(n) <= 2
    BY <1>2, SMT DEF MonthNo, MonthOfMarch, MarchMonth, In
  <2> QED BY <1>1, <1>2, <1>4, <2>1, <2>2, <2>3, SMT DEF In
<1>6. MarchYear(n) <= 32767 /\ (MarchYear(n) = 32767 => MonthNo(n) > 2)
  <2>1. EraOf(n) = 81 => DoeOf(n) <= 134348
    BY SMT DEF DoeOf, InYears, In
  <2>2. DoeOf(n) <= 134348 => YoeOf(n) <= 367 /\ (YoeOf(n) = 367 => DoyOf(n) <= 305)
    BY <1>1, SMT DEF YoeOf, YearOfEra, In, DoyOf, DaysToYear
  <2>3. DoyOf(n) <= 305 => MonthNo(n) > 2
    BY <1>2, SMT DEF MonthNo, MonthOfMarch, MarchMonth, In
  <2> QED BY <1>1, <1>2, <1>4, <2>1, <2>2, <2>3, SMT DEF In
<1> QED BY <1>1, <1>2, <1>3, <1>4, <1>5, <1>6, SMT DEF YearNo, In

\* The fields of a date hold the numbers of dates without wrapping around.
LEMMA FieldsHold ==
  /\ \A y \in Int : In(y, -32768, 32767) => Year(y) = y
  /\ \A m \in Int : In(m, 1, 12) => Month(m) = m
  /\ \A d \in Int : In(d, 1, 31) => Day(d) = d
BY SMT DEF In, Year, Month, Day

(***************************************************************************)
(* The date of a day, in terms of its parts.                               *)
(***************************************************************************)
LEMMA DateOfDay ==
  ASSUME NEW n \in Int, InYears(n)
  PROVE  FromDays(n) = [y |-> YearNo(n), m |-> MonthNo(n), d |-> DayOf(DoyOf(n))]
<1>1. /\ In(YearNo(n), -32768, 32767) /\ In(MonthNo(n), 1, 12) /\ In(DayOf(DoyOf(n)), 1, 31)
  BY PartsOfDay, MonthOfDay DEF In
<1>2. FromDays(n) = Date(Year(YearNo(n)), Month(MonthNo(n)), Day(DayOf(DoyOf(n))))
  BY DEF FromDays, YearNo, MonthNo, MarchYear, DoyOf, YoeOf, DoeOf, EraOf, DayOf
<1>3. Year(YearNo(n)) = YearNo(n) /\ Month(MonthNo(n)) = MonthNo(n)
      /\ Day(DayOf(DoyOf(n))) = DayOf(DoyOf(n))
  BY <1>1, FieldsHold DEF In
<1> QED BY <1>2, <1>3 DEF Date

(***************************************************************************)
(* A count of days back from a date, in terms of the parts of a day.       *)
(***************************************************************************)
LEMMA DayOfDate ==
  ASSUME NEW era \in Int, NEW yoe \in Int, In(yoe, 0, 399), NEW mp \in Int, In(mp, 0, 11),
         NEW d \in Int, In(d, 1, 31), NEW y \in Int,
         y = IF MonthOfMarch(mp) <= 2 THEN (yoe + (era * 400)) + 1 ELSE yoe + (era * 400)
  PROVE  ToDays([y |-> y, m |-> MonthOfMarch(mp), d |-> d])
           = ((era * 146097) + (DaysToYear(yoe) + ((DaysToMonth(mp) + d) - 1))) - 719468
<1> DEFINE m == MonthOfMarch(mp)
           y1 == IF m <= 2 THEN y - 1 ELSE y
<1>1. y1 = yoe + (era * 400) /\ y1 \in Int
  BY SMT DEF MonthOfMarch, In
<1>2. (IF m > 2 THEN m - 3 ELSE m + 9) = mp
  BY SMT DEF MonthOfMarch, In
<1>3. y1 - (era * 400) = yoe
  BY <1>1, SMT DEF In
<1>4. ToDays([y |-> y, m |-> m, d |-> d])
        = ((EraOfYear(y1) * 146097)
            + (DaysToYear(y1 - (EraOfYear(y1) * 400))
               + ((DaysToMonth(IF m > 2 THEN m - 3 ELSE m + 9) + d) - 1))) - 719468
  BY DEF ToDays
<1> HIDE DEF y1, m
<1>5. EraOfYear(y1) = era
  <2>1. y1 \div 400 = era
    BY <1>1, SMT DEF In
  <2>2. EraOfYear(y1) = y1 \div 400
    BY <1>1, EraOfYearRoundsDown, SMT
  <2> QED BY <2>1, <2>2, SMT
<1>6. ToDays([y |-> y, m |-> m, d |-> d])
        = ((era * 146097) + (DaysToYear(yoe) + ((DaysToMonth(mp) + d) - 1))) - 719468
  BY <1>2, <1>3, <1>4, <1>5, SMT
<1> QED BY <1>6, SMT DEF m

(***************************************************************************)
(* A year from March has a leap day if the next year is a leap year.       *)
(***************************************************************************)
LEMMA LeapDayIsLeap ==
  ASSUME NEW era \in Int, NEW yoe \in Int, In(yoe, 0, 399)
  PROVE  IsLeap((yoe + (era * 400)) + 1) <=> LeapDay(yoe)
<1> DEFINE y == (yoe + (era * 400)) + 1
<1>1. y \in Int
  BY SMT
<1>2. y % 4 = (yoe + 1) % 4 /\ y % 100 = (yoe + 1) % 100 /\ (y % 400 = 0 <=> yoe = 399)
  BY SMT DEF In
<1>3. (yoe = 399 => (yoe + 1) % 4 = 0)
  BY SMT
<1> HIDE DEF y
<1>4. IsLeap(y) <=> (y % 4 = 0 /\ (y % 100 # 0 \/ y % 400 = 0))
  BY <1>1, LeapInEra
<1>5. IsLeap(y) <=> LeapDay(yoe)
  BY <1>2, <1>3, <1>4, SMT DEF LeapDay
<1> QED BY <1>5, SMT DEF y

(***************************************************************************)
(* year_month_day::from_days gives a date of the calendar, and to_days     *)
(* takes it back, for every day of the years a year can hold.              *)
(***************************************************************************)
THEOREM DaysThereAndBack ==
  ASSUME NEW n \in Int, InYears(n)
  PROVE  /\ DateOK(FromDays(n))
         /\ ToDays(FromDays(n)) = n
<1> DEFINE mp == MarchMonth(DoyOf(n))
           d  == DayOf(DoyOf(n))
<1>1. /\ EraOf(n) \in Int /\ In(YoeOf(n), 0, 399) /\ In(DoyOf(n), 0, 365)
      /\ DoyOf(n) = 365 => LeapDay(YoeOf(n))
      /\ In(mp, 0, 11) /\ In(MonthNo(n), 1, 12) /\ In(YearNo(n), -32768, 32767)
  BY PartsOfDay, SMT
<1>2. /\ In(d, 1, 31)
      /\ MonthNo(n) \in {4, 6, 9, 11} => d <= 30
      /\ MonthNo(n) = 2 => d <= 29 /\ (d = 29 => DoyOf(n) = 365)
  BY <1>1, MonthOfDay, SMT DEF MonthNo, In
<1>3. FromDays(n) = [y |-> YearNo(n), m |-> MonthNo(n), d |-> d]
  BY DateOfDay, SMT
<1>4. DateOK([y |-> YearNo(n), m |-> MonthNo(n), d |-> d])
  <2>1. MonthNo(n) = 2 /\ d = 29 => IsLeap(YearNo(n))
    <3>1. MonthNo(n) = 2 => YearNo(n) = (YoeOf(n) + (EraOf(n) * 400)) + 1
      BY <1>1, SMT DEF YearNo, MarchYear
    <3>2. EraOf(n) \in Int /\ YoeOf(n) \in Int /\ In(YoeOf(n), 0, 399)
      BY <1>1 DEF In
    <3>3. IsLeap((YoeOf(n) + (EraOf(n) * 400)) + 1) <=> LeapDay(YoeOf(n))
      <4>1. \A era \in Int, yoe \in Int : In(yoe, 0, 399)
              => (IsLeap((yoe + (era * 400)) + 1) <=> LeapDay(yoe))
        BY ONLY LeapDayIsLeap, Zenon
      <4> QED BY ONLY <3>2, <4>1, Zenon
    <3>4. MonthNo(n) = 2 /\ d = 29 => LeapDay(YoeOf(n))
      BY <1>1, <1>2
    <3> HIDE DEF d, mp
    <3> QED BY <3>1, <3>3, <3>4
  <2>2. d \in 1..LastDay(YearNo(n), MonthNo(n)) /\ MonthNo(n) \in 1..12
    <3> HIDE DEF d
    <3> QED BY <1>1, <1>2, <2>1, SMT DEF LastDay, In
  <2> QED BY <2>2, SMT DEF DateOK, MonthOK
<1>5. ToDays([y |-> YearNo(n), m |-> MonthNo(n), d |-> d]) = n
  <2>1. YearNo(n) \in Int
        /\ YearNo(n) = IF MonthOfMarch(mp) <= 2 THEN (YoeOf(n) + (EraOf(n) * 400)) + 1
                       ELSE YoeOf(n) + (EraOf(n) * 400)
    BY <1>1, SMT DEF YearNo, MonthNo, MarchYear, In
  <2>2. YoeOf(n) \in Int /\ mp \in Int /\ d \in Int
    BY <1>1, <1>2, SMT DEF In
  <2>3. ToDays([y |-> YearNo(n), m |-> MonthOfMarch(mp), d |-> d])
          = ((EraOf(n) * 146097) + (DaysToYear(YoeOf(n)) + ((DaysToMonth(mp) + d) - 1))) - 719468
    <3> HIDE DEF mp, d
    <3> QED BY <1>1, <1>2, <2>1, <2>2, DayOfDate, SMT
  <2>4. DaysToYear(YoeOf(n)) \in Int /\ DaysToMonth(mp) \in Int
    BY <1>1, SMT DEF DaysToYear, DaysToMonth, In
  <2>5. (DaysToMonth(mp) + d) - 1 = DoyOf(n)
    BY <1>1, <2>4, SMT DEF DayOf, In
  <2>6. DoeOf(n) = DaysToYear(YoeOf(n)) + DoyOf(n) /\ DoeOf(n) = (n + 719468) - (EraOf(n) * 146097)
    <3>1. DoeOf(n) \in Int
      BY <1>1, SMT DEF DoeOf
    <3> QED BY <1>1, <2>4, <3>1, SMT DEF DoyOf, DoeOf
  <2> HIDE DEF mp, d
  <2>7. ((EraOf(n) * 146097) + (DaysToYear(YoeOf(n)) + DoyOf(n))) - 719468 = n
    BY <1>1, <2>4, <2>6, SMT DEF In
  <2> QED BY <2>3, <2>5, <2>7, SMT DEF MonthNo, mp
<1> HIDE DEF d
<1> QED BY <1>3, <1>4, <1>5, SMT

(***************************************************************************)
(* And every date of the calendar comes back from its count of days: no    *)
(* two dates share a day.                                                  *)
(***************************************************************************)
THEOREM DatesThereAndBack ==
  ASSUME NEW y \in Int, In(y, -32768, 32767), NEW m \in Int, In(m, 1, 12),
         NEW d \in Int, In(d, 1, 31),
         m \in {4, 6, 9, 11} => d <= 30, m = 2 => d <= 29 /\ (d = 29 => IsLeap(y))
  PROVE  FromDays(ToDays(Date(y, m, d))) = Date(y, m, d)
<1> DEFINE y1  == IF m <= 2 THEN y - 1 ELSE y
           era == y1 \div 400
           yoe == y1 - (era * 400)
           mp  == IF m > 2 THEN m - 3 ELSE m + 9
           doy == (DaysToMonth(mp) + d) - 1
           doe == DaysToYear(yoe) + doy
           n   == ((era * 146097) + doe) - 719468
<1>1. y1 \in Int /\ era \in Int /\ yoe \in Int /\ In(yoe, 0, 399) /\ mp \in Int /\ In(mp, 0, 11)
  BY SMT DEF In
<1>2. MonthOfMarch(mp) = m /\ y1 = yoe + (era * 400)
      /\ y = IF MonthOfMarch(mp) <= 2 THEN (yoe + (era * 400)) + 1 ELSE yoe + (era * 400)
  BY SMT DEF MonthOfMarch, In
<1> HIDE DEF y1, era, yoe, mp
<1>3. ToDays(Date(y, m, d)) = n
  BY <1>1, <1>2, DayOfDate, SMT DEF Date
<1>4. /\ doy \in Int /\ In(doy, 0, 365) /\ (doy = 365 => m = 2 /\ d = 29)
      /\ MarchMonth(doy) = mp /\ DayOf(doy) = d
  <2>1. doy \in Int
    BY <1>1, SMT DEF DaysToMonth, In
  <2> QED BY <1>1, <1>2, <2>1, DayOfMonth, SMT
<1>5. doy = 365 => LeapDay(yoe)
  <2>1. \A e \in Int, w \in Int : In(w, 0, 399) => (IsLeap((w + (e * 400)) + 1) <=> LeapDay(w))
    BY ONLY LeapDayIsLeap, Zenon
  <2>2. IsLeap((yoe + (era * 400)) + 1) <=> LeapDay(yoe)
    BY ONLY <1>1, <2>1, Zenon
  <2>3. m = 2 => y = (yoe + (era * 400)) + 1
    BY <1>2, SMT
  <2> QED BY <1>4, <2>2, <2>3
<1> HIDE DEF doy
<1>6. doe \in Int /\ In(doe, 0, 146096) /\ YearOfEra(doe) = yoe /\ doe - DaysToYear(yoe) = doy
  <2>1. In(doe, 0, 146096) /\ YearOfEra(doe) = yoe
    BY <1>1, <1>4, <1>5, DayOfEra
  <2>2. DaysToYear(yoe) \in Int
    BY <1>1, SMT DEF DaysToYear
  <2> QED BY <1>4, <2>1, <2>2, SMT DEF In
<1> HIDE DEF doe
<1>7. n \in Int /\ EraOf(n) = era /\ DoeOf(n) = doe
  <2>1. n \in Int /\ n + 719468 = (era * 146097) + doe
    BY <1>1, <1>6, SMT
  <2>2. (n + 719468) \div 146097 = era
    BY <1>1, <1>6, <2>1, SMT DEF In
  <2>3. EraOf(n) = era
    BY <2>1, <2>2, EraOfDayRoundsDown, SMT DEF EraOf
  <2> QED BY <1>1, <1>6, <2>1, <2>3, SMT DEF DoeOf
<1> HIDE DEF n
<1>8. YoeOf(n) = yoe /\ DoyOf(n) = doy
  BY <1>6, <1>7 DEF YoeOf, DoyOf
<1>9. MonthNo(n) = m /\ DayOf(DoyOf(n)) = d /\ MarchYear(n) = yoe + (era * 400)
  BY <1>2, <1>4, <1>7, <1>8 DEF MonthNo, MarchYear
<1>10. YearNo(n) = y
  BY <1>1, <1>2, <1>9, SMT DEF YearNo
<1>11. FromDays(n) = Date(Year(YearNo(n)), Month(MonthNo(n)), Day(DayOf(DoyOf(n))))
  BY DEF FromDays, YearNo, MonthNo, MarchYear, DoyOf, YoeOf, DoeOf, EraOf, DayOf
<1>12. Year(y) = y /\ Month(m) = m /\ Day(d) = d
  BY FieldsHold, SMT
<1> QED BY <1>3, <1>9, <1>10, <1>11, <1>12

-------------------------------------------------------------------------------
(***************************************************************************)
(* A count of days has the weekday that follows its predecessor's, from a  *)
(* Thursday at the epoch, before it and after it.                          *)
(***************************************************************************)
THEOREM WeekdaysFollow ==
  ASSUME NEW z \in Int
  PROVE  /\ WeekdayOK(WeekdayFromDays(z))
         /\ WeekdayFromDays(z) = (z + 4) % 7
         /\ WeekdayFromDays(z + 1) = NextWeekday(WeekdayFromDays(z))
         /\ WeekdayFromDays(z - 1) = PreviousWeekday(WeekdayFromDays(z))
<1>1. \A i \in Int : WeekdayFromDays(i) = (i + 4) % 7
  BY SMT DEF WeekdayFromDays, Rem, Quot, Magnitude
<1>2. WeekdayFromDays(z) \in Int /\ In(WeekdayFromDays(z), 0, 6)
  BY <1>1, SMT DEF In
<1>3. WeekdayFromDays(z + 1) = NextWeekday(WeekdayFromDays(z))
  BY <1>1, SMT DEF NextWeekday
<1>4. WeekdayFromDays(z - 1) = PreviousWeekday(WeekdayFromDays(z))
  BY <1>1, SMT DEF PreviousWeekday
<1> QED BY <1>1, <1>2, <1>3, <1>4, SMT DEF WeekdayOK, In

\* The quotient of C++ by a unit, rounded towards zero.
LEMMA QuotBounds ==
  ASSUME NEW n \in Int, NEW size \in Int, size > 0
  PROVE  /\ Quot(n, size) \in Int
         /\ n >= 0 => Quot(n, size) * size <= n /\ n < (Quot(n, size) * size) + size
         /\ n < 0 => n <= Quot(n, size) * size /\ (Quot(n, size) * size) - size < n
<1>1. \A a \in Int : a >= 0 => /\ a \div size \in Int
                               /\ (a \div size) * size <= a /\ a < ((a \div size) * size) + size
  BY SMT
<1> QED BY <1>1, SMT DEF Quot, Magnitude

(***************************************************************************)
(* floor, ceil and round give whole units next to the duration, of any     *)
(* unit and on both sides of zero; round gives the nearer one, and the     *)
(* even one of two as near.                                                *)
(***************************************************************************)
THEOREM RoundsNextTo ==
  ASSUME NEW n \in Int, NEW size \in Int, size > 0
  PROVE  LET lo == Floor(n, size)
             hi == Ceil(n, size)
             r  == Round(n, size)
         IN  /\ lo * size <= n /\ n < (lo + 1) * size
             /\ hi * size >= n /\ n > (hi - 1) * size
             /\ r \in {lo, hi}
             /\ 2 * Magnitude(n - (r * size)) <= size
             /\ 2 * Magnitude(n - (r * size)) = size => r % 2 = 0
<1> DEFINE t == Quot(n, size)
           f == Floor(n, size)
           c == Ceil(n, size)
           r == Round(n, size)
<1>1. /\ t \in Int
      /\ n >= 0 => t * size <= n /\ n < (t * size) + size
      /\ n < 0 => n <= t * size /\ (t * size) - size < n
  BY QuotBounds
<1>2. /\ f = IF t * size > n THEN t - 1 ELSE t
      /\ c = IF t * size < n THEN t + 1 ELSE t
  BY DEF Floor, Ceil, Trunc
<1>3. /\ r = f \/ r = f + 1
      /\ r = f => n - (f * size) <= ((f + 1) * size) - n
      /\ r = f + 1 /\ r # f => n - (f * size) >= ((f + 1) * size) - n
      /\ n - (f * size) = ((f + 1) * size) - n /\ r = f => f - (2 * Quot(f, 2)) = 0
      /\ n - (f * size) = ((f + 1) * size) - n /\ r # f => f - (2 * Quot(f, 2)) # 0
  <2>1. f \in Int /\ f * size \in Int /\ (f + 1) * size \in Int
    <3> HIDE DEF t, f
    <3> QED BY <1>1, <1>2, SMT
  <2>2. r = IF \/ n - (f * size) < ((f + 1) * size) - n
               \/ n - (f * size) = ((f + 1) * size) - n /\ f - (2 * Quot(f, 2)) = 0
            THEN f ELSE f + 1
    BY DEF Round
  <2> HIDE DEF f, r
  <2> QED BY <2>1, <2>2, SMT
<1> HIDE DEF t, f, c, r
<1>4. \A i \in Int : i * size \in Int /\ (i + 1) * size = (i * size) + size
                     /\ (i - 1) * size = (i * size) - size
  BY SMT
<1>5. f \in Int /\ c \in Int /\ r \in Int
  BY <1>1, <1>2, <1>3, SMT
<1>6. f * size <= n /\ n < (f + 1) * size
  BY <1>1, <1>2, <1>4, SMT
<1>7. c * size >= n /\ n > (c - 1) * size
  BY <1>1, <1>2, <1>4, SMT
<1>8. c = f + 1 \/ (c = f /\ f * size = n)
  BY <1>1, <1>2, <1>4, SMT
<1>9. (f + 1) * size = (f * size) + size /\ f * size \in Int
  BY <1>4, <1>5
<1>10. r \in {f, c}
  BY <1>3, <1>8, <1>9, <1>5, SMT
<1>11. 2 * Magnitude(n - (r * size)) <= size
  <2>1. CASE r = f
    BY <1>3, <1>6, <1>9, <2>1, SMT DEF Magnitude
  <2>2. CASE r # f
    BY <1>3, <1>6, <1>9, <2>2, SMT DEF Magnitude
  <2> QED BY <2>1, <2>2
<1>12. 2 * Magnitude(n - (r * size)) = size => r % 2 = 0
  <2> SUFFICES ASSUME 2 * Magnitude(n - (r * size)) = size PROVE r % 2 = 0
    OBVIOUS
  <2>1. n - (f * size) = ((f + 1) * size) - n
    <3>1. CASE r = f
      BY <1>6, <1>9, <3>1, SMT DEF Magnitude
    <3>2. CASE r # f
      <4>1. r = f + 1
        BY <1>3, <3>2
      <4> QED BY <1>6, <1>9, <4>1, SMT DEF Magnitude
    <3> QED BY <3>1, <3>2
  <2>2. (f - (2 * Quot(f, 2)) = 0) <=> f % 2 = 0
    BY <1>5, SMT DEF Quot, Magnitude
  <2>3. CASE r = f
    BY <1>3, <2>1, <2>2, <2>3
  <2>4. CASE r # f
    <3>1. r = f + 1 /\ f % 2 # 0
      BY <1>3, <2>1, <2>2, <2>4
    <3> QED BY <1>5, <3>1, SMT
  <2> QED BY <2>3, <2>4
<1> QED BY <1>6, <1>7, <1>10, <1>11, <1>12 DEF f, c, r

-------------------------------------------------------------------------------
\* The days before March 1st of a year, from March 1st of the year 0.
DaysBefore(y) == (((365 * y) + (y \div 4)) - (y \div 100)) + (y \div 400)

\* The year from March and the month of it that a month of a year is.
MarchYearOf(y, m)  == IF m <= 2 THEN y - 1 ELSE y
MarchMonthOf(m) == IF m > 2 THEN m - 3 ELSE m + 9

\* The number of a date in terms of its year and its month from March.
LEMMA DayNumber ==
  ASSUME NEW y \in Int, NEW m \in Int, NEW d \in Int
  PROVE  ToDays(Date(y, m, d))
           = ((DaysBefore(MarchYearOf(y, m)) + DaysToMonth(MarchMonthOf(m))) + d) - 719469
<1> DEFINE y1 == MarchYearOf(y, m)
           e  == y1 \div 400
<1>1. y1 \in Int /\ e \in Int
  BY SMT DEF MarchYearOf
<1>2. EraOfYear(y1) = e
  BY <1>1, EraOfYearRoundsDown
<1>3. ToDays(Date(y, m, d))
        = ((e * 146097) + (DaysToYear(y1 - (e * 400)) + ((DaysToMonth(MarchMonthOf(m)) + d) - 1))) - 719468
  BY <1>2 DEF ToDays, Date, MarchYearOf, MarchMonthOf
<1>4. (e * 146097) + DaysToYear(y1 - (e * 400)) = DaysBefore(y1)
  <2> HIDE DEF y1
  <2> QED BY <1>1, SMT DEF DaysToYear, DaysBefore
<1>5. DaysBefore(y1) \in Int /\ DaysToMonth(MarchMonthOf(m)) \in Int /\ DaysToYear(y1 - (e * 400)) \in Int
  <2> HIDE DEF y1
  <2> QED BY <1>1, SMT DEF DaysBefore, DaysToMonth, MarchMonthOf, DaysToYear
<1> HIDE DEF y1, e
<1>6. ToDays(Date(y, m, d))
        = ((DaysBefore(y1) + DaysToMonth(MarchMonthOf(m))) + d) - 719469
  BY <1>1, <1>3, <1>4, <1>5, SMT
<1> QED BY <1>6 DEF y1

\* The library's leap years are those of the calendar, and so are its months.
LEMMA SameCalendar ==
  ASSUME NEW y \in Int
  PROVE  /\ IsLeap(y) <=> LeapYear(y)
         /\ \A m \in Int : LastDay(y, m) = DaysIn(y, m)
<1>1. IsLeap(y) <=> LeapYear(y)
  BY LeapInEra, SMT DEF LeapYear
<1> QED BY <1>1 DEF LastDay, DaysIn

\* A year has 365 days or, in a leap year, 366.
LEMMA LongerYears ==
  ASSUME NEW y \in Int
  PROVE  /\ DaysBefore(y) \in Int
         /\ DaysBefore(y) = DaysBefore(y - 1) + (IF LeapYear(y) THEN 366 ELSE 365)
         /\ \A z \in Int : y < z => DaysBefore(y + 1) <= DaysBefore(z)
<1>1. DaysBefore(y) \in Int
  BY SMT DEF DaysBefore
<1>2. y \div 4 = ((y - 1) \div 4) + (IF y % 4 = 0 THEN 1 ELSE 0)
  BY SMT
<1>3. y \div 100 = ((y - 1) \div 100) + (IF y % 100 = 0 THEN 1 ELSE 0)
  BY SMT
<1>4. y \div 400 = ((y - 1) \div 400) + (IF y % 400 = 0 THEN 1 ELSE 0)
  BY SMT
<1>5. (y % 100 = 0 => y % 4 = 0) /\ (y % 400 = 0 => y % 100 = 0)
  BY SMT
<1>6. DaysBefore(y) = DaysBefore(y - 1) + (IF LeapYear(y) THEN 366 ELSE 365)
  BY <1>2, <1>3, <1>4, <1>5, SMT DEF DaysBefore, LeapYear
<1>7. \A z \in Int : y < z => DaysBefore(y + 1) <= DaysBefore(z)
  BY SMT DEF DaysBefore
<1> QED BY <1>1, <1>6, <1>7

\* A date of the calendar, of any year.
DateIn(ymd) ==
  /\ ymd \in [y : Int, m : Int, d : Int]
  /\ DateOK(ymd)

\* The day of the year from March of a date.
MarchDay(ymd) == (DaysToMonth(MarchMonthOf(ymd.m)) + ymd.d) - 1

\* A date in its year from March, and the number of its day there.
LEMMA PartsOfDate ==
  ASSUME NEW ymd, DateIn(ymd)
  PROVE  LET y == MarchYearOf(ymd.y, ymd.m)
         IN  /\ y \in Int
             /\ ymd = Date(ymd.y, ymd.m, ymd.d)
             /\ ToDays(ymd) = (DaysBefore(y) + MarchDay(ymd)) - 719468
             /\ MarchDay(ymd) \in Int
             /\ 0 <= MarchDay(ymd) /\ MarchDay(ymd) <= (IF LeapYear(y + 1) THEN 365 ELSE 364)
<1> DEFINE y == MarchYearOf(ymd.y, ymd.m)
<1>1. ymd.y \in Int /\ ymd.m \in Int /\ ymd.d \in Int /\ ymd = Date(ymd.y, ymd.m, ymd.d)
  BY DEF DateIn, Date
<1>2. ymd.m \in 1..12 /\ ymd.d \in 1..DaysIn(ymd.y, ymd.m)
  BY <1>1, SameCalendar DEF DateIn, DateOK, MonthOK
<1>3. y \in Int /\ MarchDay(ymd) \in Int /\ DaysBefore(y) \in Int
  BY <1>1, SMT DEF MarchYearOf, MarchDay, MarchMonthOf, DaysToMonth, DaysBefore
<1>4. DaysToMonth(MarchMonthOf(ymd.m)) \in Int
  BY <1>1, SMT DEF MarchMonthOf, DaysToMonth
<1>5. ToDays(ymd) = ((DaysBefore(y) + DaysToMonth(MarchMonthOf(ymd.m))) + ymd.d) - 719469
  BY <1>1, DayNumber
<1>6. ToDays(ymd) = (DaysBefore(y) + MarchDay(ymd)) - 719468
  BY <1>1, <1>3, <1>4, <1>5, SMT DEF MarchDay
<1>7. ymd.m = 2 => y + 1 = ymd.y
  BY <1>1, SMT DEF MarchYearOf
<1>8. /\ 0 <= MarchDay(ymd) /\ MarchDay(ymd) <= (IF LeapYear(y + 1) THEN 365 ELSE 364)
  <2> HIDE DEF y
  <2>1. CASE ymd.m = 2
    BY <1>1, <1>2, <1>7, <2>1, SMT DEF MarchDay, MarchMonthOf, DaysToMonth, DaysIn
  <2>2. CASE ymd.m # 2
    BY <1>1, <1>2, <2>2, SMT DEF MarchDay, MarchMonthOf, DaysToMonth, DaysIn
  <2> QED BY <2>1, <2>2
<1> QED BY <1>1, <1>3, <1>6, <1>8

\* The day after a date is a date, and to_days numbers it next.
LEMMA TheDayAfter ==
  ASSUME NEW ymd, DateIn(ymd)
  PROVE  /\ DateIn(DayAfter(ymd))
         /\ ToDays(DayAfter(ymd)) = ToDays(ymd) + 1
<1> DEFINE y == ymd.y
           m == ymd.m
           d == ymd.d
<1>1. y \in Int /\ m \in Int /\ d \in Int /\ ymd = Date(y, m, d)
  BY DEF DateIn, Date
<1>2. m \in 1..12 /\ d \in 1..DaysIn(y, m)
  BY <1>1, SameCalendar DEF DateIn, DateOK, MonthOK
<1>3. /\ DaysBefore(y) \in Int /\ DaysBefore(y - 1) \in Int
      /\ DaysBefore(y) = DaysBefore(y - 1) + (IF LeapYear(y) THEN 366 ELSE 365)
  <2>1. y - 1 \in Int
    BY <1>1, SMT
  <2> HIDE DEF y
  <2> QED BY <1>1, <2>1, LongerYears
<1>4. \A yy \in Int, mm \in Int, dd \in Int :
        mm \in 1..12 /\ dd \in 1..DaysIn(yy, mm) => DateIn(Date(yy, mm, dd))
  BY SameCalendar DEF DateIn, DateOK, MonthOK, Date
<1>5. \A mm \in Int, dd \in Int :
        ToDays(Date(y, mm, dd))
          = (((IF mm <= 2 THEN DaysBefore(y - 1) ELSE DaysBefore(y))
                + DaysToMonth(MarchMonthOf(mm))) + dd) - 719469
  BY <1>1, DayNumber DEF MarchYearOf
<1>6. ToDays(Date(y + 1, 1, 1)) = ((DaysBefore(y) + DaysToMonth(MarchMonthOf(1))) + 1) - 719469
  <2>1. y + 1 \in Int /\ (y + 1) - 1 = y
    BY <1>1, SMT
  <2>2. MarchYearOf(y + 1, 1) = y
    BY <2>1, SMT DEF MarchYearOf
  <2> QED BY <2>1, <2>2, DayNumber, SMT
<1>7. ToDays(ymd) = (((IF m <= 2 THEN DaysBefore(y - 1) ELSE DaysBefore(y))
                + DaysToMonth(MarchMonthOf(m))) + d) - 719469
  BY <1>1, <1>5
<1> HIDE DEF y, m, d
<1>8. CASE m = 12 /\ d = 31
  <2>1. DayAfter(ymd) = Date(y + 1, 1, 1)
    BY <1>8 DEF DayAfter, NewYear, y, m, d
  <2>2. DateIn(Date(y + 1, 1, 1))
    <3>1. y + 1 \in Int /\ 1 \in 1..12 /\ 1 \in 1..DaysIn(y + 1, 1)
      BY <1>1, SMT DEF DaysIn
    <3> QED BY <1>4, <3>1
  <2>3. ToDays(Date(y + 1, 1, 1)) = ToDays(ymd) + 1
    BY <1>1, <1>3, <1>6, <1>7, <1>8, SMT DEF DaysToMonth, MarchMonthOf
  <2> QED BY <2>1, <2>2, <2>3
<1>9. CASE ~(m = 12 /\ d = 31) /\ d = DaysIn(y, m)
  <2>1. DayAfter(ymd) = Date(y, m + 1, 1)
    BY <1>9 DEF DayAfter, NewYear, y, m, d
  <2>2. m \in 1..11
    BY <1>2, <1>9, SMT DEF DaysIn
  <2>3. DateIn(Date(y, m + 1, 1))
    <3>1. m + 1 \in Int /\ m + 1 \in 1..12
      BY <1>1, <2>2, SMT
    <3>2. 1 \in 1..DaysIn(y, m + 1)
      BY <2>2, SMT DEF DaysIn
    <3> QED BY <1>1, <1>4, <3>1, <3>2
  <2>4. ToDays(Date(y, m + 1, 1))
          = (((IF m + 1 <= 2 THEN DaysBefore(y - 1) ELSE DaysBefore(y))
                + DaysToMonth(MarchMonthOf(m + 1))) + 1) - 719469
    <3>1. m + 1 \in Int
      BY <1>1
    <3> QED BY <1>5, <3>1
  <2>5. ToDays(Date(y, m + 1, 1)) = ToDays(ymd) + 1
    <3>1. CASE m = 2
      BY <1>1, <1>3, <1>7, <1>9, <2>4, <3>1, SMT DEF DaysToMonth, MarchMonthOf, DaysIn
    <3>2. CASE m # 2
      <4>1. d = IF m \in {4, 6, 9, 11} THEN 30 ELSE 31
        BY <1>9, <3>2 DEF DaysIn
      <4> QED BY <1>1, <1>3, <1>7, <2>2, <2>4, <3>2, <4>1, SMT DEF DaysToMonth, MarchMonthOf
    <3> QED BY <3>1, <3>2
  <2> QED BY <2>1, <2>3, <2>5
<1>10. CASE ~(m = 12 /\ d = 31) /\ d # DaysIn(y, m)
  <2>1. DayAfter(ymd) = Date(y, m, d + 1)
    BY <1>1, <1>10 DEF DayAfter, NewYear, y, m, d, Date
  <2>2. d + 1 \in Int /\ d + 1 \in 1..DaysIn(y, m)
    <3>1. DaysIn(y, m) \in Int
      BY <1>2, SMT DEF DaysIn
    <3> QED BY <1>1, <1>2, <1>10, <3>1, SMT
  <2>3. ToDays(Date(y, m, d + 1))
          = (((IF m <= 2 THEN DaysBefore(y - 1) ELSE DaysBefore(y))
                + DaysToMonth(MarchMonthOf(m))) + (d + 1)) - 719469
    BY <1>1, <1>5, <2>2
  <2>4. DaysToMonth(MarchMonthOf(m)) \in Int
    BY <1>1, SMT DEF DaysToMonth, MarchMonthOf
  <2>5. ToDays(Date(y, m, d + 1)) = ToDays(ymd) + 1
    BY <1>1, <1>3, <1>7, <2>3, <2>4, SMT
  <2> QED BY <1>1, <1>2, <1>4, <2>1, <2>2, <2>5
<1> QED BY <1>8, <1>9, <1>10

\* A month is over before a later one of the year from March begins.
LEMMA MonthsInOrder ==
  ASSUME NEW m \in 1..12, NEW n \in 1..12, MarchMonthOf(m) < MarchMonthOf(n),
         NEW d \in Int, d <= 31, m \in {4, 6, 9, 11} => d <= 30
  PROVE  DaysToMonth(MarchMonthOf(m)) + d <= DaysToMonth(MarchMonthOf(n))
<1> DEFINE p == MarchMonthOf(m)
           q == MarchMonthOf(n)
<1>1. p \in 0..11 /\ q \in 0..11 /\ p < q /\ (m \in {4, 6, 9, 11} <=> p \in {1, 3, 6, 8})
  BY SMT DEF MarchMonthOf
<1> HIDE DEF p, q
<1>2. /\ DaysToMonth(p) \in Int /\ DaysToMonth(p + 1) <= DaysToMonth(q)
      /\ DaysToMonth(p + 1) = DaysToMonth(p) + (IF p \in {1, 3, 6, 8} THEN 30 ELSE 31)
  BY <1>1, SMT DEF DaysToMonth
<1>3. DaysToMonth(q) \in Int
  BY <1>1, SMT DEF DaysToMonth
<1> QED BY <1>1, <1>2, <1>3, SMT DEF p, q

\* Dates come in the order of their days, and no two share one.
LEMMA DaysInOrder ==
  ASSUME NEW a, DateIn(a), NEW b, DateIn(b)
  PROVE  /\ Before(a, b) <=> ToDays(a) < ToDays(b)
         /\ ToDays(a) = ToDays(b) => a = b
<1>1. \A p, q : DateIn(p) /\ DateIn(q) /\ Before(p, q) => ToDays(p) < ToDays(q)
  <2> SUFFICES ASSUME NEW p, NEW q, DateIn(p), DateIn(q), Before(p, q)
               PROVE  ToDays(p) < ToDays(q)
    OBVIOUS
  <2> DEFINE yp == MarchYearOf(p.y, p.m)
             yq == MarchYearOf(q.y, q.m)
  <2>1. /\ yp \in Int /\ MarchDay(p) \in Int
        /\ ToDays(p) = (DaysBefore(yp) + MarchDay(p)) - 719468
        /\ 0 <= MarchDay(p) /\ MarchDay(p) <= (IF LeapYear(yp + 1) THEN 365 ELSE 364)
    BY PartsOfDate
  <2>2. /\ yq \in Int /\ MarchDay(q) \in Int
        /\ ToDays(q) = (DaysBefore(yq) + MarchDay(q)) - 719468
        /\ 0 <= MarchDay(q) /\ MarchDay(q) <= (IF LeapYear(yq + 1) THEN 365 ELSE 364)
    BY PartsOfDate
  <2>3. /\ p.y \in Int /\ p.m \in Int /\ p.d \in Int /\ p.m \in 1..12 /\ p.d \in 1..DaysIn(p.y, p.m)
        /\ q.y \in Int /\ q.m \in Int /\ q.d \in Int /\ q.m \in 1..12 /\ q.d \in 1..DaysIn(q.y, q.m)
    BY SameCalendar DEF DateIn, DateOK, MonthOK
  <2>4. \/ yp < yq
        \/ yp = yq /\ MarchMonthOf(p.m) < MarchMonthOf(q.m)
        \/ yp = yq /\ p.m = q.m /\ p.d < q.d
    BY <2>3, SMT DEF Before, MarchYearOf, MarchMonthOf
  <2>5. CASE yp < yq
    <3>1. DaysBefore(yp + 1) <= DaysBefore(yq) /\ DaysBefore(yp) \in Int /\ DaysBefore(yq) \in Int
      BY <2>1, <2>2, <2>5, LongerYears
    <3>2. DaysBefore(yp + 1) = DaysBefore(yp) + (IF LeapYear(yp + 1) THEN 366 ELSE 365)
      <4>1. yp + 1 \in Int /\ (yp + 1) - 1 = yp
        BY <2>1, SMT
      <4> QED BY <4>1, LongerYears
    <3> HIDE DEF yp, yq
    <3> QED BY <2>1, <2>2, <3>1, <3>2, SMT
  <2>6. CASE yp = yq /\ MarchMonthOf(p.m) < MarchMonthOf(q.m)
    <3>1. p.m \in {4, 6, 9, 11} => p.d <= 30
      BY <2>3, SMT DEF DaysIn
    <3>5. p.d <= 31
      BY <2>3, SMT DEF DaysIn
    <3>2. MarchDay(p) < MarchDay(q)
      <4>1. DaysToMonth(MarchMonthOf(p.m)) + p.d <= DaysToMonth(MarchMonthOf(q.m))
        BY <2>3, <2>6, <3>1, <3>5, MonthsInOrder
      <4>2. DaysToMonth(MarchMonthOf(p.m)) \in Int /\ DaysToMonth(MarchMonthOf(q.m)) \in Int /\ q.d >= 1
        BY <2>3, SMT DEF MarchMonthOf, DaysToMonth
      <4> QED BY <2>3, <4>1, <4>2, SMT DEF MarchDay
    <3>3. DaysBefore(yp) \in Int
      BY <2>1, LongerYears
    <3> HIDE DEF yp, yq
    <3> QED BY <2>1, <2>2, <2>6, <3>2, <3>3, SMT
  <2>7. CASE yp = yq /\ p.m = q.m /\ p.d < q.d
    <3>1. MarchDay(p) < MarchDay(q)
      BY <2>3, <2>7, SMT DEF MarchDay, MarchMonthOf, DaysToMonth
    <3>3. DaysBefore(yp) \in Int
      BY <2>1, LongerYears
    <3> HIDE DEF yp, yq
    <3> QED BY <2>1, <2>2, <2>7, <3>1, <3>3, SMT
  <2> QED BY <2>4, <2>5, <2>6, <2>7
<1>2. \/ Before(a, b) \/ Before(b, a) \/ a = b
  <2>1. a \in [y : Int, m : Int, d : Int] /\ b \in [y : Int, m : Int, d : Int]
    BY DEF DateIn
  <2>2. a.y = b.y /\ a.m = b.m /\ a.d = b.d => a = b
    BY <2>1
  <2>3. a.y \in Int /\ a.m \in Int /\ a.d \in Int /\ b.y \in Int /\ b.m \in Int /\ b.d \in Int
    BY <2>1
  <2> QED BY <2>2, <2>3, SMT DEF Before
<1>3. ToDays(a) \in Int /\ ToDays(b) \in Int
  <2>1. \A p : DateIn(p) => ToDays(p) \in Int
    <3> SUFFICES ASSUME NEW p, DateIn(p) PROVE ToDays(p) \in Int
      OBVIOUS
    <3> DEFINE y == MarchYearOf(p.y, p.m)
    <3>1. y \in Int /\ MarchDay(p) \in Int /\ ToDays(p) = (DaysBefore(y) + MarchDay(p)) - 719468
      BY PartsOfDate
    <3>2. DaysBefore(y) \in Int
      BY <3>1, LongerYears
    <3> HIDE DEF y
    <3> QED BY <3>1, <3>2, SMT
  <2> QED BY <2>1
<1>4. /\ Before(a, b) => ToDays(a) < ToDays(b)
      /\ Before(b, a) => ToDays(b) < ToDays(a)
  BY <1>1
<1> QED BY <1>2, <1>3, <1>4, SMT

-------------------------------------------------------------------------------
\* The multiples of a number between two others.
Multiples(a, b, c) == {z \in a..b : z % c = 0}
HowMany(a, b, c) == (b \div c) - ((a - 1) \div c)

\* The multiples of a number in a range of years are as many as their quotients.
LEMMA HowManyMultiples ==
  ASSUME NEW a \in Int, NEW b \in Int, NEW c \in {4, 100, 400}, a <= b + 1
  PROVE  /\ IsFiniteSet(Multiples(a, b, c))
         /\ Cardinality(Multiples(a, b, c)) = HowMany(a, b, c)
<1> DEFINE lo == ((a - 1) \div c) + 1
           hi == b \div c
           f  == [i \in lo..hi |-> i * c]
<1>1. lo \in Int /\ hi \in Int /\ lo <= hi + 1
  BY c = 4 \/ c = 100 \/ c = 400, SMT
<1>2. \A i \in lo..hi : i * c \in a..b /\ (i * c) % c = 0
  BY c = 4 \/ c = 100 \/ c = 400, SMT
<1>3. \A z \in a..b : z % c = 0 => z \div c \in lo..hi /\ (z \div c) * c = z
  BY c = 4 \/ c = 100 \/ c = 400, SMT
<1>4. \A i, j \in lo..hi : i * c = j * c => i = j
  BY <1>1, c = 4 \/ c = 100 \/ c = 400, SMT
<1> HIDE DEF lo, hi
<1>5. f \in Bijection(lo..hi, Multiples(a, b, c))
  <2>1. f \in [lo..hi -> Multiples(a, b, c)]
    BY <1>2 DEF Multiples
  <2>2. f \in Injection(lo..hi, Multiples(a, b, c))
    BY <1>4, <2>1 DEF Injection, IsInjective
  <2>3. \A z \in Multiples(a, b, c) : \E i \in lo..hi : f[i] = z
    <3> SUFFICES ASSUME NEW z \in a..b, z % c = 0 PROVE \E i \in lo..hi : f[i] = z
      BY DEF Multiples
    <3>1. z \div c \in lo..hi /\ (z \div c) * c = z
      BY <1>3
    <3>2. f[z \div c] = (z \div c) * c
      BY <3>1
    <3> QED BY <3>1, <3>2
  <2> HIDE DEF f
  <2> QED BY <2>1, <2>2, <2>3 DEF Bijection, Surjection
<1>6. IsFiniteSet(lo..hi) /\ Cardinality(lo..hi) = (hi - lo) + 1
  BY <1>1, FS_Interval, SMT
<1>7. ExistsBijection(lo..hi, Multiples(a, b, c))
  BY <1>5 DEF ExistsBijection
<1>8. IsFiniteSet(Multiples(a, b, c)) /\ Cardinality(Multiples(a, b, c)) = Cardinality(lo..hi)
  BY <1>6, <1>7, FS_Bijection
<1>9. (hi - lo) + 1 = HowMany(a, b, c)
  <2>1. b \div c \in Int /\ (a - 1) \div c \in Int
    BY c = 4 \/ c = 100 \/ c = 400, SMT
  <2> QED BY <2>1, SMT DEF lo, hi, HowMany
<1> QED BY <1>6, <1>8, <1>9

LeapYearsTo(y) == ((y \div 4) - (y \div 100)) + (y \div 400)
LeapYearsIn(a, b) == Cardinality({z \in a..b : LeapYear(z)})

\* The leap years of a range, from those up to its ends.
LEMMA HowManyLeapYears ==
  ASSUME NEW a \in Int, NEW b \in Int, a <= b + 1
  PROVE  LeapYearsIn(a, b) = LeapYearsTo(b) - LeapYearsTo(a - 1)
<1> DEFINE F == Multiples(a, b, 4)
           H == Multiples(a, b, 100)
           Q == Multiples(a, b, 400)
<1>1. /\ IsFiniteSet(F) /\ Cardinality(F) = HowMany(a, b, 4)
      /\ IsFiniteSet(H) /\ Cardinality(H) = HowMany(a, b, 100)
      /\ IsFiniteSet(Q) /\ Cardinality(Q) = HowMany(a, b, 400)
  <2>1. \A c \in {4, 100, 400} :
          /\ IsFiniteSet(Multiples(a, b, c))
          /\ Cardinality(Multiples(a, b, c)) = HowMany(a, b, c)
    BY HowManyMultiples, SMT
  <2>2. 4 \in {4, 100, 400} /\ 100 \in {4, 100, 400} /\ 400 \in {4, 100, 400}
    OBVIOUS
  <2> QED BY <2>1, <2>2
<1>2. \A z \in Int : (z % 100 = 0 => z % 4 = 0) /\ (z % 400 = 0 => z % 100 = 0)
  BY SMT
<1>3. \A z \in a..b : z \in Int
  OBVIOUS
<1>4. {z \in a..b : LeapYear(z)} = (F \ H) \cup Q
  BY <1>2, <1>3 DEF LeapYear, Multiples
<1>5. F \cap H = H /\ (F \ H) \cap Q = {}
  BY <1>2, <1>3 DEF Multiples
<1> HIDE DEF F, H, Q
<1>6. IsFiniteSet(F \ H) /\ Cardinality(F \ H) = Cardinality(F) - Cardinality(H)
  <2>1. IsFiniteSet(F \ H) /\ Cardinality(F \ H) = Cardinality(F) - Cardinality(F \cap H)
    BY <1>1, FS_Difference
  <2> QED BY <1>5, <2>1
<1>7. Cardinality((F \ H) \cup Q) = Cardinality(F \ H) + (Cardinality(Q) - Cardinality({}))
  <2> DEFINE D == F \ H
  <2>1. IsFiniteSet(D)
    BY <1>6
  <2> HIDE DEF D
  <2>2. Cardinality(D \cup Q) = Cardinality(D) + (Cardinality(Q) - Cardinality(D \cap Q))
    BY <1>1, <2>1, FS_Union
  <2> QED BY <1>5, <2>2 DEF D
<1>8. Cardinality({}) = 0
  BY FS_EmptySet
<1>9. /\ b \div 4 \in Int /\ b \div 100 \in Int /\ b \div 400 \in Int
      /\ (a - 1) \div 4 \in Int /\ (a - 1) \div 100 \in Int /\ (a - 1) \div 400 \in Int
  BY SMT
<1>10. LeapYearsIn(a, b) = Cardinality((F \ H) \cup Q)
  BY <1>4 DEF LeapYearsIn
<1> QED BY <1>1, <1>6, <1>7, <1>8, <1>9, <1>10, SMT DEF HowMany, LeapYearsTo

\* The years counted one at a time, and the days to_days finds before them.
LEMMA DaysToAYear == ASSUME NEW y \in Int PROVE DaysTo(y) = ToDays(Date(y, 1, 1))
<1>1. ToDays(Date(y, 1, 1)) = ((DaysBefore(y - 1) + 306) + 1) - 719469
  <2>1. MarchYearOf(y, 1) = y - 1 /\ DaysToMonth(MarchMonthOf(1)) = 306
    BY SMT DEF MarchYearOf, MarchMonthOf, DaysToMonth
  <2>2. ToDays(Date(y, 1, 1))
           = ((DaysBefore(MarchYearOf(y, 1)) + DaysToMonth(MarchMonthOf(1))) + 1) - 719469
    BY DayNumber
  <2> QED BY <2>1, <2>2
<1>2. CASE y >= 1970
  <2> DEFINE n == LeapYearsIn(1970, y - 1)
  <2>1. n = LeapYearsTo(y - 1) - LeapYearsTo(1970 - 1)
    <3>1. 1970 \in Int /\ y - 1 \in Int /\ 1970 <= (y - 1) + 1
      BY <1>2, SMT
    <3> QED BY <3>1, HowManyLeapYears, SMT
  <2>2. DaysTo(y) = (365 * (y - 1970)) + n
    BY <1>2 DEF DaysTo, LeapYearsIn
  <2> HIDE DEF n
  <2> QED BY <1>1, <2>1, <2>2, SMT DEF DaysBefore, LeapYearsTo
<1>3. CASE y < 1970
  <2> DEFINE n == LeapYearsIn(y, 1969)
  <2>1. n = LeapYearsTo(1969) - LeapYearsTo(y - 1)
    <3>1. 1969 \in Int /\ y \in Int /\ y <= 1969 + 1
      BY <1>3, SMT
    <3> QED BY <3>1, HowManyLeapYears, SMT
  <2>2. ~(y >= 1970)
    BY <1>3, SMT
  <2>3. DaysTo(y) = (365 * (y - 1970)) + (-n)
    BY <2>2 DEF DaysTo, LeapYearsIn
  <2> HIDE DEF n
  <2> QED BY <1>1, <2>1, <2>3, SMT DEF DaysBefore, LeapYearsTo
<1> QED BY <1>2, <1>3, SMT

\* The number of a date in its year, and how it goes on.
NumberInYear(ymd) == (ToDays(ymd) - ToDays(Date(ymd.y, 1, 1))) + 1

\* The day of a date is a number.
LEMMA DaysAreInt == ASSUME NEW ymd, DateIn(ymd) PROVE ToDays(ymd) \in Int
<1> DEFINE y == MarchYearOf(ymd.y, ymd.m)
<1>1. y \in Int /\ MarchDay(ymd) \in Int /\ ToDays(ymd) = (DaysBefore(y) + MarchDay(ymd)) - 719468
  BY PartsOfDate
<1>2. DaysBefore(y) \in Int
  BY <1>1, LongerYears
<1> HIDE DEF y
<1> QED BY <1>1, <1>2, SMT

\* January 1st of every year is a date, and a year after it comes the next.
LEMMA NewYearsDay ==
  ASSUME NEW y \in Int
  PROVE  /\ DateIn(Date(y, 1, 1)) /\ ToDays(Date(y, 1, 1)) \in Int
         /\ ToDays(Date(y + 1, 1, 1)) = ToDays(Date(y, 1, 1)) + DaysOfYear(y)
<1>1. \A z \in Int : DateIn(Date(z, 1, 1)) /\ ToDays(Date(z, 1, 1)) \in Int
  <2>1. \A z \in Int : DateIn(Date(z, 1, 1))
    BY SMT DEF DateIn, Date, DateOK, MonthOK, LastDay
  <2> QED BY <2>1, DaysAreInt
<1>2. \A z \in Int : ToDays(Date(z, 1, 1)) = ((DaysBefore(z - 1) + 306) + 1) - 719469
  <2> SUFFICES ASSUME NEW z \in Int
               PROVE  ToDays(Date(z, 1, 1)) = ((DaysBefore(z - 1) + 306) + 1) - 719469
    OBVIOUS
  <2>1. MarchYearOf(z, 1) = z - 1 /\ DaysToMonth(MarchMonthOf(1)) = 306
    BY SMT DEF MarchYearOf, MarchMonthOf, DaysToMonth
  <2>2. ToDays(Date(z, 1, 1))
           = ((DaysBefore(MarchYearOf(z, 1)) + DaysToMonth(MarchMonthOf(1))) + 1) - 719469
    BY DayNumber
  <2> QED BY <2>1, <2>2
<1>3. ToDays(Date(y + 1, 1, 1)) = ((DaysBefore(y) + 306) + 1) - 719469
  <2>1. y + 1 \in Int /\ (y + 1) - 1 = y
    BY SMT
  <2> QED BY <1>2, <2>1
<1>4. /\ DaysBefore(y - 1) \in Int /\ DaysBefore(y) \in Int
      /\ DaysBefore(y) = DaysBefore(y - 1) + (IF LeapYear(y) THEN 366 ELSE 365)
  <2>1. y - 1 \in Int
    BY SMT
  <2> QED BY <2>1, LongerYears
<1> QED BY <1>1, <1>2, <1>3, <1>4, SMT DEF DaysOfYear

\* The number of a date in its year goes on with the date.
LEMMA NumbersInYear ==
  ASSUME NEW ymd, DateIn(ymd)
  PROVE  /\ NumberInYear(ymd) \in 1..DaysOfYear(ymd.y)
         /\ NumberInYear(DayAfter(ymd)) = IF NewYear(ymd) THEN 1 ELSE NumberInYear(ymd) + 1
<1> DEFINE y == ymd.y
<1>1. y \in Int /\ ymd.m \in 1..12 /\ ymd.d \in Int /\ ymd.d >= 1
  BY SMT DEF DateIn, DateOK, MonthOK
<1>2. /\ DateIn(Date(y, 1, 1)) /\ ToDays(Date(y, 1, 1)) \in Int
      /\ ToDays(Date(y + 1, 1, 1)) = ToDays(Date(y, 1, 1)) + DaysOfYear(y)
  BY <1>1, NewYearsDay
<1>3. DateIn(Date(y + 1, 1, 1)) /\ ToDays(Date(y + 1, 1, 1)) \in Int
  <2>1. y + 1 \in Int
    BY <1>1, SMT
  <2> QED BY <2>1, NewYearsDay
<1>4. ToDays(ymd) \in Int
  BY DaysAreInt
<1>5. ToDays(Date(y, 1, 1)) <= ToDays(ymd)
  <2>1. ~Before(ymd, Date(y, 1, 1))
    BY <1>1, SMT DEF Before, Date
  <2>2. ~(ToDays(ymd) < ToDays(Date(y, 1, 1)))
    BY <1>2, <2>1, DaysInOrder
  <2> QED BY <1>2, <1>4, <2>2, SMT
<1>6. ToDays(ymd) < ToDays(Date(y + 1, 1, 1))
  <2>1. Before(ymd, Date(y + 1, 1, 1))
    BY <1>1, SMT DEF Before, Date
  <2> QED BY <1>3, <2>1, DaysInOrder
<1>7. NumberInYear(ymd) \in 1..DaysOfYear(y)
  <2>1. DaysOfYear(y) \in Int
    BY DEF DaysOfYear
  <2> HIDE DEF y
  <2> QED BY <1>2, <1>4, <1>5, <1>6, <2>1, SMT DEF NumberInYear, y
<1>8. ToDays(DayAfter(ymd)) = ToDays(ymd) + 1
  BY TheDayAfter
<1>9. NumberInYear(DayAfter(ymd)) = IF NewYear(ymd) THEN 1 ELSE NumberInYear(ymd) + 1
  <2>1. CASE NewYear(ymd)
    <3>1. DayAfter(ymd) = Date(y + 1, 1, 1) /\ DayAfter(ymd).y = y + 1
      BY <2>1 DEF DayAfter, Date
    <3> QED BY <1>3, <2>1, <3>1, SMT DEF NumberInYear
  <2>2. CASE ~NewYear(ymd)
    <3>1. DayAfter(ymd).y = y
      BY <2>2 DEF DayAfter, Date, DateIn
    <3> HIDE DEF y
    <3> QED BY <1>2, <1>4, <1>8, <2>2, <3>1, SMT DEF NumberInYear, y
  <2> QED BY <2>1, <2>2
<1> QED BY <1>7, <1>9

-------------------------------------------------------------------------------
\* The clock kept by hand, in ticks since midnight.
Ticks(t) ==
  (((t.h * (unit \div 24)) + (t.m * (unit \div 1440))) + (t.s * (unit \div 86400))) + t.sub

\* A time of the day has no finer fields than its unit.
ClockOK(t) ==
  /\ t \in [h : 0..23, m : 0..59, s : 0..59, sub : Nat]
  /\ t.sub < Fractions
  /\ unit < 1440 => t.m = 0
  /\ unit < 86400 => t.s = 0

\* The ticks of an hour, a minute and a second in a unit.
LEMMA UnitParts ==
  ASSUME UnitOK(unit)
  PROVE  /\ unit \in Nat /\ unit >= 24
         /\ unit \div 24 \in Int /\ unit \div 1440 \in Int /\ unit \div 86400 \in Int
         /\ unit = 24 * (unit \div 24) /\ unit \div 24 > 0
         /\ unit >= 1440 => unit \div 24 = 60 * (unit \div 1440) /\ unit \div 1440 > 0
         /\ unit >= 86400 => unit \div 1440 = 60 * (unit \div 86400) /\ unit \div 86400 > 0
         /\ unit > 86400 => unit \div 86400 >= 2
         /\ unit = 86400 => unit \div 86400 = 1
         /\ unit < 1440 => unit \div 1440 = 0
         /\ unit < 86400 => unit \div 86400 = 0
         /\ Fractions = IF unit > 86400 THEN unit \div 86400 ELSE 1
BY SMT DEF UnitOK, Fractions

\* The ticks of a time of the day are fewer than those of a day.
LEMMA TicksOfADay ==
  ASSUME UnitOK(unit), NEW t, ClockOK(t)
  PROVE  Ticks(t) \in Int /\ 0 <= Ticks(t) /\ Ticks(t) < unit
<1> DEFINE H == unit \div 24
           M == unit \div 1440
           S == unit \div 86400
<1>1. /\ unit \in Nat /\ H \in Int /\ M \in Int /\ S \in Int /\ unit = 24 * H /\ H > 0
      /\ unit >= 1440 => H = 60 * M /\ M > 0
      /\ unit >= 86400 => M = 60 * S /\ S > 0
      /\ unit < 1440 => M = 0
      /\ unit < 86400 => S = 0
      /\ unit = 86400 => S = 1
      /\ Fractions = IF unit > 86400 THEN S ELSE 1
  BY UnitParts
<1> DEFINE h == t.h
           m == t.m
           s == t.s
           b == t.sub
<1>2. /\ h \in Int /\ m \in Int /\ s \in Int /\ b \in Int
      /\ 0 <= h /\ h <= 23 /\ 0 <= m /\ m <= 59 /\ 0 <= s /\ s <= 59 /\ 0 <= b
      /\ b < Fractions
      /\ unit < 1440 => m = 0
      /\ unit < 86400 => s = 0
  BY DEF ClockOK
<1>3. Ticks(t) = (((h * H) + (m * M)) + (s * S)) + b
  BY DEF Ticks
<1> HIDE DEF H, M, S, h, m, s, b
<1>4. /\ h * H \in Int /\ 0 <= h * H /\ h * H <= 23 * H
      /\ m * M \in Int /\ 0 <= m * M
      /\ s * S \in Int /\ 0 <= s * S
  <2>1. M >= 0 /\ S >= 0
    BY <1>1, SMT
  <2>2. \A x, y \in Int : x * y \in Int /\ (x >= 0 /\ y >= 0 => x * y >= 0)
    BY SMT
  <2>3. (23 - h) * H >= 0 /\ (23 - h) * H = (23 * H) - (h * H)
    BY <1>1, <1>2, SMT
  <2> QED BY <1>1, <1>2, <2>1, <2>2, <2>3, SMT
<1>5. s * S <= 59 * S /\ m * M <= 59 * M
  <2>1. (59 - s) * S >= 0 /\ (59 - s) * S = (59 * S) - (s * S)
    BY <1>1, <1>2, SMT
  <2>2. (59 - m) * M >= 0 /\ (59 - m) * M = (59 * M) - (m * M)
    BY <1>1, <1>2, SMT
  <2> QED BY <1>1, <1>4, <2>1, <2>2, SMT
<1>6. CASE unit >= 86400
  BY <1>1, <1>2, <1>3, <1>4, <1>5, <1>6, SMT
<1>7. CASE unit < 86400 /\ unit >= 1440
  <2>1. b = 0 /\ s * S = 0
    BY <1>1, <1>2, <1>7, SMT
  <2> QED BY <1>1, <1>2, <1>3, <1>4, <1>5, <1>7, <2>1, SMT
<1>8. CASE unit < 1440
  <2>1. b = 0 /\ s * S = 0 /\ m * M = 0
    BY <1>1, <1>2, <1>8, SMT
  <2> QED BY <1>1, <1>2, <1>3, <1>4, <1>8, <2>1, SMT
<1> QED BY <1>1, <1>6, <1>7, <1>8, SMT

\* A number that has just reached its limit is carried.
LEMMA CarriedOnce ==
  ASSUME NEW n \in Int, n > 0, NEW x \in Int, 0 <= x, x <= n
  PROVE  /\ x \div n = IF x = n THEN 1 ELSE 0
         /\ x % n = IF x = n THEN 0 ELSE x
<1>1. CASE x = n
  BY <1>1, SMT
<1>2. CASE x < n
  BY <1>2, SMT
<1> QED BY <1>1, <1>2, SMT

\* The clock kept by hand goes on with the time point, a day less after midnight.
LEMMA ClockGoesOn ==
  ASSUME UnitOK(unit), NEW t, ClockOK(t)
  PROVE  LET l == Later(t)
             n == [Later(t) EXCEPT !.h = @ % 24]
         IN  /\ l.h \in 1..25
             /\ StepTicks \in Int
             /\ ClockOK(n)
             /\ Ticks(n) = (Ticks(t) + StepTicks) - (IF l.h < 24 THEN 0 ELSE unit)
<1> DEFINE H == unit \div 24
           M == unit \div 1440
           S == unit \div 86400
           F == Fractions
<1>1. /\ unit \in Nat /\ H \in Int /\ M \in Int /\ S \in Int /\ unit = 24 * H /\ H > 0
      /\ unit >= 1440 => H = 60 * M /\ M > 0
      /\ unit >= 86400 => M = 60 * S /\ S > 0
      /\ unit > 86400 => S >= 2
      /\ unit < 1440 => M = 0
      /\ unit < 86400 => S = 0
      /\ unit = 86400 => S = 1
      /\ F = IF unit > 86400 THEN S ELSE 1
  BY UnitParts
<1> DEFINE h == t.h
           m == t.m
           s == t.s
           b == t.sub
           dm == IF unit >= 1440 THEN 1 ELSE 0
           ds == IF unit >= 86400 THEN 1 ELSE 0
           db == IF unit > 86400 THEN 1 ELSE 0
           b1 == b + db
           s1 == (s + ds) + (b1 \div F)
           m1 == (m + dm) + (s1 \div 60)
           h1 == (h + 1) + (m1 \div 60)
<1>2. /\ h \in Int /\ m \in Int /\ s \in Int /\ b \in Int
      /\ 0 <= h /\ h <= 23 /\ 0 <= m /\ m <= 59 /\ 0 <= s /\ s <= 59 /\ 0 <= b
      /\ b < F
      /\ unit < 1440 => m = 0
      /\ unit < 86400 => s = 0
  BY DEF ClockOK
<1>3. /\ Ticks(t) = (((h * H) + (m * M)) + (s * S)) + b
      /\ StepTicks = (((1 * H) + (dm * M)) + (ds * S)) + db
      /\ Later(t) = [h |-> h1, m |-> m1 % 60, s |-> s1 % 60, sub |-> b1 % F]
  BY SMT DEF Ticks, StepTicks, Step, Later
<1> DEFINE n == [h |-> h1 % 24, m |-> m1 % 60, s |-> s1 % 60, sub |-> b1 % F]
<1>4. /\ Later(t).h = h1
      /\ [Later(t) EXCEPT !.h = @ % 24] = n
  BY <1>3
<1>5. Ticks(n) = ((((h1 % 24) * H) + ((m1 % 60) * M)) + ((s1 % 60) * S)) + (b1 % F)
  BY DEF Ticks
<1>6. dm \in {0, 1} /\ ds \in {0, 1} /\ db \in {0, 1}
  OBVIOUS
<1> DEFINE cb == IF b1 = F THEN 1 ELSE 0
           cs == IF s1 >= 60 THEN 1 ELSE 0
           cm == IF m1 >= 60 THEN 1 ELSE 0
           ch == IF h1 >= 24 THEN 1 ELSE 0
<1> HIDE DEF H, M, S, F, h, m, s, b
<1>7. /\ F \in Int /\ F > 0 /\ b1 \in Int /\ 0 <= b1 /\ b1 <= F
      /\ unit <= 86400 => b1 = 0 /\ F = 1
  BY <1>1, <1>2, SMT
<1>8. b1 \div F = cb /\ b1 % F = b1 - (cb * F) /\ cb \in {0, 1}
      /\ (unit <= 86400 => cb = 0)
  <2> HIDE DEF b1
  <2>1. b1 \div F = (IF b1 = F THEN 1 ELSE 0) /\ b1 % F = IF b1 = F THEN 0 ELSE b1
    BY <1>7, CarriedOnce
  <2> QED BY <1>7, <2>1, SMT
<1> HIDE DEF dm, ds, db, b1, cb
<1>9. /\ s1 \in Int /\ 0 <= s1 /\ s1 <= 61 /\ (unit < 86400 => s1 = 0)
      /\ s1 = (s + ds) + cb
  BY <1>1, <1>2, <1>6, <1>8, SMT DEF ds
<1> HIDE DEF s1
<1>10. s1 \div 60 = cs /\ s1 % 60 = s1 - (60 * cs) /\ cs \in {0, 1} /\ (unit < 86400 => cs = 0)
  BY <1>9, SMT
<1> HIDE DEF cs
<1>11. /\ m1 \in Int /\ 0 <= m1 /\ m1 <= 61 /\ (unit < 1440 => m1 = 0)
       /\ m1 = (m + dm) + cs
  BY <1>1, <1>2, <1>6, <1>10, SMT DEF dm
<1> HIDE DEF m1
<1>12. m1 \div 60 = cm /\ m1 % 60 = m1 - (60 * cm) /\ cm \in {0, 1} /\ (unit < 1440 => cm = 0)
  BY <1>11, SMT
<1> HIDE DEF cm
<1>13. h1 \in 1..25 /\ h1 = (h + 1) + cm
  BY <1>2, <1>12, SMT
<1> HIDE DEF h1
<1>14. h1 % 24 = h1 - (24 * ch) /\ ch \in {0, 1} /\ ch = IF h1 < 24 THEN 0 ELSE 1
  BY <1>13, SMT
<1> HIDE DEF ch
<1>15. ClockOK(n)
  <2>1. h1 % 24 \in 0..23 /\ m1 % 60 \in 0..59 /\ s1 % 60 \in 0..59
    BY <1>9, <1>11, <1>13, SMT
  <2>2. b1 % F \in Nat /\ b1 % F < F
    BY <1>7, SMT
  <2>3. (unit < 1440 => m1 % 60 = 0) /\ (unit < 86400 => s1 % 60 = 0)
    BY <1>9, <1>11, SMT
  <2> QED BY <2>1, <2>2, <2>3 DEF ClockOK, F
<1>16. Ticks(n) = (Ticks(t) + StepTicks) - (IF h1 < 24 THEN 0 ELSE unit)
  <2>1. (h1 % 24) * H = ((h * H) + H) + ((cm * H) - (ch * unit))
    <3>1. h1 % 24 = ((h + 1) + cm) - (24 * ch) /\ cm \in Int /\ ch \in Int
      BY <1>12, <1>13, <1>14, SMT
    <3>2. (((h + 1) + cm) - (24 * ch)) * H = ((h * H) + H) + ((cm * H) - (ch * (24 * H)))
      BY <1>1, <1>2, <3>1, SMT
    <3> QED BY <1>1, <3>1, <3>2, SMT
  <2>2. (m1 % 60) * M = ((m * M) + (dm * M)) + ((cs * M) - (cm * H))
    <3>1. m1 % 60 = ((m + dm) + cs) - (60 * cm) /\ cm \in Int /\ cs \in Int /\ dm \in Int
      BY <1>6, <1>10, <1>11, <1>12, SMT
    <3>2. (((m + dm) + cs) - (60 * cm)) * M = ((m * M) + (dm * M)) + ((cs * M) - (cm * (60 * M)))
      BY <1>1, <1>2, <3>1, SMT
    <3>3. cm * (60 * M) = cm * H
      BY <1>1, <1>12, SMT
    <3> QED BY <3>1, <3>2, <3>3
  <2>3. (s1 % 60) * S = ((s * S) + (ds * S)) + ((cb * S) - (cs * M))
    <3>1. s1 % 60 = ((s + ds) + cb) - (60 * cs) /\ cs \in Int /\ cb \in Int /\ ds \in Int
      BY <1>6, <1>8, <1>9, <1>10, SMT
    <3>2. (((s + ds) + cb) - (60 * cs)) * S = ((s * S) + (ds * S)) + ((cb * S) - (cs * (60 * S)))
      BY <1>1, <1>2, <3>1, SMT
    <3>3. cs * (60 * S) = cs * M
      BY <1>1, <1>10, SMT
    <3> QED BY <3>1, <3>2, <3>3
  <2>4. b1 % F = (b + db) - (cb * S)
    <3>1. cb * F = cb * S
      BY <1>1, <1>8, SMT
    <3> QED BY <1>8, <3>1 DEF b1
  <2>5. /\ h * H \in Int /\ cm * H \in Int /\ ch * unit \in Int /\ m * M \in Int /\ dm * M \in Int
        /\ cs * M \in Int /\ s * S \in Int /\ ds * S \in Int /\ cb * S \in Int /\ 1 * H = H
        /\ db \in Int
    BY <1>1, <1>2, <1>6, <1>8, <1>10, <1>12, <1>14, SMT
  <2>6. ch * unit = IF h1 < 24 THEN 0 ELSE unit
    BY <1>1, <1>14, SMT
  <2> HIDE DEF n
  <2> QED BY <1>1, <1>2, <1>3, <1>5, <2>1, <2>2, <2>3, <2>4, <2>5, <2>6, SMT
<1>17. StepTicks \in Int
  BY <1>1, <1>3, <1>6, SMT
<1> HIDE DEF n
<1> QED BY <1>4, <1>13, <1>15, <1>16, <1>17

-------------------------------------------------------------------------------
(***************************************************************************)
(* The walk.  What is kept by hand belongs to the time point: the inductive *)
(* invariant, which holds of all years and needs no bound.                 *)
(***************************************************************************)
Walked ==
  /\ unit = 1 \/ unit \in Units
  /\ left \in Nat
  /\ DateIn(date)
  /\ ClockOK(time) /\ (ByDays => Ticks(time) = 0)
  /\ tp = (ToDays(date) * unit) + Ticks(time)
  /\ weekday = (ToDays(date) + 4) % 7
  /\ yday = NumberInYear(date)

\* The whole days of a time point are those of its date.
LEMMA FloorOfDays ==
  ASSUME NEW n \in Int, NEW size \in Int, size > 0, NEW z \in Int, NEW r \in Int,
         n = (z * size) + r, 0 <= r, r < size
  PROVE  Floor(n, size) = z
<1> DEFINE f == Floor(n, size)
<1>1. f * size <= n /\ n < (f + 1) * size
  BY RoundsNextTo
<1>2. f \in Int
  <2>1. Quot(n, size) \in Int
    BY QuotBounds
  <2> QED BY <2>1, SMT DEF Floor, Trunc
<1> HIDE DEF f
<1>3. (f + 1) * size = (f * size) + size /\ (z + 1) * size = (z * size) + size
  BY <1>2, SMT
<1>4. ~(f < z)
  <2> SUFFICES ASSUME f < z PROVE FALSE
    OBVIOUS
  <2>1. (z - (f + 1)) * size >= 0
    BY <1>2, SMT
  <2>2. (z - (f + 1)) * size = (z * size) - ((f + 1) * size)
    BY <1>2, SMT
  <2>3. z * size \in Int /\ (f + 1) * size \in Int
    BY <1>2, SMT
  <2> QED BY <1>1, <2>1, <2>2, <2>3, SMT
<1>5. ~(z < f)
  <2> SUFFICES ASSUME z < f PROVE FALSE
    OBVIOUS
  <2>1. (f - (z + 1)) * size >= 0
    BY <1>2, SMT
  <2>2. (f - (z + 1)) * size = (f * size) - ((z + 1) * size)
    BY <1>2, SMT
  <2>3. f * size \in Int /\ (z + 1) * size \in Int /\ z * size \in Int
    BY <1>2, SMT
  <2> QED BY <1>1, <1>3, <2>1, <2>2, <2>3, SMT
<1> QED BY <1>2, <1>4, <1>5, SMT DEF f

\* The walk is by days in the unit of a day only.
LEMMA UnitIsOne ==
  ASSUME CalendarAssumption, unit = 1 \/ unit \in Units
  PROVE  (ByDays <=> unit = 1) /\ (~ByDays => UnitOK(unit) /\ unit \in Units) /\ unit \in Nat /\ unit > 0
BY SMT DEF CalendarAssumption, ByDays, UnitOK

\* The whole days of the time point are those of the date kept by hand.
LEMMA DayOfWalk ==
  ASSUME CalendarAssumption, Walked
  PROVE  /\ ToDays(date) \in Int /\ tp \in Int
         /\ Floor(tp, unit) = ToDays(date)
<1>1. ToDays(date) \in Int /\ unit \in Int /\ unit > 0
  BY DaysAreInt, UnitIsOne DEF Walked
<1>2. Ticks(time) \in Int /\ 0 <= Ticks(time) /\ Ticks(time) < unit
  <2>1. CASE ByDays
    BY <1>1, <2>1, SMT DEF Walked
  <2>2. CASE ~ByDays
    BY <2>2, UnitIsOne, TicksOfADay DEF Walked
  <2> QED BY <2>1, <2>2
<1>3. tp = (ToDays(date) * unit) + Ticks(time)
  BY DEF Walked
<1>4. tp \in Int
  BY <1>1, <1>2, <1>3, SMT
<1> QED BY <1>1, <1>2, <1>3, <1>4, FloorOfDays

\* Both ways to begin a walk begin with what is kept by hand in step.
LEMMA WalkBegins == ASSUME CalendarAssumption, Init PROVE Walked
<1>1. time = [h |-> 0, m |-> 0, s |-> 0, sub |-> 0]
  BY DEF Init
<1>2. unit = 1 \/ unit \in Units
  BY DEF Init, InitByDays, InitByClock
<1>3. unit \in Nat /\ unit > 0 /\ (ByDays <=> unit = 1) /\ (~ByDays => UnitOK(unit))
  BY <1>2, UnitIsOne
<1>4. Ticks(time) = 0
  <2>1. Ticks(time) = (((0 * (unit \div 24)) + (0 * (unit \div 1440))) + (0 * (unit \div 86400))) + 0
    BY <1>1 DEF Ticks
  <2> QED BY <1>3, <2>1, SMT
<1>5. ClockOK(time)
  <2>1. Fractions \in Int /\ Fractions > 0
    BY <1>3, SMT DEF Fractions
  <2> QED BY <1>1, <2>1, SMT DEF ClockOK
<1>6. CASE InitByDays
  <2> PICK k \in YearsBack :
        /\ unit = 1 /\ left = DaySteps
        /\ tp = DaysTo(2100 - k) /\ date = Date(2100 - k, 1, 1)
        /\ weekday = (tp + 4) % 7 /\ yday = 1
    BY <1>6 DEF InitByDays
  <2>1. 2100 - k \in Int /\ left \in Nat
    BY SMT DEF CalendarAssumption
  <2>2. DateIn(date) /\ ToDays(date) \in Int /\ tp = ToDays(date)
    BY <2>1, NewYearsDay, DaysToAYear
  <2>3. date.y = 2100 - k
    BY DEF Date
  <2>4. NumberInYear(date) = 1
    BY <2>2, <2>3, SMT DEF NumberInYear
  <2>5. tp = (ToDays(date) * unit) + Ticks(time)
    BY <1>4, <2>2, SMT
  <2> QED BY <1>2, <1>4, <1>5, <2>1, <2>2, <2>4, <2>5 DEF Walked
<1>7. CASE InitByClock
  <2>1. unit \in Units /\ left = ClockSteps /\ tp = -92 * unit /\ date = Date(1969, 10, 1)
        /\ weekday = 3 /\ yday = 274
    BY <1>7 DEF InitByClock
  <2>2. ToDays(date) = -92
    <3>1. ToDays(Date(1969, 10, 1))
            = ((DaysBefore(MarchYearOf(1969, 10)) + DaysToMonth(MarchMonthOf(10))) + 1) - 719469
      BY DayNumber
    <3> QED BY <2>1, <3>1, SMT DEF DaysBefore, MarchYearOf, MarchMonthOf, DaysToMonth
  <2>3. ToDays(Date(1969, 1, 1)) = -365
    <3>1. ToDays(Date(1969, 1, 1))
            = ((DaysBefore(MarchYearOf(1969, 1)) + DaysToMonth(MarchMonthOf(1))) + 1) - 719469
      BY DayNumber
    <3> QED BY <3>1, SMT DEF DaysBefore, MarchYearOf, MarchMonthOf, DaysToMonth
  <2>4. DateIn(date) /\ date.y = 1969
    BY <2>1, SMT DEF DateIn, Date, DateOK, MonthOK, LastDay
  <2>5. NumberInYear(date) = 274
    BY <2>2, <2>3, <2>4, SMT DEF NumberInYear
  <2>6. left \in Nat
    BY <2>1 DEF CalendarAssumption
  <2>7. tp = (ToDays(date) * unit) + Ticks(time)
    BY <1>3, <1>4, <2>1, <2>2, SMT
  <2>8. weekday = (ToDays(date) + 4) % 7
    BY <2>1, <2>2, SMT
  <2> QED BY <1>2, <1>4, <1>5, <2>1, <2>4, <2>5, <2>6, <2>7, <2>8 DEF Walked
<1> QED BY <1>6, <1>7 DEF Init

\* The day after keeps what is kept of the date.
LEMMA NextDayKept ==
  ASSUME Walked, NextDay
  PROVE  /\ DateIn(date)' /\ ToDays(date)' = ToDays(date) + 1 /\ ToDays(date) \in Int
         /\ (weekday = (ToDays(date) + 4) % 7)'
         /\ (yday = NumberInYear(date))'
<1>1. date' = DayAfter(date) /\ weekday' = (weekday + 1) % 7
      /\ yday' = IF NewYear(date) THEN 1 ELSE yday + 1
  BY DEF NextDay
<1>2. DateIn(date) /\ weekday = (ToDays(date) + 4) % 7 /\ yday = NumberInYear(date)
  BY DEF Walked
<1>3. DateIn(DayAfter(date)) /\ ToDays(DayAfter(date)) = ToDays(date) + 1
  BY <1>2, TheDayAfter
<1>4. ToDays(date) \in Int
  BY <1>2, DaysAreInt
<1>5. NumberInYear(DayAfter(date)) = IF NewYear(date) THEN 1 ELSE NumberInYear(date) + 1
  BY <1>2, NumbersInYear
<1>6. \A z \in Int : ((((z + 4) % 7) + 1) % 7) = ((z + 1) + 4) % 7
  BY SMT
<1>7. DateIn(date)' /\ ToDays(date)' = ToDays(date) + 1
  BY <1>1, <1>3 DEF DateIn, ToDays, DateOK
<1>8. weekday' = ((ToDays(date) + 1) + 4) % 7
  BY <1>1, <1>2, <1>4, <1>6
<1>9. yday' = NumberInYear(DayAfter(date))
  BY <1>1, <1>2, <1>5
<1>10. NumberInYear(date)' = NumberInYear(DayAfter(date))
  BY <1>1 DEF NumberInYear
<1> QED BY <1>4, <1>7, <1>8, <1>9, <1>10

\* Both steps of a walk keep it in step.
LEMMA WalkGoesOn == ASSUME CalendarAssumption, Walked, [Next]_vars PROVE Walked'
<1>1. unit = 1 \/ unit \in Units
  BY DEF Walked
<1>2. unit \in Nat /\ unit > 0 /\ (ByDays <=> unit = 1) /\ (~ByDays => UnitOK(unit))
  BY <1>1, UnitIsOne
<1>3. ToDays(date) \in Int /\ DateIn(date) /\ left \in Nat
  BY DaysAreInt DEF Walked
<1>5. CASE UNCHANGED vars
  BY <1>5 DEF Walked, vars, DateIn, ClockOK, Ticks, Fractions, ByDays, NumberInYear, ToDays, DateOK
<1>6. CASE Next /\ ByDays
  <2>1. left' = left - 1 /\ left > 0 /\ unit' = unit /\ tp' = tp + 1 /\ NextDay /\ time' = time
    BY <1>6 DEF Next
  <2>2. /\ DateIn(date)' /\ ToDays(date)' = ToDays(date) + 1
        /\ (weekday = (ToDays(date) + 4) % 7)'
        /\ (yday = NumberInYear(date))'
    BY <2>1, NextDayKept
  <2>3. ClockOK(time)' /\ Ticks(time)' = Ticks(time) /\ Ticks(time) = 0
    BY <1>6, <2>1 DEF Walked, ClockOK, Ticks, Fractions
  <2>4. tp = (ToDays(date) * 1) + 0
    BY <1>2, <1>6, <2>3 DEF Walked
  <2>5. tp' = ((ToDays(date) + 1) * 1) + 0
    BY <1>3, <2>1, <2>4, SMT
  <2>6. left' \in Nat
    BY <1>3, <2>1, SMT
  <2>7. (tp = (ToDays(date) * unit) + Ticks(time))'
    BY <1>2, <1>6, <2>1, <2>2, <2>3, <2>5
  <2> QED BY <1>1, <2>1, <2>2, <2>3, <2>6, <2>7 DEF Walked
<1>7. CASE Next /\ ~ByDays
  <2>1. left' = left - 1 /\ left > 0 /\ unit' = unit /\ tp' = tp + StepTicks
        /\ time' = [Later(time) EXCEPT !.h = @ % 24]
        /\ IF Later(time).h < 24 THEN UNCHANGED <<date, weekday, yday>> ELSE NextDay
    BY <1>7 DEF Next
  <2>2. UnitOK(unit) /\ ClockOK(time)
    BY <1>2, <1>7 DEF Walked
  <2> DEFINE n == [Later(time) EXCEPT !.h = @ % 24]
  <2>3. /\ Later(time).h \in 1..25 /\ StepTicks \in Int /\ ClockOK(n)
        /\ Ticks(n) = (Ticks(time) + StepTicks) - (IF Later(time).h < 24 THEN 0 ELSE unit)
    BY <2>2, ClockGoesOn
  <2>4. Ticks(time) \in Int
    BY <2>2, TicksOfADay
  <2>5. ClockOK(time)' /\ Ticks(time)' = Ticks(n)
    BY <2>1, <2>3 DEF ClockOK, Ticks, Fractions
  <2>6. tp = (ToDays(date) * unit) + Ticks(time)
    BY DEF Walked
  <2>7. left' \in Nat
    BY <1>3, <2>1, SMT
  <2>8. ~ByDays'
    BY <1>7, <2>1 DEF ByDays
  <2> HIDE DEF n
  <2>9. CASE Later(time).h < 24
    <3>1. date' = date /\ weekday' = weekday /\ yday' = yday
      BY <2>1, <2>9
    <3>2. /\ DateIn(date)' /\ ToDays(date)' = ToDays(date)
          /\ (weekday = (ToDays(date) + 4) % 7)' /\ (yday = NumberInYear(date))'
      BY <3>1 DEF Walked, DateIn, ToDays, DateOK, NumberInYear
    <3>3. tp' = (ToDays(date) * unit) + Ticks(n)
      <4>1. ToDays(date) * unit \in Int
        BY <1>2, <1>3, SMT
      <4> QED BY <2>1, <2>3, <2>4, <2>6, <2>9, <4>1, SMT
    <3> QED BY <1>1, <2>1, <2>5, <2>7, <2>8, <3>2, <3>3 DEF Walked
  <2>10. CASE ~(Later(time).h < 24)
    <3>1. NextDay
      BY <2>1, <2>10
    <3>2. /\ DateIn(date)' /\ ToDays(date)' = ToDays(date) + 1
          /\ (weekday = (ToDays(date) + 4) % 7)' /\ (yday = NumberInYear(date))'
      BY <3>1, NextDayKept
    <3>3. tp' = ((ToDays(date) + 1) * unit) + Ticks(n)
      <4>1. ToDays(date) * unit \in Int /\ (ToDays(date) + 1) * unit = (ToDays(date) * unit) + unit
        BY <1>2, <1>3, SMT
      <4> QED BY <1>2, <2>1, <2>3, <2>4, <2>6, <2>10, <4>1, SMT
    <3> QED BY <1>1, <2>1, <2>5, <2>7, <2>8, <3>2, <3>3 DEF Walked
  <2> QED BY <2>9, <2>10
<1> QED BY <1>5, <1>6, <1>7

\* The days to_days finds, the weekday, the number in the year and the ticks of the
\* day are those of the date and the clock kept by hand, on every walk through all
\* years: the inductive invariant the properties of the walk follow from.
THEOREM WalkedAlways == Spec => []Walked
<1>1. Init => Walked
  BY CalendarAssumption, WalkBegins
<1>2. Walked /\ [Next]_vars => Walked'
  BY CalendarAssumption, WalkGoesOn
<1> QED BY <1>1, <1>2, PTL DEF Spec

\* The years around the date are years that date.h has: a year is a short.
WithinYears == In(date.y, -32767, 32766)

\* The days of those years are days that have a date.
LEMMA DaysOfThoseYears ==
  ASSUME NEW ymd, DateIn(ymd), In(ymd.y, -32767, 32766)
  PROVE  In(ToDays(ymd), -12687428, 11248372)
<1> DEFINE first == Date(-32767, 1, 1)
           next  == Date(32767, 1, 1)
<1>1. ymd.y \in Int /\ ymd.m \in 1..12 /\ ymd.d \in Int /\ ymd.d >= 1
  BY SMT DEF DateIn, DateOK, MonthOK
<1>2. ToDays(ymd) \in Int
  BY DaysAreInt
<1>3. DateIn(first) /\ DateIn(next)
  BY NewYearsDay
<1>4. ToDays(first) = -12687428
  <2>1. ToDays(Date(-32767, 1, 1))
          = ((DaysBefore(MarchYearOf(-32767, 1)) + DaysToMonth(MarchMonthOf(1))) + 1) - 719469
    BY DayNumber
  <2> QED BY <2>1, SMT DEF DaysBefore, MarchYearOf, MarchMonthOf, DaysToMonth
<1>5. ToDays(next) = 11248373
  <2>1. ToDays(Date(32767, 1, 1))
          = ((DaysBefore(MarchYearOf(32767, 1)) + DaysToMonth(MarchMonthOf(1))) + 1) - 719469
    BY DayNumber
  <2> QED BY <2>1, SMT DEF DaysBefore, MarchYearOf, MarchMonthOf, DaysToMonth
<1>6. ~Before(ymd, first) /\ Before(ymd, next)
  BY <1>1, SMT DEF Before, Date, In
<1> HIDE DEF first, next
<1>7. ~(ToDays(ymd) < ToDays(first)) /\ ToDays(ymd) < ToDays(next)
  BY <1>3, <1>6, DaysInOrder
<1> QED BY <1>2, <1>4, <1>5, <1>7, SMT DEF In

\* A day of those years has a date of the calendar, and the only one.
LEMMA DateOfADay ==
  ASSUME NEW n \in Int, InYears(n)
  PROVE  /\ DateIn(FromDays(n)) /\ ToDays(FromDays(n)) = n
         /\ \A ymd : DateIn(ymd) /\ ToDays(ymd) = n => ymd = FromDays(n)
<1>1. DateOK(FromDays(n)) /\ ToDays(FromDays(n)) = n
  BY DaysThereAndBack
<1>2. FromDays(n) \in [y : Int, m : Int, d : Int]
  <2>1. YearNo(n) \in Int /\ MonthNo(n) \in Int
    BY PartsOfDay DEF In
  <2>2. DayOf(DoyOf(n)) \in Int
    <3>1. DoyOf(n) \in Int /\ In(DoyOf(n), 0, 365)
      BY PartsOfDay DEF In
    <3> QED BY <3>1, MonthOfDay DEF In
  <2>3. FromDays(n) = [y |-> YearNo(n), m |-> MonthNo(n), d |-> DayOf(DoyOf(n))]
    BY DateOfDay
  <2> QED BY <2>1, <2>2, <2>3
<1>3. DateIn(FromDays(n))
  BY <1>1, <1>2 DEF DateIn
<1>4. \A ymd : DateIn(ymd) /\ ToDays(ymd) = n => ymd = FromDays(n)
  BY <1>1, <1>3, DaysInOrder
<1> QED BY <1>1, <1>3, <1>4

\* The fields of a date of the calendar.
LEMMA FieldsOfDate ==
  ASSUME NEW ymd, DateIn(ymd)
  PROVE  /\ ymd.y \in Int /\ ymd.m \in 1..12 /\ ymd.d \in 1..DaysIn(ymd.y, ymd.m)
         /\ DaysIn(ymd.y, ymd.m) \in 28..31
         /\ ymd = Date(ymd.y, ymd.m, ymd.d)
<1>1. ymd.y \in Int /\ ymd.m \in Int /\ ymd.d \in Int /\ ymd = Date(ymd.y, ymd.m, ymd.d)
  BY DEF DateIn, Date
<1>2. ymd.m \in 1..12 /\ ymd.d \in 1..DaysIn(ymd.y, ymd.m)
  BY <1>1, SameCalendar DEF DateIn, DateOK, MonthOK
<1>3. DaysIn(ymd.y, ymd.m) \in 28..31
  BY DEF DaysIn
<1> QED BY <1>1, <1>2, <1>3

\* The types of the walk, from the inductive invariant.
LEMMA WalkedTyped ==
  ASSUME CalendarAssumption, Walked, WithinYears
  PROVE  TypeOK
<1>1. tp \in Int /\ ToDays(date) \in Int /\ Floor(tp, unit) = ToDays(date)
  BY DayOfWalk
<1>2. DateOK(DateNow)
  <2>1. InYears(ToDays(date))
    BY <1>1, DaysOfThoseYears, SMT DEF Walked, WithinYears, InYears, In
  <2> QED BY <1>1, <2>1, DateOfADay DEF DateNow, DateIn
<1>3. weekday \in 0..6
  BY <1>1, SMT DEF Walked
<1>4. yday \in 1..DaysOfYear(date.y)
  BY NumbersInYear DEF Walked
<1> QED BY <1>1, <1>2, <1>3, <1>4 DEF TypeOK, Walked, DateIn

\* Weekday arithmetic on the field, for any number of days.
LEMMA WeekdaysAdd ==
  ASSUME NEW z \in Int, NEW n \in Int
  PROVE  /\ WeekdayPlus((z + 4) % 7, n) = ((z + n) + 4) % 7
         /\ WeekdayMinus(((z + n) + 4) % 7, (z + 4) % 7) = n % 7
<1> DEFINE wd == (z + 4) % 7
<1>1. wd \in 0..6 /\ ((z + n) + 4) % 7 = (wd + n) % 7
  BY SMT
<1> HIDE DEF wd
<1>2. WeekdayPlus(wd, n) = (wd + n) % 7
  BY <1>1, SMT DEF WeekdayPlus, Quot, Magnitude
<1>3. WeekdayMinus((wd + n) % 7, wd) = n % 7
  BY <1>1, SMT DEF WeekdayMinus
<1> QED BY <1>1, <1>2, <1>3 DEF wd

\* The dates of the walk, from the inductive invariant.
LEMMA WalkedDates ==
  ASSUME CalendarAssumption, Walked, WithinYears
  PROVE  DateInStep
<1> DEFINE z == ToDays(date)
<1>1. z \in Int /\ Floor(tp, unit) = z /\ DateIn(date) /\ weekday = (z + 4) % 7
  BY DayOfWalk DEF Walked
<1>2. InYears(z) /\ InYears(z + 365)
  BY <1>1, DaysOfThoseYears, SMT DEF WithinYears, InYears, In
<1>3. DateNow = date
  BY <1>1, <1>2, DateOfADay DEF DateNow
<1> DEFINE d == DayPlus(date.d, 1)
           last == DaysIn(date.y, date.m)
<1>4. /\ date.y \in Int /\ date.m \in 1..12 /\ date.d \in 1..last /\ last \in 28..31
  BY <1>1, FieldsOfDate
<1>5. d = date.d + 1 /\ d \in Int
  BY <1>4, SMT DEF DayPlus, Day
<1>6. DateOK([date EXCEPT !.d = d]) <=> date.d # last
  <2>1. [date EXCEPT !.d = d].y = date.y /\ [date EXCEPT !.d = d].m = date.m
        /\ [date EXCEPT !.d = d].d = d
    BY <1>1 DEF DateIn
  <2>2. LastDay(date.y, date.m) = last
    BY <1>4, SameCalendar
  <2>3. d \in 1..last <=> date.d # last
    <3> HIDE DEF last
    <3> QED BY <1>4, <1>5, SMT
  <2> QED BY <1>4, <2>1, <2>2, <2>3 DEF DateOK, MonthOK
<1>7. MonthDayOK(date.m, d) <=> d \in 1..DaysIn(2000, date.m)
  <2>1. LeapYear(2000)
    BY SMT DEF LeapYear
  <2>2. DaysIn(2000, date.m)
          = CASE date.m = 2 -> 29 [] date.m \in {4, 6, 9, 11} -> 30 [] OTHER -> 31
    <3>1. CASE date.m = 2
      BY <2>1, <3>1 DEF DaysIn
    <3>2. CASE date.m # 2
      BY <3>2 DEF DaysIn
    <3> QED BY <3>1, <3>2
  <2> QED BY <1>4, <2>2 DEF MonthDayOK, MonthOK
<1>8. /\ WeekdayFromDays(z) = weekday
      /\ WeekdayFromDays(z + 1) = NextWeekday(weekday)
      /\ WeekdayFromDays(z - 1) = PreviousWeekday(weekday)
  BY <1>1, WeekdaysFollow
<1>9. \A n \in {-8, 13} :
        /\ WeekdayFromDays(z + n) = WeekdayPlus(weekday, n)
        /\ WeekdayMinus(WeekdayPlus(weekday, n), weekday) = n % 7
  <2> SUFFICES ASSUME NEW n \in Int
               PROVE  /\ WeekdayFromDays(z + n) = WeekdayPlus(weekday, n)
                      /\ WeekdayMinus(WeekdayPlus(weekday, n), weekday) = n % 7
    OBVIOUS
  <2>1. WeekdayFromDays(z + n) = ((z + n) + 4) % 7
    BY <1>1, WeekdaysFollow
  <2> QED BY <1>1, <2>1, WeekdaysAdd
<1>10. \A n \in {1, 28, 31, 365} :
         Before(date, FromDays(z + n)) /\ ~Before(FromDays(z + n), date)
  <2> SUFFICES ASSUME NEW n \in {1, 28, 31, 365}
               PROVE  Before(date, FromDays(z + n)) /\ ~Before(FromDays(z + n), date)
    OBVIOUS
  <2>1. n \in Int /\ z + n \in Int /\ z < z + n /\ InYears(z + n)
    BY <1>1, <1>2, SMT DEF InYears, In
  <2>2. DateIn(FromDays(z + n)) /\ ToDays(FromDays(z + n)) = z + n
    BY <2>1, DateOfADay
  <2>3. ~(z + n < z)
    BY <1>1, <2>1, SMT
  <2> QED BY <1>1, <2>1, <2>2, <2>3, DaysInOrder
<1> HIDE DEF z, d, last
<1> QED BY <1>1, <1>3, <1>6, <1>7, <1>8, <1>9, <1>10 DEF DateInStep, z, d, last

\* The rounded hours of the walk, from what rounding does.
LEMMA WalkedHours == ASSUME CalendarAssumption, Walked PROVE RoundsToNearest
<1> SUFFICES ASSUME ~ByDays
             PROVE  LET size == unit \div 24
                        lo == Floor(tp, size)
                        hi == Ceil(tp, size)
                        r  == Round(tp, size)
                    IN  /\ lo * size <= tp /\ tp < (lo + 1) * size
                        /\ hi * size >= tp /\ tp > (hi - 1) * size
                        /\ r \in {lo, hi}
                        /\ 2 * Magnitude(tp - (r * size)) <= size
                        /\ 2 * Magnitude(tp - (r * size)) = size => r % 2 = 0
  BY DEF RoundsToNearest
<1>1. tp \in Int /\ UnitOK(unit)
  BY DayOfWalk, UnitIsOne DEF Walked
<1>2. unit \div 24 \in Int /\ unit \div 24 > 0
  BY <1>1, UnitParts
<1> HIDE DEF ByDays
<1> QED BY <1>1, <1>2, RoundsNextTo

-------------------------------------------------------------------------------
(***************************************************************************)
(* Months: a number of months is added to a count of months from year 0.   *)
(***************************************************************************)
YearAfter(y, m, n) == y + (((m - 1) + n) \div 12)
MonthAfter(m, n) == (((m - 1) + n) % 12) + 1
YearFits(y)      == In(y, -32768, 32767)
MonthSet(r, y, m) == [r EXCEPT !.y = y, !.m = m]

Months == [y : Int, m : Int]
\* Another year and month in a month make that month.
LEMMA MonthReplaced ==
  ASSUME NEW a \in Int, NEW b \in Int, NEW c \in Int, NEW d \in Int
  PROVE  MonthSet([y |-> a, m |-> b], c, d) = [y |-> c, m |-> d]
<1> DEFINE r == [y |-> a, m |-> b]
           p == [r EXCEPT !.y = c]
           q == [p EXCEPT !.m = d]
<1>1. r \in Months /\ r.m = b /\ r.y = a
  BY DEF Months
<1> HIDE DEF r
<1>2. p \in Months /\ p.y = c /\ p.m = b
  BY <1>1 DEF Months
<1> HIDE DEF p
<1>3. q \in Months /\ q.y = c /\ q.m = d
  BY <1>2 DEF Months
<1>4. MonthSet(r, c, d) = q
  BY DEF MonthSet, p
<1> HIDE DEF q
<1>5. q = [y |-> c, m |-> d]
  BY <1>3 DEF Months
<1> QED BY <1>4, <1>5 DEF r

\* The sum of a month and a number of months is the month that many months after.
LEMMA MonthsAdded ==
  ASSUME NEW r, NEW n \in Int, r.y \in Int, r.m \in 1..12,
         YearFits(YearAfter(r.y, r.m, n))
  PROVE  /\ PlusMonths(r, n) = MonthSet(r, YearAfter(r.y, r.m, n), MonthAfter(r.m, n))
         /\ MonthPlus(r.m, n) = MonthAfter(r.m, n)
         /\ MonthAfter(r.m, n) \in 1..12 /\ YearAfter(r.y, r.m, n) \in Int
<1> DEFINE m == r.m
           y == r.y
           k == (m - 1) + n
           q == Quot(IF k >= 0 THEN k ELSE k - 11, 12)
<1>1. m \in Int /\ y \in Int /\ k \in Int
  BY SMT
<1>2. q = k \div 12
  <2> HIDE DEF k
  <2> QED BY <1>1, SMT DEF Quot, Magnitude
<1>3. k - (q * 12) = k % 12 /\ q \in Int /\ k % 12 \in 0..11
  <2> HIDE DEF k, q
  <2> QED BY <1>1, <1>2, SMT
<1>4. Month((k - (q * 12)) + 1) = (k % 12) + 1 /\ (k % 12) + 1 \in 1..12
  <2> HIDE DEF k, q
  <2> QED BY <1>1, <1>3, SMT DEF Month
<1>5. YearPlus(y, q) = y + q /\ y + q = YearAfter(y, m, n)
  <2>1. y + q = YearAfter(y, m, n)
    BY <1>2 DEF YearAfter
  <2>2. YearFits(y + q)
    BY <2>1
  <2>3. Year(y + q) = y + q
    <3> HIDE DEF k, q
    <3> QED BY <1>1, <1>3, <2>2, FieldsHold DEF YearFits
  <2> QED BY <2>1, <2>3 DEF YearPlus
<1>6. PlusMonths(r, n) = [r EXCEPT !.y = YearPlus(y, q), !.m = Month((k - (q * 12)) + 1)]
  BY DEF PlusMonths
<1>7. MonthPlus(m, n) = Month((k - (q * 12)) + 1)
  BY DEF MonthPlus
<1>8. MonthAfter(m, n) = (k % 12) + 1
  BY DEF MonthAfter
<1>9. y + q \in Int
  <2> HIDE DEF q
  <2> QED BY <1>1, <1>3, SMT
<1> HIDE DEF k, q
<1>10. PlusMonths(r, n) = MonthSet(r, YearAfter(r.y, r.m, n), MonthAfter(r.m, n))
  <2>1. YearPlus(y, q) = YearAfter(y, m, n) /\ Month((k - (q * 12)) + 1) = MonthAfter(m, n)
    BY <1>4, <1>5, <1>8
  <2> QED BY <1>6, <2>1 DEF MonthSet
<1>11. MonthPlus(r.m, n) = MonthAfter(r.m, n)
  BY <1>4, <1>7, <1>8
<1>12. MonthAfter(r.m, n) \in 1..12 /\ YearAfter(r.y, r.m, n) \in Int
  <2>1. MonthAfter(r.m, n) \in 1..12
    BY <1>4, <1>8
  <2>2. YearAfter(r.y, r.m, n) \in Int
    BY <1>5, <1>9
  <2> QED BY <2>1, <2>2
<1> QED BY <1>10, <1>11, <1>12

\* The months that are added stay in years that date.h has.
MonthsHold == In(date.y, -32766 + MaxMonths, 32766 - MaxMonths)

\* The months around the date, from the sums of months.
LEMMA WalkedMonths ==
  ASSUME CalendarAssumption, Walked, MonthsHold
  PROVE  MonthsAddUp
<1> SUFFICES ASSUME NEW n \in -MaxMonths..MaxMonths
             PROVE
      LET sum == PlusMonths(date, n)
          ym  == YearMonth(date.y, date.m)
      IN  /\ MonthsBetween(PlusMonths(ym, n), ym) = n
          /\ PlusMonths(PlusMonths(ym, n), -n) = ym
          /\ PlusMonths(ym, n + 1)
               = LET p == PlusMonths(ym, n)
                 IN  YearMonth(IF p.m = 12 THEN p.y + 1 ELSE p.y, NextMonth(p.m))
          /\ PlusMonths(ym, 12 * n) = PlusYears(ym, n)
          /\ MonthPlus(date.m, n) = sum.m /\ PreviousMonth(NextMonth(sum.m)) = sum.m
          /\ MonthMinus(sum.m, date.m) = n % 12
          /\ DateOK(sum) <=> date.d <= DaysIn(sum.y, sum.m)
          /\ MonthBefore(ym, sum) <=> n > 0
  BY DEF MonthsAddUp
<1> DEFINE y == date.y
           m == date.m
           ym == YearMonth(y, m)
           y2 == YearAfter(y, m, n)
           m2 == MonthAfter(m, n)
<1>1. MaxMonths \in Nat /\ n \in Int /\ -MaxMonths <= n /\ n <= MaxMonths
  BY SMT DEF CalendarAssumption
<1>2. /\ DateIn(date) /\ y \in Int /\ m \in 1..12 /\ date.d \in 1..DaysIn(y, m)
      /\ DaysIn(y, m) \in 28..31
  BY FieldsOfDate DEF Walked
<1>3. ym.y = y /\ ym.m = m /\ ym = [y |-> y, m |-> m]
  BY DEF YearMonth
<1>4. -32766 + MaxMonths <= y /\ y <= 32766 - MaxMonths
  BY DEF MonthsHold, In
<1> HIDE DEF y, m, ym
<1>5. \A k \in Int : -MaxMonths <= k /\ k <= MaxMonths + 1
        => YearFits(YearAfter(y, m, k))
  BY <1>1, <1>2, <1>4, SMT DEF YearAfter, YearFits, In
<1>6. YearFits(YearAfter(y, m, 12 * n)) /\ YearAfter(y, m, 12 * n) = y + n
      /\ MonthAfter(m, 12 * n) = m
  BY <1>1, <1>2, <1>4, SMT DEF YearAfter, YearFits, In, MonthAfter
<1>7. /\ PlusMonths(ym, n) = [y |-> y2, m |-> m2] /\ m2 \in 1..12 /\ y2 \in Int
      /\ MonthPlus(m, n) = m2
  <2>1. YearFits(YearAfter(ym.y, ym.m, n)) /\ ym.y \in Int /\ ym.m \in 1..12
    BY <1>1, <1>2, <1>3, <1>5
  <2>2. PlusMonths(ym, n)
          = MonthSet(ym, YearAfter(ym.y, ym.m, n), MonthAfter(ym.m, n))
    BY <1>1, <2>1, MonthsAdded
  <2>3. /\ MonthAfter(ym.m, n) \in 1..12 /\ YearAfter(ym.y, ym.m, n) \in Int
        /\ MonthPlus(ym.m, n) = MonthAfter(ym.m, n)
    BY <1>1, <2>1, MonthsAdded
  <2> HIDE DEF y2, m2
  <2>4. MonthSet(ym, y2, m2) = [y |-> y2, m |-> m2]
    <3>1. m \in Int /\ m2 \in Int /\ y2 \in Int
      BY <1>1, <1>2, SMT DEF y2, m2, YearAfter, MonthAfter
    <3> QED BY <1>2, <1>3, <3>1, MonthReplaced
  <2> QED BY <1>3, <2>2, <2>3, <2>4 DEF y2, m2
<1>8. PlusMonths(date, n) = MonthSet(date, y2, m2)
  <2>1. YearFits(YearAfter(date.y, date.m, n)) /\ date.y \in Int /\ date.m \in 1..12
    BY <1>1, <1>2, <1>5 DEF y, m
  <2> QED BY <1>1, <2>1, MonthsAdded DEF y, m
<1> DEFINE sum == PlusMonths(date, n)
<1>9. /\ sum.y = y2 /\ sum.m = m2 /\ sum.d = date.d
      /\ sum \in [y : Int, m : Int, d : Int]
  <2> HIDE DEF y2, m2
  <2>1. sum = [date EXCEPT !.y = y2, !.m = m2]
    BY <1>8 DEF MonthSet
  <2>2. date \in [y : Int, m : Int, d : Int]
    BY <1>2 DEF DateIn
  <2>3. m2 \in Int
    BY <1>7
  <2> HIDE DEF sum
  <2> QED BY <1>7, <2>1, <2>2, <2>3
<1>10. 12 * (y2 - y) + (m2 - m) = n
  BY <1>1, <1>2, SMT DEF YearAfter, MonthAfter
<1>11. YearAfter(y2, m2, -n) = y /\ MonthAfter(m2, -n) = m
  <2>1. (m2 - 1) - n = (m - 1) - (12 * (y2 - y))
    BY <1>1, <1>2, <1>7, <1>10, SMT
  <2>2. ((m - 1) - (12 * (y2 - y))) \div 12 = y - y2 /\ ((m - 1) - (12 * (y2 - y))) % 12 = m - 1
    <3> HIDE DEF y2, m2
    <3> QED BY <1>2, <1>7, SMT
  <2>3. (m2 - 1) + (-n) = (m2 - 1) - n
    BY <1>1, <1>7, SMT
  <2> HIDE DEF y2, m2
  <2> QED BY <1>2, <1>7, <2>1, <2>2, <2>3, SMT DEF YearAfter, MonthAfter
<1>12. PlusMonths(PlusMonths(ym, n), -n) = ym
  <2> DEFINE p == PlusMonths(ym, n)
             k == -n
  <2>1. p.y = y2 /\ p.m = m2 /\ p = [y |-> y2, m |-> m2]
    BY <1>7
  <2>2. k \in Int /\ YearAfter(y2, m2, k) = y /\ MonthAfter(m2, k) = m
    BY <1>1, <1>11
  <2>3. YearFits(y)
    BY <1>1, <1>2, <1>4, SMT DEF YearFits, In
  <2> HIDE DEF p, k, y2, m2
  <2>4. YearFits(YearAfter(p.y, p.m, k)) /\ p.y \in Int /\ p.m \in 1..12
    BY <1>7, <2>1, <2>2, <2>3
  <2>5. PlusMonths(p, k) = MonthSet(p, YearAfter(p.y, p.m, k), MonthAfter(p.m, k))
    BY <2>2, <2>4, MonthsAdded
  <2>6. MonthSet(p, y, m) = [y |-> y, m |-> m]
    <3>1. m \in Int /\ m2 \in Int
      BY <1>2, <1>7, SMT
    <3> QED BY <1>2, <1>7, <2>1, <3>1, MonthReplaced
  <2>7. PlusMonths(p, k) = ym
    BY <1>3, <2>1, <2>2, <2>5, <2>6
  <2> QED BY <2>7 DEF p, k
<1>13. NextMonth(m2) = (IF m2 = 12 THEN 1 ELSE m2 + 1) /\ PreviousMonth(NextMonth(m2)) = m2
  <2> HIDE DEF m2
  <2> QED BY <1>7, SMT DEF NextMonth, PreviousMonth, Month
<1>14. PlusMonths(ym, n + 1) = [y |-> (IF m2 = 12 THEN y2 + 1 ELSE y2), m |-> NextMonth(m2)]
  <2> DEFINE k == n + 1
  <2>1. k \in Int /\ -MaxMonths <= k /\ k <= MaxMonths + 1
    BY <1>1, SMT
  <2>2. YearAfter(y, m, k) = (IF m2 = 12 THEN y2 + 1 ELSE y2)
        /\ MonthAfter(m, k) = (IF m2 = 12 THEN 1 ELSE m2 + 1)
    BY <1>1, <1>2, SMT DEF YearAfter, MonthAfter
  <2> HIDE DEF k, y2, m2
  <2>3. YearFits(YearAfter(ym.y, ym.m, k)) /\ ym.y \in Int /\ ym.m \in 1..12
    BY <1>2, <1>3, <1>5, <2>1
  <2>4. PlusMonths(ym, k) = MonthSet(ym, YearAfter(ym.y, ym.m, k), MonthAfter(ym.m, k))
    BY <2>1, <2>3, MonthsAdded
  <2>5. MonthSet(ym, YearAfter(y, m, k), MonthAfter(m, k))
          = [y |-> YearAfter(y, m, k), m |-> MonthAfter(m, k)]
    <3>1. m \in Int /\ YearAfter(y, m, k) \in Int /\ MonthAfter(m, k) \in Int
      BY <1>2, <2>1, SMT DEF YearAfter, MonthAfter
    <3> QED BY <1>2, <1>3, <3>1, MonthReplaced
  <2>6. PlusMonths(ym, k) = [y |-> (IF m2 = 12 THEN y2 + 1 ELSE y2), m |-> NextMonth(m2)]
    BY <1>3, <1>13, <2>2, <2>4, <2>5
  <2> QED BY <2>6 DEF k
<1>15. PlusMonths(ym, 12 * n) = PlusYears(ym, n)
  <2> DEFINE k == 12 * n
             t == y + n
  <2>1. k \in Int /\ t \in Int
    BY <1>1, <1>2, SMT
  <2>2. YearFits(t) /\ YearAfter(y, m, k) = t /\ MonthAfter(m, k) = m
    BY <1>6
  <2>3. PlusYears(ym, n) = [ym EXCEPT !.y = YearPlus(y, n)] /\ YearPlus(y, n) = Year(t)
    BY <1>3 DEF PlusYears, YearPlus
  <2> HIDE DEF k, t
  <2>4. YearFits(YearAfter(ym.y, ym.m, k)) /\ ym.y \in Int /\ ym.m \in 1..12
    BY <1>2, <1>3, <2>2
  <2>5. PlusMonths(ym, k) = MonthSet(ym, YearAfter(ym.y, ym.m, k), MonthAfter(ym.m, k))
    BY <2>1, <2>4, MonthsAdded
  <2>6. Year(t) = t
    BY <2>1, <2>2, FieldsHold DEF YearFits
  <2>7. MonthSet(ym, t, m) = [ym EXCEPT !.y = t]
    <3>1. m \in Int
      BY <1>2, SMT
    <3>2. MonthSet(ym, t, m) = [y |-> t, m |-> m]
      BY <1>2, <1>3, <2>1, <3>1, MonthReplaced
    <3>3. ym \in Months /\ ym.m = m
      BY <1>2, <1>3, <3>1 DEF Months
    <3>4. [ym EXCEPT !.y = t] = [y |-> t, m |-> m]
      BY <2>1, <3>1, <3>3 DEF Months
    <3> QED BY <3>2, <3>4
  <2>8. PlusMonths(ym, k) = PlusYears(ym, n)
    BY <1>3, <2>2, <2>3, <2>5, <2>6, <2>7
  <2> QED BY <2>8 DEF k
<1>16. MonthMinus(m2, m) = n % 12
  BY <1>1, <1>2, SMT DEF MonthMinus, MonthAfter
<1>17. DateOK(sum) <=> date.d <= DaysIn(sum.y, sum.m)
  <2>1. LastDay(sum.y, sum.m) = DaysIn(sum.y, sum.m)
    BY <1>7, <1>9, SameCalendar
  <2>2. DaysIn(sum.y, sum.m) \in Int /\ date.d \in Int /\ date.d >= 1
    BY <1>2, SMT DEF DaysIn
  <2> HIDE DEF y2, m2, sum
  <2> QED BY <1>7, <1>9, <2>1, <2>2, SMT DEF DateOK, MonthOK
<1>18. MonthBefore(ym, sum) <=> n > 0
  <2>1. MonthBefore(ym, sum) <=> (y < y2 \/ (y = y2 /\ m < m2))
    BY <1>3, <1>9 DEF MonthBefore
  <2> HIDE DEF y2, m2, sum
  <2> QED BY <1>1, <1>2, <1>7, <1>10, <2>1, SMT
<1>19. MonthsBetween(PlusMonths(ym, n), ym) = n
  BY <1>3, <1>7, <1>10 DEF MonthsBetween
<1> HIDE DEF y2, m2, sum
<1> QED BY <1>7, <1>9, <1>12, <1>13, <1>14, <1>15, <1>16, <1>17, <1>18, <1>19
        DEF YearMonth, sum, ym, y, m

-------------------------------------------------------------------------------
(***************************************************************************)
(* Weekdays of a month.                                                    *)
(***************************************************************************)
\* The days of a month follow each other.
LEMMA DaysOfMonth ==
  ASSUME NEW y \in Int, NEW m \in Int, NEW d \in Int
  PROVE  /\ ToDays(Date(y, m, 1)) \in Int
         /\ ToDays(Date(y, m, d)) = ToDays(Date(y, m, 1)) + (d - 1)
<1> DEFINE b == DaysBefore(MarchYearOf(y, m)) + DaysToMonth(MarchMonthOf(m))
<1>1. b \in Int
  BY SMT DEF DaysBefore, MarchYearOf, DaysToMonth, MarchMonthOf
<1>2. ToDays(Date(y, m, d)) = (b + d) - 719469 /\ ToDays(Date(y, m, 1)) = (b + 1) - 719469
  BY DayNumber
<1> HIDE DEF b
<1> QED BY <1>1, <1>2, SMT

\* The first month after a month of a year.
YearNext(y, m) == IF m = 12 THEN y + 1 ELSE y
MonthNext(m)   == IF m = 12 THEN 1 ELSE m + 1

\* The first day of the next month comes after the last day of a month.
LEMMA MonthFollows ==
  ASSUME NEW y \in Int, NEW m \in 1..12
  PROVE  /\ YearNext(y, m) \in Int /\ MonthNext(m) \in 1..12 /\ MonthNext(m) # m
         /\ ToDays(Date(YearNext(y, m), MonthNext(m), 1)) = ToDays(Date(y, m, 1)) + DaysIn(y, m)
<1> DEFINE D == DaysIn(y, m)
           last == Date(y, m, D)
<1>1. D \in 28..31 /\ (m = 12 => D = 31)
  BY SMT DEF DaysIn
<1>2. m \in Int /\ D \in Int
  BY <1>1, SMT
<1>3. /\ ToDays(Date(y, m, 1)) \in Int
      /\ ToDays(last) = ToDays(Date(y, m, 1)) + (D - 1)
  <2> HIDE DEF D
  <2> QED BY <1>2, DaysOfMonth
<1>4. DateIn(last)
  <2>1. LastDay(y, m) = D
    BY <1>2, SameCalendar
  <2>2. D \in 1..LastDay(y, m)
    BY <1>1, <2>1, SMT
  <2> HIDE DEF D
  <2> QED BY <1>2, <2>2 DEF DateIn, Date, DateOK, MonthOK
<1>5. ToDays(DayAfter(last)) = ToDays(last) + 1
  <2> HIDE DEF last
  <2> QED BY <1>4, TheDayAfter
<1>6. DayAfter(last) = Date(YearNext(y, m), MonthNext(m), 1)
  <2>1. last.y = y /\ last.m = m /\ last.d = D
    BY DEF Date
  <2> HIDE DEF last
  <2>2. CASE m = 12
    BY <1>1, <2>1, <2>2 DEF DayAfter, NewYear, YearNext, MonthNext
  <2>3. CASE m # 12
    BY <2>1, <2>3 DEF DayAfter, NewYear, YearNext, MonthNext
  <2> QED BY <2>2, <2>3
<1>7. YearNext(y, m) \in Int /\ MonthNext(m) \in 1..12 /\ MonthNext(m) # m
  BY SMT DEF YearNext, MonthNext
<1> HIDE DEF D, last
<1>8. ToDays(DayAfter(last)) = ToDays(Date(y, m, 1)) + D
  BY <1>2, <1>3, <1>5, SMT
<1> QED BY <1>6, <1>7, <1>8 DEF D

\* The weekdays of the month of the date, from the days of the month.
LEMMA WalkedWeekdays ==
  ASSUME CalendarAssumption, Walked, WithinYears
  PROVE  NthWeekdays
<1> SUFFICES ASSUME ByDays
             PROVE
      LET z   == Floor(tp, unit)
          nth == NthFromDays(z)
          lst == LastToDays(Last(date.y, date.m, weekday))
      IN  /\ nth = Nth(date.y, date.m, weekday, ((date.d - 1) \div 7) + 1)
          /\ NthToDays(nth) = z /\ NthOK(nth)
          /\ NthOK([nth EXCEPT !.index = 5])
               <=> FromDays(NthToDays([nth EXCEPT !.index = 5])).m = date.m
          /\ lst >= z /\ lst - z = 7 * ((DaysIn(date.y, date.m) - date.d) \div 7)
  BY DEF NthWeekdays
<1> DEFINE z == ToDays(date)
           y == date.y
           m == date.m
           d == date.d
           D == DaysIn(y, m)
           F == ToDays(Date(y, m, 1))
           r == (d - 1) % 7
           q == (d - 1) \div 7
<1>1. z \in Int /\ Floor(tp, unit) = z /\ DateIn(date) /\ weekday = (z + 4) % 7
  BY DayOfWalk DEF Walked
<1>2. In(z, -12687428, 11248372)
  BY <1>1, DaysOfThoseYears DEF WithinYears
<1>3. /\ y \in Int /\ m \in 1..12 /\ d \in 1..D /\ D \in 28..31
      /\ date = Date(y, m, d) /\ m \in Int /\ d \in Int /\ D \in Int
  <2>1. /\ y \in Int /\ m \in 1..12 /\ d \in 1..D /\ D \in 28..31 /\ date = Date(y, m, d)
    BY <1>1, FieldsOfDate
  <2> HIDE DEF y, m, d, D
  <2> QED BY <2>1, SMT
<1>4. FromDays(z) = date
  <2>1. InYears(z)
    BY <1>1, <1>2, SMT DEF InYears, In
  <2> QED BY <1>1, <2>1, DateOfADay
<1> HIDE DEF y, m, d, D, z
<1>5. F \in Int /\ z = F + (d - 1)
  BY <1>3, DaysOfMonth DEF z
<1>6. LastDay(y, m) = D
  BY <1>3, SameCalendar DEF D
<1>7. r \in 0..6 /\ q \in 0..4 /\ d - 1 = (7 * q) + r
  BY <1>3, SMT
<1>8. \A n \in Int : WeekdayFromDays(n) = (n + 4) % 7
  BY WeekdaysFollow
<1> HIDE DEF F
<1>9. WeekdayMinus(weekday, WeekdayFromDays(F)) = r
  <2> DEFINE k == d - 1
  <2>1. k \in Int /\ weekday = ((F + k) + 4) % 7 /\ r = k % 7
    BY <1>1, <1>3, <1>5
  <2> HIDE DEF k, r
  <2> QED BY <1>5, <1>8, <2>1, WeekdaysAdd
<1> HIDE DEF r, q
<1> DEFINE nth == NthFromDays(z)
<1>10. nth = Nth(y, m, weekday, q + 1)
  <2>1. WeekdayFromDays(z) = weekday
    BY <1>1, <1>8
  <2> QED BY <1>4, <2>1 DEF NthFromDays, y, m, d, q
<1>11. \A i \in Int :
         /\ NthToDays(Nth(y, m, weekday, i)) = (F + r) + ((i - 1) * 7)
         /\ NthOK(Nth(y, m, weekday, i))
              <=> (i >= 1 /\ (i <= 4 \/ (r + ((i - 1) * 7)) + 1 <= D))
  <2> SUFFICES ASSUME NEW i \in Int
               PROVE  /\ NthToDays(Nth(y, m, weekday, i)) = (F + r) + ((i - 1) * 7)
                      /\ NthOK(Nth(y, m, weekday, i))
                           <=> (i >= 1 /\ (i <= 4 \/ (r + ((i - 1) * 7)) + 1 <= D))
    OBVIOUS
  <2> DEFINE p == Nth(y, m, weekday, i)
  <2>1. p.y = y /\ p.m = m /\ p.wd = weekday /\ p.index = i
    BY DEF Nth
  <2>2. weekday \in 0..6
    BY <1>1, SMT
  <2> HIDE DEF p
  <2>3. NthToDays(p) = (F + r) + ((i - 1) * 7)
    BY <1>9, <2>1 DEF NthToDays, F
  <2>4. NthOK(p) <=> (i >= 1 /\ (i <= 4 \/ (r + ((i - 1) * 7)) + 1 <= D))
    BY <1>3, <1>6, <1>9, <2>1, <2>2 DEF NthOK, MonthOK, WeekdayOK, WeekdayOf, F
  <2> QED BY <2>3, <2>4 DEF p
<1>12. NthToDays(nth) = z /\ NthOK(nth)
  <2> DEFINE i == q + 1
  <2>1. i \in Int /\ (F + r) + ((i - 1) * 7) = z
        /\ (i >= 1 /\ (i <= 4 \/ (r + ((i - 1) * 7)) + 1 <= D))
    BY <1>3, <1>5, <1>7, SMT
  <2>2. nth = Nth(y, m, weekday, i)
    BY <1>10
  <2> HIDE DEF i, nth
  <2> QED BY <1>11, <2>1, <2>2
<1> DEFINE fifth == [nth EXCEPT !.index = 5]
           k == r + 28
<1>13. fifth = Nth(y, m, weekday, 5)
  BY <1>10 DEF Nth
<1>14. NthToDays(fifth) = F + k /\ (NthOK(fifth) <=> k + 1 <= D) /\ k \in 28..34
  <2>1. NthToDays(Nth(y, m, weekday, 5)) = (F + r) + ((5 - 1) * 7)
        /\ (NthOK(Nth(y, m, weekday, 5)) <=> (r + ((5 - 1) * 7)) + 1 <= D)
    BY <1>11, SMT
  <2> HIDE DEF fifth, nth
  <2> QED BY <1>3, <1>5, <1>7, <1>13, <2>1, SMT
<1>15. F + k \in Int /\ InYears(F + k)
  BY <1>1, <1>2, <1>3, <1>5, <1>14, SMT DEF InYears, In
<1>16. NthOK(fifth) <=> FromDays(NthToDays(fifth)).m = m
  <2> HIDE DEF fifth
  <2>1. CASE k + 1 <= D
    <3> DEFINE e == k + 1
               day == Date(y, m, e)
    <3>1. e \in 1..D /\ e \in Int /\ F + (e - 1) = F + k
      BY <1>3, <1>5, <1>14, <2>1, SMT
    <3> HIDE DEF e
    <3>2. day.y = y /\ day.m = m /\ day.d = e
      BY DEF Date
    <3>3. DateIn(day)
      BY <1>3, <1>6, <3>1, <3>2 DEF DateIn, DateOK, MonthOK, Date
    <3>4. ToDays(day) = F + k
      BY <1>3, <3>1, DaysOfMonth DEF F
    <3> HIDE DEF day, k
    <3>5. FromDays(F + k) = day
      BY <1>15, <3>3, <3>4, DateOfADay
    <3> QED BY <1>14, <2>1, <3>2, <3>5 DEF k
  <2>2. CASE ~(k + 1 <= D)
    <3> DEFINE e == (k - D) + 1
               yn == YearNext(y, m)
               mn == MonthNext(m)
               day == Date(yn, mn, e)
    <3>1. e \in 1..28 /\ e \in Int /\ (F + D) + (e - 1) = F + k
      BY <1>3, <1>5, <1>14, <2>2, SMT
    <3>2. yn \in Int /\ mn \in 1..12 /\ mn # m /\ ToDays(Date(yn, mn, 1)) = F + D
      BY <1>3, MonthFollows DEF F, D
    <3> HIDE DEF e, yn, mn
    <3>3. day.y = yn /\ day.m = mn /\ day.d = e
      BY DEF Date
    <3>4. DateIn(day)
      <4>1. e \in 1..LastDay(yn, mn) /\ mn \in Int
        BY <3>1, <3>2, SMT DEF LastDay
      <4> QED BY <3>1, <3>2, <3>3, <4>1 DEF DateIn, DateOK, MonthOK, Date
    <3>5. ToDays(day) = F + k
      <4>1. mn \in Int
        BY <3>2, SMT
      <4> QED BY <3>1, <3>2, <4>1, DaysOfMonth
    <3> HIDE DEF day, k
    <3>6. FromDays(F + k) = day
      BY <1>15, <3>4, <3>5, DateOfADay
    <3> QED BY <1>14, <2>2, <3>2, <3>3, <3>6 DEF k
  <2> QED BY <2>1, <2>2
<1> DEFINE lst == LastToDays(Last(y, m, weekday))
           rest == D - d
<1>17. lst = (z + rest) - (rest % 7) /\ rest \in Int /\ rest >= 0
  <2> DEFINE p == Last(y, m, weekday)
  <2>1. p.y = y /\ p.m = m /\ p.wd = weekday
    BY DEF Last
  <2> HIDE DEF p
  <2>2. LastDays(y, m) = z + rest
    <3>1. ToDays(Date(y, m, D)) = F + (D - 1)
      BY <1>3, DaysOfMonth DEF F
    <3>2. F + (D - 1) = z + rest
      BY <1>1, <1>3, <1>5, SMT
    <3> QED BY <1>6, <3>1, <3>2 DEF LastDays
  <2>3. rest \in Int /\ rest >= 0 /\ z + rest \in Int
    BY <1>1, <1>3, SMT
  <2> HIDE DEF rest
  <2>4. WeekdayMinus(WeekdayFromDays(z + rest), weekday) = rest % 7
    BY <1>1, <1>8, <2>3, WeekdaysAdd
  <2> QED BY <2>1, <2>2, <2>3, <2>4 DEF LastToDays, p
<1>18. lst >= z /\ lst - z = 7 * (rest \div 7)
  <2> HIDE DEF rest, lst
  <2> QED BY <1>1, <1>17, SMT
<1> HIDE DEF nth, fifth, k, lst, rest
<1> QED BY <1>1, <1>10, <1>12, <1>16, <1>18 DEF nth, fifth, lst, rest, y, m, d, D, q, z

-------------------------------------------------------------------------------
(***************************************************************************)
(* Weeks.  Day 0 was a Thursday, so the Thursday of the week of a day is   *)
(* the multiple of 7 among the days around it, and the first Monday of a   *)
(* year by ISO 8601 is found from the last multiple of 7 before the year.  *)
(***************************************************************************)
January1st(y) == ToDays(Date(y, 1, 1))
YearBeforeFits(y) == In(y, -32767, 32767)
ThursdayOf(z) == z + (3 - ((z + 3) % 7))

\* The first Monday of a year by ISO 8601, from January 1st.
LEMMA IsoStarts ==
  ASSUME NEW y \in Int, YearBeforeFits(y)
  PROVE  /\ IsoStart(y) = (7 * ((January1st(y) - 1) \div 7)) + 4
         /\ January1st(y) \in Int
<1> DEFINE j == January1st(y)
           x == y - 1
           l == j - 1
<1>1. x \in Int /\ YearFits(x)
  BY SMT DEF In, YearFits, YearBeforeFits
<1>2. YearPlus(y, -1) = x
  <2>1. YearPlus(y, -1) = Year(x)
    <3>1. y + (-1) = y - 1
      BY SMT
    <3> QED BY <3>1 DEF YearPlus
  <2> HIDE DEF x
  <2> QED BY <1>1, <2>1, FieldsHold DEF YearFits
<1>3. j \in Int /\ January1st(x) \in Int
  <2> HIDE DEF x
  <2> QED BY <1>1, NewYearsDay DEF January1st
<1>4. LastDays(x, 12) = l
  <2>1. LastDay(x, 12) = 31 /\ YearNext(x, 12) = x + 1 /\ MonthNext(12) = 1 /\ DaysIn(x, 12) = 31
    BY DEF LastDay, YearNext, MonthNext, DaysIn
  <2>2. x + 1 = y
    BY SMT
  <2> HIDE DEF x
  <2>3. ToDays(Date(YearNext(x, 12), MonthNext(12), 1)) = ToDays(Date(x, 12, 1)) + DaysIn(x, 12)
    <3>1. \A m \in 1..12 :
            ToDays(Date(YearNext(x, m), MonthNext(m), 1)) = ToDays(Date(x, m, 1)) + DaysIn(x, m)
      BY <1>1, MonthFollows
    <3>2. 12 \in 1..12
      BY SMT
    <3> QED BY <3>1, <3>2
  <2>4. j = ToDays(Date(x, 12, 1)) + 31
    BY <2>1, <2>2, <2>3 DEF January1st
  <2>5. ToDays(Date(x, 12, 1)) \in Int /\ ToDays(Date(x, 12, 31)) = ToDays(Date(x, 12, 1)) + (31 - 1)
    <3>1. \A m \in Int, d \in Int : /\ ToDays(Date(x, m, 1)) \in Int
                                   /\ ToDays(Date(x, m, d)) = ToDays(Date(x, m, 1)) + (d - 1)
      BY <1>1, DaysOfMonth
    <3>2. 12 \in Int /\ 31 \in Int
      BY SMT
    <3> DEFINE m == 12
               d == 31
    <3>3. m \in Int /\ d \in Int
      BY <3>2
    <3> HIDE DEF m, d
    <3>4. ToDays(Date(x, m, 1)) \in Int /\ ToDays(Date(x, m, d)) = ToDays(Date(x, m, 1)) + (d - 1)
      BY <3>1, <3>3
    <3> QED BY <3>4 DEF m, d
  <2>6. ToDays(Date(x, 12, 31)) = l
    BY <2>4, <2>5, SMT
  <2> QED BY <2>1, <2>6 DEF LastDays
<1>5. LastToDays(Last(x, 12, Thu)) = l - WeekdayMinus(WeekdayFromDays(l), Thu)
  <2> DEFINE p == Last(x, 12, Thu)
  <2>1. p.y = x /\ p.m = 12 /\ p.wd = Thu
    BY DEF Last
  <2> HIDE DEF p, l, x
  <2> QED BY <1>4, <2>1 DEF LastToDays, p
<1>6. l \in Int
  BY <1>3, SMT
<1>7. WeekdayFromDays(l) = (l + 4) % 7
  <2> HIDE DEF l
  <2> QED BY <1>6, WeekdaysFollow
<1>8. IsoStart(y) = (l - WeekdayMinus(WeekdayFromDays(l), Thu)) + WeekdayMinus(Mon, Thu)
  BY <1>2, <1>5 DEF IsoStart
<1> HIDE DEF l, j
<1>9. WeekdayMinus((l + 4) % 7, 4) = l % 7 /\ WeekdayMinus(1, 4) = 4
  BY <1>6, SMT DEF WeekdayMinus
<1>10. IsoStart(y) = (7 * (l \div 7)) + 4
  BY <1>6, <1>7, <1>8, <1>9, SMT DEF Mon, Thu
<1> QED BY <1>3, <1>10 DEF l, j

\* A day is before the first week of a year if its Thursday is before the year.
LEMMA WeeksCounted ==
  ASSUME NEW z \in Int, NEW j \in Int
  PROVE  LET start == (7 * ((j - 1) \div 7)) + 4
         IN  /\ z < start <=> ThursdayOf(z) < j
             /\ z >= start => Quot(z - start, 7) = (ThursdayOf(z) - j) \div 7
<1> DEFINE b == (j - 1) \div 7
           e == (j - 1) % 7
           a == (z + 3) \div 7
           t == (z + 3) % 7
<1>1. b \in Int /\ e \in 0..6 /\ j = ((7 * b) + e) + 1
  BY SMT
<1>2. a \in Int /\ t \in 0..6 /\ z = ((7 * a) + t) - 3
  BY SMT
<1>3. ThursdayOf(z) = z + (3 - t)
  BY DEF ThursdayOf
<1> HIDE DEF b, e, a, t
<1>4. ThursdayOf(z) = 7 * a
  BY <1>2, <1>3, SMT
<1>5. z < (7 * b) + 4 <=> ThursdayOf(z) < j
  BY <1>1, <1>2, <1>4, SMT
<1>6. ASSUME z >= (7 * b) + 4
      PROVE  Quot(z - ((7 * b) + 4), 7) = (ThursdayOf(z) - j) \div 7
  <2> DEFINE k == (a - b) - 1
  <2>1. z - ((7 * b) + 4) = (7 * k) + t /\ k \in Int /\ (7 * k) + t >= 0
    BY <1>1, <1>2, <1>6, SMT
  <2>2. ThursdayOf(z) - j = (7 * k) + (6 - e)
    BY <1>1, <1>2, <1>4, SMT
  <2> HIDE DEF k
  <2>3. Quot((7 * k) + t, 7) = k
    BY <1>2, <2>1, SMT DEF Quot, Magnitude
  <2>4. ((7 * k) + (6 - e)) \div 7 = k
    BY <1>1, <2>1, SMT
  <2> QED BY <2>1, <2>2, <2>3, <2>4
<1> QED BY <1>5, <1>6 DEF b

\* Weeks that begin on Sunday or Monday.
LEMMA WeeksFromSunday ==
  ASSUME NEW ymd, DateIn(ymd), NEW start \in {0, 1}
  PROVE  WeekFrom(ymd, start)
           = ((NumberInYear(ymd) + 6) - (((ToDays(ymd) + 4) - start) % 7)) \div 7
<1> DEFINE z == ToDays(ymd)
           j == January1st(ymd.y)
           s == WeekdayMinus(start, (j + 4) % 7)
           p == Nth(ymd.y, 1, start, 1)
<1>1. z \in Int /\ j \in Int /\ NumberInYear(ymd) = (z - j) + 1
  BY DaysAreInt, NewYearsDay DEF DateIn, NumberInYear, January1st
<1>2. z >= j
  <2>1. NumberInYear(ymd) \in 1..DaysOfYear(ymd.y) /\ DaysOfYear(ymd.y) \in Int
    BY NumbersInYear DEF DaysOfYear
  <2> HIDE DEF z, j
  <2> QED BY <1>1, <2>1, SMT
<1>3. NthToDays(p) = j + s
  <2>1. p.y = ymd.y /\ p.m = 1 /\ p.wd = start /\ p.index = 1
    BY DEF Nth
  <2> HIDE DEF p
  <2>2. WeekdayFromDays(j) = (j + 4) % 7
    <3> HIDE DEF j
    <3> QED BY <1>1, WeekdaysFollow
  <2>3. NthToDays(p) = (j + s) + ((1 - 1) * 7)
    BY <2>1, <2>2 DEF NthToDays, January1st
  <2>4. s \in Int
    <3> HIDE DEF j
    <3> QED BY <1>1, SMT DEF WeekdayMinus
  <2> HIDE DEF j, s
  <2> QED BY <1>1, <2>3, <2>4, SMT
<1>4. WeekFrom(ymd, start) = IF z < NthToDays(p) THEN 0 ELSE Quot(z - NthToDays(p), 7) + 1
  BY DEF WeekFrom
<1> HIDE DEF z, j, p
<1>5. s \in 0..6 /\ ((j + s) + 4) % 7 = start
  BY <1>1, SMT DEF WeekdayMinus
<1> HIDE DEF s
<1> DEFINE a == ((z + 4) - start) \div 7
           w == ((z + 4) - start) % 7
           c == ((j + s) + 4) \div 7
<1>6. a \in Int /\ w \in 0..6 /\ z = (((7 * a) + w) + start) - 4
  BY <1>1, SMT
<1>7. c \in Int /\ j + s = ((7 * c) + start) - 4
  BY <1>1, <1>5, SMT
<1> HIDE DEF a, c
<1>8. (NumberInYear(ymd) + 6) - w = (7 * ((a - c) + 1)) + s
  <2> HIDE DEF w
  <2> QED BY <1>1, <1>5, <1>6, <1>7, SMT
<1>9. ((7 * ((a - c) + 1)) + s) \div 7 = (a - c) + 1
  BY <1>5, <1>6, <1>7, SMT
<1>10. ((NumberInYear(ymd) + 6) - w) \div 7 = (a - c) + 1
  BY <1>8, <1>9
<1> HIDE DEF w
<1>11. CASE z < j + s
  <2>1. (a - c) + 1 = 0
    BY <1>1, <1>2, <1>5, <1>6, <1>7, <1>11, SMT
  <2> QED BY <1>3, <1>4, <1>10, <1>11, <2>1 DEF w, z
<1>12. CASE ~(z < j + s)
  <2>1. z - (j + s) = (7 * (a - c)) + w /\ (7 * (a - c)) + w >= 0
    BY <1>1, <1>5, <1>6, <1>7, <1>12, SMT
  <2>2. Quot((7 * (a - c)) + w, 7) = a - c
    BY <1>6, <1>7, <2>1, SMT DEF Quot, Magnitude
  <2> QED BY <1>3, <1>4, <1>10, <1>12, <2>1, <2>2 DEF w, z
<1> QED BY <1>11, <1>12

\* A year is over before a later one begins.
LEMMA YearsInOrder ==
  \A p, q \in Int : p < q => January1st(p) + DaysOfYear(p) <= January1st(q)
<1> SUFFICES ASSUME NEW p \in Int, NEW q \in Int, p < q
             PROVE  January1st(p) + DaysOfYear(p) <= January1st(q)
  OBVIOUS
<1> DEFINE a == Date(p + 1, 1, 1)
           b == Date(q, 1, 1)
<1>1. DateIn(a) /\ DateIn(b)
  <2>1. p + 1 \in Int
    BY SMT
  <2> QED BY <2>1, NewYearsDay
<1>2. ToDays(a) = January1st(p) + DaysOfYear(p) /\ ToDays(a) \in Int /\ ToDays(b) \in Int
  BY <1>1, NewYearsDay, DaysAreInt DEF January1st
<1>3. ~Before(b, a)
  BY SMT DEF Before, Date
<1> HIDE DEF a, b
<1>4. ~(ToDays(b) < ToDays(a))
  BY <1>1, <1>3, DaysInOrder
<1> QED BY <1>2, <1>4, SMT DEF January1st, b

\* The years around the date, and those before them, are years that date.h has.
WeeksHold == In(date.y, -32766, 32766)

\* The weeks of the date, from the Thursday of its week.
LEMMA WalkedWeeks ==
  ASSUME CalendarAssumption, Walked, WeeksHold
  PROVE  WeeksInStep
<1> DEFINE z == ToDays(date)
           y == date.y
           T == ThursdayOf(z)
           thursday == yday + (4 - IsoWeekday(weekday))
           year == CASE thursday < 1             -> y - 1
                     [] thursday > DaysOfYear(y) -> y + 1
                     [] OTHER                    -> y
           day  == CASE thursday < 1             -> thursday + DaysOfYear(y - 1)
                     [] thursday > DaysOfYear(y) -> thursday - DaysOfYear(y)
                     [] OTHER                    -> thursday
           R == IsoYear(date)
<1>1. z \in Int /\ DateIn(date) /\ weekday = (z + 4) % 7 /\ yday = NumberInYear(date)
  BY DayOfWalk DEF Walked
<1>2. y \in Int /\ -32766 <= y /\ y <= 32766
  BY <1>1, SMT DEF DateIn, WeeksHold, In
<1>3. \A k \in Int : /\ January1st(k) \in Int /\ DaysOfYear(k) \in {365, 366}
                     /\ January1st(k + 1) = January1st(k) + DaysOfYear(k)
  BY NewYearsDay DEF January1st, DaysOfYear
<1> DEFINE j == January1st(y)
           n == DaysOfYear(y)
           l == DaysOfYear(y - 1)
<1>4. /\ j \in Int /\ n \in {365, 366} /\ l \in {365, 366}
      /\ January1st(y + 1) = j + n /\ January1st(y - 1) = j - l
  <2> DEFINE x == y - 1
  <2>1. x \in Int /\ x + 1 = y
    BY <1>2, SMT
  <2>2. January1st(x + 1) = January1st(x) + DaysOfYear(x) /\ January1st(x) \in Int
        /\ DaysOfYear(x) \in {365, 366}
    <3> HIDE DEF x
    <3> QED BY <1>3, <2>1
  <2>3. j = January1st(x) + l /\ l \in {365, 366} /\ January1st(x) \in Int
    BY <2>1, <2>2
  <2>4. j \in Int /\ n \in {365, 366} /\ January1st(y + 1) = j + n
    BY <1>2, <1>3
  <2> HIDE DEF j, l, x
  <2>5. January1st(x) = j - l
    BY <2>3, <2>4, SMT
  <2> QED BY <2>3, <2>4, <2>5 DEF x
<1>5. yday = (z - j) + 1 /\ j <= z /\ z < j + n
  <2>1. yday \in 1..n
    BY <1>1, NumbersInYear
  <2>2. yday = (z - j) + 1
    BY <1>1 DEF NumberInYear, January1st
  <2> HIDE DEF z, j, n
  <2> QED BY <1>1, <1>4, <2>1, <2>2, SMT
<1> HIDE DEF j, n, l, z, y
<1>6. T \in Int /\ z - 3 <= T /\ T <= z + 3
  BY <1>1, SMT DEF ThursdayOf
<1>7. thursday = (T - j) + 1
  BY <1>1, <1>4, <1>5, SMT DEF IsoWeekday, ThursdayOf
<1> HIDE DEF T
<1>8. /\ T < j => thursday < 1 /\ year = y - 1 /\ day = ((T - j) + 1) + l
      /\ j <= T /\ T < j + n => year = y /\ day = (T - j) + 1
      /\ j + n <= T => ~(thursday < 1) /\ year = y + 1 /\ day = ((T - j) + 1) - n
  <2> HIDE DEF thursday
  <2>1. CASE T < j
    <3>1. thursday < 1
      BY <1>4, <1>6, <1>7, <2>1, SMT
    <3>2. ~(thursday > n) /\ ~(j <= T) /\ ~(j + n <= T)
      BY <1>4, <1>6, <1>7, <2>1, SMT
    <3> QED BY <1>7, <3>1, <3>2 DEF n, l
  <2>2. CASE j <= T /\ T < j + n
    <3>1. ~(thursday < 1) /\ ~(thursday > n) /\ ~(T < j) /\ ~(j + n <= T)
      BY <1>4, <1>6, <1>7, <2>2, SMT
    <3> QED BY <1>7, <3>1 DEF n, l
  <2>3. CASE j + n <= T
    <3>1. ~(thursday < 1) /\ thursday > n /\ ~(T < j) /\ ~(T < j + n)
      BY <1>4, <1>6, <1>7, <2>3, SMT
    <3> QED BY <1>7, <3>1 DEF n, l
  <2> QED BY <1>4, <1>6, <2>1, <2>2, <2>3, SMT
<1> HIDE DEF thursday, year, day
\* The year date.h begins with is that of the day three days on.
<1> DEFINE b == FromDays(z + 3).y
<1>9. (z + 3 < j + n => b = y) /\ (j + n <= z + 3 => b = y + 1)
  <2> DEFINE k == z + 3
             f == FromDays(k)
  <2>1. k \in Int /\ InYears(k)
    <3>1. In(z, -12687428, 11248372)
      <4>1. In(date.y, -32767, 32766)
        BY <1>2, SMT DEF In, y
      <4> QED BY <1>1, <4>1, DaysOfThoseYears DEF z
    <3> QED BY <1>1, <3>1, SMT DEF InYears, In
  <2> HIDE DEF k
  <2>2. DateIn(f) /\ ToDays(f) = k
    BY <2>1, DateOfADay
  <2>3. NumberInYear(f) \in 1..DaysOfYear(f.y) /\ f.y \in Int
        /\ NumberInYear(f) = (k - January1st(f.y)) + 1
    BY <2>2, NumbersInYear DEF NumberInYear, January1st, DateIn
  <2> HIDE DEF f
  <2>4. January1st(f.y) <= k /\ k < January1st(f.y) + DaysOfYear(f.y)
    <3>1. January1st(f.y) \in Int /\ DaysOfYear(f.y) \in {365, 366}
      BY <1>3, <2>3
    <3> QED BY <2>1, <2>3, <3>1, SMT
  <2>5. \A p, q \in Int : p < q => January1st(p) + DaysOfYear(p) <= January1st(q)
    BY YearsInOrder
  <2>6. January1st(y) = j /\ DaysOfYear(y) = n /\ January1st(y + 1) = j + n
        /\ DaysOfYear(y + 1) \in {365, 366} /\ y + 1 \in Int
        /\ January1st(f.y) \in Int /\ DaysOfYear(f.y) \in {365, 366}
    <3>1. y + 1 \in Int
      BY <1>2, SMT
    <3> QED BY <1>3, <1>4, <2>3, <3>1 DEF j, n
  <2>7. k = z + 3
    BY DEF k
  <2>8. CASE k < j + n
    <3>1. ~(f.y < y) /\ ~(y < f.y)
      <4>1. f.y < y => January1st(f.y) + DaysOfYear(f.y) <= j
        BY <1>2, <2>3, <2>5, <2>6
      <4>2. y < f.y => j + n <= January1st(f.y)
        BY <1>2, <2>3, <2>5, <2>6
      <4> QED BY <1>1, <1>4, <1>5, <2>1, <2>4, <2>6, <2>7, <2>8, <4>1, <4>2, SMT
    <3>2. f.y = y
      BY <1>2, <2>3, <3>1, SMT
    <3> QED BY <1>1, <1>4, <2>7, <2>8, <3>2, SMT DEF f
  <2>9. CASE j + n <= k
    <3> DEFINE x == y + 1
    <3>1. ~(f.y < x) /\ ~(x < f.y)
      <4>1. f.y < x => January1st(f.y) + DaysOfYear(f.y) <= j + n
        BY <2>3, <2>5, <2>6
      <4>2. x < f.y => (j + n) + DaysOfYear(x) <= January1st(f.y)
        BY <2>3, <2>5, <2>6
      <4> HIDE DEF x
      <4>3. DaysOfYear(x) \in {365, 366}
        BY <2>6 DEF x
      <4> QED BY <1>1, <1>4, <1>5, <2>1, <2>4, <2>6, <2>7, <2>9, <4>1, <4>2, <4>3, SMT
    <3>2. f.y = x
      BY <1>2, <2>3, <3>1, SMT
    <3> QED BY <1>1, <1>4, <2>7, <2>9, <3>2, SMT DEF f
  <2> QED BY <1>1, <1>4, <2>7, <2>8, <2>9, SMT
<1> HIDE DEF b
<1>10. b \in Int /\ In(b, -32766, 32767)
  BY <1>1, <1>2, <1>4, <1>9, SMT DEF In, YearFits, YearBeforeFits
\* A year that has the day, and the weeks counted from its first Monday.
<1>11. \A k \in Int : YearBeforeFits(k) =>
         /\ IsoStart(k) \in Int
         /\ z < IsoStart(k) <=> T < January1st(k)
         /\ z >= IsoStart(k) => Quot(z - IsoStart(k), 7) = (T - January1st(k)) \div 7
  <2> SUFFICES ASSUME NEW k \in Int, YearBeforeFits(k)
               PROVE  /\ IsoStart(k) \in Int
                      /\ z < IsoStart(k) <=> T < January1st(k)
                      /\ z >= IsoStart(k) => Quot(z - IsoStart(k), 7) = (T - January1st(k)) \div 7
    OBVIOUS
  <2> DEFINE f == January1st(k)
  <2>1. IsoStart(k) = (7 * ((f - 1) \div 7)) + 4 /\ f \in Int
    BY IsoStarts
  <2> HIDE DEF f
  <2>2. (7 * ((f - 1) \div 7)) + 4 \in Int
    BY <2>1, SMT
  <2> DEFINE start == (7 * ((f - 1) \div 7)) + 4
  <2>3. /\ z < start <=> ThursdayOf(z) < f
        /\ z >= start => Quot(z - start, 7) = (ThursdayOf(z) - f) \div 7
    BY <1>1, <2>1, WeeksCounted, SMT
  <2> HIDE DEF start
  <2> QED BY <2>1, <2>2, <2>3 DEF f, T, start
<1>12. R = IF z < IsoStart(b) THEN YearPlus(b, -1) ELSE b
  BY DEF IsoYear, z, b
<1>13. YearPlus(b, -1) = b - 1
  <2> DEFINE x == b - 1
  <2>1. x \in Int /\ YearFits(x) /\ b + (-1) = x
    BY <1>10, SMT DEF In, YearFits, YearBeforeFits
  <2>2. YearPlus(b, -1) = Year(x)
    BY <2>1 DEF YearPlus
  <2> HIDE DEF x
  <2>3. Year(x) = x
    BY <2>1, FieldsHold DEF YearFits
  <2> QED BY <2>2, <2>3 DEF x
<1>14. R = IF T < January1st(b) THEN b - 1 ELSE b
  <2>1. YearBeforeFits(b)
    BY <1>10, SMT DEF In, YearFits, YearBeforeFits
  <2> QED BY <1>10, <1>11, <1>12, <1>13, <2>1
<1>15. R = year /\ day = (T - January1st(R)) + 1 /\ January1st(R) <= T
  <2>1. January1st(y) = j /\ January1st(y + 1) = j + n /\ January1st(y - 1) = j - l
    BY <1>4 DEF j
  <2>2. (y + 1) - 1 = y
    BY <1>2, SMT
  <2>3. CASE z + 3 < j + n
    <3>1. b = y /\ R = IF T < j THEN y - 1 ELSE y
      BY <1>9, <1>14, <2>1, <2>3
    <3>2. CASE T < j
      <4>1. R = year /\ January1st(R) = j - l /\ day = ((T - j) + 1) + l
        BY <1>8, <2>1, <3>1, <3>2
      <4>2. ((T - j) + 1) + l = (T - (j - l)) + 1 /\ j - l <= T
        BY <1>1, <1>4, <1>5, <1>6, SMT
      <4> QED BY <4>1, <4>2
    <3>3. CASE ~(T < j)
      <4>1. j <= T /\ T < j + n
        BY <1>1, <1>4, <1>6, <2>3, <3>3, SMT
      <4> QED BY <1>8, <2>1, <3>1, <3>3, <4>1
    <3> QED BY <3>2, <3>3
  <2>4. CASE j + n <= z + 3
    <3>1. b = y + 1 /\ R = IF T < j + n THEN y ELSE y + 1
      BY <1>9, <1>14, <2>1, <2>2, <2>4
    <3>2. CASE T < j + n
      <4>1. j <= T
        BY <1>1, <1>4, <1>6, <2>4, SMT
      <4> QED BY <1>8, <2>1, <3>1, <3>2, <4>1
    <3>3. CASE ~(T < j + n)
      <4>1. j + n <= T
        BY <1>4, <1>6, <3>3, SMT
      <4>2. R = year /\ January1st(R) = j + n /\ day = ((T - j) + 1) - n
        BY <1>8, <2>1, <3>1, <3>3, <4>1
      <4>3. ((T - j) + 1) - n = (T - (j + n)) + 1
        BY <1>4, <1>6, SMT
      <4> QED BY <4>1, <4>2, <4>3
    <3> QED BY <3>2, <3>3
  <2> QED BY <1>1, <1>4, <2>3, <2>4, SMT
<1>16. R \in Int /\ YearBeforeFits(R) /\ January1st(R) \in Int
  <2>1. R \in Int /\ YearBeforeFits(R)
    BY <1>3, <1>6, <1>10, <1>14, SMT DEF In, YearFits, YearBeforeFits
  <2> HIDE DEF R
  <2> QED BY <1>3, <2>1
<1>17. IsoWeek(date) = ((day - 1) \div 7) + 1
  <2>1. IsoWeek(date) = Quot(z - IsoStart(R), 7) + 1
    BY DEF IsoWeek, z
  <2> HIDE DEF R
  <2>2. ~(z < IsoStart(R)) /\ IsoStart(R) \in Int
    BY <1>6, <1>11, <1>15, <1>16, SMT
  <2>3. z >= IsoStart(R)
    BY <1>1, <2>2, SMT
  <2>4. Quot(z - IsoStart(R), 7) = (T - January1st(R)) \div 7
    BY <1>11, <1>16, <2>3
  <2>5. day - 1 = T - January1st(R)
    BY <1>6, <1>15, <1>16, SMT
  <2> QED BY <2>1, <2>4, <2>5
<1>18. DayOfYear(date) = yday
  BY <1>1 DEF DayOfYear, NumberInYear
<1>19. WeekU(date) = ((yday + 6) - weekday) \div 7
  <2> DEFINE s == Sun
  <2>1. s \in {0, 1} /\ ((z + 4) - s) % 7 = weekday
    BY <1>1, SMT DEF Sun
  <2> HIDE DEF s
  <2>2. WeekFrom(date, s) = ((NumberInYear(date) + 6) - (((ToDays(date) + 4) - s) % 7)) \div 7
    BY <1>1, <2>1, WeeksFromSunday
  <2> QED BY <1>1, <2>1, <2>2 DEF WeekU, s, z
<1>20. WeekW(date) = ((yday + 6) - ((weekday + 6) % 7)) \div 7
  <2> DEFINE s == Mon
  <2>1. s \in {0, 1} /\ ((z + 4) - s) % 7 = (weekday + 6) % 7
    BY <1>1, SMT DEF Mon
  <2> HIDE DEF s
  <2>2. WeekFrom(date, s) = ((NumberInYear(date) + 6) - (((ToDays(date) + 4) - s) % 7)) \div 7
    BY <1>1, <2>1, WeeksFromSunday
  <2> QED BY <1>1, <2>1, <2>2 DEF WeekW, s, z
<1> HIDE DEF R, T
<1> QED BY <1>15, <1>17, <1>18, <1>19, <1>20 DEF WeeksInStep, R, year, day, thursday, y

-------------------------------------------------------------------------------
(***************************************************************************)
(* The time of the day.                                                    *)
(***************************************************************************)
\* A quotient is the number of whole sizes in a number.
Whole(n, size, q, r) ==
  /\ n \in Int /\ size \in Int /\ size > 0 /\ q \in Int /\ q >= 0
  /\ r \in Int /\ 0 <= r /\ r < size
  /\ Magnitude(n) = (q * size) + r

\* The truncated quotient of such a number has its sign.
LEMMA QuotOf ==
  ASSUME NEW n, NEW size, NEW q, NEW r, Whole(n, size, q, r)
  PROVE  /\ Quot(n, size) = (IF n < 0 THEN -q ELSE q)
         /\ Quot(n, size) \in Int /\ Magnitude(Quot(n, size)) = q
<1>0. /\ n \in Int /\ size \in Int /\ size > 0 /\ q \in Int /\ q >= 0
      /\ r \in Int /\ 0 <= r /\ r < size
      /\ Magnitude(n) = (q * size) + r
  BY DEF Whole
<1> DEFINE a == Magnitude(n)
           k == a \div size
<1>1. a \in Int /\ a >= 0
  BY <1>0, SMT DEF Magnitude
<1>2. k = q
  <2> HIDE DEF a
  <2>1. k \in Int /\ k * size <= a /\ a < (k * size) + size
    BY <1>0, <1>1, SMT
  <2> HIDE DEF k
  <2>2. ~(k < q)
    <3> SUFFICES ASSUME k < q PROVE FALSE
      OBVIOUS
    <3>1. (q - (k + 1)) * size >= 0 /\ (q - (k + 1)) * size = (q * size) - ((k * size) + size)
      BY <1>0, <2>1, SMT
    <3>2. q * size \in Int /\ k * size \in Int
      BY <1>0, <2>1, SMT
    <3> QED BY <1>0, <1>1, <2>1, <3>1, <3>2, SMT DEF a
  <2>3. ~(q < k)
    <3> SUFFICES ASSUME q < k PROVE FALSE
      OBVIOUS
    <3>1. (k - (q + 1)) * size >= 0 /\ (k - (q + 1)) * size = (k * size) - ((q * size) + size)
      BY <1>0, <2>1, SMT
    <3>2. q * size \in Int /\ k * size \in Int
      BY <1>0, <2>1, SMT
    <3> QED BY <1>0, <1>1, <2>1, <3>1, <3>2, SMT DEF a
  <2> QED BY <1>0, <2>1, <2>2, <2>3, SMT
<1>3. Magnitude(size) = size
  BY <1>0, SMT DEF Magnitude
<1>4. Quot(n, size) = IF (n < 0) = (size < 0) THEN k ELSE -k
  BY <1>3 DEF Quot
<1>5. Quot(n, size) = IF n < 0 THEN -q ELSE q
  <2> HIDE DEF k
  <2>1. ~(size < 0)
    BY <1>0, SMT
  <2>2. CASE n < 0
    BY <1>2, <1>4, <2>1, <2>2
  <2>3. CASE ~(n < 0)
    BY <1>2, <1>4, <2>1, <2>3
  <2> QED BY <2>2, <2>3
<1> HIDE DEF k, a
<1> QED BY <1>0, <1>5, SMT DEF Magnitude

\* A time of the day in the 24 hour form.
TimeSplit(h, m, s, f, neg) == [h |-> h, m |-> m, s |-> s, sub |-> f, mode |-> "24h", neg |-> neg]
Times == [h : Int, m : Int, s : Int, sub : Int, mode : {"24h", "am", "pm"}, neg : BOOLEAN]

\* A time is what its fields are.
LEMMA SplitIs ==
  ASSUME NEW t \in Times, t.mode = "24h"
  PROVE  t = TimeSplit(t.h, t.m, t.s, t.sub, t.neg)
BY DEF Times, TimeSplit

\* The fields of a split time.
LEMMA SplitFields ==
  ASSUME NEW h \in Int, NEW m \in Int, NEW s \in Int, NEW f \in Int, NEW neg \in BOOLEAN
  PROVE  LET t == TimeSplit(h, m, s, f, neg)
         IN  /\ t \in Times
             /\ t.h = h /\ t.m = m /\ t.s = s /\ t.sub = f /\ t.mode = "24h" /\ t.neg = neg
BY DEF Times, TimeSplit

\* What the constructors of time_of_day start from: a number of hours, without a sign.
LEMMA BaseFields ==
  ASSUME NEW x \in Int, NEW neg \in BOOLEAN
  PROVE  LET b == TimeBase(x, neg)
         IN  /\ b \in Times
             /\ b.h = Magnitude(x) /\ b.m = 0 /\ b.s = 0 /\ b.sub = 0 /\ b.mode = "24h" /\ b.neg = neg
<1>1. Magnitude(x) \in Int
  BY SMT DEF Magnitude
<1> QED BY <1>1 DEF TimeBase, Times

\* The minutes and the seconds of a time of the day.
MinutesOf(h, m)    == (60 * h) + m
SecondsOf(h, m, s) == ((3600 * h) + (60 * m)) + s

\* The split of a number of hours.
LEMMA HourSplit ==
  ASSUME NEW n \in Int, NEW h \in Int, Magnitude(n) = h
  PROVE  HourTime(n) = TimeSplit(h, 0, 0, 0, n < 0)
BY DEF HourTime, TimeBase, TimeSplit

\* The split of a number of minutes.
LEMMA MinuteSplit ==
  ASSUME NEW n \in Int, NEW h \in Int, NEW m \in Int, h >= 0, m \in 0..59,
         Magnitude(n) = MinutesOf(h, m)
  PROVE  MinuteTime(n) = TimeSplit(h, m, 0, 0, n < 0)
<1> DEFINE q == Trunc(n, 60)
           base == TimeBase(q, n < 0)
           a == Magnitude(n) - (60 * base.h)
           t == [base EXCEPT !.m = a]
<1>1. q \in Int /\ Magnitude(q) = h
  <2> DEFINE k == 60
  <2>1. Whole(n, k, h, m)
    BY SMT DEF Whole, MinutesOf
  <2> HIDE DEF k
  <2>2. Magnitude(Quot(n, k)) = h /\ Quot(n, k) \in Int
    BY <2>1, QuotOf
  <2> QED BY <2>2 DEF Trunc, k
<1>2. (n < 0) \in BOOLEAN
  OBVIOUS
<1> HIDE DEF q
<1>3. /\ base \in Times /\ base.h = h /\ base.s = 0 /\ base.sub = 0 /\ base.mode = "24h"
      /\ base.neg = (n < 0)
  BY <1>1, <1>2, BaseFields
<1> HIDE DEF base
<1>4. a = m /\ a \in Int
  BY <1>3, SMT DEF MinutesOf
<1> HIDE DEF a
<1>5. t \in Times /\ t.h = h /\ t.m = m /\ t.s = 0 /\ t.sub = 0 /\ t.mode = "24h" /\ t.neg = (n < 0)
  BY <1>3, <1>4 DEF Times
<1>6. MinuteTime(n) = t
  BY DEF MinuteTime, base, q, a
<1> HIDE DEF t
<1> QED BY <1>5, <1>6, SplitIs

\* The split of a number of seconds.
LEMMA SecondSplit ==
  ASSUME NEW n \in Int, NEW h \in Int, NEW m \in Int, NEW s \in Int,
         h >= 0, m \in 0..59, s \in 0..59,
         Magnitude(n) = SecondsOf(h, m, s)
  PROVE  SecondTime(n) = TimeSplit(h, m, s, 0, n < 0)
<1> DEFINE q == Trunc(n, 3600)
           base == TimeBase(q, n < 0)
           w == Magnitude(n) - (3600 * base.h)
           a == Trunc(w, 60)
           b == w - (60 * a)
           t == [base EXCEPT !.m = a]
           u == [t EXCEPT !.s = b]
<1>1. q \in Int /\ Magnitude(q) = h
  <2> DEFINE r == (60 * m) + s
             k == 3600
  <2>1. Whole(n, k, h, r)
    BY SMT DEF Whole, SecondsOf
  <2> HIDE DEF r, k
  <2>2. Magnitude(Quot(n, k)) = h /\ Quot(n, k) \in Int
    BY <2>1, QuotOf
  <2> QED BY <2>2 DEF Trunc, k
<1>2. (n < 0) \in BOOLEAN
  OBVIOUS
<1> HIDE DEF q
<1>3. /\ base \in Times /\ base.h = h /\ base.sub = 0 /\ base.mode = "24h" /\ base.neg = (n < 0)
  BY <1>1, <1>2, BaseFields
<1> HIDE DEF base
<1>4. w = (60 * m) + s /\ w \in Int
  BY <1>3, SMT DEF SecondsOf
<1> HIDE DEF w
<1>5. a = m /\ a \in Int
  BY <1>4, SMT DEF Trunc, Quot, Magnitude
<1> HIDE DEF a
<1>6. b = s /\ b \in Int
  BY <1>4, <1>5, SMT
<1> HIDE DEF b
<1>7. t \in Times /\ t.h = h /\ t.m = m /\ t.sub = 0 /\ t.mode = "24h" /\ t.neg = (n < 0)
  BY <1>3, <1>5 DEF Times
<1>8. SecondTime(n) = u
  BY DEF SecondTime, base, q, w, a, b
<1> HIDE DEF t
<1>9. u \in Times /\ u.h = h /\ u.m = m /\ u.s = s /\ u.sub = 0 /\ u.mode = "24h" /\ u.neg = (n < 0)
  BY <1>6, <1>7 DEF Times
<1> HIDE DEF u
<1> QED BY <1>8, <1>9, SplitIs

\* The fraction that is printed for fractions of a second, and when it is their number
\* times a constant: when the precision is a power of ten they divide, or one more.
FractionsPrinted(size) ==
  /\ Precision(size) \in Nat /\ Precision(size) > 0
  /\ Precision(size) % PerSecond(size) \in {0, 1}

\* The split of a number of fractions of a second, with the fraction that is printed.
LEMMA SubsecondSplit ==
  ASSUME NEW size, PerSecond(size) \in Int, PerSecond(size) > 0, FractionsPrinted(size),
         NEW n \in Int, NEW h \in Int, NEW m \in Int, NEW s \in Int, NEW b \in Int,
         h >= 0, m \in 0..59, s \in 0..59, 0 <= b, b < PerSecond(size),
         Magnitude(n) = (SecondsOf(h, m, s) * PerSecond(size)) + b
  PROVE  /\ SubsecondTime(n, size) = TimeSplit(h, m, s, b * (Precision(size) \div PerSecond(size)), n < 0)
         /\ b * (Precision(size) \div PerSecond(size)) \in Int
         /\ 0 <= b * (Precision(size) \div PerSecond(size)) /\ b * (Precision(size) \div PerSecond(size)) < Precision(size)
<1> DEFINE S == PerSecond(size)
<1>0. /\ S \in Int /\ S > 0 /\ b < S /\ Magnitude(n) = (SecondsOf(h, m, s) * S) + b
      /\ n \in Int /\ h \in Int /\ m \in Int /\ s \in Int /\ b \in Int /\ 0 <= b
      /\ h >= 0 /\ m \in 0..59 /\ s \in 0..59
  OBVIOUS
<1> DEFINE q == Trunc(n, 3600 * S)
           base == TimeBase(q, n < 0)
           w == Magnitude(n) - ((3600 * base.h) * S)
           a == Trunc(w, 60 * S)
           v == w - ((60 * a) * S)
           p == Precision(size)
           g == p \div S
           c == Trunc(v, S)
           e == Trunc((v - (c * S)) * p, S)
           t == [base EXCEPT !.m = a]
           u == [t EXCEPT !.s = c]
           x == [u EXCEPT !.sub = e]
<1> HIDE DEF S
<1>1. q \in Int /\ Magnitude(q) = h
  <2> DEFINE r == (((60 * m) + s) * S) + b
             k == 3600 * S
  <2>1. s * S \in Int /\ m * S \in Int /\ h * S \in Int
    BY <1>0, SMT
  <2>2. (60 - (m + 1)) * S >= 0 /\ (60 - (s + 1)) * S >= 0 /\ m * S >= 0 /\ s * S >= 0
    BY <1>0, SMT
  <2>3. /\ r = ((60 * (m * S)) + (s * S)) + b /\ h * k = 3600 * (h * S)
        /\ Magnitude(n) = (((3600 * (h * S)) + (60 * (m * S))) + (s * S)) + b
        /\ (60 - (m + 1)) * S = (60 * S) - ((m * S) + S)
        /\ (60 - (s + 1)) * S = (60 * S) - ((s * S) + S)
    BY <1>0, SMT DEF SecondsOf
  <2>4. Magnitude(n) = (h * k) + r /\ 0 <= r /\ r < k /\ r \in Int /\ k \in Int /\ k > 0
    <3> HIDE DEF r
    <3> QED BY <1>0, <2>1, <2>2, <2>3, SMT
  <2> HIDE DEF r, k
  <2>5. Whole(n, k, h, r)
    BY <1>0, <2>4 DEF Whole
  <2>6. Magnitude(Quot(n, k)) = h /\ Quot(n, k) \in Int
    BY <2>5, QuotOf
  <2> QED BY <2>6 DEF Trunc, k
<1>2. (n < 0) \in BOOLEAN
  OBVIOUS
<1> HIDE DEF q
<1>3. base \in Times /\ base.h = h /\ base.mode = "24h" /\ base.neg = (n < 0)
  BY <1>1, <1>2, BaseFields
<1> HIDE DEF base
<1>4. w = (((60 * m) + s) * S) + b /\ w \in Int /\ w >= 0
  <2>1. Magnitude(n) = ((3600 * h) * S) + ((((60 * m) + s) * S) + b)
    BY <1>0, SMT DEF SecondsOf
  <2>2. (3600 * h) * S \in Int /\ ((60 * m) + s) * S \in Int /\ ((60 * m) + s) * S >= 0
    BY <1>0, SMT
  <2> QED BY <1>0, <1>3, <2>1, <2>2, SMT
<1> HIDE DEF w
<1>5. a = m
  <2> DEFINE r == (s * S) + b
             k == 60 * S
  <2>1. s * S \in Int /\ m * S \in Int /\ s * S >= 0 /\ (60 - (s + 1)) * S >= 0
    BY <1>0, SMT
  <2>2. (60 - (s + 1)) * S = (60 * S) - ((s * S) + S) /\ w = (m * k) + r
    BY <1>0, <1>4, SMT
  <2>3. 0 <= r /\ r < k /\ r \in Int /\ k \in Int /\ k > 0
    BY <1>0, <2>1, <2>2, SMT
  <2>4. Magnitude(w) = (m * k) + r /\ ~(w < 0) /\ m >= 0 /\ m \in Int
    BY <1>0, <1>4, <2>2, SMT DEF Magnitude
  <2> HIDE DEF r, k
  <2>5. Whole(w, k, m, r)
    BY <1>4, <2>3, <2>4 DEF Whole
  <2>6. Quot(w, k) = IF w < 0 THEN -m ELSE m
    BY <2>5, QuotOf
  <2> QED BY <2>4, <2>6 DEF Trunc, k
<1> HIDE DEF a
<1>6. v = (s * S) + b /\ v \in Int /\ v >= 0
  <2>1. ((60 * m) + s) * S = ((60 * m) * S) + (s * S) /\ (60 * m) * S \in Int /\ s * S \in Int /\ s * S >= 0
    BY <1>0, SMT
  <2> QED BY <1>0, <1>4, <1>5, <2>1, SMT
<1> HIDE DEF v
<1>7. c = s
  <2>1. Magnitude(v) = (s * S) + b /\ ~(v < 0) /\ s >= 0
    BY <1>0, <1>6, SMT DEF Magnitude
  <2>2. Whole(v, S, s, b)
    BY <1>0, <1>6, <2>1 DEF Whole
  <2>3. Quot(v, S) = IF v < 0 THEN -s ELSE s
    BY <2>2, QuotOf
  <2> QED BY <2>1, <2>3 DEF Trunc
<1> HIDE DEF c
<1>8. v - (c * S) = b
  <2>1. s * S \in Int
    BY <1>0, SMT
  <2> QED BY <1>0, <1>6, <1>7, <2>1, SMT
<1>9. p \in Int /\ p > 0 /\ g \in Int /\ g >= 0 /\ (p = S * g \/ p = (S * g) + 1)
  <2>1. p \in Int /\ p > 0 /\ p % S \in {0, 1}
    BY SMT DEF FractionsPrinted, S
  <2> HIDE DEF p
  <2> QED BY <1>0, <2>1, SMT
<1> HIDE DEF p, g
<1>10. b * g \in Int /\ 0 <= b * g /\ b * g < p
  <2>1. b * g \in Int /\ 0 <= b * g /\ S * g \in Int
    BY <1>0, <1>9, SMT
  <2>2. CASE g = 0
    BY <1>0, <1>9, <2>2, SMT
  <2>3. CASE g > 0
    <3>1. (S - b) * g > 0 /\ (S - b) * g = (S * g) - (b * g)
      BY <1>0, <1>9, <2>3, SMT
    <3> QED BY <1>0, <1>9, <2>1, <3>1, SMT
  <2> QED BY <1>0, <1>9, <2>1, <2>2, <2>3, SMT
<1>11. e = b * g
  <2> DEFINE i == b * p
  <2>1. (b * g) * S = b * (S * g) /\ b * ((S * g) + 1) = (b * (S * g)) + b
    BY <1>0, <1>9, SMT
  <2> DEFINE r == i - ((b * g) * S)
  <2>2. r \in {0, b}
    <3>1. b * (S * g) \in Int
      BY <1>0, <1>9, SMT
    <3>2. CASE p = S * g
      BY <1>0, <2>1, <3>1, <3>2, SMT
    <3>3. CASE p = (S * g) + 1
      BY <1>0, <2>1, <3>1, <3>3, SMT
    <3> QED BY <1>9, <3>2, <3>3
  <2>3. i \in Int /\ i >= 0 /\ (b * g) * S \in Int
    BY <1>0, <1>9, <1>10, SMT
  <2>4. r \in Int /\ 0 <= r /\ r < S /\ i = ((b * g) * S) + r
    <3> HIDE DEF i
    <3> QED BY <1>0, <2>2, <2>3, SMT
  <2> DEFINE y == b * g
  <2>5. y \in Int /\ y >= 0 /\ i = (y * S) + r
    BY <1>10, <2>4
  <2>6. Magnitude(i) = (y * S) + r /\ ~(i < 0)
    <3> HIDE DEF i, y, r
    <3> QED BY <1>0, <2>3, <2>5, SMT DEF Magnitude
  <2> HIDE DEF i, y, r
  <2>7. Whole(i, S, y, r)
    BY <1>0, <2>3, <2>4, <2>5, <2>6 DEF Whole
  <2>8. Quot(i, S) = IF i < 0 THEN -y ELSE y
    BY <2>7, QuotOf
  <2> QED BY <1>8, <2>6, <2>8 DEF Trunc, i, y
<1> HIDE DEF e
<1>12. SubsecondTime(n, size) = x
  <2> DEFINE dfs == DecimalSeconds(v, size)
  <2>1. dfs.s = c /\ dfs.sub = e
    BY DEF DecimalSeconds, c, e, p, S
  <2> HIDE DEF dfs
  <2>2. SubsecondTime(n, size) = [base EXCEPT !.m = a, !.s = dfs.s, !.sub = dfs.sub]
    BY DEF SubsecondTime, base, q, w, a, v, dfs, S
  <2> QED BY <2>1, <2>2 DEF t, u, x
<1>13. t \in Times /\ t.h = h /\ t.m = m /\ t.mode = "24h" /\ t.neg = (n < 0)
  BY <1>3, <1>5 DEF Times
<1> HIDE DEF t
<1>14. u \in Times /\ u.h = h /\ u.m = m /\ u.s = s /\ u.mode = "24h" /\ u.neg = (n < 0)
  BY <1>7, <1>13 DEF Times
<1> HIDE DEF u
<1>15. x \in Times /\ x.h = h /\ x.m = m /\ x.s = s /\ x.sub = b * g /\ x.mode = "24h" /\ x.neg = (n < 0)
  <2>1. e \in Int
    BY <1>10, <1>11
  <2> QED BY <1>11, <1>14, <2>1 DEF Times
<1> HIDE DEF x
<1>16. x = TimeSplit(h, m, s, b * g, n < 0)
  BY <1>15, SplitIs
<1> QED BY <1>10, <1>12, <1>16 DEF g, p, S

\* A remainder of numbers that are not negative.
LEMMA RemOf ==
  ASSUME NEW a \in Nat, NEW b \in Nat, b > 0
  PROVE  Rem(a, b) = a % b
<1> DEFINE q == a \div b
<1>1. Quot(a, b) = q
  <2>1. Magnitude(a) = a /\ Magnitude(b) = b /\ ~(a < 0) /\ ~(b < 0)
    BY SMT DEF Magnitude
  <2> QED BY <2>1 DEF Quot
<1>2. q \in Int /\ a % b = a - (b * q)
  BY SMT
<1> QED BY <1>1, <1>2 DEF Rem

\* The class of a unit, and how many of its own units a tick is there.
LEMMA ClassOfUnit ==
  ASSUME NEW u, UnitOK(u)
  PROVE  /\ u = 24 => Classify(u) = "hour"
         /\ u # 24 /\ 1440 % u = 0 => Classify(u) = "minute"
         /\ 1440 % u # 0 /\ u <= 86400 => Classify(u) = "second"
         /\ u > 86400 => Classify(u) = "subsecond" /\ PerSecond(u) = u \div 86400
<1>1. u \in Nat /\ u >= 24 /\ (u <= 86400 => 86400 % u = 0)
  BY SMT DEF UnitOK
<1>2. Rem(24, u) = 24 % u /\ Rem(1440, u) = 1440 % u /\ Rem(86400, u) = 86400 % u
  <2>1. \A a \in Nat : Rem(a, u) = a % u
    <3>1. u \in Nat /\ u > 0
      BY <1>1, SMT
    <3> QED BY <3>1, RemOf
  <2> QED BY <2>1, SMT
<1>3. (24 % u = 0 <=> u = 24) /\ (u = 24 => 1440 % u = 0) /\ (u > 86400 => 1440 % u # 0 /\ 86400 % u # 0)
  BY <1>1, SMT
<1> QED BY <1>1, <1>2, <1>3, SMT DEF Classify, PerSecond

\* A time of the day kept by hand, as date.h splits it, with the sign it is given.
FractionOf(c) == c.sub * (Precision(unit) \div Fractions)
AsSplit(c, neg) == TimeSplit(c.h, c.m, c.s, FractionOf(c), neg)

\* The ticks of a time of the day, split in the class of their unit, give that time.
LEMMA TicksSplit ==
  ASSUME UnitOK(unit), FractionsPrinted(unit), NEW c, ClockOK(c),
         NEW x \in Int, Magnitude(x) = Ticks(c)
  PROVE  /\ MakeTime(x, unit) = AsSplit(c, x < 0)
         /\ FractionOf(c) \in Int /\ 0 <= FractionOf(c) /\ FractionOf(c) < Precision(unit)
<1> DEFINE H == unit \div 24
           M == unit \div 1440
           S == unit \div 86400
           h == c.h
           m == c.m
           s == c.s
           b == c.sub
<1>1. /\ unit \in Nat /\ H \in Int /\ M \in Int /\ S \in Int /\ unit = 24 * H /\ H > 0
      /\ unit >= 1440 => H = 60 * M /\ M > 0
      /\ unit >= 86400 => M = 60 * S /\ S > 0
      /\ unit < 1440 => M = 0
      /\ unit < 86400 => S = 0
      /\ unit = 86400 => S = 1
      /\ Fractions = IF unit > 86400 THEN S ELSE 1
  BY UnitParts
<1>2. /\ h \in Int /\ m \in Int /\ s \in Int /\ b \in Int
      /\ h >= 0 /\ h \in 0..23 /\ m \in 0..59 /\ s \in 0..59 /\ 0 <= b
      /\ b < Fractions
      /\ unit < 1440 => m = 0
      /\ unit < 86400 => s = 0
  BY DEF ClockOK
<1>3. Magnitude(x) = (((h * H) + (m * M)) + (s * S)) + b
  BY DEF Ticks
<1>4. AsSplit(c, x < 0) = TimeSplit(h, m, s, FractionOf(c), x < 0)
  BY DEF AsSplit
<1>5. FractionOf(c) = b * (Precision(unit) \div Fractions)
  BY DEF FractionOf
<1>6. Precision(unit) \in Int /\ Precision(unit) > 0
  BY SMT DEF FractionsPrinted
<1>7. UnitOK(unit) /\ x \in Int
  OBVIOUS
<1> HIDE DEF H, M, S, h, m, s, b
<1>8. CASE unit > 86400
  <2>1. Classify(unit) = "subsecond" /\ PerSecond(unit) = S
    BY <1>7, <1>8, ClassOfUnit DEF S
  <2>2. Fractions = S /\ S > 0 /\ unit >= 86400 /\ unit >= 1440
    BY <1>1, <1>8, SMT
  <2>3. Magnitude(x) = (SecondsOf(h, m, s) * S) + b
    <3>1. H = 3600 * S /\ M = 60 * S
      BY <1>1, <2>2, SMT
    <3>2. (SecondsOf(h, m, s) * S) = ((h * (3600 * S)) + (m * (60 * S))) + (s * S)
      BY <1>1, <1>2, SMT DEF SecondsOf
    <3> QED BY <1>3, <3>1, <3>2
  <2>4. /\ SubsecondTime(x, unit) = TimeSplit(h, m, s, b * (Precision(unit) \div PerSecond(unit)), x < 0)
        /\ b * (Precision(unit) \div PerSecond(unit)) \in Int
        /\ 0 <= b * (Precision(unit) \div PerSecond(unit))
        /\ b * (Precision(unit) \div PerSecond(unit)) < Precision(unit)
    <3>1. PerSecond(unit) \in Int /\ PerSecond(unit) > 0 /\ b < PerSecond(unit)
          /\ Magnitude(x) = (SecondsOf(h, m, s) * PerSecond(unit)) + b
      BY <1>1, <1>2, <2>1, <2>2, <2>3
    <3> QED BY <1>2, <1>7, <3>1, SubsecondSplit
  <2>5. MakeTime(x, unit) = SubsecondTime(x, unit)
    BY <2>1 DEF MakeTime
  <2> QED BY <1>4, <1>5, <2>1, <2>2, <2>4, <2>5
<1>9. ASSUME unit <= 86400
      PROVE  b = 0 /\ FractionOf(c) = 0
  <2>1. b = 0 /\ Fractions = 1
    BY <1>1, <1>2, <1>9, SMT
  <2>2. \A k \in Int : 0 * k = 0
    BY SMT
  <2>3. Precision(unit) \div Fractions \in Int
    BY <1>6, <2>1, SMT
  <2> QED BY <1>5, <2>1, <2>2, <2>3
\* A coarser unit is converted to the unit of its class first.
<1>10. \A f \in Int : f > 0 => /\ x * f \in Int /\ (x * f < 0) = (x < 0)
                              /\ Magnitude(x * f) = Magnitude(x) * f
  <2> SUFFICES ASSUME NEW f \in Int, f > 0
               PROVE  /\ x * f \in Int /\ (x * f < 0) = (x < 0)
                      /\ Magnitude(x * f) = Magnitude(x) * f
    OBVIOUS
  <2>1. CASE x < 0
    <3>1. (-x) * f > 0 /\ (-x) * f = -(x * f) /\ x * f \in Int
      BY <1>7, <2>1, SMT
    <3> QED BY <1>7, <2>1, <3>1, SMT DEF Magnitude
  <2>2. CASE ~(x < 0)
    <3>1. x * f >= 0 /\ x * f \in Int
      BY <1>7, <2>2, SMT
    <3> QED BY <1>7, <2>2, <3>1, SMT DEF Magnitude
  <2> QED BY <2>1, <2>2
<1>11. CASE unit = 86400
  <2>1. 1440 % unit # 0
    BY <1>11, SMT
  <2>2. Classify(unit) = "second"
    BY <1>7, <1>11, <2>1, ClassOfUnit, SMT
  <2>3. MakeTime(x, unit) = SecondTime(x)
    <3>1. x * (86400 \div unit) = x
      BY <1>7, <1>11, SMT
    <3> QED BY <2>2, <3>1 DEF MakeTime
  <2>4. Magnitude(x) = SecondsOf(h, m, s)
    <3>1. S = 1 /\ M = 60 /\ H = 3600 /\ b = 0
      BY <1>1, <1>9, <1>11, SMT
    <3> QED BY <1>2, <1>3, <3>1, SMT DEF SecondsOf
  <2>5. SecondTime(x) = TimeSplit(h, m, s, 0, x < 0)
    BY <1>2, <1>7, <2>4, SecondSplit
  <2>6. unit <= 86400
    BY <1>11, SMT
  <2> QED BY <1>4, <1>6, <1>9, <2>3, <2>5, <2>6, SMT
<1>12. CASE unit = 1440
  <2>1. 1440 % unit = 0 /\ unit # 24
    BY <1>12, SMT
  <2>2. Classify(unit) = "minute"
    BY <1>7, <2>1, ClassOfUnit
  <2>3. MakeTime(x, unit) = MinuteTime(x)
    <3>1. x * (1440 \div unit) = x
      BY <1>7, <1>12, SMT
    <3> QED BY <2>2, <3>1 DEF MakeTime
  <2>4. Magnitude(x) = MinutesOf(h, m) /\ s = 0
    <3>1. M = 1 /\ H = 60 /\ S = 0 /\ b = 0 /\ s = 0
      BY <1>1, <1>2, <1>9, <1>12, SMT
    <3> QED BY <1>2, <1>3, <3>1, SMT DEF MinutesOf
  <2>5. MinuteTime(x) = TimeSplit(h, m, 0, 0, x < 0)
    BY <1>2, <1>7, <2>4, MinuteSplit
  <2>6. unit <= 86400
    BY <1>12, SMT
  <2> QED BY <1>4, <1>6, <1>9, <2>3, <2>4, <2>5, <2>6, SMT
<1>13. CASE 1440 < unit /\ unit < 86400
  <2> DEFINE f == 86400 \div unit
             n == x * f
  <2>1. 86400 % unit = 0 /\ 1440 % unit # 0
    BY <1>1, <1>7, <1>13, SMT DEF UnitOK
  <2>2. Classify(unit) = "second"
    <3>1. unit <= 86400
      BY <1>1, <1>13, SMT
    <3> QED BY <1>7, <2>1, <3>1, ClassOfUnit
  <2>3. f \in Int /\ f > 0 /\ unit * f = 86400
    BY <1>1, <1>13, <2>1, SMT
  <2>4. MakeTime(x, unit) = SecondTime(n)
    BY <2>2 DEF MakeTime
  <2> HIDE DEF f
  <2>5. n \in Int /\ (n < 0) = (x < 0) /\ Magnitude(n) = Magnitude(x) * f
    BY <1>10, <2>3
  <2>6. H = 60 * M /\ S = 0 /\ b = 0 /\ s = 0 /\ unit = 1440 * M
    BY <1>1, <1>2, <1>9, <1>13, SMT
  <2>7. M * f = 60
    <3>1. unit * f = 1440 * (M * f) /\ M * f \in Int
      BY <1>1, <2>3, <2>6, SMT
    <3> QED BY <2>3, <3>1, SMT
  <2>8. Magnitude(n) = SecondsOf(h, m, s)
    <3>1. Magnitude(x) = (h * (60 * M)) + (m * M)
      <4>1. h * (60 * M) \in Int /\ m * M \in Int /\ s * 0 = 0
        BY <1>1, <1>2, SMT
      <4> QED BY <1>3, <2>6, <4>1, SMT
    <3>2. ((h * (60 * M)) + (m * M)) * f = (60 * (h * (M * f))) + (m * (M * f))
      BY <1>1, <1>2, <2>3, SMT
    <3> QED BY <1>2, <2>5, <2>6, <2>7, <3>1, <3>2, SMT DEF SecondsOf
  <2> HIDE DEF n
  <2>9. SecondTime(n) = TimeSplit(h, m, s, 0, n < 0)
    BY <1>2, <2>5, <2>8, SecondSplit
  <2>10. unit <= 86400
    BY <1>1, <1>13, SMT
  <2>11. MakeTime(x, unit) = AsSplit(c, x < 0)
    BY <1>4, <1>9, <2>4, <2>5, <2>9, <2>10
  <2> QED BY <1>6, <1>9, <2>10, <2>11, SMT
<1>14. ASSUME unit < 1440
       PROVE  m = 0 /\ s = 0 /\ b = 0 /\ Magnitude(x) = h * H /\ 86400 % unit = 0
  <2>1. m = 0 /\ s = 0 /\ b = 0 /\ M = 0 /\ S = 0 /\ 86400 % unit = 0
    BY <1>1, <1>2, <1>7, <1>9, <1>14, SMT DEF UnitOK
  <2>2. h * H \in Int
    BY <1>1, <1>2, SMT
  <2> QED BY <1>3, <2>1, <2>2, SMT
<1>15. CASE unit = 24
  <2>1. Classify(unit) = "hour"
    BY <1>7, <1>15, ClassOfUnit
  <2>2. MakeTime(x, unit) = HourTime(x)
    <3>1. x * (24 \div unit) = x
      BY <1>7, <1>15, SMT
    <3> QED BY <2>1, <3>1 DEF MakeTime
  <2>3. Magnitude(x) = h /\ m = 0 /\ s = 0
    <3>1. unit < 1440 /\ H = 1
      BY <1>1, <1>15, SMT
    <3> QED BY <1>2, <1>14, <3>1, SMT
  <2>4. HourTime(x) = TimeSplit(h, 0, 0, 0, x < 0)
    BY <1>2, <1>7, <2>3, HourSplit
  <2>5. unit <= 86400
    BY <1>15, SMT
  <2>6. MakeTime(x, unit) = AsSplit(c, x < 0)
    BY <1>4, <1>9, <2>2, <2>3, <2>4, <2>5
  <2> QED BY <1>6, <1>9, <2>5, <2>6, SMT
<1>16. CASE unit < 1440 /\ unit # 24 /\ 1440 % unit = 0
  <2> DEFINE f == 1440 \div unit
             n == x * f
  <2>1. f \in Int /\ f > 0 /\ unit * f = 1440 /\ unit <= 86400
    BY <1>1, <1>16, SMT
  <2>2. MakeTime(x, unit) = MinuteTime(n)
    <3>1. Classify(unit) = "minute"
      BY <1>7, <1>16, ClassOfUnit
    <3> QED BY <3>1 DEF MakeTime
  <2> HIDE DEF f
  <2>3. n \in Int /\ (n < 0) = (x < 0) /\ Magnitude(n) = Magnitude(x) * f
    BY <1>10, <2>1
  <2>4. H * f = 60
    <3>1. unit * f = 24 * (H * f) /\ H * f \in Int
      BY <1>1, <2>1, SMT
    <3> QED BY <2>1, <3>1, SMT
  <2>5. m = 0 /\ s = 0 /\ Magnitude(x) = h * H
    BY <1>14, <1>16
  <2>6. Magnitude(n) = MinutesOf(h, m)
    <3>1. (h * H) * f = h * (H * f)
      BY <1>1, <1>2, <2>1, SMT
    <3> QED BY <1>2, <2>3, <2>4, <2>5, <3>1, SMT DEF MinutesOf
  <2> HIDE DEF n
  <2>7. MinuteTime(n) = TimeSplit(h, m, 0, 0, n < 0)
    BY <1>2, <2>3, <2>6, MinuteSplit
  <2>8. MakeTime(x, unit) = AsSplit(c, x < 0)
    BY <1>4, <1>9, <2>1, <2>2, <2>3, <2>5, <2>7
  <2> QED BY <1>6, <1>9, <2>1, <2>8, SMT
<1>17. CASE unit < 1440 /\ 1440 % unit # 0
  <2> DEFINE f == 86400 \div unit
             n == x * f
  <2>1. 86400 % unit = 0
    BY <1>14, <1>17
  <2>2. f \in Int /\ f > 0 /\ unit * f = 86400 /\ unit <= 86400
    BY <1>1, <1>17, <2>1, SMT
  <2>3. MakeTime(x, unit) = SecondTime(n)
    <3>1. Classify(unit) = "second"
      BY <1>7, <1>17, <2>2, ClassOfUnit
    <3> QED BY <3>1 DEF MakeTime
  <2> HIDE DEF f
  <2>4. n \in Int /\ (n < 0) = (x < 0) /\ Magnitude(n) = Magnitude(x) * f
    BY <1>10, <2>2
  <2>5. H * f = 3600
    <3>1. unit * f = 24 * (H * f) /\ H * f \in Int
      BY <1>1, <2>2, SMT
    <3> QED BY <2>2, <3>1, SMT
  <2>6. m = 0 /\ s = 0 /\ Magnitude(x) = h * H
    BY <1>14, <1>17
  <2>7. Magnitude(n) = SecondsOf(h, m, s)
    <3>1. (h * H) * f = h * (H * f)
      BY <1>1, <1>2, <2>2, SMT
    <3> QED BY <1>2, <2>4, <2>5, <2>6, <3>1, SMT DEF SecondsOf
  <2> HIDE DEF n
  <2>8. SecondTime(n) = TimeSplit(h, m, s, 0, n < 0)
    BY <1>2, <2>4, <2>7, SecondSplit
  <2>9. MakeTime(x, unit) = AsSplit(c, x < 0)
    BY <1>4, <1>9, <2>2, <2>3, <2>4, <2>8
  <2> QED BY <1>6, <1>9, <2>2, <2>9, SMT
<1> QED BY <1>1, <1>8, <1>11, <1>12, <1>13, <1>15, <1>16, <1>17, SMT

\* The 12 hour form of a time of the day, and the way back.
LEMMA TwelveHours ==
  ASSUME NEW h \in 0..23, NEW m \in Int, NEW s \in Int, NEW f \in Int,
         NEW neg \in BOOLEAN
  PROVE  LET t == TimeSplit(h, m, s, f, neg)
         IN  /\ Make12(t).h \in 1..12 /\ Make24(Make12(t)) = t
             /\ To24hr(Make12(t)) = t.h /\ To24hr(t) = h
<1> DEFINE t == TimeSplit(h, m, s, f, neg)
           h12 == IF h > 12 THEN h - 12 ELSE IF h = 0 THEN 12 ELSE h
           half == IF h >= 12 THEN "pm" ELSE "am"
           p == [t EXCEPT !.h = h12]
           q == [p EXCEPT !.mode = half]
           u == [q EXCEPT !.h = h]
           v == [u EXCEPT !.mode = "24h"]
<1>1. h \in Int
  BY SMT
<1>2. /\ t \in Times
      /\ t.h = h /\ t.m = m /\ t.s = s /\ t.sub = f /\ t.mode = "24h" /\ t.neg = neg
  BY <1>1, SplitFields
<1> HIDE DEF t
<1>3. h12 \in 1..12 /\ h12 \in Int /\ half \in {"am", "pm"}
      /\ (h >= 12 => half = "pm") /\ (~(h >= 12) => half = "am")
      /\ (h >= 12 => IF h12 = 12 THEN h = 12 ELSE h = h12 + 12)
      /\ (~(h >= 12) => IF h12 = 12 THEN h = 0 ELSE h = h12)
  <2>1. /\ h12 \in 1..12 /\ h12 \in Int
        /\ (h >= 12 => IF h12 = 12 THEN h = 12 ELSE h = h12 + 12)
        /\ (~(h >= 12) => IF h12 = 12 THEN h = 0 ELSE h = h12)
    BY <1>1, SMT
  <2>2. /\ half \in {"am", "pm"}
        /\ (h >= 12 => half = "pm") /\ (~(h >= 12) => half = "am")
    OBVIOUS
  <2> QED BY <2>1, <2>2
<1>4. (CASE h > 12 -> h - 12 [] h = 0 -> 12 [] OTHER -> h) = h12
  <2>1. ~(h > 12 /\ h = 0)
    BY SMT
  <2> QED BY <2>1
<1>5. Make12(t) = q
  BY <1>2, <1>4 DEF Make12
<1> HIDE DEF h12, half
<1>6. p \in Times /\ p.h = h12 /\ p.m = m /\ p.s = s /\ p.sub = f /\ p.neg = neg
  BY <1>2, <1>3 DEF Times
<1> HIDE DEF p
<1>7. q \in Times /\ q.h = h12 /\ q.m = m /\ q.s = s /\ q.sub = f /\ q.neg = neg /\ q.mode = half
  BY <1>3, <1>6 DEF Times
<1> HIDE DEF q
<1>8. To24hr(q) = h
  <2>1. CASE h >= 12
    <3>1. q.mode = "pm" /\ q.mode # "am"
      BY <1>3, <1>7, <2>1
    <3>2. To24hr(q) = IF q.h # 12 THEN q.h + 12 ELSE q.h
      BY <3>1 DEF To24hr
    <3> QED BY <1>1, <1>3, <1>7, <2>1, <3>2, SMT
  <2>2. CASE ~(h >= 12)
    <3>1. q.mode = "am" /\ q.mode # "pm"
      BY <1>3, <1>7, <2>2
    <3>2. To24hr(q) = IF q.h = 12 THEN 0 ELSE q.h
      BY <3>1 DEF To24hr
    <3> QED BY <1>1, <1>3, <1>7, <2>2, <3>2, SMT
  <2> QED BY <2>1, <2>2
<1>9. u \in Times /\ u.h = h /\ u.m = m /\ u.s = s /\ u.sub = f /\ u.neg = neg
  BY <1>1, <1>7 DEF Times
<1>10. Make24(q) = v
  BY <1>8 DEF Make24
<1> HIDE DEF u
<1>11. v \in Times /\ v.h = h /\ v.m = m /\ v.s = s /\ v.sub = f /\ v.neg = neg /\ v.mode = "24h"
  BY <1>9 DEF Times
<1> HIDE DEF v
<1>12. v = t
  <2>1. v = TimeSplit(h, m, s, f, neg)
    BY <1>11, SplitIs
  <2> QED BY <2>1 DEF t
<1>13. To24hr(t) = h
  BY <1>2 DEF To24hr
<1> QED BY <1>2, <1>3, <1>5, <1>7, <1>8, <1>10, <1>12, <1>13 DEF t

\* The duration a split time stands for, of either sign.
LEMMA DurationOf ==
  ASSUME NEW h \in Int, NEW m \in Int, NEW s \in Int, NEW f \in Int, NEW neg \in BOOLEAN
  PROVE  ToDuration(TimeSplit(h, m, s, f, neg))
           = IF neg THEN <<-(SecondsOf(h, m, s)), -f>> ELSE <<SecondsOf(h, m, s), f>>
<1> DEFINE t == TimeSplit(h, m, s, f, neg)
<1>1. t.h = h /\ t.m = m /\ t.s = s /\ t.sub = f /\ t.mode = "24h" /\ t.neg = neg
  BY SplitFields
<1> HIDE DEF t
<1>2. To24hr(t) = h
  BY <1>1 DEF To24hr
<1> QED BY <1>1, <1>2 DEF ToDuration, SecondsOf, t

\* No ticks are no time.
LEMMA NoTicks ==
  ASSUME UnitOK(unit), NEW c, ClockOK(c), Ticks(c) = 0
  PROVE  c.h = 0 /\ c.m = 0 /\ c.s = 0 /\ c.sub = 0
<1> DEFINE H == unit \div 24
           M == unit \div 1440
           S == unit \div 86400
           h == c.h
           m == c.m
           s == c.s
           b == c.sub
<1>1. /\ unit \in Nat /\ H \in Int /\ M \in Int /\ S \in Int /\ H > 0 /\ M >= 0 /\ S >= 0
      /\ unit >= 1440 => M > 0
      /\ unit >= 86400 => S > 0
  <2>1. /\ unit \in Nat /\ H \in Int /\ M \in Int /\ S \in Int /\ H > 0
        /\ unit >= 1440 => M > 0
        /\ unit >= 86400 => S > 0
        /\ unit < 1440 => M = 0
        /\ unit < 86400 => S = 0
    BY UnitParts
  <2> HIDE DEF H, M, S
  <2> QED BY <2>1, SMT
<1>2. /\ h \in Int /\ m \in Int /\ s \in Int /\ b \in Int
      /\ 0 <= h /\ 0 <= m /\ 0 <= s /\ 0 <= b
      /\ unit < 1440 => m = 0
      /\ unit < 86400 => s = 0
  BY SMT DEF ClockOK
<1>3. (((h * H) + (m * M)) + (s * S)) + b = 0
  BY DEF Ticks
<1> HIDE DEF H, M, S, h, m, s, b
<1>4. /\ h * H \in Int /\ m * M \in Int /\ s * S \in Int
      /\ h * H >= 0 /\ m * M >= 0 /\ s * S >= 0
  BY <1>1, <1>2, SMT
<1>5. h * H = 0 /\ m * M = 0 /\ s * S = 0 /\ b = 0
  <2> DEFINE x == h * H
             y == m * M
             z == s * S
  <2>1. /\ x \in Int /\ y \in Int /\ z \in Int /\ x >= 0 /\ y >= 0 /\ z >= 0
        /\ ((x + y) + z) + b = 0
    BY <1>3, <1>4
  <2> HIDE DEF x, y, z
  <2>2. x = 0 /\ y = 0 /\ z = 0 /\ b = 0
    BY <1>2, <2>1, SMT
  <2> QED BY <2>2 DEF x, y, z
<1>6. h = 0 /\ (M > 0 => m = 0) /\ (S > 0 => s = 0)
  BY <1>1, <1>2, <1>5, SMT
<1>7. m = 0 /\ s = 0
  BY <1>1, <1>2, <1>6, SMT
<1> QED BY <1>5, <1>6, <1>7 DEF h, m, s, b

\* The clock of the walk, from the fields of the ticks of the day.
LEMMA WalkedClock ==
  ASSUME CalendarAssumption, Walked, FractionsPrinted(unit)
  PROVE  ClockInStep
<1> SUFFICES ASSUME ~ByDays
             PROVE
      LET t == TimeNow
          n == tp - (Floor(tp, unit) * unit)
          fraction == time.sub * (Precision(unit) \div Fractions)
      IN  /\ <<t.h, t.m, t.s, t.sub>> = <<time.h, time.m, time.s, fraction>>
          /\ InConventionalRange(t, unit)
          /\ Make12(t).h \in 1..12 /\ Make24(Make12(t)) = t
          /\ To24hr(Make12(t)) = t.h
          /\ ToDuration(t) = <<(3600 * time.h) + (60 * time.m) + time.s, fraction>>
          /\ ToDuration(MakeTime(-n, unit)) = <<-ToDuration(t)[1], -ToDuration(t)[2]>>
  BY DEF ClockInStep
<1> DEFINE n == tp - (Floor(tp, unit) * unit)
           t == TimeNow
           h == time.h
           m == time.m
           s == time.s
           f == FractionOf(time)
           d == SecondsOf(h, m, s)
<1>1. UnitOK(unit) /\ ClockOK(time) /\ FractionsPrinted(unit)
  BY UnitIsOne DEF Walked
<1>2. Ticks(time) \in Int /\ 0 <= Ticks(time)
  BY <1>1, TicksOfADay
<1>3. n = Ticks(time)
  <2>1. ToDays(date) \in Int /\ Floor(tp, unit) = ToDays(date) /\ unit \in Int
    BY DayOfWalk, UnitIsOne, SMT DEF Walked
  <2>2. tp = (ToDays(date) * unit) + Ticks(time)
    BY DEF Walked
  <2>3. ToDays(date) * unit \in Int
    BY <2>1, SMT
  <2> QED BY <1>2, <2>1, <2>2, <2>3, SMT
<1>4. t = MakeTime(n, unit)
  BY DEF TimeNow
<1> HIDE DEF n, t
<1>5. n \in Int /\ -n \in Int /\ ~(n < 0) /\ (-n < 0 <=> n # 0)
      /\ Magnitude(n) = Ticks(time) /\ Magnitude(-n) = Ticks(time)
  BY <1>2, <1>3, SMT DEF Magnitude
<1>6. /\ MakeTime(n, unit) = AsSplit(time, n < 0)
      /\ f \in Int /\ 0 <= f /\ f < Precision(unit)
  BY <1>1, <1>5, TicksSplit
<1>7. MakeTime(-n, unit) = AsSplit(time, -n < 0)
  <2> DEFINE x == -n
  <2>1. x \in Int /\ Magnitude(x) = Ticks(time)
    BY <1>5
  <2> HIDE DEF x
  <2>2. MakeTime(x, unit) = AsSplit(time, x < 0)
    BY <1>1, <2>1, TicksSplit
  <2> QED BY <2>2 DEF x
<1>8. h \in 0..23 /\ m \in 0..59 /\ s \in 0..59 /\ h \in Int /\ m \in Int /\ s \in Int
  <2>1. h \in 0..23 /\ m \in 0..59 /\ s \in 0..59
    BY <1>1 DEF ClockOK
  <2> HIDE DEF h, m, s
  <2> QED BY <2>1, SMT
<1> DEFINE neg == n < 0
           back == -n < 0
<1>9. /\ t = TimeSplit(h, m, s, f, neg) /\ MakeTime(-n, unit) = TimeSplit(h, m, s, f, back)
      /\ neg \in BOOLEAN /\ back \in BOOLEAN /\ ~neg /\ (back <=> n # 0)
  <2>1. /\ t = TimeSplit(h, m, s, f, neg) /\ MakeTime(-n, unit) = TimeSplit(h, m, s, f, back)
    BY <1>4, <1>6, <1>7 DEF AsSplit
  <2> QED BY <1>5, <2>1
<1>10. f = time.sub * (Precision(unit) \div Fractions)
  BY DEF FractionOf
<1> HIDE DEF h, m, s, f, neg, back
<1>11. t.h = h /\ t.m = m /\ t.s = s /\ t.sub = f /\ t.neg = neg
  BY <1>6, <1>8, <1>9, SplitFields
<1>12. InConventionalRange(t, unit)
  <2>1. h < 24 /\ m < 60 /\ s < 60
    BY <1>8, SMT
  <2> QED BY <1>6, <1>9, <1>11, <2>1 DEF InConventionalRange
<1>13. Make12(t).h \in 1..12 /\ Make24(Make12(t)) = t /\ To24hr(Make12(t)) = t.h
  BY <1>6, <1>8, <1>9, TwelveHours
<1>14. ToDuration(t) = <<d, f>>
  <2>1. ToDuration(TimeSplit(h, m, s, f, neg)) = IF neg THEN <<-d, -f>> ELSE <<d, f>>
    BY <1>6, <1>8, <1>9, DurationOf
  <2> QED BY <1>9, <2>1
<1>15. d = (3600 * h) + (60 * m) + s /\ d \in Int
  BY <1>8, SMT DEF SecondsOf
<1>16. ToDuration(MakeTime(-n, unit)) = <<-d, -f>>
  <2>1. ToDuration(TimeSplit(h, m, s, f, back)) = IF back THEN <<-d, -f>> ELSE <<d, f>>
    BY <1>6, <1>8, <1>9, DurationOf
  <2>2. CASE n # 0
    BY <1>9, <2>1, <2>2
  <2>3. CASE n = 0
    <3>1. h = 0 /\ m = 0 /\ s = 0 /\ time.sub = 0
      BY <1>1, <1>3, <2>3, NoTicks DEF h, m, s
    <3>2. d = 0
      BY <3>1, SMT DEF SecondsOf
    <3>3. f = 0
      <4>1. Precision(unit) \div Fractions \in Int
        <5>1. Fractions \in Int /\ Fractions > 0 /\ Precision(unit) \in Int
          BY <1>1, UnitParts, SMT DEF FractionsPrinted
        <5> QED BY <5>1, SMT
      <4>2. \A k \in Int : 0 * k = 0
        BY SMT
      <4> QED BY <1>10, <3>1, <4>1, <4>2
    <3>4. \A k \in Int : 0 <= k /\ k <= 0 => -k = k
      BY SMT
    <3> HIDE DEF d
    <3>5. 0 <= d /\ d <= 0 /\ 0 <= f /\ f <= 0
      BY <3>2, <3>3, SMT
    <3>6. -d = d /\ -f = f
      BY <1>6, <1>15, <3>4, <3>5
    <3> QED BY <1>9, <2>1, <2>3, <3>6
  <2> QED BY <2>2, <2>3
<1> HIDE DEF d
<1>17. ToDuration(t)[1] = d /\ ToDuration(t)[2] = f
  BY <1>14
<1>18. <<t.h, t.m, t.s, t.sub>> = <<h, m, s, f>>
  BY <1>11
<1> QED BY <1>10, <1>12, <1>13, <1>14, <1>15, <1>16, <1>17, <1>18 DEF n, t, h, m, s

-------------------------------------------------------------------------------
(***************************************************************************)
(* The properties of the walk, for every unit, number of steps and number  *)
(* of months.  A year is a short, so that the dates go as far as its years *)
(* do; the months and weeks around a date may lie in the years beside its. *)
(***************************************************************************)
\* While the walk is in the years date.h has, the fields it computes from the time
\* point make a date, and those kept by hand are in their ranges.
THEOREM WalkTyped == Spec => [](WithinYears => TypeOK)
<1>1. CalendarAssumption /\ Walked => (WithinYears => TypeOK)
  BY WalkedTyped
<1>2. Walked => (WithinYears => TypeOK)
  BY <1>1, CalendarAssumption
<1> QED BY <1>2, WalkedAlways, PTL

\* There, the date and the weekday computed from the time point are those of the
\* calendar, on every day, and dates compare as their days do.
THEOREM DatesStayInStep == Spec => [](WithinYears => DateInStep)
<1>1. CalendarAssumption /\ Walked => (WithinYears => DateInStep)
  BY WalkedDates
<1>2. Walked => (WithinYears => DateInStep)
  BY <1>1, CalendarAssumption
<1> QED BY <1>2, WalkedAlways, PTL

\* A time point in any unit is rounded to the hours next to it, without a bound.
THEOREM HoursRound == Spec => []RoundsToNearest
<1>1. CalendarAssumption /\ Walked => RoundsToNearest
  BY WalkedHours
<1>2. Walked => RoundsToNearest
  BY <1>1, CalendarAssumption
<1> QED BY <1>2, WalkedAlways, PTL

\* Months added to a date carry the year, forwards and backwards, as long as the
\* years they reach are years date.h has.
THEOREM MonthsStayInStep == Spec => [](MonthsHold => MonthsAddUp)
<1>1. CalendarAssumption /\ Walked => (MonthsHold => MonthsAddUp)
  BY WalkedMonths
<1>2. Walked => (MonthsHold => MonthsAddUp)
  BY <1>1, CalendarAssumption
<1> QED BY <1>2, WalkedAlways, PTL

\* A day is the n-th of its weekday in its month for the n date.h computes, and
\* ok() tells the months with five of a weekday.
THEOREM WeekdaysStayInStep == Spec => [](WithinYears => NthWeekdays)
<1>1. CalendarAssumption /\ Walked => (WithinYears => NthWeekdays)
  BY WalkedWeekdays
<1>2. Walked => (WithinYears => NthWeekdays)
  BY <1>1, CalendarAssumption
<1> QED BY <1>2, WalkedAlways, PTL

\* The weeks by ISO 8601, from Sunday and from Monday are those of the calendar, as
\* long as the year before is a year whose last Thursday date.h can find.
THEOREM WeeksStayInStep == Spec => [](WeeksHold => WeeksInStep)
<1>1. CalendarAssumption /\ Walked => (WeeksHold => WeeksInStep)
  BY WalkedWeeks
<1>2. Walked => (WeeksHold => WeeksInStep)
  BY <1>1, CalendarAssumption
<1> QED BY <1>2, WalkedAlways, PTL

\* The fields of a time of the day, its 12 hour form and its duration are those of the
\* clock kept by hand, without a bound of the days; in units whose fractions of a second
\* are printed as multiples of one number.
THEOREM ClockStaysInStep == Spec => [](FractionsPrinted(unit) => ClockInStep)
<1>1. CalendarAssumption /\ Walked => (FractionsPrinted(unit) => ClockInStep)
  BY WalkedClock
<1>2. Walked => (FractionsPrinted(unit) => ClockInStep)
  BY <1>1, CalendarAssumption
<1> QED BY <1>2, WalkedAlways, PTL
================================================================================
