------------------------------- MODULE DateFormat ------------------------------
(***************************************************************************)
(* The numbers behind the conversions of date.h that are computed from a   *)
(* whole date (week numbers, day of the year, century) and the way back:   *)
(* from_stream keeps each number it reads in a field of its own and, at    *)
(* the end, works out the date the fields agree on.                        *)
(***************************************************************************)
EXTENDS CivilDate

Century(y)       == IF y >= 0 THEN Quot(y, 100) ELSE -Quot(-(y - 99), 100)
YearOfCentury(y) == Rem(Magnitude(y), 100)

\* %j
DayOfYear(ymd) == (ToDays(ymd) - ToDays(Date(ymd.y, 1, 1))) + 1

\* The Monday of the first week of a year by ISO 8601: four days after
\* the last Thursday of December before it.
IsoStart(y) == LastToDays(Last(YearPlus(y, -1), 12, Thu)) + WeekdayMinus(Mon, Thu)

\* A mutant: a day before the first week of its year is counted in that year.
IsoYear_NoStepBack(ymd) == FromDays(ToDays(ymd) + 3).y

\* %G
IsoYear(ymd) ==
  LET ld == ToDays(ymd)
      y  == FromDays(ld + 3).y
  IN  IF ld < IsoStart(y) THEN YearPlus(y, -1) ELSE y

\* %V
IsoWeek(ymd) == Quot(ToDays(ymd) - IsoStart(IsoYear(ymd)), 7) + 1

\* %u
IsoWeekday(wd) == IF wd # 0 THEN wd ELSE 7

\* %U and %W: weeks that begin on Sunday or Monday, week 0 before the first.
WeekFrom(ymd, start) ==
  LET st == NthToDays(Nth(ymd.y, 1, start, 1))
      ld == ToDays(ymd)
  IN  IF ld < st THEN 0 ELSE Quot(ld - st, 7) + 1
WeekU(ymd) == WeekFrom(ymd, Sun)
WeekW(ymd) == WeekFrom(ymd, Mon)

-------------------------------------------------------------------------------
\* The fields before anything has been read.
NoYear    == 33000
NoCentury == NoYear \div 100
No2Digits == 100
NoWeekday == 7
NoWeek    == 100
NoFields  == [Y |-> NoYear, C |-> NoCentury, yy |-> No2Digits, m |-> 0, d |-> 0, j |-> 0,
              wd |-> NoWeekday, g |-> No2Digits, G |-> NoYear,
              V |-> NoWeek, U |-> NoWeek, W |-> NoWeek,
              h |-> 0, min |-> 0, s |-> 0, z |-> 0, fail |-> FALSE]

\* The stream is set to fail; what is worked out of the fields after that is not used.
Broken(f) == [f EXCEPT !.fail = TRUE]

\* The century of a two digit year, unless it has been read, and the full year.
CenturyOf(full, c, digits) ==
  IF c # NoCentury THEN c
  ELSE IF full = NoYear THEN (IF digits >= 69 THEN 19 ELSE 20)
  ELSE Quot(IF full >= 0 THEN full ELSE full - 100, 100)
FullYear(c, digits) ==
  IF c >= 0 THEN (100 * c) + digits
  ELSE (100 * (c + 1)) - (IF digits = 0 THEN 100 ELSE digits)

WithYear(f) ==
  LET c == CenturyOf(f.Y, f.C, f.yy)
      t == FullYear(c, f.yy)
  IN  IF f.yy = No2Digits THEN f
      ELSE IF f.yy \notin 0..99 \/ (f.Y # NoYear /\ f.Y # t) THEN Broken(f)
      ELSE [f EXCEPT !.C = c, !.Y = t]

WithIsoYear(f) ==
  LET c == CenturyOf(f.G, f.C, f.g)
      t == FullYear(c, f.g)
  IN  IF f.g = No2Digits THEN f
      ELSE IF f.g \notin 0..99 \/ (f.G # NoYear /\ f.G # t) THEN Broken(f)
      ELSE [f EXCEPT !.C = c, !.G = t]

\* A date worked out of some fields completes the month and the day, or agrees.
Completed(f, ymd) ==
  IF f.m \in {0, ymd.m} /\ f.d \in {0, ymd.d}
  THEN [f EXCEPT !.m = ymd.m, !.d = ymd.d] ELSE Broken(f)

FromIsoWeek(f) ==
  LET ymd == FromDays(IsoStart(Year(f.G)) + (7 * (f.V - 1)) + WeekdayMinus(f.wd, Mon))
  IN  IF f.G = NoYear THEN f
      ELSE IF f.V = NoWeek \/ f.wd = NoWeekday \/ (f.Y # NoYear /\ Year(f.Y) # ymd.y) THEN Broken(f)
      ELSE Completed([f EXCEPT !.Y = IF f.Y = NoYear THEN ymd.y ELSE f.Y], ymd)

FromDayOfYear(f) ==
  IF f.j = 0 \/ f.Y = NoYear THEN f
  ELSE Completed(f, FromDays(ToDays(Date(Year(f.Y), 1, 1)) + (f.j - 1)))

\* Week 0 is looked for at the end of the year before.
FromWeek(f, week, start) ==
  LET ymd == FromDays(IF week = 0 THEN LastToDays(Last(Year(f.Y - 1), 12, f.wd))
                      ELSE NthToDays(Nth(Year(f.Y), 1, start, 1))
                           + (7 * (week - 1)) + WeekdayMinus(f.wd, start))
  IN  IF week = NoWeek \/ f.Y = NoYear THEN f
      ELSE IF f.wd = NoWeekday \/ Year(f.Y) # ymd.y THEN Broken(f)
      ELSE Completed(f, ymd)

\* A mutant: week numbers that begin on Monday are taken to begin on Sunday.
FromWeekW_Sunday(f) == FromWeek(f, f.W, Sun)

FromWeekU(f) == FromWeek(f, f.U, Sun)
FromWeekW(f) == FromWeek(f, f.W, Mon)

\* The date the fields name, which a weekday may contradict.
DateOf(f) == Date(Year(f.Y), Month(f.m), Day(f.d))
Agreed(f) ==
  LET ymd == DateOf(f)
  IN  IF f.wd # NoWeekday /\ DateOK(ymd) /\ f.wd # WeekdayOf(ymd) THEN Broken(f) ELSE f

\* The fields completed to a date, each way to name one in its turn.
Resolve(f) ==
  Agreed(FromWeekW(FromWeekU(FromDayOfYear(FromIsoWeek(WithIsoYear(WithYear(f)))))))
===============================================================================
