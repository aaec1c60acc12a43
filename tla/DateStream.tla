------------------------------ MODULE DateStream ------------------------------
(***************************************************************************)
(* to_stream and from_stream of date.h: what the conversions of a format   *)
(* print of a time point, and what they read back.  A text is the sequence *)
(* of its numbers, each with the number of its digits; the characters      *)
(* between two numbers are the same on both sides and are left out.  Left  *)
(* out too are the conversions the locale prints (%a %b %c %p %r %x %X and *)
(* the modifiers %E and %O), %I, which needs %p, and %Z.                   *)
(***************************************************************************)
EXTENDS DateFormat, TimeOfDay, Sequences
Seqs == INSTANCE SequencesExt

\* The digits of a number in base 10.
DigitsOf(n) ==
  LET digits[k \in Nat] == IF k < 10 THEN 1 ELSE 1 + digits[k \div 10]
  IN  digits[Magnitude(n)]

\* A number filled up with zeros to a number of digits.  NumberRight fills on the
\* left of the sign, which counts as a digit: from_stream takes those zeros for the
\* whole number, and such a number counts as torn.
Number(n, width) ==
  [n |-> n, torn |-> FALSE, digits |-> IF DigitsOf(n) < width THEN width ELSE DigitsOf(n)]
NumberRight(n, width) ==
  [Number(n, width) EXCEPT !.torn = n < 0 /\ DigitsOf(n) + 1 < width]

-------------------------------------------------------------------------------
\* What the conversions print of the fields: a date, a time of the day and an offset.

PrintedYear(y)    == <<Number(y, 4)>>
PrintedCentury(y) == <<Number(Century(y), 2)>>
PrintedDay(ymd)   == <<Number(ymd.d, 2)>>
PrintedMonth(ymd) == <<Number(ymd.m, 2)>>
PrintedF(ymd)     == <<NumberRight(ymd.y, 4)>> \o PrintedMonth(ymd) \o PrintedDay(ymd)
PrintedD(ymd)     == PrintedMonth(ymd) \o PrintedDay(ymd) \o <<NumberRight(Rem(ymd.y, 100), 2)>>
PrintedHour(t)    == <<Number(t.h, 2)>>
PrintedMinute(t)  == <<Number(t.m, 2)>>
PrintedR(t)       == PrintedHour(t) \o PrintedMinute(t)

\* Seconds with their fraction in its precision: one number, without its point.
PrintedSeconds(t, unit) ==
  <<[n |-> (t.s * Precision(unit)) + t.sub, torn |-> FALSE,
     digits |-> 2 + (DigitsOf(Precision(unit)) - 1)]>>
PrintedT(t, unit) == PrintedR(t) \o PrintedSeconds(t, unit)

\* The sign of an offset of z minutes goes to its hours, even if they are 0.
PrintedOffset(z) ==
  LET h == Quot(Magnitude(z), 60)
  IN  <<Number(IF z < 0 THEN -h ELSE h, 2), Number(Magnitude(z) - (60 * h), 2)>>

PrintedOf(c, x) ==
  CASE c = "C" -> PrintedCentury(x.ymd.y)
    [] c = "d" -> PrintedDay(x.ymd)
    [] c = "D" -> PrintedD(x.ymd)
    [] c = "F" -> PrintedF(x.ymd)
    [] c = "g" -> <<Number(YearOfCentury(IsoYear(x.ymd)), 2)>>
    [] c = "G" -> PrintedYear(IsoYear(x.ymd))
    [] c = "H" -> PrintedHour(x.tod)
    [] c = "j" -> <<Number(DayOfYear(x.ymd), 3)>>
    [] c = "m" -> PrintedMonth(x.ymd)
    [] c = "M" -> PrintedMinute(x.tod)
    [] c = "R" -> PrintedR(x.tod)
    [] c = "S" -> PrintedSeconds(x.tod, x.unit)
    [] c = "T" -> PrintedT(x.tod, x.unit)
    [] c = "u" -> <<Number(IsoWeekday(WeekdayOf(x.ymd)), 1)>>
    [] c = "U" -> <<Number(WeekU(x.ymd), 2)>>
    [] c = "V" -> <<Number(IsoWeek(x.ymd), 2)>>
    [] c = "w" -> <<Number(WeekdayOf(x.ymd), 1)>>
    [] c = "W" -> <<Number(WeekW(x.ymd), 2)>>
    [] c = "y" -> <<Number(YearOfCentury(x.ymd.y), 2)>>
    [] c = "Y" -> PrintedYear(x.ymd.y)
    [] c = "z" -> PrintedOffset(x.z)

Printed(format, x) == Seqs!FlattenSeq([i \in DOMAIN format |-> PrintedOf(format[i], x)])

\* The fields of a time point: its unit is made as fine as seconds.
StreamUnit(unit) == IF unit < 86400 THEN 86400 ELSE unit

FieldsOf(tp, unit, z) ==
  LET su    == StreamUnit(unit)
      sd    == Floor(tp, unit)
      local == ((tp - (sd * unit)) * (su \div unit)) + (z * (su \div 1440))
      day   == Floor(local, su)
  IN  [ymd |-> FromDays(sd + day), tod |-> MakeTime(local - (day * su), su), unit |-> su, z |-> z]

-------------------------------------------------------------------------------
\* What the conversions read: for each number, the field it is kept in, whether
\* it may have a sign, and the digits that are read at most.
Signed(field, width)   == [field |-> field, signed |-> TRUE, width |-> width]
Unsigned(field, width) == [field |-> field, signed |-> FALSE, width |-> width]

ReadC == <<Signed("C", 2)>>
ReadD == <<Unsigned("m", 2), Unsigned("d", 2), Signed("yy", 2)>>
ReadF == <<Signed("Y", 4), Unsigned("m", 2), Unsigned("d", 2)>>
ReadDay == <<Signed("d", 2)>>
ReadHour == <<Unsigned("h", 2)>>
ReadDayOfYear == <<Unsigned("j", 3)>>
ReadMinute == <<Unsigned("min", 2)>>
ReadMonth == <<Signed("m", 2)>>
ReadR == ReadHour \o ReadMinute
ReadSeconds(unit) ==
  <<Unsigned("s", IF PerSecond(unit) = 1 THEN 2 ELSE 3 + (DigitsOf(Precision(unit)) - 1))>>
ReadT(unit) == ReadR \o ReadSeconds(unit)
ReadYear == <<Signed("Y", 4)>>
ReadYearOfCentury == <<Unsigned("yy", 2)>>
ReadIsoYearOfCentury == <<Unsigned("g", 2)>>
ReadIsoYear == <<Signed("G", 4)>>
ReadWeekU == <<Unsigned("U", 2)>>
ReadIsoWeek == <<Unsigned("V", 2)>>
ReadWeekW == <<Unsigned("W", 2)>>
ReadWeekday(c) == <<Unsigned(IF c = "u" THEN "u" ELSE "wd", 1)>>
ReadOffset == <<Signed("zh", 2), Unsigned("zm", 2)>>

ReadOf(c, unit) ==
  CASE c = "C" -> ReadC       [] c = "D" -> ReadD         [] c = "F" -> ReadF
    [] c = "d" -> ReadDay     [] c = "H" -> ReadHour      [] c = "j" -> ReadDayOfYear
    [] c = "M" -> ReadMinute  [] c = "m" -> ReadMonth     [] c = "R" -> ReadR
    [] c = "S" -> ReadSeconds(unit)                       [] c = "T" -> ReadT(unit)
    [] c = "Y" -> ReadYear    [] c = "y" -> ReadYearOfCentury
    [] c = "g" -> ReadIsoYearOfCentury                    [] c = "G" -> ReadIsoYear
    [] c = "U" -> ReadWeekU   [] c = "V" -> ReadIsoWeek   [] c = "W" -> ReadWeekW
    [] c \in {"u", "w"} -> ReadWeekday(c)                 [] c = "z" -> ReadOffset

\* A number is kept in its field: Sunday is 7 for %u, seconds are rounded to the
\* unit, and the two numbers of an offset are added up.
Kept(f, field, n, unit) ==
  CASE field = "u"  -> [f EXCEPT !.wd = IF n = 7 THEN 0 ELSE n]
    [] field = "s"  -> [f EXCEPT !.s = Round(n * PerSecond(unit), Precision(unit))]
    [] field = "zh" -> [f EXCEPT !.z = 60 * n]
    [] field = "zm" -> [f EXCEPT !.z = @ + n]
    [] OTHER        -> [f EXCEPT ![field] = n]

\* A number that cannot be read to its end sets the stream to fail.
Fits(number, item) ==
  ~number.torn /\ number.digits <= item.width /\ (number.n < 0 => item.signed)

ReadFields(format, text, unit) ==
  LET items == Seqs!FlattenSeq([i \in DOMAIN format |-> ReadOf(format[i], unit)])
  IN  IF Len(items) = Len(text) /\ \A i \in DOMAIN items : Fits(text[i], items[i])
      THEN Seqs!FoldLeft(LAMBDA f, i : Kept(f, items[i].field, text[i].n, unit),
                    NoFields, [i \in DOMAIN items |-> i])
      ELSE Broken(NoFields)

\* The time of the day: hours and minutes split anew, then the seconds.
TodOf(f, unit) ==
  LET dfs == DecimalSeconds(f.s, unit)
  IN  [SecondTime((3600 * f.h) + (60 * f.min)) EXCEPT !.s = dfs.s, !.sub = dfs.sub]

\* What is read: a time point in its unit, unless the stream is set to fail.
Read(format, text, unit) ==
  LET su   == StreamUnit(unit)
      f    == ReadFields(format, text, su)
      full == Resolve(f)
      date == DateOf(full)
      tod  == TodOf(f, su)
      secs == ToDuration(tod)[1] - (60 * f.z)
      rest == (secs * Precision(su)) + ToDuration(tod)[2]
  IN  IF full.fail \/ ~DateOK(date) \/ ~InConventionalRange(tod, su) THEN [fail |-> TRUE]
      ELSE [fail |-> FALSE,
            tp |-> (ToDays(date) * unit)
                              + (IF unit < 86400 THEN Trunc(rest, 86400 \div unit)
                                 ELSE Trunc(rest * PerSecond(unit), Precision(unit)))]
===============================================================================
