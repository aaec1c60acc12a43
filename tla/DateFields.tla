------------------------------ MODULE DateFields ------------------------------
(***************************************************************************)
(* The fields of a date as date.h keeps them: day, month and weekday in an *)
(* unsigned char, year in a short.  A field is the number it holds; so is  *)
(* a duration.  Fields compare as their numbers do.                        *)
(***************************************************************************)
EXTENDS Integers

Magnitude(n) == IF n < 0 THEN -n ELSE n

\* Division and remainder of C++: the quotient is truncated towards zero.
Quot(a, b) ==
  LET q == Magnitude(a) \div Magnitude(b)
  IN  IF (a < 0) = (b < 0) THEN q ELSE -q
Rem(a, b) == a - (b * Quot(a, b))

-------------------------------------------------------------------------------
\* The roundings of a duration of n ticks to a unit of size ticks, in units.

Trunc(n, size) == Quot(n, size)

Floor(n, size) ==
  LET t == Trunc(n, size) IN IF t * size > n THEN t - 1 ELSE t

Ceil(n, size) ==
  LET t == Trunc(n, size) IN IF t * size < n THEN t + 1 ELSE t

\* To the nearest, to the even neighbour on a tie.
Round(n, size) ==
  LET t0    == Floor(n, size)
      diff0 == n - (t0 * size)
      diff1 == ((t0 + 1) * size) - n
      even  == t0 - (2 * Quot(t0, 2)) = 0
  IN  IF diff0 < diff1 \/ (diff0 = diff1 /\ even) THEN t0 ELSE t0 + 1

-------------------------------------------------------------------------------
Day(n)        == n % 256
DayOK(d)      == d \in 1..31
DayPlus(d, n) == Day(d + n)

Month(n)          == n % 256
MonthOK(m)        == m \in 1..12
NextMonth(m)      == IF Month(m + 1) = 13 THEN 1 ELSE Month(m + 1)
PreviousMonth(m)  == IF Month(m - 1) = 0 THEN 12 ELSE Month(m - 1)
MonthMinus(a, b)  == IF a - b \in 0..11 THEN a - b ELSE (a - b) + 12

MonthPlus(m, n) ==
  LET mu == (m - 1) + n
      yr == Quot(IF mu >= 0 THEN mu ELSE mu - 11, 12)
  IN  Month((mu - (yr * 12)) + 1)

\* A mutant: centuries are leap years.
IsLeap_Julian(y) == Rem(y, 4) = 0

\* A short wraps around.
Year(n)        == ((n + 32768) % 65536) - 32768
IsLeap(y) == Rem(y, 4) = 0 /\ (Rem(y, 100) # 0 \/ Rem(y, 400) = 0)
YearPlus(y, n) == Year(y + n)

Sun == 0
Mon == 1
Thu == 4
WeekdayOK(wd)       == wd \in 0..6
WeekdayFromDays(z) == IF z >= -4 THEN Rem(z + 4, 7) ELSE Rem(z + 5, 7) + 6
WeekdayMinus(a, b)  == IF a - b \in 0..6 THEN a - b ELSE (a - b) + 7
NextWeekday(wd)     == IF wd + 1 = 7 THEN 0 ELSE wd + 1
PreviousWeekday(wd) == IF wd = 0 THEN 6 ELSE wd - 1

WeekdayPlus(wd, n) ==
  LET wdu == wd + n
      wk  == Quot(IF wdu >= 0 THEN wdu ELSE wdu - 6, 7)
  IN  wdu - (wk * 7)

===============================================================================
