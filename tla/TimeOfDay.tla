------------------------------- MODULE TimeOfDay -------------------------------
(***************************************************************************)
(* The time of day of date.h: a duration since midnight split into fields, *)
(* as far as the unit of the duration is fine enough to have them, with a  *)
(* 12 hour and a 24 hour form.  A unit is given by the number of its ticks *)
(* in a day: 24 for hours, 86400 for seconds, more for fractions of one.   *)
(***************************************************************************)
EXTENDS DateFields

Classes == {"hour", "minute", "second", "subsecond"}

\* The coarsest class whose fields hold every duration of the unit exactly.
Classify(unit) ==
  IF Rem(24, unit) = 0 THEN "hour"
  ELSE IF Rem(1440, unit) = 0 THEN "minute"
  ELSE IF Rem(86400, unit) = 0 THEN "second"
  ELSE "subsecond"

PerSecond(unit) == IF Classify(unit) = "subsecond" THEN unit \div 86400 ELSE 1

\* The decimal digits of 1/n, at most 19, from what is left of 1 and the digits so far.
Width(n) ==
  LET width[p \in Nat \X (0..19)] ==
        IF n < 2 \/ p[1] = 0 \/ p[2] = 19 THEN 0
        ELSE 1 + width[<<(p[1] % n) * 10, p[2] + 1>>]
  IN  width[<<10, 0>>]

\* A power of ten, by squaring the one of half the exponent.
Pow10[e \in Nat] ==
  IF e = 0 THEN 1
  ELSE Pow10[e \div 2] * Pow10[e \div 2] * (IF e % 2 = 1 THEN 10 ELSE 1)

\* Fractions of a second are kept in a power of ten, or in microseconds when
\* no power of ten that fits is exact.
Precision(unit) ==
  LET w == Width(PerSecond(unit)) IN IF w < 19 THEN Pow10[w] ELSE 1000000

\* What every class holds: hours without their sign, the sign, and the 24 hour form.
TimeBase(h, neg) ==
  [h |-> Magnitude(h), m |-> 0, s |-> 0, sub |-> 0, mode |-> "24h", neg |-> neg]

\* Whole seconds, and what is left of n fractions of a second in the precision.
DecimalSeconds(n, unit) ==
  LET s == Trunc(n, PerSecond(unit))
  IN  [s |-> s, sub |-> Trunc((n - (s * PerSecond(unit))) * Precision(unit), PerSecond(unit))]

\* A duration of n hours, minutes, seconds or fractions of a second, split.
HourTime(n) == TimeBase(n, n < 0)

MinuteTime(n) ==
  LET base == TimeBase(Trunc(n, 60), n < 0)
  IN  [base EXCEPT !.m = Magnitude(n) - (60 * base.h)]

SecondTime(n) ==
  LET base == TimeBase(Trunc(n, 3600), n < 0)
      m    == Trunc(Magnitude(n) - (3600 * base.h), 60)
  IN  [base EXCEPT !.m = m, !.s = Magnitude(n) - (3600 * base.h) - (60 * m)]

SubsecondTime(n, unit) ==
  LET base   == TimeBase(Trunc(n, 3600 * PerSecond(unit)), n < 0)
      within == Magnitude(n) - (3600 * base.h * PerSecond(unit))
      m      == Trunc(within, 60 * PerSecond(unit))
      dfs    == DecimalSeconds(within - (60 * m * PerSecond(unit)), unit)
  IN  [base EXCEPT !.m = m, !.s = dfs.s, !.sub = dfs.sub]

\* A duration of n ticks of the unit, converted to the unit of its class and split.
MakeTime(n, unit) ==
  CASE Classify(unit) = "hour"   -> HourTime(n * (24 \div unit))
    [] Classify(unit) = "minute" -> MinuteTime(n * (1440 \div unit))
    [] Classify(unit) = "second" -> SecondTime(n * (86400 \div unit))
    [] OTHER                     -> SubsecondTime(n, unit)

\* A mutant: noon is taken for midnight.
To24hr_NoonIsMidnight(t) ==
  CASE t.mode = "pm" /\ t.h # 12 -> t.h + 12
    [] t.h = 12 /\ t.mode # "24h" -> 0
    [] OTHER                     -> t.h

To24hr(t) ==
  CASE t.mode = "pm" /\ t.h # 12 -> t.h + 12
    [] t.mode = "am" /\ t.h = 12 -> 0
    [] OTHER                     -> t.h

Make24(t) == [t EXCEPT !.h = To24hr(t), !.mode = "24h"]

Make12(t) ==
  IF t.mode # "24h" THEN t
  ELSE [t EXCEPT !.h    = CASE t.h > 12 -> t.h - 12 [] t.h = 0 -> 12 [] OTHER -> t.h,
                 !.mode = IF t.h >= 12 THEN "pm" ELSE "am"]

InConventionalRange(t, unit) ==
  ~t.neg /\ t.h < 24 /\ t.m < 60 /\ t.s < 60 /\ t.sub < Precision(unit)

\* The duration a split time stands for: its whole seconds and its fraction of
\* one, both signed.
ToDuration(t) ==
  LET seconds == (3600 * To24hr(t)) + (60 * t.m) + t.s
  IN  IF t.neg THEN <<-seconds, -t.sub>> ELSE <<seconds, t.sub>>
===============================================================================
