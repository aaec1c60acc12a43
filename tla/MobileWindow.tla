---------------------------- MODULE MobileWindow ----------------------------
(***************************************************************************)
(* The mobile windows of perf_counters.hh: a circular array of N periods   *)
(* that every call first adjusts to the clock.  The three class templates  *)
(* differ in what a slot holds and in what a reading divides; a slot here  *)
(* holds the sum and the number of the values ticked, and each reading     *)
(* uses what its class keeps.  hr_clock is a steady clock: now never falls.*)
(***************************************************************************)
EXTENDS Integers, Functions

CONSTANTS
  N,      \* the number of periods of a window
  Period  \* the length of a period, in ticks of the clock

ASSUME WindowAssumption == N \in Nat \ {0} /\ Period \in Nat \ {0}

Slot == 0 .. N - 1
EmptySlot == [sum |-> 0, count |-> 0]

\* A window nothing was ticked into; the origin 0 is the empty time point.
NewWindow == [slot |-> [i \in Slot |-> EmptySlot], idx |-> 0, origin |-> 0]

Window == [slot : [Slot -> [sum : Nat, count : Nat]], idx : Nat, origin : Nat]

-----------------------------------------------------------------------------
\* Mutant: the elapsed time has the wrong sign.
PeriodOf_Swapped(w, now) == (w.origin - now) \div Period

\* The number of whole periods since the origin of w.
PeriodOf(w, now) == (now - w.origin) \div Period

\* Mutant: the slot of the new period keeps what is left of an earlier round.
Cleared_NotLast(from, to) ==
  {(from + k) % N : k \in 1 .. ((to - from - 1) % N)}

(***************************************************************************)
(* The slots emptied when the absolute index goes from one value to a      *)
(* larger one: the loop counts up from the old index and stops at the      *)
(* first number that is congruent to the new one, which need not be the    *)
(* new one.                                                                *)
(***************************************************************************)
Cleared(from, to) ==
  {(from + k) % N : k \in 1 .. ((to - from - 1) % N) + 1}

\* adjust_circular_array.
Adjusted(w, now) ==
  LET new == PeriodOf(w, now) IN
  IF w.origin = 0 THEN [w EXCEPT !.origin = now]
  ELSE IF new = w.idx THEN w
  ELSE [w EXCEPT !.idx = new,
                 !.slot = [i \in Slot |-> IF i \in Cleared(w.idx, new)
                                          THEN EmptySlot ELSE @[i]]]

\* The length adjust_circular_array returns, in ticks of the clock: N - 1 whole
\* periods and the part of the current one that has passed.
Length(w, now) ==
  (N - 1) * Period + (IF w.origin = 0 THEN 0 ELSE (now - w.origin) % Period)

-----------------------------------------------------------------------------
\* mobile_average_value::tick; the other two classes keep one part of the slot.
Ticked(w, now, v) ==
  LET a == Adjusted(w, now) IN
  [a EXCEPT !.slot[a.idx % N] = [sum |-> @.sum + v, count |-> @.count + 1]]

Sum(w) == FoldFunction(LAMBDA s, x : s.sum + x, 0, w.slot)
Count(w) == FoldFunction(LAMBDA s, x : s.count + x, 0, w.slot)

\* mobile_average_value::operator().
AverageValue(w, now) ==
  LET a == Adjusted(w, now) IN
  IF Count(a) = 0 THEN 0 ELSE Sum(a) \div Count(a)

\* mobile_average_ticks::operator() and mobile_average_rate::operator(), per
\* period and as fractions.
AverageTicks(w, now) ==
  [num |-> Count(Adjusted(w, now)) * Period, den |-> Length(w, now)]
AverageRate(w, now) ==
  [num |-> Sum(Adjusted(w, now)) * Period, den |-> Length(w, now)]
=============================================================================
