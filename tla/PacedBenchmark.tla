--------------------------- MODULE PacedBenchmark ---------------------------
(***************************************************************************)
(* The parallel benchmark against the clock: the rate generator sends, the *)
(* executor takes the measurements (parallel_a of executor_actor.cpp), and *)
(* both keep mobile windows.  The chains are any delay; current_rate_ of   *)
(* the executor ticks with mobile_current_latency_, and is its counts.     *)
(***************************************************************************)
EXTENDS RateControl, FiniteSetsExt

VARIABLES
  current_latency,  \* mobile_current_latency_
  sender_log,       \* history: what was ticked into avg_rate_, by period
  executor_log      \* history: what was ticked into mobile_current_latency_

vars == <<rateVars, current_latency, sender_log, executor_log>>

\* The history of a window: per period what was ticked, and the period in which
\* it was last adjusted after a pause that it does not clear up after.
Log == [ticks : [0 .. MaxClock -> [sum : Nat, count : Nat]], pause : Int]
NewLog == [ticks |-> [p \in 0 .. MaxClock |-> EmptySlot], pause |-> -N]

\* A pause of more than N periods that is no multiple of N.
LongPause(w, now) ==
  LET d == PeriodOf(w, now) - w.idx IN w.origin # 0 /\ d > N /\ d % N # 0

Logged(log, w, now, v) ==
  LET p == IF w.origin = 0 THEN 0 ELSE PeriodOf(w, now) IN
  [ticks |-> [log.ticks EXCEPT ![p] = [sum |-> @.sum + v, count |-> @.count + 1]],
   pause |-> IF LongPause(w, now) THEN p ELSE log.pause]

TypeOK ==
  /\ RateTypeOK
  /\ current_latency \in Window
  /\ sender_log \in Log
  /\ executor_log \in Log

Init ==
  /\ RateInit
  /\ current_latency = NewWindow
  /\ sender_log = NewLog
  /\ executor_log = NewLog

\* The steps of the rate generator; SendOne is the one that ticks.
SenderStep ==
  /\ RateStep
  /\ sender_log' = IF sent' = sent THEN sender_log
                   ELSE Logged(sender_log, avg_rate, clock, 1)
  /\ UNCHANGED <<current_latency, executor_log>>

\* parallel_a: the latency of the pipeline is none, or all, of the time
\* since the send.
Parallel ==
  /\ in_flight # <<>>
  /\ \E orig \in {0, clock - Head(in_flight)} :
       /\ current_latency' = Ticked(current_latency, clock, orig)
       /\ executor_log' = Logged(executor_log, current_latency, clock, orig)
  /\ in_flight' = Tail(in_flight)
  /\ UNCHANGED <<clock, pc, now_tp, in_batch, counter, avg_rate, sent,
                 late, overtime, sender_log>>

TimePasses == Pass /\ UNCHANGED <<current_latency, sender_log, executor_log>>

Next == SenderStep \/ Parallel \/ TimePasses

Spec == Init /\ [][Next]_vars

-----------------------------------------------------------------------------
(***************************************************************************)
(* However the thread is preempted and however the loop catches up, the    *)
(* rate generator never runs ahead of the rate by more than the batch it   *)
(* is sending.                                                             *)
(***************************************************************************)
NeverAhead ==
  sent > Batch /\ sent < CounterLimit => start_tp + Due(sent - Batch) <= clock

(***************************************************************************)
(* A generator with a duration sends no message that the rate puts after   *)
(* the end, except for the rest of a batch.                                *)
(***************************************************************************)
NeverTooMany ==
  Length_s > 0 /\ sent > Batch /\ sent < CounterLimit =>
    Due(sent - Batch) < Length_s * Second

(***************************************************************************)
(* The generator ends when its time is over, neither before nor with       *)
(* messages missing - unless the next message was overdue when it read the *)
(* clock for the last time.                                                *)
(***************************************************************************)
SendsItsShare ==
  pc = "done" /\ sent < CounterLimit =>
    /\ start_tp + Length_s * Second <= clock
    /\ Due(sent) >= Length_s * Second \/ late

(***************************************************************************)
(* The loop takes the end of its sleep for the time, so it may begin a     *)
(* round after the end when it overslept - once, because the round reads   *)
(* the clock again.                                                        *)
(***************************************************************************)
OneRoundOvertime == overtime <= 1

(***************************************************************************)
(* What a window reads is the average over the last N periods, of which    *)
(* the current one counts as far as it has gone; after a pause that is not *)
(* cleared up after, that is so again as soon as N - 1 more periods have   *)
(* gone by.                                                                *)
(***************************************************************************)
ReadsRecent(w, log) ==
  LET p == PeriodOf(w, clock)
      recent == {q \in 0 .. MaxClock : p - N < q /\ q <= p}
      s == MapThenSumSet(LAMBDA q : log.ticks[q].sum, recent)
      n == MapThenSumSet(LAMBDA q : log.ticks[q].count, recent)
      time == clock - (w.origin + (p - N + 1) * Period)
  IN
  /\ AverageValue(w, clock) = IF n = 0 THEN 0 ELSE s \div n
  /\ AverageTicks(w, clock) = [num |-> n * Period, den |-> time]
  /\ AverageRate(w, clock) = [num |-> s * Period, den |-> time]

Recovers(w, log) ==
  w.origin # 0 /\ ~ LongPause(w, clock)
    /\ PeriodOf(w, clock) - log.pause >= N - 1 => ReadsRecent(w, log)

WindowsRecover ==
  Recovers(avg_rate, sender_log) /\ Recovers(current_latency, executor_log)
=============================================================================
