----------------------------- MODULE RateControl -----------------------------
(***************************************************************************)
(* The rate generator against the clock (rate_generator.cpp): act() sends, *)
(* reads the clock, and sleeps until the next message is due.  The clock   *)
(* may pass between any two steps: the thread can be preempted anywhere,   *)
(* and sleep_for lasts at least as long as it is told to.                  *)
(***************************************************************************)
EXTENDS MobileWindow, Sequences

CONSTANTS
  Rate,          \* parallel_.rate_: messages per second
  Second,        \* ticks of the clock in a second
  Length_s,      \* general_.duration_ in seconds, 0 for an endless benchmark
  Batch,         \* messages sent per round of the loop
  CounterLimit,  \* the number of values of the unsigned msg_counter_
  MaxClock,      \* bound: the clock stops there
  MaxSent        \* bound: no round of the loop begins after so many messages

ASSUME RateAssumption ==
  /\ Rate \in Nat \ {0}
  /\ Second \in Nat \ {0}
  /\ Length_s \in Nat
  /\ Batch \in Nat \ {0}
  /\ CounterLimit \in Nat \ {0}
  /\ MaxClock \in Nat
  /\ MaxSent \in Nat

VARIABLES
  clock,      \* hr_clock::now(), from when act() reads it first
  pc,         \* where act() is
  now_tp,     \* now_tp: a reading of the clock, or the time slept until
  in_batch,   \* tmp_counter
  counter,    \* msg_counter_
  avg_rate,   \* avg_rate_
  in_flight,  \* when the messages on their way were sent, oldest first
  sent,       \* history: the number of messages sent
  late,       \* history: the last reading of the clock was later than due
  overtime    \* history: rounds of the loop begun when the duration was over

sentVars == <<avg_rate, in_flight, sent>>

rateVars == <<clock, pc, now_tp, in_batch, counter, sentVars, late, overtime>>

\* start_tp_: the first reading of the clock; 0 is the empty time point.
start_tp == 1

RateTypeOK ==
  /\ clock \in Nat \ {0}
  /\ pc \in {"measure", "loop", "pace", "sleep", "done"}
  /\ now_tp \in Nat
  /\ in_batch \in 0 .. Batch - 1
  /\ counter \in 0 .. CounterLimit - 1
  /\ avg_rate \in Window
  /\ in_flight \in Seq(Nat)
  /\ sent \in Nat
  /\ late \in BOOLEAN
  /\ overtime \in Nat

RateInit ==
  /\ clock = start_tp
  /\ pc = "measure"
  /\ now_tp = 0
  /\ in_batch = 0
  /\ counter = 0
  /\ avg_rate = NewWindow
  /\ in_flight = <<>>
  /\ sent = 0
  /\ late = FALSE
  /\ overtime = 0

-----------------------------------------------------------------------------
\* The time, after the start, at which the message after n messages is due;
\* duration_cast drops the fraction of a tick.
Due(n) == (n * Second) \div Rate

\* end_tp > now, where end_tp is the largest time point for duration 0.
Before(now) == Length_s = 0 \/ start_tp + Length_s * Second > now

\* The first now_tp.
Measure ==
  /\ pc = "measure"
  /\ pc' = "loop"
  /\ now_tp' = clock
  /\ late' = (clock > start_tp)
  /\ UNCHANGED <<clock, in_batch, counter, sentVars, overtime>>

\* Mutant: the counter is not brought up by a whole batch.
CounterAfter_One(c) == (c + 1) % CounterLimit

\* msg_counter_ after a batch.
CounterAfter(c) == (c + Batch) % CounterLimit

\* One message; the condition of the loop is looked at before the first of a
\* batch, and it looks at now_tp.
SendOne ==
  /\ pc = "loop"
  /\ in_batch > 0 \/ (Before(now_tp) /\ sent < MaxSent)
  /\ in_flight' = Append(in_flight, clock)
  /\ sent' = sent + 1
  /\ avg_rate' = Ticked(avg_rate, clock, 1)
  /\ overtime' = IF in_batch = 0 /\ ~ Before(clock) THEN overtime + 1 ELSE overtime
  /\ \/ /\ in_batch + 1 < Batch
        /\ in_batch' = in_batch + 1
        /\ UNCHANGED <<pc, counter>>
     \/ /\ in_batch + 1 >= Batch
        /\ in_batch' = 0
        /\ counter' = CounterAfter(counter)
        /\ pc' = "pace"
  /\ UNCHANGED <<clock, now_tp, late>>

\* Mutants: the next message is due one message early, or late; now_tp is what the sleep
\* was to end at, and is left alone when there is no sleep.
NextSend_OneEarly == start_tp + Due(counter - 1)
NextSend_OneLate == start_tp + Due(counter + 1)
ReadClock_Skipped == now_tp

\* next_send_tp, and the reading of the clock it is compared with.
NextSend == start_tp + Due(counter)
ReadClock == clock

\* The end of a round: sleep until the next message is due, if it is not yet.
\* now_tp += sleep_interval does not read the clock again.
Pace ==
  /\ pc = "pace"
  /\ \/ NextSend > ReadClock /\ pc' = "sleep" /\ now_tp' = NextSend
     \/ NextSend <= ReadClock /\ pc' = "loop" /\ now_tp' = ReadClock
  /\ late' = (clock > start_tp + Due(counter))
  /\ UNCHANGED <<clock, in_batch, counter, sentVars, overtime>>

\* sleep_for returns.
Wake ==
  /\ pc = "sleep"
  /\ clock >= now_tp
  /\ pc' = "loop"
  /\ UNCHANGED <<clock, now_tp, in_batch, counter, sentVars, late, overtime>>

\* The loop is over; what the report computes is left out.
Finish ==
  /\ pc = "loop"
  /\ in_batch = 0
  /\ ~ Before(now_tp)
  /\ pc' = "done"
  /\ UNCHANGED <<clock, now_tp, in_batch, counter, sentVars, late, overtime>>

\* Time passes.
Pass ==
  /\ clock < MaxClock
  /\ clock' = clock + 1
  /\ UNCHANGED <<pc, now_tp, in_batch, counter, sentVars, late, overtime>>

RateStep == Measure \/ SendOne \/ Pace \/ Wake \/ Finish
=============================================================================
