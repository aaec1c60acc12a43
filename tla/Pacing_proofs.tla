---------------------------- MODULE Pacing_proofs ----------------------------
(***************************************************************************)
(* The rate generator keeps its promises about the clock for every rate,   *)
(* batch, duration and width of the counter, and for every way the clock   *)
(* passes between its steps.                                               *)
(***************************************************************************)
EXTENDS PacedBenchmark, Sums

(***************************************************************************)
(* Division by a positive number keeps the order.                          *)
(***************************************************************************)
LEMMA DivMonotone ==
  ASSUME NEW a \in Nat, NEW b \in Nat, NEW r \in Nat \ {0}, a <= b
  PROVE  a \div r <= b \div r
<1> DEFINE p == a \div r
           q == b \div r
<1>1. p \in Nat /\ a >= p * r /\ a < (p + 1) * r
  BY SMT
<1>2. q \in Nat /\ b >= q * r /\ b < (q + 1) * r
  BY SMT
<1>3. p * r < (q + 1) * r
  <2>1. p * r \in Nat /\ (q + 1) * r \in Nat
    BY <1>1, <1>2, SMT
  <2> QED BY <1>1, <1>2, <2>1, SMT
<1> HIDE DEF p, q
<1>4. ~ (q + 1 <= p)
  <2> SUFFICES ASSUME q + 1 <= p PROVE FALSE OBVIOUS
  <2>1. (q + 1) * r <= p * r
    BY <1>1, <1>2, SMT
  <2> QED BY <2>1, <1>3, <1>1, <1>2, SMT
<1>5. p <= q
  BY <1>1, <1>2, <1>4
<1> QED BY <1>5 DEF p, q

(***************************************************************************)
(* Later messages are not due earlier; the first is due at the start.      *)
(***************************************************************************)
LEMMA DueMonotone ==
  ASSUME NEW m \in Nat, NEW n \in Nat, m <= n
  PROVE  Due(m) \in Nat /\ Due(n) \in Nat /\ Due(m) <= Due(n)
<1>1. Rate \in Nat \ {0} /\ Second \in Nat
  BY RateAssumption
<1>2. m * Second \in Nat /\ n * Second \in Nat /\ m * Second <= n * Second
  BY <1>1, SMT
<1>3. (m * Second) \div Rate <= (n * Second) \div Rate
  BY <1>1, <1>2, DivMonotone
<1>4. (m * Second) \div Rate \in Nat /\ (n * Second) \div Rate \in Nat
  BY <1>1, <1>2, SMT
<1> QED BY <1>3, <1>4 DEF Due

\* The first message is due at the start.
LEMMA DueAtStart == Due(0) = 0
BY RateAssumption, SMT DEF Due

-----------------------------------------------------------------------------
(***************************************************************************)
(* The inductive invariant, as long as msg_counter_ has not wrapped around *)
(* and as for what the clock has to do with.                               *)
(***************************************************************************)
End == start_tp + Length_s * Second

PaceTypes ==
  /\ clock \in Nat \ {0}
  /\ pc \in {"measure", "loop", "pace", "sleep", "done"}
  /\ now_tp \in Nat
  /\ in_batch \in 0 .. Batch - 1
  /\ counter \in Nat
  /\ sent \in Nat
  /\ overtime \in 0 .. 1

\* Where act() is and what it holds; a batch is never left half sent.
Position ==
  /\ pc = "measure" => sent = 0 /\ overtime = 0
  /\ pc # "loop" => in_batch = 0
  /\ pc = "loop" => now_tp <= clock
  /\ pc = "done" => Length_s > 0 /\ End <= now_tp /\ now_tp <= clock

\* The counter is the number of messages sent in whole batches.
Counted == sent < CounterLimit => counter + in_batch = sent

\* A round of the loop begins when its first message is due, unless it is late.
Regulated ==
  sent < CounterLimit =>
    /\ pc = "loop" => start_tp + Due(counter) <= now_tp
    /\ pc \in {"loop", "done"} /\ in_batch = 0 => late \/ now_tp <= start_tp + Due(counter)
    /\ pc = "sleep" => now_tp = start_tp + Due(counter)
    /\ pc = "loop" /\ in_batch > 0 /\ Length_s > 0 => Due(counter) < Length_s * Second

\* Once a round has begun after the end, the next reading of the clock is after it.
Overtime ==
  overtime = 1 =>
    /\ Length_s > 0 /\ End <= clock
    /\ pc = "loop" /\ in_batch = 0 => End <= now_tp
    /\ pc = "sleep" => End <= now_tp

IInv == PaceTypes /\ Position /\ Counted /\ Regulated /\ Overtime /\ NeverAhead /\ NeverTooMany

(***************************************************************************)
(* The terms the invariant is about are natural numbers.                   *)
(***************************************************************************)
LEMMA Numbers ==
  /\ Rate \in Nat \ {0} /\ Batch \in Nat \ {0} /\ CounterLimit \in Nat \ {0}
  /\ Length_s \in Nat /\ Length_s * Second \in Nat /\ MaxSent \in Nat
  /\ Length_s > 0 => Length_s * Second > 0
  /\ start_tp = 1 /\ Due(0) = 0
  /\ \A n \in Nat : Due(n) \in Nat
<1>1. Rate \in Nat \ {0} /\ Batch \in Nat \ {0} /\ CounterLimit \in Nat \ {0}
      /\ Length_s \in Nat /\ Second \in Nat \ {0} /\ MaxSent \in Nat
  BY RateAssumption
<1>2. Length_s * Second \in Nat /\ (Length_s > 0 => Length_s * Second > 0)
  BY <1>1, SMT
<1>3. \A n \in Nat : Due(n) \in Nat
  BY DueMonotone
<1> QED BY <1>1, <1>2, <1>3, DueAtStart DEF start_tp

(***************************************************************************)
(* before the end: what the condition of the loop says of a time.          *)
(***************************************************************************)
LEMMA BeforeEnd ==
  ASSUME NEW t \in Nat
  PROVE  /\ Before(t) <=> (Length_s = 0 \/ End > t)
         /\ ~ Before(t) <=> (Length_s > 0 /\ End <= t)
BY Numbers, SMT DEF Before, End

\* The rate generator starts in the invariant.
THEOREM PaceInit == Init => IInv
<1> SUFFICES ASSUME Init PROVE IInv OBVIOUS
<1> USE Numbers DEF Init, RateInit
<1>1. PaceTypes
  BY SMT DEF PaceTypes
<1>2. Position /\ Counted
  BY SMT DEF Position, Counted
<1>3. Regulated /\ Overtime
  BY SMT DEF Regulated, Overtime
<1>4. NeverAhead /\ NeverTooMany
  BY SMT DEF NeverAhead, NeverTooMany
<1> QED BY <1>1, <1>2, <1>3, <1>4 DEF IInv

(***************************************************************************)
(* What act() does before its loop, after a round, and after the loop.     *)
(***************************************************************************)
LEMMA PaceMeasure == IInv /\ Measure => IInv'
<1> SUFFICES ASSUME IInv, Measure PROVE IInv' OBVIOUS
<1> USE Numbers DEF IInv, Measure, sentVars
<1>1. PaceTypes' /\ Position' /\ Counted' /\ Overtime'
  BY SMT DEF PaceTypes, Position, Counted, Overtime
<1>2. counter = 0 \/ ~ (sent < CounterLimit)
  BY SMT DEF Position, Counted, PaceTypes
<1>3. late' \/ ~ (clock > start_tp)
  OBVIOUS
<1>4. Regulated'
  <2>1. start_tp + Due(counter') <= now_tp' \/ ~ (sent' < CounterLimit)
    BY <1>2, SMT DEF PaceTypes
  <2>2. late' \/ now_tp' <= start_tp + Due(counter') \/ ~ (sent' < CounterLimit)
    <3>1. now_tp' <= start_tp + Due(counter') \/ clock > start_tp \/ ~ (sent' < CounterLimit)
      BY <1>2, SMT DEF PaceTypes
    <3> QED BY <1>3, <3>1, Zenon
  <2>3. pc' = "loop" /\ in_batch' = 0
    BY SMT DEF Position
  <2> QED BY <2>1, <2>2, <2>3 DEF Regulated
<1>5. NeverAhead' /\ NeverTooMany'
  BY SMT DEF NeverAhead, NeverTooMany, Due
<1> QED BY <1>1, <1>4, <1>5

\* The next round is due, or the clock has been read late.
LEMMA PacePace == IInv /\ Pace => IInv'
<1> SUFFICES ASSUME IInv, Pace PROVE IInv' OBVIOUS
<1> USE Numbers DEF IInv, Pace, sentVars, NextSend, ReadClock
<1>1. Due(counter) \in Nat /\ End \in Nat
  BY SMT DEF PaceTypes, End
<1>2. PaceTypes' /\ Position' /\ Counted'
  BY <1>1, SMT DEF PaceTypes, Position, Counted
<1>3. Regulated'
  <2>1. pc' = "loop" => start_tp + Due(counter') <= now_tp'
    BY <1>1, SMT DEF PaceTypes
  <2>2. pc' = "loop" => late' \/ now_tp' <= start_tp + Due(counter')
    <3>1. pc' = "loop" => clock > start_tp + Due(counter) \/ now_tp' <= start_tp + Due(counter')
      BY <1>1, SMT DEF PaceTypes
    <3>2. late' \/ ~ (clock > start_tp + Due(counter))
      OBVIOUS
    <3> QED BY <3>1, <3>2, Zenon
  <2>3. pc' = "sleep" => now_tp' = start_tp + Due(counter')
    BY <1>1, SMT DEF PaceTypes
  <2>4. in_batch' = 0 /\ pc' # "done"
    BY SMT DEF Position
  <2>5. ~ (in_batch' > 0)
    BY <2>4, SMT
  <2> QED BY <2>1, <2>2, <2>3, <2>4, <2>5, Zenon DEF Regulated
<1>4. Overtime'
  BY <1>1, SMT DEF Overtime, PaceTypes, Position, End
<1>5. NeverAhead' /\ NeverTooMany'
  BY SMT DEF NeverAhead, NeverTooMany, Due
<1> QED BY <1>2, <1>3, <1>4, <1>5

\* After a sleep the clock is past the time the round was due.
LEMMA PaceWake == IInv /\ Wake => IInv'
<1> SUFFICES ASSUME IInv, Wake PROVE IInv' OBVIOUS
<1> USE Numbers DEF IInv, Wake, sentVars
<1>1. Due(counter) \in Nat /\ End \in Nat
  BY SMT DEF PaceTypes, End
<1>2. PaceTypes' /\ Position' /\ Counted'
  BY SMT DEF PaceTypes, Position, Counted
<1>3. Regulated' /\ Overtime'
  BY <1>1, SMT DEF Regulated, Overtime, PaceTypes, Position, End
<1>4. NeverAhead' /\ NeverTooMany'
  BY SMT DEF NeverAhead, NeverTooMany, Due
<1> QED BY <1>2, <1>3, <1>4

\* The loop ends only when the time is over.
LEMMA PaceFinish == IInv /\ Finish => IInv'
<1> SUFFICES ASSUME IInv, Finish PROVE IInv' OBVIOUS
<1> USE Numbers DEF IInv, Finish, sentVars
<1>1. Due(counter) \in Nat /\ End \in Nat
  BY SMT DEF PaceTypes, End
<1>2. Length_s > 0 /\ End <= now_tp
  BY BeforeEnd DEF PaceTypes
<1>3. PaceTypes' /\ Position' /\ Counted'
  BY <1>1, <1>2, SMT DEF PaceTypes, Position, Counted, End
<1>4. Regulated' /\ Overtime'
  BY <1>1, SMT DEF Regulated, Overtime, PaceTypes, Position, End
<1>5. NeverAhead' /\ NeverTooMany'
  BY SMT DEF NeverAhead, NeverTooMany, Due
<1> QED BY <1>3, <1>4, <1>5

(***************************************************************************)
(* A message: the counter goes up only with the last of a batch, and the   *)
(* first of a batch needs the condition of the loop.                       *)
(***************************************************************************)
LEMMA PaceSendOne == IInv /\ SendOne => IInv'
<1> SUFFICES ASSUME IInv, SendOne PROVE IInv' OBVIOUS
<1> USE Numbers
<1>1. /\ pc = "loop" /\ sent' = sent + 1 /\ sent \in Nat
      /\ clock' = clock /\ now_tp' = now_tp /\ late' = late
      /\ in_batch > 0 \/ Before(now_tp)
      /\ now_tp \in Nat /\ clock \in Nat \ {0} /\ now_tp <= clock
      /\ counter \in Nat /\ Due(counter) \in Nat /\ End \in Nat
      /\ in_batch \in 0 .. Batch - 1 /\ End = 1 + Length_s * Second
  <2>1. /\ pc = "loop" /\ sent' = sent + 1
        /\ clock' = clock /\ now_tp' = now_tp /\ late' = late
        /\ in_batch > 0 \/ Before(now_tp)
    BY DEF SendOne
  <2>2. /\ now_tp \in Nat /\ clock \in Nat \ {0} /\ sent \in Nat
        /\ counter \in Nat /\ in_batch \in 0 .. Batch - 1
    BY DEF IInv, PaceTypes
  <2>3. now_tp <= clock
    BY <2>1 DEF IInv, Position
  <2>4. Due(counter) \in Nat
    BY <2>2
  <2>5. End = 1 + Length_s * Second /\ End \in Nat
    BY SMT DEF End
  <2> QED BY <2>1, <2>2, <2>3, <2>4, <2>5
<1>2. \/ /\ in_batch + 1 < Batch /\ in_batch' = in_batch + 1
         /\ pc' = "loop" /\ counter' = counter
      \/ /\ in_batch = Batch - 1 /\ in_batch' = 0 /\ pc' = "pace"
         /\ counter' = (counter + Batch) % CounterLimit
  BY <1>1, SMT DEF SendOne, CounterAfter
<1>3. sent' < CounterLimit =>
        /\ counter + in_batch = sent
        /\ start_tp + Due(counter) <= now_tp
        /\ in_batch > 0 /\ Length_s > 0 => Due(counter) < Length_s * Second
  BY <1>1, SMT DEF IInv, Counted, Regulated
<1>4. Counted'
  <2>1. CASE in_batch' = in_batch + 1 /\ counter' = counter
    BY <1>1, <1>3, <2>1, SMT DEF Counted
  <2>2. CASE in_batch = Batch - 1 /\ in_batch' = 0 /\ counter' = (counter + Batch) % CounterLimit
    <3>1. sent' < CounterLimit => counter + Batch = sent' /\ (counter + Batch) % CounterLimit = counter + Batch
      BY <1>1, <1>3, <2>2, SMT
    <3> QED BY <3>1, <2>2, <1>1, SMT DEF Counted
  <2> QED BY <1>2, <2>1, <2>2
<1>5. Length_s > 0 /\ sent' < CounterLimit => Due(counter) < Length_s * Second
  BY <1>1, <1>3, BeforeEnd, SMT
<1>6. PaceTypes'
  <2>1. counter' \in Nat /\ in_batch' \in 0 .. Batch - 1 /\ pc' \in {"loop", "pace"}
    BY <1>1, <1>2, SMT
  <2>2. overtime' \in 0 .. 1
    <3>1. CASE overtime' = overtime
      BY <3>1 DEF IInv, PaceTypes
    <3>2. CASE overtime' = overtime + 1 /\ in_batch = 0 /\ ~ Before(clock)
      <4>1. Length_s > 0 /\ ~ (End <= now_tp)
        BY <1>1, <3>2, BeforeEnd, SMT
      <4>2. overtime = 0
        BY <1>1, <3>2, <4>1, SMT DEF IInv, PaceTypes, Overtime
      <4> QED BY <3>2, <4>2, SMT
    <3> QED BY <3>1, <3>2 DEF SendOne
  <2> QED BY <1>1, <2>1, <2>2, SMT DEF PaceTypes
<1>7. Position'
  BY <1>1, <1>2, SMT DEF Position
<1>8. Regulated'
  <2>1. ~ (pc' = "done") /\ (pc' = "loop" => in_batch' > 0 /\ counter' = counter) /\ pc' # "sleep"
    BY <1>1, <1>2, SMT
  <2>2. sent' < CounterLimit =>
          /\ pc' = "loop" => start_tp + Due(counter') <= now_tp'
          /\ pc' = "loop" /\ in_batch' > 0 /\ Length_s > 0 => Due(counter') < Length_s * Second
    BY <1>1, <1>3, <1>5, <2>1, SMT
  <2>3. pc' \in {"loop", "done"} /\ in_batch' = 0 => FALSE
    BY <2>1, SMT
  <2> QED BY <2>1, <2>2, <2>3, Zenon DEF Regulated
<1>9. Overtime'
  <2>1. overtime' = 1 => Length_s > 0 /\ End <= clock
    <3>1. overtime' = overtime \/ ~ Before(clock)
      BY DEF SendOne
    <3>2. ~ Before(clock) => Length_s > 0 /\ End <= clock
      BY <1>1, BeforeEnd
    <3> QED BY <3>1, <3>2 DEF IInv, Overtime
  <2>2. pc' # "sleep" /\ ~ (pc' = "loop" /\ in_batch' = 0)
    BY <1>1, <1>2, SMT
  <2> QED BY <1>1, <2>1, <2>2, SMT DEF Overtime, End, start_tp
<1>10. sent' > Batch /\ sent' < CounterLimit =>
         /\ sent' - Batch \in Nat
         /\ Due(sent' - Batch) \in Nat
         /\ Due(sent' - Batch) <= Due(counter)
  <2> SUFFICES ASSUME sent' > Batch, sent' < CounterLimit
               PROVE  sent' - Batch \in Nat /\ sent' - Batch <= counter
    BY <1>1, DueMonotone
  <2> QED BY <1>1, <1>3, SMT
<1>11. NeverAhead' /\ NeverTooMany'
  <2>1. sent' > Batch /\ sent' < CounterLimit => start_tp + Due(sent' - Batch) <= clock'
    BY <1>1, <1>3, <1>10, SMT
  <2>2. Length_s > 0 /\ sent' > Batch /\ sent' < CounterLimit =>
          Due(sent' - Batch) < Length_s * Second
    BY <1>1, <1>5, <1>10, SMT
  <2> QED BY <2>1, <2>2 DEF NeverAhead, NeverTooMany, Due, start_tp
<1> QED BY <1>4, <1>6, <1>7, <1>8, <1>9, <1>11 DEF IInv

\* Time passes at any point, and makes the clock that was read older.
LEMMA PacePass == IInv /\ Pass => IInv'
<1> SUFFICES ASSUME IInv, Pass PROVE IInv' OBVIOUS
<1> USE Numbers DEF IInv, Pass, sentVars
<1>1. clock' = clock + 1 /\ clock \in Nat \ {0} /\ now_tp \in Nat /\ End \in Nat
  BY SMT DEF PaceTypes, End
<1>2. PaceTypes' /\ Position' /\ Counted'
  BY <1>1, SMT DEF PaceTypes, Position, Counted, End
<1>3. Regulated'
  BY DEF Regulated, Due
<1>4. Overtime'
  BY <1>1, SMT DEF Overtime, End
<1>5. NeverAhead' /\ NeverTooMany'
  <2>1. ASSUME sent > Batch PROVE Due(sent - Batch) \in Nat
    <3>1. sent - Batch \in Nat
      BY <2>1, SMT DEF PaceTypes
    <3> QED BY <3>1
  <2> QED BY <1>1, <2>1, SMT DEF NeverAhead, NeverTooMany
<1> QED BY <1>2, <1>3, <1>4, <1>5

\* Every step of the rate generator and of time keeps the invariant.
LEMMA PaceStep == IInv /\ [Next]_vars => IInv'
<1> SUFFICES ASSUME IInv, [Next]_vars PROVE IInv' OBVIOUS
<1>1. CASE SenderStep
  <2>1. RateStep
    BY <1>1 DEF SenderStep
  <2> QED BY <2>1, PaceMeasure, PaceSendOne, PacePace, PaceWake, PaceFinish DEF RateStep
<1>2. CASE TimePasses
  BY <1>2, PacePass DEF TimePasses
<1>3. CASE Parallel \/ UNCHANGED vars
  <2>1. UNCHANGED <<clock, pc, now_tp, in_batch, counter, sent, late, overtime>>
    BY <1>3 DEF Parallel, vars, rateVars, sentVars
  <2> QED BY <2>1 DEF IInv, PaceTypes, Position, Counted, Regulated, Overtime,
                      NeverAhead, NeverTooMany, End, Due, start_tp
<1> QED BY <1>1, <1>2, <1>3 DEF Next

\* The invariant holds in every state of the paced rate generator.
THEOREM PaceInvariant == Spec => []IInv
<1>1. Init => IInv
  BY PaceInit
<1>2. IInv /\ [Next]_vars => IInv'
  BY PaceStep
<1> QED BY <1>1, <1>2, PTL DEF Spec

-----------------------------------------------------------------------------
(***************************************************************************)
(* No preemption, sleep or catching up lets the rate generator run ahead   *)
(* of the rate by more than a batch, whatever the rate and the batch.      *)
(***************************************************************************)
THEOREM RateIsKept == Spec => []NeverAhead
<1>1. IInv => NeverAhead
  BY DEF IInv
<1> QED BY <1>1, PaceInvariant, PTL

(***************************************************************************)
(* No message is sent that the rate puts after the end, but for the rest   *)
(* of a batch, whatever the duration.                                      *)
(***************************************************************************)
THEOREM DurationIsKept == Spec => []NeverTooMany
<1>1. IInv => NeverTooMany
  BY DEF IInv
<1> QED BY <1>1, PaceInvariant, PTL

(***************************************************************************)
(* act() returns when its time is over and its messages have been sent,    *)
(* unless its last reading of the clock was late.                          *)
(***************************************************************************)
THEOREM ShareIsSent == Spec => []SendsItsShare
<1>1. IInv => SendsItsShare
  <2> SUFFICES ASSUME IInv, pc = "done", sent < CounterLimit
               PROVE  /\ start_tp + Length_s * Second <= clock
                      /\ Due(sent) >= Length_s * Second \/ late
    BY DEF SendsItsShare
  <2>1. /\ End <= now_tp /\ now_tp <= clock /\ now_tp \in Nat /\ clock \in Nat
        /\ End = 1 + Length_s * Second /\ Length_s * Second \in Nat
    BY Numbers, SMT DEF IInv, Position, PaceTypes, End
  <2>2. sent = counter /\ in_batch = 0 /\ Due(sent) \in Nat
    BY Numbers, SMT DEF IInv, Position, Counted, PaceTypes
  <2>3. late \/ now_tp <= start_tp + Due(sent)
    BY <2>2 DEF IInv, Regulated
  <2>4. now_tp <= start_tp + Due(sent) => Due(sent) >= Length_s * Second
    BY <2>1, <2>2, Numbers, SMT
  <2>5. start_tp + Length_s * Second <= clock
    BY <2>1, Numbers, SMT
  <2> QED BY <2>3, <2>4, <2>5
<1> QED BY <1>1, PaceInvariant, PTL

(***************************************************************************)
(* A generator that overslept its end sends one more round at most.        *)
(***************************************************************************)
THEOREM OvertimeIsShort == Spec => []OneRoundOvertime
<1>1. IInv => OneRoundOvertime
  BY SMT DEF IInv, PaceTypes, OneRoundOvertime
<1> QED BY <1>1, PaceInvariant, PTL

-----------------------------------------------------------------------------
(***************************************************************************)
(* The slots of a circular array of N periods.                             *)
(***************************************************************************)

\* Quotient and remainder are unique.
LEMMA RemainderUnique ==
  ASSUME NEW n \in Nat \ {0}, NEW t \in Int, NEW r \in 0 .. n - 1,
         NEW x, x = n * t + r
  PROVE  x % n = r
<1> DEFINE u == x \div n
           m == x % n
<1>1. n * t \in Int
  BY SMT
<1>2. x \in Int
  BY <1>1, SMT
<1>3. u \in Int /\ m \in 0 .. n - 1 /\ x = n * u + m
  BY <1>2, SMT
<1> HIDE DEF u, m
<1>4. n * u \in Int
  BY <1>3, SMT
<1>5. ~ (u + 1 <= t)
  <2> SUFFICES ASSUME u + 1 <= t PROVE FALSE OBVIOUS
  <2>1. n * (u + 1) <= n * t
    BY <1>3, SMT
  <2>2. n * (u + 1) = n * u + n
    BY <1>3, SMT
  <2> QED BY <1>1, <1>3, <1>4, <2>1, <2>2, SMT
<1>6. ~ (t + 1 <= u)
  <2> SUFFICES ASSUME t + 1 <= u PROVE FALSE OBVIOUS
  <2>1. n * (t + 1) <= n * u
    BY <1>3, SMT
  <2>2. n * (t + 1) = n * t + n
    BY SMT
  <2> QED BY <1>1, <1>3, <1>4, <2>1, <2>2, SMT
<1>7. u = t
  BY <1>3, <1>5, <1>6, SMT
<1>8. m = r
  BY <1>1, <1>3, <1>7, SMT
<1> QED BY <1>8 DEF m

\* Adding whole rounds of the array leads to the same slot.
LEMMA SameSlot ==
  ASSUME NEW n \in Nat \ {0}, NEW a \in Int, NEW j \in Int
  PROVE  (a + (j % n)) % n = (a + j) % n
<1> DEFINE b == a + (j % n)
           u == b \div n
           r == b % n
           t == j \div n
<1>1. j % n \in 0 .. n - 1 /\ t \in Int /\ j = n * t + (j % n)
  BY SMT
<1>2. b \in Int
  BY <1>1, SMT
<1> HIDE DEF b
<1>3. u \in Int /\ r \in 0 .. n - 1 /\ b = n * u + r
  BY <1>2, SMT
<1> HIDE DEF u, r, t
<1>4. n * (u + t) = n * u + n * t /\ n * u \in Int /\ n * t \in Int /\ u + t \in Int
  BY <1>1, <1>3, SMT
<1>5. a + j = n * (u + t) + r
  BY <1>1, <1>3, <1>4, SMT DEF b
<1>6. (a + j) % n = r
  <2> DEFINE x == a + j
             w == u + t
  <2>1. x = n * w + r /\ w \in Int
    BY <1>4, <1>5
  <2> HIDE DEF x, w
  <2>2. x % n = r
    BY <1>3, <2>1, RemainderUnique
  <2> QED BY <2>2 DEF x
<1> QED BY <1>6 DEF r, b

\* Periods less than a round apart have slots of their own.
LEMMA OwnSlots ==
  ASSUME NEW n \in Nat \ {0}, NEW a \in Int, NEW b \in Int,
         a < b, b - a < n
  PROVE  a % n # b % n
<1> SUFFICES ASSUME a % n = b % n PROVE FALSE OBVIOUS
<1> DEFINE u == a \div n
           v == b \div n
           r == a % n
<1>1. u \in Int /\ v \in Int /\ r \in 0 .. n - 1 /\ a = n * u + r /\ b = n * v + r
  BY SMT
<1> HIDE DEF u, v, r
<1>2. n * u \in Int /\ n * v \in Int
  BY <1>1, SMT
<1>3. ~ (v <= u)
  <2> SUFFICES ASSUME v <= u PROVE FALSE OBVIOUS
  <2>1. n * v <= n * u
    BY <1>1, SMT
  <2> QED BY <1>1, <1>2, <2>1, SMT
<1>4. n * (u + 1) <= n * v /\ n * (u + 1) = n * u + n
  BY <1>1, <1>3, SMT
<1> QED BY <1>1, <1>2, <1>4, SMT

\* What adjust_circular_array empties when it goes from period a to period b: the
\* slots of the periods since, unless more than a round has passed - then those
\* of whole rounds and, always, the slot of b.
LEMMA WhatIsCleared ==
  ASSUME NEW a \in Nat, NEW b \in Nat, a < b
  PROVE  /\ b - a <= N =>
              /\ \A q \in a + 1 .. b : q % N \in Cleared(a, b)
              /\ \A q \in b - N + 1 .. a : q % N \notin Cleared(a, b)
         /\ (b - a) % N = 0 => \A q \in a + 1 .. b : q % N \in Cleared(a, b)
         /\ b % N \in Cleared(a, b)
<1> DEFINE d == b - a
           e == (d - 1) % N
<1>1. N \in Nat \ {0}
  BY WindowAssumption
<1>2. d \in Nat \ {0}
  OBVIOUS
<1>3. e \in 0 .. N - 1
  <2> HIDE DEF d
  <2> QED BY <1>1, <1>2, SMT
<1>4. Cleared(a, b) = {(a + k) % N : k \in 1 .. e + 1}
  BY DEF Cleared
<1>5. ASSUME d <= N PROVE e = d - 1
  <2> HIDE DEF d
  <2> DEFINE f == d - 1
             z == 0
  <2>1. f \in 0 .. N - 1 /\ f = N * z + f /\ z \in Int
    BY <1>1, <1>2, <1>5
  <2> HIDE DEF e, f, z
  <2>2. f % N = f
    BY <1>1, <2>1, RemainderUnique
  <2> QED BY <2>2 DEF e, f
<1>6. ASSUME d <= N, NEW q \in a + 1 .. b PROVE q % N \in Cleared(a, b)
  <2>1. q - a \in 1 .. e + 1 /\ a + (q - a) = q
    BY <1>2, <1>5, <1>6
  <2> HIDE DEF e
  <2> QED BY <1>4, <2>1
<1>7. ASSUME d <= N, NEW q \in b - N + 1 .. a PROVE q % N \notin Cleared(a, b)
  <2> SUFFICES ASSUME NEW k \in 1 .. e + 1 PROVE (a + k) % N # q % N
    BY <1>4
  <2>1. q \in Int /\ a + k \in Int /\ q < a + k /\ (a + k) - q < N
    BY <1>1, <1>2, <1>5, <1>7
  <2> HIDE DEF e
  <2> QED BY <1>1, <2>1, OwnSlots
<1>8. b % N \in Cleared(a, b)
  <2>1. e + 1 \in 1 .. e + 1 /\ a + (e + 1) = (a + 1) + e
    BY <1>3
  <2>2. ((a + 1) + ((d - 1) % N)) % N = ((a + 1) + (d - 1)) % N
    <3> HIDE DEF d
    <3>1. a + 1 \in Int /\ d - 1 \in Int
      BY <1>2
    <3> QED BY <1>1, <3>1, SameSlot
  <2>3. (a + 1) + (d - 1) = b
    OBVIOUS
  <2>4. (a + (e + 1)) % N = b % N
    BY <2>1, <2>2, <2>3
  <2> HIDE DEF e
  <2> QED BY <1>4, <2>1, <2>4
<1>9. ASSUME d % N = 0, NEW q \in a + 1 .. b PROVE q % N \in Cleared(a, b)
  <2> DEFINE t == d \div N
             j == (q - a) - 1
             k == (j % N) + 1
  <2>1. t \in Int /\ d = N * t
    <3> HIDE DEF d
    <3> QED BY <1>1, <1>2, <1>9, SMT
  <2>2. d - 1 = N * (t - 1) + (N - 1)
    <3> HIDE DEF d, t
    <3>1. N * (t - 1) = N * t - N
      BY <1>1, <2>1, SMT
    <3>2. N * t \in Int
      BY <1>1, <2>1, SMT
    <3> QED BY <1>1, <1>2, <2>1, <3>1, <3>2, SMT
  <2>3. e = N - 1
    <3> HIDE DEF d, t
    <3>1. t - 1 \in Int /\ N - 1 \in 0 .. N - 1
      BY <1>1, <2>1
    <3> QED BY <1>1, <2>2, <3>1, RemainderUnique
  <2>4. j \in Nat
    OBVIOUS
  <2>5. j % N \in 0 .. N - 1
    <3> HIDE DEF j
    <3> QED BY <1>1, <2>4, SMT
  <2>6. k \in 1 .. e + 1 /\ a + k = (a + 1) + (j % N)
    <3> DEFINE w == j % N
    <3>1. w \in 0 .. N - 1
      BY <2>5
    <3> HIDE DEF w, e
    <3>2. k = w + 1
      BY DEF w
    <3> HIDE DEF k
    <3>3. k \in 1 .. e + 1 /\ a + k = (a + 1) + w
      BY <1>1, <2>3, <3>1, <3>2
    <3> QED BY <3>3 DEF w
  <2>7. ((a + 1) + (j % N)) % N = ((a + 1) + j) % N
    <3> HIDE DEF j
    <3>1. a + 1 \in Int /\ j \in Int
      BY <2>4
    <3> QED BY <1>1, <3>1, SameSlot
  <2>8. (a + 1) + j = q
    OBVIOUS
  <2>9. (a + k) % N = q % N
    BY <2>6, <2>7, <2>8
  <2> HIDE DEF k, e
  <2> QED BY <1>4, <2>6, <2>9
<1> QED BY <1>6, <1>7, <1>8, <1>9

-----------------------------------------------------------------------------
(***************************************************************************)
(* The windows beside their histories.                                     *)
(***************************************************************************)

\* What was ticked in period q; nothing before the first one.
TicksIn(log, q) == IF q < 0 THEN EmptySlot ELSE log.ticks[q]

\* The window w holds, slot for slot, the last N periods of its history, or as
\* many as there are since a pause it does not clear up after.
Tracks(w, log, now) ==
  /\ w \in Window /\ log \in Log
  /\ w.origin <= now
  /\ w.origin = 0 => w = NewWindow /\ log = NewLog
  /\ w.origin # 0 => w.idx <= PeriodOf(w, now)
  /\ \A q \in w.idx + 1 .. MaxClock : log.ticks[q] = EmptySlot
  /\ \A q \in w.idx - N + 1 .. w.idx :
       q >= log.pause => w.slot[q % N] = TicksIn(log, q)

Windows ==
  /\ clock - 1 <= MaxClock
  /\ in_flight \in Seq(0 .. clock)
  /\ Tracks(avg_rate, sender_log, clock)
  /\ Tracks(current_latency, executor_log, clock)

\* The period of a time within the bound of the clock.
LEMMA Periods ==
  ASSUME NEW w \in Window, NEW now \in Nat, w.origin <= now, w.origin # 0,
         now - 1 <= MaxClock
  PROVE  /\ PeriodOf(w, now) \in 0 .. MaxClock
         /\ PeriodOf(w, now) <= PeriodOf(w, now + 1)
<1> DEFINE d == now - w.origin
<1>1. w.origin \in Nat /\ Period \in Nat \ {0} /\ MaxClock \in Nat
  BY WindowAssumption, RateAssumption DEF Window
<1>2. d \in Nat /\ d <= MaxClock /\ (now + 1) - w.origin = d + 1
  BY <1>1
<1>3. PeriodOf(w, now) = d \div Period /\ PeriodOf(w, now + 1) = (d + 1) \div Period
  BY <1>2 DEF PeriodOf
<1> HIDE DEF d
<1>4. d \div Period \in Nat /\ d \div Period <= d
  BY <1>1, <1>2, SMT
<1>5. d \div Period <= (d + 1) \div Period
  BY <1>1, <1>2, DivMonotone
<1>6. d \div Period \in 0 .. MaxClock
  BY <1>1, <1>2, <1>4
<1> QED BY <1>3, <1>5, <1>6

\* The slot of a period.
LEMMA SlotOf == ASSUME NEW q \in Int PROVE q % N \in Slot
BY WindowAssumption, SMT DEF Slot

\* The fields of an adjusted window.
LEMMA AdjustedFields ==
  ASSUME NEW w \in Window, NEW now \in Nat, w.origin # 0,
         PeriodOf(w, now) \in Nat, w.idx <= PeriodOf(w, now)
  PROVE  /\ Adjusted(w, now) \in Window
         /\ Adjusted(w, now).idx = PeriodOf(w, now)
         /\ Adjusted(w, now).origin = w.origin
         /\ PeriodOf(w, now) = w.idx => Adjusted(w, now).slot = w.slot
         /\ PeriodOf(w, now) # w.idx =>
              Adjusted(w, now).slot =
                [i \in Slot |-> IF i \in Cleared(w.idx, PeriodOf(w, now))
                                THEN EmptySlot ELSE w.slot[i]]
<1> DEFINE p == PeriodOf(w, now)
           f == [i \in Slot |-> IF i \in Cleared(w.idx, p) THEN EmptySlot ELSE w.slot[i]]
<1>1. /\ w.slot \in [Slot -> [sum : Nat, count : Nat]] /\ w.idx \in Nat /\ w.origin \in Nat
  BY DEF Window
<1>2. EmptySlot \in [sum : Nat, count : Nat]
  BY DEF EmptySlot
<1>3. f \in [Slot -> [sum : Nat, count : Nat]]
  BY <1>1, <1>2
<1>4. CASE p = w.idx
  BY <1>4 DEF Adjusted
<1>5. CASE p # w.idx
  <2>1. Adjusted(w, now) = [w EXCEPT !.idx = p, !.slot = f]
    BY <1>5 DEF Adjusted
  <2> HIDE DEF f, p
  <2>2. /\ [w EXCEPT !.idx = p, !.slot = f] \in Window
        /\ [w EXCEPT !.idx = p, !.slot = f].idx = p
        /\ [w EXCEPT !.idx = p, !.slot = f].origin = w.origin
        /\ [w EXCEPT !.idx = p, !.slot = f].slot = f
    BY <1>1, <1>3 DEF Window, p
  <2> QED BY <1>5, <2>1, <2>2 DEF f, p
<1> QED BY <1>4, <1>5

\* What log.pause is once the window has been adjusted.
PauseAt(w, log, now) == IF LongPause(w, now) THEN PeriodOf(w, now) ELSE log.pause

\* An adjusted window holds the last N periods of its history.
LEMMA AdjustedTracks ==
  ASSUME NEW w, NEW log, NEW now \in Nat, Tracks(w, log, now), w.origin # 0,
         now - 1 <= MaxClock
  PROVE  \A q \in PeriodOf(w, now) - N + 1 .. PeriodOf(w, now) :
           q >= PauseAt(w, log, now) =>
             Adjusted(w, now).slot[q % N] = TicksIn(log, q)
<1> DEFINE a == w.idx
           p == PeriodOf(w, now)
           s == Adjusted(w, now).slot
<1>1. /\ w \in Window /\ log \in Log /\ w.origin <= now /\ a <= p
      /\ \A q \in a + 1 .. MaxClock : log.ticks[q] = EmptySlot
      /\ \A q \in a - N + 1 .. a : q >= log.pause => w.slot[q % N] = TicksIn(log, q)
  BY DEF Tracks
<1>2. p \in 0 .. MaxClock /\ MaxClock \in Nat
  BY <1>1, Periods, RateAssumption
<1>3. a \in Nat /\ log.pause \in Int /\ N \in Nat \ {0} /\ p \in Nat
  BY <1>1, <1>2, WindowAssumption DEF Window, Log
<1>4. /\ p = a => s = w.slot
      /\ p # a => s = [i \in Slot |-> IF i \in Cleared(a, p) THEN EmptySlot ELSE w.slot[i]]
  BY <1>1, <1>3, AdjustedFields
<1>5. LongPause(w, now) <=> (p - a > N /\ (p - a) % N # 0)
  BY DEF LongPause
<1> HIDE DEF a, p, s
<1>6. ASSUME NEW q \in p - N + 1 .. p, q >= PauseAt(w, log, now)
      PROVE  s[q % N] = TicksIn(log, q)
  <2>1. q \in Int /\ q % N \in Slot
    BY <1>3, SlotOf
  <2>2. CASE p = a
    <3>1. ~ LongPause(w, now)
      BY <1>3, <1>5, <2>2
    <3>2. q >= log.pause
      BY <1>6, <3>1 DEF PauseAt
    <3> QED BY <1>1, <1>4, <2>2, <3>2
  <2>3. CASE p # a
    <3>1. a < p
      BY <1>1, <1>3, <2>3
    <3>2. /\ q % N \in Cleared(a, p) => s[q % N] = EmptySlot
          /\ q % N \notin Cleared(a, p) => s[q % N] = w.slot[q % N]
      BY <1>4, <2>1, <2>3
    <3>3. ASSUME a < q PROVE TicksIn(log, q) = EmptySlot
      <4>1. q \in a + 1 .. MaxClock /\ ~ (q < 0)
        BY <1>2, <1>3, <3>3
      <4> QED BY <1>1, <4>1 DEF TicksIn
    <3>4. CASE p - a <= N
      <4>1. ~ LongPause(w, now)
        BY <1>3, <1>5, <3>4
      <4>2. q >= log.pause
        BY <1>6, <4>1 DEF PauseAt
      <4>3. CASE a < q
        <5>1. q \in a + 1 .. p
          BY <1>3, <2>1, <4>3
        <5>2. q % N \in Cleared(a, p)
          BY <1>3, <3>1, <3>4, <5>1, WhatIsCleared
        <5> QED BY <3>2, <3>3, <4>3, <5>2
      <4>4. CASE ~ (a < q)
        <5>1. q \in p - N + 1 .. a /\ q \in a - N + 1 .. a
          BY <1>3, <2>1, <3>1, <4>4
        <5>2. q % N \notin Cleared(a, p)
          BY <1>3, <3>1, <3>4, <5>1, WhatIsCleared
        <5>3. w.slot[q % N] = TicksIn(log, q)
          BY <1>1, <4>2, <5>1
        <5> QED BY <3>2, <5>2, <5>3
      <4> QED BY <4>3, <4>4
    <3>5. CASE p - a > N /\ (p - a) % N = 0
      <4>1. a < q /\ q \in a + 1 .. p
        BY <1>3, <2>1, <3>5
      <4>2. q % N \in Cleared(a, p)
        BY <1>3, <3>1, <3>5, <4>1, WhatIsCleared
      <4> QED BY <3>2, <3>3, <4>1, <4>2
    <3>6. CASE p - a > N /\ (p - a) % N # 0
      <4>1. PauseAt(w, log, now) = p
        BY <1>5, <3>6 DEF PauseAt, p
      <4>2. q = p
        BY <1>3, <1>6, <4>1
      <4>3. q % N \in Cleared(a, p)
        BY <1>3, <3>1, <4>2, WhatIsCleared
      <4> QED BY <3>1, <3>2, <3>3, <4>2, <4>3
    <3> QED BY <1>3, <3>4, <3>5, <3>6
  <2> QED BY <2>2, <2>3
<1> QED BY <1>6 DEF p, s

\* The value of a log after a tick.
LEMMA LoggedFields ==
  ASSUME NEW w, NEW log \in Log, NEW now, NEW v \in Nat, NEW p \in 0 .. MaxClock,
         p = IF w.origin = 0 THEN 0 ELSE PeriodOf(w, now)
  PROVE  /\ Logged(log, w, now, v) \in Log
         /\ Logged(log, w, now, v).pause = IF LongPause(w, now) THEN p ELSE log.pause
         /\ Logged(log, w, now, v).ticks[p] =
              [sum |-> log.ticks[p].sum + v, count |-> log.ticks[p].count + 1]
         /\ \A q \in 0 .. MaxClock :
              q # p => Logged(log, w, now, v).ticks[q] = log.ticks[q]
<1> DEFINE x == [sum |-> log.ticks[p].sum + v, count |-> log.ticks[p].count + 1]
           t == [log.ticks EXCEPT ![p] = x]
           l == [ticks |-> t, pause |-> IF LongPause(w, now) THEN p ELSE log.pause]
<1>1. log.ticks \in [0 .. MaxClock -> [sum : Nat, count : Nat]] /\ log.pause \in Int
  BY DEF Log
<1>2. x \in [sum : Nat, count : Nat]
  <2>1. log.ticks[p] \in [sum : Nat, count : Nat]
    BY <1>1
  <2> QED BY <2>1
<1>3. Logged(log, w, now, v) = l
  BY DEF Logged
<1> HIDE DEF x
<1>4. /\ t \in [0 .. MaxClock -> [sum : Nat, count : Nat]] /\ t[p] = x
      /\ \A q \in 0 .. MaxClock : q # p => t[q] = log.ticks[q]
  BY <1>1, <1>2
<1>5. p \in Int
  OBVIOUS
<1> HIDE DEF t
<1>6. l \in Log
  BY <1>1, <1>4, <1>5 DEF Log
<1> QED BY <1>3, <1>4, <1>6 DEF x

\* The window after a tick.
LEMMA TickedFields ==
  ASSUME NEW w, NEW now, NEW v \in Nat, Adjusted(w, now) \in Window,
         NEW k, k = Adjusted(w, now).idx % N
  PROVE  /\ Ticked(w, now, v) \in Window
         /\ Ticked(w, now, v).idx = Adjusted(w, now).idx
         /\ Ticked(w, now, v).origin = Adjusted(w, now).origin
         /\ Ticked(w, now, v).slot[k] =
              [sum |-> Adjusted(w, now).slot[k].sum + v,
               count |-> Adjusted(w, now).slot[k].count + 1]
         /\ \A i \in Slot : i # k => Ticked(w, now, v).slot[i] = Adjusted(w, now).slot[i]
<1> DEFINE a == Adjusted(w, now)
           x == [sum |-> a.slot[k].sum + v, count |-> a.slot[k].count + 1]
           f == [a.slot EXCEPT ![k] = x]
<1>1. /\ a.slot \in [Slot -> [sum : Nat, count : Nat]] /\ a.idx \in Nat /\ a.origin \in Nat
  BY DEF Window
<1>2. k \in Slot
  <2>1. a.idx \in Int
    BY <1>1
  <2> HIDE DEF a
  <2>2. a.idx % N \in Slot
    BY <2>1, SlotOf
  <2> QED BY <2>2 DEF a
<1>3. x \in [sum : Nat, count : Nat]
  <2>1. a.slot[k] \in [sum : Nat, count : Nat]
    BY <1>1, <1>2
  <2> QED BY <2>1
<1>4. Ticked(w, now, v) = [a EXCEPT !.slot = f]
  BY <1>1 DEF Ticked, Window
<1> HIDE DEF a, x
<1>5. /\ f \in [Slot -> [sum : Nat, count : Nat]] /\ f[k] = x
      /\ \A i \in Slot : i # k => f[i] = a.slot[i]
  BY <1>1, <1>2, <1>3
<1> HIDE DEF f
<1>6. a \in Window
  BY DEF a
<1>7. /\ [a EXCEPT !.slot = f] \in Window /\ [a EXCEPT !.slot = f].idx = a.idx
      /\ [a EXCEPT !.slot = f].origin = a.origin /\ [a EXCEPT !.slot = f].slot = f
  BY <1>1, <1>5, <1>6 DEF Window
<1> QED BY <1>4, <1>5, <1>7 DEF a, x

\* The first tick of a window.
LEMMA FirstTick ==
  ASSUME NEW w, NEW log, NEW now \in Nat \ {0}, Tracks(w, log, now), w.origin = 0,
         NEW v \in Nat
  PROVE  Tracks(Ticked(w, now, v), Logged(log, w, now, v), now)
<1> DEFINE a == Adjusted(w, now)
           y == Ticked(w, now, v)
           l == Logged(log, w, now, v)
<1>1. w = NewWindow /\ log = NewLog /\ log \in Log /\ w \in Window
  BY DEF Tracks
<1>2. N \in Nat \ {0} /\ Period \in Nat \ {0} /\ MaxClock \in Nat
  BY WindowAssumption, RateAssumption
<1>3. a \in Window /\ a.idx = 0 /\ a.origin = now /\ a.slot = w.slot
  <2>1. a = [w EXCEPT !.origin = now]
    BY DEF Adjusted
  <2> HIDE DEF a
  <2> QED BY <1>1, <2>1 DEF Window, NewWindow
<1>4. 0 % N = 0
  BY <1>2, SMT
<1>5. \A i \in Slot : a.slot[i] = EmptySlot
  BY <1>1, <1>3 DEF NewWindow
<1>6. \A q \in 0 .. MaxClock : log.ticks[q] = EmptySlot
  BY <1>1 DEF NewLog
<1>7. log.pause = -N /\ ~ LongPause(w, now)
  BY <1>1 DEF NewLog, LongPause
<1>8. 0 \in 0 .. MaxClock /\ 0 \in Slot
  BY <1>2 DEF Slot
<1>9. 0 = a.idx % N
  BY <1>3, <1>4
<1> HIDE DEF a
<1>10. /\ y \in Window /\ y.idx = a.idx /\ y.origin = a.origin
       /\ y.slot[0] = [sum |-> a.slot[0].sum + v, count |-> a.slot[0].count + 1]
       /\ \A i \in Slot : i # 0 => y.slot[i] = a.slot[i]
  BY <1>3, <1>9, TickedFields DEF a
<1>11. /\ l \in Log /\ l.pause = log.pause
       /\ l.ticks[0] = [sum |-> log.ticks[0].sum + v, count |-> log.ticks[0].count + 1]
       /\ \A q \in 0 .. MaxClock : q # 0 => l.ticks[q] = log.ticks[q]
  BY <1>1, <1>7, <1>8, LoggedFields
<1> HIDE DEF y, l
<1>12. PeriodOf(y, now) = 0
  <2>1. now - y.origin = 0
    BY <1>3, <1>10
  <2>2. 0 \div Period = 0
    BY <1>2, SMT
  <2> QED BY <2>1, <2>2 DEF PeriodOf
<1>13. \A q \in y.idx + 1 .. MaxClock : l.ticks[q] = EmptySlot
  BY <1>3, <1>6, <1>10, <1>11
<1>14. ASSUME NEW q \in y.idx - N + 1 .. y.idx
       PROVE  y.slot[q % N] = TicksIn(l, q)
  <2>1. q \in Int /\ q <= 0 /\ 0 - q < N
    BY <1>2, <1>3, <1>10
  <2>2. q % N \in Slot
    BY <2>1, SlotOf
  <2>3. CASE q = 0
    BY <1>4, <1>5, <1>6, <1>8, <1>10, <1>11, <2>3 DEF TicksIn
  <2>4. CASE q # 0
    <3>1. q < 0
      BY <2>1, <2>4
    <3>2. q % N # 0
      BY <1>2, <1>4, <2>1, <3>1, OwnSlots
    <3> QED BY <1>5, <1>10, <2>2, <3>1, <3>2 DEF TicksIn
  <2> QED BY <2>3, <2>4
<1>15. y.origin = now /\ y.idx = 0
  BY <1>3, <1>10
<1>16. Tracks(y, l, now)
  BY <1>10, <1>11, <1>12, <1>13, <1>14, <1>15 DEF Tracks
<1> QED BY <1>16 DEF y, l

\* Every other tick.
LEMMA LaterTick ==
  ASSUME NEW w, NEW log, NEW now \in Nat \ {0}, Tracks(w, log, now), w.origin # 0,
         now - 1 <= MaxClock, NEW v \in Nat
  PROVE  Tracks(Ticked(w, now, v), Logged(log, w, now, v), now)
<1> DEFINE a == Adjusted(w, now)
           y == Ticked(w, now, v)
           l == Logged(log, w, now, v)
           p == PeriodOf(w, now)
           k == p % N
<1>1. /\ w \in Window /\ log \in Log /\ w.origin <= now /\ w.idx <= p
      /\ \A q \in w.idx + 1 .. MaxClock : log.ticks[q] = EmptySlot
  BY DEF Tracks
<1>2. N \in Nat \ {0} /\ MaxClock \in Nat /\ p \in 0 .. MaxClock /\ w.idx \in Nat
  BY <1>1, Periods, WindowAssumption, RateAssumption DEF Window
<1>3. a \in Window /\ a.idx = p /\ a.origin = w.origin
  <2>1. p \in Nat
    BY <1>2
  <2> QED BY <1>1, <2>1, AdjustedFields
<1>4. \A q \in p - N + 1 .. p : q >= PauseAt(w, log, now) => a.slot[q % N] = TicksIn(log, q)
  BY AdjustedTracks
<1>5. /\ l \in Log /\ l.pause = PauseAt(w, log, now)
      /\ l.ticks[p] = [sum |-> log.ticks[p].sum + v, count |-> log.ticks[p].count + 1]
      /\ \A q \in 0 .. MaxClock : q # p => l.ticks[q] = log.ticks[q]
  <2>1. p = IF w.origin = 0 THEN 0 ELSE PeriodOf(w, now)
    OBVIOUS
  <2> HIDE DEF l, p
  <2> QED BY <1>1, <1>2, <2>1, LoggedFields DEF l, PauseAt, p
<1>6. /\ y \in Window /\ y.idx = p /\ y.origin = w.origin
      /\ y.slot[k] = [sum |-> a.slot[k].sum + v, count |-> a.slot[k].count + 1]
      /\ \A i \in Slot : i # k => y.slot[i] = a.slot[i]
  <2>1. k = a.idx % N
    BY <1>3
  <2> HIDE DEF k, p
  <2> QED BY <1>3, <2>1, TickedFields
<1>7. y.origin <= now /\ y.origin # 0 /\ PeriodOf(y, now) = p
  BY <1>1, <1>6 DEF PeriodOf
<1> HIDE DEF a, y, l, p
<1>8. \A q \in p + 1 .. MaxClock : l.ticks[q] = EmptySlot
  BY <1>1, <1>2, <1>5
<1>9. ASSUME NEW q \in p - N + 1 .. p, q >= l.pause
      PROVE  y.slot[q % N] = TicksIn(l, q)
  <2>1. q \in Int /\ q <= p /\ p - q < N /\ p \in Int
    BY <1>2
  <2>2. q % N \in Slot
    BY <2>1, SlotOf
  <2>3. a.slot[q % N] = TicksIn(log, q)
    BY <1>4, <1>5, <1>9
  <2>4. CASE q = p
    <3>1. ~ (p < 0)
      BY <1>2
    <3> QED BY <1>5, <1>6, <2>3, <2>4, <3>1 DEF TicksIn
  <2>5. CASE q # p
    <3>1. q < p
      BY <2>1, <2>5
    <3>2. q % N # k
      BY <1>2, <2>1, <3>1, OwnSlots
    <3>3. y.slot[q % N] = TicksIn(log, q)
      BY <1>6, <2>2, <2>3, <3>2
    <3>4. CASE q < 0
      BY <3>3, <3>4 DEF TicksIn
    <3>5. CASE ~ (q < 0)
      <4>1. q \in 0 .. MaxClock
        BY <1>2, <2>1, <3>1, <3>5
      <4>2. l.ticks[q] = log.ticks[q]
        BY <1>5, <2>5, <4>1
      <4> QED BY <3>3, <3>5, <4>2 DEF TicksIn
    <3> QED BY <3>4, <3>5
  <2> QED BY <2>4, <2>5
<1>10. p <= p
  BY <1>2
<1> HIDE DEF k
<1>11. Tracks(y, l, now)
  BY <1>5, <1>6, <1>7, <1>8, <1>9, <1>10 DEF Tracks
<1> QED BY <1>11 DEF y, l

\* A tick keeps a window and its history together.
LEMMA TickTracks ==
  ASSUME NEW w, NEW log, NEW now \in Nat \ {0}, Tracks(w, log, now),
         now - 1 <= MaxClock, NEW v \in Nat
  PROVE  Tracks(Ticked(w, now, v), Logged(log, w, now, v), now)
BY FirstTick, LaterTick

\* So does time that passes.
LEMMA TimeTracks ==
  ASSUME NEW w, NEW log, NEW now \in Nat, Tracks(w, log, now), now - 1 <= MaxClock
  PROVE  Tracks(w, log, now + 1)
<1>1. w \in Window /\ w.origin <= now
  BY DEF Tracks
<1>2. w.origin \in Nat /\ w.idx \in Nat
  BY <1>1 DEF Window
<1>3. w.origin <= now + 1
  BY <1>1, <1>2
<1>4. ASSUME w.origin # 0 PROVE w.idx <= PeriodOf(w, now + 1)
  <2> DEFINE p == PeriodOf(w, now)
             n == PeriodOf(w, now + 1)
             d == (now + 1) - w.origin
  <2>1. p \in 0 .. MaxClock /\ p <= n
    BY <1>1, <1>4, Periods
  <2>2. w.idx <= p
    BY <1>4 DEF Tracks
  <2>3. n \in Nat
    <3>1. d \in Nat /\ Period \in Nat \ {0}
      BY <1>1, <1>2, WindowAssumption
    <3> HIDE DEF d
    <3>2. d \div Period \in Nat
      BY <3>1, SMT
    <3> QED BY <3>2 DEF d, PeriodOf
  <2>4. MaxClock \in Nat
    BY RateAssumption
  <2> HIDE DEF p, n
  <2>5. w.idx <= n
    BY <1>2, <2>1, <2>2, <2>3, <2>4
  <2> QED BY <2>5 DEF n
<1> QED BY <1>3, <1>4 DEF Tracks

-----------------------------------------------------------------------------
(***************************************************************************)
(* The types and the windows of the paced benchmark.                       *)
(***************************************************************************)
WInv == IInv /\ TypeOK /\ Windows

\* The windows start empty.
LEMMA NewTracks == Tracks(NewWindow, NewLog, 1)
<1>1. N \in Nat \ {0} /\ MaxClock \in Nat
  BY WindowAssumption, RateAssumption
<1>2. EmptySlot \in [sum : Nat, count : Nat]
  BY DEF EmptySlot
<1>3. /\ NewWindow \in Window /\ NewWindow.origin = 0 /\ NewWindow.idx = 0
      /\ \A i \in Slot : NewWindow.slot[i] = EmptySlot
  BY <1>2 DEF NewWindow, Window
<1>4. NewLog \in Log /\ \A q \in 0 .. MaxClock : NewLog.ticks[q] = EmptySlot
  <2>1. -N \in Int
    BY <1>1
  <2> QED BY <1>2, <2>1 DEF NewLog, Log
<1>5. ASSUME NEW q \in 0 - N + 1 .. 0
      PROVE  NewWindow.slot[q % N] = TicksIn(NewLog, q)
  <2>1. q \in Int
    BY <1>1
  <2>2. q % N \in Slot
    BY <2>1, SlotOf
  <2>3. q < 0 \/ q \in 0 .. MaxClock
    BY <1>1, <2>1
  <2> QED BY <1>3, <1>4, <2>2, <2>3 DEF TicksIn
<1>6. \A q \in 0 + 1 .. MaxClock : NewLog.ticks[q] = EmptySlot
  BY <1>1, <1>4
<1> QED BY <1>3, <1>4, <1>5, <1>6 DEF Tracks

LEMMA WindowsInit == Init => WInv
<1> SUFFICES ASSUME Init PROVE WInv OBVIOUS
<1>1. IInv
  BY PaceInit
<1>2. NewWindow \in Window /\ NewLog \in Log
  BY NewTracks DEF Tracks
<1>3. TypeOK
  <2>1. 0 \in 0 .. Batch - 1 /\ 0 \in 0 .. CounterLimit - 1
    BY Numbers
  <2>2. <<>> \in Seq(Nat)
    OBVIOUS
  <2>3. late \in BOOLEAN
    BY DEF Init, RateInit
  <2>4. /\ clock \in Nat \ {0} /\ pc \in {"measure", "loop", "pace", "sleep", "done"}
        /\ now_tp \in Nat /\ in_batch \in 0 .. Batch - 1 /\ sent \in Nat /\ overtime \in Nat
    BY <1>1 DEF IInv, PaceTypes
  <2>5. counter \in 0 .. CounterLimit - 1 /\ avg_rate \in Window /\ in_flight \in Seq(Nat)
    BY <1>2, <2>1, <2>2 DEF Init, RateInit
  <2>6. current_latency \in Window /\ sender_log \in Log /\ executor_log \in Log
    BY <1>2 DEF Init
  <2> QED BY <2>3, <2>4, <2>5, <2>6 DEF TypeOK, RateTypeOK
<1>4. Windows
  <2>1. clock = 1 /\ MaxClock \in Nat
    BY RateAssumption DEF Init, RateInit, start_tp
  <2>2. <<>> \in Seq(0 .. clock)
    OBVIOUS
  <2>3. clock - 1 <= MaxClock
    BY <2>1
  <2> QED BY <2>1, <2>2, <2>3, NewTracks DEF Init, RateInit, Windows
<1> QED BY <1>1, <1>3, <1>4 DEF WInv

\* The types follow from the two invariants, but for two variables.
LEMMA TypesFollow ==
  IInv /\ Windows /\ counter \in 0 .. CounterLimit - 1 /\ late \in BOOLEAN => TypeOK
<1> SUFFICES ASSUME IInv, Windows, counter \in 0 .. CounterLimit - 1, late \in BOOLEAN
             PROVE  TypeOK
  OBVIOUS
<1>1. /\ clock \in Nat \ {0} /\ pc \in {"measure", "loop", "pace", "sleep", "done"}
      /\ now_tp \in Nat /\ in_batch \in 0 .. Batch - 1 /\ sent \in Nat /\ overtime \in Nat
  BY DEF IInv, PaceTypes
<1>2. /\ avg_rate \in Window /\ current_latency \in Window
      /\ sender_log \in Log /\ executor_log \in Log
  BY DEF Windows, Tracks
<1>3. in_flight \in Seq(Nat)
  <2>1. in_flight \in Seq(0 .. clock)
    BY DEF Windows
  <2>2. \A S, T : S \subseteq T => Seq(S) \subseteq Seq(T)
    OBVIOUS
  <2>3. 0 .. clock \subseteq Nat
    BY <1>1
  <2> QED BY <2>1, <2>2, <2>3
<1> QED BY <1>1, <1>2, <1>3 DEF TypeOK, RateTypeOK

\* msg_counter_ stays among its values, however often it wraps around.
LEMMA CounterStays ==
  ASSUME TypeOK, SenderStep
  PROVE  counter' \in 0 .. CounterLimit - 1 /\ late' \in BOOLEAN
<1>1. counter \in 0 .. CounterLimit - 1 /\ late \in BOOLEAN
  BY DEF TypeOK, RateTypeOK
<1>2. CounterLimit \in Nat \ {0} /\ Batch \in Nat \ {0}
  BY Numbers
<1>3. CASE SendOne
  <2>1. late' = late /\ (counter' = counter \/ counter' = CounterAfter(counter))
    BY <1>3 DEF SendOne
  <2>2. CounterAfter(counter) \in 0 .. CounterLimit - 1
    <3> DEFINE c == counter + Batch
    <3>1. c \in Nat
      BY <1>1, <1>2
    <3> HIDE DEF c
    <3>2. c % CounterLimit \in 0 .. CounterLimit - 1
      BY <1>2, <3>1, SMT
    <3> QED BY <3>2 DEF c, CounterAfter
  <2> QED BY <1>1, <2>1, <2>2
<1>4. CASE Measure
  BY <1>1, <1>4 DEF Measure
<1>5. CASE Pace
  BY <1>1, <1>5 DEF Pace
<1>6. CASE Wake \/ Finish
  BY <1>1, <1>6 DEF Wake, Finish
<1> QED BY <1>3, <1>4, <1>5, <1>6 DEF SenderStep, RateStep

\* A step of the rate generator.
LEMMA WindowsSender ==
  ASSUME WInv, SenderStep PROVE Windows'
<1>1. clock \in Nat \ {0} /\ clock - 1 <= MaxClock /\ in_flight \in Seq(0 .. clock)
  BY DEF WInv, IInv, PaceTypes, Windows
<1>2. /\ Tracks(avg_rate, sender_log, clock) /\ Tracks(current_latency, executor_log, clock)
      /\ current_latency' = current_latency /\ executor_log' = executor_log
  BY DEF WInv, Windows, SenderStep
<1>3. clock' = clock
  BY DEF SenderStep, RateStep, SendOne, Measure, Pace, Wake, Finish
<1>4. CASE SendOne
  <2>1. /\ in_flight' = Append(in_flight, clock) /\ sent' = sent + 1
        /\ avg_rate' = Ticked(avg_rate, clock, 1)
    BY <1>4 DEF SendOne
  <2>2. sent' # sent
    BY <2>1 DEF WInv, IInv, PaceTypes
  <2>3. sender_log' = Logged(sender_log, avg_rate, clock, 1)
    BY <2>2 DEF SenderStep
  <2>4. Tracks(avg_rate', sender_log', clock)
    BY <1>1, <1>2, <2>1, <2>3, TickTracks
  <2>5. in_flight' \in Seq(0 .. clock)
    BY <1>1, <2>1
  <2> QED BY <1>1, <1>2, <1>3, <2>4, <2>5 DEF Windows
<1>5. CASE ~ SendOne
  <2>1. UNCHANGED sentVars
    BY <1>5 DEF SenderStep, RateStep, Measure, Pace, Wake, Finish
  <2>2. /\ in_flight' = in_flight /\ avg_rate' = avg_rate /\ sender_log' = sender_log
    BY <2>1 DEF sentVars, SenderStep
  <2> QED BY <1>1, <1>2, <1>3, <2>2 DEF Windows
<1> QED BY <1>4, <1>5

\* A measurement: the time since the send is not negative.
LEMMA WindowsParallel ==
  ASSUME WInv, Parallel PROVE Windows'
<1>1. clock \in Nat \ {0} /\ clock - 1 <= MaxClock /\ in_flight \in Seq(0 .. clock)
  BY DEF WInv, IInv, PaceTypes, Windows
<1>2. /\ Tracks(avg_rate, sender_log, clock) /\ Tracks(current_latency, executor_log, clock)
      /\ avg_rate' = avg_rate /\ sender_log' = sender_log /\ clock' = clock
      /\ in_flight' = Tail(in_flight) /\ in_flight # <<>>
  BY DEF WInv, Windows, Parallel
<1>3. Head(in_flight) \in 0 .. clock /\ in_flight' \in Seq(0 .. clock)
  BY <1>1, <1>2
<1>4. PICK orig \in {0, clock - Head(in_flight)} :
        /\ current_latency' = Ticked(current_latency, clock, orig)
        /\ executor_log' = Logged(executor_log, current_latency, clock, orig)
  BY DEF Parallel
<1>5. orig \in Nat
  BY <1>1, <1>3
<1>6. Tracks(current_latency', executor_log', clock)
  BY <1>1, <1>2, <1>4, <1>5, TickTracks
<1> QED BY <1>1, <1>2, <1>3, <1>6 DEF Windows

\* Time passes.
LEMMA WindowsPass ==
  ASSUME WInv, TimePasses PROVE Windows'
<1>1. clock \in Nat \ {0} /\ clock - 1 <= MaxClock /\ in_flight \in Seq(0 .. clock)
  BY DEF WInv, IInv, PaceTypes, Windows
<1>2. /\ clock' = clock + 1 /\ clock < MaxClock /\ MaxClock \in Nat
      /\ in_flight' = in_flight /\ avg_rate' = avg_rate /\ sender_log' = sender_log
      /\ current_latency' = current_latency /\ executor_log' = executor_log
  BY RateAssumption DEF TimePasses, Pass, sentVars
<1>3. Tracks(avg_rate, sender_log, clock) /\ Tracks(current_latency, executor_log, clock)
  BY DEF WInv, Windows
<1>4. Tracks(avg_rate, sender_log, clock + 1)
  BY <1>1, <1>3, TimeTracks
<1>5. Tracks(current_latency, executor_log, clock + 1)
  BY <1>1, <1>3, TimeTracks
<1>6. in_flight \in Seq(0 .. clock + 1)
  <2>1. 0 .. clock \subseteq 0 .. clock + 1
    BY <1>1
  <2> QED BY <1>1, <2>1
<1>7. (clock + 1) - 1 <= MaxClock
  BY <1>1, <1>2
<1> QED BY <1>2, <1>4, <1>5, <1>6, <1>7 DEF Windows

LEMMA WindowsStep == WInv /\ [Next]_vars => WInv'
<1> SUFFICES ASSUME WInv, [Next]_vars PROVE WInv' OBVIOUS
<1>1. IInv'
  BY PaceStep DEF WInv
<1>2. counter \in 0 .. CounterLimit - 1 /\ late \in BOOLEAN
  BY DEF WInv, TypeOK, RateTypeOK
<1>3. (IInv /\ Windows /\ counter \in 0 .. CounterLimit - 1 /\ late \in BOOLEAN => TypeOK)'
  BY TypesFollow, PTL
<1>4. CASE SenderStep
  <2>1. Windows'
    BY <1>4, WindowsSender
  <2>2. counter' \in 0 .. CounterLimit - 1 /\ late' \in BOOLEAN
    BY <1>4, CounterStays DEF WInv
  <2>3. TypeOK'
    BY <1>1, <1>3, <2>1, <2>2
  <2> QED BY <1>1, <2>1, <2>3 DEF WInv
<1>5. CASE Parallel
  <2>1. Windows'
    BY <1>5, WindowsParallel
  <2>2. counter' = counter /\ late' = late
    BY <1>5 DEF Parallel
  <2>3. TypeOK'
    BY <1>1, <1>2, <1>3, <2>1, <2>2
  <2> QED BY <1>1, <2>1, <2>3 DEF WInv
<1>6. CASE TimePasses
  <2>1. Windows'
    BY <1>6, WindowsPass
  <2>2. counter' = counter /\ late' = late
    BY <1>6 DEF TimePasses, Pass
  <2>3. TypeOK'
    BY <1>1, <1>2, <1>3, <2>1, <2>2
  <2> QED BY <1>1, <2>1, <2>3 DEF WInv
<1>7. CASE UNCHANGED vars
  BY <1>1, <1>7 DEF WInv, TypeOK, RateTypeOK, Windows, vars, rateVars, sentVars
<1> QED BY <1>4, <1>5, <1>6, <1>7 DEF Next

LEMMA WindowsInvariant == Spec => []WInv
BY WindowsInit, WindowsStep, PTL DEF Spec

\* The types of the rate generator and of the windows of both actors; msg_counter_
\* stays among its values for every width and batch.
THEOREM PacedTypeCorrect == Spec => []TypeOK
<1>1. WInv => TypeOK
  BY DEF WInv
<1> QED BY <1>1, WindowsInvariant, PTL

-----------------------------------------------------------------------------
(***************************************************************************)
(* What a reading of a window adds up.                                     *)
(***************************************************************************)

\* What ReadsRecent says, slot for slot, and over the same time.
HoldsRecent(w, log) ==
  LET p == PeriodOf(w, clock) IN
  w.origin # 0 /\ ~ LongPause(w, clock) /\ p - log.pause >= N - 1 =>
    /\ \A q \in p - N + 1 .. p : Adjusted(w, clock).slot[q % N] = TicksIn(log, q)
    /\ Length(w, clock) = clock - (w.origin + (p - N + 1) * Period)

LEMMA TracksHolds ==
  ASSUME NEW w, NEW log, Tracks(w, log, clock), clock \in Nat, clock - 1 <= MaxClock
  PROVE  HoldsRecent(w, log)
<1> DEFINE p == PeriodOf(w, clock)
           d == clock - w.origin
<1> SUFFICES ASSUME w.origin # 0, ~ LongPause(w, clock), p - log.pause >= N - 1
             PROVE  /\ \A q \in p - N + 1 .. p :
                         Adjusted(w, clock).slot[q % N] = TicksIn(log, q)
                    /\ Length(w, clock) = clock - (w.origin + (p - N + 1) * Period)
  BY DEF HoldsRecent
<1>1. w \in Window /\ w.origin <= clock /\ log \in Log
  BY DEF Tracks
<1>2. /\ w.origin \in Nat /\ log.pause \in Int /\ N \in Nat \ {0}
      /\ Period \in Nat \ {0} /\ p \in 0 .. MaxClock
  BY <1>1, Periods, WindowAssumption DEF Window, Log
<1>3. PauseAt(w, log, clock) = log.pause
  BY DEF PauseAt
<1>4. \A q \in p - N + 1 .. p : q >= log.pause =>
        Adjusted(w, clock).slot[q % N] = TicksIn(log, q)
  BY <1>3, AdjustedTracks
<1>5. \A q \in p - N + 1 .. p : q >= log.pause
  <2> HIDE DEF p
  <2> QED BY <1>2
<1>6. Length(w, clock) = clock - (w.origin + (p - N + 1) * Period)
  <2> DEFINE r == d % Period
  <2>1. d \in Nat
    BY <1>1, <1>2
  <2>2. p = d \div Period
    BY DEF PeriodOf
  <2>3. Length(w, clock) = (N - 1) * Period + r
    BY DEF Length
  <2>4. clock = w.origin + d
    BY <1>2
  <2> HIDE DEF d, p
  <2>5. p \in Int /\ r \in Int /\ d = Period * p + r
    BY <1>2, <2>1, <2>2, SMT
  <2> HIDE DEF r
  <2>6. /\ (p - N + 1) * Period = Period * p - (N - 1) * Period
        /\ Period * p \in Int /\ (N - 1) * Period \in Int
    BY <1>2, <2>5, SMT
  <2> QED BY <1>2, <2>3, <2>4, <2>5, <2>6
<1> QED BY <1>4, <1>5, <1>6


\* Each slot belongs to one of any N periods in a row.
LEMMA EverySlot ==
  ASSUME NEW i \in Slot, NEW a \in Int
  PROVE  \E q \in a .. a + N - 1 : q % N = i
<1> DEFINE j == (i - a) % N
           q == a + j
<1>1. N \in Nat \ {0} /\ i \in 0 .. N - 1 /\ i - a \in Int
  BY WindowAssumption DEF Slot
<1>2. j \in 0 .. N - 1
  BY <1>1, SMT
<1>3. q % N = (a + (i - a)) % N
  BY <1>1, SameSlot
<1>4. a + (i - a) = i /\ i % N = i
  BY <1>1, SMT
<1> HIDE DEF j
<1>5. q \in a .. a + N - 1
  BY <1>1, <1>2
<1> QED BY <1>3, <1>4, <1>5

\* The sums of a window are sums over its slots, those of a history over its periods.
LEMMA WindowSums ==
  ASSUME NEW w \in Window, NEW f, \A i \in Slot : f[i] = w.slot[i].sum,
         NEW g, \A i \in Slot : g[i] = w.slot[i].count
  PROVE  Sum(w) = SumOver(f, Slot) /\ Count(w) = SumOver(g, Slot)
<1> DEFINE F(h) == h = [s \in SUBSET Slot |-> IF s = {} THEN 0
                          ELSE w.slot[Pick(s)].sum + h[s \ {Pick(s)}]]
           G(h) == h = [s \in SUBSET Slot |-> IF s = {} THEN 0
                          ELSE w.slot[Pick(s)].count + h[s \ {Pick(s)}]]
           u == CHOOSE h : F(h)
           v == CHOOSE h : G(h)
<1>0. IsFiniteSet(Slot) /\ DOMAIN w.slot = Slot
  BY WindowAssumption, FS_Interval DEF Slot, Window
<1>1. F(u)
  <2>1. PICK h : IsFold(h, f, Slot)
    BY <1>0, AddsExists
  <2>2. ASSUME NEW s \in SUBSET Slot, s # {} PROVE f[Pick(s)] = w.slot[Pick(s)].sum
    BY <2>2, Picked
  <2>3. F(h)
    BY <2>1, <2>2 DEF IsFold
  <2> HIDE DEF F
  <2> QED BY <2>3
<1>2. G(v)
  <2>1. PICK h : IsFold(h, g, Slot)
    BY <1>0, AddsExists
  <2>2. ASSUME NEW s \in SUBSET Slot, s # {} PROVE g[Pick(s)] = w.slot[Pick(s)].count
    BY <2>2, Picked
  <2>3. G(h)
    BY <2>1, <2>2 DEF IsFold
  <2> HIDE DEF G
  <2> QED BY <2>3
<1>3. Sum(w) = u[Slot]
  BY <1>0 DEF Sum, FoldFunction, FoldFunctionOnSet, MapThenFoldSet, Pick
<1>4. Count(w) = v[Slot]
  BY <1>0 DEF Count, FoldFunction, FoldFunctionOnSet, MapThenFoldSet, Pick
<1> HIDE DEF u, v
<1>5. Adds(u, f, Slot)
  <2>1. ASSUME NEW s \in SUBSET Slot
        PROVE  u[s] = IF s = {} THEN 0 ELSE f[Pick(s)] + u[s \ {Pick(s)}]
    <3>1. u[s] = IF s = {} THEN 0 ELSE w.slot[Pick(s)].sum + u[s \ {Pick(s)}]
      BY <1>1
    <3>2. s # {} => f[Pick(s)] = w.slot[Pick(s)].sum
      BY Picked
    <3> QED BY <3>1, <3>2
  <2> QED BY <2>1 DEF Adds
<1>6. Adds(v, g, Slot)
  <2>1. ASSUME NEW s \in SUBSET Slot
        PROVE  v[s] = IF s = {} THEN 0 ELSE g[Pick(s)] + v[s \ {Pick(s)}]
    <3>1. v[s] = IF s = {} THEN 0 ELSE w.slot[Pick(s)].count + v[s \ {Pick(s)}]
      BY <1>2
    <3>2. s # {} => g[Pick(s)] = w.slot[Pick(s)].count
      BY Picked
    <3> QED BY <3>1, <3>2
  <2> QED BY <2>1 DEF Adds
<1> QED BY <1>0, <1>3, <1>4, <1>5, <1>6, AddsSum

\* What log has in the periods of S.
ValueIn(log, S) == MapThenSumSet(LAMBDA q : log.ticks[q].sum, S)
NumberIn(log, S) == MapThenSumSet(LAMBDA q : log.ticks[q].count, S)

LEMMA LogSums ==
  ASSUME NEW log, NEW S, IsFiniteSet(S), NEW f, \A q \in S : f[q] = log.ticks[q].sum,
         NEW g, \A q \in S : g[q] = log.ticks[q].count
  PROVE  ValueIn(log, S) = SumOver(f, S) /\ NumberIn(log, S) = SumOver(g, S)
<1> DEFINE F(h) == h = [s \in SUBSET S |-> IF s = {} THEN 0
                          ELSE log.ticks[Pick(s)].sum + h[s \ {Pick(s)}]]
           G(h) == h = [s \in SUBSET S |-> IF s = {} THEN 0
                          ELSE log.ticks[Pick(s)].count + h[s \ {Pick(s)}]]
           u == CHOOSE h : F(h)
           v == CHOOSE h : G(h)
<1>1. F(u)
  <2>1. PICK h : IsFold(h, f, S)
    BY AddsExists
  <2>2. ASSUME NEW s \in SUBSET S, s # {} PROVE f[Pick(s)] = log.ticks[Pick(s)].sum
    BY <2>2, Picked
  <2>3. F(h)
    BY <2>1, <2>2 DEF IsFold
  <2> HIDE DEF F
  <2> QED BY <2>3
<1>2. G(v)
  <2>1. PICK h : IsFold(h, g, S)
    BY AddsExists
  <2>2. ASSUME NEW s \in SUBSET S, s # {} PROVE g[Pick(s)] = log.ticks[Pick(s)].count
    BY <2>2, Picked
  <2>3. G(h)
    BY <2>1, <2>2 DEF IsFold
  <2> HIDE DEF G
  <2> QED BY <2>3
<1>3. ValueIn(log, S) = u[S]
  BY DEF ValueIn, MapThenSumSet, MapThenFoldSet, Pick
<1>4. NumberIn(log, S) = v[S]
  BY DEF NumberIn, MapThenSumSet, MapThenFoldSet, Pick
<1> HIDE DEF u, v
<1>5. Adds(u, f, S)
  <2>1. ASSUME NEW s \in SUBSET S
        PROVE  u[s] = IF s = {} THEN 0 ELSE f[Pick(s)] + u[s \ {Pick(s)}]
    <3>1. u[s] = IF s = {} THEN 0 ELSE log.ticks[Pick(s)].sum + u[s \ {Pick(s)}]
      BY <1>1
    <3>2. s # {} => f[Pick(s)] = log.ticks[Pick(s)].sum
      BY Picked
    <3> QED BY <3>1, <3>2
  <2> QED BY <2>1 DEF Adds
<1>6. Adds(v, g, S)
  <2>1. ASSUME NEW s \in SUBSET S
        PROVE  v[s] = IF s = {} THEN 0 ELSE g[Pick(s)] + v[s \ {Pick(s)}]
    <3>1. v[s] = IF s = {} THEN 0 ELSE log.ticks[Pick(s)].count + v[s \ {Pick(s)}]
      BY <1>2
    <3>2. s # {} => g[Pick(s)] = log.ticks[Pick(s)].count
      BY Picked
    <3> QED BY <3>1, <3>2
  <2> QED BY <2>1 DEF Adds
<1> QED BY <1>3, <1>4, <1>5, <1>6, AddsSum

\* The N slots of w and the last N periods of its history hold the same in sum.
LEMMA SlotsAddUp ==
  ASSUME NEW w \in Window, NEW log \in Log, NEW p \in 0 .. MaxClock,
         \A q \in p - N + 1 .. p : w.slot[q % N] = TicksIn(log, q),
         NEW S, \A q : q \in S <=> q \in 0 .. MaxClock /\ p - N < q /\ q <= p
  PROVE  Sum(w) = ValueIn(log, S) /\ Count(w) = NumberIn(log, S)
<1> DEFINE b == [q \in S |-> q % N]
           f == [q \in S |-> log.ticks[q].sum]
           g == [q \in S |-> log.ticks[q].count]
           u == [i \in Slot |-> w.slot[i].sum]
           v == [i \in Slot |-> w.slot[i].count]
<1>1. N \in Nat \ {0} /\ MaxClock \in Nat /\ p \in Nat /\ p <= MaxClock
  BY WindowAssumption, RateAssumption
<1>2. IsFiniteSet(S) /\ IsFiniteSet(Slot)
  <2>1. S \subseteq 0 .. MaxClock
    OBVIOUS
  <2>2. IsFiniteSet(0 .. MaxClock) /\ IsFiniteSet(0 .. N - 1)
    BY <1>1, FS_Interval
  <2> QED BY <2>1, <2>2, FS_Subset DEF Slot
<1>3. /\ \A q \in S : f[q] = log.ticks[q].sum /\ g[q] = log.ticks[q].count /\ b[q] = q % N
      /\ \A i \in Slot : u[i] = w.slot[i].sum /\ v[i] = w.slot[i].count
  OBVIOUS
<1> HIDE DEF b, f, g, u, v
<1>4. ASSUME NEW q \in S
      PROVE  /\ f[q] \in Int /\ g[q] \in Int /\ b[q] \in Slot
             /\ u[b[q]] = f[q] /\ v[b[q]] = g[q]
  <2>1. q \in 0 .. MaxClock /\ q \in p - N + 1 .. p /\ ~ (q < 0) /\ q \in Int
    BY <1>1
  <2>2. w.slot[q % N] = log.ticks[q]
    BY <2>1 DEF TicksIn
  <2>3. q % N \in Slot
    BY <2>1, SlotOf
  <2>4. log.ticks[q] \in [sum : Nat, count : Nat]
    BY <2>1 DEF Log
  <2> QED BY <1>3, <2>2, <2>3, <2>4
<1>5. ASSUME NEW q \in S, NEW r \in S, b[q] = b[r] PROVE q = r
  <2>1. /\ q \in Int /\ r \in Int /\ q - r < N /\ r - q < N /\ q % N = r % N
    BY <1>1, <1>3, <1>5
  <2>2. ~ (q < r) /\ ~ (r < q)
    BY <1>1, <2>1, OwnSlots
  <2> QED BY <2>1, <2>2
<1>6. ASSUME NEW i \in Slot, \A q \in S : b[q] # i PROVE u[i] = 0 /\ v[i] = 0
  <2>1. PICK q \in p - N + 1 .. (p - N + 1) + N - 1 : q % N = i
    <3>1. p - N + 1 \in Int
      BY <1>1
    <3> QED BY <3>1, EverySlot
  <2>2. q \in p - N + 1 .. p
    BY <1>1, <2>1
  <2>3. q \notin S
    BY <1>3, <1>6, <2>1
  <2>4. q < 0
    BY <1>1, <2>2, <2>3
  <2>5. w.slot[i] = EmptySlot
    BY <2>1, <2>2, <2>4 DEF TicksIn
  <2> QED BY <1>3, <2>5 DEF EmptySlot
<1>7. SumOver(f, S) = SumOver(u, Slot)
  <2>1. \A q \in S : f[q] \in Int /\ b[q] \in Slot /\ u[b[q]] = f[q]
    BY <1>4
  <2>2. \A q, r \in S : b[q] = b[r] => q = r
    BY <1>5
  <2>3. \A i \in Slot : (\A q \in S : b[q] # i) => u[i] = 0
    BY <1>6
  <2> QED BY ONLY <1>2, <2>1, <2>2, <2>3, SumElsewhere
<1>8. SumOver(g, S) = SumOver(v, Slot)
  <2>1. \A q \in S : g[q] \in Int /\ b[q] \in Slot /\ v[b[q]] = g[q]
    BY <1>4
  <2>2. \A q, r \in S : b[q] = b[r] => q = r
    BY <1>5
  <2>3. \A i \in Slot : (\A q \in S : b[q] # i) => v[i] = 0
    BY <1>6
  <2> QED BY ONLY <1>2, <2>1, <2>2, <2>3, SumElsewhere
<1>9. Sum(w) = SumOver(u, Slot) /\ Count(w) = SumOver(v, Slot)
  BY <1>3, WindowSums
<1>10. ValueIn(log, S) = SumOver(f, S) /\ NumberIn(log, S) = SumOver(g, S)
  <2>1. \A q \in S : f[q] = log.ticks[q].sum
    BY <1>3
  <2>2. \A q \in S : g[q] = log.ticks[q].count
    BY <1>3
  <2> QED BY <1>2, <2>1, <2>2, LogSums
<1> QED BY <1>7, <1>8, <1>9, <1>10

LEMMA TracksRecovers ==
  ASSUME NEW w, NEW log, Tracks(w, log, clock), clock \in Nat, clock - 1 <= MaxClock
  PROVE  Recovers(w, log)
<1> DEFINE p == PeriodOf(w, clock)
           a == Adjusted(w, clock)
           S == {q \in 0 .. MaxClock : p - N < q /\ q <= p}
           s == ValueIn(log, S)
           n == NumberIn(log, S)
           time == clock - (w.origin + (p - N + 1) * Period)
<1> SUFFICES ASSUME w.origin # 0, ~ LongPause(w, clock), p - log.pause >= N - 1
             PROVE  ReadsRecent(w, log)
  BY DEF Recovers
<1>1. w \in Window /\ log \in Log /\ w.origin <= clock /\ w.idx <= p
  BY DEF Tracks
<1>2. p \in 0 .. MaxClock /\ p \in Nat
  BY <1>1, Periods
<1>3. a \in Window
  BY <1>1, <1>2, AdjustedFields
<1>4. /\ \A q \in p - N + 1 .. p : a.slot[q % N] = TicksIn(log, q)
      /\ Length(w, clock) = time
  BY TracksHolds DEF HoldsRecent
<1>5. Sum(a) = s /\ Count(a) = n
  <2>1. \A q : q \in S <=> q \in 0 .. MaxClock /\ p - N < q /\ q <= p
    OBVIOUS
  <2>2. \A q \in p - N + 1 .. p : a.slot[q % N] = TicksIn(log, q)
    BY <1>4
  <2> HIDE DEF a, p, S
  <2> QED BY <1>1, <1>2, <1>3, <2>1, <2>2, SlotsAddUp
<1>6. AverageValue(w, clock) = IF n = 0 THEN 0 ELSE s \div n
  BY <1>5 DEF AverageValue
<1>7. AverageTicks(w, clock) = [num |-> n * Period, den |-> time]
  BY <1>4, <1>5 DEF AverageTicks
<1>8. AverageRate(w, clock) = [num |-> s * Period, den |-> time]
  BY <1>4, <1>5 DEF AverageRate
<1> QED BY <1>6, <1>7, <1>8 DEF ReadsRecent, ValueIn, NumberIn

(***************************************************************************)
(* What a window of avg_rate_ or mobile_current_latency_ reads is the      *)
(* average of what was ticked in the last N periods, also again N - 1      *)
(* periods after a pause it did not clear up after - for every number and  *)
(* length of periods, and any ticks and pauses.                            *)
(***************************************************************************)
THEOREM RecentTicksOnly == Spec => []WindowsRecover
<1>1. WInv => WindowsRecover
  <2> SUFFICES ASSUME WInv PROVE WindowsRecover OBVIOUS
  <2>1. clock \in Nat /\ clock - 1 <= MaxClock
    BY DEF WInv, IInv, PaceTypes, Windows
  <2> QED BY <2>1, TracksRecovers DEF WInv, Windows, WindowsRecover
<1> QED BY <1>1, WindowsInvariant, PTL
=============================================================================
