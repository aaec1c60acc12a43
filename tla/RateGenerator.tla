---------------------------- MODULE RateGenerator ----------------------------
(***************************************************************************)
(* The blocking actor that feeds the chains of the parallel benchmark      *)
(* (rate_generator.cpp).  It has a thread of its own and receives nothing. *)
(* Time is left out: the loop may send, or find the duration elapsed,      *)
(* whenever it reads the clock.                                            *)
(***************************************************************************)
EXTENDS ActorSystem

CONSTANT MaxMsgs  \* bound: the loop is not entered again after so many sends

ASSUME MaxMsgsAssumption == MaxMsgs \in Nat

VARIABLES
  rg_state,      \* "absent", "spawned", "sending" or "done"
  rg_receivers,  \* receivers_: the heads of the chains when it was spawned
  rg_index,      \* index: the next receiver, from 0
  rg_batch,      \* tmp_counter: messages of the current batch already sent
  msg_counter_   \* messages sent; the code adds a batch when it is complete

rgVars == <<rg_state, rg_receivers, rg_index, rg_batch, msg_counter_>>

RgTypeOK ==
  /\ rg_state \in {"absent", "spawned", "sending", "done"}
  /\ rg_receivers \in Seq(ChainActor)
  /\ rg_index \in Nat
  /\ rg_batch \in Nat
  /\ msg_counter_ \in Nat

RgInit ==
  /\ rg_state = "absent"
  /\ rg_receivers = <<>>
  /\ rg_index = 0
  /\ rg_batch = 0
  /\ msg_counter_ = 0

-----------------------------------------------------------------------------
\* spawn_rate_generator.
SpawnRateGenerator(heads) ==
  /\ rg_state' = "spawned"
  /\ rg_receivers' = heads
  /\ UNCHANGED <<rg_index, rg_batch, msg_counter_>>

Receivers == Len(rg_receivers)

\* Mutant: round robin stays with the first receiver.
NextIndex_NoStep(i) == IF RoundRobin THEN {0} ELSE 0 .. Receivers - 1

\* The choices for index after the value i; i = -1 before the loop.
NextIndex(i) ==
  IF RoundRobin THEN {(i + 1) % Receivers} ELSE 0 .. Receivers - 1

\* The start of act().  Without receivers the loop subscripts an empty vector.
RgStart ==
  /\ process = "running"
  /\ rg_state = "spawned"
  /\ IF Receivers = 0
     THEN /\ Crash
          /\ UNCHANGED rgVars
     ELSE /\ rg_state' = "sending"
          /\ rg_index' \in NextIndex(-1)
          /\ UNCHANGED <<mbox, live, timers, process>>
          /\ UNCHANGED <<rg_receivers, rg_batch, msg_counter_>>
  /\ UNCHANGED configured

\* Only complex messages with cross times are sent in batches.
Batched == IsComplex /\ IsCrossTimes

\* tmp_counter after one more message: 0 when the loop do ... while ends.
BatchAfter(sent) == IF Batched /\ sent + 1 < BatchSize THEN sent + 1 ELSE 0

\* Mutant: the cross times are reused within a batch, and get one more hop
\* for every message.
NewMsg_ReusedHops(c) ==
  [type |-> "timed_msg", id |-> msg_counter_ + 1, chain |-> c,
   hops |-> rg_batch + 1, start |-> NotStarted, stop |-> 0]

\* A new message for chain c, with a probe that waits for the head to start it
\* and with new cross times, to which the generator adds the first hop.
NewMsg(c) ==
  [type |-> "timed_msg", id |-> msg_counter_ + 1, chain |-> c, hops |-> 1,
   start |-> NotStarted, stop |-> 0]

\* The loop goes round once more.
Sending == rg_state = "sending" /\ (rg_batch > 0 \/ msg_counter_ < MaxMsgs)

\* One message, and the choice of the next receiver.
RgSend ==
  /\ Sending
  /\ LET head == rg_receivers[rg_index + 1] IN
       Posted(Sent(head, NewMsg(head[1])))
  /\ msg_counter_' = msg_counter_ + 1
  /\ rg_batch' = BatchAfter(rg_batch)
  /\ rg_index' \in NextIndex(rg_index)
  /\ UNCHANGED <<configured, rg_state, rg_receivers>>

\* The duration has elapsed: report the rate and end.
RgFinish ==
  /\ rg_state = "sending"
  /\ rg_batch = 0
  /\ Duration > 0
  /\ Posted(Sent(Collector, Signal("send_collect")))
  /\ rg_state' = "done"
  /\ UNCHANGED <<configured, rg_receivers, rg_index, rg_batch, msg_counter_>>

(***************************************************************************)
(* append_hop compares hops_.back() with process_atom_ even if it adds the *)
(* first hop: it reads in front of an empty vector.  If that gives a       *)
(* value, origin_ts_ is read once more or not, no hop is moved, since      *)
(* there is none, and RgSend is what happens; otherwise the process ends.  *)
(***************************************************************************)
RgFirstHop ==
  /\ process = "running"
  /\ IsCrossTimes
  /\ Sending
  /\ Undefined
  /\ UNCHANGED <<configured, rgVars>>

RgStep == RgStart \/ RgSend \/ RgFirstHop \/ RgFinish
=============================================================================
