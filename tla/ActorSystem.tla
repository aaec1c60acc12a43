----------------------------- MODULE ActorSystem -----------------------------
(***************************************************************************)
(* The part of the C++ Actor Framework the benchmark relies on: one FIFO   *)
(* mailbox per actor, handlers that run one message to completion, sends   *)
(* that put a message at the end of the receiver's mailbox before the      *)
(* handler goes on, delayed_send, and quit.  A message to an actor that    *)
(* has quit, or to an empty handle, is dropped.                            *)
(***************************************************************************)
EXTENDS BenchmarkConfig, Sequences

CONSTANTS
  Executor, TopoBuilder, Collector,  \* the three actors main() spawns
  Null                               \* the empty handle actor()

ChainActor == (1 .. ChainsNumber) \X (0 .. PipelineActors - 1)
PoolActor == {0} \X (0 .. DetachedPool - 1)
MainActor == {Executor, TopoBuilder, Collector}
Actor == MainActor \cup ChainActor \cup PoolActor
Handle == Actor \cup {Null}

ASSUME ActorAssumption ==
  /\ Executor # TopoBuilder /\ Executor # Collector /\ TopoBuilder # Collector
  /\ MainActor \cap (ChainActor \cup PoolActor) = {}
  /\ Null \notin Actor

ChainOf(c) == {a \in ChainActor : a[1] = c}
HeadOf(c) == <<c, 0>>

-----------------------------------------------------------------------------
(* Messages.                                                               *)

SignalType ==
  { "init", "exec_init", "rc_init", "sysconfig", "make_linear_chain",
    "topo_kill", "init_detached", "init_detached_reply", "detached_msg",
    "kill", "serial_benchmark", "serial_update_metrics", "serial_kill",
    "parallel_benchmark", "parallel_update_metrics", "parallel_kill", "end",
    "serial_collect", "serial_collect_xtimes", "send_collect",
    "rec_collect", "rec_collect_xtimes", "sys_collect", "benchmark_kill" }

ProbeType ==
  { "weightless", "weightless_back", "serial",
    "timed_msg", "timed_msg_back", "parallel" }

\* A message without arguments.
Signal(t) == [type |-> t]

SignalMsg == [type : SignalType]

(***************************************************************************)
(* A measurement on its way round a chain.  id and chain name it.  Its     *)
(* clock counts links: hops is the number of times it has been sent.       *)
(* start and stop are start_ and stop_ of the latency probe it carries,    *)
(* read on that clock: NotStarted is the empty time point of start_, and 0 *)
(* that of stop_.  The payload is left out.                                *)
(***************************************************************************)
NotStarted == -1

ProbeMsg == [type : ProbeType, id : Nat, chain : Nat, hops : Nat,
             start : Int, stop : Nat]

\* latency::restart(), latency::stop() and latency::operator(), which reads
\* nothing of a probe that was never started.
ProbeRestart(m) ==
  [m EXCEPT !.start = IF m.stop # 0 THEN m.stop ELSE m.hops, !.stop = 0]
ProbeStop(m) == IF m.stop # 0 THEN [m EXCEPT !.stop = m.hops] ELSE m
ProbeRead(m) ==
  IF m.start = NotStarted THEN 0
  ELSE (IF m.stop # 0 THEN m.stop ELSE m.hops) - m.start

InitBenchMsg == [type : {"init_bench"}, prev : Handle, next : Handle,
                 executor : Handle]

\* The reply to init_bench runs a closure that holds the chain's head.
HeadMsg == [type : {"init_bench_reply", "system_building"}, head : ChainActor]

Message == SignalMsg \cup ProbeMsg \cup InitBenchMsg \cup HeadMsg

-----------------------------------------------------------------------------
VARIABLES
  mbox,       \* mbox[a]: the mailbox of actor a
  live,       \* the actors that are spawned and have not quit
  timers,     \* the delayed messages that have not been delivered
  configured, \* the actors whose initialisation handler has run
  process     \* "running", "exited" (by exit(0)), "crashed", or "undefined"

systemVars == <<mbox, live, timers, process>>

\* The messages the executor and the results collector send with a delay.
Timer ==
  [to : {Executor},
   type : {"serial_update_metrics", "serial_kill",
           "parallel_update_metrics", "parallel_kill", "end"}]
    \cup [to : {Collector}, type : {"sys_collect", "benchmark_kill"}]

SystemTypeOK ==
  /\ mbox \in [Actor -> Seq(Message)]
  /\ live \subseteq Actor
  /\ timers \subseteq Timer
  /\ configured \subseteq Actor
  /\ process \in {"running", "exited", "crashed", "undefined"}

SystemInit ==
  /\ mbox = [a \in Actor |-> <<>>]
  /\ live = MainActor
  /\ timers = {}
  /\ configured = {}
  /\ process = "running"

-----------------------------------------------------------------------------
(* What a handler sends: for every handle, the messages sent to it.        *)

Silent == [h \in Handle |-> <<>>]
Sent(h, m) == [x \in Handle |-> IF x = h THEN <<m>> ELSE <<>>]

\* The mailbox of a once self has handled its first message, and out is sent.
Delivered(self, out, alive, a) ==
  IF a \in alive
  THEN (IF a = self THEN Tail(mbox[a]) ELSE mbox[a]) \o out[a]
  ELSE <<>>

\* The actor a is about to run its handler for a message of type t.
Receives(a, t) ==
  /\ process = "running"
  /\ a \in live
  /\ mbox[a] # <<>>
  /\ Head(mbox[a]).type = t

\* self consumes its first message and sends out; alive and pending are the
\* actors and the delayed messages afterwards.
Step(self, out, alive, pending) ==
  /\ mbox' = [a \in Actor |-> Delivered(self, out, alive, a)]
  /\ live' = alive
  /\ timers' = pending
  /\ UNCHANGED process

Handled(self, out) == Step(self, out, live, timers)

\* A thread that is not an actor of the model sends out.
Posted(out) == process = "running" /\ Handled(Null, out)

\* delayed_send(a, ..., t).
Later(a, t) == [to |-> a, type |-> t]

\* The process dies in the middle of a handler.
Crash == process' = "crashed" /\ UNCHANGED <<mbox, live, timers>>

\* The process ends in undefined behaviour of which other outcomes are modelled
\* as well.
Undefined == process' = "undefined" /\ UNCHANGED <<mbox, live, timers>>

\* The clock delivers a delayed message some time after delayed_send; the
\* executor says which delay matters.
Fire(t) ==
  /\ t \in timers
  /\ process = "running"
  /\ Step(Null, Sent(t.to, Signal(t.type)), live, timers \ {t})
  /\ UNCHANGED configured
=============================================================================
