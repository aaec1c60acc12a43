---------------------------- MODULE ExecutorActor ----------------------------
(***************************************************************************)
(* The actor that has the chains built, runs the benchmark, averages the   *)
(* measurements and stops everything (executor_actor.cpp).                 *)
(***************************************************************************)
EXTENDS RateGenerator

CONSTANT MaxReps  \* bound: rep_counter_ stays there once it is reached

ASSUME MaxRepsAssumption == MaxReps \in Nat \ {0}

VARIABLES
  topo_builder_, results_collector_,  \* handles
  heads_,        \* the heads of the chains announced so far
  nsteps_,       \* the number of links of a chain, what latencies are divided by
  rep_counter_,  \* serial: measurements started
  received,      \* history, parallel: id and chain of the measurements taken
  ct_hops,       \* hops of ct_overall_net_latency_, 0 while it is empty
  total_latency_, \* serial: whole seconds on that probe, while the kill waits
  kill_waits     \* serial: whole seconds since the kill was sent with its delay

execVars == <<topo_builder_, results_collector_, heads_, nsteps_,
              rep_counter_, received, ct_hops>>
handleVars == <<topo_builder_, results_collector_>>
countVars == <<nsteps_, rep_counter_, received, ct_hops>>
clockVars == <<total_latency_, kill_waits>>

ExecTypeOK ==
  /\ topo_builder_ \in Handle
  /\ results_collector_ \in Handle
  /\ heads_ \in Seq(ChainActor)
  /\ nsteps_ \in Nat
  /\ rep_counter_ \in 0 .. MaxReps
  /\ received \in Seq([id : Nat, chain : Nat])
  /\ ct_hops \in Nat

ClockTypeOK ==
  /\ total_latency_ \in Nat
  /\ kill_waits \in 0 .. Duration

ExecInitState ==
  /\ topo_builder_ = Null
  /\ results_collector_ = Null
  /\ heads_ = <<>>
  /\ nsteps_ = 0
  /\ rep_counter_ = 0
  /\ received = <<>>
  /\ ct_hops = 0
  /\ total_latency_ = 0
  /\ kill_waits = 0

-----------------------------------------------------------------------------
\* What exec_init_a computes for nsteps_.
Links == IF ForthAndBack THEN 2 * PipelineActors - 2 ELSE PipelineActors - 1

\* exec_init_a.
ExecInit ==
  /\ Receives(Executor, "exec_init")
  /\ topo_builder_' = TopoBuilder
  /\ results_collector_' = Collector
  /\ nsteps_' = Links
  /\ configured' = configured \cup {Executor}
  /\ Handled(Executor, Silent)
  /\ UNCHANGED <<heads_, rep_counter_, received, ct_hops, clockVars, rgVars>>

BenchmarkSignal ==
  Signal(IF IsParallel THEN "parallel_benchmark" ELSE "serial_benchmark")

\* sysconfig_a: start the benchmark, or ask for one more chain.
Sysconfig ==
  /\ Receives(Executor, "sysconfig")
  /\ IF Len(heads_) = ChainsNumber
     THEN Handled(Executor, Sent(Executor, BenchmarkSignal))
     ELSE Handled(Executor, Sent(topo_builder_, Signal("make_linear_chain")))
  /\ UNCHANGED <<configured, execVars, clockVars, rgVars>>

\* system_building_a.
SystemBuilding ==
  /\ Receives(Executor, "system_building")
  /\ heads_' = Append(heads_, Head(mbox[Executor]).head)
  /\ Handled(Executor, Sent(Executor, Signal("sysconfig")))
  /\ UNCHANGED <<configured, handleVars, countVars, clockVars, rgVars>>

\* The delayed messages that start with a benchmark.
BenchmarkTimers(update, kill) ==
  {Later(Executor, update)} \cup (IF Duration > 0 THEN {Later(Executor, kill)}
                                                  ELSE {})

SerialTimers == BenchmarkTimers("serial_update_metrics", "serial_kill")
ParallelTimers == BenchmarkTimers("parallel_update_metrics", "parallel_kill")

-----------------------------------------------------------------------------
\* The serial benchmark measures neither complex payloads nor cross times.
SerialRefuses == IsComplex \/ IsCrossTimes

\* The message by which the executor starts the first measurement.
SerialStart ==
  [type |-> "serial", id |-> 0, chain |-> 1, hops |-> 0, start |-> 0, stop |-> 0]

\* serial_benchmark_a.
SerialBenchmark ==
  /\ Receives(Executor, "serial_benchmark")
  /\ IF SerialRefuses
     THEN /\ Handled(Executor, Silent)
          /\ UNCHANGED clockVars
     ELSE /\ Step(Executor, Sent(Executor, SerialStart), live,
                  timers \cup SerialTimers)
          /\ total_latency_' = 0
          /\ kill_waits' = 0
  /\ UNCHANGED <<configured, execVars, rgVars>>

(***************************************************************************)
(* The one delay a handler relies on: serial_kill_a divides by the whole   *)
(* seconds of total_latency_.  The probe was restarted before the message  *)
(* was sent, so that it has at least as many behind it, and a delayed      *)
(* message does not come before its time.  What passes once it has come    *)
(* only adds to the probe, and is left out.                                *)
(***************************************************************************)
KillTimer == Later(Executor, "serial_kill")

SecondPasses ==
  /\ process = "running"
  /\ KillTimer \in timers
  /\ kill_waits < Duration
  /\ kill_waits' = kill_waits + 1
  /\ total_latency_' = total_latency_ + 1

\* Mutant: the kill is sent without its delay.
Elapsed_AtOnce(t) == TRUE

\* The delay of t is over.
Elapsed(t) == t = KillTimer => kill_waits = Duration

\* Mutant: chain_latency is not restarted.
NextRound_NoRestart(m) ==
  [m EXCEPT !.type = "weightless", !.hops = 1, !.start = @ - m.hops]

\* The global probe chain_latency travels with the one message it measures.
\* Its clock starts again from 0 when the executor restarts it.
NextRound(m) ==
  [ProbeRestart(m) EXCEPT !.type = "weightless", !.hops = 1, !.start = @ - m.hops]

\* Mutant: only the measurements after the first are counted.
RepsAfter_SkipsFirst(n) == IF n > 0 /\ n < MaxReps THEN n + 1 ELSE n

\* rep_counter_++, up to the bound.
RepsAfter(n) == IF n < MaxReps THEN n + 1 ELSE n

\* Mutant: the measurement goes to every chain, as in the parallel benchmark.
SerialTargets_AllChains == {heads_[i] : i \in 1 .. Len(heads_)}

\* The heads that get the next measurement.
SerialTargets == {heads_[1]}

\* serial_a: take the measurement and start the next one.
Serial ==
  /\ Receives(Executor, "serial")
  /\ IF heads_ = <<>>
     THEN /\ Crash
          /\ UNCHANGED rep_counter_
     ELSE /\ Handled(Executor,
                     [h \in Handle |-> IF h \in SerialTargets
                                       THEN <<NextRound(Head(mbox[Executor]))>>
                                       ELSE <<>>])
          /\ rep_counter_' = RepsAfter(rep_counter_)
  /\ UNCHANGED <<configured, handleVars, heads_, nsteps_, received, ct_hops,
                 clockVars, rgVars>>

\* What the executor leaves behind when it has stopped a benchmark.
Stopped ==
  /\ topo_builder_' = Null
  /\ results_collector_' = Null

\* Mutant: every actor of a chain is told to quit, not only its head.
StopMessages_WholeChains(heads, result) ==
  [h \in Handle |->
     IF h = results_collector_ THEN <<Signal(result)>>
     ELSE IF h = topo_builder_ THEN <<Signal("topo_kill")>>
     ELSE IF \E x \in heads : h \in ChainOf(x[1]) THEN <<Signal("kill")>>
     ELSE <<>>]

\* The messages that stop the chains of heads and the topology builder.
StopMessages(heads, result) ==
  [h \in Handle |->
     IF h = results_collector_ THEN <<Signal(result)>>
     ELSE IF h = topo_builder_ THEN <<Signal("topo_kill")>>
     ELSE IF h \in heads THEN <<Signal("kill")>>
     ELSE <<>>]

\* serial_kill_a: the averages divide by nsteps_, by nsteps_ * rep_counter_ and
\* by whole seconds, and only the first chain is stopped.
SerialKill ==
  /\ Receives(Executor, "serial_kill")
  /\ IF heads_ = <<>> \/ nsteps_ * rep_counter_ = 0 \/ total_latency_ = 0
     THEN /\ Crash
          /\ UNCHANGED handleVars
     ELSE /\ Step(Executor,
                  StopMessages({heads_[1]},
                               IF IsCrossTimes THEN "serial_collect_xtimes"
                                               ELSE "serial_collect"),
                  live, timers \cup {Later(Executor, "end")})
          /\ Stopped
  /\ UNCHANGED <<configured, heads_, countVars, clockVars, rgVars>>

-----------------------------------------------------------------------------
\* parallel_benchmark_a.
ParallelBenchmark ==
  /\ Receives(Executor, "parallel_benchmark")
  /\ SpawnRateGenerator(heads_)
  /\ Step(Executor, Silent, live, timers \cup ParallelTimers)
  /\ UNCHANGED <<configured, execVars, clockVars>>

\* cross_times::operator+= refuses an operand with another number of hops; it
\* is called from a noexcept function.
Summable(hops) == IsCrossTimes => ct_hops \in {0, hops}

\* parallel_a: take the measurement.
Parallel ==
  /\ Receives(Executor, "parallel")
  /\ LET m == Head(mbox[Executor]) IN
       IF Summable(m.hops)
       THEN /\ received' = Append(received, [id |-> m.id, chain |-> m.chain])
            /\ ct_hops' = IF IsCrossTimes THEN m.hops ELSE ct_hops
            /\ Handled(Executor, Silent)
       ELSE /\ Crash
            /\ UNCHANGED <<received, ct_hops>>
  /\ UNCHANGED <<configured, handleVars, heads_, nsteps_, rep_counter_,
                 clockVars, rgVars>>

\* parallel_kill_a: the averages divide by nsteps_ and by nsteps_ + 1, and in
\* floating point by the seconds; all the chains are stopped.
ParallelKill ==
  /\ Receives(Executor, "parallel_kill")
  /\ IF nsteps_ = 0
     THEN /\ Crash
          /\ UNCHANGED <<handleVars, heads_>>
     ELSE /\ Step(Executor,
                  StopMessages({heads_[i] : i \in 1 .. Len(heads_)},
                               IF IsCrossTimes THEN "rec_collect_xtimes"
                                               ELSE "rec_collect"),
                  live, timers \cup {Later(Executor, "end")})
          /\ Stopped
          /\ heads_' = <<>>
  /\ UNCHANGED <<configured, countVars, clockVars, rgVars>>

-----------------------------------------------------------------------------
\* serial_update_metrics_a and parallel_update_metrics_a start their timer again.
UpdateMetrics(t) ==
  /\ Receives(Executor, t)
  /\ Step(Executor, Silent, live, timers \cup {Later(Executor, t)})
  /\ UNCHANGED <<configured, execVars, clockVars, rgVars>>

\* end_a.
End ==
  /\ Receives(Executor, "end")
  /\ Step(Executor, Silent, live \ {Executor}, timers)
  /\ UNCHANGED <<configured, execVars, clockVars, rgVars>>

ExecutorStep ==
  \/ ExecInit
  \/ Sysconfig
  \/ SystemBuilding
  \/ SerialBenchmark
  \/ Serial
  \/ UpdateMetrics("serial_update_metrics")
  \/ SerialKill
  \/ ParallelBenchmark
  \/ Parallel
  \/ UpdateMetrics("parallel_update_metrics")
  \/ ParallelKill
  \/ End
=============================================================================
