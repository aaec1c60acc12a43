-------------------------- MODULE LatencyBenchmark --------------------------
(***************************************************************************)
(* The whole program: main(), the executor, the topology builder, the      *)
(* results collector, the chains, the detached pool, the rate generator    *)
(* and the clock (latency_benchmark.cpp).                                  *)
(***************************************************************************)
EXTENDS ExecutorActor, BenchmarkActor, TopologyBuilder, ResultsCollector

VARIABLE main_pc  \* the number of messages main() has sent

worldVars == <<systemVars, configured, execVars, rgVars, benchVars, topoVars,
               collectorVars, main_pc>>
vars == <<worldVars, clockVars>>

Init ==
  /\ SystemInit
  /\ ExecInitState
  /\ RgInit
  /\ BenchInit
  /\ TopoInit
  /\ CollectorInit
  /\ main_pc = 0

-----------------------------------------------------------------------------
\* Mutant: the topology builder is initialised last.
MainSends_LateInit ==
  << Sent(Collector, Signal("rc_init")),
     Sent(Executor, Signal("exec_init")),
     Sent(Executor, Signal("sysconfig")),
     Sent(TopoBuilder, Signal("init")) >>

\* What main() sends once the three actors are spawned, in this order.
MainSends ==
  << Sent(TopoBuilder, Signal("init")),
     Sent(Collector, Signal("rc_init")),
     Sent(Executor, Signal("exec_init")),
     Sent(Executor, Signal("sysconfig")) >>

MainStep ==
  /\ main_pc < Len(MainSends)
  /\ main_pc' = main_pc + 1
  /\ Posted(MainSends[main_pc + 1])
  /\ UNCHANGED <<configured, execVars, clockVars, rgVars, benchVars, topoVars,
                 collectorVars>>

ExecutorMoves ==
  ExecutorStep /\ UNCHANGED <<benchVars, topoVars, collectorVars, main_pc>>

RgMoves ==
  /\ RgStep
  /\ UNCHANGED <<execVars, clockVars, benchVars, topoVars, collectorVars, main_pc>>

ChainMoves(a) ==
  /\ ChainActorStep(a)
  /\ UNCHANGED <<execVars, clockVars, rgVars, topoVars, collectorVars, main_pc>>

PoolMoves(p) ==
  /\ PoolActorStep(p)
  /\ UNCHANGED <<execVars, clockVars, rgVars, topoVars, collectorVars, main_pc>>

TopoMoves ==
  /\ TopoStep
  /\ UNCHANGED <<execVars, clockVars, rgVars, benchVars, collectorVars, main_pc>>

CollectorMoves ==
  /\ CollectorStep
  /\ UNCHANGED <<execVars, clockVars, rgVars, benchVars, topoVars, main_pc>>

ClockMoves(t) ==
  /\ Fire(t)
  /\ Elapsed(t)
  /\ UNCHANGED <<execVars, clockVars, rgVars, benchVars, topoVars, collectorVars,
                 main_pc>>

TimePasses == SecondPasses /\ UNCHANGED worldVars

\* The process is over.
Terminated == process # "running" /\ UNCHANGED vars

Next ==
  \/ MainStep
  \/ ExecutorMoves
  \/ RgMoves
  \/ \E a \in ChainActor : ChainMoves(a)
  \/ \E p \in PoolActor : PoolMoves(p)
  \/ TopoMoves
  \/ CollectorMoves
  \/ \E t \in Timer : ClockMoves(t)
  \/ TimePasses
  \/ Terminated

(***************************************************************************)
(* The scheduler of the actor framework runs every actor that has          *)
(* messages, threads of their own make progress, time passes, and the      *)
(* clock delivers every delayed message.                                   *)
(***************************************************************************)
Fairness ==
  /\ WF_vars(MainStep)
  /\ WF_vars(ExecutorMoves)
  /\ WF_vars(RgMoves)
  /\ \A a \in ChainActor : WF_vars(ChainMoves(a))
  /\ \A p \in PoolActor : WF_vars(PoolMoves(p))
  /\ WF_vars(TopoMoves)
  /\ WF_vars(CollectorMoves)
  /\ \A t \in Timer : WF_vars(ClockMoves(t))
  /\ WF_vars(TimePasses)

Spec == Init /\ [][Next]_vars
FairSpec == Spec /\ Fairness
=============================================================================
