--------------------------- MODULE TopologyBuilder ---------------------------
(***************************************************************************)
(* The actor that spawns the detached pool and the chains, and announces   *)
(* a chain to the executor once all its actors have been initialised       *)
(* (topology_builder.cpp).                                                 *)
(***************************************************************************)
EXTENDS ActorSystem

VARIABLES
  counter_,       \* replies to init_bench still missing
  topo_executor_, \* executor_
  chains_built    \* the number of chains spawned so far, which names them

topoVars == <<counter_, topo_executor_, chains_built>>

TopoTypeOK ==
  /\ counter_ \in 0 .. PipelineActors
  /\ topo_executor_ \in Handle
  /\ chains_built \in 0 .. ChainsNumber

TopoInit ==
  /\ counter_ = 0
  /\ topo_executor_ = Null
  /\ chains_built = 0

-----------------------------------------------------------------------------
\* init_a.
InitTopo ==
  /\ Receives(TopoBuilder, "init")
  /\ configured' = configured \cup {TopoBuilder}
  /\ counter_' = PipelineActors
  /\ topo_executor_' = Executor
  /\ Step(TopoBuilder,
          [h \in Handle |-> IF h \in PoolActor
                            THEN <<Signal("init_detached")>> ELSE <<>>],
          live \cup PoolActor, timers)
  /\ UNCHANGED chains_built

\* The continuation of init_detached_a is empty.
InitDetachedReply ==
  /\ Receives(TopoBuilder, "init_detached_reply")
  /\ Handled(TopoBuilder, Silent)
  /\ UNCHANGED <<configured, topoVars>>

Previous(a) == IF a[2] > 0 THEN <<a[1], a[2] - 1>> ELSE Null
Following(a) == IF a[2] < PipelineActors - 1 THEN <<a[1], a[2] + 1>> ELSE Null

\* Mutant: only the tail learns the executor.
InitRequest_TailOnly(a) ==
  [type |-> "init_bench", prev |-> Previous(a), next |-> Following(a),
   executor |-> IF Following(a) = Null THEN topo_executor_ ELSE Null]

InitRequest(a) ==
  [type |-> "init_bench", prev |-> Previous(a), next |-> Following(a),
   executor |-> topo_executor_]

\* make_linear_chain_a: spawn a chain and ask each of its actors to initialise.
MakeLinearChain ==
  /\ Receives(TopoBuilder, "make_linear_chain")
  /\ chains_built < ChainsNumber
  /\ chains_built' = chains_built + 1
  /\ LET chain == ChainOf(chains_built + 1) IN
       Step(TopoBuilder,
            [h \in Handle |-> IF h \in chain
                              THEN <<InitRequest(h)>> ELSE <<>>],
            live \cup chain, timers)
  /\ UNCHANGED <<configured, counter_, topo_executor_>>

\* Mutants: the count is not set again for the next chain, is set one short,
\* or stays at 1.
RepliesLeft_NoReset == counter_ - 1
RepliesLeft_OneShort == IF counter_ = 1 THEN PipelineActors - 1 ELSE counter_ - 1
RepliesLeft_StaysAtOne == IF counter_ = 1 THEN 1 ELSE counter_ - 1

\* The replies that are missing once one more has arrived.
RepliesLeft == IF counter_ = 1 THEN PipelineActors ELSE counter_ - 1

\* The continuation of init_bench_a: the last reply announces the chain.
InitBenchReply ==
  /\ Receives(TopoBuilder, "init_bench_reply")
  /\ counter_' = RepliesLeft
  /\ \/ /\ counter_ = 1
        /\ Handled(TopoBuilder,
                   Sent(topo_executor_, [type |-> "system_building",
                                  head |-> Head(mbox[TopoBuilder]).head]))
     \/ /\ counter_ # 1
        /\ Handled(TopoBuilder, Silent)
  /\ UNCHANGED <<configured, topo_executor_, chains_built>>

\* topo_kill_a.
TopoKill ==
  /\ Receives(TopoBuilder, "topo_kill")
  /\ topo_executor_' = Null
  /\ Step(TopoBuilder, Silent, live \ {TopoBuilder}, timers)
  /\ UNCHANGED <<configured, counter_, chains_built>>

TopoStep ==
  \/ InitTopo
  \/ InitDetachedReply
  \/ MakeLinearChain
  \/ InitBenchReply
  \/ TopoKill
=============================================================================
