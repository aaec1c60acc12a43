--------------------------- MODULE BenchmarkActor ---------------------------
(***************************************************************************)
(* One actor of a chain (benchmark_actor.cpp), and the detached actors of  *)
(* the pool, which run the same code but are never linked into a chain.    *)
(***************************************************************************)
EXTENDS ActorSystem

VARIABLES
  prev_, next_, executor_,  \* the handles of each actor of a chain
  detached_pool_,           \* whether the actor was given the detached pool
  sender_to_detached_,      \* the uninitialised configuration field
  index_,                   \* global: next actor of the pool, modulo its size
  pool_jobs                 \* history: jobs sent to each actor of the pool

benchVars == <<prev_, next_, executor_, detached_pool_, sender_to_detached_,
               index_, pool_jobs>>
linkVars == <<prev_, next_, executor_, detached_pool_, sender_to_detached_>>
poolVars == <<index_, pool_jobs>>

BenchTypeOK ==
  /\ prev_ \in [ChainActor -> Handle]
  /\ next_ \in [ChainActor -> Handle]
  /\ executor_ \in [ChainActor -> Handle]
  /\ detached_pool_ \in [ChainActor -> BOOLEAN]
  /\ sender_to_detached_ \in SenderToDetachedRead
  /\ index_ \in {0} \cup 0 .. DetachedPool - 1
  /\ pool_jobs \in [PoolActor -> Nat]

BenchInit ==
  /\ prev_ = [a \in ChainActor |-> Null]
  /\ next_ = [a \in ChainActor |-> Null]
  /\ executor_ = [a \in ChainActor |-> Null]
  /\ detached_pool_ = [a \in ChainActor |-> FALSE]
  /\ sender_to_detached_ \in SenderToDetachedRead
  /\ index_ = 0
  /\ pool_jobs = [p \in PoolActor |-> 0]

-----------------------------------------------------------------------------
\* init_bench_a: the reply makes the topology builder run its continuation.
InitBench(a) ==
  /\ Receives(a, "init_bench")
  /\ LET m == Head(mbox[a]) IN
       /\ prev_' = [prev_ EXCEPT ![a] = m.prev]
       /\ next_' = [next_ EXCEPT ![a] = m.next]
       /\ executor_' = [executor_ EXCEPT ![a] = m.executor]
  /\ detached_pool_' = [detached_pool_ EXCEPT
                          ![a] = DetachedPool > 0 /\ a[2] = sender_to_detached_]
  /\ configured' = configured \cup {a}
  /\ Handled(a, Sent(TopoBuilder,
                     [type |-> "init_bench_reply", head |-> HeadOf(a[1])]))
  /\ UNCHANGED <<sender_to_detached_, poolVars>>

\* init_detached_a, received by the actors of the pool.
InitDetached(p) ==
  /\ Receives(p, "init_detached")
  /\ configured' = configured \cup {p}
  /\ Handled(p, Sent(TopoBuilder, Signal("init_detached_reply")))
  /\ UNCHANGED benchVars

\* detached_msg_a: the pool actor works, and changes nothing.
DetachedMsg(p) ==
  /\ Receives(p, "detached_msg")
  /\ Handled(p, Silent)
  /\ UNCHANGED <<configured, benchVars>>

-----------------------------------------------------------------------------
\* Mutant: index_ is only read.
NextInPool_NoAdd(i) == i

\* index_.fetch_add(1) % detached_pool_.size().
NextInPool(i) == (i + 1) % DetachedPool

\* send_to_detached(), then send(dst, t, m).
Relay(a, dst, t, m) ==
  LET out == Sent(dst, [m EXCEPT !.type = t, !.hops = @ + 1])
      p == <<0, index_>> IN
  \/ /\ detached_pool_[a]
     /\ Handled(a, [out EXCEPT ![p] = <<Signal("detached_msg")>>])
     /\ index_' = NextInPool(index_)
     /\ pool_jobs' = [pool_jobs EXCEPT ![p] = @ + 1]
  \/ /\ ~ detached_pool_[a]
     /\ Handled(a, out)
     /\ UNCHANGED poolVars

\* Stop the probes and hand the measurement back to the executor.
Report(a, t, m) ==
  /\ Handled(a, Sent(executor_[a],
                     [ProbeStop(m) EXCEPT !.type = t, !.hops = @ + 1]))
  /\ UNCHANGED poolVars

\* Forward on the forth route; the tail turns the measurement round or
\* reports it.
SendForth(a, forth, back, done, m) ==
  \/ next_[a] # Null /\ Relay(a, next_[a], forth, m)
  \/ next_[a] = Null /\ ForthAndBack /\ Relay(a, prev_[a], back, m)
  \/ next_[a] = Null /\ ~ ForthAndBack /\ Report(a, done, m)

\* Forward on the back route; the head reports the measurement.
SendBack(a, back, done, m) ==
  \/ prev_[a] # Null /\ Relay(a, prev_[a], back, m)
  \/ prev_[a] = Null /\ Report(a, done, m)

\* Mutant: no actor restarts the probe.
RestartAtHead_Nowhere(a, m) == m

\* The head restarts the probe of the pipeline latency, in send_timed_msg only.
RestartAtHead(a, m) ==
  IF prev_[a] = Null THEN ProbeRestart(m) ELSE m

Weightless(a) ==
  /\ Receives(a, "weightless")
  /\ SendForth(a, "weightless", "weightless_back", "serial", Head(mbox[a]))
  /\ UNCHANGED <<configured, linkVars>>

WeightlessBack(a) ==
  /\ Receives(a, "weightless_back")
  /\ SendBack(a, "weightless_back", "serial", Head(mbox[a]))
  /\ UNCHANGED <<configured, linkVars>>

\* timed_msg_a and timed_cmsg_a, which differ in the payload they carry along.
TimedMsg(a) ==
  /\ Receives(a, "timed_msg")
  /\ SendForth(a, "timed_msg", "timed_msg_back", "parallel",
               RestartAtHead(a, Head(mbox[a])))
  /\ UNCHANGED <<configured, linkVars>>

TimedMsgBack(a) ==
  /\ Receives(a, "timed_msg_back")
  /\ SendBack(a, "timed_msg_back", "parallel", Head(mbox[a]))
  /\ UNCHANGED <<configured, linkVars>>

\* Mutant: the handles are cleared before the kill is passed on.
KillTarget_Cleared(a) == Null

\* The actor that a passes the kill on to, read before the handles are cleared.
KillTarget(a) == next_[a]

\* kill_a: pass it on, forget the handles and quit.
Kill(a) ==
  /\ Receives(a, "kill")
  /\ Step(a, Sent(KillTarget(a), Signal("kill")), live \ {a}, timers)
  /\ prev_' = [prev_ EXCEPT ![a] = Null]
  /\ next_' = [next_ EXCEPT ![a] = Null]
  /\ executor_' = [executor_ EXCEPT ![a] = Null]
  /\ UNCHANGED <<configured, detached_pool_, sender_to_detached_, poolVars>>

ChainActorStep(a) ==
  \/ InitBench(a)
  \/ Weightless(a)
  \/ WeightlessBack(a)
  \/ TimedMsg(a)
  \/ TimedMsgBack(a)
  \/ Kill(a)

PoolActorStep(p) ==
  \/ InitDetached(p)
  \/ DetachedMsg(p)
=============================================================================
