---------------------------- MODULE Measuring_proofs ----------------------------
(***************************************************************************)
(* What the benchmark measures and reports, for every number and length of *)
(* chains and every pool: the serial benchmark has one message under way,  *)
(* every measurement spans the same links, no handler crashes on what it   *)
(* finds, and one result is written, with the columns of the header.       *)
(*                                                                         *)
(* None of these is inductive.  OneRound adds to OneSerialMessage that     *)
(* there is no such message before the benchmark starts, which happens     *)
(* once (Started).  Routed says of every measurement where it is on its    *)
(* route and what its probe holds there.  Prepared says what the           *)
(* divisions and subscripts rely on: the heads that were announced, and a  *)
(* serial measurement in front of the kill that ends the benchmark.        *)
(***************************************************************************)
EXTENDS LatencyBenchmark_proofs

\* self takes its first message and sends messages of the types in types, at
\* most one to each actor.
Sends(self, types) ==
  \E out : /\ Parcel(out) /\ Arrives(self, out)
           /\ \A a \in Actor : \A m : out[a] = <<m>> => m.type \in types

-----------------------------------------------------------------------------
(* What the components send.                                               *)

\* The same message to several actors.
ToAll(hs, m) == [h \in Handle |-> IF h \in hs THEN <<m>> ELSE <<>>]

\* One message at most arrives at each actor from what the handlers send.
LEMMA SendingParcels ==
  /\ Parcel(Silent) /\ \A a \in Actor : \A m : Silent[a] # <<m>>
  /\ \A h, m : /\ Parcel(Sent(h, m))
               /\ \A a \in Actor : \A x : Sent(h, m)[a] = <<x>> => x = m /\ a = h
               /\ h \in Actor => Sent(h, m)[h] = <<m>>
  /\ \A hs, m : /\ Parcel(ToAll(hs, m))
                /\ \A a \in Actor : \A x : ToAll(hs, m)[a] = <<x>> => x = m /\ a \in hs
<1>1. \A m, x : <<>> # <<m>> /\ (<<x>> = <<m>> => x = m)
  OBVIOUS
<1>2. \A a \in Actor : Silent[a] = <<>>
  BY MainActorsAreActors DEF Silent
<1>3. ASSUME NEW h, NEW m
      PROVE  /\ Parcel(Sent(h, m))
             /\ \A a \in Actor : \A x : Sent(h, m)[a] = <<x>> => x = m /\ a = h
             /\ h \in Actor => Sent(h, m)[h] = <<m>>
  <2> DEFINE out == Sent(h, m)
  <2>1. \A a \in Actor : out[a] = IF a = h THEN <<m>> ELSE <<>>
    BY MainActorsAreActors DEF Sent
  <2> HIDE DEF out
  <2>2. Parcel(out)
    BY <2>1 DEF Parcel
  <2>3. \A a \in Actor : \A x : out[a] = <<x>> => x = m /\ a = h
    BY <1>1, <2>1
  <2> QED BY <2>1, <2>2, <2>3 DEF out
<1>4. ASSUME NEW hs, NEW m
      PROVE  /\ Parcel(ToAll(hs, m))
             /\ \A a \in Actor : \A x : ToAll(hs, m)[a] = <<x>> => x = m /\ a \in hs
  <2> DEFINE out == ToAll(hs, m)
  <2>1. \A a \in Actor : out[a] = IF a \in hs THEN <<m>> ELSE <<>>
    BY MainActorsAreActors DEF ToAll
  <2> HIDE DEF out
  <2>2. Parcel(out)
    BY <2>1 DEF Parcel
  <2>3. \A a \in Actor : \A x : out[a] = <<x>> => x = m /\ a \in hs
    BY <1>1, <2>1
  <2> QED BY <2>2, <2>3 DEF out
<1> QED BY <1>1, <1>2, <1>3, <1>4 DEF Parcel

\* What a step of an actor or a thread sends.
LEMMA StepSends ==
  ASSUME NEW self, NEW out, Parcel(out), self \in Actor => mbox[self] # <<>>,
         NEW alive, NEW pending, Step(self, out, alive, pending), NEW types,
         \A a \in Actor : \A m : out[a] = <<m>> => m.type \in types
  PROVE  Sends(self, types)
<1>1. Arrives(self, out)
  BY DEF Arrives, Step
<1> QED BY <1>1 DEF Sends

\* A step that sends nothing, and one that sends one message.
LEMMA SimpleSends ==
  ASSUME NEW self, self \in Actor => mbox[self] # <<>>, NEW alive, NEW pending
  PROVE  /\ \A types : Step(self, Silent, alive, pending) => Sends(self, types)
         /\ \A h, m : Step(self, Sent(h, m), alive, pending) => Sends(self, {m.type})
<1>1. ASSUME NEW types, Step(self, Silent, alive, pending) PROVE Sends(self, types)
  <2>1. Parcel(Silent) /\ \A a \in Actor : \A x : Silent[a] = <<x>> => x.type \in types
    BY SendingParcels
  <2> QED BY <1>1, <2>1, StepSends
<1>2. ASSUME NEW h, NEW m, Step(self, Sent(h, m), alive, pending) PROVE Sends(self, {m.type})
  <2>1. Parcel(Sent(h, m)) /\ \A a \in Actor : \A x : Sent(h, m)[a] = <<x>> => x.type \in {m.type}
    BY SendingParcels
  <2> QED BY <1>2, <2>1, StepSends
<1> QED BY <1>1, <1>2

\* More types may be named.
LEMMA SendsMore ==
  ASSUME NEW self, NEW few, NEW many, few \subseteq many, Sends(self, few)
  PROVE  Sends(self, many)
BY DEF Sends

\* What main() sends next.
MainType == IF main_pc = 1 THEN {"rc_init"} ELSE {"init", "exec_init", "sysconfig"}

\* main() sends four signals.
LEMMA MainSending == ASSUME Typed, MainStep PROVE Sends(Null, MainType)
<1>1. PICK h \in {TopoBuilder, Collector, Executor}, t \in MainType :
        MainSends[main_pc + 1] = Sent(h, Signal(t))
  <2>1. main_pc = 0 \/ main_pc = 1 \/ main_pc = 2 \/ main_pc = 3
    BY MainPc DEF MainStep, MainSends
  <2> QED BY <2>1 DEF MainSends, MainType
<1>2. Step(Null, Sent(h, Signal(t)), live, timers)
  BY <1>1 DEF MainStep, Posted, Handled
<1>3. Sends(Null, {Signal(t).type})
  BY <1>2, NullNotActor, SimpleSends
<1>4. Signal(t).type = t
  BY DEF Signal
<1> QED BY <1>3, <1>4, SendsMore

\* The rate generator sends messages of the parallel benchmark, and in the end a
\* signal.
LEMMA RgSending ==
  ASSUME RgMoves
  PROVE  \/ (RgStart \/ RgFirstHop) /\ UNCHANGED mbox
         \/ RgSend /\ Sends(Null, {"timed_msg"})
         \/ RgFinish /\ Sends(Null, {"send_collect"})
<1>1. CASE RgStart
  BY <1>1 DEF RgStart, Crash
<1>2. CASE RgSend
  <2> DEFINE head == rg_receivers[rg_index + 1]
  <2>1. NewMsg(head[1]).type = "timed_msg"
    BY DEF NewMsg
  <2>2. Step(Null, Sent(head, NewMsg(head[1])), live, timers)
    BY <1>2 DEF RgSend, Posted, Handled
  <2> HIDE DEF head
  <2>3. Sends(Null, {NewMsg(head[1]).type})
    BY <2>2, NullNotActor, SimpleSends
  <2> QED BY <1>2, <2>1, <2>3
<1>3. CASE RgFinish
  <2>1. Signal("send_collect").type = "send_collect"
    BY DEF Signal
  <2>2. Step(Null, Sent(Collector, Signal("send_collect")), live, timers)
    BY <1>3 DEF RgFinish, Posted, Handled
  <2> QED BY <1>3, <2>1, <2>2, NullNotActor, SimpleSends
<1>4. RgFirstHop => UNCHANGED mbox
  BY DEF RgFirstHop, Undefined
<1> QED BY <1>1, <1>2, <1>3, <1>4 DEF RgMoves, RgStep

\* An actor of the pool replies to init_detached at most.
LEMMA PoolSending ==
  ASSUME NEW p \in PoolActor, PoolMoves(p) PROVE Sends(p, {"init_detached_reply"})
<1>1. PICK out \in {Silent, Sent(TopoBuilder, Signal("init_detached_reply"))} :
        Step(p, out, live, timers) /\ mbox[p] # <<>>
  BY DEF PoolMoves, PoolActorStep, InitDetached, DetachedMsg, Handled, Receives
<1>2. Signal("init_detached_reply").type = "init_detached_reply"
  BY DEF Signal
<1> QED BY <1>1, <1>2, SimpleSends

\* The results collector sends nothing.
LEMMA CollectorSending ==
  ASSUME CollectorMoves PROVE (BenchmarkKill /\ UNCHANGED mbox) \/ Sends(Collector, {})
<1>1. CASE BenchmarkKill
  BY <1>1 DEF BenchmarkKill
<1>2. CASE ~ BenchmarkKill
  <2>1. (\E pending : Step(Collector, Silent, live, pending)) /\ mbox[Collector] # <<>>
    BY <1>2 DEF CollectorMoves, CollectorStep, RcInit, SendCollect, FinalCollect, SysCollect,
       Handled, Receives
  <2> QED BY <2>1, SimpleSends
<1> QED BY <1>1, <1>2

\* The clock sends a signal.
LEMMA ClockSending == ASSUME NEW t \in Timer, ClockMoves(t) PROVE Sends(Null, {t.type})
<1>1. Step(Null, Sent(t.to, Signal(t.type)), live, timers \ {t})
  BY DEF ClockMoves, Fire
<1>2. Signal(t.type).type = t.type
  BY DEF Signal
<1> QED BY <1>1, <1>2, NullNotActor, SimpleSends

\* The topology builder sends what builds and what initialises.
LEMMA TopoSending ==
  ASSUME TopoMoves
  PROVE  Sends(TopoBuilder, {"init_detached", "init_bench", "system_building"})
<1>1. CASE InitTopo
  <2> DEFINE x == Signal("init_detached")
             out == ToAll(PoolActor, x)
  <2>1. x.type = "init_detached"
    BY DEF Signal
  <2>2. mbox[TopoBuilder] # <<>> /\ Step(TopoBuilder, out, live \cup PoolActor, timers)
    BY <1>1 DEF InitTopo, Receives, ToAll
  <2> HIDE DEF x
  <2>3. Parcel(out) /\ \A a \in Actor : \A m : out[a] = <<m>> => m.type \in {"init_detached"}
    BY <2>1, SendingParcels
  <2> HIDE DEF out
  <2>4. Sends(TopoBuilder, {"init_detached"})
    BY <2>2, <2>3, StepSends
  <2> QED BY <2>4, SendsMore
<1>2. CASE InitDetachedReply \/ TopoKill
  <2>1. mbox[TopoBuilder] # <<>> /\ \E alive : Step(TopoBuilder, Silent, alive, timers)
    BY <1>2 DEF InitDetachedReply, TopoKill, Handled, Receives
  <2> QED BY <2>1, SimpleSends
<1>3. CASE MakeLinearChain
  <2> DEFINE chain == ChainOf(chains_built + 1)
             out == [h \in Handle |-> IF h \in chain THEN <<InitRequest(h)>> ELSE <<>>]
  <2>1. \A h : InitRequest(h).type = "init_bench"
    BY DEF InitRequest
  <2>2. mbox[TopoBuilder] # <<>> /\ Step(TopoBuilder, out, live \cup chain, timers)
    BY <1>3 DEF MakeLinearChain, Receives
  <2> HIDE DEF chain
  <2>3. Parcel(out) /\ \A a \in Actor : \A m : out[a] = <<m>> => m.type \in {"init_bench"}
    <3>1. \A a \in Actor : out[a] = <<InitRequest(a)>> \/ out[a] = <<>>
      BY MainActorsAreActors
    <3>2. \A m, x : <<>> # <<m>> /\ (<<x>> = <<m>> => x = m)
      OBVIOUS
    <3> HIDE DEF out
    <3> QED BY <2>1, <3>1, <3>2 DEF Parcel
  <2> HIDE DEF out
  <2>4. Sends(TopoBuilder, {"init_bench"})
    BY <2>2, <2>3, StepSends
  <2> QED BY <2>4, SendsMore
<1>4. CASE InitBenchReply
  <2> DEFINE x == [type |-> "system_building", head |-> Head(mbox[TopoBuilder]).head]
             out == Sent(topo_executor_, x)
  <2>1. x.type = "system_building"
    OBVIOUS
  <2>2. mbox[TopoBuilder] # <<>>
        /\ (Step(TopoBuilder, out, live, timers) \/ Step(TopoBuilder, Silent, live, timers))
    BY <1>4 DEF InitBenchReply, Handled, Receives
  <2> HIDE DEF x
  <2>3. Sends(TopoBuilder, {x.type})
    BY <2>2, SimpleSends
  <2> QED BY <2>1, <2>3, SendsMore
<1> QED BY <1>1, <1>2, <1>3, <1>4 DEF TopoMoves, TopoStep

-----------------------------------------------------------------------------
(* What the probes hold.                                                   *)

\* Setting a field of a measurement sets that field and no other.
LEMMA FieldSet ==
  ASSUME NEW m \in ProbeMsg
  PROVE  /\ \A v : /\ [m EXCEPT !.type = v].type = v /\ [m EXCEPT !.hops = v].hops = v
                   /\ [m EXCEPT !.start = v].start = v /\ [m EXCEPT !.stop = v].stop = v
         /\ \A v : \A x \in {[m EXCEPT !.type = v], [m EXCEPT !.hops = v],
                             [m EXCEPT !.start = v], [m EXCEPT !.stop = v]} :
              x.id = m.id /\ x.chain = m.chain
         /\ \A v : \A x \in {[m EXCEPT !.type = v], [m EXCEPT !.start = v],
                             [m EXCEPT !.stop = v]} : x.hops = m.hops
         /\ \A v : \A x \in {[m EXCEPT !.type = v], [m EXCEPT !.hops = v],
                             [m EXCEPT !.stop = v]} : x.start = m.start
         /\ \A v : \A x \in {[m EXCEPT !.type = v], [m EXCEPT !.hops = v],
                             [m EXCEPT !.start = v]} : x.stop = m.stop
         /\ \A v : \A x \in {[m EXCEPT !.hops = v], [m EXCEPT !.stop = v],
                             [m EXCEPT !.start = v]} : x.type = m.type
BY DEF ProbeMsg

\* A measurement that is passed on keeps its name and its probe.
LEMMA PassedIs ==
  ASSUME NEW m \in ProbeMsg, NEW t \in ProbeType
  PROVE  LET x == [m EXCEPT !.type = t, !.hops = @ + 1]
         IN  /\ x \in ProbeMsg /\ x.type = t /\ x.hops = m.hops + 1
             /\ x.chain = m.chain /\ x.id = m.id /\ x.start = m.start /\ x.stop = m.stop
<1> DEFINE x == [m EXCEPT !.type = t]
           n == m.hops + 1
           y == [x EXCEPT !.hops = n]
<1>1. [m EXCEPT !.type = t, !.hops = @ + 1] = y
  BY FieldTyped
<1>2. x \in ProbeMsg /\ n \in Nat
  BY FieldTyped
<1>3. /\ x.type = t /\ x.chain = m.chain /\ x.id = m.id /\ x.start = m.start
      /\ x.stop = m.stop
  BY FieldSet
<1> HIDE DEF x, n
<1>4. /\ y \in ProbeMsg /\ y.type = x.type /\ y.hops = n /\ y.chain = x.chain
      /\ y.id = x.id /\ y.start = x.start /\ y.stop = x.stop
  BY <1>2, FieldSet, FieldTyped
<1> HIDE DEF y
<1> QED BY <1>1, <1>3, <1>4 DEF n

\* A probe that was not stopped starts again at the time of its restart.
LEMMA RestartIs ==
  ASSUME NEW m \in ProbeMsg, m.stop = 0
  PROVE  /\ ProbeRestart(m) \in ProbeMsg /\ ProbeRestart(m).type = m.type
         /\ ProbeRestart(m).hops = m.hops /\ ProbeRestart(m).chain = m.chain
         /\ ProbeRestart(m).id = m.id /\ ProbeRestart(m).stop = 0
         /\ ProbeRestart(m).start = m.hops
<1> DEFINE h == m.hops
           x == [m EXCEPT !.start = h]
           y == [x EXCEPT !.stop = 0]
<1>1. ProbeRestart(m) = y
  BY DEF ProbeRestart
<1>2. h \in Int
  BY FieldTyped
<1>3. x \in ProbeMsg
  BY <1>2, FieldTyped
<1>4. /\ x.type = m.type /\ x.chain = m.chain /\ x.id = m.id /\ x.hops = m.hops
      /\ x.start = h
  BY FieldSet
<1> HIDE DEF x, h
<1>5. /\ y \in ProbeMsg /\ y.type = x.type /\ y.hops = x.hops /\ y.chain = x.chain
      /\ y.id = x.id /\ y.start = x.start /\ y.stop = 0
  BY <1>3, FieldSet, FieldTyped
<1> HIDE DEF y
<1> QED BY <1>1, <1>4, <1>5 DEF h

\* The message of the next round: its probe starts at 0 on the clock of that
\* round.
LEMMA NextRoundIs ==
  ASSUME NEW m \in ProbeMsg
  PROVE  /\ NextRound(m) \in ProbeMsg /\ NextRound(m).type = "weightless"
         /\ m.stop = 0 =>
              /\ NextRound(m).hops = 1 /\ NextRound(m).chain = m.chain
              /\ NextRound(m).start = 0 /\ NextRound(m).stop = 0
<1> DEFINE r == ProbeRestart(m)
           x == [r EXCEPT !.type = "weightless"]
           y == [x EXCEPT !.hops = 1]
           n == r.start - m.hops
           z == [y EXCEPT !.start = n]
<1>1. r \in ProbeMsg
  BY RestartTyped
<1>2. NextRound(m) = z
  BY DEF NextRound
<1>3. /\ m.stop = 0 => r.chain = m.chain /\ r.stop = 0 /\ r.start = m.hops
      /\ r.start \in Int /\ m.hops \in Nat
  BY <1>1, RestartIs, FieldTyped
<1> HIDE DEF r
<1>4. x \in ProbeMsg /\ x.type = "weightless" /\ x.chain = r.chain /\ x.stop = r.stop
  <2>1. x \in ProbeMsg
    BY <1>1, FieldTyped DEF ProbeType
  <2> QED BY <1>1, <2>1, FieldSet
<1>5. n \in Int /\ (m.stop = 0 => n = 0)
  BY <1>3
<1> HIDE DEF x, n
<1>6. y \in ProbeMsg /\ y.type = x.type /\ y.chain = x.chain /\ y.stop = x.stop /\ y.hops = 1
  BY <1>4, FieldTyped, FieldSet
<1> HIDE DEF y
<1>7. /\ z \in ProbeMsg /\ z.type = y.type /\ z.chain = y.chain /\ z.stop = y.stop
      /\ z.hops = y.hops /\ z.start = n
  BY <1>5, <1>6, FieldTyped, FieldSet
<1> HIDE DEF z
<1> QED BY <1>2, <1>3, <1>4, <1>5, <1>6, <1>7

\* A stop sends the message to the collector, topo_kill and kills.
LEMMA StopSending ==
  ASSUME mbox[Executor] # <<>>, NEW heads, NEW t \in FinalType, NEW pending,
         Step(Executor, StopMessages(heads, t), live, pending)
  PROVE  Sends(Executor, {t, "topo_kill", "kill"})
<1> DEFINE out == StopMessages(heads, t)
<1>1. \A a \in Actor : out[a] \in {<<Signal(t)>>, <<Signal("topo_kill")>>, <<Signal("kill")>>, <<>>}
  BY MainActorsAreActors DEF StopMessages
<1>2. \A x, m : <<>> # <<m>> /\ (<<x>> = <<m>> => x = m)
  OBVIOUS
<1>3. \A s : Signal(s).type = s
  BY DEF Signal
<1> HIDE DEF out
<1>4. Parcel(out) /\ \A a \in Actor : \A m : out[a] = <<m>> => m.type \in {t, "topo_kill", "kill"}
  BY <1>1, <1>2, <1>3 DEF Parcel
<1> QED BY <1>4, StepSends DEF out

\* What serial_kill_a divides by is not zero, and it has a chain to stop.
Divides == heads_ # <<>> /\ nsteps_ * rep_counter_ # 0 /\ total_latency_ # 0

\* What the executor sends, handler by handler, unless it crashes.
LEMMA ExecutorSending ==
  ASSUME Typed, ExecutorMoves
  PROVE  \/ Crash /\ (Serial \/ SerialKill \/ Parallel \/ ParallelKill)
         \/ ExecInit /\ Sends(Executor, {})
         \/ /\ Sysconfig
            /\ Sends(Executor, IF Len(heads_) = ChainsNumber THEN {BenchmarkSignal.type}
                                                            ELSE {"make_linear_chain"})
         \/ SystemBuilding /\ Sends(Executor, {"sysconfig"})
         \/ SerialBenchmark /\ Sends(Executor, {"serial"})
         \/ Serial /\ heads_ # <<>> /\ Sends(Executor, {"weightless"})
         \/ /\ \E t \in {"serial_update_metrics", "parallel_update_metrics"} : UpdateMetrics(t)
            /\ Sends(Executor, {})
         \/ /\ SerialKill /\ Divides
            /\ Sends(Executor, {IF IsCrossTimes THEN "serial_collect_xtimes"
                                               ELSE "serial_collect", "topo_kill", "kill"})
         \/ ParallelBenchmark /\ Sends(Executor, {})
         \/ Parallel /\ Summable(Head(mbox[Executor]).hops) /\ Sends(Executor, {})
         \/ /\ ParallelKill /\ nsteps_ # 0
            /\ Sends(Executor, {IF IsCrossTimes THEN "rec_collect_xtimes"
                                               ELSE "rec_collect", "topo_kill", "kill"})
         \/ End /\ Sends(Executor, {})
<1>0. \A t : Receives(Executor, t) => mbox[Executor] # <<>>
  BY DEF Receives
<1>1. ASSUME NEW t, Receives(Executor, t), NEW alive, NEW pending
      PROVE  /\ Step(Executor, Silent, alive, pending) => Sends(Executor, {})
             /\ \A h, m : Step(Executor, Sent(h, m), alive, pending)
                            => Sends(Executor, {m.type})
  BY <1>0, <1>1, SimpleSends
<1>2. ExecInit => Sends(Executor, {})
  BY <1>1 DEF ExecInit, Handled
<1>3. Sysconfig => Sends(Executor, IF Len(heads_) = ChainsNumber THEN {BenchmarkSignal.type}
                                                               ELSE {"make_linear_chain"})
  <2>1. Signal("make_linear_chain").type = "make_linear_chain"
    BY DEF Signal
  <2> QED BY <1>1, <2>1 DEF Sysconfig, Handled
<1>4. SystemBuilding => Sends(Executor, {"sysconfig"})
  <2>1. Signal("sysconfig").type = "sysconfig"
    BY DEF Signal
  <2> QED BY <1>1, <2>1 DEF SystemBuilding, Handled
<1>5. SerialBenchmark => Sends(Executor, {"serial"})
  <2> SUFFICES ASSUME SerialBenchmark PROVE Sends(Executor, {"serial"})
    OBVIOUS
  <2>1. SerialStart.type = "serial"
    BY DEF SerialStart
  <2>2. Receives(Executor, "serial_benchmark")
        /\ \E pending : \/ Step(Executor, Sent(Executor, SerialStart), live, pending)
                        \/ Step(Executor, Silent, live, pending)
    BY DEF SerialBenchmark, Handled
  <2>3. Sends(Executor, {SerialStart.type}) \/ Sends(Executor, {})
    BY <1>1, <2>2
  <2> QED BY <2>1, <2>3, SendsMore
<1>6. Serial /\ heads_ # <<>> => Sends(Executor, {"weightless"})
  <2> SUFFICES ASSUME Serial, heads_ # <<>> PROVE Sends(Executor, {"weightless"})
    OBVIOUS
  <2> DEFINE x == NextRound(Head(mbox[Executor]))
             out == ToAll(SerialTargets, x)
  <2>1. Receives(Executor, "serial") /\ Step(Executor, out, live, timers)
    BY DEF Serial, Handled, ToAll
  <2>2. x.type = "weightless"
    <3>1. Head(mbox[Executor]) \in ProbeMsg
      BY <1>0, <2>1, MainActorsAreActors, HeadTyped DEF Receives, Typed, ProbeType
    <3> QED BY <3>1, NextRoundIs
  <2> HIDE DEF x
  <2>3. Parcel(out) /\ \A a \in Actor : \A m : out[a] = <<m>> => m.type \in {"weightless"}
    BY <2>2, SendingParcels
  <2> HIDE DEF out
  <2> QED BY <1>0, <2>1, <2>3, StepSends
<1>7. ASSUME NEW t, UpdateMetrics(t) PROVE Sends(Executor, {})
  BY <1>1, <1>7 DEF UpdateMetrics
<1>8. SerialKill /\ Divides
        => Sends(Executor, {IF IsCrossTimes THEN "serial_collect_xtimes"
                                            ELSE "serial_collect", "topo_kill", "kill"})
  BY <1>0, StopSending DEF SerialKill, Divides, FinalType
<1>9. ParallelBenchmark => Sends(Executor, {})
  BY <1>1 DEF ParallelBenchmark
<1>10. Parallel /\ Summable(Head(mbox[Executor]).hops) => Sends(Executor, {})
  BY <1>1 DEF Parallel, Handled
<1>11. ParallelKill /\ nsteps_ # 0
         => Sends(Executor, {IF IsCrossTimes THEN "rec_collect_xtimes"
                                             ELSE "rec_collect", "topo_kill", "kill"})
  BY <1>0, StopSending DEF ParallelKill, FinalType
<1>12. End => Sends(Executor, {})
  BY <1>1 DEF End
<1>13. /\ Serial /\ heads_ = <<>> => Crash
       /\ SerialKill /\ ~ Divides => Crash
       /\ Parallel /\ ~ Summable(Head(mbox[Executor]).hops) => Crash
       /\ ParallelKill /\ nsteps_ = 0 => Crash
  BY DEF Serial, SerialKill, Divides, Parallel, ParallelKill
<1> HIDE DEF ExecutorMoves
<1>14. \/ ExecInit \/ Sysconfig \/ SystemBuilding \/ SerialBenchmark \/ Serial
       \/ UpdateMetrics("serial_update_metrics") \/ SerialKill \/ ParallelBenchmark
       \/ Parallel \/ UpdateMetrics("parallel_update_metrics") \/ ParallelKill \/ End
  BY DEF ExecutorMoves, ExecutorStep
<1> QED BY <1>2, <1>3, <1>4, <1>5, <1>6, <1>7, <1>8, <1>9, <1>10, <1>11, <1>12, <1>13, <1>14

-----------------------------------------------------------------------------
(* How an actor of a chain passes a measurement on.                        *)

IsTail(a) == a[2] = PipelineActors - 1

\* Where an actor that is linked into its chain sends a measurement.
NextForth(a) ==
  IF ~ IsTail(a) THEN <<a[1], a[2] + 1>>
  ELSE IF ForthAndBack THEN <<a[1], a[2] - 1>> ELSE Executor

NextBack(a) == IF a[2] > 0 THEN <<a[1], a[2] - 1>> ELSE Executor

\* x is the measurement m one link further, as a message of type t.
OneLinkOn(m, x, t) ==
  /\ x \in ProbeMsg /\ x.type = t /\ x.hops = m.hops + 1
  /\ x.chain = m.chain /\ x.id = m.id /\ x.start = m.start /\ x.stop = m.stop

\* a takes its first message and sends m on to h, and a job to the pool at most.
PassesTo(a, h, t, m) ==
  \E out, x : /\ Parcel(out) /\ Handled(a, out) /\ OneLinkOn(m, x, t)
              /\ h \in Actor /\ out[h] = <<x>>
              /\ \A b \in Actor : b # h => \A y : out[b] = <<y>> => y.type = "detached_msg"

\* The neighbours of an actor of a chain.
LEMMA Neighbours ==
  ASSUME NEW a \in ChainActor
  PROVE  /\ a = <<a[1], a[2]>> /\ a[1] \in 1 .. ChainsNumber /\ a[2] \in 0 .. PipelineActors - 1
         /\ PipelineActors \in Nat /\ PipelineActors > 1
         /\ (Following(a) = Null <=> IsTail(a)) /\ (Previous(a) = Null <=> a[2] = 0)
         /\ ~ IsTail(a) => Following(a) = <<a[1], a[2] + 1>> /\ <<a[1], a[2] + 1>> \in ChainActor
         /\ a[2] > 0 => Previous(a) = <<a[1], a[2] - 1>> /\ <<a[1], a[2] - 1>> \in ChainActor
<1>1. /\ PipelineActors \in Nat /\ PipelineActors > 1
      /\ a = <<a[1], a[2]>> /\ a[1] \in 1 .. ChainsNumber /\ a[2] \in 0 .. PipelineActors - 1
  BY ConfigAssumption DEF ChainActor, is_valid
<1>2. \A x \in ChainActor : x # Null
  BY NullNotActor DEF Actor
<1>3. /\ ~ IsTail(a) => <<a[1], a[2] + 1>> \in ChainActor
      /\ a[2] > 0 => <<a[1], a[2] - 1>> \in ChainActor
  BY <1>1 DEF ChainActor, IsTail
<1> QED BY <1>1, <1>2, <1>3 DEF Following, Previous, IsTail

\* send_to_detached(), then send(): the measurement goes to the neighbour.
LEMMA RelayPasses ==
  ASSUME Typed, NEW a \in ChainActor, NEW h \in ChainActor, NEW t \in ProbeType,
         NEW m \in ProbeMsg, Relay(a, h, t, m)
  PROVE  PassesTo(a, h, t, m)
<1> DEFINE x == [m EXCEPT !.type = t, !.hops = @ + 1]
           out == Sent(h, x)
           p == <<0, index_>>
           job == Signal("detached_msg")
           jobs == [out EXCEPT ![p] = <<job>>]
<1>1. OneLinkOn(m, x, t)
  BY PassedIs DEF OneLinkOn
<1>2. (detached_pool_[a] /\ Handled(a, jobs)) \/ Handled(a, out)
  BY DEF Relay
<1>3. job.type = "detached_msg"
  BY DEF Signal
<1>4. h \in Actor /\ h \in Handle
  BY MainActorsAreActors DEF Actor
<1>5. p # h
  BY ConfigAssumption DEF ChainActor
<1> HIDE DEF x, job
<1>6. /\ Parcel(out) /\ out[h] = <<x>>
      /\ \A b \in Actor : b # h => \A y : out[b] # <<y>>
  BY <1>4, SendingParcels
<1>7. /\ Parcel(jobs) /\ jobs[h] = <<x>>
      /\ \A b \in Actor : b # h => \A y : jobs[b] = <<y>> => y = job
  <2>1. \A b \in Actor : jobs[b] = (IF b = p THEN <<job>> ELSE out[b])
    BY MainActorsAreActors DEF Sent
  <2>2. \A y, z : <<y>> = <<z>> => y = z
    OBVIOUS
  <2> HIDE DEF jobs, out, p
  <2> QED BY <1>4, <1>5, <1>6, <2>1, <2>2 DEF Parcel
<1> HIDE DEF out, jobs
<1> QED BY <1>1, <1>2, <1>3, <1>4, <1>6, <1>7 DEF PassesTo

\* The probe of a measurement that is reported is left as it is: it was never
\* stopped.
LEMMA ReportPasses ==
  ASSUME NEW a, executor_[a] = Executor, NEW t \in ProbeType,
         NEW m \in ProbeMsg, m.stop = 0, Report(a, t, m)
  PROVE  PassesTo(a, Executor, t, m)
<1> DEFINE x == [ProbeStop(m) EXCEPT !.type = t, !.hops = @ + 1]
           out == Sent(Executor, x)
<1>1. Handled(a, out)
  BY DEF Report
<1>2. OneLinkOn(m, x, t)
  <2> DEFINE y == [m EXCEPT !.type = t, !.hops = @ + 1]
  <2>1. ProbeStop(m) = m
    BY DEF ProbeStop
  <2>2. x = y
    BY <2>1
  <2>3. OneLinkOn(m, y, t)
    BY PassedIs DEF OneLinkOn
  <2> HIDE DEF x, y
  <2> QED BY <2>2, <2>3
<1> HIDE DEF x
<1>3. Executor \in Actor /\ Parcel(out) /\ out[Executor] = <<x>>
      /\ \A b \in Actor : b # Executor => \A y : out[b] # <<y>>
  BY MainActorsAreActors, SendingParcels
<1> HIDE DEF out
<1> QED BY <1>1, <1>2, <1>3 DEF PassesTo

\* An actor that handles a measurement is initialised, hence linked.
LEMMA HandlesLinked ==
  ASSUME Startup, Known, NEW a \in ChainActor, NEW t \in ProbeType, Receives(a, t)
  PROVE  prev_[a] = Previous(a) /\ next_[a] = Following(a) /\ executor_[a] = Executor
<1>1. a \in Actor /\ Initialiser(a) = "init_bench"
  BY ActorKinds DEF Actor
<1>2. a \in configured /\ a \in live
  BY <1>1, Initialised DEF ProbeType, Receives
<1> QED BY <1>2 DEF Known

\* The forth route: to the next actor, or from the tail back or to the executor.
LEMMA PassesForth ==
  ASSUME Typed, Startup, Known, NEW a \in ChainActor, NEW s \in ProbeType, Receives(a, s),
         NEW m \in ProbeMsg, m.stop = 0,
         NEW forth \in ProbeType, NEW back \in ProbeType, NEW done \in ProbeType,
         SendForth(a, forth, back, done, m)
  PROVE  PassesTo(a, NextForth(a), IF ~ IsTail(a) THEN forth
                                   ELSE IF ForthAndBack THEN back ELSE done, m)
<1>1. prev_[a] = Previous(a) /\ next_[a] = Following(a) /\ executor_[a] = Executor
  BY HandlesLinked
<1>2. CASE ~ IsTail(a)
  <2>1. Relay(a, <<a[1], a[2] + 1>>, forth, m) /\ <<a[1], a[2] + 1>> \in ChainActor
    BY <1>1, <1>2, Neighbours DEF SendForth
  <2> QED BY <1>2, <2>1, RelayPasses DEF NextForth
<1>3. CASE IsTail(a) /\ ForthAndBack
  <2>1. Relay(a, <<a[1], a[2] - 1>>, back, m) /\ <<a[1], a[2] - 1>> \in ChainActor
    <3>1. a[2] > 0
      <4>1. a[2] = PipelineActors - 1 /\ PipelineActors \in Nat /\ PipelineActors > 1
        BY <1>3, Neighbours DEF IsTail
      <4> QED BY <4>1
    <3> QED BY <1>1, <1>3, <3>1, Neighbours DEF SendForth
  <2> QED BY <1>3, <2>1, RelayPasses DEF NextForth
<1>4. CASE IsTail(a) /\ ~ ForthAndBack
  <2>1. Report(a, done, m)
    BY <1>1, <1>4, Neighbours DEF SendForth
  <2> QED BY <1>1, <1>4, <2>1, ReportPasses DEF NextForth
<1> QED BY <1>2, <1>3, <1>4

\* The back route: to the previous actor, or from the head to the executor.
LEMMA PassesBack ==
  ASSUME Typed, Startup, Known, NEW a \in ChainActor, NEW s \in ProbeType, Receives(a, s),
         NEW m \in ProbeMsg, m.stop = 0,
         NEW back \in ProbeType, NEW done \in ProbeType, SendBack(a, back, done, m)
  PROVE  PassesTo(a, NextBack(a), IF a[2] > 0 THEN back ELSE done, m)
<1>1. prev_[a] = Previous(a) /\ executor_[a] = Executor
  BY HandlesLinked
<1>0. a[2] \in 0 .. PipelineActors - 1
  BY Neighbours
<1>2. CASE a[2] > 0
  <2>1. Relay(a, <<a[1], a[2] - 1>>, back, m) /\ <<a[1], a[2] - 1>> \in ChainActor
    <3>1. Previous(a) = <<a[1], a[2] - 1>> /\ <<a[1], a[2] - 1>> \in ChainActor
      BY <1>2, Neighbours
    <3>2. Previous(a) # Null
      BY <3>1, NullNotActor DEF Actor
    <3> QED BY <1>1, <3>1, <3>2 DEF SendBack
  <2> QED BY <1>2, <2>1, RelayPasses DEF NextBack
<1>3. CASE a[2] = 0
  <2>1. Report(a, done, m)
    BY <1>1, <1>3, Neighbours DEF SendBack
  <2> QED BY <1>1, <1>3, <2>1, ReportPasses DEF NextBack
<1> QED BY <1>0, <1>2, <1>3

-----------------------------------------------------------------------------
(* The route of every measurement.                                         *)

\* The measurement m has come to a on its way forth, or on its way back, after
\* one link to the head and one for every actor it has passed.
OnTheWayForth(a, m) == a \in ChainActor /\ m.chain = a[1] /\ m.hops = a[2] + 1

OnTheWayBack(a, m) ==
  /\ ForthAndBack /\ a \in ChainActor /\ ~ IsTail(a)
  /\ m.chain = a[1] /\ m.hops = 2 * PipelineActors - 1 - a[2]

\* Where a measurement of each type may be, and when its probe was started: by
\* the executor, or by the head after the first link.  No probe is ever stopped.
OnRoute(a, m) ==
  /\ m.stop = 0
  /\ m.type = "timed_msg" => OnTheWayForth(a, m) /\ m.start = IF a[2] = 0 THEN NotStarted ELSE 1
  /\ m.type = "timed_msg_back" => OnTheWayBack(a, m) /\ m.start = 1
  /\ m.type = "parallel" =>
       a = Executor /\ m.chain \in 1 .. ChainsNumber /\ m.hops = Links + 2 /\ m.start = 1
  /\ m.type = "weightless" => OnTheWayForth(a, m) /\ m.chain = 1 /\ m.start = 0
  /\ m.type = "weightless_back" => OnTheWayBack(a, m) /\ m.chain = 1 /\ m.start = 0
  /\ m.type = "serial" =>
       /\ a = Executor /\ m.chain = 1 /\ m.start = 0
       /\ m.hops = Links + 2 \/ (m.hops = 0 /\ rep_counter_ = 0)

\* The rate generator feeds the heads of chains.
Feeds == \A i \in 1 .. Len(rg_receivers) : rg_receivers[i] = HeadOf(i)

Routed == Feeds /\ \A a \in Actor : \A m \in Contents(a) : m.type \in ProbeType => OnRoute(a, m)

\* A step whose measurements start on their route.
LEMMA RoutedStep ==
  ASSUME Typed, Routed, NEW self, NEW out, Parcel(out), Arrives(self, out),
         \A a \in Actor : \A m : out[a] = <<m>> /\ m.type \in ProbeType => OnRoute(a, m),
         UNCHANGED <<rep_counter_, rg_receivers>>
  PROVE  Routed'
<1>1. ASSUME NEW a \in Actor, NEW m \in Contents(a)', m.type \in ProbeType
      PROVE  OnRoute(a, m)'
  <2>1. m \in Contents(a) \/ out[a] = <<m>>
    BY Arrivals DEF Typed
  <2>2. OnRoute(a, m)
    BY <1>1, <2>1 DEF Routed
  <2> QED BY <2>2 DEF OnRoute, OnTheWayForth, OnTheWayBack
<1> QED BY <1>1 DEF Routed, Feeds

\* A step that sends no measurement.
LEMMA AsideRouted ==
  ASSUME Typed, Routed, NEW self, NEW types, Sends(self, types),
         types \cap ProbeType = {}, UNCHANGED <<rep_counter_, rg_receivers>>
  PROVE  Routed'
<1>1. PICK out : /\ Parcel(out) /\ Arrives(self, out)
                 /\ \A a \in Actor : \A m : out[a] = <<m>> => m.type \in types
  BY DEF Sends
<1> QED BY <1>1, RoutedStep

\* A step that leaves the mailboxes alone.
LEMMA StillRouted ==
  ASSUME Routed, UNCHANGED <<mbox, rep_counter_, rg_receivers>> PROVE Routed'
<1>1. ASSUME NEW a \in Actor, NEW m \in Contents(a)', m.type \in ProbeType
      PROVE  OnRoute(a, m)'
  <2>1. OnRoute(a, m)
    BY <1>1 DEF Routed, Contents
  <2> QED BY <2>1 DEF OnRoute, OnTheWayForth, OnTheWayBack
<1> QED BY <1>1 DEF Routed, Feeds

\* What an actor takes from its mailbox is on its route.
LEMMA HeadRouted ==
  ASSUME Typed, Routed, NEW a \in Actor, NEW t \in ProbeType, Receives(a, t)
  PROVE  Head(mbox[a]) \in ProbeMsg /\ Head(mbox[a]).type = t /\ OnRoute(a, Head(mbox[a]))
<1>1. mbox[a] # <<>> /\ Head(mbox[a]).type = t
  BY DEF Receives
<1>2. Head(mbox[a]) \in ProbeMsg /\ Head(mbox[a]) \in Contents(a)
  BY <1>1, HeadTyped, FirstIsContent DEF Typed
<1> QED BY <1>1, <1>2 DEF Routed

\* A measurement that is passed on to its next actor stays on its route.
LEMMA PassedRouted ==
  ASSUME Typed, Routed, NEW a \in ChainActor, NEW h, NEW t \in ProbeType, NEW m,
         PassesTo(a, h, t, m), \A x : OneLinkOn(m, x, t) => OnRoute(h, x),
         mbox[a] # <<>>, UNCHANGED <<rep_counter_, rg_receivers>>
  PROVE  Routed'
<1>1. PICK out, x : /\ Parcel(out) /\ Handled(a, out) /\ OneLinkOn(m, x, t)
                    /\ h \in Actor /\ out[h] = <<x>>
                    /\ \A b \in Actor : b # h => \A y : out[b] = <<y>> => y.type = "detached_msg"
  BY DEF PassesTo
<1>2. Arrives(a, out)
  BY <1>1 DEF Handled, Step, Arrives
<1>3. \A y : <<x>> = <<y>> => y = x
  OBVIOUS
<1>4. \A b \in Actor : \A y : out[b] = <<y>> /\ y.type \in ProbeType => b = h /\ y = x
  BY <1>1, <1>3 DEF ProbeType
<1>5. OnRoute(h, x)
  BY <1>1
<1> QED BY <1>1, <1>2, <1>4, <1>5, RoutedStep

\* The arithmetic of the route: one link on, from the head to the tail, back to
\* the head, and to the executor.
LEMMA LinkForth ==
  ASSUME NEW a \in ChainActor, NEW m \in ProbeMsg, OnTheWayForth(a, m), NEW x,
         x.hops = m.hops + 1, x.chain = m.chain
  PROVE  /\ ~ IsTail(a) => OnTheWayForth(NextForth(a), x) /\ NextForth(a)[2] # 0
         /\ IsTail(a) /\ ForthAndBack => OnTheWayBack(NextForth(a), x)
         /\ IsTail(a) /\ ~ ForthAndBack => NextForth(a) = Executor /\ x.hops = Links + 2
         /\ x.chain \in 1 .. ChainsNumber
<1>1. /\ a[2] \in 0 .. PipelineActors - 1 /\ PipelineActors \in Nat /\ PipelineActors > 1
      /\ m.hops = a[2] + 1 /\ x.chain = a[1] /\ x.chain \in 1 .. ChainsNumber
  BY Neighbours DEF OnTheWayForth
<1>2. CASE ~ IsTail(a)
  <2>1. <<a[1], a[2] + 1>> \in ChainActor
    BY <1>2, Neighbours
  <2> QED BY <1>1, <1>2, <2>1 DEF NextForth, OnTheWayForth
<1>3. CASE IsTail(a) /\ ForthAndBack
  <2>1. a[2] > 0
    BY <1>1, <1>3 DEF IsTail
  <2>2. <<a[1], a[2] - 1>> \in ChainActor
    BY <2>1, Neighbours
  <2> QED BY <1>1, <1>3, <2>2 DEF NextForth, OnTheWayBack, IsTail
<1>4. CASE IsTail(a) /\ ~ ForthAndBack
  BY <1>1, <1>4 DEF NextForth, IsTail, Links
<1> QED BY <1>1, <1>2, <1>3, <1>4

\* A probe on its way back reaches the executor after Links + 2 hops.
LEMMA LinkBack ==
  ASSUME NEW a \in ChainActor, NEW m \in ProbeMsg, OnTheWayBack(a, m), NEW x,
         x.hops = m.hops + 1, x.chain = m.chain
  PROVE  /\ a[2] > 0 => OnTheWayBack(NextBack(a), x)
         /\ a[2] = 0 => NextBack(a) = Executor /\ x.hops = Links + 2
         /\ x.chain \in 1 .. ChainsNumber
<1>1. /\ a[2] \in 0 .. PipelineActors - 1 /\ PipelineActors \in Nat /\ PipelineActors > 1
      /\ m.hops = 2 * PipelineActors - 1 - a[2] /\ x.chain = a[1] /\ ForthAndBack
      /\ x.chain \in 1 .. ChainsNumber
  BY Neighbours DEF OnTheWayBack
<1>2. CASE a[2] > 0
  <2>1. <<a[1], a[2] - 1>> \in ChainActor
    BY <1>2, Neighbours
  <2> QED BY <1>1, <1>2, <2>1 DEF NextBack, OnTheWayBack, IsTail
<1>3. CASE a[2] = 0
  BY <1>1, <1>3 DEF NextBack, Links
<1> QED BY <1>1, <1>2, <1>3

\* The rate generator sends to the head of a chain.
LEMMA RgRouted == ASSUME Typed, Routed, RgMoves PROVE Routed'
<1>0. UNCHANGED <<rep_counter_, rg_receivers>>
  BY DEF RgMoves, execVars, RgStep, RgStart, RgSend, RgFinish, RgFirstHop, rgVars
<1>1. CASE (RgStart \/ RgFirstHop) /\ UNCHANGED mbox
  BY <1>0, <1>1, StillRouted
<1>2. CASE RgSend
  <2> DEFINE i == rg_index + 1
             h == rg_receivers[i]
             x == NewMsg(h[1])
  <2>1. i \in 1 .. Len(rg_receivers) /\ h \in ChainActor
    BY <1>2 DEF RgSend, Sending, Typed, RgTypeOK, RgIndexed, Receivers
  <2>2. h = HeadOf(i)
    BY <2>1 DEF Routed, Feeds
  <2>3. Step(Null, Sent(h, x), live, timers)
    BY <1>2 DEF RgSend, Posted, Handled
  <2>4. /\ x.type = "timed_msg" /\ x.chain = h[1] /\ x.hops = 1 /\ x.start = NotStarted /\ x.stop = 0
    BY DEF NewMsg
  <2> HIDE DEF i, h, x
  <2>5. OnRoute(h, x)
    BY <2>1, <2>2, <2>4 DEF OnRoute, OnTheWayForth, HeadOf
  <2>6. Arrives(Null, Sent(h, x))
    BY <2>3, NullNotActor DEF Step, Arrives
  <2> QED BY <1>0, <2>5, <2>6, SendingParcels, RoutedStep
<1>3. CASE RgFinish /\ Sends(Null, {"send_collect"})
  BY <1>0, <1>3, AsideRouted DEF ProbeType
<1> QED BY <1>1, <1>2, <1>3, RgSending

\* An actor of a chain.
LEMMA ChainRouted ==
  ASSUME Typed, Startup, Known, Routed, NEW a \in ChainActor, ChainMoves(a) PROVE Routed'
<1>0. a \in Actor /\ UNCHANGED <<rep_counter_, rg_receivers>>
  BY DEF ChainMoves, execVars, rgVars, Actor
<1>1. CASE InitBench(a)
  <2> DEFINE x == [type |-> "init_bench_reply", head |-> HeadOf(a[1])]
  <2>1. Step(a, Sent(TopoBuilder, x), live, timers) /\ mbox[a] # <<>>
    BY <1>1 DEF InitBench, Handled, Receives
  <2>2. x.type \notin ProbeType
    BY DEF ProbeType
  <2> HIDE DEF x
  <2>3. Sends(a, {x.type})
    BY <2>1, SimpleSends
  <2> QED BY <1>0, <2>2, <2>3, AsideRouted
<1>2. CASE Kill(a)
  <2>1. Sends(a, {Signal("kill").type})
    BY <1>2, SimpleSends DEF Kill, Receives
  <2>2. Signal("kill").type \notin ProbeType
    BY DEF Signal, ProbeType
  <2> QED BY <1>0, <2>1, <2>2, AsideRouted
<1>3. CASE Weightless(a)
  <2> DEFINE m == Head(mbox[a])
             t == IF ~ IsTail(a) THEN "weightless"
                  ELSE IF ForthAndBack THEN "weightless_back" ELSE "serial"
  <2>1. Receives(a, "weightless") /\ mbox[a] # <<>>
    BY <1>3 DEF Weightless, Receives
  <2>2. m \in ProbeMsg /\ m.type = "weightless" /\ OnRoute(a, m)
    BY <1>0, <2>1, HeadRouted DEF ProbeType
  <2>3. OnTheWayForth(a, m) /\ m.chain = 1 /\ m.start = 0 /\ m.stop = 0
    BY <2>2 DEF OnRoute
  <2>4. SendForth(a, "weightless", "weightless_back", "serial", m)
    BY <1>3 DEF Weightless
  <2> HIDE DEF m
  <2>5. PassesTo(a, NextForth(a), t, m)
    BY <2>1, <2>2, <2>3, <2>4, PassesForth DEF ProbeType
  <2>6. ASSUME NEW x, OneLinkOn(m, x, t) PROVE OnRoute(NextForth(a), x)
    <3>1. /\ x.hops = m.hops + 1 /\ x.chain = m.chain /\ x.chain = 1 /\ x.start = 0 /\ x.stop = 0
          /\ x.type = t
      BY <2>3, <2>6 DEF OneLinkOn
    <3>2. CASE ~ IsTail(a)
      BY <2>2, <2>3, <3>1, <3>2, LinkForth DEF OnRoute
    <3>3. CASE IsTail(a) /\ ForthAndBack
      BY <2>2, <2>3, <3>1, <3>3, LinkForth DEF OnRoute
    <3>4. CASE IsTail(a) /\ ~ ForthAndBack
      BY <2>2, <2>3, <3>1, <3>4, LinkForth DEF OnRoute
    <3> QED BY <3>2, <3>3, <3>4
  <2>7. t \in ProbeType
    BY DEF ProbeType
  <2> HIDE DEF t
  <2> QED BY <1>0, <2>1, <2>5, <2>6, <2>7, PassedRouted
<1>4. CASE WeightlessBack(a)
  <2> DEFINE m == Head(mbox[a])
             t == IF a[2] > 0 THEN "weightless_back" ELSE "serial"
  <2>1. Receives(a, "weightless_back") /\ mbox[a] # <<>>
    BY <1>4 DEF WeightlessBack, Receives
  <2>2. m \in ProbeMsg /\ m.type = "weightless_back" /\ OnRoute(a, m)
    BY <1>0, <2>1, HeadRouted DEF ProbeType
  <2>3. OnTheWayBack(a, m) /\ m.chain = 1 /\ m.start = 0 /\ m.stop = 0
    BY <2>2 DEF OnRoute
  <2>4. SendBack(a, "weightless_back", "serial", m)
    BY <1>4 DEF WeightlessBack
  <2> HIDE DEF m
  <2>5. PassesTo(a, NextBack(a), t, m)
    BY <2>1, <2>2, <2>3, <2>4, PassesBack DEF ProbeType
  <2>6. ASSUME NEW x, OneLinkOn(m, x, t) PROVE OnRoute(NextBack(a), x)
    <3>1. /\ x.hops = m.hops + 1 /\ x.chain = m.chain /\ x.chain = 1 /\ x.start = 0 /\ x.stop = 0
          /\ x.type = t
      BY <2>3, <2>6 DEF OneLinkOn
    <3>2. a[2] > 0 \/ a[2] = 0
      <4>1. a[2] \in 0 .. PipelineActors - 1
        BY Neighbours
      <4> QED BY <4>1
    <3>3. CASE a[2] > 0
      BY <2>2, <2>3, <3>1, <3>3, LinkBack DEF OnRoute
    <3>4. CASE a[2] = 0
      BY <2>2, <2>3, <3>1, <3>4, LinkBack DEF OnRoute
    <3> QED BY <3>2, <3>3, <3>4
  <2>7. t \in ProbeType
    BY DEF ProbeType
  <2> HIDE DEF t
  <2> QED BY <1>0, <2>1, <2>5, <2>6, <2>7, PassedRouted
<1>5. CASE TimedMsg(a)
  <2> DEFINE first == Head(mbox[a])
             m == RestartAtHead(a, first)
             t == IF ~ IsTail(a) THEN "timed_msg"
                  ELSE IF ForthAndBack THEN "timed_msg_back" ELSE "parallel"
  <2>1. Receives(a, "timed_msg") /\ mbox[a] # <<>>
    BY <1>5 DEF TimedMsg, Receives
  <2>2. first \in ProbeMsg /\ first.type = "timed_msg" /\ OnRoute(a, first)
    BY <1>0, <2>1, HeadRouted DEF ProbeType
  <2>3. OnTheWayForth(a, first) /\ first.start = (IF a[2] = 0 THEN NotStarted ELSE 1) /\ first.stop = 0
    BY <2>2 DEF OnRoute
  <2>4. SendForth(a, "timed_msg", "timed_msg_back", "parallel", m)
    BY <1>5 DEF TimedMsg
  <2>5. prev_[a] = Previous(a) /\ (Previous(a) = Null <=> a[2] = 0)
    BY <2>1, HandlesLinked, Neighbours DEF ProbeType
  <2> HIDE DEF first
  <2>6. /\ m \in ProbeMsg /\ m.start = 1 /\ m.stop = 0
        /\ m.hops = first.hops /\ m.chain = first.chain
    <3>1. CASE a[2] = 0
      <4>1. m = ProbeRestart(first) /\ first.hops = 1
        BY <2>3, <2>5, <3>1 DEF RestartAtHead, OnTheWayForth
      <4> HIDE DEF m
      <4> QED BY <2>2, <2>3, <4>1, RestartIs
    <3>2. CASE a[2] # 0
      BY <2>2, <2>3, <2>5, <3>2 DEF RestartAtHead
    <3> QED BY <3>1, <3>2
  <2>7. OnTheWayForth(a, m)
    BY <2>3, <2>6 DEF OnTheWayForth
  <2> HIDE DEF m
  <2>8. PassesTo(a, NextForth(a), t, m)
    BY <2>1, <2>4, <2>6, PassesForth DEF ProbeType
  <2>9. ASSUME NEW x, OneLinkOn(m, x, t) PROVE OnRoute(NextForth(a), x)
    <3>1. /\ x.hops = m.hops + 1 /\ x.chain = m.chain /\ x.start = 1 /\ x.stop = 0
          /\ x.type = t
      BY <2>6, <2>9 DEF OneLinkOn
    <3> QED BY <2>6, <2>7, <3>1, LinkForth DEF OnRoute
  <2>10. t \in ProbeType
    BY DEF ProbeType
  <2> HIDE DEF t
  <2> QED BY <1>0, <2>1, <2>8, <2>9, <2>10, PassedRouted
<1>6. CASE TimedMsgBack(a)
  <2> DEFINE m == Head(mbox[a])
             t == IF a[2] > 0 THEN "timed_msg_back" ELSE "parallel"
  <2>1. Receives(a, "timed_msg_back") /\ mbox[a] # <<>>
    BY <1>6 DEF TimedMsgBack, Receives
  <2>2. m \in ProbeMsg /\ m.type = "timed_msg_back" /\ OnRoute(a, m)
    BY <1>0, <2>1, HeadRouted DEF ProbeType
  <2>3. OnTheWayBack(a, m) /\ m.start = 1 /\ m.stop = 0
    BY <2>2 DEF OnRoute
  <2>4. SendBack(a, "timed_msg_back", "parallel", m)
    BY <1>6 DEF TimedMsgBack
  <2> HIDE DEF m
  <2>5. PassesTo(a, NextBack(a), t, m)
    BY <2>1, <2>2, <2>3, <2>4, PassesBack DEF ProbeType
  <2>6. ASSUME NEW x, OneLinkOn(m, x, t) PROVE OnRoute(NextBack(a), x)
    <3>1. /\ x.hops = m.hops + 1 /\ x.chain = m.chain /\ x.start = 1 /\ x.stop = 0
          /\ x.type = t
      BY <2>3, <2>6 DEF OneLinkOn
    <3>2. a[2] > 0 \/ a[2] = 0
      <4>1. a[2] \in 0 .. PipelineActors - 1
        BY Neighbours
      <4> QED BY <4>1
    <3>3. CASE a[2] > 0
      BY <2>2, <2>3, <3>1, <3>3, LinkBack DEF OnRoute
    <3>4. CASE a[2] = 0
      BY <2>2, <2>3, <3>1, <3>4, LinkBack DEF OnRoute
    <3> QED BY <3>2, <3>3, <3>4
  <2>7. t \in ProbeType
    BY DEF ProbeType
  <2> HIDE DEF t
  <2> QED BY <1>0, <2>1, <2>5, <2>6, <2>7, PassedRouted
<1> QED BY <1>1, <1>2, <1>3, <1>4, <1>5, <1>6 DEF ChainMoves, ChainActorStep

\* What an actor of a chain sends: what it takes of the serial benchmark is passed
\* on within the serial benchmark, and likewise of the parallel one.
LEMMA ChainSending ==
  ASSUME Typed, Startup, Known, Routed, NEW a \in ChainActor, ChainMoves(a)
  PROVE  \/ InitBench(a) /\ Sends(a, {"init_bench_reply"})
         \/ Kill(a) /\ Sends(a, {"kill"})
         \/ /\ \E s \in {"weightless", "weightless_back"} : Receives(a, s)
            /\ \E h, m : \E t \in SerialType : PassesTo(a, h, t, m)
            /\ Sends(a, SerialType \cup {"detached_msg"})
            /\ Weightless(a) \/ WeightlessBack(a)
         \/ /\ \E s \in {"timed_msg", "timed_msg_back"} : Receives(a, s)
            /\ Sends(a, {"timed_msg", "timed_msg_back", "parallel", "detached_msg"})
            /\ TimedMsg(a) \/ TimedMsgBack(a)
<1>0. a \in Actor
  BY DEF Actor
<1>1. CASE InitBench(a)
  <2> DEFINE x == [type |-> "init_bench_reply", head |-> HeadOf(a[1])]
  <2>1. Step(a, Sent(TopoBuilder, x), live, timers) /\ mbox[a] # <<>>
    BY <1>1 DEF InitBench, Handled, Receives
  <2>2. x.type = "init_bench_reply"
    OBVIOUS
  <2> HIDE DEF x
  <2>3. Sends(a, {x.type})
    BY <2>1, SimpleSends
  <2> QED BY <1>1, <2>2, <2>3
<1>2. CASE Kill(a)
  <2>1. Sends(a, {Signal("kill").type})
    BY <1>2, SimpleSends DEF Kill, Receives
  <2>2. Signal("kill").type = "kill"
    BY DEF Signal
  <2> QED BY <1>2, <2>1, <2>2
<1>3. ASSUME NEW t \in ProbeType, Receives(a, t)
      PROVE  Head(mbox[a]) \in ProbeMsg /\ Head(mbox[a]).stop = 0
  <2>1. Head(mbox[a]) \in ProbeMsg /\ OnRoute(a, Head(mbox[a]))
    BY <1>0, <1>3, HeadRouted
  <2> QED BY <2>1 DEF OnRoute
<1>4. ASSUME NEW h, NEW t, NEW m, PassesTo(a, h, t, m), mbox[a] # <<>>
      PROVE  Sends(a, {t, "detached_msg"})
  <2>1. PICK out, x : /\ Parcel(out) /\ Handled(a, out) /\ OneLinkOn(m, x, t)
                      /\ h \in Actor /\ out[h] = <<x>>
                      /\ \A b \in Actor : b # h => \A y : out[b] = <<y>> => y.type = "detached_msg"
    BY <1>4 DEF PassesTo
  <2>2. \A y : <<x>> = <<y>> => y = x
    OBVIOUS
  <2>3. \A b \in Actor : \A y : out[b] = <<y>> => y.type \in {t, "detached_msg"}
    BY <2>1, <2>2 DEF OneLinkOn
  <2> QED BY <1>4, <2>1, <2>3, StepSends DEF Handled
<1>5. CASE Weightless(a) \/ WeightlessBack(a)
  <2> DEFINE m == Head(mbox[a])
  <2>1. PICK s \in {"weightless", "weightless_back"} :
          /\ Receives(a, s) /\ mbox[a] # <<>>
          /\ \/ SendForth(a, "weightless", "weightless_back", "serial", m)
             \/ SendBack(a, "weightless_back", "serial", m)
    BY <1>5 DEF Weightless, WeightlessBack, Receives
  <2>2. m \in ProbeMsg /\ m.stop = 0 /\ s \in ProbeType
    BY <1>3, <2>1 DEF ProbeType
  <2> HIDE DEF m
  <2>3. \E h : \E t \in SerialType : PassesTo(a, h, t, m)
    <3>1. \/ PassesTo(a, NextForth(a), IF ~ IsTail(a) THEN "weightless"
                                      ELSE IF ForthAndBack THEN "weightless_back"
                                      ELSE "serial", m)
          \/ PassesTo(a, NextBack(a), IF a[2] > 0 THEN "weightless_back" ELSE "serial", m)
      BY <2>1, <2>2, PassesForth, PassesBack DEF ProbeType
    <3>2. /\ (IF ~ IsTail(a) THEN "weightless"
              ELSE IF ForthAndBack THEN "weightless_back" ELSE "serial") \in SerialType
          /\ (IF a[2] > 0 THEN "weightless_back" ELSE "serial") \in SerialType
      BY DEF SerialType
    <3> QED BY <3>1, <3>2
  <2>4. PICK h, t : t \in SerialType /\ PassesTo(a, h, t, m)
    BY <2>3
  <2>5. Sends(a, {t, "detached_msg"})
    BY <1>4, <2>1, <2>4
  <2>6. Sends(a, SerialType \cup {"detached_msg"})
    BY <2>4, <2>5, SendsMore
  <2> QED BY <1>5, <2>1, <2>3, <2>6
<1>6. CASE TimedMsg(a) \/ TimedMsgBack(a)
  <2>1. PICK s \in {"timed_msg", "timed_msg_back"},
             m \in {Head(mbox[a]), RestartAtHead(a, Head(mbox[a]))} :
          /\ Receives(a, s) /\ mbox[a] # <<>>
          /\ \/ SendForth(a, "timed_msg", "timed_msg_back", "parallel", m)
             \/ SendBack(a, "timed_msg_back", "parallel", m)
    BY <1>6 DEF TimedMsg, TimedMsgBack, Receives
  <2>2. m \in ProbeMsg /\ m.stop = 0 /\ s \in ProbeType
    <3>1. Head(mbox[a]) \in ProbeMsg /\ Head(mbox[a]).stop = 0 /\ s \in ProbeType
      BY <1>3, <2>1 DEF ProbeType
    <3> QED BY <2>1, <3>1, RestartIs DEF RestartAtHead
  <2>3. PICK h, t : t \in {"timed_msg", "timed_msg_back", "parallel"} /\ PassesTo(a, h, t, m)
    <3>1. \/ PassesTo(a, NextForth(a), IF ~ IsTail(a) THEN "timed_msg"
                                      ELSE IF ForthAndBack THEN "timed_msg_back"
                                      ELSE "parallel", m)
          \/ PassesTo(a, NextBack(a), IF a[2] > 0 THEN "timed_msg_back" ELSE "parallel", m)
      BY <2>1, <2>2, PassesForth, PassesBack DEF ProbeType
    <3> QED BY <3>1
  <2>4. Sends(a, {t, "detached_msg"})
    BY <1>4, <2>1, <2>3
  <2>5. Sends(a, {"timed_msg", "timed_msg_back", "parallel", "detached_msg"})
    BY <2>3, <2>4, SendsMore
  <2> QED BY <1>6, <2>1, <2>5
<1> QED BY <1>1, <1>2, <1>5, <1>6 DEF ChainMoves, ChainActorStep

-----------------------------------------------------------------------------
(* The serial benchmark has one message under way.                         *)

\* Before the benchmark starts nothing is measured.
OneRound == OneSerialMessage /\ (~ Started => SerialPlaces = {} /\ rep_counter_ = 0)

\* A message of the serial benchmark is where some mailbox holds it.
LEMMA PlacesAre ==
  /\ \A p : p \in SerialPlaces <=>
       \E a \in Actor : \E i \in DOMAIN mbox[a] :
         p = <<a, i>> /\ mbox[a][i].type \in SerialType
  /\ \A p : p \in SerialPlaces' <=>
       \E a \in Actor : \E i \in DOMAIN mbox'[a] :
         p = <<a, i>> /\ mbox'[a][i].type \in SerialType
BY DEF SerialPlaces, SerialType

\* Every message of a mailbox has just been sent and is the last, or it was in
\* the mailbox before, one place further back if the actor has taken the first.
LEMMA Backwards ==
  ASSUME SystemTypeOK, NEW self, NEW out, Parcel(out), Arrives(self, out),
         NEW a \in Actor, NEW i \in DOMAIN mbox'[a]
  PROVE  /\ i \in Nat \ {0}
         /\ \/ out[a] = <<mbox'[a][i]>> /\ \A j \in DOMAIN mbox'[a] : j <= i
            \/ LET j == IF a = self THEN i + 1 ELSE i
               IN  j \in DOMAIN mbox[a] /\ mbox[a][j] = mbox'[a][i]
<1> DEFINE s == IF a = self THEN Tail(mbox[a]) ELSE mbox[a]
<1>1. mbox[a] \in Seq(Message) /\ mbox'[a] = Delivered(self, out, live', a)
  BY DEF SystemTypeOK, Arrives
<1>2. a \in live'
  <2>1. DOMAIN <<>> = {}
    OBVIOUS
  <2> QED BY <1>1, <2>1 DEF Delivered
<1>3. mbox'[a] = s \o out[a]
  BY <1>1, <1>2 DEF Delivered
<1>4. /\ s \in Seq(Message)
      /\ \A k \in DOMAIN s : LET j == IF a = self THEN k + 1 ELSE k
                             IN  j \in DOMAIN mbox[a] /\ mbox[a][j] = s[k]
  <2>1. CASE a = self
    <3>1. mbox[a] # <<>>
      BY <2>1 DEF Arrives
    <3>2. /\ Tail(mbox[a]) \in Seq(Message)
          /\ \A k \in DOMAIN Tail(mbox[a]) :
               k + 1 \in DOMAIN mbox[a] /\ mbox[a][k + 1] = Tail(mbox[a])[k]
      BY <1>1, <3>1
    <3> QED BY <2>1, <3>2
  <2>2. CASE a # self
    BY <1>1, <2>2
  <2> QED BY <2>1, <2>2
<1> HIDE DEF s
<1>5. CASE out[a] = <<>>
  <2>1. mbox'[a] = s
    BY <1>3, <1>4, <1>5, Elements
  <2> QED BY <1>4, <2>1
<1>6. ASSUME NEW x, out[a] = <<x>>
      PROVE  /\ i \in Nat \ {0}
             /\ \/ out[a] = <<mbox'[a][i]>> /\ \A j \in DOMAIN mbox'[a] : j <= i
                \/ i \in DOMAIN s /\ mbox'[a][i] = s[i]
  <2> DEFINE T == Message \cup {x}
             r == s \o <<x>>
  <2>1. mbox'[a] = r
    BY <1>3, <1>6
  <2>2. s \in Seq(T) /\ <<x>> \in Seq(T) /\ Len(<<x>>) = 1 /\ <<x>>[1] = x
    BY <1>4
  <2>3. /\ Len(s) \in Nat /\ DOMAIN s = 1 .. Len(s) /\ DOMAIN r = 1 .. Len(s) + 1
        /\ r[Len(s) + 1] = x /\ \A k \in 1 .. Len(s) : r[k] = s[k]
    BY <2>2
  <2> HIDE DEF r
  <2> QED BY <1>6, <2>1, <2>3
<1>7. \A x : out[a] = <<x>> =>
        \/ out[a] = <<mbox'[a][i]>> /\ \A j \in DOMAIN mbox'[a] : j <= i
        \/ LET j == IF a = self THEN i + 1 ELSE i
           IN  j \in DOMAIN mbox[a] /\ mbox[a][j] = mbox'[a][i]
  BY <1>4, <1>6
<1> QED BY <1>5, <1>6, <1>7 DEF Parcel

\* Where a message in place i of a's mailbox was before self took its first.
Before(self, a, i) == IF a = self THEN i + 1 ELSE i

\* A message of the serial benchmark that was not sent just now.
LEMMA Waited ==
  ASSUME Typed, NEW self, NEW out, Parcel(out), Arrives(self, out),
         NEW a \in Actor, NEW i \in DOMAIN mbox'[a], mbox'[a][i].type \in SerialType
  PROVE  /\ i \in Nat \ {0}
         /\ \/ <<a, Before(self, a, i)>> \in SerialPlaces
            \/ out[a] = <<mbox'[a][i]>> /\ \A j \in DOMAIN mbox'[a] : j <= i
<1> DEFINE b == Before(self, a, i)
<1>1. /\ i \in Nat \ {0}
      /\ \/ out[a] = <<mbox'[a][i]>> /\ \A j \in DOMAIN mbox'[a] : j <= i
         \/ b \in DOMAIN mbox[a] /\ mbox[a][b] = mbox'[a][i]
  BY Backwards DEF Typed, Before
<1> HIDE DEF b
<1>2. b \in DOMAIN mbox[a] /\ mbox[a][b] = mbox'[a][i] => <<a, b>> \in SerialPlaces
  BY PlacesAre
<1> QED BY <1>1, <1>2 DEF b

\* A step that sends nothing of the serial benchmark.
LEMMA CalmStep ==
  ASSUME Typed, OneRound, NEW self, NEW types, Sends(self, types),
         types \cap SerialType = {}, Started => Started', Started' \/ UNCHANGED rep_counter_
  PROVE  OneRound'
<1>0. PICK out : /\ Parcel(out) /\ Arrives(self, out)
                 /\ \A a \in Actor : \A m : out[a] = <<m>> => m.type \in types
  BY DEF Sends
<1>1. ASSUME NEW a \in Actor, NEW i \in DOMAIN mbox'[a], mbox'[a][i].type \in SerialType
      PROVE  i \in Nat \ {0} /\ <<a, Before(self, a, i)>> \in SerialPlaces
  BY <1>0, <1>1, Waited
<1>2. SerialPlaces = {} => SerialPlaces' = {}
  BY <1>1, PlacesAre
<1>3. ASSUME NEW p \in SerialPlaces', NEW q \in SerialPlaces' PROVE p = q
  <2>0. \A r \in SerialPlaces' : \E a \in Actor : \E i \in DOMAIN mbox'[a] :
          r = <<a, i>> /\ mbox'[a][i].type \in SerialType
    BY PlacesAre
  <2>a. PICK a \in Actor : \E i \in DOMAIN mbox'[a] :
          p = <<a, i>> /\ mbox'[a][i].type \in SerialType
    BY <2>0
  <2>1. PICK i \in DOMAIN mbox'[a] : p = <<a, i>> /\ mbox'[a][i].type \in SerialType
    BY <2>a
  <2>b. PICK b \in Actor : \E j \in DOMAIN mbox'[b] :
          q = <<b, j>> /\ mbox'[b][j].type \in SerialType
    BY <2>0
  <2>2. PICK j \in DOMAIN mbox'[b] : q = <<b, j>> /\ mbox'[b][j].type \in SerialType
    BY <2>b
  <2>3. <<a, Before(self, a, i)>> = <<b, Before(self, b, j)>> /\ i \in Nat /\ j \in Nat
    BY <1>1, <2>1, <2>2 DEF OneRound, OneSerialMessage
  <2>4. a = b /\ i = j
    BY <2>3 DEF Before
  <2> QED BY <2>1, <2>2, <2>4
<1> QED BY <1>2, <1>3 DEF OneRound, OneSerialMessage

\* A step that takes the only message of the serial benchmark, if there is one,
\* and sends at most one, in a benchmark that has started.
LEMMA PassStep ==
  ASSUME Typed, NEW self, NEW out, Parcel(out), Arrives(self, out), Started',
         \A p \in SerialPlaces : p = <<self, 1>>,
         NEW h, \A a \in Actor : a # h => \A m : out[a] = <<m>> => m.type \notin SerialType
  PROVE  OneRound'
<1>1. ASSUME NEW a \in Actor, NEW i \in DOMAIN mbox'[a], mbox'[a][i].type \in SerialType
      PROVE  a = h /\ i \in Nat /\ \A j \in DOMAIN mbox'[a] : j <= i
  <2>1. /\ i \in Nat \ {0}
        /\ \/ <<a, Before(self, a, i)>> \in SerialPlaces
           \/ out[a] = <<mbox'[a][i]>> /\ \A j \in DOMAIN mbox'[a] : j <= i
    BY <1>1, Waited
  <2>2. <<a, Before(self, a, i)>> \notin SerialPlaces
    <3>1. ASSUME <<a, Before(self, a, i)>> = <<self, 1>> PROVE FALSE
      <4>1. a = self /\ i + 1 = 1
        BY <3>1 DEF Before
      <4> QED BY <2>1, <4>1
    <3> QED BY <3>1
  <2> QED BY <1>1, <2>1, <2>2
<1>2. ASSUME NEW p \in SerialPlaces', NEW q \in SerialPlaces' PROVE p = q
  <2>0. \A r \in SerialPlaces' : \E a \in Actor : \E i \in DOMAIN mbox'[a] :
          r = <<a, i>> /\ mbox'[a][i].type \in SerialType
    BY PlacesAre
  <2>a. PICK a \in Actor : \E i \in DOMAIN mbox'[a] :
          p = <<a, i>> /\ mbox'[a][i].type \in SerialType
    BY <2>0
  <2>1. PICK i \in DOMAIN mbox'[a] : p = <<a, i>> /\ mbox'[a][i].type \in SerialType
    BY <2>a
  <2>b. PICK b \in Actor : \E j \in DOMAIN mbox'[b] :
          q = <<b, j>> /\ mbox'[b][j].type \in SerialType
    BY <2>0
  <2>2. PICK j \in DOMAIN mbox'[b] : q = <<b, j>> /\ mbox'[b][j].type \in SerialType
    BY <2>b
  <2>3. a = h /\ b = h /\ i \in Nat /\ j \in Nat
        /\ (\A k \in DOMAIN mbox'[a] : k <= i) /\ (\A k \in DOMAIN mbox'[b] : k <= j)
    BY <1>1, <2>1, <2>2
  <2>4. i = j
    BY <2>3
  <2> QED BY <2>1, <2>2, <2>3, <2>4
<1> QED BY <1>2 DEF OneRound, OneSerialMessage

\* The one who has just received a message of the serial benchmark has the only one.
LEMMA TheOnlyOne ==
  ASSUME Typed, OneRound, NEW a \in Actor, NEW t \in SerialType, Receives(a, t)
  PROVE  Started /\ \A p \in SerialPlaces : p = <<a, 1>>
<1>1. mbox[a] \in Seq(Message) /\ mbox[a] # <<>> /\ Head(mbox[a]).type = t
  BY DEF Typed, SystemTypeOK, Receives
<1>2. 1 \in DOMAIN mbox[a] /\ mbox[a][1].type \in SerialType
  BY <1>1
<1>3. <<a, 1>> \in SerialPlaces
  BY <1>2, PlacesAre
<1> QED BY <1>3 DEF OneRound, OneSerialMessage

\* What keeps the mailboxes keeps the round.
LEMMA StillOne ==
  ASSUME OneRound, UNCHANGED <<mbox, rep_counter_>>, Started => Started' PROVE OneRound'
BY DEF OneRound, OneSerialMessage, SerialPlaces, SerialType

\* The actor of a chain that takes the message of the serial benchmark passes it
\* on, and is the only one to do so.
LEMMA PassedOne ==
  ASSUME Typed, OneRound, Started', NEW a \in ChainActor, NEW s \in SerialType, Receives(a, s),
         NEW h, NEW t, NEW m, PassesTo(a, h, t, m)
  PROVE  OneRound'
<1>0. a \in Actor
  BY DEF Actor
<1>1. PICK out, x : /\ Parcel(out) /\ Handled(a, out) /\ OneLinkOn(m, x, t)
                    /\ h \in Actor /\ out[h] = <<x>>
                    /\ \A b \in Actor : b # h => \A y : out[b] = <<y>> => y.type = "detached_msg"
  BY DEF PassesTo
<1>2. Arrives(a, out)
  BY <1>1 DEF Handled, Step, Arrives, Receives
<1>3. \A p \in SerialPlaces : p = <<a, 1>>
  BY <1>0, TheOnlyOne
<1>4. \A b \in Actor : b # h => \A y : out[b] = <<y>> => y.type \notin SerialType
  BY <1>1 DEF SerialType
<1> QED BY <1>1, <1>2, <1>3, <1>4, PassStep

\* An actor of a chain: the messages of the parallel benchmark stay of it, and
\* those of the serial one are passed on one for one.
LEMMA ChainRound ==
  ASSUME Typed, Startup, Known, Routed, OneRound, Started => Started',
         NEW a \in ChainActor, ChainMoves(a)
  PROVE  OneRound'
<1>0. a \in Actor /\ UNCHANGED rep_counter_
  BY DEF ChainMoves, execVars, Actor
<1>1. ASSUME NEW types, Sends(a, types), types \cap SerialType = {} PROVE OneRound'
  BY <1>0, <1>1, CalmStep
<1>2. ASSUME NEW s \in SerialType, Receives(a, s), NEW h, NEW t, NEW m, PassesTo(a, h, t, m)
      PROVE  OneRound'
  <2>1. Started'
    BY <1>0, <1>2, TheOnlyOne
  <2> QED BY <1>2, <2>1, PassedOne
<1>3. /\ {"init_bench_reply"} \cap SerialType = {} /\ {"kill"} \cap SerialType = {}
      /\ {"timed_msg", "timed_msg_back", "parallel", "detached_msg"} \cap SerialType = {}
      /\ {"weightless", "weightless_back"} \subseteq SerialType
  BY DEF SerialType
<1> QED BY <1>1, <1>2, <1>3, ChainSending

-----------------------------------------------------------------------------
(* The executor, and the invariants.                                       *)

\* serial_a sends the only message of the serial benchmark to the head of the
\* first chain.
LEMMA SerialSends ==
  ASSUME Typed, Known, Routed, OneRound, Serial, heads_ # <<>>
  PROVE  /\ Receives(Executor, "serial") /\ heads_[1] = HeadOf(1) /\ HeadOf(1) \in ChainActor
         /\ Started /\ \A p \in SerialPlaces : p = <<Executor, 1>>
         /\ \E out, x : /\ Parcel(out) /\ Arrives(Executor, out)
                        /\ x.type = "weightless" /\ OnRoute(HeadOf(1), x)
                        /\ \A a \in Actor : \A m : out[a] = <<m>> => m = x /\ a = HeadOf(1)
<1> DEFINE m == Head(mbox[Executor])
           x == NextRound(m)
           out == ToAll(SerialTargets, x)
<1>0. Executor \in Actor
  BY MainActorsAreActors
<1>1. Receives(Executor, "serial") /\ Step(Executor, out, live, timers)
  BY DEF Serial, Handled, ToAll
<1>2. heads_[1] = HeadOf(1) /\ HeadOf(1) \in ChainActor
  <2>1. 1 \in 1 .. Len(heads_) /\ heads_[1] \in ChainActor
    BY DEF Typed, ExecTypeOK
  <2> QED BY <2>1 DEF Known
<1>3. m \in ProbeMsg /\ OnRoute(Executor, m) /\ m.type = "serial"
  BY <1>0, <1>1, HeadRouted DEF ProbeType
<1>4. m.stop = 0 /\ m.chain = 1
  BY <1>3 DEF OnRoute
<1>5. Arrives(Executor, out)
  BY <1>1 DEF Step, Arrives, Receives
<1> HIDE DEF m
<1>6. /\ x.type = "weightless" /\ x.hops = 1 /\ x.chain = 1 /\ x.start = 0 /\ x.stop = 0
  BY <1>3, <1>4, NextRoundIs
<1> HIDE DEF x
<1>7. OnRoute(HeadOf(1), x)
  BY <1>2, <1>6 DEF OnRoute, OnTheWayForth, HeadOf
<1>8. Parcel(out) /\ \A a \in Actor : \A y : out[a] = <<y>> => y = x /\ a = HeadOf(1)
  <2>1. SerialTargets = {HeadOf(1)}
    BY <1>2 DEF SerialTargets
  <2>2. \A a : a \in SerialTargets => a = HeadOf(1)
    BY <2>1
  <2> QED BY <2>2, SendingParcels
<1>9. Started /\ \A p \in SerialPlaces : p = <<Executor, 1>>
  BY <1>0, <1>1, TheOnlyOne DEF SerialType
<1> HIDE DEF out
<1> QED BY <1>1, <1>2, <1>5, <1>6, <1>7, <1>8, <1>9

\* The executor: serial_benchmark_a sends the first message of the serial
\* benchmark, which has not started before; serial_a takes one and sends the next.
LEMMA ExecutorRound ==
  ASSUME Typed, Startup, OneChainAtATime, Routed, OneRound, Started => Started', ExecutorMoves
  PROVE  OneRound' /\ Routed'
<1>0. Executor \in Actor /\ Known
  BY MainActorsAreActors DEF OneChainAtATime
<1>1. ASSUME NEW types, Sends(Executor, types), types \cap ProbeType = {},
             UNCHANGED rep_counter_, UNCHANGED rg_receivers \/ rg_receivers' = heads_
      PROVE  OneRound' /\ Routed'
  <2>1. OneRound'
    BY <1>1, CalmStep DEF SerialType, ProbeType
  <2>2. PICK out : /\ Parcel(out) /\ Arrives(Executor, out)
                   /\ \A a \in Actor : \A m : out[a] = <<m>> => m.type \in types
    BY <1>1 DEF Sends
  <2>3. Feeds'
    BY <1>0, <1>1 DEF Routed, Feeds, Known, HeadOf
  <2>4. ASSUME NEW a \in Actor, NEW m \in Contents(a)', m.type \in ProbeType
        PROVE  OnRoute(a, m)'
    <3>1. m \in Contents(a)
      BY <1>1, <2>2, <2>4, Arrivals DEF Typed
    <3>2. OnRoute(a, m)
      BY <2>4, <3>1 DEF Routed
    <3> QED BY <1>1, <3>2 DEF OnRoute, OnTheWayForth, OnTheWayBack
  <2> QED BY <2>1, <2>3, <2>4 DEF Routed
<1>2. ASSUME Crash, UNCHANGED <<rep_counter_, rg_receivers>> PROVE OneRound' /\ Routed'
  BY <1>2, StillOne, StillRouted DEF Crash
<1>3. CASE Crash /\ (Serial \/ SerialKill \/ Parallel \/ ParallelKill)
  <2>1. CASE Serial
    <3>1. heads_ = <<>>
      BY <1>3, <2>1 DEF Serial, Crash, Handled, Step, Receives
    <3> QED BY <1>2, <1>3, <2>1, <3>1 DEF Serial, rgVars
  <2> QED BY <1>2, <1>3, <2>1 DEF SerialKill, Parallel, ParallelKill, countVars, rgVars
<1>4. CASE SerialBenchmark
  <2>1. ~ Started /\ Started'
    <3>1. ~ Started
      BY <1>0, <1>4, StartedHead DEF SerialBenchmark, Builder, BuildType
    <3> QED BY <1>4, <3>1, StartBuilds DEF OneChainAtATime
  <2>2. SerialPlaces = {} /\ rep_counter_ = 0 /\ UNCHANGED <<rep_counter_, rg_receivers>>
    BY <1>4, <2>1 DEF OneRound, SerialBenchmark, execVars, rgVars
  <2>3. PICK out \in {Silent, Sent(Executor, SerialStart)} :
          (\E pending : Step(Executor, out, live, pending)) /\ mbox[Executor] # <<>>
    BY <1>4 DEF SerialBenchmark, Handled, Receives
  <2>4. /\ Parcel(out)
        /\ \A a \in Actor : \A m : out[a] = <<m>> => m = SerialStart /\ a = Executor
    BY <2>3, SendingParcels
  <2>5. Arrives(Executor, out)
    BY <2>3 DEF Step, Arrives
  <2>6. OneRound'
    BY <2>1, <2>2, <2>4, <2>5, PassStep
  <2>7. OnRoute(Executor, SerialStart)
    BY <2>2 DEF OnRoute, SerialStart
  <2> QED BY <2>2, <2>4, <2>5, <2>6, <2>7, RoutedStep
<1>5. CASE Serial /\ heads_ # <<>>
  <2>1. PICK out, x :
          /\ Parcel(out) /\ Arrives(Executor, out)
          /\ x.type = "weightless" /\ OnRoute(HeadOf(1), x)
          /\ \A a \in Actor : \A m : out[a] = <<m>> => m = x /\ a = HeadOf(1)
    BY <1>0, <1>5, SerialSends
  <2>2. Started /\ (\A p \in SerialPlaces : p = <<Executor, 1>>) /\ HeadOf(1) \in ChainActor
    BY <1>0, <1>5, SerialSends
  <2>3. OneRound'
    BY <2>1, <2>2, PassStep
  <2>4. ASSUME NEW m \in Contents(Executor)', m.type = "serial" PROVE FALSE
    <3>1. PICK i \in DOMAIN mbox'[Executor] : mbox'[Executor][i] = m
      BY DEF Contents, ToSet
    <3>2. /\ i \in Nat \ {0}
          /\ \/ <<Executor, i + 1>> \in SerialPlaces
             \/ out[Executor] = <<m>>
      BY <1>0, <2>1, <2>4, <3>1, Waited DEF SerialType, Before
    <3>3. out[Executor] # <<m>>
      BY <1>0, <2>1, <2>4
    <3>4. <<Executor, i + 1>> = <<Executor, 1>>
      BY <2>2, <3>2, <3>3
    <3> QED BY <3>2, <3>4
  <2>5. ASSUME NEW a \in Actor, NEW m \in Contents(a)', m.type \in ProbeType
        PROVE  OnRoute(a, m)'
    <3>1. m \in Contents(a) \/ (m = x /\ a = HeadOf(1))
      BY <2>1, Arrivals DEF Typed
    <3>2. OnRoute(a, m)
      BY <2>1, <2>5, <3>1 DEF Routed
    <3>3. m.type = "serial" => a = Executor
      BY <3>2 DEF OnRoute
    <3>4. m.type # "serial"
      BY <2>4, <2>5, <3>3
    <3> QED BY <3>2, <3>4 DEF OnRoute, OnTheWayForth, OnTheWayBack
  <2>6. Feeds'
    BY <1>5 DEF Serial, rgVars, Routed, Feeds
  <2> QED BY <2>3, <2>5, <2>6 DEF Routed
<1>6. CASE ExecInit /\ Sends(Executor, {})
  BY <1>1, <1>6 DEF ExecInit, rgVars
<1>7. CASE /\ Sysconfig
           /\ Sends(Executor, IF Len(heads_) = ChainsNumber THEN {BenchmarkSignal.type}
                                                           ELSE {"make_linear_chain"})
  <2>1. BenchmarkSignal.type \in {"serial_benchmark", "parallel_benchmark"}
    BY DEF BenchmarkSignal, Signal
  <2>2. Sends(Executor, {BenchmarkSignal.type, "make_linear_chain"})
    BY <1>7, SendsMore
  <2> QED BY <1>1, <1>7, <2>1, <2>2 DEF Sysconfig, execVars, rgVars, ProbeType
<1>8. CASE SystemBuilding /\ Sends(Executor, {"sysconfig"})
  BY <1>1, <1>8 DEF SystemBuilding, countVars, rgVars, ProbeType
<1>9. CASE (\E t \in {"serial_update_metrics", "parallel_update_metrics"} : UpdateMetrics(t))
           /\ Sends(Executor, {})
  BY <1>1, <1>9 DEF UpdateMetrics, execVars, rgVars
<1>10. CASE (\E t \in FinalType : Sends(Executor, {t, "topo_kill", "kill"}))
            /\ (SerialKill \/ ParallelKill)
  BY <1>1, <1>10 DEF SerialKill, ParallelKill, countVars, rgVars, FinalType, ProbeType
<1>11. CASE ParallelBenchmark /\ Sends(Executor, {})
  BY <1>1, <1>11 DEF ParallelBenchmark, SpawnRateGenerator, execVars
<1>12. CASE Parallel /\ Sends(Executor, {})
  BY <1>1, <1>12 DEF Parallel, rgVars
<1>13. CASE End /\ Sends(Executor, {})
  BY <1>1, <1>13 DEF End, execVars, rgVars
<1> HIDE DEF ExecutorMoves
<1> QED
  BY <1>3, <1>4, <1>5, <1>6, <1>7, <1>8, <1>9, <1>10, <1>11, <1>12, <1>13, ExecutorSending
     DEF FinalType

\* At the beginning there is no message at all.
LEMMA InitRound == Init => OneRound /\ Routed
<1> SUFFICES ASSUME Init PROVE OneRound /\ Routed
  OBVIOUS
<1>1. (\A a \in Actor : mbox[a] = <<>>) /\ rep_counter_ = 0 /\ rg_receivers = <<>>
  BY DEF Init, SystemInit, ExecInitState, RgInit
<1>2. SerialPlaces = {}
  <2>1. DOMAIN <<>> = {}
    OBVIOUS
  <2> QED BY <1>1, <2>1, PlacesAre
<1>3. Routed
  BY <1>1 DEF Routed, Feeds, Contents, ToSet
<1> QED BY <1>1, <1>2, <1>3 DEF OneRound, OneSerialMessage

\* Every step keeps one serial message under way and every measurement on its route.
LEMMA NextOneRound ==
  Typed /\ Startup /\ Order /\ OneChainAtATime /\ OneRound /\ Routed /\ [Next]_vars
    => OneRound' /\ Routed'
<1> SUFFICES ASSUME Typed, Startup, Order, OneChainAtATime, OneRound, Routed, [Next]_vars
             PROVE  OneRound' /\ Routed'
  OBVIOUS
<1>1. (Started => Started') /\ Known
  BY NextBuilt DEF OneChainAtATime
<1>2. ASSUME NEW self, NEW types, Sends(self, types), types \cap ProbeType = {},
             UNCHANGED <<rep_counter_, rg_receivers>>
      PROVE  OneRound' /\ Routed'
  BY <1>1, <1>2, CalmStep, AsideRouted DEF SerialType, ProbeType
<1>3. CASE UNCHANGED <<mbox, rep_counter_, rg_receivers>>
  BY <1>1, <1>3, StillOne, StillRouted
<1>4. CASE MainStep
  BY <1>2, <1>4, MainSending DEF MainStep, MainType, ProbeType, execVars, rgVars
<1>5. CASE RgMoves
  <2>1. OneRound'
    <3>1. UNCHANGED rep_counter_
      BY <1>5 DEF RgMoves, execVars
    <3> QED BY <1>1, <1>5, <3>1, RgSending, StillOne, CalmStep DEF SerialType
  <2> QED BY <1>5, <2>1, RgRouted
<1>6. ASSUME NEW a \in ChainActor, ChainMoves(a) PROVE OneRound' /\ Routed'
  BY <1>1, <1>6, ChainRound, ChainRouted
<1>7. ASSUME NEW p \in PoolActor, PoolMoves(p) PROVE OneRound' /\ Routed'
  BY <1>2, <1>7, PoolSending DEF PoolMoves, ProbeType, execVars, rgVars
<1>8. CASE TopoMoves
  BY <1>2, <1>8, TopoSending DEF TopoMoves, ProbeType, execVars, rgVars
<1>9. CASE CollectorMoves
  BY <1>2, <1>3, <1>9, CollectorSending DEF CollectorMoves, execVars, rgVars
<1>10. ASSUME NEW t \in Timer, ClockMoves(t) PROVE OneRound' /\ Routed'
  BY <1>2, <1>10, ClockSending DEF ClockMoves, ProbeType, Timer, execVars, rgVars
<1>11. CASE ExecutorMoves
  BY <1>1, <1>11, ExecutorRound
<1>12. CASE UNCHANGED worldVars
  BY <1>3, <1>12 DEF worldVars, systemVars, execVars, rgVars
<1> QED
  BY <1>4, <1>5, <1>6, <1>7, <1>8, <1>9, <1>10, <1>11, <1>12 DEF Next, TimePasses, Terminated,
     vars

\* The invariants hold always.
LEMMA AlwaysMeasuring ==
  Spec => [](Typed /\ Startup /\ Order /\ OneChainAtATime /\ OneRound /\ Routed)
<1>1. Init => Order /\ OneChainAtATime /\ OneRound /\ Routed
  BY InitOrder, InitBuilt, InitRound
<1>2. Typed /\ Startup /\ Order /\ OneChainAtATime /\ OneRound /\ Routed /\ [Next]_vars
        => Order' /\ OneChainAtATime' /\ OneRound' /\ Routed'
  BY NextOrder, NextBuilt, NextOneRound
<1> QED BY <1>1, <1>2, AlwaysStarted, PTL DEF Spec

(***************************************************************************)
(* For every number and length of chains, every pool and every             *)
(* interleaving: there is at most one message of the serial benchmark, so  *)
(* that no two actors touch the global chain_latency at the same time.     *)
(***************************************************************************)
THEOREM SerialTravelsAlone == Spec => []OneSerialMessage
<1>1. OneRound => OneSerialMessage
  BY DEF OneRound
<1> QED BY <1>1, AlwaysMeasuring, PTL

(***************************************************************************)
(* For every number and length of chains, either route and every           *)
(* interleaving: each measurement the executor finds in its mailbox spans  *)
(* the same links, its own reading of the probe included, and the pipeline *)
(* probe of the parallel benchmark does without the first link.            *)
(***************************************************************************)
THEOREM LinksMeasured == Spec => []MeasuredLinks
<1>1. ASSUME Typed, Routed PROVE MeasuredLinks
  <2>1. SUFFICES ASSUME NEW m \in Probes(Executor)
                 PROVE  CASE m.type = "parallel" -> m.hops = Links + 2 /\ ProbeRead(m) = Links + 1
                          [] m.type = "serial"   -> rep_counter_ > 0 => ProbeRead(m) = Links + 2
                          [] OTHER               -> FALSE
    BY DEF MeasuredLinks
  <2>2. m.type \in ProbeType /\ OnRoute(Executor, m)
    BY <1>1, MainActorsAreActors DEF Routed, Probes
  <2>3. Executor \notin ChainActor /\ Links \in Int /\ rep_counter_ \in Nat
    BY <1>1, ActorKinds, ConfigAssumption, MaxRepsAssumption
       DEF MainActor, Links, Typed, ExecTypeOK
  <2>4. m.type = "parallel" \/ m.type = "serial"
    BY <2>2, <2>3 DEF OnRoute, OnTheWayForth, OnTheWayBack, ProbeType
  <2>5. CASE m.type = "parallel"
    <3>1. m.hops = Links + 2 /\ m.start = 1 /\ m.stop = 0
      BY <2>2, <2>5 DEF OnRoute
    <3> QED BY <2>3, <2>5, <3>1 DEF ProbeRead, NotStarted
  <2>6. CASE m.type = "serial"
    <3>1. rep_counter_ > 0 => m.hops = Links + 2 /\ m.start = 0 /\ m.stop = 0
      BY <2>2, <2>3, <2>6 DEF OnRoute
    <3>2. rep_counter_ > 0 => ProbeRead(m) = Links + 2
      BY <2>3, <3>1 DEF ProbeRead, NotStarted
    <3> QED BY <2>6, <3>2
  <2> QED BY <2>4, <2>5, <2>6
<1> QED BY <1>1, AlwaysMeasuring, PTL

-----------------------------------------------------------------------------
(* No handler crashes.                                                     *)

\* The kill that ends a benchmark is on the clock or in the mailbox.
KillDue(k) == Later(Executor, k) \in timers \/ Has(Executor, k)

\* Something of the serial benchmark is under way.
SerialMeant == SerialPlaces # {} \/ KillDue("serial_kill")

\* Until the first measurement is taken it waits in front of the kill.
KillBehind ==
  Executor \in live /\ rep_counter_ = 0 =>
    /\ Later(Executor, "serial_kill") \in timers => Has(Executor, "serial")
    /\ \A i \in DOMAIN mbox[Executor] :
         mbox[Executor][i].type = "serial_kill" =>
           \E j \in DOMAIN mbox[Executor] : j < i /\ mbox[Executor][j].type = "serial"

\* The kill of the serial benchmark is behind a whole second at least: it waits
\* as long as the probe it divides by has run.
InTime ==
  /\ ClockTypeOK
  /\ KillTimer \in timers => Duration > 0 /\ kill_waits <= total_latency_
  /\ Has(Executor, "serial_kill") => total_latency_ > 0

\* What the handlers that could crash rely on.
Ready ==
  /\ Executor \in configured => nsteps_ = Links
  /\ rg_state # "absent" => Len(rg_receivers) = ChainsNumber
  /\ ct_hops \in {0, Links + 2}

Due ==
  /\ SerialMeant => ~ IsParallel /\ Len(heads_) = ChainsNumber
  /\ KillDue("parallel_kill") => IsParallel
  /\ KillBehind
  /\ InTime

Prepared == Ready /\ Due /\ (ChainsNumber > 0 => NoCrash)

\* What is sent to an actor that lives arrives, and the rest moves up.
LEMMA Forwards ==
  ASSUME SystemTypeOK, NEW self, NEW out, Parcel(out), Arrives(self, out),
         NEW a \in Actor, a \in live', NEW i \in DOMAIN mbox[a], a = self => i > 1
  PROVE  LET j == IF a = self THEN i - 1 ELSE i
         IN  j \in DOMAIN mbox'[a] /\ mbox'[a][j] = mbox[a][i]
<1> DEFINE s == IF a = self THEN Tail(mbox[a]) ELSE mbox[a]
           j == IF a = self THEN i - 1 ELSE i
<1>1. mbox[a] \in Seq(Message) /\ mbox'[a] = s \o out[a]
  BY DEF SystemTypeOK, Arrives, Delivered
<1>2. s \in Seq(Message) /\ j \in DOMAIN s /\ s[j] = mbox[a][i]
  <2>1. CASE a = self
    <3>1. Tail(mbox[a]) \in Seq(Message) /\ i - 1 \in DOMAIN Tail(mbox[a])
          /\ Tail(mbox[a])[i - 1] = mbox[a][i]
      BY <1>1, <2>1
    <3> QED BY <2>1, <3>1
  <2>2. CASE a # self
    BY <1>1, <2>2
  <2> QED BY <2>1, <2>2
<1> HIDE DEF s, j
<1>3. CASE out[a] = <<>>
  <2>1. mbox'[a] = s
    BY <1>1, <1>2, <1>3, Elements
  <2> QED BY <1>2, <2>1 DEF j
<1>4. ASSUME NEW x, out[a] = <<x>> PROVE j \in DOMAIN mbox'[a] /\ mbox'[a][j] = mbox[a][i]
  <2> DEFINE T == Message \cup {x}
             r == s \o <<x>>
  <2>1. s \in Seq(T) /\ <<x>> \in Seq(T) /\ Len(<<x>>) = 1
    BY <1>2
  <2>2. j \in DOMAIN r /\ r[j] = s[j]
    BY <1>2, <2>1
  <2>3. mbox'[a] = r
    BY <1>1, <1>4
  <2> HIDE DEF r
  <2> QED BY <1>2, <2>2, <2>3
<1> QED BY <1>3, <1>4 DEF Parcel, j

\* A type of message that a step does not send is not there afterwards unless it
\* was there before.
LEMMA NothingNew ==
  ASSUME Typed, NEW self, NEW types, Sends(self, types), NEW a \in Actor, NEW t, t \notin types,
         Has(a, t)'
  PROVE  Has(a, t)
<1>1. PICK out : /\ Parcel(out) /\ Arrives(self, out)
                 /\ \A b \in Actor : \A m : out[b] = <<m>> => m.type \in types
  BY DEF Sends
<1>2. PICK m \in Contents(a)' : m.type = t
  BY DEF Has
<1>3. m \in Contents(a)
  BY <1>1, <1>2, Arrivals DEF Typed
<1> QED BY <1>2, <1>3 DEF Has

\* A kill becomes due when its clock is started.
LEMMA KillStep ==
  ASSUME Typed, NEW self, NEW types, Sends(self, types), NEW k, k \in types => KillDue(k),
         Later(Executor, k) \in timers' => KillDue(k)
  PROVE  KillDue(k)' => KillDue(k)
<1>1. Executor \in Actor
  BY MainActorsAreActors
<1>2. k \notin types /\ Has(Executor, k)' => Has(Executor, k)
  BY <1>1, NothingNew
<1> QED BY <1>2 DEF KillDue, Later

\* The serial benchmark goes on as long as it has gone on.
LEMMA MeantStep ==
  ASSUME Typed, NEW self, NEW types, Sends(self, types), types \cap SerialType # {} => SerialMeant,
         KillDue("serial_kill")' => KillDue("serial_kill")
  PROVE  SerialMeant' => SerialMeant
<1> SUFFICES ASSUME SerialPlaces' # {}, types \cap SerialType = {} PROVE SerialPlaces # {}
  BY DEF SerialMeant
<1>1. PICK a \in Actor : \E i \in DOMAIN mbox'[a] : mbox'[a][i].type \in SerialType
  BY PlacesAre
<1>2. PICK t \in SerialType : \E i \in DOMAIN mbox'[a] : mbox'[a][i].type = t
  BY <1>1
<1>3. Has(a, t)'
  BY <1>2 DEF Has, Contents, ToSet
<1>4. Has(a, t)
  BY <1>2, <1>3, NothingNew
<1>5. PICK j \in DOMAIN mbox[a] : mbox[a][j].type \in SerialType
  BY <1>2, <1>4 DEF Has, Contents, ToSet
<1> QED BY <1>5, PlacesAre

\* The first measurement stays in front of the kill.
LEMMA BehindStep ==
  ASSUME Typed, KillBehind, NEW self, NEW types, Sends(self, types),
         "serial_kill" \in types => Later(Executor, "serial_kill") \in timers,
         Later(Executor, "serial_kill") \in timers' => Later(Executor, "serial_kill") \in timers,
         Executor \in live' => Executor \in live,
         rep_counter_' = 0 =>
           rep_counter_ = 0 /\ (self = Executor => Head(mbox[Executor]).type # "serial")
  PROVE  KillBehind'
<1> SUFFICES ASSUME Executor \in live', rep_counter_' = 0
             PROVE  /\ Later(Executor, "serial_kill") \in timers' => Has(Executor, "serial")'
                    /\ \A i \in DOMAIN mbox'[Executor] :
                         mbox'[Executor][i].type = "serial_kill" =>
                           \E j \in DOMAIN mbox'[Executor] :
                             j < i /\ mbox'[Executor][j].type = "serial"
  BY DEF KillBehind, Later
<1> DEFINE After(j) == IF Executor = self THEN j - 1 ELSE j
<1>0. PICK out : /\ Parcel(out) /\ Arrives(self, out)
                 /\ \A b \in Actor : \A m : out[b] = <<m>> => m.type \in types
  BY DEF Sends
<1>1. /\ Executor \in Actor /\ SystemTypeOK /\ mbox[Executor] \in Seq(Message)
      /\ self = Executor => mbox[Executor] # <<>>
  BY <1>0, MainActorsAreActors DEF Typed, SystemTypeOK, Arrives
<1>2. /\ Later(Executor, "serial_kill") \in timers => Has(Executor, "serial")
      /\ \A i \in DOMAIN mbox[Executor] :
           mbox[Executor][i].type = "serial_kill" =>
             \E j \in DOMAIN mbox[Executor] : j < i /\ mbox[Executor][j].type = "serial"
  BY DEF KillBehind
<1>3. ASSUME NEW j \in DOMAIN mbox[Executor], mbox[Executor][j].type = "serial"
      PROVE  /\ j \in Int /\ After(j) \in DOMAIN mbox'[Executor]
             /\ mbox'[Executor][After(j)].type = "serial"
  <2>1. j \in Nat \ {0} /\ (self = Executor => j # 1)
    BY <1>1, <1>3
  <2>2. Executor = self => j > 1
    BY <2>1
  <2>3. After(j) \in DOMAIN mbox'[Executor] /\ mbox'[Executor][After(j)] = mbox[Executor][j]
    BY <1>0, <1>1, <2>2, Forwards
  <2> QED BY <1>3, <2>1, <2>3
<1> HIDE DEF After
<1>4. Has(Executor, "serial") =>
        \E j \in DOMAIN mbox[Executor] : mbox[Executor][j].type = "serial"
  BY DEF Has, Contents, ToSet
<1>5. (\E j \in DOMAIN mbox'[Executor] : mbox'[Executor][j].type = "serial")
        => Has(Executor, "serial")'
  BY DEF Has, Contents, ToSet
<1>6. ASSUME NEW i \in DOMAIN mbox'[Executor], mbox'[Executor][i].type = "serial_kill"
      PROVE  \E j \in DOMAIN mbox'[Executor] : j < i /\ mbox'[Executor][j].type = "serial"
  <2>1. /\ i \in Nat \ {0}
        /\ \/ out[Executor] = <<mbox'[Executor][i]>> /\ \A j \in DOMAIN mbox'[Executor] : j <= i
           \/ /\ Before(self, Executor, i) \in DOMAIN mbox[Executor]
              /\ mbox[Executor][Before(self, Executor, i)] = mbox'[Executor][i]
    BY <1>0, <1>1, Backwards DEF Before
  <2>2. CASE out[Executor] = <<mbox'[Executor][i]>> /\ \A j \in DOMAIN mbox'[Executor] : j <= i
    <3>1. "serial_kill" \in types
      BY <1>0, <1>1, <1>6, <2>2
    <3>2. PICK j \in DOMAIN mbox[Executor] : mbox[Executor][j].type = "serial"
      BY <1>2, <1>4, <3>1
    <3>3. /\ j \in Int /\ After(j) \in DOMAIN mbox'[Executor]
          /\ mbox'[Executor][After(j)].type = "serial"
      BY <1>3, <3>2
    <3>4. After(j) \in Int /\ After(j) # i /\ After(j) <= i
      BY <1>6, <2>2, <3>3 DEF After
    <3>5. After(j) < i
      BY <2>1, <3>4
    <3> QED BY <3>3, <3>5
  <2>3. CASE /\ Before(self, Executor, i) \in DOMAIN mbox[Executor]
             /\ mbox[Executor][Before(self, Executor, i)] = mbox'[Executor][i]
    <3>1. PICK j \in DOMAIN mbox[Executor] :
            j < Before(self, Executor, i) /\ mbox[Executor][j].type = "serial"
      BY <1>2, <1>6, <2>3
    <3>2. /\ j \in Int /\ After(j) \in DOMAIN mbox'[Executor]
          /\ mbox'[Executor][After(j)].type = "serial"
      BY <1>3, <3>1
    <3>3. After(j) < i
      BY <2>1, <3>1, <3>2 DEF After, Before
    <3> QED BY <3>2, <3>3
  <2> QED BY <2>1, <2>2, <2>3
<1> QED BY <1>2, <1>3, <1>4, <1>5, <1>6

\* The kill is delivered when its delay is over, and is not sent otherwise.
LEMMA InTimeStep ==
  ASSUME Typed, InTime, NEW self, NEW types, Sends(self, types), UNCHANGED clockVars,
         \A k \in {"serial_kill", "parallel_kill"} :
           k \in types \/ Later(Executor, k) \in timers' => Later(Executor, k) \in timers,
         "serial_kill" \in types => kill_waits = Duration
  PROVE  InTime'
<1>1. Executor \in Actor /\ Duration \in Nat
  BY MainActorsAreActors, ConfigAssumption
<1>2. "serial_kill" \in types => total_latency_ > 0
  BY <1>1 DEF InTime, ClockTypeOK, KillTimer
<1>3. Has(Executor, "serial_kill")' => total_latency_ > 0
  BY <1>1, <1>2, NothingNew DEF InTime
<1>4. KillTimer \in timers' => KillTimer \in timers
  BY DEF KillTimer
<1>5. UNCHANGED <<total_latency_, kill_waits>>
  BY DEF clockVars
<1> QED BY <1>3, <1>4, <1>5 DEF InTime, ClockTypeOK, KillTimer, Later

\* A step that leaves the kills alone and measures nothing that was not measured.
LEMMA DueStep ==
  ASSUME Typed, Due, NEW self, NEW types, Sends(self, types),
         types \cap SerialType # {} => SerialMeant,
         \A k \in {"serial_kill", "parallel_kill"} :
           k \in types \/ Later(Executor, k) \in timers' => Later(Executor, k) \in timers,
         Executor \in live' => Executor \in live,
         UNCHANGED heads_ \/ ~ SerialMeant,
         rep_counter_' = 0 =>
           rep_counter_ = 0 /\ (self = Executor => Head(mbox[Executor]).type # "serial"),
         UNCHANGED clockVars, "serial_kill" \in types => kill_waits = Duration
  PROVE  Due'
<1>1. \A k \in {"serial_kill", "parallel_kill"} : KillDue(k)' => KillDue(k)
  BY KillStep DEF KillDue
<1>2. SerialMeant' => SerialMeant
  BY <1>1, MeantStep
<1>3. KillBehind'
  BY BehindStep DEF Due
<1>4. SerialMeant' => ~ IsParallel /\ Len(heads_') = ChainsNumber
  BY <1>2 DEF Due
<1>5. InTime'
  BY InTimeStep DEF Due
<1> QED BY <1>1, <1>3, <1>4, <1>5 DEF Due

\* What keeps the messages and the clocks keeps what is due.
LEMMA StillDue ==
  ASSUME Due, UNCHANGED <<mbox, timers, live, heads_, rep_counter_>>, UNCHANGED clockVars
  PROVE  Due'
BY DEF Due, SerialMeant, KillDue, KillBehind, InTime, Has, Contents, SerialPlaces, Later,
   KillTimer, ClockTypeOK, clockVars

\* What the executor receives before the benchmark starts.
LEMMA BeforeStart ==
  ASSUME Stage, NEW m \in Contents(Executor)
  PROVE  m.type \in {"exec_init", "sysconfig", "system_building", "serial_benchmark",
                     "parallel_benchmark"}
<1>1. \A x, y : ToSet(<<>>) = {} /\ ToSet(<<x>>) = {x} /\ ToSet(<<x, y>>) = {x, y}
  BY DEF ToSet
<1>2. \A t : Signal(t).type = t
  BY DEF Signal
<1>3. BenchmarkSignal.type \in {"serial_benchmark", "parallel_benchmark"}
  BY <1>2 DEF BenchmarkSignal
<1>4. CASE BeforeMain
  BY <1>1, <1>2, <1>4 DEF BeforeMain, Contents
<1>5. CASE AtSysconfig
  BY <1>1, <1>2, <1>5 DEF AtSysconfig, Contents
<1>6. CASE AtMake \/ AtInit
  BY <1>1, <1>6 DEF AtMake, AtInit, Contents
<1>7. CASE AtAnnounce
  BY <1>1, <1>7 DEF AtAnnounce, Contents
<1>8. CASE AtStart
  BY <1>1, <1>3, <1>8 DEF AtStart, Contents
<1> QED BY <1>4, <1>5, <1>6, <1>7, <1>8 DEF Stage

\* Nothing is due then.
LEMMA NothingDue ==
  ASSUME Typed, Building, Stage, NEW k \in {"serial_kill", "parallel_kill"} PROVE ~ KillDue(k)
<1>1. Later(Executor, k) \notin timers
  BY DEF Building, Later
<1>2. \A m \in Contents(Executor) :
        m.type \in {"exec_init", "sysconfig", "system_building", "serial_benchmark",
                    "parallel_benchmark"}
  BY BeforeStart
<1> QED BY <1>1, <1>2 DEF KillDue, Has
\* What everything but the executor leaves alone.
Others ==
  /\ UNCHANGED execVars /\ UNCHANGED clockVars
  /\ Executor \in live' <=> Executor \in live
  /\ Executor \in configured' <=> Executor \in configured
  /\ \A t \in timers' : t.to = Executor => t \in timers
  /\ process' \in {process, "exited", "undefined"} \/ (RgStart /\ Receivers = 0)

\* No step of another actor, of a thread or of the clock concerns the executor.
LEMMA OthersMove ==
  ASSUME Typed,
         \/ MainStep \/ RgMoves \/ TopoMoves \/ CollectorMoves
         \/ \E a \in ChainActor : ChainMoves(a)
         \/ \E p \in PoolActor : PoolMoves(p)
         \/ \E t \in Timer : ClockMoves(t)
  PROVE  Others
<1>0. /\ Executor \notin ChainActor \cup PoolActor /\ Executor # TopoBuilder
      /\ Executor # Collector
  BY ActorKinds, ActorAssumption DEF MainActor
<1>1. CASE MainStep
  BY <1>1 DEF MainStep, Posted, Handled, Step, Others
<1>2. CASE RgMoves
  BY <1>2 DEF RgMoves, RgStep, RgStart, RgSend, RgFinish, RgFirstHop, Posted, Handled, Step, Crash,
     Undefined, Others
<1>3. CASE TopoMoves
  <2>1. /\ UNCHANGED <<execVars, clockVars, timers, process>>
        /\ live' \in {live, live \cup PoolActor, live \cup ChainOf(chains_built + 1),
                      live \ {TopoBuilder}}
        /\ configured' \in {configured, configured \cup {TopoBuilder}}
    BY <1>3 DEF TopoMoves, TopoStep, InitTopo, InitDetachedReply, MakeLinearChain,
       InitBenchReply, TopoKill, Handled, Step
  <2> QED BY <1>0, <2>1 DEF Others, ChainOf
<1>4. CASE CollectorMoves
  <2>1. /\ UNCHANGED <<execVars, clockVars, live>> /\ process' \in {process, "exited"}
        /\ configured' \in {configured, configured \cup {Collector}}
        /\ timers' \subseteq timers \cup {InitTimer, ResultTimer}
    BY <1>4 DEF CollectorMoves, CollectorStep, RcInit, SendCollect, FinalCollect, SysCollect,
       BenchmarkKill, InitTimer, Handled, Step
  <2>2. InitTimer.to = Collector /\ ResultTimer.to = Collector
    BY DEF InitTimer, ResultTimer, Later
  <2> HIDE DEF CollectorMoves
  <2> QED BY <1>0, <2>1, <2>2 DEF Others
<1>5. ASSUME NEW a \in ChainActor, ChainMoves(a) PROVE Others
  <2>1. UNCHANGED <<execVars, clockVars>>
    BY <1>5 DEF ChainMoves
  <2>2. CASE InitBench(a)
    BY <1>0, <1>5, <2>1, <2>2 DEF InitBench, Handled, Step, Others
  <2>3. CASE Kill(a)
    BY <1>0, <1>5, <2>1, <2>3 DEF Kill, Step, Others
  <2>4. CASE Weightless(a) \/ WeightlessBack(a) \/ TimedMsg(a) \/ TimedMsgBack(a)
    <3>1. UNCHANGED <<configured, live, timers, process>>
      BY <2>4 DEF Weightless, WeightlessBack, TimedMsg, TimedMsgBack, SendForth, SendBack,
         Relay, Report, Handled, Step
    <3> QED BY <2>1, <3>1 DEF Others
  <2> QED BY <1>5, <2>2, <2>3, <2>4 DEF ChainMoves, ChainActorStep
<1>6. ASSUME NEW p \in PoolActor, PoolMoves(p) PROVE Others
  BY <1>0, <1>6 DEF PoolMoves, PoolActorStep, InitDetached, DetachedMsg, Handled, Step, Others
<1>7. ASSUME NEW t \in Timer, ClockMoves(t) PROVE Others
  BY <1>7 DEF ClockMoves, Fire, Step, Others
<1> QED BY <1>1, <1>2, <1>3, <1>4, <1>5, <1>6, <1>7

\* What the others leave prepared when they send nothing that is due.
LEMMA OthersPrepared ==
  ASSUME Typed, Prepared, Others, UNCHANGED rgVars \/ RgMoves, NEW self, NEW types,
         Sends(self, types), self # Executor, types \cap SerialType # {} => SerialMeant,
         \A k \in {"serial_kill", "parallel_kill"} : k \in types => Later(Executor, k) \in timers,
         "serial_kill" \in types => kill_waits = Duration
  PROVE  Prepared'
<1>1. UNCHANGED <<nsteps_, ct_hops, heads_, rep_counter_>>
  BY DEF Others, execVars
<1>2. rg_state' # "absent" => rg_state # "absent" /\ UNCHANGED rg_receivers
  BY DEF rgVars, RgMoves, RgStep, RgStart, RgSend, RgFinish, RgFirstHop
<1>3. Ready'
  <2>1. Links' = Links
    OBVIOUS
  <2> QED BY <1>1, <1>2 DEF Prepared, Ready, Others, Links
<1>4. \A k : Later(Executor, k).to = Executor
  BY DEF Later
<1>5. Due'
  BY <1>1, <1>4, DueStep DEF Prepared, Others
<1>6. ChainsNumber > 0 => NoCrash'
  <2>1. RgStart => Len(rg_receivers) = ChainsNumber
    BY DEF RgStart, Prepared, Ready
  <2> QED BY <2>1 DEF Prepared, NoCrash, Others, Receivers
<1> QED BY <1>3, <1>5, <1>6 DEF Prepared

\* What is left as it is stays prepared.
LEMMA StillPrepared ==
  ASSUME Prepared, Others, UNCHANGED <<mbox, timers>>, UNCHANGED rgVars \/ RgMoves
  PROVE  Prepared'
<1>1. UNCHANGED <<nsteps_, ct_hops, heads_, rep_counter_>>
  BY DEF Others, execVars
<1>2. rg_state' # "absent" => rg_state # "absent" /\ UNCHANGED rg_receivers
  BY DEF rgVars, RgMoves, RgStep, RgStart, RgSend, RgFinish, RgFirstHop
<1>3. Ready'
  BY <1>1, <1>2 DEF Prepared, Ready, Others, Links
<1>4. Due'
  <2>1. UNCHANGED clockVars /\ (Executor \in live' <=> Executor \in live)
    BY DEF Others
  <2> QED BY <1>1, <2>1 DEF Prepared, Due, SerialMeant, KillDue, KillBehind, InTime, Has,
         Contents, SerialPlaces, Later, KillTimer, ClockTypeOK, clockVars
<1>5. ChainsNumber > 0 => NoCrash'
  <2>1. RgStart => Len(rg_receivers) = ChainsNumber
    BY DEF RgStart, Prepared, Ready
  <2> QED BY <2>1 DEF Prepared, NoCrash, Others, Receivers
<1> QED BY <1>3, <1>4, <1>5 DEF Prepared

\* A chain has a link at least.
LEMMA LinksCounted == Links \in Nat \ {0}
BY ConfigAssumption DEF Links, is_valid

\* The handlers of the executor find what they divide by and subscript.
LEMMA ExecutorSafe ==
  ASSUME Typed, Startup, OneRound, Routed, Prepared, ChainsNumber > 0, ExecutorMoves
  PROVE  ~ (Crash /\ (Serial \/ SerialKill \/ Parallel \/ ParallelKill))
<1> SUFFICES ASSUME Crash, Serial \/ SerialKill \/ Parallel \/ ParallelKill PROVE FALSE
  OBVIOUS
<1>0. /\ Executor \in Actor /\ process = "running"
      /\ \A t : Receives(Executor, t) => Has(Executor, t) /\ mbox[Executor][1].type = t
                                         /\ 1 \in DOMAIN mbox[Executor] /\ Executor \in live
  <2>1. Executor \in Actor /\ mbox[Executor] \in Seq(Message)
    BY MainActorsAreActors DEF Typed, SystemTypeOK
  <2>2. \A t : Receives(Executor, t) => Head(mbox[Executor]) \in Contents(Executor)
    BY <2>1, FirstIsContent DEF Receives, Typed
  <2>3. \A t : Receives(Executor, t) =>
                 1 \in DOMAIN mbox[Executor] /\ mbox[Executor][1].type = t
    BY <2>1 DEF Receives
  <2>4. process = "running"
    BY DEF Serial, SerialKill, Parallel, ParallelKill, Receives
  <2> QED BY <2>1, <2>2, <2>3, <2>4 DEF Has, Receives
<1>1. process' # "running"
  BY DEF Crash
<1>2. ~ (\E alive, pending, out : Step(Executor, out, alive, pending))
  BY <1>0, <1>1 DEF Step
<1>3. \A t \in {"serial_kill", "parallel_kill"} : Receives(Executor, t) => nsteps_ = Links
  <2>1. \A t \in {"serial_kill", "parallel_kill"} : t # Initialiser(Executor)
    BY DEF Initialiser
  <2> QED BY <1>0, <2>1, Initialised DEF Prepared, Ready
<1>4. CASE Serial
  <2>1. heads_ = <<>> /\ Receives(Executor, "serial")
    BY <1>2, <1>4 DEF Serial, Handled
  <2>2. SerialPlaces # {}
    BY <1>0, <2>1, PlacesAre DEF SerialType
  <2> QED BY <2>1, <2>2 DEF Prepared, Due, SerialMeant
<1>5. CASE SerialKill
  <2>1. ~ Divides /\ Receives(Executor, "serial_kill")
    BY <1>2, <1>5 DEF SerialKill, Divides
  <2>2. Len(heads_) = ChainsNumber
    BY <1>0, <2>1 DEF Prepared, Due, SerialMeant, KillDue
  <2>3. rep_counter_ # 0
    <3>1. ASSUME rep_counter_ = 0 PROVE FALSE
      <4>1. PICK j \in DOMAIN mbox[Executor] : j < 1
        BY <1>0, <2>1, <3>1 DEF Prepared, Due, KillBehind
      <4>2. mbox[Executor] \in Seq(Message)
        BY <1>0 DEF Typed, SystemTypeOK
      <4> QED BY <4>1, <4>2
    <3> QED BY <3>1
  <2>4. nsteps_ \in Nat \ {0} /\ rep_counter_ \in Nat \ {0}
    BY <1>3, <2>1, <2>3, LinksCounted, MaxRepsAssumption DEF Typed, ExecTypeOK
  <2>5. nsteps_ * rep_counter_ # 0
    BY <2>4
  <2>6. total_latency_ # 0
    BY <1>0, <2>1 DEF Prepared, Due, InTime
  <2> QED BY <2>1, <2>2, <2>5, <2>6 DEF Divides
<1>6. CASE Parallel
  <2>1. ~ Summable(Head(mbox[Executor]).hops) /\ Receives(Executor, "parallel")
    BY <1>2, <1>6 DEF Parallel, Handled
  <2>2. OnRoute(Executor, Head(mbox[Executor])) /\ Head(mbox[Executor]).type = "parallel"
    BY <1>0, <2>1, HeadRouted DEF ProbeType
  <2>3. Head(mbox[Executor]).hops = Links + 2
    BY <2>2 DEF OnRoute
  <2> QED BY <2>1, <2>3 DEF Summable, Prepared, Ready
<1>7. CASE ParallelKill
  <2>1. nsteps_ = 0 /\ Receives(Executor, "parallel_kill")
    BY <1>2, <1>7 DEF ParallelKill
  <2> QED BY <1>3, <2>1, LinksCounted
<1> QED BY <1>4, <1>5, <1>6, <1>7
\* The benchmark starts with the heads of all chains and nothing due: what it
\* sets going is of its own kind, and the kill is set when the first measurement
\* is in the mailbox.
LEMMA StartPrepared ==
  ASSUME Typed, Startup, OneChainAtATime, OneRound, Prepared, ExecutorMoves,
         SerialBenchmark \/ ParallelBenchmark
  PROVE  Prepared'
<1>0. Executor \in Actor /\ Executor \in Builder /\ Known
  BY MainActorsAreActors DEF Builder, OneChainAtATime
<1>1. Building /\ Stage /\ ~ Started
  <2>1. ~ Started
    BY <1>0, StartedHead DEF SerialBenchmark, ParallelBenchmark, BuildType
  <2> QED BY <2>1 DEF OneChainAtATime
<1>2. AtStart /\ Len(heads_) = ChainsNumber
  <2>1. AtStart
    BY <1>1, ExecutorReceives DEF SerialBenchmark, ParallelBenchmark
  <2> QED BY <2>1 DEF AtStart
<1>3. (SerialBenchmark => ~ IsParallel) /\ (ParallelBenchmark => IsParallel)
  <2>1. Head(mbox[Executor]) = BenchmarkSignal
    <3>1. Head(<<BenchmarkSignal>>) = BenchmarkSignal
      OBVIOUS
    <3> QED BY <1>2, <3>1 DEF AtStart
  <2> QED BY <2>1 DEF SerialBenchmark, ParallelBenchmark, Receives, BenchmarkSignal, Signal
<1>4. /\ ~ KillDue("serial_kill") /\ ~ KillDue("parallel_kill")
      /\ SerialPlaces = {} /\ rep_counter_ = 0
  BY <1>1, NothingDue DEF OneRound
<1>5. /\ UNCHANGED <<heads_, nsteps_, ct_hops, rep_counter_, configured, live, process>>
      /\ \A t : t.to = Executor /\ t \in timers' =>
           t \in timers \/ t \in (IF SerialBenchmark THEN SerialTimers ELSE ParallelTimers)
  BY DEF SerialBenchmark, ParallelBenchmark, execVars, Handled, Step
<1>6. Ready'
  <2>1. UNCHANGED rg_state \/ rg_receivers' = heads_
    BY DEF SerialBenchmark, ParallelBenchmark, rgVars, SpawnRateGenerator
  <2>2. rg_state = "absent"
    BY <1>1 DEF Building
  <2> QED BY <1>2, <1>5, <2>1, <2>2 DEF Prepared, Ready, Links
<1>7. \A k : Later(Executor, k).to = Executor /\ Later(Executor, k).type = k
  BY DEF Later
<1>8. /\ Later(Executor, "serial_kill") \notin ParallelTimers
      /\ Later(Executor, "parallel_kill") \notin SerialTimers
  BY <1>7 DEF SerialTimers, ParallelTimers, BenchmarkTimers
<1>9. CASE SerialBenchmark
  <2>1. Sends(Executor, {"serial"})
    <3>1. SerialStart.type = "serial" /\ mbox[Executor] # <<>>
      BY <1>9 DEF SerialStart, SerialBenchmark, Receives
    <3>2. \E pending : \/ Step(Executor, Sent(Executor, SerialStart), live, pending)
                       \/ Step(Executor, Silent, live, pending)
      BY <1>9 DEF SerialBenchmark, Handled
    <3> QED BY <3>1, <3>2, SimpleSends
  <2>2. ~ KillDue("parallel_kill")'
    <3>1. Later(Executor, "parallel_kill") \notin timers'
      BY <1>4, <1>5, <1>7, <1>8, <1>9 DEF KillDue
    <3> QED BY <1>4, <2>1, <3>1, KillStep
  <2>3. ~ Has(Executor, "serial_kill")'
    BY <1>0, <1>4, <2>1, NothingNew DEF KillDue
  <2>4. Later(Executor, "serial_kill") \in timers' => Has(Executor, "serial")'
    <3>1. CASE SerialRefuses
      BY <1>4, <1>9, <3>1 DEF SerialBenchmark, Handled, Step, KillDue
    <3>2. CASE ~ SerialRefuses
      <4> DEFINE out == Sent(Executor, SerialStart)
      <4>1. Receives(Executor, "serial_benchmark")
            /\ Step(Executor, out, live, timers \cup SerialTimers)
        BY <1>9, <3>2 DEF SerialBenchmark
      <4>2. Parcel(out) /\ out[Executor] = <<SerialStart>>
        BY <1>0, SendingParcels
      <4> HIDE DEF out
      <4>3. Arrives(Executor, out) /\ Executor \in live'
        BY <4>1 DEF Step, Arrives, Receives
      <4>4. SerialStart \in Contents(Executor)'
        BY <1>0, <4>2, <4>3, Arrivals DEF Typed
      <4> QED BY <4>4 DEF Has, SerialStart
    <3> QED BY <3>1, <3>2
  <2>5. KillBehind'
    BY <2>3, <2>4 DEF KillBehind, Has, Contents, ToSet
  <2>6. InTime'
    <3>1. Later(Executor, "serial_kill") \in timers' =>
            Duration > 0 /\ total_latency_' = 0 /\ kill_waits' = 0
      BY <1>4, <1>7, <1>9 DEF SerialBenchmark, Handled, Step, KillDue, SerialTimers,
         BenchmarkTimers
    <3>2. ClockTypeOK'
      BY <1>9, ConfigAssumption DEF SerialBenchmark, Prepared, Due, InTime, ClockTypeOK,
         clockVars
    <3> QED BY <2>3, <3>1, <3>2 DEF InTime, KillTimer, Later
  <2>7. Due'
    BY <1>2, <1>3, <1>5, <1>9, <2>2, <2>5, <2>6 DEF Due
  <2> QED BY <1>5, <1>6, <2>7 DEF Prepared, NoCrash
<1>10. CASE ParallelBenchmark
  <2>1. Sends(Executor, {})
    <3>1. mbox[Executor] # <<>> /\ Step(Executor, Silent, live, timers \cup ParallelTimers)
      BY <1>10 DEF ParallelBenchmark, Receives
    <3> QED BY <3>1, SimpleSends
  <2>2. Later(Executor, "serial_kill") \notin timers'
    BY <1>4, <1>10, <1>8 DEF KillDue, ParallelBenchmark, Step
  <2>3. ~ KillDue("serial_kill")'
    BY <1>4, <2>1, <2>2, KillStep
  <2>4. ~ SerialMeant'
    <3>1. {} \cap SerialType = {}
      OBVIOUS
    <3> QED BY <1>4, <2>1, <2>3, <3>1, MeantStep DEF SerialMeant
  <2>5. KillBehind'
    BY <2>3 DEF KillBehind, KillDue, Has, Contents, ToSet
  <2>6. InTime'
    <3>1. ClockTypeOK'
      BY <1>10 DEF ParallelBenchmark, Prepared, Due, InTime, ClockTypeOK, clockVars
    <3> QED BY <2>2, <2>3, <3>1 DEF InTime, KillDue, KillTimer, Later
  <2>7. Due'
    BY <1>3, <1>10, <2>4, <2>5, <2>6 DEF Due
  <2> QED BY <1>5, <1>6, <2>7 DEF Prepared, NoCrash
<1> QED BY <1>9, <1>10

\* The steps of the executor.
LEMMA ExecutorPrepared ==
  ASSUME Typed, Startup, OneChainAtATime, OneRound, Routed, Prepared, ExecutorMoves
  PROVE  Prepared'
<1>0. Executor \in Actor /\ \A t : Receives(Executor, t) =>
        Has(Executor, t) /\ Head(mbox[Executor]).type = t /\ process = "running"
  BY MainActorsAreActors, FirstIsContent DEF Receives, Typed, Has
<1>1. ASSUME NEW types, Sends(Executor, types), types \cap SerialType # {} => SerialMeant,
             "serial_kill" \notin types, "parallel_kill" \notin types,
             Executor \in live' => Executor \in live, UNCHANGED process,
             \A k \in {"serial_kill", "parallel_kill"} :
               Later(Executor, k) \in timers' => Later(Executor, k) \in timers,
             UNCHANGED heads_ \/ ~ SerialMeant, UNCHANGED <<rg_state, rg_receivers>>,
             UNCHANGED clockVars,
             rep_counter_' = 0 =>
               rep_counter_ = 0 /\ Head(mbox[Executor]).type # "serial",
             Executor \in configured' => nsteps_' = Links,
             ct_hops' \in {0, Links + 2}
      PROVE  Prepared'
  <2>1. Due'
    BY <1>1, DueStep DEF Prepared
  <2>2. Ready'
    BY <1>1 DEF Prepared, Ready, Links
  <2> QED BY <1>1, <2>1, <2>2 DEF Prepared, NoCrash
<1>2. CASE Crash /\ (Serial \/ SerialKill \/ Parallel \/ ParallelKill)
  <2>1. ~ (ChainsNumber > 0)
    BY <1>2, ExecutorSafe
  <2>2. ~ (\E alive, pending, out : Step(Executor, out, alive, pending))
    <3>1. process = "running" /\ process' = "crashed"
      BY <1>2 DEF Serial, SerialKill, Parallel, ParallelKill, Receives, Crash
    <3> QED BY <3>1 DEF Step
  <2>3. UNCHANGED <<mbox, timers, live, heads_, rep_counter_, configured, nsteps_, ct_hops,
                    rg_state, rg_receivers>> /\ UNCHANGED clockVars
    BY <1>2, <2>2 DEF Serial, SerialKill, Parallel, ParallelKill, Crash, Handled, rgVars,
       countVars
  <2>4. Due'
    BY <2>3, StillDue DEF Prepared
  <2>5. Ready'
    BY <2>3 DEF Prepared, Ready, Links
  <2> QED BY <2>1, <2>4, <2>5 DEF Prepared
<1>k. \A k \in {"serial_kill", "parallel_kill"} : \A x : Later(Executor, x) = Later(Executor, k) => x = k
  BY DEF Later
<1>3. CASE ExecInit /\ Sends(Executor, {})
  <2>1. Head(mbox[Executor]).type # "serial"
    BY <1>3 DEF ExecInit, Receives
  <2> QED BY <1>1, <1>3, <2>1 DEF ExecInit, Handled, Step, rgVars, Prepared, Ready
<1>4. CASE /\ Sysconfig
           /\ Sends(Executor, IF Len(heads_) = ChainsNumber THEN {BenchmarkSignal.type}
                                                           ELSE {"make_linear_chain"})
  <2>1. BenchmarkSignal.type \in {"serial_benchmark", "parallel_benchmark"}
    BY DEF BenchmarkSignal, Signal
  <2>2. Sends(Executor, {BenchmarkSignal.type, "make_linear_chain"})
    BY <1>4, SendsMore
  <2>3. Head(mbox[Executor]).type # "serial" /\ UNCHANGED <<live, timers, process>>
    BY <1>4 DEF Sysconfig, Receives, Handled, Step
  <2>4. {BenchmarkSignal.type, "make_linear_chain"} \cap SerialType = {}
    BY <2>1 DEF SerialType
  <2> QED BY <1>1, <1>4, <2>1, <2>2, <2>3, <2>4 DEF Sysconfig, execVars, rgVars, Prepared, Ready
<1>5. CASE SystemBuilding /\ Sends(Executor, {"sysconfig"})
  <2>1. Receives(Executor, "system_building") /\ UNCHANGED <<live, timers, process>>
    BY <1>5 DEF SystemBuilding, Handled, Step
  <2>2. ~ SerialMeant
    <3>1. Executor \in Builder /\ ~ Started
      BY <2>1, StartedHead DEF Builder, BuildType, OneChainAtATime
    <3>2. ~ KillDue("serial_kill")
      BY <3>1, NothingDue DEF OneChainAtATime
    <3> QED BY <3>1, <3>2 DEF OneRound, SerialMeant
  <2>3. {"sysconfig"} \cap SerialType = {}
    BY DEF SerialType
  <2> QED BY <1>0, <1>1, <1>5, <2>1, <2>2, <2>3 DEF SystemBuilding, countVars, rgVars, Prepared,
     Ready
<1>6. CASE Serial /\ heads_ # <<>> /\ Sends(Executor, {"weightless"})
  <2>1. Receives(Executor, "serial") /\ UNCHANGED <<live, timers, process>>
    BY <1>6 DEF Serial, Handled, Step
  <2>2. SerialMeant
    <3>1. <<Executor, 1>> \in SerialPlaces
      <4>1. mbox[Executor] \in Seq(Message)
        BY <1>0 DEF Typed, SystemTypeOK
      <4>2. 1 \in DOMAIN mbox[Executor] /\ mbox[Executor][1].type = "serial"
        BY <2>1, <4>1 DEF Receives
      <4> QED BY <1>0, <4>2, PlacesAre DEF SerialType
    <3> QED BY <3>1 DEF SerialMeant
  <2>3. rep_counter_' # 0
    BY <1>6, MaxRepsAssumption DEF Serial, RepsAfter, Typed, ExecTypeOK
  <2> QED BY <1>1, <1>6, <2>1, <2>2, <2>3 DEF Serial, rgVars, Prepared, Ready
<1>7. CASE (\E t \in {"serial_update_metrics", "parallel_update_metrics"} : UpdateMetrics(t))
           /\ Sends(Executor, {})
  <2>1. PICK t \in {"serial_update_metrics", "parallel_update_metrics"} : UpdateMetrics(t)
    BY <1>7
  <2>2. /\ Receives(Executor, t) /\ UNCHANGED <<live, process>>
        /\ timers' = timers \cup {Later(Executor, t)}
    BY <2>1 DEF UpdateMetrics, Step
  <2>3. Head(mbox[Executor]).type # "serial"
    BY <1>0, <2>2
  <2> QED BY <1>1, <1>7, <1>k, <2>1, <2>2, <2>3 DEF UpdateMetrics, execVars, rgVars, Prepared, Ready
<1>8. CASE (\E t \in FinalType : Sends(Executor, {t, "topo_kill", "kill"}))
           /\ (SerialKill \/ ParallelKill) /\ ~ Crash
  <2>1. PICK t \in FinalType : Sends(Executor, {t, "topo_kill", "kill"})
    BY <1>8
  <2>2. {t, "topo_kill", "kill"} \cap (SerialType \cup {"serial_kill", "parallel_kill"}) = {}
    BY DEF FinalType, SerialType
  <2>3. /\ UNCHANGED <<live, process, rep_counter_, rg_state, rg_receivers, nsteps_, ct_hops,
                       configured>>
        /\ timers' = timers \cup {Later(Executor, "end")}
        /\ Head(mbox[Executor]).type # "serial" /\ UNCHANGED clockVars
    BY <1>8 DEF SerialKill, ParallelKill, Step, countVars, rgVars, Receives
  <2>4. UNCHANGED heads_ \/ ~ SerialMeant
    <3>1. CASE SerialKill
      BY <3>1 DEF SerialKill
    <3>2. CASE ParallelKill
      BY <1>0, <3>2 DEF ParallelKill, Prepared, Due, KillDue
    <3> QED BY <1>8, <3>1, <3>2
  <2> QED BY <1>1, <1>k, <2>1, <2>2, <2>3, <2>4 DEF Prepared, Ready
<1>9. CASE Parallel /\ Summable(Head(mbox[Executor]).hops) /\ Sends(Executor, {})
  <2>1. Receives(Executor, "parallel") /\ UNCHANGED <<live, timers, process>>
        /\ ct_hops' \in {ct_hops, Head(mbox[Executor]).hops}
    BY <1>9 DEF Parallel, Handled, Step
  <2>2. Head(mbox[Executor]).hops = Links + 2
    BY <1>0, <2>1, HeadRouted DEF ProbeType, OnRoute
  <2> QED BY <1>0, <1>1, <1>9, <2>1, <2>2 DEF Parallel, rgVars, Prepared, Ready
<1>10. CASE End /\ Sends(Executor, {})
  <2>1. Head(mbox[Executor]).type # "serial"
    BY <1>10 DEF End, Receives
  <2> QED BY <1>1, <1>10, <2>1 DEF End, Step, execVars, rgVars, Prepared, Ready
<1>11. CASE SerialBenchmark \/ ParallelBenchmark
  BY <1>11, StartPrepared
<1>12. CASE /\ SerialKill /\ Divides
            /\ Sends(Executor, {IF IsCrossTimes THEN "serial_collect_xtimes"
                                               ELSE "serial_collect", "topo_kill", "kill"})
  <2>1. UNCHANGED process /\ process = "running"
    BY <1>12 DEF SerialKill, Divides, Step, Receives
  <2>2. ~ Crash
    BY <2>1 DEF Crash
  <2> QED BY <1>8, <1>12, <2>2 DEF FinalType
<1>13. CASE /\ ParallelKill /\ nsteps_ # 0
            /\ Sends(Executor, {IF IsCrossTimes THEN "rec_collect_xtimes"
                                               ELSE "rec_collect", "topo_kill", "kill"})
  <2>1. UNCHANGED process /\ process = "running"
    BY <1>13 DEF ParallelKill, Step, Receives
  <2>2. ~ Crash
    BY <2>1 DEF Crash
  <2> QED BY <1>8, <1>13, <2>2 DEF FinalType
<1> HIDE DEF ExecutorMoves
<1> QED
  BY <1>2, <1>3, <1>4, <1>5, <1>6, <1>7, <1>9, <1>10, <1>11, <1>12, <1>13, ExecutorSending

\* Every step leaves prepared what the handlers rely on.
LEMMA NextPrepared ==
  ASSUME Typed, Startup, OneChainAtATime, OneRound, Routed, Prepared, [Next]_vars
  PROVE  Prepared'
<1>0. Null # Executor /\ TopoBuilder # Executor /\ Collector # Executor
      /\ Executor \notin ChainActor \cup PoolActor /\ Known
  BY NullNotActor, MainActorsAreActors, ActorKinds, ActorAssumption DEF MainActor, OneChainAtATime
<1>1. ASSUME NEW self, NEW types, Sends(self, types), self # Executor, Others,
             types \cap SerialType = {}, types \cap {"serial_kill", "parallel_kill"} = {},
             UNCHANGED rgVars \/ RgMoves
      PROVE  Prepared'
  BY <1>1, OthersPrepared
<1>2. CASE MainStep
  <2>1. MainType \cap SerialType = {} /\ MainType \cap {"serial_kill", "parallel_kill"} = {}
    BY DEF MainType, SerialType
  <2> QED BY <1>0, <1>1, <1>2, <2>1, MainSending, OthersMove DEF MainStep
<1>3. CASE RgMoves
  <2>1. Others
    BY <1>3, OthersMove
  <2>2. CASE (RgStart \/ RgFirstHop) /\ UNCHANGED mbox
    <3>1. UNCHANGED timers
      BY <2>2 DEF RgStart, RgFirstHop, Crash, Undefined
    <3> QED BY <1>3, <2>1, <2>2, <3>1, StillPrepared
  <2> QED BY <1>0, <1>1, <1>3, <2>1, <2>2, RgSending DEF SerialType
<1>4. ASSUME NEW a \in ChainActor, ChainMoves(a) PROVE Prepared'
  <2>0. a \in Actor /\ a # Executor /\ Others /\ UNCHANGED rgVars
    BY <1>0, <1>4, OthersMove DEF ChainMoves, Actor
  <2>1. ASSUME NEW s \in {"weightless", "weightless_back"}, Receives(a, s) PROVE SerialMeant
    <3>1. mbox[a] \in Seq(Message) /\ mbox[a] # <<>> /\ Head(mbox[a]).type = s
      BY <2>0, <2>1 DEF Typed, SystemTypeOK, Receives
    <3>2. 1 \in DOMAIN mbox[a] /\ mbox[a][1].type \in SerialType
      BY <3>1 DEF SerialType
    <3> QED BY <2>0, <3>2, PlacesAre DEF SerialMeant
  <2>2. CASE /\ \E s \in {"weightless", "weightless_back"} : Receives(a, s)
             /\ Sends(a, SerialType \cup {"detached_msg"})
    BY <2>0, <2>1, <2>2, OthersPrepared DEF SerialType
  <2>3. CASE \E types : /\ Sends(a, types) /\ types \cap SerialType = {}
                        /\ types \cap {"serial_kill", "parallel_kill"} = {}
    BY <1>1, <2>0, <2>3
  <2>4. /\ {"init_bench_reply"} \cap (SerialType \cup {"serial_kill", "parallel_kill"}) = {}
        /\ {"kill"} \cap (SerialType \cup {"serial_kill", "parallel_kill"}) = {}
        /\ {"timed_msg", "timed_msg_back", "parallel", "detached_msg"}
             \cap (SerialType \cup {"serial_kill", "parallel_kill"}) = {}
    BY DEF SerialType
  <2>5. \A types : types \cap (SerialType \cup {"serial_kill", "parallel_kill"}) = {} =>
          types \cap SerialType = {} /\ types \cap {"serial_kill", "parallel_kill"} = {}
    OBVIOUS
  <2> QED BY <1>0, <1>4, <2>2, <2>3, <2>4, <2>5, ChainSending
<1>5. ASSUME NEW p \in PoolActor, PoolMoves(p) PROVE Prepared'
  <2>1. {"init_detached_reply"} \cap SerialType = {}
    BY DEF SerialType
  <2> QED BY <1>0, <1>1, <1>5, <2>1, PoolSending, OthersMove DEF PoolMoves
<1>6. CASE TopoMoves
  <2>1. {"init_detached", "init_bench", "system_building"} \cap SerialType = {}
    BY DEF SerialType
  <2> QED BY <1>0, <1>1, <1>6, <2>1, TopoSending, OthersMove DEF TopoMoves
<1>7. CASE CollectorMoves
  <2>1. Others /\ UNCHANGED rgVars
    BY <1>7, OthersMove DEF CollectorMoves
  <2>2. CASE BenchmarkKill /\ UNCHANGED mbox
    BY <2>1, <2>2, StillPrepared DEF BenchmarkKill
  <2> QED BY <1>0, <1>1, <1>7, <2>1, <2>2, CollectorSending
<1>8. ASSUME NEW t \in Timer, ClockMoves(t) PROVE Prepared'
  <2>1. Others /\ UNCHANGED rgVars /\ Sends(Null, {t.type}) /\ t \in timers
    BY <1>8, OthersMove, ClockSending DEF ClockMoves, Fire
  <2>2. {t.type} \cap SerialType = {}
    BY DEF Timer, SerialType
  <2>3. \A k \in {"serial_kill", "parallel_kill"} : k \in {t.type} => Later(Executor, k) = t
    BY DEF Timer, Later
  <2>4. "serial_kill" \in {t.type} => kill_waits = Duration
    BY <1>8, <2>3 DEF ClockMoves, Elapsed, KillTimer
  <2> QED BY <1>0, <2>1, <2>2, <2>3, <2>4, OthersPrepared
<1>9. CASE ExecutorMoves
  BY <1>9, ExecutorPrepared
<1>10. CASE UNCHANGED vars
  <2>1. UNCHANGED <<mbox, timers, live, process, configured, execVars, rgVars, clockVars>>
    BY <1>10 DEF vars, worldVars, systemVars, execVars, rgVars, clockVars
  <2> QED BY <2>1, StillPrepared DEF Others
<1>11. CASE TimePasses
  <2>1. /\ UNCHANGED <<mbox, timers, live, process, configured, heads_, nsteps_, rep_counter_,
                       ct_hops, rg_state, rg_receivers>>
        /\ kill_waits < Duration /\ kill_waits' = kill_waits + 1
        /\ total_latency_' = total_latency_ + 1
    BY <1>11 DEF TimePasses, SecondPasses, worldVars, systemVars, execVars, rgVars
  <2>2. InTime'
    BY <2>1, ConfigAssumption DEF Prepared, Due, InTime, ClockTypeOK, Has, Contents, KillTimer,
       Later
  <2>3. Due'
    BY <2>1, <2>2 DEF Prepared, Due, SerialMeant, KillDue, KillBehind, Has, Contents,
       SerialPlaces, Later
  <2> QED BY <2>1, <2>3 DEF Prepared, Ready, Links, NoCrash
<1> QED
  BY <1>2, <1>3, <1>4, <1>5, <1>6, <1>7, <1>8, <1>9, <1>10, <1>11 DEF Next, Terminated

\* At the beginning nothing is due.
LEMMA InitPrepared == ASSUME Init PROVE Prepared
<1>1. /\ \A a \in Actor : mbox[a] = <<>>
      /\ timers = {} /\ configured = {} /\ rg_state = "absent" /\ ct_hops = 0
      /\ process = "running"
  BY DEF Init, SystemInit, ExecInitState, RgInit
<1>2. DOMAIN <<>> = {} /\ Executor \in Actor
  BY MainActorsAreActors
<1>3. SerialPlaces = {}
  BY <1>1, <1>2, PlacesAre
<1>4. \A k : ~ KillDue(k)
  BY <1>1, <1>2 DEF KillDue, Has, Contents, ToSet
<1>5. KillBehind
  BY <1>1, <1>2 DEF KillBehind
<1>6. InTime
  <2>1. total_latency_ = 0 /\ kill_waits = 0
    BY DEF Init, ExecInitState
  <2> QED BY <1>1, <1>4, <2>1, ConfigAssumption DEF InTime, ClockTypeOK, KillDue, KillTimer
<1> QED BY <1>1, <1>3, <1>4, <1>5, <1>6 DEF Prepared, Ready, Due, SerialMeant, NoCrash

(***************************************************************************)
(* With at least one chain, for every number and length of chains, both    *)
(* benchmarks, every configuration and every interleaving: no handler      *)
(* divides by zero or by less than a whole second, looks for a receiver    *)
(* where there is none or throws where it must not.  Without a chain,      *)
(* which main() does not rule out, the rate generator and serial_a do      *)
(* subscript an empty vector.  The undefined read of the first hop         *)
(* (RgFirstHop) is an outcome of its own.                                  *)
(***************************************************************************)
THEOREM NeverCrashes == Spec => [](ChainsNumber > 0 => NoCrash)
<1>1. Prepared => (ChainsNumber > 0 => NoCrash)
  BY DEF Prepared
<1>2. Typed /\ Startup /\ OneChainAtATime /\ OneRound /\ Routed /\ Prepared /\ [Next]_vars
        => Prepared'
  BY NextPrepared
<1> QED BY <1>1, <1>2, InitPrepared, AlwaysMeasuring, PTL DEF Spec
-----------------------------------------------------------------------------
(***************************************************************************)
(* The one result of a benchmark, for every interleaving of the clock with *)
(* the actors.                                                             *)
(*                                                                         *)
(* Neither OnePending nor OneResult is inductive: that the kill is due     *)
(* once says nothing of the result it has already sent.  The invariant     *)
(* Once counts: a delayed message is pending as often as it is on the      *)
(* clock and in the mailbox; the kills of the benchmark, the results that  *)
(* are under way and the lines that are written are one together, before   *)
(* the benchmark starts none, and the message that ends the process        *)
(* follows a line.                                                         *)
(***************************************************************************)

\* How often a delayed message is pending.
Pend(t) == (IF t \in timers THEN 1 ELSE 0) + Count(mbox[t.to], t.type)

\* The kills of the benchmark, and the results, that are under way.
Kills == Pend(Later(Executor, "serial_kill")) + Pend(Later(Executor, "parallel_kill"))
ResultType ==
  IF ~ IsParallel THEN "serial_collect"
  ELSE IF IsCrossTimes THEN "rec_collect_xtimes" ELSE "rec_collect"
Finals == Count(mbox[Collector], ResultType)

Once ==
  /\ \A t \in Timer : Pend(t) <= 1
  /\ Kills + Pend(Later(Executor, "end")) <= 1
  /\ Kills + Finals + Len(rows) <= 1
  /\ Pend(ResultTimer) <= Len(rows)
  /\ ~ Started => Finals = 0 /\ rows = <<>>
  /\ process = "exited" => Len(rows) = 1

\* The collector is initialised once.
RcInits == Count(mbox[Collector], "rc_init")
InitOnce ==
  /\ RcInits <= 1
  /\ main_pc < 2 \/ Collector \in configured => RcInits = 0
  /\ Collector \notin configured => Pend(InitTimer) = 0

\* Each kind of benchmark has its kind of result.
Kinds ==
  /\ KillDue("serial_kill") => ~ SerialRefuses
  /\ \A t \in FinalType : Has(Collector, t) =>
       t = ResultType /\ (~ IsParallel => ~ SerialRefuses)
  /\ ~ IsParallel => rg_state = "absent" /\ ~ Has(Collector, "send_collect")

\* The line of a serial benchmark.
SerialLine ==
  ~ IsParallel =>
    /\ header \in {<<>>, Header}
    /\ Collector \in configured /\ rows = <<>> => row = <<"number of actors">>
    /\ \A i \in DOMAIN rows : rows[i] = Header

Results == Once /\ InitOnce /\ Kinds /\ SerialLine

-----------------------------------------------------------------------------
(* Counting what is pending.                                               *)

\* A delayed message is known by its type.
LEMMA Timers ==
  /\ \A t \in Timer : t.to \in Actor /\ t.to \in {Executor, Collector} /\ t = Later(t.to, t.type)
  /\ \A t, u \in Timer : t.type = u.type => t = u
  /\ {Later(Executor, k) : k \in {"serial_update_metrics", "serial_kill",
                                  "parallel_update_metrics", "parallel_kill", "end"}}
       \subseteq Timer
  /\ InitTimer \in Timer /\ ResultTimer \in Timer
  /\ \A a, k : Later(a, k).to = a /\ Later(a, k).type = k
BY MainActorsAreActors DEF Timer, Later, InitTimer, ResultTimer

\* How a step changes the count of the messages of a type: what is taken is one
\* less, what is sent is at most one more.
LEMMA CountMoves ==
  ASSUME Typed, NEW self, NEW types, Sends(self, types), NEW a \in Actor, NEW k
  PROVE  /\ Count(mbox[a], k) \in Nat /\ Count(mbox'[a], k) \in Nat
         /\ Count(mbox'[a], k) <= Count(mbox[a], k) + 1
         /\ k \notin types => Count(mbox'[a], k) <= Count(mbox[a], k)
         /\ k \notin types /\ a = self /\ Head(mbox[a]).type = k
              => Count(mbox'[a], k) <= Count(mbox[a], k) - 1
<1> DEFINE taken == IF a = self /\ Head(mbox[a]).type = k THEN 1 ELSE 0
<1>0. PICK out : /\ Parcel(out) /\ Arrives(self, out)
                 /\ \A b \in Actor : \A m : out[b] = <<m>> => m.type \in types
  BY DEF Sends
<1>1. SystemTypeOK /\ mbox[a] \in Seq(Message) /\ mbox'[a] = Delivered(self, out, live', a)
  BY <1>0 DEF Typed, SystemTypeOK, Arrives
<1>2. Count(mbox[a], k) \in Nat /\ taken \in Nat /\ taken <= Count(mbox[a], k)
  <2>1. Count(mbox[a], k) \in Nat
    BY <1>1, CountTyped
  <2>2. ASSUME a = self, Head(mbox[a]).type = k PROVE 1 <= Count(mbox[a], k)
    <3>1. mbox[a] # <<>>
      BY <1>0, <2>2 DEF Arrives
    <3>2. 1 \in DOMAIN mbox[a] /\ mbox[a][1].type = k
      BY <1>1, <2>2, <3>1
    <3>3. Count(mbox[a], k) # 0
      BY <1>1, <3>2, CountTyped
    <3> QED BY <2>1, <3>3
  <2> QED BY <2>1, <2>2
<1>3. CASE a \notin live'
  <2>1. Count(mbox'[a], k) = 0
    BY <1>1, <1>3, CountEmpty DEF Delivered
  <2> QED BY <1>2, <2>1
<1>4. CASE a \in live'
  <2> DEFINE sent == IF \E m : out[a] = <<m>> /\ m.type = k THEN 1 ELSE 0
  <2>1. Count(mbox'[a], k) = Count(mbox[a], k) - taken + sent
    <3>1. Count(mbox'[a], k) =
            Count(mbox[a], k) - (IF a = self /\ Head(mbox[a]).type = k THEN 1 ELSE 0)
                              + (IF \E m : out[a] = <<m>> /\ m.type = k THEN 1 ELSE 0)
      <4>1. SystemTypeOK /\ Parcel(out) /\ Arrives(self, out) /\ a \in live'
        BY <1>0, <1>1, <1>4
      <4> QED BY <4>1, CountStep
    <3> QED BY <3>1
  <2>2. sent \in {0, 1} /\ (k \notin types => sent = 0)
    BY <1>0
  <2>3. a = self /\ Head(mbox[a]).type = k => taken = 1
    OBVIOUS
  <2> HIDE DEF taken, sent
  <2> QED BY <1>2, <2>1, <2>2, <2>3
<1> QED BY <1>3, <1>4

\* What is pending is counted by a number.
LEMMA PendTyped == ASSUME Typed, NEW t \in Timer PROVE Pend(t) \in Nat
<1>1. mbox[t.to] \in Seq(Message)
  BY Timers DEF Typed, SystemTypeOK
<1> QED BY <1>1, CountTyped DEF Pend

\* How a step changes what is pending.
LEMMA PendMoves ==
  ASSUME Typed, NEW self, NEW types, Sends(self, types), NEW t \in Timer
  PROVE  /\ Pend(t) \in Nat /\ Pend(t)' \in Nat
         /\ t.type \notin types => Pend(t)' <= Pend(t) + 1
         /\ /\ t.type \in types => t \in timers /\ t \notin timers'
            /\ t \in timers' => t \in timers \/ (self = t.to /\ Head(mbox[self]).type = t.type)
            => Pend(t)' <= Pend(t)
         /\ /\ t.type \notin types /\ self = t.to /\ Head(mbox[self]).type = t.type
            /\ t \in timers' => t \in timers
            => Pend(t)' <= Pend(t) - 1
<1> DEFINE c == Count(mbox[t.to], t.type)
           d == Count(mbox'[t.to], t.type)
           x == IF t \in timers THEN 1 ELSE 0
           y == IF t \in timers' THEN 1 ELSE 0
<1>1. /\ c \in Nat /\ d \in Nat /\ d <= c + 1
      /\ t.type \notin types => d <= c
      /\ t.type \notin types /\ t.to = self /\ Head(mbox[t.to]).type = t.type => d <= c - 1
  BY Timers, CountMoves
<1>2. Pend(t) = x + c /\ Pend(t)' = y + d
  BY DEF Pend
<1> HIDE DEF c, d
<1> QED BY <1>1, <1>2

-----------------------------------------------------------------------------
(* The steps that start, stop and finish nothing.                          *)

\* The results are named by their messages.
LEMMA Finality ==
  /\ ResultType \in FinalType
  /\ \A t \in Timer : t.type \notin FinalType \cup {"rc_init"}
  /\ "rc_init" \notin FinalType
BY DEF ResultType, FinalType, Timer

\* A step that sends nothing of the results, and starts a delayed message again
\* only when it has taken it.
LEMMA QuietOnce ==
  ASSUME Typed, Once, InitOnce, NEW self, NEW types, Sends(self, types),
         types \cap FinalType = {}, "rc_init" \notin types,
         \A t \in Timer :
           /\ t.type \in types => t \in timers /\ t \notin timers'
           /\ t \in timers' => t \in timers \/ (self = t.to /\ Head(mbox[self]).type = t.type),
         UNCHANGED rows, process' = "exited" => process = "exited", Started => Started',
         main_pc' < 2 => main_pc < 2,
         Collector \in configured' <=> Collector \in configured
  PROVE  Once' /\ InitOnce'
<1>1. Collector \in Actor
  BY MainActorsAreActors
<1>2. \A t \in Timer : Pend(t) \in Nat /\ Pend(t)' \in Nat /\ Pend(t)' <= Pend(t)
  BY PendMoves
<1>3. Finals \in Nat /\ Finals' \in Nat /\ Finals' <= Finals
  BY <1>1, CountMoves, Finality DEF Finals
<1>4. RcInits \in Nat /\ RcInits' \in Nat /\ RcInits' <= RcInits
  BY <1>1, CountMoves DEF RcInits
<1> DEFINE k1 == Later(Executor, "serial_kill")
           k2 == Later(Executor, "parallel_kill")
           k3 == Later(Executor, "end")
<1>5. k1 \in Timer /\ k2 \in Timer /\ k3 \in Timer /\ ResultTimer \in Timer /\ InitTimer \in Timer
  BY Timers
<1>6. Kills \in Nat /\ Kills' \in Nat /\ Kills' <= Kills
  <2>1. Kills = Pend(k1) + Pend(k2) /\ Kills' = Pend(k1)' + Pend(k2)'
    BY DEF Kills, Later
  <2> HIDE DEF k1, k2
  <2> QED BY <1>2, <1>5, <2>1
<1>7. Pend(k3) \in Nat /\ Pend(k3)' \in Nat /\ Pend(k3)' <= Pend(k3)
  BY <1>2, <1>5
<1>8. Len(rows) \in Nat /\ Len(rows') = Len(rows)
  BY DEF Typed, CollectorTypeOK
<1>9. Once'
  <2>1. \A t \in Timer : Pend(t)' <= 1
    BY <1>2 DEF Once
  <2>2. Kills' + Pend(k3)' <= 1
    BY <1>6, <1>7 DEF Once
  <2>3. Kills' + Finals' + Len(rows') <= 1
    BY <1>3, <1>6, <1>8 DEF Once
  <2>4. Pend(ResultTimer)' <= Len(rows')
    BY <1>2, <1>5, <1>8 DEF Once
  <2>5. ~ Started' => Finals' = 0 /\ rows' = <<>>
    BY <1>3 DEF Once
  <2>6. process' = "exited" => Len(rows') = 1
    BY <1>8 DEF Once
  <2>7. Pend(Later(Executor, "end"))' = Pend(k3)'
    BY DEF Later
  <2> QED BY <2>1, <2>2, <2>3, <2>4, <2>5, <2>6, <2>7 DEF Once
<1>10. InitOnce'
  <2>1. Pend(InitTimer) \in Nat /\ Pend(InitTimer)' \in Nat /\ Pend(InitTimer)' <= Pend(InitTimer)
    BY <1>2, <1>5
  <2> QED BY <1>4, <2>1 DEF InitOnce
<1> QED BY <1>9, <1>10

\* What leaves mailboxes and clocks alone.
LEMMA StillOnce ==
  ASSUME Once, InitOnce, UNCHANGED <<mbox, timers, rows, main_pc, configured>>,
         process' = "exited" => process = "exited" \/ Len(rows) = 1, Started => Started'
  PROVE  Once' /\ InitOnce'
<1>1. \A t : Pend(t)' = Pend(t)
  BY DEF Pend
<1>2. Kills' = Kills /\ Pend(Later(Executor, "end"))' = Pend(Later(Executor, "end"))
  BY <1>1 DEF Kills, Later
<1>3. Finals' = Finals /\ RcInits' = RcInits
  BY DEF Finals, RcInits
<1>4. Pend(ResultTimer)' = Pend(ResultTimer) /\ Pend(InitTimer)' = Pend(InitTimer)
  BY <1>1
<1> QED BY <1>1, <1>2, <1>3, <1>4 DEF Once, InitOnce

-----------------------------------------------------------------------------
(* The steps that start, stop and finish the benchmark.                    *)

\* Before the benchmark starts nothing of it is pending.
LEMMA NothingPending ==
  ASSUME Typed, Building, Stage, NEW t \in Timer, t.to = Executor PROVE Pend(t) = 0
<1>1. t \notin timers
  BY DEF Building
<1>2. mbox[Executor] \in Seq(Message)
  BY MainActorsAreActors DEF Typed, SystemTypeOK
<1>3. t.type \in {"serial_update_metrics", "serial_kill", "parallel_update_metrics",
                  "parallel_kill", "end"}
  BY ActorAssumption DEF Timer
<1>4. \A m \in Contents(Executor) :
        m.type \in {"exec_init", "sysconfig", "system_building", "serial_benchmark",
                    "parallel_benchmark"}
  BY BeforeStart
<1>5. \A i \in DOMAIN mbox[Executor] : mbox[Executor][i].type # t.type
  BY <1>3, <1>4 DEF Contents, ToSet
<1>6. Count(mbox[Executor], t.type) = 0
  BY <1>2, <1>5, CountTyped
<1> QED BY <1>1, <1>6 DEF Pend

\* The actor that takes a message has counted it.
LEMMA TakenCounted ==
  ASSUME Typed, NEW a \in Actor, NEW k, Receives(a, k)
  PROVE  Count(mbox[a], k) \in Nat /\ Count(mbox[a], k) >= 1 /\ Has(a, k)
<1>1. mbox[a] \in Seq(Message) /\ mbox[a] # <<>> /\ Head(mbox[a]).type = k
  BY DEF Typed, SystemTypeOK, Receives
<1>2. 1 \in DOMAIN mbox[a] /\ mbox[a][1].type = k
  BY <1>1
<1>3. Count(mbox[a], k) \in Nat /\ Count(mbox[a], k) # 0
  BY <1>1, <1>2, CountTyped
<1>4. Has(a, k)
  BY <1>2 DEF Has, Contents, ToSet
<1> QED BY <1>3, <1>4

\* A due kill is pending, and the benchmark has started then.
LEMMA KillPending ==
  ASSUME Typed, NEW k \in {"serial_kill", "parallel_kill"}, Receives(Executor, k)
  PROVE  Pend(Later(Executor, k)) >= 1
<1>1. /\ Later(Executor, k).to = Executor /\ Later(Executor, k).type = k
      /\ Later(Executor, k) \in Timer /\ Executor \in Actor
  BY Timers, MainActorsAreActors
<1>2. Count(mbox[Executor], k) \in Nat /\ Count(mbox[Executor], k) >= 1
  BY <1>1, TakenCounted
<1> QED BY <1>1, <1>2 DEF Pend

\* The benchmark starts with its clocks.
LEMMA StartOnce ==
  ASSUME Typed, Once, InitOnce, Building, Stage, ~ Started, Started',
         NEW k \in {"serial_kill", "parallel_kill"}, NEW types, Sends(Executor, types),
         types \subseteq {"serial"},
         \A t \in timers' : \/ t \in timers
                            \/ t \in Timer /\ t.to = Executor /\ t.type # "end"
                                           /\ (t.type \in {"serial_kill", "parallel_kill"}
                                                 => t.type = k),
         UNCHANGED <<rows, process, main_pc, configured>>
  PROVE  Once' /\ InitOnce'
<1> DEFINE k1 == Later(Executor, "serial_kill")
           k2 == Later(Executor, "parallel_kill")
           k3 == Later(Executor, "end")
<1>1. /\ Collector \in Actor /\ Executor # Collector
      /\ \A t \in Timer : t.type \notin types
      /\ ResultType \notin types /\ "rc_init" \notin types
  BY MainActorsAreActors, ActorAssumption DEF Timer, ResultType
<1>2. /\ k1 \in Timer /\ k2 \in Timer /\ k3 \in Timer /\ ResultTimer \in Timer
      /\ InitTimer \in Timer
      /\ k1.to = Executor /\ k2.to = Executor /\ k3.to = Executor
      /\ k1.type = "serial_kill" /\ k2.type = "parallel_kill" /\ k3.type = "end"
      /\ ResultTimer.to = Collector /\ InitTimer.to = Collector
  BY Timers DEF ResultTimer, InitTimer
<1>3. \A t \in Timer : /\ Pend(t) \in Nat /\ Pend(t)' \in Nat /\ Pend(t)' <= Pend(t) + 1
                       /\ (t \in timers' => t \in timers) => Pend(t)' <= Pend(t)
  BY <1>1, PendMoves
<1>4. \A t \in Timer : t.to = Executor => Pend(t) = 0
  BY NothingPending
<1>5. Finals = 0 /\ rows = <<>> /\ Len(rows) = 0
  BY DEF Once
<1>6. Finals' = 0
  <2>1. Finals \in Nat /\ Finals' \in Nat /\ Finals' <= Finals
    BY <1>1, CountMoves DEF Finals
  <2> QED BY <1>5, <2>1
<1>7. \A t \in Timer : t.to # Executor => Pend(t)' <= Pend(t)
  BY <1>3
<1>8. Pend(k3)' = 0 /\ (Pend(k1)' = 0 \/ Pend(k2)' = 0)
  <2>1. k3 \in timers' => k3 \in timers
    BY <1>2
  <2>2. (k1 \in timers' => k1 \in timers) \/ (k2 \in timers' => k2 \in timers)
    BY <1>2
  <2> HIDE DEF k1, k2, k3
  <2>3. Pend(k3)' <= 0 /\ (Pend(k1)' <= 0 \/ Pend(k2)' <= 0)
    BY <1>2, <1>3, <1>4, <2>1, <2>2
  <2> QED BY <1>2, <1>3, <2>3
<1>9. \A t \in Timer : Pend(t)' <= 1
  BY <1>3, <1>4, <1>7 DEF Once
<1>10. Kills' = Pend(k1)' + Pend(k2)' /\ Pend(Later(Executor, "end"))' = Pend(k3)'
  BY DEF Kills, Later
<1> HIDE DEF k1, k2, k3
<1>11. Kills' \in Nat /\ Kills' <= 1 /\ Kills' + Pend(k3)' <= 1
  BY <1>2, <1>3, <1>8, <1>9, <1>10
<1>12. Pend(ResultTimer)' <= Len(rows')
  BY <1>1, <1>2, <1>3, <1>5, <1>7 DEF Once
<1>13. Once'
  BY <1>5, <1>6, <1>9, <1>10, <1>11, <1>12 DEF Once
<1>14. RcInits \in Nat /\ RcInits' \in Nat /\ RcInits' <= RcInits
  BY <1>1, CountMoves DEF RcInits
<1>15. Pend(InitTimer) \in Nat /\ Pend(InitTimer)' \in Nat /\ Pend(InitTimer)' <= Pend(InitTimer)
  BY <1>1, <1>2, <1>3, <1>7
<1>16. InitOnce'
  BY <1>14, <1>15 DEF InitOnce
<1> QED BY <1>13, <1>16

\* The kill is taken, the result is sent, and the end of the executor is set.
LEMMA KillOnce ==
  ASSUME Typed, Once, InitOnce, Started, Started',
         NEW k \in {"serial_kill", "parallel_kill"}, Receives(Executor, k),
         NEW types, Sends(Executor, types), types \cap FinalType \subseteq {ResultType},
         \A t \in Timer : t.type \notin types, "rc_init" \notin types,
         timers' = timers \cup {Later(Executor, "end")},
         UNCHANGED <<rows, process, main_pc, configured>>
  PROVE  Once' /\ InitOnce'
<1> DEFINE k0 == Later(Executor, k)
           k1 == Later(Executor, "serial_kill")
           k2 == Later(Executor, "parallel_kill")
           k3 == Later(Executor, "end")
<1>1. Collector \in Actor /\ Executor # Collector /\ Head(mbox[Executor]).type = k
  BY MainActorsAreActors, ActorAssumption DEF Receives
<1>2. /\ k1 \in Timer /\ k2 \in Timer /\ k3 \in Timer /\ ResultTimer \in Timer
      /\ InitTimer \in Timer
      /\ k0 \in {k1, k2} /\ k1 # k2 /\ k3 \notin {k1, k2, ResultTimer, InitTimer}
      /\ k0.to = Executor /\ k0.type = k
  BY <1>1, Timers DEF ResultTimer, InitTimer, Later
<1>3. \A t \in Timer : /\ Pend(t) \in Nat /\ Pend(t)' \in Nat /\ Pend(t)' <= Pend(t) + 1
                       /\ t # k3 => Pend(t)' <= Pend(t)
                       /\ t = k0 => Pend(t)' <= Pend(t) - 1
  <2> TAKE t \in Timer
  <2>1. t # k3 => (t \in timers' => t \in timers)
    OBVIOUS
  <2>2. t = k0 => t # k3 /\ t.to = Executor /\ t.type = k
    BY <1>2
  <2> HIDE DEF k0, k1, k2, k3
  <2> QED BY <1>1, <2>1, <2>2, PendMoves
<1>4. Finals \in Nat /\ Finals' \in Nat /\ Finals' <= Finals + 1
  BY <1>1, CountMoves DEF Finals
<1>5. Len(rows) \in Nat
  BY DEF Typed, CollectorTypeOK
<1>6. Kills = Pend(k1) + Pend(k2) /\ Kills' = Pend(k1)' + Pend(k2)'
      /\ Pend(Later(Executor, "end")) = Pend(k3) /\ Pend(Later(Executor, "end"))' = Pend(k3)'
  BY DEF Kills, Later
<1> HIDE DEF k0, k1, k2, k3
<1>7. Kills \in Nat /\ Kills' \in Nat /\ Kills >= 1 /\ Kills' <= Kills - 1
  <2>1. \A t \in {k1, k2} : Pend(t) \in Nat /\ Pend(t)' \in Nat /\ Pend(t)' <= Pend(t)
    BY <1>2, <1>3
  <2>2. Pend(k0)' \in Nat /\ Pend(k0)' <= Pend(k0) - 1
    BY <1>2, <1>3
  <2> QED BY <1>2, <1>6, <2>1, <2>2
<1>8. Pend(k3) \in Nat /\ Pend(k3)' \in Nat /\ Pend(k3)' <= Pend(k3) + 1
  BY <1>2, <1>3
<1>9. Kills + Pend(k3) <= 1 /\ Kills + Finals + Len(rows) <= 1
  BY <1>6 DEF Once
<1>10. Pend(k3)' <= 1 /\ Kills' + Pend(k3)' <= 1 /\ Kills' + Finals' + Len(rows) <= 1
  BY <1>4, <1>5, <1>7, <1>8, <1>9
<1>11. \A t \in Timer : Pend(t)' <= 1
  BY <1>3, <1>10 DEF Once
<1>12. Pend(ResultTimer)' <= Len(rows)
  BY <1>2, <1>3, <1>5 DEF Once
<1>13. Once'
  BY <1>6, <1>10, <1>11, <1>12 DEF Once
<1>14. RcInits \in Nat /\ RcInits' \in Nat /\ RcInits' <= RcInits
  BY <1>1, CountMoves DEF RcInits
<1>15. Pend(InitTimer) \in Nat /\ Pend(InitTimer)' \in Nat /\ Pend(InitTimer)' <= Pend(InitTimer)
  BY <1>2, <1>3
<1>16. InitOnce'
  BY <1>14, <1>15 DEF InitOnce
<1> QED BY <1>13, <1>16

\* The result is taken and its line is written; the message that ends the process
\* is set for the first time.
LEMMA FinalOnce ==
  ASSUME Typed, Once, InitOnce, Started => Started', Receives(Collector, ResultType),
         Sends(Collector, {}), timers' = timers \cup {ResultTimer}, NEW line,
         rows' = Append(rows, line), UNCHANGED <<process, main_pc, configured>>
  PROVE  Once' /\ InitOnce'
<1> DEFINE k3 == Later(Executor, "end")
<1>1. Collector \in Actor /\ Head(mbox[Collector]).type = ResultType
  BY MainActorsAreActors DEF Receives
<1>2. Finals \in Nat /\ Finals >= 1 /\ Finals' \in Nat /\ Finals' <= Finals - 1
  <2>1. Count(mbox[Collector], ResultType) >= 1
    BY <1>1, TakenCounted
  <2>2. ResultType \notin {}
    OBVIOUS
  <2>3. /\ Count(mbox[Collector], ResultType) \in Nat /\ Count(mbox'[Collector], ResultType) \in Nat
        /\ Count(mbox'[Collector], ResultType) <= Count(mbox[Collector], ResultType) - 1
    BY <1>1, <2>2, CountMoves
  <2> QED BY <2>1, <2>3 DEF Finals
<1>3. Len(rows) \in Nat /\ Len(rows') = Len(rows) + 1
  BY DEF Typed, CollectorTypeOK
<1>4. \A t \in Timer : /\ Pend(t) \in Nat /\ Pend(t)' \in Nat /\ Pend(t)' <= Pend(t) + 1
                       /\ t # ResultTimer => Pend(t)' <= Pend(t)
  <2> TAKE t \in Timer
  <2>1. t # ResultTimer => (t \in timers' => t \in timers)
    OBVIOUS
  <2> QED BY <2>1, PendMoves
<1>5. /\ Later(Executor, "serial_kill") \in Timer \ {ResultTimer, InitTimer}
      /\ Later(Executor, "parallel_kill") \in Timer \ {ResultTimer, InitTimer}
      /\ k3 \in Timer \ {ResultTimer, InitTimer}
      /\ ResultTimer \in Timer /\ InitTimer \in Timer \ {ResultTimer}
  BY Timers DEF ResultTimer, InitTimer, Later
<1>6. Kills \in Nat /\ Kills' \in Nat /\ Kills' <= Kills
  <2> DEFINE k1 == Later(Executor, "serial_kill")
             k2 == Later(Executor, "parallel_kill")
  <2>1. Kills = Pend(k1) + Pend(k2) /\ Kills' = Pend(k1)' + Pend(k2)'
    BY DEF Kills, Later
  <2>2. k1 \in Timer \ {ResultTimer} /\ k2 \in Timer \ {ResultTimer}
    BY <1>5
  <2> HIDE DEF k1, k2
  <2> QED BY <1>4, <2>1, <2>2
<1>7. Pend(Later(Executor, "end")) = Pend(k3) /\ Pend(Later(Executor, "end"))' = Pend(k3)'
  BY DEF Later
<1> HIDE DEF k3
<1>8. Pend(k3) \in Nat /\ Pend(k3)' \in Nat /\ Pend(k3)' <= Pend(k3)
  BY <1>4, <1>5
<1>9. Kills = 0 /\ Finals = 1 /\ Len(rows) = 0 /\ Started
  <2>1. Kills + Finals + Len(rows) <= 1
    BY DEF Once
  <2>2. Started
    BY <1>2 DEF Once
  <2> QED BY <1>2, <1>3, <1>6, <2>1, <2>2
<1>10. Pend(ResultTimer) = 0
  BY <1>4, <1>5, <1>9 DEF Once
<1>11. Pend(ResultTimer)' <= Len(rows')
  BY <1>3, <1>4, <1>5, <1>9, <1>10
<1>12. ASSUME NEW t \in Timer PROVE Pend(t)' <= 1
  <2>1. CASE t = ResultTimer
    BY <1>4, <1>10, <2>1
  <2>2. CASE t # ResultTimer
    BY <1>4, <2>2 DEF Once
  <2> QED BY <2>1, <2>2
<1>13. Kills' + Pend(k3)' <= 1
  BY <1>6, <1>7, <1>8 DEF Once
<1>14. Kills' + Finals' + Len(rows') <= 1 /\ Len(rows') = 1
  <2>1. Kills' = 0 /\ Finals' = 0 /\ Len(rows') = 1
    BY <1>2, <1>3, <1>6, <1>9
  <2> QED BY <2>1
<1>15. Once'
  BY <1>7, <1>9, <1>11, <1>12, <1>13, <1>14 DEF Once
<1>16. RcInits \in Nat /\ RcInits' \in Nat /\ RcInits' <= RcInits
  <2>1. "rc_init" \notin {}
    OBVIOUS
  <2> QED BY <1>1, <2>1, CountMoves DEF RcInits
<1>17. Pend(InitTimer) \in Nat /\ Pend(InitTimer)' \in Nat /\ Pend(InitTimer)' <= Pend(InitTimer)
  BY <1>4, <1>5
<1>18. InitOnce'
  BY <1>16, <1>17 DEF InitOnce
<1> QED BY <1>15, <1>18

\* A step that leaves the kills, the results and the lines alone.
LEMMA AsideOnce ==
  ASSUME Typed, Once, NEW self, NEW types, Sends(self, types), self \in {Collector, Null},
         types \subseteq {"rc_init"},
         \A t \in timers' : t \in timers \/ (t = InitTimer /\ Pend(InitTimer) = 0),
         UNCHANGED <<rows, process>>, Started => Started'
  PROVE  Once'
<1> DEFINE k1 == Later(Executor, "serial_kill")
           k2 == Later(Executor, "parallel_kill")
           k3 == Later(Executor, "end")
<1>1. Collector \in Actor /\ \A t \in Timer : t.type \notin types
  BY MainActorsAreActors DEF Timer
<1>2. /\ k1 \in Timer \ {InitTimer} /\ k2 \in Timer \ {InitTimer}
      /\ k3 \in Timer \ {InitTimer} /\ ResultTimer \in Timer \ {InitTimer}
  BY Timers DEF ResultTimer, InitTimer, Later
<1>3. \A t \in Timer : /\ Pend(t) \in Nat /\ Pend(t)' \in Nat
                       /\ Pend(t)' <= Pend(t) \/ (Pend(t) = 0 /\ Pend(t)' <= 1)
                       /\ t # InitTimer => Pend(t)' <= Pend(t)
  <2> TAKE t \in Timer
  <2>1. (t \in timers' => t \in timers) \/ (t = InitTimer /\ Pend(t) = 0)
    OBVIOUS
  <2>2. Pend(t) \in Nat /\ Pend(t)' \in Nat /\ Pend(t)' <= Pend(t) + 1
        /\ ((t \in timers' => t \in timers) => Pend(t)' <= Pend(t))
    BY <1>1, PendMoves
  <2> QED BY <2>1, <2>2
<1>4. Finals \in Nat /\ Finals' \in Nat /\ Finals' <= Finals
  <2>1. ResultType \notin types
    BY DEF ResultType
  <2> QED BY <1>1, <2>1, CountMoves DEF Finals
<1>5. Len(rows) \in Nat
  BY DEF Typed, CollectorTypeOK
<1>6. Kills = Pend(k1) + Pend(k2) /\ Kills' = Pend(k1)' + Pend(k2)'
      /\ Pend(Later(Executor, "end")) = Pend(k3) /\ Pend(Later(Executor, "end"))' = Pend(k3)'
  BY DEF Kills, Later
<1> HIDE DEF k1, k2, k3
<1>7. Kills \in Nat /\ Kills' \in Nat /\ Kills' <= Kills
      /\ Pend(k3) \in Nat /\ Pend(k3)' \in Nat /\ Pend(k3)' <= Pend(k3)
  BY <1>2, <1>3, <1>6
<1>8. Kills' + Pend(k3)' <= 1 /\ Kills' + Finals' + Len(rows) <= 1
  BY <1>4, <1>5, <1>6, <1>7 DEF Once
<1>9. \A t \in Timer : Pend(t)' <= 1
  BY <1>3 DEF Once
<1>10. Pend(ResultTimer)' <= Len(rows)
  BY <1>2, <1>3, <1>5 DEF Once
<1>11. ~ Started' => Finals' = 0 /\ rows = <<>>
  BY <1>4 DEF Once
<1> QED BY <1>6, <1>8, <1>9, <1>10, <1>11 DEF Once

\* main() initialises the collector.
LEMMA MainOnce ==
  ASSUME Typed, Startup, Once, InitOnce, MainStep, Started => Started'
  PROVE  Once' /\ InitOnce'
<1>1. /\ main_pc \in 0 .. 4 /\ main_pc' = main_pc + 1 /\ Sends(Null, MainType)
      /\ UNCHANGED <<rows, process, configured, timers>> /\ Null \notin Actor
  BY MainPc, MainSending, NullNotActor
     DEF MainStep, Posted, Handled, Step, collectorVars
<1>2. CASE main_pc # 1
  <2>1. MainType \cap FinalType = {} /\ "rc_init" \notin MainType
        /\ \A t \in Timer : t.type \notin MainType
    BY <1>2 DEF MainType, FinalType, Timer
  <2>2. main_pc' < 2 => main_pc < 2
    BY <1>1
  <2> QED BY <1>1, <2>1, <2>2, QuietOnce
<1>3. CASE main_pc = 1
  <2>1. MainType = {"rc_init"} /\ Collector \in Actor
    BY <1>3, MainActorsAreActors DEF MainType
  <2>2. Once'
    BY <1>1, <2>1, AsideOnce
  <2>3. Collector \notin configured
    <3>1. Turn(Collector) = 2 /\ Collector \in MainActor
      BY ActorAssumption DEF Turn, MainActor
    <3> QED BY <1>3, <3>1 DEF Startup, Early
  <2>4. RcInits = 0
    BY <1>3 DEF InitOnce
  <2>5. RcInits' \in Nat /\ RcInits' <= RcInits + 1
    BY <1>1, <2>1, CountMoves DEF RcInits
  <2>6. Pend(InitTimer)' \in Nat /\ Pend(InitTimer)' <= Pend(InitTimer) /\ Pend(InitTimer) \in Nat
    <3>1. InitTimer.type \notin MainType /\ InitTimer \in Timer
      BY <2>1, Timers DEF InitTimer
    <3> QED BY <1>1, <3>1, PendMoves
  <2>7. InitOnce'
    BY <1>1, <1>3, <2>3, <2>4, <2>5, <2>6 DEF InitOnce
  <2> QED BY <2>2, <2>7
<1> QED BY <1>2, <1>3

\* rc_init_a runs once, and then sys_collect_a.
LEMMA RcInitOnce ==
  ASSUME Typed, Startup, Once, InitOnce, RcInit, UNCHANGED main_pc, Started => Started'
  PROVE  Once' /\ InitOnce'
<1>1. /\ Collector \in Actor /\ Head(mbox[Collector]).type = "rc_init"
      /\ Receives(Collector, "rc_init")
      /\ configured' = configured \cup {Collector} /\ timers' = timers \cup {InitTimer}
      /\ UNCHANGED <<rows, process>>
  BY MainActorsAreActors DEF RcInit, Receives, Step
<1>2. Sends(Collector, {})
  <2>1. mbox[Collector] # <<>> /\ Step(Collector, Silent, live, timers \cup {InitTimer})
    BY DEF RcInit, Receives
  <2> QED BY <2>1, SimpleSends
<1>3. RcInits \in Nat /\ RcInits >= 1 /\ RcInits' \in Nat /\ RcInits' <= RcInits - 1
  BY <1>1, <1>2, TakenCounted, CountMoves DEF RcInits
<1>4. Collector \notin configured /\ Pend(InitTimer) = 0
  BY <1>3 DEF InitOnce
<1>5. Once'
  BY <1>1, <1>2, <1>4, AsideOnce
<1>6. InitOnce'
  BY <1>1, <1>3 DEF InitOnce
<1> QED BY <1>5, <1>6

-----------------------------------------------------------------------------
(* The kinds of results, and the line of a serial benchmark.               *)

\* A step that starts nothing of the other kind.
LEMMA KindsStep ==
  ASSUME Typed, Kinds, NEW self, NEW types, Sends(self, types),
         \A t \in FinalType : t \in types => t = ResultType /\ (~ IsParallel => ~ SerialRefuses),
         KillDue("serial_kill")' => KillDue("serial_kill") \/ ~ SerialRefuses,
         ~ IsParallel => rg_state' = rg_state /\ "send_collect" \notin types
  PROVE  Kinds'
<1>1. \A t : Has(Collector, t)' => Has(Collector, t) \/ t \in types
  BY MainActorsAreActors, NothingNew
<1>2. KillDue("serial_kill")' => ~ SerialRefuses
  BY DEF Kinds
<1>3. \A t \in FinalType : Has(Collector, t)' =>
        t = ResultType /\ (~ IsParallel => ~ SerialRefuses)
  BY <1>1 DEF Kinds
<1>4. ~ IsParallel => rg_state' = "absent" /\ ~ Has(Collector, "send_collect")'
  BY <1>1 DEF Kinds
<1> QED BY <1>2, <1>3, <1>4 DEF Kinds

\* What leaves mailboxes and clocks alone.
LEMMA StillKinds ==
  ASSUME Kinds, UNCHANGED <<mbox, timers>>, ~ IsParallel => UNCHANGED rg_state
  PROVE  Kinds'
BY DEF Kinds, KillDue, Has, Contents, Later

\* The steps of everything but the collector leave its lines alone.
LEMMA StillLine ==
  ASSUME SerialLine, UNCHANGED collectorVars,
         Collector \in configured' <=> Collector \in configured
  PROVE  SerialLine'
BY DEF SerialLine, collectorVars

\* What is not a step of the collector or of main().
Elsewhere ==
  /\ UNCHANGED <<collectorVars, main_pc>>
  /\ Collector \in configured' <=> Collector \in configured
  /\ process' = "exited" => process = "exited"

\* All the other actors, and the clock, leave the collector and main() alone.
LEMMA ElsewhereMove ==
  ASSUME Typed,
         \/ ExecutorMoves \/ RgMoves \/ TopoMoves
         \/ \E a \in ChainActor : ChainMoves(a)
         \/ \E p \in PoolActor : PoolMoves(p)
         \/ \E t \in Timer : ClockMoves(t)
  PROVE  Elsewhere
<1>0. /\ Collector \notin ChainActor \cup PoolActor /\ Collector # TopoBuilder
      /\ Collector # Executor
  BY ActorKinds, ActorAssumption DEF MainActor
<1>1. CASE ExecutorMoves
  <2>1. UNCHANGED <<collectorVars, main_pc>>
    BY <1>1 DEF ExecutorMoves
  <2>2. /\ configured' \in {configured, configured \cup {Executor}}
        /\ process' \in {process, "crashed"}
    BY <1>1 DEF ExecutorMoves, ExecutorStep, ExecInit, Sysconfig, SystemBuilding,
       SerialBenchmark, Serial, UpdateMetrics, SerialKill, ParallelBenchmark, Parallel,
       ParallelKill, End, Handled, Step, Crash
  <2> QED BY <1>0, <2>1, <2>2 DEF Elsewhere
<1>2. CASE RgMoves
  BY <1>2 DEF RgMoves, RgStep, RgStart, RgSend, RgFinish, RgFirstHop, Posted, Handled, Step, Crash,
     Undefined, Elsewhere
<1>3. CASE TopoMoves
  <2>1. /\ UNCHANGED <<collectorVars, main_pc, process>>
        /\ configured' \in {configured, configured \cup {TopoBuilder}}
    BY <1>3 DEF TopoMoves, TopoStep, InitTopo, InitDetachedReply, MakeLinearChain,
       InitBenchReply, TopoKill, Handled, Step
  <2> QED BY <1>0, <2>1 DEF Elsewhere
<1>5. ASSUME NEW a \in ChainActor, ChainMoves(a) PROVE Elsewhere
  <2>1. UNCHANGED <<collectorVars, main_pc>>
    BY <1>5 DEF ChainMoves
  <2>2. CASE InitBench(a)
    BY <1>0, <1>5, <2>1, <2>2 DEF InitBench, Handled, Step, Elsewhere
  <2>3. CASE Kill(a)
    BY <1>0, <1>5, <2>1, <2>3 DEF Kill, Step, Elsewhere
  <2>4. CASE Weightless(a) \/ WeightlessBack(a) \/ TimedMsg(a) \/ TimedMsgBack(a)
    <3>1. UNCHANGED <<configured, process>>
      BY <2>4 DEF Weightless, WeightlessBack, TimedMsg, TimedMsgBack, SendForth, SendBack,
         Relay, Report, Handled, Step
    <3> QED BY <2>1, <3>1 DEF Elsewhere
  <2> QED BY <1>5, <2>2, <2>3, <2>4 DEF ChainMoves, ChainActorStep
<1>6. ASSUME NEW p \in PoolActor, PoolMoves(p) PROVE Elsewhere
  BY <1>0, <1>6 DEF PoolMoves, PoolActorStep, InitDetached, DetachedMsg, Handled, Step, Elsewhere
<1>7. ASSUME NEW t \in Timer, ClockMoves(t) PROVE Elsewhere
  BY <1>7 DEF ClockMoves, Fire, Step, Elsewhere
<1> QED BY <1>1, <1>2, <1>3, <1>5, <1>6, <1>7

\* A quiet step elsewhere.
LEMMA QuietResults ==
  ASSUME Typed, Results, Elsewhere, Started => Started', NEW self, NEW types, Sends(self, types),
         types \cap FinalType = {}, "rc_init" \notin types,
         \A t \in Timer :
           /\ t.type \in types => t \in timers /\ t \notin timers'
           /\ t \in timers' => t \in timers \/ (self = t.to /\ Head(mbox[self]).type = t.type),
         ~ IsParallel => UNCHANGED rg_state /\ "send_collect" \notin types,
         KillDue("serial_kill")' => KillDue("serial_kill")
  PROVE  Results'
<1>1. Once' /\ InitOnce'
  <2>1. UNCHANGED <<rows, main_pc>>
    BY DEF Elsewhere, collectorVars
  <2> QED BY <2>1, QuietOnce DEF Results, Elsewhere
<1>2. Kinds'
  BY KindsStep DEF Results
<1>3. SerialLine'
  BY StillLine DEF Results, Elsewhere
<1> QED BY <1>1, <1>2, <1>3 DEF Results

\* What is elsewhere and sends nothing that is pending or of the results.
LEMMA SilentResults ==
  ASSUME Typed, Results, Elsewhere, Started => Started', NEW self, NEW types, Sends(self, types),
         types \cap FinalType = {}, "rc_init" \notin types,
         \A t \in Timer : t.type \notin types,
         \A t \in timers' : t \in timers,
         ~ IsParallel => UNCHANGED rg_state /\ "send_collect" \notin types
  PROVE  Results'
<1>1. Later(Executor, "serial_kill") \in Timer
      /\ Later(Executor, "serial_kill").type = "serial_kill"
  BY Timers
<1>2. KillDue("serial_kill")' => KillDue("serial_kill")
  BY <1>1, KillStep DEF KillDue
<1> QED BY <1>2, QuietResults

\* A kill that is received belongs to a benchmark that has started, of its kind.
LEMMA KillReceived ==
  ASSUME Typed, OneChainAtATime, Prepared, Kinds,
         NEW k \in {"serial_kill", "parallel_kill"}, Receives(Executor, k)
  PROVE  /\ Started /\ KillDue(k)
         /\ k = "serial_kill" => ~ IsParallel /\ ~ SerialRefuses
         /\ k = "parallel_kill" => IsParallel
<1>1. KillDue(k)
  BY TakenCounted, MainActorsAreActors DEF KillDue
<1>2. Started
  BY <1>1, NothingDue DEF OneChainAtATime
<1> QED BY <1>1, <1>2 DEF Prepared, Due, SerialMeant, Kinds

\* The executor.
LEMMA ExecutorResults ==
  ASSUME Typed, Startup, OneChainAtATime, Prepared, Results, Started => Started', ExecutorMoves
  PROVE  Results'
<1>0. Executor \in Actor /\ Elsewhere /\ UNCHANGED <<collectorVars, main_pc>>
      /\ \A t \in Timer : t.to = Executor => t.type \notin {"sys_collect", "benchmark_kill"}
  BY MainActorsAreActors, ElsewhereMove, ActorAssumption DEF Elsewhere, Timer
<1>1. ASSUME NEW types, Sends(Executor, types), types \cap FinalType = {},
             "rc_init" \notin types, "send_collect" \notin types,
             \A t \in Timer : t.type \notin types,
             UNCHANGED <<timers, rg_state>>
      PROVE  Results'
  BY <1>0, <1>1, SilentResults
<1>2. CASE Crash /\ (Serial \/ SerialKill \/ Parallel \/ ParallelKill)
  <2>1. UNCHANGED <<mbox, timers, rg_state, configured, rows, main_pc>> /\ process' = "crashed"
    BY <1>0, <1>2 DEF Crash, Serial, SerialKill, Parallel, ParallelKill, rgVars, collectorVars
  <2>2. Once' /\ InitOnce'
    BY <2>1, StillOnce DEF Results
  <2>3. Kinds' /\ SerialLine'
    BY <1>0, <2>1, StillKinds, StillLine DEF Results
  <2> QED BY <2>2, <2>3 DEF Results
<1>3. CASE ExecInit /\ Sends(Executor, {})
  BY <1>1, <1>3 DEF ExecInit, Handled, Step, rgVars
<1>4. CASE /\ Sysconfig
           /\ Sends(Executor, IF Len(heads_) = ChainsNumber THEN {BenchmarkSignal.type}
                                                           ELSE {"make_linear_chain"})
  <2>1. BenchmarkSignal.type \in {"serial_benchmark", "parallel_benchmark"}
    BY DEF BenchmarkSignal, Signal
  <2>2. Sends(Executor, {"serial_benchmark", "parallel_benchmark", "make_linear_chain"})
    BY <1>4, <2>1, SendsMore
  <2>3. \A t \in Timer : t.type \notin {"serial_benchmark", "parallel_benchmark", "make_linear_chain"}
    BY DEF Timer
  <2> QED BY <1>1, <1>4, <2>2, <2>3 DEF Sysconfig, Handled, Step, rgVars, FinalType
<1>5. CASE SystemBuilding /\ Sends(Executor, {"sysconfig"})
  <2>1. \A t \in Timer : t.type \notin {"sysconfig"}
    BY DEF Timer
  <2> QED BY <1>1, <1>5, <2>1 DEF SystemBuilding, Handled, Step, rgVars, FinalType
<1>6. CASE Serial /\ heads_ # <<>> /\ Sends(Executor, {"weightless"})
  <2>1. \A t \in Timer : t.type \notin {"weightless"}
    BY DEF Timer
  <2> QED BY <1>1, <1>6, <2>1 DEF Serial, Handled, Step, rgVars, FinalType
<1>7. CASE Parallel /\ Summable(Head(mbox[Executor]).hops) /\ Sends(Executor, {})
  BY <1>1, <1>7 DEF Parallel, Handled, Step, rgVars
<1>8. CASE End /\ Sends(Executor, {})
  BY <1>1, <1>8 DEF End, Step, rgVars
<1>9. CASE (\E t \in {"serial_update_metrics", "parallel_update_metrics"} : UpdateMetrics(t))
           /\ Sends(Executor, {})
  <2>1. PICK t \in {"serial_update_metrics", "parallel_update_metrics"} : UpdateMetrics(t)
    BY <1>9
  <2>2. /\ Head(mbox[Executor]).type = t /\ timers' = timers \cup {Later(Executor, t)}
        /\ UNCHANGED rg_state
        /\ Later(Executor, t).to = Executor /\ Later(Executor, t).type = t
    BY <2>1 DEF UpdateMetrics, Step, rgVars, Receives, Later
  <2>3. KillDue("serial_kill")' => KillDue("serial_kill")
    <3>1. Later(Executor, "serial_kill") # Later(Executor, t)
      BY DEF Later
    <3>2. Later(Executor, "serial_kill") \in timers' => KillDue("serial_kill")
      BY <2>2, <3>1 DEF KillDue
    <3> QED BY <1>9, <3>2, KillStep
  <2> QED BY <1>0, <1>9, <2>2, <2>3, QuietResults
<1>10. CASE SerialBenchmark \/ ParallelBenchmark
  <2>1. ~ Started /\ Started' /\ Building /\ Stage
    <3>1. ~ Started
      BY <1>10, StartedHead DEF SerialBenchmark, ParallelBenchmark, Builder, BuildType,
         OneChainAtATime
    <3> QED BY <1>10, <3>1, StartBuilds DEF OneChainAtATime
  <2> DEFINE k == IF SerialBenchmark THEN "serial_kill" ELSE "parallel_kill"
             types == {"serial"}
  <2>2. Sends(Executor, types)
    <3>1. SerialStart.type = "serial" /\ mbox[Executor] # <<>>
      BY <1>10 DEF SerialStart, SerialBenchmark, ParallelBenchmark, Receives
    <3>2. \E pending : \/ Step(Executor, Sent(Executor, SerialStart), live, pending)
                       \/ Step(Executor, Silent, live, pending)
      BY <1>10 DEF SerialBenchmark, ParallelBenchmark, Handled
    <3> QED BY <3>1, <3>2, SimpleSends
  <2>3. \A t \in timers' :
          \/ t \in timers
          \/ /\ SerialBenchmark /\ ~ SerialRefuses
             /\ t \in {Later(Executor, "serial_update_metrics"), Later(Executor, "serial_kill")}
          \/ /\ ~ SerialBenchmark
             /\ t \in {Later(Executor, "parallel_update_metrics"), Later(Executor, "parallel_kill")}
    <3>1. CASE SerialBenchmark
      BY <3>1 DEF SerialBenchmark, Handled, Step, SerialTimers, BenchmarkTimers
    <3>2. CASE ~ SerialBenchmark
      BY <1>10, <3>2 DEF ParallelBenchmark, Step, ParallelTimers, BenchmarkTimers
    <3> QED BY <3>1, <3>2
  <2>4. UNCHANGED <<rows, process, main_pc, configured>>
    BY <1>0, <1>10 DEF SerialBenchmark, ParallelBenchmark, Handled, Step, collectorVars
  <2>5. \A t \in timers' : \/ t \in timers
                           \/ t \in Timer /\ t.to = Executor /\ t.type # "end"
                                          /\ (t.type \in {"serial_kill", "parallel_kill"}
                                                => t.type = k)
    <3>1. \A t \in {"serial_update_metrics", "serial_kill", "parallel_update_metrics",
                    "parallel_kill"} :
            /\ Later(Executor, t) \in Timer /\ Later(Executor, t).to = Executor
            /\ Later(Executor, t).type = t
      BY Timers
    <3>2. (SerialBenchmark => k = "serial_kill") /\ (~ SerialBenchmark => k = "parallel_kill")
      OBVIOUS
    <3> HIDE DEF k
    <3> QED BY <2>3, <3>1, <3>2
  <2>6. k \in {"serial_kill", "parallel_kill"}
    OBVIOUS
  <2> HIDE DEF k
  <2>7. Once' /\ InitOnce'
    BY <2>1, <2>2, <2>4, <2>5, <2>6, StartOnce DEF Results
  <2>8. KillDue("serial_kill")' => KillDue("serial_kill") \/ ~ SerialRefuses
    <3>1. \A t : Later(Executor, t).type = t
      BY DEF Later
    <3>2. Later(Executor, "serial_kill") \in timers' =>
            Later(Executor, "serial_kill") \in timers \/ ~ SerialRefuses
      BY <2>3, <3>1
    <3>3. Has(Executor, "serial_kill")' => Has(Executor, "serial_kill")
      BY <1>0, <2>2, NothingNew
    <3> QED BY <3>2, <3>3 DEF KillDue, Later
  <2>9. ~ IsParallel => UNCHANGED rg_state
    <3>1. CASE ParallelBenchmark
      <4>1. AtStart
        BY <2>1, <3>1, ExecutorReceives DEF ParallelBenchmark
      <4>2. Head(mbox[Executor]) = BenchmarkSignal
        <5>1. Head(<<BenchmarkSignal>>) = BenchmarkSignal
          OBVIOUS
        <5> QED BY <4>1, <5>1 DEF AtStart
      <4> QED BY <3>1, <4>2 DEF ParallelBenchmark, Receives, BenchmarkSignal, Signal
    <3>2. CASE SerialBenchmark
      BY <3>2 DEF SerialBenchmark, rgVars
    <3> QED BY <1>10, <3>1, <3>2
  <2>10. Kinds'
    BY <2>2, <2>8, <2>9, KindsStep DEF Results, FinalType
  <2>11. SerialLine'
    BY <1>0, StillLine DEF Results, Elsewhere
  <2> QED BY <2>7, <2>10, <2>11 DEF Results
<1>11. ASSUME NEW k \in {"serial_kill", "parallel_kill"}, Receives(Executor, k), NEW t,
              Sends(Executor, {t, "topo_kill", "kill"}), t = ResultType,
              timers' = timers \cup {Later(Executor, "end")},
              UNCHANGED <<process, configured, rg_state>>
       PROVE  Results'
  <2>1. Started /\ (k = "serial_kill" => ~ IsParallel /\ ~ SerialRefuses)
        /\ (k = "parallel_kill" => IsParallel)
    BY <1>11, KillReceived DEF Results
  <2>2. \A u \in Timer : u.type \notin {t, "topo_kill", "kill"}
    BY <1>11 DEF Timer, ResultType
  <2>3. {t, "topo_kill", "kill"} \cap FinalType \subseteq {ResultType}
        /\ "rc_init" \notin {t, "topo_kill", "kill"} /\ "send_collect" \notin {t, "topo_kill", "kill"}
        /\ "serial_kill" \notin {t, "topo_kill", "kill"}
    BY <1>11 DEF FinalType, ResultType
  <2>4. UNCHANGED <<rows, main_pc>>
    BY <1>0 DEF collectorVars
  <2>5. Once' /\ InitOnce'
    BY <1>11, <2>1, <2>2, <2>3, <2>4, KillOnce DEF Results
  <2>6. KillDue("serial_kill")' => KillDue("serial_kill")
    <3>1. Later(Executor, "serial_kill") # Later(Executor, "end")
      BY DEF Later
    <3>2. Later(Executor, "serial_kill") \in timers' => KillDue("serial_kill")
      BY <1>11, <3>1 DEF KillDue
    <3> QED BY <1>11, <2>3, <3>2, KillStep
  <2>7. \A u \in FinalType : u \in {t, "topo_kill", "kill"} =>
          u = ResultType /\ (~ IsParallel => ~ SerialRefuses)
    BY <2>1, <2>3
  <2>8. Kinds'
    BY <1>11, <2>3, <2>6, <2>7, KindsStep DEF Results
  <2>9. SerialLine'
    BY <1>0, StillLine DEF Results, Elsewhere
  <2> QED BY <2>5, <2>8, <2>9 DEF Results
<1>12. CASE /\ SerialKill /\ Divides
            /\ Sends(Executor, {IF IsCrossTimes THEN "serial_collect_xtimes"
                                               ELSE "serial_collect", "topo_kill", "kill"})
  <2>1. /\ Receives(Executor, "serial_kill") /\ timers' = timers \cup {Later(Executor, "end")}
        /\ UNCHANGED <<process, configured, rg_state>>
    BY <1>12 DEF SerialKill, Divides, Step, rgVars
  <2>2. ResultType = (IF IsCrossTimes THEN "serial_collect_xtimes" ELSE "serial_collect")
    BY <2>1, KillReceived DEF Results, ResultType, SerialRefuses
  <2> QED BY <1>11, <1>12, <2>1, <2>2
<1>13. CASE /\ ParallelKill /\ nsteps_ # 0
            /\ Sends(Executor, {IF IsCrossTimes THEN "rec_collect_xtimes"
                                               ELSE "rec_collect", "topo_kill", "kill"})
  <2>1. /\ Receives(Executor, "parallel_kill") /\ timers' = timers \cup {Later(Executor, "end")}
        /\ UNCHANGED <<process, configured, rg_state>>
    BY <1>13 DEF ParallelKill, Step, rgVars
  <2>2. ResultType = (IF IsCrossTimes THEN "rec_collect_xtimes" ELSE "rec_collect")
    BY <2>1, KillReceived DEF Results, ResultType
  <2> QED BY <1>11, <1>13, <2>1, <2>2
<1> HIDE DEF ExecutorMoves
<1> QED BY <1>2, <1>3, <1>4, <1>5, <1>6, <1>7, <1>8, <1>9, <1>10, <1>12, <1>13, ExecutorSending

-----------------------------------------------------------------------------
(* The collector.                                                          *)

\* No step of the collector starts anything of another kind.
LEMMA CollectorKinds ==
  ASSUME Typed, Kinds, CollectorMoves, Sends(Collector, {})
  PROVE  Kinds'
<1>1. UNCHANGED rg_state /\ timers' \subseteq timers \cup {InitTimer, ResultTimer}
  BY DEF CollectorMoves, CollectorStep, RcInit, SendCollect, FinalCollect, SysCollect,
     BenchmarkKill, InitTimer, Handled, Step, rgVars
<1>2. Later(Executor, "serial_kill") \notin {InitTimer, ResultTimer}
  BY DEF InitTimer, ResultTimer, Later
<1>3. KillDue("serial_kill")' => KillDue("serial_kill")
  <2>1. "serial_kill" \notin {}
    OBVIOUS
  <2>2. Later(Executor, "serial_kill") \in timers' => KillDue("serial_kill")
    BY <1>1, <1>2 DEF KillDue
  <2> QED BY <2>1, <2>2, KillStep
<1>4. \A t : t \notin {}
  OBVIOUS
<1> QED BY <1>1, <1>3, <1>4, KindsStep

\* In a serial benchmark that is measured the columns of the line are those of
\* the header.
LEMMA SerialColumnsAre ==
  ASSUME ~ IsParallel, ~ SerialRefuses
  PROVE  /\ ResultType = "serial_collect"
         /\ <<"number of actors">> \o Columns(ResultType) = Header
<1>1. ResultType = "serial_collect" /\ ~ IsCrossTimes
  BY DEF ResultType, SerialRefuses
<1>2. Columns("serial_collect") = SerialColumns
  BY DEF Columns
<1>3. Header = (<<"number of actors">> \o SerialColumns) \o <<>>
  BY <1>1 DEF Header
<1>4. (<<"number of actors">> \o SerialColumns) \o <<>> = <<"number of actors">> \o SerialColumns
  BY DEF SerialColumns
<1> QED BY <1>1, <1>2, <1>3, <1>4

\* The steps of the collector.
LEMMA CollectorResults ==
  ASSUME Typed, Startup, Results, Started => Started', CollectorMoves
  PROVE  Results'
<1>0. /\ Collector \in Actor /\ Initialiser(Collector) = "rc_init"
      /\ UNCHANGED <<rg_state, main_pc>>
  BY MainActorsAreActors, ActorKinds DEF CollectorMoves, rgVars
<1>1. \A t : Receives(Collector, t) /\ t # "rc_init" => Collector \in configured
  BY <1>0, Initialised
<1>2. CASE RcInit
  <2>1. Sends(Collector, {})
    <3>1. mbox[Collector] # <<>> /\ Step(Collector, Silent, live, timers \cup {InitTimer})
      BY <1>2 DEF RcInit, Receives
    <3> QED BY <3>1, SimpleSends
  <2>2. Once' /\ InitOnce'
    BY <1>0, <1>2, RcInitOnce DEF Results
  <2>3. Kinds'
    BY <2>1, CollectorKinds DEF Results
  <2>4. SerialLine'
    <3>1. header' \in {<<>>, Header} /\ row' = <<"number of actors">> /\ rows' = rows
      BY <1>2 DEF RcInit
    <3> QED BY <3>1 DEF Results, SerialLine
  <2> QED BY <2>2, <2>3, <2>4 DEF Results
<1>3. CASE BenchmarkKill
  <2>1. /\ UNCHANGED <<mbox, timers, rows, main_pc, configured, rg_state, collectorVars>>
        /\ process' = "exited" /\ Receives(Collector, "benchmark_kill")
    BY <1>0, <1>3 DEF BenchmarkKill, collectorVars
  <2>2. Len(rows) = 1
    <3>1. Count(mbox[Collector], "benchmark_kill") \in Nat
          /\ Count(mbox[Collector], "benchmark_kill") >= 1
      BY <1>0, <2>1, TakenCounted
    <3>2. Pend(ResultTimer) >= 1
      BY <3>1 DEF Pend, ResultTimer, Later
    <3>3. Pend(ResultTimer) <= Len(rows) /\ Kills + Finals + Len(rows) <= 1
      BY DEF Results, Once
    <3>4. Kills \in Nat /\ Finals \in Nat /\ Len(rows) \in Nat /\ Pend(ResultTimer) \in Nat
      <4>1. /\ Later(Executor, "serial_kill") \in Timer /\ Later(Executor, "parallel_kill") \in Timer
            /\ ResultTimer \in Timer
        BY Timers
      <4>2. Kills \in Nat /\ Pend(ResultTimer) \in Nat
        <5>1. /\ Pend(Later(Executor, "serial_kill")) \in Nat
              /\ Pend(Later(Executor, "parallel_kill")) \in Nat /\ Pend(ResultTimer) \in Nat
          BY <4>1, PendTyped
        <5> QED BY <5>1 DEF Kills
      <4>3. mbox[Collector] \in Seq(Message)
        BY <1>0 DEF Typed, SystemTypeOK
      <4>4. Finals \in Nat
        BY <4>3, CountTyped DEF Finals
      <4> QED BY <4>2, <4>4 DEF Typed, CollectorTypeOK
    <3> DEFINE k == Kills
               f == Finals
               l == Len(rows)
               p == Pend(ResultTimer)
    <3>5. k \in Nat /\ f \in Nat /\ l \in Nat /\ p \in Nat /\ p >= 1 /\ p <= l /\ k + f + l <= 1
      BY <3>2, <3>3, <3>4
    <3> HIDE DEF k, f, l, p
    <3>6. l = 1
      BY <3>5
    <3> QED BY <3>6 DEF l
  <2>3. Once' /\ InitOnce'
    BY <2>1, <2>2, StillOnce DEF Results
  <2>4. Kinds' /\ SerialLine'
    BY <2>1, StillKinds, StillLine DEF Results
  <2> QED BY <2>3, <2>4 DEF Results
<1>4. CASE SysCollect
  <2>1. /\ Receives(Collector, "sys_collect")
        /\ timers' = timers \cup {InitTimer}
        /\ UNCHANGED <<process, rows, configured, collectorVars>>
        /\ Head(mbox[Collector]).type = "sys_collect"
    BY <1>4 DEF SysCollect, Step, InitTimer, collectorVars, Receives
  <2>2. Sends(Collector, {})
    <3>1. /\ mbox[Collector] # <<>>
          /\ Step(Collector, Silent, live, timers \cup {Later(Collector, "sys_collect")})
      BY <1>4 DEF SysCollect, Receives
    <3> QED BY <3>1, SimpleSends
  <2>3. InitTimer.to = Collector /\ InitTimer.type = "sys_collect"
    BY DEF InitTimer, Later
  <2>4. Once' /\ InitOnce'
    <3>1. \A t : t \notin {}
      OBVIOUS
    <3>2. {} \cap FinalType = {}
      OBVIOUS
    <3> QED BY <1>0, <2>1, <2>2, <2>3, <3>1, <3>2, QuietOnce DEF Results
  <2>5. Kinds' /\ SerialLine'
    BY <2>1, <2>2, CollectorKinds, StillLine DEF Results
  <2> QED BY <2>4, <2>5 DEF Results
<1>5. CASE SendCollect
  <2>1. /\ Receives(Collector, "send_collect") /\ mbox[Collector] # <<>>
        /\ Step(Collector, Silent, live, timers)
        /\ UNCHANGED <<process, rows, configured, timers>>
    BY <1>5 DEF SendCollect, Handled, Step, Receives
  <2>2. Sends(Collector, {})
    BY <2>1, SimpleSends
  <2>3. Once' /\ InitOnce'
    <3>1. \A t : t \notin {}
      OBVIOUS
    <3>2. {} \cap FinalType = {}
      OBVIOUS
    <3> QED BY <1>0, <2>1, <2>2, <3>1, <3>2, QuietOnce DEF Results
  <2>4. Has(Collector, "send_collect")
    BY <1>0, <2>1, TakenCounted
  <2>5. IsParallel
    BY <2>4 DEF Results, Kinds
  <2>6. SerialLine'
    BY <2>5 DEF SerialLine
  <2> QED BY <2>2, <2>3, <2>6, CollectorKinds DEF Results
<1>6. ASSUME NEW t \in FinalType, FinalCollect(t) PROVE Results'
  <2>1. /\ Receives(Collector, t) /\ mbox[Collector] # <<>>
        /\ Step(Collector, Silent, live, timers \cup {ResultTimer})
        /\ timers' = timers \cup {ResultTimer}
        /\ rows' = Append(rows, row \o Columns(t))
        /\ UNCHANGED <<process, configured, header>>
    BY <1>6 DEF FinalCollect, Step, Receives
  <2>2. Sends(Collector, {})
    BY <2>1, SimpleSends
  <2>3. Has(Collector, t)
    BY <1>0, <2>1, TakenCounted
  <2>4. t = ResultType /\ (~ IsParallel => ~ SerialRefuses)
    BY <2>3 DEF Results, Kinds
  <2>5. Once' /\ InitOnce'
    BY <1>0, <2>1, <2>2, <2>4, FinalOnce DEF Results
  <2>6. Kinds'
    BY <2>2, CollectorKinds DEF Results
  <2>7. ASSUME ~ IsParallel PROVE SerialLine'
    <3>1. Collector \in configured
      BY <1>1, <2>1 DEF FinalType
    <3>2. Len(rows) \in Nat /\ rows = <<>> /\ Len(rows') = Len(rows) + 1
      <4>1. Len(rows) \in Nat /\ Len(rows') = Len(rows) + 1
        BY <2>1 DEF Typed, CollectorTypeOK
      <4>2. Len(rows') <= 1
        <5>1. Kills' + Finals' + Len(rows') <= 1
          BY <2>5 DEF Once
        <5>2. Kills' \in Nat /\ Finals' \in Nat
          <6>1. Finals' \in Nat
            BY <1>0, <2>2, CountMoves DEF Finals
          <6>2. \A u \in Timer : Pend(u)' \in Nat
            BY <2>2, PendMoves
          <6>3. Later(Executor, "serial_kill") \in Timer /\ Later(Executor, "parallel_kill") \in Timer
            BY Timers
          <6>4. Pend(Later(Executor, "serial_kill"))' \in Nat
                /\ Pend(Later(Executor, "parallel_kill"))' \in Nat
            <7> DEFINE k1 == Later(Executor, "serial_kill")
                       k2 == Later(Executor, "parallel_kill")
            <7>1. Pend(k1)' \in Nat /\ Pend(k2)' \in Nat
              BY <6>2, <6>3
            <7> QED BY <7>1 DEF Later
          <6> QED BY <6>1, <6>4 DEF Kills
        <5> QED BY <4>1, <5>1, <5>2
      <4>3. Len(rows) = 0
        BY <4>1, <4>2
      <4> QED BY <4>1, <4>3 DEF Typed, CollectorTypeOK
    <3>3. row = <<"number of actors">>
      BY <2>7, <3>1, <3>2 DEF Results, SerialLine
    <3>4. row \o Columns(t) = Header
      BY <2>4, <2>7, <3>3, SerialColumnsAre
    <3>5. rows' = <<Header>>
      BY <2>1, <3>2, <3>4
    <3>6. \A i \in DOMAIN <<Header>> : <<Header>>[i] = Header
      OBVIOUS
    <3>7. header' \in {<<>>, Header}
      BY <2>1, <2>7 DEF Results, SerialLine
    <3>8. rows' # <<>>
      BY <3>5
    <3> QED BY <3>5, <3>6, <3>7, <3>8 DEF SerialLine
  <2>8. SerialLine'
    BY <2>7 DEF SerialLine
  <2> QED BY <2>5, <2>6, <2>8 DEF Results
<1> QED BY <1>2, <1>3, <1>4, <1>5, <1>6 DEF CollectorMoves, CollectorStep

-----------------------------------------------------------------------------
(* Every step.                                                             *)

\* Every step of the program keeps one result under way.
LEMMA NextResults ==
  ASSUME Typed, Startup, Order, OneChainAtATime, Routed, Prepared, Results, [Next]_vars
  PROVE  Results'
<1>0. /\ Null # Executor /\ (Started => Started') /\ Known
      /\ \A t \in Timer : t.to \in {Executor, Collector}
      /\ Null \notin {Executor, Collector} /\ TopoBuilder \notin {Executor, Collector}
      /\ \A a \in ChainActor \cup PoolActor : a \notin {Executor, Collector}
  BY NextBuilt, NullNotActor, MainActorsAreActors, ActorKinds, Timers
     DEF OneChainAtATime, MainActor
<1>1. ASSUME NEW self, NEW types, Sends(self, types), Elsewhere,
             types \cap (FinalType \cup {"rc_init", "send_collect"}) = {},
             \A t \in Timer : t.type \notin types, UNCHANGED <<timers, rg_state>>
      PROVE  Results'
  BY <1>0, <1>1, SilentResults
<1>2. CASE MainStep
  <2>1. Once' /\ InitOnce'
    BY <1>0, <1>2, MainOnce DEF Results
  <2>2. UNCHANGED <<rg_state, timers, collectorVars, configured>>
    BY <1>2 DEF MainStep, Posted, Handled, Step, rgVars
  <2>3. MainType \cap (FinalType \cup {"send_collect", "serial_kill"}) = {} /\ Sends(Null, MainType)
    BY <1>2, MainSending DEF MainType, FinalType
  <2>4. KillDue("serial_kill")' => KillDue("serial_kill")
    BY <2>2, <2>3, KillStep DEF KillDue
  <2>5. Kinds'
    BY <2>2, <2>3, <2>4, KindsStep DEF Results
  <2>6. SerialLine'
    BY <2>2, StillLine DEF Results
  <2> QED BY <2>1, <2>5, <2>6 DEF Results
<1>3. CASE RgMoves
  <2>0. Elsewhere /\ IsParallel
    <3>1. rg_state # "absent"
      BY <1>3 DEF RgMoves, RgStep, RgStart, RgSend, RgFinish, RgFirstHop, Sending
    <3> QED BY <1>3, <3>1, ElsewhereMove DEF Results, Kinds
  <2>1. CASE (RgStart \/ RgFirstHop) /\ UNCHANGED mbox
    <3>1. /\ UNCHANGED <<timers, configured, collectorVars, main_pc>>
          /\ process' = "exited" => process = "exited"
      BY <1>3, <2>1 DEF RgStart, RgFirstHop, Crash, Undefined, RgMoves
    <3>2. UNCHANGED rows
      BY <3>1 DEF collectorVars
    <3>3. Once' /\ InitOnce'
      BY <1>0, <2>1, <3>1, <3>2, StillOnce DEF Results
    <3>4. Kinds' /\ SerialLine'
      BY <2>0, <2>1, <3>1, StillKinds, StillLine DEF Results
    <3> QED BY <3>3, <3>4 DEF Results
  <2>2. CASE RgSend /\ Sends(Null, {"timed_msg"})
    <3>1. UNCHANGED timers /\ \A t \in Timer : t.type \notin {"timed_msg"}
      BY <2>2 DEF RgSend, Posted, Handled, Step, Timer
    <3>2. {"timed_msg"} \cap FinalType = {} /\ "rc_init" \notin {"timed_msg"}
      BY DEF FinalType
    <3> QED BY <1>0, <2>0, <2>2, <3>1, <3>2, SilentResults
  <2>3. CASE RgFinish /\ Sends(Null, {"send_collect"})
    <3>1. UNCHANGED timers /\ \A t \in Timer : t.type \notin {"send_collect"}
      BY <2>3 DEF RgFinish, Posted, Handled, Step, Timer
    <3>2. {"send_collect"} \cap FinalType = {} /\ "rc_init" \notin {"send_collect"}
      BY DEF FinalType
    <3> QED BY <1>0, <2>0, <2>3, <3>1, <3>2, SilentResults
  <2> QED BY <1>3, <2>1, <2>2, <2>3, RgSending
<1>4. ASSUME NEW a \in ChainActor, ChainMoves(a) PROVE Results'
  <2> DEFINE sent == SerialType \cup {"init_bench_reply", "kill", "detached_msg", "timed_msg",
                                     "timed_msg_back", "parallel"}
  <2>1. Sends(a, sent)
    <3>1. PICK few \in {{"init_bench_reply"}, {"kill"}, SerialType \cup {"detached_msg"},
                        {"timed_msg", "timed_msg_back", "parallel", "detached_msg"}} :
            Sends(a, few)
      BY <1>0, <1>4, ChainSending
    <3>2. few \subseteq sent
      OBVIOUS
    <3> QED BY <3>1, <3>2, SendsMore
  <2>2. /\ sent \cap (FinalType \cup {"rc_init", "send_collect"}) = {}
        /\ \A t \in Timer : t.type \notin sent
    BY DEF SerialType, FinalType, Timer
  <2>3. Elsewhere
    BY <1>4, ElsewhereMove
  <2>4. UNCHANGED <<timers, rg_state>>
    BY <1>4 DEF ChainMoves, ChainActorStep, InitBench, Kill, Weightless, WeightlessBack, TimedMsg,
       TimedMsgBack, SendForth, SendBack, Relay, Report, Handled, Step, rgVars
  <2> HIDE DEF sent
  <2> QED BY <1>1, <2>1, <2>2, <2>3, <2>4
<1>5. ASSUME NEW p \in PoolActor, PoolMoves(p) PROVE Results'
  <2>1. UNCHANGED <<timers, rg_state>>
    BY <1>5 DEF PoolMoves, PoolActorStep, InitDetached, DetachedMsg, Handled, Step, rgVars
  <2>2. /\ {"init_detached_reply"} \cap (FinalType \cup {"rc_init", "send_collect"}) = {}
        /\ \A t \in Timer : t.type \notin {"init_detached_reply"}
    BY DEF FinalType, Timer
  <2> QED BY <1>1, <1>5, <2>1, <2>2, PoolSending, ElsewhereMove
<1>6. CASE TopoMoves
  <2>1. UNCHANGED <<timers, rg_state>>
    BY <1>6 DEF TopoMoves, TopoStep, InitTopo, InitDetachedReply, MakeLinearChain,
       InitBenchReply, TopoKill, Handled, Step, rgVars
  <2>2. /\ {"init_detached", "init_bench", "system_building"}
             \cap (FinalType \cup {"rc_init", "send_collect"}) = {}
        /\ \A t \in Timer : t.type \notin {"init_detached", "init_bench", "system_building"}
    BY DEF FinalType, Timer
  <2> QED BY <1>1, <1>6, <2>1, <2>2, TopoSending, ElsewhereMove
<1>7. CASE CollectorMoves
  BY <1>0, <1>7, CollectorResults
<1>8. ASSUME NEW t \in Timer, ClockMoves(t) PROVE Results'
  <2>1. Elsewhere /\ Sends(Null, {t.type}) /\ t \in timers /\ timers' = timers \ {t}
        /\ UNCHANGED rg_state
    BY <1>8, ElsewhereMove, ClockSending DEF ClockMoves, Fire, Step, rgVars
  <2>2. {t.type} \cap FinalType = {} /\ "rc_init" \notin {t.type} /\ "send_collect" \notin {t.type}
    BY DEF Timer, FinalType
  <2>3. \A u \in Timer : /\ u.type \in {t.type} => u \in timers /\ u \notin timers'
                         /\ u \in timers' => u \in timers
    <3>1. \A u \in Timer : u.type = t.type => u = t
      BY Timers
    <3> QED BY <2>1, <3>1
  <2>4. KillDue("serial_kill")' => KillDue("serial_kill")
    <3>1. "serial_kill" \in {t.type} => KillDue("serial_kill")
      <4>1. ASSUME t.type = "serial_kill" PROVE Later(Executor, "serial_kill") = t
        <5>1. /\ Later(Executor, "serial_kill") \in Timer
              /\ Later(Executor, "serial_kill").type = "serial_kill"
          BY Timers
        <5> QED BY <4>1, <5>1, Timers
      <4> QED BY <2>1, <4>1 DEF KillDue
    <3>2. Later(Executor, "serial_kill") \in timers' => KillDue("serial_kill")
      BY <2>1 DEF KillDue
    <3> QED BY <2>1, <3>1, <3>2, KillStep
  <2> QED BY <1>0, <2>1, <2>2, <2>3, <2>4, QuietResults
<1>9. CASE ExecutorMoves
  BY <1>0, <1>9, ExecutorResults
<1>10. CASE UNCHANGED worldVars
  <2>1. UNCHANGED <<mbox, timers, rows, main_pc, configured, process, rg_state, collectorVars>>
    BY <1>10 DEF worldVars, systemVars, collectorVars, rgVars
  <2>2. Once' /\ InitOnce'
    BY <1>0, <2>1, StillOnce DEF Results
  <2>3. Kinds' /\ SerialLine'
    BY <2>1, StillKinds, StillLine DEF Results
  <2> QED BY <2>2, <2>3 DEF Results
<1> QED
  BY <1>2, <1>3, <1>4, <1>5, <1>6, <1>7, <1>8, <1>9, <1>10 DEF Next, TimePasses, Terminated, vars

\* At the beginning nothing is under way.
LEMMA InitResults == ASSUME Init PROVE Results
<1>1. /\ \A a \in Actor : mbox[a] = <<>>
      /\ timers = {} /\ configured = {} /\ rg_state = "absent"
      /\ process = "running" /\ header = <<>> /\ rows = <<>> /\ main_pc = 0
  BY DEF Init, SystemInit, RgInit, CollectorInit
<1>2. Collector \in Actor /\ Executor \in Actor /\ DOMAIN <<>> = {} /\ Len(<<>>) = 0
  BY MainActorsAreActors
<1>3. \A t \in Timer : Pend(t) = 0
  BY <1>1, Timers, CountEmpty DEF Pend
<1>4. Finals = 0 /\ RcInits = 0
  BY <1>1, <1>2, CountEmpty DEF Finals, RcInits
<1>5. Kills = 0 /\ Pend(Later(Executor, "end")) = 0 /\ Pend(ResultTimer) = 0
      /\ Pend(InitTimer) = 0
  BY <1>3, Timers DEF Kills
<1>6. Once
  BY <1>1, <1>2, <1>3, <1>4, <1>5 DEF Once
<1>7. InitOnce
  BY <1>4, <1>5 DEF InitOnce
<1>8. \A a \in Actor : \A t : ~ Has(a, t)
  BY <1>1, <1>2 DEF Has, Contents, ToSet
<1>9. Kinds
  BY <1>1, <1>2, <1>8 DEF Kinds, KillDue
<1>10. SerialLine
  BY <1>1, <1>2 DEF SerialLine
<1> QED BY <1>6, <1>7, <1>9, <1>10 DEF Results

\* The invariants hold always.
LEMMA AlwaysResults == Spec => [](Typed /\ Results)
<1>1. Init => Prepared /\ Results
  BY InitPrepared, InitResults
<1>2. Typed /\ Startup /\ Order /\ OneChainAtATime /\ OneRound /\ Routed /\ Prepared /\ Results
        /\ [Next]_vars => Prepared' /\ Results'
  BY NextPrepared, NextResults
<1> QED BY <1>1, <1>2, AlwaysMeasuring, PTL DEF Spec

(***************************************************************************)
(* For every configuration and every interleaving: a delayed message is    *)
(* pending at most once, on the clock and in the mailbox together; so the  *)
(* periodic messages do not multiply, and the set timers loses none.       *)
(***************************************************************************)
THEOREM PendingOnce == Spec => []OnePending
<1>1. ASSUME Typed, Results PROVE OnePending
  <2>1. SUFFICES ASSUME NEW t \in Timer
                 PROVE  Count(mbox[t.to], t.type) <= IF t \in timers THEN 0 ELSE 1
    BY DEF OnePending, Count, Places
  <2>2. mbox[t.to] \in Seq(Message)
    BY <1>1, Timers DEF Typed, SystemTypeOK
  <2>3. Count(mbox[t.to], t.type) \in Nat
    BY <2>2, CountTyped
  <2>4. Pend(t) <= 1
    BY <1>1 DEF Results, Once
  <2> QED BY <2>3, <2>4 DEF Pend
<1> QED BY <1>1, AlwaysResults, PTL

(***************************************************************************)
(* For every configuration and every interleaving, one result: whichever   *)
(* actor is still at work when the kill and the last messages arrive, no   *)
(* second line is written, and the process exits after the first.          *)
(***************************************************************************)
THEOREM ResultOnce == Spec => []OneResult
<1>1. ASSUME Typed, Results PROVE OneResult
  <2> DEFINE k1 == Pend(Later(Executor, "serial_kill"))
             k2 == Pend(Later(Executor, "parallel_kill"))
             f == Finals
             n == Len(rows)
  <2>1. k1 \in Nat /\ k2 \in Nat
    BY <1>1, Timers, PendTyped
  <2>2. mbox[Collector] \in Seq(Message)
    BY <1>1, MainActorsAreActors DEF Typed, SystemTypeOK
  <2>3. f \in Nat
    BY <2>2, CountTyped DEF Finals
  <2>4. n \in Nat
    BY <1>1 DEF Typed, CollectorTypeOK
  <2>5. k1 + k2 + f + n <= 1 /\ (process = "exited" => n = 1)
    BY <1>1 DEF Results, Once, Kills
  <2> HIDE DEF k1, k2, f, n
  <2>6. n <= 1
    BY <2>1, <2>3, <2>4, <2>5
  <2> QED BY <2>5, <2>6 DEF n, OneResult
<1> QED BY <1>1, AlwaysResults, PTL

(***************************************************************************)
(* The line of a serial benchmark has the columns of the header, for every *)
(* configuration and every interleaving.  (In the parallel benchmark it    *)
(* has not: the rate generator ends beside the kill, and its send_collect  *)
(* may come after the result.)                                             *)
(***************************************************************************)
THEOREM SerialRowMatches == Spec => [](~ IsParallel => RowMatchesHeader)
<1>1. Results => (~ IsParallel => RowMatchesHeader)
  BY DEF Results, SerialLine, RowMatchesHeader
<1> QED BY <1>1, AlwaysResults, PTL
=============================================================================
