----------------------- MODULE LatencyBenchmark_proofs -----------------------
(***************************************************************************)
(* What holds in every configuration of the benchmark, whatever is         *)
(* measured: the types of the program's variables, initialisation before   *)
(* use, the load of the detached pool, the stop of the chains and how they *)
(* are built.                                                              *)
(*                                                                         *)
(* The module starts with the types and with what every step does to       *)
(* mailboxes; all the proofs about the program rest on it.                 *)
(***************************************************************************)
EXTENDS LatencyBenchmarkProperties, FiniteSetTheorems, TLAPS

Out == [Handle -> Seq(Message)]

LEMMA NullNotActor == Null \notin Actor
BY ActorAssumption

LEMMA MainActorsAreActors ==
  /\ Executor \in Actor /\ TopoBuilder \in Actor /\ Collector \in Actor
  /\ Actor \subseteq Handle /\ Null \in Handle
BY DEF Actor, MainActor, Handle

LEMMA SignalTyped == ASSUME NEW t \in SignalType PROVE Signal(t) \in Message
BY DEF Signal, Message, SignalMsg

LEMMA SilentTyped == Silent \in Out
BY DEF Silent, Out

LEMMA SentTyped == ASSUME NEW h \in Handle, NEW m \in Message PROVE Sent(h, m) \in Out
<1>1. <<m>> \in Seq(Message)
  OBVIOUS
<1> QED BY <1>1 DEF Sent, Silent, Out

\* A step leaves the mailboxes alone, or self consumes its first message, if it
\* is an actor, and messages are put at the end of mailboxes.
Shape(self) ==
  \/ UNCHANGED <<mbox, live, timers>>
  \/ /\ self \in Actor => mbox[self] # <<>>
     /\ \E out \in Out : mbox' = [a \in Actor |-> Delivered(self, out, live', a)]

Sound(self) == SystemTypeOK' /\ Shape(self)

LEMMA StepTyped ==
  ASSUME SystemTypeOK,
         NEW self \in Handle, self \in Actor => mbox[self] # <<>>,
         NEW out \in Out, NEW alive \in SUBSET Actor,
         NEW pending \in SUBSET Timer,
         Step(self, out, alive, pending),
         configured' \in SUBSET Actor
  PROVE  Sound(self)
<1>1. \A a \in Actor : Delivered(self, out, alive, a) \in Seq(Message)
  <2> SUFFICES ASSUME NEW a \in Actor
               PROVE  Delivered(self, out, alive, a) \in Seq(Message)
    OBVIOUS
  <2>1. mbox[a] \in Seq(Message) /\ out[a] \in Seq(Message)
    BY DEF SystemTypeOK, Out, Handle
  <2>2. (IF a = self THEN Tail(mbox[a]) ELSE mbox[a]) \in Seq(Message)
    BY <2>1
  <2> QED BY <2>1, <2>2 DEF Delivered
<1>2. mbox' \in [Actor -> Seq(Message)]
  BY <1>1 DEF Step
<1>3. live' = alive /\ mbox' = [a \in Actor |-> Delivered(self, out, alive, a)]
  BY DEF Step
<1>4. Shape(self)
  BY <1>3 DEF Shape
<1> QED BY <1>2, <1>4 DEF Step, SystemTypeOK, Sound

LEMMA TimersTyped ==
  /\ SerialTimers \subseteq Timer /\ ParallelTimers \subseteq Timer
  /\ Later(Executor, "end") \in Timer
  /\ InitTimer \in Timer /\ ResultTimer \in Timer
  /\ Later(Executor, "serial_update_metrics") \in Timer
  /\ Later(Executor, "parallel_update_metrics") \in Timer
BY DEF SerialTimers, ParallelTimers, BenchmarkTimers, Later, Timer, InitTimer,
       ResultTimer

LEMMA HeadTyped ==
  ASSUME SystemTypeOK, NEW a \in Actor, mbox[a] # <<>>
  PROVE  /\ Head(mbox[a]) \in Message
         /\ Head(mbox[a]).type \in ProbeType => Head(mbox[a]) \in ProbeMsg
         /\ Head(mbox[a]).type = "init_bench" => Head(mbox[a]) \in InitBenchMsg
         /\ Head(mbox[a]).type \in {"init_bench_reply", "system_building"}
              => Head(mbox[a]) \in HeadMsg
<1>1. Head(mbox[a]) \in Message
  BY DEF SystemTypeOK
<1> QED
  BY <1>1 DEF Message, ProbeMsg, SignalMsg, InitBenchMsg, HeadMsg, ProbeType,
              SignalType

-----------------------------------------------------------------------------
(***************************************************************************)
(* The types, with what they need to be inductive: the index of the rate   *)
(* generator names a receiver, only a pool that exists is given to an      *)
(* actor, and counter_ is any integer until InitialisedFirst is known.     *)
(***************************************************************************)
RgIndexed == rg_state = "sending" => rg_index \in 0 .. Receivers - 1

PoolGiven == \A a \in ChainActor : detached_pool_[a] => DetachedPool > 0

TopoTyped ==
  /\ counter_ \in Int
  /\ topo_executor_ \in Handle
  /\ chains_built \in 0 .. ChainsNumber

Typed ==
  /\ SystemTypeOK
  /\ ExecTypeOK
  /\ RgTypeOK /\ RgIndexed
  /\ BenchTypeOK /\ PoolGiven
  /\ TopoTyped
  /\ CollectorTypeOK
  /\ main_pc \in 0 .. Len(MainSends)

LEMMA InitTyped == Init => Typed
<1> SUFFICES ASSUME Init PROVE Typed
  OBVIOUS
<1>1. SystemTypeOK
  <2>1. MainActor \subseteq Actor
    BY DEF Actor
  <2>2. <<>> \in Seq(Message)
    OBVIOUS
  <2> QED BY <2>1, <2>2 DEF Init, SystemInit, SystemTypeOK
<1>2. ExecTypeOK
  BY MaxRepsAssumption DEF Init, ExecInitState, ExecTypeOK, Handle
<1>3. RgTypeOK /\ RgIndexed
  BY DEF Init, RgInit, RgTypeOK, RgIndexed
<1>4. BenchTypeOK /\ PoolGiven
  BY DEF Init, BenchInit, BenchTypeOK, PoolGiven, Handle
<1>5. TopoTyped
  BY ConfigAssumption DEF Init, TopoInit, TopoTyped, Handle
<1>6. CollectorTypeOK
  BY ConfigAssumption DEF Init, CollectorInit, CollectorTypeOK
<1>7. main_pc \in 0 .. Len(MainSends)
  BY DEF Init, MainSends
<1> QED BY <1>1, <1>2, <1>3, <1>4, <1>5, <1>6, <1>7 DEF Typed

LEMMA StillSound ==
  ASSUME SystemTypeOK, NEW self, UNCHANGED <<mbox, live, timers, configured>>,
         process' \in {process, "crashed", "exited", "undefined"}
  PROVE  Sound(self)
BY DEF SystemTypeOK, Sound, Shape

LEMMA CrashTyped ==
  ASSUME SystemTypeOK, NEW self, Crash, UNCHANGED configured PROVE Sound(self)
BY StillSound DEF Crash

LEMMA UndefinedTyped ==
  ASSUME SystemTypeOK, NEW self, Undefined, UNCHANGED configured PROVE Sound(self)
BY StillSound DEF Undefined

\* What handling a message does to the system's variables.
LEMMA HandledTyped ==
  ASSUME SystemTypeOK, NEW a \in Actor, NEW t, Receives(a, t),
         NEW out \in Out, Handled(a, out), configured' \in SUBSET Actor
  PROVE  Sound(a)
<1>1. a \in Handle /\ live \in SUBSET Actor /\ timers \in SUBSET Timer
  BY MainActorsAreActors DEF SystemTypeOK
<1> QED BY <1>1, StepTyped DEF Handled, Receives

LEMMA PostedTyped ==
  ASSUME SystemTypeOK, NEW out \in Out, Posted(out), UNCHANGED configured
  PROVE  Sound(Null)
<1>1. live \in SUBSET Actor /\ timers \in SUBSET Timer /\ configured' \in SUBSET Actor
  BY DEF SystemTypeOK
<1> QED BY <1>1, StepTyped, NullNotActor, MainActorsAreActors DEF Posted, Handled

LEMMA StartTyped == SerialStart \in Message /\ BenchmarkSignal \in Message
<1>1. SerialStart \in ProbeMsg
  BY DEF SerialStart, ProbeMsg, ProbeType
<1>2. BenchmarkSignal \in Message
  BY SignalTyped DEF BenchmarkSignal, SignalType
<1> QED BY <1>1, <1>2 DEF Message

\* A measurement keeps its type when one of its fields is set.
LEMMA FieldTyped ==
  ASSUME NEW m \in ProbeMsg
  PROVE  /\ \A t \in ProbeType : [m EXCEPT !.type = t] \in ProbeMsg
         /\ \A n \in Nat : [m EXCEPT !.hops = n] \in ProbeMsg
         /\ \A n \in Int : [m EXCEPT !.start = n] \in ProbeMsg
         /\ \A n \in Nat : [m EXCEPT !.stop = n] \in ProbeMsg
         /\ m.hops \in Nat /\ m.start \in Int /\ m.stop \in Nat
         /\ m.id \in Nat /\ m.chain \in Nat
BY DEF ProbeMsg

LEMMA RestartTyped == ASSUME NEW m \in ProbeMsg PROVE ProbeRestart(m) \in ProbeMsg
<1> DEFINE n == IF m.stop # 0 THEN m.stop ELSE m.hops
           x == [m EXCEPT !.start = n]
<1>1. n \in Int
  BY FieldTyped
<1>2. x \in ProbeMsg
  BY <1>1, FieldTyped
<1>3. ProbeRestart(m) = [x EXCEPT !.stop = 0]
  BY DEF ProbeRestart
<1> HIDE DEF x
<1> QED BY <1>2, <1>3, FieldTyped

LEMMA NextRoundTyped == ASSUME NEW m \in ProbeMsg PROVE NextRound(m) \in Message
<1> DEFINE r == ProbeRestart(m)
           x == [r EXCEPT !.type = "weightless"]
           y == [x EXCEPT !.hops = 1]
           n == r.start - m.hops
<1>1. r \in ProbeMsg
  BY RestartTyped
<1>2. NextRound(m) = [y EXCEPT !.start = n]
  BY DEF NextRound
<1> HIDE DEF r
<1>3. x \in ProbeMsg
  BY <1>1, FieldTyped DEF ProbeType
<1> HIDE DEF x
<1>4. y \in ProbeMsg
  BY <1>3, FieldTyped
<1>5. n \in Int
  BY <1>1, FieldTyped
<1> HIDE DEF y, n
<1> QED BY <1>2, <1>4, <1>5, FieldTyped DEF Message

LEMMA StopMessagesTyped ==
  ASSUME NEW heads, NEW t \in SignalType
  PROVE  StopMessages(heads, t) \in Out
<1>1. <<Signal(t)>> \in Seq(Message) /\ <<Signal("topo_kill")>> \in Seq(Message)
        /\ <<Signal("kill")>> \in Seq(Message) /\ <<>> \in Seq(Message)
  BY SignalTyped DEF SignalType
<1> QED BY <1>1 DEF StopMessages, Out

-----------------------------------------------------------------------------
(***************************************************************************)
(* Each component's step keeps the types.                                  *)
(***************************************************************************)

LEMMA ExecutorTyped == ASSUME Typed, ExecutorMoves PROVE Typed' /\ Shape(Executor)
<1> USE DEF ExecutorMoves
<1>s. SystemTypeOK /\ ExecTypeOK /\ RgTypeOK /\ RgIndexed /\ Executor \in Actor
  BY MainActorsAreActors DEF Typed
<1>c. configured \in SUBSET Actor /\ timers \in SUBSET Timer /\ live \in SUBSET Actor
  BY <1>s DEF SystemTypeOK
<1>u. UNCHANGED <<benchVars, topoVars, collectorVars, main_pc>>
  OBVIOUS
<1>h. ASSUME NEW t, Receives(Executor, t)
      PROVE  mbox[Executor] # <<>> /\ Head(mbox[Executor]).type = t
  BY <1>h DEF Receives
<1> SUFFICES Sound(Executor) /\ ExecTypeOK' /\ RgTypeOK' /\ RgIndexed'
  BY <1>u DEF Sound, Typed, BenchTypeOK, PoolGiven, TopoTyped, CollectorTypeOK, benchVars,
              topoVars, collectorVars
<1>g. ASSUME UNCHANGED rgVars PROVE RgTypeOK' /\ RgIndexed'
  BY <1>g, <1>s DEF rgVars, RgTypeOK, RgIndexed, Receivers
<1>e. ASSUME UNCHANGED execVars PROVE ExecTypeOK'
  BY <1>e, <1>s DEF execVars, ExecTypeOK
<1>st. ASSUME NEW t, Receives(Executor, t), NEW out \in Out,
              NEW alive \in SUBSET Actor, NEW pending \in SUBSET Timer,
              Step(Executor, out, alive, pending), UNCHANGED configured
       PROVE  Sound(Executor)
  BY <1>st, <1>s, <1>c, <1>h, StepTyped, MainActorsAreActors
<1>1. CASE ExecInit
  <2>1. Sound(Executor)
    BY <1>1, <1>s, <1>c, HandledTyped, SilentTyped DEF ExecInit
  <2>2. ExecTypeOK'
    BY <1>1, <1>s, MainActorsAreActors, ConfigAssumption
       DEF ExecInit, ExecTypeOK, Links, is_valid
  <2> QED BY <1>1, <1>g, <2>1, <2>2 DEF ExecInit
<1>2. CASE Sysconfig
  <2>1. Sent(Executor, BenchmarkSignal) \in Out
    BY SentTyped, StartTyped, MainActorsAreActors
  <2>2. Sent(topo_builder_, Signal("make_linear_chain")) \in Out
    BY <1>s, SentTyped, SignalTyped DEF ExecTypeOK, SignalType
  <2>3. Sound(Executor)
    BY <1>2, <1>s, <1>c, <2>1, <2>2, HandledTyped DEF Sysconfig
  <2> QED BY <1>2, <1>g, <1>e, <2>3 DEF Sysconfig
<1>3. CASE SystemBuilding
  <2>1. Sent(Executor, Signal("sysconfig")) \in Out
    BY SentTyped, SignalTyped, MainActorsAreActors DEF SignalType
  <2>2. Sound(Executor)
    BY <1>3, <1>s, <1>c, <2>1, HandledTyped DEF SystemBuilding
  <2>3. Head(mbox[Executor]).head \in ChainActor
    BY <1>3, <1>s, <1>h, HeadTyped DEF SystemBuilding, HeadMsg
  <2>4. ExecTypeOK'
    BY <1>3, <1>s, <2>3 DEF SystemBuilding, ExecTypeOK, handleVars, countVars
  <2> QED BY <1>3, <1>g, <2>2, <2>4 DEF SystemBuilding
<1>4. CASE SerialBenchmark
  <2>1. CASE SerialRefuses
    BY <1>4, <2>1, <1>s, <1>c, <1>g, <1>e, HandledTyped, SilentTyped DEF SerialBenchmark
  <2>2. CASE ~ SerialRefuses
    <3>1. Sent(Executor, SerialStart) \in Out
      BY SentTyped, StartTyped, MainActorsAreActors
    <3>2. (timers \cup SerialTimers) \in SUBSET Timer
      BY <1>c, TimersTyped
    <3>3. Sound(Executor)
      BY <1>4, <2>2, <3>1, <3>2, <1>c, <1>st DEF SerialBenchmark
    <3> QED BY <1>4, <1>g, <1>e, <3>3 DEF SerialBenchmark
  <2> QED BY <2>1, <2>2
<1>5. CASE Serial
  <2>1. Head(mbox[Executor]) \in ProbeMsg
    BY <1>5, <1>s, <1>h, HeadTyped DEF Serial, ProbeType
  <2> DEFINE out == [h \in Handle |-> IF h \in SerialTargets
                                      THEN <<NextRound(Head(mbox[Executor]))>>
                                      ELSE <<>>]
  <2>2. out \in Out
    <3>1. <<NextRound(Head(mbox[Executor]))>> \in Seq(Message)
      BY <2>1, NextRoundTyped
    <3> QED BY <3>1 DEF Out
  <2> HIDE DEF out
  <2>3. Sound(Executor)
    <3>1. CASE heads_ = <<>>
      BY <1>5, <3>1, <1>s, CrashTyped DEF Serial
    <3>2. CASE heads_ # <<>>
      <4>1. Receives(Executor, "serial") /\ Handled(Executor, out) /\ UNCHANGED configured
        BY <1>5, <3>2 DEF Serial, out
      <4> QED BY <4>1, <2>2, <1>s, <1>c, HandledTyped
    <3> QED BY <3>1, <3>2
  <2>4. ExecTypeOK'
    BY <1>5, <1>s, MaxRepsAssumption DEF Serial, ExecTypeOK, RepsAfter, handleVars
  <2> QED BY <1>5, <1>g, <2>3, <2>4 DEF Serial
<1>6. ASSUME NEW t, UpdateMetrics(t),
             t \in {"serial_update_metrics", "parallel_update_metrics"}
      PROVE  Sound(Executor) /\ ExecTypeOK' /\ RgTypeOK' /\ RgIndexed'
  <2>1. (timers \cup {Later(Executor, t)}) \in SUBSET Timer
    BY <1>6, <1>c, TimersTyped
  <2>2. Sound(Executor)
    BY <1>6, <2>1, <1>c, <1>st, SilentTyped DEF UpdateMetrics
  <2> QED BY <1>6, <1>g, <1>e, <2>2 DEF UpdateMetrics
<1>7. CASE SerialKill
  <2>1. ExecTypeOK'
    BY <1>7, <1>s, MainActorsAreActors
       DEF SerialKill, Stopped, ExecTypeOK, handleVars, countVars
  <2>2. CASE heads_ = <<>> \/ nsteps_ * rep_counter_ = 0
            \/ total_latency_ = 0
    BY <1>7, <2>1, <2>2, <1>s, <1>g, CrashTyped DEF SerialKill
  <2>3. CASE ~ (heads_ = <<>> \/ nsteps_ * rep_counter_ = 0
               \/ total_latency_ = 0)
    <3> DEFINE result == IF IsCrossTimes THEN "serial_collect_xtimes"
                                         ELSE "serial_collect"
    <3>1. StopMessages({heads_[1]}, result) \in Out
      BY StopMessagesTyped DEF SignalType
    <3>2. (timers \cup {Later(Executor, "end")}) \in SUBSET Timer
      BY <1>c, TimersTyped
    <3>3. Sound(Executor)
      BY <1>7, <2>3, <3>1, <3>2, <1>c, <1>st DEF SerialKill
    <3> QED BY <1>7, <1>g, <2>1, <3>3 DEF SerialKill
  <2> QED BY <2>2, <2>3
<1>8. CASE ParallelBenchmark
  <2>1. (timers \cup ParallelTimers) \in SUBSET Timer
    BY <1>c, TimersTyped
  <2>2. Sound(Executor)
    BY <1>8, <2>1, <1>c, <1>st, SilentTyped DEF ParallelBenchmark
  <2>3. RgTypeOK' /\ RgIndexed'
    BY <1>8, <1>s
       DEF ParallelBenchmark, SpawnRateGenerator, RgTypeOK, RgIndexed, ExecTypeOK
  <2> QED BY <1>8, <1>e, <2>2, <2>3 DEF ParallelBenchmark
<1>9. CASE Parallel
  <2> DEFINE m == Head(mbox[Executor])
  <2>1. m \in ProbeMsg
    BY <1>9, <1>s, <1>h, HeadTyped DEF Parallel, ProbeType
  <2>2. m.hops \in Nat /\ [id |-> m.id, chain |-> m.chain] \in [id : Nat, chain : Nat]
    BY <2>1, FieldTyped
  <2>3. CASE Summable(m.hops)
    <3>1. Sound(Executor)
      BY <1>9, <2>3, <1>s, <1>c, HandledTyped, SilentTyped DEF Parallel
    <3> DEFINE r == [id |-> m.id, chain |-> m.chain]
               R == [id : Nat, chain : Nat]
    <3>2. received' \in Seq(R)
      <4>1. received' = Append(received, r)
        BY <1>9, <2>3 DEF Parallel
      <4>2. r \in R /\ received \in Seq(R)
        BY <2>2, <1>s DEF ExecTypeOK
      <4> HIDE DEF r, R
      <4> QED BY <4>1, <4>2
    <3>3. ct_hops' \in Nat
      BY <1>9, <2>2, <2>3, <1>s DEF Parallel, ExecTypeOK
    <3>4. ExecTypeOK'
      BY <1>9, <3>2, <3>3, <1>s DEF Parallel, ExecTypeOK, handleVars
    <3> QED BY <1>9, <1>g, <3>1, <3>4 DEF Parallel
  <2>4. CASE ~ Summable(m.hops)
    <3>1. ExecTypeOK'
      BY <1>9, <2>4, <1>s DEF Parallel, ExecTypeOK, handleVars
    <3> QED BY <1>9, <2>4, <3>1, <1>g, <1>s, CrashTyped DEF Parallel
  <2> QED BY <2>3, <2>4
<1>10. CASE ParallelKill
  <2>0. /\ topo_builder_' \in Handle /\ results_collector_' \in Handle
        /\ heads_' \in Seq(ChainActor)
    <3>1. heads_' \in {heads_, <<>>} /\ topo_builder_' \in {topo_builder_, Null}
            /\ results_collector_' \in {results_collector_, Null}
      <4>1. CASE nsteps_ = 0
        BY <1>10, <4>1 DEF ParallelKill, handleVars
      <4>2. CASE nsteps_ # 0
        BY <1>10, <4>2 DEF ParallelKill, Stopped
      <4> QED BY <4>1, <4>2
    <3>2. <<>> \in Seq(ChainActor)
      OBVIOUS
    <3> QED BY <3>1, <3>2, <1>s, MainActorsAreActors DEF ExecTypeOK
  <2>1. ExecTypeOK'
    BY <1>10, <1>s, <2>0 DEF ParallelKill, ExecTypeOK, countVars
  <2>2. CASE nsteps_ = 0
    BY <1>10, <2>1, <2>2, <1>s, <1>g, CrashTyped DEF ParallelKill
  <2>3. CASE nsteps_ # 0
    <3> DEFINE result == IF IsCrossTimes THEN "rec_collect_xtimes"
                                         ELSE "rec_collect"
               heads == {heads_[i] : i \in 1 .. Len(heads_)}
    <3>1. StopMessages(heads, result) \in Out
      BY StopMessagesTyped DEF SignalType
    <3>2. (timers \cup {Later(Executor, "end")}) \in SUBSET Timer
      BY <1>c, TimersTyped
    <3>3. Sound(Executor)
      BY <1>10, <2>3, <3>1, <3>2, <1>c, <1>st DEF ParallelKill
    <3> QED BY <1>10, <1>g, <2>1, <3>3 DEF ParallelKill
  <2> QED BY <2>2, <2>3
<1>11. CASE End
  <2>1. (live \ {Executor}) \in SUBSET Actor
    BY <1>c
  <2>2. Sound(Executor)
    BY <1>11, <2>1, <1>c, <1>st, SilentTyped DEF End
  <2> QED BY <1>11, <1>g, <1>e, <2>2 DEF End
<1> QED
  BY <1>1, <1>2, <1>3, <1>4, <1>5, <1>6, <1>7, <1>8, <1>9, <1>10, <1>11
     DEF ExecutorStep

LEMMA NextIndexTyped ==
  ASSUME NEW i \in Nat \cup {-1}, Receivers \in Nat, Receivers > 0
  PROVE  NextIndex(i) \subseteq 0 .. Receivers - 1
<1>1. (i + 1) % Receivers \in 0 .. Receivers - 1
  OBVIOUS
<1> QED BY <1>1 DEF NextIndex

LEMMA RgTyped == ASSUME Typed, RgMoves PROVE Typed' /\ Shape(Null)
<1> USE DEF RgMoves
<1>s. SystemTypeOK /\ RgTypeOK /\ RgIndexed /\ Receivers \in Nat
  BY DEF Sound, Typed, RgTypeOK, Receivers
<1> SUFFICES Sound(Null) /\ RgTypeOK' /\ RgIndexed'
  BY DEF Sound, Typed, ExecTypeOK, BenchTypeOK, PoolGiven, TopoTyped, CollectorTypeOK,
         execVars, benchVars, topoVars, collectorVars
<1>1. CASE RgStart
  <2>1. CASE Receivers = 0
    BY <1>1, <2>1, <1>s, CrashTyped DEF RgStart, rgVars, RgTypeOK, RgIndexed, Receivers
  <2>2. CASE Receivers # 0
    <3>1. rg_index' \in 0 .. Receivers - 1
      BY <1>1, <2>2, <1>s, NextIndexTyped DEF RgStart
    <3>2. Sound(Null)
      BY <1>1, <2>2, <1>s, StillSound DEF RgStart
    <3> QED BY <1>1, <2>2, <1>s, <3>1, <3>2 DEF RgStart, RgTypeOK, RgIndexed, Receivers
  <2> QED BY <2>1, <2>2
<1>2. CASE RgSend
  <2> DEFINE head == rg_receivers[rg_index + 1]
  <2>1. head \in ChainActor
    BY <1>2, <1>s DEF RgSend, Sending, RgTypeOK, RgIndexed, Receivers
  <2>2. NewMsg(head[1]) \in ProbeMsg
    <3>1. head[1] \in Nat
      BY <2>1, ConfigAssumption DEF ChainActor
    <3> HIDE DEF head
    <3> QED BY <3>1, <1>s DEF NewMsg, NotStarted, ProbeMsg, ProbeType, RgTypeOK
  <2>3. Sent(head, NewMsg(head[1])) \in Out
    BY <2>1, <2>2, SentTyped DEF Message, Handle, Actor
  <2>4. Sound(Null)
    BY <1>2, <1>s, <2>3, PostedTyped DEF RgSend
  <2>5. rg_index' \in 0 .. Receivers - 1
    BY <1>2, <1>s, NextIndexTyped DEF RgSend, Sending, RgTypeOK, RgIndexed
  <2>6. rg_batch' \in Nat /\ msg_counter_' \in Nat
    BY <1>2, <1>s DEF RgSend, RgTypeOK, BatchAfter
  <2> QED BY <1>2, <1>s, <2>4, <2>5, <2>6 DEF RgSend, Sending, RgTypeOK, RgIndexed, Receivers
<1>3. CASE RgFinish
  <2>1. Sent(Collector, Signal("send_collect")) \in Out
    BY SentTyped, SignalTyped, MainActorsAreActors DEF SignalType
  <2>2. Sound(Null)
    BY <1>3, <1>s, <2>1, PostedTyped DEF RgFinish
  <2> QED BY <1>3, <1>s, <2>2 DEF RgFinish, RgTypeOK, RgIndexed
<1>4. CASE RgFirstHop
  BY <1>4, <1>s, UndefinedTyped DEF RgFirstHop, rgVars, RgTypeOK, RgIndexed, Receivers
<1> QED BY <1>1, <1>2, <1>3, <1>4 DEF RgStep

-----------------------------------------------------------------------------
LEMMA StopTyped == ASSUME NEW m \in ProbeMsg PROVE ProbeStop(m) \in ProbeMsg
BY FieldTyped DEF ProbeStop

\* A measurement that is sent on is still a message.
LEMMA ForwardTyped ==
  ASSUME NEW m \in ProbeMsg, NEW t \in ProbeType
  PROVE  [m EXCEPT !.type = t, !.hops = @ + 1] \in Message
<1> DEFINE x == [m EXCEPT !.type = t]
           n == m.hops + 1
<1>1. x \in ProbeMsg /\ n \in Nat
  BY FieldTyped
<1>2. [m EXCEPT !.type = t, !.hops = @ + 1] = [x EXCEPT !.hops = n]
  BY FieldTyped
<1> HIDE DEF x, n
<1> QED BY <1>1, <1>2, FieldTyped DEF Message

LEMMA RelayTyped ==
  ASSUME SystemTypeOK, BenchTypeOK, PoolGiven, NEW a \in ChainActor, NEW s,
         Receives(a, s), NEW dst \in Handle, NEW t \in ProbeType,
         NEW m \in ProbeMsg, Relay(a, dst, t, m), UNCHANGED <<configured, linkVars>>
  PROVE  Sound(a) /\ BenchTypeOK' /\ PoolGiven'
<1> DEFINE out == Sent(dst, [m EXCEPT !.type = t, !.hops = @ + 1])
           p == <<0, index_>>
           jobs == [out EXCEPT ![p] = <<Signal("detached_msg")>>]
<1>1. out \in Out
  BY ForwardTyped, SentTyped
<1>2. a \in Actor /\ configured' \in SUBSET Actor
  BY DEF Actor, SystemTypeOK
<1>3. CASE detached_pool_[a]
  <2>1. DetachedPool > 0
    BY <1>3 DEF PoolGiven
  <2>2. p \in PoolActor
    BY <2>1, ConfigAssumption DEF BenchTypeOK, PoolActor
  <2>3. jobs \in Out
    <3>1. <<Signal("detached_msg")>> \in Seq(Message)
      BY SignalTyped DEF SignalType
    <3> HIDE DEF out, p
    <3> QED BY <1>1, <2>2, <3>1 DEF Out
  <2>4. Handled(a, jobs) /\ index_' = NextInPool(index_)
          /\ pool_jobs' = [pool_jobs EXCEPT ![p] = @ + 1]
    BY <1>3 DEF Relay
  <2>5. Sound(a)
    <3> HIDE DEF jobs
    <3> QED BY <2>3, <2>4, <1>2, HandledTyped
  <2>6. index_' \in 0 .. DetachedPool - 1
    BY <2>1, <2>4, ConfigAssumption DEF NextInPool, BenchTypeOK
  <2>7. pool_jobs' \in [PoolActor -> Nat]
    <3> HIDE DEF p
    <3> QED BY <2>2, <2>4 DEF BenchTypeOK
  <2> QED BY <2>5, <2>6, <2>7 DEF BenchTypeOK, PoolGiven, linkVars
<1>4. CASE ~ detached_pool_[a]
  <2>1. Handled(a, out) /\ UNCHANGED poolVars
    BY <1>4 DEF Relay
  <2>2. Sound(a)
    <3> HIDE DEF out
    <3> QED BY <1>1, <1>2, <2>1, HandledTyped
  <2> QED BY <2>1, <2>2 DEF BenchTypeOK, PoolGiven, linkVars, poolVars
<1> QED BY <1>3, <1>4

LEMMA ReportTyped ==
  ASSUME SystemTypeOK, BenchTypeOK, PoolGiven, NEW a \in ChainActor, NEW s,
         Receives(a, s), NEW t \in ProbeType, NEW m \in ProbeMsg,
         Report(a, t, m), UNCHANGED <<configured, linkVars>>
  PROVE  Sound(a) /\ BenchTypeOK' /\ PoolGiven'
<1> DEFINE out == Sent(executor_[a],
                       [ProbeStop(m) EXCEPT !.type = t, !.hops = @ + 1])
<1>1. out \in Out
  BY StopTyped, ForwardTyped, SentTyped DEF BenchTypeOK
<1>2. a \in Actor /\ configured' \in SUBSET Actor
  BY DEF Actor, SystemTypeOK
<1>3. Handled(a, out) /\ UNCHANGED poolVars
  BY DEF Report
<1>4. Sound(a)
  <2> HIDE DEF out
  <2> QED BY <1>1, <1>2, <1>3, HandledTyped
<1> QED BY <1>3, <1>4 DEF BenchTypeOK, PoolGiven, linkVars, poolVars

\* The four handlers that pass a measurement on.
LEMMA PassOnTyped ==
  ASSUME SystemTypeOK, BenchTypeOK, PoolGiven, NEW a \in ChainActor,
         \/ Weightless(a) \/ WeightlessBack(a) \/ TimedMsg(a) \/ TimedMsgBack(a)
  PROVE  Sound(a) /\ BenchTypeOK' /\ PoolGiven'
<1>1. a \in Actor /\ next_[a] \in Handle /\ prev_[a] \in Handle
  BY DEF Actor, BenchTypeOK
<1>2. ASSUME NEW t \in ProbeType, Receives(a, t)
      PROVE  /\ Head(mbox[a]) \in ProbeMsg
             /\ RestartAtHead(a, Head(mbox[a])) \in ProbeMsg
  <2>1. Head(mbox[a]) \in ProbeMsg
    BY <1>1, <1>2, HeadTyped DEF Receives
  <2> QED BY <2>1, RestartTyped DEF RestartAtHead
<1>3. ASSUME NEW s, Receives(a, s), NEW m \in ProbeMsg, NEW forth \in ProbeType,
             NEW back \in ProbeType, NEW done \in ProbeType,
             SendForth(a, forth, back, done, m), UNCHANGED <<configured, linkVars>>
      PROVE  Sound(a) /\ BenchTypeOK' /\ PoolGiven'
  BY <1>1, <1>3, RelayTyped, ReportTyped DEF SendForth
<1>4. ASSUME NEW s, Receives(a, s), NEW m \in ProbeMsg,
             NEW back \in ProbeType, NEW done \in ProbeType,
             SendBack(a, back, done, m), UNCHANGED <<configured, linkVars>>
      PROVE  Sound(a) /\ BenchTypeOK' /\ PoolGiven'
  BY <1>1, <1>4, RelayTyped, ReportTyped DEF SendBack
<1>5. CASE Weightless(a)
  BY <1>5, <1>2, <1>3 DEF Weightless, ProbeType
<1>6. CASE WeightlessBack(a)
  BY <1>6, <1>2, <1>4 DEF WeightlessBack, ProbeType
<1>7. CASE TimedMsg(a)
  BY <1>7, <1>2, <1>3 DEF TimedMsg, ProbeType
<1>8. CASE TimedMsgBack(a)
  BY <1>8, <1>2, <1>4 DEF TimedMsgBack, ProbeType
<1> QED BY <1>5, <1>6, <1>7, <1>8

LEMMA ChainTyped == ASSUME Typed, NEW a \in ChainActor, ChainMoves(a) PROVE Typed' /\ Shape(a)
<1> USE DEF ChainMoves
<1>s. /\ SystemTypeOK /\ BenchTypeOK /\ PoolGiven /\ a \in Actor
      /\ configured \in SUBSET Actor /\ timers \in SUBSET Timer /\ live \in SUBSET Actor
  BY DEF Sound, Typed, SystemTypeOK, Actor
<1> SUFFICES Sound(a) /\ BenchTypeOK' /\ PoolGiven'
  BY DEF Sound, Typed, ExecTypeOK, RgTypeOK, RgIndexed, Receivers, TopoTyped,
         CollectorTypeOK, execVars, rgVars, topoVars, collectorVars
<1>1. CASE InitBench(a)
  <2> DEFINE m == Head(mbox[a])
             reply == [type |-> "init_bench_reply", head |-> HeadOf(a[1])]
  <2>1. m.prev \in Handle /\ m.next \in Handle /\ m.executor \in Handle
    BY <1>1, <1>s, HeadTyped DEF InitBench, Receives, InitBenchMsg
  <2>2. reply \in Message
    <3>1. HeadOf(a[1]) \in ChainActor
      BY ConfigAssumption DEF HeadOf, ChainActor, is_valid
    <3> QED BY <3>1 DEF Message, HeadMsg
  <2>3. Sent(TopoBuilder, reply) \in Out
    BY <2>2, SentTyped, MainActorsAreActors
  <2>4. Sound(a)
    BY <1>1, <1>s, <2>3, HandledTyped DEF InitBench
  <2>5. /\ prev_' = [prev_ EXCEPT ![a] = m.prev]
        /\ next_' = [next_ EXCEPT ![a] = m.next]
        /\ executor_' = [executor_ EXCEPT ![a] = m.executor]
        /\ detached_pool_' = [detached_pool_ EXCEPT
                                ![a] = DetachedPool > 0 /\ a[2] = sender_to_detached_]
        /\ UNCHANGED <<sender_to_detached_, poolVars>>
    BY <1>1 DEF InitBench
  <2> HIDE DEF m
  <2>6. PoolGiven'
    BY <2>5, <1>s DEF PoolGiven, BenchTypeOK
  <2>7. BenchTypeOK'
    BY <2>1, <2>5, <1>s DEF BenchTypeOK, poolVars
  <2> QED BY <2>4, <2>6, <2>7
<1>2. CASE Weightless(a) \/ WeightlessBack(a) \/ TimedMsg(a) \/ TimedMsgBack(a)
  BY <1>2, <1>s, PassOnTyped
<1>3. CASE Kill(a)
  <2>1. Sent(KillTarget(a), Signal("kill")) \in Out
    BY <1>s, SentTyped, SignalTyped DEF BenchTypeOK, SignalType, KillTarget
  <2>2. (live \ {a}) \in SUBSET Actor /\ a \in Handle /\ mbox[a] # <<>>
    BY <1>3, <1>s, MainActorsAreActors DEF Kill, Receives
  <2>3. Sound(a)
    BY <1>3, <1>s, <2>1, <2>2, StepTyped DEF Kill
  <2>4. BenchTypeOK' /\ PoolGiven'
    BY <1>3, <1>s, MainActorsAreActors DEF Kill, BenchTypeOK, PoolGiven, poolVars
  <2> QED BY <2>3, <2>4
<1> QED BY <1>1, <1>2, <1>3 DEF ChainActorStep

LEMMA PoolTyped == ASSUME Typed, NEW p \in PoolActor, PoolMoves(p) PROVE Typed' /\ Shape(p)
<1> USE DEF PoolMoves
<1>s. SystemTypeOK /\ p \in Actor /\ configured \in SUBSET Actor
  BY DEF Sound, Typed, SystemTypeOK, Actor
<1>1. Sent(TopoBuilder, Signal("init_detached_reply")) \in Out
  BY SentTyped, SignalTyped, MainActorsAreActors DEF SignalType
<1>2. Sound(p) /\ UNCHANGED benchVars
  <2>1. CASE InitDetached(p)
    BY <1>s, <1>1, <2>1, HandledTyped DEF InitDetached
  <2>2. CASE DetachedMsg(p)
    BY <1>s, <2>2, HandledTyped, SilentTyped DEF DetachedMsg
  <2> QED BY <2>1, <2>2 DEF PoolActorStep
<1> QED
  BY <1>2 DEF Sound, Typed, ExecTypeOK, RgTypeOK, RgIndexed, Receivers, BenchTypeOK, PoolGiven,
     TopoTyped, CollectorTypeOK, execVars, rgVars, benchVars, topoVars, collectorVars

-----------------------------------------------------------------------------
LEMMA NeighboursTyped ==
  ASSUME NEW a \in ChainActor PROVE Previous(a) \in Handle /\ Following(a) \in Handle
<1>1. a[1] \in 1 .. ChainsNumber /\ a[2] \in 0 .. PipelineActors - 1
  BY DEF ChainActor
<1>2. a[2] > 0 => <<a[1], a[2] - 1>> \in ChainActor
  BY <1>1, ConfigAssumption DEF ChainActor
<1>3. a[2] < PipelineActors - 1 => <<a[1], a[2] + 1>> \in ChainActor
  BY <1>1, ConfigAssumption DEF ChainActor
<1> QED BY <1>2, <1>3 DEF Previous, Following, Handle, Actor

LEMMA TopoStepTyped == ASSUME Typed, TopoMoves PROVE Typed' /\ Shape(TopoBuilder)
<1> USE DEF TopoMoves
<1>s. /\ SystemTypeOK /\ TopoTyped /\ TopoBuilder \in Actor /\ TopoBuilder \in Handle
      /\ configured \in SUBSET Actor /\ timers \in SUBSET Timer /\ live \in SUBSET Actor
  BY MainActorsAreActors DEF Typed, SystemTypeOK
<1> SUFFICES Sound(TopoBuilder) /\ TopoTyped'
  BY DEF Sound, Typed, ExecTypeOK, RgTypeOK, RgIndexed, Receivers, BenchTypeOK, PoolGiven,
         CollectorTypeOK, execVars, rgVars, benchVars, collectorVars
<1>1. CASE InitTopo
  <2> DEFINE out == [h \in Handle |-> IF h \in PoolActor
                                      THEN <<Signal("init_detached")>> ELSE <<>>]
  <2>1. out \in Out
    <3>1. Signal("init_detached") \in Message
      BY SignalTyped DEF SignalType
    <3> QED BY <3>1 DEF Out
  <2>2. (live \cup PoolActor) \in SUBSET Actor /\ configured' \in SUBSET Actor
    BY <1>1, <1>s DEF InitTopo, Actor
  <2>3. Sound(TopoBuilder)
    <3>1. mbox[TopoBuilder] # <<>> /\ Step(TopoBuilder, out, live \cup PoolActor, timers)
      BY <1>1 DEF InitTopo, Receives
    <3> HIDE DEF out
    <3> QED BY <1>s, <2>1, <2>2, <3>1, StepTyped
  <2>4. TopoTyped'
    BY <1>1, <1>s, ConfigAssumption, MainActorsAreActors DEF InitTopo, TopoTyped
  <2> QED BY <2>3, <2>4
<1>2. CASE InitDetachedReply
  BY <1>2, <1>s, HandledTyped, SilentTyped DEF InitDetachedReply, TopoTyped, topoVars
<1>3. CASE MakeLinearChain
  <2> DEFINE chain == ChainOf(chains_built + 1)
             out == [h \in Handle |-> IF h \in chain THEN <<InitRequest(h)>> ELSE <<>>]
  <2>1. out \in Out
    <3>1. \A h \in chain : InitRequest(h) \in Message
      BY <1>s, NeighboursTyped
         DEF ChainOf, InitRequest, Message, InitBenchMsg, TopoTyped
    <3> HIDE DEF chain
    <3> QED BY <3>1 DEF Out
  <2>2. (live \cup chain) \in SUBSET Actor
    BY <1>s DEF Actor, ChainOf
  <2>3. Sound(TopoBuilder)
    <3>1. mbox[TopoBuilder] # <<>> /\ Step(TopoBuilder, out, live \cup chain, timers)
            /\ configured' \in SUBSET Actor
      BY <1>3, <1>s DEF MakeLinearChain, Receives
    <3> HIDE DEF out, chain
    <3> QED BY <1>s, <2>1, <2>2, <3>1, StepTyped
  <2>4. TopoTyped'
    BY <1>3, <1>s, ConfigAssumption DEF MakeLinearChain, TopoTyped
  <2> QED BY <2>3, <2>4
<1>4. CASE InitBenchReply
  <2> DEFINE m == [type |-> "system_building", head |-> Head(mbox[TopoBuilder]).head]
  <2>1. m \in Message
    <3>1. Head(mbox[TopoBuilder]) \in HeadMsg
      BY <1>4, <1>s, HeadTyped DEF InitBenchReply, Receives
    <3> QED BY <3>1 DEF HeadMsg, Message
  <2>2. Sent(topo_executor_, m) \in Out
    BY <1>s, <2>1, SentTyped DEF TopoTyped
  <2>3. Sound(TopoBuilder)
    <3>1. Handled(TopoBuilder, Sent(topo_executor_, m)) \/ Handled(TopoBuilder, Silent)
      BY <1>4 DEF InitBenchReply
    <3> HIDE DEF m
    <3> QED BY <1>4, <1>s, <2>2, <3>1, HandledTyped, SilentTyped DEF InitBenchReply
  <2>4. TopoTyped'
    BY <1>4, <1>s, ConfigAssumption DEF InitBenchReply, TopoTyped, RepliesLeft
  <2> QED BY <2>3, <2>4
<1>5. CASE TopoKill
  <2>1. (live \ {TopoBuilder}) \in SUBSET Actor /\ mbox[TopoBuilder] # <<>>
    BY <1>5, <1>s DEF TopoKill, Receives
  <2>2. Sound(TopoBuilder)
    BY <1>5, <1>s, <2>1, StepTyped, SilentTyped DEF TopoKill
  <2> QED BY <1>5, <1>s, <2>2, MainActorsAreActors DEF TopoKill, TopoTyped
<1> QED BY <1>1, <1>2, <1>3, <1>4, <1>5 DEF TopoStep

-----------------------------------------------------------------------------
LEMMA ConcatTyped ==
  ASSUME NEW S, NEW s \in Seq(S), NEW t \in Seq(S) PROVE s \o t \in Seq(S)
OBVIOUS

LEMMA ColumnsTyped ==
  /\ SenderColumns \in Seq(Column)
  /\ <<"number of actors">> \in Seq(Column) /\ <<>> \in Seq(Column)
  /\ Header \in Seq(Column)
  /\ \A t \in FinalType : Columns(t) \in Seq(Column)
<1>1. /\ SenderColumns \in Seq(Column) /\ ReceiverColumns \in Seq(Column)
      /\ SerialColumns \in Seq(Column) /\ DetailColumns \in Seq(Column)
      /\ <<"number of actors">> \in Seq(Column) /\ <<"sender to pipeline">> \in Seq(Column)
      /\ <<>> \in Seq(Column)
  BY DEF SenderColumns, ReceiverColumns, SerialColumns, DetailColumns, Column
<1>2. CrossTimesColumns \in Seq(Column)
  BY <1>1, ConcatTyped DEF CrossTimesColumns
<1>3. Header \in Seq(Column)
  BY <1>1, <1>2, ConcatTyped DEF Header
<1>4. \A t \in FinalType : Columns(t) \in Seq(Column)
  BY <1>1, <1>2, ConcatTyped DEF FinalType, Columns
<1> QED BY <1>1, <1>3, <1>4

LEMMA CollectorTyped == ASSUME Typed, CollectorMoves PROVE Typed' /\ Shape(Collector)
<1> USE DEF CollectorMoves
<1>s. /\ SystemTypeOK /\ CollectorTypeOK /\ Collector \in Actor /\ Collector \in Handle
      /\ configured \in SUBSET Actor /\ timers \in SUBSET Timer /\ live \in SUBSET Actor
  BY MainActorsAreActors DEF Typed, SystemTypeOK
<1> SUFFICES Sound(Collector) /\ CollectorTypeOK'
  BY DEF Sound, Typed, ExecTypeOK, RgTypeOK, RgIndexed, Receivers, BenchTypeOK, PoolGiven,
         TopoTyped, execVars, rgVars, benchVars, topoVars
<1>t. ASSUME NEW t, Receives(Collector, t), NEW timer \in Timer,
             Step(Collector, Silent, live, timers \cup {timer}),
             configured' \in SUBSET Actor
      PROVE  Sound(Collector)
  <2>1. (timers \cup {timer}) \in SUBSET Timer /\ mbox[Collector] # <<>>
    BY <1>s, <1>t DEF Receives
  <2> QED BY <1>s, <1>t, <2>1, StepTyped, SilentTyped
<1>1. CASE RcInit
  <2>1. Sound(Collector)
    BY <1>1, <1>s, <1>t, TimersTyped DEF RcInit
  <2>2. header' \in Seq(Column) /\ row' \in Seq(Column)
    BY <1>1, ColumnsTyped DEF RcInit
  <2> QED BY <1>1, <1>s, <2>1, <2>2 DEF RcInit, CollectorTypeOK
<1>2. CASE SendCollect
  <2>1. Sound(Collector)
    BY <1>2, <1>s, HandledTyped, SilentTyped DEF SendCollect
  <2>2. row' \in Seq(Column)
    BY <1>2, <1>s, ColumnsTyped, ConcatTyped DEF SendCollect, CollectorTypeOK
  <2> QED BY <1>2, <1>s, <2>1, <2>2 DEF SendCollect, CollectorTypeOK
<1>3. ASSUME NEW t \in FinalType, FinalCollect(t)
      PROVE  Sound(Collector) /\ CollectorTypeOK'
  <2>1. Sound(Collector)
    BY <1>3, <1>s, <1>t, TimersTyped DEF FinalCollect
  <2>2. row \o Columns(t) \in Seq(Column)
    BY <1>3, <1>s, ColumnsTyped, ConcatTyped DEF CollectorTypeOK
  <2>3. rows' \in Seq(Seq(Column)) /\ row' \in Seq(Column)
    BY <1>3, <1>s, <2>2 DEF FinalCollect, CollectorTypeOK
  <2> QED BY <1>3, <1>s, <2>1, <2>3 DEF FinalCollect, CollectorTypeOK
<1>4. CASE SysCollect
  <2>1. Later(Collector, "sys_collect") \in Timer
    BY DEF Later, Timer
  <2>2. Sound(Collector)
    BY <1>4, <1>s, <2>1, <1>t DEF SysCollect
  <2> QED BY <1>4, <1>s, <2>2 DEF SysCollect, CollectorTypeOK, collectorVars
<1>5. CASE BenchmarkKill
  BY <1>5, <1>s, StillSound DEF BenchmarkKill, CollectorTypeOK, collectorVars
<1> QED BY <1>1, <1>2, <1>3, <1>4, <1>5 DEF CollectorStep

LEMMA MainTyped == ASSUME Typed, MainStep PROVE Typed' /\ Shape(Null)
<1>1. SystemTypeOK /\ main_pc \in 0 .. 4 /\ Len(MainSends) = 4
  BY DEF Sound, Typed, MainSends
<1>2. \A i \in 1 .. 4 : MainSends[i] \in Out
  <2>1. \A t \in {"init", "rc_init", "exec_init", "sysconfig"} : Signal(t) \in Message
    BY SignalTyped DEF SignalType
  <2> QED BY <2>1, SentTyped, MainActorsAreActors DEF MainSends
<1>3. Sound(Null)
  BY <1>1, <1>2, PostedTyped DEF MainStep
<1>4. main_pc' \in 0 .. Len(MainSends)
  BY <1>1 DEF MainStep
<1> QED
  BY <1>3, <1>4 DEF Sound, MainStep, Typed, ExecTypeOK, RgTypeOK, RgIndexed, Receivers,
     BenchTypeOK, PoolGiven, TopoTyped, CollectorTypeOK, execVars, rgVars, benchVars,
     topoVars, collectorVars

LEMMA ClockTyped == ASSUME Typed, NEW t \in Timer, ClockMoves(t) PROVE Typed' /\ Shape(Null)
<1>1. SystemTypeOK /\ live \in SUBSET Actor /\ (timers \ {t}) \in SUBSET Timer
        /\ configured \in SUBSET Actor
  BY DEF Sound, Typed, SystemTypeOK
<1>2. Sent(t.to, Signal(t.type)) \in Out
  <2>1. t.to \in Handle /\ t.type \in SignalType
    BY MainActorsAreActors DEF Timer, SignalType
  <2> QED BY <2>1, SentTyped, SignalTyped
<1>3. Sound(Null)
  BY <1>1, <1>2, StepTyped, NullNotActor, MainActorsAreActors DEF ClockMoves, Fire
<1> QED
  BY <1>3 DEF Sound, ClockMoves, Typed, ExecTypeOK, RgTypeOK, RgIndexed, Receivers,
     BenchTypeOK, PoolGiven, TopoTyped, CollectorTypeOK, execVars, rgVars, benchVars,
     topoVars, collectorVars

LEMMA NextTyped == Typed /\ [Next]_vars => Typed'
<1> SUFFICES ASSUME Typed, [Next]_vars PROVE Typed'
  OBVIOUS
<1>1. CASE UNCHANGED worldVars
  BY <1>1 DEF worldVars, systemVars, Typed, SystemTypeOK, ExecTypeOK, RgTypeOK, RgIndexed,
     Receivers, BenchTypeOK, PoolGiven, TopoTyped, CollectorTypeOK, execVars, rgVars,
     benchVars, topoVars, collectorVars
<1> QED
  BY <1>1, MainTyped, ExecutorTyped, RgTyped, ChainTyped, PoolTyped, TopoStepTyped,
     CollectorTyped, ClockTyped DEF Next, TimePasses, Terminated, vars

\* Only serial_benchmark_a and the time itself touch the clock of the kill.
LEMMA ClockKept ==
  ASSUME Next
  PROVE  \/ UNCHANGED clockVars
         \/ SerialBenchmark /\ total_latency_' = 0 /\ kill_waits' = 0
         \/ TimePasses
<1>1. ASSUME ExecutorMoves
      PROVE  \/ UNCHANGED clockVars
             \/ SerialBenchmark /\ total_latency_' = 0 /\ kill_waits' = 0
  BY <1>1 DEF ExecutorMoves, ExecutorStep, ExecInit, Sysconfig, SystemBuilding,
     SerialBenchmark, Serial, UpdateMetrics, SerialKill, ParallelBenchmark, Parallel,
     ParallelKill, End
<1>2. UNCHANGED vars => UNCHANGED clockVars
  BY DEF vars
<1> QED
  BY <1>1, <1>2 DEF Next, MainStep, RgMoves, ChainMoves, PoolMoves, TopoMoves,
     CollectorMoves, ClockMoves, Terminated

LEMMA AlwaysClocked == Spec => []ClockTypeOK
<1>1. Init => ClockTypeOK
  BY ConfigAssumption DEF Init, ExecInitState, ClockTypeOK
<1>2. ClockTypeOK /\ [Next]_vars => ClockTypeOK'
  <2>1. ClockTypeOK /\ UNCHANGED clockVars => ClockTypeOK'
    BY DEF ClockTypeOK, clockVars
  <2>2. ClockTypeOK /\ TimePasses => ClockTypeOK'
    BY ConfigAssumption DEF ClockTypeOK, TimePasses, SecondPasses
  <2>3. total_latency_' = 0 /\ kill_waits' = 0 => ClockTypeOK'
    BY ConfigAssumption DEF ClockTypeOK
  <2>4. UNCHANGED vars => UNCHANGED clockVars
    BY DEF vars
  <2> QED BY <2>1, <2>2, <2>3, <2>4, ClockKept
<1> QED BY <1>1, <1>2, PTL DEF Spec

LEMMA AlwaysTyped == Spec => []Typed
<1>1. Init => Typed
  BY InitTyped
<1>2. Typed /\ [Next]_vars => Typed'
  BY NextTyped
<1> QED BY <1>1, <1>2, PTL DEF Spec

-----------------------------------------------------------------------------
(***************************************************************************)
(* Initialisation before use, for every configuration of the benchmark.    *)
(*                                                                         *)
(* An actor that is not initialised has its initialiser at the front of    *)
(* its mailbox, unless main() has not sent it yet; then the mailbox is     *)
(* empty, since whatever could send to the actor is set in motion by a     *)
(* later message of main().                                                *)
(***************************************************************************)

\* The number of the message of main() that initialises a main actor.
Turn(a) == IF a = TopoBuilder THEN 1 ELSE IF a = Collector THEN 2 ELSE 3

InitialiserFirst(a) == mbox[a] # <<>> /\ Head(mbox[a]).type = Initialiser(a)

First ==
  \A a \in live \ configured :
    \/ InitialiserFirst(a)
    \/ a \in MainActor /\ main_pc < Turn(a)

\* Before its turn a main actor has no messages and is not initialised.
Early ==
  /\ \A a \in MainActor :
       main_pc < Turn(a) => mbox[a] = <<>> /\ a \notin configured
  /\ main_pc < 2 => timers = {}

OfTypes(s, T) == \A i \in DOMAIN s : s[i].type \in T

TopoTypes == {"init", "init_detached_reply"}
CollectorTypes == {"rc_init", "sys_collect"}

\* What the executor sets in motion has not begun.
Idle ==
  Executor \notin configured =>
    /\ live \cap ChainActor = {}
    /\ OfTypes(mbox[TopoBuilder], TopoTypes)
    /\ OfTypes(mbox[Collector], CollectorTypes)
    /\ timers \subseteq {InitTimer}
    /\ rg_state = "absent"

DeadEmpty == \A a \in Actor \ live : mbox[a] = <<>>

SpawnedInTurn ==
  /\ \A a \in live \cap ChainActor : a[1] <= chains_built
  /\ TopoBuilder \notin configured => live \cap PoolActor = {}

CounterOK ==
  /\ counter_ \in 0 .. PipelineActors
  /\ TopoBuilder \in configured => counter_ # 0

Startup == First /\ Early /\ Idle /\ DeadEmpty /\ SpawnedInTurn /\ CounterOK

-----------------------------------------------------------------------------
\* Lemmas about sequences and about who is who.

LEMMA HeadOfConcat ==
  ASSUME NEW s \in Seq(Message), NEW t \in Seq(Message), s # <<>>
  PROVE  s \o t # <<>> /\ Head(s \o t) = Head(s)
OBVIOUS

LEMMA EmptyConcat == ASSUME NEW t \in Seq(Message) PROVE <<>> \o t = t /\ t \o <<>> = t
OBVIOUS

LEMMA OfTypesConcat ==
  ASSUME NEW s \in Seq(Message), NEW t \in Seq(Message), NEW T,
         OfTypes(s, T), OfTypes(t, T)
  PROVE  OfTypes(s \o t, T)
<1> SUFFICES ASSUME NEW i \in 1 .. Len(s) + Len(t) PROVE (s \o t)[i].type \in T
  BY DEF OfTypes
<1>1. CASE i <= Len(s)
  BY <1>1 DEF OfTypes
<1>2. CASE i > Len(s)
  <2>1. (s \o t)[i] = t[i - Len(s)] /\ i - Len(s) \in DOMAIN t
    BY <1>2
  <2> QED BY <2>1 DEF OfTypes
<1> QED BY <1>1, <1>2

LEMMA OfTypesTail ==
  ASSUME NEW s \in Seq(Message), s # <<>>, NEW T, OfTypes(s, T)
  PROVE  OfTypes(Tail(s), T) /\ Head(s).type \in T
<1>1. \A i \in DOMAIN Tail(s) : Tail(s)[i] = s[i + 1] /\ i + 1 \in DOMAIN s
  OBVIOUS
<1>2. 1 \in DOMAIN s /\ Head(s) = s[1]
  OBVIOUS
<1> QED BY <1>1, <1>2 DEF OfTypes

LEMMA ActorKinds ==
  /\ Executor # TopoBuilder /\ Executor # Collector /\ TopoBuilder # Collector
  /\ \A a \in ChainActor \cup PoolActor : a \notin MainActor
  /\ ChainActor \cap PoolActor = {}
  /\ Initialiser(Executor) = "exec_init" /\ Initialiser(TopoBuilder) = "init"
  /\ Initialiser(Collector) = "rc_init"
  /\ \A a \in ChainActor : Initialiser(a) = "init_bench"
  /\ \A p \in PoolActor : Initialiser(p) = "init_detached"
  /\ Turn(TopoBuilder) = 1 /\ Turn(Collector) = 2 /\ Turn(Executor) = 3
  /\ \A a : Turn(a) \in 1 .. 3
<1>1. ChainActor \cap PoolActor = {}
  BY ConfigAssumption DEF ChainActor, PoolActor
<1> QED BY <1>1, ActorAssumption DEF Initialiser, Turn, MainActor

LEMMA MainPc == Typed => main_pc \in 0 .. 4
BY DEF Typed, MainSends

-----------------------------------------------------------------------------
\* What the invariant says of an actor that handles a message.

\* Only the initialiser is handled by an actor that is not initialised.
LEMMA Initialised ==
  ASSUME Startup, NEW a \in Actor, NEW t, Receives(a, t), t # Initialiser(a)
  PROVE  a \in configured
BY DEF Startup, First, Early, Receives, InitialiserFirst

\* A main actor that handles a message has had its turn.
LEMMA TurnPassed ==
  ASSUME Typed, Startup, NEW a \in MainActor, NEW t, Receives(a, t)
  PROVE  main_pc >= Turn(a)
BY MainPc, ActorKinds DEF Startup, Early, Receives

LEMMA ConfiguredLate ==
  ASSUME Typed, Startup, NEW a \in MainActor, a \in configured
  PROVE  main_pc >= Turn(a)
BY MainPc, ActorKinds DEF Startup, Early

\* self consumes its first message, if it is an actor, and sends out.
Arrives(self, out) ==
  /\ self \in Actor => mbox[self] # <<>>
  /\ mbox' = [a \in Actor |-> Delivered(self, out, live', a)]

Begins(out, a) == out[a] # <<>> /\ Head(out[a]).type = Initialiser(a)

\* A step keeps initialisers at the front, if it is a step of an actor that is
\* initialised then, and if new actors get their initialiser first.
LEMMA KeepsFirst ==
  ASSUME Typed, Startup, NEW self \in Handle, NEW out \in Out, Arrives(self, out),
         configured \subseteq configured', self \in configured' \cup {Null},
         live' \subseteq Actor,
         \A a \in live' \ configured' : a \notin live => Begins(out, a),
         \A a \in MainActor :
           main_pc < Turn(a) /\ ~ (main_pc' < Turn(a)) => Begins(out, a)
  PROVE  First' /\ DeadEmpty'
<1>1. DeadEmpty'
  BY DEF DeadEmpty, Arrives, Delivered
<1>2. ASSUME NEW a \in live' \ configured'
      PROVE  InitialiserFirst(a)' \/ (a \in MainActor /\ main_pc' < Turn(a))
  <2>1. a \in Actor /\ a # self /\ a \notin configured
    BY <1>2, NullNotActor
  <2>2. mbox[a] \in Seq(Message) /\ out[a] \in Seq(Message)
    BY <2>1 DEF Typed, SystemTypeOK, Out, Handle
  <2>3. mbox'[a] = mbox[a] \o out[a]
    BY <1>2, <2>1 DEF Arrives, Delivered
  <2>4. ASSUME mbox[a] = <<>>, Begins(out, a) PROVE InitialiserFirst(a)'
    <3>1. mbox'[a] = out[a]
      BY <2>2, <2>3, <2>4, EmptyConcat
    <3> QED BY <2>4, <3>1 DEF Begins, InitialiserFirst, Initialiser
  <2>5. CASE a \notin live
    BY <1>2, <2>1, <2>4, <2>5 DEF Startup, DeadEmpty
  <2>6. CASE InitialiserFirst(a)
    <3>1. mbox'[a] # <<>> /\ Head(mbox'[a]) = Head(mbox[a])
      BY <2>2, <2>3, <2>6, HeadOfConcat DEF InitialiserFirst
    <3> QED BY <3>1, <2>6 DEF InitialiserFirst, Initialiser
  <2>7. CASE a \in MainActor /\ main_pc < Turn(a)
    BY <2>4, <2>7 DEF Startup, Early
  <2> QED BY <2>1, <2>5, <2>6, <2>7 DEF Startup, First
<1> QED BY <1>1, <1>2 DEF First, Turn

\* Once the executor is initialised, only the mailboxes and the bookkeeping of
\* the topology builder matter.
LEMMA LateStep ==
  ASSUME Typed, Startup, Typed', NEW self \in Handle, Shape(self),
         Executor \in configured', main_pc >= 3, UNCHANGED main_pc,
         configured \subseteq configured', configured' \subseteq configured \cup {self},
         self \in configured' \cup {Null}, self # TopoBuilder,
         live' \subseteq live, UNCHANGED <<counter_, chains_built>>
  PROVE  Startup'
<1>1. First' /\ DeadEmpty'
  <2>1. CASE UNCHANGED <<mbox, live, timers>>
    BY <2>1 DEF Startup, First, DeadEmpty, InitialiserFirst, Initialiser, Turn
  <2>2. CASE ~ UNCHANGED <<mbox, live, timers>>
    <3>1. PICK out \in Out : Arrives(self, out)
      BY <2>2 DEF Shape, Arrives
    <3>2. live' \subseteq Actor
      BY DEF Typed, SystemTypeOK
    <3> QED BY <3>1, <3>2, KeepsFirst
  <2> QED BY <2>1, <2>2
<1>2. Early'
  BY MainPc, ActorKinds DEF Early, Turn
<1>3. Idle'
  BY DEF Idle
<1>4. SpawnedInTurn' /\ CounterOK'
  BY DEF Startup, SpawnedInTurn, CounterOK
<1> QED BY <1>1, <1>2, <1>3, <1>4 DEF Startup

\* Before, a step also respects the turns, and sends nothing that would have to
\* wait for the executor.
LEMMA EarlyStep ==
  ASSUME Typed, Startup, NEW self \in Handle, NEW out \in Out, Arrives(self, out),
         \A a \in MainActor :
           main_pc' < Turn(a) => /\ main_pc < Turn(a)
                                 /\ out[a] = <<>> /\ a # self
                                 /\ a \notin configured',
         configured' \subseteq configured \cup {self}, self # Executor,
         configured \subseteq configured',
         live' \cap ChainActor \subseteq live,
         OfTypes(out[TopoBuilder], TopoTypes), OfTypes(out[Collector], CollectorTypes),
         timers' \subseteq timers \cup {InitTimer}, main_pc' < 2 => timers' = {},
         UNCHANGED rg_state
  PROVE  Early' /\ Idle'
<1>1. ASSUME NEW a \in Actor PROVE mbox[a] \in Seq(Message) /\ out[a] \in Seq(Message)
  BY <1>1 DEF Typed, SystemTypeOK, Out, Handle
<1>2. Early'
  <2>1. ASSUME NEW a \in MainActor, main_pc' < Turn(a) PROVE mbox'[a] = <<>>
    <3>1. a \in Actor /\ mbox[a] = <<>>
      BY <2>1 DEF Startup, Early, Actor
    <3>2. mbox'[a] \in {<<>>, mbox[a] \o out[a]}
      BY <2>1, <3>1 DEF Arrives, Delivered
    <3> QED BY <1>1, <2>1, <3>1, <3>2, EmptyConcat
  <2> QED BY <2>1 DEF Early, Turn
<1>3. ASSUME NEW a \in Actor, NEW T, OfTypes(mbox[a], T), OfTypes(out[a], T)
      PROVE  OfTypes(mbox'[a], T)
  <2>1. OfTypes(<<>>, T)
    BY DEF OfTypes
  <2>2. mbox[a] # <<>> => OfTypes(Tail(mbox[a]), T) /\ Tail(mbox[a]) \in Seq(Message)
    BY <1>1, <1>3, OfTypesTail
  <2>3. CASE a \notin live'
    BY <2>1, <2>3 DEF Arrives, Delivered
  <2>4. CASE a \in live' /\ a = self
    <3>1. mbox'[a] = Tail(mbox[a]) \o out[a] /\ mbox[a] # <<>>
      BY <2>4 DEF Arrives, Delivered
    <3> QED BY <1>1, <1>3, <2>2, <3>1, OfTypesConcat
  <2>5. CASE a \in live' /\ a # self
    <3>1. mbox'[a] = mbox[a] \o out[a]
      BY <2>5 DEF Arrives, Delivered
    <3> QED BY <1>1, <1>3, <3>1, OfTypesConcat
  <2> QED BY <2>3, <2>4, <2>5
<1>4. Idle'
  <2> SUFFICES ASSUME Executor \notin configured'
               PROVE  /\ live' \cap ChainActor = {}
                      /\ OfTypes(mbox'[TopoBuilder], TopoTypes)
                      /\ OfTypes(mbox'[Collector], CollectorTypes)
                      /\ timers' \subseteq {InitTimer}
                      /\ rg_state' = "absent"
    BY DEF Idle, InitTimer
  <2>1. Executor \notin configured
    OBVIOUS
  <2> QED BY <1>3, <2>1, MainActorsAreActors DEF Startup, Idle
<1> QED BY <1>2, <1>4

-----------------------------------------------------------------------------
\* Every component's step keeps the invariant.

LEMMA ExecutorStartup == ASSUME Typed, Startup, ExecutorMoves PROVE Startup'
<1>1. Typed' /\ Shape(Executor)
  BY ExecutorTyped
<1>2. /\ UNCHANGED <<main_pc, counter_, chains_built>> /\ Executor \in MainActor
      /\ Executor # TopoBuilder /\ Executor \in Handle
  BY ActorKinds, MainActorsAreActors DEF ExecutorMoves, topoVars, MainActor
<1>3. /\ live' \subseteq live
      /\ \E t : /\ Receives(Executor, t)
               /\ \/ t = "exec_init" /\ configured' = configured \cup {Executor}
                  \/ t # "exec_init" /\ configured' = configured
  <2>1. CASE ExecInit
    BY <2>1 DEF ExecInit, Handled, Step
  <2>2. CASE Sysconfig
    BY <2>2 DEF Sysconfig, Handled, Step
  <2>3. CASE SystemBuilding
    BY <2>3 DEF SystemBuilding, Handled, Step
  <2>4. CASE SerialBenchmark
    BY <2>4 DEF SerialBenchmark, Handled, Step
  <2>5. CASE Serial
    BY <2>5 DEF Serial, Handled, Step, Crash
  <2>6. ASSUME NEW t, UpdateMetrics(t), t # "exec_init"
        PROVE  /\ live' \subseteq live
               /\ Receives(Executor, t) /\ configured' = configured
    BY <2>6 DEF UpdateMetrics, Step
  <2>7. CASE SerialKill
    BY <2>7 DEF SerialKill, Step, Crash
  <2>8. CASE ParallelBenchmark
    BY <2>8 DEF ParallelBenchmark, Step
  <2>9. CASE Parallel
    BY <2>9 DEF Parallel, Handled, Step, Crash
  <2>10. CASE ParallelKill
    BY <2>10 DEF ParallelKill, Step, Crash
  <2>11. CASE End
    BY <2>11 DEF End, Step
  <2> QED
    BY <2>1, <2>2, <2>3, <2>4, <2>5, <2>6, <2>7, <2>8, <2>9, <2>10, <2>11
       DEF ExecutorMoves, ExecutorStep
<1>4. main_pc >= 3
  BY <1>2, <1>3, TurnPassed, ActorKinds
<1>5. Executor \in configured'
  BY <1>2, <1>3, Initialised, ActorKinds, MainActorsAreActors
<1>6. configured \subseteq configured' /\ configured' \subseteq configured \cup {Executor}
  BY <1>3
<1> QED BY <1>1, <1>2, <1>3, <1>4, <1>5, <1>6, LateStep

\* The rate generator exists only because the executor has spawned it.
LEMMA RgStartup == ASSUME Typed, Startup, RgMoves PROVE Startup'
<1>1. Typed' /\ Shape(Null)
  BY RgTyped
<1>2. rg_state # "absent" /\ UNCHANGED <<live, configured>>
  BY DEF RgMoves, RgStep, RgStart, RgSend, RgFirstHop, RgFinish, Sending, Posted, Handled,
         Step, Crash, Undefined
<1>3. Executor \in configured
  BY <1>2 DEF Startup, Idle
<1>4. main_pc >= 3
  BY <1>3, ConfiguredLate, ActorKinds DEF MainActor
<1>5. Null # TopoBuilder /\ Null \in Handle
  BY NullNotActor, MainActorsAreActors
<1>6. UNCHANGED <<main_pc, counter_, chains_built>>
  BY DEF RgMoves, topoVars
<1> QED BY <1>1, <1>2, <1>3, <1>4, <1>5, <1>6, LateStep

\* A chain exists only because the executor has asked for it.
LEMMA ChainStartup ==
  ASSUME Typed, Startup, NEW a \in ChainActor, ChainMoves(a) PROVE Startup'
<1>1. Typed' /\ Shape(a)
  BY ChainTyped
<1>2. /\ live' \subseteq live
      /\ \E t : /\ Receives(a, t)
               /\ \/ t = "init_bench" /\ configured' = configured \cup {a}
                  \/ t # "init_bench" /\ configured' = configured
  <2>1. CASE InitBench(a)
    BY <2>1 DEF InitBench, Handled, Step
  <2>2. ASSUME NEW x, NEW t, NEW m, Relay(a, x, t, m) \/ Report(a, t, m)
        PROVE  live' = live
    BY <2>2 DEF Relay, Report, Handled, Step
  <2>3. CASE Weightless(a)
    BY <2>2, <2>3 DEF Weightless, SendForth
  <2>4. CASE WeightlessBack(a)
    BY <2>2, <2>4 DEF WeightlessBack, SendBack
  <2>5. CASE TimedMsg(a)
    BY <2>2, <2>5 DEF TimedMsg, SendForth
  <2>6. CASE TimedMsgBack(a)
    BY <2>2, <2>6 DEF TimedMsgBack, SendBack
  <2>7. CASE Kill(a)
    BY <2>7 DEF Kill, Step
  <2> QED BY <2>1, <2>3, <2>4, <2>5, <2>6, <2>7 DEF ChainMoves, ChainActorStep
<1>3. a \in Actor /\ a \in Handle /\ a # TopoBuilder
  BY ActorKinds, MainActorsAreActors DEF Actor, MainActor
<1>4. a \in configured'
  BY <1>2, <1>3, Initialised, ActorKinds
<1>5. Executor \in configured
  BY <1>2 DEF Startup, Idle, Receives
<1>6. main_pc >= 3
  BY <1>5, ConfiguredLate, ActorKinds DEF MainActor
<1>7. UNCHANGED <<main_pc, counter_, chains_built>>
  BY DEF ChainMoves, topoVars
<1>8. configured \subseteq configured' /\ configured' \subseteq configured \cup {a}
  BY <1>2
<1> QED BY <1>1, <1>2, <1>3, <1>4, <1>5, <1>6, <1>7, <1>8, LateStep

\* The pool exists only because the topology builder is initialised.
LEMMA PoolStartup ==
  ASSUME Typed, Startup, NEW p \in PoolActor, PoolMoves(p) PROVE Startup'
<1>1. p \in Actor /\ p \in Handle /\ p \notin MainActor
  BY ActorKinds, MainActorsAreActors DEF Actor
<1>2. PICK out \in {Silent, Sent(TopoBuilder, Signal("init_detached_reply"))} :
        Handled(p, out)
  BY DEF PoolMoves, PoolActorStep, InitDetached, DetachedMsg
<1>3. out \in Out
  BY <1>2, SilentTyped, SentTyped, SignalTyped, MainActorsAreActors DEF SignalType
<1>4. \/ Receives(p, "init_detached") /\ configured' = configured \cup {p}
      \/ Receives(p, "detached_msg") /\ configured' = configured
  BY DEF PoolMoves, PoolActorStep, InitDetached, DetachedMsg
<1>5. /\ p \in configured' /\ configured \subseteq configured'
      /\ configured' \subseteq configured \cup {p}
  BY <1>1, <1>4, Initialised, ActorKinds
<1>6. Arrives(p, out) /\ live' = live /\ timers' = timers
  BY <1>2, <1>4 DEF Handled, Step, Arrives, Receives
<1>7. UNCHANGED <<main_pc, counter_, chains_built, rg_state>>
  BY DEF PoolMoves, topoVars, rgVars
<1>8. TopoBuilder \in configured /\ main_pc >= 1
  <2>1. p \in live
    BY <1>4 DEF Receives
  <2>2. TopoBuilder \in configured
    BY <2>1 DEF Startup, SpawnedInTurn
  <2> QED BY <2>2, ConfiguredLate, ActorKinds DEF MainActor
<1>9. First' /\ DeadEmpty'
  <2>1. live' \subseteq Actor
    BY <1>6 DEF Typed, SystemTypeOK
  <2> QED BY <1>1, <1>3, <1>5, <1>6, <1>7, <2>1, KeepsFirst
<1>10. Early' /\ Idle'
  <2>1. \A a \in MainActor : a # TopoBuilder => out[a] = <<>>
    BY <1>2, MainActorsAreActors DEF Silent, Sent, Actor, Handle
  <2>2. OfTypes(out[TopoBuilder], TopoTypes) /\ OfTypes(out[Collector], CollectorTypes)
    BY <1>2, MainActorsAreActors, ActorKinds
       DEF Silent, Sent, Signal, OfTypes, TopoTypes, CollectorTypes
  <2>3. \A a \in MainActor :
          main_pc < Turn(a) => out[a] = <<>> /\ a # p /\ a \notin configured'
    BY <1>1, <1>5, <1>8, <2>1, ActorKinds, MainPc DEF Startup, Early
  <2>4. (main_pc' < 2 => timers' = {}) /\ p # Executor
    BY <1>1, <1>6, <1>7 DEF Startup, Early, MainActor
  <2> QED BY <1>1, <1>3, <1>5, <1>6, <1>7, <2>2, <2>3, <2>4, EarlyStep
<1>11. SpawnedInTurn' /\ CounterOK'
  BY <1>1, <1>5, <1>6, <1>7, <1>8 DEF Startup, SpawnedInTurn, CounterOK
<1> QED BY <1>9, <1>10, <1>11 DEF Startup

LEMMA MainStartup == ASSUME Typed, Startup, MainStep PROVE Startup'
<1> DEFINE out == MainSends[main_pc + 1]
<1>1. /\ main_pc \in 0 .. 3 /\ main_pc' = main_pc + 1
      /\ UNCHANGED <<configured, live, timers, counter_, chains_built, rg_state>>
  BY MainPc DEF MainStep, MainSends, Posted, Handled, Step, topoVars, rgVars
<1>2. out \in Out
  <2>1. \A t \in {"init", "rc_init", "exec_init", "sysconfig"} : Signal(t) \in Message
    BY SignalTyped DEF SignalType
  <2> QED BY <1>1, <2>1, SentTyped, MainActorsAreActors DEF MainSends
<1>3. Arrives(Null, out)
  BY NullNotActor DEF MainStep, Posted, Handled, Step, Arrives
<1>4. \A a \in MainActor :
        main_pc < Turn(a) /\ ~ (main_pc' < Turn(a)) => Begins(out, a)
  <2> SUFFICES ASSUME NEW a \in MainActor, main_pc + 1 = Turn(a)
               PROVE  Begins(out, a)
    BY <1>1, ActorKinds
  <2>1. out = Sent(a, Signal(Initialiser(a)))
    BY <1>1, ActorKinds DEF MainSends, MainActor
  <2>2. out[a] = <<Signal(Initialiser(a))>>
    BY <2>1, MainActorsAreActors DEF Sent, Handle, Actor
  <2> HIDE DEF out
  <2> QED BY <2>2 DEF Begins, Signal
<1>5. /\ \A a \in MainActor : main_pc' < Turn(a) => out[a] = <<>>
      /\ OfTypes(out[TopoBuilder], TopoTypes) /\ OfTypes(out[Collector], CollectorTypes)
  BY <1>1, ActorKinds, MainActorsAreActors
     DEF MainSends, Sent, Signal, OfTypes, TopoTypes, CollectorTypes, MainActor, Handle
<1>6. Null \in Handle /\ Null \notin MainActor /\ Null # Executor
  BY NullNotActor, MainActorsAreActors DEF Actor, MainActor
<1> HIDE DEF out
<1>7. First' /\ DeadEmpty'
  <2>1. live' \subseteq Actor
    BY <1>1 DEF Typed, SystemTypeOK
  <2> QED BY <1>1, <1>2, <1>3, <1>4, <1>6, <2>1, KeepsFirst
<1>8. Early' /\ Idle'
  <2>1. \A a \in MainActor :
          main_pc' < Turn(a) => /\ main_pc < Turn(a)
                                /\ out[a] = <<>> /\ a # Null /\ a \notin configured'
    BY <1>1, <1>5, <1>6, ActorKinds DEF Startup, Early
  <2>2. main_pc' < 2 => timers' = {}
    BY <1>1 DEF Startup, Early
  <2> QED BY <1>1, <1>2, <1>3, <1>5, <1>6, <2>1, <2>2, EarlyStep
<1>9. SpawnedInTurn' /\ CounterOK'
  BY <1>1 DEF Startup, SpawnedInTurn, CounterOK
<1> QED BY <1>7, <1>8, <1>9 DEF Startup

\* Before the executor is initialised, the clock knows one delayed message.
LEMMA ClockStartup ==
  ASSUME Typed, Startup, NEW t \in Timer, ClockMoves(t) PROVE Startup'
<1>1. /\ t \in timers /\ timers' = timers \ {t}
      /\ UNCHANGED <<main_pc, configured, live, counter_, chains_built, rg_state>>
  BY DEF ClockMoves, Fire, Step, topoVars, rgVars
<1>2. Null \in Handle /\ Null \notin MainActor /\ Null # TopoBuilder /\ Null # Executor
  BY NullNotActor, MainActorsAreActors DEF Actor, MainActor
<1>3. CASE Executor \in configured
  <2>1. main_pc >= 3
    BY <1>3, ConfiguredLate, ActorKinds DEF MainActor
  <2>2. Typed' /\ Shape(Null)
    BY ClockTyped
  <2> QED BY <1>1, <1>2, <1>3, <2>1, <2>2, LateStep
<1>4. CASE Executor \notin configured
  <2> DEFINE out == Sent(Collector, Signal("sys_collect"))
  <2>1. t = InitTimer
    BY <1>1, <1>4 DEF Startup, Idle
  <2>2. Arrives(Null, out) /\ out \in Out
    <3>1. out \in Out
      BY SentTyped, SignalTyped, MainActorsAreActors DEF SignalType
    <3>2. Arrives(Null, out)
      BY <2>1, NullNotActor DEF ClockMoves, Fire, Step, Arrives, InitTimer, Later
    <3> QED BY <3>1, <3>2
  <2>3. main_pc >= 2
    BY <1>1, MainPc DEF Startup, Early
  <2>4. /\ \A a \in MainActor : a # Collector => out[a] = <<>>
        /\ OfTypes(out[TopoBuilder], TopoTypes) /\ OfTypes(out[Collector], CollectorTypes)
    BY ActorKinds, MainActorsAreActors
       DEF Sent, Signal, OfTypes, TopoTypes, CollectorTypes, Handle, Actor
  <2> HIDE DEF out
  <2>5. First' /\ DeadEmpty'
    <3>1. live' \subseteq Actor
      BY <1>1 DEF Typed, SystemTypeOK
    <3> QED BY <1>1, <1>2, <2>2, <3>1, KeepsFirst
  <2>6. Early' /\ Idle'
    <3>1. \A a \in MainActor :
            main_pc < Turn(a) => out[a] = <<>> /\ a # Null /\ a \notin configured'
      BY <1>1, <1>2, <2>3, <2>4, ActorKinds, MainPc DEF Startup, Early
    <3>2. ~ (main_pc' < 2)
      BY <1>1, <2>3, MainPc
    <3> QED BY <1>1, <1>2, <2>2, <2>4, <3>1, <3>2, EarlyStep
  <2>7. SpawnedInTurn' /\ CounterOK'
    BY <1>1 DEF Startup, SpawnedInTurn, CounterOK
  <2> QED BY <2>5, <2>6, <2>7 DEF Startup
<1> QED BY <1>3, <1>4

LEMMA TopoStartup == ASSUME Typed, Startup, TopoMoves PROVE Startup'
<1>0. /\ TopoBuilder \in Actor /\ TopoBuilder \in Handle /\ TopoBuilder \in MainActor
      /\ TopoBuilder # Executor /\ Initialiser(TopoBuilder) = "init"
      /\ UNCHANGED <<main_pc, rg_state>>
      /\ live \subseteq Actor
  BY ActorKinds, MainActorsAreActors
     DEF MainActor, TopoMoves, rgVars, Typed, SystemTypeOK
<1>1. CASE InitTopo
  <2> DEFINE out == [h \in Handle |-> IF h \in PoolActor
                                      THEN <<Signal("init_detached")>> ELSE <<>>]
  <2>1. out \in Out
    <3>1. Signal("init_detached") \in Message
      BY SignalTyped DEF SignalType
    <3> QED BY <3>1 DEF Out
  <2>2. /\ Arrives(TopoBuilder, out) /\ live' = live \cup PoolActor
        /\ timers' = timers /\ configured' = configured \cup {TopoBuilder}
        /\ UNCHANGED chains_built /\ counter_' = PipelineActors
    BY <1>1 DEF InitTopo, Step, Arrives, Receives
  <2>3. main_pc >= 1
    BY <1>0, <1>1, TurnPassed, ActorKinds DEF InitTopo
  <2>4. /\ \A a \in MainActor : out[a] = <<>>
        /\ \A p \in PoolActor : Begins(out, p)
    BY <1>0, ActorKinds, MainActorsAreActors DEF Actor, Handle, Begins, Signal
  <2>5. /\ OfTypes(out[TopoBuilder], TopoTypes)
        /\ OfTypes(out[Collector], CollectorTypes)
    BY <1>0, <2>4 DEF OfTypes, MainActor
  <2> HIDE DEF out
  <2>6. First' /\ DeadEmpty'
    <3>1. live' \subseteq Actor
      BY <1>0, <2>2 DEF Actor
    <3>2. \A a \in live' \ configured' : a \notin live => Begins(out, a)
      BY <2>2, <2>4
    <3> QED BY <1>0, <2>1, <2>2, <3>1, <3>2, KeepsFirst
  <2>7. Early' /\ Idle'
    <3>1. \A a \in MainActor :
            main_pc < Turn(a) => out[a] = <<>> /\ a # TopoBuilder /\ a \notin configured'
      BY <2>2, <2>3, <2>4, ActorKinds, MainPc DEF Startup, Early
    <3>2. main_pc' < 2 => timers' = {}
      BY <1>0, <2>2 DEF Startup, Early
    <3>3. live' \cap ChainActor \subseteq live
      BY <2>2, ActorKinds
    <3> QED BY <1>0, <2>1, <2>2, <2>5, <3>1, <3>2, <3>3, EarlyStep
  <2>8. SpawnedInTurn' /\ CounterOK'
    BY <2>2, ActorKinds, ConfigAssumption DEF Startup, SpawnedInTurn, CounterOK, is_valid
  <2> QED BY <2>6, <2>7, <2>8 DEF Startup
<1>2. CASE InitDetachedReply
  <2>1. /\ Arrives(TopoBuilder, Silent)
        /\ UNCHANGED <<live, timers, configured, chains_built, counter_>>
    BY <1>2 DEF InitDetachedReply, Handled, Step, Arrives, Receives, topoVars
  <2>2. TopoBuilder \in configured /\ main_pc >= 1
    BY <1>0, <1>2, Initialised, TurnPassed, ActorKinds DEF InitDetachedReply
  <2>3. \A a \in MainActor : Silent[a] = <<>>
    BY MainActorsAreActors DEF Silent, Actor
  <2>4. /\ OfTypes(Silent[TopoBuilder], TopoTypes)
        /\ OfTypes(Silent[Collector], CollectorTypes)
    BY <2>3 DEF OfTypes, MainActor
  <2>5. First' /\ DeadEmpty'
    BY <1>0, <2>1, <2>2, SilentTyped, KeepsFirst
  <2>6. Early' /\ Idle'
    <3>1. \A a \in MainActor :
            main_pc < Turn(a) => Silent[a] = <<>> /\ a # TopoBuilder /\ a \notin configured'
      BY <2>1, <2>2, <2>3, ActorKinds, MainPc DEF Startup, Early
    <3>2. main_pc' < 2 => timers' = {}
      BY <1>0, <2>1 DEF Startup, Early
    <3> QED BY <1>0, <2>1, <2>2, <2>4, <3>1, <3>2, SilentTyped, EarlyStep
  <2>7. SpawnedInTurn' /\ CounterOK'
    BY <2>1 DEF Startup, SpawnedInTurn, CounterOK
  <2> QED BY <2>5, <2>6, <2>7 DEF Startup
<1>3. CASE MakeLinearChain \/ InitBenchReply \/ TopoKill
  <2>1. /\ TopoBuilder \in configured /\ UNCHANGED configured
        /\ mbox[TopoBuilder] # <<>> /\ Head(mbox[TopoBuilder]).type \notin TopoTypes
    BY <1>0, <1>3, Initialised
       DEF MakeLinearChain, InitBenchReply, TopoKill, Receives, TopoTypes
  <2>2. Executor \in configured
    <3>1. mbox[TopoBuilder] \in Seq(Message)
      BY <1>0 DEF Typed, SystemTypeOK
    <3> QED BY <2>1, <3>1, OfTypesTail DEF Startup, Idle
  <2>3. main_pc >= 3
    BY <2>2, ConfiguredLate, ActorKinds DEF MainActor
  <2>4. Early' /\ Idle'
    BY <1>0, <2>1, <2>2, <2>3, MainPc, ActorKinds DEF Early, Idle, Turn
  <2>5. CASE MakeLinearChain
    <3> DEFINE chain == ChainOf(chains_built + 1)
               out == [h \in Handle |-> IF h \in chain THEN <<InitRequest(h)>> ELSE <<>>]
    <3>1. /\ Arrives(TopoBuilder, out) /\ live' = live \cup chain
          /\ UNCHANGED counter_ /\ chains_built' = chains_built + 1
      BY <2>1, <2>5 DEF MakeLinearChain, Step, Arrives
    <3>2. \A a \in chain : a \in ChainActor /\ a[1] = chains_built + 1
      BY DEF ChainOf
    <3> HIDE DEF chain
    <3>3. out \in Out
      <4>1. \A h \in chain : InitRequest(h) \in Message
        BY <3>2, NeighboursTyped DEF Typed, TopoTyped, InitRequest, Message, InitBenchMsg
      <4> QED BY <4>1 DEF Out
    <3>4. \A a \in chain : Begins(out, a)
      BY <3>2, ActorKinds, MainActorsAreActors DEF Begins, InitRequest, Handle, Actor
    <3> HIDE DEF out
    <3>5. First' /\ DeadEmpty'
      <4>1. live' \subseteq Actor
        BY <1>0, <3>1, <3>2 DEF Actor
      <4>2. \A a \in live' \ configured' : a \notin live => Begins(out, a)
        BY <3>1, <3>4
      <4> QED BY <1>0, <2>1, <3>1, <3>3, <4>1, <4>2, KeepsFirst
    <3>6. SpawnedInTurn' /\ CounterOK'
      <4>1. chains_built \in Nat /\ \A a \in ChainActor : a[1] \in Nat
        BY ConfigAssumption DEF Typed, TopoTyped, ChainActor
      <4> QED BY <2>1, <3>1, <3>2, <4>1 DEF Startup, SpawnedInTurn, CounterOK
    <3> QED BY <2>4, <3>5, <3>6 DEF Startup
  <2>6. CASE InitBenchReply \/ TopoKill
    <3>1. Shape(TopoBuilder)
      BY TopoStepTyped
    <3>2. live' \subseteq live /\ UNCHANGED chains_built
      BY <2>6 DEF InitBenchReply, TopoKill, Handled, Step
    <3>3. First' /\ DeadEmpty'
      <4>1. CASE UNCHANGED <<mbox, live, timers>>
        BY <1>0, <2>1, <4>1
           DEF Startup, First, DeadEmpty, InitialiserFirst, Initialiser, Turn
      <4>2. CASE ~ UNCHANGED <<mbox, live, timers>>
        <5>1. PICK out \in Out : Arrives(TopoBuilder, out)
          BY <4>2, <3>1 DEF Shape, Arrives
        <5>2. live' \subseteq Actor
          BY <1>0, <3>2
        <5> QED BY <1>0, <2>1, <3>2, <5>1, <5>2, KeepsFirst
      <4> QED BY <4>1, <4>2
    <3>4. CounterOK'
      BY <2>1, <2>6, ConfigAssumption
         DEF Startup, CounterOK, InitBenchReply, TopoKill, RepliesLeft, is_valid
    <3>5. SpawnedInTurn'
      BY <2>1, <3>2 DEF Startup, SpawnedInTurn
    <3> QED BY <2>4, <3>3, <3>4, <3>5 DEF Startup
  <2> QED BY <1>3, <2>5, <2>6
<1> QED BY <1>1, <1>2, <1>3 DEF TopoMoves, TopoStep

\* The collector samples the system before there is an executor, nothing else.
LEMMA CollectorStartup == ASSUME Typed, Startup, CollectorMoves PROVE Startup'
<1>0. /\ Collector \in Actor /\ Collector \in Handle /\ Collector \in MainActor
      /\ Collector # Executor /\ Collector # TopoBuilder
      /\ Initialiser(Collector) = "rc_init"
      /\ UNCHANGED <<main_pc, rg_state, counter_, chains_built>>
      /\ live \subseteq Actor
  BY ActorKinds, MainActorsAreActors
     DEF MainActor, CollectorMoves, rgVars, topoVars, Typed, SystemTypeOK
<1>1. CASE RcInit \/ SysCollect
  <2>1. /\ Arrives(Collector, Silent)
        /\ live' = live /\ timers' = timers \cup {InitTimer}
    BY <1>1 DEF RcInit, SysCollect, Step, Arrives, Receives, InitTimer
  <2>2. /\ main_pc >= 2 /\ Collector \in configured'
        /\ configured \subseteq configured' /\ configured' \subseteq configured \cup {Collector}
    BY <1>0, <1>1, Initialised, TurnPassed, ActorKinds DEF RcInit, SysCollect
  <2>3. \A a \in MainActor : Silent[a] = <<>>
    BY MainActorsAreActors DEF Silent, Actor
  <2>4. /\ OfTypes(Silent[TopoBuilder], TopoTypes)
        /\ OfTypes(Silent[Collector], CollectorTypes)
    BY <2>3 DEF OfTypes, MainActor
  <2>5. First' /\ DeadEmpty'
    BY <1>0, <2>1, <2>2, SilentTyped, KeepsFirst
  <2>6. Early' /\ Idle'
    <3>1. \A a \in MainActor :
            main_pc < Turn(a) => Silent[a] = <<>> /\ a # Collector /\ a \notin configured'
      BY <2>2, <2>3, ActorKinds, MainPc DEF Startup, Early
    <3>2. ~ (main_pc' < 2)
      BY <1>0, <2>2, MainPc
    <3> QED BY <1>0, <2>1, <2>2, <2>4, <3>1, <3>2, SilentTyped, EarlyStep
  <2>7. SpawnedInTurn' /\ CounterOK'
    BY <1>0, <2>1, <2>2 DEF Startup, SpawnedInTurn, CounterOK
  <2> QED BY <2>5, <2>6, <2>7 DEF Startup
<1>2. CASE SendCollect \/ (\E t \in FinalType : FinalCollect(t)) \/ BenchmarkKill
  <2>1. PICK t : /\ Receives(Collector, t) /\ t \notin CollectorTypes
                 /\ live' = live /\ configured' = configured
    <3>1. CASE SendCollect
      BY <3>1 DEF SendCollect, CollectorTypes, Handled, Step
    <3>2. CASE \E t \in FinalType : FinalCollect(t)
      BY <3>2 DEF FinalCollect, FinalType, CollectorTypes, Step
    <3>3. CASE BenchmarkKill
      BY <3>3 DEF BenchmarkKill, CollectorTypes
    <3> QED BY <1>2, <3>1, <3>2, <3>3
  <2>2. Collector \in configured
    BY <1>0, <2>1, Initialised DEF CollectorTypes
  <2>3. Executor \in configured
    <3>1. mbox[Collector] \in Seq(Message)
      BY <1>0 DEF Typed, SystemTypeOK
    <3> QED BY <2>1, <3>1, OfTypesTail DEF Startup, Idle, Receives
  <2>4. main_pc >= 3
    BY <2>3, ConfiguredLate, ActorKinds DEF MainActor
  <2>5. Typed' /\ Shape(Collector)
    BY CollectorTyped
  <2> QED BY <1>0, <2>1, <2>2, <2>3, <2>4, <2>5, LateStep
<1> QED BY <1>1, <1>2 DEF CollectorMoves, CollectorStep

LEMMA InitStartup == Init => Startup
<1> SUFFICES ASSUME Init PROVE Startup
  OBVIOUS
<1>1. /\ mbox = [a \in Actor |-> <<>>] /\ live = MainActor /\ timers = {}
      /\ configured = {} /\ rg_state = "absent" /\ main_pc = 0 /\ counter_ = 0
  BY DEF Init, SystemInit, RgInit, TopoInit
<1>2. First
  BY <1>1, ActorKinds DEF First
<1>3. Early
  BY <1>1 DEF Early, Actor
<1>4. Idle
  <2>1. live \cap ChainActor = {}
    BY <1>1, ActorKinds
  <2>2. mbox[TopoBuilder] = <<>> /\ mbox[Collector] = <<>>
    BY <1>1, MainActorsAreActors
  <2> QED BY <1>1, <2>1, <2>2 DEF Idle, OfTypes
<1>5. DeadEmpty
  BY <1>1 DEF DeadEmpty
<1>6. SpawnedInTurn
  BY <1>1, ActorKinds DEF SpawnedInTurn
<1>7. CounterOK
  BY <1>1, ConfigAssumption DEF CounterOK
<1> QED BY <1>2, <1>3, <1>4, <1>5, <1>6, <1>7 DEF Startup

LEMMA NextStartup == Typed /\ Startup /\ [Next]_vars => Startup'
<1> SUFFICES ASSUME Typed, Startup, [Next]_vars PROVE Startup'
  OBVIOUS
<1>1. CASE UNCHANGED worldVars
  <2>1. UNCHANGED <<mbox, live, timers, configured, rg_state, main_pc, counter_,
                    chains_built>>
    BY <1>1 DEF worldVars, systemVars, rgVars, topoVars
  <2>2. First' /\ Early' /\ DeadEmpty'
    BY <2>1 DEF Startup, First, Early, DeadEmpty, InitialiserFirst, Initialiser, Turn
  <2>3. Idle' /\ SpawnedInTurn' /\ CounterOK'
    BY <2>1 DEF Startup, Idle, OfTypes, InitTimer, Later, SpawnedInTurn, CounterOK
  <2> QED BY <2>2, <2>3 DEF Startup
<1> QED
  BY <1>1, MainStartup, ExecutorStartup, RgStartup, ChainStartup, PoolStartup,
     TopoStartup, CollectorStartup, ClockStartup DEF Next, TimePasses, Terminated, vars

LEMMA AlwaysStarted == Spec => [](Typed /\ Startup)
<1>1. Init => Startup
  BY InitStartup
<1>2. Typed /\ Startup /\ [Next]_vars => Startup'
  BY NextStartup
<1> QED BY <1>1, <1>2, AlwaysTyped, PTL DEF Spec

-----------------------------------------------------------------------------
(***************************************************************************)
(* For every number of chains, of actors and of pool actors, and every     *)
(* option: the variables keep their types.  In particular counter_ never   *)
(* leaves 0 .. PipelineActors, which rests on initialisation before use.   *)
(***************************************************************************)
THEOREM TypeCorrect == Spec => []TypeOK
<1>1. Typed /\ Startup /\ ClockTypeOK => TypeOK
  BY DEF Typed, Startup, CounterOK, TopoTyped, TopoTypeOK, TypeOK
<1> QED BY <1>1, AlwaysStarted, AlwaysClocked, PTL

(***************************************************************************)
(* Whatever the order in which the threads of main(), of the actors and of *)
(* the clock run, an actor handles the message that initialises it before  *)
(* any other.                                                              *)
(***************************************************************************)
THEOREM InitialisationFirst == Spec => []InitialisedFirst
<1>1. Typed /\ Startup => InitialisedFirst
  BY DEF Startup, First, Early, InitialiserFirst, InitialisedFirst
<1> QED BY <1>1, AlwaysStarted, PTL

-----------------------------------------------------------------------------
(***************************************************************************)
(* The detached pool is loaded evenly, for every number of chains and      *)
(* every size of the pool.                                                 *)
(***************************************************************************)

(***************************************************************************)
(* PoolBalanced is not inductive: it does not say where the longer queues  *)
(* are.  The actors below index_ are one job ahead of the others.          *)
(***************************************************************************)
Round(b) == \A j \in 0 .. DetachedPool - 1 :
              pool_jobs[<<0, j>>] = IF j < index_ THEN b + 1 ELSE b

PoolRounds == \E b \in Nat : Round(b)

\* The index goes up by one, and from the last actor back to the first.
LEMMA NextInPoolWraps ==
  ASSUME DetachedPool > 0, NEW i \in 0 .. DetachedPool - 1
  PROVE  NextInPool(i) = IF i + 1 = DetachedPool THEN 0 ELSE i + 1
<1>1. DetachedPool \in Nat
  BY ConfigAssumption
<1>2. CASE i + 1 = DetachedPool
  BY <1>1, <1>2 DEF NextInPool
<1>3. CASE i + 1 # DetachedPool
  BY <1>1, <1>3 DEF NextInPool
<1> QED BY <1>2, <1>3

\* One job for the actor at index_.
LEMMA NextRoundOfPool ==
  ASSUME BenchTypeOK, PoolRounds, DetachedPool > 0, index_' = NextInPool(index_),
         pool_jobs' = [pool_jobs EXCEPT ![<<0, index_>>] = @ + 1]
  PROVE  PoolRounds'
<1>1. PICK b \in Nat : Round(b)
  BY DEF PoolRounds
<1>2. /\ DetachedPool \in Nat /\ index_ \in 0 .. DetachedPool - 1
      /\ pool_jobs \in [PoolActor -> Nat]
  BY ConfigAssumption DEF BenchTypeOK
<1>3. ASSUME NEW j \in 0 .. DetachedPool - 1
      PROVE  pool_jobs'[<<0, j>>] = IF j <= index_ THEN b + 1 ELSE b
  <2>1. <<0, j>> \in PoolActor
    BY DEF PoolActor
  <2>2. pool_jobs'[<<0, j>>] = IF j = index_ THEN pool_jobs[<<0, j>>] + 1
                                             ELSE pool_jobs[<<0, j>>]
    BY <1>2, <2>1
  <2> QED BY <1>1, <1>2, <2>2 DEF Round
<1>4. CASE index_ + 1 = DetachedPool
  <2>1. index_' = 0
    BY <1>2, <1>4, NextInPoolWraps
  <2>2. b + 1 \in Nat /\ Round(b + 1)'
    BY <1>2, <1>3, <1>4, <2>1 DEF Round
  <2> QED BY <2>2 DEF PoolRounds
<1>5. CASE index_ + 1 # DetachedPool
  <2>1. index_' = index_ + 1
    BY <1>2, <1>5, NextInPoolWraps
  <2>2. \A j \in 0 .. DetachedPool - 1 : j < index_' <=> j <= index_
    BY <1>2, <2>1
  <2>3. Round(b)'
    BY <1>3, <2>2 DEF Round
  <2> QED BY <2>3 DEF PoolRounds
<1> QED BY <1>4, <1>5

LEMMA PoolUnchanged == ASSUME PoolRounds, UNCHANGED poolVars PROVE PoolRounds'
BY DEF PoolRounds, Round, poolVars

LEMMA ChainRounds ==
  ASSUME Typed, PoolRounds, NEW a \in ChainActor, ChainMoves(a) PROVE PoolRounds'
<1>1. ASSUME NEW x, NEW t, NEW m, Relay(a, x, t, m) PROVE PoolRounds'
  <2>1. CASE detached_pool_[a]
    <3>1. DetachedPool > 0
      BY <2>1 DEF Typed, PoolGiven
    <3>2. /\ index_' = NextInPool(index_)
          /\ pool_jobs' = [pool_jobs EXCEPT ![<<0, index_>>] = @ + 1]
      BY <1>1, <2>1 DEF Relay
    <3> QED BY <3>1, <3>2, NextRoundOfPool DEF Typed
  <2>2. CASE ~ detached_pool_[a]
    BY <1>1, <2>2, PoolUnchanged DEF Relay
  <2> QED BY <2>1, <2>2
<1>2. ASSUME NEW t, NEW m, Report(a, t, m) PROVE PoolRounds'
  BY <1>2, PoolUnchanged DEF Report
<1>3. CASE InitBench(a)
  BY <1>3, PoolUnchanged DEF InitBench
<1>4. CASE Weightless(a)
  BY <1>1, <1>2, <1>4 DEF Weightless, SendForth
<1>5. CASE WeightlessBack(a)
  BY <1>1, <1>2, <1>5 DEF WeightlessBack, SendBack
<1>6. CASE TimedMsg(a)
  BY <1>1, <1>2, <1>6 DEF TimedMsg, SendForth
<1>7. CASE TimedMsgBack(a)
  BY <1>1, <1>2, <1>7 DEF TimedMsgBack, SendBack
<1>8. CASE Kill(a)
  BY <1>8, PoolUnchanged DEF Kill
<1> QED
  BY <1>3, <1>4, <1>5, <1>6, <1>7, <1>8 DEF ChainMoves, ChainActorStep

LEMMA NextRounds == Typed /\ PoolRounds /\ [Next]_vars => PoolRounds'
<1> SUFFICES ASSUME Typed, PoolRounds, [Next]_vars PROVE PoolRounds'
  OBVIOUS
<1>1. ASSUME UNCHANGED benchVars PROVE PoolRounds'
  BY <1>1, PoolUnchanged DEF benchVars, poolVars
<1>2. ASSUME NEW p \in PoolActor, PoolMoves(p) PROVE PoolRounds'
  BY <1>1, <1>2 DEF PoolMoves, PoolActorStep, InitDetached, DetachedMsg
<1>3. CASE MainStep \/ ExecutorMoves \/ RgMoves \/ TopoMoves \/ CollectorMoves
             \/ (\E t \in Timer : ClockMoves(t)) \/ UNCHANGED worldVars
  BY <1>1, <1>3
     DEF MainStep, ExecutorMoves, RgMoves, TopoMoves, CollectorMoves, ClockMoves,
         worldVars
<1> QED BY <1>2, <1>3, ChainRounds DEF Next, TimePasses, Terminated, vars

LEMMA InitRounds == Init => PoolRounds
<1> SUFFICES ASSUME Init PROVE Round(0)
  BY DEF PoolRounds
<1>1. index_ = 0 /\ pool_jobs = [p \in PoolActor |-> 0]
  BY DEF Init, BenchInit
<1> QED BY <1>1, ConfigAssumption DEF Round, PoolActor

LEMMA RoundsBalanced == PoolRounds => PoolBalanced
<1> SUFFICES ASSUME PoolRounds, NEW p \in PoolActor, NEW q \in PoolActor
             PROVE  pool_jobs[p] <= pool_jobs[q] + 1
  BY DEF PoolBalanced
<1>1. PICK b \in Nat : Round(b)
  BY DEF PoolRounds
<1>2. \A x \in PoolActor : x = <<0, x[2]>> /\ x[2] \in 0 .. DetachedPool - 1
  BY DEF PoolActor
<1>3. pool_jobs[p] \in {b, b + 1} /\ pool_jobs[q] \in {b, b + 1}
  BY <1>1, <1>2 DEF Round
<1> QED BY <1>3

(***************************************************************************)
(* The actors of all chains that share the global index_ spread their jobs *)
(* so evenly that two actors of the pool never differ by more than one.    *)
(***************************************************************************)
THEOREM PoolIsBalanced == Spec => []PoolBalanced
<1>1. Init => PoolRounds
  BY InitRounds
<1>2. Typed /\ PoolRounds /\ [Next]_vars => PoolRounds'
  BY NextRounds
<1>3. PoolRounds => PoolBalanced
  BY RoundsBalanced
<1> QED BY <1>1, <1>2, <1>3, AlwaysTyped, PTL DEF Spec

-----------------------------------------------------------------------------
(***************************************************************************)
(* A stop goes through a chain from its head to its tail and leaves no     *)
(* actor behind, for every number and length of chains, and whatever the   *)
(* rate generator and the measurements on their way do in the meantime.    *)
(***************************************************************************)

(***************************************************************************)
(* StopsInOrder is not inductive.  The kill that an actor passes on must   *)
(* go to the actor that follows it (Linked, and init_bench_a before that), *)
(* nobody but its predecessor may send one to an actor that is no head     *)
(* (Messages), and what the executor takes for heads are heads (Headed).   *)
(***************************************************************************)
HeadType == {"init_bench_reply", "system_building"}

\* What holds of a message m to a whenever it is sent.
Proper(a, m) ==
  /\ m.type = "init_bench" => m.next = Following(a)
  /\ m.type \in HeadType => m.head[2] = 0

Messages ==
  \A a \in Actor : \A m \in Contents(a) :
    /\ Proper(a, m)
    /\ m.type = "kill" /\ a \in ChainActor /\ a[2] > 0 => Previous(a) \notin live

Linked ==
  \A a \in ChainActor \cap configured :
    Spawned(a) /\ (a \in live => next_[a] = Following(a))

Headed == \A i \in 1 .. Len(heads_) : heads_[i][2] = 0

Order == Messages /\ Linked /\ Headed /\ StopsInOrder

-----------------------------------------------------------------------------
\* The elements of a mailbox after its first message is taken and another put.
LEMMA Elements ==
  ASSUME NEW S, NEW s \in Seq(S), NEW x
  PROVE  /\ ToSet(s \o <<x>>) = ToSet(s) \cup {x}
         /\ s \o <<>> = s
         /\ s # <<>> => /\ Head(s) \in ToSet(s)
                        /\ ToSet(s) = ToSet(Tail(s)) \cup {Head(s)}
<1>1. ToSet(s \o <<x>>) = ToSet(s) \cup {x}
  <2> DEFINE T == S \cup {x}
  <2>1. s \in Seq(T) /\ <<x>> \in Seq(T) /\ Len(<<x>>) = 1 /\ <<x>>[1] = x
    OBVIOUS
  <2>2. /\ Len(s \o <<x>>) = Len(s) + 1 /\ Len(s) \in Nat
        /\ \A i \in 1 .. Len(s) : (s \o <<x>>)[i] = s[i]
        /\ (s \o <<x>>)[Len(s) + 1] = x
    BY <2>1
  <2>3. DOMAIN (s \o <<x>>) = 1 .. Len(s) + 1 /\ DOMAIN s = 1 .. Len(s)
    BY <2>1, <2>2
  <2> QED BY <2>2, <2>3 DEF ToSet
<1>2. s \o <<>> = s
  OBVIOUS
<1>3. ASSUME s # <<>>
      PROVE  Head(s) \in ToSet(s) /\ ToSet(s) = ToSet(Tail(s)) \cup {Head(s)}
  <2>1. /\ Len(s) \in Nat /\ Len(s) > 0 /\ Head(s) = s[1] /\ Len(Tail(s)) = Len(s) - 1
        /\ \A i \in 1 .. Len(s) - 1 : Tail(s)[i] = s[i + 1]
        /\ DOMAIN s = 1 .. Len(s) /\ DOMAIN Tail(s) = 1 .. Len(s) - 1
    BY <1>3
  <2>2. \A y \in ToSet(s) : y \in ToSet(Tail(s)) \cup {Head(s)}
    <3> SUFFICES ASSUME NEW i \in 1 .. Len(s), i # 1
                 PROVE  s[i] \in {Tail(s)[j] : j \in 1 .. Len(s) - 1}
      BY <2>1 DEF ToSet
    <3>1. i - 1 \in 1 .. Len(s) - 1 /\ Tail(s)[i - 1] = s[i]
      BY <2>1
    <3> QED BY <3>1
  <2>3. \A y \in ToSet(Tail(s)) \cup {Head(s)} : y \in ToSet(s)
    <3>1. \A j \in 1 .. Len(s) - 1 : j + 1 \in 1 .. Len(s) /\ Tail(s)[j] = s[j + 1]
      BY <2>1
    <3> QED BY <2>1, <3>1 DEF ToSet
  <2> QED BY <2>1, <2>2, <2>3 DEF ToSet
<1> QED BY <1>1, <1>2, <1>3

\* Every actor gets one message or none.
Parcel(out) == \A a \in Actor : out[a] = <<>> \/ \E m : out[a] = <<m>>

\* Where the messages in the mailboxes come from, and where they go.
LEMMA Arrivals ==
  ASSUME SystemTypeOK, NEW self, NEW out, Parcel(out), Arrives(self, out),
         NEW a \in Actor
  PROVE  /\ \A m \in Contents(a)' : a \in live' /\ (m \in Contents(a) \/ out[a] = <<m>>)
         /\ a \in live' =>
              /\ \A m : out[a] = <<m>> => m \in Contents(a)'
              /\ \A m \in Contents(a) :
                   m \in Contents(a)' \/ (a = self /\ m = Head(mbox[a]))
<1> DEFINE s == IF a = self THEN Tail(mbox[a]) ELSE mbox[a]
<1>1. mbox[a] \in Seq(Message) /\ mbox'[a] = Delivered(self, out, live', a)
  BY DEF SystemTypeOK, Arrives
<1>2. CASE a \notin live'
  <2>1. Contents(a)' = {}
    BY <1>1, <1>2 DEF Delivered, Contents, ToSet
  <2> QED BY <1>2, <2>1
<1>3. CASE a \in live'
  <2>1. /\ s \in Seq(Message) /\ \A m \in ToSet(s) : m \in Contents(a)
        /\ \A m \in Contents(a) : m \in ToSet(s) \/ (a = self /\ m = Head(mbox[a]))
    <3>1. CASE a = self
      <4>1. mbox[a] # <<>>
        BY <3>1 DEF Arrives
      <4>2. ToSet(mbox[a]) = ToSet(Tail(mbox[a])) \cup {Head(mbox[a])}
        BY <1>1, <4>1, Elements
      <4> QED BY <1>1, <3>1, <4>1, <4>2 DEF Contents
    <3>2. CASE a # self
      BY <1>1, <3>2 DEF Contents
    <3> QED BY <3>1, <3>2
  <2>2. mbox'[a] = s \o out[a]
    BY <1>1, <1>3 DEF Delivered
  <2> HIDE DEF s
  <2>3. Contents(a)' = ToSet(mbox'[a])
    BY DEF Contents
  <2>4. CASE out[a] = <<>>
    <3>1. Contents(a)' = ToSet(s)
      BY <2>1, <2>2, <2>3, <2>4, Elements
    <3>2. \A m : <<>> # <<m>>
      OBVIOUS
    <3> QED BY <1>3, <2>1, <2>4, <3>1, <3>2
  <2>5. ASSUME NEW x, out[a] = <<x>>
        PROVE  Contents(a)' = ToSet(s) \cup {x} /\ \A m : out[a] = <<m>> => m = x
    <3>1. ToSet(s \o <<x>>) = ToSet(s) \cup {x}
      BY <2>1, Elements
    <3>2. \A m : <<x>> = <<m>> => m = x
      OBVIOUS
    <3> QED BY <2>2, <2>3, <2>5, <3>1, <3>2
  <2>6. ASSUME NEW x, out[a] = <<x>>
        PROVE  /\ \A m \in Contents(a)' : m \in Contents(a) \/ out[a] = <<m>>
               /\ \A m : out[a] = <<m>> => m \in Contents(a)'
               /\ \A m \in Contents(a) : m \in Contents(a)' \/ (a = self /\ m = Head(mbox[a]))
    BY <2>1, <2>5, <2>6
  <2> QED BY <1>3, <2>4, <2>6 DEF Parcel
<1> QED BY <1>2, <1>3

\* The first message is one of the mailbox.
LEMMA FirstIsContent ==
  ASSUME SystemTypeOK, NEW a \in Actor, mbox[a] # <<>>
  PROVE  Head(mbox[a]) \in Contents(a)
BY Elements DEF SystemTypeOK, Contents

\* The actor that follows in a chain has this one before it.
LEMMA NextInChain ==
  ASSUME NEW a \in ChainActor, Following(a) \in Actor
  PROVE  /\ Following(a) \in ChainActor /\ Following(a)[1] = a[1]
         /\ Following(a)[2] > 0 /\ Previous(Following(a)) = a
<1>1. a[1] \in 1 .. ChainsNumber /\ a[2] \in 0 .. PipelineActors - 1 /\ a = <<a[1], a[2]>>
  BY DEF ChainActor
<1>2. a[2] < PipelineActors - 1 /\ Following(a) = <<a[1], a[2] + 1>>
  BY NullNotActor DEF Following
<1>3. <<a[1], a[2] + 1>> \in ChainActor
  BY <1>1, <1>2, ConfigAssumption DEF ChainActor
<1>4. Previous(<<a[1], a[2] + 1>>) = <<a[1], a[2]>>
  BY <1>1 DEF Previous
<1> QED BY <1>1, <1>2, <1>3, <1>4

\* What keeps the mailboxes, the chains and the handles keeps the order.
LEMMA StillOrdered ==
  ASSUME Order, UNCHANGED <<mbox, live, configured, chains_built, next_, heads_>>
  PROVE  Order'
BY DEF Order, Messages, Proper, Linked, Headed, StopsInOrder, Contents, Has, Spawned,
       HeadType

\* Nobody is told to quit, except heads, and nobody passes a kill on.
Mild(out) ==
  \A a \in Actor : \A m : out[a] = <<m>> =>
    Proper(a, m) /\ (m.type = "kill" /\ a \in ChainActor => a[2] = 0)

\* A step that sends and passes on no kill keeps the order, given what it
\* does to the handles.
LEMMA MildStep ==
  ASSUME Typed, Order, NEW self, NEW out, Parcel(out), Mild(out), Arrives(self, out),
         self \in ChainActor => Head(mbox[self]).type # "kill",
         live' \cap ChainActor = live \cap ChainActor, live' \subseteq Actor,
         UNCHANGED chains_built, Linked', Headed'
  PROVE  Order'
<1>1. \A a \in Actor : \A m \in Contents(a)' : m \in Contents(a) \/ out[a] = <<m>>
  BY Arrivals DEF Typed
<1>2. Messages'
  <2> SUFFICES ASSUME NEW a \in Actor, NEW m \in Contents(a)'
               PROVE  /\ Proper(a, m)
                      /\ m.type = "kill" /\ a \in ChainActor /\ a[2] > 0
                           => Previous(a) \notin live'
    BY DEF Messages, Proper, HeadType
  <2>1. CASE m \in Contents(a)
    <3>1. Proper(a, m)
      BY <2>1 DEF Order, Messages
    <3>2. ASSUME m.type = "kill", a \in ChainActor, a[2] > 0
          PROVE  Previous(a) \notin live'
      <4>1. Previous(a) \notin live /\ Previous(a) \in ChainActor
        <5>1. a[1] \in 1 .. ChainsNumber /\ a[2] \in 0 .. PipelineActors - 1
          BY <3>2 DEF ChainActor
        <5>2. <<a[1], a[2] - 1>> \in ChainActor
          BY <3>2, <5>1, ConfigAssumption DEF ChainActor
        <5> QED BY <2>1, <3>2, <5>2 DEF Order, Messages, Previous
      <4> QED BY <4>1
    <3> QED BY <3>1, <3>2
  <2>2. CASE out[a] = <<m>>
    <3>1. Proper(a, m) /\ (m.type = "kill" /\ a \in ChainActor => a[2] = 0)
      BY <2>2 DEF Mild
    <3> QED BY <3>1
  <2> QED BY <1>1, <2>1, <2>2
<1>3. StopsInOrder'
  <2> SUFFICES ASSUME NEW a \in ChainActor, a \notin live', Spawned(a)'
               PROVE  /\ a[2] > 0 => Previous(a) \notin live'
                      /\ Following(a) \in live' => Has(Following(a), "kill")'
    BY DEF StopsInOrder, Previous, Following
  <2>1. /\ a[2] > 0 => Previous(a) \notin live
        /\ Following(a) \in live => Has(Following(a), "kill")
    BY DEF Order, StopsInOrder, Spawned
  <2>2. ASSUME a[2] > 0 PROVE Previous(a) \notin live'
    <3>1. a[1] \in 1 .. ChainsNumber /\ a[2] \in 0 .. PipelineActors - 1
      BY DEF ChainActor
    <3>2. <<a[1], a[2] - 1>> \in ChainActor
      BY <2>2, <3>1, ConfigAssumption DEF ChainActor
    <3> QED BY <2>1, <2>2, <3>2 DEF Previous
  <2>3. ASSUME Following(a) \in live' PROVE Has(Following(a), "kill")'
    <3>1. Following(a) \in ChainActor /\ Following(a) \in Actor /\ Following(a) \in live
      BY <2>3, NextInChain
    <3>2. PICK m \in Contents(Following(a)) : m.type = "kill"
      BY <2>1, <3>1 DEF Has
    <3>3. m \in Contents(Following(a))'
      <4>1. \A x \in Actor : x \in live' => \A y \in Contents(x) :
              y \in Contents(x)' \/ (x = self /\ y = Head(mbox[x]))
        BY Arrivals DEF Typed
      <4> DEFINE b == Following(a)
      <4>2. m \in Contents(b)' \/ (b = self /\ m = Head(mbox[b]))
        BY <2>3, <3>1, <3>2, <4>1
      <4> QED BY <3>1, <3>2, <4>2
    <3> QED BY <3>2, <3>3 DEF Has, Following
  <2> QED BY <2>2, <2>3
<1> QED BY <1>2, <1>3 DEF Order

\* A message about which Order says nothing.
Plain(m) == m.type \notin HeadType \cup {"init_bench", "kill"}

\* A plain message to one actor, and none at all, are mild.
LEMMA PlainMild ==
  /\ Parcel(Silent) /\ Mild(Silent)
  /\ \A h, m : Plain(m) => Parcel(Sent(h, m)) /\ Mild(Sent(h, m))
<1>1. \A m : <<>> # <<m>>
  OBVIOUS
<1>2. \A a \in Actor : a \in Handle
  BY MainActorsAreActors
<1>3. Parcel(Silent) /\ Mild(Silent)
  BY <1>1, <1>2 DEF Parcel, Mild, Silent
<1>4. ASSUME NEW h, NEW m, Plain(m) PROVE Parcel(Sent(h, m)) /\ Mild(Sent(h, m))
  <2>1. \A a \in Actor : Sent(h, m)[a] = IF a = h THEN <<m>> ELSE <<>>
    BY <1>2 DEF Sent
  <2>2. \A x : <<m>> = <<x>> => x = m
    OBVIOUS
  <2>3. \A a : Proper(a, m) /\ m.type # "kill"
    BY <1>4 DEF Plain, Proper
  <2> QED BY <1>1, <2>1, <2>2, <2>3 DEF Parcel, Mild
<1> QED BY <1>3, <1>4

\* A step that changes neither handles nor chains.
LEMMA QuietStep ==
  ASSUME Typed, Order, NEW self, self \in Actor => mbox[self] # <<>>,
         self \in ChainActor => Head(mbox[self]).type # "kill",
         NEW out, Parcel(out), Mild(out), NEW alive, NEW pending,
         Step(self, out, alive, pending), alive \subseteq Actor,
         alive \cap ChainActor = live \cap ChainActor,
         configured' \cap ChainActor = configured \cap ChainActor,
         UNCHANGED <<chains_built, next_>>, Headed'
  PROVE  Order'
<1>1. Arrives(self, out) /\ live' = alive
  BY DEF Step, Arrives
<1>2. Linked'
  BY <1>1 DEF Order, Linked, Spawned, Following
<1> QED BY <1>1, <1>2, MildStep

\* Measurements are plain.
LEMMA ProbesPlain ==
  ASSUME NEW m \in ProbeMsg, NEW t \in ProbeType
  PROVE  /\ Plain([m EXCEPT !.type = t, !.hops = @ + 1])
         /\ Plain(NextRound(m))
<1>1. [m EXCEPT !.type = t, !.hops = @ + 1].type = t
  BY DEF ProbeMsg
<1>2. NextRound(m).type = "weightless"
  <2> DEFINE r == ProbeRestart(m)
  <2>1. NextRound(m) = [r EXCEPT !.type = "weightless", !.hops = 1, !.start = @ - m.hops]
    BY DEF NextRound
  <2>2. r \in ProbeMsg
    BY RestartTyped
  <2> HIDE DEF r
  <2> QED BY <2>1, <2>2 DEF ProbeMsg
<1> QED BY <1>1, <1>2 DEF Plain, HeadType, ProbeType

\* Messages without arguments are plain, but for kill.
LEMMA SignalsPlain == \A t : t \notin HeadType \cup {"init_bench", "kill"} => Plain(Signal(t))
BY DEF Plain, Signal

-----------------------------------------------------------------------------
\* Every component's step keeps the order.

\* The executor tells only heads to quit.
LEMMA StopMessagesMild ==
  ASSUME NEW heads, \A h \in heads : h[2] = 0,
         NEW t \in SignalType \ (HeadType \cup {"init_bench", "kill"})
  PROVE  Parcel(StopMessages(heads, t)) /\ Mild(StopMessages(heads, t))
<1>1. \A a \in Actor : a \in Handle
  BY MainActorsAreActors
<1>2. \A a \in Actor :
        \/ StopMessages(heads, t)[a] = <<Signal(t)>>
        \/ StopMessages(heads, t)[a] = <<Signal("topo_kill")>>
        \/ StopMessages(heads, t)[a] = <<Signal("kill")>> /\ a[2] = 0
        \/ StopMessages(heads, t)[a] = <<>>
  BY <1>1 DEF StopMessages
<1>3. /\ Plain(Signal(t)) /\ Plain(Signal("topo_kill"))
      /\ \A a : Proper(a, Signal("kill"))
  BY DEF Plain, Proper, Signal, HeadType
<1>4. \A a, m : Plain(m) => Proper(a, m) /\ m.type # "kill"
  BY DEF Plain, Proper
<1>5. \A x, m : <<x>> = <<m>> => x = m /\ <<>> # <<m>>
  OBVIOUS
<1> QED BY <1>2, <1>3, <1>4, <1>5 DEF Parcel, Mild

\* The steps of the executor: it sends kill to heads only.
LEMMA ExecutorOrder == ASSUME Typed, Order, ExecutorMoves PROVE Order'
<1>0. /\ Executor \in Actor /\ Executor \notin ChainActor /\ live \subseteq Actor
      /\ UNCHANGED <<next_, chains_built>> /\ Headed
      /\ heads_ \in Seq(ChainActor)
  BY ActorKinds, MainActorsAreActors
     DEF ExecutorMoves, benchVars, topoVars, MainActor, Typed, SystemTypeOK, Order, ExecTypeOK
<1>1. ASSUME UNCHANGED heads_ PROVE Headed'
  BY <1>0, <1>1 DEF Headed
<1>2. ASSUME NEW t, Receives(Executor, t), NEW out, Parcel(out), Mild(out),
             NEW alive, NEW pending, Step(Executor, out, alive, pending),
             alive \subseteq Actor, alive \cap ChainActor = live \cap ChainActor,
             configured' \cap ChainActor = configured \cap ChainActor, Headed'
      PROVE  Order'
  BY <1>0, <1>2, QuietStep DEF Receives
<1>3. ASSUME Crash, UNCHANGED <<configured, heads_>> PROVE Order'
  BY <1>0, <1>3, StillOrdered DEF Crash
<1>4. CASE ExecInit
  BY <1>0, <1>1, <1>2, <1>4, PlainMild DEF ExecInit, Handled
<1>5. CASE Sysconfig
  <2>1. Plain(BenchmarkSignal) /\ Plain(Signal("make_linear_chain"))
    BY SignalsPlain DEF BenchmarkSignal, HeadType
  <2> QED BY <1>0, <1>1, <1>2, <1>5, <2>1, PlainMild DEF Sysconfig, Handled, execVars
<1>6. CASE SystemBuilding
  <2>1. Plain(Signal("sysconfig"))
    BY SignalsPlain DEF HeadType
  <2>2. Head(mbox[Executor]).head[2] = 0
    <3>1. Head(mbox[Executor]) \in Contents(Executor)
      BY <1>0, <1>6, FirstIsContent DEF SystemBuilding, Receives, Typed
    <3> QED BY <1>0, <1>6, <3>1
            DEF SystemBuilding, Receives, Order, Messages, Proper, HeadType
  <2>3. Headed'
    <3> DEFINE h == Head(mbox[Executor]).head
    <3>1. heads_' = Append(heads_, h)
      BY <1>6 DEF SystemBuilding
    <3>2. h[2] = 0
      BY <2>2
    <3> HIDE DEF h
    <3>3. Len(heads_') = Len(heads_) + 1 /\ heads_'[Len(heads_) + 1] = h
          /\ \A i \in 1 .. Len(heads_) : heads_'[i] = heads_[i]
      BY <1>0, <3>1
    <3> QED BY <1>0, <3>2, <3>3 DEF Headed
  <2> QED BY <1>0, <1>2, <1>6, <2>1, <2>3, PlainMild DEF SystemBuilding, Handled
<1>7. CASE SerialBenchmark
  <2>1. Plain(SerialStart)
    BY DEF Plain, SerialStart, HeadType
  <2> QED BY <1>0, <1>1, <1>2, <1>7, <2>1, PlainMild DEF SerialBenchmark, Handled, execVars
<1>8. CASE Serial
  <2> DEFINE x == NextRound(Head(mbox[Executor]))
             out == [h \in Handle |-> IF h \in SerialTargets THEN <<x>> ELSE <<>>]
  <2>1. Plain(x)
    BY <1>0, <1>8, HeadTyped, ProbesPlain DEF Serial, Receives, Typed, ProbeType
  <2> HIDE DEF x
  <2>2. Parcel(out) /\ Mild(out)
    <3>1. \A a \in Actor : out[a] = <<x>> \/ out[a] = <<>>
      BY MainActorsAreActors
    <3>2. \A m : <<>> # <<m>> /\ (<<x>> = <<m>> => m = x)
      OBVIOUS
    <3>3. \A a : Proper(a, x) /\ x.type # "kill"
      BY <2>1 DEF Plain, Proper
    <3> HIDE DEF out
    <3> QED BY <3>1, <3>2, <3>3 DEF Parcel, Mild
  <2>3. CASE heads_ = <<>>
    BY <1>3, <1>8, <2>3 DEF Serial
  <2>4. CASE heads_ # <<>>
    <3>1. Receives(Executor, "serial") /\ Handled(Executor, out)
          /\ UNCHANGED <<configured, heads_>>
      BY <1>8, <2>4 DEF Serial, x
    <3> HIDE DEF out
    <3> QED BY <1>0, <1>1, <1>2, <2>2, <3>1 DEF Handled
  <2> QED BY <2>3, <2>4
<1>9. ASSUME NEW t, UpdateMetrics(t) PROVE Order'
  BY <1>0, <1>1, <1>2, <1>9, PlainMild DEF UpdateMetrics, execVars
<1>10. CASE SerialKill
  <2>1. CASE heads_ = <<>> \/ nsteps_ * rep_counter_ = 0
            \/ total_latency_ = 0
    BY <1>3, <1>10, <2>1 DEF SerialKill
  <2>2. CASE ~ (heads_ = <<>> \/ nsteps_ * rep_counter_ = 0
               \/ total_latency_ = 0)
    <3> DEFINE t == IF IsCrossTimes THEN "serial_collect_xtimes" ELSE "serial_collect"
               out == StopMessages({heads_[1]}, t)
    <3>1. \A h \in {heads_[1]} : h[2] = 0
      BY <1>0, <2>2 DEF Headed
    <3>2. Parcel(out) /\ Mild(out)
      BY <3>1, StopMessagesMild DEF SignalType, HeadType
    <3>3. /\ Receives(Executor, "serial_kill")
          /\ Step(Executor, out, live, timers \cup {Later(Executor, "end")})
          /\ UNCHANGED <<configured, heads_>>
      BY <1>10, <2>2 DEF SerialKill
    <3> HIDE DEF out
    <3> QED BY <1>0, <1>1, <1>2, <3>2, <3>3
  <2> QED BY <2>1, <2>2
<1>11. CASE ParallelBenchmark
  BY <1>0, <1>1, <1>2, <1>11, PlainMild DEF ParallelBenchmark, execVars
<1>12. CASE Parallel
  BY <1>0, <1>1, <1>2, <1>3, <1>12, PlainMild DEF Parallel, Handled
<1>13. CASE ParallelKill
  <2>1. CASE nsteps_ = 0
    BY <1>3, <1>13, <2>1 DEF ParallelKill
  <2>2. CASE nsteps_ # 0
    <3> DEFINE t == IF IsCrossTimes THEN "rec_collect_xtimes" ELSE "rec_collect"
               out == StopMessages({heads_[i] : i \in 1 .. Len(heads_)}, t)
    <3>1. Parcel(out) /\ Mild(out)
      BY <1>0, StopMessagesMild DEF SignalType, HeadType, Headed
    <3>2. /\ Receives(Executor, "parallel_kill")
          /\ Step(Executor, out, live, timers \cup {Later(Executor, "end")})
          /\ UNCHANGED configured /\ heads_' = <<>>
      BY <1>13, <2>2 DEF ParallelKill
    <3>3. Headed'
      BY <3>2 DEF Headed
    <3> HIDE DEF out
    <3> QED BY <1>0, <1>2, <3>1, <3>2, <3>3
  <2> QED BY <2>1, <2>2
<1>14. CASE End
  BY <1>0, <1>1, <1>2, <1>14, PlainMild DEF End, execVars
<1> QED
  BY <1>4, <1>5, <1>6, <1>7, <1>8, <1>9, <1>10, <1>11, <1>12, <1>13, <1>14
     DEF ExecutorMoves, ExecutorStep

\* The steps of the rate generator.
LEMMA RgOrder == ASSUME Typed, Order, RgMoves PROVE Order'
<1>0. /\ Null \notin Actor /\ Null \notin ChainActor /\ live \subseteq Actor
      /\ UNCHANGED <<next_, chains_built, heads_>> /\ Headed
  BY NullNotActor
     DEF RgMoves, execVars, benchVars, topoVars, Typed, SystemTypeOK, Order, Actor
<1>1. Headed'
  BY <1>0 DEF Headed
<1>2. ASSUME NEW m, Plain(m), NEW h, Posted(Sent(h, m)), UNCHANGED configured PROVE Order'
  <2>1. Parcel(Sent(h, m)) /\ Mild(Sent(h, m))
    BY <1>2, PlainMild
  <2>2. Step(Null, Sent(h, m), live, timers)
    BY <1>2 DEF Posted, Handled
  <2> QED BY <1>0, <1>1, <1>2, <2>1, <2>2, QuietStep
<1>3. CASE RgStart
  BY <1>0, <1>3, StillOrdered DEF RgStart, Crash
<1>4. CASE RgSend
  <2> DEFINE head == rg_receivers[rg_index + 1]
  <2>1. Plain(NewMsg(head[1]))
    BY DEF Plain, NewMsg, HeadType
  <2>2. Posted(Sent(head, NewMsg(head[1]))) /\ UNCHANGED configured
    BY <1>4 DEF RgSend
  <2> HIDE DEF head
  <2> QED BY <1>2, <2>1, <2>2
<1>5. CASE RgFinish
  <2>1. Plain(Signal("send_collect"))
    BY SignalsPlain DEF HeadType
  <2> QED BY <1>2, <1>5, <2>1 DEF RgFinish
<1>6. CASE RgFirstHop
  BY <1>0, <1>6, StillOrdered DEF RgFirstHop, Undefined
<1> QED BY <1>3, <1>4, <1>5, <1>6 DEF RgMoves, RgStep

\* The steps of an actor of the pool.
LEMMA PoolOrder == ASSUME Typed, Order, NEW p \in PoolActor, PoolMoves(p) PROVE Order'
<1>0. /\ p \in Actor /\ p \notin ChainActor /\ live \subseteq Actor
      /\ UNCHANGED <<next_, chains_built, heads_>> /\ Headed
  BY ActorKinds
     DEF PoolMoves, PoolActorStep, InitDetached, DetachedMsg, execVars, benchVars, topoVars,
         Typed, SystemTypeOK, Order, Actor
<1>1. Headed'
  BY <1>0 DEF Headed
<1>2. /\ \E out \in {Silent, Sent(TopoBuilder, Signal("init_detached_reply"))} :
           Step(p, out, live, timers)
      /\ mbox[p] # <<>> /\ configured' \in {configured, configured \cup {p}}
  BY DEF PoolMoves, PoolActorStep, InitDetached, DetachedMsg, Handled, Receives
<1>3. Plain(Signal("init_detached_reply"))
  BY SignalsPlain DEF HeadType
<1>4. \A out \in {Silent, Sent(TopoBuilder, Signal("init_detached_reply"))} :
        Parcel(out) /\ Mild(out)
  BY <1>3, PlainMild
<1> QED BY <1>0, <1>1, <1>2, <1>4, QuietStep

\* The steps of the results collector.
LEMMA CollectorOrder == ASSUME Typed, Order, CollectorMoves PROVE Order'
<1>0. /\ Collector \in Actor /\ Collector \notin ChainActor /\ live \subseteq Actor
      /\ UNCHANGED <<next_, chains_built, heads_>> /\ Headed
  BY ActorKinds, MainActorsAreActors
     DEF CollectorMoves, execVars, benchVars, topoVars, MainActor, Typed, SystemTypeOK, Order
<1>1. Headed'
  BY <1>0 DEF Headed
<1>2. CASE BenchmarkKill
  BY <1>0, <1>2, StillOrdered DEF BenchmarkKill
<1>3. CASE ~ BenchmarkKill
  <2>1. /\ \E pending : Step(Collector, Silent, live, pending)
        /\ mbox[Collector] # <<>>
        /\ configured' \in {configured, configured \cup {Collector}}
    BY <1>3
       DEF CollectorMoves, CollectorStep, RcInit, SendCollect, FinalCollect, SysCollect,
           Handled, Receives
  <2> QED BY <1>0, <1>1, <2>1, PlainMild, QuietStep
<1> QED BY <1>2, <1>3

\* The messages of main().
LEMMA MainOrder == ASSUME Typed, Order, MainStep PROVE Order'
<1>0. /\ Null \notin Actor /\ Null \notin ChainActor /\ live \subseteq Actor
      /\ UNCHANGED <<next_, chains_built, heads_, configured>> /\ Headed
  BY NullNotActor
     DEF MainStep, execVars, benchVars, topoVars, Typed, SystemTypeOK, Order, Actor
<1>1. Headed'
  BY <1>0 DEF Headed
<1>2. \A t \in {"init", "rc_init", "exec_init", "sysconfig"} : Plain(Signal(t))
  BY SignalsPlain DEF HeadType
<1>3. main_pc + 1 \in 1 .. 4
  BY MainPc DEF MainStep, MainSends
<1>4. Parcel(MainSends[main_pc + 1]) /\ Mild(MainSends[main_pc + 1])
  <2>1. \E h, m : Plain(m) /\ MainSends[main_pc + 1] = Sent(h, m)
    BY <1>2, <1>3 DEF MainSends
  <2> QED BY <2>1, PlainMild
<1>5. Step(Null, MainSends[main_pc + 1], live, timers)
  BY DEF MainStep, Posted, Handled
<1> QED BY <1>0, <1>1, <1>4, <1>5, QuietStep

\* The clock.
LEMMA ClockOrder == ASSUME Typed, Order, NEW t \in Timer, ClockMoves(t) PROVE Order'
<1>0. /\ Null \notin Actor /\ Null \notin ChainActor /\ live \subseteq Actor
      /\ UNCHANGED <<next_, chains_built, heads_, configured>> /\ Headed
  BY NullNotActor
     DEF ClockMoves, Fire, execVars, benchVars, topoVars, Typed, SystemTypeOK, Order, Actor
<1>1. Headed'
  BY <1>0 DEF Headed
<1>2. Plain(Signal(t.type))
  <2>1. t.type \notin HeadType \cup {"init_bench", "kill"}
    BY DEF Timer, HeadType
  <2> QED BY <2>1, SignalsPlain
<1>3. Step(Null, Sent(t.to, Signal(t.type)), live, timers \ {t})
  BY DEF ClockMoves, Fire
<1> QED BY <1>0, <1>1, <1>2, <1>3, PlainMild, QuietStep

\* The four handlers that pass a measurement on.
LEMMA PassOnOrder ==
  ASSUME Typed, Order, NEW a \in ChainActor,
         \/ Weightless(a) \/ WeightlessBack(a) \/ TimedMsg(a) \/ TimedMsgBack(a),
         UNCHANGED <<heads_, chains_built>>
  PROVE  Order'
<1>0. /\ a \in Actor /\ live \subseteq Actor /\ Headed
  BY DEF Actor, Typed, SystemTypeOK, Order
<1>1. Headed' /\ UNCHANGED <<configured, next_>>
  BY <1>0 DEF Headed, Weightless, WeightlessBack, TimedMsg, TimedMsgBack, linkVars
<1>2. PICK s \in ProbeType : Receives(a, s)
  BY DEF Weightless, WeightlessBack, TimedMsg, TimedMsgBack, ProbeType
<1>3. Head(mbox[a]) \in ProbeMsg /\ Head(mbox[a]).type # "kill" /\ mbox[a] # <<>>
  BY <1>0, <1>2, HeadTyped DEF Receives, Typed, ProbeType
<1>4. RestartAtHead(a, Head(mbox[a])) \in ProbeMsg
  BY <1>3, RestartTyped DEF RestartAtHead
<1>5. ASSUME NEW out, Parcel(out), Mild(out), Handled(a, out) PROVE Order'
  <2>1. Step(a, out, live, timers)
    BY <1>5 DEF Handled
  <2> QED BY <1>0, <1>1, <1>3, <1>5, <2>1, QuietStep
<1>6. ASSUME NEW dst, NEW t \in ProbeType, NEW m \in ProbeMsg, Relay(a, dst, t, m)
      PROVE  Order'
  <2> DEFINE x == [m EXCEPT !.type = t, !.hops = @ + 1]
             out == Sent(dst, x)
             p == <<0, index_>>
             jobs == [out EXCEPT ![p] = <<Signal("detached_msg")>>]
  <2>1. Plain(x) /\ Plain(Signal("detached_msg"))
    BY ProbesPlain, SignalsPlain DEF HeadType
  <2>2. Handled(a, out) \/ Handled(a, jobs)
    BY <1>6 DEF Relay
  <2> HIDE DEF x
  <2>3. Parcel(out) /\ Mild(out)
    BY <2>1, PlainMild
  <2>4. Parcel(jobs) /\ Mild(jobs)
    <3>1. \A b \in Actor : jobs[b] = out[b] \/ jobs[b] = <<Signal("detached_msg")>>
      BY MainActorsAreActors DEF Sent
    <3>2. \A b : Proper(b, Signal("detached_msg")) /\ Signal("detached_msg").type # "kill"
      BY <2>1 DEF Plain, Proper
    <3>3. \A m1, m2 : <<m1>> = <<m2>> => m1 = m2
      OBVIOUS
    <3> HIDE DEF jobs, out
    <3> QED BY <2>3, <3>1, <3>2, <3>3 DEF Parcel, Mild
  <2> HIDE DEF jobs, out
  <2> QED BY <1>5, <2>2, <2>3, <2>4
<1>7. ASSUME NEW t \in ProbeType, NEW m \in ProbeMsg, Report(a, t, m) PROVE Order'
  <2> DEFINE x == [ProbeStop(m) EXCEPT !.type = t, !.hops = @ + 1]
  <2>1. Plain(x)
    BY StopTyped, ProbesPlain
  <2>2. Handled(a, Sent(executor_[a], x))
    BY <1>7 DEF Report
  <2> HIDE DEF x
  <2> QED BY <1>5, <2>1, <2>2, PlainMild
<1>8. ASSUME NEW forth \in ProbeType, NEW back \in ProbeType, NEW done \in ProbeType,
             NEW m \in ProbeMsg, SendForth(a, forth, back, done, m) \/ SendBack(a, back, done, m)
      PROVE  Order'
  BY <1>6, <1>7, <1>8 DEF SendForth, SendBack
<1> QED
  BY <1>3, <1>4, <1>8 DEF Weightless, WeightlessBack, TimedMsg, TimedMsgBack, ProbeType

\* An actor that quits tells the one that follows it.
LEMMA KillOrder ==
  ASSUME Typed, Startup, Order, NEW a \in ChainActor, Kill(a),
         UNCHANGED <<heads_, chains_built>>
  PROVE  Order'
<1> DEFINE out == Sent(KillTarget(a), Signal("kill"))
<1>0. /\ a \in Actor /\ a \in live /\ live' = live \ {a} /\ live \subseteq Actor
      /\ UNCHANGED configured /\ Receives(a, "kill")
      /\ next_' = [next_ EXCEPT ![a] = Null] /\ next_ \in [ChainActor -> Handle]
      /\ SystemTypeOK
  BY DEF Kill, Step, Receives, Actor, Typed, SystemTypeOK, BenchTypeOK
<1>1. Arrives(a, out)
  BY <1>0 DEF Kill, Step, Arrives, Receives
<1>2. KillTarget(a) = Following(a)
  <2>1. a \in configured
    BY <1>0, Initialised, ActorKinds
  <2> QED BY <1>0, <2>1 DEF Order, Linked, KillTarget
<1>3. \A b \in Actor : out[b] = IF b = Following(a) THEN <<Signal("kill")>> ELSE <<>>
  BY <1>2, MainActorsAreActors DEF Sent
<1>4. Signal("kill").type = "kill" /\ \A b : Proper(b, Signal("kill"))
  BY DEF Proper, Signal, HeadType
<1>5. \A m, x : <<>> # <<m>> /\ (<<x>> = <<m>> => x = m)
  OBVIOUS
<1> HIDE DEF out
<1>6. Parcel(out)
  BY <1>3 DEF Parcel
<1>7. /\ \A b \in Actor : \A m \in Contents(b)' : m \in Contents(b) \/ out[b] = <<m>>
      /\ \A b \in Actor : b \in live' => \A m : out[b] = <<m>> => m \in Contents(b)'
      /\ \A b \in Actor : b \in live' => \A m \in Contents(b) :
           m \in Contents(b)' \/ (b = a /\ m = Head(mbox[b]))
  BY <1>0, <1>1, <1>6, Arrivals
<1>8. Linked' /\ Headed'
  BY <1>0 DEF Order, Linked, Spawned, Following, Headed
<1>9. Messages'
  <2> SUFFICES ASSUME NEW b \in Actor, NEW m \in Contents(b)'
               PROVE  /\ Proper(b, m)
                      /\ m.type = "kill" /\ b \in ChainActor /\ b[2] > 0
                           => Previous(b) \notin live'
    BY DEF Messages, Proper, HeadType
  <2>1. CASE m \in Contents(b)
    BY <1>0, <2>1 DEF Order, Messages
  <2>2. CASE out[b] = <<m>>
    <3>1. b = Following(a) /\ m = Signal("kill")
      BY <1>3, <1>5, <2>2
    <3>2. Previous(b) = a
      BY <3>1, NextInChain
    <3> QED BY <1>0, <1>4, <3>1, <3>2
  <2> QED BY <1>7, <2>1, <2>2
<1>10. StopsInOrder'
  <2> SUFFICES ASSUME NEW b \in ChainActor, b \notin live', Spawned(b)
               PROVE  /\ b[2] > 0 => Previous(b) \notin live'
                      /\ Following(b) \in live' => Has(Following(b), "kill")'
    BY DEF StopsInOrder, Previous, Following, Spawned
  <2>1. CASE b = a
    <3>1. Head(mbox[a]) \in Contents(a) /\ Head(mbox[a]).type = "kill"
      BY <1>0, FirstIsContent DEF Receives
    <3>2. a[2] > 0 => Previous(a) \notin live'
      BY <1>0, <3>1 DEF Order, Messages
    <3>3. ASSUME Following(a) \in live' PROVE Has(Following(a), "kill")'
      <4> DEFINE c == Following(a)
      <4>1. c \in Actor
        BY <1>0, <3>3
      <4>2. out[c] = <<Signal("kill")>>
        BY <1>3, <4>1
      <4>3. Signal("kill") \in Contents(c)'
        BY <1>7, <3>3, <4>1, <4>2
      <4> QED BY <1>4, <4>3 DEF Has
    <3> QED BY <2>1, <3>2, <3>3
  <2>2. CASE b # a
    <3>1. /\ b[2] > 0 => Previous(b) \notin live
          /\ Following(b) \in live => Has(Following(b), "kill")
      BY <1>0, <2>2 DEF Order, StopsInOrder
    <3>2. ASSUME Following(b) \in live' PROVE Has(Following(b), "kill")'
      <4> DEFINE c == Following(b)
      <4>1. c \in Actor /\ c \in live /\ c # a
        BY <1>0, <3>2
      <4>2. PICK m \in Contents(c) : m.type = "kill"
        BY <3>1, <4>1 DEF Has
      <4>3. m \in Contents(c)'
        BY <1>7, <3>2, <4>1, <4>2
      <4> QED BY <4>2, <4>3 DEF Has
    <3> QED BY <1>0, <3>1, <3>2
  <2> QED BY <2>1, <2>2
<1> QED BY <1>8, <1>9, <1>10 DEF Order

\* The steps of an actor of a chain.
LEMMA ChainOrder ==
  ASSUME Typed, Startup, Order, NEW a \in ChainActor, ChainMoves(a) PROVE Order'
<1>0. /\ a \in Actor /\ a \in Handle /\ live \subseteq Actor /\ Headed
      /\ UNCHANGED <<heads_, chains_built>>
      /\ next_ \in [ChainActor -> Handle]
  BY DEF Actor, Handle, ChainMoves, execVars, topoVars, Typed, SystemTypeOK, Order, BenchTypeOK
<1>1. Headed'
  BY <1>0 DEF Headed
<1>2. CASE InitBench(a)
  <2> DEFINE m == Head(mbox[a])
             reply == [type |-> "init_bench_reply", head |-> HeadOf(a[1])]
             out == Sent(TopoBuilder, reply)
  <2>1. /\ Step(a, out, live, timers) /\ configured' = configured \cup {a}
        /\ next_' = [next_ EXCEPT ![a] = m.next]
        /\ Receives(a, "init_bench")
    BY <1>2 DEF InitBench, Handled
  <2>2. m.next = Following(a)
    <3>1. m \in Contents(a) /\ m.type = "init_bench"
      BY <1>0, <2>1, FirstIsContent DEF Receives, Typed
    <3> QED BY <1>0, <3>1 DEF Order, Messages, Proper
  <2>3. Spawned(a)
    BY <2>1 DEF Startup, SpawnedInTurn, Spawned, Receives
  <2> HIDE DEF m
  <2>4. Linked'
    BY <1>0, <2>1, <2>2, <2>3 DEF Order, Linked, Spawned, Following, Step
  <2>5. Parcel(out) /\ Mild(out)
    <3>1. reply.type = "init_bench_reply" /\ reply.head[2] = 0
      BY DEF HeadOf
    <3>2. \A b : Proper(b, reply) /\ reply.type # "kill"
      BY <3>1 DEF Proper
    <3> HIDE DEF reply
    <3>3. \A b \in Actor : out[b] = <<reply>> \/ out[b] = <<>>
      BY MainActorsAreActors DEF Sent
    <3>4. \A x : <<>> # <<x>> /\ (<<reply>> = <<x>> => x = reply)
      OBVIOUS
    <3> HIDE DEF out
    <3> QED BY <3>2, <3>3, <3>4 DEF Parcel, Mild
  <2> HIDE DEF out
  <2>6. Arrives(a, out) /\ live' = live
    BY <2>1 DEF Step, Arrives, Receives
  <2>7. Head(mbox[a]).type # "kill"
    BY <2>1 DEF Receives
  <2> QED BY <1>0, <1>1, <2>4, <2>5, <2>6, <2>7, MildStep
<1>3. CASE Weightless(a) \/ WeightlessBack(a) \/ TimedMsg(a) \/ TimedMsgBack(a)
  BY <1>0, <1>3, PassOnOrder
<1>4. CASE Kill(a)
  BY <1>0, <1>4, KillOrder
<1> QED BY <1>2, <1>3, <1>4 DEF ChainMoves, ChainActorStep

\* A new chain has empty mailboxes, and no actor of it has been told to quit.
LEMMA MakeLinearChainOrder ==
  ASSUME Typed, Startup, Order, MakeLinearChain, UNCHANGED <<heads_, next_>>
  PROVE  Order'
<1> DEFINE n == chains_built + 1
           chain == ChainOf(n)
           out == [h \in Handle |-> IF h \in chain THEN <<InitRequest(h)>> ELSE <<>>]
<1>0. /\ TopoBuilder \notin ChainActor /\ live' = live \cup chain
      /\ live \subseteq Actor /\ chains_built' = n /\ chains_built \in Nat
      /\ UNCHANGED configured /\ SystemTypeOK
  BY ActorKinds DEF MakeLinearChain, Step, MainActor, Typed, SystemTypeOK, TopoTyped
<1>1. \A a \in ChainActor : (a \in chain <=> a[1] = n) /\ a[1] \in Nat
  BY ConfigAssumption DEF ChainOf, ChainActor
<1>2. chain \subseteq ChainActor
  BY DEF ChainOf
<1>3. Arrives(TopoBuilder, out)
  BY DEF MakeLinearChain, Step, Arrives, Receives
<1>4. \A a \in Actor : out[a] = IF a \in chain THEN <<InitRequest(a)>> ELSE <<>>
  BY MainActorsAreActors
<1>5. \A m, x : <<>> # <<m>> /\ (<<x>> = <<m>> => x = m)
  OBVIOUS
<1>6. \A a : InitRequest(a).type = "init_bench" /\ Proper(a, InitRequest(a))
  BY DEF InitRequest, Proper, HeadType
<1> HIDE DEF chain, out
<1>7. Parcel(out)
  BY <1>4 DEF Parcel
<1>8. /\ \A a \in Actor : \A m \in Contents(a)' : m \in Contents(a) \/ out[a] = <<m>>
      /\ \A a \in Actor : a \in live' => \A m \in Contents(a) :
           m \in Contents(a)' \/ (a = TopoBuilder /\ m = Head(mbox[a]))
  BY <1>0, <1>3, <1>7, Arrivals
<1>9. \A a \in chain : a \notin live /\ Contents(a) = {} /\ a \notin configured
  <2> TAKE a \in chain
  <2>1. a \in ChainActor /\ a[1] = n /\ a \in Actor
    BY <1>1, <1>2 DEF Actor
  <2>2. a \notin live
    BY <1>0, <2>1 DEF Startup, SpawnedInTurn
  <2>3. mbox[a] = <<>>
    BY <2>1, <2>2 DEF Startup, DeadEmpty
  <2>4. a \notin configured
    BY <1>0, <2>1 DEF Order, Linked, Spawned
  <2> QED BY <2>2, <2>3, <2>4 DEF Contents, ToSet
<1>10. Linked' /\ Headed'
  BY <1>0, <1>1, <1>9 DEF Order, Linked, Spawned, Following, Headed
<1>11. Messages'
  <2> SUFFICES ASSUME NEW a \in Actor, NEW m \in Contents(a)'
               PROVE  /\ Proper(a, m)
                      /\ m.type = "kill" /\ a \in ChainActor /\ a[2] > 0
                           => Previous(a) \notin live'
    BY DEF Messages, Proper, HeadType
  <2>1. CASE a \in chain
    <3>1. m = InitRequest(a)
      BY <1>4, <1>5, <1>8, <1>9, <2>1
    <3> QED BY <1>6, <3>1
  <2>2. CASE a \notin chain
    <3>1. m \in Contents(a)
      BY <1>4, <1>5, <1>8, <2>2
    <3>2. ASSUME a \in ChainActor, a[2] > 0 PROVE Previous(a) \notin chain
      <4>1. a[1] # n /\ Previous(a)[1] = a[1]
        BY <1>1, <2>2, <3>2 DEF Previous
      <4> QED BY <1>1, <1>2, <4>1
    <3> QED BY <1>0, <3>1, <3>2 DEF Order, Messages
  <2> QED BY <2>1, <2>2
<1>12. StopsInOrder'
  <2> SUFFICES ASSUME NEW a \in ChainActor, a \notin live', Spawned(a)'
               PROVE  /\ a[2] > 0 => Previous(a) \notin live'
                      /\ Following(a) \in live' => Has(Following(a), "kill")'
    BY DEF StopsInOrder, Previous, Following
  <2>1. a \notin live /\ a[1] # n /\ Spawned(a)
    BY <1>0, <1>1 DEF Spawned
  <2>2. /\ a[2] > 0 => Previous(a) \notin live
        /\ Following(a) \in live => Has(Following(a), "kill")
    BY <2>1 DEF Order, StopsInOrder
  <2>3. ASSUME a[2] > 0 PROVE Previous(a) \notin live'
    <3>1. Previous(a)[1] = a[1]
      BY <2>3 DEF Previous
    <3> QED BY <1>0, <1>1, <1>2, <2>1, <2>2, <2>3, <3>1
  <2>4. ASSUME Following(a) \in live' PROVE Has(Following(a), "kill")'
    <3> DEFINE c == Following(a)
    <3>1. c \in Actor
      BY <1>0, <1>2, <2>4 DEF Actor
    <3>2. c \in ChainActor /\ c[1] = a[1]
      BY <3>1, NextInChain
    <3>3. c \in live /\ c # TopoBuilder
      BY <1>0, <1>1, <2>1, <2>4, <3>2
    <3>4. PICK m \in Contents(c) : m.type = "kill"
      BY <2>2, <3>3 DEF Has
    <3>5. m \in Contents(c)'
      BY <1>8, <2>4, <3>1, <3>3, <3>4
    <3> QED BY <3>4, <3>5 DEF Has
  <2> QED BY <2>3, <2>4
<1> QED BY <1>10, <1>11, <1>12 DEF Order

\* The steps of the topology builder.
LEMMA TopoOrder == ASSUME Typed, Startup, Order, TopoMoves PROVE Order'
<1>0. /\ TopoBuilder \in Actor /\ TopoBuilder \notin ChainActor /\ live \subseteq Actor
      /\ UNCHANGED <<next_, heads_>> /\ Headed
  BY ActorKinds, MainActorsAreActors
     DEF TopoMoves, execVars, benchVars, MainActor, Typed, SystemTypeOK, Order
<1>1. Headed'
  BY <1>0 DEF Headed
<1>2. ASSUME NEW t, Receives(TopoBuilder, t), NEW out, Parcel(out), Mild(out), NEW alive,
             Step(TopoBuilder, out, alive, timers), alive \subseteq Actor,
             alive \cap ChainActor = live \cap ChainActor, UNCHANGED chains_built,
             configured' \cap ChainActor = configured \cap ChainActor
      PROVE  Order'
  BY <1>0, <1>1, <1>2, QuietStep DEF Receives
<1>3. CASE InitTopo
  <2> DEFINE x == Signal("init_detached")
             out == [h \in Handle |-> IF h \in PoolActor THEN <<x>> ELSE <<>>]
  <2>1. Plain(x)
    BY SignalsPlain DEF HeadType
  <2> HIDE DEF x
  <2>2. Parcel(out) /\ Mild(out)
    <3>1. \A a \in Actor : out[a] = <<x>> \/ out[a] = <<>>
      BY MainActorsAreActors
    <3>2. \A m : <<>> # <<m>> /\ (<<x>> = <<m>> => m = x)
      OBVIOUS
    <3>3. \A a : Proper(a, x) /\ x.type # "kill"
      BY <2>1 DEF Plain, Proper
    <3> HIDE DEF out
    <3> QED BY <3>1, <3>2, <3>3 DEF Parcel, Mild
  <2>3. /\ Receives(TopoBuilder, "init") /\ UNCHANGED chains_built
        /\ Step(TopoBuilder, out, live \cup PoolActor, timers)
        /\ configured' = configured \cup {TopoBuilder}
    BY <1>3 DEF InitTopo, x
  <2>4. /\ live \cup PoolActor \subseteq Actor
        /\ (live \cup PoolActor) \cap ChainActor = live \cap ChainActor
    BY <1>0, ActorKinds DEF Actor
  <2> HIDE DEF out
  <2> QED BY <1>0, <1>2, <2>2, <2>3, <2>4
<1>4. CASE InitDetachedReply
  BY <1>0, <1>2, <1>4, PlainMild DEF InitDetachedReply, Handled, topoVars
<1>5. CASE MakeLinearChain
  BY <1>0, <1>5, MakeLinearChainOrder
<1>6. CASE InitBenchReply
  <2> DEFINE h == Head(mbox[TopoBuilder]).head
             x == [type |-> "system_building", head |-> h]
             out == Sent(topo_executor_, x)
  <2>1. h[2] = 0
    <3>1. Head(mbox[TopoBuilder]) \in Contents(TopoBuilder)
      BY <1>0, <1>6, FirstIsContent DEF InitBenchReply, Receives, Typed
    <3> QED BY <1>0, <1>6, <3>1
            DEF InitBenchReply, Receives, Order, Messages, Proper, HeadType
  <2>2. Handled(TopoBuilder, out) \/ Handled(TopoBuilder, Silent)
    BY <1>6 DEF InitBenchReply
  <2>3. Receives(TopoBuilder, "init_bench_reply") /\ UNCHANGED <<configured, chains_built>>
    BY <1>6 DEF InitBenchReply
  <2> HIDE DEF h
  <2>4. Parcel(out) /\ Mild(out)
    <3>1. \A a : Proper(a, x) /\ x.type # "kill"
      BY <2>1 DEF Proper
    <3> HIDE DEF x
    <3>2. \A a \in Actor : out[a] = <<x>> \/ out[a] = <<>>
      BY MainActorsAreActors DEF Sent
    <3>3. \A m : <<>> # <<m>> /\ (<<x>> = <<m>> => m = x)
      OBVIOUS
    <3> HIDE DEF out
    <3> QED BY <3>1, <3>2, <3>3 DEF Parcel, Mild
  <2> HIDE DEF x, out
  <2> QED BY <1>0, <1>2, <2>2, <2>3, <2>4, PlainMild DEF Handled
<1>7. CASE TopoKill
  BY <1>0, <1>2, <1>7, PlainMild DEF TopoKill
<1> QED BY <1>3, <1>4, <1>5, <1>6, <1>7 DEF TopoMoves, TopoStep

-----------------------------------------------------------------------------
\* At the beginning there is no chain.
LEMMA InitOrder == Init => Order
<1> SUFFICES ASSUME Init PROVE Order
  OBVIOUS
<1>1. /\ mbox = [a \in Actor |-> <<>>] /\ configured = {} /\ chains_built = 0
      /\ heads_ = <<>>
  BY DEF Init, SystemInit, TopoInit, ExecInitState
<1>2. Messages
  BY <1>1 DEF Messages, Contents, ToSet
<1>3. Linked /\ Headed
  BY <1>1 DEF Linked, Headed
<1>4. StopsInOrder
  <2>1. \A a \in ChainActor : ~ Spawned(a)
    BY <1>1, ConfigAssumption DEF ChainActor, Spawned
  <2> QED BY <2>1 DEF StopsInOrder
<1> QED BY <1>2, <1>3, <1>4 DEF Order

\* Every step keeps the invariant.
LEMMA NextOrder == Typed /\ Startup /\ Order /\ [Next]_vars => Order'
<1> SUFFICES ASSUME Typed, Startup, Order, [Next]_vars PROVE Order'
  OBVIOUS
<1>1. CASE UNCHANGED worldVars
  BY <1>1, StillOrdered DEF worldVars, systemVars, topoVars, benchVars, execVars
<1> QED
  BY <1>1, MainOrder, ExecutorOrder, RgOrder, ChainOrder, PoolOrder, TopoOrder,
     CollectorOrder, ClockOrder DEF Next, TimePasses, Terminated, vars

(***************************************************************************)
(* For every number and length of chains and every interleaving: a chain   *)
(* quits from the head to the tail, and an actor whose predecessor has     *)
(* quit has a kill in its mailbox, so that no actor is left behind.        *)
(***************************************************************************)
THEOREM StoppingInOrder == Spec => []StopsInOrder
<1>1. Init => Order
  BY InitOrder
<1>2. Typed /\ Startup /\ Order /\ [Next]_vars => Order'
  BY NextOrder
<1>3. Order => StopsInOrder
  BY DEF Order
<1> QED BY <1>1, <1>2, <1>3, AlwaysStarted, PTL DEF Spec

------------------------------------------------------------------------------
(***************************************************************************)
(* How the chains are built, for every number and length of chains.        *)
(*                                                                         *)
(* Neither EachChainOnce nor AnnouncedChainsReady is inductive: nothing in *)
(* them rules out two requests for a chain, or a counter that stands for   *)
(* another chain.  The invariant OneChainAtATime says that until the       *)
(* benchmark starts exactly one message is under way that carries the      *)
(* building on (Stage), that the counter of the topology builder is what   *)
(* is missing of the newest chain (Building), and what the announced       *)
(* chains are (Known); afterwards nothing about building is ever sent      *)
(* again (Started).                                                        *)
(***************************************************************************)

\* How many messages of type t the sequence s holds.
Places(s, t) == {i \in DOMAIN s : s[i].type = t}
Count(s, t) == Cardinality(Places(s, t))

\* The actors of the newest chain that have not been initialised, and the
\* replies that the topology builder has not counted yet.
Unready == {a \in ChainOf(chains_built) : a \notin configured}
Missing == Cardinality(Unready) + Count(mbox[TopoBuilder], "init_bench_reply")
Asked == Count(mbox[TopoBuilder], "make_linear_chain")

BuilderTypes == {"init", "init_detached_reply", "make_linear_chain", "init_bench_reply"}

Request(a) ==
  [type |-> "init_bench", prev |-> Previous(a), next |-> Following(a),
   executor |-> Executor]

\* What holds until the benchmark starts.
Building ==
  /\ MainActor \subseteq live
  /\ rg_state = "absent"
  /\ \A t \in timers : t.to # Executor
  /\ \A m \in Contents(TopoBuilder) :
       /\ m.type \in BuilderTypes
       /\ m.type = "init_bench_reply" => m.head = HeadOf(chains_built)
  /\ Count(mbox[TopoBuilder], "init")
       = IF main_pc >= 1 /\ TopoBuilder \notin configured THEN 1 ELSE 0
  /\ Executor \in configured => topo_builder_ = TopoBuilder
  /\ IF TopoBuilder \in configured
     THEN topo_executor_ = Executor
          /\ counter_ = IF Missing = 0 THEN PipelineActors ELSE Missing
     ELSE chains_built = 0 /\ Missing = 0
  /\ \A a \in ChainActor :
       /\ a \in live <=> Spawned(a)
       /\ mbox[a] = IF a \in live \ configured THEN <<Request(a)>> ELSE <<>>
       /\ a[1] < chains_built => a \in configured

\* Where the building of the chains stands.
BeforeMain ==
  /\ main_pc < 4 /\ mbox[Executor] \in {<<>>, <<Signal("exec_init")>>}
  /\ Asked = 0 /\ Missing = 0 /\ Len(heads_) = chains_built

AtSysconfig ==
  /\ main_pc = 4
  /\ mbox[Executor] \in {<<Signal("exec_init"), Signal("sysconfig")>>, <<Signal("sysconfig")>>}
  /\ Asked = 0 /\ Missing = 0 /\ Len(heads_) = chains_built

AtMake ==
  /\ main_pc = 4 /\ mbox[Executor] = <<>>
  /\ Asked = 1 /\ Missing = 0 /\ Len(heads_) = chains_built /\ chains_built < ChainsNumber

AtInit ==
  /\ main_pc = 4 /\ mbox[Executor] = <<>>
  /\ Asked = 0 /\ Missing > 0 /\ Len(heads_) + 1 = chains_built

AtAnnounce ==
  /\ main_pc = 4
  /\ mbox[Executor] = <<[type |-> "system_building", head |-> HeadOf(chains_built)]>>
  /\ Asked = 0 /\ Missing = 0 /\ Len(heads_) + 1 = chains_built

AtStart ==
  /\ main_pc = 4 /\ mbox[Executor] = <<BenchmarkSignal>>
  /\ Asked = 0 /\ Missing = 0 /\ Len(heads_) = chains_built /\ Len(heads_) = ChainsNumber

Stage == BeforeMain \/ AtSysconfig \/ AtMake \/ AtInit \/ AtAnnounce \/ AtStart

BuildType ==
  {"sysconfig", "make_linear_chain", "init_bench", "init_bench_reply", "system_building",
   "serial_benchmark", "parallel_benchmark"}

Builder == {Executor, TopoBuilder} \cup ChainActor

\* The benchmark has started, and nothing is under way that would build or
\* start anything.
Started == main_pc = 4 /\ \A a \in Builder : \A m \in Contents(a) : m.type \notin BuildType

\* What is known of the announced chains and of the actors that are ready.
Known ==
  /\ \A i \in 1 .. Len(heads_) : heads_[i] = HeadOf(i)
  /\ \A a \in ChainActor :
       /\ a[1] <= Len(heads_) => a \in configured
       /\ a \in live \cap configured =>
            /\ prev_[a] = Previous(a) /\ next_[a] = Following(a) /\ executor_[a] = Executor

OneChainAtATime == Known /\ (Started \/ (Building /\ Stage))

-----------------------------------------------------------------------------
\* Counting messages.

\* A count is a number, and 0 when there is no such message.
LEMMA CountTyped ==
  ASSUME NEW S, NEW s \in Seq(S), NEW t
  PROVE  /\ IsFiniteSet(Places(s, t)) /\ Count(s, t) \in Nat
         /\ Count(s, t) = 0 <=> \A i \in DOMAIN s : s[i].type # t
<1>1. /\ Len(s) \in Nat /\ DOMAIN s = 1 .. Len(s) /\ Places(s, t) \subseteq 1 .. Len(s)
  BY DEF Places
<1>2. IsFiniteSet(1 .. Len(s))
  BY <1>1, FS_Interval
<1>3. IsFiniteSet(Places(s, t))
  BY <1>1, <1>2, FS_Subset
<1>4. Count(s, t) \in Nat /\ (Count(s, t) = 0 <=> Places(s, t) = {})
  BY <1>3, FS_CardinalityType, FS_EmptySet DEF Count
<1> QED BY <1>3, <1>4 DEF Places

\* There is nothing to count in an empty mailbox.
LEMMA CountEmpty == ASSUME NEW t PROVE Count(<<>>, t) = 0
<1>1. Places(<<>>, t) = {}
  BY DEF Places
<1> QED BY <1>1, FS_EmptySet DEF Count

\* A message put at the end is counted.
LEMMA CountAppend ==
  ASSUME NEW S, NEW s \in Seq(S), NEW m \in S, NEW t
  PROVE  Count(s \o <<m>>, t) = Count(s, t) + (IF m.type = t THEN 1 ELSE 0)
<1> DEFINE n == Len(s) + 1
           r == s \o <<m>>
<1>1. /\ Len(s) \in Nat /\ DOMAIN s = 1 .. Len(s) /\ DOMAIN r = 1 .. n
      /\ r[n] = m /\ \A i \in 1 .. Len(s) : r[i] = s[i]
  OBVIOUS
<1> HIDE DEF r
<1>2. Places(r, t) = Places(s, t) \cup (IF m.type = t THEN {n} ELSE {})
  BY <1>1 DEF Places
<1>3. n \notin Places(s, t)
  BY <1>1 DEF Places
<1>4. IsFiniteSet(Places(s, t))
  BY CountTyped
<1>5. CASE m.type = t
  <2>1. Places(r, t) = Places(s, t) \cup {n}
    BY <1>2, <1>5
  <2>2. Cardinality(Places(s, t) \cup {n}) = Cardinality(Places(s, t)) + 1
    BY <1>3, <1>4, FS_AddElement
  <2> QED BY <1>5, <2>1, <2>2 DEF Count, r
<1>6. CASE m.type # t
  <2>1. Places(r, t) = Places(s, t)
    BY <1>2, <1>6
  <2>2. Count(s, t) \in Nat
    BY CountTyped
  <2> QED BY <1>6, <2>1, <2>2 DEF Count, r
<1> QED BY <1>5, <1>6

\* The message that is taken is not counted any more.
LEMMA CountTail ==
  ASSUME NEW S, NEW s \in Seq(S), s # <<>>, NEW t
  PROVE  Count(Tail(s), t) = Count(s, t) - (IF Head(s).type = t THEN 1 ELSE 0)
<1> DEFINE r == Tail(s)
           P == Places(s, t) \ {1}
           R == Places(r, t)
           f == [i \in P |-> i - 1]
<1>1. /\ Len(s) \in Nat /\ Len(s) > 0 /\ DOMAIN s = 1 .. Len(s) /\ Head(s) = s[1]
      /\ DOMAIN r = 1 .. Len(s) - 1 /\ \A i \in 1 .. Len(s) - 1 : r[i] = s[i + 1]
  OBVIOUS
<1> HIDE DEF r
<1>2. \A i \in P : i \in 2 .. Len(s) /\ s[i].type = t
  BY <1>1 DEF Places
<1>3. \A i \in P : i - 1 \in R
  <2> TAKE i \in P
  <2>1. i \in 2 .. Len(s) /\ s[i].type = t
    BY <1>2
  <2>2. i - 1 \in 1 .. Len(s) - 1 /\ (i - 1) + 1 = i
    BY <1>1, <2>1
  <2>3. r[i - 1] = s[i]
    BY <1>1, <2>2
  <2> QED BY <1>1, <2>1, <2>2, <2>3 DEF Places
<1>4. \A j \in R : j + 1 \in P /\ j = (j + 1) - 1
  <2> TAKE j \in R
  <2>1. j \in 1 .. Len(s) - 1 /\ r[j].type = t
    BY <1>1 DEF Places
  <2>2. j + 1 \in 1 .. Len(s) /\ j + 1 # 1 /\ s[j + 1].type = t
    BY <1>1, <2>1
  <2> QED BY <1>1, <2>1, <2>2 DEF Places
<1>5. f \in Bijection(P, R)
  <2>1. f \in [P -> R]
    BY <1>3
  <2>2. \A i, j \in P : f[i] = f[j] => i = j
    BY <1>2
  <2>3. \A j \in R : \E i \in P : f[i] = j
    BY <1>4
  <2> HIDE DEF f, P, R
  <2> QED BY <2>1, <2>2, <2>3 DEF Bijection, Injection, IsInjective, Surjection
<1>6. IsFiniteSet(Places(s, t)) /\ Count(s, t) \in Nat
  BY CountTyped
<1>7. IsFiniteSet(P) /\ Cardinality(P) = IF 1 \in Places(s, t) THEN Count(s, t) - 1
                                                             ELSE Count(s, t)
  BY <1>6, FS_RemoveElement DEF Count
<1>8. Cardinality(R) = Cardinality(P)
  <2> HIDE DEF P, R
  <2> QED BY <1>5, <1>7, FS_Bijection DEF ExistsBijection
<1>9. 1 \in Places(s, t) <=> Head(s).type = t
  BY <1>1 DEF Places
<1> QED BY <1>6, <1>7, <1>8, <1>9 DEF Count, r

-----------------------------------------------------------------------------
\* Once the benchmark has started, nothing is built any more.

Off(out) == \A a \in Actor : \A m : out[a] = <<m>> => m.type \notin BuildType

\* What the building blocks of the handlers send comes one by one, and
\* starts nothing unless the message itself does.
LEMMA SendingOff ==
  /\ Parcel(Silent) /\ Off(Silent)
  /\ \A h, m : Parcel(Sent(h, m)) /\ (m.type \notin BuildType => Off(Sent(h, m)))
<1>1. \A m, x : <<>> # <<m>> /\ (<<x>> = <<m>> => x = m)
  OBVIOUS
<1>2. \A a \in Actor : Silent[a] = <<>>
  BY MainActorsAreActors DEF Silent
<1>3. \A h, m : \A a \in Actor : Sent(h, m)[a] \in {<<m>>, <<>>}
  BY MainActorsAreActors DEF Sent
<1> QED BY <1>1, <1>2, <1>3 DEF Parcel, Off

\* Who builds is an actor.
LEMMA BuildersAreActors == Builder \subseteq Actor
BY MainActorsAreActors DEF Builder, Actor

\* Handles and heads stay what they are.
KeepsKnown ==
  /\ configured \subseteq configured' /\ configured' \cap ChainActor = configured \cap ChainActor
  /\ live' \cap ChainActor \subseteq live
  /\ heads_' \in {heads_, <<>>}
  /\ \A a \in live' \cap ChainActor :
       prev_'[a] = prev_[a] /\ next_'[a] = next_[a] /\ executor_'[a] = executor_[a]

\* A step that keeps the handles and the heads keeps what is known of them.
LEMMA StillKnown == ASSUME Known, KeepsKnown PROVE Known'
<1>1. \A i \in 1 .. Len(heads_)' : heads_'[i] = heads_[i] /\ i \in 1 .. Len(heads_)
  BY DEF KeepsKnown
<1>2. ASSUME NEW a \in ChainActor, a[1] <= Len(heads_)' PROVE a \in configured'
  <2>1. CASE heads_' = heads_
    BY <1>2, <2>1 DEF KeepsKnown, Known
  <2>2. CASE heads_' = <<>>
    BY <1>2, <2>2, ConfigAssumption DEF ChainActor
  <2> QED BY <2>1, <2>2 DEF KeepsKnown
<1>3. ASSUME NEW a \in ChainActor, a \in live' \cap configured'
      PROVE  /\ prev_'[a] = Previous(a) /\ next_'[a] = Following(a)
             /\ executor_'[a] = Executor
  BY <1>3 DEF KeepsKnown, Known
<1> QED BY <1>1, <1>2, <1>3 DEF Known, HeadOf, Previous, Following

\* A step that sends nothing about building keeps the benchmark started.
LEMMA StartedStep ==
  ASSUME Typed, Known, Started, NEW self, NEW out, Parcel(out), Off(out), Arrives(self, out),
         KeepsKnown, UNCHANGED main_pc
  PROVE  Known' /\ Started'
<1>1. Known'
  BY StillKnown
<1>2. ASSUME NEW a \in Builder, NEW m \in Contents(a)' PROVE m.type \notin BuildType
  <2>1. m \in Contents(a) \/ out[a] = <<m>>
    BY BuildersAreActors, Arrivals DEF Typed
  <2> QED BY <2>1, BuildersAreActors DEF Started, Off
<1> QED BY <1>1, <1>2 DEF Started, Builder

\* What is consumed is not about building.
LEMMA StartedHead ==
  ASSUME Typed, Started, NEW a \in Builder, NEW t, Receives(a, t)
  PROVE  t \notin BuildType
<1>1. Head(mbox[a]) \in Contents(a)
  BY BuildersAreActors, FirstIsContent DEF Receives, Typed
<1> QED BY <1>1 DEF Started, Receives

\* A crash and an exit change nothing else.
LEMMA StartedStill ==
  ASSUME Known, Started, UNCHANGED <<mbox, main_pc>>, KeepsKnown
  PROVE  Known' /\ Started'
BY StillKnown DEF Started, Contents, Builder

\* The executor in a started benchmark: no handler of it sends anything
\* about building.
LEMMA ExecutorRuns == ASSUME Typed, Known, Started, ExecutorMoves PROVE Known' /\ Started'
<1>0. /\ Executor \in Builder /\ Executor \in Actor /\ Executor \notin ChainActor
      /\ UNCHANGED <<prev_, next_, executor_, main_pc>>
      /\ {"exec_init", "serial", "parallel", "kill", "topo_kill", "serial_collect",
          "serial_collect_xtimes", "rec_collect", "rec_collect_xtimes"} \cap BuildType = {}
  BY ActorKinds, MainActorsAreActors DEF ExecutorMoves, benchVars, MainActor, Builder, BuildType
<1>1. ASSUME NEW t, Receives(Executor, t), NEW out, Parcel(out), Off(out),
             NEW alive, NEW pending, Step(Executor, out, alive, pending), alive \subseteq live,
             configured' \in {configured, configured \cup {Executor}}, heads_' \in {heads_, <<>>}
      PROVE  Known' /\ Started'
  <2>1. KeepsKnown /\ Arrives(Executor, out)
    BY <1>0, <1>1 DEF KeepsKnown, Step, Arrives, Receives
  <2> QED BY <1>0, <1>1, <2>1, StartedStep
<1>2. ASSUME Crash, UNCHANGED <<configured, heads_>> PROVE Known' /\ Started'
  BY <1>0, <1>2, StartedStill DEF Crash, KeepsKnown
<1>3. ASSUME NEW t \in BuildType PROVE ~ Receives(Executor, t)
  BY <1>0, <1>3, StartedHead
<1>4. CASE ExecInit
  BY <1>1, <1>4, SendingOff DEF ExecInit, Handled
<1>5. ~ Sysconfig /\ ~ SystemBuilding /\ ~ SerialBenchmark /\ ~ ParallelBenchmark
  BY <1>3 DEF Sysconfig, SystemBuilding, SerialBenchmark, ParallelBenchmark, BuildType
<1>6. CASE Serial
  <2> DEFINE x == NextRound(Head(mbox[Executor]))
             out == [h \in Handle |-> IF h \in SerialTargets THEN <<x>> ELSE <<>>]
  <2>1. x.type \notin BuildType
    <3>1. Head(mbox[Executor]) \in ProbeMsg
      BY <1>0, <1>6, HeadTyped DEF Serial, Receives, Typed, ProbeType
    <3>2. x.type = "weightless"
      <4> DEFINE r == ProbeRestart(Head(mbox[Executor]))
      <4>1. x = [r EXCEPT !.type = "weightless", !.hops = 1,
                          !.start = @ - Head(mbox[Executor]).hops]
        BY DEF NextRound
      <4>2. r \in ProbeMsg
        BY <3>1, RestartTyped
      <4> HIDE DEF r, x
      <4> QED BY <4>1, <4>2 DEF ProbeMsg
    <3> QED BY <3>2 DEF BuildType
  <2> HIDE DEF x
  <2>2. Parcel(out) /\ Off(out)
    <3>1. \A a \in Actor : out[a] = <<x>> \/ out[a] = <<>>
      BY MainActorsAreActors
    <3>2. \A m : <<>> # <<m>> /\ (<<x>> = <<m>> => m = x)
      OBVIOUS
    <3> HIDE DEF out
    <3> QED BY <2>1, <3>1, <3>2 DEF Parcel, Off
  <2>3. CASE heads_ = <<>>
    BY <1>2, <1>6, <2>3 DEF Serial
  <2>4. CASE heads_ # <<>>
    <3>1. Receives(Executor, "serial") /\ Handled(Executor, out)
          /\ UNCHANGED <<configured, heads_>>
      BY <1>6, <2>4 DEF Serial, x
    <3> HIDE DEF out
    <3> QED BY <1>1, <2>2, <3>1 DEF Handled
  <2> QED BY <2>3, <2>4
<1>7. ASSUME NEW t, UpdateMetrics(t) PROVE Known' /\ Started'
  BY <1>1, <1>7, SendingOff DEF UpdateMetrics, execVars
<1>8. ASSUME NEW heads, NEW t, t \notin BuildType
      PROVE  Parcel(StopMessages(heads, t)) /\ Off(StopMessages(heads, t))
  <2>1. \A a \in Actor : StopMessages(heads, t)[a] \in
          {<<Signal(t)>>, <<Signal("topo_kill")>>, <<Signal("kill")>>, <<>>}
    BY MainActorsAreActors DEF StopMessages
  <2>2. \A x, m : <<x>> = <<m>> => x = m /\ <<>> # <<m>>
    OBVIOUS
  <2>3. \A s : Signal(s).type = s
    BY DEF Signal
  <2> QED BY <1>0, <1>8, <2>1, <2>2, <2>3 DEF Parcel, Off
<1>9. CASE SerialKill
  <2> DEFINE t == IF IsCrossTimes THEN "serial_collect_xtimes" ELSE "serial_collect"
             out == StopMessages({heads_[1]}, t)
  <2>1. Parcel(out) /\ Off(out)
    BY <1>0, <1>8
  <2>2. CASE heads_ = <<>> \/ nsteps_ * rep_counter_ = 0
            \/ total_latency_ = 0
    BY <1>2, <1>9, <2>2 DEF SerialKill
  <2>3. CASE ~ (heads_ = <<>> \/ nsteps_ * rep_counter_ = 0
               \/ total_latency_ = 0)
    <3>1. /\ Receives(Executor, "serial_kill")
          /\ Step(Executor, out, live, timers \cup {Later(Executor, "end")})
          /\ UNCHANGED <<configured, heads_>>
      BY <1>9, <2>3 DEF SerialKill
    <3> HIDE DEF out
    <3> QED BY <1>1, <2>1, <3>1
  <2> QED BY <2>2, <2>3
<1>10. CASE Parallel
  BY <1>1, <1>2, <1>10, SendingOff DEF Parallel, Handled
<1>11. CASE ParallelKill
  <2> DEFINE t == IF IsCrossTimes THEN "rec_collect_xtimes" ELSE "rec_collect"
             out == StopMessages({heads_[i] : i \in 1 .. Len(heads_)}, t)
  <2>1. Parcel(out) /\ Off(out)
    BY <1>0, <1>8
  <2>2. CASE nsteps_ = 0
    BY <1>2, <1>11, <2>2 DEF ParallelKill
  <2>3. CASE nsteps_ # 0
    <3>1. /\ Receives(Executor, "parallel_kill")
          /\ Step(Executor, out, live, timers \cup {Later(Executor, "end")})
          /\ UNCHANGED configured /\ heads_' = <<>>
      BY <1>11, <2>3 DEF ParallelKill
    <3> HIDE DEF out
    <3> QED BY <1>1, <2>1, <3>1
  <2> QED BY <2>2, <2>3
<1>12. CASE End
  BY <1>1, <1>12, SendingOff DEF End, execVars
<1> QED
  BY <1>4, <1>5, <1>6, <1>7, <1>9, <1>10, <1>11, <1>12 DEF ExecutorMoves, ExecutorStep

\* The rate generator in a started benchmark.
LEMMA RgRuns == ASSUME Typed, Known, Started, RgMoves PROVE Known' /\ Started'
<1>0. UNCHANGED <<heads_, prev_, next_, executor_, main_pc>> /\ Null \notin Actor
  BY NullNotActor DEF RgMoves, execVars, benchVars
<1>1. ASSUME NEW m, m.type \notin BuildType, NEW h, Posted(Sent(h, m)), UNCHANGED configured
      PROVE  Known' /\ Started'
  <2>1. Parcel(Sent(h, m)) /\ Off(Sent(h, m))
    BY <1>1, SendingOff
  <2>2. KeepsKnown /\ Arrives(Null, Sent(h, m))
    BY <1>0, <1>1 DEF KeepsKnown, Posted, Handled, Step, Arrives
  <2> QED BY <1>0, <2>1, <2>2, StartedStep
<1>2. CASE RgStart
  BY <1>0, <1>2, StartedStill DEF RgStart, Crash, KeepsKnown
<1>3. CASE RgSend
  <2> DEFINE head == rg_receivers[rg_index + 1]
  <2>1. NewMsg(head[1]).type \notin BuildType
    BY DEF NewMsg, BuildType
  <2>2. Posted(Sent(head, NewMsg(head[1]))) /\ UNCHANGED configured
    BY <1>3 DEF RgSend
  <2> HIDE DEF head
  <2> QED BY <1>1, <2>1, <2>2
<1>4. CASE RgFinish
  <2>1. Signal("send_collect").type \notin BuildType
    BY DEF Signal, BuildType
  <2> QED BY <1>1, <1>4, <2>1 DEF RgFinish
<1>5. CASE RgFirstHop
  BY <1>0, <1>5, StartedStill DEF RgFirstHop, Undefined, KeepsKnown
<1> QED BY <1>2, <1>3, <1>4, <1>5 DEF RgMoves, RgStep

\* What the four handlers send that pass a measurement on.
LEMMA PassOnSends ==
  ASSUME Typed, NEW a \in ChainActor,
         \/ Weightless(a) \/ WeightlessBack(a) \/ TimedMsg(a) \/ TimedMsgBack(a)
  PROVE  /\ UNCHANGED <<configured, linkVars, live, timers>> /\ mbox[a] # <<>>
         /\ \E out : /\ Parcel(out) /\ Handled(a, out)
                     /\ \A b \in Actor : \A m : out[b] = <<m>> =>
                          m.type \in ProbeType \cup {"detached_msg"}
<1>0. a \in Actor
  BY DEF Actor
<1>1. PICK s \in ProbeType : Receives(a, s)
  BY DEF Weightless, WeightlessBack, TimedMsg, TimedMsgBack, ProbeType
<1>2. Head(mbox[a]) \in ProbeMsg /\ mbox[a] # <<>>
  BY <1>0, <1>1, HeadTyped DEF Receives, Typed
<1>3. RestartAtHead(a, Head(mbox[a])) \in ProbeMsg
  BY <1>2, RestartTyped DEF RestartAtHead
<1> DEFINE Goal == \E out : /\ Parcel(out) /\ Handled(a, out)
                            /\ \A b \in Actor : \A m : out[b] = <<m>> =>
                                 m.type \in ProbeType \cup {"detached_msg"}
<1>4. ASSUME NEW x, x.type \in ProbeType, NEW dst
      PROVE  Parcel(Sent(dst, x)) /\ \A b \in Actor : \A m : Sent(dst, x)[b] = <<m>> => m = x
  <2>1. \A m, y : <<>> # <<m>> /\ (<<y>> = <<m>> => y = m)
    OBVIOUS
  <2>2. \A b \in Actor : Sent(dst, x)[b] \in {<<x>>, <<>>}
    BY MainActorsAreActors DEF Sent
  <2> QED BY <2>1, <2>2, SendingOff
<1>5. ASSUME NEW dst, NEW t \in ProbeType, NEW m \in ProbeMsg, Relay(a, dst, t, m)
      PROVE  Goal
  <2> DEFINE x == [m EXCEPT !.type = t, !.hops = @ + 1]
             out == Sent(dst, x)
             p == <<0, index_>>
             jobs == [out EXCEPT ![p] = <<Signal("detached_msg")>>]
  <2>1. x.type \in ProbeType
    BY DEF ProbeMsg
  <2>2. Handled(a, out) \/ Handled(a, jobs)
    BY <1>5 DEF Relay
  <2> HIDE DEF x
  <2>3. Parcel(out) /\ \A b \in Actor : \A y : out[b] = <<y>> => y.type \in ProbeType
    BY <1>4, <2>1
  <2>4. /\ Parcel(jobs)
        /\ \A b \in Actor : \A y : jobs[b] = <<y>> =>
             y.type \in ProbeType \cup {"detached_msg"}
    <3>1. \A b \in Actor : jobs[b] = out[b] \/ jobs[b] = <<Signal("detached_msg")>>
      BY MainActorsAreActors DEF Sent
    <3>2. \A y : <<Signal("detached_msg")>> = <<y>> => y.type = "detached_msg"
      BY DEF Signal
    <3> HIDE DEF jobs, out
    <3> QED BY <2>3, <3>1, <3>2 DEF Parcel
  <2> HIDE DEF jobs, out
  <2> QED BY <2>2, <2>3, <2>4
<1>6. ASSUME NEW t \in ProbeType, NEW m \in ProbeMsg, Report(a, t, m) PROVE Goal
  <2> DEFINE x == [ProbeStop(m) EXCEPT !.type = t, !.hops = @ + 1]
             out == Sent(executor_[a], x)
  <2>1. x.type \in ProbeType
    BY StopTyped DEF ProbeMsg
  <2>2. Handled(a, out)
    BY <1>6 DEF Report
  <2> HIDE DEF x
  <2>3. Parcel(out) /\ \A b \in Actor : \A y : out[b] = <<y>> => y.type \in ProbeType
    BY <1>4, <2>1
  <2> HIDE DEF out
  <2> QED BY <2>2, <2>3
<1>7. ASSUME NEW forth \in ProbeType, NEW back \in ProbeType, NEW done \in ProbeType,
             NEW m \in ProbeMsg, SendForth(a, forth, back, done, m) \/ SendBack(a, back, done, m)
      PROVE  Goal
  BY <1>5, <1>6, <1>7 DEF SendForth, SendBack
<1>8. Goal
  <2> HIDE DEF Goal
  <2> QED BY <1>2, <1>3, <1>7
          DEF Weightless, WeightlessBack, TimedMsg, TimedMsgBack, ProbeType
<1>9. UNCHANGED <<configured, linkVars, live, timers>>
  <2>1. UNCHANGED <<configured, linkVars>>
    BY DEF Weightless, WeightlessBack, TimedMsg, TimedMsgBack
  <2> QED BY <1>8, <2>1 DEF Handled, Step
<1> QED BY <1>2, <1>8, <1>9

\* An actor of a chain in a started benchmark.
LEMMA ChainRuns ==
  ASSUME Typed, Known, Started, NEW a \in ChainActor, ChainMoves(a) PROVE Known' /\ Started'
<1>0. UNCHANGED <<heads_, main_pc>> /\ a \in Builder
  BY DEF ChainMoves, execVars, Builder
<1>1. CASE InitBench(a)
  BY <1>0, <1>1, StartedHead DEF InitBench, BuildType
<1>2. CASE Weightless(a) \/ WeightlessBack(a) \/ TimedMsg(a) \/ TimedMsgBack(a)
  <2>1. PICK out : /\ Parcel(out) /\ Handled(a, out)
                   /\ \A b \in Actor : \A m : out[b] = <<m>> =>
                        m.type \in ProbeType \cup {"detached_msg"}
    BY <1>2, PassOnSends
  <2>2. Off(out)
    BY <2>1 DEF Off, BuildType, ProbeType
  <2>3. KeepsKnown /\ Arrives(a, out)
    BY <1>0, <1>2, <2>1, PassOnSends DEF KeepsKnown, linkVars, Handled, Step, Arrives
  <2> QED BY <1>0, <2>1, <2>2, <2>3, StartedStep
<1>3. CASE Kill(a)
  <2> DEFINE out == Sent(KillTarget(a), Signal("kill"))
  <2>1. Parcel(out) /\ Off(out)
    <3>1. Signal("kill").type \notin BuildType
      BY DEF Signal, BuildType
    <3> QED BY <3>1, SendingOff
  <2>2. Arrives(a, out)
    BY <1>3 DEF Kill, Step, Arrives, Receives
  <2>3. KeepsKnown
    BY <1>0, <1>3 DEF Kill, Step, KeepsKnown, Typed, BenchTypeOK
  <2> HIDE DEF out
  <2> QED BY <1>0, <2>1, <2>2, <2>3, StartedStep
<1> QED BY <1>1, <1>2, <1>3 DEF ChainMoves, ChainActorStep

\* The topology builder in a started benchmark.
LEMMA TopoRuns == ASSUME Typed, Known, Started, TopoMoves PROVE Known' /\ Started'
<1>0. /\ UNCHANGED <<heads_, prev_, next_, executor_, main_pc>>
      /\ TopoBuilder \in Builder /\ TopoBuilder \notin ChainActor
  BY ActorKinds DEF TopoMoves, execVars, benchVars, Builder, MainActor
<1>1. ASSUME NEW t, Receives(TopoBuilder, t), NEW out, Parcel(out), Off(out), NEW alive,
             Step(TopoBuilder, out, alive, timers), alive \cap ChainActor \subseteq live,
             configured' \in {configured, configured \cup {TopoBuilder}}
      PROVE  Known' /\ Started'
  <2>1. KeepsKnown /\ Arrives(TopoBuilder, out)
    BY <1>0, <1>1 DEF KeepsKnown, Step, Arrives, Receives
  <2> QED BY <1>0, <1>1, <2>1, StartedStep
<1>2. CASE InitTopo
  <2> DEFINE x == Signal("init_detached")
             out == [h \in Handle |-> IF h \in PoolActor THEN <<x>> ELSE <<>>]
  <2>1. x.type \notin BuildType
    BY DEF Signal, BuildType
  <2>2. /\ Receives(TopoBuilder, "init") /\ configured' = configured \cup {TopoBuilder}
        /\ Step(TopoBuilder, out, live \cup PoolActor, timers)
    BY <1>2 DEF InitTopo
  <2> HIDE DEF x
  <2>3. Parcel(out) /\ Off(out)
    <3>1. \A a \in Actor : out[a] = <<x>> \/ out[a] = <<>>
      BY MainActorsAreActors
    <3>2. \A m : <<>> # <<m>> /\ (<<x>> = <<m>> => m = x)
      OBVIOUS
    <3> HIDE DEF out
    <3> QED BY <2>1, <3>1, <3>2 DEF Parcel, Off
  <2> HIDE DEF out
  <2> QED BY <1>1, <2>2, <2>3, ActorKinds
<1>3. CASE InitDetachedReply
  BY <1>1, <1>3, SendingOff DEF InitDetachedReply, Handled
<1>4. CASE MakeLinearChain \/ InitBenchReply
  BY <1>0, <1>4, StartedHead DEF MakeLinearChain, InitBenchReply, BuildType
<1>5. CASE TopoKill
  BY <1>1, <1>5, SendingOff DEF TopoKill
<1> QED BY <1>2, <1>3, <1>4, <1>5 DEF TopoMoves, TopoStep

-----------------------------------------------------------------------------
\* What happens while the chains are built.

\* How a step changes the count of the messages of a type in a mailbox.
LEMMA CountStep ==
  ASSUME SystemTypeOK, NEW self, NEW out, Parcel(out), Arrives(self, out),
         NEW a \in Actor, a \in live', NEW t
  PROVE  Count(mbox'[a], t) =
           Count(mbox[a], t) - (IF a = self /\ Head(mbox[a]).type = t THEN 1 ELSE 0)
                             + (IF \E m : out[a] = <<m>> /\ m.type = t THEN 1 ELSE 0)
<1> DEFINE s == IF a = self THEN Tail(mbox[a]) ELSE mbox[a]
<1>1. mbox[a] \in Seq(Message) /\ mbox'[a] = s \o out[a]
  BY DEF SystemTypeOK, Arrives, Delivered
<1>2. /\ s \in Seq(Message)
      /\ Count(s, t) = Count(mbox[a], t)
                         - (IF a = self /\ Head(mbox[a]).type = t THEN 1 ELSE 0)
  <2>1. CASE a = self
    <3>1. mbox[a] # <<>>
      BY <2>1 DEF Arrives
    <3> QED BY <1>1, <2>1, <3>1, CountTail
  <2>2. CASE a # self
    <3>1. Count(mbox[a], t) \in Nat
      BY <1>1, CountTyped
    <3> QED BY <1>1, <2>2, <3>1
  <2> QED BY <2>1, <2>2
<1> HIDE DEF s
<1>3. CASE out[a] = <<>>
  <2>1. mbox'[a] = s
    BY <1>1, <1>2, <1>3, Elements
  <2>2. \A m : <<>> # <<m>>
    OBVIOUS
  <2>3. Count(s, t) \in Nat
    BY <1>2, CountTyped
  <2> QED BY <1>2, <1>3, <2>1, <2>2, <2>3
<1>4. ASSUME NEW x, out[a] = <<x>>
      PROVE  Count(mbox'[a], t) = Count(s, t) + (IF \E m : out[a] = <<m>> /\ m.type = t
                                                 THEN 1 ELSE 0)
  <2>1. s \in Seq(Message \cup {x}) /\ x \in Message \cup {x}
    BY <1>2
  <2>2. \A m : <<x>> = <<m>> => m = x
    OBVIOUS
  <2>3. Count(s \o <<x>>, t) = Count(s, t) + (IF x.type = t THEN 1 ELSE 0)
    BY <2>1, CountAppend
  <2> QED BY <1>1, <1>4, <2>2, <2>3
<1> QED BY <1>2, <1>3, <1>4 DEF Parcel

\* A chain has actors_number actors.
LEMMA ChainSize ==
  ASSUME NEW c \in 1 .. ChainsNumber
  PROVE  IsFiniteSet(ChainOf(c)) /\ Cardinality(ChainOf(c)) = PipelineActors
<1> DEFINE f == [i \in 0 .. PipelineActors - 1 |-> <<c, i>>]
<1>1. \A a : a \in ChainOf(c) <=> \E i \in 0 .. PipelineActors - 1 : a = <<c, i>>
  BY DEF ChainOf, ChainActor
<1>2. f \in Bijection(0 .. PipelineActors - 1, ChainOf(c))
  <2>1. f \in [0 .. PipelineActors - 1 -> ChainOf(c)]
    BY <1>1
  <2>2. \A i, j \in 0 .. PipelineActors - 1 : f[i] = f[j] => i = j
    OBVIOUS
  <2>3. \A a \in ChainOf(c) : \E i \in 0 .. PipelineActors - 1 : f[i] = a
    BY <1>1
  <2> HIDE DEF f
  <2> QED BY <2>1, <2>2, <2>3 DEF Bijection, Injection, IsInjective, Surjection
<1>3. /\ IsFiniteSet(0 .. PipelineActors - 1)
      /\ Cardinality(0 .. PipelineActors - 1) = PipelineActors
  BY ConfigAssumption, FS_Interval DEF is_valid
<1> HIDE DEF f
<1> QED BY <1>2, <1>3, FS_Bijection DEF ExistsBijection

\* The counts are numbers, and where they are 0 there is nothing to count.
LEMMA MissingTyped ==
  ASSUME Typed
  PROVE  /\ Asked \in Nat /\ Missing \in Nat
         /\ Count(mbox[TopoBuilder], "init") \in Nat
         /\ Cardinality(Unready) \in Nat /\ IsFiniteSet(Unready)
         /\ Count(mbox[TopoBuilder], "init_bench_reply") \in Nat
         /\ Missing = 0 => Unready = {}
<1>1. mbox[TopoBuilder] \in Seq(Message)
  BY MainActorsAreActors DEF Typed, SystemTypeOK
<1>2. IsFiniteSet(ChainOf(chains_built))
  <2>1. CASE chains_built = 0
    <3>1. ChainOf(chains_built) = {}
      BY <2>1, ConfigAssumption DEF ChainOf, ChainActor
    <3> QED BY <3>1, FS_EmptySet
  <2>2. CASE chains_built # 0
    <3>1. chains_built \in 1 .. ChainsNumber
      BY <2>2, ConfigAssumption DEF Typed, TopoTyped
    <3> QED BY <3>1, ChainSize
  <2> QED BY <2>1, <2>2
<1>3. IsFiniteSet(Unready)
  BY <1>2, FS_Subset DEF Unready
<1>4. Cardinality(Unready) \in Nat /\ (Cardinality(Unready) = 0 => Unready = {})
  BY <1>3, FS_CardinalityType, FS_EmptySet
<1>5. \A t : Count(mbox[TopoBuilder], t) \in Nat
  BY <1>1, CountTyped
<1> QED BY <1>3, <1>4, <1>5 DEF Asked, Missing

\* What becomes of a mailbox.
LEMMA BoxStep ==
  ASSUME SystemTypeOK, NEW self, NEW out \in Out, Arrives(self, out), NEW a \in Actor
  PROVE  /\ mbox[a] \in Seq(Message) /\ out[a] \in Seq(Message)
         /\ a \notin live' => mbox'[a] = <<>>
         /\ a \in live' /\ a # self => /\ mbox'[a] = mbox[a] \o out[a]
                                       /\ out[a] = <<>> => mbox'[a] = mbox[a]
                                       /\ mbox[a] = <<>> => mbox'[a] = out[a]
         /\ a \in live' /\ a = self => mbox'[a] = Tail(mbox[a]) \o out[a]
<1>1. mbox[a] \in Seq(Message) /\ out[a] \in Seq(Message)
  BY MainActorsAreActors DEF SystemTypeOK, Out
<1>2. mbox[a] \o <<>> = mbox[a] /\ <<>> \o out[a] = out[a]
  BY <1>1
<1> QED BY <1>1, <1>2 DEF Arrives, Delivered

\* Who is not ready changes with the newest chain and with initialisation only.
LEMMA SameMissing ==
  ASSUME UNCHANGED chains_built, configured' \cap ChainActor = configured \cap ChainActor
  PROVE  Unready' = Unready
BY DEF Unready, ChainOf

\* A step of an actor that does not build: at most the reply of a pool actor
\* goes to the topology builder.
Aside(self, out) ==
  /\ self \notin Builder
  /\ \A a \in Builder : a # TopoBuilder => out[a] = <<>>
  /\ out[TopoBuilder] \in {<<>>, <<Signal("init_detached_reply")>>}
  /\ live' = live /\ \A t \in timers' : t \in timers \/ t.to # Executor
  /\ configured \subseteq configured' /\ configured' \cap Builder = configured \cap Builder
  /\ UNCHANGED <<rg_state, main_pc, heads_, counter_, topo_executor_, topo_builder_,
                 chains_built, prev_, next_, executor_>>

\* Such a step changes nothing about the building.
LEMMA AsideStep ==
  ASSUME Typed, Known, Building, Stage, NEW self, NEW out \in Out, Parcel(out),
         Arrives(self, out), Aside(self, out)
  PROVE  Known' /\ Building' /\ Stage'
<1>u. UNCHANGED <<rg_state, main_pc, heads_, counter_, topo_executor_, topo_builder_,
                  chains_built, prev_, next_, executor_>>
  BY DEF Aside
<1>l. live' = live
  BY DEF Aside
<1>0. /\ SystemTypeOK /\ Builder \subseteq Actor /\ ChainActor \subseteq Builder
      /\ Executor \in Builder /\ TopoBuilder \in Builder /\ Executor # TopoBuilder
      /\ Executor \in live /\ TopoBuilder \in live /\ TopoBuilder \notin ChainActor
      /\ \A a \in ChainActor : a # TopoBuilder
      /\ \A a \in Builder : a \in Actor /\ a # self
  BY BuildersAreActors, ActorKinds DEF Typed, Builder, Building, MainActor, Aside
<1>b. ASSUME NEW a \in Builder, a # TopoBuilder, a \in live PROVE mbox'[a] = mbox[a]
  <2>1. a \in Actor /\ a # self /\ a \in live' /\ out[a] = <<>>
    BY <1>0, <1>b DEF Aside
  <2> QED BY <1>0, <2>1, BoxStep
<1>1. mbox'[Executor] = mbox[Executor]
  BY <1>0, <1>b
<1>2. \A a \in ChainActor : mbox'[a] = mbox[a]
  <2> TAKE a \in ChainActor
  <2>1. CASE a \in live
    BY <1>0, <1>b, <2>1
  <2>2. CASE a \notin live
    <3>1. mbox[a] = <<>>
      BY <2>2 DEF Building
    <3> QED BY <1>0, <1>l, <2>2, <3>1, BoxStep
  <2> QED BY <2>1, <2>2
<1>3. \A t : t # "init_detached_reply" =>
        Count(mbox'[TopoBuilder], t) = Count(mbox[TopoBuilder], t)
  <2> TAKE t
  <2>1. ASSUME t # "init_detached_reply"
        PROVE  Count(mbox'[TopoBuilder], t) = Count(mbox[TopoBuilder], t)
    <3>1. ~ \E m : out[TopoBuilder] = <<m>> /\ m.type = t
      <4>1. \A m : <<>> # <<m>>
        OBVIOUS
      <4>2. \A m : <<Signal("init_detached_reply")>> = <<m>> => m.type = "init_detached_reply"
        BY DEF Signal
      <4> QED BY <2>1, <4>1, <4>2 DEF Aside
    <3>2. Count(mbox[TopoBuilder], t) \in Nat
      <4>1. mbox[TopoBuilder] \in Seq(Message)
        BY <1>0 DEF SystemTypeOK
      <4> QED BY <4>1, CountTyped
    <3>3. Count(mbox'[TopoBuilder], t) =
            Count(mbox[TopoBuilder], t)
              - (IF TopoBuilder = self /\ Head(mbox[TopoBuilder]).type = t THEN 1 ELSE 0)
              + (IF \E m : out[TopoBuilder] = <<m>> /\ m.type = t THEN 1 ELSE 0)
      <4>1. TopoBuilder \in Actor /\ TopoBuilder \in live'
        BY <1>0, <1>l
      <4> QED BY <1>0, <4>1, CountStep
    <3> QED BY <1>0, <3>1, <3>2, <3>3
  <2> QED BY <2>1
<1>4. configured' \cap ChainActor = configured \cap ChainActor
  BY <1>0 DEF Aside
<1>5. Unready' = Unready /\ Missing' = Missing /\ Asked' = Asked
  BY <1>u, <1>3, <1>4, SameMissing DEF Missing, Asked
<1>6. \A m \in Contents(TopoBuilder)' :
        m \in Contents(TopoBuilder) \/ m.type = "init_detached_reply"
  <2>1. \A m : out[TopoBuilder] = <<m>> => m.type = "init_detached_reply"
    <3>1. \A m : <<>> # <<m>>
      OBVIOUS
    <3>2. \A m : <<Signal("init_detached_reply")>> = <<m>> => m.type = "init_detached_reply"
      BY DEF Signal
    <3> QED BY <3>1, <3>2 DEF Aside
  <2> QED BY <1>0, <2>1, Arrivals
<1>7. Known'
  BY <1>4, StillKnown DEF KeepsKnown, Aside
<1>8. Stage'
  BY <1>u, <1>1, <1>5 DEF Stage, BeforeMain, AtSysconfig, AtMake, AtInit, AtAnnounce, AtStart,
     HeadOf, BenchmarkSignal
<1>9. Building'
  <2>1. \A m \in Contents(TopoBuilder)' :
          /\ m.type \in BuilderTypes
          /\ m.type = "init_bench_reply" => m.head = HeadOf(chains_built)'
    BY <1>u, <1>6 DEF Building, BuilderTypes, HeadOf
  <2>2. (TopoBuilder \in configured' <=> TopoBuilder \in configured)
        /\ (Executor \in configured' <=> Executor \in configured)
    BY <1>0 DEF Aside
  <2>3. Count(mbox'[TopoBuilder], "init") =
          IF main_pc' >= 1 /\ TopoBuilder \notin configured' THEN 1 ELSE 0
    BY <1>u, <1>3, <2>2 DEF Building
  <2>4. \A a \in ChainActor :
          /\ a \in live' <=> a[1] <= chains_built'
          /\ mbox'[a] = IF a \in live' \ configured' THEN <<Request(a)>> ELSE <<>>
          /\ a[1] < chains_built' => a \in configured'
    BY <1>u, <1>l, <1>2, <1>4 DEF Building, Spawned, Aside
  <2> QED BY <1>5, <2>1, <2>2, <2>3, <2>4
          DEF Building, BuilderTypes, Spawned, Request, Previous, Following, Aside
<1> QED BY <1>7, <1>8, <1>9

-----------------------------------------------------------------------------
\* The steps of those who do not build.

\* What keeps everything the invariant speaks of keeps the invariant.
LEMMA StillBuilt ==
  ASSUME OneChainAtATime,
         UNCHANGED <<mbox, live, timers, configured, rg_state, main_pc, heads_, counter_,
                     topo_executor_, topo_builder_, chains_built, prev_, next_, executor_>>
  PROVE  OneChainAtATime' /\ (Started => Started')
<1>1. Unready' = Unready /\ Missing' = Missing /\ Asked' = Asked
  BY DEF Unready, Missing, Asked, Count, Places
<1>2. Known'
  BY DEF OneChainAtATime, Known, HeadOf, Previous, Following
<1>3. Started => Started'
  BY DEF Started, Contents, Builder
<1>4. Stage => Stage'
  BY <1>1 DEF Stage, BeforeMain, AtSysconfig, AtMake, AtInit, AtAnnounce, AtStart,
     HeadOf, BenchmarkSignal
<1>5. Building => Building'
  <2> SUFFICES ASSUME Building PROVE Building'
    OBVIOUS
  <2>1. \A m \in Contents(TopoBuilder)' :
          /\ m.type \in BuilderTypes
          /\ m.type = "init_bench_reply" => m.head = HeadOf(chains_built)'
    BY DEF Building, BuilderTypes, HeadOf, Contents
  <2>2. Count(mbox'[TopoBuilder], "init") =
          IF main_pc' >= 1 /\ TopoBuilder \notin configured' THEN 1 ELSE 0
    BY DEF Building
  <2>3. \A a \in ChainActor :
          /\ a \in live' <=> Spawned(a)'
          /\ mbox'[a] = IF a \in live' \ configured' THEN <<Request(a)>> ELSE <<>>
          /\ a[1] < chains_built' => a \in configured'
    BY DEF Building, Spawned
  <2> QED BY <1>1, <2>1, <2>2, <2>3
          DEF Building, BuilderTypes, Spawned, Request, Previous, Following
<1> QED BY <1>2, <1>3, <1>4, <1>5 DEF OneChainAtATime

\* A step of an actor that does not build, before and after the start.
LEMMA OutsideStep ==
  ASSUME Typed, OneChainAtATime, NEW self, NEW out \in Out, Parcel(out),
         Arrives(self, out), Aside(self, out)
  PROVE  OneChainAtATime' /\ (Started => Started')
<1>1. CASE Started
  <2>1. Known
    BY DEF OneChainAtATime
  <2>2. KeepsKnown /\ UNCHANGED main_pc
    BY DEF KeepsKnown, Aside, Builder
  <2>3. Known'
    BY <2>1, <2>2, StillKnown
  <2>4. ASSUME NEW a \in Builder, NEW m \in Contents(a)' PROVE m.type \notin BuildType
    <3>1. a \in Actor
      BY BuildersAreActors
    <3>2. m \in Contents(a) \/ out[a] = <<m>>
      BY <3>1, Arrivals DEF Typed
    <3>3. ASSUME out[a] = <<m>> PROVE m.type \notin BuildType
      <4>1. <<>> # <<m>>
            /\ (<<Signal("init_detached_reply")>> = <<m>> => m = Signal("init_detached_reply"))
        OBVIOUS
      <4>2. m = Signal("init_detached_reply")
        BY <3>3, <4>1 DEF Aside
      <4> QED BY <4>2 DEF Signal, BuildType
    <3> QED BY <1>1, <3>2, <3>3 DEF Started
  <2>5. Started'
    BY <1>1, <2>2, <2>4 DEF Started, Builder
  <2> QED BY <2>3, <2>5 DEF OneChainAtATime
<1>2. CASE ~ Started
  BY <1>2, AsideStep DEF OneChainAtATime
<1> QED BY <1>1, <1>2

\* The steps of an actor of the pool.
LEMMA PoolBuilds ==
  ASSUME Typed, OneChainAtATime, NEW p \in PoolActor, PoolMoves(p)
  PROVE  OneChainAtATime' /\ (Started => Started')
<1>0. p \in Actor /\ p \notin Builder /\ p \in Handle
  BY ActorKinds, MainActorsAreActors DEF Builder, MainActor, Actor
<1>1. PICK out \in {Silent, Sent(TopoBuilder, Signal("init_detached_reply"))} :
        Handled(p, out) /\ mbox[p] # <<>> /\ configured' \in {configured, configured \cup {p}}
  BY DEF PoolMoves, PoolActorStep, InitDetached, DetachedMsg, Receives
<1>2. out \in Out /\ Parcel(out)
  BY <1>1, SilentTyped, SentTyped, SignalTyped, SendingOff, MainActorsAreActors DEF SignalType
<1>3. /\ \A a \in Builder : a # TopoBuilder => out[a] = <<>>
      /\ out[TopoBuilder] \in {<<>>, <<Signal("init_detached_reply")>>}
  BY <1>1, BuildersAreActors, MainActorsAreActors DEF Silent, Sent
<1>4. UNCHANGED <<rg_state, main_pc, heads_, counter_, topo_executor_, topo_builder_,
                  chains_built, prev_, next_, executor_>>
  BY DEF PoolMoves, PoolActorStep, InitDetached, DetachedMsg, execVars, rgVars, topoVars,
         benchVars
<1>5. Aside(p, out) /\ Arrives(p, out)
  BY <1>0, <1>1, <1>3, <1>4 DEF Aside, Arrives, Handled, Step
<1> QED BY <1>2, <1>5, OutsideStep

\* The steps of the results collector.
LEMMA CollectorBuilds ==
  ASSUME Typed, OneChainAtATime, CollectorMoves
  PROVE  OneChainAtATime' /\ (Started => Started')
<1>0. /\ Collector \in Actor /\ Collector \notin Builder /\ Collector # Executor
      /\ UNCHANGED <<rg_state, main_pc, heads_, counter_, topo_executor_, topo_builder_,
                     chains_built, prev_, next_, executor_>>
  BY ActorKinds, MainActorsAreActors
     DEF Builder, MainActor, CollectorMoves, execVars, rgVars, topoVars, benchVars
<1>1. CASE BenchmarkKill
  BY <1>0, <1>1, StillBuilt DEF BenchmarkKill
<1>2. CASE ~ BenchmarkKill
  <2>1. /\ \E pending : /\ Step(Collector, Silent, live, pending)
                        /\ pending \subseteq timers \cup {InitTimer, ResultTimer}
        /\ mbox[Collector] # <<>>
        /\ configured' \in {configured, configured \cup {Collector}}
    BY <1>2
       DEF CollectorMoves, CollectorStep, RcInit, SendCollect, FinalCollect, SysCollect,
           Handled, Receives, InitTimer
  <2>2. \A t \in timers' : t \in timers \/ t.to # Executor
    BY <1>0, <2>1 DEF Step, InitTimer, ResultTimer, Later
  <2>3. \A a \in Builder : Silent[a] = <<>>
    BY BuildersAreActors, MainActorsAreActors DEF Silent
  <2>4. Aside(Collector, Silent) /\ Arrives(Collector, Silent)
    BY <1>0, <2>1, <2>2, <2>3 DEF Aside, Arrives, Step, Builder
  <2> QED BY <2>4, SilentTyped, SendingOff, OutsideStep
<1> QED BY <1>1, <1>2

\* The clock: before the start it delivers to the results collector only.
LEMMA ClockBuilds ==
  ASSUME Typed, OneChainAtATime, NEW t \in Timer, ClockMoves(t)
  PROVE  OneChainAtATime' /\ (Started => Started')
<1> DEFINE x == Signal(t.type)
           out == Sent(t.to, x)
<1>0. /\ Null \notin Actor /\ Null \notin Builder /\ x.type = t.type
      /\ UNCHANGED <<rg_state, main_pc, heads_, counter_, topo_executor_, topo_builder_,
                     chains_built, prev_, next_, executor_, configured>>
      /\ Arrives(Null, out) /\ live' = live /\ timers' \subseteq timers /\ t \in timers
  BY NullNotActor, BuildersAreActors
     DEF ClockMoves, Fire, Step, Arrives, execVars, rgVars, topoVars, benchVars, Signal
<1>1. out \in Out /\ Parcel(out)
  <2>1. t.to \in Handle /\ x \in Message
    BY SignalTyped, MainActorsAreActors DEF Timer, SignalType
  <2> QED BY <2>1, SentTyped, SendingOff
<1>2. CASE Started
  <2>1. x.type \notin BuildType
    BY <1>0 DEF Timer, BuildType
  <2>2. Off(out)
    BY <2>1, SendingOff
  <2>3. KeepsKnown
    BY <1>0 DEF KeepsKnown
  <2> HIDE DEF out
  <2> QED BY <1>0, <1>1, <1>2, <2>2, <2>3, StartedStep DEF OneChainAtATime
<1>3. CASE ~ Started
  <2>1. t.to = Collector /\ Collector \notin Builder
    <3>1. t.to # Executor
      BY <1>0, <1>3 DEF OneChainAtATime, Building
    <3> QED BY <3>1, ActorKinds DEF Timer, Builder, MainActor
  <2>2. \A a \in Builder : out[a] = <<>>
    BY <2>1, BuildersAreActors, MainActorsAreActors DEF Sent
  <2>3. TopoBuilder \in Builder
    BY DEF Builder
  <2> HIDE DEF out
  <2>4. Aside(Null, out)
    BY <1>0, <2>2, <2>3 DEF Aside
  <2> QED BY <1>0, <1>1, <2>4, OutsideStep
<1> QED BY <1>2, <1>3

\* The rate generator runs in a started benchmark only.
LEMMA RgBuilds ==
  ASSUME Typed, OneChainAtATime, RgMoves
  PROVE  OneChainAtATime' /\ (Started => Started')
<1>1. rg_state # "absent"
  BY DEF RgMoves, RgStep, RgStart, RgSend, RgFirstHop, RgFinish, Sending
<1>2. Started
  BY <1>1 DEF OneChainAtATime, Building
<1> QED BY <1>2, RgRuns DEF OneChainAtATime

-----------------------------------------------------------------------------
\* main().

\* The chains and the topology builder stay as they are but for its mailbox.
LEMMA BuildingFrame ==
  ASSUME Building, UNCHANGED <<live, rg_state, counter_, topo_executor_, chains_built>>,
         \A t \in timers' : t \in timers \/ t.to # Executor,
         configured' \cap ChainActor = configured \cap ChainActor,
         TopoBuilder \in configured' <=> TopoBuilder \in configured,
         Executor \in configured' => topo_builder_' = TopoBuilder,
         \A a \in ChainActor : mbox'[a] = mbox[a],
         Missing' = Missing,
         \A m \in Contents(TopoBuilder)' :
           m \in Contents(TopoBuilder) \/ m.type \in BuilderTypes \ {"init_bench_reply"},
         Count(mbox'[TopoBuilder], "init")
           = IF main_pc' >= 1 /\ TopoBuilder \notin configured THEN 1 ELSE 0
  PROVE  Building'
<1>1. \A m \in Contents(TopoBuilder)' :
        /\ m.type \in BuilderTypes
        /\ m.type = "init_bench_reply" => m.head = HeadOf(chains_built)'
  BY DEF Building, BuilderTypes, HeadOf
<1>2. \A a \in ChainActor :
        /\ a \in live' <=> a[1] <= chains_built'
        /\ mbox'[a] = IF a \in live' \ configured' THEN <<Request(a)>> ELSE <<>>
        /\ a[1] < chains_built' => a \in configured'
  BY DEF Building, Spawned
<1>3. Count(mbox'[TopoBuilder], "init") =
        IF main_pc' >= 1 /\ TopoBuilder \notin configured' THEN 1 ELSE 0
  OBVIOUS
<1> QED BY <1>1, <1>2, <1>3
        DEF Building, BuilderTypes, Spawned, Request, Previous, Following

\* self takes its first message, if it is an actor, and sends m to h alone.
Puts(self, h, m, out) ==
  /\ out \in Out /\ Arrives(self, out) /\ self # h /\ h \in Actor
  /\ out[h] = <<m>> /\ \A a \in Actor : a # h => out[a] = <<>>

\* Sent(h, m) is such a step.
LEMMA SentPuts ==
  ASSUME NEW self, NEW h \in Actor, self # h, NEW m \in Message, Arrives(self, Sent(h, m))
  PROVE  Puts(self, h, m, Sent(h, m))
BY SentTyped, MainActorsAreActors DEF Puts, Sent

\* m comes last in the mailbox of h, and nothing leaves it.
Gets(h, m) ==
  /\ mbox'[h] = mbox[h] \o <<m>> /\ mbox[h] \in Seq(Message)
  /\ mbox[h] = <<>> => mbox'[h] = <<m>>
  /\ \A t : /\ Count(mbox[h], t) \in Nat
           /\ Count(mbox'[h], t) = Count(mbox[h], t) + (IF m.type = t THEN 1 ELSE 0)
  /\ \A x \in Contents(h)' : x \in Contents(h) \/ x = m

\* What such a step does to the mailbox of h.
LEMMA PutStep ==
  ASSUME Typed, NEW self, NEW h, NEW m, NEW out, Puts(self, h, m, out), h \in live'
  PROVE  Gets(h, m)
<1>0. SystemTypeOK /\ out \in Out /\ Arrives(self, out) /\ h \in Actor /\ out[h] = <<m>>
      /\ h # self /\ m \in Message
  <2>1. out[h] \in Seq(Message) /\ out[h] = <<m>>
    BY MainActorsAreActors DEF Puts, Out
  <2>2. m \in Message
    BY <2>1
  <2> QED BY <2>2 DEF Typed, Puts
<1>1. mbox'[h] = mbox[h] \o out[h] /\ mbox[h] \in Seq(Message)
  BY <1>0, BoxStep
<1>2. mbox'[h] = mbox[h] \o <<m>> /\ (mbox[h] = <<>> => mbox'[h] = <<m>>)
  <2>1. mbox'[h] = mbox[h] \o <<m>>
    BY <1>0, <1>1
  <2>2. \A x \in Message : <<>> \o <<x>> = <<x>>
    OBVIOUS
  <2> QED BY <1>0, <2>1, <2>2
<1>3. \A t : /\ Count(mbox[h], t) \in Nat
            /\ Count(mbox'[h], t) = Count(mbox[h], t) + (IF m.type = t THEN 1 ELSE 0)
  BY <1>0, <1>1, <1>2, CountTyped, CountAppend
<1>4. \A x \in Contents(h)' : x \in Contents(h) \/ x = m
  <2>1. ToSet(mbox[h] \o <<m>>) = ToSet(mbox[h]) \cup {m}
    BY <1>1, Elements
  <2> QED BY <1>2, <2>1 DEF Contents
<1> QED BY <1>1, <1>2, <1>3, <1>4 DEF Gets

\* The other builders' mailboxes are what they were, but for the one of self.
LEMMA OtherBoxes ==
  ASSUME Typed, Building, NEW self, NEW h, NEW m, NEW out, Puts(self, h, m, out), live' = live
  PROVE  \A a \in Builder : a # h /\ a # self => mbox'[a] = mbox[a]
<1>1. SystemTypeOK /\ out \in Out /\ Arrives(self, out)
  BY DEF Typed, Puts
<1>3. ASSUME NEW a \in Builder, a # h, a # self PROVE mbox'[a] = mbox[a]
  <2>1. a \in Actor /\ out[a] = <<>>
    BY <1>3, BuildersAreActors DEF Puts
  <2>2. CASE a \in live
    <3>1. a \in live'
      BY <2>2
    <3> QED BY <1>1, <1>3, <2>1, <3>1, BoxStep
  <2>3. CASE a \notin live
    <3>1. mbox[a] = <<>>
      BY <2>3 DEF Building, Builder, MainActor
    <3>2. mbox'[a] = <<>>
      <4>1. a \notin live'
        BY <2>3
      <4> QED BY <1>1, <2>1, <4>1, BoxStep
    <3> QED BY <3>1, <3>2
  <2> QED BY <2>2, <2>3
<1> QED BY <1>3

\* The messages of main().
LEMMA MainBuilds ==
  ASSUME Typed, Startup, OneChainAtATime, MainStep
  PROVE  OneChainAtATime' /\ (Started => Started')
<1>0. /\ main_pc \in 0 .. 3 /\ main_pc' = main_pc + 1 /\ Null \notin Actor
      /\ UNCHANGED <<configured, rg_state, heads_, counter_, topo_executor_, topo_builder_,
                     chains_built, prev_, next_, executor_, live, timers>>
      /\ Arrives(Null, MainSends[main_pc + 1])
  BY MainPc, NullNotActor
     DEF MainStep, MainSends, Posted, Handled, Step, Arrives, execVars, rgVars, topoVars,
         benchVars, Typed
<1>a. /\ Executor \in Actor /\ TopoBuilder \in Actor /\ Collector \in Actor
      /\ Executor # TopoBuilder /\ Executor # Collector /\ TopoBuilder # Collector
      /\ TopoBuilder \notin ChainActor /\ Executor \notin ChainActor
      /\ Collector \notin Builder /\ ChainActor \subseteq Builder
      /\ Executor \in Builder /\ TopoBuilder \in Builder
      /\ \A a \in Builder : a # Null
  BY NullNotActor, ActorKinds, MainActorsAreActors, BuildersAreActors DEF MainActor, Builder
<1>1. Known /\ Building /\ BeforeMain
  BY <1>0 DEF OneChainAtATime, Started, Stage, AtSysconfig, AtMake, AtInit, AtAnnounce, AtStart
<1>2. Executor \in live' /\ TopoBuilder \in live' /\ live' = live
  BY <1>0, <1>1 DEF Building, MainActor
<1>3. Known'
  BY <1>0, <1>1, StillKnown DEF KeepsKnown
<1>4. Unready' = Unready
  BY <1>0, SameMissing
<1>5. PICK h \in {TopoBuilder, Collector, Executor},
           s \in {"init", "rc_init", "exec_init", "sysconfig"} :
        /\ MainSends[main_pc + 1] = Sent(h, Signal(s))
        /\ main_pc = 0 => h = TopoBuilder /\ s = "init"
        /\ main_pc = 1 => h = Collector
        /\ main_pc = 2 => h = Executor /\ s = "exec_init"
        /\ main_pc = 3 => h = Executor /\ s = "sysconfig"
  <2>1. main_pc = 0 \/ main_pc = 1 \/ main_pc = 2 \/ main_pc = 3
    BY <1>0
  <2> QED BY <2>1 DEF MainSends
<1> DEFINE m == Signal(s)
           out == Sent(h, m)
<1>6. Puts(Null, h, m, out) /\ m.type = s
  <2>1. h \in Actor /\ h # Null /\ m \in Message
    BY <1>a, SignalTyped, NullNotActor DEF SignalType
  <2> QED BY <1>0, <1>5, <2>1, SentPuts DEF Signal
<1> HIDE DEF m, out
<1>7. \A a \in Builder : a # h => mbox'[a] = mbox[a]
  BY <1>a, <1>1, <1>2, <1>6, OtherBoxes
<1>8. \A a \in ChainActor : mbox'[a] = mbox[a]
  BY <1>a, <1>5, <1>7
<1>9. h \in live' => Gets(h, m)
  BY <1>6, PutStep
<1>10. \A t : Count(mbox'[TopoBuilder], t) =
                 IF h = TopoBuilder /\ t = "init" THEN Count(mbox[TopoBuilder], t) + 1
                                                  ELSE Count(mbox[TopoBuilder], t)
  <2>1. CASE main_pc = 0
    <3>1. h = TopoBuilder /\ h \in live' /\ s = "init"
      BY <1>2, <1>5, <2>1
    <3>2. \A t : /\ Count(mbox[h], t) \in Nat
                /\ Count(mbox'[h], t) = Count(mbox[h], t) + (IF m.type = t THEN 1 ELSE 0)
      BY <1>9, <3>1 DEF Gets
    <3> QED BY <1>6, <3>1, <3>2
  <2>2. CASE main_pc # 0
    <3>1. h # TopoBuilder
      BY <1>0, <1>a, <1>5, <2>2
    <3> QED BY <1>a, <1>7, <3>1
  <2> QED BY <2>1, <2>2
<1>11. \A x \in Contents(TopoBuilder)' :
         x \in Contents(TopoBuilder) \/ x.type \in BuilderTypes \ {"init_bench_reply"}
  <2>1. CASE main_pc = 0
    <3>1. h = TopoBuilder /\ h \in live' /\ s = "init"
      BY <1>2, <1>5, <2>1
    <3>2. \A x \in Contents(h)' : x \in Contents(h) \/ x = m
      BY <1>9, <3>1 DEF Gets
    <3> QED BY <1>6, <3>1, <3>2 DEF BuilderTypes
  <2>2. CASE main_pc # 0
    <3>1. h # TopoBuilder
      BY <1>0, <1>a, <1>5, <2>2
    <3> QED BY <1>a, <1>7, <3>1 DEF Contents
  <2> QED BY <2>1, <2>2
<1>12. Missing' = Missing /\ Asked' = Asked
  BY <1>4, <1>10 DEF Missing, Asked
<1>13. Building'
  <2>1. main_pc = 0 => TopoBuilder \notin configured
    BY ActorKinds DEF Startup, Early, MainActor
  <2>2. Count(mbox'[TopoBuilder], "init") =
          IF main_pc' >= 1 /\ TopoBuilder \notin configured THEN 1 ELSE 0
    BY <1>0, <1>a, <1>1, <1>5, <1>10, <2>1 DEF Building
  <2>3. Executor \in configured' => topo_builder_' = TopoBuilder
    BY <1>0, <1>1 DEF Building
  <2> QED BY <1>0, <1>1, <1>8, <1>11, <1>12, <2>2, <2>3, BuildingFrame
<1>14. CASE main_pc = 0 \/ main_pc = 1
  <2>1. mbox'[Executor] = mbox[Executor]
    BY <1>a, <1>5, <1>7, <1>14
  <2>2. BeforeMain'
    BY <1>0, <1>1, <1>12, <1>14, <2>1 DEF BeforeMain
  <2> QED BY <1>0, <1>3, <1>13, <2>2 DEF OneChainAtATime, Stage, Started
<1>15. CASE main_pc = 2
  <2>1. mbox[Executor] = <<>>
    BY <1>15, ActorKinds DEF Startup, Early, MainActor
  <2>2. mbox'[Executor] = <<Signal("exec_init")>>
    BY <1>2, <1>5, <1>9, <1>15, <2>1 DEF m, Gets
  <2>3. BeforeMain'
    BY <1>0, <1>1, <1>12, <1>15, <2>2 DEF BeforeMain
  <2> QED BY <1>0, <1>3, <1>13, <2>3 DEF OneChainAtATime, Stage, Started
<1>16. CASE main_pc = 3
  <2>1. mbox[Executor] \in {<<>>, <<Signal("exec_init")>>}
    BY <1>1 DEF BeforeMain
  <2>2. mbox'[Executor] = mbox[Executor] \o <<Signal("sysconfig")>>
        /\ (mbox[Executor] = <<>> => mbox'[Executor] = <<Signal("sysconfig")>>)
    BY <1>2, <1>5, <1>9, <1>16 DEF m, Gets
  <2>3. \A x, y \in Message : <<x>> \o <<y>> = <<x, y>>
    <3> TAKE x \in Message, y \in Message
    <3> DEFINE z == <<x>> \o <<y>>
    <3>1. z \in Seq(Message) /\ Len(z) = 2 /\ z[1] = x /\ z[2] = y
      OBVIOUS
    <3> HIDE DEF z
    <3>2. z = <<x, y>>
      BY <3>1
    <3> QED BY <3>2 DEF z
  <2>6. \A t \in SignalType : Signal(t) \in Message
    BY SignalTyped
  <2>4. mbox'[Executor]
          \in {<<Signal("exec_init"), Signal("sysconfig")>>, <<Signal("sysconfig")>>}
    BY <2>1, <2>2, <2>3, <2>6 DEF SignalType
  <2>5. AtSysconfig'
    BY <1>0, <1>1, <1>12, <1>16, <2>4 DEF BeforeMain, AtSysconfig
  <2> QED BY <1>0, <1>3, <1>13, <2>5 DEF OneChainAtATime, Stage, Started
<1> QED BY <1>0, <1>14, <1>15, <1>16

-----------------------------------------------------------------------------
\* The executor.

\* What the first message of the executor says of the stage.
LEMMA ExecutorReceives ==
  ASSUME Stage, NEW t, Receives(Executor, t)
  PROVE  \/ t = "exec_init" /\ BeforeMain /\ mbox[Executor] = <<Signal("exec_init")>>
         \/ /\ t = "exec_init" /\ AtSysconfig
            /\ mbox[Executor] = <<Signal("exec_init"), Signal("sysconfig")>>
         \/ t = "sysconfig" /\ AtSysconfig /\ mbox[Executor] = <<Signal("sysconfig")>>
         \/ t = "system_building" /\ AtAnnounce
         \/ t \in {"serial_benchmark", "parallel_benchmark"} /\ AtStart
<1>1. \A x, y : <<x>> # <<>> /\ Head(<<x>>) = x /\ Head(<<x, y>>) = x
  OBVIOUS
<1>2. \A s : Signal(s).type = s
  BY DEF Signal
<1>3. mbox[Executor] # <<>> /\ Head(mbox[Executor]).type = t
  BY DEF Receives
<1>4. CASE BeforeMain
  BY <1>1, <1>2, <1>3, <1>4 DEF BeforeMain
<1>5. CASE AtSysconfig
  BY <1>1, <1>2, <1>3, <1>5 DEF AtSysconfig
<1>6. CASE AtMake \/ AtInit
  BY <1>3, <1>6 DEF AtMake, AtInit
<1>7. CASE AtAnnounce
  BY <1>1, <1>3, <1>7 DEF AtAnnounce
<1>8. CASE AtStart
  BY <1>1, <1>2, <1>3, <1>8 DEF AtStart, BenchmarkSignal
<1> QED BY <1>4, <1>5, <1>6, <1>7, <1>8 DEF Stage

\* A step of a main actor that sends nothing to another actor leaves the
\* other builders' mailboxes alone.
LEMMA SelfBoxes ==
  ASSUME Typed, Building, NEW self \in Actor, NEW out \in Out, Arrives(self, out),
         live' = live, self \in live, \A a \in Actor : a # self => out[a] = <<>>
  PROVE  /\ \A a \in Builder : a # self => mbox'[a] = mbox[a]
         /\ mbox'[self] = Tail(mbox[self]) \o out[self]
<1>1. SystemTypeOK
  BY DEF Typed
<1>2. mbox'[self] = Tail(mbox[self]) \o out[self]
  BY <1>1, BoxStep
<1>3. ASSUME NEW a \in Builder, a # self PROVE mbox'[a] = mbox[a]
  <2>1. a \in Actor /\ out[a] = <<>>
    BY <1>3, BuildersAreActors
  <2>2. CASE a \in live
    <3>1. a \in live'
      BY <2>2
    <3> QED BY <1>1, <1>3, <2>1, <3>1, BoxStep
  <2>3. CASE a \notin live
    <3>1. mbox[a] = <<>>
      BY <2>3 DEF Building, Builder, MainActor
    <3>2. mbox'[a] = <<>>
      <4>1. a \notin live'
        BY <2>3
      <4> QED BY <1>1, <2>1, <4>1, BoxStep
    <3> QED BY <3>1, <3>2
  <2> QED BY <2>2, <2>3
<1> QED BY <1>2, <1>3

\* The executor handles its first message and sends at most one to itself.
ToItself(out) ==
  /\ out \in Out /\ Arrives(Executor, out) /\ \A a \in Actor : a # Executor => out[a] = <<>>
  /\ configured' \in {configured, configured \cup {Executor}}
  /\ Executor \in configured' => topo_builder_' = TopoBuilder
  /\ UNCHANGED <<live, timers, main_pc, rg_state, counter_, topo_executor_, chains_built,
                 prev_, next_, executor_>>

\* Such a step changes the mailbox of the executor only.
LEMMA ToItselfStep ==
  ASSUME Typed, Building, NEW out, ToItself(out)
  PROVE  /\ Building' /\ Missing' = Missing /\ Asked' = Asked
         /\ mbox'[Executor] = Tail(mbox[Executor]) \o out[Executor]
<1>0. /\ Executor \in Actor /\ TopoBuilder \in Builder /\ TopoBuilder # Executor
      /\ Executor \in live /\ live' = live /\ Executor \notin ChainActor
      /\ ChainActor \subseteq Builder
  BY MainActorsAreActors, ActorKinds DEF Builder, Building, MainActor, ToItself
<1>1. /\ \A a \in Builder : a # Executor => mbox'[a] = mbox[a]
      /\ mbox'[Executor] = Tail(mbox[Executor]) \o out[Executor]
  BY <1>0, SelfBoxes DEF ToItself
<1>2. mbox'[TopoBuilder] = mbox[TopoBuilder]
  BY <1>0, <1>1
<1>3. configured' \cap ChainActor = configured \cap ChainActor
      /\ (TopoBuilder \in configured' <=> TopoBuilder \in configured)
  BY <1>0 DEF ToItself
<1>4. Unready' = Unready
  BY <1>3, SameMissing DEF ToItself
<1>5. Missing' = Missing /\ Asked' = Asked
  BY <1>2, <1>4 DEF Missing, Asked
<1>6. UNCHANGED <<live, rg_state, counter_, topo_executor_, chains_built>>
      /\ main_pc' = main_pc /\ timers' = timers
      /\ (Executor \in configured' => topo_builder_' = TopoBuilder)
  BY DEF ToItself
<1>7. \A a \in ChainActor : mbox'[a] = mbox[a]
  BY <1>0, <1>1
<1>8. \A m \in Contents(TopoBuilder)' : m \in Contents(TopoBuilder)
  BY <1>2 DEF Contents
<1>9. Count(mbox'[TopoBuilder], "init") =
        IF main_pc' >= 1 /\ TopoBuilder \notin configured THEN 1 ELSE 0
  BY <1>2, <1>6 DEF Building
<1>10. Building'
  BY <1>3, <1>5, <1>6, <1>7, <1>8, <1>9, BuildingFrame
<1> QED BY <1>1, <1>5, <1>10

\* What is left when the only message, or the first of two, is taken.
LEMMA OneMessage ==
  ASSUME NEW x \in Message, NEW y \in Message
  PROVE  /\ Tail(<<x>>) \o <<>> = <<>> /\ Tail(<<x, y>>) \o <<>> = <<y>>
         /\ Tail(<<x>>) \o <<y>> = <<y>>
<1>1. Tail(<<x>>) = <<>> /\ Tail(<<x, y>>) = <<y>> /\ <<y>> \in Seq(Message)
  OBVIOUS
<1> QED BY <1>1, EmptyConcat

\* exec_init_a learns the topology builder and leaves the stage.
LEMMA ExecInitBuilds ==
  ASSUME Typed, Known, Building, Stage, ExecutorMoves, ExecInit PROVE OneChainAtATime'
<1>1. /\ Receives(Executor, "exec_init") /\ Handled(Executor, Silent)
      /\ UNCHANGED <<main_pc, heads_, rg_state, counter_, topo_executor_, chains_built, prev_,
                     next_, executor_, live, timers>>
      /\ configured' = configured \cup {Executor} /\ topo_builder_' = TopoBuilder
  BY DEF ExecInit, ExecutorMoves, Handled, Step, benchVars, topoVars, rgVars
<1>2. Silent[Executor] = <<>> /\ \A a \in Actor : Silent[a] = <<>>
  BY MainActorsAreActors DEF Silent
<1>3. ToItself(Silent)
  BY <1>1, <1>2, SilentTyped DEF ToItself, Handled, Step, Arrives, Receives
<1>4. /\ Building' /\ Missing' = Missing /\ Asked' = Asked
      /\ mbox'[Executor] = Tail(mbox[Executor]) \o <<>>
  BY <1>2, <1>3, ToItselfStep
<1>5. Known'
  <2>1. Executor \notin ChainActor
    BY ActorKinds DEF MainActor
  <2> QED BY <1>1, <2>1, StillKnown DEF KeepsKnown
<1>6. Signal("exec_init") \in Message /\ Signal("sysconfig") \in Message
  BY SignalTyped DEF SignalType
<1>7. CASE BeforeMain /\ mbox[Executor] = <<Signal("exec_init")>>
  <2>1. mbox'[Executor] = <<>>
    BY <1>4, <1>6, <1>7, OneMessage
  <2>2. BeforeMain'
    BY <1>1, <1>4, <1>7, <2>1 DEF BeforeMain
  <2> QED BY <1>4, <1>5, <2>2 DEF OneChainAtATime, Stage
<1>8. CASE AtSysconfig /\ mbox[Executor] = <<Signal("exec_init"), Signal("sysconfig")>>
  <2>1. mbox'[Executor] = <<Signal("sysconfig")>>
    BY <1>4, <1>6, <1>8, OneMessage
  <2>2. AtSysconfig'
    BY <1>1, <1>4, <1>8, <2>1 DEF AtSysconfig
  <2> QED BY <1>4, <1>5, <2>2 DEF OneChainAtATime, Stage
<1> QED BY <1>1, <1>7, <1>8, ExecutorReceives

\* The executor has what it needs once it has been initialised.
LEMMA ExecutorReady ==
  ASSUME Startup, Building, NEW t, t # "exec_init", Receives(Executor, t)
  PROVE  topo_builder_ = TopoBuilder
<1>1. Executor \in configured
  BY MainActorsAreActors, ActorKinds, Initialised
<1> QED BY <1>1 DEF Building

\* sysconfig_a starts the benchmark when all chains are announced, and asks
\* for one more chain otherwise.
LEMMA SysconfigBuilds ==
  ASSUME Typed, Startup, Known, Building, Stage, ExecutorMoves, Sysconfig
  PROVE  OneChainAtATime'
<1>1. /\ Receives(Executor, "sysconfig")
      /\ UNCHANGED <<main_pc, heads_, rg_state, counter_, topo_executor_, topo_builder_,
                     chains_built, prev_, next_, executor_, configured>>
  BY DEF Sysconfig, ExecutorMoves, execVars, benchVars, topoVars, rgVars
<1>2. AtSysconfig /\ mbox[Executor] = <<Signal("sysconfig")>>
  BY <1>1, ExecutorReceives
<1>3. topo_builder_ = TopoBuilder
  BY <1>1, ExecutorReady
<1>4. /\ Executor \in Actor /\ TopoBuilder \in Actor /\ TopoBuilder # Executor
      /\ TopoBuilder \in live /\ Executor \in live /\ Executor \in Builder
      /\ TopoBuilder \notin ChainActor /\ Executor \notin ChainActor
      /\ ChainActor \subseteq Builder
  BY MainActorsAreActors, ActorKinds DEF Builder, Building, MainActor
<1>5. /\ Signal("sysconfig") \in Message /\ BenchmarkSignal \in Message
      /\ Signal("make_linear_chain") \in Message
  BY SignalTyped, StartTyped DEF SignalType
<1>6. CASE Len(heads_) = ChainsNumber
  <2> DEFINE out == Sent(Executor, BenchmarkSignal)
  <2>1. Handled(Executor, out)
    BY <1>6 DEF Sysconfig
  <2>2. out \in Out /\ out[Executor] = <<BenchmarkSignal>>
        /\ \A a \in Actor : a # Executor => out[a] = <<>>
    BY <1>4, <1>5, SentTyped, MainActorsAreActors DEF Sent
  <2> HIDE DEF out
  <2>3. ToItself(out) /\ UNCHANGED <<live, timers>>
    BY <1>1, <1>3, <2>1, <2>2 DEF ToItself, Handled, Step, Arrives, Receives
  <2>4. /\ Building' /\ Missing' = Missing /\ Asked' = Asked
        /\ mbox'[Executor] = Tail(mbox[Executor]) \o <<BenchmarkSignal>>
    BY <2>2, <2>3, ToItselfStep
  <2>5. mbox'[Executor] = <<BenchmarkSignal>>
    BY <1>2, <1>5, <2>4, OneMessage
  <2>6. AtStart'
    BY <1>1, <1>6, <1>2, <2>4, <2>5 DEF AtSysconfig, AtStart, BenchmarkSignal
  <2>7. Known'
    BY <1>1, <2>3, StillKnown DEF KeepsKnown
  <2> QED BY <2>4, <2>6, <2>7 DEF OneChainAtATime, Stage
<1>7. CASE Len(heads_) # ChainsNumber
  <2> DEFINE m == Signal("make_linear_chain")
             out == Sent(TopoBuilder, m)
  <2>1. Handled(Executor, out)
    BY <1>3, <1>7 DEF Sysconfig
  <2>2. Arrives(Executor, out) /\ UNCHANGED <<live, timers>> /\ m.type = "make_linear_chain"
    BY <1>1, <2>1 DEF Handled, Step, Arrives, Receives, Signal
  <2>3. Puts(Executor, TopoBuilder, m, out) /\ out[Executor] = <<>> /\ out \in Out
    <3>1. m \in Message
      BY <1>5
    <3>2. Puts(Executor, TopoBuilder, m, out)
      BY <1>4, <2>2, <3>1, SentPuts
    <3> QED BY <1>4, <3>2 DEF Puts
  <2> HIDE DEF out, m
  <2>4. Gets(TopoBuilder, m)
    <3>1. TopoBuilder \in live'
      BY <1>4, <2>2
    <3> QED BY <2>3, <3>1, PutStep
  <2>5. \A a \in Builder : a # TopoBuilder /\ a # Executor => mbox'[a] = mbox[a]
    BY <2>2, <2>3, OtherBoxes
  <2>6. mbox'[Executor] = <<>>
    <3>1. mbox'[Executor] = Tail(mbox[Executor]) \o <<>>
      BY <1>4, <2>2, <2>3, BoxStep DEF Typed
    <3> QED BY <1>2, <1>5, <3>1, OneMessage
  <2>7. Missing' = Missing /\ Asked' = 1 /\ Unready' = Unready
    <3>1. Unready' = Unready
      BY <1>1, SameMissing
    <3>2. Asked = 0
      BY <1>2 DEF AtSysconfig
    <3> QED BY <2>2, <2>4, <3>1, <3>2 DEF Missing, Asked, Gets
  <2>8. Building'
    <3>1. \A a \in ChainActor : mbox'[a] = mbox[a]
      BY <1>4, <2>5
    <3>2. \A x \in Contents(TopoBuilder)' :
            x \in Contents(TopoBuilder) \/ x.type \in BuilderTypes \ {"init_bench_reply"}
      BY <2>2, <2>4 DEF Gets, BuilderTypes
    <3>3. Count(mbox'[TopoBuilder], "init") =
            IF main_pc' >= 1 /\ TopoBuilder \notin configured THEN 1 ELSE 0
      BY <1>1, <2>2, <2>4 DEF Gets, Building
    <3> QED BY <1>1, <1>3, <2>2, <2>7, <3>1, <3>2, <3>3, BuildingFrame
  <2>9. AtMake'
    <3>1. chains_built < ChainsNumber /\ Len(heads_) = chains_built
      BY <1>2, <1>7, ConfigAssumption DEF AtSysconfig, Typed, TopoTyped
    <3> QED BY <1>1, <1>2, <2>6, <2>7, <3>1 DEF AtSysconfig, AtMake
  <2>10. Known'
    BY <1>1, <2>2, StillKnown DEF KeepsKnown
  <2> QED BY <2>8, <2>9, <2>10 DEF OneChainAtATime, Stage
<1> QED BY <1>6, <1>7

\* A chain is announced when all its actors are ready, and before it no other was left out.
LEMMA AllReady ==
  ASSUME Typed, Building, Missing = 0, NEW a \in ChainActor, a[1] <= chains_built
  PROVE  a \in configured
<1>1. Unready = {}
  BY MissingTyped
<1>2. CASE a[1] = chains_built
  BY <1>1, <1>2 DEF Unready, ChainOf
<1>3. CASE a[1] # chains_built
  <2>1. a[1] < chains_built
    BY <1>3, ConfigAssumption DEF ChainActor, Typed, TopoTyped
  <2> QED BY <2>1 DEF Building
<1> QED BY <1>2, <1>3

\* system_building_a takes the announced chain and asks itself to go on.
LEMMA SystemBuildingBuilds ==
  ASSUME Typed, Startup, Known, Building, Stage, ExecutorMoves, SystemBuilding
  PROVE  OneChainAtATime'
<1> DEFINE m == Signal("sysconfig")
           out == Sent(Executor, m)
           h == HeadOf(chains_built)
           x == [type |-> "system_building", head |-> h]
<1>1. /\ Receives(Executor, "system_building")
      /\ Handled(Executor, out)
      /\ UNCHANGED <<main_pc, rg_state, counter_, topo_executor_, topo_builder_,
                     chains_built, prev_, next_, executor_, configured, live, timers>>
      /\ heads_' = Append(heads_, Head(mbox[Executor]).head)
  BY DEF SystemBuilding, ExecutorMoves, handleVars, benchVars, topoVars, rgVars, Handled, Step
<1>2. AtAnnounce
  BY <1>1, ExecutorReceives
<1>3. topo_builder_ = TopoBuilder
  BY <1>1, ExecutorReady
<1>4. m \in Message /\ Executor \in Actor
  BY SignalTyped, MainActorsAreActors DEF SignalType
<1>5. out \in Out /\ out[Executor] = <<m>> /\ \A a \in Actor : a # Executor => out[a] = <<>>
  BY <1>4, SentTyped, MainActorsAreActors DEF Sent
<1> HIDE DEF out, m
<1>6. ToItself(out)
  BY <1>1, <1>3, <1>5 DEF ToItself, Handled, Step, Arrives, Receives
<1>7. /\ Building' /\ Missing' = Missing /\ Asked' = Asked
      /\ mbox'[Executor] = Tail(mbox[Executor]) \o <<m>>
  BY <1>5, <1>6, ToItselfStep
<1>8. mbox[Executor] = <<x>> /\ x \in Message
  <2>1. mbox[Executor] = <<x>> /\ mbox[Executor] \in Seq(Message)
    BY <1>2, <1>4 DEF AtAnnounce, Typed, SystemTypeOK
  <2> QED BY <2>1
<1>9. mbox'[Executor] = <<m>>
  <2> HIDE DEF x
  <2> QED BY <1>4, <1>7, <1>8, OneMessage
<1>10. heads_' = Append(heads_, h)
  BY <1>1, <1>8
<1>11. /\ Len(heads_)' = chains_built /\ heads_'[chains_built] = h
       /\ \A i \in 1 .. Len(heads_) : heads_'[i] = heads_[i]
       /\ Len(heads_) + 1 = chains_built /\ Len(heads_) \in Nat
  <2>1. heads_ \in Seq(ChainActor) /\ Len(heads_) + 1 = chains_built
    BY <1>2 DEF AtAnnounce, Typed, ExecTypeOK
  <2> HIDE DEF h
  <2> QED BY <1>10, <2>1
<1>12. Known'
  <2>1. \A i \in 1 .. Len(heads_)' : heads_'[i] = HeadOf(i)
    <3> TAKE i \in 1 .. Len(heads_)'
    <3>1. CASE i = chains_built
      BY <1>11, <3>1
    <3>2. CASE i # chains_built
      <4>1. i \in 1 .. Len(heads_)
        BY <1>11, <3>2
      <4> QED BY <1>11, <4>1 DEF Known
    <3> QED BY <3>1, <3>2
  <2>2. \A a \in ChainActor : a[1] <= Len(heads_)' => a \in configured'
    BY <1>1, <1>2, <1>11, AllReady DEF AtAnnounce
  <2>3. \A a \in ChainActor : a \in live' \cap configured' =>
          prev_'[a] = Previous(a) /\ next_'[a] = Following(a) /\ executor_'[a] = Executor
    BY <1>1 DEF Known
  <2> QED BY <2>1, <2>2, <2>3 DEF Known, HeadOf, Previous, Following
<1>13. AtSysconfig'
  BY <1>1, <1>2, <1>7, <1>9, <1>11 DEF AtAnnounce, AtSysconfig, m
<1> QED BY <1>7, <1>12, <1>13 DEF OneChainAtATime, Stage

\* Nothing about building is left when the benchmark starts.
LEMMA StartBuilds ==
  ASSUME Typed, Startup, Known, Building, Stage, ExecutorMoves,
         SerialBenchmark \/ ParallelBenchmark
  PROVE  OneChainAtATime' /\ Started'
<1>0. /\ Executor \in Actor /\ TopoBuilder \in Actor /\ TopoBuilder # Executor
      /\ TopoBuilder \in live /\ Executor \in live /\ ChainActor \subseteq Actor
      /\ TopoBuilder \notin ChainActor /\ Executor \notin ChainActor
  BY MainActorsAreActors, ActorKinds DEF Building, MainActor, Actor
<1>1. PICK out \in {Silent, Sent(Executor, SerialStart)},
           t \in {"serial_benchmark", "parallel_benchmark"} :
        Receives(Executor, t) /\ \E pending : Step(Executor, out, live, pending)
  BY DEF SerialBenchmark, ParallelBenchmark, Handled
<1>2. UNCHANGED <<main_pc, heads_, configured, live, prev_, next_, executor_>>
      /\ Arrives(Executor, out)
  BY <1>1 DEF SerialBenchmark, ParallelBenchmark, ExecutorMoves, execVars, benchVars, Step,
     Arrives, Receives
<1>3. AtStart
  BY <1>1, ExecutorReceives
<1>4. SerialStart.type \notin BuildType
  BY DEF SerialStart, BuildType
<1>5. Parcel(out) /\ Off(out)
  BY <1>1, <1>4, SendingOff
<1>6. \A a \in Actor : a # Executor => out[a] = <<>>
  BY <1>1, MainActorsAreActors DEF Silent, Sent
<1>7. \A m : <<>> # <<m>>
  OBVIOUS
<1>8. ASSUME NEW m \in Contents(TopoBuilder)' PROVE m.type \notin BuildType
  <2>1. m \in Contents(TopoBuilder)
    BY <1>0, <1>2, <1>5, <1>6, <1>7, Arrivals DEF Typed
  <2>2. Asked = 0 /\ Count(mbox[TopoBuilder], "init_bench_reply") = 0
    BY <1>3, MissingTyped DEF AtStart, Missing
  <2>3. mbox[TopoBuilder] \in Seq(Message)
    BY <1>0 DEF Typed, SystemTypeOK
  <2>4. m.type # "make_linear_chain" /\ m.type # "init_bench_reply"
    <3>1. \A i \in DOMAIN mbox[TopoBuilder] :
            /\ mbox[TopoBuilder][i].type # "make_linear_chain"
            /\ mbox[TopoBuilder][i].type # "init_bench_reply"
      BY <2>2, <2>3, CountTyped DEF Asked
    <3> QED BY <2>1, <3>1 DEF Contents, ToSet
  <2>5. m.type \in BuilderTypes
    BY <2>1 DEF Building
  <2> QED BY <2>4, <2>5 DEF BuilderTypes, BuildType
<1>9. ASSUME NEW a \in ChainActor, NEW m \in Contents(a)' PROVE m.type \notin BuildType
  <2>1. a \in Actor /\ a # Executor
    BY <1>0
  <2>2. m \in Contents(a) /\ a \in live
    BY <1>2, <1>5, <1>6, <1>7, <2>1, Arrivals DEF Typed
  <2>3. a[1] <= chains_built
    BY <2>2 DEF Building, Spawned
  <2>4. a \in configured
    BY <1>3, <2>3, AllReady DEF AtStart
  <2>5. mbox[a] = <<>>
    BY <2>4 DEF Building
  <2> QED BY <2>2, <2>5 DEF Contents, ToSet
<1>10. ASSUME NEW m \in Contents(Executor)' PROVE m.type \notin BuildType
  <2>1. mbox[Executor] = <<BenchmarkSignal>> /\ BenchmarkSignal \in Message
    BY <1>3, StartTyped DEF AtStart
  <2>2. mbox'[Executor] = Tail(mbox[Executor]) \o out[Executor] /\ out[Executor] \in Seq(Message)
    <3>1. out \in Out
      BY <1>1, SilentTyped, SentTyped, StartTyped, MainActorsAreActors
    <3>2. Executor \in live'
      BY <1>0, <1>2
    <3> QED BY <1>0, <1>2, <3>1, <3>2, BoxStep DEF Typed
  <2>3. mbox'[Executor] = out[Executor]
    <3>1. Tail(<<BenchmarkSignal>>) = <<>>
      BY <2>1
    <3> QED BY <2>1, <2>2, <3>1, EmptyConcat
  <2>4. out[Executor] = <<>> \/ \E x : out[Executor] = <<x>>
    BY <1>0, <1>5 DEF Parcel
  <2>5. ASSUME NEW x, out[Executor] = <<x>> PROVE m.type \notin BuildType
    <3>1. m = x
      BY <2>3, <2>5 DEF Contents, ToSet
    <3> QED BY <1>0, <1>5, <2>5, <3>1 DEF Off
  <2>6. out[Executor] # <<>>
    BY <2>3 DEF Contents, ToSet
  <2> QED BY <2>4, <2>5, <2>6
<1>11. Started'
  BY <1>2, <1>3, <1>8, <1>9, <1>10 DEF Started, AtStart, Builder
<1>12. Known'
  BY <1>2, StillKnown DEF KeepsKnown
<1> QED BY <1>11, <1>12 DEF OneChainAtATime

\* The steps of the executor.
LEMMA ExecutorBuilds ==
  ASSUME Typed, Startup, OneChainAtATime, ExecutorMoves
  PROVE  OneChainAtATime' /\ (Started => Started')
<1>1. CASE Started
  BY <1>1, ExecutorRuns DEF OneChainAtATime
<1>2. CASE ~ Started
  <2>1. Known /\ Building /\ Stage
    BY <1>2 DEF OneChainAtATime
  <2>2. \A t : Receives(Executor, t) =>
          t \in {"exec_init", "sysconfig", "system_building", "serial_benchmark",
                 "parallel_benchmark"}
    BY <2>1, ExecutorReceives
  <2>3. \/ ExecInit \/ Sysconfig \/ SystemBuilding \/ SerialBenchmark \/ ParallelBenchmark
    BY <2>2 DEF ExecutorMoves, ExecutorStep, Serial, UpdateMetrics, SerialKill, Parallel,
       ParallelKill, End
  <2> QED BY <1>2, <2>1, <2>3, ExecInitBuilds, SysconfigBuilds, SystemBuildingBuilds,
             StartBuilds
<1> QED BY <1>1, <1>2

-----------------------------------------------------------------------------
\* The topology builder.

\* The mailbox of a builder that gets nothing and does nothing.
LEMMA SameBox ==
  ASSUME Typed, Building, NEW self, NEW out \in Out, Arrives(self, out), NEW a \in Builder,
         a # self, out[a] = <<>>, a \in live' <=> a \in live
  PROVE  mbox'[a] = mbox[a]
<1>1. a \in Actor /\ SystemTypeOK
  BY BuildersAreActors DEF Typed
<1>2. CASE a \in live
  BY <1>1, <1>2, BoxStep
<1>3. CASE a \notin live
  <2>1. mbox[a] = <<>>
    BY <1>3 DEF Building, Builder, MainActor
  <2> QED BY <1>1, <1>3, <2>1, BoxStep
<1> QED BY <1>2, <1>3

\* The mailbox of an actor that has no messages and is not at work.
LEMMA FreshBox ==
  ASSUME SystemTypeOK, NEW self, NEW out \in Out, Arrives(self, out), NEW a \in Actor,
         a # self, a \in live', mbox[a] = <<>>
  PROVE  mbox'[a] = out[a]
<1>1. out[a] \in Seq(Message) /\ mbox'[a] = mbox[a] \o out[a]
  BY MainActorsAreActors DEF Arrives, Delivered, Out
<1> QED BY <1>1, EmptyConcat

\* The topology builder takes its first message, and sends itself nothing.
Takes(s, out) ==
  /\ Receives(TopoBuilder, s) /\ out \in Out /\ Parcel(out) /\ Arrives(TopoBuilder, out)
  /\ out[TopoBuilder] = <<>> /\ TopoBuilder \in live'
  /\ timers' = timers
  /\ UNCHANGED <<rg_state, main_pc, heads_, topo_builder_, prev_, next_, executor_>>

\* What such a step does to the mailbox of the topology builder.
LEMMA TakesStep ==
  ASSUME Typed, NEW s, NEW out, Takes(s, out)
  PROVE  /\ \A t : /\ Count(mbox[TopoBuilder], t) \in Nat
                  /\ Count(mbox'[TopoBuilder], t) \in Nat
                  /\ Count(mbox'[TopoBuilder], t)
                       = Count(mbox[TopoBuilder], t) - (IF s = t THEN 1 ELSE 0)
         /\ \A m \in Contents(TopoBuilder)' : m \in Contents(TopoBuilder)
<1>0. /\ SystemTypeOK /\ TopoBuilder \in Actor /\ mbox[TopoBuilder] \in Seq(Message)
      /\ mbox[TopoBuilder] # <<>> /\ Head(mbox[TopoBuilder]).type = s
  BY MainActorsAreActors DEF Typed, SystemTypeOK, Takes, Receives
<1>1. mbox'[TopoBuilder] = Tail(mbox[TopoBuilder]) /\ Tail(mbox[TopoBuilder]) \in Seq(Message)
  <2>1. mbox'[TopoBuilder] = Tail(mbox[TopoBuilder]) \o out[TopoBuilder]
    BY <1>0, BoxStep DEF Takes
  <2>2. Tail(mbox[TopoBuilder]) \in Seq(Message)
    BY <1>0
  <2> QED BY <2>1, <2>2, EmptyConcat DEF Takes
<1>2. \A t : Count(mbox[TopoBuilder], t) \in Nat
  BY <1>0, CountTyped
<1>3. \A t : Count(mbox'[TopoBuilder], t) \in Nat
  BY <1>1, CountTyped
<1>4. \A t : Count(mbox'[TopoBuilder], t)
               = Count(mbox[TopoBuilder], t) - (IF s = t THEN 1 ELSE 0)
  BY <1>0, <1>1, CountTail
<1>5. \A m \in Contents(TopoBuilder)' : m \in Contents(TopoBuilder)
  <2>1. \A m : <<>> # <<m>>
    OBVIOUS
  <2> QED BY <1>0, <2>1, Arrivals DEF Takes
<1> QED BY <1>2, <1>3, <1>4, <1>5

\* Who is who for the topology builder.
LEMMA TopoIs ==
  ASSUME Building
  PROVE  /\ TopoBuilder \in Actor /\ TopoBuilder \in live /\ TopoBuilder \in Builder
         /\ TopoBuilder \notin ChainActor /\ Executor \notin ChainActor
         /\ Executor # TopoBuilder /\ Executor \in Builder /\ Executor \in Actor
         /\ Executor \in live /\ ChainActor \subseteq Builder /\ ChainActor \subseteq Actor
         /\ \A a \in ChainActor : a \notin PoolActor /\ a # TopoBuilder
         /\ Executor \notin PoolActor /\ TopoBuilder \notin PoolActor
BY MainActorsAreActors, ActorKinds, BuildersAreActors DEF Building, MainActor, Builder

\* The message that the topology builder takes is counted before.
LEMMA Counted ==
  ASSUME Typed, NEW s, Receives(TopoBuilder, s)
  PROVE  Count(mbox[TopoBuilder], s) \in Nat \ {0}
<1>1. mbox[TopoBuilder] \in Seq(Message) /\ mbox[TopoBuilder] # <<>>
      /\ Head(mbox[TopoBuilder]).type = s
  BY MainActorsAreActors DEF Typed, SystemTypeOK, Receives
<1>2. 1 \in DOMAIN mbox[TopoBuilder] /\ mbox[TopoBuilder][1].type = s
  BY <1>1
<1> QED BY <1>1, <1>2, CountTyped

\* A step of the topology builder that leaves the chains alone.
LEMMA TopoFrame ==
  ASSUME Typed, Building, NEW s, NEW out, Takes(s, out), s # "init_bench_reply",
         s # "make_linear_chain", UNCHANGED chains_built,
         live' \cap ChainActor = live \cap ChainActor, MainActor \subseteq live',
         configured' \cap (ChainActor \cup {Executor})
           = configured \cap (ChainActor \cup {Executor}),
         \A a \in ChainActor \cup {Executor} : out[a] = <<>>
  PROVE  /\ UNCHANGED <<mbox[Executor], Unready, Missing, Asked>>
         /\ \A a \in ChainActor : /\ a \in live' <=> Spawned(a)'
                                  /\ mbox'[a] = IF a \in live' \ configured'
                                                THEN <<Request(a)>>' ELSE <<>>
                                  /\ a[1] < chains_built' => a \in configured'
         /\ Known /\ Stage => Known' /\ Stage'
<1>0. /\ out \in Out /\ Arrives(TopoBuilder, out) /\ Executor \in Builder
      /\ Executor # TopoBuilder /\ Executor \in live /\ Executor \in live'
      /\ ChainActor \subseteq Builder /\ \A a \in ChainActor : a # TopoBuilder
  BY TopoIs DEF Takes, MainActor
<1>1. mbox'[Executor] = mbox[Executor]
  BY <1>0, SameBox
<1>2. \A a \in ChainActor : mbox'[a] = mbox[a]
  <2> TAKE a \in ChainActor
  <2>1. a \in live' <=> a \in live
    OBVIOUS
  <2> QED BY <1>0, <2>1, SameBox
<1>3. Unready' = Unready
  <2>1. configured' \cap ChainActor = configured \cap ChainActor
    OBVIOUS
  <2> QED BY <2>1, SameMissing
<1>4. Missing' = Missing /\ Asked' = Asked
  BY <1>3, TakesStep DEF Missing, Asked
<1>5. \A a \in ChainActor : /\ a \in live' <=> Spawned(a)'
                            /\ mbox'[a] = IF a \in live' \ configured'
                                          THEN <<Request(a)>>' ELSE <<>>
                            /\ a[1] < chains_built' => a \in configured'
  BY <1>2 DEF Building, Spawned, Request, Previous, Following
<1>6. Known => Known'
  <2>1. UNCHANGED <<heads_, prev_, next_, executor_>>
    BY DEF Takes
  <2> QED BY <2>1 DEF Known, HeadOf, Previous, Following
<1>7. Stage => Stage'
  <2>1. UNCHANGED <<main_pc, heads_>>
    BY DEF Takes
  <2> QED BY <1>1, <1>4, <2>1 DEF Stage, BeforeMain, AtSysconfig, AtMake, AtInit, AtAnnounce,
             AtStart, HeadOf, BenchmarkSignal
<1> QED BY <1>1, <1>3, <1>4, <1>5, <1>6, <1>7

\* What the topology builder has when it handles anything but its initialiser.
LEMMA TopoReady ==
  ASSUME Startup, Building, NEW s, s # "init", Receives(TopoBuilder, s)
  PROVE  /\ TopoBuilder \in configured /\ topo_executor_ = Executor
         /\ counter_ = IF Missing = 0 THEN PipelineActors ELSE Missing
<1>1. TopoBuilder \in configured
  BY TopoIs, ActorKinds, Initialised
<1> QED BY <1>1 DEF Building

\* init_a is handled once, before there is a chain.
LEMMA InitTopoBuilds ==
  ASSUME Typed, Startup, Known, Building, Stage, TopoMoves, InitTopo PROVE OneChainAtATime'
<1> DEFINE x == Signal("init_detached")
           out == [h \in Handle |-> IF h \in PoolActor THEN <<x>> ELSE <<>>]
<1>1. /\ Receives(TopoBuilder, "init") /\ configured' = configured \cup {TopoBuilder}
      /\ counter_' = PipelineActors /\ topo_executor_' = Executor /\ UNCHANGED chains_built
      /\ Step(TopoBuilder, out, live \cup PoolActor, timers)
      /\ UNCHANGED <<rg_state, main_pc, heads_, topo_builder_, prev_, next_, executor_>>
  BY DEF TopoMoves, InitTopo, execVars, rgVars, benchVars
<1>2. x \in Message
  BY SignalTyped DEF SignalType
<1> HIDE DEF x
<1>3. out \in Out /\ Parcel(out)
  <2>1. <<x>> \in Seq(Message) /\ <<>> \in Seq(Message)
    BY <1>2
  <2>2. out \in Out
    BY <2>1 DEF Out
  <2>3. \A a \in Actor : out[a] = <<x>> \/ out[a] = <<>>
    BY MainActorsAreActors
  <2> HIDE DEF out
  <2> QED BY <2>2, <2>3 DEF Parcel
<1>4. \A a \in Builder : out[a] = <<>>
  BY TopoIs, BuildersAreActors, MainActorsAreActors DEF Builder
<1> HIDE DEF out
<1>5. Takes("init", out)
  BY <1>1, <1>3, <1>4, TopoIs DEF Takes, Step, Arrives, Receives
<1>6. TopoBuilder \notin configured
  BY <1>1, Counted DEF Building
<1>7. /\ live' \cap ChainActor = live \cap ChainActor /\ MainActor \subseteq live'
      /\ configured' \cap (ChainActor \cup {Executor})
           = configured \cap (ChainActor \cup {Executor})
  BY <1>1, TopoIs DEF Step, Building
<1>8. \A a \in ChainActor \cup {Executor} : out[a] = <<>>
  BY <1>4, TopoIs
<1>9. /\ Missing' = Missing /\ Known' /\ Stage'
      /\ \A a \in ChainActor : /\ a \in live' <=> Spawned(a)'
                               /\ mbox'[a] = IF a \in live' \ configured'
                                             THEN <<Request(a)>>' ELSE <<>>
                               /\ a[1] < chains_built' => a \in configured'
  BY <1>1, <1>5, <1>7, <1>8, TopoFrame
<1>10. Building'
  <2>1. \A m \in Contents(TopoBuilder)' :
          /\ m.type \in BuilderTypes
          /\ m.type = "init_bench_reply" => m.head = HeadOf(chains_built)'
    BY <1>1, <1>5, TakesStep DEF Building, BuilderTypes, HeadOf
  <2>2. Count(mbox'[TopoBuilder], "init") = 0
    BY <1>5, <1>6, <1>1, Counted, TakesStep DEF Building
  <2>3. Missing' = 0 /\ TopoBuilder \in configured'
    BY <1>1, <1>6, <1>9 DEF Building
  <2>4. \A t \in timers' : t.to # Executor
    BY <1>5 DEF Takes, Building
  <2>5. Executor \in configured' => topo_builder_' = TopoBuilder
    BY <1>1, TopoIs DEF Building
  <2>6. MainActor \subseteq live' /\ rg_state' = "absent"
    BY <1>1, <1>7 DEF Building
  <2>7. Count(mbox'[TopoBuilder], "init") =
          IF main_pc' >= 1 /\ TopoBuilder \notin configured' THEN 1 ELSE 0
    BY <2>2, <2>3
  <2>8. counter_' = IF Missing' = 0 THEN PipelineActors ELSE Missing'
    BY <1>1, <2>3
  <2> QED BY <1>1, <1>9, <2>1, <2>3, <2>4, <2>5, <2>6, <2>7, <2>8 DEF Building, BuilderTypes
<1> QED BY <1>9, <1>10 DEF OneChainAtATime

\* The replies of the pool change nothing.
LEMMA InitDetachedReplyBuilds ==
  ASSUME Typed, Startup, Known, Building, Stage, TopoMoves, InitDetachedReply
  PROVE  OneChainAtATime'
<1>1. /\ Receives(TopoBuilder, "init_detached_reply") /\ Handled(TopoBuilder, Silent)
      /\ UNCHANGED <<configured, counter_, topo_executor_, chains_built, rg_state, main_pc,
                     heads_, topo_builder_, prev_, next_, executor_, live, timers>>
  BY DEF TopoMoves, InitDetachedReply, execVars, rgVars, benchVars, topoVars, Handled, Step
<1>2. \A a \in Actor : Silent[a] = <<>>
  BY MainActorsAreActors DEF Silent
<1>3. Takes("init_detached_reply", Silent)
  BY <1>1, <1>2, TopoIs, SilentTyped, SendingOff DEF Takes, Handled, Step, Arrives, Receives
<1>4. \A a \in ChainActor \cup {Executor} : Silent[a] = <<>>
  BY <1>2, TopoIs
<1>5. MainActor \subseteq live'
  BY <1>1 DEF Building
<1>6. /\ Missing' = Missing /\ Known' /\ Stage'
      /\ \A a \in ChainActor : /\ a \in live' <=> Spawned(a)'
                               /\ mbox'[a] = IF a \in live' \ configured'
                                             THEN <<Request(a)>>' ELSE <<>>
                               /\ a[1] < chains_built' => a \in configured'
  BY <1>1, <1>3, <1>4, <1>5, TopoFrame
<1>7. Building'
  <2>1. \A m \in Contents(TopoBuilder)' :
          /\ m.type \in BuilderTypes
          /\ m.type = "init_bench_reply" => m.head = HeadOf(chains_built)'
    BY <1>1, <1>3, TakesStep DEF Building, BuilderTypes, HeadOf
  <2>2. Count(mbox'[TopoBuilder], "init") =
          IF main_pc' >= 1 /\ TopoBuilder \notin configured' THEN 1 ELSE 0
    BY <1>1, <1>3, TakesStep DEF Building
  <2> QED BY <1>1, <1>5, <1>6, <2>1, <2>2 DEF Building, BuilderTypes
<1> QED BY <1>6, <1>7 DEF OneChainAtATime

\* The stages at which the topology builder may take a message about a chain.
LEMMA TopoStage ==
  ASSUME Typed, Stage, NEW s, Receives(TopoBuilder, s)
  PROVE  /\ s = "make_linear_chain" => AtMake
         /\ s = "init_bench_reply" => AtInit
<1>1. s = "make_linear_chain" => Asked > 0
  BY Counted DEF Asked
<1>2. s = "init_bench_reply" => Missing > 0
  BY Counted, MissingTyped DEF Missing
<1> QED BY <1>1, <1>2 DEF Stage, BeforeMain, AtSysconfig, AtMake, AtInit, AtAnnounce, AtStart

\* make_linear_chain_a: none of the new chain's actors is ready, and the
\* counter stands at their number.
LEMMA MakeLinearChainBuilds ==
  ASSUME Typed, Startup, Order, Known, Building, Stage, TopoMoves, MakeLinearChain
  PROVE  OneChainAtATime'
<1> DEFINE n == chains_built + 1
           chain == ChainOf(n)
           out == [h \in Handle |-> IF h \in chain THEN <<InitRequest(h)>> ELSE <<>>]
<1>1. /\ Receives(TopoBuilder, "make_linear_chain") /\ chains_built' = n
      /\ Step(TopoBuilder, out, live \cup chain, timers) /\ n \in 1 .. ChainsNumber
      /\ UNCHANGED <<rg_state, main_pc, heads_, topo_builder_, prev_, next_, executor_,
                     configured, counter_, topo_executor_>>
  BY ConfigAssumption
     DEF TopoMoves, MakeLinearChain, execVars, rgVars, benchVars, Typed, TopoTyped
<1>2. AtMake /\ TopoBuilder \in configured /\ topo_executor_ = Executor
      /\ counter_ = PipelineActors
  BY <1>1, TopoStage, TopoReady DEF AtMake
<1>3. \A a \in ChainActor :
        (a \in chain <=> a[1] = n) /\ a[1] \in Nat /\ InitRequest(a) = Request(a)
  BY <1>2, ConfigAssumption DEF ChainOf, ChainActor, InitRequest, Request
<1>4. chain \subseteq ChainActor
  BY DEF ChainOf
<1>5. \A a \in Actor : out[a] = IF a \in chain THEN <<InitRequest(a)>> ELSE <<>>
  BY MainActorsAreActors
<1>6. out \in Out /\ Parcel(out)
  <2>1. \A a \in ChainActor : <<InitRequest(a)>> \in Seq(Message)
    <3> TAKE a \in ChainActor
    <3>1. InitRequest(a) \in Message
      BY NeighboursTyped DEF InitRequest, Message, InitBenchMsg, Typed, TopoTyped
    <3> QED BY <3>1
  <2>2. <<>> \in Seq(Message)
    OBVIOUS
  <2>3. out \in Out
    BY <1>4, <2>1, <2>2 DEF Out
  <2> HIDE DEF out, chain
  <2> QED BY <1>5, <2>3 DEF Parcel
<1> HIDE DEF chain, out
<1>7. Takes("make_linear_chain", out)
  BY <1>1, <1>4, <1>5, <1>6, TopoIs DEF Takes, Step, Arrives, Receives
<1>8. /\ out \in Out /\ Arrives(TopoBuilder, out) /\ live' = live \cup chain /\ timers' = timers
  BY <1>1, <1>7 DEF Takes, Step
<1>9. \A a \in chain : a \notin live /\ a \notin configured /\ mbox'[a] = <<Request(a)>>
  <2> TAKE a \in chain
  <2>1. a \in ChainActor /\ a[1] = n /\ a \in Actor /\ a # TopoBuilder
    BY <1>3, <1>4, TopoIs
  <2>2. a \notin live /\ a \notin configured /\ mbox[a] = <<>>
    <3>1. ~ Spawned(a)
      BY <2>1 DEF Spawned, Typed, TopoTyped
    <3> QED BY <2>1, <3>1 DEF Order, Linked, Building
  <2>3. mbox'[a] = out[a]
    <3>1. a \in live' /\ SystemTypeOK /\ out \in Out /\ Arrives(TopoBuilder, out)
      BY <1>8 DEF Typed
    <3> QED BY <2>1, <2>2, <3>1, FreshBox
  <2> QED BY <1>3, <1>5, <2>1, <2>2, <2>3
<1>10. \A a \in Builder \ chain : a # TopoBuilder => mbox'[a] = mbox[a]
  <2>1. ASSUME NEW a \in Builder \ chain, a # TopoBuilder PROVE mbox'[a] = mbox[a]
    <3>1. out[a] = <<>> /\ (a \in live' <=> a \in live)
      BY <1>5, <1>8, <2>1, BuildersAreActors
    <3> QED BY <1>8, <2>1, <3>1, SameBox
  <2> QED BY <2>1
<1>11. Missing' = PipelineActors /\ PipelineActors > 0 /\ Asked' = 0
  <2>1. Unready' = chain
    BY <1>1, <1>9 DEF Unready, chain
  <2>2. Cardinality(chain) = PipelineActors
    BY <1>1, ChainSize DEF chain
  <2>3. /\ Count(mbox'[TopoBuilder], "init_bench_reply") = 0
        /\ Count(mbox'[TopoBuilder], "make_linear_chain") = 0
    BY <1>2, <1>7, TakesStep, MissingTyped DEF AtMake, Asked, Missing
  <2> QED BY <2>1, <2>2, <2>3, ConfigAssumption DEF Missing, Asked, is_valid
<1>12. Executor \notin chain
  BY <1>4, TopoIs
<1>13. AtInit'
  <2>1. mbox'[Executor] = <<>>
    BY <1>2, <1>10, <1>12, TopoIs DEF AtMake
  <2> QED BY <1>1, <1>2, <1>11, <2>1 DEF AtMake, AtInit
<1>14. Known'
  <2>1. \A a \in ChainActor : a \in live' \cap configured' => a \in live \cap configured
    BY <1>1, <1>8, <1>9
  <2> QED BY <1>1, <2>1 DEF Known, HeadOf, Previous, Following
<1>15. Building'
  <2>1. \A m \in Contents(TopoBuilder)' :
          m.type \in BuilderTypes /\ m.type # "init_bench_reply"
    <3>1. \A m \in Contents(TopoBuilder)' : m.type \in BuilderTypes
      BY <1>7, TakesStep DEF Building
    <3>2. Count(mbox'[TopoBuilder], "init_bench_reply") = 0
      BY <1>2, <1>7, TakesStep, MissingTyped DEF AtMake, Missing
    <3>3. mbox'[TopoBuilder] \in Seq(Message)
      <4>1. mbox[TopoBuilder] \in Seq(Message) /\ TopoBuilder \in live' /\ SystemTypeOK
        BY <1>7, TopoIs DEF Typed, SystemTypeOK, Takes
      <4>2. mbox'[TopoBuilder] = Tail(mbox[TopoBuilder]) \o out[TopoBuilder]
        BY <1>8, <4>1, TopoIs, BoxStep
      <4>3. Tail(mbox[TopoBuilder]) \in Seq(Message)
        BY <1>7, <4>1 DEF Takes, Receives
      <4> QED BY <1>7, <4>2, <4>3, EmptyConcat DEF Takes
    <3>4. \A i \in DOMAIN mbox'[TopoBuilder] : mbox'[TopoBuilder][i].type # "init_bench_reply"
      BY <3>2, <3>3, CountTyped
    <3> QED BY <3>1, <3>4 DEF Contents, ToSet
  <2>2. Count(mbox'[TopoBuilder], "init") =
          IF main_pc' >= 1 /\ TopoBuilder \notin configured' THEN 1 ELSE 0
    BY <1>1, <1>7, TakesStep DEF Building
  <2>3. \A a \in ChainActor :
          /\ a \in live' <=> a[1] <= chains_built'
          /\ mbox'[a] = IF a \in live' \ configured' THEN <<Request(a)>> ELSE <<>>
          /\ a[1] < chains_built' => a \in configured'
    <3> TAKE a \in ChainActor
    <3>1. CASE a \in chain
      BY <1>1, <1>3, <1>8, <1>9, <3>1
    <3>2. CASE a \notin chain
      <4>1. a[1] # n /\ a # TopoBuilder /\ a \in Builder /\ (a \in live' <=> a \in live)
        BY <1>3, <1>8, <3>2, TopoIs
      <4>2. mbox'[a] = mbox[a]
        BY <1>10, <3>2, <4>1
      <4>3. a[1] < n => a \in configured
        BY <1>2, <1>3, <4>1, AllReady DEF AtMake, Typed, TopoTyped
      <4>4. a[1] <= n <=> a[1] <= chains_built
        BY <1>3, <4>1 DEF Typed, TopoTyped
      <4> QED BY <1>1, <4>1, <4>2, <4>3, <4>4 DEF Building, Spawned
    <3> QED BY <3>1, <3>2
  <2>4. MainActor \subseteq live' /\ \A t \in timers' : t.to # Executor
    BY <1>8 DEF Building
  <2>5. rg_state' = "absent" /\ (Executor \in configured' => topo_builder_' = TopoBuilder)
    BY <1>1 DEF Building
  <2>6. /\ TopoBuilder \in configured' /\ topo_executor_' = Executor
        /\ counter_' = IF Missing' = 0 THEN PipelineActors ELSE Missing'
    BY <1>1, <1>2, <1>11
  <2> QED BY <2>1, <2>2, <2>3, <2>4, <2>5, <2>6
          DEF Building, BuilderTypes, Spawned, Request, Previous, Following
<1> QED BY <1>13, <1>14, <1>15 DEF OneChainAtATime, Stage

\* A reply brings the counter down with what is missing; the last one
\* announces the newest chain.
LEMMA InitBenchReplyBuilds ==
  ASSUME Typed, Startup, Known, Building, Stage, TopoMoves, InitBenchReply
  PROVE  OneChainAtATime'
<1> DEFINE h == Head(mbox[TopoBuilder]).head
           x == [type |-> "system_building", head |-> HeadOf(chains_built)]
           out == IF counter_ = 1 THEN Sent(Executor, x) ELSE Silent
<1>1. /\ Receives(TopoBuilder, "init_bench_reply") /\ counter_' = RepliesLeft
      /\ UNCHANGED <<configured, topo_executor_, chains_built, rg_state, main_pc, heads_,
                     topo_builder_, prev_, next_, executor_, live, timers>>
  BY DEF TopoMoves, InitBenchReply, execVars, rgVars, benchVars, Handled, Step
<1>2. AtInit /\ TopoBuilder \in configured /\ topo_executor_ = Executor
      /\ counter_ = Missing /\ Missing > 0 /\ Missing \in Nat
  BY <1>1, TopoStage, TopoReady, MissingTyped DEF AtInit
<1>3. h = HeadOf(chains_built)
  <2>1. Head(mbox[TopoBuilder]) \in Contents(TopoBuilder)
        /\ Head(mbox[TopoBuilder]).type = "init_bench_reply"
    BY <1>1, TopoIs, FirstIsContent DEF Receives, Typed
  <2> QED BY <2>1 DEF Building
<1>4. Handled(TopoBuilder, out)
  BY <1>2, <1>3 DEF InitBenchReply
<1>5. x \in Message
  <2>1. Head(mbox[TopoBuilder]) \in HeadMsg
    BY <1>1, TopoIs, HeadTyped DEF Receives, Typed
  <2> QED BY <1>3, <2>1 DEF HeadMsg, Message
<1> HIDE DEF x
<1>6. /\ out \in Out /\ Parcel(out) /\ \A a \in Actor : a # Executor => out[a] = <<>>
      /\ out[Executor] = IF counter_ = 1 THEN <<x>> ELSE <<>>
  <2>1. /\ Sent(Executor, x) \in Out /\ Parcel(Sent(Executor, x))
        /\ \A a \in Actor : a # Executor => Sent(Executor, x)[a] = <<>>
        /\ Sent(Executor, x)[Executor] = <<x>>
    BY <1>5, TopoIs, SentTyped, SendingOff, MainActorsAreActors DEF Sent
  <2>2. /\ Silent \in Out /\ Parcel(Silent) /\ \A a \in Actor : Silent[a] = <<>>
    BY SilentTyped, SendingOff, MainActorsAreActors DEF Silent
  <2> QED BY <2>1, <2>2, TopoIs
<1> HIDE DEF out
<1>7. Takes("init_bench_reply", out)
  BY <1>1, <1>4, <1>6, TopoIs DEF Takes, Handled, Step, Arrives, Receives
<1>8. out \in Out /\ Arrives(TopoBuilder, out) /\ live' = live /\ timers' = timers
  BY <1>1, <1>7 DEF Takes
<1>9. Unready' = Unready
  BY <1>1, SameMissing
<1>10. Missing' = Missing - 1 /\ Asked' = Asked
  <2>1. /\ Count(mbox'[TopoBuilder], "init_bench_reply")
             = Count(mbox[TopoBuilder], "init_bench_reply") - 1
        /\ Asked' = Asked
    BY <1>7, TakesStep DEF Asked
  <2> QED BY <1>9, <2>1, MissingTyped DEF Missing
<1>11. counter_' = IF Missing' = 0 THEN PipelineActors ELSE Missing'
  BY <1>1, <1>2, <1>10 DEF RepliesLeft
<1>12. \A a \in ChainActor : mbox'[a] = mbox[a]
  <2> TAKE a \in ChainActor
  <2>1. a \in Builder /\ a # TopoBuilder /\ out[a] = <<>> /\ (a \in live' <=> a \in live)
    BY <1>6, <1>8, TopoIs
  <2> QED BY <1>8, <2>1, SameBox
<1>13. mbox'[Executor] = out[Executor]
  <2>1. mbox[Executor] = <<>>
    BY <1>2 DEF AtInit
  <2>2. Executor \in live'
    BY <1>8, TopoIs
  <2> QED BY <1>8, <2>1, <2>2, TopoIs, BoxStep DEF Typed
<1>14. Known'
  BY <1>1 DEF Known, HeadOf, Previous, Following
<1>15. Stage'
  <2>1. CASE counter_ = 1
    <3>1. mbox'[Executor] = <<x>> /\ Missing' = 0
      BY <1>2, <1>6, <1>10, <1>13, <2>1
    <3>2. AtAnnounce'
      BY <1>1, <1>2, <1>10, <3>1 DEF AtInit, AtAnnounce, HeadOf, x
    <3> QED BY <3>2 DEF Stage
  <2>2. CASE counter_ # 1
    <3>1. mbox'[Executor] = <<>> /\ Missing' > 0
      BY <1>2, <1>6, <1>10, <1>13, <2>2
    <3>2. AtInit'
      BY <1>1, <1>2, <1>10, <3>1 DEF AtInit
    <3> QED BY <3>2 DEF Stage
  <2> QED BY <2>1, <2>2
<1>16. Building'
  <2>1. \A m \in Contents(TopoBuilder)' :
          /\ m.type \in BuilderTypes
          /\ m.type = "init_bench_reply" => m.head = HeadOf(chains_built)'
    BY <1>1, <1>7, TakesStep DEF Building, BuilderTypes, HeadOf
  <2>2. Count(mbox'[TopoBuilder], "init") =
          IF main_pc' >= 1 /\ TopoBuilder \notin configured' THEN 1 ELSE 0
    BY <1>1, <1>7, TakesStep DEF Building
  <2>3. \A a \in ChainActor :
          /\ a \in live' <=> a[1] <= chains_built'
          /\ mbox'[a] = IF a \in live' \ configured' THEN <<Request(a)>> ELSE <<>>
          /\ a[1] < chains_built' => a \in configured'
    BY <1>1, <1>12 DEF Building, Spawned
  <2>4. TopoBuilder \in configured' /\ topo_executor_' = Executor
    BY <1>1, <1>2
  <2> QED BY <1>1, <1>11, <2>1, <2>2, <2>3, <2>4
          DEF Building, BuilderTypes, Spawned, Request, Previous, Following
<1> QED BY <1>14, <1>15, <1>16 DEF OneChainAtATime

\* The steps of the topology builder.
LEMMA TopoBuilds ==
  ASSUME Typed, Startup, Order, OneChainAtATime, TopoMoves
  PROVE  OneChainAtATime' /\ (Started => Started')
<1>1. CASE Started
  BY <1>1, TopoRuns DEF OneChainAtATime
<1>2. CASE ~ Started
  <2>1. Known /\ Building /\ Stage
    BY <1>2 DEF OneChainAtATime
  <2>2. ~ TopoKill
    <3>1. ASSUME TopoKill PROVE FALSE
      <4>1. Receives(TopoBuilder, "topo_kill")
        BY <3>1 DEF TopoKill
      <4>2. Head(mbox[TopoBuilder]) \in Contents(TopoBuilder)
        BY <2>1, <4>1, TopoIs, FirstIsContent DEF Receives, Typed
      <4> QED BY <2>1, <4>1, <4>2 DEF Building, Receives, BuilderTypes
    <3> QED BY <3>1
  <2> QED BY <1>2, <2>1, <2>2, InitTopoBuilds, InitDetachedReplyBuilds, MakeLinearChainBuilds,
             InitBenchReplyBuilds DEF TopoMoves, TopoStep
<1> QED BY <1>1, <1>2

-----------------------------------------------------------------------------
\* The actors of the chains.

\* An actor of the newest chain is initialised, and replies.
LEMMA InitBenchBuilds ==
  ASSUME Typed, Known, Building, Stage, NEW a \in ChainActor, ChainMoves(a), InitBench(a)
  PROVE  OneChainAtATime'
<1> DEFINE x == [type |-> "init_bench_reply", head |-> HeadOf(a[1])]
           out == Sent(TopoBuilder, x)
           request == Head(mbox[a])
<1>1. /\ Receives(a, "init_bench") /\ Handled(a, out) /\ configured' = configured \cup {a}
      /\ prev_' = [prev_ EXCEPT ![a] = request.prev]
      /\ next_' = [next_ EXCEPT ![a] = request.next]
      /\ executor_' = [executor_ EXCEPT ![a] = request.executor]
      /\ UNCHANGED <<rg_state, main_pc, heads_, topo_builder_, counter_, topo_executor_,
                     chains_built, live, timers>>
  BY DEF ChainMoves, InitBench, execVars, rgVars, topoVars, Handled, Step
<1>2. a \in live /\ a \notin configured /\ mbox[a] = <<Request(a)>>
  BY <1>1 DEF Receives, Building
<1>3. a[1] = chains_built /\ a \in Unready
  <2>1. a[1] <= chains_built /\ ~ (a[1] < chains_built)
    BY <1>2 DEF Building, Spawned
  <2>2. a[1] = chains_built
    BY <2>1, ConfigAssumption DEF ChainActor, Typed, TopoTyped
  <2> QED BY <1>2, <2>2 DEF Unready, ChainOf
<1>4. request = Request(a)
  BY <1>2
<1>5. /\ prev_ \in [ChainActor -> Handle] /\ next_ \in [ChainActor -> Handle]
      /\ executor_ \in [ChainActor -> Handle]
  BY DEF Typed, BenchTypeOK
<1>6. x \in Message /\ x.type = "init_bench_reply" /\ x.head = HeadOf(chains_built)
  <2>1. HeadOf(a[1]) \in ChainActor
    BY ConfigAssumption DEF HeadOf, ChainActor, is_valid
  <2> QED BY <1>3, <2>1 DEF Message, HeadMsg
<1> HIDE DEF x, request
<1>7. a \in Actor /\ a \in Builder /\ a # TopoBuilder /\ a # Executor
  BY TopoIs
<1>8. Puts(a, TopoBuilder, x, out)
  <2>1. Arrives(a, out)
    BY <1>1 DEF Handled, Step, Arrives, Receives
  <2> QED BY <1>6, <1>7, <2>1, TopoIs, SentPuts
<1> HIDE DEF out
<1>9. Gets(TopoBuilder, x)
  <2>1. TopoBuilder \in live'
    BY <1>1, TopoIs
  <2> QED BY <1>8, <2>1, PutStep
<1>10. \A b \in Builder : b # TopoBuilder /\ b # a => mbox'[b] = mbox[b]
  BY <1>1, <1>8, OtherBoxes
<1>11. mbox'[a] = <<>>
  <2>1. a \in live' /\ SystemTypeOK /\ out \in Out /\ Arrives(a, out) /\ out[a] = <<>>
    BY <1>1, <1>2, <1>7, <1>8 DEF Typed, Puts
  <2>2. mbox'[a] = Tail(mbox[a]) \o <<>>
    BY <1>7, <2>1, BoxStep
  <2>3. mbox[a] \in Seq(Message)
    BY <1>7, <2>1 DEF SystemTypeOK
  <2>4. Request(a) \in Message
    BY <1>2, <2>3
  <2> QED BY <1>2, <2>2, <2>4, OneMessage
<1>12. Missing' = Missing /\ Missing > 0 /\ Asked' = Asked
  <2>1. Unready' = Unready \ {a}
    BY <1>1 DEF Unready
  <2>2. Cardinality(Unready \ {a}) = Cardinality(Unready) - 1 /\ Cardinality(Unready) > 0
    <3>1. IsFiniteSet(Unready) /\ Cardinality(Unready) \in Nat
      BY MissingTyped
    <3>2. Cardinality(Unready \ {a}) = Cardinality(Unready) - 1
      BY <1>3, <3>1, FS_RemoveElement
    <3>3. IsFiniteSet(Unready \ {a})
      BY <3>1, FS_Subset
    <3>4. Cardinality(Unready \ {a}) \in Nat
      BY <3>3, FS_CardinalityType
    <3> QED BY <3>1, <3>2, <3>4
  <2>3. /\ Count(mbox'[TopoBuilder], "init_bench_reply")
             = Count(mbox[TopoBuilder], "init_bench_reply") + 1
        /\ Count(mbox'[TopoBuilder], "make_linear_chain")
             = Count(mbox[TopoBuilder], "make_linear_chain")
    BY <1>6, <1>9 DEF Gets
  <2> QED BY <2>1, <2>2, <2>3, MissingTyped DEF Missing, Asked
<1>13. AtInit
  BY <1>12 DEF Stage, BeforeMain, AtSysconfig, AtMake, AtInit, AtAnnounce, AtStart
<1>14. AtInit'
  <2>1. mbox'[Executor] = mbox[Executor]
    BY <1>7, <1>10, TopoIs
  <2> QED BY <1>1, <1>12, <1>13, <2>1 DEF AtInit
<1>15. Known'
  <2>1. \A i \in 1 .. Len(heads_)' : heads_'[i] = HeadOf(i)
    BY <1>1 DEF Known
  <2>2. \A b \in ChainActor : b[1] <= Len(heads_)' => b \in configured'
    BY <1>1 DEF Known
  <2>3. \A b \in ChainActor : b \in live' \cap configured' =>
          prev_'[b] = Previous(b) /\ next_'[b] = Following(b) /\ executor_'[b] = Executor
    <3> TAKE b \in ChainActor
    <3>1. CASE b = a
      <4>1. prev_'[b] = request.prev /\ next_'[b] = request.next
            /\ executor_'[b] = request.executor
        BY <1>1, <1>5, <3>1
      <4> QED BY <1>4, <3>1, <4>1 DEF Request
    <3>2. CASE b # a
      <4>1. prev_'[b] = prev_[b] /\ next_'[b] = next_[b] /\ executor_'[b] = executor_[b]
        BY <1>1, <1>5, <3>2
      <4> QED BY <1>1, <3>2, <4>1 DEF Known
    <3> QED BY <3>1, <3>2
  <2> QED BY <2>1, <2>2, <2>3 DEF Known, HeadOf, Previous, Following
<1>16. Building'
  <2>1. \A m \in Contents(TopoBuilder)' :
          /\ m.type \in BuilderTypes
          /\ m.type = "init_bench_reply" => m.head = HeadOf(chains_built)'
    BY <1>1, <1>6, <1>9 DEF Gets, Building, BuilderTypes, HeadOf
  <2>2. /\ TopoBuilder \in configured' <=> TopoBuilder \in configured
        /\ Executor \in configured' <=> Executor \in configured
    BY <1>1, <1>7
  <2>3. Count(mbox'[TopoBuilder], "init") =
          IF main_pc' >= 1 /\ TopoBuilder \notin configured' THEN 1 ELSE 0
    BY <1>1, <1>6, <1>9, <2>2 DEF Gets, Building
  <2>4. \A b \in ChainActor :
          /\ b \in live' <=> b[1] <= chains_built'
          /\ mbox'[b] = IF b \in live' \ configured' THEN <<Request(b)>> ELSE <<>>
          /\ b[1] < chains_built' => b \in configured'
    <3> TAKE b \in ChainActor
    <3>1. CASE b = a
      BY <1>1, <1>2, <1>11, <3>1 DEF Building, Spawned
    <3>2. CASE b # a
      <4>1. mbox'[b] = mbox[b]
        BY <1>10, <3>2, TopoIs
      <4> QED BY <1>1, <3>2, <4>1 DEF Building, Spawned
    <3> QED BY <3>1, <3>2
  <2> QED BY <1>1, <1>12, <2>1, <2>2, <2>3, <2>4
          DEF Building, BuilderTypes, Spawned, Request, Previous, Following
<1> QED BY <1>14, <1>15, <1>16 DEF OneChainAtATime, Stage

\* The steps of an actor of a chain: before the start it can only be
\* initialised.
LEMMA ChainBuilds ==
  ASSUME Typed, OneChainAtATime, NEW a \in ChainActor, ChainMoves(a)
  PROVE  OneChainAtATime' /\ (Started => Started')
<1>1. CASE Started
  BY <1>1, ChainRuns DEF OneChainAtATime
<1>2. CASE ~ Started
  <2>1. Known /\ Building /\ Stage
    BY <1>2 DEF OneChainAtATime
  <2>2. \A t : Receives(a, t) => t = "init_bench"
    <3>1. Head(<<Request(a)>>).type = "init_bench"
      BY DEF Request
    <3> QED BY <2>1, <3>1 DEF Building, Receives
  <2>3. InitBench(a)
    BY <2>2 DEF ChainMoves, ChainActorStep, Weightless, WeightlessBack, TimedMsg, TimedMsgBack,
       Kill
  <2> QED BY <1>2, <2>1, <2>3, InitBenchBuilds
<1> QED BY <1>1, <1>2

-----------------------------------------------------------------------------
\* The invariant and the theorems.

\* At the beginning nothing has been sent.
LEMMA InitBuilt == Init => OneChainAtATime
<1> SUFFICES ASSUME Init PROVE OneChainAtATime
  OBVIOUS
<1>1. /\ mbox = [a \in Actor |-> <<>>] /\ live = MainActor /\ timers = {} /\ configured = {}
      /\ main_pc = 0 /\ chains_built = 0 /\ heads_ = <<>> /\ rg_state = "absent"
  BY DEF Init, SystemInit, ExecInitState, TopoInit, RgInit
<1>2. /\ \A a \in Builder : mbox[a] = <<>>
      /\ Executor \in Builder /\ TopoBuilder \in Builder /\ ChainActor \subseteq Builder
      /\ \A a \in ChainActor : a \notin MainActor
  BY <1>1, BuildersAreActors, ActorKinds DEF Builder
<1>3. \A a \in ChainActor : a[1] \in Nat \ {0}
  BY ConfigAssumption DEF ChainActor
<1>4. \A t : Count(mbox[TopoBuilder], t) = 0
  BY <1>2, CountEmpty
<1>5. Unready = {}
  BY <1>1, <1>3 DEF Unready, ChainOf
<1>6. Missing = 0 /\ Asked = 0
  BY <1>4, <1>5, FS_EmptySet DEF Missing, Asked
<1>7. Known
  BY <1>1, <1>3 DEF Known
<1>8. Contents(TopoBuilder) = {}
  BY <1>2 DEF Contents, ToSet
<1>9. Building
  BY <1>1, <1>2, <1>3, <1>4, <1>6, <1>8 DEF Building, Spawned
<1>10. BeforeMain
  BY <1>1, <1>2, <1>6 DEF BeforeMain
<1> QED BY <1>7, <1>9, <1>10 DEF OneChainAtATime, Stage

\* Every step keeps the invariant, and what has started stays so.
LEMMA NextBuilt ==
  Typed /\ Startup /\ Order /\ OneChainAtATime /\ [Next]_vars
    => OneChainAtATime' /\ (Started => Started')
<1> SUFFICES ASSUME Typed, Startup, Order, OneChainAtATime, [Next]_vars
             PROVE  OneChainAtATime' /\ (Started => Started')
  OBVIOUS
<1>1. CASE UNCHANGED worldVars
  BY <1>1, StillBuilt DEF worldVars, systemVars, topoVars, benchVars, execVars, rgVars
<1> QED
  BY <1>1, MainBuilds, ExecutorBuilds, RgBuilds, ChainBuilds, PoolBuilds, TopoBuilds,
     CollectorBuilds, ClockBuilds DEF Next, TimePasses, Terminated, vars

\* The invariant holds always.
LEMMA AlwaysBuilt == Spec => [](Typed /\ OneChainAtATime)
<1>1. Init => Order /\ OneChainAtATime
  BY InitOrder, InitBuilt
<1>2. Typed /\ Startup /\ Order /\ OneChainAtATime /\ [Next]_vars
        => Order' /\ OneChainAtATime'
  BY NextOrder, NextBuilt
<1> QED BY <1>1, <1>2, AlwaysStarted, PTL DEF Spec

(***************************************************************************)
(* For every number and length of chains and every interleaving: the       *)
(* executor never asks for more chains than chains_number_, and no chain   *)
(* is announced to it twice.                                               *)
(***************************************************************************)
THEOREM ChainsBuiltOnce == Spec => []EachChainOnce
<1>1. ASSUME Typed, OneChainAtATime PROVE EachChainOnce
  <2>1. \A i, j \in 1 .. Len(heads_) : heads_[i] = heads_[j] => i = j
    BY <1>1 DEF OneChainAtATime, Known, HeadOf
  <2>2. ASSUME NEW m \in Contents(TopoBuilder), m.type = "make_linear_chain"
        PROVE  chains_built < ChainsNumber
    <3>1. ~ Started
      BY <2>2 DEF Started, Builder, BuildType
    <3>2. Asked # 0
      <4>1. mbox[TopoBuilder] \in Seq(Message)
        BY <1>1, MainActorsAreActors DEF Typed, SystemTypeOK
      <4>2. \E i \in DOMAIN mbox[TopoBuilder] :
              mbox[TopoBuilder][i].type = "make_linear_chain"
        BY <2>2 DEF Contents, ToSet
      <4> QED BY <4>1, <4>2, CountTyped DEF Asked
    <3> QED BY <1>1, <3>1, <3>2 DEF OneChainAtATime, Stage, BeforeMain, AtSysconfig, AtMake,
               AtInit, AtAnnounce, AtStart
  <2> QED BY <2>1, <2>2 DEF EachChainOnce, Has
<1> QED BY <1>1, AlwaysBuilt, PTL

(***************************************************************************)
(* For every number and length of chains and every interleaving: when a    *)
(* chain is announced, each of its actors has been initialised with the    *)
(* handles of its neighbours and of the executor, and keeps them while it  *)
(* lives.                                                                  *)
(***************************************************************************)
THEOREM AnnouncedReady == Spec => []AnnouncedChainsReady
<1>1. ASSUME Typed, OneChainAtATime PROVE AnnouncedChainsReady
  <2>1. ASSUME NEW h \in Announced PROVE \A a \in ChainOf(h[1]) : a \in configured
    <3>1. CASE \E i \in 1 .. Len(heads_) : h = heads_[i]
      <4>1. PICK i \in 1 .. Len(heads_) : h = heads_[i]
        BY <3>1
      <4>2. h[1] = i
        BY <1>1, <4>1 DEF OneChainAtATime, Known, HeadOf
      <4> QED BY <1>1, <4>1, <4>2 DEF OneChainAtATime, Known, ChainOf
    <3>2. CASE \E m \in Contents(Executor) : m.type = "system_building" /\ h = m.head
      <4>1. PICK m \in Contents(Executor) : m.type = "system_building" /\ h = m.head
        BY <3>2
      <4>2. Building /\ Stage
        BY <1>1, <4>1 DEF OneChainAtATime, Started, Builder, BuildType
      <4>3. AtAnnounce
        <5>1. \A x, y : ToSet(<<>>) = {} /\ ToSet(<<x>>) = {x} /\ ToSet(<<x, y>>) = {x, y}
          <6>1. \A x, y : /\ DOMAIN <<>> = {} /\ DOMAIN <<x>> = {1} /\ DOMAIN <<x, y>> = {1, 2}
                          /\ <<x>>[1] = x /\ <<x, y>>[1] = x /\ <<x, y>>[2] = y
            OBVIOUS
          <6> QED BY <6>1 DEF ToSet
        <5>2. \A s : Signal(s).type = s
          BY DEF Signal
        <5>3. m \in ToSet(mbox[Executor])
          BY <4>1 DEF Contents
        <5>4. /\ mbox[Executor] # <<>>
              /\ \A s : s # "system_building" => mbox[Executor] # <<Signal(s)>>
              /\ mbox[Executor] # <<Signal("exec_init"), Signal("sysconfig")>>
          <6>1. mbox[Executor] # <<>>
            BY <5>1, <5>3
          <6>2. ASSUME NEW s, s # "system_building", mbox[Executor] = <<Signal(s)>>
                PROVE  FALSE
            <7>1. m = Signal(s)
              BY <5>1, <5>3, <6>2
            <7> QED BY <4>1, <5>2, <6>2, <7>1
          <6>3. ASSUME mbox[Executor] = <<Signal("exec_init"), Signal("sysconfig")>>
                PROVE  FALSE
            <7>1. m = Signal("exec_init") \/ m = Signal("sysconfig")
              BY <5>1, <5>3, <6>3
            <7> QED BY <4>1, <5>2, <7>1
          <6> QED BY <6>1, <6>2, <6>3
        <5> QED BY <4>2, <5>4 DEF Stage, BeforeMain, AtSysconfig, AtMake, AtInit, AtStart,
                   BenchmarkSignal
      <4>4. h[1] = chains_built
        <5>1. m = [type |-> "system_building", head |-> HeadOf(chains_built)]
          BY <4>1, <4>3 DEF AtAnnounce, Contents, ToSet
        <5> QED BY <4>1, <5>1 DEF HeadOf
      <4>5. \A a \in ChainOf(chains_built) : a \in ChainActor /\ a[1] = chains_built
        BY DEF ChainOf
      <4>6. chains_built <= chains_built
        BY <1>1 DEF Typed, TopoTyped
      <4> QED BY <1>1, <4>2, <4>3, <4>4, <4>5, <4>6, AllReady DEF AtAnnounce
    <3> QED BY <2>1, <3>1, <3>2 DEF Announced
  <2>2. \A h : \A a \in ChainOf(h[1]) : a \in ChainActor
    BY DEF ChainOf
  <2> QED BY <1>1, <2>1, <2>2 DEF AnnouncedChainsReady, OneChainAtATime, Known
<1> QED BY <1>1, AlwaysBuilt, PTL

=============================================================================
