---------------------- MODULE LatencyBenchmarkProperties ----------------------
(***************************************************************************)
(* What makes the program correct, as invariants, action properties and    *)
(* liveness properties of LatencyBenchmark.                                *)
(***************************************************************************)
EXTENDS LatencyBenchmark, SequencesExt

\* Every variable of the program has its type.
TypeOK ==
  /\ SystemTypeOK
  /\ ExecTypeOK
  /\ ClockTypeOK
  /\ RgTypeOK
  /\ BenchTypeOK
  /\ TopoTypeOK
  /\ CollectorTypeOK
  /\ main_pc \in 0 .. Len(MainSends)

-----------------------------------------------------------------------------
Contents(a) == ToSet(mbox[a])
Has(a, t) == \E m \in Contents(a) : m.type = t
Probes(a) == {m \in Contents(a) : m.type \in ProbeType}
Spawned(a) == a[1] <= chains_built

(***************************************************************************)
(* No handler divides by zero, subscripts its handles in vain or throws    *)
(* out of a noexcept function: serial_kill_a finds a measurement started   *)
(* and a whole second on total_latency_, the rate generator and serial_a   *)
(* find a head, and cross_times::operator+= finds as many hops in every    *)
(* measurement.  The one read of an empty vector, that of the first hop    *)
(* (RgFirstHop), is not among them: this is about the runs it lets go on.  *)
(***************************************************************************)
NoCrash == process # "crashed"

(***************************************************************************)
(* Whatever the interleaving of main(), the executor and the topology      *)
(* builder, an actor gets the message that initialises it before any       *)
(* other: nothing is handled with empty handles, counter_ = 0 or an        *)
(* unwritten header.                                                       *)
(***************************************************************************)
Initialiser(a) ==
  IF a = Executor THEN "exec_init"
  ELSE IF a = TopoBuilder THEN "init"
  ELSE IF a = Collector THEN "rc_init"
  ELSE IF a \in ChainActor THEN "init_bench"
  ELSE "init_detached"

InitialisedFirst ==
  \A a \in live \ configured :
    mbox[a] # <<>> => Head(mbox[a]).type = Initialiser(a)

(***************************************************************************)
(* system_building_a announces a chain only when every actor of it has     *)
(* been initialised, and linked to its neighbours: the count of replies    *)
(* starts afresh for every chain.                                          *)
(***************************************************************************)
Announced ==
  {heads_[i] : i \in 1 .. Len(heads_)}
    \cup {m.head : m \in {x \in Contents(Executor) : x.type = "system_building"}}

AnnouncedChainsReady ==
  \A h \in Announced : \A a \in ChainOf(h[1]) :
    /\ a \in configured
    /\ a \in live => /\ prev_[a] = Previous(a)
                     /\ next_[a] = Following(a)
                     /\ executor_[a] = Executor

(***************************************************************************)
(* The executor asks for no more chains than chains_number_, and each of   *)
(* them is announced once.                                                 *)
(***************************************************************************)
EachChainOnce ==
  /\ Has(TopoBuilder, "make_linear_chain") => chains_built < ChainsNumber
  /\ \A i, j \in 1 .. Len(heads_) : heads_[i] = heads_[j] => i = j

(***************************************************************************)
(* A delayed message is never pending twice, on the clock and in the       *)
(* mailbox: the periodic ones do not multiply, and timers may be a set.    *)
(***************************************************************************)
OnePending ==
  \A t \in Timer :
    LET places == {i \in DOMAIN mbox[t.to] : mbox[t.to][i].type = t.type} IN
      Cardinality(places) <= IF t \in timers THEN 0 ELSE 1

-----------------------------------------------------------------------------
SerialType == {"weightless", "weightless_back", "serial"}

SerialPlaces ==
  UNION {{<<a, i>> : i \in {j \in DOMAIN mbox[a] : mbox[a][j].type \in SerialType}}
           : a \in Actor}

(***************************************************************************)
(* The serial benchmark has one message on its way: the actors that read,  *)
(* stop and restart the global chain_latency never do so concurrently.     *)
(***************************************************************************)
OneSerialMessage == \A p, q \in SerialPlaces : p = q

(***************************************************************************)
(* Every measurement the executor takes spans the same links: from the     *)
(* executor or the rate generator over the chain and back to the executor, *)
(* whose reading of the probe takes in the last link too, because stop()   *)
(* leaves a probe that was never stopped running.  The pipeline probe of   *)
(* the parallel benchmark does without the first link.                     *)
(***************************************************************************)
MeasuredLinks ==
  \A m \in Probes(Executor) :
    CASE m.type = "parallel" -> m.hops = Links + 2 /\ ProbeRead(m) = Links + 1
      [] m.type = "serial"   -> rep_counter_ > 0 => ProbeRead(m) = Links + 2
      [] OTHER               -> FALSE

(***************************************************************************)
(* With sending order "Round Robin" the measurements of a chain arrive in  *)
(* the order in which its messages were sent, and only the last ones can   *)
(* be missing: the kill that ends a chain does not let one message through *)
(* and swallow an earlier one, and every chain gets its turn.              *)
(***************************************************************************)
DeliveredInTurn ==
  RoundRobin => \A i \in DOMAIN received :
    LET c == received[i].chain
        before == {j \in 1 .. i - 1 : received[j].chain = c}
    IN  received[i].id = c + Cardinality(before) * ChainsNumber

(***************************************************************************)
(* A chain implements a queue (ChainQueue): of the measurements on their   *)
(* way round it the executor always takes the one that was sent first,     *)
(* although every one of them passes through the mailboxes of all its      *)
(* actors, in both directions, beside the others.  Once the head of a      *)
(* chain has quit, no measurement on the way back can pass it; once the    *)
(* executor has quit, none is ever taken.                                  *)
(***************************************************************************)
Chains == 1 .. ChainsNumber
TimedType == {"timed_msg", "timed_msg_back", "parallel"}

Stops(c) == Spawned(HeadOf(c)) /\ HeadOf(c) \notin live

\* What a holds of the chain c can still get to the executor.
Arriving(c, a) == a = Executor \/ (ForthAndBack => HeadOf(c) \in live)

Measurements(c, a) == {m \in Contents(a) : m.type \in TimedType /\ m.chain = c}

QueueOf(c) ==
  IF Executor \notin live THEN {}
  ELSE {m.id : m \in UNION {Measurements(c, a) : a \in {b \in Actor : Arriving(c, b)}}}

Queues == INSTANCE ChainQueue WITH
  Chain <- Chains,
  sent  <- msg_counter_,
  queue <- [c \in Chains |-> QueueOf(c)],
  open  <- [c \in Chains |-> Executor \in live /\ ~ Stops(c)],
  taken <- received

ChainsAreQueues == Queues!Spec

-----------------------------------------------------------------------------
(***************************************************************************)
(* A chain stops from the head to the tail, and an actor whose predecessor *)
(* has quit has been told to quit: no actor of a chain is left behind.     *)
(***************************************************************************)
StopsInOrder ==
  \A a \in ChainActor : a \notin live /\ Spawned(a) =>
    /\ a[2] > 0 => Previous(a) \notin live
    /\ Following(a) \in live => Has(Following(a), "kill")

(***************************************************************************)
(* The program exits with exactly one result line written; no stop of the  *)
(* benchmark writes a second one.                                          *)
(***************************************************************************)
OneResult ==
  /\ Len(rows) <= 1
  /\ process = "exited" => Len(rows) = 1

\* A result line has the columns of the header line, in their order.
RowMatchesHeader ==
  header # <<>> => \A i \in DOMAIN rows : rows[i] = header

(***************************************************************************)
(* The jobs are spread evenly over the detached pool: the actors of all    *)
(* chains take the next place in it from one global index_, in whatever    *)
(* order they run.                                                         *)
(***************************************************************************)
PoolBalanced == \A p, q \in PoolActor : pool_jobs[p] <= pool_jobs[q] + 1

-----------------------------------------------------------------------------
\* A benchmark with a duration ends, with its result written and the process
\* gone, whatever is still on its way.
Exits == <>(process = "exited")

\* An endless serial benchmark measures forever: its message always comes back.
KeepsMeasuring == []<>(Has(Executor, "serial"))

\* While nobody stops the benchmark, every message of the rate generator is
\* measured.
AllMeasured ==
  \A n \in 1 .. MaxMsgs :
    msg_counter_ >= n ~> \E i \in DOMAIN received : received[i].id = n

-----------------------------------------------------------------------------
(* What the documentation and the comments say, and the code does not do.  *)

\* A probe gives its final value once the measurement is over.
ReportedProbesStopped ==
  \A m \in Probes(Executor) : m.type = "parallel" => m.stop # 0
=============================================================================
