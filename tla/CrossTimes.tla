----------------------------- MODULE CrossTimes -----------------------------
(***************************************************************************)
(* Cross times: the hops a message collects on its route (cross_times.hh,  *)
(* cross_times_hops.hh, benchmark_actor.cpp), their sum and mean           *)
(* (cross_times.cpp, average_value), and how the executor splits the mean  *)
(* into parts (analyze_cross_times of executor_actor.cpp).  Messages do    *)
(* not influence each other's hops, so one at a time is on its way.        *)
(***************************************************************************)
EXTENDS Integers, Sequences, FiniteSetsExt

CONSTANTS
  PipelineActors,  \* general_.pipeline_actors_
  Delays,          \* the times a message may take from one actor to the next
  Work,            \* payload_.actor_computing_time_ where it is not 0
  Micro,           \* ticks of the clock in a microsecond
  MaxSamples       \* bound: the number of messages

ASSUME CrossTimesAssumption ==
  /\ PipelineActors \in Nat /\ PipelineActors > 1
  /\ Delays \subseteq Nat
  /\ Work \in Nat
  /\ Micro \in Nat \ {0}
  /\ MaxSamples \in Nat

VARIABLES
  config,   \* the options of this run of the program
  message,  \* the message on its way: its hops and where it goes next
  sum,      \* sum_ of ct_overall_net_latency_: hops
  num,      \* num_samples_ of ct_overall_net_latency_
  thrown,   \* operator+= has thrown
  samples   \* history: the hops of the messages measured

vars == <<config, message, sum, num, thrown, samples>>

Actors == 0 .. PipelineActors - 1

(***************************************************************************)
(* The actor detached (PipelineActors: none), the route, and whether the   *)
(* actors work on a complex message.                                       *)
(***************************************************************************)
Config == [detached : 0 .. PipelineActors, forth_and_back : BOOLEAN,
           computing : BOOLEAN]

\* The name of an actor of the chain, prefixed where it is detached.
Name(a) == <<IF a = config.detached THEN "DET_ba" ELSE "ba", a>>

Names == {<<"sender", 0>>} \cup ({"DET_ba", "ba"} \X Actors)

\* component_ is always process_atom_, which nothing sets, and is left out.
Hop == [route : {"forth", "back"}, actor : Names, step : {"in", "out"}, tp : Nat]

\* No message is on its way.
Idle == [hops |-> <<>>, route |-> "forth", at |-> -1]

Message == [hops : Seq(Hop), route : {"forth", "back", "done"},
            at : Actors \cup {-1}]

TypeOK ==
  /\ config \in Config
  /\ message \in Message
  /\ sum \in Seq(Hop)
  /\ num \in Nat
  /\ thrown \in BOOLEAN
  /\ samples \in Seq(Seq(Hop))

Init ==
  /\ config \in Config
  /\ message = Idle
  /\ sum = <<>>
  /\ num = 0
  /\ thrown = FALSE
  /\ samples = <<>>

-----------------------------------------------------------------------------
LastTime(hops) == hops[Len(hops)].tp

(***************************************************************************)
(* cross_times::add and append_hop, at the time t.  For the first hop of a *)
(* message append_hop compares hops_.back() of the empty vector (see       *)
(* RgFirstHop of RateGenerator).  These are the runs in which the read     *)
(* gives a value: only origin_ts_ depends on it, which is left out, since  *)
(* there is no hop whose time it could move.                               *)
(***************************************************************************)
Add(hops, r, name, s, t) ==
  Append(hops, [route |-> r, actor |-> name, step |-> s, tp |-> t])

\* Mutant: the cross times of the last message are used again.
Fresh_Reused == IF samples = <<>> THEN <<>> ELSE samples[Len(samples)]

\* The rate generator constructs the cross times for every message.
Fresh == <<>>

\* The rate generator sends a message, some time after the one before.
NewMessage ==
  /\ message = Idle
  /\ ~ thrown
  /\ Len(samples) < MaxSamples
  /\ message' = [hops |-> Add(Fresh, "forth", <<"sender", 0>>, "in",
                              10 * (Len(samples) + 1)),
                 route |-> "forth", at |-> 0]
  /\ UNCHANGED <<config, sum, num, thrown, samples>>

\* The hops after the actor a got the message d ticks after the last hop: it
\* leaves a hop, and another one after its work.
Crossed(m, a, d) ==
  LET t == LastTime(m.hops) + d
      enters == Add(m.hops, m.route, Name(a), "in", t)
  IN IF config.computing THEN Add(enters, m.route, Name(a), "out", t + Work)
                         ELSE enters

\* Mutant: the tail sends the message on as on the forth route.
Turned_Past(a) == [route |-> "back", at |-> a + 1]

\* Where the tail a sends the message on the forth-and-back route.
Turned(a) == [route |-> "back", at |-> a - 1]

\* Where the message goes from the actor m.at.
Onward(m) ==
  IF m.route = "forth" /\ m.at < PipelineActors - 1
  THEN [route |-> "forth", at |-> m.at + 1]
  ELSE IF m.route = "forth" /\ config.forth_and_back THEN Turned(m.at)
  ELSE IF m.route = "back" /\ m.at > 0 THEN [route |-> "back", at |-> m.at - 1]
  ELSE [route |-> "done", at |-> -1]

\* send_timed_msg and send_timed_back_msg of a benchmark actor.
Cross ==
  /\ message.at \in Actors
  /\ \E d \in Delays :
       message' = [hops  |-> Crossed(message, message.at, d),
                   route |-> Onward(message).route, at |-> Onward(message).at]
  /\ UNCHANGED <<config, sum, num, thrown, samples>>

-----------------------------------------------------------------------------
\* operator== of hops: all but the time.
SameHop(h, g) == h.route = g.route /\ h.actor = g.actor /\ h.step = g.step

\* The two checks of operator+=.
Comparable(x, y) ==
  Len(x) = Len(y) /\ \A i \in DOMAIN x : SameHop(x[i], y[i])

\* Mutant: the durations of y are taken from the epoch.
Plus_Absolute(x, y) ==
  LET z == IF x = <<>> THEN y ELSE x IN
  [i \in DOMAIN z |-> IF i = 1 THEN z[1] ELSE [z[i] EXCEPT !.tp = @ + y[i].tp]]

(***************************************************************************)
(* x += y for comparable x and y.  An empty x becomes y, and y is added to *)
(* it then too.                                                            *)
(***************************************************************************)
Plus(x, y) ==
  LET z == IF x = <<>> THEN y ELSE x IN
  [i \in DOMAIN z |-> IF i = 1 THEN z[1]
                      ELSE [z[i] EXCEPT !.tp = @ + y[i].tp - y[1].tp]]

\* parallel_a: average_value<cross_times>::tick.
Parallel ==
  /\ message.route = "done"
  /\ LET y == message.hops IN
       \/ /\ sum = <<>> \/ Comparable(sum, y)
          /\ sum' = Plus(sum, y)
          /\ num' = num + 1
          /\ samples' = Append(samples, y)
          /\ UNCHANGED thrown
       \/ /\ sum # <<>> /\ ~ Comparable(sum, y)
          /\ thrown' = TRUE
          /\ UNCHANGED <<sum, num, samples>>
  /\ message' = Idle
  /\ UNCHANGED config

\* All messages are measured.
Finished ==
  /\ message = Idle
  /\ Len(samples) = MaxSamples
  /\ UNCHANGED vars

Next == NewMessage \/ Cross \/ Parallel \/ Finished
Spec == Init /\ [][Next]_vars

-----------------------------------------------------------------------------
(* The numbers the executor reports.                                       *)

\* Mutant: the time point is divided, not the time since the first hop.
Divided_Absolute(x, n) ==
  [i \in DOMAIN x |-> IF i = 1 THEN x[1] ELSE [x[i] EXCEPT !.tp = @ \div n]]

\* operator/=.
Divided(x, n) ==
  [i \in DOMAIN x |->
     [x[i] EXCEPT !.tp = x[1].tp + ((@ - x[1].tp) \div n)]]

\* average_value<cross_times>::operator().
Mean == IF num = 0 THEN <<>> ELSE Divided(sum, num)

\* cross_times::latency().
Latency(x) == IF Len(x) < 2 THEN 0 ELSE LastTime(x) - x[1].tp

\* duration_cast to microseconds drops the fraction.
Micros(t) == t \div Micro

\* Mutant: the time since the first hop.
Duration_FromFirst(x, h) == Micros(x[h].tp - x[1].tp)

\* The time hop h took, in whole microseconds.
Duration(x, h) == Micros(x[h].tp - x[h - 1].tp)

IsDetached(x, h) == x[h].actor[1] = "DET_ba"

\* Mutant: the hop before is not remembered.
Part_NoPrevious(x, h) ==
  CASE IsDetached(x, h) /\ x[h].step = "in" -> "detached_receive"
    [] ~ (IsDetached(x, h) /\ x[h].step = "in") /\ h = 2 -> "first"
    [] h > 2 /\ x[h].step = "out" -> "computation"
    [] OTHER -> "passing"

\* The part analyze_cross_times counts hop h towards, by the first condition
\* that holds; is_detached is false before the first hop it looks at.
Part(x, h) ==
  IF IsDetached(x, h) /\ x[h].step = "in" THEN "detached_receive"
  ELSE IF h > 2 /\ IsDetached(x, h - 1) /\ x[h].step = "in" THEN "detached_send"
  ELSE IF h = 2 THEN "first"
  ELSE IF x[h].step = "out" THEN "computation"
  ELSE "passing"

Parts == {"detached_receive", "detached_send", "first", "computation", "passing"}
HopsOf(x, p) == {h \in 2 .. Len(x) : Part(x, h) = p}

\* average_value of the durations of a part; no hop, no time.
PartOf(x, p) ==
  IF HopsOf(x, p) = {} THEN 0
  ELSE MapThenSumSet(LAMBDA h : Duration(x, h), HopsOf(x, p))
         \div Cardinality(HopsOf(x, p))

\* analyze_cross_times.
Analysis(x) == [p \in Parts |-> PartOf(x, p)]

-----------------------------------------------------------------------------
\* Every message leaves the same hops, so that operator+= does not throw in a
\* function that is noexcept.
NeverThrows == ~ thrown

\* The stations of the route, in order: the chain, and back to the head.
Stations ==
  [i \in 1 .. PipelineActors |-> i - 1]
    \o (IF config.forth_and_back
        THEN [i \in 1 .. PipelineActors - 1 |-> PipelineActors - 1 - i]
        ELSE <<>>)

\* What the way to station k is, as the columns of the result name it.
WayTo(k) ==
  IF Stations[k] = config.detached THEN "detached_receive"
  ELSE IF k = 1 THEN "first"
  ELSE IF Stations[k - 1] = config.detached THEN "detached_send"
  ELSE "passing"

(***************************************************************************)
(* Telling hops apart by pairs of names and steps, analyze_cross_times     *)
(* finds the parts of the route: the ways into and out of the detached     *)
(* actor on both routes, the way from the rate generator to the head, the  *)
(* work of every actor, and all other ways.                                *)
(***************************************************************************)
PartsFollowRoute ==
  num > 0 =>
    /\ Len(Mean) = 1 + Len(Stations) * (IF config.computing THEN 2 ELSE 1)
    /\ \A h \in 2 .. Len(Mean) :
         Part(Mean, h) =
           IF ~ config.computing THEN WayTo(h - 1)
           ELSE IF h % 2 = 0 THEN WayTo(h \div 2) ELSE "computation"

(***************************************************************************)
(* The parts add up to the latency: what truncation loses, in the time of  *)
(* a hop and in the average of a part, is less than two microseconds for   *)
(* every hop.                                                              *)
(***************************************************************************)
PartsAddUp ==
  LET whole == MapThenSumSet(
                 LAMBDA p : Analysis(Mean)[p] * Cardinality(HopsOf(Mean, p)), Parts)
  IN num > 0 =>
       /\ whole <= Micros(Latency(Mean))
       /\ Micros(Latency(Mean)) < whole + 2 * Len(Mean)

(***************************************************************************)
(* Summing and dividing keeps the hops in order and the first one in its   *)
(* place: no negative duration reaches the unsigned columns of the result. *)
(***************************************************************************)
MeanInOrder ==
  num > 0 =>
    /\ Mean[1] = samples[1][1]
    /\ \A h \in 2 .. Len(Mean) : Mean[h].tp >= Mean[h - 1].tp

\* The time from the first hop to hop h, in all samples together.
Total(h) ==
  MapThenSumSet(LAMBDA k : samples[k][h].tp - samples[k][1].tp, 1 .. num)

(***************************************************************************)
(* The mean is never below the mean of the samples, and above it by no     *)
(* more than the share of one sample, the first, which fades as samples    *)
(* come in.                                                                *)
(***************************************************************************)
MeanApproached ==
  \A h \in DOMAIN Mean :
    LET t == Mean[h].tp - Mean[1].tp IN
      /\ t >= Total(h) \div num
      /\ t <= (Total(h) + samples[1][h].tp - samples[1][1].tp) \div num

\* What average_value promises: the average of the values ticked.
MeanOfSamples ==
  \A h \in DOMAIN Mean : Mean[h].tp - Mean[1].tp = Total(h) \div num
=============================================================================
