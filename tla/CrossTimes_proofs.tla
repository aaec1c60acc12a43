--------------------------- MODULE CrossTimes_proofs ---------------------------
(***************************************************************************)
(* Every message leaves the same hops on its way, whatever times it takes, *)
(* so that operator+= never throws; their sum and mean keep the order of   *)
(* the hops, and analyze_cross_times finds the parts of the route in them. *)
(* For chains of any length, every detached actor, both routes, and any    *)
(* number of messages.                                                     *)
(*                                                                         *)
(* The properties speak of the sum and the mean only.  The invariant       *)
(* Crossing says what the hops of the message on its way are: after k      *)
(* stations they are the hops 1 .. HopsAfter(k) of the route (Along), in   *)
(* the order of their times, and the message is at station k + 1.          *)
(***************************************************************************)
EXTENDS CrossTimes, Sums

\* With the options c: the number of stations of the route, the actor at
\* station k, and the route on which a message comes to it.
Stops(c) == IF c.forth_and_back THEN 2 * PipelineActors - 1 ELSE PipelineActors
StationAt(k) == IF k <= PipelineActors THEN k - 1 ELSE 2 * PipelineActors - 1 - k
RouteTo(k) == IF k <= PipelineActors THEN "forth" ELSE "back"

\* The hops a message has after k stations, and the station that left hop i.
HopsAfter(c, k) == IF c.computing THEN 2 * k + 1 ELSE k + 1
StationOf(c, i) == IF c.computing THEN i \div 2 ELSE i - 1

\* What hop i of every message is.
HopAt(c, i, h) ==
  IF i = 1 THEN h.route = "forth" /\ h.actor = <<"sender", 0>> /\ h.step = "in"
  ELSE LET a == StationAt(StationOf(c, i)) IN
       /\ h.route = RouteTo(StationOf(c, i))
       /\ h.actor = <<IF a = c.detached THEN "DET_ba" ELSE "ba", a>>
       /\ h.step = IF c.computing /\ i % 2 = 1 THEN "out" ELSE "in"

\* The hops x are the first ones of the route, in the order of their times.
Along(c, x) ==
  /\ x \in Seq(Hop)
  /\ \A i \in 1 .. Len(x) : HopAt(c, i, x[i])
  /\ \A i, j \in 1 .. Len(x) : i <= j => x[i].tp <= x[j].tp

Whole(c, x) == Along(c, x) /\ Len(x) = HopsAfter(c, Stops(c))

\* A message that has left k stations behind.
Left(k) ==
  /\ Along(config, message.hops)
  /\ Len(message.hops) = HopsAfter(config, k)
  /\ message.route = IF k = Stops(config) THEN "done" ELSE RouteTo(k + 1)
  /\ message.at = IF k = Stops(config) THEN -1 ELSE StationAt(k + 1)

OnTheRoute == message = Idle \/ \E k \in 0 .. Stops(config) : Left(k)

\* The sum is one of whole messages.
SumOfRoutes ==
  \/ sum = <<>> /\ num = 0 /\ samples = <<>>
  \/ Whole(config, sum) /\ num > 0 /\ samples # <<>> /\ sum[1] = samples[1][1]

Crossing == TypeOK /\ OnTheRoute /\ SumOfRoutes /\ ~ thrown

-----------------------------------------------------------------------------
(***************************************************************************)
(* The hops of one message.                                                *)
(***************************************************************************)

\* The next hop of the route, not earlier than the last one, is added.
LEMMA AddHop ==
  ASSUME NEW c \in Config, NEW x, Along(c, x), x # <<>>,
         NEW h \in Hop, HopAt(c, Len(x) + 1, h), LastTime(x) <= h.tp
  PROVE  /\ Along(c, Append(x, h)) /\ Append(x, h) # <<>>
         /\ Len(Append(x, h)) = Len(x) + 1
         /\ LastTime(Append(x, h)) = h.tp
<1> DEFINE y == Append(x, h)
           n == Len(x)
<1>1. x \in Seq(Hop) /\ n \in Nat \ {0}
  BY DEF Along
<1>2. /\ y \in Seq(Hop) /\ Len(y) = n + 1 /\ y[n + 1] = h
      /\ \A i \in 1 .. n : y[i] = x[i]
  BY <1>1
<1>3. \A i \in 1 .. n + 1 : HopAt(c, i, y[i])
  <2>1. \A i \in 1 .. n : HopAt(c, i, x[i])
    BY DEF Along
  <2> HIDE DEF y
  <2> QED BY <1>1, <1>2, <2>1
<1>4. \A i \in 1 .. n : x[i].tp <= h.tp
  <2> SUFFICES ASSUME NEW i \in 1 .. n PROVE x[i].tp <= h.tp OBVIOUS
  <2>1. x[i].tp <= x[n].tp
    BY <1>1 DEF Along
  <2>2. x[i] \in Hop /\ x[n] \in Hop
    BY <1>1
  <2>3. x[i].tp \in Nat /\ x[n].tp \in Nat /\ h.tp \in Nat
    BY <2>2 DEF Hop
  <2> QED BY <2>1, <2>3 DEF LastTime
<1>5. \A i, j \in 1 .. n + 1 : i <= j => y[i].tp <= y[j].tp
  <2> SUFFICES ASSUME NEW i \in 1 .. n + 1, NEW j \in 1 .. n + 1, i <= j
               PROVE  y[i].tp <= y[j].tp
    OBVIOUS
  <2>1. h.tp \in Nat
    BY DEF Hop
  <2>2. CASE j = n + 1 /\ i = n + 1
    <3> HIDE DEF y
    <3> QED BY <2>1, <2>2, <1>2
  <2>3. CASE j = n + 1 /\ i # n + 1
    <3>1. i \in 1 .. n
      BY <2>3, <1>1
    <3> HIDE DEF y
    <3> QED BY <2>3, <3>1, <1>2, <1>4
  <2>4. CASE j # n + 1
    <3>1. i \in 1 .. n /\ j \in 1 .. n
      BY <2>4, <1>1
    <3>2. x[i].tp <= x[j].tp
      BY <3>1 DEF Along
    <3> HIDE DEF y
    <3> QED BY <3>1, <3>2, <1>2
  <2> QED BY <2>2, <2>3, <2>4
<1>6. y # <<>> /\ LastTime(y) = h.tp
  <2> HIDE DEF y
  <2> QED BY <1>1, <1>2 DEF LastTime
<1> HIDE DEF y
<1>7. Along(c, y)
  BY <1>2, <1>3, <1>5 DEF Along
<1> QED BY <1>2, <1>6, <1>7 DEF y

\* The numbers of the stations and hops.
LEMMA Counting ==
  ASSUME NEW c \in Config
  PROVE  /\ PipelineActors \in Nat /\ PipelineActors > 1
         /\ Stops(c) \in Nat /\ Stops(c) >= PipelineActors
         /\ \A k \in 1 .. Stops(c) : StationAt(k) \in Actors
         /\ \A k \in 1 .. Stops(c) : k > PipelineActors => c.forth_and_back
BY CrossTimesAssumption DEF Stops, StationAt, Actors, Config

\* The hops that station k + 1 leaves.
LEMMA NextHops ==
  ASSUME NEW c \in Config, NEW k \in Nat
  PROVE  /\ HopsAfter(c, k) \in Nat \ {0}
         /\ StationOf(c, HopsAfter(c, k) + 1) = k + 1
         /\ ~ (c.computing /\ (HopsAfter(c, k) + 1) % 2 = 1)
         /\ c.computing => /\ HopsAfter(c, k + 1) = HopsAfter(c, k) + 2
                           /\ StationOf(c, HopsAfter(c, k) + 2) = k + 1
                           /\ (HopsAfter(c, k) + 2) % 2 = 1
         /\ ~ c.computing => HopsAfter(c, k + 1) = HopsAfter(c, k) + 1
<1>1. CASE c.computing
  <2>1. (2 * k + 2) \div 2 = k + 1 /\ (2 * k + 3) \div 2 = k + 1
    BY SMT
  <2>2. (2 * k + 2) % 2 = 0 /\ (2 * k + 3) % 2 = 1
    BY SMT
  <2>3. /\ HopsAfter(c, k) = 2 * k + 1 /\ HopsAfter(c, k + 1) = 2 * k + 3
        /\ HopsAfter(c, k) + 1 = 2 * k + 2 /\ HopsAfter(c, k) + 2 = 2 * k + 3
    BY <1>1 DEF HopsAfter
  <2>4. /\ StationOf(c, 2 * k + 2) = (2 * k + 2) \div 2
        /\ StationOf(c, 2 * k + 3) = (2 * k + 3) \div 2
    BY <1>1 DEF StationOf
  <2> QED BY <1>1, <2>1, <2>2, <2>3, <2>4
<1>2. CASE ~ c.computing
  BY <1>2 DEF HopsAfter, StationOf
<1> QED BY <1>1, <1>2

\* The hop an actor leaves is the one of its station.
LEMMA HopOfStation ==
  ASSUME config \in Config, NEW k \in 0 .. Stops(config) - 1, NEW n \in Nat,
         n > 1, StationOf(config, n) = k + 1, NEW t \in Nat,
         NEW s \in {"in", "out"},
         s = IF config.computing /\ n % 2 = 1 THEN "out" ELSE "in",
         NEW h, h = [route |-> RouteTo(k + 1), actor |-> Name(StationAt(k + 1)),
                     step |-> s, tp |-> t]
  PROVE  h \in Hop /\ HopAt(config, n, h) /\ h.tp = t
<1>1. k + 1 \in 1 .. Stops(config)
  BY Counting
<1>2. StationAt(k + 1) \in Actors
  BY <1>1, Counting
<1>3. Name(StationAt(k + 1)) \in Names
  BY <1>2 DEF Name, Names
<1>4. RouteTo(k + 1) \in {"forth", "back"}
  BY DEF RouteTo
<1>5. h \in Hop /\ h.tp = t
  BY <1>3, <1>4 DEF Hop
<1>6. HopAt(config, n, h)
  BY DEF HopAt, Name
<1> QED BY <1>5, <1>6

\* What station k + 1 adds to the hops.
LEMMA CrossedAlong ==
  ASSUME config \in Config, NEW k \in 0 .. Stops(config) - 1, NEW m,
         Along(config, m.hops), Len(m.hops) = HopsAfter(config, k),
         m.route = RouteTo(k + 1), NEW a, a = StationAt(k + 1), NEW d \in Nat
  PROVE  /\ Along(config, Crossed(m, a, d))
         /\ Len(Crossed(m, a, d)) = HopsAfter(config, k + 1)
<1> DEFINE n == HopsAfter(config, k)
           x == m.hops
           t == LastTime(x) + d
           h == [route |-> m.route, actor |-> Name(a), step |-> "in", tp |-> t]
           y == Append(x, h)
           g == [route |-> m.route, actor |-> Name(a), step |-> "out", tp |-> t + Work]
           z == Append(y, g)
<1>1. k \in Nat /\ n \in Nat \ {0}
  BY Counting, NextHops
<1>2. x \in Seq(Hop) /\ Len(x) = n
  BY DEF Along
<1>3. LastTime(x) \in Nat /\ x # <<>>
  <2>1. x[n] \in Hop
    BY <1>1, <1>2
  <2> HIDE DEF n, x
  <2>2. x[n].tp \in Nat
    BY <2>1 DEF Hop
  <2> QED BY <2>2, <1>1, <1>2 DEF LastTime
<1>4. t \in Nat /\ LastTime(x) <= t /\ Work \in Nat
  BY <1>3, CrossTimesAssumption
<1>5. /\ n + 1 \in Nat /\ n + 1 > 1 /\ StationOf(config, n + 1) = k + 1
      /\ ~ (config.computing /\ (n + 1) % 2 = 1)
  <2>1. /\ StationOf(config, n + 1) = k + 1
        /\ ~ (config.computing /\ (n + 1) % 2 = 1)
    BY <1>1, NextHops
  <2> HIDE DEF n
  <2> QED BY <1>1, <2>1
<1>6. h \in Hop /\ HopAt(config, n + 1, h) /\ h.tp = t
  <2> HIDE DEF n, t
  <2> QED BY <1>4, <1>5, HopOfStation
<1>7. /\ Along(config, y) /\ y # <<>> /\ Len(y) = n + 1 /\ LastTime(y) = t
  <2>1. Along(config, x) /\ HopAt(config, Len(x) + 1, h) /\ LastTime(x) <= h.tp
    BY <1>2, <1>4, <1>6
  <2> HIDE DEF t, h
  <2> QED BY <2>1, <1>2, <1>3, <1>6, AddHop
<1>8. Crossed(m, a, d) = IF config.computing THEN z ELSE y
  BY DEF Crossed, Add
<1>9. CASE config.computing
  <2>1. /\ n + 2 \in Nat /\ n + 2 > 1 /\ StationOf(config, n + 2) = k + 1
        /\ (n + 2) % 2 = 1 /\ HopsAfter(config, k + 1) = n + 2
    <3>1. /\ StationOf(config, n + 2) = k + 1
          /\ (n + 2) % 2 = 1 /\ HopsAfter(config, k + 1) = n + 2
      BY <1>1, <1>9, NextHops
    <3> HIDE DEF n
    <3> QED BY <1>1, <3>1
  <2>2. t + Work \in Nat /\ t <= t + Work
    <3> HIDE DEF t
    <3> QED BY <1>4
  <2>3. g \in Hop /\ HopAt(config, n + 2, g) /\ g.tp = t + Work
    <3> HIDE DEF n, t
    <3> QED BY <1>9, <2>1, <2>2, HopOfStation
  <2>4. Len(y) + 1 = n + 2
    <3> HIDE DEF n, y
    <3> QED BY <1>1, <1>7
  <2>5. Along(config, z) /\ Len(z) = n + 2
    <3>1. HopAt(config, Len(y) + 1, g) /\ LastTime(y) <= g.tp
      BY <2>2, <2>3, <2>4, <1>7
    <3> HIDE DEF n, t, y, g
    <3> QED BY <3>1, <2>3, <2>4, <1>7, AddHop
  <2> HIDE DEF n, z, y
  <2> QED BY <1>8, <1>9, <2>1, <2>5
<1>10. CASE ~ config.computing
  <2>1. HopsAfter(config, k + 1) = n + 1
    BY <1>1, <1>10, NextHops
  <2> HIDE DEF n, z, y
  <2> QED BY <1>7, <1>8, <1>10, <2>1
<1> QED BY <1>9, <1>10

\* Where station k + 1 sends the message on.
LEMMA OnwardIsNext ==
  ASSUME config \in Config, NEW k \in 0 .. Stops(config) - 1, NEW m,
         m.route = RouteTo(k + 1), m.at = StationAt(k + 1)
  PROVE  /\ Onward(m).route = IF k + 1 = Stops(config) THEN "done" ELSE RouteTo(k + 2)
         /\ Onward(m).at = IF k + 1 = Stops(config) THEN -1 ELSE StationAt(k + 2)
<1>1. /\ PipelineActors \in Nat /\ PipelineActors > 1
      /\ Stops(config) \in Nat /\ Stops(config) >= PipelineActors
  BY Counting
<1>2. CASE k + 1 < PipelineActors
  BY <1>1, <1>2 DEF Onward, RouteTo, StationAt
<1>3. CASE k + 1 = PipelineActors
  BY <1>1, <1>3 DEF Onward, RouteTo, StationAt, Turned, Stops
<1>4. CASE k + 1 > PipelineActors
  <2>1. config.forth_and_back /\ Stops(config) = 2 * PipelineActors - 1
    BY <1>1, <1>4 DEF Stops
  <2>2. m.route = "back" /\ m.at = 2 * PipelineActors - 2 - k
    BY <1>1, <1>4 DEF RouteTo, StationAt
  <2>3. CASE k + 1 = Stops(config)
    BY <1>1, <2>1, <2>2, <2>3 DEF Onward
  <2>4. CASE k + 1 # Stops(config)
    <3>1. /\ RouteTo(k + 2) = "back"
          /\ StationAt(k + 2) = 2 * PipelineActors - 3 - k
      BY <1>1, <1>4 DEF RouteTo, StationAt
    <3>2. m.at > 0 /\ m.at - 1 = 2 * PipelineActors - 3 - k
      BY <1>1, <2>1, <2>2, <2>4
    <3> QED BY <3>1, <3>2, <2>2, <2>4 DEF Onward
  <2> QED BY <2>3, <2>4
<1> QED BY <1>1, <1>2, <1>3, <1>4

-----------------------------------------------------------------------------
(***************************************************************************)
(* Sums and means of whole messages.                                       *)
(***************************************************************************)

\* The first hop, where a whole message has one.
LEMMA WholeLength ==
  ASSUME NEW c \in Config, NEW x, Whole(c, x)
  PROVE  /\ x \in Seq(Hop) /\ Len(x) \in Nat /\ Len(x) > 1 /\ x # <<>>
         /\ \A i \in 1 .. Len(x) : x[i] \in Hop /\ x[i].tp \in Nat
<1>1. Stops(c) \in Nat /\ Stops(c) > 1
  BY Counting
<1>2. HopsAfter(c, Stops(c)) \in Nat /\ HopsAfter(c, Stops(c)) > 1
  BY <1>1 DEF HopsAfter
<1>3. x \in Seq(Hop) /\ Len(x) \in Nat /\ Len(x) > 1
  BY <1>2 DEF Whole, Along
<1>4. \A i \in 1 .. Len(x) : x[i] \in Hop
  BY <1>3
<1>5. \A i \in 1 .. Len(x) : x[i].tp \in Nat
  BY <1>4 DEF Hop
<1> QED BY <1>3, <1>4, <1>5

\* What a hop is does not depend on its time.
LEMMA HopWithTime ==
  ASSUME NEW c \in Config, NEW i \in Nat, NEW h \in Hop, HopAt(c, i, h),
         NEW t \in Nat, NEW g, g = [h EXCEPT !.tp = t]
  PROVE  g \in Hop /\ g.tp = t /\ HopAt(c, i, g)
<1>1. /\ g \in Hop /\ g.tp = t
      /\ g.route = h.route /\ g.actor = h.actor /\ g.step = h.step
  BY DEF Hop
<1>2. HopAt(c, i, g)
  BY <1>1 DEF HopAt
<1> QED BY <1>1, <1>2

\* Two hops at the same place of the route differ in their time only.
LEMMA SamePlace ==
  ASSUME NEW c \in Config, NEW i, NEW h \in Hop, NEW g \in Hop,
         HopAt(c, i, h), HopAt(c, i, g)
  PROVE  SameHop(h, g)
BY DEF HopAt, SameHop

\* operator+= finds two whole messages comparable.
LEMMA WholesCompare ==
  ASSUME NEW c \in Config, NEW x, NEW y, Whole(c, x), Whole(c, y)
  PROVE  Comparable(x, y)
<1>1. Len(x) = Len(y) /\ DOMAIN x = 1 .. Len(x)
  <2>1. x \in Seq(Hop)
    BY WholeLength
  <2> QED BY <2>1 DEF Whole
<1>2. \A i \in 1 .. Len(x) : SameHop(x[i], y[i])
  <2> SUFFICES ASSUME NEW i \in 1 .. Len(x) PROVE SameHop(x[i], y[i]) OBVIOUS
  <2>1. x[i] \in Hop /\ y[i] \in Hop
    <3>1. x[i] \in Hop
      BY WholeLength
    <3>2. i \in 1 .. Len(y)
      BY <1>1
    <3>3. y[i] \in Hop
      BY <3>2, WholeLength
    <3> QED BY <3>1, <3>3
  <2>2. HopAt(c, i, x[i]) /\ HopAt(c, i, y[i])
    BY <1>1 DEF Whole, Along
  <2> QED BY <2>1, <2>2, SamePlace
<1> QED BY <1>1, <1>2 DEF Comparable

\* Hops of a whole message whose times stay in order make a whole message.
LEMMA Retimed ==
  ASSUME NEW c \in Config, NEW x, Whole(c, x), NEW t \in [1 .. Len(x) -> Nat],
         \A i, j \in 1 .. Len(x) : i <= j => t[i] <= t[j],
         NEW y, y = [i \in 1 .. Len(x) |-> [x[i] EXCEPT !.tp = t[i]]]
  PROVE  Whole(c, y) /\ \A i \in 1 .. Len(x) : y[i].tp = t[i]
<1> DEFINE n == Len(x)
<1>1. n \in Nat /\ \A i \in 1 .. n : x[i] \in Hop
  BY WholeLength
<1>2. \A i \in 1 .. n : y[i] \in Hop /\ y[i].tp = t[i] /\ HopAt(c, i, y[i])
  <2> SUFFICES ASSUME NEW i \in 1 .. n
               PROVE  y[i] \in Hop /\ y[i].tp = t[i] /\ HopAt(c, i, y[i])
    OBVIOUS
  <2>1. i \in Nat /\ x[i] \in Hop /\ t[i] \in Nat
    BY <1>1
  <2>2. HopAt(c, i, x[i])
    BY DEF Whole, Along
  <2>3. y[i] = [x[i] EXCEPT !.tp = t[i]]
    OBVIOUS
  <2> QED BY <2>1, <2>2, <2>3, HopWithTime
<1>3. y \in Seq(Hop) /\ Len(y) = n
  <2>1. y = [i \in 1 .. n |-> y[i]]
    OBVIOUS
  <2>2. y \in [1 .. n -> Hop]
    <3> HIDE DEF n
    <3> QED BY <1>2, <2>1
  <2> HIDE DEF n
  <2> QED BY <2>2, <1>1
<1>4. \A i, j \in 1 .. n : i <= j => y[i].tp <= y[j].tp
  BY <1>2
<1>5. n = HopsAfter(c, Stops(c))
  BY DEF Whole
<1> HIDE DEF n
<1>6. Along(c, y)
  BY <1>2, <1>3, <1>4 DEF Along
<1>7. Whole(c, y)
  BY <1>3, <1>5, <1>6 DEF Whole
<1> QED BY <1>2, <1>7 DEF n

\* x += y for whole messages; the first hop of x stays.
LEMMA PlusWhole ==
  ASSUME NEW c \in Config, NEW x, NEW y, x = <<>> \/ Whole(c, x), Whole(c, y)
  PROVE  /\ Whole(c, Plus(x, y))
         /\ Plus(x, y)[1] = (IF x = <<>> THEN y ELSE x)[1]
<1> DEFINE z == IF x = <<>> THEN y ELSE x
           n == Len(z)
           t == [i \in 1 .. n |-> IF i = 1 THEN z[1].tp
                                  ELSE z[i].tp + y[i].tp - y[1].tp]
           w == [i \in 1 .. n |-> [z[i] EXCEPT !.tp = t[i]]]
<1>1. Whole(c, z)
  OBVIOUS
<1>2. /\ n \in Nat /\ n > 1 /\ z \in Seq(Hop) /\ Len(y) = n
      /\ \A i \in 1 .. n : z[i] \in Hop /\ z[i].tp \in Nat /\ y[i].tp \in Nat
  <2> HIDE DEF z
  <2>1. /\ n \in Nat /\ n > 1 /\ z \in Seq(Hop)
        /\ \A i \in 1 .. n : z[i] \in Hop /\ z[i].tp \in Nat
    BY <1>1, WholeLength
  <2>2. Len(y) = n
    BY <1>1 DEF Whole
  <2>3. \A i \in 1 .. Len(y) : y[i].tp \in Nat
    BY WholeLength
  <2> HIDE DEF n
  <2> QED BY <2>1, <2>2, <2>3
<1>3. \A i, j \in 1 .. n : i <= j => z[i].tp <= z[j].tp /\ y[i].tp <= y[j].tp
  <2> HIDE DEF z
  <2>1. \A i, j \in 1 .. n : i <= j => z[i].tp <= z[j].tp
    BY <1>1 DEF Whole, Along
  <2>2. \A i, j \in 1 .. Len(y) : i <= j => y[i].tp <= y[j].tp
    BY DEF Whole, Along
  <2>3. Len(y) = n
    BY <1>2
  <2> HIDE DEF n
  <2> QED BY <2>1, <2>2, <2>3
<1>4. 1 \in 1 .. n
  <2> HIDE DEF n
  <2> QED BY <1>2
<1>5. t \in [1 .. n -> Nat] /\ \A i, j \in 1 .. n : i <= j => t[i] <= t[j]
  <2> HIDE DEF z, n
  <2>1. \A i \in 1 .. n : y[1].tp <= y[i].tp /\ z[1].tp <= z[i].tp
    BY <1>3, <1>4
  <2>2. \A i \in 1 .. n : t[i] \in Nat /\ z[1].tp <= t[i]
    BY <2>1, <1>2, <1>4
  <2>3. ASSUME NEW i \in 1 .. n, NEW j \in 1 .. n, i <= j
        PROVE  t[i] <= t[j]
    <3>1. CASE i = 1
      BY <3>1, <2>2
    <3>2. CASE i # 1
      <4>1. j # 1
        BY <3>2, <2>3
      <4>2. z[i].tp <= z[j].tp /\ y[i].tp <= y[j].tp
        BY <2>3, <1>3
      <4>3. /\ z[i].tp \in Nat /\ z[j].tp \in Nat /\ y[i].tp \in Nat
            /\ y[j].tp \in Nat /\ y[1].tp \in Nat
        BY <1>2, <1>4
      <4> QED BY <3>2, <4>1, <4>2, <4>3
    <3> QED BY <3>1, <3>2
  <2>4. t \in [1 .. n -> Nat]
    <3>1. t = [i \in 1 .. n |-> t[i]]
      OBVIOUS
    <3> HIDE DEF t
    <3> QED BY <2>2, <3>1
  <2> QED BY <2>3, <2>4
<1>6. z[1] = [z[1] EXCEPT !.tp = @]
  <2> HIDE DEF z, n
  <2>1. z[1] \in Hop
    BY <1>2, <1>4
  <2> QED BY <2>1 DEF Hop
<1>7. Plus(x, y) = w /\ w[1] = z[1]
  <2>1. Plus(x, y) = [i \in DOMAIN z |-> IF i = 1 THEN z[1]
                                         ELSE [z[i] EXCEPT !.tp = @ + y[i].tp - y[1].tp]]
    BY DEF Plus
  <2>2. DOMAIN z = 1 .. n
    <3> HIDE DEF z
    <3> QED BY <1>2
  <2> HIDE DEF z, n
  <2>3. t[1] = z[1].tp
    BY <1>4
  <2>4. w[1] = z[1]
    BY <1>4, <1>6, <2>3
  <2>5. \A i \in 1 .. n : w[i] = IF i = 1 THEN z[1]
                                 ELSE [z[i] EXCEPT !.tp = @ + y[i].tp - y[1].tp]
    BY <2>4
  <2>6. w = [i \in 1 .. n |-> w[i]]
    OBVIOUS
  <2> HIDE DEF w, t
  <2> QED BY <2>1, <2>2, <2>4, <2>5, <2>6
<1>8. Whole(c, w)
  <2> HIDE DEF z, t
  <2> QED BY <1>1, <1>5, Retimed
<1> HIDE DEF w
<1> QED BY <1>7, <1>8

\* Division by a positive number keeps the order.
LEMMA DivisionMonotone ==
  ASSUME NEW a \in Nat, NEW b \in Nat, NEW r \in Nat \ {0}, a <= b
  PROVE  a \div r \in Nat /\ b \div r \in Nat /\ a \div r <= b \div r
<1> DEFINE p == a \div r
           q == b \div r
<1>1. p \in Nat /\ a >= p * r
  BY SMT
<1>2. q \in Nat /\ b < (q + 1) * r
  BY SMT
<1> HIDE DEF p, q
<1>3. p * r < (q + 1) * r
  <2>1. p * r \in Nat /\ (q + 1) * r \in Nat
    BY <1>1, <1>2, SMT
  <2> QED BY <1>1, <1>2, <2>1, SMT
<1>4. ~ (q + 1 <= p)
  <2> SUFFICES ASSUME q + 1 <= p PROVE FALSE OBVIOUS
  <2>1. (q + 1) * r <= p * r
    BY <1>1, <1>2, SMT
  <2> QED BY <2>1, <1>3, <1>1, <1>2, SMT
<1>5. p <= q
  BY <1>1, <1>2, <1>4
<1> QED BY <1>1, <1>2, <1>5 DEF p, q

\* operator/= for whole messages; the first hop stays.
LEMMA DividedWhole ==
  ASSUME NEW c \in Config, NEW x, Whole(c, x), NEW r \in Nat \ {0}
  PROVE  Whole(c, Divided(x, r)) /\ Divided(x, r)[1] = x[1]
<1> DEFINE n == Len(x)
           t == [i \in 1 .. n |-> x[1].tp + ((x[i].tp - x[1].tp) \div r)]
           w == [i \in 1 .. n |-> [x[i] EXCEPT !.tp = t[i]]]
<1>1. /\ n \in Nat /\ n > 1 /\ x \in Seq(Hop)
      /\ \A i \in 1 .. n : x[i] \in Hop /\ x[i].tp \in Nat
  BY WholeLength
<1>2. \A i, j \in 1 .. n : i <= j => x[i].tp <= x[j].tp
  BY DEF Whole, Along
<1> HIDE DEF n
<1>3. 1 \in 1 .. n
  BY <1>1
<1>4. ASSUME NEW i \in 1 .. n, NEW j \in 1 .. n, i <= j
      PROVE  t[i] \in Nat /\ t[j] \in Nat /\ t[i] <= t[j]
  <2> DEFINE a == x[i].tp - x[1].tp
             b == x[j].tp - x[1].tp
  <2>1. x[1].tp \in Nat /\ x[i].tp \in Nat /\ x[j].tp \in Nat
    BY <1>1, <1>3
  <2>2. x[1].tp <= x[i].tp /\ x[i].tp <= x[j].tp
    BY <1>2, <1>3, <1>4
  <2>3. a \in Nat /\ b \in Nat /\ a <= b
    BY <2>1, <2>2
  <2>4. t[i] = x[1].tp + (a \div r) /\ t[j] = x[1].tp + (b \div r)
    OBVIOUS
  <2> HIDE DEF a, b, t
  <2>5. a \div r \in Nat /\ b \div r \in Nat /\ a \div r <= b \div r
    BY <2>3, DivisionMonotone
  <2> DEFINE u == a \div r
             v == b \div r
  <2>6. t[i] = x[1].tp + u /\ t[j] = x[1].tp + v /\ u \in Nat /\ v \in Nat /\ u <= v
    BY <2>4, <2>5
  <2> HIDE DEF u, v
  <2> QED BY <2>1, <2>6
<1>5. t \in [1 .. n -> Nat]
  <2>1. t = [i \in 1 .. n |-> t[i]]
    OBVIOUS
  <2>2. \A i \in 1 .. n : t[i] \in Nat
    <3> SUFFICES ASSUME NEW i \in 1 .. n PROVE t[i] \in Nat OBVIOUS
    <3>1. i <= i
      BY <1>1
    <3> QED BY <3>1, <1>4
  <2> HIDE DEF t
  <2> QED BY <2>1, <2>2
<1>6. Whole(c, w)
  <2>1. \A i, j \in 1 .. n : i <= j => t[i] <= t[j]
    BY <1>4
  <2> HIDE DEF t
  <2> QED BY <1>5, <2>1, Retimed DEF n
<1>7. Divided(x, r) = w
  <2>1. DOMAIN x = 1 .. n
    BY <1>1 DEF n
  <2> QED BY <2>1 DEF Divided
<1>8. w[1] = x[1]
  <2>1. x[1] \in Hop /\ x[1].tp \in Nat
    BY <1>1, <1>3
  <2>2. x[1].tp - x[1].tp = 0
    BY <2>1
  <2>3. t[1] = x[1].tp + (0 \div r)
    BY <1>3, <2>2
  <2>4. 0 \div r = 0
    BY SMT
  <2>5. t[1] = x[1].tp
    BY <2>1, <2>3, <2>4
  <2> HIDE DEF t
  <2> QED BY <1>3, <2>1, <2>5 DEF Hop
<1> HIDE DEF w
<1> QED BY <1>6, <1>7, <1>8

-----------------------------------------------------------------------------
(***************************************************************************)
(* Crossing is inductive.                                                  *)
(***************************************************************************)

\* The types of a message that has left k stations behind.
LEMMA LeftTyped ==
  ASSUME NEW c \in Config, NEW k \in 0 .. Stops(c), NEW m,
         m = [hops |-> m.hops, route |-> m.route, at |-> m.at],
         Along(c, m.hops),
         m.route = IF k = Stops(c) THEN "done" ELSE RouteTo(k + 1),
         m.at = IF k = Stops(c) THEN -1 ELSE StationAt(k + 1)
  PROVE  m \in Message
<1>1. m.hops \in Seq(Hop)
  BY DEF Along
<1>2. m.route \in {"forth", "back", "done"}
  BY DEF RouteTo
<1>3. m.at \in Actors \cup {-1}
  <2>1. CASE k = Stops(c)
    BY <2>1
  <2>2. CASE k # Stops(c)
    <3>1. k + 1 \in 1 .. Stops(c)
      BY <2>2, Counting
    <3>2. StationAt(k + 1) \in Actors
      BY <3>1, Counting
    <3> QED BY <2>2, <3>2
  <2> QED BY <2>1, <2>2
<1> QED BY <1>1, <1>2, <1>3 DEF Message

\* A message that goes to an actor is at the next station.
LEMMA AtStation ==
  ASSUME TypeOK, OnTheRoute, message.at \in Actors
  PROVE  \E k \in 0 .. Stops(config) - 1 :
           /\ Along(config, message.hops)
           /\ Len(message.hops) = HopsAfter(config, k)
           /\ message.route = RouteTo(k + 1)
           /\ message.at = StationAt(k + 1)
<1>1. PipelineActors \in Nat /\ config \in Config
  BY CrossTimesAssumption DEF TypeOK
<1>2. message.at # -1
  BY <1>1 DEF Actors
<1>3. message # Idle
  BY <1>2 DEF Idle
<1>4. PICK k \in 0 .. Stops(config) : Left(k)
  BY <1>3 DEF OnTheRoute
<1>5. k # Stops(config)
  BY <1>2, <1>4 DEF Left
<1>6. k \in 0 .. Stops(config) - 1
  BY <1>1, <1>5, Counting
<1> QED BY <1>4, <1>5, <1>6 DEF Left

\* A message that is done has left all stations behind.
LEMMA DoneIsWhole ==
  ASSUME TypeOK, OnTheRoute, message.route = "done"
  PROVE  Whole(config, message.hops)
<1>1. message # Idle
  BY DEF Idle
<1>2. PICK k \in 0 .. Stops(config) : Left(k)
  BY <1>1 DEF OnTheRoute
<1>3. k = Stops(config)
  BY <1>2 DEF Left, RouteTo
<1> QED BY <1>2, <1>3 DEF Left, Whole

\* The invariant holds at the start.
LEMMA InitCrossing == Init => Crossing
<1> SUFFICES ASSUME Init PROVE Crossing OBVIOUS
<1>1. Idle \in Message
  BY CrossTimesAssumption DEF Idle, Message, Actors
<1>2. <<>> \in Seq(Hop) /\ <<>> \in Seq(Seq(Hop))
  OBVIOUS
<1>3. TypeOK
  BY <1>1, <1>2 DEF Init, TypeOK
<1>4. OnTheRoute /\ SumOfRoutes /\ ~ thrown
  BY DEF Init, OnTheRoute, SumOfRoutes
<1> QED BY <1>3, <1>4 DEF Crossing

\* The rate generator leaves the first hop.
LEMMA NewMessageCrossing ==
  ASSUME Crossing, NewMessage PROVE Crossing'
<1> DEFINE t == 10 * (Len(samples) + 1)
           h == [route |-> "forth", actor |-> <<"sender", 0>>, step |-> "in", tp |-> t]
<1>1. /\ message' = [hops |-> <<h>>, route |-> "forth", at |-> 0]
      /\ UNCHANGED <<config, sum, num, thrown, samples>>
  BY DEF NewMessage, Add, Fresh
<1>2. config \in Config /\ samples \in Seq(Seq(Hop))
  BY DEF Crossing, TypeOK
<1>3. Len(samples) \in Nat
  BY <1>2
<1>4. h \in Hop /\ HopAt(config, 1, h)
  <2>1. t \in Nat
    BY <1>3
  <2> HIDE DEF t
  <2> QED BY <2>1 DEF Hop, Names, HopAt
<1> HIDE DEF h
<1>5. Along(config, <<h>>)
  <2>1. h.tp \in Nat
    BY <1>4 DEF Hop
  <2> QED BY <1>4, <2>1 DEF Along
<1>6. /\ HopsAfter(config, 0) = 1 /\ 0 \in 0 .. Stops(config) /\ Stops(config) # 0
      /\ RouteTo(0 + 1) = "forth" /\ StationAt(0 + 1) = 0
  <2>1. /\ PipelineActors \in Nat /\ PipelineActors > 1
        /\ Stops(config) \in Nat /\ Stops(config) >= PipelineActors
    BY <1>2, Counting
  <2>2. 0 + 1 = 1 /\ 2 * 0 + 1 = 1
    OBVIOUS
  <2> QED BY <2>1, <2>2 DEF HopsAfter, RouteTo, StationAt
<1>7. config' = config
  BY <1>1
<1>8. Left(0)'
  <2>1. /\ message'.hops = <<h>> /\ message'.route = "forth" /\ message'.at = 0
        /\ Len(<<h>>) = 1
    BY <1>1
  <2> QED BY <1>5, <1>6, <1>7, <2>1 DEF Left
<1>9. message' \in Message
  <2>1. message'.hops \in Seq(Hop)
    BY <1>1, <1>4
  <2>2. 0 \in Actors
    BY CrossTimesAssumption DEF Actors
  <2> QED BY <1>1, <2>1, <2>2 DEF Message
<1>10. OnTheRoute'
  BY <1>6, <1>7, <1>8 DEF OnTheRoute
<1>11. TypeOK'
  BY <1>1, <1>9 DEF Crossing, TypeOK
<1>12. SumOfRoutes'
  BY <1>1 DEF Crossing, SumOfRoutes
<1> QED BY <1>1, <1>10, <1>11, <1>12 DEF Crossing

\* An actor leaves the hops of its station.
LEMMA CrossCrossing ==
  ASSUME Crossing, Cross PROVE Crossing'
<1>1. config \in Config /\ Delays \subseteq Nat
  BY CrossTimesAssumption DEF Crossing, TypeOK
<1>2. PICK d \in Delays :
        message' = [hops  |-> Crossed(message, message.at, d),
                    route |-> Onward(message).route, at |-> Onward(message).at]
  BY DEF Cross
<1>3. UNCHANGED <<config, sum, num, thrown, samples>> /\ message.at \in Actors
  BY DEF Cross
<1>4. PICK k \in 0 .. Stops(config) - 1 :
           /\ Along(config, message.hops)
           /\ Len(message.hops) = HopsAfter(config, k)
           /\ message.route = RouteTo(k + 1)
           /\ message.at = StationAt(k + 1)
  BY <1>3, AtStation DEF Crossing
<1>5. d \in Nat
  BY <1>1, <1>2
<1>6. /\ Along(config, Crossed(message, message.at, d))
      /\ Len(Crossed(message, message.at, d)) = HopsAfter(config, k + 1)
  BY <1>1, <1>4, <1>5, CrossedAlong
<1>7. /\ Onward(message).route = IF k + 1 = Stops(config) THEN "done" ELSE RouteTo(k + 2)
      /\ Onward(message).at = IF k + 1 = Stops(config) THEN -1 ELSE StationAt(k + 2)
  BY <1>1, <1>4, OnwardIsNext
<1>8. /\ message' = [hops |-> message'.hops, route |-> message'.route, at |-> message'.at]
      /\ Along(config, message'.hops)
      /\ Len(message'.hops) = HopsAfter(config, k + 1)
      /\ message'.route = IF k + 1 = Stops(config) THEN "done" ELSE RouteTo((k + 1) + 1)
      /\ message'.at = IF k + 1 = Stops(config) THEN -1 ELSE StationAt((k + 1) + 1)
  <2>1. (k + 1) + 1 = k + 2
    OBVIOUS
  <2> QED BY <1>2, <1>6, <1>7, <2>1
<1>9. k + 1 \in 0 .. Stops(config) /\ config' = config
  BY <1>1, <1>3, Counting
<1>10. Left(k + 1)'
  BY <1>8, <1>9 DEF Left
<1>11. OnTheRoute'
  BY <1>9, <1>10 DEF OnTheRoute
<1>12. message' \in Message
  BY <1>1, <1>8, <1>9, LeftTyped
<1>13. TypeOK'
  BY <1>3, <1>12 DEF Crossing, TypeOK
<1>14. SumOfRoutes'
  BY <1>3 DEF Crossing, SumOfRoutes
<1> QED BY <1>3, <1>11, <1>13, <1>14 DEF Crossing

\* The hops of a whole message are comparable with the sum, and added to it.
LEMMA ParallelCrossing ==
  ASSUME Crossing, Parallel PROVE Crossing'
<1> DEFINE y == message.hops
<1>1. config \in Config /\ samples \in Seq(Seq(Hop)) /\ num \in Nat
  BY DEF Crossing, TypeOK
<1>2. Whole(config, y)
  BY DoneIsWhole DEF Crossing, Parallel
<1>3. sum = <<>> \/ Whole(config, sum)
  BY DEF Crossing, SumOfRoutes
<1>4. ~ (sum # <<>> /\ ~ Comparable(sum, y))
  BY <1>1, <1>2, <1>3, WholesCompare
<1>5. /\ sum' = Plus(sum, y) /\ num' = num + 1 /\ samples' = Append(samples, y)
      /\ thrown' = thrown /\ message' = Idle /\ config' = config
  BY <1>4 DEF Parallel
<1>6. /\ Whole(config, Plus(sum, y))
      /\ Plus(sum, y)[1] = (IF sum = <<>> THEN y ELSE sum)[1]
  BY <1>1, <1>2, <1>3, PlusWhole
<1>7. y \in Seq(Hop) /\ Plus(sum, y) \in Seq(Hop)
  BY <1>2, <1>6 DEF Whole, Along
<1>8. samples' \in Seq(Seq(Hop)) /\ samples' # <<>> /\ num' \in Nat /\ num' > 0
  <2> HIDE DEF y
  <2> QED BY <1>1, <1>5, <1>7
<1>9. sum'[1] = samples'[1][1]
  <2>1. CASE sum = <<>>
    <3>1. samples = <<>>
      <4>1. ~ Whole(config, <<>>)
        BY <1>1, WholeLength
      <4> QED BY <2>1, <4>1 DEF Crossing, SumOfRoutes
    <3> HIDE DEF y
    <3>2. samples'[1] = y
      BY <1>5, <3>1
    <3> QED BY <1>5, <1>6, <2>1, <3>2
  <2>2. CASE sum # <<>>
    <3>1. samples # <<>> /\ sum[1] = samples[1][1]
      BY <2>2 DEF Crossing, SumOfRoutes
    <3> HIDE DEF y
    <3>2. samples'[1] = samples[1]
      BY <1>1, <1>5, <1>7, <3>1
    <3> QED BY <1>5, <1>6, <2>2, <3>1, <3>2
  <2> QED BY <2>1, <2>2
<1> HIDE DEF y
<1>10. SumOfRoutes'
  BY <1>5, <1>6, <1>8, <1>9 DEF SumOfRoutes
<1>11. OnTheRoute'
  BY <1>5 DEF OnTheRoute, Idle
<1>12. Idle \in Message
  BY CrossTimesAssumption DEF Idle, Message, Actors
<1>13. TypeOK'
  BY <1>5, <1>6, <1>7, <1>8, <1>12 DEF Crossing, TypeOK
<1> QED BY <1>5, <1>10, <1>11, <1>13 DEF Crossing

\* No step leaves the invariant.
LEMMA NextCrossing == Crossing /\ [Next]_vars => Crossing'
<1> SUFFICES ASSUME Crossing, [Next]_vars PROVE Crossing' OBVIOUS
<1>1. CASE UNCHANGED vars
  BY <1>1 DEF vars, Crossing, TypeOK, OnTheRoute, SumOfRoutes, Left, Idle
<1>2. CASE Finished
  BY <1>1, <1>2 DEF Finished
<1>3. CASE NewMessage
  BY <1>3, NewMessageCrossing
<1>4. CASE Cross
  BY <1>4, CrossCrossing
<1>5. CASE Parallel
  BY <1>5, ParallelCrossing
<1> QED BY <1>1, <1>2, <1>3, <1>4, <1>5 DEF Next

\* The invariant of every behaviour.
LEMMA CrossingHolds == Spec => []Crossing
BY InitCrossing, NextCrossing, PTL DEF Spec

-----------------------------------------------------------------------------
(***************************************************************************)
(* The theorems.                                                           *)
(***************************************************************************)

\* The types, with every hop a message leaves and every sum of them.
THEOREM CrossTimesTyped == Spec => []TypeOK
<1>1. Crossing => TypeOK
  BY DEF Crossing
<1> QED BY <1>1, CrossingHolds, PTL

(***************************************************************************)
(* The checks of operator+= never fail: the hops of any two messages are   *)
(* the same but for their times.                                           *)
(***************************************************************************)
THEOREM AdditionNeverThrows == Spec => []NeverThrows
<1>1. Crossing => NeverThrows
  BY DEF Crossing, NeverThrows
<1> QED BY <1>1, CrossingHolds, PTL

\* The mean is a whole message too, with the first hop of the first sample.
LEMMA MeanIsWhole ==
  ASSUME Crossing, num > 0
  PROVE  Whole(config, Mean) /\ Mean[1] = samples[1][1] /\ config \in Config
<1>1. config \in Config /\ num \in Nat \ {0}
  BY DEF Crossing, TypeOK
<1>2. Whole(config, sum) /\ sum[1] = samples[1][1]
  BY <1>1 DEF Crossing, SumOfRoutes
<1>3. Mean = Divided(sum, num)
  BY <1>1 DEF Mean
<1>4. Whole(config, Divided(sum, num)) /\ Divided(sum, num)[1] = sum[1]
  BY <1>1, <1>2, DividedWhole
<1> QED BY <1>1, <1>2, <1>3, <1>4

(***************************************************************************)
(* Adding and dividing leave the hops in the order of their times and the  *)
(* first one in its place: no duration of the result is negative.          *)
(***************************************************************************)
THEOREM MeanKeepsOrder == Spec => []MeanInOrder
<1>1. Crossing => MeanInOrder
  <2> SUFFICES ASSUME Crossing, num > 0
               PROVE  /\ Mean[1] = samples[1][1]
                      /\ \A h \in 2 .. Len(Mean) : Mean[h].tp >= Mean[h - 1].tp
    BY DEF MeanInOrder
  <2> DEFINE x == Mean
  <2>1. Whole(config, x) /\ x[1] = samples[1][1] /\ config \in Config
    BY MeanIsWhole
  <2> HIDE DEF x
  <2>2. ASSUME NEW h \in 2 .. Len(x) PROVE x[h].tp >= x[h - 1].tp
    <3>1. Len(x) \in Nat /\ \A i \in 1 .. Len(x) : x[i].tp \in Nat
      BY <2>1, WholeLength
    <3>2. h \in 1 .. Len(x) /\ h - 1 \in 1 .. Len(x) /\ h - 1 <= h
      BY <3>1
    <3>3. x[h - 1].tp <= x[h].tp
      BY <2>1, <3>2 DEF Whole, Along
    <3> QED BY <3>1, <3>2, <3>3
  <2> QED BY <2>1, <2>2 DEF x
<1> QED BY <1>1, CrossingHolds, PTL

\* The stations of PartsFollowRoute are those of the invariant.
LEMMA StationsAreStops ==
  ASSUME config \in Config
  PROVE  /\ Stations \in Seq(Int) /\ Len(Stations) = Stops(config)
         /\ \A k \in 1 .. Stops(config) : Stations[k] = StationAt(k)
<1> DEFINE n == PipelineActors
           f == [i \in 1 .. n |-> i - 1]
           g == [i \in 1 .. n - 1 |-> n - 1 - i]
           b == IF config.forth_and_back THEN g ELSE <<>>
<1>1. n \in Nat /\ n > 1 /\ n - 1 \in Nat
  BY CrossTimesAssumption
<1>2. f \in Seq(Int) /\ Len(f) = n /\ \A i \in 1 .. n : f[i] = i - 1
  BY <1>1
<1>3. g \in Seq(Int) /\ Len(g) = n - 1 /\ \A i \in 1 .. n - 1 : g[i] = n - 1 - i
  BY <1>1
<1>4. b \in Seq(Int)
  <2> HIDE DEF g
  <2> QED BY <1>3
<1>5. Stations = f \o b
  BY DEF Stations
<1>6. CASE config.forth_and_back
  <2>1. Stops(config) = 2 * n - 1
    BY <1>6 DEF Stops
  <2>2. b = g
    BY <1>6
  <2> HIDE DEF b
  <2>3. Stations = f \o g
    BY <1>5, <2>2
  <2>4. f \in Seq(Int) /\ g \in Seq(Int) /\ Len(f) = n /\ Len(g) = n - 1
    BY <1>2, <1>3
  <2> HIDE DEF f, g
  <2>5. /\ f \o g \in Seq(Int) /\ Len(f \o g) = Len(f) + Len(g)
        /\ \A i \in Len(f) + 1 .. Len(f) + Len(g) : (f \o g)[i] = g[i - Len(f)]
    BY <2>4
  <2>6. Stations \in Seq(Int) /\ Len(Stations) = n + (n - 1)
    BY <2>3, <2>4, <2>5
  <2>7. ASSUME NEW k \in 1 .. Stops(config)
        PROVE  Stations[k] = StationAt(k)
    <3>1. CASE k <= n
      <4>1. k \in 1 .. n
        BY <1>1, <3>1
      <4>2. Stations[k] = f[k]
        BY <1>1, <1>2, <1>4, <1>5, <4>1
      <4>3. Stations[k] = k - 1
        BY <1>2, <4>1, <4>2
      <4> HIDE DEF n
      <4> QED BY <4>3, <3>1 DEF StationAt, n
    <3>2. CASE k > n
      <4>1. k \in n + 1 .. n + (n - 1) /\ k - n \in 1 .. n - 1
        BY <1>1, <2>1, <3>2
      <4>2. Stations[k] = g[k - n]
        BY <2>3, <2>4, <2>5, <4>1
      <4>3. Stations[k] = n - 1 - (k - n)
        BY <1>3, <4>1, <4>2
      <4>4. Stations[k] = 2 * n - 1 - k
        BY <1>1, <4>1, <4>3
      <4> QED BY <1>1, <4>1, <4>4, <3>2 DEF StationAt
    <3> QED BY <1>1, <3>1, <3>2
  <2> QED BY <1>1, <2>1, <2>6, <2>7
<1>7. CASE ~ config.forth_and_back
  <2>1. b = <<>> /\ Stops(config) = n
    BY <1>7 DEF Stops
  <2> HIDE DEF f, g, b
  <2>2. Stations = f
    BY <1>2, <1>5, <2>1
  <2>3. ASSUME NEW k \in 1 .. n
        PROVE  Stations[k] = StationAt(k)
    BY <1>1, <1>2, <2>2 DEF StationAt
  <2> QED BY <1>2, <2>1, <2>2, <2>3
<1> QED BY <1>6, <1>7

\* analyze_cross_times knows the hops that come from or to the detached actor.
LEMMA DetachedHops ==
  ASSUME config \in Config, NEW x, Whole(config, x), NEW h \in 2 .. Len(x)
  PROVE  /\ IsDetached(x, h) <=> StationAt(StationOf(config, h)) = config.detached
         /\ ~ IsDetached(x, 1)
         /\ x[h].step = IF config.computing /\ h % 2 = 1 THEN "out" ELSE "in"
<1>1. Len(x) \in Nat /\ Len(x) > 1
  BY WholeLength
<1>2. h \in 1 .. Len(x) /\ h # 1 /\ 1 \in 1 .. Len(x)
  BY <1>1
<1>3. HopAt(config, h, x[h]) /\ HopAt(config, 1, x[1])
  BY <1>2 DEF Whole, Along
<1>4. /\ x[h].actor = <<IF StationAt(StationOf(config, h)) = config.detached
                       THEN "DET_ba" ELSE "ba", StationAt(StationOf(config, h))>>
      /\ x[h].step = IF config.computing /\ h % 2 = 1 THEN "out" ELSE "in"
  BY <1>2, <1>3 DEF HopAt
<1>5. x[1].actor = <<"sender", 0>>
  BY <1>3 DEF HopAt
<1> QED BY <1>4, <1>5 DEF IsDetached

\* The part of the hop with which a message comes to station k.
LEMMA ArrivalPart ==
  ASSUME config \in Config, NEW x, Whole(config, x), NEW h \in 2 .. Len(x),
         NEW k \in 1 .. Stops(config), StationOf(config, h) = k,
         ~ (config.computing /\ h % 2 = 1),
         h = 2 <=> k = 1, h > 2 => StationOf(config, h - 1) = k - 1
  PROVE  Part(x, h) = WayTo(k)
<1>1. Len(x) \in Nat /\ Stops(config) \in Nat
  BY WholeLength, Counting
<1>2. x[h].step = "in" /\ (IsDetached(x, h) <=> StationAt(k) = config.detached)
  BY DetachedHops
<1>3. Stations[k] = StationAt(k)
  BY StationsAreStops
<1>4. CASE h = 2
  BY <1>2, <1>3, <1>4 DEF Part, WayTo
<1>5. CASE h # 2
  <2>1. h > 2 /\ h - 1 \in 2 .. Len(x) /\ k - 1 \in 1 .. Stops(config) /\ k # 1
    BY <1>1, <1>5
  <2>2. IsDetached(x, h - 1) <=> StationAt(k - 1) = config.detached
    BY <2>1, DetachedHops
  <2>3. Stations[k - 1] = StationAt(k - 1)
    BY <2>1, StationsAreStops
  <2> QED BY <1>2, <1>3, <1>5, <2>1, <2>2, <2>3 DEF Part, WayTo
<1> QED BY <1>4, <1>5

\* The part of the hop an actor leaves after its work.
LEMMA WorkPart ==
  ASSUME config \in Config, NEW x, Whole(config, x), NEW h \in 2 .. Len(x),
         config.computing /\ h % 2 = 1
  PROVE  Part(x, h) = "computation"
<1>1. x[h].step = "out"
  BY DetachedHops
<1>2. h # 2
  BY SMT
<1> QED BY <1>1, <1>2 DEF Part

(***************************************************************************)
(* analyze_cross_times tells the ways of the route apart by the names and  *)
(* steps of pairs of hops, for every detached actor, both routes, and with *)
(* and without work.                                                       *)
(***************************************************************************)
THEOREM PartsAreThoseOfTheRoute == Spec => []PartsFollowRoute
<1>1. Crossing => PartsFollowRoute
  <2> SUFFICES ASSUME Crossing, num > 0
               PROVE  /\ Len(Mean) = 1 + Len(Stations) * (IF config.computing THEN 2 ELSE 1)
                      /\ \A h \in 2 .. Len(Mean) :
                           Part(Mean, h) =
                             IF ~ config.computing THEN WayTo(h - 1)
                             ELSE IF h % 2 = 0 THEN WayTo(h \div 2) ELSE "computation"
    BY DEF PartsFollowRoute
  <2> DEFINE x == Mean
             s == Stops(config)
  <2>1. Whole(config, x) /\ config \in Config
    BY MeanIsWhole
  <2>2. Len(Stations) = s /\ s \in Nat
    BY <2>1, StationsAreStops, Counting
  <2> HIDE DEF x
  <2>3. Len(x) = HopsAfter(config, s)
    BY <2>1 DEF Whole
  <2> HIDE DEF s
  <2>4. Len(x) = 1 + Len(Stations) * (IF config.computing THEN 2 ELSE 1)
    BY <2>2, <2>3 DEF HopsAfter
  <2>5. ASSUME NEW h \in 2 .. Len(x)
        PROVE  Part(x, h) = IF ~ config.computing THEN WayTo(h - 1)
                            ELSE IF h % 2 = 0 THEN WayTo(h \div 2) ELSE "computation"
    <3>1. CASE ~ config.computing
      <4>1. Len(x) = s + 1
        BY <2>3, <3>1 DEF HopsAfter
      <4>2. h - 1 \in 1 .. Stops(config) /\ (h = 2 <=> h - 1 = 1)
        BY <2>2, <4>1 DEF s
      <4>3. StationOf(config, h) = h - 1 /\ StationOf(config, h - 1) = (h - 1) - 1
        BY <3>1 DEF StationOf
      <4>4. Part(x, h) = WayTo(h - 1)
        BY <2>1, <3>1, <4>2, <4>3, ArrivalPart
      <4> QED BY <3>1, <4>4
    <3>2. CASE config.computing /\ h % 2 = 0
      <4> DEFINE k == h \div 2
      <4>1. Len(x) = 2 * s + 1
        BY <2>3, <3>2 DEF HopsAfter
      <4>2. k \in Nat /\ h = 2 * k /\ h \in Nat /\ h >= 2
        BY <3>2, SMT
      <4>3. (h - 1) \div 2 = k - 1
        BY <4>2, SMT
      <4>4. StationOf(config, h) = k /\ StationOf(config, h - 1) = k - 1
        BY <3>2, <4>3 DEF StationOf
      <4> HIDE DEF k
      <4>5. k \in 1 .. s /\ (h = 2 <=> k = 1)
        BY <2>2, <4>1, <4>2
      <4>6. k \in 1 .. Stops(config)
        BY <4>5 DEF s
      <4>7. ~ (config.computing /\ h % 2 = 1)
        BY <3>2
      <4>8. Part(x, h) = WayTo(k)
        BY <2>1, <4>4, <4>5, <4>6, <4>7, ArrivalPart
      <4> QED BY <3>2, <4>8 DEF k
    <3>3. CASE config.computing /\ h % 2 # 0
      <4>1. h % 2 = 1
        BY <3>3, SMT
      <4> QED BY <2>1, <3>3, <4>1, WorkPart
    <3> QED BY <3>1, <3>2, <3>3
  <2> QED BY <2>4, <2>5 DEF x
<1> QED BY <1>1, CrossingHolds, PTL


-----------------------------------------------------------------------------
(***************************************************************************)
(* What the parts add up to.                                               *)
(***************************************************************************)

LEMMA DurationsAdded ==
  ASSUME NEW x, NEW S, IsFiniteSet(S), NEW d, \A h \in S : d[h] = Duration(x, h)
  PROVE  MapThenSumSet(LAMBDA h : Duration(x, h), S) = SumOver(d, S)
<1> DEFINE Fold(g) == g = [s \in SUBSET S |-> IF s = {} THEN 0
                             ELSE Duration(x, Pick(s)) + g[s \ {Pick(s)}]]
           g == CHOOSE g : Fold(g)
<1>1. Fold(g)
  <2>1. PICK f : IsFold(f, d, S)
    BY AddsExists
  <2>2. ASSUME NEW s \in SUBSET S, s # {} PROVE d[Pick(s)] = Duration(x, Pick(s))
    BY <2>2, Picked
  <2>3. Fold(f)
    BY <2>1, <2>2 DEF IsFold
  <2> HIDE DEF Fold
  <2> QED BY <2>3
<1>2. MapThenSumSet(LAMBDA h : Duration(x, h), S) = g[S]
  BY DEF MapThenSumSet, MapThenFoldSet, Pick
<1> HIDE DEF g
<1>3. Adds(g, d, S)
  <2>1. ASSUME NEW s \in SUBSET S
        PROVE  g[s] = IF s = {} THEN 0 ELSE d[Pick(s)] + g[s \ {Pick(s)}]
    <3>1. g[s] = IF s = {} THEN 0 ELSE Duration(x, Pick(s)) + g[s \ {Pick(s)}]
      BY <1>1
    <3>2. s # {} => d[Pick(s)] = Duration(x, Pick(s))
      BY Picked
    <3> QED BY <3>1, <3>2
  <2> QED BY <2>1 DEF Adds
<1> QED BY <1>2, <1>3, AddsSum

Shares(x, p) == Analysis(x)[p] * Cardinality(HopsOf(x, p))

LEMMA SharesAdded ==
  ASSUME NEW x, NEW S, IsFiniteSet(S), NEW d, \A p \in S : d[p] = Shares(x, p)
  PROVE  MapThenSumSet(LAMBDA p : Analysis(x)[p] * Cardinality(HopsOf(x, p)), S)
           = SumOver(d, S)
<1> DEFINE Fold(g) == g = [s \in SUBSET S |-> IF s = {} THEN 0
                             ELSE Shares(x, Pick(s)) + g[s \ {Pick(s)}]]
           g == CHOOSE g : Fold(g)
<1>1. Fold(g)
  <2>1. PICK f : IsFold(f, d, S)
    BY AddsExists
  <2>2. ASSUME NEW s \in SUBSET S, s # {} PROVE d[Pick(s)] = Shares(x, Pick(s))
    BY <2>2, Picked
  <2>3. Fold(f)
    BY <2>1, <2>2 DEF IsFold
  <2> HIDE DEF Fold
  <2> QED BY <2>3
<1>2. MapThenSumSet(LAMBDA p : Analysis(x)[p] * Cardinality(HopsOf(x, p)), S) = g[S]
  BY DEF MapThenSumSet, MapThenFoldSet, Pick, Shares
<1> HIDE DEF g
<1>3. Adds(g, d, S)
  <2>1. ASSUME NEW s \in SUBSET S
        PROVE  g[s] = IF s = {} THEN 0 ELSE d[Pick(s)] + g[s \ {Pick(s)}]
    <3>1. g[s] = IF s = {} THEN 0 ELSE Shares(x, Pick(s)) + g[s \ {Pick(s)}]
      BY <1>1
    <3>2. s # {} => d[Pick(s)] = Shares(x, Pick(s))
      BY Picked
    <3> QED BY <3>1, <3>2
  <2> QED BY <2>1 DEF Adds
<1> QED BY <1>2, <1>3, AddsSum

\* A quotient, times the divisor, falls short by less than the divisor.
LEMMA QuotientTimes ==
  ASSUME NEW a \in Nat, NEW r \in Nat \ {0}
  PROVE  /\ a \div r \in Nat
         /\ (a \div r) * r <= a /\ a <= (a \div r) * r + r
OBVIOUS

LEMMA QuotientBetween ==
  ASSUME NEW a \in Nat, NEW r \in Nat \ {0}, NEW u \in Nat, NEW v \in Nat,
         r * u <= a, a <= r * v
  PROVE  u <= a \div r /\ a \div r <= v
<1> DEFINE b == r * u
           c == r * v
<1>1. b \in Nat /\ c \in Nat
  OBVIOUS
<1>2. b \div r = u /\ c \div r = v
  OBVIOUS
<1> HIDE DEF b, c
<1>3. b <= a /\ a <= c
  BY DEF b, c
<1>4. b \div r <= a \div r /\ a \div r <= c \div r
  BY <1>1, <1>3, DivisionMonotone
<1> QED BY <1>2, <1>4

\* The time of each hop, and its part.
LEMMA HopsHaveParts ==
  ASSUME NEW x, NEW p
  PROVE  HopsOf(x, p) = ClassOf([h \in 2 .. Len(x) |-> Part(x, h)], 2 .. Len(x), p)
BY DEF HopsOf, ClassOf

LEMMA PartIsPart == ASSUME NEW x, NEW h PROVE Part(x, h) \in Parts
BY DEF Part, Parts

\* The durations of a message add up to its latency, but for less than a
\* microsecond for every hop.
LEMMA DurationsAddUp ==
  ASSUME NEW c \in Config, NEW x, Whole(c, x),
         NEW d, \A h \in 2 .. Len(x) : d[h] = Duration(x, h)
  PROVE  /\ \A h \in 2 .. Len(x) : d[h] \in Nat
         /\ SumOver(d, 2 .. Len(x)) <= Micros(Latency(x))
         /\ Micros(Latency(x)) <= SumOver(d, 2 .. Len(x)) + Len(x) - 1
         /\ SumOver(d, 2 .. Len(x)) \in Nat /\ Micros(Latency(x)) \in Nat
<1> DEFINE n == Len(x)
           H == 2 .. n
           t == [i \in 1 .. n |-> x[i].tp]
           g == [h \in H |-> t[h] - t[h - 1]]
           e == [h \in H |-> Micro * d[h]]
           m == [h \in H |-> Micro]
           u == [h \in H |-> 1]
           f == [h \in H |-> Micro * d[h] + Micro]
<1>1. n \in Nat /\ n > 1 /\ \A i \in 1 .. n : x[i].tp \in Nat
  BY WholeLength
<1>2. \A i, j \in 1 .. n : i <= j => x[i].tp <= x[j].tp
  BY DEF Whole, Along
<1>3. \A h \in H : d[h] = Duration(x, h)
  OBVIOUS
<1>4. Latency(x) = x[n].tp - x[1].tp
  BY <1>1 DEF Latency, LastTime
<1>5. Micro \in Nat \ {0}
  BY CrossTimesAssumption
<1> HIDE DEF n
<1>6. IsFiniteSet(H) /\ Cardinality(H) = n - 1
  BY <1>1, FS_Interval
<1>7. ASSUME NEW h \in H
      PROVE  /\ h \in 1 .. n /\ h - 1 \in 1 .. n /\ g[h] = t[h] - t[h - 1]
             /\ g[h] = x[h].tp - x[h - 1].tp /\ g[h] \in Nat
  <2>1. h \in 1 .. n /\ h - 1 \in 1 .. n /\ h - 1 <= h
    BY <1>1
  <2>2. x[h - 1].tp <= x[h].tp /\ x[h].tp \in Nat /\ x[h - 1].tp \in Nat
    BY <1>1, <1>2, <2>1
  <2>3. g[h] = t[h] - t[h - 1] /\ t[h] = x[h].tp /\ t[h - 1] = x[h - 1].tp
    BY <2>1
  <2> HIDE DEF g, t
  <2> QED BY <2>1, <2>2, <2>3
<1>8. ASSUME NEW h \in H
      PROVE  /\ d[h] \in Nat /\ e[h] = Micro * d[h] /\ e[h] \in Nat
             /\ f[h] = e[h] + m[h] /\ f[h] \in Nat /\ m[h] = Micro
             /\ e[h] <= g[h] /\ g[h] <= f[h]
  <2>1. d[h] = g[h] \div Micro /\ g[h] \in Nat
    <3>1. d[h] = Micros(x[h].tp - x[h - 1].tp)
      BY <1>3 DEF Duration
    <3> HIDE DEF g
    <3> QED BY <3>1, <1>7 DEF Micros
  <2>2. e[h] = Micro * d[h] /\ f[h] = Micro * d[h] + Micro /\ m[h] = Micro
    OBVIOUS
  <2> HIDE DEF g, e, f, m
  <2>3. d[h] \in Nat /\ d[h] * Micro <= g[h] /\ g[h] <= d[h] * Micro + Micro
    BY <1>5, <2>1, QuotientTimes
  <2>4. d[h] * Micro = Micro * d[h] /\ Micro * d[h] \in Nat
    BY <1>5, <2>3
  <2> QED BY <1>5, <2>1, <2>2, <2>3, <2>4
<1>9. SumOver(g, H) = t[n] - t[1]
  <2>1. \A i \in 1 .. n : t[i] \in Int
    BY <1>1
  <2>2. \A h \in 2 .. n : g[h] = t[h] - t[h - 1]
    BY <1>7
  <2> HIDE DEF t, g
  <2> QED BY <1>1, <2>1, <2>2, SumOfDifferences
<1>10. SumOver(g, H) = Latency(x)
  <2>1. 1 \in 1 .. n /\ n \in 1 .. n
    BY <1>1
  <2>2. t[n] = x[n].tp /\ t[1] = x[1].tp
    BY <2>1
  <2> HIDE DEF t, g
  <2> QED BY <1>4, <1>9, <2>2
<1>11. Latency(x) \in Nat
  <2>1. 1 \in 1 .. n /\ n \in 1 .. n /\ 1 <= n
    BY <1>1
  <2>2. x[1].tp <= x[n].tp /\ x[1].tp \in Nat /\ x[n].tp \in Nat
    BY <1>1, <1>2, <2>1
  <2> QED BY <1>4, <2>2
<1> HIDE DEF t, g
<1> DEFINE sd == SumOver(d, H)
<1>12. SumOver(e, H) = Micro * sd /\ sd \in Int
  <2>1. \A h \in H : d[h] \in Int /\ e[h] = Micro * d[h]
    BY <1>8
  <2> HIDE DEF e, H
  <2> QED BY <1>5, <1>6, <2>1, SumScaled, SumIsInt
<1>13. SumOver(m, H) = Micro * (n - 1)
  <2>1. \A h \in H : u[h] = 1
    OBVIOUS
  <2>2. \A h \in H : u[h] \in Int /\ m[h] = Micro * u[h]
    BY <1>5
  <2> HIDE DEF m, u, H
  <2>3. SumOver(u, H) = n - 1
    BY <1>6, <2>1, SumOfOnes
  <2> QED BY <1>5, <1>6, <2>2, <2>3, SumScaled
<1>14. SumOver(f, H) = Micro * sd + Micro * (n - 1)
  <2>1. \A h \in H : e[h] \in Int /\ m[h] \in Int /\ f[h] = e[h] + m[h]
    BY <1>5, <1>8
  <2> HIDE DEF m, e, f, H, sd
  <2>2. SumOver(f, H) = SumOver(e, H) + SumOver(m, H)
    BY <1>6, <2>1, SumOfSums
  <2> QED BY <2>2, <1>12, <1>13
<1>15. SumOver(e, H) <= Latency(x) /\ Latency(x) <= SumOver(f, H)
  <2>1. \A h \in H : /\ e[h] \in Int /\ f[h] \in Int /\ g[h] \in Int
                     /\ e[h] <= g[h] /\ g[h] <= f[h]
    BY <1>7, <1>8
  <2> HIDE DEF e, f, H
  <2>2. SumOver(e, H) <= SumOver(g, H) /\ SumOver(g, H) <= SumOver(f, H)
    BY <1>6, <2>1, SumMonotone
  <2> QED BY <1>10, <2>2
<1>16. sd \in Nat
  <2> HIDE DEF H
  <2> QED BY <1>6, <1>8, SumIsNat
<1> HIDE DEF sd
<1>17. Micro * sd <= Latency(x) /\ Latency(x) <= Micro * (sd + n - 1)
  <2>1. Micro * sd + Micro * (n - 1) = Micro * (sd + n - 1)
    BY <1>1, <1>5, <1>16
  <2> QED BY <1>12, <1>14, <1>15, <2>1
<1>18. sd + n - 1 \in Nat
  BY <1>1, <1>16
<1>19. sd <= Latency(x) \div Micro /\ Latency(x) \div Micro <= sd + n - 1
  BY <1>5, <1>11, <1>16, <1>17, <1>18, QuotientBetween
<1>20. Latency(x) \div Micro \in Nat
  BY <1>5, <1>11, QuotientTimes
<1> QED BY <1>8, <1>16, <1>19, <1>20 DEF sd, Micros, n

\* The parts of a message, each as often as it has hops, add up to the durations,
\* but for less than a microsecond for every hop.
LEMMA SharesAddUp ==
  ASSUME NEW x, Len(x) \in Nat \ {0},
         NEW d, \A h \in 2 .. Len(x) : d[h] = Duration(x, h) /\ d[h] \in Nat,
         NEW a, \A p \in Parts : a[p] = Shares(x, p)
  PROVE  /\ SumOver(a, Parts) \in Int
         /\ SumOver(a, Parts) <= SumOver(d, 2 .. Len(x))
         /\ SumOver(d, 2 .. Len(x)) <= SumOver(a, Parts) + Len(x) - 1
<1> DEFINE H == 2 .. Len(x)
           part == [h \in H |-> Part(x, h)]
           Of(p) == ClassOf(part, H, p)
           e == [p \in Parts |-> SumOver(d, Of(p))]
           k == [p \in Parts |-> Cardinality(Of(p))]
           u == [h \in H |-> 1]
           f == [p \in Parts |-> a[p] + k[p]]
<1>1. /\ IsFiniteSet(H) /\ Cardinality(H) = Len(x) - 1
      /\ \A h \in H : d[h] = Duration(x, h) /\ d[h] \in Nat
  BY FS_Interval
<1>2. \A h \in H : part[h] \in Parts
  BY PartIsPart
<1>3. \A p : Of(p) = HopsOf(x, p)
  BY HopsHaveParts
<1> HIDE DEF H, part
<1>4. IsFiniteSet(Parts)
  <2>1. Parts = {"detached_receive"} \cup {"detached_send"} \cup {"first"}
                 \cup {"computation"} \cup {"passing"}
    BY DEF Parts
  <2> QED BY <2>1, FS_Singleton, FS_Union
<1>5. ASSUME NEW p
      PROVE  /\ IsFiniteSet(Of(p)) /\ Cardinality(Of(p)) \in Nat
             /\ \A h \in Of(p) : d[h] = Duration(x, h) /\ d[h] \in Nat
  <2>1. Of(p) \subseteq H
    BY DEF ClassOf
  <2> HIDE DEF Of
  <2> QED BY <1>1, <2>1, FS_Subset, FS_CardinalityType
<1>6. SumOver(e, Parts) = SumOver(d, H)
  <2>1. \A p \in Parts : e[p] = SumOver(d, ClassOf(part, H, p))
    OBVIOUS
  <2>2. \A h \in H : d[h] \in Int /\ part[h] \in Parts
    BY <1>1, <1>2
  <2> HIDE DEF e
  <2> QED BY <1>1, <1>4, <2>1, <2>2, SumByClass
<1>7. SumOver(k, Parts) = Len(x) - 1
  <2>1. \A h \in H : u[h] = 1 /\ u[h] \in Int /\ part[h] \in Parts
    BY <1>2
  <2> HIDE DEF u
  <2>2. \A p \in Parts : k[p] = SumOver(u, ClassOf(part, H, p))
    <3> SUFFICES ASSUME NEW p \in Parts PROVE k[p] = SumOver(u, Of(p))
      OBVIOUS
    <3>1. k[p] = Cardinality(Of(p))
      OBVIOUS
    <3>2. IsFiniteSet(Of(p)) /\ \A h \in Of(p) : u[h] = 1
      BY <1>5, <2>1 DEF ClassOf
    <3> HIDE DEF Of, k
    <3> QED BY <3>1, <3>2, SumOfOnes
  <2> HIDE DEF k
  <2>3. SumOver(k, Parts) = SumOver(u, H)
    BY <1>1, <1>4, <2>1, <2>2, SumByClass
  <2> QED BY <1>1, <2>1, <2>3, SumOfOnes
<1>8. ASSUME NEW p \in Parts
      PROVE  /\ a[p] \in Int /\ e[p] \in Int /\ k[p] \in Int /\ f[p] \in Int
             /\ f[p] = a[p] + k[p] /\ a[p] <= e[p] /\ e[p] <= f[p]
  <2> DEFINE S == Of(p)
  <2>1. e[p] = SumOver(d, S) /\ k[p] = Cardinality(S) /\ f[p] = a[p] + k[p]
    OBVIOUS
  <2>2. /\ IsFiniteSet(S) /\ Cardinality(S) \in Nat /\ S = HopsOf(x, p)
        /\ \A h \in S : d[h] = Duration(x, h) /\ d[h] \in Nat
    BY <1>3, <1>5
  <2>3. a[p] = PartOf(x, p) * Cardinality(S)
    BY <2>2 DEF Shares, Analysis
  <2> HIDE DEF S, e, k, f, Of
  <2>4. CASE S = {}
    <3>1. SumOver(d, S) = 0 /\ Cardinality(S) = 0 /\ PartOf(x, p) = 0
      BY <2>2, <2>4, SumOfNone, FS_EmptySet DEF PartOf
    <3> QED BY <2>1, <2>3, <3>1
  <2>5. CASE S # {}
    <3>1. MapThenSumSet(LAMBDA h : Duration(x, h), S) = SumOver(d, S)
      BY <2>2, DurationsAdded
    <3>2. PartOf(x, p) = SumOver(d, S) \div Cardinality(S)
      BY <2>2, <2>5, <3>1 DEF PartOf
    <3>3. Cardinality(S) \in Nat \ {0}
      BY <2>2, <2>5, FS_EmptySet
    <3>4. SumOver(d, S) \in Nat
      BY <2>2, SumIsNat
    <3> DEFINE v == SumOver(d, S)
               r == Cardinality(S)
    <3> HIDE DEF v, r
    <3>5. v \div r \in Nat /\ (v \div r) * r <= v /\ v <= (v \div r) * r + r
      BY <3>3, <3>4, QuotientTimes DEF v, r
    <3>6. a[p] = (v \div r) * r /\ e[p] = v /\ k[p] = r
      BY <2>1, <2>3, <3>2 DEF v, r
    <3>7. (v \div r) * r \in Int /\ v \in Int /\ r \in Int
      BY <3>3, <3>4, <3>5 DEF v, r
    <3> QED BY <2>1, <3>5, <3>6, <3>7
  <2> QED BY <2>4, <2>5
<1> HIDE DEF e, k, f
<1>9. SumOver(a, Parts) <= SumOver(e, Parts) /\ SumOver(e, Parts) <= SumOver(f, Parts)
  BY <1>4, <1>8, SumMonotone
<1>10. SumOver(f, Parts) = SumOver(a, Parts) + SumOver(k, Parts)
  BY <1>4, <1>8, SumOfSums
<1>11. SumOver(a, Parts) \in Int
  BY <1>4, <1>8, SumIsInt
<1> QED BY <1>6, <1>7, <1>9, <1>10, <1>11 DEF H

(***************************************************************************)
(* What the executor reports as parts of the latency adds up to it: the    *)
(* parts, each as often as the route has hops of it, are less than two     *)
(* microseconds per hop below the latency of the mean message, and never   *)
(* above it.                                                               *)
(***************************************************************************)
THEOREM PartsAddUpToLatency == Spec => []PartsAddUp
<1>1. Crossing => PartsAddUp
  <2> SUFFICES ASSUME Crossing, num > 0 PROVE PartsAddUp
    BY DEF PartsAddUp
  <2> DEFINE x == Mean
             d == [h \in 2 .. Len(x) |-> Duration(x, h)]
             a == [p \in Parts |-> Shares(x, p)]
             whole == MapThenSumSet(
                        LAMBDA p : Analysis(x)[p] * Cardinality(HopsOf(x, p)), Parts)
  <2>1. Whole(config, x) /\ config \in Config
    BY MeanIsWhole
  <2>2. PartsAddUp <=> /\ whole <= Micros(Latency(x))
                       /\ Micros(Latency(x)) < whole + 2 * Len(x)
    BY DEF PartsAddUp
  <2> HIDE DEF x
  <2>3. Len(x) \in Nat \ {0}
    BY <2>1, WholeLength
  <2>4. IsFiniteSet(Parts)
    <3>1. Parts = {"detached_receive"} \cup {"detached_send"} \cup {"first"}
                   \cup {"computation"} \cup {"passing"}
      BY DEF Parts
    <3> QED BY <3>1, FS_Singleton, FS_Union
  <2>5. \A p \in Parts : a[p] = Shares(x, p)
    OBVIOUS
  <2>6. \A h \in 2 .. Len(x) : d[h] = Duration(x, h)
    OBVIOUS
  <2> HIDE DEF a, d
  <2>7. whole = SumOver(a, Parts)
    BY <2>4, <2>5, SharesAdded
  <2> HIDE DEF whole
  <2>8. /\ \A h \in 2 .. Len(x) : d[h] \in Nat
        /\ SumOver(d, 2 .. Len(x)) <= Micros(Latency(x))
        /\ Micros(Latency(x)) <= SumOver(d, 2 .. Len(x)) + Len(x) - 1
        /\ SumOver(d, 2 .. Len(x)) \in Nat /\ Micros(Latency(x)) \in Nat
    BY <2>1, <2>6, DurationsAddUp
  <2>9. /\ SumOver(a, Parts) \in Int
        /\ SumOver(a, Parts) <= SumOver(d, 2 .. Len(x))
        /\ SumOver(d, 2 .. Len(x)) <= SumOver(a, Parts) + Len(x) - 1
    BY <2>3, <2>5, <2>6, <2>8, SharesAddUp
  <2> QED BY <2>2, <2>3, <2>7, <2>8, <2>9
<1> QED BY <1>1, CrossingHolds, PTL

-----------------------------------------------------------------------------
(***************************************************************************)
(* What the mean is of.                                                    *)
(***************************************************************************)

\* The time from the first hop to hop h in the samples ss.
Times(ss, h) == [k \in DOMAIN ss |-> ss[k][h].tp - ss[k][1].tp]

\* The sum holds the times of all samples, and those of the first one twice.
Summed ==
  /\ num = Len(samples)
  /\ \A k \in 1 .. num : Whole(config, samples[k])
  /\ num > 0 => \A h \in DOMAIN sum :
       sum[h].tp - sum[1].tp
         = SumOver(Times(samples, h), 1 .. num) + Times(samples, h)[1]

LEMMA TotalAdded ==
  ASSUME NEW h, num \in Nat, num = Len(samples), samples \in Seq(Seq(Hop))
  PROVE  Total(h) = SumOver(Times(samples, h), 1 .. num)
<1> DEFINE S == 1 .. num
           d == Times(samples, h)
           Fold(g) == g = [s \in SUBSET S |-> IF s = {} THEN 0
                             ELSE samples[Pick(s)][h].tp - samples[Pick(s)][1].tp
                                    + g[s \ {Pick(s)}]]
           g == CHOOSE g : Fold(g)
<1>0. IsFiniteSet(S) /\ \A k \in S : d[k] = samples[k][h].tp - samples[k][1].tp
  <2>1. DOMAIN samples = S
    OBVIOUS
  <2> QED BY <2>1, FS_Interval DEF Times
<1> HIDE DEF d, S
<1>1. Fold(g)
  <2>1. PICK f : IsFold(f, d, S)
    BY <1>0, AddsExists
  <2>2. ASSUME NEW s \in SUBSET S, s # {}
        PROVE  d[Pick(s)] = samples[Pick(s)][h].tp - samples[Pick(s)][1].tp
    BY <1>0, <2>2, Picked
  <2>3. Fold(f)
    BY <2>1, <2>2 DEF IsFold
  <2> HIDE DEF Fold
  <2> QED BY <2>3
<1>2. Total(h) = g[S]
  BY DEF Total, MapThenSumSet, MapThenFoldSet, Pick, S
<1> HIDE DEF g
<1>3. Adds(g, d, S)
  <2>1. ASSUME NEW s \in SUBSET S
        PROVE  g[s] = IF s = {} THEN 0 ELSE d[Pick(s)] + g[s \ {Pick(s)}]
    <3>1. g[s] = IF s = {} THEN 0
                 ELSE samples[Pick(s)][h].tp - samples[Pick(s)][1].tp + g[s \ {Pick(s)}]
      BY <1>1
    <3>2. s # {} => d[Pick(s)] = samples[Pick(s)][h].tp - samples[Pick(s)][1].tp
      BY <1>0, Picked
    <3> QED BY <3>1, <3>2
  <2> QED BY <2>1 DEF Adds
<1> QED BY <1>0, <1>2, <1>3, AddsSum DEF d, S

\* The time from the first hop to a later one, in whole messages.
LEMMA TimesOfWhole ==
  ASSUME NEW c \in Config, NEW x, Whole(c, x), NEW h \in DOMAIN x
  PROVE  /\ x[h].tp \in Nat /\ x[1].tp \in Nat /\ x[h].tp - x[1].tp \in Nat
         /\ h \in 1 .. Len(x) /\ 1 \in 1 .. Len(x)
<1>1. Len(x) \in Nat /\ Len(x) > 1 /\ \A i \in 1 .. Len(x) : x[i].tp \in Nat
  BY WholeLength
<1>2. x \in Seq(Hop) /\ \A i, j \in 1 .. Len(x) : i <= j => x[i].tp <= x[j].tp
  BY DEF Whole, Along
<1>3. h \in 1 .. Len(x) /\ 1 \in 1 .. Len(x) /\ 1 <= h
  BY <1>1, <1>2
<1>4. x[1].tp <= x[h].tp /\ x[h].tp \in Nat /\ x[1].tp \in Nat
  BY <1>1, <1>2, <1>3
<1> QED BY <1>3, <1>4

LEMMA ParallelSummed ==
  ASSUME Crossing, Summed, Parallel PROVE Summed'
<1> DEFINE y == message.hops
           x == IF sum = <<>> THEN y ELSE sum
           ss == Append(samples, y)
<1>1. config \in Config /\ samples \in Seq(Seq(Hop)) /\ num \in Nat
  BY DEF Crossing, TypeOK
<1>2. Whole(config, y)
  BY DoneIsWhole DEF Crossing, Parallel
<1>3. sum = <<>> \/ Whole(config, sum)
  BY DEF Crossing, SumOfRoutes
<1>4. ~ (sum # <<>> /\ ~ Comparable(sum, y))
  BY <1>1, <1>2, <1>3, WholesCompare
<1>5. sum' = Plus(sum, y) /\ num' = num + 1 /\ samples' = ss /\ config' = config
  BY <1>4 DEF Parallel
<1>6. Whole(config, x) /\ y \in Seq(Hop)
  BY <1>2, <1>3 DEF Whole, Along
<1>7. num = Len(samples) /\ \A k \in 1 .. num : Whole(config, samples[k])
  BY DEF Summed
<1>8. (num = 0 => sum = <<>>) /\ (num > 0 => sum # <<>>)
  <2>1. ~ Whole(config, <<>>)
    BY <1>1, WholeLength
  <2> QED BY <2>1, <1>1 DEF Crossing, SumOfRoutes
<1>9. DOMAIN x = DOMAIN y /\ DOMAIN x = 1 .. Len(y)
  BY <1>2, <1>6 DEF Whole, Along
<1> HIDE DEF y
<1>10. /\ Len(ss) = num + 1 /\ DOMAIN ss = 1 .. num + 1 /\ ss[num + 1] = y
       /\ \A k \in 1 .. num : ss[k] = samples[k]
  BY <1>1, <1>6, <1>7
<1>11. \A k \in 1 .. num + 1 : Whole(config, ss[k])
  BY <1>1, <1>2, <1>7, <1>10
<1> HIDE DEF ss
<1>12. \A h \in DOMAIN x :
         Plus(sum, y)[h] = IF h = 1 THEN x[1]
                           ELSE [x[h] EXCEPT !.tp = @ + y[h].tp - y[1].tp]
  BY DEF Plus
<1>13. DOMAIN Plus(sum, y) = DOMAIN x
  BY DEF Plus
<1>14. ASSUME NEW h \in DOMAIN x
       PROVE  sum'[h].tp - sum'[1].tp
                = SumOver(Times(ss, h), 1 .. num + 1) + Times(ss, h)[1]
  <2> DEFINE t == Times(ss, h)
             u == y[h].tp - y[1].tp
             v == x[h].tp - x[1].tp
  <2>1. /\ x[h].tp \in Nat /\ x[1].tp \in Nat /\ y[h].tp \in Nat /\ y[1].tp \in Nat
        /\ u \in Nat /\ v \in Nat /\ 1 \in DOMAIN x
    BY <1>1, <1>2, <1>6, <1>9, TimesOfWhole
  <2>2. sum'[1].tp = x[1].tp
    BY <1>5, <1>12, <2>1
  <2>3. sum'[h].tp - sum'[1].tp = v + u
    <3>1. CASE h = 1
      BY <3>1, <2>1, <2>2
    <3>2. CASE h # 1
      <4>1. sum'[h] = [x[h] EXCEPT !.tp = @ + y[h].tp - y[1].tp]
        BY <1>5, <1>12, <3>2
      <4>2. x[h] \in Hop
        BY <1>6, <1>9 DEF Whole, Along
      <4>3. sum'[h].tp = x[h].tp + y[h].tp - y[1].tp
        BY <4>1, <4>2 DEF Hop
      <4> QED BY <4>3, <2>1, <2>2
    <3> QED BY <3>1, <3>2
  <2>4. \A k \in 1 .. num + 1 : t[k] = ss[k][h].tp - ss[k][1].tp
    BY <1>10 DEF Times
  <2>5. \A k \in 1 .. num + 1 : t[k] \in Nat
    <3> SUFFICES ASSUME NEW k \in 1 .. num + 1 PROVE t[k] \in Nat
      OBVIOUS
    <3>1. Whole(config, ss[k])
      BY <1>11
    <3>2. DOMAIN ss[k] = DOMAIN x
      BY <3>1, <1>6 DEF Whole, Along
    <3>3. ss[k][h].tp - ss[k][1].tp \in Nat
      BY <1>1, <3>1, <3>2, TimesOfWhole
    <3> QED BY <2>4, <3>3
  <2>6. t[num + 1] = u
    BY <1>1, <1>10, <2>4
  <2>7. SumOver(t, 1 .. num + 1) = u + SumOver(t, 1 .. num)
    <3>1. 1 .. num + 1 = (1 .. num) \cup {num + 1} /\ num + 1 \notin 1 .. num
      BY <1>1
    <3>2. IsFiniteSet(1 .. num) /\ \A k \in (1 .. num) \cup {num + 1} : t[k] \in Int
      BY <1>1, <2>5, <3>1, FS_Interval
    <3> HIDE DEF t
    <3>3. SumOver(t, (1 .. num) \cup {num + 1}) = t[num + 1] + SumOver(t, 1 .. num)
      BY <3>1, <3>2, SumAdds
    <3> QED BY <2>6, <3>1, <3>3
  <2>8. SumOver(t, 1 .. num) + t[1] = v
    <3>1. CASE num = 0
      <4>1. 1 .. num = {} /\ t[1] = u /\ x = y
        BY <3>1, <2>6, <1>8
      <4> HIDE DEF t
      <4>2. SumOver(t, 1 .. num) = 0 /\ u = v
        BY <4>1, SumOfNone
      <4> HIDE DEF u, v
      <4> QED BY <4>1, <4>2, <2>1
    <3>2. CASE num > 0
      <4>1. x = sum
        BY <1>8, <3>2
      <4> DEFINE r == Times(samples, h)
      <4>2. \A k \in 1 .. num : r[k] = t[k]
        <5>1. DOMAIN samples = 1 .. num
          BY <1>1, <1>7
        <5> QED BY <5>1, <1>1, <1>10, <2>4 DEF Times
      <4>3. v = SumOver(r, 1 .. num) + r[1]
        BY <3>2, <4>1 DEF Summed
      <4>4. IsFiniteSet(1 .. num) /\ 1 \in 1 .. num
        BY <1>1, <3>2, FS_Interval
      <4> HIDE DEF r, t, v
      <4>5. SumOver(r, 1 .. num) = SumOver(t, 1 .. num)
        BY <4>2, <4>4, SumSame
      <4> QED BY <4>2, <4>3, <4>4, <4>5
    <3> QED BY <1>1, <3>1, <3>2
  <2>9. SumOver(t, 1 .. num) \in Int /\ t[1] \in Int
    <3>1. IsFiniteSet(1 .. num) /\ \A k \in 1 .. num : t[k] \in Int
      BY <1>1, <2>5, FS_Interval
    <3>2. 1 \in 1 .. num + 1
      BY <1>1
    <3>3. t[1] \in Int
      BY <2>5, <3>2
    <3> HIDE DEF t
    <3> QED BY <3>1, <3>3, SumIsInt
  <2> HIDE DEF t, u, v
  <2>10. v + u = SumOver(t, 1 .. num + 1) + t[1]
    BY <2>1, <2>7, <2>8, <2>9
  <2> QED BY <2>3, <2>10 DEF t, u, v
<1> QED BY <1>5, <1>10, <1>11, <1>13, <1>14 DEF Summed

LEMMA SummedHolds == Spec => []Summed
<1>1. Init => Summed
  <2> SUFFICES ASSUME Init PROVE Summed OBVIOUS
  <2>1. num = 0 /\ samples = <<>> /\ 1 .. num = {}
    BY DEF Init
  <2> QED BY <2>1 DEF Summed
<1>2. Crossing /\ Summed /\ [Next]_vars => Summed'
  <2> SUFFICES ASSUME Crossing, Summed, [Next]_vars PROVE Summed' OBVIOUS
  <2>1. CASE UNCHANGED <<config, sum, num, samples>>
    BY <2>1 DEF Summed
  <2>2. CASE Parallel
    BY <2>2, ParallelSummed
  <2>3. NewMessage \/ Cross \/ Finished \/ UNCHANGED vars
          => UNCHANGED <<config, sum, num, samples>>
    BY DEF NewMessage, Cross, Finished, vars
  <2> QED BY <2>1, <2>2, <2>3 DEF Next
<1> QED BY <1>1, <1>2, CrossingHolds, PTL DEF Spec

(***************************************************************************)
(* However many messages are averaged, the mean of every hop is at least   *)
(* the mean of the samples, and at most what it would be with the first    *)
(* sample counted twice: the mistake of operator+= fades.                  *)
(***************************************************************************)
THEOREM MeanIsApproached == Spec => []MeanApproached
<1>1. Crossing /\ Summed => MeanApproached
  <2> SUFFICES ASSUME Crossing, Summed, NEW h \in DOMAIN Mean
               PROVE  LET t == Mean[h].tp - Mean[1].tp IN
                        /\ t >= Total(h) \div num
                        /\ t <= (Total(h) + samples[1][h].tp - samples[1][1].tp) \div num
    BY DEF MeanApproached
  <2>1. num \in Nat /\ config \in Config /\ samples \in Seq(Seq(Hop))
    BY DEF Crossing, TypeOK
  <2>2. num > 0
    <3> SUFFICES ASSUME num = 0 PROVE FALSE
      BY <2>1
    <3> QED BY DEF Mean
  <2>3. Whole(config, sum)
    BY <2>1, <2>2 DEF Crossing, SumOfRoutes
  <2>4. /\ num = Len(samples) /\ \A k \in 1 .. num : Whole(config, samples[k])
        /\ \A i \in DOMAIN sum :
             sum[i].tp - sum[1].tp
               = SumOver(Times(samples, i), 1 .. num) + Times(samples, i)[1]
    BY <2>2 DEF Summed
  <2>5. Mean = Divided(sum, num)
    BY <2>1, <2>2 DEF Mean
  <2>6. DOMAIN Mean = DOMAIN sum /\ h \in DOMAIN sum
    BY <2>5 DEF Divided
  <2> DEFINE d == Times(samples, h)
             a == SumOver(d, 1 .. num)
             b == a + d[1]
  <2>7. \A k \in 1 .. num : d[k] \in Nat /\ d[k] = samples[k][h].tp - samples[k][1].tp
    <3> SUFFICES ASSUME NEW k \in 1 .. num
                 PROVE  d[k] \in Nat /\ d[k] = samples[k][h].tp - samples[k][1].tp
      OBVIOUS
    <3>1. Whole(config, samples[k]) /\ k \in DOMAIN samples
      BY <2>1, <2>4
    <3>2. DOMAIN samples[k] = DOMAIN sum
      BY <2>3, <3>1 DEF Whole, Along
    <3>3. samples[k][h].tp - samples[k][1].tp \in Nat
      BY <2>1, <2>6, <3>1, <3>2, TimesOfWhole
    <3> QED BY <3>1, <3>3 DEF Times
  <2>8. Total(h) = a
    BY <2>1, <2>4, TotalAdded
  <2>9. sum[h].tp - sum[1].tp = b
    BY <2>4, <2>6
  <2>10. 1 \in 1 .. num
    BY <2>1, <2>2
  <2>11. /\ sum[1].tp \in Nat /\ sum[h].tp \in Nat /\ sum[h].tp - sum[1].tp \in Nat
         /\ 1 \in DOMAIN sum /\ sum[h] \in Hop /\ sum[1] \in Hop
    <3>1. /\ sum[1].tp \in Nat /\ sum[h].tp \in Nat /\ sum[h].tp - sum[1].tp \in Nat
          /\ h \in 1 .. Len(sum) /\ 1 \in 1 .. Len(sum)
      BY <2>1, <2>3, <2>6, TimesOfWhole
    <3> QED BY <2>3, <3>1 DEF Whole, Along
  <2> HIDE DEF d
  <2>12. a \in Nat /\ d[1] \in Nat
    <3>1. IsFiniteSet(1 .. num)
      BY <2>1, FS_Interval
    <3> QED BY <2>7, <2>10, <3>1, SumIsNat
  <2>13. Mean[h].tp - Mean[1].tp = b \div num
    <3>1. Mean[h] = [sum[h] EXCEPT !.tp = sum[1].tp + ((@ - sum[1].tp) \div num)]
      BY <2>5, <2>6 DEF Divided
    <3>2. Mean[1] = [sum[1] EXCEPT !.tp = sum[1].tp + ((@ - sum[1].tp) \div num)]
      BY <2>5, <2>11 DEF Divided
    <3>3. /\ Mean[h].tp = sum[1].tp + ((sum[h].tp - sum[1].tp) \div num)
          /\ Mean[1].tp = sum[1].tp + ((sum[1].tp - sum[1].tp) \div num)
      BY <2>11, <3>1, <3>2 DEF Hop
    <3>4. (sum[1].tp - sum[1].tp) \div num = 0
      BY <2>1, <2>2, <2>11
    <3>5. b \div num \in Nat
      BY <2>1, <2>2, <2>9, <2>11, QuotientTimes
    <3> HIDE DEF b
    <3> QED BY <2>9, <2>11, <3>3, <3>4, <3>5
  <2>14. d[1] = samples[1][h].tp - samples[1][1].tp
    BY <2>7, <2>10
  <2>15. a <= b /\ b \in Nat /\ num \in Nat \ {0}
    BY <2>1, <2>2, <2>12
  <2>16. a \div num <= b \div num /\ a \div num \in Nat /\ b \div num \in Nat
    <3> HIDE DEF a, b
    <3> QED BY <2>12, <2>15, DivisionMonotone
  <2>17. Total(h) + samples[1][h].tp - samples[1][1].tp = b
    <3>1. samples[1][h].tp \in Nat /\ samples[1][1].tp \in Nat
      <4>1. Whole(config, samples[1])
        BY <2>4, <2>10
      <4>2. DOMAIN samples[1] = DOMAIN sum
        BY <2>3, <4>1 DEF Whole, Along
      <4> QED BY <2>1, <2>6, <4>1, <4>2, TimesOfWhole
    <3> HIDE DEF a
    <3> QED BY <2>8, <2>12, <2>14, <3>1
  <2> HIDE DEF a, b
  <2> QED BY <2>8, <2>13, <2>16, <2>17
<1> QED BY <1>1, CrossingHolds, SummedHolds, PTL
=============================================================================
