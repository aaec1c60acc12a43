---------------------------- MODULE Delivering_proofs ----------------------------
(***************************************************************************)
(* The measurements of a chain are delivered in the order in which its     *)
(* messages were sent, for every number and length of chains, either       *)
(* route, every pool and every interleaving, while the chains are being    *)
(* stopped too.                                                            *)
(*                                                                         *)
(* DeliveredInTurn looks at what is delivered and is not inductive.  The   *)
(* invariant Flow looks at what is under way in a chain: a measurement     *)
(* that has more links behind it, or is in front of another, was sent      *)
(* earlier (InOrder); the measurements have numbers of the chain that are  *)
(* not delivered yet (Numbered); those that can still arrive follow each   *)
(* other without a gap (NoGap), and while the head lives none is missing   *)
(* (AllThere).  What can still arrive depends on the stop, which goes      *)
(* through a chain from the head (FromTheHead): once the head has quit     *)
(* nothing comes back through it.                                          *)
(*                                                                         *)
(* In any sending order the measurements of a chain stay in order (Lines), *)
(* and what can still arrive is a queue: every step of the system is a     *)
(* step of ChainQueue or none (Advances).                                  *)
(***************************************************************************)
EXTENDS Measuring_proofs

\* The number of the message that the chain c gets in the turn k, from 0.
Nth(c, k) == c + k * ChainsNumber

\* The measurements of the chain c that have been taken.
TakenOf(c) == {j \in DOMAIN received : received[j].chain = c}
Taken(c) == Cardinality(TakenOf(c))

\* A measurement of the chain c in the place i of a's mailbox, its number and
\* the links behind it.
OnItsWay(c, a, i) == mbox[a][i].type \in TimedType /\ mbox[a][i].chain = c
Id(a, i) == mbox[a][i].id
Hops(a, i) == mbox[a][i].hops

Ahead(a, i, b, j) == Hops(a, i) > Hops(b, j) \/ (Hops(a, i) = Hops(b, j) /\ a = b /\ i < j)

InOrder(c) ==
  \A a, b \in Actor : \A i \in DOMAIN mbox[a], j \in DOMAIN mbox[b] :
    OnItsWay(c, a, i) /\ OnItsWay(c, b, j) /\ Ahead(a, i, b, j) => Id(a, i) < Id(b, j)

\* The measurement n of the chain c is at a, is under way, and can still arrive.
At(c, a, n) == \E i \in DOMAIN mbox[a] : OnItsWay(c, a, i) /\ Id(a, i) = n
There(c, n) == \E a \in Actor : At(c, a, n)

Coming(c, n) == \E a \in Actor : At(c, a, n) /\ Arriving(c, a)

Numbered(c) ==
  \A n \in Nat : There(c, n) =>
    n <= msg_counter_ /\ \E k \in Nat : k >= Taken(c) /\ n = Nth(c, k)

NoGap(c) ==
  \A n \in Nat : Coming(c, n) /\ n > Nth(c, Taken(c)) => Coming(c, n - ChainsNumber)

AllThere(c) ==
  HeadOf(c) \in live =>
    \A k \in Nat : k >= Taken(c) /\ Nth(c, k) <= msg_counter_ => There(c, Nth(c, k))

\* Nothing is taken that was not sent.
WasSent(c) == \A k \in Nat : k < Taken(c) => Nth(c, k) <= msg_counter_

\* What is under way has been sent.
Listed(c) == \A n : There(c, n) => n \in Nat /\ 1 <= n /\ n <= msg_counter_

Flow(c) == InOrder(c) /\ Numbered(c) /\ NoGap(c) /\ AllThere(c) /\ WasSent(c)

\* The rate generator serves the chains in turn.
Turns ==
  /\ rg_state \in {"absent", "spawned"} => msg_counter_ = 0
  /\ RoundRobin /\ rg_state = "sending" =>
       \E k \in Nat : msg_counter_ = rg_index + k * ChainsNumber

\* An actor that has quit, or is told to, has none before it that lives.
FromTheHead ==
  \A a, b \in ChainActor :
    a[1] = b[1] /\ b[2] < a[2] /\ ((a \notin live /\ Spawned(a)) \/ Has(a, "kill"))
      => b \notin live

Flows == RoundRobin => DeliveredInTurn /\ (Executor \in live => \A c \in Chains : Flow(c))

\* In any sending order a measurement is behind those that were sent before it.
Lines == Executor \in live => \A c \in Chains : InOrder(c) /\ Listed(c)

\* The rate generator is spawned when all the chains are.
AllBuilt == rg_state # "absent" => chains_built = ChainsNumber

Delivery == Turns /\ FromTheHead /\ Flows /\ Lines /\ AllBuilt

-----------------------------------------------------------------------------
(* Numbers and places.                                                     *)

LEMMA ChainsTyped ==
  /\ ChainsNumber \in Nat
  /\ \A c \in Chains : c \in Nat /\ c >= 1 /\ c <= ChainsNumber
BY ConfigAssumption DEF Chains

\* The numbers of a chain go up by the number of chains.
LEMMA NthUp ==
  ASSUME NEW c \in Chains, NEW k \in Nat
  PROVE  /\ Nth(c, k) \in Nat /\ Nth(c, k) >= 1
         /\ Nth(c, k + 1) = Nth(c, k) + ChainsNumber
         /\ k > 0 => Nth(c, k) - ChainsNumber = Nth(c, k - 1)
<1>1. ChainsNumber \in Nat /\ c \in Nat /\ c >= 1
  BY ChainsTyped
<1>2. k * ChainsNumber \in Nat /\ (k + 1) * ChainsNumber = k * ChainsNumber + ChainsNumber
      /\ k * ChainsNumber = (k - 1) * ChainsNumber + ChainsNumber
      /\ (k - 1) * ChainsNumber \in Int
  BY <1>1
<1> QED BY <1>1, <1>2 DEF Nth

\* A later turn has a higher number, whatever the chain, if it comes a turn
\* later at least.
LEMMA NthLess ==
  ASSUME NEW c \in Chains, NEW d \in Chains, NEW k \in Nat, NEW j \in Nat, k < j
  PROVE  Nth(c, k) < Nth(d, j) /\ (c = d => Nth(c, k) + ChainsNumber <= Nth(c, j))
<1> DEFINE r == j - (k + 1)
           x == k * ChainsNumber
           y == r * ChainsNumber
           z == j * ChainsNumber
<1>1. /\ ChainsNumber \in Nat /\ c \in Nat /\ c >= 1 /\ c <= ChainsNumber /\ d \in Nat /\ d >= 1
  BY ChainsTyped
<1>2. r \in Nat /\ j = k + 1 + r
  OBVIOUS
<1> HIDE DEF r
<1>3. x \in Nat /\ y \in Nat /\ z = x + ChainsNumber + y
  BY <1>1, <1>2
<1>4. Nth(c, k) = c + x /\ Nth(d, j) = d + z /\ Nth(c, j) = c + z
  BY DEF Nth
<1> HIDE DEF x, y, z
<1> QED BY <1>1, <1>3, <1>4

\* A message has one chain and one turn.
LEMMA NthOne ==
  ASSUME NEW c \in Chains, NEW d \in Chains, NEW k \in Nat, NEW j \in Nat,
         Nth(c, k) = Nth(d, j)
  PROVE  c = d /\ k = j
<1>1. Nth(c, k) \in Nat /\ Nth(d, j) \in Nat /\ ChainsNumber \in Nat
  BY NthUp, ChainsTyped
<1>2. ~ (k < j) /\ ~ (j < k)
  BY <1>1, NthLess
<1>3. k = j
  BY <1>2
<1>4. /\ k * ChainsNumber \in Nat /\ c \in Nat /\ d \in Nat
      /\ Nth(c, k) = c + k * ChainsNumber /\ Nth(d, j) = d + k * ChainsNumber
  BY <1>1, <1>3, ChainsTyped DEF Nth
<1>5. c = d
  <2> DEFINE x == k * ChainsNumber
  <2>1. x \in Nat /\ Nth(c, k) = c + x /\ Nth(d, j) = d + x
    BY <1>4
  <2>2. c + x = d + x
    BY <2>1
  <2>3. c \in Nat /\ d \in Nat
    BY <1>4
  <2> HIDE DEF x
  <2> QED BY <2>1, <2>2, <2>3
<1> QED BY <1>3, <1>5

LEMMA TakenTyped ==
  ASSUME Typed, NEW c
  PROVE  IsFiniteSet(TakenOf(c)) /\ Taken(c) \in Nat
         /\ received \in Seq([id : Nat, chain : Nat])
<1>1. received \in Seq([id : Nat, chain : Nat])
  BY DEF Typed, ExecTypeOK
<1>2. DOMAIN received = 1 .. Len(received) /\ Len(received) \in Nat
  BY <1>1
<1>3. IsFiniteSet(DOMAIN received)
  BY <1>2, FS_Interval
<1>4. TakenOf(c) \subseteq DOMAIN received
  BY DEF TakenOf
<1>5. IsFiniteSet(TakenOf(c))
  BY <1>3, <1>4, FS_Subset
<1> QED BY <1>1, <1>5, FS_CardinalityType DEF Taken

\* One more measurement is taken.
LEMMA TakenStep ==
  ASSUME Typed, NEW e \in [id : Nat, chain : Nat], received' = Append(received, e), NEW c
  PROVE  /\ Taken(c)' = IF e.chain = c THEN Taken(c) + 1 ELSE Taken(c)
         /\ DOMAIN received' = 1 .. Len(received) + 1 /\ Len(received) \in Nat
         /\ received'[Len(received) + 1] = e
         /\ \A i \in DOMAIN received : i \in 1 .. Len(received) /\ received'[i] = received[i]
<1> DEFINE n == Len(received)
<1>1. IsFiniteSet(TakenOf(c)) /\ Taken(c) \in Nat /\ received \in Seq([id : Nat, chain : Nat])
  BY TakenTyped
<1>2. /\ n \in Nat /\ DOMAIN received = 1 .. n /\ DOMAIN received' = 1 .. n + 1
      /\ received'[n + 1] = e /\ \A i \in 1 .. n : received'[i] = received[i]
  BY <1>1
<1> HIDE DEF n
<1>3. TakenOf(c)' = {j \in DOMAIN received' : received'[j].chain = c}
  BY DEF TakenOf
<1>4. TakenOf(c)' = IF e.chain = c THEN TakenOf(c) \cup {n + 1} ELSE TakenOf(c)
  BY <1>2, <1>3 DEF TakenOf
<1>5. n + 1 \notin TakenOf(c)
  BY <1>2 DEF TakenOf
<1>6. Cardinality(TakenOf(c) \cup {n + 1}) = Cardinality(TakenOf(c)) + 1
  BY <1>1, <1>5, FS_AddElement
<1>7. Taken(c)' = Cardinality(TakenOf(c)')
  BY DEF Taken
<1>8. Taken(c)' = IF e.chain = c THEN Taken(c) + 1 ELSE Taken(c)
  BY <1>4, <1>6, <1>7 DEF Taken
<1> QED BY <1>2, <1>8 DEF n

\* Where a measurement is, and how many links are behind it.
LEMMA Placed ==
  ASSUME Typed, Routed, NEW c, NEW a \in Actor, NEW i \in DOMAIN mbox[a], OnItsWay(c, a, i)
  PROVE  /\ mbox[a][i] \in ProbeMsg /\ Id(a, i) \in Nat /\ Hops(a, i) \in Nat
         /\ i \in Nat /\ i >= 1 /\ Hops(a, i) >= 1
         /\ a = Executor => Hops(a, i) = Links + 2
         /\ a # Executor => /\ a \in ChainActor /\ a[1] = c
                            /\ \/ Hops(a, i) = a[2] + 1
                               \/ /\ ForthAndBack /\ ~ IsTail(a)
                                  /\ Hops(a, i) = 2 * PipelineActors - 1 - a[2]
<1> DEFINE m == mbox[a][i]
<1>1. mbox[a] \in Seq(Message) /\ m \in Message /\ i \in Nat /\ i >= 1 /\ m \in Contents(a)
  <2>1. mbox[a] \in Seq(Message)
    BY DEF Typed, SystemTypeOK
  <2> QED BY <2>1 DEF Contents, ToSet
<1>2. m.type \in TimedType /\ m.chain = c /\ m.type \in ProbeType
  BY DEF OnItsWay, TimedType, ProbeType
<1>3. m \in ProbeMsg
  <2>1. m.type \notin SignalType \cup {"init_bench", "init_bench_reply", "system_building"}
    BY <1>2 DEF TimedType, SignalType
  <2> QED BY <1>1, <2>1 DEF Message, SignalMsg, InitBenchMsg, HeadMsg
<1>4. OnRoute(a, m)
  BY <1>1, <1>2 DEF Routed
<1>5. m.id \in Nat /\ m.hops \in Nat
  BY <1>3, FieldTyped
<1>6. Links \in Nat /\ Links > 0
  BY LinksCounted
<1>7. Executor \notin ChainActor
  BY ActorKinds DEF MainActor
<1> HIDE DEF m
<1>8. CASE m.type = "timed_msg"
  <2>1. a \in ChainActor /\ c = a[1] /\ m.hops = a[2] + 1
    BY <1>2, <1>4, <1>8 DEF OnRoute, OnTheWayForth
  <2>2. a[2] \in Nat
    <3>1. a[2] \in 0 .. PipelineActors - 1
      BY <2>1, Neighbours
    <3> QED BY <3>1
  <2> QED BY <1>1, <1>3, <1>5, <1>7, <2>1, <2>2 DEF m, Id, Hops
<1>9. CASE m.type = "timed_msg_back"
  <2>1. a \in ChainActor /\ c = a[1] /\ m.hops = 2 * PipelineActors - 1 - a[2] /\ ForthAndBack
        /\ ~ IsTail(a)
    BY <1>2, <1>4, <1>9 DEF OnRoute, OnTheWayBack
  <2>2. a[2] \in 0 .. PipelineActors - 1 /\ PipelineActors \in Nat /\ PipelineActors > 1
    BY <2>1, Neighbours
  <2>3. m.hops >= 1
    BY <2>1, <2>2
  <2> QED BY <1>1, <1>3, <1>5, <1>7, <2>1, <2>3 DEF m, Id, Hops
<1>10. CASE m.type = "parallel"
  <2>1. a = Executor /\ m.hops = Links + 2
    BY <1>4, <1>10 DEF OnRoute
  <2> QED BY <1>1, <1>3, <1>5, <1>6, <2>1 DEF m, Id, Hops
<1> QED BY <1>2, <1>8, <1>9, <1>10 DEF TimedType

\* As many links behind them, in the same place; the executor is the last one.
LEMMA SameHops ==
  ASSUME Typed, Routed, NEW c, NEW a \in Actor, NEW b \in Actor,
         NEW i \in DOMAIN mbox[a], NEW j \in DOMAIN mbox[b],
         OnItsWay(c, a, i), OnItsWay(c, b, j)
  PROVE  /\ Hops(a, i) = Hops(b, j) => a = b
         /\ a = Executor /\ b # Executor => Hops(a, i) > Hops(b, j)
<1>1. /\ Hops(a, i) \in Nat /\ Hops(b, j) \in Nat
      /\ a = Executor => Hops(a, i) = Links + 2
      /\ b = Executor => Hops(b, j) = Links + 2
      /\ a # Executor => /\ a \in ChainActor /\ a[1] = c
                         /\ \/ Hops(a, i) = a[2] + 1
                            \/ /\ ForthAndBack /\ ~ IsTail(a)
                               /\ Hops(a, i) = 2 * PipelineActors - 1 - a[2]
      /\ b # Executor => /\ b \in ChainActor /\ b[1] = c
                         /\ \/ Hops(b, j) = b[2] + 1
                            \/ /\ ForthAndBack /\ ~ IsTail(b)
                               /\ Hops(b, j) = 2 * PipelineActors - 1 - b[2]
  BY Placed
<1>2. \A x \in ChainActor : x = <<x[1], x[2]>> /\ x[2] \in 0 .. PipelineActors - 1
  BY Neighbours
<1>3. PipelineActors \in Nat /\ PipelineActors > 1
  BY ConfigAssumption DEF is_valid
<1>4. Links = IF ForthAndBack THEN 2 * PipelineActors - 2 ELSE PipelineActors - 1
  BY DEF Links
<1>5. \A x : IsTail(x) <=> x[2] = PipelineActors - 1
  BY DEF IsTail
<1> DEFINE m == Hops(a, i)
           n == Hops(b, j)
<1> HIDE DEF m, n
<1>6. ASSUME a # Executor PROVE m < Links + 2
  BY <1>1, <1>2, <1>3, <1>4, <1>5, <1>6 DEF m
<1>7. ASSUME b # Executor PROVE n < Links + 2
  BY <1>1, <1>2, <1>3, <1>4, <1>5, <1>7 DEF n
<1>8. ASSUME a # Executor, b # Executor, m = n PROVE a = b
  <2>1. /\ a[1] = c /\ b[1] = c /\ a = <<a[1], a[2]>> /\ b = <<b[1], b[2]>>
        /\ a[2] \in 0 .. PipelineActors - 1 /\ b[2] \in 0 .. PipelineActors - 1
        /\ m = a[2] + 1 \/ (a[2] # PipelineActors - 1 /\ m = 2 * PipelineActors - 1 - a[2])
        /\ n = b[2] + 1 \/ (b[2] # PipelineActors - 1 /\ n = 2 * PipelineActors - 1 - b[2])
    BY <1>1, <1>2, <1>5, <1>8 DEF m, n
  <2>2. a[2] = b[2]
    BY <1>3, <1>8, <2>1
  <2> QED BY <2>1, <2>2
<1>9. m \in Nat /\ n \in Nat /\ Links + 2 \in Nat
      /\ (a = Executor => m = Links + 2) /\ (b = Executor => n = Links + 2)
  BY <1>1, LinksCounted DEF m, n
<1>10. m = n => a = b
  BY <1>6, <1>7, <1>8, <1>9
<1>11. a = Executor /\ b # Executor => m > n
  BY <1>7, <1>9
<1> QED BY <1>10, <1>11 DEF m, n

\* A measurement of the chain c is sent to h.
NewTo(c, out, h, y) == out[h] = <<y>> /\ y.type \in TimedType /\ y.chain = c

\* A measurement that is under way after a step has been sent just now, and is
\* the last one where it is, or it was there before.
LEMMA CameFrom ==
  ASSUME Typed, NEW self, NEW out, Parcel(out), Arrives(self, out),
         NEW c, NEW a \in Actor, NEW i \in DOMAIN mbox'[a],
         mbox'[a][i].type \in TimedType, mbox'[a][i].chain = c
  PROVE  /\ i \in Nat
         /\ \/ /\ NewTo(c, out, a, mbox'[a][i]) /\ \A k \in DOMAIN mbox'[a] : k <= i
            \/ LET j == Before(self, a, i)
               IN  /\ j \in DOMAIN mbox[a] /\ mbox[a][j] = mbox'[a][i] /\ OnItsWay(c, a, j)
                   /\ a = self => j > 1
<1>1. /\ i \in Nat \ {0}
      /\ \/ out[a] = <<mbox'[a][i]>> /\ \A j \in DOMAIN mbox'[a] : j <= i
         \/ LET j == IF a = self THEN i + 1 ELSE i
            IN  j \in DOMAIN mbox[a] /\ mbox[a][j] = mbox'[a][i]
  BY Backwards DEF Typed
<1> QED BY <1>1 DEF NewTo, Before, OnItsWay

\* The measurement n is at a, and self does not take it.
Stays(c, self, a, n) ==
  \E i \in DOMAIN mbox[a] : OnItsWay(c, a, i) /\ Id(a, i) = n /\ (a = self => i > 1)

\* What stays is there after the step, and so is what is sent, where the actor
\* lives; nothing else is.
LEMMA AtStep ==
  ASSUME Typed, NEW self, NEW out, Parcel(out), Arrives(self, out),
         NEW c, NEW a \in Actor, NEW n
  PROVE  /\ a \in live' /\ Stays(c, self, a, n) => At(c, a, n)'
         /\ a \in live' /\ (\E y : NewTo(c, out, a, y) /\ y.id = n) => At(c, a, n)'
         /\ At(c, a, n)' =>
              a \in live' /\ (Stays(c, self, a, n) \/ \E y : NewTo(c, out, a, y) /\ y.id = n)
<1>1. ASSUME a \in live', NEW i \in DOMAIN mbox[a], OnItsWay(c, a, i), Id(a, i) = n,
             a = self => i > 1
      PROVE  At(c, a, n)'
  <2> DEFINE j == IF a = self THEN i - 1 ELSE i
  <2>1. j \in DOMAIN mbox'[a] /\ mbox'[a][j] = mbox[a][i]
    BY <1>1, Forwards DEF Typed
  <2> HIDE DEF j
  <2> QED BY <1>1, <2>1 DEF At, OnItsWay, Id
<1>2. ASSUME a \in live', NEW y, NewTo(c, out, a, y), y.id = n PROVE At(c, a, n)'
  <2>1. y \in Contents(a)'
    BY <1>2, Arrivals DEF Typed, NewTo
  <2>2. PICK i \in DOMAIN mbox'[a] : mbox'[a][i] = y
    BY <2>1 DEF Contents, ToSet
  <2> QED BY <1>2, <2>2 DEF At, OnItsWay, Id, NewTo
<1>3. ASSUME At(c, a, n)'
      PROVE  a \in live' /\ (Stays(c, self, a, n) \/ \E y : NewTo(c, out, a, y) /\ y.id = n)
  <2>1. PICK i \in DOMAIN mbox'[a] :
          mbox'[a][i].type \in TimedType /\ mbox'[a][i].chain = c /\ mbox'[a][i].id = n
    BY <1>3 DEF At, OnItsWay, Id
  <2>2. \/ NewTo(c, out, a, mbox'[a][i])
        \/ LET j == Before(self, a, i)
           IN  /\ j \in DOMAIN mbox[a] /\ mbox[a][j] = mbox'[a][i] /\ OnItsWay(c, a, j)
               /\ a = self => j > 1
    BY <2>1, CameFrom
  <2>3. a \in live'
    <3>1. DOMAIN <<>> = {} /\ mbox'[a] = Delivered(self, out, live', a)
      BY DEF Arrives
    <3> QED BY <3>1 DEF Delivered
  <2> QED BY <2>1, <2>2, <2>3 DEF Stays, Id
<1> QED BY <1>1, <1>2, <1>3 DEF Stays

\* A measurement that does not stay is the first message of self.
LEMMA StaysOrFirst ==
  ASSUME Typed, NEW self, NEW c, NEW a \in Actor, NEW n, At(c, a, n)
  PROVE  \/ Stays(c, self, a, n)
         \/ /\ a = self /\ mbox[a] # <<>> /\ 1 \in DOMAIN mbox[a] /\ mbox[a][1] = Head(mbox[a])
            /\ OnItsWay(c, a, 1) /\ Id(a, 1) = n
<1>1. PICK i \in DOMAIN mbox[a] : OnItsWay(c, a, i) /\ Id(a, i) = n
  BY DEF At
<1>2. mbox[a] \in Seq(Message)
  BY DEF Typed, SystemTypeOK
<1>3. i \in Nat /\ i >= 1 /\ mbox[a] # <<>> /\ mbox[a][1] = Head(mbox[a])
  BY <1>2
<1>4. i > 1 \/ i = 1
  BY <1>3
<1> QED BY <1>1, <1>3, <1>4 DEF Stays

\* Only the actors of a chain and the executor have its measurements, and only
\* while they live.
LEMMA AtLives ==
  ASSUME Typed, Startup, Routed, NEW c, NEW a \in Actor, NEW n, At(c, a, n)
  PROVE  n \in Nat /\ a \in live /\ (a = Executor \/ a \in ChainOf(c))
<1>1. PICK i \in DOMAIN mbox[a] : OnItsWay(c, a, i) /\ Id(a, i) = n
  BY DEF At
<1>2. n \in Nat /\ (a # Executor => a \in ChainActor /\ a[1] = c)
  BY <1>1, Placed
<1>3. DOMAIN <<>> = {}
  OBVIOUS
<1>4. a \in live
  BY <1>1, <1>3 DEF Startup, DeadEmpty
<1> QED BY <1>2, <1>4 DEF ChainOf

LEMMA StaysAt ==
  ASSUME NEW c, NEW self, NEW a, NEW n, Stays(c, self, a, n) PROVE At(c, a, n)
BY DEF Stays, At

\* The order is kept if what is sent, to one actor at most, fits in.
LEMMA OrderStep ==
  ASSUME Typed, Routed, NEW c, InOrder(c), NEW self, NEW out, Parcel(out), Arrives(self, out),
         \A g, h \in Actor : \A y, z : NewTo(c, out, g, y) /\ NewTo(c, out, h, z) => g = h,
         \A h \in Actor : \A y : NewTo(c, out, h, y) =>
           /\ y \in ProbeMsg
           /\ \A b \in Actor : \A j \in DOMAIN mbox[b] :
                OnItsWay(c, b, j) /\ (b = self => j > 1) =>
                  /\ y.hops > Hops(b, j) => y.id < Id(b, j)
                  /\ y.hops <= Hops(b, j) => Id(b, j) < y.id
  PROVE  InOrder(c)'
<1> SUFFICES ASSUME NEW a \in Actor, NEW b \in Actor,
                    NEW i \in DOMAIN mbox'[a], NEW j \in DOMAIN mbox'[b],
                    mbox'[a][i].type \in TimedType, mbox'[a][i].chain = c,
                    mbox'[b][j].type \in TimedType, mbox'[b][j].chain = c,
                    \/ mbox'[a][i].hops > mbox'[b][j].hops
                    \/ mbox'[a][i].hops = mbox'[b][j].hops /\ a = b /\ i < j
             PROVE  mbox'[a][i].id < mbox'[b][j].id
  BY DEF InOrder, OnItsWay, Ahead, Id, Hops
<1> DEFINE x == mbox'[a][i]
           y == mbox'[b][j]
           p == Before(self, a, i)
           q == Before(self, b, j)
           Old(u, k, m) == /\ k \in DOMAIN mbox[u] /\ mbox[u][k] = m /\ OnItsWay(c, u, k)
                           /\ u = self => k > 1
<1>1. /\ i \in Nat
      /\ (NewTo(c, out, a, x) /\ \A k \in DOMAIN mbox'[a] : k <= i) \/ Old(a, p, x)
  BY CameFrom
<1>2. /\ j \in Nat
      /\ (NewTo(c, out, b, y) /\ \A k \in DOMAIN mbox'[b] : k <= j) \/ Old(b, q, y)
  BY CameFrom
<1>3. a = b /\ i < j => p < q
  BY <1>1, <1>2 DEF Before
<1>4. x.hops > y.hops \/ (x.hops = y.hops /\ a = b /\ i < j)
  OBVIOUS
<1>5. a = b => i \in DOMAIN mbox'[b] /\ j \in DOMAIN mbox'[a]
  OBVIOUS
<1>6. \A u, v, k : OnItsWay(c, u, k) => Hops(u, k) = mbox[u][k].hops /\ Id(u, k) = mbox[u][k].id
  BY DEF Hops, Id
<1>7. CASE Old(a, p, x) /\ Old(b, q, y)
  <2>1. Ahead(a, p, b, q)
    BY <1>3, <1>4, <1>7 DEF Ahead, Hops
  <2>2. Id(a, p) < Id(b, q)
    BY <1>7, <2>1 DEF InOrder
  <2> QED BY <1>7, <2>2 DEF Id
<1>8. CASE Old(a, p, x) /\ NewTo(c, out, b, y)
  <2>1. y \in ProbeMsg /\ Hops(a, p) \in Nat
    BY <1>8, Placed
  <2>2. y.hops \in Nat /\ Hops(a, p) = x.hops /\ Id(a, p) = x.id
    BY <1>8, <2>1, FieldTyped DEF Hops, Id
  <2> HIDE DEF x, y, p
  <2>3. y.hops <= Hops(a, p)
    BY <1>4, <2>1, <2>2
  <2>4. Id(a, p) < y.id
    BY <1>8, <2>3
  <2> QED BY <2>2, <2>4 DEF x, y
<1>9. CASE NewTo(c, out, a, x) /\ Old(b, q, y)
  <2>1. x \in ProbeMsg /\ Hops(b, q) \in Nat
    BY <1>9, Placed
  <2>2. x.hops \in Nat /\ Hops(b, q) = y.hops /\ Id(b, q) = y.id
    BY <1>9, <2>1, FieldTyped DEF Hops, Id
  <2>3. CASE x.hops > y.hops
    <3> HIDE DEF x, y, q
    <3>1. x.id < Id(b, q)
      BY <1>9, <2>2, <2>3
    <3> QED BY <2>2, <3>1 DEF x, y
  <2>4. CASE ~ (x.hops > y.hops)
    <3>1. a = b /\ i < j
      BY <1>4, <2>4
    <3>2. (\A k \in DOMAIN mbox'[a] : k <= i) \/ Old(a, p, x)
      BY <1>1
    <3>3. ~ (\A k \in DOMAIN mbox'[a] : k <= i)
      BY <1>1, <1>2, <1>5, <3>1
    <3> HIDE DEF x, y, p, q
    <3> QED BY <1>7, <1>9, <3>2, <3>3 DEF x, y
  <2> QED BY <2>3, <2>4
<1>10. CASE /\ NewTo(c, out, a, x) /\ \A k \in DOMAIN mbox'[a] : k <= i
            /\ NewTo(c, out, b, y) /\ \A k \in DOMAIN mbox'[b] : k <= j
  <2>1. a = b
    BY <1>10
  <2>2. i = j
    BY <1>1, <1>2, <1>5, <1>10, <2>1
  <2>3. x.hops = y.hops /\ ~ (i < j)
    BY <1>1, <2>1, <2>2
  <2>4. x.hops > x.hops
    BY <1>4, <2>3
  <2>5. x.hops \in Nat
    BY <1>10, FieldTyped
  <2> HIDE DEF x
  <2> QED BY <2>4, <2>5
<1> HIDE DEF x, y, p, q
<1>11. (NewTo(c, out, a, x) /\ \A k \in DOMAIN mbox'[a] : k <= i) \/ Old(a, p, x)
  BY <1>1
<1>12. (NewTo(c, out, b, y) /\ \A k \in DOMAIN mbox'[b] : k <= j) \/ Old(b, q, y)
  BY <1>2
<1> HIDE DEF Old
<1> QED BY <1>7, <1>8, <1>9, <1>10, <1>11, <1>12

-----------------------------------------------------------------------------
(* What keeps the flow of a chain.                                         *)

\* The number of what can still arrive is one of the chain.
LEMMA ComingNumber ==
  ASSUME Typed, NEW c \in Chains, Numbered(c), NEW n \in Nat, There(c, n)
  PROVE  \E k \in Nat : k >= Taken(c) /\ n = Nth(c, k) /\ n <= msg_counter_
                        /\ (n > Nth(c, Taken(c)) => n - ChainsNumber \in Nat
                                                    /\ n - ChainsNumber < n)
<1>1. PICK k \in Nat : k >= Taken(c) /\ n = Nth(c, k) /\ n <= msg_counter_
  BY DEF Numbered
<1>2. Taken(c) \in Nat
  BY TakenTyped
<1>3. ASSUME n > Nth(c, Taken(c)) PROVE n - ChainsNumber \in Nat /\ n - ChainsNumber < n
  <2>1. k # 0
    <3>1. Nth(c, k) \in Nat
      BY NthUp
    <3> QED BY <1>1, <1>2, <1>3, <3>1
  <2>2. k - 1 \in Nat /\ k > 0
    BY <2>1
  <2>3. n - ChainsNumber = Nth(c, k - 1) /\ Nth(c, k - 1) \in Nat
    BY <1>1, <2>2, NthUp
  <2>4. ChainsNumber \in Nat /\ ChainsNumber > 0
    BY ChainsTyped
  <2> QED BY <2>3, <2>4
<1> QED BY <1>1, <1>3

\* Nothing is taken and nothing new sent; of what can still arrive only the
\* last ones are lost.
LEMMA FlowKept ==
  ASSUME Typed, NEW c \in Chains, Flow(c), InOrder(c)', Taken(c)' = Taken(c),
         msg_counter_ <= msg_counter_',
         \A k \in Nat : Nth(c, k) <= msg_counter_' => Nth(c, k) <= msg_counter_,
         \A n \in Nat : There(c, n)' => There(c, n),
         \A n \in Nat : Coming(c, n)' => Coming(c, n),
         \A n, p \in Nat : Coming(c, n)' /\ Coming(c, p) /\ p < n => Coming(c, p)',
         HeadOf(c) \in live' => HeadOf(c) \in live /\ \A n \in Nat : There(c, n) => There(c, n)',
         msg_counter_' \in Nat
  PROVE  Flow(c)'
<1>1. Taken(c) \in Nat /\ msg_counter_ \in Nat
  BY TakenTyped DEF Typed, RgTypeOK
<1>2. \A n : Coming(c, n) => There(c, n)
  BY DEF Coming, There
<1>3. Numbered(c)'
  <2> SUFFICES ASSUME NEW n \in Nat, There(c, n)'
               PROVE  n <= msg_counter_' /\ \E k \in Nat : k >= Taken(c)' /\ n = Nth(c, k)
    BY DEF Numbered
  <2>1. n <= msg_counter_ /\ \E k \in Nat : k >= Taken(c) /\ n = Nth(c, k)
    BY DEF Flow, Numbered
  <2> QED BY <1>1, <2>1
<1>4. NoGap(c)'
  <2> SUFFICES ASSUME NEW n \in Nat, Coming(c, n)', n > Nth(c, Taken(c)')
               PROVE  Coming(c, n - ChainsNumber)'
    BY DEF NoGap, Nth
  <2>1. Coming(c, n) /\ There(c, n) /\ n > Nth(c, Taken(c))
    BY <1>2
  <2>2. n - ChainsNumber \in Nat /\ n - ChainsNumber < n
    BY <2>1, ComingNumber DEF Flow
  <2>3. Coming(c, n - ChainsNumber)
    BY <2>1 DEF Flow, NoGap
  <2> QED BY <2>2, <2>3
<1>5. AllThere(c)'
  <2> SUFFICES ASSUME HeadOf(c) \in live', NEW k \in Nat, k >= Taken(c)', Nth(c, k) <= msg_counter_'
               PROVE  There(c, Nth(c, k))'
    BY DEF AllThere, HeadOf, Nth
  <2>1. Nth(c, k) \in Nat
    BY NthUp
  <2> QED BY <2>1 DEF Flow, AllThere
<1>6. WasSent(c)'
  <2> SUFFICES ASSUME NEW k \in Nat, k < Taken(c)' PROVE Nth(c, k) <= msg_counter_'
    BY DEF WasSent, Nth
  <2>1. Nth(c, k) <= msg_counter_ /\ Nth(c, k) \in Nat
    BY NthUp DEF Flow, WasSent
  <2> QED BY <1>1, <2>1
<1> QED BY <1>3, <1>4, <1>5, <1>6 DEF Flow

\* Without a new measurement the order is kept.
LEMMA NothingSent ==
  ASSUME Typed, Routed, NEW c, InOrder(c), NEW self, NEW out, Parcel(out), Arrives(self, out),
         \A h \in Actor : \A y : ~ NewTo(c, out, h, y)
  PROVE  /\ InOrder(c)'
         /\ \A a \in Actor : \A n :
              At(c, a, n)' => a \in live' /\ Stays(c, self, a, n) /\ At(c, a, n)
         /\ \A n : There(c, n)' => There(c, n)
<1>1. InOrder(c)'
  BY OrderStep
<1>2. ASSUME NEW a \in Actor, NEW n, At(c, a, n)'
      PROVE  a \in live' /\ Stays(c, self, a, n) /\ At(c, a, n)
  BY <1>2, AtStep, StaysAt
<1>3. \A n : There(c, n)' => There(c, n)
  BY <1>2 DEF There
<1> QED BY <1>1, <1>2, <1>3

\* The actors that may hold measurements of the chain c.
Carriers(c) == ChainOf(c) \cup {Executor}

\* A step that neither takes nor sends measurements of the chain c, and leaves
\* its actors alone, leaves them where they are.
LEMMA CalmPlaces ==
  ASSUME Typed, Startup, Routed, NEW c \in Chains, InOrder(c), NEW self, NEW out, Parcel(out),
         Arrives(self, out), \A h \in Actor : \A y : ~ NewTo(c, out, h, y),
         self \in Actor => Head(mbox[self]).type \notin TimedType \/ Head(mbox[self]).chain # c,
         Carriers(c) \cap live \subseteq live', HeadOf(c) \in live' => HeadOf(c) \in live
  PROVE  /\ InOrder(c)'
         /\ \A n : There(c, n)' <=> There(c, n)
         /\ \A n : Coming(c, n)' <=> Coming(c, n)
<1>1. /\ InOrder(c)'
      /\ \A a \in Actor : \A n : At(c, a, n)' => At(c, a, n)
      /\ \A n : There(c, n)' => There(c, n)
  BY NothingSent
<1>2. ASSUME NEW a \in Actor, NEW n, At(c, a, n) PROVE At(c, a, n)'
  <2>1. a \in live'
    BY <1>2, AtLives DEF Carriers
  <2>2. Stays(c, self, a, n)
    BY <1>2, StaysOrFirst DEF OnItsWay
  <2> QED BY <2>1, <2>2, AtStep
<1>3. HeadOf(c) \in Carriers(c)
  <2>1. PipelineActors \in Nat /\ PipelineActors > 1
    BY ConfigAssumption DEF is_valid
  <2>2. 0 \in 0 .. PipelineActors - 1
    BY <2>1
  <2> QED BY <2>2 DEF Carriers, ChainOf, HeadOf, ChainActor, Chains
<1>4. \A a \in Actor : Arriving(c, a)' <=> Arriving(c, a)
  BY <1>3 DEF Arriving, HeadOf
<1>5. \A n : There(c, n) => There(c, n)'
  BY <1>2 DEF There
<1>6. \A n : Coming(c, n)' <=> Coming(c, n)
  BY <1>1, <1>2, <1>4 DEF Coming
<1> QED BY <1>1, <1>5, <1>6

\* It does not touch the flow.
LEMMA CalmTaken ==
  ASSUME Typed, Startup, Routed, NEW c \in Chains, Flow(c), NEW self, NEW out, Parcel(out),
         Arrives(self, out), \A h \in Actor : \A y : ~ NewTo(c, out, h, y),
         self \in Actor => Head(mbox[self]).type \notin TimedType \/ Head(mbox[self]).chain # c,
         Carriers(c) \cap live \subseteq live', HeadOf(c) \in live' => HeadOf(c) \in live,
         Taken(c)' = Taken(c), msg_counter_' \in Nat, msg_counter_ <= msg_counter_',
         \A k \in Nat : Nth(c, k) <= msg_counter_' => Nth(c, k) <= msg_counter_
  PROVE  Flow(c)'
<1>1. /\ InOrder(c)'
      /\ \A n : There(c, n)' <=> There(c, n)
      /\ \A n : Coming(c, n)' <=> Coming(c, n)
  BY CalmPlaces DEF Flow
<1> QED BY <1>1, FlowKept

\* In most of these steps nothing is taken at all.
LEMMA CalmFlow ==
  ASSUME Typed, Startup, Routed, NEW c \in Chains, Flow(c), NEW self, NEW out, Parcel(out),
         Arrives(self, out), \A h \in Actor : \A y : ~ NewTo(c, out, h, y),
         self \in Actor => Head(mbox[self]).type \notin TimedType \/ Head(mbox[self]).chain # c,
         Carriers(c) \cap live \subseteq live', HeadOf(c) \in live' => HeadOf(c) \in live,
         UNCHANGED received, msg_counter_' \in Nat, msg_counter_ <= msg_counter_',
         \A k \in Nat : Nth(c, k) <= msg_counter_' => Nth(c, k) <= msg_counter_
  PROVE  Flow(c)'
<1>1. Taken(c)' = Taken(c)
  BY DEF Taken, TakenOf
<1> QED BY <1>1, CalmTaken

\* Before the first measurement is sent nothing flows.
LEMMA IdleFlow ==
  ASSUME Typed, Routed, NEW c \in Chains, Flow(c), NEW self, NEW out, Parcel(out),
         Arrives(self, out), \A h \in Actor : \A y : ~ NewTo(c, out, h, y),
         UNCHANGED received, msg_counter_ = 0, msg_counter_' = 0
  PROVE  Flow(c)'
<1>1. InOrder(c)' /\ \A n : There(c, n)' => There(c, n)
  BY NothingSent DEF Flow
<1>2. \A k \in Nat : Nth(c, k) \in Nat /\ Nth(c, k) >= 1
  BY NthUp
<1>3. ASSUME NEW n \in Nat, There(c, n) PROVE FALSE
  <2>1. n <= 0 /\ \E k \in Nat : n = Nth(c, k)
    BY <1>3 DEF Flow, Numbered
  <2> QED BY <1>2, <2>1
<1>4. \A n : Coming(c, n)' => There(c, n)'
  BY DEF Coming, There
<1>5. Numbered(c)'
  BY <1>1, <1>3 DEF Numbered
<1>6. NoGap(c)'
  BY <1>1, <1>3, <1>4 DEF NoGap
<1>7. AllThere(c)'
  <2>1. \A k \in Nat : ~ (Nth(c, k) <= 0)
    BY <1>2
  <2> QED BY <2>1 DEF AllThere, Nth
<1>8. WasSent(c)'
  <2>1. Taken(c)' = Taken(c)
    BY DEF Taken, TakenOf
  <2> QED BY <2>1 DEF Flow, WasSent, Nth
<1> QED BY <1>1, <1>5, <1>6, <1>7, <1>8 DEF Flow

\* What does not touch the mailboxes.
LEMMA StillFlow ==
  ASSUME NEW c, Flow(c), UNCHANGED <<mbox, live, received, msg_counter_>> PROVE Flow(c)'
BY DEF Flow, InOrder, Numbered, NoGap, AllThere, WasSent, Taken, TakenOf, OnItsWay, Ahead, Id,
   Hops, At, There, Coming, Arriving, Nth, HeadOf

-----------------------------------------------------------------------------
(* The rate generator sends.                                               *)

LEMMA HeadOfChain ==
  ASSUME NEW c \in Chains
  PROVE  /\ HeadOf(c) \in ChainActor /\ HeadOf(c) \in Actor /\ HeadOf(c) \in Carriers(c)
         /\ HeadOf(c)[1] = c /\ HeadOf(c)[2] = 0
<1>1. PipelineActors \in Nat /\ PipelineActors > 1
  BY ConfigAssumption DEF is_valid
<1>2. 0 \in 0 .. PipelineActors - 1
  BY <1>1
<1> QED BY <1>2 DEF Carriers, ChainOf, HeadOf, ChainActor, Chains, Actor

\* In any sending order the head of a chain gets the next message.
LEMMA Posting ==
  ASSUME Typed, Routed, Ready, RgSend, NEW d, d = rg_index + 1
  PROVE  /\ d \in Chains /\ UNCHANGED live /\ msg_counter_' = msg_counter_ + 1
         /\ \E out, y :
              /\ Parcel(out) /\ Arrives(Null, out) /\ NewTo(d, out, HeadOf(d), y)
              /\ y \in ProbeMsg /\ y.hops = 1 /\ y.id = msg_counter_ + 1
              /\ \A c : \A h \in Actor : \A z :
                   NewTo(c, out, h, z) => h = HeadOf(d) /\ z = y /\ c = d
<1> DEFINE y == NewMsg(d)
           out == Sent(HeadOf(d), y)
<1>1. d \in Chains /\ rg_receivers[d] = HeadOf(d)
  <2>1. /\ Len(rg_receivers) = ChainsNumber /\ rg_index \in 0 .. ChainsNumber - 1
        /\ ChainsNumber \in Nat
    BY ConfigAssumption DEF RgSend, Sending, Ready, Typed, RgIndexed, Receivers
  <2> QED BY <2>1 DEF Chains, Routed, Feeds
<1>2. Step(Null, out, live, timers) /\ msg_counter_' = msg_counter_ + 1
  BY <1>1, HeadOfChain DEF RgSend, Posted, Handled
<1>3. y.type = "timed_msg" /\ y.id = msg_counter_ + 1 /\ y.chain = d /\ y.hops = 1
  BY DEF NewMsg
<1>4. y \in ProbeMsg
  <2>1. msg_counter_ + 1 \in Nat /\ d \in Nat
    BY <1>1, ChainsTyped DEF Typed, RgTypeOK
  <2> QED BY <2>1 DEF NewMsg, NotStarted, ProbeMsg, ProbeType
<1> HIDE DEF y
<1>5. /\ Parcel(out) /\ out[HeadOf(d)] = <<y>>
      /\ \A a \in Actor : \A x : out[a] = <<x>> => x = y /\ a = HeadOf(d)
  BY <1>1, SendingParcels, HeadOfChain
<1>6. UNCHANGED live /\ Arrives(Null, out)
  BY <1>2, NullNotActor DEF Arrives, Step
<1>7. \A c : \A h \in Actor : \A z : NewTo(c, out, h, z) => h = HeadOf(d) /\ z = y /\ c = d
  BY <1>3, <1>5 DEF NewTo
<1>8. NewTo(d, out, HeadOf(d), y)
  BY <1>3, <1>5 DEF NewTo, TimedType
<1> HIDE DEF out
<1> QED BY <1>1, <1>2, <1>3, <1>4, <1>5, <1>6, <1>7, <1>8

\* Round robin: the number of the next message is one of the chain that gets it.
LEMMA Feeding ==
  ASSUME Typed, Routed, Ready, Turns, RoundRobin, RgSend
  PROVE  /\ \E q \in Nat : msg_counter_ + 1 = Nth(rg_index + 1, q)
         /\ Turns'
<1> DEFINE i == rg_index
<1>1. rg_state = "sending" /\ rg_state' = "sending" /\ rg_index' \in NextIndex(i)
      /\ msg_counter_' = msg_counter_ + 1
  BY DEF RgSend, Sending
<1>2. /\ Len(rg_receivers) = ChainsNumber /\ i \in 0 .. ChainsNumber - 1 /\ ChainsNumber \in Nat
  BY <1>1, ConfigAssumption DEF Ready, Typed, RgIndexed, Receivers
<1>3. PICK k \in Nat : msg_counter_ = i + k * ChainsNumber
  BY <1>1 DEF Turns
<1>4. rg_index' = (i + 1) % ChainsNumber
  BY <1>1, <1>2 DEF NextIndex, Receivers
<1> HIDE DEF i
<1> DEFINE x == k * ChainsNumber
<1>5. x \in Nat /\ (k + 1) * ChainsNumber = x + ChainsNumber
  BY <1>2
<1>6. Nth(i + 1, k) = i + 1 + x /\ msg_counter_ = i + x
  BY <1>3 DEF Nth
<1> HIDE DEF x
<1>7. msg_counter_ + 1 = Nth(i + 1, k)
  BY <1>2, <1>5, <1>6
<1>8. \E q \in Nat : msg_counter_' = rg_index' + q * ChainsNumber
  <2>1. CASE i + 1 = ChainsNumber
    <3>1. rg_index' = 0
      BY <1>2, <1>4, <2>1
    <3>2. msg_counter_' = 0 + (k + 1) * ChainsNumber
      BY <1>1, <1>2, <1>5, <1>6, <2>1
    <3> QED BY <3>1, <3>2
  <2>2. CASE i + 1 # ChainsNumber
    <3>1. rg_index' = i + 1
      BY <1>2, <1>4, <2>2
    <3>2. msg_counter_' = i + 1 + x
      BY <1>1, <1>2, <1>5, <1>6
    <3> QED BY <3>1, <3>2 DEF x
  <2> QED BY <2>1, <2>2
<1>9. Turns'
  BY <1>1, <1>8 DEF Turns
<1> QED BY <1>7, <1>9 DEF i

\* What flows has been sent.
LEMMA FlowListed ==
  ASSUME Typed, Startup, Routed, NEW c \in Chains, Flow(c) PROVE Listed(c)
<1> SUFFICES ASSUME NEW n, There(c, n) PROVE n \in Nat /\ 1 <= n /\ n <= msg_counter_
  BY DEF Listed
<1>1. n \in Nat
  BY AtLives DEF There
<1>2. n <= msg_counter_ /\ \E k \in Nat : n = Nth(c, k)
  BY <1>1 DEF Flow, Numbered
<1> QED BY <1>1, <1>2, NthUp

\* What is sent is the last of its chain.
LEMMA SendPlaces ==
  ASSUME Typed, Startup, Routed, NEW c \in Chains, InOrder(c), Listed(c), NEW out, Parcel(out),
         Arrives(Null, out), NEW y, NewTo(c, out, HeadOf(c), y), y \in ProbeMsg,
         y.hops = 1, y.id = msg_counter_ + 1,
         \A h \in Actor : \A z : NewTo(c, out, h, z) => h = HeadOf(c) /\ z = y,
         UNCHANGED live
  PROVE  /\ InOrder(c)'
         /\ \A a \in Actor : \A n :
              At(c, a, n)' <=> At(c, a, n) \/ (a = HeadOf(c) /\ a \in live /\ n = y.id)
         /\ \A a \in Actor : Arriving(c, a)' <=> Arriving(c, a)
<1>1. msg_counter_ \in Nat
  BY DEF Typed, RgTypeOK
<1>2. HeadOf(c) \in Actor /\ Null \notin Actor
  BY HeadOfChain, NullNotActor
<1>3. InOrder(c)'
  <2>1. ASSUME NEW b \in Actor, NEW j \in DOMAIN mbox[b], OnItsWay(c, b, j)
        PROVE  /\ y.hops > Hops(b, j) => y.id < Id(b, j)
               /\ y.hops <= Hops(b, j) => Id(b, j) < y.id
    <3>1. Id(b, j) \in Nat /\ Hops(b, j) \in Nat /\ Hops(b, j) >= 1
      BY <2>1, Placed
    <3>2. There(c, Id(b, j))
      BY <2>1 DEF There, At
    <3>3. Id(b, j) <= msg_counter_
      BY <3>2 DEF Listed
    <3> QED BY <1>1, <3>1, <3>3
  <2> QED BY <2>1, OrderStep
<1>4. ASSUME NEW a \in Actor, NEW n
      PROVE  At(c, a, n)' <=> At(c, a, n) \/ (a = HeadOf(c) /\ a \in live /\ n = y.id)
  <2>1. ASSUME At(c, a, n) PROVE At(c, a, n)'
    <3>1. a \in live
      BY <2>1, AtLives
    <3>2. a # Null
      BY <1>2
    <3>3. Stays(c, Null, a, n)
      BY <2>1, <3>2, StaysOrFirst
    <3> QED BY <3>1, <3>3, AtStep
  <2>2. ASSUME a = HeadOf(c), a \in live, n = y.id PROVE At(c, a, n)'
    BY <2>2, AtStep
  <2>3. ASSUME At(c, a, n)', ~ At(c, a, n) PROVE a = HeadOf(c) /\ a \in live /\ n = y.id
    BY <2>3, AtStep, StaysAt
  <2> QED BY <2>1, <2>2, <2>3
<1>5. \A a \in Actor : Arriving(c, a)' <=> Arriving(c, a)
  BY DEF Arriving, HeadOf
<1> QED BY <1>3, <1>4, <1>5

\* It joins the flow.
LEMMA SendFlow ==
  ASSUME Typed, Startup, Routed, NEW c \in Chains, Flow(c), NEW out, Parcel(out),
         Arrives(Null, out), NEW y, NewTo(c, out, HeadOf(c), y), y \in ProbeMsg,
         y.hops = 1, y.id = msg_counter_ + 1, NEW q \in Nat, y.id = Nth(c, q),
         \A h \in Actor : \A z : NewTo(c, out, h, z) => h = HeadOf(c) /\ z = y,
         UNCHANGED <<live, received>>, msg_counter_' = msg_counter_ + 1
  PROVE  Flow(c)'
<1>1. Taken(c) \in Nat /\ msg_counter_ \in Nat /\ Taken(c)' = Taken(c) /\ ChainsNumber \in Nat
  BY TakenTyped, ChainsTyped DEF Typed, RgTypeOK, Taken, TakenOf
<1>2. HeadOf(c) \in Actor /\ Null \notin Actor
  BY HeadOfChain, NullNotActor
<1>3. InOrder(c) /\ Listed(c)
  BY FlowListed DEF Flow
<1>4. /\ InOrder(c)'
      /\ \A a \in Actor : \A n :
           At(c, a, n)' <=> At(c, a, n) \/ (a = HeadOf(c) /\ a \in live /\ n = y.id)
      /\ \A a \in Actor : Arriving(c, a)' <=> Arriving(c, a)
  BY <1>3, SendPlaces
<1>5. \A a \in Actor : Arriving(c, a)' <=> Arriving(c, a)
  BY <1>4
<1>6. q >= Taken(c)
  <2>1. ASSUME q < Taken(c) PROVE FALSE
    <3>1. Nth(c, q) <= msg_counter_
      BY <2>1 DEF Flow, WasSent
    <3> QED BY <1>1, <3>1
  <2> QED BY <1>1, <2>1
<1>7. Numbered(c)'
  <2> SUFFICES ASSUME NEW n \in Nat, There(c, n)'
               PROVE  n <= msg_counter_' /\ \E k \in Nat : k >= Taken(c)' /\ n = Nth(c, k)
    BY DEF Numbered
  <2>1. There(c, n) \/ n = y.id
    BY <1>4 DEF There
  <2>2. There(c, n) => n <= msg_counter_ /\ \E k \in Nat : k >= Taken(c) /\ n = Nth(c, k)
    BY DEF Flow, Numbered
  <2> QED BY <1>1, <1>6, <2>1, <2>2
<1>8. \A n : Coming(c, n) => Coming(c, n)'
  BY <1>4, <1>5 DEF Coming
<1>9. NoGap(c)'
  <2> SUFFICES ASSUME NEW n \in Nat, Coming(c, n)', n > Nth(c, Taken(c)')
               PROVE  Coming(c, n - ChainsNumber)'
    BY DEF NoGap, Nth
  <2>1. CASE Coming(c, n)
    <3>1. Coming(c, n - ChainsNumber)
      BY <1>1, <2>1 DEF Flow, NoGap
    <3> QED BY <1>8, <3>1
  <2>2. CASE ~ Coming(c, n)
    <3>1. HeadOf(c) \in live /\ n = Nth(c, q)
      BY <1>4, <1>5, <2>2 DEF Coming
    <3>2. q # Taken(c)
      <4>1. Nth(c, q) \in Nat
        BY NthUp
      <4> QED BY <1>1, <3>1, <4>1
    <3>3. q > 0 /\ q - 1 \in Nat /\ q - 1 >= Taken(c)
      BY <1>1, <1>6, <3>2
    <3>4. n - ChainsNumber = Nth(c, q - 1)
      BY <3>1, <3>3, NthUp
    <3>5. Nth(c, q - 1) <= msg_counter_
      <4>1. ChainsNumber > 0
        BY ChainsTyped
      <4> QED BY <1>1, <3>1, <3>4, <4>1
    <3>6. There(c, n - ChainsNumber)
      BY <3>1, <3>3, <3>4, <3>5 DEF Flow, AllThere
    <3>7. Coming(c, n - ChainsNumber)
      BY <3>1, <3>6 DEF There, Coming, Arriving
    <3> QED BY <1>8, <3>7
  <2> QED BY <2>1, <2>2
<1>10. AllThere(c)'
  <2> SUFFICES ASSUME HeadOf(c) \in live, NEW k \in Nat, k >= Taken(c), Nth(c, k) <= msg_counter_ + 1
               PROVE  There(c, Nth(c, k))'
    BY <1>1 DEF AllThere, HeadOf, Nth
  <2>1. Nth(c, k) \in Nat
    BY NthUp
  <2>2. CASE Nth(c, k) = msg_counter_ + 1
    <3>1. At(c, HeadOf(c), Nth(c, k))'
      BY <1>2, <1>4, <2>2
    <3> QED BY <1>2, <3>1 DEF There, HeadOf
  <2>3. CASE Nth(c, k) # msg_counter_ + 1
    <3>1. Nth(c, k) <= msg_counter_
      BY <1>1, <2>1, <2>3
    <3>2. There(c, Nth(c, k))
      BY <3>1 DEF Flow, AllThere
    <3>3. PICK a \in Actor : At(c, a, Nth(c, k))
      BY <3>2 DEF There
    <3>4. At(c, a, Nth(c, k))'
      BY <1>4, <3>3
    <3> QED BY <3>4 DEF There
  <2> QED BY <2>2, <2>3
<1>11. WasSent(c)'
  <2> SUFFICES ASSUME NEW k \in Nat, k < Taken(c)' PROVE Nth(c, k) <= msg_counter_'
    BY DEF WasSent, Nth
  <2>1. Nth(c, k) <= msg_counter_ /\ Nth(c, k) \in Nat
    BY <1>1, NthUp DEF Flow, WasSent
  <2> QED BY <1>1, <2>1
<1> QED BY <1>4, <1>7, <1>9, <1>10, <1>11 DEF Flow

-----------------------------------------------------------------------------
(* A step of the chains as a step of their queues.                         *)

\* A step of the queues, or none.
Advances == [Queues!Next]_(Queues!queueVars)

\* A queue holds what can still arrive.
LEMMA InQueue ==
  /\ \A c, n : n \in QueueOf(c) <=> Executor \in live /\ Coming(c, n)
  /\ \A c, n : (n \in QueueOf(c) <=> Executor \in live /\ Coming(c, n))'
BY DEF QueueOf, Measurements, Contents, ToSet, Coming, At, OnItsWay, Id

\* The chains that are stopped are the same ones.
SameStops == \A c \in Chains : Stops(c)' <=> Stops(c)

LEMMA StopsKept ==
  ASSUME live' \cap ChainActor = live \cap ChainActor, UNCHANGED chains_built PROVE SameStops
<1> SUFFICES ASSUME NEW c \in Chains PROVE Stops(c)' <=> Stops(c)
  BY DEF SameStops
<1>1. HeadOf(c) \in ChainActor
  BY HeadOfChain
<1>2. HeadOf(c) \in live' <=> HeadOf(c) \in live
  BY <1>1
<1> QED BY <1>2 DEF Stops, Spawned, HeadOf

\* The queues as functions.
QueueMap == [c \in Chains |-> QueueOf(c)]
OpenMap == [c \in Chains |-> Executor \in live /\ ~ Stops(c)]

\* Nothing happens to the queues.
LEMMA QueuesStill ==
  ASSUME UNCHANGED <<received, msg_counter_>>, Executor \in live' <=> Executor \in live,
         SameStops, Executor \in live => \A c \in Chains : \A n : Coming(c, n)' <=> Coming(c, n)
  PROVE  Advances
<1>1. ASSUME NEW c \in Chains PROVE QueueOf(c)' = QueueOf(c)
  <2>1. \A n : n \in QueueOf(c)' <=> n \in QueueOf(c)
    BY InQueue
  <2> QED BY <2>1
<1>2. QueueMap' = QueueMap
  BY <1>1 DEF QueueMap
<1>3. OpenMap' = OpenMap
  BY DEF OpenMap, SameStops
<1> QED BY <1>2, <1>3 DEF Advances, Queues!queueVars, QueueMap, OpenMap

\* A measurement is sent.
LEMMA QueuesSend ==
  ASSUME UNCHANGED received, msg_counter_' = msg_counter_ + 1,
         Executor \in live' <=> Executor \in live, SameStops, NEW d \in Chains,
         \A c \in Chains : QueueOf(c)' = IF c = d /\ Executor \in live /\ ~ Stops(d)
                                         THEN QueueOf(c) \cup {msg_counter_ + 1} ELSE QueueOf(c)
  PROVE  Advances
<1>1. OpenMap' = OpenMap /\ (OpenMap[d] <=> Executor \in live /\ ~ Stops(d))
  BY DEF OpenMap, SameStops
<1>2. QueueMap' = [QueueMap EXCEPT ![d] = IF OpenMap[d] THEN @ \cup {msg_counter_ + 1} ELSE @]
  BY <1>1 DEF QueueMap
<1>3. Queues!Send(d)
  BY <1>1, <1>2 DEF Queues!Send, QueueMap, OpenMap
<1> QED BY <1>3 DEF Advances, Queues!Next

\* The measurement in front is taken.
LEMMA QueuesTake ==
  ASSUME UNCHANGED msg_counter_, Executor \in live' <=> Executor \in live, SameStops,
         NEW d \in Chains, NEW n \in QueueOf(d), \A m \in QueueOf(d) : n <= m,
         received' = Append(received, [id |-> n, chain |-> d]),
         \A c \in Chains : QueueOf(c)' = IF c = d THEN QueueOf(c) \ {n} ELSE QueueOf(c)
  PROVE  Advances
<1>1. OpenMap' = OpenMap
  BY DEF OpenMap, SameStops
<1>2. QueueMap' = [QueueMap EXCEPT ![d] = @ \ {n}] /\ QueueMap[d] = QueueOf(d)
  BY DEF QueueMap
<1>3. Queues!Take(d)
  BY <1>1, <1>2 DEF Queues!Take, QueueMap, OpenMap
<1> QED BY <1>3 DEF Advances, Queues!Next

\* The chains of cs are stopped.
LEMMA QueuesCut ==
  ASSUME UNCHANGED <<received, msg_counter_>>, NEW cs \in SUBSET Chains,
         \A c \in Chains : (Executor \in live' /\ ~ Stops(c)')
                             <=> (Executor \in live /\ ~ Stops(c) /\ c \notin cs),
         \A c \in Chains : QueueOf(c)' \subseteq 1 .. msg_counter_,
         \A c \in Chains \ cs : QueueOf(c)' = QueueOf(c),
         \A c \in cs : /\ QueueOf(c)' \subseteq QueueOf(c)
                       /\ \A n \in QueueOf(c)', p \in QueueOf(c) : p < n => p \in QueueOf(c)'
  PROVE  Advances
<1>1. OpenMap' = [c \in Chains |-> OpenMap[c] /\ c \notin cs]
  BY DEF OpenMap
<1>2. QueueMap' \in [Chains -> SUBSET (1 .. msg_counter_)]
  BY DEF QueueMap
<1>3. \A c \in Chains : QueueMap'[c] \in IF c \in cs THEN Queues!Prefixes(QueueMap[c])
                                         ELSE {QueueMap[c]}
  BY DEF QueueMap, Queues!Prefixes
<1>4. Queues!Cut(cs)
  BY <1>1, <1>2, <1>3 DEF Queues!Cut, QueueMap, OpenMap
<1> QED BY <1>4 DEF Advances, Queues!Next

\* The executor quits, and with it every chain.
LEMMA QueuesEnd ==
  ASSUME UNCHANGED <<received, msg_counter_>>, Executor \in live, Executor \notin live'
  PROVE  Advances
<1>1. \A c \in Chains : QueueOf(c)' = {}
  BY DEF QueueOf
<1> QED BY <1>1, QueuesCut

\* What is under way stays in order and counted.
LEMMA ListedKept ==
  ASSUME NEW c, Listed(c), \A n : There(c, n)' => There(c, n),
         msg_counter_ \in Nat, msg_counter_' \in Nat, msg_counter_ <= msg_counter_'
  PROVE  Listed(c)'
BY DEF Listed

\* The queues hold what has been sent.
LEMMA QueuesListed ==
  ASSUME Lines, NEW c \in Chains
  PROVE  QueueOf(c) \subseteq 1 .. msg_counter_
BY InQueue DEF Lines, Listed, Coming, There

\* What is delivered stays in turn when nothing is.
LEMMA StillInTurn == ASSUME DeliveredInTurn, UNCHANGED received PROVE DeliveredInTurn'
BY DEF DeliveredInTurn

LEMMA StillFlows ==
  ASSUME Flows, Lines, UNCHANGED <<mbox, received, msg_counter_, chains_built>>, UNCHANGED live
  PROVE  Flows' /\ Lines' /\ Advances
<1>1. RoundRobin => DeliveredInTurn'
  BY StillInTurn DEF Flows
<1>2. ASSUME RoundRobin, Executor \in live', NEW c \in Chains PROVE Flow(c)'
  BY <1>2, StillFlow DEF Flows
<1>3. \A c : /\ InOrder(c)' <=> InOrder(c)
             /\ \A n : (There(c, n)' <=> There(c, n)) /\ (Coming(c, n)' <=> Coming(c, n))
  BY DEF InOrder, OnItsWay, Ahead, Id, Hops, At, There, Coming, Arriving, HeadOf
<1>4. Lines'
  BY <1>3 DEF Lines, Listed
<1>5. Advances
  BY <1>3, StopsKept, QueuesStill
<1> QED BY <1>1, <1>2, <1>4, <1>5 DEF Flows

\* A step that has nothing to do with measurements.
LEMMA AwayFlows ==
  ASSUME Typed, Startup, Routed, Flows, NEW self, NEW types, Sends(self, types),
         types \cap TimedType = {}, self \in Actor => Head(mbox[self]).type \notin TimedType,
         live \cap ChainActor \subseteq live', Executor \in live' => Executor \in live,
         \/ \A a \in live' \cap ChainActor : a \in live
         \/ msg_counter_ = 0,
         Lines, SameStops, UNCHANGED <<received, msg_counter_>>
  PROVE  Flows' /\ Lines' /\ Advances
<1>1. RoundRobin => DeliveredInTurn'
  BY StillInTurn DEF Flows
<1>2. PICK out : /\ Parcel(out) /\ Arrives(self, out)
                 /\ \A a \in Actor : \A m : out[a] = <<m>> => m.type \in types
  BY DEF Sends
<1>3. ASSUME RoundRobin, Executor \in live', NEW c \in Chains PROVE Flow(c)'
  <2>1. Flow(c) /\ Executor \in live
    BY <1>3 DEF Flows
  <2>2. \A h \in Actor : \A y : ~ NewTo(c, out, h, y)
    BY <1>2 DEF NewTo
  <2>3. msg_counter_ \in Nat
    BY DEF Typed, RgTypeOK
  <2>4. CASE msg_counter_ = 0
    BY <1>2, <2>1, <2>2, <2>4, IdleFlow
  <2>5. CASE \A a \in live' \cap ChainActor : a \in live
    <3>1. HeadOf(c) \in live' => HeadOf(c) \in live
      BY <2>5, HeadOfChain
    <3>2. Carriers(c) \cap live \subseteq live'
      BY <1>3 DEF Carriers, ChainOf
    <3>3. /\ msg_counter_' \in Nat /\ msg_counter_ <= msg_counter_'
          /\ \A k \in Nat : Nth(c, k) <= msg_counter_' => Nth(c, k) <= msg_counter_
      BY <2>3
    <3> QED BY <1>2, <2>1, <2>2, <3>1, <3>2, <3>3, CalmFlow
  <2> QED BY <2>4, <2>5
<1>4. ASSUME Executor \in live', NEW c \in Chains
      PROVE  InOrder(c)' /\ Listed(c)' /\ \A n : Coming(c, n)' <=> Coming(c, n)
  <2>1. InOrder(c) /\ Listed(c) /\ Executor \in live
    BY <1>4 DEF Lines
  <2>2. \A h \in Actor : \A y : ~ NewTo(c, out, h, y)
    BY <1>2 DEF NewTo
  <2>3. msg_counter_ \in Nat
    BY DEF Typed, RgTypeOK
  <2>4. InOrder(c)' /\ \A n : There(c, n)' => There(c, n)
    BY <1>2, <2>1, <2>2, NothingSent
  <2>5. Listed(c)'
    BY <2>1, <2>3, <2>4, ListedKept
  <2>6. CASE msg_counter_ = 0
    <3>1. \A n : ~ There(c, n)
      BY <2>1, <2>6 DEF Listed
    <3>2. \A n : ~ Coming(c, n) /\ ~ Coming(c, n)'
      BY <2>4, <3>1 DEF Coming, There
    <3> QED BY <2>4, <2>5, <3>2
  <2>7. CASE \A a \in live' \cap ChainActor : a \in live
    <3>1. HeadOf(c) \in live' => HeadOf(c) \in live
      BY <2>7, HeadOfChain
    <3>2. Carriers(c) \cap live \subseteq live'
      BY <1>4 DEF Carriers, ChainOf
    <3> QED BY <1>2, <2>1, <2>2, <2>5, <3>1, <3>2, CalmPlaces
  <2> QED BY <2>6, <2>7
<1>5. Lines'
  BY <1>4 DEF Lines
<1>6. Advances
  <2>1. CASE Executor \in live /\ Executor \notin live'
    BY <2>1, QueuesEnd
  <2>2. CASE ~ (Executor \in live /\ Executor \notin live')
    BY <1>4, <2>2, QueuesStill
  <2> QED BY <2>1, <2>2
<1> QED BY <1>1, <1>3, <1>5, <1>6 DEF Flows

\* A message of the rate generator joins the flow of its chain and its queue.
LEMMA SendFlows ==
  ASSUME Typed, Startup, Routed, Ready, Turns, Flows, Lines, AllBuilt, RgSend,
         UNCHANGED <<received, chains_built>>
  PROVE  Turns' /\ Flows' /\ Lines' /\ Advances
<1> DEFINE d == rg_index + 1
<1>1. d \in Chains /\ UNCHANGED live /\ msg_counter_' = msg_counter_ + 1
  BY Posting
<1>2. PICK out, y :
        /\ Parcel(out) /\ Arrives(Null, out) /\ NewTo(d, out, HeadOf(d), y)
        /\ y \in ProbeMsg /\ y.hops = 1 /\ y.id = msg_counter_ + 1
        /\ \A c : \A h \in Actor : \A z : NewTo(c, out, h, z) => h = HeadOf(d) /\ z = y /\ c = d
  BY Posting
<1>3. RoundRobin => Turns' /\ \E q \in Nat : msg_counter_ + 1 = Nth(d, q)
  BY Feeding
<1> HIDE DEF d
<1>4. msg_counter_ \in Nat /\ msg_counter_' \in Nat /\ msg_counter_ <= msg_counter_'
  BY <1>1 DEF Typed, RgTypeOK
<1>5. ASSUME NEW c \in Chains, c # d
      PROVE  /\ \A h \in Actor : \A z : ~ NewTo(c, out, h, z)
             /\ Carriers(c) \cap live \subseteq live' /\ (HeadOf(c) \in live' => HeadOf(c) \in live)
  BY <1>1, <1>2, <1>5
<1>6. ASSUME RoundRobin, Executor \in live', NEW c \in Chains PROVE Flow(c)'
  <2>1. Flow(c)
    BY <1>1, <1>6 DEF Flows
  <2>2. PICK q \in Nat : msg_counter_ + 1 = Nth(d, q)
    BY <1>3, <1>6
  <2>3. CASE c = d
    <3>1. y.id = Nth(d, q)
      BY <1>2, <2>2
    <3> QED BY <1>1, <1>2, <2>1, <2>3, <3>1, SendFlow
  <2>4. CASE c # d
    <3>1. ASSUME NEW k \in Nat, Nth(c, k) <= msg_counter_ + 1 PROVE Nth(c, k) <= msg_counter_
      <4>1. Nth(c, k) \in Nat
        BY NthUp
      <4>2. Nth(c, k) # msg_counter_ + 1
        BY <1>1, <2>2, <2>4, NthOne
      <4> QED BY <1>4, <3>1, <4>1, <4>2
    <3> QED BY <1>1, <1>2, <1>4, <1>5, <2>1, <2>4, <3>1, NullNotActor, CalmFlow
  <2> QED BY <2>3, <2>4
<1>7. Flows'
  BY <1>6, StillInTurn DEF Flows
<1>8. ASSUME Executor \in live, NEW c \in Chains
      PROVE  /\ InOrder(c)' /\ Listed(c)'
             /\ \A n : Coming(c, n)' <=>
                  Coming(c, n) \/ (c = d /\ HeadOf(d) \in live /\ n = msg_counter_ + 1)
  <2>1. InOrder(c) /\ Listed(c)
    BY <1>8 DEF Lines
  <2>2. CASE c = d
    <3>1. HeadOf(d) \in Actor
      BY <1>1, HeadOfChain
    <3>2. /\ InOrder(c)'
          /\ \A a \in Actor : \A n :
               At(c, a, n)' <=> At(c, a, n) \/ (a = HeadOf(c) /\ a \in live /\ n = y.id)
          /\ \A a \in Actor : Arriving(c, a)' <=> Arriving(c, a)
      BY <1>1, <1>2, <2>1, <2>2, SendPlaces
    <3>3. \A n : There(c, n)' => There(c, n) \/ n = msg_counter_'
      BY <1>1, <1>2, <3>2 DEF There
    <3>4. Listed(c)'
      BY <1>4, <2>1, <3>3, <1>1 DEF Listed
    <3>5. HeadOf(c) \in live => Arriving(c, HeadOf(c))
      BY DEF Arriving
    <3>6. \A n : Coming(c, n)' <=>
              Coming(c, n) \/ (HeadOf(d) \in live /\ n = msg_counter_ + 1)
      BY <1>2, <2>2, <3>1, <3>2, <3>5 DEF Coming
    <3> QED BY <2>2, <3>2, <3>4, <3>6
  <2>3. CASE c # d
    <3>1. /\ InOrder(c)'
          /\ \A n : There(c, n)' <=> There(c, n)
          /\ \A n : Coming(c, n)' <=> Coming(c, n)
      BY <1>2, <1>5, <2>1, <2>3, NullNotActor, CalmPlaces
    <3> QED BY <1>4, <2>1, <2>3, <3>1, ListedKept
  <2> QED BY <2>2, <2>3
<1>9. Lines'
  BY <1>1, <1>8 DEF Lines
<1>10. Executor \in live => (~ Stops(d) <=> HeadOf(d) \in live)
  <2>1. chains_built = ChainsNumber /\ d <= ChainsNumber
    BY <1>1, ChainsTyped DEF AllBuilt, RgSend, Sending
  <2> QED BY <1>1, <2>1, HeadOfChain DEF Stops, Spawned
<1>11. ASSUME NEW c \in Chains
       PROVE  QueueOf(c)' = IF c = d /\ Executor \in live /\ ~ Stops(d)
                            THEN QueueOf(c) \cup {msg_counter_ + 1} ELSE QueueOf(c)
  <2>1. \A n : n \in QueueOf(c)' <=>
            \/ n \in QueueOf(c)
            \/ c = d /\ Executor \in live /\ ~ Stops(d) /\ n = msg_counter_ + 1
    BY <1>1, <1>8, <1>10, InQueue
  <2> QED BY <2>1
<1>12. Advances
  BY <1>1, <1>11, StopsKept, QueuesSend
<1>13. Turns'
  BY <1>3 DEF Turns, RgSend, Sending
<1> QED BY <1>7, <1>9, <1>12, <1>13

\* The rate generator.
LEMMA RgFlows ==
  ASSUME Typed, Startup, Routed, Ready, Turns, Flows, Lines, AllBuilt, RgMoves
  PROVE  Turns' /\ Flows' /\ Lines' /\ Advances
<1>0. UNCHANGED <<execVars, live, chains_built>> /\ UNCHANGED received
  BY DEF RgMoves, RgStep, RgStart, RgSend, RgFinish, RgFirstHop, Crash, Undefined, Posted,
     Handled, Step, execVars, topoVars
<1>1. CASE RgStart
  <2>1. UNCHANGED <<mbox, msg_counter_>>
    BY <1>1 DEF RgStart, Crash, rgVars
  <2>2. Flows' /\ Lines' /\ Advances
    BY <1>0, <2>1, StillFlows
  <2>3. Turns'
    <3>1. rg_state = "spawned" /\ msg_counter_ = 0
      BY <1>1 DEF RgStart, Turns
    <3>2. CASE UNCHANGED rgVars
      BY <3>1, <3>2 DEF rgVars, Turns
    <3>3. CASE Receivers # 0 /\ rg_state' = "sending" /\ rg_index' \in NextIndex(-1)
      <4>1. Receivers \in Nat /\ Receivers > 0
        <5>1. rg_receivers \in Seq(ChainActor)
          BY DEF Typed, RgTypeOK
        <5> QED BY <3>3, <5>1 DEF Receivers
      <4>2. RoundRobin => rg_index' = 0
        <5>1. (-1 + 1) % Receivers = 0
          BY <4>1
        <5> QED BY <3>3, <5>1 DEF NextIndex
      <4>3. msg_counter_' = 0 /\ 0 = 0 + 0 * ChainsNumber
        BY <2>1, <3>1, ChainsTyped
      <4> QED BY <3>3, <4>2, <4>3 DEF Turns
    <3> QED BY <1>1, <3>2, <3>3 DEF RgStart
  <2> QED BY <2>2, <2>3
<1>2. CASE RgSend
  BY <1>0, <1>2, SendFlows
<1>3. CASE RgFinish
  <2>1. rg_state' = "done" /\ UNCHANGED msg_counter_
    BY <1>3 DEF RgFinish
  <2>2. Sends(Null, {"send_collect"})
    BY <1>3, RgSending DEF RgFinish, RgSend, RgStart, RgFirstHop, Undefined, Posted, Handled, Step
  <2>3. {"send_collect"} \cap TimedType = {}
    BY DEF TimedType
  <2>4. Flows' /\ Lines' /\ Advances
    BY <1>0, <2>1, <2>2, <2>3, NullNotActor, StopsKept, AwayFlows
  <2> QED BY <2>1, <2>4 DEF Turns
<1>4. CASE RgFirstHop
  <2>1. UNCHANGED <<mbox, msg_counter_, rg_state, rg_index>>
    BY <1>4 DEF RgFirstHop, Undefined, rgVars
  <2>2. Flows' /\ Lines' /\ Advances
    BY <1>0, <2>1, StillFlows
  <2> QED BY <2>1, <2>2 DEF Turns
<1> QED BY <1>1, <1>2, <1>3, <1>4 DEF RgMoves, RgStep

-----------------------------------------------------------------------------
(* An actor of a chain passes a measurement on.                            *)

\* The first message of a goes one link further, to h, or is lost since the head
\* has quit.
LEMMA PassPlaces ==
  ASSUME Typed, Startup, Routed, NEW c \in Chains, InOrder(c),
         NEW a \in ChainActor, NEW out, Parcel(out), Arrives(a, out), OnItsWay(c, a, 1),
         NEW h \in Actor, NEW x \in ProbeMsg, NewTo(c, out, h, x),
         \A g \in Actor : \A z : NewTo(c, out, g, z) => g = h /\ z = x,
         x.id = Id(a, 1), x.hops = Hops(a, 1) + 1,
         h \in live \/ (ForthAndBack /\ HeadOf(c) \notin live),
         h = Executor /\ ForthAndBack => HeadOf(c) \in live,
         UNCHANGED live
  PROVE  /\ InOrder(c)'
         /\ \A n : There(c, n)' => There(c, n)
         /\ \A n : Coming(c, n)' <=> Coming(c, n)
         /\ HeadOf(c) \in live => \A n : There(c, n) => There(c, n)'
<1>1. a \in Actor /\ a # Executor
  BY ActorKinds DEF Actor, MainActor
<1>2. 1 \in DOMAIN mbox[a] /\ At(c, a, x.id)
  <2>1. mbox[a] \in Seq(Message) /\ mbox[a] # <<>>
    BY <1>1 DEF Typed, SystemTypeOK, Arrives
  <2> QED BY <2>1 DEF At
<1>3. InOrder(c)'
  <2>1. ASSUME NEW b \in Actor, NEW j \in DOMAIN mbox[b], OnItsWay(c, b, j), b = a => j > 1
        PROVE  /\ x.hops > Hops(b, j) => x.id < Id(b, j)
               /\ x.hops <= Hops(b, j) => Id(b, j) < x.id
    <3>1. Id(b, j) \in Nat /\ Hops(b, j) \in Nat /\ Id(a, 1) \in Nat /\ Hops(a, 1) \in Nat
      BY <1>1, <1>2, <2>1, Placed
    <3>2. ASSUME x.hops > Hops(b, j) PROVE x.id < Id(b, j)
      <4>1. Hops(a, 1) > Hops(b, j) \/ Hops(a, 1) = Hops(b, j)
        BY <3>1, <3>2
      <4>2. Hops(a, 1) = Hops(b, j) => a = b
        BY <1>1, <1>2, <2>1, SameHops
      <4>3. Ahead(a, 1, b, j)
        BY <2>1, <4>1, <4>2 DEF Ahead
      <4> QED BY <1>1, <1>2, <2>1, <4>3 DEF InOrder
    <3>3. ASSUME x.hops <= Hops(b, j) PROVE Id(b, j) < x.id
      <4>1. Hops(b, j) > Hops(a, 1)
        BY <3>1, <3>3
      <4>2. Ahead(b, j, a, 1)
        BY <4>1 DEF Ahead
      <4> QED BY <1>1, <1>2, <2>1, <4>2 DEF InOrder
    <3> QED BY <3>2, <3>3
  <2> QED BY <2>1, OrderStep
<1>4. ASSUME NEW g \in Actor, NEW n, At(c, g, n)'
      PROVE  At(c, g, n) \/ (g = h /\ n = x.id)
  BY <1>4, AtStep, StaysAt
<1>5. ASSUME NEW g \in Actor, NEW n, At(c, g, n)
      PROVE  At(c, g, n)' \/ (g = a /\ n = x.id /\ (h \in live => At(c, h, n)'))
  <2>1. g \in live'
    BY <1>5, AtLives
  <2>2. CASE Stays(c, a, g, n)
    BY <2>1, <2>2, AtStep
  <2>3. CASE g = a /\ n = x.id
    <3>1. h \in live => At(c, h, n)'
      BY <2>3, AtStep
    <3> QED BY <2>3, <3>1
  <2> QED BY <1>5, <2>2, <2>3, StaysOrFirst
<1>6. \A g : Arriving(c, g)' <=> Arriving(c, g)
  BY DEF Arriving, HeadOf
<1>7. \A n : There(c, n)' => There(c, n)
  BY <1>1, <1>2, <1>4 DEF There
<1>8. ASSUME NEW n, Coming(c, n)' PROVE Coming(c, n)
  <2>1. PICK g \in Actor : At(c, g, n)' /\ Arriving(c, g)
    BY <1>6, <1>8 DEF Coming
  <2>2. CASE At(c, g, n)
    BY <2>1, <2>2 DEF Coming
  <2>3. CASE g = h /\ n = x.id
    <3>1. Arriving(c, a)
      BY <2>1, <2>3 DEF Arriving
    <3> QED BY <1>1, <1>2, <2>3, <3>1 DEF Coming
  <2> QED BY <1>4, <2>1, <2>2, <2>3
<1>9. ASSUME NEW n, Coming(c, n) PROVE Coming(c, n)'
  <2>1. PICK g \in Actor : At(c, g, n) /\ Arriving(c, g)
    BY <1>9 DEF Coming
  <2>2. CASE At(c, g, n)'
    BY <1>6, <2>1, <2>2 DEF Coming
  <2>3. CASE g = a /\ (h \in live => At(c, h, n)')
    <3>1. ForthAndBack => HeadOf(c) \in live
      BY <1>1, <2>1, <2>3 DEF Arriving
    <3>2. At(c, h, n)' /\ Arriving(c, h)'
      BY <1>6, <2>3, <3>1 DEF Arriving
    <3> QED BY <3>2 DEF Coming
  <2> QED BY <1>5, <2>1, <2>2, <2>3
<1>10. ASSUME HeadOf(c) \in live, NEW n, There(c, n) PROVE There(c, n)'
  <2>1. PICK g \in Actor : At(c, g, n)
    BY <1>10 DEF There
  <2>2. At(c, g, n)' \/ At(c, h, n)'
    BY <1>5, <1>10, <2>1
  <2> QED BY <2>2 DEF There
<1> QED BY <1>3, <1>7, <1>8, <1>9, <1>10

\* In the flow it is where it was.
LEMMA PassFlow ==
  ASSUME Typed, Startup, Routed, NEW c \in Chains, Flow(c),
         NEW a \in ChainActor, NEW out, Parcel(out), Arrives(a, out), OnItsWay(c, a, 1),
         NEW h \in Actor, NEW x \in ProbeMsg, NewTo(c, out, h, x),
         \A g \in Actor : \A z : NewTo(c, out, g, z) => g = h /\ z = x,
         x.id = Id(a, 1), x.hops = Hops(a, 1) + 1,
         h \in live \/ (ForthAndBack /\ HeadOf(c) \notin live),
         h = Executor /\ ForthAndBack => HeadOf(c) \in live,
         UNCHANGED <<live, received, msg_counter_>>
  PROVE  Flow(c)'
<1>1. /\ InOrder(c)'
      /\ \A n : There(c, n)' => There(c, n)
      /\ \A n : Coming(c, n)' <=> Coming(c, n)
      /\ HeadOf(c) \in live => \A n : There(c, n) => There(c, n)'
  BY PassPlaces DEF Flow
<1>2. Taken(c)' = Taken(c) /\ msg_counter_ \in Nat
  BY DEF Taken, TakenOf, Typed, RgTypeOK
<1> QED BY <1>1, <1>2, FlowKept DEF HeadOf

\* A measurement goes one link further, as in a queue.
LEMMA PassedFlows ==
  ASSUME Typed, Startup, Routed, Flows, NEW a \in ChainActor,
         Lines, UNCHANGED chains_built,
         NEW s \in {"timed_msg", "timed_msg_back"}, Receives(a, s), NEW h, NEW t \in TimedType,
         NEW m, PassesTo(a, h, t, m),
         LET first == Head(mbox[a])
         IN  m.id = first.id /\ m.hops = first.hops /\ m.chain = first.chain /\ first.chain = a[1],
         Executor \in live => h \in live \/ (ForthAndBack /\ HeadOf(a[1]) \notin live),
         h = Executor /\ ForthAndBack => HeadOf(a[1]) \in live,
         UNCHANGED <<received, msg_counter_>>
  PROVE  Flows' /\ Lines' /\ Advances
<1>1. PICK out, x : /\ Parcel(out) /\ Handled(a, out) /\ OneLinkOn(m, x, t)
                    /\ h \in Actor /\ out[h] = <<x>>
                    /\ \A b \in Actor : b # h => \A y : out[b] = <<y>> => y.type = "detached_msg"
  BY DEF PassesTo
<1>2. UNCHANGED live /\ Arrives(a, out) /\ a \in Actor /\ mbox[a] # <<>>
  BY <1>1 DEF Handled, Step, Arrives, Receives, Actor
<1>3. a[1] \in Chains
  BY DEF ChainActor, Chains
<1>4. /\ 1 \in DOMAIN mbox[a] /\ mbox[a][1] = Head(mbox[a])
      /\ OnItsWay(a[1], a, 1)
  <2>1. mbox[a] \in Seq(Message)
    BY <1>2 DEF Typed, SystemTypeOK
  <2>2. 1 \in DOMAIN mbox[a] /\ mbox[a][1] = Head(mbox[a])
    BY <1>2, <2>1
  <2>3. Head(mbox[a]).type \in TimedType
    BY DEF Receives, TimedType
  <2> QED BY <2>2, <2>3 DEF OnItsWay
<1>5. x \in ProbeMsg /\ x.type = t /\ x.chain = a[1] /\ x.id = Id(a, 1) /\ x.hops = Hops(a, 1) + 1
  BY <1>1, <1>4 DEF OneLinkOn, Id, Hops
<1>6. \A y : <<x>> = <<y>> => y = x
  OBVIOUS
<1>7. ASSUME NEW c, NEW g \in Actor, NEW z, NewTo(c, out, g, z) PROVE g = h /\ z = x /\ c = a[1]
  BY <1>1, <1>5, <1>6, <1>7 DEF NewTo, TimedType
<1>8. NewTo(a[1], out, h, x)
  BY <1>1, <1>5 DEF NewTo
<1>9. ASSUME RoundRobin, Executor \in live, NEW c \in Chains PROVE Flow(c)'
  <2>1. Flow(c)
    BY <1>9 DEF Flows
  <2>2. CASE c = a[1]
    <3>1. h \in live \/ (ForthAndBack /\ HeadOf(c) \notin live)
      BY <1>9, <2>2
    <3>2. h = Executor /\ ForthAndBack => HeadOf(c) \in live
      BY <2>2
    <3>3. \A g \in Actor : \A z : NewTo(c, out, g, z) => g = h /\ z = x
      BY <1>7
    <3>4. /\ NewTo(c, out, h, x) /\ OnItsWay(c, a, 1)
      BY <1>4, <1>8, <2>2
    <3> QED BY <1>1, <1>2, <1>5, <2>1, <3>1, <3>2, <3>3, <3>4, PassFlow
  <2>3. CASE c # a[1]
    <3>1. \A g \in Actor : \A y : ~ NewTo(c, out, g, y)
      BY <1>7, <2>3
    <3>2. Head(mbox[a]).chain # c
      BY <2>3
    <3>3. /\ msg_counter_' \in Nat /\ msg_counter_ <= msg_counter_'
          /\ \A k \in Nat : Nth(c, k) <= msg_counter_' => Nth(c, k) <= msg_counter_
      BY DEF Typed, RgTypeOK
    <3>4. Carriers(c) \cap live \subseteq live' /\ (HeadOf(c) \in live' => HeadOf(c) \in live)
      BY <1>2
    <3> QED BY <1>1, <1>2, <2>1, <3>1, <3>2, <3>3, <3>4, CalmFlow
  <2> QED BY <2>2, <2>3
<1>10. RoundRobin => DeliveredInTurn'
  BY StillInTurn DEF Flows
<1>11. ASSUME Executor \in live, NEW c \in Chains
       PROVE  InOrder(c)' /\ Listed(c)' /\ \A n : Coming(c, n)' <=> Coming(c, n)
  <2>1. InOrder(c) /\ Listed(c) /\ msg_counter_ \in Nat
    BY <1>11 DEF Lines, Typed, RgTypeOK
  <2>2. /\ InOrder(c)' /\ \A n : There(c, n)' => There(c, n)
        /\ \A n : Coming(c, n)' <=> Coming(c, n)
    <3>1. CASE c = a[1]
      <4>1. h \in live \/ (ForthAndBack /\ HeadOf(c) \notin live)
        BY <1>11, <3>1
      <4>2. h = Executor /\ ForthAndBack => HeadOf(c) \in live
        BY <3>1
      <4>3. \A g \in Actor : \A z : NewTo(c, out, g, z) => g = h /\ z = x
        BY <1>7
      <4>4. /\ NewTo(c, out, h, x) /\ OnItsWay(c, a, 1)
        BY <1>4, <1>8, <3>1
      <4> QED BY <1>1, <1>2, <1>5, <2>1, <4>1, <4>2, <4>3, <4>4, PassPlaces
    <3>2. CASE c # a[1]
      <4>1. \A g \in Actor : \A y : ~ NewTo(c, out, g, y)
        BY <1>7, <3>2
      <4>2. Head(mbox[a]).chain # c
        BY <3>2
      <4>3. Carriers(c) \cap live \subseteq live' /\ (HeadOf(c) \in live' => HeadOf(c) \in live)
        BY <1>2
      <4> QED BY <1>1, <1>2, <2>1, <4>1, <4>2, <4>3, CalmPlaces
    <3> QED BY <3>1, <3>2
  <2> QED BY <2>1, <2>2, ListedKept
<1>12. Lines'
  BY <1>2, <1>11 DEF Lines
<1>13. Advances
  BY <1>2, <1>11, StopsKept, QueuesStill
<1> QED BY <1>2, <1>9, <1>10, <1>12, <1>13 DEF Flows

\* The neighbours of an actor that lives: the one after it lives too, and the one
\* before it unless the stop has begun.
LEMMA NeighbourLives ==
  ASSUME Typed, Startup, FromTheHead, NEW a \in ChainActor, a \in live
  PROVE  /\ ~ IsTail(a) => <<a[1], a[2] + 1>> \in live
         /\ a[2] > 0 => <<a[1], a[2] - 1>> \in live \/ HeadOf(a[1]) \notin live
         /\ a[2] = 0 => a = HeadOf(a[1])
<1>1. /\ a = <<a[1], a[2]>> /\ a[1] \in 1 .. ChainsNumber /\ a[2] \in 0 .. PipelineActors - 1
      /\ PipelineActors \in Nat
  BY Neighbours
<1>2. Spawned(a)
  BY DEF Startup, SpawnedInTurn, Spawned
<1>3. ASSUME ~ IsTail(a) PROVE <<a[1], a[2] + 1>> \in live
  <2> DEFINE b == <<a[1], a[2] + 1>>
  <2>1. b \in ChainActor /\ b[1] = a[1] /\ a[2] < b[2]
    <3>1. b \in ChainActor
      BY <1>3, Neighbours
    <3>2. b[1] = a[1] /\ b[2] = a[2] + 1 /\ a[2] \in Int
      BY <1>1
    <3> QED BY <3>1, <3>2
  <2>2. Spawned(b)
    BY <1>2, <2>1 DEF Spawned
  <2> HIDE DEF b
  <2>3. b \in live
    BY <2>1, <2>2 DEF FromTheHead
  <2> QED BY <2>3 DEF b
<1>4. ASSUME a[2] > 0, HeadOf(a[1]) \in live PROVE <<a[1], a[2] - 1>> \in live
  <2> DEFINE b == <<a[1], a[2] - 1>>
             h == HeadOf(a[1])
  <2>1. b \in ChainActor /\ b[1] = a[1] /\ b[2] = a[2] - 1
    BY <1>1, <1>4, Neighbours
  <2>2. h \in ChainActor /\ h[1] = a[1] /\ h[2] = 0
    BY <1>1, HeadOfChain DEF Chains
  <2>3. Spawned(b)
    BY <1>2, <2>1 DEF Spawned
  <2>4. CASE b[2] = 0
    BY <1>4, <2>1, <2>4 DEF HeadOf
  <2>5. CASE b[2] # 0
    <3>1. h[2] < b[2]
      BY <1>1, <1>4, <2>1, <2>2, <2>5
    <3> HIDE DEF b, h
    <3>2. b \in live
      BY <1>4, <2>1, <2>2, <2>3, <3>1 DEF FromTheHead, h
    <3> QED BY <3>2 DEF b
  <2> QED BY <2>4, <2>5
<1>5. a[2] = 0 => a = HeadOf(a[1])
  BY <1>1 DEF HeadOf
<1> QED BY <1>3, <1>4, <1>5

\* timed_msg_a and timed_msg_back_a.
LEMMA TimedFlows ==
  ASSUME Typed, Startup, Known, Routed, FromTheHead, Flows, Lines, NEW a \in ChainActor,
         ChainMoves(a), TimedMsg(a) \/ TimedMsgBack(a)
  PROVE  Flows' /\ Lines' /\ Advances
<1>0. a \in Actor /\ UNCHANGED <<received, msg_counter_, chains_built>>
  BY DEF ChainMoves, execVars, rgVars, topoVars, Actor
<1>1. a[2] \in 0 .. PipelineActors - 1 /\ PipelineActors \in Nat /\ PipelineActors > 1
  BY Neighbours
<1>2. CASE TimedMsg(a)
  <2> DEFINE first == Head(mbox[a])
             m == RestartAtHead(a, first)
             t == IF ~ IsTail(a) THEN "timed_msg"
                  ELSE IF ForthAndBack THEN "timed_msg_back" ELSE "parallel"
             h == NextForth(a)
  <2>1. Receives(a, "timed_msg") /\ mbox[a] # <<>> /\ a \in live
    BY <1>2 DEF TimedMsg, Receives
  <2>2. first \in ProbeMsg /\ first.type = "timed_msg" /\ OnRoute(a, first)
    BY <1>0, <2>1, HeadRouted DEF ProbeType
  <2>3. OnTheWayForth(a, first) /\ first.stop = 0
    BY <2>2 DEF OnRoute
  <2>4. SendForth(a, "timed_msg", "timed_msg_back", "parallel", m)
    BY <1>2 DEF TimedMsg
  <2> HIDE DEF first
  <2>5. m = first \/ m = ProbeRestart(first)
    BY DEF RestartAtHead
  <2> HIDE DEF m
  <2>6. m \in ProbeMsg /\ m.stop = 0 /\ m.hops = first.hops /\ m.chain = first.chain /\ m.id = first.id
    BY <2>2, <2>3, <2>5, RestartIs
  <2>7. PassesTo(a, h, t, m)
    BY <2>1, <2>4, <2>6, PassesForth DEF ProbeType
  <2>8. t \in TimedType
    BY DEF TimedType
  <2>9. first.chain = a[1]
    BY <2>3 DEF OnTheWayForth
  <2>10. Executor \in live => h \in live \/ (ForthAndBack /\ HeadOf(a[1]) \notin live)
    <3>1. IsTail(a) => a[2] > 0
      BY <1>1 DEF IsTail
    <3> QED BY <2>1, <3>1, NeighbourLives DEF NextForth
  <2>11. h = Executor /\ ForthAndBack => FALSE
    <3>1. IsTail(a) => a[2] > 0
      BY <1>1 DEF IsTail
    <3>2. ~ IsTail(a) => <<a[1], a[2] + 1>> \in ChainActor
      BY Neighbours
    <3>3. IsTail(a) => <<a[1], a[2] - 1>> \in ChainActor
      BY <3>1, Neighbours
    <3>4. Executor \notin ChainActor
      BY ActorKinds DEF MainActor
    <3> QED BY <3>2, <3>3, <3>4 DEF NextForth
  <2> HIDE DEF t, h
  <2> QED BY <1>0, <2>1, <2>6, <2>7, <2>8, <2>9, <2>10, <2>11, PassedFlows DEF first
<1>3. CASE TimedMsgBack(a)
  <2> DEFINE m == Head(mbox[a])
             t == IF a[2] > 0 THEN "timed_msg_back" ELSE "parallel"
             h == NextBack(a)
  <2>1. Receives(a, "timed_msg_back") /\ mbox[a] # <<>> /\ a \in live
    BY <1>3 DEF TimedMsgBack, Receives
  <2>2. m \in ProbeMsg /\ m.type = "timed_msg_back" /\ OnRoute(a, m)
    BY <1>0, <2>1, HeadRouted DEF ProbeType
  <2>3. OnTheWayBack(a, m) /\ m.stop = 0
    BY <2>2 DEF OnRoute
  <2>4. SendBack(a, "timed_msg_back", "parallel", m)
    BY <1>3 DEF TimedMsgBack
  <2> HIDE DEF m
  <2>5. PassesTo(a, h, t, m)
    BY <2>1, <2>2, <2>3, <2>4, PassesBack DEF ProbeType
  <2>6. t \in TimedType
    BY DEF TimedType
  <2>7. m.chain = a[1] /\ ForthAndBack
    BY <2>3 DEF OnTheWayBack
  <2>8. Executor \in live => h \in live \/ (ForthAndBack /\ HeadOf(a[1]) \notin live)
    BY <1>1, <2>1, <2>7, NeighbourLives DEF NextBack
  <2>9. h = Executor => HeadOf(a[1]) \in live
    <3>1. a[2] > 0 => <<a[1], a[2] - 1>> \in ChainActor
      BY Neighbours
    <3>2. Executor \notin ChainActor
      BY ActorKinds DEF MainActor
    <3>3. h = Executor => a[2] = 0
      BY <1>1, <3>1, <3>2 DEF NextBack
    <3> QED BY <2>1, <3>3, NeighbourLives
  <2> HIDE DEF t, h
  <2> QED BY <1>0, <2>1, <2>5, <2>6, <2>7, <2>8, <2>9, PassedFlows DEF m
<1> QED BY <1>2, <1>3

-----------------------------------------------------------------------------
(* An actor of a chain quits.                                              *)

\* What a measurement is behind is farther on, unless both are at one actor.
LEMMA Behind ==
  ASSUME Typed, Routed, NEW c, InOrder(c), NEW a \in Actor, NEW b \in Actor,
         NEW i \in DOMAIN mbox[a], NEW j \in DOMAIN mbox[b], OnItsWay(c, a, i), OnItsWay(c, b, j),
         Id(a, i) < Id(b, j), a # b
  PROVE  Hops(b, j) < Hops(a, i) /\ b # Executor
<1>1. /\ Hops(a, i) \in Nat /\ Hops(b, j) \in Nat /\ Id(a, i) \in Nat /\ Id(b, j) \in Nat
  BY Placed
<1>2. ~ Ahead(b, j, a, i)
  BY <1>1 DEF InOrder
<1>3. Hops(a, i) # Hops(b, j)
  BY SameHops
<1>4. Hops(b, j) < Hops(a, i)
  BY <1>1, <1>2, <1>3 DEF Ahead
<1>5. b # Executor
  <2> SUFFICES ASSUME b = Executor PROVE FALSE
    OBVIOUS
  <2>1. Hops(b, j) > Hops(a, i)
    BY SameHops
  <2> QED BY <1>1, <1>4, <2>1
<1> QED BY <1>4, <1>5

\* The stop comes from the head, so what is lost was behind all that arrives.
LEMMA KillPlaces ==
  ASSUME Typed, Startup, Routed, FromTheHead, NEW a \in ChainActor, Has(a, "kill"), a \in live,
         a[1] \in Chains, InOrder(a[1]), NEW out, Parcel(out), Arrives(a, out),
         \A h \in Actor : \A y : ~ NewTo(a[1], out, h, y),
         live' = live \ {a}
  PROVE  LET c == a[1]
         IN  /\ InOrder(c)' /\ HeadOf(c) \notin live'
             /\ \A n : There(c, n)' => There(c, n)
             /\ \A n : Coming(c, n)' => Coming(c, n)
             /\ \A n, p \in Nat : Coming(c, n)' /\ Coming(c, p) /\ p < n => Coming(c, p)'
<1> DEFINE c == a[1]
           head == HeadOf(c)
<1>0. a \in Actor /\ a # Executor
  BY ActorKinds DEF Actor, MainActor
<1>1. head \in ChainActor /\ head[1] = c /\ head[2] = 0
  BY HeadOfChain
<1>2. a[2] \in Nat /\ (a[2] = 0 => a = head)
  <2>1. a = <<a[1], a[2]>> /\ a[2] \in 0 .. PipelineActors - 1 /\ PipelineActors \in Nat
    BY Neighbours
  <2> QED BY <2>1 DEF HeadOf
<1> HIDE DEF head
<1>3. head \notin live'
  <2>1. CASE a[2] = 0
    BY <1>2, <2>1
  <2>2. CASE a[2] # 0
    <3>1. head[2] < a[2]
      BY <1>1, <1>2, <2>2
    <3>2. head \notin live
      BY <1>1, <3>1 DEF FromTheHead
    <3> QED BY <3>2
  <2> QED BY <2>1, <2>2
<1>4. /\ InOrder(c)' /\ \A n : There(c, n)' => There(c, n)
      /\ \A g \in Actor : \A n : At(c, g, n)' => g \in live' /\ At(c, g, n)
  BY NothingSent
<1>5. ASSUME NEW n, Coming(c, n)' PROVE Coming(c, n)
  <2>1. PICK g \in Actor : At(c, g, n)' /\ Arriving(c, g)'
    BY <1>5 DEF Coming
  <2>2. Arriving(c, g)
    BY <1>3, <2>1 DEF Arriving, head, HeadOf
  <2> QED BY <1>4, <2>1, <2>2 DEF Coming
<1>6. ASSUME NEW n \in Nat, NEW p \in Nat, Coming(c, n)', Coming(c, p), p < n
      PROVE  Coming(c, p)'
  <2>1. PICK g \in Actor : At(c, g, p) /\ Arriving(c, g)
    BY <1>6 DEF Coming
  <2>2. PICK k \in Actor : At(c, k, n)' /\ Arriving(c, k)'
    BY <1>6 DEF Coming
  <2>3. At(c, k, n) /\ k \in live' /\ k # a /\ k \in live
    BY <1>4, <2>2
  <2>4. k = Executor \/ ~ ForthAndBack
    BY <1>3, <2>2 DEF Arriving, head, HeadOf
  <2>5. PICK i \in DOMAIN mbox[g] : OnItsWay(c, g, i) /\ Id(g, i) = p
    BY <2>1 DEF At
  <2>6. PICK j \in DOMAIN mbox[k] : OnItsWay(c, k, j) /\ Id(k, j) = n
    BY <2>3 DEF At
  <2>7. g = k \/ (Hops(k, j) < Hops(g, i) /\ k # Executor)
    BY <1>6, <2>5, <2>6, Behind
  <2>8. g # a
    <3> SUFFICES ASSUME g = a PROVE FALSE
      OBVIOUS
    <3>1. Hops(k, j) < Hops(a, i) /\ k # Executor /\ ~ ForthAndBack
      BY <2>3, <2>4, <2>7
    <3>2. Hops(a, i) = a[2] + 1 /\ i \in DOMAIN mbox[a]
      BY <1>0, <2>5, <3>1, Placed
    <3>3. Hops(k, j) = k[2] + 1 /\ k \in ChainActor /\ k[1] = c
      BY <2>6, <3>1, Placed
    <3>4. k[2] \in Nat
      <4>1. k[2] \in 0 .. PipelineActors - 1 /\ PipelineActors \in Nat
        BY <3>3, Neighbours
      <4> QED BY <4>1
    <3>5. k[2] < a[2]
      BY <1>2, <3>1, <3>2, <3>3, <3>4
    <3> QED BY <2>3, <3>3, <3>5 DEF FromTheHead
  <2>9. Stays(c, a, g, p) /\ g \in live'
    <3>1. g \in live
      BY <2>1, AtLives
    <3> QED BY <2>1, <2>8, <3>1, StaysOrFirst
  <2>10. At(c, g, p)'
    BY <2>9, AtStep
  <2>11. g = Executor \/ ~ ForthAndBack
    BY <2>4, <2>7
  <2>12. Arriving(c, g)'
    BY <2>11 DEF Arriving
  <2> QED BY <2>10, <2>12 DEF Coming
<1>7. HeadOf(c) \notin live'
  BY <1>3 DEF head
<1> HIDE DEF c
<1>8. /\ InOrder(c)' /\ HeadOf(c) \notin live'
      /\ \A n : There(c, n)' => There(c, n)
      /\ \A n : Coming(c, n)' => Coming(c, n)
      /\ \A n, p \in Nat : Coming(c, n)' /\ Coming(c, p) /\ p < n => Coming(c, p)'
  BY <1>4, <1>5, <1>6, <1>7
<1> QED BY <1>8 DEF c

\* The flow is cut off.
LEMMA KillFlow ==
  ASSUME Typed, Startup, Routed, FromTheHead, NEW a \in ChainActor, Has(a, "kill"), a \in live,
         a[1] \in Chains, Flow(a[1]), NEW out, Parcel(out), Arrives(a, out),
         \A h \in Actor : \A y : ~ NewTo(a[1], out, h, y),
         live' = live \ {a}, UNCHANGED <<received, msg_counter_>>
  PROVE  Flow(a[1])'
<1> DEFINE c == a[1]
<1>1. /\ InOrder(c)' /\ HeadOf(c) \notin live'
      /\ \A n : There(c, n)' => There(c, n)
      /\ \A n : Coming(c, n)' => Coming(c, n)
      /\ \A n, p \in Nat : Coming(c, n)' /\ Coming(c, p) /\ p < n => Coming(c, p)'
  BY KillPlaces DEF Flow
<1>2. c \in Chains /\ Flow(c)
  OBVIOUS
<1> HIDE DEF c
<1>3. /\ Taken(c)' = Taken(c) /\ msg_counter_' \in Nat /\ msg_counter_ <= msg_counter_'
      /\ \A k \in Nat : Nth(c, k) <= msg_counter_' => Nth(c, k) <= msg_counter_
  BY DEF Taken, TakenOf, Typed, RgTypeOK
<1>4. Flow(c)'
  BY <1>1, <1>2, <1>3, FlowKept
<1> QED BY <1>4 DEF c

\* kill_a.
LEMMA KillFlows ==
  ASSUME Typed, Startup, Known, Routed, FromTheHead, Flows, Lines, NEW a \in ChainActor,
         ChainMoves(a), Kill(a)
  PROVE  Flows' /\ Lines' /\ Advances
<1> DEFINE out == Sent(KillTarget(a), Signal("kill"))
<1>0. a \in Actor /\ a # Executor /\ UNCHANGED <<received, msg_counter_, chains_built>>
  BY ActorKinds DEF ChainMoves, execVars, rgVars, topoVars, Actor, MainActor
<1>1. /\ live' = live \ {a} /\ mbox[a] # <<>> /\ a \in live /\ Head(mbox[a]).type = "kill"
      /\ Parcel(out) /\ Arrives(a, out)
  BY SendingParcels DEF Kill, Receives, Step, Arrives
<1>2. Has(a, "kill")
  BY <1>0, <1>1, FirstIsContent DEF Has, Typed
<1>3. \A c : \A h \in Actor : \A y : ~ NewTo(c, out, h, y)
  <2>1. \A h \in Actor : \A y : out[h] = <<y>> => y.type = "kill"
    BY SendingParcels DEF Signal
  <2> QED BY <2>1 DEF NewTo, TimedType
<1>4. a[1] \in Chains
  BY DEF ChainActor, Chains
<1> HIDE DEF out
<1>5. ASSUME RoundRobin, Executor \in live', NEW c \in Chains PROVE Flow(c)'
  <2>1. Flow(c)
    BY <1>1, <1>5 DEF Flows
  <2>2. CASE c = a[1]
    BY <1>0, <1>1, <1>2, <1>3, <1>4, <2>1, <2>2, KillFlow
  <2>3. CASE c # a[1]
    <3>1. Head(mbox[a]).type \notin TimedType
      BY <1>1 DEF TimedType
    <3>2. /\ msg_counter_' \in Nat /\ msg_counter_ <= msg_counter_'
          /\ \A k \in Nat : Nth(c, k) <= msg_counter_' => Nth(c, k) <= msg_counter_
      BY <1>0 DEF Typed, RgTypeOK
    <3>3. Carriers(c) \cap live \subseteq live' /\ (HeadOf(c) \in live' => HeadOf(c) \in live)
      BY <1>0, <1>1, <2>3 DEF Carriers, ChainOf
    <3> QED BY <1>0, <1>1, <1>3, <2>1, <3>1, <3>2, <3>3, CalmFlow
  <2> QED BY <2>2, <2>3
<1>6. RoundRobin => DeliveredInTurn'
  BY <1>0, StillInTurn DEF Flows
<1>7. ASSUME Executor \in live, NEW c \in Chains
      PROVE  /\ InOrder(c)' /\ Listed(c)'
             /\ c # a[1] => \A n : Coming(c, n)' <=> Coming(c, n)
             /\ c = a[1] =>
                  /\ HeadOf(c) \notin live' /\ \A n : Coming(c, n)' => Coming(c, n)
                  /\ \A n, p \in Nat : Coming(c, n)' /\ Coming(c, p) /\ p < n => Coming(c, p)'
  <2>1. InOrder(c) /\ Listed(c) /\ msg_counter_ \in Nat /\ UNCHANGED msg_counter_
    BY <1>0, <1>7 DEF Lines, Typed, RgTypeOK
  <2>2. CASE c = a[1]
    <3>1. /\ InOrder(c)' /\ HeadOf(c) \notin live' /\ \A n : There(c, n)' => There(c, n)
          /\ \A n : Coming(c, n)' => Coming(c, n)
          /\ \A n, p \in Nat : Coming(c, n)' /\ Coming(c, p) /\ p < n => Coming(c, p)'
      BY <1>1, <1>2, <1>3, <1>4, <2>1, <2>2, KillPlaces
    <3> QED BY <2>1, <2>2, <3>1, ListedKept
  <2>3. CASE c # a[1]
    <3>1. Head(mbox[a]).type \notin TimedType
      BY <1>1 DEF TimedType
    <3>2. Carriers(c) \cap live \subseteq live' /\ (HeadOf(c) \in live' => HeadOf(c) \in live)
      BY <1>0, <1>1, <2>3 DEF Carriers, ChainOf
    <3>3. /\ InOrder(c)' /\ \A n : There(c, n)' <=> There(c, n)
          /\ \A n : Coming(c, n)' <=> Coming(c, n)
      BY <1>0, <1>1, <1>3, <2>1, <3>1, <3>2, CalmPlaces
    <3> QED BY <2>1, <2>3, <3>3, ListedKept
  <2> QED BY <2>2, <2>3
<1>8. Lines'
  BY <1>0, <1>1, <1>7 DEF Lines
<1>9. Advances
  <2>1. Executor \in live' <=> Executor \in live
    BY <1>0, <1>1
  <2>2. \A c \in Chains \ {a[1]} : Stops(c)' <=> Stops(c)
    <3> SUFFICES ASSUME NEW c \in Chains, c # a[1] PROVE Stops(c)' <=> Stops(c)
      OBVIOUS
    <3>1. HeadOf(c) # a
      BY HeadOfChain
    <3> QED BY <1>0, <1>1, <3>1 DEF Stops, Spawned, HeadOf
  <2>3. ASSUME Executor \in live PROVE Stops(a[1])'
    <3>1. HeadOf(a[1]) \notin live'
      BY <1>4, <1>7, <2>3
    <3>2. a[1] <= chains_built
      BY <1>1 DEF Startup, SpawnedInTurn
    <3>3. HeadOf(a[1])[1] = a[1]
      BY <1>4, HeadOfChain
    <3> QED BY <1>0, <3>1, <3>2, <3>3 DEF Stops, Spawned, HeadOf
  <2>4. \A c \in Chains : (Executor \in live' /\ ~ Stops(c)')
                            <=> (Executor \in live /\ ~ Stops(c) /\ c \notin {a[1]})
    BY <2>1, <2>2, <2>3
  <2>5. \A c \in Chains : QueueOf(c)' \subseteq 1 .. msg_counter_
    <3>1. \A c \in Chains : \A n : Executor \in live' /\ Coming(c, n)' =>
            n \in Nat /\ 1 <= n /\ n <= msg_counter_'
      BY <1>8 DEF Lines, Listed, Coming, There
    <3> QED BY <1>0, <3>1, InQueue DEF Typed, RgTypeOK
  <2>6. ASSUME NEW c \in Chains \ {a[1]} PROVE QueueOf(c)' = QueueOf(c)
    <3>1. \A n : n \in QueueOf(c)' <=> n \in QueueOf(c)
      BY <1>7, <2>1, InQueue
    <3> QED BY <3>1
  <2>7. /\ QueueOf(a[1])' \subseteq QueueOf(a[1])
        /\ \A n \in QueueOf(a[1])', p \in QueueOf(a[1]) : p < n => p \in QueueOf(a[1])'
    <3>1. QueueOf(a[1])' \subseteq Nat /\ QueueOf(a[1]) \subseteq Nat
      BY <1>0, <1>4, <2>5, QueuesListed DEF Typed, RgTypeOK
    <3> QED BY <1>4, <1>7, <2>1, <3>1, InQueue
  <2> QED BY <1>0, <1>4, <2>4, <2>5, <2>6, <2>7, QueuesCut
<1> QED BY <1>5, <1>6, <1>8, <1>9 DEF Flows

-----------------------------------------------------------------------------
(* The executor takes a measurement.                                       *)

\* What the executor takes is the earliest that was not taken.
LEMMA Earliest ==
  ASSUME Typed, Routed, NEW c \in Chains, InOrder(c), 1 \in DOMAIN mbox[Executor],
         OnItsWay(c, Executor, 1), NEW a \in Actor, NEW i \in DOMAIN mbox[a], OnItsWay(c, a, i),
         a = Executor => i > 1
  PROVE  Id(Executor, 1) < Id(a, i)
<1>0. Executor \in Actor
  BY DEF Actor, MainActor
<1>1. Hops(Executor, 1) \in Nat /\ Hops(a, i) \in Nat /\ i \in Nat
  BY <1>0, Placed
<1>2. CASE a = Executor
  <2>1. Hops(Executor, 1) = Links + 2 /\ Hops(a, i) = Links + 2
    BY <1>0, <1>2, Placed
  <2>2. Ahead(Executor, 1, a, i)
    BY <1>1, <1>2, <2>1 DEF Ahead
  <2> QED BY <1>0, <2>2 DEF InOrder
<1>3. CASE a # Executor
  <2>1. Hops(Executor, 1) > Hops(a, i)
    BY <1>0, <1>3, SameHops
  <2>2. Ahead(Executor, 1, a, i)
    BY <2>1 DEF Ahead
  <2> QED BY <1>0, <2>2 DEF InOrder
<1> QED BY <1>2, <1>3

\* It is the measurement whose turn it is.
LEMMA TakesNext ==
  ASSUME Typed, Routed, NEW c \in Chains, Flow(c), 1 \in DOMAIN mbox[Executor],
         OnItsWay(c, Executor, 1)
  PROVE  Id(Executor, 1) = Nth(c, Taken(c)) /\ Id(Executor, 1) <= msg_counter_
<1> DEFINE n == Id(Executor, 1)
           t == Taken(c)
<1>0. Executor \in Actor /\ n \in Nat /\ t \in Nat
  <2>1. Executor \in Actor
    BY DEF Actor, MainActor
  <2> QED BY <2>1, Placed, TakenTyped
<1>1. At(c, Executor, n)
  BY DEF At
<1>2. There(c, n) /\ Coming(c, n)
  BY <1>0, <1>1 DEF There, Coming, Arriving
<1> HIDE DEF n, t
<1>3. n <= msg_counter_ /\ \E k \in Nat : k >= t /\ n = Nth(c, k)
  BY <1>0, <1>2 DEF Flow, Numbered, t
<1>4. PICK k \in Nat : k >= t /\ n = Nth(c, k)
  BY <1>3
<1>5. k = t
  <2> SUFFICES ASSUME t < k PROVE FALSE
    BY <1>0, <1>4
  <2>1. Nth(c, t) < n
    BY <1>0, <1>4, NthLess
  <2>2. n > Nth(c, t) /\ n - ChainsNumber < n
    <3>1. Nth(c, t) \in Nat /\ ChainsNumber \in Nat /\ ChainsNumber > 0
      BY <1>0, NthUp, ChainsTyped
    <3> QED BY <1>0, <2>1, <3>1
  <2>3. Coming(c, n - ChainsNumber)
    BY <1>0, <1>2, <2>2 DEF Flow, NoGap, t
  <2> DEFINE p == n - ChainsNumber
  <2>4. PICK b \in Actor : At(c, b, p)
    BY <2>3 DEF Coming
  <2>5. PICK j \in DOMAIN mbox[b] : OnItsWay(c, b, j) /\ Id(b, j) = p
    BY <2>4 DEF At
  <2>6. p \in Int /\ p < n
    <3>1. ChainsNumber \in Nat
      BY ChainsTyped
    <3> QED BY <1>0, <2>2, <3>1
  <2> HIDE DEF p
  <2>7. b = Executor => j > 1
    <3>1. j \in Nat /\ j >= 1
      BY <2>5, Placed
    <3>2. b = Executor => j # 1
      BY <1>0, <2>5, <2>6 DEF n
    <3> QED BY <3>1, <3>2
  <2>8. n < p
    BY <2>5, <2>7, Earliest DEF Flow, n
  <2> QED BY <1>0, <2>6, <2>8
<1> QED BY <1>3, <1>4, <1>5 DEF n, t

\* The others stay, and were sent later.
LEMMA TakePlaces ==
  ASSUME Typed, Startup, Routed, NEW c \in Chains, InOrder(c), NEW out, Parcel(out),
         Arrives(Executor, out), \A h \in Actor : \A y : ~ NewTo(c, out, h, y),
         1 \in DOMAIN mbox[Executor], OnItsWay(c, Executor, 1), UNCHANGED live
  PROVE  /\ InOrder(c)'
         /\ \A a \in Actor : \A n : At(c, a, n)' => At(c, a, n) /\ Id(Executor, 1) < n /\ n \in Nat
         /\ \A a \in Actor : \A n : At(c, a, n) /\ n # Id(Executor, 1) => At(c, a, n)'
<1>1. /\ InOrder(c)'
      /\ \A a \in Actor : \A n : At(c, a, n)' => Stays(c, Executor, a, n) /\ At(c, a, n)
  BY NothingSent
<1>2. ASSUME NEW a \in Actor, NEW n, At(c, a, n)' PROVE Id(Executor, 1) < n /\ n \in Nat
  <2>1. PICK i \in DOMAIN mbox[a] : OnItsWay(c, a, i) /\ Id(a, i) = n /\ (a = Executor => i > 1)
    BY <1>1, <1>2 DEF Stays
  <2>2. Id(a, i) \in Nat
    BY <2>1, Placed
  <2> QED BY <2>1, <2>2, Earliest
<1>3. ASSUME NEW a \in Actor, NEW n, At(c, a, n), n # Id(Executor, 1) PROVE At(c, a, n)'
  <2>1. a \in live'
    BY <1>3, AtLives
  <2>2. Stays(c, Executor, a, n)
    BY <1>3, StaysOrFirst
  <2> QED BY <2>1, <2>2, AtStep
<1> QED BY <1>1, <1>2, <1>3

\* The measurements of the chain move up in its turn.
LEMMA TakeFlow ==
  ASSUME Typed, Startup, Routed, NEW c \in Chains, Flow(c), NEW out, Parcel(out),
         Arrives(Executor, out), \A h \in Actor : \A y : ~ NewTo(c, out, h, y),
         1 \in DOMAIN mbox[Executor], OnItsWay(c, Executor, 1),
         UNCHANGED <<live, msg_counter_>>, Taken(c)' = Taken(c) + 1
  PROVE  Flow(c)'
<1> DEFINE n0 == Id(Executor, 1)
           t == Taken(c)
<1>0. n0 = Nth(c, t) /\ n0 <= msg_counter_
  BY TakesNext
<1>1. n0 \in Nat /\ t \in Nat /\ msg_counter_ \in Nat /\ Nth(c, t + 1) = n0 + ChainsNumber
      /\ ChainsNumber \in Nat /\ ChainsNumber > 0
  <2>1. t \in Nat /\ msg_counter_ \in Nat
    BY TakenTyped DEF Typed, RgTypeOK
  <2>2. Nth(c, t) \in Nat /\ Nth(c, t + 1) = Nth(c, t) + ChainsNumber
    BY <2>1, NthUp
  <2> QED BY <1>0, <2>1, <2>2, ChainsTyped
<1>2. /\ InOrder(c)'
      /\ \A a \in Actor : \A n : At(c, a, n)' => At(c, a, n)
  BY TakePlaces DEF Flow
<1>3. \A a \in Actor : \A n : At(c, a, n)' => n0 < n /\ n \in Nat
  BY TakePlaces DEF Flow
<1>4. \A a \in Actor : \A n : At(c, a, n) /\ n # n0 => At(c, a, n)'
  BY TakePlaces DEF Flow
<1> HIDE DEF n0
<1>5. \A a : Arriving(c, a)' <=> Arriving(c, a)
  BY DEF Arriving, HeadOf
<1>6. Numbered(c)'
  <2> SUFFICES ASSUME NEW n \in Nat, There(c, n)'
               PROVE  n <= msg_counter_ /\ \E k \in Nat : k >= t + 1 /\ n = Nth(c, k)
    BY DEF Numbered, Nth
  <2>1. PICK a \in Actor : At(c, a, n)'
    BY DEF There
  <2>2. There(c, n) /\ n0 < n
    BY <1>2, <1>3, <2>1 DEF There
  <2>3. n <= msg_counter_
    BY <2>2 DEF Flow, Numbered
  <2>4. PICK k \in Nat : k >= t /\ n = Nth(c, k)
    BY <2>2 DEF Flow, Numbered
  <2>5. k # t
    BY <1>0, <1>1, <2>2, <2>4
  <2>6. k >= t + 1
    BY <1>1, <2>4, <2>5
  <2> QED BY <2>3, <2>4, <2>6
<1>7. NoGap(c)'
  <2> SUFFICES ASSUME NEW n \in Nat, Coming(c, n)', n > Nth(c, t + 1)
               PROVE  Coming(c, n - ChainsNumber)'
    BY DEF NoGap, Nth
  <2>1. PICK a \in Actor : At(c, a, n)' /\ Arriving(c, a)
    BY <1>5 DEF Coming
  <2>2. Coming(c, n)
    BY <1>2, <2>1 DEF Coming
  <2>3. n > Nth(c, t)
    BY <1>0, <1>1
  <2>4. Coming(c, n - ChainsNumber)
    BY <2>2, <2>3 DEF Flow, NoGap
  <2>5. PICK b \in Actor : At(c, b, n - ChainsNumber) /\ Arriving(c, b)
    BY <2>4 DEF Coming
  <2>6. n - ChainsNumber # n0
    BY <1>1
  <2>7. At(c, b, n - ChainsNumber)'
    BY <1>4, <2>5, <2>6
  <2> QED BY <1>5, <2>5, <2>7 DEF Coming
<1>8. AllThere(c)'
  <2> SUFFICES ASSUME HeadOf(c) \in live, NEW k \in Nat, k >= t + 1, Nth(c, k) <= msg_counter_
               PROVE  There(c, Nth(c, k))'
    BY DEF AllThere, Nth, HeadOf
  <2>1. There(c, Nth(c, k))
    BY <1>1 DEF Flow, AllThere
  <2>2. PICK a \in Actor : At(c, a, Nth(c, k))
    BY <2>1 DEF There
  <2>3. Nth(c, k) # n0
    <3>1. t < k
      BY <1>1
    <3>2. Nth(c, t) < Nth(c, k) /\ Nth(c, k) \in Nat
      BY <1>1, <3>1, NthLess, NthUp
    <3> QED BY <1>0, <1>1, <3>2
  <2>4. At(c, a, Nth(c, k))'
    BY <1>4, <2>2, <2>3
  <2> QED BY <2>4 DEF There, Nth
<1>9. WasSent(c)'
  <2> SUFFICES ASSUME NEW k \in Nat, k < t + 1 PROVE Nth(c, k) <= msg_counter_
    BY DEF WasSent, Nth
  <2>1. k < t \/ k = t
    BY <1>1
  <2> QED BY <1>0, <2>1 DEF Flow, WasSent
<1> QED BY <1>2, <1>6, <1>7, <1>8, <1>9 DEF Flow

\* A measurement that is taken in its turn is delivered in turn.
LEMMA TakenInTurn ==
  ASSUME Typed, DeliveredInTurn, NEW e \in [id : Nat, chain : Nat],
         received' = Append(received, e), RoundRobin, e.id = Nth(e.chain, Taken(e.chain))
  PROVE  DeliveredInTurn'
<1> DEFINE n == Len(received)
           BeforeIn(s, i) == {j \in 1 .. i - 1 : s[j].chain = s[i].chain}
<1>1. /\ DOMAIN received' = 1 .. n + 1 /\ n \in Nat /\ DOMAIN received = 1 .. n
      /\ received'[n + 1] = e /\ \A i \in 1 .. n : received'[i] = received[i]
  <2>1. received \in Seq([id : Nat, chain : Nat])
    BY TakenTyped
  <2>2. DOMAIN received = 1 .. n
    BY <2>1
  <2> QED BY <2>2, TakenStep
<1> HIDE DEF n
<1>2. ASSUME NEW i \in 1 .. n
      PROVE  received'[i].id = received'[i].chain + Cardinality(BeforeIn(received', i)) * ChainsNumber
  <2>1. BeforeIn(received', i) = BeforeIn(received, i)
    BY <1>1
  <2>2. received[i].id = received[i].chain + Cardinality(BeforeIn(received, i)) * ChainsNumber
    BY <1>1 DEF DeliveredInTurn
  <2> HIDE DEF BeforeIn
  <2> QED BY <1>1, <2>1, <2>2
<1>3. received'[n + 1].id
        = received'[n + 1].chain + Cardinality(BeforeIn(received', n + 1)) * ChainsNumber
  <2>1. BeforeIn(received', n + 1) = TakenOf(e.chain)
    BY <1>1 DEF TakenOf
  <2> HIDE DEF BeforeIn
  <2>2. e.id = e.chain + Cardinality(TakenOf(e.chain)) * ChainsNumber
    BY DEF Nth, Taken
  <2> QED BY <1>1, <2>1, <2>2
<1>4. \A i \in DOMAIN received' : i \in 1 .. n \/ i = n + 1
  BY <1>1
<1>5. \A i \in DOMAIN received' :
        received'[i].id = received'[i].chain + Cardinality(BeforeIn(received', i)) * ChainsNumber
  BY <1>2, <1>3, <1>4
<1> QED BY <1>5 DEF DeliveredInTurn

-----------------------------------------------------------------------------
(* The stop goes through the chains from their heads.                      *)

\* No actor of a chain is spawned, quits, or is told to.
LEMMA FrontKept ==
  ASSUME FromTheHead, live' \cap ChainActor = live \cap ChainActor, UNCHANGED chains_built,
         \A a \in ChainActor : a[2] > 0 /\ Has(a, "kill")' => Has(a, "kill")
  PROVE  FromTheHead'
<1> SUFFICES ASSUME NEW a \in ChainActor, NEW b \in ChainActor, a[1] = b[1], b[2] < a[2],
                    (a \notin live' /\ Spawned(a)') \/ Has(a, "kill")'
             PROVE  b \notin live'
  BY DEF FromTheHead
<1>1. a[2] > 0
  <2>1. /\ a[2] \in 0 .. PipelineActors - 1 /\ b[2] \in 0 .. PipelineActors - 1
        /\ PipelineActors \in Nat
    BY Neighbours
  <2> QED BY <2>1
<1>2. (a \notin live /\ Spawned(a)) \/ Has(a, "kill")
  BY <1>1 DEF Spawned
<1>3. b \notin live
  BY <1>2 DEF FromTheHead
<1> QED BY <1>3

\* A step that sends no kill.
LEMMA FrontAway ==
  ASSUME Typed, FromTheHead, NEW self, NEW types, Sends(self, types), "kill" \notin types,
         live' \cap ChainActor = live \cap ChainActor, UNCHANGED chains_built
  PROVE  FromTheHead'
<1>1. \A a \in ChainActor : Has(a, "kill")' => Has(a, "kill")
  BY NothingNew DEF Actor
<1> QED BY <1>1, FrontKept

\* A step that leaves the mailboxes alone.
LEMMA FrontStill ==
  ASSUME FromTheHead, UNCHANGED <<mbox, live, chains_built>> PROVE FromTheHead'
<1>1. \A a \in ChainActor : Has(a, "kill")' => Has(a, "kill")
  BY DEF Has, Contents
<1> QED BY <1>1, FrontKept

\* The executor tells heads to quit.
LEMMA FrontStops ==
  ASSUME Typed, FromTheHead, mbox[Executor] # <<>>, NEW heads, \A h \in heads : h[2] = 0,
         NEW t \in FinalType, NEW pending, Step(Executor, StopMessages(heads, t), live, pending),
         UNCHANGED chains_built
  PROVE  FromTheHead'
<1> DEFINE out == StopMessages(heads, t)
<1>1. /\ \A a \in Actor : out[a] \in {<<Signal(t)>>, <<Signal("topo_kill")>>, <<Signal("kill")>>, <<>>}
      /\ \A a \in Actor : out[a] = <<Signal("kill")>> => a \in heads
  <2>1. \A a \in Actor : out[a] \in {<<Signal(t)>>, <<Signal("topo_kill")>>, <<Signal("kill")>>, <<>>}
    BY MainActorsAreActors DEF StopMessages
  <2>2. /\ <<Signal(t)>> # <<Signal("kill")>> /\ <<Signal("topo_kill")>> # <<Signal("kill")>>
        /\ <<>> # <<Signal("kill")>>
    BY DEF Signal, FinalType
  <2>3. \A a \in Actor : out[a] = <<Signal("kill")>> => a \in heads
    BY <2>2 DEF StopMessages, Handle
  <2> QED BY <2>1, <2>3
<1>2. \A x, m : <<>> # <<m>> /\ (<<x>> = <<m>> => x = m)
  OBVIOUS
<1>3. Arrives(Executor, out) /\ UNCHANGED live
  BY DEF Step, Arrives
<1> HIDE DEF out
<1>4. Parcel(out)
  BY <1>1 DEF Parcel
<1>5. \A a \in Actor : \A m : out[a] = <<m>> /\ m.type = "kill" => a \in heads
  <2>1. Signal(t).type # "kill" /\ Signal("topo_kill").type # "kill"
    BY DEF Signal, FinalType
  <2> QED BY <1>1, <1>2, <2>1
<1>6. ASSUME NEW a \in ChainActor, a[2] > 0, Has(a, "kill")' PROVE Has(a, "kill")
  <2>1. a \in Actor
    BY DEF Actor
  <2>2. PICK m \in Contents(a)' : m.type = "kill"
    BY <1>6 DEF Has
  <2>3. m \in Contents(a) \/ out[a] = <<m>>
    BY <1>3, <1>4, <2>1, <2>2, Arrivals DEF Typed
  <2>4. out[a] # <<m>>
    BY <1>5, <1>6, <2>1, <2>2
  <2> QED BY <2>2, <2>3, <2>4 DEF Has
<1> QED BY <1>3, <1>6, FrontKept

\* An actor that quits tells the one after it.
LEMMA FrontPasses ==
  ASSUME Typed, Startup, Known, FromTheHead, NEW a \in ChainActor, ChainMoves(a), Kill(a)
  PROVE  FromTheHead'
<1> DEFINE out == Sent(KillTarget(a), Signal("kill"))
<1>0. a \in Actor /\ Initialiser(a) = "init_bench" /\ Receives(a, "kill")
  BY ActorKinds DEF Actor, Kill
<1>1. /\ live' = live \ {a} /\ mbox[a] # <<>> /\ a \in live /\ Head(mbox[a]).type = "kill"
      /\ Parcel(out) /\ Arrives(a, out)
  BY SendingParcels DEF Kill, Receives, Step, Arrives
<1>2. Has(a, "kill")
  BY <1>0, <1>1, FirstIsContent DEF Has, Typed
<1>3. KillTarget(a) = Following(a)
  <2>1. a \in configured
    BY <1>0, Initialised
  <2> QED BY <1>1, <2>1 DEF Known, KillTarget
<1>4. UNCHANGED chains_built
  BY DEF ChainMoves, topoVars
<1>5. ASSUME NEW b \in Actor, NEW m, out[b] = <<m>> PROVE b = Following(a)
  BY <1>3, <1>5, SendingParcels
<1> HIDE DEF out
<1> SUFFICES ASSUME NEW x \in ChainActor, NEW b \in ChainActor, x[1] = b[1], b[2] < x[2],
                    (x \notin live' /\ Spawned(x)') \/ Has(x, "kill")', b \in live'
             PROVE  FALSE
  BY DEF FromTheHead
<1>6. b \in live /\ b # a /\ x \in Actor
  BY <1>1 DEF Actor
<1>7. /\ \A y \in {a, b, x} : y = <<y[1], y[2]>> /\ y[2] \in 0 .. PipelineActors - 1
      /\ PipelineActors \in Nat
  BY Neighbours
<1>8. ~ ((x \notin live /\ Spawned(x)) \/ Has(x, "kill"))
  BY <1>6 DEF FromTheHead
<1>9. CASE x \notin live' /\ Spawned(x)'
  <2>1. x = a
    BY <1>1, <1>4, <1>8, <1>9 DEF Spawned
  <2> QED BY <1>2, <1>8, <2>1
<1>10. CASE Has(x, "kill")'
  <2>1. PICK m \in Contents(x)' : m.type = "kill"
    BY <1>10 DEF Has
  <2>2. m \in Contents(x) \/ out[x] = <<m>>
    BY <1>1, <1>6, <2>1, Arrivals DEF Typed
  <2>3. x = Following(a)
    BY <1>5, <1>6, <1>8, <2>1, <2>2 DEF Has
  <2>4. x[1] = a[1] /\ x[2] = a[2] + 1
    <3>1. Following(a) # Null
      BY <1>6, <2>3, NullNotActor
    <3>2. x = <<a[1], a[2] + 1>>
      BY <2>3, <3>1, Neighbours
    <3> QED BY <3>2
  <2>5. b[2] # a[2]
    BY <1>6, <1>7, <2>4
  <2>6. b[1] = a[1] /\ b[2] < a[2]
    BY <1>7, <2>4, <2>5
  <2> QED BY <1>2, <1>6, <2>6 DEF FromTheHead
<1> QED BY <1>9, <1>10

\* A chain is spawned.
LEMMA FrontGrows ==
  ASSUME Typed, Startup, FromTheHead, TopoMoves, MakeLinearChain PROVE FromTheHead'
<1>1. Sends(TopoBuilder, {"init_detached", "init_bench", "system_building"})
  BY TopoSending
<1>2. live' = live \cup ChainOf(chains_built + 1) /\ chains_built' = chains_built + 1
      /\ chains_built \in Int
  BY DEF MakeLinearChain, Step, Typed, TopoTyped
<1> SUFFICES ASSUME NEW a \in ChainActor, NEW b \in ChainActor, a[1] = b[1], b[2] < a[2],
                    (a \notin live' /\ Spawned(a)') \/ Has(a, "kill")'
             PROVE  b \notin live'
  BY DEF FromTheHead
<1>3. a \in Actor /\ a[1] \in Int
  BY Neighbours, ConfigAssumption DEF Actor, is_valid, ChainActor
<1>4. Has(a, "kill")' => Has(a, "kill")
  BY <1>1, <1>3, NothingNew
<1>5. Has(a, "kill") => Spawned(a)
  <2>1. ASSUME Has(a, "kill") PROVE a \in live
    <3>1. mbox[a] # <<>>
      BY <2>1 DEF Has, Contents, ToSet
    <3> QED BY <1>3, <3>1 DEF Startup, DeadEmpty
  <2> QED BY <2>1 DEF Startup, SpawnedInTurn, Spawned
<1>6. a \notin live' /\ Spawned(a)' => a \notin live /\ Spawned(a)
  BY <1>2, <1>3 DEF Spawned, ChainOf
<1>7. b \notin live /\ Spawned(a)
  BY <1>4, <1>5, <1>6 DEF FromTheHead
<1> QED BY <1>2, <1>3, <1>7 DEF Spawned, ChainOf

-----------------------------------------------------------------------------
(* Every step.                                                             *)

\* The numbers of the messages when the rate generator does nothing.
LEMMA TurnsStill ==
  ASSUME Turns, UNCHANGED <<rg_state, rg_index, msg_counter_>> PROVE Turns'
BY DEF Turns

\* A step that neither touches measurements nor stops anything.
LEMMA AwayDelivery ==
  ASSUME Typed, Startup, Routed, Delivery, NEW self, NEW types, Sends(self, types),
         types \cap (TimedType \cup {"kill"}) = {},
         self \in Actor => Head(mbox[self]).type \notin TimedType,
         live' \cap ChainActor = live \cap ChainActor, Executor \in live' => Executor \in live,
         UNCHANGED <<received, msg_counter_, rg_state, rg_index, chains_built>>
  PROVE  Delivery' /\ Advances
<1>1. types \cap TimedType = {} /\ "kill" \notin types
  OBVIOUS
<1>2. FromTheHead'
  BY <1>1, FrontAway DEF Delivery
<1>3. Flows' /\ Lines' /\ Advances
  BY <1>1, StopsKept, AwayFlows DEF Delivery
<1> QED BY <1>2, <1>3, TurnsStill DEF Delivery, AllBuilt

\* Crashes and stuttering.
LEMMA StillDelivery ==
  ASSUME Delivery,
         UNCHANGED <<mbox, live, received, msg_counter_, rg_state, rg_index, chains_built>>
  PROVE  Delivery' /\ Advances
<1>1. FromTheHead' /\ Turns' /\ Flows' /\ Lines' /\ Advances
  BY FrontStill, StillFlows, TurnsStill DEF Delivery
<1> QED BY <1>1 DEF Delivery, AllBuilt

\* The rate generator.
LEMMA RgDelivery ==
  ASSUME Typed, Startup, Routed, Ready, Delivery, RgMoves PROVE Delivery' /\ Advances
<1>1. Turns' /\ Flows' /\ Lines' /\ Advances
  BY RgFlows DEF Delivery
<1>2. UNCHANGED <<live, chains_built>> /\ rg_state # "absent"
  BY DEF RgMoves, topoVars, RgStep, RgStart, RgSend, RgFinish, RgFirstHop, Sending, Crash,
     Undefined, Posted, Handled, Step
<1>3. CASE (RgStart \/ RgFirstHop) /\ UNCHANGED mbox
  BY <1>1, <1>2, <1>3, FrontStill DEF Delivery, AllBuilt
<1>4. ASSUME NEW types, Sends(Null, types), "kill" \notin types PROVE FromTheHead'
  BY <1>2, <1>4, FrontAway DEF Delivery
<1>5. FromTheHead'
  BY <1>1, <1>3, <1>4, RgSending DEF Delivery
<1> QED BY <1>1, <1>2, <1>5 DEF Delivery, AllBuilt

\* The actors of the chains.
LEMMA ChainDelivery ==
  ASSUME Typed, Startup, Known, Routed, Delivery, NEW a \in ChainActor, ChainMoves(a)
  PROVE  Delivery' /\ Advances
<1>0. /\ UNCHANGED <<received, msg_counter_, rg_state, rg_index, chains_built>>
      /\ Turns' /\ AllBuilt'
  BY TurnsStill DEF ChainMoves, execVars, rgVars, topoVars, Delivery, AllBuilt
<1>1. CASE Kill(a)
  BY <1>0, <1>1, FrontPasses, KillFlows DEF Delivery
<1>2. ASSUME ~ Kill(a) PROVE UNCHANGED live
  BY <1>2 DEF ChainMoves, ChainActorStep, InitBench, Weightless, WeightlessBack, TimedMsg,
     TimedMsgBack, SendForth, SendBack, Relay, Report, Handled, Step
<1>3. CASE ~ Kill(a) /\ (TimedMsg(a) \/ TimedMsgBack(a))
  <2>1. Flows' /\ Lines' /\ Advances
    BY <1>3, TimedFlows DEF Delivery
  <2>2. \E types : Sends(a, types) /\ "kill" \notin types
    <3>1. /\ "kill" \notin {"init_bench_reply"} /\ "kill" \notin SerialType \cup {"detached_msg"}
          /\ "kill" \notin {"timed_msg", "timed_msg_back", "parallel", "detached_msg"}
      BY DEF SerialType
    <3> QED BY <1>3, <3>1, ChainSending
  <2>3. FromTheHead'
    BY <1>0, <1>2, <1>3, <2>2, FrontAway DEF Delivery
  <2> QED BY <1>0, <2>1, <2>3 DEF Delivery
<1>4. CASE ~ Kill(a) /\ ~ (TimedMsg(a) \/ TimedMsgBack(a))
  <2>1. InitBench(a) \/ Weightless(a) \/ WeightlessBack(a)
    BY <1>4 DEF ChainMoves, ChainActorStep
  <2>2. Head(mbox[a]).type \notin TimedType
    BY <2>1 DEF InitBench, Weightless, WeightlessBack, Receives, TimedType
  <2>3. \E types : Sends(a, types) /\ types \cap (TimedType \cup {"kill"}) = {}
    <3>1. /\ {"init_bench_reply"} \cap (TimedType \cup {"kill"}) = {}
          /\ (SerialType \cup {"detached_msg"}) \cap (TimedType \cup {"kill"}) = {}
      BY DEF SerialType, TimedType
    <3> QED BY <1>4, <3>1, ChainSending
  <2> QED BY <1>0, <1>2, <1>4, <2>2, <2>3, AwayDelivery
<1> QED BY <1>1, <1>3, <1>4

\* The topology builder: chains are spawned before the first measurement is sent.
LEMMA TopoDelivery ==
  ASSUME Typed, Startup, OneChainAtATime, Routed, Delivery, TopoMoves
  PROVE  Delivery' /\ Advances
<1>0. /\ UNCHANGED <<received, msg_counter_, rg_state, rg_index>>
      /\ Turns' /\ TopoBuilder \in Actor /\ TopoBuilder \notin ChainActor
      /\ TopoBuilder # Executor /\ Executor \notin ChainActor \cup PoolActor
      /\ ChainActor \cap PoolActor = {}
  BY TurnsStill, ActorKinds, ActorAssumption
     DEF TopoMoves, execVars, rgVars, Delivery, Actor, MainActor
<1>1. Sends(TopoBuilder, {"init_detached", "init_bench", "system_building"})
  BY TopoSending
<1>2. Head(mbox[TopoBuilder]).type \notin TimedType
  BY DEF TopoMoves, TopoStep, InitTopo, InitDetachedReply, MakeLinearChain, InitBenchReply, TopoKill,
     Receives, TimedType
<1>3. {"init_detached", "init_bench", "system_building"} \cap (TimedType \cup {"kill"}) = {}
  BY DEF TimedType
<1>4. CASE MakeLinearChain
  <2>1. msg_counter_ = 0 /\ AllBuilt' /\ SameStops
    <3>1. Receives(TopoBuilder, "make_linear_chain") /\ TopoBuilder \in Builder
      BY <1>4 DEF MakeLinearChain, Builder
    <3>2. ~ Started
      BY <3>1, StartedHead DEF BuildType
    <3>3. Building
      BY <3>2 DEF OneChainAtATime
    <3>4. msg_counter_ = 0 /\ AllBuilt'
      BY <1>0, <3>3 DEF Building, Delivery, Turns, AllBuilt
    <3>5. live' = live \cup ChainOf(chains_built + 1) /\ chains_built' = chains_built + 1
          /\ chains_built \in Int
      BY <1>4 DEF MakeLinearChain, Step, Typed, TopoTyped
    <3>6. ASSUME NEW c \in Chains PROVE ~ Stops(c) /\ ~ Stops(c)'
      <4>1. HeadOf(c) \in ChainActor /\ HeadOf(c)[1] = c /\ c \in Int
        BY HeadOfChain, ChainsTyped
      <4>2. HeadOf(c) \in live <=> Spawned(HeadOf(c))
        BY <3>3, <4>1 DEF Building
      <4>3. ASSUME Spawned(HeadOf(c))' PROVE HeadOf(c) \in live'
        <5>1. c <= chains_built \/ c = chains_built + 1
          BY <3>5, <4>1, <4>3 DEF Spawned, HeadOf
        <5>2. c = chains_built + 1 => HeadOf(c) \in ChainOf(chains_built + 1)
          BY <4>1 DEF ChainOf
        <5> QED BY <3>5, <4>1, <4>2, <5>1, <5>2 DEF Spawned
      <4> QED BY <4>2, <4>3 DEF Stops, HeadOf
    <3> QED BY <3>4, <3>6 DEF SameStops
  <2>2. live \subseteq live' /\ (Executor \in live' => Executor \in live)
    BY <1>0, <1>4 DEF MakeLinearChain, Step, ChainOf
  <2>3. {"init_detached", "init_bench", "system_building"} \cap TimedType = {}
    BY <1>3
  <2>4. Flows' /\ Lines' /\ Advances
    BY <1>0, <1>1, <1>2, <2>1, <2>2, <2>3, AwayFlows DEF Delivery
  <2>5. FromTheHead'
    BY <1>4, FrontGrows DEF Delivery
  <2> QED BY <1>0, <2>1, <2>4, <2>5 DEF Delivery
<1>5. CASE ~ MakeLinearChain
  <2>1. UNCHANGED chains_built /\ live' \in {live, live \cup PoolActor, live \ {TopoBuilder}}
    BY <1>5 DEF TopoMoves, TopoStep, InitTopo, InitDetachedReply, InitBenchReply, TopoKill,
       Handled, Step, topoVars
  <2>2. live' \cap ChainActor = live \cap ChainActor /\ (Executor \in live' => Executor \in live)
    BY <1>0, <2>1
  <2> QED BY <1>0, <1>1, <1>2, <1>3, <2>1, <2>2, AwayDelivery
<1> QED BY <1>4, <1>5

\* parallel_a.
LEMMA TakeDelivery ==
  ASSUME Typed, Startup, Routed, Delivery, ExecutorMoves, Parallel,
         Summable(Head(mbox[Executor]).hops)
  PROVE  Delivery' /\ Advances
<1> DEFINE m == Head(mbox[Executor])
           c == m.chain
           e == [id |-> m.id, chain |-> m.chain]
<1>0. /\ Receives(Executor, "parallel") /\ Executor \in Actor /\ Executor \in live
      /\ mbox[Executor] # <<>>
      /\ UNCHANGED <<live, msg_counter_, rg_state, rg_index, chains_built>>
      /\ received' = Append(received, e) /\ Step(Executor, Silent, live, timers)
  BY MainActorsAreActors DEF Parallel, Receives, ExecutorMoves, rgVars, topoVars, Handled, Step
<1>1. m \in ProbeMsg /\ m.type = "parallel" /\ OnRoute(Executor, m)
  BY <1>0, HeadRouted DEF ProbeType
<1>2. e \in [id : Nat, chain : Nat] /\ e.chain = c /\ e.id = m.id /\ c \in Chains
  <2>1. m.id \in Nat /\ m.chain \in Nat /\ m.chain \in Chains
    BY <1>1 DEF ProbeMsg, OnRoute, Chains
  <2> QED BY <2>1
<1>3. 1 \in DOMAIN mbox[Executor] /\ mbox[Executor][1] = m
  <2>1. mbox[Executor] \in Seq(Message)
    BY <1>0 DEF Typed, SystemTypeOK
  <2> QED BY <1>0, <2>1
<1>4. OnItsWay(c, Executor, 1) /\ Id(Executor, 1) = m.id
  BY <1>1, <1>3 DEF OnItsWay, TimedType, Id
<1> HIDE DEF m
<1>5. Parcel(Silent) /\ Arrives(Executor, Silent) /\ \A a \in Actor : \A x : Silent[a] # <<x>>
  BY <1>0, SendingParcels DEF Step, Arrives
<1>6. \A d : \A h \in Actor : \A y : ~ NewTo(d, Silent, h, y)
  BY <1>5 DEF NewTo
<1>7. Sends(Executor, {})
  BY <1>5 DEF Sends
<1>8. FromTheHead'
  BY <1>0, <1>7, FrontAway DEF Delivery
<1>9. Turns'
  BY <1>0, TurnsStill DEF Delivery
<1>10. ASSUME NEW d \in Chains, d # c
       PROVE  /\ Head(mbox[Executor]).chain # d
              /\ Carriers(d) \cap live \subseteq live' /\ (HeadOf(d) \in live' => HeadOf(d) \in live)
  BY <1>0, <1>10 DEF m
<1>11. ASSUME RoundRobin PROVE DeliveredInTurn' /\ \A d \in Chains : Flow(d)'
  <2>1. DeliveredInTurn /\ \A d \in Chains : Flow(d)
    BY <1>0, <1>11 DEF Delivery, Flows
  <2>2. m.id = Nth(c, Taken(c))
    BY <1>2, <1>3, <1>4, <2>1, TakesNext
  <2>3. DeliveredInTurn'
    BY <1>0, <1>2, <1>11, <2>1, <2>2, TakenInTurn
  <2>4. \A d : Taken(d)' = IF d = c THEN Taken(d) + 1 ELSE Taken(d)
    BY <1>0, <1>2, TakenStep
  <2>5. ASSUME NEW d \in Chains PROVE Flow(d)'
    <3>1. CASE d = c
      BY <1>0, <1>3, <1>4, <1>5, <1>6, <2>1, <2>4, <3>1, TakeFlow
    <3>2. CASE d # c
      <4>2. Taken(d)' = Taken(d)
        BY <2>4, <3>2
      <4>3. /\ msg_counter_' \in Nat /\ msg_counter_ <= msg_counter_'
            /\ \A k \in Nat : Nth(d, k) <= msg_counter_' => Nth(d, k) <= msg_counter_
        BY <1>0 DEF Typed, RgTypeOK
      <4> QED BY <1>5, <1>6, <1>10, <2>1, <3>2, <4>2, <4>3, CalmTaken
    <3> QED BY <3>1, <3>2
  <2> QED BY <2>3, <2>5
<1>12. Flows'
  BY <1>11 DEF Flows
<1>13. PICK k \in Chains, n0 \in Nat : k = c /\ n0 = m.id
  BY <1>1, <1>2 DEF ProbeMsg
<1> HIDE DEF c, e
<1>14. ASSUME NEW d \in Chains
       PROVE  /\ InOrder(d)' /\ Listed(d)'
              /\ d # k => \A n : Coming(d, n)' <=> Coming(d, n)
              /\ d = k => \A n : /\ Coming(d, n)' <=> Coming(d, n) /\ n # n0
                                 /\ Coming(d, n)' => n0 < n
  <2>1. InOrder(d) /\ Listed(d) /\ msg_counter_ \in Nat /\ UNCHANGED msg_counter_
    BY <1>0 DEF Delivery, Lines, Typed, RgTypeOK
  <2>2. CASE d # k
    <3>1. /\ InOrder(d)' /\ \A n : There(d, n)' <=> There(d, n)
          /\ \A n : Coming(d, n)' <=> Coming(d, n)
      BY <1>5, <1>6, <1>10, <1>13, <2>1, <2>2, CalmPlaces
    <3> QED BY <2>1, <2>2, <3>1, ListedKept
  <2>3. CASE d = k
    <3>1. OnItsWay(d, Executor, 1) /\ Id(Executor, 1) = n0
      BY <1>4, <1>13, <2>3
    <3>2. InOrder(d)'
      BY <1>0, <1>3, <1>5, <1>6, <2>1, <3>1, TakePlaces
    <3>3. \A a \in Actor : \A n : At(d, a, n)' => At(d, a, n) /\ n0 < n /\ n \in Nat
      BY <1>0, <1>3, <1>5, <1>6, <2>1, <3>1, TakePlaces
    <3>4. \A a \in Actor : \A n : At(d, a, n) /\ n # n0 => At(d, a, n)'
      BY <1>0, <1>3, <1>5, <1>6, <2>1, <3>1, TakePlaces
    <3>5. \A a : Arriving(d, a)' <=> Arriving(d, a)
      BY <1>0 DEF Arriving, HeadOf
    <3>6. \A n : There(d, n)' => There(d, n)
      BY <3>3 DEF There
    <3>7. ASSUME NEW n PROVE /\ Coming(d, n)' <=> Coming(d, n) /\ n # n0
                             /\ Coming(d, n)' => n0 < n
      BY <3>3, <3>4, <3>5 DEF Coming
    <3>8. Listed(d)'
      BY <2>1, <3>6, ListedKept
    <3> QED BY <2>3, <3>2, <3>7, <3>8
  <2> QED BY <2>2, <2>3
<1>15. Lines'
  BY <1>14 DEF Lines
<1>16. Advances
  <2>1. n0 \in QueueOf(k) /\ \A n \in QueueOf(k) : n0 <= n
    <3>1. Coming(k, n0)
      BY <1>0, <1>3, <1>4, <1>13 DEF Coming, At, Arriving
    <3>2. ASSUME NEW n \in QueueOf(k) PROVE n0 <= n
      <4>1. Coming(k, n) /\ n \in Nat
        BY InQueue, QueuesListed DEF Delivery, Typed, RgTypeOK
      <4>2. n = n0 \/ n0 < n
        BY <1>14, <4>1
      <4> QED BY <4>1, <4>2
    <3> QED BY <1>0, <3>1, <3>2, InQueue
  <2>2. ASSUME NEW d \in Chains
        PROVE  QueueOf(d)' = IF d = k THEN QueueOf(d) \ {n0} ELSE QueueOf(d)
    <3>1. Executor \in live /\ Executor \in live'
      BY <1>0
    <3>2. \A n : n \in QueueOf(d)' <=> n \in QueueOf(d) /\ ~ (d = k /\ n = n0)
      BY <1>14, <3>1, InQueue
    <3> QED BY <3>2
  <2>3. received' = Append(received, [id |-> n0, chain |-> k])
    BY <1>0, <1>13 DEF c, e
  <2> QED BY <1>0, <2>1, <2>2, <2>3, StopsKept, QueuesTake
<1> QED BY <1>0, <1>8, <1>9, <1>12, <1>15, <1>16 DEF Delivery, AllBuilt

\* The executor.
LEMMA ExecutorDelivery ==
  ASSUME Typed, Startup, OneChainAtATime, Routed, Delivery, ExecutorMoves
  PROVE  Delivery' /\ Advances
<1>0. /\ UNCHANGED chains_built /\ Executor \notin ChainActor /\ Executor \in Actor
      /\ Executor \in Builder /\ Known
  BY ActorKinds, MainActorsAreActors
     DEF ExecutorMoves, topoVars, MainActor, Builder, OneChainAtATime
<1>1. ASSUME NEW types, Sends(Executor, types), types \cap (TimedType \cup {"kill"}) = {},
             Head(mbox[Executor]).type \notin TimedType, live' \in {live, live \ {Executor}},
             UNCHANGED <<received, rgVars>>
      PROVE  Delivery' /\ Advances
  <2>1. live' \cap ChainActor = live \cap ChainActor /\ (Executor \in live' => Executor \in live)
    BY <1>0, <1>1
  <2>2. UNCHANGED <<msg_counter_, rg_state, rg_index>>
    BY <1>1 DEF rgVars
  <2> QED BY <1>0, <1>1, <2>1, <2>2, AwayDelivery
<1>2. CASE Crash /\ (Serial \/ SerialKill \/ Parallel \/ ParallelKill)
  <2>1. UNCHANGED <<mbox, live, received, rgVars>>
    <3>1. UNCHANGED <<mbox, live>> /\ process' = "crashed" /\ UNCHANGED rgVars
      BY <1>2 DEF Crash, Serial, SerialKill, Parallel, ParallelKill
    <3>2. CASE Serial \/ SerialKill \/ ParallelKill
      BY <3>1, <3>2 DEF Serial, SerialKill, ParallelKill, countVars
    <3>3. CASE Parallel
      <4>1. process # "crashed"
        BY <3>3 DEF Parallel, Receives
      <4> QED BY <3>1, <3>3, <4>1 DEF Parallel, Handled, Step
    <3> QED BY <1>2, <3>1, <3>2, <3>3
  <2>2. UNCHANGED <<msg_counter_, rg_state, rg_index>>
    BY <2>1 DEF rgVars
  <2> QED BY <1>0, <2>1, <2>2, StillDelivery
<1>3. CASE ExecInit /\ Sends(Executor, {})
  <2>1. /\ Receives(Executor, "exec_init") /\ UNCHANGED <<live, received, rgVars>>
    BY <1>3 DEF ExecInit, Handled, Step
  <2> QED BY <1>1, <1>3, <2>1 DEF Receives, TimedType
<1>4. CASE /\ Sysconfig
           /\ Sends(Executor, IF Len(heads_) = ChainsNumber THEN {BenchmarkSignal.type}
                                                            ELSE {"make_linear_chain"})
  <2>1. /\ Receives(Executor, "sysconfig") /\ UNCHANGED <<live, received, rgVars>>
    BY <1>4 DEF Sysconfig, Handled, Step, execVars
  <2>2. /\ {BenchmarkSignal.type} \cap (TimedType \cup {"kill"}) = {}
        /\ {"make_linear_chain"} \cap (TimedType \cup {"kill"}) = {}
    BY DEF BenchmarkSignal, Signal, TimedType
  <2> QED BY <1>1, <1>4, <2>1, <2>2 DEF Receives, TimedType
<1>5. CASE SystemBuilding /\ Sends(Executor, {"sysconfig"})
  <2>1. /\ Receives(Executor, "system_building") /\ UNCHANGED <<live, received, rgVars>>
    BY <1>5 DEF SystemBuilding, Handled, Step, countVars
  <2>2. {"sysconfig"} \cap (TimedType \cup {"kill"}) = {}
    BY DEF TimedType
  <2> QED BY <1>1, <1>5, <2>1, <2>2 DEF Receives, TimedType
<1>6. CASE SerialBenchmark /\ Sends(Executor, {"serial"})
  <2>1. /\ Receives(Executor, "serial_benchmark") /\ UNCHANGED <<live, received, rgVars>>
    BY <1>6 DEF SerialBenchmark, Handled, Step, execVars
  <2>2. {"serial"} \cap (TimedType \cup {"kill"}) = {}
    BY DEF TimedType
  <2> QED BY <1>1, <1>6, <2>1, <2>2 DEF Receives, TimedType
<1>7. CASE Serial /\ heads_ # <<>> /\ Sends(Executor, {"weightless"})
  <2>1. /\ Receives(Executor, "serial") /\ UNCHANGED <<live, received, rgVars>>
    BY <1>7 DEF Serial, Handled, Step
  <2>2. {"weightless"} \cap (TimedType \cup {"kill"}) = {}
    BY DEF TimedType
  <2> QED BY <1>1, <1>7, <2>1, <2>2 DEF Receives, TimedType
<1>8. CASE /\ \E t \in {"serial_update_metrics", "parallel_update_metrics"} : UpdateMetrics(t)
           /\ Sends(Executor, {})
  <2>1. PICK t \in {"serial_update_metrics", "parallel_update_metrics"} : UpdateMetrics(t)
    BY <1>8
  <2>2. /\ Receives(Executor, t) /\ UNCHANGED <<live, received, rgVars>>
    BY <2>1 DEF UpdateMetrics, Step, execVars
  <2> QED BY <1>1, <1>8, <2>2 DEF Receives, TimedType
<1>9. ASSUME NEW k \in {"serial_kill", "parallel_kill"}, Receives(Executor, k),
             NEW heads, \A h \in heads : \E i \in 1 .. Len(heads_) : h = heads_[i],
             NEW t \in FinalType, NEW pending, Step(Executor, StopMessages(heads, t), live, pending),
             UNCHANGED <<received, rgVars>>
      PROVE  Delivery' /\ Advances
  <2>1. mbox[Executor] # <<>> /\ UNCHANGED live /\ Head(mbox[Executor]).type \notin TimedType
    BY <1>9 DEF Receives, Step, TimedType
  <2>2. UNCHANGED <<msg_counter_, rg_state, rg_index>>
    BY <1>9 DEF rgVars
  <2>3. \A h \in heads : h[2] = 0
    BY <1>0, <1>9 DEF Known, HeadOf
  <2>4. FromTheHead'
    BY <1>0, <1>9, <2>1, <2>3, FrontStops DEF Delivery
  <2>5. Sends(Executor, {t, "topo_kill", "kill"})
    BY <1>9, <2>1, StopSending
  <2>6. {t, "topo_kill", "kill"} \cap TimedType = {}
    BY DEF FinalType, TimedType
  <2>7. Flows' /\ Lines' /\ Advances
    BY <1>0, <1>9, <2>1, <2>2, <2>5, <2>6, StopsKept, AwayFlows DEF Delivery
  <2> QED BY <1>0, <2>2, <2>4, <2>7, TurnsStill DEF Delivery, AllBuilt
<1>10. CASE SerialKill /\ Divides
  <2>1. heads_ \in Seq(ChainActor)
    BY DEF Typed, ExecTypeOK
  <2>2. 1 \in 1 .. Len(heads_)
    BY <1>10, <2>1 DEF Divides
  <2>3. \A h \in {heads_[1]} : \E i \in 1 .. Len(heads_) : h = heads_[i]
    BY <2>2
  <2>4. /\ "serial_collect" \in FinalType /\ "serial_collect_xtimes" \in FinalType
    BY DEF FinalType
  <2> QED BY <1>9, <1>10, <2>3, <2>4 DEF SerialKill, Divides, countVars
<1>11. CASE ParallelBenchmark /\ Sends(Executor, {})
  <2>1. /\ Receives(Executor, "parallel_benchmark") /\ UNCHANGED <<live, received, msg_counter_>>
        /\ rg_state' = "spawned"
    BY <1>11 DEF ParallelBenchmark, SpawnRateGenerator, Step, execVars
  <2>2. ~ Started
    BY <1>0, <2>1, StartedHead DEF BuildType
  <2>3. msg_counter_ = 0 /\ AllBuilt'
    <3>1. Building /\ Stage
      BY <2>2 DEF OneChainAtATime
    <3>2. AtStart
      BY <2>1, <3>1, ExecutorReceives
    <3> QED BY <1>0, <3>1, <3>2 DEF Building, AtStart, Delivery, Turns, AllBuilt
  <2>4. Turns'
    BY <2>1, <2>3 DEF Turns
  <2>5. FromTheHead'
    BY <1>0, <1>11, <2>1, FrontAway DEF Delivery
  <2>6. Head(mbox[Executor]).type \notin TimedType
    BY <2>1 DEF Receives, TimedType
  <2>7. Flows' /\ Lines' /\ Advances
    BY <1>0, <1>11, <2>1, <2>6, StopsKept, AwayFlows DEF Delivery
  <2> QED BY <2>3, <2>4, <2>5, <2>7 DEF Delivery
<1>12. CASE Parallel /\ Summable(Head(mbox[Executor]).hops)
  BY <1>12, TakeDelivery
<1>13. CASE ParallelKill /\ nsteps_ # 0
  <2>1. \A h \in {heads_[i] : i \in 1 .. Len(heads_)} : \E i \in 1 .. Len(heads_) : h = heads_[i]
    OBVIOUS
  <2>2. /\ "rec_collect" \in FinalType /\ "rec_collect_xtimes" \in FinalType
    BY DEF FinalType
  <2> QED BY <1>9, <1>13, <2>1, <2>2 DEF ParallelKill, countVars
<1>14. CASE End /\ Sends(Executor, {})
  <2>1. /\ Receives(Executor, "end") /\ live' = live \ {Executor} /\ UNCHANGED <<received, rgVars>>
    BY <1>14 DEF End, Step, execVars
  <2> QED BY <1>1, <1>14, <2>1 DEF Receives, TimedType
<1> QED
  BY <1>2, <1>3, <1>4, <1>5, <1>6, <1>7, <1>8, <1>10, <1>11, <1>12, <1>13, <1>14, ExecutorSending

\* main(), the pool, the results collector, the clock and stuttering.
LEMMA NextDelivery ==
  ASSUME Typed, Startup, OneChainAtATime, Routed, Ready, Delivery, [Next]_vars
  PROVE  Delivery' /\ Advances
<1>0. /\ Null \notin Actor /\ Known
      /\ \A a \in PoolActor \cup {Collector} : a \in Actor
  BY NullNotActor, MainActorsAreActors DEF OneChainAtATime, Actor
<1>1. CASE MainStep
  <2>1. UNCHANGED <<live, received, msg_counter_, rg_state, rg_index, chains_built>>
    BY <1>1 DEF MainStep, Posted, Handled, Step, execVars, rgVars, topoVars
  <2>2. MainType \cap (TimedType \cup {"kill"}) = {}
    BY DEF MainType, TimedType
  <2> QED BY <1>0, <1>1, <2>1, <2>2, MainSending, AwayDelivery
<1>2. CASE ExecutorMoves
  BY <1>2, ExecutorDelivery
<1>3. CASE RgMoves
  BY <1>3, RgDelivery
<1>4. ASSUME NEW a \in ChainActor, ChainMoves(a) PROVE Delivery' /\ Advances
  BY <1>0, <1>4, ChainDelivery
<1>5. ASSUME NEW p \in PoolActor, PoolMoves(p) PROVE Delivery' /\ Advances
  <2>1. UNCHANGED <<live, received, msg_counter_, rg_state, rg_index, chains_built>>
    BY <1>5 DEF PoolMoves, PoolActorStep, InitDetached, DetachedMsg, Handled, Step,
       execVars, rgVars, topoVars
  <2>2. Head(mbox[p]).type \notin TimedType
    BY <1>5 DEF PoolMoves, PoolActorStep, InitDetached, DetachedMsg, Receives, TimedType
  <2>3. {"init_detached_reply"} \cap (TimedType \cup {"kill"}) = {}
    BY DEF TimedType
  <2> QED BY <1>5, <2>1, <2>2, <2>3, PoolSending, AwayDelivery
<1>6. CASE TopoMoves
  BY <1>6, TopoDelivery
<1>7. CASE CollectorMoves
  <2>1. UNCHANGED <<received, msg_counter_, rg_state, rg_index, chains_built>>
    BY <1>7 DEF CollectorMoves, execVars, rgVars, topoVars
  <2>2. \E t \in FinalType \cup {"rc_init", "send_collect", "sys_collect", "benchmark_kill"} :
          Receives(Collector, t) /\ UNCHANGED live
    <3>1. RcInit \/ SendCollect \/ SysCollect \/ BenchmarkKill => UNCHANGED live
      BY DEF RcInit, SendCollect, SysCollect, BenchmarkKill, Handled, Step
    <3>3. /\ RcInit => Receives(Collector, "rc_init")
          /\ SendCollect => Receives(Collector, "send_collect")
          /\ SysCollect => Receives(Collector, "sys_collect")
          /\ BenchmarkKill => Receives(Collector, "benchmark_kill")
      BY DEF RcInit, SendCollect, SysCollect, BenchmarkKill
    <3>2. ASSUME NEW t \in FinalType, FinalCollect(t) PROVE Receives(Collector, t) /\ UNCHANGED live
      BY <3>2 DEF FinalCollect, Step
    <3> QED BY <1>7, <3>1, <3>2, <3>3 DEF CollectorMoves, CollectorStep
  <2>3. UNCHANGED live /\ Head(mbox[Collector]).type \notin TimedType
    BY <2>2 DEF Receives, FinalType, TimedType
  <2>4. CASE BenchmarkKill /\ UNCHANGED mbox
    BY <2>1, <2>3, <2>4, StillDelivery
  <2> QED BY <1>7, <2>1, <2>3, <2>4, CollectorSending, AwayDelivery
<1>8. ASSUME NEW t \in Timer, ClockMoves(t) PROVE Delivery' /\ Advances
  <2>1. UNCHANGED <<live, received, msg_counter_, rg_state, rg_index, chains_built>>
    BY <1>8 DEF ClockMoves, Fire, Step, execVars, rgVars, topoVars
  <2>2. {t.type} \cap (TimedType \cup {"kill"}) = {}
    BY DEF Timer, TimedType
  <2> QED BY <1>0, <1>8, <2>1, <2>2, ClockSending, AwayDelivery
<1>9. CASE UNCHANGED worldVars
  <2>1. UNCHANGED <<mbox, live, received, msg_counter_, rg_state, rg_index, chains_built>>
    BY <1>9 DEF worldVars, systemVars, execVars, rgVars, topoVars
  <2> QED BY <2>1, StillDelivery
<1> QED
  BY <1>1, <1>2, <1>3, <1>4, <1>5, <1>6, <1>7, <1>8, <1>9 DEF Next, TimePasses, Terminated, vars

\* At the beginning nothing is under way.
LEMMA InitDelivery == ASSUME Init PROVE Delivery
<1>1. /\ \A a \in Actor : mbox[a] = <<>>
      /\ live = MainActor /\ received = <<>> /\ msg_counter_ = 0 /\ rg_state = "absent"
      /\ chains_built = 0
  BY DEF Init, SystemInit, ExecInitState, RgInit, TopoInit
<1>2. DOMAIN <<>> = {}
  OBVIOUS
<1>3. \A a : a \in Actor => Contents(a) = {} /\ DOMAIN mbox[a] = {}
  BY <1>1, <1>2 DEF Contents, ToSet
<1>4. FromTheHead
  <2>1. ASSUME NEW a \in ChainActor PROVE ~ Spawned(a) /\ ~ Has(a, "kill")
    <3>1. a[1] \in 1 .. ChainsNumber /\ a \in Actor
      BY Neighbours DEF Actor
    <3> QED BY <1>1, <1>3, <3>1 DEF Spawned, Has
  <2> QED BY <2>1 DEF FromTheHead
<1>5. DeliveredInTurn
  BY <1>1, <1>2 DEF DeliveredInTurn
<1>6. ASSUME NEW c \in Chains PROVE Flow(c)
  <2>1. \A n : ~ There(c, n) /\ ~ Coming(c, n)
    BY <1>3 DEF There, Coming, At
  <2>2. HeadOf(c) \notin live
    BY <1>1, HeadOfChain, ActorKinds
  <2>3. Taken(c) = 0
    <3>1. TakenOf(c) = {}
      BY <1>1, <1>2 DEF TakenOf
    <3> QED BY <3>1, FS_EmptySet DEF Taken
  <2>4. InOrder(c)
    BY <1>3 DEF InOrder
  <2> QED BY <2>1, <2>2, <2>3, <2>4 DEF Flow, Numbered, NoGap, AllThere, WasSent
<1>7. Lines
  <2>1. \A c : ~ \E n : There(c, n)
    BY <1>3 DEF There, At
  <2> QED BY <1>6, <2>1 DEF Lines, Listed, Flow
<1> QED BY <1>1, <1>4, <1>5, <1>6, <1>7 DEF Delivery, Turns, Flows, AllBuilt

\* At the beginning all queues are empty and open.
LEMMA InitQueues == ASSUME Init PROVE Queues!Init
<1>1. /\ \A a \in Actor : mbox[a] = <<>>
      /\ live = MainActor /\ received = <<>> /\ msg_counter_ = 0 /\ chains_built = 0
  BY DEF Init, SystemInit, ExecInitState, RgInit, TopoInit
<1>2. ASSUME NEW c \in Chains PROVE QueueOf(c) = {} /\ Executor \in live /\ ~ Stops(c)
  <2>1. \A n : ~ Coming(c, n)
    BY <1>1 DEF Coming, At
  <2>2. ~ Spawned(HeadOf(c))
    BY <1>1, HeadOfChain, ChainsTyped DEF Spawned
  <2> QED BY <1>1, <2>1, <2>2, InQueue DEF Stops, MainActor
<1>3. QueueMap = [c \in Chains |-> {}] /\ OpenMap = [c \in Chains |-> TRUE]
  BY <1>2 DEF QueueMap, OpenMap
<1> QED BY <1>1, <1>3 DEF Queues!Init, QueueMap, OpenMap

\* The invariant from which both theorems follow.
LEMMA AlwaysDelivering == Spec => [](Prepared /\ Delivery)
<1>1. Init => Prepared /\ Delivery
  BY InitPrepared, InitDelivery
<1>2. Typed /\ Startup /\ Order /\ OneChainAtATime /\ OneRound /\ Routed /\ Prepared /\ Delivery
        /\ [Next]_vars => Prepared' /\ Delivery'
  BY NextPrepared, NextDelivery DEF Prepared
<1> QED BY <1>1, <1>2, AlwaysMeasuring, PTL DEF Spec

(***************************************************************************)
(* With round robin the measurements of every chain are taken in the order *)
(* in which the rate generator sent them and none is left out: in every    *)
(* interleaving of the generator, the chains, the executor and the stop,   *)
(* over the short route and over the long one, where the two directions    *)
(* share the mailboxes, and for every number and length of chains.         *)
(***************************************************************************)
THEOREM InTurn == Spec => []DeliveredInTurn
<1>1. Delivery => DeliveredInTurn
  BY DEF Delivery, Flows, DeliveredInTurn
<1> QED BY <1>1, AlwaysDelivering, PTL

(***************************************************************************)
(* Every chain implements a queue, in any sending order: whatever the      *)
(* number and length of the chains and the pool, and however the actors    *)
(* interleave, what the rate generator sends, the actors of the chains     *)
(* pass on and lose and the executor takes is a behaviour of ChainQueue.   *)
(* Passing a measurement on is a stuttering step of the queue, the first   *)
(* kill of a chain cuts its end off, every later one may cut more, and the *)
(* end of the executor empties all of them.                                *)
(***************************************************************************)
THEOREM ChainsImplementQueues == Spec => ChainsAreQueues
<1>1. Init => Queues!Init
  BY InitQueues
<1>2. Typed /\ Startup /\ OneChainAtATime /\ Routed /\ Prepared /\ Delivery /\ [Next]_vars
        => [Queues!Next]_(Queues!queueVars)
  BY NextDelivery DEF Prepared, Advances
<1> QED BY <1>1, <1>2, AlwaysMeasuring, AlwaysDelivering, PTL DEF Spec, ChainsAreQueues, Queues!Spec
=============================================================================
