------------------------------ MODULE ChainQueue ------------------------------
(***************************************************************************)
(* What the parallel benchmark promises of a chain, whatever its length,   *)
(* its route and the actors it consists of: it is a queue.  Measurements   *)
(* are taken in the order in which they were sent, none twice, and as long *)
(* as nobody stops the chain, none is lost.  Stopping a chain loses the    *)
(* last measurements only: what it still delivers is a prefix of the queue.*)
(*                                                                         *)
(* The measurements are numbered in the order in which they are sent, so   *)
(* that a queue is the set of the numbers in it: the least is in front.    *)
(***************************************************************************)
EXTENDS Naturals, Sequences

CONSTANT Chain

VARIABLES
  sent,   \* the number of measurements sent to all chains; a number is a name
  queue,  \* queue[c]: the measurements on their way round chain c
  open,   \* open[c]: nobody has stopped chain c
  taken   \* the measurements taken, with their chains

queueVars == <<sent, queue, open, taken>>

Init ==
  /\ sent = 0
  /\ queue = [c \in Chain |-> {}]
  /\ open = [c \in Chain |-> TRUE]
  /\ taken = <<>>

\* A measurement sent to a chain that has been stopped is lost.
Send(c) ==
  /\ sent' = sent + 1
  /\ queue' = [queue EXCEPT ![c] = IF open[c] THEN @ \cup {sent + 1} ELSE @]
  /\ UNCHANGED <<open, taken>>

\* The measurement in front is taken.
Take(c) ==
  /\ \E n \in queue[c] :
       /\ \A m \in queue[c] : n <= m
       /\ queue' = [queue EXCEPT ![c] = @ \ {n}]
       /\ taken' = Append(taken, [id |-> n, chain |-> c])
  /\ UNCHANGED <<sent, open>>

\* What may be left of the queue q when its end is cut off.
Prefixes(q) == {p \in SUBSET q : \A n \in p, m \in q : m < n => m \in p}

\* The chains of cs are stopped, at once.
Cut(cs) ==
  /\ open' = [c \in Chain |-> open[c] /\ c \notin cs]
  /\ queue' \in [Chain -> SUBSET (1 .. sent)]
  /\ \A c \in Chain : queue'[c] \in IF c \in cs THEN Prefixes(queue[c]) ELSE {queue[c]}
  /\ UNCHANGED <<sent, taken>>

Next ==
  \/ \E c \in Chain : Send(c) \/ Take(c)
  \/ \E cs \in SUBSET Chain : Cut(cs)

Spec == Init /\ [][Next]_queueVars
===============================================================================
