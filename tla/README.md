# Verification of the CAF latency benchmarks

TLA+ modules, TLC configurations and TLAPS proofs for the program in `src/src` and
`src/include`: a benchmark that builds chains of C++ Actor Framework (CAF) actors,
sends messages through them one at a time (SERIAL) or at a given rate (PARALLEL),
averages the latencies and appends one line to a result file.

## 1. The system

| Component | Source | State it keeps | Operations |
|---|---|---|---|
| main program | `latency_benchmark.cpp` | none but its position | spawn three actors, send four messages |
| executor | `executor_actor.cpp` | handles, `heads_`, `nsteps_`, `rep_counter_`, averages | 12 handlers: set up, ask for chains, run, measure, stop; `analyze_cross_times` |
| topology builder | `topology_builder.cpp` | `counter_`, `executor_`, the pool `dpool_` | spawn pool and chains, count replies, announce chains |
| benchmark actor | `benchmark_actor.cpp` | `prev_`, `next_`, `executor_`, its pool; globals `chain_latency`, `index_` | initialise, pass a measurement forth and back, report, be killed |
| rate generator | `rate_generator.cpp` | receivers, index, batch and message counters, its window | the loop of `act()` on a thread of its own, paced by the clock |
| results collector | `results_collector_actor.cpp` | the file, `is_first_set` | write header and result, `exit(0)` |
| configuration | `benchmark_config.{cpp,hh}` | options | parse, convert, validate, build the file name |
| probes | `perf_counters.hh` | `start_`, `stop_`; sums; circular arrays | restart, stop, read; averages; mobile windows |
| cross times | `cross_times.{cpp,hh}`, `cross_times_hops.hh` | hops with time points | add a hop, sum, divide |
| time helpers | `times.cpp`, `date.h` | none | print a time point; dates, times of the day, formats |

The components interact by messages only, except for two globals of
`benchmark_actor.cpp`: `chain_latency`, which the executor and the ends of the chain
use without a lock, and the atomic `index_`, which all chain actors advance. The
conversation is

    main -> topology builder, collector, executor     init_a, rc_init_a, exec_init_a, sysconfig_a
    executor -> topology builder                      make_linear_chain_a
    topology builder <-> chain actors                 init_bench_a and its reply
    topology builder -> executor                      system_building_a (once per chain)
    executor -> itself                                sysconfig_a, serial_/parallel_benchmark_a
    executor or rate generator -> head -> ... -> executor    the measurements
    executor -> heads -> ... tail, topology builder   kill_a, topo_kill_a
    executor, rate generator -> collector             results
    clock -> executor, collector                      delayed messages

What is hard here: nothing waits for anything else explicitly. That a chain is ready
when it is used, that a shared counter counts replies of one chain only, that a kill
comes after the last measurement, that the one serial message protects a global, that
the result line is complete and that the process ends at all, are consequences of the
order of messages in mailboxes. The numbers are hard in another way: a rate kept by
sleeping, windows cleared modulo their size, means of time points, and a calendar that
must round down where C++ truncates. `PROJECT.json` lists the hazards of the code that
the program runs with their lines; most of the calendar library is not called.

What makes each component correct: the executor asks for each chain once, takes only
measurements over the route that `nsteps_` describes and never divides by zero; the
builder announces only chains whose actors are linked; a chain actor passes
everything on in order and quits only when told, after passing the kill on; the rate
generator serves the receivers in turn, never ahead of its rate, and ends on time; the
collector writes one complete line and ends the process; a window reads the last
periods; the parts of the cross times follow the route and add up to the latency; a
date is that of the calendar, and what is printed is read back.

## 2. The modules

The program:

    BenchmarkConfig              options as CONSTANTS, is_valid, the forgotten field
      ActorSystem                messages, mailboxes, delayed messages, quit (CAF: external)
        BenchmarkActor           one action per handler, for every chain and pool actor
        TopologyBuilder          handlers and continuations
        ResultsCollector         handlers; the file as sequences of columns
        RateGenerator            start, one send, finish
          ExecutorActor          handlers; spawns the rate generator
            LatencyBenchmark     composes all of them with main() and the clock
              LatencyBenchmarkProperties    invariants and temporal properties
                MCLatencyBenchmark          what TLC runs
                LatencyBenchmark_proofs     the shape of steps; TypeOK, InitialisedFirst,
                                            PoolBalanced, StopsInOrder, EachChainOnce,
                                            AnnouncedChainsReady
                  Measuring_proofs          OneSerialMessage, MeasuredLinks, NoCrash,
                                            OnePending, OneResult, RowMatchesHeader
                    Delivering_proofs       DeliveredInTurn, ChainsAreQueues
    ChainQueue                   what a chain promises: a queue that a stop cuts off;
                                 LatencyBenchmarkProperties instantiates it

Its numbers:

    MobileWindow                 adjust_circular_array and the three windows on it
      RateControl                act() of the rate generator against the clock
        PacedBenchmark           composes it with parallel_a and the windows of both
          Pacing_proofs          the promises about the clock; the windows (with Sums)
    CrossTimes                   hops on their route, operator+=, /=, analyze_cross_times
      CrossTimes_proofs          equal routes, times in order, the parts of the route and
                                 what they add up to (with Sums)
    Sums                         lemmas only: sums over finite sets, and induction

The calendar library:

    DateFields                   C++ division, roundings, years, months, days, weekdays
      CivilDate                  dates, n-th and last weekdays, month arithmetic, days
        DateFormat               week numbers, centuries; the date a set of fields names
      TimeOfDay                  time_of_day: splitting, 12 and 24 hours
        DateStream               to_stream, from_stream (with DateFormat)
          CalendarWalk           a calendar and a clock kept by hand beside them
            Calendar_proofs      days and dates there and back; the calendar stays in step
              Stream_proofs      what is printed is read back (with Sums)

Conventions. Variables have the names of the members they stand for (`counter_`,
`heads_`, `next_`), with a prefix where two classes have a member of that name.
A handler `xyz_a` is the action `Xyz`. It is one step: CAF runs a handler to its end,
and its sends enter the receivers' mailboxes before it ends. `Step` consumes the
first message, puts what the handler sends at the end of the receivers' mailboxes and
drops what is sent to an empty handle or to an actor that has quit. The rate
generator and main() take one step per message they send, since they run on threads
of their own while the actors work. Definitions `X_Y` above a definition `X` are
mutated forms of it, used by `PROJECT.json` to see that a property can fail.

Time. In `LatencyBenchmark`, latencies are measured on a clock of links: a measurement
carries the number of times it has been sent (`hops`), and its probe notes that number
when the code reads the clock. So "which interval does this probe measure" becomes a
statement about numbers of links, whatever the speed of the machine. Delayed messages
may come at any later time, with one exception, because only one delay matters to a
handler: `serial_kill_a` divides by the whole seconds of `total_latency_`
(`executor_actor.cpp:188`). The probe is restarted, on the steady clock (`times.hh:36`),
before the kill is sent with a delay of `duration` seconds (`executor_actor.cpp:149`).
`SecondPasses` counts the seconds of both while the kill waits, and the kill is not
delivered before its delay is over (`Elapsed`): `delayed_send` of CAF, on the same clock,
is assumed never to be early. How long it comes late only adds to the probe, and is
left out. `RateControl` has a clock that may advance between any two steps of the loop, by any
amount; `CrossTimes` gives every link one of a few delays.

`latency::stop()` assigns `stop_` only when it is set already, so it does nothing;
`ProbeStop` does exactly that, and `MeasuredLinks` says which interval the reports
cover in consequence.

Undefined values. `convert_gen_internal_to_external` does not copy
`sender_to_detached_`; the field is read uninitialised. `sender_to_detached_` takes
any value in the initial state. An out-of-range subscript, a division by zero and an
exception that leaves a `noexcept` function end in `process = "crashed"`. The first
`add` of a message with cross times compares its hop with `hops_.back()` while `hops_`
is empty (`cross_times.hh:54`). What that read gives is not defined: `RgFirstHop` ends
in `process = "undefined"`, and beside it are the runs in which the read gives some
value: whichever it is, the branch it decides changes no hop, since there is none yet,
and the hop is added. The properties speak of these runs; what the others do is not
defined, and nothing can be said of them. A probe that was never started (`NotStarted`)
reads 0.

History variables: `received` (what the executor averaged, in order), `pool_jobs`,
`chains_built` (names the chains); `sent`, `late`, `overtime` and the two logs of
`PacedBenchmark`; `samples` of `CrossTimes`. `msg_counter_` of `RateGenerator` counts
messages where the code adds whole batches; `RateControl` has the counter of the code,
with its wrap-around.

Calendar. A field (`unsigned char`, `short`) is the number it holds, reduced to its
width; `Quot` is the truncating division of C++. A unit of time is the number of its
ticks in a day. A text is the sequence of its numbers with their digits. `date.h` is
header code that the program reaches through `operator<<` of a system time only; the
rest of it is modelled because it is in the tree and because its interface is what
the printed dates rest on. The repository compiles with `-std=c++14`, so that the
library's own `floor`, `round` and `ceil` are the ones used. Fields that are compared
are compared as numbers.

`CalendarWalk` adds to the library what it is measured against: `DayAfter`, `DaysIn`
and `Later` count days, and hours, minutes and seconds, the way a person does. Its units
(`UnitOK`) are those `std::chrono` builds of whole hours, minutes, seconds or equal
parts of a second, the ones for which `time_of_day` has a class.

## 3. Properties and runs

| Run | Instance | What it shows |
|---|---|---|
| `parallel_one_way` | 2 chains of 2, round robin, 3 messages | `TypeOK`, `InitialisedFirst`, `AnnouncedChainsReady`, `EachChainOnce`, `OnePending`, `DeliveredInTurn`, `ChainsAreQueues` |
| `serial_exits` | 2 chains of 3, duration of 2 s | `NoCrash`, `OneSerialMessage`, `MeasuredLinks`, `RowMatchesHeader`, and the process `Exits` |
| `parallel_xtimes` | chain of 3, forth and back, complex payload with cross times, batches of 2, 2 messages, existing file | `NoCrash`, `MeasuredLinks`, `StopsInOrder`, `ChainsAreQueues` |
| `serial_endless` | 2 chains of 3, forth and back, duration 0 | `KeepsMeasuring` |
| `parallel_endless` | 2 chains of 2, forth and back, duration 0, 3 messages, pool of 2 | `PoolBalanced`, `AllMeasured` |
| `parallel_exits` | 2 chains of 2, random order, 1 message | `OneResult`, `Exits` |
| `pacing` | windows of 2 periods of 2 ticks, rate 3 in 2 ticks, batches of 2, 2 ticks long | `NeverAhead`, `NeverTooMany`, `SendsItsShare`, `OneRoundOvertime`, `WindowsRecover` |
| `cross_times` | chain of 3, both routes, with and without work, detached anywhere, 3 messages | `NeverThrows`, `PartsFollowRoute`, `PartsAddUp`, `MeanInOrder`, `MeanApproached` |
| `calendar` | two walks of 200 years by days; clocks in 6 units | `DateInStep`, `WeeksInStep`, `NthWeekdays`, `MonthsAddUp`, `ClockInStep`, `ParsesBack` |

In words (the comments above the definitions say more):

- `InitialisedFirst`: whatever the interleaving with main(), an actor handles its
  initialisation before anything else.
- `AnnouncedChainsReady`, `EachChainOnce`: a chain is announced once, and only when
  all its actors are linked. `OnePending`: periodic messages do not multiply.
- `NoCrash`: no handler divides by zero, not by the whole seconds before a stop either,
  or subscripts its handles in vain.
- `PoolBalanced`: the actors of all chains share one index into the pool, and spread
  their jobs evenly.
- `OneSerialMessage`: nobody touches `chain_latency` concurrently.
- `MeasuredLinks`: every measurement taken spans the same links.
- `ChainsAreQueues`: the chains implement `ChainQueue`, see below. `DeliveredInTurn`
  adds that the rate generator serves the chains in turn.
- `StopsInOrder`: a stop leaves no actor of a chain behind.
- `OneResult`, `RowMatchesHeader`, `Exits`: one result, then the end.
  `RowMatchesHeader` holds of the serial benchmark and fails in the parallel one.
- `KeepsMeasuring`, `AllMeasured`: without a stop, no measurement gets lost.
- `NeverAhead`, `NeverTooMany`, `SendsItsShare`, `OneRoundOvertime`: however the
  thread of the rate generator is delayed, it sends no batch before its time, no
  message of a batch that is due after the end, all messages that are due unless it
  was late, and one round at most after its end.
- `WindowsRecover`: a mobile window reads the last N periods; after a pause that it
  does not clear up after, again when N - 1 more periods are over.
- `PartsFollowRoute`, `PartsAddUp`: `analyze_cross_times`, which sees names and steps
  only, finds the ways into and out of the detached actor, the first hop and the
  work, and the parts add up to the latency but for truncation.
- `MeanInOrder`, `MeanApproached`: the mean of the hops is a route in order, between
  the mean of the samples and that mean with the first sample counted twice.
- `DateInStep` ... `ParsesBack`: what the library computes from a count of ticks is
  what the calendar and the clock kept by hand show, and a printed date or time is
  read back as the same one.

### A chain is a queue

`ChainQueue` is the abstract specification: messages are sent to a queue, taken from
its front, and a stop (`Cut`) keeps a prefix of it. The messages are numbered in the
order in which they are sent, so that a queue is the set of its numbers and the least
is in front. `LatencyBenchmarkProperties` instantiates it with a refinement mapping:
the queue of a chain is the set of the measurements of that chain in the mailboxes
from which they can still arrive (`Arriving`). That is the executor's; every mailbox
of the one-way route; and those of the forth-and-back route as long as the head lives,
because nothing on its way back passes a head that has quit. When the executor quits,
the queues are empty. A kill that a head takes and the end of the executor are steps
of `Cut`; a measurement that is passed on, and every kill behind the head, is a
stutter: on the one-way route the kill overtakes nothing, and on the way back the
measurements it cuts off are gone with the head.
`parallel_one_way` checks `ChainsAreQueues == Queues!Spec` as a property, and
section 4 proves it. `parallel_xtimes` checks it on the forth-and-back route of a chain
with an inner actor, where the interesting cuts are.

### Bounds

`MaxMsgs`: the rate generator does not enter its loop again after that many messages
(it may finish before; it is never forced to stop mid-batch). `MaxReps`:
`rep_counter_` stays there, while the benchmark goes on; only 0 and not 0 matter to
the code. A duration of 2 s gives the serial kill a second at which it is still too
early. Chains of two and three actors have a head, a tail and an inner actor; two
chains are enough for mix-ups of replies, kills and receivers; three messages give
one chain two, which can be swapped or cut off. In `parallel_endless` four actors of two
chains ask for jobs, on two mailboxes of the pool; nothing stops this benchmark, and no
cross times are measured. The serial runs have no pool: `weightless_a` produces pool
jobs as fast as they can be taken, and nothing bounds the pool's mailboxes.

`pacing`: `MaxClock = 9` gives four periods, two more than the window has, so that it
is pausing for more than its length and recovering that the run sees; a rate of 3 in
2 ticks has messages that are due between two ticks and batches that are due after
the end; `MaxSent = 8` is more than twice the share of the duration. `CounterLimit = 7` lets the counter wrap
around once: the promises about the rate speak of the messages before that, the others
of all. The clock and the messages end, and so does the run: deadlock is not checked.

`cross_times`: delays of 1 and 4 ticks with 2 ticks to a microsecond make every hop
truncate or not; 3 samples tell a mean from a sum, and from the first or last sample.

`calendar`: the calendar repeats every 400 years, and what makes them differ are the
ends of centuries. One walk of 73049 days starts in the year -2, the other in 1968:
each passes the beginning of an era (0, 2000) and a century that ends without a leap
day (100, 2100), and all combinations of leap years and weekdays. The units are hours,
minutes, seconds, and thirds, quarters and tenths of a second; 2500 steps of an hour, a
minute, a second and a tick, as far as the unit has them, pass three ends of months
and the epoch. Months are added up to 14 each way. The walks end: deadlock is not
checked.

### Where the code does something else than it says

| Run | The text | What the code does |
|---|---|---|
| `result_row` | the header at `results_collector_actor.cpp:64` | `rec_collect_a` before `send_collect_a` gives a line without the sender's columns |
| `probe_stop` | `perf_counters.hh:26`, "stop probe when finished" | a probe is never stopped: reports span the last link too, and the serial net latency, "from the head to the tail" (`README.md:188`), spans `nsteps_ + 2` links |
| `cross_times_mean` | `cross_times.hh:94`, "hop durations are the sum" | the first sample is assigned and then added, so the mean of n samples is the sum of n + 1 divided by n |

Each of these runs checks the one property that states the text; TLC finds it violated.

Met while modelling, without a run of their own:

- The first `add` of a message with cross times compares with `hops_.back()` of an empty
  vector (`cross_times.hh:54`), although `add` takes care to "init if empty"
  (`cross_times.hh:39`). `RgFirstHop` is that read, see section 2.
- `is_valid` (`benchmark_config.hh:117`, "consistent") accepts `chains_number = 0`,
  with which the rate generator takes an index modulo 0 and subscripts an empty vector
  (`rate_generator.cpp:124`). The model crashes too; `NoCrash` is checked with chains.
- A serial benchmark with complex payload or cross times returns early
  (`executor_actor.cpp:143`) before any timer has started and never ends, whatever its
  duration. `SerialBenchmark` does so too; `Exits` is checked for the payload it takes.
- `sender_to_detached` is parsed and never copied (`benchmark_config.cpp:85`).
- `msg_counter_` of the rate generator is 32 bits wide. When it wraps around in an
  endless benchmark, every message is overdue, and the generator stops sleeping until
  the counter has caught up.
- The payload of a batch is moved into its first message (`rate_generator.cpp:118`).
- `adjust_circular_array` (`perf_counters.hh:126`) clears up to the first index
  congruent to the new one: after a pause of more than N periods that is no multiple
  of N, a window reads slots of before the pause, until they are overwritten.
- `first_latency` stays 0 when the head is the detached actor; the serial
  cross-times row lacks that column, which its header has; a file that is appended
  to keeps the header of the first run, whatever the options of the later ones.
- `component_` of a hop is always `process_atom_`, and `this->origin() = tpoint()`
  assigns to a temporary.
- The file name begins with `output_file` and goes on with the type, the other way
  round than `README.md:183` has it, and the default of `extension` is "txt" where
  `benchmark_config.cpp:61` says "csv".
- `from_stream`: `%U` and `%W` cannot read the week 00 that `to_stream` prints; `%Y %y`
  contradict each other for the years -100, -200, ...; `%F` prints the years -999 to
  -1 with zeros before the sign; `%z` adds the minutes of a negative offset with the
  wrong sign ("-0530" is read as -4:30); a unit without exact decimal fractions can
  lose a tick. `ParsesBack` states what is read back, and so leaves these out.

### Fairness

`FairSpec` asks for weak fairness of every actor, of main(), of the rate generator
of every delayed message and of the passing of time: the CAF scheduler runs every actor
that has messages, threads make progress, and the clock goes on and delivers. Nothing stronger is assumed. The rate
generator is fair in its whole loop, not in leaving it; `Exits` does not need it to
finish. The other specifications state safety only and have no fairness.

## 4. Proofs

For every value of the constants that satisfies the assumptions of the modules
(`ConfigAssumption`, `ActorAssumption`, `MaxMsgsAssumption` and `MaxRepsAssumption`;
`RateAssumption` and `WindowAssumption`; `CrossTimesAssumption`;
`CalendarAssumption`): any number of chains, any length above 1, any pool; any rate,
batch, duration, width of the counter and window; any delays; walks of any length.

| Theorem | Statement |
|---|---|
| `LatencyBenchmark_proofs!TypeCorrect` | `Spec => []TypeOK` |
| `LatencyBenchmark_proofs!InitialisationFirst` | `Spec => []InitialisedFirst` |
| `LatencyBenchmark_proofs!PoolIsBalanced` | `Spec => []PoolBalanced` |
| `LatencyBenchmark_proofs!StoppingInOrder` | `Spec => []StopsInOrder` |
| `LatencyBenchmark_proofs!ChainsBuiltOnce` | `Spec => []EachChainOnce` |
| `LatencyBenchmark_proofs!AnnouncedReady` | `Spec => []AnnouncedChainsReady` |
| `Measuring_proofs!SerialTravelsAlone` | `Spec => []OneSerialMessage` |
| `Measuring_proofs!LinksMeasured` | `Spec => []MeasuredLinks` |
| `Measuring_proofs!NeverCrashes` | `Spec => [](ChainsNumber > 0 => NoCrash)` |
| `Measuring_proofs!PendingOnce` | `Spec => []OnePending` |
| `Measuring_proofs!ResultOnce` | `Spec => []OneResult` |
| `Measuring_proofs!SerialRowMatches` | `Spec => [](~ IsParallel => RowMatchesHeader)` |
| `Delivering_proofs!InTurn` | `Spec => []DeliveredInTurn` |
| `Delivering_proofs!ChainsImplementQueues` | `Spec => ChainsAreQueues`, the refinement of `ChainQueue` |
| `CrossTimes_proofs!CrossTimesTyped` | `Spec => []TypeOK` |
| `CrossTimes_proofs!AdditionNeverThrows` | `Spec => []NeverThrows` |
| `CrossTimes_proofs!MeanKeepsOrder` | `Spec => []MeanInOrder` |
| `CrossTimes_proofs!PartsAreThoseOfTheRoute` | `Spec => []PartsFollowRoute` |
| `CrossTimes_proofs!PartsAddUpToLatency` | `Spec => []PartsAddUp` |
| `CrossTimes_proofs!MeanIsApproached` | `Spec => []MeanApproached` |
| `Pacing_proofs!RateIsKept` | `Spec => []NeverAhead` |
| `Pacing_proofs!DurationIsKept` | `Spec => []NeverTooMany` |
| `Pacing_proofs!ShareIsSent` | `Spec => []SendsItsShare` |
| `Pacing_proofs!OvertimeIsShort` | `Spec => []OneRoundOvertime` |
| `Pacing_proofs!PacedTypeCorrect` | `Spec => []TypeOK` |
| `Pacing_proofs!RecentTicksOnly` | `Spec => []WindowsRecover` |
| `Calendar_proofs!DaysThereAndBack` | `from_days` gives a date, and `to_days` takes it back |
| `Calendar_proofs!DatesThereAndBack` | every date comes back from its count of days |
| `Calendar_proofs!WeekdaysFollow` | weekdays follow each other, before the epoch too |
| `Calendar_proofs!RoundsNextTo` | `floor`, `ceil`, `round` give the neighbours, and the nearer |
| `Calendar_proofs!WalkTyped` | `Spec => [](WithinYears => TypeOK)` |
| `Calendar_proofs!DatesStayInStep` | `Spec => [](WithinYears => DateInStep)` |
| `Calendar_proofs!WeekdaysStayInStep` | `Spec => [](WithinYears => NthWeekdays)` |
| `Calendar_proofs!WeeksStayInStep` | `Spec => [](WeeksHold => WeeksInStep)` |
| `Calendar_proofs!MonthsStayInStep` | `Spec => [](MonthsHold => MonthsAddUp)` |
| `Calendar_proofs!HoursRound` | `Spec => []RoundsToNearest` |
| `Calendar_proofs!ClockStaysInStep` | `Spec => [](FractionsPrinted(unit) => ClockInStep)` |
| `Stream_proofs!TextsReadBack` | `Spec => [](YearsPrinted => ParsesBack)` |

Each argument names its inductive invariant and why the property alone is not one.

*Types.* `Typed` is `TypeOK` with two additions it needs to be inductive (the rate
generator's index names a receiver; an actor is given a pool only if there is one) and
one weakening: `counter_` is just an integer. One lemma per component shows that a
step keeps it, and also that the step has a `Shape`: the mailboxes do not change, or
the actor consumes its first message and messages are put at the ends.

*Initialisation.* `counter_` stays in its range only if `init_a` is handled before any
reply, so the exact type rests on `InitialisedFirst`. That is not inductive:
`Startup` adds why it holds. An actor that is not initialised has its initialiser at
the front (`First`), or main() has not sent it yet and then the mailbox is empty
(`Early`), because until the executor is initialised there are no chains, no rate
generator, one kind of delayed message, and only harmless messages in the other two
mailboxes (`Idle`). `DeadEmpty` and `SpawnedInTurn` give new actors empty
mailboxes. `LateStep` disposes of every step after the executor is initialised,
`EarlyStep` of the others, so that each component needs a short lemma.

*Pool.* `PoolBalanced` is made inductive by `PoolRounds`: the actors below `index_`
are exactly one job ahead of the others.

*Stopping.* `Order` adds to `StopsInOrder` that an actor of a chain that is
initialised knows the actor that follows it (`Linked`, and `init_bench` before that),
that the kill in the mailbox of an actor that is no head comes from its predecessor,
which has quit (`Messages`), and that what the executor takes for heads are heads
(`Headed`, and the replies that carry them). Only `kill_a` and `make_linear_chain_a`
need an argument of their own; every other step sends nothing that matters (`Mild`),
and `QuietStep` disposes of it. That a new chain finds empty mailboxes, and that an
actor that is told to quit is initialised, comes from `Startup`.

*Building.* Nothing in `EachChainOnce` or `AnnouncedChainsReady` rules out two requests
for one chain. `OneChainAtATime` does: until the benchmark starts, exactly one thing
carries the building on (`Stage`: main() has not sent its messages, or there is one
`sysconfig`, one `make_linear_chain`, actors of the newest chain that still reply, one
`system_building`, or one message that starts the benchmark). Meanwhile `counter_` is
the number of those replies (`Missing`, the actors that are not initialised and the
replies in the mailbox; the proof counts messages in sequences), and the mailboxes of
the chains hold their requests and nothing else (`Building`). Afterwards `Started`
holds for ever: nobody sends anything about building again. `Known` is what the
theorems need in both times.

*One serial message.* `OneRound` adds to `OneSerialMessage` that there is none before
`Started`. `serial_benchmark_a` can only put the first beside no other, because it
is what makes `Started` true; `CalmStep` disposes of the steps that send nothing of the
serial benchmark, and `PassStep` of the handlers that have just taken the only message
there was (`TheOnlyOne`) and send at most one.

*The links of a measurement.* `MeasuredLinks` speaks of measurements that have come
back. `Routed` follows them from the start: wherever a measurement waits, the times it
was sent, its probe and its hops are those of that place on the way of its chain,
forth or back (`OnRoute`), and the receivers of the rate generator are the heads
(`Feeds`). One lemma passes a measurement one link on, `Known` gives the actor that
follows, and every other step leaves the measurements alone (`AsideRouted`).

*No crash.* `Prepared` says what the handlers that could crash rely on. `Ready`: the
executor knows the number of links, the rate generator has all heads, and the sum of
cross times is empty or as long as a route. `Due`: the kill of the serial benchmark
is behind the first measurement, on the clock or in the mailbox (`KillBehind`), so that
`rep_counter_` is not 0 when it divides, and `InTime`: while the kill waits, the probe
shows at least the seconds it has waited, which are all of `duration` when it comes, so
that `total_latency_` is not 0 either. `NoCrash` is proved for
`ChainsNumber > 0` because it fails without a chain (section 3).
`process = "undefined"`, the outcome of the first hop, is not a crash: the theorem is
about the runs that go on.

*One result.* That a kill is due at most once says nothing of the result it has sent.
`Once` counts them together: the kills on the clock and in the mailbox, the results on
their way to the collector and the rows that are written are one at most, none before
the benchmark starts, and the message that ends the process is pending only behind a
row. `InitOnce` does so for the initialisation of the collector, whose `rc_init`
starts the first delayed message. `Kinds` and `SerialLine` give the columns of the
serial row. In the parallel benchmark `RowMatchesHeader` fails (run `result_row`),
so that no theorem speaks of it.

*In turn.* `Delivery` makes `DeliveredInTurn` inductive. `Turns`: the counter and the
index of the rate generator agree modulo the number of chains. `FromTheHead`: in a
chain that is being stopped, no actor before one that has quit, or is told to, lives.
`Flow`, for each chain: measurements further on the way have smaller numbers
(`InOrder`), each of them is one of those not taken yet (`Numbered`) and was sent
(`WasSent`); of those that can still arrive none is missing before another (`NoGap`);
and all that were sent are there while the head lives (`AllThere`). The kill takes
from the end only: what a dead head leaves on its way back cannot arrive any more.

*A queue.* `Flow` needs the turns of the rate generator to know which numbers a chain
has. A queue needs less and holds in any sending order: `Lines` says that measurements
further on the way have smaller numbers (`InOrder`) and that nothing is under way
that was not sent (`Listed`), so that what the executor takes is the least number and
what is sent is above all others. `AllBuilt` (the rate generator starts when all
chains are built) makes a head that is not alive one that was stopped. With
`FromTheHead`, all that a kill takes away is behind all that still arrives, which makes
it a `Cut`. `Advances` is the step simulation: each step of the program is a `Send`, a
`Take` or a `Cut` of the queues, or leaves them as they are; every lemma that keeps
`Delivery` proves it for its steps.

*Cross times.* `Crossing` says that a message that has left k stations behind has the
hops of those stations, with times that do not decrease (`Left`), and that the sum is
empty or a whole route (`SumOfRoutes`). Then `operator+=` finds equal routes, sums and
quotients of times in order are in order, and `analyze_cross_times` sees the names and
steps of a whole route, for which each part is found by cases of where the detached
actor is.

*What the parts add up to.* `SumRemoves` and its like turn folds into sums
(`DurationsAdded`, `SharesAdded`). The times between the hops add up to the latency but
for what each loses by truncation to microseconds (`DurationsAddUp`), every hop belongs
to one part, and the average of a part times its hops is the sum of their times but for
less than one microsecond for each (`QuotientTimes`, `SharesAddUp`). For `MeanApproached`,
`Summed` says that the sum holds the times of all samples and those of the first one
twice, which is what the missing early return of `operator+=` adds; `QuotientBetween`
then bounds the mean.

*Pacing.* `IInv` adds to the promises why they hold. `Counted`: until `msg_counter_`
wraps around, the counter and the messages of the open batch are the messages sent.
`Regulated`: a round begins only when its first message is due, and when it is
exactly due unless the clock was read late; in a round that began before the end,
the first message is due before the end. `Overtime`: a round begun after the end
is followed by a reading of the clock, which ends the loop. That `Due` is monotone
(`DivMonotone`) is the only arithmetic.

*Windows.* `Tracks` says of a window that every slot is what its log has for the one
period of the last N that is congruent to it, from the last pause on that it did not
clear up after, and that nothing is logged beyond its index. Clearing up to the new
index empties the slots of exactly the periods that were passed, when these are not
more than N. What a window reads are sums over its slots, and what it should read are
sums over the last N periods of the log: `q % N` maps these periods to different slots
and what is left of the slots is empty, so that the sums are equal (`SlotsAddUp`).

*Sums.* The modules add up with the folds of the community modules, which are chosen
(`CHOOSE`) functions on sets of indices. `AddsExists` shows that there is such a
function for every finite set, and `AddsUnique` that there is one only; then a sum does
not depend on the order (`SumRemoves`) and can be split, mapped to other indices
(`SumElsewhere`), taken class by class (`SumByClass`) or over differences
(`SumOfDifferences`). These are inductions over finite sets. The library states
induction with an operator as a parameter, which the provers cannot instantiate; so
`SetInduction` states it about the set of those sets for which a statement holds, and
`NumberInduction` about a set of numbers. Both come from `<` being well-founded
(`LeastNumber`).

*The calendar.* `EraOfDayRoundsDown` and `EraOfYearRoundsDown` turn the truncating
divisions of the code into rounding down. Inside an era, `YearOfDay` and `DayOfYear`
say that the formula for the year inverts the count of days before a year, and that
day 365 exists in leap years only; `MonthOfDay` and `DayOfMonth` say so of months.
`DaysThereAndBack` and `DatesThereAndBack` put the parts together, for all years a
`short` holds.

*The walk.* `Walked`: the time point is `to_days` of the date kept by hand and the ticks
of the clock kept by hand, and weekday and number in the year belong to that day. It
needs no bound of the years, because `to_days` does not cut off its year; the theorem that it
is kept, `TheDayAfter`, is that the calendar's next date has the next number. That the
walk may begin anywhere rests on the number of leap years in a range, which is counted
by bijections with quotients (`HowManyMultiples`). From `Walked` each property follows
by the arithmetic of its operators. The bounds in the theorems are those of the code:
`from_days` keeps the year in a `short`, so a date comes back in the years it has
(`WithinYears`; `MonthsHold` and `WeeksHold` for the months around a date, and for the
year before it, whose last Thursday begins the weeks). `FractionsPrinted` is about
units of parts of a second: the printed fraction is `sub` times one number only if
the precision divided by the parts leaves 0 or 1. That holds for powers of ten and
for the thirds of the run, and not for, say, seventeenths, for which `ClockInStep`
does not say what is printed.

*Texts.* `TextsReadBack` follows from `Walked` too: that the date kept by hand is the one
of the time point, and the clock its time of the day. Four things are between a time point
and what is read of it.

1. The digits. A number below 10, 100, ... has at most 1, 2, ... of them, so that it
   is printed in the width it is read in (`NumbersFit`), and no item stops short or takes
   a digit of the next number. `DigitsOf` and `Pow10` are recursive functions: what
   they are worth is shown by `NumberInduction` on bounded functions (`DigitsExist`,
   `PowersExist`), which must agree where they overlap (`DigitsOnce`, `PowersOnce`).
2. The fields. `FieldsKept` unfolds the fold over the items of a format; a conversion
   that `Carries` a number leaves it in its field and touches no other (`Others`).
3. The date that the fields name. The rules of `from_stream` are tried in a fixed order;
   for each format one of them applies, and the rest find what they need complete. The
   century guessed for two digits is right in 1969 to 2068 (`CenturyGuessed`); a day of
   the year and a week from Sunday, Monday or by ISO 8601 count back to the same day.
4. The ticks. In a unit with exact decimal fractions a second is a whole number of its
   ticks, and the precision a multiple of them, so that rounding gives the tick back
   (`RoundExact`); an offset moves the printed day by one at most, and `TicksBack` takes
   it away again.

`YearsPrinted` says which years are printed in full. By days these are -9900 to 9998:
four digits, a century of two digits after its sign, and the year of a week, which may be
the year after; beyond them a number is longer than the item that reads it. By the
clock they are 1 to 9998, since the formats begin with `%F`, which
cannot be read before the year 0, and an offset may move the day into the year before.

TLC was run with the invariants before they were proved, each as an invariant of the
runs: `Typed`, `Startup`, `Order`, `OneChainAtATime`, `OneRound`, `Routed`, `Prepared`,
`IInv`; `Results` (up to 2,314,250 states), `Delivery` and the
mapping of `ChainsAreQueues` (641,313 to 1,368,102 states: both routes, both sending
orders), `Crossing` and `Summed` (816,768), `Tracks` for both windows
(6,418,650) and `Walked` (29,008).

Only model-checked:

- all liveness (`Exits`, `KeepsMeasuring`, `AllMeasured`): fairness and `ENABLED` are
  outside the prover's reach;
- `RowMatchesHeader` where it fails, in the parallel benchmark.

Only proved: `RoundsToNearest`, about roundings of which the program calls one.

What proving changed in the modules: the powers of ten of `Precision` were the operator
`^`, and are the recursion of `static_pow10` now; `Width` recurs on pairs, since the
provers know no functions of two arguments. `DayAfter`, the years of centuries and weeks, and
`Classify` had `CASE`s whose guards overlap, which choose one of the cases and not the
first; they are written as the nested conditions of the code now. `UnitOK` was only true
of the units of the run and is an assumption now. The queues of `ChainQueue` were
sequences, and its mapping joined selections from mailboxes; they are sets of numbers
now, mapped by where a measurement is, which says the same of the order and can be
reasoned about without induction.

## 5. What is not modelled

- Logging, formatting, the contents of payloads, and simulated work.
- `atom_from_string`, file names, command-line parsing.
- What the rate generator computes for its report, beyond its window.
- `reset()` of the averages and the average readings of windows that nobody calls.
- Of `date.h`: the conversions that the locale prints (`%a %b %c %p %r %x %X`, `%I`,
  the modifiers), names of time zones, the `operator/` spellings of a date, and
  month-days without a year.
- Exhausted memory, failing file operations, a negative `chains_number`.

## 6. Plan

Done: the composition of all actors and its properties, the chain as a queue, the
clock of the rate generator and the windows, cross times, the calendar, and the proofs
above: every invariant of a passing run is stated by a theorem, and so is the
refinement of `ChainQueue`. What could come next is `Lifecycle`, an abstract specification
of building, running, stopping and over, implemented by `LatencyBenchmark`.
