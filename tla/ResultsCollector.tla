-------------------------- MODULE ResultsCollector --------------------------
(***************************************************************************)
(* The actor that writes the result file and ends the process              *)
(* (results_collector_actor.cpp).  A line of the file is the sequence of   *)
(* its column names.                                                       *)
(***************************************************************************)
EXTENDS ActorSystem

VARIABLES
  is_first_set_, \* the file did not exist when the collector was spawned
  header,        \* the header line, <<>> when this run wrote none
  row,           \* the line being written
  rows           \* the lines finished with endl

collectorVars == <<is_first_set_, header, row, rows>>

Column ==
  { "number of actors", "sender rate", "sender error", "all actor latency",
    "pipeline actor latency", "receiver rate", "receiver error", "net latency",
    "gross latency", "message rate", "sender to pipeline", "detached send",
    "detached receive", "message passing", "message computation" }

CollectorTypeOK ==
  /\ is_first_set_ \in BOOLEAN
  /\ header \in Seq(Column)
  /\ row \in Seq(Column)
  /\ rows \in Seq(Seq(Column))

CollectorInit ==
  /\ is_first_set_ = ~ FileExists
  /\ header = <<>>
  /\ row = <<>>
  /\ rows = <<>>

-----------------------------------------------------------------------------
SenderColumns == <<"sender rate", "sender error">>
ReceiverColumns == <<"all actor latency", "pipeline actor latency",
                     "receiver rate", "receiver error">>
SerialColumns == <<"net latency", "gross latency", "message rate">>
DetailColumns == <<"detached send", "detached receive", "message passing",
                   "message computation">>
CrossTimesColumns == <<"sender to pipeline">> \o DetailColumns

\* The header rc_init_a writes.
Header ==
  <<"number of actors">>
    \o (IF IsParallel THEN SenderColumns \o ReceiverColumns ELSE SerialColumns)
    \o (IF IsCrossTimes THEN CrossTimesColumns ELSE <<>>)

\* Mutant: serial_collect_a forgets the message rate.
Columns_NoRate(t) ==
  CASE t = "serial_collect"        -> <<"net latency", "gross latency">>
    [] t = "serial_collect_xtimes" -> SerialColumns \o DetailColumns
    [] t = "rec_collect"           -> ReceiverColumns
    [] t = "rec_collect_xtimes"    -> ReceiverColumns \o CrossTimesColumns

\* The columns a message adds to the row; serial_collect_xtimes_a drops the
\* first of the five cross-times columns.
Columns(t) ==
  CASE t = "serial_collect"        -> SerialColumns
    [] t = "serial_collect_xtimes" -> SerialColumns \o DetailColumns
    [] t = "rec_collect"           -> ReceiverColumns
    [] t = "rec_collect_xtimes"    -> ReceiverColumns \o CrossTimesColumns

FinalType ==
  {"serial_collect", "serial_collect_xtimes", "rec_collect", "rec_collect_xtimes"}

\* The delayed message that rc_init_a starts with, and the one that a result
\* starts.
InitTimer_WrongAtom == Later(Collector, "benchmark_kill")  \* mutant
InitTimer == Later(Collector, "sys_collect")
ResultTimer_WrongAtom == Later(Collector, "sys_collect")   \* mutant
ResultTimer == Later(Collector, "benchmark_kill")

\* rc_init_a.
RcInit ==
  /\ Receives(Collector, "rc_init")
  /\ configured' = configured \cup {Collector}
  /\ header' = IF is_first_set_ THEN Header ELSE <<>>
  /\ row' = <<"number of actors">>
  /\ Step(Collector, Silent, live, timers \cup {InitTimer})
  /\ UNCHANGED <<is_first_set_, rows>>

\* send_collect_a.
SendCollect ==
  /\ Receives(Collector, "send_collect")
  /\ row' = row \o SenderColumns
  /\ Handled(Collector, Silent)
  /\ UNCHANGED <<configured, is_first_set_, header, rows>>

\* serial_collect[_xtimes]_a and rec_collect[_xtimes]_a end the line, and the
\* benchmark three seconds later.
FinalCollect(t) ==
  /\ Receives(Collector, t)
  /\ rows' = Append(rows, row \o Columns(t))
  /\ row' = <<>>
  /\ Step(Collector, Silent, live, timers \cup {ResultTimer})
  /\ UNCHANGED <<configured, is_first_set_, header>>

\* sys_collect_a.
SysCollect ==
  /\ Receives(Collector, "sys_collect")
  /\ Step(Collector, Silent, live, timers \cup {Later(Collector, "sys_collect")})
  /\ UNCHANGED <<configured, collectorVars>>

\* benchmark_kill_a: exit(0), whatever the other actors are doing.
BenchmarkKill ==
  /\ Receives(Collector, "benchmark_kill")
  /\ process' = "exited"
  /\ UNCHANGED <<mbox, live, timers, configured, collectorVars>>

CollectorStep ==
  \/ RcInit
  \/ SendCollect
  \/ \E t \in FinalType : FinalCollect(t)
  \/ SysCollect
  \/ BenchmarkKill
=============================================================================
