------------------------------ MODULE Observer ------------------------------
(***************************************************************************)
(* The data plane statistics (dataplane.rs): the reactor records into      *)
(* atomic cells, one cell at a time, while a reporter reads them, one at a *)
(* time, every REPORT_INTERVAL, and prints the difference to its previous  *)
(* reading.  Relaxed accesses of one cell are still in one order.          *)
(*                                                                         *)
(* The cells of an instance are Watched: a record is the sequence of its   *)
(* writes to those, the reading visits those.  Payload sizes, levels and   *)
(* gaps are inputs.  The last-packet and bulk-flow fields and the cgroup   *)
(* figures are printed as they are and left out.                           *)
(***************************************************************************)
EXTENDS Naturals, Sequences, SequencesExt, FiniteSetsExt

CONSTANTS Watched,    \* the cells of this instance
          Sizes,      \* sizes of packets, counts of dropped ones
          Levels,     \* backlogs and gaps
          MaxRecords  \* bound: records

VARIABLES
  cell,       \* the atomics
  writing,    \* the writes the reactor's current record still has to do
  records,    \* records begun
  reading,    \* the reads the reporter's current window still has to do
  taken,      \* what this window has read
  previous,   \* ReportState.counters
  printed,    \* per counter: the sum of the printed differences
  shown,      \* per peak: the largest one printed
  reporter    \* "waits", "reads", "ended"

obsVars == <<cell, writing, records, reading, taken, previous, printed, shown, reporter>>

Counters == <<"outer_rx_packets", "outer_rx_bytes", "outer_tx_packets", "outer_tx_bytes",
  "outer_tx_dropped", "device_tx_dropped",
  "decap_done", "decap_write_network", "decap_v4", "decap_v6", "decap_errors",
  "plain_rx_packets", "plain_rx_bytes", "plain_tx_packets", "plain_tx_bytes",
  "tcp_rx_packets", "tcp_rx_payload_bytes", "tcp_rx_ack_packets", "tcp_rx_ack_only_packets",
  "tcp_tx_packets", "tcp_tx_payload_bytes", "tcp_tx_ack_packets", "tcp_tx_ack_only_packets",
  "reactor_loops", "reactor_wake_calls", "reactor_waits",
  "reactor_device_wakes", "reactor_notify_wakes", "reactor_timer_wakes", "reactor_polls">>
Counted == ToSet(Counters) \cap Watched

PeakOf == [outer_backlog |-> "outer_backlog_peak", device_rx_backlog |-> "device_rx_backlog_peak",
           device_tx_backlog |-> "device_tx_backlog_peak"]
Peaks == (Range(PeakOf) \cup {"reactor_max_gap"}) \cap Watched

OInit ==
  /\ cell = [c \in Watched |-> 0] /\ writing = <<>> /\ records = 0
  /\ reading = <<>> /\ taken = [c \in Watched |-> 0]
  /\ previous = [c \in Counted |-> 0] /\ printed = [c \in Counted |-> 0]
  /\ shown = [p \in Peaks |-> 0] /\ reporter = "waits"

-----------------------------------------------------------------------------
(* Records: sequences of writes                                            *)

Counts(c, n) == [how |-> "add", to |-> c, v |-> n]
Stores(c, n) == [how |-> "store", to |-> c, v |-> n]
Raises(c, n) == [how |-> "raise", to |-> c, v |-> n]

Outer ==
  {<<Counts("outer_rx_packets", 1), Counts("outer_rx_bytes", n)>> : n \in Sizes}
    \cup {<<Counts("outer_tx_packets", 1), Counts("outer_tx_bytes", n)>> : n \in Sizes}
    \cup {<<Counts("outer_tx_dropped", 1)>>} \cup {<<Counts("device_tx_dropped", n)>> : n \in Sizes}
Decap == {<<Counts(c, 1)>> : c \in {"decap_done", "decap_write_network", "decap_v4", "decap_v6", "decap_errors"}}

\* A TCP packet with data received, a pure ACK sent; packets that are not TCP
\* stop after the counters of their direction.
Plaintext ==
  {<<Counts("plain_rx_packets", 1), Counts("plain_rx_bytes", n), Counts("tcp_rx_packets", 1),
     Counts("tcp_rx_payload_bytes", n), Counts("tcp_rx_ack_packets", 1)>> : n \in Sizes}
    \cup {<<Counts("plain_tx_packets", 1), Counts("plain_tx_bytes", n), Counts("tcp_tx_packets", 1),
            Counts("tcp_tx_payload_bytes", 0), Counts("tcp_tx_ack_packets", 1),
            Counts("tcp_tx_ack_only_packets", 1)>> : n \in Sizes}
    \cup {<<Counts("plain_rx_packets", 1), Counts("plain_rx_bytes", n)>> : n \in Sizes}
    \cup {<<Counts("plain_tx_packets", 1), Counts("plain_tx_bytes", n)>> : n \in Sizes}

SetsCurrentAndPeak(c, n) == <<Stores(c, n), Raises(PeakOf[c], n)>>
Backlog ==
  {SetsCurrentAndPeak("outer_backlog", n) : n \in Levels}
    \cup {SetsCurrentAndPeak("device_rx_backlog", n) \o SetsCurrentAndPeak("device_tx_backlog", m) :
            n \in Levels, m \in Levels}

Reactor ==
  {<<Counts(c, 1)>> : c \in {"reactor_waits", "reactor_device_wakes", "reactor_notify_wakes",
                           "reactor_timer_wakes", "reactor_polls"}}
    \cup {<<Counts("reactor_loops", 1), Raises("reactor_max_gap", n)>> : n \in Levels}

Here(s) == SelectSeq(s, LAMBDA w : w.to \in Watched)
Records == {Here(s) : s \in Outer \cup Decap \cup Plaintext \cup Backlog \cup Reactor} \ {<<>>}

Begins ==
  /\ writing = <<>> /\ records < MaxRecords
  /\ \E s \in Records : writing' = s
  /\ records' = records + 1
  /\ UNCHANGED <<cell, reading, taken, previous, printed, shown, reporter>>

Written(w) ==
  CASE w.how = "add" -> cell[w.to] + w.v
    [] w.how = "store" -> w.v
    [] w.how = "raise" -> Max({cell[w.to], w.v})

Writes ==
  /\ writing # <<>>
  /\ cell' = [cell EXCEPT ![Head(writing).to] = Written(Head(writing))]
  /\ writing' = Tail(writing)
  /\ UNCHANGED <<records, reading, taken, previous, printed, shown, reporter>>

\* Reactor::wake, on the thread of any task.
WakeCall ==
  /\ "reactor_wake_calls" \in Watched /\ records < MaxRecords
  /\ cell' = [cell EXCEPT !["reactor_wake_calls"] = @ + 1]
  /\ records' = records + 1
  /\ UNCHANGED <<writing, reading, taken, previous, printed, shown, reporter>>

-----------------------------------------------------------------------------
(* The reporter                                                            *)

Loads(c) == <<[how |-> "load", to |-> c]>>
BadTakes(c) == <<[how |-> "load", to |-> c], [how |-> "clear", to |-> c]>>
Takes(c) == <<[how |-> "swap", to |-> c]>>

\* report_window: the counters, then the arguments of the log line in turn.
Window ==
  Here(FlattenSeq([i \in DOMAIN Counters |-> Loads(Counters[i])])
       \o Takes("reactor_max_gap")
       \o Loads("outer_backlog") \o Takes("outer_backlog_peak")
       \o Loads("device_rx_backlog") \o Takes("device_rx_backlog_peak")
       \o Loads("device_tx_backlog") \o Takes("device_tx_backlog_peak"))

\* The tick; the observer is still there.
Reports ==
  /\ reporter = "waits" /\ reporter' = "reads"
  /\ reading' = Window
  /\ UNCHANGED <<cell, writing, records, taken, previous, printed, shown>>

Reads ==
  /\ reading # <<>>
  /\ LET r == Head(reading) IN
       /\ taken' = IF r.how = "clear" THEN taken ELSE [taken EXCEPT ![r.to] = cell[r.to]]
       /\ cell' = IF r.how = "load" THEN cell ELSE [cell EXCEPT ![r.to] = 0]
  /\ reading' = Tail(reading)
  /\ UNCHANGED <<writing, records, previous, printed, shown, reporter>>

\* CounterSnapshot::delta saturates.
Delta(c) == IF taken[c] >= previous[c] THEN taken[c] - previous[c] ELSE 0

Prints ==
  /\ reporter = "reads" /\ reading = <<>>
  /\ printed' = [c \in Counted |-> printed[c] + Delta(c)]
  /\ previous' = [c \in Counted |-> taken[c]]
  /\ shown' = [p \in Peaks |-> Max({shown[p], taken[p]})]
  /\ reporter' = "waits"
  /\ UNCHANGED <<cell, writing, records, reading, taken>>

\* The Weak can no longer be upgraded.
ReporterEnds ==
  /\ reporter = "waits" /\ reporter' = "ended"
  /\ UNCHANGED <<cell, writing, records, reading, taken, previous, printed, shown>>

ONext == Begins \/ Writes \/ WakeCall \/ Reports \/ Reads \/ Prints \/ ReporterEnds
OSpec == OInit /\ [][ONext]_obsVars

-----------------------------------------------------------------------------

\* The windows add up, at whatever point of a record the reporter reads: no
\* event is printed twice or never (what is not printed yet is still in the
\* counter), and a backlog that stands has been printed as a peak or will be.
\* This rests on differences to the very reading that was printed, and on the
\* peak being read and cleared in one access (dataplane.rs:333-336, 385-393).
WindowsAddUp ==
  /\ reporter # "reads" => \A c \in Counted : printed[c] = previous[c] /\ printed[c] <= cell[c]
  /\ writing = <<>> /\ reporter = "waits" =>
       \A c \in DOMAIN PeakOf \cap Watched :
         cell[c] <= Max({cell[PeakOf[c]], shown[PeakOf[c]]})
=============================================================================
