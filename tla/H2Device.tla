------------------------------ MODULE H2Device ------------------------------
(* CONNECT-IP over one HTTP/2 stream (outbound/masque/h2.rs): dialling the     *)
(* edges one after the other, then a packet device served by three tasks       *)
(* (connection, send, receive).  The edge's capsules arrive in DATA chunks cut *)
(* anywhere; the receive task puts them together again.                        *)
(*                                                                             *)
(* A capsule is a header unit and some payload units; a unit records which     *)
(* capsule it belongs to, and a header what the capsule is and how long.       *)
EXTENDS Naturals, Sequences

CONSTANTS Edges,          \* number of edge addresses on port 443
          MaxCapsules,    \* bound: capsules the edge sends
          Lengths,        \* payload lengths of capsules
          MaxBuffer,      \* MAX_CAPSULE_BUFFER
          QueueCap        \* capacity of the packet channels

ASSUME H2Assumption == Edges \in Nat /\ MaxBuffer \in Nat /\ QueueCap \in Nat \ {0} /\ Lengths \subseteq Nat

VARIABLES dial,           \* the next edge, up, failed, or stopped (session closed)
          h2Session,        \* the Psiphon session below still exists
          capsules, h2Wire, \* capsules the edge has sent; their units not yet received
          parsing, buf,   \* receive_packets has data to parse; its buffer
          incoming,       \* packets on their way to the device
          outgoing,       \* packets on their way to the send task
          ended,          \* tasks that have ended
          device,         \* up, or the error was reported: dead
          h2Got             \* packets the reactor received

h2Vars == <<dial, h2Session, capsules, h2Wire, parsing, buf, incoming, outgoing, ended, device, h2Got>>
h2Link == <<dial, h2Session>>
recv == <<parsing, buf, incoming>>

HInit ==
  /\ dial = 1 /\ h2Session = TRUE
  /\ capsules = <<>> /\ h2Wire = <<>> /\ parsing = FALSE /\ buf = <<>>
  /\ incoming = <<>> /\ outgoing = 0 /\ ended = {} /\ device = "none" /\ h2Got = <<>>

-----------------------------------------------------------------------------
\* connect: one edge at a time.  A TCP open that timed out has closed the
\* session below, so the loop stops there.
AfterTimeout == Edges + 2

Dials ==
  /\ device = "none" /\ dial <= Edges
  /\ \/ dial' = dial + 1 /\ UNCHANGED <<h2Session, device>>          \* refused, or dial_one failed
     \/ dial' = AfterTimeout /\ h2Session' = FALSE /\ UNCHANGED device
     \/ device' = "up" /\ UNCHANGED <<dial, h2Session>>
  /\ UNCHANGED <<capsules, h2Wire, recv, outgoing, ended, h2Got>>

-----------------------------------------------------------------------------
\* The edge sends a capsule: kind 0 carries an IP packet, others are skipped.
EdgeSends ==
  /\ device = "up" /\ Len(capsules) < MaxCapsules
  /\ \E k \in {"ip", "other"}, n \in Lengths :
       LET c == Len(capsules) + 1 IN
       /\ capsules' = Append(capsules, [kind |-> k, len |-> n])
       /\ h2Wire' = h2Wire \o <<[c |-> c, head |-> TRUE, kind |-> k, len |-> n]>>
                       \o [i \in 1..n |-> [c |-> c, head |-> FALSE, kind |-> k, len |-> n]]
  /\ UNCHANGED <<h2Link, recv, outgoing, ended, device, h2Got>>

\* stream.data(): some units, with a bound on the buffer.
H2Receives ==
  /\ device = "up" /\ "receive" \notin ended /\ ~parsing /\ h2Wire # <<>>
  /\ \E n \in 1..Len(h2Wire) :
       /\ h2Wire' = SubSeq(h2Wire, n + 1, Len(h2Wire))
       /\ IF Len(buf) + n > MaxBuffer
          THEN ended' = ended \cup {"receive"} /\ UNCHANGED <<parsing, buf>>
          ELSE buf' = buf \o SubSeq(h2Wire, 1, n) /\ parsing' = TRUE /\ UNCHANGED ended
  /\ UNCHANGED <<h2Link, capsules, incoming, outgoing, device, h2Got>>

\* The parsing loop, one capsule: the length is checked against the limit, an
\* incomplete capsule waits for more, a full queue drops the packet.
Size == buf[1].len + 1
Complete == Len(buf) >= Size

Kept(queue) == IF Len(queue) < QueueCap THEN Append(queue, buf[1].c) ELSE queue

\* One packet is what lies between the header and the next capsule.
ParsesOne ==
  /\ device = "up" /\ parsing /\ buf # <<>> /\ buf[1].len <= MaxBuffer /\ Complete
  /\ incoming' = IF buf[1].kind = "ip" /\ buf[1].head THEN Kept(incoming) ELSE incoming
  /\ buf' = SubSeq(buf, Size + 1, Len(buf))
  /\ UNCHANGED <<h2Link, capsules, h2Wire, parsing, outgoing, ended, device, h2Got>>

ParsesNoMore ==
  /\ device = "up" /\ parsing
  /\ \/ /\ buf # <<>> /\ buf[1].len > MaxBuffer
        /\ ended' = ended \cup {"receive"}
     \/ buf = <<>> /\ UNCHANGED ended
     \/ buf # <<>> /\ buf[1].len <= MaxBuffer /\ ~Complete /\ UNCHANGED ended
  /\ parsing' = FALSE
  /\ UNCHANGED <<h2Link, capsules, h2Wire, buf, incoming, outgoing, device, h2Got>>

\* send_packets takes a packet when the stream has capacity.
Sends ==
  /\ device = "up" /\ "send" \notin ended /\ outgoing > 0
  /\ outgoing' = outgoing - 1
  /\ UNCHANGED <<h2Link, capsules, h2Wire, recv, ended, device, h2Got>>

\* A task ends: the stream is reset or finished, the connection is lost.
H2TaskEnds(t) ==
  /\ device = "up" /\ t \notin ended /\ (t = "receive" => ~parsing)
  /\ ended' = ended \cup {t}
  /\ UNCHANGED <<h2Link, capsules, h2Wire, recv, outgoing, device, h2Got>>

-----------------------------------------------------------------------------
\* The device, as the reactor polls it.

Terminates == ended # {}

DeviceFails ==
  /\ device = "up" /\ Terminates
  /\ device' = "dead"
  /\ UNCHANGED <<h2Link, capsules, h2Wire, recv, outgoing, ended, h2Got>>

DeviceReceives ==
  /\ device = "up" /\ ~Terminates /\ incoming # <<>>
  /\ h2Got' = Append(h2Got, Head(incoming)) /\ incoming' = Tail(incoming)
  /\ UNCHANGED <<h2Link, capsules, h2Wire, parsing, buf, outgoing, ended, device>>

DeviceSends ==
  /\ device = "up" /\ ~Terminates /\ outgoing < QueueCap
  /\ outgoing' = outgoing + 1
  /\ UNCHANGED <<h2Link, capsules, h2Wire, recv, ended, device, h2Got>>

HNext ==
  \/ Dials \/ EdgeSends
  \/ H2Receives \/ ParsesOne \/ ParsesNoMore \/ Sends
  \/ \E t \in {"connection", "send", "receive"} : H2TaskEnds(t)
  \/ DeviceFails \/ DeviceReceives \/ DeviceSends

\* The reactor polls its device and the receive task runs; the edge's window
\* is left open.
HFairness == WF_h2Vars(DeviceFails) /\ WF_h2Vars(ParsesOne) /\ WF_h2Vars(ParsesNoMore)

HSpec == HInit /\ [][HNext]_h2Vars /\ HFairness

-----------------------------------------------------------------------------


=============================================================================
