------------------------------ MODULE WgTunnel ------------------------------
(* The WireGuard device (tunnel.rs): the handshake, then a packet device that  *)
(* the reactor of the IP stack polls.  The outer UDP socket may refuse packets *)
(* at any time; refused packets wait in pending_network, in order and up to a  *)
(* bound.  tokio keeps a cached readiness of the socket: only a poll of it     *)
(* while it is not ready arranges a wake-up, a refused try_send does not.      *)
(*                                                                             *)
(* BoringTun (the session, its timers, the packets it holds until there is a   *)
(* session) is modelled by the results the code distinguishes.  Packets are    *)
(* numbered in the order they are handed to the outer socket.                  *)
EXTENDS Naturals, Sequences, SequencesExt

CONSTANTS MaxPending,   \* MAX_PENDING_NETWORK_PACKETS
          Burst,        \* MAX_RECEIVE_BURST
          MaxId         \* bound: packets followed through the outer socket

ASSUME WgAssumption == MaxPending \in Nat \ {0} /\ Burst \in Nat \ {0} /\ MaxId \in Nat

VARIABLES
  phase,                \* new, shake, run, failed (no handshake), dead (device error)
  session,              \* BoringTun has a session
  held,                 \* it holds a packet until it has one
  pending, nextId, out, \* pending_network; the next number; numbers that were sent
  room, ready, armed,   \* kernel buffer has room; cached readiness; write waker
  tick, ticking,        \* the 250 ms timer has expired; it will wake the reactor
  datagrams,                \* datagrams waiting in the outer socket
  appQ,                 \* packets the reactor has for the device
  pc, turns, again      \* where a poll of the device is; receive turns; wake_by_ref

wgVars == <<phase, session, held, pending, nextId, out, room, ready, armed, tick, ticking,
          datagrams, appQ, pc, turns, again>>
net == <<pending, nextId, out, ready, room>>
poll == <<pc, turns, again>>

TInit ==
  /\ phase = "new" /\ session = FALSE /\ held = FALSE
  /\ pending = <<>> /\ nextId = 1 /\ out = <<>>
  /\ room = TRUE /\ ready = TRUE /\ armed = FALSE
  /\ tick = FALSE /\ ticking = FALSE /\ datagrams = <<>> /\ appQ = 0
  /\ pc = "sleep" /\ turns = 0 /\ again = FALSE

-----------------------------------------------------------------------------
\* The outer socket.

\* try_send succeeds when tokio believes the socket ready and the kernel has room.
TrySend == ready /\ room

\* send_or_queue_network for a run of n packets: directly while nothing waits and
\* the socket takes them, then into the queue, and past its bound nowhere.
\* Packets past MaxId are not followed any more.
BadDirect == TrySend
Direct == pending = <<>> /\ TrySend

Emit(n) ==
  LET m == IF nextId + n > MaxId THEN MaxId + 1 - nextId ELSE n
      ids == [i \in 1..m |-> nextId + i - 1] IN
  /\ nextId' = nextId + m
  /\ \E k \in 0..m :
       /\ m > 0 => (k > 0 <=> Direct)
       /\ out' = out \o SubSeq(ids, 1, k)
       /\ pending' = LET all == pending \o SubSeq(ids, k + 1, m) IN
                     IF Len(all) > MaxPending THEN SubSeq(all, 1, MaxPending) ELSE all
       /\ ready' = (ready /\ (k = m \/ (k = 0 /\ pending # <<>>)))
       /\ room' \in IF k = 0 THEN {room} ELSE IF k < m THEN {FALSE} ELSE BOOLEAN

\* poll_network_flush, one packet: sent; refused, and nobody will be woken; or
\* the socket is known not to be ready, and a waker is left.
FlushOne ==
  /\ pending # <<>> /\ TrySend
  /\ out' = Append(out, Head(pending)) /\ pending' = Tail(pending)
  /\ room' \in BOOLEAN
  /\ UNCHANGED <<nextId, ready, armed>>

FlushBlocked ==
  /\ pending # <<>> /\ ~TrySend
  /\ ready' = FALSE /\ armed' = (armed \/ ~ready)
  /\ UNCHANGED <<pending, nextId, out, room>>

\* The kernel has room again and says so to tokio.
Drains ==
  /\ ~room \/ ~ready
  /\ room' = TRUE /\ ready' = TRUE
  /\ armed' = FALSE
  /\ again' = (again \/ armed)
  /\ UNCHANGED <<phase, session, held, pending, nextId, out, tick, ticking, datagrams, appQ, pc, turns>>

-----------------------------------------------------------------------------
\* The handshake: connect, send_decoy_packets and the first initiation; then
\* pump_once until there is a session or the deadline has passed.

Initiate ==
  /\ phase = "new"
  /\ phase' = "shake"
  /\ UNCHANGED <<session, held, net, armed, tick, ticking, datagrams, appQ, poll>>

\* pump_once: a datagram or the 500 ms wait, and the timers.  A socket or timer
\* error ends the handshake.
Pump ==
  /\ phase = "shake" /\ ~session
  /\ \/ datagrams = <<>> /\ UNCHANGED <<session, datagrams>>
     \/ datagrams # <<>> /\ datagrams' = Tail(datagrams) /\ session' = (Head(datagrams) = "answer")
  /\ UNCHANGED <<phase, held, net, armed, tick, ticking, appQ, poll>>

ShakeDone ==
  /\ phase = "shake" /\ session
  /\ phase' = "run"
  /\ UNCHANGED <<session, held, net, armed, tick, ticking, datagrams, appQ, poll>>

\* The deadline passes, or an error: also when the answer has just arrived.
ShakeFails ==
  /\ phase = "shake"
  /\ phase' = "failed"
  /\ UNCHANGED <<session, held, net, armed, tick, ticking, datagrams, appQ, poll>>

-----------------------------------------------------------------------------
\* A poll of the device by the reactor: poll_send_packets, then poll_next.

Wakes == again \/ appQ > 0 \/ datagrams # <<>> \/ (tick /\ ticking)

Wake ==
  /\ phase = "run" /\ pc = "sleep" /\ Wakes
  /\ pc' = "send" /\ again' = FALSE /\ ticking' = FALSE
  /\ UNCHANGED <<phase, session, held, net, armed, tick, datagrams, appQ, turns>>

\* poll_ready and start_send: encapsulate gives a packet, or (without a session)
\* holds the packet and gives an initiation or nothing.
StartSend ==
  /\ pc = "send" /\ pending = <<>> /\ appQ > 0
  /\ appQ' = appQ - 1
  /\ held' = (held \/ ~session)
  /\ \E n \in IF session THEN {1} ELSE {0, 1} : Emit(n)
  /\ UNCHANGED <<phase, session, armed, tick, ticking, datagrams, poll>>

Flush ==
  /\ pc \in {"send", "flush"}
  /\ FlushOne
  /\ UNCHANGED <<phase, session, held, tick, ticking, datagrams, appQ, poll>>

\* The flush is done or blocked: a blocked one does not keep poll_next away.
Onward ==
  /\ pc \in {"send", "flush"}
  /\ \/ FlushBlocked
     \/ pending = <<>> /\ (pc = "send" => appQ = 0) /\ UNCHANGED <<net, armed>>
  /\ pc' = IF pc = "send" THEN "tick" ELSE "recv"
  /\ turns' = 0
  /\ UNCHANGED <<phase, session, held, tick, ticking, datagrams, appQ, again>>

\* try_tick: a keepalive or an initiation, nothing, or a session that expired
\* and a new handshake.
Tick ==
  /\ pc = "tick" /\ tick
  /\ tick' = FALSE
  /\ session' \in {session, FALSE}
  /\ \E n \in {0, 1} : Emit(n)
  /\ UNCHANGED <<phase, held, armed, ticking, datagrams, appQ, poll>>

BadTickDone ==
  /\ pc = "tick" /\ ~tick
  /\ pc' = "flush"
  /\ UNCHANGED <<phase, session, held, net, armed, tick, ticking, datagrams, appQ, turns, again>>
TickDone ==
  /\ pc = "tick" /\ ~tick
  /\ ticking' = TRUE
  /\ pc' = "flush"
  /\ UNCHANGED <<phase, session, held, net, armed, tick, datagrams, appQ, turns, again>>

\* poll_recv_plaintext.  Plaintext goes to the reactor, which runs the stack
\* and comes back; an answer opens a session and releases what BoringTun held, one packet
\* per decapsulate of nothing; the rest (control, invalid) only costs a turn.
Released == IF held THEN 2 ELSE 1

Recv ==
  /\ pc = "recv" /\ datagrams # <<>> /\ turns < Burst
  /\ datagrams' = Tail(datagrams)
  /\ CASE Head(datagrams) = "data" ->
            pc' = "sleep" /\ again' = TRUE /\ turns' = 0 /\ UNCHANGED <<session, held, net>>
       [] Head(datagrams) = "answer" ->
            /\ turns' = turns + 1 /\ session' = TRUE
            /\ Emit(Released) /\ held' = (held /\ Released = 1)
            /\ UNCHANGED <<pc, again>>
       [] OTHER -> turns' = turns + 1 /\ UNCHANGED <<session, held, net, pc, again>>
  /\ UNCHANGED <<phase, armed, tick, ticking, appQ>>

\* Nothing to read (a read waker is left), or the burst is over (wake_by_ref).
BurstOver == turns = Burst

RecvDone ==
  /\ pc = "recv" /\ (datagrams = <<>> \/ BurstOver)
  /\ pc' = "sleep" /\ turns' = 0
  /\ again' = (again \/ BurstOver)
  /\ UNCHANGED <<phase, session, held, net, armed, tick, ticking, datagrams, appQ>>

\* A socket or timer error ends the device: the reactor stops with it.
Dies ==
  /\ phase = "run" /\ pc # "sleep"
  /\ phase' = "dead" /\ pc' = "sleep" /\ turns' = 0
  /\ UNCHANGED <<session, held, net, armed, tick, ticking, datagrams, appQ, again>>

-----------------------------------------------------------------------------
\* The surroundings.

\* A poll takes less than the 250 ms of the timer.
Expire ==
  /\ phase = "run" /\ pc = "sleep" /\ ~tick
  /\ tick' = TRUE
  /\ UNCHANGED <<phase, session, held, net, armed, ticking, datagrams, appQ, poll>>

Arrive ==
  /\ phase \in {"shake", "run"} /\ datagrams = <<>>
  /\ \E k \in {"data", "answer", "other"} : datagrams' = <<k>>
  /\ UNCHANGED <<phase, session, held, net, armed, tick, ticking, appQ, poll>>

\* The reactor fills its queue between two polls of the device.
AppSends ==
  /\ phase = "run" /\ pc = "sleep" /\ appQ = 0
  /\ appQ' = 1
  /\ UNCHANGED <<phase, session, held, net, armed, tick, ticking, datagrams, poll>>

Step == phase = "run" /\ (StartSend \/ Flush \/ Onward \/ Tick \/ TickDone \/ Recv \/ RecvDone)

TNext ==
  \/ Initiate \/ Pump \/ ShakeDone \/ ShakeFails
  \/ Wake \/ Step \/ Dies
  \/ Expire \/ Arrive \/ AppSends \/ Drains

\* The reactor task runs, its timers expire and the deadline passes.  The kernel
\* empties its buffer.
TFairness ==
  /\ WF_wgVars(Initiate) /\ WF_wgVars(ShakeDone) /\ WF_wgVars(ShakeFails)
  /\ WF_wgVars(Wake) /\ WF_wgVars(Step) /\ WF_wgVars(Expire) /\ WF_wgVars(Drains)

TSpec == TInit /\ [][TNext]_wgVars /\ TFairness

-----------------------------------------------------------------------------

\* Packets leave in the order BoringTun produced them, whatever mixture of
\* direct sends, queueing, flushing and drops happened (send_or_queue_network
\* tries the socket only when nothing waits, tunnel.rs:181).
OutInOrder ==
  LET line == out \o pending IN
  \A i, j \in DOMAIN line : i < j => line[i] < line[j]

\* What waits for the outer socket leaves it once the kernel has room, even
\* though a refused try_send arranges no wake-up: the 250 ms timer brings the
\* reactor back (tunnel.rs:215, 450).
PendingMoves ==
  \A i \in 1..MaxId : Contains(pending, i) ~> (~Contains(pending, i) \/ phase = "dead")
=============================================================================
