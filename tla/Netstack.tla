------------------------------ MODULE Netstack ------------------------------
(* The userspace IP stack (netstack.rs): one reactor task moves packets        *)
(* between a device and the sockets; the task that owns a socket reads, writes *)
(* and closes it from another thread.  They share the socket table (one lock), *)
(* a Notify with a single permit, the wakers kept in the sockets and the       *)
(* stopped flag, which is read before the lock is taken.                       *)
(*                                                                             *)
(* One task owns each socket and polls its reading and its writing half        *)
(* together, as the relay and the UDP egress do.  Payloads are counted, not    *)
(* stored; smoltcp is modelled by what its calls do to the queues, the state   *)
(* and the wakers of a socket (an acknowledgement is folded into the send,     *)
(* TIME-WAIT into Closed).                                                     *)
EXTENDS Naturals, FiniteSets

CONSTANTS Tcp, Udp,   \* the sockets of each kind
          Cap,        \* packets a socket buffer holds
          MaxBurst    \* max_burst_size, the device queue

ASSUME NetAssumption == Cap \in Nat \ {0} /\ MaxBurst \in Nat \ {0} /\ Tcp \cap Udp = {}

VARIABLES
  st, rx, tx,         \* per socket: state, received and unsent packets
  rxWaker, txWaker,   \* per socket: is a waker registered
  r, w, op,           \* per task: program counters of the halves, the writer's call
  woken,              \* per task: a waker fired since it was last polled
  permit,             \* the permit of notify
  stopped,            \* the watch channel `stopped` holds a reason
  closer,             \* who called Reactor::shutdown, and how far it is
  reactor, canTx, due,\* the reactor: where it is, can_transmit, a zero poll_delay
  sendQ, inbox        \* BufferDevice.send_queue; packets the device can deliver

netVars == <<st, rx, tx, rxWaker, txWaker, r, w, op, woken, permit, stopped, closer,
          reactor, canTx, due, sendQ, inbox>>
wakers == <<rxWaker, txWaker>>
reactorVars == <<reactor, canTx, due, sendQ, inbox>>
stopVars == <<stopped, closer>>

Socks == Tcp \cup Udp
All(v) == [s \in Socks |-> v]

NInit ==
  /\ st = All("none") /\ rx = All(0) /\ tx = All(0)
  /\ rxWaker = All(FALSE) /\ txWaker = All(FALSE) /\ woken = All(FALSE)
  /\ r = All("idle") /\ w = All("idle") /\ op = All("none")
  /\ permit = FALSE /\ stopped = FALSE /\ closer = "none"
  /\ reactor = "start" /\ canTx = TRUE /\ due = FALSE
  /\ sendQ = 0 /\ inbox = {}

\* A socket wakes the tasks whose wakers it holds, and forgets them.
Fire(rs, ws) ==
  /\ woken' = [s \in Socks |-> woken[s] \/ (s \in rs /\ rxWaker[s]) \/ (s \in ws /\ txWaker[s])]
  /\ rxWaker' = [s \in Socks |-> rxWaker[s] /\ s \notin rs]
  /\ txWaker' = [s \in Socks |-> txWaker[s] /\ s \notin ws]

-----------------------------------------------------------------------------
\* The tasks.  Every poll reads `stopped`, then takes the lock.

\* TcpStream::connect and UdpSocket::new: the socket is in the table before the
\* reactor is told; a UDP socket can be used at once.
Bound(s) == IF s \in Udp THEN "open" ELSE "none"

OpenSocket(s) ==
  /\ st[s] = "none"
  /\ st' = [st EXCEPT ![s] = IF s \in Tcp THEN "syn" ELSE Bound(s)]
  /\ op' = [op EXCEPT ![s] = IF s \in Tcp THEN "connect" ELSE "bind"]
  /\ w' = [w EXCEPT ![s] = "wake"]
  /\ UNCHANGED <<rx, tx, wakers, r, woken, permit, stopVars, reactorVars>>

Connected(s) == st[s] # "none" /\ op[s] \notin {"connect", "bind"}

StartRead(s) ==
  /\ Connected(s) /\ r[s] = "idle"
  /\ r' = [r EXCEPT ![s] = "check"]
  /\ UNCHANGED <<st, rx, tx, wakers, w, op, woken, permit, stopVars, reactorVars>>

StartWrite(s) ==
  /\ Connected(s) /\ w[s] = "idle"
  /\ w' = [w EXCEPT ![s] = "check"]
  /\ \E o \in IF s \in Tcp THEN {"write", "flush", "shutdown"} ELSE {"write"} :
       op' = [op EXCEPT ![s] = o]
  /\ UNCHANGED <<st, rx, tx, wakers, r, woken, permit, stopVars, reactorVars>>

\* is_stopped.
CheckRead(s) ==
  /\ r[s] = "check"
  /\ r' = [r EXCEPT ![s] = IF stopped THEN "err" ELSE "look"]
  /\ UNCHANGED <<st, rx, tx, wakers, w, op, woken, permit, stopVars, reactorVars>>

CheckWrite(s) ==
  /\ w[s] = "check"
  /\ w' = [w EXCEPT ![s] = IF ~stopped THEN "look"
                           ELSE IF op[s] = "shutdown" THEN "done" ELSE "err"]
  /\ UNCHANGED <<st, rx, tx, wakers, r, op, woken, permit, stopVars, reactorVars>>

\* poll_read and recv_from under the lock.  A closed UDP socket has nothing to
\* read and does not say that it is closed.
MayRecv(s) == s \in Udp \/ st[s] \in {"open", "closing"}

ReadNext(s) ==
  IF rx[s] > 0 THEN "wake" ELSE IF MayRecv(s) THEN "parked" ELSE "eof"

LookRead(s) ==
  /\ r[s] = "look"
  /\ r' = [r EXCEPT ![s] = ReadNext(s)]
  /\ rx' = [rx EXCEPT ![s] = IF @ > 0 THEN @ - 1 ELSE 0]
  /\ rxWaker' = [rxWaker EXCEPT ![s] = @ \/ ReadNext(s) = "parked"]
  /\ UNCHANGED <<st, tx, txWaker, w, op, woken, permit, stopVars, reactorVars>>

\* poll_connected, poll_write, poll_flush, poll_shutdown and send_to under the
\* lock.  poll_connected knows Established and Closed only.
WriteNext(s) ==
  CASE op[s] = "connect" ->
         IF st[s] = "open" THEN "idle" ELSE IF st[s] = "closed" THEN "err" ELSE "parked"
    [] op[s] = "write" ->
         IF st[s] \notin {"open", "half"} THEN "err" ELSE IF tx[s] < Cap THEN "wake" ELSE "parked"
    [] op[s] = "flush" -> IF tx[s] = 0 THEN "idle" ELSE "parked"
    [] op[s] = "shutdown" -> IF st[s] = "closed" THEN "done" ELSE "wake"

BadRegisters(s) == FALSE
Registers(s) == WriteNext(s) = "parked"

LookWrite(s) ==
  /\ w[s] = "look"
  /\ w' = [w EXCEPT ![s] = WriteNext(s)]
  /\ op' = [op EXCEPT ![s] = IF WriteNext(s) = "idle" THEN "none" ELSE @]
  /\ tx' = [tx EXCEPT ![s] = IF op[s] = "write" /\ WriteNext(s) = "wake" THEN @ + 1 ELSE @]
  /\ st' = [st EXCEPT ![s] = IF op[s] = "shutdown" /\ @ # "closed" THEN "closing" ELSE @]
  /\ txWaker' = [txWaker EXCEPT ![s] = @ \/ Registers(s)]
  /\ UNCHANGED <<rx, rxWaker, r, woken, permit, stopVars, reactorVars>>

\* Reactor::wake, after the lock is released.
Notifies == TRUE

WakeRead(s) ==
  /\ r[s] = "wake"
  /\ r' = [r EXCEPT ![s] = "idle"]
  /\ permit' = TRUE
  /\ UNCHANGED <<st, rx, tx, wakers, w, op, woken, stopVars, reactorVars>>

WakeWrite(s) ==
  /\ w[s] = "wake"
  /\ w' = [w EXCEPT ![s] = CASE op[s] = "connect" -> "check"
                             [] op[s] = "shutdown" -> "relook"
                             [] OTHER -> "idle"]
  /\ op' = [op EXCEPT ![s] = IF @ \in {"connect", "shutdown"} THEN @ ELSE "none"]
  /\ permit' = (permit \/ Notifies)
  /\ UNCHANGED <<st, rx, tx, wakers, r, woken, stopVars, reactorVars>>

\* poll_shutdown takes the lock a second time.
Relook(s) ==
  /\ w[s] = "relook"
  /\ w' = [w EXCEPT ![s] = IF st[s] = "closed" THEN "done" ELSE "parked"]
  /\ txWaker' = [txWaker EXCEPT ![s] = @ \/ st[s] # "closed"]
  /\ UNCHANGED <<st, rx, tx, rxWaker, r, op, woken, permit, stopVars, reactorVars>>

\* The runtime polls a woken task again once its current poll has returned.
Resting == {"idle", "parked", "eof", "err", "done"}
Repoll(s) ==
  /\ woken[s] /\ r[s] \in Resting /\ w[s] \in Resting
  /\ woken' = [woken EXCEPT ![s] = FALSE]
  /\ r' = [r EXCEPT ![s] = IF @ = "parked" THEN "check" ELSE @]
  /\ w' = [w EXCEPT ![s] = IF @ = "parked" THEN "check" ELSE @]
  /\ UNCHANGED <<st, rx, tx, wakers, op, permit, stopVars, reactorVars>>

\* The owner's timer.  Beside recv_from of a UDP socket there is always one (DNS
\* resends every 1.2 s, the UDP egress has an idle timer); the relay over a TCP
\* socket ends 30 s after one of its directions did.
Receiving(s) == r[s] = "parked"
Draining(s) == r[s] \in {"eof", "err"} /\ w[s] = "parked"

OwnerTimer(s) ==
  /\ IF s \in Udp THEN Receiving(s) ELSE Draining(s)
  /\ r' = [r EXCEPT ![s] = IF s \in Udp THEN "idle" ELSE @]
  /\ w' = [w EXCEPT ![s] = IF s \in Tcp THEN "err" ELSE @]
  /\ UNCHANGED <<st, rx, tx, wakers, op, woken, permit, stopVars, reactorVars>>

-----------------------------------------------------------------------------
\* The reactor.

HasWork(s) == tx[s] > 0 /\ st[s] \in {"open", "half", "closing"}

\* The top of the loop: can_transmit and poll_delay.
Prepare ==
  /\ reactor = "start"
  /\ reactor' = "wait"
  /\ canTx' = (sendQ < MaxBurst)
  /\ due' = (sendQ < MaxBurst /\ \E s \in Socks : HasWork(s))
  /\ UNCHANGED <<st, rx, tx, wakers, r, w, op, woken, permit, stopVars, sendQ, inbox>>

\* What smoltcp does with one packet.
Receives(p) ==
  LET s == p.s IN
  CASE p.kind = "synack" /\ st[s] = "syn" ->
         st' = [st EXCEPT ![s] = "open"] /\ UNCHANGED rx
    [] p.kind = "data" /\ rx[s] < Cap /\ st[s] \in {"open", "closing"} ->
         rx' = [rx EXCEPT ![s] = @ + 1] /\ UNCHANGED st
    [] p.kind = "fin" /\ st[s] = "open" ->
         st' = [st EXCEPT ![s] = "half"] /\ UNCHANGED rx
    [] p.kind = "rst" \/ (p.kind = "fin" /\ st[s] = "closing") ->
         st' = [st EXCEPT ![s] = "closed"] /\ UNCHANGED rx
    [] OTHER -> UNCHANGED <<st, rx>>

\* Dispatch: sockets with something to send, as long as the queue has room.
\* transmit() gives no token when it is full, so nothing is lost here.
Room(used) == MaxBurst - used

Dispatches(used) ==
  \E out \in SUBSET {s \in Socks : HasWork(s)} :
    LET n == Cardinality(out) IN
    /\ n <= Room(used)
    /\ \A s \in Socks \ out : HasWork(s) => n = Room(used)
    /\ tx' = [s \in Socks |-> IF s \in out THEN tx[s] - 1 ELSE tx[s]]
    /\ sendQ' = used + n
    /\ Fire({p.s : p \in inbox}, out \cup {p.s : p \in {q \in inbox : q.kind # "data"}})

\* interface.poll after the device took `sent` packets: the answer to a packet is
\* queued when there is room and dropped (dropped_tx) when there is not.
Poll(sent) ==
  /\ IF inbox = {} THEN UNCHANGED <<st, rx>> ELSE \A p \in inbox : Receives(p)
  /\ \E answer \in IF inbox # {} /\ sendQ - sent < MaxBurst THEN {0, 1} ELSE {0} :
       Dispatches(sendQ - sent + answer)
  /\ inbox' = {}
  /\ reactor' = "start" /\ canTx' = TRUE /\ due' = FALSE
  /\ UNCHANGED <<r, w, op, stopVars>>

\* One pass through poll_fn that is ready.  The device comes first; a pending
\* send does not keep the reactor from receiving.
BadMayReceive(sent) == sent = sendQ
MayReceive(sent) == TRUE

DeviceTurn(sent) ==
  /\ reactor = "wait"
  /\ sent <= sendQ
  /\ sent > 0 \/ inbox # {}
  /\ inbox # {} => MayReceive(sent)
  /\ Poll(sent)
  /\ UNCHANGED permit

NotifyTurn ==
  /\ reactor = "wait" /\ inbox = {} /\ permit
  /\ permit' = FALSE
  /\ Poll(0)

TimerTurn ==
  /\ reactor = "wait" /\ inbox = {} /\ ~permit /\ canTx
  /\ Poll(0)
  /\ UNCHANGED permit

\* The device or its peer: a packet arrives for a socket.
Kinds(s) == IF s \in Tcp THEN {"synack", "data", "fin", "rst"} ELSE {"data"}
Arrives(s) ==
  /\ reactor \in {"start", "wait"} /\ inbox = {} /\ st[s] # "none"
  /\ \E k \in Kinds(s) : inbox' = {[s |-> s, kind |-> k]}
  /\ UNCHANGED <<st, rx, tx, wakers, r, w, op, woken, permit, stopVars, reactor, canTx, due, sendQ>>

-----------------------------------------------------------------------------
\* Stopping.

\* stop_sockets, second half: abort every TCP and close every UDP socket.
BadCloseAll ==
  /\ st' = [s \in Socks |-> IF st[s] = "none" THEN "none" ELSE "closed"]
  /\ rx' = [s \in Socks |-> IF s \in Udp THEN 0 ELSE rx[s]]
  /\ tx' = [s \in Socks |-> IF s \in Udp THEN 0 ELSE tx[s]]
  /\ Fire(Udp, Socks)
CloseAll ==
  /\ st' = [s \in Socks |-> IF st[s] = "none" THEN "none" ELSE "closed"]
  /\ rx' = [s \in Socks |-> IF s \in Udp THEN 0 ELSE rx[s]]
  /\ tx' = [s \in Socks |-> IF s \in Udp THEN 0 ELSE tx[s]]
  /\ Fire(Socks, Socks)

\* Net::shutdown: the flag, the sockets, then the stopper.
ShutdownFlag ==
  /\ closer = "none"
  /\ closer' = "sockets" /\ stopped' = TRUE
  /\ UNCHANGED <<st, rx, tx, wakers, r, w, op, woken, permit, reactorVars>>

ShutdownSockets ==
  /\ closer = "sockets"
  /\ closer' = "done"
  /\ CloseAll
  /\ UNCHANGED <<r, w, op, permit, stopped, reactorVars>>

\* The device fails or ends, or the stopper was notified: the spawned task
\* calls stop_sockets itself; what was queued for the device is gone.
ReactorEnds ==
  /\ reactor \in {"start", "wait"}
  /\ reactor' = "sockets" /\ stopped' = TRUE
  /\ canTx' = TRUE /\ due' = FALSE /\ sendQ' = 0 /\ inbox' = {}
  /\ UNCHANGED <<st, rx, tx, wakers, r, w, op, woken, permit, closer>>

ReactorCloses ==
  /\ reactor = "sockets"
  /\ reactor' = "ended"
  /\ CloseAll
  /\ UNCHANGED <<r, w, op, permit, stopVars, canTx, due, sendQ, inbox>>

StopperStops == closer = "done" /\ ReactorEnds

Halves(s) ==
  \/ CheckRead(s) \/ LookRead(s) \/ WakeRead(s) \/ Repoll(s)
  \/ CheckWrite(s) \/ LookWrite(s) \/ WakeWrite(s) \/ Relook(s)

NNext ==
  \/ \E s \in Socks :
       \/ OpenSocket(s) \/ StartRead(s) \/ StartWrite(s) \/ OwnerTimer(s) \/ Arrives(s)
       \/ Halves(s)
  \/ Prepare \/ (\E n \in 0..MaxBurst : DeviceTurn(n)) \/ NotifyTurn \/ TimerTurn
  \/ ShutdownFlag \/ ShutdownSockets \/ ReactorEnds \/ ReactorCloses

\* Tasks and the reactor are scheduled; a zero delay and the owners' timers
\* fire.  The device's readiness to send, arrivals, and what the tasks ask for
\* are left open.
NFairness ==
  /\ \A s \in Socks :
       /\ WF_netVars(CheckRead(s)) /\ WF_netVars(LookRead(s)) /\ WF_netVars(WakeRead(s))
       /\ WF_netVars(CheckWrite(s)) /\ WF_netVars(LookWrite(s)) /\ WF_netVars(WakeWrite(s))
       /\ WF_netVars(Relook(s)) /\ WF_netVars(Repoll(s))
       /\ WF_netVars(OwnerTimer(s))
  /\ WF_netVars(Prepare) /\ WF_netVars(NotifyTurn) /\ WF_netVars(TimerTurn)
  /\ WF_netVars(inbox # {} /\ DeviceTurn(0))
  /\ WF_netVars(ShutdownSockets) /\ WF_netVars(StopperStops) /\ WF_netVars(ReactorCloses)

NSpec == NInit /\ [][NNext]_netVars /\ NFairness

-----------------------------------------------------------------------------

\* A half that sleeps although its call could now finish.
Ready(s) ==
  \/ r[s] = "parked" /\ rx[s] > 0
  \/ w[s] = "parked" /\ \/ op[s] = "connect" /\ st[s] \in {"open", "closed"}
                        \/ op[s] = "write" /\ tx[s] < Cap
                        \/ op[s] = "flush" /\ tx[s] = 0
                        \/ op[s] = "shutdown" /\ st[s] = "closed"

\* No lost wake-up, in either direction.  A half that sleeps although its call
\* could now finish belongs to a task that is about to be polled: poll_read and
\* the others register their waker under the lock the reactor polls with.  And
\* the reactor never sits out its 60 s interval over packets it could send:
\* work that appeared after poll_delay was read is announced by wake(), or is
\* about to be (netstack.rs:597, 655).
WakeupsKept ==
  /\ \A s \in Socks : Ready(s) => woken[s]
  /\ reactor = "wait" /\ canTx /\ (\E s \in Socks : HasWork(s))
       => permit \/ due \/ inbox # {} \/ \E s \in Socks : w[s] = "wake"

\* While the device cannot send, the reactor still receives ("a pending send
\* must not return early", netstack.rs:676).
ReceivesUnderBackpressure == inbox # {} ~> (inbox = {} \/ stopped)

\* After a stop no task sleeps on a socket for ever, whatever was being polled
\* when it came: "stop this stack and interrupt all its sockets"
\* (netstack.rs:244).  A half that had passed is_stopped when the sockets were
\* closed depends on its owner's timer: a UDP reader, and a TCP flush after the
\* end of the download.  Everything else is woken or sees the closed socket, if
\* the task goes on reading (a relay whose client takes nothing does not).
StopReachesTasks ==
  (\A s \in Tcp : WF_netVars(StartRead(s)))
    => \A s \in Socks : stopped ~> [](r[s] # "parked" /\ w[s] # "parked")
=============================================================================
