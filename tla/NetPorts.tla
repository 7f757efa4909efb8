------------------------------ MODULE NetPorts ------------------------------
(* The socket table of the userspace IP stack (netstack.rs) and the choice of  *)
(* local ports.  The table is the only record of which ports are taken: a port *)
(* is free again when its socket closes or its handle is dropped.              *)
EXTENDS Naturals, FiniteSets

CONSTANTS Handles,        \* socket handles
          FirstPort, LastPort,    \* EPHEMERAL_PORT_FIRST, EPHEMERAL_PORT_LAST
          Requested       \* ports a caller may ask for by number

ASSUME PortsAssumption == FirstPort \in Nat \ {0} /\ LastPort \in Nat /\ FirstPort <= LastPort

VARIABLES sockets,        \* the sockets in the table, by handle
          nextPort        \* where the next search starts

portVars == <<sockets, nextPort>>

Ports == FirstPort..LastPort
Count == LastPort - FirstPort + 1
NoSocket == [transport |-> "none", family |-> "none", port |-> 0]
Transports == {"tcp", "udp"}
Families == {"v4", "v6"}

PInit ==
  /\ sockets = [h \in Handles |-> NoSocket]
  /\ nextPort = FirstPort

\* port_in_use, for every port at once.  A closed socket has no endpoint, so
\* its port (0 here) is never in the way.
UsedBy(t, f) == {sockets[h].port : h \in {g \in Handles : sockets[g].transport = t /\ sockets[g].family = f}}
BadUsed(t, f) == UsedBy(t, "v4")
Used(t, f) == UsedBy(t, f)

Succ(p) == IF p >= LastPort THEN FirstPort ELSE p + 1

Tries == Count

\* select_port without a request: at most Tries candidates, from next upwards
\* and around.  0 stands for the error.
SelectPort(next, used) ==
  LET scan[k \in 0..Tries, p \in 0..(LastPort + 1)] ==
        IF k = 0 THEN 0
        ELSE IF p \notin used THEN p
        ELSE scan[k - 1, Succ(p)]
  IN scan[Tries, next]

Adds(h, t, f, port) ==
  sockets' = [sockets EXCEPT ![h] = [transport |-> t, family |-> f, port |-> port]]

\* connect_tcp and new_udp with port 0.  smoltcp may refuse the connect or the
\* bind after the port was chosen: the search has moved on, no socket is added.
Open(h, t, f) ==
  LET port == SelectPort(nextPort, Used(t, f)) IN
  /\ sockets[h] = NoSocket
  /\ port # 0
  /\ nextPort' = Succ(port)
  /\ Adds(h, t, f, port) \/ UNCHANGED sockets

\* new_udp with a port of the caller's choice: refused when it is taken.
BindPort(h, f, port) ==
  /\ sockets[h] = NoSocket
  /\ port \notin Used("udp", f)
  /\ Adds(h, "udp", f, port)
  /\ UNCHANGED nextPort

\* A TCP socket reaches Closed, or stop_sockets closes it: its endpoint is gone
\* while the handle is still there.
Close(h) ==
  /\ sockets[h].port # 0
  /\ sockets' = [sockets EXCEPT ![h].port = 0]
  /\ UNCHANGED nextPort

\* SocketHandle::drop.
Drop(h) ==
  /\ sockets[h] # NoSocket
  /\ sockets' = [sockets EXCEPT ![h] = NoSocket]
  /\ UNCHANGED nextPort

PNext ==
  \E h \in Handles :
    \/ \E t \in Transports, f \in Families : Open(h, t, f)
    \/ \E f \in Families, p \in Requested : BindPort(h, f, p)
    \/ Close(h) \/ Drop(h)

PSpec == PInit /\ [][PNext]_portVars

-----------------------------------------------------------------------------

\* CHANGELOG "wrap-around or exhaustion never covers a live socket": two live
\* sockets of one transport and family never share a port (netstack.rs:368).
\* Yet no free port is passed over: select_port tries every port once, from
\* nextPort around, and fails only when all are taken (netstack.rs:430).
Distance(p) == IF p >= nextPort THEN p - nextPort ELSE p + Count - nextPort
PortsSound ==
  /\ \A g, h \in Handles :
       g # h /\ sockets[g].port # 0 /\ sockets[g].port = sockets[h].port
         => \/ sockets[g].transport # sockets[h].transport
            \/ sockets[g].family # sockets[h].family
  /\ \A t \in Transports, f \in Families :
       LET free == Ports \ UsedBy(t, f)
           port == SelectPort(nextPort, UsedBy(t, f)) IN
       IF free = {} THEN port = 0
       ELSE port \in free /\ \A p \in free : Distance(port) <= Distance(p)
=============================================================================
