----------------------------- MODULE MasqueLink -----------------------------
(* The shared QUIC connection of the MASQUE outbound (outbound/masque/mod.rs).  *)
(* Every business connection opens a stream on the one current connection; a   *)
(* caller that finds it closed reconnects, one caller at a time, by dialling   *)
(* every edge address at once.  A caller may be cancelled at any await: by the *)
(* 53 s budget of connect_tcp, or because its proxy session was cut.           *)
EXTENDS Sequences

CONSTANTS Callers,  \* connect_tcp calls in flight
          Links,    \* identities of QUIC connections (stable_id)
          Addrs,    \* candidate edge addresses
          None

ASSUME NoneAssumption == None \notin Links \cup Callers
ASSUME AddrsAssumption == Addrs # {}

VARIABLES link,     \* the connection in Masque.link
          closed,   \* connections whose close_reason() is set
          holder,   \* who holds the mutex `reconnecting`
          queue,    \* who waits for it, in order of arrival (tokio's Mutex is fair)
          pc,       \* where each call is
          seen,     \* the connection the call cloned first
          conn,     \* the connection it works on now: seen, a fresh one, or the new link
          dials     \* edge addresses the holder is still dialling

vars == <<link, closed, holder, queue, pc, seen, conn, dials>>

Waits == {"open", "wait", "dial", "control", "reclone", "reopen", "exchange"}
Locked == {"dial", "control"}

-----------------------------------------------------------------------------
LInit ==
  /\ link \in Links
  /\ closed = {}
  /\ holder = None
  /\ queue = <<>>
  /\ pc = [c \in Callers |-> "idle"]
  /\ seen = [c \in Callers |-> None]
  /\ conn = [c \in Callers |-> None]
  /\ dials = {}

Go(c, label) == pc' = [pc EXCEPT ![c] = label]

\* The call returns: every guard and clone it held is dropped with its future.
End(c) ==
  /\ Go(c, "idle")
  /\ seen' = [seen EXCEPT ![c] = None]
  /\ conn' = [conn EXCEPT ![c] = None]
  /\ holder' = IF holder = c THEN None ELSE holder
  /\ dials' = IF holder = c THEN {} ELSE dials
  /\ queue' = SelectSeq(queue, LAMBDA d : d # c)

\* A call that needs a new connection queues for the mutex `reconnecting`.
Enqueue(c) ==
  /\ Go(c, "wait")
  /\ queue' = Append(queue, c)

\* open(): clone the current connection, use it unless it is already closed.
Start(c) ==
  /\ pc[c] = "idle"
  /\ seen' = [seen EXCEPT ![c] = link]
  /\ conn' = [conn EXCEPT ![c] = link]
  /\ IF link \in closed THEN Enqueue(c)
     ELSE Go(c, "open") /\ UNCHANGED queue
  /\ UNCHANGED <<link, closed, holder, dials>>

\* open_bi succeeds: the connection is alive and has stream quota left.
OpenOk(c) ==
  /\ pc[c] \in {"open", "reopen"}
  /\ conn[c] \notin closed
  /\ Go(c, "exchange")
  /\ UNCHANGED <<link, closed, holder, queue, seen, conn, dials>>

\* open_bi fails or its 10 s pass.  A timeout on a live connection is a spent
\* stream quota: the call gives up and leaves the connection alone.
OpenFails(c) ==
  /\ pc[c] = "open"
  /\ IF conn[c] \in closed
     THEN Enqueue(c) /\ UNCHANGED <<holder, seen, conn, dials>>
     ELSE End(c)
  /\ UNCHANGED <<link, closed>>

\* After a reconnect there is no second round: any failure is the call's result.
ReopenFails(c) ==
  /\ pc[c] = "reopen"
  /\ End(c)
  /\ UNCHANGED <<link, closed>>

BadStale(c) == TRUE
\* The link is still the one this call found closed.
Stale(c) == link = seen[c]

\* The mutex goes to the first waiter once nobody holds it.
First(c) == holder = None /\ Head(queue) = c

\* The mutex is handed over; only a link nobody has replaced is dialled anew.
\* refresh_credentials and the TLS configuration may fail before the dial.
Locks(c) ==
  /\ pc[c] = "wait"
  /\ First(c)
  /\ \/ /\ Stale(c)
        /\ holder' = c
        /\ queue' = SelectSeq(queue, LAMBDA d : d # c)
        /\ dials' = Addrs
        /\ Go(c, "dial")
        /\ UNCHANGED <<seen, conn>>
     \/ /\ ~Stale(c)
        /\ queue' = SelectSeq(queue, LAMBDA d : d # c)
        /\ Go(c, "reclone")
        /\ UNCHANGED <<holder, seen, conn, dials>>
     \/ Stale(c) /\ End(c)
  /\ UNCHANGED <<link, closed>>

\* An identity is free when no handle keeps its connection alive.
Free(l) == l # link /\ \A c \in Callers : l \notin {seen[c], conn[c]}

\* connect(): the first address that answers wins, the other dials are dropped.
DialOk(c, l) ==
  /\ pc[c] = "dial"
  /\ Free(l)
  /\ closed' = closed \ {l}
  /\ conn' = [conn EXCEPT ![c] = l]
  /\ dials' = {}
  /\ Go(c, "control")
  /\ UNCHANGED <<link, holder, queue, seen>>

\* dial_one fails, or its 8 s pass; the last failure ends the call.
DialFails(c, a) ==
  /\ pc[c] = "dial"
  /\ a \in dials
  /\ IF dials = {a} THEN End(c)
     ELSE /\ dials' = dials \ {a}
          /\ UNCHANGED <<holder, queue, pc, seen, conn>>
  /\ UNCHANGED <<link, closed>>

\* The control stream is up: the fresh connection becomes the link.
ControlOk(c) ==
  /\ pc[c] = "control"
  /\ conn[c] \notin closed
  /\ link' = conn[c]
  /\ holder' = None
  /\ Go(c, "reclone")
  /\ UNCHANGED <<closed, queue, seen, conn, dials>>

BadControlFails(c) == pc[c] = "control" /\ conn[c] \in closed /\ End(c) /\ UNCHANGED <<link, closed>>
\* Opening the control stream or sending SETTINGS fails, or the 10 s pass.
ControlFails(c) ==
  /\ pc[c] = "control"
  /\ End(c)
  /\ UNCHANGED <<link, closed>>

\* After the mutex is released the call reads the link again: it may have been
\* replaced once more in between.
Reclone(c) ==
  /\ pc[c] = "reclone"
  /\ conn' = [conn EXCEPT ![c] = link]
  /\ Go(c, "reopen")
  /\ UNCHANGED <<link, closed, holder, queue, seen, dials>>

\* exchange(): the edge accepts the CONNECT and the stream is handed out, or
\* it refuses, sends no HEADERS among 8 frames, or 15 s pass: both sides reset.
Exchanged(c) ==
  /\ pc[c] = "exchange"
  /\ End(c)
  /\ UNCHANGED <<link, closed>>

\* The 53 s budget ends, or the proxy session that asked is cut.
Cancel(c) ==
  /\ pc[c] \in Waits
  /\ End(c)
  /\ UNCHANGED <<link, closed>>

\* A connection dies: idle timeout, reset or edge close.
Closes(l) ==
  /\ ~Free(l)
  /\ l \notin closed
  /\ closed' = closed \cup {l}
  /\ UNCHANGED <<link, holder, queue, pc, seen, conn, dials>>

LNext ==
  \/ \E c \in Callers :
       \/ Start(c) \/ OpenOk(c) \/ OpenFails(c) \/ ReopenFails(c) \/ Locks(c)
       \/ ControlOk(c) \/ ControlFails(c) \/ Reclone(c) \/ Exchanged(c) \/ Cancel(c)
       \/ \E l \in Links : DialOk(c, l)
       \/ \E a \in Addrs : DialFails(c, a)
  \/ \E l \in Links : Closes(l)

LSpec == LInit /\ [][LNext]_vars

\* Every await has a timer of its own (10 s, 8 s per address, 10 s, 15 s) that
\* fires if nothing else happens, and the runtime polls a task that was handed
\* the mutex.  No success is assumed.
LFairness ==
  \A c \in Callers :
    /\ WF_vars(OpenFails(c) \/ ReopenFails(c))
    /\ WF_vars(Locks(c))
    /\ WF_vars(\E a \in Addrs : DialFails(c, a))
    /\ WF_vars(ControlFails(c))
    /\ WF_vars(Reclone(c))
    /\ WF_vars(Exchanged(c))

LFairSpec == LSpec /\ LFairness

-----------------------------------------------------------------------------

\* mod.rs:99 "rebuild only when the connection is dead; a spent quota keeps the
\* streams that exist": however many callers find the connection closed, and
\* whichever waits for the mutex meanwhile, no live connection is ever replaced.
LiveLinkKept == [][link' # link => link \in closed]_vars

\* `reconnecting` serialises reconnects: never two calls dialling the edges.
OneReconnect == \A c, d \in Callers : pc[c] \in Locked /\ pc[d] \in Locked => c = d

\* A call that found its connection dead opens its stream on another one in the
\* end: the comparison of stable_id never sends it back to the dead connection.
RetryOnAnotherLink ==
  \A c \in Callers :
    /\ pc[c] = "reclone" => link # seen[c]
    /\ pc[c] = "reopen" => conn[c] # seen[c]

\* Whatever the edges and the other callers do, every call ends, without the
\* help of the outer budget: no caller waits for the mutex for ever.
CallEnds == \A c \in Callers : (pc[c] # "idle") ~> (pc[c] = "idle")
=============================================================================
