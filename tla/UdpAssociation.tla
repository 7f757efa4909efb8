-------------------------- MODULE UdpAssociation --------------------------
(***************************************************************************)
(* socks5.rs: UDP ASSOCIATE.  A session (one task) receives the client's   *)
(* datagrams on a relay socket and hands each to the worker of its target; *)
(* workers (tasks in the session's JoinSet) exchange datagrams with the    *)
(* outlet and put the replies into one channel back to the session.        *)
(* Sessions share two process-wide semaphores: UDP_WORKERS and             *)
(* UDP_QUEUE_BYTES; every queued datagram carries the permits of its size. *)
(*                                                                         *)
(* A datagram is its size.  A session handles a datagram without awaiting, *)
(* so that is one step; what a worker does between two awaits is one step. *)
(***************************************************************************)
EXTENDS Naturals, Sequences, FiniteSets, FiniteSetsExt, SequencesExt

CONSTANTS
  Sessions,         \* associations that may exist at a time
  Targets,          \* SocketAddrOrName
  Workers,          \* identities of worker tasks
  Sources,          \* UDP source addresses at the IP of the control connection
  Strangers,        \* UDP source addresses elsewhere
  Sizes,            \* datagram sizes
  None,
  MaxTargets,       \* MAX_UDP_TARGETS_PER_ASSOCIATION
  MaxWorkers,       \* permits of UDP_WORKERS
  QueueBytes,       \* permits of UDP_QUEUE_BYTES
  SendCapacity,     \* UDP_TARGET_CHANNEL_CAPACITY
  ReplyCapacity     \* UDP_REPLY_CHANNEL_CAPACITY

ASSUME UdpAssumption ==
  /\ IsFiniteSet(Workers)
  /\ MaxWorkers \in Nat /\ QueueBytes \in Nat /\ MaxTargets \in Nat
  /\ Sizes \subseteq Nat
  /\ None \notin Workers \cup Sessions \cup Sources \cup Strangers \cup Nat

VARIABLES
  client,     \* per session: "closed", None (no client yet) or its address
  routes,     \* per session and target: the worker its sender leads to
  replies,    \* per session: the reply channel
  handing,    \* per session: the reply being sent to the client, or None
  worker,     \* the worker tasks
  permits,    \* free permits of UDP_WORKERS
  bytes       \* free permits of UDP_QUEUE_BYTES

uvars == <<client, routes, replies, handing, worker, permits, bytes>>

\* "establishing": in connect_udp; "ready": in select!; "sending" and
\* "replying": in the await of an arm, with the datagram in hand;
\* "closing": its receiver is dropped, its permit is not yet.
OpenStates == {"establishing", "ready", "sending", "replying"}
Idle == [st |-> "free", session |-> None, target |-> None, queue |-> <<>>, hand |-> 0]

Open(w) == worker[w].st \in OpenStates
IsOpen(s) == client[s] # "closed"
Total(q) == FoldLeft(LAMBDA a, n : a + n, 0, q)
Carried(w) == Total(worker[w].queue) + worker[w].hand

UInit ==
  /\ client = [s \in Sessions |-> "closed"]
  /\ routes = [s \in Sessions |-> [t \in Targets |-> None]]
  /\ replies = [s \in Sessions |-> <<>>]
  /\ handing = [s \in Sessions |-> None]
  /\ worker = [w \in Workers |-> Idle]
  /\ permits = MaxWorkers
  /\ bytes = QueueBytes

-----------------------------------------------------------------------------
(* the session: handle_udp_associate                                       *)

\* The outlet supports UDP and the client has been told the relay address.
Associate(s) ==
  /\ ~IsOpen(s)
  /\ \A w \in Workers : worker[w].session # s
  /\ client' = [client EXCEPT ![s] = None]
  /\ UNCHANGED <<routes, replies, handing, worker, permits, bytes>>

UdpSourceAllowed(s, from) == from \in Sources /\ client[s] \in {None, from}

\* UdpEgressSet::prune: forget the routes whose receiver is gone.
BadPrune(r) ==
  [t \in Targets |-> IF r[t] # None /\ worker[r[t]].st \in {"ready", "sending", "replying"}
                     THEN r[t] ELSE None]
Prune(r) == [t \in Targets |-> IF r[t] # None /\ Open(r[t]) THEN r[t] ELSE None]

Live(r) == {t \in Targets : r[t] # None}

\* UdpEgressSet::send, after prune, for a datagram of n bytes.
Drop(r) ==
  /\ routes' = r
  /\ UNCHANGED <<worker, permits, bytes>>

Enqueue(r, w, n) ==
  /\ worker' = [worker EXCEPT ![w].queue = Append(@, n)]
  /\ bytes' = bytes - n
  /\ routes' = r
  /\ UNCHANGED permits

SpawnWorker(s, pruned, t, n) ==
  \E w \in {v \in Workers : worker[v] = Idle} :
    /\ worker' = [worker EXCEPT ![w] = [st |-> "establishing", session |-> s, target |-> t,
                                        queue |-> <<n>>, hand |-> 0]]
    /\ routes' = [routes EXCEPT ![s] = [pruned EXCEPT ![t] = w]]
    /\ permits' = permits - 1
    /\ bytes' = bytes - n

\* The limit of 64 routes, and the permits all sessions share.
AtLimit(r) == Cardinality(Live(r)) >= MaxTargets \/ permits = 0

\* No room for n bytes in the queues of the process.
NoRoom(n) == n > bytes

Send(s, t, n) ==
  LET pruned == Prune(routes[s])
      pr == [routes EXCEPT ![s] = pruned]
      w == pruned[t]
  IN  IF NoRoom(n) THEN Drop(pr)
      ELSE IF w # None
           THEN IF Len(worker[w].queue) >= SendCapacity THEN Drop(pr) ELSE Enqueue(pr, w, n)
      ELSE IF AtLimit(pruned) THEN Drop(pr) ELSE SpawnWorker(s, pruned, t, n)

\* A datagram on the relay socket.  A wrong source or a header that does not
\* decode is ignored; the first good one fixes the client's address.
RelayReceives(s, from, t, n) ==
  /\ IsOpen(s) /\ handing[s] = None
  /\ UdpSourceAllowed(s, from)
  /\ client' = [client EXCEPT ![s] = from]
  /\ Send(s, t, n)
  /\ UNCHANGED <<replies, handing>>

TakesReply(s) ==
  /\ IsOpen(s) /\ handing[s] = None /\ replies[s] # <<>>
  /\ handing' = [handing EXCEPT ![s] = Head(replies[s])]
  /\ replies' = [replies EXCEPT ![s] = Tail(@)]
  /\ UNCHANGED <<client, routes, worker, permits, bytes>>

\* send_to has returned (its result is ignored); the reply is dropped.
Delivered(s) ==
  /\ handing[s] # None
  /\ handing' = [handing EXCEPT ![s] = None]
  /\ bytes' = bytes + handing[s]
  /\ UNCHANGED <<client, routes, replies, worker, permits>>

\* The control connection closes, the relay socket fails, or the listener
\* cuts the client.  Dropping the set aborts its workers.
Close(s) ==
  /\ IsOpen(s)
  /\ client' = [client EXCEPT ![s] = "closed"]
  /\ routes' = [routes EXCEPT ![s] = [t \in Targets |-> None]]
  /\ replies' = [replies EXCEPT ![s] = <<>>]
  /\ handing' = [handing EXCEPT ![s] = None]
  /\ bytes' = bytes + Total(replies[s]) + (IF handing[s] = None THEN 0 ELSE handing[s])
  /\ UNCHANGED <<worker, permits>>

-----------------------------------------------------------------------------
(* the worker: establish_egress, run_udp_egress                            *)

\* The worker returns or is dropped: its queue and what it has in hand go,
\* with their byte permits.
BadFinish(w) ==
  /\ worker' = [worker EXCEPT ![w].st = "closing", ![w].queue = <<>>, ![w].hand = 0]
  /\ bytes' = bytes + Total(worker[w].queue)
  /\ UNCHANGED <<client, routes, replies, handing, permits>>
Finish(w) ==
  /\ worker' = [worker EXCEPT ![w].st = "closing", ![w].queue = <<>>, ![w].hand = 0]
  /\ bytes' = bytes + Carried(w)
  /\ UNCHANGED <<client, routes, replies, handing, permits>>

Established(w) ==
  /\ worker[w].st = "establishing"
  /\ worker' = [worker EXCEPT ![w].st = "ready"]
  /\ UNCHANGED <<client, routes, replies, handing, permits, bytes>>

\* connect_udp fails, or its 10 s are over.
EstablishFails(w) == worker[w].st = "establishing" /\ Finish(w)

TakesSend(w) ==
  /\ worker[w].st = "ready" /\ worker[w].queue # <<>>
  /\ worker' = [worker EXCEPT ![w].st = "sending", ![w].hand = Head(worker[w].queue),
                              ![w].queue = Tail(@)]
  /\ UNCHANGED <<client, routes, replies, handing, permits, bytes>>

Sent(w) ==
  /\ worker[w].st = "sending"
  /\ worker' = [worker EXCEPT ![w].st = "ready", ![w].hand = 0]
  /\ bytes' = bytes + worker[w].hand
  /\ UNCHANGED <<client, routes, replies, handing, permits>>

\* A datagram from the target; without byte permits it is dropped.
EgressReceives(w, n) ==
  /\ worker[w].st = "ready" /\ n <= bytes
  /\ worker' = [worker EXCEPT ![w].st = "replying", ![w].hand = n]
  /\ bytes' = bytes - n
  /\ UNCHANGED <<client, routes, replies, handing, permits>>

Replied(w) ==
  LET s == worker[w].session IN
  /\ worker[w].st = "replying"
  /\ IsOpen(s) /\ Len(replies[s]) < ReplyCapacity
  /\ replies' = [replies EXCEPT ![s] = Append(@, worker[w].hand)]
  /\ worker' = [worker EXCEPT ![w].st = "ready", ![w].hand = 0]
  /\ UNCHANGED <<client, routes, handing, permits, bytes>>

EgressFails(w) == worker[w].st \in {"ready", "sending"} /\ Finish(w)

\* The idle timer covers a whole operation: waiting and forwarding.
IdleTimeout(w) == worker[w].st = "ready" /\ Finish(w)
ForwardTimeout(w) == worker[w].st \in {"sending", "replying"} /\ Finish(w)

\* The session is gone: aborted, or told so by a closed channel.
Aborted(w) == Open(w) /\ ~IsOpen(worker[w].session) /\ Finish(w)

\* The task is dropped.  Its identity is free for another, so a sender that
\* still led to it goes too: prune, which every use of the routes begins with,
\* would take it out.
Gone(w) ==
  /\ worker[w].st = "closing"
  /\ worker' = [worker EXCEPT ![w] = Idle]
  /\ routes' = [s \in Sessions |-> [t \in Targets |-> IF routes[s][t] = w THEN None ELSE routes[s][t]]]
  /\ permits' = permits + 1
  /\ UNCHANGED <<client, replies, handing, bytes>>

-----------------------------------------------------------------------------
SessionStep(s) ==
  \/ Associate(s) \/ TakesReply(s) \/ Delivered(s) \/ Close(s)
  \/ \E from \in Sources \cup Strangers, t \in Targets, n \in Sizes : RelayReceives(s, from, t, n)

WorkerStep(w) ==
  \/ Established(w) \/ EstablishFails(w) \/ TakesSend(w) \/ Sent(w) \/ Replied(w)
  \/ EgressFails(w) \/ IdleTimeout(w) \/ ForwardTimeout(w) \/ Aborted(w) \/ Gone(w)
  \/ \E n \in Sizes : EgressReceives(w, n)

UNext == (\E s \in Sessions : SessionStep(s)) \/ (\E w \in Workers : WorkerStep(w))
USpec == UInit /\ [][UNext]_uvars

\* Timers fire and the runtime drops what it has aborted.  Nothing is
\* assumed of the outlet, of the client or of the session: a worker may wait
\* for ever in connect_udp, in send or for room in the reply channel.
UFairness ==
  \A w \in Workers : /\ WF_uvars(EstablishFails(w)) /\ WF_uvars(ForwardTimeout(w))
                     /\ WF_uvars(Aborted(w)) /\ WF_uvars(Gone(w))
UFairSpec == USpec /\ UFairness

-----------------------------------------------------------------------------
(* Properties                                                              *)

\* Nothing is lost from the process-wide budgets, whichever timeout, failure or
\* close happens on the way: a worker permit is free or held by a worker of any
\* session, ended ones included (socks5.rs:289-298); a byte permit is free or
\* belongs to a datagram that is queued, in a worker's hands, in a reply channel
\* or on its way to a client (socks5.rs:262-279, 355-381).
BudgetsConserved ==
  /\ permits + Cardinality({w \in Workers : worker[w].st # "free"}) = MaxWorkers
  /\ bytes + MapThenSumSet(Carried, Workers)
           + MapThenSumSet(LAMBDA s : Total(replies[s]) + (IF handing[s] = None THEN 0 ELSE handing[s]),
                           Sessions) = QueueBytes

\* A session never has two open workers for one target, so the datagrams of a
\* flow keep one tunnel socket: an open worker of an open session is the one its
\* route leads to (socks5.rs:267-279, 326), and a route leads to no worker of
\* another session or target.  Hence the limit on routes bounds the workers too
\* (socks5.rs:281-287).
Mine(s) == {w \in Workers : Open(w) /\ worker[w].session = s}
RoutesSound ==
  \A s \in Sessions : IsOpen(s) =>
    /\ \A w \in Mine(s) : routes[s][worker[w].target] = w
    /\ \A t \in Live(routes[s]) : worker[routes[s][t]].session = s /\ worker[routes[s][t]].target = t
    /\ Cardinality(Mine(s)) <= MaxTargets

\* Back-pressure does not defeat the idle timer: a worker does not stay for
\* ever in an await of connect_udp, of a send, or of a full reply channel
\* (socks5.rs:300-305, 352-374).
NoStuckWorker ==
  \A w \in Workers :
    (worker[w].st \in {"establishing", "sending", "replying"})
      ~> (worker[w].st \in {"ready", "closing", "free"})
=============================================================================
