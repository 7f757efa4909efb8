--------------------------- MODULE RequestsProofs ---------------------------
(* Proofs about a client's request for every value of the constants: the   *)
(* streams of an HTTP connection with any number of requests, and the      *)
(* routes of the UDP associations with any number of sessions, targets and *)
(* workers.                                                                *)
EXTENDS HttpProxy, UdpAssociation, FiniteSetTheorems, TLAPS

-----------------------------------------------------------------------------
(* The HTTP connection                                                     *)

\* Places where the request counted last has not been answered yet.
Serving == {"dial", "connected", "shake", "response", "answer"}

HttpTypeOK ==
  /\ hp \in Serving \cup {"head", "body", "upgraded", "tunnel", "closed"}
  /\ nreq \in Nat /\ nreq <= MaxRequests /\ slot \in Nat
  /\ method \in {"CONNECT", "other", "bad"}
  /\ stream \in [Requests -> {"none", "open", "closed"}]
  /\ owner \in [Requests -> {"none", "service", "body", "slot"}]
  /\ answer \in Nat /\ answers \in Seq(Nat)

\* Who may hold a stream at each place: an answer waits to be written only
\* with what forward left behind, and a stream is a body's only under a plain
\* 200.  The slot is filled just before a tunnel's answer and never again.
HttpInv ==
  /\ HttpTypeOK /\ StreamsOwned
  /\ hp \in Serving => nreq > 0 /\ Len(answers) = nreq - 1
  /\ hp \in {"head", "body", "upgraded", "tunnel"} => Len(answers) = nreq
  /\ Len(answers) \in {nreq, nreq - 1}
  /\ \A i \in Requests : stream[i] = "open" /\ hp \in {"answer", "body"} =>
       /\ owner[i] # "service"
       /\ owner[i] = "body" => answer = 200 /\ method # "CONNECT"
  /\ hp = "connected" => method = "CONNECT"
  /\ hp \in {"connected", "shake", "response"} => stream[nreq] = "open"
  /\ hp \in {"shake", "response"} => method # "CONNECT"
  /\ slot # 0 => slot = nreq /\ hp \in {"answer", "upgraded", "tunnel", "closed"} /\ Upgraded
  /\ hp \in {"answer", "upgraded", "tunnel"} /\ Upgraded =>
       /\ slot = nreq /\ nreq > 0 /\ stream[slot] = "open" /\ owner[slot] = "slot"
       /\ answer = IF method = "CONNECT" THEN 200 ELSE 101
       /\ method # "CONNECT" => upgrades
  /\ hp \in {"upgraded", "tunnel"} => Upgraded /\ nreq > 0 /\ answers[nreq] = answer

\* What was stripped from the last message passed on.
PassedInv ==
  /\ "named" \in passed.to => "connection" \notin passed.from
  /\ "upgrade" \in passed.to => "upgrade" \in passed.from /\ upgrades

\* Dropping an owner closes its streams and leaves the others as they are.
LEMMA DropsCloses ==
  ASSUME HttpTypeOK, NEW who, Drops(who)
  PROVE  /\ stream' \in [Requests -> {"none", "open", "closed"}]
         /\ owner' \in [Requests -> {"none", "service", "body", "slot"}]
         /\ \A i \in Requests : stream'[i] = "open" =>
              stream[i] = "open" /\ owner[i] \notin who /\ owner'[i] = owner[i]
         /\ \A i \in Requests : stream[i] = "open" /\ owner[i] \notin who =>
              stream'[i] = "open" /\ owner'[i] = owner[i]
  BY DEF HttpTypeOK, Drops, Released

LEMMA GivesOwner ==
  ASSUME HttpTypeOK, NEW who \in {"body", "slot"}, nreq \in Requests, Gives(nreq, who)
  PROVE  /\ stream' = stream
         /\ owner' \in [Requests -> {"none", "service", "body", "slot"}]
         /\ owner'[nreq] = who
         /\ \A i \in Requests : i # nreq => owner'[i] = owner[i]
  BY DEF HttpTypeOK, Gives

\* The end of a connection, from wherever it is.
LEMMA ClosesInv ==
  ASSUME HttpInv, Closes
  PROVE  HttpInv'
<1>1. HttpTypeOK /\ Drops({"service", "body", "slot"})
  BY DEF HttpInv, Closes
<1>2. /\ stream' \in [Requests -> {"none", "open", "closed"}]
      /\ owner' \in [Requests -> {"none", "service", "body", "slot"}]
      /\ \A i \in Requests : stream'[i] = "open" => owner'[i] = owner[i] /\ owner[i] = "none" /\ stream[i] = "open"
  BY <1>1, DropsCloses DEF HttpTypeOK
<1>3. \A i \in Requests : stream'[i] # "open"
  BY <1>2 DEF HttpInv, StreamsOwned
<1> QED
  BY <1>1, <1>2, <1>3 DEF HttpInv, HttpTypeOK, StreamsOwned, Closes, requestVars, Serving, Upgraded

\* An error of forward leaves no stream of this request behind.
LEMMA FailsInv ==
  ASSUME HttpInv, hp \in Serving \ {"answer"}, Fails
  PROVE  HttpInv'
<1>1. HttpTypeOK /\ Drops({"service"}) /\ Responds(502)
  BY DEF HttpInv, Fails
<1>2. /\ stream' \in [Requests -> {"none", "open", "closed"}]
      /\ owner' \in [Requests -> {"none", "service", "body", "slot"}]
      /\ \A i \in Requests : stream'[i] = "open" => owner'[i] = owner[i] /\ owner[i] # "service" /\ stream[i] = "open"
  BY <1>1, DropsCloses DEF HttpTypeOK
<1>3. \A i \in Requests : stream'[i] # "open"
  BY <1>2 DEF HttpInv, StreamsOwned, Serving, HttpTypeOK, Requests
<1> QED
  BY <1>1, <1>2, <1>3 DEF HttpInv, HttpTypeOK, StreamsOwned, Fails, Responds, requestVars, Serving, Upgraded

\* A tunnel goes into the empty slot.
LEMMA PutsTunnelInv ==
  ASSUME HttpInv, hp \in {"connected", "response"}, NEW status \in Nat, PutsTunnel(status),
         status = IF method = "CONNECT" THEN 200 ELSE 101,
         method # "CONNECT" => upgrades,
         UNCHANGED <<nreq, method, upgrades, answers>>
  PROVE  HttpInv'
<1>1. slot = 0 /\ nreq \in Requests /\ HttpTypeOK
  BY HttpAssumption DEF HttpInv, HttpTypeOK, Serving, Requests
<1>2. slot' = nreq /\ Gives(nreq, "slot") /\ hp' = "answer" /\ answer' = status
  BY <1>1 DEF PutsTunnel, Responds
<1>3. /\ stream' = stream
      /\ owner' \in [Requests -> {"none", "service", "body", "slot"}]
      /\ owner'[nreq] = "slot"
      /\ \A i \in Requests : i # nreq => owner'[i] = owner[i]
  BY <1>1, <1>2, GivesOwner
<1>4. \A i \in Requests : stream'[i] = "open" => i = nreq
  BY <1>1, <1>3 DEF HttpInv, StreamsOwned, Requests
<1>5. stream[nreq] = "open"
  BY DEF HttpInv
<1> QED
  BY <1>1, <1>2, <1>3, <1>4, <1>5 DEF HttpInv, HttpTypeOK, StreamsOwned, Serving, Upgraded

LEMMA HttpStepInv ==
  ASSUME HttpInv, [PNext]_httpVars
  PROVE  HttpInv'
<1> USE HttpAssumption
<1>0. HttpTypeOK /\ (hp \in Serving => nreq \in Requests)
  BY DEF HttpInv, HttpTypeOK, Requests
<1>1. CASE UNCHANGED httpVars
  BY <1>1 DEF HttpInv, HttpTypeOK, StreamsOwned, httpVars, Upgraded
<1>2. ASSUME NEW m \in {"CONNECT", "other", "bad"}, NEW up \in BOOLEAN, ReadsHead(m, up)
      PROVE HttpInv'
  <2>1. /\ hp = "head" /\ nreq' = nreq + 1 /\ nreq < MaxRequests /\ method' = m /\ upgrades' = up
        /\ \/ hp' = "answer" /\ answer' = 400 /\ m = "bad"
           \/ hp' = "dial" /\ answer' = answer
        /\ slot' = slot /\ stream' = stream /\ owner' = owner /\ answers' = answers
    BY <1>2 DEF ReadsHead, Responds, streamVars
  <2>2. slot = 0 /\ \A i \in Requests : stream[i] # "open"
    BY <2>1, <1>0 DEF HttpInv, StreamsOwned, Started, Requests
  <2> QED
    BY <2>1, <2>2 DEF HttpInv, HttpTypeOK, StreamsOwned, Serving, Upgraded
<1>3. CASE HeadTimeout \/ Leaves
  BY <1>3, ClosesInv DEF HeadTimeout, Leaves
<1>4. CASE Answers
  <2>1. /\ hp = "answer" /\ answers' = Append(answers, answer)
        /\ UNCHANGED <<nreq, method, upgrades, slot, stream, owner, answer>>
        /\ hp' = IF Upgraded THEN "upgraded"
                 ELSE IF \E i \in Requests : owner[i] = "body" THEN "body" ELSE "head"
    BY <1>4 DEF Answers, requestVars, streamVars
  <2>2. answers' \in Seq(Nat) /\ Len(answers') = nreq /\ answers'[nreq] = answer
    BY <2>1 DEF HttpInv, HttpTypeOK, Serving
  <2>3. \A i \in Requests : stream[i] = "open" /\ owner[i] = "body" => ~Upgraded
    BY <2>1 DEF HttpInv, Upgraded
  <2>4. StreamsOwned'
    BY <2>1, <2>3 DEF HttpInv, StreamsOwned, Started
  <2> QED
    BY <2>1, <2>2, <2>3, <2>4 DEF HttpInv, HttpTypeOK, Serving, Upgraded
<1>5. CASE BodyEnds
  <2>1. Drops({"body"}) /\ hp = "body" /\ hp' = "head"
    BY <1>5 DEF BodyEnds
  <2>2. /\ stream' \in [Requests -> {"none", "open", "closed"}]
        /\ owner' \in [Requests -> {"none", "service", "body", "slot"}]
        /\ \A i \in Requests : stream'[i] = "open" => owner'[i] = owner[i] /\ owner[i] # "body" /\ stream[i] = "open"
    BY <1>0, <2>1, DropsCloses
  <2> QED
    BY <1>5, <2>1, <2>2 DEF BodyEnds, HttpInv, HttpTypeOK, StreamsOwned, Started, Serving, Upgraded, requestVars
<1>6. CASE RunsTunnel
  BY <1>6 DEF RunsTunnel, HttpInv, HttpTypeOK, StreamsOwned, Started, Serving, Upgraded, requestVars, streamVars
<1>7. CASE TargetFails \/ ShakeFails \/ NoResponse
  BY <1>7, FailsInv DEF TargetFails, ShakeFails, NoResponse, Serving
<1>8. CASE Dialled
  <2>1. /\ hp = "dial" /\ stream' = [stream EXCEPT ![nreq] = "open"]
        /\ owner' = [owner EXCEPT ![nreq] = "service"]
        /\ hp' = IF method = "CONNECT" THEN "connected" ELSE "shake"
        /\ UNCHANGED <<nreq, method, upgrades, slot, answer, answers>>
    BY <1>8 DEF Dialled, requestVars
  <2>2. nreq \in Requests
    BY <1>0, <2>1 DEF Serving
  <2> QED
    BY <2>1, <2>2 DEF HttpInv, HttpTypeOK, StreamsOwned, Started, Serving, Upgraded
<1>9. CASE Connected
  BY <1>9, PutsTunnelInv DEF Connected, HttpInv, requestVars
<1>10. ASSUME NEW fields \in SUBSET Fields, Shakes(fields) PROVE HttpInv'
  BY <1>10 DEF Shakes, HttpInv, HttpTypeOK, StreamsOwned, Started, Serving, Upgraded, requestVars
<1>11. ASSUME NEW fields \in SUBSET Fields, Switches(fields) PROVE HttpInv'
  BY <1>11, PutsTunnelInv DEF Switches, MaySwitch, HttpInv, requestVars
<1>12. ASSUME NEW fields \in SUBSET Fields, GetsResponse(fields) PROVE HttpInv'
  <2>1. /\ hp = "response" /\ hp' = "answer" /\ answer' = 200 /\ Gives(nreq, "body")
        /\ UNCHANGED <<nreq, method, upgrades, slot, answers>>
    BY <1>12 DEF GetsResponse, Responds, requestVars
  <2>2. nreq \in Requests
    BY <1>0, <2>1 DEF Serving
  <2>3. /\ stream' = stream
        /\ owner' \in [Requests -> {"none", "service", "body", "slot"}]
        /\ owner'[nreq] = "body"
        /\ \A i \in Requests : i # nreq => owner'[i] = owner[i]
    BY <1>0, <2>1, <2>2, GivesOwner
  <2> QED
    BY <2>1, <2>2, <2>3 DEF HttpInv, HttpTypeOK, StreamsOwned, Started, Serving, Upgraded
<1> QED
  BY <1>1, <1>2, <1>3, <1>4, <1>5, <1>6, <1>7, <1>8, <1>9, <1>10, <1>11, <1>12 DEF PNext

LEMMA HttpInitInv == PInit => HttpInv
<1> SUFFICES ASSUME PInit PROVE HttpInv
  OBVIOUS
<1>1. HttpTypeOK
  BY HttpAssumption DEF PInit, HttpTypeOK, Serving
<1>2. StreamsOwned
  BY DEF PInit, StreamsOwned
<1>3. Len(answers) = 0
  BY DEF PInit
<1> QED
  BY <1>1, <1>2, <1>3 DEF PInit, HttpInv, Serving, Upgraded

\* Whatever the number of requests, every open stream of an HTTP connection has
\* an owner that will drop it, and a closed connection has none.
THEOREM HttpStreamsOwned == HttpSpec => []StreamsOwned
<1>1. HttpInv /\ [PNext]_httpVars => HttpInv'
  BY HttpStepInv
<1>2. HttpInv => StreamsOwned
  BY DEF HttpInv
<1> QED
  BY <1>1, <1>2, HttpInitInv, PTL DEF HttpSpec

\* What strip_hop_headers leaves of any set of fields.
LEMMA StripHopStrips ==
  ASSUME NEW fields, NEW up \in BOOLEAN
  PROVE  /\ "named" \in StripHop(fields, up) => "connection" \notin fields
         /\ "upgrade" \in StripHop(fields, up) => up
  BY DEF StripHop

LEMMA PassedStep ==
  ASSUME PassedInv, [PNext]_httpVars
  PROVE  PassedInv'
<1>1. ASSUME NEW m, NEW up, ReadsHead(m, up) PROVE PassedInv'
  BY <1>1 DEF PassedInv, ReadsHead, NoMessage
<1>2. ASSUME NEW fields \in SUBSET Fields, NEW up \in BOOLEAN, Passes(fields, up),
             up => "upgrade" \in fields /\ upgrades, upgrades' = upgrades
      PROVE  PassedInv'
  BY <1>2, StripHopStrips DEF PassedInv, Passes
<1>3. ASSUME NEW fields \in SUBSET Fields, Shakes(fields) PROVE PassedInv'
  <2>1. CASE upgrades = TRUE
    BY <1>2, <1>3, <2>1 DEF Shakes, requestVars
  <2>2. CASE upgrades # TRUE
    <3>1. passed'.to = (fields \ (IF "connection" \in fields THEN {"named"} ELSE {})) \ {"connection", "upgrade"}
      BY <1>3, <2>2 DEF Shakes, Passes, StripHop
    <3> QED
      BY <1>3, <3>1 DEF Shakes, Passes, PassedInv
  <2> QED
    BY <2>1, <2>2
<1>4. ASSUME NEW fields \in SUBSET Fields, Switches(fields) PROVE PassedInv'
  BY <1>4 DEF Switches, MaySwitch, requestVars, Passes, StripHop, PassedInv
<1>5. ASSUME NEW fields \in SUBSET Fields, GetsResponse(fields) PROVE PassedInv'
  BY <1>2, <1>5 DEF GetsResponse, requestVars
<1>6. ASSUME UNCHANGED <<passed, upgrades>> PROVE PassedInv'
  BY <1>6 DEF PassedInv
<1> QED
  BY <1>1, <1>3, <1>4, <1>5, <1>6
  DEF PNext, httpVars, requestVars, HeadTimeout, Leaves, Closes, Answers, BodyEnds, RunsTunnel,
      TargetFails, Fails, Dialled, Connected, ShakeFails, NoResponse

\* Whatever the number of requests, an HTTP connection becomes a tunnel at most
\* once, for its last request and after that request's 200 or 101; and nothing
\* the Connection header names is passed on.
THEOREM HttpTunnelIsLast == HttpSpec => []TunnelIsLast
<1>1. HttpInv /\ [PNext]_httpVars => HttpInv'
  BY HttpStepInv
<1>2. PInit => PassedInv
  BY DEF PInit, PassedInv, NoMessage
<1>3. PassedInv /\ [PNext]_httpVars => PassedInv'
  BY PassedStep
<1>4. HttpInv /\ PassedInv => TunnelIsLast
  BY DEF HttpInv, PassedInv, TunnelIsLast
<1> QED
  BY <1>1, <1>2, <1>3, <1>4, HttpInitInv, PTL DEF HttpSpec

-----------------------------------------------------------------------------
(* The UDP associations                                                    *)

WorkerStates == OpenStates \cup {"closing", "free"}
UdpTypeOK ==
  /\ client \in [Sessions -> Sources \cup Strangers \cup {"closed", None}]
  /\ routes \in [Sessions -> [Targets -> Workers \cup {None}]]
  /\ worker \in [Workers -> [st : WorkerStates, session : Sessions \cup {None},
                             target : Targets \cup {None}, queue : Seq(Nat), hand : Nat]]

\* An open worker of an open session is where its route leads.
RoutesLead ==
  \A w \in Workers, s \in Sessions :
    Open(w) /\ IsOpen(s) /\ worker[w].session = s =>
      worker[w].target \in Targets /\ routes[s][worker[w].target] = w

\* A route leads to a worker that was spawned for it, open or ended.
RoutesOwn ==
  \A s \in Sessions, t \in Targets : routes[s][t] # None =>
    worker[routes[s][t]].session = s /\ worker[routes[s][t]].target = t

\* The limit on the routes of a session.
RoutesFew ==
  \A s \in Sessions : IsFiniteSet(Live(routes[s])) /\ Cardinality(Live(routes[s])) <= MaxTargets

UdpInv == UdpTypeOK /\ RoutesLead /\ RoutesOwn /\ RoutesFew

LEMMA UdpInitInv == UInit => UdpInv
<1> SUFFICES ASSUME UInit PROVE UdpInv
  OBVIOUS
<1>1. UdpTypeOK
  BY DEF UInit, UdpTypeOK, Idle, WorkerStates
<1>2. RoutesLead /\ RoutesOwn
  BY DEF UInit, RoutesLead, RoutesOwn, Open, IsOpen, OpenStates, Idle
<1>3. ASSUME NEW s \in Sessions PROVE Live(routes[s]) = {}
  BY DEF UInit, Live
<1> QED
  BY <1>1, <1>2, <1>3, FS_EmptySet, UdpAssumption DEF UdpInv, RoutesFew

\* Fewer routes keep the limit.
LEMMA FewerRoutes ==
  ASSUME NEW r, NEW q, IsFiniteSet(Live(r)), Cardinality(Live(r)) <= MaxTargets,
         \A t \in Targets : q[t] # None => r[t] # None
  PROVE  IsFiniteSet(Live(q)) /\ Cardinality(Live(q)) <= MaxTargets
<1>1. Live(q) \subseteq Live(r)
  BY DEF Live
<1>2. /\ IsFiniteSet(Live(q)) /\ Cardinality(Live(q)) <= Cardinality(Live(r))
      /\ Cardinality(Live(q)) \in Nat /\ Cardinality(Live(r)) \in Nat
  BY <1>1, FS_Subset, FS_CardinalityType
<1> QED
  BY <1>2, UdpAssumption

\* prune keeps every open worker's route, and adds none.
LEMMA PruneKeeps ==
  ASSUME UdpTypeOK, NEW s \in Sessions
  PROVE  /\ Prune(routes[s]) \in [Targets -> Workers \cup {None}]
         /\ \A t \in Targets : Prune(routes[s])[t] # None =>
              Prune(routes[s])[t] = routes[s][t] /\ Open(routes[s][t])
         /\ \A t \in Targets : routes[s][t] # None /\ Open(routes[s][t]) => Prune(routes[s])[t] = routes[s][t]
  BY DEF UdpTypeOK, Prune

\* A step of a worker that neither opens it nor moves it keeps the routes right.
LEMMA WorkerKeeps ==
  ASSUME UdpInv, NEW w \in Workers, NEW rec,
         rec \in [st : WorkerStates, session : Sessions \cup {None},
                  target : Targets \cup {None}, queue : Seq(Nat), hand : Nat],
         worker' = [worker EXCEPT ![w] = rec],
         rec.session = worker[w].session, rec.target = worker[w].target,
         rec.st \in OpenStates => Open(w),
         UNCHANGED <<client, routes>>
  PROVE  UdpInv'
<1>1. UdpTypeOK'
  BY DEF UdpInv, UdpTypeOK
<1>2. \A v \in Workers : /\ worker'[v].session = worker[v].session
                         /\ worker'[v].target = worker[v].target
                         /\ worker'[v].st \in OpenStates => worker[v].st \in OpenStates
  BY DEF UdpInv, UdpTypeOK, Open
<1>3. RoutesLead'
  BY <1>2 DEF UdpInv, RoutesLead, Open, IsOpen
<1>4. RoutesOwn'
  BY <1>2 DEF UdpInv, RoutesOwn, UdpTypeOK
<1> QED
  BY <1>1, <1>3, <1>4 DEF UdpInv, RoutesFew

\* The steps of a worker up to its end.
LEMMA WorkerStepInv ==
  ASSUME UdpInv, NEW w \in Workers, WorkerStep(w)
  PROVE  UdpInv'
<1> DEFINE W == worker[w]
           Row == [st : WorkerStates, session : Sessions \cup {None},
                   target : Targets \cup {None}, queue : Seq(Nat), hand : Nat]
<1>0. W \in Row
  BY DEF UdpInv, UdpTypeOK
<1>1. ASSUME NEW st \in WorkerStates, NEW q \in Seq(Nat), NEW h \in Nat, st \in OpenStates => Open(w),
             worker' = [worker EXCEPT ![w] = [W EXCEPT !.st = st, !.queue = q, !.hand = h]],
             UNCHANGED <<client, routes>>
      PROVE  UdpInv'
  <2>1. [W EXCEPT !.st = st, !.queue = q, !.hand = h] \in Row
    BY <1>0, <1>1
  <2> QED
    BY <1>0, <1>1, <2>1, WorkerKeeps
<1>2. CASE Established(w)
  <2>1. worker' = [worker EXCEPT ![w] = [W EXCEPT !.st = "ready", !.queue = W.queue, !.hand = W.hand]]
    BY <1>0, <1>2 DEF Established, UdpInv, UdpTypeOK
  <2>2. "ready" \in WorkerStates /\ Open(w) /\ UNCHANGED <<client, routes>>
    BY <1>2 DEF Established, Open, OpenStates, WorkerStates
  <2>3. W.queue \in Seq(Nat) /\ W.hand \in Nat
    BY <1>0
  <2> QED
    BY <1>1, <2>1, <2>2, <2>3
<1>3. CASE TakesSend(w)
  <2>1. worker' = [worker EXCEPT ![w] = [W EXCEPT !.st = "sending", !.queue = Tail(W.queue), !.hand = Head(W.queue)]]
    BY <1>0, <1>3 DEF TakesSend, UdpInv, UdpTypeOK
  <2>2. Tail(W.queue) \in Seq(Nat) /\ Head(W.queue) \in Nat
    BY <1>0, <1>3 DEF TakesSend
  <2>3. "sending" \in WorkerStates /\ Open(w) /\ UNCHANGED <<client, routes>>
    BY <1>3 DEF TakesSend, Open, OpenStates, WorkerStates
  <2> QED
    BY <1>1, <2>1, <2>2, <2>3
<1>4. CASE Sent(w) \/ Replied(w)
  <2>1. worker' = [worker EXCEPT ![w] = [W EXCEPT !.st = "ready", !.queue = W.queue, !.hand = 0]]
    BY <1>0, <1>4 DEF Sent, Replied, UdpInv, UdpTypeOK
  <2>2. "ready" \in WorkerStates /\ Open(w) /\ UNCHANGED <<client, routes>>
    BY <1>4 DEF Sent, Replied, Open, OpenStates, WorkerStates
  <2>3. W.queue \in Seq(Nat)
    BY <1>0
  <2> QED
    BY <1>1, <2>1, <2>2, <2>3
<1>5. ASSUME NEW n \in Sizes, EgressReceives(w, n) PROVE UdpInv'
  <2>1. worker' = [worker EXCEPT ![w] = [W EXCEPT !.st = "replying", !.queue = W.queue, !.hand = n]]
    BY <1>0, <1>5 DEF EgressReceives, UdpInv, UdpTypeOK
  <2>2. "replying" \in WorkerStates /\ Open(w) /\ UNCHANGED <<client, routes>>
    BY <1>5 DEF EgressReceives, Open, OpenStates, WorkerStates
  <2>3. W.queue \in Seq(Nat) /\ n \in Nat
    BY <1>0, UdpAssumption
  <2> QED
    BY <1>1, <2>1, <2>2, <2>3
<1>6. CASE Finish(w)
  <2>1. worker' = [worker EXCEPT ![w] = [W EXCEPT !.st = "closing", !.queue = <<>>, !.hand = 0]]
    BY <1>0, <1>6 DEF Finish, UdpInv, UdpTypeOK
  <2>2. "closing" \in WorkerStates /\ "closing" \notin OpenStates /\ UNCHANGED <<client, routes>>
    BY <1>6 DEF Finish, OpenStates, WorkerStates
  <2>3. <<>> \in Seq(Nat)
    OBVIOUS
  <2> QED
    BY <1>1, <2>1, <2>2, <2>3
<1>7. CASE Gone(w)
  <2>1. /\ UdpTypeOK /\ client' = client /\ worker' = [worker EXCEPT ![w] = Idle]
        /\ routes' = [s \in Sessions |-> [t \in Targets |-> IF routes[s][t] = w THEN None ELSE routes[s][t]]]
        /\ worker[w].st = "closing"
    BY <1>7 DEF Gone, UdpInv
  <2>2. UdpTypeOK'
    BY <2>1 DEF UdpTypeOK, Idle, WorkerStates
  <2>3. RoutesLead'
    BY <2>1, <2>2 DEF UdpInv, RoutesLead, Open, IsOpen, Idle, OpenStates, UdpTypeOK
  <2>4. RoutesOwn'
    BY <2>1, UdpAssumption DEF UdpInv, RoutesOwn, UdpTypeOK
  <2>5. RoutesFew'
    <3>1. ASSUME NEW s \in Sessions PROVE IsFiniteSet(Live(routes'[s])) /\ Cardinality(Live(routes'[s])) <= MaxTargets
      BY <2>1, FewerRoutes DEF UdpInv, RoutesFew
    <3> QED
      BY <3>1 DEF RoutesFew, Live
  <2> QED
    BY <2>2, <2>3, <2>4, <2>5 DEF UdpInv
<1> QED
  BY <1>2, <1>3, <1>4, <1>5, <1>6, <1>7
  DEF WorkerStep, EstablishFails, EgressFails, IdleTimeout, ForwardTimeout, Aborted

\* A datagram of the client: a new route only to a new worker, under the limit.
LEMMA SendInv ==
  ASSUME UdpInv, NEW s \in Sessions, NEW t \in Targets, NEW n \in Sizes, Send(s, t, n),
         NEW from \in Sources \cup Strangers, client' = [client EXCEPT ![s] = from], IsOpen(s)
  PROVE  UdpInv'
<1> DEFINE r == Prune(routes[s])
           pr == [routes EXCEPT ![s] = r]
           Row == [st : WorkerStates, session : Sessions \cup {None},
                   target : Targets \cup {None}, queue : Seq(Nat), hand : Nat]
<1>0. UdpTypeOK /\ n \in Nat
  BY UdpAssumption DEF UdpInv
<1>1. /\ r \in [Targets -> Workers \cup {None}]
      /\ \A u \in Targets : r[u] # None => r[u] = routes[s][u] /\ Open(routes[s][u])
      /\ \A u \in Targets : routes[s][u] # None /\ Open(routes[s][u]) => r[u] = routes[s][u]
  BY <1>0, PruneKeeps
<1>2. \A v \in Workers : Open(v) /\ worker[v].session = s => worker[v].target \in Targets /\ r[worker[v].target] = v
  BY <1>1, UdpAssumption DEF UdpInv, RoutesLead
<1>3. \A u \in Targets : r[u] # None => worker[r[u]].session = s /\ worker[r[u]].target = u
  BY <1>1 DEF UdpInv, RoutesOwn
<1>4. IsFiniteSet(Live(r)) /\ Cardinality(Live(r)) <= MaxTargets /\ Cardinality(Live(r)) \in Nat
  BY <1>1, FewerRoutes, FS_CardinalityType DEF UdpInv, RoutesFew
<1>5. client' \in [Sessions -> Sources \cup Strangers \cup {"closed", None}]
      /\ \A z \in Sessions : z # s => client'[z] = client[z]
  BY <1>0 DEF UdpTypeOK
<1> HIDE DEF r
<1>6. ASSUME routes' = pr, worker' \in [Workers -> Row],
             \A v \in Workers : /\ worker'[v].session = worker[v].session
                                /\ worker'[v].target = worker[v].target
                                /\ worker'[v].st = worker[v].st
      PROVE  UdpInv'
  <2>1. UdpTypeOK'
    BY <1>0, <1>1, <1>5, <1>6 DEF UdpTypeOK
  <2>2. \A v \in Workers : /\ worker'[v].session = worker[v].session
                           /\ worker'[v].target = worker[v].target
                           /\ worker'[v].st = worker[v].st
    BY <1>6
  <2>3. routes'[s] = r /\ \A z \in Sessions : z # s => routes'[z] = routes[z]
    BY <1>0, <1>6 DEF UdpTypeOK
  <2>4. RoutesLead'
    BY <1>2, <1>5, <2>2, <2>3 DEF UdpInv, RoutesLead, Open, IsOpen
  <2>5. RoutesOwn'
    BY <1>0, <1>1, <1>3, <2>2, <2>3 DEF UdpInv, RoutesOwn, UdpTypeOK
  <2>6. RoutesFew'
    BY <1>4, <2>3 DEF UdpInv, RoutesFew, Live
  <2> QED
    BY <2>1, <2>4, <2>5, <2>6 DEF UdpInv
<1>7. CASE Drop(pr)
  BY <1>0, <1>6, <1>7 DEF Drop, UdpTypeOK
<1>8. CASE r[t] # None /\ Enqueue(pr, r[t], n)
  <2>1. r[t] \in Workers
    BY <1>1, <1>8
  <2>2. worker' = [worker EXCEPT ![r[t]].queue = Append(@, n)] /\ routes' = pr
    BY <1>8 DEF Enqueue
  <2>3. Append(worker[r[t]].queue, n) \in Seq(Nat)
    BY <1>0, <2>1 DEF UdpTypeOK
  <2>4. worker' \in [Workers -> Row]
    BY <1>0, <2>1, <2>2, <2>3 DEF UdpTypeOK
  <2>5. \A v \in Workers : /\ worker'[v].session = worker[v].session
                           /\ worker'[v].target = worker[v].target
                           /\ worker'[v].st = worker[v].st
    BY <1>0, <2>1, <2>2 DEF UdpTypeOK
  <2> QED
    BY <1>6, <2>2, <2>4, <2>5
<1>9. CASE r[t] = None /\ ~AtLimit(r) /\ SpawnWorker(s, r, t, n)
  <2>1. PICK w \in Workers :
          /\ worker[w] = Idle
          /\ worker' = [worker EXCEPT ![w] = [st |-> "establishing", session |-> s, target |-> t,
                                              queue |-> <<n>>, hand |-> 0]]
          /\ routes' = [routes EXCEPT ![s] = [r EXCEPT ![t] = w]]
    BY <1>9 DEF SpawnWorker
  <2>2. /\ worker'[w].session = s /\ worker'[w].target = t
        /\ \A v \in Workers : v # w => worker'[v] = worker[v]
    BY <1>0, <2>1 DEF UdpTypeOK
  <2>3. /\ routes'[s][t] = w /\ \A u \in Targets : u # t => routes'[s][u] = r[u]
        /\ \A z \in Sessions : z # s => routes'[z] = routes[z]
    BY <1>0, <1>1, <2>1 DEF UdpTypeOK
  <2>4. UdpTypeOK'
    <3>1. <<n>> \in Seq(Nat) /\ "establishing" \in WorkerStates
      BY <1>0 DEF WorkerStates, OpenStates
    <3>2. worker' \in [Workers -> Row]
      BY <1>0, <2>1, <3>1 DEF UdpTypeOK
    <3> QED
      BY <1>0, <1>1, <1>5, <2>1, <3>2 DEF UdpTypeOK
  <2>5. \A z \in Sessions, u \in Targets : routes[z][u] # w
    BY <2>1, UdpAssumption DEF UdpInv, RoutesOwn, Idle
  <2>6. RoutesLead'
    BY <1>2, <1>5, <1>9, <2>2, <2>3, UdpAssumption DEF UdpInv, RoutesLead, Open, IsOpen
  <2>7. RoutesOwn'
    <3> SUFFICES ASSUME NEW z \in Sessions, NEW u \in Targets, routes'[z][u] # None
                 PROVE  worker'[routes'[z][u]].session = z /\ worker'[routes'[z][u]].target = u
      BY DEF RoutesOwn
    <3>1. CASE z = s /\ u = t
      BY <2>2, <2>3, <3>1
    <3>2. CASE z = s /\ u # t
      <4>1. r[u] # None /\ r[u] = routes[s][u] /\ r[u] \in Workers /\ r[u] # w
        BY <1>1, <2>3, <2>5, <3>2
      <4> QED
        BY <1>3, <2>2, <2>3, <3>2, <4>1
    <3>3. CASE z # s
      <4>1. routes'[z][u] = routes[z][u] /\ routes[z][u] \in Workers /\ routes[z][u] # w
        BY <1>0, <2>3, <2>5, <3>3 DEF UdpTypeOK
      <4> QED
        BY <2>2, <4>1 DEF UdpInv, RoutesOwn
    <3> QED
      BY <3>1, <3>2, <3>3
  <2>8. RoutesFew'
    <3>1. Live(routes'[s]) = Live(r) \cup {t}
      BY <2>1, <2>3, UdpAssumption DEF Live
    <3>2. t \notin Live(r) /\ Cardinality(Live(r)) < MaxTargets
      BY <1>4, <1>9, UdpAssumption DEF Live, AtLimit
    <3>3. IsFiniteSet(Live(routes'[s])) /\ Cardinality(Live(routes'[s])) = Cardinality(Live(r)) + 1
      BY <1>4, <3>1, <3>2, FS_AddElement
    <3>4. Cardinality(Live(routes'[s])) <= MaxTargets
      BY <1>4, <3>2, <3>3, UdpAssumption
    <3>5. ASSUME NEW z \in Sessions, z # s
          PROVE  IsFiniteSet(Live(routes'[z])) /\ Cardinality(Live(routes'[z])) <= MaxTargets
      BY <2>3, <3>5 DEF UdpInv, RoutesFew
    <3>6. \A z \in Sessions : Live(routes'[z]) = {u \in Targets : routes'[z][u] # None}
      BY DEF Live
    <3> QED
      BY <3>3, <3>4, <3>5, <3>6 DEF RoutesFew, Live
  <2> QED
    BY <2>4, <2>6, <2>7, <2>8 DEF UdpInv
<1> QED
  BY <1>7, <1>8, <1>9 DEF Send, r

LEMMA UdpStepInv ==
  ASSUME UdpInv, [UNext]_uvars
  PROVE  UdpInv'
<1>1. CASE UNCHANGED uvars
  BY <1>1 DEF uvars, UdpInv, UdpTypeOK, RoutesLead, RoutesOwn, RoutesFew, Open, IsOpen, Live
<1>2. ASSUME NEW s \in Sessions, Associate(s) PROVE UdpInv'
  <2>1. UdpTypeOK' /\ \A z \in Sessions : z # s => client'[z] = client[z]
    BY <1>2 DEF Associate, UdpInv, UdpTypeOK
  <2>2. RoutesLead'
    BY <1>2, <2>1 DEF Associate, UdpInv, RoutesLead, Open, IsOpen
  <2> QED
    BY <1>2, <2>1, <2>2 DEF Associate, UdpInv, RoutesOwn, RoutesFew, Live
<1>3. ASSUME NEW s \in Sessions, TakesReply(s) \/ Delivered(s) PROVE UdpInv'
  <2>1. UNCHANGED <<client, routes, worker>>
    BY <1>3 DEF TakesReply, Delivered
  <2> QED
    BY <2>1 DEF UdpInv, UdpTypeOK, RoutesLead, RoutesOwn, RoutesFew, Open, IsOpen, Live
<1>4. ASSUME NEW s \in Sessions, Close(s) PROVE UdpInv'
  <2>1. /\ client' = [client EXCEPT ![s] = "closed"] /\ worker' = worker
        /\ routes' = [routes EXCEPT ![s] = [t \in Targets |-> None]] /\ UdpTypeOK
    BY <1>4 DEF Close, UdpInv
  <2>2. UdpTypeOK'
    BY <2>1 DEF UdpTypeOK
  <2>3. /\ \A t \in Targets : routes'[s][t] = None
        /\ client'[s] = "closed"
        /\ \A z \in Sessions : z # s => routes'[z] = routes[z] /\ client'[z] = client[z]
    BY <2>1 DEF UdpTypeOK
  <2>4. RoutesLead' /\ RoutesOwn'
    BY <2>1, <2>3 DEF UdpInv, RoutesLead, RoutesOwn, Open, IsOpen
  <2>5. ASSUME NEW z \in Sessions
        PROVE  IsFiniteSet(Live(routes'[z])) /\ Cardinality(Live(routes'[z])) <= MaxTargets
    BY <2>3, FewerRoutes DEF UdpInv, RoutesFew
  <2>6. RoutesFew'
    BY <2>5 DEF RoutesFew, Live
  <2> QED
    BY <2>2, <2>4, <2>6 DEF UdpInv
<1>5. ASSUME NEW s \in Sessions, NEW from \in Sources \cup Strangers, NEW t \in Targets, NEW n \in Sizes,
             RelayReceives(s, from, t, n)
      PROVE  UdpInv'
  BY <1>5, SendInv DEF RelayReceives
<1>6. ASSUME NEW w \in Workers, WorkerStep(w) PROVE UdpInv'
  BY <1>6, WorkerStepInv
<1> QED
  BY <1>1, <1>2, <1>3, <1>4, <1>5, <1>6 DEF UNext, SessionStep

\* A session's open workers are where its routes lead, so there are no more of
\* them than routes.
LEMMA MineAreFew ==
  ASSUME UdpInv, NEW s \in Sessions, IsOpen(s)
  PROVE  Cardinality(Mine(s)) <= MaxTargets
<1> DEFINE L == Live(routes[s])
           image == {routes[s][t] : t \in L}
<1>1. IsFiniteSet(L) /\ Cardinality(L) <= MaxTargets
  BY DEF UdpInv, RoutesFew
<1>2. IsFiniteSet(image) /\ Cardinality(image) <= Cardinality(L)
  <2>1. [t \in L |-> routes[s][t]] \in Surjection(L, image)
    BY DEF Surjection
  <2> QED
    BY <1>1, <2>1, FS_Surjection
<1>3. Mine(s) \subseteq image
  BY UdpAssumption DEF UdpInv, RoutesLead, Mine, Live
<1>4. IsFiniteSet(Mine(s)) /\ Cardinality(Mine(s)) <= Cardinality(image)
  BY <1>2, <1>3, FS_Subset
<1> QED
  BY <1>1, <1>2, <1>4, FS_CardinalityType, UdpAssumption

\* For any number of sessions, targets and workers: an open worker of an open
\* session is the only one of its target, its route is the session's own, and
\* the limit on routes is a limit on workers.
THEOREM UdpRoutesSound == USpec => []RoutesSound
<1>1. UdpInv /\ [UNext]_uvars => UdpInv'
  BY UdpStepInv
<1>2. UdpInv => RoutesSound
  BY MineAreFew DEF UdpInv, RoutesSound, RoutesLead, RoutesOwn, Mine, Live
<1> QED
  BY <1>1, <1>2, UdpInitInv, PTL DEF USpec
=============================================================================
