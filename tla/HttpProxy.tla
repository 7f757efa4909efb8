----------------------------- MODULE HttpProxy -----------------------------
(***************************************************************************)
(* http_proxy.rs: one client connection with its requests, served by hyper *)
(* in turn.  CONNECT and an accepted Upgrade leave a tunnel in a slot of   *)
(* one place, which the connection runs after hyper has let go of it; any  *)
(* other request is passed to its target over a connection of its own,     *)
(* which a spawned task drives and the response body owns.                 *)
(*                                                                         *)
(* hyper is modelled by how the code uses it: it reads a head, calls the   *)
(* service, writes the response and its body, and ends after an upgrade.   *)
(* A header field is one of: "connection", which names the field "named";  *)
(* "named" itself; "upgrade"; "own", any end-to-end field.                 *)
(***************************************************************************)
EXTENDS Naturals, Sequences

CONSTANT MaxRequests   \* bound: requests on the connection

ASSUME HttpAssumption == MaxRequests \in Nat \ {0}

VARIABLES
  hp,         \* where the connection is
  nreq,       \* requests so far; the last one is being handled
  method,     \* of that request: "CONNECT", "other", or "bad" (no valid target)
  upgrades,   \* it asks for an Upgrade
  slot,       \* the request whose tunnel waits in, or was taken from, the slot
  stream,     \* per request: the stream to its target
  owner,      \* per request: who drops that stream
  driven,     \* per request: the stream is inside the driver task
  answer,     \* the status of the response being written
  answers,    \* per request: the status the client got
  passed      \* header fields of the request's last message passed on, before and after

httpVars == <<hp, nreq, method, upgrades, slot, stream, owner, driven, answer, answers, passed>>
requestVars == <<nreq, method, upgrades>>
streamVars == <<stream, owner, driven>>

Requests == 1..MaxRequests
Fields == {"connection", "named", "upgrade", "own"}
NoMessage == [from |-> {}, to |-> {}]
Started == {"dial", "shake", "response", "answer", "body"}   \* hyper is serving a request

PInit ==
  /\ hp = "head" /\ nreq = 0 /\ method = "other" /\ upgrades = FALSE /\ slot = 0
  /\ stream = [i \in Requests |-> "none"] /\ owner = [i \in Requests |-> "none"]
  /\ driven = [i \in Requests |-> FALSE]
  /\ answer = 0 /\ answers = <<>> /\ passed = NoMessage

\* A stream whose owner is dropped: closed at once, or with the task that the
\* Driver aborts.
BadReleased(i) == IF driven[i] THEN "open" ELSE "closed"
Released(i) == "closed"

Drops(who) ==
  /\ stream' = [i \in Requests |-> IF stream[i] = "open" /\ owner[i] \in who THEN Released(i)
                                   ELSE stream[i]]
  /\ owner' = [i \in Requests |-> IF owner[i] \in who THEN "none" ELSE owner[i]]
  /\ UNCHANGED driven

Gives(i, who) == owner' = [owner EXCEPT ![i] = who] /\ UNCHANGED <<stream, driven>>

Responds(status) == hp' = "answer" /\ answer' = status

\* The future of the connection ends or is dropped, with all it owns.
Closes == hp' = "closed" /\ Drops({"service", "body", "slot"}) /\ UNCHANGED <<requestVars, slot, answer, answers, passed>>

-----------------------------------------------------------------------------
(* handle_client                                                           *)

ReadsHead(m, up) ==
  /\ hp = "head" /\ nreq < MaxRequests
  /\ nreq' = nreq + 1 /\ method' = m /\ upgrades' = up
  /\ IF m = "bad" THEN Responds(400) ELSE hp' = "dial" /\ UNCHANGED answer
  /\ passed' = NoMessage
  /\ UNCHANGED <<slot, streamVars, answers>>

\* header_read_timeout, what was left of the deadline: for every request.
HeadTimeout == hp = "head" /\ Closes

\* The client leaves (hyper returns, with or without an error), or the
\* listener drops the task.
Leaves == hp # "closed" /\ Closes

\* The response has been written.  A tunnel's response is the last thing hyper
\* does; an error response or the end of a body lets the next request in.
Upgraded == answer = 101 \/ (method = "CONNECT" /\ answer = 200)

Answers ==
  /\ hp = "answer"
  /\ answers' = Append(answers, answer)
  /\ hp' = IF Upgraded THEN "upgraded"
           ELSE IF \E i \in Requests : owner[i] = "body" THEN "body" ELSE "head"
  /\ UNCHANGED <<requestVars, slot, streamVars, answer, passed>>

\* The last frame of the body: it is dropped, and the driver with it.
BodyEnds ==
  /\ hp = "body" /\ hp' = "head"
  /\ Drops({"body"})
  /\ UNCHANGED <<requestVars, slot, answer, answers, passed>>

\* tunnel_rx.try_recv
RunsTunnel ==
  /\ hp = "upgraded"
  /\ IF slot # 0 THEN hp' = "tunnel" /\ UNCHANGED streamVars
     ELSE hp' = "closed" /\ Drops({"service", "body", "slot"})
  /\ UNCHANGED <<requestVars, slot, answer, answers, passed>>

-----------------------------------------------------------------------------
(* forward                                                                 *)

\* An error of forward: what it holds is dropped, the client gets a 502.
Fails == Drops({"service"}) /\ Responds(502) /\ UNCHANGED <<requestVars, slot, answers, passed>>

TargetFails == hp = "dial" /\ Fails

\* try_send on the slot: it fails when a tunnel is there already.
PutsTunnel(status) ==
  IF slot = 0 THEN slot' = nreq /\ Gives(nreq, "slot") /\ Responds(status)
  ELSE UNCHANGED slot /\ Drops({"service"}) /\ Responds(502)

Dialled ==
  /\ hp = "dial" /\ stream[nreq] = "none"
  /\ stream' = [stream EXCEPT ![nreq] = "open"]
  /\ owner' = [owner EXCEPT ![nreq] = "service"]
  /\ hp' = IF method = "CONNECT" THEN "connected" ELSE "shake"
  /\ UNCHANGED <<requestVars, slot, driven, answer, answers, passed>>

Connected ==
  /\ hp = "connected"
  /\ PutsTunnel(200)
  /\ UNCHANGED <<requestVars, answers, passed>>

\* strip_hop_headers: the fields "connection" names, then the hop-by-hop ones.
StripHop(fields, up) ==
  LET kept == fields \ (IF "connection" \in fields THEN {"named"} ELSE {})
  IN  (kept \ {"connection", "upgrade"}) \cup (IF up THEN {"upgrade", "connection"} ELSE {})

Passes(fields, up) == passed' = [from |-> fields, to |-> StripHop(fields, up)]

\* The client's handshake with the target; the driver task is spawned.
Shakes(fields) ==
  /\ hp = "shake" /\ (("upgrade" \in fields) <=> upgrades)
  /\ hp' = "response"
  /\ driven' = [driven EXCEPT ![nreq] = TRUE]
  /\ Passes(fields, upgrades)
  /\ UNCHANGED <<requestVars, slot, stream, owner, answer, answers>>

ShakeFails == hp = "shake" /\ Fails

\* send_request fails, or a 101 comes that nobody asked for.
NoResponse == hp = "response" /\ Fails

MaySwitch == upgrades

Switches(fields) ==
  /\ hp = "response" /\ MaySwitch
  /\ Passes(fields, "upgrade" \in fields)
  /\ PutsTunnel(101)
  /\ UNCHANGED <<requestVars, answers>>

GetsResponse(fields) ==
  /\ hp = "response"
  /\ Passes(fields, FALSE)
  /\ Gives(nreq, "body")
  /\ Responds(200)
  /\ UNCHANGED <<requestVars, slot, answers>>

PNext ==
  \/ \E m \in {"CONNECT", "other", "bad"}, up \in BOOLEAN : ReadsHead(m, up)
  \/ HeadTimeout \/ Leaves \/ Answers \/ BodyEnds \/ RunsTunnel
  \/ TargetFails \/ Dialled \/ Connected \/ ShakeFails \/ NoResponse
  \/ \E fields \in SUBSET Fields : Shakes(fields) \/ Switches(fields) \/ GetsResponse(fields)

HttpSpec == PInit /\ [][PNext]_httpVars
PFairness == WF_httpVars(HeadTimeout)

-----------------------------------------------------------------------------

\* "A client that breaks off leaves no connection behind" (http_proxy.rs:241):
\* every open stream to a target belongs to the request being handled, to the
\* body being sent, or to the connection's only tunnel; a closed connection
\* owns none.  The driver task holds the stream by itself, so this rests on
\* the Driver's abort at every place where one is dropped.
StreamsOwned ==
  \A i \in Requests : stream[i] = "open" =>
    /\ hp # "closed"
    /\ \/ owner[i] = "service" /\ i = nreq /\ hp \in Started \cup {"connected"}
       \/ owner[i] = "body" /\ i = nreq /\ hp \in {"answer", "body"}
       \/ owner[i] = "slot" /\ i = slot

\* The connection answers its requests one by one and becomes a tunnel at most
\* once, for its last request, after the client got that request's 200 or 101;
\* 101 only if it had asked (http_proxy.rs:36, 170, 206); and nothing the
\* Connection header names is passed on (http_proxy.rs:123).
TunnelIsLast ==
  /\ Len(answers) \in {nreq, nreq - 1}
  /\ slot # 0 => slot = nreq /\ (hp = "closed" \/ Upgraded)
  /\ hp \in {"upgraded", "tunnel"} =>
       /\ slot = nreq /\ Len(answers) = nreq /\ stream[slot] = "open"
       /\ answers[nreq] = IF method = "CONNECT" THEN 200 ELSE 101
       /\ method # "CONNECT" => upgrades
  /\ "named" \in passed.to => "connection" \notin passed.from
  /\ "upgrade" \in passed.to => "upgrade" \in passed.from /\ upgrades

\* An idle or stalled client is let go between and inside request heads.
HeadEnds == hp = "head" ~> hp # "head"
=============================================================================
