----------------------------- MODULE Handshake -----------------------------
(***************************************************************************)
(* One client connection from the first byte to its relay: the dispatch of *)
(* mixed.rs, the SOCKS4 and SOCKS5 requests (socks4.rs, socks5.rs) and the *)
(* failing stand-in for an outlet (Unavailable).  HTTP has a module of its *)
(* own, HttpProxy.                                                         *)
(*                                                                         *)
(* A request is read field by field; each field is what the code tells     *)
(* apart.  A reply is on the wire when its write returns, and the client   *)
(* may stop reading: a write may take for ever.  Until the request has     *)
(* been read one deadline runs over all of this, reads and writes.         *)
(***************************************************************************)
EXTENDS Naturals, Sequences

VARIABLES
  hs,        \* where the handler is
  proto,     \* the protocol the first byte chose
  exit,      \* the outlet: "ip" carries UDP, "stream" does not, "none" is Unavailable
  saying,    \* the reply being written, and where its write leads
  wire,      \* the replies the client got
  asked,     \* the request once it has been read, when the deadline ends
  owes,      \* the verdict on the request: "none", "failure", "success"
  remote,    \* the stream to the target: "none", "open", "dropped"
  ending     \* why the handler returned

hsVars == <<hs, proto, exit, saying, wire, asked, owes, remote, ending>>

Reading == {"peek", "head", "methods", "request", "target", "skip",
            "command", "address", "userid", "userid4a", "domain"}
Nothing == [msg |-> "none", then |-> "none"]
Failures == [socks5 |-> {"unsupported", "address type", "unreachable"}, socks4 |-> {"rejected"}]
Success == [socks5 |-> "succeeded", socks4 |-> "granted"]

HInit ==
  /\ hs = "peek" /\ proto = "none" /\ exit \in {"ip", "stream", "none"}
  /\ saying = Nothing /\ wire = <<>> /\ asked = "none" /\ owes = "none" /\ remote = "none" /\ ending = "none"

Goes(to) ==
  /\ hs' = to
  /\ asked' = CASE to = "dial" -> "connect" [] to = "associate" -> "udp" [] OTHER -> asked
  /\ UNCHANGED <<proto, exit, saying, wire, owes, remote, ending>>

\* The handler returns, or its future is dropped; the stream goes with it.
Ends(why) ==
  /\ hs' = "closed" /\ ending' = why /\ saying' = Nothing
  /\ remote' = IF remote = "open" THEN "dropped" ELSE remote
  /\ UNCHANGED <<proto, exit, wire, asked, owes>>

\* Start writing a reply after a verdict on the request.
Says(msg, then, verdict) ==
  /\ hs' = "write" /\ saying' = [msg |-> msg, then |-> then]
  /\ owes' = verdict
  /\ UNCHANGED <<proto, exit, wire, asked, ending>>

Refuses(msg) == Says(msg, "return", "failure") /\ UNCHANGED remote

-----------------------------------------------------------------------------
(* dispatch                                                                *)

Peek ==
  /\ hs = "peek"
  /\ \E p \in {"socks5", "socks4", "http"} :
       /\ proto' = p
       /\ hs' = CASE p = "socks5" -> "head" [] p = "socks4" -> "command" [] p = "http" -> "http"
       /\ asked' = IF p = "http" THEN "http" ELSE "none"
  /\ UNCHANGED <<exit, saying, wire, owes, remote, ending>>

-----------------------------------------------------------------------------
(* socks5::read_request                                                    *)

ReadHead == hs = "head" /\ Goes("methods")

ReadMethods ==
  /\ hs = "methods"
  /\ \/ Says("no auth", "request", "none") /\ UNCHANGED remote
     \/ Says("no method", "return", "none") /\ UNCHANGED remote

ReadRequest ==
  /\ hs = "request"
  /\ \E version \in {5, 4}, cmd \in {"connect", "udp", "other"}, known \in BOOLEAN :
       IF version # 5 THEN Ends("protocol")
       ELSE IF cmd = "other" THEN Refuses("unsupported")
       ELSE IF ~known THEN Refuses("address type")
       ELSE Goes(IF cmd = "udp" THEN "skip" ELSE "target")

ReadTarget == hs = "target" /\ Goes("dial")

\* The connection ends inside the address, or the domain is not UTF-8.
TargetBroken == hs = "target" /\ Refuses("unreachable")

SkipTarget == hs = "skip" /\ Goes("associate")

-----------------------------------------------------------------------------
(* socks4::handle_client, up to the connect                                *)

ReadCommand ==
  /\ hs = "command"
  /\ Goes("address") \/ Refuses("rejected")

\* 0.0.0.1 announces a domain after the user id.
ReadAddress == hs = "address" /\ (Goes("userid") \/ Goes("userid4a"))

\* read_cstring: a string over its limit ends the connection without a reply.
ReadString ==
  \/ hs \in {"userid", "domain"} /\ Goes("dial")
  \/ hs = "userid4a" /\ Goes("domain")
  \/ hs \in {"userid", "userid4a", "domain"} /\ Ends("protocol")

-----------------------------------------------------------------------------
(* writes, the deadline and the end of the client                          *)

\* write_all has returned.
Written ==
  /\ hs = "write"
  /\ wire' = Append(wire, saying.msg)
  /\ hs' = IF saying.then = "return" THEN "closed" ELSE saying.then
  /\ ending' = IF saying.then = "return" THEN "answered" ELSE ending
  /\ saying' = Nothing
  /\ UNCHANGED <<proto, exit, asked, owes, remote>>

\* The client has gone: a read ends early, or a write fails.  Inside a target
\* read_target's error is answered first (TargetBroken).
ClientGone == hs \in (Reading \ {"target"}) \cup {"write"} /\ Ends("gone")

InRequest == asked = "none" /\ hs # "closed"

DeadlinePasses == InRequest /\ Ends("late")

\* The listener drops the task: its outlet changed.
Cut == hs # "closed" /\ Ends("cut")

-----------------------------------------------------------------------------
(* the verdict: relay::connect, handle_connect, handle_udp_associate       *)

Rep(verdict) ==
  CASE verdict = "success" -> Success[proto]
    [] proto = "socks5" -> "unreachable"
    [] proto = "socks4" -> "rejected"

DialOk ==
  /\ hs = "dial" /\ exit # "none"
  /\ remote' = "open"
  /\ Says(Rep("success"), "relay", "success")

DialErr == hs = "dial" /\ Refuses(Rep("failure"))

\* supports_udp is asked before the client is told anything.
BadUdpRequest == hs = "associate" /\ Says("succeeded", "udp", "success") /\ UNCHANGED remote
UdpRequest ==
  /\ hs = "associate"
  /\ IF exit # "ip" THEN Refuses("unsupported")
     ELSE Says("succeeded", "udp", "success") /\ UNCHANGED remote

\* The relay socket cannot be bound.
BindFails == hs = "associate" /\ exit = "ip" /\ Ends("no socket")

\* The relay or the association is over.
RelayEnds == hs \in {"relay", "udp", "http"} /\ Ends("served")

HNext ==
  \/ Peek \/ ReadHead \/ ReadMethods \/ ReadRequest \/ ReadTarget \/ TargetBroken \/ SkipTarget
  \/ ReadCommand \/ ReadAddress \/ ReadString
  \/ Written \/ ClientGone \/ DeadlinePasses \/ Cut
  \/ DialOk \/ DialErr \/ UdpRequest \/ BindFails \/ RelayEnds

\* Only the deadline is sure to fire: the client may send and take bytes as
\* slowly as it likes.
HFairness == WF_hsVars(DeadlinePasses)

-----------------------------------------------------------------------------

\* What the client is told is what happened.  It gets at most one verdict, in
\* its own protocol and after the SOCKS5 method; success only with the stream
\* to the target open or on an outlet that carries UDP ("replying success
\* first and finding out at the first datagram" is what supports_udp is for,
\* outbound/mod.rs:85); bytes are relayed only after that reply; and a handler
\* that refuses a request and is neither cut, late nor left by its client does
\* not close before it has said so (socks5.rs:111-129, 146-151, 390-396,
\* socks4.rs:57-60, 83-89).
Verdicts == {i \in DOMAIN wire : wire[i] \notin {"no auth", "no method"}}
AnsweredInKind ==
  /\ \A i \in DOMAIN wire : i = Len(wire) \/ wire[i] = "no auth"
  /\ \A i \in Verdicts :
       /\ wire[i] \in Failures[proto] \cup {Success[proto]}
       /\ i = IF proto = "socks5" THEN 2 ELSE 1
       /\ wire[i] = Success[proto] =>
            /\ asked = "connect" => remote # "none" /\ exit # "none"
            /\ asked = "udp" => exit = "ip"
  /\ hs \in {"relay", "udp"} => Verdicts # {} /\ owes = "success"
  /\ hs = "relay" => remote = "open"
  /\ hs = "closed" /\ owes = "failure" /\ ending \notin {"late", "gone", "cut"}
       => \E i \in Verdicts : wire[i] \in Failures[proto]
  /\ hs = "closed" => remote # "open"

\* A client cannot hold a slot with an unfinished request, wherever it stops
\* sending or reading: the deadline of dispatch spans the whole request
\* (mixed.rs:234, socks5.rs:77, socks4.rs:53).
RequestEnds == asked = "none" ~> (asked # "none" \/ hs = "closed")
=============================================================================
