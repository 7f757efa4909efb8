----------------------------- MODULE MCRequests -----------------------------
(* A client's request on its way to the target: the handshake, the HTTP    *)
(* proxy, the UDP association, and the dial over an IP tunnel.  One of     *)
(* them is chosen and moves; the others stay as they started, so that the  *)
(* state space is the sum of theirs.                                       *)
EXTENDS Handshake, HttpProxy, UdpAssociation, IpDial

VARIABLE moves

Init ==
  /\ moves \in {"handshake", "http", "udp", "dial"}
  /\ HInit /\ PInit /\ UInit /\ DInit
  /\ moves # "handshake" => exit = "ip"
  /\ moves # "dial" => wanted = "domain"

Next ==
  /\ UNCHANGED moves
  /\ \/ moves = "handshake" /\ HNext /\ UNCHANGED <<httpVars, uvars, dialVars>>
     \/ moves = "http" /\ PNext /\ UNCHANGED <<hsVars, uvars, dialVars>>
     \/ moves = "udp" /\ UNext /\ UNCHANGED <<hsVars, httpVars, dialVars>>
     \/ moves = "dial" /\ DNext /\ UNCHANGED <<hsVars, httpVars, uvars>>

vars == <<moves, hsVars, httpVars, uvars, dialVars>>

\* HFairness, PFairness and UFairness, each for the component that moves.
Spec ==
  /\ Init /\ [][Next]_vars
  /\ WF_vars(moves = "handshake" /\ DeadlinePasses /\ UNCHANGED <<moves, httpVars, uvars, dialVars>>)
  /\ WF_vars(moves = "http" /\ HeadTimeout /\ UNCHANGED <<moves, hsVars, uvars, dialVars>>)
  /\ \A w \in Workers : LET Alone(A) == moves = "udp" /\ A /\ UNCHANGED <<moves, hsVars, httpVars, dialVars>>
       IN /\ WF_vars(Alone(EstablishFails(w))) /\ WF_vars(Alone(ForwardTimeout(w)))
          /\ WF_vars(Alone(Aborted(w))) /\ WF_vars(Alone(Gone(w)))

\* What a client is told before bytes flow, in all three protocols.
Answered == AnsweredInKind /\ TunnelIsLast

=============================================================================
