----------------------------- MODULE MCOutlets -----------------------------
(* The outlets other than WireGuard: the shared connection of the MASQUE   *)
(* outbound, the answer to a CONNECT on it and the relay of one stream;    *)
(* and the region path, a stream in the Psiphon SSH session and the MASQUE *)
(* tunnel over HTTP/2 that runs in one.  One of them is chosen and moves;  *)
(* the others stay as they started, so that the state space is the sum of  *)
(* theirs.                                                                 *)
EXTENDS MasqueLink, H3Relay, PsiphonStream, H2Device, Qpack

\* Integer prefixes, static table and Huffman code in the code's proportions:
\* some indices need a continuation byte, EOS is all ones and the longest.
PrefixBits == [count |-> 3, base |-> 2, static |-> 2, dynamic |-> 2, ref |-> 1,
               refvalue |-> 2, name |-> 1, value |-> 2, echo |-> 2]
StaticStatus == (1 :> 200) @@ (2 :> 404) @@ (4 :> 100)
CodeWords == << <<0>>, <<1, 0>>, <<1, 1, 0>>, <<1, 1, 1, 0>>, <<1, 1, 1, 1>> >>

VARIABLE moves

Init ==
  /\ moves \in {"link", "relay", "channel", "device", "answer"}
  /\ LInit /\ RInit /\ SInit /\ HInit /\ QInit
  /\ moves # "link" => link = CHOOSE l \in Links : TRUE
  /\ moves # "answer" => at = "frame"

Next ==
  /\ UNCHANGED moves
  /\ \/ moves = "link" /\ LNext /\ UNCHANGED <<relayVars, psiVars, h2Vars, qpackVars>>
     \/ moves = "relay" /\ RNext /\ UNCHANGED <<vars, psiVars, h2Vars, qpackVars>>
     \/ moves = "channel" /\ SNext /\ UNCHANGED <<vars, relayVars, h2Vars, qpackVars>>
     \/ moves = "answer" /\ QNext /\ UNCHANGED <<vars, relayVars, psiVars, h2Vars>>
     \/ moves = "device" /\ HNext /\ UNCHANGED <<vars, relayVars, psiVars, qpackVars>>

Link(A) == moves = "link" /\ A /\ UNCHANGED <<moves, relayVars, psiVars, h2Vars, qpackVars>>
Relay(A) == moves = "relay" /\ A /\ UNCHANGED <<moves, vars, psiVars, h2Vars, qpackVars>>
Device(A) == moves = "device" /\ A /\ UNCHANGED <<moves, vars, relayVars, psiVars, qpackVars>>
allVars == <<moves, vars, relayVars, psiVars, h2Vars, qpackVars>>

\* LFairness, RFairness and HFairness, each for the component that moves.
Spec ==
  /\ Init /\ [][Next]_allVars
  /\ \A c \in Callers :
       /\ WF_allVars(Link(OpenFails(c) \/ ReopenFails(c))) /\ WF_allVars(Link(Locks(c)))
       /\ WF_allVars(Link(\E a \in Addrs : DialFails(c, a))) /\ WF_allVars(Link(ControlFails(c)))
       /\ WF_allVars(Link(Reclone(c))) /\ WF_allVars(Link(Exchanged(c)))
  /\ WF_allVars(Relay(Downloads)) /\ WF_allVars(Relay(Buffers)) /\ WF_allVars(Relay(Aborted))
  /\ WF_allVars(Relay(DownReads)) /\ WF_allVars(Relay(DownShut)) /\ WF_allVars(Relay(DrainTimeout))
  /\ WF_allVars(Device(DeviceFails)) /\ WF_allVars(Device(ParsesOne)) /\ WF_allVars(Device(ParsesNoMore))

\* Both relayed streams implement ByteStream: a transfer that was cut never looks
\* complete, and a half is finished only when its writer closed it and all of it
\* has been passed on (masque/mod.rs:325-393, psiphon/mod.rs:224-330).
StreamsHonest == Promise /\ Honest
=============================================================================
