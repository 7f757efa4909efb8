------------------------------ MODULE H3Relay ------------------------------
(* One relayed connection over MASQUE: relay.rs copies between the client and  *)
(* a FramedStream, whose pump task (outbound/masque/mod.rs) puts H3 DATA       *)
(* frames on a QUIC stream and takes them off.  A duplex pipe of bounded size  *)
(* joins the two, one buffer for each direction.                               *)
EXTENDS Naturals, Sequences

CONSTANTS MaxFrames,      \* bound: frames the edge sends
          MaxLen,         \* bound: units of payload in a frame
          MaxUp,          \* bound: units the client uploads
          Buf             \* capacity of each direction of the duplex (RELAY_BUF)

ASSUME RelayAssumption == MaxFrames \in Nat /\ MaxLen \in Nat /\ MaxUp \in Nat /\ Buf \in Nat \ {0}

VARIABLES wire,           \* what the edge sent and the pump has not read, in order
          frames,         \* frames the edge has begun
          owed,           \* units the edge still owes in its current frame
          data,           \* whether that frame is a DATA frame
          sent,           \* units of DATA the edge has sent
          ending,         \* how the edge ended the stream
          left,           \* drain_download: units left in the frame being read
          isData,         \* drain_download: whether it is a DATA frame
          dl,             \* drain_download: reading, or writing to the duplex
          ul,             \* drain_upload: reading, sending, or finished
          task,           \* the pump's JoinHandle: running, its result, or aborted
          down, up,       \* units in the two buffers of the duplex
          upEof,          \* the relay has shut its write side down
          edgeGot,        \* units of upload the edge has received
          fin,            \* send.finish() has been called
          client,         \* units the client has handed over
          dn, uc,         \* the two copies of copy_with_drain
          relay,          \* copy_with_drain: both, drain, or its result
          got             \* units the client has received

edge == <<wire, frames, owed, data, sent, ending>>
pump == <<left, isData, dl, ul, task>>
duplex == <<down, up, upEof>>
copies == <<client, dn, uc, relay, got>>
relayVars == <<edge, pump, duplex, edgeGot, fin, copies>>

Over == {"ok", "error"}

RInit ==
  /\ wire = <<>> /\ frames = 0 /\ owed = 0 /\ data = FALSE /\ sent = 0 /\ ending = "open"
  /\ left = 0 /\ isData = FALSE /\ dl = "read" /\ ul = "read" /\ task = "run"
  /\ down = 0 /\ up = 0 /\ upEof = FALSE /\ edgeGot = 0 /\ fin = FALSE
  /\ client = 0 /\ dn = "read" /\ uc = "read" /\ relay = "both" /\ got = 0

-----------------------------------------------------------------------------
\* The edge.
EdgeHead(d, n) ==
  /\ ending = "open" /\ owed = 0 /\ frames < MaxFrames
  /\ frames' = frames + 1 /\ owed' = n /\ data' = d
  /\ wire' = Append(wire, [k |-> "head", data |-> d, len |-> n])
  /\ UNCHANGED <<sent, ending, pump, duplex, edgeGot, fin, copies>>

EdgeUnit ==
  /\ ending = "open" /\ owed > 0
  /\ owed' = owed - 1
  /\ sent' = IF data THEN sent + 1 ELSE sent
  /\ wire' = Append(wire, [k |-> "unit"])
  /\ UNCHANGED <<frames, data, ending, pump, duplex, edgeGot, fin, copies>>

\* A FIN is a clean end only between two frames.
EdgeFin ==
  /\ ending = "open"
  /\ ending' = IF owed = 0 THEN "clean" ELSE "broken"
  /\ wire' = Append(wire, [k |-> "fin"])
  /\ UNCHANGED <<frames, owed, data, sent, pump, duplex, edgeGot, fin, copies>>

\* A reset, a lost connection, or a FIN inside a frame header.
EdgeBreaks ==
  /\ ending = "open"
  /\ ending' = "broken"
  /\ wire' = Append(wire, [k |-> "cut"])
  /\ UNCHANGED <<frames, owed, data, sent, pump, duplex, edgeGot, fin, copies>>

-----------------------------------------------------------------------------
\* The pump.  Either direction may end it; the duplex closes with it.
\* drain_download: only an end between two frames is Ok.
DownloadEnd(t) == IF t = "fin" /\ left = 0 THEN "ok" ELSE "error"

Pending == dl = "read" /\ wire # <<>>
BadPending == dl = "read" /\ wire # <<>> /\ ul # "send"
\* select! polls both directions: a stalled upload does not hold the download up.
MayDownload == Pending

Downloads ==
  /\ task = "run" /\ MayDownload
  /\ LET t == Head(wire) IN
       /\ wire' = Tail(wire)
       /\ \/ /\ t.k = "head"
             /\ left' = t.len /\ isData' = t.data
             /\ UNCHANGED <<dl, task>>
          \/ /\ t.k = "unit"
             /\ left' = left - 1
             /\ dl' = IF isData THEN "write" ELSE dl
             /\ UNCHANGED <<isData, task>>
          \/ /\ t.k \in {"fin", "cut"}
             /\ task' = DownloadEnd(t.k)
             /\ UNCHANGED <<left, isData, dl>>
  /\ UNCHANGED <<frames, owed, data, sent, ending, ul, duplex, edgeGot, fin, copies>>

\* write_all into the duplex waits for room.
Buffers ==
  /\ task = "run" /\ dl = "write" /\ down < Buf
  /\ down' = down + 1 /\ dl' = "read"
  /\ UNCHANGED <<edge, left, isData, ul, task, up, upEof, edgeGot, fin, copies>>

\* drain_upload takes what the relay has written; at its end the stream is finished.
Uploads ==
  /\ task = "run" /\ ul = "read"
  /\ \/ /\ up > 0
        /\ up' = up - 1 /\ ul' = "send"
        /\ UNCHANGED fin
     \/ /\ up = 0 /\ upEof
        /\ ul' = "done" /\ fin' = TRUE
        /\ UNCHANGED up
  /\ UNCHANGED <<edge, left, isData, dl, task, down, upEof, edgeGot, copies>>

\* The edge takes a frame; its flow control may never let it through.
EdgeTakes ==
  /\ task = "run" /\ ul = "send"
  /\ edgeGot' = edgeGot + 1 /\ ul' = "read"
  /\ UNCHANGED <<edge, left, isData, dl, task, duplex, fin, copies>>

\* STOP_SENDING or a lost connection: the stream is reset and the pump ends.
UploadFails ==
  /\ task = "run" /\ ul \in {"read", "send"}
  /\ task' = "error"
  /\ UNCHANGED <<edge, left, isData, dl, ul, duplex, edgeGot, fin, copies>>

\* FramedStream is dropped when the relay returns: its pump is aborted.
Aborted ==
  /\ task = "run" /\ relay \in Over
  /\ task' = "aborted"
  /\ UNCHANGED <<edge, left, isData, dl, ul, duplex, edgeGot, fin, copies>>

-----------------------------------------------------------------------------
\* copy_with_drain, outbound to client.
\* FramedStream::poll_read at the duplex's EOF: the pump's result decides.
ReadEnd == IF task = "ok" THEN "eof" ELSE "error"

DownReads ==
  /\ relay \notin Over /\ dn = "read"
  /\ \/ /\ down > 0
        /\ down' = down - 1 /\ dn' = "write"
        /\ UNCHANGED relay
     \/ /\ down = 0 /\ task # "run"
        /\ dn' = IF ReadEnd = "eof" THEN "shut" ELSE dn
        /\ relay' = IF ReadEnd = "eof" THEN relay ELSE "error"
        /\ UNCHANGED down
  /\ UNCHANGED <<edge, pump, up, upEof, edgeGot, fin, client, uc, got>>

\* The client takes what was read, or its socket fails.
DownWrites ==
  /\ relay \notin Over /\ dn = "write"
  /\ \/ got' = got + 1 /\ dn' = "read" /\ UNCHANGED relay
     \/ relay' = "error" /\ UNCHANGED <<got, dn>>
  /\ UNCHANGED <<edge, pump, duplex, edgeGot, fin, client, uc>>

\* The copy is complete: shutdown of the client's side ends the relay, at once.
DownShut ==
  /\ relay \notin Over /\ dn = "shut"
  /\ relay' = "ok"
  /\ UNCHANGED <<edge, pump, duplex, edgeGot, fin, client, dn, uc, got>>

\* copy_with_drain, client to outbound.
UpReads ==
  /\ relay = "both" /\ uc = "read"
  /\ \/ client < MaxUp /\ client' = client + 1 /\ uc' = "write" /\ UNCHANGED relay
     \/ relay' = "drain" /\ UNCHANGED <<client, uc>>   \* the client's EOF
     \/ relay' = "error" /\ UNCHANGED <<client, uc>>   \* its socket fails
  /\ UNCHANGED <<edge, pump, duplex, edgeGot, fin, dn, got>>

\* Writing to the duplex waits for room and fails once the pump is gone.
UpWrites ==
  /\ relay = "both" /\ uc = "write"
  /\ \/ task = "run" /\ up < Buf /\ up' = up + 1 /\ uc' = "read" /\ UNCHANGED relay
     \/ task # "run" /\ relay' = "error" /\ UNCHANGED <<up, uc>>
  /\ UNCHANGED <<edge, pump, down, upEof, edgeGot, fin, client, dn, got>>

\* wo.shutdown() while the response drains.
Shutdown ==
  /\ relay = "drain" /\ ~upEof
  /\ upEof' = TRUE
  /\ UNCHANGED <<edge, pump, down, up, edgeGot, fin, copies>>

\* 30 s after the client's EOF.
DrainTimeout ==
  /\ relay = "drain"
  /\ relay' = "error"
  /\ UNCHANGED <<edge, pump, duplex, edgeGot, fin, client, dn, uc, got>>

\* The session is cut: mixed.rs drops the connection's task, and the relay with it.
Cut ==
  /\ relay \notin Over
  /\ relay' = "error"
  /\ UNCHANGED <<edge, pump, duplex, edgeGot, fin, client, dn, uc, got>>

RNext ==
  \/ \E d \in BOOLEAN, n \in 0..MaxLen : EdgeHead(d, n)
  \/ EdgeUnit \/ EdgeFin \/ EdgeBreaks
  \/ Downloads \/ Buffers \/ Uploads \/ EdgeTakes \/ UploadFails \/ Aborted
  \/ DownReads \/ DownWrites \/ DownShut \/ UpReads \/ UpWrites \/ Shutdown \/ DrainTimeout
  \/ Cut

RSpec == RInit /\ [][RNext]_relayVars

\* The runtime polls what is ready, and the drain timer fires.  Nothing is
\* assumed of the edge or of the client.
RFairness ==
  /\ WF_relayVars(Downloads) /\ WF_relayVars(Buffers) /\ WF_relayVars(Aborted)
  /\ WF_relayVars(DownReads) /\ WF_relayVars(DownShut)
  /\ WF_relayVars(DrainTimeout)

RFairSpec == RSpec /\ RFairness

-----------------------------------------------------------------------------

ResultOf == [both |-> "open", drain |-> "open", ok |-> "eof", error |-> "error"]
Tunnelled == INSTANCE ByteStream WITH read <- got, result <- ResultOf[relay],
                                      given <- client, closed <- upEof,
                                      taken <- edgeGot, finished <- fin

\* mod.rs:393 and mod.rs:325: through frames, pump, duplex and copy, the relay
\* ends well only when the edge ended between two frames and the client has
\* every unit of DATA; a truncated transfer never looks complete.  mod.rs:382:
\* the stream is finished only when the client closed its side and everything
\* it sent has been passed on.
Promise == Tunnelled!BSpec

\* mod.rs:386: an upload the edge does not take never holds the download up:
\* what the edge sent reaches a client that reads, or the relay ends.
DownloadFlows ==
  WF_relayVars(DownWrites) =>
    \A n \in 1..(MaxFrames * MaxLen) : sent >= n ~> got >= n \/ relay \in Over
=============================================================================
