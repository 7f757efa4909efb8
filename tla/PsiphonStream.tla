---------------------------- MODULE PsiphonStream ----------------------------
(* One connection through the Psiphon SSH session (outbound/psiphon/mod.rs):   *)
(* opening the channel under a timeout, then a task that moves data between    *)
(* the channel and a duplex pipe, whose other end is the stream the relay      *)
(* uses.  The session is shared; losing it closes the channel.                 *)
EXTENDS Naturals, Sequences

CONSTANTS MaxData,        \* bound: units the server sends
          MaxWrites,          \* bound: units the stream's user writes
          PsiBuf             \* capacity of each direction of the duplex

ASSUME PsiphonAssumption == MaxData \in Nat /\ MaxWrites \in Nat /\ PsiBuf \in Nat \ {0}

VARIABLES session,        \* the SSH session: up or down
          own,            \* the caller: opening, open, failed, or gone
          server,         \* the server's side of the channel: asked, open, refused, closed
          psiWire,           \* events on their way to the receiver
          psiSent, psiEnding,   \* units the server sent; how it ended them
          rcv, snd,       \* the futures receive and send
          psiTask,           \* the JoinHandle: none, run, its result, aborted, or taken
          psiDown, psiUp,       \* units in the duplex
          shut, psiEof,    \* the write ends of the two directions are closed
          clean,          \* received_eof
          serverGot,      \* units the server received
          written,        \* units the stream's user wrote
          psiGot, result     \* units it read; what it was told at the end

chan == <<session, own, server>>
far == <<psiWire, psiSent, psiEnding>>
psiPump == <<rcv, snd, psiTask, clean, serverGot>>
pipe == <<psiDown, psiUp, shut, psiEof>>
user == <<written, psiGot, result>>
psiVars == <<chan, far, psiPump, pipe, user>>

SInit ==
  /\ session = "up" /\ own = "opening" /\ server = "asked"
  /\ psiWire = <<>> /\ psiSent = 0 /\ psiEnding = "open"
  /\ rcv = "recv" /\ snd = "read" /\ psiTask = "none" /\ clean = FALSE /\ serverGot = 0
  /\ psiDown = 0 /\ psiUp = 0 /\ shut = FALSE /\ psiEof = FALSE
  /\ written = 0 /\ psiGot = 0 /\ result = "open"

-----------------------------------------------------------------------------
\* The server.
ServerAnswers(a) ==
  /\ session = "up" /\ server = "asked"
  /\ server' = a
  /\ UNCHANGED <<session, own, far, psiPump, pipe, user>>

ServerSends ==
  /\ server = "open" /\ session = "up" /\ psiEnding = "open" /\ psiSent < MaxData
  /\ psiSent' = psiSent + 1 /\ psiWire' = Append(psiWire, "data")
  /\ UNCHANGED <<chan, psiEnding, psiPump, pipe, user>>

ServerEof ==
  /\ server = "open" /\ session = "up" /\ psiEnding = "open"
  /\ psiEnding' = "clean" /\ psiWire' = Append(psiWire, "eof")
  /\ UNCHANGED <<chan, psiSent, psiPump, pipe, user>>

\* CHANNEL_CLOSE: without an EOF before it, the transfer is broken.
ServerCloses ==
  /\ server = "open" /\ session = "up"
  /\ server' = "closed"
  /\ psiWire' = Append(psiWire, "close")
  /\ psiEnding' = IF psiEnding = "open" THEN "broken" ELSE psiEnding
  /\ UNCHANGED <<session, own, psiSent, psiPump, pipe, user>>

\* The session's transport fails: the receivers' channels end.
Lost ==
  /\ server' = "closed"
  /\ psiWire' = Append(psiWire, "close")
  /\ psiEnding' = IF psiEnding = "open" THEN "broken" ELSE psiEnding
  /\ session' = "down"
SessionDies ==
  /\ session = "up"
  /\ Lost
  /\ UNCHANGED <<own, psiSent, psiPump, pipe, user>>

-----------------------------------------------------------------------------
\* connect_tcp.

Opened ==
  /\ own = "opening" /\ server = "open"
  /\ own' = "open" /\ psiTask' = "run"
  /\ UNCHANGED <<session, server, far, rcv, snd, clean, serverGot, pipe, user>>

ChannelRefused ==
  /\ own = "opening" /\ (server = "refused" \/ session = "down")
  /\ own' = "failed"
  /\ UNCHANGED <<session, server, far, psiPump, pipe, user>>

\* The 30 s pass or the caller is cancelled while the open is in flight.
\* PendingOpen disconnects the session: makiko cannot cancel one open.
BadAbandoned ==
  /\ own = "opening" /\ own' = "gone"
  /\ UNCHANGED <<session, server, far, psiPump, pipe, user>>
Abandoned ==
  /\ own = "opening" /\ session = "up"
  /\ own' = "gone"
  /\ Lost
  /\ UNCHANGED <<psiSent, psiPump, pipe, user>>

-----------------------------------------------------------------------------
\* The task.

\* What receive makes of one event: Data is written to the duplex, Eof is
\* remembered before the duplex is shut, and the end of events is an error.
Received(event) ==
  CASE event = "data" -> "write" [] event = "eof" -> "done" [] OTHER -> "err"

Receives ==
  /\ psiTask = "run" /\ rcv = "recv" /\ psiWire # <<>>
  /\ psiWire' = Tail(psiWire)
  /\ rcv' = Received(Head(psiWire))
  /\ clean' = (clean \/ Head(psiWire) = "eof")
  /\ shut' = (shut \/ Head(psiWire) = "eof")
  /\ UNCHANGED <<chan, psiSent, psiEnding, snd, psiTask, serverGot, psiDown, psiUp, psiEof, user>>

ReceiveWrites ==
  /\ psiTask = "run" /\ rcv = "write" /\ psiDown < PsiBuf
  /\ psiDown' = psiDown + 1 /\ rcv' = "recv"
  /\ UNCHANGED <<chan, far, snd, psiTask, clean, serverGot, psiUp, shut, psiEof, user>>

SendReads ==
  /\ psiTask = "run" /\ snd = "read"
  /\ \/ psiUp > 0 /\ psiUp' = psiUp - 1 /\ snd' = "send"
     \/ /\ psiUp = 0 /\ psiEof /\ UNCHANGED psiUp
        /\ snd' = IF server = "open" THEN "done" ELSE "err"
  /\ UNCHANGED <<chan, far, rcv, psiTask, clean, serverGot, psiDown, shut, psiEof, user>>

SendSends ==
  /\ psiTask = "run" /\ snd = "send"
  /\ \/ server = "open" /\ serverGot' = serverGot + 1 /\ snd' = "read"
     \/ server = "closed" /\ snd' = "err" /\ UNCHANGED serverGot
  /\ UNCHANGED <<chan, far, rcv, psiTask, clean, pipe, user>>

\* try_join!: both done, or the first error.  Either way the channel is closed
\* and the task's half of the duplex is dropped.
Failed == rcv = "err" \/ snd = "err"
Joined == IF Failed THEN "err" ELSE IF rcv = "done" /\ snd = "done" THEN "ok" ELSE "run"

TaskEnds ==
  /\ psiTask = "run" /\ Joined # "run"
  /\ psiTask' = Joined
  /\ shut' = TRUE /\ server' = "closed"
  /\ UNCHANGED <<session, own, far, rcv, snd, clean, serverGot, psiDown, psiUp, psiEof, user>>

-----------------------------------------------------------------------------
\* PsiphonStream, as its user calls it.

UserReads ==
  /\ own = "open" /\ result = "open" /\ psiDown > 0
  /\ psiDown' = psiDown - 1 /\ psiGot' = psiGot + 1
  /\ UNCHANGED <<chan, far, psiPump, psiUp, shut, psiEof, written, result>>

\* poll_read finds the duplex at its end: a clean end was announced, or the
\* task's result decides; while it still runs, the read waits.
BadEndOfRead == "eof"
EndOfRead ==
  IF clean THEN "eof" ELSE CASE psiTask = "ok" -> "eof" [] psiTask = "err" -> "error" [] OTHER -> "open"

UserReadsEnd ==
  /\ own = "open" /\ result = "open" /\ psiDown = 0 /\ shut
  /\ EndOfRead # "open"
  /\ result' = EndOfRead
  /\ psiTask' = IF clean \/ psiTask = "run" THEN psiTask ELSE "taken"
  /\ UNCHANGED <<chan, far, rcv, snd, clean, serverGot, pipe, written, psiGot>>

UserWrites ==
  /\ own = "open" /\ ~psiEof /\ psiTask = "run" /\ psiUp < PsiBuf /\ written < MaxWrites
  /\ psiUp' = psiUp + 1 /\ written' = written + 1
  /\ UNCHANGED <<chan, far, psiPump, psiDown, shut, psiEof, psiGot, result>>

UserShuts ==
  /\ own = "open" /\ ~psiEof
  /\ psiEof' = TRUE
  /\ UNCHANGED <<chan, far, psiPump, psiDown, psiUp, shut, user>>

\* Drop: the channel is closed and the task aborted.
Drop ==
  /\ own = "open"
  /\ own' = "gone" /\ server' = "closed"
  /\ psiTask' = IF psiTask = "run" THEN "aborted" ELSE psiTask
  /\ UNCHANGED <<session, far, rcv, snd, clean, serverGot, pipe, user>>

SNext ==
  \/ ServerAnswers("open") \/ ServerAnswers("refused") \/ ServerSends \/ ServerEof \/ ServerCloses
  \/ SessionDies
  \/ Opened \/ ChannelRefused \/ Abandoned
  \/ Receives \/ ReceiveWrites \/ SendReads \/ SendSends \/ TaskEnds
  \/ UserReads \/ UserReadsEnd \/ UserWrites \/ UserShuts \/ Drop

SSpec == SInit /\ [][SNext]_psiVars

-----------------------------------------------------------------------------

\* CHANGELOG "background transport errors reach the reader, no longer disguised
\* as a normal EOF": through events, task and duplex, the stream is a ByteStream.
\* "SSH EOF closes one direction only" (mod.rs:224): the sending half finishes
\* only when the user closed its side and the server has all of it.
PsiBytes == INSTANCE ByteStream WITH sent <- psiSent, ending <- psiEnding, read <- psiGot,
                                     given <- written, closed <- psiEof,
                                     taken <- serverGot, finished <- (snd = "done")
Honest == PsiBytes!BSpec

\* "A cancelled open must not leave a late confirmation unowned" (mod.rs:178):
\* no channel is open on the server in a live session without an owner.
NoOrphan == own \in {"gone", "failed"} => server \in {"refused", "closed"} \/ session = "down"
=============================================================================
