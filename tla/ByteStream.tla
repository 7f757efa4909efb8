----------------------------- MODULE ByteStream -----------------------------
(* What a tunnelled stream promises its user, whatever framing, buffers and    *)
(* tasks lie in between.  Download: the data in order, and an end that tells a *)
(* complete transfer from a broken one.  Upload: the far end is told that it   *)
(* is complete only when the user closed its side and all of it is there.      *)
EXTENDS Naturals

VARIABLES sent,           \* units of data the far end has put on the stream
          ending,         \* how the far end ended it: "open", "clean", "broken"
          read,           \* units the user has read
          result,         \* what the reader was told: "open", "eof", "error"
          given,          \* units the user has written
          closed,         \* the user has closed its side
          taken,          \* units the far end has received
          finished        \* the far end was told that the upload is complete

download == <<sent, ending, read, result>>
upload == <<given, closed, taken, finished>>
bvars == <<download, upload>>

BInit ==
  /\ sent = 0 /\ ending = "open" /\ read = 0 /\ result = "open"
  /\ given = 0 /\ ~closed /\ taken = 0 /\ ~finished

FarSends == ending = "open" /\ sent' = sent + 1 /\ UNCHANGED <<ending, read, result>>

FarEnds ==
  ending = "open" /\ ending' \in {"clean", "broken"} /\ UNCHANGED <<sent, read, result>>

Reads ==
  /\ result = "open" /\ read < sent
  /\ read' = read + 1
  /\ UNCHANGED <<sent, ending, result>>

\* A clean end is reported only for a whole transfer.
ReadsEof ==
  /\ result = "open" /\ ending = "clean" /\ read = sent
  /\ result' = "eof"
  /\ UNCHANGED <<sent, ending, read>>

\* An error may be reported at any time: the other direction may fail too.
ReadsError ==
  result = "open" /\ result' = "error" /\ UNCHANGED <<sent, ending, read>>

Gives == ~closed /\ given' = given + 1 /\ UNCHANGED <<closed, taken, finished>>

Closes == ~closed /\ closed' /\ UNCHANGED <<given, taken, finished>>

FarTakes ==
  /\ ~finished /\ taken < given
  /\ taken' = taken + 1
  /\ UNCHANGED <<given, closed, finished>>

Finishes ==
  /\ ~finished /\ closed /\ taken = given
  /\ finished'
  /\ UNCHANGED <<given, closed, taken>>

\* The directions are independent, and one step may move both.
DownStep == FarSends \/ FarEnds \/ Reads \/ ReadsEof \/ ReadsError
UpStep == Gives \/ Closes \/ FarTakes \/ Finishes

BNext == (DownStep \/ UNCHANGED download) /\ (UpStep \/ UNCHANGED upload)

BSpec == BInit /\ [][BNext]_bvars
=============================================================================
