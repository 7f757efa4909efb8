-------------------------- MODULE MasqueLinkProofs --------------------------
(* Proofs about the shared MASQUE connection, for any number of callers,       *)
(* connections and edge addresses.                                             *)
EXTENDS MasqueLink, TLAPS

\* The part of the type invariant the proofs need (the queue's order is not).
LTypes ==
  /\ link \in Links
  /\ closed \subseteq Links
  /\ holder \in Callers \cup {None}
  /\ pc \in [Callers -> Waits \cup {"idle"}]
  /\ seen \in [Callers -> Links \cup {None}]
  /\ conn \in [Callers -> Links \cup {None}]

\* What a caller knows at each point of open(): from the moment it queues for
\* the mutex the connection it cloned first is dead, and while it holds the
\* mutex that connection is still the link; past the mutex the link is another.
\* A connection still being set up is known to nobody else.
Knows(c) ==
  /\ holder = c <=> pc[c] \in Locked
  /\ pc[c] \in {"wait", "dial", "control"} => seen[c] \in closed
  /\ pc[c] \in Locked => link = seen[c]
  /\ pc[c] = "control" => conn[c] \in Links /\ \A d \in Callers : seen[d] # conn[c]
  /\ pc[c] \in {"reclone", "reopen"} => seen[c] \in Links /\ link # seen[c]
  /\ pc[c] = "open" => conn[c] = seen[c]
  /\ pc[c] = "reopen" => conn[c] # seen[c]

LIInv == LTypes /\ \A c \in Callers : Knows(c)

LEMMA NoneNotMember == None \notin Links /\ None \notin Callers
BY NoneAssumption

\* The initial state satisfies the inductive invariant.
LEMMA LinkInit == LInit => LIInv
BY NoneNotMember DEF LInit, LIInv, LTypes, Knows, Waits, Locked

\* A call that ends knows nothing any more, and no other call's knowledge
\* depended on it.
LEMMA EndKeeps ==
  ASSUME LIInv, NEW c \in Callers, End(c), UNCHANGED <<link, closed>>
  PROVE  LIInv'
<1>1. LTypes'
  BY DEF LIInv, LTypes, End, Go, Waits
<1>2. ASSUME NEW d \in Callers PROVE Knows(d)'
  <2>1. CASE d = c
    BY <2>1, NoneNotMember DEF LIInv, LTypes, Knows, End, Go, Waits, Locked
  <2>2. CASE d # c
    <3>1. pc'[d] = pc[d] /\ seen'[d] = seen[d] /\ conn'[d] = conn[d]
      BY <2>2 DEF LIInv, LTypes, End, Go
    <3>2. holder' = d <=> holder = d
      BY <2>2, NoneNotMember DEF LIInv, LTypes, End
    <3>3. \A x \in Callers : seen'[x] = seen[x] \/ seen'[x] = None
      BY DEF LIInv, LTypes, End
    <3> QED
      BY <3>1, <3>2, <3>3, NoneNotMember DEF LIInv, LTypes, Knows, Locked
  <2> QED BY <2>1, <2>2
<1> QED BY <1>1, <1>2 DEF LIInv

\* Every step of a caller or of the network preserves the inductive invariant.
LEMMA LinkStep == LIInv /\ [LNext]_vars => LIInv'
<1> SUFFICES ASSUME LIInv, [LNext]_vars PROVE LIInv'
  OBVIOUS
<1> USE NoneNotMember
<1>1. ASSUME NEW c \in Callers, Start(c) PROVE LIInv'
  <2>1. LTypes'
    BY <1>1 DEF LIInv, LTypes, Start, Enqueue, Go, Waits
  <2>2. ASSUME NEW d \in Callers PROVE Knows(d)'
    BY <1>1, <2>2 DEF LIInv, LTypes, Knows, Start, Enqueue, Go, Waits, Locked
  <2> QED BY <2>1, <2>2 DEF LIInv
<1>2. ASSUME NEW c \in Callers, OpenOk(c) PROVE LIInv'
  BY <1>2 DEF LIInv, LTypes, Knows, OpenOk, Go, Waits, Locked
<1>3. ASSUME NEW c \in Callers, OpenFails(c) PROVE LIInv'
  <2>1. CASE conn[c] \in closed
    <3>1. LTypes'
      BY <1>3, <2>1 DEF LIInv, LTypes, OpenFails, Enqueue, Go, Waits
    <3>2. ASSUME NEW d \in Callers PROVE Knows(d)'
      BY <1>3, <2>1, <3>2 DEF LIInv, LTypes, Knows, OpenFails, Enqueue, Go, Waits, Locked
    <3> QED BY <3>1, <3>2 DEF LIInv
  <2>2. CASE conn[c] \notin closed
    BY <1>3, <2>2, EndKeeps DEF OpenFails
  <2> QED BY <2>1, <2>2
<1>4. ASSUME NEW c \in Callers, ReopenFails(c) \/ ControlFails(c) \/ Exchanged(c) \/ Cancel(c)
      PROVE LIInv'
  BY <1>4, EndKeeps DEF ReopenFails, ControlFails, Exchanged, Cancel
<1>5. ASSUME NEW c \in Callers, Locks(c) PROVE LIInv'
  <2>1. CASE End(c)
    BY <1>5, <2>1, EndKeeps DEF Locks
  <2>2. CASE Stale(c) /\ ~End(c)
    <3>1. LTypes'
      BY <1>5, <2>2 DEF LIInv, LTypes, Locks, Go, Waits
    <3>2. ASSUME NEW d \in Callers PROVE Knows(d)'
      BY <1>5, <2>2, <3>2 DEF LIInv, LTypes, Knows, Locks, First, Stale, Go, Waits, Locked
    <3> QED BY <3>1, <3>2 DEF LIInv
  <2>3. CASE ~Stale(c)
    <3>1. LTypes'
      BY <1>5, <2>3 DEF LIInv, LTypes, Locks, Go, Waits
    <3>2. ASSUME NEW d \in Callers PROVE Knows(d)'
      BY <1>5, <2>3, <3>2 DEF LIInv, LTypes, Knows, Locks, First, Stale, Go, Waits, Locked
    <3> QED BY <3>1, <3>2 DEF LIInv
  <2> QED BY <2>1, <2>2, <2>3
<1>6. ASSUME NEW c \in Callers, NEW l \in Links, DialOk(c, l) PROVE LIInv'
  <2>1. LTypes'
    BY <1>6 DEF LIInv, LTypes, DialOk, Go, Waits
  <2>2. ASSUME NEW d \in Callers PROVE Knows(d)'
    BY <1>6, <2>2 DEF LIInv, LTypes, Knows, DialOk, Free, Go, Waits, Locked
  <2> QED BY <2>1, <2>2 DEF LIInv
<1>7. ASSUME NEW c \in Callers, NEW a \in Addrs, DialFails(c, a) PROVE LIInv'
  <2>1. CASE dials = {a}
    BY <1>7, <2>1, EndKeeps DEF DialFails
  <2>2. CASE dials # {a}
    BY <1>7, <2>2 DEF DialFails, LIInv, LTypes, Knows, Locked
  <2> QED BY <2>1, <2>2
<1>8. ASSUME NEW c \in Callers, ControlOk(c) PROVE LIInv'
  <2>1. LTypes'
    BY <1>8 DEF LIInv, LTypes, Knows, ControlOk, Go, Waits
  <2>2. ASSUME NEW d \in Callers PROVE Knows(d)'
    BY <1>8, <2>2 DEF LIInv, LTypes, Knows, ControlOk, Go, Waits, Locked
  <2> QED BY <2>1, <2>2 DEF LIInv
<1>9. ASSUME NEW c \in Callers, Reclone(c) PROVE LIInv'
  <2>1. LTypes'
    BY <1>9 DEF LIInv, LTypes, Reclone, Go, Waits
  <2>2. ASSUME NEW d \in Callers PROVE Knows(d)'
    BY <1>9, <2>2 DEF LIInv, LTypes, Knows, Reclone, Go, Waits, Locked
  <2> QED BY <2>1, <2>2 DEF LIInv
<1>10. ASSUME NEW l \in Links, Closes(l) PROVE LIInv'
  BY <1>10 DEF LIInv, LTypes, Knows, Closes, Locked
<1>11. CASE UNCHANGED vars
  BY <1>11 DEF LIInv, LTypes, Knows, vars, Locked
<1> QED
  BY <1>1, <1>2, <1>3, <1>4, <1>5, <1>6, <1>7, <1>8, <1>9, <1>10, <1>11 DEF LNext

\* The inductive invariant holds in every state of the outbound.
THEOREM LinkInvariant == LSpec => []LIInv
BY LinkInit, LinkStep, PTL DEF LSpec

\* mod.rs:99: only a dead connection is ever replaced.  The one step that
\* changes the link is taken by the holder of the mutex, and what the holder
\* knows is that the link is the connection it saw closed.
THEOREM LiveLinkIsKept == LSpec => LiveLinkKept
<1>1. LIInv /\ [LNext]_vars => [link' # link => link \in closed]_vars
  <2> SUFFICES ASSUME LIInv, [LNext]_vars, link' # link PROVE link \in closed
    OBVIOUS
  <2>1. PICK c \in Callers : ControlOk(c)
    BY DEF LNext, vars, Start, OpenOk, OpenFails, ReopenFails, Locks, ControlFails,
           Reclone, Exchanged, Cancel, DialOk, DialFails, Closes
  <2> QED BY <2>1 DEF LIInv, Knows, ControlOk, Locked
<1> QED BY <1>1, LinkInvariant, PTL DEF LSpec, LiveLinkKept

\* A call that found its connection dead retries on another one (mod.rs:113).
THEOREM RetriesElsewhere == LSpec => []RetryOnAnotherLink
<1>1. LIInv => RetryOnAnotherLink
  BY DEF LIInv, Knows, RetryOnAnotherLink
<1> QED BY <1>1, LinkInvariant, PTL

\* Two calls never dial the edges at the same time (mod.rs:110).
THEOREM ReconnectsAreSerial == LSpec => []OneReconnect
<1>1. LIInv => OneReconnect
  BY DEF LIInv, Knows, OneReconnect
<1> QED BY <1>1, LinkInvariant, PTL
=============================================================================
