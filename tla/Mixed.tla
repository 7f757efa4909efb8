------------------------------- MODULE Mixed -------------------------------
(***************************************************************************)
(* mixed.rs: the public listener.  Accept loops admit clients under one    *)
(* shared semaphore; every admitted client is a task that waits for an     *)
(* outlet, dispatches the client on it, and is cut as soon as the outlet   *)
(* it was given is no longer the current one.                              *)
(*                                                                         *)
(* The publisher actions at the end are the contract the listener expects  *)
(* of the supervisor; Service.tla shows that the recovery loop keeps it.   *)
(***************************************************************************)
EXTENDS Watch, Naturals, FiniteSets

CONSTANTS
  Listeners,        \* the bound sockets (v4 and v6 in auto mode)
  LanOnly,          \* ListenMode::Auto
  MaxConnections    \* MAX_CONNECTIONS

ASSUME MixedAssumption ==
  /\ IsFiniteSet(Conns)
  /\ LanOnly \in BOOLEAN
  /\ MaxConnections \in Nat \ {0}

VARIABLES
  loop,      \* each accept_loop: "accept", or "backoff" after EMFILE and such
  task,      \* each connection task
  permits,   \* free permits of the semaphore all accept loops share
  fate       \* how the last client of a slot ended, as the client sees it

mixedVars == <<loop, task, permits, fate>>

TaskStates == {"idle", "borrow", "await", "dispatch", "unavailable"}

Fates == {"none", "open",          \* never used; being handled
          "refused", "full",       \* closed by the accept loop
          "served",                \* dispatch returned
          "failed",                \* failed by its protocol
          "closed",                \* hung up, or let the 10 s handshake pass
          "cut"}                   \* dropped without a reply

Busy == {c \in Conns : task[c] # "idle"}

MixedTypeOK ==
  /\ loop \in [Listeners -> {"accept", "backoff"}]
  /\ task \in [Conns -> TaskStates]
  /\ permits \in 0..MaxConnections
  /\ fate \in [Conns -> Fates]

MixedInit ==
  /\ loop = [l \in Listeners |-> "accept"]
  /\ task = [c \in Conns |-> "idle"]
  /\ permits = MaxConnections
  /\ fate = [c \in Conns |-> "none"]

-----------------------------------------------------------------------------
(* accept_loop                                                             *)

\* Any accept error that is not about one connection: log and sleep 1 s.
AcceptError(l) ==
  /\ sender /\ loop[l] = "accept"
  /\ loop' = [loop EXCEPT ![l] = "backoff"]
  /\ UNCHANGED <<task, permits, fate, watchVars>>

AcceptAgain(l) ==
  /\ loop[l] = "backoff"
  /\ loop' = [loop EXCEPT ![l] = "accept"]
  /\ UNCHANGED <<task, permits, fate, watchVars>>

IsLan(peer) == peer = "lan"

Arrives(l, c) == sender /\ loop[l] = "accept" /\ task[c] = "idle"

RefuseNonLan(l, c, peer) ==
  /\ Arrives(l, c)
  /\ LanOnly /\ ~IsLan(peer)
  /\ fate' = [fate EXCEPT ![c] = "refused"]
  /\ UNCHANGED <<loop, task, permits, watchVars>>

\* try_acquire_owned fails: the client is dropped, nothing queues.
RefuseFull(l, c, peer) ==
  /\ Arrives(l, c)
  /\ LanOnly => IsLan(peer)
  /\ permits = 0
  /\ fate' = [fate EXCEPT ![c] = "full"]
  /\ UNCHANGED <<loop, task, permits, watchVars>>

Spawn(l, c, peer) ==
  /\ Arrives(l, c)
  /\ LanOnly => IsLan(peer)
  /\ permits > 0
  /\ permits' = permits - 1
  /\ task' = [task EXCEPT ![c] = "borrow"]
  /\ fate' = [fate EXCEPT ![c] = "open"]
  /\ UNCHANGED <<loop, watchVars>>

-----------------------------------------------------------------------------
(* the connection task                                                     *)

\* A borrow that does not mark the version as seen.
BadBorrow(c) ==
  /\ task[c] = "borrow"
  /\ \/ /\ outlet # None
        /\ holds' = [holds EXCEPT ![c] = outlet]
        /\ task' = [task EXCEPT ![c] = "dispatch"]
        /\ UNCHANGED <<outlet, unseen, sender>>
     \/ /\ outlet = None
        /\ MarkSeen(c)
        /\ task' = [task EXCEPT ![c] = "await"]
  /\ UNCHANGED <<loop, permits, fate>>
\* borrow_and_update: take a clone of the outlet, or settle down to wait.
Borrow(c) ==
  /\ task[c] = "borrow"
  /\ \/ /\ outlet # None
        /\ TakeOutlet(c)
        /\ task' = [task EXCEPT ![c] = "dispatch"]
     \/ /\ outlet = None
        /\ MarkSeen(c)
        /\ task' = [task EXCEPT ![c] = "await"]
  /\ UNCHANGED <<loop, permits, fate>>

\* changed().await? in the waiting loop: look again, or RecvError.
Wakes(c) ==
  /\ task[c] = "await"
  /\ \/ /\ c \in unseen
        /\ MarkSeen(c)
        /\ task' = [task EXCEPT ![c] = "borrow"]
     \/ /\ c \notin unseen /\ ~sender
        /\ task' = [task EXCEPT ![c] = "unavailable"]
        /\ UNCHANGED watchVars
  /\ UNCHANGED <<loop, permits, fate>>

\* Waiting without the timeout, until the channel closes.
BadRecoveryWaitOver(c) ==
  /\ task[c] = "await" /\ ~sender
  /\ task' = [task EXCEPT ![c] = "unavailable"]
  /\ UNCHANGED <<loop, permits, fate, watchVars>>
\* RECOVERY_WAIT runs out.  timeout() polls the loop before its timer, so it
\* fires only while changed() is pending; a send may still slip in between.
RecoveryWaitOver(c) ==
  /\ task[c] = "await"
  /\ task' = [task EXCEPT ![c] = "unavailable"]
  /\ UNCHANGED <<loop, permits, fate, watchVars>>

\* The task ends; its permit and its clone go with it.
BadEnd(c, f) ==
  /\ task' = [task EXCEPT ![c] = "idle"]
  /\ fate' = [fate EXCEPT ![c] = f]
  /\ permits' = IF f = "cut" THEN permits ELSE permits + 1
  /\ Release(c)
  /\ UNCHANGED loop
End(c, f) ==
  /\ task' = [task EXCEPT ![c] = "idle"]
  /\ fate' = [fate EXCEPT ![c] = f]
  /\ permits' = permits + 1
  /\ Release(c)
  /\ UNCHANGED loop

\* dispatch() returns: the session is over, or it never began.
Dispatched(c) == task[c] = "dispatch" /\ End(c, "served")

\* select! arm "_ = state.changed()": compares versions, never values.
BadOutletChanged(c) ==
  /\ task[c] = "dispatch"
  /\ c \in unseen /\ outlet = None
  /\ End(c, "cut")
OutletChanged(c) ==
  /\ task[c] = "dispatch"
  /\ Changed(c)
  /\ End(c, "cut")

\* dispatch() on the Unavailable outbound, bounded by HANDSHAKE_TIMEOUT.
UnavailableDone(c) ==
  /\ task[c] = "unavailable"
  /\ \E f \in {"failed", "closed"} : End(c, f)

\* ... unless the outlet changes while the failure is being delivered.
UnavailableChanged(c) ==
  /\ task[c] = "unavailable"
  /\ Changed(c)
  /\ End(c, "cut")

\* RunningProxy is dropped, its JoinSets abort every task.
Abort(c) ==
  /\ ~sender /\ task[c] # "idle"
  /\ End(c, "cut")

ConnStep(c) ==
  \/ Borrow(c) \/ Wakes(c) \/ RecoveryWaitOver(c) \/ Dispatched(c)
  \/ OutletChanged(c) \/ UnavailableDone(c) \/ UnavailableChanged(c) \/ Abort(c)

ListenerStep(l) ==
  \/ AcceptError(l) \/ AcceptAgain(l)
  \/ \E c \in Conns, peer \in {"lan", "public"} :
       RefuseNonLan(l, c, peer) \/ RefuseFull(l, c, peer) \/ Spawn(l, c, peer)

MixedStep == (\E c \in Conns : ConnStep(c)) \/ (\E l \in Listeners : ListenerStep(l))

-----------------------------------------------------------------------------
(* what the listener expects of the publisher                              *)

Publish == sender /\ outlet = None /\ (\E o \in Fresh : SendReplace(o))
Withdraw == sender /\ outlet # None /\ SendReplace(None)
Quit == sender /\ DropSender

\* The next process starts with a new channel once every task is gone.
Restart ==
  /\ ~sender /\ Busy = {}
  /\ outlet' = None /\ unseen' = {} /\ sender' = TRUE
  /\ UNCHANGED holds

Publisher == Publish \/ Withdraw \/ Quit \/ Restart

vars == <<watchVars, mixedVars>>

MInit == WatchInit /\ MixedInit
MNext == MixedStep \/ (Publisher /\ UNCHANGED mixedVars)
MSpec == MInit /\ [][MNext]_vars

\* The runtime polls every ready task, and timers fire.  A waiting task can
\* be woken and put back to sleep by publications that come and go, but the
\* 5 s timer spans all those waits, so its fairness is strong.  A client
\* being served may stay as long as it likes.
MFairness ==
  /\ \A c \in Conns :
       /\ WF_vars(Borrow(c)) /\ WF_vars(Wakes(c)) /\ SF_vars(RecoveryWaitOver(c))
       /\ WF_vars(OutletChanged(c)) /\ WF_vars(UnavailableDone(c)) /\ WF_vars(Abort(c))
  /\ \A l \in Listeners : WF_vars(AcceptAgain(l))

MFairSpec == MSpec /\ MFairness

-----------------------------------------------------------------------------
(* Properties                                                              *)

\* Every variable of the channel and the listener keeps its type.
TypeOK == WatchTypeOK /\ MixedTypeOK

\* A task keeps a clone of an outlet exactly while it dispatches on it.
HoldsWhileDispatching == \A c \in Conns : (holds[c] # None) <=> (task[c] = "dispatch")

\* No permit leaks and none is invented: however a task ends (served, cut,
\* timed out, aborted), the free permits and the running tasks add up to
\* MAX_CONNECTIONS (mixed.rs:154-161).
PermitsConserved == permits + Cardinality(Busy) = MaxConnections

\* A dispatching task has its changed() ready exactly when its outlet is no
\* longer the published one: also when the outlet was withdrawn and replaced
\* between two of its looks, and never for the outlet it has just been given
\* (mixed.rs:164, 173-177).
CutIffStale ==
  \A c \in Conns : task[c] = "dispatch" => (c \in unseen <=> holds[c] # outlet)

\* No client waits for an outlet for ever, however the outlet flaps: the
\* task gets one, or gives up after RECOVERY_WAIT (mixed.rs:162-170).
WaitEnds ==
  \A c \in Conns : (task[c] \in {"borrow", "await"}) ~> (task[c] \in {"dispatch", "unavailable", "idle"})

\* CHANGELOG.md:13: a client that arrives while there is no outlet "waits at
\* most 5 seconds, then fails by its protocol".  So a task that gave up
\* waiting ends with a protocol-level failure, unless the client hung up,
\* never finished its handshake, or the process went down.
GivesUpWithReply ==
  [][\A c \in Conns : task[c] = "unavailable" /\ task'[c] = "idle" /\ sender
        => fate'[c] \in {"failed", "closed"}]_vars

=============================================================================
