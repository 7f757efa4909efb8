------------------------------- MODULE Watch -------------------------------
(***************************************************************************)
(* The tokio::sync::watch channel through which the supervisor hands the   *)
(* current outlet (Option<Arc<dyn Outbound>>) to the connection tasks.     *)
(* The channel itself is a library; this is the part of its contract that  *)
(* supervisor.rs and mixed.rs rely on.                                     *)
(*                                                                         *)
(* A receiver remembers the version it has seen; every send bumps the      *)
(* version.  Only "seen the latest version or not" matters, so the model   *)
(* keeps the set of receivers that have NOT seen the latest send.  Several *)
(* sends between two looks of a receiver collapse into one.                *)
(***************************************************************************)
EXTENDS Naturals

CONSTANTS
  Conns,     \* connection task slots; each owns one receiver
  Outlets,   \* identities of Outbound objects
  None       \* Option::None

ASSUME NoneIsNoOutlet == None \notin Outlets

VARIABLES
  outlet,    \* the value in the channel
  unseen,    \* receivers whose changed() is ready
  sender,    \* FALSE once the Sender is dropped
  holds      \* the clone of the outlet each receiver's task keeps

watchVars == <<outlet, unseen, sender, holds>>

WatchTypeOK ==
  /\ outlet \in Outlets \cup {None}
  /\ unseen \in SUBSET Conns
  /\ sender \in BOOLEAN
  /\ holds \in [Conns -> Outlets \cup {None}]

\* watch::channel(None)
WatchInit ==
  /\ outlet = None
  /\ unseen = {}
  /\ sender = TRUE
  /\ holds = [c \in Conns |-> None]

\* An Arc keeps its object alive: a new Outbound is none of those held.
Fresh == Outlets \ ({outlet} \cup {holds[c] : c \in Conns})

\* Sender::send_replace: every receiver becomes "changed", even when the
\* value goes away and comes back.
SendReplace(v) ==
  /\ outlet' = v
  /\ unseen' = Conns
  /\ UNCHANGED <<sender, holds>>

DropSender == sender' = FALSE /\ UNCHANGED <<outlet, unseen, holds>>

\* Receiver::changed resolves: with Ok when a send is unseen, else with
\* RecvError once the sender is gone.
Changed(c) == c \in unseen \/ ~sender

\* borrow_and_update().clone() on a channel that holds an outlet.
TakeOutlet(c) ==
  /\ unseen' = unseen \ {c}
  /\ holds' = [holds EXCEPT ![c] = outlet]
  /\ UNCHANGED <<outlet, sender>>

\* borrow_and_update() without a clone, and changed() resolving with Ok.
MarkSeen(c) ==
  /\ unseen' = unseen \ {c}
  /\ UNCHANGED <<outlet, sender, holds>>

\* The task drops its clone.
Release(c) ==
  /\ holds' = [holds EXCEPT ![c] = None]
  /\ UNCHANGED <<outlet, unseen, sender>>
=============================================================================
