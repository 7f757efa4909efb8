------------------------------ MODULE Service ------------------------------
(***************************************************************************)
(* supervisor.rs run_service: the listener and the recovery loop run side  *)
(* by side on one watch channel, as two arms of one select!.  Whichever    *)
(* ends first ends the process.  The listener's specification, with its    *)
(* own idea of a publisher, is what this composition is shown to refine.   *)
(***************************************************************************)
EXTENDS Mixed, Recovery

\* The new process starts after every task of the old one is gone.
NewProcess == Busy = {} /\ Reboot

svars == <<watchVars, mixedVars, recVars>>

SInit == WatchInit /\ MixedInit /\ RecInit
SNext ==
  \/ MixedStep /\ UNCHANGED recVars
  \/ (RecoveryStep \/ NewProcess) /\ UNCHANGED mixedVars
SSpec == SInit /\ [][SNext]_svars

SFairness ==
  /\ \A c \in Conns :
       /\ WF_svars(Borrow(c) /\ UNCHANGED recVars)
       /\ WF_svars(OutletChanged(c) /\ UNCHANGED recVars)
       /\ WF_svars(Abort(c) /\ UNCHANGED recVars)
  /\ WF_svars(WatchStep /\ UNCHANGED mixedVars)
SFairSpec == SSpec /\ SFairness

-----------------------------------------------------------------------------
(* Properties                                                              *)

\* A client is only ever served through an outlet that is verified and in
\* use by the recovery loop, or its task is already told to stop: between
\* withdrawal and re-publication there is no moment at which a task on an
\* old outlet passes for one on the current outlet.
ServedIsVerified ==
  \A c \in Conns : task[c] = "dispatch" /\ ~Changed(c)
    => /\ holds[c] = outlet /\ holds[c] = built
       /\ built \in proved
       /\ pc \in {"ready", "watch", "withdraw"}

\* When an outlet dies, or its base does, every connection on it is closed.
DeadIsReleased ==
  \A c \in Conns :
    (task[c] = "dispatch" /\ holds[c] = outlet /\ sender /\ ~Alive) ~> (task[c] = "idle")
=============================================================================
