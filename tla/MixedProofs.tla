---------------------------- MODULE MixedProofs ----------------------------
(* The listener's safety for any number of clients, permits, listeners and  *)
(* outlets, and any publisher that keeps the contract of Mixed.             *)
EXTENDS Mixed, FiniteSetTheorems, TLAPS

MInv == TypeOK /\ HoldsWhileDispatching /\ PermitsConserved /\ CutIffStale

\* The tasks that exist are finitely many.
LEMMA BusyIsFinite == IsFiniteSet(Busy) /\ Cardinality(Busy) \in Nat
<1>1. Busy \subseteq Conns
  BY DEF Busy
<1>. QED
  BY <1>1, MixedAssumption, FS_Subset, FS_CardinalityType

\* A task that ends gives back its permit and its clone of the outlet.
LEMMA EndKeepsMInv ==
  ASSUME MInv, NEW c \in Conns, NEW f \in Fates, task[c] # "idle", End(c, f)
  PROVE  MInv'
<1>. USE MixedAssumption, NoneIsNoOutlet DEF MInv, End, Release
<1>1. Busy' = Busy \ {c} /\ c \in Busy
  BY DEF Busy, TypeOK, MixedTypeOK, TaskStates
<1>2. Cardinality(Busy') = Cardinality(Busy) - 1
  BY <1>1, BusyIsFinite, FS_RemoveElement
<1>3. PermitsConserved'
  BY <1>2, BusyIsFinite DEF PermitsConserved, TypeOK, MixedTypeOK
<1>4. TypeOK'
  <2>1. permits' \in 0..MaxConnections
    BY <1>2, <1>3, BusyIsFinite, FS_CardinalityType, FS_RemoveElement, <1>1
       DEF PermitsConserved, TypeOK, MixedTypeOK
  <2>. QED
    BY <2>1 DEF TypeOK, MixedTypeOK, WatchTypeOK, TaskStates
<1>5. HoldsWhileDispatching'
  BY DEF HoldsWhileDispatching, TypeOK, MixedTypeOK, WatchTypeOK
<1>6. CutIffStale'
  BY DEF CutIffStale, TypeOK, MixedTypeOK, WatchTypeOK
<1>. QED
  BY <1>3, <1>4, <1>5, <1>6

\* A step of a task that stays busy leaves the permits and the set of busy
\* tasks alone.
LEMMA MoveKeepsPermits ==
  ASSUME MInv, NEW c \in Conns, NEW s \in TaskStates \ {"idle"}, task[c] # "idle",
         task' = [task EXCEPT ![c] = s], UNCHANGED <<loop, permits, fate>>
  PROVE  PermitsConserved' /\ MixedTypeOK'
<1>1. Busy' = Busy
  BY DEF Busy, MInv, TypeOK, MixedTypeOK, TaskStates
<1>. QED
  BY <1>1 DEF MInv, TypeOK, MixedTypeOK, PermitsConserved

\* Every step of a connection task keeps the invariant.
LEMMA ConnKeepsMInv ==
  ASSUME MInv, NEW c \in Conns, ConnStep(c)
  PROVE  MInv'
<1>. USE NoneIsNoOutlet DEF MInv
<1>1. CASE Borrow(c)
  <2>1. PICK s \in {"dispatch", "await"} : task' = [task EXCEPT ![c] = s]
    BY <1>1 DEF Borrow
  <2>2. PermitsConserved' /\ MixedTypeOK'
    BY <1>1, <2>1, MoveKeepsPermits DEF Borrow, TaskStates
  <2>3. CASE outlet # None
    <3>1. TakeOutlet(c) /\ task' = [task EXCEPT ![c] = "dispatch"]
      BY <1>1, <2>3 DEF Borrow
    <3>2. WatchTypeOK'
      BY <3>1 DEF TakeOutlet, TypeOK, WatchTypeOK
    <3>3. HoldsWhileDispatching'
      BY <2>3, <3>1 DEF TakeOutlet, HoldsWhileDispatching, TypeOK, WatchTypeOK, MixedTypeOK
    <3>4. CutIffStale'
      BY <3>1 DEF TakeOutlet, CutIffStale, TypeOK, WatchTypeOK, MixedTypeOK
    <3>. QED
      BY <2>2, <3>2, <3>3, <3>4 DEF TypeOK
  <2>4. CASE outlet = None
    <3>1. MarkSeen(c) /\ task' = [task EXCEPT ![c] = "await"]
      BY <1>1, <2>4 DEF Borrow
    <3>2. WatchTypeOK'
      BY <3>1 DEF MarkSeen, TypeOK, WatchTypeOK
    <3>3. HoldsWhileDispatching'
      BY <1>1, <3>1 DEF Borrow, MarkSeen, HoldsWhileDispatching, TypeOK, MixedTypeOK
    <3>4. CutIffStale'
      BY <3>1 DEF MarkSeen, CutIffStale, TypeOK, MixedTypeOK
    <3>. QED
      BY <2>2, <3>2, <3>3, <3>4 DEF TypeOK
  <2>. QED
    BY <2>3, <2>4
<1>2. CASE Wakes(c) \/ RecoveryWaitOver(c)
  <2>1. PICK s \in {"borrow", "unavailable"} : task' = [task EXCEPT ![c] = s]
    BY <1>2 DEF Wakes, RecoveryWaitOver
  <2>2. PermitsConserved' /\ MixedTypeOK'
    BY <1>2, <2>1, MoveKeepsPermits DEF Wakes, RecoveryWaitOver, TaskStates
  <2>3. /\ task[c] = "await" /\ UNCHANGED <<outlet, sender, holds>>
        /\ unseen' \in {unseen, unseen \ {c}}
    BY <1>2 DEF Wakes, RecoveryWaitOver, MarkSeen, watchVars
  <2>4. WatchTypeOK'
    BY <2>3 DEF TypeOK, WatchTypeOK
  <2>5. HoldsWhileDispatching'
    BY <2>1, <2>3 DEF HoldsWhileDispatching, TypeOK, MixedTypeOK
  <2>6. CutIffStale'
    BY <2>1, <2>3 DEF CutIffStale, TypeOK, MixedTypeOK
  <2>. QED
    BY <2>2, <2>4, <2>5, <2>6 DEF TypeOK
<1>3. CASE Dispatched(c)
  BY <1>3, EndKeepsMInv DEF Dispatched, Fates
<1>4. CASE OutletChanged(c)
  BY <1>4, EndKeepsMInv DEF OutletChanged, Fates
<1>5. CASE UnavailableDone(c)
  BY <1>5, EndKeepsMInv DEF UnavailableDone, Fates
<1>6. CASE UnavailableChanged(c)
  BY <1>6, EndKeepsMInv DEF UnavailableChanged, Fates
<1>7. CASE Abort(c)
  BY <1>7, EndKeepsMInv DEF Abort, Fates
<1>. QED
  BY <1>1, <1>2, <1>3, <1>4, <1>5, <1>6, <1>7 DEF ConnStep

\* Every step of an accept loop keeps the invariant.
LEMMA ListenerKeepsMInv ==
  ASSUME MInv, NEW l \in Listeners, ListenerStep(l)
  PROVE  MInv'
<1>. USE DEF MInv
<1>1. CASE AcceptError(l) \/ AcceptAgain(l)
  <2>1. /\ loop' \in [Listeners -> {"accept", "backoff"}]
        /\ UNCHANGED <<task, permits, fate, outlet, unseen, sender, holds>>
    BY <1>1 DEF AcceptError, AcceptAgain, watchVars, TypeOK, MixedTypeOK
  <2>. QED
    BY <2>1 DEF TypeOK, MixedTypeOK, WatchTypeOK, HoldsWhileDispatching,
                PermitsConserved, CutIffStale, Busy
<1>2. ASSUME NEW c \in Conns, NEW peer \in {"lan", "public"},
             RefuseNonLan(l, c, peer) \/ RefuseFull(l, c, peer)
      PROVE  MInv'
  <2>1. /\ fate' \in [Conns -> Fates]
        /\ UNCHANGED <<loop, task, permits, outlet, unseen, sender, holds>>
    BY <1>2 DEF RefuseNonLan, RefuseFull, watchVars, TypeOK, MixedTypeOK, Fates
  <2>. QED
    BY <2>1 DEF TypeOK, MixedTypeOK, WatchTypeOK, HoldsWhileDispatching,
                PermitsConserved, CutIffStale, Busy
<1>3. ASSUME NEW c \in Conns, NEW peer \in {"lan", "public"}, Spawn(l, c, peer)
      PROVE  MInv'
  <2>. USE <1>3 DEF Spawn, Arrives
  <2>1. Busy' = Busy \cup {c} /\ c \notin Busy
    BY DEF Busy, TypeOK, MixedTypeOK
  <2>2. Cardinality(Busy') = Cardinality(Busy) + 1
    BY <2>1, BusyIsFinite, FS_AddElement
  <2>3. PermitsConserved'
    BY <2>2, BusyIsFinite, MixedAssumption DEF PermitsConserved, TypeOK, MixedTypeOK
  <2>4. TypeOK'
    BY MixedAssumption DEF TypeOK, MixedTypeOK, WatchTypeOK, watchVars, TaskStates, Fates
  <2>5. HoldsWhileDispatching' /\ CutIffStale'
    BY DEF HoldsWhileDispatching, CutIffStale, watchVars, TypeOK, MixedTypeOK
  <2>. QED
    BY <2>3, <2>4, <2>5
<1>. QED
  BY <1>1, <1>2, <1>3 DEF ListenerStep

\* A publisher that keeps the contract keeps the invariant.
LEMMA PublisherKeepsMInv ==
  ASSUME MInv, Publisher, UNCHANGED mixedVars
  PROVE  MInv'
<1>. USE NoneIsNoOutlet DEF MInv, mixedVars
<1>1. PermitsConserved' /\ MixedTypeOK'
  BY DEF PermitsConserved, Busy, TypeOK, MixedTypeOK
<1>2. CASE Publish
  BY <1>1, <1>2 DEF Publish, SendReplace, Fresh, TypeOK, WatchTypeOK,
                    HoldsWhileDispatching, CutIffStale
<1>3. CASE Withdraw
  BY <1>1, <1>3 DEF Withdraw, SendReplace, TypeOK, WatchTypeOK,
                    HoldsWhileDispatching, CutIffStale
<1>4. CASE Quit
  BY <1>1, <1>4 DEF Quit, DropSender, TypeOK, WatchTypeOK,
                    HoldsWhileDispatching, CutIffStale
<1>5. CASE Restart
  BY <1>1, <1>5 DEF Restart, Busy, TypeOK, WatchTypeOK,
                    HoldsWhileDispatching, CutIffStale
<1>. QED
  BY <1>2, <1>3, <1>4, <1>5 DEF Publisher

\* The listener's invariant holds initially.
LEMMA MInitMInv == MInit => MInv
<1>. SUFFICES ASSUME MInit PROVE MInv
  OBVIOUS
<1>. USE DEF MInit, WatchInit, MixedInit
<1>1. Busy = {}
  BY DEF Busy
<1>2. PermitsConserved
  BY <1>1, FS_EmptySet, MixedAssumption DEF PermitsConserved
<1>. QED
  BY <1>2, MixedAssumption DEF MInv, TypeOK, WatchTypeOK, MixedTypeOK, TaskStates,
       Fates, HoldsWhileDispatching, CutIffStale

\* ... and in every state.
THEOREM MixedInvariant == MSpec => []MInv
<1>1. MInv /\ [MNext]_vars => MInv'
  <2>. SUFFICES ASSUME MInv, [MNext]_vars PROVE MInv'
    OBVIOUS
  <2>1. CASE MixedStep
    BY <2>1, ConnKeepsMInv, ListenerKeepsMInv DEF MixedStep
  <2>2. CASE Publisher /\ UNCHANGED mixedVars
    BY <2>2, PublisherKeepsMInv
  <2>3. CASE UNCHANGED vars
    BY <2>3 DEF vars, watchVars, mixedVars, MInv, TypeOK, WatchTypeOK, MixedTypeOK,
         HoldsWhileDispatching, PermitsConserved, CutIffStale, Busy
  <2>. QED
    BY <2>1, <2>2, <2>3 DEF MNext
<1>. QED
  BY <1>1, MInitMInv, PTL DEF MSpec

\* No permit is lost or invented, for any number of clients.
THEOREM MixedPermits == MSpec => []PermitsConserved
<1>1. MInv => PermitsConserved
  BY DEF MInv
<1>. QED
  BY <1>1, MixedInvariant, PTL

\* A dispatching task is told to stop exactly when its outlet is stale.
THEOREM MixedCutIffStale == MSpec => []CutIffStale
<1>1. MInv => CutIffStale
  BY DEF MInv
<1>. QED
  BY <1>1, MixedInvariant, PTL
=============================================================================
