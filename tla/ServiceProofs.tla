--------------------------- MODULE ServiceProofs ---------------------------
(* The composition: the recovery loop is a publisher the listener can live  *)
(* with, so the listener's theorems hold of the whole service, and what the *)
(* loop guarantees of an outlet reaches the clients.                        *)
EXTENDS Service, MixedProofs, RecoveryProofs

SInv == MInv /\ RecInv

\* To the channel, a step of the recovery loop is a step of the publisher
\* that Mixed expects, or nothing.
LEMMA LoopPublishes ==
  ASSUME RecInv, RecoveryStep
  PROVE  Publish \/ Withdraw \/ Quit \/ UNCHANGED watchVars
<1>. USE NoneIsNoOutlet
<1>1. CASE PublishOutlet
  <2>1. sender /\ outlet = None /\ built \in Outlets /\ built \notin Held
    BY <1>1 DEF PublishOutlet, RecInv, LoopTypeOK, ChannelFollowsLoop, Published,
         Constructed, PrivateUntilPublished
  <2>. QED
    BY <1>1, <2>1 DEF PublishOutlet, Publish, Fresh, Held
<1>2. CASE WithdrawOutlet
  BY <1>2 DEF WithdrawOutlet, Withdraw, RecInv, ChannelFollowsLoop, Published
<1>3. CASE Exit
  BY <1>3 DEF Exit, Quit, RecInv, ChannelFollowsLoop
<1>4. CASE Boot \/ Top \/ Environment
  BY <1>4 DEF Boot, Top, Invalidate, Environment, Dies, CooldownExpires, CacheAges
<1>5. CASE PrepareStep
  BY <1>5 DEF PrepareStep, MasqueConnects, MasqueFails, MasqueProbed, WireguardPlans,
       WireguardFails, WgEstablishes, WgProbed, WgFails, WgSaveFails, UsesCache, Fetches,
       RegionFails, RegionConnects, RegionProbed, EntryFails, Budget, Construct, GiveUp,
       Goto, RegionOrders
<1>6. CASE WatchStep /\ ~PublishOutlet /\ ~WithdrawOutlet
  BY <1>6 DEF WatchStep, Ready, Terminated, ProbeSucceeds, ProbeFails, Unready,
       Invalidate, Cool, RoundEnd, BackoffOver, Goto
<1>. QED
  BY <1>1, <1>2, <1>3, <1>4, <1>5, <1>6 DEF RecoveryStep, WatchStep

\* A new process is the restart that Mixed expects.
LEMMA RebootRestarts ==
  ASSUME RecInv, NewProcess
  PROVE  Restart
  BY DEF NewProcess, Reboot, Restart, RecInv, ChannelFollowsLoop

\* A listener step never touches the channel's value, and a task can only get
\* hold of the outlet that is in the channel.
LEMMA ListenerOnlyReads ==
  ASSUME MInv, MixedStep
  PROVE  /\ UNCHANGED <<outlet, sender>>
         /\ Held' \subseteq Held \cup {outlet, None}
<1>. USE DEF MInv, TypeOK, WatchTypeOK, Held
<1>1. ASSUME NEW c \in Conns, ConnStep(c)
      PROVE  /\ UNCHANGED <<outlet, sender>>
             /\ holds' \in {holds, [holds EXCEPT ![c] = outlet], [holds EXCEPT ![c] = None]}
  BY <1>1 DEF ConnStep, Borrow, Wakes, RecoveryWaitOver, Dispatched, OutletChanged,
       UnavailableDone, UnavailableChanged, Abort, End, TakeOutlet, MarkSeen, Release, watchVars
<1>2. ASSUME NEW l \in Listeners, ListenerStep(l)
      PROVE  UNCHANGED watchVars
  BY <1>2 DEF ListenerStep, AcceptError, AcceptAgain, RefuseNonLan, RefuseFull, Spawn
<1>3. CASE \E c \in Conns : ConnStep(c)
  BY <1>1, <1>3
<1>4. CASE \E l \in Listeners : ListenerStep(l)
  BY <1>2, <1>4 DEF watchVars
<1>. QED
  BY <1>3, <1>4 DEF MixedStep

\* Hence a listener step keeps the recovery loop's invariant.
LEMMA ListenerKeepsRecInv ==
  ASSUME MInv, RecInv, MixedStep, UNCHANGED recVars, MInv'
  PROVE  RecInv'
<1>1. UNCHANGED <<outlet, sender>> /\ Held' \subseteq Held \cup {outlet, None}
  BY ListenerOnlyReads
<1>2. PrivateUntilPublished'
  <2>. SUFFICES ASSUME pc \in Preparing \cup {"publish"}, built # None
                PROVE  built \notin Held'
    BY DEF PrivateUntilPublished, recVars, loopVars
  <2>1. outlet = None
    BY DEF RecInv, ChannelFollowsLoop, Preparing, Published
  <2>. QED
    BY <1>1, <2>1 DEF RecInv, PrivateUntilPublished
<1>3. LoopTypeOK'
  BY DEF RecInv, LoopTypeOK, recVars, loopVars, envVars, MInv, TypeOK
<1>4. ChannelFollowsLoop' /\ Constructed' /\ HeartbeatHonest'
  BY <1>1 DEF RecInv, ChannelFollowsLoop, Constructed, HeartbeatHonest, recVars,
       loopVars, envVars, diskVars
<1>. QED
  BY <1>2, <1>3, <1>4 DEF RecInv

\* The publisher's stutter keeps the listener's invariant.
LEMMA StutterKeepsMInv ==
  ASSUME MInv, UNCHANGED watchVars, UNCHANGED mixedVars
  PROVE  MInv'
  BY DEF watchVars, mixedVars, MInv, TypeOK, WatchTypeOK, MixedTypeOK,
     HoldsWhileDispatching, PermitsConserved, CutIffStale, Busy

\* Every step of the service is a step of the listener's specification.
LEMMA ServiceStepRefines ==
  ASSUME SInv, [SNext]_svars
  PROVE  [MNext]_vars /\ SInv'
<1>. USE DEF SInv
<1>1. CASE MixedStep /\ UNCHANGED recVars
  <2>1. MInv'
    BY <1>1, ConnKeepsMInv, ListenerKeepsMInv DEF MixedStep
  <2>. QED
    BY <1>1, <2>1, ListenerKeepsRecInv DEF MNext
<1>2. CASE RecoveryStep /\ UNCHANGED mixedVars
  <2>1. Publish \/ Withdraw \/ Quit \/ UNCHANGED watchVars
    BY <1>2, LoopPublishes
  <2>2. RecInv'
    BY <1>2, RecoveryStepKeepsRecInv
  <2>3. CASE UNCHANGED watchVars
    BY <1>2, <2>2, <2>3, StutterKeepsMInv DEF vars
  <2>4. CASE Publish \/ Withdraw \/ Quit
    BY <1>2, <2>2, <2>4, PublisherKeepsMInv DEF MNext, Publisher
  <2>. QED
    BY <2>1, <2>3, <2>4
<1>3. CASE NewProcess /\ UNCHANGED mixedVars
  <2>1. Restart
    BY <1>3, RebootRestarts
  <2>2. RecInv'
    BY <1>3, RebootKeepsRecInv DEF NewProcess
  <2>. QED
    BY <1>3, <2>1, <2>2, PublisherKeepsMInv DEF MNext, Publisher
<1>4. CASE UNCHANGED svars
  BY <1>4, StutterKeepsMInv, StutterKeepsRecInv DEF svars, vars, rvars
<1>. QED
  BY <1>1, <1>2, <1>3, <1>4 DEF SNext

\* The invariants of both parts hold of the composition.
THEOREM ServiceInvariant == SSpec => []SInv
<1>1. SInit => SInv
  BY MInitMInv, RecInitRecInv DEF SInit, MInit, SInv
<1>2. SInv /\ [SNext]_svars => SInv'
  BY ServiceStepRefines
<1>. QED
  BY <1>1, <1>2, PTL DEF SSpec

\* run_service implements the listener's specification: the recovery loop
\* keeps the publisher's contract, for every configuration.
THEOREM ServiceRefinesMixed == SSpec => MSpec
<1>1. SInit => MInit
  BY DEF SInit, MInit
<1>2. SInv /\ [SNext]_svars => [MNext]_vars
  BY ServiceStepRefines
<1>. QED
  BY <1>1, <1>2, ServiceInvariant, PTL DEF SSpec, MSpec

\* Whoever is being served, and not told to stop, is served through the
\* verified outlet that the loop is watching.
THEOREM ServiceServesVerified == SSpec => []ServedIsVerified
<1>1. SInv => ServedIsVerified
  <2>. SUFFICES ASSUME SInv, NEW c \in Conns, task[c] = "dispatch", ~Changed(c)
                PROVE  /\ holds[c] = outlet /\ holds[c] = built
                       /\ built \in proved
                       /\ pc \in Published
    BY DEF ServedIsVerified, Published
  <2>1. holds[c] = outlet /\ holds[c] # None /\ sender
    BY DEF SInv, MInv, CutIffStale, HoldsWhileDispatching, Changed
  <2>. QED
    BY <2>1 DEF SInv, RecInv, ChannelFollowsLoop, Constructed
<1>. QED
  BY <1>1, ServiceInvariant, PTL
=============================================================================
