--------------------------- MODULE RecoveryProofs ---------------------------
(* The recovery loop's safety for any pool, any Psiphon list, any threshold *)
(* and any number of connections, across crashes and restarts.              *)
EXTENDS Recovery, TLAPS

\* The types the argument needs; the plan and the cache play no part in it.
LoopTypeOK ==
  /\ WatchTypeOK
  /\ cfg \in [country : BOOLEAN, masque : BOOLEAN]
  /\ pc \in Pcs
  /\ base \in Outlets \cup {None} /\ built \in Outlets \cup {None}

RecInv ==
  /\ LoopTypeOK
  /\ ChannelFollowsLoop
  /\ Constructed
  /\ PrivateUntilPublished
  /\ HeartbeatHonest

\* Preparing an outlet, in all its attempts, keeps the invariant.
LEMMA PrepareKeepsRecInv ==
  ASSUME RecInv, PrepareStep
  PROVE  RecInv'
<1>. USE NoneIsNoOutlet DEF RecInv, LoopTypeOK, WatchTypeOK, Pcs, Preparing, Published,
       ChannelFollowsLoop, Constructed, PrivateUntilPublished, HeartbeatHonest, Held,
       loopVars, diskVars, envVars, watchVars
<1>1. CASE MasqueConnects
  BY <1>1 DEF MasqueConnects, Construct, Fresh
<1>2. CASE MasqueFails
  BY <1>2 DEF MasqueFails, GiveUp
<1>3. CASE MasqueProbed
  BY <1>3 DEF MasqueProbed, AfterBase
<1>4. CASE WireguardPlans
  BY <1>4 DEF WireguardPlans
<1>5. CASE WireguardFails
  BY <1>5 DEF WireguardFails, Goto
<1>6. CASE WgEstablishes
  BY <1>6 DEF WgEstablishes, Construct, Fresh
<1>7. CASE WgProbed
  BY <1>7 DEF WgProbed, AfterBase
<1>8. CASE WgFails
  BY <1>8 DEF WgFails
<1>9. CASE WgSaveFails
  BY <1>9 DEF WgSaveFails, GiveUp
<1>10. CASE UsesCache
  BY <1>10 DEF UsesCache, RegionOrders
<1>11. CASE Fetches
  BY <1>11 DEF Fetches, RegionOrders
<1>12. CASE RegionFails
  BY <1>12 DEF RegionFails, Goto
<1>13. CASE RegionConnects
  BY <1>13 DEF RegionConnects, Construct, Fresh
<1>14. CASE RegionProbed
  BY <1>14 DEF RegionProbed
<1>15. CASE EntryFails
  BY <1>15 DEF EntryFails
<1>16. CASE Budget
  BY <1>16 DEF Budget
<1>. QED
  BY <1>1, <1>2, <1>3, <1>4, <1>5, <1>6, <1>7, <1>8, <1>9, <1>10, <1>11, <1>12, <1>13, <1>14, <1>15, <1>16 DEF PrepareStep

\* Publishing, watching and withdrawing keep the invariant.
LEMMA WatchKeepsRecInv ==
  ASSUME RecInv, WatchStep
  PROVE  RecInv'
<1>. USE NoneIsNoOutlet DEF RecInv, LoopTypeOK, WatchTypeOK, Pcs, Preparing, Published,
       ChannelFollowsLoop, Constructed, PrivateUntilPublished, HeartbeatHonest, Held,
       loopVars, diskVars, envVars, watchVars
<1>1. CASE PublishOutlet
  BY <1>1 DEF PublishOutlet, SendReplace
<1>2. CASE Ready
  BY <1>2 DEF Ready
<1>3. CASE Terminated
  BY <1>3 DEF Terminated, Goto
<1>4. CASE ProbeSucceeds
  BY <1>4 DEF ProbeSucceeds
<1>5. CASE ProbeFails
  BY <1>5 DEF ProbeFails
<1>6. CASE WithdrawOutlet
  BY <1>6 DEF WithdrawOutlet, SendReplace
<1>7. CASE Unready
  BY <1>7 DEF Unready, Invalidate
<1>8. CASE Cool
  BY <1>8 DEF Cool
<1>9. CASE RoundEnd
  BY <1>9 DEF RoundEnd
<1>10. CASE BackoffOver
  BY <1>10 DEF BackoffOver, Goto
<1>. QED
  BY <1>1, <1>2, <1>3, <1>4, <1>5, <1>6, <1>7, <1>8, <1>9, <1>10 DEF WatchStep

\* So do deaths of outbounds and the passing of time.
LEMMA EnvironmentKeepsRecInv ==
  ASSUME RecInv, Environment
  PROVE  RecInv'
<1>. USE NoneIsNoOutlet DEF RecInv, LoopTypeOK, WatchTypeOK, Pcs, Preparing, Published,
       ChannelFollowsLoop, Constructed, PrivateUntilPublished, HeartbeatHonest, Held,
       loopVars, diskVars, envVars, watchVars
<1>1. CASE Dies
  BY <1>1 DEF Dies
<1>2. CASE CooldownExpires
  BY <1>2 DEF CooldownExpires
<1>3. CASE CacheAges
  BY <1>3 DEF CacheAges
<1>. QED
  BY <1>1, <1>2, <1>3 DEF Environment

\* Starting, looping and exiting keep the invariant.
LEMMA RecoveryStepKeepsRecInv ==
  ASSUME RecInv, RecoveryStep
  PROVE  RecInv'
<1>1. CASE Boot \/ Top \/ Exit
  BY <1>1, NoneIsNoOutlet DEF Boot, Top, Invalidate, Exit, DropSender, RecInv, LoopTypeOK,
     WatchTypeOK, Pcs, Preparing, Published, ChannelFollowsLoop, Constructed,
     PrivateUntilPublished, HeartbeatHonest, Held, diskVars, envVars, watchVars
<1>. QED
  BY <1>1, PrepareKeepsRecInv, WatchKeepsRecInv, EnvironmentKeepsRecInv DEF RecoveryStep

\* A restart begins with an empty channel and whatever the files say.
LEMMA RebootKeepsRecInv ==
  ASSUME RecInv, Reboot
  PROVE  RecInv'
  BY NoneIsNoOutlet DEF Reboot, RecInv, LoopTypeOK,
     WatchTypeOK, Pcs, Preparing, Published, ChannelFollowsLoop, Constructed,
     PrivateUntilPublished, HeartbeatHonest, Held, diskVars, envVars

\* The invariant holds initially.
LEMMA RecInitRecInv == WatchInit /\ RecInit => RecInv
  BY DEF WatchInit, RecInit, RecInv, LoopTypeOK, WatchTypeOK, Pcs, Preparing,
     Published, ChannelFollowsLoop, Constructed, PrivateUntilPublished, HeartbeatHonest, Held

\* Nothing of the loop moves: the invariant stays.
LEMMA StutterKeepsRecInv ==
  ASSUME RecInv, UNCHANGED rvars
  PROVE  RecInv'
  BY DEF rvars, recVars, loopVars, diskVars, envVars, watchVars, RecInv, LoopTypeOK,
     WatchTypeOK, ChannelFollowsLoop, Constructed, PrivateUntilPublished,
     HeartbeatHonest, Held

\* The recovery loop's invariant holds in every state.
THEOREM RecoveryInvariant == RSpec => []RecInv
<1>1. RecInv /\ [RNext]_rvars => RecInv'
  BY RecoveryStepKeepsRecInv, RebootKeepsRecInv, StutterKeepsRecInv DEF RNext
<1>. QED
  BY <1>1, RecInitRecInv, PTL DEF RSpec, RInit

\* Clients only ever get a verified outlet, in region mode never the base.
THEOREM RecoveryVerified == RSpec => []PublishedIsVerified
<1>1. RecInv => PublishedIsVerified
  BY NoneIsNoOutlet DEF RecInv, ChannelFollowsLoop, Constructed, Published, PublishedIsVerified
<1>. QED
  BY <1>1, RecoveryInvariant, PTL

\* A valid heartbeat means an outlet, across crashes and restarts.
THEOREM RecoveryHeartbeat == RSpec => []HeartbeatHonest
<1>1. RecInv => HeartbeatHonest
  BY DEF RecInv
<1>. QED
  BY <1>1, RecoveryInvariant, PTL
=============================================================================
