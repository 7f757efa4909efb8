---------------------------- MODULE ControlProofs ----------------------------
(* The control plane for every value of its constants: no device is         *)
(* forgotten by one registering process and one deleting one, whatever      *)
(* fails; the Teams account is one the API knows; an open endpoint store    *)
(* is on the disk; the heartbeat of a published outlet has not expired.     *)
EXTENDS Registration, Teams, EndpointStore, HealthWindow, FiniteSetTheorems, TLAPS

-----------------------------------------------------------------------------
(* Registration.  A process that is registering has found no file, and the *)
(* one that deletes holds the device in the file: with one of each, nobody *)
(* overwrites or drops the only reference to a device.                     *)

RegTypeOK ==
  /\ IsFiniteSet(created) /\ NoDevice \notin created /\ file \in Nat
  /\ pc \in [Procs -> {"idle", "post", "patch", "save", "load", "up", "delete", "remove"}]
  /\ dev \in [Procs -> Nat]

Holds ==
  \A p \in Procs :
    /\ pc[p] \in {"idle", "post", "load", "remove"} => dev[p] = NoDevice
    /\ pc[p] \in {"patch", "save"} => dev[p] # NoDevice
    /\ pc[p] \in {"post", "patch", "save"} => p # "del" /\ file = NoDevice
    /\ pc[p] \in {"delete", "remove"} => p = "del" /\ file # NoDevice
    /\ pc[p] \in {"load", "up"} => p # "del"
    /\ pc[p] = "delete" => dev[p] = file
    /\ pc[p] = "remove" => file \in deleted
    /\ pc[p] = "up" => dev[p] = file \/ dev[p] \in deleted

RegInv == RegTypeOK /\ Holds /\ NoLeak

OneRegistrar == \A p, q \in Procs : p # "del" /\ q # "del" => p = q

\* The number of a new device is not the mark for none.
LEMMA NewIsADevice ==
  ASSUME RegTypeOK
  PROVE  New \in Nat \ {NoDevice}
<1>1. Cardinality(created) \in Nat
  BY FS_CardinalityType DEF RegTypeOK
<1> QED
  BY <1>1 DEF New, NoDevice

LEMMA RegInitInv == RInit => RegInv
  BY FS_EmptySet DEF RInit, RegInv, RegTypeOK, Holds, NoLeak, NoDevice

LEMMA RegStepInv ==
  ASSUME OneRegistrar, RegInv, [RNext]_regVars
  PROVE  RegInv'
<1> USE DEF NoDevice
<1>0. CASE UNCHANGED regVars
  BY <1>0 DEF regVars, RegInv, RegTypeOK, Holds, NoLeak
<1>1. ASSUME NEW p \in Procs, Check(p) PROVE RegInv'
  <2>1. RegTypeOK'
    BY <1>1 DEF RegInv, RegTypeOK, Check, Goto
  <2>2. Holds'
    BY <1>1 DEF RegInv, RegTypeOK, Holds, Check, Goto, Registered
  <2>3. NoLeak'
    BY <1>1 DEF RegInv, RegTypeOK, Holds, NoLeak, Check, Goto, NoFault
  <2> QED
    BY <2>1, <2>2, <2>3 DEF RegInv
<1>2. ASSUME NEW p \in Procs, Post(p) PROVE RegInv'
  <2>0. New \in Nat \ {NoDevice}
    BY NewIsADevice DEF RegInv
  <2>1. RegTypeOK'
    <3>1. IsFiniteSet(created')
      <4>1. created' = created \/ created' = created \cup {New}
        BY <1>2 DEF Post
      <4> QED
        BY <4>1, FS_AddElement DEF RegInv, RegTypeOK
    <3> QED
      BY <1>2, <2>0, <3>1 DEF RegInv, RegTypeOK, Post, Goto, GiveUp, AfterPost
  <2>2. Holds'
    BY <1>2, <2>0 DEF RegInv, RegTypeOK, Holds, Post, Goto, GiveUp, AfterPost
  <2>3. NoLeak'
    BY <1>2, <2>0 DEF RegInv, RegTypeOK, Holds, NoLeak, Post, Goto, GiveUp, NoFault, AfterPost
  <2> QED
    BY <2>1, <2>2, <2>3 DEF RegInv
<1>3. ASSUME NEW p \in Procs, Patch(p) PROVE RegInv'
  <2>1. RegTypeOK'
    BY <1>3 DEF RegInv, RegTypeOK, Patch, Goto, GiveUp
  <2>2. Holds'
    BY <1>3 DEF RegInv, RegTypeOK, Holds, Patch, Goto, GiveUp
  <2>3. NoLeak'
    BY <1>3 DEF RegInv, RegTypeOK, Holds, NoLeak, Patch, Goto, GiveUp, NoFault
  <2> QED
    BY <2>1, <2>2, <2>3 DEF RegInv
<1>4. ASSUME NEW p \in Procs, Save(p) PROVE RegInv'
  <2>1. RegTypeOK'
    BY <1>4 DEF RegInv, RegTypeOK, Save, Goto, GiveUp
  <2>2. Holds'
    BY <1>4 DEF RegInv, RegTypeOK, Holds, OneRegistrar, Save, Goto, GiveUp
  <2>3. NoLeak'
    BY <1>4 DEF RegInv, RegTypeOK, Holds, NoLeak, Save, Goto, GiveUp, NoFault
  <2> QED
    BY <2>1, <2>2, <2>3 DEF RegInv
<1>5. ASSUME NEW p \in Procs, LoadReg(p) PROVE RegInv'
  <2>1. RegTypeOK'
    BY <1>5 DEF RegInv, RegTypeOK, LoadReg, Goto, AfterMissing
  <2>2. Holds'
    BY <1>5 DEF RegInv, RegTypeOK, Holds, LoadReg, Goto, AfterMissing
  <2>3. NoLeak'
    BY <1>5 DEF RegInv, RegTypeOK, Holds, NoLeak, LoadReg, Goto, AfterMissing, NoFault
  <2> QED
    BY <2>1, <2>2, <2>3 DEF RegInv
<1>6. ASSUME NEW p \in Procs, LinkEnds(p) PROVE RegInv'
  <2>1. RegTypeOK'
    BY <1>6 DEF RegInv, RegTypeOK, LinkEnds, Goto
  <2>2. Holds'
    BY <1>6 DEF RegInv, RegTypeOK, Holds, LinkEnds, Goto
  <2>3. NoLeak'
    BY <1>6 DEF RegInv, RegTypeOK, Holds, NoLeak, LinkEnds, Goto, NoFault
  <2> QED
    BY <2>1, <2>2, <2>3 DEF RegInv
<1>7. ASSUME NEW p \in Procs, DelRead(p) PROVE RegInv'
  <2>1. RegTypeOK'
    BY <1>7 DEF RegInv, RegTypeOK, DelRead, Goto
  <2>2. Holds'
    BY <1>7 DEF RegInv, RegTypeOK, Holds, DelRead, Goto
  <2>3. NoLeak'
    BY <1>7 DEF RegInv, RegTypeOK, Holds, NoLeak, DelRead, Goto
  <2> QED
    BY <2>1, <2>2, <2>3 DEF RegInv
<1>8. ASSUME NEW p \in Procs, Delete(p) PROVE RegInv'
  <2>1. RegTypeOK'
    BY <1>8 DEF RegInv, RegTypeOK, Delete, Goto, AfterDelete
  <2>2. Holds'
    BY <1>8 DEF RegInv, RegTypeOK, Holds, Delete, Goto, AfterDelete
  <2>3. NoLeak'
    BY <1>8 DEF RegInv, RegTypeOK, Holds, NoLeak, Delete, Goto, AfterDelete
  <2> QED
    BY <2>1, <2>2, <2>3 DEF RegInv
<1>9. ASSUME NEW p \in Procs, RemoveReg(p) PROVE RegInv'
  <2>1. RegTypeOK'
    BY <1>9 DEF RegInv, RegTypeOK, RemoveReg, Goto
  <2>2. Holds'
    BY <1>9 DEF RegInv, RegTypeOK, Holds, RemoveReg, Goto
  <2>3. NoLeak'
    BY <1>9 DEF RegInv, RegTypeOK, Holds, NoLeak, RemoveReg, Goto, NoFault
  <2> QED
    BY <2>1, <2>2, <2>3 DEF RegInv
<1>10. ASSUME NEW p \in Procs, Crash(p) PROVE RegInv'
  <2>1. RegTypeOK'
    BY <1>10 DEF RegInv, RegTypeOK, Crash, GiveUp, Goto
  <2>2. Holds'
    BY <1>10 DEF RegInv, RegTypeOK, Holds, Crash, GiveUp, Goto
  <2>3. NoLeak'
    BY <1>10 DEF RegInv, RegTypeOK, Holds, NoLeak, Crash, GiveUp, Goto
  <2> QED
    BY <2>1, <2>2, <2>3 DEF RegInv
<1> QED
  BY <1>0, <1>1, <1>2, <1>3, <1>4, <1>5, <1>6, <1>7, <1>8, <1>9, <1>10 DEF RNext, Step

\* With one registering and one deleting process, whatever requests, writes and
\* crashes do to them, every device at the API is in reg.json, in a process's
\* hands, or was given up by an attempt that failed.
THEOREM NothingForgotten ==
  ASSUME OneRegistrar
  PROVE  RSpec => []NoLeak
<1>1. RInit => RegInv
  BY RegInitInv
<1>2. RegInv /\ [RNext]_regVars => RegInv'
  BY OneRegistrar, RegStepInv
<1>3. RegInv => NoLeak
  BY DEF RegInv
<1> QED
  BY <1>1, <1>2, <1>3, PTL DEF RSpec

-----------------------------------------------------------------------------
(* The Teams registration                                                  *)

\* Each key the API knows is accounted for at every point of a call, and a
\* sleep is at least as long as what is left of the API's wait.
TeamsInv ==
  /\ teamsAt \in {"between", "post", "sleep", "save", "ready"}
  /\ calls \in Nat /\ tries \in Nat /\ wakeIn \in Nat /\ asked \in Nat
  /\ NoAccount \notin known /\ account \in {NoAccount, Torn} \cup known
  /\ teamsAt \in {"post", "sleep", "save"} =>
       account = NoAccount /\ calls > 0 /\ tries <= Retries /\ known \ given \subseteq {calls}
  /\ teamsAt = "save" => calls \in known
  /\ teamsAt = "ready" => account \in known
  /\ teamsAt \in {"between", "ready"} /\ account # Torn => known \ given \subseteq {account}
  /\ teamsAt = "post" => asked = 0
  /\ teamsAt = "sleep" => asked <= wakeIn /\ tries < Retries

\* The wait before the next attempt is never shorter than the API asked for.
LEMMA PauseIsEnough ==
  ASSUME NEW ask \in Nat, tries \in Nat
  PROVE  Pause(ask) \in Nat /\ ask <= Pause(ask)
<1>1. RetryDelay * tries \in Nat
  BY TeamsAssumption
<1> QED
  BY <1>1 DEF Pause, Later

LEMMA TeamsStepInv ==
  ASSUME TeamsInv, [TNext]_teamsVars
  PROVE  TeamsInv'
<1> USE TeamsAssumption DEF TeamsInv, NoAccount, Torn
<1>1. CASE UNCHANGED teamsVars
  BY <1>1 DEF teamsVars, times
<1>2. CASE UseAccount
  BY <1>2 DEF UseAccount, times
<1>3. CASE StartCall
  BY <1>3 DEF StartCall
<1>4. CASE Accepted
  BY <1>4 DEF Accepted, times
<1>5. CASE NotAccepted
  <2>1. PICK ask \in Asks : AttemptFails(ask)
    BY <1>5 DEF NotAccepted
  <2>2. ask \in Nat
    BY <2>1
  <2>6. Pause(ask) \in Nat /\ ask <= Pause(ask)
    BY <2>2, PauseIsEnough
  <2>3. known' = known \/ known' = known \cup {calls}
    BY <1>5 DEF NotAccepted, Acts
  <2>4. CASE tries >= Retries
    BY <1>5, <2>1, <2>3, <2>4 DEF NotAccepted, AttemptFails, CallFails
  <2>5. CASE tries < Retries
    BY <1>5, <2>1, <2>2, <2>3, <2>5, <2>6 DEF NotAccepted, AttemptFails
  <2> QED
    BY <2>4, <2>5
<1>6. CASE CallRejected
  BY <1>6 DEF CallRejected, CallFails, Acts
<1>7. CASE TryAgain
  BY <1>7 DEF TryAgain
<1>8. CASE SaveAccount
  BY <1>8 DEF SaveAccount, CallFails
<1>9. CASE Dropped
  BY <1>9 DEF Dropped, CallFails, Acts, Awaiting
<1>10. CASE RoundOver
  BY <1>10 DEF RoundOver, times
<1>11. CASE TeamsCrash
  <2>1. known' = known \/ (teamsAt = "post" /\ known' = known \cup {calls})
    BY <1>11 DEF TeamsCrash, Acts
  <2>2. account' = account \/ account' = Torn
    BY <1>11 DEF TeamsCrash
  <2> QED
    BY <1>11, <2>1, <2>2 DEF TeamsCrash, times
<1>12. CASE TeamsTick
  BY <1>12 DEF TeamsTick, Less, Awaiting
<1> QED
  BY <1>1, <1>2, <1>3, <1>4, <1>5, <1>6, <1>7, <1>8, <1>9, <1>10, <1>11, <1>12 DEF TNext

\* For every number of attempts, delay and answer: a round goes on only with a
\* key the API knows, no key the API knows is forgotten, and within a call no
\* attempt comes before the API asked for it.
THEOREM TeamsIsSound == TSpec => []TeamsSound
<1>1. TInit => TeamsInv
  BY TeamsAssumption DEF TInit, TeamsInv, NoAccount, Torn
<1>2. TeamsInv /\ [TNext]_teamsVars => TeamsInv'
  BY TeamsStepInv
<1>3. TeamsInv => TeamsSound
  BY DEF TeamsInv, TeamsSound, Awaiting
<1> QED
  BY <1>1, <1>2, <1>3, PTL DEF TSpec

-----------------------------------------------------------------------------
(* The endpoint store                                                      *)

\* What is in memory is a whole State record, and an open one is on the disk.
StoreInv == mem = [last |-> mem.last, cool |-> mem.cool] /\ OpenIsSaved

\* For every set of endpoints and every cooldown: what a process with an open
\* store believes is what the next process will load.
THEOREM OpenStoreIsSaved == StoreSpec => []OpenIsSaved
<1>1. StoreInit => StoreInv
  BY DEF StoreInit, StoreInv, OpenIsSaved, Empty
<1>2. StoreInv /\ [StoreNext]_esvars => StoreInv'
  <2> SUFFICES ASSUME StoreInv, [StoreNext]_esvars PROVE StoreInv'
    OBVIOUS
  <2>1. CASE Load
    <3>1. mem' = [last |-> mem'.last, cool |-> mem'.cool]
      BY <2>1 DEF Load, Pruned, InMemory, Empty
    <3> QED
      BY <2>1, <3>1 DEF StoreInv, OpenIsSaved, Load, InMemory
  <2>2. CASE Saved
    BY <2>2 DEF StoreInv, OpenIsSaved, Saved, OnDisk, InMemory
  <2>3. ASSUME NEW e \in Endpoints, RecordSuccess(e) \/ MarkCooldown(e) PROVE StoreInv'
    BY <2>3 DEF StoreInv, OpenIsSaved, RecordSuccess, MarkCooldown
  <2>4. CASE SaveFails \/ Close \/ PowerLoss
    BY <2>4 DEF StoreInv, OpenIsSaved, SaveFails, Close, PowerLoss
  <2>5. CASE Tick \/ UNCHANGED esvars
    BY <2>5 DEF StoreInv, OpenIsSaved, Tick, esvars, InMemory, Empty
  <2> QED
    BY <2>1, <2>2, <2>3, <2>4, <2>5 DEF StoreNext
<1>3. StoreInv => OpenIsSaved
  BY DEF StoreInv
<1> QED
  BY <1>1, <1>2, <1>3, PTL DEF StoreSpec

-----------------------------------------------------------------------------
(* The health window                                                       *)

WInv == WTypeOK /\ AgeIsPaidFor

\* A round is a natural number of seconds.
LEMMA RoundIsNat == Round \in Nat
  BY WindowAssumption DEF Round

\* One more failed round costs one Round.
LEMMA OneMoreRound ==
  ASSUME NEW s \in Nat
  PROVE  (s + 1) * Round = s * Round + Round /\ s * Round \in Nat
  BY RoundIsNat

\* Fewer failures than the threshold leave room for one more round.
LEMMA RoomForOne ==
  ASSUME NEW s \in Nat, NEW t \in Nat, s < t
  PROVE  s * Round + Round <= t * Round
<1>1. t - s - 1 \in Nat /\ t = s + 1 + (t - s - 1)
  OBVIOUS
<1>2. t * Round = s * Round + Round + (t - s - 1) * Round
  BY <1>1, RoundIsNat
<1>3. (t - s - 1) * Round \in Nat /\ s * Round \in Nat
  BY <1>1, RoundIsNat
<1>. QED
  BY <1>2, <1>3, RoundIsNat

\* The type invariant and the account of the age hold in every state.
THEOREM WindowInvariant == WSpec => []WInv
<1>1. WInit => WInv
  BY WindowAssumption DEF WInit, WInv, WTypeOK, AgeIsPaidFor, AtLeastOne
<1>2. WInv /\ [WNext]_wvars => WInv'
  <2>. SUFFICES ASSUME WInv, [WNext]_wvars PROVE WInv'
    OBVIOUS
  <2>. USE WindowAssumption, RoundIsNat DEF WInv, WTypeOK, AgeIsPaidFor
  <2>0. AtLeastOne(Configured) \in Nat \ {0} /\ AtLeastOne(Configured) <= MaxU32
    BY DEF AtLeastOne
  <2>1. CASE Publishes
    BY <2>0, <2>1 DEF Publishes
  <2>2. CASE SecondPasses
    BY <2>0, <2>2, OneMoreRound DEF SecondPasses
  <2>3. CASE SleepOver
    BY <2>0, <2>3, OneMoreRound DEF SleepOver
  <2>4. CASE ProbeSucceeds
    BY <2>0, <2>4 DEF ProbeSucceeds
  <2>5. CASE ProbeFails
    <3>1. CASE phase' = "withdrawn"
      BY <2>0, <2>5, <3>1 DEF ProbeFails
    <3>2. CASE phase' = "sleep"
      <4>1. streak' = streak + 1 /\ streak' < threshold /\ clock' = 0 /\ age' = age
        BY <2>0, <2>5, <3>2 DEF ProbeFails
      <4>2. streak' * Round = streak * Round + Round
        BY <4>1, OneMoreRound
      <4>3. age <= streak * Round + Round
        BY <2>5, OneMoreRound DEF ProbeFails, Round
      <4>. QED
        BY <2>0, <2>5, <3>2, <4>1, <4>2, <4>3 DEF ProbeFails
    <3>. QED
      BY <2>5, <3>1, <3>2 DEF ProbeFails
  <2>6. CASE Terminates
    BY <2>6 DEF Terminates
  <2>7. CASE UNCHANGED wvars
    BY <2>7 DEF wvars
  <2>. QED
    BY <2>1, <2>2, <2>3, <2>4, <2>5, <2>6, <2>7 DEF WNext
<1>. QED
  BY <1>1, <1>2, PTL DEF WSpec

\* heartbeat_max_age never expires under a published outlet.
THEOREM WindowSafe == WSpec => []FreshWhilePublished
<1>1. WInv => FreshWhilePublished
  <2>. SUFFICES ASSUME WInv, phase # "withdrawn" PROVE ~Expired
    BY DEF FreshWhilePublished
  <2>. USE WindowAssumption, RoundIsNat DEF WInv, WTypeOK, AgeIsPaidFor
  <2>0. threshold \in Nat /\ threshold <= MaxU32 /\ streak \in Nat /\ streak < threshold
    BY DEF AtLeastOne
  <2>1. age <= streak * Round + Round
    BY <2>0, OneMoreRound DEF Round
  <2>2. age <= threshold * Round
    BY <2>0, <2>1, RoomForOne, OneMoreRound
  <2>. DEFINE rounds == IF Configured = MaxU32 THEN MaxU32 ELSE Configured + 1
  <2>3. rounds \in Nat /\ threshold <= rounds
    BY <2>0 DEF AtLeastOne
  <2>4. threshold * Round <= rounds * Round
    <3>1. CASE threshold = rounds
      BY <2>0, <3>1, OneMoreRound
    <3>2. CASE threshold < rounds
      BY <2>0, <2>3, <3>2, RoomForOne, OneMoreRound
    <3>. HIDE DEF rounds
    <3>. QED
      BY <2>0, <2>3, <3>1, <3>2
  <2>5. MaxAge = rounds * Round + 10
    BY <2>3 DEF MaxAge
  <2>. HIDE DEF rounds
  <2>. QED
    BY <2>0, <2>2, <2>3, <2>4, <2>5, OneMoreRound DEF Expired
<1>. QED
  BY <1>1, WindowInvariant, PTL
=============================================================================
