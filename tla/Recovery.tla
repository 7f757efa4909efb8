------------------------------ MODULE Recovery ------------------------------
(***************************************************************************)
(* supervisor.rs: the recovery loop.  Each round prepares an outlet (MASQUE *)
(* or a WireGuard endpoint as the base, and in region mode a Psiphon entry  *)
(* plus MASQUE H2 on top of it) within one 120 s budget, publishes it,      *)
(* watches it until it dies or fails its probes, withdraws it and backs     *)
(* off.  endpoint-state.json and the heartbeat file outlive the process.    *)
(*                                                                          *)
(* Time is not counted: a cooldown, the age of the candidate cache and      *)
(* every timer may run out at any moment they are pending.                  *)
(***************************************************************************)
EXTENDS Watch, Candidates, FiniteSets

CONSTANTS
  Pool,          \* candidate_pool(ENDPOINT_CANDIDATES), in order
  Entries,       \* Psiphon entries a fetched list may hold
  MaxTries,      \* entries tried per round (8)
  Threshold,     \* healthcheck_failure_threshold
  MaxU32         \* u32::MAX

ASSUME RecoveryAssumption ==
  /\ MaxTries \in Nat \ {0}
  /\ Threshold \in Nat
  /\ MaxU32 \in Nat \ {0}
  /\ None \notin ToSet(Pool) /\ None \notin Entries

VARIABLES
  cfg,          \* [country, masque]: PSIPHON_COUNTRY set, MASQUE enabled
  pc,           \* where recover_outbound is
  base,         \* SelectedWarp.outbound
  wgEndpoint,   \* SelectedWarp.wg_endpoint
  built,        \* the outbound of the current attempt, then the final outlet
  plan,         \* candidates still to try, the current one first
  candidates,   \* Option<CachedCandidates>
  failures,     \* consecutive failed rounds
  streak,       \* ThresholdRecovery.consecutive_failures
  lastGood,     \* endpoint-state.json: last_good_endpoint
  cooling,      \* endpoint-state.json: endpoints whose cooldown still runs
  heartbeat,    \* heartbeat file: "none", "zero", or "ok" (a success time)
  dead,         \* outbounds whose terminated() has resolved
  proved,       \* history: outbounds a WARP probe has succeeded through
  missed        \* history: failed probes since the last success

loopVars == <<pc, base, wgEndpoint, built, plan, candidates, failures, streak>>
diskVars == <<lastGood, cooling, heartbeat>>
envVars  == <<cfg, dead, proved, missed>>
recVars  == <<loopVars, diskVars, envVars>>

Preparing == {"masque", "masque_probe", "wireguard", "wg_try", "wg_probe",
              "region", "region_try", "region_probe"}
Pcs == Preparing \cup {"boot", "top", "publish", "ready", "watch", "withdraw",
                       "unready", "cool", "round_end", "backoff", "down"}

NoCache == [entries |-> {}, fresh |-> FALSE, preferred |-> None, some |-> FALSE]

Endpoints == ToSet(Pool)

RecInit ==
  /\ cfg \in [country : BOOLEAN, masque : BOOLEAN]
  /\ pc = "boot"
  /\ base = None /\ wgEndpoint = None /\ built = None
  /\ plan = <<>> /\ candidates = NoCache
  /\ failures = 0 /\ streak = 0
  /\ lastGood = None /\ cooling = {} /\ heartbeat = "none"
  /\ dead = {} /\ proved = {} /\ missed = 0

\* A probe through an outbound succeeds only while it is alive, and the
\* region path only while its base is.
Alive == built \notin dead /\ (cfg.country => base \notin dead)

\* Constructing an outbound: a new object, alive, not probed yet.
Construct(next) ==
  /\ \E o \in Fresh \ {base, built} :
       /\ built' = o
       /\ dead' = dead \cap {base}
       /\ proved' = proved \cap {base}
  /\ pc' = next
  /\ UNCHANGED <<cfg, missed, base, wgEndpoint, plan, candidates, failures,
                 streak, diskVars, watchVars>>

\* An attempt is given up: its outbound is dropped.
GiveUp(next) ==
  /\ pc' = next
  /\ built' = None
  /\ UNCHANGED <<base, wgEndpoint, plan, candidates, failures, streak,
                 diskVars, envVars, watchVars>>

Goto(next) ==
  /\ pc' = next
  /\ UNCHANGED <<base, wgEndpoint, built, plan, candidates, failures, streak,
                 diskVars, envVars, watchVars>>

-----------------------------------------------------------------------------
(* run and the head of the loop: heartbeat::invalidate.  Its failure ends  *)
(* the process, which is one of the ways of taking Exit.                   *)

Invalidate(from, next) ==
  /\ pc = from
  /\ pc' = next
  /\ heartbeat' = "zero"
  /\ UNCHANGED <<base, wgEndpoint, built, plan, candidates, failures, streak,
                 lastGood, cooling, envVars, watchVars>>

BadBoot == pc = "boot" /\ Goto("top")
Boot == Invalidate("boot", "top")
Top == Invalidate("top", IF cfg.masque THEN "masque" ELSE "wireguard")

-----------------------------------------------------------------------------
(* prepare_base: MASQUE first, WireGuard as the fallback.                  *)

MasqueConnects == pc = "masque" /\ Construct("masque_probe")
BadMasqueFails == pc \in {"masque", "masque_probe"} /\ GiveUp("round_end")
MasqueFails == pc \in {"masque", "masque_probe"} /\ GiveUp("wireguard")

AfterBase == IF cfg.country THEN "region" ELSE "publish"

MasqueProbed ==
  /\ pc = "masque_probe" /\ Alive
  /\ base' = built
  /\ proved' = proved \cup {built}
  /\ pc' = AfterBase
  /\ UNCHANGED <<cfg, dead, missed, wgEndpoint, built, plan, candidates,
                 failures, streak, diskVars, watchVars>>

\* ensure_account, JsonFileEndpointStore::load, plan_candidates
WireguardPlans ==
  /\ pc = "wireguard" /\ Pool # <<>>
  /\ plan' = PlanCandidates(Pool, lastGood, cooling)
  /\ pc' = "wg_try"
  /\ UNCHANGED <<base, wgEndpoint, built, candidates, failures, streak,
                 diskVars, envVars, watchVars>>

\* No account, registration refused, state file unreadable.
WireguardFails == pc = "wireguard" /\ Goto("round_end")

WgEstablishes == pc = "wg_try" /\ Construct("wg_probe")

\* WARP answered and wg.conf was written: record_success.
WgProbed ==
  /\ pc = "wg_probe" /\ Alive
  /\ base' = built
  /\ wgEndpoint' = Head(plan)
  /\ lastGood' = Head(plan)
  /\ cooling' = cooling \ {Head(plan)}
  /\ proved' = proved \cup {built}
  /\ pc' = AfterBase
  /\ UNCHANGED <<cfg, dead, missed, built, plan, candidates, failures, streak,
                 heartbeat, watchVars>>

\* The candidate failed anywhere on its way: mark_cooldown, next candidate.
WgFails ==
  /\ pc \in {"wg_try", "wg_probe"}
  /\ cooling' = cooling \cup {Head(plan)}
  /\ plan' = Tail(plan)
  /\ built' = None
  /\ pc' = IF Len(plan) = 1 THEN "round_end" ELSE "wg_try"
  /\ UNCHANGED <<base, wgEndpoint, candidates, failures, streak,
                 lastGood, heartbeat, envVars, watchVars>>

\* Saving the success or the cooldown failed: "?" ends the round.
WgSaveFails == pc \in {"wg_try", "wg_probe"} /\ GiveUp("round_end")

-----------------------------------------------------------------------------
(* prepare_region: SSH to a Psiphon entry over the base, MASQUE H2 over it *)

\* A round's order: shuffled, the preferred entry swapped to the front, cut
\* off after MaxTries.
Orders(cache) ==
  {SubSeq(s, 1, IF Len(s) < MaxTries THEN Len(s) ELSE MaxTries) :
     s \in {t \in SetToSeqs(cache.entries) :
              cache.preferred \in cache.entries => t[1] = cache.preferred}}

\* Taking the preference out of the cache and entering the attempts, or
\* falling through an empty list, which clears the cache.
RegionOrders(cache) ==
  /\ \E order \in Orders(cache) : plan' = order
  /\ candidates' = IF cache.entries = {} THEN NoCache
                   ELSE [cache EXCEPT !.preferred = None]
  /\ pc' = IF cache.entries = {} THEN "round_end" ELSE "region_try"
  /\ UNCHANGED <<base, wgEndpoint, built, failures, streak, diskVars, envVars, watchVars>>

UsesCache ==
  /\ pc = "region"
  /\ candidates.some /\ candidates.fresh
  /\ RegionOrders(candidates)

Fetches ==
  /\ pc = "region" /\ base \notin dead
  /\ ~(candidates.some /\ candidates.fresh)
  /\ \E es \in SUBSET Entries :
       RegionOrders([entries |-> es, fresh |-> TRUE, preferred |-> None, some |-> TRUE])

\* No MASQUE credentials, or the server list could not be fetched.
RegionFails == pc = "region" /\ Goto("round_end")

RegionConnects == pc = "region_try" /\ base \notin dead /\ Construct("region_probe")

RegionProbed ==
  /\ pc = "region_probe" /\ Alive
  /\ proved' = proved \cup {built}
  /\ candidates' = [candidates EXCEPT !.preferred = Head(plan)]
  /\ pc' = "publish"
  /\ UNCHANGED <<cfg, dead, missed, base, wgEndpoint, built, plan,
                 failures, streak, diskVars, watchVars>>

EntryFails ==
  /\ pc \in {"region_try", "region_probe"}
  /\ plan' = Tail(plan)
  /\ pc' = IF Len(plan) = 1 THEN "round_end" ELSE "region_try"
  /\ candidates' = IF Len(plan) = 1 THEN NoCache ELSE candidates
  /\ built' = None
  /\ UNCHANGED <<base, wgEndpoint, failures, streak, diskVars, envVars, watchVars>>

Budget ==
  /\ pc \in Preparing
  /\ candidates' = NoCache
  /\ pc' = "round_end"
  /\ UNCHANGED <<base, wgEndpoint, built, plan, failures, streak, diskVars,
                 envVars, watchVars>>

-----------------------------------------------------------------------------
(* publish, watch, withdraw                                                *)

\* state.send_replace(Some(outbound)); failures = 0
PublishOutlet ==
  /\ pc = "publish"
  /\ SendReplace(built)
  /\ failures' = 0
  /\ pc' = "ready"
  /\ UNCHANGED <<base, wgEndpoint, built, plan, candidates, streak, diskVars, envVars>>

\* heartbeat::record_success only logs a failed write; a new
\* ThresholdRecovery starts at zero.
Ready ==
  /\ pc = "ready"
  /\ heartbeat' \in {"ok", heartbeat}
  /\ streak' = 0 /\ missed' = 0
  /\ pc' = "watch"
  /\ UNCHANGED <<cfg, dead, proved, base, wgEndpoint, built, plan, candidates,
                 failures, lastGood, cooling, watchVars>>

\* WG_HEALTH_FAILURE_THRESHOLD for a direct WireGuard outlet, else the
\* configured one, never below 1.
FailureThreshold ==
  IF ~cfg.country /\ wgEndpoint # None THEN 1
  ELSE IF Threshold = 0 THEN 1 ELSE Threshold

Terminated == pc = "watch" /\ ~Alive /\ Goto("withdraw")

BadProbeSucceeds ==
  /\ pc = "watch" /\ Alive
  /\ heartbeat' \in {"ok", heartbeat}
  /\ missed' = 0
  /\ UNCHANGED <<loopVars, cfg, dead, proved, lastGood, cooling, watchVars>>
ProbeSucceeds ==
  /\ pc = "watch" /\ Alive
  /\ heartbeat' \in {"ok", heartbeat}
  /\ streak' = 0 /\ missed' = 0
  /\ UNCHANGED <<pc, base, wgEndpoint, built, plan, candidates, failures, cfg,
                 dead, proved, lastGood, cooling, watchVars>>

Saturating(n) == IF n = MaxU32 THEN MaxU32 ELSE n + 1

ProbeFails ==
  /\ pc = "watch"
  /\ streak' = Saturating(streak)
  /\ missed' = missed + 1
  /\ pc' = IF streak' >= FailureThreshold THEN "withdraw" ELSE "watch"
  /\ UNCHANGED <<base, wgEndpoint, built, plan, candidates, failures, cfg,
                 dead, proved, diskVars, watchVars>>

\* state.send_replace(None)
BadWithdrawOutlet == pc = "withdraw" /\ Goto("unready")
FallsBackToBase ==
  /\ pc = "withdraw"
  /\ SendReplace(base)
  /\ pc' = "unready"
  /\ UNCHANGED <<base, wgEndpoint, built, plan, candidates, failures, streak,
                 diskVars, envVars>>
WithdrawOutlet ==
  /\ pc = "withdraw"
  /\ SendReplace(None)
  /\ pc' = "unready"
  /\ UNCHANGED <<base, wgEndpoint, built, plan, candidates, failures, streak,
                 diskVars, envVars>>

Unready ==
  Invalidate("unready", IF ~cfg.country /\ wgEndpoint # None THEN "cool" ELSE "round_end")

\* load + mark_cooldown; a failure is only logged.
Cool ==
  /\ pc = "cool"
  /\ cooling' \in {cooling, cooling \cup {wgEndpoint}}
  /\ pc' = "round_end"
  /\ UNCHANGED <<base, wgEndpoint, built, plan, candidates, failures, streak,
                 lastGood, heartbeat, envVars, watchVars>>

\* The match arm is over: its outbounds are dropped, the back-off begins.
RoundEnd ==
  /\ pc = "round_end"
  /\ failures' = Saturating(failures)
  /\ base' = None /\ wgEndpoint' = None /\ built' = None /\ plan' = <<>>
  /\ dead' = {} /\ proved' = {}
  /\ pc' = "backoff"
  /\ UNCHANGED <<cfg, missed, candidates, streak, diskVars, watchVars>>

\* The random delay of 1 to 2^min(failures, 5) seconds is over.
BackoffOver == pc = "backoff" /\ Goto("top")

-----------------------------------------------------------------------------
(* the process and its environment                                         *)

\* Signal, crash, listener failure or a heartbeat that cannot be reset: the
\* sender goes, and with it everything in memory.
Exit ==
  /\ pc # "down"
  /\ pc' = "down"
  /\ DropSender
  /\ base' = None /\ wgEndpoint' = None /\ built' = None /\ plan' = <<>>
  /\ candidates' = NoCache /\ failures' = 0 /\ streak' = 0
  /\ dead' = {} /\ proved' = {} /\ missed' = 0
  /\ UNCHANGED <<cfg, diskVars>>

\* The container restarts the process; the files are as it left them.
Reboot ==
  /\ pc = "down"
  /\ pc' = "boot"
  /\ outlet' = None /\ unseen' = {} /\ sender' = TRUE
  /\ UNCHANGED <<holds, base, wgEndpoint, built, plan, candidates, failures,
                 streak, diskVars, envVars>>

Dies ==
  /\ \E o \in {base, built} \ (dead \cup {None}) : dead' = dead \cup {o}
  /\ UNCHANGED <<loopVars, diskVars, cfg, proved, missed, watchVars>>

CooldownExpires ==
  /\ \E e \in cooling : cooling' = cooling \ {e}
  /\ UNCHANGED <<loopVars, lastGood, heartbeat, envVars, watchVars>>

\* 24 h after the fetch.
CacheAges ==
  /\ candidates.fresh
  /\ candidates' = [candidates EXCEPT !.fresh = FALSE]
  /\ UNCHANGED <<pc, base, wgEndpoint, built, plan, failures, streak, diskVars,
                 envVars, watchVars>>

-----------------------------------------------------------------------------
(* the specification                                                       *)

PrepareStep ==
  \/ MasqueConnects \/ MasqueFails \/ MasqueProbed
  \/ WireguardPlans \/ WireguardFails \/ WgEstablishes \/ WgProbed \/ WgFails \/ WgSaveFails
  \/ UsesCache \/ Fetches \/ RegionFails \/ RegionConnects \/ RegionProbed \/ EntryFails
  \/ Budget

WatchStep ==
  \/ PublishOutlet \/ Ready \/ Terminated \/ ProbeSucceeds \/ ProbeFails
  \/ WithdrawOutlet \/ Unready \/ Cool \/ RoundEnd \/ BackoffOver

Environment == Dies \/ CooldownExpires \/ CacheAges

\* Everything but the restart, which Service.tla ties to the listener.
RecoveryStep == Boot \/ Top \/ PrepareStep \/ WatchStep \/ Exit \/ Environment

rvars == <<watchVars, recVars>>

RInit == WatchInit /\ RecInit
RNext == RecoveryStep \/ Reboot
RSpec == RInit /\ [][RNext]_rvars

\* The runtime runs the loop and its timers fire.  Nothing is assumed of the
\* awaits of the preparation: any of them may hang.
LoopFairness ==
  /\ WF_rvars(Boot) /\ WF_rvars(Top) /\ WF_rvars(Budget)
  /\ WF_rvars(WatchStep)

\* An environment in which MASQUE may be broken for ever, but WireGuard, the
\* server list and the Psiphon entries work again and again, and outbounds in
\* the end survive their own preparation.  A MASQUE attempt
\* has bounds of its own (two 30 s requests, 8 s dial, 10 s control stream,
\* 20 s probe by default), so it cannot eat the 120 s budget of every round.
KindEnvironment ==
  /\ SF_rvars(MasqueFails \/ MasqueProbed)
  /\ <>[][(pc \in Preparing \cup {"publish"}) => dead' \subseteq dead]_rvars
  /\ SF_rvars(WireguardPlans) /\ SF_rvars(WgEstablishes) /\ SF_rvars(WgProbed)
  /\ SF_rvars(RegionConnects) /\ SF_rvars(RegionProbed)
  /\ SF_rvars(UsesCache \/ (Fetches /\ plan' # <<>>))

RFairSpec == RSpec /\ LoopFairness

-----------------------------------------------------------------------------
(* Properties                                                              *)

\* Clients only ever get an outlet that a WARP probe has succeeded through
\* ("verify first, publish after", supervisor.rs:144-145); in region mode it
\* is the region path, never the bare base it runs over.
PublishedIsVerified ==
  sender /\ outlet # None => /\ outlet \in proved
                             /\ cfg.country => base # None /\ outlet # base

\* A heartbeat that the health check accepts means that there is an outlet,
\* also across crashes and restarts: a running process is excused only before
\* its first reset and between withdrawing an outlet and resetting the file
\* (supervisor.rs:112, 159-160).
HeartbeatHonest ==
  heartbeat = "ok" /\ pc \notin {"boot", "down", "unready"} => outlet # None


\* An outlet that is alive is withdrawn only after as many failed probes in a
\* row as its kind tolerates: one for a direct WireGuard outlet, the
\* configured threshold (at least one) otherwise (supervisor.rs:139-143,
\* recovery.rs:31-38).  And the endpoint in use is put into cooldown only after
\* its own outlet was withdrawn: nothing that happens to the region path on top
\* of it does that (supervisor.rs:161, CHANGELOG.md:12).
WithdrawnForCause ==
  /\ pc = "withdraw" /\ Alive => missed = FailureThreshold
  /\ wgEndpoint \in cooling => ~cfg.country /\ pc = "round_end"

\* The loop has no dead end.  However its awaits hang, a preparation ends, with
\* an outlet to publish or with the end of the round (supervisor.rs:130-136);
\* and in a kind environment a running process has an outlet again and again,
\* whatever failed before, even if MASQUE never works (supervisor.rs:260).
Recovers ==
  /\ (pc \in Preparing) ~> (pc \notin Preparing)
  /\ KindEnvironment => []<>(outlet # None \/ pc = "down")

(* The parts of the inductive invariant behind PublishedIsVerified and      *)
(* HeartbeatHonest.                                                         *)

Published == {"ready", "watch", "withdraw"}
Held == {holds[c] : c \in Conns}

\* The channel holds the loop's outlet exactly while the loop watches it.
ChannelFollowsLoop ==
  /\ sender <=> pc # "down"
  /\ sender => (outlet # None <=> pc \in Published)
  /\ pc \in Published => outlet = built

\* What has been constructed, probed and layered at each point of the loop.
Constructed ==
  /\ pc \in {"masque_probe", "wg_probe", "region_probe"} => built \in Outlets
  /\ pc \in {"region", "region_try", "region_probe"} => cfg.country /\ base \in Outlets
  /\ pc = "region_probe" => built # base
  /\ pc \in {"boot", "top", "masque", "wireguard", "wg_try", "backoff", "down"} => built = None
  /\ pc \in Published \cup {"publish"} =>
       /\ built \in Outlets /\ built \in proved
       /\ cfg.country => base \in Outlets /\ built # base

\* No connection holds an outbound before it is published.
PrivateUntilPublished ==
  pc \in Preparing \cup {"publish"} /\ built # None => built \notin Held
=============================================================================
