---------------------------- MODULE HealthWindow ----------------------------
(***************************************************************************)
(* The timing between watch_outbound (supervisor.rs), which refreshes the  *)
(* heartbeat file after each successful probe, and the separate healthcheck *)
(* process (bin/warp-socks.rs, health/heartbeat.rs), which calls the        *)
(* service unhealthy when the file is older than heartbeat_max_age.         *)
(* Time is in whole seconds.                                                *)
(***************************************************************************)
EXTENDS Naturals

CONSTANTS
  Interval,       \* healthcheck_interval
  ProbeTimeout,   \* healthcheck_probe_timeout
  Configured,     \* healthcheck_failure_threshold
  MaxU32          \* u32::MAX

ASSUME WindowAssumption ==
  /\ Interval \in Nat /\ ProbeTimeout \in Nat /\ MaxU32 \in Nat \ {0}
  /\ Configured \in 0..MaxU32

VARIABLES
  threshold,   \* of the current outlet: 1 (WireGuard), or the configured one
  phase,       \* "sleep", "probe", or "withdrawn": no outlet, heartbeat "0"
  clock,       \* seconds spent in this phase
  streak,      \* ThresholdRecovery.consecutive_failures
  age          \* seconds since the last record_success

wvars == <<threshold, phase, clock, streak, age>>

Round == Interval + ProbeTimeout

\* heartbeat_max_age: threshold + 1 rounds (saturating) and ten seconds.
BadMaxAge == Round * Configured
MaxAge == Round * (IF Configured = MaxU32 THEN MaxU32 ELSE Configured + 1) + 10

\* ThresholdRecovery::new
AtLeastOne(n) == IF n = 0 THEN 1 ELSE n

\* An outlet is published: record_success, then watch_outbound starts.
Publishes ==
  /\ phase = "withdrawn"
  /\ threshold' \in {1, AtLeastOne(Configured)}
  /\ phase' = "sleep" /\ clock' = 0 /\ streak' = 0 /\ age' = 0

WInit ==
  /\ threshold = 1 /\ phase = "withdrawn" /\ clock = 0 /\ streak = 0 /\ age = 0

\* A second passes; neither the sleep nor the probe outlasts its timer.
SecondPasses ==
  /\ \/ phase = "sleep" /\ clock < Interval
     \/ phase = "probe" /\ clock < ProbeTimeout
  /\ clock' = clock + 1 /\ age' = age + 1
  /\ UNCHANGED <<threshold, phase, streak>>

SleepOver ==
  /\ phase = "sleep" /\ clock = Interval
  /\ phase' = "probe" /\ clock' = 0
  /\ UNCHANGED <<threshold, streak, age>>

\* record_success and on_success
ProbeSucceeds ==
  /\ phase = "probe"
  /\ phase' = "sleep" /\ clock' = 0 /\ streak' = 0 /\ age' = 0
  /\ UNCHANGED threshold

\* on_failure, then send_replace(None) and invalidate at the threshold.
ProbeFails ==
  /\ phase = "probe"
  /\ streak' = IF streak = MaxU32 THEN MaxU32 ELSE streak + 1
  /\ phase' = IF streak' >= threshold THEN "withdrawn" ELSE "sleep"
  /\ clock' = 0
  /\ UNCHANGED <<threshold, age>>

\* watch_outbound sees terminated() first.
Terminates ==
  /\ phase # "withdrawn"
  /\ phase' = "withdrawn" /\ clock' = 0
  /\ UNCHANGED <<threshold, streak, age>>

WNext ==
  \/ Publishes \/ SecondPasses \/ SleepOver \/ ProbeSucceeds \/ ProbeFails \/ Terminates
WSpec == WInit /\ [][WNext]_wvars

\* evaluate: both times are whole seconds, so a file may look one older.
Expired == age + 1 > MaxAge

-----------------------------------------------------------------------------
(* Properties                                                              *)

\* Every variable keeps its type.
WTypeOK ==
  /\ threshold \in {1, AtLeastOne(Configured)}
  /\ phase \in {"sleep", "probe", "withdrawn"}
  /\ clock \in Nat /\ streak \in 0..MaxU32 /\ age \in Nat

\* The health check never declares an outlet dead on its own: as long as the
\* supervisor keeps an outlet published, the heartbeat has not expired, even
\* one probe before the threshold and with every probe at its timeout
\* (bin/warp-socks.rs:113-120).
FreshWhilePublished == phase # "withdrawn" => ~Expired

\* Why: the age is paid for by the failed rounds and the current one.
AgeIsPaidFor ==
  phase # "withdrawn" =>
    /\ streak < threshold
    /\ phase = "sleep" => clock <= Interval /\ age <= streak * Round + clock
    /\ phase = "probe" => clock <= ProbeTimeout /\ age <= streak * Round + Interval + clock
=============================================================================
