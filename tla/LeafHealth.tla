----------------------------- MODULE LeafHealth -----------------------------
(***************************************************************************)
(* The health of leaf entries: the cells of registry.rs's LeafEntry and    *)
(* the tasks that write them -                                             *)
(*   - the handshake task of an entry (registry.rs: initialize_all for the *)
(*     leaves of the config file; the same steps in api.rs, main.rs,       *)
(*     dns_discovery.rs and crd_discovery.rs for entries made later);      *)
(*   - its monitor (health.rs: monitor_leaf), if it has one.               *)
(* mark_healthy and its relatives take a lock per cell, so readers and the *)
(* other task may come in between two writes.                              *)
(*                                                                         *)
(* A leaf answers probes and list_tools exactly while it is up.  Of        *)
(* cached_tools only this is kept: whether it was written since the last   *)
(* recovery.  Resources, prompts and serverInfo are cached by the same     *)
(* pattern and are left out, as are the metrics.  The lazy refresh of the  *)
(* aggregator is off (tool_cache_ttl_seconds = 0).                         *)
(***************************************************************************)
EXTENDS Integers

CONSTANTS
  Leaves,            \* entries
  Startup,           \* those of the config file main starts with
  Enabled,           \* those with health_check.enabled
  FailureThreshold,  \* health_check.failure_threshold
  Base,              \* health_check.interval_seconds
  Multiplier,        \* health_check.backoff_multiplier, a whole number
  MAX_BACKOFF,       \* cap of the delay between probes
  MaxFailures        \* bound: probes that fail in a row

ASSUME LeafHealthAssumption ==
  /\ Startup \subseteq Leaves
  /\ Enabled \subseteq Leaves
  /\ FailureThreshold \in Nat
  /\ Base \in Nat
  /\ Multiplier \in Nat
  /\ MAX_BACKOFF \in Nat
  /\ MaxFailures \in Nat

\* What the delays need of powi: it begins with 1, is positive and never falls.
ASSUME PowiAssumption ==
  Multiplier > 1 =>
    /\ Multiplier ^ 0 = 1
    /\ \A n \in 0..MaxFailures :
         /\ Multiplier ^ n \in Nat \ {0}
         /\ n > 0 => Multiplier ^ n >= Multiplier ^ (n - 1)

VARIABLES
  up,            \* environment: the leaf answers
  init,          \* the handshake task of each entry
  mon,           \* the monitor of each entry
  main,          \* main is joining the handshakes, or serving
  health,        \* LeafEntry.health
  failures,      \* LeafEntry.consecutive_failures
  outdated,      \* LeafEntry.cached_tools not written since the last recovery
  was_unhealthy, \* the monitor's local of that name
  delay,         \* what the monitor sleeps until its next probe
  streak,        \* history: failed probes since the last success
  dead           \* history: the handshake failed and nothing succeeded since

cells == <<health, failures, outdated>>
history == <<streak, dead>>
vars == <<up, init, mon, main, cells, was_unhealthy, delay, history>>

\* failure_threshold.max(1)
Threshold == IF FailureThreshold < 1 THEN 1 ELSE FailureThreshold

\* Variant of next_delay: the first backoff is taken one failure early.
NextDelayEager(f) ==
  IF f + 1 < Threshold \/ Multiplier <= 1
  THEN IF Base < MAX_BACKOFF THEN Base ELSE MAX_BACKOFF
  ELSE LET grown == Base * Multiplier ^ (f + 1 - Threshold)
       IN IF grown < MAX_BACKOFF THEN grown ELSE MAX_BACKOFF

next_delay(f) ==
  IF f < Threshold \/ Multiplier <= 1
  THEN IF Base < MAX_BACKOFF THEN Base ELSE MAX_BACKOFF
  ELSE LET grown == Base * Multiplier ^ (f - Threshold)
       IN IF grown < MAX_BACKOFF THEN grown ELSE MAX_BACKOFF

Counts == 0..(MaxFailures + 1)

Delays == {Base} \cup {next_delay(f) : f \in Counts}

HealthState == {"Unknown", "Healthy", "Unhealthy"}

TypeOK ==
  /\ up \in [Leaves -> BOOLEAN]
  /\ init \in [Leaves -> {"handshake", "reset", "list", "count", "done"}]
  /\ mon \in [Leaves -> {"off", "sleep", "mark", "reset", "list", "trip", "rest"}]
  /\ main \in {"joining", "serving"}
  /\ health \in [Leaves -> HealthState]
  /\ failures \in [Leaves -> Counts]
  /\ outdated \in [Leaves -> BOOLEAN]
  /\ was_unhealthy \in [Leaves -> BOOLEAN]
  /\ delay \in [Leaves -> Delays]
  /\ streak \in [Leaves -> Nat]
  /\ dead \in [Leaves -> BOOLEAN]

\* LeafEntry::new_with_pool
Init ==
  /\ up \in [Leaves -> BOOLEAN]
  /\ init = [l \in Leaves |-> "handshake"]
  /\ mon = [l \in Leaves |-> "off"]
  /\ main = "joining"
  /\ health = [l \in Leaves |-> "Unknown"]
  /\ failures = [l \in Leaves |-> 0]
  /\ outdated = [l \in Leaves |-> FALSE]
  /\ was_unhealthy = [l \in Leaves |-> FALSE]
  /\ delay = [l \in Leaves |-> Base]
  /\ streak = [l \in Leaves |-> 0]
  /\ dead = [l \in Leaves |-> FALSE]

-----------------------------------------------------------------------------
\* The handshake task.

\* initialize fails: mark_unhealthy writes the health ...
HandshakeFails(l) ==
  /\ init[l] = "handshake"
  /\ l \in Startup \/ main = "serving"
  /\ ~up[l]
  /\ health' = [health EXCEPT ![l] = "Unhealthy"]
  /\ dead' = [dead EXCEPT ![l] = TRUE]
  /\ init' = [init EXCEPT ![l] = "count"]
  /\ UNCHANGED <<up, mon, main, failures, outdated, was_unhealthy, delay, streak>>

\* ... and then the counter.
CountFailure(l) ==
  /\ init[l] = "count"
  /\ failures' = [failures EXCEPT ![l] = @ + 1]
  /\ init' = [init EXCEPT ![l] = "done"]
  /\ UNCHANGED <<up, mon, main, health, outdated, was_unhealthy, delay, history>>

\* initialize succeeds: mark_healthy writes the health ...
HandshakeSucceeds(l) ==
  /\ init[l] = "handshake"
  /\ l \in Startup \/ main = "serving"
  /\ up[l]
  /\ health' = [health EXCEPT ![l] = "Healthy"]
  /\ init' = [init EXCEPT ![l] = "reset"]
  /\ UNCHANGED <<up, mon, main, failures, outdated, was_unhealthy, delay, history>>

\* ... and then the counter.
ResetAfterHandshake(l) ==
  /\ init[l] = "reset"
  /\ failures' = [failures EXCEPT ![l] = 0]
  /\ init' = [init EXCEPT ![l] = "list"]
  /\ UNCHANGED <<up, mon, main, health, outdated, was_unhealthy, delay, history>>

\* list_tools; a failure is logged and the cache stays as it was.
ListAfterHandshake(l) ==
  /\ init[l] = "list"
  /\ outdated' = [outdated EXCEPT ![l] = @ /\ ~up[l]]
  /\ init' = [init EXCEPT ![l] = "done"]
  /\ UNCHANGED <<up, mon, main, health, failures, was_unhealthy, delay, history>>

-----------------------------------------------------------------------------
\* Variant of Joined: start_health_monitor does not wait for the handshakes.
NotJoined == TRUE

\* initialize_all joins every handshake task before main goes on.
Joined == \A l \in Startup : init[l] = "done"

\* start_health_monitor: a task for every entry registered by now.
StartMonitors ==
  /\ main = "joining"
  /\ Joined
  /\ main' = "serving"
  /\ mon' = [l \in Leaves |-> IF l \in Startup /\ l \in Enabled THEN "sleep" ELSE "off"]
  /\ UNCHANGED <<up, init, cells, was_unhealthy, delay, history>>

-----------------------------------------------------------------------------
\* monitor_leaf.

\* The probe succeeds; the present state is read to tell a recovery.
ProbeSucceeds(l) ==
  /\ mon[l] = "sleep"
  /\ up[l]
  /\ was_unhealthy' = [was_unhealthy EXCEPT ![l] = health[l] = "Unhealthy"]
  /\ mon' = [mon EXCEPT ![l] = "mark"]
  /\ UNCHANGED <<up, init, main, cells, delay, history>>

\* mark_healthy writes the health ...
MarkHealthy(l) ==
  /\ mon[l] = "mark"
  /\ health' = [health EXCEPT ![l] = "Healthy"]
  /\ streak' = [streak EXCEPT ![l] = 0]
  /\ dead' = [dead EXCEPT ![l] = FALSE]
  /\ outdated' = [outdated EXCEPT ![l] = @ \/ was_unhealthy[l]]
  /\ mon' = [mon EXCEPT ![l] = "reset"]
  /\ UNCHANGED <<up, init, main, failures, was_unhealthy, delay>>

\* Variant of AfterSuccess: success does not clear the failures counted so far.
AfterSuccessKeeps(l) == failures[l]

\* mark_healthy's last write.
AfterSuccess(l) == 0

\* Variant of AfterReset: a recovered leaf is not asked for its tools.
AfterResetRests(l) == "rest"

AfterReset(l) == IF was_unhealthy[l] THEN "list" ELSE "rest"

\* ... and then the counter; a recovered leaf is asked for its tools.
ResetFailures(l) ==
  /\ mon[l] = "reset"
  /\ failures' = [failures EXCEPT ![l] = AfterSuccess(l)]
  /\ mon' = [mon EXCEPT ![l] = AfterReset(l)]
  /\ UNCHANGED <<up, init, main, health, outdated, was_unhealthy, delay, history>>

ListAfterRecovery(l) ==
  /\ mon[l] = "list"
  /\ outdated' = [outdated EXCEPT ![l] = @ /\ ~up[l]]
  /\ mon' = [mon EXCEPT ![l] = "rest"]
  /\ UNCHANGED <<up, init, main, health, failures, was_unhealthy, delay, history>>

\* Variant of Tripped: one failure more is tolerated.
TrippedLate(f) == f > Threshold

Tripped(f) == f >= Threshold

\* The probe fails: record_failure, and the threshold decides.
ProbeFails(l) ==
  /\ mon[l] = "sleep"
  /\ ~up[l]
  /\ failures[l] < MaxFailures
  /\ failures' = [failures EXCEPT ![l] = @ + 1]
  /\ streak' = [streak EXCEPT ![l] = @ + 1]
  /\ mon' = [mon EXCEPT ![l] = IF Tripped(failures[l] + 1) THEN "trip" ELSE "rest"]
  /\ UNCHANGED <<up, init, main, health, outdated, was_unhealthy, delay, dead>>

\* Variant of Trip: an open breaker is not probed any more.
TripAndStop(l) ==
  /\ mon[l] = "trip"
  /\ health' = [health EXCEPT ![l] = "Unhealthy"]
  /\ mon' = [mon EXCEPT ![l] = "off"]
  /\ UNCHANGED <<up, init, main, failures, outdated, was_unhealthy, delay, history>>

\* The threshold is reached: the leaf is taken out.
Trip(l) ==
  /\ mon[l] = "trip"
  /\ health' = [health EXCEPT ![l] = "Unhealthy"]
  /\ mon' = [mon EXCEPT ![l] = "rest"]
  /\ UNCHANGED <<up, init, main, failures, outdated, was_unhealthy, delay, history>>

\* The end of a round: the delay is computed and the monitor goes to sleep.
Rest(l) ==
  /\ mon[l] = "rest"
  /\ delay' = [delay EXCEPT ![l] = next_delay(failures[l])]
  /\ mon' = [mon EXCEPT ![l] = "sleep"]
  /\ UNCHANGED <<up, init, main, cells, was_unhealthy, history>>

-----------------------------------------------------------------------------
\* Environment: leaves come and go, as they like.
GoDown(l) ==
  /\ up[l]
  /\ up' = [up EXCEPT ![l] = FALSE]
  /\ UNCHANGED <<init, mon, main, cells, was_unhealthy, delay, history>>

ComeUp(l) ==
  /\ ~up[l]
  /\ up' = [up EXCEPT ![l] = TRUE]
  /\ UNCHANGED <<init, mon, main, cells, was_unhealthy, delay, history>>

HandshakeStep(l) ==
  \/ HandshakeFails(l) \/ CountFailure(l)
  \/ HandshakeSucceeds(l) \/ ResetAfterHandshake(l) \/ ListAfterHandshake(l)

MonitorStep(l) ==
  \/ ProbeSucceeds(l) \/ MarkHealthy(l) \/ ResetFailures(l) \/ ListAfterRecovery(l)
  \/ ProbeFails(l) \/ Trip(l) \/ Rest(l)

Next ==
  \/ StartMonitors
  \/ \E l \in Leaves : HandshakeStep(l) \/ MonitorStep(l) \/ GoDown(l) \/ ComeUp(l)

Spec == Init /\ [][Next]_vars

\* tokio runs every spawned task, every request to a leaf ends (timeouts) and
\* every sleep is finite; leaves are free to stay up or down.
Fairness ==
  /\ WF_vars(StartMonitors)
  /\ \A l \in Leaves : WF_vars(HandshakeStep(l)) /\ WF_vars(MonitorStep(l))

FairSpec == Spec /\ Fairness

-----------------------------------------------------------------------------
\* registry.rs:196, health.rs:10: the handshake task and the monitor of an entry
\* never work on its cells at the same time, which is what makes their writes to
\* several cells safe.
OneWriter == \A l \in Leaves : mon[l] # "off" => init[l] = "done"

\* health.rs: between two rounds of its monitor a leaf is out exactly when its
\* handshake failed and nothing succeeded since, or at least Threshold probes
\* failed in a row: a shorter blip never takes it out, and an outage always does.
OutIffDown ==
  \A l \in Leaves :
    mon[l] = "sleep" =>
      (health[l] = "Unhealthy" <=> dead[l] \/ streak[l] >= Threshold)

\* health.rs:62: the counter the monitor decides on is the number of failures
\* really seen, a failed handshake counted as one, at every position of the two
\* tasks; the strengthening of OutIffDown that is inductive.
CounterIsStreak ==
  \A l \in Leaves :
    /\ mon[l] \in {"sleep", "mark", "list", "trip", "rest"} =>
         failures[l] = streak[l] + (IF dead[l] THEN 1 ELSE 0)
    /\ mon[l] \in {"off", "reset"} => streak[l] = 0
    /\ mon[l] = "reset" => ~dead[l] /\ health[l] = "Healthy"
    /\ mon[l] = "list" => failures[l] = 0 /\ health[l] = "Healthy"
    /\ mon[l] = "trip" => failures[l] >= Threshold
    /\ mon[l] \in {"sleep", "mark", "rest"} =>
         (health[l] = "Unhealthy" <=> dead[l] \/ failures[l] >= Threshold)
    /\ init[l] \in {"handshake", "reset", "list"} => failures[l] = 0 /\ ~dead[l]
    /\ init[l] = "handshake" <=> health[l] = "Unknown"
    /\ init[l] \in {"reset", "list"} => health[l] = "Healthy"
    /\ init[l] = "count" => failures[l] = 0 /\ health[l] = "Unhealthy" /\ dead[l]
    /\ mon[l] = "off" /\ init[l] = "done" =>
         /\ failures[l] = IF dead[l] THEN 1 ELSE 0
         /\ health[l] = "Unhealthy" <=> dead[l]

\* main goes from the handshakes to the monitors, never back.
MainInOrder == IF main = "serving" THEN Joined ELSE \A l \in Leaves : mon[l] = "off"

\* A monitor sleeps no less than the base interval, and no more than its next
\* round would have it unless the leaf just answered.
DelaySoFar ==
  Base <= MAX_BACKOFF =>
    \A l \in Leaves :
      /\ delay[l] >= Base
      /\ mon[l] \in {"off", "sleep"} \/ failures[l] > 0 => delay[l] <= next_delay(failures[l])

\* registry.rs:196, health.rs:10: everything above, which holds at every step.
IInv == TypeOK /\ OneWriter /\ MainInOrder /\ CounterIsStreak /\ DelaySoFar

-----------------------------------------------------------------------------
\* health.rs:103: probes slow down only for a leaf that is already out and
\* failed again, and return to the base interval only once it recovered.  That
\* is for a base interval within MAX_BACKOFF, as every sensible one is: a longer
\* one is cut to MAX_BACKOFF by the first round.
BackoffOnlyWhenOut ==
  [][\A l \in Leaves :
       /\ delay'[l] > delay[l] => health[l] = "Unhealthy" /\ failures[l] > Threshold
       /\ delay'[l] < delay[l] => health[l] = "Healthy" /\ failures[l] = 0]_vars

Monitored == Startup \cap Enabled

\* health.rs:20: whatever happened before, a monitored leaf that stays up ends
\* in service and one that stays down ends out of it.
HealthConverges ==
  \A l \in Monitored :
    /\ <>[]up[l] => <>[](health[l] = "Healthy")
    /\ <>[]~up[l] => <>[](health[l] = "Unhealthy")

\* README.md:290 "On recovery the tool list is automatically refreshed": when a
\* leaf recovers its tool list is fresh before the next probe, unless the leaf
\* is down again by then.  The list is asked for once only (health.rs:51).
RecoveryRefreshes ==
  \A l \in Monitored :
    mon[l] = "mark" /\ was_unhealthy[l] ~> ~up[l] \/ (mon[l] = "rest" /\ ~outdated[l])

\* What readers of the cells may take for granted: the atomic circuit breaker.
\* A mark counts when its first write is done, or its last where that one is
\* what the router reads.
absHealth == [l \in Leaves |-> IF mon[l] = "trip" THEN "Unhealthy" ELSE health[l]]

absFailures ==
  [l \in Leaves |->
     CASE init[l] = "count" -> failures[l] + 1
       [] mon[l] = "reset" -> 0
       [] OTHER -> failures[l]]

B == INSTANCE Breaker WITH health <- absHealth, failures <- absFailures

\* registry.rs:53, health.rs:61: although every mark is several writes, the cells
\* behave as one atomic circuit breaker per leaf.
ImplementsBreaker == B!Spec
=============================================================================
