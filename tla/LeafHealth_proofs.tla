------------------------- MODULE LeafHealth_proofs -------------------------
(***************************************************************************)
(* The cells of leaf entries are consistent and implement the circuit      *)
(* breaker, for every set of leaves and every setting of the monitor.      *)
(***************************************************************************)
EXTENDS LeafHealth, TLAPS

\* failure_threshold.max(1) is at least one.
LEMMA ThresholdPos == Threshold \in Nat /\ Threshold >= 1
  BY LeafHealthAssumption DEF Threshold

\* The first delay of a monitor and those it computes later are in the schedule.
LEMMA DelayFacts == Base \in Delays /\ \A f \in Counts : next_delay(f) \in Delays
  BY Zenon DEF Delays

\* health.rs:103: a delay is at least the base interval, and is that interval as
\* long as the threshold is not passed.
LEMMA DelayFromBase ==
  ASSUME Base <= MAX_BACKOFF, NEW f \in Counts
  PROVE  /\ next_delay(f) \in Nat
         /\ next_delay(f) >= Base
         /\ f <= Threshold => next_delay(f) = Base
  <1> USE LeafHealthAssumption, ThresholdPos DEF Counts
  <1>1. CASE f < Threshold \/ Multiplier <= 1
    BY <1>1 DEF next_delay
  <1>2. CASE f >= Threshold /\ Multiplier > 1
    <2>1. f - Threshold \in 0..MaxFailures
      BY <1>2
    <2>2. PICK p \in Nat \ {0} : p = Multiplier ^ (f - Threshold)
      BY <1>2, <2>1, PowiAssumption
    <2>3. next_delay(f) = IF Base * p < MAX_BACKOFF THEN Base * p ELSE MAX_BACKOFF
      BY <1>2, <2>2 DEF next_delay
    <2>4. Base * p \in Nat /\ Base * p >= Base
      BY <2>2
    <2>5. ASSUME f <= Threshold PROVE p = 1
      <3>1. f - Threshold = 0
        BY <1>2, <2>5
      <3> QED BY <1>2, <2>2, <3>1, PowiAssumption
    <2> QED
      BY <2>3, <2>4, <2>5
  <1> QED
    BY <1>1, <1>2

\* health.rs:103: one failure more never shortens the delay.
LEMMA DelayGrows ==
  ASSUME Base <= MAX_BACKOFF, NEW f \in 0..MaxFailures
  PROVE  next_delay(f) <= next_delay(f + 1)
  <1> USE LeafHealthAssumption, ThresholdPos DEF Counts
  <1>1. CASE f < Threshold \/ Multiplier <= 1
    <2>1. next_delay(f) = Base
      BY <1>1 DEF next_delay
    <2> QED
      BY <2>1, DelayFromBase
  <1>2. CASE f >= Threshold /\ Multiplier > 1
    <2>1. f + 1 - Threshold \in 1..MaxFailures /\ (f + 1 - Threshold) - 1 = f - Threshold
      BY <1>2
    <2>2. PICK n \in 1..MaxFailures : n = f + 1 - Threshold /\ n - 1 = f - Threshold
      BY <2>1
    <2>3. Multiplier ^ n \in Nat /\ Multiplier ^ (n - 1) \in Nat /\ Multiplier ^ n >= Multiplier ^ (n - 1)
      BY <1>2, PowiAssumption
    <2>4. PICK p \in Nat, q \in Nat : p = Multiplier ^ (n - 1) /\ q = Multiplier ^ n /\ p <= q
      BY <2>3
    <2>5. next_delay(f) = IF Base * p < MAX_BACKOFF THEN Base * p ELSE MAX_BACKOFF
      BY <1>2, <2>2, <2>4 DEF next_delay
    <2>6. next_delay(f + 1) = IF Base * q < MAX_BACKOFF THEN Base * q ELSE MAX_BACKOFF
      <3>1. ~(f + 1 < Threshold \/ Multiplier <= 1)
        BY <1>2
      <3> QED BY <2>2, <2>4, <3>1 DEF next_delay
    <2>7. Base * p \in Nat /\ Base * q \in Nat /\ Base * p <= Base * q
      BY <2>4
    <2> QED
      BY <2>5, <2>6, <2>7
  <1> QED
    BY <1>1, <1>2

\* LeafEntry::new_with_pool establishes the invariant.
LEMMA InitIInv == Init => IInv
  <1> SUFFICES ASSUME Init PROVE IInv
    OBVIOUS
  <1>1. TypeOK
    BY LeafHealthAssumption, DelayFacts DEF Init, TypeOK, HealthState, Counts
  <1>2. OneWriter
    BY DEF Init, OneWriter
  <1>3. CounterIsStreak
    BY DEF Init, CounterIsStreak
  <1>4. DelaySoFar
    <2> SUFFICES ASSUME Base <= MAX_BACKOFF, NEW l \in Leaves
                 PROVE  delay[l] >= Base /\ delay[l] <= next_delay(failures[l])
      BY DEF DelaySoFar
    <2>1. delay[l] = Base /\ failures[l] = 0 /\ 0 \in Counts
      BY LeafHealthAssumption DEF Init, Counts
    <2> QED
      BY <2>1, DelayFromBase, LeafHealthAssumption
  <1> QED
    BY <1>1, <1>2, <1>3, <1>4 DEF Init, IInv, MainInOrder

\* Every step keeps the types: in particular no counter passes its bound and
\* no delay leaves the schedule.
LEMMA StepTypeOK == ASSUME IInv, Next PROVE TypeOK'
  <1> USE LeafHealthAssumption DEF TypeOK, HealthState, Counts, cells, history
  <1>0. TypeOK
    BY DEF IInv
  <1>1. CASE StartMonitors
    BY <1>0, <1>1 DEF StartMonitors
  <1>2. ASSUME NEW l \in Leaves, HandshakeFails(l) PROVE TypeOK'
    BY <1>0, <1>2 DEF HandshakeFails
  <1>3. ASSUME NEW l \in Leaves, CountFailure(l) PROVE TypeOK'
    <2>1. failures[l] = 0
      BY <1>3 DEF CountFailure, IInv, CounterIsStreak
    <2> QED
      BY <1>0, <1>3, <2>1 DEF CountFailure
  <1>4. ASSUME NEW l \in Leaves, HandshakeSucceeds(l) PROVE TypeOK'
    BY <1>0, <1>4 DEF HandshakeSucceeds
  <1>5. ASSUME NEW l \in Leaves, ResetAfterHandshake(l) PROVE TypeOK'
    BY <1>0, <1>5 DEF ResetAfterHandshake
  <1>6. ASSUME NEW l \in Leaves, ListAfterHandshake(l) PROVE TypeOK'
    BY <1>0, <1>6 DEF ListAfterHandshake
  <1>7. ASSUME NEW l \in Leaves, ProbeSucceeds(l) PROVE TypeOK'
    BY <1>0, <1>7 DEF ProbeSucceeds
  <1>8. ASSUME NEW l \in Leaves, MarkHealthy(l) PROVE TypeOK'
    BY <1>0, <1>8 DEF MarkHealthy
  <1>9. ASSUME NEW l \in Leaves, ResetFailures(l) PROVE TypeOK'
    BY <1>0, <1>9 DEF ResetFailures, AfterReset, AfterSuccess
  <1>10. ASSUME NEW l \in Leaves, ListAfterRecovery(l) PROVE TypeOK'
    BY <1>0, <1>10 DEF ListAfterRecovery
  <1>11. ASSUME NEW l \in Leaves, ProbeFails(l) PROVE TypeOK'
    BY <1>0, <1>11 DEF ProbeFails
  <1>12. ASSUME NEW l \in Leaves, Trip(l) PROVE TypeOK'
    BY <1>0, <1>12 DEF Trip
  <1>13. ASSUME NEW l \in Leaves, Rest(l) PROVE TypeOK'
    BY <1>0, <1>13, DelayFacts DEF Rest
  <1>14. ASSUME NEW l \in Leaves, GoDown(l) PROVE TypeOK'
    BY <1>0, <1>14 DEF GoDown
  <1>15. ASSUME NEW l \in Leaves, ComeUp(l) PROVE TypeOK'
    BY <1>0, <1>15 DEF ComeUp
  <1> HIDE DEF TypeOK
  <1> QED
    BY <1>1, <1>2, <1>3, <1>4, <1>5, <1>6, <1>7, <1>8, <1>9, <1>10, <1>11, <1>12, <1>13, <1>14, <1>15 DEF Next, HandshakeStep, MonitorStep

\* Delays are natural numbers.
LEMMA DelaysNat ==
  ASSUME Base <= MAX_BACKOFF, TypeOK, NEW l \in Leaves
  PROVE  delay[l] \in Nat
  <1>1. delay[l] = Base \/ \E f \in Counts : delay[l] = next_delay(f)
    BY DEF TypeOK, Delays
  <1> QED
    BY <1>1, DelayFromBase, LeafHealthAssumption

\* Every step keeps the delays within their bounds.
LEMMA StepDelaySoFar ==
  ASSUME IInv, [Next]_vars, TypeOK'
  PROVE  DelaySoFar'
  <1> SUFFICES ASSUME Base <= MAX_BACKOFF, NEW l \in Leaves
               PROVE  /\ delay'[l] >= Base
                      /\ mon'[l] \in {"off", "sleep"} \/ failures'[l] > 0
                           => delay'[l] <= next_delay(failures'[l])
    BY DEF DelaySoFar
  <1> USE LeafHealthAssumption DEF IInv
  <1>1. /\ delay[l] \in Nat
        /\ failures[l] \in Counts /\ failures'[l] \in Counts
        /\ delay[l] >= Base
        /\ mon[l] \in {"off", "sleep"} \/ failures[l] > 0 => delay[l] <= next_delay(failures[l])
    BY DelaysNat DEF DelaySoFar, TypeOK
  <1>2. CASE mon'[l] = mon[l] /\ failures'[l] = failures[l] /\ delay'[l] = delay[l]
    BY <1>1, <1>2
  <1>3. CASE StartMonitors
    <2>1. mon[l] = "off" /\ failures'[l] = failures[l] /\ delay'[l] = delay[l]
      BY <1>3 DEF StartMonitors, MainInOrder, cells
    <2> QED BY <1>1, <2>1
  <1>4. CASE HandshakeStep(l)
    <2>1. mon[l] = "off" /\ delay'[l] = delay[l] /\ mon'[l] = mon[l]
      BY <1>4 DEF HandshakeStep, HandshakeFails, CountFailure, HandshakeSucceeds,
                  ResetAfterHandshake, ListAfterHandshake, OneWriter, TypeOK
    <2>2. failures[l] = 0
      BY <1>4, <2>1 DEF HandshakeStep, HandshakeFails, CountFailure, HandshakeSucceeds,
                  ResetAfterHandshake, ListAfterHandshake, CounterIsStreak, TypeOK
    <2>3. delay[l] = Base
      <3>1. 0 \in Counts /\ 0 <= Threshold
        BY ThresholdPos DEF Counts
      <3>2. next_delay(0) = Base
        BY <3>1, DelayFromBase
      <3> QED BY <1>1, <2>1, <2>2, <3>2
    <2> QED BY <1>1, <2>1, <2>3, DelayFromBase
  <1>5. CASE ProbeSucceeds(l) \/ MarkHealthy(l) \/ ListAfterRecovery(l) \/ Trip(l)
    <2>1. failures'[l] = failures[l] /\ delay'[l] = delay[l] /\ mon'[l] \notin {"off", "sleep"}
      BY <1>5 DEF ProbeSucceeds, MarkHealthy, ListAfterRecovery, Trip, TypeOK, cells
    <2> QED BY <1>1, <2>1
  <1>6. CASE ResetFailures(l)
    <2>1. failures'[l] = 0 /\ delay'[l] = delay[l] /\ mon'[l] \notin {"off", "sleep"}
      BY <1>6 DEF ResetFailures, AfterSuccess, AfterReset, TypeOK
    <2> QED BY <1>1, <2>1
  <1>7. CASE ProbeFails(l)
    <2>1. /\ mon[l] = "sleep" /\ failures[l] \in 0..MaxFailures
          /\ failures'[l] = failures[l] + 1 /\ delay'[l] = delay[l]
      BY <1>7 DEF ProbeFails, TypeOK, Counts
    <2>2. next_delay(failures[l]) <= next_delay(failures[l] + 1)
      BY <2>1, DelayGrows
    <2>3. next_delay(failures[l]) \in Nat /\ next_delay(failures[l] + 1) \in Nat
      BY <1>1, <2>1, DelayFromBase
    <2> QED BY <1>1, <2>1, <2>2, <2>3
  <1>8. CASE Rest(l)
    <2>1. failures'[l] = failures[l] /\ delay'[l] = next_delay(failures[l])
      BY <1>8 DEF Rest, TypeOK, cells
    <2> QED BY <1>1, <2>1, DelayFromBase
  <1>9. ASSUME NEW k \in Leaves, k # l, HandshakeStep(k) \/ MonitorStep(k)
        PROVE  mon'[l] = mon[l] /\ failures'[l] = failures[l] /\ delay'[l] = delay[l]
    BY <1>9 DEF HandshakeStep, HandshakeFails, CountFailure, HandshakeSucceeds,
                ResetAfterHandshake, ListAfterHandshake, MonitorStep, ProbeSucceeds, MarkHealthy,
                ResetFailures, ListAfterRecovery, ProbeFails, Trip, Rest, TypeOK, cells
  <1>10. ASSUME NEW k \in Leaves, GoDown(k) \/ ComeUp(k)
         PROVE  mon'[l] = mon[l] /\ failures'[l] = failures[l] /\ delay'[l] = delay[l]
    BY <1>10 DEF GoDown, ComeUp, cells
  <1>11. CASE UNCHANGED vars
    BY <1>2, <1>11 DEF vars, cells
  <1> QED
    BY <1>2, <1>3, <1>4, <1>5, <1>6, <1>7, <1>8, <1>9, <1>10, <1>11 DEF Next, MonitorStep

\* Every step of a task or of the environment preserves the invariant.
LEMMA NextIInv == IInv /\ [Next]_vars => IInv'
  <1> SUFFICES ASSUME IInv, [Next]_vars PROVE IInv'
    OBVIOUS
  <1> USE LeafHealthAssumption, ThresholdPos DEF IInv
  <1>1. CASE StartMonitors
    <2>1. TypeOK'
      BY StepTypeOK, <1>1 DEF Next
    <2>2. OneWriter' /\ MainInOrder'
      BY <1>1 DEF StartMonitors, TypeOK, OneWriter, MainInOrder, Joined, cells, history
    <2>3. CounterIsStreak'
      BY <1>1 DEF StartMonitors, TypeOK, OneWriter, MainInOrder, Joined, CounterIsStreak, cells, history
    <2> QED
      BY <2>1, <2>2, <2>3, StepDelaySoFar DEF Next
  <1>2. ASSUME NEW l \in Leaves, HandshakeStep(l) PROVE IInv'
    <2>0. init[l] # "done" /\ mon[l] = "off"
      BY <1>2 DEF HandshakeStep, HandshakeFails, CountFailure, HandshakeSucceeds,
                  ResetAfterHandshake, ListAfterHandshake, OneWriter, TypeOK
    <2>1. TypeOK'
      BY StepTypeOK, <1>2 DEF Next
    <2>2. OneWriter' /\ MainInOrder'
      BY <1>2, <2>0 DEF HandshakeStep, HandshakeFails, CountFailure, HandshakeSucceeds,
                  ResetAfterHandshake, ListAfterHandshake, TypeOK, OneWriter, MainInOrder, Joined, history
    <2>3. CounterIsStreak'
      BY <1>2, <2>0 DEF HandshakeStep, HandshakeFails, CountFailure, HandshakeSucceeds,
                  ResetAfterHandshake, ListAfterHandshake, TypeOK, CounterIsStreak, Counts, history
    <2> QED
      BY <2>1, <2>2, <2>3, StepDelaySoFar DEF Next
  <1>3. ASSUME NEW l \in Leaves, MonitorStep(l) PROVE IInv'
    <2>0. mon[l] # "off" /\ init[l] = "done"
      BY <1>3 DEF MonitorStep, ProbeSucceeds, MarkHealthy, ResetFailures, ListAfterRecovery,
                  ProbeFails, Trip, Rest, OneWriter, TypeOK
    <2>1. TypeOK'
      BY StepTypeOK, <1>3 DEF Next
    <2>2. OneWriter' /\ MainInOrder'
      BY <1>3, <2>0 DEF MonitorStep, ProbeSucceeds, MarkHealthy, ResetFailures,
                  ListAfterRecovery, ProbeFails, Trip, Rest, TypeOK, OneWriter, MainInOrder, Joined
    <2>3. CounterIsStreak'
      BY <1>3, <2>0 DEF MonitorStep, ProbeSucceeds, MarkHealthy, ResetFailures,
                  ListAfterRecovery, ProbeFails, Trip, Rest, TypeOK, CounterIsStreak, Counts,
                  Tripped, AfterSuccess, AfterReset, cells, history
    <2> QED
      BY <2>1, <2>2, <2>3, StepDelaySoFar DEF Next
  <1>4. ASSUME NEW l \in Leaves, GoDown(l) \/ ComeUp(l) PROVE IInv'
    <2>1. TypeOK'
      BY StepTypeOK, <1>4 DEF Next
    <2>2. OneWriter' /\ MainInOrder'
      BY <1>4 DEF GoDown, ComeUp, OneWriter, MainInOrder, Joined
    <2>3. CounterIsStreak'
      BY <1>4 DEF GoDown, ComeUp, CounterIsStreak, cells, history
    <2> QED
      BY <2>1, <2>2, <2>3, StepDelaySoFar DEF Next
  <1>5. CASE UNCHANGED vars
    <2>1. TypeOK' /\ OneWriter' /\ MainInOrder' /\ CounterIsStreak'
      BY <1>5 DEF vars, TypeOK, OneWriter, MainInOrder, Joined, CounterIsStreak, cells, history
    <2> QED
      BY <2>1, StepDelaySoFar
  <1> QED
    BY <1>1, <1>2, <1>3, <1>4, <1>5 DEF Next

\* registry.rs:196, health.rs:20: the cells of an entry, the position of its
\* tasks and the failures really seen agree in every reachable state, for any
\* number of leaves.
THEOREM CellsConsistent == Spec => []IInv
  BY InitIInv, NextIInv, PTL DEF Spec

\* health.rs:61: a leaf is out between rounds exactly when it should be: no
\* blip shorter than the threshold takes it out, every longer outage does.
THEOREM OutExactlyWhenDown == Spec => []OutIffDown
  <1>1. IInv => OutIffDown
    BY ThresholdPos DEF IInv, TypeOK, CounterIsStreak, OutIffDown, Counts
  <1> QED
    BY <1>1, CellsConsistent, PTL

\* Steps that are invisible to a reader of the abstract breaker.
LEMMA SilentSteps ==
  ASSUME IInv, NEW l \in Leaves,
         \/ CountFailure(l) \/ ResetAfterHandshake(l) \/ ListAfterHandshake(l)
         \/ ProbeSucceeds(l) \/ ResetFailures(l) \/ ListAfterRecovery(l)
         \/ Trip(l) \/ Rest(l) \/ GoDown(l) \/ ComeUp(l)
  PROVE  absHealth' = absHealth /\ absFailures' = absFailures
  <1> USE DEF IInv, TypeOK, HealthState, Counts, OneWriter, CounterIsStreak, absHealth,
              absFailures, cells, history
  <1>1. CASE CountFailure(l)
    BY <1>1 DEF CountFailure
  <1>2. CASE ResetAfterHandshake(l)
    BY <1>2 DEF ResetAfterHandshake
  <1>3. CASE ListAfterHandshake(l)
    BY <1>3 DEF ListAfterHandshake
  <1>4. CASE ProbeSucceeds(l)
    BY <1>4 DEF ProbeSucceeds
  <1>5. CASE ResetFailures(l)
    BY <1>5 DEF ResetFailures, AfterReset, AfterSuccess
  <1>6. CASE ListAfterRecovery(l)
    BY <1>6 DEF ListAfterRecovery
  <1>7. CASE Trip(l)
    BY <1>7 DEF Trip
  <1>8. CASE Rest(l)
    BY <1>8 DEF Rest
  <1>9. CASE GoDown(l)
    BY <1>9 DEF GoDown
  <1>10. CASE ComeUp(l)
    BY <1>10 DEF ComeUp
  <1> QED
    BY <1>1, <1>2, <1>3, <1>4, <1>5, <1>6, <1>7, <1>8, <1>9, <1>10

\* health.rs:103: for every base interval within MAX_BACKOFF, probes slow down only
\* for a leaf that is out and failed again, and speed up only once it recovered.
THEOREM BackoffFollowsHealth ==
  ASSUME Base <= MAX_BACKOFF
  PROVE  Spec => BackoffOnlyWhenOut
  <1> DEFINE Paced(l) ==
        /\ delay'[l] > delay[l] => health[l] = "Unhealthy" /\ failures[l] > Threshold
        /\ delay'[l] < delay[l] => health[l] = "Healthy" /\ failures[l] = 0
  <1>1. ASSUME IInv, [Next]_vars, NEW l \in Leaves PROVE Paced(l)
    <2> USE LeafHealthAssumption, ThresholdPos DEF IInv
    <2>1. /\ delay[l] \in Nat /\ failures[l] \in Counts /\ failures[l] \in Nat
          /\ delay[l] >= Base
          /\ failures[l] > 0 => delay[l] <= next_delay(failures[l])
      BY <1>1, DelaysNat DEF DelaySoFar, TypeOK, Counts
    <2>2. CASE delay'[l] = delay[l]
      BY <2>1, <2>2
    <2>3. CASE Rest(l)
      <3>1. mon[l] = "rest" /\ delay'[l] = next_delay(failures[l])
        BY <1>1, <2>3 DEF Rest, TypeOK
      <3>2. /\ next_delay(failures[l]) \in Nat
            /\ failures[l] <= Threshold => next_delay(failures[l]) = Base
        BY <2>1, DelayFromBase
      <3>3. /\ failures[l] >= Threshold => health[l] = "Unhealthy"
            /\ failures[l] = 0 => health[l] = "Healthy"
        BY <1>1, <3>1 DEF CounterIsStreak, OneWriter, TypeOK, HealthState
      <3> QED
        BY <2>1, <3>1, <3>2, <3>3
    <2>4. delay'[l] = delay[l] \/ Rest(l)
      BY <1>1 DEF Next, StartMonitors, HandshakeStep, HandshakeFails, CountFailure,
                  HandshakeSucceeds, ResetAfterHandshake, ListAfterHandshake, MonitorStep,
                  ProbeSucceeds, MarkHealthy, ResetFailures, ListAfterRecovery, ProbeFails, Trip,
                  Rest, GoDown, ComeUp, TypeOK, vars
    <2> QED
      BY <2>2, <2>3, <2>4
  <1>2. IInv /\ [Next]_vars => [\A l \in Leaves : Paced(l)]_vars
    BY <1>1
  <1> QED
    BY <1>2, CellsConsistent, PTL DEF Spec, BackoffOnlyWhenOut

\* registry.rs:53, health.rs:61: the cells written by several tasks, one lock at
\* a time, implement the atomic circuit breaker, for any number of leaves.
THEOREM CellsImplementBreaker == Spec => ImplementsBreaker
  <1>1. Init => B!Init
    BY DEF Init, B!Init, absHealth, absFailures
  <1>2. IInv /\ [Next]_vars => [B!Next]_(B!vars)
    <2> SUFFICES ASSUME IInv, [Next]_vars PROVE [B!Next]_(B!vars)
      OBVIOUS
    <2> USE DEF IInv, TypeOK, HealthState, Counts, OneWriter, CounterIsStreak, absHealth,
                absFailures, cells, history
    <2>1. CASE StartMonitors
      BY <2>1 DEF StartMonitors, MainInOrder, Joined, B!vars
    <2>2. ASSUME NEW l \in Leaves, HandshakeFails(l) PROVE B!HandshakeFails(l)
      BY <2>2 DEF HandshakeFails, B!HandshakeFails
    <2>3. ASSUME NEW l \in Leaves, HandshakeSucceeds(l) PROVE B!Succeed(l)
      BY <2>3 DEF HandshakeSucceeds, B!Succeed
    <2>4. ASSUME NEW l \in Leaves, MarkHealthy(l) PROVE B!Succeed(l)
      BY <2>4 DEF MarkHealthy, B!Succeed
    <2>5. ASSUME NEW l \in Leaves, ProbeFails(l) PROVE B!ProbeFails(l)
      BY <2>5, ThresholdPos DEF ProbeFails, Tripped, B!ProbeFails
    <2>6. CASE UNCHANGED vars
      BY <2>6 DEF vars, B!vars
    <2> HIDE DEF IInv
    <2> QED
      BY <2>1, <2>2, <2>3, <2>4, <2>5, <2>6, SilentSteps
         DEF Next, HandshakeStep, MonitorStep, B!Next, B!vars
  <1> QED
    BY <1>1, <1>2, CellsConsistent, PTL DEF Spec, ImplementsBreaker, B!Spec
=============================================================================
