-------------------------- MODULE EmbeddingGovernor --------------------------
(***************************************************************************)
(* The admission of embedding and reranking requests,                      *)
(* service/embeddinggovernor/governor.go: a queue on a condition variable  *)
(* in front of a limit that adapts to latency, failures and two probes.    *)
(*                                                                         *)
(* What the code does under its mutex is one step.  Acquire gives the      *)
(* mutex up between entering the queue and looking at it, and whenever it  *)
(* waits; Broadcast wakes all that sleep, and who has been woken competes  *)
(* for the mutex.  Of the clock the model keeps what the code asks of it:  *)
(* whether an interval is over; the counters of the telemetry are left     *)
(* out.                                                                    *)
(***************************************************************************)
EXTENDS Integers, FiniteSets

CONSTANTS Requests, Batch,      \* the callers of Acquire, those of batch workload
          MinConcurrency, InitialConcurrency,
          MaxConcurrency,       \* 0: no limit
          BatchConcurrency,     \* 0: no limit
          QueueLimit, BatchQueueLimit,
          SuccessWindow,
          HealthProbeEnabled, HealthBadWindowThreshold,
          CapacityProbeEnabled, CapacityBadWindowThreshold

\* What normalizeConfig makes of a configuration.
ASSUME ConfigAssumption ==
    /\ IsFiniteSet(Requests) /\ Batch \subseteq Requests
    /\ MinConcurrency \in Nat \ {0} /\ InitialConcurrency \in Nat /\ MaxConcurrency \in Nat
    /\ MinConcurrency <= InitialConcurrency
    /\ MaxConcurrency > 0 => InitialConcurrency <= MaxConcurrency
    /\ BatchConcurrency \in Nat
    /\ MaxConcurrency > 0 => BatchConcurrency <= MaxConcurrency
    /\ QueueLimit \in Nat \ {0} /\ BatchQueueLimit \in Nat \ {0}
    /\ SuccessWindow \in Nat \ {0}
    /\ HealthProbeEnabled \in BOOLEAN /\ CapacityProbeEnabled \in BOOLEAN
    /\ HealthBadWindowThreshold \in Nat /\ HealthBadWindowThreshold >= 3
    /\ CapacityBadWindowThreshold \in Nat \ {0}

VARIABLES
    pc,       \* where each request is
    expired,  \* the requests in the queue whose context is done
    alarms,   \* the requests whose watcher may be about to broadcast
    running, runningBatch, waitingInteractive, waitingBatch,
    currentConcurrency, successes,
    cooling,  \* the cooldown after the last failure is not over
    scaled,   \* the interval after the last change of scale is not over
    slow,     \* the interactive latency is above its target
    idle,     \* idleSince: not set, set, or set longer ago than ScaleDownIdle
    healthBadWindows, capacityBadWindows

queue == <<pc, expired, alarms>>
counts == <<running, runningBatch, waitingInteractive, waitingBatch>>
scale == <<currentConcurrency, successes, cooling, scaled, slow, idle>>
probes == <<healthBadWindows, capacityBadWindows>>
vars == <<queue, counts, scale, probes>>

\* A queued request is awake and wants the mutex, an asleep one is in Wait.
Waiting == {"queued", "asleep"}
Pc == {"out", "running"} \cup Waiting

Init == /\ pc = [r \in Requests |-> "out"] /\ expired = {} /\ alarms = {}
        /\ running = 0 /\ runningBatch = 0 /\ waitingInteractive = 0 /\ waitingBatch = 0
        /\ currentConcurrency = InitialConcurrency /\ successes = 0
        /\ cooling = FALSE /\ scaled = FALSE /\ slow = FALSE /\ idle = "unset"
        /\ healthBadWindows = 0 /\ capacityBadWindows = 0

-----------------------------------------------------------------------------
(* The conditions of the code.                                             *)

healthGuardrailActive == /\ HealthProbeEnabled
                         /\ healthBadWindows >= HealthBadWindowThreshold

capacityGuardrailActive == CapacityProbeEnabled /\ capacityBadWindows > 0

maxConcurrencyReached == MaxConcurrency > 0 /\ currentConcurrency >= MaxConcurrency

\* Mutant: a new failure does not hold the scale down.
CanIncreaseHot(slowMean) ==
    /\ ~maxConcurrencyReached
    /\ ~scaled
    /\ ~healthGuardrailActive /\ ~capacityGuardrailActive
    /\ ~slowMean

canIncrease(slowMean) ==
    /\ ~maxConcurrencyReached
    /\ ~cooling
    /\ ~scaled
    /\ ~healthGuardrailActive /\ ~capacityGuardrailActive
    /\ ~slowMean

queueFull(r) == \/ waitingInteractive + waitingBatch >= QueueLimit
                \/ r \in Batch /\ waitingBatch >= BatchQueueLimit

canStart(r) == /\ running < currentConcurrency
               /\ r \in Batch => /\ waitingInteractive = 0
                                 /\ BatchConcurrency > 0 => runningBatch < BatchConcurrency

\* The callers once all that sleep have been woken.
Woken(f) == [r \in Requests |-> IF f[r] = "asleep" THEN "queued" ELSE f[r]]

-----------------------------------------------------------------------------
(* Acquire.                                                                *)

\* upstreamHealthReject and queueCapacityReject let r in; the goroutines of
\* an earlier call of r are gone.
MayEnter(r) == /\ pc[r] = "out" /\ r \notin alarms
               /\ ~healthGuardrailActive /\ ~queueFull(r)

CountWaiting(r) == IF r \in Batch
                   THEN waitingBatch' = waitingBatch + 1 /\ UNCHANGED waitingInteractive
                   ELSE waitingInteractive' = waitingInteractive + 1 /\ UNCHANGED waitingBatch

\* maybeScaleForDemand, once r has been counted.
Demand == /\ waitingInteractive' > 0 /\ running >= currentConcurrency
          /\ canIncrease(slow)

Enter(r) ==
    /\ MayEnter(r)
    /\ CountWaiting(r)
    /\ LET entered == [pc EXCEPT ![r] = "queued"]
       IN  IF Demand
           THEN /\ currentConcurrency' = currentConcurrency + 1
                /\ successes' = 0 /\ scaled' = TRUE
                /\ pc' = Woken(entered)
           ELSE /\ UNCHANGED <<currentConcurrency, successes, scaled>>
                /\ pc' = entered
    /\ UNCHANGED <<expired, alarms, running, runningBatch, cooling, slow, idle, probes>>

\* decrementWaiter, and r leaves the queue for where.  Returning ends the
\* context too, so a watcher that has not run yet may broadcast or just end.
LeavesQueue(r, where) ==
    /\ IF r \in Batch
       THEN waitingBatch' = (IF waitingBatch > 0 THEN waitingBatch - 1 ELSE 0)
            /\ UNCHANGED waitingInteractive
       ELSE waitingInteractive' = (IF waitingInteractive > 0 THEN waitingInteractive - 1 ELSE 0)
            /\ UNCHANGED waitingBatch
    /\ pc' = [pc EXCEPT ![r] = where]
    /\ expired' = expired \ {r}
    /\ alarms' = (IF r \in expired THEN alarms ELSE alarms \cup {r})

\* Mutant: who gives up is still counted.
LeavesUncounted(r) ==
    /\ pc[r] = "queued" /\ r \in expired
    /\ pc' = [pc EXCEPT ![r] = "out"] /\ expired' = expired \ {r}
    /\ UNCHANGED <<alarms, counts, scale, probes>>

\* The context is done, or upstream is unhealthy.
GiveUp(r) == /\ pc[r] = "queued"
             /\ r \in expired \/ healthGuardrailActive
             /\ LeavesQueue(r, "out")
             /\ UNCHANGED <<running, runningBatch, scale, probes>>

\* Mutant: the batch limit is not looked at.
StartAnyBatch(r) ==
    /\ pc[r] = "queued" /\ r \notin expired /\ ~healthGuardrailActive
    /\ running < currentConcurrency
    /\ LeavesQueue(r, "running")
    /\ running' = running + 1
    /\ runningBatch' = runningBatch + (IF r \in Batch THEN 1 ELSE 0)
    /\ UNCHANGED <<scale, probes>>

Start(r) ==
    /\ pc[r] = "queued" /\ r \notin expired /\ ~healthGuardrailActive
    /\ canStart(r)
    /\ LeavesQueue(r, "running")
    /\ running' = running + 1
    /\ runningBatch' = runningBatch + (IF r \in Batch THEN 1 ELSE 0)
    /\ UNCHANGED <<scale, probes>>

Sleep(r) ==
    /\ pc[r] = "queued" /\ r \notin expired /\ ~healthGuardrailActive
    /\ ~canStart(r)
    /\ pc' = [pc EXCEPT ![r] = "asleep"]
    /\ UNCHANGED <<expired, alarms, counts, scale, probes>>

\* The timeout runs out, or the client goes away.
Expire(r) == /\ pc[r] \in Waiting /\ r \notin expired
             /\ expired' = expired \cup {r}
             /\ alarms' = alarms \cup {r}
             /\ UNCHANGED <<pc, counts, scale, probes>>

\* Mutant: nobody is told.
QuietAlarm(r) == /\ r \in alarms
                 /\ alarms' = alarms \ {r}
                 /\ UNCHANGED <<pc, expired, counts, scale, probes>>

Alarm(r) == /\ r \in alarms
            /\ alarms' = alarms \ {r}
            /\ pc' = Woken(pc)
            /\ UNCHANGED <<expired, counts, scale, probes>>

\* The watcher sees that Acquire has returned.
WatcherEnds(r) == /\ r \in alarms /\ pc[r] \notin Waiting
                  /\ alarms' = alarms \ {r}
                  /\ UNCHANGED <<pc, expired, counts, scale, probes>>

-----------------------------------------------------------------------------
(* finish.                                                                 *)

\* The lease gives its slot back, all that sleep are woken, and the mean
\* latency of the request's class moves; the scale looks at one's own class.
Release(r) ==
    /\ pc[r] = "running"
    /\ pc' = Woken([pc EXCEPT ![r] = "out"])
    /\ running' = (IF running > 0 THEN running - 1 ELSE 0)
    /\ runningBatch' = (IF r \in Batch /\ runningBatch > 0 THEN runningBatch - 1
                        ELSE runningBatch)
    /\ slow' \in (IF r \in Batch THEN {slow} ELSE BOOLEAN)
    /\ UNCHANGED <<expired, alarms, waitingInteractive, waitingBatch, probes>>

\* updateIdle after a finish that has come to the limit c.
Busy == running' > 0 \/ waitingInteractive > 0 \/ waitingBatch > 0

\* Mutant: idling takes the last slot too.
ShrinksToNothing(c) == ~Busy /\ idle = "long" /\ c > 0

Shrinks(c) == ~Busy /\ idle = "long" /\ c > MinConcurrency

UpdateIdle(c, rescaled) ==
    /\ currentConcurrency' = (IF Shrinks(c) THEN c - 1 ELSE c)
    /\ scaled' = (scaled \/ rescaled \/ Shrinks(c))
    /\ idle' = (IF Busy THEN "unset"
                ELSE IF idle = "unset" \/ Shrinks(c) THEN "set" ELSE idle)

\* Slow, no answer, a timeout, a rate limit or a server error.
FinishPressure(r) ==
    /\ Release(r)
    /\ successes' = 0 /\ cooling' = TRUE
    /\ UpdateIdle(MinConcurrency, TRUE)

\* Mutant: a client's error wakes nobody.
FinishSilently(r) ==
    /\ pc[r] = "running"
    /\ pc' = [pc EXCEPT ![r] = "out"]
    /\ running' = running - 1
    /\ runningBatch' = (IF r \in Batch THEN runningBatch - 1 ELSE runningBatch)
    /\ UpdateIdle(currentConcurrency, FALSE)
    /\ UNCHANGED <<expired, alarms, waitingInteractive, waitingBatch, probes>>
    /\ UNCHANGED <<successes, cooling, slow>>

FinishClientError(r) ==
    /\ Release(r)
    /\ UpdateIdle(currentConcurrency, FALSE)
    /\ UNCHANGED <<successes, cooling>>

\* A success that counts brings the limit closer to its next slot.
FinishSuccess(r) ==
    /\ Release(r)
    /\ \E slowMean \in IF r \in Batch THEN BOOLEAN ELSE {slow'} :
         LET grows == canIncrease(slowMean) /\ successes + 1 >= SuccessWindow
         IN  /\ successes' = (IF grows THEN 0
                              ELSE IF canIncrease(slowMean) THEN successes + 1
                              ELSE successes)
             /\ UpdateIdle(currentConcurrency + (IF grows THEN 1 ELSE 0), grows)
    /\ UNCHANGED cooling

-----------------------------------------------------------------------------
(* The probes.  A window counter is looked at up to its threshold.         *)

\* observeHealthSample and observeCapacitySample once a probe has counted its
\* windows: a bad one at the threshold takes a slot.
Sampled(overThreshold) ==
    /\ pc' = Woken(pc)
    /\ IF overThreshold /\ currentConcurrency > MinConcurrency
       THEN /\ currentConcurrency' = currentConcurrency - 1
            /\ successes' = 0 /\ scaled' = TRUE
       ELSE UNCHANGED <<currentConcurrency, successes, scaled>>
    /\ UNCHANGED <<expired, alarms, counts, cooling, slow, idle>>

Windows(n, threshold) == IF n < threshold THEN n + 1 ELSE threshold

HealthSample(bad) ==
    /\ HealthProbeEnabled
    /\ healthBadWindows' = (IF bad THEN Windows(healthBadWindows, HealthBadWindowThreshold) ELSE 0)
    /\ Sampled(bad /\ healthBadWindows' >= HealthBadWindowThreshold)
    /\ UNCHANGED capacityBadWindows

CapacitySample(bad) ==
    /\ CapacityProbeEnabled
    /\ capacityBadWindows' = (IF bad THEN Windows(capacityBadWindows, CapacityBadWindowThreshold) ELSE 0)
    /\ Sampled(bad /\ capacityBadWindows' >= CapacityBadWindowThreshold)
    /\ UNCHANGED healthBadWindows

-----------------------------------------------------------------------------
(* The clock.                                                              *)

CooldownEnds == /\ cooling /\ cooling' = FALSE
                /\ UNCHANGED <<queue, counts, probes, currentConcurrency, successes, scaled, slow, idle>>

ScaleIntervalEnds == /\ scaled /\ scaled' = FALSE
                     /\ UNCHANGED <<queue, counts, probes, currentConcurrency, successes, cooling, slow, idle>>

IdlePasses == /\ idle = "set" /\ idle' = "long"
              /\ UNCHANGED <<queue, counts, probes, currentConcurrency, successes, cooling, scaled, slow>>

Acquire(r) == \/ Enter(r) \/ GiveUp(r) \/ Start(r) \/ Sleep(r)
              \/ Expire(r) \/ Alarm(r) \/ WatcherEnds(r)

Finish(r) == FinishPressure(r) \/ FinishClientError(r) \/ FinishSuccess(r)

Next == \/ \E r \in Requests : Acquire(r) \/ Finish(r)
        \/ \E bad \in BOOLEAN : HealthSample(bad) \/ CapacitySample(bad)
        \/ CooldownEnds \/ ScaleIntervalEnds \/ IdlePasses

Spec == Init /\ [][Next]_vars

\* Every context has a timeout, and every goroutine that can go on does.
\* Nothing is assumed of upstream, the probes or the mutex: a request that
\* has been woken may find the mutex taken any number of times.
FairSpec == /\ Spec
            /\ \A r \in Requests : /\ WF_vars(Expire(r)) /\ WF_vars(Alarm(r))
                                   /\ WF_vars(GiveUp(r))

-----------------------------------------------------------------------------
(* Properties.                                                             *)

\* The state is well formed; the limit never leaves [Min, Max], although a
\* failure, two probes, idling and demand all move it.
TypeOK ==
    /\ pc \in [Requests -> Pc] /\ expired \subseteq Requests /\ alarms \subseteq Requests
    /\ \A r \in expired : pc[r] \in Waiting
    /\ running \in Nat /\ runningBatch \in Nat
    /\ waitingInteractive \in Nat /\ waitingBatch \in Nat
    /\ currentConcurrency \in Nat /\ currentConcurrency >= MinConcurrency
    /\ MaxConcurrency > 0 => currentConcurrency <= MaxConcurrency
    /\ successes \in 0..(SuccessWindow - 1)
    /\ cooling \in BOOLEAN /\ scaled \in BOOLEAN /\ slow \in BOOLEAN
    /\ idle \in {"unset", "set", "long"}
    /\ healthBadWindows \in 0..HealthBadWindowThreshold
    /\ capacityBadWindows \in 0..CapacityBadWindowThreshold

In(where, class) == Cardinality({r \in class : pc[r] \in where})

\* The four counters that admission is decided on are the callers that hold a
\* lease or wait, on every way out of Acquire: a counter that leaks closes the
\* governor for good.
Accounting ==
    /\ running = In({"running"}, Requests)
    /\ runningBatch = In({"running"}, Batch)
    /\ waitingInteractive = In(Waiting, Requests \ Batch)
    /\ waitingBatch = In(Waiting, Batch)

\* What upstream and the queue may be loaded with: the limits of the
\* configuration hold of the callers themselves.
Bounds ==
    /\ MaxConcurrency > 0 => In({"running"}, Requests) <= MaxConcurrency
    /\ BatchConcurrency > 0 => In({"running"}, Batch) <= BatchConcurrency
    /\ In(Waiting, Requests) <= QueueLimit
    /\ In(Waiting, Batch) <= BatchQueueLimit

\* From a failure under pressure to the end of its cooldown the limit stays at
\* its minimum, whatever succeeds, is asked for or is probed meanwhile.
CoolingAtMin == cooling => currentConcurrency = MinConcurrency

\* No interactive request sleeps while a slot is free, and nobody sleeps while
\* upstream is unhealthy: each change of the slots or of the health wakes them.
NoLostWakeup ==
    \A r \in Requests : pc[r] = "asleep" =>
        /\ ~healthGuardrailActive
        /\ r \notin Batch => running >= currentConcurrency

\* Acquire returns, with a lease or a reject, although the slots may never come
\* free: whoever is asleep when its context ends is woken.
AcquireEnds == \A r \in Requests : (pc[r] \in Waiting) ~> (pc[r] \notin Waiting)
=============================================================================
