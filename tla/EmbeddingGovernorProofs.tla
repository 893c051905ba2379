---------------------- MODULE EmbeddingGovernorProofs ----------------------
(***************************************************************************)
(* Proofs about EmbeddingGovernor, for any finite number of callers and    *)
(* any configuration normalizeConfig lets through.  A step moves at most   *)
(* one caller between waiting, running and being out, and may wake         *)
(* sleepers, which still wait: the counters are recounted by one lemma.    *)
(***************************************************************************)
EXTENDS EmbeddingGovernor, FiniteSetTheorems, TLAPS

Count(f, where, class) == Cardinality({q \in class : f[q] \in where})

Delta(was, is) == IF was = is THEN 0 ELSE IF is THEN 1 ELSE -1

LEMMA CountNat ==
  ASSUME NEW f, NEW where, NEW class \in SUBSET Requests
  PROVE  /\ IsFiniteSet({q \in class : f[q] \in where})
         /\ Count(f, where, class) \in Nat
<1>1. IsFiniteSet({q \in class : f[q] \in where})
  BY ConfigAssumption, FS_Subset
<1>2. QED
  BY <1>1, FS_CardinalityType DEF Count

\* If nobody but r changes sides, the count changes by what r does.
LEMMA Moves ==
  ASSUME NEW f, NEW g, NEW where, NEW class \in SUBSET Requests, NEW r,
         \A q \in class \ {r} : (g[q] \in where) <=> (f[q] \in where)
  PROVE  Count(g, where, class) = Count(f, where, class)
             + (IF r \in class THEN Delta(f[r] \in where, g[r] \in where) ELSE 0)
<1> DEFINE F == {q \in class : f[q] \in where}
           G == {q \in class : g[q] \in where}
<1>1. /\ IsFiniteSet(F) /\ Cardinality(F) \in Nat
      /\ IsFiniteSet(G) /\ Cardinality(G) \in Nat
  BY CountNat DEF Count
<1>2. CASE r \in class /\ g[r] \in where /\ f[r] \notin where
  <2>1. G = F \cup {r} /\ r \notin F
    BY <1>2
  <2>2. Cardinality(G) = Cardinality(F) + 1
    BY <1>1, <2>1, FS_AddElement
  <2>3. QED
    BY <1>2, <2>2 DEF Count, Delta
<1>3. CASE r \in class /\ g[r] \notin where /\ f[r] \in where
  <2>1. F = G \cup {r} /\ r \notin G
    BY <1>3
  <2>2. Cardinality(F) = Cardinality(G) + 1
    BY <1>1, <2>1, FS_AddElement
  <2>3. Cardinality(G) = Cardinality(F) + (-1)
    BY <1>1, <2>2
  <2>4. QED
    BY <1>3, <2>3 DEF Count, Delta
<1>4. CASE r \notin class \/ (g[r] \in where <=> f[r] \in where)
  <2>1. F = G
    BY <1>4
  <2>2. Cardinality(G) = Cardinality(F) + 0
    BY <1>1, <2>1
  <2>3. (IF r \in class THEN Delta(f[r] \in where, g[r] \in where) ELSE 0) = 0
    BY <1>4 DEF Delta
  <2>4. QED
    BY <2>2, <2>3 DEF Count
<1>5. QED
  BY <1>2, <1>3, <1>4

\* Whoever waits together is either interactive or batch.
LEMMA WaitingSplits ==
  In(Waiting, Requests) = In(Waiting, Requests \ Batch) + In(Waiting, Batch)
<1> DEFINE I == {q \in Requests \ Batch : pc[q] \in Waiting}
           B == {q \in Batch : pc[q] \in Waiting}
<1>1. IsFiniteSet(I) /\ IsFiniteSet(B)
  BY CountNat, ConfigAssumption
<1>2. {q \in Requests : pc[q] \in Waiting} = I \cup B /\ I \cap B = {}
  BY ConfigAssumption
<1>3. Cardinality(I \cup B) = Cardinality(I) + Cardinality(B)
  <2>1. Cardinality(I \cup B) = Cardinality(I) + Cardinality(B) - Cardinality(I \cap B)
    BY <1>1, FS_Union
  <2>2. Cardinality(I \cap B) = 0
    BY <1>2, FS_EmptySet
  <2>3. Cardinality(I) \in Nat /\ Cardinality(B) \in Nat
    BY <1>1, FS_CardinalityType
  <2>4. QED
    BY <2>1, <2>2, <2>3
<1>4. QED
  BY <1>2, <1>3 DEF In

\* Nobody but r changes sides in this step.
OnlyMoves(r) == \A q \in Requests \ {r} :
                    /\ (pc'[q] \in Waiting) <=> (pc[q] \in Waiting)
                    /\ (pc'[q] \in {"running"}) <=> (pc[q] \in {"running"})

LEMMA Recount ==
  ASSUME Accounting, NEW r, OnlyMoves(r)
  PROVE  LET runs == Delta(pc[r] \in {"running"}, pc'[r] \in {"running"})
             waits == Delta(pc[r] \in Waiting, pc'[r] \in Waiting)
         IN  /\ In({"running"}, Requests)' = running + (IF r \in Requests THEN runs ELSE 0)
             /\ In({"running"}, Batch)' = runningBatch + (IF r \in Batch THEN runs ELSE 0)
             /\ In(Waiting, Requests \ Batch)'
                    = waitingInteractive + (IF r \in Requests \ Batch THEN waits ELSE 0)
             /\ In(Waiting, Batch)' = waitingBatch + (IF r \in Batch THEN waits ELSE 0)
             /\ In({"running"}, Requests)' \in Nat /\ In({"running"}, Batch)' \in Nat
             /\ In(Waiting, Requests \ Batch)' \in Nat /\ In(Waiting, Batch)' \in Nat
<1>1. /\ Requests \in SUBSET Requests /\ Batch \in SUBSET Requests
      /\ Requests \ Batch \in SUBSET Requests
  BY ConfigAssumption
<1>2. \A where, class : In(where, class) = Count(pc, where, class)
  BY DEF In, Count
<1>3. \A where, class : In(where, class)' = Count(pc', where, class)
  BY DEF In, Count
<1>4. Count(pc', {"running"}, Requests) = Count(pc, {"running"}, Requests)
        + (IF r \in Requests THEN Delta(pc[r] \in {"running"}, pc'[r] \in {"running"}) ELSE 0)
  BY <1>1, Moves DEF OnlyMoves
<1>5. Count(pc', {"running"}, Batch) = Count(pc, {"running"}, Batch)
        + (IF r \in Batch THEN Delta(pc[r] \in {"running"}, pc'[r] \in {"running"}) ELSE 0)
  BY <1>1, Moves DEF OnlyMoves
<1>6. Count(pc', Waiting, Requests \ Batch) = Count(pc, Waiting, Requests \ Batch)
        + (IF r \in Requests \ Batch THEN Delta(pc[r] \in Waiting, pc'[r] \in Waiting) ELSE 0)
  BY <1>1, Moves DEF OnlyMoves
<1>7. Count(pc', Waiting, Batch) = Count(pc, Waiting, Batch)
        + (IF r \in Batch THEN Delta(pc[r] \in Waiting, pc'[r] \in Waiting) ELSE 0)
  BY <1>1, Moves DEF OnlyMoves
<1>8. /\ Count(pc', {"running"}, Requests) \in Nat /\ Count(pc', {"running"}, Batch) \in Nat
      /\ Count(pc', Waiting, Requests \ Batch) \in Nat /\ Count(pc', Waiting, Batch) \in Nat
  BY <1>1, CountNat
<1>9. QED
  BY <1>2, <1>3, <1>4, <1>5, <1>6, <1>7, <1>8 DEF Accounting
LEMMA CountsStand ==
  ASSUME Accounting, UNCHANGED counts,
         \A q \in Requests : /\ (pc'[q] \in Waiting) <=> (pc[q] \in Waiting)
                             /\ (pc'[q] \in {"running"}) <=> (pc[q] \in {"running"})
  PROVE  Accounting'
<1>1. OnlyMoves(0)
  BY DEF OnlyMoves
<1>2. /\ 0 \in Requests => Delta(pc[0] \in {"running"}, pc'[0] \in {"running"}) = 0
      /\ 0 \in Requests => Delta(pc[0] \in Waiting, pc'[0] \in Waiting) = 0
  BY DEF Delta
<1>3. /\ In({"running"}, Requests)' = running + 0
      /\ In({"running"}, Batch)' = runningBatch + 0
      /\ In(Waiting, Requests \ Batch)' = waitingInteractive + 0
      /\ In(Waiting, Batch)' = waitingBatch + 0
  BY <1>1, <1>2, Recount, ConfigAssumption
<1>4. /\ running \in Int /\ runningBatch \in Int
      /\ waitingInteractive \in Int /\ waitingBatch \in Int
  <2>1. \A where : \A class \in SUBSET Requests : In(where, class) \in Nat
    BY CountNat DEF In, Count
  <2>2. Batch \in SUBSET Requests /\ Requests \ Batch \in SUBSET Requests
    BY ConfigAssumption
  <2>3. QED
    BY <2>1, <2>2 DEF Accounting
<1>5. QED
  BY <1>3, <1>4 DEF Accounting, counts

LEMMA WokenAll ==
  ASSUME NEW f \in [Requests -> Pc]
  PROVE  /\ Woken(f) \in [Requests -> Pc]
         /\ \A q \in Requests : /\ Woken(f)[q] # "asleep"
                                /\ (Woken(f)[q] \in Waiting) <=> (f[q] \in Waiting)
                                /\ (Woken(f)[q] \in {"running"}) <=> (f[q] \in {"running"})
                                /\ f[q] # "asleep" => Woken(f)[q] = f[q]
  BY DEF Woken, Pc, Waiting

\* The limits on the counters, which are those of Bounds by the accounting.
Limits ==
    /\ MaxConcurrency > 0 => running <= MaxConcurrency
    /\ BatchConcurrency > 0 => runningBatch <= BatchConcurrency
    /\ waitingInteractive + waitingBatch <= QueueLimit
    /\ waitingBatch <= BatchQueueLimit

IInv == TypeOK /\ Accounting /\ Limits /\ CoolingAtMin /\ NoLostWakeup

LEMMA InitIInv == Init => IInv
<1> SUFFICES ASSUME Init PROVE IInv
  OBVIOUS
<1>1. TypeOK
  <2>1. pc \in [Requests -> Pc] /\ \A r \in expired : pc[r] \in Waiting
    BY DEF Init, Pc
  <2>2. 0 \in 0..(SuccessWindow - 1)
    BY ConfigAssumption
  <2>3. 0 \in 0..HealthBadWindowThreshold /\ 0 \in 0..CapacityBadWindowThreshold
    BY ConfigAssumption
  <2>4. QED
    BY <2>1, <2>2, <2>3, ConfigAssumption DEF Init, TypeOK
<1>2. Accounting
  <2>1. \A where : "out" \notin where => \A class \in SUBSET Requests : In(where, class) = 0
    <3> SUFFICES ASSUME NEW where, "out" \notin where, NEW class \in SUBSET Requests
                 PROVE  In(where, class) = 0
      OBVIOUS
    <3>1. {q \in class : pc[q] \in where} = {}
      BY DEF Init
    <3>2. QED
      BY <3>1, FS_EmptySet DEF In
  <2>2. QED
    BY <2>1, ConfigAssumption DEF Init, Accounting, Waiting
<1>3. Limits
  BY ConfigAssumption DEF Init, Limits
<1>4. CoolingAtMin /\ NoLostWakeup
  BY DEF Init, CoolingAtMin, NoLostWakeup
<1>5. QED
  BY <1>1, <1>2, <1>3, <1>4 DEF IInv

-----------------------------------------------------------------------------
(* Acquire.                                                                *)

LEMMA EnterKeeps ==
  ASSUME IInv, NEW r \in Requests, Enter(r)
  PROVE  IInv'
<1> USE ConfigAssumption
<1> DEFINE entered == [pc EXCEPT ![r] = "queued"]
<1>0. pc \in [Requests -> Pc] /\ pc[r] = "out" /\ "queued" \in Pc
  BY DEF Enter, MayEnter, IInv, TypeOK, Pc, Waiting
<1>1. /\ entered \in [Requests -> Pc] /\ entered[r] = "queued"
      /\ \A q \in Requests \ {r} : entered[q] = pc[q]
  BY <1>0
<1>2. \/ /\ Demand /\ pc' = Woken(entered)
         /\ currentConcurrency' = currentConcurrency + 1 /\ successes' = 0 /\ scaled' = TRUE
      \/ pc' = entered /\ UNCHANGED <<currentConcurrency, successes, scaled>>
  BY DEF Enter
<1> HIDE DEF entered
<1>3. /\ pc' \in [Requests -> Pc] /\ pc'[r] = "queued" /\ OnlyMoves(r)
  <2>1. CASE pc' = entered
    BY <2>1, <1>1 DEF OnlyMoves
  <2>2. CASE pc' = Woken(entered)
    <3>1. /\ Woken(entered) \in [Requests -> Pc] /\ Woken(entered)[r] = "queued"
      BY <1>1, WokenAll
    <3>2. \A q \in Requests \ {r} : /\ (Woken(entered)[q] \in Waiting) <=> (pc[q] \in Waiting)
                                    /\ (Woken(entered)[q] \in {"running"}) <=> (pc[q] \in {"running"})
      BY <1>1, WokenAll
    <3>3. QED
      BY <2>2, <3>1, <3>2 DEF OnlyMoves
  <2>3. QED
    BY <1>2, <2>1, <2>2
<1>4. \/ /\ canIncrease(slow) /\ currentConcurrency' = currentConcurrency + 1
         /\ successes' = 0 /\ scaled' = TRUE
         /\ \A q \in Requests : pc'[q] # "asleep"
      \/ /\ UNCHANGED <<currentConcurrency, successes, scaled>>
         /\ \A q \in Requests \ {r} : pc'[q] = pc[q]
  BY <1>1, <1>2, WokenAll DEF Demand
<1>5. TypeOK'
  <2>1. /\ currentConcurrency' \in Nat /\ currentConcurrency' >= MinConcurrency
        /\ MaxConcurrency > 0 => currentConcurrency' <= MaxConcurrency
    BY <1>4 DEF IInv, TypeOK, canIncrease, maxConcurrencyReached
  <2>2. successes' \in 0..(SuccessWindow - 1) /\ scaled' \in BOOLEAN
    <3>1. CASE successes' = 0 /\ scaled' = TRUE
      BY <3>1
    <3>2. CASE successes' = successes /\ scaled' = scaled
      BY <3>2 DEF IInv, TypeOK
    <3>3. QED
      BY <1>4, <3>1, <3>2
  <2>3. \A q \in expired' : pc'[q] \in Waiting
    BY <1>3 DEF Enter, IInv, TypeOK, OnlyMoves, Waiting
  <2>4. waitingInteractive' \in Nat /\ waitingBatch' \in Nat
    BY DEF Enter, CountWaiting, IInv, TypeOK
  <2>5. QED
    BY <1>3, <2>1, <2>2, <2>3, <2>4 DEF Enter, IInv, TypeOK, probes
<1>6. Accounting'
  <2>1. /\ pc[r] \notin {"running"} /\ pc'[r] \notin {"running"}
        /\ pc[r] \notin Waiting /\ pc'[r] \in Waiting
    BY <1>0, <1>3 DEF Waiting
  <2>2. /\ In({"running"}, Requests)' = running + 0
        /\ In({"running"}, Batch)' = runningBatch + 0
        /\ In(Waiting, Requests \ Batch)' = waitingInteractive + (IF r \in Batch THEN 0 ELSE 1)
        /\ In(Waiting, Batch)' = waitingBatch + (IF r \in Batch THEN 1 ELSE 0)
    BY <1>3, <2>1, Recount DEF Delta, IInv
  <2>3. QED
    BY <2>2 DEF Accounting, Enter, CountWaiting, IInv, TypeOK
<1>7. Limits'
  BY DEF Limits, Enter, MayEnter, CountWaiting, queueFull, IInv, TypeOK
<1>8. CoolingAtMin'
  BY <1>4 DEF CoolingAtMin, Enter, IInv, canIncrease
<1>9. NoLostWakeup'
  BY <1>3, <1>4 DEF NoLostWakeup, Enter, IInv, healthGuardrailActive, probes
<1>10. QED
  BY <1>5, <1>6, <1>7, <1>8, <1>9 DEF IInv

LEMMA GiveUpKeeps ==
  ASSUME IInv, NEW r \in Requests, GiveUp(r)
  PROVE  IInv'
<1> USE ConfigAssumption
<1>1. /\ pc[r] = "queued" /\ pc' = [pc EXCEPT ![r] = "out"] /\ pc' \in [Requests -> Pc]
      /\ pc'[r] = "out" /\ \A q \in Requests \ {r} : pc'[q] = pc[q]
  BY DEF GiveUp, LeavesQueue, IInv, TypeOK, Pc, Waiting
<1>2. OnlyMoves(r)
  BY <1>1 DEF OnlyMoves
<1>3. /\ In({"running"}, Requests)' = running + 0
      /\ In({"running"}, Batch)' = runningBatch + 0
      /\ In(Waiting, Requests \ Batch)' = waitingInteractive + (IF r \in Batch THEN 0 ELSE -1)
      /\ In(Waiting, Batch)' = waitingBatch + (IF r \in Batch THEN -1 ELSE 0)
      /\ In(Waiting, Requests \ Batch)' \in Nat /\ In(Waiting, Batch)' \in Nat
  BY <1>1, <1>2, Recount DEF Delta, Waiting, IInv
<1>4. /\ waitingInteractive' = waitingInteractive + (IF r \in Batch THEN 0 ELSE -1)
      /\ waitingBatch' = waitingBatch + (IF r \in Batch THEN -1 ELSE 0)
      /\ waitingInteractive' \in Nat /\ waitingBatch' \in Nat
  BY <1>3 DEF GiveUp, LeavesQueue, IInv, TypeOK
<1>5. TypeOK'
  <2>1. \A q \in expired' : pc'[q] \in Waiting
    BY <1>1 DEF GiveUp, LeavesQueue, IInv, TypeOK
  <2>2. QED
    BY <1>1, <1>4, <2>1 DEF GiveUp, LeavesQueue, IInv, TypeOK, scale, probes
<1>6. Accounting'
  BY <1>3, <1>4 DEF Accounting, GiveUp, IInv, TypeOK
<1>7. Limits'
  BY <1>4 DEF Limits, GiveUp, IInv, TypeOK
<1>8. CoolingAtMin' /\ NoLostWakeup'
  BY <1>1 DEF CoolingAtMin, NoLostWakeup, GiveUp, IInv, healthGuardrailActive, scale, probes
<1>9. QED
  BY <1>5, <1>6, <1>7, <1>8 DEF IInv

LEMMA StartKeeps ==
  ASSUME IInv, NEW r \in Requests, Start(r)
  PROVE  IInv'
<1> USE ConfigAssumption
<1>1. /\ pc[r] = "queued" /\ pc' = [pc EXCEPT ![r] = "running"] /\ pc' \in [Requests -> Pc]
      /\ pc'[r] = "running" /\ \A q \in Requests \ {r} : pc'[q] = pc[q]
  BY DEF Start, LeavesQueue, IInv, TypeOK, Pc, Waiting
<1>2. OnlyMoves(r)
  BY <1>1 DEF OnlyMoves
<1>3. /\ In({"running"}, Requests)' = running + 1
      /\ In({"running"}, Batch)' = runningBatch + (IF r \in Batch THEN 1 ELSE 0)
      /\ In(Waiting, Requests \ Batch)' = waitingInteractive + (IF r \in Batch THEN 0 ELSE -1)
      /\ In(Waiting, Batch)' = waitingBatch + (IF r \in Batch THEN -1 ELSE 0)
      /\ In(Waiting, Requests \ Batch)' \in Nat /\ In(Waiting, Batch)' \in Nat
  BY <1>1, <1>2, Recount DEF Delta, Waiting, IInv
<1>4. /\ waitingInteractive' = waitingInteractive + (IF r \in Batch THEN 0 ELSE -1)
      /\ waitingBatch' = waitingBatch + (IF r \in Batch THEN -1 ELSE 0)
      /\ waitingInteractive' \in Nat /\ waitingBatch' \in Nat
      /\ running' = running + 1 /\ runningBatch' = runningBatch + (IF r \in Batch THEN 1 ELSE 0)
  BY <1>3 DEF Start, LeavesQueue, IInv, TypeOK
<1>5. TypeOK'
  <2>1. \A q \in expired' : pc'[q] \in Waiting
    BY <1>1 DEF Start, LeavesQueue, IInv, TypeOK
  <2>2. QED
    BY <1>1, <1>4, <2>1 DEF Start, LeavesQueue, IInv, TypeOK, scale, probes
<1>6. Accounting'
  BY <1>3, <1>4 DEF Accounting
<1>7. Limits'
  BY <1>4 DEF Limits, Start, canStart, IInv, TypeOK
<1>8. CoolingAtMin'
  BY DEF CoolingAtMin, Start, IInv, scale
<1>9. NoLostWakeup'
  BY <1>1, <1>4 DEF NoLostWakeup, Start, IInv, TypeOK, healthGuardrailActive, scale, probes
<1>10. QED
  BY <1>5, <1>6, <1>7, <1>8, <1>9 DEF IInv
LEMMA SleepKeeps ==
  ASSUME IInv, NEW r \in Requests, Sleep(r)
  PROVE  IInv'
<1>1. /\ pc' = [pc EXCEPT ![r] = "asleep"] /\ pc[r] = "queued"
      /\ ~canStart(r) /\ ~healthGuardrailActive
      /\ UNCHANGED <<expired, alarms, counts, scale, probes>>
  BY DEF Sleep
<1>2. /\ pc' \in [Requests -> Pc] /\ pc'[r] = "asleep"
      /\ \A q \in Requests \ {r} : pc'[q] = pc[q]
  BY <1>1 DEF IInv, TypeOK, Pc, Waiting
<1>3. TypeOK'
  <2>1. \A q \in expired' : pc'[q] \in Waiting
    BY <1>1, <1>2 DEF IInv, TypeOK, Waiting
  <2>2. QED
    BY <1>1, <1>2, <2>1 DEF IInv, TypeOK, counts, scale, probes
<1>4. Accounting'
  BY <1>1, <1>2, CountsStand DEF IInv, Waiting
<1>5. Limits' /\ CoolingAtMin'
  BY <1>1 DEF IInv, Limits, CoolingAtMin, counts, scale
<1>6. NoLostWakeup'
  BY <1>1, <1>2 DEF IInv, TypeOK, NoLostWakeup, canStart, healthGuardrailActive, counts, scale, probes
<1>7. QED
  BY <1>3, <1>4, <1>5, <1>6 DEF IInv

\* A step that leaves the counters and the scale alone, and wakes or nothing.
LEMMA WatcherKeeps ==
  ASSUME IInv, UNCHANGED <<counts, scale, probes>>,
         pc' \in {pc, Woken(pc)},
         expired' \subseteq Requests, \A q \in expired' : pc[q] \in Waiting,
         alarms' \subseteq Requests
  PROVE  IInv'
<1>1. /\ pc' \in [Requests -> Pc]
      /\ \A q \in Requests : /\ (pc'[q] \in Waiting) <=> (pc[q] \in Waiting)
                             /\ (pc'[q] \in {"running"}) <=> (pc[q] \in {"running"})
                             /\ pc'[q] = "asleep" => pc[q] = "asleep"
  BY WokenAll DEF IInv, TypeOK
<1>2. TypeOK'
  BY <1>1 DEF IInv, TypeOK, counts, scale, probes
<1>3. Accounting'
  BY <1>1, CountsStand DEF IInv
<1>4. Limits' /\ CoolingAtMin'
  BY DEF IInv, Limits, CoolingAtMin, counts, scale
<1>5. NoLostWakeup'
  BY <1>1 DEF IInv, NoLostWakeup, healthGuardrailActive, counts, scale, probes
<1>6. QED
  BY <1>2, <1>3, <1>4, <1>5 DEF IInv

LEMMA ExpiryKeeps ==
  ASSUME IInv, NEW r \in Requests, Expire(r) \/ Alarm(r) \/ WatcherEnds(r)
  PROVE  IInv'
<1>1. CASE Expire(r)
  BY <1>1, WatcherKeeps DEF Expire, IInv, TypeOK
<1>2. CASE Alarm(r)
  BY <1>2, WatcherKeeps DEF Alarm, IInv, TypeOK
<1>3. CASE WatcherEnds(r)
  BY <1>3, WatcherKeeps DEF WatcherEnds, IInv, TypeOK
<1>4. QED
  BY <1>1, <1>2, <1>3

-----------------------------------------------------------------------------
(* finish.                                                                 *)

\* Whoever finishes gives one slot back, and nobody is left asleep.
LEMMA Released ==
  ASSUME IInv, NEW r \in Requests, Release(r)
  PROVE  /\ pc' \in [Requests -> Pc]
         /\ \A q \in Requests : pc'[q] # "asleep"
         /\ \A q \in expired : pc'[q] \in Waiting
         /\ Accounting'
         /\ running' = running - 1 /\ running' \in Nat
         /\ runningBatch' \in Nat /\ runningBatch' <= runningBatch
         /\ slow' \in BOOLEAN
         /\ UNCHANGED <<expired, alarms, waitingInteractive, waitingBatch, probes>>
<1> USE ConfigAssumption
<1> DEFINE left == [pc EXCEPT ![r] = "out"]
<1>1. /\ pc \in [Requests -> Pc] /\ pc[r] = "running" /\ pc' = Woken(left)
      /\ "out" \in Pc
  BY DEF Release, IInv, TypeOK, Pc
<1>2. /\ left \in [Requests -> Pc] /\ left[r] = "out"
      /\ \A q \in Requests \ {r} : left[q] = pc[q]
  BY <1>1
<1> HIDE DEF left
<1>3. /\ pc' \in [Requests -> Pc] /\ pc'[r] = "out"
      /\ \A q \in Requests : pc'[q] # "asleep"
      /\ OnlyMoves(r)
  BY <1>1, <1>2, WokenAll DEF OnlyMoves
<1>4. \A q \in expired : pc'[q] \in Waiting
  BY <1>1, <1>3 DEF OnlyMoves, IInv, TypeOK, Waiting
<1>5. /\ pc[r] \in {"running"} /\ pc'[r] \notin {"running"}
      /\ pc[r] \notin Waiting /\ pc'[r] \notin Waiting
  BY <1>1, <1>3 DEF Waiting
<1>6. /\ In({"running"}, Requests)' = running + (-1)
      /\ In({"running"}, Batch)' = runningBatch + (IF r \in Batch THEN -1 ELSE 0)
      /\ In(Waiting, Requests \ Batch)' = waitingInteractive + 0
      /\ In(Waiting, Batch)' = waitingBatch + 0
      /\ In({"running"}, Requests)' \in Nat /\ In({"running"}, Batch)' \in Nat
  BY <1>3, <1>5, Recount DEF Delta, IInv
<1>7. /\ running' = running - 1 /\ running' \in Nat
      /\ runningBatch' = runningBatch + (IF r \in Batch THEN -1 ELSE 0) /\ runningBatch' \in Nat
  BY <1>6 DEF Release, IInv, TypeOK
<1>8. Accounting'
  BY <1>6, <1>7 DEF Release, IInv, TypeOK, Accounting
<1>9. slow' \in BOOLEAN /\ UNCHANGED <<expired, alarms, waitingInteractive, waitingBatch, probes>>
  BY DEF Release, IInv, TypeOK
<1>10. QED
  BY <1>3, <1>4, <1>7, <1>8, <1>9 DEF IInv, TypeOK

LEMMA IdleUpdated ==
  ASSUME IInv, NEW c \in Nat, c >= MinConcurrency, MaxConcurrency > 0 => c <= MaxConcurrency,
         NEW rescaled \in BOOLEAN, UpdateIdle(c, rescaled)
  PROVE  /\ currentConcurrency' \in Nat /\ currentConcurrency' >= MinConcurrency
         /\ MaxConcurrency > 0 => currentConcurrency' <= MaxConcurrency
         /\ c = MinConcurrency => currentConcurrency' = MinConcurrency
         /\ idle' \in {"unset", "set", "long"} /\ scaled' \in BOOLEAN
<1>1. /\ currentConcurrency' \in Nat /\ currentConcurrency' >= MinConcurrency
      /\ MaxConcurrency > 0 => currentConcurrency' <= MaxConcurrency
      /\ c = MinConcurrency => currentConcurrency' = MinConcurrency
  BY ConfigAssumption DEF UpdateIdle, Shrinks
<1>2. idle' \in {"unset", "set", "long"} /\ scaled' \in BOOLEAN
  BY DEF UpdateIdle, IInv, TypeOK
<1>3. QED
  BY <1>1, <1>2

\* What all that finishes has in common.
LEMMA FinishKeeps ==
  ASSUME IInv, NEW r \in Requests, Release(r),
         NEW c \in Nat, c >= MinConcurrency, MaxConcurrency > 0 => c <= MaxConcurrency,
         NEW rescaled \in BOOLEAN, UpdateIdle(c, rescaled),
         successes' \in 0..(SuccessWindow - 1), cooling' \in BOOLEAN,
         cooling' => c = MinConcurrency
  PROVE  IInv'
<1>1. TypeOK'
  BY Released, IdleUpdated DEF IInv, TypeOK, probes
<1>2. Accounting'
  BY Released
<1>3. Limits'
  BY Released, ConfigAssumption DEF IInv, TypeOK, Limits
<1>4. CoolingAtMin'
  BY IdleUpdated DEF CoolingAtMin
<1>5. NoLostWakeup'
  BY Released DEF NoLostWakeup
<1>6. QED
  BY <1>1, <1>2, <1>3, <1>4, <1>5 DEF IInv

LEMMA FinishesKeep ==
  ASSUME IInv, NEW r \in Requests, Finish(r)
  PROVE  IInv'
<1> USE ConfigAssumption
<1>1. CASE FinishPressure(r)
  <2> DEFINE c == MinConcurrency
  <2>1. c \in Nat /\ c >= MinConcurrency /\ (MaxConcurrency > 0 => c <= MaxConcurrency)
    OBVIOUS
  <2>2. successes' \in 0..(SuccessWindow - 1)
    BY <1>1 DEF FinishPressure
  <2>3. cooling' \in BOOLEAN /\ Release(r) /\ UpdateIdle(c, TRUE)
    BY <1>1 DEF FinishPressure
  <2>4. cooling' => c = MinConcurrency
    OBVIOUS
  <2> HIDE DEF c
  <2>5. QED
    BY <2>1, <2>2, <2>3, <2>4, FinishKeeps
<1>2. CASE FinishClientError(r)
  BY <1>2, FinishKeeps DEF FinishClientError, IInv, TypeOK, CoolingAtMin
<1>3. CASE FinishSuccess(r)
  <2>1. PICK slowMean : 
          LET grows == canIncrease(slowMean) /\ successes + 1 >= SuccessWindow
          IN  /\ successes' = (IF grows THEN 0
                               ELSE IF canIncrease(slowMean) THEN successes + 1
                               ELSE successes)
              /\ UpdateIdle(currentConcurrency + (IF grows THEN 1 ELSE 0), grows)
    BY <1>3 DEF FinishSuccess
  <2> DEFINE grows == canIncrease(slowMean) /\ successes + 1 >= SuccessWindow
             c == currentConcurrency + (IF grows THEN 1 ELSE 0)
  <2>2. c \in Nat /\ c >= MinConcurrency /\ (MaxConcurrency > 0 => c <= MaxConcurrency)
    BY DEF IInv, TypeOK, canIncrease, maxConcurrencyReached
  <2>3. successes' \in 0..(SuccessWindow - 1)
    BY <2>1 DEF IInv, TypeOK
  <2>4. cooling' = cooling /\ Release(r)
    BY <1>3 DEF FinishSuccess
  <2>5. cooling' => c = MinConcurrency
    BY <2>4 DEF IInv, TypeOK, CoolingAtMin, canIncrease
  <2>6. cooling' \in BOOLEAN
    BY <2>4 DEF IInv, TypeOK
  <2>7. UpdateIdle(c, grows) /\ grows \in BOOLEAN
    BY <2>1 DEF canIncrease
  <2> HIDE DEF c, grows
  <2>8. QED
    BY <2>2, <2>3, <2>4, <2>5, <2>6, <2>7, FinishKeeps
<1>4. QED
  BY <1>1, <1>2, <1>3 DEF Finish
-----------------------------------------------------------------------------
(* The probes and the clock.                                               *)

LEMMA SampledKeeps ==
  ASSUME IInv, NEW over \in BOOLEAN, Sampled(over),
         healthBadWindows' \in 0..HealthBadWindowThreshold,
         capacityBadWindows' \in 0..CapacityBadWindowThreshold
  PROVE  IInv'
<1> USE ConfigAssumption
<1>1. /\ pc' \in [Requests -> Pc]
      /\ \A q \in Requests : /\ pc'[q] # "asleep"
                             /\ (pc'[q] \in Waiting) <=> (pc[q] \in Waiting)
                             /\ (pc'[q] \in {"running"}) <=> (pc[q] \in {"running"})
  BY WokenAll DEF Sampled, IInv, TypeOK
<1>2. /\ currentConcurrency' \in Nat /\ currentConcurrency' >= MinConcurrency
      /\ currentConcurrency' <= currentConcurrency
  BY DEF Sampled, IInv, TypeOK
<1>3. successes' \in 0..(SuccessWindow - 1)
  BY DEF Sampled, IInv, TypeOK
<1>4. scaled' \in BOOLEAN
  BY DEF Sampled, IInv, TypeOK
<1>5. UNCHANGED <<expired, alarms, counts, cooling, slow, idle>>
  BY DEF Sampled
<1>6. TypeOK'
  <2>1. MaxConcurrency > 0 => currentConcurrency' <= MaxConcurrency
    BY <1>2 DEF IInv, TypeOK
  <2>2. QED
    BY <1>1, <1>2, <1>3, <1>4, <1>5, <2>1 DEF IInv, TypeOK, counts
<1>7. Accounting'
  BY <1>1, <1>5, CountsStand DEF IInv
<1>8. Limits'
  BY <1>5 DEF IInv, Limits, counts
<1>9. CoolingAtMin'
  BY <1>2, <1>5 DEF IInv, TypeOK, CoolingAtMin
<1>10. NoLostWakeup'
  BY <1>1 DEF NoLostWakeup
<1>11. QED
  BY <1>6, <1>7, <1>8, <1>9, <1>10 DEF IInv

LEMMA ProbesKeep ==
  ASSUME IInv, NEW bad \in BOOLEAN, HealthSample(bad) \/ CapacitySample(bad)
  PROVE  IInv'
<1> USE ConfigAssumption
<1>1. CASE HealthSample(bad)
  <2>1. /\ healthBadWindows' \in 0..HealthBadWindowThreshold
        /\ capacityBadWindows' \in 0..CapacityBadWindowThreshold
    BY <1>1 DEF HealthSample, Windows, IInv, TypeOK
  <2>2. /\ Sampled(bad /\ healthBadWindows' >= HealthBadWindowThreshold)
        /\ (bad /\ healthBadWindows' >= HealthBadWindowThreshold) \in BOOLEAN
    BY <1>1 DEF HealthSample
  <2>3. QED
    BY <2>1, <2>2, SampledKeeps
<1>2. CASE CapacitySample(bad)
  <2>1. /\ healthBadWindows' \in 0..HealthBadWindowThreshold
        /\ capacityBadWindows' \in 0..CapacityBadWindowThreshold
    BY <1>2 DEF CapacitySample, Windows, IInv, TypeOK
  <2>2. /\ Sampled(bad /\ capacityBadWindows' >= CapacityBadWindowThreshold)
        /\ (bad /\ capacityBadWindows' >= CapacityBadWindowThreshold) \in BOOLEAN
    BY <1>2 DEF CapacitySample
  <2>3. QED
    BY <2>1, <2>2, SampledKeeps
<1>3. QED
  BY <1>1, <1>2

\* The clock and stuttering move nothing the invariant looks at, but to end a
\* cooldown.
LEMMA ClockKeeps ==
  ASSUME IInv, UNCHANGED <<queue, counts, probes, currentConcurrency, successes, slow>>,
         cooling' \in BOOLEAN, cooling' => cooling,
         scaled' \in BOOLEAN, idle' \in {"unset", "set", "long"}
  PROVE  IInv'
<1>1. TypeOK'
  BY DEF IInv, TypeOK, queue, counts, probes
<1>2. Accounting'
  BY CountsStand DEF IInv, queue
<1>3. Limits' /\ CoolingAtMin'
  BY DEF IInv, Limits, CoolingAtMin, counts
<1>4. NoLostWakeup'
  BY DEF IInv, NoLostWakeup, healthGuardrailActive, queue, counts, probes
<1>5. QED
  BY <1>1, <1>2, <1>3, <1>4 DEF IInv

LEMMA NextKeepsIInv == IInv /\ [Next]_vars => IInv'
<1> SUFFICES ASSUME IInv, [Next]_vars PROVE IInv'
  OBVIOUS
<1>1. ASSUME NEW r \in Requests, Acquire(r) PROVE IInv'
  BY <1>1, EnterKeeps, GiveUpKeeps, StartKeeps, SleepKeeps, ExpiryKeeps DEF Acquire
<1>2. ASSUME NEW r \in Requests, Finish(r) PROVE IInv'
  BY <1>2, FinishesKeep
<1>3. ASSUME NEW bad \in BOOLEAN, HealthSample(bad) \/ CapacitySample(bad) PROVE IInv'
  BY <1>3, ProbesKeep
<1>4. CASE CooldownEnds
  BY <1>4, ClockKeeps DEF CooldownEnds, IInv, TypeOK
<1>5. CASE ScaleIntervalEnds
  BY <1>5, ClockKeeps DEF ScaleIntervalEnds, IInv, TypeOK
<1>6. CASE IdlePasses
  BY <1>6, ClockKeeps DEF IdlePasses, IInv, TypeOK
<1>7. CASE UNCHANGED vars
  BY <1>7, ClockKeeps DEF vars, scale, IInv, TypeOK
<1>8. QED
  BY <1>1, <1>2, <1>3, <1>4, <1>5, <1>6, <1>7 DEF Next

LEMMA IInvHolds == Spec => []IInv
  BY InitIInv, NextKeepsIInv, PTL DEF Spec

-----------------------------------------------------------------------------
(* The theorems.                                                           *)

\* The limit that adapts to failures, demand, idling and two probes stays
\* within what normalizeConfig has left of the configuration.
THEOREM TypeCorrect == Spec => []TypeOK
<1>1. IInv => TypeOK
  BY DEF IInv
<1>2. QED
  BY <1>1, IInvHolds, PTL

\* No way out of Acquire or finish leaks a counter: they are the callers that
\* hold a lease or wait.
THEOREM CountersExact == Spec => []Accounting
<1>1. IInv => Accounting
  BY DEF IInv
<1>2. QED
  BY <1>1, IInvHolds, PTL

\* Upstream never gets more requests at once, and the queue never holds more,
\* than the configuration says.
THEOREM WithinBounds == Spec => []Bounds
<1>1. IInv => Bounds
  BY WaitingSplits DEF IInv, Accounting, Limits, Bounds
<1>2. QED
  BY <1>1, IInvHolds, PTL

\* Nothing raises the limit between a failure and the end of its cooldown.
THEOREM CooldownHolds == Spec => []CoolingAtMin
<1>1. IInv => CoolingAtMin
  BY DEF IInv
<1>2. QED
  BY <1>1, IInvHolds, PTL

\* No interactive request sleeps beside a free slot, and nobody while upstream
\* is unhealthy.
THEOREM WakeupsReach == Spec => []NoLostWakeup
<1>1. IInv => NoLostWakeup
  BY DEF IInv
<1>2. QED
  BY <1>1, IInvHolds, PTL
=============================================================================
